----------------------------- MODULE FrameCodec -----------------------------
(***************************************************************************)
(* The frame codec exercised the two ways the repository exercises it: the *)
(* fuzz target feeds arbitrary bytes to parse and re-encodes what parsed;  *)
(* tests/frame_roundtrip.rs writes hand-built frames and parses them back. *)
(* Each run of the harness takes one input through two codec calls.        *)
(***************************************************************************)
EXTENDS Frame

CONSTANTS
  WireInputs,   \* byte strings the fuzzer feeds
  BuiltFrames   \* frames built by hand, their tags not necessarily in range

ASSUME InputAssumption ==
  /\ WireInputs \subseteq WireFrame
  /\ BuiltFrames \subseteq EthernetFrame(Dot1qTag)

VARIABLES
  stage,   \* which call of the harness comes next, or how it ended
  input,   \* the bytes or the frame the run started from
  value    \* the result of the last codec call

vars == <<stage, input, value>>

Init == stage = "idle" /\ input = NoTag /\ value = NoTag

Feed(wire) ==
  /\ stage = "idle"
  /\ stage' = "fed"
  /\ input' = wire /\ value' = wire

Build(f) ==
  /\ stage = "idle"
  /\ stage' = "built"
  /\ input' = f /\ value' = f

\* EthernetFrame::parse on fuzzed bytes, or on what write_into produced.
Parse(from, to) ==
  /\ stage = from
  /\ IF Parses(value)
     THEN stage' = to /\ value' = parse(value)
     ELSE stage' = "parse error" /\ UNCHANGED value
  /\ UNCHANGED input

\* EthernetFrame::write_into on a parsed frame, or on a hand-built one.
Write(from, to) ==
  /\ stage = from
  /\ IF AmbiguousUntaggedEtherType(value)
     THEN stage' = "write error" /\ UNCHANGED value
     ELSE stage' = to /\ value' = write_into(value)
  /\ UNCHANGED input

Again ==
  /\ stage \in {"rewritten", "reparsed", "parse error", "write error"}
  /\ stage' = "idle" /\ input' = NoTag /\ value' = NoTag

Next ==
  \/ \E wire \in WireInputs : Feed(wire)
  \/ \E f \in BuiltFrames : Build(f)
  \/ Parse("fed", "parsed")
  \/ Write("parsed", "rewritten")
  \/ Write("built", "written")
  \/ Parse("written", "reparsed")
  \/ Again

Spec == Init /\ [][Next]_vars

----------------------------------------------------------------------------
(***************************************************************************)
(* docs/design.md, "The 802.1Q frame": whatever parses is re-encodable and *)
(* comes back as the very bytes that were read, QinQ-shaped, priority-     *)
(* tagged and reserved-VID frames included; and parse does not make this   *)
(* easy for itself: what it refuses is nothing a frame is written as.      *)
(***************************************************************************)
BytesRoundTrip ==
  /\ stage = "rewritten" => value = input
  /\ stage = "write error" => input \in BuiltFrames
  /\ stage = "parse error" =>
       \A f \in BuiltFrames :
         ~AmbiguousUntaggedEtherType(f) => write_into(f) # input

\* The tag as it survives the wire: to_tci masks, it never spills a field
\* into its neighbour.
OnWire(tag) ==
  [pcp |-> tag.pcp % 8, dei |-> tag.dei, vid |-> tag.vid % 4096]

(***************************************************************************)
(* A frame write_into accepts parses back to itself, tag fields wider than *)
(* the wire excepted: those lose their high bits and disturb nothing else. *)
(* Parse never refuses what write_into produced, not even a frame that     *)
(* ends with its header: a parse error comes of bytes that were fed.       *)
(***************************************************************************)
FrameRoundTrip ==
  /\ stage = "reparsed" =>
       value = IF input.tag = NoTag THEN input
               ELSE [input EXCEPT !.tag = OnWire(@)]
  /\ stage = "parse error" => input \in WireInputs

(***************************************************************************)
(* wire_len, from which the byte counters are computed, is the length of   *)
(* what write_into really produces.                                        *)
(***************************************************************************)
WireLenIsExact ==
  stage = "written" => ByteLen(value) = wire_len(input)
=============================================================================
