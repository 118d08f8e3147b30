----------------------------- MODULE FrameProofs -----------------------------
(***************************************************************************)
(* The codec harness, for every set of inputs.                             *)
(***************************************************************************)
EXTENDS FrameCodec, DataLemmas

\* A tag that is too wide for the wire is written as the tag it is masked to.
LEMMA MaskedTag ==
  ASSUME NEW tag \in Dot1qTag
  PROVE  OnWire(tag) \in WireTag /\ to_tci(OnWire(tag)) = to_tci(tag)
<1>1. tag.pcp \in Int /\ tag.vid \in Int /\ tag.dei \in BOOLEAN
  <2>1. tag.pcp \in Int
    BY DEF Dot1qTag
  <2>2. tag.dei \in BOOLEAN
    BY DEF Dot1qTag
  <2>3. tag.vid \in Word
    BY DEF Dot1qTag
  <2> QED BY <2>1, <2>2, <2>3, InWord
<1>2. /\ tag.pcp % 8 \in 0 .. 7 /\ (tag.pcp % 8) % 8 = tag.pcp % 8
      /\ tag.vid % 4096 \in Int /\ 0 <= tag.vid % 4096 /\ tag.vid % 4096 <= 4095
      /\ (tag.vid % 4096) % 4096 = tag.vid % 4096
  BY <1>1
<1>3. tag.vid % 4096 \in 0 .. VID_MAX
  BY <1>2, InVid
<1>4. OnWire(tag) \in WireTag
  BY <1>1, <1>2, <1>3 DEF OnWire, WireTag
<1>5. to_tci(OnWire(tag)) = to_tci(tag)
  <2>1. /\ OnWire(tag).pcp = tag.pcp % 8
        /\ OnWire(tag).dei = tag.dei
        /\ OnWire(tag).vid = tag.vid % 4096
    BY DEF OnWire
  <2>2. /\ OnWire(tag).pcp % 8 = tag.pcp % 8
        /\ OnWire(tag).vid % 4096 = tag.vid % 4096
    BY <1>2, <2>1
  <2>3. (IF OnWire(tag).dei THEN 4096 ELSE 0) = (IF tag.dei THEN 4096 ELSE 0)
    BY <2>1
  <2> QED BY <2>2, <2>3 DEF to_tci
<1> QED BY <1>4, <1>5

\* A hand-built frame as its tag survives the wire.
Masked(f) == IF f.tag = NoTag THEN f ELSE [f EXCEPT !.tag = OnWire(@)]

LEMMA MaskedFrame ==
  ASSUME NEW f \in EthernetFrame(Dot1qTag), ~AmbiguousUntaggedEtherType(f)
  PROVE  /\ Parses(write_into(f))
         /\ parse(write_into(f)) = Masked(f)
<1>1. CASE f.tag = NoTag
  <2>1. f \in EthernetFrame(WireTag) /\ Masked(f) = f
    BY <1>1 DEF EthernetFrame, Masked
  <2> QED BY <2>1, WriteParse
<1>2. CASE f.tag # NoTag
  <2>1. f.tag \in Dot1qTag
    BY <1>2 DEF EthernetFrame
  <2>2. /\ OnWire(f.tag) \in WireTag
        /\ to_tci(OnWire(f.tag)) = to_tci(f.tag)
        /\ OnWire(f.tag) # NoTag
    BY <2>1, MaskedTag, NoTagNotOnWire
  <2>3. /\ Masked(f) \in EthernetFrame(WireTag)
        /\ Masked(f).tag = OnWire(f.tag)
        /\ Masked(f).dst = f.dst /\ Masked(f).src = f.src
        /\ Masked(f).ethertype = f.ethertype
        /\ Masked(f).payload = f.payload /\ Masked(f).odd = f.odd
    BY <1>2, <2>2 DEF EthernetFrame, Masked
  <2>4. write_into(Masked(f)) = write_into(f)
    BY <1>2, <2>2, <2>3, Zenon DEF write_into
  <2>5. ~AmbiguousUntaggedEtherType(Masked(f))
    BY <2>2, <2>3 DEF AmbiguousUntaggedEtherType
  <2> QED BY <2>3, <2>4, <2>5, WriteParse
<1> QED BY <1>1, <1>2

----------------------------------------------------------------------------
(***************************************************************************)
(* What each stage of the harness knows of its input and its value.        *)
(***************************************************************************)
Inv ==
  /\ stage \in {"idle", "fed", "parsed", "rewritten", "built", "written",
                "reparsed", "parse error", "write error"}
  /\ stage = "fed" => input \in WireInputs /\ value = input
  /\ stage = "parsed" =>
       input \in WireInputs /\ Parses(input) /\ value = parse(input)
  /\ stage = "rewritten" => value = input
  /\ stage = "built" => input \in BuiltFrames /\ value = input
  /\ stage = "written" =>
       /\ input \in BuiltFrames
       /\ ~AmbiguousUntaggedEtherType(input)
       /\ value = write_into(input)
  /\ stage = "reparsed" => input \in BuiltFrames /\ value = Masked(input)
  /\ stage = "write error" => input \in BuiltFrames
  /\ stage = "parse error" => input \in WireInputs /\ ~Parses(input)

LEMMA NextInv == Inv /\ [Next]_vars => Inv'
<1> SUFFICES ASSUME Inv, [Next]_vars PROVE Inv'
  OBVIOUS
<1>1. ASSUME NEW wire \in WireInputs, Feed(wire) PROVE Inv'
  BY <1>1 DEF Feed, Inv
<1>2. ASSUME NEW f \in BuiltFrames, Build(f) PROVE Inv'
  BY <1>2 DEF Build, Inv
<1>3. CASE Parse("fed", "parsed")
  BY <1>3 DEF Parse, Inv
<1>4. CASE Write("parsed", "rewritten")
  <2>1. /\ input \in WireFrame /\ Parses(input) /\ value = parse(input)
        /\ stage = "parsed" /\ input' = input
    BY <1>4, InputAssumption DEF Write, Inv
  <2>2. ~AmbiguousUntaggedEtherType(value) /\ write_into(value) = input
    BY <2>1, ParseWrite DEF ParsedFrame
  <2> QED BY <1>4, <2>1, <2>2 DEF Write, Inv
<1>5. CASE Write("built", "written")
  BY <1>5 DEF Write, Inv
<1>6. CASE Parse("written", "reparsed")
  <2>1. /\ input \in EthernetFrame(Dot1qTag) /\ input \in BuiltFrames
        /\ ~AmbiguousUntaggedEtherType(input)
        /\ value = write_into(input) /\ stage = "written" /\ input' = input
    BY <1>6, InputAssumption DEF Parse, Inv
  <2>2. Parses(value) /\ parse(value) = Masked(input)
    BY <2>1, MaskedFrame
  <2> QED BY <1>6, <2>1, <2>2 DEF Parse, Inv
<1>7. CASE Again
  BY <1>7 DEF Again, Inv
<1>8. CASE UNCHANGED vars
  BY <1>8 DEF vars, Inv
<1> QED BY <1>1, <1>2, <1>3, <1>4, <1>5, <1>6, <1>7, <1>8 DEF Next

LEMMA Invariance == Spec => []Inv
<1>1. Init => Inv
  BY DEF Init, Inv
<1> QED BY <1>1, NextInv, PTL DEF Spec

(***************************************************************************)
(* Any bytes that parse are written back as the bytes that were read, and  *)
(* what parse returns is never refused by write_into; bytes parse refuses  *)
(* are not those of any frame write_into accepts.                          *)
(***************************************************************************)
THEOREM BytesRoundTripHolds == Spec => []BytesRoundTrip
<1>1. \A f \in BuiltFrames :
        ~AmbiguousUntaggedEtherType(f) => Parses(write_into(f))
  BY MaskedFrame, InputAssumption
<1>2. Inv => BytesRoundTrip
  BY <1>1 DEF Inv, BytesRoundTrip
<1> QED BY <1>2, Invariance, PTL

(***************************************************************************)
(* Any frame write_into accepts parses back to itself, with its tag masked *)
(* to the width of the wire; it is never refused.                          *)
(***************************************************************************)
THEOREM FrameRoundTripHolds == Spec => []FrameRoundTrip
<1>1. Inv => FrameRoundTrip
  BY DEF Inv, FrameRoundTrip, Masked
<1> QED BY <1>1, Invariance, PTL

(***************************************************************************)
(* wire_len is the length of what write_into produces, for every frame.    *)
(***************************************************************************)
THEOREM WireLenIsExactHolds == Spec => []WireLenIsExact
<1>1. Inv => WireLenIsExact
  BY WireLen, InputAssumption DEF Inv, WireLenIsExact
<1> QED BY <1>1, Invariance, PTL
=============================================================================
