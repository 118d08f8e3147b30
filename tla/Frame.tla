------------------------------- MODULE Frame -------------------------------
(***************************************************************************)
(* Ethernet II frames with one optional 802.1Q tag: src/frame.  A frame on *)
(* the wire is a record [dst, src, words, odd]: the two MAC addresses,     *)
(* which the codec copies and never inspects, the 16-bit words after them, *)
(* and the byte left over when the length is odd.  words = << >> stands    *)
(* for every input shorter than a bare header, its addresses included.     *)
(***************************************************************************)
EXTENDS Integers, Sequences

CONSTANTS
  Mac,      \* MAC addresses
  NoTag     \* tag: None

U16_MAX == 65535
VID_MAX == 4095               \* 12 bits
Word == 0 .. U16_MAX
TPID_802_1Q == 33024          \* 0x8100
UNTAGGED_HEADER_LEN == 14
TAGGED_HEADER_LEN   == 18

(***************************************************************************)
(* A Dot1qTag holds a u8 pcp and a u16 vid, both wider than the wire: only *)
(* tags that came off the wire (WireTag) are known to be in range.         *)
(***************************************************************************)
Dot1qTag == [pcp : 0 .. 255, dei : BOOLEAN, vid : Word]
WireTag  == [pcp : 0 .. 7, dei : BOOLEAN, vid : 0 .. VID_MAX]

\* The last byte of a payload of odd length, which is half a word.
OddByte == {<< >>} \cup {<<byte>> : byte \in 0 .. 255}

ASSUME TagAssumption == NoTag \notin Dot1qTag

\* Mutant: the priority is masked to two bits.
from_tci_short_pcp(tci) ==
  [pcp |-> (tci \div 8192) % 4,
   dei |-> (tci \div 4096) % 2 = 1,
   vid |-> tci % 4096]

from_tci(tci) ==
  [pcp |-> (tci \div 8192) % 8,
   dei |-> (tci \div 4096) % 2 = 1,
   vid |-> tci % 4096]

\* Out-of-range fields are masked to their wire width, not rejected.
to_tci(tag) ==
  (tag.pcp % 8) * 8192 + (IF tag.dei THEN 4096 ELSE 0) + (tag.vid % 4096)

----------------------------------------------------------------------------

EthernetFrame(Tags) ==
  [dst : Mac, src : Mac, tag : Tags \cup {NoTag},
   ethertype : Word, payload : Seq(Word), odd : OddByte]

WireFrame == [dst : Mac, src : Mac, words : Seq(Word), odd : OddByte]

\* Mutant: the four bytes of the tag are not counted.
wire_len_untagged(f) ==
  UNTAGGED_HEADER_LEN + 2 * Len(f.payload) + Len(f.odd)

wire_len(f) ==
  (IF f.tag = NoTag THEN UNTAGGED_HEADER_LEN ELSE TAGGED_HEADER_LEN)
    + 2 * Len(f.payload) + Len(f.odd)

ByteLen(wire) == 12 + 2 * Len(wire.words) + Len(wire.odd)

Tagged(wire) == Len(wire.words) > 0 /\ wire.words[1] = TPID_802_1Q

TooShort(wire) == ByteLen(wire) < UNTAGGED_HEADER_LEN

\* Mutant: a tagged frame that ends with its header is taken for a cut one.
TruncatedTag_header_only(wire) ==
  Tagged(wire) /\ ByteLen(wire) <= TAGGED_HEADER_LEN

TruncatedTag(wire) == Tagged(wire) /\ ByteLen(wire) < TAGGED_HEADER_LEN
Parses(wire) == ~TooShort(wire) /\ ~TruncatedTag(wire)

\* EthernetFrame::parse, on the inputs it accepts.
parse(wire) ==
  LET w == wire.words
      header == IF Tagged(wire) THEN 3 ELSE 1
  IN  [dst |-> wire.dst, src |-> wire.src,
       tag |-> IF Tagged(wire) THEN from_tci(w[2]) ELSE NoTag,
       ethertype |-> w[header],
       payload |-> SubSeq(w, header + 1, Len(w)),
       odd |-> wire.odd]

\* write_into refuses an untagged frame that parse would read as tagged.
AmbiguousUntaggedEtherType(f) == f.tag = NoTag /\ f.ethertype = TPID_802_1Q

\* The bytes write_into appends, on the frames it accepts.
write_into(f) ==
  [dst |-> f.dst, src |-> f.src,
   words |-> (IF f.tag = NoTag THEN << >> ELSE <<TPID_802_1Q, to_tci(f.tag)>>)
               \o <<f.ethertype>> \o f.payload,
   odd |-> f.odd]

\* What parse can return, and so what reaches the switch.
ParsedFrame ==
  {f \in EthernetFrame(WireTag) : ~AmbiguousUntaggedEtherType(f)}
=============================================================================
