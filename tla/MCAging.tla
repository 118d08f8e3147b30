------------------------------ MODULE MCAging ------------------------------
(* Two hosts on two ports, an address limit of three units of time and a   *)
(* sweep every two; and the counters, over any number of frames.           *)
EXTENDS Aging, TLC

CONSTANTS p1, p2, h1, h2, all, probe

MCPortId == {p1, p2}
MCMac == {h1, h2, all, probe}
MCGroupMac == {all}
MCModes == {[kind |-> "access", vlan |-> 10],
            [kind |-> "trunk", native |-> NoVlan, allowed |-> {10, 20}]}
MCProbeIds == {5}

frame(dst, src, tag, type) ==
  [dst |-> dst, src |-> src, tag |-> tag, ethertype |-> type, payload |-> <<7>>,
   odd |-> <<1>>]

Tag(v) == [pcp |-> 5, dei |-> TRUE, vid |-> v]

\* Data that is learned from, a broadcast and a QinQ frame that are not, which
\* is counted in, and counted out only where it can be sent; and a probe.
MCFrames ==
  {frame(h1, h2, NoTag, 2048), frame(h2, h1, NoTag, 2048),
   frame(all, h1, Tag(10), 2048),
   frame(all, all, Tag(20), 2048), frame(all, all, Tag(10), TPID_802_1Q),
   parse(build_probe(5))}

\* What a step and the properties depend on: the numbers in the counters are
\* written and never read.
Decisive == <<ports, mac_table, DOMAIN port_counters, clock>>

Symmetry == Permutations(MCPortId)
=============================================================================
