------------------------------ MODULE MCSwitch ------------------------------
(* Three ports, two VLANs, two hosts, one multicast group; the switch with   *)
(* its history variable, so that the fabric can be checked along with it.   *)
EXTENDS SwitchFabric, TLC

CONSTANTS p1, p2, p3, h1, h2, group, all, probe

MCPortId == {p1, p2, p3}
MCMac == {h1, h2, group, all, probe}
MCGroupMac == {group, all}

access(v) == [kind |-> "access", vlan |-> v]
trunk(n, a) == [kind |-> "trunk", native |-> n, allowed |-> a]

MCModes == {access(10), access(20), trunk(10, {10, 20}), trunk(NoVlan, {20})}

frame(dst, src, tag, type, payload) ==
  [dst |-> dst, src |-> src, tag |-> tag, ethertype |-> type,
   payload |-> payload, odd |-> << >>]

IPv4 == 2048
OtherId == 6
OwnId == 5

Tag(v) == [pcp |-> 5, dei |-> TRUE, vid |-> v]
Tags == {NoTag, Tag(10), Tag(20)}

\* Data, broadcast and multicast traffic, a forged group source, a priority
\* tag, a QinQ frame, and the probe EtherType with and without its magic.
MCFrames ==
  {frame(d, s, t, IPv4, <<7>>) : d \in {h1, all}, s \in {h1, h2}, t \in Tags}
  \cup {frame(h2, h1, t, IPv4, <<7>>) : t \in Tags}
  \cup {frame(group, h1, NoTag, IPv4, <<7>>), frame(h1, group, NoTag, IPv4, <<7>>),
        frame(h1, h2, Tag(0), IPv4, <<7>>)}
  \cup {frame(h1, h2, t, TPID_802_1Q, <<20, IPv4>>) : t \in Tags \ {NoTag}}
  \cup {frame(h1, h2, t, PROBE_ETHERTYPE, pay) :
          t \in {NoTag, Tag(20)}, pay \in {<< >>, <<7>>, <<PROBE_MAGIC>>}}
  \cup {parse(build_probe(id)) : id \in {OwnId, OtherId}}
  \cup {[parse(build_probe(OwnId)) EXCEPT !.tag = Tag(20)]}

MCProbeIds == {OwnId}

\* What a step depends on, in this instance with one probe id: counters and
\* the history variable are written and never read.
Decisive == <<ports, mac_table>>

\* Ports are treated alike, by the fabric too, and only safety is checked.
Symmetry == Permutations(MCPortId)
=============================================================================
