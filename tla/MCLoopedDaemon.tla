--------------------------- MODULE MCLoopedDaemon ---------------------------
(* Two access ports of one VLAN on a segment that may bridge them; a host  *)
(* that broadcasts and a neighbouring switch that probes.                  *)
EXTENDS LoopedDaemon, TLC

CONSTANTS a, b, h1, all, probe

MCName == {a, b}
MCPortId == 0 .. IdLimit - 1
MCMac == {h1, all, probe}
MCGroupMac == {all}

access == [kind |-> "access", vlan |-> 10]
MCModes == {access}
MCTopologies == {<<[name |-> a, mode |-> access], [name |-> b, mode |-> access]>>}

OneId == {5}
TwoIds == {5, 6}
OtherId == 7

data == write_into([dst |-> all, src |-> h1, tag |-> NoTag, ethertype |-> 2048,
                    payload |-> <<7>>, odd |-> << >>])

DataOnly == {data}
OtherProbe == {build_probe(OtherId)}
MCReceived == DataOnly \cup OtherProbe \cup {build_probe(id) : id \in ProbeIds}
MCFrames == {parse(wire_bytes) : wire_bytes \in MCReceived}
=============================================================================
