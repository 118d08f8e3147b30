------------------------------ MODULE MCDaemon ------------------------------
(* Two devices under two topologies that change the mode of one of them, ids *)
(* for three spawns, queues of one frame.                                    *)
EXTENDS Daemon, TLC

CONSTANTS a, b, h1, h2, all, probe

MCName == {a, b}
MCPortId == 0 .. IdLimit - 1
MCMac == {h1, h2, all, probe}
MCGroupMac == {all}

access == [kind |-> "access", vlan |-> 10]
\* The traffic is untagged: this trunk takes none of it, and what it sends gets
\* a tag; as an access port of the other topology the same device takes it.
trunk == [kind |-> "trunk", native |-> NoVlan, allowed |-> {10}]
MCModes == {access, trunk}

MCTopologies ==
  {<<[name |-> a, mode |-> access], [name |-> b, mode |-> trunk]>>,
   <<[name |-> b, mode |-> access]>>}

MCProbeIds == {5}

data == write_into([dst |-> all, src |-> h1, tag |-> NoTag, ethertype |-> 2048,
                    payload |-> <<7>>, odd |-> << >>])

MCReceived ==
  {data, build_probe(5), [dst |-> h1, src |-> h2, words |-> << >>, odd |-> << >>]}

\* A frame that is flooded, and one that does not parse.  Probes come back in
\* LoopedDaemon; here they only make queues longer.
Traffic == {data, [dst |-> h1, src |-> h2, words |-> << >>, odd |-> << >>]}

MCFrames == {parse(wire) : wire \in {w \in MCReceived : Parses(w)}}
=============================================================================
