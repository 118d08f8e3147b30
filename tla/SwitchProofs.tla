---------------------------- MODULE SwitchProofs ----------------------------
(***************************************************************************)
(* Proofs about Switch, for every set of ports, modes, frames and          *)
(* addresses: where frames go, what is counted, and the refinement of the  *)
(* fabric.  Inv is the inductive invariant: the parts of the state that    *)
(* decide where frames go are typed, and every route is valid.  Counting   *)
(* has an invariant of its own, CountInv, on top of it.                    *)
(***************************************************************************)
EXTENDS SwitchFabric, DataLemmas

CoreTypeOK ==
  /\ PortsTypeOK
  /\ RoutesTypeOK
  /\ probe_id \in ProbeIds

Inv == CoreTypeOK /\ RoutesValid /\ NoGroupRoutes

----------------------------------------------------------------------------
\* Operations on maps

LEMMA InsertIsMap ==
  ASSUME NEW K, NEW V, NEW map, IsMap(map, K, V), NEW key \in K, NEW value \in V
  PROVE  IsMap(insert(map, key, value), K, V)
BY DEF IsMap, insert

LEMMA RestrictIsMap ==
  ASSUME NEW K, NEW V, NEW map, IsMap(map, K, V), NEW S \in SUBSET DOMAIN map
  PROVE  IsMap(Restrict(map, S), K, V)
BY DEF IsMap, Restrict

\* A frame is accepted only into an assignable VLAN that its port carries.
LEMMA IngressCarries ==
  ASSUME NEW mode \in PortMode, NEW f \in ParsedFrame,
         ingress_vlan(mode, f) # NoVlan
  PROVE  /\ ingress_vlan(mode, f) \in Assignable
         /\ carries(mode, ingress_vlan(mode, f))
<1>1. CASE mode \in Access
  BY <1>1 DEF Access, ingress_vlan, carries
<1>2. CASE mode \in Trunk
  <2>1. /\ mode.kind = "trunk"
        /\ mode.allowed \subseteq Assignable
        /\ mode.native \in Assignable \cup {NoVlan}
    BY <1>2 DEF Trunk
  <2> QED BY <2>1 DEF ingress_vlan, carries
<1> QED BY <1>1, <1>2 DEF PortMode

----------------------------------------------------------------------------
\* The steps.  Each lemma is one way the invariant can be disturbed.

\* Routes that survive a purge of port p stay valid when nothing changes but
\* that port's registration.
LEMMA PurgeStep ==
  ASSUME Inv, NEW p \in PortId,
         mac_table' = purge_port(mac_table, p),
         IsMap(ports', PortId, PortEntry),
         \A q \in DOMAIN ports \ {p} : q \in DOMAIN ports' /\ ports'[q] = ports[q],
         probe_id' = probe_id
  PROVE  Inv'
<1>1. PortsTypeOK' /\ probe_id' \in ProbeIds
  BY DEF Inv, CoreTypeOK, PortsTypeOK
<1>2. RoutesTypeOK'
  BY RestrictIsMap DEF Inv, CoreTypeOK, RoutesTypeOK, purge_port
<1>3. RoutesValid'
  <2> SUFFICES ASSUME NEW k \in DOMAIN mac_table'
               PROVE  RouteValid(k[1], k[2])'
    BY DEF RoutesValid
  <2>1. k \in DOMAIN mac_table /\ mac_table'[k] = mac_table[k] /\ mac_table[k].port # p
    BY DEF purge_port, Restrict
  <2>2. k = <<k[1], k[2]>>
    BY <2>1 DEF Inv, CoreTypeOK, RoutesTypeOK, IsMap
  <2>3. RouteValid(k[1], k[2])
    BY <2>1 DEF Inv, RoutesValid
  <2> QED BY <2>1, <2>2, <2>3 DEF RouteValid, lookup
<1>4. NoGroupRoutes'
  BY DEF Inv, NoGroupRoutes, purge_port, Restrict
<1> QED BY <1>1, <1>2, <1>3, <1>4 DEF Inv, CoreTypeOK

LEMMA AddPortStep ==
  ASSUME Inv, NEW p \in PortId, NEW mode \in Modes, add_port(p, mode)
  PROVE  Inv'
<1>1. [mode |-> mode, blocked |-> FALSE] \in PortEntry
  BY DEF PortEntry
<1>2. IsMap(ports', PortId, PortEntry)
  BY <1>1, InsertIsMap DEF add_port, Inv, CoreTypeOK, PortsTypeOK
<1>3. \A q \in DOMAIN ports \ {p} : q \in DOMAIN ports' /\ ports'[q] = ports[q]
  BY DEF add_port, insert
<1> QED BY <1>2, <1>3, PurgeStep DEF add_port

LEMMA RemovePortStep ==
  ASSUME Inv, NEW p \in PortId, remove_port(p)
  PROVE  Inv'
<1>1. IsMap(ports', PortId, PortEntry)
  BY RestrictIsMap DEF remove_port, Inv, CoreTypeOK, PortsTypeOK
<1>2. \A q \in DOMAIN ports \ {p} : q \in DOMAIN ports' /\ ports'[q] = ports[q]
  BY DEF remove_port, Restrict
<1> QED BY <1>1, <1>2, PurgeStep DEF remove_port

\* Blocking or unblocking touches one entry, and only its flag.
LEMMA SetBlocked ==
  ASSUME PortsTypeOK, NEW p, NEW flag \in BOOLEAN, set_blocked(p, flag)
  PROVE  /\ IsMap(ports', PortId, PortEntry)
         /\ DOMAIN ports' = DOMAIN ports
         /\ \A q \in DOMAIN ports :
              /\ ports'[q].mode = ports[q].mode
              /\ q # p => ports'[q] = ports[q]
              /\ q = p => ports'[q].blocked = flag
BY DEF PortsTypeOK, IsMap, PortEntry, set_blocked

LEMMA BlockPortStep ==
  ASSUME Inv, NEW p \in PortId, block_port(p)
  PROVE  Inv'
<1>1. set_blocked(p, TRUE) /\ PortsTypeOK
  BY DEF block_port, Inv, CoreTypeOK
<1> QED BY <1>1, SetBlocked, PurgeStep DEF block_port

LEMMA UnblockPortStep ==
  ASSUME Inv, NEW p \in PortId, unblock_port(p)
  PROVE  Inv'
<1>1. set_blocked(p, FALSE) /\ PortsTypeOK
  BY DEF unblock_port, Inv, CoreTypeOK
<1>2. PortsTypeOK' /\ UNCHANGED <<mac_table, probe_id>>
  BY <1>1, SetBlocked DEF PortsTypeOK, unblock_port
<1>3. /\ DOMAIN ports' = DOMAIN ports
      /\ \A q \in DOMAIN ports : ports'[q].mode = ports[q].mode
      /\ \A q \in DOMAIN ports : ~ports[q].blocked => ~ports'[q].blocked
  BY <1>1, SetBlocked
<1>4. RoutesValid'
  <2> SUFFICES ASSUME NEW k \in DOMAIN mac_table
               PROVE  RouteValid(k[1], k[2])'
    BY <1>2 DEF RoutesValid
  <2>1. PICK q \in DOMAIN ports :
           /\ q = lookup(mac_table, k[1], k[2])
           /\ ~ports[q].blocked /\ carries(ports[q].mode, k[1])
    BY DEF Inv, RoutesValid, RouteValid
  <2>2. lookup(mac_table, k[1], k[2])' = q
    BY <1>2, <2>1 DEF lookup
  <2>3. q \in DOMAIN ports' /\ ports'[q].mode = ports[q].mode
    BY <1>3, <2>1
  <2>4. ~ports'[q].blocked
    BY <1>3, <2>1
  <2> QED BY <2>1, <2>2, <2>3, <2>4 DEF RouteValid
<1> QED BY <1>2, <1>4 DEF Inv, CoreTypeOK, RoutesTypeOK, NoGroupRoutes

\* Fewer routes, or routes that only grow older.
LEMMA AgingStep ==
  ASSUME Inv, age_out \/ Tick
  PROVE  Inv'
<1>1. /\ DOMAIN mac_table' \subseteq DOMAIN mac_table
      /\ \A k \in DOMAIN mac_table' : mac_table'[k].port = mac_table[k].port
  <2>1. CASE age_out
    BY <2>1 DEF age_out, evict_older_than, Restrict
  <2>2. CASE Tick
    BY <2>2 DEF Tick, elapse, Inv, CoreTypeOK, RoutesTypeOK, IsMap
  <2> QED BY <2>1, <2>2
<1>2. RoutesTypeOK'
  <2>1. CASE age_out
    BY <2>1, RestrictIsMap
       DEF age_out, evict_older_than, Inv, CoreTypeOK, RoutesTypeOK
  <2>2. CASE Tick
    BY <2>2, SwitchAssumption
       DEF Tick, elapse, Inv, CoreTypeOK, RoutesTypeOK, IsMap
  <2> QED BY <2>1, <2>2
<1>3. UNCHANGED <<ports, probe_id>>
  BY DEF age_out, Tick
<1>4. RoutesValid'
  <2> SUFFICES ASSUME NEW k \in DOMAIN mac_table'
               PROVE  RouteValid(k[1], k[2])'
    BY DEF RoutesValid
  <2>1. k \in DOMAIN mac_table /\ k = <<k[1], k[2]>>
    BY <1>1 DEF Inv, CoreTypeOK, RoutesTypeOK, IsMap
  <2>2. RouteValid(k[1], k[2])
    BY <2>1 DEF Inv, RoutesValid
  <2> QED BY <1>1, <1>3, <2>1, <2>2 DEF RouteValid, lookup
<1> QED BY <1>1, <1>2, <1>3, <1>4 DEF Inv, CoreTypeOK, PortsTypeOK, NoGroupRoutes

\* A frame from a host, accepted from p, teaches that the host is behind p.
LEMMA ForwardAcceptStep ==
  ASSUME Inv, NEW p \in PortId, NEW f \in Frames, forward_accept(p, f)
  PROVE  Inv'
<1> DEFINE vlan == ingress_vlan(ports[p].mode, f)
<1>1. /\ p \in DOMAIN ports /\ ~ports[p].blocked
      /\ ports[p] \in PortEntry
      /\ f \in ParsedFrame
  BY SwitchAssumption
     DEF forward_accept, accepts, Inv, CoreTypeOK, PortsTypeOK, IsMap
<1>2. vlan \in Assignable /\ carries(ports[p].mode, vlan)
  BY <1>1, IngressCarries, SwitchAssumption DEF forward_accept, accepts, PortEntry
<1>3. f.src \in Mac
  BY <1>1 DEF ParsedFrame, EthernetFrame
<1>4. UNCHANGED <<ports, probe_id>> /\ mac_table' = learned(p, vlan, f)
  BY DEF forward_accept
<1>5. CASE f.src \in GroupMac
  BY <1>4, <1>5 DEF learned, Inv, CoreTypeOK, PortsTypeOK, RoutesTypeOK,
                    RoutesValid, RouteValid, NoGroupRoutes
<1>6. CASE f.src \notin GroupMac
  <2> DEFINE key == <<vlan, f.src>>
  <2>1. /\ mac_table' = insert(mac_table, key, [port |-> p, age |-> 0])
        /\ key \in Assignable \X Mac
    BY <1>2, <1>3, <1>4, <1>6 DEF learned, learn
  <2>2. RoutesTypeOK'
    <3>1. [port |-> p, age |-> 0] \in [port : PortId, age : 0 .. MaxAge]
      BY SwitchAssumption
    <3> QED BY <2>1, <3>1, InsertIsMap DEF Inv, CoreTypeOK, RoutesTypeOK
  <2>3. ASSUME NEW k \in DOMAIN mac_table'
        PROVE  RouteValid(k[1], k[2])' /\ k[2] \notin GroupMac
    <3>1. k = <<k[1], k[2]>>
      BY <2>2 DEF RoutesTypeOK, IsMap
    <3>2. CASE k = key
      <4>1. lookup(mac_table', k[1], k[2]) = p
        BY <2>1, <3>1, <3>2 DEF insert, lookup
      <4>2. k[1] = vlan /\ k[2] = f.src
        BY <3>2
      <4> HIDE DEF vlan
      <4> QED BY <1>1, <1>2, <1>4, <1>6, <4>1, <4>2 DEF RouteValid
    <3>3. CASE k # key
      <4>1. k \in DOMAIN mac_table /\ mac_table'[k] = mac_table[k]
        BY <2>1, <3>3 DEF insert
      <4>2. RouteValid(k[1], k[2]) /\ k[2] \notin GroupMac
        BY <4>1 DEF Inv, RoutesValid, NoGroupRoutes
      <4> QED BY <1>4, <3>1, <4>1, <4>2 DEF RouteValid, lookup
    <3> QED BY <3>2, <3>3
  <2> QED
    BY <1>4, <2>2, <2>3
       DEF Inv, CoreTypeOK, PortsTypeOK, RoutesValid, NoGroupRoutes
<1> QED BY <1>5, <1>6

\* A call that leaves ports, table and identity alone.
LEMMA QuietStep ==
  ASSUME Inv, UNCHANGED <<ports, mac_table, probe_id>>
  PROVE  Inv'
BY DEF Inv, CoreTypeOK, PortsTypeOK, RoutesTypeOK, RoutesValid, RouteValid,
       NoGroupRoutes

LEMMA ForwardStep ==
  ASSUME Inv, NEW p \in PortId, NEW f \in Frames, forward(p, f)
  PROVE  Inv'
<1>1. CASE handle_loop_probe(p, f)
  <2>1. CASE is_own_probe(f, probe_id)
    BY <1>1, <2>1, BlockPortStep DEF handle_loop_probe
  <2>2. CASE ~is_own_probe(f, probe_id)
    BY <1>1, <2>2, QuietStep DEF handle_loop_probe, vars
  <2> QED BY <2>1, <2>2
<1>2. CASE forward_drop(p, f)
  BY <1>2, QuietStep DEF forward_drop
<1>3. CASE forward_accept(p, f)
  BY <1>3, ForwardAcceptStep
<1>4. CASE UNCHANGED vars
  BY <1>4, QuietStep DEF vars
<1> QED BY <1>1, <1>2, <1>3, <1>4 DEF forward

LEMMA InitInv == Init => Inv
BY DEF Init, Inv, CoreTypeOK, PortsTypeOK, RoutesTypeOK, IsMap, RoutesValid,
       NoGroupRoutes

LEMMA NextInv == Inv /\ [Next]_vars => Inv'
<1> SUFFICES ASSUME Inv, [Next]_vars PROVE Inv'
  OBVIOUS
<1>1. ASSUME NEW p \in PortId, NEW mode \in Modes, add_port(p, mode) PROVE Inv'
  BY <1>1, AddPortStep
<1>2. ASSUME NEW p \in PortId, remove_port(p) PROVE Inv'
  BY <1>2, RemovePortStep
<1>3. ASSUME NEW p \in PortId, block_port(p) PROVE Inv'
  BY <1>3, BlockPortStep
<1>4. ASSUME NEW p \in PortId, unblock_port(p) PROVE Inv'
  BY <1>4, UnblockPortStep
<1>5. CASE age_out \/ Tick
  BY <1>5, AgingStep
<1>6. ASSUME NEW p \in PortId, NEW f \in Frames, forward(p, f) PROVE Inv'
  BY <1>6, ForwardStep
<1>7. CASE UNCHANGED vars
  BY <1>7, QuietStep DEF vars
<1> QED BY <1>1, <1>2, <1>3, <1>4, <1>5, <1>6, <1>7 DEF Next

(***************************************************************************)
(* The invariant holds in every reachable state, whatever the ports, modes *)
(* and frames the switch is used with.                                     *)
(***************************************************************************)
THEOREM Invariance == Spec => []Inv
BY InitInv, NextInv, PTL DEF Spec
(***************************************************************************)
(* The part of the type invariant that decides where frames go.            *)
(***************************************************************************)
THEOREM CoreTypeOKHolds == Spec => []CoreTypeOK
<1>1. Inv => CoreTypeOK
  BY DEF Inv
<1> QED BY <1>1, Invariance, PTL

(***************************************************************************)
(* No stale route survives a port that was removed, blocked or given       *)
(* another mode.                                                           *)
(***************************************************************************)
THEOREM RoutesValidHolds == Spec => []RoutesValid
<1>1. Inv => RoutesValid
  BY DEF Inv
<1> QED BY <1>1, Invariance, PTL

(***************************************************************************)
(* No group address is ever learned.                                       *)
(***************************************************************************)
THEOREM NoGroupRoutesHolds == Spec => []NoGroupRoutes
<1>1. Inv => NoGroupRoutes
  BY DEF Inv
<1> QED BY <1>1, Invariance, PTL

----------------------------------------------------------------------------
\* What a call that accepts a frame knows of its ingress.
LEMMA Accepted ==
  ASSUME Inv, NEW p \in PortId, NEW f \in Frames, accepts(p, f)
  PROVE  /\ p \in DOMAIN ports /\ ~ports[p].blocked
         /\ ports[p].mode \in PortMode
         /\ f \in ParsedFrame
         /\ ingress_vlan(ports[p].mode, f) \in Assignable
         /\ carries(ports[p].mode, ingress_vlan(ports[p].mode, f))
<1>1. p \in DOMAIN ports /\ ~ports[p].blocked /\ f \in ParsedFrame
  BY SwitchAssumption DEF accepts
<1>2. ports[p].mode \in PortMode
  BY <1>1, SwitchAssumption DEF Inv, CoreTypeOK, PortsTypeOK, IsMap, PortEntry
<1> QED BY <1>1, <1>2, IngressCarries DEF accepts

\* The table a destination is looked up in: the new route, or an old one.
LEMMA EgressOfRoute ==
  ASSUME NEW p, NEW vlan, NEW f,
         known(learned(p, vlan, f), vlan, f.dst),
         lookup(learned(p, vlan, f), vlan, f.dst) # p
  PROVE  /\ known(mac_table, vlan, f.dst)
         /\ lookup(learned(p, vlan, f), vlan, f.dst)
              = lookup(mac_table, vlan, f.dst)
<1>1. CASE f.src \in GroupMac
  BY <1>1 DEF learned
<1>2. CASE f.src \notin GroupMac
  <2>1. learned(p, vlan, f)
          = insert(mac_table, <<vlan, f.src>>, [port |-> p, age |-> 0])
    BY <1>2 DEF learned, learn
  <2>2. <<vlan, f.dst>> # <<vlan, f.src>>
    BY <2>1 DEF lookup, insert
  <2> QED BY <2>1, <2>2 DEF known, lookup, insert
<1> QED BY <1>1, <1>2

\* Every port a frame is sent to is another open port of its VLAN.
LEMMA TargetsCarry ==
  ASSUME Inv, NEW p \in PortId, NEW f \in Frames, NEW q \in targets(p, f)
  PROVE  /\ accepts(p, f)
         /\ q \in DOMAIN ports \ {p}
         /\ ~ports[q].blocked
         /\ carries(ports[q].mode, ingress_vlan(ports[p].mode, f))
         /\ encodable(q, ingress_vlan(ports[p].mode, f), f)
<1> DEFINE vlan == ingress_vlan(ports[p].mode, f)
<1>1. /\ accepts(p, f)
      /\ q \in egress_ports(p, vlan, f)
      /\ encodable(q, vlan, f)
  BY DEF targets
<1>2. q \in DOMAIN ports /\ ~ports[q].blocked
  BY <1>1 DEF encodable
<1>3. CASE f.dst # BROADCAST /\ known(learned(p, vlan, f), vlan, f.dst)
  <2>1. q = lookup(learned(p, vlan, f), vlan, f.dst) /\ q # p
    BY <1>1, <1>3 DEF egress_ports
  <2>2. known(mac_table, vlan, f.dst) /\ q = lookup(mac_table, vlan, f.dst)
    BY <1>3, <2>1, EgressOfRoute
  <2>3. RouteValid(vlan, f.dst)
    BY <2>2 DEF Inv, RoutesValid, known
  <2> QED BY <1>1, <1>2, <2>1, <2>2, <2>3 DEF RouteValid
<1>4. CASE ~(f.dst # BROADCAST /\ known(learned(p, vlan, f), vlan, f.dst))
  <2>1. q \in flood_targets(vlan, p)
    BY <1>1, <1>4 DEF egress_ports
  <2> QED BY <1>1, <1>2, <2>1 DEF flood_targets
<1> QED BY <1>3, <1>4

LEMMA Isolation == Inv => VlanIsolation
<1> SUFFICES ASSUME Inv, NEW p \in PortId, NEW f \in Frames,
                    NEW d \in deliveries(p, f)
             PROVE  /\ d.port \in DOMAIN ports \ {p}
                    /\ ~ports[p].blocked /\ ~ports[d.port].blocked
                    /\ carries(ports[p].mode, ingress_vlan(ports[p].mode, f))
                    /\ carries(ports[d.port].mode, ingress_vlan(ports[p].mode, f))
  BY DEF VlanIsolation
<1>1. d.port \in targets(p, f)
  BY DEF deliveries, encode_for_egress
<1> QED BY <1>1, TargetsCarry, Accepted

(***************************************************************************)
(* VLAN isolation, for every topology and every history of calls: a frame  *)
(* never reaches a port that does not carry the VLAN it arrived in, nor a  *)
(* blocked port, nor the port it came from.                                *)
(***************************************************************************)
THEOREM VlanIsolationHolds == Spec => []VlanIsolation
BY Isolation, Invariance, PTL
----------------------------------------------------------------------------
LEMMA RouteUsed == Inv => NoBlackHole
<1> SUFFICES ASSUME Inv, NEW p \in DOMAIN ports, NEW f \in Frames,
                    NEW vlan, vlan = ingress_vlan(ports[p].mode, f),
                    ~ports[p].blocked, vlan # NoVlan,
                    f.ethertype = PROBE_ETHERTYPE =>
                      f.payload = << >> \/ Head(f.payload) # PROBE_MAGIC,
                    f.src # f.dst, f.ethertype # TPID_802_1Q,
                    known(mac_table, vlan, f.dst),
                    NEW q, q = lookup(mac_table, vlan, f.dst), q # p
             PROVE  {d.port : d \in deliveries(p, f)} = {q}
  BY DEF NoBlackHole
<1>0. accepts(p, f)
  <2>1. f.payload \in Seq(Word)
    BY SwitchAssumption DEF ParsedFrame, EthernetFrame
  <2>2. ~is_any_probe(f)
    BY <2>1 DEF is_any_probe
  <2> QED BY <2>2 DEF accepts
<1>1. q \in DOMAIN ports /\ ~ports[q].blocked
  BY DEF Inv, RoutesValid, RouteValid, known
<1>2. f.dst # BROADCAST
  BY SwitchAssumption DEF Inv, NoGroupRoutes, known
<1>3. /\ known(learned(p, vlan, f), vlan, f.dst)
      /\ lookup(learned(p, vlan, f), vlan, f.dst) = q
  <2>1. CASE f.src \in GroupMac
    BY <2>1 DEF learned
  <2>2. CASE f.src \notin GroupMac
    <3>1. <<vlan, f.dst>> # <<vlan, f.src>>
      OBVIOUS
    <3> QED BY <2>2, <3>1 DEF learned, learn, insert, known, lookup
  <2> QED BY <2>1, <2>2
<1>4. egress_ports(p, vlan, f) = {q}
  BY <1>2, <1>3 DEF egress_ports
<1>5. encodable(q, vlan, f)
  <2>1. egress_frame(ports[q].mode, vlan, f).ethertype # TPID_802_1Q
    <3>1. f \in ParsedFrame
      BY SwitchAssumption
    <3> QED BY <3>1 DEF egress_frame, ParsedFrame, EthernetFrame
  <2> QED BY <1>1, <2>1 DEF encodable, AmbiguousUntaggedEtherType
<1>6. targets(p, f) = {q}
  BY <1>0, <1>4, <1>5 DEF targets
<1>7. deliveries(p, f) = {encode_for_egress(q, vlan, f)}
  BY <1>6 DEF deliveries
<1>8. encode_for_egress(q, vlan, f).port = q
  BY DEF encode_for_egress
<1> QED BY <1>7, <1>8

(***************************************************************************)
(* A route that is kept is used: no frame for a learned host is lost or    *)
(* sent elsewhere, unless it has a second tag inside, and none is mistaken *)
(* for a probe because of its type.                                        *)
(***************************************************************************)
THEOREM NoBlackHoleHolds == Spec => []NoBlackHole
BY RouteUsed, Invariance, PTL

----------------------------------------------------------------------------
\* The frame built for an egress port is one the codec can carry, differs from
\* the one that came in by its tag alone, and resolves to the same VLAN there.
LEMMA EgressFrame ==
  ASSUME NEW f \in ParsedFrame, NEW mode \in PortMode, NEW vlan \in Assignable,
         carries(mode, vlan)
  PROVE  LET g == egress_frame(mode, vlan, f)
         IN  /\ g \in EthernetFrame(WireTag)
             /\ ingress_vlan(mode, g) = vlan
             /\ [g EXCEPT !.tag = f.tag] = f
             /\ g.ethertype = f.ethertype /\ g.payload = f.payload
             /\ g.tag # NoTag => priority(g) = priority(f)
<1> DEFINE tag == egress_tag(mode, vlan, f)
           g == egress_frame(mode, vlan, f)
<1>1. /\ f.tag \in WireTag \cup {NoTag}
      /\ f = [dst |-> f.dst, src |-> f.src, tag |-> f.tag,
              ethertype |-> f.ethertype, payload |-> f.payload, odd |-> f.odd]
      /\ f.dst \in Mac /\ f.src \in Mac
      /\ f.ethertype \in Word /\ f.payload \in Seq(Word) /\ f.odd \in OddByte
  BY DEF ParsedFrame, EthernetFrame
<1>2. vlan \in 0 .. VID_MAX
  <2>1. vlan \in Int /\ 0 <= vlan /\ vlan <= 4095
    BY DEF Assignable
  <2> QED BY <2>1, InVid
<1>3. /\ tag \in WireTag \cup {NoTag}
      /\ tag # NoTag => /\ mode.kind # "access" /\ mode.native # vlan
                       /\ tag.vid = vlan
                       /\ <<tag.pcp, tag.dei>> = priority(f)
      /\ tag = NoTag => mode.kind = "access" \/ mode.native = vlan
  <2>1. CASE mode.kind = "access" \/ mode.native = vlan
    BY <2>1 DEF egress_tag
  <2>2. CASE ~(mode.kind = "access" \/ mode.native = vlan) /\ f.tag = NoTag
    <3>1. tag = [pcp |-> 0, dei |-> FALSE, vid |-> vlan]
      BY <2>2 DEF egress_tag
    <3>2. tag \in WireTag
      BY <1>2, <3>1 DEF WireTag
    <3>3. tag.pcp = 0 /\ tag.dei = FALSE /\ tag.vid = vlan
      BY <3>1
    <3>4. <<tag.pcp, tag.dei>> = priority(f)
      BY <2>2, <3>3, Zenon DEF priority
    <3> QED BY <2>2, <3>2, <3>3, <3>4, NoTagNotOnWire
  <2>3. CASE ~(mode.kind = "access" \/ mode.native = vlan) /\ f.tag # NoTag
    <3>1. tag = [pcp |-> f.tag.pcp, dei |-> f.tag.dei, vid |-> vlan]
      BY <2>3 DEF egress_tag
    <3>2. tag \in WireTag
      BY <1>1, <1>2, <2>3, <3>1 DEF WireTag
    <3> QED BY <2>3, <3>1, <3>2, NoTagNotOnWire DEF priority
  <2> QED BY <2>1, <2>2, <2>3
<1>4. g = [dst |-> f.dst, src |-> f.src, tag |-> tag,
           ethertype |-> f.ethertype, payload |-> f.payload, odd |-> f.odd]
  BY <1>1 DEF egress_frame
<1> HIDE DEF tag, g
<1>5. g.tag = tag /\ g.ethertype = f.ethertype /\ g.payload = f.payload
  BY <1>4
<1>6. g \in EthernetFrame(WireTag)
  BY <1>1, <1>3, <1>4 DEF EthernetFrame
<1>7. [g EXCEPT !.tag = f.tag] = f
  BY <1>1, <1>4
<1>8. ingress_vlan(mode, g) = vlan
  <2>1. CASE mode \in Access
    BY <1>3, <1>5, <2>1 DEF Access, ingress_vlan, carries
  <2>2. CASE mode \in Trunk
    BY <1>3, <1>5, <2>2 DEF Trunk, ingress_vlan, carries
  <2> QED BY <2>1, <2>2 DEF PortMode
<1>9. g.tag # NoTag => priority(g) = priority(f)
  BY <1>3, <1>5 DEF priority
<1> QED BY <1>5, <1>6, <1>7, <1>8, <1>9 DEF g

LEMMA Fidelity == Inv => PeerReadsSameFrame
<1> SUFFICES ASSUME Inv, NEW p \in PortId, NEW f \in Frames,
                    NEW q \in targets(p, f),
                    NEW vlan, vlan = ingress_vlan(ports[p].mode, f),
                    NEW g, g = egress_frame(ports[q].mode, vlan, f)
             PROVE  /\ Parses(write_into(g))
                    /\ parse(write_into(g)) = g
                    /\ ingress_vlan(ports[q].mode, g) = vlan
                    /\ [g EXCEPT !.tag = f.tag] = f
                    /\ g.tag # NoTag => priority(g) = priority(f)
                    /\ ~is_any_probe(g)
  BY DEF PeerReadsSameFrame, deliveries, encode_for_egress
<1>1. /\ accepts(p, f)
      /\ q \in DOMAIN ports /\ carries(ports[q].mode, vlan)
      /\ encodable(q, vlan, f)
  BY TargetsCarry
<1>2. f \in ParsedFrame /\ vlan \in Assignable
  BY <1>1, Accepted
<1>3. ports[q].mode \in PortMode
  BY <1>1, SwitchAssumption DEF Inv, CoreTypeOK, PortsTypeOK, IsMap, PortEntry
<1>4. /\ g \in EthernetFrame(WireTag)
      /\ ingress_vlan(ports[q].mode, g) = vlan
      /\ [g EXCEPT !.tag = f.tag] = f
      /\ g.ethertype = f.ethertype /\ g.payload = f.payload
      /\ g.tag # NoTag => priority(g) = priority(f)
  BY <1>1, <1>2, <1>3, EgressFrame
<1>5. ~AmbiguousUntaggedEtherType(g)
  BY <1>1 DEF encodable
<1>6. Parses(write_into(g)) /\ parse(write_into(g)) = g
  BY <1>4, <1>5, WriteParse
<1>7. ~is_any_probe(g)
  BY <1>1, <1>4 DEF accepts, is_any_probe
<1> QED BY <1>4, <1>6, <1>7

(***************************************************************************)
(* What leaves a port is read at the other end of the link as the frame    *)
(* that came in, in the same VLAN: for every mode of every port and every  *)
(* frame, whatever tags or probes its payload imitates.                    *)
(***************************************************************************)
THEOREM PeerReadsSameFrameHolds == Spec => []PeerReadsSameFrame
BY Fidelity, Invariance, PTL

----------------------------------------------------------------------------
\* Only a registered port is ever counted.
Counted == DOMAIN port_counters \subseteq DOMAIN ports

LEMMA CountedNext == Counted /\ [Next]_vars => Counted'
<1> SUFFICES ASSUME Counted, [Next]_vars PROVE Counted'
  OBVIOUS
<1>1. ASSUME NEW p \in PortId, NEW mode \in Modes, add_port(p, mode) PROVE Counted'
  BY <1>1 DEF Counted, add_port, insert
<1>2. ASSUME NEW p \in PortId, remove_port(p) PROVE Counted'
  BY <1>2 DEF Counted, remove_port, Restrict
<1>3. ASSUME NEW p \in PortId, block_port(p) \/ unblock_port(p) PROVE Counted'
  BY <1>3 DEF Counted, block_port, unblock_port, set_blocked
<1>4. CASE age_out \/ Tick \/ UNCHANGED vars
  BY <1>4 DEF Counted, age_out, Tick, vars
<1>5. ASSUME NEW p \in PortId, NEW f \in Frames, forward(p, f) PROVE Counted'
  <2>1. CASE handle_loop_probe(p, f)
    BY <2>1 DEF Counted, handle_loop_probe, block_port, set_blocked, vars
  <2>2. CASE forward_drop(p, f)
    BY <2>2 DEF Counted, forward_drop, count
  <2>3. CASE forward_accept(p, f)
    <3>1. /\ p \in DOMAIN ports /\ ports' = ports
          /\ DOMAIN port_counters' = DOMAIN port_counters \cup {p} \cup targets(p, f)
      BY <2>3 DEF forward_accept, accepts, count, port_amounts
    <3>2. targets(p, f) \subseteq DOMAIN ports
      BY DEF targets, encodable
    <3> QED BY <3>1, <3>2 DEF Counted
  <2>4. CASE UNCHANGED vars
    BY <2>4 DEF Counted, vars
  <2> QED BY <1>5, <2>1, <2>2, <2>3, <2>4 DEF forward
<1> QED BY <1>1, <1>2, <1>3, <1>4, <1>5 DEF Next

LEMMA CountedShown == Counted => DashboardShowsDump
BY DEF Counted, DashboardShowsDump, render_counters_json, dump_counters, port_snapshot,
       counters_of

(***************************************************************************)
(* The dashboard, which walks the registered ports, leaves out no counters *)
(* that the dump, which walks the counted ones, prints.                    *)
(***************************************************************************)
THEOREM DashboardShowsDumpHolds == Spec => []DashboardShowsDump
<1>1. Init => Counted
  BY DEF Init, Counted
<1> QED BY <1>1, CountedShown, CountedNext, PTL DEF Spec

----------------------------------------------------------------------------
(***************************************************************************)
(* Counting.  A call adds amounts to two maps; each total grows by the sum *)
(* of its amounts, modulo the width of a counter.                          *)
(***************************************************************************)
Sum(map, field) == SumFunction([k \in DOMAIN map |-> map[k][field]])

\* Amounts for the keys S, a number in every field.
Amounts(amount, S) ==
  DOMAIN amount = S /\ \A k \in S, field \in CounterFields : amount[k][field] \in Int

LEMMA Modulus == CounterModulus \in Nat \ {0}
BY SwitchAssumption

LEMMA CountersOfType ==
  ASSUME NEW K, NEW map, IsMap(map, K, Counters), NEW k, NEW field \in CounterFields
  PROVE  counters_of(map, k)[field] \in Int
<1>1. CASE k \in DOMAIN map
  <2>1. map[k] \in Counters
    BY <1>1 DEF IsMap
  <2>2. map[k][field] \in 0 .. CounterModulus - 1
    BY <2>1 DEF Counters
  <2> QED BY <1>1, <2>2, Modulus DEF counters_of
<1>2. CASE k \notin DOMAIN map
  BY <1>2 DEF counters_of, Zero
<1> QED BY <1>1, <1>2

LEMMA CountIsMap ==
  ASSUME NEW K, NEW map, IsMap(map, K, Counters),
         NEW S \in SUBSET K, NEW amount, Amounts(amount, S)
  PROVE  IsMap(count(map, amount), K, Counters)
<1> DEFINE new == count(map, amount)
<1>1. DOMAIN new = DOMAIN map \cup S /\ DOMAIN new \subseteq K
  BY DEF count, Amounts, IsMap
<1>2. ASSUME NEW k \in DOMAIN new PROVE new[k] \in Counters
  <2>1. CASE k \in S
    <3> DEFINE value == [field \in CounterFields |->
                (counters_of(map, k)[field] + amount[k][field]) % CounterModulus]
    <3>1. new[k] = value
      BY <1>1, <2>1 DEF count, Amounts
    <3>2. ASSUME NEW field \in CounterFields
          PROVE  value[field] \in 0 .. CounterModulus - 1
      <4>1. counters_of(map, k)[field] + amount[k][field] \in Int
        BY <2>1, CountersOfType DEF Amounts
      <4> QED BY <4>1, Modulus, DivMod
    <3> QED BY <3>1, <3>2 DEF Counters
  <2>2. CASE k \notin S
    <3>1. k \in DOMAIN map /\ new[k] = map[k]
      BY <1>1, <2>2 DEF count, Amounts
    <3> QED BY <3>1 DEF IsMap
  <2> QED BY <2>1, <2>2
<1>3. new = [k \in DOMAIN new |-> new[k]]
  BY DEF count
<1> HIDE DEF new
<1>4. new \in [DOMAIN new -> Counters]
  BY <1>2, <1>3
<1>5. IsMap(new, K, Counters)
  BY <1>1, <1>4 DEF IsMap
<1> QED BY <1>5 DEF new

LEMMA CountTotal ==
  ASSUME NEW K, NEW map, IsMap(map, K, Counters), IsFiniteSet(DOMAIN map),
         NEW S, IsFiniteSet(S), NEW amount, Amounts(amount, S),
         NEW field \in CounterFields
  PROVE  /\ Sum(map, field) \in Int /\ Sum(amount, field) \in Int
         /\ Total(count(map, amount), field)
              = (Sum(map, field) + Sum(amount, field)) % CounterModulus
<1> DEFINE D == DOMAIN map \cup S
           old == [k \in D |-> counters_of(map, k)[field]]
           more == [k \in D |-> IF k \in S THEN amount[k][field] ELSE 0]
           both == [k \in D |-> old[k] + more[k]]
           new == [k \in D |-> count(map, amount)[k][field]]
<1>1. IsFiniteSet(D) /\ S \subseteq D /\ DOMAIN map \subseteq D
  BY FS_Union
<1>2. \A k \in D : old[k] \in Int /\ more[k] \in Int
  BY CountersOfType DEF Amounts
<1>3. ASSUME NEW k \in D
      PROVE  new[k] \in Int /\ both[k] \in Int
             /\ new[k] % CounterModulus = both[k] % CounterModulus
  <2>1. both[k] = old[k] + more[k] /\ both[k] \in Int
    <3>1. both[k] = old[k] + more[k]
      OBVIOUS
    <3> HIDE DEF both, old, more
    <3> QED BY <1>2, <3>1
  <2>2. CASE k \in S
    <3>1. new[k] = both[k] % CounterModulus
      BY <2>2 DEF count, Amounts
    <3> HIDE DEF both, new
    <3>2. /\ (both[k] % CounterModulus) \in Int
          /\ (both[k] % CounterModulus) % CounterModulus = both[k] % CounterModulus
      BY <2>1, Modulus, DivMod, ModTwice
    <3> QED BY <2>1, <3>1, <3>2
  <2>3. CASE k \notin S
    <3>1. new[k] = map[k][field] /\ old[k] = map[k][field] /\ more[k] = 0
      BY <2>3 DEF count, Amounts, counters_of
    <3>2. new[k] = both[k]
      <4>1. map[k][field] \in Int
        BY <1>2, <3>1
      <4> QED BY <2>1, <3>1, <4>1
    <3> HIDE DEF both, new
    <3> QED BY <2>1, <3>2
  <2> QED BY <2>2, <2>3
<1>4. /\ DOMAIN count(map, amount) = D
      /\ Total(count(map, amount), field) = SumFunctionOnSet(new, D) % CounterModulus
  <2>1. DOMAIN count(map, amount) = D
    BY DEF count, Amounts
  <2> QED BY <2>1 DEF Total, SumFunction
<1>5. SumFunctionOnSet(old, D) = Sum(map, field)
  <2> DEFINE values == [k \in DOMAIN map |-> map[k][field]]
  <2>1. \A k \in D \ DOMAIN map : old[k] = 0
    BY DEF counters_of, Zero
  <2>2. \A k \in DOMAIN map : old[k] = values[k]
    BY DEF counters_of
  <2>3. Sum(map, field) = SumFunctionOnSet(values, DOMAIN map)
    BY DEF Sum, SumFunction
  <2> HIDE DEF old, values, D
  <2>4. SumFunctionOnSet(old, D) = SumFunctionOnSet(old, DOMAIN map)
    BY <1>1, <1>2, <2>1, SumOfRest
  <2>5. SumFunctionOnSet(old, DOMAIN map) = SumFunctionOnSet(values, DOMAIN map)
    BY <2>2, SumOfEqual
  <2> QED BY <2>3, <2>4, <2>5
<1>6. SumFunctionOnSet(more, D) = Sum(amount, field)
  <2> DEFINE values == [k \in DOMAIN amount |-> amount[k][field]]
  <2>1. \A k \in D \ S : more[k] = 0
    OBVIOUS
  <2>2. \A k \in S : more[k] = values[k]
    BY DEF Amounts
  <2>3. Sum(amount, field) = SumFunctionOnSet(values, S)
    BY DEF Sum, SumFunction, Amounts
  <2> HIDE DEF more, values, D
  <2>4. SumFunctionOnSet(more, D) = SumFunctionOnSet(more, S)
    BY <1>1, <1>2, <2>1, SumOfRest
  <2>5. SumFunctionOnSet(more, S) = SumFunctionOnSet(values, S)
    BY <2>2, SumOfEqual
  <2> QED BY <2>3, <2>4, <2>5
<1>7. \A k \in D : both[k] = old[k] + more[k]
  OBVIOUS
<1> HIDE DEF D, old, more, both, new
<1>8. SumFunctionOnSet(new, D) % CounterModulus = SumFunctionOnSet(both, D) % CounterModulus
  BY <1>1, <1>3, Modulus, SumMod
<1>9. SumFunctionOnSet(both, D) = SumFunctionOnSet(old, D) + SumFunctionOnSet(more, D)
  BY <1>1, <1>2, <1>7, SumPlus
<1>10. SumFunctionOnSet(old, D) \in Int /\ SumFunctionOnSet(more, D) \in Int
  BY <1>1, <1>2, SumType
<1> QED BY <1>4, <1>5, <1>6, <1>8, <1>9, <1>10

\* Two maps that are given the same amounts in all keep their difference.
LEMMA SameDrift ==
  ASSUME NEW x \in Int, NEW y \in Int, NEW d \in Int
  PROVE  (((x + d) % CounterModulus) - ((y + d) % CounterModulus)) % CounterModulus
           = ((x % CounterModulus) - (y % CounterModulus)) % CounterModulus
<1> DEFINE a == x + d
           b == y + d
<1>1. a \in Int /\ b \in Int /\ a - b = x - y
  OBVIOUS
<1> HIDE DEF a, b
<1>2. ((a % CounterModulus) - (b % CounterModulus)) % CounterModulus
        = (a - b) % CounterModulus
  BY <1>1, Modulus, ModMinus
<1>3. ((x % CounterModulus) - (y % CounterModulus)) % CounterModulus
        = (x - y) % CounterModulus
  BY Modulus, ModMinus
<1> QED BY <1>1, <1>2, <1>3 DEF a, b

\* Every byte count a call adds is one.
LEMMA EgressLength ==
  ASSUME Inv, NEW p \in PortId, NEW f \in Frames, NEW q \in targets(p, f)
  PROVE  ByteLen(encode_for_egress(q, ingress_vlan(ports[p].mode, f), f).bytes) \in Nat
<1> DEFINE vlan == ingress_vlan(ports[p].mode, f)
           g == egress_frame(ports[q].mode, vlan, f)
<1>1. f \in ParsedFrame /\ vlan \in Assignable
      /\ q \in DOMAIN ports /\ carries(ports[q].mode, vlan)
  BY TargetsCarry, Accepted
<1>2. ports[q].mode \in PortMode
  BY <1>1, SwitchAssumption DEF Inv, CoreTypeOK, PortsTypeOK, IsMap, PortEntry
<1>3. g \in EthernetFrame(WireTag)
  BY <1>1, <1>2, EgressFrame
<1>4. encode_for_egress(q, vlan, f).bytes = write_into(g)
  BY DEF encode_for_egress
<1> HIDE DEF g, vlan
<1>5. ByteLen(write_into(g)) \in Nat
  BY <1>3, WireLen
<1> QED BY <1>4, <1>5 DEF vlan

(***************************************************************************)
(* What one call adds to its ports is what it adds to its VLAN: a frame in *)
(* and its length, as many frames out as there are targets, and their      *)
(* lengths, which differ from port to port.                                *)
(***************************************************************************)
LEMMA AmountsAgree ==
  ASSUME Inv, IsFiniteSet(DOMAIN ports), NEW p \in PortId, NEW f \in Frames,
         accepts(p, f), NEW vlan, vlan = ingress_vlan(ports[p].mode, f)
  PROVE  /\ {p} \cup targets(p, f) \in SUBSET PortId
         /\ IsFiniteSet({p} \cup targets(p, f))
         /\ Amounts(port_amounts(p, vlan, f), {p} \cup targets(p, f))
         /\ Amounts([v \in {vlan} |-> vlan_amount(p, vlan, f)], {vlan})
         /\ \A field \in CounterFields \ {"drops"} :
              Sum(port_amounts(p, vlan, f), field)
                = Sum([v \in {vlan} |-> vlan_amount(p, vlan, f)], field)
<1> DEFINE T == targets(p, f)
           Q == {p} \cup T
           amount == port_amounts(p, vlan, f)
           total == vlan_amount(p, vlan, f)
           length == [q \in T |-> ByteLen(encode_for_egress(q, vlan, f).bytes)]
           of(field) == [q \in Q |-> amount[q][field]]
<1>1. p \notin T /\ T \subseteq DOMAIN ports /\ p \in DOMAIN ports
  BY TargetsCarry DEF accepts
<1>2. Q \in SUBSET PortId /\ IsFiniteSet(T) /\ IsFiniteSet(Q) /\ DOMAIN ports \subseteq PortId
  BY <1>1, FS_Subset DEF Inv, CoreTypeOK, PortsTypeOK, IsMap
<1>3. wire_len(f) \in Nat
  BY Accepted, WireLen DEF ParsedFrame
<1>4. \A q \in T : length[q] \in Nat
  BY EgressLength
<1>5. /\ amount[p]["frames_in"] = 1 /\ amount[p]["bytes_in"] = wire_len(f)
      /\ amount[p]["frames_out"] = 0 /\ amount[p]["bytes_out"] = 0
      /\ amount[p]["drops"] = 0
  BY <1>1, <1>3 DEF port_amounts, Plus, In, Out, Zero, CounterFields
<1>6. ASSUME NEW q \in T
      PROVE  /\ amount[q]["frames_in"] = 0 /\ amount[q]["bytes_in"] = 0
             /\ amount[q]["frames_out"] = 1 /\ amount[q]["bytes_out"] = length[q]
             /\ amount[q]["drops"] = 0
  <2>1. amount[q] = Plus(Zero, Out(1, length[q]))
    BY <1>1 DEF port_amounts
  <2>2. length[q] \in Nat
    BY <1>4
  <2> HIDE DEF length, T, amount
  <2> QED BY <2>1, <2>2 DEF Plus, Out, Zero, CounterFields
<1>7. DOMAIN amount = Q
  BY DEF port_amounts
<1>8. Cardinality(T) \in Nat
  BY <1>2, FS_CardinalityType
<1>9. SumFunctionOnSet(length, T) \in Int
  BY <1>2, <1>4, SumType
<1>10. /\ total["frames_in"] = 1 /\ total["bytes_in"] = wire_len(f)
       /\ total["frames_out"] = Cardinality(T)
       /\ total["bytes_out"] = SumFunctionOnSet(length, T)
       /\ total["drops"] = 0
  <2>1. total = Plus(In(wire_len(f)), Out(Cardinality(T), SumFunctionOnSet(length, T)))
    BY DEF vlan_amount, SumFunction
  <2> HIDE DEF total, T, length
  <2> QED BY <1>3, <1>8, <1>9, <2>1 DEF Plus, In, Out, Zero, CounterFields
<1> HIDE DEF T, amount, total, length
<1>11. Amounts(amount, Q)
  BY <1>3, <1>4, <1>5, <1>6, <1>7 DEF Amounts, CounterFields
<1>12. Amounts([v \in {vlan} |-> total], {vlan})
  BY <1>3, <1>8, <1>9, <1>10 DEF Amounts, CounterFields
<1>13. ASSUME NEW field \in CounterFields
       PROVE  /\ Sum([v \in {vlan} |-> total], field) = total[field]
              /\ Sum(amount, field) = amount[p][field] + SumFunctionOnSet(of(field), T)
              /\ \A q \in T : of(field)[q] = amount[q][field]
  <2>1. /\ \A q \in Q : of(field)[q] = amount[q][field] /\ of(field)[q] \in Int
        /\ p \in Q /\ of(field)[p] = amount[p][field] /\ Q \ {p} = T
    BY <1>1, <1>11 DEF Amounts
  <2>2. Sum(amount, field) = SumFunctionOnSet(of(field), Q)
    BY <1>7 DEF Sum, SumFunction
  <2>3. Sum([v \in {vlan} |-> total], field) = SumFunctionOnSet([v \in {vlan} |-> total[field]], {vlan})
    BY DEF Sum, SumFunction
  <2>4. SumFunctionOnSet([v \in {vlan} |-> total[field]], {vlan}) = total[field]
    BY <1>12, SumOfOne DEF Amounts
  <2> HIDE DEF of, Q
  <2>5. SumFunctionOnSet(of(field), Q) = of(field)[p] + SumFunctionOnSet(of(field), Q \ {p})
    BY <1>2, <2>1, SumWithout
  <2>6. T \subseteq Q
    BY DEF Q
  <2> QED BY <2>1, <2>2, <2>3, <2>4, <2>5, <2>6
<1> HIDE DEF of
<1>14. ASSUME NEW field \in {"frames_in", "bytes_in"}
       PROVE  Sum(amount, field) = Sum([v \in {vlan} |-> total], field)
  <2>1. field \in CounterFields
    BY DEF CounterFields
  <2>2. \A q \in T : of(field)[q] = 0
    BY <1>6, <1>13, <2>1
  <2>3. SumFunctionOnSet(of(field), T) = SumFunctionOnSet(of(field), {})
    BY <1>2, <2>2, SumOfRest
  <2>4. SumFunctionOnSet(of(field), T) = 0
    BY <2>3, SumOfNone
  <2>5. amount[p][field] = total[field] /\ amount[p][field] \in Int
    BY <1>3, <1>5, <1>10
  <2> QED BY <1>13, <2>1, <2>4, <2>5
<1>15. Sum(amount, "frames_out") = Sum([v \in {vlan} |-> total], "frames_out")
  <2>1. "frames_out" \in CounterFields
    BY DEF CounterFields
  <2>2. \A q \in T : of("frames_out")[q] = 1
    BY <1>6, <1>13, <2>1
  <2>3. SumFunctionOnSet(of("frames_out"), T) = Cardinality(T)
    BY <1>2, <2>2, SumOfOnes
  <2> QED BY <1>5, <1>8, <1>10, <1>13, <2>1, <2>3
<1>16. Sum(amount, "bytes_out") = Sum([v \in {vlan} |-> total], "bytes_out")
  <2>1. "bytes_out" \in CounterFields
    BY DEF CounterFields
  <2>2. \A q \in T : of("bytes_out")[q] = length[q]
    BY <1>6, <1>13, <2>1
  <2>3. SumFunctionOnSet(of("bytes_out"), T) = SumFunctionOnSet(length, T)
    BY <1>2, <2>2, SumOfEqual
  <2> QED BY <1>5, <1>9, <1>10, <1>13, <2>1, <2>3
<1>17. \A field \in CounterFields \ {"drops"} :
         Sum(amount, field) = Sum([v \in {vlan} |-> total], field)
  BY <1>14, <1>15, <1>16 DEF CounterFields
<1> QED BY <1>2, <1>11, <1>12, <1>17 DEF T, amount, total

(***************************************************************************)
(* The invariant counting rests on: totals are taken over finitely many    *)
(* ports, and only a registered one has counters to forget.                *)
(***************************************************************************)
CountInv == Inv /\ CountersTypeOK /\ Counted /\ IsFiniteSet(DOMAIN ports)

LEMMA CountInvInit == Init => CountInv
<1> SUFFICES ASSUME Init PROVE CountInv
  OBVIOUS
<1>1. DOMAIN ports = {} /\ IsFiniteSet({})
  BY FS_EmptySet DEF Init
<1> QED BY <1>1, InitInv DEF Init, CountInv, CountersTypeOK, Counted, IsMap

LEMMA PortsStayFinite ==
  ASSUME IsFiniteSet(DOMAIN ports), [Next]_vars
  PROVE  IsFiniteSet(DOMAIN ports)'
<1>1. ASSUME NEW p \in PortId, NEW mode \in Modes, add_port(p, mode)
      PROVE  IsFiniteSet(DOMAIN ports')
  <2>1. DOMAIN ports' = DOMAIN ports \cup {p}
    BY <1>1 DEF add_port, insert
  <2> QED BY <2>1, FS_AddElement
<1>2. ASSUME NEW p \in PortId, remove_port(p) PROVE IsFiniteSet(DOMAIN ports')
  <2>1. DOMAIN ports' \subseteq DOMAIN ports
    BY <1>2 DEF remove_port, Restrict
  <2> QED BY <2>1, FS_Subset
<1>3. ASSUME NEW p \in PortId, block_port(p) \/ unblock_port(p)
      PROVE  DOMAIN ports' = DOMAIN ports
  BY <1>3 DEF block_port, unblock_port, set_blocked
<1>4. CASE age_out \/ Tick \/ UNCHANGED vars
  BY <1>4 DEF age_out, Tick, vars
<1>5. ASSUME NEW p \in PortId, NEW f \in Frames, forward(p, f)
      PROVE  DOMAIN ports' = DOMAIN ports
  BY <1>5 DEF forward, handle_loop_probe, block_port, set_blocked, forward_drop,
              forward_accept, vars
<1> QED BY <1>1, <1>2, <1>3, <1>4, <1>5 DEF Next

\* A refused frame is counted at its port, under no other field than drops.
LEMMA DropAmounts ==
  ASSUME NEW p \in PortId
  PROVE  /\ {p} \in SUBSET PortId /\ IsFiniteSet({p})
         /\ Amounts([q \in {p} |-> Drop], {p})
         /\ \A field \in CounterFields \ {"drops"} : Sum([q \in {p} |-> Drop], field) = 0
<1>1. Amounts([q \in {p} |-> Drop], {p})
  BY DEF Amounts, Drop, Zero, CounterFields
<1>2. ASSUME NEW field \in CounterFields \ {"drops"}
      PROVE  Sum([q \in {p} |-> Drop], field) = 0
  <2> DEFINE values == [q \in {p} |-> 0]
  <2>1. Drop[field] = 0
    BY DEF Drop, Zero
  <2>2. Sum([q \in {p} |-> Drop], field) = SumFunctionOnSet(values, {p})
    BY <2>1 DEF Sum, SumFunction
  <2>3. values[p] = 0
    OBVIOUS
  <2> HIDE DEF values
  <2> QED BY <2>2, <2>3, SumOfOne
<1> QED BY <1>1, <1>2, FS_Singleton

LEMMA CountersStep ==
  ASSUME CountInv, [Next]_vars
  PROVE  CountersTypeOK'
<1>1. ASSUME NEW p \in PortId, remove_port(p) PROVE CountersTypeOK'
  <2>1. IsMap(port_counters', PortId, Counters)
    BY <1>1, RestrictIsMap DEF remove_port, CountInv, CountersTypeOK
  <2> QED BY <1>1, <2>1 DEF remove_port, CountInv, CountersTypeOK
<1>2. ASSUME NEW p \in PortId, NEW f \in Frames, forward_drop(p, f)
      PROVE  CountersTypeOK'
  <2>1. IsMap(port_counters', PortId, Counters)
    BY <1>2, DropAmounts, CountIsMap DEF forward_drop, CountInv, CountersTypeOK
  <2> QED BY <1>2, <2>1 DEF forward_drop, CountInv, CountersTypeOK
<1>3. ASSUME NEW p \in PortId, NEW f \in Frames, forward_accept(p, f)
      PROVE  CountersTypeOK'
  <2> DEFINE vlan == ingress_vlan(ports[p].mode, f)
             amount == port_amounts(p, vlan, f)
             total == [v \in {vlan} |-> vlan_amount(p, vlan, f)]
  <2>1. accepts(p, f) /\ Inv /\ IsFiniteSet(DOMAIN ports) /\ CountersTypeOK
    BY <1>3 DEF forward_accept, CountInv
  <2>2. /\ {p} \cup targets(p, f) \in SUBSET PortId
        /\ Amounts(amount, {p} \cup targets(p, f))
        /\ Amounts(total, {vlan})
    BY <2>1, AmountsAgree
  <2>3. {vlan} \in SUBSET Assignable
    BY <2>1, Accepted
  <2>4. /\ port_counters' = count(port_counters, amount)
        /\ vlan_counters' = count(vlan_counters, total)
    BY <1>3 DEF forward_accept
  <2> HIDE DEF vlan, amount, total
  <2> QED BY <2>1, <2>2, <2>3, <2>4, CountIsMap DEF CountersTypeOK
<1>4. CASE UNCHANGED <<port_counters, vlan_counters>>
  BY <1>4 DEF CountInv, CountersTypeOK
<1> QED
  BY <1>1, <1>2, <1>3, <1>4
     DEF Next, add_port, block_port, unblock_port, age_out, Tick, forward,
         handle_loop_probe, vars

LEMMA CountInvNext == CountInv /\ [Next]_vars => CountInv'
BY NextInv, CountersStep, CountedNext, PortsStayFinite DEF CountInv

\* Totals: the step that matters is an accepted frame, where both maps are
\* given the same amounts in all.  A port that is removed takes its counters
\* along only if it had any.
LEMMA DriftStep ==
  ASSUME CountInv, [Next]_vars, DOMAIN port_counters \subseteq DOMAIN port_counters',
         NEW field \in CounterFields \ {"drops"}
  PROVE  Drift(field)' = Drift(field)
<1> DEFINE in_ports == Sum(port_counters, field)
           in_vlans == Sum(vlan_counters, field)
<1>1. /\ Inv /\ IsFiniteSet(DOMAIN ports)
      /\ IsMap(port_counters, PortId, Counters) /\ IsFiniteSet(DOMAIN port_counters)
      /\ IsMap(vlan_counters, Assignable, Counters) /\ IsFiniteSet(DOMAIN vlan_counters)
  <2>1. IsFiniteSet(Assignable)
    <3> DEFINE first == 1
               last == 4094
    <3>1. first \in Int /\ last \in Int /\ Assignable = first .. last
      BY DEF Assignable
    <3> HIDE DEF first, last
    <3> QED BY <3>1, FS_Interval
  <2> QED BY <2>1, FS_Subset DEF CountInv, CountersTypeOK, Counted, IsMap
<1>2. /\ Drift(field)
           = ((in_ports % CounterModulus) - (in_vlans % CounterModulus)) % CounterModulus
      /\ Drift(field)'
           = (Total(port_counters', field) - Total(vlan_counters', field)) % CounterModulus
  BY DEF Drift, Total, Sum
<1>3. CASE UNCHANGED <<port_counters, vlan_counters>>
  BY <1>3 DEF Drift, Total
<1>4. ASSUME NEW p \in PortId, remove_port(p)
      PROVE  UNCHANGED <<port_counters, vlan_counters>>
  <2>1. p \notin DOMAIN port_counters
    BY <1>4 DEF remove_port, Restrict
  <2>2. port_counters' = [k \in DOMAIN port_counters |-> port_counters[k]]
    BY <1>4, <2>1 DEF remove_port, Restrict
  <2>3. port_counters = [k \in DOMAIN port_counters |-> port_counters[k]]
    BY <1>1 DEF IsMap
  <2> QED BY <1>4, <2>2, <2>3 DEF remove_port
<1>5. ASSUME NEW p \in PortId, NEW f \in Frames, forward_drop(p, f)
      PROVE  Drift(field)' = Drift(field)
  <2> DEFINE amount == [q \in {p} |-> Drop]
  <2>1. port_counters' = count(port_counters, amount) /\ vlan_counters' = vlan_counters
    BY <1>5 DEF forward_drop
  <2>2. Amounts(amount, {p}) /\ IsFiniteSet({p}) /\ Sum(amount, field) = 0
    BY DropAmounts
  <2> HIDE DEF amount
  <2>3. /\ in_ports \in Int
        /\ Total(port_counters', field) = (in_ports + 0) % CounterModulus
    BY <1>1, <2>1, <2>2, CountTotal
  <2>4. in_ports + 0 = in_ports
    BY <2>3
  <2>5. Total(vlan_counters', field) = in_vlans % CounterModulus
    BY <2>1 DEF Total, Sum
  <2> HIDE DEF in_ports, in_vlans
  <2> QED BY <1>2, <2>3, <2>4, <2>5
<1>6. ASSUME NEW p \in PortId, NEW f \in Frames, forward_accept(p, f)
      PROVE  Drift(field)' = Drift(field)
  <2> DEFINE vlan == ingress_vlan(ports[p].mode, f)
             amount == port_amounts(p, vlan, f)
             total == [v \in {vlan} |-> vlan_amount(p, vlan, f)]
             Q == {p} \cup targets(p, f)
  <2>1. accepts(p, f)
    BY <1>6 DEF forward_accept
  <2>2. /\ port_counters' = count(port_counters, amount)
        /\ vlan_counters' = count(vlan_counters, total)
    BY <1>6 DEF forward_accept
  <2>3. /\ IsFiniteSet(Q) /\ Amounts(amount, Q)
        /\ Amounts(total, {vlan}) /\ IsFiniteSet({vlan})
        /\ Sum(amount, field) = Sum(total, field)
    <3>1. /\ IsFiniteSet(Q) /\ Amounts(amount, Q) /\ Amounts(total, {vlan})
          /\ \A n \in CounterFields \ {"drops"} : Sum(amount, n) = Sum(total, n)
      BY <1>1, <2>1, AmountsAgree, Zenon
    <3>2. IsFiniteSet({vlan})
      BY FS_Singleton
    <3> QED BY <3>1, <3>2
  <2> HIDE DEF vlan, amount, total, Q
  <2>4. /\ in_ports \in Int /\ Sum(amount, field) \in Int
        /\ Total(port_counters', field) = (in_ports + Sum(amount, field)) % CounterModulus
    BY <1>1, <2>2, <2>3, CountTotal
  <2>5. /\ in_vlans \in Int
        /\ Total(vlan_counters', field) = (in_vlans + Sum(amount, field)) % CounterModulus
    BY <1>1, <2>2, <2>3, CountTotal
  <2> DEFINE added == Sum(amount, field)
  <2>6. (((in_ports + added) % CounterModulus) - ((in_vlans + added) % CounterModulus))
            % CounterModulus
          = ((in_ports % CounterModulus) - (in_vlans % CounterModulus)) % CounterModulus
    <3> HIDE DEF in_ports, in_vlans, added
    <3> QED BY <2>4, <2>5, SameDrift DEF added
  <2> HIDE DEF in_ports, in_vlans
  <2> QED BY <1>2, <2>4, <2>5, <2>6, Zenon
<1> QED
  BY <1>3, <1>4, <1>5, <1>6
     DEF Next, add_port, block_port, unblock_port, age_out, Tick, forward,
         handle_loop_probe, vars

(***************************************************************************)
(* The whole type invariant: counters wrap at their width and nothing else *)
(* leaves its type, whatever the ports, modes and frames.                  *)
(***************************************************************************)
THEOREM TypeOKHolds == Spec => []TypeOK
<1>1. CountInv => TypeOK
  BY DEF CountInv, Inv, CoreTypeOK, TypeOK
<1> QED BY <1>1, CountInvInit, CountInvNext, PTL DEF Spec

(***************************************************************************)
(* Per-port and per-VLAN counters move together, for every topology, every *)
(* frame and every width of the counters: the totals differ by the same    *)
(* amount, modulo that width, until remove_port forgets a port's.          *)
(***************************************************************************)
THEOREM CountersMoveTogetherHolds == Spec => CountersMoveTogether
<1> DEFINE Together ==
             DOMAIN port_counters \subseteq DOMAIN port_counters' =>
               \A field \in CounterFields \ {"drops"} : Drift(field)' = Drift(field)
<1>1. CountInv /\ [Next]_vars => [Together]_vars
  BY DriftStep
<1>2. Spec => [][Together]_vars
  BY <1>1, CountInvInit, CountInvNext, PTL DEF Spec
<1> QED BY <1>2 DEF CountersMoveTogether

----------------------------------------------------------------------------
(***************************************************************************)
(* The switch implements the fabric: HSpec => Fabric!FabricSpec.  Each     *)
(* call maps to one step of the fabric; that a call on a learned route     *)
(* loses nothing rests on Inv.                                             *)
(***************************************************************************)

Quiet == [to |-> {}]

\* The mapped state, by name.
Member == [p \in DOMAIN ports |-> vlans_of(ports[p].mode)]
Opened == {p \in DOMAIN ports : ~ports[p].blocked}
Station == [k \in DOMAIN mac_table |-> mac_table[k].port]

LEMMA HInvariance == HSpec => []Inv
<1>1. HInit => Inv
  BY InitInv DEF HInit
<1>2. Inv /\ [HNext]_<<vars, carried>> => Inv'
  <2>1. HNext => Next
    BY DEF HNext, Next
  <2>2. UNCHANGED <<vars, carried>> => UNCHANGED vars
    OBVIOUS
  <2> QED BY <2>1, <2>2, NextInv
<1> QED BY <1>1, <1>2, PTL DEF HSpec

LEMMA VlansOf ==
  ASSUME NEW mode \in PortMode
  PROVE  /\ vlans_of(mode) # {}
         /\ \A vlan \in Assignable : vlan \in vlans_of(mode) <=> carries(mode, vlan)
<1>1. NoVlan \notin Assignable
  <2>1. ASSUME NEW vlan \in Assignable PROVE vlan \in Word
    <3>1. vlan \in Int /\ 0 <= vlan /\ vlan <= 65535
      BY DEF Assignable
    <3> QED BY <3>1, InWord
  <2> QED BY <2>1, SwitchAssumption
<1>2. CASE mode \in Access
  BY <1>2 DEF Access, vlans_of, carries
<1>3. CASE mode \in Trunk
  BY <1>1, <1>3 DEF Trunk, vlans_of, carries
<1> QED BY <1>2, <1>3 DEF PortMode

LEMMA AddPortMaps ==
  ASSUME Inv, NEW p \in PortId, NEW mode \in Modes, add_port(p, mode),
         carried' = Quiet
  PROVE  Fabric!FabricNext
<1>1. vlans_of(mode) \in (SUBSET configured) \ {{}}
  BY VlansOf, SwitchAssumption DEF configured
<1>2. Member' = [q \in DOMAIN Member \cup {p} |->
                   IF q = p THEN vlans_of(mode) ELSE Member[q]]
  BY DEF add_port, insert, Member
<1>3. Opened' = Opened \cup {p}
  BY DEF add_port, insert, Opened
<1>4. Station' = [k \in {l \in DOMAIN Station : Station[l] # p} |-> Station[k]]
  BY DEF add_port, purge_port, Restrict, Station
<1>5. Fabric!Attach(p, vlans_of(mode))
  BY <1>2, <1>3, <1>4
     DEF Fabric!Attach, Fabric!Forget, Fabric!Restrict, Fabric!insert,
         Fabric!Nothing, Quiet, Member, Opened, Station
<1> QED BY <1>1, <1>5 DEF Fabric!FabricNext
LEMMA RemovePortMaps ==
  ASSUME NEW p \in PortId, remove_port(p), carried' = Quiet
  PROVE  Fabric!FabricNext
<1>1. Member' = [q \in DOMAIN Member \ {p} |-> Member[q]]
  BY DEF remove_port, Restrict, Member
<1>2. Opened' = Opened \ {p}
  BY DEF remove_port, Restrict, Opened
<1>3. Station' = [k \in {l \in DOMAIN Station : Station[l] # p} |-> Station[k]]
  BY DEF remove_port, purge_port, Restrict, Station
<1>4. Fabric!Detach(p)
  BY <1>1, <1>2, <1>3
     DEF Fabric!Detach, Fabric!Forget, Fabric!Restrict, Fabric!Nothing, Quiet,
         Member, Opened, Station
<1> QED BY <1>4 DEF Fabric!FabricNext

\* set_blocked leaves membership alone.
LEMMA MemberKept ==
  ASSUME Inv, NEW p, NEW flag \in BOOLEAN, set_blocked(p, flag)
  PROVE  /\ Member' = Member
         /\ Opened' \ {p} = Opened \ {p}
         /\ p \in Opened' <=> p \in DOMAIN ports /\ ~flag
<1>1. PortsTypeOK
  BY DEF Inv, CoreTypeOK
<1>2. /\ DOMAIN ports' = DOMAIN ports
      /\ \A q \in DOMAIN ports : ports'[q].mode = ports[q].mode
      /\ \A q \in DOMAIN ports : q # p => ports'[q] = ports[q]
      /\ p \in DOMAIN ports => ports'[p].blocked = flag
  BY <1>1, SetBlocked
<1>3. Member' = Member
  BY <1>2 DEF Member
<1>4. \A q : q # p => (q \in Opened' <=> q \in Opened)
  BY <1>2, Zenon DEF Opened
<1>5. Opened' \ {p} = Opened \ {p}
  BY <1>4
<1>6. p \in Opened' <=> p \in DOMAIN ports /\ ~flag
  BY <1>2, Zenon DEF Opened
<1> QED BY <1>3, <1>5, <1>6

LEMMA BlockPortMaps ==
  ASSUME Inv, NEW p \in PortId, block_port(p), carried' = Quiet
  PROVE  Fabric!FabricNext
<1>1. Member' = Member /\ Opened' = Opened \ {p}
  <2>1. /\ Member' = Member /\ Opened' \ {p} = Opened \ {p}
        /\ p \in Opened' <=> p \in DOMAIN ports /\ ~TRUE
    BY MemberKept, Zenon DEF block_port
  <2> QED BY <2>1
<1>2. Station' = [k \in {l \in DOMAIN Station : Station[l] # p} |-> Station[k]]
  BY DEF block_port, purge_port, Restrict, Station
<1>3. Fabric!Shut(p)
  BY <1>1, <1>2
     DEF Fabric!Shut, Fabric!Forget, Fabric!Restrict, Fabric!Nothing, Quiet,
         Member, Opened, Station
<1> QED BY <1>3 DEF Fabric!FabricNext

LEMMA StillMaps ==
  ASSUME Member' = Member, Opened' = Opened, Station' = Station,
         carried' = Quiet
  PROVE  Fabric!FabricNext
BY DEF Fabric!FabricNext, Fabric!Refuse, Fabric!Nothing, Quiet,
       Member, Opened, Station

LEMMA UnblockPortMaps ==
  ASSUME Inv, NEW p \in PortId, unblock_port(p), carried' = Quiet
  PROVE  Fabric!FabricNext
<1>1. /\ Member' = Member
      /\ Opened' = Opened \cup ({p} \cap DOMAIN ports)
      /\ Station' = Station
  <2>1. /\ Member' = Member /\ Opened' \ {p} = Opened \ {p}
        /\ p \in Opened' <=> p \in DOMAIN ports /\ ~FALSE
    BY MemberKept, Zenon DEF unblock_port
  <2>2. Opened \subseteq DOMAIN ports
    BY DEF Opened
  <2>3. Station' = Station
    BY DEF unblock_port, Station
  <2> QED BY <2>1, <2>2, <2>3
<1>2. CASE p \in DOMAIN ports
  <2>1. Fabric!Reopen(p)
    BY <1>1, <1>2
       DEF Fabric!Reopen, Fabric!Nothing, Quiet, Member, Opened, Station
  <2>2. p \in DOMAIN Member
    BY <1>2 DEF Member
  <2> QED BY <2>1, <2>2 DEF Fabric!FabricNext, Member
<1>3. CASE p \notin DOMAIN ports
  BY <1>1, <1>3, StillMaps
<1> QED BY <1>2, <1>3

LEMMA AgeOutMaps ==
  ASSUME age_out, carried' = Quiet
  PROVE  Fabric!FabricNext
<1>1. PICK stale : stale = {k \in DOMAIN mac_table : ~(mac_table[k].age < MaxAge)}
  OBVIOUS
<1>2. Member' = Member /\ Opened' = Opened
  BY DEF age_out, Member, Opened
<1>3. Station' = [k \in DOMAIN Station \ stale |-> Station[k]]
  BY <1>1 DEF age_out, evict_older_than, Restrict, Station
<1>4. stale \in SUBSET DOMAIN Station
  BY <1>1 DEF Station
<1>5. Fabric!Silence(stale)
  BY <1>2, <1>3
     DEF Fabric!Silence, Fabric!Restrict, Fabric!Nothing, Quiet,
         Member, Opened, Station
<1> QED BY <1>4, <1>5 DEF Fabric!FabricNext, Station

LEMMA TickMaps ==
  ASSUME Inv, Tick, carried' = Quiet
  PROVE  Fabric!FabricNext
<1>1. Member' = Member /\ Opened' = Opened
  BY DEF Tick, Member, Opened
<1>2. Station' = Station
  BY DEF Tick, elapse, Station, Inv, CoreTypeOK, RoutesTypeOK, IsMap
<1> QED BY <1>1, <1>2, StillMaps

\* The table a destination is looked up in, as the fabric sees it.
LEMMA HeardMaps ==
  ASSUME Inv, NEW p, NEW vlan, NEW f
  PROVE  Fabric!Heard(p, vlan, f.src)
           = [k \in DOMAIN learned(p, vlan, f) |-> learned(p, vlan, f)[k].port]
<1>1. CASE f.src \in GroupMac
  BY <1>1 DEF Fabric!Heard, learned
<1>2. CASE f.src \notin GroupMac
  BY <1>2 DEF Fabric!Heard, Fabric!insert, learned, learn, insert
<1> QED BY <1>1, <1>2

\* forward sends a frame to the ports the fabric would reach.
LEMMA ReachMaps ==
  ASSUME Inv, NEW p, NEW vlan \in Assignable, NEW f
  PROVE  Fabric!Reach(p, vlan, f.src, f.dst) = egress_ports(p, vlan, f)
<1> DEFINE table == learned(p, vlan, f)
<1>1. Fabric!Members(vlan) \ {p} = flood_targets(vlan, p)
  <2>1. \A q \in DOMAIN ports :
          vlan \in vlans_of(ports[q].mode) <=> carries(ports[q].mode, vlan)
    <3> SUFFICES ASSUME NEW q \in DOMAIN ports
                 PROVE  vlan \in vlans_of(ports[q].mode) <=> carries(ports[q].mode, vlan)
      OBVIOUS
    <3>1. ports[q].mode \in PortMode
      BY SwitchAssumption DEF Inv, CoreTypeOK, PortsTypeOK, IsMap, PortEntry
    <3> QED BY <3>1, VlansOf
  <2>2. Fabric!Members(vlan)
          = {q \in Opened : vlan \in vlans_of(ports[q].mode)}
    BY DEF Fabric!Members, Opened
  <2> QED BY <2>1, <2>2 DEF Opened, flood_targets
<1>2. Fabric!Heard(p, vlan, f.src) = [k \in DOMAIN table |-> table[k].port]
  BY HeardMaps
<1> HIDE DEF table
<1>3. Fabric!Reach(p, vlan, f.src, f.dst)
        = IF f.dst # BROADCAST /\ <<vlan, f.dst>> \in DOMAIN table
          THEN {table[<<vlan, f.dst>>].port} \ {p} ELSE flood_targets(vlan, p)
  BY <1>1, <1>2 DEF Fabric!Reach
<1> QED BY <1>3 DEF egress_ports, known, lookup, table

\* Only a second tag keeps forward from sending a frame where it belongs.
LEMMA NothingLost ==
  ASSUME Inv, NEW p \in PortId, NEW f \in Frames, accepts(p, f),
         NEW vlan, vlan = ingress_vlan(ports[p].mode, f),
         f.ethertype # TPID_802_1Q
  PROVE  targets(p, f) = egress_ports(p, vlan, f)
<1> SUFFICES ASSUME NEW q \in egress_ports(p, vlan, f)
             PROVE  encodable(q, vlan, f)
  BY DEF targets
<1>1. q \in DOMAIN ports /\ ~ports[q].blocked
  <2>1. CASE f.dst # BROADCAST /\ known(learned(p, vlan, f), vlan, f.dst)
    <3>1. q = lookup(learned(p, vlan, f), vlan, f.dst) /\ q # p
      BY <2>1 DEF egress_ports
    <3>2. known(mac_table, vlan, f.dst) /\ q = lookup(mac_table, vlan, f.dst)
      BY <2>1, <3>1, EgressOfRoute
    <3>3. RouteValid(vlan, f.dst)
      BY <3>2 DEF Inv, RoutesValid, known
    <3> QED BY <3>2, <3>3 DEF RouteValid
  <2>2. CASE ~(f.dst # BROADCAST /\ known(learned(p, vlan, f), vlan, f.dst))
    BY <2>2 DEF egress_ports, flood_targets
  <2> QED BY <2>1, <2>2
<1>2. egress_frame(ports[q].mode, vlan, f).ethertype # TPID_802_1Q
  <2>1. f \in ParsedFrame
    BY SwitchAssumption
  <2> QED BY <2>1 DEF egress_frame, ParsedFrame, EthernetFrame
<1> QED BY <1>1, <1>2 DEF encodable, AmbiguousUntaggedEtherType

LEMMA ForwardAcceptMaps ==
  ASSUME Inv, NEW p \in PortId, NEW f \in Frames, forward_accept(p, f),
         Record(p, f)
  PROVE  Fabric!FabricNext
<1>1. PICK vlan : vlan = ingress_vlan(ports[p].mode, f)
  OBVIOUS
<1>2. PICK to : to = targets(p, f)
  OBVIOUS
<1>3. PICK nested \in BOOLEAN : nested <=> f.ethertype = TPID_802_1Q
  OBVIOUS
<1>4. accepts(p, f)
  BY DEF forward_accept
<1>5. /\ p \in DOMAIN ports /\ ~ports[p].blocked
      /\ ports[p].mode \in PortMode /\ ports[p].mode \in Modes
      /\ f \in ParsedFrame
      /\ vlan \in Assignable /\ carries(ports[p].mode, vlan)
  BY <1>1, <1>4, Accepted DEF Inv, CoreTypeOK, PortsTypeOK, IsMap, PortEntry
<1>6. vlan \in vlans_of(ports[p].mode) /\ vlan \in configured
  BY <1>5, VlansOf DEF configured
<1>7. p \in Fabric!Members(vlan)
  BY <1>5, <1>6 DEF Fabric!Members
<1>8. Station' = Fabric!Heard(p, vlan, f.src)
  BY <1>1, HeardMaps DEF forward_accept, Station
<1>9. Fabric!Reach(p, vlan, f.src, f.dst) = egress_ports(p, vlan, f)
  BY <1>5, ReachMaps
<1>10. to \in SUBSET Fabric!Reach(p, vlan, f.src, f.dst)
  BY <1>1, <1>2, <1>4, <1>9 DEF targets
<1>11. nested \/ to = Fabric!Reach(p, vlan, f.src, f.dst)
  BY <1>1, <1>2, <1>3, <1>4, <1>9, NothingLost
<1>12. carried' = [from |-> p, vlan |-> vlan, src |-> f.src, dst |-> f.dst,
                   nested |-> nested, to |-> to]
  <2>1. {d.port : d \in deliveries(p, f)} = to
    <3>1. deliveries(p, f) = {encode_for_egress(q, vlan, f) : q \in to}
      BY <1>1, <1>2 DEF deliveries
    <3>2. \A q : encode_for_egress(q, vlan, f).port = q
      BY DEF encode_for_egress
    <3> QED BY <3>1, <3>2
  <2>2. nested = (f.ethertype = TPID_802_1Q)
    BY <1>3
  <2> QED BY <1>1, <1>4, <2>1, <2>2 DEF Record
<1>13. Member' = Member /\ Opened' = Opened
  BY DEF forward_accept, Member, Opened
<1>14. Fabric!Carry(p, vlan, f.src, f.dst, nested)
  BY <1>7, <1>8, <1>10, <1>11, <1>12, <1>13
     DEF Fabric!Carry, Member, Opened, Station
<1>15. p \in Opened /\ f.src \in Mac /\ f.dst \in Mac
  BY <1>5 DEF Opened, ParsedFrame, EthernetFrame
<1> QED BY <1>6, <1>14, <1>15 DEF Fabric!FabricNext, Opened

LEMMA ForwardMaps ==
  ASSUME Inv, NEW p \in PortId, NEW f \in Frames, forward(p, f), Record(p, f)
  PROVE  Fabric!FabricNext
<1>1. CASE forward_accept(p, f)
  BY <1>1, ForwardAcceptMaps
<1>2. CASE ~accepts(p, f)
  <2>1. carried' = Quiet
    BY <1>2 DEF Record, Quiet
  <2>2. CASE handle_loop_probe(p, f) /\ is_own_probe(f, probe_id)
    BY <2>1, <2>2, BlockPortMaps DEF handle_loop_probe
  <2>3. CASE UNCHANGED <<ports, mac_table>>
    <3>1. Member' = Member /\ Opened' = Opened /\ Station' = Station
      BY <2>3 DEF Member, Opened, Station
    <3> QED BY <2>1, <3>1, StillMaps
  <2>4. forward_accept(p, f) => accepts(p, f)
    BY DEF forward_accept
  <2> QED
    BY <1>2, <2>2, <2>3, <2>4
       DEF forward, forward_drop, handle_loop_probe, vars
<1>3. CASE accepts(p, f) /\ ~forward_accept(p, f)
  BY <1>3 DEF forward, accepts, forward_drop, handle_loop_probe
<1> QED BY <1>1, <1>2, <1>3

LEMMA StartMaps == HInit => Fabric!FabricInit
BY DEF HInit, Init, Fabric!FabricInit, Fabric!Nothing

LEMMA StepMaps == Inv /\ [HNext]_<<vars, carried>> => [Fabric!FabricNext]_Fabric!fabric
<1> SUFFICES ASSUME Inv, [HNext]_<<vars, carried>>
             PROVE  [Fabric!FabricNext]_Fabric!fabric
  OBVIOUS
<1>1. CASE UNCHANGED <<vars, carried>>
  BY <1>1 DEF vars, Fabric!fabric
<1>2. ASSUME Silent,
             NEW p \in PortId, NEW mode \in Modes, add_port(p, mode)
      PROVE  Fabric!FabricNext
  BY <1>2, AddPortMaps DEF Silent, Quiet
<1>3. ASSUME Silent, NEW p \in PortId,
             remove_port(p) \/ block_port(p) \/ unblock_port(p)
      PROVE  Fabric!FabricNext
  BY <1>3, RemovePortMaps, BlockPortMaps, UnblockPortMaps DEF Silent, Quiet
<1>4. CASE Silent /\ age_out
  BY <1>4, AgeOutMaps DEF Silent, Quiet
<1>5. CASE Silent /\ Tick
  BY <1>5, TickMaps DEF Silent, Quiet
<1>6. ASSUME NEW p \in PortId, NEW f \in Frames, forward(p, f), Record(p, f)
      PROVE  Fabric!FabricNext
  BY <1>6, ForwardMaps
<1> QED BY <1>1, <1>2, <1>3, <1>4, <1>5, <1>6 DEF HNext

(***************************************************************************)
(* The switch is one learning bridge per VLAN: every call of its           *)
(* interface is a step of the abstract fabric, for every set of ports,     *)
(* modes, frames and addresses.                                            *)
(***************************************************************************)
THEOREM SwitchImplementsFabric == HSpec => ImplementsFabric
<1>1. HSpec => Fabric!FabricInit
  BY StartMaps, PTL DEF HSpec
<1>2. HSpec => [][Fabric!FabricNext]_Fabric!fabric
  BY HInvariance, StepMaps, PTL DEF HSpec
<1> QED BY <1>1, <1>2, PTL DEF ImplementsFabric, Fabric!FabricSpec
=============================================================================
