------------------------------- MODULE Switch -------------------------------
(***************************************************************************)
(* The switch core: src/src/switch/forwarding.rs.  Zero I/O, one caller at *)
(* a time: every public &mut method of Switch is an action, and forward,   *)
(* whose result is a list of encoded frames, is split by its early         *)
(* returns.  deliveries(p, f) is what a call forward(p, f) returns in the  *)
(* current state.                                                          *)
(***************************************************************************)
EXTENDS LoopGuard, PortMode, MacTable, FiniteSetsExt

CONSTANTS
  PortId,          \* handles the caller may assign
  Modes,           \* modes the caller may give a port
  Frames,          \* frames that may arrive
  GroupMac,        \* addresses with the I/G bit set
  MaxAge,          \* age at which age_out evicts
  ProbeIds,        \* ids with_probe_id may be given
  CounterModulus   \* counters are u64: 2^64, or less to keep runs small

ASSUME SwitchAssumption ==
  /\ Modes \subseteq PortMode
  /\ Frames \subseteq ParsedFrame
  /\ BROADCAST \in GroupMac /\ GroupMac \subseteq Mac
  /\ MaxAge \in Nat \ {0}
  /\ ProbeIds \subseteq Word
  /\ CounterModulus \in Nat \ {0}
  /\ NoVlan \notin Word

VARIABLES
  ports,           \* registered ports: [mode, blocked]
  mac_table,
  port_counters,   \* ports that have been counted
  vlan_counters,   \* VLANs that have been counted
  probe_id

vars == <<ports, mac_table, port_counters, vlan_counters, probe_id>>

PortEntry == [mode : Modes, blocked : BOOLEAN]

----------------------------------------------------------------------------
\* Counters

CounterFields == {"frames_in", "bytes_in", "frames_out", "bytes_out", "drops"}
Counters == [CounterFields -> 0 .. CounterModulus - 1]
Zero == [field \in CounterFields |-> 0]

Drop == [Zero EXCEPT !["drops"] = 1]
In(bytes) == [Zero EXCEPT !["frames_in"] = 1, !["bytes_in"] = bytes]
Out(frames, bytes) ==
  [Zero EXCEPT !["frames_out"] = frames, !["bytes_out"] = bytes]

Plus(a, b) == [field \in CounterFields |-> a[field] + b[field]]

\* An entry that is absent counts as zero.
counters_of(map, key) == IF key \in DOMAIN map THEN map[key] ELSE Zero

\* entry(key).or_default() += amount[key], for each key of amount.
count(map, amount) ==
  [k \in DOMAIN map \cup DOMAIN amount |->
     IF k \in DOMAIN amount
     THEN [field \in CounterFields |->
             (counters_of(map, k)[field] + amount[k][field]) % CounterModulus]
     ELSE map[k]]

----------------------------------------------------------------------------
\* Where a frame belongs, and how it looks on its way out

\* Mutant: a trunk takes any VID it finds on the wire.
ingress_vlan_any_tag(mode, f) ==
  IF f.tag = NoTag
  THEN IF mode.kind = "access" THEN mode.vlan ELSE mode.native
  ELSE IF mode.kind = "trunk" THEN f.tag.vid ELSE NoVlan

\* The VLAN of frame f on a port in this mode; NoVlan when it is refused.
ingress_vlan(mode, f) ==
  IF f.tag = NoTag
  THEN IF mode.kind = "access" THEN mode.vlan ELSE mode.native
  ELSE IF mode.kind = "trunk" /\ carries(mode, f.tag.vid) THEN f.tag.vid
       ELSE NoVlan

egress_tag(mode, vlan, f) ==
  IF mode.kind = "access" \/ mode.native = vlan THEN NoTag
  ELSE IF f.tag = NoTag THEN [pcp |-> 0, dei |-> FALSE, vid |-> vlan]
  ELSE [pcp |-> f.tag.pcp, dei |-> f.tag.dei, vid |-> vlan]

egress_frame(mode, vlan, f) == [f EXCEPT !.tag = egress_tag(mode, vlan, f)]

\* Mutant: a flood that forgets to look at membership.
flood_targets_any_vlan(vlan, exclude) ==
  {q \in DOMAIN ports \ {exclude} : ~ports[q].blocked}

flood_targets(vlan, exclude) ==
  {q \in DOMAIN ports \ {exclude} :
     ~ports[q].blocked /\ carries(ports[q].mode, vlan)}

\* Mutant: every source is learned.
learned_any_source(p, vlan, f) == learn(mac_table, vlan, f.src, p)

\* Mutant: a destination that is looked up counts as heard.
learned_refreshing(p, vlan, f) ==
  LET known_dst == known(mac_table, vlan, f.dst)
      table == IF known_dst
               THEN learn(mac_table, vlan, f.dst, lookup(mac_table, vlan, f.dst))
               ELSE mac_table
  IN  IF f.src \in GroupMac THEN table ELSE learn(table, vlan, f.src, p)

\* A forged group source is never learned.
learned(p, vlan, f) ==
  IF f.src \in GroupMac THEN mac_table ELSE learn(mac_table, vlan, f.src, p)

\* Mutant: the destination is looked up before the source is learned.
egress_ports_before_learning(p, vlan, f) ==
  IF f.dst # BROADCAST /\ known(mac_table, vlan, f.dst)
  THEN {lookup(mac_table, vlan, f.dst)} \ {p}
  ELSE flood_targets(vlan, p)

\* The destination is looked up in the table the source was just put in.
egress_ports(p, vlan, f) ==
  IF f.dst # BROADCAST /\ known(learned(p, vlan, f), vlan, f.dst)
  THEN {lookup(learned(p, vlan, f), vlan, f.dst)} \ {p}
  ELSE flood_targets(vlan, p)

\* Mutant: the write error of an unwrapped inner tag goes unnoticed.
encodable_unchecked(q, vlan, f) ==
  q \in DOMAIN ports /\ ~ports[q].blocked

\* Whether encode_for_egress returns a delivery for port q, or None.
encodable(q, vlan, f) ==
  /\ q \in DOMAIN ports
  /\ ~ports[q].blocked
  /\ ~AmbiguousUntaggedEtherType(egress_frame(ports[q].mode, vlan, f))

encode_for_egress(q, vlan, f) ==
  [port |-> q, bytes |-> write_into(egress_frame(ports[q].mode, vlan, f))]

\* Mutant: a port that is blocked still takes frames in.
accepts_blocked(p, f) ==
  /\ ~is_any_probe(f)
  /\ p \in DOMAIN ports
  /\ ingress_vlan(ports[p].mode, f) # NoVlan

\* Past the probe check, the block check and ingress_vlan.
accepts(p, f) ==
  /\ ~is_any_probe(f)
  /\ p \in DOMAIN ports
  /\ ~ports[p].blocked
  /\ ingress_vlan(ports[p].mode, f) # NoVlan

\* The ports a call forward(p, f) returns a delivery for, and the deliveries.
targets(p, f) ==
  IF ~accepts(p, f) THEN {}
  ELSE LET vlan == ingress_vlan(ports[p].mode, f)
       IN  {q \in egress_ports(p, vlan, f) : encodable(q, vlan, f)}

deliveries(p, f) ==
  {encode_for_egress(q, ingress_vlan(ports[p].mode, f), f) :
     q \in targets(p, f)}

----------------------------------------------------------------------------
Init ==
  /\ ports = << >>
  /\ mac_table = << >>
  /\ port_counters = << >>
  /\ vlan_counters = << >>
  /\ probe_id \in ProbeIds

\* Mutant: a port that changes mode keeps its routes.
add_port_keeping_routes(p, mode) ==
  /\ ports' = insert(ports, p, [mode |-> mode, blocked |-> FALSE])
  /\ UNCHANGED <<mac_table, port_counters, vlan_counters, probe_id>>

\* Also how a port changes mode: its routes go, its block goes, its counters
\* stay.
add_port(p, mode) ==
  /\ mac_table' = purge_port(mac_table, p)
  /\ ports' = insert(ports, p, [mode |-> mode, blocked |-> FALSE])
  /\ UNCHANGED <<port_counters, vlan_counters, probe_id>>

\* Mutant: a port that goes leaves its counters behind.
remove_port_keeping_counters(p) ==
  /\ ports' = Restrict(ports, DOMAIN ports \ {p})
  /\ mac_table' = purge_port(mac_table, p)
  /\ UNCHANGED <<port_counters, vlan_counters, probe_id>>

remove_port(p) ==
  /\ ports' = Restrict(ports, DOMAIN ports \ {p})
  /\ mac_table' = purge_port(mac_table, p)
  /\ port_counters' = Restrict(port_counters, DOMAIN port_counters \ {p})
  /\ UNCHANGED <<vlan_counters, probe_id>>

\* get_mut(port): nothing happens to a port that is not registered.
set_blocked(p, flag) ==
  ports' = [q \in DOMAIN ports |->
              IF q = p THEN [ports[q] EXCEPT !.blocked = flag] ELSE ports[q]]

\* Mutant: blocking leaves the routes to age out.
block_port_keeping_routes(p) ==
  /\ set_blocked(p, TRUE)
  /\ UNCHANGED <<mac_table, port_counters, vlan_counters, probe_id>>

block_port(p) ==
  /\ set_blocked(p, TRUE)
  /\ mac_table' = purge_port(mac_table, p)
  /\ UNCHANGED <<port_counters, vlan_counters, probe_id>>

unblock_port(p) ==
  /\ set_blocked(p, FALSE)
  /\ UNCHANGED <<mac_table, port_counters, vlan_counters, probe_id>>

age_out ==
  /\ mac_table' = evict_older_than(mac_table, MaxAge)
  /\ UNCHANGED <<ports, port_counters, vlan_counters, probe_id>>

\* Mutant: a probe is absorbed without a look at whose it is.
handle_loop_probe_absorbing(p, f) ==
  is_any_probe(f) /\ p \in DOMAIN ports /\ UNCHANGED vars

\* forward on a registered port, a probe: absorbed, and if it is our own the
\* port it came back on is blocked.
handle_loop_probe(p, f) ==
  /\ is_any_probe(f)
  /\ p \in DOMAIN ports
  /\ IF is_own_probe(f, probe_id) THEN block_port(p) ELSE UNCHANGED vars

\* forward returns PortBlocked, or what ingress_vlan refuses.
forward_drop(p, f) ==
  /\ ~is_any_probe(f)
  /\ p \in DOMAIN ports
  /\ ports[p].blocked \/ ingress_vlan(ports[p].mode, f) = NoVlan
  /\ port_counters' = count(port_counters, [q \in {p} |-> Drop])
  /\ UNCHANGED <<ports, mac_table, vlan_counters, probe_id>>

\* Mutant: a port is counted for a frame that could not be encoded for it.
port_amounts_unencoded(p, vlan, f) ==
  [q \in {p} \cup egress_ports(p, vlan, f) |->
     Plus(IF q = p THEN In(wire_len(f)) ELSE Zero,
          IF q # p
          THEN Out(1, ByteLen(encode_for_egress(q, vlan, f).bytes))
          ELSE Zero)]

\* What Ok(deliveries) adds to the counters of each port it touches, and to
\* those of the one VLAN it happens in.
port_amounts(p, vlan, f) ==
  [q \in {p} \cup targets(p, f) |->
     Plus(IF q = p THEN In(wire_len(f)) ELSE Zero,
          IF q \in targets(p, f)
          THEN Out(1, ByteLen(encode_for_egress(q, vlan, f).bytes))
          ELSE Zero)]

vlan_amount(p, vlan, f) ==
  Plus(In(wire_len(f)),
       Out(Cardinality(targets(p, f)),
           SumFunction([q \in targets(p, f) |->
                          ByteLen(encode_for_egress(q, vlan, f).bytes)])))

\* forward returns Ok(deliveries).
forward_accept(p, f) ==
  /\ accepts(p, f)
  /\ LET vlan == ingress_vlan(ports[p].mode, f)
     IN  /\ mac_table' = learned(p, vlan, f)
         /\ port_counters' = count(port_counters, port_amounts(p, vlan, f))
         /\ vlan_counters' =
              count(vlan_counters, [v \in {vlan} |-> vlan_amount(p, vlan, f)])
  /\ UNCHANGED <<ports, probe_id>>

\* forward on an unregistered port returns UnknownPort and changes nothing.
forward(p, f) ==
  \/ handle_loop_probe(p, f)
  \/ forward_drop(p, f)
  \/ forward_accept(p, f)
  \/ p \notin DOMAIN ports /\ UNCHANGED vars

\* Time passes between two calls.
Tick ==
  /\ mac_table' = elapse(mac_table, MaxAge)
  /\ UNCHANGED <<ports, port_counters, vlan_counters, probe_id>>

Next ==
  \/ \E p \in PortId, mode \in Modes : add_port(p, mode)
  \/ \E p \in PortId : remove_port(p)
  \/ \E p \in PortId : block_port(p)
  \/ \E p \in PortId : unblock_port(p)
  \/ age_out
  \/ \E p \in PortId, f \in Frames : forward(p, f)
  \/ Tick

Spec == Init /\ [][Next]_vars

----------------------------------------------------------------------------
\* What is shown of the counters

port_snapshot(p) ==
  [counters |-> counters_of(port_counters, p),
   blocked |-> ports[p].blocked, mode |-> ports[p].mode]

\* The dashboard lists the ports that are registered, SIGUSR1 those that have
\* been counted.
render_counters_json ==
  [ports |-> [p \in DOMAIN ports |-> port_snapshot(p)], vlans |-> vlan_counters]

dump_counters == [ports |-> port_counters, vlans |-> vlan_counters]

----------------------------------------------------------------------------
PortsTypeOK == IsMap(ports, PortId, PortEntry)

\* The table's keys are VLANs a port can carry, whatever VID was on the wire.
RoutesTypeOK ==
  IsMap(mac_table, Assignable \X Mac, [port : PortId, age : 0 .. MaxAge])

CountersTypeOK ==
  /\ IsMap(port_counters, PortId, Counters)
  /\ IsMap(vlan_counters, Assignable, Counters)

(***************************************************************************)
(* Type invariant of the switch.  Its part about the table says that a     *)
(* frame's VID never becomes a key unless a port carries that VLAN.        *)
(***************************************************************************)
TypeOK ==
  /\ PortsTypeOK /\ RoutesTypeOK /\ CountersTypeOK
  /\ probe_id \in ProbeIds

(***************************************************************************)
(* No stale route: every learned address leads to a port that is           *)
(* registered, not blocked, and still carries the VLAN it was learned in.  *)
(* This is what add_port, remove_port and block_port purge routes for, and *)
(* what lets forward send unicast frames without looking at the egress     *)
(* port's membership.                                                      *)
(***************************************************************************)
RouteValid(vlan, mac) ==
  LET q == lookup(mac_table, vlan, mac)
  IN  /\ q \in DOMAIN ports
      /\ ~ports[q].blocked
      /\ carries(ports[q].mode, vlan)

RoutesValid == \A k \in DOMAIN mac_table : RouteValid(k[1], k[2])

\* No group address is ever learned, so none is ever matched by a lookup.
NoGroupRoutes == \A k \in DOMAIN mac_table : k[2] \notin GroupMac

(***************************************************************************)
(* VLAN isolation: whatever sequence of calls came before, a frame is only *)
(* ever delivered to another port that is registered, is not blocked and   *)
(* carries the VLAN the frame came in on; a blocked port delivers nothing. *)
(***************************************************************************)
VlanIsolation ==
  \A p \in PortId, f \in Frames :
    \A d \in deliveries(p, f) :
      /\ d.port \in DOMAIN ports \ {p}
      /\ ~ports[p].blocked /\ ~ports[d.port].blocked
      /\ carries(ports[p].mode, ingress_vlan(ports[p].mode, f))
      /\ carries(ports[d.port].mode, ingress_vlan(ports[p].mode, f))

\* The priority bits of a frame, as a port without a tag reads them.
priority(f) == IF f.tag = NoTag THEN <<0, FALSE>> ELSE <<f.tag.pcp, f.tag.dei>>

(***************************************************************************)
(* Wire fidelity: a switch at the other end of the egress link, its port   *)
(* in the same mode, parses the delivered bytes, accepts them into the     *)
(* same VLAN and sees the same addresses, type and payload; a frame that   *)
(* stays tagged keeps its priority.  Untagging never exposes an inner tag  *)
(* or an inner probe that the peer would act on.                           *)
(***************************************************************************)
PeerReadsSameFrame ==
  \A p \in PortId, f \in Frames :
    \A d \in deliveries(p, f) :
      /\ Parses(d.bytes)
      /\ LET g == parse(d.bytes)
             peer == ports[d.port].mode
         IN  /\ ingress_vlan(peer, g) = ingress_vlan(ports[p].mode, f)
             /\ [g EXCEPT !.tag = f.tag] = f
             /\ g.tag # NoTag => priority(g) = priority(f)
             /\ ~is_any_probe(g)

(***************************************************************************)
(* No black hole: as long as a route to a host is kept, a frame for it     *)
(* that comes in on another open port, in the same VLAN, really leaves on  *)
(* that route, and on no other.  Only a frame that has both the EtherType  *)
(* and the magic of a probe is swallowed: others may use that EtherType,   *)
(* with any payload or none.                                               *)
(***************************************************************************)
NoBlackHole ==
  \A p \in DOMAIN ports, f \in Frames :
    LET vlan == ingress_vlan(ports[p].mode, f)
    IN  /\ ~ports[p].blocked /\ vlan # NoVlan
        /\ f.ethertype = PROBE_ETHERTYPE =>
             f.payload = << >> \/ Head(f.payload) # PROBE_MAGIC
        /\ f.src # f.dst
        /\ known(mac_table, vlan, f.dst)
        /\ lookup(mac_table, vlan, f.dst) # p
        /\ f.ethertype # TPID_802_1Q
        => {d.port : d \in deliveries(p, f)} = {lookup(mac_table, vlan, f.dst)}

(***************************************************************************)
(* Per-port and per-VLAN counters move together: both are updated from the *)
(* same forward call, so the difference of their totals changes only when  *)
(* remove_port forgets a port's counters.                                  *)
(***************************************************************************)
Total(map, field) ==
  SumFunction([k \in DOMAIN map |-> map[k][field]]) % CounterModulus

Drift(field) ==
  (Total(port_counters, field) - Total(vlan_counters, field)) % CounterModulus

CountersMoveTogether ==
  [][DOMAIN port_counters \subseteq DOMAIN port_counters' =>
       \A field \in CounterFields \ {"drops"} :
         Drift(field)' = Drift(field)]_vars

(***************************************************************************)
(* The dashboard shows "the same data SIGUSR1's dump_counters prints":     *)
(* though it walks the registered ports and the dump the counted ones, no  *)
(* line of the dump is missing from it, or shows other numbers.            *)
(***************************************************************************)
DashboardShowsDump ==
  \A p \in DOMAIN dump_counters.ports :
    /\ p \in DOMAIN render_counters_json.ports
    /\ render_counters_json.ports[p].counters = dump_counters.ports[p]

\* counters.rs: per-port and per-VLAN counters "stay consistent with each
\* other".  Read as equal totals, which is what the two tables of a counter
\* dump or of the dashboard show.
CountersConsistent ==
  \A field \in CounterFields \ {"drops"} : Drift(field) = 0

\* forward's documentation: a probe "is recognized by its EtherType alone",
\* and never forwarded.
ProbeTypeNeverForwarded ==
  \A p \in PortId, f \in Frames :
    f.ethertype = PROBE_ETHERTYPE => deliveries(p, f) = {}
=============================================================================
