---------------------------- MODULE SwitchFabric ----------------------------
(***************************************************************************)
(* The switch implements the fabric: Switch with a history variable, the   *)
(* frame of the last call to forward that was accepted and the ports it    *)
(* was delivered to, and the refinement mapping to VlanFabric.             *)
(***************************************************************************)
EXTENDS Switch

VARIABLE carried

Silent == carried' = [to |-> {}]

Record(p, f) ==
  carried' = IF accepts(p, f)
             THEN [from |-> p, vlan |-> ingress_vlan(ports[p].mode, f),
                   src |-> f.src, dst |-> f.dst,
                   nested |-> f.ethertype = TPID_802_1Q,
                   to |-> {d.port : d \in deliveries(p, f)}]
             ELSE [to |-> {}]

HInit == Init /\ carried = [to |-> {}]

HNext ==
  \/ /\ \/ \E p \in PortId, mode \in Modes : add_port(p, mode)
        \/ \E p \in PortId : remove_port(p) \/ block_port(p) \/ unblock_port(p)
        \/ age_out
        \/ Tick
     /\ Silent
  \/ \E p \in PortId, f \in Frames : forward(p, f) /\ Record(p, f)

HSpec == HInit /\ [][HNext]_<<vars, carried>>

----------------------------------------------------------------------------
\* The VLANs a port floods and accepts are what the fabric knows of its mode.
vlans_of(mode) ==
  IF mode.kind = "access" THEN {mode.vlan}
  ELSE mode.allowed \cup ({mode.native} \ {NoVlan})

configured == UNION {vlans_of(mode) : mode \in Modes}

Fabric ==
  INSTANCE VlanFabric WITH
    Port <- PortId, VlanId <- configured, Host <- Mac,
    Group <- GroupMac, Everyone <- BROADCAST,
    member <- [p \in DOMAIN ports |-> vlans_of(ports[p].mode)],
    open <- {p \in DOMAIN ports : ~ports[p].blocked},
    station <- [k \in DOMAIN mac_table |-> mac_table[k].port],
    carried <- carried

(***************************************************************************)
(* Every call on the switch is a step of the fabric: the hash maps, the    *)
(* tagging rules, the purges and the probe handling of the code together   *)
(* behave as one isolated learning bridge per VLAN.                        *)
(***************************************************************************)
ImplementsFabric == Fabric!FabricSpec
=============================================================================
