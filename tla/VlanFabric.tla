----------------------------- MODULE VlanFabric -----------------------------
(***************************************************************************)
(* What the switch promises: one learning bridge per VLAN, all of them on  *)
(* the same set of ports.  A port is a member of some VLANs and is open or *)
(* shut.  A frame carried in a VLAN goes to the one member its destination *)
(* is stationed behind, or to every other open member.  Nothing is said of *)
(* tags, access and trunk ports, counters, ages or probes.                 *)
(***************************************************************************)
EXTENDS MacTable

CONSTANTS Port, VlanId, Host, Group, Everyone

VARIABLES
  member,    \* the VLANs each attached port is a member of
  open,      \* the attached ports that are not shut
  station,   \* <<vlan, host>> -> the port the host was last heard on
  carried    \* the last frame taken in, and the ports it went to

fabric == <<member, open, station, carried>>

Nothing == [to |-> {}]

Members(vlan) == {p \in open : vlan \in member[p]}

\* A station behind a port is forgotten whenever that port may have changed.
Forget(p) == Restrict(station, {k \in DOMAIN station : station[k] # p})

FabricInit ==
  member = << >> /\ open = {} /\ station = << >> /\ carried = Nothing

Attach(p, vlans) ==
  /\ member' = insert(member, p, vlans)
  /\ open' = open \cup {p}
  /\ station' = Forget(p)
  /\ carried' = Nothing

Detach(p) ==
  /\ member' = Restrict(member, DOMAIN member \ {p})
  /\ open' = open \ {p}
  /\ station' = Forget(p)
  /\ carried' = Nothing

Shut(p) ==
  /\ open' = open \ {p}
  /\ station' = Forget(p)
  /\ carried' = Nothing
  /\ UNCHANGED member

Reopen(p) ==
  /\ open' = open \cup {p}
  /\ carried' = Nothing
  /\ UNCHANGED <<member, station>>

\* Stations silent for too long are forgotten.
Silence(stale) ==
  /\ station' = Restrict(station, DOMAIN station \ stale)
  /\ carried' = Nothing
  /\ UNCHANGED <<member, open>>

\* A frame that belongs to no VLAN the port is a member of goes nowhere.
Refuse == carried' = Nothing /\ UNCHANGED <<member, open, station>>

Heard(p, vlan, src) ==
  IF src \in Group THEN station ELSE insert(station, <<vlan, src>>, p)

Reach(p, vlan, src, dst) ==
  LET heard == Heard(p, vlan, src)
  IN  IF dst # Everyone /\ <<vlan, dst>> \in DOMAIN heard
      THEN {heard[<<vlan, dst>>]} \ {p}
      ELSE Members(vlan) \ {p}

\* Only a frame with a second tag inside may miss some of those it is for.
Carry(p, vlan, src, dst, nested) ==
  /\ p \in Members(vlan)
  /\ station' = Heard(p, vlan, src)
  /\ \E to \in SUBSET Reach(p, vlan, src, dst) :
       /\ nested \/ to = Reach(p, vlan, src, dst)
       /\ carried' = [from |-> p, vlan |-> vlan, src |-> src, dst |-> dst,
                      nested |-> nested, to |-> to]
  /\ UNCHANGED <<member, open>>

FabricNext ==
  \/ \E p \in Port, vlans \in (SUBSET VlanId) \ {{}} : Attach(p, vlans)
  \/ \E p \in Port : Detach(p) \/ Shut(p)
  \/ \E p \in DOMAIN member : Reopen(p)
  \/ \E stale \in SUBSET DOMAIN station : Silence(stale)
  \/ Refuse
  \/ \E p \in open, vlan \in VlanId, src, dst \in Host, nested \in BOOLEAN :
       Carry(p, vlan, src, dst, nested)

FabricSpec == FabricInit /\ [][FabricNext]_fabric
=============================================================================
