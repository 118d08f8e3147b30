------------------------------ MODULE PortMode ------------------------------
(***************************************************************************)
(* How a port participates in VLANs: src/src/switch/port.rs.  The          *)
(* constructors access and trunk are the only way to build a mode from a   *)
(* command line or a configuration file; PortMode is the set of the modes  *)
(* they return.                                                            *)
(***************************************************************************)
EXTENDS Integers

CONSTANT NoVlan     \* Option<Vlan>: None, and the VLAN of a rejected frame

Assignable == 1 .. 4094

Access == [kind : {"access"}, vlan : Assignable]

Trunk ==
  {m \in [kind : {"trunk"}, native : Assignable \cup {NoVlan},
          allowed : SUBSET Assignable] :
     m.native # NoVlan \/ m.allowed # {}}

PortMode == Access \cup Trunk

\* Membership: the VLANs a port floods, and those a trunk accepts tagged.
carries(mode, vlan) ==
  \/ mode.kind = "access" /\ mode.vlan = vlan
  \/ mode.kind = "trunk" /\ (vlan \in mode.allowed \/ mode.native = vlan)
=============================================================================
