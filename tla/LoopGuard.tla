----------------------------- MODULE LoopGuard -----------------------------
(***************************************************************************)
(* Loop-guard probes: src/src/switch/loop_guard.rs.  A probe's payload is  *)
(* a magic value, the id of the switch that sent it, and padding.  One     *)
(* word stands for each of the three fields here, whose real sizes are 4,  *)
(* 8 and 34 bytes: probes are compared field by field and never counted.   *)
(***************************************************************************)
EXTENDS Frame

CONSTANTS
  BROADCAST,   \* the all-ones destination address
  ProbeSrc     \* the locally administered unicast source of every probe

PROBE_ETHERTYPE == 34999      \* 0x88B7
PROBE_MAGIC == 22092          \* "VL", for "VLPB"

build_probe(probe_id) ==
  write_into([dst |-> BROADCAST, src |-> ProbeSrc, tag |-> NoTag,
              ethertype |-> PROBE_ETHERTYPE,
              payload |-> <<PROBE_MAGIC, probe_id, 0>>, odd |-> << >>])

\* The EtherType alone does not make a probe: the magic must be there too.
is_any_probe(f) ==
  /\ f.ethertype = PROBE_ETHERTYPE
  /\ Len(f.payload) >= 1 /\ f.payload[1] = PROBE_MAGIC

\* Mutant: a payload of any other length than magic and id is not ours.
is_own_probe_exact(f, probe_id) ==
  is_any_probe(f) /\ Len(f.payload) = 2 /\ f.payload[2] = probe_id

\* A probe cut short before its id is still a probe, but nobody's own.
is_own_probe(f, probe_id) ==
  /\ is_any_probe(f)
  /\ Len(f.payload) >= 2 /\ f.payload[2] = probe_id
=============================================================================
