----------------------------- MODULE ProbeTimer -----------------------------
(***************************************************************************)
(* The probe timer of the daemon's loop (src/src/daemon.rs, tick_loop_     *)
(* probe): it goes on ticking, and at each tick a probe is tried for every *)
(* port.  A tick that finds all queues full changes nothing, so a history  *)
(* variable tells it from no tick at all.                                  *)
(***************************************************************************)
EXTENDS LoopedDaemon

VARIABLE ticks   \* flips at each tick

tvars == <<lvars, ticks>>

tick_loop_probe == probe_timer /\ ticks' = ~ticks

ProbingInit == LoopedInit /\ ticks = FALSE

ProbingNext ==
  \/ tick_loop_probe
  \/ LoopedNext /\ UNCHANGED ticks

\* That a probe ever finds room is not promised.
ProbingSpec ==
  /\ ProbingInit /\ [][ProbingNext]_tvars
  /\ SegmentFair /\ SF_tvars(tick_loop_probe)

----------------------------------------------------------------------------
(***************************************************************************)
(* A loop is always cut: scripts/loop-guard-smoke-test.sh says that "both  *)
(* ports should end up blocked without ever forming a sustained broadcast  *)
(* storm".                                                                 *)
(***************************************************************************)
LoopIsCut == LoopOpen ~> ~LoopOpen
=============================================================================
