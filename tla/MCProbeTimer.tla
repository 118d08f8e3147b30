---------------------------- MODULE MCProbeTimer ----------------------------
(* The instance of MCLoopedDaemon, with the timer that ticks.              *)
EXTENDS MCLoopedDaemon, ProbeTimer
=============================================================================
