------------------------------- MODULE Aging -------------------------------
(***************************************************************************)
(* The aging of learned addresses in time: src/src/daemon.rs, the arm of   *)
(* the select! loop that sweeps the MAC table, around the switch it calls. *)
(*                                                                         *)
(* The sweep's timer has MissedTickBehavior::Delay: a tick that is taken   *)
(* late puts the next one a whole interval after it.  The loop takes a     *)
(* tick at once, as far as this clock can tell, unless it is held up in a  *)
(* reload; a reload that succeeds starts with an empty table, so the one   *)
(* of interest is a reload that takes its time and then fails.             *)
(***************************************************************************)
EXTENDS Switch

CONSTANTS
  MAC_AGE_SWEEP_INTERVAL,
  MaxStall                 \* bound on how long a reload may hold the loop up

ASSUME AgingAssumption ==
  MAC_AGE_SWEEP_INTERVAL \in Nat \ {0} /\ MaxStall \in Nat

VARIABLES
  due,        \* the time until the sweep's next tick; 0 once it is ready
  late,       \* how long that tick has been ready
  stalled,    \* the loop is in a reload
  silence     \* history: for each address heard, the time since it last was

clock == <<due, late, stalled, silence>>
avars == <<vars, clock>>

\* Long enough for the code to have forgotten an address.
Forever == MaxAge + MAC_AGE_SWEEP_INTERVAL + MaxStall

heard(p, f) ==
  IF accepts(p, f) /\ f.src \notin GroupMac
  THEN insert(silence, <<ingress_vlan(ports[p].mode, f), f.src>>, 0)
  ELSE silence

\* handle_frame_event, with a frame: `now` is when the loop handles it.
hear(p, f) ==
  /\ ~stalled /\ forward(p, f)
  /\ silence' = heard(p, f)
  /\ UNCHANGED <<due, late, stalled>>

\* Ports come up, and go down.
port_changes ==
  /\ ~stalled
  /\ \/ \E p \in PortId, mode \in Modes : add_port(p, mode)
     \/ \E p \in PortId : remove_port(p)
  /\ UNCHANGED clock

\* Mutant: what a tick was late by is added to the wait for the next one.
age_sweep_accumulating ==
  /\ ~stalled /\ due = 0
  /\ age_out
  /\ due' = MAC_AGE_SWEEP_INTERVAL + late /\ late' = 0
  /\ UNCHANGED <<stalled, silence>>

age_sweep ==
  /\ ~stalled /\ due = 0
  /\ age_out
  /\ due' = MAC_AGE_SWEEP_INTERVAL /\ late' = 0
  /\ UNCHANGED <<stalled, silence>>

stall == ~stalled /\ stalled' = TRUE /\ UNCHANGED <<vars, due, late, silence>>
resume == stalled /\ stalled' = FALSE /\ UNCHANGED <<vars, due, late, silence>>

time_passes ==
  /\ \/ due > 0 /\ due' = due - 1 /\ UNCHANGED late
     \/ due = 0 /\ stalled /\ late < MaxStall /\ late' = late + 1 /\ UNCHANGED due
  /\ Tick
  /\ silence' = [k \in DOMAIN silence |->
                   IF silence[k] < Forever THEN silence[k] + 1 ELSE silence[k]]
  /\ UNCHANGED stalled

\* The first tick of an interval is ready at once.
AgingInit == Init /\ due = 0 /\ late = 0 /\ stalled = FALSE /\ silence = << >>

AgingNext ==
  \/ \E p \in PortId, f \in Frames : hear(p, f)
  \/ port_changes \/ age_sweep \/ stall \/ resume \/ time_passes

AgingSpec == AgingInit /\ [][AgingNext]_avars

----------------------------------------------------------------------------
AgingTypeOK ==
  /\ RoutesTypeOK
  /\ due \in 0 .. MAC_AGE_SWEEP_INTERVAL /\ late \in 0 .. MaxStall
  /\ stalled \in BOOLEAN
  /\ IsMap(silence, Assignable \X Mac, 0 .. Forever)

(***************************************************************************)
(* A host that has fallen silent is forgotten less than one sweep after    *)
(* MAC_MAX_AGE, later only by what a reload held the sweep up: "a stale    *)
(* entry doesn't linger much past its actual age-out point".  Frames sent  *)
(* to it, however many, do not keep it.                                    *)
(***************************************************************************)
ForgottenInTime ==
  \A k \in DOMAIN mac_table :
    silence[k] < MaxAge + MAC_AGE_SWEEP_INTERVAL + late

(***************************************************************************)
(* A sweep forgets nobody heard within MAC_MAX_AGE, however long ago it    *)
(* was learned first and however late the sweep is.                        *)
(***************************************************************************)
KeptWhileHeard ==
  [][age_sweep =>
       \A k \in DOMAIN mac_table \ DOMAIN mac_table' : silence[k] >= MaxAge]_avars
=============================================================================
