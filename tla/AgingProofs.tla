---------------------------- MODULE AgingProofs ----------------------------
(***************************************************************************)
(* Proofs about Aging, for every age limit, sweep interval and delay, and  *)
(* for every set of ports, modes and frames.  The argument is an           *)
(* accounting: an entry's age is the silence of its host, up to the limit, *)
(* and the silence and what is left until the next sweep never add up to   *)
(* more than the limit, one interval, and what the sweep is late by.       *)
(***************************************************************************)
EXTENDS Aging, SwitchProofs

ClockTypeOK ==
  /\ due \in 0 .. MAC_AGE_SWEEP_INTERVAL /\ late \in 0 .. MaxStall
  /\ stalled \in BOOLEAN
  /\ IsMap(silence, Assignable \X Mac, 0 .. Forever)

\* Every route is of a host that was heard, and is as old as its silence.
Accounted(k) ==
  /\ k \in DOMAIN silence
  /\ mac_table[k].age = IF silence[k] < MaxAge THEN silence[k] ELSE MaxAge
  /\ silence[k] + due < MaxAge + MAC_AGE_SWEEP_INTERVAL + late

AgeInv == Inv /\ ClockTypeOK /\ \A k \in DOMAIN mac_table : Accounted(k)

----------------------------------------------------------------------------
LEMMA AgingConstants ==
  /\ MaxAge \in Nat \ {0} /\ MAC_AGE_SWEEP_INTERVAL \in Nat \ {0} /\ MaxStall \in Nat
  /\ Forever = MaxAge + MAC_AGE_SWEEP_INTERVAL + MaxStall /\ Forever \in Nat
BY SwitchAssumption, AgingAssumption DEF Forever

LEMMA AgingInitInv == AgingInit => AgeInv
<1> SUFFICES ASSUME AgingInit PROVE AgeInv
  OBVIOUS
<1>1. Inv
  BY InitInv DEF AgingInit
<1>2. ClockTypeOK
  <2>1. IsMap(silence, Assignable \X Mac, 0 .. Forever)
    BY DEF AgingInit, IsMap
  <2>2. due \in 0 .. MAC_AGE_SWEEP_INTERVAL /\ late \in 0 .. MaxStall
    BY AgingConstants DEF AgingInit
  <2>3. stalled \in BOOLEAN
    BY DEF AgingInit
  <2> QED BY <2>1, <2>2, <2>3 DEF ClockTypeOK
<1>3. DOMAIN mac_table = {}
  BY DEF AgingInit, Init
<1> QED BY <1>1, <1>2, <1>3 DEF AgeInv

\* Calls that learn nothing, and take no time.
LEMMA OldRoutes ==
  ASSUME AgeInv, Inv', UNCHANGED clock,
         \A k \in DOMAIN mac_table' : k \in DOMAIN mac_table /\ mac_table'[k] = mac_table[k]
  PROVE  AgeInv'
BY DEF AgeInv, ClockTypeOK, Accounted, clock

\* A frame that is accepted from a host: the silence of the host is over.
LEMMA Heard ==
  ASSUME AgeInv, NEW p \in PortId, NEW f \in Frames,
         forward_accept(p, f), f.src \notin GroupMac, hear(p, f)
  PROVE  AgeInv'
<1> DEFINE vlan == ingress_vlan(ports[p].mode, f)
           key == <<vlan, f.src>>
<1>1. accepts(p, f) /\ mac_table' = learned(p, vlan, f)
  BY DEF forward_accept
<1>2. vlan \in Assignable /\ f.src \in Mac
  BY <1>1, Accepted DEF AgeInv, ParsedFrame, EthernetFrame
<1>3. silence' = insert(silence, key, 0) /\ UNCHANGED <<due, late, stalled>>
  BY <1>1 DEF hear, heard
<1>4. mac_table' = insert(mac_table, key, [port |-> p, age |-> 0])
  BY <1>1 DEF learned, learn
<1>5. key \in Assignable \X Mac
  BY <1>2
<1> HIDE DEF key
<1>6. Inv'
  BY ForwardStep DEF hear, AgeInv
<1>7. ClockTypeOK'
  <2>1. 0 \in 0 .. Forever
    BY AgingConstants
  <2> QED BY <1>3, <1>5, <2>1, InsertIsMap DEF AgeInv, ClockTypeOK
<1>8. ASSUME NEW k \in DOMAIN mac_table' PROVE Accounted(k)'
  <2>1. CASE k = key
    <3>1. k \in DOMAIN silence' /\ silence'[k] = 0 /\ mac_table'[k].age = 0
      BY <1>3, <1>4, <2>1 DEF insert
    <3>2. /\ due \in Nat /\ late \in Nat /\ due <= MAC_AGE_SWEEP_INTERVAL
          /\ due' = due /\ late' = late
      BY <1>3, AgingConstants DEF AgeInv, ClockTypeOK
    <3> QED BY <3>1, <3>2, AgingConstants DEF Accounted
  <2>2. CASE k # key
    <3>1. k \in DOMAIN mac_table /\ mac_table'[k] = mac_table[k] /\ Accounted(k)
      BY <1>4, <2>2 DEF insert, AgeInv
    <3>2. k \in DOMAIN silence' /\ silence'[k] = silence[k]
      BY <1>3, <2>2, <3>1 DEF insert, Accounted
    <3> QED BY <1>3, <3>1, <3>2 DEF Accounted
  <2> QED BY <2>1, <2>2
<1> QED BY <1>6, <1>7, <1>8 DEF AgeInv

LEMMA HearStep ==
  ASSUME AgeInv, NEW p \in PortId, NEW f \in Frames, hear(p, f)
  PROVE  AgeInv'
<1>1. forward(p, f) /\ Inv'
  BY ForwardStep DEF hear, AgeInv
<1>2. CASE forward_accept(p, f) /\ f.src \notin GroupMac
  BY <1>2, Heard
<1>3. CASE ~(forward_accept(p, f) /\ f.src \notin GroupMac)
  <2>1. \A k \in DOMAIN mac_table' : k \in DOMAIN mac_table /\ mac_table'[k] = mac_table[k]
    BY <1>1, <1>3
       DEF forward, handle_loop_probe, block_port, purge_port, Restrict, forward_drop,
           forward_accept, learned, vars
  <2>2. UNCHANGED clock
    <3>1. accepts(p, f) => forward_accept(p, f)
      BY <1>1 DEF forward, accepts, handle_loop_probe, forward_drop
    <3> QED BY <1>3, <3>1 DEF hear, heard, clock
  <2> QED BY <1>1, <2>1, <2>2, OldRoutes
<1> QED BY <1>2, <1>3

LEMMA PortChanges ==
  ASSUME AgeInv, port_changes
  PROVE  AgeInv'
<1>1. Inv'
  BY AddPortStep, RemovePortStep DEF port_changes, AgeInv
<1>2. \A k \in DOMAIN mac_table' : k \in DOMAIN mac_table /\ mac_table'[k] = mac_table[k]
  BY DEF port_changes, add_port, remove_port, purge_port, Restrict
<1> QED BY <1>1, <1>2, OldRoutes DEF port_changes

\* What a sweep leaves is younger than the limit.
LEMMA SweepStep ==
  ASSUME AgeInv, age_sweep
  PROVE  AgeInv'
<1>1. Inv'
  BY AgingStep DEF age_sweep, AgeInv
<1>2. /\ due' = MAC_AGE_SWEEP_INTERVAL /\ late' = 0 /\ UNCHANGED <<stalled, silence>>
      /\ mac_table' = evict_older_than(mac_table, MaxAge)
  BY DEF age_sweep, age_out
<1>3. ClockTypeOK'
  BY <1>2, AgingConstants DEF AgeInv, ClockTypeOK
<1>4. ASSUME NEW k \in DOMAIN mac_table' PROVE Accounted(k)'
  <2>1. /\ k \in DOMAIN mac_table /\ mac_table'[k] = mac_table[k]
        /\ mac_table[k].age < MaxAge /\ Accounted(k)
    BY <1>2 DEF evict_older_than, Restrict, AgeInv
  <2>2. silence[k] \in Nat
    BY <2>1, AgingConstants DEF Accounted, AgeInv, ClockTypeOK, IsMap
  <2>3. silence[k] < MaxAge
    BY <2>1, <2>2, AgingConstants DEF Accounted
  <2> QED BY <1>2, <2>1, <2>2, <2>3, AgingConstants DEF Accounted
<1> QED BY <1>1, <1>3, <1>4 DEF AgeInv

LEMMA TimeStep ==
  ASSUME AgeInv, time_passes
  PROVE  AgeInv'
<1>1. Inv'
  BY AgingStep DEF time_passes, AgeInv
<1>2. /\ DOMAIN silence' = DOMAIN silence
      /\ \A k \in DOMAIN silence :
           silence'[k] = IF silence[k] < Forever THEN silence[k] + 1 ELSE silence[k]
      /\ UNCHANGED stalled
  BY DEF time_passes
<1>3. \/ due > 0 /\ due' = due - 1 /\ late' = late
      \/ due = 0 /\ due' = due /\ late < MaxStall /\ late' = late + 1
  BY DEF time_passes
<1>4. \A k \in DOMAIN silence : silence[k] \in 0 .. Forever
  BY DEF AgeInv, ClockTypeOK, IsMap
<1>5. /\ due \in 0 .. MAC_AGE_SWEEP_INTERVAL /\ late \in 0 .. MaxStall
      /\ due' \in 0 .. MAC_AGE_SWEEP_INTERVAL /\ late' \in 0 .. MaxStall
  BY <1>3, AgingConstants DEF AgeInv, ClockTypeOK
<1>6. IsMap(silence', Assignable \X Mac, 0 .. Forever)
  <2>1. \A k \in DOMAIN silence : silence'[k] \in 0 .. Forever
    BY <1>2, <1>4, AgingConstants
  <2>2. silence' = [k \in DOMAIN silence |-> silence'[k]]
    BY DEF time_passes
  <2> QED BY <1>2, <2>1, <2>2 DEF AgeInv, ClockTypeOK, IsMap
<1>7. ASSUME NEW k \in DOMAIN mac_table' PROVE Accounted(k)'
  <2>1. k \in DOMAIN mac_table /\ Accounted(k)
    BY DEF time_passes, Tick, elapse, AgeInv
  <2>2. mac_table[k] \in [port : PortId, age : 0 .. MaxAge]
    BY <2>1 DEF AgeInv, Inv, CoreTypeOK, RoutesTypeOK, IsMap
  <2>3. mac_table'[k].age = IF mac_table[k].age < MaxAge THEN mac_table[k].age + 1
                            ELSE mac_table[k].age
    BY <2>1, <2>2 DEF time_passes, Tick, elapse
  <2>4. k \in DOMAIN silence /\ silence[k] \in 0 .. Forever /\ silence[k] < Forever
    BY <1>4, <1>5, <2>1, AgingConstants DEF Accounted
  <2>5. silence'[k] = silence[k] + 1
    BY <1>2, <2>4
  <2>6. silence'[k] + due' < MaxAge + MAC_AGE_SWEEP_INTERVAL + late'
    BY <1>3, <1>5, <2>1, <2>4, <2>5, AgingConstants DEF Accounted
  <2>7. mac_table'[k].age = IF silence'[k] < MaxAge THEN silence'[k] ELSE MaxAge
    BY <2>1, <2>3, <2>4, <2>5, AgingConstants DEF Accounted
  <2> QED BY <1>2, <2>4, <2>6, <2>7 DEF Accounted
<1> QED BY <1>1, <1>2, <1>5, <1>6, <1>7 DEF AgeInv, ClockTypeOK

LEMMA AgingNextInv == AgeInv /\ [AgingNext]_avars => AgeInv'
<1> SUFFICES ASSUME AgeInv, [AgingNext]_avars PROVE AgeInv'
  OBVIOUS
<1>1. CASE stall \/ resume
  <2>1. Inv'
    BY <1>1, QuietStep DEF stall, resume, vars, AgeInv
  <2> QED BY <1>1, <2>1 DEF stall, resume, vars, AgeInv, ClockTypeOK, Accounted
<1>2. CASE UNCHANGED avars
  <2>1. Inv'
    BY <1>2, QuietStep DEF avars, vars, AgeInv
  <2> QED BY <1>2, <2>1, OldRoutes DEF avars, vars
<1> QED BY <1>1, <1>2, HearStep, PortChanges, SweepStep, TimeStep DEF AgingNext

LEMMA AgingInvariance == AgingSpec => []AgeInv
BY AgingInitInv, AgingNextInv, PTL DEF AgingSpec

(***************************************************************************)
(* The clock, the delays and the histories keep their types.               *)
(***************************************************************************)
THEOREM AgingTypeOKHolds == AgingSpec => []AgingTypeOK
<1>1. AgeInv => AgingTypeOK
  BY DEF AgeInv, Inv, CoreTypeOK, ClockTypeOK, AgingTypeOK
<1> QED BY <1>1, AgingInvariance, PTL

(***************************************************************************)
(* No entry outlives its host's last frame by more than the age limit, one *)
(* sweep, and what a reload held that sweep up, whatever the three are.    *)
(***************************************************************************)
THEOREM ForgottenInTimeHolds == AgingSpec => []ForgottenInTime
<1>1. AgeInv => ForgottenInTime
  <2> SUFFICES ASSUME AgeInv, NEW k \in DOMAIN mac_table
               PROVE  silence[k] < MaxAge + MAC_AGE_SWEEP_INTERVAL + late
    BY DEF ForgottenInTime
  <2>1. Accounted(k) /\ due \in Nat /\ late \in Nat
    BY AgingConstants DEF AgeInv, ClockTypeOK
  <2>2. silence[k] \in Nat
    BY <2>1, AgingConstants DEF AgeInv, ClockTypeOK, Accounted, IsMap
  <2> QED BY <2>1, <2>2, AgingConstants DEF Accounted
<1> QED BY <1>1, AgingInvariance, PTL

(***************************************************************************)
(* A sweep removes no entry of a host heard within the age limit.          *)
(***************************************************************************)
THEOREM KeptWhileHeardHolds == AgingSpec => KeptWhileHeard
<1>1. AgeInv /\ [AgingNext]_avars =>
        [age_sweep => \A k \in DOMAIN mac_table \ DOMAIN mac_table' :
                        silence[k] >= MaxAge]_avars
  <2> SUFFICES ASSUME AgeInv, age_sweep, NEW k \in DOMAIN mac_table \ DOMAIN mac_table'
               PROVE  silence[k] >= MaxAge
    OBVIOUS
  <2>1. ~(mac_table[k].age < MaxAge) /\ Accounted(k)
    BY DEF age_sweep, age_out, evict_older_than, Restrict, AgeInv
  <2>2. silence[k] \in Nat
    BY <2>1, AgingConstants DEF AgeInv, ClockTypeOK, Accounted, IsMap
  <2> QED BY <2>1, <2>2, AgingConstants DEF Accounted
<1> QED BY <1>1, AgingInvariance, PTL DEF AgingSpec, KeptWhileHeard
=============================================================================
