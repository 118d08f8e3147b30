------------------------- MODULE LoopedDaemonProofs -------------------------
(***************************************************************************)
(* Proofs about LoopedDaemon: no port is blocked without a loop or an      *)
(* echo at its own device, for any devices, topologies, frames of hosts    *)
(* and neighbours, and however often the segment is bridged, hosts echo    *)
(* what they hear, ports fail and SIGHUP replaces the switch.              *)
(*                                                                         *)
(* The argument follows the probes.  Every probe that is under way carries *)
(* an id some switch of this process has drawn, so that none can be taken  *)
(* for one of a switch still to come; and as long as the segment has not   *)
(* looped since the switch was made, one of its own probes comes back, by  *)
(* the wire of a device, in an event read from that device, or as the      *)
(* blocked state of the port that has it, only where a host echoed one,    *)
(* because what its writers sent went to no other device of its own.       *)
(***************************************************************************)
EXTENDS LoopedDaemon, DaemonProofs

\* The frames that are under way, by where they are.
OnWire == UNION {{wire[n][i] : i \in DOMAIN wire[n]} : n \in Name}
InQueues == UNION {{outbox[p][i] : i \in DOMAIN outbox[p]} : p \in DOMAIN outbox}
Read == {e.what : e \in Queued} \ {Down}

Drawn(frame, ids) == \A id \in ProbeIds : Own(frame, id) => id \in ids

ProbesDrawn ==
  \A frame \in OnWire \cup InQueues \cup Read :
    frame \in Received /\ Drawn(frame, drawn)

\* The segment carries what devices can read, within its limits.
SegmentTypes ==
  /\ wire \in [Name -> Seq(Received)]
  /\ \A n \in Name : Len(wire[n]) <= WireDepth
  /\ drawn \subseteq ProbeIds /\ probe_id \in drawn /\ heard \subseteq drawn

\* A probe of this switch has come back to one device: it is still on its way,
\* it has been read there, or it has blocked the port.
OwnOnWire(n) == \E i \in DOMAIN wire[n] : Own(wire[n][i], probe_id)
OwnRead(n) ==
  \E e \in Queued : e.name = n /\ e.what # Down /\ Own(e.what, probe_id)
BlockedOn(n) == \E p \in handles : ports[p].blocked /\ tasks[Writer(p)] = n
Alarmed(n) == OwnOnWire(n) \/ OwnRead(n) \/ BlockedOn(n)

NoAlarm ==
  ~looped => ~bridged /\ \A n \in Name : Alarmed(n) => n \in echoed

LoopInv == SegmentTypes /\ ProbesDrawn /\ NoAlarm

----------------------------------------------------------------------------
\* The segment only restricts what the daemon's devices deliver.

LEMMA StepOfDaemon == [LoopedNext]_lvars => [DaemonNext]_dvars
<1> SUFFICES ASSUME [LoopedNext]_lvars PROVE [DaemonNext]_dvars
  OBVIOUS
<1>1. CASE redraw_probe_id
  BY <1>1 DEF redraw_probe_id, set_up, DaemonNext
<1>2. CASE probe_timer
  BY <1>2 DEF probe_timer, DaemonNext
<1>3. CASE elsewhere
  BY <1>3 DEF elsewhere, DaemonNext, task_step
<1>4. ASSUME NEW p \in PortId, port_io(p) PROVE DaemonNext
  BY <1>4 DEF port_io, transmit, read_frame, DaemonNext, task_step
<1>5. ASSUME NEW p \in PortId, Alive, device_fails(p) PROVE DaemonNext
  BY <1>5 DEF device_fails, DaemonNext, task_step
<1>6. CASE host_sends \/ plug \/ unplug \/ UNCHANGED lvars
  BY <1>6 DEF host_sends, host_frame, plug, unplug, lvars
<1>7. CASE host_echoes
  BY <1>7 DEF host_echoes, host_frame
<1> QED BY <1>1, <1>2, <1>3, <1>4, <1>5, <1>6, <1>7 DEF LoopedNext

(***************************************************************************)
(* On a segment of its own, bridged or not, the daemon is still the        *)
(* daemon: whatever is proved of it for devices that may deliver anything  *)
(* holds here too.                                                         *)
(***************************************************************************)
THEOREM LoopedIsDaemon == LoopedSpec => DaemonSpec
<1>1. LoopedInit => DaemonInit
  BY DEF LoopedInit
<1> QED BY <1>1, StepOfDaemon, PTL DEF LoopedSpec, DaemonSpec

----------------------------------------------------------------------------
\* Frames and probes

LEMMA OwnProbe ==
  ASSUME NEW id \in ProbeIds
  PROVE  /\ build_probe(id) \in Received
         /\ \A other : Own(build_probe(id), other) => other = id
<1> DEFINE frame == [dst |-> BROADCAST, src |-> ProbeSrc, tag |-> NoTag,
                     ethertype |-> PROBE_ETHERTYPE,
                     payload |-> <<PROBE_MAGIC, id, 0>>, odd |-> << >>]
<1>1. build_probe(id) \in Received
  BY SegmentAssumption
<1>2. build_probe(id) = write_into(frame)
  BY DEF build_probe
<1>3. frame.dst \in Mac /\ frame.src \in Mac
  <2>1. write_into(frame) \in WireFrame
    BY <1>1, <1>2, DaemonAssumption
  <2> QED BY <2>1 DEF write_into, WireFrame
<1>4. frame \in EthernetFrame(WireTag) /\ ~AmbiguousUntaggedEtherType(frame)
  <2>1. PROBE_ETHERTYPE \in Word /\ PROBE_MAGIC \in Word /\ 0 \in Word /\ id \in Word
    BY InWord, SwitchAssumption DEF PROBE_ETHERTYPE, PROBE_MAGIC
  <2>2. <<PROBE_MAGIC, id, 0>> \in Seq(Word)
    BY <2>1
  <2>3. PROBE_ETHERTYPE # TPID_802_1Q
    BY DEF PROBE_ETHERTYPE, TPID_802_1Q
  <2>4. << >> \in OddByte
    BY DEF OddByte
  <2>5. ~AmbiguousUntaggedEtherType(frame)
    BY <2>3 DEF AmbiguousUntaggedEtherType
  <2> QED BY <1>3, <2>1, <2>2, <2>4, <2>5 DEF EthernetFrame
<1>5. parse(build_probe(id)) = frame
  BY <1>2, <1>4, WriteParse
<1>6. frame.payload[2] = id
  OBVIOUS
<1>7. ASSUME NEW other, Own(build_probe(id), other) PROVE other = id
  BY <1>5, <1>6, <1>7 DEF Own, is_own_probe
<1> QED BY <1>1, <1>7

\* What forward delivers is no probe at all, and can be read where it arrives.
LEMMA Delivered ==
  ASSUME Inv, NEW p \in PortId, NEW f \in Frames, NEW d \in deliveries(p, f)
  PROVE  d.bytes \in Received /\ \A id : ~Own(d.bytes, id)
<1>1. PICK q \in targets(p, f) : d = encode_for_egress(q, ingress_vlan(ports[p].mode, f), f)
  BY DEF deliveries
<1> DEFINE vlan == ingress_vlan(ports[p].mode, f)
<1>2. /\ accepts(p, f) /\ q \in DOMAIN ports
      /\ carries(ports[q].mode, vlan) /\ encodable(q, vlan, f)
  BY <1>1, TargetsCarry
<1>3. p \in DOMAIN ports /\ vlan # NoVlan
  BY <1>2 DEF accepts
<1>4. ports[p].mode \in Modes /\ ports[q].mode \in Modes
  BY <1>2, <1>3 DEF Inv, CoreTypeOK, PortsTypeOK, IsMap, PortEntry
<1>5. d.bytes = write_into(egress_frame(ports[q].mode, vlan, f))
  BY <1>1 DEF encode_for_egress
<1>6. d.bytes \in Received
  BY <1>2, <1>3, <1>4, <1>5, SegmentAssumption DEF encodable
<1>7. ~is_any_probe(parse(d.bytes))
  BY Fidelity DEF PeerReadsSameFrame
<1> QED BY <1>6, <1>7 DEF Own, is_own_probe

\* What deliver puts in the queues is what it was given.
LEMMA Enqueued ==
  ASSUME Queues, NEW ds, deliver(ds)
  PROVE  InQueues' \subseteq InQueues \cup {d.bytes : d \in ds}
<1> SUFFICES ASSUME NEW p \in DOMAIN outbox', NEW i \in DOMAIN outbox'[p],
                    outbox'[p][i] \notin InQueues
             PROVE  outbox'[p][i] \in {d.bytes : d \in ds}
  BY DEF InQueues
<1>1. p \in DOMAIN outbox
  BY DEF deliver
<1>2. PICK d \in ds : outbox'[p] = Append(outbox[p], d.bytes)
  <2>1. \/ outbox'[p] = outbox[p]
        \/ /\ \E d \in ds : d.port = p
           /\ outbox'[p] = Append(outbox[p], (CHOOSE d \in ds : d.port = p).bytes)
    <3>1. PICK sending \in SUBSET {q \in handles \cap DOMAIN outbox :
                                  Len(outbox[q]) = OUTBOUND_QUEUE_DEPTH} :
            outbox' =
              [q \in DOMAIN outbox |->
                 IF /\ q \in handles
                    /\ Len(outbox[q]) < OUTBOUND_QUEUE_DEPTH \/ q \in sending
                    /\ \E d \in ds : d.port = q
                 THEN Append(outbox[q], (CHOOSE d \in ds : d.port = q).bytes)
                 ELSE outbox[q]]
      BY DEF deliver
    <3> QED BY <1>1, <3>1
  <2>2. outbox'[p] # outbox[p]
    BY <1>1 DEF InQueues
  <2> QED BY <2>1, <2>2
<1>3. {outbox'[p][j] : j \in DOMAIN outbox'[p]}
        = {outbox[p][j] : j \in DOMAIN outbox[p]} \cup {d.bytes}
  BY <1>1, <1>2, AppendElements DEF Queues, IsQueue
<1> QED BY <1>1, <1>3 DEF InQueues

----------------------------------------------------------------------------
\* What a step adds to the frames under way decides what becomes of LoopInv.

LEMMA DrawnKept ==
  ASSUME LoopInv, drawn \subseteq drawn',
         NEW new \in Received, Drawn(new, drawn'),
         (OnWire \cup InQueues \cup Read)' \subseteq OnWire \cup InQueues \cup Read \cup {new}
  PROVE  ProbesDrawn'
<1> SUFFICES ASSUME NEW frame \in (OnWire \cup InQueues \cup Read)'
             PROVE  frame \in Received /\ Drawn(frame, drawn')
  BY DEF ProbesDrawn
<1>1. CASE frame = new
  BY <1>1
<1>2. CASE frame \in OnWire \cup InQueues \cup Read
  BY <1>2 DEF LoopInv, ProbesDrawn, Drawn
<1> QED BY <1>1, <1>2

LEMMA AlarmKept ==
  ASSUME LoopInv, UNCHANGED probe_id, ~looped' => ~looped /\ (~bridged => ~bridged'),
         echoed \subseteq echoed',
         ~looped /\ ~bridged =>
           \A n \in Name : Alarmed(n)' => Alarmed(n) \/ n \in echoed'
  PROVE  NoAlarm'
BY DEF LoopInv, NoAlarm

\* No port is blocked that was not.
NoneBlocked ==
  \A p \in handles' :
    ports'[p].blocked => /\ p \in handles /\ ports[p].blocked
                         /\ tasks'[Writer(p)] = tasks[Writer(p)]

LEMMA NoAlarmByPorts ==
  ASSUME NoneBlocked, NEW n
  PROVE  BlockedOn(n)' => BlockedOn(n)
BY DEF NoneBlocked, BlockedOn, Writer

\* A step that leaves the segment alone, by what it does to the daemon.
LEMMA SegmentKept ==
  ASSUME LoopInv, UNCHANGED <<segment, probe_id>>,
         InQueues' \subseteq InQueues, Queued' \subseteq Queued,
         ~looped => \A n \in Name : BlockedOn(n)' => Alarmed(n)
  PROVE  LoopInv'
<1>1. /\ wire' = wire /\ drawn' = drawn /\ bridged' = bridged /\ heard' = heard
      /\ looped' = looped /\ echoed' = echoed
  BY DEF segment, history
<1>2. SegmentTypes'
  BY <1>1 DEF LoopInv, SegmentTypes
<1>3. OnWire' = OnWire /\ Read' \subseteq Read
  BY <1>1 DEF OnWire, Read
<1>4. ProbesDrawn'
  <2>1. (OnWire \cup InQueues \cup Read)' \subseteq OnWire \cup InQueues \cup Read
    BY <1>3
  <2> QED BY <1>1, <2>1 DEF LoopInv, ProbesDrawn
<1>5. \A n \in Name : (OwnOnWire(n) \/ OwnRead(n))' => OwnOnWire(n) \/ OwnRead(n)
  BY <1>1 DEF OwnOnWire, OwnRead
<1>6. NoAlarm'
  <2>1. ~looped => \A n \in Name : Alarmed(n)' => Alarmed(n)
    BY <1>5 DEF Alarmed
  <2> QED BY <1>1, <2>1, AlarmKept
<1> QED BY <1>2, <1>4, <1>6 DEF LoopInv

\* A frame reaches some devices.
LEMMA Arrived ==
  ASSUME SegmentTypes, NEW names, NEW frame \in Received, arrives(names, frame)
  PROVE  /\ wire' \in [Name -> Seq(Received)]
         /\ \A n \in Name : Len(wire'[n]) <= WireDepth
         /\ OnWire' \subseteq OnWire \cup {frame}
         /\ \A n \in Name :
              /\ n \notin names \cap Listening => wire'[n] = wire[n]
              /\ {wire'[n][i] : i \in DOMAIN wire'[n]}
                   \subseteq {wire[n][i] : i \in DOMAIN wire[n]} \cup {frame}
<1> DEFINE reached == names \cap Listening
<1>1. \A n \in Name : wire'[n] = IF n \in reached THEN Append(wire[n], frame) ELSE wire[n]
  BY DEF arrives
<1>2. ASSUME NEW n \in Name
      PROVE  /\ wire'[n] \in Seq(Received) /\ Len(wire'[n]) <= WireDepth
             /\ {wire'[n][i] : i \in DOMAIN wire'[n]}
                  \subseteq {wire[n][i] : i \in DOMAIN wire[n]} \cup {frame}
  <2>1. wire[n] \in Seq(Received) /\ Len(wire[n]) <= WireDepth
    BY DEF SegmentTypes
  <2>3. CASE n \in reached
    <3>1. wire'[n] = Append(wire[n], frame) /\ Len(wire[n]) < WireDepth
      BY <1>1, <2>3 DEF arrives
    <3>2. /\ Append(wire[n], frame) \in Seq(Received)
          /\ Len(Append(wire[n], frame)) = Len(wire[n]) + 1
      BY <2>1, AppendProperties
    <3>3. {wire'[n][i] : i \in DOMAIN wire'[n]} = {wire[n][i] : i \in DOMAIN wire[n]} \cup {frame}
      BY <2>1, <3>1, AppendElements
    <3>4. Len(wire[n]) + 1 <= WireDepth
      BY <2>1, <3>1, LenProperties, LoopedAssumption
    <3> QED BY <3>1, <3>2, <3>3, <3>4
  <2>4. CASE n \notin reached
    BY <1>1, <2>1, <2>4
  <2> QED BY <2>3, <2>4
<1>3. DOMAIN wire' = Name
  BY DEF arrives
<1>4. wire' \in [Name -> Seq(Received)]
  BY <1>2, <1>3 DEF arrives
<1>5. ASSUME NEW n \in Name
      PROVE  {wire'[n][i] : i \in DOMAIN wire'[n]} \subseteq OnWire \cup {frame}
  <2>1. {wire[n][i] : i \in DOMAIN wire[n]} \subseteq OnWire
    BY DEF OnWire
  <2> QED BY <1>2, <2>1
<1>6. OnWire' \subseteq OnWire \cup {frame}
  BY <1>5 DEF OnWire
<1> QED BY <1>1, <1>2, <1>4, <1>6

\* What a queue, or the wire to a device, holds after its first frame is taken.
LEMMA QueueTaken ==
  ASSUME Queues, NEW p \in DOMAIN outbox, outbox[p] # << >>,
         outbox' = [outbox EXCEPT ![p] = Tail(@)]
  PROVE  Head(outbox[p]) \in InQueues /\ InQueues' \subseteq InQueues
<1>1. /\ Head(outbox[p]) \in {outbox[p][i] : i \in DOMAIN outbox[p]}
      /\ {Tail(outbox[p])[i] : i \in DOMAIN Tail(outbox[p])}
           \subseteq {outbox[p][i] : i \in DOMAIN outbox[p]}
  BY TailElements DEF Queues, IsQueue
<1>2. Head(outbox[p]) \in InQueues
  BY <1>1 DEF InQueues
<1>3. ASSUME NEW q \in DOMAIN outbox', NEW i \in DOMAIN outbox'[q]
      PROVE  outbox'[q][i] \in InQueues
  <2>1. CASE q = p
    BY <1>1, <1>3, <2>1 DEF InQueues
  <2>2. CASE q # p
    BY <1>3, <2>2 DEF InQueues
  <2> QED BY <2>1, <2>2
<1> QED BY <1>2, <1>3 DEF InQueues

LEMMA WireTaken ==
  ASSUME SegmentTypes, NEW n \in Name, wire[n] # << >>,
         wire' = [wire EXCEPT ![n] = Tail(@)]
  PROVE  /\ wire' \in [Name -> Seq(Received)]
         /\ \A m \in Name : Len(wire'[m]) <= WireDepth
         /\ \A m \in Name : {wire'[m][i] : i \in DOMAIN wire'[m]}
                              \subseteq {wire[m][i] : i \in DOMAIN wire[m]}
         /\ Head(wire[n]) \in {wire[n][i] : i \in DOMAIN wire[n]}
<1>1. wire \in [Name -> Seq(Received)] /\ Len(wire[n]) <= WireDepth
  BY DEF SegmentTypes
<1>2. /\ Head(wire[n]) \in {wire[n][i] : i \in DOMAIN wire[n]}
      /\ {Tail(wire[n])[i] : i \in DOMAIN Tail(wire[n])}
           \subseteq {wire[n][i] : i \in DOMAIN wire[n]}
      /\ Tail(wire[n]) \in Seq(Received) /\ Len(Tail(wire[n])) = Len(wire[n]) - 1
  BY <1>1, TailElements
<1>3. Len(Tail(wire[n])) <= WireDepth
  BY <1>1, <1>2, LenProperties, LoopedAssumption
<1>4. wire' \in [Name -> Seq(Received)] /\ \A m \in Name : Len(wire'[m]) <= WireDepth
  BY <1>1, <1>2, <1>3 DEF SegmentTypes
<1>5. ASSUME NEW m \in Name
      PROVE  {wire'[m][i] : i \in DOMAIN wire'[m]} \subseteq {wire[m][i] : i \in DOMAIN wire[m]}
  <2>1. CASE m = n
    BY <1>1, <1>2, <2>1
  <2>2. CASE m # n
    BY <1>1, <2>2
  <2> QED BY <2>1, <2>2
<1> QED BY <1>2, <1>4, <1>5

----------------------------------------------------------------------------
\* The steps of the segment, and of the tasks that touch it

\* A frame is sent on the segment while the ports do nothing.
LEMMA Sent ==
  ASSUME LoopInv, NEW names, NEW frame \in Received, arrives(names, frame),
         UNCHANGED <<handles, tasks, ports, probe_id, events, bridged, looped>>,
         echoed \subseteq echoed', drawn' = drawn, Drawn(frame, drawn), heard' \subseteq drawn,
         InQueues' \subseteq InQueues,
         ~bridged /\ Own(frame, probe_id) => names \cap Listening \subseteq echoed'
  PROVE  LoopInv'
<1>1. /\ wire' \in [Name -> Seq(Received)]
      /\ \A n \in Name : Len(wire'[n]) <= WireDepth
      /\ OnWire' \subseteq OnWire \cup {frame}
      /\ \A n \in Name :
           /\ n \notin names \cap Listening => wire'[n] = wire[n]
           /\ {wire'[n][i] : i \in DOMAIN wire'[n]}
                \subseteq {wire[n][i] : i \in DOMAIN wire[n]} \cup {frame}
  BY Arrived DEF LoopInv
<1>2. SegmentTypes'
  BY <1>1 DEF LoopInv, SegmentTypes
<1>3. Queued' = Queued /\ Read' = Read
  BY DEF Read, Queued
<1>4. ProbesDrawn'
  <2>1. (OnWire \cup InQueues \cup Read)' \subseteq OnWire \cup InQueues \cup Read \cup {frame}
    BY <1>1, <1>3
  <2> QED BY <2>1, DrawnKept
<1>5. ASSUME ~bridged, NEW n \in Name, Alarmed(n)'
      PROVE  Alarmed(n) \/ n \in echoed'
  <2>1. CASE OwnOnWire(n)'
    <3>1. CASE n \in names \cap Listening /\ Own(frame, probe_id)
      BY <1>5, <3>1
    <3>2. CASE n \notin names \cap Listening
      BY <1>1, <2>1, <3>2 DEF OwnOnWire, Alarmed
    <3>3. CASE ~Own(frame, probe_id)
      BY <1>1, <2>1, <3>3 DEF OwnOnWire, Alarmed
    <3> QED BY <3>1, <3>2, <3>3
  <2>2. CASE OwnRead(n)'
    BY <1>3, <2>2 DEF OwnRead, Alarmed
  <2>3. CASE BlockedOn(n)'
    BY <2>3 DEF BlockedOn, Alarmed
  <2> QED BY <1>5, <2>1, <2>2, <2>3 DEF Alarmed
<1>6. NoAlarm'
  BY <1>5, AlarmKept
<1> QED BY <1>2, <1>4, <1>6 DEF LoopInv

LEMMA Transmit ==
  ASSUME PortInv, LoopInv, NEW p \in PortId, transmit(p)
  PROVE  LoopInv'
<1> DEFINE frame == Head(outbox[p])
           names == IF bridged THEN Name \ {tasks[Writer(p)]} ELSE {}
<1>1. /\ p \in DOMAIN outbox /\ outbox[p] # << >>
      /\ outbox' = [outbox EXCEPT ![p] = Tail(@)]
      /\ UNCHANGED <<handles, tasks, ports, probe_id, events>>
      /\ arrives(names, frame)
      /\ UNCHANGED <<bridged, drawn, looped, echoed>>
  BY DEF transmit, writer_step, PortInv, Ports, Queues, vars, history
<1>2. frame \in InQueues /\ InQueues' \subseteq InQueues
  BY <1>1, QueueTaken DEF PortInv, Ports
<1>3. frame \in Received /\ Drawn(frame, drawn)
  BY <1>2 DEF LoopInv, ProbesDrawn
<1>4. heard' \subseteq drawn
  BY DEF transmit, LoopInv, SegmentTypes
<1>5. ~bridged => names = {}
  OBVIOUS
<1> HIDE DEF frame, names
<1> QED BY <1>1, <1>2, <1>3, <1>4, <1>5, Sent

LEMMA HostSends ==
  ASSUME LoopInv, host_sends
  PROVE  LoopInv'
<1>1. PICK n \in Name, frame \in HostFrames : host_frame(n, frame)
  BY DEF host_sends
<1>2. PICK names : arrives(names, frame)
  BY <1>1 DEF host_frame
<1>3. frame \in Received /\ Drawn(frame, drawn) /\ ~Own(frame, probe_id)
  BY LoopedAssumption, ProbeIdAssumption DEF Drawn, LoopInv, SegmentTypes
<1>4. /\ UNCHANGED <<handles, tasks, ports, probe_id, events, bridged, looped, echoed>>
      /\ UNCHANGED <<drawn, heard, outbox>>
  BY <1>1 DEF host_sends, host_frame, dvars, daemon, vars
<1>5. InQueues' = InQueues /\ heard \subseteq drawn
  BY <1>4 DEF InQueues, LoopInv, SegmentTypes
<1> QED BY <1>2, <1>3, <1>4, <1>5, Sent

\* Only what reaches a device that is read, and is of the switch that runs,
\* alarms the device: and that is an echo.
LEMMA HostEchoes ==
  ASSUME LoopInv, host_echoes
  PROVE  LoopInv'
<1>1. PICK n \in Name, id \in heard :
        /\ host_frame(n, build_probe(id))
        /\ echoed' = IF id # probe_id THEN echoed
                     ELSE echoed \cup ((IF bridged THEN Name ELSE {n}) \cap Listening)
  BY DEF host_echoes
<1> DEFINE names == IF bridged THEN Name ELSE {n}
           frame == build_probe(id)
<1>2. id \in drawn /\ id \in ProbeIds /\ heard \subseteq drawn
  BY DEF LoopInv, SegmentTypes
<1>3. frame \in Received /\ \A other : Own(frame, other) => other = id
  BY <1>2, OwnProbe
<1>4. Drawn(frame, drawn)
  BY <1>2, <1>3 DEF Drawn
<1>5. /\ UNCHANGED <<handles, tasks, ports, probe_id, events, bridged, looped>>
      /\ UNCHANGED <<drawn, heard, outbox>> /\ arrives(names, frame)
  BY <1>1 DEF host_frame, dvars, daemon, vars
<1>6. InQueues' = InQueues
  BY <1>5 DEF InQueues
<1>7. echoed \subseteq echoed' /\ (id = probe_id => names \cap Listening \subseteq echoed')
  BY <1>1
<1> HIDE DEF names, frame
<1> QED BY <1>2, <1>3, <1>4, <1>5, <1>6, <1>7, Sent

\* An event joins the queue.
LEMMA EventQueued ==
  ASSUME PortInv, NEW p \in PortId, reader_step(p)
  PROVE  /\ \E e : /\ Queued' = Queued \cup {e} /\ e.name = tasks[Reader(p)]
                   /\ e.what = events'[Len(events')].what
         /\ NoneBlocked /\ UNCHANGED <<probe_id, outbox>>
<1>1. PICK what \in Received \cup {Down} :
        /\ events' = Append(events, [port |-> p, name |-> tasks[Reader(p)],
                                     what |-> what])
        /\ tasks' = IF what = Down
                    THEN Restrict(tasks, DOMAIN tasks \ {Reader(p)}) ELSE tasks
  BY DEF reader_step
<1> DEFINE e == [port |-> p, name |-> tasks[Reader(p)], what |-> what]
<1>2. events \in Seq(PortEvent)
  BY DEF PortInv, DaemonInv, CallsTypeOK
<1>3. Queued' = Queued \cup {e} /\ Len(events') = Len(events) + 1
  BY <1>1, <1>2, AppendElements DEF Queued
<1>4. events'[Len(events')] = e
  <2>1. events \in Seq(PortEvent \cup {e})
    BY <1>2, SeqMonotonic
  <2> QED BY <1>1, <1>3, <2>1, AppendProperties
<1>5. NoneBlocked
  <2>1. UNCHANGED <<handles, ports>>
    BY DEF reader_step, vars
  <2>2. \A q \in handles : tasks'[Writer(q)] = tasks[Writer(q)]
    BY <1>1 DEF Restrict, Reader, Writer, PortInv, Ports, Served, Running
  <2> QED BY <2>1, <2>2 DEF NoneBlocked
<1>6. e.name = tasks[Reader(p)] /\ e.what = events'[Len(events')].what
  BY <1>4
<1> QED BY <1>3, <1>5, <1>6 DEF reader_step, vars

LEMMA ReadFrame ==
  ASSUME PortInv, LoopInv, NEW p \in PortId, read_frame(p)
  PROVE  LoopInv'
<1> DEFINE n == tasks[Reader(p)]
<1>1. /\ n \in Name /\ wire[n] # << >> /\ reader_step(p)
      /\ events'[Len(events')].what = Head(wire[n])
      /\ wire' = [wire EXCEPT ![n] = Tail(@)]
      /\ UNCHANGED <<bridged, drawn, heard, looped, echoed>>
  BY DEF read_frame, Running, PortInv, DaemonInv, CallsTypeOK, IsMap, history
<1>2. PICK e : Queued' = Queued \cup {e} /\ e.name = n /\ e.what = Head(wire[n])
  BY <1>1, EventQueued
<1>3. NoneBlocked /\ UNCHANGED <<probe_id, outbox>>
  BY <1>1, EventQueued
<1> HIDE DEF n
<1>4. /\ wire' \in [Name -> Seq(Received)]
      /\ \A m \in Name : Len(wire'[m]) <= WireDepth
      /\ \A m \in Name : {wire'[m][i] : i \in DOMAIN wire'[m]}
                           \subseteq {wire[m][i] : i \in DOMAIN wire[m]}
      /\ Head(wire[n]) \in {wire[n][i] : i \in DOMAIN wire[n]}
  BY <1>1, WireTaken DEF LoopInv
<1>5. SegmentTypes'
  BY <1>1, <1>3, <1>4 DEF LoopInv, SegmentTypes
<1>6. ProbesDrawn'
  <2>1. OnWire' \subseteq OnWire /\ Head(wire[n]) \in OnWire
    BY <1>1, <1>4 DEF OnWire
  <2>2. Read' \subseteq Read \cup {Head(wire[n])} /\ InQueues' = InQueues
    BY <1>2, <1>3 DEF Read, InQueues
  <2>3. (OnWire \cup InQueues \cup Read)' \subseteq OnWire \cup InQueues \cup Read
    BY <2>1, <2>2
  <2> QED BY <1>1, <2>3 DEF LoopInv, ProbesDrawn
<1>7. ASSUME NEW m \in Name, Alarmed(m)' PROVE Alarmed(m)
  <2>1. CASE OwnOnWire(m)'
    BY <1>3, <1>4, <2>1 DEF OwnOnWire, Alarmed
  <2>2. CASE OwnRead(m)'
    <3>1. PICK d \in Queued' : d.name = m /\ d.what # Down /\ Own(d.what, probe_id)
      BY <1>3, <2>2 DEF OwnRead
    <3>2. CASE d \in Queued
      BY <3>1, <3>2 DEF OwnRead, Alarmed
    <3>3. CASE d = e
      BY <1>2, <1>4, <3>1, <3>3 DEF OwnOnWire, Alarmed
    <3> QED BY <1>2, <3>1, <3>2, <3>3
  <2>3. CASE BlockedOn(m)'
    BY <1>3, <2>3, NoAlarmByPorts DEF Alarmed
  <2> QED BY <1>7, <2>1, <2>2, <2>3 DEF Alarmed
<1>8. NoAlarm'
  BY <1>1, <1>3, <1>7, AlarmKept
<1> QED BY <1>5, <1>6, <1>8 DEF LoopInv

LEMMA DeviceFails ==
  ASSUME PortInv, LoopInv, NEW p \in PortId, device_fails(p)
  PROVE  LoopInv'
<1>1. reader_step(p) /\ events'[Len(events')].what = Down /\ UNCHANGED segment
  BY DEF device_fails
<1>2. PICK e : Queued' = Queued \cup {e} /\ e.what = Down
  BY <1>1, EventQueued
<1>3. NoneBlocked /\ UNCHANGED <<probe_id, outbox>>
  BY <1>1, EventQueued
<1>4. /\ bridged' = bridged /\ wire' = wire /\ drawn' = drawn /\ heard' = heard
      /\ looped' = looped /\ echoed' = echoed
  BY <1>1 DEF segment, history
<1>5. SegmentTypes'
  BY <1>3, <1>4 DEF LoopInv, SegmentTypes
<1>6. ProbesDrawn'
  <2>1. OnWire' = OnWire /\ InQueues' = InQueues /\ Read' \subseteq Read
    BY <1>2, <1>3, <1>4 DEF OnWire, InQueues, Read
  <2> QED BY <1>4, <2>1 DEF LoopInv, ProbesDrawn
<1>7. ASSUME NEW m \in Name, Alarmed(m)' PROVE Alarmed(m)
  BY <1>2, <1>3, <1>4, <1>7, NoAlarmByPorts DEF OwnOnWire, OwnRead, Alarmed
<1>8. NoAlarm'
  BY <1>3, <1>4, <1>7, AlarmKept
<1> QED BY <1>5, <1>6, <1>8 DEF LoopInv

LEMMA PlugUnplug ==
  ASSUME LoopInv, plug \/ unplug
  PROVE  LoopInv'
<1>1. /\ UNCHANGED <<handles, tasks, ports, probe_id, outbox, events>>
      /\ UNCHANGED <<wire, drawn, heard, echoed>>
      /\ ~looped' => ~looped /\ (~bridged => ~bridged')
  BY DEF plug, unplug, dvars, daemon, vars, history
<1>2. OnWire' = OnWire /\ Read' = Read /\ InQueues' = InQueues /\ Queued' = Queued
  BY <1>1 DEF OnWire, Read, Queued, InQueues
<1>3. SegmentTypes'
  BY <1>1 DEF LoopInv, SegmentTypes
<1>4. ProbesDrawn'
  BY <1>1, <1>2 DEF LoopInv, ProbesDrawn
<1>5. \A n \in Name : Alarmed(n)' => Alarmed(n)
  BY <1>1, <1>2 DEF Alarmed, OwnOnWire, OwnRead, BlockedOn
<1>6. NoAlarm'
  BY <1>1, <1>5, AlarmKept
<1> QED BY <1>3, <1>4, <1>6 DEF LoopInv

\* The new switch: what is under way was sent with ids drawn before.
LEMMA RedrawProbeId ==
  ASSUME LoopInv, redraw_probe_id
  PROVE  LoopInv'
<1>1. /\ UNCHANGED <<handles, outbox, events, bridged, wire, heard>> /\ handles = {}
      /\ probe_id' \in ProbeIds \ drawn
      /\ drawn' = drawn \cup {probe_id'} /\ looped' = bridged
  BY DEF redraw_probe_id, new_switch
<1>2. OnWire' = OnWire /\ Read' = Read /\ InQueues' = InQueues /\ Queued' = Queued
  BY <1>1 DEF OnWire, Read, Queued, InQueues
<1>3. SegmentTypes'
  BY <1>1 DEF LoopInv, SegmentTypes
<1>4. ProbesDrawn'
  BY <1>1, <1>2 DEF LoopInv, ProbesDrawn, Drawn
<1>5. \A frame \in OnWire \cup Read : ~Own(frame, probe_id')
  BY <1>1 DEF LoopInv, ProbesDrawn, Drawn
<1>6. ASSUME NEW n \in Name PROVE ~Alarmed(n)'
  <2>1. ~OwnOnWire(n)'
    BY <1>1, <1>5 DEF OwnOnWire, OnWire
  <2>2. ~OwnRead(n)'
    BY <1>2, <1>5 DEF OwnRead, Read
  <2>3. ~BlockedOn(n)'
    BY <1>1 DEF BlockedOn
  <2> QED BY <2>1, <2>2, <2>3 DEF Alarmed
<1>7. NoAlarm'
  BY <1>1, <1>6 DEF NoAlarm
<1> QED BY <1>3, <1>4, <1>7 DEF LoopInv

LEMMA ProbesQueued ==
  ASSUME PortInv, LoopInv, probe_timer
  PROVE  LoopInv'
<1> DEFINE ds == {[port |-> p, bytes |-> build_probe(probe_id)] : p \in handles}
<1>1. /\ deliver(ds) /\ UNCHANGED <<handles, tasks, ports, probe_id, events>>
      /\ UNCHANGED <<bridged, wire, drawn, heard, looped, echoed>>
  BY DEF probe_timer, loop_probe, vars, segment, history
<1>2. InQueues' \subseteq InQueues \cup {build_probe(probe_id)}
  <2>1. {d.bytes : d \in ds} \subseteq {build_probe(probe_id)}
    OBVIOUS
  <2>2. InQueues' \subseteq InQueues \cup {d.bytes : d \in ds}
    <3> HIDE DEF ds
    <3> QED BY <1>1, Enqueued DEF PortInv, Ports
  <2> QED BY <2>1, <2>2
<1>3. OnWire' = OnWire /\ Read' = Read /\ Queued' = Queued
  BY <1>1 DEF OnWire, Read, Queued
<1>4. SegmentTypes'
  BY <1>1 DEF LoopInv, SegmentTypes
<1>5. ProbesDrawn'
  <2>1. probe_id \in ProbeIds /\ probe_id \in drawn
    BY DEF LoopInv, SegmentTypes
  <2>2. build_probe(probe_id) \in Received /\ Drawn(build_probe(probe_id), drawn')
    BY <1>1, <2>1, OwnProbe DEF Drawn
  <2>3. (OnWire \cup InQueues \cup Read)'
          \subseteq OnWire \cup InQueues \cup Read \cup {build_probe(probe_id)}
    BY <1>2, <1>3
  <2> QED BY <1>1, <2>2, <2>3, DrawnKept
<1>6. \A n \in Name : Alarmed(n)' => Alarmed(n)
  BY <1>1, <1>3 DEF Alarmed, OwnOnWire, OwnRead, BlockedOn
<1>7. NoAlarm'
  BY <1>1, <1>6, AlarmKept
<1> QED BY <1>4, <1>5, <1>7 DEF LoopInv

----------------------------------------------------------------------------
\* The other steps of the daemon leave the segment alone.

\* They block no port.
LEMMA PortsRest ==
  ASSUME LoopInv, UNCHANGED <<segment, probe_id>>, NoneBlocked,
         InQueues' \subseteq InQueues, Queued' \subseteq Queued
  PROVE  LoopInv'
<1>1. \A n \in Name : BlockedOn(n)' => Alarmed(n)
  BY NoAlarmByPorts DEF Alarmed
<1> QED BY <1>1, SegmentKept

LEMMA DaemonRests ==
  ASSUME LoopInv, UNCHANGED <<segment, tasks, ports, probe_id, outbox, events>>,
         handles' \subseteq handles
  PROVE  LoopInv'
<1>1. InQueues' = InQueues /\ Queued' = Queued
  BY DEF InQueues, Queued
<1>2. NoneBlocked
  BY DEF NoneBlocked
<1> QED BY <1>1, <1>2, PortsRest

\* A queue that is new is empty; one that is gone holds nothing.
LEMMA QueueMade ==
  ASSUME NEW p, outbox' = insert(outbox, p, << >>)
  PROVE  InQueues' \subseteq InQueues
<1> SUFFICES ASSUME NEW q \in DOMAIN outbox', NEW i \in DOMAIN outbox'[q]
             PROVE  outbox'[q][i] \in InQueues
  BY DEF InQueues
<1>1. CASE q = p
  BY <1>1 DEF insert
<1>2. CASE q # p
  BY <1>2 DEF insert, InQueues
<1> QED BY <1>1, <1>2

LEMMA QueueGone ==
  ASSUME NEW p, outbox' = Restrict(outbox, DOMAIN outbox \ {p})
  PROVE  InQueues' \subseteq InQueues
BY DEF InQueues, Restrict

LEMMA SetUp ==
  ASSUME PortInv, LoopInv, set_up, ~new_switch, UNCHANGED segment
  PROVE  LoopInv'
<1>1. CASE spawn_port
  <2>1. PICK p \in PortId :
          /\ next(p) /\ add_port(p, Head(todo).mode) /\ handles' = handles \cup {p}
          /\ tasks' = insert(insert(tasks, Reader(p), Head(todo).name),
                             Writer(p), Head(todo).name)
          /\ outbox' = insert(outbox, p, << >>)
    BY <1>1 DEF spawn_port
  <2>2. p \notin handles
    BY <2>1, NextId
  <2>3. ~ports'[p].blocked /\ \A q \in DOMAIN ports : ports'[q] = ports[q]
    BY <2>1, AddedPort DEF add_port, insert
  <2>4. \A q \in handles : q \in DOMAIN ports /\ tasks'[Writer(q)] = tasks[Writer(q)]
    BY <2>1, <2>2 DEF insert, Reader, Writer, PortInv, Ports, Served, Running
  <2>5. NoneBlocked
    BY <2>1, <2>3, <2>4 DEF NoneBlocked
  <2>6. Queued' = Queued /\ UNCHANGED probe_id
    BY <1>1, <2>1 DEF spawn_port, add_port, Queued
  <2> QED BY <2>1, <2>5, <2>6, QueueMade, PortsRest
<1>2. CASE name_fails
  <2>1. PICK p \in PortId : next(p) /\ add_port(p, Head(todo).mode)
    BY <1>2 DEF name_fails
  <2>2. \A q \in handles : ports'[q] = ports[q]
    BY <2>1, AddedPort DEF PortInv, Ports, Served
  <2>3. UNCHANGED <<handles, tasks, outbox, events, probe_id>>
    BY <1>2, <2>1 DEF name_fails, add_port
  <2>4. NoneBlocked
    BY <2>2, <2>3 DEF NoneBlocked
  <2>5. Queued' = Queued /\ InQueues' = InQueues
    BY <2>3 DEF Queued, InQueues
  <2> QED BY <2>3, <2>4, <2>5, PortsRest
<1>3. CASE \/ open_fails \/ no_more_ids \/ all_spawned \/ set_up_fails
            \/ teardown_port \/ torn_down
  <2>1. /\ UNCHANGED <<tasks, ports, probe_id, outbox, events>>
        /\ handles' \subseteq handles
    BY <1>3 DEF open_fails, no_more_ids, all_spawned, set_up_fails,
       teardown_port, torn_down, vars
  <2> QED BY <2>1, DaemonRests
<1> QED BY <1>1, <1>2, <1>3 DEF set_up

\* A task that ends is no task of a handle.
LEMMA TaskGoes ==
  ASSUME PortInv, LoopInv, UNCHANGED segment,
         abort \/ \E p \in PortId : writer_ends(p)
  PROVE  LoopInv'
<1>1. UNCHANGED <<handles, ports, probe_id, events>>
  BY DEF abort, reader_aborts, writer_aborts, writer_ends, vars
<1>2. PICK p : /\ p \notin handles
               /\ \E task \in {Reader(p), Writer(p)} :
                    tasks' = Restrict(tasks, DOMAIN tasks \ {task})
  BY DEF abort, reader_aborts, writer_aborts, writer_ends, PortInv, Ports, Places
<1>3. ASSUME NEW q \in handles PROVE tasks'[Writer(q)] = tasks[Writer(q)]
  <2>1. Writer(q) \in DOMAIN tasks /\ Writer(q) # Writer(p) /\ Writer(q) # Reader(p)
    BY <1>2 DEF Reader, Writer, PortInv, Ports, Served, Running
  <2> QED BY <1>2, <2>1 DEF Restrict
<1>4. NoneBlocked
  BY <1>1, <1>3 DEF NoneBlocked
<1>5. Queued' = Queued
  BY <1>1 DEF Queued
<1>6. InQueues' \subseteq InQueues
  <2>1. CASE reader_aborts
    BY <2>1 DEF reader_aborts, InQueues
  <2>2. CASE writer_aborts \/ \E q \in PortId : writer_ends(q)
    BY <2>2, QueueGone DEF writer_aborts, writer_ends
  <2> QED BY <2>1, <2>2 DEF abort
<1> QED BY <1>1, <1>4, <1>5, <1>6, PortsRest

\* Only a probe of this very switch blocks a port: the one it came in by.
LEMMA ForwardBlocks ==
  ASSUME Inv, NEW p \in PortId, NEW f \in Frames, forward(p, f),
         NEW q \in DOMAIN ports, ports'[q].blocked
  PROVE  ports[q].blocked \/ (q = p /\ is_own_probe(f, probe_id))
<1>1. CASE block_port(p) /\ is_own_probe(f, probe_id)
  <2>1. q # p => ports'[q] = ports[q]
    BY <1>1 DEF block_port, set_blocked
  <2> QED BY <1>1, <2>1
<1>2. CASE ports' = ports
  BY <1>2
<1>3. (block_port(p) /\ is_own_probe(f, probe_id)) \/ ports' = ports
  BY DEF forward, handle_loop_probe, forward_drop, forward_accept, vars
<1> QED BY <1>1, <1>2, <1>3

LEMMA ForwardKeepsId ==
  ASSUME NEW p, NEW f, forward(p, f)
  PROVE  UNCHANGED probe_id
BY DEF forward, handle_loop_probe, forward_drop, forward_accept, block_port, vars

LEMMA EventTaken ==
  ASSUME PortInv, LoopInv, handle_frame_event, UNCHANGED segment
  PROVE  LoopInv'
<1> DEFINE e == Head(events)
<1>1. e \in Queued /\ Queued' \subseteq Queued /\ loop = "select" /\ tasks' = tasks
  BY HeadTaken DEF handle_frame_event
<1>2. e \in PortEvent
  <2>1. events \in Seq(PortEvent) /\ events # << >>
    BY DEF PortInv, DaemonInv, CallsTypeOK, handle_frame_event, take_event
  <2> QED BY <2>1, HeadTailProperties
<1>3. e.port \in PortId /\ e.what \in Received \cup {Down}
  BY <1>2 DEF PortEvent
<1>4. CASE e.what = Down
  <2>1. port_down(e.port)
    BY <1>4 DEF handle_frame_event
  <2>2. NoneBlocked /\ UNCHANGED <<probe_id, outbox>>
    BY <1>1, <2>1 DEF port_down, remove_port, Restrict, NoneBlocked, PortInv, Ports, Served
  <2>3. InQueues' = InQueues
    BY <2>2 DEF InQueues
  <2> QED BY <1>1, <2>2, <2>3, PortsRest
<1>5. CASE e.what # Down /\ ~Parses(e.what)
  <2>1. UNCHANGED <<handles, vars, outbox>>
    BY <1>5 DEF handle_frame_event, frame_in
  <2>2. InQueues' = InQueues /\ NoneBlocked /\ UNCHANGED probe_id
    BY <1>1, <2>1 DEF InQueues, NoneBlocked, vars
  <2> QED BY <1>1, <2>2, PortsRest
<1>6. CASE e.what # Down /\ Parses(e.what)
  <2> DEFINE f == parse(e.what)
             ds == deliveries(e.port, f)
  <2>1. f \in Frames /\ Inv
    BY <1>3, <1>6, DaemonAssumption DEF PortInv, DaemonInv
  <2>2. forward(e.port, f) /\ deliver(ds) /\ handles' = handles
    BY <1>6 DEF handle_frame_event, frame_in
  <2>3. UNCHANGED probe_id
    BY <2>2, ForwardKeepsId
  <2>4. \A d \in ds : d.bytes \in Received /\ \A id : ~Own(d.bytes, id)
    BY <1>3, <2>1, Delivered
  <2>5. InQueues' \subseteq InQueues \cup {d.bytes : d \in ds}
    <3> HIDE DEF ds
    <3> QED BY <2>2, Enqueued DEF PortInv, Ports
  <2>6. ASSUME NEW n \in Name, BlockedOn(n)' PROVE Alarmed(n)
    <3>1. PICK q \in handles : ports'[q].blocked /\ tasks[Writer(q)] = n
      BY <1>1, <2>2, <2>6 DEF BlockedOn, Writer
    <3>2. q \in DOMAIN ports
      BY DEF PortInv, Ports, Served
    <3>3. CASE ports[q].blocked
      BY <3>1, <3>3 DEF BlockedOn, Alarmed
    <3>4. CASE q = e.port /\ is_own_probe(f, probe_id)
      <4>1. e.name = n
        BY <1>1, <3>1, <3>4 DEF PortInv, Ports, Heard
      <4> QED BY <1>1, <1>6, <3>4, <4>1 DEF OwnRead, Own, Alarmed
    <3> QED BY <1>3, <2>1, <2>2, <3>1, <3>2, <3>3, <3>4, ForwardBlocks
  <2> HIDE DEF ds
  <2>7. /\ wire' = wire /\ drawn' = drawn /\ bridged' = bridged /\ heard' = heard
        /\ looped' = looped /\ echoed' = echoed
    BY DEF segment, history
  <2>8. SegmentTypes'
    BY <2>3, <2>7 DEF LoopInv, SegmentTypes
  <2>9. ProbesDrawn'
    <3>1. OnWire' = OnWire /\ Read' \subseteq Read
      BY <1>1, <2>7 DEF OnWire, Read
    <3> QED BY <2>4, <2>5, <2>7, <3>1 DEF LoopInv, ProbesDrawn, Drawn
  <2>10. NoAlarm'
    <3>1. \A n \in Name : Alarmed(n)' => Alarmed(n)
      BY <1>1, <2>3, <2>6, <2>7 DEF Alarmed, OwnOnWire, OwnRead
    <3> QED BY <2>3, <2>7, <3>1, AlarmKept
  <2> QED BY <2>8, <2>9, <2>10 DEF LoopInv
<1> QED BY <1>3, <1>4, <1>5, <1>6

LEMMA Elsewhere ==
  ASSUME PortInv, LoopInv, elsewhere
  PROVE  LoopInv'
<1>1. UNCHANGED segment
  BY DEF elsewhere
<1>2. CASE load_ends \/ age_sweep \/ sighup \/ (Tick /\ UNCHANGED daemon) \/ UNCHANGED dvars
  <2>1. UNCHANGED <<handles, tasks, ports, probe_id, outbox, events>>
    BY <1>2 DEF load_ends, load_fails, load_succeeds, age_sweep, age_out, sighup,
       Tick, dvars, vars, daemon
  <2> QED BY <1>1, <2>1, DaemonRests
<1> QED BY <1>1, <1>2, SetUp, EventTaken, TaskGoes DEF elsewhere

----------------------------------------------------------------------------
LEMMA LoopInit == LoopedInit => LoopInv
<1> SUFFICES ASSUME LoopedInit PROVE LoopInv
  OBVIOUS
<1>1. /\ handles = {} /\ probe_id \in ProbeIds /\ outbox = << >> /\ events = << >>
      /\ looped = bridged /\ wire = [n \in Name |-> << >>]
      /\ drawn = {probe_id} /\ heard = {}
  BY DEF LoopedInit, DaemonInit, Init
<1>2. OnWire = {} /\ InQueues = {} /\ Queued = {} /\ Read = {}
  BY <1>1 DEF OnWire, InQueues, Read, Queued
<1>3. << >> \in Seq(Received) /\ Len(<< >>) = 0
  BY EmptySeq
<1>4. SegmentTypes
  <2>1. wire \in [Name -> Seq(Received)] /\ \A n \in Name : Len(wire[n]) <= WireDepth
    BY <1>1, <1>3, LoopedAssumption
  <2> QED BY <1>1, <2>1 DEF SegmentTypes
<1>5. \A n \in Name : ~Alarmed(n)
  BY <1>1, <1>2 DEF Alarmed, OwnOnWire, OwnRead, BlockedOn
<1> QED BY <1>1, <1>2, <1>4, <1>5 DEF LoopInv, ProbesDrawn, NoAlarm

LEMMA LoopNext == PortInv /\ LoopInv /\ [LoopedNext]_lvars => LoopInv'
<1> SUFFICES ASSUME PortInv, LoopInv, [LoopedNext]_lvars PROVE LoopInv'
  OBVIOUS
<1>1. ASSUME NEW p \in PortId, port_io(p) PROVE LoopInv'
  BY <1>1, Transmit, ReadFrame DEF port_io
<1>2. ASSUME NEW p \in PortId, device_fails(p) PROVE LoopInv'
  BY <1>2, DeviceFails
<1>3. CASE UNCHANGED lvars
  <2>1. UNCHANGED <<segment, handles, tasks, ports, probe_id, outbox, events>>
    BY <1>3 DEF lvars, dvars, vars, daemon
  <2> QED BY <2>1, DaemonRests
<1> QED
  BY <1>1, <1>2, <1>3, RedrawProbeId, ProbesQueued, Elsewhere, HostSends, HostEchoes,
     PlugUnplug
  DEF LoopedNext

LEMMA LoopInvariance == LoopedSpec => []LoopInv
<1>1. LoopedSpec => []PortInv
  BY LoopedIsDaemon, PortInvariance
<1> QED BY <1>1, LoopInit, LoopNext, PTL DEF LoopedSpec

(***************************************************************************)
(* No false alarm: whatever hosts and neighbours send, however many        *)
(* reloads have left probes of earlier switches on the segment and with    *)
(* the hosts that echo them, a port is blocked only if its own devices     *)
(* were bridged together while this switch was running, or a host sent a   *)
(* probe of this switch back to that port's device.                        *)
(***************************************************************************)
THEOREM BlockedPortsLoopedHolds == LoopedSpec => []BlockedPortsLooped
<1>1. PortInv /\ LoopInv => BlockedPortsLooped
  <2> SUFFICES ASSUME PortInv, LoopInv, NEW p \in handles, ports[p].blocked, ~looped
               PROVE  tasks[Writer(p)] \in echoed
    BY DEF BlockedPortsLooped, Blocked
  <2>1. tasks[Writer(p)] \in Name
    BY DEF PortInv, DaemonInv, CallsTypeOK, IsMap, Ports, Served, Running
  <2>2. Alarmed(tasks[Writer(p)])
    BY DEF Alarmed, BlockedOn
  <2> QED BY <2>1, <2>2 DEF LoopInv, NoAlarm
<1>2. LoopedSpec => []PortInv
  BY LoopedIsDaemon, PortInvariance
<1> QED BY <1>1, <1>2, LoopInvariance, PTL
=============================================================================
