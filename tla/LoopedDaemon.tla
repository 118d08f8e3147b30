---------------------------- MODULE LoopedDaemon ----------------------------
(***************************************************************************)
(* The daemon on a segment that may bridge its own devices together, as in *)
(* scripts/loop-guard-smoke-test.sh and the loop guard section of          *)
(* docs/design.md.  What a reader reads is no longer anything at all: it   *)
(* is what the daemon's own writers, hosts and other switches put on the   *)
(* segment, in order.  The daemon is Daemon, step for step.                *)
(*                                                                         *)
(* Probes carry no signature: as loop_guard.rs says, "Anything on the wire *)
(* can read it and echo it straight back", and the module keeps track of   *)
(* the devices where hosts did.                                            *)
(*                                                                         *)
(* A writer waits while the segment is full: no frame is lost outside the  *)
(* daemon, whose queues are the only ones that drop.                       *)
(***************************************************************************)
EXTENDS Daemon

CONSTANTS
  HostFrames,      \* what hosts and other switches send of their own
  MaxHostFrames,   \* bound on how often they do
  WireDepth        \* bound on the frames under way to a device

ASSUME LoopedAssumption ==
  /\ HostFrames \subseteq Received /\ MaxHostFrames \in Nat
  /\ WireDepth \in Nat \ {0}

\* What the daemon writes to one device can be read from another.
ASSUME SegmentAssumption ==
  /\ \A id \in ProbeIds : build_probe(id) \in Received
  /\ \A f \in Frames, from, to \in Modes :
       LET vlan == ingress_vlan(from, f)
       IN  /\ vlan # NoVlan /\ carries(to, vlan)
           /\ ~AmbiguousUntaggedEtherType(egress_frame(to, vlan, f))
           => write_into(egress_frame(to, vlan, f)) \in Received

\* The frame is a probe of the switch that has this id.
Own(frame, id) == Parses(frame) /\ is_own_probe(parse(frame), id)

\* random_probe_id's documentation: its 64 bits are "astronomically unlikely
\* to collide between two switch instances on the same segment".  A host that
\* sends back what it heard is no collision: host_echoes.
ASSUME ProbeIdAssumption ==
  \A frame \in HostFrames, id \in ProbeIds : ~Own(frame, id)

VARIABLES
  bridged,    \* whether the devices are bridged together
  wire,       \* the frames on their way to each device
  sent,       \* how many frames hosts have sent
  drawn,      \* the probe ids random_probe_id has returned
  heard,      \* those of them that hosts have heard
  looped,     \* history: bridged at some time since the switch was made
  echoed      \* history: the devices where hosts sent a probe of it back

history == <<looped, echoed>>
segment == <<bridged, wire, sent, drawn, heard, history>>
lvars == <<dvars, segment>>

\* The devices that are being read; what is sent to others is gone.
Listening == {tasks[task] : task \in {t \in DOMAIN tasks : t[2] = "reader"}}

\* A frame reaches each of these devices.
arrives(names, frame) ==
  /\ \A n \in names \cap Listening : Len(wire[n]) < WireDepth
  /\ wire' = [n \in Name |-> IF n \in names \cap Listening
                             THEN Append(wire[n], frame) ELSE wire[n]]

----------------------------------------------------------------------------
\* What a writer sends goes to hosts, and to the other devices if they are
\* bridged.
transmit(p) ==
  /\ writer_step(p)
  /\ arrives(IF bridged THEN Name \ {tasks[Writer(p)]} ELSE {}, Head(outbox[p]))
  /\ heard' = heard \cup {id \in drawn : Head(outbox[p]) = build_probe(id)}
  /\ UNCHANGED <<bridged, sent, drawn, history>>

read_frame(p) ==
  /\ Running(Reader(p)) /\ wire[tasks[Reader(p)]] # << >>
  /\ reader_step(p)
  /\ events'[Len(events')].what = Head(wire[tasks[Reader(p)]])
  /\ wire' = [wire EXCEPT ![tasks[Reader(p)]] = Tail(@)]
  /\ UNCHANGED <<bridged, sent, drawn, heard, history>>

device_fails(p) ==
  /\ reader_step(p) /\ events'[Len(events')].what = Down
  /\ UNCHANGED segment

\* A host on the segment of one device sends a frame.
host_frame(n, frame) ==
  /\ sent < MaxHostFrames /\ sent' = sent + 1
  /\ arrives(IF bridged THEN Name ELSE {n}, frame)
  /\ UNCHANGED <<dvars, bridged, drawn, heard, looped>>

host_sends ==
  /\ \E n \in Name, frame \in HostFrames : host_frame(n, frame)
  /\ UNCHANGED echoed

\* By mistake or on purpose, at this device or another, at once or after a
\* reload has replaced the switch.
host_echoes ==
  \E n \in Name, id \in heard :
    /\ host_frame(n, build_probe(id))
    /\ echoed' = IF id # probe_id THEN echoed
                 ELSE echoed \cup ((IF bridged THEN Name ELSE {n}) \cap Listening)

plug ==
  /\ ~bridged /\ bridged' = TRUE /\ looped' = TRUE
  /\ UNCHANGED <<dvars, wire, sent, drawn, heard, echoed>>

unplug ==
  /\ bridged /\ bridged' = FALSE
  /\ UNCHANGED <<dvars, wire, sent, drawn, heard, history>>

\* Mutant: the new switch takes over the id of the old one.
redraw_probe_id_kept ==
  /\ new_switch /\ probe_id' = probe_id
  /\ looped' = bridged /\ echoed' = {}
  /\ UNCHANGED <<bridged, wire, sent, drawn, heard>>

\* random_probe_id, at a reload: an id no switch of this process had before.
redraw_probe_id ==
  /\ new_switch /\ probe_id' \notin drawn
  /\ drawn' = drawn \cup {probe_id'}
  /\ looped' = bridged /\ echoed' = {}
  /\ UNCHANGED <<bridged, wire, sent, heard>>

probe_timer == loop_probe /\ UNCHANGED segment

\* The steps of the daemon that neither touch a device nor draw an id.
elsewhere ==
  /\ \/ set_up /\ ~new_switch
     \/ load_ends \/ handle_frame_event \/ age_sweep \/ sighup
     \/ abort
     \/ \E p \in PortId : Alive /\ writer_ends(p)
     \/ Alive /\ Tick /\ UNCHANGED daemon
     \/ ~Alive /\ UNCHANGED dvars
  /\ UNCHANGED segment

LoopedInit ==
  /\ DaemonInit
  /\ bridged \in BOOLEAN /\ looped = bridged
  /\ wire = [n \in Name |-> << >>] /\ sent = 0
  /\ drawn = {probe_id} /\ heard = {} /\ echoed = {}

port_io(p) == Alive /\ (transmit(p) \/ read_frame(p))

LoopedNext ==
  \/ redraw_probe_id \/ probe_timer \/ elsewhere
  \/ \E p \in PortId : port_io(p)
  \/ \E p \in PortId : Alive /\ device_fails(p)
  \/ host_sends \/ host_echoes \/ plug \/ unplug

LoopedSpec == LoopedInit /\ [][LoopedNext]_lvars

(***************************************************************************)
(* Fairness.  That of the daemon; readers and writers move frames as long  *)
(* as there are any (strong fairness, because the bounds on the segment    *)
(* and on the event channel, which the system does not have, may make them *)
(* wait for one another).  Of the probe timer see ProbeTimer.              *)
(***************************************************************************)
SegmentFair ==
  /\ SF_events(take_event)
  /\ WF_lvars(redraw_probe_id) /\ WF_lvars(set_up /\ ~new_switch /\ UNCHANGED segment)
  /\ WF_lvars(load_ends /\ UNCHANGED segment)
  /\ WF_lvars(reader_aborts /\ UNCHANGED segment)
  /\ WF_lvars(writer_aborts /\ UNCHANGED segment)
  /\ \A p \in PortId : SF_lvars(Alive /\ transmit(p)) /\ SF_lvars(Alive /\ read_frame(p))

SegmentSpec == LoopedSpec /\ SegmentFair

----------------------------------------------------------------------------
Blocked(p) == ports[p].blocked

(***************************************************************************)
(* No false alarm: a port is blocked only if the segment looped while this *)
(* switch was running, or a host on that port's own device sent a probe of *)
(* this switch back.  Probes of other switches block nothing, and neither  *)
(* do those of the switch a reload replaced, which may still be under way  *)
(* or come from a host: once the loop is gone, SIGHUP gives the ports back *)
(* for good.  An echo at one port blocks no other.                         *)
(***************************************************************************)
BlockedPortsLooped ==
  \A p \in handles : Blocked(p) => looped \/ tasks[Writer(p)] \in echoed

Data(frame) == Parses(frame) /\ ~is_any_probe(parse(frame))
ProbeQueued(p) == \E i \in DOMAIN outbox[p] : outbox[p][i] = build_probe(probe_id)

\* A self-loop: two ports that run, their devices bridged.
Looped(p, q) ==
  /\ Alive /\ bridged
  /\ \A r \in {p, q} : r \in handles /\ Running(Reader(r))

(***************************************************************************)
(* A probe that has found room in a queue is enough: if the loop lasts,    *)
(* the port at its other end gets blocked, however full of data the queues *)
(* are that the probe goes through, and whatever the ports' states are.    *)
(***************************************************************************)
QueuedProbeBlocks ==
  \A p \in PortId : \A q \in PortId \ {p} :
    Looped(p, q) /\ ProbeQueued(p) ~> ~Looped(p, q) \/ Blocked(q)

\* The timer ticks when the queue of port p has room.
RoomAtTick(p) ==
  probe_timer /\ p \in handles /\ Len(outbox[p]) < OUTBOUND_QUEUE_DEPTH

(***************************************************************************)
(* The first port to be blocked does not keep the other from being: as     *)
(* docs/design.md's table of verifications says of the two ends of a loop  *)
(* ("confirm both get detected and blocked"), each is blocked in the end,  *)
(* provided that not every tick finds the queue of its peer full.          *)
(***************************************************************************)
BothEndsBlocked ==
  \A p \in PortId : \A q \in PortId \ {p} :
    ([]<><<RoomAtTick(p)>>_lvars) => (Looped(p, q) ~> ~Looped(p, q) \/ Blocked(q))

\* Data can go round.
LoopOpen ==
  \E p \in PortId : \E q \in PortId \ {p} :
    Looped(p, q) /\ ~Blocked(p) /\ ~Blocked(q)

DataUnderWay ==
  \/ \E n \in Listening : \E i \in DOMAIN wire[n] : Data(wire[n][i])
  \/ \E p \in DOMAIN outbox : \E i \in DOMAIN outbox[p] : Data(outbox[p][i])
  \/ \E i \in DOMAIN events : events[i].what # Down /\ Data(events[i].what)

(***************************************************************************)
(* One blocked port ends a storm: once no two open ports are bridged, the  *)
(* data frames still under way, in the segment and in the queues, go round *)
(* no more, blocked though only one end may be and for ever looped.        *)
(***************************************************************************)
StormEnds ==
  bridged /\ DataUnderWay /\ ~LoopOpen
  ~> ~DataUnderWay \/ ~bridged \/ LoopOpen \/ ~Alive
=============================================================================
