---------------------------- MODULE DaemonProofs ----------------------------
(***************************************************************************)
(* Proofs about Daemon, for every set of devices, topologies and frames:   *)
(* the daemon uses the switch through its interface alone, and so keeps    *)
(* what is proved of the switch in SwitchProofs across every interleaving  *)
(* of tasks, reloads and failures.                                         *)
(***************************************************************************)
EXTENDS Daemon, SwitchProofs, SequenceTheorems

\* The part of the type invariant that the calls on the switch rest on.
CallsTypeOK ==
  /\ specs \in Topologies
  /\ todo \in Seq(PortSpec)
  /\ IsMap(tasks, PortId \X {"reader", "writer"}, Name)
  /\ events \in Seq(PortEvent)

DaemonInv == CallsTypeOK /\ Inv

----------------------------------------------------------------------------
LEMMA CallsTypeInit == DaemonInit => CallsTypeOK
<1> SUFFICES ASSUME DaemonInit PROVE CallsTypeOK
  OBVIOUS
<1>1. << >> \in Seq(PortEvent)
  BY EmptySeq
<1>2. todo \in Seq(PortSpec)
  BY DaemonAssumption DEF DaemonInit
<1> QED BY <1>1, <1>2 DEF DaemonInit, CallsTypeOK, IsMap

\* Steps that spawn nothing, read nothing and end no task.
LEMMA CallsTypeKept ==
  ASSUME CallsTypeOK, specs' \in Topologies, UNCHANGED tasks,
         todo' \in {todo, specs, << >>} \/ (todo # << >> /\ todo' = Tail(todo)),
         events' = events \/ (events # << >> /\ events' = Tail(events))
  PROVE  CallsTypeOK'
<1>1. todo' \in Seq(PortSpec)
  BY DaemonAssumption, EmptySeq, HeadTailProperties DEF CallsTypeOK
<1>2. events' \in Seq(PortEvent)
  BY HeadTailProperties DEF CallsTypeOK
<1> QED BY <1>1, <1>2 DEF CallsTypeOK

\* A task that ends leaves the map of running tasks typed.
LEMMA TaskEnds ==
  ASSUME CallsTypeOK, NEW task, tasks' = Restrict(tasks, DOMAIN tasks \ {task}),
         UNCHANGED <<specs, todo, events>>
  PROVE  CallsTypeOK'
BY RestrictIsMap DEF CallsTypeOK

LEMMA ReaderStepTypes ==
  ASSUME CallsTypeOK, NEW p \in PortId, reader_step(p)
  PROVE  CallsTypeOK'
<1>1. PICK what \in Received \cup {Down} :
        /\ events' = Append(events, [port |-> p, name |-> tasks[Reader(p)],
                                     what |-> what])
        /\ tasks' = IF what = Down
                    THEN Restrict(tasks, DOMAIN tasks \ {Reader(p)}) ELSE tasks
  BY DEF reader_step
<1>2. tasks[Reader(p)] \in Name
  BY DEF reader_step, Running, CallsTypeOK, IsMap
<1>3. [port |-> p, name |-> tasks[Reader(p)], what |-> what] \in PortEvent
  BY <1>2 DEF PortEvent
<1>4. events' \in Seq(PortEvent)
  BY <1>1, <1>3, AppendProperties DEF CallsTypeOK
<1>5. IsMap(tasks', PortId \X {"reader", "writer"}, Name)
  BY <1>1, RestrictIsMap DEF CallsTypeOK
<1>6. UNCHANGED <<specs, todo>>
  BY DEF reader_step
<1> QED BY <1>4, <1>5, <1>6 DEF CallsTypeOK

LEMMA SpawnPortTypes ==
  ASSUME CallsTypeOK, spawn_port
  PROVE  CallsTypeOK'
<1>1. PICK p \in PortId :
        tasks' = insert(insert(tasks, Reader(p), Head(todo).name),
                        Writer(p), Head(todo).name)
  BY DEF spawn_port
<1>2. todo # << >> /\ todo' = Tail(todo)
  <2>1. Len(<< >>) = 0
    BY EmptySeq
  <2> QED BY <2>1 DEF spawn_port, take_spec
<1>3. Head(todo) \in PortSpec /\ todo' \in Seq(PortSpec)
  BY <1>2, HeadTailProperties DEF CallsTypeOK
<1>4. Head(todo).name \in Name
  BY <1>3 DEF PortSpec
<1>5. Reader(p) \in PortId \X {"reader", "writer"} /\ Writer(p) \in PortId \X {"reader", "writer"}
  BY DEF Reader, Writer
<1>6. IsMap(tasks', PortId \X {"reader", "writer"}, Name)
  BY <1>1, <1>4, <1>5, InsertIsMap DEF CallsTypeOK
<1>7. UNCHANGED <<specs, events>>
  BY DEF spawn_port
<1> QED BY <1>3, <1>6, <1>7 DEF CallsTypeOK

LEMMA CallsTypeNext == CallsTypeOK /\ [DaemonNext]_dvars => CallsTypeOK'
<1> SUFFICES ASSUME CallsTypeOK, [DaemonNext]_dvars PROVE CallsTypeOK'
  OBVIOUS
<1> USE DEF CallsTypeOK
<1>0. Len(<< >>) = 0
  BY EmptySeq
<1>1. CASE set_up
  <2>1. CASE spawn_port
    BY <2>1, SpawnPortTypes
  <2>2. CASE open_fails \/ name_fails
    <3>1. todo # << >> /\ todo' = Tail(todo) /\ UNCHANGED <<specs, tasks, events>>
      BY <1>0, <2>2 DEF open_fails, name_fails, take_spec
    <3> QED BY <3>1, CallsTypeKept
  <2>3. CASE \/ no_more_ids \/ all_spawned \/ set_up_fails
              \/ teardown_port \/ torn_down \/ new_switch
    <3>1. todo' \in {todo, specs, << >>} /\ UNCHANGED <<specs, tasks, events>>
      BY <2>3 DEF no_more_ids, all_spawned, set_up_fails, teardown_port, torn_down, new_switch
    <3> QED BY <3>1, CallsTypeKept
  <2> QED BY <1>1, <2>1, <2>2, <2>3 DEF set_up
<1>2. CASE load_ends
  BY <1>2, CallsTypeKept DEF load_ends, load_fails, load_succeeds
<1>3. CASE handle_frame_event
  BY <1>3, CallsTypeKept DEF handle_frame_event, take_event
<1>4. CASE age_sweep \/ loop_probe \/ sighup
  BY <1>4, CallsTypeKept DEF age_sweep, loop_probe, sighup, daemon
<1>5. CASE abort
  BY <1>5, TaskEnds DEF abort, reader_aborts, writer_aborts
<1>6. ASSUME NEW p \in PortId, task_step(p) PROVE CallsTypeOK'
  <2>1. CASE reader_step(p)
    BY <2>1, ReaderStepTypes
  <2>2. CASE writer_step(p)
    BY <2>2, CallsTypeKept DEF writer_step
  <2>3. CASE writer_ends(p)
    BY <2>3, TaskEnds DEF writer_ends
  <2> QED BY <1>6, <2>1, <2>2, <2>3 DEF task_step
<1>7. CASE UNCHANGED daemon
  BY <1>7 DEF daemon
<1> QED
  BY <1>1, <1>2, <1>3, <1>4, <1>5, <1>6, <1>7 DEF DaemonNext, dvars

----------------------------------------------------------------------------
\* Each step, as the switch sees it.
LEMMA EventCalls ==
  ASSUME CallsTypeOK, handle_frame_event
  PROVE  Next \/ UNCHANGED vars
<1>1. PICK e : e = Head(events)
  OBVIOUS
<1>2. e \in PortEvent
  BY <1>1, HeadTailProperties DEF handle_frame_event, take_event, CallsTypeOK
<1>3. e.port \in PortId /\ e.what \in Received \cup {Down}
  BY <1>2 DEF PortEvent
<1>4. CASE e.what = Down
  BY <1>1, <1>3, <1>4 DEF handle_frame_event, take_event, port_down, Next
<1>5. CASE e.what # Down /\ Parses(e.what)
  <2>1. parse(e.what) \in Frames
    BY <1>3, <1>5, DaemonAssumption
  <2>2. forward(e.port, parse(e.what))
    BY <1>1, <1>5 DEF handle_frame_event, take_event, frame_in
  <2> QED BY <1>3, <2>1, <2>2 DEF Next
<1>6. CASE e.what # Down /\ ~Parses(e.what)
  BY <1>1, <1>6 DEF handle_frame_event, take_event, frame_in
<1> QED BY <1>4, <1>5, <1>6

LEMMA AddCalls ==
  ASSUME CallsTypeOK, spawn_port \/ name_fails
  PROVE  Next
<1>1. PICK p \in PortId : add_port(p, Head(todo).mode)
  BY DEF spawn_port, name_fails
<1>2. todo # << >>
  <2>1. Len(<< >>) = 0
    BY EmptySeq
  <2> QED BY <2>1 DEF spawn_port, name_fails, take_spec
<1>3. Head(todo) \in PortSpec
  BY <1>2, HeadTailProperties DEF CallsTypeOK
<1>4. Head(todo).mode \in Modes
  BY <1>3 DEF PortSpec
<1> QED BY <1>1, <1>4 DEF Next

LEMMA StepCalls ==
  ASSUME CallsTypeOK, [DaemonNext]_dvars
  PROVE  [Next \/ Init']_vars
<1>1. CASE set_up
  <2>1. CASE spawn_port \/ name_fails
    BY <2>1, AddCalls
  <2>2. CASE new_switch
    BY <2>2 DEF new_switch, Init
  <2>3. CASE \/ open_fails \/ no_more_ids \/ all_spawned \/ set_up_fails
              \/ teardown_port \/ torn_down
    BY <2>3 DEF open_fails, no_more_ids, all_spawned, set_up_fails, teardown_port,
                torn_down
  <2> QED BY <1>1, <2>1, <2>2, <2>3 DEF set_up
<1>2. CASE load_ends
  BY <1>2 DEF load_ends, load_fails, load_succeeds
<1>3. CASE handle_frame_event
  BY <1>3, EventCalls
<1>4. CASE age_sweep
  BY <1>4 DEF age_sweep, Next
<1>5. CASE loop_probe \/ sighup \/ abort
  BY <1>5 DEF loop_probe, sighup, abort, reader_aborts, writer_aborts
<1>6. ASSUME NEW p \in PortId, task_step(p) PROVE UNCHANGED vars
  BY <1>6 DEF task_step, reader_step, writer_step, writer_ends
<1>7. CASE Alive /\ Tick
  BY <1>7 DEF Next
<1>8. CASE UNCHANGED dvars
  BY <1>8 DEF dvars
<1> QED
  BY <1>1, <1>2, <1>3, <1>4, <1>5, <1>6, <1>7, <1>8 DEF DaemonNext

LEMMA DaemonInvariance == DaemonSpec => []DaemonInv
<1>1. DaemonInit => DaemonInv
  BY CallsTypeInit, InitInv DEF DaemonInit, DaemonInv
<1>2. DaemonInv /\ [DaemonNext]_dvars => DaemonInv'
  <2> SUFFICES ASSUME DaemonInv, [DaemonNext]_dvars PROVE DaemonInv'
    OBVIOUS
  <2>1. CallsTypeOK'
    BY CallsTypeNext DEF DaemonInv
  <2>2. [Next \/ Init']_vars
    BY StepCalls DEF DaemonInv
  <2>3. CASE [Next]_vars
    BY <2>1, <2>3, NextInv DEF DaemonInv
  <2>4. CASE Init'
    <3>1. Init' => Inv'
      BY InitInv, PTL
    <3> QED BY <2>1, <2>4, <3>1 DEF DaemonInv
  <2> QED BY <2>2, <2>3, <2>4
<1> QED BY <1>1, <1>2, PTL DEF DaemonSpec

(***************************************************************************)
(* Whatever the tasks do and in whatever order, each step is one call on   *)
(* the switch, leaves it alone, or replaces it by a new one.               *)
(***************************************************************************)
THEOREM SwitchCallsHolds == DaemonSpec => SwitchCalls
<1>1. DaemonInv /\ [DaemonNext]_dvars => [Next \/ Init']_vars
  BY StepCalls DEF DaemonInv
<1> QED BY <1>1, DaemonInvariance, PTL DEF DaemonSpec, SwitchCalls

(***************************************************************************)
(* The guarantees of the switch are those of the running daemon: routes    *)
(* are never stale, frames stay in their VLAN, and what is delivered is    *)
(* read by the peer as what came in, through reloads, ports that fail half *)
(* way and events of ports that are gone.                                  *)
(***************************************************************************)
THEOREM DaemonKeepsSwitchGuarantees ==
  DaemonSpec => [](RoutesValid /\ NoGroupRoutes /\ VlanIsolation /\ NoBlackHole
                   /\ PeerReadsSameFrame)
<1>1. DaemonInv => RoutesValid /\ NoGroupRoutes /\ VlanIsolation /\ NoBlackHole
                   /\ PeerReadsSameFrame
  BY Isolation, RouteUsed, Fidelity DEF DaemonInv, Inv
<1> QED BY <1>1, DaemonInvariance, PTL

LEMMA DaemonCounts == DaemonSpec => []CountInv
<1>1. DaemonInit => CountInv
  BY CountInvInit DEF DaemonInit
<1>2. CountInv /\ [Next \/ Init']_vars => CountInv'
  <2>1. Init' => CountInv'
    BY CountInvInit, PTL
  <2> QED BY <2>1, CountInvNext
<1> QED BY <1>1, <1>2, SwitchCallsHolds, PTL DEF DaemonSpec, SwitchCalls

MoveTogether ==
  DOMAIN port_counters \subseteq DOMAIN port_counters' =>
    \A field \in CounterFields \ {"drops"} : Drift(field)' = Drift(field)
StartAgain == port_counters' = << >> /\ vlan_counters' = << >>

(***************************************************************************)
(* The counters are right in the running daemon too: they keep their       *)
(* types, what SIGUSR1 dumps the dashboard shows, and ports and VLANs are  *)
(* charged alike in every step that forgets no port's counters.  A reload  *)
(* starts both from nothing.                                               *)
(***************************************************************************)
THEOREM DaemonKeepsCounters ==
  DaemonSpec => /\ [](TypeOK /\ DashboardShowsDump)
                /\ [][MoveTogether \/ StartAgain]_vars
<1>1. CountInv => TypeOK /\ DashboardShowsDump
  BY CountedShown DEF CountInv, Inv, CoreTypeOK, TypeOK
<1>2. CountInv /\ [Next \/ Init']_vars => [MoveTogether \/ StartAgain]_vars
  <2> SUFFICES ASSUME CountInv, [Next \/ Init']_vars PROVE [MoveTogether \/ StartAgain]_vars
    OBVIOUS
  <2>1. CASE [Next]_vars
    BY <2>1, DriftStep DEF MoveTogether
  <2>2. CASE Init'
    BY <2>2 DEF Init, StartAgain
  <2> QED BY <2>1, <2>2
<1>3. DaemonSpec => [][MoveTogether \/ StartAgain]_vars
  BY <1>2, DaemonCounts, SwitchCallsHolds, PTL DEF SwitchCalls
<1>4. DaemonSpec => [](TypeOK /\ DashboardShowsDump)
  BY <1>1, DaemonCounts, PTL
<1> QED BY <1>3, <1>4

----------------------------------------------------------------------------
(***************************************************************************)
(* The ports and their tasks, for queues and ids of any number.  The       *)
(* argument is about whom a task, a queued event and a route belong to:    *)
(* ids are never given out twice, so what is left over from an earlier     *)
(* port can never be taken for something of a later one.                   *)
(***************************************************************************)

Queued == {events[i] : i \in DOMAIN events}
ToSpawn == {todo[i] : i \in DOMAIN todo}
Specified == {specs[i] : i \in DOMAIN specs}

\* A handle, the port being torn down and a writer left behind are different.
Places ==
  /\ loop \in {"startup", "select", "loading", "teardown", "rebuild", "exited"}
  /\ dying \in PortId \cup {NoPort}
  /\ handles \subseteq PortId /\ detached \subseteq PortId
  /\ handles \cap detached = {} /\ dying \notin handles \cup detached
  /\ dying # NoPort => loop = "teardown"

\* No id that is still in use will be given out again.
IdsSpent ==
  /\ next_id \in 0 .. IdLimit
  /\ \A p \in handles \cup detached \cup DOMAIN ports : p < next_id
  /\ dying # NoPort => dying < next_id
  /\ \A e \in Queued : e.port < next_id

IsQueue(q) == q \in Seq({q[i] : i \in DOMAIN q}) /\ Len(q) <= OUTBOUND_QUEUE_DEPTH + 1

Queues ==
  /\ DOMAIN outbox = {p \in PortId : Running(Writer(p))}
  /\ \A p \in DOMAIN outbox : IsQueue(outbox[p])

\* HandlesAreServed, and both tasks have the same device.
Served ==
  \A p \in handles :
    /\ p \in DOMAIN ports /\ Running(Writer(p))
    /\ Running(Reader(p)) => tasks[Reader(p)] = tasks[Writer(p)]
    /\ Running(Reader(p)) \/ \E e \in Queued : IsDown(e, p)

\* EventsAttributed, and no event is of a port that has no handle yet.
Heard ==
  \A e \in Queued :
    /\ e.port \in handles =>
         /\ e.name = tasks[Writer(e.port)]
         /\ e.what = Down => ~Running(Reader(e.port))
    /\ loop # "teardown" /\ e.port \in DOMAIN ports => e.port \in handles

\* TopologyRespected, over the set of the specs.
Configured ==
  loop # "teardown" =>
    /\ \A p \in handles : \E s \in Specified :
         s.name = tasks[Writer(p)] /\ s.mode = ports[p].mode
    /\ \A p, q \in handles : tasks[Writer(p)] = tasks[Writer(q)] => p = q

\* The specs that wait for spawn_port are of other devices than the handles.
ToBeConfigured ==
  spawning =>
    /\ ToSpawn \subseteq Specified /\ Distinct(todo)
    /\ \A s \in ToSpawn, p \in handles : s.name # tasks[Writer(p)]

Ports ==
  /\ Places /\ IdsSpent /\ Queues /\ NoLeakedTasks
  /\ Served /\ Heard /\ RoutesHaveHandles /\ Configured /\ ToBeConfigured

PortInv == DaemonInv /\ Ports

----------------------------------------------------------------------------
\* Sequences as sets

LEMMA TailElements ==
  ASSUME NEW S, NEW s \in Seq(S), s # << >>
  PROVE  LET all == {s[i] : i \in DOMAIN s}
             rest == {Tail(s)[i] : i \in DOMAIN Tail(s)}
         IN  /\ Head(s) \in all /\ Head(s) = s[1] /\ 1 \in DOMAIN s
             /\ rest \subseteq all /\ all \subseteq rest \cup {Head(s)}
             /\ Tail(s) \in Seq(S) /\ Len(Tail(s)) = Len(s) - 1
<1>1. /\ Head(s) = s[1] /\ Tail(s) \in Seq(S) /\ Len(Tail(s)) = Len(s) - 1
      /\ \A i \in 1 .. Len(Tail(s)) : Tail(s)[i] = s[i + 1]
      /\ Len(s) \in Nat \ {0} /\ DOMAIN s = 1 .. Len(s)
      /\ DOMAIN Tail(s) = 1 .. Len(Tail(s))
  BY HeadTailProperties, EmptySeq, LenProperties
<1>2. \A i \in DOMAIN Tail(s) : i + 1 \in DOMAIN s
  BY <1>1
<1>3. \A i \in DOMAIN s : i # 1 => i - 1 \in DOMAIN Tail(s) /\ Tail(s)[i - 1] = s[i]
  BY <1>1
<1>4. \A i \in DOMAIN Tail(s) : Tail(s)[i] = s[i + 1]
  BY <1>1
<1>5. 1 \in DOMAIN s
  BY <1>1
<1>6. ASSUME NEW e \in {s[i] : i \in DOMAIN s}, e # Head(s)
      PROVE  e \in {Tail(s)[i] : i \in DOMAIN Tail(s)}
  <2>1. PICK i \in DOMAIN s : e = s[i] /\ i # 1
    BY <1>1, <1>6
  <2> QED BY <1>3, <2>1
<1>7. {Tail(s)[i] : i \in DOMAIN Tail(s)} \subseteq {s[i] : i \in DOMAIN s}
  BY <1>2, <1>4
<1> QED BY <1>1, <1>5, <1>6, <1>7

LEMMA AppendElements ==
  ASSUME NEW S, NEW s \in Seq(S), NEW e
  PROVE  LET longer == Append(s, e)
         IN  /\ {longer[i] : i \in DOMAIN longer} = {s[i] : i \in DOMAIN s} \cup {e}
             /\ longer \in Seq(S \cup {e}) /\ Len(longer) = Len(s) + 1
<1>1. s \in Seq(S \cup {e})
  BY SeqMonotonic
<1>2. /\ Append(s, e) \in Seq(S \cup {e})
      /\ Len(Append(s, e)) = Len(s) + 1
      /\ \A i \in 1 .. Len(s) : Append(s, e)[i] = s[i]
      /\ Append(s, e)[Len(s) + 1] = e
  BY <1>1, AppendProperties
<1>3. DOMAIN s = 1 .. Len(s) /\ Len(s) \in Nat /\ DOMAIN Append(s, e) = 1 .. Len(s) + 1
  BY <1>1, <1>2, LenProperties
<1> QED BY <1>2, <1>3

LEMMA OwnElements ==
  ASSUME NEW S, NEW s \in Seq(S)
  PROVE  s \in Seq({s[i] : i \in DOMAIN s})
<1>1. Len(s) \in Nat /\ DOMAIN s = 1 .. Len(s) /\ s \in [1 .. Len(s) -> S]
  BY LenProperties
<1>2. s \in [1 .. Len(s) -> {s[i] : i \in DOMAIN s}]
  BY <1>1
<1> QED BY <1>1, <1>2, SMTT(40)

\* A queue of frames stays one when a frame is taken from it or put to it.
LEMMA QueueTail ==
  ASSUME NEW q, IsQueue(q), q # << >>
  PROVE  IsQueue(Tail(q))
<1>1. /\ Tail(q) \in Seq({q[i] : i \in DOMAIN q})
      /\ Len(Tail(q)) = Len(q) - 1 /\ Len(q) \in Nat
  BY TailElements, LenProperties DEF IsQueue
<1>2. Tail(q) \in Seq({Tail(q)[i] : i \in DOMAIN Tail(q)})
  BY <1>1, OwnElements
<1> QED BY <1>1, <1>2, DaemonAssumption, SMTT(40) DEF IsQueue

LEMMA QueueAppend ==
  ASSUME NEW q, IsQueue(q), Len(q) <= OUTBOUND_QUEUE_DEPTH, NEW e
  PROVE  IsQueue(Append(q, e))
<1>1. /\ Append(q, e) \in Seq({q[i] : i \in DOMAIN q} \cup {e})
      /\ Len(Append(q, e)) = Len(q) + 1 /\ Len(q) \in Nat
  BY AppendElements, LenProperties DEF IsQueue
<1>2. Append(q, e) \in Seq({Append(q, e)[i] : i \in DOMAIN Append(q, e)})
  BY <1>1, OwnElements
<1> QED BY <1>1, <1>2, DaemonAssumption, SMTT(40) DEF IsQueue

LEMMA QueueEmpty == IsQueue(<< >>)
<1>1. << >> \in Seq({<< >>[i] : i \in DOMAIN << >>}) /\ Len(<< >>) = 0
  BY EmptySeq
<1> QED BY <1>1, DaemonAssumption DEF IsQueue

----------------------------------------------------------------------------
LEMMA InitPorts == DaemonInit => Ports
<1> SUFFICES ASSUME DaemonInit PROVE Ports
  OBVIOUS
<1>1. Places /\ NoLeakedTasks /\ Served /\ RoutesHaveHandles /\ Configured
  BY DaemonAssumption DEF DaemonInit, Init, Places, NoLeakedTasks, Served,
     RoutesHaveHandles, Configured
<1>2. Queued = {}
  BY DEF DaemonInit, Queued
<1>3. IdsSpent /\ Heard
  BY <1>2, DaemonAssumption DEF DaemonInit, Init, IdsSpent, Heard
<1>4. Queues
  BY DEF DaemonInit, Queues, Running
<1>5. ToBeConfigured
  BY DaemonAssumption DEF DaemonInit, ToBeConfigured, ToSpawn, Specified
<1> QED BY <1>1, <1>3, <1>4, <1>5 DEF Ports

\* What the types say of ids, events and routes.
LEMMA Typed ==
  ASSUME PortInv
  PROVE  /\ PortId = 0 .. IdLimit - 1 /\ IdLimit \in Nat /\ NoPort \notin PortId
         /\ DOMAIN ports \subseteq PortId
         /\ \A k \in DOMAIN mac_table : mac_table[k].port \in DOMAIN ports
         /\ DOMAIN tasks \subseteq PortId \X {"reader", "writer"}
         /\ \A e \in Queued : e \in PortEvent /\ e.port \in PortId
<1> USE DEF PortInv, DaemonInv
<1>1. DOMAIN ports \subseteq PortId
  BY DEF Inv, CoreTypeOK, PortsTypeOK, IsMap
<1>2. ASSUME NEW k \in DOMAIN mac_table PROVE mac_table[k].port \in DOMAIN ports
  <2>1. RouteValid(k[1], k[2]) /\ k = <<k[1], k[2]>>
    BY DEF Inv, CoreTypeOK, RoutesTypeOK, IsMap, RoutesValid
  <2> QED BY <2>1 DEF RouteValid, lookup
<1>3. DOMAIN tasks \subseteq PortId \X {"reader", "writer"}
  BY DEF CallsTypeOK, IsMap
<1>4. ASSUME NEW e \in Queued PROVE e \in PortEvent /\ e.port \in PortId
  <2>1. events \in Seq(PortEvent)
    BY DEF CallsTypeOK
  <2>2. e \in PortEvent
    BY <2>1, ElementOfSeq, LenProperties DEF Queued
  <2> QED BY <2>2 DEF PortEvent
<1> QED BY <1>1, <1>2, <1>3, <1>4, DaemonAssumption

\* Nothing happens to the ports: the loop goes on to somewhere else.
LEMMA LoopMoves ==
  ASSUME PortInv, dying = NoPort,
         UNCHANGED <<ports, mac_table, dying, handles, tasks, detached, outbox, events>>,
         next_id' \in next_id .. IdLimit,
         loop' \in {"startup", "select", "loading", "teardown", "rebuild", "exited"},
         loop = "teardown" => loop' = "teardown"
  PROVE  /\ Places' /\ IdsSpent' /\ Queues' /\ NoLeakedTasks'
         /\ Served' /\ Heard' /\ RoutesHaveHandles'
<1> USE DEF PortInv, Ports
<1>1. Queued' = Queued
  BY DEF Queued
<1>2. Places' /\ NoLeakedTasks'
  BY DEF Places, NoLeakedTasks
<1>3. IdsSpent'
  <2>1. /\ handles \cup detached \cup DOMAIN ports \subseteq Int
        /\ \A e \in Queued : e.port \in Int
    BY Typed DEF Places
  <2>2. next_id \in 0 .. IdLimit /\ IdLimit \in Nat /\ (dying # NoPort => dying \in Int)
    BY Typed DEF IdsSpent, Places
  <2> QED BY <1>1, <2>1, <2>2 DEF IdsSpent
<1>4. Queues'
  BY DEF Queues, Running, IsQueue
<1>5. Served' /\ Heard'
  BY <1>1 DEF Served, Heard, Running
<1>6. RoutesHaveHandles'
  BY DEF RoutesHaveHandles
<1> QED BY <1>2, <1>3, <1>4, <1>5, <1>6

\* The topology is kept when no handle is new and none changes.
LEMMA TopologyKept ==
  ASSUME PortInv, UNCHANGED <<specs, todo>>, handles' \subseteq handles,
         spawning' => spawning,
         loop' # "teardown" => loop # "teardown",
         \A p \in handles' : /\ tasks'[Writer(p)] = tasks[Writer(p)]
                             /\ ports'[p].mode = ports[p].mode
  PROVE  Configured' /\ ToBeConfigured'
<1>1. Specified' = Specified /\ ToSpawn' = ToSpawn /\ (Distinct(todo))' = Distinct(todo)
  BY DEF Specified, ToSpawn, Distinct
<1>2. Configured'
  BY <1>1 DEF PortInv, Ports, Configured
<1>3. ToBeConfigured'
  BY <1>1 DEF PortInv, Ports, ToBeConfigured
<1> QED BY <1>2, <1>3

LEMMA LoopSteps ==
  ASSUME PortInv,
         \/ no_more_ids \/ all_spawned \/ set_up_fails \/ sighup
         \/ load_fails \/ load_succeeds
  PROVE  Ports'
<1>1. loop # "teardown" /\ dying = NoPort
  BY DEF PortInv, Ports, Places, no_more_ids, all_spawned, set_up_fails, sighup,
         load_fails, load_succeeds, spawning
<1>2. /\ Places' /\ IdsSpent' /\ Queues' /\ NoLeakedTasks'
      /\ Served' /\ Heard' /\ RoutesHaveHandles'
  <2>1. next_id \in 0 .. IdLimit /\ IdLimit \in Nat
    BY DaemonAssumption DEF PortInv, Ports, IdsSpent
  <2> QED BY <1>1, <2>1, LoopMoves DEF no_more_ids, all_spawned, set_up_fails, sighup,
              load_fails, load_succeeds, vars
<1>3. Configured' /\ ToBeConfigured'
  <2>1. CASE load_succeeds
    BY <2>1 DEF load_succeeds, Configured, ToBeConfigured, spawning
  <2>2. CASE \/ no_more_ids \/ all_spawned \/ set_up_fails \/ sighup \/ load_fails
    <3>1. ~spawning' /\ UNCHANGED <<specs, handles, tasks, ports>>
      BY <2>2 DEF no_more_ids, all_spawned, set_up_fails, sighup, load_fails, spawning, vars
    <3>2. Configured'
      BY <1>1, <3>1 DEF PortInv, Ports, Configured, Specified
    <3> QED BY <3>1, <3>2 DEF ToBeConfigured
  <2> QED BY <2>1, <2>2
<1> QED BY <1>2, <1>3 DEF Ports

----------------------------------------------------------------------------
\* The spec that is taken is of another device than any that still waits.
LEMMA SpecTaken ==
  ASSUME PortInv, spawning, take_spec
  PROVE  /\ Head(todo) \in ToSpawn /\ Head(todo) \in Specified
         /\ ToSpawn' \subseteq ToSpawn /\ (Distinct(todo))'
         /\ \A s \in ToSpawn' : s.name # Head(todo).name
         /\ loop # "teardown" /\ dying = NoPort
<1>1. todo \in Seq(PortSpec) /\ todo # << >> /\ todo' = Tail(todo)
  BY EmptySeq DEF PortInv, DaemonInv, CallsTypeOK, take_spec
<1>2. /\ Head(todo) \in ToSpawn /\ Head(todo) = todo[1] /\ 1 \in DOMAIN todo
      /\ ToSpawn' \subseteq ToSpawn
  BY <1>1, TailElements DEF ToSpawn
<1>3. ToSpawn \subseteq Specified /\ Distinct(todo)
  BY DEF PortInv, Ports, ToBeConfigured
<1>4. \A i \in DOMAIN todo' : /\ i \in Nat \ {0} /\ i + 1 \in DOMAIN todo
                             /\ todo'[i] = todo[i + 1]
  BY <1>1, HeadTailProperties, LenProperties
<1>5. (Distinct(todo))'
  <2> SUFFICES ASSUME NEW i \in DOMAIN todo', NEW j \in DOMAIN todo',
                      todo'[i].name = todo'[j].name
               PROVE  i = j
    BY DEF Distinct
  <2>1. i + 1 = j + 1
    BY <1>3, <1>4 DEF Distinct
  <2> QED BY <1>4, <2>1
<1>6. ASSUME NEW s \in ToSpawn' PROVE s.name # Head(todo).name
  <2>1. PICK i \in DOMAIN todo' : s = todo'[i]
    BY DEF ToSpawn
  <2>2. s = todo[i + 1] /\ i + 1 # 1 /\ i + 1 \in DOMAIN todo
    BY <1>4, <2>1
  <2> QED BY <1>2, <1>3, <2>2 DEF Distinct
<1>7. loop # "teardown" /\ dying = NoPort
  BY DEF PortInv, Ports, Places, spawning
<1> QED BY <1>2, <1>3, <1>5, <1>6, <1>7

\* An id is used up, whether or not a port comes of it.
LEMMA NextId ==
  ASSUME PortInv, NEW p \in PortId, next(p)
  PROVE  /\ p = next_id /\ next_id' = next_id + 1 /\ next_id' \in next_id .. IdLimit
         /\ p \notin handles \cup detached \cup DOMAIN ports
         /\ ~Running(Reader(p)) /\ ~Running(Writer(p))
         /\ \A e \in Queued : e.port # p
<1>1. next_id \in 0 .. IdLimit /\ p = next_id /\ next_id' = next_id + 1 /\ next_id < IdLimit
  BY DEF PortInv, Ports, IdsSpent, next
<1>2. /\ p \notin handles \cup detached \cup DOMAIN ports /\ p # dying
      /\ \A e \in Queued : e.port # p
  BY <1>1, Typed DEF PortInv, Ports, IdsSpent
<1>3. ~Running(Reader(p)) /\ ~Running(Writer(p))
  BY <1>2 DEF PortInv, Ports, NoLeakedTasks, Running, Reader, Writer
<1> QED BY <1>1, <1>2, <1>3, Typed

LEMMA OpenFails ==
  ASSUME PortInv, open_fails
  PROVE  Ports'
<1>1. PICK p \in PortId : next(p)
  BY DEF open_fails
<1>2. /\ spawning /\ take_spec /\ after_error
      /\ UNCHANGED <<vars, specs, dying, handles, tasks, detached, outbox, events>>
  BY DEF open_fails
<1>3. /\ Places' /\ IdsSpent' /\ Queues' /\ NoLeakedTasks'
      /\ Served' /\ Heard' /\ RoutesHaveHandles'
  BY <1>1, <1>2, SpecTaken, NextId, LoopMoves
     DEF vars, after_error, PortInv, Ports, Places
<1>4. Configured'
  BY <1>2, SpecTaken DEF PortInv, Ports, Configured, Specified, vars
<1>5. ToBeConfigured'
  BY <1>2, SpecTaken DEF PortInv, Ports, ToBeConfigured, Specified
<1> QED BY <1>3, <1>4, <1>5 DEF Ports

\* The switch gets a new port and loses no other; no route leads to it.
LEMMA AddedPort ==
  ASSUME PortInv, NEW p \in PortId, next(p), NEW mode, add_port(p, mode)
  PROVE  /\ DOMAIN ports' = DOMAIN ports \cup {p}
         /\ ports'[p].mode = mode
         /\ \A q \in DOMAIN ports : ports'[q] = ports[q]
         /\ \A k \in DOMAIN mac_table' :
              k \in DOMAIN mac_table /\ mac_table'[k].port = mac_table[k].port
<1>1. p \notin DOMAIN ports
  BY NextId
<1> QED BY <1>1 DEF add_port, insert, purge_port, Restrict

LEMMA NameFails ==
  ASSUME PortInv, name_fails
  PROVE  Ports'
<1>1. PICK p \in PortId : next(p) /\ add_port(p, Head(todo).mode)
  BY DEF name_fails
<1>2. /\ spawning /\ take_spec /\ after_error
      /\ UNCHANGED <<specs, dying, handles, tasks, detached, outbox, events>>
  BY DEF name_fails
<1>3. Queued' = Queued
  BY <1>2 DEF Queued
<1>a. /\ DOMAIN ports' = DOMAIN ports \cup {p}
      /\ \A q \in DOMAIN ports : ports'[q] = ports[q]
      /\ \A k \in DOMAIN mac_table' :
           k \in DOMAIN mac_table /\ mac_table'[k].port = mac_table[k].port
  BY <1>1, AddedPort
<1>b. /\ p = next_id /\ next_id' = next_id + 1 /\ next_id' \in next_id .. IdLimit
      /\ p \notin handles \cup detached /\ \A e \in Queued : e.port # p
  BY <1>1, NextId
<1>c. /\ loop # "teardown" /\ dying = NoPort /\ loop' # "teardown"
      /\ loop' \in {"startup", "rebuild", "exited"}
  BY <1>2, SpecTaken DEF after_error, spawning
<1> USE DEF PortInv, Ports
<1>4. Places' /\ NoLeakedTasks'
  BY <1>2, <1>c DEF Places, NoLeakedTasks
<1>5. IdsSpent'
  <2>1. next_id \in 0 .. IdLimit /\ IdLimit \in Nat /\ next_id' \in 0 .. IdLimit
    BY <1>b, Typed DEF IdsSpent
  <2>2. handles \cup detached \cup DOMAIN ports \subseteq Int /\ \A e \in Queued : e.port \in Int
    BY Typed DEF Places
  <2> QED BY <1>2, <1>3, <1>a, <1>b, <1>c, <2>1, <2>2 DEF IdsSpent
<1>6. Queues'
  BY <1>2 DEF Queues, Running, IsQueue
<1>7. Served'
  BY <1>2, <1>3, <1>a DEF Served, Running
<1>8. Heard'
  BY <1>2, <1>3, <1>a, <1>b, <1>c DEF Heard, Running
<1>9. RoutesHaveHandles'
  BY <1>2, <1>a, <1>c DEF RoutesHaveHandles
<1>10. Configured'
  <2>1. \A q \in handles : ports'[q] = ports[q]
    BY <1>a DEF Served
  <2> QED BY <1>2, <1>c, <2>1 DEF Configured, Specified
<1>11. ToBeConfigured'
  BY <1>2, SpecTaken DEF ToBeConfigured, Specified
<1> QED BY <1>4, <1>5, <1>6, <1>7, <1>8, <1>9, <1>10, <1>11

LEMMA SpawnPort ==
  ASSUME PortInv, spawn_port
  PROVE  Ports'
<1>1. PICK p \in PortId :
        /\ next(p) /\ add_port(p, Head(todo).mode)
        /\ handles' = handles \cup {p}
        /\ tasks' = insert(insert(tasks, Reader(p), Head(todo).name),
                           Writer(p), Head(todo).name)
        /\ outbox' = insert(outbox, p, << >>)
  BY DEF spawn_port
<1>2. spawning /\ take_spec /\ UNCHANGED <<loop, specs, dying, detached, events>>
  BY DEF spawn_port
<1>3. Queued' = Queued
  BY <1>2 DEF Queued
<1>a. /\ DOMAIN ports' = DOMAIN ports \cup {p} /\ ports'[p].mode = Head(todo).mode
      /\ \A q \in DOMAIN ports : ports'[q] = ports[q]
      /\ \A k \in DOMAIN mac_table' :
           k \in DOMAIN mac_table /\ mac_table'[k].port = mac_table[k].port
  BY <1>1, AddedPort
<1>b. /\ p = next_id /\ next_id' = next_id + 1 /\ next_id' \in next_id .. IdLimit
      /\ p \notin handles \cup detached /\ p \notin DOMAIN ports
      /\ ~Running(Reader(p)) /\ ~Running(Writer(p))
      /\ \A e \in Queued : e.port # p
  BY <1>1, NextId
<1>c. loop # "teardown" /\ dying = NoPort /\ p # NoPort
  BY <1>2, SpecTaken, Typed
<1>d. /\ DOMAIN tasks' = DOMAIN tasks \cup {Reader(p), Writer(p)}
      /\ tasks'[Reader(p)] = Head(todo).name /\ tasks'[Writer(p)] = Head(todo).name
      /\ \A task \in DOMAIN tasks : tasks'[task] = tasks[task]
  BY <1>1, <1>b DEF insert, Running
<1>e. /\ \A q : (Running(Reader(q)))' <=> Running(Reader(q)) \/ q = p
      /\ \A q : (Running(Writer(q)))' <=> Running(Writer(q)) \/ q = p
  BY <1>d DEF Running, Reader, Writer
<1> USE DEF PortInv, Ports
<1>4. Places'
  BY <1>1, <1>2, <1>b, <1>c DEF Places
<1>5. NoLeakedTasks'
  BY <1>1, <1>2, <1>d DEF NoLeakedTasks, Reader, Writer
<1>6. IdsSpent'
  <2>1. next_id \in 0 .. IdLimit /\ IdLimit \in Nat /\ next_id' \in 0 .. IdLimit
    BY <1>b, Typed DEF IdsSpent
  <2>2. handles \cup detached \cup DOMAIN ports \subseteq Int /\ \A e \in Queued : e.port \in Int
    BY Typed DEF Places
  <2> QED BY <1>1, <1>2, <1>3, <1>a, <1>b, <1>c, <2>1, <2>2 DEF IdsSpent
<1>7. Queues'
  <2>1. DOMAIN outbox' = DOMAIN outbox \cup {p} /\ outbox'[p] = << >>
    BY <1>1 DEF insert
  <2>2. \A q \in DOMAIN outbox \ {p} : outbox'[q] = outbox[q]
    BY <1>1 DEF insert
  <2>3. DOMAIN outbox' = {q \in PortId : (Running(Writer(q)))'}
    BY <1>e, <2>1 DEF Queues
  <2>4. \A q \in DOMAIN outbox' : IsQueue(outbox'[q])
    BY <2>1, <2>2, QueueEmpty DEF Queues
  <2> QED BY <2>3, <2>4 DEF Queues, IsQueue
<1>8. Served'
  <2>1. ASSUME NEW q \in handles
        PROVE  /\ q \in DOMAIN ports' /\ (Running(Writer(q)))'
               /\ (Running(Reader(q)))' => tasks'[Reader(q)] = tasks'[Writer(q)]
               /\ (Running(Reader(q)))' \/ \E e \in Queued : IsDown(e, q)
    BY <1>a, <1>b, <1>d, <1>e DEF Served, Running
  <2> QED BY <1>1, <1>3, <1>a, <1>d, <1>e, <2>1 DEF Served
<1>9. Heard'
  <2>1. ASSUME NEW e \in Queued
        PROVE  /\ e.port \in handles' =>
                    /\ e.name = tasks'[Writer(e.port)]
                    /\ e.what = Down => ~(Running(Reader(e.port)))'
               /\ e.port \in DOMAIN ports' => e.port \in handles'
    <3>1. e.port # p /\ (e.port \in handles' <=> e.port \in handles)
      BY <1>1, <1>b
    <3> QED BY <1>a, <1>c, <1>d, <1>e, <3>1 DEF Heard, Served, Running
  <2> QED BY <1>3, <2>1 DEF Heard
<1>10. RoutesHaveHandles'
  BY <1>1, <1>a, <1>c DEF RoutesHaveHandles
<1>11. /\ Head(todo) \in ToSpawn /\ Head(todo) \in Specified
       /\ ToSpawn' \subseteq ToSpawn /\ (Distinct(todo))'
       /\ \A s \in ToSpawn' : s.name # Head(todo).name
  BY <1>2, SpecTaken
<1>12. /\ Specified' = Specified
       /\ \A q \in handles : /\ tasks'[Writer(q)] = tasks[Writer(q)]
                              /\ ports'[q] = ports[q]
  BY <1>2, <1>a, <1>d DEF Specified, Served, Running
<1>13. \A q \in handles : tasks[Writer(q)] # Head(todo).name
  BY <1>2, <1>11 DEF ToBeConfigured
<1>14. Configured'
  BY <1>1, <1>2, <1>a, <1>c, <1>d, <1>11, <1>12, <1>13 DEF Configured
<1>15. ToBeConfigured'
  BY <1>1, <1>2, <1>d, <1>11, <1>12 DEF ToBeConfigured
<1> QED BY <1>4, <1>5, <1>6, <1>7, <1>8, <1>9, <1>10, <1>14, <1>15

----------------------------------------------------------------------------
\* Teardown: no handle is promised anything but its tasks.
LEMMA TeardownPort ==
  ASSUME PortInv, teardown_port
  PROVE  Ports'
<1>1. PICK p \in handles : dying' = p /\ handles' = handles \ {p}
  BY DEF teardown_port
<1>2. /\ loop = "teardown" /\ loop' = loop /\ dying = NoPort
      /\ UNCHANGED <<vars, specs, todo, next_id, tasks, detached, outbox, events>>
  BY DEF teardown_port
<1>3. Queued' = Queued
  BY <1>2 DEF Queued
<1> USE DEF PortInv, Ports
<1>4. Places'
  BY <1>1, <1>2 DEF Places
<1>5. NoLeakedTasks'
  <2>1. \A task \in DOMAIN tasks : task[1] \in PortId
    BY Typed
  <2> QED BY <1>1, <1>2, <2>1, Typed DEF NoLeakedTasks
<1>a. IdsSpent'
  BY <1>1, <1>2, <1>3 DEF IdsSpent, vars
<1>6. Queues'
  BY <1>2 DEF Queues, Running, IsQueue
<1>7. Served' /\ Heard'
  BY <1>1, <1>2, <1>3 DEF Served, Heard, Running, vars
<1>8. RoutesHaveHandles' /\ Configured' /\ ToBeConfigured'
  BY <1>2 DEF RoutesHaveHandles, Configured, ToBeConfigured, spawning
<1> QED BY <1>4, <1>5, <1>a, <1>6, <1>7, <1>8

LEMMA TornDown ==
  ASSUME PortInv, torn_down
  PROVE  Ports'
<1>1. /\ dying # NoPort /\ ~Running(Reader(dying)) /\ ~Running(Writer(dying))
      /\ dying' = NoPort
      /\ UNCHANGED <<vars, loop, specs, todo, handles, next_id, tasks, detached,
                     outbox, events>>
  BY DEF torn_down
<1>2. Queued' = Queued
  BY <1>1 DEF Queued
<1> USE DEF PortInv, Ports
<1>3. loop = "teardown" /\ loop' = "teardown"
  BY <1>1 DEF Places
<1>4. Places'
  BY <1>1, Typed DEF Places
<1>5. NoLeakedTasks'
  <2>1. ASSUME NEW task \in DOMAIN tasks PROVE task[1] # dying
    <3>1. task = Reader(task[1]) \/ task = Writer(task[1])
      BY Typed DEF Reader, Writer
    <3> QED BY <1>1, <3>1 DEF Running
  <2> QED BY <1>1, <2>1 DEF NoLeakedTasks
<1>6. IdsSpent'
  BY <1>1, <1>2 DEF IdsSpent, vars
<1>7. Queues'
  BY <1>1 DEF Queues, Running, IsQueue
<1>8. Served' /\ Heard'
  BY <1>1, <1>2 DEF Served, Heard, Running, vars
<1>9. RoutesHaveHandles' /\ Configured' /\ ToBeConfigured'
  BY <1>3 DEF RoutesHaveHandles, Configured, ToBeConfigured, spawning
<1> QED BY <1>4, <1>5, <1>6, <1>7, <1>8, <1>9

LEMMA NewSwitch ==
  ASSUME PortInv, new_switch
  PROVE  Ports'
<1>1. /\ loop = "teardown" /\ dying = NoPort /\ handles = {}
      /\ ports' = << >> /\ mac_table' = << >>
      /\ loop' = "rebuild" /\ todo' = specs
      /\ UNCHANGED <<specs, dying, handles, next_id, tasks, detached, outbox, events>>
  BY DEF new_switch
<1>2. Queued' = Queued /\ DOMAIN ports' = {} /\ DOMAIN mac_table' = {}
  BY <1>1 DEF Queued
<1> USE DEF PortInv, Ports
<1>3. Places' /\ NoLeakedTasks'
  BY <1>1 DEF Places, NoLeakedTasks
<1>4. IdsSpent'
  BY <1>1, <1>2 DEF IdsSpent
<1>5. Queues'
  BY <1>1 DEF Queues, Running, IsQueue
<1>6. Served' /\ Heard' /\ RoutesHaveHandles'
  BY <1>1, <1>2 DEF Served, Heard, RoutesHaveHandles
<1>7. Configured'
  BY <1>1 DEF Configured
<1>8. ToBeConfigured'
  <2>1. Distinct(specs)
    BY DaemonAssumption DEF DaemonInv, CallsTypeOK
  <2> QED BY <1>1, <2>1 DEF ToBeConfigured, ToSpawn, Specified, Distinct
<1> QED BY <1>3, <1>4, <1>5, <1>6, <1>7, <1>8

----------------------------------------------------------------------------
\* The loop's calls on the switch

\* A frame changes neither the ports there are nor their modes, and is learned
\* for the port it came in on.
LEMMA ForwardKeeps ==
  ASSUME Inv, NEW p \in PortId, NEW f \in Frames, forward(p, f)
  PROVE  /\ DOMAIN ports' = DOMAIN ports
         /\ \A q \in DOMAIN ports : ports'[q].mode = ports[q].mode
         /\ \A k \in DOMAIN mac_table' :
              \/ k \in DOMAIN mac_table /\ mac_table'[k].port = mac_table[k].port
              \/ p \in DOMAIN ports /\ mac_table'[k].port = p
<1>1. CASE handle_loop_probe(p, f)
  <2>1. CASE block_port(p)
    BY <2>1, SetBlocked DEF block_port, purge_port, Restrict, Inv, CoreTypeOK
  <2>2. CASE UNCHANGED vars
    BY <2>2 DEF vars
  <2> QED BY <1>1, <2>1, <2>2 DEF handle_loop_probe
<1>2. CASE forward_accept(p, f)
  <2>1. p \in DOMAIN ports /\ ports' = ports
    BY <1>2 DEF forward_accept, accepts
  <2>2. mac_table' = learned(p, ingress_vlan(ports[p].mode, f), f)
    BY <1>2 DEF forward_accept
  <2> QED BY <2>1, <2>2 DEF learned, learn, insert
<1>3. CASE forward_drop(p, f)
  BY <1>3 DEF forward_drop
<1>4. CASE UNCHANGED vars
  BY <1>4 DEF vars
<1> QED BY <1>1, <1>2, <1>3, <1>4 DEF forward

LEMMA AgingKeeps ==
  ASSUME Inv, age_out \/ Tick
  PROVE  /\ ports' = ports
         /\ \A k \in DOMAIN mac_table' :
              k \in DOMAIN mac_table /\ mac_table'[k].port = mac_table[k].port
<1>1. CASE age_out
  BY <1>1 DEF age_out, evict_older_than, Restrict
<1>2. CASE Tick
  <2>1. \A k \in DOMAIN mac_table : mac_table[k] \in [port : PortId, age : 0 .. MaxAge]
    BY DEF Inv, CoreTypeOK, RoutesTypeOK, IsMap
  <2> QED BY <1>2, <2>1 DEF Tick, elapse
<1> QED BY <1>1, <1>2

LEMMA DeliverKeeps ==
  ASSUME Queues, NEW ds, deliver(ds), UNCHANGED tasks
  PROVE  Queues'
<1>1. DOMAIN outbox' = DOMAIN outbox
  BY DEF deliver
<1>2. ASSUME NEW p \in DOMAIN outbox PROVE IsQueue(outbox'[p])
  <2> PICK sending \in SUBSET {r \in handles \cap DOMAIN outbox :
                                  Len(outbox[r]) = OUTBOUND_QUEUE_DEPTH} :
        outbox' =
          [q \in DOMAIN outbox |->
             IF /\ q \in handles
                /\ Len(outbox[q]) < OUTBOUND_QUEUE_DEPTH \/ q \in sending
                /\ \E d \in ds : d.port = q
             THEN Append(outbox[q], (CHOOSE d \in ds : d.port = q).bytes)
             ELSE outbox[q]]
    BY DEF deliver
  <2>1. \/ outbox'[p] = outbox[p]
        \/ /\ \/ Len(outbox[p]) < OUTBOUND_QUEUE_DEPTH
              \/ Len(outbox[p]) = OUTBOUND_QUEUE_DEPTH
           /\ outbox'[p] = Append(outbox[p], (CHOOSE d \in ds : d.port = p).bytes)
    OBVIOUS
  <2>2. PICK frame : \/ outbox'[p] = outbox[p]
                     \/ /\ \/ Len(outbox[p]) < OUTBOUND_QUEUE_DEPTH
                           \/ Len(outbox[p]) = OUTBOUND_QUEUE_DEPTH
                        /\ outbox'[p] = Append(outbox[p], frame)
    BY <2>1
  <2>3. Len(outbox[p]) \in Nat /\ IsQueue(outbox[p])
    BY LenProperties DEF Queues, IsQueue
  <2>4. \/ Len(outbox[p]) < OUTBOUND_QUEUE_DEPTH
        \/ Len(outbox[p]) = OUTBOUND_QUEUE_DEPTH
        => Len(outbox[p]) <= OUTBOUND_QUEUE_DEPTH
    BY <2>3, DaemonAssumption
  <2> QED BY <2>2, <2>3, <2>4, QueueAppend
<1> QED BY <1>1, <1>2 DEF Queues, Running, IsQueue

\* Steps that leave the ports, their tasks and their events as they are.
LEMMA QuietForPorts ==
  ASSUME PortInv,
         UNCHANGED <<loop, specs, todo, dying, handles, next_id, tasks, detached, events>>,
         DOMAIN ports' = DOMAIN ports,
         \A p \in DOMAIN ports : ports'[p].mode = ports[p].mode,
         \A k \in DOMAIN mac_table' :
           k \in DOMAIN mac_table /\ mac_table'[k].port = mac_table[k].port,
         Queues'
  PROVE  Ports'
<1> USE DEF PortInv, Ports
<1>1. Queued' = Queued
  BY DEF Queued
<1>2. Places' /\ NoLeakedTasks'
  BY DEF Places, NoLeakedTasks
<1>3. IdsSpent'
  BY <1>1 DEF IdsSpent
<1>4. Served' /\ Heard'
  BY <1>1 DEF Served, Heard, Running
<1>5. RoutesHaveHandles'
  BY DEF RoutesHaveHandles
<1>6. Configured' /\ ToBeConfigured'
  <2>1. \A p \in handles : p \in DOMAIN ports
    BY DEF Served
  <2> QED BY <2>1, TopologyKept DEF spawning
<1> QED BY <1>2, <1>3, <1>4, <1>5, <1>6

LEMMA TimerSteps ==
  ASSUME PortInv,
         age_sweep \/ loop_probe \/ (Tick /\ UNCHANGED daemon) \/ UNCHANGED dvars
  PROVE  Ports'
<1> USE DEF PortInv, Ports
<1>1. CASE age_sweep \/ (Tick /\ UNCHANGED daemon)
  <2>1. age_out \/ Tick
    BY <1>1 DEF age_sweep
  <2>2. UNCHANGED daemon
    BY <1>1 DEF age_sweep
  <2>3. Queues'
    BY <2>2 DEF Queues, Running, IsQueue, daemon
  <2> QED BY <2>1, <2>2, <2>3, AgingKeeps, QuietForPorts DEF daemon, DaemonInv
<1>2. CASE loop_probe
  <2>1. Queues'
    BY <1>2, DeliverKeeps DEF loop_probe
  <2> QED BY <1>2, <2>1, QuietForPorts DEF loop_probe, vars
<1>3. CASE UNCHANGED dvars
  <2>1. Queues'
    BY <1>3 DEF Queues, Running, IsQueue, daemon, dvars
  <2> QED BY <1>3, <2>1, QuietForPorts DEF dvars, daemon, vars
<1> QED BY <1>1, <1>2, <1>3

----------------------------------------------------------------------------
\* The loop takes one event from the queue.
LEMMA HeadTaken ==
  ASSUME PortInv, handle_frame_event
  PROVE  /\ Head(events) \in Queued
         /\ Queued' \subseteq Queued /\ Queued \subseteq Queued' \cup {Head(events)}
         /\ loop = "select" /\ dying = NoPort
<1>1. events \in Seq(PortEvent) /\ events # << >> /\ events' = Tail(events)
  BY DEF PortInv, DaemonInv, CallsTypeOK, handle_frame_event, take_event
<1>2. loop = "select" /\ dying = NoPort
  BY DEF PortInv, Ports, Places, handle_frame_event, take_event
<1> QED BY <1>1, <1>2, TailElements DEF Queued

\* Down: what ran of the port is its writer at most, and no route is left.
LEMMA PortDown ==
  ASSUME PortInv, NEW e \in Queued, e.what = Down, port_down(e.port),
         Queued' \subseteq Queued, Queued \subseteq Queued' \cup {e},
         loop = "select", dying = NoPort,
         UNCHANGED <<loop, specs, todo, dying, next_id, tasks>>
  PROVE  Ports'
<1> DEFINE p == e.port
<1> USE DEF PortInv, Ports
<1>1. /\ DOMAIN ports' = DOMAIN ports \ {p}
      /\ \A q \in DOMAIN ports \ {p} : ports'[q] = ports[q]
      /\ DOMAIN mac_table' = {k \in DOMAIN mac_table : mac_table[k].port # p}
      /\ \A k \in DOMAIN mac_table' : mac_table'[k] = mac_table[k]
  BY DEF port_down, remove_port, purge_port, Restrict
<1>2. /\ handles' = handles \ {p} /\ outbox' = outbox
      /\ detached' = IF p \in handles THEN detached \cup {p} ELSE detached
  BY DEF port_down
<1>3. Places'
  BY <1>2, Typed DEF Places
<1>4. NoLeakedTasks'
  <2>1. ASSUME NEW task \in DOMAIN tasks, task[1] = p, p \in handles
        PROVE  task[2] = "writer"
    <3>1. ~Running(Reader(p))
      BY <2>1 DEF Heard
    <3>2. task = Reader(p) \/ task[2] = "writer"
      BY <2>1, Typed DEF Reader
    <3> QED BY <3>1, <3>2 DEF Running
  <2>2. ASSUME NEW task \in DOMAIN tasks
        PROVE  \/ task[1] \in handles' \cup {dying}
               \/ task[2] = "writer" /\ task[1] \in detached'
    BY <1>2, <2>1 DEF NoLeakedTasks
  <2> QED BY <2>2 DEF NoLeakedTasks
<1>5. IdsSpent'
  BY <1>1, <1>2 DEF IdsSpent
<1>6. Queues'
  BY <1>2 DEF Queues, Running, IsQueue
<1>7. Served'
  <2>1. ASSUME NEW q \in handles'
        PROVE  /\ q \in DOMAIN ports' /\ Running(Writer(q))
               /\ Running(Reader(q)) => tasks[Reader(q)] = tasks[Writer(q)]
               /\ Running(Reader(q)) \/ \E d \in Queued' : IsDown(d, q)
    <3>1. q \in handles /\ q # p
      BY <1>2
    <3>2. Running(Reader(q)) \/ \E d \in Queued : IsDown(d, q)
      BY <3>1 DEF Served
    <3>3. \A d \in Queued : IsDown(d, q) => d \in Queued'
      BY <3>1 DEF IsDown
    <3> QED BY <1>1, <3>1, <3>2, <3>3 DEF Served
  <2> QED BY <2>1 DEF Served, Running
<1>8. Heard'
  BY <1>1, <1>2 DEF Heard, Running
<1>9. RoutesHaveHandles'
  BY <1>1, <1>2 DEF RoutesHaveHandles
<1>10. Configured' /\ ToBeConfigured'
  <2>1. \A q \in handles' : q \in DOMAIN ports \ {p} /\ handles' \subseteq handles
    BY <1>2 DEF Served
  <2>2. handles' \subseteq handles
    BY <1>2
  <2> QED BY <1>1, <2>1, <2>2, TopologyKept DEF spawning
<1> QED BY <1>3, <1>4, <1>5, <1>6, <1>7, <1>8, <1>9, <1>10

\* A frame: what is learned is for a port that has a handle.
LEMMA FrameTaken ==
  ASSUME PortInv, NEW e \in Queued, e.what # Down,
         Queued' \subseteq Queued, Queued \subseteq Queued' \cup {e},
         loop = "select",
         UNCHANGED <<loop, specs, todo, dying, handles, next_id, tasks, detached>>,
         DOMAIN ports' = DOMAIN ports,
         \A q \in DOMAIN ports : ports'[q].mode = ports[q].mode,
         \A k \in DOMAIN mac_table' :
           \/ k \in DOMAIN mac_table /\ mac_table'[k].port = mac_table[k].port
           \/ e.port \in DOMAIN ports /\ mac_table'[k].port = e.port,
         Queues'
  PROVE  Ports'
<1> USE DEF PortInv, Ports
<1>1. Places' /\ NoLeakedTasks'
  BY DEF Places, NoLeakedTasks
<1>2. IdsSpent'
  BY DEF IdsSpent
<1>3. Served'
  <2>1. \A q, d : d \in Queued /\ IsDown(d, q) => d \in Queued'
    BY DEF IsDown
  <2> QED BY <2>1 DEF Served, Running
<1>4. Heard'
  BY DEF Heard, Running
<1>5. RoutesHaveHandles'
  <2>1. e.port \in DOMAIN ports => e.port \in handles
    BY DEF Heard
  <2> QED BY <2>1 DEF RoutesHaveHandles
<1>6. Configured' /\ ToBeConfigured'
  <2>1. \A q \in handles : q \in DOMAIN ports
    BY DEF Served
  <2> QED BY <2>1, TopologyKept DEF spawning
<1> QED BY <1>1, <1>2, <1>3, <1>4, <1>5, <1>6

LEMMA EventSteps ==
  ASSUME PortInv, handle_frame_event
  PROVE  Ports'
<1>1. PICK e : e = Head(events)
  OBVIOUS
<1>2. /\ e \in Queued /\ Queued' \subseteq Queued /\ Queued \subseteq Queued' \cup {e}
      /\ loop = "select" /\ dying = NoPort
  BY <1>1, HeadTaken
<1>3. e.port \in PortId /\ e \in PortEvent
  BY <1>2, Typed
<1>4. /\ IF e.what = Down THEN port_down(e.port) ELSE frame_in(e.port, e.what)
      /\ UNCHANGED <<loop, specs, todo, dying, next_id, tasks>>
  BY <1>1 DEF handle_frame_event, take_event
<1>5. CASE e.what = Down
  BY <1>2, <1>4, <1>5, PortDown
<1>6. CASE e.what # Down
  <2>1. frame_in(e.port, e.what)
    BY <1>4, <1>6
  <2>2. CASE Parses(e.what)
    <3>1. parse(e.what) \in Frames
      BY <1>3, <1>6, <2>2, DaemonAssumption DEF PortEvent
    <3>2. /\ forward(e.port, parse(e.what)) /\ deliver(deliveries(e.port, parse(e.what)))
          /\ UNCHANGED <<handles, detached>>
      BY <2>1, <2>2 DEF frame_in
    <3>3. /\ DOMAIN ports' = DOMAIN ports
          /\ \A q \in DOMAIN ports : ports'[q].mode = ports[q].mode
          /\ \A k \in DOMAIN mac_table' :
               \/ k \in DOMAIN mac_table /\ mac_table'[k].port = mac_table[k].port
               \/ e.port \in DOMAIN ports /\ mac_table'[k].port = e.port
      BY <1>3, <3>1, <3>2, ForwardKeeps DEF PortInv, DaemonInv
    <3>4. Queues'
      BY <1>4, <3>2, DeliverKeeps DEF PortInv, Ports
    <3> QED BY <1>2, <1>4, <1>6, <3>2, <3>3, <3>4, FrameTaken
  <2>3. CASE ~Parses(e.what)
    <3>1. UNCHANGED <<vars, outbox, handles, detached>>
      BY <2>1, <2>3 DEF frame_in
    <3>2. Queues'
      BY <1>4, <3>1 DEF PortInv, Ports, Queues, Running, IsQueue
    <3>3. ports' = ports /\ mac_table' = mac_table
      BY <3>1 DEF vars
    <3> QED BY <1>2, <1>4, <1>6, <3>1, <3>2, <3>3, FrameTaken
  <2> QED BY <2>2, <2>3
<1> QED BY <1>5, <1>6

----------------------------------------------------------------------------
\* The steps of the tasks
LEMMA ReaderStep ==
  ASSUME PortInv, NEW p \in PortId, reader_step(p)
  PROVE  Ports'
<1>1. PICK e : /\ e.port = p /\ e.name = tasks[Reader(p)]
               /\ events' = Append(events, e)
               /\ tasks' = IF e.what = Down
                           THEN Restrict(tasks, DOMAIN tasks \ {Reader(p)}) ELSE tasks
  BY DEF reader_step
<1>2. /\ Running(Reader(p))
      /\ UNCHANGED <<vars, loop, specs, todo, dying, handles, next_id, detached, outbox>>
  BY DEF reader_step
<1>3. Queued' = Queued \cup {e}
  <2>1. events \in Seq(PortEvent)
    BY DEF PortInv, DaemonInv, CallsTypeOK
  <2> QED BY <1>1, <2>1, AppendElements DEF Queued
<1>4. /\ DOMAIN tasks' \subseteq DOMAIN tasks /\ DOMAIN tasks \subseteq DOMAIN tasks' \cup {Reader(p)}
      /\ \A task \in DOMAIN tasks' : tasks'[task] = tasks[task]
      /\ e.what = Down => Reader(p) \notin DOMAIN tasks'
      /\ e.what # Down => tasks' = tasks
  BY <1>1 DEF Restrict
<1>5. /\ \A q : (Running(Writer(q)))' <=> Running(Writer(q))
      /\ \A q : (Running(Reader(q)))' => Running(Reader(q))
      /\ \A q : q # p => ((Running(Reader(q)))' <=> Running(Reader(q)))
      /\ \A q : Running(Writer(q)) => tasks'[Writer(q)] = tasks[Writer(q)]
  BY <1>4 DEF Running, Reader, Writer
<1> USE DEF PortInv, Ports
<1>6. p \in handles \/ p = dying
  BY <1>2 DEF NoLeakedTasks, Running, Reader
<1>7. Places' /\ NoLeakedTasks'
  BY <1>2, <1>4 DEF Places, NoLeakedTasks
<1>8. IdsSpent'
  <2>1. p < next_id
    BY <1>6, Typed DEF IdsSpent
  <2> QED BY <1>1, <1>2, <1>3, <2>1 DEF IdsSpent, vars
<1>9. Queues'
  BY <1>2, <1>5 DEF Queues, IsQueue
<1>10. Served'
  <2>1. ASSUME NEW q \in handles
        PROVE  /\ q \in DOMAIN ports' /\ (Running(Writer(q)))'
               /\ (Running(Reader(q)))' => tasks'[Reader(q)] = tasks'[Writer(q)]
               /\ (Running(Reader(q)))' \/ \E d \in Queued' : IsDown(d, q)
    <3>1. q \in DOMAIN ports' /\ (Running(Writer(q)))'
      BY <1>2, <1>5 DEF Served, vars
    <3>2. (Running(Reader(q)))' => tasks'[Reader(q)] = tasks'[Writer(q)]
      BY <1>4, <3>1 DEF Served, Running
    <3>3. CASE q = p /\ e.what = Down
      BY <1>1, <1>3, <3>1, <3>2, <3>3 DEF IsDown
    <3>4. CASE q # p \/ e.what # Down
      <4>1. (Running(Reader(q)))' <=> Running(Reader(q))
        BY <1>4, <1>5, <3>4 DEF Running
      <4> QED BY <1>3, <3>1, <3>2, <4>1 DEF Served
    <3> QED BY <3>3, <3>4
  <2> QED BY <1>2, <2>1 DEF Served
<1>11. Heard'
  <2>1. /\ e.port \in handles => e.name = tasks'[Writer(e.port)]
        /\ e.what = Down => ~(Running(Reader(e.port)))'
    BY <1>1, <1>2, <1>4, <1>5 DEF Served, Running
  <2>2. loop # "teardown" => e.port \in handles
    BY <1>1, <1>6, Typed DEF Places
  <2>3. ASSUME NEW d \in Queued
        PROVE  /\ d.port \in handles => d.name = tasks'[Writer(d.port)]
               /\ d.port \in handles /\ d.what = Down => ~(Running(Reader(d.port)))'
               /\ loop # "teardown" /\ d.port \in DOMAIN ports => d.port \in handles
    BY <1>5 DEF Heard, Served
  <2> QED BY <1>2, <1>3, <2>1, <2>2, <2>3 DEF Heard, vars
<1>12. RoutesHaveHandles'
  BY <1>2 DEF RoutesHaveHandles, vars
<1>13. Configured' /\ ToBeConfigured'
  <2>1. \A q \in handles : tasks'[Writer(q)] = tasks[Writer(q)]
    BY <1>5 DEF Served
  <2> QED BY <1>2, <2>1, TopologyKept DEF spawning, vars
<1> QED BY <1>7, <1>8, <1>9, <1>10, <1>11, <1>12, <1>13

LEMMA WriterStep ==
  ASSUME PortInv, NEW p \in PortId, writer_step(p)
  PROVE  Ports'
<1>1. /\ Running(Writer(p)) /\ outbox[p] # << >>
      /\ outbox' = [outbox EXCEPT ![p] = Tail(@)]
      /\ UNCHANGED <<vars, loop, specs, todo, dying, handles, next_id, tasks,
                     detached, events>>
  BY DEF writer_step
<1>2. p \in DOMAIN outbox /\ IsQueue(Tail(outbox[p]))
  BY <1>1, QueueTail DEF PortInv, Ports, Queues
<1>3. Queues'
  <2>1. /\ DOMAIN outbox' = DOMAIN outbox
        /\ \A q \in DOMAIN outbox : outbox'[q] = outbox[q] \/ outbox'[q] = Tail(outbox[p])
    BY <1>1
  <2>2. \A q \in DOMAIN outbox : IsQueue(outbox'[q])
    BY <1>2, <2>1 DEF PortInv, Ports, Queues
  <2> QED BY <1>1, <2>1, <2>2 DEF PortInv, Ports, Queues, Running, IsQueue
<1> QED BY <1>1, <1>3, QuietForPorts DEF vars

\* A task without a handle ends.
LEMMA TaskGone ==
  ASSUME PortInv, NEW task \in DOMAIN tasks, task[1] \notin handles,
         tasks' = Restrict(tasks, DOMAIN tasks \ {task}),
         UNCHANGED <<vars, loop, specs, todo, dying, handles, next_id, events>>,
         detached' \subseteq detached,
         \A other \in DOMAIN tasks' :
           other[2] = "writer" /\ other[1] \in detached => other[1] \in detached',
         Queues'
  PROVE  Ports'
<1>1. /\ Queued' = Queued /\ UNCHANGED <<ports, mac_table>>
      /\ DOMAIN tasks' = DOMAIN tasks \ {task}
      /\ \A other \in DOMAIN tasks' : tasks'[other] = tasks[other]
  BY DEF Queued, vars, Restrict
<1>2. \A p \in handles : /\ (Running(Reader(p)))' <=> Running(Reader(p))
                         /\ (Running(Writer(p)))' <=> Running(Writer(p))
  BY <1>1 DEF Running, Reader, Writer
<1> USE DEF PortInv, Ports
<1>3. Places' /\ NoLeakedTasks'
  BY <1>1 DEF Places, NoLeakedTasks
<1>4. IdsSpent'
  BY <1>1 DEF IdsSpent
<1>5. \A p \in handles :
        /\ tasks'[Writer(p)] = tasks[Writer(p)]
        /\ Running(Reader(p)) => tasks'[Reader(p)] = tasks[Reader(p)]
  BY <1>1, <1>2 DEF Served, Running
<1>6. Served'
  BY <1>1, <1>2, <1>5 DEF Served
<1>7. Heard'
  BY <1>1, <1>2, <1>5 DEF Heard
<1>8. RoutesHaveHandles'
  BY <1>1 DEF RoutesHaveHandles
<1>9. Configured' /\ ToBeConfigured'
  BY <1>1, <1>5, TopologyKept DEF spawning
<1> QED BY <1>3, <1>4, <1>6, <1>7, <1>8, <1>9

\* The writer takes its queue with it.
LEMMA WriterGone ==
  ASSUME PortInv, NEW p, tasks' = Restrict(tasks, DOMAIN tasks \ {Writer(p)}),
         outbox' = Restrict(outbox, DOMAIN outbox \ {p})
  PROVE  Queues'
<1>1. /\ DOMAIN outbox' = DOMAIN outbox \ {p}
      /\ \A q \in DOMAIN outbox' : outbox'[q] = outbox[q]
  BY DEF Restrict
<1>2. \A q : (Running(Writer(q)))' <=> Running(Writer(q)) /\ q # p
  BY DEF Restrict, Running, Writer
<1>3. DOMAIN outbox' = {q \in PortId : (Running(Writer(q)))'}
  BY <1>1, <1>2 DEF PortInv, Ports, Queues
<1>4. \A q \in DOMAIN outbox' : IsQueue(outbox'[q])
  BY <1>1 DEF PortInv, Ports, Queues
<1> QED BY <1>3, <1>4 DEF Queues, IsQueue

LEMMA TasksEnd ==
  ASSUME PortInv, reader_aborts \/ writer_aborts \/ \E p \in PortId : writer_ends(p)
  PROVE  Ports'
<1>1. CASE reader_aborts
  <2>1. Reader(dying) \in DOMAIN tasks /\ dying \notin handles
    BY <1>1 DEF reader_aborts, Running, PortInv, Ports, Places
  <2>2. Queues'
    <3>1. \A q : (Running(Writer(q)))' <=> Running(Writer(q))
      BY <1>1 DEF reader_aborts, Restrict, Running, Reader, Writer
    <3> QED BY <1>1, <3>1 DEF reader_aborts, PortInv, Ports, Queues, IsQueue
  <2>3. Reader(dying)[1] \notin handles
    BY <2>1 DEF Reader
  <2> QED BY <1>1, <2>1, <2>2, <2>3, TaskGone DEF reader_aborts
<1>2. CASE writer_aborts
  <2>1. Writer(dying) \in DOMAIN tasks /\ dying \notin handles
    BY <1>2 DEF writer_aborts, Running, PortInv, Ports, Places
  <2>2. Queues'
    BY <1>2, WriterGone DEF writer_aborts
  <2>3. Writer(dying)[1] \notin handles
    BY <2>1 DEF Writer
  <2> QED BY <1>2, <2>1, <2>2, <2>3, TaskGone DEF writer_aborts
<1>3. ASSUME NEW p \in PortId, writer_ends(p) PROVE Ports'
  <2>1. Writer(p) \in DOMAIN tasks /\ p \notin handles /\ detached' = detached \ {p}
    BY <1>3 DEF writer_ends, Running, PortInv, Ports, Places
  <2>2. Queues'
    BY <1>3, WriterGone DEF writer_ends
  <2>3. Writer(p)[1] \notin handles
    BY <2>1 DEF Writer
  <2>4. \A other \in DOMAIN tasks' :
          other[2] = "writer" /\ other[1] \in detached => other[1] \in detached'
    <3>1. \A other \in DOMAIN tasks' : other \in DOMAIN tasks /\ other # Writer(p)
      BY <1>3 DEF writer_ends, Restrict
    <3>2. \A other \in DOMAIN tasks : other = <<other[1], other[2]>>
      BY Typed
    <3> QED BY <2>1, <3>1, <3>2 DEF Writer
  <2>5. detached' \subseteq detached
    BY <2>1
  <2> QED BY <1>3, <2>1, <2>2, <2>3, <2>4, <2>5, TaskGone DEF writer_ends
<1> QED BY <1>1, <1>2, <1>3

----------------------------------------------------------------------------
LEMMA PortsNext == PortInv /\ [DaemonNext]_dvars => Ports'
<1> SUFFICES ASSUME PortInv, [DaemonNext]_dvars PROVE Ports'
  OBVIOUS
<1>1. CASE set_up
  BY <1>1, LoopSteps, OpenFails, NameFails, SpawnPort, TeardownPort, TornDown, NewSwitch
     DEF set_up
<1>2. CASE load_ends \/ sighup
  BY <1>2, LoopSteps DEF load_ends
<1>3. CASE handle_frame_event
  BY <1>3, EventSteps
<1>4. CASE age_sweep \/ loop_probe \/ (Tick /\ UNCHANGED daemon) \/ UNCHANGED dvars
  BY <1>4, TimerSteps
<1>5. CASE abort
  BY <1>5, TasksEnd DEF abort
<1>6. ASSUME NEW p \in PortId, task_step(p) PROVE Ports'
  BY <1>6, ReaderStep, WriterStep, TasksEnd DEF task_step
<1> QED BY <1>1, <1>2, <1>3, <1>4, <1>5, <1>6 DEF DaemonNext

LEMMA PortInvariance == DaemonSpec => []PortInv
<1>1. DaemonInit => Ports
  BY InitPorts
<1>2. DaemonInv /\ Ports /\ [DaemonNext]_dvars => Ports'
  BY PortsNext DEF PortInv
<1>3. DaemonSpec => []Ports
  BY <1>1, <1>2, DaemonInvariance, PTL DEF DaemonSpec
<1>4. DaemonInv /\ Ports => PortInv
  BY DEF PortInv
<1> QED BY <1>3, <1>4, DaemonInvariance, PTL

(***************************************************************************)
(* Every variable of the daemon keeps its type, a queue exists as long as  *)
(* its writer, and no queue grows past its depth.                          *)
(***************************************************************************)
THEOREM DaemonTypeOKHolds == DaemonSpec => []DaemonTypeOK
<1>1. PortInv => DaemonTypeOK
  BY DEF PortInv, Ports, DaemonInv, CallsTypeOK, Places, IdsSpent, Queues, IsQueue,
         DaemonTypeOK
<1> QED BY <1>1, PortInvariance, PTL

(***************************************************************************)
(* A task that runs belongs to a handle, is being torn down, or is the     *)
(* writer of a port that went down by itself, in every interleaving of the *)
(* loop, the reloads and the tasks.                                        *)
(***************************************************************************)
THEOREM NoLeakedTasksHolds == DaemonSpec => []NoLeakedTasks
<1>1. PortInv => NoLeakedTasks
  BY DEF PortInv, Ports
<1> QED BY <1>1, PortInvariance, PTL

(***************************************************************************)
(* There is no zombie port: a handle's port is known to the switch, its    *)
(* writer runs, and its reader runs or its Down is queued.                 *)
(***************************************************************************)
THEOREM HandlesAreServedHolds == DaemonSpec => []HandlesAreServed
<1>1. PortInv => HandlesAreServed
  BY DEF PortInv, Ports, Served, Queued, HandlesAreServed, DownQueued
<1> QED BY <1>1, PortInvariance, PTL

(***************************************************************************)
(* Except while a reload takes the ports down, a learned route leads to a  *)
(* port that has a handle, which deliver can send to.                      *)
(***************************************************************************)
THEOREM RoutesHaveHandlesHolds == DaemonSpec => []RoutesHaveHandles
<1>1. PortInv => RoutesHaveHandles
  BY DEF PortInv, Ports
<1> QED BY <1>1, PortInvariance, PTL

(***************************************************************************)
(* Ids are never given out twice, so an event that is taken for one of a   *)
(* port that runs came from that port's device.                            *)
(***************************************************************************)
THEOREM EventsAttributedHolds == DaemonSpec => []EventsAttributed
<1>1. PortInv => EventsAttributed
  BY DEF PortInv, Ports, Heard, Served, Queued, EventsAttributed
<1> QED BY <1>1, PortInvariance, PTL

(***************************************************************************)
(* The ports that run are ports of the configured topology, in their       *)
(* configured modes, each on a device of its own.                          *)
(***************************************************************************)
THEOREM TopologyRespectedHolds == DaemonSpec => []TopologyRespected
<1>1. PortInv => TopologyRespected
  <2> SUFFICES ASSUME PortInv, loop # "teardown" PROVE TopologyRespected
    BY DEF TopologyRespected
  <2>1. /\ \A p \in handles : \E s \in Specified :
             s.name = tasks[Writer(p)] /\ s.mode = ports[p].mode
        /\ \A p, q \in handles : tasks[Writer(p)] = tasks[Writer(q)] => p = q
    BY DEF PortInv, Ports, Configured
  <2>2. ASSUME NEW p \in handles
        PROVE  \E i \in DOMAIN specs : /\ specs[i].name = tasks[Writer(p)]
                                       /\ specs[i].mode = ports[p].mode
    BY <2>1 DEF Specified
  <2> QED BY <2>1, <2>2 DEF TopologyRespected
<1> QED BY <1>1, PortInvariance, PTL

----------------------------------------------------------------------------
(***************************************************************************)
(* Isolation from device to device.                                        *)
(***************************************************************************)
Grows(p) == p \in DOMAIN outbox /\ p \in DOMAIN outbox' /\ Len(outbox'[p]) > Len(outbox[p])

LEMMA QueueLengths ==
  ASSUME PortInv, NEW p \in DOMAIN outbox
  PROVE  /\ Len(outbox[p]) \in Nat
         /\ outbox[p] # << >> => Len(Tail(outbox[p])) = Len(outbox[p]) - 1
<1>1. IsQueue(outbox[p])
  BY DEF PortInv, Ports, Queues
<1> QED BY <1>1, TailElements, LenProperties DEF IsQueue

\* Only the loop puts a frame into a queue: deliver is its one way to a port.
LEMMA OnlyLoopSends ==
  ASSUME PortInv, [DaemonNext]_dvars, NEW p, Grows(p)
  PROVE  loop_probe \/ handle_frame_event
<1>1. Len(outbox[p]) \in Nat /\ p \in DOMAIN outbox /\ Len(outbox'[p]) > Len(outbox[p])
  BY QueueLengths DEF Grows
<1>2. outbox'[p] # outbox[p]
  BY <1>1
<1>3. ASSUME spawn_port PROVE FALSE
  <2>1. PICK q \in PortId : next(q) /\ outbox' = insert(outbox, q, << >>)
    BY <1>3 DEF spawn_port
  <2>2. q \notin DOMAIN outbox
    BY <2>1, NextId DEF PortInv, Ports, Queues
  <2> QED BY <1>1, <1>2, <2>1, <2>2 DEF insert
<1>4. ASSUME NEW q \in PortId, writer_step(q) PROVE FALSE
  <2>1. outbox' = [outbox EXCEPT ![q] = Tail(@)] /\ outbox[q] # << >>
    BY <1>4 DEF writer_step
  <2>2. q = p /\ outbox'[p] = Tail(outbox[p])
    BY <1>1, <1>2, <2>1
  <2>3. Len(Tail(outbox[p])) = Len(outbox[p]) - 1
    BY <1>1, <2>1, <2>2, QueueLengths
  <2> QED BY <1>1, <2>2, <2>3
<1>5. ASSUME NEW q, outbox' = Restrict(outbox, DOMAIN outbox \ {q}) PROVE FALSE
  BY <1>2, <1>5 DEF Grows, Restrict
<1>6. ASSUME UNCHANGED outbox PROVE FALSE
  BY <1>2, <1>6
<1>7. CASE set_up
  BY <1>3, <1>6, <1>7 DEF set_up, open_fails, name_fails, no_more_ids, all_spawned,
     set_up_fails, teardown_port, torn_down, new_switch
<1>8. CASE load_ends \/ age_sweep \/ sighup \/ UNCHANGED daemon
  BY <1>6, <1>8 DEF load_ends, load_fails, load_succeeds, age_sweep, sighup, daemon
<1>9. CASE abort
  BY <1>5, <1>6, <1>9 DEF abort, reader_aborts, writer_aborts
<1>10. ASSUME NEW q \in PortId, task_step(q) PROVE FALSE
  BY <1>4, <1>5, <1>6, <1>10 DEF task_step, reader_step, writer_ends
<1>11. CASE UNCHANGED dvars
  BY <1>6, <1>11 DEF dvars, daemon
<1> QED BY <1>7, <1>8, <1>9, <1>10, <1>11 DEF DaemonNext

\* What is put into a queue is the frame of a delivery for that port.
LEMMA QueuedDelivery ==
  ASSUME PortInv, NEW ds, deliver(ds), NEW p, Grows(p)
  PROVE  p \in handles /\ \E d \in ds : d.port = p /\ outbox'[p][Len(outbox'[p])] = d.bytes
<1>1. Len(outbox[p]) \in Nat /\ outbox'[p] # outbox[p] /\ IsQueue(outbox[p])
  BY QueueLengths DEF Grows, PortInv, Ports, Queues
<1>2. PICK d : /\ p \in handles /\ d \in ds /\ d.port = p
               /\ outbox'[p] = Append(outbox[p], d.bytes)
  <2> PICK sending \in SUBSET {r \in handles \cap DOMAIN outbox :
                                  Len(outbox[r]) = OUTBOUND_QUEUE_DEPTH} :
        outbox' =
          [q \in DOMAIN outbox |->
             IF /\ q \in handles
                /\ Len(outbox[q]) < OUTBOUND_QUEUE_DEPTH \/ q \in sending
                /\ \E d \in ds : d.port = q
             THEN Append(outbox[q], (CHOOSE d \in ds : d.port = q).bytes)
             ELSE outbox[q]]
    BY DEF deliver
  <2>1. /\ p \in handles /\ \E d \in ds : d.port = p
        /\ outbox'[p] = Append(outbox[p], (CHOOSE d \in ds : d.port = p).bytes)
    BY <1>1 DEF Grows
  <2> QED BY <2>1
<1>3. outbox'[p][Len(outbox'[p])] = d.bytes
  <2> DEFINE S == {outbox[p][i] : i \in DOMAIN outbox[p]} \cup {d.bytes}
  <2>1. outbox[p] \in Seq(S)
    BY <1>1, SeqMonotonic DEF IsQueue
  <2> HIDE DEF S
  <2>2. /\ Len(Append(outbox[p], d.bytes)) = Len(outbox[p]) + 1
        /\ Append(outbox[p], d.bytes)[Len(outbox[p]) + 1] = d.bytes
    BY <2>1, AppendProperties DEF S
  <2> QED BY <1>2, <2>2
<1> QED BY <1>2, <1>3

\* A delivery of a frame that the loop has taken from the queue.
LEMMA Crossing ==
  ASSUME PortInv, loop = "select", NEW e \in Queued, e.what # Down, Parses(e.what),
         NEW d \in deliveries(e.port, parse(e.what)), d.port \in handles
  PROVE  Crosses(e, tasks[Writer(d.port)], d.bytes)
<1> DEFINE frame == parse(e.what)
           vlan == ingress_vlan(ports[e.port].mode, frame)
           copy == parse(d.bytes)
<1>1. e.port \in PortId /\ frame \in Frames
  <2>1. events \in Seq(PortEvent)
    BY DEF PortInv, DaemonInv, CallsTypeOK
  <2>2. e \in PortEvent
    BY <2>1 DEF Queued
  <2> QED BY <2>2, DaemonAssumption DEF PortEvent
<1>2. /\ d.port \in DOMAIN ports \ {e.port}
      /\ carries(ports[e.port].mode, vlan) /\ carries(ports[d.port].mode, vlan)
  BY <1>1, Isolation DEF PortInv, DaemonInv, VlanIsolation
<1>3. /\ Parses(d.bytes) /\ ingress_vlan(ports[d.port].mode, copy) = vlan
      /\ [copy EXCEPT !.tag = frame.tag] = frame
  BY <1>1, Fidelity DEF PortInv, DaemonInv, PeerReadsSameFrame
<1>4. e.port \in DOMAIN ports /\ vlan # NoVlan
  <2>1. d.port \in targets(e.port, frame)
    BY DEF deliveries, encode_for_egress
  <2> QED BY <2>1 DEF targets, accepts
<1>5. e.port \in handles /\ e.name = tasks[Writer(e.port)]
  BY <1>4 DEF PortInv, Ports, Heard
<1> HIDE DEF frame, copy
<1>6. PICK s \in Specified, t \in Specified :
        /\ s.name = tasks[Writer(e.port)] /\ s.mode = ports[e.port].mode
        /\ t.name = tasks[Writer(d.port)] /\ t.mode = ports[d.port].mode
  BY <1>5 DEF PortInv, Ports, Configured
<1>7. s.name # t.name
  BY <1>2, <1>5, <1>6 DEF PortInv, Ports, Configured
<1>8. PICK i \in DOMAIN specs, j \in DOMAIN specs : s = specs[i] /\ t = specs[j]
  BY DEF Specified
<1>9. i # j
  BY <1>7, <1>8
<1>10. /\ specs[i].name = e.name /\ specs[j].name = tasks[Writer(d.port)]
       /\ vlan = ingress_vlan(specs[i].mode, frame)
       /\ carries(specs[i].mode, vlan) /\ carries(specs[j].mode, vlan)
       /\ ingress_vlan(specs[j].mode, copy) = vlan
  BY <1>2, <1>3, <1>5, <1>6, <1>8
<1> HIDE DEF vlan
<1> QED BY <1>3, <1>4, <1>9, <1>10 DEF Crosses, frame, copy

(***************************************************************************)
(* VLANs are isolated from device to device: what is queued for a device   *)
(* was read from another one, both carry its VLAN in the configuration in  *)
(* force, and it is read there as it came in.  Ids that are never reused   *)
(* keep a late frame of an earlier port from being taken for another's.    *)
(***************************************************************************)
THEOREM DevicesIsolatedHolds == DaemonSpec => DevicesIsolated
<1> DEFINE wire(p) == outbox'[p][Len(outbox'[p])]
           own(p) == wire(p) = build_probe(probe_id)
           heard(p) == /\ events # << >> /\ events' = Tail(events)
                       /\ Head(events).what # Down
                       /\ Crosses(Head(events), tasks[Writer(p)], wire(p))
<1>1. ASSUME PortInv, [DaemonNext]_dvars, NEW p, Grows(p) PROVE own(p) \/ heard(p)
  <2>1. CASE loop_probe
    <3>1. PICK d \in {[port |-> q, bytes |-> build_probe(probe_id)] : q \in handles} :
            wire(p) = d.bytes
      BY <1>1, <2>1, QueuedDelivery DEF loop_probe
    <3> QED BY <3>1
  <2>2. CASE handle_frame_event
    <3>1. PICK e : e = Head(events)
      OBVIOUS
    <3>2. e \in Queued /\ loop = "select" /\ events # << >> /\ events' = Tail(events)
      BY <1>1, <2>2, <3>1, HeadTaken DEF handle_frame_event, take_event
    <3>3. e.what # Down /\ Parses(e.what) /\ deliver(deliveries(e.port, parse(e.what)))
      <4>1. outbox' # outbox
        BY <1>1, QueueLengths DEF Grows
      <4> QED BY <2>2, <3>1, <4>1 DEF handle_frame_event, take_event, port_down, frame_in
    <3>4. PICK d \in deliveries(e.port, parse(e.what)) :
            d.port = p /\ p \in handles /\ wire(p) = d.bytes
      BY <1>1, <3>3, QueuedDelivery
    <3>5. Crosses(e, tasks[Writer(p)], wire(p))
      BY <1>1, <3>2, <3>3, <3>4, Crossing
    <3> QED BY <3>1, <3>2, <3>3, <3>5
  <2> QED BY <1>1, <2>1, <2>2, OnlyLoopSends
<1>2. PortInv /\ [DaemonNext]_dvars
      => [\A p \in DOMAIN outbox \cap DOMAIN outbox' :
            Len(outbox'[p]) > Len(outbox[p]) =>
              LET out == outbox'[p][Len(outbox'[p])]
              IN  \/ out = build_probe(probe_id)
                  \/ /\ events # << >> /\ events' = Tail(events)
                     /\ Head(events).what # Down
                     /\ Crosses(Head(events), tasks[Writer(p)], out)]_dvars
  <2> SUFFICES ASSUME PortInv, [DaemonNext]_dvars, NEW p, Grows(p)
               PROVE  own(p) \/ heard(p)
    BY DEF Grows
  <2> HIDE DEF own, heard
  <2> QED BY <1>1
<1> QED BY <1>2, PortInvariance, PTL DEF DaemonSpec, DevicesIsolated

----------------------------------------------------------------------------
(***************************************************************************)
(* Blocked ports.  What was queued for a port before it was blocked still  *)
(* goes out; nothing but probes joins it.                                  *)
(***************************************************************************)

\* The loop takes a Down of this port from the queue.
Excised(p) == handle_frame_event /\ IsDown(Head(events), p)

\* No call but a removal or a new switch takes a block away from a port.
LEMMA BlockKept ==
  ASSUME PortInv, [DaemonNext]_dvars, NEW p \in DOMAIN ports, ports[p].blocked
  PROVE  \/ p \in DOMAIN ports' /\ ports'[p].blocked
         \/ Excised(p) \/ new_switch
<1> DEFINE Stays == p \in DOMAIN ports' /\ ports'[p].blocked
<1>1. ASSUME UNCHANGED ports PROVE Stays
  BY <1>1
<1>2. CASE set_up
  <2>1. ASSUME NEW q \in PortId, next(q), add_port(q, Head(todo).mode) PROVE Stays
    <3>1. DOMAIN ports' = DOMAIN ports \cup {q} /\ ports'[p] = ports[p]
      BY <2>1, AddedPort
    <3> QED BY <3>1
  <2>2. CASE spawn_port \/ name_fails
    BY <2>1, <2>2 DEF spawn_port, name_fails
  <2>3. CASE \/ open_fails \/ no_more_ids \/ all_spawned \/ set_up_fails
             \/ teardown_port \/ torn_down
    BY <1>1, <2>3 DEF open_fails, no_more_ids, all_spawned, set_up_fails,
       teardown_port, torn_down, vars
  <2> QED BY <1>2, <2>2, <2>3 DEF set_up
<1>3. CASE handle_frame_event
  <2>1. PICK e : e = Head(events)
    OBVIOUS
  <2>2. e \in PortEvent /\ e.port \in PortId
    BY <1>3, <2>1, HeadTaken, Typed
  <2>3. CASE e.what = Down
    <3>1. remove_port(e.port)
      BY <1>3, <2>1, <2>3 DEF handle_frame_event, take_event, port_down
    <3>2. p # e.port => Stays
      BY <3>1 DEF remove_port, Restrict
    <3> QED BY <1>3, <2>1, <2>3, <3>2 DEF Excised, IsDown
  <2>4. CASE e.what # Down /\ Parses(e.what)
    <3>1. forward(e.port, parse(e.what)) /\ parse(e.what) \in Frames
      BY <1>3, <2>1, <2>2, <2>4, DaemonAssumption
         DEF handle_frame_event, take_event, frame_in, PortEvent
    <3>2. CASE block_port(e.port)
      <4>1. set_blocked(e.port, TRUE) /\ PortsTypeOK
        BY <3>2 DEF block_port, PortInv, DaemonInv, Inv, CoreTypeOK
      <4>2. /\ DOMAIN ports' = DOMAIN ports
            /\ \A q \in DOMAIN ports : /\ q # e.port => ports'[q] = ports[q]
                                       /\ q = e.port => ports'[q].blocked = TRUE
        BY <4>1, SetBlocked
      <4> QED BY <4>2
    <3>3. ~block_port(e.port) => UNCHANGED ports
      BY <3>1 DEF forward, handle_loop_probe, forward_drop, forward_accept, vars
    <3> QED BY <1>1, <3>2, <3>3
  <2>5. CASE e.what # Down /\ ~Parses(e.what)
    BY <1>1, <1>3, <2>1, <2>5 DEF handle_frame_event, take_event, frame_in, vars
  <2> QED BY <2>3, <2>4, <2>5
<1>4. CASE \/ load_ends \/ sighup \/ age_sweep \/ loop_probe \/ abort
           \/ Tick \/ UNCHANGED dvars
  BY <1>1, <1>4 DEF load_ends, load_fails, load_succeeds, sighup, age_sweep, age_out,
     loop_probe, abort, reader_aborts, writer_aborts, Tick, dvars, vars
<1>5. ASSUME NEW q \in PortId, task_step(q) PROVE Stays
  BY <1>1, <1>5 DEF task_step, reader_step, writer_step, writer_ends, vars
<1> QED BY <1>2, <1>3, <1>4, <1>5 DEF DaemonNext

\* forward returns no delivery for a blocked port, and none of what came in on
\* one.
LEMMA BlockedGetsNothing ==
  ASSUME NEW p \in DOMAIN ports, ports[p].blocked, NEW f
  PROVE  /\ deliveries(p, f) = {}
         /\ \A r : \A d \in deliveries(r, f) : d.port # p
<1>1. targets(p, f) = {}
  BY DEF targets, accepts
<1>2. ASSUME NEW r PROVE p \notin targets(r, f)
  BY DEF targets, encodable
<1> QED BY <1>1, <1>2 DEF deliveries, encode_for_egress

\* The block outlives every step but a Down of the port and a reload.
BlockedStays(p) ==
  \/ p \in DOMAIN ports' /\ ports'[p].blocked
  \/ Excised(p)
  \/ new_switch

\* All that is put into the port's queue is a probe, and a frame that came in
\* on it is put into no queue.
Silenced(p) ==
  /\ Grows(p) => outbox'[p][Len(outbox'[p])] = build_probe(probe_id)
  /\ handle_frame_event /\ Head(events).port = p => \A q \in PortId : ~Grows(q)

LEMMA BlockedIsSilenced ==
  ASSUME PortInv, [DaemonNext]_dvars, NEW p \in DOMAIN ports, ports[p].blocked
  PROVE  Silenced(p)
<1> DEFINE last(q) == outbox'[q][Len(outbox'[q])]
<1>1. ASSUME handle_frame_event, NEW q, Grows(q)
      PROVE  Head(events).port # p /\ q # p
  <2>1. PICK e : e = Head(events)
    OBVIOUS
  <2>2. outbox' # outbox
    BY <1>1, QueueLengths DEF Grows
  <2>3. deliver(deliveries(e.port, parse(e.what)))
    BY <1>1, <2>1, <2>2 DEF handle_frame_event, take_event, port_down, frame_in
  <2>4. PICK d \in deliveries(e.port, parse(e.what)) : d.port = q
    BY <1>1, <2>3, QueuedDelivery
  <2>5. q # p
    BY <2>4, BlockedGetsNothing
  <2>6. e.port # p
    BY <2>4, BlockedGetsNothing
  <2> QED BY <2>1, <2>5, <2>6
<1>2. ASSUME Grows(p) PROVE last(p) = build_probe(probe_id)
  <2>1. loop_probe
    BY <1>1, <1>2, OnlyLoopSends
  <2>2. PICK d \in {[port |-> q, bytes |-> build_probe(probe_id)] : q \in handles} :
          last(p) = d.bytes
    BY <1>2, <2>1, QueuedDelivery DEF loop_probe
  <2> QED BY <2>2
<1> QED BY <1>1, <1>2 DEF Silenced

(***************************************************************************)
(* What the loop guard promises of a port it has blocked, and keeps: it    *)
(* stays blocked until the port itself goes down or a reload builds a new  *)
(* switch (no step of the daemon calls unblock_port), no frame that came   *)
(* in on it is forwarded, and nothing but the daemon's probes is put into  *)
(* its queue.  So what BlockedPortIsSilent finds leaving by a blocked port *)
(* was queued before: a full queue of it and the frame then being sent.    *)
(***************************************************************************)
THEOREM BlockedUntilReload ==
  DaemonSpec =>
    [][\A p \in DOMAIN ports : ports[p].blocked => BlockedStays(p) /\ Silenced(p)]_dvars
<1>1. PortInv /\ [DaemonNext]_dvars
      => [\A p \in DOMAIN ports :
            ports[p].blocked => BlockedStays(p) /\ Silenced(p)]_dvars
  BY BlockKept, BlockedIsSilenced DEF BlockedStays
<1> QED BY <1>1, PortInvariance, PTL DEF DaemonSpec

----------------------------------------------------------------------------
(***************************************************************************)
(* A reload gets nearer to its end with each of its own steps.             *)
(***************************************************************************)
StillRuns(task) == IF Running(task) THEN 1 ELSE 0

\* A port being torn down takes up to two tasks that end and the await of them.
DyingLeft == IF dying = NoPort THEN 0
             ELSE 1 + StillRuns(Reader(dying)) + StillRuns(Writer(dying))

\* The steps that teardown has still to take, at most.
TeardownLeft == 4 * Cardinality(handles) + DyingLeft

LEMMA LeftIsNat ==
  ASSUME PortInv
  PROVE  /\ IsFiniteSet(handles) /\ Cardinality(handles) \in Nat
         /\ DyingLeft \in 0 .. 3 /\ TeardownLeft \in Nat
<1>1. IsFiniteSet(handles)
  <2>1. handles \subseteq 0 .. IdLimit - 1 /\ IdLimit \in Nat
    BY Typed DEF PortInv, Ports, Places
  <2>2. IsFiniteSet(0 .. IdLimit - 1)
    BY <2>1, FS_Interval
  <2> QED BY <2>1, <2>2, FS_Subset
<1>2. Cardinality(handles) \in Nat
  BY <1>1, FS_CardinalityType
<1>3. DyingLeft \in 0 .. 3
  BY DEF DyingLeft, StillRuns
<1> QED BY <1>1, <1>2, <1>3 DEF TeardownLeft

\* A task that is not started again is not counted again.
LEMMA LeftFalls ==
  ASSUME PortInv, UNCHANGED <<dying, handles>>, DOMAIN tasks' \subseteq DOMAIN tasks
  PROVE  TeardownLeft' \in 0 .. TeardownLeft
<1>1. DyingLeft' \in 0 .. DyingLeft
  BY DEF DyingLeft, StillRuns, Running, Reader, Writer
<1>2. Cardinality(handles)' = Cardinality(handles) /\ Cardinality(handles) \in Nat
      /\ DyingLeft \in 0 .. 3
  BY LeftIsNat
<1> QED BY <1>1, <1>2 DEF TeardownLeft

LEMMA TeardownAdvances ==
  ASSUME PortInv, loop = "teardown", teardown_port \/ torn_down \/ abort
  PROVE  TeardownLeft' < TeardownLeft /\ TeardownLeft' \in Nat
<1>1. Cardinality(handles) \in Nat /\ IsFiniteSet(handles)
  BY LeftIsNat
<1>2. CASE teardown_port
  <2>1. PICK p \in handles : dying' = p /\ handles' = handles \ {p}
    BY <1>2 DEF teardown_port
  <2>2. Cardinality(handles') = Cardinality(handles) - 1 /\ Cardinality(handles') \in Nat
    BY <1>1, <2>1, FS_RemoveElement, FS_CardinalityType
  <2>3. DyingLeft = 0 /\ DyingLeft' \in 0 .. 3
    BY <1>2 DEF teardown_port, DyingLeft, StillRuns
  <2> QED BY <1>1, <2>2, <2>3 DEF TeardownLeft
<1>3. CASE torn_down
  <2>1. DyingLeft = 1 /\ DyingLeft' = 0 /\ handles' = handles
    BY <1>3 DEF torn_down, DyingLeft, StillRuns
  <2> QED BY <1>1, <2>1 DEF TeardownLeft
<1>4. CASE abort
  <2>1. PICK task \in {Reader(dying), Writer(dying)} :
          /\ Running(task) /\ tasks' = Restrict(tasks, DOMAIN tasks \ {task})
          /\ UNCHANGED <<dying, handles>>
    BY <1>4 DEF abort, reader_aborts, writer_aborts
  <2>2. task[1] \in PortId
    BY <2>1, Typed DEF Running
  <2>3. dying # NoPort
    BY <2>1, <2>2, Typed DEF Reader, Writer
  <2>4. DOMAIN tasks' = DOMAIN tasks \ {task}
    BY <2>1 DEF Restrict
  <2>5. DyingLeft' = DyingLeft - 1 /\ DyingLeft \in 0 .. 3 /\ DyingLeft' \in 0 .. 3
    BY <2>1, <2>3, <2>4 DEF DyingLeft, StillRuns, Running, Reader, Writer
  <2> QED BY <1>1, <2>1, <2>5 DEF TeardownLeft
<1> QED BY <1>2, <1>3, <1>4

\* What the other tasks do meanwhile starts nothing.
LEMMA NothingRestarts ==
  ASSUME PortInv, [DaemonNext]_dvars, ~set_up, ~load_ends, ~handle_frame_event
  PROVE  /\ UNCHANGED <<dying, handles, todo>> /\ DOMAIN tasks' \subseteq DOMAIN tasks
         /\ loop' = loop \/ sighup
<1>1. CASE age_sweep \/ loop_probe \/ sighup \/ UNCHANGED daemon \/ UNCHANGED dvars
  BY <1>1 DEF age_sweep, loop_probe, sighup, daemon, dvars
<1>2. CASE abort
  BY <1>2 DEF abort, reader_aborts, writer_aborts, Restrict
<1>3. ASSUME NEW p \in PortId, task_step(p)
      PROVE  /\ UNCHANGED <<loop, dying, handles, todo>>
             /\ DOMAIN tasks' \subseteq DOMAIN tasks
  BY <1>3 DEF task_step, reader_step, writer_step, writer_ends, Restrict
<1> QED BY <1>1, <1>2, <1>3 DEF DaemonNext

\* Teardown goes on until the switch is replaced; nothing prolongs it.
TeardownProgress ==
  loop = "teardown" =>
    \/ /\ loop' = "teardown" /\ TeardownLeft' \in 0 .. TeardownLeft
       /\ set_up \/ abort => TeardownLeft' < TeardownLeft
    \/ new_switch /\ TeardownLeft = 0

\* Rebuilding takes one step for each spec, and one to get back to select!.
RebuildProgress ==
  loop = "rebuild" =>
    \/ /\ loop' = "rebuild" /\ Len(todo') \in 0 .. Len(todo)
       /\ set_up => Len(todo') < Len(todo)
    \/ loop' = "select" /\ set_up

LEMMA TeardownSteps ==
  ASSUME PortInv, [DaemonNext]_dvars
  PROVE  TeardownProgress
<1> SUFFICES ASSUME loop = "teardown"
             PROVE  \/ /\ loop' = "teardown" /\ TeardownLeft' \in 0 .. TeardownLeft
                       /\ set_up \/ abort => TeardownLeft' < TeardownLeft
                    \/ new_switch /\ TeardownLeft = 0
  BY DEF TeardownProgress
<1>1. TeardownLeft \in Nat
  BY LeftIsNat
<1>2. ~load_ends /\ ~handle_frame_event /\ ~sighup
  BY DEF load_ends, load_fails, load_succeeds, handle_frame_event, take_event, sighup
<1>3. CASE new_switch
  <2>1. dying = NoPort /\ Cardinality(handles) = 0
    BY <1>3, FS_EmptySet DEF new_switch
  <2> QED BY <1>3, <2>1 DEF TeardownLeft, DyingLeft
<1>4. CASE set_up /\ ~new_switch
  <2>1. teardown_port \/ torn_down
    BY <1>4 DEF set_up, spawn_port, open_fails, name_fails, no_more_ids, all_spawned,
       set_up_fails, spawning
  <2>2. loop' = "teardown"
    BY <2>1 DEF teardown_port, torn_down
  <2> QED BY <1>1, <2>1, <2>2, TeardownAdvances
<1>5. CASE ~set_up
  <2>1. loop' = "teardown" /\ TeardownLeft' \in 0 .. TeardownLeft
    BY <1>2, <1>5, NothingRestarts, LeftFalls
  <2> QED BY <1>5, <2>1, TeardownAdvances
<1> QED BY <1>3, <1>4, <1>5

LEMMA RebuildSteps ==
  ASSUME PortInv, [DaemonNext]_dvars
  PROVE  RebuildProgress
<1> SUFFICES ASSUME loop = "rebuild"
             PROVE  \/ /\ loop' = "rebuild" /\ Len(todo') \in 0 .. Len(todo)
                       /\ set_up => Len(todo') < Len(todo)
                    \/ loop' = "select" /\ set_up
  BY DEF RebuildProgress
<1>1. todo \in Seq(PortSpec) /\ Len(todo) \in Nat
  BY LenProperties DEF PortInv, DaemonInv, CallsTypeOK
<1>2. ~load_ends /\ ~handle_frame_event /\ ~sighup
  BY DEF load_ends, load_fails, load_succeeds, handle_frame_event, take_event, sighup
<1>3. CASE no_more_ids \/ all_spawned
  BY <1>3 DEF no_more_ids, all_spawned, set_up
<1>4. CASE spawn_port \/ open_fails \/ name_fails
  <2>1. loop' = "rebuild" /\ take_spec
    BY <1>4 DEF spawn_port, open_fails, name_fails, after_error
  <2>2. Len(todo') = Len(todo) - 1 /\ Len(todo') \in Nat
    BY <1>1, <2>1, HeadTailProperties, EmptySeq, LenProperties DEF take_spec
  <2> QED BY <1>1, <2>1, <2>2
<1>5. CASE ~set_up
  <2>1. loop' = "rebuild" /\ todo' = todo
    BY <1>2, <1>5, NothingRestarts
  <2> QED BY <1>1, <1>5, <2>1
<1>6. ~set_up_fails /\ ~teardown_port /\ ~torn_down /\ ~new_switch
  BY DEF set_up_fails, teardown_port, torn_down, new_switch, PortInv, Ports, Places
<1> QED BY <1>3, <1>4, <1>5, <1>6 DEF set_up

(***************************************************************************)
(* What ReloadEnds rests on, without the fairness: from the moment the new *)
(* file is read, a reload has at most four steps left for each handle and  *)
(* one for each spec, and two more; each step of its own takes one off,    *)
(* and nothing that readers, writers or the clock do meanwhile puts one    *)
(* back.                                                                   *)
(***************************************************************************)
THEOREM ReloadGetsNearerItsEnd ==
  DaemonSpec => [][TeardownProgress /\ RebuildProgress]_dvars
<1>1. PortInv /\ [DaemonNext]_dvars => [TeardownProgress /\ RebuildProgress]_dvars
  BY TeardownSteps, RebuildSteps
<1> QED BY <1>1, PortInvariance, PTL DEF DaemonSpec

----------------------------------------------------------------------------
(***************************************************************************)
(* The end of a port: its Down comes nearer to the loop, its id is never   *)
(* seen again, and its writer has only what is queued left to do.          *)
(***************************************************************************)
LEMMA EventsMove ==
  ASSUME PortInv, [DaemonNext]_dvars, ~handle_frame_event,
         NEW i \in DOMAIN events
  PROVE  i \in DOMAIN events' /\ events'[i] = events[i]
<1>1. ASSUME NEW p \in PortId, reader_step(p)
      PROVE  i \in DOMAIN events' /\ events'[i] = events[i]
  <2>1. PICK e : events' = Append(events, e) /\ events' \in Seq(PortEvent)
    <3>1. PICK e : events' = Append(events, e)
      BY <1>1 DEF reader_step
    <3>2. events' \in Seq(PortEvent)
      BY CallsTypeNext DEF PortInv, DaemonInv, CallsTypeOK
    <3> QED BY <3>1, <3>2
  <2>2. events \in Seq(PortEvent)
    BY DEF PortInv, DaemonInv, CallsTypeOK
  <2> DEFINE S == PortEvent \cup {e}
  <2>3. events \in Seq(S) /\ e \in S
    BY <2>2, SeqMonotonic
  <2> HIDE DEF S
  <2>4. /\ Len(Append(events, e)) = Len(events) + 1
        /\ \A j \in 1 .. Len(events) : Append(events, e)[j] = events[j]
    BY <2>3, AppendProperties
  <2>5. DOMAIN events = 1 .. Len(events) /\ DOMAIN events' = 1 .. Len(events')
        /\ Len(events) \in Nat
    BY <2>1, <2>2, LenProperties
  <2> QED BY <2>1, <2>4, <2>5
<1>2. ASSUME UNCHANGED events
      PROVE  i \in DOMAIN events' /\ events'[i] = events[i]
  BY <1>2
<1>3. CASE set_up
  BY <1>2, <1>3 DEF set_up, spawn_port, open_fails, name_fails, no_more_ids, all_spawned,
     set_up_fails, teardown_port, torn_down, new_switch
<1>4. CASE load_ends \/ age_sweep \/ loop_probe \/ sighup \/ UNCHANGED daemon
  BY <1>2, <1>4 DEF load_ends, load_fails, load_succeeds, age_sweep, loop_probe, sighup, daemon
<1>5. CASE abort
  BY <1>2, <1>5 DEF abort, reader_aborts, writer_aborts
<1>6. ASSUME NEW p \in PortId, task_step(p)
      PROVE  i \in DOMAIN events' /\ events'[i] = events[i]
  BY <1>1, <1>2, <1>6 DEF task_step, writer_step, writer_ends
<1> QED BY <1>2, <1>3, <1>4, <1>5, <1>6 DEF DaemonNext, dvars, daemon

\* The event has the same place, or is one place nearer, or is being taken.
StaysOrMovesUp(i) ==
  IF ~handle_frame_event THEN i \in DOMAIN events' /\ events'[i] = events[i]
  ELSE i > 1 => i - 1 \in DOMAIN events' /\ events'[i - 1] = events[i]

LEMMA EventPlaces ==
  ASSUME PortInv, [DaemonNext]_dvars, NEW i \in DOMAIN events
  PROVE  /\ StaysOrMovesUp(i)
         /\ ~(i > 1) => i = 1 /\ Head(events) = events[i]
<1>1. /\ events \in Seq(PortEvent) /\ DOMAIN events = 1 .. Len(events)
      /\ Len(events) \in Nat
  BY LenProperties DEF PortInv, DaemonInv, CallsTypeOK
<1>2. i \in Nat \ {0} /\ events # << >> /\ Head(events) = events[1]
  BY <1>1, HeadTailProperties, EmptySeq
<1>3. ASSUME handle_frame_event, i > 1
      PROVE  i - 1 \in DOMAIN events' /\ events'[i - 1] = events[i]
  <2>1. events' = Tail(events)
    BY <1>3 DEF handle_frame_event, take_event
  <2>2. /\ Len(events') = Len(events) - 1 /\ DOMAIN events' = 1 .. Len(events')
        /\ \A j \in 1 .. Len(events') : events'[j] = events[j + 1]
    BY <1>1, <1>2, <2>1, HeadTailProperties, LenProperties
  <2>3. i - 1 \in DOMAIN events' /\ (i - 1) + 1 = i
    BY <1>1, <1>2, <1>3, <2>2
  <2> QED BY <2>2, <2>3
<1>4. ~(i > 1) => i = 1
  BY <1>2
<1> QED BY <1>2, <1>3, <1>4, EventsMove DEF StaysOrMovesUp

\* A new handle, or a new port of the switch, has the next id.
LEMMA IdsMove ==
  ASSUME PortInv, [DaemonNext]_dvars
  PROVE  /\ next_id' \in Nat /\ next_id \in Nat /\ next_id' >= next_id
         /\ \A p \in handles' : p \in handles \/ p = next_id
         /\ \A p \in DOMAIN ports' : p \in DOMAIN ports \/ p = next_id
<1> DEFINE Goal == /\ next_id' \in Nat /\ next_id \in Nat /\ next_id' >= next_id
                   /\ \A p \in handles' : p \in handles \/ p = next_id
                   /\ \A p \in DOMAIN ports' : p \in DOMAIN ports \/ p = next_id
<1>1. next_id \in Nat
  BY Typed DEF PortInv, Ports, IdsSpent
<1>2. ASSUME NEW p \in PortId, next(p)
      PROVE  next_id' \in Nat /\ next_id' >= next_id /\ p = next_id
  BY <1>1, <1>2, NextId
<1>3. ASSUME NEW p \in PortId, next(p), NEW mode, add_port(p, mode)
      PROVE  DOMAIN ports' = DOMAIN ports \cup {next_id}
  BY <1>2, <1>3, AddedPort
<1>4. ASSUME next_id' = next_id, handles' \subseteq handles,
             DOMAIN ports' \subseteq DOMAIN ports
      PROVE  Goal
  BY <1>1, <1>4
<1>5. CASE spawn_port
  BY <1>1, <1>2, <1>3, <1>5 DEF spawn_port
<1>6. CASE name_fails
  BY <1>1, <1>2, <1>3, <1>6 DEF name_fails
<1>7. CASE open_fails
  BY <1>1, <1>2, <1>7 DEF open_fails, vars
<1>8. CASE no_more_ids \/ all_spawned \/ set_up_fails \/ teardown_port \/ torn_down \/ load_ends
           \/ sighup \/ abort \/ loop_probe
  BY <1>4, <1>8 DEF no_more_ids, all_spawned, set_up_fails, teardown_port, torn_down,
     load_ends, load_fails, load_succeeds, sighup, abort, reader_aborts, writer_aborts,
     loop_probe, vars
<1>9. CASE new_switch
  BY <1>4, <1>9 DEF new_switch
<1>10. CASE handle_frame_event
  <2>1. PICK e : e = Head(events)
    OBVIOUS
  <2>2. e \in PortEvent /\ e.port \in PortId
    BY <1>10, <2>1, HeadTaken, Typed
  <2>3. next_id' = next_id /\ IF e.what = Down THEN port_down(e.port)
                              ELSE frame_in(e.port, e.what)
    BY <1>10, <2>1 DEF handle_frame_event, take_event
  <2>4. CASE e.what = Down
    BY <1>4, <2>3, <2>4 DEF port_down, remove_port, Restrict
  <2>5. CASE e.what # Down /\ Parses(e.what)
    <3>1. forward(e.port, parse(e.what)) /\ parse(e.what) \in Frames /\ handles' = handles
      BY <2>2, <2>3, <2>5, DaemonAssumption DEF frame_in, PortEvent
    <3>2. DOMAIN ports' = DOMAIN ports
      BY <2>2, <3>1, ForwardKeeps DEF PortInv, DaemonInv
    <3> QED BY <1>4, <2>3, <3>1, <3>2
  <2>6. CASE e.what # Down /\ ~Parses(e.what)
    BY <1>4, <2>3, <2>6 DEF frame_in, vars
  <2> QED BY <2>4, <2>5, <2>6
<1>11. CASE age_sweep \/ (Tick /\ UNCHANGED daemon) \/ UNCHANGED dvars
  BY <1>4, <1>11 DEF age_sweep, age_out, Tick, daemon, dvars, vars
<1>12. ASSUME NEW p \in PortId, task_step(p) PROVE Goal
  BY <1>4, <1>12 DEF task_step, reader_step, writer_step, writer_ends, vars
<1> HIDE DEF Goal
<1>13. Goal
  BY <1>5, <1>6, <1>7, <1>8, <1>9, <1>10, <1>11, <1>12 DEF DaemonNext, set_up, Goal
<1> QED BY <1>13 DEF Goal

\* Each event the loop takes brings a Down one place forward; when it is the
\* one that is taken, neither the handles nor the switch have the port.
DownComesNearer(p) ==
  \A i \in DOMAIN events : IsDown(events[i], p) =>
    /\ StaysOrMovesUp(i)
    /\ handle_frame_event /\ i = 1 => p \notin handles' /\ p \notin DOMAIN ports'

\* An id that was given out and is gone does not come back.
NeverAgain(p) ==
  p < next_id =>
    /\ p < next_id'
    /\ p \notin handles => p \notin handles'
    /\ p \notin DOMAIN ports => p \notin DOMAIN ports'

\* A writer left behind sends what is queued, gets nothing more, and ends.
OnlyDrains(p) ==
  p \in detached =>
    IF writer_ends(p) THEN p \notin detached'
    ELSE /\ p \in detached' /\ p \in DOMAIN outbox'
         /\ Len(outbox'[p]) = Len(outbox[p]) - IF writer_step(p) THEN 1 ELSE 0

LEMMA DownSteps ==
  ASSUME PortInv, [DaemonNext]_dvars, NEW p \in PortId
  PROVE  DownComesNearer(p) /\ NeverAgain(p)
<1>1. NeverAgain(p)
  <2>1. p \in Int
    BY Typed
  <2> QED BY <2>1, IdsMove DEF NeverAgain
<1>2. ASSUME handle_frame_event, IsDown(Head(events), p)
      PROVE  p \notin handles' /\ p \notin DOMAIN ports'
  BY <1>2 DEF handle_frame_event, take_event, IsDown, port_down, remove_port, Restrict
<1>3. DownComesNearer(p)
  BY <1>2, EventPlaces DEF DownComesNearer
<1> QED BY <1>1, <1>3

\* A writer that was left behind runs.
Leftover == \A p \in detached : Running(Writer(p))

\* Only a handle's queue is delivered to.
LEMMA NotDelivered ==
  ASSUME NEW ds, deliver(ds), NEW p \in DOMAIN outbox, p \notin handles
  PROVE  p \in DOMAIN outbox' /\ outbox'[p] = outbox[p]
BY DEF deliver

LEMMA Drains ==
  ASSUME PortInv, Leftover, [DaemonNext]_dvars, NEW p \in detached, ~writer_ends(p)
  PROVE  /\ p \in detached' /\ p \in DOMAIN outbox' /\ (Running(Writer(p)))'
         /\ Len(outbox'[p]) = Len(outbox[p]) - IF writer_step(p) THEN 1 ELSE 0
<1> DEFINE Goal == /\ p \in detached' /\ p \in DOMAIN outbox' /\ (Running(Writer(p)))'
                   /\ Len(outbox'[p]) = Len(outbox[p]) - IF writer_step(p) THEN 1 ELSE 0
<1> SUFFICES Goal
  OBVIOUS
<1>1. /\ p \in PortId /\ p \notin handles /\ p # dying /\ Running(Writer(p))
      /\ p \in DOMAIN outbox /\ Len(outbox[p]) \in Nat
      /\ outbox[p] # << >> => Len(Tail(outbox[p])) = Len(outbox[p]) - 1
  <2>1. /\ p \in PortId /\ p \notin handles /\ p # dying /\ Running(Writer(p))
        /\ p \in DOMAIN outbox
    BY DEF Leftover, PortInv, Ports, Places, Queues
  <2> QED BY <2>1, QueueLengths
<1>2. CASE writer_step(p)
  <2>1. /\ outbox' = [outbox EXCEPT ![p] = Tail(@)] /\ outbox[p] # << >>
        /\ UNCHANGED <<tasks, detached>>
    BY <1>2 DEF writer_step
  <2>2. outbox'[p] = Tail(outbox[p])
    BY <1>1, <2>1
  <2> QED BY <1>1, <1>2, <2>1, <2>2 DEF Running
<1>3. ASSUME ~writer_step(p), p \in detached', Writer(p) \in DOMAIN tasks',
             p \in DOMAIN outbox', outbox'[p] = outbox[p]
      PROVE  Goal
  BY <1>1, <1>3 DEF Running
<1>4. ASSUME ~writer_step(p), UNCHANGED <<tasks, detached, outbox>> PROVE Goal
  BY <1>1, <1>3, <1>4 DEF Running
<1>5. CASE spawn_port /\ ~writer_step(p)
  <2>1. PICK q \in PortId :
          /\ next(q) /\ outbox' = insert(outbox, q, << >>)
          /\ tasks' = insert(insert(tasks, Reader(q), Head(todo).name),
                             Writer(q), Head(todo).name)
    BY <1>5 DEF spawn_port
  <2>2. q # p
    BY <2>1, NextId
  <2>3. outbox'[p] = outbox[p] /\ p \in DOMAIN outbox' /\ Writer(p) \in DOMAIN tasks'
    BY <1>1, <2>1, <2>2 DEF insert, Running
  <2> QED BY <1>3, <1>5, <2>3 DEF spawn_port
<1>6. CASE /\ \/ open_fails \/ name_fails \/ no_more_ids \/ all_spawned \/ set_up_fails
              \/ teardown_port \/ torn_down \/ new_switch
           /\ ~writer_step(p)
  BY <1>4, <1>6 DEF open_fails, name_fails, no_more_ids, all_spawned, set_up_fails,
     teardown_port, torn_down, new_switch
<1>7. CASE /\ load_ends \/ age_sweep \/ sighup \/ UNCHANGED daemon
           /\ ~writer_step(p)
  BY <1>4, <1>7 DEF load_ends, load_fails, load_succeeds, age_sweep, sighup, daemon
<1>8. CASE handle_frame_event /\ ~writer_step(p)
  <2>1. tasks' = tasks
    BY <1>8 DEF handle_frame_event, take_event
  <2>2. p \in detached'
    BY <1>8 DEF handle_frame_event, take_event, port_down, frame_in
  <2>3. p \in DOMAIN outbox' /\ outbox'[p] = outbox[p]
    <3>1. outbox' = outbox \/ \E ds : deliver(ds)
      BY <1>8 DEF handle_frame_event, take_event, port_down, frame_in
    <3> QED BY <1>1, <3>1, NotDelivered
  <2> QED BY <1>1, <1>3, <1>8, <2>1, <2>2, <2>3 DEF Running
<1>9. CASE loop_probe /\ ~writer_step(p)
  <2>1. p \in DOMAIN outbox' /\ outbox'[p] = outbox[p] /\ UNCHANGED <<tasks, detached>>
    BY <1>1, <1>9, NotDelivered DEF loop_probe
  <2> QED BY <1>1, <1>3, <1>9, <2>1 DEF Running
<1>10. CASE abort /\ ~writer_step(p)
  <2>1. PICK task \in {Reader(dying), Writer(dying)} :
          tasks' = Restrict(tasks, DOMAIN tasks \ {task}) /\ detached' = detached
    BY <1>10 DEF abort, reader_aborts, writer_aborts
  <2>2. Writer(p) \in DOMAIN tasks'
    BY <1>1, <2>1 DEF Restrict, Running, Reader, Writer
  <2>3. p \in DOMAIN outbox' /\ outbox'[p] = outbox[p]
    BY <1>1, <1>10 DEF abort, reader_aborts, writer_aborts, Restrict
  <2> QED BY <1>3, <1>10, <2>1, <2>2, <2>3
<1>11. ASSUME NEW q \in PortId, task_step(q), ~writer_step(p) PROVE Goal
  <2>1. CASE reader_step(q)
    <3>1. Writer(p) \in DOMAIN tasks'
      BY <1>1, <2>1 DEF reader_step, Restrict, Running, Reader, Writer
    <3>2. p \in detached' /\ p \in DOMAIN outbox' /\ outbox'[p] = outbox[p]
      BY <1>1, <2>1 DEF reader_step
    <3> QED BY <1>3, <1>11, <3>1, <3>2
  <2>2. CASE writer_step(q)
    <3>1. q # p /\ outbox' = [outbox EXCEPT ![q] = Tail(@)] /\ UNCHANGED <<tasks, detached>>
      BY <1>11, <2>2 DEF writer_step
    <3>2. p \in detached' /\ p \in DOMAIN outbox' /\ outbox'[p] = outbox[p]
      BY <1>1, <3>1
    <3>3. Writer(p) \in DOMAIN tasks'
      BY <1>1, <3>1 DEF Running
    <3> QED BY <1>3, <1>11, <3>2, <3>3
  <2>3. CASE writer_ends(q)
    <3>1. /\ q # p /\ detached' = detached \ {q}
          /\ tasks' = Restrict(tasks, DOMAIN tasks \ {Writer(q)})
          /\ outbox' = Restrict(outbox, DOMAIN outbox \ {q})
      BY <2>3 DEF writer_ends
    <3>2. /\ p \in detached' /\ Writer(p) \in DOMAIN tasks'
          /\ p \in DOMAIN outbox' /\ outbox'[p] = outbox[p]
      BY <1>1, <3>1 DEF Restrict, Running, Writer
    <3> QED BY <1>3, <1>11, <3>2
  <2> QED BY <1>11, <2>1, <2>2, <2>3 DEF task_step
<1> HIDE DEF Goal
<1> QED BY <1>2, <1>5, <1>6, <1>7, <1>8, <1>9, <1>10, <1>11
        DEF DaemonNext, set_up, dvars

LEMMA LeftoverNext == PortInv /\ Leftover /\ [DaemonNext]_dvars => Leftover'
<1> SUFFICES ASSUME PortInv, Leftover, [DaemonNext]_dvars, NEW p \in detached'
             PROVE  (Running(Writer(p)))'
  BY DEF Leftover
<1>1. CASE p \in detached
  <2>1. p \in PortId
    BY <1>1 DEF PortInv, Ports, Places
  <2>2. writer_ends(p) => FALSE
    BY DEF writer_ends
  <2> QED BY <1>1, <2>2, Drains
<1>2. CASE p \notin detached
  <2>1. handle_frame_event /\ p \in handles /\ UNCHANGED tasks
    <3>1. ASSUME detached' \subseteq detached PROVE FALSE
      BY <1>2, <3>1
    <3>2. ~set_up
      BY <3>1 DEF set_up, spawn_port, open_fails, name_fails, no_more_ids, all_spawned,
         set_up_fails, teardown_port, torn_down, new_switch
    <3>3. ~load_ends /\ ~age_sweep /\ ~loop_probe /\ ~sighup /\ ~UNCHANGED daemon
      BY <3>1 DEF load_ends, load_fails, load_succeeds, age_sweep, loop_probe, sighup, daemon
    <3>4. ~abort
      BY <3>1 DEF abort, reader_aborts, writer_aborts
    <3>5. ASSUME NEW q \in PortId, task_step(q) PROVE FALSE
      BY <3>1, <3>5 DEF task_step, reader_step, writer_step, writer_ends
    <3>6. handle_frame_event
      BY <3>2, <3>3, <3>4, <3>5 DEF DaemonNext, dvars, daemon
    <3> QED BY <1>2, <3>6 DEF handle_frame_event, take_event, port_down, frame_in
  <2> QED BY <2>1 DEF PortInv, Ports, Served, Running
<1> QED BY <1>1, <1>2

(***************************************************************************)
(* What DownIsExcised and DetachedWritersEnd rest on, without fairness.  A *)
(* queued Down is never lost or overtaken, and when the loop takes it the  *)
(* port has no handle and is not in the switch; its id is then never used  *)
(* again, by this switch or by that of any later reload; and its writer is *)
(* given nothing more, so what it waits for is that its queue is sent.     *)
(***************************************************************************)
THEOREM GoneForGood ==
  DaemonSpec =>
    [][\A p \in PortId : DownComesNearer(p) /\ NeverAgain(p) /\ OnlyDrains(p)]_dvars
<1>1. DaemonInit => Leftover
  BY DEF DaemonInit, Leftover
<1>2. DaemonSpec => []Leftover
  BY <1>1, LeftoverNext, PortInvariance, PTL DEF DaemonSpec
<1>3. ASSUME PortInv, Leftover, [DaemonNext]_dvars, NEW p \in PortId
      PROVE  OnlyDrains(p)
  <2>1. writer_ends(p) => p \notin detached'
    BY DEF writer_ends
  <2>2. p \in detached /\ ~writer_ends(p) =>
          /\ p \in detached' /\ p \in DOMAIN outbox'
          /\ Len(outbox'[p]) = Len(outbox[p]) - IF writer_step(p) THEN 1 ELSE 0
    BY <1>3, Drains
  <2> QED BY <2>1, <2>2 DEF OnlyDrains
<1>4. PortInv /\ Leftover /\ [DaemonNext]_dvars
      => [\A p \in PortId : DownComesNearer(p) /\ NeverAgain(p) /\ OnlyDrains(p)]_dvars
  BY <1>3, DownSteps
<1> QED BY <1>2, <1>4, PortInvariance, PTL DEF DaemonSpec

----------------------------------------------------------------------------
(***************************************************************************)
(* The loop guard's way to a block.                                        *)
(***************************************************************************)
BringsOwnProbe(e) ==
  e.what # Down /\ Parses(e.what) /\ is_own_probe(parse(e.what), probe_id)

\* Cut off: blocked, and no address is looked for behind it.
CutOff(p) ==
  p \in DOMAIN ports /\ ports[p].blocked /\ \A k \in DOMAIN mac_table : mac_table[k].port # p

LEMMA ProbeTaken ==
  ASSUME PortInv, handle_frame_event, BringsOwnProbe(Head(events)),
         NEW p \in DOMAIN ports, Head(events).port = p
  PROVE  CutOff(p)'
<1> DEFINE f == parse(Head(events).what)
<1>1. is_any_probe(f)
  BY DEF BringsOwnProbe, is_own_probe
<1>2. forward(p, f)
  BY DEF handle_frame_event, take_event, frame_in, BringsOwnProbe
<1>3. block_port(p)
  BY <1>1, <1>2 DEF forward, handle_loop_probe, forward_drop, forward_accept,
     accepts, BringsOwnProbe
<1>4. set_blocked(p, TRUE) /\ PortsTypeOK
  BY <1>3 DEF block_port, PortInv, DaemonInv, Inv, CoreTypeOK
<1>5. p \in DOMAIN ports' /\ ports'[p].blocked
  BY <1>4, SetBlocked
<1>6. \A k \in DOMAIN mac_table' : mac_table'[k].port # p
  BY <1>3 DEF block_port, purge_port, Restrict
<1> QED BY <1>5, <1>6 DEF CutOff

\* A probe of this switch that a port has heard comes nearer to the loop, and
\* when it is taken the port is cut off, if its handle is still there.
ProbeComesNearer(p) ==
  \A i \in DOMAIN events : events[i].port = p /\ BringsOwnProbe(events[i]) =>
    /\ StaysOrMovesUp(i)
    /\ handle_frame_event /\ i = 1 /\ p \in handles => CutOff(p)'

(***************************************************************************)
(* What QueuedProbeBlocks rests on, without fairness: a probe that came    *)
(* back is not lost in the queue behind other events, and when the loop    *)
(* gets to it the port it came in on is blocked and its routes are gone,   *)
(* whatever the port did in between.  With BlockedUntilReload it stays so. *)
(***************************************************************************)
THEOREM OwnProbeBlocks == DaemonSpec => [][\A p \in PortId : ProbeComesNearer(p)]_dvars
<1>1. ASSUME PortInv, [DaemonNext]_dvars, NEW p \in PortId PROVE ProbeComesNearer(p)
  <2>1. ASSUME NEW i \in DOMAIN events, events[i].port = p, BringsOwnProbe(events[i]),
               handle_frame_event, i = 1, p \in handles
        PROVE  CutOff(p)'
    <3>1. Head(events) = events[i]
      BY <1>1, <2>1, EventPlaces
    <3>2. p \in DOMAIN ports
      BY <1>1, <2>1 DEF PortInv, Ports, Served
    <3> QED BY <1>1, <2>1, <3>1, <3>2, ProbeTaken
  <2> QED BY <1>1, <2>1, EventPlaces DEF ProbeComesNearer
<1>2. PortInv /\ [DaemonNext]_dvars => [\A p \in PortId : ProbeComesNearer(p)]_dvars
  BY <1>1
<1> QED BY <1>2, PortInvariance, PTL DEF DaemonSpec
=============================================================================
