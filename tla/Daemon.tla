------------------------------- MODULE Daemon -------------------------------
(***************************************************************************)
(* The daemon: src/src/daemon.rs.  One task runs the select! loop and owns *)
(* the switch and the port handles; every port has a reader task, which    *)
(* turns what its TAP device delivers into events for the loop, and a      *)
(* writer task, which drains the port's outbound queue.  The loop's state  *)
(* is its program point: what it awaits when it is not in select!.         *)
(*                                                                         *)
(* Signals, timers, the kernel's devices and the configuration file are    *)
(* the environment.  SIGUSR1 and the dashboard read the switch and change  *)
(* nothing: they are no actions.                                           *)
(***************************************************************************)
EXTENDS Switch

CONSTANTS
  Name,                   \* TAP device names
  Topologies,             \* what into_specs may return
  ReloadPath,             \* whether the daemon was started with --config
  Received,               \* the bytes a device may deliver
  Down,                   \* PortEvent::Down
  NoPort,
  IdLimit,                \* u32::MAX, or less to reach it
  OUTBOUND_QUEUE_DEPTH,
  MaxEvents               \* bound on the unbounded event channel

\* What into_specs and parse_port_specs return: no two ports have one name.
PortSpec == [name : Name, mode : Modes]
Distinct(topology) ==
  \A i, j \in DOMAIN topology : topology[i].name = topology[j].name => i = j

ASSUME DaemonAssumption ==
  /\ IdLimit \in Nat /\ PortId = 0 .. IdLimit - 1
  /\ Topologies \subseteq {t \in Seq(PortSpec) : Distinct(t)}
  /\ Received \subseteq WireFrame
  /\ \A wire \in Received : Parses(wire) => parse(wire) \in Frames
  /\ Down \notin WireFrame /\ NoPort \notin PortId
  /\ OUTBOUND_QUEUE_DEPTH \in Nat \ {0} /\ MaxEvents \in Nat \ {0}
  /\ ReloadPath \in BOOLEAN

VARIABLES
  loop,       \* where the main task is
  specs,      \* the topology being run, or being set up
  todo,       \* the specs of it that spawn_port has still to see
  dying,      \* the port whose tasks teardown_port awaits
  handles,    \* the keys of the handles map
  next_id,    \* PortIdAllocator
  tasks,      \* the running reader and writer tasks, and the device each
              \* keeps open
  detached,   \* ports whose handle was dropped, their writer still running
  outbox,     \* for each running writer, the frame it has taken from its queue
              \* and is sending, if any, and then its queue
  events      \* the queue the readers feed

daemon == <<loop, specs, todo, dying, handles, next_id, tasks, detached,
            outbox, events>>
dvars == <<vars, daemon>>

Reader(p) == <<p, "reader">>
Writer(p) == <<p, "writer">>
Running(task) == task \in DOMAIN tasks
Holders(name) == {task \in DOMAIN tasks : tasks[task] = name}

\* name is not in the event the code sends: it says which device was read.
PortEvent == [port : PortId, name : Name, what : Received \cup {Down}]

----------------------------------------------------------------------------
\* Mutant: a queue without a bound.
deliver_unbounded(ds) ==
  outbox' =
    [p \in DOMAIN outbox |->
       IF p \in handles /\ \E d \in ds : d.port = p
       THEN Append(outbox[p], (CHOOSE d \in ds : d.port = p).bytes)
       ELSE outbox[p]]

\* deliver, for each of ds: to a port that is gone or whose queue is full,
\* nothing is sent.  Of the writers with as many frames before them as a queue
\* holds, some have taken the first one already, and there is room for one more.
deliver(ds) ==
  \E sending \in SUBSET {p \in handles \cap DOMAIN outbox :
                           Len(outbox[p]) = OUTBOUND_QUEUE_DEPTH} :
    outbox' =
      [p \in DOMAIN outbox |->
         IF /\ p \in handles
            /\ Len(outbox[p]) < OUTBOUND_QUEUE_DEPTH \/ p \in sending
            /\ \E d \in ds : d.port = p
         THEN Append(outbox[p], (CHOOSE d \in ds : d.port = p).bytes)
         ELSE outbox[p]]

\* Mutants: only the switch, or only the handles, hear of a Down.
port_down_keeping_handle(p) ==
  remove_port(p) /\ UNCHANGED <<handles, detached, outbox>>

port_down_keeping_routes(p) ==
  /\ handles' = handles \ {p}
  /\ detached' = IF p \in handles THEN detached \cup {p} ELSE detached
  /\ UNCHANGED <<vars, outbox>>

\* The reader that sent Down has exited; the writer is left to end by itself
\* once its queue drains.
port_down(p) ==
  /\ remove_port(p)
  /\ handles' = handles \ {p}
  /\ detached' = IF p \in handles THEN detached \cup {p} ELSE detached
  /\ UNCHANGED outbox

frame_in(p, wire) ==
  /\ IF Parses(wire)
     THEN forward(p, parse(wire)) /\ deliver(deliveries(p, parse(wire)))
     ELSE UNCHANGED <<vars, outbox>>
  /\ UNCHANGED <<handles, detached>>

take_event ==
  /\ loop = "select" /\ events # << >>
  /\ events' = Tail(events)

handle_frame_event ==
  /\ take_event
  /\ LET e == Head(events)
     IN  IF e.what = Down THEN port_down(e.port) ELSE frame_in(e.port, e.what)
  /\ UNCHANGED <<loop, specs, todo, dying, next_id, tasks>>

age_sweep ==
  /\ loop = "select"
  /\ age_out
  /\ UNCHANGED daemon

\* Mutant: no probe on a port that is blocked already.
loop_probe_open_ports ==
  /\ loop = "select"
  /\ deliver({[port |-> p, bytes |-> build_probe(probe_id)] :
               p \in {q \in handles : ~ports[q].blocked}})
  /\ UNCHANGED <<vars, loop, specs, todo, dying, handles, next_id, tasks,
                 detached, events>>

\* The probe goes to every handle, whatever the port's mode or state.
loop_probe ==
  /\ loop = "select"
  /\ deliver({[port |-> p, bytes |-> build_probe(probe_id)] : p \in handles})
  /\ UNCHANGED <<vars, loop, specs, todo, dying, handles, next_id, tasks,
                 detached, events>>

----------------------------------------------------------------------------
\* The tasks of a port

\* The device delivers a frame, or is closed or in error.  A reader that was
\* aborted goes on like this until it next has to wait.
reader_step(p) ==
  /\ Running(Reader(p)) /\ Len(events) < MaxEvents
  /\ \E what \in Received \cup {Down} :
       /\ events' = Append(events, [port |-> p, name |-> tasks[Reader(p)],
                                    what |-> what])
       /\ tasks' = IF what = Down
                   THEN Restrict(tasks, DOMAIN tasks \ {Reader(p)})
                   ELSE tasks
  /\ UNCHANGED <<vars, loop, specs, todo, dying, handles, next_id, detached,
                 outbox>>

\* Mutant: a frame that cannot be sent is tried again and again.
writer_step_retrying(p) ==
  Running(Writer(p)) /\ outbox[p] # << >> /\ UNCHANGED dvars

\* One frame is on the device.  Short writes and errors are logged and the
\* next frame is tried.
writer_step(p) ==
  /\ Running(Writer(p)) /\ outbox[p] # << >>
  /\ outbox' = [outbox EXCEPT ![p] = Tail(@)]
  /\ UNCHANGED <<vars, loop, specs, todo, dying, handles, next_id, tasks,
                 detached, events>>

\* rx.recv() returns None: the handle is gone and the queue is drained.
writer_ends(p) ==
  /\ Running(Writer(p)) /\ p \in detached /\ outbox[p] = << >>
  /\ tasks' = Restrict(tasks, DOMAIN tasks \ {Writer(p)})
  /\ outbox' = Restrict(outbox, DOMAIN outbox \ {p})
  /\ detached' = detached \ {p}
  /\ UNCHANGED <<vars, loop, specs, todo, dying, handles, next_id, events>>

\* An aborted task ends at the next point where it awaits; what the writer
\* had still to send is lost.
reader_aborts ==
  /\ Running(Reader(dying))
  /\ tasks' = Restrict(tasks, DOMAIN tasks \ {Reader(dying)})
  /\ UNCHANGED <<vars, loop, specs, todo, dying, handles, next_id, detached,
                 outbox, events>>

\* Mutant: the writer is awaited without being aborted.
writer_aborts_unasked == Running(Writer(dying)) /\ UNCHANGED dvars

writer_aborts ==
  /\ Running(Writer(dying))
  /\ tasks' = Restrict(tasks, DOMAIN tasks \ {Writer(dying)})
  /\ outbox' = Restrict(outbox, DOMAIN outbox \ {dying})
  /\ UNCHANGED <<vars, loop, specs, todo, dying, handles, next_id, detached,
                 events>>

----------------------------------------------------------------------------
\* Starting and reloading

\* port_ids.next() gives out next_id, unless its successor overflows.
next(id) == id = next_id /\ id < IdLimit /\ next_id' = next_id + 1

\* The next spec, taken from the list.
take_spec == Len(todo) > 0 /\ todo' = Tail(todo)

spawning == loop \in {"startup", "rebuild"}

\* spawn_port succeeds: the port is registered and its tasks run.
spawn_port ==
  /\ spawning /\ take_spec
  /\ \E p \in PortId :
       /\ next(p)
       /\ add_port(p, Head(todo).mode)
       /\ handles' = handles \cup {p}
       /\ tasks' = insert(insert(tasks, Reader(p), Head(todo).name),
                          Writer(p), Head(todo).name)
       /\ outbox' = insert(outbox, p, << >>)
  /\ UNCHANGED <<loop, specs, dying, detached, events>>

\* What an error of spawn_port does: run returns, reload goes on to the next.
after_error == loop' = IF loop = "startup" THEN "exited" ELSE loop

open_fails ==
  /\ spawning /\ take_spec
  /\ \E p \in PortId : next(p)
  /\ after_error
  /\ UNCHANGED <<vars, specs, dying, handles, tasks, detached, outbox, events>>

\* The device opens but its name cannot be read back: by then the switch has
\* the port, which stays without a handle.
name_fails ==
  /\ spawning /\ take_spec
  /\ \E p \in PortId : next(p) /\ add_port(p, Head(todo).mode)
  /\ after_error
  /\ UNCHANGED <<specs, dying, handles, tasks, detached, outbox, events>>

\* Too many ports: run returns, reload makes do with those it has.
no_more_ids ==
  /\ spawning /\ Len(todo) > 0
  /\ next_id = IdLimit
  /\ todo' = << >>
  /\ loop' = IF loop = "startup" THEN "exited" ELSE "select"
  /\ UNCHANGED <<vars, specs, dying, handles, next_id, tasks, detached, outbox,
                 events>>

all_spawned ==
  /\ spawning /\ todo = << >>
  /\ loop' = "select"
  /\ UNCHANGED <<vars, specs, todo, dying, handles, next_id, tasks, detached,
                 outbox, events>>

\* The signal handlers or the dashboard's listener cannot be set up.
set_up_fails ==
  /\ loop = "startup" /\ todo = << >>
  /\ loop' = "exited"
  /\ UNCHANGED <<vars, specs, todo, dying, handles, next_id, tasks, detached,
                 outbox, events>>

\* SIGHUP.  The arm awaits the load: the loop is not in select! meanwhile.
\* Without a configuration file the signal is ignored.
sighup ==
  /\ loop = "select" /\ ReloadPath
  /\ loop' = "loading"
  /\ UNCHANGED <<vars, specs, todo, dying, handles, next_id, tasks, detached,
                 outbox, events>>

load_fails ==
  /\ loop = "loading"
  /\ loop' = "select"
  /\ UNCHANGED <<vars, specs, todo, dying, handles, next_id, tasks, detached,
                 outbox, events>>

\* Mutant: a reload that only adds the new ports.
load_succeeds_adding ==
  /\ loop = "loading"
  /\ loop' = "rebuild"
  /\ \E new_specs \in Topologies : specs' = new_specs /\ todo' = new_specs
  /\ UNCHANGED <<vars, dying, handles, next_id, tasks, detached, outbox, events>>

load_succeeds ==
  /\ loop = "loading"
  /\ loop' = "teardown"
  /\ \E new_specs \in Topologies : specs' = new_specs
  /\ UNCHANGED <<vars, todo, dying, handles, next_id, tasks, detached, outbox,
                 events>>

\* teardown_port: abort both tasks, then await both.
teardown_port ==
  /\ loop = "teardown" /\ dying = NoPort
  /\ \E p \in handles : dying' = p /\ handles' = handles \ {p}
  /\ UNCHANGED <<vars, loop, specs, todo, next_id, tasks, detached, outbox,
                 events>>

\* Mutant: only the reader is awaited.
torn_down_early ==
  /\ dying # NoPort
  /\ ~Running(Reader(dying))
  /\ dying' = NoPort
  /\ UNCHANGED <<vars, loop, specs, todo, handles, next_id, tasks, detached,
                 outbox, events>>

torn_down ==
  /\ dying # NoPort
  /\ ~Running(Reader(dying)) /\ ~Running(Writer(dying))
  /\ dying' = NoPort
  /\ UNCHANGED <<vars, loop, specs, todo, handles, next_id, tasks, detached,
                 outbox, events>>

\* Mutants: port ids start again at 0, or learned routes are kept.
new_switch_restarting_ids ==
  /\ loop = "teardown" /\ dying = NoPort /\ handles = {}
  /\ ports' = << >> /\ mac_table' = << >>
  /\ port_counters' = << >> /\ vlan_counters' = << >>
  /\ probe_id' \in ProbeIds
  /\ loop' = "rebuild" /\ todo' = specs /\ next_id' = 0
  /\ UNCHANGED <<specs, dying, handles, tasks, detached, outbox, events>>

new_switch_keeping_routes ==
  /\ loop = "teardown" /\ dying = NoPort /\ handles = {}
  /\ ports' = << >> /\ UNCHANGED mac_table
  /\ port_counters' = << >> /\ vlan_counters' = << >>
  /\ probe_id' \in ProbeIds
  /\ loop' = "rebuild" /\ todo' = specs
  /\ UNCHANGED <<specs, dying, handles, next_id, tasks, detached, outbox, events>>

\* *switch = Switch::new(), with a probe id of its own.
new_switch ==
  /\ loop = "teardown" /\ dying = NoPort /\ handles = {}
  /\ ports' = << >> /\ mac_table' = << >>
  /\ port_counters' = << >> /\ vlan_counters' = << >>
  /\ probe_id' \in ProbeIds
  /\ loop' = "rebuild" /\ todo' = specs
  /\ UNCHANGED <<specs, dying, handles, next_id, tasks, detached, outbox, events>>

----------------------------------------------------------------------------
DaemonInit ==
  /\ Init
  /\ loop = "startup"
  /\ specs \in Topologies /\ todo = specs
  /\ dying = NoPort /\ handles = {} /\ next_id = 0
  /\ tasks = << >> /\ detached = {} /\ outbox = << >> /\ events = << >>

\* An exited process does nothing more: its tasks are gone with it.
Alive == loop # "exited"

load_ends == load_fails \/ load_succeeds

set_up ==
  \/ spawn_port \/ open_fails \/ name_fails \/ no_more_ids \/ all_spawned
  \/ set_up_fails
  \/ teardown_port \/ torn_down \/ new_switch

abort == reader_aborts \/ writer_aborts

task_step(p) ==
  Alive /\ (reader_step(p) \/ writer_step(p) \/ writer_ends(p))

DaemonNext ==
  \/ set_up
  \/ load_ends
  \/ handle_frame_event
  \/ age_sweep
  \/ loop_probe
  \/ sighup
  \/ abort
  \/ \E p \in PortId : task_step(p)
  \/ Alive /\ Tick /\ UNCHANGED daemon
  \/ ~Alive /\ UNCHANGED dvars

DaemonSpec == DaemonInit /\ [][DaemonNext]_dvars

(***************************************************************************)
(* Fairness.  select! picks at random among the arms that are ready, so an *)
(* arm that is ready again and again is taken: strong fairness.  Between   *)
(* two awaits a task runs on by itself, and the runtime polls every task   *)
(* that can go on: weak fairness.  handle_frame_event can handle whatever  *)
(* it takes, so the fairness of its arm is that of taking an event.  That  *)
(* a read of the configuration file ever ends is the file system's         *)
(* promise, not the daemon's.                                              *)
(***************************************************************************)
TasksFair ==
  /\ SF_events(take_event)
  /\ WF_dvars(set_up)
  /\ WF_dvars(reader_aborts) /\ WF_dvars(writer_aborts)
  /\ \A p \in PortId : WF_dvars(Alive /\ (writer_step(p) \/ writer_ends(p)))

FairSpec == DaemonSpec /\ TasksFair /\ WF_dvars(load_ends)

\* The configuration file may be on a file system that never answers.
StalledLoadSpec == DaemonSpec /\ TasksFair

----------------------------------------------------------------------------
(***************************************************************************)
(* Type invariant of the daemon.  A queue exists exactly as long as the    *)
(* writer that drains it, and what is under way to a device is never more  *)
(* than a full queue and the frame being sent.                             *)
(***************************************************************************)
DaemonTypeOK ==
  /\ loop \in {"startup", "select", "loading", "teardown", "rebuild", "exited"}
  /\ specs \in Topologies
  /\ todo \in Seq(PortSpec)
  /\ dying \in PortId \cup {NoPort}
  /\ handles \subseteq PortId /\ detached \subseteq PortId
  /\ next_id \in 0 .. IdLimit
  /\ IsMap(tasks, PortId \X {"reader", "writer"}, Name)
  /\ DOMAIN outbox = {p \in PortId : Running(Writer(p))}
  /\ \A p \in DOMAIN outbox : Len(outbox[p]) <= OUTBOUND_QUEUE_DEPTH + 1
  /\ events \in Seq(PortEvent)

(***************************************************************************)
(* The daemon uses the switch only through its interface: every step of    *)
(* every task is a call, or leaves the switch alone, or puts a new switch  *)
(* in its place.  What is proved of the switch then holds in the daemon.   *)
(***************************************************************************)
SwitchCalls == [][Next \/ Init']_vars

IsDown(e, p) == e.port = p /\ e.what = Down
DownQueued(p) == \E i \in DOMAIN events : IsDown(events[i], p)

(***************************************************************************)
(* No zombie port: every handle is of a port the switch knows, its writer  *)
(* runs, and if its reader has ended the loop is about to hear of it.      *)
(***************************************************************************)
HandlesAreServed ==
  \A p \in handles :
    /\ p \in DOMAIN ports
    /\ Running(Writer(p))
    /\ Running(Reader(p)) \/ DownQueued(p)

(***************************************************************************)
(* No learned route leads to a port without a handle, where deliver would  *)
(* drop every frame: not after a Down, not after a reload, not through a   *)
(* port whose spawn_port failed half way.                                  *)
(***************************************************************************)
RoutesHaveHandles ==
  loop # "teardown" =>
    \A k \in DOMAIN mac_table : mac_table[k].port \in handles

(***************************************************************************)
(* What runs is the configured topology: each port has a device of its     *)
(* own, in the mode its configuration gives it, whatever reloads, errors   *)
(* and events of earlier ports came before.                                *)
(***************************************************************************)
TopologyRespected ==
  loop # "teardown" =>
    /\ \A p \in handles :
         \E i \in DOMAIN specs :
           /\ specs[i].name = tasks[Writer(p)]
           /\ specs[i].mode = ports[p].mode
    /\ \A p, q \in handles : tasks[Writer(p)] = tasks[Writer(q)] => p = q

(***************************************************************************)
(* PortIdAllocator: an event still queued when a reload replaced its port  *)
(* is never taken for an event of a port that runs now.                    *)
(***************************************************************************)
EventsAttributed ==
  \A i \in DOMAIN events :
    events[i].port \in handles =>
      /\ Running(Writer(events[i].port))
      /\ events[i].name = tasks[Writer(events[i].port)]
      /\ events[i].what = Down => ~Running(Reader(events[i].port))

\* The frame of an event, as it may leave by the device of that name.
Crosses(e, name, wire) ==
  \E i, j \in DOMAIN specs :
    LET frame == parse(e.what)
        vlan == ingress_vlan(specs[i].mode, frame)
        copy == parse(wire)
    IN  /\ specs[i].name = e.name /\ specs[j].name = name /\ i # j
        /\ vlan # NoVlan
        /\ carries(specs[i].mode, vlan) /\ carries(specs[j].mode, vlan)
        /\ Parses(wire) /\ ingress_vlan(specs[j].mode, copy) = vlan
        /\ [copy EXCEPT !.tag = frame.tag] = frame

(***************************************************************************)
(* VLAN isolation from device to device: whatever is queued for a device   *)
(* is the daemon's own probe, or the frame the loop has just taken from    *)
(* the queue, which was read from another device.  By the configuration in *)
(* force both devices carry the VLAN it came in on, and whoever reads the  *)
(* second one finds the same frame in the same VLAN.                       *)
(***************************************************************************)
DevicesIsolated ==
  [][\A p \in DOMAIN outbox \cap DOMAIN outbox' :
       Len(outbox'[p]) > Len(outbox[p]) =>
         LET wire == outbox'[p][Len(outbox'[p])]
         IN  \/ wire = build_probe(probe_id)
             \/ /\ events # << >> /\ events' = Tail(events)
                /\ Head(events).what # Down
                /\ Crosses(Head(events), tasks[Writer(p)], wire)]_dvars

(***************************************************************************)
(* No leaked task: a task that runs belongs to a handle, is being torn     *)
(* down, or is the writer of a port that went down by itself.  So when a   *)
(* reload opens devices, teardown_port has closed the old ones.            *)
(***************************************************************************)
NoLeakedTasks ==
  \A task \in DOMAIN tasks :
    \/ task[1] \in handles \cup {dying}
    \/ task[2] = "writer" /\ task[1] \in detached

(***************************************************************************)
(* A port whose device closed or failed is eventually excised.             *)
(***************************************************************************)
DownIsExcised ==
  \A p \in PortId :
    DownQueued(p) ~> (p \notin handles /\ p \notin DOMAIN ports) \/ ~Alive

(***************************************************************************)
(* A reload whose file can be read ends: teardown never waits for ever.    *)
(***************************************************************************)
ReloadEnds == loop = "loading" ~> loop = "select"

(***************************************************************************)
(* The writer left behind by a port that went down ends, and closes the    *)
(* device, once its queue has drained.                                     *)
(***************************************************************************)
DetachedWritersEnd ==
  \A p \in PortId : p \in detached ~> p \notin detached

\* teardown_port's documentation: a port that is dying on its own does not
\* need teardown for its device to be closed when its name is opened again.
ReopenIsAlone ==
  spawning /\ todo # << >> => Holders(Head(todo).name) = {}

\* docs/design.md, loop guard: "no traffic in or out" of a blocked port.
BlockedPortIsSilent ==
  [][\A p \in DOMAIN ports \cap DOMAIN outbox :
       /\ ports[p].blocked
       /\ outbox[p] # << >>
       /\ ~is_any_probe(parse(Head(outbox[p])))
       => ~writer_step(p)]_dvars
=============================================================================
