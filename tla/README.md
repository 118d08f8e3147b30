# vlan-rs: TLA+ models, model checking and proofs

vlan-rs is an 802.1Q VLAN switch in user space: TAP devices are its ports, one
daemon task forwards between them. This directory models the frame codec, the
switch core, the daemon with its aging sweep and loop guard, the dashboard and
the configuration, checks them with TLC on small instances, and proves the
properties that matter most with TLAPS for every value of the constants.
Paths are written as in `PROJECT.json`: `src/` is the root of the repository.

## 1. The system

| component | source | state | operations |
|---|---|---|---|
| frame codec | `src/src/frame/` | none | `parse`, `write_into`, `wire_len`, TCI packing |
| port modes | `src/src/switch/port.rs` | none | `access`, `trunk`, `carries` |
| MAC table | `src/src/switch/mac_table.rs` | (VLAN, MAC) -> port, last seen | `learn`, `lookup`, `remove_port`, `evict_older_than` |
| loop guard | `src/src/switch/loop_guard.rs` | none (the id is the switch's) | `build_probe`, `is_any_probe`, `is_own_probe`, `random_probe_id` |
| counters | `src/src/switch/counters.rs` | five `u64` per port, per VLAN | updated by `forward`, forgotten by `remove_port` |
| switch core | `src/src/switch/forwarding.rs` | ports, MAC table, counters, probe id | `add_port`, `remove_port`, `block_port`, `unblock_port`, `age_out`, `forward` |
| daemon | `src/src/daemon.rs` | port handles, next port id, queues, tasks | the `select!` loop, reader and writer tasks, `reload`, `teardown_port` |
| TAP device | `src/src/io/tap.rs` | the kernel's | `open`, `name`, `recv`, `send` |
| dashboard | `src/src/dashboard.rs` | one task per connection | request line, reply through the loop, drain |
| configuration | `src/src/config.rs`, `src/src/main.rs`, `parse_spec` | none | TOML and command line to a topology |

**How they interact.** The switch core does no I/O and has one caller: the
task that runs `daemon::run`. Each port has a reader task, which puts what its
TAP device delivers on one unbounded queue of events, and a writer task, which
drains a bounded queue of the port's own onto the device. The loop takes events
from the queue, calls `forward` and hands each delivery to the writer of its
port. Timers call `age_out` and send probes; SIGHUP reads the configuration
file again, tears every port down and builds a new switch; SIGUSR1 and the
dashboard read the counters.

**What is hard.**

* In the core, nothing runs concurrently; the difficulty is long sequences of
  calls. `forward` sends a unicast frame to the port its table names without
  asking whether that port still carries the VLAN, so VLAN isolation rests on
  every other call having purged the right routes.
* In the codec, the difficulty is in the bits: masks, lengths at the end of a
  tag, and a payload that may itself look like a tag.
* In the daemon, it is tasks that are aborted but have not ended, events that
  arrive after a reload, devices held by tasks nobody waits for, spawning that
  fails half way, ids and queues at their limits.
* In time, it is what a busy loop does to its timers: a sweep that comes late, a
  probe that meets a full queue, a request of the dashboard that waits for a
  reload.
* At the edges, it is clients that stall or leave at any point, and two grammars
  that have to mean the same.

`PROJECT.json`, "hazards", lists these one by one at the lines where they bite,
with the properties that cover each.

**What makes each component correct.** The codec: round trips in both orders
and exact lengths. The table and the core: no stale routes, no group address
learned, no frame out of its VLAN, no frame misread by the next switch, no black
hole, counters that agree; together, that the switch is one learning bridge per
VLAN. The daemon: it drives the switch through its interface only, every handle
is served, every route has a handle, late events never reach the wrong port,
no frame crosses from device to device outside the VLANs the configuration in
force gives them, tasks and devices are not leaked, dead ports are excised and
reloads end. The
loop guard: once a probe has found its way into a queue, a loop between two
ports is cut and its storm ends, and no port is blocked without a loop or an
echo of its probe. Aging: silent hosts are forgotten in time, others kept. The
dashboard: no request is lost, no connection ends by a reset, and none hangs but
on a response its client leaves unread. The configuration: both grammars accept the same
topologies, and nothing typed is dropped.

## 2. The modules

| module | what it is |
|---|---|
| `Frame` | bytes, frames, tags; `parse`, `write_into`, `wire_len` as operators |
| `FrameCodec` | the codec exercised as the fuzz target and `tests/frame_roundtrip.rs` do |
| `LoopGuard`, `PortMode`, `MacTable` | operators of the parts of the switch |
| `Switch` | the switch core: one action per public method that changes state |
| `VlanFabric` | abstract specification: a learning bridge per VLAN |
| `SwitchFabric` | `Switch` with a history variable and the refinement mapping |
| `Daemon` | `Switch` inside the loop, with the tasks of the ports and the reload |
| `Aging` | `Switch` with the sweep's timer and a clock |
| `LoopedDaemon` | `Daemon` on a segment that may bridge its devices |
| `ProbeTimer` | `LoopedDaemon` with a probe timer that goes on ticking |
| `Dashboard` | connections, their sockets and clients, the loop's answer |
| `Configuration` | from a command line or a file to what is run |
| `DataLemmas` | lemmas about sums over finite sets, remainders, and the codec's operators |
| `FrameProofs` | theorems about the codec |
| `SwitchProofs` | about the switch: routes, the refinement, the counters |
| `DaemonProofs` | about the daemon: its use of the switch, its tasks |
| `LoopedDaemonProofs` | about the daemon on a bridged segment |
| `AgingProofs`, `DashboardProofs`, `ConfigurationProofs` | about the sweep, the dashboard, the configuration |
| `MC...` | instances for TLC |

Definitions keep the source's names. Operators whose name says how they differ
from another one and whose comment begins with "Mutant" are wrong on purpose:
putting one in place of the definition after it must break a property
(`PROJECT.json`, "mutants").

### Frame, FrameCodec

A frame on the wire is `[dst, src, words, odd]`. MAC addresses are copied and
never looked into, so they are values; the bytes after them are 16-bit words,
and `odd` is the byte left over when their number is odd. `words = <<>>` is any
input too short for a header, and a tag cut short is a sequence that ends early,
17 bytes after the start of the frame for one: both errors of `parse` are there.
`from_tci` and `to_tci` do the arithmetic of the shifts and masks on all 16 bits.

`FrameCodec` takes an input through two codec calls: bytes through `parse` and
`write_into`, as the fuzz target does, and hand-built frames, whose tag fields
may be wider than the wire, through `write_into` and `parse`, as the tests do.
Both round trips also say that `parse` does not refuse what `write_into` makes:
a frame that ends with its header is the boundary.

### Switch

`ports`, `mac_table`, `port_counters` and `vlan_counters` are functions on the
keys their hash maps hold. `forward` is split by its early returns into
`handle_loop_probe`, `forward_drop`, `forward_accept` and a call on an unknown
port; what it returns is the state function `deliveries(p, f)`, so properties
can speak of the result of any call that could come next. A table entry keeps
its age instead of the instant it was learned, and ages stop at `MaxAge`, above
which `evict_older_than` treats all alike. `Tick` is the time between two calls.
Counters are taken modulo `CounterModulus`, 2^64 in the code. (In a debug build
an overflow panics; the release build, which is what runs, wraps.)

`SwitchFabric` maps the switch to `VlanFabric`: a port is a member of the VLANs
it carries, is open unless blocked, and a host is stationed behind the port its
entry names. The history variable `carried` keeps the last accepted frame and
where it went, so refinement is about what is delivered, not only about state.
The one concession of the abstract specification is that a frame with a second
tag inside may miss some of its targets: the write error of `encode_for_egress`.
That the fabric refuses a frame is always allowed (`Refuse` has no guard), so
refinement does not tell a frame that is dropped for no reason; `NoBlackHole`
does, for frames to a host whose route is known, those with the EtherType of a
probe but not its magic included.

### Daemon

`loop` is the program point of the main task: `startup`, `select`, `loading`
(SIGHUP's read of the file), `teardown`, `rebuild` and `exited`. `dying` is the
port `teardown_port` is waiting for. `tasks` maps the running reader and writer
tasks to the device each keeps open; a handle dropped without teardown, which is
what a `Down` event does, puts its port in `detached` until the writer ends.
`outbox` has a queue for each running writer and `events` is the loop's queue.
A writer takes a frame out of its queue (`recv`) before it sends it (`send`), and
the slot is free meanwhile. `outbox` holds both, the frame being sent at its
head: with fewer frames than a queue holds, there is room; with as many, there is
room if the first has been taken, which `deliver` leaves open for each port; one
more is the most there can be.

An action is what a task does between two awaits. `handle_frame_event` is the
whole handler: parse, `forward`, and the deliveries to the queues, or the removal
of a dead port. An aborted reader may go on sending events, and an aborted
writer writing frames, until `reader_aborts` and `writer_aborts` end them.
`spawn_port`, `open_fails`, `name_fails` and `no_more_ids` are the ways one turn
of the spawning loop can end; at start-up an error exits, in a reload it skips
the port (or, when the ids run out, the rest).

The environment chooses what a device delivers, which opens fail, when SIGHUP
and the timers come and what the configuration file holds. Its topologies have
pairwise different names, as `into_specs` and `reject_duplicate_names` ensure.

### Aging

`due` and `late` are the sweep's timer, `stalled` the loop inside a reload. The
timer has `MissedTickBehavior::Delay`: a tick taken late puts the next one a
whole interval later, and `late` is zero again. The loop takes a ready tick
before the clock moves on, except while `stalled`; a reload that succeeds
starts from an empty table, so the delay that matters is a reload that takes its
time and fails. `silence` is history: how long ago each address was last heard,
kept apart from the age the table stores.

### LoopedDaemon

Every step is a step of `Daemon`. What a reader reads is the head of `wire`: the
frames that writers, hosts and a neighbouring switch put on the segment.
`plug` and `unplug` bridge the devices and part them, at any time. The segment
loses nothing and has room for `WireDepth` frames to a device; a writer waits
while there is none. So frames are only ever dropped where the code drops them,
at the outbound queues. `redraw_probe_id` is the draw of `Switch::new` at a
reload; that it differs from every earlier draw of the process is what
`random_probe_id` is written for.

Probes are not signed. As `loop_guard.rs:1-11` says, anything on the wire can
echo one and so get a port blocked without a loop. `heard` are the ids hosts
have read off their segment, `host_echoes` sends a probe with one of them, at
any device, in time or after a reload, and `echoed` keeps the devices where such
a probe was one of the switch in force. `BlockedPortsLooped` then says exactly
what a blocked port is evidence of: a loop, or an echo at that port's own device;
an echo at one device never blocks another's port, and an echo of an id from
before a reload blocks none.

`ProbeTimer` adds that the timer goes on ticking, with a variable that flips at
each tick, so that a tick that changes nothing is still a step.

### Dashboard

`conn[c]` is the task of a connection at one of the awaits of
`handle_connection`, `sock[c]` what its client has sent and not read.
`requests` is `counters_rx`, and `replied` are the connections whose one-shot
channel holds an answer. Of the daemon only `loop` is kept: whether it is in
`select!`, where alone it answers, reading the file or rebuilding. A client may
send, half-close, reset or read at any time, or do nothing. Time is in units, and
sizes in units of one read or one write: the line and the drained body may
exceed their limits in bytes by less than one read, which the models do not
show. The response is one unit longer than the buffers of the two kernels, so
`write_all` does wait for a client that does not read. The daemon keeps a sender
of the channel and never drops its receiver, so the 500 response cannot happen
and is left out. What a reply contains is `render_counters_json` in `Switch`,
beside `dump_counters`.

### Configuration

Texts are sequences of words and separators, and of a word only its value as a
number matters. `parse_spec` and its parts split as the code does, at the first
colon or at every comma, with empty fields; the fields of a list are a
set, since `PortMode::trunk` collects them into a `HashSet`. `deserialize` is what serde makes of
one `[[port]]` table: fields of the other mode are not looked at, missing ones
are absent. `try_main` is `main.rs` with its three exits. `numeral`, `csv` and
`as_argument` write a table the way an operator would type it; `SpelledAccess`,
`SpelledTrunk` and `IsList` say word by word what an argument may look like.
Both are only used in properties.

## 3. The runs

| run | bounds | what it shows |
|---|---|---|
| `frame_codec` | priorities, DEI and VIDs at their boundaries, three types, every length from 12 bytes to 21 | `BytesRoundTrip`, `FrameRoundTrip`, `WireLenIsExact` |
| `switch` | 3 ports, access and trunk modes with and without native VLAN, 2 VLANs, 2 hosts, a group, 29 frames, ages 0 and 1 | `TypeOK`, `RoutesValid`, `NoGroupRoutes`, `VlanIsolation`, `PeerReadsSameFrame`, `NoBlackHole`, `ImplementsFabric` |
| `daemon` | 2 devices, 2 topologies that change a device from a trunk without native VLAN to an access port and back, 3 port ids, queues of 1, 1 event pending | the six invariants of `Daemon`, `SwitchCalls`, `DevicesIsolated`, `DownIsExcised`, `ReloadEnds`, `DetachedWritersEnd` |
| `aging` | 2 ports, 2 modes, 2 hosts, 6 frames, age limit 3, sweep every 2, reloads of up to 2; counters modulo 1024 | `AgingTypeOK`, `ForgottenInTime`, `KeptWhileHeard`, `CountersMoveTogether`, `DashboardShowsDump` |
| `loop_guard_safety` | 2 devices, 3 port ids, 2 probe ids of our own and a foreign one, queues and segment of 1, one frame of a host, echoes included | `BlockedPortsLooped` |
| `loop_guard_liveness` | 2 devices, no reload, one frame of a host: a broadcast, or a probe it echoes | `QueuedProbeBlocks`, `BothEndsBlocked`, `StormEnds` |
| `dashboard` | 1 connection, served again and again, lines and bodies of up to 3 units, a response of 4 and buffers of 3 | `TypeOK`, `NoLostRequest`, `CleanClose`, `OnlyUnreadResponsesHang` |
| `configuration` | files of up to 2 tables of 185 kinds; every argument with up to 4 separators and 7 kinds of word; command lines of up to 4 arguments of 9 kinds | `GrammarsAgree`, `NothingTypedIsDropped`, `OnlyTopologiesRun`, `DashboardAnywhere` |

**Why these bounds are enough.** Three ports are an ingress, a unicast target
and a bystander who must not hear the frame; two VLANs, one native and one
tagged, give every tagging case of `encode_for_egress` and every arm of
`ingress_vlan`. With an age limit of 1 an entry can be fresh or stale. In the
daemon, three ids are the ports of one topology and of the next, so a reload
both replaces ports and runs out of ids half way; the one pending event may be
of a port that is gone, being torn down, or running; a queue of one is full
after one frame. Longer queues of events were needed for none of the mutants,
and the invariants are proved for queues of any length. The ports of the switch
runs are interchangeable (the code sorts flood targets by id, which only orders
the list returned, and the models keep sets), so those runs use symmetry; they
check safety only. The daemon's ids are numbers and are not permuted. With an
age limit of 3 and a sweep of 2, hosts are heard at every distance from a tick,
and an entry can fall due at a tick or between two. Two devices are both ends of
a self-loop; a segment and queues of one frame are full at once, which is where
probes are lost; two ids of our own are those of a switch and of the one that
replaces it while a probe of the first is under way; the one frame of a host is
a neighbour's probe, or an echo of ours before or after the reload, and in the
other run the broadcast a storm is made of. One connection meets the
loop before, in and after a reload, and another one, and is cut off at every
point of its life; what concerns several, their places in the queue, is proved
for any number of them. Four separators are those of a trunk with two allowed
VLANs, or one too many for a trunk with one.

**Shortened in the runs.** No step and no guard reads a counter: what a call
adds to them depends on the call alone. So `MCAging` leaves the numbers, though
not the set of ports that have some, out of its view: TLC evaluates
`CountersMoveTogether` on every step it takes from the one representative it
keeps of each state, whatever number of frames led there. `CounterModulus = 1`
elsewhere switches the counters off, and `MCSwitch` leaves them and the history
variable out of its view for the same reason. `MaxEvents` makes readers
wait where the code's channel would grow. `MCConfiguration` types one argument
of any shape, or writes a file of any tables, or types whole command lines of
fewer shapes beside a file of fewer. It is allowed to deadlock: the model ends
where `main` exits or calls `run`.

**Fairness** (`Daemon!TasksFair`). `select!` picks at random among the ready
arms, so an arm that is ready again and again is taken: strong fairness of
taking an event (`take_event`; `handle_frame_event` can handle whatever is at
the head of the channel), which competes with the timers and SIGHUP. Between two
awaits a task runs on by itself, and the runtime polls every task that can run:
weak fairness of the steps of start-up and reload, of aborted tasks ending, and
of writers (their `send` returns, with a frame written or an error). Nothing is
assumed of readers, signals, timers or failures. That the file can be read in
the end, `WF(load_ends)`, is part of `FairSpec` and not of `StalledLoadSpec`.

`LoopedDaemon!SegmentFair` is the same for the composed system, where readers
too move frames as long as there are any; strong fairness of both kinds of task
stands for channels without the model's bounds. Nothing is assumed of the probe
timer there. `QueuedProbeBlocks` and `StormEnds` need nothing of it: they speak of
what follows once a probe is in a queue, or once a port is blocked.
`BothEndsBlocked` states what it needs in the formula: that, for the port whose
probe has to get through, not every tick from some time on finds its queue full.
The code does not ensure that. `ProbeTimer!ProbingSpec` adds the fairness it does
ensure, that the timer ticks again and again, and `LoopIsCut` fails under it
(below): a probe may meet a full queue at every tick.

`Dashboard!FairSpec` lets the tasks of connections go on, takes the arm of
`select!` that answers (strong fairness: it competes with the other arms, and
loses its turn to reloads), ends reloads and lets time pass. Nothing is assumed
of a client: `OnlyUnreadResponsesHang` says that every connection ends but one
whose client for ever leaves a response unread.

**Where the code and its comments differ.** Four runs check what a comment or a
document says and find the code does otherwise:

* `daemon_reopen`: a port that died on its own "doesn't need" teardown
  (`daemon.rs:223-227`), but its writer still holds the device while its queue
  drains, and a reload can open the name next to it.
* `daemon_blocked`: "no traffic in or out" of a blocked port
  (`docs/design.md:113`, `forwarding.rs:376-377`); frames already queued leave.
* `daemon_stall`: `spawn_blocking` keeps a slow read of the file from stalling
  forwarding (`daemon.rs:465-467`); it is awaited inside the `select!` arm, so
  no event is handled until the read ends.
* `loop_guard_storm`: both ends of a loop "should end up blocked without ever
  forming a sustained broadcast storm" (`loop-guard-smoke-test.sh:6-8`). A probe
  has no place kept for it in the queue and is dropped when that is full, every
  interval if it comes to that; the comment at the drop (`daemon.rs:363-367`)
  fears as much. A storm keeps the queues of the looped ports nearly always full
  and the ticks are not synchronous with it, so in practice some probe is likely
  to find room; `QueuedProbeBlocks` shows that the first one is enough.

Another disagreement is what the exception in `OnlyUnreadResponsesHang` is about:
a slow client is bounded "instead of an indefinite hang" (`dashboard.rs:30-33`)
while its request is read, as the name of that limit says, and while the socket
is drained; `write_all` in between has no time limit, and a client that does not
read a response its buffers do not hold keeps its task for as long as it likes.
The run has such responses, and TLC finds that hang when the exception is
left out.

Two more are seen by changing a line of a configuration:

* `CountersConsistent`, as the only invariant of `MCAging.cfg`: the two
  tables of counters "stay consistent with each other" (`counters.rs:2-4`) until
  `remove_port` deletes one port's and leaves the VLANs'. What does hold is
  `CountersMoveTogether`.
* `ProbeTypeNeverForwarded`, in `MCSwitch.cfg`: a probe is not recognised "by
  its `EtherType` alone" (`forwarding.rs:225`); the magic value is required too,
  as `loop_guard.rs` explains and as other users of that type need.

One more came out of the model without a comment to set against it: when
`tap.name()` fails, `add_port` has already been called, and the switch keeps a
port that has no handle. It receives its share of floods, which `deliver` drops.
`RoutesHaveHandles` shows that no host is ever learned behind it. And a file
without `[[port]]` tables, which a misspelt one amounts to, starts a daemon
without ports, where a command line without ports is an error of usage.

## 4. What is proved

All theorems hold for every value of the constants that meets the named
assumptions: `TagAssumption`, `InputAssumption`, `SwitchAssumption`,
`DaemonAssumption`, `LoopedAssumption`, `AgingAssumption`,
`DashboardAssumption`, `ConfigurationAssumption`. They say
that the constants have their types, that the switch is given frames `parse` can
return, that broadcast is a group address, that a topology has no two ports of
one name, and that the numbers of a table can be typed. Three more are worth a
look. `SegmentAssumption`: what the daemon writes to one device can be read from
another, that is, the frames of the instance are closed under the daemon's own
output. `ProbeIdAssumption`: what hosts and neighbours send of their own has no
probe with an id of this process, which is what `random_probe_id` counts on
("astronomically unlikely to collide"). It does not exclude hosts that send back
what they heard, which is an action, `host_echoes`. `RefusedAssumption`: an `Err` is not an `Ok`.

* **Codec** (`FrameProofs`). The invariant says of each stage what `value` is in
  terms of `input`. Under it lie two lemmas about the 16-bit arithmetic,
  `TagRoundTrip` and `TciRoundTrip`, and two about sequences, `WriteParse` and
  `ParseWrite`: the codec's halves are inverse to each other. `BytesRoundTrip`,
  `FrameRoundTrip` and `WireLenIsExact` follow.
* **Switch** (`SwitchProofs`). `RoutesValid` speaks of the mode of the
  port a route names, so it needs the types of ports and table to be preserved;
  `NoBlackHole` also needs that broadcast is never found in the table. The
  invariant `Inv` joins `CoreTypeOK` (ports, routes and probe id),
  `RoutesValid` and `NoGroupRoutes`.
  Every action either purges the routes of the port it touches or learns one
  through an open port that carries the VLAN. `VlanIsolation`, `NoBlackHole` and
  `PeerReadsSameFrame` are consequences of `Inv` in every state; the last one
  uses the codec's lemmas.
* **Refinement** (`SwitchProofs`). `HSpec => ImplementsFabric`: initial
  states map to initial states and each action to one action of the fabric, from
  the same invariant.
* **Counters** (`SwitchProofs`). A port with counters is registered (`Counted`),
  since only `forward` creates them and `remove_port` drops both, so what the
  dump prints the dashboard shows. `CountersMoveTogether` compares two sums, one
  over all ports and one over all VLANs, modulo the counters' width. The
  invariant `CountInv` adds to `Inv` the counters' types, `Counted`, and that
  there are finitely many ports, so that a flood has finitely many targets and
  the sums are defined. A call that counts puts one amount on each counter it
  touches; the total of a table then grows by the total of the amounts
  (`CountTotal`), wherever the single counters wrap, and what `forward` puts on
  the ports and on the VLAN has the same total (`AmountsAgree`): one drop or one
  frame in on both sides, and as many frames and bytes out on the targets
  together as on the VLAN at once. `remove_port` is the exception the property
  names.
* **Sums** (`DataLemmas`). A sum over a set is a fold of the community modules.
  `FiniteInduction` is induction on the size of a finite set in first-order form:
  it speaks of a set of sets, closed under taking one element away, where the
  library's theorem takes a predicate; it follows from the least element of a
  set of numbers. The laws of sums (one element more, two functions added,
  equal up to multiples of a modulus) are proved from it.
* **Daemon** (`DaemonProofs`). Every step of the daemon is a call on the switch,
  leaves it alone, or puts a new one in its place (`SwitchCalls`). It needs only
  the types of queued events and specs. Therefore `Inv` is an invariant of the
  daemon too, and with it the safety of forwarding
  (`DaemonKeepsSwitchGuarantees`), in every interleaving with reloads and
  failures. The same goes for `CountInv` and the counters
  (`DaemonKeepsCounters`), except that a reload starts them from nothing.
* **Tasks** (`DaemonProofs`). The six invariants of the daemon strengthen one
  another, and are inductive only together with what holds them up, `PortInv`:
  the places where a port can be (handles, `dying`, `detached`) are disjoint and
  account for its tasks; every id in use or in an event is below `next_id`, and
  none was given out twice; a reader runs with the handle whose it is, or its
  `Down` is queued behind its frames; each handle's device and mode are those of
  an entry of the topology, and the ports still to be spawned are the other
  entries. That ids are never reused is what the argument turns on: an event of
  a port that is gone finds nobody.
* **Isolation of devices** (`DaemonProofs`). `VlanIsolation` speaks of ports and
  of one switch; `DevicesIsolated` of devices and the configuration in force.
  The two meet in the handler of a frame: by `EventsAttributed` its port is the
  one whose device the frame was read from, by `TopologyRespected` the modes of
  both ports are those of their devices, by the lemmas on `encode_for_egress`
  the copy reads as the same frame in the same VLAN, and no other step but the
  probe timer's puts anything on a queue. In an instance where a switch counts
  its ids from one again, a frame still queued from before a reload crosses.
* **Blocked ports** (`DaemonProofs`). `BlockedUntilReload` is what is true of
  "no traffic in or out until SIGHUP", beside the finding `daemon_blocked`: no
  step calls `unblock_port`, so a port stays blocked until it goes down or the
  switch is replaced; nothing but probes is added to its queue, and nothing
  heard on it is forwarded. What leaves by it was queued before. (That nothing is
  learned behind it either is `RoutesValid`.)
* **The safety cores of liveness** (`DaemonProofs`, `DashboardProofs`). Four
  theorems prove, for any number of devices, queues and connections, everything
  the liveness properties rest on but the scheduling. `ReloadGetsNearerItsEnd`:
  what is left of a teardown (four for each handle, and what the dying port's
  tasks still owe) and of the respawning (the ports still to try) is lowered by
  each of the reload's own steps and raised by nobody. `GoneForGood`: a queued
  `Down` is never lost or overtaken, the id of a port that went down is never
  used again, by any later switch, and a writer left behind is given nothing
  more. `OwnProbeBlocks`: a probe that came back is not lost, and the loop
  blocks its port and drops its routes when it gets there.
  `ConnectionsAreBounded`: the task of a connection has a budget, set by the
  five limits, and neither its client, other connections nor a reload adds to
  it. That the steps which lower these measures are enabled until taken, and
  are then taken, is `TasksFair` and its like, and stays with TLC.
* **Loop guard** (`LoopedDaemonProofs`). `LoopedIsDaemon`: every behaviour on the
  segment is a behaviour of `Daemon`, so all the above holds there. For
  `BlockedPortsLooped` the invariant `LoopInv` follows the probes: whatever is on
  the segment, in a queue or among the events is a frame of the instance, and if
  it is a probe of this process, its id was drawn, as were those hosts have heard
  (`ProbesDrawn`); and as long as the segment has not looped under this switch,
  only a device where a host sent its probe back can have that probe on its way
  to it or among the events read from it, or a port blocked by it (`NoAlarm`, one
  device at a time). The outbound queues are left out of that, for they hold the
  switch's own probes all the time: what a writer puts on a segment that is not
  bridged goes to nobody but hosts. A reload
  makes `NoAlarm` true again because the new id was never drawn. That the probe
  inside a forwarded frame is not one of ours either, however the frame is
  tagged on its way, is the lemma behind the step that handles a frame.
* **Sweep** (`AgingProofs`). The age of an entry is the time its address has
  been silent, up to `MaxAge`, and silence and the time to the next tick together
  stay below age limit, interval and delay. Both properties follow.
* **Dashboard** (`DashboardProofs`). The queue holds exactly the connections
  that wait, each once; a connection asks once, and an answer moves it from the
  queue to `replied`. For `CleanClose` each action that closes is looked at in
  turn.
* **Configuration** (`ConfigurationProofs`). The invariants are the types of what
  is typed and written; the work is in the operators. `OnlyTopologiesRun`: both
  ways to a topology end in the same constructors and the same check of names.
  `DashboardAnywhere`: the first occurrence of the flag in a longer command line,
  and the arguments without it, by cases on where the first `--config` stands.
  `NothingTypedIsDropped`: an accepted argument is cut at its first colon, and
  what follows, if not one numeral, is `trunk`, a native VLAN and a list; two
  texts that are cut alike are equal, so the list is its fields with a comma
  between each two, and every field is one numeral, for lists of any length.
  `GrammarsAgree`: a text written from a table is taken apart at the places where
  it was put together: the first colon is the one after the name, the cuts of a
  list are its even positions, and each field is the numeral that was written
  there; for files of any number of ports and lists of any number of VLANs.

**Only model-checked**: liveness under fairness (`DownIsExcised`, `ReloadEnds`,
`DetachedWritersEnd`, `QueuedProbeBlocks`, `BothEndsBlocked`, `StormEnds`,
`OnlyUnreadResponsesHang`), which is beyond this prover; and the four runs that
end in a violation. Every safety property a passing run checks is also a theorem.

## 5. Not modelled, and why

* The text of HTTP, JSON and TOML, the log lines and the page in the browser:
  formatting, and the libraries' parsers. The page polls every few seconds
  whether or not the last poll has been answered; each poll is one connection
  here.
* A panic of a task, and running out of memory. The event channel of the daemon
  has no bound in the code and one in the model, so its growth is not looked at.
* The randomness of the probe id: a choice from `ProbeIds`, never repeated
  within a process. That two processes never draw the same one is not claimed.
* Loops through a second switch, which the design leaves out too.
* The scripts, the CI and the module wiring (`lib.rs`, `mod.rs`) have no state.

## 6. Plan

Done, in this order: `Frame` and `FrameCodec`, proved; `Switch` and its parts,
proved, with the sums of its counters; `VlanFabric` and `SwitchFabric`,
refinement proved; `Daemon`, safety proved, liveness checked; `Aging` and
`Dashboard`, safety proved; `LoopedDaemon`, a restriction of `Daemon`, safety
proved, liveness checked; `Configuration`, safety
proved; then the steps on which liveness rests, as theorems about actions.

What could follow:

1. An abstract life cycle of one port (absent, running, draining, gone), and
   `Daemon` shown to implement it for each id; `GoneForGood` and `PortInv` have
   the facts.
2. The same cores for `QueuedProbeBlocks` and `StormEnds` on the segment of
   `LoopedDaemon`: that a storm's frames only move on, and are not multiplied,
   once both ends are blocked.
