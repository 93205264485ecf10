# FoveaCamApp: formal models

TLA+ models of the concurrent core of FoveaCamApp, checked with TLC, and
theorems about them proved with TLAPS.  Paths below are relative to the
repository, without `src/app/` where it is obvious; every definition that
models code is traced to its lines in `PROJECT.json` ("map").

FoveaCamApp is an Electron application around three cameras and a pair of MEMS
mirrors.  Its processes are *main* (windows, process life cycles, stores), one
*orchestrator* per app window (cameras, controller, native pipes), *renderers*
(Vue windows), and workers for capture and recording; a microcontroller drives
the mirrors and triggers the cameras.  Everything that is hard about it is what
happens between these: an acquisition that finishes after its user went away, a
renderer that disappears with counts on a pipe, a writer that recycles a frame
under a reader, a reply that arrives after its input was closed, a process that
dies with the mirrors energised.

## 1. Inventory

| Component | State it keeps | Operations | What makes it correct |
|---|---|---|---|
| Resource-scoped session (`orchestrator/resource-session.ts`) | generation, current scope, cleanups, last drain | activate, idle, scope.use, drain | superseded work installs nothing and returns everything; cleanups LIFO; a wanted session converges |
| Session runtime (`orchestrator/runtime.ts`) | subscribers, active interest, state, frame cache, status, last idle | attach, detach, subscribe, unsubscribe, dispose, drained, setState, emitFrame | active exactly while someone is interested; status belongs to the newest activation; settled windows agree |
| Camera registry (`orchestrator/registry.ts`) | shared handles, reference counts, pending closes | acquire, acquireMany, release, releaseAll | one handle per camera; open exactly while leased; `releaseAll` lets go of everything |
| Hardware gate (`orchestrator/hardware-gate.ts`) | armed, cleared | arm, signal, await | nothing opens before main's grant; everyone proceeds after it |
| Pipe broker session (`orchestrator/pipe-session.ts`) | advertised pipes, ledger per channel | advertise, unadvertise, connectPipe, disconnectPipe, reconcileChannel, compose | a channel gives back exactly what it took |
| Native pipe hub (`core/src/Pipe.cpp`) | publishers, epochs, consumer counts | advertise, connect, disconnect, drop, offer, close | producer runs exactly while someone consumes |
| Renderer client (`lib/orchestrator/client.ts`) | subscriptions, state refs, pending writes, bound pipe, consumer | mount, bind, write, call, teardown, unmount | a mounted view ends up on the pipe it shows |
| Shared-memory ring (`core/src/ShmWrite.cpp`, `ShmRead.cpp`) | header words, slot words, payload | begin, publish, close; readLatest, readSeq | never a torn frame; drops are real; close loses nothing |
| Ring consumers (`pipe-consumer.ts`, `capture-node.ts`) | position | poll, grabBurst | forward only; come to an end |
| Renderer shared-memory client (`shm-client.ts`) | pending requests, buffer pool | request, answer, timeout, release | each buffer has one owner |
| RPC channel (`lib/orchestrator/protocol.ts`, `frame-transport.ts`) | pending calls, frame gate | call, answer, push, ack, close | latest wins, one frame in flight, every call settles |
| Process shell (`orchestrator/index.ts`) | quiescing, sessions | drain, shutdown, quiesce, SIGTERM | disarmed before it dies, or no ack |
| Instance registry, janitor (`electron/orchestrator-instances.ts`, `orchestrator/janitor.ts`, `electron/main.ts`) | phase, acks, timers, janitor run | open, teardown, onAck, onExit, grant, quit | at most one hardware holder; unclean deaths swept |
| Window manager (`electron/window-manager.ts`) | open windows, switch chain | openApp, close, closeAll | one app window; no switch against a busy session |
| Config store (`lib/store*.ts`, `orchestrator/store.ts`, `electron/store-main.ts`) | document, queue, file, copies | open, edit, update, clear, notify | no edit lost to another's; copies agree; what is acknowledged is on disk |
| Recording service and recorder (`recording-service.ts`, `recorder-node.ts`, `core/lib/Record`) | call in flight, node, taps, window, writer | start, stop, drain, admit, write, finalise | every admitted frame accounted for; stop ends; idle holds nothing |
| Capture helper (`capture-helper.ts`, `capture-node.ts`) | none between jobs | capture | - |
| Controller node and serial link (`controller-node.ts`, `controller.ts`, `core/src/Controller.cpp`) | inputs, stream ids, pending requests | open, update, close, bind, enable, request, answer | a stream id has one owner; an answer reaches its request; no stream is left behind |
| Frame scheduler (`scheduler.ts`) | in flight, eligible streams, timers | start, stop, pump, ack, fin, timeouts | every stream is served again |
| Firmware and serial protocol (`src/firmware`, `src/lib/Protocol`) | stream table, capture queue, trigger lines, strobe masks | CREATE, UPDATE, TERMINATE, FRAME, enable, interrupts | the verdict on a capture is what happened |
| Native camera streams (`core/lib/Aravis`) | tap queues, pairing | push, join, stop | pairs match; stop terminates |
| Vision kernels, calibration, user interface | numerical state, components | - | not a state machine |

Interactions: a window's port carries commands and pushes between renderer and
orchestrator (FIFO in each direction).  The runtime starts and ends a session's
activations; an activation takes cameras from the registry, pipes from the
broker, position inputs from the controller node; the registry waits behind the
gate that main opens.  Main forks and ends the orchestrators and asks them to
drain before a switch.  The controller node and the scheduler share one serial
link to the firmware, which triggers the cameras.  A recording taps the native
publishers.  Pixels bypass all of that through the ring.

Hard behaviours, as found in the code, are the `hazards` of `PROJECT.json`:
state read before an `await` and used after it (registry, session, client,
controller node), counts that have to survive reused names (broker), ids reused
while an answer is out (controller, scheduler), loads and stores seen one at a
time (ring), copies that cross (store, session state), and deaths, deadlines and
late answers between processes (main, recorder).

Smaller ones, looked at and not in that list: a superseded activation's late
failure shown over the next one (`resource-session.ts:147`) and its monitor's
late steps (`runtime.ts:267`); `drainForWindowSwitch` that answers while a
superseded acquisition is still in flight (`orchestrator/index.ts:504`); an ack
although disarming failed (`index.ts:522`); an app window closed while the
switch away from it is pending (`orchestrator-instances.ts:293`).

## 2. Modules

| Module | Models | Instantiated by |
|---|---|---|
| `ResourceSession` | one session: runtime and resource-session together, and main's switch drain | `MCResourceSession` |
| `CameraRegistry` | registry and gate, asynchronous callers | `MCCameraRegistry` |
| `PipeBroker` | renderers, pipes session and native hub, and the ports between | `MCPipeBroker` |
| `LossyStream` | abstract: what a source that keeps the newest promises a reader | refined by `ShmRing`, `SessionWire` |
| `ShmRing` | the seqlock ring, one shared-memory access a step | `MCShmRing` |
| `ShmClient` | a window's transfer-buffer pool, its readers, and the preload that fills the buffers | `MCShmClient` |
| `HardwareInstances` | main's instance registry, windows and quit; orchestrator processes; janitor and watchdog | `MCHardwareInstances` |
| `MirrorStreams` | position inputs of the controller node, stream ids, the firmware's stream table | `MCMirrorStreams` |
| `FrameCapture` | scheduler, pending requests of the link, the firmware's capture queue, the cameras' strobes | `MCFrameCapture` |
| `SessionWire` | the channel between a session and its windows: state, frames, calls | `MCSessionWire` |
| `ConfigStore` | one document in main, on disk and in its copies | `MCConfigStore` |
| `Recording` | recording service, recorder node, taps, writer thread | `MCRecording` |
| `ResourceSession_proofs`, `ShmClient_proofs`, `FrameCapture_proofs`, `ConfigStore_proofs`, `Recording_proofs` | theorems about the module of that name (section 5) | |
| `CameraPipes_proofs` | theorems about `CameraRegistry` and `PipeBroker` | |
| `Transport_proofs` | theorems about `ShmRing` and `SessionWire` | |
| `Hardware_proofs` | theorems about `HardwareInstances` and `MirrorStreams` | |

Three proof modules treat two components each.  What the second one calls by a
common name has a name of its own for that: `BrokerInit`, `BrokerNext`,
`BrokerSpec`, `BrokerTypeOK` in `PipeBroker`, and likewise `Wire...` in
`SessionWire` and `Streams...` in `MirrorStreams`.

A definition called `Mistake...` in front of a definition is a plausible bug in
the code that definition models.  No action uses them: `PROJECT.json` names one
for every checked property, and substituting it makes TLC find the property
violated.

### ResourceSession

A *generation* is the counter `gen` of the code: every activation and every idle
bumps it, so it names the asynchronous task.  `pc[g]` is where that task
stands, one value per stretch between two awaits:

    activation:  waiting -> acquiring -> (returning) -> trailing -> ended
    idle:        draining -> hook -> done

`SubscribePassive`, `SubscribeFirst`, `SubscribeJoin`, `Unsubscribe` are
`subscribe`/`unsubscribe` with `detach`; `DrainForWindowSwitch` and
`WindowSwitchGranted` the two halves of main's request.  `Acquired`,
`AcquiredLate`, `LateReleased` and `AcquireFailed` are the ends of one
`scope.use`; `RunCleanup` is one iteration of `Scope.drain`.

Abstractions: resources are numbered in the order the session's activate takes
them (the shape of every `activateSession`); their payload is left out.
`scope.defer` on a cancelled scope is fire-and-forget in the code and left out.
A busy session refuses a drain and changes nothing, so the refusal is no action.
`drainForWindowSwitch` loops over all camera-owning sessions; the model has one.

### CameraRegistry

A caller goes `out -> gate -> closes -> listing -> (configuring, registering) ->
out`; these are the awaits of the slow path.  Each opening creates an entry of
its own (the `Shared` record), so that a reopened camera is told from the closed
one.  `CloseShared`, `CloseSettles`, `ReleaseAll`, `ReleaseAllSettles` follow
the close promises.  The callers are arbitrary: sessions, `matchTriple`,
`retryUntil` and commands are all clients that call and release in some order.

`contended` (history) collects the serials for which two slow paths, or a slow
path and a close, overlapped.  The code has no provision for that (see the
findings), so the invariants speak of the other serials (`Quiet`); what
`RefsCountLeases` says of the reference counts holds for all.

`taken` is the local map of an `acquireMany` under way.  When the call throws
(`RegisterThrows`: advertising fails in its discovery pass, or later, in the loop
that leases serial by serial), the leases in it reach nobody but stay counted;
`stranded` (history) is how many, and the camera that was being opened stays in
the map without a lease.  `Camera.list()` opens transient
handles for enumeration; only the ones that stay are entries.

### PipeBroker

`uplink[c]` and `inbox[c]` are the two directions of a port.  The last message
of an uplink is its `closed` event; commands before it may be lost with the
renderer.  A `Slot` is a component that calls `usePipeFrame`: it is mounted on a
pipe, may be turned to another, is bound to the epoch of the last advert it saw,
and unmounts.  `ledger` is `channelCounts`; `refcount` and `producing` the
native publisher's count and gate.

`tainted` (history) collects the pipes some of whose counts were lost with a
drop under a consumer or a reconciliation cut short; `AccountsAgree` speaks of
the others.  Left out: pipes composed on demand and their materialisers, record
taps, and connects the orchestrator itself makes (`broker.connect` in
`calibrate-drift/session.ts`), which never enter the ledger.

### ShmRing and LossyStream

The writer stores an odd word, the payload (two words), the metadata, then the
even word, `latestSlot`, `latestSeq`; a reader loads in the order of
`readLatestInto` and `readSeqInto`.  The interleaving is sequentially
consistent: acquire loads, release stores and the fences give the orders the
algorithm needs on one writer's data, and weaker effects are not explored.  A
word stands for the number of the frame it was written for, so a copy is torn
exactly when its words differ.  All metadata is one word, which is also the
payload length: a frame of `BigFrames` does not fit the reader's buffer.
`Closed` is stored by the writer's thread between frames.

`LossyStream` says what a consumer may rely on: read forward, skip only what has
fallen `Depth` frames behind, learn the end only after the last frame.
`ShmRing!Stream` is the refinement mapping; a frame counts as published when its
slot becomes stable, before `latestSeq` says so.

### ShmClient

A transfer buffer is in one place: in `pools[s].free`, in a message of `requests`
or `answers`, or in `held[r]`, a reader's display.  A request id goes with one
buffer until the answer, so the buffer stands for the id and `pending` is the set
of buffers that somebody waits for.  A timeout takes the buffer out of `pending`
and nothing else: the message stays on its way, and `StaleAnswer` is what
`onDone` does with it.  `current[r]` is the poll in flight of a pipe consumer, or
the newest token of a frame ref, whose older flushes may still be in flight.

    pipe consumer:  new -> running -> (closed) -> stopped
    frame ref:      new -> attached -> disposed -> late

`late` is a ref whose channel came up after its scope was disposed of: the
`then` that listens cannot be cancelled.  `PipeAnswer` and `RefAnswer` are an
answer with the continuation it resolves, which runs before the next event.
The preload keeps a handle on each pipe's segment (`mapped`), which it drops
with the answer CLOSED.

Abstractions: a reader asks for one size; the retention window is a count of
elapsed windows (0, 1, 2 or more), which is all that `retentionCap` tells
apart; a frame ref's read yields a frame, none, or an error at will.
`readPipeSeq` differs from `readPipe` only in the outcomes and is left out.

### HardwareInstances

`phase`, `cleared`, `quiesced`, `janitorDone`, `drainTimer` are the fields of
`InstanceRec`; `win[i]` is the app window that owns instance `i`; `switch` the
instance that the pending `drainSessions` asks.  `proc[i]` is the process:

    running -> quiescing -> acked -> gone      shutdown, ack, reaped
    running -> exiting -> gone                 uncaught error or cold SIGTERM
    any     -> gone                            crash, SIGTERM while quiescing

`SpawnApp` is the tail of `openAppInner`: close the holders' windows, spawn,
fork, claim.  `OnExit` includes what follows it in the same turn of the event
loop, the resolution of a switch that waited for the dead instance.  There is
one janitor run at a time (`ensureJanitor`), and a death while it runs joins it.

Abstractions: an exit is reported after the messages the process got out, any
suffix of which is lost.  A janitor's sweep is one step.  `Arm` covers cameras
and mirrors; an acquisition that completes during the quiesce is one of the ways
in which `QuiesceMayFail`.  Left out: instances without hardware, attached
profiler windows, the classification into killed and crashed for display, the
probe, the development restart.  `late` (history) collects the deaths that
joined a janitor run which had swept already, `failed` the instances that acked
though their disarming failed and those whose janitor run did.

### MirrorStreams

`host` is a record and its code functions from a host to the next: what
JavaScript does between two awaits is one step.  An input goes
`new -> open -> closing -> closed`; `task[i]` is where its start stands:

    JS input:      idle -> (enabling) -> creating -> idle      on an update
    native input:  idle -> (enabling) -> creating -> (handoff) -> idle  when bound

and for either also `discarding`, the end of a stream that nobody wants any
more, and `unanswered`.  A JS input creates its stream with the first update,
unless a native one is attached or starting; a native input creates its own,
terminates those of the JS inputs (`handoff`), and is attached then.  A `Request`
carries its `role`, what the reply resumes in the code (`task`, `drop`, `close`,
`retire`, `unbind`, ...), and the `bind` of the device it was sent to.  `ids` is
`StreamIdPool.inUse`, `mcu.table` the firmware's, `mcu.active` the stream that
drives the DAC.  `Handle` is one command in the firmware's `loop()`;
`FrameStarts` and `FrameEnds` are a capture that pins a stream, during which the
firmware refuses to terminate it.

`refused`, `wiped`, `crowded` (histories) are what the properties except: a
TERMINATE that the firmware refused while the host frees the id all the same, a
user's disable that clears the table under live handles, and inputs that met
such a stream.

A device that is released still answers for the 10 ms that `destroy()` waits:
`ReceiveReply` resumes what waits as if nothing had happened.  Then its thread is
joined and a reply never comes (`LoseReply`): nothing is rejected, and the input
stays `unanswered`.  `deaf` says that the thread is gone, so that no later reply
of that device is read.  Firmware version 2 only, and a cable that stays plugged
in: on a hang-up nobody sweeps the pending requests either
(`sessions/controller.ts:115-118`, `Controller.cpp:1258-1262`), which is the same
end for all of them.

### FrameCapture

`host` joins the scheduler (`cursor`, `inFlight`, `activeStreams`, `resting`:
streams whose `nextEligibleAt` is to come) and the Device (`pending`); `open` are
the requests whose promise is not settled, `accepted` those with their ACK.
The firmware's `stage` follows `Capture.cpp`:

    idle -> popped -> (settling) -> triggered -> idle

`StartActive`, `SettleOver` and `Tick` are what `loop()` finds to do, `Rise` and
`Fall` the strobe interrupts of a camera that was `armed` by a trigger line.
`Elapse` is time: a pulse width, then the margin after which the firmware gives
up.  Packets stay in order; `LosePacket` is one that the framing drops as
damaged.  A sequence number is used again when nothing refers to it.

Strobes are as late and as short as the cameras make them; the code does not
relate exposure, delay, pulse and deadline.  Two histories say what that does:
`clouded`, that the request was taken up (`Clouded`) while a strobe of an
earlier trigger could still reach it, and `hasty`, the cameras whose exposure
ended before the pulse did (`BeforePulseEnds`), whose lines stay up.  Nor do the
streams trigger the same cameras; that is for a constant to say (`CamerasOf`).
Left out: clock calibration, the
trigger and actuate commands of the user interface, changing the targets while
running (a stop and a start).

### SessionWire

One session with a state field, a frame topic and commands.  `client.up[w]` and
`server.out[w]` are the two directions of a window's `Channel`; the views of a
window share it.  `server.subscribers` counts channels, as the code does, not
views.  `Emit` and `Post` send; `SendFrame` is the gate with its latest-wins
register and `FrameAck` what opens it.  `Drained` is the idle after the last
active subscriber, which clears the frame cache.  `Die` and `OrchestratorDown`
are the death of the process and the moment a window learns of it, `CloseWindow`
and `Detached` the other end.  A window that loads again is another window.

A view applies its own writes at once and the session tells the *other* windows,
so a write and an update that cross leave the two ends with different values;
`overtaken` (history) names those windows.  Views of one window share a
subscription and do not tell each other of their writes: `apart` (history) are
those that joined a subscribed window, or whose sibling wrote, until the next
update, and `deserted` those whose sibling left and took the subscription along.
`SettledViewsAgree` excepts these and no others.
`WindowStream` is the refinement mapping onto `LossyStream` with depth 1.

### ConfigStore

One document.  `main` has the value in memory, the queue of operations of all
clients and what is on its way down to each of them; `disk` the file, replaced
by a rename (`Commit`) after the temporary file was written.  `Begin`, `Commit`,
`Fail` are one queued operation; an orchestrator's copy waits for its answer
(`waiting`), a window's edits are diffs against what it last `tracked`.

`acknowledged`, `latest`, `behind`, `failed` (histories) are the newest version
a process was told of, what a client last made of a key, the windows that an
update has passed by, and whether memory is ahead of the file after a write that
failed.  Left out: a window that closes, `list`, one-shot reads, migrations, the
codec, the fallback that the first reader brings, a clear or read that fails,
`CoalescedWriter`.

### Recording

`start[s]` and `stop[t]` are calls of the service; a call of `start` that gets
through makes a node, which has its name.  `phase[s]` is the node:

    none -> running -> detaching -> finalizing -> (grace -> (joining)) -> released

A producer's tap admits a frame (`Admit`, under the stream's lock), copies it
and queues it (`Enqueue`); a full window sheds its oldest.  The writer takes,
writes, fails or gets stuck (`Stick`, `Unstick`).  `Deadline` and `GraceOver`
are the two time limits of the finalisation.  The one JavaScript thread waits in
the native calls that detach a tap and join the writer: `JsFree` is in the guard
of everything it does.

Nothing keeps a `start` from coming in while another waits in `prepare()`: both
build, and the service forgets the first one's node and acquisition.  `displaced`
(history) is what it has forgotten, there or when a node could not be built over
one that ran.  `Unstuck` names the recordings whose stuck write returns.  Left out:
the bytes of the container, telemetry extras and notices, which stream a drop is
attributed to, data channels that come and go, the poll for statistics.

## 3. Runs

Every run finishes within four minutes on two workers.

| Run | Bounds | What it shows |
|---|---|---|
| `session` | 2 windows, 2 resources, 4 generations, fair | leases have owners, superseded work returns them, a wanted session converges |
| `registry` | 2 callers, one of which asks for 2 cameras and the other for the first, 2 openings, advertising may throw, fair | counts, handles, forced closes; calls return |
| `broker` | 2 windows with 1 view each, a pipe advertised twice, 1 change to a pipe that never is, fair | producer follows demand; views are fed; unwatched pipes park |
| `ring` | 1 preview and 1 burst reader, 2 slots, 2 retries, 3 frames, the third too large, fair | intact frames, refinement of `LossyStream`, end |
| `pool` | 1 pipe consumer, 1 frame ref, 2 buffers of 2 sizes, 1 frame | ownership of buffers |
| `instances` | 2 instances, 2 drained switches, disarming and sweeping may fail, fair | one holder; what a grant may find armed; sweeps and grants happen |
| `streams` | 1 JS and 1 native input, 2 ids, 2 binds, 1 toggle by the user, 1 capture, fair | ids, orphans, the handoff; an input that updates drives the mirrors |
| `capture` | 2 streams of 1 camera, one with a settle time, 1 in flight, queue of 2, 2 sequence numbers, 1 fault, fair | flags and lines, answers, verdicts; every stream is served again |
| `wire` | 2 windows, 2 views in the one (1 passive) and 1 in the other, 1 call, 5 events, fair | settled views agree; refinement of `LossyStream`; newest frame shown; calls settle |
| `store` | 1 window and 1 orchestrator, 2 keys, 3 events | edits, copies and file through failed writes and crashes |
| `recording` | 2 recordings (2 items, none) of a stream and a data channel, whose starts may overlap, window of 1, a drain, stuck and failing writes, fair | accounting, order, pipes, stop ends |
| `recording_truncated` | 2 recordings (3 items, none), window of 2 | finding: the viewer is opened for a truncated file |

Each module also has a type invariant and a few weaker properties that no run
lists (`ProgressIsCurrent`, `ReleasedLastInFirstOut`, `OpenMeansShared`,
`AccountsAgree`, `LedgerMatchesViews`, `SettledViewsAreFed`, `OutstandingIsReal`,
`WorkingSetIsRetained`, `GoneReadersShowNothing`, `OneLiveInstance`,
`NoHeadlessInstance`, `SlotsAreThoseInFlight`, `AnswersFindTheirRequest`,
`GateIsWhatIsOnTheWay`, `HandleIsLive`, `EndsAreReached`, `RequestsAreAnswered`).
They hold in the configurations of their modules and are checked by adding them
there; `ProgressIsCurrent`, `ReleasedLastInFirstOut`, `OpenMeansShared`,
`OutstandingIsReal`, `WorkingSetIsRetained`, `GoneReadersShowNothing`,
`NoHeadlessInstance`, `SlotsAreThoseInFlight` and `AccountsAgree` are also
theorems.
`MCMirrorStreams_two.cfg` (two JS inputs), `MCConfigStore_windows.cfg` (two
windows), `MCFrameCapture_pair.cfg` (a stream of two cameras and one of one of
them, safety only) and `MCRecording_long.cfg` (three items for a window of two)
are other instances, run by hand; they pass.

Why these bounds are enough for the interesting cases.

* *Session*: four generations are two activations and two idles, the least in
  which an idle with nothing to drain follows one that still drains, and an
  activation is superseded twice; two resources are the least that order
  cleanups; two windows let interest overlap.
* *Registry*: two callers race for the first camera, and the second makes a
  discovery pass wait for one while another changes; two openings reopen.
* *Broker*: two windows compete for one count, two epochs reuse a name, and the
  view that turns to a pipe that is not there comes back between connect and
  reply.
* *Ring*: three frames on two slots recycle a slot, so that a reader can be a lap
  behind, and two retries can run out; `MAX_READ_RETRIES` is 8 in the code, and a
  larger number only adds attempts.
* *Pool*: two buffers let a reader time out, ask again and have a late answer,
  and two sizes evict each other.
* *Instances*: two give a succession, two switches a second one that races with
  the end of the first.
* *Streams*: one input of each kind is what a handoff needs; two ids let one be
  free while the other is refused; two binds let answers and closes meet a
  controller that came back.
* *Capture*: two streams are the least for a round robin and for a settle time
  between them; one camera of both has late strobes of the one reach the other;
  that a pair may strobe one by one, and that streams may differ in their
  cameras, is in the theorems and in `MCFrameCapture_pair.cfg`; a queue of two and
  two sequence numbers let a timed-out request be in the queue with its
  successor; one fault loses any one packet or disables at any one moment.  The
  queue has room for every stream, as the code's eight places have: with fewer,
  `ServedAgain` is false.
* *Wire*: two windows for an update that is echoed to the other; five events are
  a mount, two writes or frames that overtake, a drain and a death, or three
  mounts with a write and an unmount.
* *Store*: two keys for edits that must not clobber each other; three events are
  two edits and a failed write or crash between them.
* *Recording*: two items overflow a window of one, which the writer may empty
  between admission and enqueue; a second recording meets what the first left, or
  is built over it.

Deadlock is checked in the session and recording runs, where something can
always come.  The others reach a bound or an end (no more openings, all epochs
used, main or the orchestrator gone) and say so in their configuration.

### Fairness

Weak fairness, never on what a user or the environment may refrain from, with
one exception in *Recording*: strong fairness for continuations of the JavaScript
thread.

* *Session*: every promise an activation waits for settles (acquisitions end or
  fail, cleanups end) and the event loop runs ready continuations; nobody has to
  subscribe.
* *Registry*: main grants the hardware or does not; listing, configuring and
  closing end.
* *Broker*: while a port has a command or a message, some event loop takes one.
  Users act finitely often within the bounds, so this empties every port.
* *Ring*: consumers poll from a timer or a loop and a fill that began is
  finished; nobody has to write or close.
* *Instances*: event loops run, armed timers fire, the janitor has a ten-second
  deadline after which it is killed, and `quiesceAndExit` has its own of four
  seconds.  A graceful quiesce need not end by itself: `WaitingIsGranted` holds
  because main's deadline kills it.  That SIGTERM ends a process is the
  `HandleTerm` fairness: the code never escalates to SIGKILL, so a process too
  wedged to handle it is outside the claim.
* *Streams*: the port delivers (`ReceiveReply`) or, with the device released,
  loses (`LoseReply`), the firmware loops (`Handle`), and an open JS input is
  updated by the loop of its session (`Update`).  Nobody has to open, close,
  connect or toggle; a capture need not end.
* *Capture*: timers fire (`Wake`, `FinTimeout`, `Sweep`, `Elapse`), `loop()` runs
  (`Handle`, `StartActive`, `SettleOver`, `Tick`), the port delivers, and a camera
  that was triggered exposes and ends (`Rise`, `Fall`).  Losing packets, disabling
  and enabling are at will, and an ACK may time out or not.  `ServedAgain` speaks
  of a scheduler that runs on an enabled controller.
* *Wire*: channels deliver in both directions, a drain ends, a command that runs
  ends, and a window learns of the orchestrator's death.
* *Store*: main works its queue and channels deliver (needed only by
  `RequestsAreAnswered`).
* *Recording*: the JavaScript thread, the producers and the writer run, time
  limits elapse, and a stuck write returns in the recordings of `Unstuck`.
  Strong fairness is for the timers and for the continuation of `stop`: both wait
  in the queue of the event loop, so that their turn comes although the thread is
  busy again and again, while weak fairness would need it to stay free.

## 4. Findings

`recording_truncated` is a run that TLC ends with a counterexample to what a
comment of the repository says; the quotations are in `PROJECT.json`.  When a
write fails, the writer abandons the container and marks itself done
(`RecorderStream.cpp:415-435`, likewise a failing `end()`, 402-411), so that
`waitFinalize` resolves as it does after a complete file: the node reports no
truncation, and the service opens the viewer for the file
(`recording-service.ts:173-177`).

More of the same kind, each found with a configuration that is run by hand
(`tlc -config <cfg> <module>`).  Where the column says more than a file, the file
is changed as it says and lists only the property named; TLC reports that
property violated.  "X without Y" is the property X with its exception Y taken out,
which shows that the exception is needed.

| Configuration | Property | What the code does |
|---|---|---|
| `MCResourceSession_overlap.cfg` | `SerializedBehindDrains` | `lastDrain` holds only the newest idle: activate, idle, activate, idle in quick succession, and the third activation acquires while the first idle is still releasing (`resource-session.ts:159`, against `resource-session.ts:126-127`, `docs/spec/orchestrator-runtime.md:49-50`) |
| the same | `DrainedAwaitsEveryRelease` (property) | `drained()` awaits the newest idle only (`runtime.ts:188`, against `docs/architecture/sessions.md:47-49`) |
| the same | `ErrorIsOfCurrentActivation` | a superseded activation's failure is shown over the next (`resource-session.ts:147`, against `runtime.ts:384-385`) |
| `MCCameraRegistry_midrelease.cfg` | `NeverOpenedMidRelease` | `acquireMany` collects the pending closes once, before it enumerates; a camera whose last lease goes after that is opened in the middle of its release (`registry.ts:276`, against `registry.ts:107-109`) |
| `MCCameraRegistry_lastlease.cfg` | `ClosedWithLastLease` (property) | `acquireMany` leases into a local map; a later `acquire` of its loop that has to open a camera itself and throws takes the map along, and the counts stay: the camera is not closed when the last lease that anybody has is released (`registry.ts:291`, against `registry.ts:96`) |
| `MCCameraRegistry_midrelease.cfg` | `NeverOpenedTwice` (invariant) | two slow paths for one serial both register (`registry.ts:235`, against `registry.ts:8-9`) |
| `MCPipeBroker_broker.cfg`, `SPECIFICATION BrokerSpec`, `MaxSelects = 0` | `OthersCountsAreKept` | the ledger is keyed by pipe id: counts of a dropped epoch are given back to the next one, at another window's expense (`pipe-session.ts:215`, against `pipe-session.ts:212-214`) |
| the same, `Channels = {c1}`, `Slots = {a, b}`, `MaxEpoch <- OnceEach` | `ClosedChannelsHoldNothing` | reconciling a closed channel stops at the first dropped pipe (`pipe-session.ts:122`, against `pipe-session.ts:116-117`) |
| the same, `MaxEpoch <- OnlyLeft` | `ReconnectsOnEpochBump` | one view's unmount unsubscribes its whole window (`runtime.ts:395`, against `client.ts:427-429`) |
| the same | `MountedViewIsSeeded` | a second view of a window is never seeded (`runtime.ts:369`, against `pipe-contract.ts:102-103`) |
| `MCPipeBroker_broker.cfg`, `SPECIFICATION BrokerSpec`, `Channels = {c1}`, `MaxEpoch <- OnceEach`, `MaxSelects = 2` | `OneReaderPerView` | turning a view away and back starts two consumers (`client.ts:467`) |
| `MCShmRing_ring.cfg`, `SPECIFICATION Spec`, `LatestReaders = {}`, `BigFrames = {}`, `MaxFrames = 4` | `GoneJumpsForward` (property) | Gone can name the frame that was asked for (`ShmRead.cpp:215`, against `ShmRead.cpp:213-214`) |
| `MCShmClient_pool.cfg` | `NoRefComesUpLate` | a ref disposed of before the channel is up listens afterwards, and keeps a buffer (`client.ts:715`, against `client.ts:738-743`) |
| the same, without `SYMMETRY` | `CapCoversWhatIsOut` (property) | after two idle windows the cap forgets the buffers that were out until now (`shm-client.ts:232`, against `shm-client.ts:207-209`) |
| the same, `SPECIFICATION FairSpec`, `Refs = {}`, `Sizes = {1}`, `SizeOf <- OneSize` | `ClosedIsHeard` (property) | CLOSED is answered once: if that answer is late, the next polls fail to open the segment and the consumer polls on, until its pipe's advert goes (`preload-renderer.ts:124`, against `pipe-consumer.ts:9`) |
| `MCHardwareInstances_quit.cfg` | `QuitLeavesHardwareSafe` | quit waits for deaths, not for the janitor; an instance that dies unacked in the last moment leaves the hardware armed, and the watchdog has been told to stand down (`main.ts:1503`, against `main.ts:1472-1475`, `docs/spec/windows.md:102-103`) |
| the same, `QuiesceMayFail = TRUE` | `AckMeansReleased` | a quiesce whose disarming failed acks (`orchestrator/index.ts:521-529`, against `docs/spec/windows.md:79-81`) |
| the same, `MaxSwitches = 2` | `WelcomeComesBack` | the app window closes during a switch that is then refused: no window comes back (`window-manager.ts:181`, against `window-manager.ts:175-176`) |
| the same, `MaxInstances = 3`, `MaxSwitches = 2` | `GrantAfterSweep` (property) | a death joins a janitor run that has swept already, and counts as swept (`main.ts:517`, against `orchestrator-instances.ts:9-11`) |
| `MCMirrorStreams_handoff.cfg` | `AttachedStreamDrives` | the firmware gives the DAC to a stream that is created while none has it, and to none when that one ends (`Streams.cpp:54`, `81`); the handoff terminates the JS stream after the native one was created, which then drives nothing until a capture (against `controller-node.ts:314-317`) |
| the same | `AttachedSinkIsLive` | the native input is closed during its handoff, and `onAttach` comes for a sink that has gone (against `controller-node.ts:87`) |
| the same | `UnusedIsDisabled` | an enable that is acknowledged after its input was closed sets `enabledByUs` when nobody is left to disable (against `docs/spec/controller.md:40-41`) |
| `MCMirrorStreams_lostreply.cfg` | `NextUpdateRetries` (property) | `destroy()` joins the thread that reads and sweeps replies and rejects nothing: an input whose ENABLE or CREATE is unanswered then stays in `creating`, and no update of it sends anything again, with any controller (`Controller.cpp:1028`, against `controller-node.ts:461`) |
| `MCMirrorStreams_ours.cfg` | `BoundIsNotYetOurs` (property) | an ENABLE acknowledged after the unbind that cleared `enabledByUs` sets it again; the controller bound next is taken for one that the node has enabled, and disabled with the last input although only the user has enabled it (`controller-node.ts:285`, against `docs/spec/controller.md:40-41`) |
| `MCFrameCapture_pair.cfg` | `RisenIsOfTheRequest` (property) | a request starts by clearing the bits of its own cameras only; `risenMask`, with that of another, is compared with its cameras for equality, and the request fails although its camera exposed (`Capture.cpp:235`, `332`, against `Capture.cpp:127-131`).  The sessions of the repository request both cameras always |
| `MCFrameCapture_capture.cfg` | `LinesRest` without `hasty` | an exposure shorter than the trigger pulse ends the request with its line up: the next request of the camera makes no edge (`Capture.cpp:249-251`) |
| the same | `FinIsItsOwn` without `clouded` (property) | a strobe that comes after the firmware gave up on it is taken for the next request's |
| the same | `VerdictIsRight` without `clouded` | likewise for the camera's bit in `risenMask` |
| `MCSessionWire_siblings.cfg` | `MountedViewKeepsSession` | subscriptions are a set of channels: one view's unmount ends the session under its sibling (`runtime.ts:395`) |
| `MCSessionWire_wire.cfg` | `SettledViewsAgree` without `deserted` | the sibling's state refs are not updated any more |
| the same | `SettledViewsAgree` without `apart` | a view that joins a subscribed window is not seeded (`runtime.ts:369`), and siblings are not told of each other's writes |
| the same | `ViewsStayConsistent` | a write and an update that cross leave the two ends with different values (`runtime.ts:351-352`) |
| the same | `PreviewsAreCurrent` | a frame published while the session drains is cached after the cache was cleared, and shown in the next activation (against `runtime.ts:399`) |
| the same, `CallsAfterDown = TRUE` | `CallsSettle` (property) | a call on a channel that is closed already waits for ever (against `protocol.ts:387-389`) |
| `MCConfigStore_windows.cfg` | `EveryWindowAgrees` | of two windows that edit different keys at once, one has its own edit replaced by the notification of the other's: the file has both, the window one, until the document changes again (`store.ts:94`, against `store.ts:10-11`, `docs/spec/store.md:72-75`) |
| `MCConfigStore_store.cfg` | `ClearedIsGone` | `Store.clear` of an object that is open deletes its keys, which is an edit: its patch follows the clear and writes the file again, empty (`store.ts:118-119`) |
| the same, `Copies = {a, b, p}`, `HolderOf <- Twice`, `MaxEvents = 1` | `WindowsAgree` | two overlapping calls of `Store.open` for a document make two copies, and the second takes the notifications away from the first (`store.ts:94`) |
| `MCRecording_recording.cfg` | `FinalizedBeforeLeases` | a drain that meets a window's `stop()` under way returns at once, and the leases go before the recording is finalised (against `calibrate-distortion/session.ts:182`) |
| the same | `IdleHoldsNothing` without `displaced` | `start()` calls that overlap in `prepare()` both build; the first one's pipes stay acquired |
| the same, `Unstuck = {}` | `StopReturns` (property) | a write that never returns: the deadline and the grace pass, and then destroying the recorder joins its writer (`recorder-node.ts:677-679`, `698-701`, against `docs/spec/capture-recording.md:172-181`) |

Seen on the way and not stated as a property: a native input whose attach failed
tries again only with the next bind; a store write that failed stays in memory
and goes to disk with the next change; destroying a recorder frees what a pending
`waitFinalize` still uses; data items queue without bound after the writer died.

## 5. Proofs

The eight proof modules are checked by TLAPS for every value of the constants
that satisfies the modules' assumptions: any windows, resources and generations;
any finite set of callers, any cameras and any division of the cameras among
them; any finite set of channels, any components and pipes; any readers, slots,
retries and frames; any windows, views and calls; any finite sets of buffers and
readers, and any sizes; any number of instances and switches; any inputs and any
number of stream ids, binds and captures; any targets, cameras and queue; any
windows, processes, copies and keys; any starts, stops, streams and windows of a
recording's queue.  Whether advertising, disarming or sweeping may fail is a
constant too, and both cases are proved.  The assumptions are what the models
could not be read without: sets that are counted are finite, bounds are natural
numbers, there is a camera and a target, windows are not processes, and the
values that stand for "nothing" are none of the others.

In each module the argument is one inductive invariant with a lemma per action,
and the properties follow from it.

`ResourceSession_proofs`.  `Typing` is `Spec => []TypeOK`.  `ActiveIffActivated`
and `OnlyCurrentScopeRegisters` are not inductive: that an unsubscription ends
the right activation depends on which generation the scope names, on generations
above the counter being unborn, and on which tasks may still open a scope.
`Lifecycle` proves the invariant that says so; `ActivityAgrees` and
`OnlyCurrentRegisters` follow from it.

`Leases` is the same for what is leased.  A scope's cleanups grow upwards, below
the resource that its activation takes next; what a drain has still to run reads
downwards; no two drains have the same scope, since the first marks it as
draining; and a resource is leased exactly while one of its owners knows it
(`HeldIffOwned`).  `NoLeaseIsLost` and the action property `LastInFirstOut`
follow from these.  `ProgressOfCurrent` needs one thing more, that an idle
session shows no progress.

`CameraPipes_proofs`, on the registry.  `Counting`: a reference count is the
number of those who lease the record, and of the leases that went with a call
that threw.  It is kept because leases name records that exist, a call never
leases what it holds already (`NoLeaseOnTodo`), and what a call has taken so far
is among its leases.
This needs no exception and gives `CountsAreLeases`.  `Handles` is about the
serials for which no two slow paths, and no slow path and a close, have
overlapped: what is open is the shared handle, what is closing is remembered as
pending, at most one call discovers the camera, a close that is pending for a
call's camera is one that the call awaits, and what a call is about to open is
not shared.  `OneHandle`, `SharedHandle` and the action property `LetsGo`
follow; for the last, whatever existed when `releaseAll` began is awaited until
it is released.

The same module, on the broker.  The publisher counts consumers and the session
counts who they are; the two agree because every path that changes one changes
the other, or spoils the pipe.  `AccountsInvariant` says so: the publisher's
count is the sum of the ledger over the channels, except for tainted pipes
(`AccountsAgree`), a pipe that is no longer advertised while a channel counts it
is one (`DroppedAreTainted`), and its producer runs exactly while the pipe is
advertised and counted.  `ProducersFollowDemand` and `CountsAreLedgered` follow.

`Transport_proofs`, on the ring.  `Typing` as above.  `FramesAreIntact` speaks
of what was delivered; the argument of a seqlock is about copies in progress.
`RingSafety` proves the invariant: a slot whose word is even holds one whole
frame, a slot's word only grows, the writer's slot is odd while it is filled,
and a reader whose `before` word still stands in the slot has so far copied
words of that frame.  `IntactFrames` follows, since a delivery is preceded by
the last comparison.

`Places` adds where frames lie (each in the slot of its number, until a later
one takes its place) and where readers are (behind the writer, in the slot that
holds the frame they want or a later one).  `ClosedIsTheEnd` and
`TooSmallIsTrue` follow, and `RingImplementsStream`: under the mapping `Stream`
every load and store is a step of `LossyStream` or a stutter.  This is the whole
refinement, because `LossyStream` states no fairness.

The same module, on the wire.  For the frames of a channel (`ChannelFrames`):
those on the way are in order, not older than what the window was given nor newer
than the session's newest; the one that waits is behind them, and waits only at
a shut gate; without interest there is none on the way and none waiting.  So
every step of the wire is a publication, a join or a taking of `LossyStream`, or
a stutter (`WindowsImplementStream`).

For the values, `SettledViewsAgree` is about an empty channel and the argument
about a full one, with the views of a window sharing its subscription.  For each
view (`WindowSubs`) the channel has what it needs and no message on the way takes
it (`Held`), or a subscription on the way brings it for good (`Kept`), unless a
sibling took it (`deserted`); and one that is not `apart` either will be seeded
by that subscription, because all earlier ones end before it (`ToCome`).  Then
`WindowTold`: if writes are on their way up, the last is what the view shows; if
updates are on their way down, the last is what the session has; with neither the
two are equal; and unless they have crossed there are never both.  `ViewsSettle`
is what this says of an empty channel.

`ShmClient_proofs`.  Buffers come back in many ways: a late answer, an outdated
flush, a frame that the next one displaces, the display of a reader that stops.
All of them are one kind of step, `Returned`: of the buffers that an answer and
a display hold, each goes to the pool or stays on the display.  `Pool` proves
that this keeps buffers apart and the counts equal to the number of buffers that
are out, covers the peaks, and leaves nothing with readers that are gone.
`OneOwner`, `CountsAreReal`, `WorkingSet` and `GoneShowNothing` read this off.

`Hardware_proofs`, on the instances.  `OneHolder` speaks of processes and
hardware, the registry decides on what it was told.  `InstancesInv` joins the
two: a process is gone before main calls its instance dead; of two cleared
instances one is dead (kept by a grant, since every other born instance must be
released); a `clear` is in a mailbox only of a cleared instance, a gate is open
only after it, and only an open gate arms.  That forks take the next number
(`BirthsInOrder`) is needed to know that a fork never touches an instance that
lives.  `HardwareHasOneHolder` and `NoInstanceIsHeadless` follow.

`GrantsFindHardwareSafe` says what can be armed when the hardware is granted, with
disarming and sweeping that may fail.  `SafeInv` says that an instance that acked
has disarmed, wherever its ack is by now, that the janitor runs only for the dead,
and that whom it has swept holds nothing, all of it except for those that are
excused (`Excused`): deaths that joined late, and failures.  A grant asks for
every other instance to be released, and what is released acked or was swept.

The same module, on the mirrors.  The host frees and reuses ids, inputs and
connects by what it waits for, and all of that is on the wire.  A request
answers for things (`Claims`): the id it carries, the task of the input that
waits for it, the close it ends, the connect or disconnect it is a step of.
`MirrorsInv` says that no two requests on the wire answer for the same thing
(`Apart`), that the host is in the state that what is answered for says (`Sane`:
an id out of the pool is a stream's or a request's and not both, an input has a
task exactly while a request answers for it), and that the firmware's table has
no stream but those of ids that are out and those it refused to end.  Every
function of the host is one lemma on `Sane`, so that an action is the
composition of a few of them.  `EveryStreamIdHasOneOwner` reads this off for
every state; `NoStreamOutlivesItsInput` and `AttachedNativeIsAlone` for an empty
wire, on which nothing is answered for.

`FrameCapture_proofs`.  What the scheduler counts (`Slots`) and what the
firmware flags (`Flags`) hold of the code as it stands.  `Slots` needs that a
pump finds as many targets as it has room for, which is where the theorems on
finite sets and well-founded orders come in.  The rest depends on the cameras,
whose strobes may be late or short.  A request that no earlier strobe can reach
finds its cameras at rest from when it is taken up until its trigger
(`RestBefore`), and from then on what the interrupts collect of its cameras is its
own (`OwnExposure`): so a FIN tells of its own exposure (`OwnFin`), and a request
is over when its cameras have exposed (`Verdicts`), which for a camera that is not
its own says only that its bit may be in the way.  `Lines` does not need this: a
strobe that rose since the masks were reset is still high, or was over before the
pulse was (`RisenBeforePulse`), so a request that ends before its pulse has only
`hasty` lines up.

`ConfigStore_proofs`.  `TypeCorrect` as above.  `AcknowledgedIsInTheFile`
compares a process's newest answer with the file; it is not inductive, because
the answer was on its way before.  `StoreInv` adds `AnswersAreReached` (an
answer in a channel names a version the file has reached) and `WrittenForOne`
(the file is written only while the queue has an operation, so that a crash
leaves it before or after just that one).  The versions only grow (`Commit`,
`Recovered`), so both are kept; `AcknowledgedSurvives` follows.

`Agreement` is about documents.  Its notion is the last word of a queue on a
question: what the last operation that touches a key makes of it, or the last
message that brings a document; where none does, it is what there was before.
The last word of main's queue on an edited key is somebody's latest edit
(`SomeoneIsRight`), and the last word of a process's mailbox is the document
that main has in memory (`ProcessesInformed`).  With an empty queue and mailbox
these are the file and the copy: `EveryEditSurvives` and `ProcessesHaveIt`.

A window is not told of its own edits, so for it the last word of its mailbox is
not enough.  `Informed` looks at whose operations are queued as well.  With an
update on the way, the last one brings what main has in memory, unless main is
writing, and nothing of the window's own is queued.  With none on the way and
nobody else's operation queued, what the window shows of a key is the last word
of the queue.  Otherwise somebody else's operation is queued, of which it will be
told.  `WindowsHaveIt` is what is left with both empty.  It assumes `OpenedOnce`:
no window opens the document twice.  `registry` (`store.ts:58-62`) sees to that
unless two calls of `open` overlap, and then the property is false (section 4).

`Recording_proofs`.  `NothingStaysHeld` holds whatever calls of the service
overlap.  `LifecycleInv` says that whoever holds a pipe is the service's node, or
one that a `stop` waits for, or forgotten (`HoldersAreKnown`; likewise what is
acquired), that a service which is not active knows nothing or is waited for
(`RestingKnowsNothing`), that only what was built has a name anywhere
(`NamesAreBuilt`), and that a node that is being stopped has no tap and does not
run (`StoppingIsDetached`).  It carries the types it needs (`LifecycleTypes`).

`Accounting` is about the items.  For each recording: the mark of the end is
behind all frames, a frame never overtakes an earlier one of its stream, every
admitted frame is in a producer's hand, queued, being written, in the file, shed
or late and in one of these only, and what was shed had a full window of newer
frames of its stream behind it.  `EveryFrameIsAccounted` and `NewestWins`
follow.

Only model-checked:

* Liveness under fairness, ENABLED, and what recursively defined operators compute
  for every input: outside what TLAPS 1.4.5 proves.
* The weaker properties of section 3 that are not named there as theorems, and
  the properties of section 4, which are false.

## 6. Plan

Done: the modules of section 2, eight of them proof modules.  Next, in order:

1. `SessionCameras`: `ResourceSession` composed with `CameraRegistry` (leases of a
   superseded activation, the window switch over both), with the manage-cameras
   session as a client whose refreshes overlap.
2. `PairStream` (`core/lib/Aravis`): tap queues, the pairing join, stop.
3. `ComposedNodes` (compose/decompose in `pipe-session.ts`), on `PipeBroker`.
4. The trigger and actuate commands of the controller, on `MirrorStreams`.
5. Proofs: `AnswersFindTheirRequest` of `FrameCapture`; `GateIsWhatIsOnTheWay`
   of `SessionWire`.

## 7. Not modelled

The table of components in `PROJECT.json` says for each why.

* Vision kernels, calibration mathematics, viewers and the user interface are by
  far most of the repository's lines.  They are numerical code and Vue
  components; their state is what they show, and the concurrency they meet is
  that of the session, the pipe and the store they use, which are modelled.  The
  modelled share of the lines is therefore small.
* The sessions under `modules/` (manual control, disparity scope, calibrations)
  are clients: what they do with cameras, pipes, inputs and recordings is any
  order of calls in the models of these.  What they compute is not modelled.
* The capture helper runs one job at a time in a worker and keeps nothing.
* Native camera streams and their pairing are next in the plan.
* The container format, the store's codec and migrations, COBS framing and image
  encoding are conversions; where a failing one matters it is an outcome (a
  write that fails, a packet that is dropped).

Within the modelled components the omissions are named under each module above.
