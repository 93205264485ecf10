---------------------------- MODULE MirrorStreams ----------------------------
(***************************************************************************)
(* Who drives the MEMS mirrors: the position inputs of the controller node *)
(* and the stream table of the microcontroller.                            *)
(*                                                                         *)
(* A session opens a position input of the controller node                 *)
(* (app/orchestrator/controller-node.ts).  A JS input creates its          *)
(* CMD_STREAM on the first update, a native input attaches a sink as soon  *)
(* as a controller is bound; while a native input is attached or attaching *)
(* the JS inputs keep off the wire.  Stream ids come from a pool of the    *)
(* Controller (app/orchestrator/controller.ts), which is also what enables *)
(* and disables the mirrors.  The firmware keeps a table of streams and    *)
(* lets one of them, the active one, drive the DAC                         *)
(* (firmware/src/Streams.cpp, Protocol.cpp).                               *)
(*                                                                         *)
(* Requests and replies travel in order through the serial port.  What     *)
(* JavaScript does between two awaits is one step, so the host is a record *)
(* and its code functions from a host to the next.  Firmware v2 only, and  *)
(* a cable that stays plugged in.                                          *)
(***************************************************************************)
EXTENDS Naturals, Sequences, FiniteSets, SequencesExt

CONSTANTS
  JsInputs, NativeInputs,  \* position inputs, each opened once
  Capacity,                \* Streams::CAPACITY
  MaxBinds,                \* bound: how often a controller is connected
  MaxToggles,              \* bound: enables and disables by the user
  MaxFrames                \* bound: triggered captures

ASSUME InputsAssumption ==
  JsInputs \intersect NativeInputs = {} /\ IsFiniteSet(NativeInputs)
ASSUME BoundsAssumption ==
  /\ Capacity \in Nat \ {0} /\ MaxBinds \in Nat
  /\ MaxToggles \in Nat /\ MaxFrames \in Nat

Inputs == JsInputs \union NativeInputs
Ids == 0..(Capacity - 1)
NoId == Capacity                    \* also INVALID_ID of the firmware
Binds == 0..MaxBinds                \* 0: no controller
Nobody == "nobody"

\* Why a request was sent is what its reply resumes.
Request ==
  [op : {"enable", "disable", "create", "terminate"}, id : Ids \union {NoId},
   bind : Binds, by : Inputs \union {Nobody},
   role : {"task", "drop", "handoff", "close", "retire", "unbind", "release",
           "ready", "user"}]

Host ==
  [port : Binds,             \* the Device that is open
   bound : Binds,            \* ControllerNode.controller, activeController()
   enabled : BOOLEAN,        \* Controller._enabled of the open device
   ids : SUBSET Ids,         \* StreamIdPool.inUse of the open device
   enabledByUs : BOOLEAN,
   life : [Inputs -> {"new", "open", "closing", "closed", "unanswered"}],
   stream : [Inputs -> Ids \union {NoId}],  \* of `stream` or `handle`
   task : [Inputs -> {"idle", "enabling", "creating", "handoff", "discarding",
                      "unanswered"}],   \* idle: `creating` is false
   attached : [NativeInputs -> BOOLEAN],    \* onAttach, not yet onDetach
   uplink : Seq(Request)]

VARIABLES
  host,
  mcu,       \* the firmware: system_enabled, the table, pendingFrame, activeId
  downlink,  \* replies on their way to the host
  deaf,      \* the receiving thread of a released device has stopped
  binds, toggles, frames,   \* how much of the bounds is used up
  refused,   \* history: streams in the table whose TERMINATE was refused
  wiped,     \* history: the user's disable has cleared a table in use
  crowded    \* history: inputs whose CREATE found another stream there, or
             \* beside whose stream another one was captured

streamsVars ==
  <<host, mcu, downlink, deaf, binds, toggles, frames, refused, wiped, crowded>>
history == <<refused, wiped, crowded>>

StreamsTypeOK ==
  /\ host \in Host
  /\ mcu \in [on : BOOLEAN, table : SUBSET Ids, held : SUBSET Ids,
              active : Ids \union {NoId}]
  /\ downlink \in Seq([req : Request, ok : BOOLEAN]) /\ deaf \in BOOLEAN
  /\ binds \in 0..MaxBinds /\ toggles \in 0..MaxToggles
  /\ frames \in 0..MaxFrames
  /\ refused \subseteq Ids /\ wiped \in BOOLEAN /\ crowded \subseteq Inputs

StreamsInit ==
  /\ host = [port |-> 0, bound |-> 0, enabled |-> FALSE, ids |-> {},
             enabledByUs |-> FALSE,
             life |-> [i \in Inputs |-> "new"],
             stream |-> [i \in Inputs |-> NoId],
             task |-> [i \in Inputs |-> "idle"],
             attached |-> [n \in NativeInputs |-> FALSE],
             uplink |-> <<>>]
  /\ mcu = [on |-> FALSE, table |-> {}, held |-> {}, active |-> NoId]
  /\ downlink = <<>> /\ deaf = FALSE
  /\ binds = 0 /\ toggles = 0 /\ frames = 0
  /\ refused = {} /\ wiped = FALSE /\ crowded = {}
-----------------------------------------------------------------------------
(* The Controller: stream ids, and requests to the device.                 *)

Asked(h, op, id, by, role) ==
  [op |-> op, id |-> id, bind |-> h.port, by |-> by, role |-> role]
Sent(h, op, id, by, role) ==
  [h EXCEPT !.uplink = Append(@, Asked(h, op, id, by, role))]

MistakeAnyId(h) == Ids
MistakeLeakId(h, req, ok) ==
  CASE req.op = "enable" /\ ok -> [h EXCEPT !.enabled = TRUE]
    [] req.op = "disable" /\ ok -> [h EXCEPT !.enabled = FALSE]
    [] req.op = "terminate" -> [h EXCEPT !.ids = @ \ {req.id}]
    [] OTHER -> h

Free(h) == Ids \ h.ids

\* The Controller's part of a reply; a TERMINATE frees its id whether or not
\* the firmware agreed.
Acknowledged(h, req, ok) ==
  CASE req.op = "enable" /\ ok -> [h EXCEPT !.enabled = TRUE]
    [] req.op = "disable" /\ ok -> [h EXCEPT !.enabled = FALSE]
    [] req.op = "terminate" \/ (req.op = "create" /\ ~ ok) ->
         [h EXCEPT !.ids = @ \ {req.id}]
    [] OTHER -> h
-----------------------------------------------------------------------------
(* The controller node: inputs, their tasks and what ends them.            *)

Idle(h, i) == [h EXCEPT !.task[i] = "idle"]
Counted(h) == {i \in Inputs : h.life[i] \in {"open", "closing", "unanswered"}}
Streaming(h, S) == {i \in S : h.stream[i] # NoId}

\* engagedOrPending of some native input.
NativeEngaged(h) ==
  \E n \in NativeInputs :
    h.life[n] = "open" /\ (h.task[n] # "idle" \/ h.stream[n] # NoId)

\* createStream(), of a controller that is enabled.
AskedToCreate(h, i) ==
  IF h.port = 0 \/ Free(h) = {} THEN Idle(h, i)
  ELSE Sent([h EXCEPT !.task[i] = "creating", !.ids = @ \union {Min(Free(h))}],
            "create", Min(Free(h)), i, "task")

\* ensureStream() of a JS input, sync() of a native one.
Started(h, i) ==
  IF h.enabled THEN AskedToCreate(h, i)
  ELSE Sent([h EXCEPT !.task[i] = "enabling"], "enable", NoId, i, "task")

CanStart(h, i) == h.bound # 0 /\ h.stream[i] = NoId /\ h.task[i] = "idle"
Synced(h, n) ==
  IF h.life[n] = "open" /\ CanStart(h, n) THEN Started(h, n) ELSE h

\* dropStream() and drop() of an input that holds a stream.
Dropped(h, i, by, role) ==
  Sent([h EXCEPT !.stream[i] = NoId,
                 !.attached = [n \in NativeInputs |-> @[n] /\ n # i]],
       "terminate", h.stream[i], by, role)

MistakeDisableEarly(h) ==
  IF ~ h.enabledByUs \/ h.bound = 0 THEN h
  ELSE Sent(h, "disable", NoId, Nobody, "retire")

\* disableIfLast(): the last one out disables what the node enabled.
DisabledIfLast(h) ==
  IF Counted(h) # {} \/ ~ h.enabledByUs \/ h.bound = 0 THEN h
  ELSE Sent(h, "disable", NoId, Nobody, "retire")
MistakeStay(h, i) == DisabledIfLast(h)
Retired(h, i) == DisabledIfLast([h EXCEPT !.life[i] = "closed"])

MistakeForgetClose(h, i, bind) ==
  h.bound # bind \/ (i \in JsInputs /\ NativeEngaged(h))
MistakeForgetNative(h, i, bind) == h.life[i] # "open" \/ h.bound # bind

\* What an input checks when its stream is there: it may have been closed, the
\* controller may be gone, a native input may have come in between.
Outdated(h, i, bind) ==
  \/ h.life[i] # "open"
  \/ h.bound # bind
  \/ i \in JsInputs /\ NativeEngaged(h)

\* handoffToNative(), one dropStream() after the other, then onAttach().
Handoff(h, n) ==
  LET js == Streaming(h, JsInputs)
  IN  IF js = {} THEN Idle([h EXCEPT !.attached[n] = TRUE], n)
      ELSE Dropped([h EXCEPT !.task[n] = "handoff"],
                   CHOOSE i \in js : TRUE, n, "handoff")

Created(h, i, id, bind) ==
  IF Outdated(h, i, bind)
    THEN IF h.port # bind THEN Idle(h, i)
         ELSE Sent([h EXCEPT !.task[i] = "discarding"], "terminate", id, i, "task")
    ELSE LET held == [h EXCEPT !.stream[i] = id]
         IN  IF i \in JsInputs THEN Idle(held, i) ELSE Handoff(held, i)

\* unbindController() drops JS streams, then native ones, each awaited; then
\* disconnect() disables, and the device disables once more and closes.
Unbinding(h) ==
  LET js == Streaming(h, JsInputs)
      left == IF js # {} THEN js ELSE Streaming(h, NativeInputs)
  IN  IF left # {} THEN Dropped(h, CHOOSE i \in left : TRUE, Nobody, "unbind")
      ELSE IF h.enabled THEN Sent(h, "disable", NoId, Nobody, "unbind")
      ELSE [Sent(h, "disable", NoId, Nobody, "release")
              EXCEPT !.port = 0, !.ids = {}]

\* bindController(), when Controller.ready has resolved: every native input syncs,
\* and asks for the enable that `ready` has just undone.
Bound(h) ==
  LET bound == [h EXCEPT !.bound = h.port]
      syncing == SetToSeq({n \in NativeInputs : h.life[n] = "open" /\ CanStart(bound, n)})
  IN  [bound EXCEPT
         !.task = [i \in Inputs |-> IF i \in Range(syncing) THEN "enabling" ELSE @[i]],
         !.uplink = @ \o [k \in DOMAIN syncing |->
                            Asked(h, "enable", NoId, syncing[k], "task")]]

\* What goes on when a request is answered.
Resumed(h, req, ok) ==
  LET i == req.by IN
  CASE req.role = "task" /\ req.op = "enable" /\ ok ->
         AskedToCreate([h EXCEPT !.enabledByUs = TRUE], i)
    [] req.role = "task" /\ req.op = "create" /\ ok ->
         Created(h, i, req.id, req.bind)
    [] req.role = "task" /\ (~ ok \/ req.op = "terminate") -> Idle(h, i)
    [] req.role = "handoff" -> Handoff(h, i)
    [] req.role = "close" -> Retired(h, i)
    [] req.role = "retire" -> [h EXCEPT !.enabledByUs = FALSE]
    [] req.role = "unbind" -> Unbinding(h)
    [] req.role = "ready" -> Bound(h)
    [] OTHER -> h

\* What an answer that never comes leaves: the input that waits, in its task or in
\* its close(), waits for ever.
Unanswered(h, req) ==
  [h EXCEPT
     !.task = [i \in Inputs |-> IF i = req.by /\ req.role \in {"task", "handoff"}
                                 THEN "unanswered" ELSE @[i]],
     !.life = [i \in Inputs |-> IF i = req.by /\ req.role = "close"
                                 THEN "unanswered" ELSE @[i]]]
-----------------------------------------------------------------------------
(* The host's actions.                                                     *)

HostStep(h) == host' = h /\ UNCHANGED <<mcu, downlink, frames, history>>

\* openPosition(), openNativePosition().
Open(i) ==
  /\ host.life[i] = "new"
  /\ LET opened == [host EXCEPT !.life[i] = "open"]
     IN  HostStep(IF i \in JsInputs THEN opened ELSE Synced(opened, i))
  /\ UNCHANGED <<binds, toggles, deaf>>

\* update(): volts for the stream of this input if it may have one.
Update(j) ==
  /\ host.life[j] = "open" /\ host.bound # 0
  /\ \/ NativeEngaged(host) /\ host.stream[j] # NoId
        /\ HostStep(Dropped(host, j, Nobody, "drop"))
     \/ ~ NativeEngaged(host) /\ CanStart(host, j)
        /\ HostStep(Started(host, j))
  /\ UNCHANGED <<binds, toggles, deaf>>

Close(i) ==
  /\ host.life[i] = "open"
  /\ LET closing == [host EXCEPT !.life[i] = "closing"]
     IN  HostStep(IF host.stream[i] = NoId THEN Retired(closing, i)
                  ELSE Dropped(closing, i, i, "close"))
  /\ UNCHANGED <<binds, toggles, deaf>>

\* connect(): a Controller whose `ready` begins by disabling the device.
Connect ==
  /\ host.port = 0 /\ host.uplink = <<>> /\ downlink = <<>> /\ binds < MaxBinds
  /\ binds' = binds + 1 /\ deaf' = FALSE
  /\ HostStep(Sent([host EXCEPT !.port = binds', !.enabled = FALSE],
                   "disable", NoId, Nobody, "ready"))
  /\ UNCHANGED toggles

Disconnect ==
  /\ host.bound # 0
  /\ HostStep(Unbinding([host EXCEPT !.bound = 0, !.enabledByUs = FALSE]))
  /\ UNCHANGED <<binds, toggles, deaf>>

\* The switch in the title bar.
Toggle(op) ==
  /\ host.bound # 0 /\ toggles < MaxToggles /\ toggles' = toggles + 1
  /\ HostStep(Sent(host, op, NoId, Nobody, "user"))
  /\ UNCHANGED <<binds, deaf>>

\* A reply arrives.  Those of a device that is released come while destroy() waits
\* for it, and resume their requests as the firmware answered them,
ReceiveReply ==
  /\ downlink # <<>>
  /\ LET req == Head(downlink).req
         ok == Head(downlink).ok
         live == req.bind = host.port
     IN  /\ live \/ ~ deaf
         /\ host' = Resumed(IF live THEN Acknowledged(host, req, ok) ELSE host, req, ok)
  /\ downlink' = Tail(downlink)
  /\ UNCHANGED <<mcu, deaf, binds, toggles, frames, history>>

\* or, once destroy() has joined the thread that reads them, never.
LoseReply ==
  /\ downlink # <<>> /\ Head(downlink).req.bind # host.port
  /\ host' = Unanswered(host, Head(downlink).req)
  /\ downlink' = Tail(downlink) /\ deaf' = TRUE
  /\ UNCHANGED <<mcu, binds, toggles, frames, history>>
-----------------------------------------------------------------------------
(* The firmware.                                                           *)

MistakeTerminateActive(m, id) ==
  [m EXCEPT !.table = @ \ {id}]

\* Streams::create, terminate and clear.
WithStream(m, id) ==
  [m EXCEPT !.table = @ \union {id}, !.active = IF @ = NoId THEN id ELSE @]
WithoutStream(m, id) ==
  [m EXCEPT !.table = @ \ {id}, !.active = IF @ = id THEN NoId ELSE @]
SwitchedOff(m) == [on |-> FALSE, table |-> {}, held |-> {}, active |-> NoId]

Allowed(m, req) ==
  CASE req.op = "create" -> m.on /\ req.id \notin m.table
    [] req.op = "terminate" -> m.on /\ req.id \in m.table \ m.held
    [] OTHER -> TRUE

Applied(m, req) ==
  CASE req.op = "enable" -> [m EXCEPT !.on = TRUE]
    [] req.op = "disable" -> IF m.on THEN SwitchedOff(m) ELSE m
    [] req.op = "create" -> WithStream(m, req.id)
    [] OTHER -> WithoutStream(m, req.id)

\* What the properties need to know of the past.
Noted(req) ==
  /\ refused' = IF req.op = "terminate" /\ mcu.on /\ req.id \in mcu.held
                  THEN refused \union {req.id} ELSE refused \intersect mcu'.table
  /\ wiped' = (wiped \/ (req.role = "user" /\ mcu.table # {} /\ mcu'.table = {}))
  /\ crowded' =
       IF req.op # "create" THEN crowded
       ELSE IF mcu.table = {} THEN crowded \ {req.by}
       ELSE crowded \union {req.by}

\* One packet in loop(); nobody reads the answer to what destroy() writes.
Handle ==
  /\ host.uplink # <<>>
  /\ LET req == Head(host.uplink)
         ok == Allowed(mcu, req)
     IN  /\ mcu' = IF ok THEN Applied(mcu, req) ELSE mcu
         /\ downlink' = IF req.role = "release" THEN downlink
                        ELSE Append(downlink, [req |-> req, ok |-> ok])
         /\ Noted(req)
  /\ host' = [host EXCEPT !.uplink = Tail(@)]
  /\ UNCHANGED <<deaf, binds, toggles, frames>>

\* A triggered capture on a stream, from enqueue() and startNext() to its FIN.
FrameStarts(id) ==
  /\ id \in mcu.table \ mcu.held /\ frames < MaxFrames
  /\ mcu' = [mcu EXCEPT !.held = @ \union {id}, !.active = id]
  /\ frames' = frames + 1
  /\ crowded' = crowded \union {i \in Inputs : host.stream[i] # id}
  /\ UNCHANGED <<host, downlink, deaf, binds, toggles, refused, wiped>>

FrameEnds(id) ==
  /\ id \in mcu.held
  /\ mcu' = [mcu EXCEPT !.held = @ \ {id}]
  /\ UNCHANGED <<host, downlink, deaf, binds, toggles, frames, history>>

StreamsNext ==
  \/ \E i \in Inputs : Open(i) \/ Close(i)
  \/ \E j \in JsInputs : Update(j)
  \/ Connect \/ Disconnect
  \/ \E op \in {"enable", "disable"} : Toggle(op)
  \/ ReceiveReply \/ LoseReply \/ Handle
  \/ \E id \in Ids : FrameStarts(id) \/ FrameEnds(id)

\* The port delivers, the firmware loops, a session paces its updates.
Fairness ==
  /\ WF_streamsVars(Handle) /\ WF_streamsVars(ReceiveReply \/ LoseReply)
  /\ \A j \in JsInputs : WF_streamsVars(Update(j))

StreamsSpec == StreamsInit /\ [][StreamsNext]_streamsVars /\ Fairness
-----------------------------------------------------------------------------
(* Properties.                                                             *)

Requests == Range(host.uplink) \union {r.req : r \in Range(downlink)}
Settled == host.uplink = <<>> /\ downlink = <<>>
Held == {host.stream[i] : i \in Streaming(host, {i \in Inputs : host.life[i] = "open"})}

\* Every id the pool has given out belongs to one input that streams on it, or
\* to one request on its way to create or terminate it, and to nobody else;
\* nothing the inputs do in passing (close, swap, handoff) leaks one or gives it
\* out twice.
EveryIdHasOneOwner ==
  LET claims(id) ==
        Cardinality({i \in Inputs : host.stream[i] = id})
        + Cardinality({r \in Requests : r.id = id /\ r.bind = host.port})
  IN  \A id \in Ids : claims(id) = (IF id \in host.ids THEN 1 ELSE 0)

\* When nothing is on the wire, every stream of the firmware is that of an open
\* input, whatever was closed, swapped or handed off while it was being created;
\* except those the firmware refused to terminate during a capture.
NoStreamIsOrphaned ==
  Settled /\ host.port # 0 => mcu.table \subseteq Held \union refused

\* When nothing is on the wire and a native input is attached, no JS input has
\* a stream in the firmware besides it (dual-cmd-stream-handoff-race).
NativeOwnsTheWire ==
  \A n \in NativeInputs :
    Settled /\ host.attached[n] /\ host.stream[n] # NoId
      => /\ Streaming(host, JsInputs) = {}
         /\ mcu.table \subseteq {host.stream[m] : m \in NativeInputs} \union refused

\* A stream an input writes to is in the firmware's table: its updates are not
\* thrown away; except after the user has disabled the controller under it.
HandleIsLive ==
  ~ wiped => \A i \in Inputs : host.stream[i] # NoId => host.stream[i] \in mcu.table

\* A JS input that is updated comes to drive the mirrors when no native input
\* stays engaged and no other stream was in the way of its own; except one that
\* waits for the answer of a device released before it came.
UpdatedInputDrives ==
  \A j \in JsInputs :
    <>[](/\ host.life[j] = "open" /\ host.bound # 0 /\ ~ NativeEngaged(host)
         /\ host.task[j] # "unanswered"
         /\ ~ wiped /\ refused = {} /\ j \notin crowded)
      => <>[](host.stream[j] # NoId /\ mcu.active = host.stream[j])

\* close() of an input and disconnect() of the controller come to an end; except a
\* close() whose answer is lost with the device.
EndsAreReached ==
  /\ \A i \in Inputs :
       host.life[i] = "closing" ~> host.life[i] \in {"closed", "unanswered"}
  /\ host.port # 0 /\ host.bound = 0 ~> host.bound # 0 \/ host.port = 0

\* The explicit handoff, controller-node.ts:314-317: the JS streams are
\* terminated so that the native stream drives the mirrors.
AttachedStreamDrives ==
  \A n \in NativeInputs :
    Settled /\ host.attached[n] /\ host.stream[n] \in mcu.table \ {NoId}
      => mcu.active = host.stream[n]

\* onAttach(), controller-node.ts:87: "A native sink is live".
AttachedSinkIsLive ==
  \A n \in NativeInputs : host.attached[n] => host.stream[n] # NoId

\* controller-node.ts:461: "enable / create failed — drop so the next good update
\* retries": an input that is open with a controller bound does not wait for ever,
\* whatever became of its request, so that an update can try again.
NextUpdateRetries ==
  \A j \in JsInputs :
    LET served == host.life[j] = "open" /\ host.bound # 0
    IN  served /\ host.task[j] # "idle" ~> ~ served \/ host.task[j] = "idle"

\* docs/spec/controller.md:41: "never disable a controller the user enabled": the node
\* does not take a controller for enabled by itself that it has just bound.
BoundIsNotYetOurs ==
  [][host.bound = 0 /\ host'.bound # 0 => ~ host'.enabledByUs]_streamsVars

\* docs/spec/controller.md: the last input that closes disables what the node
\* has enabled.
UnusedIsDisabled ==
  Settled /\ host.bound # 0 /\ Counted(host) = {} /\ host.enabledByUs => ~ mcu.on
=============================================================================
