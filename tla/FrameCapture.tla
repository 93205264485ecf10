----------------------------- MODULE FrameCapture -----------------------------
(***************************************************************************)
(* Triggered captures, from the scheduler that asks for them to the        *)
(* cameras that expose.                                                    *)
(*                                                                         *)
(* RoundRobinFrameScheduler (app/orchestrator/scheduler.ts) asks for a     *)
(* CMD_FRAME of each of its streams in turn and gives up on one that is    *)
(* not answered in time.  The Device keeps each request until its FIN or   *)
(* REJ (core/src/Controller.cpp).  The firmware queues the requests,       *)
(* raises the trigger lines for one at a time, and learns from the strobe  *)
(* interrupts of the cameras when they exposed                             *)
(* (firmware/src/Capture.cpp, Streams.cpp).  Packets stay in order; the    *)
(* serial line may damage one, and then it is dropped.                     *)
(*                                                                         *)
(* A request is named by its sequence number, which the model uses again   *)
(* when nothing refers to it any more.  Time is what elapses next.         *)
(***************************************************************************)
EXTENDS Naturals, Sequences, FiniteSets, SequencesExt

CONSTANTS
  Order,          \* the targets of the scheduler, a sequence of streams
  CamerasOf,      \* the cameras a capture of a stream triggers
  HeldStreams,    \* streams with a settle time
  MaxInFlight,    \* maxInFlight of the scheduler
  QueueCapacity,  \* QUEUE_CAPACITY of the firmware
  MaxSeq,         \* bound: sequence numbers in use at a time
  MaxFaults       \* bound: damaged packets, disables and restarts

Streams == Range(Order)
Cameras == UNION Range(CamerasOf)
Seqs == 1..MaxSeq
None == 0

ASSUME TargetsAssumption ==
  /\ Order \in Seq(Streams) \ {<<>>} /\ None \notin Streams
  /\ CamerasOf \in [Streams -> (SUBSET Cameras) \ {{}}]
  /\ HeldStreams \subseteq Streams
ASSUME LimitsAssumption ==
  /\ MaxInFlight \in Nat \ {0} /\ QueueCapacity \in Nat \ {0}
  /\ MaxSeq \in Nat \ {0} /\ MaxFaults \in Nat

Requests == [seq : Seqs, stream : Streams]
NoRequest == [seq |-> None, stream |-> None]

Host ==
  [running : BOOLEAN, cursor : 1..Len(Order), inFlight : Nat,
   activeStreams : SUBSET Streams,
   resting : SUBSET Streams,       \* those whose nextEligibleAt is to come
   open : SUBSET Requests,         \* the requests that are not done
   accepted : SUBSET Seqs,         \* those whose ACK timer is cleared
   pending : SUBSET Seqs,          \* of the Device
   uplink : Seq(Requests)]

Firmware ==
  [on : BOOLEAN,
   queue : Seq(Requests),
   active : Requests \union {NoRequest},
   stage : {"idle", "popped", "settling", "triggered"},
   flagged : SUBSET Streams,       \* pendingFrame
   front : Streams \union {None},  \* activeId, the stream that drives the DAC
   lines : SUBSET Cameras,         \* trigger outputs that are high
   dropped : BOOLEAN,              \* triggerDropped
   elapsed : {"", "pulse", "margin"},   \* since triggerStart
   latched : Seqs \union {None},   \* whose exposure exposureLatched is about
   high : SUBSET Cameras, risen : SUBSET Cameras, awaiting : SUBSET Cameras]

Replies ==
  [seq : Seqs, kind : {"ACK", "FIN", "REJ"}, exposure : Seqs \union {None}]

VARIABLES
  host,            \* the scheduler and the Device
  mcu,             \* the firmware
  armed, exposing, \* the trigger each camera is about to follow, or follows
  taken,           \* history: cameras that exposed for the active request
  clouded,         \* history: it was taken up with an earlier strobe still to come
  hasty,           \* history: cameras whose strobe was over before their pulse
  downlink,
  faults           \* how much of the bound is used up

cameraVars == <<armed, exposing, taken>>
pastVars == <<clouded, hasty>>
vars == <<host, mcu, cameraVars, pastVars, downlink, faults>>

TypeOK ==
  /\ host \in Host /\ mcu \in Firmware /\ downlink \in Seq(Replies)
  /\ armed \in [Cameras -> Seqs \union {None}]
  /\ exposing \in [Cameras -> Seqs \union {None}] /\ taken \subseteq Cameras
  /\ clouded \in BOOLEAN /\ hasty \subseteq Cameras /\ faults \in 0..MaxFaults

Init ==
  /\ host = [running |-> FALSE, cursor |-> 1, inFlight |-> 0, activeStreams |-> {},
             resting |-> {}, open |-> {}, accepted |-> {}, pending |-> {},
             uplink |-> <<>>]
  /\ mcu = [on |-> TRUE, queue |-> <<>>, active |-> NoRequest, stage |-> "idle",
            flagged |-> {}, front |-> None, lines |-> {}, dropped |-> FALSE,
            elapsed |-> "", latched |-> None, high |-> {}, risen |-> {},
            awaiting |-> {}]
  /\ armed = [c \in Cameras |-> None] /\ exposing = [c \in Cameras |-> None]
  /\ taken = {} /\ clouded = FALSE /\ hasty = {}
  /\ downlink = <<>> /\ faults = 0
-----------------------------------------------------------------------------
(* The scheduler.                                                          *)

Engaged == Range(mcu.queue) \union ({mcu.active} \ {NoRequest})
UnusedSeqs ==
  Seqs \ ({r.seq : r \in host.open \union Range(host.uplink) \union Engaged}
          \union {r.seq : r \in Range(downlink)} \union host.pending
          \union Range(armed) \union Range(exposing))

Places(s) == {n \in DOMAIN Order : Order[n] = s}

MistakeFromTheTop(h, s) == Min(Places(s))

\* How far a stream is from the cursor.
Turn(h, s) == Min({(n + Len(Order) - h.cursor) % Len(Order) : n \in Places(s)})

Eligible(h) == Streams \ (h.activeStreams \union h.resting)

\* nextTarget(), again and again: the first n streams to ask for.
Targets(h, n) ==
  CHOOSE q \in [1..n -> Eligible(h)] :
    /\ IsInjective(q)
    /\ \A k \in 1..n : \A s \in Eligible(h) \ {q[j] : j \in 1..k} :
         Turn(h, q[k]) <= Turn(h, s)

\* pump() and issue(): as many requests as there is room for.
Pumped(h) ==
  LET room == Min({Cardinality(Eligible(h)), MaxInFlight - h.inFlight,
                   Cardinality(UnusedSeqs)})
      targets == Targets(h, room)
      seqs == CHOOSE q \in [1..room -> UnusedSeqs] : IsInjective(q)
      requests == [k \in 1..room |-> [seq |-> seqs[k], stream |-> targets[k]]]
  IN  IF ~ h.running \/ room = 0 THEN h
      ELSE [h EXCEPT !.inFlight = @ + room,
                     !.activeStreams = @ \union Range(targets),
                     !.resting = @ \union Range(targets),
                     !.open = @ \union Range(requests),
                     !.pending = @ \union Range(seqs),
                     !.uplink = @ \o requests,
                     !.cursor = 1 + ((@ + Turn(h, targets[room])) % Len(Order))]

MistakeFinish(h, r, failed) ==
  Pumped([h EXCEPT !.inFlight = IF failed THEN @ ELSE @ - 1,
                   !.activeStreams = @ \ {r.stream},
                   !.resting = IF failed THEN @ \union {r.stream} ELSE @,
                   !.open = @ \ {r}, !.accepted = @ \ {r.seq}])

\* finish(): the slot is free, a failed stream has to wait, the next one goes.
Finished(h, r, failed) ==
  Pumped([h EXCEPT !.inFlight = @ - 1,
                   !.activeStreams = @ \ {r.stream},
                   !.resting = IF failed THEN @ \union {r.stream} ELSE @,
                   !.open = @ \ {r}, !.accepted = @ \ {r.seq}])

HostStep(h) ==
  host' = h /\ UNCHANGED <<mcu, cameraVars, pastVars, downlink, faults>>

\* startTriggerCapture(): a new scheduler, to which what the one before has asked
\* for means nothing.
Start ==
  /\ ~ host.running
  /\ HostStep(Pumped([host EXCEPT !.running = TRUE, !.cursor = 1, !.inFlight = 0,
                                  !.activeStreams = {}, !.resting = {},
                                  !.open = {}, !.accepted = {}]))

Stop ==
  /\ host.running /\ faults < MaxFaults /\ faults' = faults + 1
  /\ host' = [host EXCEPT !.running = FALSE]
  /\ UNCHANGED <<mcu, cameraVars, pastVars, downlink>>

\* The time of a stream has come, and the timer pumps.
Wake(s) ==
  /\ s \in host.resting
  /\ HostStep(Pumped([host EXCEPT !.resting = @ \ {s}]))

\* It goes on with what the bound on sequence numbers has held up.
Pump == Pumped(host) # host /\ HostStep(Pumped(host))

AckTimeout(r) ==
  /\ r \in host.open /\ r.seq \notin host.accepted
  /\ HostStep(Finished(host, r, TRUE))

FinTimeout(r) == r \in host.open /\ HostStep(Finished(host, r, TRUE))

MistakeRetire(h, reply) == [h EXCEPT !.pending = @ \ {reply.seq}]

\* The Device drops its entry on anything but the ACK of a two-phase request.
Retired(h, reply) ==
  IF reply.kind = "ACK" THEN h ELSE [h EXCEPT !.pending = @ \ {reply.seq}]

\* handleRawPacket(), and what the promises of the request resume.
Receive ==
  /\ downlink # <<>>
  /\ LET reply == Head(downlink)
         known == reply.seq \in host.pending
         asked == {r \in host.open : r.seq = reply.seq}
     IN  host' = IF ~ known THEN host
                 ELSE IF asked = {} THEN Retired(host, reply)
                 ELSE IF reply.kind = "ACK"
                   THEN [host EXCEPT !.accepted = @ \union {reply.seq}]
                 ELSE Finished(Retired(host, reply), CHOOSE r \in asked : TRUE,
                               reply.kind = "REJ")
  /\ downlink' = Tail(downlink)
  /\ UNCHANGED <<mcu, cameraVars, pastVars, faults>>

\* A packet fails its checksum at one end or the other.
LosePacket ==
  /\ faults < MaxFaults /\ faults' = faults + 1
  /\ \/ host.uplink # <<>> /\ host' = [host EXCEPT !.uplink = Tail(@)]
        /\ UNCHANGED downlink
     \/ downlink # <<>> /\ downlink' = Tail(downlink) /\ UNCHANGED host
  /\ UNCHANGED <<mcu, cameraVars, pastVars>>

\* sweepPending(): a request nothing will answer any more is rejected.
Sweep(q) ==
  /\ q \in host.pending /\ downlink = <<>>
  /\ q \notin {r.seq : r \in host.open \union Range(host.uplink) \union Engaged}
  /\ HostStep([host EXCEPT !.pending = @ \ {q}])
-----------------------------------------------------------------------------
(* The firmware's main loop.                                               *)

ActiveCameras(m) == IF m.active = NoRequest THEN {} ELSE CamerasOf[m.active.stream]

Answer(r, kind, exposure) == [seq |-> r.seq, kind |-> kind, exposure |-> exposure]
Rejections(queue) == [k \in DOMAIN queue |-> Answer(queue[k], "REJ", None)]

MistakeNoDuplicates(m, r) == m.on /\ Len(m.queue) < QueueCapacity

\* What enqueue() accepts.
Acceptable(m, r) ==
  /\ m.on
  /\ r.stream \notin {q.stream : q \in Range(m.queue) \union {m.active}}
  /\ Len(m.queue) < QueueCapacity

Handle ==
  /\ host.uplink # <<>> /\ mcu.stage # "popped"
  /\ LET r == Head(host.uplink) IN
     IF Acceptable(mcu, r)
       THEN /\ mcu' = [mcu EXCEPT !.queue = Append(@, r), !.flagged = @ \union {r.stream}]
            /\ downlink' = Append(downlink, Answer(r, "ACK", None))
       ELSE downlink' = Append(downlink, Answer(r, "REJ", None)) /\ UNCHANGED mcu
  /\ host' = [host EXCEPT !.uplink = Tail(@)]
  /\ UNCHANGED <<cameraVars, pastVars, faults>>

MistakeKeepFlag(m) == [m EXCEPT !.active = NoRequest, !.stage = "idle"]

\* finishActive().
Unoccupied(m) ==
  [m EXCEPT !.flagged = @ \ {m.active.stream}, !.active = NoRequest, !.stage = "idle"]

MistakeKeepLatch(m) ==
  IF m.queue = <<>> THEN m
  ELSE [m EXCEPT !.queue = Tail(@), !.active = Head(m.queue), !.stage = "popped",
                 !.dropped = FALSE, !.elapsed = ""]

\* startNext(), as far as the masks the interrupts share.
Popped(m) ==
  IF m.queue = <<>> THEN m
  ELSE [m EXCEPT !.queue = Tail(@), !.active = Head(m.queue), !.stage = "popped",
                 !.dropped = FALSE, !.latched = None, !.elapsed = ""]

\* The lines go up; a camera that is free and sees its line rise may follow.
Trigger(m) ==
  /\ mcu' = [m EXCEPT !.stage = "triggered", !.lines = @ \union ActiveCameras(m)]
  /\ \E hit \in SUBSET {c \in ActiveCameras(m) \ m.lines :
                          armed[c] = None /\ exposing[c] = None} :
       armed' = [c \in Cameras |-> IF c \in hit THEN m.active.seq ELSE armed[c]]
  /\ taken' = {} /\ UNCHANGED exposing

MistakeKeepRisen(m) ==
  [m EXCEPT !.high = @ \ ActiveCameras(m), !.awaiting = ActiveCameras(m)]

\* The rest of startNext(): stale levels are dropped, the stream takes the DAC.
Masked(m) ==
  [m EXCEPT !.high = @ \ ActiveCameras(m), !.risen = @ \ ActiveCameras(m),
            !.awaiting = ActiveCameras(m)]

StartActive ==
  /\ mcu.stage = "popped"
  /\ LET m == [Masked(mcu) EXCEPT !.front = mcu.active.stream]
     IN  IF mcu.front # mcu.active.stream /\ mcu.active.stream \in HeldStreams
           THEN mcu' = [m EXCEPT !.stage = "settling"] /\ UNCHANGED cameraVars
           ELSE Trigger(m)
  /\ UNCHANGED <<host, pastVars, downlink, faults>>

SettleOver ==
  /\ mcu.stage = "settling" /\ Trigger(mcu)
  /\ UNCHANGED <<host, pastVars, downlink, faults>>

MistakeNoDrop(m) == m
\* The pulse is over: tick() takes the lines down.
Dropped(m) ==
  IF m.dropped \/ m.elapsed = "" THEN m
  ELSE [m EXCEPT !.lines = @ \ ActiveCameras(m), !.dropped = TRUE]

MistakeAnyCamera(m) == m.latched # None /\ m.high \intersect m.awaiting = {}
MistakeAtTheRise(m) == m.latched # None /\ m.risen = ActiveCameras(m)
ExposureOver(m) ==
  /\ m.latched # None /\ m.risen = ActiveCameras(m)
  /\ m.high \intersect m.awaiting = {}

\* An interrupt of an earlier trigger may come between those of this request.
Clouded(m) ==
  \E c \in Cameras :
    \/ c \in ActiveCameras(m) /\ exposing[c] # None
    \/ c \in ActiveCameras(m) \union m.awaiting /\ armed[c] # None

\* One call of tick() that changes something.
Tick ==
  /\ \/ mcu.stage = "idle" /\ mcu' = Popped(mcu) /\ UNCHANGED downlink
     \/ /\ mcu.stage = "triggered"
        /\ LET m == Dropped(mcu)
               verdict == IF ExposureOver(m) THEN Answer(m.active, "FIN", m.latched)
                          ELSE Answer(m.active, "REJ", None)
           IN  IF ExposureOver(m) \/ m.elapsed = "margin"
                 THEN /\ mcu' = Popped(Unoccupied(m))
                      /\ downlink' = Append(downlink, verdict)
                 ELSE mcu' = m /\ UNCHANGED downlink
  /\ mcu' # mcu
  /\ clouded' = IF mcu'.stage = "popped" THEN Clouded(mcu') ELSE clouded
  /\ hasty' = IF mcu.elapsed = "" THEN hasty ELSE hasty \ ActiveCameras(mcu)
  /\ UNCHANGED <<host, cameraVars, faults>>

\* cancelAll() and Streams::clear(), when the controller is disabled.
Disable ==
  /\ mcu.on /\ mcu.stage # "popped" /\ faults < MaxFaults
  /\ faults' = faults + 1
  /\ mcu' = [mcu EXCEPT !.on = FALSE, !.queue = <<>>, !.active = NoRequest,
                        !.stage = "idle", !.flagged = {}, !.front = None,
                        !.lines = @ \ ActiveCameras(mcu)]
  /\ downlink' = downlink
       \o (IF mcu.active = NoRequest THEN <<>> ELSE Rejections(<<mcu.active>>))
       \o Rejections(mcu.queue)
  /\ hasty' = hasty \ ActiveCameras(mcu)
  /\ UNCHANGED <<host, cameraVars, clouded>>

\* The controller is enabled again, and its streams are created anew.
Enable ==
  /\ ~ mcu.on
  /\ mcu' = [mcu EXCEPT !.on = TRUE]
  /\ UNCHANGED <<host, cameraVars, pastVars, downlink, faults>>
-----------------------------------------------------------------------------
(* Time, and the cameras with their strobe interrupts.                     *)

Elapse ==
  /\ mcu.stage = "triggered"
  /\ \/ mcu.elapsed = "" /\ mcu' = [mcu EXCEPT !.elapsed = "pulse"]
     \/ mcu.elapsed = "pulse" /\ mcu' = [mcu EXCEPT !.elapsed = "margin"]
  /\ UNCHANGED <<host, cameraVars, pastVars, downlink, faults>>

\* onStrobeEdge(), the strobe of a camera goes up.
Rise(c) ==
  /\ armed[c] # None
  /\ armed' = [armed EXCEPT ![c] = None]
  /\ exposing' = [exposing EXCEPT ![c] = armed[c]]
  /\ mcu' = [mcu EXCEPT !.high = @ \union {c}, !.risen = @ \union {c},
                        !.latched = IF @ = None /\ c \in mcu.awaiting
                                      THEN armed[c] ELSE @]
  /\ UNCHANGED <<host, taken, pastVars, downlink, faults>>

\* Between the reset of the masks and the end of the pulse.
BeforePulseEnds == mcu.stage \in {"settling", "triggered"} /\ mcu.elapsed = ""

\* It goes down.
Fall(c) ==
  /\ exposing[c] # None
  /\ exposing' = [exposing EXCEPT ![c] = None]
  /\ mcu' = [mcu EXCEPT !.high = @ \ {c}]
  /\ LET own == {c} \intersect ActiveCameras(mcu) IN
       /\ taken' = IF exposing[c] = mcu.active.seq THEN taken \union own ELSE taken
       /\ hasty' = IF BeforePulseEnds THEN hasty \union own ELSE hasty
  /\ UNCHANGED <<host, armed, clouded, downlink, faults>>
-----------------------------------------------------------------------------

Next ==
  \/ Start \/ Stop \/ Pump \/ Receive \/ LosePacket \/ Handle \/ Disable \/ Enable
  \/ StartActive \/ SettleOver \/ Tick \/ Elapse
  \/ \E s \in Streams : Wake(s)
  \/ \E r \in Requests : AckTimeout(r) \/ FinTimeout(r)
  \/ \E q \in Seqs : Sweep(q)
  \/ \E c \in Cameras : Rise(c) \/ Fall(c)

\* Timers go off, the line delivers, loop() runs, cameras end what they begin.
Fairness ==
  /\ WF_vars(Pump) /\ WF_vars(Receive) /\ WF_vars(Handle)
  /\ WF_vars(StartActive) /\ WF_vars(SettleOver) /\ WF_vars(Tick) /\ WF_vars(Elapse)
  /\ \A s \in Streams : WF_vars(Wake(s))
  /\ \A r \in Requests : WF_vars(FinTimeout(r))
  /\ \A q \in Seqs : WF_vars(Sweep(q))
  /\ \A c \in Cameras : WF_vars(Rise(c)) /\ WF_vars(Fall(c))

Spec == Init /\ [][Next]_vars /\ Fairness
-----------------------------------------------------------------------------
(* Properties.                                                             *)

\* The scheduler's slots are those of the requests it still waits for, one per
\* stream, whichever of ACK, FIN, REJ and the timers came first and however late
\* the others are.
SlotsAreThoseInFlight ==
  /\ host.inFlight = Cardinality(host.open) /\ host.inFlight <= MaxInFlight
  /\ host.activeStreams = {r.stream : r \in host.open}
  /\ Cardinality(host.activeStreams) = Cardinality(host.open)

\* No answer is unmatched: a request on the wire, in the firmware or answered has
\* its entry in the Device, from its first phase to its last.
AnswersFindTheirRequest ==
  {r.seq : r \in host.open \union Range(host.uplink) \union Engaged}
    \union {r.seq : r \in Range(downlink)} \subseteq host.pending

\* A stream is flagged, which keeps it from being terminated, exactly while one
\* request of it is queued or active: activate() always finds its stream.
FlagsAreThoseEngaged ==
  /\ mcu.flagged = {r.stream : r \in Engaged}
  /\ Cardinality(Engaged) = Cardinality({r.stream : r \in Engaged})
  /\ Engaged # {} => mcu.on

\* A trigger line is up only for the pulse of the request that is exposing, so that
\* the next request makes an edge; but when the strobe of a camera was over before
\* its pulse, tick() may answer and leave the line of that camera up.
LinesRest ==
  \A c \in mcu.lines :
    \/ mcu.stage = "triggered" /\ ~ mcu.dropped /\ c \in ActiveCameras(mcu)
    \/ c \in hasty

\* A FIN tells of the exposure its own request has triggered, however late strobes
\* have been before; only a request taken up while an earlier strobe of its cameras
\* was still to come may be told that one.
FinIsItsOwn ==
  [][\A reply \in Range(downlink') \ Range(downlink) :
       reply.kind = "FIN" /\ ~ clouded => reply.exposure = reply.seq]_vars

\* A request that no earlier strobe can reach is answered by what happened: FIN as
\* soon as all of its cameras have exposed for it, and never before; only the bit
\* of a camera it does not trigger, which startNext() leaves in risenMask, can
\* keep that answer back.
VerdictIsRight ==
  mcu.stage = "triggered" /\ ~ clouded =>
    (ExposureOver(mcu)
       <=> taken = ActiveCameras(mcu) /\ mcu.risen \subseteq ActiveCameras(mcu))

\* "Bit set once the corresponding camera has strobe-risen at least once this
\* request" (Capture.cpp:127): no bit of risenMask is set when a request starts.
RisenIsOfTheRequest == [][StartActive => mcu'.risen = {}]_vars

\* While a scheduler runs and the controller is enabled, every stream is triggered
\* again and again, whatever was lost, timed out or rejected.
ServedAgain ==
  <>[](host.running /\ mcu.on)
    => \A s \in Streams : []<>(mcu.stage = "triggered" /\ mcu.active.stream = s)
=============================================================================
