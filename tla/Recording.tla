------------------------------- MODULE Recording -------------------------------
(***************************************************************************)
(* Recording the streams of a session into a container file.               *)
(*                                                                         *)
(* The service of a session (app/orchestrator/recording-service.ts) starts *)
(* and stops recordings; a recording is a recorder node                    *)
(* (recorder-node.ts) that drives a native recorder                        *)
(* (core/lib/Record/RecorderStream.cpp): taps on the producers' threads    *)
(* copy frames into a bounded window per stream, and a writer thread takes *)
(* what is queued and writes it.  Stopping detaches the taps, queues the   *)
(* end mark, and waits for the writer, but not beyond a deadline.          *)
(*                                                                         *)
(* Every call of start() that gets through makes a node of its own, so     *)
(* nodes have the names of the calls.  The orchestrator has one JavaScript *)
(* thread, which waits inside the native calls that detach a tap and that  *)
(* join the writer.                                                        *)
(***************************************************************************)
EXTENDS Naturals, Sequences, FiniteSets, SequencesExt

CONSTANTS
  Starters,     \* calls of start() by windows
  Stoppers,     \* callers of stop(): windows
  Drainer,      \* the caller of stop() when the session is drained
  Streams,      \* the frame streams of the session
  Data,         \* the data channel
  None,
  MaxQueued,    \* maxQueuedFrames: the window of a stream
  MaxItems,     \* bound: frames and documents of each recording
  MayFail,      \* whether building a node, and writing, may fail
  Unstuck       \* the recordings whose write, should it get stuck, returns

Callers == Stoppers \union {Drainer}
End == [of |-> None, n |-> 0]
Items == [of : Streams \union {Data}, n : Nat \ {0}]

ASSUME CallersAssumption == Drainer \notin Stoppers /\ None \notin Starters
ASSUME StreamsAssumption == Data \notin Streams /\ None \notin Streams \union {Data}
ASSUME NoneAssumption == None \notin Items \union {End}
ASSUME BoundsAssumption ==
  MaxQueued \in Nat \ {0} /\ MaxItems \in [Starters -> Nat]
ASSUME SwitchesAssumption ==
  /\ MayFail \in BOOLEAN
  /\ Unstuck \subseteq Starters

VARIABLES
  service,      \* active, node and acquisition; what the windows are shown
  leased,       \* whether the session holds its cameras
  acquired,     \* the recordings whose pipes are acquired
  start, stop,  \* the calls; the node that a pending stop() waits for
  phase,        \* the nodes
  connected,    \* the streams whose pipe the node is connected to
  tapped,       \* the streams that are live in the recorder
  hand,         \* frames that producers have admitted and not queued yet
  queue,        \* what the writer has not taken
  writing,      \* what the writer is at, or None
  aborting,     \* whether the writer is asked to give up
  wedged,       \* whether the writer is stuck in a write: once at most
  container,    \* the files
  admitted, shed, late,   \* counters: the frames ingested and dropped
  opened,       \* the recordings the viewer was opened for
  displaced,    \* history: the nodes and the acquisitions that the service forgot
  items         \* how much of the bound is used up

calls == <<service, leased, acquired, start, stop, opened, displaced>>
recorder == <<queue, writing, aborting, wedged, container>>
counters == <<admitted, shed, late, items>>
vars == <<calls, phase, connected, tapped, hand, recorder, counters>>

FramesOf(x, fs) == {f \in fs : f.of = x}
Queued(s) == ToSet(queue[s]) \ {End}

Idle(t) == stop[t].state = "idle"
InFlight ==
  (\E s \in Starters : start[s] = "preparing") \/ (\E t \in Stoppers : ~Idle(t))

(* The JavaScript thread waits in no native call. *)
JsFree ==
  \A s \in Starters :
    /\ phase[s] \notin {"detaching", "joining"}
    /\ phase[s] = "running" => connected[s] = tapped[s]

TypeOK ==
  /\ service \in [active : BOOLEAN, shown : BOOLEAN,
                  node : Starters \union {None}, acquisition : Starters \union {None}]
  /\ leased \in BOOLEAN
  /\ acquired \subseteq Starters
  /\ start \in [Starters -> {"idle", "preparing", "refused", "built"}]
  /\ stop \in [Callers -> [state : {"idle", "waiting"}, node : Starters \union {None}]]
  /\ phase \in [Starters -> {"none", "running", "detaching", "finalizing", "grace",
                             "joining", "released"}]
  /\ connected \in [Starters -> SUBSET Streams]
  /\ tapped \in [Starters -> SUBSET Streams]
  /\ \A s \in Starters :
       /\ {hand[s], admitted[s], shed[s], late[s]} \subseteq SUBSET Items
       /\ Queued(s) \subseteq Items
       /\ writing[s] \in Items \union {End, None}
       /\ container[s].state \in {"none", "open", "complete", "truncated"}
       /\ ToSet(container[s].holds) \subseteq Items
  /\ aborting \in [Starters -> BOOLEAN]
  /\ wedged \in [Starters -> {"never", "now", "over"}]
  /\ opened \subseteq Starters
  /\ displaced \in [nodes : SUBSET Starters, acquisitions : SUBSET Starters]
  /\ items \in [Starters -> Nat]

-----------------------------------------------------------------------------
Init ==
  /\ service = [active |-> FALSE, shown |-> FALSE, node |-> None, acquisition |-> None]
  /\ leased = TRUE
  /\ acquired = {}
  /\ start = [s \in Starters |-> "idle"]
  /\ stop = [t \in Callers |-> [state |-> "idle", node |-> None]]
  /\ phase = [s \in Starters |-> "none"]
  /\ connected = [s \in Starters |-> {}]
  /\ tapped = [s \in Starters |-> {}]
  /\ hand = [s \in Starters |-> {}]
  /\ queue = [s \in Starters |-> <<>>]
  /\ writing = [s \in Starters |-> None]
  /\ aborting = [s \in Starters |-> FALSE]
  /\ wedged = [s \in Starters |-> "never"]
  /\ container = [s \in Starters |-> [state |-> "none", holds |-> <<>>]]
  /\ admitted = [s \in Starters |-> {}]
  /\ shed = [s \in Starters |-> {}]
  /\ late = [s \in Starters |-> {}]
  /\ opened = {}
  /\ displaced = [nodes |-> {}, acquisitions |-> {}]
  /\ items = [s \in Starters |-> 0]

-----------------------------------------------------------------------------
(* The service.  It knows one node and one acquisition; where it forgets one, *)
(* other than by a stop() that has it in hand, nobody can let go of it.      *)
AwaitedBy(T) == {stop[t].node : t \in T}
Unwatched(T) == {service.node} \ (AwaitedBy(T) \union {None})

Start(s) ==
  /\ JsFree /\ start[s] = "idle" /\ ~service.shown
  /\ start' = [start EXCEPT ![s] =
                 IF service.active \/ ~leased THEN "refused" ELSE "preparing"]
  /\ UNCHANGED <<service, leased, acquired, stop, opened, displaced, phase, connected, tapped,
                 hand, recorder, counters>>

(* After the wait for prepare(): acquire the pipes, build the node.  A start() *)
(* that got here in the meantime has its node and acquisition overwritten.   *)
Build(s) ==
  /\ JsFree /\ start[s] = "preparing" /\ leased
  /\ start' = [start EXCEPT ![s] = "built"]
  /\ acquired' = acquired \union {s}
  /\ service' = [active |-> TRUE, shown |-> TRUE, node |-> s, acquisition |-> s]
  /\ displaced' =
       [nodes |-> displaced.nodes \union Unwatched(Callers),
        acquisitions |-> displaced.acquisitions \union ({service.acquisition} \ {None})]
  /\ phase' = [phase EXCEPT ![s] = "running"]
  /\ connected' = [connected EXCEPT ![s] = Streams]
  /\ tapped' = [tapped EXCEPT ![s] = Streams]
  /\ container' = [container EXCEPT ![s].state = "open"]
  /\ UNCHANGED <<leased, stop, opened, hand, queue, writing, aborting, wedged, counters>>

(* The session lost its cameras during the wait, or the directory or the       *)
(* acquisition fails, and the service is left as it was; or the node is not  *)
(* built, and the service forgets the one it has.                            *)
Throw(s) ==
  /\ JsFree /\ start[s] = "preparing"
  /\ \/ /\ ~leased \/ MayFail
        /\ UNCHANGED <<service, displaced>>
     \/ /\ leased /\ MayFail
        /\ service' = [service EXCEPT !.node = None]
        /\ displaced' = [displaced EXCEPT !.nodes = @ \union Unwatched(Callers)]
  /\ start' = [start EXCEPT ![s] = "refused"]
  /\ UNCHANGED <<leased, acquired, stop, opened, phase, connected, tapped, hand,
                 recorder, counters>>

(* The first half of stop(), up to the wait for the node's stop(), which     *)
(* begins with the native finalize call.                                   *)
Stopping(t) ==
  /\ service.active
  /\ service' = [service EXCEPT !.active = FALSE]
  /\ stop' = [stop EXCEPT ![t] = [state |-> "waiting", node |-> service.node]]
  /\ phase' = [s \in Starters |-> IF s = service.node THEN "detaching" ELSE phase[s]]
  /\ tapped' = [s \in Starters |-> IF s = service.node THEN {} ELSE tapped[s]]
  /\ UNCHANGED <<leased, displaced>>

Stop(t) ==
  /\ JsFree /\ Idle(t) /\ service.shown
  /\ Stopping(t)
  /\ UNCHANGED <<acquired, start, opened, connected, hand, recorder, counters>>

(* The session is drained: it stops the recording and then lets go of its    *)
(* cameras.  A stop() with nothing active returns at once.                   *)
Drain ==
  /\ JsFree /\ Idle(Drainer) /\ leased
  /\ \/ Stopping(Drainer)
     \/ /\ ~service.active
        /\ leased' = FALSE
        /\ UNCHANGED <<service, stop, displaced, phase, tapped>>
  /\ UNCHANGED <<acquired, start, opened, connected, hand, recorder, counters>>

Activate ==
  /\ JsFree /\ ~leased
  /\ leased' = TRUE
  /\ UNCHANGED <<service, acquired, start, stop, opened, displaced, phase, connected,
                 tapped, hand, recorder, counters>>

(* The taps are gone, no producer is inside one: the end mark is queued. *)
MistakeEndFirst(s) == <<End>> \o queue[s]
Marked(s) == Append(queue[s], End)
Detached(s) ==
  /\ phase[s] = "detaching" /\ hand[s] = {}
  /\ phase' = [phase EXCEPT ![s] = "finalizing"]
  /\ queue' = [queue EXCEPT ![s] = Marked(s)]
  /\ UNCHANGED <<calls, connected, tapped, hand, writing, aborting, wedged, container,
                 counters>>

(* The deadline of the finalize call: abort, and wait a little more. *)
Ended(s) == container[s].state # "open"
Deadline(s) ==
  /\ JsFree /\ phase[s] = "finalizing" /\ ~Ended(s)
  /\ phase' = [phase EXCEPT ![s] = "grace"]
  /\ aborting' = [aborting EXCEPT ![s] = TRUE]
  /\ UNCHANGED <<calls, connected, tapped, hand, queue, writing, wedged, container,
                 counters>>

(* The grace is over: destroy joins the writer all the same. *)
GraceOver(s) ==
  /\ JsFree /\ phase[s] = "grace" /\ ~Ended(s)
  /\ phase' = [phase EXCEPT ![s] = "joining"]
  /\ UNCHANGED <<calls, connected, tapped, hand, recorder, counters>>

(* The rest of the node's stop() and, right behind it, of the service's. *)
MistakeKeepConnections(s) == connected
Disconnected(s) == [connected EXCEPT ![s] = {}]
MistakeKeepPipes == acquired
Unacquired == acquired \ {service.acquisition}
Finish(s) ==
  /\ Ended(s)
  /\ \/ JsFree /\ phase[s] \in {"finalizing", "grace"}
     \/ phase[s] = "joining"
  /\ phase' = [phase EXCEPT ![s] = "released"]
  /\ connected' = Disconnected(s)
  /\ opened' = IF phase[s] = "finalizing" THEN opened \union {s} ELSE opened

Stopped(t) ==
  /\ stop[t].state = "waiting"
  /\ \/ stop[t].node # None /\ Finish(stop[t].node)
     \/ stop[t].node = None /\ JsFree /\ UNCHANGED <<phase, connected, opened>>
  /\ service' = [service EXCEPT !.node = None, !.acquisition = None, !.shown = FALSE]
  /\ displaced' = [displaced EXCEPT !.nodes = @ \union Unwatched(Callers)]
  /\ acquired' = Unacquired
  /\ stop' = [stop EXCEPT ![t] = [state |-> "idle", node |-> None]]
  /\ leased' = (leased /\ t # Drainer)
  /\ UNCHANGED <<start, tapped, hand, recorder, counters>>

-----------------------------------------------------------------------------
(* What a session does with the node of its recording. *)

Running(s) == JsFree /\ service.node = s /\ phase[s] = "running"

(* The tap is detached once its producer is out of it; the pipe goes with it. *)
RemoveStream(s, x) ==
  /\ Running(s) /\ x \in connected[s]
  /\ tapped' = [tapped EXCEPT ![s] = @ \ {x}]
  /\ UNCHANGED <<calls, phase, connected, hand, recorder, counters>>

Removed(s, x) ==
  /\ phase[s] = "running" /\ x \in connected[s] \ tapped[s]
  /\ FramesOf(x, hand[s]) = {}
  /\ connected' = [connected EXCEPT ![s] = @ \ {x}]
  /\ UNCHANGED <<calls, phase, tapped, hand, recorder, counters>>

AddStream(s, x) ==
  /\ Running(s) /\ x \notin connected[s]
  /\ connected' = [connected EXCEPT ![s] = @ \union {x}]
  /\ tapped' = [tapped EXCEPT ![s] = @ \union {x}]
  /\ UNCHANGED <<calls, phase, hand, recorder, counters>>

Post(s) ==
  /\ Running(s) /\ items[s] < MaxItems[s]
  /\ items' = [items EXCEPT ![s] = @ + 1]
  /\ LET doc == [of |-> Data, n |-> items[s] + 1]
     IN /\ queue' = [queue EXCEPT ![s] = Append(@, doc)]
        /\ admitted' = [admitted EXCEPT ![s] = @ \union {doc}]
  /\ UNCHANGED <<calls, phase, connected, tapped, hand, writing, aborting, wedged,
                 container, shed, late>>

-----------------------------------------------------------------------------
(* The producers' threads. *)

MistakeAllPending(s, x) == DOMAIN queue[s]
(* The places in the queue of a stream's frames. *)
Pending(s, x) == {i \in DOMAIN queue[s] : queue[s][i].of = x}
Oldest(s, x) == Min(Pending(s, x))
MistakeNewest(s, x) == Max(Pending(s, x))
Victim(s, x) == Oldest(s, x)

(* A frame is admitted; a full window sheds its oldest. *)
Admit(s, x) ==
  /\ phase[s] = "running" /\ x \in tapped[s] /\ s \in acquired
  /\ FramesOf(x, hand[s]) = {}
  /\ items[s] < MaxItems[s]
  /\ items' = [items EXCEPT ![s] = @ + 1]
  /\ LET frame == [of |-> x, n |-> items[s] + 1]
     IN /\ admitted' = [admitted EXCEPT ![s] = @ \union {frame}]
        /\ hand' = [hand EXCEPT ![s] = @ \union {frame}]
  /\ IF Cardinality(Pending(s, x)) >= MaxQueued
     THEN /\ queue' = [queue EXCEPT ![s] = RemoveAt(@, Victim(s, x))]
          /\ shed' = [shed EXCEPT ![s] = @ \union {queue[s][Victim(s, x)]}]
     ELSE UNCHANGED <<queue, shed>>
  /\ UNCHANGED <<calls, phase, connected, tapped, writing, aborting, wedged, container,
                 late>>

(* The copy is made.  A frame whose tap is on its way out is dropped. *)
MistakeUncounted(s, f) == UNCHANGED late
Lost(s, f) == late' = [late EXCEPT ![s] = @ \union {f}]
MistakeLocked(s, f) == f \in hand[s] /\ phase[s] # "detaching"
Copied(s, f) == f \in hand[s]
Enqueue(s, f) ==
  /\ Copied(s, f)
  /\ hand' = [hand EXCEPT ![s] = @ \ {f}]
  /\ IF f.of \in tapped[s]
     THEN queue' = [queue EXCEPT ![s] = Append(@, f)] /\ UNCHANGED late
     ELSE Lost(s, f) /\ UNCHANGED queue
  /\ UNCHANGED <<calls, phase, connected, tapped, writing, aborting, wedged, container,
                 admitted, shed, items>>

-----------------------------------------------------------------------------
(* The writer's thread. *)

Close(s, state) == container' = [container EXCEPT ![s].state = state]
Free(s) == writing[s] = None /\ container[s].state = "open"

Take(s) ==
  /\ Free(s) /\ ~aborting[s] /\ queue[s] # <<>>
  /\ writing' = [writing EXCEPT ![s] = Head(queue[s])]
  /\ queue' = [queue EXCEPT ![s] = Tail(@)]
  /\ UNCHANGED <<calls, phase, connected, tapped, hand, aborting, wedged, container,
                 counters>>

GiveUp(s) ==
  /\ Free(s) /\ aborting[s]
  /\ Close(s, "truncated")
  /\ UNCHANGED <<calls, phase, connected, tapped, hand, queue, writing, aborting, wedged,
                 counters>>

Writing(s) == writing[s] # None /\ wedged[s] # "now" /\ ~Ended(s)

Wrote(s) ==
  /\ Writing(s)
  /\ writing' = [writing EXCEPT ![s] = None]
  /\ \/ writing[s] = End /\ Close(s, "complete")
     \/ /\ writing[s] # End
        /\ container' = [container EXCEPT ![s].holds = Append(@, writing[s])]
  /\ UNCHANGED <<calls, phase, connected, tapped, hand, queue, aborting, wedged, counters>>

(* A write that fails ends the file; what was being written stays in hand. *)
WriteFails(s) ==
  /\ MayFail /\ Writing(s)
  /\ Close(s, "truncated")
  /\ aborting' = [aborting EXCEPT ![s] = TRUE]
  /\ UNCHANGED <<calls, phase, connected, tapped, hand, queue, writing, wedged, counters>>

Stick(s) ==
  /\ Writing(s) /\ wedged[s] = "never"
  /\ wedged' = [wedged EXCEPT ![s] = "now"]
  /\ UNCHANGED <<calls, phase, connected, tapped, hand, queue, writing, aborting,
                 container, counters>>

Unstick(s) ==
  /\ wedged[s] = "now"
  /\ wedged' = [wedged EXCEPT ![s] = "over"]
  /\ UNCHANGED <<calls, phase, connected, tapped, hand, queue, writing, aborting,
                 container, counters>>

-----------------------------------------------------------------------------
Next ==
  \/ \E s \in Starters :
       \/ Start(s) \/ Build(s) \/ Throw(s)
       \/ Detached(s) \/ Deadline(s) \/ GraceOver(s)
       \/ \E x \in Streams : RemoveStream(s, x) \/ Removed(s, x) \/ AddStream(s, x)
       \/ Post(s)
       \/ \E x \in Streams : Admit(s, x)
       \/ \E f \in hand[s] : Enqueue(s, f)
       \/ Take(s) \/ GiveUp(s) \/ Wrote(s) \/ WriteFails(s) \/ Stick(s) \/ Unstick(s)
  \/ \E t \in Stoppers : Stop(t)
  \/ \E t \in Callers : Stopped(t)
  \/ Drain \/ Activate

Spec == Init /\ [][Next]_vars

(* Threads run, copies and writes end, unless a write is stuck.  Timers and   *)
(* answers have their turn in the event loop, which is a queue, so the turn   *)
(* comes although the thread is busy again and again.  A recording has        *)
(* finitely many of these steps (only taps are detached again and again, and  *)
(* then no other step of a detaching waits), so fairness to all of them       *)
(* together is fairness to each.                                             *)
FairSpec ==
  /\ Spec
  /\ WF_vars(\E s \in Starters : Detached(s) \/ \E x \in Streams : Removed(s, x))
  /\ SF_vars(\E s \in Starters : Deadline(s) \/ GraceOver(s))
  /\ WF_vars(\E s \in Starters : \E f \in hand[s] : Enqueue(s, f))
  /\ WF_vars(\E s \in Starters : Take(s) \/ GiveUp(s) \/ Wrote(s) \/ WriteFails(s))
  /\ WF_vars(\E s \in Unstuck : Unstick(s))
  /\ SF_vars(\E t \in Callers : Stopped(t))

-----------------------------------------------------------------------------
(* Properties *)

(* Every frame and document that a recorder ever admitted is on its way, in  *)
(* the file, or counted as dropped, and is so once; in a file that is        *)
(* complete, written + dropped = ingested                                    *)
(* (docs/spec/capture-recording.md).                                         *)
Kept(s) == ToSet(container[s].holds)
FramesAreAccounted ==
  \A s \in Starters :
    LET parts == <<shed[s], late[s], hand[s], Queued(s), {writing[s]} \ {None, End}, Kept(s)>>
    IN /\ admitted[s] = UNION Range(parts)
       /\ \A i, j \in DOMAIN parts : i # j => parts[i] \intersect parts[j] = {}
       /\ Cardinality(Kept(s)) = Len(container[s].holds)
       /\ container[s].state = "complete" => admitted[s] = shed[s] \union late[s] \union Kept(s)

(* "Newest data wins": a stream is in the file in the order of its frames,    *)
(* and a frame is shed only for a window full of newer ones; a document is    *)
(* never shed.                                                               *)
NewestDataWins ==
  \A s \in Starters :
    /\ \A i, j \in DOMAIN container[s].holds :
         LET f == container[s].holds[i]
             g == container[s].holds[j]
         IN i < j /\ f.of = g.of => f.n < g.n
    /\ \A f \in shed[s] :
         /\ f.of # Data
         /\ Cardinality({g \in FramesOf(f.of, admitted[s]) : g.n > f.n}) >= MaxQueued

(* Once nothing is recorded and no call is under way, no pipe is acquired,    *)
(* connected or tapped: the producers may be retired.  It is so of every node *)
(* and every acquisition but those that the service forgot: while prepare() is *)
(* waited for, nothing keeps another start() from coming as far, and the one  *)
(* that builds second takes the place of the first (recording-service.ts,     *)
(* start()); a node that could not be built, and a stop() that was waiting    *)
(* for another one, clear the place.                                         *)
IdleHoldsNothing ==
  ~service.active /\ ~InFlight /\ Idle(Drainer) =>
    /\ acquired \subseteq displaced.acquisitions
    /\ \A s \in Starters \ displaced.nodes : connected[s] = {} /\ tapped[s] = {}

(* A stop() comes to its end, also when a write fails or is stuck for a while *)
(* and when a producer is in the middle of a frame.                          *)
StopReturns == \A t \in Callers : stop[t].state = "waiting" ~> Idle(t)

(* Said by the code, and not so when a write fails: the viewer is not opened  *)
(* for a file that is truncated (recording-service.ts).                      *)
TruncatedIsNotOpened == \A s \in opened : container[s].state = "complete"

(* Said by the code, and not so when a window's stop() is under way: the      *)
(* recording is finalized before the session lets go of its cameras           *)
(* (calibrate-distortion/session.ts).                                        *)
FinalizedBeforeLeases ==
  ~leased => \A s \in Starters : phase[s] \in {"none", "released"}
=============================================================================
