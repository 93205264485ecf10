--------------------------- MODULE Recording_proofs ---------------------------
(***************************************************************************)
(* Proofs about recordings, for all numbers of recordings, windows and     *)
(* streams, whatever windows do.  First: once nothing is recorded, nothing *)
(* stays acquired, connected or tapped, but what the service forgot,       *)
(* although calls of start() overlap, the session may be drained at any    *)
(* moment, building a node or writing may fail, and a write may be stuck   *)
(* for ever.  Second: every frame that a recording admitted is in the      *)
(* file, dropped, waiting or lost with a failed write, and when the window *)
(* is full the oldest frame of the stream is the one that goes.            *)
(***************************************************************************)
EXTENDS Recording, FiniteSetTheorems, WellFoundedInduction, TLAPS

Nodes == Starters \union {None}

LifecycleTypes ==
  /\ service \in [active : BOOLEAN, shown : BOOLEAN, node : Nodes, acquisition : Nodes]
  /\ acquired \subseteq Starters
  /\ start \in [Starters -> {"idle", "preparing", "refused", "built"}]
  /\ stop \in [Callers -> [state : {"idle", "waiting"}, node : Nodes]]
  /\ phase \in [Starters -> {"none", "running", "detaching", "finalizing", "grace",
                             "joining", "released"}]
  /\ connected \in [Starters -> SUBSET Streams]
  /\ tapped \in [Starters -> SUBSET Streams]
  /\ displaced \in [nodes : SUBSET Starters, acquisitions : SUBSET Starters]

\* What is not built has no name anywhere, and who is idle waits for nothing.
NamesAreBuilt ==
  /\ \A s \in Starters : start[s] # "built" =>
       service.node # s /\ \A t \in Callers : stop[t].node # s
  /\ \A t \in Callers : Idle(t) => stop[t].node = None

\* A service that is not active knows nothing, or it is about to.
RestingKnowsNothing ==
  \/ service.active
  \/ service.node = None /\ service.acquisition = None
  \/ \E t \in Callers : ~Idle(t)

\* A node is the one of the service, or somebody waits for it, or it is forgotten;
\* and so for what is acquired.
Holds(s) == connected[s] # {} \/ tapped[s] # {}
Known(s) == s = service.node \/ (\E t \in Callers : stop[t].node = s) \/ s \in displaced.nodes
HoldersAreKnown ==
  /\ \A s \in Starters : Holds(s) => Known(s)
  /\ acquired \subseteq displaced.acquisitions \union {service.acquisition}

\* A recording that is being stopped has no tap left, and does not run.
StoppingIsDetached ==
  \A t \in Callers : \A s \in Starters :
    stop[t].node = s => tapped[s] = {} /\ phase[s] # "running"

LifecycleInv ==
  /\ LifecycleTypes /\ NamesAreBuilt /\ RestingKnowsNothing
  /\ HoldersAreKnown /\ StoppingIsDetached
-----------------------------------------------------------------------------
USE CallersAssumption

LEMMA LifecycleStarts == Init => LifecycleInv
  BY DEF Init, LifecycleInv, LifecycleTypes, NamesAreBuilt, RestingKnowsNothing,
         HoldersAreKnown, Holds, Known, StoppingIsDetached, Idle, Callers, Nodes

lifecycle == <<service, acquired, start, stop, phase, connected, tapped, displaced>>

LEMMA LifecycleStutters ==
  ASSUME LifecycleInv, UNCHANGED lifecycle
  PROVE  LifecycleInv'
  BY DEF lifecycle, LifecycleInv, LifecycleTypes, NamesAreBuilt, RestingKnowsNothing,
         HoldersAreKnown, Holds, Known, StoppingIsDetached, Idle, Callers, Nodes

LEMMA StartKeeps ==
  ASSUME LifecycleInv, NEW s \in Starters, Start(s)
  PROVE  LifecycleInv'
<1>1. LifecycleTypes'
  BY DEF Start, LifecycleInv, LifecycleTypes
<1>2. \A r \in Starters : start[r] = "built" => start'[r] = "built"
  BY DEF Start, LifecycleInv, LifecycleTypes
<1>3. NamesAreBuilt'
  BY <1>2 DEF Start, LifecycleInv, NamesAreBuilt, Idle
<1>. QED BY <1>1, <1>3 DEF Start, LifecycleInv, RestingKnowsNothing, HoldersAreKnown, Holds,
                           Known, StoppingIsDetached, Idle

(* What the service forgets is displaced, or somebody waits for it.         *)
LEMMA ForgottenIsKnown ==
  ASSUME LifecycleInv, NEW s \in Starters, Known(s)
  PROVE  s \in displaced.nodes \union Unwatched(Callers) \/ \E t \in Callers : stop[t].node = s
<1>1. CASE s = service.node /\ s \notin AwaitedBy(Callers)
  BY <1>1 DEF Unwatched
<1>2. CASE s \in AwaitedBy(Callers)
  BY <1>2 DEF AwaitedBy
<1>. QED BY <1>1, <1>2 DEF Known

LEMMA BuildKeeps ==
  ASSUME LifecycleInv, NEW s \in Starters, Build(s)
  PROVE  LifecycleInv'
<1>1. /\ service.node # s /\ \A t \in Callers : stop[t].node # s
      /\ UNCHANGED stop
  BY DEF Build, LifecycleInv, NamesAreBuilt
<1>2. LifecycleTypes'
  BY DEF Build, LifecycleInv, LifecycleTypes, Nodes, Unwatched
<1>3. NamesAreBuilt'
  BY <1>1 DEF Build, LifecycleInv, LifecycleTypes, NamesAreBuilt, Idle
<1>4. RestingKnowsNothing'
  <2>1. service'.active
    BY DEF Build
  <2>. QED BY <2>1 DEF RestingKnowsNothing
<1>5. HoldersAreKnown'
  <2>1. ASSUME NEW r \in Starters, Holds(r)' PROVE Known(r)'
    <3>1. CASE r = s
      BY <3>1 DEF Build, Known
    <3>2. CASE r # s
      <4>1. Known(r)
        BY <2>1, <3>2 DEF Build, Holds, LifecycleInv, LifecycleTypes, HoldersAreKnown
      <4>. QED BY <1>1, <4>1, ForgottenIsKnown DEF Build, Known
    <3>. QED BY <3>1, <3>2
  <2>2. (acquired \subseteq displaced.acquisitions \union {service.acquisition})'
    BY DEF Build, LifecycleInv, LifecycleTypes, HoldersAreKnown, Nodes
  <2>. QED BY <2>1, <2>2 DEF HoldersAreKnown
<1>6. StoppingIsDetached'
  BY <1>1 DEF Build, LifecycleInv, LifecycleTypes, StoppingIsDetached
<1>. QED BY <1>2, <1>3, <1>4, <1>5, <1>6 DEF LifecycleInv

LEMMA ThrowKeeps ==
  ASSUME LifecycleInv, NEW s \in Starters, Throw(s)
  PROVE  LifecycleInv'
<1>1. /\ UNCHANGED <<acquired, stop, phase, connected, tapped>>
      /\ service' \in {service, [service EXCEPT !.node = None]}
      /\ displaced' \in {displaced,
                         [displaced EXCEPT !.nodes = @ \union Unwatched(Callers)]}
      /\ service' = service \/ displaced'.nodes = displaced.nodes \union Unwatched(Callers)
  BY DEF Throw, LifecycleInv, LifecycleTypes
<1>2. LifecycleTypes'
  BY <1>1 DEF Throw, LifecycleInv, LifecycleTypes, Nodes, Unwatched
<1>3. NamesAreBuilt'
  BY <1>1 DEF Throw, LifecycleInv, LifecycleTypes, NamesAreBuilt, Idle
<1>4. RestingKnowsNothing'
  BY <1>1 DEF LifecycleInv, LifecycleTypes, RestingKnowsNothing, Idle
<1>5. HoldersAreKnown'
  <2>1. ASSUME NEW r \in Starters, Holds(r)' PROVE Known(r)'
    <3>1. Known(r)
      BY <1>1, <2>1 DEF Holds, LifecycleInv, HoldersAreKnown
    <3>2. CASE service' = service
      <4>1. displaced.nodes \subseteq displaced'.nodes
        BY <1>1 DEF LifecycleInv, LifecycleTypes
      <4>. QED BY <1>1, <3>1, <3>2, <4>1 DEF Known
    <3>3. CASE service' # service
      BY <1>1, <3>1, <3>3, ForgottenIsKnown DEF Known
    <3>. QED BY <3>2, <3>3
  <2>2. (acquired \subseteq displaced.acquisitions \union {service.acquisition})'
    BY <1>1 DEF LifecycleInv, LifecycleTypes, HoldersAreKnown
  <2>. QED BY <2>1, <2>2 DEF HoldersAreKnown
<1>6. StoppingIsDetached'
  BY <1>1 DEF LifecycleInv, StoppingIsDetached
<1>. QED BY <1>2, <1>3, <1>4, <1>5, <1>6 DEF LifecycleInv

(* The first half of stop(), for a window and for the drain.                *)
LEMMA StoppingKeeps ==
  ASSUME LifecycleInv, NEW t \in Callers, Idle(t), Stopping(t),
         UNCHANGED <<acquired, start, connected>>
  PROVE  LifecycleInv'
<1>1. /\ stop[t].node = None
      /\ stop'[t] = [state |-> "waiting", node |-> service.node]
      /\ \A u \in Callers : u # t => stop'[u] = stop[u]
      /\ service'.node = service.node /\ service'.acquisition = service.acquisition
      /\ UNCHANGED displaced
  BY DEF Stopping, LifecycleInv, LifecycleTypes, NamesAreBuilt
<1>2. LifecycleTypes'
  BY DEF Stopping, LifecycleInv, LifecycleTypes, Nodes
<1>3. NamesAreBuilt'
  BY <1>1 DEF LifecycleInv, NamesAreBuilt, Idle
<1>4. RestingKnowsNothing'
  BY <1>1 DEF RestingKnowsNothing, Idle
<1>5. HoldersAreKnown'
  <2>1. ASSUME NEW r \in Starters, Holds(r)' PROVE Known(r)'
    <3>1. Known(r)
      BY <2>1 DEF Stopping, Holds, LifecycleInv, LifecycleTypes, HoldersAreKnown
    <3>2. ASSUME NEW u \in Callers, stop[u].node = r PROVE stop'[u].node = r
      <4>1. r # None
        BY CallersAssumption
      <4>. QED BY <1>1, <3>2, <4>1
    <3>. QED BY <1>1, <3>1, <3>2 DEF Known
  <2>. QED BY <1>1, <2>1 DEF LifecycleInv, HoldersAreKnown
<1>6. StoppingIsDetached'
  <2>1. ASSUME NEW u \in Callers, NEW r \in Starters, stop'[u].node = r
        PROVE  tapped'[r] = {} /\ phase'[r] # "running"
    <3>1. CASE r = service.node
      BY <3>1 DEF Stopping
    <3>2. CASE r # service.node
      <4>1. stop[u].node = r
        BY <1>1, <2>1, <3>2
      <4>. QED BY <3>2, <4>1 DEF Stopping, LifecycleInv, StoppingIsDetached
    <3>. QED BY <3>1, <3>2
  <2>. QED BY <2>1 DEF StoppingIsDetached
<1>. QED BY <1>2, <1>3, <1>4, <1>5, <1>6 DEF LifecycleInv

LEMMA DrainKeeps == ASSUME LifecycleInv, Drain PROVE LifecycleInv'
<1>1. CASE Stopping(Drainer)
  BY <1>1, StoppingKeeps DEF Drain, Callers
<1>2. CASE ~Stopping(Drainer)
  BY <1>2, LifecycleStutters DEF Drain, lifecycle
<1>. QED BY <1>1, <1>2

(* The second half: the node that t waited for holds nothing, and what the   *)
(* service knew besides is forgotten.                                       *)
LEMMA StoppedKeeps ==
  ASSUME LifecycleInv, NEW t \in Callers, Stopped(t)
  PROVE  LifecycleInv'
<1>1. /\ stop'[t] = [state |-> "idle", node |-> None]
      /\ \A u \in Callers : u # t => stop'[u] = stop[u]
      /\ service'.node = None /\ service'.acquisition = None
      /\ service'.active = service.active
      /\ displaced'.nodes = displaced.nodes \union Unwatched(Callers)
      /\ displaced'.acquisitions = displaced.acquisitions
      /\ UNCHANGED <<start, tapped>>
  BY DEF Stopped, LifecycleInv, LifecycleTypes
<1>2. LifecycleTypes'
  BY DEF Stopped, Finish, Disconnected, Unacquired, LifecycleInv, LifecycleTypes, Nodes, Unwatched
<1>3. NamesAreBuilt'
  <2>1. \A u \in Callers : \A s \in Starters : stop'[u].node = s => stop[u].node = s
    BY <1>1
  <2>2. \A s \in Starters : service'.node # s
    BY <1>1
  <2>3. \A u \in Callers : Idle(u)' => stop'[u].node = None
    BY <1>1 DEF LifecycleInv, NamesAreBuilt, Idle
  <2>. QED BY <1>1, <2>1, <2>2, <2>3 DEF LifecycleInv, NamesAreBuilt
<1>4. RestingKnowsNothing'
  BY <1>1 DEF RestingKnowsNothing
<1>5. ASSUME NEW s \in Starters, stop[t].node = s
      PROVE  connected'[s] = {} /\ tapped'[s] = {}
  <2>1. Finish(s)
    BY <1>5 DEF Stopped
  <2>. QED BY <1>1, <1>5, <2>1 DEF Finish, Disconnected, LifecycleInv, LifecycleTypes,
                                   StoppingIsDetached
<1>6. HoldersAreKnown'
  <2>1. ASSUME NEW r \in Starters, Holds(r)' PROVE Known(r)'
    <3>1. stop[t].node # r
      BY <1>5, <2>1 DEF Holds
    <3>2. Holds(r)
      BY <2>1, <3>1 DEF Stopped, Finish, Disconnected, Holds, LifecycleInv, LifecycleTypes
    <3>3. r \in displaced'.nodes \/ \E u \in Callers : stop[u].node = r
      BY <1>1, <3>2, ForgottenIsKnown DEF LifecycleInv, HoldersAreKnown
    <3>. QED BY <1>1, <3>1, <3>3 DEF Known
  <2>2. acquired' \subseteq displaced'.acquisitions
    BY <1>1 DEF Stopped, Unacquired, LifecycleInv, HoldersAreKnown
  <2>. QED BY <2>1, <2>2 DEF HoldersAreKnown
<1>7. StoppingIsDetached'
  <2>1. \A s \in Starters : phase'[s] = "running" => phase[s] = "running"
    BY DEF Stopped, Finish, LifecycleInv, LifecycleTypes
  <2>2. \A u \in Callers : \A s \in Starters : stop'[u].node = s => stop[u].node = s
    BY <1>1
  <2>. QED BY <1>1, <2>1, <2>2 DEF LifecycleInv, StoppingIsDetached
<1>. QED BY <1>2, <1>3, <1>4, <1>6, <1>7 DEF LifecycleInv

(* A stop() goes on from phase to phase.                                    *)
LEMMA PhasesKeep ==
  ASSUME LifecycleInv, NEW s \in Starters, Detached(s) \/ Deadline(s) \/ GraceOver(s)
  PROVE  LifecycleInv'
<1>1. /\ UNCHANGED <<service, acquired, start, stop, connected, tapped, displaced>>
      /\ \E p \in {"finalizing", "grace", "joining"} : phase' = [phase EXCEPT ![s] = p]
  BY DEF Detached, Deadline, GraceOver, calls
<1>2. LifecycleTypes'
  BY <1>1 DEF LifecycleInv, LifecycleTypes
<1>3. \A r \in Starters : phase'[r] = "running" => phase[r] = "running"
  BY <1>1 DEF LifecycleInv, LifecycleTypes
<1>4. NamesAreBuilt' /\ RestingKnowsNothing'
  BY <1>1 DEF LifecycleInv, NamesAreBuilt, RestingKnowsNothing, Idle
<1>5. HoldersAreKnown'
  BY <1>1 DEF LifecycleInv, HoldersAreKnown, Holds, Known
<1>6. StoppingIsDetached'
  BY <1>1, <1>3 DEF LifecycleInv, StoppingIsDetached
<1>. QED BY <1>2, <1>4, <1>5, <1>6 DEF LifecycleInv

(* Streams come and go only while a recording runs; its node is known.      *)
LEMMA StreamsKeep ==
  ASSUME LifecycleInv, NEW s \in Starters, NEW x \in Streams,
         RemoveStream(s, x) \/ Removed(s, x) \/ AddStream(s, x)
  PROVE  LifecycleInv'
<1>1. /\ phase[s] = "running"
      /\ UNCHANGED <<service, acquired, start, stop, phase, displaced>>
      /\ connected' \in [Starters -> SUBSET Streams]
      /\ tapped' \in [Starters -> SUBSET Streams]
      /\ \A r \in Starters : r # s => connected'[r] = connected[r] /\ tapped'[r] = tapped[r]
  BY DEF RemoveStream, Removed, AddStream, Running, calls, LifecycleInv, LifecycleTypes
<1>2. Known(s)
  <2>1. CASE RemoveStream(s, x) \/ AddStream(s, x)
    BY <2>1 DEF RemoveStream, AddStream, Running, Known
  <2>2. CASE Removed(s, x)
    BY <2>2 DEF Removed, Holds, LifecycleInv, HoldersAreKnown
  <2>. QED BY <2>1, <2>2
<1>3. HoldersAreKnown'
  BY <1>1, <1>2 DEF LifecycleInv, HoldersAreKnown, Holds, Known
<1>4. LifecycleTypes'
  BY <1>1 DEF LifecycleInv, LifecycleTypes
<1>5. NamesAreBuilt' /\ RestingKnowsNothing'
  BY <1>1 DEF LifecycleInv, NamesAreBuilt, RestingKnowsNothing, Idle
<1>6. StoppingIsDetached'
  BY <1>1 DEF LifecycleInv, StoppingIsDetached
<1>. QED BY <1>3, <1>4, <1>5, <1>6 DEF LifecycleInv
-----------------------------------------------------------------------------
LEMMA LifecyclePreserved ==
  ASSUME LifecycleInv, [Next]_vars
  PROVE  LifecycleInv'
<1>1. ASSUME NEW s \in Starters, Start(s) \/ Build(s) \/ Throw(s) PROVE LifecycleInv'
  BY <1>1, StartKeeps, BuildKeeps, ThrowKeeps
<1>2. ASSUME NEW s \in Starters, Detached(s) \/ Deadline(s) \/ GraceOver(s)
      PROVE LifecycleInv'
  BY <1>2, PhasesKeep
<1>3. ASSUME NEW s \in Starters, NEW x \in Streams,
             RemoveStream(s, x) \/ Removed(s, x) \/ AddStream(s, x)
      PROVE LifecycleInv'
  BY <1>3, StreamsKeep
<1>4. ASSUME NEW t \in Stoppers, Stop(t) PROVE LifecycleInv'
  BY <1>4, StoppingKeeps DEF Stop, Callers
<1>5. ASSUME NEW t \in Callers, Stopped(t) PROVE LifecycleInv'
  BY <1>5, StoppedKeeps
<1>6. CASE Drain
  BY <1>6, DrainKeeps
<1>7. CASE UNCHANGED lifecycle
  BY <1>7, LifecycleStutters
<1>8. CASE \E s \in Starters : Post(s) \/ \E x \in Streams : Admit(s, x)
  BY <1>7, <1>8 DEF Post, Admit, calls, lifecycle
<1>9. CASE \E s \in Starters : \E f \in hand[s] : Enqueue(s, f)
  BY <1>7, <1>9 DEF Enqueue, calls, lifecycle
<1>10. CASE \E s \in Starters : Take(s) \/ GiveUp(s) \/ Wrote(s) \/ WriteFails(s)
                                  \/ Stick(s) \/ Unstick(s)
  BY <1>7, <1>10 DEF Take, GiveUp, Wrote, WriteFails, Stick, Unstick, calls, lifecycle
<1>11. CASE Activate \/ UNCHANGED vars
  BY <1>7, <1>11 DEF Activate, vars, calls, lifecycle
<1>. QED
  BY <1>1, <1>2, <1>3, <1>4, <1>5, <1>6, <1>8, <1>9, <1>10, <1>11 DEF Next

(* Once nothing is recorded and no call is under way, the recorder holds no   *)
(* pipe and no tap but those of the nodes and acquisitions that the service   *)
(* forgot: nothing else keeps the producers, whatever overlapped.             *)
THEOREM NothingStaysHeld == Spec => []IdleHoldsNothing
<1>1. LifecycleInv => IdleHoldsNothing
  <2>1. SUFFICES ASSUME LifecycleInv, ~service.active, ~InFlight, Idle(Drainer)
                 PROVE  /\ acquired \subseteq displaced.acquisitions
                        /\ \A s \in Starters : Holds(s) => s \in displaced.nodes
    BY DEF IdleHoldsNothing, Holds, LifecycleInv, LifecycleTypes
  <2>2. \A t \in Callers : Idle(t)
    BY <2>1 DEF InFlight, Callers
  <2>3. service.node = None /\ service.acquisition = None
    BY <2>1, <2>2 DEF LifecycleInv, RestingKnowsNothing
  <2>4. \A t \in Callers : stop[t].node = None
    BY <2>1, <2>2 DEF LifecycleInv, NamesAreBuilt
  <2>5. acquired \subseteq displaced.acquisitions
    BY <2>1, <2>3 DEF LifecycleInv, LifecycleTypes, HoldersAreKnown
  <2>6. \A s \in Starters : Holds(s) => s \in displaced.nodes
    BY <2>1, <2>3, <2>4 DEF LifecycleInv, HoldersAreKnown, Known
  <2>. QED BY <2>5, <2>6
<1>2. LifecycleInv /\ [Next]_vars => LifecycleInv'
  BY LifecyclePreserved
<1>. QED BY LifecycleStarts, <1>1, <1>2, PTL DEF Spec

-----------------------------------------------------------------------------
HIDE CallersAssumption

(* What becomes of the frames.  The invariant follows a recording's frames    *)
(* from the producers' hands to the queue, the writer and the file.          *)

InWriting(s) == {writing[s]} \ {None, End}

\* Frames of one stream lie in the order of their numbers: within a sequence,
\* and across two sets.
InOrder(seq) ==
  \A i, j \in DOMAIN seq : i < j /\ seq[i].of = seq[j].of => seq[i].n < seq[j].n
Before(F, G) == \A f \in F, g \in G : f.of = g.of => f.n < g.n

AccountTypes ==
  /\ service \in [active : BOOLEAN, shown : BOOLEAN, node : Starters \union {None},
                  acquisition : Starters \union {None}]
  /\ start \in [Starters -> {"idle", "preparing", "refused", "built"}]
  /\ phase \in [Starters -> {"none", "running", "detaching", "finalizing", "grace",
                             "joining", "released"}]
  /\ hand \in [Starters -> SUBSET Items]
  /\ queue \in [Starters -> Seq(Items \union {End})]
  /\ writing \in [Starters -> Items \union {End, None}]
  /\ container \in [Starters -> [state : {"none", "open", "complete", "truncated"},
                                 holds : Seq(Items)]]
  /\ admitted \in [Starters -> SUBSET Items]
  /\ shed \in [Starters -> SUBSET Items]
  /\ late \in [Starters -> SUBSET Items]
  /\ items \in [Starters -> Nat]

\* A node is started once; while the service is active its node runs.
ServiceRuns == service.active /\ service.node # None => phase[service.node] = "running"

\* The end mark is queued once, behind everything, when no tap is left and no
\* producer is in one.
OpenPhases == {"none", "running", "detaching"}
EndIsLast(s) ==
  /\ start[s] # "built" => phase[s] = "none"
  /\ phase[s] \in OpenPhases =>
       /\ End \notin ToSet(queue[s]) /\ writing[s] # End
       /\ container[s].state # "complete"
  /\ phase[s] \notin OpenPhases => hand[s] = {}
  /\ \A i \in DOMAIN queue[s] : queue[s][i] = End => i = Len(queue[s])
  /\ writing[s] = End => queue[s] = <<>>
  /\ container[s].state = "complete" => queue[s] = <<>> /\ writing[s] = None

\* A producer has one frame in hand, and the frames of a stream pass from the
\* producer to the queue, the writer and the file without overtaking.
NothingOvertakes(s) ==
  /\ \A f \in hand[s] : f.of # Data
  /\ \A f, g \in hand[s] : f.of = g.of => f = g
  /\ InOrder(container[s].holds) /\ InOrder(queue[s])
  /\ Before(Kept(s), InWriting(s) \union Queued(s) \union hand[s])
  /\ Before(InWriting(s), Queued(s) \union hand[s])
  /\ Before(Queued(s), hand[s])
  /\ \A f \in admitted[s] : f.n <= items[s]

\* What is admitted is on its way or in the file, or it is dropped.
Along(s) == hand[s] \union Queued(s) \union InWriting(s) \union Kept(s)
NothingIsLost(s) ==
  /\ admitted[s] = shed[s] \union late[s] \union Along(s)
  /\ shed[s] \intersect late[s] = {}
  /\ (shed[s] \union late[s]) \intersect Along(s) = {}

Newer(f, fs) == {g \in FramesOf(f.of, fs) : g.n > f.n}
OldestIsShed(s) ==
  /\ IsFiniteSet(admitted[s])
  /\ \A f \in shed[s] : f.of # Data /\ Cardinality(Newer(f, admitted[s])) >= MaxQueued

Account(s) == EndIsLast(s) /\ NothingOvertakes(s) /\ NothingIsLost(s) /\ OldestIsShed(s)
AccountInv == AccountTypes /\ ServiceRuns /\ \A s \in Starters : Account(s)

Entries == Items \union {End}

\* Facts about the queues and files of frames.
LEMMA AppendedFrame ==
  ASSUME NEW S, NEW q \in Seq(S), NEW f \in S
  PROVE  /\ Append(q, f) \in Seq(S) /\ Len(Append(q, f)) = Len(q) + 1
         /\ Append(q, f)[Len(q) + 1] = f
         /\ \A i \in DOMAIN q : Append(q, f)[i] = q[i]
         /\ ToSet(Append(q, f)) = ToSet(q) \union {f}
         /\ InOrder(q) /\ (\A g \in ToSet(q) : g.of = f.of => g.n < f.n)
              => InOrder(Append(q, f))
<1>1. /\ Append(q, f) \in Seq(S) /\ Len(Append(q, f)) = Len(q) + 1
      /\ Append(q, f)[Len(q) + 1] = f
      /\ \A i \in DOMAIN q : Append(q, f)[i] = q[i]
      /\ DOMAIN q = 1..Len(q) /\ DOMAIN Append(q, f) = 1..(Len(q) + 1)
      /\ Len(q) \in Nat
  OBVIOUS
<1>2. ToSet(Append(q, f)) = ToSet(q) \union {f}
  <2>1. \A i \in DOMAIN Append(q, f) : i = Len(q) + 1 \/ i \in DOMAIN q
    BY <1>1
  <2>2. \A i \in DOMAIN q : i \in DOMAIN Append(q, f)
    BY <1>1
  <2>3. Len(q) + 1 \in DOMAIN Append(q, f)
    BY <1>1
  <2>. QED BY <1>1, <2>1, <2>2, <2>3 DEF ToSet
<1>3. ASSUME InOrder(q), \A g \in ToSet(q) : g.of = f.of => g.n < f.n,
             NEW i \in DOMAIN Append(q, f), NEW j \in DOMAIN Append(q, f),
             i < j, Append(q, f)[i].of = Append(q, f)[j].of
      PROVE  Append(q, f)[i].n < Append(q, f)[j].n
  <2>1. i \in DOMAIN q /\ (j \in DOMAIN q \/ j = Len(q) + 1)
    BY <1>1, <1>3
  <2>. QED BY <1>1, <1>3, <2>1 DEF InOrder, ToSet
<1>. QED BY <1>1, <1>2, <1>3 DEF InOrder

LEMMA TakenFrame ==
  ASSUME NEW S, NEW q \in Seq(S), q # <<>>
  PROVE  /\ Head(q) \in S /\ Head(q) = q[1] /\ Tail(q) \in Seq(S)
         /\ Len(Tail(q)) = Len(q) - 1
         /\ \A i \in DOMAIN Tail(q) : i + 1 \in DOMAIN q /\ Tail(q)[i] = q[i + 1]
         /\ ToSet(q) = {Head(q)} \union ToSet(Tail(q))
         /\ InOrder(q) => /\ InOrder(Tail(q))
                          /\ \A g \in ToSet(Tail(q)) : g.of = Head(q).of => Head(q).n < g.n
<1>1. /\ Head(q) \in S /\ Head(q) = q[1] /\ Tail(q) \in Seq(S)
      /\ Len(q) \in Nat /\ Len(q) > 0 /\ Len(Tail(q)) = Len(q) - 1
      /\ DOMAIN q = 1..Len(q) /\ DOMAIN Tail(q) = 1..(Len(q) - 1)
      /\ \A i \in 1..(Len(q) - 1) : Tail(q)[i] = q[i + 1]
  OBVIOUS
<1>2. ToSet(q) = {Head(q)} \union ToSet(Tail(q))
  <2>1. ASSUME NEW i \in DOMAIN q PROVE q[i] = Head(q) \/ q[i] \in ToSet(Tail(q))
    <3>1. CASE i = 1
      BY <1>1, <3>1
    <3>2. CASE i # 1
      <4>1. i - 1 \in DOMAIN Tail(q) /\ Tail(q)[i - 1] = q[i]
        BY <1>1, <3>2
      <4>. QED BY <4>1 DEF ToSet
    <3>. QED BY <3>1, <3>2
  <2>2. ASSUME NEW i \in DOMAIN Tail(q) PROVE Tail(q)[i] \in ToSet(q)
    <3>1. i + 1 \in DOMAIN q /\ Tail(q)[i] = q[i + 1]
      BY <1>1
    <3>. QED BY <3>1 DEF ToSet
  <2>3. 1 \in DOMAIN q
    BY <1>1
  <2>. QED BY <1>1, <2>1, <2>2, <2>3 DEF ToSet
<1>3. ASSUME InOrder(q)
      PROVE  /\ InOrder(Tail(q))
             /\ \A g \in ToSet(Tail(q)) : g.of = Head(q).of => Head(q).n < g.n
  <2>1. ASSUME NEW i \in DOMAIN Tail(q), NEW j \in DOMAIN Tail(q), i < j,
               Tail(q)[i].of = Tail(q)[j].of
        PROVE  Tail(q)[i].n < Tail(q)[j].n
    <3>1. /\ i + 1 \in DOMAIN q /\ j + 1 \in DOMAIN q /\ i + 1 < j + 1
          /\ Tail(q)[i] = q[i + 1] /\ Tail(q)[j] = q[j + 1]
      BY <1>1, <2>1
    <3>. QED BY <1>3, <2>1, <3>1 DEF InOrder
  <2>2. ASSUME NEW i \in DOMAIN Tail(q), Tail(q)[i].of = Head(q).of
        PROVE  Head(q).n < Tail(q)[i].n
    <3>1. /\ i + 1 \in DOMAIN q /\ 1 \in DOMAIN q /\ 1 < i + 1
          /\ Tail(q)[i] = q[i + 1] /\ Head(q) = q[1]
      BY <1>1, <2>2
    <3>. QED BY <1>3, <2>2, <3>1 DEF InOrder
  <2>. QED BY <2>1, <2>2 DEF InOrder, ToSet
<1>. QED BY <1>1, <1>2, <1>3

LEMMA Joined ==
  ASSUME NEW S, NEW l \in Seq(S), NEW r \in Seq(S)
  PROVE  /\ l \o r \in Seq(S) /\ Len(l \o r) = Len(l) + Len(r)
         /\ Len(l) \in Nat /\ Len(r) \in Nat
         /\ DOMAIN (l \o r) = 1..(Len(l) + Len(r))
         /\ \A i \in 1..Len(l) : (l \o r)[i] = l[i]
         /\ \A i \in 1..Len(r) : (l \o r)[Len(l) + i] = r[i]
  OBVIOUS

LEMMA RemovedFrame ==
  ASSUME NEW S, NEW q \in Seq(S), NEW k \in DOMAIN q
  PROVE  /\ RemoveAt(q, k) \in Seq(S) /\ Len(RemoveAt(q, k)) = Len(q) - 1
         /\ \A i \in DOMAIN RemoveAt(q, k) :
              /\ i < k => i \in DOMAIN q /\ RemoveAt(q, k)[i] = q[i]
              /\ i >= k => i + 1 \in DOMAIN q /\ RemoveAt(q, k)[i] = q[i + 1]
         /\ ToSet(RemoveAt(q, k)) = {q[i] : i \in DOMAIN q \ {k}}
         /\ InOrder(q) => InOrder(RemoveAt(q, k))
<1> DEFINE l == SubSeq(q, 1, k - 1)
           r == SubSeq(q, k + 1, Len(q))
           t == RemoveAt(q, k)
<1>1. /\ Len(q) \in Nat /\ DOMAIN q = 1..Len(q) /\ k \in 1..Len(q)
  OBVIOUS
<1>2. /\ l \in Seq(S) /\ Len(l) = k - 1 /\ \A i \in 1..(k - 1) : l[i] = q[i]
  BY <1>1
<1>3. /\ r \in Seq(S) /\ Len(r) = Len(q) - k /\ \A i \in 1..(Len(q) - k) : r[i] = q[k + i]
  BY <1>1
<1>4. /\ t \in Seq(S) /\ Len(t) = (k - 1) + (Len(q) - k)
      /\ DOMAIN t = 1..((k - 1) + (Len(q) - k))
      /\ \A i \in 1..(k - 1) : t[i] = l[i]
      /\ \A i \in 1..(Len(q) - k) : t[(k - 1) + i] = r[i]
  <2>1. t = l \o r
    BY DEF RemoveAt
  <2> HIDE DEF l, r, t
  <2>2. Len(l) = k - 1 /\ Len(r) = Len(q) - k
    BY <1>2, <1>3
  <2>3. l \in Seq(S) /\ r \in Seq(S)
    BY <1>2, <1>3
  <2>4. /\ l \o r \in Seq(S) /\ Len(l \o r) = Len(l) + Len(r)
        /\ DOMAIN (l \o r) = 1..(Len(l) + Len(r))
        /\ \A i \in 1..Len(l) : (l \o r)[i] = l[i]
        /\ \A i \in 1..Len(r) : (l \o r)[Len(l) + i] = r[i]
    BY <2>3, Joined
  <2>5. /\ t \in Seq(S) /\ Len(t) = Len(l) + Len(r) /\ DOMAIN t = 1..(Len(l) + Len(r))
        /\ \A i \in 1..Len(l) : t[i] = l[i]
        /\ \A i \in 1..Len(r) : t[Len(l) + i] = r[i]
    BY <2>1, <2>4, Zenon
  <2>. QED BY <2>2, <2>5, Zenon
<1> HIDE DEF l, r, t
<1>5. /\ Len(t) = Len(q) - 1 /\ DOMAIN t = 1..(Len(q) - 1)
      /\ (k - 1) + (Len(q) - k) = Len(q) - 1
  BY <1>1, <1>4
<1>6. ASSUME NEW i \in DOMAIN t
      PROVE  /\ i < k => i \in DOMAIN q /\ t[i] = q[i]
             /\ i >= k => i + 1 \in DOMAIN q /\ t[i] = q[i + 1]
  <2>1. CASE i < k
    <3>1. i \in 1..(k - 1) /\ i \in DOMAIN q
      BY <1>1, <1>5, <2>1
    <3>. QED BY <1>2, <1>4, <2>1, <3>1
  <2>2. CASE i >= k
    <3>1. PICK j \in 1..(Len(q) - k) : i = (k - 1) + j
      <4>1. i - (k - 1) \in 1..(Len(q) - k) /\ i = (k - 1) + (i - (k - 1))
        BY <1>1, <1>5, <2>2
      <4>. QED BY <4>1
    <3>2. t[i] = r[j] /\ r[j] = q[k + j]
      BY <1>3, <1>4, <3>1
    <3>. QED BY <1>1, <1>5, <2>2, <3>1, <3>2
  <2>. QED BY <1>1, <1>5, <2>1, <2>2
<1>7. ASSUME NEW i \in DOMAIN q, i # k PROVE \E j \in DOMAIN t : t[j] = q[i]
  <2>1. CASE i < k
    BY <1>1, <1>5, <1>6, <2>1
  <2>2. CASE i > k
    <3>1. i - 1 \in DOMAIN t /\ i - 1 >= k
      BY <1>1, <1>5, <2>2
    <3>2. t[i - 1] = q[(i - 1) + 1]
      BY <1>6, <3>1
    <3>. QED BY <1>1, <3>1, <3>2
  <2>. QED BY <1>1, <1>7, <2>1, <2>2
<1>8. ToSet(t) = {q[i] : i \in DOMAIN q \ {k}}
  <2>1. \A j \in DOMAIN t : \E i \in DOMAIN q \ {k} : t[j] = q[i]
    BY <1>1, <1>5, <1>6
  <2>. QED BY <1>7, <2>1 DEF ToSet
<1>9. ASSUME InOrder(q), NEW i \in DOMAIN t, NEW j \in DOMAIN t, i < j,
             t[i].of = t[j].of
      PROVE  t[i].n < t[j].n
  <2>1. PICK a \in DOMAIN q, b \in DOMAIN q : a < b /\ t[i] = q[a] /\ t[j] = q[b]
    <3>1. CASE j < k
      BY <1>1, <1>5, <1>6, <1>9, <3>1
    <3>2. CASE i < k /\ j >= k
      <4>1. i \in DOMAIN q /\ j + 1 \in DOMAIN q /\ i < j + 1
        BY <1>1, <1>5, <1>6, <1>9, <3>2
      <4>. QED BY <1>6, <3>2, <4>1
    <3>3. CASE i >= k
      <4>1. /\ i + 1 \in DOMAIN q /\ j + 1 \in DOMAIN q /\ i + 1 < j + 1
            /\ t[i] = q[i + 1] /\ t[j] = q[j + 1]
        BY <1>1, <1>5, <1>6, <1>9, <3>3
      <4>. QED BY <4>1
    <3>. QED BY <1>1, <1>5, <1>9, <3>1, <3>2, <3>3
  <2>. QED BY <1>9, <2>1 DEF InOrder
<1>. QED BY <1>4, <1>5, <1>6, <1>8, <1>9 DEF InOrder, t

LEMMA LeastNat ==
  ASSUME NEW T \in SUBSET Nat, T # {}
  PROVE  \E n \in T : \A m \in T : n <= m
<1> DEFINE R == OpToRel(<, Nat)
<1>1. IsWellFoundedOn(R, Nat) BY NatLessThanWellFounded
<1>2. PICK n \in T : \A m \in T : ~ (<<m, n>> \in R)
  <2> HIDE DEF R
  <2> QED BY <1>1, WFMin
<1>3. \A m \in T : ~ (m < n)
  BY <1>2 DEF OpToRel
<1> QED BY <1>3

LEMMA OnlyOnce ==
  ASSUME NEW q \in Seq(Entries), InOrder(q)
  PROVE  \A i, j \in DOMAIN q : q[i] = q[j] => i = j
<1>1. DOMAIN q \subseteq Nat /\ \A i \in DOMAIN q : q[i].n \in Nat
  BY DEF Entries, Items, End
<1>2. \A i, j \in DOMAIN q : i < j => q[i] # q[j]
  BY <1>1 DEF InOrder
<1>. QED BY <1>1, <1>2

LEMMA AsManyFrames ==
  ASSUME NEW q \in Seq(Items), InOrder(q)
  PROVE  Cardinality(ToSet(q)) = Len(q)
<1>1. q \in Seq(Entries) /\ Len(q) \in Nat /\ DOMAIN q = 1..Len(q)
  BY DEF Entries
<1>2. q \in Surjection(1..Len(q), ToSet(q))
  BY <1>1 DEF Surjection, ToSet
<1>3. q \in Injection(1..Len(q), ToSet(q))
  BY <1>1, <1>2, OnlyOnce DEF Surjection, Injection, IsInjective
<1>4. IsFiniteSet(1..Len(q)) /\ Cardinality(1..Len(q)) = Len(q)
  BY <1>1, FS_Interval
<1>. QED BY <1>2, <1>3, <1>4, FS_Surjection

(* The oldest frame of a window is there, and sheds it for the others.      *)
LEMMA OldestOfWindow ==
  ASSUME NEW s \in Starters, NEW x \in Streams, queue[s] \in Seq(Entries),
         Pending(s, x) # {}
  PROVE  /\ Victim(s, x) \in Pending(s, x)
         /\ \A i \in Pending(s, x) : Victim(s, x) <= i
<1>1. Pending(s, x) \in SUBSET Nat
  BY DEF Pending
<1>2. \E v \in Pending(s, x) : \A i \in Pending(s, x) : v <= i
  BY <1>1, LeastNat
<1>. QED BY <1>2 DEF Victim, Oldest, Min

data(s) == <<hand[s], queue[s], writing[s], container[s].holds, admitted[s], shed[s],
             late[s], items[s]>>
course(s) == <<hand[s], queue[s], writing[s], container[s].state, phase[s], start[s]>>

LEMMA DataUnchanged ==
  ASSUME NEW s \in Starters, NothingOvertakes(s), NothingIsLost(s), OldestIsShed(s),
         UNCHANGED data(s)
  PROVE  NothingOvertakes(s)' /\ NothingIsLost(s)' /\ OldestIsShed(s)'
<1>1. /\ hand'[s] = hand[s] /\ Queued(s)' = Queued(s) /\ InWriting(s)' = InWriting(s)
      /\ Kept(s)' = Kept(s) /\ items'[s] = items[s] /\ queue'[s] = queue[s]
      /\ shed'[s] = shed[s] /\ late'[s] = late[s] /\ admitted'[s] = admitted[s]
      /\ container'[s].holds = container[s].holds
  BY DEF data, Queued, InWriting, Kept
<1>2. NothingOvertakes(s)'
  BY <1>1 DEF NothingOvertakes
<1>3. NothingIsLost(s)'
  BY <1>1 DEF NothingIsLost, Along
<1>4. OldestIsShed(s)'
  BY <1>1 DEF OldestIsShed
<1>. QED BY <1>2, <1>3, <1>4

LEMMA CourseUnchanged ==
  ASSUME NEW s \in Starters, EndIsLast(s), UNCHANGED course(s)
  PROVE  EndIsLast(s)'
  BY DEF EndIsLast, course

-----------------------------------------------------------------------------
LEMMA AccountStarts == Init => AccountInv
<1>1. SUFFICES ASSUME Init PROVE AccountInv
  OBVIOUS
<1>2. AccountTypes
  BY <1>1 DEF Init, AccountTypes
<1>3. ServiceRuns
  BY <1>1 DEF Init, ServiceRuns
<1>4. ASSUME NEW s \in Starters PROVE Account(s)
  <2>1. /\ hand[s] = {} /\ queue[s] = <<>> /\ writing[s] = None
        /\ container[s].holds = <<>> /\ container[s].state = "none"
        /\ admitted[s] = {} /\ shed[s] = {} /\ late[s] = {}
        /\ phase[s] = "none" /\ start[s] = "idle"
    BY <1>1 DEF Init
  <2>2. ToSet(<<>>) = {} /\ DOMAIN <<>> = {} /\ None # End
    BY NoneAssumption DEF ToSet
  <2>3. Queued(s) = {} /\ InWriting(s) = {} /\ Kept(s) = {}
    BY <2>1, <2>2 DEF Queued, InWriting, Kept
  <2>4. EndIsLast(s)
    BY <2>1, <2>2 DEF EndIsLast
  <2>5. NothingOvertakes(s)
    BY <2>1, <2>2, <2>3 DEF NothingOvertakes, InOrder, Before
  <2>6. NothingIsLost(s)
    BY <2>1, <2>3 DEF NothingIsLost, Along
  <2>7. OldestIsShed(s)
    BY <2>1, FS_EmptySet DEF OldestIsShed
  <2>. QED BY <2>4, <2>5, <2>6, <2>7 DEF Account
<1>. QED BY <1>2, <1>3, <1>4 DEF AccountInv

(* Calls, streams and a stuck write move no frame.                          *)
LEMMA AccountStutters ==
  ASSUME AccountInv,
         UNCHANGED <<service, start, phase, hand, queue, writing, container, admitted, shed,
                     late, items>>
  PROVE  AccountInv'
<1>1. AccountTypes' /\ ServiceRuns'
  BY DEF AccountInv, AccountTypes, ServiceRuns
<1>2. ASSUME NEW s \in Starters PROVE Account(s)'
  <2>1. UNCHANGED data(s) /\ UNCHANGED course(s)
    BY DEF data, course
  <2>. QED BY <2>1, DataUnchanged, CourseUnchanged DEF AccountInv, Account
<1>. QED BY <1>1, <1>2 DEF AccountInv

(* The calls of the service, and the phases of a stop().                    *)
LEMMA CallsKeepAccount ==
  ASSUME AccountInv, AccountTypes', ServiceRuns',
         UNCHANGED <<hand, queue, writing, admitted, shed, late, items>>,
         \A s \in Starters :
           /\ container'[s].holds = container[s].holds
           /\ container'[s].state = "complete" => container[s].state = "complete"
           /\ start[s] = "built" => start'[s] = "built"
           /\ start'[s] # "built" => phase'[s] = "none"
           /\ phase'[s] \in OpenPhases <=> phase[s] \in OpenPhases
  PROVE  AccountInv'
<1>1. ASSUME NEW s \in Starters PROVE Account(s)'
  <2>1. UNCHANGED data(s)
    BY DEF data
  <2>2. EndIsLast(s)'
    BY DEF AccountInv, Account, EndIsLast
  <2>. QED BY <2>1, <2>2, DataUnchanged DEF AccountInv, Account
<1>. QED BY <1>1 DEF AccountInv

LEMMA StartKeepsAccount == ASSUME AccountInv, NEW s \in Starters, Start(s) PROVE AccountInv'
<1>1. /\ UNCHANGED <<service, phase, hand, queue, writing, container, admitted, shed, late,
                     items>>
      /\ start[s] = "idle" /\ start' \in [Starters -> {"idle", "preparing", "refused", "built"}]
      /\ \A r \in Starters : r # s => start'[r] = start[r]
  BY DEF Start, recorder, counters, AccountInv, AccountTypes
<1>2. AccountTypes' /\ ServiceRuns'
  BY <1>1 DEF AccountInv, AccountTypes, ServiceRuns
<1>3. \A r \in Starters : phase[r] = phase'[r] /\ (start[r] # "built" => phase[r] = "none")
  BY <1>1 DEF AccountInv, Account, EndIsLast
<1>. QED BY <1>1, <1>2, <1>3, CallsKeepAccount

LEMMA BuildKeepsAccount == ASSUME AccountInv, NEW s \in Starters, Build(s) PROVE AccountInv'
<1>1. /\ UNCHANGED <<hand, queue, writing, admitted, shed, late, items>>
      /\ start[s] = "preparing" /\ start'[s] = "built" /\ phase'[s] = "running"
      /\ service'.node = s
      /\ container'[s].state = "open" /\ container'[s].holds = container[s].holds
      /\ \A r \in Starters : r # s => /\ start'[r] = start[r] /\ phase'[r] = phase[r]
                                      /\ container'[r] = container[r]
  BY DEF Build, counters, AccountInv, AccountTypes
<1>2. AccountTypes'
  BY DEF Build, counters, AccountInv, AccountTypes
<1>3. ServiceRuns'
  BY <1>1 DEF ServiceRuns
<1>4. \A r \in Starters : start[r] # "built" => phase[r] = "none"
  BY DEF AccountInv, Account, EndIsLast
<1>5. phase[s] = "none"
  BY <1>1, <1>4
<1>. QED BY <1>1, <1>2, <1>3, <1>4, <1>5, CallsKeepAccount DEF OpenPhases

LEMMA ThrowKeepsAccount == ASSUME AccountInv, NEW s \in Starters, Throw(s) PROVE AccountInv'
<1>1. /\ UNCHANGED <<phase, hand, queue, writing, container, admitted, shed, late, items>>
      /\ service' = service \/ service' = [service EXCEPT !.node = None]
      /\ start[s] = "preparing" /\ start' = [start EXCEPT ![s] = "refused"]
  BY DEF Throw, recorder, counters
<1>2. AccountTypes' /\ ServiceRuns'
  BY <1>1 DEF AccountInv, AccountTypes, ServiceRuns
<1>3. \A r \in Starters : /\ start[r] # "built" => phase[r] = "none"
                          /\ start'[r] # "built" => start[r] # "built"
                          /\ start[r] = "built" => start'[r] = "built"
  BY <1>1 DEF AccountInv, Account, AccountTypes, EndIsLast
<1>. QED BY <1>1, <1>2, <1>3, CallsKeepAccount

LEMMA StoppingKeepsAccount ==
  ASSUME AccountInv, NEW t \in Callers, Stopping(t),
         UNCHANGED <<start, hand, recorder, counters>>
  PROVE  AccountInv'
<1>1. /\ UNCHANGED <<start, hand, queue, writing, container, admitted, shed, late, items>>
      /\ service.active /\ service' = [service EXCEPT !.active = FALSE]
      /\ phase' = [s \in Starters |-> IF s = service.node THEN "detaching" ELSE phase[s]]
  BY DEF Stopping, recorder, counters
<1>2. AccountTypes' /\ ServiceRuns'
  BY <1>1 DEF AccountInv, AccountTypes, ServiceRuns
<1>3. \A r \in Starters : start[r] # "built" => phase[r] = "none"
  BY DEF AccountInv, Account, EndIsLast
<1>4. service.node # None => phase[service.node] = "running"
  BY <1>1 DEF AccountInv, ServiceRuns
<1>5. \A r \in Starters : r = service.node => phase[r] = "running" /\ phase'[r] = "detaching"
  BY <1>1, <1>4, CallersAssumption
<1>6. \A r \in Starters : r # service.node => phase'[r] = phase[r]
  BY <1>1
<1>7. \A r \in Starters : /\ start'[r] # "built" => phase'[r] = "none"
                          /\ phase'[r] \in OpenPhases <=> phase[r] \in OpenPhases
  BY <1>1, <1>3, <1>5, <1>6 DEF OpenPhases
<1>. QED BY <1>1, <1>2, <1>7, CallsKeepAccount

LEMMA StoppedKeepsAccount ==
  ASSUME AccountInv, NEW t \in Callers, Stopped(t)
  PROVE  AccountInv'
<1>1. /\ UNCHANGED <<start, hand, queue, writing, container, admitted, shed, late, items>>
      /\ service'.node = None /\ service' \in [active : BOOLEAN, shown : BOOLEAN,
               node : Starters \union {None}, acquisition : Starters \union {None}]
  BY DEF Stopped, recorder, counters, AccountInv, AccountTypes
<1>2. /\ phase' \in [Starters -> {"none", "running", "detaching", "finalizing", "grace",
                                  "joining", "released"}]
      /\ \A r \in Starters :
           \/ phase'[r] = phase[r]
           \/ phase[r] \notin OpenPhases /\ phase'[r] \notin OpenPhases
  BY DEF Stopped, Finish, OpenPhases, AccountInv, AccountTypes
<1>3. AccountTypes' /\ ServiceRuns'
  BY <1>1, <1>2 DEF AccountInv, AccountTypes, ServiceRuns
<1>4. \A r \in Starters : start[r] # "built" => phase[r] = "none"
  BY DEF AccountInv, Account, EndIsLast
<1>5. \A r \in Starters : start'[r] # "built" => phase'[r] = "none"
  BY <1>1, <1>2, <1>4 DEF OpenPhases
<1>. QED BY <1>1, <1>2, <1>3, <1>5, CallsKeepAccount

LEMMA LatePhasesKeepAccount ==
  ASSUME AccountInv, NEW s \in Starters, Deadline(s) \/ GraceOver(s)
  PROVE  AccountInv'
<1>1. /\ UNCHANGED <<service, start, hand, queue, writing, container, admitted, shed, late,
                     items>>
      /\ phase[s] \in {"finalizing", "grace"} /\ phase'[s] \in {"grace", "joining"}
      /\ phase' \in [Starters -> {"none", "running", "detaching", "finalizing", "grace",
                                  "joining", "released"}]
      /\ \A r \in Starters : r # s => phase'[r] = phase[r]
  BY DEF Deadline, GraceOver, calls, recorder, counters, AccountInv, AccountTypes
<1>2. AccountTypes' /\ ServiceRuns'
  BY <1>1 DEF AccountInv, AccountTypes, ServiceRuns
<1>3. \A r \in Starters : start[r] # "built" => phase[r] = "none"
  BY DEF AccountInv, Account, EndIsLast
<1>4. \A r \in Starters : /\ start'[r] # "built" => phase'[r] = "none"
                          /\ phase'[r] \in OpenPhases <=> phase[r] \in OpenPhases
  BY <1>1, <1>3 DEF OpenPhases
<1>. QED BY <1>1, <1>2, <1>4, CallsKeepAccount

(* What happens to one recording leaves the others alone.                   *)
LEMMA OneRecording ==
  ASSUME AccountInv, AccountTypes', ServiceRuns', NEW s \in Starters, Account(s)',
         \A r \in Starters :
           r # s => /\ hand'[r] = hand[r] /\ queue'[r] = queue[r] /\ writing'[r] = writing[r]
                    /\ container'[r] = container[r] /\ admitted'[r] = admitted[r]
                    /\ shed'[r] = shed[r] /\ late'[r] = late[r] /\ items'[r] = items[r]
                    /\ phase'[r] = phase[r] /\ start'[r] = start[r]
  PROVE  AccountInv'
<1>1. ASSUME NEW r \in Starters, r # s PROVE Account(r)'
  <2>1. UNCHANGED data(r) /\ UNCHANGED course(r)
    BY <1>1 DEF data, course
  <2>. QED BY <2>1, DataUnchanged, CourseUnchanged DEF AccountInv, Account
<1>. QED BY <1>1 DEF AccountInv

(* What the invariant says of one recording.                                *)
LEMMA RecordingTypes ==
  ASSUME AccountTypes, NEW s \in Starters
  PROVE  /\ queue[s] \in Seq(Entries) /\ container[s].holds \in Seq(Items)
         /\ hand[s] \subseteq Items /\ admitted[s] \subseteq Items
         /\ shed[s] \subseteq Items /\ late[s] \subseteq Items
         /\ writing[s] \in Items \union {End, None} /\ items[s] \in Nat
         /\ Queued(s) \subseteq Items /\ InWriting(s) \subseteq Items /\ Kept(s) \subseteq Items
<1>1. /\ queue[s] \in Seq(Entries) /\ container[s].holds \in Seq(Items)
      /\ hand[s] \subseteq Items /\ admitted[s] \subseteq Items
      /\ shed[s] \subseteq Items /\ late[s] \subseteq Items
      /\ writing[s] \in Items \union {End, None} /\ items[s] \in Nat
  BY DEF AccountTypes, Entries
<1>2. ToSet(queue[s]) \subseteq Entries /\ ToSet(container[s].holds) \subseteq Items
  BY <1>1 DEF ToSet
<1>. QED BY <1>1, <1>2 DEF Queued, InWriting, Kept, Entries

LEMMA GiveUpKeepsAccount ==
  ASSUME AccountInv, NEW s \in Starters, GiveUp(s) \/ WriteFails(s)
  PROVE  AccountInv'
<1>1. /\ UNCHANGED <<service, start, phase, hand, queue, writing, admitted, shed, late, items>>
      /\ container'[s].state = "truncated"
      /\ \A r \in Starters : /\ container'[r].holds = container[r].holds
                             /\ r # s => container'[r] = container[r]
  BY DEF GiveUp, WriteFails, Close, calls, counters, AccountInv, AccountTypes
<1>2. AccountTypes'
  <2>1. container \in [Starters -> [state : {"none", "open", "complete", "truncated"},
                                   holds : Seq(Items)]]
    BY DEF AccountInv, AccountTypes
  <2>2. container' = [container EXCEPT ![s].state = "truncated"]
    BY DEF GiveUp, WriteFails, Close
  <2>3. container' \in [Starters -> [state : {"none", "open", "complete", "truncated"},
                                    holds : Seq(Items)]]
    BY <2>1, <2>2
  <2>. QED BY <1>1, <2>3 DEF AccountInv, AccountTypes
<1>3. ServiceRuns'
  BY <1>1 DEF AccountInv, ServiceRuns
<1>4. \A r \in Starters : start[r] # "built" => phase[r] = "none"
  BY DEF AccountInv, Account, EndIsLast
<1>5. \A r \in Starters :
        /\ container'[r].state = "complete" => container[r].state = "complete"
        /\ start'[r] # "built" => phase'[r] = "none"
  BY <1>1, <1>4
<1>. QED BY <1>1, <1>2, <1>3, <1>5, CallsKeepAccount

(* The end mark goes behind everything: no producer has a frame in hand.    *)
LEMMA DetachedKeepsAccount ==
  ASSUME AccountInv, NEW s \in Starters, Detached(s)
  PROVE  AccountInv'
<1>1. /\ UNCHANGED <<service, start, hand, writing, container, admitted, shed, late, items>>
      /\ phase[s] = "detaching" /\ hand[s] = {} /\ phase'[s] = "finalizing"
      /\ queue'[s] = Append(queue[s], End)
      /\ \A r \in Starters : r # s => phase'[r] = phase[r] /\ queue'[r] = queue[r]
  BY DEF Detached, Marked, calls, counters, AccountInv, AccountTypes
<1>2. queue[s] \in Seq(Entries) /\ End \in Entries
  BY RecordingTypes DEF AccountInv, Entries
<1>3. /\ queue'[s] \in Seq(Entries) /\ Len(queue'[s]) = Len(queue[s]) + 1
      /\ \A i \in DOMAIN queue[s] : queue'[s][i] = queue[s][i]
      /\ ToSet(queue'[s]) = ToSet(queue[s]) \union {End}
      /\ InOrder(queue[s]) /\ (\A g \in ToSet(queue[s]) : g.of = End.of => g.n < End.n)
           => InOrder(queue'[s])
  BY <1>1, <1>2, AppendedFrame
<1>4. AccountTypes'
  BY <1>1, <1>3 DEF Detached, calls, counters, Entries, AccountInv, AccountTypes
<1>5. ServiceRuns'
  BY <1>1 DEF AccountInv, AccountTypes, ServiceRuns
<1>6. /\ End \notin ToSet(queue[s]) /\ writing[s] # End /\ container[s].state # "complete"
      /\ start[s] = "built"
  BY <1>1 DEF AccountInv, Account, EndIsLast, OpenPhases
<1>7. \A g \in ToSet(queue[s]) : g.of # End.of
  <2>1. Queued(s) \subseteq Items
    BY RecordingTypes DEF AccountInv
  <2>2. \A g \in ToSet(queue[s]) : g \in Items
    BY <1>6, <2>1 DEF Queued
  <2>3. \A g \in Items : g.of # None
    BY StreamsAssumption DEF Items
  <2>. QED BY <2>2, <2>3 DEF End
<1>8. EndIsLast(s)'
  <2>1. \A i \in DOMAIN queue'[s] : queue'[s][i] = End => i = Len(queue'[s])
    <3>1. \A i \in DOMAIN queue[s] : queue[s][i] # End
      BY <1>6 DEF ToSet
    <3>2. DOMAIN queue[s] = 1..Len(queue[s]) /\ DOMAIN queue'[s] = 1..Len(queue'[s])
          /\ Len(queue[s]) \in Nat
      BY <1>2, <1>3
    <3>. QED BY <1>3, <3>1, <3>2
  <2>. QED BY <1>1, <1>6, <2>1 DEF EndIsLast, OpenPhases
<1>9. Queued(s)' = Queued(s) /\ InWriting(s)' = InWriting(s) /\ Kept(s)' = Kept(s)
  BY <1>1, <1>3 DEF Queued, InWriting, Kept
<1>10. NothingOvertakes(s)'
  BY <1>1, <1>3, <1>7, <1>9 DEF AccountInv, Account, NothingOvertakes
<1>11. NothingIsLost(s)' /\ OldestIsShed(s)'
  BY <1>1, <1>9 DEF AccountInv, Account, NothingIsLost, Along, OldestIsShed, Newer, FramesOf
<1>. QED BY <1>1, <1>4, <1>5, <1>8, <1>10, <1>11, OneRecording DEF Account

(* More frames are newer than a frame that is shed.                         *)
LEMMA AdmittedGrows ==
  ASSUME NEW s \in Starters, NEW e, OldestIsShed(s), BoundsAssumption,
         admitted'[s] = admitted[s] \union {e}
  PROVE  /\ IsFiniteSet(admitted'[s])
         /\ \A f \in shed[s] : /\ f.of # Data
                               /\ Cardinality(Newer(f, admitted'[s])) >= MaxQueued
         /\ shed'[s] = shed[s] => OldestIsShed(s)'
<1>1. IsFiniteSet(admitted'[s])
  BY FS_AddElement DEF OldestIsShed
<1>2. ASSUME NEW f \in shed[s]
      PROVE  f.of # Data /\ Cardinality(Newer(f, admitted'[s])) >= MaxQueued
  <2>1. Newer(f, admitted[s]) \subseteq Newer(f, admitted'[s])
    BY DEF Newer, FramesOf
  <2>2. IsFiniteSet(Newer(f, admitted'[s]))
    BY <1>1, FS_Subset DEF Newer, FramesOf
  <2>3. /\ Cardinality(Newer(f, admitted[s])) <= Cardinality(Newer(f, admitted'[s]))
        /\ Cardinality(Newer(f, admitted[s])) \in Nat
        /\ Cardinality(Newer(f, admitted'[s])) \in Nat
    BY <2>1, <2>2, FS_Subset, FS_CardinalityType
  <2>. QED BY <2>3, <1>2 DEF OldestIsShed, BoundsAssumption
<1>. QED BY <1>1, <1>2 DEF OldestIsShed

LEMMA PostKeepsAccount ==
  ASSUME AccountInv, NEW s \in Starters, Post(s)
  PROVE  AccountInv'
<1> DEFINE doc == [of |-> Data, n |-> items[s] + 1]
<1>1. /\ UNCHANGED <<service, start, phase, hand, writing, container, shed, late>>
      /\ phase[s] = "running" /\ items'[s] = items[s] + 1
      /\ queue'[s] = Append(queue[s], doc) /\ admitted'[s] = admitted[s] \union {doc}
      /\ \A r \in Starters : r # s => /\ queue'[r] = queue[r] /\ admitted'[r] = admitted[r]
                                      /\ items'[r] = items[r]
  BY DEF Post, Running, calls, AccountInv, AccountTypes
<1>2. /\ queue[s] \in Seq(Entries) /\ items[s] \in Nat /\ admitted[s] \subseteq Items
      /\ hand[s] \subseteq Items
  BY RecordingTypes DEF AccountInv
<1>3. doc \in Items /\ doc \in Entries /\ doc # End /\ doc.of = Data /\ doc.n = items[s] + 1
  BY <1>2, StreamsAssumption DEF Items, Entries, End
<1> HIDE DEF doc
<1>4. /\ queue'[s] \in Seq(Entries)
      /\ ToSet(queue'[s]) = ToSet(queue[s]) \union {doc}
      /\ InOrder(queue[s]) /\ (\A g \in ToSet(queue[s]) : g.of = doc.of => g.n < doc.n)
           => InOrder(queue'[s])
  BY <1>1, <1>2, <1>3, AppendedFrame
<1>5. AccountTypes'
  BY <1>1, <1>2, <1>3, <1>4 DEF Post, Entries, AccountInv, AccountTypes
<1>6. ServiceRuns'
  BY <1>1 DEF AccountInv, ServiceRuns
<1>7. Account(s)
  BY DEF AccountInv
<1>8. /\ Queued(s)' = Queued(s) \union {doc}
      /\ InWriting(s)' = InWriting(s) /\ Kept(s)' = Kept(s)
  BY <1>1, <1>3, <1>4 DEF Queued, InWriting, Kept
<1>9. \A f \in admitted[s] : f.n \in Nat /\ f.n <= items[s] /\ f.n < doc.n
  BY <1>2, <1>3, <1>7 DEF Account, NothingOvertakes, Items
<1>10. /\ Queued(s) \subseteq admitted[s] /\ InWriting(s) \subseteq admitted[s]
       /\ Kept(s) \subseteq admitted[s] /\ doc \notin admitted[s]
       /\ shed[s] \subseteq admitted[s] /\ late[s] \subseteq admitted[s]
  BY <1>3, <1>7, <1>9 DEF Account, NothingIsLost, Along
<1>11. EndIsLast(s)'
  <2>1. End \notin ToSet(queue[s])
    BY <1>1, <1>7 DEF Account, EndIsLast, OpenPhases
  <2>2. End \notin ToSet(queue'[s])
    BY <1>3, <1>4, <2>1
  <2>. QED BY <1>1, <1>7, <2>2 DEF Account, EndIsLast, OpenPhases, ToSet
<1>12. NothingOvertakes(s)'
  <2>1. InOrder(queue'[s])
    <3>1. \A g \in ToSet(queue[s]) : g \in Queued(s)
      BY <1>1, <1>7 DEF Account, EndIsLast, OpenPhases, Queued
    <3>. QED BY <1>4, <1>7, <1>9, <1>10, <3>1 DEF Account, NothingOvertakes
  <2>2. \A f \in admitted'[s] : f.n <= items'[s]
    BY <1>1, <1>2, <1>3, <1>9
  <2>. QED BY <1>1, <1>3, <1>7, <1>8, <1>9, <1>10, <2>1, <2>2
           DEF Account, NothingOvertakes, Before
<1>13. NothingIsLost(s)'
  BY <1>1, <1>7, <1>8, <1>10 DEF Account, NothingIsLost, Along
<1>14. OldestIsShed(s)'
  BY <1>1, <1>7, AdmittedGrows, BoundsAssumption DEF Account
<1>. QED BY <1>1, <1>5, <1>6, <1>11, <1>12, <1>13, <1>14, OneRecording DEF Account

(* A full window sheds its oldest frame for at least as many newer ones as   *)
(* it may hold, the new frame included.                                     *)
LEMMA WindowSheds ==
  ASSUME NEW s \in Starters, NEW x \in Streams, NEW frame, NEW fs,
         queue[s] \in Seq(Entries), InOrder(queue[s]), Queued(s) \subseteq admitted[s],
         End \notin ToSet(queue[s]), IsFiniteSet(fs), fs = admitted[s] \union {frame},
         frame.of = x, frame \notin admitted[s],
         \A f \in admitted[s] : f.n < frame.n,
         Cardinality(Pending(s, x)) >= MaxQueued
  PROVE  LET v == Victim(s, x) IN
         /\ v \in DOMAIN queue[s] /\ queue[s][v].of = x
         /\ Cardinality(Newer(queue[s][v], fs)) >= MaxQueued
<1> DEFINE v == Victim(s, x)
           P == Pending(s, x)
           T == Newer(queue[s][v], fs)
           h == [i \in P |-> IF i = v THEN frame ELSE queue[s][i]]
<1>1. Len(queue[s]) \in Nat /\ P \subseteq 1..Len(queue[s]) /\ DOMAIN queue[s] = 1..Len(queue[s])
  BY DEF Pending
<1>2. IsFiniteSet(P) /\ Cardinality(P) \in Nat
  <2>1. PICK n \in Nat : n = Len(queue[s])
    BY <1>1
  <2>2. 1 \in Int /\ n \in Int
    OBVIOUS
  <2>3. IsFiniteSet(1..n)
    BY <2>2, FS_Interval
  <2>4. P \in SUBSET (1..n)
    BY <1>1, <2>1
  <2>5. IsFiniteSet(P)
    BY <2>3, <2>4, FS_Subset
  <2>. QED BY <2>5, FS_CardinalityType
<1>3. P # {}
  <2>1. Cardinality(P) >= 1
    BY <1>2, BoundsAssumption DEF BoundsAssumption
  <2>2. ~(Cardinality({}) >= 1)
    BY FS_EmptySet
  <2>. QED BY <2>1, <2>2, Zenon
<1>4. v \in P /\ \A i \in P : v <= i
  BY <1>3, OldestOfWindow
<1>5. \A i \in P : i \in DOMAIN queue[s] /\ queue[s][i].of = x /\ queue[s][i] \in admitted[s]
  BY DEF Pending, Queued, ToSet
<1>6. ASSUME NEW i \in P PROVE h[i] \in T
  <2>1. CASE i = v
    BY <1>4, <1>5, <2>1 DEF Newer, FramesOf
  <2>2. CASE i # v
    <3>1. v < i
      BY <1>1, <1>4, <2>2
    <3>2. queue[s][v].n < queue[s][i].n
      BY <1>4, <1>5, <3>1 DEF InOrder
    <3>. QED BY <1>4, <1>5, <2>2, <3>2 DEF Newer, FramesOf
  <2>. QED BY <2>1, <2>2
<1>7. ASSUME NEW i \in P, NEW j \in P, h[i] = h[j] PROVE i = j
  <2>1. \A k \in P : queue[s][k] # frame
    BY <1>5
  <2>. QED BY <1>5, <1>7, <2>1, OnlyOnce
<1>8. h \in Injection(P, T)
  <2>1. h \in [P -> T]
    BY <1>6
  <2>. QED BY <1>7, <2>1 DEF Injection, IsInjective
<1>9. IsFiniteSet(T)
  BY FS_Subset DEF Newer, FramesOf
<1>10. Cardinality(P) <= Cardinality(T) /\ Cardinality(T) \in Nat
  BY <1>8, <1>9, FS_Injection, FS_CardinalityType
<1>. QED BY <1>1, <1>2, <1>4, <1>5, <1>10, BoundsAssumption DEF BoundsAssumption

LEMMA AdmitKeepsAccount ==
  ASSUME AccountInv, NEW s \in Starters, NEW x \in Streams, Admit(s, x)
  PROVE  AccountInv'
<1> DEFINE frame == [of |-> x, n |-> items[s] + 1]
           v == Victim(s, x)
           full == Cardinality(Pending(s, x)) >= MaxQueued
           V == IF full THEN {queue[s][v]} ELSE {}
<1>1. /\ UNCHANGED <<service, start, phase, writing, container, late>>
      /\ phase[s] = "running" /\ items'[s] = items[s] + 1
      /\ FramesOf(x, hand[s]) = {}
      /\ hand'[s] = hand[s] \union {frame} /\ admitted'[s] = admitted[s] \union {frame}
      /\ full => queue'[s] = RemoveAt(queue[s], v)
      /\ ~full => queue'[s] = queue[s]
      /\ shed'[s] = shed[s] \union V
      /\ \A r \in Starters : r # s => /\ queue'[r] = queue[r] /\ admitted'[r] = admitted[r]
                                      /\ items'[r] = items[r] /\ hand'[r] = hand[r]
                                      /\ shed'[r] = shed[r]
  <2>. USE DEF AccountInv, AccountTypes
  <2>1. CASE full
    BY <2>1 DEF Admit, calls
  <2>2. CASE ~full
    BY <2>2 DEF Admit, calls
  <2>. QED BY <2>1, <2>2
<1>2. /\ queue[s] \in Seq(Entries) /\ items[s] \in Nat /\ admitted[s] \subseteq Items
      /\ hand[s] \subseteq Items
  BY RecordingTypes DEF AccountInv
<1>3. frame \in Items /\ frame.of = x /\ frame.n = items[s] + 1 /\ x # Data
  BY <1>2, StreamsAssumption DEF Items
<1> HIDE DEF frame
<1>4. Account(s)
  BY DEF AccountInv
<1>5. \A f \in admitted[s] : f.n \in Nat /\ f.n <= items[s] /\ f.n < frame.n
  BY <1>2, <1>3, <1>4 DEF Account, NothingOvertakes, Items
<1>6. /\ Queued(s) \subseteq admitted[s] /\ InWriting(s) \subseteq admitted[s]
      /\ Kept(s) \subseteq admitted[s] /\ frame \notin admitted[s]
      /\ shed[s] \subseteq admitted[s] /\ late[s] \subseteq admitted[s]
      /\ hand[s] \subseteq admitted[s]
  BY <1>3, <1>4, <1>5 DEF Account, NothingIsLost, Along
<1>7. End \notin ToSet(queue[s]) /\ InOrder(queue[s])
  BY <1>1, <1>4 DEF Account, EndIsLast, NothingOvertakes, OpenPhases
<1>8. /\ IsFiniteSet(admitted'[s])
      /\ \A f \in shed[s] : f.of # Data /\ Cardinality(Newer(f, admitted'[s])) >= MaxQueued
  BY <1>1, <1>4, AdmittedGrows, BoundsAssumption DEF Account
<1>9. ASSUME full
      PROVE  /\ v \in DOMAIN queue[s] /\ queue[s][v].of = x
             /\ Cardinality(Newer(queue[s][v], admitted'[s])) >= MaxQueued
  BY <1>1, <1>2, <1>3, <1>5, <1>6, <1>7, <1>8, <1>9, WindowSheds
<1>10. /\ queue'[s] \in Seq(Entries) /\ InOrder(queue'[s])
       /\ V \subseteq ToSet(queue[s]) /\ ToSet(queue'[s]) = ToSet(queue[s]) \ V
  <2>1. CASE full
    <3>1. v \in DOMAIN queue[s]
      BY <1>9, <2>1
    <3> HIDE DEF v
    <3>2. /\ RemoveAt(queue[s], v) \in Seq(Entries) /\ InOrder(RemoveAt(queue[s], v))
          /\ ToSet(RemoveAt(queue[s], v)) = {queue[s][i] : i \in DOMAIN queue[s] \ {v}}
      BY <1>2, <1>7, <3>1, RemovedFrame
    <3>3. \A i \in DOMAIN queue[s] : queue[s][i] = queue[s][v] => i = v
      BY <1>2, <1>7, <3>1, OnlyOnce
    <3>4. {queue[s][i] : i \in DOMAIN queue[s] \ {v}} = ToSet(queue[s]) \ {queue[s][v]}
      BY <3>3 DEF ToSet
    <3>5. queue[s][v] \in ToSet(queue[s])
      BY <3>1 DEF ToSet
    <3>. QED BY <1>1, <2>1, <3>2, <3>4, <3>5
  <2>2. CASE ~full
    BY <1>1, <1>2, <1>7, <2>2
  <2>. QED BY <2>1, <2>2
<1>11. \A f \in V : /\ f \in Queued(s) /\ f \in Items /\ f.of = x
                    /\ Cardinality(Newer(f, admitted'[s])) >= MaxQueued
  BY <1>2, <1>6, <1>7, <1>9, <1>10 DEF Queued
<1>12. /\ Queued(s)' = Queued(s) \ V
       /\ InWriting(s)' = InWriting(s) /\ Kept(s)' = Kept(s)
  BY <1>1, <1>10 DEF Queued, InWriting, Kept
<1> HIDE DEF V, v, full
<1>13. AccountTypes'
  <2>1. /\ DOMAIN queue' = Starters /\ queue' = [queue EXCEPT ![s] = queue'[s]]
        /\ shed' = [shed EXCEPT ![s] = shed'[s]]
        /\ hand' = [hand EXCEPT ![s] = hand'[s]]
        /\ admitted' = [admitted EXCEPT ![s] = admitted'[s]]
        /\ items' = [items EXCEPT ![s] = items'[s]]
    BY DEF Admit, AccountInv, AccountTypes
  <2>2. /\ shed'[s] \subseteq Items /\ hand'[s] \subseteq Items
        /\ admitted'[s] \subseteq Items /\ items'[s] \in Nat
    BY <1>1, <1>2, <1>3, <1>6, <1>11
  <2>3. UNCHANGED <<service, start, phase, writing, container, late>>
    BY <1>1
  <2>. QED BY <1>10, <2>1, <2>2, <2>3 DEF Entries, AccountInv, AccountTypes
<1>14. ServiceRuns'
  BY <1>1 DEF AccountInv, ServiceRuns
<1>15. EndIsLast(s)'
  <2>1. End \notin ToSet(queue'[s])
    BY <1>7, <1>10
  <2>. QED BY <1>1, <1>4, <2>1 DEF Account, EndIsLast, OpenPhases, ToSet
<1>16. NothingOvertakes(s)'
  <2>1. \A f \in admitted'[s] : f.n <= items'[s]
    BY <1>1, <1>2, <1>3, <1>5
  <2>2. \A f \in hand'[s] : f.of # Data
    BY <1>1, <1>3, <1>4 DEF Account, NothingOvertakes
  <2>3. \A f, g \in hand'[s] : f.of = g.of => f = g
    BY <1>1, <1>3, <1>4 DEF Account, NothingOvertakes, FramesOf
  <2>4. Before(Kept(s)', InWriting(s)' \union Queued(s)' \union hand'[s])
    BY <1>1, <1>4, <1>5, <1>6, <1>12 DEF Account, NothingOvertakes, Before
  <2>5. Before(InWriting(s)', Queued(s)' \union hand'[s])
    BY <1>1, <1>4, <1>5, <1>6, <1>12 DEF Account, NothingOvertakes, Before
  <2>6. Before(Queued(s)', hand'[s])
    BY <1>1, <1>4, <1>5, <1>6, <1>12 DEF Account, NothingOvertakes, Before
  <2>7. InOrder(container[s].holds)
    BY <1>4 DEF Account, NothingOvertakes
  <2>. QED BY <1>1, <1>10, <2>1, <2>2, <2>3, <2>4, <2>5, <2>6, <2>7 DEF NothingOvertakes
<1>17. NothingIsLost(s)'
  <2>1. V \intersect (hand[s] \union InWriting(s) \union Kept(s)) = {}
    <3>1. \A f \in V, g \in hand[s] \union InWriting(s) \union Kept(s) : f # g
      BY <1>4, <1>5, <1>6, <1>11 DEF Account, NothingOvertakes, Before
    <3>. QED BY <3>1
  <2>. QED BY <1>1, <1>4, <1>6, <1>11, <1>12, <2>1 DEF Account, NothingIsLost, Along
<1>18. OldestIsShed(s)'
  BY <1>1, <1>3, <1>8, <1>11 DEF OldestIsShed
<1>. QED BY <1>1, <1>13, <1>14, <1>15, <1>16, <1>17, <1>18, OneRecording DEF Account

(* A frame goes from the producer's hand behind what is queued, or is late.   *)
LEMMA EnqueueKeepsAccount ==
  ASSUME AccountInv, NEW s \in Starters, NEW f \in hand[s], Enqueue(s, f)
  PROVE  AccountInv'
<1> DEFINE live == f.of \in tapped[s]
<1>1. /\ UNCHANGED <<service, start, phase, writing, container, admitted, shed, items>>
      /\ hand'[s] = hand[s] \ {f}
      /\ live => queue'[s] = Append(queue[s], f) /\ late'[s] = late[s]
      /\ ~live => queue'[s] = queue[s] /\ late'[s] = late[s] \union {f}
      /\ \A r \in Starters : r # s => /\ queue'[r] = queue[r] /\ hand'[r] = hand[r]
                                      /\ late'[r] = late[r]
      /\ DOMAIN queue' = Starters /\ queue' = [queue EXCEPT ![s] = queue'[s]]
      /\ hand' = [hand EXCEPT ![s] = hand'[s]] /\ late' = [late EXCEPT ![s] = late'[s]]
  <2>. USE DEF AccountInv, AccountTypes
  <2>1. CASE live
    BY <2>1 DEF Enqueue, calls
  <2>2. CASE ~live
    BY <2>2 DEF Enqueue, Lost, calls
  <2>. QED BY <2>1, <2>2
<1> HIDE DEF live
<1>2. /\ queue[s] \in Seq(Entries) /\ hand[s] \subseteq Items /\ late[s] \subseteq Items
      /\ f \in Items /\ f \in Entries /\ f.n \in Nat
  BY RecordingTypes DEF AccountInv, Entries, Items
<1>3. Account(s)
  BY DEF AccountInv
<1>4. phase[s] \in OpenPhases /\ f # End
  <2>1. \A g \in Items : g # End
    BY DEF Items, End
  <2>. QED BY <1>2, <1>3, <2>1 DEF Account, EndIsLast
<1>5. End \notin ToSet(queue[s]) /\ InOrder(queue[s])
  BY <1>3, <1>4 DEF Account, EndIsLast, NothingOvertakes
<1>6. \A g \in Kept(s) \union InWriting(s) \union Queued(s) : g.of = f.of => g.n < f.n /\ g # f
  <2>1. \A g \in Kept(s) \union InWriting(s) \union Queued(s) : g.of = f.of => g.n < f.n
    BY <1>3 DEF Account, NothingOvertakes, Before
  <2>. QED BY <1>2, <2>1
<1>7. \A g \in hand'[s] : g \in hand[s] /\ g # f /\ g.of # f.of
  BY <1>1, <1>3 DEF Account, NothingOvertakes
<1>8. /\ queue'[s] \in Seq(Entries) /\ InOrder(queue'[s])
      /\ ToSet(queue'[s]) = ToSet(queue[s]) \union (IF live THEN {f} ELSE {})
  <2>1. CASE live
    <3>1. \A g \in ToSet(queue[s]) : g.of = f.of => g.n < f.n
      BY <1>5, <1>6 DEF Queued
    <3>2. /\ Append(queue[s], f) \in Seq(Entries) /\ InOrder(Append(queue[s], f))
          /\ ToSet(Append(queue[s], f)) = ToSet(queue[s]) \union {f}
      BY <1>2, <1>5, <3>1, AppendedFrame
    <3>. QED BY <1>1, <2>1, <3>2
  <2>2. CASE ~live
    BY <1>1, <1>2, <1>5, <2>2
  <2>. QED BY <2>1, <2>2
<1>9. /\ Queued(s)' = Queued(s) \union (IF live THEN {f} ELSE {})
      /\ late'[s] = late[s] \union (IF live THEN {} ELSE {f})
      /\ InWriting(s)' = InWriting(s) /\ Kept(s)' = Kept(s)
  BY <1>1, <1>4, <1>8 DEF Queued, InWriting, Kept
<1>10. AccountTypes'
  <2>1. late'[s] \subseteq Items /\ hand'[s] \subseteq Items
    BY <1>1, <1>2, <1>9
  <2>2. UNCHANGED <<service, start, phase, writing, container, admitted, shed, items>>
    BY <1>1
  <2>3. /\ queue' \in [Starters -> Seq(Entries)] /\ hand' \in [Starters -> SUBSET Items]
        /\ late' \in [Starters -> SUBSET Items]
    <3>1. /\ queue \in [Starters -> Seq(Entries)] /\ hand \in [Starters -> SUBSET Items]
          /\ late \in [Starters -> SUBSET Items]
      BY DEF Entries, AccountInv, AccountTypes
    <3>2. queue'[s] \in Seq(Entries)
      BY <1>8
    <3>. QED BY <1>1, <2>1, <3>1, <3>2
  <2>. QED BY <2>2, <2>3 DEF Entries, AccountInv, AccountTypes
<1>11. ServiceRuns'
  BY <1>1 DEF AccountInv, ServiceRuns
<1>12. EndIsLast(s)'
  <2>1. End \notin ToSet(queue'[s])
    BY <1>4, <1>5, <1>8
  <2>. QED BY <1>1, <1>3, <1>4, <2>1 DEF Account, EndIsLast, ToSet
<1>13. NothingOvertakes(s)'
  <2>1. /\ \A g \in hand'[s] : g.of # Data
        /\ \A g, h \in hand'[s] : g.of = h.of => g = h
    BY <1>3, <1>7 DEF Account, NothingOvertakes
  <2>2. Before(Kept(s)', InWriting(s)' \union Queued(s)' \union hand'[s])
    BY <1>3, <1>6, <1>7, <1>9 DEF Account, NothingOvertakes, Before
  <2>3. Before(InWriting(s)', Queued(s)' \union hand'[s])
    BY <1>3, <1>6, <1>7, <1>9 DEF Account, NothingOvertakes, Before
  <2>4. Before(Queued(s)', hand'[s])
    BY <1>3, <1>6, <1>7, <1>9 DEF Account, NothingOvertakes, Before
  <2>5. InOrder(container[s].holds) /\ \A g \in admitted[s] : g.n <= items[s]
    BY <1>3 DEF Account, NothingOvertakes
  <2>. QED BY <1>1, <1>8, <2>1, <2>2, <2>3, <2>4, <2>5 DEF NothingOvertakes
<1>14. NothingIsLost(s)'
  <2>1. f \in admitted[s] /\ f \notin shed[s] \union late[s]
    BY <1>3 DEF Account, NothingIsLost, Along
  <2>2. f \notin Queued(s) \union InWriting(s) \union Kept(s)
    BY <1>6
  <2>. QED BY <1>1, <1>3, <1>9, <2>1, <2>2 DEF Account, NothingIsLost, Along
<1>15. OldestIsShed(s)'
  BY <1>1, <1>3 DEF Account, OldestIsShed
<1>. QED BY <1>1, <1>10, <1>11, <1>12, <1>13, <1>14, <1>15, OneRecording DEF Account

(* The writer takes what is at the head of the queue.                       *)
LEMMA TakeKeepsAccount ==
  ASSUME AccountInv, NEW s \in Starters, Take(s)
  PROVE  AccountInv'
<1> DEFINE e == Head(queue[s])
<1>1. /\ UNCHANGED <<service, start, phase, hand, container, admitted, shed, late, items>>
      /\ writing[s] = None /\ container[s].state = "open" /\ queue[s] # <<>>
      /\ writing'[s] = e /\ queue'[s] = Tail(queue[s])
      /\ \A r \in Starters : r # s => queue'[r] = queue[r] /\ writing'[r] = writing[r]
      /\ DOMAIN queue' = Starters /\ queue' = [queue EXCEPT ![s] = queue'[s]]
      /\ writing' = [writing EXCEPT ![s] = writing'[s]]
  BY DEF Take, Free, calls, counters, AccountInv, AccountTypes
<1>2. queue[s] \in Seq(Entries) /\ Account(s) /\ InOrder(queue[s])
  BY RecordingTypes DEF AccountInv, Account, NothingOvertakes
<1>3. /\ e \in Entries /\ e = queue[s][1] /\ queue'[s] \in Seq(Entries)
      /\ Len(queue'[s]) = Len(queue[s]) - 1
      /\ \A i \in DOMAIN queue'[s] : i + 1 \in DOMAIN queue[s] /\ queue'[s][i] = queue[s][i + 1]
      /\ ToSet(queue[s]) = {e} \union ToSet(queue'[s])
      /\ InOrder(queue'[s]) /\ \A g \in ToSet(queue'[s]) : g.of = e.of => e.n < g.n
  BY <1>1, <1>2, TakenFrame
<1> HIDE DEF e
<1>4. /\ e # None /\ e.n \in Nat /\ Len(queue[s]) \in Nat
      /\ DOMAIN queue[s] = 1..Len(queue[s]) /\ DOMAIN queue'[s] = 1..Len(queue'[s])
      /\ Len(queue[s]) > 0 /\ e \notin ToSet(queue'[s])
  <2>1. e # None /\ e.n \in Nat
    BY <1>3, NoneAssumption DEF Entries, Items, End
  <2>. QED BY <1>1, <1>2, <1>3, <2>1
<1>5. e = End => queue'[s] = <<>> /\ ToSet(queue'[s]) = {}
  <2>1. e = End => 1 = Len(queue[s])
    <3>1. 1 \in DOMAIN queue[s] /\ e = queue[s][1]
      BY <1>3, <1>4
    <3>. QED BY <1>2, <3>1 DEF Account, EndIsLast
  <2>2. e = End => queue'[s] = <<>>
    BY <1>3, <2>1
  <2>. QED BY <2>2 DEF ToSet
<1>6. /\ Queued(s) = Queued(s)' \union InWriting(s)' /\ InWriting(s) = {}
      /\ InWriting(s)' \intersect Queued(s)' = {} /\ Kept(s)' = Kept(s)
      /\ InWriting(s)' = {e} \ {End}
  BY <1>1, <1>3, <1>4 DEF Queued, InWriting, Kept
<1>7. AccountTypes'
  <2>1. writing'[s] \in Items \union {End, None}
    BY <1>1, <1>3 DEF Entries
  <2>2. UNCHANGED <<service, start, phase, hand, container, admitted, shed, late, items>>
    BY <1>1
  <2>. QED BY <1>1, <1>3, <2>1, <2>2 DEF Entries, AccountInv, AccountTypes
<1>8. ServiceRuns'
  BY <1>1 DEF AccountInv, ServiceRuns
<1>9. EndIsLast(s)'
  <2>1. phase[s] \in OpenPhases => End \notin ToSet(queue'[s]) /\ e # End
    BY <1>2, <1>3 DEF Account, EndIsLast
  <2>2. ASSUME NEW i \in DOMAIN queue'[s], queue'[s][i] = End PROVE i = Len(queue'[s])
    <3>1. i + 1 \in DOMAIN queue[s] /\ queue[s][i + 1] = End
      BY <1>3, <2>2
    <3>2. i + 1 = Len(queue[s])
      BY <1>2, <3>1 DEF Account, EndIsLast
    <3>. QED BY <1>3, <1>4, <3>2
  <2>. QED BY <1>1, <1>2, <1>5, <2>1, <2>2 DEF Account, EndIsLast
<1>10. NothingOvertakes(s)'
  <2>1. Before(Kept(s)', InWriting(s)' \union Queued(s)' \union hand'[s])
    BY <1>1, <1>2, <1>6 DEF Account, NothingOvertakes, Before
  <2>2. Before(InWriting(s)', Queued(s)' \union hand'[s])
    <3>1. \A g \in Queued(s)' : g.of = e.of => e.n < g.n
      BY <1>3 DEF Queued
    <3>. QED BY <1>1, <1>2, <1>6, <3>1 DEF Account, NothingOvertakes, Before
  <2>3. Before(Queued(s)', hand'[s])
    BY <1>1, <1>2, <1>6 DEF Account, NothingOvertakes, Before
  <2>. QED BY <1>1, <1>2, <1>3, <2>1, <2>2, <2>3 DEF Account, NothingOvertakes
<1>11. NothingIsLost(s)'
  BY <1>1, <1>2, <1>6 DEF Account, NothingIsLost, Along
<1>12. OldestIsShed(s)'
  BY <1>1, <1>2 DEF Account, OldestIsShed
<1>. QED BY <1>1, <1>7, <1>8, <1>9, <1>10, <1>11, <1>12, OneRecording DEF Account

(* What is written is in the file; the end mark completes it, and then nothing *)
(* is on its way any more.                                                  *)
LEMMA WroteKeepsAccount ==
  ASSUME AccountInv, NEW s \in Starters, Wrote(s)
  PROVE  AccountInv'
<1>1. /\ UNCHANGED <<service, start, phase, hand, queue, admitted, shed, late, items>>
      /\ writing[s] # None /\ container[s].state = "open" /\ writing'[s] = None
      /\ writing[s] = End => /\ container'[s].state = "complete"
                             /\ container'[s].holds = container[s].holds
      /\ writing[s] # End => /\ container'[s].state = "open"
                             /\ container'[s].holds = Append(container[s].holds, writing[s])
      /\ \A r \in Starters : r # s => container'[r] = container[r] /\ writing'[r] = writing[r]
      /\ DOMAIN container' = Starters
      /\ container' = [container EXCEPT ![s] = container'[s]]
      /\ writing' = [writing EXCEPT ![s] = writing'[s]]
      /\ container'[s] = [state |-> container'[s].state, holds |-> container'[s].holds]
  <2>. USE DEF AccountInv, AccountTypes
  <2>1. CASE writing[s] = End
    BY <2>1 DEF Wrote, Writing, Ended, Close, calls, counters
  <2>2. CASE writing[s] # End
    BY <2>2 DEF Wrote, Writing, Ended, Close, calls, counters
  <2>. QED BY <2>1, <2>2
<1>2. /\ container[s].holds \in Seq(Items) /\ writing[s] \in Items \union {End}
      /\ Account(s)
  BY <1>1, RecordingTypes DEF AccountInv
<1>3. ASSUME writing[s] # End
      PROVE  /\ writing[s] \in Items
             /\ container'[s].holds \in Seq(Items) /\ InOrder(container'[s].holds)
             /\ ToSet(container'[s].holds) = ToSet(container[s].holds) \union {writing[s]}
  <2>1. \A g \in ToSet(container[s].holds) : g.of = writing[s].of => g.n < writing[s].n
    BY <1>1, <1>2, <1>3 DEF Account, NothingOvertakes, Before, InWriting, Kept
  <2>2. InOrder(container[s].holds)
    BY <1>2 DEF Account, NothingOvertakes
  <2>3. writing[s] \in Items
    BY <1>2, <1>3
  <2>4. /\ Append(container[s].holds, writing[s]) \in Seq(Items)
        /\ InOrder(Append(container[s].holds, writing[s]))
        /\ ToSet(Append(container[s].holds, writing[s]))
             = ToSet(container[s].holds) \union {writing[s]}
    BY <1>2, <2>1, <2>2, <2>3, AppendedFrame
  <2>. QED BY <1>1, <1>3, <2>3, <2>4
<1>4. /\ Kept(s)' = Kept(s) \union InWriting(s) /\ InWriting(s)' = {}
      /\ Queued(s)' = Queued(s)
      /\ container'[s].holds \in Seq(Items) /\ InOrder(container'[s].holds)
  <2>1. CASE writing[s] = End
    BY <1>1, <1>2, <2>1 DEF Account, NothingOvertakes, Kept, InWriting, Queued
  <2>2. CASE writing[s] # End
    BY <1>1, <1>2, <1>3, <2>2 DEF Kept, InWriting, Queued
  <2>. QED BY <2>1, <2>2
<1>5. AccountTypes'
  <2>1. container'[s] \in [state : {"none", "open", "complete", "truncated"},
                           holds : Seq(Items)]
    BY <1>1, <1>4
  <2>2. UNCHANGED <<service, start, phase, hand, queue, admitted, shed, late, items>>
    BY <1>1
  <2>3. /\ container' \in [Starters -> [state : {"none", "open", "complete", "truncated"},
                                       holds : Seq(Items)]]
        /\ writing' \in [Starters -> Items \union {End, None}]
    <3>1. /\ container \in [Starters -> [state : {"none", "open", "complete", "truncated"},
                                        holds : Seq(Items)]]
          /\ writing \in [Starters -> Items \union {End, None}]
      BY DEF AccountInv, AccountTypes
    <3>2. PICK file : file = container'[s]
      OBVIOUS
    <3>3. container' = [container EXCEPT ![s] = file] /\ writing' = [writing EXCEPT ![s] = None]
      BY ONLY <1>1, <3>2
    <3>4. file \in [state : {"none", "open", "complete", "truncated"}, holds : Seq(Items)]
      BY ONLY <2>1, <3>2
    <3>5. container' \in [Starters -> [state : {"none", "open", "complete", "truncated"},
                                       holds : Seq(Items)]]
      BY ONLY <3>1, <3>3, <3>4
    <3>. QED BY ONLY <3>1, <3>3, <3>5
  <2>. QED BY <2>2, <2>3 DEF AccountInv, AccountTypes
<1>6. ServiceRuns'
  BY <1>1 DEF AccountInv, ServiceRuns
<1>7. EndIsLast(s)'
  BY <1>1, <1>2, NoneAssumption DEF Account, EndIsLast
<1>8. NothingOvertakes(s)'
  <2>1. Before(Kept(s)', InWriting(s)' \union Queued(s)' \union hand'[s])
    BY <1>1, <1>2, <1>4 DEF Account, NothingOvertakes, Before
  <2>2. Before(InWriting(s)', Queued(s)' \union hand'[s])
    BY <1>4 DEF Before
  <2>. QED BY <1>1, <1>2, <1>4, <2>1, <2>2 DEF Account, NothingOvertakes
<1>9. NothingIsLost(s)'
  BY <1>1, <1>2, <1>4 DEF Account, NothingIsLost, Along
<1>10. OldestIsShed(s)'
  BY <1>1, <1>2 DEF Account, OldestIsShed
<1>. QED BY <1>1, <1>5, <1>6, <1>7, <1>8, <1>9, <1>10, OneRecording DEF Account

-----------------------------------------------------------------------------
LEMMA AccountPreserved == ASSUME AccountInv, [Next]_vars PROVE AccountInv'
<1>1. ASSUME NEW s \in Starters, Start(s) \/ Build(s) \/ Throw(s) PROVE AccountInv'
  BY <1>1, StartKeepsAccount, BuildKeepsAccount, ThrowKeepsAccount
<1>2. ASSUME NEW s \in Starters, Detached(s) \/ Deadline(s) \/ GraceOver(s)
      PROVE AccountInv'
  BY <1>2, DetachedKeepsAccount, LatePhasesKeepAccount
<1>3. CASE \E s \in Starters, x \in Streams :
             RemoveStream(s, x) \/ Removed(s, x) \/ AddStream(s, x)
  BY <1>3, AccountStutters DEF RemoveStream, Removed, AddStream, calls, recorder, counters
<1>4. CASE \E s \in Starters : Stick(s) \/ Unstick(s)
  BY <1>4, AccountStutters DEF Stick, Unstick, calls, counters
<1>5. CASE Activate \/ UNCHANGED vars
  BY <1>5, AccountStutters DEF Activate, vars, calls, recorder, counters
<1>6. ASSUME NEW t \in Stoppers, Stop(t) PROVE AccountInv'
  BY <1>6, StoppingKeepsAccount DEF Stop, Callers
<1>7. CASE Drain
  <2>1. CASE Stopping(Drainer)
    BY <1>7, <2>1, StoppingKeepsAccount DEF Drain, Callers
  <2>2. CASE ~Stopping(Drainer)
    BY <1>7, <2>2, AccountStutters DEF Drain, recorder, counters
  <2>. QED BY <2>1, <2>2
<1>8. ASSUME NEW t \in Callers, Stopped(t) PROVE AccountInv'
  BY <1>8, StoppedKeepsAccount
<1>9. ASSUME NEW s \in Starters, Post(s) \/ \E x \in Streams : Admit(s, x)
      PROVE AccountInv'
  BY <1>9, PostKeepsAccount, AdmitKeepsAccount
<1>10. ASSUME NEW s \in Starters, \E f \in hand[s] : Enqueue(s, f) PROVE AccountInv'
  BY <1>10, EnqueueKeepsAccount
<1>11. ASSUME NEW s \in Starters, Take(s) \/ GiveUp(s) \/ Wrote(s) \/ WriteFails(s)
       PROVE AccountInv'
  BY <1>11, TakeKeepsAccount, GiveUpKeepsAccount, WroteKeepsAccount
<1>. QED BY <1>1, <1>2, <1>3, <1>4, <1>5, <1>6, <1>7, <1>8, <1>9, <1>10, <1>11 DEF Next

(* Where every frame is and in which order, for all recordings: with it, how  *)
(* far the writer, the producers and a stop() are does not matter.           *)
THEOREM Accounting == Spec => []AccountInv
<1>1. AccountInv /\ [Next]_vars => AccountInv'
  BY AccountPreserved
<1>. QED BY AccountStarts, <1>1, PTL DEF Spec

(* What is admitted is in one of six places, and in one only.                *)
LEMMA SixPlaces ==
  ASSUME AccountInv, NEW s \in Starters
  PROVE  LET parts == <<shed[s], late[s], hand[s], Queued(s), {writing[s]} \ {None, End},
                        Kept(s)>>
         IN /\ admitted[s] = UNION Range(parts)
            /\ \A i, j \in DOMAIN parts : i # j => parts[i] \intersect parts[j] = {}
<1> DEFINE parts == <<shed[s], late[s], hand[s], Queued(s), InWriting(s), Kept(s)>>
           apart(F, G) == F \intersect G = {}
<1>1. Account(s)
  BY DEF AccountInv
<1>2. DOMAIN parts = 1..6
  OBVIOUS
<1>3. UNION Range(parts) = shed[s] \union late[s] \union Along(s)
  <2>1. Range(parts) = {shed[s], late[s], hand[s], Queued(s), InWriting(s), Kept(s)}
    BY <1>2 DEF Range
  <2>. QED BY <2>1 DEF Along
<1>4. /\ apart(shed[s], late[s]) /\ apart(shed[s], hand[s]) /\ apart(shed[s], Queued(s))
      /\ apart(shed[s], InWriting(s)) /\ apart(shed[s], Kept(s))
      /\ apart(late[s], hand[s]) /\ apart(late[s], Queued(s))
      /\ apart(late[s], InWriting(s)) /\ apart(late[s], Kept(s))
  BY <1>1 DEF Account, NothingIsLost, Along
<1>5. /\ apart(hand[s], Queued(s)) /\ apart(hand[s], InWriting(s)) /\ apart(hand[s], Kept(s))
      /\ apart(Queued(s), InWriting(s)) /\ apart(Queued(s), Kept(s))
      /\ apart(InWriting(s), Kept(s))
  <2>1. ASSUME NEW F \in SUBSET Items, NEW G \in SUBSET Items, Before(F, G)
        PROVE  apart(F, G)
    <3>1. \A f \in Items : f.n \in Nat
      BY DEF Items
    <3>2. \A f \in F, g \in G : f # g
      BY <2>1, <3>1 DEF Before
    <3>. QED BY <3>2
  <2>2. /\ hand[s] \subseteq Items /\ Queued(s) \subseteq Items
        /\ InWriting(s) \subseteq Items /\ Kept(s) \subseteq Items
    BY RecordingTypes DEF AccountInv
  <2>3. /\ Before(Kept(s), InWriting(s)) /\ Before(Kept(s), Queued(s))
        /\ Before(Kept(s), hand[s])
        /\ Before(InWriting(s), Queued(s)) /\ Before(InWriting(s), hand[s])
        /\ Before(Queued(s), hand[s])
    BY <1>1 DEF Account, NothingOvertakes, Before
  <2>4. /\ apart(Kept(s), InWriting(s)) /\ apart(Kept(s), Queued(s)) /\ apart(Kept(s), hand[s])
        /\ apart(InWriting(s), Queued(s)) /\ apart(InWriting(s), hand[s])
        /\ apart(Queued(s), hand[s])
    <3> HIDE DEF apart
    <3>. QED BY <2>1, <2>2, <2>3
  <2>. QED BY <2>4
<1>6. \A i, j \in DOMAIN parts : i # j => parts[i] \intersect parts[j] = {}
  <2>1. ASSUME NEW i \in 1..6, NEW j \in 1..6, i < j
        PROVE  parts[i] \intersect parts[j] = {}
    <3>1. CASE i = 1
      BY <1>4, <2>1, <3>1
    <3>2. CASE i = 2
      BY <1>4, <2>1, <3>2
    <3>3. CASE i >= 3
      BY <1>5, <2>1, <3>3
    <3>. QED BY <3>1, <3>2, <3>3
  <2>2. ASSUME NEW i \in 1..6, NEW j \in 1..6, i # j
        PROVE  parts[i] \intersect parts[j] = {}
    <3>1. CASE i < j
      BY <2>1, <3>1
    <3>2. CASE j < i
      <4>1. parts[j] \intersect parts[i] = {}
        BY <2>1, <3>2
      <4>. QED BY <4>1
    <3>. QED BY <2>2, <3>1, <3>2
  <2>. QED BY <1>2, <2>2
<1>7. admitted[s] = UNION Range(parts)
  BY <1>1, <1>3 DEF Account, NothingIsLost
<1>. QED BY <1>6, <1>7 DEF InWriting

(* Every frame and document ever admitted is in one place, and in a complete  *)
(* file written and dropped make up what was ingested.                       *)
THEOREM EveryFrameIsAccounted == Spec => []FramesAreAccounted
<1>1. ASSUME AccountInv PROVE FramesAreAccounted
  <2>1. ASSUME NEW s \in Starters
        PROVE  /\ Cardinality(Kept(s)) = Len(container[s].holds)
               /\ container[s].state = "complete" =>
                    admitted[s] = shed[s] \union late[s] \union Kept(s)
    <3>1. Account(s) /\ container[s].holds \in Seq(Items) /\ InOrder(container[s].holds)
      BY <1>1, RecordingTypes DEF AccountInv, Account, NothingOvertakes
    <3>2. Cardinality(Kept(s)) = Len(container[s].holds)
      BY <3>1, AsManyFrames DEF Kept
    <3>3. ASSUME container[s].state = "complete"
          PROVE  admitted[s] = shed[s] \union late[s] \union Kept(s)
      <4>1. queue[s] = <<>> /\ writing[s] = None /\ hand[s] = {}
        BY <3>1, <3>3 DEF Account, EndIsLast
      <4>2. Queued(s) = {} /\ InWriting(s) = {}
        BY <4>1 DEF Queued, InWriting, ToSet
      <4>. QED BY <3>1, <4>1, <4>2 DEF Account, NothingIsLost, Along
    <3>. QED BY <3>2, <3>3
  <2>. QED BY <1>1, <2>1, SixPlaces DEF FramesAreAccounted
<1>. QED BY Accounting, <1>1, PTL

(* A stream is written in the order of its frames, a frame is shed only for a *)
(* window full of newer ones, and a document never.                          *)
THEOREM NewestWins == Spec => []NewestDataWins
<1>1. ASSUME AccountInv PROVE NewestDataWins
  BY <1>1 DEF AccountInv, Account, NothingOvertakes, InOrder, OldestIsShed, Newer,
              NewestDataWins
<1>. QED BY Accounting, <1>1, PTL
=============================================================================
