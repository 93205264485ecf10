---------------------------- MODULE ResourceSession ----------------------------
(***************************************************************************)
(* The life of one camera-owning session in the orchestrator: the          *)
(* subscription bookkeeping of ServerSession (runtime.ts) on top of the    *)
(* activation / drain machinery of defineResourceSession                   *)
(* (resource-session.ts).                                                  *)
(*                                                                         *)
(* The activation counter `generation` is bumped by every activation and   *)
(* by every idle, so a generation names the asynchronous task it started:  *)
(* an activation (`await prev; def.activate(scope)`) or an idle            *)
(* (`scope.drain(); def.idle()`).  Each `await` of such a task is a point  *)
(* where any other task or any window message may run, hence one action    *)
(* per stretch of code between two awaits.                                 *)
(*                                                                         *)
(* def.activate is the shape every module's activateSession has: declare a *)
(* progress monitor, take resources 1 .. NumResources in order through     *)
(* `scope.use`, bail out when one comes back null, complete the monitor.   *)
(***************************************************************************)
EXTENDS Integers, Sequences, SequencesExt

CONSTANTS
  Windows,        \* renderer channels that may observe the session
  NumResources,   \* resources one activation takes
  MaxGeneration   \* bound on `generation`: activations plus idles explored

ASSUME NumResourcesAssumption == NumResources \in Nat \ {0}
ASSUME MaxGenerationAssumption == MaxGeneration \in Nat \ {0}

VARIABLES
  subscribers,       \* channels that observe the session, passively or not
  activeSubscribers, \* channels whose interest keeps the session active
  generation,        \* activations and idles started so far
  pc,                \* where the task of each generation stands
  prev,              \* the idle an activation awaits before it starts (0: none)
  scope,             \* the activation whose Scope is current (0: null)
  lastDrain,         \* the idle whose promise is `lastDrain` (0: resolved)
  draining,          \* Scope.draining of each activation
  cleanups,          \* Scope.cleanups of each activation, oldest first
  target,            \* the activation whose cleanups a drain runs (0: none)
  batch,             \* cleanups a drain has still to run, next one first
  next,              \* the resource an activation is acquiring
  held,              \* resources each activation has and has not given back
  error,             \* the activation whose failure the windows see (0: none)
  activeMonitor,     \* the activation whose progress monitor may publish
  progress,          \* the activation whose progress list the windows see
  switch,            \* main's request to hand the cameras over
  awaited            \* the idle that request awaits (0: resolved)

subscriptionVars == <<subscribers, activeSubscribers>>
scopeVars == <<scope, draining, cleanups, next, held>>
drainVars == <<lastDrain, target, batch>>
statusVars == <<error, activeMonitor, progress>>
switchVars == <<switch, awaited>>
vars == <<subscriptionVars, generation, pc, prev, scopeVars, drainVars,
          statusVars, switchVars>>

Resources == 1 .. NumResources
Generations == 1 .. MaxGeneration

-----------------------------------------------------------------------------
(* Initial state: nothing observed, nothing running. *)

Init ==
  /\ subscribers = {}
  /\ activeSubscribers = {}
  /\ generation = 0
  /\ pc = [g \in Generations |-> "none"]
  /\ prev = [g \in Generations |-> 0]
  /\ scope = 0
  /\ lastDrain = 0
  /\ draining = [g \in Generations |-> FALSE]
  /\ cleanups = [g \in Generations |-> <<>>]
  /\ target = [g \in Generations |-> 0]
  /\ batch = [g \in Generations |-> <<>>]
  /\ next = [g \in Generations |-> 1]
  /\ held = [g \in Generations |-> {}]
  /\ error = 0
  /\ activeMonitor = 0
  /\ progress = 0
  /\ switch = "none"
  /\ awaited = 0

(* The definitions named "Mistake" are plausible bugs in the code of the
   definition that follows them; no action uses them. *)

(* Scope.cancelled: the scope drains, or a later activation or idle came. *)
MistakeNeverCancelled(g) == FALSE
Cancelled(g) == draining[g] \/ g # generation

(* The idle d has settled; no idle at all counts as settled. *)
MistakeSettledOnlyByDrain(d) == d # 0 /\ pc[d] = "done"
Settled(d) == d # 0 => pc[d] = "done"

(* The cleanups an idle or a self-drain takes over: LIFO, and nothing the
   second time, since Scope.drain returns at once when already draining. *)
MistakeTakenOldestFirst(g) == IF draining[g] THEN <<>> ELSE cleanups[g]
MistakeTakenNothing(g) == <<>>
Taken(g) == IF draining[g] THEN <<>> ELSE Reverse(cleanups[g])

(* def.activate has more to acquire. *)
MistakeOneResourceTooMany(g) == next[g] \in 1 .. NumResources + 1
StillToAcquire(g) == next[g] \in Resources

(* runIdle() clears the overlay and makes the outstanding monitor inert. *)
MistakeKeepMonitor == UNCHANGED <<activeMonitor, progress>>
OrphanMonitor == activeMonitor' = 0 /\ progress' = 0

-----------------------------------------------------------------------------
(* Subscriptions: runtime.ts on top of activate() and idle(). *)

(* activate(): take the next generation and wait for the last drain. *)
Activate ==
  /\ generation < MaxGeneration
  /\ generation' = generation + 1
  /\ pc' = [pc EXCEPT ![generation + 1] = "waiting"]
  /\ prev' = [prev EXCEPT ![generation + 1] = lastDrain]

(* runIdle() and the session's idle(): orphan the progress monitor, detach
   the scope, supersede whatever is in flight and start the drain. *)
RunIdle ==
  /\ generation < MaxGeneration
  /\ generation' = generation + 1
  /\ OrphanMonitor
  /\ scope' = 0
  /\ lastDrain' = generation + 1
  /\ target' = [target EXCEPT ![generation + 1] = scope]
  /\ IF scope = 0
       THEN /\ pc' = [pc EXCEPT ![generation + 1] = "hook"]
            /\ UNCHANGED <<draining, cleanups, batch>>
       ELSE /\ pc' = [pc EXCEPT ![generation + 1] = "draining"]
            /\ batch' = [batch EXCEPT ![generation + 1] = Taken(scope)]
            /\ cleanups' = [cleanups EXCEPT ![scope] = <<>>]
            /\ draining' = [draining EXCEPT ![scope] = TRUE]
  /\ UNCHANGED <<prev, next, held, error>>

NoTask == UNCHANGED <<generation, pc, prev, scopeVars, drainVars, statusVars>>

(* A passive subscription, or one more from a window already active. *)
SubscribePassive(w) ==
  /\ subscribers' = subscribers \union {w}
  /\ UNCHANGED activeSubscribers
  /\ NoTask
  /\ UNCHANGED switchVars

(* The first active subscriber activates the session and clears its error. *)
SubscribeFirst(w) ==
  /\ activeSubscribers = {}
  /\ subscribers' = subscribers \union {w}
  /\ activeSubscribers' = {w}
  /\ Activate
  /\ error' = 0
  /\ UNCHANGED <<scopeVars, drainVars, activeMonitor, progress, switchVars>>

(* A further active subscriber joins the running activation. *)
SubscribeJoin(w) ==
  /\ activeSubscribers # {}
  /\ w \notin activeSubscribers
  /\ subscribers' = subscribers \union {w}
  /\ activeSubscribers' = activeSubscribers \union {w}
  /\ NoTask
  /\ UNCHANGED switchVars

(* The active interest that w gives up was the last one. *)
MistakeAnyActiveIsLast(w) == w \in activeSubscribers
LastActive(w) == activeSubscribers = {w}

(* A passive unsubscribe leaves an active window alone; any other one drops
   the window, and drains the session when its last active window went. *)
Unsubscribe(w, passive) ==
  /\ w \in subscribers
  /\ ~(passive /\ w \in activeSubscribers)
  /\ subscribers' = subscribers \ {w}
  /\ activeSubscribers' = activeSubscribers \ {w}
  /\ IF LastActive(w) THEN RunIdle ELSE NoTask
  /\ UNCHANGED switchVars

(* drainForWindowSwitch(): dispose() the session and await its last idle.
   A window that still believes itself subscribed has to subscribe again. *)
DrainForWindowSwitch ==
  /\ switch # "waiting"
  /\ subscribers' = {}
  /\ activeSubscribers' = {}
  /\ IF activeSubscribers # {} THEN RunIdle ELSE NoTask
  /\ switch' = "waiting"
  /\ awaited' = lastDrain'

(* drained() resolves and main is told that the cameras are free. *)
WindowSwitchGranted ==
  /\ switch = "waiting"
  /\ Settled(awaited)
  /\ switch' = "granted"
  /\ UNCHANGED <<subscriptionVars, generation, pc, prev, scopeVars, drainVars,
                 statusVars, awaited>>

-----------------------------------------------------------------------------
(* The activation task. *)

(* `await prev` resolved, but the activation was superseded meanwhile. *)
StartSuperseded(g) ==
  /\ pc[g] = "waiting"
  /\ Settled(prev[g])
  /\ g # generation
  /\ pc' = [pc EXCEPT ![g] = "ended"]
  /\ UNCHANGED <<subscriptionVars, generation, prev, scopeVars, drainVars,
                 statusVars, switchVars>>

(* `await prev` resolved: open the scope and enter def.activate, which
   declares its progress monitor and asks for the first resource. *)
StartScope(g) ==
  /\ pc[g] = "waiting"
  /\ Settled(prev[g])
  /\ g = generation
  /\ pc' = [pc EXCEPT ![g] = "acquiring"]
  /\ scope' = g
  /\ activeMonitor' = g
  /\ progress' = g
  /\ UNCHANGED <<subscriptionVars, generation, prev, draining, cleanups, next,
                 held, drainVars, error, switchVars>>

(* scope.use: the acquisition resolved and the scope is still wanted, so the
   release is registered as a cleanup. *)
Acquired(g) ==
  /\ pc[g] = "acquiring"
  /\ StillToAcquire(g)
  /\ ~Cancelled(g)
  /\ held' = [held EXCEPT ![g] = @ \union {next[g]}]
  /\ cleanups' = [cleanups EXCEPT ![g] = Append(@, next[g])]
  /\ next' = [next EXCEPT ![g] = @ + 1]
  /\ UNCHANGED <<subscriptionVars, generation, pc, prev, scope, draining,
                 drainVars, statusVars, switchVars>>

(* scope.use: the acquisition resolved after the scope was cancelled, so the
   resource goes straight back. *)
AcquiredLate(g) ==
  /\ pc[g] = "acquiring"
  /\ StillToAcquire(g)
  /\ Cancelled(g)
  /\ held' = [held EXCEPT ![g] = @ \union {next[g]}]
  /\ pc' = [pc EXCEPT ![g] = "returning"]
  /\ UNCHANGED <<subscriptionVars, generation, prev, scope, draining, cleanups,
                 next, drainVars, statusVars, switchVars>>

(* scope.use returned null: def.activate bails out. *)
LateReleased(g) ==
  /\ pc[g] = "returning"
  /\ held' = [held EXCEPT ![g] = @ \ {next[g]}]
  /\ pc' = [pc EXCEPT ![g] = "trailing"]
  /\ UNCHANGED <<subscriptionVars, generation, prev, scope, draining, cleanups,
                 next, drainVars, statusVars, switchVars>>

(* The acquisition threw: s.fail publishes the error. *)
AcquireFailed(g) ==
  /\ pc[g] = "acquiring"
  /\ StillToAcquire(g)
  /\ error' = g
  /\ pc' = [pc EXCEPT ![g] = "trailing"]
  /\ UNCHANGED <<subscriptionVars, generation, prev, scopeVars, drainVars,
                 activeMonitor, progress, switchVars>>

(* def.activate has everything: monitor.complete() clears the overlay,
   unless the monitor was orphaned. *)
ActivateComplete(g) ==
  /\ pc[g] = "acquiring"
  /\ ~StillToAcquire(g)
  /\ pc' = [pc EXCEPT ![g] = "trailing"]
  /\ progress' = IF activeMonitor = g THEN 0 ELSE progress
  /\ UNCHANGED <<subscriptionVars, generation, prev, scopeVars, drainVars,
                 error, activeMonitor, switchVars>>

(* `if (sc.cancelled) await sc.drain()` after def.activate. *)
Trailing(g) ==
  /\ pc[g] = "trailing"
  /\ IF Cancelled(g)
       THEN /\ pc' = [pc EXCEPT ![g] = "selfdrain"]
            /\ target' = [target EXCEPT ![g] = g]
            /\ batch' = [batch EXCEPT ![g] = Taken(g)]
            /\ cleanups' = [cleanups EXCEPT ![g] = <<>>]
            /\ draining' = [draining EXCEPT ![g] = TRUE]
       ELSE /\ pc' = [pc EXCEPT ![g] = "ended"]
            /\ UNCHANGED <<target, batch, cleanups, draining>>
  /\ UNCHANGED <<subscriptionVars, generation, prev, scope, lastDrain, next,
                 held, statusVars, switchVars>>

-----------------------------------------------------------------------------
(* The drain: of an idle, or the trailing one of an activation. *)

Drainers(d) == pc[d] \in {"draining", "selfdrain"}

(* One cleanup settles; whether it threw does not matter to the drain. *)
RunCleanup(d) ==
  /\ Drainers(d)
  /\ batch[d] # <<>>
  /\ held' = [held EXCEPT ![target[d]] = @ \ {Head(batch[d])}]
  /\ batch' = [batch EXCEPT ![d] = Tail(@)]
  /\ UNCHANGED <<subscriptionVars, generation, pc, prev, scope, draining,
                 cleanups, next, lastDrain, target, statusVars, switchVars>>

(* Every cleanup ran: an idle goes on to the session's idle hook. *)
DrainFinished(d) ==
  /\ Drainers(d)
  /\ batch[d] = <<>>
  /\ pc' = [pc EXCEPT ![d] = IF @ = "draining" THEN "hook" ELSE "ended"]
  /\ UNCHANGED <<subscriptionVars, generation, prev, scopeVars, drainVars,
                 statusVars, switchVars>>

(* The idle hook settles, and with it the promise of this idle. *)
IdleSettled(d) ==
  /\ pc[d] = "hook"
  /\ pc' = [pc EXCEPT ![d] = "done"]
  /\ UNCHANGED <<subscriptionVars, generation, prev, scopeVars, drainVars,
                 statusVars, switchVars>>

-----------------------------------------------------------------------------
WindowStep ==
  \/ \E w \in Windows :
       \/ SubscribePassive(w)
       \/ SubscribeFirst(w)
       \/ SubscribeJoin(w)
       \/ \E passive \in BOOLEAN : Unsubscribe(w, passive)
  \/ DrainForWindowSwitch

(* What a generation's task does at its next await, given that every promise
   of the cameras and of the cleanups settles. *)
TaskStep(g) ==
  \/ StartSuperseded(g)
  \/ StartScope(g)
  \/ Acquired(g)
  \/ AcquiredLate(g)
  \/ LateReleased(g)
  \/ AcquireFailed(g)
  \/ ActivateComplete(g)
  \/ Trailing(g)
  \/ RunCleanup(g)
  \/ DrainFinished(g)
  \/ IdleSettled(g)

Next ==
  \/ WindowStep
  \/ WindowSwitchGranted
  \/ \E g \in Generations : TaskStep(g)

Spec == Init /\ [][Next]_vars

Fairness ==
  /\ WF_vars(WindowSwitchGranted)
  /\ \A g \in Generations : WF_vars(TaskStep(g))

FairSpec == Spec /\ Fairness

-----------------------------------------------------------------------------
(* Properties. *)

ActivationPCs == {"waiting", "acquiring", "returning", "trailing", "selfdrain",
                  "ended"}
IdlePCs == {"draining", "hook", "done"}
PCs == {"none"} \union ActivationPCs \union IdlePCs

TaskTypeOK ==
  /\ generation \in 0 .. MaxGeneration
  /\ pc \in [Generations -> PCs]
  /\ prev \in [Generations -> 0 .. MaxGeneration]
  /\ scope \in 0 .. MaxGeneration
  /\ lastDrain \in 0 .. MaxGeneration
  /\ draining \in [Generations -> BOOLEAN]
  /\ cleanups \in [Generations -> Seq(Resources)]
  /\ target \in [Generations -> 0 .. MaxGeneration]
  /\ batch \in [Generations -> Seq(Resources)]
  /\ next \in [Generations -> 1 .. NumResources + 1]
  /\ held \in [Generations -> SUBSET Resources]
  /\ error \in 0 .. MaxGeneration
  /\ activeMonitor \in 0 .. MaxGeneration
  /\ progress \in 0 .. MaxGeneration

TypeOK ==
  /\ subscribers \subseteq Windows
  /\ activeSubscribers \subseteq Windows
  /\ TaskTypeOK
  /\ switch \in {"none", "waiting", "granted"}
  /\ awaited \in 0 .. MaxGeneration

(* The session is active exactly while its newest task is an activation:
   however subscriptions, passive ones and forced drains interleave, the
   count of active windows never drifts from what the session believes. *)
ActiveIffActivated ==
  /\ activeSubscribers \subseteq subscribers
  /\ activeSubscribers # {} <=> generation > 0 /\ pc[generation] \in ActivationPCs

(* Only the current activation has cleanups waiting to be run: what a
   superseded one registered is already in the hands of a drain.  This is why
   the trailing self-drain of activate() has nothing left to do. *)
OnlyCurrentScopeRegisters ==
  \A g \in Generations : cleanups[g] # <<>> => g = generation /\ scope = g

(* A resource is held by an activation exactly when something is going to
   give it back: the scope's cleanup list, a drain in progress, or the late
   release of scope.use. *)
LateRelease(g) == IF pc[g] = "returning" THEN {next[g]} ELSE {}
EveryLeaseHasAnOwner ==
  \A g \in Generations :
    held[g] = Range(cleanups[g])
                \union (UNION {Range(batch[d]) : d \in {e \in Generations : target[e] = g}})
                \union LateRelease(g)

(* The progress overlay is the one of the newest activation, never that of
   one that was superseded, however late the old monitor publishes. *)
ProgressIsCurrent ==
  /\ progress # 0 => progress = generation
  /\ activeMonitor # 0 => activeMonitor = generation

(* Leases go back in the reverse of the order they were taken, except for the
   one that scope.use never registered. *)
ReleasedLastInFirstOut ==
  [][\A g \in Generations : \A r \in held[g] \ held'[g] :
       \A q \in held[g] : q > r => q \in LateRelease(g)]_vars

(* A superseded activation ends up holding nothing, for good. *)
SupersededReleases ==
  \A g \in Generations : (g < generation) ~> [](held[g] = {})

(* An activation that stays wanted gets all of its resources or reports its
   failure. *)
ActivationConverges ==
  \A g \in Generations :
    (generation = g /\ pc[g] = "waiting")
      ~> (generation # g \/ held[g] = Resources \/ error = g)

(* resource-session.ts: `the next activate serializes behind it so two
   activations never overlap on the shared leases`.  An activation runs only
   when no earlier idle is still draining. *)
SerializedBehindDrains ==
  \A g, d \in Generations :
    pc[g] = "acquiring" /\ pc[d] = "draining" /\ batch[d] # <<>> => g < d

(* docs/architecture/sessions.md: drained() awaits every in-flight release.
   When main is told so, every cleanup handed to a drain has run. *)
DrainedAwaitsEveryRelease ==
  [][switch' = "granted" /\ switch = "waiting" =>
       \A d \in 1 .. awaited : batch[d] = <<>>]_vars

(* runtime.ts: `Fresh activation attempt clears any stale failure`.  While an
   activation is current, the error on display is its own. *)
ErrorIsOfCurrentActivation ==
  activeSubscribers # {} /\ error # 0 => error = generation

================================================================================
