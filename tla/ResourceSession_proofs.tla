------------------------- MODULE ResourceSession_proofs -------------------------
(***************************************************************************)
(* What holds of ResourceSession for any set of windows, any number of     *)
(* resources and any bound on the generations.                             *)
(***************************************************************************)
EXTENDS ResourceSession, SequenceTheorems, TLAPS

USE NumResourcesAssumption, MaxGenerationAssumption

(* A reversed list of resources is a list of resources. *)
LEMMA ReverseType ==
  ASSUME NEW S, NEW s \in Seq(S)
  PROVE  Reverse(s) \in Seq(S)
  BY DEF Reverse

(* What a drain takes over is a list of resources. *)
LEMMA TakenType ==
  ASSUME TaskTypeOK, NEW g \in Generations
  PROVE  Taken(g) \in Seq(Resources)
  BY ReverseType DEF Taken, TaskTypeOK

(* The values the program counters are assigned. *)
LEMMA PCValues ==
  /\ \A x \in ActivationPCs \union IdlePCs : x \in PCs
  /\ \A x \in {"waiting", "acquiring", "returning", "trailing", "selfdrain", "ended"} :
       x \in ActivationPCs
  /\ \A x \in {"draining", "hook", "done"} : x \in IdlePCs
  BY DEF PCs, ActivationPCs, IdlePCs

(* Every variable keeps its type. *)
THEOREM Typing == Spec => []TypeOK
<1> USE PCValues DEF TaskTypeOK
<1>1. Init => TypeOK
  BY DEF Init, TypeOK, PCs, Resources
<1>2. TypeOK /\ [Next]_vars => TypeOK'
  <2> SUFFICES ASSUME TypeOK, [Next]_vars
               PROVE  TypeOK'
    OBVIOUS
  <2> USE DEF TypeOK, subscriptionVars, scopeVars, drainVars, statusVars, switchVars
  <2>1. ASSUME RunIdle
        PROVE  TaskTypeOK'
    <3>1. /\ generation' \in 0 .. MaxGeneration
          /\ generation' \in Generations
          /\ generation' = generation + 1
      BY <2>1 DEF RunIdle, Generations
    <3>2. pc' \in [Generations -> PCs]
      BY <2>1, <3>1 DEF RunIdle
    <3>3. draining' \in [Generations -> BOOLEAN]
      BY <2>1 DEF RunIdle
    <3>4. /\ batch' \in [Generations -> Seq(Resources)]
          /\ cleanups' \in [Generations -> Seq(Resources)]
      <4>1. CASE scope = 0
        BY <2>1, <4>1 DEF RunIdle
      <4>2. CASE scope # 0
        <5>1. scope \in Generations
          BY <4>2 DEF Generations
        <5>2. Taken(scope) \in Seq(Resources) /\ <<>> \in Seq(Resources)
          BY <5>1, TakenType
        <5> QED
          BY <2>1, <4>2, <5>1, <5>2 DEF RunIdle
      <4> QED
        BY <4>1, <4>2
    <3>5. /\ lastDrain' \in 0 .. MaxGeneration
          /\ scope' \in 0 .. MaxGeneration
          /\ target' \in [Generations -> 0 .. MaxGeneration]
          /\ activeMonitor' \in 0 .. MaxGeneration
          /\ progress' \in 0 .. MaxGeneration
      BY <2>1, <3>1 DEF RunIdle, OrphanMonitor
    <3> QED
      BY <2>1, <3>1, <3>2, <3>3, <3>4, <3>5 DEF RunIdle
  <2>2. ASSUME NoTask
        PROVE  TaskTypeOK'
    BY <2>2 DEF NoTask
  <2>3. CASE WindowStep
    <3>1. ASSUME NEW w \in Windows, SubscribePassive(w)
          PROVE  TypeOK'
      BY <3>1, <2>2 DEF SubscribePassive
    <3>2. ASSUME NEW w \in Windows, SubscribeFirst(w)
          PROVE  TypeOK'
      <4>1. generation' \in 0 .. MaxGeneration
        BY <3>2 DEF SubscribeFirst, Activate
      <4>2. pc' \in [Generations -> PCs] /\ prev' \in [Generations -> 0 .. MaxGeneration]
        BY <3>2 DEF SubscribeFirst, Activate
      <4>3. error' \in 0 .. MaxGeneration
        BY <3>2 DEF SubscribeFirst
      <4> QED
        BY <3>2, <4>1, <4>2, <4>3 DEF SubscribeFirst
    <3>3. ASSUME NEW w \in Windows, SubscribeJoin(w)
          PROVE  TypeOK'
      BY <3>3, <2>2 DEF SubscribeJoin
    <3>4. ASSUME NEW w \in Windows, NEW passive \in BOOLEAN, Unsubscribe(w, passive)
          PROVE  TypeOK'
      <4>1. TaskTypeOK'
        BY <3>4, <2>1, <2>2 DEF Unsubscribe
      <4> QED
        BY <4>1, <3>4 DEF Unsubscribe
    <3>5. CASE DrainForWindowSwitch
      <4>1. TaskTypeOK'
        BY <3>5, <2>1, <2>2 DEF DrainForWindowSwitch
      <4> QED
        BY <4>1, <3>5 DEF DrainForWindowSwitch
    <3> QED
      BY <2>3, <3>1, <3>2, <3>3, <3>4, <3>5 DEF WindowStep
  <2>4. CASE WindowSwitchGranted
    BY <2>4 DEF WindowSwitchGranted
  <2>5. ASSUME NEW g \in Generations, TaskStep(g)
        PROVE  TypeOK'
    <3>1. CASE StartSuperseded(g)
      BY <3>1 DEF StartSuperseded
    <3>2. CASE StartScope(g)
      BY <3>2 DEF StartScope
    <3>3. CASE Acquired(g)
      <4>1. next[g] \in Resources
        BY <3>3 DEF Acquired, StillToAcquire
      <4>2. next' \in [Generations -> 1 .. NumResources + 1]
        BY <3>3, <4>1 DEF Acquired, Resources
      <4>3. /\ cleanups' \in [Generations -> Seq(Resources)]
            /\ held' \in [Generations -> SUBSET Resources]
        BY <3>3, <4>1 DEF Acquired
      <4> QED
        BY <3>3, <4>2, <4>3 DEF Acquired
    <3>4. CASE AcquiredLate(g)
      BY <3>4 DEF AcquiredLate, StillToAcquire
    <3>5. CASE LateReleased(g)
      BY <3>5 DEF LateReleased
    <3>6. CASE AcquireFailed(g)
      <4>1. error' \in 0 .. MaxGeneration
        BY <3>6 DEF AcquireFailed, Generations
      <4> QED
        BY <3>6, <4>1 DEF AcquireFailed
    <3>7. CASE ActivateComplete(g)
      BY <3>7 DEF ActivateComplete
    <3>8. CASE Trailing(g)
      <4>1. CASE Cancelled(g)
        <5>1. g \in 0 .. MaxGeneration
          BY DEF Generations
        <5>2. Taken(g) \in Seq(Resources) /\ <<>> \in Seq(Resources)
          BY TakenType
        <5>3. /\ target' = [target EXCEPT ![g] = g]
              /\ draining' = [draining EXCEPT ![g] = TRUE]
              /\ pc' = [pc EXCEPT ![g] = "selfdrain"]
          BY <3>8, <4>1 DEF Trailing
        <5>5. /\ target' \in [Generations -> 0 .. MaxGeneration]
              /\ draining' \in [Generations -> BOOLEAN]
              /\ pc' \in [Generations -> PCs]
          BY <5>1, <5>3
        <5>4. /\ batch' \in [Generations -> Seq(Resources)]
              /\ cleanups' \in [Generations -> Seq(Resources)]
          BY <3>8, <4>1, <5>2 DEF Trailing
        <5> QED
          BY <3>8, <5>4, <5>5 DEF Trailing
      <4>2. CASE ~Cancelled(g)
        BY <3>8, <4>2 DEF Trailing
      <4> QED
        BY <4>1, <4>2
    <3>9. CASE RunCleanup(g)
      <4>1. batch' \in [Generations -> Seq(Resources)]
        BY <3>9 DEF RunCleanup
      <4>2. held' \in [Generations -> SUBSET Resources]
        BY <3>9 DEF RunCleanup
      <4> QED
        BY <3>9, <4>1, <4>2 DEF RunCleanup
    <3>10. CASE DrainFinished(g)
      BY <3>10 DEF DrainFinished
    <3>11. CASE IdleSettled(g)
      BY <3>11 DEF IdleSettled
    <3> QED
      BY <2>5, <3>1, <3>2, <3>3, <3>4, <3>5, <3>6, <3>7, <3>8, <3>9, <3>10, <3>11
      DEF TaskStep
  <2>6. CASE UNCHANGED vars
    BY <2>6 DEF vars
  <2> QED
    BY <2>3, <2>4, <2>5, <2>6 DEF Next
<1> QED
  BY <1>1, <1>2, PTL DEF Spec

-----------------------------------------------------------------------------
(***************************************************************************)
(* The lifecycle.  That only the current scope holds registered cleanups   *)
(* is not inductive by itself: it needs that subscriptions and generations *)
(* agree (so an idle always follows an activation, never another idle),    *)
(* that no task runs beyond the counter, that a draining scope is a        *)
(* superseded one, and that the current scope is that of the newest        *)
(* generation.                                                             *)
(***************************************************************************)
NothingBeyondGeneration ==
  \A g \in Generations : g > generation => pc[g] = "none"

DrainingIsSuperseded ==
  \A g \in Generations : draining[g] => g < generation

ScopeIsNewest ==
  /\ scope # 0 => scope = generation /\ pc[scope] \in ActivationPCs
  /\ \A g \in Generations : pc[g] = "acquiring" /\ g = generation => scope = g

LifecycleInv ==
  /\ TypeOK
  /\ ActiveIffActivated
  /\ NothingBeyondGeneration
  /\ DrainingIsSuperseded
  /\ ScopeIsNewest
  /\ OnlyCurrentScopeRegisters

(* The program counters of activations, of idles and of no task differ. *)
LEMMA PCsAreDisjoint ==
  /\ \A x \in ActivationPCs : x \notin IdlePCs
  /\ "none" \notin ActivationPCs /\ "none" \notin IdlePCs
  BY DEF ActivationPCs, IdlePCs

(* activate() from an idle session. *)
LEMMA ActivateStep ==
  ASSUME LifecycleInv, TypeOK', activeSubscribers = {}, Activate,
         activeSubscribers' # {}, activeSubscribers' \subseteq subscribers',
         UNCHANGED <<scope, draining, cleanups>>
  PROVE  LifecycleInv'
<1> USE PCValues, PCsAreDisjoint DEF LifecycleInv, TypeOK, TaskTypeOK
<1>1. /\ generation' = generation + 1
      /\ generation' \in Generations
      /\ generation \in Nat
      /\ pc' = [pc EXCEPT ![generation'] = "waiting"]
  BY DEF Activate, Generations
<1>2. scope = 0
  BY DEF ActiveIffActivated, ScopeIsNewest
<1>3. ActiveIffActivated'
  BY <1>1 DEF ActiveIffActivated
<1>4. NothingBeyondGeneration'
  BY <1>1 DEF NothingBeyondGeneration, Generations
<1>5. DrainingIsSuperseded'
  BY <1>1 DEF DrainingIsSuperseded, Generations
<1>6. ScopeIsNewest'
  BY <1>1, <1>2 DEF ScopeIsNewest
<1>7. OnlyCurrentScopeRegisters'
  BY <1>2 DEF OnlyCurrentScopeRegisters, Generations
<1> QED
  BY <1>3, <1>4, <1>5, <1>6, <1>7

(* runIdle() from an active session. *)
LEMMA RunIdleStep ==
  ASSUME LifecycleInv, TypeOK', activeSubscribers # {}, RunIdle,
         activeSubscribers' = {}
  PROVE  LifecycleInv'
<1> USE PCValues, PCsAreDisjoint DEF LifecycleInv, TypeOK, TaskTypeOK
<1>1. /\ generation' = generation + 1
      /\ generation' \in Generations
      /\ generation \in Nat
      /\ scope' = 0
  BY DEF RunIdle, Generations
<1>2. PICK x \in {"hook", "draining"} : pc' = [pc EXCEPT ![generation'] = x]
  BY <1>1 DEF RunIdle
<1>3. ActiveIffActivated'
  BY <1>1, <1>2 DEF ActiveIffActivated
<1>4. NothingBeyondGeneration'
  BY <1>1, <1>2 DEF NothingBeyondGeneration, Generations
<1>5. DrainingIsSuperseded'
  <2>1. ASSUME NEW g \in Generations, draining'[g]
        PROVE  draining[g] \/ g = scope
    BY <2>1 DEF RunIdle
  <2>2. ASSUME NEW g \in Generations, draining[g] \/ g = scope
        PROVE  g < generation'
    <3>1. CASE draining[g]
      <4>1. g < generation
        BY <3>1 DEF DrainingIsSuperseded
      <4> QED
        BY <4>1, <1>1 DEF Generations
    <3>2. CASE g = scope
      <4>1. g = generation
        BY <3>2 DEF ScopeIsNewest, Generations
      <4> QED
        BY <4>1, <1>1
    <3> QED
      BY <2>2, <3>1, <3>2
  <2> QED
    BY <2>1, <2>2 DEF DrainingIsSuperseded
<1>6. ScopeIsNewest'
  <2>1. ASSUME NEW g \in Generations, g = generation'
        PROVE  pc'[g] # "acquiring"
    BY <2>1, <1>2
  <2> QED
    BY <1>1, <2>1 DEF ScopeIsNewest
<1>7. OnlyCurrentScopeRegisters'
  <2>1. ASSUME NEW g \in Generations, cleanups'[g] # <<>>
        PROVE  FALSE
    <3>1. CASE scope = 0
      <4>1. cleanups'[g] = cleanups[g]
        BY <3>1 DEF RunIdle
      <4> QED
        BY <2>1, <3>1, <4>1 DEF OnlyCurrentScopeRegisters, Generations
    <3>2. CASE scope # 0
      <4>1. cleanups' = [cleanups EXCEPT ![scope] = <<>>]
        BY <3>2 DEF RunIdle
      <4>2. g # scope /\ cleanups[g] # <<>>
        BY <2>1, <4>1
      <4> QED
        BY <4>2 DEF OnlyCurrentScopeRegisters
    <3> QED
      BY <3>1, <3>2
  <2> QED
    BY <2>1 DEF OnlyCurrentScopeRegisters
<1> QED
  BY <1>3, <1>4, <1>5, <1>6, <1>7

(* A task moves on without touching subscriptions, scopes or cleanups. *)
LEMMA TaskMoves ==
  ASSUME LifecycleInv, TypeOK', NEW g \in Generations, NEW x \in PCs,
         pc[g] # "none", x # "acquiring",
         pc[g] \in ActivationPCs <=> x \in ActivationPCs,
         pc' = [pc EXCEPT ![g] = x],
         UNCHANGED <<subscriptionVars, generation, scope, draining, cleanups>>
  PROVE  LifecycleInv'
<1> USE PCsAreDisjoint DEF LifecycleInv, TypeOK, TaskTypeOK, subscriptionVars
<1>1. \A h \in Generations : pc'[h] = IF h = g THEN x ELSE pc[h]
  OBVIOUS
<1>2. generation > 0 => generation \in Generations
  BY DEF Generations
<1>3. ActiveIffActivated'
  BY <1>1, <1>2 DEF ActiveIffActivated
<1>4. NothingBeyondGeneration'
  BY <1>1 DEF NothingBeyondGeneration
<1>5. ScopeIsNewest'
  <2>1. scope # 0 => scope \in Generations
    BY DEF Generations
  <2> QED
    BY <1>1, <2>1 DEF ScopeIsNewest
<1>6. DrainingIsSuperseded' /\ OnlyCurrentScopeRegisters'
  BY DEF DrainingIsSuperseded, OnlyCurrentScopeRegisters
<1> QED
  BY <1>3, <1>4, <1>5, <1>6

(* Nothing of the lifecycle changes. *)
LEMMA LifecycleFrame ==
  ASSUME LifecycleInv, TypeOK',
         UNCHANGED <<generation, pc, scope, draining, cleanups>>,
         activeSubscribers' \subseteq subscribers',
         activeSubscribers' = {} <=> activeSubscribers = {}
  PROVE  LifecycleInv'
  BY DEF LifecycleInv, ActiveIffActivated, NothingBeyondGeneration,
         DrainingIsSuperseded, ScopeIsNewest, OnlyCurrentScopeRegisters

(* A step of an activation or of a drain. *)
LEMMA TaskStepKeepsLifecycle ==
  ASSUME LifecycleInv, TypeOK', NEW g \in Generations, TaskStep(g)
  PROVE  LifecycleInv'
<1> USE PCValues, PCsAreDisjoint DEF scopeVars
<1>1. CASE StartSuperseded(g)
  BY <1>1, TaskMoves DEF StartSuperseded
<1>2. CASE StartScope(g)
  <2> USE <1>2 DEF StartScope, LifecycleInv, TypeOK, TaskTypeOK
  <2>1. \A h \in Generations : pc'[h] = IF h = g THEN "acquiring" ELSE pc[h]
    OBVIOUS
  <2>2. ActiveIffActivated'
    BY <2>1 DEF ActiveIffActivated, subscriptionVars, Generations
  <2>3. NothingBeyondGeneration' /\ ScopeIsNewest'
    BY <2>1 DEF NothingBeyondGeneration, ScopeIsNewest
  <2>4. DrainingIsSuperseded' /\ OnlyCurrentScopeRegisters'
    BY DEF DrainingIsSuperseded, OnlyCurrentScopeRegisters
  <2> QED
    BY <2>2, <2>3, <2>4
<1>3. CASE Acquired(g)
  <2> USE <1>3 DEF Acquired, LifecycleInv, TypeOK, TaskTypeOK
  <2>1. g = generation /\ scope = g
    BY DEF Cancelled, ScopeIsNewest
  <2>2. \A h \in Generations : h # g => cleanups'[h] = cleanups[h]
    OBVIOUS
  <2>3. OnlyCurrentScopeRegisters'
    BY <2>1, <2>2 DEF OnlyCurrentScopeRegisters
  <2>4. /\ ActiveIffActivated' /\ NothingBeyondGeneration'
        /\ DrainingIsSuperseded' /\ ScopeIsNewest'
    BY DEF ActiveIffActivated, NothingBeyondGeneration, DrainingIsSuperseded,
           ScopeIsNewest, subscriptionVars
  <2> QED
    BY <2>3, <2>4
<1>4. CASE AcquiredLate(g)
  BY <1>4, TaskMoves DEF AcquiredLate
<1>5. CASE LateReleased(g)
  BY <1>5, TaskMoves DEF LateReleased
<1>6. CASE AcquireFailed(g)
  BY <1>6, TaskMoves DEF AcquireFailed
<1>7. CASE ActivateComplete(g)
  BY <1>7, TaskMoves DEF ActivateComplete
<1>8. CASE Trailing(g) /\ ~Cancelled(g)
  BY <1>8, TaskMoves DEF Trailing
<1>9. CASE Trailing(g) /\ Cancelled(g)
  <2> USE DEF LifecycleInv, TypeOK, TaskTypeOK
  <2>1. /\ pc[g] = "trailing"
        /\ pc' = [pc EXCEPT ![g] = "selfdrain"]
        /\ cleanups' = [cleanups EXCEPT ![g] = <<>>]
        /\ draining' = [draining EXCEPT ![g] = TRUE]
        /\ UNCHANGED <<subscriptionVars, generation, scope>>
    BY <1>9 DEF Trailing
  <2>2. g < generation
    <3>1. draining[g] \/ g # generation
      BY <1>9 DEF Cancelled
    <3>2. ~(g > generation)
      BY <2>1 DEF NothingBeyondGeneration
    <3>3. draining[g] => g < generation
      BY DEF DrainingIsSuperseded
    <3>4. g \in Int /\ generation \in Int
      BY DEF Generations
    <3> QED
      BY <3>1, <3>2, <3>3, <3>4
  <2>3. \A h \in Generations : /\ pc'[h] = IF h = g THEN "selfdrain" ELSE pc[h]
                               /\ draining'[h] = (h = g \/ draining[h])
                               /\ cleanups'[h] # <<>> => cleanups[h] # <<>>
    BY <2>1
  <2>4. ActiveIffActivated'
    <3>1. generation \in Generations => pc'[generation] = pc[generation]
      BY <2>2, <2>3 DEF Generations
    <3>2. generation > 0 => generation \in Generations
      BY DEF Generations
    <3> QED
      BY <2>1, <3>1, <3>2 DEF ActiveIffActivated, subscriptionVars
  <2>5. NothingBeyondGeneration' /\ DrainingIsSuperseded'
    BY <2>1, <2>2, <2>3 DEF NothingBeyondGeneration, DrainingIsSuperseded, Generations
  <2>6. ScopeIsNewest'
    <3>1. scope # 0 => scope \in Generations
      BY DEF Generations
    <3> QED
      BY <2>1, <2>3, <3>1 DEF ScopeIsNewest
  <2>7. OnlyCurrentScopeRegisters'
    BY <2>1, <2>3 DEF OnlyCurrentScopeRegisters
  <2> QED
    BY <2>4, <2>5, <2>6, <2>7
<1>10. CASE RunCleanup(g)
  BY <1>10, LifecycleFrame DEF RunCleanup, subscriptionVars, LifecycleInv, ActiveIffActivated
<1>11. CASE DrainFinished(g) /\ pc[g] = "draining"
  BY <1>11, TaskMoves DEF DrainFinished
<1>12. CASE DrainFinished(g) /\ pc[g] # "draining"
  BY <1>12, TaskMoves DEF DrainFinished, Drainers, LifecycleInv, TypeOK, TaskTypeOK
<1>13. CASE IdleSettled(g)
  BY <1>13, TaskMoves DEF IdleSettled
<1> QED
  BY <1>1, <1>2, <1>3, <1>4, <1>5, <1>6, <1>7, <1>8, <1>9, <1>10, <1>11, <1>12,
     <1>13 DEF TaskStep

(* The lifecycle invariant, from which ActiveIffActivated and
   OnlyCurrentScopeRegisters follow. *)
THEOREM Lifecycle == Spec => []LifecycleInv
<1>1. Init /\ TypeOK => LifecycleInv
  BY DEF Init, LifecycleInv, ActiveIffActivated, NothingBeyondGeneration,
         DrainingIsSuperseded, ScopeIsNewest, OnlyCurrentScopeRegisters, Generations
<1>2. LifecycleInv /\ TypeOK' /\ [Next]_vars => LifecycleInv'
  <2> SUFFICES ASSUME LifecycleInv, TypeOK', [Next]_vars
               PROVE  LifecycleInv'
    OBVIOUS
  <2>1. ASSUME NEW w \in Windows, SubscribePassive(w)
        PROVE  LifecycleInv'
    BY <2>1, LifecycleFrame
    DEF SubscribePassive, NoTask, scopeVars, LifecycleInv, ActiveIffActivated
  <2>2. ASSUME NEW w \in Windows, SubscribeFirst(w)
        PROVE  LifecycleInv'
    BY <2>2, ActivateStep DEF SubscribeFirst, scopeVars
  <2>3. ASSUME NEW w \in Windows, SubscribeJoin(w)
        PROVE  LifecycleInv'
    BY <2>3, LifecycleFrame
    DEF SubscribeJoin, NoTask, scopeVars, LifecycleInv, ActiveIffActivated
  <2>4. ASSUME NEW w \in Windows, NEW passive \in BOOLEAN, Unsubscribe(w, passive)
        PROVE  LifecycleInv'
    <3>1. CASE LastActive(w)
      BY <2>4, <3>1, RunIdleStep DEF Unsubscribe, LastActive
    <3>2. CASE ~LastActive(w)
      <4>1. activeSubscribers' = {} <=> activeSubscribers = {}
        BY <2>4, <3>2 DEF Unsubscribe, LastActive
      <4>2. activeSubscribers' \subseteq subscribers'
        BY <2>4 DEF Unsubscribe, LifecycleInv, ActiveIffActivated
      <4> QED
        BY <2>4, <3>2, <4>1, <4>2, LifecycleFrame DEF Unsubscribe, NoTask, scopeVars
    <3> QED
      BY <3>1, <3>2
  <2>5. CASE DrainForWindowSwitch
    <3>1. CASE activeSubscribers # {}
      BY <2>5, <3>1, RunIdleStep DEF DrainForWindowSwitch
    <3>2. CASE activeSubscribers = {}
      BY <2>5, <3>2, LifecycleFrame DEF DrainForWindowSwitch, NoTask, scopeVars
    <3> QED
      BY <3>1, <3>2
  <2>6. CASE WindowSwitchGranted
    BY <2>6, LifecycleFrame
    DEF WindowSwitchGranted, subscriptionVars, scopeVars, LifecycleInv, ActiveIffActivated
  <2>7. ASSUME NEW g \in Generations, TaskStep(g)
        PROVE  LifecycleInv'
    BY <2>7, TaskStepKeepsLifecycle
  <2>8. CASE UNCHANGED vars
    BY <2>8, LifecycleFrame
    DEF vars, subscriptionVars, scopeVars, LifecycleInv, ActiveIffActivated
  <2> QED
    BY <2>1, <2>2, <2>3, <2>4, <2>5, <2>6, <2>7, <2>8 DEF Next, WindowStep
<1> QED
  BY <1>1, <1>2, Typing, PTL DEF Spec

(* The session is active exactly while its newest task is an activation. *)
THEOREM ActivityAgrees == Spec => []ActiveIffActivated
<1>1. LifecycleInv => ActiveIffActivated
  BY DEF LifecycleInv
<1> QED
  BY <1>1, Lifecycle, PTL

(* A superseded activation has no cleanup that nobody runs. *)
THEOREM OnlyCurrentRegisters == Spec => []OnlyCurrentScopeRegisters
<1>1. LifecycleInv => OnlyCurrentScopeRegisters
  BY DEF LifecycleInv
<1> QED
  BY <1>1, Lifecycle, PTL

-----------------------------------------------------------------------------
(***************************************************************************)
(* The leases.  That every held resource has exactly one place that gives  *)
(* it back needs the order of the lists as well as their contents:         *)
(* cleanups grow upwards and stay below the resource being acquired, a     *)
(* batch is read downwards, and no two drains share a scope because the    *)
(* first one to take its cleanups marks the scope as draining.             *)
(***************************************************************************)
CleanupsAscend ==
  \A g \in Generations : \A i, j \in 1 .. Len(cleanups[g]) :
    i < j => cleanups[g][i] < cleanups[g][j]

BatchesDescend ==
  \A d \in Generations : \A i, j \in 1 .. Len(batch[d]) :
    i < j => batch[d][i] > batch[d][j]

BelowNext ==
  /\ \A g \in Generations : \A r \in Range(cleanups[g]) : r < next[g]
  /\ \A d \in Generations : \A r \in Range(batch[d]) : r < next[target[d]]

BatchIsOfADrain ==
  \A d \in Generations :
    batch[d] # <<>> => /\ Drainers(d)
                       /\ target[d] \in Generations
                       /\ draining[target[d]]

OneDrainPerScope ==
  \A d, e \in Generations :
    batch[d] # <<>> /\ batch[e] # <<>> /\ target[d] = target[e] => d = e

(* What EveryLeaseHasAnOwner says, for one resource at a time. *)
Owned(g, r) ==
  \/ r \in Range(cleanups[g])
  \/ \E d \in Generations : target[d] = g /\ r \in Range(batch[d])
  \/ pc[g] = "returning" /\ r = next[g]
HeldIffOwned == \A g \in Generations : \A r : r \in held[g] <=> Owned(g, r)

LeaseInv ==
  /\ CleanupsAscend
  /\ BatchesDescend
  /\ BelowNext
  /\ BatchIsOfADrain
  /\ OneDrainPerScope
  /\ HeldIffOwned

(* The two ways of saying who owns a lease agree. *)
LEMMA OwnersAgree == HeldIffOwned <=> EveryLeaseHasAnOwner
<1>1. ASSUME NEW g \in Generations, NEW r
      PROVE  r \in Range(cleanups[g])
                   \union (UNION {Range(batch[d]) : d \in {e \in Generations : target[e] = g}})
                   \union LateRelease(g)
             <=> Owned(g, r)
  BY DEF Owned, LateRelease
<1>2. HeldIffOwned => EveryLeaseHasAnOwner
  BY <1>1 DEF HeldIffOwned, EveryLeaseHasAnOwner
<1>3. EveryLeaseHasAnOwner => HeldIffOwned
  BY <1>1 DEF HeldIffOwned, EveryLeaseHasAnOwner
<1> QED
  BY <1>2, <1>3

(* Reversing a list keeps what is in it and turns its order round. *)
LEMMA ReverseOfAscending ==
  ASSUME NEW s \in Seq(Resources),
         \A i, j \in 1 .. Len(s) : i < j => s[i] < s[j]
  PROVE  /\ Range(Reverse(s)) = Range(s)
         /\ \A i, j \in 1 .. Len(Reverse(s)) : i < j => Reverse(s)[i] > Reverse(s)[j]
<1> DEFINE n == Len(s)
<1>1. /\ n \in Nat
      /\ DOMAIN s = 1 .. n
      /\ DOMAIN Reverse(s) = 1 .. n
      /\ \A i \in 1 .. n : Reverse(s)[i] = s[n - i + 1]
  BY DEF Reverse
<1>2. Reverse(s) \in Seq(Resources)
  BY ReverseType
<1>3. Len(Reverse(s)) = n
  BY <1>1, <1>2
<1>4. \A i \in 1 .. n : n - i + 1 \in 1 .. n /\ n - (n - i + 1) + 1 = i
  BY <1>1
<1>5. Range(Reverse(s)) \subseteq Range(s)
  BY <1>1, <1>4 DEF Range
<1>6. Range(s) \subseteq Range(Reverse(s))
  <2> SUFFICES ASSUME NEW i \in 1 .. n
               PROVE  s[i] \in Range(Reverse(s))
    BY <1>1 DEF Range
  <2>1. Reverse(s)[n - i + 1] = s[i] /\ n - i + 1 \in DOMAIN Reverse(s)
    BY <1>1, <1>4
  <2> QED
    BY <2>1 DEF Range
<1>7. ASSUME NEW i \in 1 .. n, NEW j \in 1 .. n, i < j
      PROVE  Reverse(s)[i] > Reverse(s)[j]
  <2>1. n - j + 1 < n - i + 1
    BY <1>1, <1>7
  <2>2. s[n - j + 1] < s[n - i + 1]
    BY <1>4, <2>1
  <2>3. s[n - j + 1] \in Int /\ s[n - i + 1] \in Int
    BY <1>1, <1>4 DEF Resources
  <2> QED
    BY <1>1, <2>2, <2>3
<1> QED
  BY <1>3, <1>5, <1>6, <1>7

(* The tail of a list that descends is the list without its head. *)
LEMMA TailOfDescending ==
  ASSUME NEW s \in Seq(Resources), s # <<>>,
         \A i, j \in 1 .. Len(s) : i < j => s[i] > s[j]
  PROVE  /\ Tail(s) \in Seq(Resources)
         /\ Head(s) \in Range(s)
         /\ Range(Tail(s)) = Range(s) \ {Head(s)}
         /\ \A r \in Range(s) : r \in Resources /\ r <= Head(s)
         /\ \A i, j \in 1 .. Len(Tail(s)) : i < j => Tail(s)[i] > Tail(s)[j]
<1>1. /\ Len(s) \in Nat \ {0}
      /\ DOMAIN s = 1 .. Len(s)
      /\ \A i \in 1 .. Len(s) : s[i] \in Resources /\ s[i] \in Int
      /\ Head(s) = s[1]
  BY EmptySeq DEF Resources
<1>2. /\ Tail(s) \in Seq(Resources)
      /\ Len(Tail(s)) = Len(s) - 1
      /\ DOMAIN Tail(s) = 1 .. Len(s) - 1
      /\ \A i \in 1 .. Len(s) - 1 : Tail(s)[i] = s[i + 1] /\ i + 1 \in 1 .. Len(s)
  BY <1>1, HeadTailProperties
<1>3. \A r \in Range(s) : r \in Resources /\ r <= Head(s)
  BY <1>1 DEF Range
<1>4. Range(Tail(s)) \subseteq Range(s) \ {Head(s)}
  BY <1>1, <1>2 DEF Range
<1>5. Range(s) \ {Head(s)} \subseteq Range(Tail(s))
  <2> SUFFICES ASSUME NEW i \in 1 .. Len(s), i # 1
               PROVE  s[i] \in Range(Tail(s))
    BY <1>1 DEF Range
  <2>1. i - 1 \in 1 .. Len(s) - 1 /\ (i - 1) + 1 = i
    BY <1>1
  <2> QED
    BY <1>2, <2>1 DEF Range
<1>6. \A i, j \in 1 .. Len(s) - 1 : i < j => Tail(s)[i] > Tail(s)[j]
  BY <1>1, <1>2
<1>7. Head(s) \in Range(s)
  BY <1>1 DEF Range
<1> QED
  BY <1>2, <1>3, <1>4, <1>5, <1>6, <1>7

(* A step that moves no lease: the lists stay, and so does what decides
   whose they are. *)
LEMMA LeaseFrame ==
  ASSUME LeaseInv, UNCHANGED <<draining, cleanups, batch, next, held>>,
         \A d \in Generations :
           /\ batch[d] # <<>> => target'[d] = target[d] /\ (Drainers(d) => Drainers(d)')
           /\ pc'[d] = "returning" <=> pc[d] = "returning"
  PROVE  LeaseInv'
<1> USE DEF LeaseInv
<1>1. \A d \in Generations : \A r : r \in Range(batch[d]) => batch[d] # <<>>
  BY DEF Range
<1>2. CleanupsAscend' /\ BatchesDescend'
  BY DEF CleanupsAscend, BatchesDescend
<1>3. BelowNext'
  BY <1>1 DEF BelowNext
<1>4. BatchIsOfADrain' /\ OneDrainPerScope'
  BY DEF BatchIsOfADrain, OneDrainPerScope
<1>5. \A g \in Generations : \A r : Owned(g, r)' <=> Owned(g, r)
  BY <1>1 DEF Owned
<1>6. HeldIffOwned'
  BY <1>5 DEF HeldIffOwned
<1> QED
  BY <1>2, <1>3, <1>4, <1>6

(* A drain d takes over the cleanups of g. *)
LEMMA DrainStarts ==
  ASSUME LifecycleInv, LeaseInv, NEW g \in Generations, NEW d \in Generations,
         NEW x \in {"draining", "selfdrain"},
         batch[d] = <<>>, pc[d] # "returning",
         pc' = [pc EXCEPT ![d] = x],
         target' = [target EXCEPT ![d] = g],
         batch' = [batch EXCEPT ![d] = Taken(g)],
         cleanups' = [cleanups EXCEPT ![g] = <<>>],
         draining' = [draining EXCEPT ![g] = TRUE],
         UNCHANGED <<next, held>>
  PROVE  LeaseInv'
<1>1. draining[g] => cleanups[g] = <<>>
  BY DEF LifecycleInv, TypeOK, TaskTypeOK, DrainingIsSuperseded, OnlyCurrentScopeRegisters,
         Generations
<1>2. \A e \in Generations : \A r : r \in Range(batch[e]) => batch[e] # <<>>
  BY DEF Range
<1>3. /\ Range(Taken(g)) = Range(cleanups[g])
      /\ \A i, j \in 1 .. Len(Taken(g)) : i < j => Taken(g)[i] > Taken(g)[j]
  <2>1. CASE draining[g]
    BY <1>1, <2>1 DEF Taken
  <2>2. CASE ~draining[g]
    <3>1. /\ cleanups[g] \in Seq(Resources)
          /\ \A i, j \in 1 .. Len(cleanups[g]) : i < j => cleanups[g][i] < cleanups[g][j]
      BY DEF LifecycleInv, TypeOK, TaskTypeOK, LeaseInv, CleanupsAscend
    <3> QED
      BY <2>2, <3>1, ReverseOfAscending DEF Taken
  <2> QED
    BY <2>1, <2>2
<1>4. Taken(g) # <<>> => ~draining[g]
  BY DEF Taken
<1>5. /\ \A e \in Generations : batch'[e] = IF e = d THEN Taken(g) ELSE batch[e]
      /\ \A e \in Generations : target'[e] = IF e = d THEN g ELSE target[e]
      /\ \A e \in Generations : pc'[e] = IF e = d THEN x ELSE pc[e]
      /\ \A h \in Generations : cleanups'[h] = IF h = g THEN <<>> ELSE cleanups[h]
      /\ \A h \in Generations : draining'[h] = IF h = g THEN TRUE ELSE draining[h]
  BY DEF LifecycleInv, TypeOK, TaskTypeOK
<1>12. \A e \in Generations : batch[e] # <<>> => /\ pc[e] \in {"draining", "selfdrain"}
                                               /\ target[e] \in Generations
                                               /\ draining[target[e]]
  BY DEF LeaseInv, BatchIsOfADrain, Drainers
<1>6. CleanupsAscend'
  BY <1>5 DEF LeaseInv, CleanupsAscend
<1>7. BatchesDescend'
  BY <1>3, <1>5 DEF LeaseInv, BatchesDescend
<1>8. BelowNext'
  <2>1. \A h \in Generations : \A r \in Range(cleanups'[h]) : r < next'[h]
    BY <1>5 DEF LeaseInv, BelowNext, Range
  <2>2. \A e \in Generations : \A r \in Range(batch'[e]) : r < next'[target'[e]]
    BY <1>3, <1>5 DEF LeaseInv, BelowNext
  <2> QED
    BY <2>1, <2>2 DEF BelowNext
<1>9. BatchIsOfADrain'
  <2> SUFFICES ASSUME NEW e \in Generations, batch'[e] # <<>>
               PROVE  /\ pc'[e] \in {"draining", "selfdrain"}
                      /\ target'[e] \in Generations
                      /\ draining'[target'[e]]
    BY DEF BatchIsOfADrain, Drainers
  <2>1. CASE e = d
    BY <1>5, <2>1
  <2>2. CASE e # d
    BY <1>5, <1>12, <2>2
  <2> QED
    BY <2>1, <2>2
<1>10. OneDrainPerScope'
  <2> SUFFICES ASSUME NEW a \in Generations, NEW b \in Generations,
                      batch'[a] # <<>>, batch'[b] # <<>>, target'[a] = target'[b], a # b
               PROVE  FALSE
    BY DEF OneDrainPerScope
  <2>1. a # d /\ b # d
    BY <1>4, <1>5, <1>12
  <2> QED
    BY <1>5, <2>1 DEF LeaseInv, OneDrainPerScope
<1>11. HeldIffOwned'
  <2> SUFFICES ASSUME NEW h \in Generations, NEW r
               PROVE  Owned(h, r)' <=> Owned(h, r)
    BY DEF LeaseInv, HeldIffOwned
  <2>1. pc'[h] = "returning" <=> pc[h] = "returning"
    BY <1>5
  <2>2. CASE h = g
    <3>1. Owned(h, r)' => Owned(h, r)
      <4> SUFFICES ASSUME Owned(h, r)'
                   PROVE  Owned(h, r)
        OBVIOUS
      <4>1. CASE r \in Range(cleanups'[h])
        BY <1>5, <2>2, <4>1 DEF Range
      <4>2. ASSUME NEW e \in Generations, target'[e] = h, r \in Range(batch'[e])
            PROVE  Owned(h, r)
        BY <1>3, <1>5, <2>2, <4>2 DEF Owned
      <4>3. CASE pc'[h] = "returning" /\ r = next'[h]
        BY <2>1, <4>3 DEF Owned
      <4> QED
        BY <4>1, <4>2, <4>3 DEF Owned
    <3>2. Owned(h, r) => Owned(h, r)'
      BY <1>2, <1>3, <1>5, <2>1, <2>2 DEF Owned
    <3> QED
      BY <3>1, <3>2
  <2>3. CASE h # g
    BY <1>2, <1>5, <2>1, <2>3 DEF Owned
  <2> QED
    BY <2>2, <2>3
<1> QED
  BY <1>6, <1>7, <1>8, <1>9, <1>10, <1>11 DEF LeaseInv

(* runIdle(): a new idle takes over the current scope, when there is one. *)
LEMMA RunIdleKeepsLeases ==
  ASSUME LifecycleInv, LeaseInv, RunIdle
  PROVE  LeaseInv'
<1> DEFINE d == generation + 1
<1>1. d \in Generations /\ pc[d] = "none" /\ batch[d] = <<>>
  <2>1. d \in Generations /\ d > generation
    BY DEF RunIdle, LifecycleInv, TypeOK, TaskTypeOK, Generations
  <2>2. pc[d] = "none"
    BY <2>1 DEF LifecycleInv, NothingBeyondGeneration
  <2>3. batch[d] = <<>>
    BY <2>1, <2>2 DEF LeaseInv, BatchIsOfADrain, Drainers
  <2> QED
    BY <2>1, <2>2, <2>3
<1>2. CASE scope = 0
  <2>1. /\ \A e \in Generations : e # d => target'[e] = target[e] /\ pc'[e] = pc[e]
        /\ pc'[d] = "hook"
        /\ UNCHANGED <<draining, cleanups, batch, next, held>>
    BY <1>1, <1>2 DEF RunIdle, LifecycleInv, TypeOK, TaskTypeOK
  <2> QED
    BY <1>1, <2>1, LeaseFrame DEF Drainers
<1>3. CASE scope # 0
  <2>1. scope \in Generations
    BY <1>3 DEF LifecycleInv, TypeOK, TaskTypeOK, Generations
  <2> QED
    BY <1>1, <1>3, <2>1, DrainStarts DEF RunIdle
<1> QED
  BY <1>2, <1>3

(* scope.use registers what it acquired. *)
LEMMA AcquiredKeepsLeases ==
  ASSUME LifecycleInv, LeaseInv, NEW g \in Generations, Acquired(g)
  PROVE  LeaseInv'
<1> DEFINE s == cleanups[g]
           r == next[g]
<1>1. /\ s \in Seq(Resources)
      /\ r \in Resources /\ r \in Nat
      /\ \A q \in Range(s) : q \in Nat /\ q < r
  <2>1. s \in Seq(Resources) /\ r \in Resources
    BY DEF Acquired, StillToAcquire, LifecycleInv, TypeOK, TaskTypeOK
  <2>2. \A q \in Range(s) : q \in Resources
    BY <2>1 DEF Range
  <2> QED
    BY <2>1, <2>2 DEF LeaseInv, BelowNext, Resources
<1>2. /\ Len(Append(s, r)) = Len(s) + 1 /\ Len(s) \in Nat
      /\ \A i \in 1 .. Len(s) : Append(s, r)[i] = s[i]
      /\ Append(s, r)[Len(s) + 1] = r
      /\ DOMAIN s = 1 .. Len(s)
      /\ DOMAIN Append(s, r) = 1 .. Len(s) + 1
  BY <1>1, AppendProperties
<1>3. Range(Append(s, r)) = Range(s) \union {r}
  BY <1>2 DEF Range
<1>4. \A i, j \in 1 .. Len(s) + 1 : i < j => Append(s, r)[i] < Append(s, r)[j]
  <2> SUFFICES ASSUME NEW i \in 1 .. Len(s) + 1, NEW j \in 1 .. Len(s) + 1, i < j
               PROVE  Append(s, r)[i] < Append(s, r)[j]
    OBVIOUS
  <2>1. i \in 1 .. Len(s)
    BY <1>2
  <2>2. CASE j = Len(s) + 1
    BY <1>1, <1>2, <2>1, <2>2 DEF Range
  <2>3. CASE j # Len(s) + 1
    BY <1>2, <2>1, <2>3 DEF LeaseInv, CleanupsAscend
  <2> QED
    BY <2>2, <2>3
<1>5. /\ \A h \in Generations : cleanups'[h] = IF h = g THEN Append(s, r) ELSE cleanups[h]
      /\ \A h \in Generations : next'[h] = IF h = g THEN r + 1 ELSE next[h]
      /\ \A h \in Generations : held'[h] = IF h = g THEN held[g] \union {r} ELSE held[h]
      /\ UNCHANGED <<pc, draining, target, batch>>
      /\ \A h \in Generations : next[h] \in Nat
      /\ pc[g] # "returning"
  BY DEF Acquired, drainVars, LifecycleInv, TypeOK, TaskTypeOK
<1>6. CleanupsAscend'
  BY <1>2, <1>4, <1>5 DEF LeaseInv, CleanupsAscend
<1>7. BatchesDescend' /\ OneDrainPerScope' /\ BatchIsOfADrain'
  <2>1. BatchesDescend' /\ OneDrainPerScope'
    BY <1>5 DEF LeaseInv, BatchesDescend, OneDrainPerScope
  <2>2. BatchIsOfADrain'
    BY <1>5 DEF LeaseInv, BatchIsOfADrain, Drainers
  <2> QED
    BY <2>1, <2>2
<1>8. BelowNext'
  <2>1. \A h \in Generations : \A q \in Range(cleanups'[h]) : q < next'[h]
    <3>1. ASSUME NEW h \in Generations, NEW q \in Range(cleanups'[h])
          PROVE  q < next'[h]
      <4>1. CASE h = g
        BY <1>1, <1>3, <1>5, <3>1, <4>1
      <4>2. CASE h # g
        BY <1>5, <3>1, <4>2 DEF LeaseInv, BelowNext
      <4> QED
        BY <4>1, <4>2
    <3> QED
      BY <3>1
  <2>2. ASSUME NEW d \in Generations, NEW q \in Range(batch[d])
        PROVE  q < next'[target[d]]
    <3>1. /\ target[d] \in Generations
          /\ q < next[target[d]]
      <4>1. batch[d] # <<>>
        BY <2>2 DEF Range
      <4> QED
        BY <2>2, <4>1 DEF LeaseInv, BelowNext, BatchIsOfADrain
    <3>2. q \in Nat
      <4>1. batch[d] \in Seq(Resources)
        BY DEF LifecycleInv, TypeOK, TaskTypeOK
      <4>2. \A i \in DOMAIN batch[d] : batch[d][i] \in Resources
        BY <4>1
      <4> QED
        BY <2>2, <4>2 DEF Range, Resources
    <3> QED
      BY <1>1, <1>5, <3>1, <3>2
  <2> QED
    BY <1>5, <2>1, <2>2 DEF BelowNext
<1>9. HeldIffOwned'
  <2> SUFFICES ASSUME NEW h \in Generations, NEW q
               PROVE  q \in held'[h] <=> Owned(h, q)'
    BY DEF HeldIffOwned
  <2>1. Owned(h, q)' <=> Owned(h, q) \/ (h = g /\ q = r)
    BY <1>3, <1>5 DEF Owned
  <2> QED
    BY <1>5, <2>1 DEF LeaseInv, HeldIffOwned
<1> QED
  BY <1>6, <1>7, <1>8, <1>9 DEF LeaseInv

(* scope.use takes a resource it will not register, and gives it back. *)
LEMMA LateReleaseKeepsLeases ==
  ASSUME LifecycleInv, LeaseInv, NEW g \in Generations, AcquiredLate(g) \/ LateReleased(g)
  PROVE  LeaseInv'
<1>1. /\ UNCHANGED <<draining, cleanups, batch, target, next>>
      /\ \A h \in Generations : h # g => pc'[h] = pc[h] /\ held'[h] = held[h]
      /\ ~Drainers(g)
      /\ held'[g] = IF pc[g] = "returning" THEN held[g] \ {next[g]} ELSE held[g] \union {next[g]}
      /\ pc'[g] = "returning" <=> pc[g] # "returning"
  BY DEF AcquiredLate, LateReleased, LifecycleInv, TypeOK, TaskTypeOK, Drainers, drainVars
<1>2. CleanupsAscend' /\ BatchesDescend' /\ BelowNext' /\ OneDrainPerScope'
  <2>1. CleanupsAscend' /\ BatchesDescend'
    BY <1>1 DEF LeaseInv, CleanupsAscend, BatchesDescend
  <2>2. BelowNext'
    BY <1>1 DEF LeaseInv, BelowNext
  <2>3. OneDrainPerScope'
    BY <1>1 DEF LeaseInv, OneDrainPerScope
  <2> QED
    BY <2>1, <2>2, <2>3
<1>3. BatchIsOfADrain'
  BY <1>1 DEF LeaseInv, BatchIsOfADrain, Drainers
<1>4. HeldIffOwned'
  <2> SUFFICES ASSUME NEW h \in Generations, NEW q
               PROVE  q \in held'[h] <=> Owned(h, q)'
    BY DEF HeldIffOwned
  <2>1. CASE h # g
    BY <1>1, <2>1 DEF LeaseInv, HeldIffOwned, Owned
  <2>2. CASE h = g
    <3>1. /\ next[g] \notin Range(cleanups[g])
          /\ \A d \in Generations : target[d] = g => next[g] \notin Range(batch[d])
      <4>1. next[g] \in Int /\ ~(next[g] < next[g])
        BY DEF LifecycleInv, TypeOK, TaskTypeOK
      <4> QED
        BY <4>1 DEF LeaseInv, BelowNext
    <3>2. q \in held[g] <=> Owned(g, q)
      BY DEF LeaseInv, HeldIffOwned
    <3>3. CASE pc[g] = "returning"
      BY <1>1, <2>2, <3>1, <3>2, <3>3 DEF Owned
    <3>4. CASE pc[g] # "returning"
      BY <1>1, <2>2, <3>1, <3>2, <3>4 DEF Owned
    <3> QED
      BY <3>3, <3>4
  <2> QED
    BY <2>1, <2>2
<1> QED
  BY <1>2, <1>3, <1>4 DEF LeaseInv

(* One cleanup of a drain gives its resource back. *)
LEMMA RunCleanupKeepsLeases ==
  ASSUME LifecycleInv, LeaseInv, NEW d \in Generations, RunCleanup(d)
  PROVE  LeaseInv'
<1> DEFINE g == target[d]
           s == batch[d]
<1>1. /\ g \in Generations
      /\ s \in Seq(Resources) /\ s # <<>>
      /\ \A i, j \in 1 .. Len(s) : i < j => s[i] > s[j]
  BY DEF RunCleanup, LifecycleInv, TypeOK, TaskTypeOK, LeaseInv, BatchIsOfADrain,
         BatchesDescend
<1>2. /\ Head(s) \in Range(s)
      /\ Range(Tail(s)) = Range(s) \ {Head(s)}
      /\ \A i, j \in 1 .. Len(Tail(s)) : i < j => Tail(s)[i] > Tail(s)[j]
  BY <1>1, TailOfDescending
<1>3. /\ \A e \in Generations : batch'[e] = IF e = d THEN Tail(s) ELSE batch[e]
      /\ \A h \in Generations : held'[h] = IF h = g THEN held[g] \ {Head(s)} ELSE held[h]
      /\ UNCHANGED <<pc, draining, cleanups, target, next>>
  BY <1>1 DEF RunCleanup, LifecycleInv, TypeOK, TaskTypeOK
<1>4. \A e \in Generations : \A r : r \in Range(batch[e]) => batch[e] # <<>>
  BY DEF Range
<1>5. CleanupsAscend' /\ BatchesDescend'
  BY <1>2, <1>3 DEF LeaseInv, CleanupsAscend, BatchesDescend
<1>6. BelowNext'
  BY <1>2, <1>3 DEF LeaseInv, BelowNext
<1>7. \A e \in Generations : batch'[e] # <<>> => batch[e] # <<>>
  BY <1>1, <1>3
<1>8. BatchIsOfADrain'
  BY <1>3, <1>7 DEF LeaseInv, BatchIsOfADrain, Drainers
<1>9. OneDrainPerScope'
  BY <1>3, <1>7 DEF LeaseInv, OneDrainPerScope
<1>10. HeldIffOwned'
  <2> SUFFICES ASSUME NEW h \in Generations, NEW q
               PROVE  q \in held'[h] <=> Owned(h, q)'
    BY DEF HeldIffOwned
  <2>1. q \in held[h] <=> Owned(h, q)
    BY DEF LeaseInv, HeldIffOwned
  <2>2. CASE h # g
    BY <1>3, <2>1, <2>2 DEF Owned
  <2>3. CASE h = g /\ q # Head(s)
    BY <1>2, <1>3, <2>1, <2>3 DEF Owned
  <2>4. CASE h = g /\ q = Head(s)
    <3>1. q \notin Range(cleanups[g])
      <4>1. draining[g]
        BY <1>1 DEF LeaseInv, BatchIsOfADrain
      <4>2. cleanups[g] = <<>>
        BY <1>1, <4>1
        DEF LifecycleInv, TypeOK, TaskTypeOK, DrainingIsSuperseded,
            OnlyCurrentScopeRegisters, Generations
      <4> QED
        BY <4>2 DEF Range
    <3>2. \A e \in Generations : target[e] = g => q \notin Range(batch'[e])
      BY <1>1, <1>2, <1>3, <1>4, <2>4 DEF LeaseInv, OneDrainPerScope
    <3>3. q # next[g]
      <4>1. q < next[g] /\ next[g] \in Int
        BY <1>1, <1>2, <2>4 DEF LeaseInv, BelowNext, LifecycleInv, TypeOK, TaskTypeOK
      <4> QED
        BY <4>1
    <3> QED
      BY <1>3, <2>4, <3>1, <3>2, <3>3 DEF Owned
  <2> QED
    BY <2>2, <2>3, <2>4
<1> QED
  BY <1>5, <1>6, <1>8, <1>9, <1>10 DEF LeaseInv

(* A step of an activation or of a drain. *)
LEMMA TaskStepKeepsLeases ==
  ASSUME LifecycleInv, LeaseInv, NEW g \in Generations, TaskStep(g)
  PROVE  LeaseInv'
<1> DEFINE Moves == /\ UNCHANGED <<draining, cleanups, batch, next, held, target>>
                    /\ \A h \in Generations : h # g => pc'[h] = pc[h]
                    /\ pc[g] # "returning" /\ pc'[g] # "returning"
                    /\ batch[g] = <<>>
<1> USE DEF drainVars, scopeVars
<1>1. \A h \in Generations : batch[h] # <<>> => Drainers(h)
  BY DEF LeaseInv, BatchIsOfADrain
<1>2. Moves => LeaseInv'
  BY LeaseFrame DEF Drainers
<1>3. CASE StartSuperseded(g)
  <2>1. Moves
    BY <1>1, <1>3 DEF StartSuperseded, Drainers, LifecycleInv, TypeOK, TaskTypeOK
  <2> QED
    BY <1>2, <2>1
<1>4. CASE StartScope(g)
  <2>1. Moves
    BY <1>1, <1>4 DEF StartScope, Drainers, LifecycleInv, TypeOK, TaskTypeOK
  <2> QED
    BY <1>2, <2>1
<1>5. CASE Acquired(g)
  BY <1>5, AcquiredKeepsLeases
<1>6. CASE AcquiredLate(g) \/ LateReleased(g)
  BY <1>6, LateReleaseKeepsLeases
<1>7. CASE AcquireFailed(g)
  <2>1. Moves
    BY <1>1, <1>7 DEF AcquireFailed, Drainers, LifecycleInv, TypeOK, TaskTypeOK
  <2> QED
    BY <1>2, <2>1
<1>8. CASE ActivateComplete(g)
  <2>1. Moves
    BY <1>1, <1>8 DEF ActivateComplete, Drainers, LifecycleInv, TypeOK, TaskTypeOK
  <2> QED
    BY <1>2, <2>1
<1>9. CASE Trailing(g) /\ Cancelled(g)
  <2>1. batch[g] = <<>> /\ pc[g] # "returning"
    BY <1>1, <1>9 DEF Trailing, Drainers
  <2> QED
    BY <1>9, <2>1, DrainStarts DEF Trailing
<1>10. CASE Trailing(g) /\ ~Cancelled(g)
  <2>1. Moves
    BY <1>1, <1>10 DEF Trailing, Drainers, LifecycleInv, TypeOK, TaskTypeOK
  <2> QED
    BY <1>2, <2>1
<1>11. CASE RunCleanup(g)
  BY <1>11, RunCleanupKeepsLeases
<1>12. CASE DrainFinished(g)
  <2>1. Moves
    BY <1>12 DEF DrainFinished, Drainers, LifecycleInv, TypeOK, TaskTypeOK
  <2> QED
    BY <1>2, <2>1
<1>13. CASE IdleSettled(g)
  <2>1. Moves
    BY <1>1, <1>13 DEF IdleSettled, Drainers, LifecycleInv, TypeOK, TaskTypeOK
  <2> QED
    BY <1>2, <2>1
<1> QED
  BY <1>3, <1>4, <1>5, <1>6, <1>7, <1>8, <1>9, <1>10, <1>11, <1>12, <1>13 DEF TaskStep

(* The places that own the leases, one for each, at all times. *)
THEOREM Leases == Spec => []LeaseInv
<1>1. Init => LeaseInv
  BY DEF Init, LeaseInv, CleanupsAscend, BatchesDescend, BelowNext, BatchIsOfADrain,
         OneDrainPerScope, HeldIffOwned, Owned, Range
<1>2. LifecycleInv /\ LeaseInv /\ [Next]_vars => LeaseInv'
  <2> SUFFICES ASSUME LifecycleInv, LeaseInv, [Next]_vars
               PROVE  LeaseInv'
    OBVIOUS
  <2> USE DEF scopeVars, drainVars
  <2>1. ASSUME UNCHANGED <<pc, scopeVars, drainVars>>
        PROVE  LeaseInv'
    BY <2>1, LeaseFrame DEF Drainers
  <2>2. ASSUME NEW w \in Windows, SubscribePassive(w) \/ SubscribeJoin(w)
        PROVE  LeaseInv'
    BY <2>1, <2>2 DEF SubscribePassive, SubscribeJoin, NoTask
  <2>3. ASSUME NEW w \in Windows, SubscribeFirst(w)
        PROVE  LeaseInv'
    <3>1. /\ UNCHANGED <<draining, cleanups, batch, next, held, target>>
          /\ generation + 1 \in Generations /\ generation + 1 > generation
          /\ pc' = [pc EXCEPT ![generation + 1] = "waiting"]
          /\ pc \in [Generations -> PCs]
      BY <2>3 DEF SubscribeFirst, Activate, LifecycleInv, TypeOK, TaskTypeOK, Generations
    <3>2. pc[generation + 1] = "none"
      BY <3>1 DEF LifecycleInv, NothingBeyondGeneration
    <3> QED
      BY <3>1, <3>2, LeaseFrame DEF Drainers
  <2>4. ASSUME NEW w \in Windows, NEW passive \in BOOLEAN, Unsubscribe(w, passive)
        PROVE  LeaseInv'
    BY <2>1, <2>4, RunIdleKeepsLeases DEF Unsubscribe, NoTask
  <2>5. CASE DrainForWindowSwitch
    BY <2>1, <2>5, RunIdleKeepsLeases DEF DrainForWindowSwitch, NoTask
  <2>6. CASE WindowSwitchGranted
    BY <2>1, <2>6 DEF WindowSwitchGranted
  <2>7. ASSUME NEW g \in Generations, TaskStep(g)
        PROVE  LeaseInv'
    BY <2>7, TaskStepKeepsLeases
  <2>8. CASE UNCHANGED vars
    BY <2>1, <2>8 DEF vars
  <2> QED
    BY <2>2, <2>3, <2>4, <2>5, <2>6, <2>7, <2>8 DEF Next, WindowStep
<1> QED
  BY <1>1, <1>2, Lifecycle, PTL DEF Spec

(* A camera or stream lease that an activation holds is always in the hands
   of exactly what is going to release it, however the activation was
   superseded. *)
THEOREM NoLeaseIsLost == Spec => []EveryLeaseHasAnOwner
<1>1. LeaseInv => EveryLeaseHasAnOwner
  BY OwnersAgree DEF LeaseInv
<1> QED
  BY <1>1, Leases, PTL

(* Scope.drain releases in the reverse of the order of acquisition. *)
THEOREM LastInFirstOut == Spec => ReleasedLastInFirstOut
<1> DEFINE A == \A g \in Generations : \A r \in held[g] \ held'[g] :
                  \A q \in held[g] : q > r => q \in LateRelease(g)
<1>1. LifecycleInv /\ LeaseInv /\ [Next]_vars => [A]_vars
  <2> SUFFICES ASSUME LifecycleInv, LeaseInv, Next,
                      NEW g \in Generations, NEW r \in held[g] \ held'[g],
                      NEW q \in held[g], q > r
               PROVE  q \in LateRelease(g)
    OBVIOUS
  <2>1. held' # held
    OBVIOUS
  <2>2. PICK d \in Generations : RunCleanup(d) \/ LateReleased(d) \/ Acquired(d) \/ AcquiredLate(d)
    BY <2>1
    DEF Next, WindowStep, SubscribePassive, SubscribeFirst, SubscribeJoin, Unsubscribe,
        DrainForWindowSwitch, RunIdle, NoTask, WindowSwitchGranted, TaskStep,
        StartSuperseded, StartScope, AcquireFailed, ActivateComplete, Trailing,
        DrainFinished, IdleSettled, scopeVars
  <2>3. held \in [Generations -> SUBSET Resources]
    BY DEF LifecycleInv, TypeOK, TaskTypeOK
  <2>4. Owned(g, q)
    BY DEF LeaseInv, HeldIffOwned
  <2>5. CASE RunCleanup(d)
    <3>1. /\ target[d] = g /\ r = Head(batch[d])
          /\ batch[d] \in Seq(Resources) /\ batch[d] # <<>>
          /\ \A i, j \in 1 .. Len(batch[d]) : i < j => batch[d][i] > batch[d][j]
          /\ draining[g]
      <4>1. /\ batch[d] # <<>> /\ batch[d] \in Seq(Resources)
            /\ target[d] \in Generations /\ draining[target[d]]
        BY <2>5 DEF RunCleanup, LifecycleInv, TypeOK, TaskTypeOK, LeaseInv, BatchIsOfADrain
      <4>2. target[d] = g /\ r = Head(batch[d])
        BY <2>3, <2>5, <4>1 DEF RunCleanup
      <4> QED
        BY <4>1, <4>2 DEF LeaseInv, BatchesDescend
    <3>2. \A p \in Range(batch[d]) : p \in Resources /\ p <= r
      BY <3>1, TailOfDescending
    <3>3. q \notin Range(batch[d])
      BY <3>1, <3>2 DEF Resources
    <3>4. cleanups[g] = <<>>
      BY <3>1 DEF LifecycleInv, TypeOK, TaskTypeOK, DrainingIsSuperseded,
                  OnlyCurrentScopeRegisters, Generations
    <3>5. ASSUME NEW e \in Generations, target[e] = g, q \in Range(batch[e])
          PROVE  e = d
      BY <3>1, <3>5 DEF LeaseInv, OneDrainPerScope, Range
    <3> QED
      BY <2>4, <3>3, <3>4, <3>5 DEF Owned, LateRelease, Range
  <2>6. CASE LateReleased(d)
    <3>1. g = d /\ r = next[g] /\ pc[g] = "returning"
      BY <2>3, <2>6 DEF LateReleased
    <3>2. q \in Int /\ r \in Int
      BY <2>3, <3>1 DEF Resources
    <3>3. q <= next[g]
      BY <2>4, <3>1, <3>2 DEF Owned, LeaseInv, BelowNext
    <3> QED
      BY <3>1, <3>2, <3>3
  <2>7. CASE Acquired(d) \/ AcquiredLate(d)
    BY <2>3, <2>7 DEF Acquired, AcquiredLate
  <2> QED
    BY <2>2, <2>5, <2>6, <2>7
<1> QED
  BY <1>1, Lifecycle, Leases, PTL DEF Spec, ReleasedLastInFirstOut

-----------------------------------------------------------------------------
(* An idle session shows no progress, so an activation never inherits any. *)
ProgressInv ==
  /\ ProgressIsCurrent
  /\ activeSubscribers = {} => progress = 0 /\ activeMonitor = 0

(* The progress overlay belongs to the newest activation, whatever an older
   one still does. *)
THEOREM ProgressOfCurrent == Spec => []ProgressIsCurrent
<1>1. Init => ProgressInv
  BY DEF Init, ProgressInv, ProgressIsCurrent
<1>2. LifecycleInv /\ LifecycleInv' /\ ProgressInv /\ [Next]_vars => ProgressInv'
  <2> SUFFICES ASSUME LifecycleInv, LifecycleInv', ProgressInv, [Next]_vars
               PROVE  ProgressInv'
    OBVIOUS
  <2> USE DEF ProgressInv, ProgressIsCurrent, statusVars
  <2>1. ASSUME RunIdle
        PROVE  ProgressInv'
    BY <2>1 DEF RunIdle, OrphanMonitor
  <2>2. ASSUME NEW w \in Windows, SubscribePassive(w) \/ SubscribeJoin(w)
        PROVE  ProgressInv'
    BY <2>2 DEF SubscribePassive, SubscribeJoin, NoTask
  <2>3. ASSUME NEW w \in Windows, SubscribeFirst(w)
        PROVE  ProgressInv'
    BY <2>3 DEF SubscribeFirst
  <2>4. ASSUME NEW w \in Windows, NEW passive \in BOOLEAN, Unsubscribe(w, passive)
        PROVE  ProgressInv'
    <3>1. ~LastActive(w) => (activeSubscribers' = {} => activeSubscribers = {})
      BY <2>4 DEF Unsubscribe, LastActive
    <3> QED
      BY <2>1, <2>4, <3>1 DEF Unsubscribe, NoTask
  <2>5. CASE DrainForWindowSwitch
    BY <2>1, <2>5 DEF DrainForWindowSwitch, NoTask
  <2>6. CASE WindowSwitchGranted
    BY <2>6 DEF WindowSwitchGranted, subscriptionVars
  <2>7. ASSUME NEW g \in Generations, TaskStep(g)
        PROVE  ProgressInv'
    <3>1. CASE StartScope(g)
      <4>1. activeSubscribers' # {}
        BY <3>1 DEF StartScope, subscriptionVars, LifecycleInv, ActiveIffActivated,
                    ActivationPCs, Generations
      <4> QED
        BY <3>1, <4>1 DEF StartScope
    <3>2. CASE ~StartScope(g)
      <4>1. /\ UNCHANGED <<activeSubscribers, generation, activeMonitor>>
            /\ progress' \in {progress, 0}
        BY <2>7, <3>2
        DEF TaskStep, StartSuperseded, Acquired, AcquiredLate, LateReleased, AcquireFailed,
            ActivateComplete, Trailing, RunCleanup, DrainFinished, IdleSettled,
            subscriptionVars
      <4> QED
        BY <4>1
    <3> QED
      BY <3>1, <3>2
  <2>8. CASE UNCHANGED vars
    BY <2>8 DEF vars, subscriptionVars
  <2> QED
    BY <2>2, <2>3, <2>4, <2>5, <2>6, <2>7, <2>8 DEF Next, WindowStep
<1>3. ProgressInv => ProgressIsCurrent
  BY DEF ProgressInv
<1> QED
  BY <1>1, <1>2, <1>3, Lifecycle, PTL DEF Spec
=================================================================================
