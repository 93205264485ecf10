----------------------- MODULE Hardware_proofs -----------------------
(***************************************************************************)
(* Proofs about the orchestrator instances, for every number of instances  *)
(* and switches, whether or not disarming and sweeping may fail: the type  *)
(* invariant, that at most one process holds the hardware, and that no     *)
(* live instance is without its window; and, where disarming and sweeping  *)
(* do not fail, that the hardware is safe when it is granted.              *)
(***************************************************************************)
EXTENDS HardwareInstances, MirrorStreams,
        FiniteSetTheorems, SequenceTheorems, WellFoundedInduction, TLAPS

Phases == {"unborn", "live", "draining", "dead"}
Boxes == [Instances -> Seq(Messages)]

\* A message of this type waits in the mailbox.
Mentions(box, type) == \E n \in 1 .. Len(box) : box[n].type = type

\* Instances are forked in the order of their numbers.
BirthsInOrder(ph) ==
  \E k \in 0 .. MaxInstances : {i \in Instances : ph[i] # "unborn"} = 1 .. k

\* A process exists from the fork on, and main believes a death only after it.
ProcessesMatch ==
  \A i \in Instances :
    /\ phase[i] = "unborn" <=> proc[i] = "none"
    /\ phase[i] = "dead" => proc[i] = "gone"

\* Of two instances that were granted the hardware, one is dead.
ClearedOneByOne(ph, granted) ==
  /\ \A i \in granted : ph[i] # "unborn"
  /\ \A i, j \in granted : i # j => ph[i] = "dead" \/ ph[j] = "dead"

\* Only a granted instance is told so.
ToldWhenCleared(granted, box) ==
  \A i \in Instances : Mentions(box[i], "clear") => i \in granted

\* Only an instance that was told opens its gate, and only an open gate lets
\* it arm hardware.
GatesMatch == \A i \in Instances : (gate[i] => i \in cleared) /\ (i \in armed => gate[i])

InstancesInv ==
  /\ TypeOK
  /\ BirthsInOrder(phase)
  /\ ProcessesMatch
  /\ ClearedOneByOne(phase, cleared)
  /\ ToldWhenCleared(cleared, inbox)
  /\ GatesMatch
  /\ NoHeadlessInstance
-----------------------------------------------------------------------------
USE InstancesAssumption, FaultAssumption

(* Mailboxes.                                                               *)

LEMMA AppendedMail ==
  ASSUME NEW s \in Seq(Messages), NEW m \in Messages, NEW type
  PROVE  /\ Append(s, m) \in Seq(Messages)
         /\ Mentions(Append(s, m), type) => Mentions(s, type) \/ m.type = type
<1>1. Append(s, m) \in Seq(Messages) /\ Len(Append(s, m)) = Len(s) + 1
  OBVIOUS
<1>2. \A n \in 1 .. Len(s) + 1 :
        Append(s, m)[n] = IF n <= Len(s) THEN s[n] ELSE m
  OBVIOUS
<1>. QED BY <1>1, <1>2 DEF Mentions

LEMMA TakenMail ==
  ASSUME NEW s \in Seq(Messages), s # <<>>, NEW type
  PROVE  /\ Tail(s) \in Seq(Messages) /\ Head(s) \in Messages
         /\ Mentions(Tail(s), type) => Mentions(s, type)
         /\ Head(s).type = type => Mentions(s, type)
<1>1. Len(s) \in Nat \ {0} /\ Head(s) = s[1] /\ Len(Tail(s)) = Len(s) - 1
  OBVIOUS
<1>2. \A n \in 1 .. Len(s) - 1 : Tail(s)[n] = s[n + 1]
  OBVIOUS
<1>3. Tail(s) \in Seq(Messages) /\ Head(s) \in Messages
  BY <1>1
<1>. QED BY <1>1, <1>2, <1>3 DEF Mentions

LEMMA CutMail ==
  ASSUME NEW s \in Seq(Messages), NEW n \in 0 .. Len(s)
  PROVE  SubSeq(s, 1, n) \in Seq(Messages)
  OBVIOUS

LEMMA MessageTypes ==
  ASSUME NEW type \in Types, NEW id \in 0 .. MaxSwitches
  PROVE  Message(type, id) \in Messages /\ Message(type, id).type = type
  BY DEF Message, Messages

(* The registry's steps.                                                    *)

LEMMA Granting ==
  ASSUME NEW ph \in [Instances -> Phases], NEW safe, NEW box \in Boxes,
         cleared \subseteq Instances,
         ClearedOneByOne(ph, cleared), ToldWhenCleared(cleared, box),
         TryGrantHardware(ph, safe, box)
  PROVE  /\ cleared \subseteq cleared' /\ cleared' \subseteq Instances
         /\ inbox' \in Boxes
         /\ ClearedOneByOne(ph, cleared') /\ ToldWhenCleared(cleared', inbox')
<1>. DEFINE granted == Grantable(ph, safe)
            clear == Message("clear", 0)
<1>1. granted \subseteq Instances /\ cleared' = cleared \union granted
  BY DEF Grantable, TryGrantHardware
<1>2. clear \in Messages
  BY MessageTypes DEF Types
<1>3. inbox' = [i \in Instances |-> IF i \in granted THEN Append(box[i], clear) ELSE box[i]]
  BY DEF TryGrantHardware
<1>4. inbox' \in Boxes
  BY <1>2, <1>3, AppendedMail DEF Boxes
<1>5. \A i \in granted : \A o \in Instances \ {i} : ph[o] \in {"unborn", "dead"}
  BY DEF Grantable, Released
<1>6. \A i \in granted : ph[i] = "live"
  BY DEF Grantable
<1>7. ClearedOneByOne(ph, cleared')
  <2>1. \A i \in granted, j \in cleared : i # j => ph[j] = "dead"
    BY <1>5 DEF ClearedOneByOne
  <2>2. \A i, j \in granted : i = j
    BY <1>1, <1>5, <1>6
  <2>. QED BY <1>1, <1>6, <2>1, <2>2 DEF ClearedOneByOne
<1>8. ToldWhenCleared(cleared', inbox')
  <2>. SUFFICES ASSUME NEW i \in Instances, Mentions(inbox'[i], "clear")
                PROVE  i \in cleared'
    BY DEF ToldWhenCleared
  <2>1. CASE i \in granted
    BY <1>1, <2>1
  <2>2. CASE i \notin granted
    BY <1>1, <1>3, <2>2 DEF ToldWhenCleared
  <2>. QED BY <2>1, <2>2
<1>. QED BY <1>1, <1>4, <1>7, <1>8

LEMMA TearingDown ==
  ASSUME NEW S \in SUBSET Instances, NEW ph \in [Instances -> Phases], NEW box \in Boxes,
         NEW granted \in SUBSET Instances,
         ClearedOneByOne(ph, granted), ToldWhenCleared(granted, box)
  PROVE  /\ PhaseAfter(S, ph) \in [Instances -> Phases] /\ InboxAfter(S, ph, box) \in Boxes
         /\ ClearedOneByOne(PhaseAfter(S, ph), granted)
         /\ ToldWhenCleared(granted, InboxAfter(S, ph, box))
         /\ \A i \in Instances :
              /\ PhaseAfter(S, ph)[i] = "unborn" <=> ph[i] = "unborn"
              /\ PhaseAfter(S, ph)[i] = "dead" <=> ph[i] = "dead"
              /\ PhaseAfter(S, ph)[i] = "live" <=> ph[i] = "live" /\ i \notin S
              /\ PhaseAfter(S, ph)[i] = "draining"
                   <=> ph[i] = "draining" \/ i \in Ending(S, ph)
<1>. DEFINE shutdown == Message("shutdown", 0)
<1>1. shutdown \in Messages /\ shutdown.type = "shutdown"
  BY MessageTypes DEF Types
<1>2. \A i \in Instances : PhaseAfter(S, ph)[i] = IF i \in S /\ ph[i] = "live"
                                                  THEN "draining" ELSE ph[i]
  BY DEF PhaseAfter, Ending
<1>3. PhaseAfter(S, ph) \in [Instances -> Phases]
  BY DEF PhaseAfter, Phases
<1>4. \A i \in Instances :
        InboxAfter(S, ph, box)[i] = IF i \in Ending(S, ph) THEN Append(box[i], shutdown)
                                                           ELSE box[i]
  BY DEF InboxAfter
<1>5. InboxAfter(S, ph, box) \in Boxes
  BY <1>1, AppendedMail DEF InboxAfter, Boxes
<1>6. ClearedOneByOne(PhaseAfter(S, ph), granted)
  BY <1>2 DEF ClearedOneByOne
<1>7. ToldWhenCleared(granted, InboxAfter(S, ph, box))
  BY <1>1, <1>4, AppendedMail DEF ToldWhenCleared, Boxes
<1>. QED BY <1>2, <1>3, <1>5, <1>6, <1>7 DEF Ending, Phases

\* The next instance is the first unborn one.
LEMMA NextIsUnborn ==
  ASSUME NEW ph \in [Instances -> Phases], BirthsInOrder(ph),
         Born = {i \in Instances : ph[i] # "unborn"}, NextInstance \in Instances
  PROVE  /\ ph[NextInstance] = "unborn"
         /\ BirthsInOrder([ph EXCEPT ![NextInstance] = "live"])
<1>1. PICK k \in 0 .. MaxInstances : Born = 1 .. k
  BY DEF BirthsInOrder
<1>2. NextInstance = k + 1
  <2>1. 1 \in Int /\ k \in Int /\ k >= 0
    OBVIOUS
  <2>2. Cardinality(1 .. k) = IF 1 > k THEN 0 ELSE k - 1 + 1
    BY <2>1, FS_Interval
  <2>3. Cardinality(1 .. k) = k
    BY <2>1, <2>2
  <2>. QED BY <1>1, <2>3 DEF NextInstance
<1>3. ph[NextInstance] = "unborn"
  BY <1>1, <1>2
<1>4. k + 1 \in 0 .. MaxInstances
  BY <1>2 DEF Instances
<1>5. {i \in Instances : [ph EXCEPT ![NextInstance] = "live"][i] # "unborn"} = 1 .. k + 1
  BY <1>1, <1>2, <1>4 DEF Instances
<1>. QED BY <1>3, <1>4, <1>5 DEF BirthsInOrder

\* A fork, whatever phases and mailboxes the step before it left.
LEMMA Spawning ==
  ASSUME InstancesInv, NEW ph \in [Instances -> Phases], NEW box \in Boxes,
         \A i \in Instances : ph[i] = "unborn" <=> phase[i] = "unborn",
         \A i \in Instances : ph[i] = "dead" => proc[i] = "gone",
         \A i \in Instances : ph[i] = "live" => win[i] \in {"open", "closing"},
         ClearedOneByOne(ph, cleared), ToldWhenCleared(cleared, box),
         SpawnApp(ph, box)
  PROVE  /\ phase' \in [Instances -> Phases]
         /\ proc' \in [Instances -> {"none", "running", "quiescing", "acked", "exiting", "gone"}]
         /\ win' \in [Instances -> {"none", "open", "closing", "closed"}]
         /\ welcome' \in BOOLEAN /\ switch' \in 0 .. MaxInstances
         /\ cleared \subseteq cleared' /\ cleared' \subseteq Instances
         /\ inbox' \in Boxes
         /\ \A i \in Instances : ph[i] = "draining" => phase'[i] = "draining"
         /\ BirthsInOrder(phase') /\ ProcessesMatch'
         /\ ClearedOneByOne(phase', cleared') /\ ToldWhenCleared(cleared', inbox')
         /\ NoHeadlessInstance'
<1>. DEFINE n == NextInstance
            forked == [ph EXCEPT ![n] = "live"]
<1>1. n \in Instances /\ phase' = forked /\ proc' = [proc EXCEPT ![n] = "running"]
  BY DEF SpawnApp
<1>2. Born = {i \in Instances : ph[i] # "unborn"}
  BY DEF Born
<1>3. BirthsInOrder(ph)
  BY <1>2 DEF InstancesInv, BirthsInOrder, Born
<1>4. ph[n] = "unborn" /\ BirthsInOrder(forked)
  BY <1>1, <1>2, <1>3, NextIsUnborn
<1>5. forked \in [Instances -> Phases]
  BY DEF Phases
<1>6. \A i \in Instances : forked[i] = IF i = n THEN "live" ELSE ph[i]
  OBVIOUS
<1>7. ClearedOneByOne(forked, cleared)
  BY <1>4, <1>6 DEF ClearedOneByOne, InstancesInv, TypeOK
<1>8. TryGrantHardware(forked, quiesced \union janitorDone, box)
  BY DEF SpawnApp
<1>9. /\ cleared \subseteq cleared' /\ cleared' \subseteq Instances /\ inbox' \in Boxes
      /\ ClearedOneByOne(forked, cleared') /\ ToldWhenCleared(cleared', inbox')
  <2>1. cleared \subseteq Instances
    BY DEF InstancesInv, TypeOK
  <2>. HIDE DEF forked
  <2>. QED BY <1>5, <1>7, <1>8, <2>1, Granting
<1>10. ProcessesMatch'
  BY <1>1, <1>4, <1>6 DEF InstancesInv, ProcessesMatch, TypeOK
<1>11. /\ proc' \in [Instances -> {"none", "running", "quiescing", "acked", "exiting", "gone"}]
       /\ win' \in [Instances -> {"none", "open", "closing", "closed"}]
       /\ welcome' \in BOOLEAN /\ switch' \in 0 .. MaxInstances
  <2>1. proc' \in [Instances -> {"none", "running", "quiescing", "acked", "exiting", "gone"}]
    BY <1>1 DEF InstancesInv, TypeOK
  <2>2. win' \in [Instances -> {"none", "open", "closing", "closed"}]
    BY DEF InstancesInv, TypeOK, SpawnApp
  <2>3. welcome' \in BOOLEAN
    BY DEF SpawnApp
  <2>4. switch' \in 0 .. MaxInstances
    BY DEF SpawnApp
  <2>. QED BY <2>1, <2>2, <2>3, <2>4
<1>12. NoHeadlessInstance'
  BY <1>1, <1>6 DEF NoHeadlessInstance, SpawnApp
<1>13. \A i \in Instances : ph[i] = "draining" => phase'[i] = "draining"
  BY <1>1, <1>4, <1>6
<1>. HIDE DEF forked
<1>. QED BY <1>1, <1>4, <1>5, <1>9, <1>10, <1>11, <1>12, <1>13
-----------------------------------------------------------------------------
(* The steps that move no instance along in the registry and grant nothing  *)
(* need to keep the types, the mailboxes and the gates only.                *)

LEMMA RegistryUntouched ==
  ASSUME InstancesInv, TypeOK', phase' = phase, cleared' = cleared, win' = win,
         \A i \in Instances : Mentions(inbox'[i], "clear") => Mentions(inbox[i], "clear"),
         \A i \in Instances : proc[i] = "none" <=> proc'[i] = "none",
         \A i \in Instances : proc[i] = "gone" => proc'[i] = "gone",
         GatesMatch'
  PROVE  InstancesInv'
<1>1. ProcessesMatch'
  BY DEF InstancesInv, ProcessesMatch
<1>2. ToldWhenCleared(cleared', inbox')
  BY DEF InstancesInv, ToldWhenCleared
<1>3. BirthsInOrder(phase') /\ ClearedOneByOne(phase', cleared') /\ NoHeadlessInstance'
  BY DEF InstancesInv, BirthsInOrder, ClearedOneByOne, NoHeadlessInstance
<1>. QED BY <1>1, <1>2, <1>3 DEF InstancesInv

\* The next message of an outbox is taken, and leaves the rest.
LEMMA Receiving ==
  ASSUME TypeOK, NEW i \in Instances, NEW type, FromInstance(i, type), Received(i)
  PROVE  outbox' \in [Instances -> Seq(Messages)]
<1>1. outbox[i] \in Seq(Messages) /\ outbox[i] # <<>>
  BY DEF TypeOK, FromInstance
<1>2. Tail(outbox[i]) \in Seq(Messages)
  BY <1>1, TakenMail
<1>. QED BY <1>2 DEF TypeOK, Received

\* The next message of an inbox is taken.
LEMMA Handling ==
  ASSUME TypeOK, NEW i \in Instances, NEW type, ToProcess(i, type), Handled(i)
  PROVE  /\ inbox' \in [Instances -> Seq(Messages)]
         /\ Head(inbox[i]) \in Messages
         /\ Mentions(inbox[i], type)
         /\ \A j \in Instances : Mentions(inbox'[j], "clear") => Mentions(inbox[j], "clear")
<1>1. inbox[i] \in Seq(Messages) /\ inbox[i] # <<>> /\ Head(inbox[i]).type = type
  BY DEF TypeOK, ToProcess
<1>2. /\ Tail(inbox[i]) \in Seq(Messages) /\ Head(inbox[i]) \in Messages
      /\ Mentions(inbox[i], type)
      /\ Mentions(Tail(inbox[i]), "clear") => Mentions(inbox[i], "clear")
  BY <1>1, TakenMail
<1>3. \A j \in Instances : inbox'[j] = IF j = i THEN Tail(inbox[i]) ELSE inbox[j]
  BY DEF TypeOK, Handled
<1>. QED BY <1>2, <1>3 DEF TypeOK, Handled

LEMMA Answering ==
  ASSUME TypeOK, NEW i \in Instances, NEW type \in Types, NEW id \in 0 .. MaxSwitches,
         Answer(i, type, id)
  PROVE  outbox' \in [Instances -> Seq(Messages)]
<1>1. outbox[i] \in Seq(Messages) /\ Message(type, id) \in Messages
  BY MessageTypes DEF TypeOK
<1>2. Append(outbox[i], Message(type, id)) \in Seq(Messages)
  BY <1>1, AppendedMail
<1>. QED BY <1>2 DEF TypeOK, Answer

LEMMA Dying ==
  ASSUME InstancesInv, NEW i \in Instances, Alive(i), Dies(i)
  PROVE  /\ proc' \in [Instances -> {"none", "running", "quiescing", "acked", "exiting", "gone"}]
         /\ outbox' \in [Instances -> Seq(Messages)]
         /\ \A j \in Instances : proc[j] = "none" <=> proc'[j] = "none"
         /\ \A j \in Instances : proc[j] = "gone" => proc'[j] = "gone"
<1>1. proc' = [proc EXCEPT ![i] = "gone"] /\ proc[i] # "none"
  BY DEF Dies, Alive
<1>2. PICK n \in 0 .. Len(outbox[i]) : outbox' = [outbox EXCEPT ![i] = SubSeq(@, 1, n)]
  BY DEF Dies
<1>3. outbox[i] \in Seq(Messages)
  BY DEF InstancesInv, TypeOK
<1>4. SubSeq(outbox[i], 1, n) \in Seq(Messages)
  BY <1>3, CutMail
<1>. QED BY <1>1, <1>2, <1>4 DEF InstancesInv, TypeOK
-----------------------------------------------------------------------------
(* The steps of the windows and of the registry.                            *)

LEMMA WindowSteps ==
  ASSUME InstancesInv, NEW i \in Instances,
         \/ OpenApp \/ SwitchGranted(i) \/ DrainTimesOut \/ StartSwitch(i)
         \/ SwitchRefused(i) \/ StaleAnswer(i) \/ WindowClosed(i)
  PROVE  InstancesInv'
<1>. USE DEF InstancesInv
<1>1. CASE OpenApp
  <2>1. phase \in [Instances -> Phases] /\ inbox \in Boxes
    BY DEF TypeOK, Phases, Boxes
  <2>2. SpawnApp(phase, inbox)
    BY <1>1 DEF OpenApp
  <2>3. /\ TypeOK /\ ProcessesMatch /\ NoHeadlessInstance
        /\ ClearedOneByOne(phase, cleared) /\ ToldWhenCleared(cleared, inbox)
    OBVIOUS
  <2>. HIDE DEF InstancesInv
  <2>4. /\ phase' \in [Instances -> Phases]
        /\ proc' \in [Instances -> {"none", "running", "quiescing", "acked", "exiting", "gone"}]
        /\ win' \in [Instances -> {"none", "open", "closing", "closed"}]
        /\ welcome' \in BOOLEAN /\ switch' \in 0 .. MaxInstances
        /\ cleared \subseteq cleared' /\ cleared' \subseteq Instances /\ inbox' \in Boxes
        /\ \A j \in Instances : phase[j] = "draining" => phase'[j] = "draining"
        /\ BirthsInOrder(phase') /\ ProcessesMatch'
        /\ ClearedOneByOne(phase', cleared') /\ ToldWhenCleared(cleared', inbox')
        /\ NoHeadlessInstance'
    BY <2>1, <2>2, <2>3, Spawning DEF ProcessesMatch, NoHeadlessInstance
  <2>5. TypeOK'
    BY <1>1, <2>4 DEF InstancesInv, TypeOK, OpenApp, sweepVars, Phases, Boxes
  <2>6. GatesMatch'
    BY <1>1, <2>4 DEF InstancesInv, GatesMatch, OpenApp
  <2>. QED BY <2>4, <2>5, <2>6 DEF InstancesInv
<1>2. CASE SwitchGranted(i)
  <2>. DEFINE ph == PhaseAfter(Outgoing(i), phase)
              box == InboxAfter(Outgoing(i), phase, inbox)
  <2>1. /\ phase \in [Instances -> Phases] /\ inbox \in Boxes
        /\ Outgoing(i) \in SUBSET Instances /\ cleared \in SUBSET Instances
    BY DEF TypeOK, Phases, Boxes, Outgoing
  <2>2. /\ ph \in [Instances -> Phases] /\ box \in Boxes
        /\ ClearedOneByOne(ph, cleared) /\ ToldWhenCleared(cleared, box)
        /\ \A j \in Instances :
             /\ ph[j] = "unborn" <=> phase[j] = "unborn"
             /\ ph[j] = "dead" <=> phase[j] = "dead"
             /\ ph[j] = "live" <=> phase[j] = "live" /\ j \notin Outgoing(i)
             /\ ph[j] = "draining" <=> phase[j] = "draining" \/ j \in Ending(Outgoing(i), phase)
    BY <2>1, TearingDown
  <2>3. SpawnApp(ph, box)
    BY <1>2 DEF SwitchGranted
  <2>4. InstancesInv /\ ProcessesMatch /\ NoHeadlessInstance
    OBVIOUS
  <2>. HIDE DEF InstancesInv, ph, box
  <2>5. /\ phase' \in [Instances -> Phases]
        /\ proc' \in [Instances -> {"none", "running", "quiescing", "acked", "exiting", "gone"}]
        /\ win' \in [Instances -> {"none", "open", "closing", "closed"}]
        /\ welcome' \in BOOLEAN /\ switch' \in 0 .. MaxInstances
        /\ cleared \subseteq cleared' /\ cleared' \subseteq Instances /\ inbox' \in Boxes
        /\ \A j \in Instances : ph[j] = "draining" => phase'[j] = "draining"
        /\ BirthsInOrder(phase') /\ ProcessesMatch'
        /\ ClearedOneByOne(phase', cleared') /\ ToldWhenCleared(cleared', inbox')
        /\ NoHeadlessInstance'
    BY <2>2, <2>3, <2>4, Spawning DEF ProcessesMatch, NoHeadlessInstance
  <2>6. outbox' \in [Instances -> Seq(Messages)]
    BY <1>2, <2>4, Receiving DEF InstancesInv, SwitchGranted
  <2>7. drainTimer' \subseteq {j \in Instances : phase'[j] = "draining"}
    <3>1. drainTimer' = drainTimer \union Ending(Outgoing(i), phase)
      BY <1>2 DEF SwitchGranted
    <3>2. drainTimer \subseteq {j \in Instances : phase[j] = "draining"}
      BY DEF InstancesInv, TypeOK
    <3>3. Ending(Outgoing(i), phase) \subseteq Instances
      BY <2>1 DEF Ending
    <3>. QED BY <2>2, <2>5, <3>1, <3>2, <3>3
  <2>8. TypeOK'
    BY <1>2, <2>5, <2>6, <2>7 DEF InstancesInv, TypeOK, SwitchGranted, sweepVars, Phases, Boxes
  <2>9. GatesMatch'
    BY <1>2, <2>5 DEF InstancesInv, GatesMatch, SwitchGranted
  <2>. QED BY <2>5, <2>8, <2>9 DEF InstancesInv
<1>3. CASE DrainTimesOut
  <2>1. TypeOK' /\ GatesMatch'
    BY <1>3 DEF TypeOK, GatesMatch, DrainTimesOut, registryVars, procVars, sweepVars
  <2>. QED BY <1>3, <2>1, RegistryUntouched DEF DrainTimesOut, registryVars, procVars
<1>4. CASE StartSwitch(i)
  <2>. DEFINE drain == Message("drain", drainSeq + 1)
  <2>1. inbox[i] \in Seq(Messages) /\ drain \in Messages /\ drain.type = "drain"
    BY <1>4, MessageTypes DEF TypeOK, StartSwitch, Types
  <2>2. inbox' = [inbox EXCEPT ![i] = Append(@, drain)]
    BY <1>4 DEF StartSwitch
  <2>3. /\ Append(inbox[i], drain) \in Seq(Messages)
        /\ Mentions(Append(inbox[i], drain), "clear") => Mentions(inbox[i], "clear")
    BY <2>1, AppendedMail
  <2>. HIDE DEF drain
  <2>4. /\ inbox' \in [Instances -> Seq(Messages)]
        /\ \A j \in Instances : Mentions(inbox'[j], "clear") => Mentions(inbox[j], "clear")
    BY <2>2, <2>3 DEF TypeOK
  <2>5. TypeOK'
    <3>1. switch' = i /\ drainSeq' = drainSeq + 1 /\ drainSeq < MaxSwitches
      BY <1>4 DEF StartSwitch
    <3>2. drainSeq \in 0 .. MaxSwitches
      BY DEF TypeOK
    <3>3. switch' \in 0 .. MaxInstances /\ drainSeq' \in 0 .. MaxSwitches
      BY <3>1, <3>2 DEF Instances
    <3>. QED BY <1>4, <2>4, <3>3 DEF TypeOK, StartSwitch, registryVars, procVars, sweepVars
  <2>6. GatesMatch'
    BY <1>4 DEF GatesMatch, StartSwitch, registryVars, procVars
  <2>. QED BY <1>4, <2>4, <2>5, <2>6, RegistryUntouched DEF StartSwitch, registryVars, procVars
<1>5. CASE SwitchRefused(i)
  <2>1. outbox' \in [Instances -> Seq(Messages)]
    BY <1>5, Receiving DEF SwitchRefused
  <2>2. TypeOK' /\ GatesMatch'
    BY <1>5, <2>1 DEF TypeOK, GatesMatch, SwitchRefused, registryVars, sweepVars
  <2>. QED BY <1>5, <2>2, RegistryUntouched DEF SwitchRefused, registryVars
<1>6. CASE StaleAnswer(i)
  <2>1. outbox' \in [Instances -> Seq(Messages)]
    BY <1>6, Receiving DEF StaleAnswer
  <2>2. TypeOK' /\ GatesMatch'
    BY <1>6, <2>1 DEF TypeOK, GatesMatch, StaleAnswer, registryVars, windowVars, sweepVars
  <2>. QED BY <1>6, <2>2, RegistryUntouched DEF StaleAnswer, registryVars, windowVars
<1>7. CASE WindowClosed(i)
  <2>1. /\ phase \in [Instances -> Phases] /\ inbox \in Boxes
        /\ Ownerless(i) \in SUBSET Instances /\ cleared \in SUBSET Instances
    BY DEF TypeOK, Phases, Boxes, Ownerless
  <2>2. /\ phase' = PhaseAfter(Ownerless(i), phase)
        /\ inbox' = InboxAfter(Ownerless(i), phase, inbox)
        /\ drainTimer' = drainTimer \union Ending(Ownerless(i), phase)
    BY <1>7 DEF WindowClosed, Teardown
  <2>3. /\ phase' \in [Instances -> Phases] /\ inbox' \in Boxes
        /\ ClearedOneByOne(phase', cleared) /\ ToldWhenCleared(cleared, inbox')
        /\ \A j \in Instances :
             /\ phase'[j] = "unborn" <=> phase[j] = "unborn"
             /\ phase'[j] = "dead" <=> phase[j] = "dead"
             /\ phase'[j] = "live" <=> phase[j] = "live" /\ j \notin Ownerless(i)
             /\ phase'[j] = "draining"
                  <=> phase[j] = "draining" \/ j \in Ending(Ownerless(i), phase)
    BY <2>1, <2>2, TearingDown
  <2>4. drainTimer' \subseteq {j \in Instances : phase'[j] = "draining"}
    <3>1. Ending(Ownerless(i), phase) \subseteq Instances
      BY <2>1 DEF Ending
    <3>. QED BY <2>2, <2>3, <3>1 DEF TypeOK
  <2>5. TypeOK'
    BY <1>7, <2>3, <2>4 DEF TypeOK, WindowClosed, procVars, sweepVars, Phases, Boxes
  <2>6. ProcessesMatch' /\ BirthsInOrder(phase') /\ GatesMatch'
    BY <1>7, <2>3
       DEF ProcessesMatch, BirthsInOrder, GatesMatch, WindowClosed, procVars
  <2>7. NoHeadlessInstance'
    BY <1>7, <2>3 DEF NoHeadlessInstance, WindowClosed, Ownerless, TypeOK
  <2>8. cleared' = cleared
    BY <1>7 DEF WindowClosed
  <2>. QED BY <2>3, <2>5, <2>6, <2>7, <2>8
<1>. QED BY <1>1, <1>2, <1>3, <1>4, <1>5, <1>6, <1>7

(* The end of an instance as main sees it, and the end of main.             *)

LEMMA EndingSteps ==
  ASSUME InstancesInv, NEW i \in Instances,
         \/ OnAck(i) \/ QuiesceDeadline(i) \/ OnExit(i) \/ JanitorSweeps \/ JanitorExits
  PROVE  InstancesInv'
<1>. USE DEF InstancesInv
<1>1. CASE OnAck(i)
  <2>1. outbox' \in [Instances -> Seq(Messages)]
    BY <1>1, Receiving DEF OnAck
  <2>2. TypeOK' /\ GatesMatch'
    BY <1>1, <2>1 DEF TypeOK, GatesMatch, OnAck, windowVars, sweepVars
  <2>. QED BY <1>1, <2>2, RegistryUntouched DEF OnAck, windowVars
<1>2. CASE QuiesceDeadline(i)
  <2>1. TypeOK' /\ GatesMatch'
    BY <1>2 DEF TypeOK, GatesMatch, QuiesceDeadline, windowVars, sweepVars
  <2>. QED BY <1>2, <2>1, RegistryUntouched DEF QuiesceDeadline, windowVars
<1>3. CASE OnExit(i)
  <2>. DEFINE dead == [phase EXCEPT ![i] = "dead"]
  <2>1. proc[i] = "gone" /\ phase[i] # "dead" /\ phase[i] # "unborn"
    BY <1>3 DEF OnExit, ProcessesMatch
  <2>2. /\ dead \in [Instances -> Phases] /\ inbox \in Boxes /\ cleared \in SUBSET Instances
        /\ \A j \in Instances : dead[j] = IF j = i THEN "dead" ELSE phase[j]
    BY DEF TypeOK, Phases, Boxes
  <2>3. /\ \A j \in Instances : dead[j] = "unborn" <=> phase[j] = "unborn"
        /\ \A j \in Instances : dead[j] = "dead" => proc[j] = "gone"
        /\ \A j \in Instances : dead[j] = "live" => win[j] \in {"open", "closing"}
        /\ ClearedOneByOne(dead, cleared) /\ ToldWhenCleared(cleared, inbox)
    BY <2>1, <2>2 DEF ProcessesMatch, NoHeadlessInstance, ClearedOneByOne
  <2>4. InstancesInv
    OBVIOUS
  <2>5. drainTimer' \subseteq {j \in Instances : dead[j] = "draining"}
    BY <1>3, <2>2 DEF OnExit, TimersAfterExit, TypeOK
  <2>6. /\ joined' \subseteq Instances /\ late' \subseteq Instances /\ failed' \subseteq Instances
        /\ janitor' \in {"idle", "started", "swept"}
    BY <1>3 DEF OnExit, TypeOK, sweepVars
  <2>7. /\ quiesced' = quiesced /\ janitorDone' = janitorDone /\ main' = main
        /\ drainSeq' = drainSeq /\ gate' = gate /\ outbox' = outbox /\ term' = term
        /\ armed' = armed
    BY <1>3 DEF OnExit
  <2>8. \/ SpawnApp(dead, inbox)
        \/ /\ phase' = dead
           /\ TryGrantHardware(dead, quiesced \union janitorDone, inbox)
           /\ proc' = proc /\ win' = win /\ welcome' = welcome /\ switch' = switch
    BY <1>3 DEF OnExit
  <2>. HIDE DEF InstancesInv, dead
  <2>9. /\ phase' \in [Instances -> Phases]
        /\ proc' \in [Instances -> {"none", "running", "quiescing", "acked", "exiting", "gone"}]
        /\ win' \in [Instances -> {"none", "open", "closing", "closed"}]
        /\ welcome' \in BOOLEAN /\ switch' \in 0 .. MaxInstances
        /\ cleared \subseteq cleared' /\ cleared' \subseteq Instances /\ inbox' \in Boxes
        /\ \A j \in Instances : dead[j] = "draining" => phase'[j] = "draining"
        /\ BirthsInOrder(phase') /\ ProcessesMatch'
        /\ ClearedOneByOne(phase', cleared') /\ ToldWhenCleared(cleared', inbox')
        /\ NoHeadlessInstance'
    <3>1. CASE SpawnApp(dead, inbox)
      BY <2>2, <2>3, <2>4, <3>1, Spawning
    <3>2. CASE /\ phase' = dead
               /\ TryGrantHardware(dead, quiesced \union janitorDone, inbox)
               /\ proc' = proc /\ win' = win /\ welcome' = welcome /\ switch' = switch
      <4>1. /\ cleared \subseteq cleared' /\ cleared' \subseteq Instances /\ inbox' \in Boxes
            /\ ClearedOneByOne(dead, cleared') /\ ToldWhenCleared(cleared', inbox')
        BY <2>2, <2>3, <3>2, Granting
      <4>2. BirthsInOrder(phase') /\ ProcessesMatch' /\ NoHeadlessInstance'
        BY <2>3, <2>4, <3>2
           DEF InstancesInv, BirthsInOrder, ProcessesMatch, NoHeadlessInstance
      <4>3. /\ proc' \in [Instances -> {"none", "running", "quiescing", "acked", "exiting", "gone"}]
            /\ win' \in [Instances -> {"none", "open", "closing", "closed"}]
            /\ welcome' \in BOOLEAN /\ switch' \in 0 .. MaxInstances
        BY <2>4, <3>2 DEF InstancesInv, TypeOK
      <4>. QED BY <2>2, <3>2, <4>1, <4>2, <4>3
    <3>. QED BY <2>8, <3>1, <3>2
  <2>10. drainTimer' \subseteq {j \in Instances : phase'[j] = "draining"}
    BY <2>5, <2>9
  <2>11. TypeOK'
    BY <2>4, <2>6, <2>7, <2>9, <2>10 DEF InstancesInv, TypeOK, Phases, Boxes
  <2>12. GatesMatch'
    BY <2>4, <2>7, <2>9 DEF InstancesInv, GatesMatch
  <2>. QED BY <2>9, <2>11, <2>12 DEF InstancesInv
<1>4. CASE JanitorSweeps
  <2>1. TypeOK' /\ GatesMatch'
    BY <1>4 DEF TypeOK, GatesMatch, JanitorSweeps, registryVars, windowVars, procVars
  <2>. QED BY <1>4, <2>1, RegistryUntouched DEF JanitorSweeps, registryVars, windowVars, procVars
<1>5. CASE JanitorExits
  <2>1. phase \in [Instances -> Phases] /\ inbox \in Boxes /\ cleared \subseteq Instances
    BY DEF TypeOK, Phases, Boxes
  <2>2. TryGrantHardware(phase, quiesced \union janitorDone \union joined, inbox)
    BY <1>5 DEF JanitorExits
  <2>3. /\ cleared \subseteq cleared' /\ cleared' \subseteq Instances /\ inbox' \in Boxes
        /\ ClearedOneByOne(phase, cleared') /\ ToldWhenCleared(cleared', inbox')
    BY <2>1, <2>2, Granting
  <2>4. TypeOK'
    BY <1>5, <2>3 DEF TypeOK, JanitorExits, windowVars, procVars, Boxes
  <2>5. /\ BirthsInOrder(phase') /\ ProcessesMatch' /\ NoHeadlessInstance' /\ GatesMatch'
        /\ ClearedOneByOne(phase', cleared')
    BY <1>5, <2>3 DEF BirthsInOrder, ProcessesMatch, NoHeadlessInstance, GatesMatch,
                      ClearedOneByOne, JanitorExits, windowVars, procVars
  <2>. QED BY <2>3, <2>4, <2>5
<1>. QED BY <1>1, <1>2, <1>3, <1>4, <1>5

LEMMA MainSteps ==
  ASSUME InstancesInv,
         \/ Quit \/ QuitTeardown \/ QuitExits \/ QuitLapses \/ MainCrashes \/ WatchdogSweeps
  PROVE  InstancesInv'
<1>. USE DEF InstancesInv
<1>1. CASE Quit
  <2>1. TypeOK'
    BY <1>1 DEF TypeOK, Quit, registryVars, procVars, sweepVars
  <2>2. ProcessesMatch' /\ BirthsInOrder(phase') /\ GatesMatch'
    BY <1>1 DEF ProcessesMatch, BirthsInOrder, GatesMatch, Quit, registryVars, procVars
  <2>3. ClearedOneByOne(phase', cleared') /\ ToldWhenCleared(cleared', inbox')
    BY <1>1 DEF Quit, registryVars
  <2>4. NoHeadlessInstance'
    BY <1>1 DEF NoHeadlessInstance, Quit, registryVars, TypeOK
  <2>. QED BY <2>1, <2>2, <2>3, <2>4
<1>2. CASE QuitTeardown
  <2>1. phase \in [Instances -> Phases] /\ inbox \in Boxes /\ cleared \in SUBSET Instances
    BY DEF TypeOK, Phases, Boxes
  <2>2. /\ phase' = PhaseAfter(Instances, phase) /\ inbox' = InboxAfter(Instances, phase, inbox)
        /\ drainTimer' = drainTimer \union Ending(Instances, phase)
    BY <1>2 DEF QuitTeardown, Teardown
  <2>3. /\ phase' \in [Instances -> Phases] /\ inbox' \in Boxes
        /\ ClearedOneByOne(phase', cleared) /\ ToldWhenCleared(cleared, inbox')
        /\ \A j \in Instances :
             /\ phase'[j] = "unborn" <=> phase[j] = "unborn"
             /\ phase'[j] = "dead" <=> phase[j] = "dead"
             /\ phase'[j] # "live"
             /\ phase'[j] = "draining"
                  <=> phase[j] = "draining" \/ j \in Ending(Instances, phase)
    BY <2>1, <2>2, TearingDown
  <2>4. drainTimer' \subseteq {j \in Instances : phase'[j] = "draining"}
    <3>1. Ending(Instances, phase) \subseteq Instances
      BY DEF Ending
    <3>. QED BY <2>2, <2>3, <3>1 DEF TypeOK
  <2>5. TypeOK'
    BY <1>2, <2>3, <2>4 DEF TypeOK, QuitTeardown, procVars, sweepVars, Phases, Boxes
  <2>6. ProcessesMatch' /\ BirthsInOrder(phase') /\ GatesMatch' /\ NoHeadlessInstance'
    BY <1>2, <2>3 DEF ProcessesMatch, BirthsInOrder, GatesMatch, NoHeadlessInstance,
                      QuitTeardown, procVars
  <2>7. cleared' = cleared
    BY <1>2 DEF QuitTeardown
  <2>. QED BY <2>3, <2>5, <2>6, <2>7
<1>3. ASSUME NEW how \in {"quit", "lapsed", "crashed"}, MainGone(how)
      PROVE  InstancesInv'
  <2>1. TypeOK' /\ GatesMatch'
    BY <1>3 DEF TypeOK, GatesMatch, MainGone, registryVars
  <2>2. /\ \A i \in Instances : proc[i] = "none" <=> proc'[i] = "none"
        /\ \A i \in Instances : proc[i] = "gone" => proc'[i] = "gone"
    BY <1>3 DEF MainGone, TypeOK
  <2>. QED BY <1>3, <2>1, <2>2, RegistryUntouched DEF MainGone, registryVars
<1>4. CASE WatchdogSweeps
  <2>1. TypeOK' /\ GatesMatch'
    BY <1>4 DEF TypeOK, GatesMatch, WatchdogSweeps, registryVars, windowVars, procVars, sweepVars
  <2>. QED BY <1>4, <2>1, RegistryUntouched DEF WatchdogSweeps, registryVars, windowVars, procVars
<1>. QED BY <1>1, <1>2, <1>3, <1>4 DEF QuitExits, QuitLapses, MainCrashes

(* The steps of an orchestrator process.                                    *)

LEMMA ProcessSteps ==
  ASSUME InstancesInv, NEW i \in Instances,
         \/ FromMain(i) \/ Arm(i) \/ QuiesceEnds(i) \/ Uncaught(i) \/ HandleTerm(i)
         \/ ColdExit(i) \/ Crash(i)
  PROVE  InstancesInv'
<1>. USE DEF InstancesInv
<1>1. CASE HandleClear(i)
  <2>1. /\ inbox' \in [Instances -> Seq(Messages)] /\ Mentions(inbox[i], "clear")
        /\ \A j \in Instances : Mentions(inbox'[j], "clear") => Mentions(inbox[j], "clear")
    BY <1>1, Handling DEF HandleClear
  <2>2. i \in cleared
    BY <2>1 DEF ToldWhenCleared
  <2>3. TypeOK' /\ GatesMatch'
    BY <1>1, <2>1, <2>2
       DEF TypeOK, GatesMatch, HandleClear, registryVars, windowVars, sweepVars
  <2>. QED BY <1>1, <2>1, <2>3, RegistryUntouched DEF HandleClear, registryVars, windowVars
<1>2. CASE HandleDrain(i)
  <2>1. /\ inbox' \in [Instances -> Seq(Messages)] /\ Head(inbox[i]) \in Messages
        /\ \A j \in Instances : Mentions(inbox'[j], "clear") => Mentions(inbox[j], "clear")
    BY <1>2, Handling DEF HandleDrain
  <2>2. outbox' \in [Instances -> Seq(Messages)]
    <3>1. PICK answer \in {"drained", "busy"} : Answer(i, answer, Head(inbox[i]).id)
      BY <1>2 DEF HandleDrain
    <3>2. answer \in Types /\ Head(inbox[i]).id \in 0 .. MaxSwitches
      BY <2>1 DEF Messages, Types
    <3>. QED BY <3>1, <3>2, Answering
  <2>3. TypeOK' /\ GatesMatch'
    BY <1>2, <2>1, <2>2
       DEF TypeOK, GatesMatch, HandleDrain, registryVars, windowVars, sweepVars
  <2>. QED BY <1>2, <2>1, <2>3, RegistryUntouched DEF HandleDrain, registryVars, windowVars
<1>3. CASE HandleShutdown(i)
  <2>1. /\ inbox' \in [Instances -> Seq(Messages)]
        /\ \A j \in Instances : Mentions(inbox'[j], "clear") => Mentions(inbox[j], "clear")
    BY <1>3, Handling DEF HandleShutdown
  <2>2. TypeOK' /\ GatesMatch'
    BY <1>3, <2>1
       DEF TypeOK, GatesMatch, HandleShutdown, registryVars, windowVars, sweepVars
  <2>3. /\ \A j \in Instances : proc[j] = "none" <=> proc'[j] = "none"
        /\ \A j \in Instances : proc[j] = "gone" => proc'[j] = "gone"
    BY <1>3 DEF HandleShutdown, TypeOK
  <2>. QED BY <1>3, <2>1, <2>2, <2>3, RegistryUntouched DEF HandleShutdown, registryVars, windowVars
<1>4. CASE Arm(i)
  <2>1. TypeOK' /\ GatesMatch'
    BY <1>4 DEF TypeOK, GatesMatch, Arm, MayAcquire, registryVars, windowVars, procVars, sweepVars
  <2>. QED BY <1>4, <2>1, RegistryUntouched DEF Arm, registryVars, windowVars, procVars
<1>5. CASE QuiesceEnds(i)
  <2>1. outbox' \in [Instances -> Seq(Messages)]
    BY <1>5, Answering DEF QuiesceEnds, Types
  <2>2. armed' \subseteq armed
    BY <1>5 DEF QuiesceEnds, ArmedAfterQuiesce
  <2>3. TypeOK' /\ GatesMatch'
    BY <1>5, <2>1, <2>2
       DEF TypeOK, GatesMatch, QuiesceEnds, registryVars, windowVars, sweepVars
  <2>4. /\ \A j \in Instances : proc[j] = "none" <=> proc'[j] = "none"
        /\ \A j \in Instances : proc[j] = "gone" => proc'[j] = "gone"
    BY <1>5 DEF QuiesceEnds, TypeOK
  <2>. QED BY <1>5, <2>3, <2>4, RegistryUntouched DEF QuiesceEnds, registryVars, windowVars
<1>6. CASE Uncaught(i)
  <2>1. TypeOK' /\ GatesMatch'
    BY <1>6 DEF TypeOK, GatesMatch, Uncaught, registryVars, windowVars, sweepVars
  <2>2. /\ \A j \in Instances : proc[j] = "none" <=> proc'[j] = "none"
        /\ \A j \in Instances : proc[j] = "gone" => proc'[j] = "gone"
    BY <1>6 DEF Uncaught, TypeOK
  <2>. QED BY <1>6, <2>1, <2>2, RegistryUntouched DEF Uncaught, registryVars, windowVars
<1>7. CASE HandleTerm(i)
  <2>1. /\ proc' \in [Instances -> {"none", "running", "quiescing", "acked", "exiting", "gone"}]
        /\ outbox' \in [Instances -> Seq(Messages)]
        /\ \A j \in Instances : proc[j] = "none" <=> proc'[j] = "none"
        /\ \A j \in Instances : proc[j] = "gone" => proc'[j] = "gone"
    <3>1. CASE proc[i] = "running"
      BY <1>7, <3>1 DEF HandleTerm, TypeOK
    <3>2. CASE proc[i] # "running"
      BY <1>7, <3>2, Dying DEF HandleTerm
    <3>. QED BY <3>1, <3>2
  <2>2. TypeOK' /\ GatesMatch'
    BY <1>7, <2>1 DEF TypeOK, GatesMatch, HandleTerm, registryVars, windowVars, sweepVars
  <2>. QED BY <1>7, <2>1, <2>2, RegistryUntouched DEF HandleTerm, registryVars, windowVars
<1>8. CASE ColdExit(i) \/ Crash(i)
  <2>1. Alive(i) /\ Dies(i)
    BY <1>8 DEF ColdExit, Crash, Alive
  <2>2. /\ proc' \in [Instances -> {"none", "running", "quiescing", "acked", "exiting", "gone"}]
        /\ outbox' \in [Instances -> Seq(Messages)]
        /\ \A j \in Instances : proc[j] = "none" <=> proc'[j] = "none"
        /\ \A j \in Instances : proc[j] = "gone" => proc'[j] = "gone"
    BY <2>1, Dying
  <2>3. armed' \subseteq armed
    BY <1>8 DEF ColdExit, Crash, ArmedAfterQuiesce
  <2>4. /\ UNCHANGED <<registryVars, windowVars, gate, term, inbox, sweepVars>>
    BY <1>8 DEF ColdExit, Crash
  <2>5. TypeOK' /\ GatesMatch'
    BY <2>2, <2>3, <2>4 DEF TypeOK, GatesMatch, registryVars, windowVars, sweepVars
  <2>. QED BY <2>2, <2>4, <2>5, RegistryUntouched DEF registryVars, windowVars
<1>. QED BY <1>1, <1>2, <1>3, <1>4, <1>5, <1>6, <1>7, <1>8 DEF FromMain
-----------------------------------------------------------------------------
LEMMA InstancesInvHolds == Spec => []InstancesInv
<1>1. Init => InstancesInv
  <2>. SUFFICES ASSUME Init PROVE InstancesInv
    OBVIOUS
  <2>1. TypeOK
    BY DEF Init, TypeOK
  <2>2. BirthsInOrder(phase)
    <3>1. {i \in Instances : phase[i] # "unborn"} = 1 .. 0
      BY DEF Init
    <3>. QED BY <3>1 DEF BirthsInOrder
  <2>3. ToldWhenCleared(cleared, inbox)
    BY DEF Init, ToldWhenCleared, Mentions
  <2>4. ProcessesMatch /\ ClearedOneByOne(phase, cleared) /\ GatesMatch /\ NoHeadlessInstance
    BY DEF Init, ProcessesMatch, ClearedOneByOne, GatesMatch, NoHeadlessInstance
  <2>. QED BY <2>1, <2>2, <2>3, <2>4 DEF InstancesInv
<1>2. InstancesInv /\ [Next]_vars => InstancesInv'
  <2>. SUFFICES ASSUME InstancesInv, [Next]_vars PROVE InstancesInv'
    OBVIOUS
  <2>1. CASE Next
    <3>1. \E i \in Instances : i = i
      BY DEF Instances
    <3>. QED BY <2>1, <3>1, WindowSteps, EndingSteps, MainSteps, ProcessSteps DEF Next, ToMain
  <2>2. CASE UNCHANGED vars
    <3>1. TypeOK'
      BY <2>2 DEF vars, registryVars, windowVars, procVars, sweepVars, InstancesInv, TypeOK
    <3>. QED
      BY <2>2, <3>1
      DEF vars, registryVars, windowVars, procVars, sweepVars, InstancesInv,
          BirthsInOrder, ProcessesMatch, ClearedOneByOne, ToldWhenCleared, GatesMatch,
          NoHeadlessInstance
  <2>. QED BY <2>1, <2>2
<1>. QED BY <1>1, <1>2, PTL DEF Spec

\* Every variable of the instances keeps its type; the bounded quiesce is
\* timed for draining instances only (teardown, reap and onExit).
THEOREM Typing == Spec => []TypeOK
<1>1. InstancesInv => TypeOK
  BY DEF InstancesInv
<1>. QED BY <1>1, InstancesInvHolds, PTL

\* Of any number of instances at most one holds the hardware at a time,
\* whatever disarming and sweeping do: the gate of tryGrantHardware and
\* awaitHardwareClear.
THEOREM HardwareHasOneHolder == Spec => []OneHolder
<1>1. ASSUME InstancesInv PROVE OneHolder
  <2>. DEFINE holders == {i \in armed : Alive(i)}
  <2>1. \A i, j \in holders : i = j
    <3>1. \A i \in holders : i \in cleared /\ phase[i] # "dead"
      BY <1>1 DEF InstancesInv, TypeOK, GatesMatch, ProcessesMatch, Alive
    <3>. QED BY <1>1, <3>1 DEF InstancesInv, ClearedOneByOne
  <2>2. CASE holders = {}
    BY <2>2, FS_EmptySet DEF OneHolder
  <2>3. CASE holders # {}
    <3>1. PICK i \in holders : TRUE
      BY <2>3
    <3>2. holders = {i}
      BY <2>1, <3>1
    <3>. HIDE DEF holders
    <3>3. Cardinality(holders) = 1
      BY <3>2, FS_Singleton
    <3>. QED BY <3>3 DEF OneHolder, holders
  <2>. QED BY <2>2, <2>3
<1>. QED BY <1>1, InstancesInvHolds, PTL

\* No live instance is without its app window: a window's end, by the user, a
\* switch or the quit, tears its instance down (onWindowClosed).
THEOREM NoInstanceIsHeadless == Spec => []NoHeadlessInstance
<1>1. InstancesInv => NoHeadlessInstance
  BY DEF InstancesInv
<1>. QED BY <1>1, InstancesInvHolds, PTL

-----------------------------------------------------------------------------
(* When the hardware is granted, it is safe.                                *)

\* An instance that has acked, whether main knows yet or not.
Acked(i) ==
  proc[i] = "acked" \/ i \in quiesced \/ Mentions(outbox[i], "quiesced")

\* The instances main takes for safe that may be armed: the late ones, and those
\* whose own disarming failed, or whose janitor did.
Excused == late \union failed

\* What makes a death safe: an instance that acked holds nothing, unless it is
\* excused, and does nothing more; a janitor run waits for the dead only, and once
\* it has swept none of them holds anything, save the excused ones.
SafeInv ==
  /\ \A i \in Instances :
       Acked(i) => proc[i] \in {"acked", "gone"} /\ (i \in armed => i \in Excused)
  /\ \A i \in joined \union janitorDone : phase[i] = "dead"
  /\ janitor = "swept" => armed \intersect joined \subseteq Excused
  /\ armed \intersect janitorDone \subseteq Excused

\* SafeInv survives a step that acks nothing new but from an instance that has
\* let go or is excused, arms only what has not acked and lives, and raises nobody.
LEMMA SafeFrame ==
  ASSUME InstancesInv, SafeInv,
         \A i \in Instances :
           Acked(i)' => \/ Acked(i)
                        \/ proc'[i] = "acked" /\ (i \in armed' => i \in Excused'),
         \A i \in Instances : Acked(i) => proc'[i] \in {"acked", "gone"},
         \A i \in armed' : i \in armed \/ (phase[i] # "dead" /\ ~ Acked(i)'),
         \A i \in Instances : phase[i] = "dead" => phase'[i] = "dead",
         Excused \subseteq Excused', UNCHANGED <<janitor, joined, janitorDone>>
  PROVE  SafeInv'
<1>1. joined \subseteq Instances /\ janitorDone \subseteq Instances
  BY DEF InstancesInv, TypeOK
<1>2. \A i \in Instances :
        Acked(i)' => proc'[i] \in {"acked", "gone"} /\ (i \in armed' => i \in Excused')
  BY DEF SafeInv
<1>. QED BY <1>1, <1>2 DEF SafeInv

\* A fork disturbs no process there is and raises nobody.
LEMMA ForkedBeside ==
  ASSUME InstancesInv, NEW ph \in [Instances -> Phases], NEW box,
         \A i \in Instances : ph[i] = "unborn" <=> phase[i] = "unborn",
         SpawnApp(ph, box)
  PROVE  /\ \A i \in Instances : proc[i] # "none" => proc'[i] = proc[i]
         /\ \A i \in Instances : ph[i] = "dead" => phase'[i] = "dead"
<1>1. /\ NextInstance \in Instances
      /\ phase' = [ph EXCEPT ![NextInstance] = "live"]
      /\ proc' = [proc EXCEPT ![NextInstance] = "running"]
  BY DEF SpawnApp
<1>2. Born = {i \in Instances : ph[i] # "unborn"}
  BY DEF Born
<1>3. BirthsInOrder(ph)
  BY <1>2 DEF InstancesInv, BirthsInOrder, Born
<1>4. ph[NextInstance] = "unborn"
  BY <1>1, <1>2, <1>3, NextIsUnborn
<1>5. proc[NextInstance] = "none"
  BY <1>1, <1>4 DEF InstancesInv, ProcessesMatch
<1>. QED BY <1>1, <1>4, <1>5 DEF InstancesInv, TypeOK

\* Taking a message from an outbox acks nothing.
LEMMA ReceivedMail ==
  ASSUME TypeOK, NEW i \in Instances, NEW type, FromInstance(i, type), Received(i)
  PROVE  /\ Mentions(outbox[i], type)
         /\ \A j \in Instances, t \in Types :
              Mentions(outbox'[j], t) => Mentions(outbox[j], t)
<1>1. /\ outbox[i] \in Seq(Messages) /\ outbox[i] # <<>>
      /\ Head(outbox[i]).type = type
  BY DEF TypeOK, FromInstance
<1>2. /\ Mentions(outbox[i], type)
      /\ \A t \in Types : Mentions(Tail(outbox[i]), t) => Mentions(outbox[i], t)
  BY <1>1, TakenMail
<1>3. \A j \in Instances : outbox'[j] = IF j = i THEN Tail(outbox[i]) ELSE outbox[j]
  BY DEF TypeOK, Received
<1>. QED BY <1>2, <1>3

\* An answer adds itself to the outbox; a death may lose the end of it.
LEMMA AnsweredMail ==
  ASSUME TypeOK, NEW i \in Instances, NEW type \in Types, NEW id \in 0 .. MaxSwitches,
         Answer(i, type, id)
  PROVE  \A j \in Instances, t \in Types :
           Mentions(outbox'[j], t) => Mentions(outbox[j], t) \/ (j = i /\ t = type)
<1>1. /\ outbox[i] \in Seq(Messages) /\ Message(type, id) \in Messages
      /\ Message(type, id).type = type
  BY MessageTypes DEF TypeOK
<1>2. \A j \in Instances :
        outbox'[j] = IF j = i THEN Append(outbox[i], Message(type, id)) ELSE outbox[j]
  BY DEF TypeOK, Answer
<1>. QED BY <1>1, <1>2, AppendedMail

LEMMA LostMail ==
  ASSUME TypeOK, NEW i \in Instances, Dies(i)
  PROVE  /\ \A j \in Instances : proc'[j] = IF j = i THEN "gone" ELSE proc[j]
         /\ \A j \in Instances, t \in Types :
              Mentions(outbox'[j], t) => Mentions(outbox[j], t)
<1>1. PICK n \in 0 .. Len(outbox[i]) :
        outbox' = [outbox EXCEPT ![i] = SubSeq(@, 1, n)]
  BY DEF Dies
<1>2. outbox[i] \in Seq(Messages)
  BY DEF TypeOK
<1>3. \A t \in Types : Mentions(SubSeq(outbox[i], 1, n), t) => Mentions(outbox[i], t)
  <2>1. /\ Len(SubSeq(outbox[i], 1, n)) = n
        /\ \A k \in 1 .. n : SubSeq(outbox[i], 1, n)[k] = outbox[i][k]
    BY <1>2
  <2>. QED BY <1>2, <2>1 DEF Mentions
<1>. QED BY <1>1, <1>3 DEF TypeOK, Dies

\* Main's steps between a fork and a death: acks are counted, none is made.
LEMMA MainKeepsSafe ==
  ASSUME InstancesInv, SafeInv, NEW i \in Instances,
         \/ OpenApp \/ SwitchGranted(i) \/ DrainTimesOut \/ StartSwitch(i)
         \/ SwitchRefused(i) \/ StaleAnswer(i) \/ WindowClosed(i)
         \/ OnAck(i) \/ QuiesceDeadline(i) \/ Quit \/ QuitTeardown
         \/ WatchdogSweeps
  PROVE  SafeInv'
<1>0. /\ TypeOK /\ phase \in [Instances -> Phases] /\ "quiesced" \in Types
      /\ armed \subseteq Instances
  BY DEF InstancesInv, TypeOK, Phases, Types
<1>t. \A S \in SUBSET Instances, j \in Instances :
        /\ PhaseAfter(S, phase)[j] = "dead" <=> phase[j] = "dead"
        /\ PhaseAfter(S, phase)[j] = "unborn" <=> phase[j] = "unborn"
        /\ PhaseAfter(S, phase) \in [Instances -> Phases]
  BY <1>0 DEF PhaseAfter, Ending, Phases
<1>n. \A j \in Instances : Acked(j) => proc[j] \in {"acked", "gone"}
  BY DEF SafeInv
<1>v. UNCHANGED sweepVars => /\ Excused \subseteq Excused'
                             /\ UNCHANGED <<janitor, joined>>
  BY DEF sweepVars, Excused
<1>1. CASE OpenApp
  <2>1. SpawnApp(phase, inbox)
    BY <1>1 DEF OpenApp
  <2>2. /\ \A j \in Instances : proc[j] # "none" => proc'[j] = proc[j]
        /\ \A j \in Instances : phase[j] = "dead" => phase'[j] = "dead"
    BY <1>0, <2>1, ForkedBeside
  <2>3. UNCHANGED <<quiesced, janitorDone, outbox, armed, sweepVars>>
    BY <1>1 DEF OpenApp
  <2>4. \A j \in Instances : Acked(j)' => Acked(j)
    <3>1. \A j \in Instances : proc'[j] = "acked" => proc[j] = "acked"
      BY <2>1, <2>2 DEF InstancesInv, TypeOK, SpawnApp
    <3>. QED BY <2>3, <3>1 DEF Acked
  <2>5. \A j \in Instances : Acked(j) => proc'[j] \in {"acked", "gone"}
    BY <1>n, <2>2
  <2>. QED BY <2>2, <2>3, <2>4, <2>5, <1>v, SafeFrame
<1>2. CASE SwitchGranted(i)
  <2> DEFINE ph == PhaseAfter(Outgoing(i), phase)
             box == InboxAfter(Outgoing(i), phase, inbox)
  <2>1. SpawnApp(ph, box)
    BY <1>2 DEF SwitchGranted
  <2>2. /\ ph \in [Instances -> Phases]
        /\ \A j \in Instances : /\ ph[j] = "dead" <=> phase[j] = "dead"
                                /\ ph[j] = "unborn" <=> phase[j] = "unborn"
    BY <1>0, <1>t DEF Outgoing
  <2> HIDE DEF ph, box
  <2>3. /\ \A j \in Instances : proc[j] # "none" => proc'[j] = proc[j]
        /\ \A j \in Instances : phase[j] = "dead" => phase'[j] = "dead"
    BY <2>1, <2>2, ForkedBeside
  <2>4. UNCHANGED <<quiesced, janitorDone, armed, sweepVars>>
    BY <1>2 DEF SwitchGranted
  <2>5. \A j \in Instances :
          Mentions(outbox'[j], "quiesced") => Mentions(outbox[j], "quiesced")
    BY <1>0, <1>2, ReceivedMail DEF SwitchGranted
  <2>6. \A j \in Instances : Acked(j)' => Acked(j)
    <3>1. \A j \in Instances : proc'[j] = "acked" => proc[j] = "acked"
      BY <2>1, <2>3 DEF InstancesInv, TypeOK, SpawnApp
    <3>. QED BY <2>4, <2>5, <3>1 DEF Acked
  <2>7. \A j \in Instances : Acked(j) => proc'[j] \in {"acked", "gone"}
    BY <1>n, <2>3
  <2>. QED BY <2>3, <2>4, <2>6, <2>7, <1>v, SafeFrame
<1>3. CASE \/ DrainTimesOut \/ StartSwitch(i) \/ WindowClosed(i)
           \/ QuiesceDeadline(i) \/ Quit \/ QuitTeardown \/ WatchdogSweeps
  <2>1. /\ UNCHANGED <<quiesced, janitorDone, proc, outbox, sweepVars>>
        /\ armed' \subseteq armed
    BY <1>3 DEF DrainTimesOut, StartSwitch, WindowClosed, QuiesceDeadline, Quit,
       QuitTeardown, WatchdogSweeps, registryVars, procVars
  <2>2. \A j \in Instances : phase[j] = "dead" => phase'[j] = "dead"
    <3>1. \/ phase' = phase
          \/ \E S \in SUBSET Instances : phase' = PhaseAfter(S, phase)
      BY <1>3 DEF DrainTimesOut, StartSwitch, WindowClosed, Ownerless,
         QuiesceDeadline, Quit, QuitTeardown, WatchdogSweeps, Teardown,
         registryVars
    <3>. QED BY <1>t, <3>1
  <2>3. \A j \in Instances : Acked(j)' <=> Acked(j)
    BY <2>1 DEF Acked
  <2>. QED BY <1>n, <2>1, <2>2, <2>3, <1>v, SafeFrame
<1>4. CASE SwitchRefused(i) \/ StaleAnswer(i) \/ OnAck(i)
  <2>1. PICK type \in {"busy", "drained", "quiesced"} :
          /\ FromInstance(i, type) /\ Received(i)
          /\ quiesced' = quiesced \/ (type = "quiesced" /\ quiesced' = quiesced \union {i})
    BY <1>4 DEF SwitchRefused, StaleAnswer, OnAck, registryVars
  <2>2. /\ UNCHANGED <<phase, janitorDone, proc, armed, sweepVars>>
    BY <1>4 DEF SwitchRefused, StaleAnswer, OnAck, registryVars
  <2>3. /\ Mentions(outbox[i], type)
        /\ \A j \in Instances :
             Mentions(outbox'[j], "quiesced") => Mentions(outbox[j], "quiesced")
    BY <1>0, <2>1, ReceivedMail
  <2>4. \A j \in Instances : Acked(j)' => Acked(j)
    BY <2>1, <2>2, <2>3 DEF Acked
  <2>. QED BY <1>n, <2>2, <2>4, <1>v, SafeFrame
<1>. QED BY <1>1, <1>2, <1>3, <1>4

\* A process arms only while it runs; it acks when it has disarmed or failed to,
\* and an acked one only goes.
LEMMA ProcessKeepsSafe ==
  ASSUME InstancesInv, SafeInv, NEW i \in Instances,
         \/ FromMain(i) \/ Arm(i) \/ QuiesceEnds(i) \/ Uncaught(i)
         \/ HandleTerm(i) \/ ColdExit(i) \/ Crash(i)
  PROVE  SafeInv'
<1>0. /\ TypeOK /\ "quiesced" \in Types /\ 0 \in 0 .. MaxSwitches
      /\ armed \subseteq Instances /\ drainSeq \in 0 .. MaxSwitches
      /\ proc \in [Instances -> {"none", "running", "quiescing", "acked",
                                 "exiting", "gone"}]
  BY DEF InstancesInv, TypeOK, Types
<1>1. /\ UNCHANGED <<phase, quiesced, janitorDone, janitor, joined>>
      /\ Excused \subseteq Excused'
  BY DEF FromMain, HandleClear, HandleDrain, HandleShutdown, Arm, QuiesceEnds,
     Uncaught, HandleTerm, ColdExit, Crash, registryVars, sweepVars, Excused
<1>n. \A j \in Instances :
        /\ Acked(j) => proc[j] \in {"acked", "gone"}
        /\ phase[j] = "dead" => proc[j] = "gone"
  BY DEF SafeInv, InstancesInv, ProcessesMatch
<1>a. armed' \subseteq armed \union {i}
  BY DEF FromMain, HandleClear, HandleDrain, HandleShutdown, Arm, QuiesceEnds,
     ArmedAfterQuiesce, Uncaught, HandleTerm, ColdExit, Crash
<1>2. CASE \/ HandleClear(i) \/ HandleShutdown(i) \/ Uncaught(i)
           \/ HandleTerm(i) /\ proc[i] = "running"
  <2>1. /\ UNCHANGED <<outbox, armed>>
        /\ \A j \in Instances : \/ proc'[j] = proc[j]
                                \/ proc[j] = "running" /\ proc'[j] # "acked"
    BY <1>0, <1>2 DEF HandleClear, HandleShutdown, Uncaught, HandleTerm
  <2>2. /\ \A j \in Instances : Acked(j)' => Acked(j)
        /\ \A j \in Instances : Acked(j) => proc'[j] \in {"acked", "gone"}
    BY <1>1, <1>n, <2>1 DEF Acked
  <2>. QED BY <1>1, <2>1, <2>2, SafeFrame
<1>3. CASE HandleDrain(i)
  <2>1. UNCHANGED <<proc, armed>>
    BY <1>3 DEF HandleDrain
  <2>2. PICK answer \in {"drained", "busy"} : Answer(i, answer, Head(inbox[i]).id)
    BY <1>3 DEF HandleDrain
  <2>3. Head(inbox[i]).id \in 0 .. MaxSwitches
    <3>1. Head(inbox[i]) \in Messages
      BY <1>0, <1>3, Handling DEF HandleDrain
    <3>. QED BY <3>1 DEF Messages
  <2>4. \A j \in Instances :
          Mentions(outbox'[j], "quiesced") => Mentions(outbox[j], "quiesced")
    BY <1>0, <2>2, <2>3, AnsweredMail DEF Types
  <2>5. \A j \in Instances : Acked(j)' => Acked(j)
    BY <1>1, <2>1, <2>4 DEF Acked
  <2>. QED BY <1>1, <1>n, <2>1, <2>5, SafeFrame
<1>4. CASE Arm(i)
  <2>1. /\ UNCHANGED <<proc, outbox>> /\ proc[i] = "running"
        /\ armed' = armed \union {i}
    BY <1>4 DEF Arm, procVars
  <2>2. \A j \in Instances : Acked(j)' <=> Acked(j)
    BY <1>1, <2>1 DEF Acked
  <2>3. phase[i] # "dead" /\ ~ Acked(i)
    BY <1>n, <2>1
  <2>. QED BY <1>1, <1>n, <2>1, <2>2, <2>3, SafeFrame
<1>5. CASE QuiesceEnds(i)
  <2>1. /\ proc' = [proc EXCEPT ![i] = "acked"] /\ proc[i] = "quiescing"
        /\ armed' \subseteq armed /\ Answer(i, "quiesced", 0)
        /\ i \in armed' => i \in Excused'
    BY <1>5 DEF QuiesceEnds, ArmedAfterQuiesce, Excused
  <2>2. \A j \in Instances :
          Mentions(outbox'[j], "quiesced") => Mentions(outbox[j], "quiesced") \/ j = i
    BY <1>0, <2>1, AnsweredMail
  <2>3. \A j \in Instances :
          Acked(j)' => \/ Acked(j)
                       \/ proc'[j] = "acked" /\ (j \in armed' => j \in Excused')
    BY <1>0, <1>1, <2>1, <2>2 DEF Acked
  <2>4. \A j \in Instances : Acked(j) => proc'[j] \in {"acked", "gone"}
    BY <1>0, <1>n, <2>1
  <2>. QED BY <1>1, <2>1, <2>3, <2>4, SafeFrame
<1>6. CASE (HandleTerm(i) /\ proc[i] # "running") \/ ColdExit(i) \/ Crash(i)
  <2>1. Dies(i) /\ armed' \subseteq armed
    BY <1>6 DEF HandleTerm, ColdExit, Crash, ArmedAfterQuiesce
  <2>2. /\ \A j \in Instances : proc'[j] = IF j = i THEN "gone" ELSE proc[j]
        /\ \A j \in Instances :
             Mentions(outbox'[j], "quiesced") => Mentions(outbox[j], "quiesced")
    BY <1>0, <2>1, LostMail
  <2>3. /\ \A j \in Instances : Acked(j)' => Acked(j)
        /\ \A j \in Instances : Acked(j) => proc'[j] \in {"acked", "gone"}
    BY <1>1, <1>n, <2>2 DEF Acked
  <2>. QED BY <1>1, <2>1, <2>3, SafeFrame
<1>. QED BY <1>2, <1>3, <1>4, <1>5, <1>6 DEF FromMain

\* A death joins a janitor run, the run sweeps and its exit reports the deaths
\* that joined; main's own end takes the janitor with it.
LEMMA JanitorKeepsSafe ==
  ASSUME InstancesInv, SafeInv, NEW i \in Instances,
         \/ OnExit(i) \/ JanitorSweeps \/ JanitorExits
         \/ QuitExits \/ QuitLapses \/ MainCrashes
  PROVE  SafeInv'
<1>0. /\ TypeOK /\ phase \in [Instances -> Phases] /\ armed \subseteq Instances
      /\ joined \subseteq Instances /\ janitorDone \subseteq Instances
      /\ janitor \in {"idle", "started", "swept"}
      /\ \A j \in Instances : phase[j] = "dead" => proc[j] = "gone"
  BY DEF InstancesInv, TypeOK, Phases, ProcessesMatch
<1>s. /\ \A j \in Instances :
           Acked(j) => proc[j] \in {"acked", "gone"} /\ (j \in armed => j \in Excused)
      /\ \A j \in joined \union janitorDone : phase[j] = "dead"
      /\ janitor = "swept" => armed \intersect joined \subseteq Excused
      /\ armed \intersect janitorDone \subseteq Excused
  BY DEF SafeInv
<1>1. CASE OnExit(i)
  <2> DEFINE dead == [phase EXCEPT ![i] = "dead"]
  <2>1. /\ proc[i] = "gone" /\ UNCHANGED <<quiesced, janitorDone, outbox, armed>>
    BY <1>1 DEF OnExit
  <2>2. phase[i] # "unborn"
    BY <2>1 DEF InstancesInv, ProcessesMatch
  <2>3. /\ dead \in [Instances -> Phases]
        /\ \A j \in Instances :
             dead[j] = "unborn" <=> phase[j] = "unborn"
        /\ \A j \in Instances : dead[j] = "dead" <=> phase[j] = "dead" \/ j = i
    BY <1>0, <2>2 DEF Phases
  <2>4. \/ SpawnApp(dead, inbox)
        \/ phase' = dead /\ proc' = proc
    BY <1>1 DEF OnExit
  <2> HIDE DEF dead
  <2>5. /\ \A j \in Instances : proc[j] # "none" => proc'[j] = proc[j]
        /\ \A j \in Instances : dead[j] = "dead" => phase'[j] = "dead"
    BY <2>3, <2>4, ForkedBeside
  <2>6. \A j \in Instances : proc'[j] = "acked" => proc[j] = "acked"
    BY <1>0, <2>4, <2>5 DEF InstancesInv, TypeOK, SpawnApp
  <2>7. \A j \in Instances : Acked(j)' => Acked(j)
    BY <2>1, <2>6 DEF Acked
  <2>8. \/ /\ joined' = joined \union {i}
           /\ janitor' = "swept" => janitor = "swept" /\ Excused' = Excused \union {i}
           /\ Excused \subseteq Excused'
        \/ UNCHANGED <<joined, janitor, Excused>>
    BY <1>1 DEF OnExit, sweepVars, Excused
  <2>9. \A j \in Instances :
          Acked(j)' => proc'[j] \in {"acked", "gone"} /\ (j \in armed' => j \in Excused')
    BY <1>s, <2>1, <2>5, <2>7, <2>8
  <2>10. \A j \in joined' \union janitorDone' : phase'[j] = "dead"
    BY <1>0, <1>s, <2>1, <2>3, <2>5, <2>8
  <2>11. /\ janitor' = "swept" => armed' \intersect joined' \subseteq Excused'
         /\ armed' \intersect janitorDone' \subseteq Excused'
    BY <1>s, <2>1, <2>8
  <2>. QED BY <2>9, <2>10, <2>11 DEF SafeInv
<1>2. CASE JanitorSweeps
  <2>1. /\ UNCHANGED <<phase, quiesced, janitorDone, proc, outbox, joined, Excused>>
        /\ janitor' = "swept" /\ armed' = {j \in armed : Alive(j)}
    BY <1>2 DEF JanitorSweeps, registryVars, procVars, Excused
  <2>2. \A j \in Instances : Acked(j)' <=> Acked(j)
    BY <2>1 DEF Acked
  <2>3. \A j \in joined : ~ Alive(j)
    BY <1>0, <1>s DEF Alive
  <2>. QED BY <1>0, <1>s, <2>1, <2>2, <2>3 DEF SafeInv
<1>3. CASE JanitorExits
  <2>1. /\ UNCHANGED <<phase, quiesced, proc, outbox, armed>>
        /\ janitor' = "idle" /\ joined' = {}
        /\ janitorDone' = janitorDone \union joined
        /\ Excused \subseteq Excused'
        /\ janitor = "swept" \/ joined \subseteq Excused'
    BY <1>3 DEF JanitorExits, procVars, Excused
  <2>2. \A j \in Instances : Acked(j)' <=> Acked(j)
    BY <2>1 DEF Acked
  <2>. QED BY <1>0, <1>s, <2>1, <2>2 DEF SafeInv
<1>4. CASE QuitExits \/ QuitLapses \/ MainCrashes
  <2>1. /\ UNCHANGED <<phase, quiesced, janitorDone, outbox, armed, Excused>>
        /\ janitor' = "idle" /\ joined' = {}
        /\ \A j \in Instances : proc'[j] \in {"none", "gone"}
        /\ \A j \in Instances : proc[j] # "none" => proc'[j] = "gone"
    BY <1>4 DEF QuitExits, QuitLapses, MainCrashes, MainGone, registryVars, Excused
  <2>2. \A j \in Instances : Acked(j)' => Acked(j)
    BY <2>1 DEF Acked
  <2>. QED BY <1>0, <1>s, <2>1, <2>2 DEF SafeInv
<1>. QED BY <1>1, <1>2, <1>3, <1>4

\* The gate opens for the one live instance when all the others are unborn, or
\* dead and safe.
LEMMA GrantIsSafe ==
  ASSUME InstancesInv, NEW ph, NEW safe, NEW box,
         TryGrantHardware(ph, safe, box), cleared' # cleared,
         \A i \in Instances : ph[i] = "unborn" => phase[i] = "unborn",
         NEW free, armed \intersect safe \subseteq free
  PROVE  armed \subseteq free
<1>1. PICK i \in Grantable(ph, safe) : i \notin cleared
  BY DEF TryGrantHardware
<1>2. /\ i \in Instances
      /\ \A o \in Instances \ {i} : ph[o] = "unborn" \/ o \in safe
  BY <1>1 DEF Grantable, Released
<1>3. \A o \in armed : o \in Instances /\ o \in cleared /\ phase[o] # "unborn"
  BY DEF InstancesInv, TypeOK, GatesMatch, ClearedOneByOne
<1>. QED BY <1>1, <1>2, <1>3

\* Only a fork, a death and the janitor's exit grant.
LEMMA GrantsAreSafe ==
  ASSUME InstancesInv, SafeInv, Next, cleared' # cleared
  PROVE  armed \subseteq late \union failed'
<1>0. /\ phase \in [Instances -> Phases] /\ cleared \subseteq Instances
      /\ armed \subseteq Instances /\ quiesced \subseteq Instances
  BY DEF InstancesInv, TypeOK, Phases
<1>1. /\ armed \intersect (quiesced \union janitorDone) \subseteq Excused
      /\ janitor = "swept" => armed \intersect joined \subseteq Excused
  BY <1>0 DEF SafeInv, Acked
<1>r. armed \subseteq Excused => armed \subseteq late \union failed'
  <2>1. failed \subseteq failed'
    BY DEF Next, FromMain, ToMain, OpenApp, SwitchGranted, OnExit, DrainTimesOut,
       JanitorSweeps, JanitorExits, Quit, QuitTeardown, QuitExits, QuitLapses, MainCrashes,
       MainGone, WatchdogSweeps, StartSwitch, WindowClosed, QuiesceDeadline, HandleClear,
       HandleDrain, HandleShutdown, SwitchRefused, StaleAnswer, OnAck, Arm, QuiesceEnds,
       Uncaught, HandleTerm, ColdExit, Crash, sweepVars
  <2>. QED BY <2>1 DEF Excused
<1>2. ASSUME NEW ph \in [Instances -> Phases], NEW box, SpawnApp(ph, box),
             \A i \in Instances : ph[i] = "unborn" => phase[i] = "unborn"
      PROVE  armed \subseteq Excused
  <2> DEFINE forked == [ph EXCEPT ![NextInstance] = "live"]
  <2>1. TryGrantHardware(forked, quiesced \union janitorDone, box)
    BY <1>2 DEF SpawnApp
  <2>2. \A i \in Instances : forked[i] = "unborn" => phase[i] = "unborn"
    BY <1>2
  <2> HIDE DEF forked
  <2>. QED BY <1>1, <2>1, <2>2, GrantIsSafe
<1>3. CASE OpenApp
  <2>1. SpawnApp(phase, inbox)
    BY <1>3 DEF OpenApp
  <2>. QED BY <1>0, <1>2, <1>r, <2>1
<1>4. ASSUME NEW i \in Instances, SwitchGranted(i) PROVE armed \subseteq late \union failed'
  <2> DEFINE ph == PhaseAfter(Outgoing(i), phase)
  <2>1. /\ ph \in [Instances -> Phases]
        /\ \A j \in Instances : ph[j] = "unborn" => phase[j] = "unborn"
    BY <1>0 DEF PhaseAfter, Ending, Phases
  <2>2. SpawnApp(ph, InboxAfter(Outgoing(i), phase, inbox))
    BY <1>4 DEF SwitchGranted
  <2> HIDE DEF ph
  <2>. QED BY <1>2, <1>r, <2>1, <2>2
<1>5. ASSUME NEW i \in Instances, OnExit(i) PROVE armed \subseteq late \union failed'
  <2> DEFINE dead == [phase EXCEPT ![i] = "dead"]
  <2>1. /\ dead \in [Instances -> Phases]
        /\ \A j \in Instances : dead[j] = "unborn" => phase[j] = "unborn"
    BY <1>0 DEF Phases
  <2>2. \/ SpawnApp(dead, inbox)
        \/ TryGrantHardware(dead, quiesced \union janitorDone, inbox)
    BY <1>5 DEF OnExit
  <2> HIDE DEF dead
  <2>. QED BY <1>1, <1>2, <1>r, <2>1, <2>2, GrantIsSafe
<1>6. CASE JanitorExits
  <2>1. /\ TryGrantHardware(phase, quiesced \union janitorDone \union joined, inbox)
        /\ janitor = "swept" \/ failed' = failed \union joined
        /\ failed \subseteq failed'
    BY <1>6 DEF JanitorExits
  <2>2. armed \intersect (quiesced \union janitorDone \union joined)
          \subseteq late \union failed'
    BY <1>1, <2>1 DEF Excused
  <2>. QED BY <2>1, <2>2, GrantIsSafe
<1>. QED
  BY <1>r, <1>3, <1>4, <1>5, <1>6
  DEF Next, FromMain, ToMain, DrainTimesOut, JanitorSweeps, Quit, QuitTeardown,
      QuitExits, QuitLapses, MainCrashes, MainGone, WatchdogSweeps, StartSwitch,
      WindowClosed, QuiesceDeadline, HandleClear, HandleDrain, HandleShutdown,
      SwitchRefused, StaleAnswer, OnAck, Arm, QuiesceEnds, Uncaught, HandleTerm,
      ColdExit, Crash, registryVars

\* A fresh instance is let at the hardware only when every other has let go of it
\* or was swept, however switches, deadlines, crashes and quits overlap, whether
\* disarming and sweeping work or not.  The exceptions are the instances for which
\* main was told so and it was not: an ack after a disarm that failed, a janitor run
\* that failed, and a death that joined a run which had already swept
\* (tryGrantHardware, quiesceAndAck, the shared run of main.ts).
THEOREM GrantsFindHardwareSafe == Spec => GrantFindsHardwareSafe
<1> DEFINE A == cleared' # cleared => armed \subseteq late \union failed'
<1>1. Init => SafeInv
  BY DEF Init, SafeInv, Acked, Mentions
<1>2. InstancesInv /\ SafeInv /\ [Next]_vars => SafeInv' /\ [A]_vars
  <2> SUFFICES ASSUME InstancesInv, SafeInv, [Next]_vars
               PROVE  SafeInv' /\ [A]_vars
    OBVIOUS
  <2>1. CASE Next
    <3>1. \E i \in Instances : i = i
      BY DEF Instances
    <3>2. SafeInv'
      BY <2>1, <3>1, MainKeepsSafe, ProcessKeepsSafe, JanitorKeepsSafe
      DEF Next, ToMain
    <3>. QED BY <2>1, <3>2, GrantsAreSafe
  <2>2. CASE UNCHANGED vars
    BY <2>2 DEF vars, registryVars, windowVars, procVars, sweepVars, SafeInv,
       Acked, Excused
  <2>. QED BY <2>1, <2>2
<1>. QED BY <1>1, <1>2, InstancesInvHolds, PTL DEF Spec, GrantFindsHardwareSafe
-----------------------------------------------------------------------------

USE InputsAssumption, BoundsAssumption

(***************************************************************************)
(* The mirrors: for every set of inputs and every capacity, the pool of    *)
(* stream ids, the wire and the table of the firmware agree.  A request    *)
(* answers for things: the id it carries, the task of the input that waits *)
(* for it, the close it ends, the connect or disconnect it is a step of.   *)
(* No two requests answer for the same thing, and the state of the host is *)
(* what the requests on the wire say it is.                                *)
(***************************************************************************)
Tasks == {"enabling", "creating", "handoff", "discarding"}
Doing(r) ==
  CASE r.role = "handoff" -> "handoff"
    [] r.role = "task" /\ r.op = "enable" -> "enabling"
    [] r.role = "task" /\ r.op = "create" -> "creating"
    [] r.role = "task" /\ r.op = "terminate" -> "discarding"
    [] OTHER -> "idle"

IdClaim(id) == {<<"id", x>> : x \in {id} \ {NoId}}
TaskClaim(i, s) == {<<"task", i, x>> : x \in {s} \ {"idle"}}
CloseClaim(i, role) == {<<"close", x>> : x \in {j \in {i} : role = "close"}}
ChainClaim(role) == IF role \in {"unbind", "ready"} THEN {<<"chain">>} ELSE {}
Claims(r) ==
  IdClaim(r.id) \union TaskClaim(r.by, Doing(r)) \union CloseClaim(r.by, r.role)
    \union ChainClaim(r.role)

\* What the requests of a queue answer for, and that each thing has one request.
Tokens(q) == UNION {Claims(q[k]) : k \in DOMAIN q}
Apart(q) == \A j, k \in DOMAIN q : j # k => Claims(q[j]) \intersect Claims(q[k]) = {}

\* The requests the code sends.
Formed(r) ==
  /\ r \in Request /\ r.bind # 0
  /\ r.id = NoId <=> r.op \in {"enable", "disable"}
  /\ r.op = "create" => r.role = "task"
  /\ r.role = "task" => r.by \in Inputs /\ r.op # "disable"
  /\ r.role = "handoff" => r.by \in NativeInputs /\ r.op = "terminate"
  /\ r.role = "close" => r.by \in Inputs /\ r.op = "terminate"
  /\ r.role = "drop" => r.op = "terminate"
  /\ r.role \in {"ready", "release", "retire"} => r.op = "disable"

Queued(q, port) == \A k \in DOMAIN q : Formed(q[k]) /\ (port # 0 => q[k].bind = port)

\* How the host agrees with what is answered for (T): a task waits for one request,
TasksOK(h, T) ==
  \A i \in Inputs : \A s \in Tasks : h.task[i] = s <=> <<"task", i, s>> \in T

\* a connect or disconnect in progress has the port but no controller,
ChainOK(h, T) ==
  /\ h.bound \in {0, h.port}
  /\ <<"chain">> \in T => h.port # 0 /\ h.bound = 0

\* a close in progress has its input closing,
CloseOK(h, T) == \A i \in Inputs : <<"close", i>> \in T => h.life[i] = "closing"

\* a stream is that of one open input, and of no request,
StreamsOK(h, T) ==
  \A i \in Inputs : h.stream[i] # NoId =>
    /\ h.life[i] = "open" /\ h.port # 0
    /\ h.task[i] \in {"idle", "handoff"}
    /\ <<"id", h.stream[i]>> \notin T
    /\ \A j \in Inputs : h.stream[j] = h.stream[i] => j = i

\* an id is taken when an input or a request has it,
IdsOK(h, T) ==
  \A id \in Ids :
    id \in h.ids <=> /\ h.port # 0
                     /\ <<"id", id>> \in T \/ \E i \in Inputs : h.stream[i] = id

\* and a native stream has the wire for itself once its handoff is over.
NativeOK(h) ==
  \A n \in NativeInputs : h.stream[n] # NoId =>
    h.task[n] = "handoff" \/ \A j \in JsInputs : h.stream[j] = NoId

Good(h, T) ==
  /\ TasksOK(h, T) /\ ChainOK(h, T) /\ CloseOK(h, T)
  /\ StreamsOK(h, T) /\ IdsOK(h, T) /\ NativeOK(h)

\* The requests on the wire, besides what is in hand (Y).
Wired(q, port, Y) == Queued(q, port) /\ Apart(q) /\ Tokens(q) \intersect Y = {}

\* The table t of the firmware has ids of the pool only; after the port is closed
\* the last request is the disable that empties it.
Covers(h, t) ==
  /\ h.port # 0 => t \subseteq h.ids
  /\ h.port = 0 => IF h.uplink = <<>> THEN t = {}
                   ELSE h.uplink[Len(h.uplink)].op = "disable"
  /\ \A k \in DOMAIN h.uplink : h.uplink[k].op = "create" => h.uplink[k].id \notin t

Sane(h, Y, t) ==
  /\ h \in Host
  /\ Wired(h.uplink, h.port, Y)
  /\ Good(h, Tokens(h.uplink) \union Y)
  /\ Covers(h, t)

-----------------------------------------------------------------------------
(* Queues of requests and what they answer for.                            *)

(* A request that is queued adds what it answers for. *)
LEMMA TokensAppend ==
  ASSUME NEW S, NEW q \in Seq(S), NEW r \in S
  PROVE  /\ Tokens(Append(q, r)) = Tokens(q) \union Claims(r)
         /\ Apart(q) /\ Claims(r) \intersect Tokens(q) = {} => Apart(Append(q, r))
<1> DEFINE n == Len(q) + 1
           p == Append(q, r)
<1>1. /\ DOMAIN p = 1 .. n /\ DOMAIN q = 1 .. Len(q) /\ Len(q) \in Nat
      /\ p[n] = r
      /\ \A k \in 1 .. Len(q) : p[k] = q[k]
  OBVIOUS
<1> HIDE DEF p
<1>2. Tokens(p) = Tokens(q) \union Claims(r)
  <2>1. ASSUME NEW x, x \in Tokens(p) PROVE x \in Tokens(q) \union Claims(r)
    <3>1. PICK k \in 1 .. n : x \in Claims(p[k])
      BY <2>1, <1>1 DEF Tokens
    <3>2. CASE k = n
      BY <3>1, <3>2, <1>1
    <3>3. CASE k # n
      <4>1. k \in 1 .. Len(q)
        BY <3>3, <1>1
      <4> QED
        BY <3>1, <4>1, <1>1 DEF Tokens
    <3> QED
      BY <3>2, <3>3
  <2>2. ASSUME NEW x, x \in Tokens(q) \union Claims(r) PROVE x \in Tokens(p)
    <3>1. CASE x \in Claims(r)
      <4>1. n \in DOMAIN p /\ p[n] = r
        BY <1>1
      <4> QED
        BY <3>1, <4>1 DEF Tokens
    <3>2. CASE x \in Tokens(q)
      <4>1. PICK k \in 1 .. Len(q) : x \in Claims(q[k])
        BY <3>2, <1>1 DEF Tokens
      <4>2. k \in DOMAIN p /\ p[k] = q[k]
        BY <4>1, <1>1
      <4> QED
        BY <4>1, <4>2 DEF Tokens
    <3> QED
      BY <2>2, <3>1, <3>2
  <2> QED
    BY <2>1, <2>2
<1>3. ASSUME Apart(q), Claims(r) \intersect Tokens(q) = {} PROVE Apart(p)
  <2>1. \A k \in 1 .. Len(q) : Claims(q[k]) \intersect Claims(r) = {}
    BY <1>1, <1>3 DEF Tokens
  <2>2. SUFFICES ASSUME NEW j \in 1 .. n, NEW k \in 1 .. n, j # k
                 PROVE  Claims(p[j]) \intersect Claims(p[k]) = {}
    BY <1>1 DEF Apart
  <2>3. CASE j = n
    <3>1. k \in 1 .. Len(q) /\ p[j] = r /\ p[k] = q[k]
      BY <1>1, <2>2, <2>3
    <3> QED
      BY <2>1, <3>1
  <2>4. CASE k = n
    <3>1. j \in 1 .. Len(q) /\ p[k] = r /\ p[j] = q[j]
      BY <1>1, <2>2, <2>4
    <3> QED
      BY <2>1, <3>1
  <2>5. CASE j # n /\ k # n
    <3>1. j \in DOMAIN q /\ k \in DOMAIN q /\ p[k] = q[k] /\ p[j] = q[j]
      BY <1>1, <2>2, <2>5
    <3> QED
      BY <1>3, <2>2, <3>1 DEF Apart
  <2> QED
    BY <2>3, <2>4, <2>5
<1> QED
  BY <1>2, <1>3 DEF p

(* What a queue answers for, of its first request and of the rest. *)
LEMMA TokensTail ==
  ASSUME NEW S, NEW q \in Seq(S), q # <<>>
  PROVE  /\ Tokens(q) = Claims(Head(q)) \union Tokens(Tail(q))
         /\ Apart(q) => /\ Apart(Tail(q))
                        /\ Claims(Head(q)) \intersect Tokens(Tail(q)) = {}
<1> DEFINE p == Tail(q)
<1>1. /\ Len(q) \in Nat \ {0} /\ DOMAIN q = 1 .. Len(q)
      /\ p \in Seq(S) /\ Len(p) = Len(q) - 1 /\ DOMAIN p = 1 .. Len(q) - 1
      /\ \A k \in 1 .. Len(q) - 1 : p[k] = q[k + 1]
      /\ Head(q) = q[1]
  OBVIOUS
<1> HIDE DEF p
<1>2. \A k \in 1 .. Len(q) : k = 1 \/ (k - 1 \in DOMAIN p /\ p[k - 1] = q[k])
  BY <1>1
<1>3. \A k \in DOMAIN p : k + 1 \in DOMAIN q /\ q[k + 1] = p[k] /\ k + 1 # 1
  BY <1>1
<1>4. 1 \in DOMAIN q
  BY <1>1
<1>5. Tokens(q) = Claims(Head(q)) \union Tokens(p)
  <2>1. ASSUME NEW x, x \in Tokens(q) PROVE x \in Claims(Head(q)) \union Tokens(p)
    <3>1. PICK k \in 1 .. Len(q) : x \in Claims(q[k])
      BY <2>1, <1>1 DEF Tokens
    <3> QED
      BY <3>1, <1>2, <1>1 DEF Tokens
  <2>2. ASSUME NEW x, x \in Claims(Head(q)) \union Tokens(p) PROVE x \in Tokens(q)
    BY <2>2, <1>1, <1>3, <1>4 DEF Tokens
  <2> QED
    BY <2>1, <2>2
<1>6. ASSUME Apart(q) PROVE Apart(p) /\ Claims(Head(q)) \intersect Tokens(p) = {}
  <2>1. Apart(p)
    <3> SUFFICES ASSUME NEW j \in DOMAIN p, NEW k \in DOMAIN p, j # k
                 PROVE  Claims(p[j]) \intersect Claims(p[k]) = {}
      BY DEF Apart
    <3>1. /\ j + 1 \in DOMAIN q /\ q[j + 1] = p[j]
          /\ k + 1 \in DOMAIN q /\ q[k + 1] = p[k]
          /\ j + 1 # k + 1
      BY <1>1, <1>3
    <3> QED
      BY <1>6, <3>1 DEF Apart
  <2>2. ASSUME NEW x, x \in Claims(Head(q)), x \in Tokens(p) PROVE FALSE
    <3>1. PICK k \in DOMAIN p : x \in Claims(p[k])
      BY <2>2 DEF Tokens
    <3>2. Claims(q[1]) \intersect Claims(q[k + 1]) = {}
      BY <1>6, <1>3, <1>4 DEF Apart
    <3> QED
      BY <2>2, <3>1, <3>2, <1>1, <1>3
  <2> QED
    BY <2>1, <2>2
<1> QED
  BY <1>5, <1>6 DEF p

(* An empty queue answers for nothing. *)
LEMMA EmptyQueue ==
  ASSUME NEW q, q = <<>>
  PROVE  Tokens(q) = {} /\ Apart(q) /\ \A port : Queued(q, port)
<1>1. DOMAIN q = {}
  OBVIOUS
<1>2. Tokens(q) = {}
  BY <1>1 DEF Tokens
<1>3. Apart(q) /\ \A port : Queued(q, port)
  BY <1>1, Zenon DEF Apart, Queued
<1> QED
  BY <1>2, <1>3

-----------------------------------------------------------------------------
(* Requests that are sent.                                                 *)

(* What Asked() builds. *)
LEMMA AskedIsRequest ==
  ASSUME NEW h \in Host, NEW op \in {"enable", "disable", "create", "terminate"},
         NEW id \in Ids \union {NoId}, NEW by \in Inputs \union {Nobody},
         NEW role \in {"task", "drop", "handoff", "close", "retire", "unbind", "release",
                      "ready", "user"}
  PROVE  /\ Asked(h, op, id, by, role) \in Request
         /\ Asked(h, op, id, by, role).op = op /\ Asked(h, op, id, by, role).id = id
         /\ Asked(h, op, id, by, role).bind = h.port
         /\ Asked(h, op, id, by, role).by = by /\ Asked(h, op, id, by, role).role = role
<1>1. h.port \in Binds
  BY DEF Host
<1> QED
  BY <1>1 DEF Asked, Request

(* What is in hand goes out with the request that answers for it from now on. *)
LEMMA SentIsSane ==
  ASSUME NEW h, NEW Y, NEW t, NEW op, NEW id, NEW by, NEW role,
         Formed(Asked(h, op, id, by, role)),
         Claims(Asked(h, op, id, by, role)) \intersect Y = {},
         Sane(h, Claims(Asked(h, op, id, by, role)) \union Y, t),
         op = "create" => id \notin t
  PROVE  Sane(Sent(h, op, id, by, role), Y, t)
<1> DEFINE r == Asked(h, op, id, by, role)
           q == Append(h.uplink, r)
           g == Sent(h, op, id, by, role)
<1>1. r.op = op /\ r.id = id /\ r.bind = h.port /\ r \in Request /\ h.port # 0
  BY DEF Formed, Asked
<1> HIDE DEF r
<1>2. h \in Host /\ h.uplink \in Seq(Request)
  BY DEF Sane, Host
<1>3. g = [h EXCEPT !.uplink = q]
  BY DEF Sent, r
<1>4. q \in Seq(Request)
  BY <1>1, <1>2
<1>5. /\ g \in Host /\ g.uplink = q /\ g.port = h.port /\ g.bound = h.bound
      /\ g.ids = h.ids /\ g.life = h.life /\ g.stream = h.stream /\ g.task = h.task
  BY <1>2, <1>3, <1>4 DEF Host
<1>6. Tokens(q) = Tokens(h.uplink) \union Claims(r)
  BY <1>1, <1>2, TokensAppend
<1>7. /\ Queued(h.uplink, h.port) /\ Apart(h.uplink)
      /\ Tokens(h.uplink) \intersect (Claims(r) \union Y) = {}
  BY DEF Sane, Wired, r
<1>8. Wired(q, g.port, Y)
  <2>1. Apart(q)
    BY <1>1, <1>2, <1>7, TokensAppend
  <2>2. Tokens(q) \intersect Y = {}
    BY <1>6, <1>7 DEF r
  <2>3. Queued(q, h.port)
    <3>1. Formed(r)
      BY DEF r
    <3> QED
      BY <1>1, <1>2, <1>7, <3>1 DEF Queued
  <2> QED
    BY <2>1, <2>2, <2>3, <1>5 DEF Wired
<1>9. Good(g, Tokens(q) \union Y)
  <2>1. Tokens(q) \union Y = Tokens(h.uplink) \union (Claims(r) \union Y)
    BY <1>6
  <2>2. Good(h, Tokens(h.uplink) \union (Claims(r) \union Y))
    BY DEF Sane, r
  <2> QED
    BY <1>5, <2>1, <2>2 DEF Good, TasksOK, ChainOK, CloseOK, StreamsOK, IdsOK, NativeOK
<1>10. Covers(g, t)
  <2>1. Covers(h, t)
    BY DEF Sane
  <2>2. \A k \in DOMAIN q : q[k].op = "create" => q[k].id \notin t
    BY <1>1, <1>2, <2>1 DEF Covers
  <2> QED
    BY <1>1, <1>5, <2>1, <2>2 DEF Covers
<1> QED
  BY <1>5, <1>8, <1>9, <1>10 DEF Sane

-----------------------------------------------------------------------------
(* Changes of the host that send nothing. *)

(* A change that sends nothing and leaves the device alone is sane when it agrees with
   what is answered for. *)
LEMMA ChangeIsSane ==
  ASSUME NEW h, NEW g \in Host, NEW Y, NEW Z, NEW t,
         Sane(h, Y, t),
         g.uplink = h.uplink, g.port = h.port,
         Z \intersect Tokens(h.uplink) = {},
         Good(g, Tokens(h.uplink) \union Z),
         g.port # 0 => t \subseteq g.ids
  PROVE  Sane(g, Z, t)
<1>1. Wired(g.uplink, g.port, Z)
  BY DEF Sane, Wired
<1>2. Covers(g, t)
  BY DEF Sane, Covers
<1> QED
  BY <1>1, <1>2 DEF Sane

(* Only these fields matter. *)
LEMMA SameIsSane ==
  ASSUME NEW h, NEW g \in Host, NEW Y, NEW t, Sane(h, Y, t),
         g.uplink = h.uplink, g.port = h.port, g.bound = h.bound, g.ids = h.ids,
         g.life = h.life, g.stream = h.stream, g.task = h.task
  PROVE  Sane(g, Y, t)
  BY DEF Sane, Good, TasksOK, ChainOK, CloseOK, StreamsOK, IdsOK, NativeOK, Covers

(* The task of an input and the token that answers for it change together. *)
LEMMA TaskIsSane ==
  ASSUME NEW h, NEW g \in Host, NEW Y, NEW t, NEW i \in Inputs, NEW s \in Tasks \union {"idle"},
         TaskClaim(i, h.task[i]) \intersect Y = {},
         Sane(h, TaskClaim(i, h.task[i]) \union Y, t),
         g = [h EXCEPT !.task[i] = s],
         h.stream[i] # NoId => s \in {"idle", "handoff"},
         i \in NativeInputs /\ h.stream[i] # NoId =>
           s = "handoff" \/ \A j \in JsInputs : h.stream[j] = NoId
  PROVE  /\ Sane(g, TaskClaim(i, s) \union Y, t)
         /\ TaskClaim(i, s) \intersect Y = {}
<1> DEFINE U == Tokens(h.uplink)
           Old == TaskClaim(i, h.task[i])
           New == TaskClaim(i, s)
           T == U \union (Old \union Y)
           S == U \union (New \union Y)
<1>1. h \in Host /\ Good(h, T)
  BY DEF Sane
<1>2. /\ g.uplink = h.uplink /\ g.port = h.port /\ g.bound = h.bound
      /\ g.ids = h.ids /\ g.life = h.life /\ g.stream = h.stream
      /\ \A j \in Inputs : g.task[j] = IF j = i THEN s ELSE h.task[j]
  BY <1>1 DEF Host
<1>3. h.task[i] \in Tasks \union {"idle", "unanswered"}
  BY <1>1 DEF Host, Tasks
<1>4. U \intersect (Old \union Y) = {}
  BY DEF Sane, Wired
<1> HIDE DEF U
<1>5. \A x \in Tasks : <<"task", i, x>> \notin U \union Y
  <2> TAKE x \in Tasks
  <2>1. x # "idle"
    BY DEF Tasks
  <2>2. SUFFICES ASSUME <<"task", i, x>> \in U \union Y PROVE FALSE
    OBVIOUS
  <2>3. <<"task", i, x>> \in T
    BY <2>2
  <2>4. h.task[i] = x
    BY <2>3, <1>1 DEF Good, TasksOK
  <2>5. <<"task", i, x>> \in Old
    BY <2>1, <2>4 DEF TaskClaim
  <2> QED
    BY <2>2, <2>5, <1>4
<1>6. /\ New \subseteq {<<"task", i, x>> : x \in Tasks}
      /\ Old \subseteq {<<"task", i, x>> : x \in Tasks \union {"unanswered"}}
  BY <1>3 DEF TaskClaim
<1>7. New \intersect (U \union Y) = {}
  BY <1>5, <1>6
<1>8. TasksOK(g, S)
  <2> SUFFICES ASSUME NEW j \in Inputs, NEW x \in Tasks
               PROVE  g.task[j] = x <=> <<"task", j, x>> \in S
    BY DEF TasksOK
  <2>1. CASE j = i
    <3>1. <<"task", j, x>> \in S <=> <<"task", j, x>> \in New
      BY <1>5, <2>1
    <3>2. <<"task", i, x>> \in New <=> x = s
      BY DEF TaskClaim, Tasks
    <3> QED
      BY <1>2, <2>1, <3>1, <3>2
  <2>2. CASE j # i
    <3>1. <<"task", j, x>> \notin New /\ <<"task", j, x>> \notin Old
      BY <2>2 DEF TaskClaim
    <3>2. h.task[j] = x <=> <<"task", j, x>> \in T
      BY <1>1 DEF Good, TasksOK
    <3> QED
      BY <1>2, <2>2, <3>1, <3>2
  <2> QED
    BY <2>1, <2>2
<1>9. /\ <<"chain">> \in S => <<"chain">> \in T
      /\ \A j : <<"close", j>> \in S => <<"close", j>> \in T
      /\ \A j : <<"id", j>> \in S <=> <<"id", j>> \in T
  BY <1>6
<1>10. ChainOK(g, S) /\ CloseOK(g, S)
  BY <1>1, <1>2, <1>9 DEF Good, ChainOK, CloseOK
<1>11. StreamsOK(g, S)
  BY <1>1, <1>2, <1>9 DEF Good, StreamsOK
<1>12. IdsOK(g, S)
  BY <1>1, <1>2, <1>9 DEF Good, IdsOK
<1>13. NativeOK(g)
  BY <1>1, <1>2 DEF Good, NativeOK, Inputs
<1>14. Good(g, S)
  BY <1>8, <1>10, <1>11, <1>12, <1>13 DEF Good
<1>15. g.port # 0 => t \subseteq g.ids
  BY <1>2 DEF Sane, Covers
<1> QED
  <2> DEFINE X == Old \union Y
             Z == New \union Y
  <2>0. Sane(h, X, t)
    OBVIOUS
  <2>1. Z \intersect Tokens(h.uplink) = {}
    BY <1>4, <1>7 DEF U
  <2>2. Good(g, Tokens(h.uplink) \union Z)
    BY <1>14 DEF U
  <2> HIDE DEF X, Z
  <2>3. Sane(g, Z, t)
    BY <2>0, <2>1, <2>2, <1>2, <1>15, ChangeIsSane
  <2> QED
    BY <2>3, <1>7 DEF Z

(* An id that is taken from the pool is in hand, and no stream of the table has it. *)
LEMMA IdTakenIsSane ==
  ASSUME NEW h, NEW g \in Host, NEW Y, NEW t, NEW m \in Ids \ h.ids,
         Sane(h, Y, t), h.port # 0, g = [h EXCEPT !.ids = @ \union {m}]
  PROVE  /\ Sane(g, IdClaim(m) \union Y, t)
         /\ IdClaim(m) \intersect Y = {}
         /\ m \notin t
<1> DEFINE U == Tokens(h.uplink)
           New == IdClaim(m)
           T == U \union Y
           S == U \union (New \union Y)
<1>1. h \in Host /\ Good(h, T)
  BY DEF Sane
<1>2. /\ g.uplink = h.uplink /\ g.port = h.port /\ g.bound = h.bound
      /\ g.ids = h.ids \union {m} /\ g.life = h.life /\ g.stream = h.stream
      /\ g.task = h.task
  BY <1>1 DEF Host
<1>3. New = {<<"id", m>>}
  BY DEF IdClaim, Ids, NoId
<1>4. U \intersect Y = {}
  BY DEF Sane, Wired
<1> HIDE DEF U
<1>5. <<"id", m>> \notin T /\ \A i \in Inputs : h.stream[i] # m
  BY <1>1 DEF Good, IdsOK
<1>6. /\ <<"chain">> \in S => <<"chain">> \in T
      /\ \A j : <<"close", j>> \in S => <<"close", j>> \in T
      /\ \A j, x : <<"task", j, x>> \in S <=> <<"task", j, x>> \in T
      /\ \A x : <<"id", x>> \in S <=> x = m \/ <<"id", x>> \in T
  BY <1>3
<1>7. TasksOK(g, S) /\ ChainOK(g, S) /\ CloseOK(g, S)
  BY <1>1, <1>2, <1>6 DEF Good, TasksOK, ChainOK, CloseOK
<1>8. StreamsOK(g, S)
  BY <1>1, <1>2, <1>5, <1>6 DEF Good, StreamsOK
<1>9. IdsOK(g, S)
  BY <1>1, <1>2, <1>5, <1>6 DEF Good, IdsOK
<1>10. NativeOK(g)
  BY <1>1, <1>2 DEF Good, NativeOK
<1>11. Good(g, S)
  BY <1>7, <1>8, <1>9, <1>10 DEF Good
<1>12. t \subseteq h.ids
  BY DEF Sane, Covers
<1>13. New \intersect (U \union Y) = {}
  BY <1>3, <1>5
<1> QED
  <2> DEFINE Z == New \union Y
  <2>1. Z \intersect Tokens(h.uplink) = {}
    BY <1>4, <1>13 DEF U
  <2>2. Good(g, Tokens(h.uplink) \union Z)
    BY <1>11 DEF U
  <2> HIDE DEF Z
  <2>3. Sane(g, Z, t)
    BY <2>1, <2>2, <1>2, <1>12, ChangeIsSane
  <2> QED
    BY <2>3, <1>12, <1>13 DEF Z

(* An id in hand goes back to the pool when no stream of the table has it. *)
LEMMA IdFreedIsSane ==
  ASSUME NEW h, NEW g \in Host, NEW Y, NEW t, NEW m \in Ids \union {NoId},
         IdClaim(m) \intersect Y = {},
         Sane(h, IdClaim(m) \union Y, t), m \notin t \/ h.port = 0,
         g = [h EXCEPT !.ids = @ \ {m}]
  PROVE  Sane(g, Y, t)
<1> DEFINE U == Tokens(h.uplink)
           Old == IdClaim(m)
           T == U \union (Old \union Y)
           S == U \union Y
<1>1. h \in Host /\ Good(h, T)
  BY DEF Sane
<1>2. /\ g.uplink = h.uplink /\ g.port = h.port /\ g.bound = h.bound
      /\ g.ids = h.ids \ {m} /\ g.life = h.life /\ g.stream = h.stream
      /\ g.task = h.task
  BY <1>1 DEF Host
<1>3. U \intersect (Old \union Y) = {}
  BY DEF Sane, Wired
<1> HIDE DEF U
<1>4. \A x : <<"id", x>> \in Old <=> x = m /\ m # NoId
  BY DEF IdClaim
<1>5. m \in Ids => m # NoId
  BY DEF Ids, NoId
<1>6. /\ <<"chain">> \in S => <<"chain">> \in T
      /\ \A j : <<"close", j>> \in S => <<"close", j>> \in T
      /\ \A j, x : <<"task", j, x>> \in S <=> <<"task", j, x>> \in T
      /\ \A x : x # m => (<<"id", x>> \in S <=> <<"id", x>> \in T)
      /\ \A x : <<"id", x>> \in S => <<"id", x>> \in T
      /\ m \in Ids => <<"id", m>> \in T /\ <<"id", m>> \notin S
  BY <1>3, <1>4, <1>5 DEF IdClaim
<1>7. TasksOK(g, S) /\ ChainOK(g, S) /\ CloseOK(g, S)
  BY <1>1, <1>2, <1>6 DEF Good, TasksOK, ChainOK, CloseOK
<1>8. StreamsOK(g, S)
  BY <1>1, <1>2, <1>6 DEF Good, StreamsOK
<1>9. \A i \in Inputs : m \in Ids => h.stream[i] # m
  BY <1>1, <1>5, <1>6 DEF Good, StreamsOK
<1>10. IdsOK(g, S)
  <2>1. \A id \in Ids :
          id \in h.ids <=>
            h.port # 0 /\ (<<"id", id>> \in T \/ \E i \in Inputs : h.stream[i] = id)
    BY <1>1 DEF Good, IdsOK
  <2>2. \A id \in Ids :
          id \in g.ids <=>
            g.port # 0 /\ (<<"id", id>> \in S \/ \E i \in Inputs : g.stream[i] = id)
    <3> TAKE id \in Ids
    <3>1. CASE id = m
      <4>1. id \notin g.ids /\ <<"id", id>> \notin S /\ \A i \in Inputs : g.stream[i] # id
        BY <3>1, <1>2, <1>6, <1>9
      <4> QED
        BY <4>1
    <3>2. CASE id # m
      <4>1. id \in g.ids <=> id \in h.ids
        BY <3>2, <1>2
      <4>2. <<"id", id>> \in S <=> <<"id", id>> \in T
        BY <3>2, <1>6
      <4> QED
        BY <2>1, <4>1, <4>2, <1>2
    <3> QED
      BY <3>1, <3>2
  <2> QED
    BY <2>2 DEF IdsOK
<1>11. NativeOK(g)
  BY <1>1, <1>2 DEF Good, NativeOK
<1>12. Good(g, S)
  BY <1>7, <1>8, <1>10, <1>11 DEF Good
<1>13. g.port # 0 => t \subseteq g.ids
  BY <1>2 DEF Sane, Covers
<1> QED
  <2> DEFINE Z == Y
  <2>1. Z \intersect Tokens(h.uplink) = {}
    BY <1>3 DEF U
  <2>2. Good(g, Tokens(h.uplink) \union Z)
    BY <1>12 DEF U
  <2> HIDE DEF Z
  <2>3. Sane(g, Z, t)
    BY <2>1, <2>2, <1>2, <1>13, ChangeIsSane
  <2> QED
    BY <2>3, <1>2 DEF Z

(* An input lets go of its stream: the id is in hand. *)
LEMMA StreamDroppedIsSane ==
  ASSUME NEW h, NEW g \in Host, NEW Y, NEW t, NEW i \in Inputs,
         Sane(h, Y, t), h.stream[i] # NoId,
         g.uplink = h.uplink, g.port = h.port, g.bound = h.bound, g.ids = h.ids,
         g.life = h.life, g.task = h.task, g.stream = [h.stream EXCEPT ![i] = NoId]
  PROVE  /\ Sane(g, IdClaim(h.stream[i]) \union Y, t)
         /\ IdClaim(h.stream[i]) \intersect Y = {}
<1> DEFINE U == Tokens(h.uplink)
           m == h.stream[i]
           New == IdClaim(m)
           T == U \union Y
           S == U \union (New \union Y)
<1>1. h \in Host /\ Good(h, T)
  BY DEF Sane
<1>2. \A j \in Inputs : g.stream[j] = IF j = i THEN NoId ELSE h.stream[j]
  BY <1>1 DEF Host
<1>3. New = {<<"id", m>>}
  BY DEF IdClaim
<1>4. U \intersect Y = {}
  BY DEF Sane, Wired
<1> HIDE DEF U
<1>5. m \in Ids
  BY <1>1 DEF Host
<1>6. <<"id", m>> \notin T /\ h.port # 0 /\ \A j \in Inputs : h.stream[j] = m => j = i
  BY <1>1 DEF Good, StreamsOK
<1>7. /\ <<"chain">> \in S => <<"chain">> \in T
      /\ \A j : <<"close", j>> \in S => <<"close", j>> \in T
      /\ \A j, x : <<"task", j, x>> \in S <=> <<"task", j, x>> \in T
      /\ \A x : <<"id", x>> \in S <=> x = m \/ <<"id", x>> \in T
  BY <1>3
<1>8. TasksOK(g, S) /\ ChainOK(g, S) /\ CloseOK(g, S)
  BY <1>1, <1>7 DEF Good, TasksOK, ChainOK, CloseOK
<1>9. StreamsOK(g, S)
  <2> SUFFICES ASSUME NEW j \in Inputs, g.stream[j] # NoId
               PROVE  /\ g.life[j] = "open" /\ g.port # 0
                      /\ g.task[j] \in {"idle", "handoff"}
                      /\ <<"id", g.stream[j]>> \notin S
                      /\ \A k \in Inputs : g.stream[k] = g.stream[j] => k = j
    BY DEF StreamsOK
  <2>1. j # i /\ g.stream[j] = h.stream[j] /\ h.stream[j] # m
    BY <1>2, <1>6
  <2>2. /\ h.life[j] = "open" /\ h.port # 0
        /\ h.task[j] \in {"idle", "handoff"}
        /\ <<"id", h.stream[j]>> \notin T
        /\ \A k \in Inputs : h.stream[k] = h.stream[j] => k = j
    BY <2>1, <1>1 DEF Good, StreamsOK
  <2> QED
    BY <2>1, <2>2, <1>2, <1>7
<1>10. IdsOK(g, S)
  <2>1. \A id \in Ids :
          id \in h.ids <=>
            h.port # 0 /\ (<<"id", id>> \in T \/ \E j \in Inputs : h.stream[j] = id)
    BY <1>1 DEF Good, IdsOK
  <2>2. \A id \in Ids :
          id \in g.ids <=>
            g.port # 0 /\ (<<"id", id>> \in S \/ \E j \in Inputs : g.stream[j] = id)
    <3> TAKE id \in Ids
    <3>1. CASE id = m
      <4>1. id \in h.ids
        BY <2>1, <1>6, <3>1
      <4>2. <<"id", id>> \in S
        BY <1>7, <3>1
      <4> QED
        BY <4>1, <4>2, <1>6
    <3>2. CASE id # m
      <4>1. <<"id", id>> \in S <=> <<"id", id>> \in T
        BY <3>2, <1>7
      <4>2. id # NoId
        BY DEF Ids, NoId
      <4>3. \A j \in Inputs : h.stream[j] = id <=> g.stream[j] = id
        BY <1>2, <3>2, <4>2
      <4> QED
        BY <2>1, <4>1, <4>3
    <3> QED
      BY <3>1, <3>2
  <2> QED
    BY <2>2 DEF IdsOK
<1>11. NativeOK(g)
  BY <1>1, <1>2 DEF Good, NativeOK, Inputs
<1>12. Good(g, S)
  BY <1>8, <1>9, <1>10, <1>11 DEF Good
<1>13. g.port # 0 => t \subseteq g.ids
  BY DEF Sane, Covers
<1>14. New \intersect (U \union Y) = {}
  BY <1>3, <1>6
<1> QED
  <2> DEFINE Z == New \union Y
  <2>1. Z \intersect Tokens(h.uplink) = {}
    BY <1>4, <1>14 DEF U
  <2>2. Good(g, Tokens(h.uplink) \union Z)
    BY <1>12 DEF U
  <2> HIDE DEF Z
  <2>3. Sane(g, Z, t)
    BY <2>1, <2>2, <1>13, ChangeIsSane
  <2> QED
    BY <2>3, <1>14 DEF Z

(* An input that may stream takes the id in hand as its stream. *)
LEMMA StreamGivenIsSane ==
  ASSUME NEW h, NEW g \in Host, NEW Y, NEW t, NEW i \in Inputs, NEW m \in Ids,
         IdClaim(m) \intersect Y = {}, Sane(h, IdClaim(m) \union Y, t),
         h.stream[i] = NoId, h.life[i] = "open", h.port # 0,
         h.task[i] \in {"idle", "handoff"},
         i \in NativeInputs =>
           h.task[i] = "handoff" \/ \A j \in JsInputs : h.stream[j] = NoId,
         i \in JsInputs => \A n \in NativeInputs : h.stream[n] = NoId,
         g = [h EXCEPT !.stream[i] = m]
  PROVE  Sane(g, Y, t)
<1> DEFINE U == Tokens(h.uplink)
           Old == IdClaim(m)
           T == U \union (Old \union Y)
           S == U \union Y
<1>1. h \in Host /\ Good(h, T)
  BY DEF Sane
<1>2. /\ g.uplink = h.uplink /\ g.port = h.port /\ g.bound = h.bound
      /\ g.ids = h.ids /\ g.life = h.life /\ g.task = h.task
      /\ \A j \in Inputs : g.stream[j] = IF j = i THEN m ELSE h.stream[j]
  BY <1>1 DEF Host
<1>3. Old = {<<"id", m>>} /\ m # NoId
  BY DEF IdClaim, Ids, NoId
<1>4. U \intersect (Old \union Y) = {}
  BY DEF Sane, Wired
<1> HIDE DEF U
<1>5. <<"id", m>> \in T /\ <<"id", m>> \notin S
  BY <1>3, <1>4
<1>6. \A j \in Inputs : h.stream[j] # m
  BY <1>1, <1>3, <1>5 DEF Good, StreamsOK
<1>7. /\ <<"chain">> \in S => <<"chain">> \in T
      /\ \A j : <<"close", j>> \in S => <<"close", j>> \in T
      /\ \A j, x : <<"task", j, x>> \in S <=> <<"task", j, x>> \in T
      /\ \A x : <<"id", x>> \in T <=> x = m \/ <<"id", x>> \in S
  BY <1>3
<1>8. TasksOK(g, S) /\ ChainOK(g, S) /\ CloseOK(g, S)
  BY <1>1, <1>2, <1>7 DEF Good, TasksOK, ChainOK, CloseOK
<1>9. StreamsOK(g, S)
  <2> SUFFICES ASSUME NEW j \in Inputs, g.stream[j] # NoId
               PROVE  /\ g.life[j] = "open" /\ g.port # 0
                      /\ g.task[j] \in {"idle", "handoff"}
                      /\ <<"id", g.stream[j]>> \notin S
                      /\ \A k \in Inputs : g.stream[k] = g.stream[j] => k = j
    BY DEF StreamsOK
  <2>1. CASE j = i
    BY <2>1, <1>2, <1>5, <1>6
  <2>2. CASE j # i
    <3>1. /\ h.life[j] = "open" /\ h.port # 0
          /\ h.task[j] \in {"idle", "handoff"}
          /\ <<"id", h.stream[j]>> \notin T
          /\ \A k \in Inputs : h.stream[k] = h.stream[j] => k = j
      BY <2>2, <1>1, <1>2 DEF Good, StreamsOK
    <3> QED
      BY <2>2, <3>1, <1>2, <1>6, <1>7
  <2> QED
    BY <2>1, <2>2
<1>10. IdsOK(g, S)
  <2>1. \A id \in Ids :
          id \in h.ids <=>
            h.port # 0 /\ (<<"id", id>> \in T \/ \E j \in Inputs : h.stream[j] = id)
    BY <1>1 DEF Good, IdsOK
  <2>2. \A id \in Ids :
          id \in g.ids <=>
            g.port # 0 /\ (<<"id", id>> \in S \/ \E j \in Inputs : g.stream[j] = id)
    <3> TAKE id \in Ids
    <3>1. CASE id = m
      <4>1. id \in h.ids /\ g.stream[i] = id
        BY <2>1, <1>2, <1>5, <3>1
      <4> QED
        BY <4>1, <1>2
    <3>2. CASE id # m
      <4>1. <<"id", id>> \in S <=> <<"id", id>> \in T
        BY <3>2, <1>7
      <4>2. id # NoId
        BY DEF Ids, NoId
      <4>3. \A j \in Inputs : h.stream[j] = id <=> g.stream[j] = id
        BY <1>2, <3>2, <4>2
      <4> QED
        BY <2>1, <4>1, <4>3, <1>2
    <3> QED
      BY <3>1, <3>2
  <2> QED
    BY <2>2 DEF IdsOK
<1>11. NativeOK(g)
  <2> SUFFICES ASSUME NEW n \in NativeInputs, g.stream[n] # NoId
               PROVE  g.task[n] = "handoff" \/ \A j \in JsInputs : g.stream[j] = NoId
    BY DEF NativeOK
  <2>1. n \in Inputs /\ \A j \in JsInputs : j \in Inputs /\ j # n
    BY DEF Inputs
  <2>2. CASE n = i
    BY <2>1, <2>2, <1>2
  <2>3. CASE n # i
    <3>1. h.stream[n] # NoId /\ i \notin JsInputs
      BY <2>1, <2>3, <1>2
    <3> QED
      BY <3>1, <2>1, <1>1, <1>2 DEF Good, NativeOK
  <2> QED
    BY <2>2, <2>3
<1>12. Good(g, S)
  BY <1>8, <1>9, <1>10, <1>11 DEF Good
<1>13. g.port # 0 => t \subseteq g.ids
  BY <1>2 DEF Sane, Covers
<1> QED
  <2> DEFINE X == Old \union Y
  <2>0. Sane(h, X, t)
    OBVIOUS
  <2>1. Y \intersect Tokens(h.uplink) = {}
    BY <1>4 DEF U
  <2>2. Good(g, Tokens(h.uplink) \union Y)
    BY <1>12 DEF U
  <2> HIDE DEF X
  <2> QED
    BY <2>0, <2>1, <2>2, <1>2, <1>13, ChangeIsSane

(* An input without a stream moves on in its life; its close is in hand then. *)
LEMMA LifeIsSane ==
  ASSUME NEW h, NEW g \in Host, NEW Y, NEW t, NEW i \in Inputs, NEW l,
         Sane(h, Y, t), h.stream[i] = NoId, h.life[i] # "closing",
         g = [h EXCEPT !.life[i] = l]
  PROVE  /\ Sane(g, Y, t)
         /\ l = "closing" => Sane(g, {<<"close", i>>} \union Y, t)
         /\ <<"close", i>> \notin Y
<1> DEFINE U == Tokens(h.uplink)
           T == U \union Y
           New == {<<"close", i>>}
<1>1. h \in Host /\ Good(h, T)
  BY DEF Sane
<1>2. /\ g.uplink = h.uplink /\ g.port = h.port /\ g.bound = h.bound
      /\ g.ids = h.ids /\ g.stream = h.stream /\ g.task = h.task
      /\ \A j \in Inputs : g.life[j] = IF j = i THEN l ELSE h.life[j]
  BY <1>1 DEF Host
<1>3. U \intersect Y = {}
  BY DEF Sane, Wired
<1> HIDE DEF U
<1>4. <<"close", i>> \notin T
  BY <1>1 DEF Good, CloseOK
<1>5. Good(g, T)
  <2>1. CloseOK(g, T)
    BY <1>1, <1>2, <1>4 DEF Good, CloseOK
  <2>2. StreamsOK(g, T)
    BY <1>1, <1>2 DEF Good, StreamsOK
  <2>3. TasksOK(g, T) /\ ChainOK(g, T) /\ IdsOK(g, T) /\ NativeOK(g)
    BY <1>1, <1>2 DEF Good, TasksOK, ChainOK, IdsOK, NativeOK
  <2> QED
    BY <2>1, <2>2, <2>3 DEF Good
<1>6. g.port # 0 => t \subseteq g.ids
  BY <1>2 DEF Sane, Covers
<1>7. Sane(g, Y, t)
  <2>1. Y \intersect Tokens(h.uplink) = {}
    BY <1>3 DEF U
  <2>2. Good(g, Tokens(h.uplink) \union Y)
    BY <1>5 DEF U
  <2> QED
    BY <2>1, <2>2, <1>2, <1>6, ChangeIsSane
<1>8. ASSUME l = "closing" PROVE Sane(g, New \union Y, t)
  <2> DEFINE Z == New \union Y
             S == U \union Z
  <2>1. Z \intersect Tokens(h.uplink) = {}
    BY <1>3, <1>4 DEF U
  <2>2. /\ <<"chain">> \in S => <<"chain">> \in T
        /\ \A j : <<"close", j>> \in S => <<"close", j>> \in T \/ j = i
        /\ \A j, x : <<"task", j, x>> \in S <=> <<"task", j, x>> \in T
        /\ \A x : <<"id", x>> \in S <=> <<"id", x>> \in T
    OBVIOUS
  <2>3. CloseOK(g, S)
    BY <1>5, <1>8, <1>2, <2>2 DEF Good, CloseOK
  <2>4. StreamsOK(g, S)
    BY <1>5, <2>2 DEF Good, StreamsOK
  <2>5. TasksOK(g, S) /\ ChainOK(g, S) /\ IdsOK(g, S) /\ NativeOK(g)
    BY <1>5, <2>2 DEF Good, TasksOK, ChainOK, IdsOK, NativeOK
  <2>6. Good(g, Tokens(h.uplink) \union Z)
    BY <2>3, <2>4, <2>5 DEF Good, U
  <2> HIDE DEF Z
  <2>7. Sane(g, Z, t)
    BY <2>1, <2>6, <1>2, <1>6, ChangeIsSane
  <2> QED
    BY <2>7 DEF Z
<1> QED
  BY <1>4, <1>7, <1>8

(* The close in hand is over. *)
LEMMA ClosedIsSane ==
  ASSUME NEW h, NEW g \in Host, NEW Y, NEW t, NEW i \in Inputs,
         <<"close", i>> \notin Y, Sane(h, {<<"close", i>>} \union Y, t),
         g = [h EXCEPT !.life[i] = "closed"]
  PROVE  Sane(g, Y, t)
<1> DEFINE U == Tokens(h.uplink)
           X == {<<"close", i>>} \union Y
           T == U \union X
           S == U \union Y
<1>1. h \in Host /\ Good(h, T)
  BY DEF Sane
<1>2. /\ g.uplink = h.uplink /\ g.port = h.port /\ g.bound = h.bound
      /\ g.ids = h.ids /\ g.stream = h.stream /\ g.task = h.task
      /\ \A j \in Inputs : g.life[j] = IF j = i THEN "closed" ELSE h.life[j]
  BY <1>1 DEF Host
<1>3. U \intersect X = {}
  BY DEF Sane, Wired
<1> HIDE DEF U
<1>4. /\ <<"chain">> \in S => <<"chain">> \in T
      /\ \A j : <<"close", j>> \in S => <<"close", j>> \in T /\ j # i
      /\ \A j, x : <<"task", j, x>> \in S <=> <<"task", j, x>> \in T
      /\ \A x : <<"id", x>> \in S <=> <<"id", x>> \in T
  BY <1>3
<1>5. h.life[i] = "closing"
  BY <1>1 DEF Good, CloseOK
<1>6. Good(g, S)
  <2>1. CloseOK(g, S)
    BY <1>1, <1>2, <1>4 DEF Good, CloseOK
  <2>2. StreamsOK(g, S)
    BY <1>1, <1>2, <1>4, <1>5 DEF Good, StreamsOK
  <2>3. TasksOK(g, S) /\ ChainOK(g, S) /\ IdsOK(g, S) /\ NativeOK(g)
    BY <1>1, <1>2, <1>4 DEF Good, TasksOK, ChainOK, IdsOK, NativeOK
  <2> QED
    BY <2>1, <2>2, <2>3 DEF Good
<1>7. g.port # 0 => t \subseteq g.ids
  BY <1>2 DEF Sane, Covers
<1>8. Y \intersect Tokens(h.uplink) = {}
  BY <1>3 DEF U
<1>9. Good(g, Tokens(h.uplink) \union Y)
  BY <1>6 DEF U
<1>10. Sane(h, X, t)
  OBVIOUS
<1> HIDE DEF X
<1> QED
  BY <1>2, <1>7, <1>8, <1>9, <1>10, ChangeIsSane

(* The chain of steps of a disconnect begins when the controller is unbound; it
   ends, as that of a connect does, when nothing of it is in hand or on its way. *)
LEMMA ChainBeginsSane ==
  ASSUME NEW h, NEW g \in Host, NEW Y, NEW t, Sane(h, Y, t), h.bound # 0,
         g.uplink = h.uplink, g.port = h.port, g.bound = 0, g.ids = h.ids,
         g.life = h.life, g.stream = h.stream, g.task = h.task
  PROVE  Sane(g, {<<"chain">>} \union Y, t) /\ <<"chain">> \notin Y /\ g.port # 0
<1> DEFINE U == Tokens(h.uplink)
           T == U \union Y
           Z == {<<"chain">>} \union Y
           S == U \union Z
<1>1. h \in Host /\ Good(h, T)
  BY DEF Sane
<1>2. U \intersect Y = {}
  BY DEF Sane, Wired
<1> HIDE DEF U
<1>3. <<"chain">> \notin T /\ h.port # 0
  BY <1>1 DEF Good, ChainOK
<1>4. /\ \A j : <<"close", j>> \in S <=> <<"close", j>> \in T
      /\ \A j, x : <<"task", j, x>> \in S <=> <<"task", j, x>> \in T
      /\ \A x : <<"id", x>> \in S <=> <<"id", x>> \in T
  OBVIOUS
<1>5. Good(g, S)
  BY <1>1, <1>3, <1>4
  DEF Good, TasksOK, ChainOK, CloseOK, StreamsOK, IdsOK, NativeOK
<1>6. g.port # 0 => t \subseteq g.ids
  BY DEF Sane, Covers
<1>7. Z \intersect Tokens(h.uplink) = {}
  BY <1>2, <1>3 DEF U
<1>8. Good(g, Tokens(h.uplink) \union Z)
  BY <1>5 DEF U
<1> HIDE DEF Z
<1>9. Sane(g, Z, t)
  BY <1>6, <1>7, <1>8, ChangeIsSane
<1> QED
  BY <1>3, <1>9 DEF Z

(* The connect or disconnect in hand is over. *)
LEMMA ChainEndsSane ==
  ASSUME NEW h, NEW g \in Host, NEW Y, NEW t,
         <<"chain">> \notin Y, Sane(h, {<<"chain">>} \union Y, t),
         g.uplink = h.uplink, g.port = h.port, g.bound \in {0, h.port}, g.ids = h.ids,
         g.life = h.life, g.stream = h.stream, g.task = h.task
  PROVE  Sane(g, Y, t)
<1> DEFINE U == Tokens(h.uplink)
           X == {<<"chain">>} \union Y
           T == U \union X
           S == U \union Y
<1>1. h \in Host /\ Good(h, T)
  BY DEF Sane
<1>2. U \intersect X = {}
  BY DEF Sane, Wired
<1> HIDE DEF U
<1>3. <<"chain">> \notin S
  BY <1>2
<1>4. /\ \A j : <<"close", j>> \in S <=> <<"close", j>> \in T
      /\ \A j, x : <<"task", j, x>> \in S <=> <<"task", j, x>> \in T
      /\ \A x : <<"id", x>> \in S <=> <<"id", x>> \in T
  OBVIOUS
<1>5. Good(g, S)
  BY <1>1, <1>3, <1>4
  DEF Good, TasksOK, ChainOK, CloseOK, StreamsOK, IdsOK, NativeOK
<1>6. g.port # 0 => t \subseteq g.ids
  BY DEF Sane, Covers
<1>7. Y \intersect Tokens(h.uplink) = {}
  BY <1>2 DEF U
<1>8. Good(g, Tokens(h.uplink) \union Y)
  BY <1>5 DEF U
<1>9. Sane(h, X, t)
  OBVIOUS
<1> HIDE DEF X
<1> QED
  BY <1>6, <1>7, <1>8, <1>9, ChangeIsSane

(* The last step of a disconnect: the device is closed, and its ids with it. *)
LEMMA ReleasedIsSane ==
  ASSUME NEW h, NEW g, NEW Y, NEW t,
         <<"chain">> \notin Y, Sane(h, {<<"chain">>} \union Y, t),
         \A i \in Inputs : h.stream[i] = NoId,
         g = [Sent(h, "disable", NoId, Nobody, "release") EXCEPT !.port = 0, !.ids = {}]
  PROVE  Sane(g, Y, t)
<1> DEFINE U == Tokens(h.uplink)
           X == {<<"chain">>} \union Y
           T == U \union X
           S == U \union Y
           r == Asked(h, "disable", NoId, Nobody, "release")
           q == Append(h.uplink, r)
<1>1. h \in Host /\ Good(h, T)
  BY DEF Sane
<1>2. U \intersect X = {}
  BY DEF Sane, Wired
<1> HIDE DEF U
<1>3. <<"chain">> \notin S
  BY <1>2
<1>4. h.port # 0 /\ h.bound = 0
  BY <1>1 DEF Good, ChainOK
<1>5. r \in Request /\ Formed(r) /\ Claims(r) = {} /\ r.op = "disable"
  <2>1. r \in Request
    BY <1>1, AskedIsRequest
  <2>2. /\ r.op = "disable" /\ r.role = "release" /\ r.id = NoId /\ r.bind = h.port
    BY <1>1, AskedIsRequest
  <2> HIDE DEF r
  <2>3. Formed(r)
    BY <1>4, <2>1, <2>2 DEF Formed
  <2>4. Claims(r) = {}
    BY <2>2 DEF Claims, IdClaim, TaskClaim, CloseClaim, ChainClaim, Doing
  <2> QED
    BY <2>1, <2>2, <2>3, <2>4
<1> HIDE DEF r
<1>6. h.uplink \in Seq(Request) /\ q \in Seq(Request)
  BY <1>1, <1>5 DEF Host
<1> HIDE DEF q
<1>7. g = [h EXCEPT !.uplink = q, !.port = 0, !.ids = {}]
  BY <1>1 DEF Sent, q, r, Host
<1>8. /\ g \in Host /\ g.uplink = q /\ g.port = 0 /\ g.bound = 0 /\ g.ids = {}
      /\ g.life = h.life /\ g.stream = h.stream /\ g.task = h.task
  BY <1>1, <1>4, <1>6, <1>7 DEF Host, Binds
<1>9. Tokens(q) = U /\ Apart(q)
  <2>1. Apart(h.uplink)
    BY DEF Sane, Wired
  <2>2. /\ Tokens(q) = Tokens(h.uplink) \union Claims(r)
        /\ Apart(h.uplink) /\ Claims(r) \intersect Tokens(h.uplink) = {} => Apart(q)
    BY <1>5, <1>6, TokensAppend DEF q
  <2> QED
    BY <2>1, <2>2, <1>5 DEF U
<1>10. \A k \in DOMAIN q : (k \in DOMAIN h.uplink /\ q[k] = h.uplink[k]) \/ q[k] = r
  BY <1>5, <1>6 DEF q
<1>11. Queued(q, 0)
  BY <1>5, <1>10 DEF Sane, Wired, Queued
<1>12. Good(g, S)
  <2>1. /\ \A j : <<"close", j>> \in S <=> <<"close", j>> \in T
        /\ \A j, x : <<"task", j, x>> \in S <=> <<"task", j, x>> \in T
    OBVIOUS
  <2> QED
    BY <2>1, <1>1, <1>3, <1>8
    DEF Good, TasksOK, ChainOK, CloseOK, StreamsOK, IdsOK, NativeOK
<1>13. Covers(g, t)
  <2>1. q # <<>> /\ q[Len(q)] = r
    BY <1>5, <1>6 DEF q
  <2>2. \A k \in DOMAIN h.uplink : h.uplink[k].op = "create" => h.uplink[k].id \notin t
    BY DEF Sane, Covers
  <2>3. \A k \in DOMAIN q : q[k].op = "create" => q[k].id \notin t
    BY <2>2, <1>5, <1>10
  <2> QED
    BY <2>1, <2>3, <1>5, <1>8 DEF Covers
<1> QED
  BY <1>2, <1>8, <1>9, <1>11, <1>12, <1>13 DEF Sane, Wired

-----------------------------------------------------------------------------
(* The functions of the controller node. *)

(* A request that nothing waits for but its reply. *)
PlainFit(op, role) ==
  \/ role = "retire" /\ op = "disable"
  \/ role = "user" /\ op \in {"enable", "disable"}

(* An enable or disable that answers for nothing may be sent at any time. *)
LEMMA PlainIsSane ==
  ASSUME NEW h, NEW Y, NEW t, NEW op, NEW role, Sane(h, Y, t), h.port # 0,
         PlainFit(op, role)
  PROVE  /\ Sane(Sent(h, op, NoId, Nobody, role), Y, t)
         /\ Sent(h, op, NoId, Nobody, role).port = h.port
<1> DEFINE r == Asked(h, op, NoId, Nobody, role)
<1> USE DEF PlainFit
<1>1. h \in Host
  BY DEF Sane
<1>2. r \in Request /\ r.op = op /\ r.role = role /\ r.id = NoId /\ r.bind = h.port
  <2>1. /\ op \in {"enable", "disable", "create", "terminate"}
        /\ role \in {"task", "drop", "handoff", "close", "retire", "unbind", "release",
                    "ready", "user"}
        /\ NoId \in Ids \union {NoId} /\ Nobody \in Inputs \union {Nobody}
    OBVIOUS
  <2> QED
    BY <1>1, <2>1, AskedIsRequest
<1> HIDE DEF r
<1>3. Formed(r)
  BY <1>2 DEF Formed
<1>4. Claims(r) = {}
  BY <1>2 DEF Claims, IdClaim, TaskClaim, CloseClaim, ChainClaim, Doing
<1>5. Sane(Sent(h, op, NoId, Nobody, role), Y, t)
  <2>1. Claims(r) \intersect Y = {} /\ Claims(r) \union Y = Y
    BY <1>4
  <2> QED
    BY <1>3, <2>1, SentIsSane DEF r
<1> QED
  BY <1>1, <1>5 DEF Sent, Host

(* disableIfLast() is sane. *)
LEMMA DisabledIfLastIsSane ==
  ASSUME NEW h, NEW Y, NEW t, Sane(h, Y, t)
  PROVE  Sane(DisabledIfLast(h), Y, t) /\ DisabledIfLast(h).port = h.port
<1>1. h.bound # 0 => h.port # 0
  BY DEF Sane, Good, ChainOK
<1> QED
  BY <1>1, PlainIsSane DEF DisabledIfLast, PlainFit

(* The end of a close is sane: of an input without a stream, or when its TERMINATE
   is answered. *)
LEMMA RetiredIsSane ==
  ASSUME NEW h, NEW Y, NEW t, NEW i \in Inputs,
         \/ Sane(h, Y, t) /\ h.stream[i] = NoId /\ h.life[i] # "closing"
         \/ Sane(h, {<<"close", i>>} \union Y, t) /\ <<"close", i>> \notin Y
  PROVE  Sane(Retired(h, i), Y, t) /\ Retired(h, i).port = h.port
<1> DEFINE g == [h EXCEPT !.life[i] = "closed"]
<1>1. h \in Host
  BY DEF Sane
<1>2. g \in Host /\ g.port = h.port
  BY <1>1 DEF Host
<1>3. g = [h EXCEPT !.life[i] = "closed"]
  OBVIOUS
<1> HIDE DEF g
<1>5. Sane(g, Y, t)
  <2>1. CASE Sane(h, Y, t) /\ h.stream[i] = NoId /\ h.life[i] # "closing"
    BY <1>2, <1>3, <2>1, LifeIsSane
  <2>2. CASE Sane(h, {<<"close", i>>} \union Y, t) /\ <<"close", i>> \notin Y
    BY <1>2, <1>3, <2>2, ClosedIsSane
  <2> QED
    BY <2>1, <2>2
<1>4. Retired(h, i) = DisabledIfLast(g)
  BY DEF Retired, g
<1> QED
  BY <1>2, <1>4, <1>5, DisabledIfLastIsSane

(* A task in hand may end, except that of a native input besides a JS stream. *)
LEMMA IdleIsSane ==
  ASSUME NEW h, NEW Y, NEW t, NEW i \in Inputs,
         TaskClaim(i, h.task[i]) \intersect Y = {},
         Sane(h, TaskClaim(i, h.task[i]) \union Y, t),
         i \in NativeInputs /\ h.stream[i] # NoId =>
           \A j \in JsInputs : h.stream[j] = NoId
  PROVE  Sane(Idle(h, i), Y, t) /\ Idle(h, i).port = h.port
<1>1. h \in Host
  BY DEF Sane
<1>2. Idle(h, i) \in Host /\ Idle(h, i).port = h.port
  BY <1>1 DEF Idle, Host
<1>3. TaskClaim(i, "idle") = {}
  BY DEF TaskClaim
<1>4. Sane(Idle(h, i), TaskClaim(i, "idle") \union Y, t)
  BY <1>2, TaskIsSane DEF Idle
<1>5. TaskClaim(i, "idle") \union Y = Y
  BY <1>3
<1> QED
  BY <1>2, <1>4, <1>5

(* A request of a task goes out when the task is where the request says. *)
TaskOf == [enable |-> "enabling", create |-> "creating", terminate |-> "discarding"]

TaskSent(h, op, id, i) == Sent([h EXCEPT !.task[i] = TaskOf[op]], op, id, i, "task")

(* What is in hand when it goes out. *)
TaskReady(h, Y, t, op, id, i) ==
  /\ i \in Inputs /\ h.stream[i] = NoId /\ h.port # 0
  /\ op \in {"enable", "create", "terminate"} /\ id \in Ids \union {NoId}
  /\ id = NoId <=> op = "enable"
  /\ op = "create" => id \notin t
  /\ TaskClaim(i, h.task[i]) \intersect Y = {} /\ IdClaim(id) \intersect Y = {}
  /\ Sane(h, TaskClaim(i, h.task[i]) \union (IdClaim(id) \union Y), t)

(* The next request of a task in hand is sane. *)
LEMMA TaskSentIsSane ==
  ASSUME NEW h, NEW Y, NEW t, NEW op, NEW id, NEW i, TaskReady(h, Y, t, op, id, i)
  PROVE  Sane(TaskSent(h, op, id, i), Y, t) /\ TaskSent(h, op, id, i).port = h.port
<1> USE DEF TaskReady
<1> DEFINE g == [h EXCEPT !.task[i] = TaskOf[op]]
           r == Asked(g, op, id, i, "task")
           Z == IdClaim(id) \union Y
           s == TaskOf[op]
<1>1. h \in Host
  BY DEF Sane
<1>2. s \in Tasks
  BY DEF Tasks, TaskOf
<1>16. id \in Ids \union {NoId}
  OBVIOUS
<1>3. g \in Host /\ g.port = h.port
  BY <1>1, <1>2 DEF Host, Tasks
<1>4. TaskClaim(i, h.task[i]) \intersect Z = {}
  BY DEF TaskClaim, IdClaim
<1>5. Sane(h, TaskClaim(i, h.task[i]) \union Z, t)
  OBVIOUS
<1>17. g = [h EXCEPT !.task[i] = s]
  OBVIOUS
<1> HIDE DEF Z, g, s
<1>6. Sane(g, TaskClaim(i, s) \union Z, t) /\ TaskClaim(i, s) \intersect Z = {}
  BY <1>2, <1>3, <1>4, <1>5, <1>17, TaskIsSane
<1>7. /\ r \in Request /\ r.op = op /\ r.role = "task" /\ r.id = id
      /\ r.bind = h.port /\ r.by = i
  <2>1. /\ op \in {"enable", "disable", "create", "terminate"}
        /\ "task" \in {"task", "drop", "handoff", "close", "retire", "unbind", "release",
                    "ready", "user"}
        /\ i \in Inputs \union {Nobody} /\ g \in Host
    BY <1>3
  <2>2. /\ r \in Request /\ r.op = op /\ r.role = "task" /\ r.id = id
        /\ r.bind = g.port /\ r.by = i
    BY ONLY <2>1, <1>16, AskedIsRequest
  <2> QED
    BY <1>3, <2>2
<1> HIDE DEF r
<1>8. Formed(r)
  BY <1>7 DEF Formed
<1>9. Doing(r) = s
  BY <1>7 DEF Doing, TaskOf, s
<1>10. CloseClaim(r.by, r.role) = {} /\ ChainClaim(r.role) = {}
  BY <1>7 DEF CloseClaim, ChainClaim
<1>11. Claims(r) = IdClaim(id) \union TaskClaim(i, s)
  BY <1>7, <1>9, <1>10 DEF Claims
<1>12. Claims(r) \intersect Y = {} /\ Claims(r) \union Y = TaskClaim(i, s) \union Z
  BY <1>6, <1>11 DEF Z
<1>13. Sane(g, Claims(r) \union Y, t)
  BY <1>6, <1>12
<1>14. op = "create" => id \notin t
  OBVIOUS
<1>15. Sane(Sent(g, op, id, i, "task"), Y, t)
  BY <1>8, <1>12, <1>13, <1>14, SentIsSane DEF r
<1> QED
  BY <1>3, <1>15 DEF TaskSent, Sent, Host, g, s

(* The least element of a set of numbers. *)
LEMMA LeastNat ==
  ASSUME NEW T \in SUBSET Nat, T # {}
  PROVE  Min(T) \in T /\ \A m \in T : Min(T) <= m
<1> DEFINE R == OpToRel(<, Nat)
<1>1. IsWellFoundedOn(R, Nat)
  BY NatLessThanWellFounded
<1>2. PICK n \in T : \A m \in T : ~ (<<m, n>> \in R)
  <2> HIDE DEF R
  <2>. QED BY <1>1, WFMin
<1>3. ASSUME NEW m \in T PROVE n <= m
  <2>1. m \in Nat /\ n \in Nat
    OBVIOUS
  <2>2. <<m, n>> \notin {ss \in Nat \X Nat : ss[1] < ss[2]}
    BY <1>2 DEF OpToRel
  <2>3. ~ (m < n)
    BY ONLY <2>1, <2>2
  <2>. QED BY <2>1, <2>3
<1>. QED BY <1>3 DEF Min

(* createStream() of a task in hand is sane: it takes a free id, or gives up. *)
LEMMA AskedToCreateIsSane ==
  ASSUME NEW h, NEW Y, NEW t, NEW i \in Inputs,
         TaskClaim(i, h.task[i]) \intersect Y = {},
         Sane(h, TaskClaim(i, h.task[i]) \union Y, t),
         h.stream[i] = NoId
  PROVE  Sane(AskedToCreate(h, i), Y, t) /\ AskedToCreate(h, i).port = h.port
<1>1. CASE h.port = 0 \/ Free(h) = {}
  BY <1>1, IdleIsSane DEF AskedToCreate
<1>2. CASE h.port # 0 /\ Free(h) # {}
  <2> DEFINE m == Min(Free(h))
             g == [h EXCEPT !.ids = @ \union {m}]
             Old == TaskClaim(i, h.task[i])
  <2>1. h \in Host
    BY DEF Sane
  <2>2. m \in Free(h)
    BY <1>2, LeastNat DEF Free, Ids
  <2> HIDE DEF m
  <2>3. m \in Ids \ h.ids /\ m # NoId
    BY <2>2 DEF Free, Ids, NoId
  <2>4. /\ g \in Host /\ g.port = h.port /\ g.task = h.task
        /\ g.stream = h.stream
    BY <2>1, <2>3 DEF Host
  <2>5. /\ Sane(g, IdClaim(m) \union (Old \union Y), t)
        /\ IdClaim(m) \intersect (Old \union Y) = {}
        /\ m \notin t
    BY <1>2, <2>3, <2>4, IdTakenIsSane
  <2>6. IdClaim(m) \union (Old \union Y) = TaskClaim(i, g.task[i]) \union (IdClaim(m) \union Y)
    BY <2>4
  <2>7. /\ Sane(g, TaskClaim(i, g.task[i]) \union (IdClaim(m) \union Y), t)
        /\ IdClaim(m) \intersect Y = {}
        /\ TaskClaim(i, g.task[i]) \intersect Y = {}
    BY <2>4, <2>5, <2>6
  <2>8. AskedToCreate(h, i) = TaskSent(g, "create", m, i)
    BY <1>2, <2>1 DEF AskedToCreate, TaskSent, TaskOf, m, Sent, Host
  <2>9. TaskReady(g, Y, t, "create", m, i)
    <3> HIDE DEF g, Old
    <3>1. g.stream[i] = NoId /\ g.port # 0 /\ m \in Ids \union {NoId} /\ m # NoId /\ m \notin t
      BY <1>2, <2>3, <2>4, <2>5
    <3>2. "create" \in {"enable", "create", "terminate"} /\ "create" # "enable"
      OBVIOUS
    <3> QED
      BY <2>7, <3>1, <3>2, Zenon DEF TaskReady
  <2> HIDE DEF g
  <2>10. Sane(TaskSent(g, "create", m, i), Y, t) /\ TaskSent(g, "create", m, i).port = g.port
    BY <2>9, TaskSentIsSane
  <2> QED
    BY <2>4, <2>8, <2>10
<1> QED
  BY <1>1, <1>2

(* An idle input without a stream may start its task. *)
LEMMA StartedIsSane ==
  ASSUME NEW h, NEW Y, NEW t, NEW i \in Inputs, Sane(h, Y, t),
         h.stream[i] = NoId, h.task[i] = "idle", h.port # 0
  PROVE  Sane(Started(h, i), Y, t) /\ Started(h, i).port = h.port
<1>1. TaskClaim(i, h.task[i]) = {} /\ IdClaim(NoId) = {}
  BY DEF TaskClaim, IdClaim
<1>2. Sane(h, TaskClaim(i, h.task[i]) \union Y, t)
  <2>1. TaskClaim(i, h.task[i]) \union Y = Y
    BY <1>1
  <2> QED
    BY <2>1
<1>3. CASE h.enabled
  BY <1>1, <1>2, <1>3, AskedToCreateIsSane DEF Started
<1>4. CASE ~ h.enabled
  <2>1. Started(h, i) = TaskSent(h, "enable", NoId, i)
    BY <1>4 DEF Started, TaskSent, TaskOf
  <2>2. TaskClaim(i, h.task[i]) \union (IdClaim(NoId) \union Y) = TaskClaim(i, h.task[i]) \union Y
    BY <1>1
  <2>3. TaskReady(h, Y, t, "enable", NoId, i)
    BY <1>1, <1>2, <2>2 DEF TaskReady
  <2> QED
    BY <2>1, <2>3, TaskSentIsSane
<1> QED
  BY <1>3, <1>4

(* What a TERMINATE answers for besides its id. *)
Ends(by, role) ==
  IF role = "handoff" THEN {<<"task", by, "handoff">>}
  ELSE IF role = "close" THEN {<<"close", by>>}
  ELSE IF role = "unbind" THEN {<<"chain">>}
  ELSE {}

EndsFit(by, role) ==
  \/ role \in {"drop", "unbind"} /\ by = Nobody
  \/ role = "handoff" /\ by \in NativeInputs
  \/ role = "close" /\ by \in Inputs

EndReady(h, Y, t, id, by, role) ==
  /\ id \in Ids /\ EndsFit(by, role) /\ h.port # 0
  /\ Ends(by, role) \intersect Y = {} /\ IdClaim(id) \intersect Y = {}
  /\ Sane(h, IdClaim(id) \union (Ends(by, role) \union Y), t)

(* A TERMINATE of an id in hand is sane. *)
LEMMA TerminateIsSane ==
  ASSUME NEW h, NEW Y, NEW t, NEW id, NEW by, NEW role, EndReady(h, Y, t, id, by, role)
  PROVE  /\ Sane(Sent(h, "terminate", id, by, role), Y, t)
         /\ Sent(h, "terminate", id, by, role).port = h.port
<1> USE DEF EndReady
<1> DEFINE r == Asked(h, "terminate", id, by, role)
<1>1. h \in Host
  BY DEF Sane
<1>2. /\ r \in Request /\ r.op = "terminate" /\ r.role = role /\ r.id = id
      /\ r.bind = h.port /\ r.by = by
  <2>1. /\ "terminate" \in {"enable", "disable", "create", "terminate"}
        /\ role \in {"task", "drop", "handoff", "close", "retire", "unbind", "release",
                    "ready", "user"}
        /\ by \in Inputs \union {Nobody} /\ id \in Ids \union {NoId}
    BY DEF EndsFit, Inputs
  <2> QED
    BY ONLY <1>1, <2>1, AskedIsRequest
<1> HIDE DEF r
<1>3. id # NoId
  BY DEF Ids, NoId
<1>4. Formed(r)
  BY <1>2, <1>3 DEF Formed, EndsFit
<1>5. Claims(r) = IdClaim(id) \union Ends(by, role)
  <2>1. CASE role \in {"drop", "unbind"}
    BY <2>1, <1>2 DEF Claims, Ends, Doing, TaskClaim, CloseClaim, ChainClaim
  <2>2. CASE role = "handoff"
    BY <2>2, <1>2 DEF Claims, Ends, Doing, TaskClaim, CloseClaim, ChainClaim
  <2>3. CASE role = "close"
    BY <2>3, <1>2 DEF Claims, Ends, Doing, TaskClaim, CloseClaim, ChainClaim
  <2> QED
    BY <2>1, <2>2, <2>3 DEF EndsFit
<1>6. /\ Claims(r) \intersect Y = {}
      /\ Claims(r) \union Y = IdClaim(id) \union (Ends(by, role) \union Y)
  BY <1>5
<1>7. Sane(h, Claims(r) \union Y, t)
  BY <1>6
<1>8. Sane(Sent(h, "terminate", id, by, role), Y, t)
  BY <1>4, <1>6, <1>7, SentIsSane DEF r
<1> QED
  BY <1>1, <1>8 DEF Sent, Host

(* An input drops its stream, for whatever reason. *)
LEMMA DroppedIsSane ==
  ASSUME NEW h, NEW Y, NEW t, NEW i \in Inputs, NEW by, NEW role, EndsFit(by, role),
         Ends(by, role) \intersect Y = {}, Sane(h, Ends(by, role) \union Y, t),
         h.stream[i] # NoId
  PROVE  /\ Sane(Dropped(h, i, by, role), Y, t)
         /\ Dropped(h, i, by, role).port = h.port
<1> DEFINE g == [h EXCEPT !.stream[i] = NoId,
                          !.attached = [n \in NativeInputs |-> @[n] /\ n # i]]
           Z == Ends(by, role) \union Y
           m == h.stream[i]
<1>1. h \in Host /\ h.port # 0
  BY DEF Sane, Good, StreamsOK
<1>2. m \in Ids
  BY <1>1 DEF Host
<1>3. /\ g.uplink = h.uplink /\ g.port = h.port /\ g.bound = h.bound /\ g.ids = h.ids
      /\ g.life = h.life /\ g.task = h.task /\ g.stream = [h.stream EXCEPT ![i] = NoId]
  BY <1>1 DEF Host
<1>4. g \in Host
  <2>1. h.attached \in [NativeInputs -> BOOLEAN]
    BY <1>1 DEF Host
  <2>2. [n \in NativeInputs |-> h.attached[n] /\ n # i] \in [NativeInputs -> BOOLEAN]
    BY <2>1
  <2> QED
    BY <1>1, <2>2 DEF Host
<1>5. Dropped(h, i, by, role) = Sent(g, "terminate", m, by, role)
  BY DEF Dropped
<1> HIDE DEF g
<1>6. Sane(h, Z, t)
  OBVIOUS
<1> HIDE DEF Z
<1>7. Sane(g, IdClaim(m) \union Z, t) /\ IdClaim(m) \intersect Z = {}
  BY <1>3, <1>4, <1>6, StreamDroppedIsSane
<1>8. IdClaim(m) \intersect Y = {} /\ Sane(g, IdClaim(m) \union (Ends(by, role) \union Y), t)
  BY <1>7 DEF Z
<1> HIDE DEF m
<1>9. EndReady(g, Y, t, m, by, role)
  BY <1>1, <1>2, <1>3, <1>8 DEF EndReady
<1> QED
  BY <1>3, <1>5, <1>9, TerminateIsSane

(* A handoff drops one JS stream after the other; without any it is over. *)
LEMMA HandoffIsSane ==
  ASSUME NEW h, NEW Y, NEW t, NEW n \in NativeInputs,
         TaskClaim(n, h.task[n]) \intersect Y = {},
         Sane(h, TaskClaim(n, h.task[n]) \union Y, t),
         h.task[n] # "idle"
  PROVE  Sane(Handoff(h, n), Y, t) /\ Handoff(h, n).port = h.port
<1> DEFINE js == Streaming(h, JsInputs)
<1>1. h \in Host /\ n \in Inputs
  BY DEF Sane, Inputs
<1>2. CASE js = {}
  <2> DEFINE g == [h EXCEPT !.attached[n] = TRUE]
  <2>1. /\ g \in Host /\ g.uplink = h.uplink /\ g.port = h.port /\ g.bound = h.bound
        /\ g.ids = h.ids /\ g.life = h.life /\ g.stream = h.stream /\ g.task = h.task
    BY <1>1 DEF Host
  <2>2. Handoff(h, n) = Idle(g, n)
    BY <1>2 DEF Handoff
  <2> HIDE DEF g
  <2>3. Sane(g, TaskClaim(n, g.task[n]) \union Y, t)
    BY <2>1, SameIsSane
  <2>4. /\ \A j \in JsInputs : g.stream[j] = NoId
        /\ TaskClaim(n, g.task[n]) \intersect Y = {}
    BY <1>2, <2>1 DEF Streaming
  <2>5. Sane(Idle(g, n), Y, t) /\ Idle(g, n).port = g.port
    BY ONLY <1>1, <2>3, <2>4, IdleIsSane
  <2> QED
    BY <2>1, <2>2, <2>5
<1>3. CASE js # {}
  <2> DEFINE i == CHOOSE j \in js : TRUE
             g == [h EXCEPT !.task[n] = "handoff"]
  <2>1. i \in js
    BY <1>3
  <2>2. Handoff(h, n) = Dropped(g, i, n, "handoff")
    BY <1>3 DEF Handoff
  <2> HIDE DEF i
  <2>3. i \in Inputs /\ h.stream[i] # NoId
    BY <2>1 DEF Streaming, Inputs
  <2>4. g \in Host /\ g.port = h.port /\ g.stream = h.stream
    BY <1>1 DEF Host
  <2>5. g = [h EXCEPT !.task[n] = "handoff"]
    OBVIOUS
  <2> HIDE DEF g
  <2>6. TaskClaim(n, "handoff") = Ends(n, "handoff") /\ EndsFit(n, "handoff")
    BY DEF TaskClaim, Ends, EndsFit
  <2>7. /\ Sane(g, TaskClaim(n, "handoff") \union Y, t)
        /\ TaskClaim(n, "handoff") \intersect Y = {}
    <3>1. "handoff" \in Tasks \union {"idle"}
      BY DEF Tasks
    <3>2. h.stream[n] # NoId => "handoff" \in {"idle", "handoff"}
      OBVIOUS
    <3>3. n \in NativeInputs /\ h.stream[n] # NoId =>
            "handoff" = "handoff" \/ \A j \in JsInputs : h.stream[j] = NoId
      OBVIOUS
    <3> QED
      BY <1>1, <2>4, <2>5, <3>1, <3>2, <3>3, TaskIsSane
  <2>8. Sane(g, Ends(n, "handoff") \union Y, t) /\ Ends(n, "handoff") \intersect Y = {}
    BY <2>6, <2>7
  <2>9. /\ Sane(Dropped(g, i, n, "handoff"), Y, t)
        /\ Dropped(g, i, n, "handoff").port = g.port
    BY ONLY <2>3, <2>4, <2>6, <2>8, DroppedIsSane
  <2> QED
    BY <2>2, <2>4, <2>9
<1> QED
  BY <1>2, <1>3

(* sync() of a native input is sane. *)
LEMMA SyncedIsSane ==
  ASSUME NEW h, NEW Y, NEW t, NEW n \in NativeInputs, Sane(h, Y, t)
  PROVE  Sane(Synced(h, n), Y, t) /\ Synced(h, n).port = h.port
<1>1. CASE h.life[n] = "open" /\ CanStart(h, n)
  <2>1. h.stream[n] = NoId /\ h.task[n] = "idle" /\ h.port # 0 /\ n \in Inputs
    BY <1>1 DEF CanStart, Sane, Good, ChainOK, Inputs
  <2> QED
    BY <1>1, <2>1, StartedIsSane DEF Synced
<1>2. CASE ~ (h.life[n] = "open" /\ CanStart(h, n))
  BY <1>2 DEF Synced
<1> QED
  BY <1>1, <1>2

(* The stream that was asked for is kept, or given back if it comes too late. *)
StreamReady(h, Y, t, i, id) ==
  /\ i \in Inputs /\ id \in Ids /\ h.task[i] = "creating" /\ h.port # 0
  /\ TaskClaim(i, "creating") \intersect (IdClaim(id) \union Y) = {}
  /\ IdClaim(id) \intersect Y = {}
  /\ Sane(h, TaskClaim(i, "creating") \union (IdClaim(id) \union Y), t)

(* The stream that was created becomes that of the input, or is discarded. *)
LEMMA CreatedIsSane ==
  ASSUME NEW h, NEW Y, NEW t, NEW i, NEW id, StreamReady(h, Y, t, i, id)
  PROVE  Sane(Created(h, i, id, h.port), Y, t) /\ Created(h, i, id, h.port).port = h.port
<1> USE DEF StreamReady
<1> DEFINE Z == IdClaim(id) \union Y
           T == TaskClaim(i, "creating")
<1>1. h \in Host /\ Good(h, Tokens(h.uplink) \union (T \union Z))
  BY DEF Sane
<1>2. h.stream[i] = NoId
  BY <1>1 DEF Good, StreamsOK
<1>3. id # NoId
  BY DEF Ids, NoId
<1>4. CASE Outdated(h, i, h.port)
  <2>1. Created(h, i, id, h.port) = TaskSent(h, "terminate", id, i)
    BY <1>4 DEF Created, TaskSent, TaskOf
  <2>2. TaskReady(h, Y, t, "terminate", id, i)
    BY <1>2, <1>3 DEF TaskReady
  <2> QED
    BY <2>1, <2>2, TaskSentIsSane
<1>5. CASE ~ Outdated(h, i, h.port) /\ i \in JsInputs
  <2> DEFINE k == Idle(h, i)
             g == [k EXCEPT !.stream[i] = id]
  <2>1. Created(h, i, id, h.port) = g
    BY <1>1, <1>5 DEF Created, Idle, Host
  <2>2. /\ k \in Host /\ k.port = h.port /\ k.stream = h.stream /\ k.life = h.life
        /\ k.task[i] = "idle"
    BY <1>1 DEF Idle, Host
  <2>3. g \in Host /\ g.port = k.port
    BY <2>2 DEF Host
  <2>4. Sane(k, Z, t)
    <3>1. i \in NativeInputs /\ h.stream[i] # NoId => \A j \in JsInputs : h.stream[j] = NoId
      BY <1>2
    <3>2. /\ TaskClaim(i, h.task[i]) \intersect Z = {}
          /\ Sane(h, TaskClaim(i, h.task[i]) \union Z, t)
      OBVIOUS
    <3> HIDE DEF Z, T
    <3> QED
      BY <3>1, <3>2, IdleIsSane
  <2>5. h.life[i] = "open" /\ \A n \in NativeInputs : h.stream[n] = NoId
    BY <1>1, <1>5 DEF Outdated, NativeEngaged, Good, StreamsOK, Inputs
  <2>6. /\ k.stream[i] = NoId /\ k.life[i] = "open" /\ k.port # 0
        /\ k.task[i] \in {"idle", "handoff"}
        /\ (i \in NativeInputs =>
              k.task[i] = "handoff" \/ \A j \in JsInputs : k.stream[j] = NoId)
        /\ (i \in JsInputs => \A n \in NativeInputs : k.stream[n] = NoId)
    BY <1>2, <1>5, <2>2, <2>5
  <2>7. Sane(k, IdClaim(id) \union Y, t) /\ g = [k EXCEPT !.stream[i] = id]
    BY <2>4
  <2> HIDE DEF k, g, Z
  <2>8. Sane(g, Y, t)
    BY <2>3, <2>6, <2>7, StreamGivenIsSane
  <2> QED
    BY <2>1, <2>2, <2>3, <2>8
<1>6. CASE ~ Outdated(h, i, h.port) /\ i \notin JsInputs
  <2> DEFINE k == [h EXCEPT !.task[i] = "handoff"]
             g == [k EXCEPT !.stream[i] = id]
             New == TaskClaim(i, "handoff")
  <2>1. i \in NativeInputs
    BY <1>6 DEF Inputs
  <2>2. /\ k \in Host /\ k.port = h.port /\ k.stream = h.stream /\ k.life = h.life
        /\ k.task[i] = "handoff"
    BY <1>1 DEF Host
  <2>3. /\ g \in Host /\ g.port = k.port /\ g.task[i] = "handoff"
    BY <2>2 DEF Host
  <2>4. Created(h, i, id, h.port) = Handoff(g, i)
    <3> DEFINE held == [h EXCEPT !.stream[i] = id]
    <3>1. held.stream = g.stream
      BY <1>1 DEF Host
    <3>2. Streaming(held, JsInputs) = Streaming(g, JsInputs)
      BY <3>1 DEF Streaming
    <3>3. Idle([held EXCEPT !.attached[i] = TRUE], i) = Idle([g EXCEPT !.attached[i] = TRUE], i)
      BY <1>1 DEF Idle, Host
    <3>4. [held EXCEPT !.task[i] = "handoff"] = [g EXCEPT !.task[i] = "handoff"]
      BY <1>1 DEF Host
    <3>5. Created(h, i, id, h.port) = Handoff(held, i)
      BY <1>6 DEF Created
    <3> HIDE DEF held, g
    <3> QED
      BY <3>2, <3>3, <3>4, <3>5 DEF Handoff
  <2>5. Sane(k, New \union Z, t) /\ New \intersect Z = {}
    <3>1. /\ "handoff" \in Tasks \union {"idle"}
          /\ TaskClaim(i, h.task[i]) \intersect Z = {}
          /\ Sane(h, TaskClaim(i, h.task[i]) \union Z, t)
          /\ (h.stream[i] # NoId => "handoff" \in {"idle", "handoff"})
          /\ (i \in NativeInputs /\ h.stream[i] # NoId =>
                "handoff" = "handoff" \/ \A j \in JsInputs : h.stream[j] = NoId)
      BY DEF Tasks
    <3>2. k = [h EXCEPT !.task[i] = "handoff"]
      OBVIOUS
    <3> HIDE DEF Z, T, k
    <3> QED
      BY <2>2, <3>1, <3>2, TaskIsSane
  <2>6. New \union Z = IdClaim(id) \union (New \union Y)
    OBVIOUS
  <2>7. IdClaim(id) \intersect (New \union Y) = {} /\ New \intersect Y = {}
    BY <2>5
  <2>8. Sane(k, IdClaim(id) \union (New \union Y), t)
    BY <2>5, <2>6
  <2>9. /\ k.stream[i] = NoId /\ k.life[i] = "open" /\ k.port # 0
        /\ k.task[i] \in {"idle", "handoff"}
        /\ (i \in NativeInputs =>
              k.task[i] = "handoff" \/ \A j \in JsInputs : k.stream[j] = NoId)
        /\ (i \in JsInputs => \A n \in NativeInputs : k.stream[n] = NoId)
        /\ g = [k EXCEPT !.stream[i] = id]
    BY <1>2, <1>6, <2>2 DEF Outdated
  <2> DEFINE V == New \union Y
  <2>10. IdClaim(id) \intersect V = {} /\ Sane(k, IdClaim(id) \union V, t)
    BY <2>7, <2>8
  <2> HIDE DEF k, g, V, New
  <2>11. Sane(g, V, t)
    BY <2>3, <2>9, <2>10, StreamGivenIsSane
  <2>12. /\ TaskClaim(i, g.task[i]) \intersect Y = {} /\ g.task[i] # "idle"
         /\ Sane(g, TaskClaim(i, g.task[i]) \union Y, t)
    BY <2>3, <2>7, <2>11 DEF V, New
  <2>13. Sane(Handoff(g, i), Y, t) /\ Handoff(g, i).port = g.port
    BY <2>1, <2>12, HandoffIsSane
  <2> QED
    BY <2>2, <2>3, <2>4, <2>13
<1> QED
  BY <1>4, <1>5, <1>6

(* A step of unbindController() is sane: a drop, the disable, or the end. *)
LEMMA UnbindingIsSane ==
  ASSUME NEW h, NEW Y, NEW t, <<"chain">> \notin Y, Sane(h, {<<"chain">>} \union Y, t)
  PROVE  Sane(Unbinding(h), Y, t) /\ Unbinding(h).port \in {0, h.port}
<1> DEFINE js == Streaming(h, JsInputs)
           left == IF js # {} THEN js ELSE Streaming(h, NativeInputs)
<1>1. h \in Host /\ Good(h, Tokens(h.uplink) \union ({<<"chain">>} \union Y))
  BY DEF Sane
<1>2. h.port # 0
  BY <1>1 DEF Good, ChainOK
<1>3. CASE left # {}
  <2> DEFINE i == CHOOSE x \in left : TRUE
  <2>1. i \in left
    BY <1>3
  <2>2. Unbinding(h) = Dropped(h, i, Nobody, "unbind")
    BY <1>3 DEF Unbinding
  <2> HIDE DEF i
  <2>3. i \in Inputs /\ h.stream[i] # NoId
    BY <2>1 DEF Streaming, Inputs
  <2>4. /\ EndsFit(Nobody, "unbind")
        /\ Ends(Nobody, "unbind") = {<<"chain">>}
    BY DEF EndsFit, Ends
  <2>5. Ends(Nobody, "unbind") \intersect Y = {} /\ Sane(h, Ends(Nobody, "unbind") \union Y, t)
    BY <2>4
  <2> QED
    BY <2>2, <2>3, <2>4, <2>5, DroppedIsSane
<1>4. CASE left = {} /\ h.enabled
  <2> DEFINE r == Asked(h, "disable", NoId, Nobody, "unbind")
  <2>1. Unbinding(h) = Sent(h, "disable", NoId, Nobody, "unbind")
    BY <1>4 DEF Unbinding
  <2>2. /\ r \in Request /\ r.op = "disable" /\ r.role = "unbind" /\ r.id = NoId
        /\ r.bind = h.port /\ r.by = Nobody
    BY <1>1, AskedIsRequest
  <2> HIDE DEF r
  <2>3. Formed(r)
    BY <1>2, <2>2 DEF Formed
  <2>4. Claims(r) = {<<"chain">>}
    BY <2>2 DEF Claims, Doing, IdClaim, TaskClaim, CloseClaim, ChainClaim
  <2>5. Claims(r) \intersect Y = {} /\ Sane(h, Claims(r) \union Y, t)
    BY <2>4
  <2>6. Sane(Sent(h, "disable", NoId, Nobody, "unbind"), Y, t)
    BY <2>3, <2>5, SentIsSane DEF r
  <2> QED
    BY <1>1, <2>1, <2>6 DEF Sent, Host
<1>5. CASE left = {} /\ ~ h.enabled
  <2> DEFINE g == Unbinding(h)
  <2>1. g = [Sent(h, "disable", NoId, Nobody, "release") EXCEPT !.port = 0, !.ids = {}]
    BY <1>5 DEF Unbinding
  <2>2. \A i \in Inputs : h.stream[i] = NoId
    BY <1>5 DEF Streaming, Inputs
  <2> HIDE DEF g
  <2>3. Sane(g, Y, t)
    BY <2>1, <2>2, ReleasedIsSane
  <2>4. g.port = 0
    BY <1>1, <2>1 DEF Sent, Host
  <2> QED
    BY <2>3, <2>4 DEF g
<1> QED
  BY <1>3, <1>4, <1>5

(* SetToSeq lists a finite set, each element once. *)
LEMMA SetToSeqListsOnce ==
  ASSUME NEW S, IsFiniteSet(S)
  PROVE  /\ SetToSeq(S) \in Seq(S) /\ Len(SetToSeq(S)) \in Nat
         /\ DOMAIN SetToSeq(S) = 1 .. Len(SetToSeq(S))
         /\ Range(SetToSeq(S)) = S
         /\ \A j, k \in DOMAIN SetToSeq(S) : SetToSeq(S)[j] = SetToSeq(S)[k] => j = k
<1> DEFINE n == Cardinality(S)
           s == SetToSeq(S)
<1>1. n \in Nat /\ ExistsBijection(1 .. n, S)
  BY FS_CardinalityType
<1>2. \E f \in [1 .. n -> S] : IsInjective(f)
  BY <1>1 DEF ExistsBijection, Bijection, Injection
<1>3. s \in [1 .. n -> S] /\ IsInjective(s)
  BY <1>2 DEF SetToSeq
<1> HIDE DEF s
<1>4. s \in Seq(S) /\ DOMAIN s = 1 .. n /\ Len(s) = n
  BY <1>1, <1>3
<1>5. Cardinality(1 .. n) = n
  BY <1>1, FS_Interval
<1>6. s \in Injection(1 .. n, S)
  BY <1>3 DEF Injection
<1>7. s \in Surjection(1 .. n, S)
  BY <1>5, <1>6, FS_Injection
<1>8. Range(s) = S
  BY <1>3, <1>4, <1>7 DEF Surjection, Range
<1> QED
  BY <1>1, <1>3, <1>4, <1>8 DEF IsInjective, s

(* Two queues that answer for different things answer for both, one after the other. *)
LEMMA TokensConcat ==
  ASSUME NEW S, NEW p \in Seq(S), NEW q \in Seq(S)
  PROVE  /\ Tokens(p \o q) = Tokens(p) \union Tokens(q)
         /\ Apart(p) /\ Apart(q) /\ Tokens(p) \intersect Tokens(q) = {} => Apart(p \o q)
<1> DEFINE c == p \o q
           m == Len(p)
           n == Len(q)
<1>1. /\ c \in Seq(S) /\ m \in Nat /\ n \in Nat
      /\ DOMAIN p = 1 .. m /\ DOMAIN q = 1 .. n /\ DOMAIN c = 1 .. m + n
      /\ \A i \in 1 .. m + n : c[i] = IF i <= m THEN p[i] ELSE q[i - m]
  BY ConcatProperties
<1> HIDE DEF c, m, n
<1>2. \A k \in 1 .. m + n : \/ k \in DOMAIN p /\ c[k] = p[k]
                            \/ k - m \in DOMAIN q /\ c[k] = q[k - m] /\ k \notin DOMAIN p
  BY <1>1
<1>3. \A k \in DOMAIN p : k \in DOMAIN c /\ c[k] = p[k]
  BY <1>1
<1>4. \A k \in DOMAIN q : k + m \in DOMAIN c /\ c[k + m] = q[k]
  <2> TAKE k \in DOMAIN q
  <2>1. k \in Nat /\ k + m \in 1 .. m + n /\ ~ (k + m <= m) /\ (k + m) - m = k
    BY <1>1
  <2> QED
    BY <1>1, <2>1
<1>5. Tokens(c) = Tokens(p) \union Tokens(q)
  <2>1. ASSUME NEW x, x \in Tokens(c) PROVE x \in Tokens(p) \union Tokens(q)
    <3>1. PICK k \in 1 .. m + n : x \in Claims(c[k])
      BY <1>1, <2>1 DEF Tokens
    <3> QED
      BY <1>2, <3>1 DEF Tokens
  <2>2. ASSUME NEW x, x \in Tokens(p) \union Tokens(q) PROVE x \in Tokens(c)
    <3>1. CASE x \in Tokens(p)
      BY <1>3, <3>1 DEF Tokens
    <3>2. CASE x \in Tokens(q)
      <4>1. PICK k \in DOMAIN q : x \in Claims(q[k])
        BY <3>2 DEF Tokens
      <4> QED
        BY <1>4, <4>1 DEF Tokens
    <3> QED
      BY <2>2, <3>1, <3>2
  <2> QED
    BY <2>1, <2>2
<1>6. ASSUME Apart(p), Apart(q), Tokens(p) \intersect Tokens(q) = {} PROVE Apart(c)
  <2> SUFFICES ASSUME NEW j \in 1 .. m + n, NEW k \in 1 .. m + n, j # k
               PROVE  Claims(c[j]) \intersect Claims(c[k]) = {}
    BY <1>1 DEF Apart
  <2>1. CASE j \in DOMAIN p /\ k \in DOMAIN p
    BY <1>3, <1>6, <2>1 DEF Apart
  <2>2. CASE j \in DOMAIN p /\ k \notin DOMAIN p
    <3>1. Claims(c[j]) \subseteq Tokens(p)
      BY <1>3, <2>2 DEF Tokens
    <3>2. Claims(c[k]) \subseteq Tokens(q)
      BY <1>2, <2>2 DEF Tokens
    <3> QED
      BY <1>6, <3>1, <3>2
  <2>3. CASE j \notin DOMAIN p /\ k \in DOMAIN p
    <3>1. Claims(c[k]) \subseteq Tokens(p)
      BY <1>3, <2>3 DEF Tokens
    <3>2. Claims(c[j]) \subseteq Tokens(q)
      BY <1>2, <2>3 DEF Tokens
    <3> QED
      BY <1>6, <3>1, <3>2
  <2>4. CASE j \notin DOMAIN p /\ k \notin DOMAIN p
    <3>1. /\ j - m \in DOMAIN q /\ c[j] = q[j - m]
          /\ k - m \in DOMAIN q /\ c[k] = q[k - m]
      BY <1>2, <2>4
    <3>2. j - m # k - m
      BY <1>1
    <3> QED
      BY <1>6, <3>1, <3>2 DEF Apart
  <2> QED
    BY <2>1, <2>2, <2>3, <2>4
<1> QED
  BY <1>5, <1>6 DEF c

(* All native inputs that can start ask for the enable, one request each. *)
LEMMA BoundIsSane ==
  ASSUME NEW h, NEW Y, NEW t, <<"chain">> \notin Y, Sane(h, {<<"chain">>} \union Y, t)
  PROVE  Sane(Bound(h), Y, t) /\ Bound(h).port = h.port
<1> DEFINE b == [h EXCEPT !.bound = h.port]
           N == {n \in NativeInputs : h.life[n] = "open" /\ CanStart(b, n)}
           s == SetToSeq(N)
           q == [k \in DOMAIN s |-> Asked(h, "enable", NoId, s[k], "task")]
           g == Bound(h)
           U == Tokens(h.uplink)
           New == {<<"task", n, "enabling">> : n \in N}
           S == (U \union New) \union Y
<1>1. h \in Host /\ Good(h, U \union ({<<"chain">>} \union Y))
  BY DEF Sane
<1>2. h.port \in Binds /\ h.port # 0
  BY <1>1 DEF Good, ChainOK, Host
<1>3. /\ b \in Host /\ b.uplink = h.uplink /\ b.port = h.port /\ b.bound = h.port
      /\ b.ids = h.ids /\ b.life = h.life /\ b.stream = h.stream /\ b.task = h.task
  BY <1>1, <1>2 DEF Host
<1>4. g = [b EXCEPT !.task = [i \in Inputs |-> IF i \in Range(s) THEN "enabling" ELSE h.task[i]],
                    !.uplink = h.uplink \o q]
  BY <1>1, <1>3 DEF Bound, Host
<1> HIDE DEF g, b
<1>5. Sane(b, Y, t)
  BY <1>3, ChainEndsSane
<1>6. \A n \in N : n \in NativeInputs /\ n \in Inputs /\ b.stream[n] = NoId /\ b.task[n] = "idle"
  BY DEF CanStart, Inputs
<1> HIDE DEF N
<1>7. IsFiniteSet(N)
  <2>1. N \subseteq NativeInputs /\ IsFiniteSet(NativeInputs)
    BY <1>6
  <2> QED
    BY <2>1, FS_Subset
<1>8. /\ s \in Seq(N) /\ Len(s) \in Nat /\ DOMAIN s = 1 .. Len(s) /\ Range(s) = N
      /\ \A j, k \in DOMAIN s : s[j] = s[k] => j = k
  BY <1>7, SetToSeqListsOnce
<1> HIDE DEF s
<1>9. \A k \in DOMAIN s : s[k] \in N /\ s[k] \in Inputs /\ s[k] \in NativeInputs
  BY <1>6, <1>8
<1>10. \A k \in DOMAIN s : /\ q[k] \in Request /\ q[k].op = "enable" /\ q[k].role = "task"
                           /\ q[k].id = NoId /\ q[k].bind = h.port /\ q[k].by = s[k]
  <2> TAKE k \in DOMAIN s
  <2>1. q[k] = Asked(h, "enable", NoId, s[k], "task")
    OBVIOUS
  <2>2. NoId \in Ids \union {NoId} /\ s[k] \in Inputs \union {Nobody} /\ h \in Host
    BY <1>1, <1>9
  <2> DEFINE r == s[k]
  <2> HIDE DEF q, r
  <2> QED
    BY <2>1, <2>2, AskedIsRequest DEF r
<1>11. q \in Seq(Request) /\ DOMAIN q = DOMAIN s /\ Len(q) = Len(s)
  <2>1. q \in [1 .. Len(s) -> Request]
    BY <1>8, <1>10
  <2> QED
    BY <1>8, <2>1
<1> HIDE DEF q
<1>12. \A k \in DOMAIN q : /\ Formed(q[k])
                           /\ Claims(q[k]) = {<<"task", s[k], "enabling">>}
  <2> TAKE k \in DOMAIN q
  <2>1. /\ q[k] \in Request /\ q[k].op = "enable" /\ q[k].role = "task"
        /\ q[k].id = NoId /\ q[k].bind = h.port /\ q[k].by = s[k] /\ s[k] \in Inputs
    BY <1>9, <1>10, <1>11
  <2>2. Formed(q[k])
    BY <1>2, <2>1 DEF Formed
  <2>3. Doing(q[k]) = "enabling"
    BY <2>1 DEF Doing
  <2>4. Claims(q[k]) = {<<"task", s[k], "enabling">>}
    BY <2>1, <2>3 DEF Claims, IdClaim, TaskClaim, CloseClaim, ChainClaim
  <2> QED
    BY <2>2, <2>4
<1>13. Tokens(q) = New
  <2>1. ASSUME NEW x, x \in Tokens(q) PROVE x \in New
    BY <2>1, <1>9, <1>11, <1>12 DEF Tokens
  <2>2. ASSUME NEW x, x \in New PROVE x \in Tokens(q)
    <3>1. PICK n \in N : x = <<"task", n, "enabling">>
      BY <2>2
    <3>2. n \in Range(s)
      BY <1>8
    <3>3. PICK k \in DOMAIN s : s[k] = n
      BY <3>2 DEF Range
    <3> QED
      BY <3>1, <3>3, <1>11, <1>12 DEF Tokens
  <2> QED
    BY <2>1, <2>2
<1>14. Apart(q)
  BY <1>8, <1>11, <1>12 DEF Apart
<1>15. h.uplink \in Seq(Request) /\ Wired(h.uplink, h.port, Y) /\ Good(b, U \union Y) /\ Covers(b, t)
  BY <1>1, <1>3, <1>5 DEF Sane, Host
<1>16. \A n \in N, x \in Tasks : <<"task", n, x>> \notin U \union Y
  <2> TAKE n \in N, x \in Tasks
  <2>1. b.task[n] # x /\ n \in Inputs
    BY <1>6 DEF Tasks
  <2>2. TasksOK(b, U \union Y)
    BY <1>15 DEF Good
  <2> QED
    BY <2>1, <2>2 DEF TasksOK
<1>17. New \intersect (U \union Y) = {}
  BY <1>16 DEF Tasks
<1>18. /\ g.uplink = h.uplink \o q /\ g.port = h.port /\ g.bound = h.port /\ g.ids = h.ids
       /\ g.life = h.life /\ g.stream = h.stream
       /\ g.task = [i \in Inputs |-> IF i \in N THEN "enabling" ELSE h.task[i]]
  BY <1>3, <1>4, <1>8 DEF Host
<1>19. g \in Host
  <2>1. h.uplink \o q \in Seq(Request)
    BY <1>11, <1>15
  <2>2. [i \in Inputs |-> IF i \in N THEN "enabling" ELSE h.task[i]]
          \in [Inputs -> {"idle", "enabling", "creating", "handoff", "discarding",
                          "unanswered"}]
    BY <1>1 DEF Host
  <2> QED
    BY <1>3, <1>4, <1>8, <2>1, <2>2 DEF Host
<1>20. Tokens(g.uplink) = U \union New
  BY <1>11, <1>13, <1>15, <1>18, TokensConcat
<1>21. Wired(g.uplink, g.port, Y)
  <2>1. Apart(g.uplink)
    BY <1>11, <1>13, <1>14, <1>15, <1>17, <1>18, TokensConcat DEF Wired
  <2>2. Tokens(g.uplink) \intersect Y = {}
    BY <1>15, <1>17, <1>20 DEF Wired
  <2>3. Queued(q, h.port)
    BY <1>10, <1>11, <1>12 DEF Queued
  <2>4. Queued(h.uplink \o q, h.port)
    <3> SUFFICES ASSUME NEW k \in DOMAIN (h.uplink \o q)
                 PROVE  LET r == (h.uplink \o q)[k] IN
                        Formed(r) /\ (h.port # 0 => r.bind = h.port)
      BY DEF Queued
    <3>1. \/ k \in DOMAIN h.uplink /\ (h.uplink \o q)[k] = h.uplink[k]
          \/ k - Len(h.uplink) \in DOMAIN q /\ (h.uplink \o q)[k] = q[k - Len(h.uplink)]
      BY <1>11, <1>15
    <3> QED
      BY <1>15, <2>3, <3>1 DEF Wired, Queued
  <2> QED
    BY <1>18, <2>1, <2>2, <2>4 DEF Wired
<1>22. TasksOK(g, S)
  <2> SUFFICES ASSUME NEW j \in Inputs, NEW x \in Tasks
               PROVE  g.task[j] = x <=> <<"task", j, x>> \in S
    BY DEF TasksOK
  <2>1. CASE j \in N
    <3>1. g.task[j] = "enabling"
      BY <1>18, <2>1
    <3>2. <<"task", j, x>> \in S <=> <<"task", j, x>> \in New
      BY <1>16, <2>1
    <3>3. <<"task", j, x>> \in New <=> x = "enabling"
      BY <2>1
    <3> QED
      BY <3>1, <3>2, <3>3
  <2>2. CASE j \notin N
    <3>1. g.task[j] = b.task[j]
      BY <1>3, <1>18, <2>2
    <3>2. <<"task", j, x>> \notin New
      BY <2>2
    <3>3. b.task[j] = x <=> <<"task", j, x>> \in U \union Y
      BY <1>15 DEF Good, TasksOK
    <3> QED
      BY <3>1, <3>2, <3>3
  <2> QED
    BY <2>1, <2>2
<1>23. /\ <<"chain">> \in S <=> <<"chain">> \in U \union Y
       /\ \A j : <<"close", j>> \in S <=> <<"close", j>> \in U \union Y
       /\ \A j : <<"id", j>> \in S <=> <<"id", j>> \in U \union Y
  OBVIOUS
<1> HIDE DEF S, New, U
<1>24. ChainOK(g, S) /\ CloseOK(g, S)
  BY <1>3, <1>15, <1>18, <1>23 DEF Good, ChainOK, CloseOK
<1>25. StreamsOK(g, S)
  <2> SUFFICES ASSUME NEW i \in Inputs, g.stream[i] # NoId
               PROVE  /\ g.life[i] = "open" /\ g.port # 0
                      /\ g.task[i] \in {"idle", "handoff"}
                      /\ <<"id", g.stream[i]>> \notin S
                      /\ \A j \in Inputs : g.stream[j] = g.stream[i] => j = i
    BY DEF StreamsOK
  <2>1. b.stream[i] # NoId
    BY <1>3, <1>18
  <2>2. /\ b.life[i] = "open" /\ b.port # 0
        /\ b.task[i] \in {"idle", "handoff"}
        /\ <<"id", b.stream[i]>> \notin U \union Y
        /\ \A j \in Inputs : b.stream[j] = b.stream[i] => j = i
    BY <1>15, <2>1 DEF Good, StreamsOK
  <2>3. i \notin N
    BY <1>6, <2>1
  <2>4. g.task[i] = b.task[i]
    BY <1>3, <1>18, <2>3
  <2>5. g.life = b.life /\ g.port = b.port /\ g.stream = b.stream
    BY <1>3, <1>18
  <2> QED
    BY <1>23, <2>2, <2>4, <2>5
<1>26. IdsOK(g, S)
  <2>1. g.ids = b.ids /\ g.port = b.port /\ g.stream = b.stream
    BY <1>3, <1>18
  <2>2. IdsOK(b, U \union Y)
    BY <1>15 DEF Good
  <2> QED
    BY <1>23, <2>1, <2>2 DEF IdsOK
<1>27. NativeOK(g)
  <2> SUFFICES ASSUME NEW n \in NativeInputs, g.stream[n] # NoId
               PROVE  g.task[n] = "handoff" \/ \A j \in JsInputs : g.stream[j] = NoId
    BY DEF NativeOK
  <2>1. b.stream[n] # NoId /\ n \in Inputs /\ g.stream = b.stream
    BY <1>3, <1>18 DEF Inputs
  <2>2. n \notin N
    BY <1>6, <2>1
  <2>3. g.task[n] = b.task[n]
    BY <1>3, <1>18, <2>1, <2>2
  <2>4. NativeOK(b)
    BY <1>15 DEF Good
  <2> QED
    BY <2>1, <2>3, <2>4 DEF NativeOK
<1>28. Good(g, Tokens(g.uplink) \union Y)
  <2>1. Tokens(g.uplink) \union Y = S
    BY <1>20 DEF S
  <2> QED
    BY <1>22, <1>24, <1>25, <1>26, <1>27, <2>1 DEF Good
<1>29. Covers(g, t)
  <2>1. t \subseteq g.ids /\ g.port # 0
    BY <1>2, <1>3, <1>15, <1>18 DEF Covers
  <2>2. ASSUME NEW k \in DOMAIN g.uplink, g.uplink[k].op = "create" PROVE g.uplink[k].id \notin t
    <3>1. \/ k \in DOMAIN h.uplink /\ g.uplink[k] = h.uplink[k]
          \/ k - Len(h.uplink) \in DOMAIN q /\ g.uplink[k] = q[k - Len(h.uplink)]
      BY <1>11, <1>15, <1>18
    <3>2. k \in DOMAIN h.uplink /\ g.uplink[k] = h.uplink[k]
      BY <1>10, <1>11, <2>2, <3>1
    <3> QED
      BY <1>3, <1>15, <2>2, <3>2 DEF Covers
  <2> QED
    BY <2>1, <2>2 DEF Covers
<1> QED
  BY <1>18, <1>19, <1>21, <1>28, <1>29 DEF Sane, g

-----------------------------------------------------------------------------
(* A reply: first what the Controller makes of it, then what it resumes. *)

\* What a request answers for besides its id, and what is in hand when it is answered.
Rest(r) == TaskClaim(r.by, Doing(r)) \union (CloseClaim(r.by, r.role) \union ChainClaim(r.role))
Kept(r, ok) == IF r.op = "create" /\ ok THEN IdClaim(r.id) \union Rest(r) ELSE Rest(r)
Known(h, r, ok) == IF r.bind = h.port THEN Acknowledged(h, r, ok) ELSE h

(* A reply that can come: it is of this device, or of one that is closed, where a
   stream that was created counts for nothing; a stream that ended or was refused is
   in no table. *)
CanCome(h, Y, t, r, ok) ==
  /\ Formed(r) /\ Claims(r) \intersect Y = {} /\ Sane(h, Claims(r) \union Y, t)
  /\ h.port # 0 => r.bind = h.port
  /\ ok \in BOOLEAN /\ (ok /\ r.op = "create" => h.port # 0)
  /\ h.port # 0 /\ (r.op = "terminate" \/ (r.op = "create" /\ ~ ok)) => r.id \notin t

(* What the Controller makes of a reply keeps the host sane; an id may be freed then,
   and the rest of what the request answered for is in hand. *)
LEMMA KnownIsSane ==
  ASSUME NEW h, NEW Y, NEW t, NEW r, NEW ok, CanCome(h, Y, t, r, ok)
  PROVE  /\ Sane(Known(h, r, ok), Kept(r, ok) \union Y, t)
         /\ Kept(r, ok) \intersect Y = {}
         /\ Known(h, r, ok).port = h.port
<1> DEFINE Z == Rest(r) \union Y
           K == Known(h, r, ok)
<1>1. /\ h \in Host /\ r \in Request /\ r.bind # 0 /\ ok \in BOOLEAN
      /\ Sane(h, Claims(r) \union Y, t) /\ Claims(r) \intersect Y = {}
  BY DEF Sane, CanCome, Formed
<1>2. Claims(r) = IdClaim(r.id) \union Rest(r)
  BY DEF Claims, Rest
<1>3. IdClaim(r.id) \intersect Rest(r) = {}
  BY DEF IdClaim, Rest, TaskClaim, CloseClaim, ChainClaim
<1>4. /\ Sane(h, IdClaim(r.id) \union Z, t) /\ IdClaim(r.id) \intersect Z = {}
      /\ Rest(r) \intersect Y = {} /\ Kept(r, ok) \intersect Y = {}
  <2>1. Claims(r) \union Y = IdClaim(r.id) \union Z
    BY <1>2
  <2> QED
    BY <1>1, <1>2, <1>3, <2>1 DEF Kept
<1>5. r.id \in Ids \union {NoId}
  BY <1>1 DEF Request
<1> HIDE DEF Z, K
<1>6. CASE r.op = "create" /\ ok
  <2>1. K = h
    BY <1>6 DEF K, Known, Acknowledged
  <2>2. Kept(r, ok) \union Y = Claims(r) \union Y
    BY <1>2, <1>6 DEF Kept
  <2> QED
    BY <1>1, <1>4, <2>1, <2>2 DEF K
<1>7. CASE ~ (r.op = "create" /\ ok) /\ h.port = 0
  <2>1. K = h /\ Kept(r, ok) \union Y = Z
    BY <1>1, <1>7 DEF K, Known, Kept, Z
  <2>2. h.ids \subseteq Ids /\ \A id \in Ids : id \notin h.ids
    BY <1>1, <1>7 DEF Sane, Good, IdsOK, Host
  <2>3. h = [h EXCEPT !.ids = @ \ {r.id}]
    <3>1. h.ids \ {r.id} = h.ids
      BY <2>2
    <3> QED
      BY <1>1, <3>1 DEF Host
  <2>4. Sane(h, Z, t)
    BY <1>1, <1>4, <1>5, <1>7, <2>3, IdFreedIsSane
  <2> QED
    BY <1>4, <2>1, <2>4 DEF K
<1>8. CASE ~ (r.op = "create" /\ ok) /\ h.port # 0
  <2>1. K = Acknowledged(h, r, ok) /\ Kept(r, ok) \union Y = Z
    BY <1>8 DEF K, Known, Kept, Z, CanCome
  <2>2. CASE r.op \in {"terminate", "create"}
    <3>1. K = [h EXCEPT !.ids = @ \ {r.id}]
      BY <1>8, <2>1, <2>2 DEF Acknowledged
    <3>2. r.id \notin t
      BY <1>8, <2>2 DEF CanCome
    <3>3. K \in Host /\ K.port = h.port
      BY <1>1, <3>1 DEF Host
    <3>4. Sane(K, Z, t)
      BY <1>4, <1>5, <3>1, <3>2, <3>3, IdFreedIsSane
    <3> QED
      BY <1>4, <2>1, <3>3, <3>4 DEF K
  <2>3. CASE r.op \in {"enable", "disable"}
    <3>1. r.id = NoId
      BY <2>3 DEF CanCome, Formed
    <3>2. IdClaim(r.id) \union Z = Z
      BY <3>1 DEF IdClaim
    <3>3. Sane(h, Z, t)
      BY <1>4, <3>2
    <3>4. \/ K = h
          \/ K = [h EXCEPT !.enabled = TRUE]
          \/ K = [h EXCEPT !.enabled = FALSE]
      BY <2>1, <2>3 DEF Acknowledged
    <3>5. /\ K \in Host /\ K.uplink = h.uplink /\ K.port = h.port /\ K.bound = h.bound
          /\ K.ids = h.ids /\ K.life = h.life /\ K.stream = h.stream /\ K.task = h.task
      BY <1>1, <3>4 DEF Host
    <3>6. Sane(K, Z, t)
      BY <3>3, <3>5, SameIsSane
    <3> QED
      BY <1>4, <2>1, <3>5, <3>6 DEF K
  <2> QED
    BY <1>1, <2>2, <2>3 DEF Request
<1> QED
  BY <1>6, <1>7, <1>8

(* What answers a request of a task finds the task waiting. *)
LEMMA TaskWaits ==
  ASSUME NEW h, NEW Y, NEW t, NEW r, NEW ok, Formed(r), Sane(h, Kept(r, ok) \union Y, t),
         r.role \in {"task", "handoff"}
  PROVE  /\ r.by \in Inputs /\ h.task[r.by] = Doing(r) /\ Doing(r) \in Tasks
         /\ Rest(r) = TaskClaim(r.by, Doing(r))
         /\ r.role = "task" => h.stream[r.by] = NoId
<1> DEFINE i == r.by
           d == Doing(r)
           T == Tokens(h.uplink) \union (Kept(r, ok) \union Y)
<1>1. r \in Request /\ i \in Inputs
  BY DEF Formed, Inputs
<1>2. d \in Tasks /\ (r.role = "task" => d # "handoff")
  BY <1>1 DEF Formed, Doing, Tasks, Request
<1>3. Rest(r) = TaskClaim(i, d)
  BY DEF Rest, CloseClaim, ChainClaim
<1>4. <<"task", i, d>> \in T
  BY <1>2, <1>3 DEF Kept, TaskClaim, Tasks
<1>5. Good(h, T)
  BY DEF Sane
<1> HIDE DEF d, i, T
<1>6. h.task[i] = d
  BY <1>1, <1>2, <1>4, <1>5 DEF Good, TasksOK
<1>7. r.role = "task" => h.stream[i] = NoId
  BY <1>1, <1>2, <1>5, <1>6 DEF Good, StreamsOK, Tasks
<1> QED
  BY <1>1, <1>2, <1>3, <1>6, <1>7 DEF d, i

(* What goes on when a request is answered keeps the host sane. *)
LEMMA ResumedIsSane ==
  ASSUME NEW h, NEW Y, NEW t, NEW r, NEW ok, Formed(r), ok \in BOOLEAN,
         Kept(r, ok) \intersect Y = {}, Sane(h, Kept(r, ok) \union Y, t),
         h.port # 0 => r.bind = h.port, ok /\ r.op = "create" => h.port # 0
  PROVE  Sane(Resumed(h, r, ok), Y, t) /\ Resumed(h, r, ok).port \in {0, h.port}
<1> DEFINE i == r.by
           g == Resumed(h, r, ok)
<1>1. h \in Host /\ r \in Request
  BY DEF Sane, Formed
<1>11. r.role \in {"task", "handoff"} =>
         /\ i \in Inputs /\ h.task[i] = Doing(r) /\ Doing(r) \in Tasks
         /\ Rest(r) = TaskClaim(i, Doing(r))
         /\ r.role = "task" => h.stream[i] = NoId
  BY TaskWaits
<1>2. CASE r.role = "task" /\ r.op = "enable" /\ ok
  <2> DEFINE k == [h EXCEPT !.enabledByUs = TRUE]
  <2>1. g = AskedToCreate(k, i)
    BY <1>2 DEF Resumed
  <2>2. /\ k \in Host /\ k.uplink = h.uplink /\ k.port = h.port /\ k.bound = h.bound
        /\ k.ids = h.ids /\ k.life = h.life /\ k.stream = h.stream /\ k.task = h.task
    BY <1>1 DEF Host
  <2> HIDE DEF k
  <2>3. /\ i \in Inputs /\ h.task[i] = Doing(r) /\ h.stream[i] = NoId
        /\ Rest(r) = TaskClaim(i, Doing(r))
    BY <1>2, <1>11
  <2>4. Kept(r, ok) = TaskClaim(i, k.task[i])
    BY <1>2, <2>2, <2>3 DEF Kept
  <2>5. Sane(k, Kept(r, ok) \union Y, t)
    BY <2>2, SameIsSane
  <2>6. /\ TaskClaim(i, k.task[i]) \intersect Y = {} /\ k.stream[i] = NoId
        /\ Sane(k, TaskClaim(i, k.task[i]) \union Y, t)
    BY <2>2, <2>3, <2>4, <2>5
  <2> HIDE DEF i, g
  <2> QED
    BY <2>1, <2>2, <2>3, <2>6, AskedToCreateIsSane DEF g
<1>3. CASE r.role = "task" /\ r.op = "create" /\ ok
  <2> DEFINE id == r.id
  <2>1. g = Created(h, i, id, h.port) /\ h.port # 0
    BY <1>3 DEF Resumed
  <2>2. /\ i \in Inputs /\ h.task[i] = Doing(r) /\ Rest(r) = TaskClaim(i, Doing(r))
    BY <1>3, <1>11
  <2>3. Doing(r) = "creating"
    BY <1>3 DEF Doing
  <2>4. id \in Ids
    BY <1>1, <1>3 DEF Formed, Request
  <2>5. Kept(r, ok) = IdClaim(id) \union TaskClaim(i, "creating")
    BY <1>3, <2>2, <2>3 DEF Kept
  <2>6. TaskClaim(i, "creating") \intersect IdClaim(id) = {}
    BY DEF TaskClaim, IdClaim
  <2>7. /\ TaskClaim(i, "creating") \intersect (IdClaim(id) \union Y) = {}
        /\ IdClaim(id) \intersect Y = {}
        /\ Kept(r, ok) \union Y = TaskClaim(i, "creating") \union (IdClaim(id) \union Y)
    BY <2>5, <2>6
  <2>8. Sane(h, TaskClaim(i, "creating") \union (IdClaim(id) \union Y), t)
    BY <2>7
  <2> HIDE DEF i, g, id
  <2>9. h.task[i] = "creating"
    BY <2>2, <2>3
  <2>10. Sane(Created(h, i, id, h.port), Y, t) /\ Created(h, i, id, h.port).port = h.port
    <3>1. StreamReady(h, Y, t, i, id)
      BY <2>1, <2>2, <2>4, <2>7, <2>8, <2>9 DEF StreamReady
    <3> QED
      BY <3>1, CreatedIsSane
  <2> QED
    BY <2>1, <2>10 DEF g
<1>4. CASE r.role = "task" /\ (~ ok \/ r.op = "terminate")
  <2>1. g = Idle(h, i)
    BY <1>4 DEF Resumed
  <2>2. /\ i \in Inputs /\ h.task[i] = Doing(r) /\ Rest(r) = TaskClaim(i, Doing(r))
        /\ h.stream[i] = NoId
    BY <1>4, <1>11
  <2>3. Kept(r, ok) = TaskClaim(i, h.task[i])
    BY <1>4, <2>2 DEF Kept
  <2>4. /\ TaskClaim(i, h.task[i]) \intersect Y = {}
        /\ Sane(h, TaskClaim(i, h.task[i]) \union Y, t)
        /\ (i \in NativeInputs /\ h.stream[i] # NoId => \A j \in JsInputs : h.stream[j] = NoId)
    BY <2>2, <2>3
  <2> HIDE DEF i, g
  <2> QED
    <3>1. Sane(Idle(h, i), Y, t) /\ Idle(h, i).port = h.port
      BY <2>2, <2>4, IdleIsSane
    <3> QED
      BY <2>1, <3>1 DEF g
<1>5. CASE r.role = "handoff"
  <2>1. g = Handoff(h, i) /\ i \in NativeInputs /\ r.op = "terminate"
    BY <1>5 DEF Resumed, Formed
  <2>2. h.task[i] = Doing(r) /\ Doing(r) \in Tasks /\ Rest(r) = TaskClaim(i, Doing(r))
    BY <1>5, <1>11
  <2>3. Kept(r, ok) = TaskClaim(i, h.task[i])
    BY <2>1, <2>2 DEF Kept
  <2>4. /\ TaskClaim(i, h.task[i]) \intersect Y = {} /\ h.task[i] # "idle"
        /\ Sane(h, TaskClaim(i, h.task[i]) \union Y, t)
    BY <2>2, <2>3 DEF Tasks
  <2> HIDE DEF i, g
  <2>5. Sane(Handoff(h, i), Y, t) /\ Handoff(h, i).port = h.port
    BY ONLY <2>1, <2>4, HandoffIsSane
  <2> QED
    BY <2>1, <2>5 DEF g
<1>6. CASE r.role = "close"
  <2>1. g = Retired(h, i) /\ i \in Inputs /\ r.op = "terminate"
    BY <1>6 DEF Resumed, Formed
  <2>2. Kept(r, ok) = {<<"close", i>>}
    BY <1>6, <2>1 DEF Kept, Rest, Doing, TaskClaim, CloseClaim, ChainClaim
  <2>3. <<"close", i>> \notin Y /\ Sane(h, {<<"close", i>>} \union Y, t)
    BY <2>2
  <2> HIDE DEF i, g
  <2> QED
    BY <2>1, <2>3, RetiredIsSane DEF g
<1>7. CASE r.role \in {"unbind", "ready"}
  <2>1. Rest(r) = {<<"chain">>} /\ Doing(r) = "idle" /\ r.op # "create"
    BY <1>7 DEF Rest, Doing, TaskClaim, CloseClaim, ChainClaim, Formed
  <2>2. Kept(r, ok) = {<<"chain">>}
    BY <2>1 DEF Kept
  <2>3. <<"chain">> \notin Y /\ Sane(h, {<<"chain">>} \union Y, t)
    BY <2>2
  <2>4. CASE r.role = "unbind"
    BY <2>3, <2>4, UnbindingIsSane DEF Resumed
  <2>5. CASE r.role = "ready"
    BY <2>3, <2>5, BoundIsSane DEF Resumed
  <2> QED
    BY <1>7, <2>4, <2>5
<1>8. CASE r.role \in {"drop", "retire", "user", "release"}
  <2>1. Rest(r) = {} /\ r.op # "create"
    BY <1>8 DEF Rest, Doing, TaskClaim, CloseClaim, ChainClaim, Formed
  <2>2. Kept(r, ok) \union Y = Y
    BY <2>1 DEF Kept
  <2>3. g = h \/ g = [h EXCEPT !.enabledByUs = FALSE]
    BY <1>8 DEF Resumed
  <2>4. /\ g \in Host /\ g.uplink = h.uplink /\ g.port = h.port /\ g.bound = h.bound
        /\ g.ids = h.ids /\ g.life = h.life /\ g.stream = h.stream /\ g.task = h.task
    BY <1>1, <2>3 DEF Host
  <2>5. Sane(h, Y, t)
    BY <2>2
  <2> HIDE DEF g
  <2>6. Sane(g, Y, t)
    BY <2>4, <2>5, SameIsSane
  <2> QED
    BY <2>4, <2>6 DEF g
<1>9. r.role = "task" => r.op \in {"enable", "create", "terminate"}
  BY <1>1 DEF Formed, Request
<1>10. r.role \in {"task", "drop", "handoff", "close", "retire", "unbind", "release", "ready", "user"}
  BY <1>1 DEF Request
<1> QED
  BY <1>2, <1>3, <1>4, <1>5, <1>6, <1>7, <1>8, <1>9, <1>10

-----------------------------------------------------------------------------
(* The inductive invariant. *)

\* The requests of the replies; the table but for what it refused to terminate.
Asking(d) == [k \in DOMAIN d |-> d[k].req]
Left == mcu.table \ refused

\* A stream that ended, or was refused, is in no table when its reply comes.
Answered(d, t) ==
  \A k \in DOMAIN d :
    (d[k].req.op = "terminate" \/ (d[k].req.op = "create" /\ ~ d[k].ok)) => d[k].req.id \notin t

Coming(d, port) ==
  /\ Queued(Asking(d), port) /\ Apart(Asking(d))
  /\ \A k \in DOMAIN d : d[k].req.role # "release"

MirrorsInv ==
  /\ StreamsTypeOK
  /\ Sane(host, Tokens(Asking(downlink)), Left)
  /\ Coming(downlink, host.port)
  /\ Answered(downlink, Left)
  /\ ~ mcu.on => mcu.table = {}

Reply == [req : Request, ok : BOOLEAN]

(* One more reply, one more request that was asked. *)
LEMMA AskingAppend ==
  ASSUME NEW d \in Seq(Reply), NEW r \in Request, NEW ok \in BOOLEAN
  PROVE  /\ Asking(d) \in Seq(Request)
         /\ Asking(Append(d, [req |-> r, ok |-> ok])) = Append(Asking(d), r)
<1> DEFINE a == [req |-> r, ok |-> ok]
           c == Append(d, a)
<1>0. a \in Reply /\ a.req = r
  BY DEF Reply
<1> HIDE DEF a
<1>1. /\ DOMAIN d = 1 .. Len(d) /\ Len(d) \in Nat
      /\ c \in Seq(Reply) /\ DOMAIN c = 1 .. Len(d) + 1 /\ c[Len(d) + 1] = a
      /\ \A k \in 1 .. Len(d) : c[k] = d[k] /\ d[k] \in Reply
  BY <1>0
<1>2. Asking(d) \in Seq(Request) /\ Len(Asking(d)) = Len(d)
      /\ \A k \in 1 .. Len(d) : Asking(d)[k] = d[k].req
  <2>1. Asking(d) \in [1 .. Len(d) -> Request]
    BY <1>1 DEF Asking, Reply
  <2> QED
    BY <1>1, <2>1 DEF Asking
<1> HIDE DEF c
<1>3. Asking(c) \in Seq(Request) /\ Len(Asking(c)) = Len(d) + 1
      /\ \A k \in 1 .. Len(d) + 1 : Asking(c)[k] = c[k].req
  <2>1. \A k \in 1 .. Len(d) + 1 : c[k] \in Reply
    BY <1>1
  <2>2. Asking(c) \in [1 .. Len(d) + 1 -> Request]
    BY <1>1, <2>1 DEF Asking, Reply
  <2> QED
    BY <1>1, <2>2 DEF Asking
<1> DEFINE q == Asking(d)
           p == Append(q, r)
<1> HIDE DEF q
<1>4. q \in Seq(Request) /\ Len(q) = Len(d) /\ \A k \in 1 .. Len(d) : q[k] = d[k].req
  BY <1>2 DEF q
<1>5. /\ p \in Seq(Request) /\ Len(p) = Len(d) + 1 /\ p[Len(d) + 1] = r
      /\ \A k \in 1 .. Len(d) : p[k] = q[k]
  BY <1>1, <1>4
<1> HIDE DEF p
<1>6. \A k \in 1 .. Len(d) + 1 : Asking(c)[k] = p[k]
  <2> TAKE k \in 1 .. Len(d) + 1
  <2>1. CASE k = Len(d) + 1
    BY <1>0, <1>1, <1>3, <1>5, <2>1
  <2>2. CASE k # Len(d) + 1
    <3>1. k \in 1 .. Len(d)
      BY <1>1, <2>2
    <3> QED
      BY <1>1, <1>3, <1>4, <1>5, <3>1
  <2> QED
    BY <2>1, <2>2
<1>7. Asking(c) = p
  BY <1>3, <1>5, <1>6, SeqEqual
<1> QED
  BY <1>2, <1>7 DEF c, a, p, q

(* The next reply is to the first request that was asked. *)
LEMMA AskingTail ==
  ASSUME NEW d \in Seq(Reply), d # <<>>
  PROVE  /\ Asking(d) \in Seq(Request) /\ Asking(d) # <<>>
         /\ Head(Asking(d)) = Head(d).req
         /\ Asking(Tail(d)) = Tail(Asking(d))
<1> DEFINE c == Tail(d)
           q == Asking(d)
<1>1. /\ DOMAIN d = 1 .. Len(d) /\ Len(d) \in Nat \ {0} /\ Head(d) = d[1]
      /\ c \in Seq(Reply) /\ DOMAIN c = 1 .. Len(d) - 1
      /\ \A k \in 1 .. Len(d) - 1 : c[k] = d[k + 1]
      /\ \A k \in 1 .. Len(d) : d[k] \in Reply
  OBVIOUS
<1>2. q \in Seq(Request) /\ Len(q) = Len(d) /\ \A k \in 1 .. Len(d) : q[k] = d[k].req
  <2>1. q \in [1 .. Len(d) -> Request]
    BY <1>1 DEF Asking, Reply
  <2> QED
    BY <1>1, <2>1 DEF Asking
<1> HIDE DEF c, q
<1>3. q # <<>> /\ Head(q) = d[1].req
  BY <1>1, <1>2
<1>4. Asking(c) \in Seq(Request) /\ Len(Asking(c)) = Len(d) - 1
      /\ \A k \in 1 .. Len(d) - 1 : Asking(c)[k] = c[k].req
  <2>1. \A k \in 1 .. Len(d) - 1 : c[k] \in Reply
    BY <1>1
  <2>2. Asking(c) \in [1 .. Len(d) - 1 -> Request]
    BY <1>1, <2>1 DEF Asking, Reply
  <2> QED
    BY <1>1, <2>2 DEF Asking
<1>5. /\ Tail(q) \in Seq(Request) /\ Len(Tail(q)) = Len(d) - 1
      /\ \A k \in 1 .. Len(d) - 1 : Tail(q)[k] = q[k + 1]
  BY <1>1, <1>2, <1>3
<1>6. \A k \in 1 .. Len(d) - 1 : Asking(c)[k] = Tail(q)[k]
  <2> TAKE k \in 1 .. Len(d) - 1
  <2>1. k + 1 \in 1 .. Len(d)
    BY <1>1
  <2> QED
    BY <1>1, <1>2, <1>4, <1>5, <2>1
<1>7. Asking(c) = Tail(q)
  BY <1>1, <1>4, <1>5, <1>6, SeqEqual
<1> QED
  BY <1>1, <1>2, <1>3, <1>7 DEF c, q

(* A step of the host alone. *)
LEMMA HostStepKeeps ==
  ASSUME MirrorsInv, NEW g, Sane(g, Tokens(Asking(downlink)), Left),
         g.port = host.port \/ g.port = 0 \/ downlink = <<>>,
         HostStep(g), binds' \in 0 .. MaxBinds, toggles' \in 0 .. MaxToggles,
         deaf' \in BOOLEAN
  PROVE  MirrorsInv'
<1>1. /\ host' = g /\ mcu' = mcu /\ downlink' = downlink /\ frames' = frames
      /\ refused' = refused /\ wiped' = wiped /\ crowded' = crowded
  BY DEF HostStep, history
<1>2. StreamsTypeOK'
  BY <1>1 DEF MirrorsInv, StreamsTypeOK, Sane
<1>3. Left' = Left /\ Asking(downlink') = Asking(downlink)
  BY <1>1 DEF Left
<1>4. Coming(downlink', host'.port)
  <2>1. CASE downlink = <<>>
    <3>1. DOMAIN downlink = {} /\ Asking(downlink) = <<>>
      BY <2>1 DEF Asking
    <3> QED
      BY <1>1, <3>1, EmptyQueue DEF Coming
  <2>2. CASE g.port = host.port \/ g.port = 0
    BY <1>1, <2>2 DEF MirrorsInv, Coming, Queued
  <2> QED
    BY <2>1, <2>2
<1>5. Sane(host', Tokens(Asking(downlink')), Left') /\ Answered(downlink', Left')
  BY <1>1, <1>3 DEF MirrorsInv
<1>6. ~ mcu'.on => mcu'.table = {}
  BY <1>1 DEF MirrorsInv
<1> QED
  BY <1>2, <1>4, <1>5, <1>6 DEF MirrorsInv

(* Opening an input keeps the invariant. *)
LEMMA OpenKeeps ==
  ASSUME MirrorsInv, NEW i \in Inputs, Open(i)
  PROVE  MirrorsInv'
<1> DEFINE h == host
           Y == Tokens(Asking(downlink))
           t == Left
           g == [h EXCEPT !.life[i] = "open"]
           k == IF i \in JsInputs THEN g ELSE Synced(g, i)
<1>1. h \in Host /\ Sane(h, Y, t)
  BY DEF MirrorsInv, StreamsTypeOK
<1>2. h.life[i] = "new" /\ HostStep(k) /\ UNCHANGED <<binds, toggles, deaf>>
  BY DEF Open
<1>3. g \in Host /\ g.port = h.port
  BY <1>1 DEF Host
<1>4. h.stream[i] = NoId
  BY <1>1, <1>2 DEF Sane, Good, StreamsOK
<1>5. g = [h EXCEPT !.life[i] = "open"]
  OBVIOUS
<1> HIDE DEF h, Y, t, g
<1>6. Sane(g, Y, t)
  BY <1>1, <1>2, <1>3, <1>4, <1>5, LifeIsSane
<1>7. Sane(k, Y, t) /\ k.port = h.port
  BY <1>3, <1>6, SyncedIsSane DEF Inputs
<1>8. binds' \in 0 .. MaxBinds /\ toggles' \in 0 .. MaxToggles /\ deaf' \in BOOLEAN
  BY <1>2 DEF MirrorsInv, StreamsTypeOK
<1> QED
  BY <1>2, <1>7, <1>8, HostStepKeeps DEF h, Y, t

(* update() keeps the invariant, whether it starts a task or drops the stream. *)
LEMMA UpdateKeeps ==
  ASSUME MirrorsInv, NEW j \in JsInputs, Update(j)
  PROVE  MirrorsInv'
<1> DEFINE h == host
           Y == Tokens(Asking(downlink))
           t == Left
<1>1. h \in Host /\ Sane(h, Y, t) /\ j \in Inputs
  BY DEF MirrorsInv, StreamsTypeOK, Inputs
<1>2. h.bound # 0 /\ h.port # 0
  BY <1>1 DEF Update, Sane, Good, ChainOK
<1>3. binds' \in 0 .. MaxBinds /\ toggles' \in 0 .. MaxToggles /\ deaf' \in BOOLEAN
  BY DEF MirrorsInv, StreamsTypeOK, Update
<1>4. \/ h.stream[j] # NoId /\ HostStep(Dropped(h, j, Nobody, "drop"))
      \/ CanStart(h, j) /\ HostStep(Started(h, j))
  BY DEF Update
<1> HIDE DEF h, Y, t
<1>5. CASE h.stream[j] # NoId /\ HostStep(Dropped(h, j, Nobody, "drop"))
  <2>1. EndsFit(Nobody, "drop") /\ Ends(Nobody, "drop") = {}
    BY DEF EndsFit, Ends
  <2>2. Ends(Nobody, "drop") \union Y = Y /\ Ends(Nobody, "drop") \intersect Y = {}
    BY <2>1
  <2> DEFINE g == Dropped(h, j, Nobody, "drop")
  <2>3. Sane(g, Y, t) /\ g.port = h.port
    BY <1>1, <1>5, <2>1, <2>2, DroppedIsSane
  <2> HIDE DEF g
  <2>4. HostStep(g)
    BY <1>5 DEF g
  <2> QED
    BY <1>3, <2>3, <2>4, HostStepKeeps DEF h, Y, t
<1>6. CASE CanStart(h, j) /\ HostStep(Started(h, j))
  <2> DEFINE g == Started(h, j)
  <2>1. Sane(g, Y, t) /\ g.port = h.port
    BY <1>1, <1>2, <1>6, StartedIsSane DEF CanStart
  <2> HIDE DEF g
  <2>2. HostStep(g)
    BY <1>6 DEF g
  <2> QED
    BY <1>3, <2>1, <2>2, HostStepKeeps DEF h, Y, t
<1> QED
  BY <1>4, <1>5, <1>6

(* close() keeps the invariant. *)
LEMMA CloseKeeps ==
  ASSUME MirrorsInv, NEW i \in Inputs, Close(i)
  PROVE  MirrorsInv'
<1> DEFINE h == host
           Y == Tokens(Asking(downlink))
           t == Left
           closing == [h EXCEPT !.life[i] = "closing"]
<1>1. h \in Host /\ Sane(h, Y, t)
  BY DEF MirrorsInv, StreamsTypeOK
<1>2. binds' \in 0 .. MaxBinds /\ toggles' \in 0 .. MaxToggles /\ deaf' \in BOOLEAN
  BY DEF MirrorsInv, StreamsTypeOK, Close
<1>3. /\ h.life[i] = "open"
      /\ HostStep(IF h.stream[i] = NoId THEN Retired(closing, i)
                  ELSE Dropped(closing, i, i, "close"))
  BY DEF Close
<1> HIDE DEF h, Y, t
<1>4. CASE h.stream[i] = NoId
  <2>1. closing \in Host /\ closing.port = h.port /\ closing = [h EXCEPT !.life[i] = "closing"]
    BY <1>1 DEF Host
  <2>2. HostStep(Retired(closing, i))
    BY <1>3, <1>4
  <2> HIDE DEF closing
  <2>3. Sane(closing, {<<"close", i>>} \union Y, t) /\ <<"close", i>> \notin Y
    BY <1>1, <1>3, <1>4, <2>1, LifeIsSane
  <2> DEFINE g == Retired(closing, i)
  <2>4. Sane(g, Y, t) /\ g.port = h.port
    BY <2>1, <2>3, RetiredIsSane
  <2> HIDE DEF g
  <2>5. HostStep(g)
    BY <2>2 DEF g
  <2> QED
    BY <1>2, <2>4, <2>5, HostStepKeeps DEF h, Y, t
<1>5. CASE h.stream[i] # NoId
  <2> DEFINE m == h.stream[i]
             k == [h EXCEPT !.stream[i] = NoId,
                            !.attached = [n \in NativeInputs |-> @[n] /\ n # i]]
             c == [k EXCEPT !.life[i] = "closing"]
             g == Dropped(closing, i, i, "close")
  <2>1. m \in Ids
    BY <1>1, <1>5 DEF Host
  <2>2. h.port # 0
    BY <1>1, <1>5 DEF Sane, Good, StreamsOK
  <2>3. /\ k \in Host /\ k.uplink = h.uplink /\ k.port = h.port /\ k.bound = h.bound
        /\ k.ids = h.ids /\ k.life = h.life /\ k.task = h.task
        /\ k.stream = [h.stream EXCEPT ![i] = NoId] /\ k.stream[i] = NoId
    <3>1. h.attached \in [NativeInputs -> BOOLEAN]
      BY <1>1 DEF Host
    <3>2. [n \in NativeInputs |-> h.attached[n] /\ n # i] \in [NativeInputs -> BOOLEAN]
      BY <3>1
    <3> QED
      BY <1>1, <3>2 DEF Host
  <2>4. c \in Host /\ c.port = k.port /\ c = [k EXCEPT !.life[i] = "closing"]
    <3> HIDE DEF k
    <3> QED
      BY <2>3 DEF Host
  <2> DEFINE role == "close"
  <2>5. g = Sent(c, "terminate", m, i, role)
    <3>1. closing.stream[i] = m /\ closing.attached = h.attached
      BY <1>1 DEF Host
    <3> DEFINE att == [n \in NativeInputs |-> h.attached[n] /\ n # i]
    <3>2. [n \in NativeInputs |-> closing.attached[n] /\ n # i] = att
      BY <3>1
    <3>3. k = [h EXCEPT !.stream[i] = NoId, !.attached = att]
      OBVIOUS
    <3>4. c = [closing EXCEPT !.stream[i] = NoId, !.attached = att]
      <4> HIDE DEF att, k
      <4> QED
        BY <1>1, <3>3 DEF Host
    <3>5. g = Sent([closing EXCEPT !.stream[i] = NoId,
                      !.attached = [n \in NativeInputs |-> closing.attached[n] /\ n # i]],
                   "terminate", closing.stream[i], i, "close")
      BY DEF Dropped
    <3> HIDE DEF att, c, g, closing, m
    <3> QED
      BY <3>1, <3>2, <3>4, <3>5
  <2>6. HostStep(g)
    BY <1>3, <1>5
  <2> HIDE DEF k, c, g, closing
  <2>7. Sane(k, IdClaim(m) \union Y, t) /\ IdClaim(m) \intersect Y = {}
    BY <1>1, <1>5, <2>3, StreamDroppedIsSane
  <2> HIDE DEF m
  <2> DEFINE Z == IdClaim(m) \union Y
             C == {<<"close", i>>}
  <2>8. Sane(k, Z, t) /\ k.life[i] # "closing"
    BY <1>3, <2>3, <2>7
  <2> HIDE DEF Z
  <2>9. Sane(c, C \union Z, t) /\ <<"close", i>> \notin Z
    BY <2>3, <2>4, <2>8, LifeIsSane
  <2>10. Ends(i, role) = C /\ EndsFit(i, role)
    BY DEF Ends, EndsFit
  <2> HIDE DEF role
  <2>11. C \union Z = IdClaim(m) \union (Ends(i, role) \union Y)
    BY <2>10 DEF Z
  <2>12. /\ Sane(c, IdClaim(m) \union (Ends(i, role) \union Y), t)
         /\ Ends(i, role) \intersect Y = {}
    BY <2>9, <2>10, <2>11 DEF Z
  <2>13. EndReady(c, Y, t, m, i, role)
    BY <2>1, <2>2, <2>3, <2>4, <2>7, <2>10, <2>12 DEF EndReady, m
  <2>14. Sane(g, Y, t) /\ g.port = h.port
    <3>1. /\ Sane(Sent(c, "terminate", m, i, role), Y, t)
          /\ Sent(c, "terminate", m, i, role).port = c.port
      BY ONLY <2>13, TerminateIsSane
    <3>2. c.port = h.port
      BY <2>3, <2>4
    <3> QED
      BY ONLY <2>5, <3>1, <3>2
  <2> QED
    BY <1>2, <2>6, <2>14, HostStepKeeps DEF h, Y, t
<1> QED
  BY <1>4, <1>5

(* connect() keeps the invariant: the wire is empty, so is the table. *)
LEMMA ConnectKeeps ==
  ASSUME MirrorsInv, Connect
  PROVE  MirrorsInv'
<1> DEFINE h == host
           Y == Tokens(Asking(downlink))
           t == Left
           b == binds + 1
           g == [h EXCEPT !.port = b, !.enabled = FALSE]
           k == Sent(g, "disable", NoId, Nobody, "ready")
           r == Asked(g, "disable", NoId, Nobody, "ready")
           C == {<<"chain">>}
<1>1. /\ h \in Host /\ Sane(h, Y, t) /\ binds \in 0 .. MaxBinds /\ binds < MaxBinds
      /\ binds' = b /\ toggles' = toggles /\ toggles \in 0 .. MaxToggles /\ deaf' = FALSE
      /\ h.port = 0 /\ h.uplink = <<>> /\ downlink = <<>>
  BY DEF MirrorsInv, StreamsTypeOK, Connect
<1>2. HostStep(k)
  BY DEF Connect
<1>3. Y = {}
  <2>1. Asking(downlink) = <<>>
    BY <1>1 DEF Asking
  <2> QED
    BY <2>1, EmptyQueue
<1>4. b \in Binds /\ b # 0 /\ b \in 0 .. MaxBinds
  BY <1>1 DEF Binds
<1>5. /\ g \in Host /\ g.port = b /\ g.uplink = <<>> /\ g.bound = h.bound /\ g.ids = h.ids
      /\ g.life = h.life /\ g.stream = h.stream /\ g.task = h.task
  BY <1>1, <1>4 DEF Host
<1> HIDE DEF Y, t, h, g, b
<1>6. Tokens(h.uplink) = {} /\ Tokens(g.uplink) = {}
  BY <1>1, <1>5, EmptyQueue
<1>7. Good(h, {}) /\ Covers(h, t)
  BY <1>1, <1>3, <1>6 DEF Sane
<1>8. t = {} /\ h.bound = 0 /\ (\A i \in Inputs : h.stream[i] = NoId)
      /\ \A id \in Ids : id \notin h.ids
  BY <1>1, <1>7 DEF Good, Covers, ChainOK, StreamsOK, IdsOK
<1>9. Good(g, C)
  <2>1. TasksOK(g, C)
    BY <1>5, <1>7 DEF Good, TasksOK
  <2>2. ChainOK(g, C) /\ CloseOK(g, C)
    BY <1>4, <1>5, <1>8 DEF ChainOK, CloseOK
  <2>3. StreamsOK(g, C) /\ NativeOK(g)
    BY <1>5, <1>8 DEF StreamsOK, NativeOK, Inputs
  <2>4. IdsOK(g, C)
    <3> SUFFICES ASSUME NEW id \in Ids
                 PROVE  ~ (<<"id", id>> \in C \/ \E i \in Inputs : g.stream[i] = id)
      BY <1>5, <1>8 DEF IdsOK
    <3>1. id # NoId
      BY DEF Ids, NoId
    <3> QED
      BY <1>5, <1>8, <3>1
  <2> QED
    BY <2>1, <2>2, <2>3, <2>4 DEF Good
<1>10. Wired(g.uplink, g.port, C) /\ Covers(g, t)
  <2>1. DOMAIN g.uplink = {}
    BY <1>5
  <2>2. Covers(g, t)
    BY <1>4, <1>5, <1>8, <2>1 DEF Covers
  <2> QED
    BY <1>5, <1>6, <2>2, EmptyQueue DEF Wired
<1>11. Sane(g, C, t)
  <2>1. Tokens(g.uplink) \union C = C
    BY <1>6
  <2> QED
    BY <1>5, <1>9, <1>10, <2>1 DEF Sane
<1>12. /\ r \in Request /\ r.op = "disable" /\ r.role = "ready" /\ r.id = NoId
       /\ r.bind = b /\ r.by = Nobody
  <2>1. g \in Host /\ g.port = b
    BY <1>5
  <2>2. NoId \in Ids \union {NoId} /\ Nobody \in Inputs \union {Nobody}
    OBVIOUS
  <2> QED
    BY ONLY <2>1, <2>2, AskedIsRequest DEF r
<1> HIDE DEF r
<1>13. Formed(r)
  BY <1>4, <1>12 DEF Formed
<1>14. Claims(r) = C
  BY <1>12 DEF Claims, Doing, IdClaim, TaskClaim, CloseClaim, ChainClaim
<1> HIDE DEF C
<1>15. Claims(r) \intersect Y = {} /\ Claims(r) \union Y = C
  BY <1>3, <1>14
<1>16. Sane(k, Y, t)
  BY <1>11, <1>13, <1>15, SentIsSane DEF r
<1> HIDE DEF k
<1> QED
  BY <1>1, <1>2, <1>4, <1>16, HostStepKeeps DEF Y, t

(* disconnect() keeps the invariant. *)
LEMMA DisconnectKeeps ==
  ASSUME MirrorsInv, Disconnect
  PROVE  MirrorsInv'
<1> DEFINE h == host
           Y == Tokens(Asking(downlink))
           t == Left
           g == [h EXCEPT !.bound = 0, !.enabledByUs = FALSE]
           k == Unbinding(g)
<1>1. h \in Host /\ Sane(h, Y, t) /\ h.bound # 0
  BY DEF MirrorsInv, StreamsTypeOK, Disconnect
<1>2. HostStep(k)
  BY DEF Disconnect
<1>3. binds' \in 0 .. MaxBinds /\ toggles' \in 0 .. MaxToggles /\ deaf' \in BOOLEAN
  BY DEF MirrorsInv, StreamsTypeOK, Disconnect
<1>4. /\ g \in Host /\ g.uplink = h.uplink /\ g.port = h.port /\ g.bound = 0 /\ g.ids = h.ids
      /\ g.life = h.life /\ g.stream = h.stream /\ g.task = h.task
  <2>1. 0 \in Binds
    BY DEF Binds
  <2> HIDE DEF h, Y, t
  <2> QED
    BY <1>1, <2>1 DEF Host
<1> HIDE DEF g, h, Y, t
<1>5. Sane(g, {<<"chain">>} \union Y, t) /\ <<"chain">> \notin Y
  BY <1>1, <1>4, ChainBeginsSane
<1>6. Sane(k, Y, t) /\ k.port \in {0, h.port}
  BY <1>4, <1>5, UnbindingIsSane
<1> HIDE DEF k
<1> QED
  BY <1>2, <1>3, <1>6, HostStepKeeps DEF h, Y, t

(* The user's switch keeps the invariant. *)
LEMMA ToggleKeeps ==
  ASSUME MirrorsInv, NEW op \in {"enable", "disable"}, Toggle(op)
  PROVE  MirrorsInv'
<1> DEFINE h == host
           Y == Tokens(Asking(downlink))
           t == Left
           k == Sent(h, op, NoId, Nobody, "user")
<1>1. Sane(h, Y, t) /\ h.port # 0
  BY DEF MirrorsInv, Toggle, Sane, Good, ChainOK
<1>2. HostStep(k)
  BY DEF Toggle
<1>3. binds' \in 0 .. MaxBinds /\ toggles' \in 0 .. MaxToggles /\ deaf' \in BOOLEAN
  BY DEF MirrorsInv, StreamsTypeOK, Toggle
<1> HIDE DEF h, Y, t
<1>4. Sane(k, Y, t) /\ k.port = h.port
  <2>1. PlainFit(op, "user")
    BY DEF PlainFit
  <2> QED
    BY ONLY <1>1, <2>1, PlainIsSane
<1> HIDE DEF k
<1> QED
  BY <1>2, <1>3, <1>4, HostStepKeeps DEF h, Y, t

(* A reply keeps the invariant: the Controller sees it, then what waits for it goes on. *)
LEMMA ReceiveReplyKeeps ==
  ASSUME MirrorsInv, ReceiveReply
  PROVE  MirrorsInv'
<1> DEFINE h == host
           d == downlink
           r == Head(d).req
           c == Tail(d)
           Y == Tokens(Asking(c))
           t == Left
           a == Head(d).ok
<1>0. PICK ok : ok = (a /\ (r.bind = h.port \/ r.op # "create"))
  OBVIOUS
<1> DEFINE K == Known(h, r, ok)
           g == Resumed(K, r, ok)
<1>1. /\ d # <<>> /\ downlink' = c /\ mcu' = mcu /\ refused' = refused
      /\ UNCHANGED <<deaf, binds, toggles, frames, wiped, crowded>>
      /\ host' = Resumed(IF r.bind = h.port THEN Acknowledged(h, r, a) ELSE h, r, a)
  BY DEF ReceiveReply, history
<1>2. /\ h \in Host /\ d \in Seq(Reply) /\ Sane(h, Tokens(Asking(d)), t) /\ Coming(d, h.port)
      /\ Answered(d, t) /\ t \subseteq Ids
  BY DEF MirrorsInv, StreamsTypeOK, Reply, Left
<1>3. /\ Head(d) = d[1] /\ 1 \in DOMAIN d /\ Head(d) \in Reply /\ c \in Seq(Reply)
      /\ \A k \in DOMAIN c : k + 1 \in DOMAIN d /\ c[k] = d[k + 1]
  BY <1>1, <1>2
<1>19. c = Tail(d)
  OBVIOUS
<1> HIDE DEF h, d, c, t
<1>4. r \in Request /\ a \in BOOLEAN /\ ok \in BOOLEAN
  BY <1>0, <1>3 DEF Reply
<1>5. /\ Tokens(Asking(d)) = Claims(r) \union Y /\ Claims(r) \intersect Y = {}
      /\ Asking(d) \in Seq(Request) /\ Asking(c) = Tail(Asking(d)) /\ Apart(Asking(c))
      /\ Head(Asking(d)) = r /\ Asking(d) # <<>>
  <2>1. /\ Asking(d) \in Seq(Request) /\ Asking(d) # <<>> /\ Head(Asking(d)) = r
        /\ Asking(c) = Tail(Asking(d))
    BY <1>1, <1>2, <1>19, AskingTail
  <2>2. Apart(Asking(d))
    BY <1>2 DEF Coming
  <2> DEFINE q == Asking(d)
  <2> HIDE DEF q
  <2>3. /\ Tokens(q) = Claims(Head(q)) \union Tokens(Tail(q))
        /\ Apart(Tail(q)) /\ Claims(Head(q)) \intersect Tokens(Tail(q)) = {}
    BY <2>1, <2>2, TokensTail DEF q
  <2> QED
    BY <2>1, <2>3 DEF q
<1>6. Formed(r) /\ (h.port # 0 => r.bind = h.port)
  <2>1. 1 \in DOMAIN Asking(d) /\ Asking(d)[1] = r
    BY <1>5
  <2> QED
    BY <1>2, <2>1 DEF Coming, Queued
<1>20. h.port = 0 => h.bound = 0
  BY <1>2 DEF Sane, Good, ChainOK
<1>21. host' = g
  <2>1. CASE r.bind = h.port \/ r.op # "create"
    <3>1. ok = a
      BY <1>0, <1>4, <2>1
    <3> QED
      BY <1>1, <3>1 DEF Known
  <2>2. CASE r.bind # h.port /\ r.op = "create"
    <3>1. K = h /\ ~ ok /\ host' = Resumed(h, r, a)
      BY <1>0, <1>1, <2>2 DEF Known
    <3>2. r.role = "task" /\ h.port = 0 /\ h.bound # r.bind
      BY <1>6, <1>20, <2>2 DEF Formed
    <3>3. g = Idle(h, r.by)
      BY <2>2, <3>1, <3>2 DEF Resumed
    <3>4. Resumed(h, r, a) = Idle(h, r.by)
      <4>1. CASE a
        <5>1. Resumed(h, r, a) = Created(h, r.by, r.id, r.bind)
          BY <2>2, <3>2, <4>1 DEF Resumed
        <5> QED
          BY <2>2, <3>2, <5>1 DEF Created, Outdated
      <4>2. CASE ~ a
        BY <2>2, <3>2, <4>2 DEF Resumed
      <4> QED
        BY <4>1, <4>2
    <3> QED
      BY <3>1, <3>3, <3>4
  <2> QED
    BY <2>1, <2>2
<1>7. Coming(c, h.port)
  <2>1. Queued(Asking(c), h.port)
    <3> DEFINE q == Asking(d)
    <3>1. q \in Seq(Request) /\ q # <<>> /\ Queued(q, h.port) /\ Asking(c) = Tail(q)
      BY <1>2, <1>5 DEF Coming
    <3> HIDE DEF q
    <3>2. \A k \in DOMAIN Tail(q) : k + 1 \in DOMAIN q /\ Tail(q)[k] = q[k + 1]
      BY <3>1
    <3> QED
      BY <3>1, <3>2 DEF Queued
  <2>2. \A k \in DOMAIN c : c[k].req.role # "release"
    BY <1>2, <1>3 DEF Coming
  <2> QED
    BY <1>5, <2>1, <2>2 DEF Coming
<1>8. Answered(c, t)
  BY <1>2, <1>3 DEF Answered
<1>9. r.op = "terminate" \/ (r.op = "create" /\ ~ a) => r.id \notin t
  BY <1>2, <1>3 DEF Answered
<1>10. CanCome(h, Y, t, r, ok)
  <2>1. Sane(h, Claims(r) \union Y, t)
    BY <1>2, <1>5
  <2>2. ok /\ r.op = "create" => h.port # 0
    BY <1>0, <1>6 DEF Formed
  <2>3. h.port # 0 /\ (r.op = "terminate" \/ (r.op = "create" /\ ~ ok)) => r.id \notin t
    BY <1>0, <1>6, <1>9
  <2> HIDE DEF r, Y
  <2> QED
    BY <1>4, <1>5, <1>6, <2>1, <2>2, <2>3 DEF CanCome
<1> HIDE DEF r, Y, a
<1>11. /\ Sane(K, Kept(r, ok) \union Y, t) /\ Kept(r, ok) \intersect Y = {}
       /\ K.port = h.port
  <2>1. Sane(K, Kept(r, ok) \union Y, t)
    BY ONLY <1>10, KnownIsSane
  <2>2. Kept(r, ok) \intersect Y = {}
    BY ONLY <1>10, KnownIsSane
  <2>3. K.port = h.port
    BY <1>2 DEF K, Known, Acknowledged, Host
  <2> QED
    BY <2>1, <2>2, <2>3
<1>12. (K.port # 0 => r.bind = K.port) /\ (ok /\ r.op = "create" => K.port # 0)
  BY <1>10, <1>11 DEF CanCome
<1> HIDE DEF K
<1>13. Sane(g, Y, t) /\ g.port \in {0, K.port}
  BY <1>4, <1>6, <1>11, <1>12, ResumedIsSane
<1> HIDE DEF g
<1>14. Coming(c, g.port)
  BY <1>7, <1>11, <1>13 DEF Coming, Queued
<1>15. StreamsTypeOK'
  BY <1>1, <1>3, <1>13, <1>21 DEF MirrorsInv, StreamsTypeOK, Sane, Reply
<1>16. Left' = t
  BY <1>1 DEF Left, t
<1>17. /\ Sane(host', Tokens(Asking(downlink')), Left') /\ Coming(downlink', host'.port)
       /\ Answered(downlink', Left')
  BY <1>1, <1>8, <1>13, <1>14, <1>16, <1>21 DEF Y
<1>18. ~ mcu'.on => mcu'.table = {}
  BY <1>1 DEF MirrorsInv
<1> QED
  BY <1>15, <1>17, <1>18 DEF MirrorsInv

(* An answer that never comes leaves the input in a task, or in a close, that no
   request answers for; there is no stream then. *)
LEMMA UnansweredIsSane ==
  ASSUME NEW h, NEW Y, NEW t, NEW r, Formed(r), h.port = 0,
         Claims(r) \intersect Y = {}, Sane(h, Claims(r) \union Y, t)
  PROVE  Sane(Unanswered(h, r), Y, t) /\ Unanswered(h, r).port = 0
<1> DEFINE g == Unanswered(h, r)
           U == Tokens(h.uplink)
           T == U \union (Claims(r) \union Y)
           S == U \union Y
<1>1. h \in Host /\ Good(h, T) /\ U \intersect (Claims(r) \union Y) = {}
  BY DEF Sane, Wired
<1>2. /\ g \in Host /\ g.uplink = h.uplink /\ g.port = h.port /\ g.bound = h.bound
      /\ g.ids = h.ids /\ g.stream = h.stream
      /\ \A i \in Inputs :
           /\ g.task[i] = IF i = r.by /\ r.role \in {"task", "handoff"}
                          THEN "unanswered" ELSE h.task[i]
           /\ g.life[i] = IF i = r.by /\ r.role = "close" THEN "unanswered" ELSE h.life[i]
  BY <1>1 DEF Unanswered, Host
<1>3. r \in Request
  BY DEF Formed
<1> HIDE DEF g, U
<1>4. S \subseteq T /\ S \intersect Claims(r) = {}
  BY <1>1
<1>5. \A x \in T \ S : x \in Claims(r)
  OBVIOUS
<1>6. \A i \in Inputs, s \in Tasks :
        <<"task", i, s>> \in Claims(r) <=>
          i = r.by /\ r.role \in {"task", "handoff"} /\ s = Doing(r)
  BY <1>3 DEF Claims, IdClaim, TaskClaim, CloseClaim, ChainClaim, Doing, Tasks
<1>7. r.role \in {"task", "handoff"} => r.by \in Inputs /\ Doing(r) \in Tasks
  BY <1>3 DEF Formed, Doing, Tasks, Request, Inputs
<1>8. r.role = "close" => <<"close", r.by>> \in Claims(r)
  BY DEF Claims, CloseClaim
<1> HIDE DEF S, T
<1>9. TasksOK(g, S)
  <2> SUFFICES ASSUME NEW i \in Inputs, NEW s \in Tasks
               PROVE  g.task[i] = s <=> <<"task", i, s>> \in S
    BY DEF TasksOK
  <2>1. h.task[i] = s <=> <<"task", i, s>> \in T
    BY <1>1 DEF Good, TasksOK
  <2>2. CASE i = r.by /\ r.role \in {"task", "handoff"}
    <3>1. g.task[i] # s
      BY <1>2, <2>2 DEF Tasks
    <3>2. ASSUME <<"task", i, s>> \in S PROVE FALSE
      <4>1. h.task[i] = s
        BY <1>4, <2>1, <3>2
      <4>2. <<"task", i, Doing(r)>> \in Claims(r) /\ Doing(r) \in Tasks
        BY <1>6, <1>7, <2>2
      <4>3. <<"task", i, Doing(r)>> \in T
        BY <4>2 DEF T
      <4>4. h.task[i] = Doing(r)
        BY <1>1, <4>2, <4>3 DEF Good, TasksOK
      <4> QED
        BY <1>4, <3>2, <4>1, <4>2, <4>4
    <3> QED
      BY <3>1, <3>2
  <2>3. CASE ~ (i = r.by /\ r.role \in {"task", "handoff"})
    <3>1. <<"task", i, s>> \notin Claims(r)
      BY <1>6, <2>3
    <3>2. <<"task", i, s>> \in S <=> <<"task", i, s>> \in T
      BY <1>4, <1>5, <3>1
    <3> QED
      BY <1>2, <2>1, <2>3, <3>2
  <2> QED
    BY <2>2, <2>3
<1>10. CloseOK(g, S)
  <2> SUFFICES ASSUME NEW i \in Inputs, <<"close", i>> \in S PROVE g.life[i] = "closing"
    BY DEF CloseOK
  <2>1. h.life[i] = "closing"
    BY <1>1, <1>4 DEF Good, CloseOK
  <2>2. ~ (i = r.by /\ r.role = "close")
    BY <1>4, <1>8
  <2> QED
    BY <1>2, <2>1, <2>2
<1>11. ChainOK(g, S)
  BY <1>1, <1>2, <1>4 DEF Good, ChainOK
<1>12. (\A i \in Inputs : g.stream[i] = NoId) /\ (\A id \in Ids : id \notin g.ids)
  BY <1>1, <1>2 DEF Good, StreamsOK, IdsOK
<1>13. StreamsOK(g, S) /\ IdsOK(g, S) /\ NativeOK(g)
  BY <1>2, <1>12 DEF StreamsOK, IdsOK, NativeOK, Inputs
<1>14. Good(g, U \union Y)
  BY <1>9, <1>10, <1>11, <1>13 DEF Good, S
<1>15. Sane(g, Y, t)
  <2>1. Good(g, Tokens(h.uplink) \union Y) /\ Y \intersect Tokens(h.uplink) = {}
    BY <1>1, <1>14 DEF U
  <2> QED
    BY <1>2, <2>1, ChangeIsSane
<1> QED
  BY <1>2, <1>15 DEF g

(* A reply that is lost keeps the invariant: it is of a device that is released. *)
LEMMA LoseReplyKeeps ==
  ASSUME MirrorsInv, LoseReply
  PROVE  MirrorsInv'
<1> DEFINE h == host
           d == downlink
           r == Head(d).req
           c == Tail(d)
           Y == Tokens(Asking(c))
           t == Left
           g == Unanswered(h, r)
<1>1. /\ d # <<>> /\ downlink' = c /\ mcu' = mcu /\ refused' = refused /\ deaf' = TRUE
      /\ UNCHANGED <<binds, toggles, frames, wiped, crowded>>
      /\ host' = g /\ r.bind # h.port
  BY DEF LoseReply, history
<1>2. /\ h \in Host /\ d \in Seq(Reply) /\ Sane(h, Tokens(Asking(d)), t) /\ Coming(d, h.port)
      /\ Answered(d, t)
  BY DEF MirrorsInv, StreamsTypeOK, Reply
<1>3. /\ c \in Seq(Reply)
      /\ \A k \in DOMAIN c : k + 1 \in DOMAIN d /\ c[k] = d[k + 1]
  BY <1>1, <1>2
<1>4. c = Tail(d)
  OBVIOUS
<1> HIDE DEF h, d, c, t
<1>5. /\ Asking(d) \in Seq(Request) /\ Asking(d) # <<>> /\ Head(Asking(d)) = r
      /\ Asking(c) = Tail(Asking(d))
  BY <1>1, <1>2, <1>4, AskingTail
<1> DEFINE q == Asking(d)
<1>6. q \in Seq(Request) /\ q # <<>> /\ Head(q) = r /\ Asking(c) = Tail(q)
      /\ Queued(q, h.port) /\ Apart(q)
  BY <1>2, <1>5 DEF Coming
<1>7. Sane(h, Tokens(q), t)
  BY <1>2
<1> HIDE DEF q, r
<1>8. Tokens(q) = Claims(r) \union Y /\ Claims(r) \intersect Y = {} /\ Apart(Asking(c))
  BY <1>6, TokensTail
<1>9. Formed(r) /\ h.port = 0
  <2>1. 1 \in DOMAIN q /\ q[1] = r
    BY <1>6
  <2> QED
    BY <1>1, <1>6, <2>1 DEF Queued
<1>10. Queued(Asking(c), h.port)
  <2>1. \A k \in DOMAIN Tail(q) : k + 1 \in DOMAIN q /\ Tail(q)[k] = q[k + 1]
    BY <1>6
  <2> QED
    BY <1>6, <2>1 DEF Queued
<1> HIDE DEF Y, g
<1>11. Sane(g, Y, t) /\ g.port = h.port
  BY <1>7, <1>8, <1>9, UnansweredIsSane DEF g
<1>12. Coming(c, g.port)
  <2>1. \A k \in DOMAIN c : c[k].req.role # "release"
    BY <1>2, <1>3 DEF Coming
  <2> QED
    BY <1>8, <1>10, <1>11, <2>1 DEF Coming
<1>13. Answered(c, t)
  BY <1>2, <1>3 DEF Answered
<1>14. StreamsTypeOK'
  BY <1>1, <1>3, <1>11 DEF MirrorsInv, StreamsTypeOK, Sane, Reply
<1>15. Left' = t
  BY <1>1 DEF Left, t
<1>16. /\ Sane(host', Tokens(Asking(downlink')), Left') /\ Coming(downlink', host'.port)
       /\ Answered(downlink', Left')
  BY <1>1, <1>11, <1>12, <1>13, <1>15 DEF Y
<1>17. ~ mcu'.on => mcu'.table = {}
  BY <1>1 DEF MirrorsInv
<1> QED
  BY <1>14, <1>16, <1>17 DEF MirrorsInv

(* A capture keeps the invariant: the table stays as it is. *)
LEMMA FrameKeeps ==
  ASSUME MirrorsInv, NEW id \in Ids, FrameStarts(id) \/ FrameEnds(id)
  PROVE  MirrorsInv'
<1>1. /\ host' = host /\ downlink' = downlink /\ refused' = refused
      /\ mcu'.table = mcu.table /\ mcu'.on = mcu.on
  BY DEF FrameStarts, FrameEnds, history, MirrorsInv, StreamsTypeOK
<1>2. StreamsTypeOK'
  <2>1. StreamsTypeOK
    BY DEF MirrorsInv
  <2>2. CASE FrameStarts(id)
    <3>1. frames' \in 0 .. MaxFrames
      BY <2>1, <2>2 DEF FrameStarts, StreamsTypeOK
    <3>2. crowded' \subseteq Inputs
      BY <2>1, <2>2 DEF FrameStarts, StreamsTypeOK
    <3>3. mcu' \in [on : BOOLEAN, table : SUBSET Ids, held : SUBSET Ids, active : Ids \union {NoId}]
      BY <2>1, <2>2 DEF FrameStarts, StreamsTypeOK
    <3> QED
      BY <2>1, <2>2, <3>1, <3>2, <3>3 DEF FrameStarts, StreamsTypeOK
  <2>3. CASE FrameEnds(id)
    BY <2>1, <2>3 DEF FrameEnds, StreamsTypeOK, history
  <2> QED
    BY <2>2, <2>3
<1>3. Left' = Left
  BY <1>1 DEF Left
<1> QED
  BY <1>1, <1>2, <1>3 DEF MirrorsInv

(* A stuttering step keeps the invariant. *)
LEMMA StutterKeeps ==
  ASSUME MirrorsInv, UNCHANGED streamsVars
  PROVE  MirrorsInv'
<1>1. Left' = Left
  BY DEF Left, streamsVars
<1> QED
  BY <1>1 DEF MirrorsInv, StreamsTypeOK, streamsVars

(* What one packet does to the table. *)
LEMMA HandledTable ==
  ASSUME MirrorsInv, Handle
  PROVE  LET req == Head(host.uplink)
             ok == Allowed(mcu, req)
         IN  /\ Left' \subseteq (IF req.op = "create" THEN Left \union {req.id} ELSE Left)
             /\ req.op = "disable" => Left' = {}
             /\ req.op = "terminate" => req.id \notin Left'
             /\ req.op = "create" /\ ~ ok => Left' \subseteq Left
             /\ mcu' \in [on : BOOLEAN, table : SUBSET Ids, held : SUBSET Ids,
                          active : Ids \union {NoId}]
             /\ ~ mcu'.on => mcu'.table = {}
             /\ refused' \subseteq Ids /\ wiped' \in BOOLEAN /\ crowded' \subseteq Inputs
<1> DEFINE req == Head(host.uplink)
           ok == Allowed(mcu, req)
<1>1. /\ host.uplink \in Seq(Request) /\ host.uplink # <<>> /\ Queued(host.uplink, host.port)
      /\ mcu \in [on : BOOLEAN, table : SUBSET Ids, held : SUBSET Ids,
                  active : Ids \union {NoId}]
      /\ refused \subseteq Ids /\ wiped \in BOOLEAN /\ crowded \subseteq Inputs
      /\ (~ mcu.on => mcu.table = {})
  BY DEF MirrorsInv, StreamsTypeOK, Host, Handle, Sane, Wired
<1>2. req \in Request /\ Formed(req)
  <2>1. 1 \in DOMAIN host.uplink /\ req = host.uplink[1] /\ req \in Request
    BY <1>1
  <2> QED
    BY <1>1, <2>1 DEF Queued
<1>3. /\ mcu' = (IF ok THEN Applied(mcu, req) ELSE mcu)
      /\ refused' = (IF req.op = "terminate" /\ mcu.on /\ req.id \in mcu.held
                       THEN refused \union {req.id} ELSE refused \intersect mcu'.table)
      /\ wiped' = (wiped \/ (req.role = "user" /\ mcu.table # {} /\ mcu'.table = {}))
      /\ crowded' = (IF req.op # "create" THEN crowded
                     ELSE IF mcu.table = {} THEN crowded \ {req.by}
                     ELSE crowded \union {req.by})
  BY DEF Handle, Noted
<1>4. req.id \in Ids \union {NoId} /\ (req.op \in {"create", "terminate"} => req.id \in Ids)
      /\ (req.op = "create" => req.by \in Inputs)
      /\ req.op \in {"enable", "disable", "create", "terminate"}
  BY <1>2 DEF Formed, Request
<1> HIDE DEF req, ok
<1>5. wiped' \in BOOLEAN /\ crowded' \subseteq Inputs
  BY <1>1, <1>3, <1>4
<1>6. CASE req.op = "enable"
  <2>1. ok
    BY <1>6 DEF ok, Allowed
  <2>2. mcu' = [mcu EXCEPT !.on = TRUE]
    BY <1>3, <1>6, <2>1 DEF Applied
  <2>3. mcu'.table = mcu.table /\ mcu'.on
        /\ mcu' \in [on : BOOLEAN, table : SUBSET Ids, held : SUBSET Ids,
                     active : Ids \union {NoId}]
    BY <1>1, <2>2
  <2>4. refused' = refused \intersect mcu.table
    BY <1>3, <1>6, <2>3
  <2> QED
    BY <1>1, <1>5, <1>6, <2>3, <2>4 DEF Left, req, ok
<1>7. CASE req.op = "disable"
  <2>1. ok
    BY <1>7 DEF ok, Allowed
  <2>2. mcu' = IF mcu.on THEN SwitchedOff(mcu) ELSE mcu
    BY <1>3, <1>7, <2>1 DEF Applied
  <2>3. mcu'.table = {}
        /\ mcu' \in [on : BOOLEAN, table : SUBSET Ids, held : SUBSET Ids,
                     active : Ids \union {NoId}]
    BY <1>1, <2>2 DEF SwitchedOff
  <2>4. refused' = refused \intersect mcu'.table
    BY <1>3, <1>7
  <2> QED
    BY <1>1, <1>5, <1>7, <2>3, <2>4 DEF Left, req, ok
<1>8. CASE req.op = "create" /\ ok
  <2>1. mcu.on
    BY <1>8 DEF ok, Allowed
  <2>2. mcu' = WithStream(mcu, req.id)
    BY <1>3, <1>8 DEF Applied
  <2>3. mcu'.table = mcu.table \union {req.id} /\ mcu'.on
        /\ mcu' \in [on : BOOLEAN, table : SUBSET Ids, held : SUBSET Ids,
                     active : Ids \union {NoId}]
    BY <1>1, <1>4, <1>8, <2>1, <2>2 DEF WithStream
  <2>4. refused' = refused \intersect mcu'.table
    BY <1>3, <1>8
  <2> QED
    BY <1>1, <1>5, <1>8, <2>3, <2>4 DEF Left, req, ok
<1>9. CASE req.op = "terminate" /\ ok
  <2>1. mcu.on /\ req.id \in mcu.table \ mcu.held
    BY <1>9 DEF ok, Allowed
  <2>2. mcu' = WithoutStream(mcu, req.id)
    BY <1>3, <1>9 DEF Applied
  <2>3. mcu'.table = mcu.table \ {req.id} /\ mcu'.on
        /\ mcu' \in [on : BOOLEAN, table : SUBSET Ids, held : SUBSET Ids,
                     active : Ids \union {NoId}]
    BY <1>1, <1>4, <1>9, <2>1, <2>2 DEF WithoutStream
  <2>4. refused' = refused \intersect mcu'.table
    BY <1>3, <2>1
  <2> QED
    BY <1>1, <1>5, <1>9, <2>3, <2>4 DEF Left, req, ok
<1>10. CASE req.op \in {"create", "terminate"} /\ ~ ok
  <2>1. mcu' = mcu
    BY <1>3, <1>10
  <2>2. CASE req.op = "create"
    <3>1. refused' = refused \intersect mcu.table
      BY <1>3, <2>1, <2>2
    <3> QED
      BY <1>1, <1>5, <2>1, <2>2, <3>1 DEF Left, req, ok
  <2>3. CASE req.op = "terminate"
    <3>1. ~ mcu.on \/ req.id \notin mcu.table \/ req.id \in mcu.held
      BY <1>10, <2>3 DEF ok, Allowed
    <3>2. req.id \notin Left' /\ Left' \subseteq Left /\ refused' \subseteq Ids
      BY <1>1, <1>3, <1>4, <2>1, <2>3, <3>1 DEF Left
    <3> QED
      BY <1>1, <1>5, <2>1, <2>3, <3>2 DEF req, ok
  <2> QED
    BY <1>10, <2>2, <2>3
<1> QED
  BY <1>4, <1>6, <1>7, <1>8, <1>9, <1>10

(* A packet in the firmware keeps the invariant: its reply answers for what it did. *)
LEMMA HandleKeeps ==
  ASSUME MirrorsInv, Handle
  PROVE  MirrorsInv'
<1> DEFINE h == host
           d == downlink
           q == h.uplink
           p == Tail(q)
           r == Head(q)
           t == Left
           u == Left'
           D == Asking(d)
           Y == Tokens(D)
           C == Claims(r)
           g == [h EXCEPT !.uplink = p]
<1>0. PICK ok : ok = Allowed(mcu, r)
  OBVIOUS
<1>1. /\ h \in Host /\ q \in Seq(Request) /\ q # <<>> /\ d \in Seq(Reply)
      /\ Sane(h, Y, t) /\ Coming(d, h.port) /\ Answered(d, t) /\ t \subseteq Ids
      /\ D \in Seq(Request)
  <2>1. /\ h \in Host /\ q \in Seq(Request) /\ q # <<>> /\ d \in Seq(Reply)
        /\ Sane(h, Y, t) /\ Coming(d, h.port) /\ Answered(d, t) /\ t \subseteq Ids
    BY DEF MirrorsInv, StreamsTypeOK, Host, Handle, Reply, Left
  <2>2. D \in [1 .. Len(d) -> Request]
    <3>1. DOMAIN d = 1 .. Len(d) /\ \A k \in 1 .. Len(d) : d[k] \in Reply
      BY <2>1
    <3> QED
      BY <3>1 DEF Asking, Reply
  <2>3. Len(d) \in Nat
    BY <2>1
  <2> QED
    BY <2>1, <2>2, <2>3
<1>2. /\ host' = g
      /\ downlink' = (IF r.role = "release" THEN d ELSE Append(d, [req |-> r, ok |-> ok]))
      /\ UNCHANGED <<deaf, binds, toggles, frames>>
  BY <1>0 DEF Handle
<1>3. /\ u \subseteq (IF r.op = "create" THEN t \union {r.id} ELSE t)
      /\ r.op = "disable" => u = {}
      /\ r.op = "terminate" => r.id \notin u
      /\ r.op = "create" /\ ~ ok => u \subseteq t
  BY <1>0, HandledTable
<1>4. /\ mcu' \in [on : BOOLEAN, table : SUBSET Ids, held : SUBSET Ids,
                   active : Ids \union {NoId}]
      /\ ~ mcu'.on => mcu'.table = {}
      /\ refused' \subseteq Ids /\ wiped' \in BOOLEAN /\ crowded' \subseteq Inputs
  BY HandledTable
<1>5. ok \in BOOLEAN
  BY <1>0 DEF Allowed, MirrorsInv, StreamsTypeOK
<1>6. /\ p \in Seq(Request) /\ r \in Request /\ r = q[1] /\ 1 \in DOMAIN q
      /\ Len(p) = Len(q) - 1 /\ Len(q) \in Nat \ {0}
      /\ \A k \in DOMAIN p : k + 1 \in DOMAIN q /\ p[k] = q[k + 1] /\ k + 1 # 1
  BY <1>1
<1>7. /\ g \in Host /\ g.uplink = p /\ g.port = h.port /\ g.bound = h.bound /\ g.ids = h.ids
      /\ g.life = h.life /\ g.stream = h.stream /\ g.task = h.task
  BY <1>1, <1>6 DEF Host
<1>8. g = [h EXCEPT !.uplink = p]
  OBVIOUS
<1> HIDE DEF h, d, t, u, g
<1>9. /\ Queued(q, h.port) /\ Apart(q) /\ Tokens(q) \intersect Y = {}
      /\ Good(h, Tokens(q) \union Y) /\ Covers(h, t)
  BY <1>1 DEF Sane, Wired
<1> HIDE DEF q, p
<1>10. /\ Tokens(q) = C \union Tokens(p) /\ Apart(p) /\ C \intersect Tokens(p) = {}
  BY <1>1, <1>9, TokensTail DEF p, r
<1>11. Formed(r) /\ (h.port # 0 => r.bind = h.port)
  BY <1>6, <1>9 DEF Queued
<1> HIDE DEF r
<1>12. C \intersect Y = {} /\ Tokens(p) \intersect (C \union Y) = {}
  BY <1>9, <1>10
<1>13. Wired(p, h.port, C \union Y)
  <2>1. Queued(p, h.port)
    BY <1>6, <1>9 DEF Queued
  <2> QED
    BY <1>10, <1>12, <2>1 DEF Wired
<1>14. Good(g, Tokens(p) \union (C \union Y))
  <2>1. Tokens(p) \union (C \union Y) = Tokens(q) \union Y
    BY <1>10
  <2> QED
    BY <1>7, <1>9, <2>1 DEF Good, TasksOK, ChainOK, CloseOK, StreamsOK, IdsOK, NativeOK
<1>15. r.id \in Ids => <<"id", r.id>> \in C
  <2>1. r.id \in Ids => r.id # NoId
    BY DEF Ids, NoId
  <2> QED
    BY <2>1 DEF Claims, IdClaim
<1>16. r.op \in {"create", "terminate"} => r.id \in Ids
  BY <1>11 DEF Formed, Request
<1>17. Covers(g, u)
  <2>1. ASSUME h.port # 0 PROVE u \subseteq h.ids
    <3>1. t \subseteq h.ids
      BY <1>9, <2>1 DEF Covers
    <3>2. r.op = "create" => r.id \in h.ids
      <4>1. IdsOK(h, Tokens(q) \union Y)
        BY <1>9 DEF Good
      <4>2. r.op = "create" => r.id \in Ids /\ <<"id", r.id>> \in Tokens(q) \union Y
        BY <1>10, <1>15, <1>16
      <4> QED
        BY <2>1, <4>1, <4>2 DEF IdsOK
    <3> QED
      BY <1>3, <3>1, <3>2
  <2>2. ASSUME h.port = 0 PROVE IF p = <<>> THEN u = {} ELSE p[Len(p)].op = "disable"
    <3>1. q[Len(q)].op = "disable"
      BY <1>1, <1>9, <2>2 DEF Covers, q
    <3>2. CASE p = <<>>
      <4>1. Len(q) = 1
        BY <1>6, <3>2
      <4> QED
        BY <1>3, <1>6, <3>1, <3>2, <4>1
    <3>3. CASE p # <<>>
      <4>1. Len(p) \in DOMAIN p /\ Len(p) + 1 = Len(q)
        BY <1>6, <3>3
      <4> QED
        BY <1>6, <3>1, <3>3, <4>1
    <3> QED
      BY <3>2, <3>3
  <2>3. ASSUME NEW k \in DOMAIN p, p[k].op = "create" PROVE p[k].id \notin u
    <3>1. k + 1 \in DOMAIN q /\ q[k + 1] = p[k] /\ k + 1 # 1
      BY <1>6
    <3>2. p[k].id \notin t
      BY <1>9, <2>3, <3>1 DEF Covers, q
    <3>3. p[k].id \in Ids
      <4>1. Formed(p[k])
        BY <1>9, <3>1 DEF Queued
      <4> QED
        BY <2>3, <4>1 DEF Formed, Request
    <3>4. <<"id", p[k].id>> \in Claims(p[k])
      <4>1. p[k].id # NoId
        BY <3>3 DEF Ids, NoId
      <4> QED
        BY <4>1 DEF Claims, IdClaim
    <3>5. Claims(q[1]) \intersect Claims(q[k + 1]) = {}
      BY <1>6, <1>9, <3>1 DEF Apart
    <3>6. r.op = "create" => r.id # p[k].id
      BY <1>6, <1>15, <1>16, <3>1, <3>4, <3>5
    <3> QED
      BY <1>3, <3>2, <3>6
  <2> QED
    BY <1>7, <2>1, <2>2, <2>3 DEF Covers
<1>18. Sane(g, C \union Y, u)
  BY <1>7, <1>13, <1>14, <1>17 DEF Sane
<1>19. Answered(d, u)
  <2> SUFFICES ASSUME NEW k \in DOMAIN d,
                      d[k].req.op = "terminate" \/ (d[k].req.op = "create" /\ ~ d[k].ok)
               PROVE  d[k].req.id \notin u
    BY DEF Answered
  <2>1. d[k].req.id \notin t
    BY <1>1 DEF Answered
  <2>2. k \in DOMAIN D /\ D[k] = d[k].req
    BY DEF Asking
  <2>3. Formed(D[k])
    BY <1>1, <2>2 DEF Coming, Queued
  <2>4. D[k].id \in Ids /\ D[k].id # NoId
    BY <2>2, <2>3 DEF Formed, Request
  <2>5. <<"id", D[k].id>> \in Y
    BY <2>2, <2>4 DEF Tokens, Claims, IdClaim
  <2>6. r.op = "create" => r.id # D[k].id
    BY <1>12, <1>15, <1>16, <2>5
  <2> QED
    BY <1>3, <2>1, <2>2, <2>6
<1>20. r.op = "create" => r.id \notin t
  BY <1>6, <1>9 DEF Covers, q
<1>21. /\ downlink' \in Seq(Reply) /\ Tokens(Asking(downlink')) = C \union Y
       /\ Coming(downlink', h.port) /\ Answered(downlink', u)
  <2>1. CASE r.role = "release"
    <3>1. C = {}
      BY <1>11, <2>1 DEF Formed, Claims, Doing, IdClaim, TaskClaim, CloseClaim, ChainClaim
    <3> QED
      BY <1>1, <1>2, <1>19, <2>1, <3>1
  <2>2. CASE r.role # "release"
    <3> DEFINE a == [req |-> r, ok |-> ok]
               e == Append(d, a)
    <3>1. a \in Reply /\ a.req = r /\ a.ok = ok
      BY <1>5, <1>6 DEF Reply
    <3>2. downlink' = e /\ Asking(e) = Append(D, r)
      BY <1>1, <1>2, <1>5, <1>6, <2>2, AskingAppend
    <3> HIDE DEF a, D
    <3>3. /\ e \in Seq(Reply) /\ DOMAIN e = 1 .. Len(d) + 1 /\ e[Len(d) + 1] = a
          /\ DOMAIN d = 1 .. Len(d) /\ Len(d) \in Nat
          /\ \A k \in 1 .. Len(d) : e[k] = d[k]
      BY <1>1, <3>1
    <3>4. Tokens(Append(D, r)) = Y \union C
      BY <1>1, <1>6, TokensAppend
    <3>5. Queued(D, h.port) /\ Apart(D)
      BY <1>1 DEF Coming, D
    <3>6. Apart(Append(D, r))
      BY <1>1, <1>6, <1>12, <3>5, TokensAppend
    <3>7. Queued(Append(D, r), h.port)
      BY <1>1, <1>6, <1>11, <3>5 DEF Queued
    <3> HIDE DEF e
    <3>8. \A k \in DOMAIN e : (k \in DOMAIN d /\ e[k] = d[k]) \/ e[k] = a
      BY <3>3
    <3>9. \A k \in DOMAIN e : e[k].req.role # "release"
      BY <1>1, <2>2, <3>1, <3>8 DEF Coming
    <3>10. Answered(e, u)
      BY <1>3, <1>19, <1>20, <3>1, <3>8 DEF Answered
    <3> QED
      BY <3>2, <3>3, <3>4, <3>6, <3>7, <3>9, <3>10 DEF Coming
  <2> QED
    BY <2>1, <2>2
<1>22. StreamsTypeOK'
  <2>1. host' \in Host
    BY <1>2, <1>7
  <2>2. binds' \in 0 .. MaxBinds /\ toggles' \in 0 .. MaxToggles /\ frames' \in 0 .. MaxFrames
       /\ deaf' \in BOOLEAN
    BY <1>2 DEF MirrorsInv, StreamsTypeOK
  <2> QED
    BY <1>4, <1>21, <2>1, <2>2 DEF StreamsTypeOK, Reply
<1>23. Sane(host', Tokens(Asking(downlink')), Left')
  BY <1>2, <1>18, <1>21 DEF u
<1>24. Coming(downlink', host'.port) /\ Answered(downlink', Left')
  BY <1>2, <1>7, <1>21 DEF u
<1> QED
  BY <1>4, <1>22, <1>23, <1>24 DEF MirrorsInv

(* The invariant holds at the start. *)
LEMMA MirrorsInit ==
  ASSUME StreamsInit
  PROVE  MirrorsInv
<1> DEFINE h == host
           t == Left
<1>1. StreamsTypeOK
  <2>1. 0 \in Binds /\ NoId \in Ids \union {NoId}
    BY DEF Binds
  <2>2. host \in Host
    BY <2>1 DEF StreamsInit, Host
  <2>3. mcu \in [on : BOOLEAN, table : SUBSET Ids, held : SUBSET Ids, active : Ids \union {NoId}]
    BY <2>1 DEF StreamsInit
  <2>4. downlink \in Seq([req : Request, ok : BOOLEAN])
    BY DEF StreamsInit
  <2>6. deaf \in BOOLEAN
    BY DEF StreamsInit
  <2>5. 0 \in 0 .. MaxBinds /\ 0 \in 0 .. MaxToggles /\ 0 \in 0 .. MaxFrames
    OBVIOUS
  <2> QED
    BY <2>2, <2>3, <2>4, <2>5, <2>6 DEF StreamsInit, StreamsTypeOK
<1>2. /\ h \in Host /\ h.port = 0 /\ h.bound = 0 /\ h.ids = {} /\ h.uplink = <<>>
      /\ (\A i \in Inputs : h.stream[i] = NoId /\ h.task[i] = "idle")
      /\ downlink = <<>> /\ t = {} /\ ~ mcu.on /\ mcu.table = {}
  BY <1>1 DEF StreamsInit, StreamsTypeOK, Left
<1> HIDE DEF h, t
<1>3. DOMAIN downlink = {} /\ Asking(downlink) = <<>>
  BY <1>2 DEF Asking
<1>4. Tokens(h.uplink) = {} /\ Tokens(Asking(downlink)) = {}
  BY <1>2, <1>3, EmptyQueue
<1>5. Good(h, {})
  <2>1. TasksOK(h, {}) /\ ChainOK(h, {}) /\ CloseOK(h, {})
    BY <1>2 DEF TasksOK, ChainOK, CloseOK, Tasks
  <2>2. StreamsOK(h, {}) /\ NativeOK(h) /\ IdsOK(h, {})
    BY <1>2 DEF StreamsOK, NativeOK, IdsOK, Inputs
  <2> QED
    BY <2>1, <2>2 DEF Good
<1>6. Covers(h, t)
  <2>1. DOMAIN h.uplink = {}
    BY <1>2
  <2> QED
    BY <1>2, <2>1 DEF Covers
<1>7. Wired(h.uplink, h.port, {})
  BY <1>2, EmptyQueue DEF Wired
<1>8. Sane(h, {}, t)
  <2>1. Tokens(h.uplink) \union {} = {}
    BY <1>4
  <2> QED
    BY <1>2, <1>5, <1>6, <1>7, <2>1 DEF Sane
<1>9. Coming(downlink, h.port) /\ Answered(downlink, t)
  BY <1>2, <1>3, EmptyQueue DEF Coming, Answered
<1> QED
  BY <1>1, <1>2, <1>4, <1>8, <1>9 DEF MirrorsInv, h, t

(* The host, the wire and the table of the firmware agree, in every behaviour. *)
THEOREM MirrorsInvariant == StreamsSpec => []MirrorsInv
<1>1. StreamsInit => MirrorsInv
  BY MirrorsInit
<1>2. MirrorsInv /\ [StreamsNext]_streamsVars => MirrorsInv'
  <2> SUFFICES ASSUME MirrorsInv, [StreamsNext]_streamsVars PROVE MirrorsInv'
    OBVIOUS
  <2>1. ASSUME NEW i \in Inputs, Open(i) PROVE MirrorsInv'
    BY <2>1, OpenKeeps
  <2>2. ASSUME NEW i \in Inputs, Close(i) PROVE MirrorsInv'
    BY <2>2, CloseKeeps
  <2>3. ASSUME NEW j \in JsInputs, Update(j) PROVE MirrorsInv'
    BY <2>3, UpdateKeeps
  <2>4. ASSUME NEW op \in {"enable", "disable"}, Toggle(op) PROVE MirrorsInv'
    BY <2>4, ToggleKeeps
  <2>5. ASSUME NEW id \in Ids, FrameStarts(id) \/ FrameEnds(id) PROVE MirrorsInv'
    BY <2>5, FrameKeeps
  <2>6. CASE Connect
    BY <2>6, ConnectKeeps
  <2>7. CASE Disconnect
    BY <2>7, DisconnectKeeps
  <2>8. CASE ReceiveReply
    BY <2>8, ReceiveReplyKeeps
  <2>11. CASE LoseReply
    BY <2>11, LoseReplyKeeps
  <2>9. CASE Handle
    BY <2>9, HandleKeeps
  <2>10. CASE UNCHANGED streamsVars
    BY <2>10, StutterKeeps
  <2> QED
    BY <2>1, <2>2, <2>3, <2>4, <2>5, <2>6, <2>7, <2>8, <2>9, <2>10, <2>11 DEF StreamsNext
<1> QED
  BY <1>1, <1>2, PTL DEF StreamsSpec

(* The type invariant holds, for every set of inputs and every capacity. *)
THEOREM StreamsTyping == StreamsSpec => []StreamsTypeOK
<1>1. MirrorsInv => StreamsTypeOK
  BY DEF MirrorsInv
<1> QED
  BY <1>1, MirrorsInvariant, PTL

(* The claims on an id are tokens, so there is one of them and the id is taken, or none. *)
LEMMA OneOwner ==
  ASSUME MirrorsInv
  PROVE  EveryIdHasOneOwner
<1> DEFINE h == host
           q == h.uplink
           D == Asking(downlink)
           T == Tokens(q) \union Tokens(D)
<1>1. /\ h \in Host /\ Queued(q, h.port) /\ Apart(q) /\ Tokens(q) \intersect Tokens(D) = {}
      /\ StreamsOK(h, T) /\ IdsOK(h, T) /\ Queued(D, h.port) /\ Apart(D)
  BY DEF MirrorsInv, StreamsTypeOK, Sane, Wired, Good, Coming
<1>2. Requests = {q[k] : k \in DOMAIN q} \union {D[k] : k \in DOMAIN D}
  <2>1. {r.req : r \in Range(downlink)} = {D[k] : k \in DOMAIN D}
    BY DEF Range, Asking
  <2>2. Range(q) = {q[k] : k \in DOMAIN q}
    BY DEF Range
  <2> QED
    BY <2>1, <2>2 DEF Requests
<1> HIDE DEF h, q, D
<1> SUFFICES ASSUME NEW id \in Ids
             PROVE  Cardinality({i \in Inputs : h.stream[i] = id})
                    + Cardinality({r \in Requests : r.id = id /\ r.bind = h.port})
                      = IF id \in h.ids THEN 1 ELSE 0
  BY DEF EveryIdHasOneOwner, h
<1> DEFINE S == {i \in Inputs : h.stream[i] = id}
           R == {r \in Requests : r.id = id /\ r.bind = h.port}
<1>3. id # NoId
  BY DEF Ids, NoId
<1>4. \A r \in Requests : r.id = id => <<"id", id>> \in Claims(r)
  BY <1>3 DEF Claims, IdClaim
<1>5. \A r \in Requests : r.bind # 0 /\ (h.port # 0 => r.bind = h.port)
  BY <1>1, <1>2 DEF Queued, Formed
<1>6. \A r \in Requests : r.id = id => <<"id", id>> \in T
  BY <1>2, <1>4 DEF Tokens
<1>7. <<"id", id>> \in T => \E r \in Requests : r.id = id
  <2> SUFFICES ASSUME <<"id", id>> \in T PROVE \E r \in Requests : r.id = id
    OBVIOUS
  <2>1. PICK r \in Requests : <<"id", id>> \in Claims(r)
    BY <1>2 DEF Tokens
  <2>2. r.id = id
    BY <2>1 DEF Claims, IdClaim, TaskClaim, CloseClaim, ChainClaim
  <2> QED
    BY <2>2
<1>8. \A r, s \in Requests : r.id = id /\ s.id = id => r = s
  <2> SUFFICES ASSUME NEW r \in Requests, NEW s \in Requests, r.id = id, s.id = id, r # s
               PROVE  FALSE
    OBVIOUS
  <2>1. <<"id", id>> \in Claims(r) /\ <<"id", id>> \in Claims(s)
    BY <1>4
  <2>2. CASE (\E k \in DOMAIN q : r = q[k]) /\ (\E k \in DOMAIN q : s = q[k])
    BY <1>1, <2>1, <2>2 DEF Apart
  <2>3. CASE (\E k \in DOMAIN D : r = D[k]) /\ (\E k \in DOMAIN D : s = D[k])
    BY <1>1, <2>1, <2>3 DEF Apart
  <2>4. CASE (\E k \in DOMAIN q : r = q[k]) /\ (\E k \in DOMAIN D : s = D[k])
    BY <1>1, <2>1, <2>4 DEF Tokens
  <2>5. CASE (\E k \in DOMAIN D : r = D[k]) /\ (\E k \in DOMAIN q : s = q[k])
    BY <1>1, <2>1, <2>5 DEF Tokens
  <2> QED
    BY <1>2, <2>2, <2>3, <2>4, <2>5
<1>9. /\ \A i, j \in S : i = j
      /\ S # {} => h.port # 0 /\ <<"id", id>> \notin T /\ id \in h.ids
  BY <1>1, <1>3 DEF StreamsOK, IdsOK
<1>10. /\ \A r, s \in R : r = s
       /\ R # {} => h.port # 0 /\ <<"id", id>> \in T /\ id \in h.ids
  BY <1>1, <1>5, <1>6, <1>8 DEF IdsOK
<1>11. id \in h.ids => S # {} \/ R # {}
  BY <1>1, <1>5, <1>7 DEF IdsOK
<1>12. SUFFICES Cardinality(S) + Cardinality(R) = IF id \in h.ids THEN 1 ELSE 0
  OBVIOUS
<1>13. Cardinality({}) = 0 /\ \A x : Cardinality({x}) = 1
  BY FS_Singleton, FS_EmptySet
<1> HIDE DEF S, R
<1>14. CASE S # {}
  <2>1. PICK i : S = {i}
    BY <1>9, <1>14
  <2>2. R = {} /\ id \in h.ids
    BY <1>9, <1>10, <1>14
  <2>3. Cardinality(S) = 1 /\ Cardinality(R) = 0
    BY ONLY <2>1, <2>2, <1>13, Zenon
  <2> QED
    BY ONLY <2>2, <2>3
<1>15. CASE S = {} /\ R # {}
  <2>1. PICK r : R = {r}
    BY <1>10, <1>15
  <2>2. id \in h.ids
    BY <1>10, <1>15
  <2>3. Cardinality(S) = 0 /\ Cardinality(R) = 1
    BY ONLY <1>15, <2>1, <1>13, Zenon
  <2> QED
    BY ONLY <2>2, <2>3
<1>16. CASE S = {} /\ R = {}
  BY <1>11, <1>16, <1>13
<1> QED
  BY <1>14, <1>15, <1>16

(* Every id the pool has given out belongs to one input or one request, whatever is
   closed, swapped or handed off meanwhile, and for every number of inputs and ids. *)
THEOREM EveryStreamIdHasOneOwner == StreamsSpec => []EveryIdHasOneOwner
BY MirrorsInvariant, OneOwner, PTL

(* With nothing on the wire the inputs alone hold the ids, and no task runs. *)
LEMMA SettledHost ==
  ASSUME MirrorsInv, Settled
  PROVE  /\ Good(host, {})
         /\ host.port # 0 => \A id \in mcu.table \ refused :
                               \E i \in Inputs : host.stream[i] = id /\ id # NoId
<1>1. Tokens(host.uplink) = {} /\ Tokens(Asking(downlink)) = {}
  <2>1. host.uplink = <<>> /\ Asking(downlink) = <<>>
    BY DEF Settled, Asking
  <2> QED
    BY <2>1, EmptyQueue
<1>2. Good(host, {}) /\ Covers(host, Left)
  <2>1. Tokens(host.uplink) \union Tokens(Asking(downlink)) = {}
    BY <1>1
  <2> QED
    BY <2>1 DEF MirrorsInv, Sane
<1>3. ASSUME host.port # 0, NEW id \in mcu.table \ refused
      PROVE  \E i \in Inputs : host.stream[i] = id /\ id # NoId
  <2>1. id \in host.ids
    BY <1>2, <1>3 DEF Covers, Left
  <2>2. id \in Ids /\ id # NoId
    BY DEF MirrorsInv, StreamsTypeOK, Ids, NoId
  <2> QED
    BY <1>2, <2>1, <2>2 DEF Good, IdsOK
<1> QED
  BY <1>2, <1>3

(* When nothing is on the wire, the firmware has the streams of open inputs only, and
   those it refused to terminate. *)
THEOREM NoStreamOutlivesItsInput == StreamsSpec => []NoStreamIsOrphaned
<1>1. MirrorsInv => NoStreamIsOrphaned
  <2> SUFFICES ASSUME MirrorsInv, Settled, host.port # 0, NEW id \in mcu.table, id \notin refused
               PROVE  id \in Held
    BY DEF NoStreamIsOrphaned
  <2>1. PICK i \in Inputs : host.stream[i] = id /\ id # NoId
    BY SettledHost
  <2>2. host.life[i] = "open"
    BY <2>1, SettledHost DEF Good, StreamsOK
  <2> QED
    BY <2>1, <2>2 DEF Held, Streaming
<1> QED
  BY <1>1, MirrorsInvariant, PTL

(* When nothing is on the wire and a native input is attached, no JS input has a stream
   besides it. *)
THEOREM AttachedNativeIsAlone == StreamsSpec => []NativeOwnsTheWire
<1>1. MirrorsInv => NativeOwnsTheWire
  <2> SUFFICES ASSUME MirrorsInv, NEW n \in NativeInputs, Settled, host.stream[n] # NoId
               PROVE  /\ Streaming(host, JsInputs) = {}
                      /\ mcu.table \subseteq {host.stream[m] : m \in NativeInputs} \union refused
    BY DEF NativeOwnsTheWire
  <2>1. Good(host, {}) /\ n \in Inputs
    BY SettledHost DEF Inputs
  <2>2. host.port # 0
    BY <2>1 DEF Good, StreamsOK
  <2>3. host.task[n] # "handoff"
    BY <2>1 DEF Good, TasksOK, Tasks
  <2>4. \A j \in JsInputs : host.stream[j] = NoId
    BY <2>1, <2>3 DEF Good, NativeOK
  <2>5. ASSUME NEW id \in mcu.table, id \notin refused
        PROVE  id \in {host.stream[m] : m \in NativeInputs}
    <3>1. PICK i \in Inputs : host.stream[i] = id /\ id # NoId
      BY <2>2, <2>5, SettledHost
    <3> QED
      BY <2>4, <3>1 DEF Inputs
  <2> QED
    BY <2>4, <2>5 DEF Streaming
<1> QED
  BY <1>1, MirrorsInvariant, PTL
=============================================================================
