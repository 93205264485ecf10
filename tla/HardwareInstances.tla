-------------------------- MODULE HardwareInstances --------------------------
(***************************************************************************)
(* The disposable orchestrator processes of the main process and the gate  *)
(* that lets at most one of them hold the cameras and the mirrors.         *)
(*                                                                         *)
(* Every app window forks an instance and owns it (spawnWindow, main.ts).  *)
(* A switch drains and shuts down the outgoing instance, then forks the    *)
(* next one at once; the next one may touch the hardware when the registry *)
(* (orchestrator-instances.ts) has seen every other instance die, after a  *)
(* clean-exit ack or after a janitor process has swept (main.ts).  The     *)
(* other side is the life of one orchestrator process: shutdown, quiesce,  *)
(* ack, SIGTERM, crash (orchestrator/index.ts).                            *)
(*                                                                         *)
(* Messages between main and an instance are FIFO in each direction, and   *)
(* an instance's exit is reported after the messages it got out.  Timers   *)
(* may fire at any time while they are armed.                              *)
(***************************************************************************)
EXTENDS Naturals, Sequences, FiniteSets, FiniteSetsExt

CONSTANTS
  MaxInstances,    \* bound: instances forked
  MaxSwitches,     \* bound: drain requests main makes
  QuiesceMayFail,  \* whether disarming may throw, or run into its deadline
  SweepMayFail     \* whether a janitor may crash or time out

ASSUME InstancesAssumption == MaxInstances \in Nat \ {0} /\ MaxSwitches \in Nat
ASSUME FaultAssumption == QuiesceMayFail \in BOOLEAN /\ SweepMayFail \in BOOLEAN

VARIABLES
  \* the registry in main
  phase,        \* InstanceRec.phase, or "unborn"
  cleared,      \* InstanceRec.hardwareCleared
  quiesced,     \* InstanceRec.quiesced: the ack was received
  janitorDone,  \* InstanceRec.janitorDone
  drainTimer,   \* the instances whose bounded quiesce is being timed
  \* windows and switches
  main,         \* up, quitting (closing, draining), or how it went
  win,          \* the app window that owns the instance
  welcome,      \* the welcome window is open
  switch,       \* the instance the switch in progress drains (0: none)
  drainSeq,
  \* the processes
  proc, gate,   \* life of the process; its hardware gate is open
  inbox,        \* main to process
  outbox,       \* process to main
  term,         \* SIGTERM is pending
  \* the hardware and the janitor
  armed,        \* instances whose hardware is armed: mirrors on, cameras open
  janitor,      \* idle, started, swept
  joined,       \* the deaths that wait for this janitor run
  late,         \* history: deaths that joined a run that had already swept
  failed        \* history: acked though disarming failed, or in a run that failed

registryVars == <<phase, cleared, quiesced, janitorDone, drainTimer>>
windowVars == <<main, win, welcome, switch, drainSeq>>
procVars == <<proc, gate, outbox, term>>
sweepVars == <<janitor, joined, late, failed>>
vars == <<registryVars, windowVars, procVars, inbox, armed, sweepVars>>

Instances == 1 .. MaxInstances
Born == {i \in Instances : phase[i] # "unborn"}
Alive(i) == proc[i] \notin {"none", "gone"}
MainUp == main \in {"up", "closing", "draining"}
AppWindows == {i \in Instances : win[i] \in {"open", "closing"}}

Message(type, id) == [type |-> type, id |-> id]

Init ==
  /\ phase = [i \in Instances |-> "unborn"]
  /\ cleared = {} /\ quiesced = {} /\ janitorDone = {} /\ drainTimer = {}
  /\ main = "up"
  /\ win = [i \in Instances |-> "none"]
  /\ welcome \in BOOLEAN      \* or a manifest is restored
  /\ switch = 0 /\ drainSeq = 0
  /\ proc = [i \in Instances |-> "none"]
  /\ gate = [i \in Instances |-> FALSE]
  /\ inbox = [i \in Instances |-> <<>>]
  /\ outbox = [i \in Instances |-> <<>>]
  /\ term = {}
  /\ armed = {}
  /\ janitor = "idle" /\ joined = {} /\ late = {} /\ failed = {}

-----------------------------------------------------------------------------
(* The registry's steps, as parts of the actions that take them: they map   *)
(* the phases ph and the mailboxes box to the next ones.                    *)

MistakeReleasedWhenDraining(i, ph, safe) == ph[i] # "live"
MistakeReleasedWhenDead(i, ph, safe) == ph[i] = "dead"

\* hardwareReleased: dead, and acked or swept.
Released(i, ph, safe) == ph[i] = "dead" /\ i \in safe

\* tryGrantHardware: the live instances no other instance blocks.
Grantable(ph, safe) ==
  {i \in Instances \ cleared :
     /\ ph[i] = "live"
     /\ \A o \in Instances \ {i} : ph[o] # "unborn" => Released(o, ph, safe)}

TryGrantHardware(ph, safe, box) ==
  LET granted == Grantable(ph, safe)
  IN  /\ cleared' = cleared \union granted
      /\ inbox' = [i \in Instances |->
                     IF i \in granted THEN Append(box[i], Message("clear", 0))
                     ELSE box[i]]

\* teardown: only a live instance; shutdown is sent and timed.
Ending(S, ph) == {i \in S : ph[i] = "live"}
PhaseAfter(S, ph) == [i \in Instances |-> IF i \in Ending(S, ph) THEN "draining"
                                                                 ELSE ph[i]]
InboxAfter(S, ph, box) ==
  [i \in Instances |-> IF i \in Ending(S, ph) THEN Append(box[i], Message("shutdown", 0))
                                              ELSE box[i]]

Teardown(S) ==
  /\ phase' = PhaseAfter(S, phase)
  /\ inbox' = InboxAfter(S, phase, inbox)
  /\ drainTimer' = drainTimer \union Ending(S, phase)

NextInstance == Cardinality(Born) + 1

\* currentHardware: the newest instance that is not dead.
Current ==
  LET up == {i \in Born : phase[i] # "dead"} IN IF up = {} THEN 0 ELSE Max(up)

\* The end of openAppInner: close the windows of the switch, spawn the app's
\* window, fork its instance and claim the window for it.
SpawnApp(ph, box) ==
  LET n == NextInstance
      forked == [ph EXCEPT ![n] = "live"]
  IN  /\ n \in Instances
      /\ phase' = forked
      /\ proc' = [proc EXCEPT ![n] = "running"]
      /\ win' = [i \in Instances |-> IF i = n THEN "open"
                                     ELSE IF win[i] = "open" THEN "closing" ELSE win[i]]
      /\ welcome' = FALSE
      /\ switch' = 0
      /\ TryGrantHardware(forked, quiesced \union janitorDone, box)

-----------------------------------------------------------------------------
(* App windows: opening, switching, closing.  openApp calls are serialised. *)

\* No window to replace, or no instance to drain.
OpenApp ==
  /\ main = "up" /\ switch = 0
  /\ (AppWindows # {} \/ welcome) => Current = 0
  /\ SpawnApp(phase, inbox)
  /\ UNCHANGED <<quiesced, janitorDone, drainTimer, main, drainSeq, gate, outbox,
                 term, armed, sweepVars>>

\* drainSessions: ask the current instance to idle its sessions.
StartSwitch(i) ==
  /\ main = "up" /\ switch = 0
  /\ AppWindows # {} \/ welcome
  /\ i = Current /\ NextInstance \in Instances
  /\ drainSeq < MaxSwitches
  /\ switch' = i
  /\ drainSeq' = drainSeq + 1
  /\ inbox' = [inbox EXCEPT ![i] = Append(@, Message("drain", drainSeq + 1))]
  /\ UNCHANGED <<registryVars, main, win, welcome, procVars, armed, sweepVars>>

FromInstance(i, type) ==
  MainUp /\ outbox[i] # <<>> /\ Head(outbox[i]).type = type
Received(i) == outbox' = [outbox EXCEPT ![i] = Tail(@)]

\* The answer to the drain request that is pending; any other is ignored.
Expected(i) == switch = i /\ Head(outbox[i]).id = drainSeq

MistakeOutgoingStays(i) == {}

\* Once drained, the outgoing instance is torn down.
Outgoing(i) == {i}

SwitchGranted(i) ==
  /\ FromInstance(i, "drained") /\ Expected(i)
  /\ Received(i)
  /\ SpawnApp(PhaseAfter(Outgoing(i), phase), InboxAfter(Outgoing(i), phase, inbox))
  /\ drainTimer' = drainTimer \union Ending(Outgoing(i), phase)
  /\ UNCHANGED <<quiesced, janitorDone, main, drainSeq, gate, term, armed, sweepVars>>

\* A session is busy: the switch is refused.
SwitchRefused(i) ==
  /\ FromInstance(i, "busy") /\ Expected(i)
  /\ Received(i)
  /\ switch' = 0
  /\ UNCHANGED <<registryVars, main, win, welcome, drainSeq, proc, gate, term, inbox,
                 armed, sweepVars>>

StaleAnswer(i) ==
  /\ FromInstance(i, "busy") \/ FromInstance(i, "drained")
  /\ ~ Expected(i)
  /\ Received(i)
  /\ UNCHANGED <<registryVars, windowVars, proc, gate, term, inbox, armed, sweepVars>>

\* No answer within ten seconds counts as a refusal.
DrainTimesOut ==
  /\ MainUp /\ switch # 0
  /\ switch' = 0
  /\ UNCHANGED <<registryVars, main, win, welcome, drainSeq, procVars, inbox, armed,
                 sweepVars>>

MistakeCloseKeepsInstance(i) == {}

\* onWindowClosed of the registry: the only window of its instance went.
Ownerless(i) == {i}

\* An app window is destroyed, by the user, a switch or the quit: its
\* instance is torn down, and the welcome window comes back when no app is
\* open, unless a switch or the quit is in progress.
WindowClosed(i) ==
  /\ MainUp /\ i \in AppWindows
  /\ win' = [win EXCEPT ![i] = "closed"]
  /\ Teardown(Ownerless(i))
  /\ welcome' = (welcome \/ (main = "up" /\ switch = 0 /\ AppWindows = {i}))
  /\ UNCHANGED <<cleared, quiesced, janitorDone, main, switch, drainSeq, procVars,
                 armed, sweepVars>>

-----------------------------------------------------------------------------
(* The end of an instance, as main sees it.                                 *)

\* onAck: reap a draining instance.
OnAck(i) ==
  /\ FromInstance(i, "quiesced") /\ Received(i)
  /\ quiesced' = quiesced \union {i}
  /\ IF phase[i] = "draining"
     THEN drainTimer' = drainTimer \ {i} /\ term' = term \union {i}
     ELSE UNCHANGED <<drainTimer, term>>
  /\ UNCHANGED <<phase, cleared, janitorDone, windowVars, proc, gate, inbox, armed,
                 sweepVars>>

MistakeDeadlineOnlyLogs(i) == FALSE

\* The deadline of a quiesce kills an instance that still drains.
DeadlineKills(i) == phase[i] = "draining"

QuiesceDeadline(i) ==
  /\ MainUp /\ i \in drainTimer
  /\ drainTimer' = drainTimer \ {i}
  /\ term' = IF DeadlineKills(i) THEN term \union {i} ELSE term
  /\ UNCHANGED <<phase, cleared, quiesced, janitorDone, windowVars, proc, gate,
                 outbox, inbox, armed, sweepVars>>

MistakeJanitorAfterCrashOnly(i) == i \notin quiesced /\ phase[i] = "live"

\* shouldRunJanitor: on every exit that was not acked.
NeedsJanitor(i) == i \notin quiesced

MistakeKeepTimer(i) == drainTimer

\* onExit cancels the deadline.
TimersAfterExit(i) == drainTimer \ {i}

\* onExit and what follows it at once: a switch that waited for this instance
\* goes on.  The janitor is one process for all: a death while it runs joins
\* the run in progress.
OnExit(i) ==
  LET dead == [phase EXCEPT ![i] = "dead"]
  IN  /\ MainUp /\ proc[i] = "gone" /\ phase[i] # "dead" /\ outbox[i] = <<>>
      /\ drainTimer' = TimersAfterExit(i)
      /\ IF NeedsJanitor(i)
         THEN /\ joined' = joined \union {i}
              /\ janitor' = IF janitor = "idle" THEN "started" ELSE janitor
              /\ late' = IF janitor = "swept" THEN late \union {i} ELSE late
              /\ UNCHANGED failed
         ELSE UNCHANGED sweepVars
      /\ IF switch = i
         THEN SpawnApp(dead, inbox)
         ELSE /\ phase' = dead
              /\ TryGrantHardware(dead, quiesced \union janitorDone, inbox)
              /\ UNCHANGED <<proc, win, welcome, switch>>
      /\ UNCHANGED <<quiesced, janitorDone, main, drainSeq, gate, outbox, term, armed>>

\* The janitor disarms what processes that are gone have left armed.
JanitorSweeps ==
  /\ MainUp /\ janitor = "started"
  /\ janitor' = "swept"
  /\ armed' = {i \in armed : Alive(i)}
  /\ UNCHANGED <<registryVars, windowVars, procVars, inbox, joined, late, failed>>

\* The janitor exits, and the promise of every death that joined it resolves;
\* whether it swept makes no difference to main.
JanitorExits ==
  /\ MainUp
  /\ janitor \in {"swept"} \union (IF SweepMayFail THEN {"started"} ELSE {})
  /\ janitor' = "idle" /\ joined' = {}
  /\ janitorDone' = janitorDone \union joined
  /\ failed' = IF janitor = "swept" THEN failed ELSE failed \union joined
  /\ TryGrantHardware(phase, quiesced \union janitorDone \union joined, inbox)
  /\ UNCHANGED <<phase, quiesced, drainTimer, windowVars, procVars, armed, late>>

-----------------------------------------------------------------------------
(* The end of main.                                                         *)

\* The child processes die with main, and so does the janitor.
MainGone(how) ==
  /\ main' = how
  /\ proc' = [i \in Instances |-> IF proc[i] = "none" THEN "none" ELSE "gone"]
  /\ janitor' = "idle" /\ joined' = {}
  /\ UNCHANGED <<registryVars, win, welcome, switch, drainSeq, gate, inbox, outbox,
                 term, armed, late, failed>>

\* before-quit: close the windows first.
Quit ==
  /\ main = "up"
  /\ main' = "closing"
  /\ win' = [i \in Instances |-> IF win[i] = "open" THEN "closing" ELSE win[i]]
  /\ welcome' = FALSE
  /\ UNCHANGED <<registryVars, switch, drainSeq, procVars, inbox, armed, sweepVars>>

\* The windows are closed, or three seconds went by.
QuitTeardown ==
  /\ main = "closing"
  /\ main' = "draining"
  /\ Teardown(Instances)
  /\ UNCHANGED <<cleared, quiesced, janitorDone, win, welcome, switch, drainSeq,
                 procVars, armed, sweepVars>>

AnyAlive == \E i \in Born : phase[i] # "dead"

\* Every instance is dead: stand the watchdog down and quit.
QuitExits == main = "draining" /\ ~ AnyAlive /\ MainGone("quit")

\* Or six seconds went by.
QuitLapses == main = "draining" /\ AnyAlive /\ MainGone("lapsed")

MainCrashes == MainUp /\ MainGone("crashed")

\* The detached watchdog sees main gone with the state file still there.
WatchdogSweeps ==
  /\ main = "crashed" /\ armed # {}
  /\ armed' = {}
  /\ UNCHANGED <<registryVars, windowVars, procVars, inbox, sweepVars>>

-----------------------------------------------------------------------------
(* An orchestrator process.                                                 *)

ToProcess(i, type) == Alive(i) /\ inbox[i] # <<>> /\ Head(inbox[i]).type = type
Handled(i) == inbox' = [inbox EXCEPT ![i] = Tail(@)]
Answer(i, type, id) == outbox' = [outbox EXCEPT ![i] = Append(@, Message(type, id))]

\* signalHardwareClear.
HandleClear(i) ==
  /\ ToProcess(i, "clear") /\ Handled(i)
  /\ gate' = [gate EXCEPT ![i] = TRUE]
  /\ UNCHANGED <<registryVars, windowVars, proc, outbox, term, armed, sweepVars>>

\* awaitHardwareClear returns.
MayAcquire(i) == gate[i]

\* A session opens a camera, or the controller connects.
Arm(i) ==
  /\ proc[i] = "running" /\ MayAcquire(i) /\ i \notin armed
  /\ armed' = armed \union {i}
  /\ UNCHANGED <<registryVars, windowVars, procVars, inbox, sweepVars>>

\* drainForWindowSwitch: refused by a busy session, or done in the end.
HandleDrain(i) ==
  /\ ToProcess(i, "drain") /\ Handled(i)
  /\ \E answer \in {"drained", "busy"} : Answer(i, answer, Head(inbox[i]).id)
  /\ UNCHANGED <<registryVars, windowVars, proc, gate, term, armed, sweepVars>>

\* quiesceAndAck, unless the process is on its way out already.
HandleShutdown(i) ==
  /\ ToProcess(i, "shutdown") /\ Handled(i)
  /\ proc' = [proc EXCEPT ![i] = IF @ = "running" THEN "quiescing" ELSE @]
  /\ UNCHANGED <<registryVars, windowVars, gate, outbox, term, armed, sweepVars>>

\* drainAndQuiesce: failures are logged, and the deadline ends it.
ArmedAfterQuiesce(i) ==
  {armed \ {i}} \union (IF QuiesceMayFail THEN {armed} ELSE {})

\* Post the ack, whatever became of the disarming, and wait for the reap.
QuiesceEnds(i) ==
  /\ proc[i] = "quiescing"
  /\ proc' = [proc EXCEPT ![i] = "acked"]
  /\ armed' \in ArmedAfterQuiesce(i)
  /\ failed' = failed \union (armed' \intersect {i})
  /\ Answer(i, "quiesced", 0)
  /\ UNCHANGED <<registryVars, windowVars, gate, term, inbox, janitor, joined, late>>

\* The process is gone; its last messages may be lost.
Dies(i) ==
  /\ proc' = [proc EXCEPT ![i] = "gone"]
  /\ \E n \in 0 .. Len(outbox[i]) : outbox' = [outbox EXCEPT ![i] = SubSeq(@, 1, n)]

\* An uncaught exception: quiesceAndExit.
Uncaught(i) ==
  /\ proc[i] = "running"
  /\ proc' = [proc EXCEPT ![i] = "exiting"]
  /\ UNCHANGED <<registryVars, windowVars, gate, outbox, term, inbox, armed, sweepVars>>

\* SIGTERM: exit if a quiesce was begun, else quiesce and exit.
HandleTerm(i) ==
  /\ i \in term /\ Alive(i)
  /\ term' = term \ {i}
  /\ IF proc[i] = "running"
     THEN proc' = [proc EXCEPT ![i] = "exiting"] /\ UNCHANGED outbox
     ELSE Dies(i)
  /\ UNCHANGED <<registryVars, windowVars, gate, inbox, armed, sweepVars>>

\* quiesceAndExit is through: exit without an ack.
ColdExit(i) ==
  /\ proc[i] = "exiting"
  /\ armed' \in ArmedAfterQuiesce(i)
  /\ Dies(i)
  /\ UNCHANGED <<registryVars, windowVars, gate, term, inbox, sweepVars>>

\* A native fault, an out-of-memory kill.
Crash(i) ==
  /\ Alive(i)
  /\ Dies(i)
  /\ UNCHANGED <<registryVars, windowVars, gate, term, inbox, armed, sweepVars>>

-----------------------------------------------------------------------------
FromMain(i) == HandleClear(i) \/ HandleDrain(i) \/ HandleShutdown(i)
ToMain(i) ==
  SwitchGranted(i) \/ SwitchRefused(i) \/ StaleAnswer(i) \/ OnAck(i) \/ OnExit(i)

Next ==
  \/ OpenApp \/ DrainTimesOut
  \/ JanitorSweeps \/ JanitorExits
  \/ Quit \/ QuitTeardown \/ QuitExits \/ QuitLapses \/ MainCrashes \/ WatchdogSweeps
  \/ \E i \in Instances :
       \/ StartSwitch(i) \/ WindowClosed(i) \/ QuiesceDeadline(i)
       \/ FromMain(i) \/ ToMain(i)
       \/ Arm(i) \/ QuiesceEnds(i) \/ Uncaught(i) \/ HandleTerm(i) \/ ColdExit(i)
       \/ Crash(i)

Spec == Init /\ [][Next]_vars

\* Event loops run, timers fire, the janitor has a deadline, and so has
\* quiesceAndExit.  A graceful quiesce need not end by itself.
FairSpec ==
  /\ Spec
  /\ WF_vars(DrainTimesOut)
  /\ WF_vars(JanitorSweeps) /\ WF_vars(JanitorExits)
  /\ \A i \in Instances :
       /\ WF_vars(QuiesceDeadline(i))
       /\ WF_vars(FromMain(i)) /\ WF_vars(ToMain(i))
       /\ WF_vars(HandleTerm(i)) /\ WF_vars(ColdExit(i))

-----------------------------------------------------------------------------
Types == {"clear", "shutdown", "drain", "drained", "busy", "quiesced"}
Messages == [type : Types, id : 0 .. MaxSwitches]

TypeOK ==
  /\ phase \in [Instances -> {"unborn", "live", "draining", "dead"}]
  /\ cleared \subseteq Instances /\ quiesced \subseteq Instances
  /\ janitorDone \subseteq Instances
  /\ drainTimer \subseteq {i \in Instances : phase[i] = "draining"}
  /\ main \in {"up", "closing", "draining", "quit", "lapsed", "crashed"}
  /\ win \in [Instances -> {"none", "open", "closing", "closed"}]
  /\ welcome \in BOOLEAN
  /\ switch \in 0 .. MaxInstances /\ drainSeq \in 0 .. MaxSwitches
  /\ proc \in [Instances -> {"none", "running", "quiescing", "acked", "exiting", "gone"}]
  /\ gate \in [Instances -> BOOLEAN]
  /\ inbox \in [Instances -> Seq(Messages)]
  /\ outbox \in [Instances -> Seq(Messages)]
  /\ term \subseteq Instances /\ armed \subseteq Instances
  /\ janitor \in {"idle", "started", "swept"}
  /\ joined \subseteq Instances /\ late \subseteq Instances
  /\ failed \subseteq Instances

\* At most one process holds hardware, however switches, drains, deadlines,
\* crashes and window closes overlap: the gate of tryGrantHardware.
OneHolder == Cardinality({i \in armed : Alive(i)}) <= 1

\* An app is switched away from or closed before the next one is forked, so
\* that at most one instance is live.
OneLiveInstance == Cardinality({i \in Instances : phase[i] = "live"}) <= 1

\* A live instance has its app window: none runs on without one, holding the
\* hardware for nobody.
NoHeadlessInstance ==
  \A i \in Instances : phase[i] = "live" => win[i] \in {"open", "closing"}

\* When the hardware is granted, whatever another instance had armed is
\* disarmed, unless that instance acked though its own disarming failed, the
\* janitor run of its death failed, or its death joined a run that had already
\* swept: nothing else lets main take an instance for safe that is not.
GrantFindsHardwareSafe ==
  [][cleared' # cleared => armed \subseteq late \union failed']_vars

\* A death without an ack is swept, for as long as main lives.
UncleanDeathIsSwept ==
  \A i \in Instances :
    (phase[i] = "dead" /\ i \notin quiesced) ~> (i \in janitorDone \/ ~ MainUp)

\* A fresh instance is granted the hardware in the end, even when the one
\* before it hangs in its quiesce, unless it goes itself.
WaitingIsGranted ==
  \A i \in Instances :
    (phase[i] = "live" /\ i \notin cleared)
      ~> (i \in cleared \/ phase[i] # "live" \/ ~ MainUp)

-----------------------------------------------------------------------------
(* What comments and docs say and the code does not do.                     *)

\* orchestrator-instances.ts: hardware-clear is withheld "until the previous
\* hardware instance is confirmed dead + swept".
GrantAfterSweep == [][cleared' # cleared => armed = {}]_vars

\* windows.md: an instance confirms `quiesced` with its hardware disarmed.
AckMeansReleased == \A i \in quiesced : i \notin armed

\* windows.md: mirrors and cameras never stay armed past a quit in which
\* every instance was seen to die.
QuitLeavesHardwareSafe == main = "quit" => armed = {}

\* window-manager.ts: with zero app windows open, the welcome window is.
WelcomeComesBack ==
  (main = "up" /\ switch = 0 /\ Born # {} /\ AppWindows = {}) => welcome
=============================================================================
