----------------------------- MODULE PipeBroker -----------------------------
(***************************************************************************)
(* The shared-memory pipe broker: who is counted as a consumer of a pipe,  *)
(* and whether its producer runs.                                          *)
(*                                                                         *)
(* Three parties take part.  The native hub (core/src/Pipe.cpp) keeps one  *)
(* publisher per advertised pipe with a reference count and a consumer     *)
(* gate fired on its 0 -> 1 and 1 -> 0 edges.  The `pipes` session         *)
(* (app/orchestrator/pipe-session.ts) turns connectPipe/disconnectPipe     *)
(* commands into reference counts and keeps a ledger per client channel.   *)
(* The renderer (usePipeFrame, app/lib/orchestrator/client.ts) connects    *)
(* and disconnects a mounted component as the adverts it sees change.      *)
(* Commands and pushes travel through the FIFO port of the channel, so     *)
(* each side acts on a view of the other that may be out of date.          *)
(***************************************************************************)
EXTENDS Naturals, Sequences, FiniteSets, SequencesExt

CONSTANTS
  Channels,    \* client ports: a window load has one, a reload gets another
  Slots,       \* components of a window that call usePipeFrame
  Pipes,       \* pipe ids
  MaxEpoch,    \* bound: how often each id is advertised
  MaxSelects   \* bound: how often the views of the run change their pipe

ASSUME ChannelsAssumption == IsFiniteSet(Channels)
ASSUME BoundsAssumption == MaxEpoch \in [Pipes -> Nat] /\ MaxSelects \in Nat

Epochs == Nat                       \* 0: not advertised
Adverts == [Pipes -> Epochs]
NoAdverts == [p \in Pipes |-> 0]

Unmounted == "unmounted"
Gone == "gone"                      \* a component is never mounted again
NotBound == <<"none", 0>>
NoReader == "none"

Command ==
  [op : {"subscribe", "unsubscribe", "closed"}]
  \union [op : {"disconnect"}, pipe : Pipes]
  \union [op : {"connect"}, pipe : Pipes, slot : Slots, epoch : Epochs]
Push ==
  [kind : {"state"}, adverts : Adverts]
  \union [kind : {"reply"}, pipe : Pipes, slot : Slots, epoch : Epochs,
          ok : BOOLEAN]

VARIABLES
  \* native hub
  live,        \* pipes in PipeHub::pipes_
  epoch,       \* PipeHub::epochs_, survives a drop
  refcount,    \* Publisher::refcount_
  producing,   \* the last value the consumer gate fired with
  \* pipes session
  subscribers, \* channels state pushes are sent to
  ledger,      \* connectLedger: channel -> pipe -> count
  tainted,     \* history: pipes whose counts and ledger may have parted
  \* renderer
  open,        \* channels whose renderer is there
  watching,    \* the pipe a component shows
  seen,        \* the adverts the component last received
  bound,       \* boundId and boundEpoch
  reader,      \* the pipe of the component's `consumer`
  lost,        \* pipes of running consumers no variable refers to
  selects,
  \* the port
  uplink, inbox

hubVars == <<live, epoch, refcount, producing>>
sessionVars == <<subscribers, ledger, tainted>>
viewVars == <<open, watching, seen, bound, reader, lost, selects>>
brokerVars == <<hubVars, sessionVars, viewVars, uplink, inbox>>

Mounted(c, s) == watching[c][s] \in Pipes
Advertised == [p \in Pipes |-> IF p \in live THEN epoch[p] ELSE 0]
Holders(p) == {c \in Channels : ledger[c][p] > 0}
MapSlots(Op(_, _)) == [c \in Channels |-> [s \in Slots |-> Op(c, s)]]

BrokerInit ==
  /\ live = {} /\ epoch = NoAdverts
  /\ refcount = NoAdverts
  /\ producing = [p \in Pipes |-> FALSE]
  /\ subscribers = {} /\ tainted = {}
  /\ ledger = [c \in Channels |-> NoAdverts]
  /\ open = Channels
  /\ watching = MapSlots(LAMBDA c, s : Unmounted)
  /\ seen = MapSlots(LAMBDA c, s : NoAdverts)
  /\ bound = MapSlots(LAMBDA c, s : NotBound)
  /\ reader = MapSlots(LAMBDA c, s : NoReader)
  /\ lost = MapSlots(LAMBDA c, s : {})
  /\ selects = 0
  /\ uplink = [c \in Channels |-> <<>>]
  /\ inbox = [c \in Channels |-> <<>>]

-----------------------------------------------------------------------------
(* The hub and the advertisers in the orchestrator.  A push reaches every   *)
(* subscribed channel whose renderer is there.  Advertising a live id again *)
(* changes nothing.                                                         *)

\* setState("pipes", ...): the new adverts to every subscriber.
PushAdverts(adverts) ==
  inbox' = [c \in Channels |->
              IF c \in subscribers \intersect open
              THEN Append(inbox[c], [kind |-> "state", adverts |-> adverts])
              ELSE inbox[c]]

\* PipeHub::advertise: `++epochs_[spec.id]`.
NextEpoch(p) == epoch[p] + 1

\* advertise: a new publisher at a new epoch; the producer is attached with
\* the gate, which fires with the count of the fresh publisher.
Advertise(p) ==
  /\ p \notin live
  /\ epoch[p] < MaxEpoch[p]
  /\ live' = live \union {p}
  /\ epoch' = [epoch EXCEPT ![p] = NextEpoch(p)]
  /\ refcount' = [refcount EXCEPT ![p] = 0]
  /\ producing' = [producing EXCEPT ![p] = FALSE]
  /\ tainted' = IF Holders(p) = {} THEN tainted \ {p} ELSE tainted
  /\ PushAdverts([Advertised EXCEPT ![p] = NextEpoch(p)])
  /\ UNCHANGED <<subscribers, ledger, viewVars, uplink>>

MistakeNoQuiesce(p) == producing[p]

\* What the gate was last fired with once a drop is done (quiesceConsumers).
GateAfterDrop(p) == FALSE

\* unadvertise: the publisher goes, whatever counts it had go with it.
Drop(p) ==
  /\ p \in live
  /\ live' = live \ {p}
  /\ producing' = [producing EXCEPT ![p] = GateAfterDrop(p)]
  /\ refcount' = [refcount EXCEPT ![p] = 0]
  /\ tainted' = IF Holders(p) = {} THEN tainted ELSE tainted \union {p}
  /\ PushAdverts([Advertised EXCEPT ![p] = 0])
  /\ UNCHANGED <<epoch, subscribers, ledger, viewVars, uplink>>

-----------------------------------------------------------------------------
(* The renderer.  A component's watcher runs in the microtask after the     *)
(* state patch or the selection that triggers it, before the next message.  *)

Send(c, commands) == uplink' = [uplink EXCEPT ![c] = @ \o commands]

\* What a component should be bound to, showing w with adverts a.
Target(w, a) == IF w \in Pipes /\ a[w] # 0 THEN <<w, a[w]>> ELSE NotBound

MistakeNoTeardown(old, new) == <<>>

\* teardown, then bind: the balancing disconnect goes out first.
Teardown(old, new) ==
  IF old = new \/ old = NotBound THEN <<>>
  ELSE << [op |-> "disconnect", pipe |-> old[1]] >>

Bind(s, old, new) ==
  IF old = new \/ new = NotBound THEN <<>>
  ELSE << [op |-> "connect", pipe |-> new[1], slot |-> s, epoch |-> new[2]] >>

\* usePipeFrame: useSession subscribes; nothing is known yet.
Mount(c, s, p) ==
  /\ c \in open /\ watching[c][s] = Unmounted
  /\ watching' = [watching EXCEPT ![c][s] = p]
  /\ Send(c, << [op |-> "subscribe"] >>)
  /\ UNCHANGED <<hubVars, sessionVars, open, seen, bound, reader, lost,
                 selects, inbox>>

\* The pipeId getter yields another id (the selected camera changed).
Select(c, s, p) ==
  /\ Mounted(c, s) /\ watching[c][s] # p /\ c \in open
  /\ selects < MaxSelects
  /\ selects' = selects + 1
  /\ watching' = [watching EXCEPT ![c][s] = p]
  /\ LET new == Target(p, seen[c][s])
     IN  /\ Send(c, Teardown(bound[c][s], new) \o Bind(s, bound[c][s], new))
         /\ bound' = [bound EXCEPT ![c][s] = new]
         /\ reader' = [reader EXCEPT ![c][s] =
                         IF new = bound[c][s] THEN @ ELSE NoReader]
  /\ UNCHANGED <<hubVars, sessionVars, open, seen, lost, inbox>>

\* The scope is disposed: useSession's disposer first, then teardown.
Unmount(c, s) ==
  /\ Mounted(c, s) /\ c \in open
  /\ Send(c, << [op |-> "unsubscribe"] >> \o Teardown(bound[c][s], NotBound))
  /\ watching' = [watching EXCEPT ![c][s] = Gone]
  /\ bound' = [bound EXCEPT ![c][s] = NotBound]
  /\ reader' = [reader EXCEPT ![c][s] = NoReader]
  /\ UNCHANGED <<hubVars, sessionVars, open, seen, lost, selects, inbox>>

\* A state push: every component of the window sees it and rebinds.
ReceiveState(c) ==
  /\ c \in open /\ inbox[c] # <<>> /\ Head(inbox[c]).kind = "state"
  /\ LET adverts == Head(inbox[c]).adverts
         New(s) == Target(watching[c][s], adverts)
         Commands(s) == Teardown(bound[c][s], New(s)) \o Bind(s, bound[c][s], New(s))
     IN  /\ Send(c, FlattenSeq([i \in 1..Cardinality(Slots) |->
                                  Commands(SetToSeq(Slots)[i])]))
         /\ seen' = [seen EXCEPT ![c] = [s \in Slots |->
                       IF Mounted(c, s) THEN adverts ELSE @[s]]]
         /\ bound' = [bound EXCEPT ![c] = [s \in Slots |-> New(s)]]
         /\ reader' = [reader EXCEPT ![c] = [s \in Slots |->
                         IF New(s) = bound[c][s] THEN @[s] ELSE NoReader]]
  /\ inbox' = [inbox EXCEPT ![c] = Tail(@)]
  /\ UNCHANGED <<hubVars, sessionVars, open, watching, lost, selects>>

\* connectPipe answered: unless the binding changed, start a consumer.
ReceiveReply(c) ==
  /\ c \in open /\ inbox[c] # <<>> /\ Head(inbox[c]).kind = "reply"
  /\ LET r == Head(inbox[c])
         current == r.ok /\ bound[c][r.slot] = <<r.pipe, r.epoch>>
         old == reader[c][r.slot]
     IN  /\ reader' = [reader EXCEPT ![c][r.slot] = IF current THEN r.pipe ELSE @]
         /\ lost' = [lost EXCEPT ![c][r.slot] =
                       IF current /\ old # NoReader THEN @ \union {old} ELSE @]
  /\ inbox' = [inbox EXCEPT ![c] = Tail(@)]
  /\ UNCHANGED <<hubVars, sessionVars, open, watching, seen, bound, selects,
                 uplink>>

\* The renderer is gone (reload, crash, window close): what it had sent may
\* be lost from some command on; the port's close event comes last.
RendererGone(c) ==
  /\ c \in open
  /\ open' = open \ {c}
  /\ \E n \in 0..Len(uplink[c]) :
       uplink' = [uplink EXCEPT ![c] =
                    Append(SubSeq(@, 1, n), [op |-> "closed"])]
  /\ inbox' = [inbox EXCEPT ![c] = <<>>]
  /\ watching' = [watching EXCEPT ![c] = [s \in Slots |-> Gone]]
  /\ bound' = [bound EXCEPT ![c] = [s \in Slots |-> NotBound]]
  /\ reader' = [reader EXCEPT ![c] = [s \in Slots |-> NoReader]]
  /\ lost' = [lost EXCEPT ![c] = [s \in Slots |-> {}]]
  /\ UNCHANGED <<hubVars, sessionVars, seen, selects>>

-----------------------------------------------------------------------------
(* The pipes session and the hub, one command at a time.                    *)

Incoming(c, op) == uplink[c] # <<>> /\ Head(uplink[c]).op = op
Consume(c) == uplink' = [uplink EXCEPT ![c] = Tail(@)]

\* A message to a channel whose renderer has gone is never read.
Reply(c, message) ==
  inbox' = IF c \in open THEN [inbox EXCEPT ![c] = Append(@, message)] ELSE inbox

\* ServerSession.subscribe: a new subscriber is seeded with the state.
HandleSubscribe(c) ==
  /\ Incoming(c, "subscribe") /\ Consume(c)
  /\ IF c \in subscribers
     THEN UNCHANGED <<subscribers, inbox>>
     ELSE /\ subscribers' = subscribers \union {c}
          /\ Reply(c, [kind |-> "state", adverts |-> Advertised])
  /\ UNCHANGED <<hubVars, ledger, tainted, viewVars>>

\* ServerSession.unsubscribe: the channel, not the component, is removed.
HandleUnsubscribe(c) ==
  /\ Incoming(c, "unsubscribe") /\ Consume(c)
  /\ subscribers' = subscribers \ {c}
  /\ UNCHANGED <<hubVars, ledger, tainted, viewVars, inbox>>

MistakeEdgeOffByOne(p) == IF refcount[p] = 1 THEN TRUE ELSE producing[p]

\* Publisher::connect and ::disconnect: the gate fires on the edges only.
GateAfterConnect(p) == IF refcount[p] = 0 THEN TRUE ELSE producing[p]

GateAfterRelease(p, n) ==
  IF refcount[p] > 0 /\ refcount[p] <= n THEN FALSE ELSE producing[p]

MistakeUnderflow(p, n) == refcount[p] - n

\* A count of zero stays zero.
CountAfterRelease(p, n) == IF refcount[p] > n THEN refcount[p] - n ELSE 0

HandleConnect(c) ==
  /\ Incoming(c, "connect") /\ Consume(c)
  /\ LET m == Head(uplink[c])
         p == m.pipe
     IN  /\ Reply(c, [kind |-> "reply", pipe |-> p, slot |-> m.slot,
                      epoch |-> m.epoch, ok |-> p \in live])
         /\ IF p \in live
            THEN /\ refcount' = [refcount EXCEPT ![p] = @ + 1]
                 /\ producing' = [producing EXCEPT ![p] = GateAfterConnect(p)]
                 /\ ledger' = [ledger EXCEPT ![c][p] = @ + 1]
            ELSE UNCHANGED <<refcount, producing, ledger>>
  /\ UNCHANGED <<live, epoch, subscribers, tainted, viewVars>>

\* "Only release a count this channel actually holds".
MayRelease(c, p) == ledger[c][p] > 0

\* The ledger entry goes first; then the hub's disconnect, which throws for
\* an id that is not advertised (the command is rejected, nothing is undone).
HandleDisconnect(c) ==
  /\ Incoming(c, "disconnect") /\ Consume(c)
  /\ LET p == Head(uplink[c]).pipe
     IN  /\ ledger' = [ledger EXCEPT ![c][p] = IF @ > 0 THEN @ - 1 ELSE 0]
         /\ IF MayRelease(c, p) /\ p \in live
            THEN /\ refcount' = [refcount EXCEPT ![p] = CountAfterRelease(p, 1)]
                 /\ producing' = [producing EXCEPT ![p] = GateAfterRelease(p, 1)]
            ELSE UNCHANGED <<refcount, producing>>
  /\ UNCHANGED <<live, epoch, subscribers, tainted, viewVars, inbox>>

MistakeReconcileNothing(c, p) == 0

\* How many counts of p reconcileChannel gives back: all the channel holds.
ToReconcile(c, p) == ledger[c][p]

\* The port's close event: channel hooks (reconcileChannel), then each
\* session's detach.  The hub's disconnect throws at a held pipe that was
\* dropped; what comes after it in the ledger is not given back, and the
\* throw leaves the close handler before any session detaches the channel.
HandleClosed(c) ==
  /\ Incoming(c, "closed") /\ Consume(c)
  /\ LET held == {p \in Pipes : ledger[c][p] > 0}
         throws == ~ (held \subseteq live)
     IN  \E undone \in SUBSET (held \intersect live) :
           /\ undone = held \/ throws
           /\ refcount' = [p \in Pipes |->
                IF p \in undone THEN CountAfterRelease(p, ToReconcile(c, p))
                ELSE refcount[p]]
           /\ producing' = [p \in Pipes |->
                IF p \in undone THEN GateAfterRelease(p, ToReconcile(c, p))
                ELSE producing[p]]
           /\ tainted' = tainted \union ((held \intersect live) \ undone)
           /\ subscribers' = IF throws THEN subscribers ELSE subscribers \ {c}
  /\ ledger' = [ledger EXCEPT ![c] = NoAdverts]
  /\ UNCHANGED <<live, epoch, viewVars, inbox>>

-----------------------------------------------------------------------------
Handle(c) ==
  \/ HandleSubscribe(c) \/ HandleUnsubscribe(c)
  \/ HandleConnect(c) \/ HandleDisconnect(c) \/ HandleClosed(c)

Receive(c) == ReceiveState(c) \/ ReceiveReply(c)

BrokerNext ==
  \/ \E p \in Pipes : Advertise(p) \/ Drop(p)
  \/ \E c \in Channels, s \in Slots, p \in Pipes : Mount(c, s, p) \/ Select(c, s, p)
  \/ \E c \in Channels, s \in Slots : Unmount(c, s)
  \/ \E c \in Channels : RendererGone(c) \/ Handle(c) \/ Receive(c)

BrokerSpec == BrokerInit /\ [][BrokerNext]_brokerVars

\* The event loops run: while there is a command or a message, one is taken; nobody
\* must mount, advertise, drop, select or leave.  With the bounds users act finitely
\* often, so that this empties every port.
BrokerFairSpec ==
  /\ BrokerSpec
  /\ WF_brokerVars(\E c \in Channels : Handle(c) \/ Receive(c))

-----------------------------------------------------------------------------
BrokerTypeOK ==
  /\ live \subseteq Pipes
  /\ epoch \in Adverts
  /\ refcount \in [Pipes -> Nat]
  /\ producing \in [Pipes -> BOOLEAN]
  /\ subscribers \subseteq Channels
  /\ ledger \in [Channels -> [Pipes -> Nat]]
  /\ tainted \subseteq Pipes
  /\ open \subseteq Channels
  /\ watching \in [Channels -> [Slots -> Pipes \union {Unmounted, Gone}]]
  /\ seen \in [Channels -> [Slots -> Adverts]]
  /\ bound \in [Channels -> [Slots -> (Pipes \X (Nat \ {0})) \union {NotBound}]]
  /\ reader \in [Channels -> [Slots -> Pipes \union {NoReader}]]
  /\ lost \in [Channels -> [Slots -> SUBSET Pipes]]
  /\ selects \in 0..MaxSelects
  /\ uplink \in [Channels -> Seq(Command)]
  /\ inbox \in [Channels -> Seq(Push)]

\* The channel has nothing on its way in either direction, and the session
\* still pushes to it if a component of it is mounted.
Settled(c) ==
  /\ c \in open
  /\ uplink[c] = <<>> /\ inbox[c] = <<>>
  /\ (\E s \in Slots : Mounted(c, s)) => c \in subscribers

\* The producer of a pipe runs exactly while the pipe is advertised and
\* somebody is counted: a gate edge is never missed, by a connect, a
\* disconnect, a reconciliation of several counts at once, or a drop.
ProducerFollowsDemand ==
  \A p \in Pipes : producing[p] <=> p \in live /\ refcount[p] > 0

\* What each channel is counted for, and the sum of such counts: the number of
\* pairs of a channel and a number up to its count.
Counts(p) == [c \in Channels |-> ledger[c][p]]
Total(counts) == Cardinality(UNION {{c} \X (1..counts[c]) : c \in Channels})

\* The native count is the sum of what the ledger holds for every channel,
\* closed ones included, unless the pipe was dropped under its consumers or a
\* reconciliation was cut short: a disconnect sent twice, a lost one, and a
\* window that closes with commands on their way never part the two.
AccountsAgree ==
  \A p \in live \ tainted : refcount[p] = Total(Counts(p))

\* Once a channel has settled, the ledger holds one count for each of its
\* components bound to the pipe, however connects, failed connects, drops
\* and selections interleaved before.
LedgerMatchesViews ==
  \A c \in Channels : Settled(c) =>
    \A p \in Pipes :
      ledger[c][p] = Cardinality({s \in Slots : bound[c][s][1] = p})

\* Once a channel has settled, a component is bound to the epoch of the pipe
\* it shows that is advertised now and reads from it; and it is fed, unless
\* the pipe's counts were lost (see AccountsAgree).
SettledViewsAreFed ==
  \A c \in Channels : Settled(c) =>
    \A s \in Slots : Mounted(c, s) =>
      LET p == watching[c][s]
      IN  /\ bound[c][s] = Target(p, Advertised)
          /\ reader[c][s] = IF p \in live THEN p ELSE NoReader
          /\ p \in live \ tainted => producing[p]

Watched(p) == \E c \in Channels, s \in Slots : watching[c][s] = p
SoleView(c, s) == \A t \in Slots \ {s} : watching[c][t] = Unmounted

\* A component that stays mounted on a pipe that stays advertised, alone in
\* its window, ends up reading it with the producer running.
MountedViewIsFed ==
  \A c \in Channels, s \in Slots, p \in Pipes :
    <>[](watching[c][s] = p /\ p \in live \ tainted /\ SoleView(c, s))
      => <>[](reader[c][s] = p /\ producing[p])

\* A pipe nobody shows any more ends up with its producer parked, however
\* its last viewer left.
UnwatchedPipeParks ==
  \A p \in Pipes :
    <>[](~ Watched(p) /\ p \notin tainted) => <>[](~ producing[p])

-----------------------------------------------------------------------------
(* What comments in the code say and the code does not do.                  *)

\* A disconnect "must NOT decrement the native refcount another window still
\* relies on" (pipe-session.ts): a settled, bound component's pipe has a
\* running producer, also after a drop and a new advert of its id.
OthersCountsAreKept ==
  \A c \in Channels, s \in Slots :
    Settled(c) /\ Mounted(c, s) /\ watching[c][s] \in live
      => producing[watching[c][s]]

\* reconcileChannel undoes "every outstanding raw connect a closing channel
\* still holds": when every channel is closed and handled, no pipe is counted.
ClosedChannelsHoldNothing ==
  (open = {} /\ \A c \in Channels : uplink[c] = <<>>)
    => \A p \in live : refcount[p] = 0

\* usePipeFrame "RECONNECTS on an epoch bump": with nothing on its way, a
\* bound component is bound to the advertised epoch.
ReconnectsOnEpochBump ==
  \A c \in open, s \in Slots :
    Mounted(c, s) /\ bound[c][s] # NotBound
      /\ uplink[c] = <<>> /\ inbox[c] = <<>>
      => bound[c][s] = Target(watching[c][s], Advertised)

\* The status and state of a session are "seeded on subscribe": with nothing
\* on its way, a mounted component knows the adverts.
MountedViewIsSeeded ==
  \A c \in Channels, s \in Slots :
    Settled(c) /\ Mounted(c, s) => seen[c][s] = Advertised

\* "A newer bind replaced us while connecting -- abort this one": at most one
\* consumer of a component runs.
OneReaderPerView == \A c \in Channels, s \in Slots : lost[c][s] = {}
=============================================================================
