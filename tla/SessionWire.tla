------------------------------ MODULE SessionWire ------------------------------
(***************************************************************************)
(* The wire between a session of the orchestrator and its windows.         *)
(*                                                                         *)
(* Every window has a Channel (app/lib/orchestrator/protocol.ts), a pair   *)
(* of ordered message streams.  The views of a window, each a useSession() *)
(* of client.ts, share it.  On the other end a ServerSession               *)
(* (app/orchestrator/runtime.ts) counts channels, not views.  Three things *)
(* travel: writes to a state field, applied by the writer at once and      *)
(* passed on to the other windows; frames, of which a channel has one on   *)
(* the way and keeps the newest for later; calls and their results.        *)
(*                                                                         *)
(* One session with one state field, one frame topic and commands.  A      *)
(* value is named by the event that wrote it, a frame by its number.  A    *)
(* window that loads again is another window.                              *)
(***************************************************************************)
EXTENDS Naturals, Sequences, FiniteSets, SequencesExt

CONSTANTS
  Views, Windows,
  WindowOf,        \* the window of a view
  Passive,         \* views that observe without activating the session
  CallsAfterDown,  \* views call commands of an orchestrator they know is gone
  MaxCalls,        \* bound: calls a window waits for at a time
  MaxEvents        \* bound: what users, the session and crashes do

ASSUME ViewsAssumption == WindowOf \in [Views -> Windows] /\ Passive \subseteq Views
ASSUME BoundsAssumption ==
  CallsAfterDown \in BOOLEAN /\ MaxCalls \in Nat /\ MaxEvents \in Nat

Values == 0..MaxEvents
FrameIds == 0..MaxEvents   \* 0: none
Calls == 1..MaxCalls

VARIABLES
  client,      \* the windows
  server,      \* the session, with the server's ends of the channels
  overtaken,   \* history: windows of which a write and an update have crossed
  apart,       \* history: views that missed what a sibling has, and heard nothing yet
  deserted,    \* history: views whose sibling took the subscription with it
  events       \* how much of the bound is used up

siblings == <<apart, deserted>>
wireVars == <<client, server, overtaken, siblings, events>>

Uplink ==
  [k : {"sub", "unsub"}, passive : BOOLEAN] \union [k : {"set"}, value : Values]
    \union [k : {"finterest", "fack", "close"}] \union [k : {"req"}, id : Calls]
Downlink ==
  [k : {"state"}, value : Values] \union [k : {"frame"}, frame : FrameIds]
    \union [k : {"res"}, id : Calls]

Client ==
  [open : SUBSET Windows,
   mounted : SUBSET Views,
   value : [Views -> Values],       \* each view's copy of the field
   shown : [Views -> FrameIds],
   got : [Windows -> FrameIds],     \* history: what its channel last delivered
   waiting : [Windows -> SUBSET Calls],   \* pending
   notified : SUBSET Windows,       \* told that the orchestrator is down
   up : [Windows -> Seq(Uplink)]]

Server ==
  [alive : BOOLEAN,
   state : Values,
   subscribers : SUBSET Windows, activeSubscribers : SUBSET Windows,
   producing : SUBSET {"on", "draining"},  \* activations that publish frames
   newest : FrameIds,
   frameCache : FrameIds,
   late : BOOLEAN,                  \* history: a draining one published it
   frameInterest : SUBSET Windows,
   frameInflight : SUBSET Windows, framePending : [Windows -> FrameIds],
   running : SUBSET (Windows \X Calls),
   out : [Windows -> Seq(Downlink)]]

WireTypeOK ==
  /\ client \in Client /\ server \in Server
  /\ overtaken \subseteq Windows /\ apart \subseteq Views /\ deserted \subseteq Views
  /\ events \in 0..MaxEvents

WireInit ==
  /\ client = [open |-> Windows, mounted |-> {},
               value |-> [v \in Views |-> 0], shown |-> [v \in Views |-> 0],
               got |-> [w \in Windows |-> 0], waiting |-> [w \in Windows |-> {}],
               notified |-> {}, up |-> [w \in Windows |-> <<>>]]
  /\ server = [alive |-> TRUE, state |-> 0, subscribers |-> {},
               activeSubscribers |-> {}, producing |-> {}, newest |-> 0,
               frameCache |-> 0, late |-> FALSE, frameInterest |-> {},
               frameInflight |-> {}, framePending |-> [w \in Windows |-> 0],
               running |-> {}, out |-> [w \in Windows |-> <<>>]]
  /\ overtaken = {} /\ apart = {} /\ deserted = {} /\ events = 0

Event == events < MaxEvents /\ events' = events + 1
ViewsOf(w) == {v \in client.mounted : WindowOf[v] = w}
Siblings(v) == ViewsOf(WindowOf[v]) \ {v}
-----------------------------------------------------------------------------
(* The session.                                                            *)

MistakePost(s, ws, message) ==
  [s EXCEPT !.out = [w \in Windows |-> IF w \in ws \intersect s.activeSubscribers
                                         THEN Append(@[w], message) ELSE @[w]]]

Post(s, ws, message) ==
  [s EXCEPT !.out = [w \in Windows |-> IF w \in ws THEN Append(@[w], message)
                                       ELSE @[w]]]

Patch(value) == [k |-> "state", value |-> value]
FrameMessage(f) == [k |-> "frame", frame |-> f]

MistakeSendFrame(s, ws, f) ==
  LET now == {w \in ws : w \notin s.frameInflight \/ s.framePending[w] # 0}
  IN  Post([s EXCEPT !.frameInflight = @ \union ws,
                     !.framePending = [w \in Windows |-> IF w \in ws \ now THEN f
                                                         ELSE @[w]]],
           now, FrameMessage(f))

\* sendFrame(): one on the way, the newest of the others waits for its ack.
SendFrame(s, ws, f) ==
  Post([s EXCEPT !.frameInflight = @ \union ws,
                 !.framePending = [w \in Windows |->
                                     IF w \in ws \intersect s.frameInflight THEN f
                                     ELSE @[w]]],
       ws \ s.frameInflight, FrameMessage(f))

MistakeFrameAck(s, w) ==
  LET open == [s EXCEPT !.framePending[w] = 0, !.frameInflight = @ \ {w}]
  IN  IF s.framePending[w] = 0 THEN open
      ELSE Post(open, {w}, FrameMessage(s.framePending[w]))

\* onFrameAck()
FrameAck(s, w) ==
  IF s.framePending[w] = 0 THEN [s EXCEPT !.frameInflight = @ \ {w}]
  ELSE Post([s EXCEPT !.framePending[w] = 0], {w}, FrameMessage(s.framePending[w]))

\* subscribe(): the first time the channel is seeded, the first active one
\* activates the session.
Subscribed(s, w, passive) ==
  LET seeded == IF w \in s.subscribers THEN s
                ELSE Post([s EXCEPT !.subscribers = @ \union {w}], {w}, Patch(s.state))
  IN  IF passive \/ w \in s.activeSubscribers THEN seeded
      ELSE [seeded EXCEPT !.activeSubscribers = @ \union {w},
                          !.producing = @ \union {"on"}]

\* unsubscribe(): when the last active one leaves the session begins to drain, and
\* the cache is dropped.
Unsubscribed(s, w, passive) ==
  LET left == [s EXCEPT !.subscribers = @ \ {w}, !.activeSubscribers = @ \ {w}]
  IN  IF passive /\ w \in s.activeSubscribers THEN s
      ELSE IF w \in s.activeSubscribers /\ left.activeSubscribers = {}
        THEN [left EXCEPT !.producing = {"draining"}, !.frameCache = 0, !.late = FALSE]
      ELSE left

MistakeInterested(s, w) == [s EXCEPT !.frameInterest = @ \union {w}]

\* A channel declares interest: what is cached is sent again.
Interested(s, w) ==
  LET told == [s EXCEPT !.frameInterest = @ \union {w}]
  IN  IF s.frameCache = 0 THEN told ELSE SendFrame(told, {w}, s.frameCache)

\* The port of a channel closed: detach() and close().
Detached(s, w) ==
  [Unsubscribed(s, w, FALSE) EXCEPT !.frameInflight = @ \ {w}, !.framePending[w] = 0,
                                    !.out[w] = <<>>]

Dispatched(s, w, m) ==
  CASE m.k = "sub"       -> Subscribed(s, w, m.passive)
    [] m.k = "unsub"     -> Unsubscribed(s, w, m.passive)
    [] m.k = "set"       -> Post([s EXCEPT !.state = m.value], s.subscribers \ {w},
                                 Patch(m.value))
    [] m.k = "finterest" -> Interested(s, w)
    [] m.k = "fack"      -> FrameAck(s, w)
    [] m.k = "req"       -> [s EXCEPT !.running = @ \union {<<w, m.id>>}]
    [] m.k = "close"     -> Detached(s, w)

\* A window whose write is on its way while an update is sent to it.
Updated(w) ==
  Len(server'.out[w]) > Len(server.out[w]) /\ Last(server'.out[w]).k = "state"
Writing(w) == \E k \in DOMAIN client'.up[w] : client'.up[w][k].k = "set"
NoteUpdates ==
  overtaken' = {w \in Windows : IF Updated(w) THEN Writing(w) ELSE w \in overtaken}

Receive(w) ==
  /\ server.alive /\ client.up[w] # <<>>
  /\ server' = Dispatched(server, w, Head(client.up[w]))
  /\ client' = [client EXCEPT !.up[w] = Tail(@)]
  /\ NoteUpdates /\ UNCHANGED <<siblings, events>>

\* The session sets the field itself.
SetState ==
  /\ server.alive /\ Event
  /\ server' = Post([server EXCEPT !.state = events'], server.subscribers, Patch(events'))
  /\ UNCHANGED <<client, siblings>> /\ NoteUpdates

\* frame(): an activation publishes, also one that has yet to drain.
Publish ==
  /\ server.alive /\ Event
  /\ \E p \in server.producing :
       LET f == server.newest + 1
           s == [server EXCEPT !.newest = f, !.frameCache = f, !.late = p = "draining"]
       IN  server' = SendFrame(s, s.subscribers \intersect s.frameInterest, f)
  /\ UNCHANGED <<client, overtaken, siblings>>

Drained ==
  /\ server.alive /\ "draining" \in server.producing
  /\ server' = [server EXCEPT !.producing = @ \ {"draining"}]
  /\ UNCHANGED <<client, overtaken, siblings, events>>

\* The handler of a command is done.
Respond(w, id) ==
  /\ server.alive /\ <<w, id>> \in server.running
  /\ server' = Post([server EXCEPT !.running = @ \ {<<w, id>>}],
                    {w} \intersect client.open, [k |-> "res", id |-> id])
  /\ UNCHANGED <<client, overtaken, siblings, events>>

Die ==
  /\ server.alive /\ Event
  /\ server' = [server EXCEPT !.alive = FALSE, !.running = {}]
  /\ UNCHANGED <<client, overtaken, siblings>>
-----------------------------------------------------------------------------
(* The windows.                                                            *)

Emit(c, w, messages) == [c EXCEPT !.up[w] = @ \o messages]
Subscription(k, v) == [k |-> k, passive |-> v \in Passive]

SubscriptionOnTheWay(w) ==
  \E k \in DOMAIN client.up[w] : client.up[w][k].k \in {"sub", "unsub"}

\* useSession() and its frame(), in the setup of a component.  A channel that is
\* subscribed is not seeded again.
Mount(v) ==
  /\ v \notin client.mounted /\ WindowOf[v] \in client.open /\ Event
  /\ client' = Emit([client EXCEPT !.mounted = @ \union {v}, !.value[v] = 0],
                    WindowOf[v],
                    <<Subscription("sub", v), [k |-> "finterest"]>>)
  /\ apart' = IF ViewsOf(WindowOf[v]) = {} THEN apart \ {v} ELSE apart \union {v}
  /\ deserted' = deserted \ {v}
  /\ UNCHANGED <<server, overtaken>>

\* Its scope is disposed.  The subscription that ends is the channel's, unless an
\* observer leaves an active one.
Unmount(v) ==
  /\ v \in client.mounted /\ Event
  /\ client' = Emit([client EXCEPT !.mounted = @ \ {v}, !.shown[v] = 0],
                    WindowOf[v], <<Subscription("unsub", v)>>)
  /\ deserted' = deserted \union {u \in Siblings(v) : v \in Passive => u \in Passive}
  /\ UNCHANGED <<server, overtaken, apart>>

\* The setter of a state ref.  Its siblings are not told: the channel has no echo.
WriteField(v) ==
  /\ v \in client.mounted /\ Event
  /\ LET w == WindowOf[v]
         coming == \E k \in DOMAIN server.out[w] : server.out[w][k].k = "state"
     IN  /\ client' = Emit([client EXCEPT !.value[v] = events'], w,
                           <<[k |-> "set", value |-> events']>>)
         /\ overtaken' = IF coming THEN overtaken \union {w} ELSE overtaken
         /\ apart' = (IF SubscriptionOnTheWay(w) THEN apart ELSE apart \ {v})
                       \union Siblings(v)
  /\ UNCHANGED <<server, deserted>>

\* request()
Call(v) ==
  /\ v \in client.mounted /\ Event
  /\ LET w == WindowOf[v] IN
     /\ w \in client.notified => CallsAfterDown
     /\ \E id \in Calls \ client.waiting[w] :
          client' = Emit([client EXCEPT !.waiting[w] = @ \union {id}], w,
                         <<[k |-> "req", id |-> id]>>)
  /\ UNCHANGED <<server, overtaken, siblings>>

MistakeAcked(c, w) == IF ViewsOf(w) = {} THEN c ELSE Emit(c, w, <<[k |-> "fack"]>>)

\* A frame is acknowledged before anybody sees it.
Acked(c, w) == Emit(c, w, <<[k |-> "fack"]>>)

\* dispatch() in the window: its views hear of it.
Deliver(w) ==
  /\ w \in client.open \ client.notified /\ server.out[w] # <<>>
  /\ LET m == Head(server.out[w])
         heard(f, x) == [v \in Views |-> IF v \in ViewsOf(w) THEN x ELSE f[v]]
     IN  /\ client' = CASE m.k = "state" -> [client EXCEPT !.value = heard(@, m.value)]
                        [] m.k = "frame" -> Acked([client EXCEPT !.got[w] = m.frame,
                                                     !.shown = heard(@, m.frame)], w)
                        [] m.k = "res"   -> [client EXCEPT !.waiting[w] = @ \ {m.id}]
         /\ apart' = IF m.k = "state" /\ ~ SubscriptionOnTheWay(w)
                       THEN apart \ ViewsOf(w) ELSE apart
  /\ server' = [server EXCEPT !.out[w] = Tail(@)]
  /\ UNCHANGED <<overtaken, deserted, events>>

\* A window closes, or its renderer crashes.
CloseWindow(w) ==
  /\ w \in client.open /\ Event
  /\ client' = Emit([client EXCEPT !.open = @ \ {w}, !.mounted = @ \ ViewsOf(w),
                                   !.waiting[w] = {},
                                   !.shown = [v \in Views |-> IF WindowOf[v] = w THEN 0
                                                              ELSE @[v]]],
                    w, <<[k |-> "close"]>>)
  /\ UNCHANGED <<server, overtaken, siblings>>

MistakeClosed(c, w) == c

\* close(): what is pending is rejected.
Closed(c, w) == [c EXCEPT !.waiting[w] = {}]

\* The main process tells the window, which closes its channel.
OrchestratorDown(w) ==
  /\ ~ server.alive /\ w \in client.open \ client.notified
  /\ client' = Closed([client EXCEPT !.notified = @ \union {w}], w)
  /\ UNCHANGED <<server, overtaken, siblings, events>>
-----------------------------------------------------------------------------

WireNext ==
  \/ SetState \/ Publish \/ Drained \/ Die
  \/ \E w \in Windows : Receive(w) \/ Deliver(w) \/ CloseWindow(w) \/ OrchestratorDown(w)
  \/ \E w \in Windows, id \in Calls : Respond(w, id)
  \/ \E v \in Views : Mount(v) \/ Unmount(v) \/ WriteField(v) \/ Call(v)

\* Messages arrive, handlers and drains end, and the main process tells of a death.
Fairness ==
  /\ WF_wireVars(Drained)
  /\ \A w \in Windows : WF_wireVars(Receive(w)) /\ WF_wireVars(Deliver(w))
                          /\ WF_wireVars(OrchestratorDown(w))
  /\ \A w \in Windows, id \in Calls : WF_wireVars(Respond(w, id))

WireSpec == WireInit /\ [][WireNext]_wireVars /\ Fairness
-----------------------------------------------------------------------------
(* Properties.                                                             *)

Quiet(w) == server.alive /\ client.up[w] = <<>> /\ server.out[w] = <<>>

\* When nothing is on the way the views of a window show the session's value,
\* however siblings and other windows come, go and write.  There are three
\* exceptions, all in runtime.ts: a window whose last write has crossed an update
\* (the writer is not echoed); a view that joined a window already subscribed, or
\* whose sibling wrote, until the next update; a view whose sibling left and
\* ended the subscription of both.
SettledViewsAgree ==
  \A v \in client.mounted \ (apart \union deserted) :
    Quiet(WindowOf[v]) /\ WindowOf[v] \notin overtaken => client.value[v] = server.state

\* The gate of a channel is shut exactly while one frame, or its acknowledgement, is
\* on the way, through subscriptions that come and go; only then a frame waits.
GateIsWhatIsOnTheWay ==
  \A w \in client.open :
    LET frames == {k \in DOMAIN server.out[w] : server.out[w][k].k = "frame"}
        acks == {k \in DOMAIN client.up[w] : client.up[w][k].k = "fack"}
    IN  /\ Cardinality(frames) + Cardinality(acks) =
             IF w \in server.frameInflight THEN 1 ELSE 0
        /\ server.framePending[w] # 0 => w \in server.frameInflight

\* What a channel delivers is the frames of the session, newer ones only, some of
\* them skipped: the abstract stream.
WindowStream ==
  INSTANCE LossyStream WITH
    Readers <- Windows, Fifo <- {}, Depth <- 1,
    published <- server.newest, ended <- FALSE, pos <- client.got, last <- client.got,
    phase <- [w \in Windows |-> IF w \in server.frameInterest THEN "reading" ELSE "new"]
DeliversLossyStream == WindowStream!StreamSpec

\* A view that stays mounted comes to show the newest frame there is to show, also
\* when it joined a window already subscribed; but not one whose sibling left and
\* ended the subscription of both.
NewestFrameIsShown ==
  \A v \in Views :
    <>[](v \in client.mounted \ deserted /\ server.alive)
      => []<>(server.frameCache \in {0, client.shown[v]})

\* A call is answered or rejected, also when the orchestrator dies: no caller hangs.
CallsSettle ==
  \A w \in Windows : \A id \in Calls :
    id \in client.waiting[w] ~> id \notin client.waiting[w]

(* What the sources say, and the code does not do.                         *)

\* "Echo to every other interested window so multi-window views stay consistent."
ViewsStayConsistent ==
  \A v \in client.mounted :
    (\A w \in Windows : Quiet(w)) => client.value[v] = server.state

\* A session has the active subscription of a view that is mounted: it is idle only
\* when the last one is gone.
MountedViewKeepsSession ==
  \A v \in client.mounted \ Passive :
    Quiet(WindowOf[v]) => WindowOf[v] \in server.activeSubscribers

\* Previews of an earlier activation are gone.
PreviewsAreCurrent == server.activeSubscribers # {} => ~ server.late
=============================================================================
