--------------------------- MODULE ConfigStore_proofs ---------------------------
(***************************************************************************)
(* Proofs about the configuration store, for every set of keys, windows,   *)
(* processes and copies: the type invariant; that what a process was told  *)
(* is done is in the file, whenever writes fail or the application dies;   *)
(* that no edit is lost to an edit of another key; that processes have the *)
(* document of the authority when everything is delivered; and so have     *)
(* windows that open it once, which are not told of their own edits.       *)
(***************************************************************************)
EXTENDS ConfigStore, TLAPS

\* An answer that is on its way tells of a version that the file has reached.
Reached(box, version) ==
  \A k \in 1..Len(box) : box[k].k = "res" => box[k].version <= version

AnswersAreReached == \A c \in Clients : Reached(main.down[c], disk.version)

\* The file is written for the first operation of the queue.
WrittenForOne == main.writing => main.queue # <<>>

StoreInv ==
  TypeOK /\ AcknowledgedIsInTheFile /\ AnswersAreReached /\ WrittenForOne
-----------------------------------------------------------------------------
USE CopiesAssumption, BoundAssumption

(* Documents and changes.                                                   *)

LEMMA Documents ==
  /\ Empty \in Docs
  /\ NoEdits \in [Clients -> [Keys -> Values \union {Untouched}]]
  BY DEF Empty, Docs, Values, NoEdits

LEMMA MergedTypes ==
  ASSUME NEW S, Values \subseteq S, NEW doc \in [Keys -> S], NEW changes \in Changes
  PROVE  Merged(doc, changes) \in [Keys -> S]
<1>1. PICK ks \in SUBSET Keys : changes \in [ks -> Values]
  BY DEF Changes
<1>. QED BY <1>1 DEF Merged

LEMMA SetToTypes ==
  ASSUME NEW ks \in (SUBSET Keys) \ {{}}, NEW v \in Values
  PROVE  [k \in ks |-> v] \in Changes
  BY DEF Changes

(* Mailboxes.                                                               *)

LEMMA AppendedAnswer ==
  ASSUME NEW box \in Seq(Messages), NEW m \in Messages, NEW v \in Nat,
         Reached(box, v), m.k = "res" => m.version <= v
  PROVE  Append(box, m) \in Seq(Messages) /\ Reached(Append(box, m), v)
<1>1. Len(Append(box, m)) = Len(box) + 1
  OBVIOUS
<1>2. \A k \in 1..Len(box) + 1 : Append(box, m)[k] = IF k <= Len(box) THEN box[k] ELSE m
  OBVIOUS
<1>. QED BY <1>1, <1>2 DEF Reached

LEMMA TakenAnswer ==
  ASSUME NEW box \in Seq(Messages), box # <<>>, NEW v \in Nat, Reached(box, v)
  PROVE  /\ Head(box) \in Messages /\ Tail(box) \in Seq(Messages)
         /\ Reached(Tail(box), v)
         /\ Head(box).k = "res" => Head(box).version <= v
<1>1. Len(box) \in Nat \ {0} /\ Head(box) = box[1] /\ Len(Tail(box)) = Len(box) - 1
  OBVIOUS
<1>2. \A k \in 1..Len(box) - 1 : Tail(box)[k] = box[k + 1]
  OBVIOUS
<1>3. Head(box) \in Messages /\ Tail(box) \in Seq(Messages)
  BY <1>1
<1>. QED BY <1>1, <1>2, <1>3 DEF Reached

LEMMA LaterVersion ==
  ASSUME NEW box \in Seq(Messages), NEW v \in Nat, NEW w \in Nat, v <= w,
         Reached(box, v)
  PROVE  Reached(box, w)
<1>1. ASSUME NEW k \in 1..Len(box), box[k].k = "res" PROVE box[k].version <= w
  <2>1. box[k] \in Messages /\ box[k].version <= v
    BY <1>1 DEF Reached
  <2>2. box[k].version \in Nat
    BY <1>1, <2>1 DEF Messages
  <2>. QED BY <2>1, <2>2
<1>. QED BY <1>1 DEF Reached

LEMMA AskTypes ==
  ASSUME NEW m \in Main, NEW ops \in Seq(Operations)
  PROVE  /\ Ask(m, ops) \in Main /\ Ask(m, ops).down = m.down
         /\ Ask(m, ops).writing = m.writing
         /\ m.queue # <<>> => Ask(m, ops).queue # <<>>
<1>1. m.queue \o ops \in Seq(Operations) /\ m.queue \in Seq(Operations)
  BY DEF Main
<1>2. Ask(m, ops) \in Main /\ Ask(m, ops).down = m.down /\ Ask(m, ops).writing = m.writing
      /\ Ask(m, ops).queue = m.queue \o ops
  BY <1>1 DEF Ask, Main
<1>3. m.queue # <<>> => m.queue \o ops # <<>>
  BY <1>1
<1>. QED BY <1>2, <1>3

LEMMA DoneTypes ==
  ASSUME NEW m \in Main, m.queue # <<>>
  PROVE  Done(m) \in Main /\ Done(m).down = m.down /\ ~ Done(m).writing
<1>1. Tail(m.queue) \in Seq(Operations)
  BY DEF Main
<1>. QED BY <1>1 DEF Done, Main

LEMMA TellTypes ==
  ASSUME NEW m \in Main, NEW op \in Operations, NEW doc \in Docs, NEW v \in Nat,
         \A c \in Clients : Reached(m.down[c], v)
  PROVE  /\ Tell(m, op, doc) \in Main /\ Tell(m, op, doc).queue = m.queue
         /\ \A c \in Clients : Reached(Tell(m, op, doc).down[c], v)
<1>. DEFINE told == [k |-> "changed", doc |-> doc]
            box(c) == IF c \in m.listeners \ {op.from} THEN Append(m.down[c], told)
                      ELSE m.down[c]
<1>1. told \in Messages /\ told.k # "res"
  BY DEF Messages
<1>2. \A c \in Clients : m.down[c] \in Seq(Messages)
  BY DEF Main
<1>3. ASSUME NEW c \in Clients PROVE box(c) \in Seq(Messages) /\ Reached(box(c), v)
  <2>1. Append(m.down[c], told) \in Seq(Messages) /\ Reached(Append(m.down[c], told), v)
    BY <1>1, <1>2, AppendedAnswer
  <2>. QED BY <1>2, <2>1
<1>. HIDE DEF box
<1>4. Tell(m, op, doc) = [m EXCEPT !.down = [c \in Clients |-> box(c)]]
  BY DEF Tell, box
<1>5. [c \in Clients |-> box(c)] \in [Clients -> Seq(Messages)]
  BY <1>3
<1>6. /\ Tell(m, op, doc) \in Main /\ Tell(m, op, doc).queue = m.queue
      /\ Tell(m, op, doc).down = [c \in Clients |-> box(c)]
  BY <1>4, <1>5 DEF Main
<1>. QED BY <1>3, <1>6

LEMMA AnswerTypes ==
  ASSUME NEW m \in Main, NEW c \in Clients, NEW ok \in BOOLEAN, NEW doc \in Docs,
         NEW version \in Nat, NEW v \in Nat, version <= v,
         \A d \in Clients : Reached(m.down[d], v)
  PROVE  /\ Answer(m, c, ok, doc, version) \in Main
         /\ Answer(m, c, ok, doc, version).queue = m.queue
         /\ \A d \in Clients : Reached(Answer(m, c, ok, doc, version).down[d], v)
<1>. DEFINE res == [k |-> "res", ok |-> ok, doc |-> doc, version |-> version]
<1>1. res \in Messages /\ m.down[c] \in Seq(Messages)
  BY DEF Messages, Main
<1>2. Append(m.down[c], res) \in Seq(Messages) /\ Reached(Append(m.down[c], res), v)
  BY <1>1, AppendedAnswer
<1>. QED BY <1>2 DEF Answer, Main
-----------------------------------------------------------------------------
(* The steps.                                                               *)

LEMMA StoreStarts == Init => StoreInv
<1>. SUFFICES ASSUME Init PROVE StoreInv
  OBVIOUS
<1>1. NoMain \in Main /\ NoClient \in Client
  BY Documents DEF NoMain, NoClient, Main, Client
<1>2. [exists |-> FALSE, doc |-> Empty, version |-> 0] \in Disk
  BY Documents DEF Disk
<1>3. TypeOK
  <2>1. latest \in [Clients -> [Keys -> Values \union {Untouched}]]
    BY Documents DEF Init
  <2>2. events \in 0..MaxEvents /\ acknowledged \in Nat
    BY DEF Init
  <2>3. client \in Client /\ main \in Main /\ disk \in Disk
    BY <1>1, <1>2 DEF Init
  <2>4. behind \subseteq Windows /\ failed \in BOOLEAN
    BY DEF Init
  <2>. QED BY <2>1, <2>2, <2>3, <2>4 DEF TypeOK
<1>4. AcknowledgedIsInTheFile /\ AnswersAreReached /\ WrittenForOne
  BY DEF Init, AcknowledgedIsInTheFile, AnswersAreReached, Reached, NoMain, WrittenForOne
<1>. QED BY <1>3, <1>4 DEF StoreInv

LEMMA EventTypes ==
  ASSUME TypeOK, Event
  PROVE  events' \in 0..MaxEvents /\ events' \in Values
  BY DEF TypeOK, Event, Values

LEMMA ChangeTypes ==
  ASSUME NEW c \in Clients, NEW changes \in Changes
  PROVE  Change(c, changes) \in Operations
  BY DEF Change, Operations

LEMMA NoteEditTypes ==
  ASSUME TypeOK, NEW c \in Clients, NEW changes \in Changes \union {Empty},
         NoteEdit(c, changes)
  PROVE  /\ latest' \in [Clients -> [Keys -> Values \union {Untouched}]]
         /\ behind' \subseteq Windows
<1>1. Merged(latest[c], changes) \in [Keys -> Values \union {Untouched}]
  <2>1. latest[c] \in [Keys -> Values \union {Untouched}]
    BY DEF TypeOK
  <2>2. CASE changes = Empty
    BY <2>1, <2>2, Documents DEF Merged, Docs, Values
  <2>. QED BY <2>1, <2>2, MergedTypes
<1>2. latest' \in [Clients -> [Keys -> Values \union {Untouched}]]
  BY <1>1 DEF NoteEdit, TypeOK
<1>. QED BY <1>2 DEF NoteEdit, TypeOK

(* What clients send leaves the mailboxes and the file alone.               *)
LEMMA SentKeeps ==
  ASSUME StoreInv, NEW m \in Main, NEW ops \in Seq(Operations), main' = Ask(m, ops),
         m.queue = main.queue, m.writing = main.writing, m.down = main.down,
         UNCHANGED <<disk, acknowledged>>
  PROVE  /\ main' \in Main
         /\ AcknowledgedIsInTheFile' /\ AnswersAreReached' /\ WrittenForOne'
<1>1. /\ main' \in Main /\ main'.down = main.down /\ main'.writing = main.writing
      /\ main.queue # <<>> => main'.queue # <<>>
  BY AskTypes
<1>. QED
  BY <1>1 DEF StoreInv, AcknowledgedIsInTheFile, AnswersAreReached, WrittenForOne

LEMMA OpenKeeps == ASSUME StoreInv, NEW o \in Copies, Open(o) PROVE StoreInv'
<1>. DEFINE c == HolderOf[o]
            m == [main EXCEPT !.listeners = @ \union {c}]
            op == [from |-> c, kind |-> "read", copy |-> o]
<1>1. c \in Clients /\ main \in Main
  BY DEF StoreInv, TypeOK
<1>2. m \in Main /\ m.queue = main.queue /\ m.writing = main.writing /\ m.down = main.down
  BY <1>1 DEF Main
<1>3. op \in Operations
  BY <1>1 DEF Operations
<1>4. main' = Ask(m, <<op>>) /\ UNCHANGED <<disk, history, events>>
  BY DEF Open
<1>5. client' \in Client
  BY DEF Open, StoreInv, TypeOK, Client
<1>. HIDE DEF m, op
<1>6. /\ main' \in Main
      /\ AcknowledgedIsInTheFile' /\ AnswersAreReached' /\ WrittenForOne'
  <2>1. <<op>> \in Seq(Operations)
    BY <1>3
  <2>. QED BY <1>2, <1>4, <2>1, SentKeeps DEF history
<1>7. TypeOK'
  BY <1>4, <1>5, <1>6 DEF StoreInv, TypeOK, history
<1>. QED BY <1>6, <1>7 DEF StoreInv

LEMMA EditKeeps ==
  ASSUME StoreInv, NEW o \in Copies, NEW k \in Keys, Edit(o, k)
  PROVE  StoreInv'
<1>. DEFINE c == HolderOf[o]
            changes == [x \in {k} |-> events']
            ops == <<Change(c, Patch(o, changes))>>
<1>1. c \in Clients /\ main \in Main /\ client \in Client /\ TypeOK
  BY DEF StoreInv, TypeOK
<1>2. Event
  BY DEF Edit
<1>3. changes \in Changes
  <2>1. {k} \in (SUBSET Keys) \ {{}} /\ events' \in Values
    BY <1>1, <1>2, EventTypes
  <2>. QED BY <2>1, SetToTypes
<1>4. /\ client' = [client EXCEPT !.tracked[o] = Merged(@, changes)]
      /\ main' = Ask(main, ops) /\ NoteEdit(c, changes)
      /\ UNCHANGED <<disk, acknowledged, failed>>
  BY DEF Edit
<1>5. ops \in Seq(Operations)
  BY <1>1, <1>3, ChangeTypes DEF Patch
<1>. HIDE DEF changes, ops
<1>6. /\ main' \in Main
      /\ AcknowledgedIsInTheFile' /\ AnswersAreReached' /\ WrittenForOne'
  BY <1>1, <1>4, <1>5, SentKeeps
<1>7. client' \in Client
  <2>1. client.tracked[o] \in [Keys -> Values]
    BY <1>1 DEF Client, Docs
  <2>2. Merged(client.tracked[o], changes) \in Docs
    BY <2>1, <1>3, MergedTypes DEF Docs
  <2>. QED BY <1>1, <1>4, <2>2 DEF Client
<1>8. TypeOK'
  BY <1>1, <1>2, <1>3, <1>4, <1>6, <1>7, EventTypes, NoteEditTypes DEF TypeOK
<1>. QED BY <1>6, <1>8 DEF StoreInv

LEMMA UpdateKeeps ==
  ASSUME StoreInv, NEW p \in Processes, NEW ks \in (SUBSET Keys) \ {{}}, Update(p, ks)
  PROVE  StoreInv'
<1>. DEFINE changes == [k \in ks |-> events']
            ops == <<Change(p, changes)>>
<1>1. p \in Clients /\ main \in Main /\ client \in Client /\ TypeOK
  BY DEF StoreInv, TypeOK, Clients
<1>2. Event
  BY DEF Update
<1>3. changes \in Changes
  BY <1>1, <1>2, EventTypes, SetToTypes
<1>4. /\ client' = [client EXCEPT !.waiting[p] = @ + 1]
      /\ main' = Ask(main, ops) /\ NoteEdit(p, changes)
      /\ UNCHANGED <<disk, acknowledged, failed>>
  BY DEF Update
<1>5. ops \in Seq(Operations)
  BY <1>1, <1>3, ChangeTypes
<1>. HIDE DEF changes, ops
<1>6. /\ main' \in Main
      /\ AcknowledgedIsInTheFile' /\ AnswersAreReached' /\ WrittenForOne'
  BY <1>1, <1>4, <1>5, SentKeeps
<1>7. client' \in Client
  <2>1. [client.waiting EXCEPT ![p] = @ + 1] \in [Processes -> Int]
    BY ONLY <1>1 DEF Client
  <2>. QED BY ONLY <1>1, <1>4, <2>1 DEF Client
<1>8. TypeOK'
  BY <1>1, <1>2, <1>3, <1>4, <1>6, <1>7, EventTypes, NoteEditTypes DEF TypeOK
<1>. QED BY <1>6, <1>8 DEF StoreInv

LEMMA ClearKeeps == ASSUME StoreInv, NEW c \in Clients, Clear(c) PROVE StoreInv'
<1>. DEFINE own == client.applier[c]
            present == IF own = None \/ c \in Processes THEN {}
                       ELSE {k \in Keys : client.tracked[own][k] # 0}
            removal == [k \in present |-> 0]
            ops == <<[from |-> c, kind |-> "clear"]>>
                     \o (IF present = {} THEN <<>> ELSE <<Change(c, removal)>>)
<1>1. main \in Main /\ client \in Client /\ TypeOK /\ own \in Copies \union {None}
  BY DEF StoreInv, TypeOK, Client
<1>2. /\ Event /\ NoteEdit(c, Empty) /\ UNCHANGED <<disk, acknowledged, failed>>
      /\ main' = Ask(main, ops)
      /\ client' = IF c \in Processes THEN [client EXCEPT !.waiting[c] = @ + 1]
                   ELSE IF own = None THEN client
                   ELSE [client EXCEPT !.tracked[own] = Empty]
  BY DEF Clear
<1>3. ops \in Seq(Operations)
  <2>1. [from |-> c, kind |-> "clear"] \in Operations
    BY DEF Operations
  <2>2. present \subseteq Keys /\ 0 \in Values
    BY DEF Values
  <2>. HIDE DEF present
  <2>3. ASSUME present # {} PROVE Change(c, removal) \in Operations
    <3>1. present \in (SUBSET Keys) \ {{}}
      BY <2>2, <2>3
    <3>2. removal \in Changes
      BY <2>2, <3>1, SetToTypes
    <3>. QED BY <3>2, ChangeTypes
  <2>. HIDE DEF removal
  <2>. QED BY <2>1, <2>3
<1>. HIDE DEF ops
<1>4. /\ main' \in Main
      /\ AcknowledgedIsInTheFile' /\ AnswersAreReached' /\ WrittenForOne'
  BY <1>1, <1>2, <1>3, SentKeeps
<1>. HIDE DEF own
<1>5. client' \in Client
  <2>1. CASE c \in Processes
    BY <1>1, <1>2, <2>1 DEF Client
  <2>2. CASE c \notin Processes /\ own = None
    BY <1>1, <1>2, <2>2
  <2>3. CASE c \notin Processes /\ own # None
    <3>1. client' = [client EXCEPT !.tracked[own] = Empty]
      BY <1>2, <2>3
    <3>. QED BY <1>1, <3>1, Documents DEF Client
  <2>. QED BY <2>1, <2>2, <2>3
<1>6. TypeOK'
  BY <1>1, <1>2, <1>4, <1>5, EventTypes, NoteEditTypes DEF TypeOK
<1>. QED BY <1>4, <1>6 DEF StoreInv

LEMMA DeliverKeeps == ASSUME StoreInv, NEW c \in Clients, Deliver(c) PROVE StoreInv'
<1>. DEFINE box == main.down[c]
            m == Head(box)
            own == client.applier[c]
            copy == CHOOSE o \in Copies : HolderOf[o] = c
<1>1. /\ main \in Main /\ client \in Client /\ TypeOK /\ own \in Copies \union {None}
      /\ box \in Seq(Messages) /\ box # <<>>
      /\ disk.version \in Nat /\ Reached(box, disk.version)
  BY DEF StoreInv, TypeOK, Client, Main, Disk, AnswersAreReached, Deliver
<1>2. /\ client' =
           CASE m.k = "changed" -> IF own = None THEN client
                                   ELSE [client EXCEPT !.tracked[own] = Replaced(@, m.doc)]
             [] m.k = "read"    -> [client EXCEPT !.stage[m.copy] = "open",
                                                  !.applier[c] = m.copy,
                                                  !.tracked[m.copy] = m.doc]
             [] m.k = "res"     -> [client EXCEPT !.waiting[c] = @ - 1,
                                                  !.tracked[copy] = Answered(@, m)]
      /\ acknowledged' = IF m.k = "res" /\ m.version > acknowledged THEN m.version
                         ELSE acknowledged
      /\ main' = [main EXCEPT !.down[c] = Tail(@)]
      /\ UNCHANGED <<disk, latest, behind, failed, events>>
  BY DEF Deliver
<1>3. /\ m \in Messages /\ Tail(box) \in Seq(Messages) /\ Reached(Tail(box), disk.version)
      /\ m.k = "res" => m.version <= disk.version
  BY <1>1, TakenAnswer
<1>. HIDE DEF m, own, copy
<1>4. client' \in Client
  <2>1. CASE m.k = "changed"
    <3>1. m.doc \in Docs
      BY <1>3, <2>1 DEF Messages
    <3>2. CASE own = None
      BY <1>1, <1>2, <2>1, <3>2
    <3>3. CASE own # None
      <4>1. client' = [client EXCEPT !.tracked[own] = m.doc]
        BY <1>2, <2>1, <3>3 DEF Replaced
      <4>. QED BY <1>1, <3>1, <4>1 DEF Client
    <3>. QED BY <3>2, <3>3
  <2>2. CASE m.k = "read"
    <3>1. m.doc \in Docs /\ m.copy \in Copies
      BY <1>3, <2>2 DEF Messages
    <3>2. client' = [client EXCEPT !.stage[m.copy] = "open", !.applier[c] = m.copy,
                                   !.tracked[m.copy] = m.doc]
      BY <1>2, <2>2
    <3>. QED BY <1>1, <3>1, <3>2 DEF Client
  <2>3. CASE m.k = "res"
    <3>1. m.doc \in Docs
      BY <1>3, <2>3 DEF Messages
    <3>2. client' = [client EXCEPT !.waiting[c] = @ - 1, !.tracked[copy] = Answered(@, m)]
      BY <1>2, <2>3
    <3>3. copy \in Copies => Answered(client.tracked[copy], m) \in Docs
      BY <1>1, <3>1 DEF Answered, Client
    <3>. HIDE DEF copy
    <3>4. [client.waiting EXCEPT ![c] = @ - 1] \in [Processes -> Int]
      <4>1. client.waiting \in [Processes -> Int]
        BY <1>1 DEF Client
      <4>2. CASE c \in Processes
        <5>1. client.waiting[c] - 1 \in Int
          BY <4>1, <4>2
        <5>. QED BY <4>1, <5>1
      <4>3. CASE c \notin Processes
        <5>1. [client.waiting EXCEPT ![c] = @ - 1] = client.waiting
          BY <4>1, <4>3
        <5>. QED BY <4>1, <5>1
      <4>. QED BY <4>2, <4>3
    <3>5. [client.tracked EXCEPT ![copy] = Answered(@, m)] \in [Copies -> Docs]
      BY <1>1, <3>3 DEF Client
    <3>. QED BY <1>1, <3>2, <3>4, <3>5 DEF Client
  <2>. QED BY <1>3, <2>1, <2>2, <2>3 DEF Messages
<1>5. /\ main' \in Main /\ main'.queue = main.queue /\ main'.writing = main.writing
      /\ main'.down = [main.down EXCEPT ![c] = Tail(box)]
  BY <1>1, <1>2, <1>3 DEF Main
<1>6. /\ acknowledged' \in Nat /\ acknowledged' <= disk.version
  <2>1. acknowledged \in Nat /\ acknowledged <= disk.version
    BY <1>1 DEF TypeOK, StoreInv, AcknowledgedIsInTheFile
  <2>2. m.k = "res" => m.version \in Nat
    BY <1>3 DEF Messages
  <2>. QED BY <1>2, <1>3, <2>1, <2>2
<1>7. TypeOK'
  BY <1>1, <1>2, <1>4, <1>5, <1>6 DEF TypeOK
<1>8. AcknowledgedIsInTheFile' /\ WrittenForOne'
  BY <1>2, <1>5, <1>6 DEF AcknowledgedIsInTheFile, WrittenForOne, StoreInv
<1>9. AnswersAreReached'
  BY <1>1, <1>2, <1>3, <1>5 DEF AnswersAreReached, StoreInv, Main
<1>. QED BY <1>7, <1>8, <1>9 DEF StoreInv

\* The first operation, and the document that the authority has.
LEMMA FirstTypes ==
  ASSUME TypeOK, main.queue # <<>>
  PROVE  /\ First \in Operations
         /\ Current(main) \in Docs
<1>1. main.queue \in Seq(Operations) /\ main.value \in Docs /\ disk.doc \in Docs
  BY DEF TypeOK, Main, Disk
<1>. QED BY <1>1 DEF First, Current

\* NoteUpdates names windows only.
LEMMA NoteUpdatesTypes ==
  ASSUME TypeOK, NoteUpdates
  PROVE  behind' \subseteq Windows
  BY DEF TypeOK, NoteUpdates

LEMMA ReadKeeps == ASSUME StoreInv, Read PROVE StoreInv'
<1>. DEFINE reply == [k |-> "read", copy |-> First.copy, doc |-> Current(main)]
            m == [main EXCEPT !.value = Current(main), !.loaded = TRUE,
                              !.down[First.from] = Append(@, reply)]
<1>1. /\ TypeOK /\ main \in Main /\ main.queue # <<>> /\ First.kind = "read"
      /\ main' = Done(m) /\ NoteUpdates
      /\ UNCHANGED <<client, disk, acknowledged, latest, failed, events>>
  BY DEF Read, StoreInv, TypeOK
<1>2. First \in Operations /\ Current(main) \in Docs
  BY <1>1, FirstTypes
<1>3. First.from \in Clients /\ First.copy \in Copies
  BY <1>1, <1>2 DEF Operations
<1>4. reply \in Messages /\ reply.k # "res"
  BY <1>2, <1>3 DEF Messages
<1>5. /\ main.down[First.from] \in Seq(Messages) /\ disk.version \in Nat
      /\ Reached(main.down[First.from], disk.version)
  BY <1>1, <1>3 DEF Main, Disk, TypeOK, StoreInv, AnswersAreReached
<1>. HIDE DEF reply
<1>6. /\ Append(main.down[First.from], reply) \in Seq(Messages)
      /\ Reached(Append(main.down[First.from], reply), disk.version)
  BY <1>4, <1>5, AppendedAnswer
<1>7. /\ m \in Main /\ m.queue # <<>>
      /\ m.down = [main.down EXCEPT ![First.from] = Append(@, reply)]
  BY <1>1, <1>2, <1>3, <1>6 DEF Main
<1>. HIDE DEF m
<1>8. main' \in Main /\ main'.down = m.down /\ ~ main'.writing
  BY <1>1, <1>7, DoneTypes
<1>9. TypeOK'
  BY <1>1, <1>8, NoteUpdatesTypes DEF TypeOK
<1>10. AcknowledgedIsInTheFile' /\ WrittenForOne'
  BY <1>1, <1>8 DEF AcknowledgedIsInTheFile, WrittenForOne, StoreInv
<1>11. AnswersAreReached'
  BY <1>1, <1>3, <1>6, <1>7, <1>8 DEF AnswersAreReached, StoreInv, Main
<1>. QED BY <1>9, <1>10, <1>11 DEF StoreInv

LEMMA BeginKeeps == ASSUME StoreInv, Begin PROVE StoreInv'
<1>1. /\ TypeOK /\ main \in Main /\ main.queue # <<>> /\ First.kind # "read"
      /\ UNCHANGED <<client, disk, history, events>>
  BY DEF Begin, StoreInv, TypeOK
<1>2. First \in Operations /\ Current(main) \in Docs
  BY <1>1, FirstTypes
<1>3. /\ main' \in Main /\ main'.down = main.down /\ main'.queue = main.queue
  <2>1. CASE First.kind = "clear"
    <3>1. main' = [main EXCEPT !.writing = TRUE, !.value = Empty, !.loaded = FALSE]
      BY <2>1 DEF Begin
    <3>. QED BY <1>1, <3>1, Documents DEF Main
  <2>2. CASE First.kind # "clear"
    <3>1. First.changes \in Changes
      BY <1>1, <1>2, <2>2 DEF Operations
    <3>2. Merged(Current(main), First.changes) \in Docs
      BY <1>2, <3>1, MergedTypes DEF Docs
    <3>3. main' = [main EXCEPT !.writing = TRUE, !.loaded = TRUE,
                               !.value = Merged(Current(main), First.changes)]
      BY <2>2 DEF Begin
    <3>. QED BY <1>1, <3>2, <3>3 DEF Main
  <2>. QED BY <2>1, <2>2
<1>4. TypeOK'
  BY <1>1, <1>3 DEF TypeOK, history
<1>5. AcknowledgedIsInTheFile' /\ AnswersAreReached' /\ WrittenForOne'
  BY <1>1, <1>3
     DEF AcknowledgedIsInTheFile, AnswersAreReached, WrittenForOne, StoreInv, history
<1>. QED BY <1>4, <1>5 DEF StoreInv

LEMMA WrittenTypes ==
  ASSUME TypeOK
  PROVE  Written \in Disk /\ Written.version = disk.version + 1
<1>1. main.value \in Docs /\ disk.version \in Nat
  BY DEF TypeOK, Main, Disk
<1>. QED BY <1>1 DEF Written, Disk

LEMMA CommitKeeps == ASSUME StoreInv, Commit PROVE StoreInv'
<1>. DEFINE told == Tell(main, First, main.value)
            yes == TRUE
            answered == Answer(told, First.from, yes, main.value, Written.version)
<1>1. /\ TypeOK /\ main \in Main /\ main.queue # <<>> /\ main.value \in Docs
      /\ disk \in Disk /\ disk' = Written /\ main' = Done(answered) /\ NoteUpdates
      /\ failed' = FALSE /\ UNCHANGED <<client, acknowledged, latest, events>>
  BY DEF Commit, StoreInv, TypeOK, WrittenForOne, Main
<1>2. First \in Operations /\ First.from \in Clients
  BY <1>1, FirstTypes DEF Operations
<1>3. disk' \in Disk /\ disk'.version = disk.version + 1 /\ disk.version \in Nat
  BY <1>1, WrittenTypes DEF Disk
<1>4. \A c \in Clients : Reached(main.down[c], disk'.version)
  <2>1. \A c \in Clients :
          main.down[c] \in Seq(Messages) /\ Reached(main.down[c], disk.version)
    BY <1>1 DEF StoreInv, AnswersAreReached, Main
  <2>. QED BY <1>3, <2>1, LaterVersion
<1>5. /\ told \in Main /\ told.queue = main.queue
      /\ \A c \in Clients : Reached(told.down[c], disk'.version)
  BY <1>1, <1>2, <1>3, <1>4, TellTypes
<1>. HIDE DEF told
<1>6. /\ answered \in Main /\ answered.queue = told.queue
      /\ \A c \in Clients : Reached(answered.down[c], disk'.version)
  <2>1. /\ yes \in BOOLEAN /\ disk'.version \in Nat
        /\ Written.version \in Nat /\ Written.version <= disk'.version
    BY <1>1, <1>3
  <2>. HIDE DEF yes
  <2>. QED BY <1>1, <1>2, <1>5, <2>1, AnswerTypes
<1>. HIDE DEF answered
<1>7. main' \in Main /\ main'.down = answered.down /\ ~ main'.writing
  BY <1>1, <1>5, <1>6, DoneTypes
<1>8. TypeOK'
  BY <1>1, <1>3, <1>7, NoteUpdatesTypes DEF TypeOK
<1>9. AcknowledgedIsInTheFile'
  BY <1>1, <1>3 DEF AcknowledgedIsInTheFile, StoreInv, TypeOK
<1>10. AnswersAreReached' /\ WrittenForOne'
  BY <1>6, <1>7 DEF AnswersAreReached, WrittenForOne
<1>. QED BY <1>8, <1>9, <1>10 DEF StoreInv

LEMMA FailKeeps == ASSUME StoreInv, Fail PROVE StoreInv'
<1>. DEFINE no == FALSE
            answered == Answer(main, First.from, no, main.value, 0)
<1>1. /\ TypeOK /\ main \in Main /\ main.queue # <<>> /\ main.value \in Docs
      /\ disk.version \in Nat /\ Event /\ main' = Done(answered)
      /\ failed' = TRUE /\ behind' = behind \union (Windows \ {First.from})
      /\ UNCHANGED <<client, disk, acknowledged, latest>>
  BY DEF Fail, DoneInError, StoreInv, TypeOK, WrittenForOne, Main, Disk
<1>2. First.from \in Clients
  BY <1>1, FirstTypes DEF Operations
<1>3. \A c \in Clients : Reached(main.down[c], disk.version)
  BY DEF StoreInv, AnswersAreReached
<1>4. /\ answered \in Main /\ answered.queue = main.queue
      /\ \A c \in Clients : Reached(answered.down[c], disk.version)
  <2>1. no \in BOOLEAN /\ 0 \in Nat /\ 0 <= disk.version
    BY <1>1
  <2>. HIDE DEF no
  <2>. QED BY <1>1, <1>2, <1>3, <2>1, AnswerTypes
<1>. HIDE DEF answered
<1>5. main' \in Main /\ main'.down = answered.down /\ ~ main'.writing
  BY <1>1, <1>4, DoneTypes
<1>6. TypeOK'
  BY <1>1, <1>5, EventTypes DEF TypeOK
<1>7. AcknowledgedIsInTheFile' /\ AnswersAreReached' /\ WrittenForOne'
  BY <1>1, <1>4, <1>5
     DEF AcknowledgedIsInTheFile, AnswersAreReached, WrittenForOne, StoreInv
<1>. QED BY <1>6, <1>7 DEF StoreInv

LEMMA CrashKeeps == ASSUME StoreInv, Crash PROVE StoreInv'
<1>1. /\ TypeOK /\ Event /\ disk' \in Recovered /\ main' = NoMain /\ client' = NoClient
      /\ latest' = NoEdits /\ behind' = {} /\ failed' = FALSE /\ UNCHANGED acknowledged
  BY DEF Crash, StoreInv
<1>2. disk \in Disk /\ disk.version \in Nat
  BY <1>1 DEF TypeOK, Disk
<1>3. disk' \in Disk /\ disk'.version >= disk.version
  BY <1>1, <1>2, WrittenTypes DEF Recovered
<1>4. NoMain \in Main /\ NoClient \in Client
  BY Documents DEF NoMain, NoClient, Main, Client
<1>5. TypeOK'
  BY <1>1, <1>3, <1>4, Documents, EventTypes DEF TypeOK
<1>6. AcknowledgedIsInTheFile'
  <2>1. disk'.version \in Nat
    BY <1>3 DEF Disk
  <2>. QED BY <1>1, <1>2, <1>3, <2>1 DEF AcknowledgedIsInTheFile, StoreInv, TypeOK
<1>7. AnswersAreReached' /\ WrittenForOne'
  BY <1>1 DEF AnswersAreReached, Reached, NoMain, WrittenForOne
<1>. QED BY <1>5, <1>6, <1>7 DEF StoreInv
-----------------------------------------------------------------------------
(* The theorems.                                                            *)

\* The invariant that both of them need is one: an answer tells of a version only
\* once the file has it, and an answer under way outlives failures, not a crash.
LEMMA StoreInductive == Spec => []StoreInv
<1>1. StoreInv /\ [Next]_vars => StoreInv'
  <2>. SUFFICES ASSUME StoreInv, [Next]_vars PROVE StoreInv'
    OBVIOUS
  <2>1. CASE Read \/ Begin
    BY <2>1, ReadKeeps, BeginKeeps
  <2>2. CASE Commit \/ Fail \/ Crash
    BY <2>2, CommitKeeps, FailKeeps, CrashKeeps
  <2>3. ASSUME NEW o \in Copies, Open(o) \/ \E k \in Keys : Edit(o, k) PROVE StoreInv'
    BY <2>3, OpenKeeps, EditKeeps
  <2>4. ASSUME NEW p \in Processes, NEW ks \in (SUBSET Keys) \ {{}}, Update(p, ks)
        PROVE  StoreInv'
    BY <2>4, UpdateKeeps
  <2>5. ASSUME NEW c \in Clients, Clear(c) \/ Deliver(c) PROVE StoreInv'
    BY <2>5, ClearKeeps, DeliverKeeps
  <2>6. CASE UNCHANGED vars
    BY <2>6 DEF StoreInv, TypeOK, AcknowledgedIsInTheFile, AnswersAreReached,
                WrittenForOne, vars, history
  <2>. QED BY <2>1, <2>2, <2>3, <2>4, <2>5, <2>6 DEF Next
<1>. QED BY <1>1, StoreStarts, PTL DEF Spec

\* Main process, proxies and windows keep to their types: every operation in the
\* queue is one that a client can send, every message one that a client can take.
THEOREM TypeCorrect == Spec => []TypeOK
<1>1. StoreInv => TypeOK
  BY DEF StoreInv
<1>. QED BY <1>1, StoreInductive, PTL

\* A process that was told its change is done finds it in the file, whenever the
\* application dies: the answer follows the rename.
THEOREM AcknowledgedSurvives == Spec => []AcknowledgedIsInTheFile
<1>1. StoreInv => AcknowledgedIsInTheFile
  BY DEF StoreInv
<1>. QED BY <1>1, StoreInductive, PTL
-----------------------------------------------------------------------------
(* Whose edits survive, and what processes know.                            *)
(*                                                                          *)
(* Both are about a queue whose entries each say at most one thing: the     *)
(* operations in the queue of the document, each of which sets a key or     *)
(* leaves it alone, and the messages in the box of a process, each of which *)
(* brings the document or does not.  What will hold once the queue is empty *)
(* is the last thing said.                                                  *)

\* Where each entry of q says at most one thing, in says: the last thing that is
\* said is v, or nothing is and v is what it was before.
LastWord(q, says, before, v) ==
  \/ \E i \in DOMAIN q : /\ says[q[i]] = {v}
                         /\ \A j \in DOMAIN q : j > i => says[q[j]] = {}
  \/ (\A i \in DOMAIN q : says[q[i]] = {}) /\ before = v

\* What an operation makes of a key.
Touches(op, k) ==
  op.kind = "clear" \/ (op.kind = "change" /\ k \in DOMAIN op.changes)
SetsTo(op, k) == IF op.kind = "clear" THEN 0 ELSE op.changes[k]

Makes(k) == [op \in Operations |-> IF Touches(op, k) THEN {SetsTo(op, k)} ELSE {}]

\* Somebody's last word on a key is what it will be.
SomeoneIsRight ==
  \A k \in Keys : (\E c \in Clients : latest[c][k] # Untouched) =>
    \E c \in Clients : LastWord(main.queue, Makes(k), Current(main)[k], latest[c][k])

\* The operation under way has reached the memory; what the memory has is in the
\* file, unless an operation is under way or a write failed.
MemoryInv ==
  /\ main.writing =>
       /\ main.queue # <<>> /\ First.kind # "read"
       /\ First.kind = "clear" => main.value = Empty
       /\ First.kind = "change" =>
            main.loaded /\ \A k \in DOMAIN First.changes : main.value[k] = First.changes[k]
  /\ ~ failed /\ ~ main.writing /\ main.loaded => main.value = disk.doc

\* A client listens from the moment it asks for the document, and what it is sent
\* is for a copy of its own.
Listening ==
  /\ \A i \in DOMAIN main.queue :
       main.queue[i].kind = "read" => /\ main.queue[i].from = HolderOf[main.queue[i].copy]
                                      /\ main.queue[i].from \in main.listeners
  /\ \A c \in Clients : \A i \in DOMAIN main.down[c] :
       /\ main.down[c][i].k = "read" => /\ HolderOf[main.down[c][i].copy] = c
                                        /\ c \in main.listeners
       /\ main.down[c][i].k = "res" => c \in Processes
  /\ \A o \in Copies : client.stage[o] = "open" =>
       HolderOf[o] \in main.listeners /\ client.applier[HolderOf[o]] # None
  /\ \A c \in Clients : client.applier[c] # None => HolderOf[client.applier[c]] = c

\* The document that a message brings.
Brings == [m \in Messages |-> IF m.k # "res" \/ m.ok THEN {m.doc} ELSE {}]

\* A process that has the document, or is about to, will have what the authority has.
Knows(o) ==
  LET box == main.down[HolderOf[o]] IN
  client.stage[o] = "open" \/ \E i \in DOMAIN box : box[i].k = "read"
ProcessesInformed ==
  \A o \in Copies :
    HolderOf[o] \in Processes /\ Knows(o) /\ ~ failed /\ ~ main.writing
      => LastWord(main.down[HolderOf[o]], Brings, client.tracked[o], Current(main))

AgreeInv == MemoryInv /\ SomeoneIsRight /\ Listening /\ ProcessesInformed

LEMMA Appended ==
  ASSUME NEW S, NEW q \in Seq(S), NEW e \in S
  PROVE  /\ Append(q, e) \in Seq(S) /\ Append(q, e) # <<>>
         /\ q # <<>> => Head(Append(q, e)) = Head(q)
         /\ Len(q) \in Nat /\ DOMAIN q = 1..Len(q) /\ DOMAIN Append(q, e) = 1..(Len(q) + 1)
         /\ Append(q, e)[Len(q) + 1] = e /\ \A i \in 1..Len(q) : Append(q, e)[i] = q[i]
         /\ \A i \in DOMAIN Append(q, e) : i \in DOMAIN q \/ i = Len(q) + 1
<1>1. /\ Append(q, e) \in Seq(S) /\ Append(q, e) # <<>>
      /\ Len(q) \in Nat /\ DOMAIN q = 1..Len(q) /\ DOMAIN Append(q, e) = 1..(Len(q) + 1)
      /\ Append(q, e)[Len(q) + 1] = e /\ \A i \in 1..Len(q) : Append(q, e)[i] = q[i]
  OBVIOUS
<1>2. ASSUME q # <<>> PROVE Head(Append(q, e)) = Head(q)
  <2>1. 1 \in 1..Len(q)
    BY <1>1, <1>2
  <2>2. Append(q, e)[1] = q[1]
    BY <1>1, <2>1
  <2>3. Head(q) = q[1] /\ Head(Append(q, e)) = Append(q, e)[1]
    BY <1>1, <1>2
  <2>. QED BY <2>2, <2>3
<1>. QED BY <1>1, <1>2

LEMMA Taken ==
  ASSUME NEW S, NEW q \in Seq(S), q # <<>>
  PROVE  /\ Tail(q) \in Seq(S) /\ Head(q) = q[1] /\ Len(q) \in Nat /\ Len(q) >= 1
         /\ DOMAIN q = 1..Len(q) /\ DOMAIN Tail(q) = 1..(Len(q) - 1)
         /\ \A i \in 1..(Len(q) - 1) : Tail(q)[i] = q[i + 1]
         /\ \A i \in 1..Len(q) : i = 1 \/ i - 1 \in 1..(Len(q) - 1)
  OBVIOUS

LEMMA LastWordAppended ==
  ASSUME NEW S, NEW q \in Seq(S), NEW e \in S, NEW says, NEW before, NEW v
  PROVE  /\ says[e] = {v} => LastWord(Append(q, e), says, before, v)
         /\ says[e] = {} /\ LastWord(q, says, before, v)
              => LastWord(Append(q, e), says, before, v)
<1> DEFINE r == Append(q, e)
<1>1. /\ Len(q) \in Nat /\ DOMAIN q = 1..Len(q) /\ DOMAIN r = 1..(Len(q) + 1)
      /\ r[Len(q) + 1] = e /\ \A i \in 1..Len(q) : r[i] = q[i]
  BY Appended
<1> HIDE DEF r
<1>2. ASSUME says[e] = {v} PROVE LastWord(r, says, before, v)
  <2>1. Len(q) + 1 \in DOMAIN r /\ \A j \in DOMAIN r : ~ (j > Len(q) + 1)
    BY <1>1
  <2>. QED BY <1>1, <1>2, <2>1 DEF LastWord
<1>3. ASSUME says[e] = {}, LastWord(q, says, before, v) PROVE LastWord(r, says, before, v)
  <2>1. \A j \in DOMAIN r : j \in DOMAIN q \/ r[j] = e
    BY <1>1
  <2>2. \A j \in DOMAIN q : j \in DOMAIN r /\ r[j] = q[j]
    BY <1>1
  <2>3. CASE \E i \in DOMAIN q : /\ says[q[i]] = {v}
                                 /\ \A j \in DOMAIN q : j > i => says[q[j]] = {}
    <3>1. PICK i \in DOMAIN q : /\ says[q[i]] = {v}
                                /\ \A j \in DOMAIN q : j > i => says[q[j]] = {}
      BY <2>3
    <3>2. i \in DOMAIN r /\ says[r[i]] = {v}
      BY <2>2, <3>1
    <3>3. \A j \in DOMAIN r : j > i => says[r[j]] = {}
      BY <1>3, <2>1, <2>2, <3>1
    <3>. QED BY <3>2, <3>3 DEF LastWord
  <2>4. CASE (\A i \in DOMAIN q : says[q[i]] = {}) /\ before = v
    <3>1. \A j \in DOMAIN r : says[r[j]] = {}
      BY <1>3, <2>1, <2>2, <2>4
    <3>. QED BY <2>4, <3>1 DEF LastWord
  <2>. QED BY <1>3, <2>3, <2>4 DEF LastWord
<1>. QED BY <1>2, <1>3 DEF r

(* Taking the first entry, doing what it says leaves the last word as it is.  *)
LEMMA LastWordTaken ==
  ASSUME NEW S, NEW q \in Seq(S), q # <<>>, NEW says, NEW before, NEW v, NEW after,
         LastWord(q, says, before, v),
         says[Head(q)] = {after} \/ (says[Head(q)] = {} /\ after = before)
  PROVE  LastWord(Tail(q), says, after, v)
<1> DEFINE r == Tail(q)
           e == Head(q)
<1>1. /\ e = q[1] /\ Len(q) \in Nat /\ Len(q) >= 1
      /\ DOMAIN q = 1..Len(q) /\ DOMAIN r = 1..(Len(q) - 1)
      /\ \A i \in 1..(Len(q) - 1) : r[i] = q[i + 1]
      /\ \A i \in 1..Len(q) : i = 1 \/ i - 1 \in 1..(Len(q) - 1)
  BY Taken
<1> HIDE DEF r, e
<1>2. \A j \in DOMAIN r : j + 1 \in DOMAIN q /\ r[j] = q[j + 1] /\ j + 1 > 1
  BY <1>1
<1>3. CASE \E i \in DOMAIN q : /\ says[q[i]] = {v}
                               /\ \A j \in DOMAIN q : j > i => says[q[j]] = {}
  <2>1. PICK i \in DOMAIN q : /\ says[q[i]] = {v}
                              /\ \A j \in DOMAIN q : j > i => says[q[j]] = {}
    BY <1>3
  <2>2. CASE i = 1
    <3>1. \A j \in DOMAIN r : says[r[j]] = {}
      BY <1>2, <2>1, <2>2
    <3>2. after = v
      <4>1. says[e] = {v}
        BY <1>1, <2>1, <2>2
      <4>. QED BY <4>1 DEF e
    <3>. QED BY <3>1, <3>2 DEF LastWord, r
  <2>3. CASE i # 1
    <3>1. PICK a \in DOMAIN r : i = a + 1
      <4>1. i - 1 \in DOMAIN r /\ i = (i - 1) + 1
        BY <1>1, <2>3
      <4>. QED BY <4>1
    <3>2. says[r[a]] = {v}
      BY <1>2, <2>1, <3>1
    <3>3. \A j \in DOMAIN r : j > a => says[r[j]] = {}
      <4>1. \A j \in DOMAIN r : j > a => j + 1 > i
        BY <1>1, <3>1
      <4>. QED BY <1>2, <2>1, <4>1
    <3>. QED BY <3>2, <3>3 DEF LastWord, r
  <2>. QED BY <2>2, <2>3
<1>4. CASE (\A i \in DOMAIN q : says[q[i]] = {}) /\ before = v
  <2>1. \A j \in DOMAIN r : says[r[j]] = {}
    BY <1>2, <1>4
  <2>2. after = v
    <3>1. says[e] = {}
      BY <1>1, <1>4
    <3>. QED BY <1>4, <3>1 DEF e
  <2>. QED BY <2>1, <2>2 DEF LastWord, r
<1>. QED BY <1>3, <1>4 DEF LastWord

(* When something is said, what was before does not matter.                  *)
LEMMA LastWordSaid ==
  ASSUME NEW q, NEW says, NEW before, NEW v, NEW after, LastWord(q, says, before, v),
         \E i \in DOMAIN q : says[q[i]] # {}
  PROVE  LastWord(q, says, after, v)
  BY DEF LastWord

LEMMA AgreeStarts == Init => AgreeInv
<1>. SUFFICES ASSUME Init PROVE AgreeInv
  OBVIOUS
<1>1. /\ main = NoMain /\ client = NoClient /\ latest = NoEdits
  BY DEF Init
<1>2. MemoryInv
  BY <1>1 DEF NoMain, MemoryInv
<1>3. SomeoneIsRight
  BY <1>1 DEF NoEdits, SomeoneIsRight
<1>4. /\ main.queue = <<>> /\ \A c \in Clients : main.down[c] = <<>>
      /\ \A o \in Copies : client.stage[o] = "closed"
      /\ \A c \in Clients : client.applier[c] = None
  BY <1>1 DEF NoMain, NoClient
<1>5. DOMAIN <<>> = {}
  OBVIOUS
<1>6. Listening
  BY <1>4, <1>5 DEF Listening
<1>7. ProcessesInformed
  BY <1>4, <1>5 DEF ProcessesInformed, Knows
<1>. QED BY <1>2, <1>3, <1>6, <1>7 DEF AgreeInv

LEMMA StoreTypes ==
  ASSUME StoreInv
  PROVE  /\ main.queue \in Seq(Operations)
         /\ \A c \in Clients : main.down[c] \in Seq(Messages)
         /\ \A o \in Copies : HolderOf[o] \in Clients
         /\ latest \in [Clients -> [Keys -> Values \union {Untouched}]]
         /\ main \in Main /\ client \in Client /\ disk \in Disk
  BY DEF StoreInv, TypeOK, Main

LEMMA Asked ==
  ASSUME NEW m \in Main, NEW op \in Operations
  PROVE  /\ Ask(m, <<op>>) = [m EXCEPT !.queue = Append(m.queue, op)]
         /\ Ask(m, <<op>> \o <<>>) = [m EXCEPT !.queue = Append(m.queue, op)]
<1>1. m.queue \in Seq(Operations)
  BY DEF Main
<1>2. m.queue \o <<op>> = Append(m.queue, op)
  BY <1>1
<1>3. <<op>> \o <<>> = <<op>>
  OBVIOUS
<1>. QED BY <1>2, <1>3 DEF Ask

(* What a client sends leaves the memory, and what processes know, as it is.  *)
LEMMA SentAgrees ==
  ASSUME StoreInv, AgreeInv, UNCHANGED <<disk, failed>>,
         main'.value = main.value, main'.loaded = main.loaded,
         main'.writing = main.writing, main'.down = main.down,
         main.listeners \subseteq main'.listeners,
         main.queue # <<>> => main'.queue # <<>> /\ Head(main'.queue) = Head(main.queue),
         \A i \in DOMAIN main'.queue :
           main'.queue[i].kind = "read" =>
             /\ main'.queue[i].from = HolderOf[main'.queue[i].copy]
             /\ main'.queue[i].from \in main'.listeners,
         \A o \in Copies : client'.stage[o] = "open" <=> client.stage[o] = "open",
         client'.applier = client.applier,
         \A o \in Copies : HolderOf[o] \in Processes => client'.tracked[o] = client.tracked[o]
  PROVE  MemoryInv' /\ Listening' /\ ProcessesInformed'
<1>1. MemoryInv'
  BY DEF AgreeInv, MemoryInv, First
<1>2. Listening'
  BY DEF AgreeInv, Listening
<1>3. ProcessesInformed'
  <2>1. Current(main)' = Current(main)
    BY DEF Current
  <2>. QED BY <2>1 DEF AgreeInv, ProcessesInformed, Knows
<1>. QED BY <1>1, <1>2, <1>3

(* A client that changes a key has the last word on it.                      *)
LEMMA SaidAgrees ==
  ASSUME StoreInv, SomeoneIsRight, NEW c \in Clients, NEW op \in Operations,
         main'.queue = Append(main.queue, op), Current(main)' = Current(main),
         \A d \in Clients : d # c => latest'[d] = latest[d],
         \A k \in Keys : \/ Makes(k)[op] = {latest'[c][k]}
                         \/ Makes(k)[op] = {} /\ latest'[c][k] = latest[c][k]
  PROVE  SomeoneIsRight'
<1>1. main.queue \in Seq(Operations)
  BY StoreTypes
<1>2. ASSUME NEW k \in Keys, \E d \in Clients : latest'[d][k] # Untouched
      PROVE  \E d \in Clients :
               LastWord(main'.queue, Makes(k), Current(main)[k], latest'[d][k])
  <2>1. CASE Makes(k)[op] = {latest'[c][k]}
    BY <1>1, <2>1, LastWordAppended
  <2>2. CASE Makes(k)[op] = {} /\ latest'[c][k] = latest[c][k]
    <3>1. \A d \in Clients : latest'[d][k] = latest[d][k]
      BY <2>2
    <3>2. PICK d \in Clients :
            LastWord(main.queue, Makes(k), Current(main)[k], latest[d][k])
      BY <1>2, <3>1 DEF SomeoneIsRight
    <3>3. LastWord(main'.queue, Makes(k), Current(main)[k], latest[d][k])
      BY <1>1, <2>2, <3>2, LastWordAppended
    <3>. QED BY <3>1, <3>3
  <2>. QED BY <2>1, <2>2
<1>. QED BY <1>2 DEF SomeoneIsRight

(* A change says what it says of its keys, and nothing of the others.         *)
LEMMA ChangeMakes ==
  ASSUME NEW c \in Clients, NEW changes \in Changes, NEW k \in Keys
  PROVE  /\ Change(c, changes) \in Operations
         /\ k \in DOMAIN changes => Makes(k)[Change(c, changes)] = {changes[k]}
         /\ k \notin DOMAIN changes => Makes(k)[Change(c, changes)] = {}
<1>1. Change(c, changes) \in Operations
  BY ChangeTypes
<1>. QED BY <1>1 DEF Makes, Change, Touches, SetsTo

LEMMA ReadsListen ==
  ASSUME StoreInv, Listening, NEW op \in Operations, main'.queue = Append(main.queue, op),
         main.listeners \subseteq main'.listeners,
         op.kind = "read" => op.from = HolderOf[op.copy] /\ op.from \in main'.listeners
  PROVE  /\ main.queue # <<>> => main'.queue # <<>> /\ Head(main'.queue) = Head(main.queue)
         /\ \A i \in DOMAIN main'.queue :
              main'.queue[i].kind = "read" =>
                /\ main'.queue[i].from = HolderOf[main'.queue[i].copy]
                /\ main'.queue[i].from \in main'.listeners
<1>1. main.queue \in Seq(Operations)
  BY StoreTypes
<1>2. /\ main'.queue # <<>> /\ (main.queue # <<>> => Head(main'.queue) = Head(main.queue))
      /\ \A i \in DOMAIN main'.queue : \/ i \in DOMAIN main.queue /\ main'.queue[i] = main.queue[i]
                                       \/ main'.queue[i] = op
  BY <1>1, Appended
<1>. QED BY <1>2 DEF Listening

LEMMA OpenAgrees == ASSUME StoreInv, AgreeInv, NEW o \in Copies, Open(o) PROVE AgreeInv'
<1> DEFINE c == HolderOf[o]
           m == [main EXCEPT !.listeners = @ \union {c}]
           op == [from |-> c, kind |-> "read", copy |-> o]
<1>1. main \in Main /\ client \in Client /\ c \in Clients
  BY StoreTypes
<1>2. m \in Main /\ op \in Operations
  BY <1>1 DEF Main, Operations
<1>3. main' = [m EXCEPT !.queue = Append(m.queue, op)]
  <2>1. main' = Ask(m, <<op>>)
    BY DEF Open
  <2> HIDE DEF m, op
  <2>. QED BY <1>2, <2>1, Asked
<1>4. /\ main'.queue = Append(main.queue, op) /\ main'.value = main.value
      /\ main'.loaded = main.loaded /\ main'.writing = main.writing
      /\ main'.down = main.down /\ main'.listeners = main.listeners \union {c}
  BY <1>1, <1>2, <1>3 DEF Main
<1>5. /\ client' = [client EXCEPT !.stage[o] = "opening"] /\ client.stage[o] = "closed"
      /\ UNCHANGED <<disk, history>>
  BY DEF Open
<1>6. /\ \A x \in Copies : client'.stage[x] = "open" <=> client.stage[x] = "open"
      /\ client'.applier = client.applier /\ client'.tracked = client.tracked
  BY <1>1, <1>5 DEF Client
<1>7. op.kind = "read" /\ op.from = HolderOf[op.copy] /\ op.from \in main'.listeners
  BY <1>4
<1>8. \A k \in Keys : Makes(k)[op] = {}
  BY <1>2 DEF Makes, Touches
<1> HIDE DEF op, m
<1>9. Current(main)' = Current(main)
  BY <1>4, <1>5 DEF Current
<1>10. SomeoneIsRight'
  <2>1. latest' = latest
    BY <1>5 DEF history
  <2>. QED BY <1>1, <1>2, <1>4, <1>8, <1>9, <2>1, SaidAgrees DEF AgreeInv
<1>11. /\ main.queue # <<>> => main'.queue # <<>> /\ Head(main'.queue) = Head(main.queue)
       /\ \A i \in DOMAIN main'.queue :
            main'.queue[i].kind = "read" =>
              /\ main'.queue[i].from = HolderOf[main'.queue[i].copy]
              /\ main'.queue[i].from \in main'.listeners
  BY <1>2, <1>4, <1>7, ReadsListen DEF AgreeInv
<1>12. MemoryInv' /\ Listening' /\ ProcessesInformed'
  <2>1. UNCHANGED <<disk, failed>>
    BY <1>5 DEF history
  <2>. QED BY <1>4, <1>6, <1>11, <2>1, SentAgrees
<1>. QED BY <1>10, <1>12 DEF AgreeInv

LEMMA NoteEditSays ==
  ASSUME StoreInv, NEW c \in Clients, NEW changes \in Changes, NoteEdit(c, changes)
  PROVE  /\ \A d \in Clients : d # c => latest'[d] = latest[d]
         /\ \A k \in Keys :
              \/ Makes(k)[Change(c, changes)] = {latest'[c][k]}
              \/ Makes(k)[Change(c, changes)] = {} /\ latest'[c][k] = latest[c][k]
<1>1. latest' = [latest EXCEPT ![c] = Merged(@, changes)]
  BY DEF NoteEdit
<1>2. latest \in [Clients -> [Keys -> Values \union {Untouched}]]
  BY StoreTypes
<1>3. /\ latest'[c] = Merged(latest[c], changes)
      /\ \A d \in Clients : d # c => latest'[d] = latest[d]
  BY <1>1, <1>2
<1>4. \A k \in Keys : latest'[c][k] = IF k \in DOMAIN changes THEN changes[k] ELSE latest[c][k]
  BY <1>3 DEF Merged
<1>. QED BY <1>3, <1>4, ChangeMakes

LEMMA EditAgrees ==
  ASSUME StoreInv, AgreeInv, NEW o \in Copies, NEW k \in Keys, Edit(o, k)
  PROVE  AgreeInv'
<1> DEFINE c == HolderOf[o]
           changes == [x \in {k} |-> events']
           op == Change(c, changes)
<1>1. main \in Main /\ client \in Client /\ c \in Clients /\ TypeOK
  BY StoreTypes DEF StoreInv
<1>2. Event /\ c \in Windows
  BY DEF Edit
<1>3. changes \in Changes
  <2>1. {k} \in (SUBSET Keys) \ {{}} /\ events' \in Values
    BY <1>1, <1>2, EventTypes
  <2>. QED BY <2>1, SetToTypes
<1>4. /\ client' = [client EXCEPT !.tracked[o] = Merged(@, changes)]
      /\ main' = Ask(main, <<op>>) /\ NoteEdit(c, changes)
      /\ UNCHANGED <<disk, acknowledged, failed>> /\ client.stage[o] = "open"
  BY DEF Edit, Patch
<1>5. op \in Operations /\ op.kind = "change"
  BY <1>1, <1>3, ChangeTypes DEF Change
<1> HIDE DEF changes
<1>6. /\ \A d \in Clients : d # c => latest'[d] = latest[d]
      /\ \A x \in Keys : \/ Makes(x)[op] = {latest'[c][x]}
                         \/ Makes(x)[op] = {} /\ latest'[c][x] = latest[c][x]
  BY <1>1, <1>3, <1>4, NoteEditSays
<1> HIDE DEF op
<1>7. main' = [main EXCEPT !.queue = Append(main.queue, op)]
  BY <1>1, <1>4, <1>5, Asked
<1>8. /\ main'.queue = Append(main.queue, op) /\ main'.value = main.value
      /\ main'.loaded = main.loaded /\ main'.writing = main.writing
      /\ main'.down = main.down /\ main'.listeners = main.listeners
  BY <1>1, <1>7 DEF Main
<1>9. /\ client'.stage = client.stage /\ client'.applier = client.applier
      /\ \A x \in Copies : x # o => client'.tracked[x] = client.tracked[x]
  BY <1>1, <1>4 DEF Client
<1>10. \A x \in Copies : HolderOf[x] \in Processes => client'.tracked[x] = client.tracked[x]
  BY <1>2, <1>9, ClientsAssumption
<1>11. SomeoneIsRight'
  <2>1. Current(main)' = Current(main)
    BY <1>4, <1>8 DEF Current
  <2>. QED BY <1>1, <1>5, <1>6, <1>8, <2>1, SaidAgrees DEF AgreeInv
<1>12. /\ main.queue # <<>> => main'.queue # <<>> /\ Head(main'.queue) = Head(main.queue)
       /\ \A i \in DOMAIN main'.queue :
            main'.queue[i].kind = "read" =>
              /\ main'.queue[i].from = HolderOf[main'.queue[i].copy]
              /\ main'.queue[i].from \in main'.listeners
  BY <1>5, <1>8, ReadsListen DEF AgreeInv
<1>13. MemoryInv' /\ Listening' /\ ProcessesInformed'
  BY <1>4, <1>8, <1>9, <1>10, <1>12, SentAgrees
<1>. QED BY <1>11, <1>13 DEF AgreeInv

LEMMA UpdateAgrees ==
  ASSUME StoreInv, AgreeInv, NEW p \in Processes, NEW ks \in (SUBSET Keys) \ {{}},
         Update(p, ks)
  PROVE  AgreeInv'
<1> DEFINE changes == [k \in ks |-> events']
           op == Change(p, changes)
<1>1. main \in Main /\ client \in Client /\ p \in Clients /\ TypeOK
  BY StoreTypes DEF StoreInv, Clients
<1>2. Event
  BY DEF Update
<1>3. changes \in Changes
  BY <1>1, <1>2, EventTypes, SetToTypes
<1>4. /\ client' = [client EXCEPT !.waiting[p] = @ + 1]
      /\ main' = Ask(main, <<op>>) /\ NoteEdit(p, changes)
      /\ UNCHANGED <<disk, acknowledged, failed>>
  BY DEF Update
<1>5. op \in Operations /\ op.kind = "change"
  BY <1>1, <1>3, ChangeTypes DEF Change
<1> HIDE DEF changes
<1>6. /\ \A d \in Clients : d # p => latest'[d] = latest[d]
      /\ \A x \in Keys : \/ Makes(x)[op] = {latest'[p][x]}
                         \/ Makes(x)[op] = {} /\ latest'[p][x] = latest[p][x]
  BY <1>1, <1>3, <1>4, NoteEditSays
<1> HIDE DEF op
<1>7. main' = [main EXCEPT !.queue = Append(main.queue, op)]
  BY <1>1, <1>4, <1>5, Asked
<1>8. /\ main'.queue = Append(main.queue, op) /\ main'.value = main.value
      /\ main'.loaded = main.loaded /\ main'.writing = main.writing
      /\ main'.down = main.down /\ main'.listeners = main.listeners
  BY <1>1, <1>7 DEF Main
<1>9. client'.stage = client.stage /\ client'.applier = client.applier
      /\ client'.tracked = client.tracked
  BY <1>1, <1>4 DEF Client
<1>10. SomeoneIsRight'
  <2>1. Current(main)' = Current(main)
    BY <1>4, <1>8 DEF Current
  <2>. QED BY <1>1, <1>5, <1>6, <1>8, <2>1, SaidAgrees DEF AgreeInv
<1>11. /\ main.queue # <<>> => main'.queue # <<>> /\ Head(main'.queue) = Head(main.queue)
       /\ \A i \in DOMAIN main'.queue :
            main'.queue[i].kind = "read" =>
              /\ main'.queue[i].from = HolderOf[main'.queue[i].copy]
              /\ main'.queue[i].from \in main'.listeners
  BY <1>5, <1>8, ReadsListen DEF AgreeInv
<1>12. MemoryInv' /\ Listening' /\ ProcessesInformed'
  BY <1>4, <1>8, <1>9, <1>11, SentAgrees
<1>. QED BY <1>10, <1>12 DEF AgreeInv

(* A clear leaves the memory as it is; the copy of a window is empty at once.  *)
LEMMA ClearDoes ==
  ASSUME StoreInv, Listening, NEW c \in Clients, Clear(c)
  PROVE  /\ UNCHANGED <<disk, failed>> /\ NoteEdit(c, Empty)
         /\ main'.value = main.value /\ main'.loaded = main.loaded
         /\ main'.writing = main.writing /\ main'.down = main.down
         /\ main'.listeners = main.listeners
         /\ client'.stage = client.stage /\ client'.applier = client.applier
         /\ \A x \in Copies :
              client'.tracked[x] = IF c \notin Processes /\ x = client.applier[c] THEN Empty
                                   ELSE client.tracked[x]
         /\ \E op, op2 \in Operations :
              /\ op.kind = "clear" /\ op.from = c
              /\ op2.kind # "read" /\ op2.from = c
              /\ \A k \in Keys : Makes(k)[op] = {0} /\ Makes(k)[op2] \in {{0}, {}}
              /\ \/ main'.queue = Append(main.queue, op)
                 \/ main'.queue = Append(Append(main.queue, op), op2)
<1> DEFINE own == client.applier[c]
           present == IF own = None \/ c \in Processes THEN {}
                      ELSE {k \in Keys : client.tracked[own][k] # 0}
           removal == [k \in present |-> 0]
           op == [from |-> c, kind |-> "clear"]
           op2 == Change(c, removal)
<1>1. main \in Main /\ client \in Client /\ TypeOK /\ own \in Copies \union {None}
  BY StoreTypes DEF StoreInv, Client
<1>2. /\ Event /\ NoteEdit(c, Empty) /\ UNCHANGED <<disk, acknowledged, failed>>
      /\ main' = Ask(main, <<op>> \o (IF present = {} THEN <<>> ELSE <<op2>>))
      /\ client' = IF c \in Processes THEN [client EXCEPT !.waiting[c] = @ + 1]
                   ELSE IF own = None THEN client
                   ELSE [client EXCEPT !.tracked[own] = Empty]
  BY DEF Clear
<1>3. op \in Operations /\ op.kind = "clear" /\ op.from = c
  BY DEF Operations
<1>4. \A k \in Keys : Makes(k)[op] = {0}
  BY <1>3 DEF Makes, Touches, SetsTo
<1>6. present # {} => /\ op2 \in Operations /\ op2.kind = "change" /\ op2.from = c
                      /\ \A k \in Keys : Makes(k)[op2] = {0} \/ Makes(k)[op2] = {}
  <2>1. present \subseteq Keys /\ 0 \in Values
    BY DEF Values
  <2> HIDE DEF present
  <2>2. ASSUME present # {}
        PROVE  /\ op2 \in Operations /\ op2.kind = "change" /\ op2.from = c
               /\ \A k \in Keys : Makes(k)[op2] = {0} \/ Makes(k)[op2] = {}
    <3>1. removal \in Changes
      <4>1. present \in (SUBSET Keys) \ {{}}
        BY <2>1, <2>2
      <4>. QED BY <2>1, <4>1, SetToTypes
    <3>2. \A k \in DOMAIN removal : removal[k] = 0
      OBVIOUS
    <3> HIDE DEF removal
    <3>3. op2 \in Operations /\ op2.kind = "change" /\ op2.from = c
      BY <3>1, ChangeTypes DEF Change
    <3>. QED BY <3>1, <3>2, <3>3, ChangeMakes
  <2>. QED BY <2>2
<1> HIDE DEF op, op2, present
<1>7. \/ main' = [main EXCEPT !.queue = Append(main.queue, op)]
      \/ /\ present # {}
         /\ main' = [main EXCEPT !.queue = Append(Append(main.queue, op), op2)]
  <2>1. CASE present = {}
    BY <1>1, <1>2, <1>3, <2>1, Asked
  <2>2. CASE present # {}
    <3>1. main' = Ask(main, <<op>> \o <<op2>>)
      BY <1>2, <2>2
    <3>2. main \in Main /\ op \in Operations /\ op2 \in Operations
      BY <1>1, <1>3, <1>6, <2>2
    <3>3. Ask(main, <<op>> \o <<op2>>)
            = [main EXCEPT !.queue = Append(Append(main.queue, op), op2)]
      <4>1. main.queue \o (<<op>> \o <<op2>>) = Append(Append(main.queue, op), op2)
        BY <1>1, <3>2 DEF Main
      <4>. QED BY <4>1 DEF Ask
    <3>. QED BY <2>2, <3>1, <3>3
  <2>. QED BY <2>1, <2>2
<1>8. /\ \/ main'.queue = Append(main.queue, op)
         \/ present # {} /\ main'.queue = Append(Append(main.queue, op), op2)
      /\ main'.value = main.value
      /\ main'.loaded = main.loaded /\ main'.writing = main.writing
      /\ main'.down = main.down /\ main'.listeners = main.listeners
  BY <1>1, <1>7 DEF Main
<1>9. \E o1, o2 \in Operations :
        /\ o1.kind = "clear" /\ o1.from = c
        /\ o2.kind # "read" /\ o2.from = c
        /\ \A k \in Keys : Makes(k)[o1] = {0} /\ Makes(k)[o2] \in {{0}, {}}
        /\ \/ main'.queue = Append(main.queue, o1)
           \/ main'.queue = Append(Append(main.queue, o1), o2)
  <2>1. CASE main'.queue = Append(main.queue, op)
    <3>1. op.kind # "read" /\ \A k \in Keys : Makes(k)[op] \in {{0}, {}}
      BY <1>3, <1>4
    <3>. QED BY <1>3, <1>4, <2>1, <3>1
  <2>2. CASE present # {} /\ main'.queue = Append(Append(main.queue, op), op2)
    <3>1. /\ op2 \in Operations /\ op2.kind # "read" /\ op2.from = c
          /\ \A k \in Keys : Makes(k)[op2] \in {{0}, {}}
      BY <1>6, <2>2
    <3>. QED BY <1>3, <1>4, <2>2, <3>1
  <2>. QED BY <1>8, <2>1, <2>2
<1>10. /\ client'.stage = client.stage /\ client'.applier = client.applier
       /\ \A x \in Copies :
            client'.tracked[x] = IF c \notin Processes /\ x = own THEN Empty
                                 ELSE client.tracked[x]
  <2> HIDE DEF own
  <2>1. CASE c \in Processes
    BY <1>1, <1>2, <2>1 DEF Client
  <2>2. CASE c \notin Processes /\ own = None
    <3>1. client' = client /\ None \notin Copies
      BY <1>2, <2>2
    <3>. QED BY <2>2, <3>1
  <2>3. CASE c \notin Processes /\ own # None
    <3>1. client' = [client EXCEPT !.tracked[own] = Empty]
      BY <1>2, <2>3
    <3>. QED BY <1>1, <2>3, <3>1 DEF Client
  <2>. QED BY <2>1, <2>2, <2>3
<1>. QED BY <1>2, <1>8, <1>9, <1>10 DEF own

LEMMA ClearAgrees == ASSUME StoreInv, AgreeInv, NEW c \in Clients, Clear(c) PROVE AgreeInv'
<1>1. /\ UNCHANGED <<disk, failed>> /\ NoteEdit(c, Empty)
      /\ main'.value = main.value /\ main'.loaded = main.loaded
      /\ main'.writing = main.writing /\ main'.down = main.down
      /\ main'.listeners = main.listeners
      /\ client'.stage = client.stage /\ client'.applier = client.applier
  BY ClearDoes DEF AgreeInv
<1>2. \A x \in Copies : HolderOf[x] \in Processes => client'.tracked[x] = client.tracked[x]
  <2>1. \A x \in Copies : x = client.applier[c] => x # None /\ HolderOf[x] = c
    BY DEF AgreeInv, Listening
  <2>. QED BY <2>1, ClearDoes DEF AgreeInv
<1>3. PICK op \in Operations, op2 \in Operations :
        /\ op.kind = "clear" /\ op.from = c
        /\ op2.kind # "read" /\ op2.from = c
        /\ \A k \in Keys : Makes(k)[op] = {0} /\ Makes(k)[op2] \in {{0}, {}}
        /\ \/ main'.queue = Append(main.queue, op)
           \/ main'.queue = Append(Append(main.queue, op), op2)
  BY ClearDoes DEF AgreeInv
<1>4. \A k \in Keys : latest'[c][k] = 0
  <2>1. latest' = [latest EXCEPT ![c] = Merged(@, Empty)]
    BY <1>1 DEF NoteEdit
  <2>2. latest'[c] = Merged(latest[c], Empty)
    BY <2>1, StoreTypes
  <2>. QED BY <2>2 DEF Merged, Empty
<1>5. main.queue \in Seq(Operations) /\ Append(main.queue, op) \in Seq(Operations)
  BY <1>3, StoreTypes
<1>6. SomeoneIsRight'
  <2>1. ASSUME NEW k \in Keys
        PROVE  LastWord(main'.queue, Makes(k), Current(main)'[k], latest'[c][k])
    <3>1. LastWord(Append(main.queue, op), Makes(k), Current(main)'[k], 0)
      BY <1>3, <1>5, LastWordAppended
    <3>2. LastWord(Append(Append(main.queue, op), op2), Makes(k), Current(main)'[k], 0)
      BY <1>3, <1>5, <3>1, LastWordAppended
    <3>. QED BY <1>3, <1>4, <3>1, <3>2
  <2>. QED BY <2>1 DEF SomeoneIsRight
<1>7. /\ main.queue # <<>> => main'.queue # <<>> /\ Head(main'.queue) = Head(main.queue)
      /\ \A i \in DOMAIN main'.queue :
           \/ i \in DOMAIN main.queue /\ main'.queue[i] = main.queue[i]
           \/ main'.queue[i].kind # "read"
  <2> DEFINE q == Append(main.queue, op)
             r == Append(q, op2)
  <2>1. /\ q # <<>> /\ (main.queue # <<>> => Head(q) = Head(main.queue))
        /\ \A i \in DOMAIN q : (i \in DOMAIN main.queue /\ q[i] = main.queue[i]) \/ q[i] = op
    BY <1>5, Appended
  <2> HIDE DEF q
  <2>2. /\ r # <<>> /\ Head(r) = Head(q)
        /\ \A i \in DOMAIN r : (i \in DOMAIN q /\ r[i] = q[i]) \/ r[i] = op2
    BY <1>5, <2>1, Appended DEF q
  <2> HIDE DEF r
  <2>3. main'.queue = q \/ main'.queue = r
    BY <1>3 DEF q, r
  <2>. QED BY <1>3, <2>1, <2>2, <2>3
<1>8. \A i \in DOMAIN main'.queue :
        main'.queue[i].kind = "read" =>
          /\ main'.queue[i].from = HolderOf[main'.queue[i].copy]
          /\ main'.queue[i].from \in main'.listeners
  BY <1>1, <1>7 DEF AgreeInv, Listening
<1>9. MemoryInv' /\ Listening' /\ ProcessesInformed'
  BY <1>1, <1>2, <1>7, <1>8, SentAgrees
<1>. QED BY <1>6, <1>9 DEF AgreeInv

(* A message that has been taken is one less to come.                         *)
LEMMA BoxTaken ==
  ASSUME NEW box \in Seq(Messages), box # <<>>
  PROVE  /\ 1 \in DOMAIN box /\ Head(box) = box[1] /\ Head(box) \in Messages
         /\ \A i \in DOMAIN Tail(box) : \E j \in DOMAIN box : Tail(box)[i] = box[j]
<1>1. /\ Head(box) = box[1] /\ Len(box) \in Nat /\ Len(box) >= 1
      /\ DOMAIN box = 1..Len(box) /\ DOMAIN Tail(box) = 1..(Len(box) - 1)
      /\ \A i \in 1..(Len(box) - 1) : Tail(box)[i] = box[i + 1]
  BY Taken
<1>2. \A i \in DOMAIN Tail(box) : i + 1 \in DOMAIN box /\ Tail(box)[i] = box[i + 1]
  BY <1>1
<1>3. 1 \in DOMAIN box
  BY <1>1
<1>. QED BY <1>1, <1>2, <1>3

LEMMA OneCopy ==
  ASSUME NEW c \in Processes, NEW o \in Copies, NEW x \in Copies,
         HolderOf[o] = c, HolderOf[x] = c
  PROVE  o = x
  OBVIOUS

(* Only the copies of a client that takes a message change, and one that is open
   has what the message brings.                                              *)
LEMMA DeliverDoes ==
  ASSUME StoreInv, Listening, NEW c \in Clients, Deliver(c)
  PROVE  LET box == main.down[c]
             m == Head(box)
         IN  /\ main'.down[c] = Tail(box)
             /\ \A d \in Clients : d # c => main'.down[d] = main.down[d]
             /\ main'.queue = main.queue /\ main'.value = main.value
             /\ main'.loaded = main.loaded /\ main'.writing = main.writing
             /\ main'.listeners = main.listeners
             /\ \A o \in Copies : HolderOf[o] # c =>
                  client'.tracked[o] = client.tracked[o] /\ client'.stage[o] = client.stage[o]
             /\ \A d \in Clients : d # c => client'.applier[d] = client.applier[d]
             /\ \/ /\ m.k = "read" /\ HolderOf[m.copy] = c /\ m.copy \in Copies
                   /\ c \in main.listeners
                   /\ client'.applier[c] = m.copy /\ client'.tracked[m.copy] = m.doc
                   /\ client'.stage = [client.stage EXCEPT ![m.copy] = "open"]
                \/ /\ m.k = "changed" /\ UNCHANGED <<client.stage, client.applier>>
                   /\ \/ /\ client.applier[c] \in Copies
                         /\ HolderOf[client.applier[c]] = c
                         /\ client'.tracked[client.applier[c]] = m.doc
                      \/ client.applier[c] = None /\ UNCHANGED client
                \/ /\ m.k = "res" /\ c \in Processes
                   /\ UNCHANGED <<client.stage, client.applier>>
                   /\ \A o \in Copies : HolderOf[o] = c =>
                        client'.tracked[o] = IF m.ok THEN m.doc ELSE client.tracked[o]
<1> DEFINE box == main.down[c]
           m == Head(box)
           own == client.applier[c]
           copy == CHOOSE o \in Copies : HolderOf[o] = c
<1>1. /\ main \in Main /\ client \in Client /\ own \in Copies \union {None}
      /\ box \in Seq(Messages) /\ box # <<>>
  BY DEF StoreInv, TypeOK, Client, Main, Deliver
<1>2. /\ client' =
           CASE m.k = "changed" -> IF own = None THEN client
                                   ELSE [client EXCEPT !.tracked[own] = Replaced(@, m.doc)]
             [] m.k = "read"    -> [client EXCEPT !.stage[m.copy] = "open",
                                                  !.applier[c] = m.copy,
                                                  !.tracked[m.copy] = m.doc]
             [] m.k = "res"     -> [client EXCEPT !.waiting[c] = @ - 1,
                                                  !.tracked[copy] = Answered(@, m)]
      /\ main' = [main EXCEPT !.down[c] = Tail(@)]
  BY DEF Deliver
<1>3. 1 \in DOMAIN box /\ m = box[1] /\ m \in Messages
  BY <1>1, BoxTaken
<1>4. /\ m.k = "read" => HolderOf[m.copy] = c /\ c \in main.listeners
      /\ m.k = "res" => c \in Processes
      /\ own # None => HolderOf[own] = c
  BY <1>3 DEF Listening
<1>5. c \in Processes => copy \in Copies /\ HolderOf[copy] = c
  <2>1. c \in Processes => \E o \in Copies : HolderOf[o] = c
    OBVIOUS
  <2>. QED BY <2>1, Zenon
<1>6. /\ main'.down[c] = Tail(box)
      /\ \A d \in Clients : d # c => main'.down[d] = main.down[d]
      /\ main'.queue = main.queue /\ main'.value = main.value
      /\ main'.loaded = main.loaded /\ main'.writing = main.writing
      /\ main'.listeners = main.listeners
  BY <1>1, <1>2 DEF Main
<1> HIDE DEF m, own, copy
<1>7. CASE m.k = "read"
  <2>1. client' = [client EXCEPT !.stage[m.copy] = "open", !.applier[c] = m.copy,
                                 !.tracked[m.copy] = m.doc]
    BY <1>2, <1>7
  <2>2. m.copy \in Copies
    BY <1>3, <1>7 DEF Messages
  <2>3. /\ client'.stage = [client.stage EXCEPT ![m.copy] = "open"]
        /\ client'.applier = [client.applier EXCEPT ![c] = m.copy]
        /\ client'.tracked = [client.tracked EXCEPT ![m.copy] = m.doc]
    BY <1>1, <2>1 DEF Client
  <2>4. /\ client.stage \in [Copies -> {"closed", "opening", "open"}]
        /\ client.applier \in [Clients -> Copies \union {None}]
        /\ client.tracked \in [Copies -> Docs]
    BY <1>1 DEF Client
  <2>. QED BY <1>4, <1>6, <1>7, <2>2, <2>3, <2>4 DEF m
<1>8. CASE m.k = "changed"
  <2>1. CASE own = None
    <3>1. client' = client
      BY <1>2, <1>8, <2>1
    <3>. QED BY <1>6, <1>8, <2>1, <3>1 DEF m, own
  <2>2. CASE own # None
    <3>1. client' = [client EXCEPT !.tracked[own] = m.doc]
      BY <1>2, <1>8, <2>2 DEF Replaced
    <3>2. /\ client'.stage = client.stage /\ client'.applier = client.applier
          /\ client'.tracked = [client.tracked EXCEPT ![own] = m.doc]
          /\ client.tracked \in [Copies -> Docs]
      BY <1>1, <3>1 DEF Client
    <3>3. own \in Copies /\ HolderOf[own] = c /\ client'.tracked[own] = m.doc
      BY <1>1, <1>4, <2>2, <3>2
    <3>4. \A o \in Copies : HolderOf[o] # c => client'.tracked[o] = client.tracked[o]
      BY <3>2, <3>3
    <3>. QED BY <1>6, <1>8, <3>2, <3>3, <3>4 DEF m, own
  <2>. QED BY <2>1, <2>2
<1>9. CASE m.k = "res"
  <2>1. client' = [client EXCEPT !.waiting[c] = @ - 1, !.tracked[copy] = Answered(@, m)]
    BY <1>2, <1>9
  <2>2. c \in Processes /\ copy \in Copies /\ HolderOf[copy] = c
    BY <1>4, <1>5, <1>9
  <2>3. /\ client'.stage = client.stage /\ client'.applier = client.applier
        /\ client'.tracked = [client.tracked EXCEPT ![copy] = Answered(@, m)]
        /\ client.tracked \in [Copies -> Docs]
    BY <1>1, <2>1 DEF Client
  <2>4. client'.tracked[copy] = IF m.ok THEN m.doc ELSE client.tracked[copy]
    BY <2>2, <2>3 DEF Answered
  <2>5. \A o \in Copies : HolderOf[o] = c =>
          client'.tracked[o] = IF m.ok THEN m.doc ELSE client.tracked[o]
    BY <2>2, <2>4, OneCopy
  <2>6. \A o \in Copies : HolderOf[o] # c => client'.tracked[o] = client.tracked[o]
    BY <2>2, <2>3
  <2>. QED BY <1>6, <1>9, <2>2, <2>3, <2>5, <2>6 DEF m
<1>. QED BY <1>3, <1>7, <1>8, <1>9 DEF Messages

LEMMA DeliverAgrees ==
  ASSUME StoreInv, AgreeInv, NEW c \in Clients, Deliver(c)
  PROVE  AgreeInv'
<1> DEFINE box == main.down[c]
           m == Head(box)
           own == client.applier[c]
           ReadCase == /\ m.k = "read" /\ HolderOf[m.copy] = c /\ m.copy \in Copies
                       /\ c \in main.listeners
                       /\ client'.applier[c] = m.copy /\ client'.tracked[m.copy] = m.doc
                       /\ client'.stage = [client.stage EXCEPT ![m.copy] = "open"]
           ChangedCase == /\ m.k = "changed" /\ UNCHANGED <<client.stage, client.applier>>
                          /\ \/ /\ own \in Copies /\ HolderOf[own] = c
                                /\ client'.tracked[own] = m.doc
                             \/ own = None /\ UNCHANGED client
           ResCase == /\ m.k = "res" /\ c \in Processes
                      /\ UNCHANGED <<client.stage, client.applier>>
                      /\ \A o \in Copies : HolderOf[o] = c =>
                           client'.tracked[o] = IF m.ok THEN m.doc ELSE client.tracked[o]
<1>1. /\ main \in Main /\ client \in Client /\ box \in Seq(Messages) /\ box # <<>>
      /\ client.stage \in [Copies -> {"closed", "opening", "open"}]
      /\ UNCHANGED <<disk, latest, failed>>
  BY DEF StoreInv, TypeOK, Main, Client, Deliver
<1>2. /\ main'.down[c] = Tail(box)
      /\ \A d \in Clients : d # c => main'.down[d] = main.down[d]
      /\ main'.queue = main.queue /\ main'.value = main.value
      /\ main'.loaded = main.loaded /\ main'.writing = main.writing
      /\ main'.listeners = main.listeners
      /\ \A o \in Copies : HolderOf[o] # c =>
           client'.tracked[o] = client.tracked[o] /\ client'.stage[o] = client.stage[o]
      /\ \A d \in Clients : d # c => client'.applier[d] = client.applier[d]
      /\ ReadCase \/ ChangedCase \/ ResCase
  BY DeliverDoes DEF AgreeInv
<1>3. /\ 1 \in DOMAIN box /\ m = box[1] /\ m \in Messages
      /\ \A i \in DOMAIN Tail(box) : \E j \in DOMAIN box : Tail(box)[i] = box[j]
  BY <1>1, BoxTaken
<1> HIDE DEF box, m, own
<1>4. Current(main)' = Current(main)
  BY <1>1, <1>2 DEF Current
<1>5. MemoryInv' /\ SomeoneIsRight'
  BY <1>1, <1>2, <1>4 DEF AgreeInv, MemoryInv, SomeoneIsRight, First
<1>6. Listening'
  <2>1. \A i \in DOMAIN main'.queue :
          main'.queue[i].kind = "read" => /\ main'.queue[i].from = HolderOf[main'.queue[i].copy]
                                          /\ main'.queue[i].from \in main'.listeners
    BY <1>2 DEF AgreeInv, Listening
  <2>2. \A d \in Clients : \A i \in DOMAIN main'.down[d] :
          \E j \in DOMAIN main.down[d] : main'.down[d][i] = main.down[d][j]
    <3>1. \A i \in DOMAIN main'.down[c] :
            \E j \in DOMAIN main.down[c] : main'.down[c][i] = main.down[c][j]
      BY <1>2, <1>3 DEF box
    <3>2. \A d \in Clients : d # c => main'.down[d] = main.down[d]
      BY <1>2
    <3>. QED BY ONLY <3>1, <3>2
  <2>3. \A d \in Clients : \A i \in DOMAIN main'.down[d] :
          /\ main'.down[d][i].k = "read" => /\ HolderOf[main'.down[d][i].copy] = d
                                            /\ d \in main'.listeners
          /\ main'.down[d][i].k = "res" => d \in Processes
    BY <1>2, <2>2 DEF AgreeInv, Listening
  <2>4. \A o \in Copies : client'.stage[o] = "open" =>
          HolderOf[o] \in main'.listeners /\ client'.applier[HolderOf[o]] # None
    <3>1. CASE ReadCase
      BY <1>1, <1>2, <3>1 DEF AgreeInv, Listening
    <3>2. CASE ChangedCase \/ ResCase
      BY <1>2, <3>2 DEF AgreeInv, Listening
    <3>. QED BY <1>2, <3>1, <3>2
  <2>5. \A d \in Clients : client'.applier[d] # None => HolderOf[client'.applier[d]] = d
    BY <1>2 DEF AgreeInv, Listening
  <2>. QED BY <2>1, <2>3, <2>4, <2>5 DEF Listening
<1>7. ASSUME NEW o \in Copies, HolderOf[o] \in Processes, Knows(o)', ~ failed', ~ main'.writing
      PROVE  LastWord(main'.down[HolderOf[o]], Brings, client'.tracked[o], Current(main)')
  <2>1. CASE HolderOf[o] # c
    <3>1. HolderOf[o] \in Clients
      BY StoreTypes
    <3>2. /\ main'.down[HolderOf[o]] = main.down[HolderOf[o]]
          /\ client'.tracked[o] = client.tracked[o] /\ client'.stage[o] = client.stage[o]
      BY <1>2, <2>1, <3>1
    <3>3. Knows(o)
      BY <1>7, <3>2 DEF Knows
    <3>. QED BY <1>1, <1>2, <1>4, <1>7, <3>2, <3>3 DEF AgreeInv, ProcessesInformed
  <2>2. CASE HolderOf[o] = c
    <3>1. c \in Processes
      BY <1>7, <2>2
    <3>2. Knows(o) => LastWord(box, Brings, client.tracked[o], Current(main))
      BY <1>1, <1>2, <1>7, <2>2 DEF AgreeInv, ProcessesInformed, box
    <3>3. Brings[m] = IF m.k # "res" \/ m.ok THEN {m.doc} ELSE {}
      BY <1>3 DEF Brings
    <3>4. m = Head(box)
      BY DEF m
    <3>5. ASSUME NEW doc, Knows(o),
                 Brings[m] = {doc} \/ (Brings[m] = {} /\ doc = client.tracked[o])
          PROVE  LastWord(main'.down[HolderOf[o]], Brings, doc, Current(main)')
      <4>1. PICK before : before = client.tracked[o]
        OBVIOUS
      <4>2. PICK v : v = Current(main)
        OBVIOUS
      <4>3. LastWord(box, Brings, before, v)
        BY <3>2, <3>5, <4>1, <4>2
      <4>4. Brings[Head(box)] = {doc} \/ (Brings[Head(box)] = {} /\ doc = before)
        BY <3>4, <3>5, <4>1
      <4>5. LastWord(Tail(box), Brings, doc, v)
        BY ONLY <1>1, <4>3, <4>4, LastWordTaken
      <4>. QED BY <1>2, <1>4, <2>2, <4>2, <4>5
    <3>6. client.stage[o] = "open" => Knows(o)
      BY DEF Knows
    <3>7. (\E i \in DOMAIN Tail(box) : Tail(box)[i].k = "read") => Knows(o)
      BY <1>3, <2>2 DEF Knows, box
    <3>8. client'.stage[o] = "open" \/ \E i \in DOMAIN Tail(box) : Tail(box)[i].k = "read"
      BY <1>2, <1>7, <2>2 DEF Knows
    <3>9. CASE ReadCase
      <4>1. m.copy = o
        BY <2>2, <3>1, <3>9, OneCopy
      <4>2. Knows(o)
        BY <1>3, <2>2, <3>9 DEF Knows, box
      <4>3. client'.tracked[o] = m.doc /\ Brings[m] = {m.doc}
        BY <3>3, <3>9, <4>1
      <4>. QED BY <3>5, <4>2, <4>3
    <3>10. CASE ResCase
      <4>1. client'.tracked[o] = IF m.ok THEN m.doc ELSE client.tracked[o]
        BY <2>2, <3>10
      <4>2. Knows(o)
        BY <3>10, <3>6, <3>7, <3>8
      <4>3. Brings[m] = {client'.tracked[o]} \/ (Brings[m] = {} /\ client'.tracked[o] = client.tracked[o])
        BY <3>3, <3>10, <4>1
      <4>. QED BY <3>5, <4>2, <4>3
    <3>11. CASE ChangedCase
      <4>1. Knows(o)
        BY <3>11, <3>6, <3>7, <3>8
      <4>2. Brings[m] = {m.doc}
        BY <3>3, <3>11
      <4>3. LastWord(main'.down[HolderOf[o]], Brings, m.doc, Current(main)')
        BY <3>5, <4>1, <4>2
      <4>4. CASE client'.tracked[o] = m.doc
        BY <4>3, <4>4
      <4>5. CASE own = None
        <5>1. client'.stage[o] # "open"
          BY <2>2, <3>11, <4>5 DEF AgreeInv, Listening, own
        <5>2. \E i \in DOMAIN Tail(box) : Tail(box)[i].k = "read"
          BY <3>8, <5>1
        <5>3. \E i \in DOMAIN main'.down[HolderOf[o]] : Brings[main'.down[HolderOf[o]][i]] # {}
          <6>1. PICK i \in DOMAIN Tail(box) : Tail(box)[i].k = "read"
            BY <5>2
          <6>2. Tail(box)[i] \in Messages
            BY <1>1, <1>3, <6>1
          <6>3. Brings[Tail(box)[i]] = {Tail(box)[i].doc}
            BY <6>1, <6>2 DEF Brings
          <6>. QED BY <1>2, <2>2, <6>1, <6>3
        <5>. QED BY <4>3, <5>3, LastWordSaid
      <4>6. CASE own \in Copies /\ HolderOf[own] = c /\ client'.tracked[own] = m.doc
        <5>1. own = o
          BY <2>2, <3>1, <4>6, OneCopy
        <5>. QED BY <4>4, <4>6, <5>1
      <4>. QED BY <3>11, <4>5, <4>6
    <3>. QED BY <1>2, <3>9, <3>10, <3>11
  <2>. QED BY <2>1, <2>2
<1>8. ProcessesInformed'
  BY <1>7 DEF ProcessesInformed
<1>. QED BY <1>5, <1>6, <1>8 DEF AgreeInv

(* The operation that is over has done what it said.                          *)
LEMMA ServedSays ==
  ASSUME StoreInv, SomeoneIsRight, main.queue # <<>>, main'.queue = Tail(main.queue),
         UNCHANGED latest,
         \A k \in Keys :
           \/ Makes(k)[First] = {Current(main)'[k]}
           \/ Makes(k)[First] = {} /\ Current(main)'[k] = Current(main)[k]
  PROVE  SomeoneIsRight'
<1>1. ASSUME NEW k \in Keys, \E c \in Clients : latest[c][k] # Untouched
      PROVE  \E c \in Clients :
               LastWord(Tail(main.queue), Makes(k), Current(main)'[k], latest[c][k])
  <2>1. PICK c \in Clients : LastWord(main.queue, Makes(k), Current(main)[k], latest[c][k])
    BY <1>1 DEF SomeoneIsRight
  <2>2. PICK says : says = Makes(k)
    OBVIOUS
  <2>3. PICK before : before = Current(main)[k]
    OBVIOUS
  <2>4. PICK after : after = Current(main)'[k]
    OBVIOUS
  <2>5. PICK v : v = latest[c][k]
    OBVIOUS
  <2>6. LastWord(main.queue, says, before, v)
    BY <2>1, <2>2, <2>3, <2>5
  <2>7. says[Head(main.queue)] = {after} \/ (says[Head(main.queue)] = {} /\ after = before)
    BY <2>2, <2>3, <2>4 DEF First
  <2>8. main.queue \in Seq(Operations) /\ main.queue # <<>>
    BY StoreTypes
  <2>9. LastWord(Tail(main.queue), says, after, v)
    BY ONLY <2>6, <2>7, <2>8, LastWordTaken
  <2>. QED BY <2>2, <2>4, <2>5, <2>9
<1>. QED BY <1>1 DEF SomeoneIsRight

(* What the authority sends is for those who listen.                          *)
LEMMA AuthorityListens ==
  ASSUME Listening, UNCHANGED client, main'.listeners = main.listeners,
         \A i \in DOMAIN main'.queue : \E j \in DOMAIN main.queue :
           main'.queue[i] = main.queue[j],
         \A c \in Clients : \A i \in DOMAIN main'.down[c] :
           \/ \E j \in DOMAIN main.down[c] : main'.down[c][i] = main.down[c][j]
           \/ /\ main'.down[c][i].k = "read" => /\ HolderOf[main'.down[c][i].copy] = c
                                                /\ c \in main.listeners
              /\ main'.down[c][i].k = "res" => c \in Processes
  PROVE  Listening'
<1>1. \A c \in Clients : \A i \in DOMAIN main'.down[c] :
        /\ main'.down[c][i].k = "read" => /\ HolderOf[main'.down[c][i].copy] = c
                                          /\ c \in main'.listeners
        /\ main'.down[c][i].k = "res" => c \in Processes
  BY DEF Listening
<1>2. \A i \in DOMAIN main'.queue :
        main'.queue[i].kind = "read" => /\ main'.queue[i].from = HolderOf[main'.queue[i].copy]
                                        /\ main'.queue[i].from \in main'.listeners
  BY DEF Listening
<1>. QED BY <1>1, <1>2 DEF Listening

LEMMA QueueTaken ==
  ASSUME StoreInv, main.queue # <<>>
  PROVE  /\ 1 \in DOMAIN main.queue /\ First = main.queue[1] /\ First \in Operations
         /\ First.from \in Clients
         /\ \A i \in DOMAIN Tail(main.queue) : \E j \in DOMAIN main.queue :
              Tail(main.queue)[i] = main.queue[j]
<1> DEFINE q == main.queue
<1>1. q \in Seq(Operations)
  BY StoreTypes
<1>2. /\ Head(q) = q[1] /\ Len(q) \in Nat /\ Len(q) >= 1
      /\ DOMAIN q = 1..Len(q) /\ DOMAIN Tail(q) = 1..(Len(q) - 1)
      /\ \A i \in 1..(Len(q) - 1) : Tail(q)[i] = q[i + 1]
  BY <1>1, Taken
<1> HIDE DEF q
<1>3. \A i \in DOMAIN Tail(q) : i + 1 \in DOMAIN q /\ Tail(q)[i] = q[i + 1]
  BY <1>2
<1>4. 1 \in DOMAIN q
  BY <1>2
<1>5. First \in Operations
  BY FirstTypes DEF StoreInv
<1>6. First.from \in Clients
  BY <1>5 DEF Operations
<1>. QED BY <1>2, <1>3, <1>4, <1>5, <1>6 DEF q, First

LEMMA BoxAppended ==
  ASSUME NEW box \in Seq(Messages), NEW m \in Messages, NEW more, more = Append(box, m)
  PROVE  \A i \in DOMAIN more : (\E j \in DOMAIN box : more[i] = box[j]) \/ more[i] = m
<1>1. \A i \in DOMAIN Append(box, m) :
        (i \in DOMAIN box /\ Append(box, m)[i] = box[i]) \/ Append(box, m)[i] = m
  BY Appended
<1>. QED BY <1>1

LEMMA ReadAgrees == ASSUME StoreInv, AgreeInv, Read PROVE AgreeInv'
<1> DEFINE c == First.from
           reply == [k |-> "read", copy |-> First.copy, doc |-> Current(main)]
<1>1. /\ main \in Main /\ main.queue # <<>> /\ First.kind = "read"
      /\ main' = Done([main EXCEPT !.value = Current(main), !.loaded = TRUE,
                                   !.down[c] = Append(@, reply)])
      /\ UNCHANGED <<client, disk, acknowledged, latest, failed, events>>
      /\ main.down \in [Clients -> Seq(Messages)]
  BY DEF Read, StoreInv, TypeOK, Main
<1>2. /\ 1 \in DOMAIN main.queue /\ First = main.queue[1] /\ First \in Operations
      /\ c \in Clients
      /\ \A i \in DOMAIN Tail(main.queue) : \E j \in DOMAIN main.queue :
           Tail(main.queue)[i] = main.queue[j]
  BY <1>1, QueueTaken
<1>3. ~ main.writing /\ c = HolderOf[First.copy] /\ c \in main.listeners
  BY <1>1, <1>2 DEF AgreeInv, MemoryInv, Listening
<1>4. reply \in Messages
  <2>1. First.copy \in Copies /\ Current(main) \in Docs
    BY <1>1, <1>2, FirstTypes DEF StoreInv, Operations
  <2>. QED BY <2>1 DEF Messages
<1>5. reply.k = "read" /\ reply.copy = First.copy /\ reply.doc = Current(main)
  OBVIOUS
<1> HIDE DEF reply, c
<1>6. /\ main'.queue = Tail(main.queue) /\ main'.writing = FALSE
      /\ main'.value = Current(main) /\ main'.loaded = TRUE
      /\ main'.listeners = main.listeners
      /\ main'.down[c] = Append(main.down[c], reply)
      /\ \A d \in Clients : d # c => main'.down[d] = main.down[d]
  BY <1>1, <1>2 DEF Done, Main
<1>7. Current(main)' = Current(main)
  BY <1>6 DEF Current
<1>8. MemoryInv'
  <2>1. ~ failed => Current(main) = disk.doc
    BY <1>3 DEF AgreeInv, MemoryInv, Current
  <2>. QED BY <1>1, <1>6, <2>1 DEF MemoryInv
<1>9. SomeoneIsRight'
  <2>1. \A k \in Keys : Makes(k)[First] = {}
    BY <1>1, <1>2 DEF Makes, Touches
  <2>. QED BY <1>1, <1>6, <1>7, <2>1, ServedSays DEF AgreeInv
<1>10. Listening'
  <2>1. \A i \in DOMAIN main'.down[c] :
          \/ \E j \in DOMAIN main.down[c] : main'.down[c][i] = main.down[c][j]
          \/ main'.down[c][i] = reply
    <3>1. main.down[c] \in Seq(Messages)
      BY <1>1, <1>2
    <3>. QED BY <1>4, <1>6, <3>1, BoxAppended
  <2>2. \A d \in Clients : \A i \in DOMAIN main'.down[d] :
           \/ \E j \in DOMAIN main.down[d] : main'.down[d][i] = main.down[d][j]
           \/ d = c /\ main'.down[d][i] = reply
    <3>1. \A d \in Clients : d # c => main'.down[d] = main.down[d]
      BY <1>6
    <3>. QED BY ONLY <2>1, <3>1
  <2>3. \A d \in Clients : \A i \in DOMAIN main'.down[d] :
          \/ \E j \in DOMAIN main.down[d] : main'.down[d][i] = main.down[d][j]
          \/ /\ main'.down[d][i].k = "read" => /\ HolderOf[main'.down[d][i].copy] = d
                                              /\ d \in main.listeners
             /\ main'.down[d][i].k = "res" => d \in Processes
    BY <1>3, <1>5, <2>2
  <2>4. \A i \in DOMAIN main'.queue : \E j \in DOMAIN main.queue :
          main'.queue[i] = main.queue[j]
    BY <1>2, <1>6
  <2>5. UNCHANGED client /\ main'.listeners = main.listeners /\ Listening
    BY <1>1, <1>6 DEF AgreeInv
  <2>. QED BY ONLY <2>3, <2>4, <2>5, AuthorityListens
<1>11. ASSUME NEW o \in Copies, HolderOf[o] \in Processes, Knows(o)', ~ failed'
       PROVE  LastWord(main'.down[HolderOf[o]], Brings, client'.tracked[o], Current(main)')
  <2>1. HolderOf[o] \in Clients
    BY StoreTypes
  <2>2. CASE HolderOf[o] # c
    <3>1. main'.down[HolderOf[o]] = main.down[HolderOf[o]]
      BY <1>6, <2>1, <2>2
    <3>2. Knows(o)
      BY <1>1, <1>11, <3>1 DEF Knows
    <3>. QED BY <1>1, <1>3, <1>7, <1>11, <3>1, <3>2 DEF AgreeInv, ProcessesInformed
  <2>3. CASE HolderOf[o] = c
    <3>1. Brings[reply] = {Current(main)}
      BY <1>4, <1>5 DEF Brings
    <3>2. main.down[c] \in Seq(Messages)
      BY <1>1, <1>2
    <3>3. \A before : LastWord(Append(main.down[c], reply), Brings, before, Current(main))
      BY <1>4, <3>1, <3>2, LastWordAppended
    <3>. QED BY <1>6, <1>7, <2>3, <3>3
  <2>. QED BY <2>2, <2>3
<1>12. ProcessesInformed'
  BY <1>11 DEF ProcessesInformed
<1>. QED BY <1>8, <1>9, <1>10, <1>12 DEF AgreeInv

LEMMA BeginAgrees == ASSUME StoreInv, AgreeInv, Begin PROVE AgreeInv'
<1>1. /\ main \in Main /\ main.queue # <<>> /\ First.kind # "read"
      /\ UNCHANGED <<client, disk, history, events>>
      /\ main' = IF First.kind = "clear"
                   THEN [main EXCEPT !.writing = TRUE, !.value = Empty, !.loaded = FALSE]
                 ELSE [main EXCEPT !.writing = TRUE, !.loaded = TRUE,
                                   !.value = Merged(Current(main), First.changes)]
  BY DEF Begin, StoreInv, TypeOK
<1>2. 1 \in DOMAIN main.queue /\ First = main.queue[1] /\ First \in Operations
  BY <1>1, QueueTaken
<1>3. /\ main'.queue = main.queue /\ main'.down = main.down
      /\ main'.listeners = main.listeners /\ main'.writing = TRUE
      /\ First.kind = "clear" => main'.value = Empty /\ main'.loaded = FALSE
      /\ First.kind = "change" => /\ main'.value = Merged(Current(main), First.changes)
                                  /\ main'.loaded = TRUE
  <2>1. CASE First.kind = "clear"
    BY <1>1, <2>1 DEF Main
  <2>2. CASE First.kind # "clear"
    BY <1>1, <2>2 DEF Main
  <2>. QED BY <2>1, <2>2
<1>4. First' = First
  BY <1>3 DEF First
<1>5. First.kind = "change" => \A k \in DOMAIN First.changes : k \in Keys
  <2>1. First.kind = "change" => First.changes \in Changes
    BY <1>2 DEF Operations
  <2>. QED BY <2>1 DEF Changes
<1>6. First.kind = "change" =>
        \A k \in Keys : main'.value[k] = IF k \in DOMAIN First.changes THEN First.changes[k]
                                         ELSE Current(main)[k]
  BY <1>3 DEF Merged
<1>7. MemoryInv'
  BY <1>1, <1>3, <1>4, <1>5, <1>6 DEF MemoryInv
<1>8. SomeoneIsRight'
  <2>1. ASSUME NEW k \in Keys, \E c \in Clients : latest'[c][k] # Untouched
        PROVE  \E c \in Clients :
                 LastWord(main.queue, Makes(k), Current(main)'[k], latest[c][k])
    <3>1. latest' = latest
      BY <1>1 DEF history
    <3>2. PICK c \in Clients :
            LastWord(main.queue, Makes(k), Current(main)[k], latest[c][k])
      BY <2>1, <3>1 DEF AgreeInv, SomeoneIsRight
    <3>3. CASE Touches(First, k)
      <4>1. \E i \in DOMAIN main.queue : Makes(k)[main.queue[i]] # {}
        BY <1>2, <3>3 DEF Makes
      <4>. QED BY <3>2, <4>1, LastWordSaid
    <3>4. CASE ~ Touches(First, k)
      <4>1. First.kind = "change" /\ k \notin DOMAIN First.changes
        BY <1>1, <1>2, <3>4 DEF Touches, Operations
      <4>2. Current(main)'[k] = Current(main)[k]
        <5>1. Current(main)' = main'.value
          BY <1>3, <4>1 DEF Current
        <5>. QED BY <1>6, <4>1, <5>1
      <4>. QED BY <3>2, <4>2
    <3>. QED BY <3>3, <3>4
  <2>2. latest' = latest
    BY <1>1 DEF history
  <2>. QED BY <1>3, <2>1, <2>2 DEF SomeoneIsRight
<1>9. Listening'
  BY <1>1, <1>3 DEF AgreeInv, Listening
<1>10. ProcessesInformed'
  BY <1>3 DEF ProcessesInformed
<1>. QED BY <1>7, <1>8, <1>9, <1>10 DEF AgreeInv

(* Memory has what the operation under way says.                               *)
LEMMA WrittenSays ==
  ASSUME StoreInv, AgreeInv, main.writing, NEW doc, doc = main.value
  PROVE  \A k \in Keys : \/ Makes(k)[First] = {doc[k]}
                         \/ Makes(k)[First] = {} /\ doc[k] = Current(main)[k]
<1>1. /\ main.queue # <<>> /\ First.kind # "read"
      /\ First.kind = "clear" => main.value = Empty
      /\ First.kind = "change" =>
           main.loaded /\ \A k \in DOMAIN First.changes : main.value[k] = First.changes[k]
  BY DEF AgreeInv, MemoryInv
<1>2. First \in Operations
  BY <1>1, QueueTaken
<1>3. ASSUME NEW k \in Keys
      PROVE  \/ Makes(k)[First] = {doc[k]}
             \/ Makes(k)[First] = {} /\ doc[k] = Current(main)[k]
  <2>1. CASE First.kind = "clear"
    BY <1>1, <1>2, <2>1 DEF Makes, Touches, SetsTo, Empty
  <2>2. CASE First.kind = "change" /\ k \in DOMAIN First.changes
    BY <1>1, <1>2, <2>2 DEF Makes, Touches, SetsTo
  <2>3. CASE First.kind = "change" /\ k \notin DOMAIN First.changes
    BY <1>1, <1>2, <2>3 DEF Makes, Touches, Current
  <2>. QED BY <1>1, <1>2, <2>1, <2>2, <2>3 DEF Operations
<1>. QED BY <1>3

(* A box that gets a message, or none.                                        *)
LEMMA CommitDoes ==
  ASSUME StoreInv, Commit
  PROVE  /\ main'.queue = Tail(main.queue) /\ main'.writing = FALSE
         /\ main'.value = main.value /\ main'.loaded = main.loaded
         /\ main'.listeners = main.listeners /\ main.queue # <<>>
         /\ disk'.doc = main.value
         /\ \A c \in Clients :
              \/ /\ main'.down[c] = main.down[c]
                 /\ c \notin main.listeners \/ (c = First.from /\ c \notin Processes)
              \/ \E m \in Messages : /\ main'.down[c] = Append(main.down[c], m)
                                     /\ Brings[m] = {main.value}
                                     /\ m.k # "read" /\ (m.k = "res" => c \in Processes)
                                     /\ c = First.from => c \in Processes
<1> DEFINE told == Tell(main, First, main.value)
           from == First.from
           changed == [k |-> "changed", doc |-> main.value]
           res == [k |-> "res", ok |-> TRUE, doc |-> main.value, version |-> Written.version]
           boxes == [c \in Clients |-> IF c \in main.listeners \ {from}
                                         THEN Append(main.down[c], changed) ELSE main.down[c]]
<1>1. /\ main \in Main /\ main.queue # <<>> /\ main.value \in Docs /\ disk' = Written
      /\ main' = Done(Answer(told, from, TRUE, main.value, Written.version))
      /\ main.down \in [Clients -> Seq(Messages)]
  BY DEF Commit, StoreInv, TypeOK, WrittenForOne, Main
<1>2. from \in Clients
  BY <1>1, QueueTaken
<1>3. Written.version \in Nat /\ disk'.doc = main.value
  <2>1. Written.version \in Nat
    BY WrittenTypes DEF StoreInv, Disk
  <2>. QED BY <1>1, <2>1 DEF Written
<1>4. changed \in Messages /\ res \in Messages
  BY <1>1, <1>3 DEF Messages
<1>5. Brings[changed] = {main.value} /\ Brings[res] = {main.value}
  BY <1>4 DEF Brings
<1>6. told = [main EXCEPT !.down = boxes]
  BY DEF Tell
<1>7. changed.k = "changed" /\ res.k = "res"
  OBVIOUS
<1> DEFINE answered == IF from \in Processes
                         THEN [boxes EXCEPT ![from] = Append(@, res)] ELSE boxes
<1>8. Answer(told, from, TRUE, main.value, Written.version) = [main EXCEPT !.down = answered]
  <2> HIDE DEF boxes, from
  <2>1. CASE from \in Processes
    <3>1. told.down = boxes
      BY <1>1, <1>6 DEF Main
    <3>2. Answer(told, from, TRUE, main.value, Written.version)
            = [told EXCEPT !.down[from] = Append(@, res)]
      BY <2>1 DEF Answer
    <3> HIDE DEF res
    <3>. QED BY <1>1, <1>6, <2>1, <3>1, <3>2 DEF Main
  <2>2. CASE from \notin Processes
    BY <1>6, <2>2 DEF Answer
  <2>. QED BY <2>1, <2>2
<1>9. /\ main'.queue = Tail(main.queue) /\ main'.writing = FALSE
      /\ main'.value = main.value /\ main'.loaded = main.loaded
      /\ main'.listeners = main.listeners /\ main'.down = answered
  <2> HIDE DEF answered
  <2>. QED BY <1>1, <1>8 DEF Done, Main
<1> HIDE DEF changed, res, from
<1>10. ASSUME NEW c \in Clients
       PROVE  \/ /\ main'.down[c] = main.down[c]
                 /\ c \notin main.listeners \/ (c = First.from /\ c \notin Processes)
              \/ \E m \in Messages : /\ main'.down[c] = Append(main.down[c], m)
                                     /\ Brings[m] = {main.value}
                                     /\ m.k # "read" /\ (m.k = "res" => c \in Processes)
                                     /\ c = First.from => c \in Processes
  <2>1. boxes[c] = IF c \in main.listeners \ {from} THEN Append(main.down[c], changed)
                   ELSE main.down[c]
    OBVIOUS
  <2>2. boxes = [x \in Clients |-> boxes[x]]
    OBVIOUS
  <2> HIDE DEF boxes
  <2>3. answered[c] = IF c = from /\ from \in Processes THEN Append(boxes[c], res) ELSE boxes[c]
    BY <1>2, <2>2
  <2> HIDE DEF answered
  <2>4. CASE c = from /\ from \in Processes
    <3>1. main'.down[c] = Append(main.down[c], res)
      BY <1>9, <2>1, <2>3, <2>4
    <3>. QED BY <1>4, <1>5, <1>7, <2>4, <3>1 DEF from
  <2>5. CASE c # from /\ c \in main.listeners
    <3>1. main'.down[c] = Append(main.down[c], changed)
      BY <1>9, <2>1, <2>3, <2>5
    <3>. QED BY <1>4, <1>5, <1>7, <2>5, <3>1 DEF from
  <2>6. CASE ~ (c = from /\ from \in Processes) /\ ~ (c # from /\ c \in main.listeners)
    <3>1. main'.down[c] = main.down[c]
      BY <1>9, <2>1, <2>3, <2>6
    <3>. QED BY <2>6, <3>1 DEF from
  <2>. QED BY <2>4, <2>5, <2>6
<1>. QED BY <1>1, <1>3, <1>9, <1>10 DEF from

LEMMA CommitAgrees == ASSUME StoreInv, AgreeInv, Commit PROVE AgreeInv'
<1>1. /\ main.writing /\ failed' = FALSE /\ UNCHANGED <<client, latest>>
      /\ main.down \in [Clients -> Seq(Messages)]
  BY DEF Commit, StoreInv, TypeOK, Main
<1>2. /\ main'.queue = Tail(main.queue) /\ main'.writing = FALSE
      /\ main'.value = main.value /\ main'.loaded = main.loaded
      /\ main'.listeners = main.listeners /\ main.queue # <<>>
      /\ disk'.doc = main.value
      /\ \A c \in Clients :
           \/ /\ main'.down[c] = main.down[c]
              /\ c \notin main.listeners \/ (c = First.from /\ c \notin Processes)
           \/ \E m \in Messages : /\ main'.down[c] = Append(main.down[c], m)
                                  /\ Brings[m] = {main.value}
                                  /\ m.k # "read" /\ (m.k = "res" => c \in Processes)
                                  /\ c = First.from => c \in Processes
  BY CommitDoes
<1>3. Current(main)' = main.value
  BY <1>2 DEF Current
<1>4. MemoryInv'
  BY <1>2 DEF MemoryInv
<1>5. SomeoneIsRight'
  <2>1. \A k \in Keys :
          \/ Makes(k)[First] = {Current(main)'[k]}
          \/ Makes(k)[First] = {} /\ Current(main)'[k] = Current(main)[k]
    BY <1>1, <1>3, WrittenSays
  <2>. QED BY <1>1, <1>2, <2>1, ServedSays DEF AgreeInv
<1>6. Listening'
  <2>1. \A i \in DOMAIN main'.queue : \E j \in DOMAIN main.queue :
          main'.queue[i] = main.queue[j]
    BY <1>2, QueueTaken
  <2>2. ASSUME NEW c \in Clients, NEW i \in DOMAIN main'.down[c]
        PROVE  \/ \E j \in DOMAIN main.down[c] : main'.down[c][i] = main.down[c][j]
               \/ /\ main'.down[c][i].k = "read" => /\ HolderOf[main'.down[c][i].copy] = c
                                                    /\ c \in main.listeners
                  /\ main'.down[c][i].k = "res" => c \in Processes
    <3>1. CASE main'.down[c] = main.down[c]
      BY <2>2, <3>1
    <3>2. ASSUME NEW m \in Messages, main'.down[c] = Append(main.down[c], m),
                 m.k # "read", m.k = "res" => c \in Processes
          PROVE  \/ \E j \in DOMAIN main.down[c] : main'.down[c][i] = main.down[c][j]
                 \/ /\ main'.down[c][i].k # "read"
                    /\ main'.down[c][i].k = "res" => c \in Processes
      <4>1. main.down[c] \in Seq(Messages)
        BY <1>1
      <4>2. \A j \in DOMAIN main'.down[c] :
              (\E x \in DOMAIN main.down[c] : main'.down[c][j] = main.down[c][x])
                \/ main'.down[c][j] = m
        BY <3>2, <4>1, BoxAppended
      <4>. QED BY <2>2, <3>2, <4>2
    <3>. QED BY <1>2, <3>1, <3>2
  <2>3. UNCHANGED client /\ main'.listeners = main.listeners /\ Listening
    BY <1>1, <1>2 DEF AgreeInv
  <2>. QED BY ONLY <2>1, <2>2, <2>3, AuthorityListens
<1>7. ASSUME NEW o \in Copies, HolderOf[o] \in Processes, Knows(o)'
      PROVE  LastWord(main'.down[HolderOf[o]], Brings, client'.tracked[o], Current(main)')
  <2>1. HolderOf[o] \in Clients
    BY StoreTypes
  <2>2. HolderOf[o] \in main.listeners
    <3>1. CASE client'.stage[o] = "open"
      BY <1>2, <1>6, <3>1 DEF Listening
    <3>2. CASE \E i \in DOMAIN main'.down[HolderOf[o]] : main'.down[HolderOf[o]][i].k = "read"
      BY <1>2, <1>6, <2>1, <3>2 DEF Listening
    <3>. QED BY <1>7, <3>1, <3>2 DEF Knows
  <2>3. PICK m \in Messages : /\ main'.down[HolderOf[o]] = Append(main.down[HolderOf[o]], m)
                              /\ Brings[m] = {main.value}
    BY <1>2, <1>7, <2>1, <2>2
  <2>4. main.down[HolderOf[o]] \in Seq(Messages)
    BY <1>1, <2>1
  <2>5. \A before : LastWord(Append(main.down[HolderOf[o]], m), Brings, before, main.value)
    BY <2>3, <2>4, LastWordAppended
  <2>. QED BY <1>3, <2>3, <2>5
<1>8. ProcessesInformed'
  BY <1>7 DEF ProcessesInformed
<1>. QED BY <1>4, <1>5, <1>6, <1>8 DEF AgreeInv

LEMMA FailDoes ==
  ASSUME StoreInv, Fail
  PROVE  /\ main'.queue = Tail(main.queue) /\ main'.writing = FALSE
         /\ main'.value = main.value /\ main'.loaded = main.loaded
         /\ main'.listeners = main.listeners /\ main.queue # <<>>
         /\ \A c \in Clients :
              \/ main'.down[c] = main.down[c]
              \/ \E m \in Messages : /\ main'.down[c] = Append(main.down[c], m)
                                     /\ m.k = "res" /\ c \in Processes
<1> DEFINE from == First.from
           res == [k |-> "res", ok |-> FALSE, doc |-> main.value, version |-> 0]
<1>1. /\ main \in Main /\ main.queue # <<>> /\ main.value \in Docs
      /\ main' = Done(Answer(main, from, FALSE, main.value, 0))
      /\ main.down \in [Clients -> Seq(Messages)]
  BY DEF Fail, DoneInError, StoreInv, TypeOK, WrittenForOne, Main
<1>2. from \in Clients
  BY <1>1, QueueTaken
<1>3. res \in Messages /\ res.k = "res"
  BY <1>1 DEF Messages
<1>4. CASE from \notin Processes
  <2>1. main' = Done(main)
    BY <1>1, <1>4 DEF Answer
  <2>. QED BY <1>1, <2>1 DEF Done, Main
<1>5. CASE from \in Processes
  <2>1. main' = Done([main EXCEPT !.down[from] = Append(@, res)])
    BY <1>1, <1>5 DEF Answer
  <2> HIDE DEF res, from
  <2>2. /\ main'.queue = Tail(main.queue) /\ main'.writing = FALSE
        /\ main'.value = main.value /\ main'.loaded = main.loaded
        /\ main'.listeners = main.listeners
        /\ main'.down = [main.down EXCEPT ![from] = Append(@, res)]
    BY <1>1, <2>1 DEF Done, Main
  <2>3. /\ main'.down[from] = Append(main.down[from], res)
        /\ \A c \in Clients : c # from => main'.down[c] = main.down[c]
    BY <1>1, <1>2, <2>2
  <2>4. \A c \in Clients :
          \/ main'.down[c] = main.down[c]
          \/ \E m \in Messages : /\ main'.down[c] = Append(main.down[c], m)
                                 /\ m.k = "res" /\ c \in Processes
    BY <1>3, <1>5, <2>3
  <2>. QED BY <1>1, <2>2, <2>4
<1>. QED BY <1>4, <1>5

LEMMA FailAgrees == ASSUME StoreInv, AgreeInv, Fail PROVE AgreeInv'
<1>1. /\ main.writing /\ First.kind = "change" /\ failed' = TRUE
      /\ UNCHANGED <<client, disk, latest>>
      /\ main.down \in [Clients -> Seq(Messages)]
  BY DEF Fail, StoreInv, TypeOK, Main
<1>2. /\ main'.queue = Tail(main.queue) /\ main'.writing = FALSE
      /\ main'.value = main.value /\ main'.loaded = main.loaded
      /\ main'.listeners = main.listeners /\ main.queue # <<>>
      /\ \A c \in Clients :
           \/ main'.down[c] = main.down[c]
           \/ \E m \in Messages : /\ main'.down[c] = Append(main.down[c], m)
                                  /\ m.k = "res" /\ c \in Processes
  BY FailDoes
<1>3. Current(main)' = main.value
  BY <1>1, <1>2 DEF AgreeInv, MemoryInv, Current
<1>4. MemoryInv' /\ ProcessesInformed'
  BY <1>1, <1>2 DEF MemoryInv, ProcessesInformed
<1>5. SomeoneIsRight'
  <2>1. \A k \in Keys :
          \/ Makes(k)[First] = {Current(main)'[k]}
          \/ Makes(k)[First] = {} /\ Current(main)'[k] = Current(main)[k]
    BY <1>1, <1>3, WrittenSays
  <2>. QED BY <1>1, <1>2, <2>1, ServedSays DEF AgreeInv
<1>6. Listening'
  <2>1. \A i \in DOMAIN main'.queue : \E j \in DOMAIN main.queue :
          main'.queue[i] = main.queue[j]
    BY <1>2, QueueTaken
  <2>2. ASSUME NEW c \in Clients, NEW i \in DOMAIN main'.down[c]
        PROVE  \/ \E j \in DOMAIN main.down[c] : main'.down[c][i] = main.down[c][j]
               \/ /\ main'.down[c][i].k = "read" => /\ HolderOf[main'.down[c][i].copy] = c
                                                    /\ c \in main.listeners
                  /\ main'.down[c][i].k = "res" => c \in Processes
    <3>1. CASE main'.down[c] = main.down[c]
      BY <2>2, <3>1
    <3>2. ASSUME NEW m \in Messages, main'.down[c] = Append(main.down[c], m),
                 m.k = "res" /\ c \in Processes
          PROVE  \/ \E j \in DOMAIN main.down[c] : main'.down[c][i] = main.down[c][j]
                 \/ main'.down[c][i].k = "res" /\ c \in Processes
      <4>1. main.down[c] \in Seq(Messages)
        BY <1>1
      <4>2. \A j \in DOMAIN main'.down[c] :
              (\E x \in DOMAIN main.down[c] : main'.down[c][j] = main.down[c][x])
                \/ main'.down[c][j] = m
        BY <3>2, <4>1, BoxAppended
      <4>. QED BY <2>2, <3>2, <4>2
    <3>. QED BY <1>2, <3>1, <3>2
  <2>3. UNCHANGED client /\ main'.listeners = main.listeners /\ Listening
    BY <1>1, <1>2 DEF AgreeInv
  <2>. QED BY ONLY <2>1, <2>2, <2>3, AuthorityListens
<1>. QED BY <1>4, <1>5, <1>6 DEF AgreeInv

LEMMA CrashAgrees == ASSUME StoreInv, AgreeInv, Crash PROVE AgreeInv'
<1>1. main' = NoMain /\ client' = NoClient /\ latest' = NoEdits
  BY DEF Crash
<1>2. /\ main'.queue = <<>> /\ main'.writing = FALSE /\ main'.loaded = FALSE
      /\ \A c \in Clients : main'.down[c] = <<>>
      /\ \A o \in Copies : client'.stage[o] = "closed"
      /\ \A c \in Clients : client'.applier[c] = None
  BY <1>1 DEF NoMain, NoClient
<1>3. DOMAIN <<>> = {}
  OBVIOUS
<1>4. MemoryInv'
  BY <1>2 DEF MemoryInv
<1>5. SomeoneIsRight'
  BY <1>1 DEF NoEdits, SomeoneIsRight
<1>6. Listening'
  BY <1>2, <1>3 DEF Listening
<1>7. ProcessesInformed'
  <2>1. \A o \in Copies : HolderOf[o] \in Clients
    BY StoreTypes
  <2>. QED BY <1>2, <1>3, <2>1 DEF ProcessesInformed, Knows
<1>. QED BY <1>4, <1>5, <1>6, <1>7 DEF AgreeInv

\* Whatever clients send, the authority answers and the application survives:
\* somebody's last word on a key is the authority's or comes, and a process that has
\* the document, or is about to, is told of every later value.
THEOREM Agreement == Spec => []AgreeInv
<1>1. StoreInv /\ AgreeInv /\ [Next]_vars => AgreeInv'
  <2>. SUFFICES ASSUME StoreInv, AgreeInv, [Next]_vars PROVE AgreeInv'
    OBVIOUS
  <2>1. CASE Read \/ Begin
    BY <2>1, ReadAgrees, BeginAgrees
  <2>2. CASE Commit \/ Fail \/ Crash
    BY <2>2, CommitAgrees, FailAgrees, CrashAgrees
  <2>3. ASSUME NEW o \in Copies, Open(o) \/ \E k \in Keys : Edit(o, k) PROVE AgreeInv'
    BY <2>3, OpenAgrees, EditAgrees
  <2>4. ASSUME NEW p \in Processes, NEW ks \in (SUBSET Keys) \ {{}}, Update(p, ks)
        PROVE  AgreeInv'
    BY <2>4, UpdateAgrees
  <2>5. ASSUME NEW c \in Clients, Clear(c) \/ Deliver(c) PROVE AgreeInv'
    BY <2>5, ClearAgrees, DeliverAgrees
  <2>6. CASE UNCHANGED vars
    <3>1. UNCHANGED <<client, main, disk, latest, failed>>
      BY <2>6 DEF vars, history
    <3>. QED BY <3>1 DEF AgreeInv, MemoryInv, SomeoneIsRight, Listening,
                         ProcessesInformed, Knows, Current, First
  <2>. QED BY <2>1, <2>2, <2>3, <2>4, <2>5, <2>6 DEF Next
<1>. QED BY <1>1, AgreeStarts, StoreInductive, PTL DEF Spec

\* No edit is lost to an edit of another key, whoever the clients are and however
\* many: once the queue is empty and the last write succeeded, the file has for a key
\* what one of those who touched it last made of it.
THEOREM EveryEditSurvives == Spec => []EditsSurvive
<1>1. AgreeInv => EditsSurvive
  <2>. SUFFICES ASSUME AgreeInv, Idle, ~ failed, NEW k \in Keys,
                       \E c \in Clients : latest[c][k] # Untouched
                PROVE  \E c \in Clients : disk.doc[k] = latest[c][k]
    BY DEF EditsSurvive
  <2>1. main.queue = <<>> /\ DOMAIN main.queue = {}
    BY DEF Idle
  <2>2. Current(main) = disk.doc
    BY <2>1 DEF AgreeInv, MemoryInv, Current
  <2>3. PICK c \in Clients : LastWord(main.queue, Makes(k), Current(main)[k], latest[c][k])
    BY DEF AgreeInv, SomeoneIsRight
  <2>4. Current(main)[k] = latest[c][k]
    BY <2>1, <2>3 DEF LastWord
  <2>. QED BY <2>2, <2>4
<1>. QED BY <1>1, Agreement, PTL

\* An orchestrator process has the document of the authority when everything is
\* delivered, whatever it changed while others did: the proxy takes what the authority
\* answers, and every value reaches it as an answer or as an update.
THEOREM ProcessesHaveIt == Spec => []ProcessesAgree
<1>1. AgreeInv => ProcessesAgree
  <2>. SUFFICES ASSUME AgreeInv, NEW o \in Copies, HolderOf[o] \in Processes,
                       client.stage[o] = "open", Idle, main.down[HolderOf[o]] = <<>>,
                       ~ failed
                PROVE  client.tracked[o] = Current(main)
    BY DEF ProcessesAgree
  <2>1. ~ main.writing
    BY DEF AgreeInv, MemoryInv, Idle
  <2>2. LastWord(main.down[HolderOf[o]], Brings, client.tracked[o], Current(main))
    BY <2>1 DEF AgreeInv, ProcessesInformed, Knows
  <2>3. DOMAIN main.down[HolderOf[o]] = {}
    OBVIOUS
  <2>. QED BY <2>2, <2>3 DEF LastWord
<1>. QED BY <1>1, Agreement, PTL
-----------------------------------------------------------------------------
(* What windows know.  A window applies its edits itself and is not told of them, so   *)
(* the argument looks at what is on the way to it and at whose operations are queued.  *)
(* With an update on the way, the last one brings what the authority has, and nothing  *)
(* of the window's own is queued.  With none, and nobody else's operation queued, the  *)
(* window shows what the authority will have.  Otherwise somebody else's operation is  *)
(* queued, of which it will be told.                                                   *)

\* An operation of w that is not a read is queued, or somebody else's.
Own(q, w) == \E i \in DOMAIN q : q[i].kind # "read" /\ q[i].from = w
Foreign(q, w) == \E i \in DOMAIN q : q[i].kind # "read" /\ q[i].from # w

Tells(q, box, writing, current, shown, w) ==
  /\ box # <<>> => ~ Own(q, w) /\ (~ writing => box[Len(box)].doc = current)
  /\ box = <<>> /\ ~ Foreign(q, w) =>
       \A k \in Keys : LastWord(q, Makes(k), current[k], shown[k])

Informed(o) ==
  LET w == HolderOf[o] IN
  w \in Windows \ behind /\ Knows(o) =>
    Tells(main.queue, main.down[w], main.writing, Current(main), client.tracked[o], w)

\* Store.open() is called once for the document in a window.
OpenedOnce ==
  \A o, x \in Copies : HolderOf[o] \in Windows /\ HolderOf[o] = HolderOf[x] => o = x

(* Whose operations are queued, after one more and after one less.             *)
LEMMA QueuedBy ==
  ASSUME NEW q \in Seq(Operations), NEW op \in Operations, NEW w
  PROVE  /\ Own(Append(q, op), w) <=> Own(q, w) \/ (op.kind # "read" /\ op.from = w)
         /\ Foreign(Append(q, op), w) <=> Foreign(q, w) \/ (op.kind # "read" /\ op.from # w)
<1> DEFINE r == Append(q, op)
<1>1. /\ \A i \in DOMAIN q : i \in DOMAIN r /\ r[i] = q[i]
      /\ Len(q) + 1 \in DOMAIN r /\ r[Len(q) + 1] = op
      /\ \A i \in DOMAIN r : i \in DOMAIN q \/ i = Len(q) + 1
  BY Appended
<1> HIDE DEF r
<1>2. Own(r, w) <=> Own(q, w) \/ (op.kind # "read" /\ op.from = w)
  BY <1>1 DEF Own
<1>3. Foreign(r, w) <=> Foreign(q, w) \/ (op.kind # "read" /\ op.from # w)
  BY <1>1 DEF Foreign
<1> QED
  BY <1>2, <1>3 DEF r

LEMMA LeftBy ==
  ASSUME NEW q \in Seq(Operations), q # <<>>, NEW w
  PROVE  /\ Own(q, w) <=> Own(Tail(q), w) \/ (Head(q).kind # "read" /\ Head(q).from = w)
         /\ Foreign(q, w) <=> Foreign(Tail(q), w) \/ (Head(q).kind # "read" /\ Head(q).from # w)
<1> DEFINE r == Tail(q)
           op == Head(q)
<1>1. /\ op = q[1] /\ Len(q) \in Nat /\ Len(q) >= 1
      /\ DOMAIN q = 1..Len(q) /\ DOMAIN r = 1..(Len(q) - 1)
      /\ \A i \in 1..(Len(q) - 1) : r[i] = q[i + 1]
      /\ \A i \in 1..Len(q) : i = 1 \/ i - 1 \in 1..(Len(q) - 1)
  BY Taken
<1> HIDE DEF r, op
<1>2. /\ 1 \in DOMAIN q
      /\ \A i \in DOMAIN r : i + 1 \in DOMAIN q /\ r[i] = q[i + 1]
  BY <1>1
<1>3. \A i \in DOMAIN q : i = 1 \/ \E j \in DOMAIN r : q[i] = r[j]
  <2>1. \A i \in DOMAIN q : i # 1 => i - 1 \in DOMAIN r /\ r[i - 1] = q[(i - 1) + 1]
    BY <1>1
  <2>2. \A i \in DOMAIN q : (i - 1) + 1 = i
    BY <1>1
  <2> QED
    BY <2>1, <2>2
<1>4. Own(q, w) <=> Own(r, w) \/ (op.kind # "read" /\ op.from = w)
  BY <1>1, <1>2, <1>3 DEF Own
<1>5. Foreign(q, w) <=> Foreign(r, w) \/ (op.kind # "read" /\ op.from # w)
  BY <1>1, <1>2, <1>3 DEF Foreign
<1> QED
  BY <1>4, <1>5 DEF r, op

(* Only reads are queued: they make nothing of a key.                          *)
LEMMA ReadsMakeNothing ==
  ASSUME NEW q \in Seq(Operations), NEW w, ~ Own(q, w), ~ Foreign(q, w), NEW k \in Keys, NEW v
  PROVE  LastWord(q, Makes(k), v, v)
<1>1. ASSUME NEW i \in DOMAIN q PROVE Makes(k)[q[i]] = {}
  <2>1. q[i] \in Operations
    BY <1>1
  <2>2. q[i].kind = "read"
    BY <1>1 DEF Own, Foreign
  <2> QED
    BY <2>1, <2>2 DEF Makes, Touches
<1> QED
  BY <1>1 DEF LastWord

(* A read, or an operation of somebody else, changes nothing of what a window is told. *)
LEMMA OthersAsk ==
  ASSUME NEW q \in Seq(Operations), NEW op \in Operations, NEW w, NEW box, NEW writing,
         NEW current, NEW shown, Tells(q, box, writing, current, shown, w),
         op.kind = "read" \/ op.from # w
  PROVE  Tells(Append(q, op), box, writing, current, shown, w)
<1> DEFINE r == Append(q, op)
<1>1. /\ Own(r, w) <=> Own(q, w) \/ (op.kind # "read" /\ op.from = w)
      /\ Foreign(r, w) <=> Foreign(q, w) \/ (op.kind # "read" /\ op.from # w)
  BY QueuedBy
<1>2. ASSUME op.kind = "read", NEW k \in Keys, LastWord(q, Makes(k), current[k], shown[k])
      PROVE  LastWord(r, Makes(k), current[k], shown[k])
  <2>1. Makes(k)[op] = {}
    BY <1>2 DEF Makes, Touches
  <2> QED
    BY <1>2, <2>1, LastWordAppended
<1> HIDE DEF r
<1> QED
  BY <1>1, <1>2 DEF Tells, r

(* An edit of its own is what the window shows and has the last word.          *)
LEMMA WindowAsks ==
  ASSUME NEW q \in Seq(Operations), NEW op \in Operations, NEW w, NEW writing,
         NEW current, NEW shown, NEW made, Tells(q, <<>>, writing, current, shown, w),
         op.kind # "read", op.from = w,
         \A k \in Keys : Makes(k)[op] = {made[k]} \/ (Makes(k)[op] = {} /\ made[k] = shown[k])
  PROVE  Tells(Append(q, op), <<>>, writing, current, made, w)
<1> DEFINE r == Append(q, op)
<1>1. Foreign(r, w) <=> Foreign(q, w)
  BY QueuedBy
<1>2. ASSUME NEW k \in Keys, ~ Foreign(q, w)
      PROVE  LastWord(r, Makes(k), current[k], made[k])
  <2>1. LastWord(q, Makes(k), current[k], shown[k])
    BY <1>2 DEF Tells
  <2>2. CASE Makes(k)[op] = {made[k]}
    BY <2>2, LastWordAppended
  <2>3. CASE Makes(k)[op] = {} /\ made[k] = shown[k]
    BY <2>1, <2>3, LastWordAppended
  <2> QED
    BY <1>2, <2>2, <2>3
<1> HIDE DEF r
<1> QED
  BY <1>1, <1>2 DEF Tells, r

(* The operation that is over was a read or the window's own: it is not told.  *)
LEMMA NotTold ==
  ASSUME NEW q \in Seq(Operations), q # <<>>, NEW w, NEW box, NEW writing,
         NEW current, NEW shown, NEW next, Tells(q, box, writing, current, shown, w),
         Head(q).kind = "read" \/ Head(q).from = w,
         Head(q).kind = "read" => ~ writing /\ next = current,
         \A k \in Keys : \/ Makes(k)[Head(q)] = {next[k]}
                         \/ Makes(k)[Head(q)] = {} /\ next[k] = current[k]
  PROVE  Tells(Tail(q), box, FALSE, next, shown, w)
<1> DEFINE r == Tail(q)
           op == Head(q)
<1>1. /\ Own(q, w) <=> Own(r, w) \/ (op.kind # "read" /\ op.from = w)
      /\ Foreign(q, w) <=> Foreign(r, w) \/ (op.kind # "read" /\ op.from # w)
  BY LeftBy
<1>2. ASSUME NEW k \in Keys, LastWord(q, Makes(k), current[k], shown[k])
      PROVE  LastWord(r, Makes(k), next[k], shown[k])
  BY <1>2, LastWordTaken
<1> HIDE DEF r, op
<1>3. /\ op.kind = "read" \/ op.from = w
      /\ op.kind = "read" => ~ writing /\ next = current
  BY DEF op
<1> QED
  BY <1>1, <1>2, <1>3 DEF Tells, r

(* A window that is told, with nothing of its own queued, will have it.        *)
LEMMA WindowTold ==
  ASSUME NEW q, NEW w, NEW box \in Seq(Messages), NEW m \in Messages, NEW writing,
         NEW shown, ~ Own(q, w)
  PROVE  Tells(q, Append(box, m), writing, m.doc, shown, w)
<1>1. /\ Append(box, m) # <<>>
      /\ Append(box, m)[Len(Append(box, m))] = m
  <2>1. Len(Append(box, m)) = Len(box) + 1
    OBVIOUS
  <2> QED
    BY <2>1, Appended
<1> QED
  BY <1>1 DEF Tells

(* An operation that begins changes the memory where it has a word to say.     *)
LEMMA WindowWaits ==
  ASSUME NEW q \in Seq(Operations), q # <<>>, NEW w, NEW box, NEW writing,
         NEW current, NEW shown, NEW next, Tells(q, box, writing, current, shown, w),
         \A k \in Keys : Makes(k)[Head(q)] # {} \/ next[k] = current[k]
  PROVE  Tells(q, box, TRUE, next, shown, w)
<1>1. 1 \in DOMAIN q /\ Head(q) = q[1]
  BY Taken
<1>2. ASSUME NEW k \in Keys, LastWord(q, Makes(k), current[k], shown[k])
      PROVE  LastWord(q, Makes(k), next[k], shown[k])
  <2>1. CASE Makes(k)[Head(q)] # {}
    BY <1>1, <1>2, <2>1, LastWordSaid
  <2>2. CASE next[k] = current[k]
    BY <1>2, <2>2
  <2> QED
    BY <2>1, <2>2
<1> QED
  BY <1>2 DEF Tells

(* An update that arrives is what the window shows, once it is the last.       *)
LEMMA WindowHears ==
  ASSUME NEW q \in Seq(Operations), NEW w, NEW box \in Seq(Messages), box # <<>>,
         NEW writing, NEW current, NEW shown, NEW now,
         Tells(q, box, writing, current, shown, w),
         writing => q # <<>> /\ Head(q).kind # "read",
         Tail(box) = <<>> => now = Head(box).doc
  PROVE  Tells(q, Tail(box), writing, current, now, w)
<1>1. ~ Own(q, w) /\ (~ writing => box[Len(box)].doc = current)
  BY DEF Tells
<1>2. /\ Head(box) = box[1] /\ Len(box) \in Nat /\ Len(box) >= 1
      /\ Len(Tail(box)) = Len(box) - 1
      /\ \A i \in 1..(Len(box) - 1) : Tail(box)[i] = box[i + 1]
  OBVIOUS
<1>3. ASSUME Tail(box) # <<>>, ~ writing PROVE Tail(box)[Len(Tail(box))].doc = current
  <2>1. Len(Tail(box)) # 0
    BY <1>2, <1>3
  <2>2. Len(box) - 1 \in 1..(Len(box) - 1) /\ (Len(box) - 1) + 1 = Len(box)
    BY <1>2, <2>1
  <2>3. Tail(box)[Len(box) - 1] = box[Len(box)]
    BY <1>2, <2>2
  <2> QED
    BY <1>1, <1>2, <1>3, <2>3
<1>4. ASSUME Tail(box) = <<>>, ~ Foreign(q, w), NEW k \in Keys
      PROVE  LastWord(q, Makes(k), current[k], now[k])
  <2>1. ~ writing
    BY <1>1, <1>4, LeftBy
  <2>2. Len(box) = 1
    <3>1. Len(Tail(box)) = 0
      <4> DEFINE rest == Tail(box)
      <4>1. rest = <<>>
        BY <1>4
      <4> HIDE DEF rest
      <4>2. Len(rest) = 0
        BY <4>1
      <4> QED
        BY <4>2 DEF rest
    <3> QED
      BY ONLY <1>2, <3>1
  <2>3. now = current
    BY <1>1, <1>2, <1>4, <2>1, <2>2
  <2> QED
    BY <1>1, <1>4, <2>3, ReadsMakeNothing
<1> QED
  BY <1>1, <1>3, <1>4 DEF Tells

(* What is on the way to a window is the document, or an update of it.         *)
LEMMA WindowBox ==
  ASSUME StoreInv, Listening, NEW w \in Windows
  PROVE  /\ w \in Clients /\ w \notin Processes /\ main.down[w] \in Seq(Messages)
         /\ main.down[w] # <<>> => UpdateComing(w)
<1>1. w \in Clients /\ w \notin Processes
  BY ClientsAssumption DEF Clients
<1>2. main.down[w] \in Seq(Messages)
  BY <1>1, StoreTypes
<1>3. ASSUME main.down[w] # <<>> PROVE UpdateComing(w)
  <2>1. 1 \in DOMAIN main.down[w]
    BY <1>2, <1>3, BoxTaken
  <2>2. main.down[w][1].k # "res"
    BY <1>1, <2>1 DEF Listening
  <2> QED
    BY <2>1, <2>2 DEF UpdateComing
<1> QED
  BY <1>1, <1>2, <1>3

(* What the history says of a window that an edit does not leave behind.       *)
LEMMA EditNoted ==
  ASSUME StoreInv, Listening, NEW c \in Clients, NEW changes, NoteEdit(c, changes),
         NEW w \in Windows, w \notin behind'
  PROVE  w \notin behind /\ (w = c => main.down[w] = <<>>)
  BY WindowBox DEF NoteEdit

(* What it says of one that an operation which is over does not leave behind.  *)
LEMMA UpdateNoted ==
  ASSUME StoreInv, NoteUpdates, NEW w \in Windows, w \notin behind'
  PROVE  /\ main'.down[w] = main.down[w] => w \notin behind
         /\ \A m \in Messages : main'.down[w] = Append(main.down[w], m)
              => ~ Own(main'.queue, w)
<1> DEFINE told == {x \in Windows : Len(main'.down[x]) > Len(main.down[x])}
           asking == {main'.queue[k].from : k \in DOMAIN main'.queue}
<1>1. w \notin (behind \ told) \union (told \intersect asking)
  BY DEF NoteUpdates
<1>2. w \in Clients /\ main.down[w] \in Seq(Messages)
  BY StoreTypes DEF Clients
<1>3. Len(main.down[w]) \in Nat
  BY <1>2
<1>4. ASSUME main'.down[w] = main.down[w] PROVE w \notin behind
  <2>1. w \notin told
    BY <1>3, <1>4
  <2> QED
    BY <1>1, <2>1
<1>5. ASSUME NEW m \in Messages, main'.down[w] = Append(main.down[w], m)
      PROVE  ~ Own(main'.queue, w)
  <2>1. Len(main'.down[w]) = Len(main.down[w]) + 1
    BY <1>2, <1>5
  <2>2. w \in told
    BY <1>3, <2>1
  <2> HIDE DEF told
  <2>3. w \notin asking
    BY <1>1, <2>2
  <2> QED
    BY <2>3 DEF Own
<1> QED
  BY <1>4, <1>5

(* The steps.                                                                  *)
LEMMA OpenInforms ==
  ASSUME StoreInv, NEW x \in Copies, Open(x), NEW o \in Copies, Informed(o)
  PROVE  Informed(o)'
<1> DEFINE c == HolderOf[x]
           m == [main EXCEPT !.listeners = @ \union {c}]
           op == [from |-> c, kind |-> "read", copy |-> x]
<1>1. main \in Main /\ client \in Client /\ c \in Clients /\ main.queue \in Seq(Operations)
  BY StoreTypes
<1>2. m \in Main /\ op \in Operations
  BY <1>1 DEF Main, Operations
<1>3. main' = [m EXCEPT !.queue = Append(m.queue, op)]
  <2>1. main' = Ask(m, <<op>>)
    BY DEF Open
  <2> HIDE DEF m, op
  <2> QED
    BY <1>2, <2>1, Asked
<1>4. /\ main'.queue = Append(main.queue, op) /\ main'.value = main.value
      /\ main'.loaded = main.loaded /\ main'.writing = main.writing
      /\ main'.down = main.down
  BY <1>1, <1>2, <1>3 DEF Main
<1>5. /\ client' = [client EXCEPT !.stage[x] = "opening"] /\ UNCHANGED <<disk, history>>
  BY DEF Open
<1>6. /\ client'.stage[o] = "open" => client.stage[o] = "open"
      /\ client'.tracked = client.tracked
  BY <1>1, <1>5 DEF Client
<1>7. Current(main)' = Current(main) /\ behind' = behind
  BY <1>4, <1>5 DEF Current, history
<1>8. Knows(o)' => Knows(o)
  BY <1>4, <1>6 DEF Knows
<1>9. op.kind = "read"
  OBVIOUS
<1> HIDE DEF op
<1> QED
  BY <1>1, <1>2, <1>4, <1>6, <1>7, <1>8, <1>9, OthersAsk DEF Informed

(* What somebody else sends.                                                   *)
LEMMA OthersSend ==
  ASSUME StoreInv, NEW op \in Operations, NEW o \in Copies, Informed(o),
         main'.queue = Append(main.queue, op), main'.writing = main.writing,
         main'.down = main.down, Current(main)' = Current(main),
         client'.stage = client.stage, client'.tracked[o] = client.tracked[o],
         HolderOf[o] \in Windows \ behind' => HolderOf[o] \notin behind,
         op.from # HolderOf[o]
  PROVE  Informed(o)'
<1>1. Knows(o)' => Knows(o)
  BY DEF Knows
<1> QED
  BY <1>1, StoreTypes, OthersAsk DEF Informed

LEMMA EditInforms ==
  ASSUME StoreInv, AgreeInv, OpenedOnce, NEW x \in Copies, NEW k \in Keys, Edit(x, k),
         NEW o \in Copies, Informed(o)
  PROVE  Informed(o)'
<1> DEFINE c == HolderOf[x]
           changes == [y \in {k} |-> events']
           op == Change(c, changes)
<1>1. main \in Main /\ client \in Client /\ c \in Clients /\ TypeOK
  BY StoreTypes DEF StoreInv
<1>2. changes \in Changes
  <2>1. {k} \in (SUBSET Keys) \ {{}} /\ events' \in Values
    BY <1>1, EventTypes DEF Edit
  <2> QED
    BY <2>1, SetToTypes
<1>3. /\ client' = [client EXCEPT !.tracked[x] = Merged(@, changes)]
      /\ main' = Ask(main, <<op>>) /\ NoteEdit(c, changes)
      /\ UNCHANGED disk /\ client.stage[x] = "open" /\ c \in Windows
  BY DEF Edit, Patch
<1>4. op \in Operations /\ op.kind = "change" /\ op.from = c
  BY <1>1, <1>2, ChangeTypes DEF Change
<1> HIDE DEF changes
<1> HIDE DEF op
<1>5. \A y \in Keys : /\ y \in DOMAIN changes => Makes(y)[op] = {changes[y]}
                      /\ y \notin DOMAIN changes => Makes(y)[op] = {}
  <2>1. op = Change(c, changes)
    BY DEF op
  <2>2. PICK d \in Clients : d = c
    BY <1>1
  <2> QED
    BY ONLY <1>2, <2>1, <2>2, ChangeMakes
<1>6. main' = [main EXCEPT !.queue = Append(main.queue, op)]
  BY <1>1, <1>3, <1>4, Asked
<1>7. /\ main'.queue = Append(main.queue, op) /\ main'.value = main.value
      /\ main'.loaded = main.loaded /\ main'.writing = main.writing
      /\ main'.down = main.down /\ main.queue \in Seq(Operations)
  BY <1>1, <1>6 DEF Main
<1>8. /\ client'.stage = client.stage
      /\ client'.tracked = [client.tracked EXCEPT ![x] = Merged(@, changes)]
      /\ client.tracked \in [Copies -> Docs]
  BY <1>1, <1>3 DEF Client
<1>9. Current(main)' = Current(main)
  BY <1>3, <1>7 DEF Current
<1>10. HolderOf[o] \in Windows \ behind' =>
         HolderOf[o] \notin behind /\ (HolderOf[o] = c => main.down[HolderOf[o]] = <<>>)
  BY <1>1, <1>3, EditNoted DEF AgreeInv
<1>11. CASE HolderOf[o] # c
  <2>1. client'.tracked[o] = client.tracked[o]
    BY <1>8, <1>11
  <2> QED
    BY <1>4, <1>7, <1>8, <1>9, <1>10, <1>11, <2>1, OthersSend
<1>12. CASE HolderOf[o] = c
  <2>1. o = x
    BY <1>3, <1>12 DEF OpenedOnce
  <2>2. SUFFICES ASSUME c \in Windows \ behind'
                 PROVE  Tells(main'.queue, main'.down[c], main'.writing, Current(main)',
                              client'.tracked[o], c)
    BY <1>12 DEF Informed
  <2>3. main.down[c] = <<>> /\ c \notin behind
    BY <1>10, <1>12, <2>2
  <2>4. Tells(main.queue, <<>>, main.writing, Current(main), client.tracked[o], c)
    BY <1>3, <1>12, <2>1, <2>2, <2>3 DEF Informed, Knows
  <2>5. client'.tracked[o] = Merged(client.tracked[o], changes)
    BY <1>8, <2>1
  <2>6. \A y \in Keys : \/ Makes(y)[op] = {client'.tracked[o][y]}
                        \/ /\ Makes(y)[op] = {}
                           /\ client'.tracked[o][y] = client.tracked[o][y]
    BY <1>5, <2>5 DEF Merged
  <2>7. Tells(Append(main.queue, op), <<>>, main.writing, Current(main),
              client'.tracked[o], c)
    <3>1. PICK made : made = client'.tracked[o]
      OBVIOUS
    <3>2. PICK shown : shown = client.tracked[o]
      OBVIOUS
    <3>3. Tells(main.queue, <<>>, main.writing, Current(main), shown, c)
      BY <2>4, <3>2
    <3>4. \A y \in Keys : Makes(y)[op] = {made[y]} \/ (Makes(y)[op] = {} /\ made[y] = shown[y])
      BY <2>6, <3>1, <3>2
    <3>5. Tells(Append(main.queue, op), <<>>, main.writing, Current(main), made, c)
      BY ONLY <1>4, <1>7, <3>3, <3>4, WindowAsks
    <3> QED
      BY <3>1, <3>5
  <2> QED
    BY <1>7, <1>9, <2>3, <2>7
<1> QED
  BY <1>11, <1>12

LEMMA UpdateInforms ==
  ASSUME StoreInv, AgreeInv, NEW p \in Processes, NEW ks \in (SUBSET Keys) \ {{}},
         Update(p, ks), NEW o \in Copies, Informed(o)
  PROVE  Informed(o)'
<1> DEFINE changes == [k \in ks |-> events']
           op == Change(p, changes)
<1>1. main \in Main /\ client \in Client /\ p \in Clients /\ TypeOK
  BY StoreTypes DEF StoreInv, Clients
<1>2. changes \in Changes
  BY <1>1, EventTypes, SetToTypes DEF Update
<1>3. /\ client' = [client EXCEPT !.waiting[p] = @ + 1]
      /\ main' = Ask(main, <<op>>) /\ NoteEdit(p, changes) /\ UNCHANGED disk
  BY DEF Update
<1>4. op \in Operations /\ op.from = p
  BY <1>1, <1>2, ChangeTypes DEF Change
<1> HIDE DEF changes, op
<1>5. main' = [main EXCEPT !.queue = Append(main.queue, op)]
  BY <1>1, <1>3, <1>4, Asked
<1>6. /\ main'.queue = Append(main.queue, op) /\ main'.value = main.value
      /\ main'.loaded = main.loaded /\ main'.writing = main.writing
      /\ main'.down = main.down
  BY <1>1, <1>5 DEF Main
<1>7. client'.stage = client.stage /\ client'.tracked = client.tracked
  BY <1>1, <1>3 DEF Client
<1>8. Current(main)' = Current(main)
  BY <1>3, <1>6 DEF Current
<1>9. CASE HolderOf[o] \in Windows
  <2>1. HolderOf[o] # p
    BY <1>9, ClientsAssumption
  <2>2. HolderOf[o] \in Windows \ behind' => HolderOf[o] \notin behind
    BY <1>1, <1>3, EditNoted DEF AgreeInv
  <2> QED
    BY <1>4, <1>6, <1>7, <1>8, <2>1, <2>2, OthersSend
<1>10. CASE HolderOf[o] \notin Windows
  BY <1>10 DEF Informed
<1> QED
  BY <1>9, <1>10

LEMMA ClearInforms ==
  ASSUME StoreInv, AgreeInv, OpenedOnce, NEW c \in Clients, Clear(c), NEW o \in Copies,
         Informed(o)
  PROVE  Informed(o)'
<1>1. /\ UNCHANGED disk /\ NoteEdit(c, Empty)
      /\ main'.value = main.value /\ main'.loaded = main.loaded
      /\ main'.writing = main.writing /\ main'.down = main.down
      /\ client'.stage = client.stage
      /\ client'.tracked[o] = IF c \notin Processes /\ o = client.applier[c] THEN Empty
                              ELSE client.tracked[o]
  BY ClearDoes DEF AgreeInv
<1>2. PICK op \in Operations, op2 \in Operations :
        /\ op.kind = "clear" /\ op.from = c
        /\ op2.kind # "read" /\ op2.from = c
        /\ \A k \in Keys : Makes(k)[op] = {0} /\ Makes(k)[op2] \in {{0}, {}}
        /\ \/ main'.queue = Append(main.queue, op)
           \/ main'.queue = Append(Append(main.queue, op), op2)
  BY ClearDoes DEF AgreeInv
<1>3. main.queue \in Seq(Operations) /\ Append(main.queue, op) \in Seq(Operations)
  BY <1>2, StoreTypes
<1>4. Current(main)' = Current(main)
  BY <1>1 DEF Current
<1> DEFINE w == HolderOf[o]
<1>5. SUFFICES ASSUME w \in Windows \ behind', Knows(o)'
               PROVE  Tells(main'.queue, main'.down[w], main'.writing, Current(main)',
                            client'.tracked[o], w)
  BY DEF Informed
<1>6. w \notin behind /\ (w = c => main.down[w] = <<>>)
  BY <1>1, <1>5, EditNoted DEF AgreeInv
<1>7. Knows(o)
  BY <1>1, <1>5 DEF Knows
<1>8. Tells(main.queue, main.down[w], main.writing, Current(main), client.tracked[o], w)
  BY <1>5, <1>6, <1>7 DEF Informed
<1>9. o = client.applier[c] => w = c
  <2>1. o # None
    OBVIOUS
  <2> QED
    BY <2>1 DEF AgreeInv, Listening
<1>10. CASE w # c
  <2>1. client'.tracked[o] = client.tracked[o]
    BY <1>1, <1>9, <1>10
  <2>2. Tells(Append(main.queue, op), main.down[w], main.writing, Current(main),
              client.tracked[o], w)
    BY <1>2, <1>3, <1>8, <1>10, OthersAsk
  <2>3. Tells(Append(Append(main.queue, op), op2), main.down[w], main.writing,
              Current(main), client.tracked[o], w)
    BY <1>2, <1>3, <1>10, <2>2, OthersAsk
  <2> QED
    BY <1>1, <1>2, <1>4, <2>1, <2>2, <2>3
<1>11. CASE w = c
  <2>1. main.down[w] = <<>> /\ c \notin Processes
    BY <1>5, <1>6, <1>11, ClientsAssumption
  <2>2. client.stage[o] = "open"
    <3>1. DOMAIN <<>> = {}
      OBVIOUS
    <3> QED
      BY <1>7, <2>1, <3>1 DEF Knows
  <2>3. o = client.applier[c]
    <3>1. client.applier[c] # None /\ HolderOf[client.applier[c]] = c
      BY <1>11, <2>2 DEF AgreeInv, Listening
    <3>2. client.applier[c] \in Copies
      BY <3>1, StoreTypes DEF Client
    <3> QED
      BY <1>5, <1>11, <3>1, <3>2 DEF OpenedOnce
  <2>4. client'.tracked[o] = Empty /\ \A k \in Keys : Empty[k] = 0
    BY <1>1, <2>1, <2>3 DEF Empty
  <2>5. Tells(Append(main.queue, op), <<>>, main.writing, Current(main), Empty, w)
    <3>1. Tells(main.queue, <<>>, main.writing, Current(main), client.tracked[o], w)
      BY <1>8, <2>1
    <3>2. \A k \in Keys : Makes(k)[op] = {Empty[k]}
      BY <1>2, <2>4
    <3> QED
      BY <1>2, <1>3, <1>11, <3>1, <3>2, WindowAsks
  <2>6. Tells(Append(Append(main.queue, op), op2), <<>>, main.writing, Current(main),
              Empty, w)
    <3>1. \A k \in Keys : Makes(k)[op2] = {Empty[k]} \/ (Makes(k)[op2] = {} /\ Empty[k] = Empty[k])
      BY <1>2, <2>4
    <3> QED
      BY <1>2, <1>3, <1>11, <2>5, <3>1, WindowAsks
  <2> QED
    BY <1>1, <1>2, <1>4, <2>1, <2>4, <2>5, <2>6
<1> QED
  BY <1>10, <1>11

LEMMA DeliverInforms ==
  ASSUME StoreInv, AgreeInv, OpenedOnce, NEW c \in Clients, Deliver(c), NEW o \in Copies,
         Informed(o)
  PROVE  Informed(o)'
<1> DEFINE w == HolderOf[o]
           box == main.down[c]
           m == Head(box)
<1>1. /\ main'.down[c] = Tail(box)
      /\ \A d \in Clients : d # c => main'.down[d] = main.down[d]
      /\ main'.queue = main.queue /\ main'.value = main.value
      /\ main'.loaded = main.loaded /\ main'.writing = main.writing
      /\ \A x \in Copies : HolderOf[x] # c =>
           client'.tracked[x] = client.tracked[x] /\ client'.stage[x] = client.stage[x]
      /\ \/ /\ m.k = "read" /\ HolderOf[m.copy] = c /\ m.copy \in Copies
            /\ client'.tracked[m.copy] = m.doc
            /\ client'.stage = [client.stage EXCEPT ![m.copy] = "open"]
         \/ /\ m.k = "changed" /\ UNCHANGED <<client.stage, client.applier>>
            /\ \/ /\ client.applier[c] \in Copies
                  /\ HolderOf[client.applier[c]] = c
                  /\ client'.tracked[client.applier[c]] = m.doc
               \/ client.applier[c] = None /\ UNCHANGED client
         \/ m.k = "res" /\ c \in Processes
  BY DeliverDoes DEF AgreeInv
<1>2. box \in Seq(Messages) /\ box # <<>> /\ UNCHANGED <<disk, behind>> /\ w \in Clients
  BY StoreTypes DEF Deliver
<1>3. /\ 1 \in DOMAIN box /\ m = box[1]
      /\ \A i \in DOMAIN Tail(box) : \E j \in DOMAIN box : Tail(box)[i] = box[j]
  BY <1>2, BoxTaken
<1> HIDE DEF box, m
<1>4. Current(main)' = Current(main)
  BY <1>1, <1>2 DEF Current
<1>5. CASE w # c
  <2>1. /\ main'.down[w] = main.down[w]
        /\ client'.tracked[o] = client.tracked[o] /\ client'.stage[o] = client.stage[o]
    BY <1>1, <1>2, <1>5
  <2>2. Knows(o)' => Knows(o)
    BY <2>1 DEF Knows
  <2> QED
    BY <1>1, <1>2, <1>4, <2>1, <2>2 DEF Informed
<1>6. CASE w = c
  <2>1. SUFFICES ASSUME c \in Windows \ behind, Knows(o)'
                 PROVE  Tells(main.queue, Tail(box), main.writing, Current(main),
                              client'.tracked[o], c)
    BY <1>1, <1>2, <1>4, <1>6 DEF Informed
  <2>2. c \notin Processes
    BY <2>1, ClientsAssumption
  <2>3. client'.stage[o] = "open" \/ \E i \in DOMAIN Tail(box) : Tail(box)[i].k = "read"
    BY <1>1, <1>6, <2>1 DEF Knows
  <2>4. (\E i \in DOMAIN Tail(box) : Tail(box)[i].k = "read") => Knows(o)
    BY <1>3, <1>6 DEF Knows, box
  <2>5. client.stage[o] = "open" => Knows(o)
    BY DEF Knows
  <2>6. Knows(o) /\ (Tail(box) = <<>> => client'.tracked[o] = m.doc)
    <3>1. CASE m.k = "read"
      <4>1. m.copy = o /\ client'.tracked[o] = m.doc
        BY <1>1, <1>6, <2>1, <3>1 DEF OpenedOnce
      <4>2. Knows(o)
        BY <1>3, <1>6, <3>1 DEF Knows, box
      <4> QED
        BY <4>1, <4>2
    <3>2. CASE m.k = "changed"
      <4>1. client'.stage = client.stage
        BY <1>1, <3>2
      <4>2. Knows(o)
        BY <2>3, <2>4, <2>5, <4>1
      <4>3. ASSUME Tail(box) = <<>> PROVE client'.tracked[o] = m.doc
        <5>1. client.stage[o] = "open"
          <6>1. DOMAIN <<>> = {}
            OBVIOUS
          <6> QED
            BY <2>3, <4>1, <4>3, <6>1
        <5>2. client.applier[c] # None
          BY <1>6, <5>1 DEF AgreeInv, Listening
        <5>3. /\ client.applier[c] \in Copies /\ HolderOf[client.applier[c]] = c
              /\ client'.tracked[client.applier[c]] = m.doc
          BY <1>1, <3>2, <5>2
        <5>4. client.applier[c] = o
          BY <1>6, <2>1, <5>3 DEF OpenedOnce
        <5> QED
          BY <5>3, <5>4
      <4> QED
        BY <4>2, <4>3
    <3> QED
      BY <1>1, <2>2, <3>1, <3>2
  <2>7. Tells(main.queue, box, main.writing, Current(main), client.tracked[o], c)
    BY <1>6, <2>1, <2>6 DEF Informed, box
  <2>8. main.writing => main.queue # <<>> /\ Head(main.queue).kind # "read"
    BY DEF AgreeInv, MemoryInv, First
  <2>9. main.queue \in Seq(Operations)
    BY StoreTypes
  <2>10. Tail(box) = <<>> => client'.tracked[o] = Head(box).doc
    BY <2>6 DEF m
  <2> QED
    BY ONLY <1>2, <2>7, <2>8, <2>9, <2>10, WindowHears
<1> QED
  BY <1>5, <1>6

(* An operation that is over and of which the window is not told: a read, or its own. *)
LEMMA NotToldInforms ==
  ASSUME StoreInv, NEW o \in Copies, Informed(o), HolderOf[o] \in Windows \ behind, Knows(o),
         main.queue # <<>>, main'.queue = Tail(main.queue), main'.writing = FALSE,
         main'.down[HolderOf[o]] = main.down[HolderOf[o]],
         client'.tracked[o] = client.tracked[o],
         First.kind = "read" \/ First.from = HolderOf[o],
         First.kind = "read" => ~ main.writing /\ Current(main)' = Current(main),
         \A k \in Keys : \/ Makes(k)[First] = {Current(main)'[k]}
                         \/ Makes(k)[First] = {} /\ Current(main)'[k] = Current(main)[k]
  PROVE  Informed(o)'
<1>1. PICK w : w = HolderOf[o]
  OBVIOUS
<1>2. PICK q \in Seq(Operations) : q = main.queue
  BY StoreTypes
<1>3. PICK next : next = Current(main)'
  OBVIOUS
<1>4. PICK current : current = Current(main)
  OBVIOUS
<1>5. PICK shown : shown = client.tracked[o]
  OBVIOUS
<1>6. PICK box : box = main.down[w]
  OBVIOUS
<1>7. PICK writing : writing = main.writing
  OBVIOUS
<1>8. Tells(q, box, writing, current, shown, w)
  BY <1>1, <1>2, <1>4, <1>5, <1>6, <1>7 DEF Informed
<1>9. /\ q # <<>> /\ (Head(q).kind = "read" \/ Head(q).from = w)
      /\ Head(q).kind = "read" => ~ writing /\ next = current
      /\ \A k \in Keys : \/ Makes(k)[Head(q)] = {next[k]}
                         \/ Makes(k)[Head(q)] = {} /\ next[k] = current[k]
  BY <1>1, <1>2, <1>3, <1>4, <1>7 DEF First
<1>10. Tells(Tail(q), box, FALSE, next, shown, w)
  BY ONLY <1>2, <1>8, <1>9, NotTold
<1>11. Tells(main'.queue, main'.down[w], main'.writing, Current(main)', client'.tracked[o], w)
  BY <1>1, <1>2, <1>3, <1>5, <1>6, <1>10
<1> QED
  BY <1>1, <1>11 DEF Informed

(* One that is told.                                                           *)
LEMMA ToldInforms ==
  ASSUME StoreInv, NEW o \in Copies, HolderOf[o] \in Windows, NEW m \in Messages,
         NoteUpdates,
         main'.down[HolderOf[o]] = Append(main.down[HolderOf[o]], m),
         m.doc = Current(main)'
  PROVE  Informed(o)'
<1>1. PICK w \in Windows : w = HolderOf[o]
  OBVIOUS
<1>2. SUFFICES ASSUME w \notin behind'
               PROVE  Tells(main'.queue, main'.down[w], main'.writing, Current(main)',
                            client'.tracked[o], w)
  BY <1>1 DEF Informed
<1>3. PICK q : q = main'.queue
  OBVIOUS
<1>4. ~ Own(q, w)
  BY <1>1, <1>2, <1>3, UpdateNoted
<1>5. PICK box \in Seq(Messages) : box = main.down[w]
  BY <1>1, StoreTypes DEF Clients
<1>6. PICK shown : shown = client'.tracked[o]
  OBVIOUS
<1>7. PICK writing : writing = main'.writing
  OBVIOUS
<1>8. Tells(q, Append(box, m), writing, m.doc, shown, w)
  BY ONLY <1>4, <1>5, WindowTold
<1> QED
  BY <1>1, <1>3, <1>5, <1>6, <1>7, <1>8

LEMMA ReadInforms ==
  ASSUME StoreInv, AgreeInv, Read, NEW o \in Copies, Informed(o)
  PROVE  Informed(o)'
<1> DEFINE c == First.from
           reply == [k |-> "read", copy |-> First.copy, doc |-> Current(main)]
<1>1. /\ main \in Main /\ main.queue # <<>> /\ First.kind = "read"
      /\ main' = Done([main EXCEPT !.value = Current(main), !.loaded = TRUE,
                                   !.down[c] = Append(@, reply)])
      /\ UNCHANGED <<client, disk>> /\ NoteUpdates
      /\ main.down \in [Clients -> Seq(Messages)]
  BY DEF Read, StoreInv, TypeOK, Main
<1>2. First \in Operations /\ c \in Clients
  BY <1>1, QueueTaken
<1>3. ~ main.writing
  BY <1>1 DEF AgreeInv, MemoryInv
<1>4. reply \in Messages
  <2>1. First.copy \in Copies /\ Current(main) \in Docs
    BY <1>1, <1>2, FirstTypes DEF StoreInv, Operations
  <2> QED
    BY <2>1 DEF Messages
<1>5. reply.doc = Current(main)
  OBVIOUS
<1> HIDE DEF reply, c
<1>6. /\ main'.queue = Tail(main.queue) /\ main'.writing = FALSE
      /\ main'.value = Current(main) /\ main'.loaded = TRUE
      /\ main'.down[c] = Append(main.down[c], reply)
      /\ \A d \in Clients : d # c => main'.down[d] = main.down[d]
  BY <1>1, <1>2 DEF Done, Main
<1>7. Current(main)' = Current(main)
  BY <1>6 DEF Current
<1>8. CASE HolderOf[o] \in Windows /\ HolderOf[o] = c
  BY <1>1, <1>4, <1>5, <1>6, <1>7, <1>8, ToldInforms
<1>9. CASE HolderOf[o] \in Windows /\ HolderOf[o] # c
  <2>1. SUFFICES ASSUME HolderOf[o] \notin behind', Knows(o)'
                 PROVE  Informed(o)'
    BY DEF Informed
  <2>2. main'.down[HolderOf[o]] = main.down[HolderOf[o]]
    BY <1>6, <1>9, StoreTypes
  <2>3. HolderOf[o] \notin behind /\ Knows(o)
    BY <1>1, <1>9, <2>1, <2>2, UpdateNoted DEF Knows
  <2>4. \A k \in Keys : Makes(k)[First] = {}
    BY <1>1, <1>2 DEF Makes, Touches
  <2> QED
    BY <1>1, <1>3, <1>6, <1>7, <1>9, <2>2, <2>3, <2>4, NotToldInforms
<1>10. CASE HolderOf[o] \notin Windows
  BY <1>10 DEF Informed
<1> QED
  BY <1>8, <1>9, <1>10

LEMMA BeginInforms ==
  ASSUME StoreInv, Begin, NEW o \in Copies, Informed(o)
  PROVE  Informed(o)'
<1>1. /\ main \in Main /\ main.queue # <<>> /\ First.kind # "read"
      /\ UNCHANGED <<client, behind>>
      /\ main' = IF First.kind = "clear"
                   THEN [main EXCEPT !.writing = TRUE, !.value = Empty, !.loaded = FALSE]
                 ELSE [main EXCEPT !.writing = TRUE, !.loaded = TRUE,
                                   !.value = Merged(Current(main), First.changes)]
  BY DEF Begin, StoreInv, TypeOK, history
<1>2. First \in Operations
  BY <1>1, QueueTaken
<1>3. /\ main'.queue = main.queue /\ main'.down = main.down /\ main'.writing = TRUE
      /\ First.kind = "change" => /\ main'.value = Merged(Current(main), First.changes)
                                  /\ main'.loaded = TRUE
  <2>1. CASE First.kind = "clear"
    BY <1>1, <2>1 DEF Main
  <2>2. CASE First.kind # "clear"
    BY <1>1, <2>2 DEF Main
  <2> QED
    BY <2>1, <2>2
<1>4. ASSUME NEW k \in Keys
      PROVE  Makes(k)[First] # {} \/ Current(main)'[k] = Current(main)[k]
  <2>1. CASE Touches(First, k)
    BY <1>2, <2>1 DEF Makes
  <2>2. CASE ~ Touches(First, k)
    <3>1. First.kind = "change" /\ k \notin DOMAIN First.changes
      BY <1>1, <1>2, <2>2 DEF Touches, Operations
    <3>2. Current(main)' = Merged(Current(main), First.changes)
      BY <1>3, <3>1 DEF Current
    <3> QED
      BY <3>1, <3>2 DEF Merged
  <2> QED
    BY <2>1, <2>2
<1>5. SUFFICES ASSUME HolderOf[o] \in Windows \ behind, Knows(o)
               PROVE  Tells(main.queue, main.down[HolderOf[o]], TRUE, Current(main)',
                            client.tracked[o], HolderOf[o])
  BY <1>1, <1>3 DEF Informed, Knows
<1>6. PICK q \in Seq(Operations) : q = main.queue
  BY StoreTypes
<1>7. PICK next : next = Current(main)'
  OBVIOUS
<1>8. PICK current : current = Current(main)
  OBVIOUS
<1>9. PICK w : w = HolderOf[o]
  OBVIOUS
<1>10. PICK shown : shown = client.tracked[o]
  OBVIOUS
<1>11. PICK box : box = main.down[w]
  OBVIOUS
<1>12. PICK writing : writing = main.writing
  OBVIOUS
<1>13. Tells(q, box, writing, current, shown, w)
  BY <1>5, <1>6, <1>8, <1>9, <1>10, <1>11, <1>12 DEF Informed
<1>14. q # <<>> /\ \A k \in Keys : Makes(k)[Head(q)] # {} \/ next[k] = current[k]
  BY <1>1, <1>4, <1>6, <1>7, <1>8 DEF First
<1>15. Tells(q, box, TRUE, next, shown, w)
  BY ONLY <1>6, <1>13, <1>14, WindowWaits
<1> QED
  BY <1>6, <1>7, <1>9, <1>10, <1>11, <1>15

LEMMA CommitInforms ==
  ASSUME StoreInv, AgreeInv, Commit, NEW o \in Copies, Informed(o)
  PROVE  Informed(o)'
<1> DEFINE w == HolderOf[o]
<1>1. main.writing /\ UNCHANGED client /\ NoteUpdates
  BY DEF Commit
<1>2. /\ main'.queue = Tail(main.queue) /\ main'.writing = FALSE
      /\ main'.value = main.value /\ main'.loaded = main.loaded
      /\ main'.listeners = main.listeners /\ main.queue # <<>>
      /\ disk'.doc = main.value
      /\ \A c \in Clients :
           \/ /\ main'.down[c] = main.down[c]
              /\ c \notin main.listeners \/ (c = First.from /\ c \notin Processes)
           \/ \E m \in Messages : /\ main'.down[c] = Append(main.down[c], m)
                                  /\ Brings[m] = {main.value}
                                  /\ m.k # "read" /\ (m.k = "res" => c \in Processes)
                                  /\ c = First.from => c \in Processes
  BY CommitDoes
<1>3. Current(main)' = main.value /\ First.kind # "read"
  BY <1>1, <1>2 DEF Current, AgreeInv, MemoryInv
<1>4. SUFFICES ASSUME w \in Windows \ behind', Knows(o)'
               PROVE  Informed(o)'
  BY DEF Informed
<1>5. w \in Clients /\ w \notin Processes
  BY <1>4, ClientsAssumption DEF Clients
<1>6. CASE \E m \in Messages : /\ main'.down[w] = Append(main.down[w], m)
                               /\ Brings[m] = {main.value} /\ m.k # "res"
  <2>1. PICK m \in Messages : /\ main'.down[w] = Append(main.down[w], m)
                              /\ Brings[m] = {main.value} /\ m.k # "res"
    BY <1>6
  <2>2. m.doc = Current(main)'
    BY <1>3, <2>1 DEF Brings
  <2> QED
    BY <1>1, <1>4, <2>1, <2>2, ToldInforms
<1>7. CASE /\ main'.down[w] = main.down[w]
           /\ w \notin main.listeners \/ w = First.from
  <2>1. w \notin behind /\ Knows(o)
    BY <1>1, <1>4, <1>7, UpdateNoted DEF Knows
  <2>2. w \in main.listeners
    <3>1. CASE client.stage[o] = "open"
      BY <3>1 DEF AgreeInv, Listening
    <3>2. CASE \E i \in DOMAIN main.down[w] : main.down[w][i].k = "read"
      BY <1>5, <3>2 DEF AgreeInv, Listening
    <3> QED
      BY <2>1, <3>1, <3>2 DEF Knows
  <2>3. \A k \in Keys : \/ Makes(k)[First] = {Current(main)'[k]}
                        \/ Makes(k)[First] = {} /\ Current(main)'[k] = Current(main)[k]
    BY <1>1, <1>3, WrittenSays
  <2> QED
    BY <1>1, <1>2, <1>3, <1>4, <1>7, <2>1, <2>2, <2>3, NotToldInforms
<1> QED
  BY <1>2, <1>5, <1>6, <1>7

LEMMA FailInforms ==
  ASSUME StoreInv, AgreeInv, Fail, NEW o \in Copies, Informed(o)
  PROVE  Informed(o)'
<1> DEFINE w == HolderOf[o]
<1>1. /\ main.writing /\ First.kind = "change" /\ UNCHANGED <<client, disk>>
      /\ behind' = behind \union (Windows \ {First.from})
  BY DEF Fail
<1>2. /\ main'.queue = Tail(main.queue) /\ main'.writing = FALSE
      /\ main'.value = main.value /\ main'.loaded = main.loaded /\ main.queue # <<>>
      /\ \A c \in Clients :
           \/ main'.down[c] = main.down[c]
           \/ \E m \in Messages : /\ main'.down[c] = Append(main.down[c], m)
                                  /\ m.k = "res" /\ c \in Processes
  BY FailDoes
<1>3. Current(main)' = main.value
  BY <1>1, <1>2 DEF AgreeInv, MemoryInv, Current
<1>4. SUFFICES ASSUME w \in Windows \ behind', Knows(o)'
               PROVE  Informed(o)'
  BY DEF Informed
<1>5. w \in Clients /\ w \notin Processes /\ w = First.from /\ w \notin behind
  BY <1>1, <1>4, ClientsAssumption DEF Clients
<1>6. main'.down[w] = main.down[w]
  BY <1>2, <1>5
<1>7. Knows(o)
  BY <1>1, <1>4, <1>6 DEF Knows
<1>8. \A k \in Keys : \/ Makes(k)[First] = {Current(main)'[k]}
                      \/ Makes(k)[First] = {} /\ Current(main)'[k] = Current(main)[k]
  BY <1>1, <1>3, WrittenSays
<1> QED
  BY <1>1, <1>2, <1>4, <1>5, <1>6, <1>7, <1>8, NotToldInforms

(* Nobody knows a document before it is asked for.                             *)
LEMMA NobodyKnows ==
  ASSUME NEW o \in Copies
  PROVE  (main = NoMain /\ client = NoClient) => ~ Knows(o)
<1>1. DOMAIN <<>> = {} /\ HolderOf[o] \in Clients
  BY StoreTypes
<1> QED
  BY <1>1 DEF Knows, NoMain, NoClient

LEMMA CrashInforms ==
  ASSUME Crash, NEW o \in Copies
  PROVE  Informed(o)'
<1>1. main' = NoMain /\ client' = NoClient
  BY DEF Crash
<1>2. DOMAIN <<>> = {} /\ HolderOf[o] \in Clients
  BY StoreTypes
<1>3. ~ Knows(o)'
  BY <1>1, <1>2 DEF Knows, NoMain, NoClient
<1> QED
  BY <1>3 DEF Informed

\* A window has the document of the authority too, although it is not told of what it
\* did itself: notify() leaves out the one that asked, and replaceInPlace() takes the
\* rest.  It has it unless an edit of its own has crossed an update, or another's could
\* not be written, and where it opens the document once.
THEOREM WindowsHaveIt == ASSUME OpenedOnce PROVE Spec => []WindowsAgree
<1> DEFINE WindowsInformed == \A o \in Copies : Informed(o)
<1>1. Init => WindowsInformed
  BY NobodyKnows DEF Init, Informed
<1>2. StoreInv /\ AgreeInv /\ WindowsInformed /\ [Next]_vars => WindowsInformed'
  <2> SUFFICES ASSUME StoreInv, AgreeInv, WindowsInformed, [Next]_vars, NEW o \in Copies
               PROVE  Informed(o)'
    OBVIOUS
  <2>1. Informed(o)
    OBVIOUS
  <2> HIDE DEF WindowsInformed
  <2>2. CASE Read \/ Begin
    BY <2>1, <2>2, ReadInforms, BeginInforms
  <2>3. CASE Commit \/ Fail \/ Crash
    BY <2>1, <2>3, CommitInforms, FailInforms, CrashInforms
  <2>4. ASSUME NEW x \in Copies, Open(x) \/ \E k \in Keys : Edit(x, k) PROVE Informed(o)'
    BY <2>1, <2>4, OpenInforms, EditInforms
  <2>5. ASSUME NEW p \in Processes, NEW ks \in (SUBSET Keys) \ {{}}, Update(p, ks)
        PROVE  Informed(o)'
    BY <2>1, <2>5, UpdateInforms
  <2>6. ASSUME NEW c \in Clients, Clear(c) \/ Deliver(c) PROVE Informed(o)'
    BY <2>1, <2>6, ClearInforms, DeliverInforms
  <2>7. CASE UNCHANGED vars
    BY <2>1, <2>7 DEF vars, history, Informed, Knows, Current
  <2> QED
    BY <2>2, <2>3, <2>4, <2>5, <2>6, <2>7 DEF Next
<1>3. StoreInv /\ WindowsInformed => WindowsAgree
  <2> SUFFICES ASSUME StoreInv, WindowsInformed, NEW o \in Copies,
                      HolderOf[o] \in Windows \ behind, client.stage[o] = "open", Idle,
                      main.down[HolderOf[o]] = <<>>
               PROVE  client.tracked[o] = Current(main)
    BY DEF WindowsAgree
  <2>1. main.queue = <<>> /\ DOMAIN main.queue = {}
    BY DEF Idle
  <2>2. ~ Foreign(main.queue, HolderOf[o])
    BY <2>1 DEF Foreign
  <2>3. \A k \in Keys : LastWord(main.queue, Makes(k), Current(main)[k], client.tracked[o][k])
    BY <2>2 DEF Informed, Knows, Tells
  <2>4. \A k \in Keys : client.tracked[o][k] = Current(main)[k]
    BY <2>1, <2>3 DEF LastWord
  <2>5. client.tracked[o] \in Docs /\ Current(main) \in Docs
    BY StoreTypes DEF Client, Main, Disk, Current, StoreInv, TypeOK
  <2> QED
    BY <2>4, <2>5 DEF Docs
<1> HIDE DEF WindowsInformed
<1> QED
  BY <1>1, <1>2, <1>3, StoreInductive, Agreement, PTL DEF Spec
=============================================================================
