------------------------------ MODULE ConfigStore ------------------------------
(***************************************************************************)
(* The configuration store.                                                *)
(*                                                                         *)
(* The main process is the authority for every document                    *)
(* (app/lib/store-authority.ts, app/electron/store-main.ts): the value in  *)
(* memory, a queue of operations, and the file, which is replaced by a     *)
(* rename (app/orchestrator/store.ts).  A change is sent to every          *)
(* subscriber but the one it comes from.  Orchestrator processes reach it  *)
(* through a proxy that waits for the answer (app/lib/store-proxy.ts); a   *)
(* window edits an object of its own, Store.open() of app/lib/store.ts,    *)
(* and sends the keys it changed.                                          *)
(*                                                                         *)
(* One document.  A key has the number of the event that set it, 0 when it *)
(* is absent.  What a client sends is in the queue of the document at      *)
(* once: the order in which the queue takes the operations of different    *)
(* clients is that of their arrival.  The microtasks between an edit and   *)
(* its patch let no message in, so a window's object is what it last       *)
(* acknowledged whenever a message arrives.                                *)
(***************************************************************************)
EXTENDS Integers, Sequences, FiniteSets, SequencesExt

CONSTANTS
  Keys,
  Windows, Processes,
  Copies,       \* calls of Store.open(), and the processes' copies
  HolderOf,     \* the window or process of a copy
  None,
  MaxEvents     \* bound: what clients do, failures and crashes

Clients == Windows \union Processes
Values == 0..MaxEvents
Untouched == MaxEvents + 1

ASSUME CopiesAssumption ==
  /\ HolderOf \in [Copies -> Clients] /\ None \notin Copies
  /\ \A p \in Processes : \E o \in Copies : {x \in Copies : HolderOf[x] = p} = {o}
ASSUME ClientsAssumption == Windows \intersect Processes = {}
ASSUME BoundAssumption == MaxEvents \in Nat

VARIABLES
  client,       \* the windows and processes
  main,         \* the authority
  disk,         \* the file
  acknowledged, \* history: the newest version a process was told of
  latest,       \* history: what a client last made of a key
  behind,       \* history: windows that an update has passed by
  failed,       \* history: memory is ahead of the file
  events        \* how much of the bound is used up

history == <<acknowledged, latest, behind, failed>>
vars == <<client, main, disk, history, events>>

Docs == [Keys -> Values]
Empty == [k \in Keys |-> 0]
Changes == UNION {[ks -> Values] : ks \in (SUBSET Keys) \ {{}}}

Operations ==
  [from : Clients, kind : {"read"}, copy : Copies]
    \union [from : Clients, kind : {"change"}, changes : Changes]
    \union [from : Clients, kind : {"clear"}]
Messages ==
  [k : {"changed"}, doc : Docs] \union [k : {"read"}, copy : Copies, doc : Docs]
    \union [k : {"res"}, ok : BOOLEAN, doc : Docs, version : Nat]

Client ==
  [stage : [Copies -> {"closed", "opening", "open"}],
   tracked : [Copies -> Docs],
   applier : [Clients -> Copies \union {None}],   \* whom store:changed updates
   waiting : [Processes -> Int]]                  \* requests not answered
Main ==
  [queue : Seq(Operations), writing : BOOLEAN,    \* the file, for the first of them
   value : Docs, loaded : BOOLEAN,
   listeners : SUBSET Clients,
   down : [Clients -> Seq(Messages)]]
Disk == [exists : BOOLEAN, doc : Docs, version : Nat]

TypeOK ==
  /\ client \in Client /\ main \in Main /\ disk \in Disk
  /\ acknowledged \in Nat /\ behind \subseteq Windows /\ failed \in BOOLEAN
  /\ latest \in [Clients -> [Keys -> Values \union {Untouched}]]
  /\ events \in 0..MaxEvents

NoClient ==
  [stage |-> [o \in Copies |-> "closed"], tracked |-> [o \in Copies |-> Empty],
   applier |-> [c \in Clients |-> None], waiting |-> [p \in Processes |-> 0]]
NoMain ==
  [queue |-> <<>>, writing |-> FALSE, value |-> Empty, loaded |-> FALSE,
   listeners |-> {}, down |-> [c \in Clients |-> <<>>]]
NoEdits == [c \in Clients |-> [k \in Keys |-> Untouched]]

Init ==
  /\ client = NoClient /\ main = NoMain
  /\ disk = [exists |-> FALSE, doc |-> Empty, version |-> 0]
  /\ acknowledged = 0 /\ latest = NoEdits /\ behind = {} /\ failed = FALSE
  /\ events = 0

Event == events < MaxEvents /\ events' = events + 1
Merged(doc, changes) == [k \in Keys |-> IF k \in DOMAIN changes THEN changes[k] ELSE doc[k]]
-----------------------------------------------------------------------------
(* Windows and processes.                                                  *)

Ask(m, operations) == [m EXCEPT !.queue = @ \o operations]
Change(c, changes) == [from |-> c, kind |-> "change", changes |-> changes]

UpdateComing(c) == \E k \in DOMAIN main.down[c] : main.down[c][k].k # "res"

\* An edit of a window may have crossed an update on the way to it.
NoteEdit(c, changes) ==
  /\ latest' = [latest EXCEPT ![c] = Merged(@, changes)]
  /\ behind' = IF c \in Windows /\ UpdateComing(c) THEN behind \union {c} ELSE behind

\* open(), or read() of the proxy; it subscribes before it reads.
Open(o) ==
  LET c == HolderOf[o] IN
  /\ client.stage[o] = "closed" /\ client.applier[c] = None
  /\ client' = [client EXCEPT !.stage[o] = "opening"]
  /\ main' = Ask([main EXCEPT !.listeners = @ \union {c}],
                 <<[from |-> c, kind |-> "read", copy |-> o]>>)
  /\ UNCHANGED <<disk, history, events>>

MistakePatch(o, changes) == Merged(client.tracked[o], changes)

\* diffKeys(): the keys that changed.
Patch(o, changes) == changes

\* A window sets a key of its object, and patches.
Edit(o, k) ==
  LET c == HolderOf[o]
      changes == [x \in {k} |-> events']
  IN  /\ client.stage[o] = "open" /\ c \in Windows /\ Event
      /\ client' = [client EXCEPT !.tracked[o] = Merged(@, changes)]
      /\ main' = Ask(main, <<Change(c, Patch(o, changes))>>)
      /\ NoteEdit(c, changes) /\ UNCHANGED <<disk, acknowledged, failed>>

\* update(), or write() when it is all the keys.
Update(p, ks) ==
  LET changes == [k \in ks |-> events'] IN
  /\ Event
  /\ client' = [client EXCEPT !.waiting[p] = @ + 1]
  /\ main' = Ask(main, <<Change(p, changes)>>)
  /\ NoteEdit(p, changes) /\ UNCHANGED <<disk, acknowledged, failed>>

\* clear(): a window also empties its object, of which the patch follows.
Clear(c) ==
  LET own == client.applier[c]
      present == IF own = None \/ c \in Processes THEN {}
                 ELSE {k \in Keys : client.tracked[own][k] # 0}
      removal == [k \in present |-> 0]
  IN  /\ Event
      /\ main' = Ask(main, <<[from |-> c, kind |-> "clear"]>>
                             \o (IF present = {} THEN <<>> ELSE <<Change(c, removal)>>))
      /\ client' = IF c \in Processes THEN [client EXCEPT !.waiting[c] = @ + 1]
                   ELSE IF own = None THEN client
                   ELSE [client EXCEPT !.tracked[own] = Empty]
      /\ NoteEdit(c, Empty) /\ UNCHANGED <<disk, acknowledged, failed>>

MistakeAnswered(copy, m) == IF m.ok /\ copy = Empty THEN m.doc ELSE copy

\* The proxy keeps what the authority answers, not what it asked for.
Answered(copy, m) == IF m.ok THEN m.doc ELSE copy

MistakeReplaced(copy, doc) == [k \in Keys |-> IF doc[k] = 0 THEN copy[k] ELSE doc[k]]

\* replaceInPlace()
Replaced(copy, doc) == doc

\* A message arrives: an update for the copy that listens, or an answer.
Deliver(c) ==
  /\ main.down[c] # <<>>
  /\ LET m == Head(main.down[c])
         own == client.applier[c]
         copy == CHOOSE o \in Copies : HolderOf[o] = c
     IN  /\ client' =
              CASE m.k = "changed" -> IF own = None THEN client
                                      ELSE [client EXCEPT !.tracked[own] = Replaced(@, m.doc)]
                [] m.k = "read"    -> [client EXCEPT !.stage[m.copy] = "open",
                                                     !.applier[c] = m.copy,
                                                     !.tracked[m.copy] = m.doc]
                [] m.k = "res"     -> [client EXCEPT !.waiting[c] = @ - 1,
                                                     !.tracked[copy] = Answered(@, m)]
         /\ acknowledged' = IF m.k = "res" /\ m.version > acknowledged THEN m.version
                            ELSE acknowledged
  /\ main' = [main EXCEPT !.down[c] = Tail(@)]
  /\ UNCHANGED <<disk, latest, behind, failed, events>>
-----------------------------------------------------------------------------
(* The authority.                                                          *)

Current(m) == IF m.loaded THEN m.value ELSE disk.doc
First == Head(main.queue)

\* Its operation is over, and the next one may begin.
Done(m) == [m EXCEPT !.queue = Tail(@), !.writing = FALSE]

MistakeDone(m) == [m EXCEPT !.queue = <<>>, !.writing = FALSE]

\* It failed all the same: the queue goes on.
DoneInError(m) == Done(m)

MistakeTell(m, op, doc) ==
  [m EXCEPT !.down = [c \in Clients |-> IF c \in m.listeners /\ c # op.from /\ c \in Windows
                                          THEN Append(@[c], [k |-> "changed", doc |-> doc])
                                          ELSE @[c]]]

\* notify(): all the subscribers but the one that asked.
Tell(m, op, doc) ==
  [m EXCEPT !.down = [c \in Clients |-> IF c \in m.listeners \ {op.from}
                                          THEN Append(@[c], [k |-> "changed", doc |-> doc])
                                          ELSE @[c]]]

\* What a process is answered; a window does not look at it.
Answer(m, c, ok, doc, version) ==
  IF c \notin Processes THEN m
  ELSE [m EXCEPT !.down[c] =
          Append(@, [k |-> "res", ok |-> ok, doc |-> doc, version |-> version])]

NoteUpdates ==
  LET told == {w \in Windows : Len(main'.down[w]) > Len(main.down[w])}
      asking == {main'.queue[k].from : k \in DOMAIN main'.queue}
  IN  behind' = (behind \ told) \union (told \intersect asking)

Read ==
  /\ main.queue # <<>> /\ First.kind = "read"
  /\ LET reply == [k |-> "read", copy |-> First.copy, doc |-> Current(main)]
     IN  main' = Done([main EXCEPT !.value = Current(main), !.loaded = TRUE,
                                   !.down[First.from] = Append(@, reply)])
  /\ NoteUpdates /\ UNCHANGED <<client, disk, acknowledged, latest, failed, events>>

\* The value in memory is the new one before the file is.
Begin ==
  /\ main.queue # <<>> /\ First.kind # "read" /\ ~ main.writing
  /\ main' = IF First.kind = "clear"
               THEN [main EXCEPT !.writing = TRUE, !.value = Empty, !.loaded = FALSE]
             ELSE [main EXCEPT !.writing = TRUE, !.loaded = TRUE,
                               !.value = Merged(Current(main), First.changes)]
  /\ UNCHANGED <<client, disk, history, events>>

\* The file when the operation under way has reached it.
Written == [exists |-> First.kind = "change", doc |-> main.value,
            version |-> disk.version + 1]

\* The file is replaced or removed, subscribers are told, the operation answered.
Commit ==
  /\ main.writing
  /\ disk' = Written
  /\ main' = Done(Answer(Tell(main, First, main.value), First.from, TRUE, main.value,
                         Written.version))
  /\ NoteUpdates /\ failed' = FALSE
  /\ UNCHANGED <<client, acknowledged, latest, events>>

\* The file cannot be written.  Nobody else is told.
Fail ==
  /\ main.writing /\ First.kind = "change" /\ Event
  /\ main' = DoneInError(Answer(main, First.from, FALSE, main.value, 0))
  /\ failed' = TRUE /\ behind' = behind \union (Windows \ {First.from})
  /\ UNCHANGED <<client, disk, acknowledged, latest>>

MistakeRecovered ==
  IF main.writing THEN {[exists |-> TRUE, doc |-> Empty, version |-> 0]} ELSE {disk}

\* A file being written is either the old one or the new one.
Recovered == IF main.writing THEN {disk, Written} ELSE {disk}

\* The application dies, and is started again.
Crash ==
  /\ Event
  /\ disk' \in Recovered
  /\ main' = NoMain /\ client' = NoClient
  /\ latest' = NoEdits /\ behind' = {} /\ failed' = FALSE /\ UNCHANGED acknowledged
-----------------------------------------------------------------------------

Next ==
  \/ Read \/ Begin \/ Commit \/ Fail \/ Crash
  \/ \E o \in Copies : Open(o) \/ \E k \in Keys : Edit(o, k)
  \/ \E p \in Processes : \E ks \in (SUBSET Keys) \ {{}} : Update(p, ks)
  \/ \E c \in Clients : Clear(c) \/ Deliver(c)

\* Files are written, or they fail, and messages arrive.
Fairness ==
  /\ WF_vars(Read) /\ WF_vars(Begin) /\ WF_vars(Commit)
  /\ \A c \in Clients : WF_vars(Deliver(c))

Spec == Init /\ [][Next]_vars /\ Fairness
-----------------------------------------------------------------------------
(* Properties.                                                             *)

Idle == main.queue = <<>>

\* No edit is lost to an edit of another key: what the file has for a key is what
\* one of those who touched it last made of it.
EditsSurvive ==
  Idle /\ ~ failed =>
    \A k \in Keys : (\E c \in Clients : latest[c][k] # Untouched)
                      => \E c \in Clients : disk.doc[k] = latest[c][k]

\* A process has the document of the authority when everything is delivered,
\* whatever it changed while others did; unless main's last write failed, when main
\* keeps the change in memory and tells nobody.
ProcessesAgree ==
  \A o \in Copies :
    LET c == HolderOf[o] IN
    c \in Processes /\ client.stage[o] = "open" /\ Idle /\ main.down[c] = <<>> /\ ~ failed
      => client.tracked[o] = Current(main)

\* So has a window, unless an edit of its own has crossed an update, or another's
\* could not be written.
WindowsAgree ==
  \A o \in Copies :
    LET c == HolderOf[o] IN
    c \in Windows \ behind /\ client.stage[o] = "open" /\ Idle
      /\ main.down[c] = <<>>
      => client.tracked[o] = Current(main)

\* What a process was told is done is in the file, whenever the application dies.
AcknowledgedIsInTheFile == acknowledged <= disk.version

\* Every request of a process is answered, also after one that failed.
RequestsAreAnswered == \A p \in Processes : []<>(client.waiting[p] = 0)

(* What the sources say, and the code does not do.                         *)

\* Two windows that edit different keys inside one round trip both survive: in
\* the file they do, in the window whose edit came second they do not.
EveryWindowAgrees ==
  \A o \in Copies :
    LET c == HolderOf[o] IN
    client.stage[o] = "open" /\ Idle /\ main.down[c] = <<>> /\ ~ failed
      => client.tracked[o] = Current(main)

\* A document that was cleared is gone, and list() does not name it.
ClearedIsGone == Idle /\ disk.doc = Empty => ~ disk.exists
=============================================================================
