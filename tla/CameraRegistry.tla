---------------------------- MODULE CameraRegistry ----------------------------
(***************************************************************************)
(* The orchestrator's camera registry (registry.ts) behind the hardware    *)
(* gate (hardware-gate.ts): one shared native handle per serial, leased to *)
(* any number of clients, opened on the first lease and closed on the last.*)
(*                                                                         *)
(* A client is an asynchronous caller: a session's activation, a command   *)
(* like manage-cameras' refresh, an activation that was superseded but     *)
(* whose acquisition is still in flight.  acquire(serial) and              *)
(* acquireMany(serials) share the slow path                                *)
(*   gate -> pending closes -> Camera.list() -> registerShared(camera)     *)
(* whose four awaits are where other clients run.  Between registerShared  *)
(* and the refs++ of acquire() there is only a microtask hop that no other *)
(* caller can get into, so the two are one step; acquireMany() leases in a *)
(* later loop, so for it they are not.                                     *)
(*                                                                         *)
(* `contended` is a history variable: the serials for which a slow path    *)
(* met another one, or a close, while it was in flight.  The code makes no *)
(* provision for these (the violation runs show what happens), so what is  *)
(* promised about a serial is promised while it is not contended.          *)
(* `stranded` is another: the leases an acquireMany() had when it threw.   *)
(* They stay counted, and nobody can give them back.                       *)
(***************************************************************************)
EXTENDS Integers, FiniteSets

CONSTANTS
  Clients,            \* asynchronous callers of the registry
  Serials,            \* cameras
  Asks,               \* the cameras each client asks for
  MaxEntries,         \* bound on the Shared records created
  AdvertiseMayFail    \* whether advertising a camera's pipe may throw

ASSUME ClientsAssumption == IsFiniteSet(Clients)
ASSUME SerialsAssumption == Serials # {}
ASSUME MaxEntriesAssumption == MaxEntries \in Nat \ {0}
ASSUME AsksAssumption == Asks \in [Clients -> SUBSET Serials]
ASSUME AdvertiseAssumption == AdvertiseMayFail \in BOOLEAN

VARIABLES
  cleared,    \* main granted hardware-clear
  entries,    \* Shared records created so far
  serialOf,   \* Shared.serial
  refs,       \* Shared.refs
  phase,      \* the native handle: open, closing (release pending), released
  piped,      \* Shared.pipeId is set
  shared,     \* the registry's map: serial -> its record (0: none)
  closingBySerial, \* serial -> the record whose release is pending (0: none)
  producer,   \* the record whose camera feeds the serial's pipe (0: no pipe)
  pc,         \* where each client's call stands
  kind,       \* what the slow path serves: acquire() or acquireMany()
  wants,      \* the serials of the slow path
  waits,      \* the closes it awaits
  found,      \* the cameras listed and not yet registered or dropped
  current,    \* the camera being configured (a set of at most one serial)
  todo,       \* the serials still to lease
  leases,     \* the records each client holds a lease on
  taken,      \* those of the call in progress: acquireMany's local map
  releaser,   \* releaseAll(): none, waiting, done
  releasing,  \* the closes it awaits
  existed,    \* the records that existed when it was called
  contended,  \* history: serials whose acquisition was interfered with
  stranded    \* history: leases of each record that went with a call that threw

recordVars == <<entries, serialOf, refs, phase, piped>>
mapVars == <<shared, closingBySerial, producer>>
clientVars == <<pc, kind, wants, waits, found, current, todo, leases, taken>>
releaserVars == <<releaser, releasing, existed>>
vars == <<cleared, recordVars, mapVars, clientVars, releaserVars, contended, stranded>>

Entries == 1 .. MaxEntries

Init ==
  /\ cleared = FALSE
  /\ entries = 0
  /\ serialOf = [e \in Entries |-> CHOOSE s \in Serials : TRUE]
  /\ refs = [e \in Entries |-> 0]
  /\ phase = [e \in Entries |-> "unused"]
  /\ piped = [e \in Entries |-> FALSE]
  /\ shared = [s \in Serials |-> 0]
  /\ closingBySerial = [s \in Serials |-> 0]
  /\ producer = [s \in Serials |-> 0]
  /\ pc = [c \in Clients |-> "out"]
  /\ kind = [c \in Clients |-> "one"]
  /\ wants = [c \in Clients |-> {}]
  /\ waits = [c \in Clients |-> {}]
  /\ found = [c \in Clients |-> {}]
  /\ current = [c \in Clients |-> {}]
  /\ todo = [c \in Clients |-> {}]
  /\ leases = [c \in Clients |-> {}]
  /\ taken = [c \in Clients |-> {}]
  /\ releaser = "none"
  /\ releasing = {}
  /\ existed = {}
  /\ contended = {}
  /\ stranded = [e \in Entries |-> 0]

-----------------------------------------------------------------------------
(* The definitions named "Mistake" are plausible bugs in the code of the
   definition that follows them; no action uses them. *)

SlowPCs == {"gate", "closes", "listing", "registering", "configuring"}

(* The serials some client other than c is discovering right now. *)
InDiscovery(c) == UNION {wants[d] : d \in {x \in Clients \ {c} : pc[x] \in SlowPCs}}

Open(e) == phase[e] = "open"

(* closeShared(): nothing for a record already closed. *)
Closable(e) == Open(e)

(* The serials whose pipes go with the records: retireCameraPipe(). *)
MistakeRetireNothing(closes) == {}
Retired(closes) == {serialOf[e] : e \in {x \in closes : piped[x]}}

(* closeShared() for a set of records at once: forget them, retire their
   pipes, start the native release and remember it by serial. *)
CloseShared(closes, newRefs) ==
  LET gone == {serialOf[e] : e \in closes}
  IN  /\ phase' = [e \in Entries |-> IF e \in closes THEN "closing" ELSE phase[e]]
      /\ piped' = [e \in Entries |-> piped[e] /\ e \notin closes]
      /\ refs' = newRefs
      /\ shared' = [s \in Serials |-> IF s \in gone THEN 0 ELSE shared[s]]
      /\ producer' = [s \in Serials |-> IF s \in Retired(closes) THEN 0 ELSE producer[s]]
      /\ closingBySerial' =
           [s \in Serials |-> IF s \in gone THEN CHOOSE e \in closes : serialOf[e] = s
                                            ELSE closingBySerial[s]]
      /\ contended' = contended \union
           (gone \cap UNION {wants[d] : d \in {x \in Clients : pc[x] \in SlowPCs}})

(* The pending closes of the given serials. *)
MistakeNoPendingCloses(S) == {}
MistakeAwaitMissing(S) == {closingBySerial[s] : s \in S}
PendingCloses(S) == {closingBySerial[s] : s \in S} \ {0}

(* main's hardware-clear; nothing is opened before it. *)
HardwareClear ==
  /\ ~cleared
  /\ cleared' = TRUE
  /\ UNCHANGED <<recordVars, mapVars, clientVars, releaserVars, contended, stranded>>

-----------------------------------------------------------------------------
(* Calls. *)

(* Enter the slow path for the serials S. *)
EnterSlowPath(c, k, S) ==
  /\ pc' = [pc EXCEPT ![c] = "gate"]
  /\ kind' = [kind EXCEPT ![c] = k]
  /\ wants' = [wants EXCEPT ![c] = S]
  /\ contended' = contended \union (S \cap InDiscovery(c))

(* Leave it again; what it was for is local to the call. *)
LeaveSlowPath(c, to) ==
  /\ pc' = [pc EXCEPT ![c] = to]
  /\ kind' = [kind EXCEPT ![c] = "one"]
  /\ wants' = [wants EXCEPT ![c] = {}]
  /\ current' = [current EXCEPT ![c] = {}]
  /\ found' = [found EXCEPT ![c] = {}]

(* acquire(s). *)
CallAcquire(c, s) ==
  /\ pc[c] = "out"
  /\ \A e \in leases[c] : serialOf[e] # s
  /\ pc' = [pc EXCEPT ![c] = "leasing"]
  /\ todo' = [todo EXCEPT ![c] = {s}]
  /\ UNCHANGED <<cleared, recordVars, mapVars, kind, wants, waits, found, current,
                 leases, taken, releaserVars, contended, stranded>>

(* acquireMany(S): one discovery pass when a serial of S is not shared. *)
CallAcquireMany(c, S) ==
  /\ pc[c] = "out"
  /\ \A e \in leases[c] : serialOf[e] \notin S
  /\ todo' = [todo EXCEPT ![c] = S]
  /\ IF \E s \in S : shared[s] = 0
       THEN EnterSlowPath(c, "many", S)
       ELSE /\ pc' = [pc EXCEPT ![c] = "leasing"]
            /\ UNCHANGED <<kind, wants, contended>>
  /\ UNCHANGED <<cleared, recordVars, mapVars, waits, found, current, leases, taken,
                 releaserVars, stranded>>

(* acquire(s) of a shared camera: count the lease. *)
LeaseShared(c, s) ==
  /\ pc[c] = "leasing"
  /\ s \in todo[c]
  /\ shared[s] # 0
  /\ refs' = [refs EXCEPT ![shared[s]] = @ + 1]
  /\ leases' = [leases EXCEPT ![c] = @ \union {shared[s]}]
  /\ taken' = [taken EXCEPT ![c] = @ \union {shared[s]}]
  /\ todo' = [todo EXCEPT ![c] = @ \ {s}]
  /\ UNCHANGED <<cleared, entries, serialOf, phase, piped, mapVars, pc, kind, wants,
                 waits, found, current, releaserVars, contended, stranded>>

(* acquire(s) of a camera that is not shared: open it. *)
LeaseSlow(c, s) ==
  /\ pc[c] = "leasing"
  /\ s \in todo[c]
  /\ shared[s] = 0
  /\ EnterSlowPath(c, "one", {s})
  /\ UNCHANGED <<cleared, recordVars, mapVars, waits, found, current, todo, leases,
                 taken, releaserVars, stranded>>

(* Every serial was leased or found missing: the call returns. *)
Return(c) ==
  /\ pc[c] = "leasing"
  /\ todo[c] = {}
  /\ pc' = [pc EXCEPT ![c] = "out"]
  /\ taken' = [taken EXCEPT ![c] = {}]
  /\ UNCHANGED <<cleared, recordVars, mapVars, kind, wants, waits, found, current,
                 todo, leases, releaserVars, contended, stranded>>

-----------------------------------------------------------------------------
(* The slow path. *)

(* awaitHardwareClear() returned: collect the pending closes. *)
MistakeGateStuck == FALSE
GateOpen == cleared

PassGate(c) ==
  /\ pc[c] = "gate"
  /\ GateOpen
  /\ pc' = [pc EXCEPT ![c] = "closes"]
  /\ waits' = [waits EXCEPT ![c] = PendingCloses(wants[c])]
  /\ UNCHANGED <<cleared, recordVars, mapVars, kind, wants, found, current, todo,
                 leases, taken, releaserVars, contended, stranded>>

(* awaitPendingClose() returned for every serial: enumerate the cameras. *)
PassCloses(c) ==
  /\ pc[c] = "closes"
  /\ \A e \in waits[c] : phase[e] = "released"
  /\ pc' = [pc EXCEPT ![c] = "listing"]
  /\ waits' = [waits EXCEPT ![c] = {}]
  /\ UNCHANGED <<cleared, recordVars, mapVars, kind, wants, found, current, todo,
                 leases, taken, releaserVars, contended, stranded>>

(* Camera.list() returned the cameras S of the wanted ones; a camera held by
   another process is absent. *)
Listed(c, S) ==
  /\ pc[c] = "listing"
  /\ S \subseteq wants[c]
  /\ pc' = [pc EXCEPT ![c] = "registering"]
  /\ found' = [found EXCEPT ![c] = S]
  /\ UNCHANGED <<cleared, recordVars, mapVars, kind, wants, waits, current, todo,
                 leases, taken, releaserVars, contended, stranded>>

(* acquireMany() skips a camera that became shared meanwhile; acquire() does
   not look again. *)
AlreadyShared(c, s) == kind[c] = "many" /\ shared[s] # 0

SkipListed(c, s) ==
  /\ pc[c] = "registering"
  /\ s \in found[c]
  /\ AlreadyShared(c, s)
  /\ found' = [found EXCEPT ![c] = @ \ {s}]
  /\ UNCHANGED <<cleared, recordVars, mapVars, pc, kind, wants, waits, current,
                 todo, leases, taken, releaserVars, contended, stranded>>

(* registerShared() starts: clear the triggers, apply the stored config. *)
Configure(c, s) ==
  /\ pc[c] = "registering"
  /\ s \in found[c]
  /\ ~AlreadyShared(c, s)
  /\ pc' = [pc EXCEPT ![c] = "configuring"]
  /\ found' = [found EXCEPT ![c] = @ \ {s}]
  /\ current' = [current EXCEPT ![c] = {s}]
  /\ UNCHANGED <<cleared, recordVars, mapVars, kind, wants, waits, todo, leases,
                 taken, releaserVars, contended, stranded>>

(* The new Shared record of s enters the map, over whatever is there. *)
NewShared(s, withPipe, firstRefs) ==
  LET e == entries + 1
  IN  /\ entries < MaxEntries
      /\ entries' = e
      /\ serialOf' = [serialOf EXCEPT ![e] = s]
      /\ phase' = [phase EXCEPT ![e] = "open"]
      /\ piped' = [piped EXCEPT ![e] = withPipe]
      /\ refs' = [refs EXCEPT ![e] = firstRefs]
      /\ shared' = [shared EXCEPT ![s] = e]
      /\ producer' = IF withPipe THEN [producer EXCEPT ![s] = e] ELSE producer
      /\ UNCHANGED closingBySerial

(* registerShared() returns to acquire(), which leases the camera. *)
RegisterOne(c, s) ==
  /\ pc[c] = "configuring"
  /\ kind[c] = "one"
  /\ s \in current[c]
  /\ NewShared(s, TRUE, 1)
  /\ leases' = [leases EXCEPT ![c] = @ \union {entries + 1}]
  /\ taken' = [taken EXCEPT ![c] = @ \union {entries + 1}]
  /\ todo' = [todo EXCEPT ![c] = @ \ {s}]
  /\ LeaveSlowPath(c, "leasing")
  /\ UNCHANGED <<cleared, waits, releaserVars, contended, stranded>>

(* registerShared() returns to acquireMany(), which leases nothing yet. *)
RegisterMany(c, s) ==
  /\ pc[c] = "configuring"
  /\ kind[c] = "many"
  /\ s \in current[c]
  /\ NewShared(s, TRUE, 0)
  /\ current' = [current EXCEPT ![c] = {}]
  /\ pc' = [pc EXCEPT ![c] = "registering"]
  /\ UNCHANGED <<cleared, kind, wants, waits, found, todo, leases, taken,
                 releaserVars, contended, stranded>>

(* registerShared() throws in advertiseCameraPipe, after the record entered
   the map, and the call rejects.  Its caller keeps the leases of its earlier
   calls; those an acquireMany() took before it came to this camera are in a map
   that nobody can reach any more, and stay counted. *)
StrandedBy(c) == [e \in Entries |-> IF e \in taken[c] THEN stranded[e] + 1 ELSE stranded[e]]

RegisterThrows(c, s) ==
  /\ AdvertiseMayFail
  /\ pc[c] = "configuring"
  /\ s \in current[c]
  /\ NewShared(s, FALSE, 0)
  /\ leases' = [leases EXCEPT ![c] = @ \ taken[c]]
  /\ taken' = [taken EXCEPT ![c] = {}]
  /\ stranded' = StrandedBy(c)
  /\ todo' = [todo EXCEPT ![c] = {}]
  /\ LeaveSlowPath(c, "out")
  /\ UNCHANGED <<cleared, waits, releaserVars, contended>>

(* Everything listed is registered: acquireMany() leases serial by serial,
   acquire() of a camera that was not listed returns null. *)
DiscoveryEnds(c) ==
  /\ pc[c] = "registering"
  /\ found[c] = {}
  /\ LeaveSlowPath(c, "leasing")
  /\ todo' = [todo EXCEPT ![c] = IF kind[c] = "one" THEN @ \ wants[c] ELSE @]
  /\ UNCHANGED <<cleared, recordVars, mapVars, waits, leases, taken, releaserVars,
                 contended, stranded>>

-----------------------------------------------------------------------------
(* Releases. *)

(* The counts once c gave its leases back, and the records this closes. *)
MistakeRefsKept(c) == refs
RefsAfter(c) == [e \in Entries |-> IF e \in leases[c] THEN refs[e] - 1 ELSE refs[e]]

MistakeCloseNone(c) == {}
LastLeaseOf(c) == {e \in leases[c] : RefsAfter(c)[e] = 0 /\ Closable(e)}

(* lease.release() of every lease of c, as releaseLeases() does it. *)
ReleaseLeases(c) ==
  /\ pc[c] = "out"
  /\ leases[c] # {}
  /\ CloseShared(LastLeaseOf(c), RefsAfter(c))
  /\ leases' = [leases EXCEPT ![c] = {}]
  /\ UNCHANGED <<cleared, entries, serialOf, pc, kind, wants, waits, found, current,
                 todo, taken, releaserVars, stranded>>

(* camera.release() settles. *)
CloseSettles(e) ==
  /\ phase[e] = "closing"
  /\ phase' = [phase EXCEPT ![e] = "released"]
  /\ closingBySerial' = [s \in Serials |-> IF closingBySerial[s] = e THEN 0
                                                                    ELSE closingBySerial[s]]
  /\ UNCHANGED <<cleared, entries, serialOf, refs, piped, shared, producer,
                 clientVars, releaserVars, contended, stranded>>

(* releaseAll(): close whatever is shared and await that and every close
   already in progress. *)
MistakeAwaitOwnCloses(closes) == closes
AwaitedCloses(closes) == closes \union {e \in Entries : phase[e] = "closing"}

ReleaseAll ==
  LET closes == {e \in Entries : Closable(e) /\ shared[serialOf[e]] = e}
  IN  /\ releaser # "waiting"
      /\ releaser' = "waiting"
      /\ releasing' = AwaitedCloses(closes)
      /\ existed' = 1 .. entries
      /\ CloseShared(closes, refs)
      /\ UNCHANGED <<cleared, entries, serialOf, clientVars, stranded>>

ReleaseAllSettles ==
  /\ releaser = "waiting"
  /\ \A e \in releasing : phase[e] = "released"
  /\ releaser' = "done"
  /\ UNCHANGED <<cleared, recordVars, mapVars, clientVars, releasing, existed,
                 contended, stranded>>
-----------------------------------------------------------------------------
Call(c) ==
  \/ \E s \in Asks[c] : CallAcquire(c, s)
  \/ \E S \in SUBSET Asks[c] \ {{}} : CallAcquireMany(c, S)
  \/ ReleaseLeases(c)

(* The continuation of a call in progress. *)
Progress(c) ==
  \/ \E s \in Serials : \/ LeaseShared(c, s)
                        \/ LeaseSlow(c, s)
                        \/ SkipListed(c, s)
                        \/ Configure(c, s)
                        \/ RegisterOne(c, s)
                        \/ RegisterMany(c, s)
                        \/ RegisterThrows(c, s)
  \/ \E S \in SUBSET Serials : Listed(c, S)
  \/ PassGate(c)
  \/ PassCloses(c)
  \/ DiscoveryEnds(c)
  \/ Return(c)

Next ==
  \/ HardwareClear
  \/ \E c \in Clients : Call(c) \/ Progress(c)
  \/ \E e \in Entries : CloseSettles(e)
  \/ ReleaseAll
  \/ ReleaseAllSettles

Spec == Init /\ [][Next]_vars

(* Promises settle: the timers, the enumeration, the config writes (which are
   retried for three seconds at most) and the native release. *)
Fairness ==
  /\ \A c \in Clients : WF_vars(Progress(c))
  /\ \A e \in Entries : WF_vars(CloseSettles(e))
  /\ WF_vars(ReleaseAllSettles)

FairSpec == Spec /\ Fairness

-----------------------------------------------------------------------------
(* Properties. *)

TypeOK ==
  /\ cleared \in BOOLEAN
  /\ entries \in 0 .. MaxEntries
  /\ serialOf \in [Entries -> Serials]
  /\ refs \in [Entries -> Nat]
  /\ phase \in [Entries -> {"unused", "open", "closing", "released"}]
  /\ piped \in [Entries -> BOOLEAN]
  /\ shared \in [Serials -> 0 .. MaxEntries]
  /\ closingBySerial \in [Serials -> 0 .. MaxEntries]
  /\ producer \in [Serials -> 0 .. MaxEntries]
  /\ pc \in [Clients -> {"out", "leasing"} \union SlowPCs]
  /\ kind \in [Clients -> {"one", "many"}]
  /\ wants \in [Clients -> SUBSET Serials]
  /\ waits \in [Clients -> SUBSET Entries]
  /\ found \in [Clients -> SUBSET Serials]
  /\ current \in [Clients -> SUBSET Serials]
  /\ todo \in [Clients -> SUBSET Serials]
  /\ leases \in [Clients -> SUBSET Entries]
  /\ taken \in [Clients -> SUBSET Entries]
  /\ releaser \in {"none", "waiting", "done"}
  /\ releasing \subseteq Entries
  /\ existed \subseteq Entries
  /\ contended \subseteq Serials
  /\ stranded \in [Entries -> Nat]

Quiet == Serials \ contended

(* The count of a record is the number of clients that hold a lease on it and
   of the leases on it that went with an acquireMany() that threw, through
   every mix of acquisitions, failures, releases and forced closes: no other
   step parts the count from those who can give a lease back. *)
RefsCountLeases ==
  \A e \in Entries :
    refs[e] = Cardinality({c \in Clients : e \in leases[c]}) + stranded[e]

(* The process never has two native handles on one camera: a new one is
   opened only after the old one's release has settled. *)
LiveHandles(s) == {e \in Entries : serialOf[e] = s /\ phase[e] \in {"open", "closing"}}
OneHandlePerCamera ==
  \A s \in Quiet : Cardinality(LiveHandles(s)) <= 1

(* An open handle is the one the registry shares, so that all lessees of a
   camera act on the same handle, and its pipe is fed exactly while it is. *)
OpenMeansShared ==
  \A s \in Quiet :
    /\ \A e \in LiveHandles(s) : Open(e) => shared[s] = e
    /\ shared[s] # 0 => Open(shared[s]) /\ serialOf[shared[s]] = s
    /\ producer[s] # 0 <=> shared[s] # 0 /\ piped[shared[s]]
    /\ producer[s] # 0 => producer[s] = shared[s]

(* A lease is on an open handle, unless releaseAll() took the camera away,
   and when no call is in progress a camera without a lease is closed.  (An
   advertisement that throws leaves the cameras of that call open.) *)
OpenWhileLeased ==
  \A e \in {x \in Entries : serialOf[x] \in Quiet} :
    /\ (\E c \in Clients : e \in leases[c]) => Open(e) \/ e \in existed
    /\ Open(e) => refs[e] > 0 \/ \E c \in Clients : pc[c] # "out"

(* releaseAll() resolves only when every camera that was open or closing when
   it was called is released. *)
ReleaseAllLetsGo ==
  [][releaser = "waiting" /\ releaser' = "done" =>
       \A e \in existed : serialOf[e] \in Quiet => phase[e] = "released"]_vars

(* Once the gate is open every call returns. *)
CallsReturn ==
  \A c \in Clients : (cleared /\ pc[c] # "out") ~> (pc[c] = "out" \/ entries = MaxEntries)

(* registry.ts: release this lease; the camera is closed when the last lease
   drops. *)
ClosedWithLastLease ==
  [][\A c \in Clients : ReleaseLeases(c) =>
       \A e \in leases[c] :
         (\E d \in Clients : e \in leases'[d]) \/ phase'[e] # "open"]_vars

(* registry.ts: consumers never open a camera twice. *)
NeverOpenedTwice ==
  \A s \in Serials : Cardinality({e \in LiveHandles(s) : Open(e)}) <= 1

(* registry.ts: an activation that wants a serial whose old handle is still
   mid-release must wait for that release to settle before opening. *)
NeverOpenedMidRelease ==
  [][\A e \in Entries : phase[e] = "unused" /\ phase'[e] = "open" =>
       \A f \in Entries : phase[f] = "closing" => serialOf[f] # serialOf'[e]]_vars
================================================================================
