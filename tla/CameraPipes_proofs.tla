------------------------- MODULE CameraPipes_proofs -------------------------
(***************************************************************************)
(* What holds of CameraRegistry for any finite set of callers, any set of  *)
(* cameras, any division of the cameras among the callers and any bound on *)
(* the records, whether advertising may throw or not.                      *)
(***************************************************************************)
EXTENDS CameraRegistry, PipeBroker, FiniteSetTheorems, TLAPS

USE ClientsAssumption, SerialsAssumption, MaxEntriesAssumption, AsksAssumption,
    AdvertiseAssumption

-----------------------------------------------------------------------------
(***************************************************************************)
(* The counts.  That a record counts its leases needs that leases name     *)
(* records that exist, so that a new record starts with none, and that a   *)
(* call never leases twice what it already holds: what it has still to     *)
(* lease is of another camera than every lease it has.  What a call that   *)
(* throws takes with it are leases its client had, so that the count goes  *)
(* from the lessees to the stranded ones.                                  *)
(***************************************************************************)
LeasesExist == \A c \in Clients : leases[c] \subseteq 1 .. entries

UsedUpToEntries == \A e \in Entries : phase[e] # "unused" <=> e <= entries

SharedIsOpen ==
  \A s \in Serials : shared[s] # 0 => /\ shared[s] \in Entries
                                      /\ Open(shared[s])
                                      /\ serialOf[shared[s]] = s

NoLeaseOnTodo ==
  \A c \in Clients : \A s \in todo[c] : \A e \in leases[c] : serialOf[e] # s

StrandedExist == \A e \in Entries : e > entries => stranded[e] = 0

TakenAreLeases ==
  \A c \in Clients : taken[c] \subseteq leases[c] /\ (pc[c] = "out" => taken[c] = {})

CountInv ==
  /\ LeasesExist
  /\ UsedUpToEntries
  /\ SharedIsOpen
  /\ NoLeaseOnTodo
  /\ TakenAreLeases
  /\ StrandedExist
  /\ RefsCountLeases

Lessees(e) == {c \in Clients : e \in leases[c]}

(* A record has finitely many lessees. *)
LEMMA LesseesAreFinite ==
  ASSUME NEW e
  PROVE  IsFiniteSet(Lessees(e)) /\ Cardinality(Lessees(e)) \in Nat
<1>1. Lessees(e) \in SUBSET Clients
  BY DEF Lessees
<1>2. IsFiniteSet(Lessees(e))
  BY <1>1, FS_Subset
<1> QED
  BY <1>2, FS_CardinalityType

(* A caller that is not among the lessees of a record raises their number by
   one, and one that is lowers it by one when it goes. *)
LEMMA LesseesChange ==
  ASSUME NEW e, NEW c \in Clients
  PROVE  /\ c \notin Lessees(e) =>
              Cardinality(Lessees(e) \union {c}) = Cardinality(Lessees(e)) + 1
         /\ c \in Lessees(e) =>
              Cardinality(Lessees(e) \ {c}) = Cardinality(Lessees(e)) - 1
  BY LesseesAreFinite, FS_AddElement, FS_RemoveElement

(* What a step makes of the counts, when it changes any of them. *)
Counted == refs' = [e \in Entries |-> Cardinality(Lessees(e)') + stranded'[e]]

(* The counts and their type, once they are those of the lessees. *)
LEMMA CountedIsTyped ==
  ASSUME Counted, stranded' \in [Entries -> Nat]
  PROVE  RefsCountLeases' /\ refs' \in [Entries -> Nat]
<1>1. \A e \in Entries : Cardinality(Lessees(e)') \in Nat
  <2> TAKE e \in Entries
  <2>1. Lessees(e)' \in SUBSET Clients
    BY DEF Lessees
  <2>2. IsFiniteSet(Lessees(e)')
    BY <2>1, FS_Subset
  <2> QED
    BY <2>2, FS_CardinalityType
<1>2. RefsCountLeases'
  BY DEF Counted, RefsCountLeases, Lessees
<1> QED
  BY <1>1, <1>2 DEF Counted

(* closeShared() of records that are open, whoever asks for it. *)
LEMMA CloseSharedCounts ==
  ASSUME TypeOK, CountInv, NEW closes \in SUBSET Entries, NEW newRefs,
         \A e \in closes : Open(e),
         CloseShared(closes, newRefs), UNCHANGED <<entries, serialOf>>
  PROVE  /\ UsedUpToEntries' /\ SharedIsOpen'
         /\ phase' \in [Entries -> {"unused", "open", "closing", "released"}]
         /\ piped' \in [Entries -> BOOLEAN]
         /\ shared' \in [Serials -> 0 .. MaxEntries]
         /\ producer' \in [Serials -> 0 .. MaxEntries]
         /\ closingBySerial' \in [Serials -> 0 .. MaxEntries]
         /\ contended' \in SUBSET Serials
<1> DEFINE gone == {serialOf[e] : e \in closes}
<1> USE DEF Entries
<1>1. UsedUpToEntries'
  BY DEF CloseShared, CountInv, UsedUpToEntries, Open
<1>2. SharedIsOpen'
  <2> SUFFICES ASSUME NEW s \in Serials, shared'[s] # 0
               PROVE  /\ shared'[s] \in Entries
                      /\ phase'[shared'[s]] = "open"
                      /\ serialOf[shared'[s]] = s
    BY DEF SharedIsOpen, Open
  <2>1. shared'[s] = shared[s] /\ s \notin gone
    BY DEF CloseShared
  <2>2. shared[s] \in Entries /\ Open(shared[s]) /\ serialOf[shared[s]] = s
    BY <2>1 DEF CountInv, SharedIsOpen
  <2>3. shared[s] \notin closes
    BY <2>1, <2>2
  <2> QED
    BY <2>1, <2>2, <2>3 DEF CloseShared, Open
<1>3. /\ phase' \in [Entries -> {"unused", "open", "closing", "released"}]
      /\ piped' \in [Entries -> BOOLEAN]
  BY DEF CloseShared, TypeOK
<1>4. /\ shared' \in [Serials -> 0 .. MaxEntries]
      /\ producer' \in [Serials -> 0 .. MaxEntries]
  BY DEF CloseShared, TypeOK
<1>5. closingBySerial' \in [Serials -> 0 .. MaxEntries]
  <2>1. \A s \in gone : (CHOOSE e \in closes : serialOf[e] = s) \in closes
    OBVIOUS
  <2>2. \A e \in closes : e \in 0 .. MaxEntries
    OBVIOUS
  <2> QED
    BY <2>1, <2>2 DEF CloseShared, TypeOK
<1>6. contended' \in SUBSET Serials
  BY DEF CloseShared, TypeOK
<1> QED
  BY <1>1, <1>2, <1>3, <1>4, <1>5, <1>6

(* registerShared() makes a record of the camera s, with no lease yet. *)
LEMMA NewSharedCounts ==
  ASSUME TypeOK, CountInv, NEW s \in Serials, NEW withPipe \in BOOLEAN, NEW n,
         NewShared(s, withPipe, n)
  PROVE  /\ entries + 1 \in Entries
         /\ Lessees(entries + 1) = {}
         /\ UsedUpToEntries' /\ SharedIsOpen'
         /\ entries' \in 0 .. MaxEntries
         /\ serialOf' \in [Entries -> Serials]
         /\ phase' \in [Entries -> {"unused", "open", "closing", "released"}]
         /\ piped' \in [Entries -> BOOLEAN]
         /\ shared' \in [Serials -> 0 .. MaxEntries]
         /\ producer' \in [Serials -> 0 .. MaxEntries]
         /\ \A e \in Entries : e <= entries => serialOf'[e] = serialOf[e]
<1> DEFINE new == entries + 1
<1> USE DEF Entries
<1>1. new \in Entries /\ new \in 0 .. MaxEntries /\ entries \in Nat
  BY DEF NewShared, TypeOK
<1>2. Lessees(new) = {}
  BY <1>1 DEF Lessees, CountInv, LeasesExist
<1>3. UsedUpToEntries'
  <2>1. /\ entries' = new
        /\ \A e \in Entries : phase'[e] = IF e = new THEN "open" ELSE phase[e]
    BY DEF NewShared, TypeOK
  <2> QED
    BY <1>1, <2>1 DEF CountInv, UsedUpToEntries
<1>4. SharedIsOpen'
  <2> SUFFICES ASSUME NEW q \in Serials, shared'[q] # 0
               PROVE  /\ shared'[q] \in Entries
                      /\ phase'[shared'[q]] = "open"
                      /\ serialOf'[shared'[q]] = q
    BY DEF SharedIsOpen, Open
  <2>1. CASE q = s
    BY <1>1, <2>1 DEF NewShared, TypeOK
  <2>2. CASE q # s
    <3>1. shared'[q] = shared[q]
      BY <2>2 DEF NewShared, TypeOK
    <3>2. shared[q] \in Entries /\ phase[shared[q]] = "open" /\ serialOf[shared[q]] = q
      BY <3>1 DEF CountInv, SharedIsOpen, Open
    <3>3. shared[q] # new
      BY <1>1, <3>2 DEF CountInv, UsedUpToEntries
    <3> QED
      BY <3>1, <3>2, <3>3 DEF NewShared, TypeOK
  <2> QED
    BY <2>1, <2>2
<1>5. /\ entries' \in 0 .. MaxEntries
      /\ serialOf' \in [Entries -> Serials]
      /\ phase' \in [Entries -> {"unused", "open", "closing", "released"}]
      /\ piped' \in [Entries -> BOOLEAN]
  BY <1>1 DEF NewShared, TypeOK
<1>6. /\ shared' \in [Serials -> 0 .. MaxEntries]
      /\ producer' \in [Serials -> 0 .. MaxEntries]
  BY <1>1 DEF NewShared, TypeOK
<1>7. \A e \in Entries : e <= entries => serialOf'[e] = serialOf[e]
  BY <1>1 DEF NewShared, TypeOK
<1> QED
  BY <1>1, <1>2, <1>3, <1>4, <1>5, <1>6, <1>7

(* The variables of the calls keep their type when a call enters or leaves
   the slow path. *)
CallsTyped ==
  /\ pc \in [Clients -> {"out", "leasing"} \union SlowPCs]
  /\ kind \in [Clients -> {"one", "many"}]
  /\ wants \in [Clients -> SUBSET Serials]
  /\ waits \in [Clients -> SUBSET Entries]
  /\ found \in [Clients -> SUBSET Serials]
  /\ current \in [Clients -> SUBSET Serials]
  /\ todo \in [Clients -> SUBSET Serials]
  /\ taken \in [Clients -> SUBSET Entries]

(* A step that moves calls on and touches no record. *)
LEMMA CallMoves ==
  ASSUME TypeOK, CountInv, CallsTyped', cleared' \in BOOLEAN,
         UNCHANGED <<recordVars, mapVars, leases, stranded, existed, releasing>>,
         TakenAreLeases',
         releaser' \in {"none", "waiting", "done"}, contended' \in SUBSET Serials,
         \A c \in Clients : todo'[c] \subseteq todo[c]
                            \/ \A s \in todo'[c] : \A e \in leases[c] : serialOf[e] # s
  PROVE  TypeOK' /\ CountInv'
<1> USE DEF recordVars, mapVars
<1>1. TypeOK'
  BY DEF TypeOK, CallsTyped
<1>2. /\ LeasesExist' /\ UsedUpToEntries' /\ SharedIsOpen' /\ RefsCountLeases'
      /\ StrandedExist'
  BY DEF CountInv, LeasesExist, UsedUpToEntries, SharedIsOpen, Open, RefsCountLeases,
         StrandedExist
<1>3. NoLeaseOnTodo'
  BY DEF CountInv, NoLeaseOnTodo
<1> QED
  BY <1>1, <1>2, <1>3 DEF CountInv

(* acquire(s) of a shared camera. *)
LEMMA LeaseSharedCounts ==
  ASSUME TypeOK, CountInv, NEW c \in Clients, NEW s \in Serials, LeaseShared(c, s)
  PROVE  TypeOK' /\ CountInv'
<1> DEFINE e == shared[s]
<1>1. e \in Entries /\ Open(e) /\ serialOf[e] = s
  BY DEF LeaseShared, CountInv, SharedIsOpen
<1>2. e \in 1 .. entries
  BY <1>1 DEF Open, CountInv, UsedUpToEntries, Entries
<1>3. c \notin Lessees(e)
  BY <1>1 DEF LeaseShared, CountInv, NoLeaseOnTodo, Lessees
<1>4. /\ leases' \in [Clients -> SUBSET Entries]
      /\ \A d \in Clients : leases'[d] = IF d = c THEN leases[c] \union {e} ELSE leases[d]
      /\ taken' \in [Clients -> SUBSET Entries]
      /\ \A d \in Clients : taken'[d] = IF d = c THEN taken[c] \union {e} ELSE taken[d]
      /\ todo' \in [Clients -> SUBSET Serials]
      /\ \A d \in Clients : todo'[d] = IF d = c THEN todo[c] \ {s} ELSE todo[d]
  BY <1>1 DEF LeaseShared, TypeOK
<1>5. \A x \in Entries : Lessees(x)' = IF x = e THEN Lessees(x) \union {c} ELSE Lessees(x)
  BY <1>4 DEF Lessees
<1>6. Counted
  <2>1. /\ refs' = [refs EXCEPT ![e] = @ + 1] /\ refs \in [Entries -> Nat]
        /\ stranded' = stranded /\ stranded \in [Entries -> Nat]
    BY DEF LeaseShared, TypeOK
  <2>2. \A x \in Entries : refs[x] = Cardinality(Lessees(x)) + stranded[x]
    BY DEF CountInv, RefsCountLeases, Lessees
  <2>3. \A x \in Entries : Cardinality(Lessees(x)) \in Nat
    BY LesseesAreFinite
  <2>4. \A x \in Entries : refs'[x] = Cardinality(Lessees(x)') + stranded'[x]
    <3> TAKE x \in Entries
    <3>1. CASE x = e
      <4>1. Lessees(x)' = Lessees(x) \union {c} /\ c \notin Lessees(x)
        BY <1>3, <1>5, <3>1
      <4>2. Cardinality(Lessees(x)') = Cardinality(Lessees(x)) + 1
        BY <4>1, LesseesChange
      <4>3. refs'[x] = refs[x] + 1 /\ stranded[x] \in Nat
        BY <2>1, <3>1
      <4> QED
        BY <2>1, <2>2, <2>3, <4>2, <4>3
    <3>2. CASE x # e
      BY <1>5, <2>1, <2>2, <3>2
    <3> QED
      BY <3>1, <3>2
  <2> QED
    BY <2>1, <2>4 DEF Counted
<1>7. TypeOK' /\ stranded' \in [Entries -> Nat]
  <2>1. stranded' \in [Entries -> Nat]
    BY DEF LeaseShared, TypeOK
  <2> QED
    BY <1>4, <1>6, <2>1, CountedIsTyped DEF LeaseShared, mapVars, releaserVars, TypeOK
<1>8. NoLeaseOnTodo'
  BY <1>1, <1>4 DEF LeaseShared, CountInv, NoLeaseOnTodo
<1>9. LeasesExist'
  BY <1>2, <1>4 DEF LeaseShared, CountInv, LeasesExist
<1>10. UsedUpToEntries' /\ SharedIsOpen'
  BY DEF LeaseShared, mapVars, CountInv, UsedUpToEntries, SharedIsOpen, Open
<1>11. TakenAreLeases' /\ StrandedExist'
  BY <1>4 DEF LeaseShared, CountInv, TakenAreLeases, StrandedExist
<1> QED
  BY <1>6, <1>7, <1>8, <1>9, <1>10, <1>11, CountedIsTyped DEF CountInv

(* releaseLeases(). *)
LEMMA ReleaseLeasesCounts ==
  ASSUME TypeOK, CountInv, NEW c \in Clients, ReleaseLeases(c)
  PROVE  TypeOK' /\ CountInv'
<1> DEFINE closes == LastLeaseOf(c)
<1>1. closes \in SUBSET Entries /\ \A e \in closes : Open(e)
  BY DEF LastLeaseOf, Closable, TypeOK
<1>2. CloseShared(closes, RefsAfter(c)) /\ UNCHANGED <<entries, serialOf>>
  BY DEF ReleaseLeases
<1>3. /\ leases' \in [Clients -> SUBSET Entries]
      /\ \A d \in Clients : leases'[d] = IF d = c THEN {} ELSE leases[d]
  BY DEF ReleaseLeases, TypeOK
<1>4. \A x \in Entries : Lessees(x)' = Lessees(x) \ {c}
  BY <1>3 DEF Lessees
<1>5. \A x \in Entries : RefsAfter(c)[x] = Cardinality(Lessees(x)') + stranded[x]
  <2> TAKE x \in Entries
  <2>1. refs[x] = Cardinality(Lessees(x)) + stranded[x] /\ stranded[x] \in Nat
    BY DEF CountInv, RefsCountLeases, Lessees, TypeOK
  <2>2. CASE x \in leases[c]
    <3>1. /\ Cardinality(Lessees(x)') = Cardinality(Lessees(x)) - 1
          /\ Cardinality(Lessees(x)) \in Int
      <4>1. c \in Lessees(x) /\ Lessees(x)' = Lessees(x) \ {c}
        BY <1>4, <2>2 DEF Lessees
      <4>2. Cardinality(Lessees(x)) \in Nat
        BY LesseesAreFinite
      <4> QED
        BY <4>1, <4>2, LesseesChange
    <3> QED
      BY <2>1, <2>2, <3>1 DEF RefsAfter
  <2>3. CASE x \notin leases[c]
    <3>1. Lessees(x) \ {c} = Lessees(x)
      BY <2>3 DEF Lessees
    <3> QED
      BY <1>4, <2>1, <2>3, <3>1 DEF RefsAfter
  <2> QED
    BY <2>2, <2>3
<1>6. Counted
  BY <1>2, <1>5 DEF ReleaseLeases, CloseShared, RefsAfter, Counted
<1>7. TypeOK'
  <2>1. UNCHANGED <<cleared, entries, serialOf, pc, kind, wants, waits, found, current, todo,
                    taken, stranded, releaser, releasing, existed>>
    BY DEF ReleaseLeases, releaserVars
  <2> QED
    BY <1>1, <1>2, <1>3, <1>6, <2>1, CountedIsTyped, CloseSharedCounts DEF TypeOK
<1>8. LeasesExist' /\ NoLeaseOnTodo' /\ TakenAreLeases' /\ StrandedExist'
  BY <1>3 DEF ReleaseLeases, CountInv, LeasesExist, NoLeaseOnTodo, TakenAreLeases,
              StrandedExist
<1>9. UsedUpToEntries' /\ SharedIsOpen'
  BY <1>1, <1>2, CloseSharedCounts
<1>10. stranded' \in [Entries -> Nat]
  BY DEF ReleaseLeases, TypeOK
<1> QED
  BY <1>6, <1>7, <1>8, <1>9, <1>10, CountedIsTyped DEF CountInv

(* registerShared() for acquire() or for acquireMany(): the lease of the new
   record is its only one, if there is any. *)
LEMMA RegisterCounts ==
  ASSUME TypeOK, CountInv, NEW c \in Clients, NEW s \in Serials,
         RegisterOne(c, s) \/ RegisterMany(c, s)
  PROVE  TypeOK' /\ CountInv'
<1> DEFINE new == entries + 1
           first == IF RegisterOne(c, s) THEN {c} ELSE {}
<1>1. PICK withPipe \in BOOLEAN, n \in {0, 1} :
        NewShared(s, withPipe, n) /\ n = IF RegisterOne(c, s) THEN 1 ELSE 0
  <2>1. ~(RegisterOne(c, s) /\ RegisterMany(c, s))
    BY DEF RegisterOne, RegisterMany
  <2>2. RegisterOne(c, s) => NewShared(s, TRUE, 1)
    BY DEF RegisterOne
  <2>3. RegisterMany(c, s) => NewShared(s, TRUE, 0)
    BY DEF RegisterMany
  <2> QED
    BY <2>1, <2>2, <2>3
<1>2. /\ new \in Entries /\ Lessees(new) = {} /\ new \in 1 .. entries'
      /\ \A e \in Entries : e <= entries => serialOf'[e] = serialOf[e]
      /\ serialOf'[new] = s
      /\ refs' = [refs EXCEPT ![new] = n]
      /\ entries' = new
      /\ UNCHANGED <<cleared, waits, releaserVars, contended, stranded, closingBySerial>>
  <2>1. /\ new \in Entries /\ Lessees(new) = {}
        /\ \A e \in Entries : e <= entries => serialOf'[e] = serialOf[e]
    BY <1>1, NewSharedCounts
  <2>2. /\ serialOf' = [serialOf EXCEPT ![new] = s]
        /\ refs' = [refs EXCEPT ![new] = n]
        /\ entries' = new
        /\ UNCHANGED closingBySerial
    BY <1>1 DEF NewShared
  <2>3. UNCHANGED <<cleared, waits, releaserVars, contended, stranded>>
    BY DEF RegisterOne, RegisterMany
  <2> QED
    BY <2>1, <2>2, <2>3 DEF TypeOK, Entries
<1>3. /\ \A d \in Clients : leases'[d] = IF d \in first THEN leases[d] \union {new} ELSE leases[d]
      /\ leases' \in [Clients -> SUBSET Entries]
  <2>1. CASE RegisterOne(c, s)
    BY <1>2, <2>1 DEF RegisterOne, TypeOK
  <2>2. CASE ~RegisterOne(c, s)
    BY <2>2 DEF RegisterMany, TypeOK
  <2> QED
    BY <2>1, <2>2
<1>4. \A d \in Clients : /\ todo'[d] \subseteq todo[d]
                         /\ d \in first => s \notin todo'[d]
  <2>1. CASE RegisterOne(c, s)
    BY <2>1 DEF RegisterOne, TypeOK
  <2>2. CASE ~RegisterOne(c, s)
    BY <2>2 DEF RegisterMany, TypeOK
  <2> QED
    BY <2>1, <2>2
<1>5. CallsTyped'
  <2> USE DEF LeaveSlowPath, TypeOK, CallsTyped, SlowPCs
  <2>1. CASE RegisterOne(c, s)
    BY <1>2, <2>1 DEF RegisterOne
  <2>2. CASE RegisterMany(c, s)
    BY <1>2, <2>2 DEF RegisterMany
  <2> QED
    BY <2>1, <2>2
<1>6. Counted
  <2>1. \A e \in Entries : Lessees(e)' = IF e = new THEN first ELSE Lessees(e)
    BY <1>2, <1>3 DEF Lessees
  <2>2. Cardinality(first) = n
    BY <1>1, FS_EmptySet, FS_Singleton
  <2>3. /\ \A e \in Entries : refs[e] = Cardinality(Lessees(e)) + stranded[e]
        /\ stranded[new] = 0 /\ stranded' = stranded
    BY <1>2 DEF CountInv, RefsCountLeases, Lessees, StrandedExist, TypeOK
  <2>4. refs \in [Entries -> Nat]
    BY DEF TypeOK
  <2>5. \A e \in Entries : refs'[e] = Cardinality(Lessees(e)') + stranded'[e]
    <3> TAKE e \in Entries
    <3>1. CASE e = new
      <4>1. Cardinality(Lessees(e)') = n /\ refs'[e] = n /\ stranded'[e] = 0
        BY <1>2, <2>1, <2>2, <2>3, <2>4, <3>1
      <4> QED
        BY <1>1, <4>1
    <3>2. CASE e # new
      <4>1. Lessees(e)' = Lessees(e) /\ refs'[e] = refs[e]
        BY <1>2, <2>1, <2>4, <3>2
      <4> QED
        BY <2>3, <4>1
    <3> QED
      BY <3>1, <3>2
  <2> QED
    BY <1>2, <2>4, <2>5 DEF Counted
<1>7. TypeOK'
  BY <1>1, <1>2, <1>3, <1>5, <1>6, CountedIsTyped, NewSharedCounts
  DEF TypeOK, CallsTyped, releaserVars
<1>8. LeasesExist'
  <2>1. \A d \in Clients : \A e \in leases[d] : e \in 1 .. entries'
    BY <1>2 DEF CountInv, LeasesExist, TypeOK
  <2> QED
    BY <1>2, <1>3, <2>1 DEF LeasesExist
<1>9. NoLeaseOnTodo'
  <2> SUFFICES ASSUME NEW d \in Clients, NEW q \in todo'[d], NEW e \in leases'[d]
               PROVE  serialOf'[e] # q
    BY DEF NoLeaseOnTodo
  <2>1. CASE e \in leases[d]
    <3>1. serialOf[e] # q
      BY <1>4, <2>1 DEF CountInv, NoLeaseOnTodo
    <3>2. e \in Entries /\ e <= entries
      BY <2>1 DEF CountInv, LeasesExist, TypeOK
    <3> QED
      BY <1>2, <3>1, <3>2
  <2>2. CASE e \notin leases[d]
    BY <1>2, <1>3, <1>4, <2>2
  <2> QED
    BY <2>1, <2>2
<1>10. UsedUpToEntries' /\ SharedIsOpen'
  BY <1>1, NewSharedCounts
<1>11. TakenAreLeases'
  <2>1. \A d \in Clients : /\ taken'[d] \subseteq IF d \in first THEN taken[d] \union {new}
                                                              ELSE taken[d]
                           /\ pc'[d] = "out" => pc[d] = "out"
    <3>1. CASE RegisterOne(c, s)
      BY <3>1 DEF RegisterOne, LeaveSlowPath, TypeOK
    <3>2. CASE ~RegisterOne(c, s)
      BY <3>2 DEF RegisterMany, TypeOK
    <3> QED
      BY <3>1, <3>2
  <2>2. pc[c] # "out" /\ \A d \in first : d = c
    BY DEF RegisterOne, RegisterMany
  <2> HIDE DEF first, new
  <2> QED
    BY <1>3, <2>1, <2>2 DEF CountInv, TakenAreLeases
<1>12. StrandedExist' /\ stranded' \in [Entries -> Nat]
  <2>1. stranded' = stranded /\ stranded \in [Entries -> Nat]
    BY <1>2 DEF TypeOK
  <2>2. \A e \in Entries : e > entries' => e > entries
    BY <1>2 DEF TypeOK, Entries
  <2>3. \A e \in Entries : e > entries => stranded[e] = 0
    BY DEF CountInv, StrandedExist
  <2> QED
    BY <2>1, <2>2, <2>3 DEF StrandedExist
<1> QED
  BY <1>6, <1>7, <1>8, <1>9, <1>10, <1>11, <1>12, CountedIsTyped DEF CountInv

(* registerShared() failing to advertise: the record has no lease, and the
   leases the call took go from their client to the stranded ones. *)
LEMMA ThrowCounts ==
  ASSUME TypeOK, CountInv, NEW c \in Clients, NEW s \in Serials, RegisterThrows(c, s)
  PROVE  TypeOK' /\ CountInv'
<1> DEFINE new == entries + 1
<1>1. NewShared(s, FALSE, 0) /\ FALSE \in BOOLEAN
  BY DEF RegisterThrows
<1>2. /\ new \in Entries /\ Lessees(new) = {} /\ new \in 1 .. entries'
      /\ \A e \in Entries : e <= entries => serialOf'[e] = serialOf[e]
      /\ refs' = [refs EXCEPT ![new] = 0]
      /\ entries' = new
      /\ UNCHANGED <<cleared, waits, releaserVars, contended, closingBySerial>>
  <2>1. /\ new \in Entries /\ Lessees(new) = {}
        /\ \A e \in Entries : e <= entries => serialOf'[e] = serialOf[e]
    BY <1>1, NewSharedCounts
  <2>2. /\ refs' = [refs EXCEPT ![new] = 0]
        /\ entries' = new
        /\ UNCHANGED closingBySerial
    BY <1>1 DEF NewShared
  <2>3. UNCHANGED <<cleared, waits, releaserVars, contended>>
    BY DEF RegisterThrows
  <2> QED
    BY <2>1, <2>2, <2>3 DEF TypeOK, Entries
<1>3. /\ leases' \in [Clients -> SUBSET Entries]
      /\ \A d \in Clients : leases'[d] = IF d = c THEN leases[c] \ taken[c] ELSE leases[d]
      /\ taken' \in [Clients -> SUBSET Entries]
      /\ \A d \in Clients : taken'[d] = IF d = c THEN {} ELSE taken[d]
      /\ stranded' \in [Entries -> Nat]
      /\ \A e \in Entries :
           stranded'[e] = IF e \in taken[c] THEN stranded[e] + 1 ELSE stranded[e]
      /\ \A d \in Clients : todo'[d] \subseteq todo[d]
  BY DEF RegisterThrows, StrandedBy, TypeOK
<1>4. CallsTyped'
  BY <1>2, <1>3 DEF RegisterThrows, LeaveSlowPath, TypeOK, CallsTyped, SlowPCs
<1>5. new \notin taken[c] /\ taken[c] \subseteq leases[c]
  BY <1>2 DEF CountInv, TakenAreLeases, Lessees
<1>6. Counted
  <2>1. \A e \in Entries : Lessees(e)' = IF e \in taken[c] THEN Lessees(e) \ {c} ELSE Lessees(e)
    BY <1>3, <1>5 DEF Lessees
  <2>2. /\ \A e \in Entries : refs[e] = Cardinality(Lessees(e)) + stranded[e]
        /\ \A e \in Entries : stranded[e] \in Nat /\ refs[e] \in Nat
        /\ \A e \in Entries : Cardinality(Lessees(e)) \in Nat
    <3>1. \A e \in Entries : Cardinality(Lessees(e)) \in Nat
      BY LesseesAreFinite
    <3> QED
      BY <3>1 DEF CountInv, RefsCountLeases, Lessees, TypeOK
  <2>3. \A e \in Entries : e # new => refs'[e] = refs[e]
    BY <1>2 DEF TypeOK
  <2>4. refs' = [e \in Entries |-> refs'[e]] /\ refs'[new] = 0
    BY <1>2 DEF TypeOK
  <2>5. \A e \in Entries : refs'[e] = Cardinality(Lessees(e)') + stranded'[e]
    <3> TAKE e \in Entries
    <3>1. CASE e = new
      <4>1. Lessees(e)' = {} /\ stranded'[e] = stranded[e] /\ stranded[e] = 0
        BY <1>2, <1>3, <1>5, <2>1, <3>1 DEF CountInv, StrandedExist, TypeOK
      <4> QED
        BY <2>4, <3>1, <4>1, FS_EmptySet
    <3>2. CASE e # new /\ e \in taken[c]
      <4>1. c \in Lessees(e)
        BY <1>5, <3>2 DEF Lessees
      <4>2. Cardinality(Lessees(e)') = Cardinality(Lessees(e)) - 1
        BY <2>1, <3>2, <4>1, LesseesChange
      <4> QED
        BY <1>3, <2>2, <2>3, <3>2, <4>2
    <3>3. CASE e # new /\ e \notin taken[c]
      BY <1>3, <2>1, <2>2, <2>3, <3>3
    <3> QED
      BY <3>1, <3>2, <3>3
  <2> QED
    BY <2>4, <2>5 DEF Counted
<1>7. TypeOK'
  BY <1>1, <1>2, <1>3, <1>4, <1>6, CountedIsTyped, NewSharedCounts
  DEF TypeOK, CallsTyped, releaserVars
<1>8. LeasesExist' /\ StrandedExist' /\ TakenAreLeases'
  <2>1. \A d \in Clients : \A e \in leases[d] : e \in 1 .. entries'
    BY <1>2 DEF CountInv, LeasesExist, TypeOK
  <2>2. LeasesExist'
    BY <1>3, <2>1 DEF LeasesExist
  <2>3. StrandedExist'
    BY <1>2, <1>3, <2>1, <1>5 DEF CountInv, StrandedExist, TypeOK, Entries
  <2>4. TakenAreLeases'
    <3>1. \A d \in Clients : d # c => pc'[d] = pc[d]
      BY DEF RegisterThrows, LeaveSlowPath, TypeOK
    <3> QED
      BY <1>3, <3>1 DEF CountInv, TakenAreLeases
  <2> QED
    BY <2>2, <2>3, <2>4
<1>9. NoLeaseOnTodo'
  <2> SUFFICES ASSUME NEW d \in Clients, NEW q \in todo'[d], NEW e \in leases'[d]
               PROVE  serialOf'[e] # q
    BY DEF NoLeaseOnTodo
  <2>1. serialOf[e] # q /\ e \in leases[d]
    BY <1>3 DEF CountInv, NoLeaseOnTodo
  <2>2. e \in Entries /\ e <= entries
    BY <2>1 DEF CountInv, LeasesExist, TypeOK
  <2> QED
    BY <1>2, <2>1, <2>2
<1>10. UsedUpToEntries' /\ SharedIsOpen'
  BY <1>1, NewSharedCounts
<1> QED
  BY <1>3, <1>6, <1>7, <1>8, <1>9, <1>10, CountedIsTyped DEF CountInv

(* A call in progress. *)
LEMMA ProgressCounts ==
  ASSUME TypeOK, CountInv, NEW c \in Clients, Progress(c)
  PROVE  TypeOK' /\ CountInv'
<1> USE DEF CallsTyped, SlowPCs, releaserVars
<1>0. TakenAreLeases
  BY DEF CountInv
<1>1. ASSUME NEW s \in Serials, LeaseShared(c, s)
      PROVE  TypeOK' /\ CountInv'
  BY <1>1, LeaseSharedCounts
<1>2. ASSUME NEW s \in Serials, LeaseSlow(c, s)
      PROVE  TypeOK' /\ CountInv'
  <2>1. CallsTyped' /\ contended' \in SUBSET Serials
    BY <1>2 DEF LeaseSlow, EnterSlowPath, TypeOK
  <2>2. TakenAreLeases'
    BY <1>0, <1>2 DEF LeaseSlow, EnterSlowPath, TypeOK, TakenAreLeases
  <2> QED
    BY <1>2, <2>1, <2>2, CallMoves DEF LeaseSlow, TypeOK
<1>3. ASSUME NEW s \in Serials, SkipListed(c, s)
      PROVE  TypeOK' /\ CountInv'
  BY <1>0, <1>3, CallMoves DEF SkipListed, TypeOK, TakenAreLeases
<1>4. ASSUME NEW s \in Serials, Configure(c, s)
      PROVE  TypeOK' /\ CountInv'
  BY <1>0, <1>4, CallMoves DEF Configure, TypeOK, TakenAreLeases
<1>5. ASSUME NEW s \in Serials,
             RegisterOne(c, s) \/ RegisterMany(c, s) \/ RegisterThrows(c, s)
      PROVE  TypeOK' /\ CountInv'
  BY <1>5, RegisterCounts, ThrowCounts
<1>6. ASSUME NEW S \in SUBSET Serials, Listed(c, S)
      PROVE  TypeOK' /\ CountInv'
  BY <1>0, <1>6, CallMoves DEF Listed, TypeOK, TakenAreLeases
<1>7. CASE PassGate(c)
  <2>1. PendingCloses(wants[c]) \in SUBSET Entries
    BY DEF PendingCloses, TypeOK, Entries
  <2>2. CallsTyped'
    BY <1>7, <2>1 DEF PassGate, TypeOK
  <2> QED
    BY <1>0, <1>7, <2>2, CallMoves DEF PassGate, TypeOK, TakenAreLeases
<1>8. CASE PassCloses(c)
  BY <1>0, <1>8, CallMoves DEF PassCloses, TypeOK, TakenAreLeases
<1>9. CASE DiscoveryEnds(c)
  <2>1. CallsTyped' /\ \A d \in Clients : todo'[d] \subseteq todo[d]
    BY <1>9 DEF DiscoveryEnds, LeaveSlowPath, TypeOK
  <2>2. TakenAreLeases'
    BY <1>0, <1>9 DEF DiscoveryEnds, LeaveSlowPath, TypeOK, TakenAreLeases
  <2> QED
    BY <1>9, <2>1, <2>2, CallMoves DEF DiscoveryEnds, TypeOK
<1>10. CASE Return(c)
  BY <1>0, <1>10, CallMoves DEF Return, TypeOK, TakenAreLeases
<1> QED
  BY <1>1, <1>2, <1>3, <1>4, <1>5, <1>6, <1>7, <1>8, <1>9, <1>10 DEF Progress

(* A call that starts, or a client that gives its leases back. *)
LEMMA CallCounts ==
  ASSUME TypeOK, CountInv, NEW c \in Clients, Call(c)
  PROVE  TypeOK' /\ CountInv'
<1> USE DEF CallsTyped, SlowPCs, releaserVars
<1>0. TakenAreLeases
  BY DEF CountInv
<1>1. ASSUME NEW s \in Asks[c], CallAcquire(c, s)
      PROVE  TypeOK' /\ CountInv'
  <2>1. /\ CallsTyped'
        /\ \A d \in Clients : todo'[d] = IF d = c THEN {s} ELSE todo[d]
    BY <1>1 DEF CallAcquire, TypeOK
  <2> QED
    BY <1>0, <1>1, <2>1, CallMoves DEF CallAcquire, TypeOK, TakenAreLeases
<1>2. ASSUME NEW S \in SUBSET Asks[c], CallAcquireMany(c, S)
      PROVE  TypeOK' /\ CountInv'
  <2>1. /\ CallsTyped' /\ contended' \in SUBSET Serials
        /\ \A d \in Clients : todo'[d] = IF d = c THEN S ELSE todo[d]
    <3>1. \A d \in Clients : todo'[d] = IF d = c THEN S ELSE todo[d]
      BY <1>2 DEF CallAcquireMany, TypeOK
    <3>2. S \in SUBSET Serials /\ todo' \in [Clients -> SUBSET Serials]
      BY <1>2, AsksAssumption DEF CallAcquireMany, TypeOK
    <3>3. /\ pc' \in [Clients -> {"out", "leasing"} \union SlowPCs]
          /\ kind' \in [Clients -> {"one", "many"}]
      BY <1>2 DEF CallAcquireMany, EnterSlowPath, TypeOK
    <3>4. wants' \in [Clients -> SUBSET Serials] /\ contended' \in SUBSET Serials
      BY <1>2, <3>2 DEF CallAcquireMany, EnterSlowPath, TypeOK
    <3>5. UNCHANGED <<waits, found, current, taken>>
      BY <1>2 DEF CallAcquireMany
    <3> QED
      BY <3>1, <3>2, <3>3, <3>4, <3>5 DEF TypeOK
  <2>2. TakenAreLeases'
    BY <1>0, <1>2 DEF CallAcquireMany, EnterSlowPath, TypeOK, TakenAreLeases
  <2> QED
    BY <1>2, <2>1, <2>2, CallMoves DEF CallAcquireMany, TypeOK
<1>3. CASE ReleaseLeases(c)
  BY <1>3, ReleaseLeasesCounts
<1> QED
  BY <1>1, <1>2, <1>3 DEF Call

(* The steps that no call takes. *)
LEMMA RegistryStepCounts ==
  ASSUME TypeOK, CountInv,
         \/ HardwareClear \/ (\E e \in Entries : CloseSettles(e))
         \/ ReleaseAll \/ ReleaseAllSettles \/ UNCHANGED vars
  PROVE  TypeOK' /\ CountInv'
<1> USE DEF clientVars, releaserVars
<1>0. TakenAreLeases
  BY DEF CountInv
<1>1. ASSUME UNCHANGED <<leases, taken, pc, refs, stranded, todo, serialOf, entries>>,
             UsedUpToEntries', SharedIsOpen'
      PROVE  CountInv'
  BY <1>1 DEF CountInv, LeasesExist, NoLeaseOnTodo, RefsCountLeases, TakenAreLeases,
              StrandedExist
<1>2. CASE HardwareClear \/ ReleaseAllSettles \/ UNCHANGED vars
  BY <1>0, <1>2, CallMoves
  DEF HardwareClear, ReleaseAllSettles, vars, TypeOK, CallsTyped, TakenAreLeases
<1>3. ASSUME NEW e \in Entries, CloseSettles(e)
      PROVE  TypeOK' /\ CountInv'
  <2>1. TypeOK'
    BY <1>3 DEF CloseSettles, TypeOK
  <2>2. UsedUpToEntries' /\ SharedIsOpen'
    BY <1>3 DEF CloseSettles, TypeOK, CountInv, UsedUpToEntries, SharedIsOpen, Open
  <2> QED
    BY <1>1, <1>3, <2>1, <2>2 DEF CloseSettles
<1>4. CASE ReleaseAll
  <2> DEFINE closes == {e \in Entries : Closable(e) /\ shared[serialOf[e]] = e}
  <2>1. /\ closes \in SUBSET Entries /\ \A e \in closes : Open(e)
        /\ CloseShared(closes, refs) /\ UNCHANGED <<entries, serialOf>>
    BY <1>4 DEF ReleaseAll, Closable
  <2>2. /\ releasing' \in SUBSET Entries /\ existed' \in SUBSET Entries
        /\ releaser' = "waiting" /\ refs' = refs
        /\ UNCHANGED <<cleared, entries, serialOf, clientVars, stranded>>
    BY <1>4 DEF ReleaseAll, AwaitedCloses, CloseShared, TypeOK, Entries
  <2>3. TypeOK'
    BY <2>1, <2>2, CloseSharedCounts DEF TypeOK
  <2> QED
    BY <1>1, <2>1, <2>2, <2>3, CloseSharedCounts
<1> QED
  BY <1>2, <1>3, <1>4

(* Every variable keeps its type, and the counts are those of the leases. *)
THEOREM Counting == Spec => [](TypeOK /\ CountInv)
<1>1. Init => TypeOK /\ CountInv
  <2> SUFFICES ASSUME Init
               PROVE  TypeOK /\ CountInv
    OBVIOUS
  <2>1. Cardinality(Clients) \in Nat
    BY FS_CardinalityType
  <2>2. (CHOOSE s \in Serials : TRUE) \in Serials
    BY Zenon
  <2>3. PICK first \in Serials : serialOf = [e \in Entries |-> first]
    BY <2>2 DEF Init
  <2>4. serialOf \in [Entries -> Serials]
    BY <2>3
  <2>5. /\ refs \in [Entries -> Nat]
        /\ stranded \in [Entries -> Nat]
        /\ phase \in [Entries -> {"unused", "open", "closing", "released"}]
        /\ piped \in [Entries -> BOOLEAN]
    BY <2>1 DEF Init
  <2>6. /\ shared \in [Serials -> 0 .. MaxEntries]
        /\ closingBySerial \in [Serials -> 0 .. MaxEntries]
        /\ producer \in [Serials -> 0 .. MaxEntries]
        /\ pc \in [Clients -> {"out", "leasing"} \union SlowPCs]
        /\ kind \in [Clients -> {"one", "many"}]
    BY DEF Init
  <2>7. /\ wants \in [Clients -> SUBSET Serials]
        /\ waits \in [Clients -> SUBSET Entries]
        /\ found \in [Clients -> SUBSET Serials]
        /\ current \in [Clients -> SUBSET Serials]
        /\ todo \in [Clients -> SUBSET Serials]
        /\ leases \in [Clients -> SUBSET Entries]
        /\ taken \in [Clients -> SUBSET Entries]
    BY DEF Init
  <2>8. TypeOK
    BY <2>4, <2>5, <2>6, <2>7 DEF Init, TypeOK
  <2>9. RefsCountLeases
    <3>1. \A e \in Entries : {c \in Clients : e \in leases[c]} = {}
      BY DEF Init
    <3>2. \A e \in Entries : refs[e] = 0 /\ stranded[e] = 0
      BY DEF Init
    <3> QED
      BY ONLY <3>1, <3>2, FS_EmptySet DEF RefsCountLeases
  <2> QED
    BY <2>8, <2>9
    DEF Init, CountInv, LeasesExist, UsedUpToEntries, SharedIsOpen, NoLeaseOnTodo, Entries,
        TakenAreLeases, StrandedExist
<1>2. TypeOK /\ CountInv /\ [Next]_vars => TypeOK' /\ CountInv'
  BY ProgressCounts, CallCounts, RegistryStepCounts DEF Next
<1> QED
  BY <1>1, <1>2, PTL DEF Spec

(* Every variable keeps its type. *)
THEOREM Typing == Spec => []TypeOK
  BY Counting, PTL

(* However acquisitions, failures, releases and forced closes mix, the count
   of a record is the number of clients that hold a lease on it and of the
   leases on it that an acquireMany() lost when it threw: no other step parts
   the count from those who can give a lease back. *)
THEOREM CountsAreLeases == Spec => []RefsCountLeases
<1>1. CountInv => RefsCountLeases
  BY DEF CountInv
<1> QED
  BY <1>1, Counting, PTL

-----------------------------------------------------------------------------
(***************************************************************************)
(* The handles.  A camera whose discovery nobody interfered with has at    *)
(* most one live handle: the one the registry shares while it is open, the *)
(* one closingBySerial remembers while it closes.  A new handle is opened  *)
(* by a call that was the only one to look for the camera, that found it   *)
(* not shared, and that awaited the close that was pending; all of this    *)
(* stays true until the handle is opened, or the serial is contended.      *)
(***************************************************************************)
Slow(c) == pc[c] \in SlowPCs

OpenIsShared ==
  \A e \in Entries : Open(e) /\ serialOf[e] \in Quiet => shared[serialOf[e]] = e

ClosingIsRemembered ==
  \A e \in Entries :
    phase[e] = "closing" /\ serialOf[e] \in Quiet => closingBySerial[serialOf[e]] = e

NotOpenAndClosing ==
  \A e, f \in Entries :
    phase[e] = "closing" /\ Open(f) /\ serialOf[e] = serialOf[f] => serialOf[e] \notin Quiet

PipeIsFed ==
  \A s \in Quiet :
    /\ producer[s] # 0 <=> shared[s] # 0 /\ piped[shared[s]]
    /\ producer[s] # 0 => producer[s] = shared[s]

RecordsInv == OpenIsShared /\ ClosingIsRemembered /\ NotOpenAndClosing /\ PipeIsFed

WorkIsWanted ==
  \A c \in Clients :
    /\ found[c] \subseteq wants[c]
    /\ current[c] \subseteq wants[c]
    /\ current[c] # {} => pc[c] = "configuring"
    /\ ~Slow(c) => wants[c] = {}

OneDiscovery ==
  \A c, d \in Clients : c # d => wants[c] \cap wants[d] \subseteq contended

ClosesAwaited ==
  \A c \in Clients : \A e \in Entries :
    phase[e] = "closing" /\ serialOf[e] \in wants[c] \cap Quiet =>
      \/ pc[c] = "gate"
      \/ pc[c] = "closes" /\ e \in waits[c]

StillToOpen ==
  \A c \in Clients : \A s \in wants[c] \cap Quiet :
    kind[c] = "one" \/ s \in current[c] => shared[s] = 0

CallsInv == WorkIsWanted /\ OneDiscovery /\ ClosesAwaited /\ StillToOpen

ReleaserAwaits ==
  /\ \A e \in existed : e <= entries
  /\ releaser = "waiting" =>
       \A e \in existed : serialOf[e] \in Quiet => e \in releasing \/ phase[e] = "released"

HandleInv == RecordsInv /\ CallsInv /\ ReleaserAwaits

(* Only a call in the slow path wants a serial: the two ways of naming the
   serials in discovery agree. *)
LEMMA Discovery ==
  ASSUME HandleInv, NEW s
  PROVE  /\ s \in UNION {wants[d] : d \in {x \in Clients : pc[x] \in SlowPCs}}
              <=> \E d \in Clients : s \in wants[d]
         /\ \A c \in Clients : s \in InDiscovery(c)
                                 <=> \E d \in Clients : d # c /\ s \in wants[d]
<1>1. \A d \in Clients : s \in wants[d] => pc[d] \in SlowPCs
  BY DEF HandleInv, CallsInv, WorkIsWanted, Slow
<1>2. s \in UNION {wants[d] : d \in {x \in Clients : pc[x] \in SlowPCs}}
        <=> \E d \in Clients : s \in wants[d]
  BY <1>1
<1>3. \A c \in Clients : s \in InDiscovery(c)
                           <=> \E d \in Clients : d # c /\ s \in wants[d]
  BY <1>1 DEF InDiscovery
<1> QED
  BY <1>2, <1>3

(* The records and the releaser, when a step changes none of them. *)
LEMMA RecordsFrame ==
  ASSUME TypeOK, RecordsInv, ReleaserAwaits, UNCHANGED <<recordVars, mapVars>>,
         contended \subseteq contended', UNCHANGED <<existed, releasing>>,
         releaser' = "waiting" => releaser = "waiting"
  PROVE  RecordsInv' /\ ReleaserAwaits'
<1> USE DEF recordVars, mapVars
<1>1. \A s : s \in Quiet' => s \in Quiet
  BY DEF Quiet
<1>2. OpenIsShared' /\ ClosingIsRemembered' /\ NotOpenAndClosing'
  BY <1>1 DEF RecordsInv, OpenIsShared, ClosingIsRemembered, NotOpenAndClosing, Open
<1>3. PipeIsFed'
  BY <1>1 DEF RecordsInv, PipeIsFed
<1>4. ReleaserAwaits'
  BY <1>1 DEF ReleaserAwaits
<1> QED
  BY <1>2, <1>3, <1>4 DEF RecordsInv

(* The calls, when a step moves none of them and closes or settles records:
   what a call awaits of a quiet serial is not touched. *)
LEMMA CallsFrame ==
  ASSUME TypeOK, CallsInv, UNCHANGED <<pc, kind, wants, waits, found, current>>,
         contended \subseteq contended',
         \A e \in Entries : \A c \in Clients :
           phase'[e] = "closing" /\ serialOf'[e] \in wants[c] \cap Quiet'
             => phase[e] = "closing" /\ serialOf[e] = serialOf'[e],
         \A c \in Clients : \A s \in wants[c] \cap Quiet' : shared[s] = 0 => shared'[s] = 0
  PROVE  CallsInv'
<1>1. \A s : s \in Quiet' => s \in Quiet
  BY DEF Quiet
<1>2. WorkIsWanted' /\ OneDiscovery'
  BY DEF CallsInv, WorkIsWanted, OneDiscovery, Slow
<1>3. ClosesAwaited'
  BY <1>1 DEF CallsInv, ClosesAwaited
<1>4. StillToOpen'
  BY <1>1 DEF CallsInv, StillToOpen
<1> QED
  BY <1>2, <1>3, <1>4 DEF CallsInv

(* closeShared() of open records: for a quiet serial the one that goes is the
   one that was shared, and no call was looking for it. *)
LEMMA CloseSharedHandles ==
  ASSUME TypeOK, CountInv, HandleInv, NEW closes \in SUBSET Entries, NEW newRefs,
         \A e \in closes : Open(e), CloseShared(closes, newRefs),
         UNCHANGED <<entries, serialOf, pc, kind, wants, waits, found, current>>
  PROVE  RecordsInv' /\ CallsInv'
<1> DEFINE gone == {serialOf[e] : e \in closes}
<1>1. \A s : s \in Quiet' => s \in Quiet
  BY DEF Quiet, CloseShared
<1>2. \A s \in gone : \A c \in Clients : s \in wants[c] => s \notin Quiet'
  <2> SUFFICES ASSUME NEW s \in gone, NEW c \in Clients, s \in wants[c]
               PROVE  s \in contended'
    BY DEF Quiet
  <2>1. s \in UNION {wants[d] : d \in {x \in Clients : pc[x] \in SlowPCs}}
    BY Discovery
  <2> QED
    BY <2>1 DEF CloseShared
<1>3. /\ \A e \in Entries : phase'[e] = IF e \in closes THEN "closing" ELSE phase[e]
      /\ \A e \in Entries : piped'[e] = (piped[e] /\ e \notin closes)
      /\ \A s \in Serials : shared'[s] = IF s \in gone THEN 0 ELSE shared[s]
      /\ \A s \in Serials : producer'[s] = IF s \in Retired(closes) THEN 0 ELSE producer[s]
      /\ \A s \in Serials : s \notin gone => closingBySerial'[s] = closingBySerial[s]
      /\ \A s \in Serials : s \in gone => /\ closingBySerial'[s] \in closes
                                          /\ serialOf[closingBySerial'[s]] = s
  <2>1. ASSUME NEW s \in Serials, s \in gone
        PROVE  closingBySerial'[s] \in closes /\ serialOf[closingBySerial'[s]] = s
    <3>1. \E e \in closes : serialOf[e] = s
      BY <2>1
    <3>2. closingBySerial'[s] = CHOOSE e \in closes : serialOf[e] = s
      BY <2>1 DEF CloseShared
    <3> QED
      BY <3>1, <3>2
  <2> QED
    BY <2>1 DEF CloseShared
<1>4. \A e \in closes : serialOf[e] \in Quiet => shared[serialOf[e]] = e
  BY DEF HandleInv, RecordsInv, OpenIsShared
<1>5. \A e, f \in closes : serialOf[e] = serialOf[f] /\ serialOf[e] \in Quiet => e = f
  BY <1>4
<1>6. \A e \in Entries : serialOf[e] \in gone /\ serialOf[e] \in Quiet =>
        /\ Open(e) => e \in closes
        /\ phase[e] # "closing"
  <2> SUFFICES ASSUME NEW e \in Entries, NEW f \in closes, serialOf[e] = serialOf[f],
                      serialOf[e] \in Quiet
               PROVE  /\ Open(e) => e \in closes
                      /\ phase[e] # "closing"
    OBVIOUS
  <2>1. Open(e) => e = f
    BY <1>4 DEF HandleInv, RecordsInv, OpenIsShared
  <2>2. phase[e] # "closing"
    BY DEF HandleInv, RecordsInv, NotOpenAndClosing
  <2> QED
    BY <2>1, <2>2
<1>7. OpenIsShared'
  <2> SUFFICES ASSUME NEW e \in Entries, phase'[e] = "open", serialOf[e] \in Quiet'
               PROVE  shared'[serialOf[e]] = e
    BY DEF OpenIsShared, Open
  <2>1. Open(e) /\ e \notin closes
    BY <1>3 DEF Open
  <2>2. serialOf[e] \notin gone
    BY <1>1, <1>6, <2>1
  <2> QED
    BY <1>1, <1>3, <2>1, <2>2 DEF HandleInv, RecordsInv, OpenIsShared, TypeOK
<1>8. ClosingIsRemembered'
  <2> SUFFICES ASSUME NEW e \in Entries, phase'[e] = "closing", serialOf[e] \in Quiet'
               PROVE  closingBySerial'[serialOf[e]] = e
    BY DEF ClosingIsRemembered
  <2>1. serialOf[e] \in Serials
    BY DEF TypeOK
  <2>2. CASE e \in closes
    BY <1>1, <1>3, <1>5, <2>1, <2>2
  <2>3. CASE e \notin closes
    <3>1. phase[e] = "closing"
      BY <1>3, <2>3
    <3>2. serialOf[e] \notin gone
      BY <1>1, <1>6, <3>1
    <3> QED
      BY <1>1, <1>3, <2>1, <3>1, <3>2 DEF HandleInv, RecordsInv, ClosingIsRemembered
  <2> QED
    BY <2>2, <2>3
<1>9. NotOpenAndClosing'
  <2> SUFFICES ASSUME NEW e \in Entries, NEW f \in Entries, phase'[e] = "closing",
                      phase'[f] = "open", serialOf[e] = serialOf[f], serialOf[e] \in Quiet'
               PROVE  FALSE
    BY DEF NotOpenAndClosing, Open
  <2>1. Open(f) /\ f \notin closes
    BY <1>3 DEF Open
  <2>2. serialOf[e] \notin gone
    BY <1>1, <1>6, <2>1
  <2>3. phase[e] = "closing"
    BY <1>3, <2>2
  <2> QED
    BY <1>1, <2>1, <2>3 DEF HandleInv, RecordsInv, NotOpenAndClosing
<1>10. PipeIsFed'
  <2> SUFFICES ASSUME NEW s \in Quiet'
               PROVE  /\ producer'[s] # 0 <=> shared'[s] # 0 /\ piped'[shared'[s]]
                      /\ producer'[s] # 0 => producer'[s] = shared'[s]
    BY DEF PipeIsFed
  <2>1. s \in Quiet /\ s \in Serials
    BY <1>1 DEF Quiet
  <2>2. /\ producer[s] # 0 <=> shared[s] # 0 /\ piped[shared[s]]
        /\ producer[s] # 0 => producer[s] = shared[s]
    BY <2>1 DEF HandleInv, RecordsInv, PipeIsFed
  <2>3. CASE s \in gone
    <3>1. PICK e \in closes : serialOf[e] = s
      BY <2>3
    <3>2. shared[s] = e
      BY <1>4, <2>1, <3>1
    <3>3. piped[e] => s \in Retired(closes)
      BY <3>1 DEF Retired
    <3>4. shared'[s] = 0 /\ producer'[s] = 0
      BY <1>3, <2>1, <2>2, <2>3, <3>2, <3>3
    <3> QED
      BY <3>4
  <2>4. CASE s \notin gone
    <3>1. s \notin Retired(closes)
      BY <2>4 DEF Retired
    <3>2. shared'[s] = shared[s] /\ producer'[s] = producer[s]
      BY <1>3, <2>1, <2>4, <3>1
    <3>3. shared[s] # 0 => shared[s] \in Entries /\ shared[s] \notin closes
      <4>1. shared[s] # 0 => shared[s] \in Entries /\ serialOf[shared[s]] = s
        BY <2>1 DEF CountInv, SharedIsOpen
      <4> QED
        BY <2>4, <4>1
    <3>4. shared[s] # 0 => piped'[shared[s]] = piped[shared[s]]
      BY <1>3, <3>3 DEF TypeOK
    <3> QED
      BY <2>2, <3>2, <3>4
  <2> QED
    BY <2>3, <2>4
<1>11. CallsInv'
  <2>1. contended \subseteq contended'
    BY DEF CloseShared
  <2>2. ASSUME NEW e \in Entries, NEW c \in Clients, phase'[e] = "closing",
               serialOf[e] \in wants[c] \cap Quiet'
        PROVE  phase[e] = "closing"
    BY <1>2, <1>3, <2>2
  <2>3. ASSUME NEW c \in Clients, NEW s \in wants[c] \cap Quiet', shared[s] = 0
        PROVE  shared'[s] = 0
    BY <1>3, <2>3 DEF Quiet
  <2> QED
    BY <2>1, <2>2, <2>3, CallsFrame DEF HandleInv
<1> QED
  BY <1>7, <1>8, <1>9, <1>10, <1>11 DEF RecordsInv

(* registerShared() of the camera a call is configuring: when the serial is
   quiet no handle of it is live, so the new one is the only one. *)
LEMMA NewSharedHandles ==
  ASSUME TypeOK, CountInv, HandleInv, NEW c \in Clients, NEW s \in current[c],
         NEW withPipe \in BOOLEAN, NEW n, NewShared(s, withPipe, n), UNCHANGED contended
  PROVE  /\ RecordsInv'
         /\ \A e \in Entries : phase'[e] = "closing" =>
              phase[e] = "closing" /\ serialOf'[e] = serialOf[e]
         /\ \A q \in Serials : q # s => shared'[q] = shared[q]
<1> DEFINE new == entries + 1
<1>1. s \in Serials /\ s \in wants[c] /\ pc[c] = "configuring"
  BY DEF HandleInv, CallsInv, WorkIsWanted, TypeOK
<1>2. s \in Quiet => /\ shared[s] = 0
                     /\ \A e \in Entries : serialOf[e] = s => ~Open(e) /\ phase[e] # "closing"
  <2> SUFFICES ASSUME s \in Quiet
               PROVE  /\ shared[s] = 0
                      /\ \A e \in Entries : serialOf[e] = s => ~Open(e) /\ phase[e] # "closing"
    OBVIOUS
  <2>1. shared[s] = 0
    BY <1>1 DEF HandleInv, CallsInv, StillToOpen
  <2>2. \A e \in Entries : serialOf[e] = s => ~Open(e)
    BY <2>1 DEF HandleInv, RecordsInv, OpenIsShared, Entries
  <2>3. \A e \in Entries : serialOf[e] = s => phase[e] # "closing"
    BY <1>1 DEF HandleInv, CallsInv, ClosesAwaited
  <2> QED
    BY <2>1, <2>2, <2>3
<1>3. /\ new \in Entries /\ new # 0
      /\ \A e \in Entries : e # new => phase'[e] = phase[e] /\ serialOf'[e] = serialOf[e]
                                       /\ piped'[e] = piped[e]
      /\ phase'[new] = "open" /\ serialOf'[new] = s /\ piped'[new] = withPipe
      /\ \A q \in Serials : shared'[q] = IF q = s THEN new ELSE shared[q]
      /\ \A q \in Serials : producer'[q] = IF q = s /\ withPipe THEN new ELSE producer[q]
      /\ UNCHANGED closingBySerial
  BY <1>1, NewSharedCounts DEF NewShared, TypeOK, Entries
<1>4. Quiet' = Quiet
  BY DEF Quiet
<1>5. OpenIsShared'
  <2> SUFFICES ASSUME NEW e \in Entries, phase'[e] = "open", serialOf'[e] \in Quiet
               PROVE  shared'[serialOf'[e]] = e
    BY <1>4 DEF OpenIsShared, Open
  <2>1. CASE e = new
    BY <1>1, <1>3, <2>1
  <2>2. CASE e # new
    <3>1. Open(e) /\ serialOf'[e] = serialOf[e] /\ serialOf[e] \in Serials
      BY <1>3, <2>2 DEF Open, TypeOK
    <3>2. serialOf[e] # s
      BY <1>2, <3>1
    <3> QED
      BY <1>3, <3>1, <3>2 DEF HandleInv, RecordsInv, OpenIsShared
  <2> QED
    BY <2>1, <2>2
<1>6. ClosingIsRemembered'
  BY <1>3, <1>4 DEF HandleInv, RecordsInv, ClosingIsRemembered
<1>7. NotOpenAndClosing'
  <2> SUFFICES ASSUME NEW e \in Entries, NEW f \in Entries, phase'[e] = "closing",
                      phase'[f] = "open", serialOf'[e] = serialOf'[f], serialOf'[e] \in Quiet
               PROVE  FALSE
    BY <1>4 DEF NotOpenAndClosing, Open
  <2>1. e # new /\ phase[e] = "closing" /\ serialOf'[e] = serialOf[e]
    BY <1>3
  <2>2. CASE f = new
    BY <1>2, <1>3, <2>1, <2>2
  <2>3. CASE f # new
    BY <1>3, <2>1, <2>3 DEF HandleInv, RecordsInv, NotOpenAndClosing, Open
  <2> QED
    BY <2>2, <2>3
<1>8. PipeIsFed'
  <2> SUFFICES ASSUME NEW q \in Quiet
               PROVE  /\ producer'[q] # 0 <=> shared'[q] # 0 /\ piped'[shared'[q]]
                      /\ producer'[q] # 0 => producer'[q] = shared'[q]
    BY <1>4 DEF PipeIsFed
  <2>1. /\ producer[q] # 0 <=> shared[q] # 0 /\ piped[shared[q]]
        /\ producer[q] # 0 => producer[q] = shared[q]
        /\ q \in Serials
    BY DEF HandleInv, RecordsInv, PipeIsFed, Quiet
  <2>2. CASE q = s
    <3>1. shared'[q] = new /\ piped'[new] = withPipe
      BY <1>3, <2>1, <2>2
    <3>2. producer'[q] = IF withPipe THEN new ELSE 0
      BY <1>2, <1>3, <2>1, <2>2
    <3> QED
      BY <1>3, <3>1, <3>2
  <2>3. CASE q # s
    <3>1. shared'[q] = shared[q] /\ producer'[q] = producer[q]
      BY <1>3, <2>1, <2>3
    <3>2. shared[q] # 0 => shared[q] \in Entries /\ shared[q] # new
      <4>1. shared[q] # 0 => shared[q] \in Entries /\ phase[shared[q]] # "unused"
        BY <2>1 DEF CountInv, SharedIsOpen, Open
      <4>2. phase[new] = "unused"
        BY <1>3 DEF CountInv, UsedUpToEntries, TypeOK
      <4> QED
        BY <4>1, <4>2
    <3> QED
      BY <1>3, <2>1, <3>1, <3>2
  <2> QED
    BY <2>2, <2>3
<1> QED
  BY <1>3, <1>5, <1>6, <1>7, <1>8 DEF RecordsInv

(* What releaseAll() awaits, when no record it knew comes back to life. *)
LEMMA ReleaserFrame ==
  ASSUME TypeOK, ReleaserAwaits, UNCHANGED <<existed, releasing>>,
         releaser' = "waiting" => releaser = "waiting",
         entries' \in Int, entries <= entries', contended \subseteq contended',
         \A e \in Entries : e <= entries =>
           serialOf'[e] = serialOf[e] /\ (phase[e] = "released" => phase'[e] = "released")
  PROVE  ReleaserAwaits'
<1>1. \A s : s \in Quiet' => s \in Quiet
  BY DEF Quiet
<1>2. \A e \in existed : e \in Entries /\ e <= entries /\ e <= entries'
  BY DEF TypeOK, ReleaserAwaits, Entries
<1> QED
  BY <1>1, <1>2 DEF ReleaserAwaits

(* A step of the call c that touches no record. *)
LEMMA CallStep ==
  ASSUME TypeOK, HandleInv, NEW c \in Clients,
         UNCHANGED <<recordVars, mapVars, releaserVars>>, contended \subseteq contended',
         \A d \in Clients : d # c =>
           /\ pc'[d] = pc[d] /\ kind'[d] = kind[d] /\ wants'[d] = wants[d]
           /\ waits'[d] = waits[d] /\ found'[d] = found[d] /\ current'[d] = current[d],
         found'[c] \subseteq wants'[c], current'[c] \subseteq wants'[c],
         current'[c] # {} => pc'[c] = "configuring",
         pc'[c] \notin SlowPCs => wants'[c] = {},
         \A d \in Clients : d # c => wants'[c] \cap wants[d] \subseteq contended',
         \A e \in Entries :
           phase[e] = "closing" /\ serialOf[e] \in wants'[c] \cap Quiet' =>
             \/ pc'[c] = "gate"
             \/ pc'[c] = "closes" /\ e \in waits'[c],
         \A s \in wants'[c] \cap Quiet' :
           kind'[c] = "one" \/ s \in current'[c] => shared[s] = 0
  PROVE  HandleInv'
<1>1. \A s : s \in Quiet' => s \in Quiet
  BY DEF Quiet
<1>2. RecordsInv' /\ ReleaserAwaits'
  BY RecordsFrame DEF HandleInv, releaserVars
<1>3. WorkIsWanted'
  BY DEF HandleInv, CallsInv, WorkIsWanted, Slow
<1>4. OneDiscovery'
  BY DEF HandleInv, CallsInv, OneDiscovery
<1>5. ClosesAwaited'
  BY <1>1 DEF HandleInv, CallsInv, ClosesAwaited, recordVars
<1>6. StillToOpen'
  BY <1>1 DEF HandleInv, CallsInv, StillToOpen, mapVars
<1> QED
  BY <1>2, <1>3, <1>4, <1>5, <1>6 DEF HandleInv, CallsInv

(* The slow path is entered for serials that are not shared, or by
   acquireMany(), which looks again before it opens. *)
LEMMA EnterHandles ==
  ASSUME TypeOK, HandleInv, NEW c \in Clients, NEW k \in {"one", "many"}, NEW S \in SUBSET Serials,
         pc[c] \in {"out", "leasing"}, EnterSlowPath(c, k, S),
         k = "one" => \A s \in S : shared[s] = 0,
         UNCHANGED <<recordVars, mapVars, releaserVars, waits, found, current>>
  PROVE  HandleInv'
<1>1. pc[c] \notin SlowPCs /\ wants[c] = {} /\ found[c] = {} /\ current[c] = {}
  BY DEF HandleInv, CallsInv, WorkIsWanted, Slow, SlowPCs
<1>2. /\ pc'[c] = "gate" /\ kind'[c] = k /\ wants'[c] = S
      /\ \A d \in Clients : d # c =>
           pc'[d] = pc[d] /\ kind'[d] = kind[d] /\ wants'[d] = wants[d]
      /\ contended' = contended \union (S \cap InDiscovery(c))
  BY DEF EnterSlowPath, TypeOK
<1>3. \A d \in Clients : d # c => wants'[c] \cap wants[d] \subseteq contended'
  BY <1>2, Discovery
<1> QED
  BY <1>1, <1>2, <1>3, CallStep DEF SlowPCs

(* registerShared() for acquire(), for acquireMany(), or failing. *)
LEMMA RegisterHandles ==
  ASSUME TypeOK, CountInv, HandleInv, NEW c \in Clients, NEW s \in Serials,
         RegisterOne(c, s) \/ RegisterMany(c, s) \/ RegisterThrows(c, s)
  PROVE  HandleInv'
<1>1. /\ s \in current[c] /\ UNCHANGED <<contended, waits, releaserVars>>
      /\ \E withPipe \in BOOLEAN, n \in {0, 1} : NewShared(s, withPipe, n)
  BY DEF RegisterOne, RegisterMany, RegisterThrows
<1>2. /\ RecordsInv'
      /\ \A e \in Entries : phase'[e] = "closing" =>
           phase[e] = "closing" /\ serialOf'[e] = serialOf[e]
      /\ \A q \in Serials : q # s => shared'[q] = shared[q]
  BY <1>1, NewSharedHandles
<1>3. Quiet' = Quiet
  BY <1>1 DEF Quiet
<1>4. /\ \A d \in Clients : d # c =>
           /\ pc'[d] = pc[d] /\ kind'[d] = kind[d] /\ wants'[d] = wants[d]
           /\ found'[d] = found[d] /\ current'[d] = current[d]
      /\ current'[c] = {} /\ found'[c] \subseteq wants'[c]
      /\ \/ wants'[c] = {}
         \/ wants'[c] = wants[c] /\ pc'[c] = "registering" /\ kind'[c] = "many"
  <2> USE DEF TypeOK, LeaveSlowPath
  <2>1. CASE RegisterOne(c, s)
    BY <2>1 DEF RegisterOne
  <2>2. CASE RegisterMany(c, s)
    BY <2>2 DEF RegisterMany, HandleInv, CallsInv, WorkIsWanted
  <2>3. CASE RegisterThrows(c, s)
    BY <2>3 DEF RegisterThrows
  <2> QED
    BY <2>1, <2>2, <2>3
<1>5. pc[c] = "configuring" /\ s \in wants[c]
  BY <1>1 DEF HandleInv, CallsInv, WorkIsWanted
<1>6. WorkIsWanted'
  BY <1>4 DEF HandleInv, CallsInv, WorkIsWanted, Slow, SlowPCs
<1>7. \A d \in Clients : wants'[d] \subseteq wants[d]
  BY <1>4
<1>8. OneDiscovery'
  BY <1>1, <1>7 DEF HandleInv, CallsInv, OneDiscovery
<1>9. ClosesAwaited'
  <2> SUFFICES ASSUME NEW d \in Clients, NEW e \in Entries, phase'[e] = "closing",
                      serialOf'[e] \in wants'[d] \cap Quiet
               PROVE  pc'[d] = "gate" \/ (pc'[d] = "closes" /\ e \in waits'[d])
    BY <1>3 DEF ClosesAwaited
  <2>1. phase[e] = "closing" /\ serialOf[e] \in wants[d] \cap Quiet
    BY <1>2, <1>7
  <2>2. pc[d] = "gate" \/ (pc[d] = "closes" /\ e \in waits[d])
    BY <2>1 DEF HandleInv, CallsInv, ClosesAwaited
  <2>3. d # c
    BY <1>5, <2>2
  <2> QED
    BY <1>1, <1>4, <2>2, <2>3
<1>10. StillToOpen'
  <2> SUFFICES ASSUME NEW d \in Clients, NEW q \in wants'[d] \cap Quiet,
                      kind'[d] = "one" \/ q \in current'[d]
               PROVE  shared'[q] = 0
    BY <1>3 DEF StillToOpen
  <2>1. d # c
    BY <1>4
  <2>2. shared[q] = 0
    BY <1>4, <1>7, <2>1 DEF HandleInv, CallsInv, StillToOpen
  <2>3. q # s
    BY <1>4, <1>5, <2>1 DEF HandleInv, CallsInv, OneDiscovery, Quiet
  <2> QED
    BY <1>2, <2>2, <2>3 DEF Quiet
<1>11. ReleaserAwaits'
  <2>1. PICK withPipe \in BOOLEAN, n \in {0, 1} : NewShared(s, withPipe, n)
    BY <1>1
  <2>2. /\ entries' = entries + 1 /\ entries \in Int
        /\ \A e \in Entries : e <= entries =>
             serialOf'[e] = serialOf[e] /\ phase'[e] = phase[e]
    BY <2>1 DEF NewShared, TypeOK, Entries
  <2> QED
    BY <1>1, <2>2, ReleaserFrame DEF HandleInv, releaserVars
<1> QED
  BY <1>2, <1>6, <1>8, <1>9, <1>10, <1>11 DEF HandleInv, CallsInv

(* A call in progress. *)
LEMMA ProgressHandles ==
  ASSUME TypeOK, CountInv, HandleInv, NEW c \in Clients, Progress(c)
  PROVE  HandleInv'
<1> USE DEF SlowPCs
<1>1. /\ found[c] \subseteq wants[c] /\ current[c] \subseteq wants[c]
      /\ current[c] # {} => pc[c] = "configuring"
      /\ pc[c] \notin SlowPCs => wants[c] = {}
      /\ \A d \in Clients : d # c => wants[c] \cap wants[d] \subseteq contended
      /\ \A e \in Entries :
           phase[e] = "closing" /\ serialOf[e] \in wants[c] \cap Quiet =>
             pc[c] = "gate" \/ (pc[c] = "closes" /\ e \in waits[c])
      /\ \A s \in wants[c] \cap Quiet : kind[c] = "one" \/ s \in current[c] => shared[s] = 0
  BY DEF HandleInv, CallsInv, WorkIsWanted, OneDiscovery, ClosesAwaited, StillToOpen, Slow
<1>2. contended' = contended => Quiet' = Quiet
  BY DEF Quiet
<1>3. ASSUME NEW s \in Serials, LeaseShared(c, s)
      PROVE  HandleInv'
  <2>1. UNCHANGED <<entries, serialOf, phase, piped, mapVars, releaserVars, contended,
                    pc, kind, wants, waits, found, current>>
    BY <1>3 DEF LeaseShared
  <2>2. RecordsInv'
    BY <1>2, <2>1 DEF HandleInv, RecordsInv, OpenIsShared, ClosingIsRemembered,
                      NotOpenAndClosing, PipeIsFed, Open, mapVars
  <2>3. CallsInv'
    BY <2>1, CallsFrame DEF HandleInv, mapVars
  <2>4. ReleaserAwaits'
    BY <1>2, <2>1 DEF HandleInv, ReleaserAwaits, releaserVars
  <2> QED
    BY <2>2, <2>3, <2>4 DEF HandleInv
<1>4. ASSUME NEW s \in Serials, LeaseSlow(c, s)
      PROVE  HandleInv'
  BY <1>4, EnterHandles DEF LeaseSlow
<1>5. ASSUME NEW s \in Serials, SkipListed(c, s)
      PROVE  HandleInv'
  BY <1>1, <1>2, <1>5, CallStep DEF SkipListed, TypeOK
<1>6. ASSUME NEW s \in Serials, Configure(c, s)
      PROVE  HandleInv'
  <2>1. s \in wants[c]
    BY <1>1, <1>6 DEF Configure
  <2>2. s \in Quiet => shared[s] = 0
    BY <1>1, <1>6, <2>1 DEF Configure, AlreadyShared, TypeOK
  <2>3. /\ pc'[c] = "configuring" /\ current'[c] = {s} /\ found'[c] \subseteq found[c]
        /\ \A d \in Clients : d # c => pc'[d] = pc[d] /\ found'[d] = found[d]
                                                     /\ current'[d] = current[d]
        /\ UNCHANGED <<recordVars, mapVars, kind, wants, waits, releaserVars, contended>>
    BY <1>6 DEF Configure, TypeOK
  <2> QED
    BY <1>1, <1>2, <1>6, <2>1, <2>2, <2>3, CallStep DEF Configure
<1>7. ASSUME NEW s \in Serials,
             RegisterOne(c, s) \/ RegisterMany(c, s) \/ RegisterThrows(c, s)
      PROVE  HandleInv'
  BY <1>7, RegisterHandles
<1>8. ASSUME NEW S \in SUBSET Serials, Listed(c, S)
      PROVE  HandleInv'
  BY <1>1, <1>2, <1>8, CallStep DEF Listed, TypeOK
<1>9. CASE PassGate(c)
  <2>1. ASSUME NEW e \in Entries, phase[e] = "closing", serialOf[e] \in wants[c] \cap Quiet
        PROVE  e \in PendingCloses(wants[c])
    BY <2>1 DEF HandleInv, RecordsInv, ClosingIsRemembered, PendingCloses, Entries
  <2> QED
    BY <1>1, <1>2, <1>9, <2>1, CallStep DEF PassGate, TypeOK
<1>10. CASE PassCloses(c)
  <2>1. ASSUME NEW e \in Entries, phase[e] = "closing"
        PROVE  serialOf[e] \notin wants[c] \cap Quiet
    BY <1>1, <1>10, <2>1 DEF PassCloses
  <2> QED
    BY <1>1, <1>2, <1>10, <2>1, CallStep DEF PassCloses, TypeOK
<1>11. CASE DiscoveryEnds(c)
  BY <1>11, CallStep DEF DiscoveryEnds, LeaveSlowPath, TypeOK
<1>12. CASE Return(c)
  BY <1>1, <1>2, <1>12, CallStep DEF Return, TypeOK
<1> QED
  BY <1>3, <1>4, <1>5, <1>6, <1>7, <1>8, <1>9, <1>10, <1>11, <1>12 DEF Progress

(* A call that starts, or a client that gives its leases back. *)
LEMMA CallHandles ==
  ASSUME TypeOK, CountInv, HandleInv, NEW c \in Clients, Call(c)
  PROVE  HandleInv'
<1> USE DEF SlowPCs
<1>1. pc[c] \notin SlowPCs => wants[c] = {} /\ found[c] = {} /\ current[c] = {}
  BY DEF HandleInv, CallsInv, WorkIsWanted, Slow
<1>2. ASSUME NEW s \in Asks[c], CallAcquire(c, s)
      PROVE  HandleInv'
  BY <1>1, <1>2, CallStep DEF CallAcquire, TypeOK
<1>3. ASSUME NEW S \in SUBSET Asks[c], CallAcquireMany(c, S)
      PROVE  HandleInv'
  <2>1. CASE \E s \in S : shared[s] = 0
    BY <1>3, <2>1, EnterHandles DEF CallAcquireMany
  <2>2. CASE ~\E s \in S : shared[s] = 0
    BY <1>1, <1>3, <2>2, CallStep DEF CallAcquireMany, TypeOK
  <2> QED
    BY <2>1, <2>2
<1>4. CASE ReleaseLeases(c)
  <2>1. /\ LastLeaseOf(c) \in SUBSET Entries /\ \A e \in LastLeaseOf(c) : Open(e)
        /\ CloseShared(LastLeaseOf(c), RefsAfter(c))
        /\ UNCHANGED <<entries, serialOf, pc, kind, wants, waits, found, current, releaserVars>>
    BY <1>4 DEF ReleaseLeases, LastLeaseOf, Closable, TypeOK
  <2>2. RecordsInv' /\ CallsInv'
    BY <2>1, CloseSharedHandles
  <2>3. /\ contended \subseteq contended'
        /\ \A e \in Entries : phase[e] = "released" => phase'[e] = "released"
    BY <2>1 DEF CloseShared, Open
  <2>4. ReleaserAwaits'
    BY <2>1, <2>3, ReleaserFrame DEF HandleInv, releaserVars, TypeOK
  <2> QED
    BY <2>2, <2>4 DEF HandleInv
<1> QED
  BY <1>2, <1>3, <1>4 DEF Call

(* The steps that no call takes. *)
LEMMA RegistryStepHandles ==
  ASSUME TypeOK, CountInv, HandleInv,
         \/ HardwareClear \/ (\E e \in Entries : CloseSettles(e))
         \/ ReleaseAll \/ ReleaseAllSettles \/ UNCHANGED vars
  PROVE  HandleInv'
<1> USE DEF clientVars
<1>1. CASE HardwareClear \/ ReleaseAllSettles \/ UNCHANGED vars
  <2>1. /\ UNCHANGED <<recordVars, mapVars, clientVars, contended, existed, releasing>>
        /\ releaser' = "waiting" => releaser = "waiting"
    BY <1>1 DEF HardwareClear, ReleaseAllSettles, vars, releaserVars
  <2>2. RecordsInv' /\ ReleaserAwaits'
    BY <2>1, RecordsFrame DEF HandleInv
  <2>3. CallsInv'
    BY <2>1, CallsFrame DEF HandleInv, recordVars, mapVars
  <2> QED
    BY <2>2, <2>3 DEF HandleInv
<1>2. ASSUME NEW e \in Entries, CloseSettles(e)
      PROVE  HandleInv'
  <2>1. /\ phase[e] = "closing"
        /\ \A f \in Entries : phase'[f] = IF f = e THEN "released" ELSE phase[f]
        /\ \A s \in Serials : closingBySerial'[s] = IF closingBySerial[s] = e THEN 0
                                                    ELSE closingBySerial[s]
        /\ UNCHANGED <<entries, serialOf, piped, shared, producer, clientVars, releaserVars,
                       contended>>
    BY <1>2 DEF CloseSettles, TypeOK
  <2>2. Quiet' = Quiet
    BY <2>1 DEF Quiet
  <2>3. OpenIsShared' /\ PipeIsFed'
    BY <2>1, <2>2 DEF HandleInv, RecordsInv, OpenIsShared, PipeIsFed, Open
  <2>4. ClosingIsRemembered' /\ NotOpenAndClosing'
    BY <2>1, <2>2 DEF HandleInv, RecordsInv, ClosingIsRemembered, NotOpenAndClosing, Open,
                      TypeOK
  <2>5. CallsInv'
    BY <2>1, CallsFrame DEF HandleInv
  <2>6. ReleaserAwaits'
    BY <2>1, ReleaserFrame DEF HandleInv, releaserVars, TypeOK
  <2> QED
    BY <2>3, <2>4, <2>5, <2>6 DEF HandleInv, RecordsInv
<1>3. CASE ReleaseAll
  <2> DEFINE closes == {e \in Entries : Closable(e) /\ shared[serialOf[e]] = e}
  <2>1. /\ closes \in SUBSET Entries /\ \A e \in closes : Open(e)
        /\ CloseShared(closes, refs)
        /\ UNCHANGED <<entries, serialOf, clientVars>>
        /\ existed' = 1 .. entries
        /\ releasing' = AwaitedCloses(closes)
    BY <1>3 DEF ReleaseAll, Closable
  <2>2. RecordsInv' /\ CallsInv'
    BY <2>1, CloseSharedHandles
  <2>3. ASSUME NEW e \in 1 .. entries, serialOf[e] \in Quiet'
        PROVE  e \in releasing' \/ phase'[e] = "released"
    <3>1. e \in Entries /\ serialOf[e] \in Quiet
      BY <2>1, <2>3 DEF TypeOK, Entries, Quiet, CloseShared
    <3>2. phase[e] \in {"open", "closing", "released"}
      BY <2>3, <3>1 DEF CountInv, UsedUpToEntries, TypeOK
    <3>3. CASE phase[e] = "open"
      BY <2>1, <3>1, <3>3 DEF HandleInv, RecordsInv, OpenIsShared, Open, Closable, AwaitedCloses
    <3>4. CASE phase[e] = "closing"
      BY <2>1, <3>1, <3>4 DEF AwaitedCloses
    <3>5. CASE phase[e] = "released"
      BY <2>1, <3>1, <3>5 DEF CloseShared, Open
    <3> QED
      BY <3>2, <3>3, <3>4, <3>5
  <2>4. ReleaserAwaits'
    BY <2>1, <2>3 DEF ReleaserAwaits, TypeOK
  <2> QED
    BY <2>2, <2>4 DEF HandleInv
<1> QED
  BY <1>1, <1>2, <1>3

(* The records, the calls and the releaser agree about every quiet camera. *)
THEOREM Handles == Spec => []HandleInv
<1>1. Init => HandleInv
  BY DEF Init, HandleInv, RecordsInv, OpenIsShared, ClosingIsRemembered, NotOpenAndClosing,
         PipeIsFed, CallsInv, WorkIsWanted, OneDiscovery, ClosesAwaited, StillToOpen,
         ReleaserAwaits, Open, Quiet
<1>2. TypeOK /\ CountInv /\ HandleInv /\ [Next]_vars => HandleInv'
  BY ProgressHandles, CallHandles, RegistryStepHandles DEF Next
<1> QED
  BY <1>1, <1>2, Counting, PTL DEF Spec

(* Two native handles never exist at once on a camera whose acquisitions did
   not overlap one another or a close. *)
THEOREM OneHandle == Spec => []OneHandlePerCamera
<1>1. TypeOK /\ HandleInv => OneHandlePerCamera
  <2> SUFFICES ASSUME TypeOK, HandleInv, NEW s \in Quiet
               PROVE  Cardinality(LiveHandles(s)) <= 1
    BY DEF OneHandlePerCamera
  <2>1. ASSUME NEW e \in LiveHandles(s), NEW f \in LiveHandles(s)
        PROVE  e = f
    BY DEF LiveHandles, HandleInv, RecordsInv, OpenIsShared, ClosingIsRemembered,
           NotOpenAndClosing, Open
  <2>2. CASE LiveHandles(s) = {}
    BY <2>2, FS_EmptySet
  <2>3. CASE LiveHandles(s) # {}
    <3>1. PICK e \in LiveHandles(s) : TRUE
      BY <2>3
    <3>2. LiveHandles(s) = {e}
      BY <2>1, <3>1
    <3> QED
      BY <3>2, FS_Singleton
  <2> QED
    BY <2>2, <2>3
<1> QED
  BY <1>1, Counting, Handles, PTL

(* All lessees of a camera act on the one handle that is open, and its pipe
   is fed exactly while it is. *)
THEOREM SharedHandle == Spec => []OpenMeansShared
<1>1. TypeOK /\ CountInv /\ HandleInv => OpenMeansShared
  <2> SUFFICES ASSUME TypeOK, CountInv, HandleInv, NEW s \in Quiet
               PROVE  /\ \A e \in LiveHandles(s) : Open(e) => shared[s] = e
                      /\ shared[s] # 0 => Open(shared[s]) /\ serialOf[shared[s]] = s
                      /\ producer[s] # 0 <=> shared[s] # 0 /\ piped[shared[s]]
                      /\ producer[s] # 0 => producer[s] = shared[s]
    BY DEF OpenMeansShared
  <2>1. \A e \in LiveHandles(s) : Open(e) => shared[s] = e
    BY DEF LiveHandles, HandleInv, RecordsInv, OpenIsShared
  <2>2. shared[s] # 0 => Open(shared[s]) /\ serialOf[shared[s]] = s
    BY DEF CountInv, SharedIsOpen, Quiet
  <2>3. /\ producer[s] # 0 <=> shared[s] # 0 /\ piped[shared[s]]
        /\ producer[s] # 0 => producer[s] = shared[s]
    BY DEF HandleInv, RecordsInv, PipeIsFed
  <2> QED
    BY <2>1, <2>2, <2>3
<1> QED
  BY <1>1, Counting, Handles, PTL

(* When releaseAll() resolves, every camera that was open or closing when it
   was called has been released. *)
THEOREM LetsGo == Spec => ReleaseAllLetsGo
<1> DEFINE A == releaser = "waiting" /\ releaser' = "done" =>
                  \A e \in existed : serialOf[e] \in Quiet => phase[e] = "released"
<1>1. TypeOK /\ HandleInv /\ [Next]_vars => [A]_vars
  <2> SUFFICES ASSUME TypeOK, HandleInv, Next, releaser = "waiting", releaser' = "done",
                      NEW e \in existed, serialOf[e] \in Quiet
               PROVE  phase[e] = "released"
    OBVIOUS
  <2>1. ReleaseAllSettles
    BY DEF Next, HardwareClear, Call, CallAcquire, CallAcquireMany, ReleaseLeases, Progress,
           LeaseShared, LeaseSlow, SkipListed, Configure, RegisterOne, RegisterMany,
           RegisterThrows, Listed, PassGate, PassCloses, DiscoveryEnds, Return, CloseSettles,
           ReleaseAll, releaserVars
  <2> QED
    BY <2>1 DEF ReleaseAllSettles, HandleInv, ReleaserAwaits
<1> QED
  BY <1>1, Counting, Handles, PTL DEF Spec, ReleaseAllLetsGo

-----------------------------------------------------------------------------

(***************************************************************************)
(* The pipe broker: for every finite set of channels and every set of      *)
(* components and pipes, the reference count of a pipe is the sum of what  *)
(* the ledger holds for the channels, and the producer runs while it is    *)
(* not zero.  The two need each other: a count is given back only when the *)
(* ledger has it, so that it is never less, and a pipe that was dropped    *)
(* while it was held is tainted by then.                                   *)
(***************************************************************************)
USE ChannelsAssumption

\* The pairs whose number is the sum of the counts.
Pairs(counts) == UNION {{c} \X (1..counts[c]) : c \in Channels}

(* A sum of counts is a number, and no less than any of them. *)
LEMMA TotalIsNumber ==
  ASSUME NEW counts \in [Channels -> Nat]
  PROVE  /\ IsFiniteSet(Pairs(counts))
         /\ Total(counts) = Cardinality(Pairs(counts))
         /\ Total(counts) \in Nat
         /\ \A c \in Channels : counts[c] <= Total(counts)
<1> DEFINE Of(c) == {c} \X (1..counts[c])
           S == {Of(c) : c \in Channels}
           f == [c \in Channels |-> Of(c)]
<1>1. \A c \in Channels : IsFiniteSet(Of(c)) /\ Cardinality(Of(c)) = counts[c]
  <2> TAKE c \in Channels
  <2>1. IsFiniteSet(1..counts[c]) /\ Cardinality(1..counts[c]) = counts[c]
    BY FS_Interval
  <2>2. IsFiniteSet({c}) /\ Cardinality({c}) = 1
    BY FS_Singleton
  <2>3. /\ IsFiniteSet({c} \X (1..counts[c]))
        /\ Cardinality({c} \X (1..counts[c])) = 1 * counts[c]
    BY ONLY <2>1, <2>2, FS_Product
  <2> QED
    BY <2>3
<1>2. IsFiniteSet(S)
  <2>1. f \in Surjection(Channels, S)
    BY DEF Surjection
  <2> QED
    BY <2>1, FS_Surjection
<1>3. IsFiniteSet(Pairs(counts))
  <2>1. \A T \in S : IsFiniteSet(T)
    BY <1>1
  <2>2. IsFiniteSet(UNION S)
    BY <1>2, <2>1, FS_UNION
  <2>3. Pairs(counts) = UNION S
    BY Zenon DEF Pairs
  <2> QED
    BY <2>2, <2>3
<1>4. Total(counts) = Cardinality(Pairs(counts))
  BY Zenon DEF Total, Pairs
<1>5. Total(counts) \in Nat
  BY <1>3, <1>4, FS_CardinalityType
<1>6. ASSUME NEW c \in Channels PROVE counts[c] <= Total(counts)
  <2>1. Of(c) \subseteq Pairs(counts)
    BY DEF Pairs
  <2>2. Cardinality(Of(c)) <= Cardinality(Pairs(counts))
    BY <2>1, <1>3, FS_Subset
  <2> QED
    BY <2>2, <1>1, <1>4
<1> QED
  BY <1>3, <1>4, <1>5, <1>6

(* When the count of one channel changes, the sum changes by as much. *)
LEMMA TotalChanges ==
  ASSUME NEW counts \in [Channels -> Nat],
         NEW c \in Channels, NEW n \in Nat
  PROVE  Total([counts EXCEPT ![c] = n]) = Total(counts) - counts[c] + n
<1> DEFINE after == [counts EXCEPT ![c] = n]
           Old == {c} \X (1..counts[c])
           New == {c} \X (1..n)
           Rest == Pairs(counts) \ Old
<1>1. after \in [Channels -> Nat]
  OBVIOUS
<1>2. /\ IsFiniteSet(Pairs(counts)) /\ Total(counts) = Cardinality(Pairs(counts))
      /\ IsFiniteSet(Pairs(after)) /\ Total(after) = Cardinality(Pairs(after))
  BY <1>1, TotalIsNumber
<1>3. ASSUME NEW k \in Nat
      PROVE  IsFiniteSet({c} \X (1..k)) /\ Cardinality({c} \X (1..k)) = k
  <2>1. IsFiniteSet(1..k) /\ Cardinality(1..k) = k
    BY FS_Interval
  <2>2. IsFiniteSet({c}) /\ Cardinality({c}) = 1
    BY FS_Singleton
  <2>3. /\ IsFiniteSet({c} \X (1..k))
        /\ Cardinality({c} \X (1..k)) = 1 * k
    BY ONLY <2>1, <2>2, FS_Product
  <2> QED
    BY <2>3
<1>4. IsFiniteSet(Old) /\ Cardinality(Old) = counts[c]
  BY <1>3
<1>5. IsFiniteSet(New) /\ Cardinality(New) = n
  BY <1>3
<1>6. Pairs(counts) \cap Old = Old
  BY DEF Pairs
<1>7. IsFiniteSet(Rest) /\ Cardinality(Rest) = Total(counts) - counts[c]
  <2> HIDE DEF Old
  <2>1. /\ IsFiniteSet(Rest)
        /\ Cardinality(Rest) = Cardinality(Pairs(counts)) - Cardinality(Pairs(counts) \cap Old)
    BY <1>2, FS_Difference
  <2> QED
    BY <2>1, <1>2, <1>4, <1>6
<1>8. Pairs(after) = Rest \union New
  <2>1. \A d \in Channels : d # c => after[d] = counts[d]
    OBVIOUS
  <2>2. after[c] = n
    OBVIOUS
  <2> HIDE DEF after
  <2>3. ASSUME NEW x \in Pairs(after) PROVE x \in Rest \union New
    <3>1. PICK d \in Channels : x \in {d} \X (1..after[d])
      BY DEF Pairs
    <3>2. CASE d = c
      BY <3>1, <3>2, <2>2
    <3>3. CASE d # c
      <4>1. x \in {d} \X (1..counts[d])
        BY <3>1, <3>3, <2>1
      <4>2. x \in Pairs(counts)
        BY <4>1 DEF Pairs
      <4>3. x \notin Old
        BY <4>1, <3>3
      <4> QED
        BY <4>2, <4>3
    <3> QED
      BY <3>2, <3>3
  <2>4. ASSUME NEW x, x \in Rest \union New PROVE x \in Pairs(after)
    <3>1. CASE x \in New
      BY <3>1, <2>2 DEF Pairs
    <3>2. CASE x \in Rest
      <4>1. PICK d \in Channels : x \in {d} \X (1..counts[d])
        BY <3>2 DEF Pairs
      <4>2. d # c
        BY <4>1, <3>2
      <4>3. x \in {d} \X (1..after[d])
        BY <4>1, <4>2, <2>1
      <4> QED
        BY <4>3 DEF Pairs
    <3> QED
      BY <3>1, <3>2, <2>4
  <2> QED
    BY <2>3, <2>4
<1>9. Rest \cap New = {}
  <2> SUFFICES ASSUME NEW x \in Rest, x \in New PROVE FALSE
    OBVIOUS
  <2>1. PICK d \in Channels : x \in {d} \X (1..counts[d])
    BY DEF Pairs
  <2>2. d = c
    BY <2>1
  <2> QED
    BY <2>1, <2>2
<1>10. Cardinality({}) = 0
  BY FS_EmptySet
<1>11. Cardinality(Pairs(after)) = Cardinality(Rest) + n - 0
  <2> HIDE DEF Rest, New, after
  <2>1. Cardinality(Rest \union New)
          = Cardinality(Rest) + Cardinality(New) - Cardinality(Rest \cap New)
    BY <1>5, <1>7, FS_Union
  <2> QED
    BY <2>1, <1>5, <1>8, <1>9, <1>10
<1>12. Total(counts) \in Nat
  BY TotalIsNumber
<1> QED
  BY <1>2, <1>7, <1>11, <1>12

(* Counts that are all zero sum to zero. *)
LEMMA TotalOfNothing ==
  ASSUME NEW counts \in [Channels -> Nat], \A c \in Channels : counts[c] = 0
  PROVE  Total(counts) = 0
<1>1. Pairs(counts) = {}
  BY DEF Pairs
<1>2. Total(counts) = Cardinality(Pairs(counts))
  BY Zenon DEF Total, Pairs
<1> QED
  BY <1>1, <1>2, FS_EmptySet

-----------------------------------------------------------------------------
(* The accounts: the part of BrokerTypeOK they need, the producers, and what is
   still held of a pipe that is gone. *)
AccountsTypeOK ==
  /\ live \subseteq Pipes
  /\ refcount \in [Pipes -> Nat]
  /\ producing \in [Pipes -> BOOLEAN]
  /\ ledger \in [Channels -> [Pipes -> Nat]]

\* A pipe that is not advertised but still held was tainted when it was dropped.
DroppedAreTainted == \A p \in Pipes \ live : Holders(p) # {} => p \in tainted

AccountsInv ==
  /\ AccountsTypeOK
  /\ ProducerFollowsDemand
  /\ DroppedAreTainted
  /\ AccountsAgree

(* Nobody is counted at the start. *)
LEMMA AccountsInit ==
  ASSUME BrokerInit
  PROVE  AccountsInv
<1>1. AccountsTypeOK
  BY DEF BrokerInit, AccountsTypeOK, NoAdverts
<1>2. ProducerFollowsDemand
  BY DEF BrokerInit, ProducerFollowsDemand
<1>3. DroppedAreTainted
  <2>1. \A p \in Pipes, c \in Channels : ledger[c][p] = 0
    BY DEF BrokerInit, NoAdverts
  <2> QED
    BY <2>1 DEF DroppedAreTainted, Holders
<1>4. AccountsAgree
  BY DEF BrokerInit, AccountsAgree
<1> QED
  BY <1>1, <1>2, <1>3, <1>4 DEF AccountsInv

(* A function on the pipes, changed at one of them, or at no pipe at all. *)
LEMMA CountedPipe ==
  /\ \A f \in [Pipes -> Nat], p \in Pipes, n \in Nat : [f EXCEPT ![p] = n] \in [Pipes -> Nat]
  /\ \A f \in [Pipes -> Nat] : \A p, n : p \notin Pipes => [f EXCEPT ![p] = n] = f
  /\ \A f \in [Pipes -> BOOLEAN], p \in Pipes, n \in BOOLEAN :
       [f EXCEPT ![p] = n] \in [Pipes -> BOOLEAN]
  OBVIOUS

AccountsSame ==
  UNCHANGED <<live, refcount, producing, ledger, tainted>>

(* A step that leaves the accounts alone keeps the invariant. *)
LEMMA AccountsStutter ==
  ASSUME AccountsInv, AccountsSame
  PROVE  AccountsInv'
<1>1. \A p : Counts(p)' = Counts(p)
  BY DEF Counts, AccountsSame
<1>2. \A p : (Total(Counts(p)))' = Total(Counts(p))
  BY <1>1 DEF Total
<1> QED
  BY <1>2 DEF AccountsInv, AccountsSame, AccountsTypeOK, ProducerFollowsDemand,
      DroppedAreTainted, Holders, AccountsAgree

(* AccountsAgree in the next state, with the sum written out. *)
LEMMA AgreeNext ==
  AccountsAgree' <=> \A p \in live' \ tainted' : refcount'[p] = Total(Counts(p)')
<1>1. \A p : (Total(Counts(p)))' = Total(Counts(p)')
  BY DEF Total
<1> QED
  BY <1>1 DEF AccountsAgree

(* An advert of an id nobody holds starts a count of zero; one that is still held is
   tainted. *)
LEMMA AccountsAdvertise ==
  ASSUME AccountsInv, NEW p \in Pipes, Advertise(p)
  PROVE  AccountsInv'
<1>1. AccountsTypeOK'
  BY DEF AccountsInv, AccountsTypeOK, Advertise
<1>2. ProducerFollowsDemand'
  BY DEF AccountsInv, AccountsTypeOK, Advertise, ProducerFollowsDemand
<1>3. DroppedAreTainted'
  BY DEF AccountsInv, AccountsTypeOK, Advertise, DroppedAreTainted, Holders
<1>4. AccountsAgree'
  <2> SUFFICES ASSUME NEW q \in live' \ tainted' 
               PROVE  refcount'[q] = Total(Counts(q)')
    BY AgreeNext DEF AccountsAgree
  <2>1. Counts(q)' = Counts(q)
    BY DEF Counts, Advertise
  <2>2. CASE q = p
    <3>1. Holders(p) = {}
      BY <2>2 DEF AccountsInv, DroppedAreTainted, Advertise
    <3>2. Counts(p) \in [Channels -> Nat] /\ \A c \in Channels : Counts(p)[c] = 0
      BY <3>1 DEF Counts, Holders, AccountsInv, AccountsTypeOK
    <3>3. Total(Counts(p)) = 0
      BY <3>2, TotalOfNothing
    <3> QED
      BY <2>1, <2>2, <3>3 DEF Advertise, AccountsInv, AccountsTypeOK
  <2>3. CASE q # p
    <3>1. q \in live \ tainted /\ refcount'[q] = refcount[q]
      BY <2>3 DEF Advertise, AccountsInv, AccountsTypeOK
    <3> QED
      BY <2>1, <3>1 DEF AccountsInv, AccountsAgree
  <2> QED
    BY <2>2, <2>3
<1> QED
  BY <1>1, <1>2, <1>3, <1>4 DEF AccountsInv

(* A drop parks the producer and taints a pipe that is still held. *)
LEMMA AccountsDrop ==
  ASSUME AccountsInv, NEW p \in Pipes, Drop(p)
  PROVE  AccountsInv'
<1>1. AccountsTypeOK'
  BY DEF AccountsInv, AccountsTypeOK, Drop, GateAfterDrop
<1>2. ProducerFollowsDemand'
  BY DEF AccountsInv, AccountsTypeOK, Drop, GateAfterDrop, ProducerFollowsDemand
<1>3. DroppedAreTainted'
  BY DEF AccountsInv, AccountsTypeOK, Drop, DroppedAreTainted, Holders
<1>4. AccountsAgree'
  <2> SUFFICES ASSUME NEW q \in live' \ tainted'
               PROVE  refcount'[q] = Total(Counts(q)')
    BY AgreeNext DEF AccountsAgree
  <2>1. Counts(q)' = Counts(q)
    BY DEF Counts, Drop
  <2>2. q \in live \ tainted /\ refcount'[q] = refcount[q]
    BY DEF Drop, AccountsInv, AccountsTypeOK
  <2> QED
    BY <2>1, <2>2 DEF AccountsInv, AccountsAgree
<1> QED
  BY <1>1, <1>2, <1>3, <1>4 DEF AccountsInv

(* The counts of a pipe after the ledger's entry of one channel changed. *)
LEMMA CountsChange ==
  ASSUME AccountsTypeOK, AccountsTypeOK',
         NEW c \in Channels, NEW p \in Pipes,
         \A d \in Channels \ {c} : ledger'[d][p] = ledger[d][p]
  PROVE  /\ Total(Counts(p)') = Total(Counts(p)) - ledger[c][p] + ledger'[c][p]
         /\ ledger[c][p] <= Total(Counts(p))
         /\ Total(Counts(p)) \in Nat
<1>1. Counts(p) \in [Channels -> Nat] /\ ledger'[c][p] \in Nat /\ Counts(p)[c] = ledger[c][p]
  BY DEF Counts, AccountsTypeOK
<1>2. Counts(p)' = [Counts(p) EXCEPT ![c] = ledger'[c][p]]
  BY DEF Counts
<1>3. Total(Counts(p)') = Total(Counts(p)) - Counts(p)[c] + ledger'[c][p]
  <2>1. \A f \in [Channels -> Nat] : \A n \in Nat :
          Total([f EXCEPT ![c] = n]) = Total(f) - f[c] + n
    BY TotalChanges
  <2>2. Total([Counts(p) EXCEPT ![c] = ledger'[c][p]])
          = Total(Counts(p)) - Counts(p)[c] + ledger'[c][p]
    BY ONLY <1>1, <2>1
  <2> QED
    BY <1>2, <2>2
<1>4. Total(Counts(p)) \in Nat /\ Counts(p)[c] <= Total(Counts(p))
  BY <1>1, TotalIsNumber
<1> QED
  BY <1>1, <1>3, <1>4

(* A connect counts once on each side, or on neither. *)
LEMMA AccountsConnect ==
  ASSUME AccountsInv, NEW c \in Channels, HandleConnect(c)
  PROVE  AccountsInv'
<1> DEFINE p == Head(uplink[c]).pipe
<1>1. CASE p \notin live
  BY <1>1, AccountsStutter DEF HandleConnect, AccountsSame
<1>2. CASE p \in live
  <2>1. /\ p \in Pipes
        /\ live' = live /\ tainted' = tainted
        /\ refcount' = [refcount EXCEPT ![p] = @ + 1]
        /\ producing' = [producing EXCEPT ![p] = GateAfterConnect(p)]
        /\ ledger' = [ledger EXCEPT ![c][p] = @ + 1]
    BY <1>2 DEF HandleConnect, AccountsInv, AccountsTypeOK
  <2> HIDE DEF p
  <2>2. AccountsTypeOK'
    <3>1. refcount' \in [Pipes -> Nat] /\ producing' \in [Pipes -> BOOLEAN]
      <4>1. refcount \in [Pipes -> Nat] /\ refcount[p] + 1 \in Nat
        BY <2>1 DEF AccountsInv, AccountsTypeOK
      <4>2. producing \in [Pipes -> BOOLEAN] /\ GateAfterConnect(p) \in BOOLEAN
        BY <2>1, Zenon DEF AccountsInv, AccountsTypeOK, GateAfterConnect
      <4> HIDE DEF GateAfterConnect
      <4> QED
        BY <2>1, <4>1, <4>2, CountedPipe
    <3>2. ledger[c] \in [Pipes -> Nat] /\ ledger[c][p] \in Nat
      BY <2>1 DEF AccountsInv, AccountsTypeOK
    <3>3. [ledger[c] EXCEPT ![p] = @ + 1] \in [Pipes -> Nat]
      BY <2>1, <3>2, CountedPipe
    <3>4. ledger' \in [Channels -> [Pipes -> Nat]]
      BY <2>1, <3>3 DEF AccountsInv, AccountsTypeOK
    <3> QED
      BY <2>1, <3>1, <3>4 DEF AccountsInv, AccountsTypeOK
  <2>3. ProducerFollowsDemand'
    BY <2>1, <1>2 DEF AccountsInv, AccountsTypeOK, ProducerFollowsDemand, GateAfterConnect
  <2>4. DroppedAreTainted'
    BY <2>1, <1>2 DEF AccountsInv, AccountsTypeOK, DroppedAreTainted, Holders
  <2>5. AccountsAgree'
    <3> SUFFICES ASSUME NEW q \in live \ tainted
                 PROVE  refcount'[q] = Total(Counts(q)')
      BY <2>1 DEF AccountsAgree
    <3>1. q \in Pipes /\ refcount[q] = Total(Counts(q))
      BY DEF AccountsInv, AccountsTypeOK, AccountsAgree
    <3>2. \A d \in Channels \ {c} : ledger'[d][q] = ledger[d][q]
      BY <2>1 DEF AccountsInv, AccountsTypeOK
    <3>3. /\ Total(Counts(q)') = Total(Counts(q)) - ledger[c][q] + ledger'[c][q]
          /\ Total(Counts(q)) \in Nat
      BY <3>1, <3>2, <2>2, CountsChange DEF AccountsInv
    <3>4. ledger[c][q] \in Nat /\ ledger'[c][q] = IF q = p THEN ledger[c][q] + 1 ELSE ledger[c][q]
      BY <2>1, <3>1 DEF AccountsInv, AccountsTypeOK
    <3>5. refcount'[q] = IF q = p THEN refcount[q] + 1 ELSE refcount[q]
      BY <2>1, <3>1 DEF AccountsInv, AccountsTypeOK
    <3> QED
      BY <3>1, <3>3, <3>4, <3>5
  <2> QED
    BY <2>2, <2>3, <2>4, <2>5 DEF AccountsInv
<1> QED
  BY <1>1, <1>2

(* A disconnect takes from the count what it takes from the ledger of its channel. *)
LEMMA AccountsDisconnect ==
  ASSUME AccountsInv, NEW c \in Channels, HandleDisconnect(c)
  PROVE  AccountsInv'
<1> DEFINE p == Head(uplink[c]).pipe
           releases == MayRelease(c, p) /\ p \in live
<1>1. /\ live' = live /\ tainted' = tainted
      /\ ledger' = [ledger EXCEPT ![c][p] = IF @ > 0 THEN @ - 1 ELSE 0]
      /\ releases => /\ refcount' = [refcount EXCEPT ![p] = CountAfterRelease(p, 1)]
                     /\ producing' = [producing EXCEPT ![p] = GateAfterRelease(p, 1)]
      /\ ~ releases => refcount' = refcount /\ producing' = producing
  BY DEF HandleDisconnect
<1> HIDE DEF p
<1>2. AccountsTypeOK'
  <2>1. ledger[c] \in [Pipes -> Nat]
    BY DEF AccountsInv, AccountsTypeOK
  <2>2. [ledger[c] EXCEPT ![p] = IF @ > 0 THEN @ - 1 ELSE 0] \in [Pipes -> Nat]
    <3>1. CASE p \in Pipes
      <4>1. (IF ledger[c][p] > 0 THEN ledger[c][p] - 1 ELSE 0) \in Nat
        BY <2>1, <3>1
      <4> QED
        BY <2>1, <3>1, <4>1, CountedPipe
    <3>2. CASE p \notin Pipes
      BY <2>1, <3>2, CountedPipe
    <3> QED
      BY <3>1, <3>2
  <2>3. ledger' \in [Channels -> [Pipes -> Nat]]
    BY <1>1, <2>2 DEF AccountsInv, AccountsTypeOK
  <2>4. CASE releases
    <3>1. refcount' \in [Pipes -> Nat]
      BY <1>1, <2>4 DEF AccountsInv, AccountsTypeOK, CountAfterRelease
    <3>2. producing' \in [Pipes -> BOOLEAN]
      BY <1>1, <2>4 DEF AccountsInv, AccountsTypeOK, GateAfterRelease
    <3> QED
      BY <1>1, <2>3, <3>1, <3>2 DEF AccountsInv, AccountsTypeOK
  <2>5. CASE ~ releases
    BY <1>1, <2>3, <2>5 DEF AccountsInv, AccountsTypeOK
  <2> QED
    BY <2>4, <2>5
<1>3. ProducerFollowsDemand'
  <2>1. CASE releases
    <3> SUFFICES ASSUME NEW q \in Pipes
                 PROVE  producing'[q] <=> q \in live /\ refcount'[q] > 0
      BY <1>1 DEF ProducerFollowsDemand
    <3>1. producing[q] <=> q \in live /\ refcount[q] > 0
      BY DEF AccountsInv, ProducerFollowsDemand
    <3>2. q # p => producing'[q] = producing[q] /\ refcount'[q] = refcount[q]
      BY <1>1, <2>1 DEF AccountsInv, AccountsTypeOK
    <3>3. q = p => /\ producing'[q] = GateAfterRelease(q, 1)
                   /\ refcount'[q] = CountAfterRelease(q, 1)
                   /\ q \in live
      BY <1>1, <2>1 DEF AccountsInv, AccountsTypeOK
    <3>4. refcount[q] \in Nat /\ producing[q] \in BOOLEAN
      BY DEF AccountsInv, AccountsTypeOK
    <3>5. CASE q = p
      <4>1. CASE refcount[q] > 1
        <5>1. refcount'[q] > 0 /\ refcount[q] > 0 /\ ~ refcount[q] <= 1
          BY <3>3, <3>4, <3>5, <4>1 DEF CountAfterRelease
        <5>2. producing'[q] = producing[q]
          BY <3>3, <3>5, <5>1, Zenon DEF GateAfterRelease
        <5> QED
          BY <3>1, <5>1, <5>2, Zenon
      <4>2. CASE ~ refcount[q] > 1
        <5>1. refcount'[q] = 0 /\ ~ 0 > 0 /\ refcount[q] <= 1
          BY <3>3, <3>4, <3>5, <4>2 DEF CountAfterRelease
        <5>2. producing'[q] = IF refcount[q] > 0 THEN FALSE ELSE producing[q]
          BY <3>3, <3>5, <5>1, Zenon DEF GateAfterRelease
        <5> QED
          BY <3>1, <5>1, <5>2, Zenon
      <4> QED
        BY <4>1, <4>2
    <3> QED
      BY <3>1, <3>2, <3>5
  <2>2. CASE ~ releases
    BY <1>1, <2>2 DEF AccountsInv, ProducerFollowsDemand
  <2> QED
    BY <2>1, <2>2
<1>4. \A d \in Channels, q \in Pipes :
        ledger'[d][q] = IF d = c /\ q = p /\ ledger[d][q] > 0 THEN ledger[d][q] - 1
                        ELSE ledger[d][q]
  BY <1>1 DEF AccountsInv, AccountsTypeOK
<1>5. DroppedAreTainted'
  BY <1>1, <1>4 DEF AccountsInv, AccountsTypeOK, DroppedAreTainted, Holders
<1>6. AccountsAgree'
  <2> SUFFICES ASSUME NEW q \in live \ tainted
               PROVE  refcount'[q] = Total(Counts(q)')
    BY <1>1 DEF AccountsAgree
  <2>1. q \in Pipes /\ refcount[q] = Total(Counts(q)) /\ ledger[c][q] \in Nat
    BY DEF AccountsInv, AccountsTypeOK, AccountsAgree
  <2>2. /\ Total(Counts(q)') = Total(Counts(q)) - ledger[c][q] + ledger'[c][q]
        /\ Total(Counts(q)) \in Nat
        /\ ledger[c][q] <= Total(Counts(q))
    BY <2>1, <1>4, <1>2, CountsChange DEF AccountsInv
  <2>3. CASE q = p /\ ledger[c][q] > 0
    <3>1. ledger'[c][q] = ledger[c][q] - 1
      BY <2>3, <1>4, <2>1
    <3>2. refcount'[q] = CountAfterRelease(q, 1)
      BY <2>3, <1>1, <2>1 DEF MayRelease, AccountsInv, AccountsTypeOK
    <3> QED
      BY <3>1, <3>2, <2>1, <2>2, <2>3 DEF CountAfterRelease
  <2>4. CASE ~ (q = p /\ ledger[c][q] > 0)
    <3>1. ledger'[c][q] = ledger[c][q]
      BY <2>4, <1>4, <2>1
    <3>2. refcount'[q] = refcount[q]
      BY <2>4, <1>1, <2>1 DEF MayRelease, AccountsInv, AccountsTypeOK
    <3> QED
      BY <3>1, <3>2, <2>1, <2>2
  <2> QED
    BY <2>3, <2>4
<1> QED
  BY <1>2, <1>3, <1>5, <1>6 DEF AccountsInv

(* A closing channel gives back all it holds, or taints what it does not. *)
LEMMA AccountsClosed ==
  ASSUME AccountsInv, NEW c \in Channels, HandleClosed(c)
  PROVE  AccountsInv'
<1> DEFINE held == {p \in Pipes : ledger[c][p] > 0}
<1>1. PICK undone \in SUBSET (held \intersect live) :
        /\ refcount' = [p \in Pipes |->
             IF p \in undone THEN CountAfterRelease(p, ToReconcile(c, p))
             ELSE refcount[p]]
        /\ producing' = [p \in Pipes |->
             IF p \in undone THEN GateAfterRelease(p, ToReconcile(c, p))
             ELSE producing[p]]
        /\ tainted' = tainted \union ((held \intersect live) \ undone)
  BY DEF HandleClosed
<1>2. live' = live /\ ledger' = [ledger EXCEPT ![c] = NoAdverts]
  BY DEF HandleClosed
<1>3. \A p \in Pipes : ledger[c][p] \in Nat /\ refcount[p] \in Nat /\ producing[p] \in BOOLEAN
  BY DEF AccountsInv, AccountsTypeOK
<1>4. AccountsTypeOK'
  <2>1. ledger' \in [Channels -> [Pipes -> Nat]]
    BY <1>2 DEF AccountsInv, AccountsTypeOK, NoAdverts
  <2>2. refcount' \in [Pipes -> Nat]
    BY <1>1, <1>3 DEF CountAfterRelease, ToReconcile
  <2>3. producing' \in [Pipes -> BOOLEAN]
    BY <1>1, <1>3 DEF GateAfterRelease, ToReconcile
  <2> QED
    BY <1>2, <2>1, <2>2, <2>3 DEF AccountsInv, AccountsTypeOK
<1>5. ProducerFollowsDemand'
  <2> SUFFICES ASSUME NEW p \in Pipes
               PROVE  producing'[p] <=> p \in live /\ refcount'[p] > 0
    BY <1>2 DEF ProducerFollowsDemand
  <2>1. producing[p] <=> p \in live /\ refcount[p] > 0
    BY DEF AccountsInv, ProducerFollowsDemand
  <2>2. CASE p \in undone
    <3>1. /\ refcount'[p] = CountAfterRelease(p, ledger[c][p])
          /\ producing'[p] = GateAfterRelease(p, ledger[c][p])
          /\ p \in live
      BY <1>1, <2>2 DEF ToReconcile
    <3> QED
      BY <3>1, <2>1, <1>3 DEF CountAfterRelease, GateAfterRelease
  <2>3. CASE p \notin undone
    BY <1>1, <2>1, <2>3
  <2> QED
    BY <2>2, <2>3
<1>6. \A d \in Channels, q \in Pipes :
        ledger'[d][q] = IF d = c THEN 0 ELSE ledger[d][q]
  BY <1>2 DEF AccountsInv, AccountsTypeOK, NoAdverts
<1>7. DroppedAreTainted'
  BY <1>1, <1>2, <1>6 DEF AccountsInv, DroppedAreTainted, Holders
<1>8. AccountsAgree'
  <2> SUFFICES ASSUME NEW q \in live \ tainted'
               PROVE  refcount'[q] = Total(Counts(q)')
    BY <1>2 DEF AccountsAgree
  <2>1. q \in Pipes /\ refcount[q] = Total(Counts(q)) /\ ledger[c][q] \in Nat
    BY <1>1 DEF AccountsInv, AccountsTypeOK, AccountsAgree
  <2>2. /\ Total(Counts(q)') = Total(Counts(q)) - ledger[c][q] + 0
        /\ Total(Counts(q)) \in Nat
        /\ ledger[c][q] <= Total(Counts(q))
    BY <2>1, <1>6, <1>4, CountsChange DEF AccountsInv
  <2>3. CASE q \in undone
    <3>1. refcount'[q] = CountAfterRelease(q, ledger[c][q])
      BY <2>3, <1>1, <2>1 DEF ToReconcile
    <3> QED
      BY <3>1, <2>1, <2>2 DEF CountAfterRelease
  <2>4. CASE q \notin undone
    <3>1. ledger[c][q] = 0
      BY <2>4, <1>1, <2>1
    <3>2. refcount'[q] = refcount[q]
      BY <2>4, <1>1, <2>1
    <3> QED
      BY <3>1, <3>2, <2>1, <2>2
  <2> QED
    BY <2>3, <2>4
<1> QED
  BY <1>4, <1>5, <1>7, <1>8 DEF AccountsInv

(* Every step keeps the invariant. *)
LEMMA AccountsStep ==
  ASSUME AccountsInv, [BrokerNext]_brokerVars
  PROVE  AccountsInv'
<1>1. ASSUME NEW p \in Pipes, Advertise(p) PROVE AccountsInv'
  BY <1>1, AccountsAdvertise
<1>2. ASSUME NEW p \in Pipes, Drop(p) PROVE AccountsInv'
  BY <1>2, AccountsDrop
<1>3. ASSUME NEW c \in Channels, NEW s \in Slots, NEW p \in Pipes,
             Mount(c, s, p) \/ Select(c, s, p)
      PROVE  AccountsSame
  BY <1>3 DEF Mount, Select, AccountsSame, hubVars, sessionVars
<1>4. ASSUME NEW c \in Channels, NEW s \in Slots, Unmount(c, s) PROVE AccountsSame
  BY <1>4 DEF Unmount, AccountsSame, hubVars, sessionVars
<1>5. ASSUME NEW c \in Channels, RendererGone(c) \/ Receive(c) PROVE AccountsSame
  BY <1>5 DEF RendererGone, Receive, ReceiveState, ReceiveReply, AccountsSame, hubVars,
              sessionVars
<1>6. ASSUME NEW c \in Channels, HandleSubscribe(c) \/ HandleUnsubscribe(c)
      PROVE  AccountsSame
  BY <1>6 DEF HandleSubscribe, HandleUnsubscribe, AccountsSame, hubVars
<1>7. ASSUME NEW c \in Channels, HandleConnect(c) PROVE AccountsInv'
  BY <1>7, AccountsConnect
<1>8. ASSUME NEW c \in Channels, HandleDisconnect(c) PROVE AccountsInv'
  BY <1>8, AccountsDisconnect
<1>9. ASSUME NEW c \in Channels, HandleClosed(c) PROVE AccountsInv'
  BY <1>9, AccountsClosed
<1>10. CASE UNCHANGED brokerVars
  BY <1>10, AccountsStutter DEF AccountsSame, brokerVars, hubVars, sessionVars
<1> QED
  BY <1>1, <1>2, <1>3, <1>4, <1>5, <1>6, <1>7, <1>8, <1>9, <1>10, AccountsStutter
  DEF BrokerNext, Handle

(* The invariant holds in every behaviour. *)
THEOREM AccountsInvariant == BrokerSpec => []AccountsInv
<1>1. BrokerInit => AccountsInv
  BY AccountsInit
<1>2. AccountsInv /\ [BrokerNext]_brokerVars => AccountsInv'
  BY AccountsStep
<1> QED
  BY <1>1, <1>2, PTL DEF BrokerSpec

(* The producer of a pipe runs exactly while the pipe is advertised and somebody is
   counted, for every number of channels, components and pipes. *)
THEOREM ProducersFollowDemand == BrokerSpec => []ProducerFollowsDemand
<1>1. AccountsInv => ProducerFollowsDemand
  BY DEF AccountsInv
<1> QED
  BY <1>1, AccountsInvariant, PTL

(* The native count of a pipe is the sum of what the ledger holds for every channel,
   unless the pipe was dropped under its consumers or a reconciliation was cut short. *)
THEOREM CountsAreLedgered == BrokerSpec => []AccountsAgree
<1>1. AccountsInv => AccountsAgree
  BY DEF AccountsInv
<1> QED
  BY <1>1, AccountsInvariant, PTL
=============================================================================
