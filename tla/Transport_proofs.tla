--------------------------- MODULE Transport_proofs ---------------------------
(***************************************************************************)
(* Proofs about the two ways a frame travels: the shared-memory ring and   *)
(* the wire between a session and its windows.                             *)
(*                                                                         *)
(* The ring, for every ring depth, number of readers, retry limit and      *)
(* number of frames: the type invariant, that a reader hands out intact    *)
(* frames only, and that the ring implements the lossy stream (the safety  *)
(* part: LossyStream has no fairness).                                     *)
(*                                                                         *)
(* The wire, for any windows, views and bounds: the type invariant, that a *)
(* window is delivered a lossy stream of the session's frames, and, with   *)
(* one view to a window, that a view shows the session's value once        *)
(* everything has arrived.                                                 *)
(***************************************************************************)
EXTENDS ShmRing, SessionWire, TLAPS

\* A reader between its first load and its answer has an attempt left.
RetryInv ==
  \A r \in Readers :
    pc[r] \notin {"unopened", "idle", "ended", "failed"} => retries[r] < MaxRetries

Filling == wpc \in {"first", "second", "meta", "store1"}
Copying(r) == pc[r] \in {"meta", "recheck", "first", "second", "after"}

\* What the writer keeps: sequence words never exceed the frame it is at, the
\* slot it fills is odd, and a stable slot holds the frame its word names.
WriterInv ==
  /\ wpc = "idle" => \A i \in SlotIds : slots[i].seq <= 2 * latestSeq
  /\ Filling => /\ frame = latestSeq + 1
                /\ slots[wslot].seq = 2 * frame - 1
                /\ \A i \in SlotIds : slots[i].seq <= 2 * frame - 1
  /\ wpc \in {"second", "meta", "store1"} => slots[wslot].first = frame
  /\ wpc \in {"meta", "store1"} => slots[wslot].second = frame
  /\ wpc = "store1" => slots[wslot].meta = frame
  /\ wpc \in {"store2", "store3"} =>
       frame = latestSeq + 1 /\ \A i \in SlotIds : slots[i].seq <= 2 * frame

StableSlotsAreWhole ==
  \A i \in SlotIds : Stable(slots[i].seq) =>
    /\ slots[i].first = slots[i].seq \div 2
    /\ slots[i].second = slots[i].seq \div 2
    /\ slots[i].meta = slots[i].seq \div 2

\* While a reader copies, the word it started from is stable; as long as the
\* slot still shows that word, what was copied so far belongs to it.
CopyInv ==
  \A r \in Readers : Copying(r) =>
    /\ Stable(before[r])
    /\ before[r] <= slots[slot[r]].seq
    /\ before[r] = slots[slot[r]].seq =>
         /\ pc[r] # "meta" => copy[r].meta = before[r] \div 2
         /\ pc[r] \in {"second", "after"} => copy[r].first = before[r] \div 2
         /\ pc[r] = "after" => copy[r].second = before[r] \div 2

RingInv ==
  TypeOK /\ RetryInv /\ WriterInv /\ StableSlotsAreWhole /\ CopyInv /\ FramesAreIntact
-----------------------------------------------------------------------------
(* Arithmetic of the ring.                                                  *)

\* Division with remainder.
LEMMA DivMod ==
  ASSUME NEW a \in Nat, NEW n \in Nat \ {0}
  PROVE  a = n * (a \div n) + (a % n) /\ a % n \in 0..(n - 1) /\ a \div n \in Nat
  OBVIOUS

\* The remainder is the only one in its range.
LEMMA Remainder ==
  ASSUME NEW n \in Nat \ {0}, NEW q \in Nat, NEW s \in 0..(n - 1),
         NEW a \in Nat, a = n * q + s
  PROVE  a % n = s
<1>1. PICK p \in Nat, t \in 0..(n - 1) : t = a % n /\ a = n * p + t
  BY DivMod
<1>2. CASE q < p
  <2>1. n * (p - q) >= n
    BY <1>2
  <2>. QED BY <1>1, <2>1
<1>3. CASE p < q
  <2>1. n * (q - p) >= n
    BY <1>3
  <2>. QED BY <1>1, <2>1
<1>. QED BY <1>1, <1>2, <1>3

\* The slot after the newest one is the slot of the next frame.
LEMMA NextRemainder ==
  ASSUME NEW a \in Nat, NEW n \in Nat \ {0}
  PROVE  ((a % n) + 1) % n = (a + 1) % n
<1>1. PICK q \in Nat, s \in 0..(n - 1) : s = a % n /\ a = n * q + s
  BY DivMod
<1>2. PICK b \in Nat : b = a + 1
  OBVIOUS
<1>3. CASE s + 1 < n
  <2>1. PICK u \in 0..(n - 1) : u = s + 1
    BY <1>3
  <2>2. b = n * q + u
    BY <1>1, <1>2, <2>1
  <2>3. b % n = u /\ u % n = u
    BY <2>1, <2>2, Remainder
  <2>. QED BY <1>1, <1>2, <2>1, <2>3
<1>4. CASE s + 1 = n
  <2>1. PICK p \in Nat : p = q + 1
    OBVIOUS
  <2>2. b = n * p + 0 /\ n = n * 1 + 0 /\ 0 \in 0..(n - 1)
    BY <1>1, <1>2, <1>4, <2>1
  <2>3. b % n = 0 /\ n % n = 0
    BY <2>2, Remainder
  <2>. QED BY <1>1, <1>2, <1>4, <2>3
<1>. QED BY <1>3, <1>4

\* Two frames of one slot are a whole turn of the ring apart.
LEMMA AWholeTurn ==
  ASSUME NEW a \in Nat, NEW b \in Nat, NEW n \in Nat \ {0}, a % n = b % n, a < b
  PROVE  a + n <= b
<1>1. PICK q \in Nat, s \in 0..(n - 1) : s = a % n /\ a = n * q + s
  BY DivMod
<1>2. PICK p \in Nat, t \in 0..(n - 1) : t = b % n /\ b = n * p + t
  BY DivMod
<1>3. s = t /\ n * q < n * p
  BY <1>1, <1>2
<1>4. q < p
  BY <1>3
<1>5. n * p >= n * (q + 1)
  BY <1>4
<1>. QED BY <1>1, <1>2, <1>3, <1>5
-----------------------------------------------------------------------------
USE RingAssumption

LEMMA ModRange ==
  ASSUME NEW a \in Nat, NEW n \in Nat \ {0}
  PROVE  a % n \in 0..(n - 1)
  OBVIOUS

LEMMA HalfOfWord ==
  ASSUME NEW w \in Words
  PROVE  w \div 2 \in Frames
  BY DEF Words, Frames

LEMMA WriterTyping == TypeOK /\ Write => TypeOK'
<1> SUFFICES ASSUME TypeOK, Write PROVE TypeOK'
  OBVIOUS
<1>1. CASE BeginSlot
  <2>1. (latestSlot + 1) % SlotCount \in SlotIds
    BY ModRange, SMT DEF TypeOK, SlotIds
  <2>2. FillingWord(latestSeq) \in Words /\ latestSeq + 1 \in Frames
    BY <1>1 DEF TypeOK, BeginSlot, FillingWord, Words, Frames
  <2>. QED BY <1>1, <2>1, <2>2 DEF TypeOK, BeginSlot, headerVars, readerVars
<1>2. ASSUME NEW word \in {"first", "second", "meta"},
             NEW next \in {"second", "meta", "store1"},
             Fill(word, next)
      PROVE  TypeOK'
  BY <1>2 DEF TypeOK, Fill, headerVars, readerVars
<1>3. ASSUME NEW k \in 1..3, NEW here, NEW next \in {"store2", "store3", "idle"},
             Store(k, here, next)
      PROVE  TypeOK'
  <2>1. 2 * frame \in Words
    BY DEF TypeOK, Words, Frames
  <2>. QED BY <1>3, <2>1 DEF TypeOK, Store, readerVars
<1>. QED BY <1>1, <1>2, <1>3 DEF Write, FinishFrame

LEMMA ReaderTyping ==
  ASSUME NEW r \in Readers, TypeOK, RetryInv, Read(r)
  PROVE  TypeOK'
<1>1. CASE Open(r)
  BY <1>1 DEF TypeOK, Open, Goto, ReaderPCs, headerVars, writerVars, Frames
<1>2. CASE LoadLatest(r)
  BY <1>2 DEF TypeOK, LoadLatest, Goto, ReaderPCs, headerVars, writerVars
<1>3. CASE LoadState(r)
  BY <1>3 DEF TypeOK, LoadState, OnceClosed, Goto, ReaderPCs, headerVars, writerVars
<1>4. CASE Reload(r)
  BY <1>4 DEF TypeOK, Reload, Goto, ReaderPCs, headerVars, writerVars
<1>5. CASE LoadSlot(r)
  <2>1. pos[r] + 1 \in Nat
    BY DEF TypeOK, Frames
  <2>2. SlotOf(r) \in SlotIds
    BY <2>1, ModRange DEF SlotOf, Want, SlotIds
  <2>. QED
    BY <1>5, <2>2 DEF TypeOK, LoadSlot, Goto, ReaderPCs, headerVars, writerVars
<1>r. ASSUME Retry(r),
             pc[r] \notin {"unopened", "idle", "ended", "failed"}
      PROVE  pc' \in [Readers -> ReaderPCs] /\ retries' \in [Readers -> 0..MaxRetries]
  <2>1. retries[r] + 1 \in 0..MaxRetries
    BY <1>r DEF TypeOK, RetryInv
  <2>. QED BY <1>r, <2>1 DEF TypeOK, Retry, Goto, ReaderPCs
<1>6. CASE LoadBefore(r)
  <2>1. slots[slot[r]].seq \in Words
    BY DEF TypeOK
  <2>2. pc' \in [Readers -> ReaderPCs] /\ retries' \in [Readers -> 0..MaxRetries]
    BY <1>6, <1>r DEF TypeOK, LoadBefore, Goto, ReaderPCs
  <2>. QED BY <1>6, <2>1, <2>2 DEF TypeOK, LoadBefore, headerVars, writerVars
<1>7. CASE Jump(r)
  <2>1. OldestLive - 1 \in Frames
    BY DEF TypeOK, OldestLive, Frames
  <2>2. Want(r)..(OldestLive - 1) \subseteq 1..MaxFrames
    BY <2>1 DEF TypeOK, Want, Frames
  <2>. QED
    BY <1>7, <2>1, <2>2 DEF TypeOK, Jump, Goto, ReaderPCs, headerVars, writerVars
<1>8. CASE LoadMeta(r)
  BY <1>8 DEF TypeOK, LoadMeta, Goto, ReaderPCs, Copies, headerVars, writerVars
<1>9. CASE Recheck(r)
  <2>1. pc' \in [Readers -> ReaderPCs] /\ retries' \in [Readers -> 0..MaxRetries]
    BY <1>9, <1>r DEF TypeOK, Recheck, Goto, ReaderPCs
  <2>. QED BY <1>9, <2>1 DEF TypeOK, Recheck, headerVars, writerVars
<1>10. ASSUME NEW word \in {"first", "second"}, NEW next \in ReaderPCs,
              CopyWord(r, word, next)
       PROVE  TypeOK'
  BY <1>10 DEF TypeOK, CopyWord, Goto, Copies, headerVars, writerVars
<1>11. CASE LoadAfter(r)
  <2>1. before[r] \div 2 \in Frames
    BY HalfOfWord DEF TypeOK
  <2>2. pc' \in [Readers -> ReaderPCs] /\ retries' \in [Readers -> 0..MaxRetries]
    BY <1>11, <1>r DEF TypeOK, LoadAfter, Goto, ReaderPCs
  <2>3. [copy[r] EXCEPT !.seq = before[r] \div 2] \in Copies
    BY <2>1 DEF TypeOK, Copies
  <2>4. pos' \in [Readers -> Frames]
    BY <1>11, <2>1 DEF TypeOK, LoadAfter
  <2>5. delivered' \in [Readers -> Copies]
    <3>1. CASE Untouched(r)
      BY <1>11, <2>3, <3>1 DEF TypeOK, LoadAfter
    <3>2. CASE ~ Untouched(r)
      BY <1>11, <3>2 DEF TypeOK, LoadAfter
    <3>. QED BY <3>1, <3>2
  <2>. QED
    BY <1>11, <2>2, <2>4, <2>5 DEF TypeOK, LoadAfter, headerVars, writerVars
<1>. QED
  BY <1>1, <1>2, <1>3, <1>4, <1>5, <1>6, <1>7, <1>8, <1>9, <1>10, <1>11
  DEF Read, ReaderPCs

LEMMA RetriesLeft ==
  ASSUME NEW q \in Readers, TypeOK, RetryInv, Read(q)
  PROVE  RetryInv'
<1> SUFFICES ASSUME NEW r \in Readers PROVE (pc[r] \notin {"unopened", "idle", "ended", "failed"}
                                             => retries[r] < MaxRetries)'
  BY DEF RetryInv
<1>. QED
  BY DEF TypeOK, RetryInv, Read, Open, LoadLatest, LoadState, Reload, LoadSlot,
     LoadBefore, Jump, LoadMeta, Recheck, CopyWord, LoadAfter, Retry, Goto

LEMMA TypingInit == Init => TypeOK /\ RetryInv
<1> SUFFICES ASSUME Init PROVE TypeOK /\ RetryInv
  OBVIOUS
<1>1. 0 \in Frames /\ 0 \in Words /\ 0 \in SlotIds /\ 0 \in 0..MaxRetries
  BY DEF Frames, Words, SlotIds
<1>2. /\ EmptySlot \in [seq : Words, first : Frames, second : Frames, meta : Frames]
      /\ NoFrame \in Copies
  BY <1>1 DEF EmptySlot, NoFrame, Copies
<1>3. "unopened" \in ReaderPCs
  BY DEF ReaderPCs
<1>. QED BY <1>1, <1>2, <1>3 DEF Init, TypeOK, RetryInv

LEMMA TypingStep ==
  TypeOK /\ RetryInv /\ [Next]_vars => (TypeOK /\ RetryInv)'
<1> SUFFICES ASSUME TypeOK, RetryInv, [Next]_vars PROVE (TypeOK /\ RetryInv)'
  OBVIOUS
<1>1. CASE Write
  <2>1. UNCHANGED readerVars
    BY <1>1 DEF Write, BeginSlot, FinishFrame, Fill, Store
  <2>. QED BY <1>1, <2>1, WriterTyping DEF RetryInv, readerVars
<1>2. CASE Close
  BY <1>2 DEF Close, TypeOK, RetryInv, writerVars, readerVars
<1>3. ASSUME NEW r \in Readers, Read(r) PROVE (TypeOK /\ RetryInv)'
  BY <1>3, ReaderTyping, RetriesLeft
<1>4. CASE UNCHANGED vars
  BY <1>4 DEF vars, headerVars, writerVars, readerVars, TypeOK, RetryInv
<1>. QED BY <1>1, <1>2, <1>3, <1>4 DEF Next

\* The types of the ring's variables hold throughout.
THEOREM Typing == Spec => []TypeOK
BY TypingInit, TypingStep, PTL DEF Spec

-----------------------------------------------------------------------------
(* The writer's half of the seqlock.                                        *)

\* A reader's step leaves the memory alone, so its half is all that can move.
LEMMA ReaderKeepsWriterInv ==
  ASSUME NEW r \in Readers, Read(r), WriterInv, StableSlotsAreWhole
  PROVE  WriterInv' /\ StableSlotsAreWhole'
<1>1. UNCHANGED <<headerVars, writerVars>>
  BY DEF Read, Open, LoadLatest, LoadState, Reload, LoadSlot, LoadBefore, Jump,
     LoadMeta, Recheck, CopyWord, LoadAfter
<1>. QED
  BY <1>1 DEF headerVars, writerVars, WriterInv, Filling, StableSlotsAreWhole

\* Filling a slot's word is invisible to the others, and to the sequence words.
LEMMA FillKeepsWriterInv ==
  ASSUME TypeOK, WriterInv, StableSlotsAreWhole,
         \/ Fill("first", "second") \/ Fill("second", "meta")
         \/ Fill("meta", "store1")
  PROVE  /\ WriterInv' /\ StableSlotsAreWhole'
         /\ \A i \in SlotIds : slots'[i].seq = slots[i].seq
<1>0. /\ wslot \in SlotIds /\ frame \in Nat
      /\ slots \in [SlotIds -> [seq : Words, first : Frames, second : Frames,
                                meta : Frames]]
  BY DEF TypeOK, Frames
<1>1. \A i \in SlotIds : slots'[i].seq = slots[i].seq
  BY <1>0 DEF Fill
<1>2. ~ Stable(slots[wslot].seq)
  <2>1. slots[wslot].seq = 2 * frame - 1
    BY DEF WriterInv, Filling, Fill
  <2>. QED BY <1>0, <2>1 DEF Stable
<1>3. \A i \in SlotIds \ {wslot} : slots'[i] = slots[i]
  BY <1>0 DEF Fill
<1>4. StableSlotsAreWhole'
  BY <1>0, <1>1, <1>2, <1>3 DEF StableSlotsAreWhole
<1>5. CASE Fill("first", "second")
  <2>1. slots'[wslot].first = frame
    BY <1>0, <1>5 DEF Fill
  <2>. QED
    BY <1>0, <1>1, <1>4, <1>5, <2>1 DEF Fill, WriterInv, Filling, headerVars
<1>6. CASE Fill("second", "meta")
  <2>1. slots'[wslot].second = frame /\ slots'[wslot].first = slots[wslot].first
    BY <1>0, <1>6 DEF Fill
  <2>. QED
    BY <1>0, <1>1, <1>4, <1>6, <2>1 DEF Fill, WriterInv, Filling, headerVars
<1>7. CASE Fill("meta", "store1")
  <2>1. /\ slots'[wslot].meta = frame
        /\ slots'[wslot].first = slots[wslot].first
        /\ slots'[wslot].second = slots[wslot].second
    BY <1>0, <1>7 DEF Fill
  <2>. QED
    BY <1>0, <1>1, <1>4, <1>7, <2>1 DEF Fill, WriterInv, Filling, headerVars
<1>. QED BY <1>1, <1>4, <1>5, <1>6, <1>7

\* beginSlot makes the next slot odd, above every word there is.
LEMMA BeginKeepsWriterInv ==
  ASSUME TypeOK, WriterInv, StableSlotsAreWhole, BeginSlot
  PROVE  /\ WriterInv' /\ StableSlotsAreWhole'
         /\ \A i \in SlotIds : \/ slots'[i] = slots[i]
                               \/ /\ slots[i].seq < slots'[i].seq
                                  /\ ~ Stable(slots'[i].seq)
<1>0. /\ latestSeq \in Nat
      /\ slots \in [SlotIds -> [seq : Words, first : Frames, second : Frames,
                                meta : Frames]]
      /\ \A i \in SlotIds : slots[i].seq \in Nat
  BY DEF TypeOK, Frames, Words
<1>1. wslot' \in SlotIds
  <2>1. latestSlot + 1 \in Nat
    BY DEF TypeOK, SlotIds
  <2>. QED BY <2>1, ModRange DEF BeginSlot, SlotIds
<1>2. /\ slots'[wslot'].seq = 2 * latestSeq + 1
      /\ \A i \in SlotIds \ {wslot'} : slots'[i] = slots[i]
  BY <1>0, <1>1 DEF BeginSlot, FillingWord
<1>3. \A i \in SlotIds : slots[i].seq <= 2 * latestSeq
  BY DEF WriterInv, BeginSlot
<1>4. ~ Stable(slots'[wslot'].seq)
  BY <1>0, <1>2 DEF Stable
<1>5. WriterInv'
  <2>1. frame' = latestSeq + 1 /\ wpc' = "first" /\ latestSeq' = latestSeq
    BY DEF BeginSlot, headerVars
  <2>2. \A i \in SlotIds : slots'[i].seq <= 2 * frame' - 1
    BY <1>0, <1>2, <1>3, <2>1
  <2>. QED BY <1>0, <1>2, <2>1, <2>2 DEF WriterInv, Filling
<1>6. StableSlotsAreWhole'
  BY <1>1, <1>2, <1>4 DEF StableSlotsAreWhole
<1>. QED BY <1>0, <1>1, <1>2, <1>3, <1>4, <1>5, <1>6

\* The first store of publish makes a whole slot stable; the other two do not
\* touch the slots.
LEMMA StoreKeepsWriterInv ==
  ASSUME TypeOK, WriterInv, StableSlotsAreWhole,
         \/ Store(1, "store1", "store2") \/ Store(2, "store2", "store3")
         \/ Store(3, "store3", "idle")
  PROVE  /\ WriterInv' /\ StableSlotsAreWhole'
         /\ \A i \in SlotIds : \/ slots'[i] = slots[i]
                               \/ slots[i].seq < slots'[i].seq
<1>0. /\ latestSeq \in Nat /\ frame \in Nat /\ wslot \in SlotIds
      /\ slots \in [SlotIds -> [seq : Words, first : Frames, second : Frames,
                                meta : Frames]]
      /\ \A i \in SlotIds : slots[i].seq \in Nat
  BY DEF TypeOK, Frames, Words
<1>1. CASE Store(1, "store1", "store2")
  <2>1. slots' = [slots EXCEPT ![wslot].seq = 2 * frame]
    BY <1>1 DEF Store, PublishOrder
  <2>2. /\ slots'[wslot] = [slots[wslot] EXCEPT !.seq = 2 * frame]
        /\ \A i \in SlotIds \ {wslot} : slots'[i] = slots[i]
    BY <1>0, <2>1
  <2>3. /\ slots[wslot] \in [seq : Words, first : Frames, second : Frames,
                             meta : Frames]
        /\ slots[wslot].first = frame /\ slots[wslot].second = frame
        /\ slots[wslot].meta = frame
        /\ slots[wslot].seq = 2 * frame - 1
        /\ frame = latestSeq + 1
        /\ \A i \in SlotIds : slots[i].seq <= 2 * frame - 1
    BY <1>0, <1>1 DEF Store, WriterInv, Filling
  <2>4. /\ slots'[wslot].seq = 2 * frame
        /\ slots'[wslot].first = frame /\ slots'[wslot].second = frame
        /\ slots'[wslot].meta = frame
    BY <2>2, <2>3
  <2>5. wpc' = "store2" /\ frame' = frame /\ latestSeq' = latestSeq
    BY <1>1 DEF Store, PublishOrder
  <2>6. WriterInv'
    <3>1. \A i \in SlotIds : slots'[i].seq <= 2 * frame
      BY <1>0, <2>2, <2>3, <2>4
    <3>. QED BY <2>3, <2>5, <3>1 DEF WriterInv, Filling
  <2>7. StableSlotsAreWhole'
    <3>1. (2 * frame) \div 2 = frame
      BY <1>0
    <3>. QED BY <2>2, <2>4, <3>1 DEF StableSlotsAreWhole
  <2>. QED BY <1>0, <2>2, <2>3, <2>4, <2>6, <2>7
<1>2. CASE Store(2, "store2", "store3")
  <2>1. /\ slots' = slots /\ latestSeq' = latestSeq /\ frame' = frame
        /\ wpc = "store2" /\ wpc' = "store3"
    BY <1>2 DEF Store, PublishOrder
  <2>. QED BY <2>1 DEF WriterInv, Filling, StableSlotsAreWhole
<1>3. CASE Store(3, "store3", "idle")
  <2>1. /\ slots' = slots /\ latestSeq' = frame /\ frame' = frame
        /\ wpc = "store3" /\ wpc' = "idle"
    BY <1>3 DEF Store, PublishOrder
  <2>. QED BY <2>1 DEF WriterInv, Filling, StableSlotsAreWhole
<1>. QED BY <1>1, <1>2, <1>3

-----------------------------------------------------------------------------
(* The reader's half.                                                       *)

\* A step of the writer either leaves the word a reader started from, and
\* then what it copies too, or moves the word past it for good.
LEMMA WriterKeepsCopyInv ==
  ASSUME TypeOK, WriterInv, StableSlotsAreWhole, CopyInv, Write
  PROVE  CopyInv'
<1>1. UNCHANGED readerVars
  BY DEF Write, BeginSlot, FinishFrame, Fill, Store
<1>2. \A i \in SlotIds : \/ slots'[i].seq = slots[i].seq
                         \/ slots[i].seq < slots'[i].seq
  BY BeginKeepsWriterInv, FillKeepsWriterInv, StoreKeepsWriterInv
  DEF Write, FinishFrame
<1>3. \A i \in SlotIds : slots[i].seq \in Nat /\ slots'[i].seq \in Nat
  <2>1. TypeOK'
    BY WriterTyping
  <2>. QED BY <2>1 DEF TypeOK, Words
<1>4. \A r \in Readers : slot[r] \in SlotIds /\ before[r] \in Nat
  BY DEF TypeOK, Words
<1>. QED BY <1>1, <1>2, <1>3, <1>4 DEF CopyInv, Copying, readerVars

LEMMA ReaderKeepsCopyInv ==
  ASSUME NEW q \in Readers, TypeOK, StableSlotsAreWhole, CopyInv, Read(q)
  PROVE  CopyInv'
<1> DEFINE Reading(r) ==
      Copying(r) =>
        /\ Stable(before[r])
        /\ before[r] <= slots[slot[r]].seq
        /\ before[r] = slots[slot[r]].seq =>
             /\ pc[r] # "meta" => copy[r].meta = before[r] \div 2
             /\ pc[r] \in {"second", "after"} => copy[r].first = before[r] \div 2
             /\ pc[r] = "after" => copy[r].second = before[r] \div 2
<1>0. slots' = slots
  BY DEF Read, Open, LoadLatest, LoadState, Reload, LoadSlot, LoadBefore, Jump,
     LoadMeta, Recheck, CopyWord, LoadAfter, writerVars
<1>1. ASSUME NEW r \in Readers, r # q PROVE Reading(r)'
  <2>1. /\ pc'[r] = pc[r] /\ slot'[r] = slot[r] /\ before'[r] = before[r]
        /\ copy'[r] = copy[r]
    BY <1>1 DEF TypeOK, Read, Open, LoadLatest, LoadState, Reload, LoadSlot,
       LoadBefore, Jump, LoadMeta, Recheck, CopyWord, LoadAfter, Retry, Goto
  <2>. QED BY <1>0, <1>1, <2>1 DEF CopyInv, Copying
<1>2. Reading(q)'
  <2>0. /\ slot[q] \in SlotIds /\ before[q] \in Nat /\ copy[q] \in Copies
        /\ slots[slot[q]].seq \in Nat
        /\ pc \in [Readers -> ReaderPCs] /\ before \in [Readers -> Words]
        /\ copy \in [Readers -> Copies]
    BY DEF TypeOK, Words
  <2>1. CASE \/ Open(q) \/ LoadLatest(q) \/ LoadState(q) \/ Reload(q)
             \/ LoadSlot(q) \/ Jump(q)
    BY <2>0, <2>1 DEF Open, LoadLatest, LoadState, OnceClosed, Reload, LoadSlot,
       Jump, Goto, Copying
  <2>2. CASE LoadBefore(q)
    <3>1. CASE Stable(slots[slot[q]].seq)
      <4>1. /\ pc'[q] \in {"gone", "meta"}
            /\ before'[q] = slots[slot[q]].seq /\ slot'[q] = slot[q]
        BY <2>0, <2>2, <3>1 DEF LoadBefore, Goto
      <4>. QED BY <1>0, <2>0, <3>1, <4>1 DEF Copying
    <3>2. CASE ~ Stable(slots[slot[q]].seq)
      BY <2>0, <2>2, <3>2 DEF LoadBefore, Retry, Goto, Copying
    <3>. QED BY <3>1, <3>2
  <2>3. CASE LoadMeta(q)
    <3>1. /\ pc[q] = "meta" /\ pc'[q] \in {"recheck", "first"}
          /\ before' = before /\ slot' = slot
          /\ copy'[q].meta = slots[slot[q]].meta
      BY <2>0, <2>3 DEF LoadMeta, Goto, Copies
    <3>. QED
      BY <1>0, <2>0, <3>1 DEF CopyInv, Copying, StableSlotsAreWhole
  <2>4. CASE CopyWord(q, "first", "second")
    <3>1. /\ pc[q] = "first" /\ pc'[q] = "second"
          /\ before' = before /\ slot' = slot
          /\ copy'[q].first = slots[slot[q]].first
          /\ copy'[q].meta = copy[q].meta
      BY <2>0, <2>4 DEF CopyWord, Goto, Copies
    <3>. QED
      BY <1>0, <2>0, <3>1 DEF CopyInv, Copying, StableSlotsAreWhole
  <2>5. CASE CopyWord(q, "second", "after")
    <3>1. /\ pc[q] = "second" /\ pc'[q] = "after"
          /\ before' = before /\ slot' = slot
          /\ copy'[q].second = slots[slot[q]].second
          /\ copy'[q].first = copy[q].first
          /\ copy'[q].meta = copy[q].meta
      BY <2>0, <2>5 DEF CopyWord, Goto, Copies
    <3>. QED
      BY <1>0, <2>0, <3>1 DEF CopyInv, Copying, StableSlotsAreWhole
  <2>6. CASE Recheck(q) \/ LoadAfter(q)
    BY <2>0, <2>6 DEF Recheck, LoadAfter, Retry, Goto, Copying
  <2>. QED BY <2>1, <2>2, <2>3, <2>4, <2>5, <2>6 DEF Read
<1>. QED BY <1>1, <1>2 DEF CopyInv, Copying

\* Only the post-check delivers, and it delivers what CopyInv says was copied.
LEMMA ReaderDeliversWhole ==
  ASSUME NEW q \in Readers, TypeOK, CopyInv, FramesAreIntact, Read(q)
  PROVE  FramesAreIntact'
<1>1. CASE LoadAfter(q) /\ Untouched(q)
  <2>0. copy[q] \in Copies /\ delivered \in [Readers -> Copies]
    BY DEF TypeOK
  <2>1. /\ copy[q].meta = before[q] \div 2 /\ copy[q].first = before[q] \div 2
        /\ copy[q].second = before[q] \div 2
    BY <1>1 DEF CopyInv, Copying, LoadAfter, Untouched
  <2>2. delivered' = [delivered EXCEPT ![q] =
                        [copy[q] EXCEPT !.seq = before[q] \div 2]]
    BY <1>1 DEF LoadAfter
  <2>3. /\ delivered'[q].first = copy[q].first
        /\ delivered'[q].second = copy[q].second
        /\ delivered'[q].meta = copy[q].meta
        /\ delivered'[q].seq = before[q] \div 2
    BY <2>0, <2>2 DEF Copies
  <2>. QED BY <2>0, <2>1, <2>2, <2>3 DEF FramesAreIntact
<1>2. CASE ~ (LoadAfter(q) /\ Untouched(q))
  <2>1. delivered' = delivered
    BY <1>2 DEF Read, Open, LoadLatest, LoadState, Reload, LoadSlot, LoadBefore,
       Jump, LoadMeta, Recheck, CopyWord, LoadAfter
  <2>. QED BY <2>1 DEF FramesAreIntact
<1>. QED BY <1>1, <1>2

\* The ring's inductive invariant holds throughout.
THEOREM RingSafety == Spec => []RingInv
<1> DEFINE Rest == WriterInv /\ StableSlotsAreWhole /\ CopyInv /\ FramesAreIntact
<1>1. Init => Rest
  <2> SUFFICES ASSUME Init PROVE Rest
    OBVIOUS
  <2>1. \A i \in SlotIds : slots[i].seq = 0
    BY DEF Init, EmptySlot
  <2>2. \A r \in Readers : pc[r] = "unopened" /\ delivered[r] = NoFrame
    BY DEF Init
  <2>. QED
    BY <2>1, <2>2 DEF Init, WriterInv, Filling, StableSlotsAreWhole, Stable,
       CopyInv, Copying, FramesAreIntact, NoFrame
<1>2. TypeOK /\ RetryInv /\ Rest /\ [Next]_vars => Rest'
  <2> SUFFICES ASSUME TypeOK, RetryInv, Rest, [Next]_vars PROVE Rest'
    OBVIOUS
  <2>1. CASE Write
    <3>1. WriterInv' /\ StableSlotsAreWhole'
      BY <2>1, BeginKeepsWriterInv, FillKeepsWriterInv, StoreKeepsWriterInv
      DEF Write, FinishFrame
    <3>2. CopyInv'
      BY <2>1, WriterKeepsCopyInv
    <3>3. FramesAreIntact'
      <4>1. UNCHANGED readerVars
        BY <2>1 DEF Write, BeginSlot, FinishFrame, Fill, Store
      <4>. QED BY <4>1 DEF FramesAreIntact, readerVars
    <3>. QED BY <3>1, <3>2, <3>3
  <2>2. CASE Close
    BY <2>2 DEF Close, writerVars, readerVars, WriterInv, Filling,
       StableSlotsAreWhole, CopyInv, Copying, FramesAreIntact
  <2>3. ASSUME NEW r \in Readers, Read(r) PROVE Rest'
    BY <2>3, ReaderKeepsWriterInv, ReaderKeepsCopyInv, ReaderDeliversWhole
  <2>4. CASE UNCHANGED vars
    BY <2>4 DEF vars, headerVars, writerVars, readerVars, WriterInv, Filling,
       StableSlotsAreWhole, CopyInv, Copying, FramesAreIntact
  <2>. QED BY <2>1, <2>2, <2>3, <2>4 DEF Next
<1>3. Init => TypeOK /\ RetryInv
  BY TypingInit
<1>4. TypeOK /\ RetryInv /\ [Next]_vars => (TypeOK /\ RetryInv)'
  BY TypingStep
<1>5. TypeOK /\ RetryInv /\ Rest => RingInv
  BY DEF RingInv
<1>. QED BY <1>1, <1>2, <1>3, <1>4, <1>5, PTL DEF Spec

\* No reader is ever handed a frame that mixes two frames of the writer
\* (readLatestInto and readSeqInto, whatever the ring depth).
THEOREM IntactFrames == Spec => []FramesAreIntact
<1>1. RingInv => FramesAreIntact
  BY DEF RingInv
<1>. QED BY <1>1, RingSafety, PTL

-----------------------------------------------------------------------------
(* The ring implements a lossy stream: what follows relates the readers'    *)
(* positions to the writer's.                                               *)

Storing == wpc \in {"store2", "store3"}

\* The newest frame a reader can find stable (what Stream calls published).
Published == IF Storing THEN frame ELSE latestSeq

\* The frame a sequence word is about, stable or being filled in.
FrameOf(word) == (word + 1) \div 2

\* Where frames lie: frame n goes to slot n % SlotCount and to no other, its
\* word stays until a later frame of that slot takes its place, the header
\* points at the newest one, and a closed ring has no writer.
PlaceInv ==
  /\ closed => wpc = "idle"
  /\ latestSlot = (IF wpc = "store3" THEN frame ELSE latestSeq) % SlotCount
  /\ wpc # "idle" => wslot = frame % SlotCount
  /\ \A i \in SlotIds :
       slots[i].seq # 0 => FrameOf(slots[i].seq) % SlotCount = i
  /\ \A n \in 1..MaxFrames :
       n <= Published => slots[n % SlotCount].seq >= 2 * n

Loaded(r) == pc[r] \in {"before", "gone"} \/ Copying(r)

\* Where readers are: behind the writer, on the way to a newer frame once they
\* have seen one, in the slot that holds it or a later one; a FIFO reader takes
\* the frame it wants, or knows that it fell a whole ring behind.
InPlace(r) ==
  /\ pos[r] <= Published
  /\ r \in FifoReaders => pos[r] <= latestSeq
  /\ pc[r] = "slot" \/ Loaded(r) => Fresh(r)
  /\ Loaded(r) => slots[slot[r]].seq >= 2 * Want(r)
  /\ Loaded(r) /\ r \in FifoReaders => slot[r] = SlotOf(r)
  /\ Copying(r) => before[r] \div 2 >= Want(r)
  /\ Copying(r) /\ r \in FifoReaders => before[r] \div 2 = Want(r)
  /\ pc[r] = "gone" => r \in FifoReaders /\ pos[r] + SlotCount <= latestSeq
  /\ pc[r] \in {"reload", "ended"} => closed
  /\ pc[r] = "ended" => pos[r] = latestSeq
  /\ pc[r] = "recheck" => copy[r].meta \in BigFrames
  /\ pc[r] = "failed" => r \in FifoReaders /\ before[r] \div 2 \in BigFrames

ReaderInv == \A r \in Readers : InPlace(r)

-----------------------------------------------------------------------------
(* The writer's half of the placement.                                      *)

\* Sequence words only grow, and the writer's steps leave the readers alone.
LEMMA WordsGrow ==
  ASSUME RingInv, Write
  PROVE  /\ \A i \in SlotIds : slots[i].seq <= slots'[i].seq
         /\ UNCHANGED readerVars /\ closed' = closed
<1>1. \A i \in SlotIds : slots[i].seq \in Nat
  BY DEF RingInv, TypeOK, Words
<1>2. \A i \in SlotIds : \/ slots'[i].seq = slots[i].seq
                         \/ slots[i].seq < slots'[i].seq
  BY BeginKeepsWriterInv, FillKeepsWriterInv, StoreKeepsWriterInv
  DEF RingInv, Write, FinishFrame
<1>3. TypeOK'
  BY WriterTyping DEF RingInv
<1>4. \A i \in SlotIds : slots'[i].seq \in Nat
  BY <1>3 DEF TypeOK, Words
<1>. QED
  BY <1>1, <1>2, <1>4 DEF Write, BeginSlot, FinishFrame, Fill, Store, headerVars

\* beginSlot takes the slot after the newest frame's: that of the next frame.
LEMMA BeginKeepsPlace ==
  ASSUME RingInv, PlaceInv, BeginSlot
  PROVE  PlaceInv' /\ Published' = Published
<1>0. /\ latestSeq \in Nat /\ SlotCount \in Nat \ {0}
      /\ slots \in [SlotIds -> [seq : Words, first : Frames, second : Frames,
                                meta : Frames]]
      /\ \A i \in SlotIds : slots[i].seq \in Nat
  BY DEF RingInv, TypeOK, Frames, Words
<1>1. /\ wpc = "idle" /\ ~ closed /\ wpc' = "first"
      /\ closed' = closed /\ latestSeq' = latestSeq /\ latestSlot' = latestSlot
      /\ frame' = latestSeq + 1 /\ wslot' = (latestSlot + 1) % SlotCount
      /\ slots' = [slots EXCEPT ![wslot'].seq = 2 * latestSeq + 1]
  BY DEF BeginSlot, headerVars, FillingWord
<1>2. Published' = Published
  BY <1>1 DEF Published, Storing
<1>3. latestSlot = latestSeq % SlotCount
  BY <1>1 DEF PlaceInv
<1>4. wslot' = frame' % SlotCount
  BY <1>0, <1>1, <1>3, NextRemainder
<1>5. wslot' \in SlotIds
  <2>1. frame' \in Nat
    BY <1>0, <1>1
  <2>. QED BY <1>0, <1>4, <2>1, ModRange DEF SlotIds
<1>6. FrameOf(2 * latestSeq + 1) = frame'
  BY <1>0, <1>1 DEF FrameOf
<1>7. \A i \in SlotIds :
        slots'[i].seq # 0 => FrameOf(slots'[i].seq) % SlotCount = i
  <2> SUFFICES ASSUME NEW i \in SlotIds, slots'[i].seq # 0
               PROVE  FrameOf(slots'[i].seq) % SlotCount = i
    OBVIOUS
  <2>1. CASE i = wslot'
    BY <1>0, <1>1, <1>4, <1>5, <1>6, <2>1
  <2>2. CASE i # wslot'
    <3>1. slots'[i] = slots[i]
      BY <1>0, <1>1, <2>2
    <3>. QED BY <3>1 DEF PlaceInv
  <2>. QED BY <2>1, <2>2
<1>8. \A n \in 1..MaxFrames : n <= Published' => slots'[n % SlotCount].seq >= 2 * n
  <2> SUFFICES ASSUME NEW n \in 1..MaxFrames, n <= Published
               PROVE  slots'[n % SlotCount].seq >= 2 * n
    BY <1>2
  <2>1. n % SlotCount \in SlotIds
    BY <1>0, ModRange DEF SlotIds
  <2>2. slots[n % SlotCount].seq >= 2 * n
    BY DEF PlaceInv
  <2>3. slots[n % SlotCount].seq <= slots'[n % SlotCount].seq
    BY <2>1, WordsGrow DEF Write
  <2>4. TypeOK'
    BY WriterTyping DEF RingInv, Write
  <2>5. slots'[n % SlotCount].seq \in Nat /\ slots[n % SlotCount].seq \in Nat
    BY <1>0, <2>1, <2>4 DEF TypeOK, Words
  <2>. QED BY <2>2, <2>3, <2>5
<1>. QED BY <1>1, <1>2, <1>3, <1>4, <1>7, <1>8 DEF PlaceInv

\* Filling in the payload touches none of it.
LEMMA FillKeepsPlace ==
  ASSUME RingInv, PlaceInv,
         \/ Fill("first", "second") \/ Fill("second", "meta")
         \/ Fill("meta", "store1")
  PROVE  PlaceInv' /\ Published' = Published
<1>1. \A i \in SlotIds : slots'[i].seq = slots[i].seq
  BY FillKeepsWriterInv DEF RingInv
<1>2. /\ wpc \in {"first", "second", "meta"}
      /\ wpc' \in {"second", "meta", "store1"}
      /\ UNCHANGED <<closed, latestSeq, latestSlot, frame, wslot>>
  BY DEF Fill, headerVars
<1>3. Published' = Published
  BY <1>2 DEF Published, Storing
<1>4. \A n \in 1..MaxFrames : n % SlotCount \in SlotIds
  BY ModRange DEF SlotIds
<1>. QED BY <1>1, <1>2, <1>3, <1>4 DEF PlaceInv

\* publish: the slot's word, then latestSlot, then latestSeq.  The first of
\* the three is where the next frame becomes readable.
LEMMA StoreKeepsPlace ==
  ASSUME RingInv, PlaceInv
  PROVE  /\ Store(1, "store1", "store2") =>
              PlaceInv' /\ ~ closed /\ Published' = Published + 1
         /\ Store(2, "store2", "store3") => PlaceInv' /\ Published' = Published
         /\ Store(3, "store3", "idle") => PlaceInv' /\ Published' = Published
<1>0. /\ latestSeq \in Nat /\ frame \in Nat /\ wslot \in SlotIds
      /\ SlotCount \in Nat \ {0}
      /\ slots \in [SlotIds -> [seq : Words, first : Frames, second : Frames,
                                meta : Frames]]
      /\ \A i \in SlotIds : slots[i].seq \in Nat
  BY DEF RingInv, TypeOK, Frames, Words
<1>m. \A n \in 1..MaxFrames : n % SlotCount \in SlotIds
  BY ModRange DEF SlotIds
<1>1. ASSUME Store(1, "store1", "store2")
      PROVE  PlaceInv' /\ ~ closed /\ Published' = Published + 1
  <2>1. /\ wpc = "store1" /\ wpc' = "store2"
        /\ UNCHANGED <<closed, latestSeq, latestSlot, frame, wslot>>
        /\ slots' = [slots EXCEPT ![wslot].seq = 2 * frame]
    BY <1>1 DEF Store, PublishOrder
  <2>2. frame = latestSeq + 1 /\ slots[wslot].seq = 2 * frame - 1
    BY <2>1 DEF RingInv, WriterInv, Filling
  <2>3. ~ closed /\ wslot = frame % SlotCount
    BY <2>1 DEF PlaceInv
  <2>4. Published = latestSeq /\ Published' = frame
    BY <2>1 DEF Published, Storing
  <2>5. FrameOf(2 * frame) = frame
    BY <1>0 DEF FrameOf
  <2>6. \A i \in SlotIds :
          slots'[i].seq # 0 => FrameOf(slots'[i].seq) % SlotCount = i
    <3> SUFFICES ASSUME NEW i \in SlotIds, slots'[i].seq # 0
                 PROVE  FrameOf(slots'[i].seq) % SlotCount = i
      OBVIOUS
    <3>1. CASE i = wslot
      BY <1>0, <2>1, <2>3, <2>5, <3>1
    <3>2. CASE i # wslot
      <4>1. slots'[i] = slots[i]
        BY <1>0, <2>1, <3>2
      <4>. QED BY <4>1 DEF PlaceInv
    <3>. QED BY <3>1, <3>2
  <2>7. \A n \in 1..MaxFrames : n <= frame => slots'[n % SlotCount].seq >= 2 * n
    <3> SUFFICES ASSUME NEW n \in 1..MaxFrames, n <= frame
                 PROVE  slots'[n % SlotCount].seq >= 2 * n
      OBVIOUS
    <3>1. CASE n % SlotCount = wslot
      BY <1>0, <2>1, <3>1
    <3>2. CASE n % SlotCount # wslot
      <4>1. slots'[n % SlotCount] = slots[n % SlotCount] /\ n # frame
        BY <1>0, <1>m, <2>1, <2>3, <3>2
      <4>2. n <= Published
        BY <1>0, <2>2, <2>4, <4>1
      <4>. QED BY <4>1, <4>2 DEF PlaceInv
    <3>. QED BY <3>1, <3>2
  <2>8. latestSlot = latestSeq % SlotCount
    BY <2>1 DEF PlaceInv
  <2>9. PlaceInv'
    BY <2>1, <2>3, <2>4, <2>6, <2>7, <2>8 DEF PlaceInv
  <2>. QED BY <2>2, <2>3, <2>4, <2>9
<1>2. ASSUME Store(2, "store2", "store3")
      PROVE  PlaceInv' /\ Published' = Published
  <2>1. /\ wpc = "store2" /\ wpc' = "store3" /\ latestSlot' = wslot
        /\ UNCHANGED <<closed, latestSeq, frame, wslot, slots>>
    BY <1>2 DEF Store, PublishOrder
  <2>2. Published' = Published
    BY <2>1 DEF Published, Storing
  <2>. QED BY <2>1, <2>2 DEF PlaceInv
<1>3. ASSUME Store(3, "store3", "idle")
      PROVE  PlaceInv' /\ Published' = Published
  <2>1. /\ wpc = "store3" /\ wpc' = "idle" /\ latestSeq' = frame
        /\ UNCHANGED <<closed, latestSlot, frame, wslot, slots>>
    BY <1>3 DEF Store, PublishOrder
  <2>2. Published' = Published
    BY <2>1 DEF Published, Storing
  <2>. QED BY <2>1, <2>2 DEF PlaceInv
<1>. QED BY <1>1, <1>2, <1>3

-----------------------------------------------------------------------------
(* The readers' half.                                                       *)

\* A stable word is of a frame that counts as published.
LEMMA StableIsPublished ==
  ASSUME RingInv
  PROVE  /\ Published \in Frames /\ latestSeq <= Published
         /\ Published <= latestSeq + 1
         /\ \A i \in SlotIds :
              Stable(slots[i].seq) => slots[i].seq \div 2 <= Published
<1>0. /\ latestSeq \in Frames /\ frame \in Frames /\ latestSeq \in Nat
      /\ frame \in Nat /\ \A i \in SlotIds : slots[i].seq \in Nat
      /\ wpc \in {"idle", "first", "second", "meta", "store1", "store2", "store3"}
  BY DEF RingInv, TypeOK, Frames, Words
<1>1. /\ Published \in Frames /\ latestSeq <= Published
      /\ Published <= latestSeq + 1
  BY <1>0 DEF RingInv, WriterInv, Published, Storing
<1>2. \A i \in SlotIds : slots[i].seq <= 2 * Published + 1
  BY <1>0 DEF RingInv, WriterInv, Filling, Published, Storing
<1>3. Published \in Nat
  BY <1>1 DEF Frames
<1>. QED BY <1>0, <1>1, <1>2, <1>3 DEF Stable

\* The writer only moves words, the newest frame and the header forward, and
\* never after the ring is closed.
LEMMA WriterKeepsReaderInv ==
  ASSUME RingInv, PlaceInv, ReaderInv, Write, Published <= Published'
  PROVE  ReaderInv'
<1>1. UNCHANGED readerVars /\ closed' = closed
  BY WordsGrow
<1>2. ~ closed
  BY DEF PlaceInv, Write, BeginSlot, FinishFrame, Fill, Store
<1>3. latestSeq <= latestSeq'
  <2>1. latestSeq \in Nat
    BY DEF RingInv, TypeOK, Frames
  <2>2. wpc \in {"store2", "store3"} => frame = latestSeq + 1
    BY DEF RingInv, WriterInv
  <2>. QED
    BY <2>1, <2>2 DEF Write, BeginSlot, FinishFrame, Fill, Store, headerVars,
       PublishOrder
<1>4. TypeOK /\ TypeOK'
  BY WriterTyping DEF RingInv
<1>5. Published \in Nat /\ Published' \in Nat
  BY <1>4 DEF Published, TypeOK, Frames
<1>6. ASSUME NEW r \in Readers PROVE InPlace(r)'
  <2>1. InPlace(r)
    BY DEF ReaderInv
  <2>2. /\ pc'[r] = pc[r] /\ pos'[r] = pos[r] /\ slot'[r] = slot[r]
        /\ before'[r] = before[r] /\ copy'[r] = copy[r]
    BY <1>1 DEF readerVars
  <2>3. /\ pos[r] \in Nat /\ slot[r] \in SlotIds /\ latestSeq \in Nat
        /\ latestSeq' \in Nat
        /\ slots[slot[r]].seq \in Nat /\ slots'[slot[r]].seq \in Nat
    BY <1>4 DEF TypeOK, Frames, Words
  <2>4. slots[slot[r]].seq <= slots'[slot[r]].seq
    BY <2>3, WordsGrow
  <2>5. Copying(r)' <=> Copying(r)
    BY <2>2 DEF Copying
  <2>6. (Loaded(r)' <=> Loaded(r)) /\ Want(r)' = Want(r) /\ SlotOf(r)' = SlotOf(r)
    BY <2>2, <2>5 DEF Loaded, Want, SlotOf
  <2>7. Fresh(r) => Fresh(r)'
    BY <1>3, <2>2, <2>3 DEF Fresh
  <2>8. pos'[r] <= Published' /\ (r \in FifoReaders => pos'[r] <= latestSeq')
    BY <1>3, <1>5, <2>1, <2>2, <2>3 DEF InPlace
  <2>9. /\ Loaded(r)' => slots'[slot'[r]].seq >= 2 * Want(r)'
        /\ pc'[r] = "gone" => pos'[r] + SlotCount <= latestSeq'
    BY <1>3, <2>1, <2>2, <2>3, <2>4, <2>6 DEF InPlace, Want
  <2>. QED
    BY <1>1, <1>2, <2>1, <2>2, <2>5, <2>6, <2>7, <2>8, <2>9 DEF InPlace
<1>. QED BY <1>6 DEF ReaderInv

\* Where a FIFO reader finds another frame than the one it wants, a whole ring
\* of newer frames has been published.
LEMMA OtherFrameIsARingAway ==
  ASSUME NEW r \in FifoReaders, RingInv, PlaceInv, InPlace(r), pc[r] = "before",
         Stable(slots[slot[r]].seq), slots[slot[r]].seq \div 2 # Want(r)
  PROVE  pos[r] + SlotCount <= latestSeq
<1> DEFINE word == slots[slot[r]].seq
           n == word \div 2
<1>0. /\ r \in Readers /\ slot[r] \in SlotIds /\ pos[r] \in Nat
      /\ latestSeq \in Nat /\ SlotCount \in Nat \ {0} /\ word \in Nat
  BY DEF RingInv, TypeOK, Frames, Words, Readers
<1>1. /\ word >= 2 * Want(r) /\ slot[r] = Want(r) % SlotCount
  BY DEF InPlace, Loaded, SlotOf
<1>2. Want(r) = pos[r] + 1
  BY DEF Want
<1>3. word = 2 * n /\ n \in Nat /\ FrameOf(word) = n /\ word # 0
  BY <1>0 DEF Stable, FrameOf
<1>4. n % SlotCount = slot[r]
  BY <1>0, <1>3 DEF PlaceInv
<1>5. n <= Published /\ Published <= latestSeq + 1 /\ Published \in Nat
  BY <1>0, StableIsPublished DEF Frames
<1>6. n # Want(r)
  OBVIOUS
<1> HIDE DEF n, word
<1>7. Want(r) < n /\ Want(r) \in Nat
  BY <1>0, <1>1, <1>2, <1>3, <1>6
<1>8. Want(r) + SlotCount <= n
  BY <1>0, <1>1, <1>3, <1>4, <1>7, AWholeTurn
<1>. QED BY <1>0, <1>2, <1>3, <1>5, <1>8

\* The slot a reader turns to holds a frame newer than its position.
LEMMA SlotHoldsANewerFrame ==
  ASSUME NEW r \in Readers, RingInv, PlaceInv, Fresh(r)
  PROVE  /\ slots[SlotOf(r)].seq >= 2 * Want(r)
         /\ slots[latestSlot].seq >= 2 * Want(r)
<1>0. /\ pos[r] \in Nat /\ latestSeq \in Nat /\ latestSeq <= MaxFrames
      /\ MaxFrames \in Nat /\ latestSlot \in SlotIds
      /\ \A i \in SlotIds : slots[i].seq \in Nat
  BY DEF RingInv, TypeOK, Frames, Words
<1>1. /\ Published \in 0..MaxFrames /\ latestSeq <= Published
  BY StableIsPublished DEF Frames
<1>2. Want(r) \in 1..MaxFrames /\ Want(r) <= latestSeq /\ Want(r) <= Published
  BY <1>0, <1>1 DEF Fresh, Want
<1>3. slots[SlotOf(r)].seq >= 2 * Want(r)
  BY <1>2 DEF PlaceInv, SlotOf
<1>4. PICK n \in 1..MaxFrames :
        latestSlot = n % SlotCount /\ n <= Published /\ Want(r) <= n
  <2>1. CASE wpc = "store3"
    <3>1. Published = frame /\ latestSlot = frame % SlotCount
      BY <2>1 DEF Published, Storing, PlaceInv
    <3>. QED BY <1>1, <1>2, <3>1
  <2>2. CASE wpc # "store3"
    <3>1. latestSlot = latestSeq % SlotCount
      BY <2>2 DEF PlaceInv
    <3>. QED BY <1>0, <1>1, <1>2, <3>1
  <2>. QED BY <2>1, <2>2
<1>5. slots[latestSlot].seq >= 2 * n
  BY <1>4 DEF PlaceInv
<1>. QED BY <1>0, <1>2, <1>3, <1>4, <1>5

\* What a reader's step is, for the reader and for everybody else.
LEMMA ReaderFrame ==
  ASSUME NEW q \in Readers, TypeOK, Read(q)
  PROVE  /\ UNCHANGED <<headerVars, writerVars>>
         /\ \A r \in Readers \ {q} :
              /\ pc'[r] = pc[r] /\ pos'[r] = pos[r] /\ slot'[r] = slot[r]
              /\ before'[r] = before[r] /\ copy'[r] = copy[r]
              /\ delivered'[r] = delivered[r]
<1>1. UNCHANGED <<headerVars, writerVars>>
  BY DEF Read, Open, LoadLatest, LoadState, Reload, LoadSlot, LoadBefore, Jump,
     LoadMeta, Recheck, CopyWord, LoadAfter
<1>2. ASSUME NEW r \in Readers \ {q}
      PROVE  /\ pc'[r] = pc[r] /\ pos'[r] = pos[r] /\ slot'[r] = slot[r]
             /\ before'[r] = before[r] /\ copy'[r] = copy[r]
             /\ delivered'[r] = delivered[r]
  BY DEF TypeOK, Read, Open, LoadLatest, LoadState, Reload, LoadSlot, LoadBefore,
     Jump, LoadMeta, Recheck, CopyWord, LoadAfter, Retry, Goto
<1>. QED BY <1>1, <1>2

\* A reader that has finished a copy passes the frame it copied, published and
\* newer than its position; a FIFO reader passes the next one.
LEMMA TakesANewerFrame ==
  ASSUME NEW q \in Readers, RingInv, InPlace(q), LoadAfter(q), Untouched(q)
  PROVE  /\ before[q] \div 2 \in (pos[q] + 1)..Published
         /\ q \in FifoReaders => before[q] \div 2 = pos[q] + 1
<1>1. Copying(q)
  BY DEF LoadAfter, Copying
<1>2. /\ slot[q] \in SlotIds /\ before[q] \in Nat /\ pos[q] \in Nat
  BY DEF RingInv, TypeOK, Frames, Words
<1>3. Stable(before[q]) /\ before[q] = slots[slot[q]].seq
  BY <1>1 DEF RingInv, CopyInv, Untouched
<1>4. before[q] \div 2 <= Published /\ Published \in Nat
  BY <1>2, <1>3, StableIsPublished DEF Frames
<1>. QED BY <1>1, <1>2, <1>4 DEF InPlace, Want

\* A reader that fell behind jumps forward, at most to the end of what has
\* left the ring, and may stay where it is.
LEMMA JumpsToTheOldest ==
  ASSUME NEW q \in Readers, RingInv, InPlace(q), Jump(q)
  PROVE  /\ q \in FifoReaders /\ pos[q] <= latestSeq - SlotCount
         /\ pos' = [pos EXCEPT ![q] = latestSeq - SlotCount]
<1>0. latestSeq \in Nat /\ pos[q] \in Nat /\ SlotCount \in Nat \ {0}
  BY DEF RingInv, TypeOK, Frames
<1>1. q \in FifoReaders /\ pos[q] + SlotCount <= latestSeq
  BY DEF InPlace, Jump
<1>2. OldestLive - 1 = latestSeq - SlotCount
  BY <1>0, <1>1 DEF OldestLive
<1>3. pos[q] <= latestSeq - SlotCount
  BY <1>0, <1>1
<1>4. pos' = [pos EXCEPT ![q] = OldestLive - 1]
  BY DEF Jump
<1>. QED BY <1>1, <1>2, <1>3, <1>4

\* Every step of a reader leaves the readers in place.
LEMMA ReaderKeepsReaderInv ==
  ASSUME NEW q \in Readers, RingInv, PlaceInv, ReaderInv, Read(q)
  PROVE  ReaderInv' /\ PlaceInv' /\ Published' = Published
<1>0. TypeOK /\ InPlace(q)
  BY DEF RingInv, ReaderInv
<1>1. /\ UNCHANGED <<latestSeq, latestSlot, closed, slots, wpc, frame, wslot>>
      /\ \A r \in Readers \ {q} :
           /\ pc'[r] = pc[r] /\ pos'[r] = pos[r] /\ slot'[r] = slot[r]
           /\ before'[r] = before[r] /\ copy'[r] = copy[r]
  BY <1>0, ReaderFrame DEF headerVars, writerVars
<1>2. Published' = Published
  BY <1>1 DEF Published, Storing
<1>3. PlaceInv'
  BY <1>1, <1>2 DEF PlaceInv
<1>4. ASSUME NEW r \in Readers \ {q} PROVE InPlace(r)'
  <2>1. InPlace(r)
    BY DEF ReaderInv
  <2>. QED
    BY <1>1, <1>2, <2>1 DEF InPlace, Loaded, Copying, Fresh, Want, SlotOf
<1>5. InPlace(q)'
  <2>0. /\ pc \in [Readers -> ReaderPCs] /\ pos \in [Readers -> Frames]
        /\ slot \in [Readers -> SlotIds] /\ before \in [Readers -> Words]
        /\ copy \in [Readers -> Copies] /\ slot[q] \in SlotIds
        /\ latestSeq \in Nat /\ pos[q] \in Nat /\ before[q] \in Nat
        /\ slots[slot[q]].seq \in Nat
    BY <1>0 DEF TypeOK, Frames, Words
  <2>p. /\ Published \in Nat /\ latestSeq <= Published
        /\ wpc = "idle" => Published = latestSeq
    BY StableIsPublished DEF Frames, Published, Storing
  <2>1. CASE Open(q)
    <3>1. pc'[q] = "idle" /\ pos'[q] \in {0, latestSeq}
      BY <2>0, <2>1 DEF Open, Goto
    <3>. QED
      BY <1>2, <1>1, <2>0, <2>p, <3>1 DEF InPlace, Loaded, Copying
  <2>2. CASE LoadLatest(q)
    <3>1. /\ UNCHANGED <<pos, slot, before, copy>>
          /\ pc'[q] = IF Fresh(q) THEN "slot" ELSE "state"
      BY <2>0, <2>2 DEF LoadLatest, Goto
    <3>. QED
      BY <1>0, <1>1, <1>2, <3>1 DEF InPlace, Loaded, Copying, Fresh
  <2>3. CASE LoadState(q)
    <3>1. /\ UNCHANGED <<pos, slot, before, copy>>
          /\ pc'[q] = IF closed THEN "reload" ELSE "idle"
      BY <2>0, <2>3 DEF LoadState, Goto, OnceClosed
    <3>. QED
      BY <1>0, <1>1, <1>2, <3>1 DEF InPlace, Loaded, Copying
  <2>4. CASE Reload(q)
    <3>1. /\ UNCHANGED <<pos, slot, before, copy>>
          /\ pc[q] = "reload" /\ pc'[q] = IF Fresh(q) THEN "slot" ELSE "ended"
      BY <2>0, <2>4 DEF Reload, Goto
    <3>2. closed /\ Published = latestSeq
      BY <1>0, <2>p, <3>1 DEF InPlace, PlaceInv
    <3>3. ~ Fresh(q) => pos[q] = latestSeq
      BY <1>0, <2>0, <3>2 DEF Fresh, InPlace
    <3>. QED
      BY <1>0, <1>1, <1>2, <3>1, <3>2, <3>3 DEF InPlace, Loaded, Copying, Fresh
  <2>5. CASE LoadSlot(q)
    <3>1. /\ UNCHANGED <<pos, before, copy>> /\ pc[q] = "slot"
          /\ pc'[q] = "before"
          /\ slot'[q] = IF q \in FifoReaders THEN SlotOf(q) ELSE latestSlot
      BY <2>0, <2>5 DEF LoadSlot, Goto
    <3>2. Fresh(q)
      BY <1>0, <3>1 DEF InPlace
    <3>3. slots[slot'[q]].seq >= 2 * Want(q)
      BY <3>1, <3>2, SlotHoldsANewerFrame
    <3>. QED
      BY <1>0, <1>1, <1>2, <3>1, <3>2, <3>3
      DEF InPlace, Loaded, Copying, Fresh, Want, SlotOf
  <2>6. CASE LoadBefore(q)
    <3>1. /\ UNCHANGED <<pos, slot, copy>> /\ pc[q] = "before"
          /\ before'[q] = slots[slot[q]].seq
      BY <2>0, <2>6 DEF LoadBefore
    <3>2. /\ Fresh(q) /\ slots[slot[q]].seq >= 2 * Want(q)
          /\ q \in FifoReaders => slot[q] = SlotOf(q)
      BY <1>0, <3>1 DEF InPlace, Loaded
    <3>3. CASE ~ Stable(slots[slot[q]].seq)
      <4>1. pc'[q] \in {"slot", "idle"}
        BY <2>0, <2>6, <3>3 DEF LoadBefore, Retry, Goto
      <4>. QED
        BY <1>0, <1>1, <1>2, <3>1, <3>2, <4>1 DEF InPlace, Loaded, Copying, Fresh
    <3>4. CASE /\ Stable(slots[slot[q]].seq)
               /\ q \in FifoReaders /\ slots[slot[q]].seq \div 2 # Want(q)
      <4>1. pc'[q] = "gone"
        BY <2>0, <2>6, <3>4 DEF LoadBefore, Goto
      <4>2. pos[q] + SlotCount <= latestSeq
        BY <1>0, <3>1, <3>4, OtherFrameIsARingAway
      <4>. QED
        BY <1>0, <1>1, <1>2, <3>1, <3>2, <3>4, <4>1, <4>2
        DEF InPlace, Loaded, Copying, Fresh, Want, SlotOf
    <3>5. CASE /\ Stable(slots[slot[q]].seq)
               /\ ~ (q \in FifoReaders /\ slots[slot[q]].seq \div 2 # Want(q))
      <4>1. pc'[q] = "meta"
        BY <2>0, <2>6, <3>5 DEF LoadBefore, Goto
      <4>2. before'[q] \div 2 >= Want(q)
        BY <2>0, <3>1, <3>2 DEF Want
      <4>. QED
        BY <1>0, <1>1, <1>2, <3>1, <3>2, <3>5, <4>1, <4>2
        DEF InPlace, Loaded, Copying, Fresh, Want, SlotOf
    <3>. QED BY <3>3, <3>4, <3>5
  <2>7. CASE Jump(q)
    <3>1. pos'[q] = latestSeq - SlotCount
      BY <1>0, <2>0, <2>7, JumpsToTheOldest
    <3>2. pc'[q] = "idle"
      BY <2>0, <2>7 DEF Jump, Goto
    <3>. QED
      BY <1>1, <1>2, <2>0, <2>p, <3>1, <3>2 DEF InPlace, Loaded, Copying
  <2>8. CASE LoadMeta(q)
    <3>1. /\ UNCHANGED <<pos, slot, before>> /\ pc[q] = "meta"
          /\ copy'[q].meta = slots[slot[q]].meta
          /\ pc'[q] = IF slots[slot[q]].meta \in BigFrames THEN "recheck"
                      ELSE "first"
      BY <2>0, <2>8 DEF LoadMeta, Goto, Copies
    <3>. QED
      BY <1>0, <1>1, <1>2, <3>1 DEF InPlace, Loaded, Copying, Fresh, Want, SlotOf
  <2>9. CASE Recheck(q)
    <3>1. UNCHANGED <<pos, slot, before, copy>> /\ pc[q] = "recheck"
      BY <2>9 DEF Recheck
    <3>2. CASE LengthIsReal(q)
      <4>1. pc'[q] = IF q \in FifoReaders THEN "failed" ELSE "idle"
        BY <2>0, <2>9, <3>2 DEF Recheck, Goto
      <4>2. copy[q].meta = before[q] \div 2
        BY <3>1, <3>2 DEF RingInv, CopyInv, Copying, LengthIsReal
      <4>. QED
        BY <1>0, <1>1, <1>2, <3>1, <4>1, <4>2 DEF InPlace, Loaded, Copying
    <3>3. CASE ~ LengthIsReal(q)
      <4>1. pc'[q] \in {"slot", "idle"}
        BY <2>0, <2>9, <3>3 DEF Recheck, Retry, Goto
      <4>. QED
        BY <1>0, <1>1, <1>2, <3>1, <4>1 DEF InPlace, Loaded, Copying, Fresh
    <3>. QED BY <3>2, <3>3
  <2>10. CASE CopyWord(q, "first", "second") \/ CopyWord(q, "second", "after")
    <3>1. /\ UNCHANGED <<pos, slot, before>> /\ pc[q] \in {"first", "second"}
          /\ pc'[q] \in {"second", "after"}
      BY <2>0, <2>10 DEF CopyWord, Goto
    <3>. QED
      BY <1>0, <1>1, <1>2, <3>1 DEF InPlace, Loaded, Copying, Fresh, Want, SlotOf
  <2>11. CASE LoadAfter(q)
    <3>1. CASE Untouched(q)
      <4>1. pc'[q] = "idle" /\ pos'[q] = before[q] \div 2
        BY <2>0, <2>11, <3>1 DEF LoadAfter, Goto
      <4>2. pos'[q] <= Published /\ (q \in FifoReaders => pos'[q] = pos[q] + 1)
        BY <1>0, <2>11, <3>1, <4>1, TakesANewerFrame
      <4>3. Fresh(q)
        BY <1>0, <2>11 DEF InPlace, Loaded, Copying, LoadAfter
      <4>4. q \in FifoReaders => pos'[q] <= latestSeq
        BY <2>0, <4>2, <4>3 DEF Fresh
      <4>. QED
        BY <1>1, <1>2, <4>1, <4>2, <4>4 DEF InPlace, Loaded, Copying
    <3>2. CASE ~ Untouched(q)
      <4>1. /\ UNCHANGED <<pos, slot, before, copy>> /\ pc[q] = "after"
            /\ pc'[q] \in {"slot", "idle"}
        BY <2>0, <2>11, <3>2 DEF LoadAfter, Retry, Goto
      <4>. QED
        BY <1>0, <1>1, <1>2, <4>1 DEF InPlace, Loaded, Copying, Fresh
    <3>. QED BY <3>1, <3>2
  <2>. QED
    BY <2>1, <2>2, <2>3, <2>4, <2>5, <2>6, <2>7, <2>8, <2>9, <2>10, <2>11
    DEF Read
<1>. QED BY <1>2, <1>3, <1>4, <1>5 DEF ReaderInv

\* Frames lie where they belong and readers are in place, throughout.
THEOREM Places == Spec => [](RingInv /\ PlaceInv /\ ReaderInv)
<1>1. Init => PlaceInv /\ ReaderInv
  <2> SUFFICES ASSUME Init PROVE PlaceInv /\ ReaderInv
    OBVIOUS
  <2>1. /\ Published = 0 /\ latestSeq = 0 /\ latestSlot = 0 /\ wpc = "idle"
        /\ \A i \in SlotIds : slots[i].seq = 0
    BY DEF Init, Published, Storing, EmptySlot
  <2>2. 0 % SlotCount = 0
    OBVIOUS
  <2>3. PlaceInv
    BY <2>1, <2>2 DEF PlaceInv
  <2>4. \A r \in Readers : pc[r] = "unopened" /\ pos[r] = 0
    BY DEF Init
  <2>. QED
    BY <2>1, <2>3, <2>4 DEF ReaderInv, InPlace, Loaded, Copying
<1>2. RingInv /\ PlaceInv /\ ReaderInv /\ [Next]_vars => (PlaceInv /\ ReaderInv)'
  <2> SUFFICES ASSUME RingInv, PlaceInv, ReaderInv, [Next]_vars
               PROVE  PlaceInv' /\ ReaderInv'
    OBVIOUS
  <2>p. Published \in Nat
    BY StableIsPublished DEF Frames
  <2>1. CASE Write
    <3>1. PlaceInv' /\ (Published' = Published \/ Published' = Published + 1)
      BY <2>1, BeginKeepsPlace, FillKeepsPlace, StoreKeepsPlace
      DEF Write, FinishFrame
    <3>2. Published <= Published'
      BY <2>p, <3>1
    <3>. QED BY <2>1, <3>1, <3>2, WriterKeepsReaderInv
  <2>2. CASE Close
    BY <2>2 DEF Close, writerVars, readerVars, PlaceInv, Published, Storing,
       ReaderInv, InPlace, Loaded, Copying, Fresh, Want, SlotOf
  <2>3. ASSUME NEW r \in Readers, Read(r) PROVE PlaceInv' /\ ReaderInv'
    BY <2>3, ReaderKeepsReaderInv
  <2>4. CASE UNCHANGED vars
    BY <2>4 DEF vars, headerVars, writerVars, readerVars, PlaceInv, Published,
       Storing, ReaderInv, InPlace, Loaded, Copying, Fresh, Want, SlotOf
  <2>. QED BY <2>1, <2>2, <2>3, <2>4 DEF Next
<1>. QED BY <1>1, <1>2, RingSafety, PTL DEF Spec

\* Closing a ring while its readers poll never loses the final frame
\* (ShmRead.cpp loads latestSeq again before it answers Closed).
THEOREM ClosedIsTheEnd == Spec => []ClosedAfterTheLastFrame
<1>1. ReaderInv => ClosedAfterTheLastFrame
  BY DEF ReaderInv, InPlace, ClosedAfterTheLastFrame
<1>. QED BY <1>1, Places, PTL

\* A reader is told that its buffer is too small for a frame only if it is: the
\* length that says so was not torn by the writer.
THEOREM TooSmallIsTrue == Spec => []TooSmallIsReal
<1>1. ReaderInv => TooSmallIsReal
  BY DEF ReaderInv, InPlace, TooSmallIsReal, Readers
<1>. QED BY <1>1, Places, PTL

-----------------------------------------------------------------------------
(* The refinement.                                                          *)

\* The last two variables of Stream.
LastTaken == [r \in Readers |-> delivered[r].seq]
Phase == [r \in Readers |->
            CASE pc[r] = "unopened" -> "new"
              [] pc[r] = "ended" -> "ended"
              [] pc[r] = "failed" -> "failed"
              [] OTHER -> "reading"]

\* The writer's steps: the first store of publish publishes, the others are not
\* seen by the readers.
LEMMA WriteRefines ==
  ASSUME RingInv, PlaceInv, Write
  PROVE  Stream!Publish \/ UNCHANGED Stream!streamVars
<1>1. UNCHANGED readerVars /\ closed' = closed
  BY WordsGrow
<1>2. pos' = pos /\ LastTaken' = LastTaken /\ Phase' = Phase
  BY <1>1 DEF readerVars, LastTaken, Phase
<1>3. CASE Store(1, "store1", "store2")
  <2>1. ~ closed /\ Published' = Published + 1
    BY <1>3, StoreKeepsPlace
  <2>. QED
    BY <1>1, <1>2, <2>1
    DEF Stream!Publish, Published, Storing, LastTaken, Phase
<1>4. CASE ~ Store(1, "store1", "store2")
  <2>1. Published' = Published
    BY <1>4, BeginKeepsPlace, FillKeepsPlace, StoreKeepsPlace
    DEF Write, FinishFrame
  <2>. QED
    BY <1>1, <1>2, <2>1
    DEF Stream!streamVars, Published, Storing, LastTaken, Phase
<1>. QED BY <1>3, <1>4

\* A reader's steps: opening joins, a post-check that holds takes a frame, Gone
\* skips frames (or none), Closed sees the end, DestTooSmall fails; the loads
\* and the retries are not seen.
LEMMA ReadRefines ==
  ASSUME NEW q \in Readers, RingInv, PlaceInv, ReaderInv, ReaderInv', Read(q)
  PROVE  \/ Stream!Join(q) \/ Stream!Take(q) \/ Stream!Skip(q)
         \/ Stream!SeeEnd(q) \/ Stream!Fail(q)
         \/ UNCHANGED Stream!streamVars
<1>0. /\ pc \in [Readers -> ReaderPCs] /\ pos \in [Readers -> Frames]
      /\ delivered \in [Readers -> Copies]
      /\ latestSeq \in Nat /\ pos[q] \in Nat /\ SlotCount \in Nat \ {0}
  BY DEF RingInv, TypeOK, Frames
<1>p. /\ Published \in Nat /\ latestSeq <= Published
      /\ wpc = "idle" => Published = latestSeq
  BY StableIsPublished DEF Frames, Published, Storing
<1>i. InPlace(q) /\ TypeOK
  BY DEF ReaderInv, RingInv
<1>1. closed' = closed /\ Published' = Published
  BY <1>i, ReaderKeepsReaderInv, ReaderFrame DEF headerVars
<1> DEFINE PhaseOf(c) == CASE c = "unopened" -> "new"
                           [] c = "ended" -> "ended"
                           [] c = "failed" -> "failed"
                           [] OTHER -> "reading"
<1>2. /\ Phase[q] = PhaseOf(pc[q])
      /\ \A c : pc' = [pc EXCEPT ![q] = c] =>
           Phase' = [Phase EXCEPT ![q] = PhaseOf(c)]
  BY <1>0 DEF Phase
<1>3. delivered' = delivered => LastTaken' = LastTaken
  BY DEF LastTaken
<1>4. CASE Open(q)
  <2>1. /\ pc[q] = "unopened" /\ pc' = [pc EXCEPT ![q] = "idle"]
        /\ delivered' = delivered
        /\ \E start \in 0..Published : pos' = [pos EXCEPT ![q] = start]
    <3>1. PICK start \in {0, latestSeq} : pos' = [pos EXCEPT ![q] = start]
      BY <1>4 DEF Open
    <3>2. start \in 0..Published
      BY <1>0, <1>p
    <3>. QED BY <1>4, <3>1, <3>2 DEF Open, Goto
  <2>2. Phase[q] = "new" /\ Phase' = [Phase EXCEPT ![q] = "reading"]
    <3>1. PhaseOf("unopened") = "new" /\ PhaseOf("idle") = "reading"
      OBVIOUS
    <3>2. Phase' = [Phase EXCEPT ![q] = PhaseOf("idle")]
      BY <1>2, <2>1
    <3>. QED BY <1>2, <2>1, <3>1, <3>2
  <2>. QED
    BY <1>1, <1>3, <2>1, <2>2
    DEF Stream!Join, Published, Storing, LastTaken, Phase
<1>5. ASSUME pos' = pos, delivered' = delivered, NEW c,
             pc' = [pc EXCEPT ![q] = c], PhaseOf(c) = PhaseOf(pc[q])
      PROVE  UNCHANGED Stream!streamVars
  <2>1. Phase' = Phase
    BY <1>2, <1>5 DEF Phase
  <2>. QED
    BY <1>1, <1>3, <1>5, <2>1
    DEF Stream!streamVars, Published, Storing, LastTaken, Phase
<1>6. CASE LoadAfter(q) /\ Untouched(q)
  <2> DEFINE f == before[q] \div 2
  <2>1. /\ f \in (pos[q] + 1)..Published
        /\ q \in FifoReaders => f = pos[q] + 1
    BY <1>i, <1>6, TakesANewerFrame
  <2>2. /\ pc[q] = "after" /\ pc' = [pc EXCEPT ![q] = "idle"]
        /\ pos' = [pos EXCEPT ![q] = f]
        /\ delivered' = [delivered EXCEPT ![q] = [copy[q] EXCEPT !.seq = f]]
    BY <1>6 DEF LoadAfter, Goto
  <2>3. LastTaken' = [LastTaken EXCEPT ![q] = f]
    <3>1. copy[q] \in Copies
      BY <1>i DEF TypeOK
    <3>. QED BY <1>0, <2>2, <3>1 DEF LastTaken, Copies
  <2>4. Phase[q] = "reading" /\ Phase' = Phase
    BY <1>2, <2>2 DEF Phase
  <2> HIDE DEF f
  <2>. QED
    BY <1>1, <2>1, <2>2, <2>3, <2>4
    DEF Stream!Take, Published, Storing, LastTaken, Phase
<1>7. CASE Jump(q)
  <2>1. /\ q \in FifoReaders /\ pos[q] <= latestSeq - SlotCount
        /\ pos' = [pos EXCEPT ![q] = latestSeq - SlotCount]
    BY <1>i, <1>7, JumpsToTheOldest
  <2>2. /\ pc[q] = "gone" /\ pc' = [pc EXCEPT ![q] = "idle"]
        /\ delivered' = delivered
    BY <1>7 DEF Jump, Goto
  <2>3. Phase[q] = "reading" /\ Phase' = Phase
    BY <1>2, <2>2 DEF Phase
  <2>4. CASE pos[q] = latestSeq - SlotCount
    <3>1. pos' = pos
      BY <1>0, <2>1, <2>4
    <3>. QED
      BY <1>1, <1>3, <2>2, <2>3, <3>1
      DEF Stream!streamVars, Published, Storing, LastTaken, Phase
  <2>5. CASE pos[q] # latestSeq - SlotCount
    <3>1. latestSeq - SlotCount \in (pos[q] + 1)..(Published - SlotCount)
      BY <1>0, <1>p, <2>1, <2>5
    <3>. QED
      BY <1>1, <1>3, <2>1, <2>2, <2>3, <3>1
      DEF Stream!Skip, Published, Storing, LastTaken, Phase
  <2>. QED BY <2>4, <2>5
<1>8. CASE Reload(q) /\ ~ Fresh(q)
  <2>1. /\ pc[q] = "reload" /\ pc' = [pc EXCEPT ![q] = "ended"]
        /\ pos' = pos /\ delivered' = delivered
    BY <1>8 DEF Reload, Goto
  <2>2. closed /\ Published = latestSeq
    BY <1>i, <1>p, <2>1 DEF InPlace, PlaceInv
  <2>3. pos[q] = Published
    BY <1>0, <1>i, <1>8, <2>2 DEF Fresh, InPlace
  <2>4. Phase[q] = "reading" /\ Phase' = [Phase EXCEPT ![q] = "ended"]
    BY <1>2, <2>1
  <2>. QED
    BY <1>1, <1>3, <2>1, <2>2, <2>3, <2>4
    DEF Stream!SeeEnd, Published, Storing, LastTaken, Phase
<1>9. CASE Recheck(q) /\ LengthIsReal(q) /\ q \in FifoReaders
  <2>1. /\ pc[q] = "recheck" /\ pc' = [pc EXCEPT ![q] = "failed"]
        /\ pos' = pos /\ delivered' = delivered
    BY <1>9 DEF Recheck, Goto
  <2>2. Phase[q] = "reading" /\ Phase' = [Phase EXCEPT ![q] = "failed"]
    BY <1>2, <2>1
  <2>. QED
    BY <1>1, <1>3, <1>9, <2>1, <2>2
    DEF Stream!Fail, Published, Storing, LastTaken, Phase
<1>10. CASE \/ LoadLatest(q) \/ LoadState(q)
            \/ Reload(q) /\ Fresh(q)
            \/ LoadSlot(q) \/ LoadBefore(q) \/ LoadMeta(q)
            \/ Recheck(q) /\ ~ (LengthIsReal(q) /\ q \in FifoReaders)
            \/ CopyWord(q, "first", "second") \/ CopyWord(q, "second", "after")
            \/ LoadAfter(q) /\ ~ Untouched(q)
  <2> DEFINE On == {"idle", "state", "reload", "slot", "before", "gone", "meta",
                    "recheck", "first", "second", "after"}
  <2>1. /\ pos' = pos /\ delivered' = delivered /\ pc[q] \in On
        /\ \E c \in On : pc' = [pc EXCEPT ![q] = c]
    BY <1>10 DEF LoadLatest, LoadState, OnceClosed, Reload, LoadSlot, LoadBefore,
       LoadMeta, Recheck, CopyWord, LoadAfter, Retry, Goto
  <2>2. \A c \in On : PhaseOf(c) = "reading"
    OBVIOUS
  <2>. QED BY <1>5, <2>1, <2>2
<1>. QED BY <1>4, <1>6, <1>7, <1>8, <1>9, <1>10 DEF Read

\* Every step of the ring is a step of the stream or is not seen by it.
LEMMA StepRefines ==
  RingInv /\ PlaceInv /\ ReaderInv /\ ReaderInv' /\ [Next]_vars =>
    [Stream!StreamNext]_Stream!streamVars
<1> SUFFICES ASSUME RingInv, PlaceInv, ReaderInv, ReaderInv', [Next]_vars
             PROVE  [Stream!StreamNext]_Stream!streamVars
  OBVIOUS
<1>1. CASE Write
  BY <1>1, WriteRefines DEF Stream!StreamNext
<1>2. CASE Close
  <2>1. /\ ~ closed /\ closed' = TRUE
        /\ UNCHANGED <<Published, pos, LastTaken, Phase>>
    BY <1>2 DEF Close, writerVars, readerVars, Published, Storing, LastTaken,
       Phase
  <2>2. Stream!End
    BY <2>1 DEF Stream!End, Published, Storing, LastTaken, Phase
  <2>. QED BY <2>2 DEF Stream!StreamNext
<1>3. ASSUME NEW r \in Readers, Read(r)
      PROVE  [Stream!StreamNext]_Stream!streamVars
  <2>1. \/ Stream!Join(r) \/ Stream!Take(r) \/ Stream!Skip(r)
        \/ Stream!SeeEnd(r) \/ Stream!Fail(r)
        \/ UNCHANGED Stream!streamVars
    BY <1>3, ReadRefines
  <2>. QED BY <2>1 DEF Stream!StreamNext
<1>4. CASE UNCHANGED vars
  BY <1>4 DEF vars, headerVars, writerVars, readerVars, Stream!streamVars
<1>. QED BY <1>1, <1>2, <1>3, <1>4 DEF Next

\* What a frame ring promises its readers: they move forward, a FIFO reader
\* misses a frame only when a whole ring has been published since, whoever is
\* told Closed has passed every frame.
THEOREM RingImplementsStream == Spec => ImplementsLossyStream
<1>1. Init => Stream!StreamInit
  <2> SUFFICES ASSUME Init PROVE Stream!StreamInit
    OBVIOUS
  <2>1. Published = 0 /\ closed = FALSE /\ pos = [r \in Readers |-> 0]
    BY DEF Init, Published, Storing
  <2>2. LastTaken = [r \in Readers |-> 0]
    BY DEF Init, NoFrame, LastTaken
  <2>3. Phase = [r \in Readers |-> "new"]
    BY DEF Init, Phase
  <2>. QED
    BY <2>1, <2>2, <2>3
    DEF Stream!StreamInit, Published, Storing, LastTaken, Phase
<1>. QED
  BY <1>1, StepRefines, Places, PTL
  DEF Spec, ImplementsLossyStream, Stream!StreamSpec

-----------------------------------------------------------------------------
(* The wire. *)

HIDE RingAssumption
USE ViewsAssumption, BoundsAssumption

-----------------------------------------------------------------------------
(* Types: what each function of the session makes of a session.            *)

(* What a message is. *)
LEMMA Messages ==
  /\ \A x \in Values : Patch(x) \in Downlink /\ Patch(x).k = "state" /\ Patch(x).value = x
  /\ \A f \in FrameIds : FrameMessage(f) \in Downlink /\ FrameMessage(f).k = "frame"
                           /\ FrameMessage(f).frame = f
  /\ \A m \in Downlink : m.k = "state" => m.value \in Values
  /\ \A m \in Downlink : m.k = "frame" => m.frame \in FrameIds
  /\ \A m \in Downlink : m.k \in {"state", "frame", "res"}
  /\ \A m \in Uplink : m.k \in {"sub", "unsub"} => m.passive \in BOOLEAN
  /\ \A m \in Uplink : m.k = "set" => m.value \in Values
  /\ \A m \in Uplink : m.k = "req" => m.id \in Calls
  /\ \A m \in Uplink : m.k \in {"sub", "unsub", "set", "finterest", "fack", "close", "req"}
  BY DEF Patch, FrameMessage, Downlink, Uplink

(* Posting a message appends it to some channels, and changes nothing else. *)
LEMMA PostEffect ==
  ASSUME NEW s \in Server, NEW ws, NEW m \in Downlink
  PROVE  LET t == Post(s, ws, m) IN
         /\ t \in Server
         /\ t.alive = s.alive /\ t.state = s.state /\ t.subscribers = s.subscribers
         /\ t.activeSubscribers = s.activeSubscribers /\ t.producing = s.producing
         /\ t.newest = s.newest /\ t.frameCache = s.frameCache /\ t.late = s.late
         /\ t.frameInterest = s.frameInterest /\ t.frameInflight = s.frameInflight
         /\ t.framePending = s.framePending /\ t.running = s.running
         /\ \A w \in Windows :
              t.out[w] = IF w \in ws THEN Append(s.out[w], m) ELSE s.out[w]
<1> DEFINE out == [w \in Windows |-> IF w \in ws THEN Append(s.out[w], m) ELSE s.out[w]]
           t == [s EXCEPT !.out = out]
<1>1. out \in [Windows -> Seq(Downlink)]
  BY DEF Server
<1>2. Post(s, ws, m) = t
  BY DEF Post
<1>3. t \in Server
  BY <1>1 DEF Server
<1>4. /\ t.alive = s.alive /\ t.state = s.state /\ t.subscribers = s.subscribers
      /\ t.activeSubscribers = s.activeSubscribers /\ t.producing = s.producing
      /\ t.newest = s.newest /\ t.frameCache = s.frameCache /\ t.late = s.late
      /\ t.frameInterest = s.frameInterest /\ t.frameInflight = s.frameInflight
      /\ t.framePending = s.framePending /\ t.running = s.running /\ t.out = out
  BY DEF Server
<1> HIDE DEF t
<1> QED
  BY <1>2, <1>3, <1>4

(* What a session sends a frame to some of the channels: one whose gate is open has it, *)
(* the others keep it.                                                                   *)
FrameSent(s, ws, f, t) ==
  /\ t \in Server
  /\ t.alive = s.alive /\ t.state = s.state /\ t.subscribers = s.subscribers
  /\ t.activeSubscribers = s.activeSubscribers /\ t.producing = s.producing
  /\ t.newest = s.newest /\ t.frameCache = s.frameCache
  /\ t.frameInterest = s.frameInterest
  /\ t.frameInflight = s.frameInflight \union ws
  /\ \A w \in Windows :
       /\ t.framePending[w] = IF w \in ws /\ w \in s.frameInflight THEN f
                              ELSE s.framePending[w]
       /\ t.out[w] = IF w \in ws /\ w \notin s.frameInflight
                       THEN Append(s.out[w], FrameMessage(f)) ELSE s.out[w]

(* That is what the gate of the frames does. *)
LEMMA SendFrameEffect ==
  ASSUME NEW s \in Server, NEW ws \in SUBSET Windows, NEW f \in FrameIds
  PROVE  FrameSent(s, ws, f, SendFrame(s, ws, f))
<1> DEFINE pending == [w \in Windows |-> IF w \in ws \intersect s.frameInflight THEN f
                                         ELSE s.framePending[w]]
           held == [s EXCEPT !.frameInflight = @ \union ws, !.framePending = pending]
<1>1. pending \in [Windows -> FrameIds]
  BY DEF Server
<1>2. /\ held \in Server
      /\ held.alive = s.alive /\ held.state = s.state /\ held.subscribers = s.subscribers
      /\ held.activeSubscribers = s.activeSubscribers /\ held.producing = s.producing
      /\ held.newest = s.newest /\ held.frameCache = s.frameCache
      /\ held.frameInterest = s.frameInterest
      /\ held.frameInflight = s.frameInflight \union ws
      /\ held.framePending = pending /\ held.out = s.out
  BY <1>1 DEF Server
<1>3. SendFrame(s, ws, f) = Post(held, ws \ s.frameInflight, FrameMessage(f))
  BY DEF SendFrame
<1>4. FrameMessage(f) \in Downlink
  BY Messages
<1> HIDE DEF held
<1> QED
  BY <1>2, <1>3, <1>4, PostEffect DEF FrameSent

(* What an acknowledgement does: the frame that waits is sent, or the gate opens. *)
AckTaken(s, c, t) ==
  /\ t \in Server
  /\ t.alive = s.alive /\ t.state = s.state /\ t.subscribers = s.subscribers
  /\ t.activeSubscribers = s.activeSubscribers /\ t.producing = s.producing
  /\ t.newest = s.newest /\ t.frameCache = s.frameCache
  /\ t.frameInterest = s.frameInterest
  /\ t.frameInflight = IF s.framePending[c] = 0 THEN s.frameInflight \ {c}
                       ELSE s.frameInflight
  /\ \A w \in Windows :
       /\ t.framePending[w] = IF w = c THEN 0 ELSE s.framePending[w]
       /\ t.out[w] = IF w = c /\ s.framePending[c] # 0
                       THEN Append(s.out[w], FrameMessage(s.framePending[c]))
                       ELSE s.out[w]

(* It does. *)
LEMMA FrameAckEffect ==
  ASSUME NEW s \in Server, NEW c \in Windows
  PROVE  AckTaken(s, c, FrameAck(s, c))
<1> USE DEF AckTaken
<1> DEFINE shut == [s EXCEPT !.framePending[c] = 0]
<1>1. s.framePending[c] \in FrameIds /\ 0 \in FrameIds
  BY DEF Server, FrameIds
<1>2. CASE s.framePending[c] = 0
  BY <1>2 DEF FrameAck, Server
<1>3. CASE s.framePending[c] # 0
  <2>1. /\ shut \in Server
        /\ shut.alive = s.alive /\ shut.state = s.state
        /\ shut.subscribers = s.subscribers
        /\ shut.activeSubscribers = s.activeSubscribers /\ shut.producing = s.producing
        /\ shut.newest = s.newest /\ shut.frameCache = s.frameCache
        /\ shut.frameInterest = s.frameInterest
        /\ shut.frameInflight = s.frameInflight /\ shut.out = s.out
        /\ \A w \in Windows : shut.framePending[w] = IF w = c THEN 0
                                                     ELSE s.framePending[w]
    BY <1>1 DEF Server
  <2>2. FrameAck(s, c) = Post(shut, {c}, FrameMessage(s.framePending[c]))
    BY <1>3 DEF FrameAck
  <2>3. FrameMessage(s.framePending[c]) \in Downlink
    BY <1>1, Messages
  <2> HIDE DEF shut
  <2> QED
    BY <1>3, <2>1, <2>2, <2>3, PostEffect
<1> QED
  BY <1>2, <1>3

(* What a subscription does: the channel is seeded once. *)
SubscriptionTaken(s, c, passive, t) ==
  /\ t \in Server
  /\ t.alive = s.alive /\ t.state = s.state
  /\ t.subscribers = s.subscribers \union {c}
  /\ t.activeSubscribers = IF passive THEN s.activeSubscribers
                           ELSE s.activeSubscribers \union {c}
  /\ t.newest = s.newest /\ t.frameCache = s.frameCache
  /\ t.frameInterest = s.frameInterest /\ t.frameInflight = s.frameInflight
  /\ t.framePending = s.framePending
  /\ \A w \in Windows :
       t.out[w] = IF w = c /\ c \notin s.subscribers
                    THEN Append(s.out[w], Patch(s.state)) ELSE s.out[w]

(* It does. *)
LEMMA SubscribedEffect ==
  ASSUME NEW s \in Server, NEW c \in Windows, NEW passive \in BOOLEAN
  PROVE  SubscriptionTaken(s, c, passive, Subscribed(s, c, passive))
<1> USE DEF SubscriptionTaken
<1> DEFINE listed == [s EXCEPT !.subscribers = @ \union {c}]
           seeded == IF c \in s.subscribers THEN s ELSE Post(listed, {c}, Patch(s.state))
<1>1. /\ listed \in Server
      /\ listed.alive = s.alive /\ listed.state = s.state
      /\ listed.subscribers = s.subscribers \union {c}
      /\ listed.activeSubscribers = s.activeSubscribers
      /\ listed.newest = s.newest /\ listed.frameCache = s.frameCache
      /\ listed.frameInterest = s.frameInterest
      /\ listed.frameInflight = s.frameInflight
      /\ listed.framePending = s.framePending /\ listed.out = s.out
  BY DEF Server
<1>2. Patch(s.state) \in Downlink
  BY Messages DEF Server
<1> HIDE DEF listed
<1>3. /\ seeded \in Server
      /\ seeded.alive = s.alive /\ seeded.state = s.state
      /\ seeded.subscribers = s.subscribers \union {c}
      /\ seeded.activeSubscribers = s.activeSubscribers
      /\ seeded.newest = s.newest /\ seeded.frameCache = s.frameCache
      /\ seeded.frameInterest = s.frameInterest
      /\ seeded.frameInflight = s.frameInflight
      /\ seeded.framePending = s.framePending
      /\ \A w \in Windows :
           seeded.out[w] = IF w = c /\ c \notin s.subscribers
                             THEN Append(s.out[w], Patch(s.state)) ELSE s.out[w]
  <2>1. CASE c \in s.subscribers
    BY <2>1
  <2>2. CASE c \notin s.subscribers
    BY <1>1, <1>2, <2>2, PostEffect
  <2> QED
    BY <2>1, <2>2
<1>4. Subscribed(s, c, passive) =
        IF passive \/ c \in s.activeSubscribers THEN seeded
        ELSE [seeded EXCEPT !.activeSubscribers = @ \union {c},
                            !.producing = @ \union {"on"}]
  BY DEF Subscribed, listed
<1> HIDE DEF seeded
<1>5. CASE passive
  BY <1>3, <1>4, <1>5
<1>6. CASE ~ passive
  <2>1. CASE c \in s.activeSubscribers
    BY <1>3, <1>4, <1>6, <2>1
  <2>2. CASE c \notin s.activeSubscribers
    <3> DEFINE t == [seeded EXCEPT !.activeSubscribers = @ \union {c},
                                   !.producing = @ \union {"on"}]
    <3>1. t \in Server /\ t.activeSubscribers = seeded.activeSubscribers \union {c}
          /\ t.alive = seeded.alive /\ t.state = seeded.state
          /\ t.subscribers = seeded.subscribers /\ t.newest = seeded.newest
          /\ t.frameCache = seeded.frameCache /\ t.frameInterest = seeded.frameInterest
          /\ t.frameInflight = seeded.frameInflight
          /\ t.framePending = seeded.framePending /\ t.out = seeded.out
      BY <1>3 DEF Server
    <3>2. Subscribed(s, c, passive) = t
      BY <1>4, <1>6, <2>2
    <3> HIDE DEF t
    <3> QED
      BY <1>3, <1>6, <3>1, <3>2
  <2> QED
    BY <2>1, <2>2
<1> QED
  BY <1>5, <1>6

(* What the end of a subscription does: nothing where a passive view leaves a channel *)
(* that is active, and no message is sent.                                            *)
SubscriptionLeft(s, c, passive, t) ==
  /\ t \in Server
  /\ t.alive = s.alive /\ t.state = s.state
  /\ t.subscribers = IF passive /\ c \in s.activeSubscribers THEN s.subscribers
                     ELSE s.subscribers \ {c}
  /\ t.activeSubscribers = IF passive /\ c \in s.activeSubscribers THEN s.activeSubscribers
                           ELSE s.activeSubscribers \ {c}
  /\ t.newest = s.newest /\ t.frameCache \in {0, s.frameCache}
  /\ t.frameInterest = s.frameInterest /\ t.frameInflight = s.frameInflight
  /\ t.framePending = s.framePending /\ t.out = s.out

(* It does. *)
LEMMA UnsubscribedEffect ==
  ASSUME NEW s \in Server, NEW c \in Windows, NEW passive \in BOOLEAN
  PROVE  SubscriptionLeft(s, c, passive, Unsubscribed(s, c, passive))
<1> USE DEF SubscriptionLeft
<1> DEFINE left == [s EXCEPT !.subscribers = @ \ {c}, !.activeSubscribers = @ \ {c}]
           idle == [left EXCEPT !.producing = {"draining"}, !.frameCache = 0,
                                !.late = FALSE]
<1>1. /\ left \in Server
      /\ left.alive = s.alive /\ left.state = s.state
      /\ left.subscribers = s.subscribers \ {c}
      /\ left.activeSubscribers = s.activeSubscribers \ {c}
      /\ left.newest = s.newest /\ left.frameCache = s.frameCache
      /\ left.frameInterest = s.frameInterest /\ left.frameInflight = s.frameInflight
      /\ left.framePending = s.framePending /\ left.out = s.out
  BY DEF Server
<1>2. Unsubscribed(s, c, passive) =
        IF passive /\ c \in s.activeSubscribers THEN s
        ELSE IF c \in s.activeSubscribers /\ left.activeSubscribers = {} THEN idle
        ELSE left
  BY DEF Unsubscribed
<1> HIDE DEF left
<1>3. /\ idle \in Server
      /\ idle.alive = left.alive /\ idle.state = left.state
      /\ idle.subscribers = left.subscribers
      /\ idle.activeSubscribers = left.activeSubscribers
      /\ idle.newest = left.newest /\ idle.frameCache = 0
      /\ idle.frameInterest = left.frameInterest
      /\ idle.frameInflight = left.frameInflight
      /\ idle.framePending = left.framePending /\ idle.out = left.out
  <2>1. 0 \in FrameIds /\ {"draining"} \in SUBSET {"on", "draining"}
    BY DEF FrameIds
  <2> QED
    BY ONLY <1>1, <2>1 DEF Server
<1> HIDE DEF idle
<1>4. CASE passive /\ c \in s.activeSubscribers
  BY <1>2, <1>4
<1>5. CASE ~ (passive /\ c \in s.activeSubscribers)
  BY <1>1, <1>2, <1>3, <1>5
<1> QED
  BY <1>4, <1>5

(* What a declaration of interest does: the cached frame, if any, is sent. *)
InterestTaken(s, c, t) ==
  /\ t \in Server
  /\ t.alive = s.alive /\ t.state = s.state /\ t.subscribers = s.subscribers
  /\ t.activeSubscribers = s.activeSubscribers
  /\ t.newest = s.newest /\ t.frameCache = s.frameCache
  /\ t.frameInterest = s.frameInterest \union {c}
  /\ t.frameInflight = IF s.frameCache = 0 THEN s.frameInflight
                       ELSE s.frameInflight \union {c}
  /\ \A w \in Windows :
       LET sent == w = c /\ s.frameCache # 0 IN
       /\ t.framePending[w] = IF sent /\ w \in s.frameInflight THEN s.frameCache
                              ELSE s.framePending[w]
       /\ t.out[w] = IF sent /\ w \notin s.frameInflight
                       THEN Append(s.out[w], FrameMessage(s.frameCache))
                       ELSE s.out[w]

(* It does. *)
LEMMA InterestedEffect ==
  ASSUME NEW s \in Server, NEW c \in Windows
  PROVE  InterestTaken(s, c, Interested(s, c))
<1> USE DEF InterestTaken
<1> DEFINE told == [s EXCEPT !.frameInterest = @ \union {c}]
<1>1. /\ told \in Server
      /\ told.alive = s.alive /\ told.state = s.state
      /\ told.subscribers = s.subscribers
      /\ told.activeSubscribers = s.activeSubscribers
      /\ told.newest = s.newest /\ told.frameCache = s.frameCache
      /\ told.frameInterest = s.frameInterest \union {c}
      /\ told.frameInflight = s.frameInflight /\ told.out = s.out
      /\ told.framePending = s.framePending
  BY DEF Server
<1>2. Interested(s, c) = IF s.frameCache = 0 THEN told
                         ELSE SendFrame(told, {c}, s.frameCache)
  BY DEF Interested
<1>3. s.frameCache \in FrameIds /\ {c} \in SUBSET Windows
  BY DEF Server
<1> HIDE DEF told
<1>4. CASE s.frameCache = 0
  BY <1>1, <1>2, <1>4
<1>5. CASE s.frameCache # 0
  <2> DEFINE ws == {c}
             f == s.frameCache
             t == SendFrame(told, ws, f)
  <2>1. ws \in SUBSET Windows /\ \A w : w \in ws <=> w = c
    OBVIOUS
  <2>0. told \in Server /\ f \in FrameIds /\ ws \in SUBSET Windows
    BY <1>1, <1>3, <2>1
  <2> HIDE DEF ws, f
  <2>3. FrameSent(told, ws, f, t)
    BY ONLY <2>0, SendFrameEffect
  <2>2. Interested(s, c) = t
    BY <1>2, <1>5 DEF ws, f
  <2> HIDE DEF t
  <2>4. t.frameInflight = s.frameInflight \union {c}
    BY <1>1, <2>3 DEF ws, FrameSent
  <2> QED
    BY <1>1, <1>5, <2>1, <2>2, <2>3, <2>4 DEF f, FrameSent
<1> QED
  BY <1>4, <1>5

(* What the end of a channel does: it leaves the session and nothing waits for it. *)
LEMMA DetachedEffect ==
  ASSUME NEW s \in Server, NEW c \in Windows
  PROVE  LET t == Detached(s, c) IN
         /\ t \in Server
         /\ t.alive = s.alive /\ t.state = s.state
         /\ t.subscribers = s.subscribers \ {c}
         /\ t.activeSubscribers = s.activeSubscribers \ {c}
         /\ t.newest = s.newest /\ t.frameCache \in {0, s.frameCache}
         /\ t.frameInterest = s.frameInterest
         /\ t.frameInflight = s.frameInflight \ {c}
         /\ \A w \in Windows :
              /\ t.framePending[w] = IF w = c THEN 0 ELSE s.framePending[w]
              /\ t.out[w] = IF w = c THEN <<>> ELSE s.out[w]
<1> DEFINE u == Unsubscribed(s, c, FALSE)
<1>1. /\ u \in Server
      /\ u.alive = s.alive /\ u.state = s.state
      /\ u.subscribers = s.subscribers \ {c}
      /\ u.activeSubscribers = s.activeSubscribers \ {c}
      /\ u.newest = s.newest /\ u.frameCache \in {0, s.frameCache}
      /\ u.frameInterest = s.frameInterest /\ u.frameInflight = s.frameInflight
      /\ u.framePending = s.framePending /\ u.out = s.out
  <2>1. SubscriptionLeft(s, c, FALSE, u)
    BY UnsubscribedEffect
  <2> QED
    BY ONLY <2>1 DEF SubscriptionLeft
<1> HIDE DEF u
<1>2. Detached(s, c) = [u EXCEPT !.frameInflight = @ \ {c}, !.framePending[c] = 0,
                                 !.out[c] = <<>>]
  BY DEF Detached, u
<1> QED
  <2> DEFINE t == [u EXCEPT !.frameInflight = @ \ {c}, !.framePending[c] = 0,
                            !.out[c] = <<>>]
  <2>1. 0 \in FrameIds /\ <<>> \in Seq(Downlink)
    BY DEF FrameIds
  <2>2. /\ t \in Server
        /\ t.alive = u.alive /\ t.state = u.state
        /\ t.subscribers = u.subscribers
        /\ t.activeSubscribers = u.activeSubscribers
        /\ t.newest = u.newest /\ t.frameCache = u.frameCache
        /\ t.frameInterest = u.frameInterest
        /\ t.frameInflight = u.frameInflight \ {c}
        /\ \A w \in Windows :
             /\ t.framePending[w] = IF w = c THEN 0 ELSE u.framePending[w]
             /\ t.out[w] = IF w = c THEN <<>> ELSE u.out[w]
    BY ONLY <1>1, <2>1 DEF Server
  <2> HIDE DEF t
  <2> QED
    BY ONLY <1>1, <1>2, <2>2 DEF t

(* What arrives of a window does to the session. *)
LEMMA DispatchedTypes ==
  ASSUME NEW s \in Server, NEW w \in Windows, NEW m \in Uplink
  PROVE  /\ Dispatched(s, w, m) \in Server
         /\ Dispatched(s, w, m).newest = s.newest
         /\ Dispatched(s, w, m).alive = s.alive
<1>1. CASE m.k = "sub"
  <2>1. m.passive \in BOOLEAN /\ Dispatched(s, w, m) = Subscribed(s, w, m.passive)
    BY <1>1, Messages DEF Dispatched
  <2>2. SubscriptionTaken(s, w, m.passive, Dispatched(s, w, m))
    BY <2>1, SubscribedEffect
  <2> QED
    BY ONLY <2>2 DEF SubscriptionTaken
<1>2. CASE m.k = "unsub"
  <2>1. m.passive \in BOOLEAN /\ Dispatched(s, w, m) = Unsubscribed(s, w, m.passive)
    BY <1>2, Messages DEF Dispatched
  <2>2. SubscriptionLeft(s, w, m.passive, Dispatched(s, w, m))
    BY <2>1, UnsubscribedEffect
  <2> QED
    BY ONLY <2>2 DEF SubscriptionLeft
<1>3. CASE m.k = "set"
  <2> DEFINE t == [s EXCEPT !.state = m.value]
  <2>1. m.value \in Values /\ Patch(m.value) \in Downlink
    BY <1>3, Messages
  <2>2. t \in Server /\ t.newest = s.newest /\ t.alive = s.alive
    BY <2>1 DEF Server
  <2>3. Dispatched(s, w, m) = Post(t, s.subscribers \ {w}, Patch(m.value))
    BY <1>3 DEF Dispatched
  <2> HIDE DEF t
  <2> QED
    BY <2>1, <2>2, <2>3, PostEffect
<1>4. CASE m.k = "finterest"
  BY <1>4, InterestedEffect DEF Dispatched, InterestTaken
<1>5. CASE m.k = "fack"
  BY <1>5, FrameAckEffect DEF Dispatched, AckTaken
<1>6. CASE m.k = "req"
  <2>1. m.id \in Calls
    BY <1>6, Messages
  <2>2. Dispatched(s, w, m) = [s EXCEPT !.running = @ \union {<<w, m.id>>}]
    BY <1>6 DEF Dispatched
  <2>3. s.running \union {<<w, m.id>>} \in SUBSET (Windows \X Calls)
    BY <2>1 DEF Server
  <2> QED
    BY <2>2, <2>3 DEF Server
<1>7. CASE m.k = "close"
  BY <1>7, DetachedEffect DEF Dispatched
<1> QED
  BY <1>1, <1>2, <1>3, <1>4, <1>5, <1>6, <1>7, Messages

(* Emitting messages appends them to one channel of the windows. *)
LEMMA EmitEffect ==
  ASSUME NEW c \in Client, NEW w \in Windows, NEW ms \in Seq(Uplink)
  PROVE  LET t == Emit(c, w, ms) IN
         /\ t \in Client
         /\ t.open = c.open /\ t.mounted = c.mounted /\ t.value = c.value
         /\ t.shown = c.shown /\ t.got = c.got /\ t.waiting = c.waiting
         /\ t.notified = c.notified
         /\ \A x \in Windows : t.up[x] = IF x = w THEN c.up[w] \o ms ELSE c.up[x]
<1>1. c.up[w] \o ms \in Seq(Uplink)
  BY DEF Client
<1> QED
  BY <1>1 DEF Emit, Client

(* The types, and the numbers of the frames. *)
TypesInv == WireTypeOK /\ server.newest <= events

(* What opens, mounts, writes and calls in a window leaves in its state. *)
LEMMA MountEffect ==
  ASSUME TypesInv, NEW v \in Views, Mount(v)
  PROVE  LET w == WindowOf[v]
             ms == <<Subscription("sub", v), [k |-> "finterest"]>> IN
         /\ client' \in Client /\ ms \in Seq(Uplink)
         /\ client'.open = client.open /\ client'.mounted = client.mounted \union {v}
         /\ \A x \in Views : client'.value[x] = IF x = v THEN 0 ELSE client.value[x]
         /\ client'.got = client.got
         /\ \A x \in Windows : client'.up[x] = IF x = w THEN client.up[w] \o ms
                                               ELSE client.up[x]
<1> DEFINE c == [client EXCEPT !.mounted = @ \union {v}, !.value[v] = 0]
           ms == <<Subscription("sub", v), [k |-> "finterest"]>>
<1>1. client \in Client /\ 0 \in Values /\ WindowOf[v] \in Windows
  BY DEF TypesInv, WireTypeOK, Values
<1>2. c \in Client /\ c.open = client.open /\ c.mounted = client.mounted \union {v}
      /\ c.got = client.got /\ c.up = client.up
      /\ \A x \in Views : c.value[x] = IF x = v THEN 0 ELSE client.value[x]
  BY <1>1 DEF Client
<1>3. Subscription("sub", v) \in Uplink /\ [k |-> "finterest"] \in Uplink
  BY DEF Subscription, Uplink
<1>4. ms \in Seq(Uplink)
  BY <1>3
<1>5. client' = Emit(c, WindowOf[v], ms)
  BY DEF Mount
<1> HIDE DEF c, ms
<1>6. \A x \in Windows : client'.up[x] = IF x = WindowOf[v] THEN c.up[WindowOf[v]] \o ms
                                         ELSE c.up[x]
  BY <1>1, <1>2, <1>4, <1>5, EmitEffect
<1>7. client' \in Client /\ client'.open = c.open /\ client'.mounted = c.mounted
      /\ client'.got = c.got /\ client'.value = c.value
  BY <1>1, <1>2, <1>4, <1>5, EmitEffect
<1> QED
  BY <1>2, <1>4, <1>6, <1>7 DEF ms

(* A view that is disposed unsubscribes. *)
LEMMA UnmountEffect ==
  ASSUME TypesInv, NEW v \in Views, Unmount(v)
  PROVE  LET w == WindowOf[v]
             ms == <<Subscription("unsub", v)>> IN
         /\ client' \in Client /\ ms \in Seq(Uplink)
         /\ client'.open = client.open /\ client'.mounted = client.mounted \ {v}
         /\ client'.value = client.value /\ client'.got = client.got
         /\ \A x \in Windows : client'.up[x] = IF x = w THEN client.up[w] \o ms
                                               ELSE client.up[x]
<1> DEFINE c == [client EXCEPT !.mounted = @ \ {v}, !.shown[v] = 0]
           ms == <<Subscription("unsub", v)>>
<1>1. client \in Client /\ 0 \in FrameIds /\ WindowOf[v] \in Windows
  BY DEF TypesInv, WireTypeOK, FrameIds
<1>2. c \in Client /\ c.open = client.open /\ c.mounted = client.mounted \ {v}
      /\ c.got = client.got /\ c.up = client.up /\ c.value = client.value
  BY <1>1 DEF Client
<1>3. Subscription("unsub", v) \in Uplink
  BY DEF Subscription, Uplink
<1>4. ms \in Seq(Uplink)
  BY <1>3
<1>5. client' = Emit(c, WindowOf[v], ms)
  BY DEF Unmount
<1> HIDE DEF c, ms
<1>6. \A x \in Windows : client'.up[x] = IF x = WindowOf[v] THEN c.up[WindowOf[v]] \o ms
                                         ELSE c.up[x]
  BY <1>1, <1>2, <1>4, <1>5, EmitEffect
<1>7. client' \in Client /\ client'.open = c.open /\ client'.mounted = c.mounted
      /\ client'.got = c.got /\ client'.value = c.value
  BY <1>1, <1>2, <1>4, <1>5, EmitEffect
<1> QED
  BY <1>2, <1>4, <1>6, <1>7 DEF ms

(* A write is the view's value, and is sent. *)
LEMMA WriteFieldEffect ==
  ASSUME TypesInv, NEW v \in Views, WriteField(v)
  PROVE  LET w == WindowOf[v]
             ms == <<[k |-> "set", value |-> events']>> IN
         /\ client' \in Client /\ ms \in Seq(Uplink)
         /\ client'.open = client.open /\ client'.mounted = client.mounted
         /\ \A x \in Views : client'.value[x] = IF x = v THEN events' ELSE client.value[x]
         /\ client'.got = client.got
         /\ \A x \in Windows : client'.up[x] = IF x = w THEN client.up[w] \o ms
                                               ELSE client.up[x]
<1> DEFINE c == [client EXCEPT !.value[v] = events']
           ms == <<[k |-> "set", value |-> events']>>
<1>1. client \in Client /\ events' \in Values /\ WindowOf[v] \in Windows
  BY DEF TypesInv, WireTypeOK, Values, WriteField, Event
<1>2. c \in Client /\ c.open = client.open /\ c.mounted = client.mounted
      /\ c.got = client.got /\ c.up = client.up
      /\ \A x \in Views : c.value[x] = IF x = v THEN events' ELSE client.value[x]
  BY <1>1 DEF Client
<1>3. [k |-> "set", value |-> events'] \in Uplink
  BY <1>1 DEF Uplink
<1>4. ms \in Seq(Uplink)
  BY <1>3
<1>5. client' = Emit(c, WindowOf[v], ms)
  BY DEF WriteField
<1> HIDE DEF c, ms
<1>6. \A x \in Windows : client'.up[x] = IF x = WindowOf[v] THEN c.up[WindowOf[v]] \o ms
                                         ELSE c.up[x]
  BY <1>1, <1>2, <1>4, <1>5, EmitEffect
<1>7. client' \in Client /\ client'.open = c.open /\ client'.mounted = c.mounted
      /\ client'.got = c.got /\ client'.value = c.value
  BY <1>1, <1>2, <1>4, <1>5, EmitEffect
<1> QED
  BY <1>2, <1>4, <1>6, <1>7 DEF ms

(* A call is sent. *)
LEMMA CallEffect ==
  ASSUME TypesInv, NEW v \in Views, Call(v)
  PROVE  LET w == WindowOf[v] IN
         /\ client' \in Client
         /\ client'.open = client.open /\ client'.mounted = client.mounted
         /\ client'.value = client.value /\ client'.got = client.got
         /\ \E id \in Calls : LET ms == <<[k |-> "req", id |-> id]>> IN
              /\ ms \in Seq(Uplink)
              /\ \A x \in Windows : client'.up[x] = IF x = w THEN client.up[w] \o ms
                                                    ELSE client.up[x]
<1> DEFINE w == WindowOf[v]
           C(id) == [client EXCEPT !.waiting[w] = @ \union {id}]
<1>1. PICK id \in Calls : client' = Emit(C(id), w, <<[k |-> "req", id |-> id]>>)
  BY DEF Call
<1> DEFINE c == C(id)
           ms == <<[k |-> "req", id |-> id]>>
<1>2. client \in Client /\ w \in Windows
  BY DEF TypesInv, WireTypeOK
<1>3. c \in Client /\ c.open = client.open /\ c.mounted = client.mounted
      /\ c.got = client.got /\ c.up = client.up /\ c.value = client.value
  BY <1>2 DEF Client
<1>4. [k |-> "req", id |-> id] \in Uplink
  BY DEF Uplink
<1>5. ms \in Seq(Uplink)
  BY <1>4
<1>6. client' = Emit(c, w, ms)
  BY <1>1
<1> HIDE DEF c, ms, w
<1>7. \A x \in Windows : client'.up[x] = IF x = w THEN c.up[w] \o ms ELSE c.up[x]
  BY <1>2, <1>3, <1>5, <1>6, EmitEffect
<1>8. client' \in Client /\ client'.open = c.open /\ client'.mounted = c.mounted
      /\ client'.got = c.got /\ client'.value = c.value
  BY <1>2, <1>3, <1>5, <1>6, EmitEffect
<1> QED
  BY <1>3, <1>5, <1>7, <1>8 DEF ms, w

(* A window that closes loses its views, and says so. *)
LEMMA CloseWindowEffect ==
  ASSUME TypesInv, NEW w \in Windows, CloseWindow(w)
  PROVE  LET ms == <<[k |-> "close"]>> IN
         /\ client' \in Client /\ ms \in Seq(Uplink)
         /\ client'.open = client.open \ {w}
         /\ client'.mounted = client.mounted \ ViewsOf(w)
         /\ client'.value = client.value /\ client'.got = client.got
         /\ \A x \in Windows : client'.up[x] = IF x = w THEN client.up[w] \o ms
                                               ELSE client.up[x]
<1> DEFINE blank == [v \in Views |-> IF WindowOf[v] = w THEN 0 ELSE client.shown[v]]
           c == [client EXCEPT !.open = @ \ {w}, !.mounted = @ \ ViewsOf(w),
                               !.waiting[w] = {}, !.shown = blank]
           ms == <<[k |-> "close"]>>
<1>1. client \in Client /\ 0 \in FrameIds
  BY DEF TypesInv, WireTypeOK, FrameIds
<1>2. blank \in [Views -> FrameIds]
  BY <1>1 DEF Client
<1>3. c \in Client /\ c.open = client.open \ {w}
      /\ c.mounted = client.mounted \ ViewsOf(w)
      /\ c.got = client.got /\ c.up = client.up /\ c.value = client.value
  BY <1>1, <1>2 DEF Client
<1>4. [k |-> "close"] \in Uplink
  BY DEF Uplink
<1>5. ms \in Seq(Uplink)
  BY <1>4
<1>6. client' = Emit(c, w, ms)
  BY DEF CloseWindow
<1> HIDE DEF c, ms
<1>7. \A x \in Windows : client'.up[x] = IF x = w THEN c.up[w] \o ms ELSE c.up[x]
  BY <1>1, <1>3, <1>5, <1>6, EmitEffect
<1>8. client' \in Client /\ client'.open = c.open /\ client'.mounted = c.mounted
      /\ client'.got = c.got /\ client'.value = c.value
  BY <1>1, <1>3, <1>5, <1>6, EmitEffect
<1> QED
  BY <1>3, <1>5, <1>7, <1>8 DEF ms

(* The first message of a window is taken, and dispatched. *)
LEMMA ReceiveEffect ==
  ASSUME TypesInv, NEW w \in Windows, Receive(w)
  PROVE  LET m == Head(client.up[w]) IN
         /\ m \in Uplink /\ client.up[w] \in Seq(Uplink) /\ client.up[w] # <<>>
         /\ server' = Dispatched(server, w, m) /\ server' \in Server
         /\ client' \in Client
         /\ client'.open = client.open /\ client'.mounted = client.mounted
         /\ client'.value = client.value /\ client'.got = client.got
         /\ \A x \in Windows : client'.up[x] = IF x = w THEN Tail(client.up[w])
                                               ELSE client.up[x]
<1>1. /\ client \in Client /\ server \in Server
      /\ client.up[w] \in Seq(Uplink) /\ client.up[w] # <<>>
  BY DEF TypesInv, WireTypeOK, Receive, Client
<1>2. Head(client.up[w]) \in Uplink /\ Tail(client.up[w]) \in Seq(Uplink)
  BY <1>1
<1>3. server' = Dispatched(server, w, Head(client.up[w]))
  BY DEF Receive
<1>4. server' \in Server
  BY <1>1, <1>2, <1>3, DispatchedTypes
<1>5. client' = [client EXCEPT !.up[w] = Tail(@)]
  BY DEF Receive
<1>6. client' \in Client
  BY <1>1, <1>2, <1>5 DEF Client
<1> QED
  BY <1>1, <1>2, <1>3, <1>4, <1>5, <1>6 DEF Client

(* A message that is delivered leaves its channel; a frame is counted, and acknowledged. *)
LEMMA DeliverEffect ==
  ASSUME TypesInv, NEW w \in Windows, Deliver(w)
  PROVE  LET m == Head(server.out[w]) IN
         /\ m \in Downlink /\ server.out[w] \in Seq(Downlink) /\ server.out[w] # <<>>
         /\ server' \in Server /\ server' = [server EXCEPT !.out[w] = Tail(@)]
         /\ client' \in Client
         /\ client'.open = client.open /\ client'.mounted = client.mounted
         /\ client'.value = IF m.k = "state"
                              THEN [v \in Views |-> IF v \in ViewsOf(w) THEN m.value
                                                    ELSE client.value[v]]
                              ELSE client.value
         /\ client'.got = IF m.k = "frame" THEN [client.got EXCEPT ![w] = m.frame]
                          ELSE client.got
         /\ \A x \in Windows :
              client'.up[x] = IF x = w /\ m.k = "frame"
                                THEN client.up[w] \o <<[k |-> "fack"]>>
                                ELSE client.up[x]
<1> DEFINE m == Head(server.out[w])
           heard(f, x) == [v \in Views |-> IF v \in ViewsOf(w) THEN x ELSE f[v]]
<1>1. /\ client \in Client /\ server \in Server
      /\ server.out[w] \in Seq(Downlink) /\ server.out[w] # <<>>
  BY DEF TypesInv, WireTypeOK, Deliver, Server
<1>2. m \in Downlink /\ Tail(server.out[w]) \in Seq(Downlink)
  BY <1>1
<1>3. server' = [server EXCEPT !.out[w] = Tail(@)]
  BY DEF Deliver
<1>4. server' \in Server
  BY <1>1, <1>2, <1>3 DEF Server
<1>5. CASE m.k = "state"
  <2>1. client' = [client EXCEPT !.value = heard(@, m.value)]
    BY <1>5 DEF Deliver
  <2>2. m.value \in Values
    BY <1>2, <1>5, Messages
  <2>3. heard(client.value, m.value) \in [Views -> Values]
    BY <1>1, <2>2 DEF Client
  <2>4. client' \in Client /\ client'.value = heard(client.value, m.value)
        /\ client'.open = client.open /\ client'.mounted = client.mounted
        /\ client'.got = client.got /\ client'.up = client.up
    BY <1>1, <2>1, <2>3 DEF Client
  <2> HIDE DEF heard, m
  <2> QED
    BY <1>1, <1>2, <1>3, <1>4, <1>5, <2>4 DEF heard, m
<1>6. CASE m.k = "frame"
  <2> DEFINE c == [client EXCEPT !.got[w] = m.frame, !.shown = heard(@, m.frame)]
             ms == <<[k |-> "fack"]>>
  <2>1. client' = Emit(c, w, ms)
    BY <1>6 DEF Deliver, Acked
  <2>2. m.frame \in FrameIds
    BY <1>2, <1>6, Messages
  <2>3. heard(client.shown, m.frame) \in [Views -> FrameIds]
    BY <1>1, <2>2 DEF Client
  <2> HIDE DEF heard, m
  <2>4. c \in Client /\ c.value = client.value
        /\ c.open = client.open /\ c.mounted = client.mounted
        /\ c.got = [client.got EXCEPT ![w] = m.frame] /\ c.up = client.up
    BY <1>1, <2>2, <2>3 DEF Client
  <2>5. [k |-> "fack"] \in Uplink
    BY DEF Uplink
  <2>6. ms \in Seq(Uplink)
    BY <2>5
  <2> HIDE DEF c, ms
  <2>7. \A x \in Windows : client'.up[x] = IF x = w THEN c.up[w] \o ms ELSE c.up[x]
    BY <2>1, <2>4, <2>6, EmitEffect
  <2>8. client' \in Client /\ client'.open = c.open /\ client'.mounted = c.mounted
        /\ client'.got = c.got /\ client'.value = c.value
    BY <2>1, <2>4, <2>6, EmitEffect
  <2> QED
    BY <1>1, <1>2, <1>3, <1>4, <1>6, <2>4, <2>7, <2>8 DEF m, ms
<1>7. CASE m.k = "res"
  <2>1. client' = [client EXCEPT !.waiting[w] = @ \ {m.id}]
    BY <1>7 DEF Deliver
  <2> HIDE DEF m
  <2>2. client.waiting[w] \ {m.id} \in SUBSET Calls
    BY <1>1 DEF Client
  <2>3. client' \in Client /\ client'.value = client.value
        /\ client'.open = client.open /\ client'.mounted = client.mounted
        /\ client'.got = client.got /\ client'.up = client.up
    BY <1>1, <2>1, <2>2 DEF Client
  <2> QED
    BY <1>1, <1>2, <1>3, <1>4, <1>7, <2>3 DEF m
<1> QED
  BY <1>2, <1>5, <1>6, <1>7, Messages

(* The session's own write is sent to everybody. *)
LEMMA SetStateEffect ==
  ASSUME TypesInv, SetState
  PROVE  /\ server' \in Server /\ client' = client /\ events' = events + 1
         /\ events' \in Values
         /\ server'.alive = server.alive /\ server'.state = events'
         /\ server'.subscribers = server.subscribers
         /\ server'.activeSubscribers = server.activeSubscribers
         /\ server'.newest = server.newest /\ server'.frameCache = server.frameCache
         /\ server'.frameInterest = server.frameInterest
         /\ server'.frameInflight = server.frameInflight
         /\ server'.framePending = server.framePending
         /\ \A w \in Windows :
              server'.out[w] = IF w \in server.subscribers
                                 THEN Append(server.out[w], Patch(events'))
                                 ELSE server.out[w]
<1> DEFINE s == [server EXCEPT !.state = events']
<1>1. events' \in Values /\ events' = events + 1 /\ server \in Server
  BY DEF TypesInv, WireTypeOK, SetState, Event, Values
<1>2. /\ s \in Server /\ s.alive = server.alive /\ s.state = events'
      /\ s.subscribers = server.subscribers
      /\ s.activeSubscribers = server.activeSubscribers
      /\ s.newest = server.newest /\ s.frameCache = server.frameCache
      /\ s.frameInterest = server.frameInterest
      /\ s.frameInflight = server.frameInflight
      /\ s.framePending = server.framePending /\ s.out = server.out
  BY <1>1 DEF Server
<1>3. server' = Post(s, server.subscribers, Patch(events')) /\ client' = client
  BY DEF SetState
<1>4. Patch(events') \in Downlink
  BY <1>1, Messages
<1> HIDE DEF s
<1> QED
  BY <1>1, <1>2, <1>3, <1>4, PostEffect

(* A frame that is published is the newest, and is sent to those who want it. *)
LEMMA PublishEffect ==
  ASSUME TypesInv, Publish
  PROVE  /\ client' = client /\ events' = events + 1 /\ overtaken' = overtaken
         /\ events' \in Values
         /\ \E s \in Server, ws \in SUBSET server.frameInterest :
              /\ s.alive = server.alive /\ s.state = server.state
              /\ s.subscribers = server.subscribers
              /\ s.activeSubscribers = server.activeSubscribers
              /\ s.newest = server.newest + 1 /\ s.frameCache = s.newest
              /\ s.frameInterest = server.frameInterest
              /\ s.frameInflight = server.frameInflight
              /\ s.framePending = server.framePending /\ s.out = server.out
              /\ FrameSent(s, ws, s.newest, server')
<1> DEFINE f == server.newest + 1
           S(p) == [server EXCEPT !.newest = f, !.frameCache = f,
                                  !.late = p = "draining"]
<1>1. PICK p \in server.producing :
        server' = SendFrame(S(p), S(p).subscribers \intersect S(p).frameInterest, f)
  BY DEF Publish
<1> DEFINE s == S(p)
           ws == s.subscribers \intersect s.frameInterest
<1>2. events' \in Values /\ events' = events + 1 /\ server \in Server /\ f \in FrameIds
  BY DEF TypesInv, WireTypeOK, Publish, Event, Values, FrameIds, Server
<1>3. /\ s \in Server /\ s.alive = server.alive /\ s.state = server.state
      /\ s.subscribers = server.subscribers
      /\ s.activeSubscribers = server.activeSubscribers
      /\ s.newest = f /\ s.frameCache = f
      /\ s.frameInterest = server.frameInterest
      /\ s.frameInflight = server.frameInflight
      /\ s.framePending = server.framePending /\ s.out = server.out
  <2> HIDE DEF f
  <2> QED
    BY <1>2 DEF Server
<1>4. server' = SendFrame(s, ws, f)
  BY <1>1
<1> HIDE DEF s
<1>5. ws \in SUBSET Windows /\ ws \in SUBSET server.frameInterest
  BY <1>3 DEF Server
<1> HIDE DEF f, ws
<1>6. FrameSent(s, ws, f, server')
  BY <1>2, <1>3, <1>4, <1>5, SendFrameEffect
<1>7. client' = client /\ overtaken' = overtaken
  BY DEF Publish
<1> QED
  BY <1>2, <1>3, <1>5, <1>6, <1>7 DEF f

(* An answer goes to the window that asks. *)
LEMMA RespondEffect ==
  ASSUME TypesInv, NEW w \in Windows, NEW id \in Calls, Respond(w, id)
  PROVE  /\ server' \in Server
         /\ UNCHANGED <<client, overtaken, events>>
         /\ server'.alive = server.alive /\ server'.state = server.state
         /\ server'.subscribers = server.subscribers
         /\ server'.activeSubscribers = server.activeSubscribers
         /\ server'.newest = server.newest /\ server'.frameCache = server.frameCache
         /\ server'.frameInterest = server.frameInterest
         /\ server'.frameInflight = server.frameInflight
         /\ server'.framePending = server.framePending
         /\ \E m \in Downlink :
              /\ m.k = "res"
              /\ \A x \in Windows :
                   \/ server'.out[x] = server.out[x]
                   \/ server'.out[x] = Append(server.out[x], m)
<1> DEFINE s == [server EXCEPT !.running = @ \ {<<w, id>>}]
           m == [k |-> "res", id |-> id]
           ws == {w} \intersect client.open
<1>1. server \in Server
  BY DEF TypesInv, WireTypeOK
<1>2. /\ s \in Server /\ s.alive = server.alive /\ s.state = server.state
      /\ s.subscribers = server.subscribers
      /\ s.activeSubscribers = server.activeSubscribers
      /\ s.newest = server.newest /\ s.frameCache = server.frameCache
      /\ s.frameInterest = server.frameInterest
      /\ s.frameInflight = server.frameInflight
      /\ s.framePending = server.framePending /\ s.out = server.out
  BY <1>1 DEF Server
<1>3. server' = Post(s, ws, m)
  BY DEF Respond
<1>4. m \in Downlink /\ m.k = "res"
  BY DEF Downlink
<1>5. UNCHANGED <<client, overtaken, events>>
  BY DEF Respond
<1> HIDE DEF s, m, ws
<1>6. \A x \in Windows : \/ server'.out[x] = server.out[x]
                        \/ server'.out[x] = Append(server.out[x], m)
  <2>1. s \in Server /\ m \in Downlink /\ s.out = server.out
    BY <1>2, <1>4
  <2>2. \A x \in Windows : server'.out[x] = IF x \in ws THEN Append(s.out[x], m)
                                            ELSE s.out[x]
    BY ONLY <1>3, <2>1, PostEffect
  <2> QED
    BY <2>1, <2>2
<1>7. /\ server' \in Server
      /\ server'.alive = s.alive /\ server'.state = s.state
      /\ server'.subscribers = s.subscribers
      /\ server'.activeSubscribers = s.activeSubscribers
      /\ server'.newest = s.newest /\ server'.frameCache = s.frameCache
      /\ server'.frameInterest = s.frameInterest
      /\ server'.frameInflight = s.frameInflight
      /\ server'.framePending = s.framePending
  BY <1>2, <1>3, <1>4, PostEffect
<1> QED
  BY <1>2, <1>4, <1>5, <1>6, <1>7

(* The end of a drain, a death and the news of it send nothing. *)
LEMMA QuietEffect ==
  ASSUME TypesInv,
         Drained \/ Die \/ \E w \in Windows : OrchestratorDown(w)
  PROVE  /\ server' \in Server /\ client' \in Client
         /\ overtaken' = overtaken /\ events' \in {events, events + 1}
         /\ events' \in Values
         /\ server'.alive => server.alive
         /\ server'.state = server.state
         /\ server'.subscribers = server.subscribers
         /\ server'.activeSubscribers = server.activeSubscribers
         /\ server'.newest = server.newest /\ server'.frameCache = server.frameCache
         /\ server'.frameInterest = server.frameInterest
         /\ server'.frameInflight = server.frameInflight
         /\ server'.framePending = server.framePending /\ server'.out = server.out
         /\ client'.open = client.open /\ client'.mounted = client.mounted
         /\ client'.value = client.value /\ client'.got = client.got
         /\ client'.up = client.up
<1>1. client \in Client /\ server \in Server /\ events \in Values
  BY DEF TypesInv, WireTypeOK, Values
<1>2. CASE Drained
  <2>1. server' = [server EXCEPT !.producing = @ \ {"draining"}]
        /\ UNCHANGED <<client, overtaken, events>>
    BY <1>2 DEF Drained
  <2> QED
    BY <1>1, <2>1 DEF Server
<1>3. CASE Die
  <2>1. server' = [server EXCEPT !.alive = FALSE, !.running = {}]
        /\ UNCHANGED <<client, overtaken>> /\ server.alive
        /\ events < MaxEvents /\ events' = events + 1
    BY <1>3 DEF Die, Event
  <2>2. events' \in Values
    BY <1>1, <2>1 DEF Values
  <2> QED
    BY <1>1, <2>1, <2>2 DEF Server
<1>4. CASE \E w \in Windows : OrchestratorDown(w)
  <2>1. PICK w \in Windows : OrchestratorDown(w)
    BY <1>4
  <2> DEFINE c == [client EXCEPT !.notified = @ \union {w}]
  <2>2. client' = [c EXCEPT !.waiting[w] = {}] /\ UNCHANGED <<server, overtaken, events>>
    BY <2>1 DEF OrchestratorDown, Closed
  <2>3. c \in Client /\ c.open = client.open /\ c.mounted = client.mounted
        /\ c.value = client.value /\ c.got = client.got /\ c.up = client.up
    BY <1>1 DEF Client
  <2> HIDE DEF c
  <2>4. client' \in Client /\ client'.open = c.open /\ client'.mounted = c.mounted
        /\ client'.value = c.value /\ client'.got = c.got /\ client'.up = c.up
    BY <2>2, <2>3 DEF Client
  <2> QED
    BY <1>1, <2>2, <2>3, <2>4
<1> QED
  BY <1>2, <1>3, <1>4

(* Before anything has happened the types are right. *)
LEMMA TypesInit ==
  ASSUME WireInit
  PROVE  TypesInv
<1>1. 0 \in Values /\ 0 \in FrameIds /\ <<>> \in Seq(Uplink) /\ <<>> \in Seq(Downlink)
  BY DEF Values, FrameIds
<1>2. client \in Client
  BY <1>1 DEF WireInit, Client
<1>3. server \in Server
  BY <1>1 DEF WireInit, Server
<1> QED
  BY <1>2, <1>3 DEF WireInit, TypesInv, WireTypeOK

(* The histories of siblings are sets of views. *)
LEMMA SiblingsNext ==
  ASSUME TypesInv, [WireNext]_wireVars
  PROVE  apart' \subseteq Views /\ deserted' \subseteq Views
<1>1. /\ apart \subseteq Views /\ deserted \subseteq Views
      /\ \A w \in Windows : ViewsOf(w) \subseteq Views
      /\ \A v \in Views : Siblings(v) \subseteq Views
  BY DEF TypesInv, WireTypeOK, Client, ViewsOf, Siblings
<1>2. ASSUME NEW v \in Views, Mount(v) \/ Unmount(v) \/ WriteField(v)
      PROVE  apart' \subseteq Views /\ deserted' \subseteq Views
  BY <1>1, <1>2 DEF Mount, Unmount, WriteField
<1>3. ASSUME NEW w \in Windows, Deliver(w)
      PROVE  apart' \subseteq Views /\ deserted' \subseteq Views
  <2>1. apart' \in {apart, apart \ ViewsOf(w)} /\ deserted' = deserted
    BY <1>3 DEF Deliver
  <2>. QED BY <1>1, <2>1
<1>4. CASE UNCHANGED siblings
  BY <1>1, <1>4 DEF siblings
<1>5. CASE SetState \/ Publish \/ Drained \/ Die
  BY <1>4, <1>5 DEF SetState, Publish, Drained, Die
<1>6. ASSUME NEW w \in Windows, Receive(w) \/ CloseWindow(w) \/ OrchestratorDown(w)
      PROVE  apart' \subseteq Views /\ deserted' \subseteq Views
  BY <1>4, <1>6 DEF Receive, CloseWindow, OrchestratorDown
<1>7. CASE (\E w \in Windows, id \in Calls : Respond(w, id)) \/ \E v \in Views : Call(v)
  BY <1>4, <1>7 DEF Respond, Call
<1>8. CASE UNCHANGED wireVars
  BY <1>4, <1>8 DEF wireVars
<1>. QED BY <1>2, <1>3, <1>5, <1>6, <1>7, <1>8 DEF WireNext

(* Every step keeps them. *)
LEMMA TypesNext ==
  ASSUME TypesInv, [WireNext]_wireVars
  PROVE  TypesInv'
<1>1. /\ client \in Client /\ server \in Server /\ overtaken \subseteq Windows
      /\ events \in Values /\ events \in Nat /\ server.newest <= events
  BY DEF TypesInv, WireTypeOK, Values
<1> DEFINE Fine == client' \in Client /\ server' \in Server /\ events' \in Values
                     /\ server'.newest <= events' /\ overtaken' \subseteq Windows
<1> SUFFICES Fine
  BY SiblingsNext DEF TypesInv, WireTypeOK, Values
<1>2. NoteUpdates => overtaken' \subseteq Windows
  BY <1>1 DEF NoteUpdates
<1>3. ASSUME NEW w \in Windows, Receive(w)
      PROVE  Fine
  <2>1. client' \in Client /\ server' \in Server
        /\ server' = Dispatched(server, w, Head(client.up[w]))
        /\ Head(client.up[w]) \in Uplink
    BY <1>3, ReceiveEffect
  <2>2. server'.newest = server.newest
    BY <1>1, <2>1, DispatchedTypes
  <2>3. events' = events /\ NoteUpdates
    BY <1>3 DEF Receive
  <2> QED
    BY <1>1, <1>2, <2>1, <2>2, <2>3
<1>4. CASE SetState
  <2>1. NoteUpdates
    BY <1>4 DEF SetState
  <2> QED
    BY <1>1, <1>2, <1>4, <2>1, SetStateEffect DEF Server, FrameIds
<1>5. CASE Publish
  <2>1. PICK s \in Server, ws \in SUBSET server.frameInterest :
          s.newest = server.newest + 1 /\ FrameSent(s, ws, s.newest, server')
    BY <1>5, PublishEffect
  <2>2. server' \in Server /\ server'.newest = server.newest + 1
    BY <2>1 DEF FrameSent
  <2>3. client' = client /\ events' = events + 1 /\ overtaken' = overtaken
        /\ events' \in Values
    BY <1>5, PublishEffect
  <2>4. server.newest \in Nat
    BY <1>1 DEF Server, FrameIds
  <2> QED
    BY <1>1, <2>2, <2>3, <2>4
<1>6. CASE Drained \/ Die \/ \E w \in Windows : OrchestratorDown(w)
  <2>1. server.newest \in Nat
    BY <1>1 DEF Server, FrameIds
  <2> QED
    BY <1>1, <1>6, <2>1, QuietEffect
<1>7. ASSUME NEW w \in Windows, NEW id \in Calls, Respond(w, id)
      PROVE  Fine
  BY <1>1, <1>7, RespondEffect
<1>8. ASSUME NEW w \in Windows, Deliver(w)
      PROVE  Fine
  <2>1. client' \in Client /\ server' \in Server
        /\ server' = [server EXCEPT !.out[w] = Tail(@)]
    BY <1>8, DeliverEffect
  <2>2. server'.newest = server.newest
    BY <1>1, <2>1 DEF Server
  <2>3. UNCHANGED <<overtaken, events>>
    BY <1>8 DEF Deliver
  <2> QED
    BY <1>1, <2>1, <2>2, <2>3
<1> DEFINE Used == events < MaxEvents /\ events' = events + 1
<1>9. Used => events' \in Values /\ server.newest <= events'
  BY <1>1 DEF Server, FrameIds, Values
<1>10. ASSUME NEW w \in Windows, CloseWindow(w)
       PROVE  Fine
  <2>1. client' \in Client
    BY <1>10, CloseWindowEffect
  <2>2. Used /\ UNCHANGED <<server, overtaken>>
    BY <1>10 DEF CloseWindow, Event
  <2> QED
    BY <1>1, <1>9, <2>1, <2>2
<1>11. ASSUME NEW v \in Views, Mount(v) \/ Unmount(v) \/ Call(v)
       PROVE  Fine
  <2>1. client' \in Client
    BY <1>11, MountEffect, UnmountEffect, CallEffect
  <2>2. Used /\ UNCHANGED <<server, overtaken>>
    BY <1>11 DEF Mount, Unmount, Call, Event
  <2> QED
    BY <1>1, <1>9, <2>1, <2>2
<1>12. ASSUME NEW v \in Views, WriteField(v)
       PROVE  Fine
  <2>1. client' \in Client
    BY <1>12, WriteFieldEffect
  <2>2. Used /\ UNCHANGED server
    BY <1>12 DEF WriteField, Event
  <2>3. WindowOf[v] \in Windows
    OBVIOUS
  <2>4. overtaken' \subseteq Windows
    BY <1>1, <1>12, <2>3 DEF WriteField
  <2> QED
    BY <1>1, <1>9, <2>1, <2>2, <2>4
<1>13. CASE UNCHANGED wireVars
  BY <1>1, <1>13 DEF wireVars
<1> QED
  BY <1>3, <1>4, <1>5, <1>6, <1>7, <1>8, <1>10, <1>11, <1>12, <1>13 DEF WireNext

(* The state of the wire has its types, and no frame is numbered beyond what has *)
(* happened.                                                                     *)
THEOREM WireTyping == WireSpec => []WireTypeOK
<1>1. WireInit => TypesInv
  BY TypesInit
<1>2. TypesInv /\ [WireNext]_wireVars => TypesInv'
  BY TypesNext
<1>3. TypesInv => WireTypeOK
  BY DEF TypesInv
<1> QED
  BY <1>1, <1>2, <1>3, PTL DEF WireSpec

-----------------------------------------------------------------------------
(* Frames: what a channel has on the way is newer than what it has delivered, and in *)
(* order, so that the deliveries are a lossy stream of what the session publishes.    *)

(* The frames of a sequence of messages are in order, between two numbers. *)
Between(q, low, high) ==
  /\ \A k \in 1..Len(q) : q[k].k = "frame" => low <= q[k].frame /\ q[k].frame <= high
  /\ \A j, k \in 1..Len(q) :
       q[j].k = "frame" /\ q[k].k = "frame" /\ j <= k => q[j].frame <= q[k].frame

HasFrame(q) == \E k \in 1..Len(q) : q[k].k = "frame"

(* A message that is no frame changes nothing. *)
LEMMA BetweenOther ==
  ASSUME NEW q \in Seq(Downlink), NEW low \in Nat, NEW high \in Nat,
         NEW m \in Downlink, m.k # "frame", Between(q, low, high)
  PROVE  /\ Between(Append(q, m), low, high)
         /\ HasFrame(Append(q, m)) => HasFrame(q)
<1>1. \A k \in 1..Len(Append(q, m)) :
        \/ k \in 1..Len(q) /\ Append(q, m)[k] = q[k]
        \/ k = Len(q) + 1 /\ Append(q, m)[k] = m
  OBVIOUS
<1> QED
  BY <1>1 DEF Between, HasFrame

(* A frame that is no older than those before it can follow them. *)
LEMMA BetweenFrame ==
  ASSUME NEW q \in Seq(Downlink), NEW low \in Nat, NEW high \in Nat,
         NEW f \in FrameIds, high <= f, low <= high, Between(q, low, high)
  PROVE  Between(Append(q, FrameMessage(f)), low, f)
<1> DEFINE m == FrameMessage(f)
           p == Append(q, m)
<1>1. m \in Downlink /\ m.k = "frame" /\ m.frame = f /\ f \in Nat
  BY Messages DEF FrameIds
<1> HIDE DEF m
<1>2. \A k \in 1..Len(p) : \/ k \in 1..Len(q) /\ p[k] = q[k]
                           \/ k = Len(q) + 1 /\ p[k] = m
  BY <1>1
<1>3. \A k \in 1..Len(q) : q[k] \in Downlink /\ (q[k].k = "frame" => q[k].frame \in Nat)
  BY Messages DEF FrameIds
<1> HIDE DEF p
<1>4. Len(q) \in Nat
  OBVIOUS
<1>5. \A k \in 1..Len(p) : p[k].k = "frame" =>
        /\ low <= p[k].frame /\ p[k].frame <= f
        /\ p[k].frame \in Nat
  BY <1>1, <1>2, <1>3 DEF Between
<1>6. ASSUME NEW j \in 1..Len(p), NEW k \in 1..Len(p),
             p[j].k = "frame", p[k].k = "frame", j <= k
      PROVE  p[j].frame <= p[k].frame
  <2>1. CASE k \in 1..Len(q) /\ p[k] = q[k]
    <3>1. j \in 1..Len(q) /\ p[j] = q[j]
      BY <1>2, <1>4, <1>6, <2>1
    <3> QED
      BY <1>6, <2>1, <3>1 DEF Between
  <2>2. CASE k = Len(q) + 1 /\ p[k] = m
    BY <1>1, <1>5, <1>6, <2>2
  <2> QED
    BY <1>2, <2>1, <2>2
<1> QED
  BY <1>5, <1>6 DEF Between, p, m

(* The bounds can be wider. *)
LEMMA BetweenWider ==
  ASSUME NEW q \in Seq(Downlink), NEW low \in Nat, NEW high \in Nat, NEW top \in Nat,
         high <= top, Between(q, low, high)
  PROVE  Between(q, low, top)
<1>1. \A k \in 1..Len(q) : q[k].k = "frame" => q[k].frame \in Nat
  <2>1. \A k \in 1..Len(q) : q[k] \in Downlink
    OBVIOUS
  <2> QED
    BY <2>1, Messages DEF FrameIds
<1> QED
  BY <1>1 DEF Between

(* What follows the first message is no older than it. *)
LEMMA BetweenTail ==
  ASSUME NEW q \in Seq(Downlink), q # <<>>, NEW low \in Nat, NEW high \in Nat,
         Between(q, low, high)
  PROVE  /\ Between(Tail(q), low, high)
         /\ HasFrame(Tail(q)) => HasFrame(q)
         /\ Head(q).k = "frame" =>
              /\ low <= Head(q).frame /\ Head(q).frame <= high /\ HasFrame(q)
              /\ Between(Tail(q), Head(q).frame, high)
<1> DEFINE p == Tail(q)
<1>1. Len(q) \in Nat /\ Len(q) >= 1 /\ Len(p) = Len(q) - 1 /\ Head(q) = q[1]
      /\ \A k \in 1..Len(p) : p[k] = q[k + 1]
  OBVIOUS
<1> HIDE DEF p
<1>2. \A k \in 1..Len(p) : k + 1 \in 1..Len(q)
  BY <1>1
<1>3. 1 \in 1..Len(q)
  BY <1>1
<1>4. \A j, k \in 1..Len(p) : j <= k => j + 1 <= k + 1
  BY <1>1
<1>5. \A k \in 1..Len(p) : 1 <= k + 1
  BY <1>1
<1>6. Between(p, low, high)
  BY <1>1, <1>2, <1>4 DEF Between
<1>7. HasFrame(p) => HasFrame(q)
  BY <1>1, <1>2 DEF HasFrame
<1>8. ASSUME q[1].k = "frame"
      PROVE  /\ low <= q[1].frame /\ q[1].frame <= high /\ HasFrame(q)
             /\ Between(p, q[1].frame, high)
  BY <1>1, <1>2, <1>3, <1>4, <1>5, <1>8 DEF Between, HasFrame
<1> QED
  BY <1>1, <1>6, <1>7, <1>8 DEF p

(* What a session has for a channel that has delivered up to `got`: frames in order, *)
(* the one that waits behind the ones on the way, and none without interest.         *)
ChannelFrames(s, got, w) ==
  /\ got <= s.newest /\ Between(s.out[w], got, s.newest)
  /\ s.framePending[w] # 0 =>
       /\ w \in s.frameInflight
       /\ got <= s.framePending[w] /\ s.framePending[w] <= s.newest
       /\ Between(s.out[w], got, s.framePending[w])
  /\ HasFrame(s.out[w]) \/ s.framePending[w] # 0 => w \in s.frameInterest

SessionFrames(s, got) ==
  /\ s.frameCache \in {0, s.newest}
  /\ \A w \in Windows : ChannelFrames(s, got[w], w)

(* A channel with the frames it had keeps them in order. *)
LEMMA FramesKept ==
  ASSUME NEW s \in Server, NEW t \in Server, NEW w \in Windows, NEW got \in FrameIds,
         ChannelFrames(s, got, w),
         t.newest \in {s.newest, s.newest + 1},
         t.out[w] = s.out[w] \/ \E m \in Downlink : m.k # "frame"
                                   /\ t.out[w] = Append(s.out[w], m),
         t.framePending[w] = s.framePending[w],
         w \in s.frameInflight => w \in t.frameInflight,
         w \in s.frameInterest => w \in t.frameInterest
  PROVE  ChannelFrames(t, got, w)
<1> DEFINE q == s.out[w]
           waits == s.framePending[w]
<1>1. q \in Seq(Downlink) /\ s.newest \in Nat /\ t.newest \in Nat /\ waits \in Nat
      /\ got \in Nat /\ s.newest <= t.newest
  BY DEF Server, FrameIds
<1>2. Between(t.out[w], got, s.newest)
  BY <1>1, BetweenOther DEF ChannelFrames
<1>3. HasFrame(t.out[w]) => HasFrame(q)
  BY <1>1, BetweenOther DEF ChannelFrames
<1>4. waits # 0 => Between(t.out[w], got, waits)
  BY <1>1, BetweenOther DEF ChannelFrames
<1>5. t.out[w] \in Seq(Downlink)
  BY DEF Server
<1>6. Between(t.out[w], got, t.newest)
  BY <1>1, <1>2, <1>5, BetweenWider
<1> QED
  BY <1>1, <1>3, <1>4, <1>6 DEF ChannelFrames

(* A channel that is sent the newest frame. *)
LEMMA FramesSent ==
  ASSUME NEW s \in Server, NEW t \in Server, NEW w \in Windows, NEW got \in FrameIds,
         ChannelFrames(s, got, w),
         t.newest \in {s.newest, s.newest + 1},
         w \in s.frameInflight =>
           t.framePending[w] = t.newest /\ t.out[w] = s.out[w],
         w \notin s.frameInflight =>
           /\ t.framePending[w] = s.framePending[w]
           /\ t.out[w] = Append(s.out[w], FrameMessage(t.newest)),
         w \in t.frameInflight, w \in t.frameInterest
  PROVE  ChannelFrames(t, got, w)
<1> DEFINE q == s.out[w]
<1>1. q \in Seq(Downlink) /\ s.newest \in Nat /\ t.newest \in Nat /\ got \in Nat
      /\ t.newest \in FrameIds /\ s.newest <= t.newest
  BY DEF Server, FrameIds
<1>2. got <= s.newest /\ Between(q, got, s.newest)
  BY DEF ChannelFrames
<1>3. Between(t.out[w], got, t.newest)
  <2>1. CASE w \in s.frameInflight
    <3>1. t.out[w] = q
      BY <2>1
    <3> QED
      BY ONLY <1>1, <1>2, <3>1, BetweenWider
  <2>2. CASE w \notin s.frameInflight
    <3>1. t.out[w] = Append(q, FrameMessage(t.newest))
      BY <2>2
    <3> QED
      BY ONLY <1>1, <1>2, <3>1, BetweenFrame
  <2> QED
    BY <2>1, <2>2
<1>4. CASE w \in s.frameInflight
  BY <1>1, <1>2, <1>3, <1>4, BetweenWider DEF ChannelFrames
<1>5. CASE w \notin s.frameInflight
  BY <1>1, <1>2, <1>3, <1>5 DEF ChannelFrames
<1> QED
  BY <1>4, <1>5

(* A channel whose acknowledgement arrives. *)
LEMMA FramesAcked ==
  ASSUME NEW s \in Server, NEW t \in Server, NEW w \in Windows, NEW got \in FrameIds,
         ChannelFrames(s, got, w),
         t.newest = s.newest, t.framePending[w] = 0,
         t.out[w] = IF s.framePending[w] = 0 THEN s.out[w]
                    ELSE Append(s.out[w], FrameMessage(s.framePending[w])),
         w \in s.frameInterest => w \in t.frameInterest
  PROVE  ChannelFrames(t, got, w)
<1> DEFINE q == s.out[w]
           waits == s.framePending[w]
<1>1. q \in Seq(Downlink) /\ s.newest \in Nat /\ got \in Nat /\ waits \in FrameIds
      /\ waits \in Nat
  BY DEF Server, FrameIds
<1>2. CASE waits = 0
  BY <1>1, <1>2 DEF ChannelFrames
<1>3. CASE waits # 0
  <2>1. /\ w \in s.frameInterest /\ Between(q, got, waits) /\ waits <= s.newest
        /\ got <= waits
    BY <1>3 DEF ChannelFrames
  <2>2. Between(t.out[w], got, waits)
    BY <1>1, <1>3, <2>1, BetweenFrame
  <2>3. t.out[w] \in Seq(Downlink)
    BY DEF Server
  <2>4. Between(t.out[w], got, t.newest)
    BY <1>1, <2>1, <2>2, <2>3, BetweenWider
  <2> QED
    BY <1>1, <2>1, <2>4 DEF ChannelFrames
<1> QED
  BY <1>2, <1>3

(* A channel that ends has no frames. *)
LEMMA FramesDropped ==
  ASSUME NEW s \in Server, NEW t \in Server, NEW w \in Windows, NEW got \in FrameIds,
         ChannelFrames(s, got, w),
         t.newest = s.newest, t.framePending[w] = 0, t.out[w] = <<>>
  PROVE  ChannelFrames(t, got, w)
  BY DEF ChannelFrames, Between, HasFrame

(* A channel that delivers its first message. *)
LEMMA FramesDelivered ==
  ASSUME NEW s \in Server, NEW t \in Server, NEW w \in Windows, NEW got \in FrameIds,
         ChannelFrames(s, got, w), s.out[w] # <<>>,
         t.newest = s.newest, t.framePending[w] = s.framePending[w],
         t.frameInflight = s.frameInflight, t.frameInterest = s.frameInterest,
         t.out[w] = Tail(s.out[w])
  PROVE  LET m == Head(s.out[w]) IN
         /\ m.k # "frame" => ChannelFrames(t, got, w)
         /\ m.k = "frame" => /\ got <= m.frame /\ m.frame <= s.newest
                             /\ w \in s.frameInterest
                             /\ ChannelFrames(t, m.frame, w)
<1> DEFINE q == s.out[w]
           waits == s.framePending[w]
           m == Head(s.out[w])
<1>1. q \in Seq(Downlink) /\ s.newest \in Nat /\ got \in Nat /\ waits \in Nat
  BY DEF Server, FrameIds
<1>2. /\ Between(Tail(q), got, s.newest) /\ (HasFrame(Tail(q)) => HasFrame(q))
      /\ m.k = "frame" => /\ got <= m.frame /\ m.frame <= s.newest /\ HasFrame(q)
                          /\ Between(Tail(q), m.frame, s.newest)
  BY <1>1, BetweenTail DEF ChannelFrames
<1>3. waits # 0 => /\ Between(Tail(q), got, waits)
                   /\ m.k = "frame" => /\ m.frame <= waits
                                       /\ Between(Tail(q), m.frame, waits)
  BY <1>1, BetweenTail DEF ChannelFrames
<1> QED
  BY <1>2, <1>3 DEF ChannelFrames

(* Whatever arrives of a window, the frames of every channel stay in order, and interest *)
(* only grows by a declaration of it.                                                    *)
LEMMA DispatchedFrames ==
  ASSUME NEW s \in Server, NEW c \in Windows, NEW m \in Uplink,
         NEW got \in [Windows -> FrameIds], SessionFrames(s, got)
  PROVE  /\ SessionFrames(Dispatched(s, c, m), got)
         /\ Dispatched(s, c, m).frameInterest \in {s.frameInterest,
                                                   s.frameInterest \union {c}}
<1> DEFINE t == Dispatched(s, c, m)
<1>1. t \in Server /\ t.newest = s.newest
  BY DispatchedTypes
<1>2. /\ s.frameCache \in {0, s.newest}
      /\ \A w \in Windows : ChannelFrames(s, got[w], w) /\ got[w] \in FrameIds
  BY DEF SessionFrames
<1> DEFINE Same(w) == /\ t.framePending[w] = s.framePending[w]
                      /\ w \in s.frameInflight => w \in t.frameInflight
                      /\ w \in s.frameInterest => w \in t.frameInterest
                      /\ \/ t.out[w] = s.out[w]
                         \/ \E x \in Downlink : x.k # "frame"
                                                  /\ t.out[w] = Append(s.out[w], x)
<1> HIDE DEF t
<1>3. ASSUME NEW w \in Windows, Same(w)
      PROVE  ChannelFrames(t, got[w], w)
  BY <1>1, <1>2, <1>3, FramesKept
<1>4. SUFFICES /\ t.frameCache \in {0, s.newest}
               /\ \A w \in Windows : Same(w) \/ ChannelFrames(t, got[w], w)
               /\ t.frameInterest \in {s.frameInterest, s.frameInterest \union {c}}
  BY <1>1, <1>3 DEF SessionFrames, t
<1>5. CASE m.k = "sub"
  <2>1. m.passive \in BOOLEAN /\ t = Subscribed(s, c, m.passive)
    BY <1>5, Messages DEF Dispatched, t
  <2>2. SubscriptionTaken(s, c, m.passive, t)
    BY <2>1, SubscribedEffect
  <2>3. Patch(s.state) \in Downlink /\ Patch(s.state).k = "state"
    BY Messages DEF Server
  <2>4. /\ t.frameCache = s.frameCache /\ t.frameInterest = s.frameInterest
        /\ t.frameInflight = s.frameInflight /\ t.framePending = s.framePending
        /\ \A w \in Windows : \/ t.out[w] = s.out[w]
                              \/ t.out[w] = Append(s.out[w], Patch(s.state))
    BY ONLY <2>2 DEF SubscriptionTaken
  <2> QED
    BY <1>2, <2>3, <2>4
<1>6. CASE m.k = "unsub"
  <2>1. m.passive \in BOOLEAN /\ t = Unsubscribed(s, c, m.passive)
    BY <1>6, Messages DEF Dispatched, t
  <2>2. SubscriptionLeft(s, c, m.passive, t)
    BY <2>1, UnsubscribedEffect
  <2>3. /\ t.frameCache \in {0, s.frameCache} /\ t.frameInterest = s.frameInterest
        /\ t.frameInflight = s.frameInflight /\ t.framePending = s.framePending
        /\ t.out = s.out
    BY ONLY <2>2 DEF SubscriptionLeft
  <2> QED
    BY <1>2, <2>3
<1>7. CASE m.k = "set"
  <2> DEFINE u == [s EXCEPT !.state = m.value]
             ws == s.subscribers \ {c}
  <2>1. m.value \in Values /\ Patch(m.value) \in Downlink /\ Patch(m.value).k = "state"
    BY <1>7, Messages
  <2>2. /\ u \in Server /\ u.frameCache = s.frameCache
        /\ u.frameInterest = s.frameInterest /\ u.frameInflight = s.frameInflight
        /\ u.framePending = s.framePending /\ u.out = s.out
    BY <2>1 DEF Server
  <2>3. t = Post(u, ws, Patch(m.value))
    BY <1>7 DEF Dispatched, t
  <2> HIDE DEF u, ws
  <2>4. /\ t.frameCache = u.frameCache
        /\ t.frameInterest = u.frameInterest /\ t.frameInflight = u.frameInflight
        /\ t.framePending = u.framePending
        /\ \A w \in Windows : t.out[w] = IF w \in ws THEN Append(u.out[w], Patch(m.value))
                                         ELSE u.out[w]
    BY ONLY <2>1, <2>2, <2>3, PostEffect
  <2>5. \A w \in Windows : \/ t.out[w] = s.out[w]
                           \/ t.out[w] = Append(s.out[w], Patch(m.value))
    BY <2>2, <2>4
  <2> QED
    BY <1>2, <2>1, <2>2, <2>4, <2>5
<1>8. CASE m.k = "finterest"
  <2>1. t = Interested(s, c)
    BY <1>8 DEF Dispatched, t
  <2>2. /\ t.frameCache = s.frameCache
        /\ t.frameInterest = s.frameInterest \union {c}
        /\ t.frameInflight = IF s.frameCache = 0 THEN s.frameInflight
                             ELSE s.frameInflight \union {c}
        /\ \A w \in Windows :
             LET sent == w = c /\ s.frameCache # 0 IN
             /\ t.framePending[w] = IF sent /\ w \in s.frameInflight THEN s.frameCache
                                    ELSE s.framePending[w]
             /\ t.out[w] = IF sent /\ w \notin s.frameInflight
                             THEN Append(s.out[w], FrameMessage(s.frameCache))
                             ELSE s.out[w]
    <3>1. InterestTaken(s, c, t)
      BY <2>1, InterestedEffect
    <3> QED
      BY ONLY <3>1 DEF InterestTaken
  <2>3. ASSUME NEW w \in Windows, w = c, s.frameCache # 0
        PROVE  ChannelFrames(t, got[w], w)
    <3>1. s.frameCache = t.newest
      BY <1>1, <1>2, <2>3
    <3>2. w \in t.frameInflight /\ w \in t.frameInterest
      BY <2>2, <2>3
    <3>3. w \in s.frameInflight => /\ t.framePending[w] = t.newest
                                   /\ t.out[w] = s.out[w]
      BY <2>2, <2>3, <3>1
    <3>4. w \notin s.frameInflight =>
            /\ t.framePending[w] = s.framePending[w]
            /\ t.out[w] = Append(s.out[w], FrameMessage(t.newest))
      BY <2>2, <2>3, <3>1
    <3> QED
      BY <1>1, <1>2, <3>2, <3>3, <3>4, FramesSent
  <2>4. ASSUME NEW w \in Windows, w # c \/ s.frameCache = 0
        PROVE  Same(w)
    BY <2>2, <2>4
  <2> QED
    BY <1>2, <2>2, <2>3, <2>4
<1>9. CASE m.k = "fack"
  <2>1. t = FrameAck(s, c)
    BY <1>9 DEF Dispatched, t
  <2>2. /\ t.frameCache = s.frameCache /\ t.frameInterest = s.frameInterest
        /\ t.frameInflight = IF s.framePending[c] = 0 THEN s.frameInflight \ {c}
                             ELSE s.frameInflight
        /\ \A w \in Windows :
             /\ t.framePending[w] = IF w = c THEN 0 ELSE s.framePending[w]
             /\ t.out[w] = IF w = c /\ s.framePending[c] # 0
                             THEN Append(s.out[w], FrameMessage(s.framePending[c]))
                             ELSE s.out[w]
    <3>1. AckTaken(s, c, t)
      BY <2>1, FrameAckEffect
    <3> QED
      BY ONLY <3>1 DEF AckTaken
  <2>3. ChannelFrames(t, got[c], c)
    <3>1. /\ t.framePending[c] = 0
          /\ t.out[c] = IF s.framePending[c] = 0 THEN s.out[c]
                        ELSE Append(s.out[c], FrameMessage(s.framePending[c]))
          /\ c \in s.frameInterest => c \in t.frameInterest
      BY <2>2
    <3> QED
      BY <1>1, <1>2, <3>1, FramesAcked
  <2>4. ASSUME NEW w \in Windows, w # c
        PROVE  Same(w)
    BY <2>2, <2>4
  <2> QED
    BY <1>2, <2>2, <2>3, <2>4
<1>10. CASE m.k = "req"
  <2>1. t = [s EXCEPT !.running = @ \union {<<c, m.id>>}]
    BY <1>10 DEF Dispatched, t
  <2>2. /\ t.frameCache = s.frameCache /\ t.frameInterest = s.frameInterest
        /\ t.frameInflight = s.frameInflight /\ t.framePending = s.framePending
        /\ t.out = s.out
    BY <2>1 DEF Server
  <2> QED
    BY <1>2, <2>2
<1>11. CASE m.k = "close"
  <2>1. t = Detached(s, c)
    BY <1>11 DEF Dispatched, t
  <2>2. /\ t.frameCache \in {0, s.frameCache} /\ t.frameInterest = s.frameInterest
        /\ t.frameInflight = s.frameInflight \ {c}
        /\ \A w \in Windows :
             /\ t.framePending[w] = IF w = c THEN 0 ELSE s.framePending[w]
             /\ t.out[w] = IF w = c THEN <<>> ELSE s.out[w]
    BY ONLY <2>1, s \in Server, c \in Windows, DetachedEffect
  <2>3. ChannelFrames(t, got[c], c)
    BY <1>1, <1>2, <2>2, FramesDropped
  <2>4. ASSUME NEW w \in Windows, w # c
        PROVE  Same(w)
    BY <2>2, <2>4
  <2> QED
    BY <1>2, <2>2, <2>3, <2>4
<1> QED
  BY <1>5, <1>6, <1>7, <1>8, <1>9, <1>10, <1>11, Messages

(* The invariant of the frames. *)
FramesInv == SessionFrames(server, client.got)

(* Every step keeps it; a step also reads as one of the abstract stream, or changes *)
(* nothing of it.                                                                    *)
Streams ==
  \/ /\ server'.newest = server.newest + 1
     /\ UNCHANGED <<client.got, server.frameInterest>>
  \/ /\ \E w \in Windows : /\ w \notin server.frameInterest
                           /\ server'.frameInterest = server.frameInterest \union {w}
                           /\ client.got[w] \in 0..server.newest
     /\ UNCHANGED <<client.got, server.newest>>
  \/ /\ \E w \in Windows : /\ w \in server.frameInterest
                           /\ \E f \in (client.got[w] + 1)..server.newest :
                                client'.got = [client.got EXCEPT ![w] = f]
     /\ UNCHANGED <<server.newest, server.frameInterest>>
  \/ UNCHANGED <<client.got, server.newest, server.frameInterest>>

(* That is so of every step. *)
LEMMA FramesNext ==
  ASSUME TypesInv, FramesInv, [WireNext]_wireVars
  PROVE  FramesInv' /\ Streams
<1>1. /\ client \in Client /\ server \in Server /\ client' \in Client /\ server' \in Server
      /\ client.got \in [Windows -> FrameIds] /\ client'.got \in [Windows -> FrameIds]
      /\ SessionFrames(server, client.got)
  BY TypesNext DEF TypesInv, WireTypeOK, Client, FramesInv
<1>2. /\ server.frameCache \in {0, server.newest}
      /\ \A w \in Windows : ChannelFrames(server, client.got[w], w)
                              /\ client.got[w] \in FrameIds
  BY <1>1 DEF SessionFrames
<1>3. \A w \in Windows : client.got[w] \in 0..server.newest
  BY <1>1, <1>2 DEF ChannelFrames, Server, FrameIds
<1>4. ASSUME client'.got = client.got, server'.newest = server.newest,
             server'.frameCache = server.frameCache,
             server'.frameInterest = server.frameInterest,
             server'.frameInflight = server.frameInflight,
             server'.framePending = server.framePending,
             \A w \in Windows : \/ server'.out[w] = server.out[w]
                                \/ \E m \in Downlink :
                                     m.k # "frame"
                                       /\ server'.out[w] = Append(server.out[w], m)
      PROVE  FramesInv' /\ Streams
  <2>1. \A w \in Windows : ChannelFrames(server', client.got[w], w)
    BY <1>1, <1>2, <1>4, FramesKept
  <2> QED
    BY <1>2, <1>4, <2>1 DEF FramesInv, SessionFrames, Streams
<1>5. ASSUME NEW w \in Windows, Receive(w)
      PROVE  FramesInv' /\ Streams
  <2> DEFINE m == Head(client.up[w])
  <2>1. m \in Uplink /\ server' = Dispatched(server, w, m) /\ client'.got = client.got
    BY <1>5, ReceiveEffect
  <2> HIDE DEF m
  <2>2. /\ SessionFrames(server', client.got)
        /\ server'.frameInterest \in {server.frameInterest,
                                      server.frameInterest \union {w}}
    BY <1>1, <2>1, DispatchedFrames
  <2>3. server'.newest = server.newest
    BY <1>1, <2>1, DispatchedTypes
  <2>4. Streams
    BY <1>3, <2>1, <2>2, <2>3 DEF Streams
  <2> QED
    BY <2>1, <2>2, <2>4 DEF FramesInv
<1>6. CASE SetState
  <2>1. events' \in Values
    BY <1>6, SetStateEffect
  <2>2. Patch(events') \in Downlink /\ Patch(events').k = "state"
    BY <2>1, Messages
  <2> QED
    BY <1>4, <1>6, <2>2, SetStateEffect
<1>7. CASE Publish
  <2>1. PICK s \in Server, ws \in SUBSET server.frameInterest :
          /\ s.newest = server.newest + 1 /\ s.frameCache = s.newest
          /\ s.frameInterest = server.frameInterest
          /\ s.frameInflight = server.frameInflight
          /\ s.framePending = server.framePending /\ s.out = server.out
          /\ FrameSent(s, ws, s.newest, server')
    BY <1>7, PublishEffect
  <2>2. client'.got = client.got
    BY <1>7, PublishEffect
  <2>3. /\ server'.newest = s.newest /\ server'.frameCache = s.frameCache
        /\ server'.frameInterest = s.frameInterest
        /\ server'.frameInflight = s.frameInflight \union ws
        /\ \A w \in Windows :
             /\ server'.framePending[w] = IF w \in ws /\ w \in s.frameInflight
                                            THEN s.newest ELSE s.framePending[w]
             /\ server'.out[w] = IF w \in ws /\ w \notin s.frameInflight
                                   THEN Append(s.out[w], FrameMessage(s.newest))
                                   ELSE s.out[w]
    BY ONLY <2>1 DEF FrameSent
  <2>4. ASSUME NEW w \in Windows, w \in ws
        PROVE  ChannelFrames(server', client.got[w], w)
    <3>1. w \in server.frameInflight => /\ server'.framePending[w] = server'.newest
                                        /\ server'.out[w] = server.out[w]
      BY <2>1, <2>3, <2>4
    <3>2. w \notin server.frameInflight =>
            /\ server'.framePending[w] = server.framePending[w]
            /\ server'.out[w] = Append(server.out[w], FrameMessage(server'.newest))
      BY <2>1, <2>3, <2>4
    <3>3. w \in server'.frameInflight /\ w \in server'.frameInterest
      BY <2>1, <2>3, <2>4
    <3>4. server'.newest = server.newest + 1
      BY <2>1, <2>3
    <3> QED
      BY <1>1, <1>2, <3>1, <3>2, <3>3, <3>4, FramesSent
  <2>5. ASSUME NEW w \in Windows, w \notin ws
        PROVE  ChannelFrames(server', client.got[w], w)
    <3>1. /\ server'.framePending[w] = server.framePending[w]
          /\ server'.out[w] = server.out[w]
          /\ w \in server.frameInflight => w \in server'.frameInflight
          /\ w \in server.frameInterest => w \in server'.frameInterest
          /\ server'.newest = server.newest + 1
      BY <2>1, <2>3, <2>5
    <3> QED
      BY <1>1, <1>2, <3>1, FramesKept
  <2> QED
    BY <2>1, <2>2, <2>3, <2>4, <2>5 DEF FramesInv, SessionFrames, Streams
<1>8. CASE Drained \/ Die \/ \E w \in Windows : OrchestratorDown(w)
  BY <1>4, <1>8, QuietEffect
<1>9. ASSUME NEW w \in Windows, NEW id \in Calls, Respond(w, id)
      PROVE  FramesInv' /\ Streams
  <2>1. PICK m \in Downlink :
          /\ m.k = "res"
          /\ \A x \in Windows : \/ server'.out[x] = server.out[x]
                                \/ server'.out[x] = Append(server.out[x], m)
    BY <1>9, RespondEffect
  <2>2. m.k # "frame" /\ client' = client
    BY <1>9, <2>1, RespondEffect
  <2> QED
    BY <1>4, <1>9, <2>1, <2>2, RespondEffect
<1>10. ASSUME NEW w \in Windows, Deliver(w)
       PROVE  FramesInv' /\ Streams
  <2> DEFINE m == Head(server.out[w])
  <2>1. /\ m \in Downlink /\ server.out[w] # <<>>
        /\ server' = [server EXCEPT !.out[w] = Tail(@)]
        /\ client'.got = IF m.k = "frame" THEN [client.got EXCEPT ![w] = m.frame]
                         ELSE client.got
    BY <1>10, DeliverEffect
  <2>2. /\ server'.newest = server.newest /\ server'.frameCache = server.frameCache
        /\ server'.frameInterest = server.frameInterest
        /\ server'.frameInflight = server.frameInflight
        /\ server'.framePending = server.framePending
        /\ server'.out[w] = Tail(server.out[w])
        /\ \A x \in Windows : x # w => server'.out[x] = server.out[x]
    BY <1>1, <2>1 DEF Server
  <2>3. /\ m.k # "frame" => ChannelFrames(server', client.got[w], w)
        /\ m.k = "frame" => /\ client.got[w] <= m.frame /\ m.frame <= server.newest
                            /\ w \in server.frameInterest
                            /\ ChannelFrames(server', m.frame, w)
    BY <1>1, <1>2, <2>1, <2>2, FramesDelivered
  <2>4. ASSUME NEW x \in Windows, x # w
        PROVE  ChannelFrames(server', client.got[x], x)
    BY <1>1, <1>2, <2>2, <2>4, FramesKept
  <2> HIDE DEF m
  <2>5. CASE m.k # "frame"
    <3>1. client'.got = client.got
      BY <2>1, <2>5
    <3>2. \A x \in Windows : ChannelFrames(server', client.got[x], x)
      BY <2>3, <2>4, <2>5
    <3> QED
      BY <1>2, <2>2, <3>1, <3>2 DEF FramesInv, SessionFrames, Streams
  <2>6. CASE m.k = "frame"
    <3>1. client'.got = [client.got EXCEPT ![w] = m.frame]
      BY <2>1, <2>6
    <3>2. client'.got[w] = m.frame /\ \A x \in Windows : x # w => client'.got[x] = client.got[x]
      BY <1>1, <3>1
    <3>3. \A x \in Windows : ChannelFrames(server', client'.got[x], x)
      BY <2>3, <2>4, <2>6, <3>2
    <3>4. m.frame \in Nat /\ client.got[w] \in Nat /\ server.newest \in Nat
      BY <1>1, <1>2, <2>1, <2>6, Messages DEF Server, FrameIds
    <3>5. CASE m.frame = client.got[w]
      <4>1. client'.got = client.got
        BY <1>1, <3>1, <3>5
      <4> QED
        BY <1>2, <2>2, <3>3, <4>1 DEF FramesInv, SessionFrames, Streams
    <3>6. CASE m.frame # client.got[w]
      <4>1. m.frame \in (client.got[w] + 1)..server.newest
        BY <2>3, <2>6, <3>4, <3>6
      <4> QED
        BY <1>2, <2>2, <2>3, <2>6, <3>1, <3>3, <4>1 DEF FramesInv, SessionFrames, Streams
    <3> QED
      BY <3>5, <3>6
  <2> QED
    BY <2>5, <2>6
<1>11. ASSUME NEW w \in Windows, CloseWindow(w)
       PROVE  FramesInv' /\ Streams
  <2>1. UNCHANGED server
    BY <1>11 DEF CloseWindow
  <2> QED
    BY <1>4, <1>11, <2>1, CloseWindowEffect
<1>12. ASSUME NEW v \in Views, Mount(v) \/ Unmount(v) \/ Call(v) \/ WriteField(v)
       PROVE  FramesInv' /\ Streams
  <2>1. UNCHANGED server
    BY <1>12 DEF Mount, Unmount, Call, WriteField
  <2>2. client'.got = client.got
    BY <1>12, MountEffect, UnmountEffect, CallEffect, WriteFieldEffect
  <2> QED
    BY <1>4, <2>1, <2>2
<1>13. CASE UNCHANGED wireVars
  BY <1>4, <1>13 DEF wireVars
<1> QED
  BY <1>5, <1>6, <1>7, <1>8, <1>9, <1>10, <1>11, <1>12, <1>13 DEF WireNext

(* Before anything has happened there is no frame. *)
LEMMA FramesInit ==
  ASSUME WireInit
  PROVE  FramesInv
<1>1. /\ server.newest = 0 /\ server.frameCache = 0
      /\ \A w \in Windows : server.out[w] = <<>> /\ server.framePending[w] = 0
                              /\ client.got[w] = 0
  BY DEF WireInit
<1> QED
  BY <1>1 DEF FramesInv, SessionFrames, ChannelFrames, Between, HasFrame

(* A step of the stream that a step of the wire reads as. *)
LEMMA StreamStep ==
  ASSUME TypesInv, Streams
  PROVE  [WindowStream!StreamNext]_(WindowStream!streamVars)
<1> USE DEF WindowStream!streamVars, WindowStream!StreamNext
<1>0. client.got \in [Windows -> FrameIds]
  BY DEF TypesInv, WireTypeOK, Client
<1>1. CASE /\ server'.newest = server.newest + 1
           /\ UNCHANGED <<client.got, server.frameInterest>>
  BY <1>1 DEF WindowStream!Publish
<1>2. CASE /\ \E w \in Windows : /\ w \notin server.frameInterest
                                 /\ server'.frameInterest = server.frameInterest \union {w}
                                 /\ client.got[w] \in 0..server.newest
           /\ UNCHANGED <<client.got, server.newest>>
  <2> DEFINE PhaseFor(i) == [w \in Windows |-> IF w \in i THEN "reading" ELSE "new"]
  <2>1. PICK w \in Windows : /\ w \notin server.frameInterest
                             /\ server'.frameInterest = server.frameInterest \union {w}
                             /\ client.got[w] \in 0..server.newest
    BY <1>2
  <2>2. PhaseFor(server.frameInterest)[w] = "new"
    BY <2>1
  <2>3. PhaseFor(server'.frameInterest) =
          [PhaseFor(server.frameInterest) EXCEPT ![w] = "reading"]
    BY <2>1
  <2>4. client'.got = [client.got EXCEPT ![w] = client.got[w]]
    BY <1>0, <1>2
  <2>5. WindowStream!Join(w)
    BY <1>2, <2>1, <2>2, <2>3, <2>4 DEF WindowStream!Join
  <2> QED
    BY <2>5
<1>3. CASE /\ \E w \in Windows : /\ w \in server.frameInterest
                                 /\ \E f \in (client.got[w] + 1)..server.newest :
                                      client'.got = [client.got EXCEPT ![w] = f]
           /\ UNCHANGED <<server.newest, server.frameInterest>>
  <2>1. PICK w \in Windows : /\ w \in server.frameInterest
                             /\ \E f \in (client.got[w] + 1)..server.newest :
                                  client'.got = [client.got EXCEPT ![w] = f]
    BY <1>3
  <2>2. WindowStream!Take(w)
    BY <1>3, <2>1 DEF WindowStream!Take
  <2> QED
    BY <2>2
<1>4. CASE UNCHANGED <<client.got, server.newest, server.frameInterest>>
  BY <1>4
<1> QED
  BY <1>1, <1>2, <1>3, <1>4 DEF Streams

(* Of any number of windows, each is delivered a lossy stream of the session's frames: *)
(* only newer ones, whatever acknowledgements, declarations of interest, re-sent cached *)
(* frames and closing channels do to the gate.                                           *)
THEOREM WindowsImplementStream == WireSpec => DeliversLossyStream
<1>1. WireInit => TypesInv /\ FramesInv /\ WindowStream!StreamInit
  BY TypesInit, FramesInit DEF WireInit, WindowStream!StreamInit
<1>2. TypesInv /\ FramesInv /\ [WireNext]_wireVars =>
        /\ TypesInv' /\ FramesInv'
        /\ [WindowStream!StreamNext]_(WindowStream!streamVars)
  BY TypesNext, FramesNext, StreamStep
<1> QED
  BY <1>1, <1>2, PTL DEF WireSpec, DeliversLossyStream, WindowStream!StreamSpec

-----------------------------------------------------------------------------
(* Values: what a view shows is the session's value once everything has arrived.  The *)
(* view's subscriptions alternate on the way up, so that a mounted view none of whose  *)
(* subscriptions is on the way is known to the session; then the last write of the     *)
(* view, or else the last update on the way down, or else nothing, is the difference   *)
(* between what the view shows and what the session has.                               *)

(* A sequence of messages has one of a kind. *)
Has(q, kind) == \E k \in 1..Len(q) : q[k].k = kind

(* The last message of a kind has a value. *)
LastIs(q, kind, x) ==
  \E k \in 1..Len(q) : /\ q[k].k = kind /\ q[k].value = x
                       /\ \A j \in 1..Len(q) : j > k => q[j].k # kind

(* What an append is, message by message. *)
LEMMA AppendParts ==
  ASSUME NEW M, NEW q \in Seq(M), NEW m \in M
  PROVE  /\ Append(q, m) \in Seq(M) /\ q \o <<m>> = Append(q, m)
         /\ Len(q) \in Nat /\ Len(Append(q, m)) = Len(q) + 1
         /\ \A k \in 1..Len(q) : Append(q, m)[k] = q[k]
         /\ Append(q, m)[Len(q) + 1] = m
  OBVIOUS

(* Two messages at once are one after the other. *)
LEMMA AppendTwo ==
  ASSUME NEW M, NEW q \in Seq(M), NEW m \in M, NEW f \in M
  PROVE  q \o <<m, f>> = Append(Append(q, m), f)
<1> DEFINE a == q \o <<m, f>>
           b == Append(Append(q, m), f)
<1>1. Len(a) = Len(q) + 2 /\ Len(b) = Len(q) + 2 /\ Len(q) \in Nat
  OBVIOUS
<1>2. a \in Seq(M) /\ b \in Seq(M)
  OBVIOUS
<1>3. \A k \in 1..Len(q) + 2 : a[k] = b[k]
  OBVIOUS
<1> HIDE DEF a, b
<1>4. a = b
  BY <1>1, <1>2, <1>3
<1> QED
  BY <1>4 DEF a, b

(* What is left of a sequence without its first message. *)
LEMMA TailParts ==
  ASSUME NEW M, NEW q \in Seq(M), q # <<>>
  PROVE  /\ Tail(q) \in Seq(M) /\ Head(q) \in M /\ Head(q) = q[1]
         /\ Len(q) \in Nat /\ Len(q) >= 1 /\ Len(Tail(q)) = Len(q) - 1
         /\ \A k \in 1..Len(Tail(q)) : Tail(q)[k] = q[k + 1]
  OBVIOUS

(* Kinds in what a message is added to. *)
LEMMA HasAppend ==
  ASSUME NEW M, NEW q \in Seq(M), NEW m \in M, NEW kind
  PROVE  Has(Append(q, m), kind) <=> Has(q, kind) \/ m.k = kind
<1> DEFINE p == Append(q, m)
<1>1. Len(q) \in Nat /\ Len(p) = Len(q) + 1 /\ p[Len(q) + 1] = m
      /\ \A k \in 1..Len(q) : p[k] = q[k]
  BY AppendParts
<1> HIDE DEF p
<1>2. \A k \in 1..Len(p) : k \in 1..Len(q) \/ k = Len(q) + 1
  BY <1>1
<1>3. Len(q) + 1 \in 1..Len(p) /\ \A k \in 1..Len(q) : k \in 1..Len(p)
  BY <1>1
<1>4. Has(p, kind) => Has(q, kind) \/ m.k = kind
  BY <1>1, <1>2 DEF Has
<1>5. Has(q, kind) \/ m.k = kind => Has(p, kind)
  BY <1>1, <1>3 DEF Has
<1> QED
  BY <1>4, <1>5 DEF p

(* Kinds among the messages that follow the first. *)
LEMMA HasTail ==
  ASSUME NEW M, NEW q \in Seq(M), q # <<>>, NEW kind
  PROVE  Has(q, kind) <=> Has(Tail(q), kind) \/ Head(q).k = kind
<1> DEFINE p == Tail(q)
<1>1. Len(q) \in Nat /\ Len(q) >= 1 /\ Len(p) = Len(q) - 1 /\ Head(q) = q[1]
      /\ \A k \in 1..Len(p) : p[k] = q[k + 1]
  BY TailParts
<1> HIDE DEF p
<1>2. \A k \in 1..Len(q) : k = 1 \/ (k - 1 \in 1..Len(p) /\ (k - 1) + 1 = k)
  BY <1>1
<1>3. 1 \in 1..Len(q) /\ \A k \in 1..Len(p) : k + 1 \in 1..Len(q)
  BY <1>1
<1>4. \A k \in 1..Len(q) : k = 1 \/ q[k] = p[k - 1]
  BY <1>1, <1>2
<1>5. Has(q, kind) => Has(p, kind) \/ Head(q).k = kind
  BY <1>1, <1>2, <1>4 DEF Has
<1>6. Has(p, kind) \/ Head(q).k = kind => Has(q, kind)
  BY <1>1, <1>3 DEF Has
<1> QED
  BY <1>5, <1>6 DEF p

(* The last message of a kind, after an append. *)
LEMMA LastAppend ==
  ASSUME NEW M, NEW q \in Seq(M), NEW m \in M, NEW kind, NEW x
  PROVE  /\ m.k = kind /\ m.value = x => LastIs(Append(q, m), kind, x)
         /\ m.k # kind /\ LastIs(q, kind, x) => LastIs(Append(q, m), kind, x)
<1> DEFINE p == Append(q, m)
<1>1. Len(q) \in Nat /\ Len(p) = Len(q) + 1 /\ p[Len(q) + 1] = m
      /\ \A k \in 1..Len(q) : p[k] = q[k]
  BY AppendParts
<1> HIDE DEF p
<1>2. \A k \in 1..Len(p) : k \in 1..Len(q) \/ k = Len(q) + 1
  BY <1>1
<1>3. Len(q) + 1 \in 1..Len(p) /\ \A k \in 1..Len(q) : k \in 1..Len(p)
  BY <1>1
<1>4. ASSUME m.k = kind, m.value = x
      PROVE  LastIs(p, kind, x)
  <2>1. \A j \in 1..Len(p) : ~ (j > Len(q) + 1)
    BY <1>1
  <2> QED
    BY <1>1, <1>3, <1>4, <2>1 DEF LastIs
<1>5. ASSUME m.k # kind, LastIs(q, kind, x)
      PROVE  LastIs(p, kind, x)
  <2>1. PICK k \in 1..Len(q) : /\ q[k].k = kind /\ q[k].value = x
                               /\ \A j \in 1..Len(q) : j > k => q[j].k # kind
    BY <1>5 DEF LastIs
  <2>2. \A j \in 1..Len(p) : j > k => p[j].k # kind
    BY <1>1, <1>2, <1>5, <2>1
  <2> QED
    BY <1>1, <1>3, <2>1, <2>2 DEF LastIs
<1> QED
  BY <1>4, <1>5 DEF p

(* The last message of a kind, without the first message. *)
LEMMA LastTail ==
  ASSUME NEW M, NEW q \in Seq(M), q # <<>>, NEW kind, NEW x, LastIs(q, kind, x)
  PROVE  /\ Has(Tail(q), kind) => LastIs(Tail(q), kind, x)
         /\ ~ Has(Tail(q), kind) => Head(q).k = kind /\ Head(q).value = x
<1> DEFINE p == Tail(q)
<1>1. Len(q) \in Nat /\ Len(q) >= 1 /\ Len(p) = Len(q) - 1 /\ Head(q) = q[1]
      /\ \A k \in 1..Len(p) : p[k] = q[k + 1]
  BY TailParts
<1> HIDE DEF p
<1>2. PICK k \in 1..Len(q) : /\ q[k].k = kind /\ q[k].value = x
                             /\ \A j \in 1..Len(q) : j > k => q[j].k # kind
  BY DEF LastIs
<1>3. CASE k = 1
  <2>1. \A j \in 1..Len(p) : j + 1 \in 1..Len(q) /\ j + 1 > k
    BY <1>1, <1>3
  <2>2. ~ Has(p, kind)
    BY <1>1, <1>2, <2>1 DEF Has
  <2> QED
    BY <1>1, <1>2, <1>3, <2>2 DEF p
<1>4. CASE k # 1
  <2>1. k - 1 \in 1..Len(p) /\ (k - 1) + 1 = k
    BY <1>1, <1>4
  <2>2. p[k - 1] = q[k]
    BY <1>1, <2>1
  <2>3. \A j \in 1..Len(p) : j + 1 \in 1..Len(q) /\ (j > k - 1 => j + 1 > k)
    BY <1>1, <2>1
  <2>4. \A j \in 1..Len(p) : j > k - 1 => p[j].k # kind
    BY <1>1, <1>2, <2>3
  <2>5. LastIs(p, kind, x) /\ Has(p, kind)
    BY <1>2, <2>1, <2>2, <2>4 DEF LastIs, Has
  <2> QED
    BY <2>5 DEF p
<1> QED
  BY <1>3, <1>4

(* What is on the way explains what a view shows. *)
Explained(up, out, value, state) ==
  /\ ~ (Has(up, "set") /\ Has(out, "state"))
  /\ Has(up, "set") => LastIs(up, "set", value)
  /\ Has(out, "state") => LastIs(out, "state", state)
  /\ ~ Has(up, "set") /\ ~ Has(out, "state") => value = state

(* Messages that neither write nor update explain nothing. *)
LEMMA ExplainedOther ==
  ASSUME NEW up \in Seq(Uplink), NEW out \in Seq(Downlink), NEW value, NEW state,
         Explained(up, out, value, state)
  PROVE  /\ \A m \in Uplink : m.k # "set" => Explained(Append(up, m), out, value, state)
         /\ \A m \in Downlink : m.k # "state" =>
              Explained(up, Append(out, m), value, state)
         /\ up # <<>> /\ Head(up).k # "set" => Explained(Tail(up), out, value, state)
         /\ out # <<>> /\ Head(out).k # "state" => Explained(up, Tail(out), value, state)
<1>1. ASSUME NEW m \in Uplink, m.k # "set"
      PROVE  Explained(Append(up, m), out, value, state)
  BY <1>1, HasAppend, LastAppend DEF Explained
<1>2. ASSUME NEW m \in Downlink, m.k # "state"
      PROVE  Explained(up, Append(out, m), value, state)
  BY <1>2, HasAppend, LastAppend DEF Explained
<1>3. ASSUME up # <<>>, Head(up).k # "set"
      PROVE  Explained(Tail(up), out, value, state)
  BY <1>3, HasTail, LastTail DEF Explained
<1>4. ASSUME out # <<>>, Head(out).k # "state"
      PROVE  Explained(up, Tail(out), value, state)
  BY <1>4, HasTail, LastTail DEF Explained
<1> QED
  BY <1>1, <1>2, <1>3, <1>4

(* A write where no update is coming explains the difference. *)
LEMMA ExplainedWrite ==
  ASSUME NEW up \in Seq(Uplink), NEW out \in Seq(Downlink), NEW x \in Values, NEW state,
         ~ Has(out, "state")
  PROVE  Explained(Append(up, [k |-> "set", value |-> x]), out, x, state)
<1> DEFINE m == [k |-> "set", value |-> x]
<1>1. m \in Uplink /\ m.k = "set" /\ m.value = x
  BY DEF Uplink
<1> HIDE DEF m
<1>2. Has(Append(up, m), "set") /\ LastIs(Append(up, m), "set", x)
  BY <1>1, HasAppend, LastAppend
<1> QED
  BY <1>2 DEF Explained, m

(* An update that is sent where no write is on its way explains the difference. *)
LEMMA ExplainedUpdate ==
  ASSUME NEW up \in Seq(Uplink), NEW out \in Seq(Downlink), NEW value, NEW x \in Values,
         ~ Has(up, "set")
  PROVE  Explained(up, Append(out, Patch(x)), value, x)
<1> DEFINE m == Patch(x)
<1>1. m \in Downlink /\ m.k = "state" /\ m.value = x
  BY Messages
<1> HIDE DEF m
<1>2. Has(Append(out, m), "state") /\ LastIs(Append(out, m), "state", x)
  BY <1>1, HasAppend, LastAppend
<1> QED
  BY <1>2 DEF Explained, m

(* A write that arrives becomes the session's value, an update that arrives the view's. *)
LEMMA ExplainedArrival ==
  ASSUME NEW up \in Seq(Uplink), NEW out \in Seq(Downlink), NEW value, NEW state,
         Explained(up, out, value, state)
  PROVE  /\ up # <<>> /\ Head(up).k = "set" =>
              Explained(Tail(up), out, value, Head(up).value)
         /\ out # <<>> /\ Head(out).k = "state" =>
              Explained(up, Tail(out), Head(out).value, state)
<1>1. ASSUME up # <<>>, Head(up).k = "set"
      PROVE  Explained(Tail(up), out, value, Head(up).value)
  <2>1. Has(up, "set")
    BY <1>1, HasTail
  <2>2. ~ Has(out, "state") /\ LastIs(up, "set", value)
    BY <2>1 DEF Explained
  <2> QED
    BY <1>1, <2>2, LastTail DEF Explained
<1>2. ASSUME out # <<>>, Head(out).k = "state"
      PROVE  Explained(up, Tail(out), Head(out).value, state)
  <2>1. Has(out, "state")
    BY <1>2, HasTail
  <2>2. ~ Has(up, "set") /\ LastIs(out, "state", state)
    BY <2>1 DEF Explained
  <2> QED
    BY <1>2, <2>2, LastTail DEF Explained
<1> QED
  BY <1>1, <1>2

(* A message that leaves a view its subscription: the end of another one does, if it is *)
(* that of an observer and the view is none.                                           *)
Harmless(v, m) == m.k = "unsub" => m.passive /\ v \notin Passive
HarmlessBehind(v, q, k) == \A j \in 1..Len(q) : j > k => Harmless(v, q[j])

(* A channel, subscribed or not and active or not, that has and keeps what a view needs. *)
Held(v, q, sub, act) ==
  sub /\ (v \notin Passive => act) /\ HarmlessBehind(v, q, 0)

(* A subscription on the way gives the view what it needs, for good. *)
ComesAt(v, q, k) ==
  /\ q[k].k = "sub" /\ (q[k].passive => v \in Passive)
  /\ HarmlessBehind(v, q, k)

Kept(v, q, sub, act) ==
  Held(v, q, sub, act) \/ \E k \in 1..Len(q) : ComesAt(v, q, k)

(* What is subscribed, or will be, has been ended before the k-th message: of all *)
(* subscriptions, or of the active ones.                                           *)
Turn(m, kind, all) == m.k = kind /\ (all \/ ~ m.passive)
Ends(q, k, now, all) ==
  /\ now => \E j \in 1..Len(q) : j < k /\ Turn(q[j], "unsub", all)
  /\ \A i \in 1..Len(q) : i < k /\ Turn(q[i], "sub", all) =>
       \E j \in 1..Len(q) : i < j /\ j < k /\ Turn(q[j], "unsub", all)
GoneBefore(q, k, sub, act) == Ends(q, k, sub, TRUE) /\ Ends(q, k, act, FALSE)

(* A subscription on the way will seed the channel. *)
ToCome(v, q, sub, act) ==
  \E k \in 1..Len(q) : ComesAt(v, q, k) /\ GoneBefore(q, k, sub, act)

(* What a message at the front does to a channel that was sub and act. *)
Taken(h, sub, act, sub2, act2) ==
  /\ h.k = "sub" => sub2 /\ (act2 <=> act \/ ~ h.passive)
  /\ h.k = "unsub" => /\ sub2 <=> h.passive /\ act /\ sub
                      /\ act2 <=> h.passive /\ act
  /\ h.k \notin {"sub", "unsub"} => (sub2 <=> sub) /\ (act2 <=> act)

(* A sequence that has grown by a message, and one that has lost its first. *)
Grown(q, m, p) ==
  /\ Len(q) \in Nat /\ Len(p) = Len(q) + 1 /\ p[Len(q) + 1] = m
  /\ \A k \in 1..Len(q) : p[k] = q[k]
Shrunk(q, p) ==
  /\ Len(q) \in Nat /\ Len(q) >= 1 /\ Len(p) = Len(q) - 1
  /\ \A k \in 1..Len(p) : p[k] = q[k + 1]

LEMMA HarmlessGrown ==
  ASSUME NEW q, NEW m, NEW p, Grown(q, m, p), NEW v, NEW k \in 0..Len(q)
  PROVE  HarmlessBehind(v, p, k) <=> HarmlessBehind(v, q, k) /\ Harmless(v, m)
<1>1. \A j \in 1..Len(p) : \/ j \in 1..Len(q) /\ p[j] = q[j]
                           \/ j = Len(q) + 1 /\ p[j] = m
  BY DEF Grown
<1>2. Len(q) + 1 \in 1..Len(p) /\ Len(q) + 1 > k /\ p[Len(q) + 1] = m
  BY DEF Grown
<1>3. \A j \in 1..Len(q) : j \in 1..Len(p) /\ p[j] = q[j]
  BY DEF Grown
<1>. QED BY <1>1, <1>2, <1>3 DEF HarmlessBehind

LEMMA HeldGrown ==
  ASSUME NEW q, NEW m, NEW p, Grown(q, m, p), NEW v, NEW sub, NEW act
  PROVE  Held(v, p, sub, act) <=> Held(v, q, sub, act) /\ Harmless(v, m)
<1>1. 0 \in 0..Len(q)
  BY DEF Grown
<1>2. HarmlessBehind(v, p, 0) <=> HarmlessBehind(v, q, 0) /\ Harmless(v, m)
  BY <1>1, HarmlessGrown
<1>. QED BY <1>2 DEF Held

LEMMA ComesGrown ==
  ASSUME NEW q, NEW m, NEW p, Grown(q, m, p), NEW v
  PROVE  /\ \A k \in 1..Len(q) : ComesAt(v, p, k) <=> ComesAt(v, q, k) /\ Harmless(v, m)
         /\ m.k = "sub" /\ (m.passive => v \in Passive) => ComesAt(v, p, Len(q) + 1)
<1>1. ASSUME NEW k \in 1..Len(q)
      PROVE  ComesAt(v, p, k) <=> ComesAt(v, q, k) /\ Harmless(v, m)
  <2>1. k \in 0..Len(q) /\ p[k] = q[k]
    BY DEF Grown
  <2>2. HarmlessBehind(v, p, k) <=> HarmlessBehind(v, q, k) /\ Harmless(v, m)
    BY <2>1, HarmlessGrown
  <2>. QED BY <2>1, <2>2 DEF ComesAt
<1>2. ASSUME m.k = "sub", m.passive => v \in Passive
      PROVE  ComesAt(v, p, Len(q) + 1)
  <2>1. \A j \in 1..Len(p) : ~ (j > Len(q) + 1)
    BY DEF Grown
  <2>. QED BY <1>2, <2>1 DEF ComesAt, HarmlessBehind, Grown
<1>. QED BY <1>1, <1>2

LEMMA EndsGrown ==
  ASSUME NEW q, NEW m, NEW p, Grown(q, m, p), NEW now, NEW all
  PROVE  /\ \A k \in 1..Len(q) + 1 : Ends(q, k, now, all) => Ends(p, k, now, all)
         /\ Turn(m, "unsub", all) => Ends(p, Len(p) + 1, now, all)
         /\ Ends(q, Len(q) + 1, now, all) /\ ~ Turn(m, "sub", all) =>
              Ends(p, Len(p) + 1, now, all)
<1>0. Len(q) \in Nat /\ Len(p) = Len(q) + 1 /\ p[Len(q) + 1] = m
  BY DEF Grown
<1>1. \A j \in 1..Len(q) : j \in 1..Len(p) /\ p[j] = q[j]
  BY DEF Grown
<1>2. ASSUME NEW k \in 1..Len(q) + 1, Ends(q, k, now, all)
      PROVE  Ends(p, k, now, all)
  <2>1. \A i \in 1..Len(p) : i < k => i \in 1..Len(q)
    BY <1>0
  <2>. QED BY <1>1, <1>2, <2>1 DEF Ends
<1>3. ASSUME Turn(m, "unsub", all)
      PROVE  Ends(p, Len(p) + 1, now, all)
  <2>1. Len(p) \in 1..Len(p) /\ Len(p) < Len(p) + 1 /\ Turn(p[Len(p)], "unsub", all)
    BY <1>0, <1>3
  <2>2. \A i \in 1..Len(p) : Turn(p[i], "sub", all) => i < Len(p)
    BY <1>0, <1>3 DEF Turn
  <2>. QED BY <2>1, <2>2 DEF Ends
<1>4. ASSUME Ends(q, Len(q) + 1, now, all), ~ Turn(m, "sub", all)
      PROVE  Ends(p, Len(p) + 1, now, all)
  <2>1. \A i \in 1..Len(p) : Turn(p[i], "sub", all) =>
          i \in 1..Len(q) /\ i < Len(q) + 1 /\ Turn(q[i], "sub", all)
    BY <1>0, <1>1, <1>4
  <2>2. \A j \in 1..Len(q) : j \in 1..Len(p) /\ j < Len(p) + 1
    BY <1>0
  <2>. QED BY <1>1, <1>4, <2>1, <2>2 DEF Ends
<1>. QED BY <1>2, <1>3, <1>4

(* A subscription that is to come is not there. *)
LEMMA ToComeIsNotHeld ==
  ASSUME NEW v, NEW q, NEW sub, NEW act, ToCome(v, q, sub, act)
  PROVE  ~ Held(v, q, sub, act)
<1>1. PICK k \in 1..Len(q) : GoneBefore(q, k, sub, act)
  BY DEF ToCome
<1>. SUFFICES ASSUME Held(v, q, sub, act) PROVE FALSE
  OBVIOUS
<1>2. \A j \in 1..Len(q) : q[j].k = "unsub" => q[j].passive /\ v \notin Passive
  BY DEF Held, HarmlessBehind, Harmless
<1>3. PICK j \in 1..Len(q) : Turn(q[j], "unsub", TRUE)
  BY <1>1 DEF GoneBefore, Ends, Held
<1>4. v \notin Passive
  BY <1>2, <1>3 DEF Turn
<1>5. PICK i \in 1..Len(q) : Turn(q[i], "unsub", FALSE)
  BY <1>1, <1>4 DEF GoneBefore, Ends, Held
<1>. QED BY <1>2, <1>5 DEF Turn

LEMMA HarmlessShrunk ==
  ASSUME NEW q, NEW p, Shrunk(q, p), NEW v
  PROVE  /\ HarmlessBehind(v, q, 0) => Harmless(v, q[1]) /\ HarmlessBehind(v, p, 0)
         /\ \A k \in 1..Len(q) : HarmlessBehind(v, q, k) => HarmlessBehind(v, p, k - 1)
<1>1. 1 \in 1..Len(q)
  BY DEF Shrunk
<1>2. \A j \in 1..Len(p) : j + 1 \in 1..Len(q) /\ j + 1 > 0 /\ p[j] = q[j + 1]
  BY DEF Shrunk
<1>3. \A j \in 1..Len(p), k \in 1..Len(q) : j > k - 1 => j + 1 > k
  BY DEF Shrunk
<1>. QED BY <1>1, <1>2, <1>3 DEF HarmlessBehind

LEMMA HeldShrunk ==
  ASSUME NEW q, NEW p, Shrunk(q, p), NEW v, NEW sub, NEW act, NEW sub2, NEW act2,
         Taken(q[1], sub, act, sub2, act2), Held(v, q, sub, act)
  PROVE  Held(v, p, sub2, act2)
<1>1. Harmless(v, q[1]) /\ HarmlessBehind(v, p, 0)
  BY HarmlessShrunk DEF Held
<1>. QED BY <1>1 DEF Held, Taken, Harmless

LEMMA ComesShrunk ==
  ASSUME NEW q, NEW p, Shrunk(q, p), NEW v, NEW sub, NEW act, NEW sub2, NEW act2,
         Taken(q[1], sub, act, sub2, act2), NEW k \in 1..Len(q), ComesAt(v, q, k)
  PROVE  /\ k = 1 => q[1].k = "sub" /\ Held(v, p, sub2, act2)
         /\ k # 1 => k - 1 \in 1..Len(p) /\ ComesAt(v, p, k - 1)
<1>1. HarmlessBehind(v, p, k - 1)
  BY HarmlessShrunk DEF ComesAt
<1>2. ASSUME k = 1 PROVE q[1].k = "sub" /\ Held(v, p, sub2, act2)
  <2>1. HarmlessBehind(v, p, 0)
    BY <1>1, <1>2
  <2>. QED BY <1>2, <2>1 DEF Held, ComesAt, Taken
<1>3. ASSUME k # 1 PROVE k - 1 \in 1..Len(p) /\ ComesAt(v, p, k - 1)
  <2>1. k - 1 \in 1..Len(p) /\ p[k - 1] = q[k]
    BY <1>3 DEF Shrunk
  <2>. QED BY <1>1, <2>1 DEF ComesAt
<1>. QED BY <1>2, <1>3

LEMMA KeptShrunk ==
  ASSUME NEW q, NEW p, Shrunk(q, p), NEW v, NEW sub, NEW act, NEW sub2, NEW act2,
         Taken(q[1], sub, act, sub2, act2), Kept(v, q, sub, act)
  PROVE  Kept(v, p, sub2, act2)
<1>1. CASE Held(v, q, sub, act)
  BY <1>1, HeldShrunk DEF Kept
<1>2. CASE \E k \in 1..Len(q) : ComesAt(v, q, k)
  <2>1. PICK k \in 1..Len(q) : ComesAt(v, q, k)
    BY <1>2
  <2>. QED BY <2>1, ComesShrunk DEF Kept
<1>. QED BY <1>1, <1>2 DEF Kept

LEMMA EndsShrunk ==
  ASSUME NEW q, NEW p, Shrunk(q, p), NEW now, NEW all, NEW now2,
         NEW k \in 2..Len(q) + 1, Ends(q, k, now, all),
         now2 => \/ Turn(q[1], "sub", all)
                 \/ \E j \in 1..Len(q) : 1 < j /\ j < k /\ Turn(q[j], "unsub", all)
  PROVE  Ends(p, k - 1, now2, all)
<1>0. 1 \in 1..Len(q) /\ 1 < k
  BY DEF Shrunk
<1>1. \A j \in 1..Len(q) : 1 < j /\ j < k =>
        j - 1 \in 1..Len(p) /\ p[j - 1] = q[j] /\ j - 1 < k - 1
  BY DEF Shrunk
<1>2. \A i \in 1..Len(p) : i < k - 1 =>
        /\ i + 1 \in 1..Len(q) /\ p[i] = q[i + 1] /\ i + 1 < k
        /\ \A j \in 1..Len(q) : i + 1 < j => 1 < j /\ i < j - 1
  BY DEF Shrunk
<1>3. now2 => \E j \in 1..Len(q) : 1 < j /\ j < k /\ Turn(q[j], "unsub", all)
  BY <1>0 DEF Ends
<1>4. now2 => \E j \in 1..Len(p) : j < k - 1 /\ Turn(p[j], "unsub", all)
  BY <1>1, <1>3
<1>5. ASSUME NEW i \in 1..Len(p), i < k - 1, Turn(p[i], "sub", all)
      PROVE  \E j \in 1..Len(p) : i < j /\ j < k - 1 /\ Turn(p[j], "unsub", all)
  <2>1. PICK j \in 1..Len(q) : i + 1 < j /\ j < k /\ Turn(q[j], "unsub", all)
    BY <1>2, <1>5 DEF Ends
  <2>. QED BY <1>1, <1>2, <1>5, <2>1
<1>. QED BY <1>4, <1>5 DEF Ends

LEMMA ActiveEndsShrunk ==
  ASSUME NEW q, NEW p, Shrunk(q, p), NEW sub, NEW act, NEW sub2, NEW act2,
         Taken(q[1], sub, act, sub2, act2), NEW k \in 2..Len(q) + 1,
         Ends(q, k, act, FALSE)
  PROVE  Ends(p, k - 1, act2, FALSE)
<1>1. CASE act2 /\ Turn(q[1], "sub", FALSE)
  BY <1>1, EndsShrunk
<1>2. CASE act2 /\ ~ Turn(q[1], "sub", FALSE)
  <2>1. act /\ ~ Turn(q[1], "unsub", FALSE)
    BY <1>2 DEF Taken, Turn
  <2>2. PICK j \in 1..Len(q) : j < k /\ Turn(q[j], "unsub", FALSE)
    BY <2>1 DEF Ends
  <2>3. 1 < j
    BY <2>1, <2>2 DEF Turn
  <2>. QED BY <2>2, <2>3, EndsShrunk
<1>3. CASE ~ act2
  BY <1>3, EndsShrunk
<1>. QED BY <1>1, <1>2, <1>3

LEMMA GoneShrunk ==
  ASSUME NEW q, NEW p, Shrunk(q, p), NEW sub, NEW act, NEW sub2, NEW act2,
         Taken(q[1], sub, act, sub2, act2), NEW k \in 2..Len(q) + 1,
         GoneBefore(q, k, sub, act)
  PROVE  GoneBefore(p, k - 1, sub2, act2)
<1>1. Ends(p, k - 1, act2, FALSE)
  BY ActiveEndsShrunk DEF GoneBefore
<1>2. Ends(p, k - 1, sub2, TRUE)
  <2>1. CASE sub2 /\ q[1].k = "sub"
    BY <2>1, EndsShrunk DEF GoneBefore, Turn
  <2>2. CASE sub2 /\ q[1].k = "unsub"
    <3>1. act /\ q[1].passive
      BY <2>2 DEF Taken
    <3>2. PICK j \in 1..Len(q) : j < k /\ Turn(q[j], "unsub", FALSE)
      BY <3>1 DEF GoneBefore, Ends
    <3>3. 1 < j /\ Turn(q[j], "unsub", TRUE)
      BY <3>1, <3>2 DEF Turn
    <3>. QED BY <3>2, <3>3, EndsShrunk DEF GoneBefore
  <2>3. CASE sub2 /\ q[1].k \notin {"sub", "unsub"}
    <3>1. sub
      BY <2>3 DEF Taken
    <3>2. PICK j \in 1..Len(q) : j < k /\ Turn(q[j], "unsub", TRUE)
      BY <3>1 DEF GoneBefore, Ends
    <3>3. 1 < j
      BY <2>3, <3>2 DEF Turn
    <3>. QED BY <3>2, <3>3, EndsShrunk DEF GoneBefore
  <2>4. CASE ~ sub2
    BY <2>4, EndsShrunk DEF GoneBefore
  <2>. QED BY <2>1, <2>2, <2>3, <2>4
<1>. QED BY <1>1, <1>2 DEF GoneBefore

LEMMA ToComeShrunk ==
  ASSUME NEW q, NEW p, Shrunk(q, p), NEW v, NEW sub, NEW act, NEW sub2, NEW act2,
         Taken(q[1], sub, act, sub2, act2), ToCome(v, q, sub, act)
  PROVE  \/ ToCome(v, p, sub2, act2)
         \/ q[1].k = "sub" /\ ~ sub /\ Held(v, p, sub2, act2)
<1>1. PICK k \in 1..Len(q) : ComesAt(v, q, k) /\ GoneBefore(q, k, sub, act)
  BY DEF ToCome
<1>2. CASE k = 1
  <2>1. ~ \E j \in 1..Len(q) : j < k
    BY <1>2
  <2>2. ~ sub
    BY <1>1, <2>1 DEF GoneBefore, Ends
  <2>. QED BY <1>1, <1>2, <2>2, ComesShrunk
<1>3. CASE k # 1
  <2>1. k \in 2..Len(q) + 1 /\ k - 1 \in 1..Len(p)
    BY <1>3 DEF Shrunk
  <2>2. ComesAt(v, p, k - 1)
    BY <1>1, <1>3, ComesShrunk
  <2>3. GoneBefore(p, k - 1, sub2, act2)
    BY <1>1, <2>1, GoneShrunk
  <2>. QED BY <2>1, <2>2, <2>3 DEF ToCome
<1>. QED BY <1>2, <1>3

(* What the views of an open window have of the subscription of their channel: with no    *)
(* view it has ended or is about to, with none that is active so has the active one; a    *)
(* view keeps what it needs unless a sibling took it, and is seeded unless it joined one. *)
Subs(vs, q, sub, act, ap, de) ==
  /\ vs = {} => Ends(q, Len(q) + 1, sub, TRUE)
  /\ vs \subseteq Passive => Ends(q, Len(q) + 1, act, FALSE)
  /\ \A v \in vs \ de : Kept(v, q, sub, act)
  /\ \A v \in vs \ (ap \union de) : ToCome(v, q, sub, act) \/ Held(v, q, sub, act)

(* A message that is no end of a subscription a view needs keeps what the view has. *)
LEMMA ViewGrown ==
  ASSUME NEW q, NEW m, NEW p, Grown(q, m, p), NEW v, NEW sub, NEW act, Harmless(v, m)
  PROVE  /\ Held(v, q, sub, act) <=> Held(v, p, sub, act)
         /\ Kept(v, q, sub, act) => Kept(v, p, sub, act)
         /\ ToCome(v, q, sub, act) => ToCome(v, p, sub, act)
<1>0. Len(q) \in Nat /\ Len(p) = Len(q) + 1
  BY DEF Grown
<1>1. Held(v, q, sub, act) <=> Held(v, p, sub, act)
  BY HeldGrown
<1>2. \A k \in 1..Len(q) : k \in 1..Len(p) /\ (ComesAt(v, q, k) => ComesAt(v, p, k))
  BY <1>0, ComesGrown
<1>3. \A k \in 1..Len(q) : GoneBefore(q, k, sub, act) => GoneBefore(p, k, sub, act)
  <2>1. ASSUME NEW k \in 1..Len(q), GoneBefore(q, k, sub, act)
        PROVE  GoneBefore(p, k, sub, act)
    <3>1. k \in 1..Len(q) + 1
      BY <1>0
    <3>2. Ends(p, k, sub, TRUE)
      BY <2>1, <3>1, EndsGrown DEF GoneBefore
    <3>3. Ends(p, k, act, FALSE)
      BY <2>1, <3>1, EndsGrown DEF GoneBefore
    <3>. QED BY <3>2, <3>3 DEF GoneBefore
  <2>. QED BY <2>1
<1>4. Kept(v, q, sub, act) => Kept(v, p, sub, act)
  BY <1>1, <1>2 DEF Kept
<1>5. ToCome(v, q, sub, act) => ToCome(v, p, sub, act)
  BY <1>2, <1>3 DEF ToCome
<1>. QED BY <1>1, <1>4, <1>5

(* Other messages change nothing. *)
LEMMA SubsQuiet ==
  ASSUME NEW q, NEW m, NEW p, Grown(q, m, p), m.k \notin {"sub", "unsub"},
         NEW vs, NEW sub, NEW act, NEW ap, NEW de, Subs(vs, q, sub, act, ap, de)
  PROVE  Subs(vs, p, sub, act, ap, de)
<1>1. \A v : Harmless(v, m)
  BY DEF Harmless
<1>2. ~ Turn(m, "sub", TRUE) /\ ~ Turn(m, "sub", FALSE)
  BY DEF Turn
<1>3. vs = {} => Ends(p, Len(p) + 1, sub, TRUE)
  BY <1>2, EndsGrown DEF Subs
<1>4. vs \subseteq Passive => Ends(p, Len(p) + 1, act, FALSE)
  BY <1>2, EndsGrown DEF Subs
<1>5. \A v \in vs \ de : Kept(v, p, sub, act)
  BY <1>1, ViewGrown DEF Subs
<1>6. \A v \in vs \ (ap \union de) : ToCome(v, p, sub, act) \/ Held(v, p, sub, act)
  BY <1>1, ViewGrown DEF Subs
<1>. QED BY <1>3, <1>4, <1>5, <1>6 DEF Subs

(* With no subscription on the way a view has what it keeps. *)
LEMMA KeptIsHeld ==
  ASSUME NEW q, NEW v, NEW sub, NEW act, \A k \in 1..Len(q) : q[k].k # "sub"
  PROVE  /\ Kept(v, q, sub, act) <=> Held(v, q, sub, act)
         /\ ~ ToCome(v, q, sub, act)
  BY DEF Kept, ToCome, ComesAt

(* So that those which were apart no longer are. *)
LEMMA SubsHeard ==
  ASSUME NEW vs, NEW q, NEW sub, NEW act, NEW ap, NEW de, Subs(vs, q, sub, act, ap, de),
         \A k \in 1..Len(q) : q[k].k # "sub", NEW ap2
  PROVE  Subs(vs, q, sub, act, ap2, de)
<1>1. \A v \in vs \ de : Held(v, q, sub, act)
  BY KeptIsHeld DEF Subs
<1>. QED BY <1>1 DEF Subs

(* A view that joins: the first is to be seeded, the others count as apart. *)
LEMMA SubsJoined ==
  ASSUME NEW q, NEW m, NEW p, Grown(q, m, p), NEW u,
         m.k = "sub", m.passive <=> u \in Passive,
         NEW vs, NEW sub, NEW act, NEW ap, NEW de, Subs(vs, q, sub, act, ap, de),
         u \notin vs
  PROVE  /\ Subs(vs \union {u}, p, sub, act,
                 IF vs = {} THEN ap \ {u} ELSE ap \union {u}, de \ {u})
         /\ vs = {} => ToCome(u, p, sub, act)
<1> DEFINE ws == vs \union {u}
           ap2 == IF vs = {} THEN ap \ {u} ELSE ap \union {u}
           de2 == de \ {u}
<1>0. Len(q) \in Nat /\ Len(p) = Len(q) + 1
  BY DEF Grown
<1>1. \A v : Harmless(v, m)
  BY DEF Harmless
<1>2. ComesAt(u, p, Len(q) + 1)
  BY ComesGrown
<1>3. Kept(u, p, sub, act)
  BY <1>0, <1>2 DEF Kept
<1>4. ASSUME vs = {} PROVE ToCome(u, p, sub, act)
  <2>1. Ends(q, Len(q) + 1, sub, TRUE) /\ Ends(q, Len(q) + 1, act, FALSE)
    BY <1>4 DEF Subs
  <2>2. Len(q) + 1 \in 1..Len(q) + 1
    BY <1>0
  <2>3. Ends(p, Len(q) + 1, sub, TRUE) /\ Ends(p, Len(q) + 1, act, FALSE)
    BY <2>1, <2>2, EndsGrown
  <2>4. Len(q) + 1 \in 1..Len(p)
    BY <1>0
  <2>. QED BY <1>2, <2>3, <2>4 DEF ToCome, GoneBefore
<1>5. ws \subseteq Passive => Ends(p, Len(p) + 1, act, FALSE)
  <2>1. ASSUME ws \subseteq Passive PROVE Ends(p, Len(p) + 1, act, FALSE)
    <3>1. vs \subseteq Passive /\ ~ Turn(m, "sub", FALSE)
      BY <2>1 DEF Turn
    <3>. QED BY <3>1, EndsGrown DEF Subs
  <2>. QED BY <2>1
<1>6. \A v \in ws \ de2 : Kept(v, p, sub, act)
  BY <1>1, <1>3, ViewGrown DEF Subs
<1>7. \A v \in ws \ (ap2 \union de2) : ToCome(v, p, sub, act) \/ Held(v, p, sub, act)
  <2> TAKE v \in ws \ (ap2 \union de2)
  <2>1. CASE v = u
    BY <1>4, <2>1
  <2>2. CASE v # u
    <3>1. v \in vs \ (ap \union de)
      BY <2>2
    <3>. QED BY <1>1, <3>1, ViewGrown DEF Subs
  <2>. QED BY <2>1, <2>2
<1> HIDE DEF ap2, de2
<1>8. ws # {}
  OBVIOUS
<1> HIDE DEF ws
<1>. QED BY <1>4, <1>5, <1>6, <1>7, <1>8 DEF Subs, ws, ap2, de2

(* A view that leaves takes the subscription, unless it observes and others do not. *)
LEMMA SubsParted ==
  ASSUME NEW q, NEW m, NEW p, Grown(q, m, p), NEW u,
         m.k = "unsub", m.passive <=> u \in Passive,
         NEW vs, NEW sub, NEW act, NEW ap, NEW de, Subs(vs, q, sub, act, ap, de),
         NEW de2, de2 = de \union {x \in vs \ {u} : u \in Passive => x \in Passive}
  PROVE  Subs(vs \ {u}, p, sub, act, ap, de2)
<1> DEFINE ws == vs \ {u}
<1>1. Ends(p, Len(p) + 1, sub, TRUE)
  <2>1. Turn(m, "unsub", TRUE)
    BY DEF Turn
  <2>. QED BY <2>1, EndsGrown
<1>2. ASSUME ws \subseteq Passive PROVE Ends(p, Len(p) + 1, act, FALSE)
  <2>1. CASE u \notin Passive
    <3>1. Turn(m, "unsub", FALSE)
      BY <2>1 DEF Turn
    <3>. QED BY <3>1, EndsGrown
  <2>2. CASE u \in Passive
    <3>1. vs \subseteq Passive /\ ~ Turn(m, "sub", FALSE)
      BY <1>2, <2>2 DEF Turn
    <3>. QED BY <3>1, EndsGrown DEF Subs
  <2>. QED BY <2>1, <2>2
<1>3. \A v \in ws \ de2 : v \in vs \ de /\ Harmless(v, m)
  BY DEF Harmless
<1>4. \A v \in ws \ de2 : Kept(v, p, sub, act)
  BY <1>3, ViewGrown DEF Subs
<1>5. \A v \in ws \ (ap \union de2) : ToCome(v, p, sub, act) \/ Held(v, p, sub, act)
  <2> TAKE v \in ws \ (ap \union de2)
  <2>1. Harmless(v, m) /\ v \in vs \ (ap \union de)
    BY <1>3
  <2>. QED BY <2>1, ViewGrown DEF Subs
<1> HIDE DEF ws
<1>. QED BY <1>1, <1>2, <1>4, <1>5 DEF Subs, ws

(* The first message is taken. *)
LEMMA SubsTaken ==
  ASSUME NEW q, NEW p, Shrunk(q, p), NEW sub, NEW act, NEW sub2, NEW act2,
         Taken(q[1], sub, act, sub2, act2),
         NEW vs, NEW ap, NEW de, Subs(vs, q, sub, act, ap, de)
  PROVE  Subs(vs, p, sub2, act2, ap, de)
<1>0. Len(q) + 1 \in 2..Len(q) + 1 /\ (Len(q) + 1) - 1 = Len(p) + 1
  BY DEF Shrunk
<1>1. vs \subseteq Passive => Ends(p, Len(p) + 1, act2, FALSE)
  BY <1>0, ActiveEndsShrunk DEF Subs
<1>2. ASSUME vs = {} PROVE Ends(p, Len(p) + 1, sub2, TRUE)
  <2>1. GoneBefore(q, Len(q) + 1, sub, act)
    BY <1>2 DEF Subs, GoneBefore
  <2>2. GoneBefore(p, (Len(q) + 1) - 1, sub2, act2)
    BY <1>0, <2>1, GoneShrunk
  <2>. QED BY <1>0, <2>2 DEF GoneBefore
<1>3. \A v \in vs \ de : Kept(v, p, sub2, act2)
  BY KeptShrunk DEF Subs
<1>4. \A v \in vs \ (ap \union de) : ToCome(v, p, sub2, act2) \/ Held(v, p, sub2, act2)
  BY ToComeShrunk, HeldShrunk DEF Subs
<1>. QED BY <1>1, <1>2, <1>3, <1>4 DEF Subs

(* What a message of a channel does to the subscriptions, the field and the updates. *)
Handled(s, c, m, t) ==
  /\ t.state = IF m.k = "set" THEN m.value ELSE s.state
  /\ \A w \in Windows : w # c =>
       /\ w \in t.subscribers <=> w \in s.subscribers
       /\ w \in t.activeSubscribers <=> w \in s.activeSubscribers
       /\ t.out[w] = IF m.k = "set" /\ w \in s.subscribers
                       THEN Append(s.out[w], Patch(m.value)) ELSE s.out[w]
  /\ m.k # "close" =>
       Taken(m, c \in s.subscribers, c \in s.activeSubscribers,
             c \in t.subscribers, c \in t.activeSubscribers)
  /\ m.k = "sub" =>
       t.out[c] = IF c \in s.subscribers THEN s.out[c]
                  ELSE Append(s.out[c], Patch(s.state))
  /\ m.k = "unsub" => t.out[c] = s.out[c]
  /\ m.k = "close" => c \notin t.subscribers
  /\ m.k \notin {"sub", "unsub", "close"} =>
       \/ t.out[c] = s.out[c]
       \/ \E x \in Downlink : x.k # "state" /\ t.out[c] = Append(s.out[c], x)

(* Every message does that. *)
LEMMA DispatchedEffect ==
  ASSUME NEW s \in Server, NEW c \in Windows, NEW m \in Uplink
  PROVE  Handled(s, c, m, Dispatched(s, c, m))
<1> DEFINE t == Dispatched(s, c, m)
<1>1. CASE m.k = "sub"
  <2>1. m.passive \in BOOLEAN /\ t = Subscribed(s, c, m.passive)
    BY <1>1, Messages DEF Dispatched
  <2> HIDE DEF t
  <2>2. SubscriptionTaken(s, c, m.passive, t)
    BY <2>1, SubscribedEffect
  <2>3. /\ t.state = s.state /\ t.subscribers = s.subscribers \union {c}
        /\ t.activeSubscribers = IF m.passive THEN s.activeSubscribers
                                 ELSE s.activeSubscribers \union {c}
        /\ \A w \in Windows :
             t.out[w] = IF w = c /\ c \notin s.subscribers
                          THEN Append(s.out[w], Patch(s.state)) ELSE s.out[w]
    BY ONLY <2>2 DEF SubscriptionTaken
  <2> QED
    BY <1>1, <2>1, <2>3 DEF Handled, Taken, t
<1>2. CASE m.k = "unsub"
  <2>1. m.passive \in BOOLEAN /\ t = Unsubscribed(s, c, m.passive)
    BY <1>2, Messages DEF Dispatched
  <2> HIDE DEF t
  <2>2. SubscriptionLeft(s, c, m.passive, t)
    BY <2>1, UnsubscribedEffect
  <2>3. /\ t.state = s.state
        /\ t.subscribers = IF m.passive /\ c \in s.activeSubscribers THEN s.subscribers
                           ELSE s.subscribers \ {c}
        /\ t.activeSubscribers =
             IF m.passive /\ c \in s.activeSubscribers THEN s.activeSubscribers
             ELSE s.activeSubscribers \ {c}
        /\ t.out = s.out
    BY ONLY <2>2 DEF SubscriptionLeft
  <2> QED
    BY <1>2, <2>1, <2>3 DEF Handled, Taken, t
<1>3. CASE m.k = "set"
  <2> DEFINE u == [s EXCEPT !.state = m.value]
             ws == s.subscribers \ {c}
  <2>1. m.value \in Values /\ Patch(m.value) \in Downlink
    BY <1>3, Messages
  <2>2. /\ u \in Server /\ u.state = m.value /\ u.subscribers = s.subscribers
        /\ u.activeSubscribers = s.activeSubscribers /\ u.out = s.out
    BY <2>1 DEF Server
  <2>3. t = Post(u, ws, Patch(m.value))
    BY <1>3 DEF Dispatched
  <2>4. \A w \in Windows : w \in ws <=> w \in s.subscribers /\ w # c
    OBVIOUS
  <2> HIDE DEF u, ws, t
  <2>5. /\ t.state = u.state /\ t.subscribers = u.subscribers
        /\ t.activeSubscribers = u.activeSubscribers
        /\ \A w \in Windows : t.out[w] = IF w \in ws THEN Append(u.out[w], Patch(m.value))
                                         ELSE u.out[w]
    BY ONLY <2>1, <2>2, <2>3, PostEffect
  <2> QED
    BY <1>3, <2>2, <2>4, <2>5 DEF Handled, Taken, t
<1>4. CASE m.k = "finterest"
  <2>1. t = Interested(s, c)
    BY <1>4 DEF Dispatched
  <2>2. s.frameCache \in FrameIds /\ FrameMessage(s.frameCache) \in Downlink
        /\ FrameMessage(s.frameCache).k # "state"
    BY Messages DEF Server
  <2> HIDE DEF t
  <2>3. /\ t.state = s.state /\ t.subscribers = s.subscribers
        /\ t.activeSubscribers = s.activeSubscribers
        /\ \A w \in Windows :
             LET sent == w = c /\ s.frameCache # 0 IN
             t.out[w] = IF sent /\ w \notin s.frameInflight
                          THEN Append(s.out[w], FrameMessage(s.frameCache)) ELSE s.out[w]
    <3>1. InterestTaken(s, c, t)
      BY <2>1, InterestedEffect
    <3> QED
      BY ONLY <3>1 DEF InterestTaken
  <2> QED
    BY <1>4, <2>2, <2>3 DEF Handled, Taken, t
<1>5. CASE m.k = "fack"
  <2> DEFINE f == s.framePending[c]
  <2>1. t = FrameAck(s, c)
    BY <1>5 DEF Dispatched
  <2>2. f \in FrameIds /\ FrameMessage(f) \in Downlink /\ FrameMessage(f).k # "state"
    BY Messages DEF Server
  <2> HIDE DEF t
  <2>3. /\ t.state = s.state /\ t.subscribers = s.subscribers
        /\ t.activeSubscribers = s.activeSubscribers
        /\ \A w \in Windows :
             t.out[w] = IF w = c /\ f # 0 THEN Append(s.out[w], FrameMessage(f))
                        ELSE s.out[w]
    <3>1. AckTaken(s, c, t)
      BY <2>1, FrameAckEffect
    <3> QED
      BY ONLY <3>1 DEF AckTaken
  <2> HIDE DEF f
  <2> QED
    BY <1>5, <2>2, <2>3 DEF Handled, Taken, t
<1>6. CASE m.k = "req"
  <2>1. t = [s EXCEPT !.running = @ \union {<<c, m.id>>}]
    BY <1>6 DEF Dispatched
  <2>2. /\ t.state = s.state /\ t.subscribers = s.subscribers
        /\ t.activeSubscribers = s.activeSubscribers /\ t.out = s.out
    BY <2>1 DEF Server
  <2> HIDE DEF t
  <2> QED
    BY <1>6, <2>2 DEF Handled, Taken, t
<1>7. CASE m.k = "close"
  <2>1. t = Detached(s, c)
    BY <1>7 DEF Dispatched
  <2> HIDE DEF t
  <2>2. /\ t.state = s.state /\ t.subscribers = s.subscribers \ {c}
        /\ t.activeSubscribers = s.activeSubscribers \ {c}
        /\ \A w \in Windows : t.out[w] = IF w = c THEN <<>> ELSE s.out[w]
    BY ONLY <2>1, s \in Server, c \in Windows, DetachedEffect
  <2> QED
    BY <1>7, <2>2 DEF Handled, Taken, t
<1> QED
  BY <1>1, <1>2, <1>3, <1>4, <1>5, <1>6, <1>7, Messages

(* What a view sends when it comes and goes. *)
LEMMA SubscriptionParts ==
  ASSUME NEW v \in Views, NEW k \in {"sub", "unsub"}
  PROVE  /\ Subscription(k, v) \in Uplink /\ Subscription(k, v).k = k
         /\ Subscription(k, v).passive <=> v \in Passive
<1>1. (v \in Passive) \in BOOLEAN
  OBVIOUS
<1>2. Subscription(k, v) \in [k : {"sub", "unsub"}, passive : BOOLEAN]
  BY <1>1 DEF Subscription
<1> QED
  BY <1>2 DEF Subscription, Uplink

(* The updates on the way end with the session's value, and no write crosses them. *)
Coming(up, out, state) ==
  Has(out, "state") => ~ Has(up, "set") /\ LastIs(out, "state", state)

(* What a view that has its subscription shows is explained. *)
Tells(v, up, out, sub, act, value, state) ==
  Held(v, up, sub, act) => Explained(up, out, value, state)

(* An append and a tail are what grows and what shrinks. *)
LEMMA GrowsAndShrinks ==
  ASSUME NEW M, NEW q \in Seq(M)
  PROVE  /\ \A m \in M : Grown(q, m, Append(q, m))
         /\ q # <<>> => Shrunk(q, Tail(q)) /\ Head(q) = q[1]
  BY AppendParts, TailParts DEF Grown, Shrunk

(* Messages that neither write nor update tell nothing. *)
LEMMA OtherMessages ==
  ASSUME NEW up \in Seq(Uplink), NEW out \in Seq(Downlink), NEW state
  PROVE  /\ \A m \in Uplink : m.k # "set" =>
              /\ Coming(up, out, state) => Coming(Append(up, m), out, state)
              /\ \A v, sub, act, value : Tells(v, up, out, sub, act, value, state) =>
                   Tells(v, Append(up, m), out, sub, act, value, state)
         /\ \A m \in Downlink : m.k # "state" =>
              /\ Coming(up, out, state) => Coming(up, Append(out, m), state)
              /\ \A v, sub, act, value : Tells(v, up, out, sub, act, value, state) =>
                   Tells(v, up, Append(out, m), sub, act, value, state)
<1>1. ASSUME NEW m \in Uplink, m.k # "set"
      PROVE  /\ Coming(up, out, state) => Coming(Append(up, m), out, state)
             /\ \A v, sub, act, value : Tells(v, up, out, sub, act, value, state) =>
                  Tells(v, Append(up, m), out, sub, act, value, state)
  <2>1. Has(Append(up, m), "set") <=> Has(up, "set")
    BY <1>1, HasAppend
  <2>2. Coming(up, out, state) => Coming(Append(up, m), out, state)
    BY <2>1 DEF Coming
  <2>3. ASSUME NEW v, NEW sub, NEW act, NEW value,
               Tells(v, up, out, sub, act, value, state)
        PROVE  Tells(v, Append(up, m), out, sub, act, value, state)
    <3>1. Held(v, Append(up, m), sub, act) => Held(v, up, sub, act)
      BY GrowsAndShrinks, HeldGrown
    <3>. QED BY <1>1, <2>3, <3>1, ExplainedOther DEF Tells
  <2>. QED BY <2>2, <2>3
<1>2. ASSUME NEW m \in Downlink, m.k # "state"
      PROVE  /\ Coming(up, out, state) => Coming(up, Append(out, m), state)
             /\ \A v, sub, act, value : Tells(v, up, out, sub, act, value, state) =>
                  Tells(v, up, Append(out, m), sub, act, value, state)
  <2>1. Has(Append(out, m), "state") <=> Has(out, "state")
    BY <1>2, HasAppend
  <2>2. LastIs(out, "state", state) => LastIs(Append(out, m), "state", state)
    BY <1>2, LastAppend
  <2>3. Coming(up, out, state) => Coming(up, Append(out, m), state)
    BY <2>1, <2>2 DEF Coming
  <2>. QED BY <1>2, <2>3, ExplainedOther DEF Tells
<1>. QED BY <1>1, <1>2

(* The first message that arrives, if it is neither. *)
LEMMA OtherArrivals ==
  ASSUME NEW up \in Seq(Uplink), NEW out \in Seq(Downlink), NEW state
  PROVE  /\ up # <<>> /\ Coming(up, out, state) => Coming(Tail(up), out, state)
         /\ out # <<>> /\ Coming(up, out, state) => Coming(up, Tail(out), state)
         /\ out # <<>> /\ Head(out).k # "state" =>
              \A v, sub, act, value : Tells(v, up, out, sub, act, value, state) =>
                Tells(v, up, Tail(out), sub, act, value, state)
<1>1. ASSUME up # <<>>, Coming(up, out, state)
      PROVE  Coming(Tail(up), out, state)
  BY <1>1, HasTail DEF Coming
<1>2. ASSUME out # <<>>, Coming(up, out, state)
      PROVE  Coming(up, Tail(out), state)
  <2>1. Has(Tail(out), "state") => Has(out, "state")
    BY <1>2, HasTail
  <2>2. LastIs(out, "state", state) /\ Has(Tail(out), "state") =>
          LastIs(Tail(out), "state", state)
    BY <1>2, LastTail
  <2>. QED BY <1>2, <2>1, <2>2 DEF Coming
<1>3. ASSUME out # <<>>, Head(out).k # "state", NEW v, NEW sub, NEW act, NEW value,
             Tells(v, up, out, sub, act, value, state)
      PROVE  Tells(v, up, Tail(out), sub, act, value, state)
  BY <1>3, ExplainedOther DEF Tells
<1>. QED BY <1>1, <1>2, <1>3

(* An update that is sent where no write is on its way. *)
LEMMA UpdateSent ==
  ASSUME NEW up \in Seq(Uplink), NEW out \in Seq(Downlink), NEW x \in Values,
         ~ Has(up, "set")
  PROVE  /\ Coming(up, Append(out, Patch(x)), x)
         /\ \A v, sub, act, value : Tells(v, up, Append(out, Patch(x)), sub, act, value, x)
<1> DEFINE m == Patch(x)
<1>1. m \in Downlink /\ m.k = "state" /\ m.value = x
  BY Messages
<1>2. \A value : Explained(up, Append(out, m), value, x)
  BY ExplainedUpdate
<1> HIDE DEF m
<1>3. LastIs(Append(out, m), "state", x)
  BY <1>1, LastAppend
<1>. QED BY <1>2, <1>3 DEF Coming, Tells, m

(* An update that arrives is what the session has, if it is the last, or another follows. *)
LEMMA UpdateArrives ==
  ASSUME NEW up \in Seq(Uplink), NEW out \in Seq(Downlink), NEW state,
         Coming(up, out, state), out # <<>>, Head(out).k = "state"
  PROVE  Explained(up, Tail(out), Head(out).value, state)
<1>1. Has(out, "state")
  BY HasTail
<1>2. ~ Has(up, "set") /\ LastIs(out, "state", state)
  BY <1>1 DEF Coming
<1>. QED BY <1>2, LastTail DEF Explained

(* What is subscribed is all that counts, and which of the views of the window are apart. *)
LEMMA SubsSame ==
  ASSUME NEW vs, NEW q, NEW sub, NEW act, NEW ap, NEW de, Subs(vs, q, sub, act, ap, de),
         NEW sub2, NEW act2, sub2 <=> sub, act2 <=> act, NEW ap2, NEW de2,
         \A v \in vs : (v \in de <=> v \in de2) /\ (v \in ap => v \in ap2)
  PROVE  Subs(vs, q, sub2, act2, ap2, de2)
<1>1. \A k, all : Ends(q, k, sub, all) => Ends(q, k, sub2, all)
  BY DEF Ends
<1>2. \A k, all : Ends(q, k, act, all) => Ends(q, k, act2, all)
  BY DEF Ends
<1>3. \A v : Held(v, q, sub, act) => Held(v, q, sub2, act2)
  BY DEF Held
<1>4. \A v : Kept(v, q, sub, act) => Kept(v, q, sub2, act2)
  BY <1>3 DEF Kept
<1>5. \A v : ToCome(v, q, sub, act) => ToCome(v, q, sub2, act2)
  BY <1>1, <1>2 DEF ToCome, GoneBefore
<1>. QED BY <1>1, <1>2, <1>3, <1>4, <1>5 DEF Subs

LEMMA TellsSame ==
  ASSUME NEW v, NEW up, NEW out, NEW sub, NEW act, NEW value, NEW state,
         Tells(v, up, out, sub, act, value, state),
         NEW sub2, NEW act2, sub2 <=> sub, act2 <=> act
  PROVE  Tells(v, up, out, sub2, act2, value, state)
  BY DEF Tells, Held

(* A view joins or leaves only as long as its window is open, and what it has of the   *)
(* subscription is accounted for.                                                       *)
WindowSubs(w) ==
  /\ w \notin client.open => ViewsOf(w) = {}
  /\ w \in client.open =>
       /\ ~ Has(client.up[w], "close")
       /\ Subs(ViewsOf(w), client.up[w], w \in server.subscribers,
               w \in server.activeSubscribers, apart, deserted)

(* Unless a write has crossed an update, the updates on the way to a window are those it *)
(* lacks, and what its views show is explained.                                          *)
WindowTold(w) ==
  w \notin overtaken =>
    /\ w \in server.subscribers => Coming(client.up[w], server.out[w], server.state)
    /\ \A v \in ViewsOf(w) \ (apart \union deserted) :
         Tells(v, client.up[w], server.out[w], w \in server.subscribers,
               w \in server.activeSubscribers, client.value[v], server.state)

WindowKnown(w) == WindowSubs(w) /\ WindowTold(w)

(* The channels of a window, and its views. *)
LEMMA WindowParts ==
  ASSUME TypesInv, NEW w \in Windows
  PROVE  /\ client.up[w] \in Seq(Uplink) /\ server.out[w] \in Seq(Downlink)
         /\ server.state \in Values
         /\ \A v \in ViewsOf(w) : v \in Views /\ WindowOf[v] = w /\ v \in client.mounted
         /\ \A v \in client.mounted : WindowOf[v] = w => v \in ViewsOf(w)
  BY DEF TypesInv, WireTypeOK, Client, Server, ViewsOf

(* The subscriptions of a window that a step leaves alone. *)
LEMMA SubsPass ==
  ASSUME NEW w \in Windows, TypesInv, WindowSubs(w),
         w \in client'.open <=> w \in client.open, ViewsOf(w)' = ViewsOf(w),
         w \in server'.subscribers <=> w \in server.subscribers,
         w \in server'.activeSubscribers <=> w \in server.activeSubscribers,
         \A v \in ViewsOf(w) : v \in deserted' <=> v \in deserted,
         \/ \A v \in ViewsOf(w) : v \in apart => v \in apart'
         \/ \A k \in 1..Len(client.up[w]) : client.up[w][k].k # "sub",
         \/ client'.up[w] = client.up[w]
         \/ \E m \in Uplink : /\ m.k \notin {"sub", "unsub", "close"}
                              /\ client'.up[w] = Append(client.up[w], m)
  PROVE  WindowSubs(w)'
<1> DEFINE vs == ViewsOf(w)
           q == client.up[w]
           p == client'.up[w]
           sub == w \in server.subscribers
           act == w \in server.activeSubscribers
           sub2 == w \in server'.subscribers
           act2 == w \in server'.activeSubscribers
<1>1. w \notin client'.open => ViewsOf(w)' = {}
  BY DEF WindowSubs
<1>2. ASSUME w \in client.open
      PROVE  ~ Has(q, "close") /\ Subs(vs, q, sub, act, apart', deserted')
  <2>1. ~ Has(q, "close") /\ Subs(vs, q, sub, act, apart, deserted)
    BY <1>2 DEF WindowSubs
  <2>2. \A v \in vs : v \in deserted <=> v \in deserted'
    OBVIOUS
  <2>3. CASE \A v \in vs : v \in apart => v \in apart'
    <3> HIDE DEF vs, q, sub, act
    <3>. QED BY ONLY <2>1, <2>2, <2>3, SubsSame
  <2>4. CASE \A k \in 1..Len(q) : q[k].k # "sub"
    <3> HIDE DEF vs, q, sub, act
    <3>1. Subs(vs, q, sub, act, apart', deserted)
      BY ONLY <2>1, <2>4, SubsHeard
    <3>2. Subs(vs, q, sub, act, apart', deserted')
      BY ONLY <2>2, <3>1, SubsSame
    <3>. QED BY <2>1, <3>2
  <2>. QED BY <2>3, <2>4
<1>3. ASSUME w \in client.open
      PROVE  ~ Has(p, "close") /\ Subs(vs, p, sub, act, apart', deserted')
  <2>0. /\ ~ Has(q, "close")
        /\ Subs(vs, q, sub, act, apart', deserted') /\ q \in Seq(Uplink)
    BY <1>2, <1>3, WindowParts
  <2>1. CASE p = q
    BY <2>0, <2>1
  <2>2. ASSUME NEW m \in Uplink, m.k \notin {"sub", "unsub", "close"}, p = Append(q, m)
        PROVE  ~ Has(p, "close") /\ Subs(vs, p, sub, act, apart', deserted')
    <3> HIDE DEF vs, q, p, sub, act
    <3>1. ~ Has(p, "close")
      BY <2>0, <2>2, HasAppend
    <3>2. Grown(q, m, p)
      BY <2>0, <2>2, GrowsAndShrinks
    <3>3. Subs(vs, p, sub, act, apart', deserted')
      BY <2>0, <2>2, <3>2, SubsQuiet
    <3>. QED BY <3>1, <3>3
  <2>. QED BY <2>1, <2>2
<1>4. ASSUME Subs(vs, p, sub, act, apart', deserted')
      PROVE  Subs(vs, p, sub2, act2, apart', deserted')
  <2>0. (sub2 <=> sub) /\ (act2 <=> act)
    OBVIOUS
  <2> HIDE DEF vs, p, sub, act, sub2, act2
  <2>. QED BY ONLY <1>4, <2>0, SubsSame
<1>. QED BY <1>1, <1>3, <1>4 DEF WindowSubs

(* What a window is told, if a step sends it no update and nobody there writes. *)
LEMMA ToldPass ==
  ASSUME NEW w \in Windows, TypesInv, WindowTold(w),
         ViewsOf(w)' = ViewsOf(w), server'.state = server.state,
         w \in server'.subscribers <=> w \in server.subscribers,
         w \in server'.activeSubscribers <=> w \in server.activeSubscribers,
         \A v \in ViewsOf(w) : /\ v \in deserted' <=> v \in deserted
                               /\ v \in apart => v \in apart'
                               /\ client'.value[v] = client.value[v],
         w \notin overtaken' => w \notin overtaken,
         \/ client'.up[w] = client.up[w]
         \/ \E m \in Uplink : m.k # "set" /\ client'.up[w] = Append(client.up[w], m),
         \/ server'.out[w] = server.out[w]
         \/ \E m \in Downlink : m.k # "state" /\ server'.out[w] = Append(server.out[w], m)
  PROVE  WindowTold(w)'
<1> DEFINE vs == ViewsOf(w)
           q == client.up[w]
           p == client'.up[w]
           o == server.out[w]
           n == server'.out[w]
           state == server.state
           sub == w \in server.subscribers
           act == w \in server.activeSubscribers
           sub2 == w \in server'.subscribers
           act2 == w \in server'.activeSubscribers
<1>1. q \in Seq(Uplink) /\ o \in Seq(Downlink)
  BY WindowParts
<1>2. /\ Coming(q, o, state) => Coming(p, o, state)
      /\ \A v, value : Tells(v, q, o, sub, act, value, state) =>
           Tells(v, p, o, sub, act, value, state)
      /\ p \in Seq(Uplink)
  <2>1. p = q \/ \E m \in Uplink : m.k # "set" /\ p = Append(q, m)
    OBVIOUS
  <2> HIDE DEF q, p, o, state, sub, act
  <2>2. CASE p = q
    BY <1>1, <2>2
  <2>3. ASSUME NEW m \in Uplink, m.k # "set", p = Append(q, m)
        PROVE  /\ Coming(q, o, state) => Coming(p, o, state)
               /\ \A v, value : Tells(v, q, o, sub, act, value, state) =>
                    Tells(v, p, o, sub, act, value, state)
               /\ p \in Seq(Uplink)
    <3>1. Append(q, m) \in Seq(Uplink)
      BY <1>1, <2>3
    <3>2. /\ Coming(q, o, state) => Coming(Append(q, m), o, state)
          /\ \A v, s, a, value : Tells(v, q, o, s, a, value, state) =>
               Tells(v, Append(q, m), o, s, a, value, state)
      BY ONLY <1>1, <2>3, OtherMessages
    <3>. QED BY <2>3, <3>1, <3>2
  <2>. QED BY <2>1, <2>2, <2>3
<1>3. /\ Coming(p, o, state) => Coming(p, n, state)
      /\ \A v, value : Tells(v, p, o, sub, act, value, state) =>
           Tells(v, p, n, sub, act, value, state)
  <2>1. n = o \/ \E m \in Downlink : m.k # "state" /\ n = Append(o, m)
    OBVIOUS
  <2> HIDE DEF q, p, o, n, state, sub, act
  <2>. QED BY <1>1, <1>2, <2>1, OtherMessages
<1>4. ASSUME NEW v, NEW value, Tells(v, p, n, sub, act, value, state)
      PROVE  Tells(v, p, n, sub2, act2, value, state)
  <2>0. (sub2 <=> sub) /\ (act2 <=> act)
    OBVIOUS
  <2> HIDE DEF p, n, state, sub, act, sub2, act2
  <2>. QED BY ONLY <1>4, <2>0, TellsSame
<1>5. ASSUME w \notin overtaken', sub2
      PROVE  Coming(p, n, state)
  BY <1>2, <1>3, <1>5 DEF WindowTold
<1>6. ASSUME w \notin overtaken', NEW v \in vs \ (apart' \union deserted')
      PROVE  Tells(v, p, n, sub2, act2, client'.value[v], state)
  <2>1. v \in vs \ (apart \union deserted) /\ client'.value[v] = client.value[v]
    BY <1>6
  <2>2. Tells(v, q, o, sub, act, client.value[v], state)
    BY <1>6, <2>1 DEF WindowTold
  <2>3. Tells(v, p, n, sub, act, client.value[v], state)
    BY <1>2, <1>3, <2>2
  <2>4. Tells(v, p, n, sub2, act2, client.value[v], state)
    BY <1>4, <2>3
  <2>. QED BY <2>1, <2>4
<1>. QED BY <1>5, <1>6 DEF WindowTold

(* What the history remembers of a step that may send updates. *)
LEMMA UpdatesNoted ==
  ASSUME NEW w \in Windows, NoteUpdates, server.out[w] \in Seq(Downlink),
         w \notin overtaken'
  PROVE  /\ server'.out[w] = server.out[w] => w \notin overtaken
         /\ \A m \in Downlink : server'.out[w] = Append(server.out[w], m) =>
              /\ m.k = "state" => ~ Has(client'.up[w], "set")
              /\ m.k # "state" => w \notin overtaken
<1>1. IF Updated(w) THEN ~ Writing(w) ELSE w \notin overtaken
  BY DEF NoteUpdates
<1>2. Len(server.out[w]) \in Nat
  OBVIOUS
<1>3. ASSUME server'.out[w] = server.out[w]
      PROVE  w \notin overtaken
  BY <1>1, <1>2, <1>3 DEF Updated
<1>4. ASSUME NEW m \in Downlink, server'.out[w] = Append(server.out[w], m)
      PROVE  Updated(w) <=> m.k = "state"
  <2>1. /\ Len(server'.out[w]) = Len(server.out[w]) + 1
        /\ server'.out[w][Len(server.out[w]) + 1] = m
    BY <1>4, AppendParts
  <2>2. Last(server'.out[w]) = m
    BY <2>1 DEF Last
  <2> QED
    BY <1>2, <2>1, <2>2 DEF Updated
<1>5. ~ Writing(w) => ~ Has(client'.up[w], "set")
  BY DEF Writing, Has
<1> QED
  BY <1>1, <1>3, <1>4, <1>5

(* The session's value changes: subscribers are sent it. *)
LEMMA ToldUpdate ==
  ASSUME NEW w \in Windows, TypesInv, NoteUpdates, server'.state \in Values,
         w \in server'.subscribers <=> w \in server.subscribers,
         client'.up[w] = client.up[w],
         server'.out[w] = IF w \in server.subscribers
                            THEN Append(server.out[w], Patch(server'.state))
                            ELSE server.out[w]
  PROVE  WindowTold(w)'
<1> DEFINE q == client.up[w]
           o == server.out[w]
           n == server'.out[w]
           x == server'.state
           sub2 == w \in server'.subscribers
           act2 == w \in server'.activeSubscribers
<1>1. q \in Seq(Uplink) /\ o \in Seq(Downlink) /\ x \in Values
  BY WindowParts
<1>2. CASE w \notin server.subscribers
  BY <1>2 DEF WindowTold, Tells, Held
<1>3. CASE w \in server.subscribers
  <2>. SUFFICES ASSUME w \notin overtaken'
                PROVE  /\ Coming(q, n, x)
                       /\ \A v, value : Tells(v, q, n, sub2, act2, value, x)
    BY DEF WindowTold
  <2>1. n = Append(o, Patch(x)) /\ Patch(x) \in Downlink /\ Patch(x).k = "state"
    BY <1>1, <1>3, Messages
  <2>2. ~ Has(q, "set")
    BY <1>1, <2>1, UpdatesNoted
  <2>. HIDE DEF q, o, n, x, sub2, act2
  <2>. QED BY <1>1, <2>1, <2>2, UpdateSent
<1>. QED BY <1>2, <1>3

(* What arrives of a window leaves its views what they have of the subscription. *)
LEMMA SubsReceived ==
  ASSUME NEW w \in Windows, TypesInv, WindowSubs(w), Receive(w)
  PROVE  WindowSubs(w)'
<1> DEFINE vs == ViewsOf(w)
           q == client.up[w]
           p == Tail(q)
           m == Head(q)
           sub == w \in server.subscribers
           act == w \in server.activeSubscribers
           sub2 == w \in server'.subscribers
           act2 == w \in server'.activeSubscribers
<1>1. /\ m \in Uplink /\ q \in Seq(Uplink) /\ q # <<>> /\ client'.up[w] = p
      /\ server' = Dispatched(server, w, m) /\ server \in Server
      /\ client'.open = client.open /\ client'.mounted = client.mounted
  BY ReceiveEffect DEF TypesInv, WireTypeOK
<1>2. ViewsOf(w)' = vs /\ apart' = apart /\ deserted' = deserted
  BY <1>1 DEF ViewsOf, Receive, siblings
<1>3. CASE w \notin client.open
  BY <1>1, <1>2, <1>3 DEF WindowSubs
<1>4. CASE w \in client.open
  <2>1. ~ Has(q, "close") /\ Subs(vs, q, sub, act, apart, deserted)
    BY <1>4 DEF WindowSubs
  <2>2. m.k # "close" /\ ~ Has(p, "close")
    BY <1>1, <2>1, HasTail
  <2>3. Taken(m, sub, act, sub2, act2)
    BY <1>1, <2>2, DispatchedEffect DEF Handled
  <2>4. Subs(vs, p, sub2, act2, apart, deserted)
    <3>. HIDE DEF vs, sub, act, sub2, act2, q
    <3>1. Shrunk(q, p) /\ m = q[1]
      BY <1>1, GrowsAndShrinks
    <3>. QED BY <2>1, <2>3, <3>1, SubsTaken
  <2>. QED BY <1>1, <1>2, <1>4, <2>2, <2>4 DEF WindowSubs
<1>. QED BY <1>3, <1>4

(* A subscription that is new is sent the session's value. *)
LEMMA ToldSeed ==
  ASSUME NEW w \in Windows, TypesInv, Receive(w), Head(client.up[w]).k = "sub",
         w \notin server.subscribers
  PROVE  WindowTold(w)'
<1> DEFINE q == client.up[w]
           p == Tail(q)
           o == server.out[w]
           x == server.state
           sub2 == w \in server'.subscribers
           act2 == w \in server'.activeSubscribers
<1>1. /\ Head(q) \in Uplink /\ q \in Seq(Uplink) /\ q # <<>> /\ client'.up[w] = p
      /\ server' = Dispatched(server, w, Head(q)) /\ server \in Server
  BY ReceiveEffect DEF TypesInv, WireTypeOK
<1>2. server'.state = x /\ server'.out[w] = Append(o, Patch(x))
  <2>1. Head(q).k = "sub" /\ w \notin server.subscribers
    OBVIOUS
  <2>2. Handled(server, w, Head(q), server')
    BY <1>1, DispatchedEffect
  <2>. QED BY <2>1, <2>2 DEF Handled
<1>3. /\ p \in Seq(Uplink) /\ o \in Seq(Downlink) /\ x \in Values
      /\ Patch(x) \in Downlink /\ Patch(x).k = "state"
  BY <1>1, WindowParts, Messages
<1>4. w \notin overtaken' => ~ Has(p, "set")
  <2>1. NoteUpdates
    BY DEF Receive
  <2>. QED BY <1>1, <1>2, <1>3, <2>1, UpdatesNoted
<1>5. ~ Has(p, "set") =>
        /\ Coming(p, Append(o, Patch(x)), x)
        /\ \A v, value : Tells(v, p, Append(o, Patch(x)), sub2, act2, value, x)
  <2>. HIDE DEF p, o, x, sub2, act2
  <2>. QED BY <1>3, UpdateSent
<1>. QED BY <1>1, <1>2, <1>4, <1>5 DEF WindowTold

(* Any other message of a window tells its views nothing. *)
LEMMA ToldReceived ==
  ASSUME NEW w \in Windows, TypesInv, WindowSubs(w), WindowTold(w), Receive(w),
         ~ (Head(client.up[w]).k = "sub" /\ w \notin server.subscribers)
  PROVE  WindowTold(w)'
<1> DEFINE vs == ViewsOf(w)
           q == client.up[w]
           p == Tail(q)
           m == Head(q)
           o == server.out[w]
           n == server'.out[w]
           x == server.state
           y == server'.state
           sub == w \in server.subscribers
           act == w \in server.activeSubscribers
           sub2 == w \in server'.subscribers
           act2 == w \in server'.activeSubscribers
<1>1. /\ m \in Uplink /\ q \in Seq(Uplink) /\ q # <<>> /\ client'.up[w] = p
      /\ server' = Dispatched(server, w, m) /\ server \in Server
      /\ client'.open = client.open /\ client'.mounted = client.mounted
      /\ client'.value = client.value /\ o \in Seq(Downlink) /\ p \in Seq(Uplink)
  BY ReceiveEffect, WindowParts DEF TypesInv, WireTypeOK
<1>2. ViewsOf(w)' = vs /\ apart' = apart /\ deserted' = deserted /\ NoteUpdates
  BY <1>1 DEF ViewsOf, Receive, siblings
<1>3. CASE m.k = "close"
  <2>1. w \notin server'.subscribers
    BY <1>1, <1>3, DispatchedEffect DEF Handled
  <2>. QED BY <2>1 DEF WindowTold, Tells, Held
<1>4. CASE m.k # "close"
  <2>. SUFFICES ASSUME w \notin overtaken' PROVE WindowTold(w)'
    BY DEF WindowTold
  <2>1. Handled(server, w, m, server')
    BY <1>1, DispatchedEffect
  <2>2. /\ Taken(m, sub, act, sub2, act2)
        /\ y = IF m.k = "set" THEN m.value ELSE x
        /\ n = o \/ \E z \in Downlink : z.k # "state" /\ n = Append(o, z)
    BY <1>4, <2>1 DEF Handled
  <2>3. w \notin overtaken
    BY <1>1, <1>2, <2>2, UpdatesNoted
  <2>4. sub2 => sub
    BY <2>2 DEF Taken
  <2>5. sub => Coming(q, o, x)
    BY <2>3 DEF WindowTold
  <2>6. Coming(q, o, x) => Coming(p, o, y)
    <3>. HIDE DEF o, q, x, y
    <3>1. CASE m.k = "set"
      <4>1. Has(q, "set")
        BY <1>1, <3>1, HasTail
      <4>. QED BY <4>1 DEF Coming
    <3>2. CASE m.k # "set"
      BY <1>1, <2>2, <3>2, OtherArrivals
    <3>. QED BY <3>1, <3>2
  <2>7. Coming(p, o, y) => Coming(p, n, y)
    <3>. HIDE DEF o, n, p, y
    <3>. QED BY <1>1, <2>2, OtherMessages
  <2>8. sub2 => Coming(p, n, y)
    BY <2>4, <2>5, <2>6, <2>7
  <2>9. ASSUME NEW v \in vs \ (apart \union deserted), Held(v, p, sub2, act2)
        PROVE  Explained(p, n, client.value[v], y)
    <3>1. w \in client.open /\ Subs(vs, q, sub, act, apart, deserted)
      BY <2>9 DEF WindowSubs
    <3>2. Tells(v, q, o, sub, act, client.value[v], x)
      BY <2>3, <2>9 DEF WindowTold
    <3>3. m = q[1] /\ Shrunk(q, p) /\ ~ (q[1].k = "sub" /\ ~ sub)
      BY <1>1, GrowsAndShrinks
    <3>4. Held(v, q, sub, act)
      <4>. HIDE DEF vs, q, p, sub, act, sub2, act2
      <4>1. ToCome(v, q, sub, act) \/ Held(v, q, sub, act)
        BY <2>9, <3>1 DEF Subs
      <4>2. ASSUME ToCome(v, q, sub, act) PROVE ToCome(v, p, sub2, act2)
        BY <2>2, <3>3, <4>2, ToComeShrunk
      <4>3. ~ ToCome(v, p, sub2, act2)
        BY <2>9, ToComeIsNotHeld
      <4>. QED BY <4>1, <4>2, <4>3
    <3>5. Explained(q, o, client.value[v], x)
      BY <3>2, <3>4 DEF Tells
    <3>6. Explained(p, o, client.value[v], y)
      <4>1. CASE m.k = "set"
        BY <1>1, <2>2, <3>5, <4>1, ExplainedArrival
      <4>2. CASE m.k # "set"
        BY <1>1, <2>2, <3>5, <4>2, ExplainedOther
      <4>. QED BY <4>1, <4>2
    <3>. HIDE DEF o, n, p, y
    <3>. QED BY <1>1, <2>2, <3>6, ExplainedOther
  <2>10. \A v \in vs \ (apart \union deserted) :
           Tells(v, p, n, sub2, act2, client.value[v], y)
    BY <2>9 DEF Tells
  <2>. QED BY <1>1, <1>2, <2>8, <2>10 DEF WindowTold
<1>. QED BY <1>3, <1>4

(* An update that is delivered brings all views of the window together. *)
LEMMA WindowDelivers ==
  ASSUME NEW w \in Windows, TypesInv, WindowKnown(w), Deliver(w)
  PROVE  WindowKnown(w)'
<1> DEFINE vs == ViewsOf(w)
           q == client.up[w]
           p == client'.up[w]
           o == server.out[w]
           n == Tail(o)
           m == Head(o)
           f == [k |-> "fack"]
           x == server.state
           sub == w \in server.subscribers
           act == w \in server.activeSubscribers
<1>1. /\ m \in Downlink /\ o \in Seq(Downlink) /\ o # <<>> /\ q \in Seq(Uplink)
      /\ server'.out[w] = n /\ server'.state = x
      /\ server'.subscribers = server.subscribers
      /\ server'.activeSubscribers = server.activeSubscribers
      /\ client'.open = client.open /\ client'.mounted = client.mounted
  <2>1. /\ server' = [server EXCEPT !.out[w] = Tail(@)]
        /\ m \in Downlink /\ o \in Seq(Downlink) /\ o # <<>>
        /\ client'.open = client.open /\ client'.mounted = client.mounted
    BY DeliverEffect
  <2>2. server \in Server /\ q \in Seq(Uplink)
    BY WindowParts DEF TypesInv, WireTypeOK
  <2>3. /\ server'.out[w] = n /\ server'.state = x
        /\ server'.subscribers = server.subscribers
        /\ server'.activeSubscribers = server.activeSubscribers
    BY <2>1, <2>2 DEF Server
  <2>. QED BY <2>1, <2>2, <2>3
<1>2. /\ ViewsOf(w)' = vs /\ deserted' = deserted /\ overtaken' = overtaken
      /\ \A v \in vs : v \in Views
      /\ apart' = IF m.k = "state" /\ ~ SubscriptionOnTheWay(w)
                    THEN apart \ vs ELSE apart
  BY <1>1, WindowParts DEF ViewsOf, Deliver
<1>3. f \in Uplink /\ f.k \notin {"sub", "unsub", "close", "set"}
  BY DEF Uplink
<1>4. p = IF m.k = "frame" THEN Append(q, f) ELSE q
  <2>1. p = IF m.k = "frame" THEN q \o <<f>> ELSE q
    BY DeliverEffect
  <2>2. q \o <<f>> = Append(q, f)
    BY <1>1, <1>3, AppendParts
  <2>. QED BY <2>1, <2>2
<1>5. WindowSubs(w)'
  <2>1. \/ \A v \in vs : v \in apart => v \in apart'
        \/ \A k \in 1..Len(q) : q[k].k # "sub"
    BY <1>1, <1>2 DEF SubscriptionOnTheWay
  <2>2. p = q \/ \E g \in Uplink : g.k \notin {"sub", "unsub", "close"} /\ p = Append(q, g)
    BY <1>3, <1>4
  <2>. QED BY <1>1, <1>2, <2>1, <2>2, SubsPass DEF WindowKnown
<1>6. WindowTold(w)'
  <2>. SUFFICES ASSUME w \notin overtaken
                PROVE  /\ sub => Coming(p, n, x)
                       /\ \A v \in vs \ (apart' \union deserted) :
                            Tells(v, p, n, sub, act, client'.value[v], x)
    BY <1>1, <1>2 DEF WindowTold
  <2>1. sub => Coming(q, o, x)
    BY DEF WindowKnown, WindowTold
  <2>2. Coming(q, o, x) => Coming(q, n, x)
    <3>. HIDE DEF q, o, x
    <3>. QED BY <1>1, OtherArrivals
  <2>3. CASE m.k = "state"
    <3>1. p = q
      BY <1>4, <2>3
    <3>2. ASSUME NEW v \in vs, sub PROVE Explained(q, n, client'.value[v], x)
      <4>1. client'.value = [u \in Views |-> IF u \in ViewsOf(w) THEN m.value
                                             ELSE client.value[u]]
        BY <2>3, DeliverEffect
      <4>2. client'.value[v] = m.value
        BY <1>2, <4>1
      <4>3. Explained(q, n, m.value, x)
        BY <1>1, <2>1, <2>3, <3>2, UpdateArrives
      <4>. QED BY <4>2, <4>3
    <3>3. \A v \in vs : Tells(v, q, n, sub, act, client'.value[v], x)
      BY <3>2 DEF Tells, Held
    <3>. QED BY <2>1, <2>2, <3>1, <3>3
  <2>4. CASE m.k # "state"
    <3>1. client'.value = client.value /\ apart' = apart
      BY <1>2, <2>4, DeliverEffect
    <3>2. \A v \in vs \ (apart \union deserted) :
            Tells(v, q, o, sub, act, client.value[v], x)
      BY DEF WindowKnown, WindowTold
    <3>3. \A v, value : Tells(v, q, o, sub, act, value, x) =>
                          Tells(v, q, n, sub, act, value, x)
      <4>. HIDE DEF q, o, sub, act, x
      <4>. QED BY <1>1, <2>4, OtherArrivals
    <3>4. /\ Coming(q, n, x) => Coming(p, n, x)
          /\ \A v, value : Tells(v, q, n, sub, act, value, x) =>
                             Tells(v, p, n, sub, act, value, x)
      <4>1. n \in Seq(Downlink)
        BY <1>1, TailParts
      <4>2. \E g \in Uplink : g.k # "set" /\ (p = q \/ p = Append(q, g))
        BY <1>3, <1>4
      <4>. HIDE DEF p, q, n, sub, act, x
      <4>. QED BY <1>1, <4>1, <4>2, OtherMessages
    <3>. QED BY <2>1, <2>2, <3>1, <3>2, <3>3, <3>4
  <2>. QED BY <2>3, <2>4
<1>. QED BY <1>5, <1>6 DEF WindowKnown

(* A view that writes explains what it shows; its siblings count as apart. *)
LEMMA WindowWrites ==
  ASSUME NEW u \in Views, TypesInv, WindowKnown(WindowOf[u]), WriteField(u)
  PROVE  WindowKnown(WindowOf[u])'
<1> DEFINE w == WindowOf[u]
           vs == ViewsOf(w)
           q == client.up[w]
           p == client'.up[w]
           o == server.out[w]
           e == events'
           m == [k |-> "set", value |-> e]
           x == server.state
           sub == w \in server.subscribers
           act == w \in server.activeSubscribers
<1>1. /\ w \in Windows /\ e \in Values /\ server' = server /\ deserted' = deserted
      /\ q \in Seq(Uplink) /\ o \in Seq(Downlink)
      /\ client'.open = client.open /\ client'.mounted = client.mounted
      /\ client'.value[u] = e /\ p = q \o <<m>>
  <2>1. w \in Windows /\ e \in Values /\ server' = server /\ deserted' = deserted
    BY DEF WriteField, Event, TypesInv, WireTypeOK, Values
  <2>2. /\ client'.open = client.open /\ client'.mounted = client.mounted
        /\ client'.value[u] = e /\ p = q \o <<m>>
    BY <2>1, WriteFieldEffect
  <2>. QED BY <2>1, <2>2, WindowParts
<1>2. m \in Uplink /\ m.k = "set" /\ m.value = e
  BY <1>1 DEF Uplink
<1>3. p = Append(q, m)
  <2>. HIDE DEF q, m
  <2>. QED BY <1>1, <1>2, AppendParts
<1>4. /\ ViewsOf(w)' = vs
      /\ apart' = (IF SubscriptionOnTheWay(w) THEN apart ELSE apart \ {u})
                    \union (vs \ {u})
  BY <1>1 DEF ViewsOf, WriteField, Siblings
<1>5. /\ w \notin overtaken' => ~ Has(o, "state")
      /\ w \notin overtaken' => w \notin overtaken
  BY <1>1 DEF WriteField, Has
<1>6. WindowSubs(w)'
  <2>1. \/ \A v \in vs : v \in apart => v \in apart'
        \/ \A k \in 1..Len(q) : q[k].k # "sub"
    BY <1>1, <1>4 DEF SubscriptionOnTheWay
  <2>2. \E g \in Uplink : g.k \notin {"sub", "unsub", "close"} /\ p = Append(q, g)
    BY <1>2, <1>3
  <2>. QED BY <1>1, <1>4, <2>1, <2>2, SubsPass DEF WindowKnown
<1>7. WindowTold(w)'
  <2>. SUFFICES ASSUME w \notin overtaken'
                PROVE  /\ Coming(p, o, x)
                       /\ \A v \in vs \ (apart' \union deserted) :
                            Tells(v, p, o, sub, act, client'.value[v], x)
    BY <1>1, <1>4 DEF WindowTold
  <2>1. Explained(p, o, e, x)
    BY <1>1, <1>3, <1>5, ExplainedWrite
  <2>2. \A v \in vs \ (apart' \union deserted) : v = u
    BY <1>4
  <2>. QED BY <1>1, <1>5, <2>1, <2>2 DEF Coming, Tells
<1>. QED BY <1>6, <1>7 DEF WindowKnown

(* A view that comes is seeded, or apart. *)
LEMMA WindowMounts ==
  ASSUME NEW u \in Views, TypesInv, WindowKnown(WindowOf[u]), Mount(u)
  PROVE  WindowKnown(WindowOf[u])'
<1> DEFINE w == WindowOf[u]
           vs == ViewsOf(w)
           q == client.up[w]
           m == Subscription("sub", u)
           f == [k |-> "finterest"]
           a == Append(q, m)
           p == Append(a, f)
           o == server.out[w]
           x == server.state
           sub == w \in server.subscribers
           act == w \in server.activeSubscribers
           ap == IF vs = {} THEN apart \ {u} ELSE apart \union {u}
           de == deserted \ {u}
<1>1. /\ w \in Windows /\ server' = server /\ overtaken' = overtaken
      /\ u \notin vs /\ w \in client.open /\ apart' = ap /\ deserted' = de
      /\ q \in Seq(Uplink) /\ o \in Seq(Downlink)
      /\ client'.open = client.open /\ client'.mounted = client.mounted \union {u}
      /\ \A v \in vs : client'.value[v] = client.value[v]
      /\ client'.up[w] = q \o <<m, f>>
  <2>1. /\ w \in Windows /\ server' = server /\ overtaken' = overtaken
        /\ u \notin vs /\ w \in client.open /\ apart' = ap /\ deserted' = de
    BY DEF Mount, ViewsOf
  <2>2. q \in Seq(Uplink) /\ o \in Seq(Downlink) /\ \A v \in vs : v \in Views
    BY <2>1, WindowParts
  <2>3. /\ client'.open = client.open /\ client'.mounted = client.mounted \union {u}
        /\ \A v \in Views : client'.value[v] = IF v = u THEN 0 ELSE client.value[v]
        /\ client'.up[w] = q \o <<m, f>>
    BY <2>1, MountEffect
  <2>. QED BY <2>1, <2>2, <2>3
<1>2. m \in Uplink /\ m.k = "sub" /\ (m.passive <=> u \in Passive)
  BY SubscriptionParts
<1>3. f \in Uplink /\ f.k \notin {"sub", "unsub", "set", "close"}
  BY DEF Uplink
<1>4. client'.up[w] = p /\ a \in Seq(Uplink) /\ p \in Seq(Uplink)
  <2>. HIDE DEF q, m, f
  <2>1. q \o <<m, f>> = p
    BY ONLY <1>1, <1>2, <1>3, AppendTwo
  <2>2. a \in Seq(Uplink)
    BY ONLY <1>1, <1>2, AppendParts
  <2>. HIDE DEF a
  <2>3. p \in Seq(Uplink)
    BY ONLY <1>3, <2>2, AppendParts
  <2>. QED BY <1>1, <2>1, <2>2, <2>3
<1>5. ViewsOf(w)' = vs \union {u}
  BY <1>1 DEF ViewsOf
<1>6. Grown(q, m, a) /\ Grown(a, f, p)
  <2>. HIDE DEF q, m, f
  <2>1. Grown(q, m, a)
    BY ONLY <1>1, <1>2, GrowsAndShrinks
  <2>. HIDE DEF a
  <2>2. Grown(a, f, p)
    BY ONLY <1>3, <1>4, GrowsAndShrinks
  <2>. QED BY <2>1, <2>2 DEF a
<1>7. ~ Has(q, "close") /\ Subs(vs, q, sub, act, apart, deserted)
  BY <1>1 DEF WindowKnown, WindowSubs
<1>8. ~ Has(p, "close")
  <2>. HIDE DEF q, m, f
  <2>1. ~ Has(a, "close")
    BY <1>1, <1>2, <1>7, HasAppend
  <2>. HIDE DEF a
  <2>. QED BY <1>3, <1>4, <2>1, HasAppend
<1>9. Subs(vs \union {u}, a, sub, act, ap, de) /\ (vs = {} => ToCome(u, a, sub, act))
  <2>. HIDE DEF vs, q, m, a, sub, act
  <2>. QED BY ONLY <1>1, <1>2, <1>6, <1>7, SubsJoined
<1>10. Subs(vs \union {u}, p, sub, act, ap, de) /\ (vs = {} => ToCome(u, p, sub, act))
  <2>. DEFINE ws == vs \union {u}
  <2>1. Subs(ws, a, sub, act, ap, de) /\ Harmless(u, f)
    BY <1>3, <1>9 DEF Harmless
  <2>. HIDE DEF ws, vs, a, f, p, sub, act, ap, de
  <2>2. Subs(ws, p, sub, act, ap, de)
    BY ONLY <1>3, <1>6, <2>1, SubsQuiet
  <2>3. vs = {} => ToCome(u, p, sub, act)
    BY ONLY <1>6, <1>9, <2>1, ViewGrown
  <2>. QED BY <2>2, <2>3 DEF ws
<1>11. WindowSubs(w)'
  BY <1>1, <1>4, <1>5, <1>8, <1>10 DEF WindowSubs
<1>12. /\ Coming(q, o, x) => Coming(p, o, x)
       /\ \A v, value : Tells(v, q, o, sub, act, value, x) =>
                          Tells(v, p, o, sub, act, value, x)
  <2>0. m.k # "set" /\ f.k # "set"
    BY <1>2, <1>3
  <2>. HIDE DEF q, m, f, o, x, sub, act
  <2>1. /\ Coming(q, o, x) => Coming(a, o, x)
        /\ \A v, value : Tells(v, q, o, sub, act, value, x) =>
                           Tells(v, a, o, sub, act, value, x)
    BY ONLY <1>1, <1>2, <2>0, OtherMessages
  <2>. HIDE DEF a
  <2>2. /\ Coming(a, o, x) => Coming(p, o, x)
        /\ \A v, value : Tells(v, a, o, sub, act, value, x) =>
                           Tells(v, p, o, sub, act, value, x)
    BY ONLY <1>1, <1>3, <1>4, <2>0, OtherMessages
  <2>. QED BY <2>1, <2>2
<1>13. WindowTold(w)'
  <2>. SUFFICES ASSUME w \notin overtaken
                PROVE  /\ sub => Coming(p, o, x)
                       /\ \A v \in (vs \union {u}) \ (ap \union de) :
                            Tells(v, p, o, sub, act, client'.value[v], x)
    <3>. HIDE DEF vs, p, ap, de
    <3>. QED BY <1>1, <1>4, <1>5 DEF WindowTold
  <2>1. sub => Coming(p, o, x)
    BY <1>12 DEF WindowKnown, WindowTold
  <2>2. ASSUME NEW v \in (vs \union {u}) \ (ap \union de)
        PROVE  Tells(v, p, o, sub, act, client'.value[v], x)
    <3>1. CASE v = u
      <4>1. vs = {}
        BY <2>2, <3>1
      <4>2. ~ Held(v, p, sub, act)
        <5>1. ToCome(v, p, sub, act)
          BY <1>10, <3>1, <4>1
        <5>. HIDE DEF p, sub, act
        <5>. QED BY ONLY <5>1, ToComeIsNotHeld
      <4>. QED BY <4>2 DEF Tells
    <3>2. CASE v # u
      <4>1. v \in vs \ (apart \union deserted)
        BY <2>2, <3>2
      <4>2. Tells(v, q, o, sub, act, client.value[v], x)
        BY <4>1 DEF WindowKnown, WindowTold
      <4>. QED BY <1>1, <1>12, <4>1, <4>2
    <3>. QED BY <3>1, <3>2
  <2>. QED BY <2>1, <2>2
<1>. QED BY <1>11, <1>13 DEF WindowKnown

(* A view that goes leaves those deserted that it takes the subscription from. *)
LEMMA WindowUnmounts ==
  ASSUME NEW u \in Views, TypesInv, WindowKnown(WindowOf[u]), Unmount(u)
  PROVE  WindowKnown(WindowOf[u])'
<1> DEFINE w == WindowOf[u]
           vs == ViewsOf(w)
           q == client.up[w]
           m == Subscription("unsub", u)
           p == Append(q, m)
           o == server.out[w]
           x == server.state
           sub == w \in server.subscribers
           act == w \in server.activeSubscribers
           de == deserted \union {v \in vs \ {u} : u \in Passive => v \in Passive}
<1>1. /\ w \in Windows /\ server' = server /\ overtaken' = overtaken
      /\ u \in vs /\ apart' = apart /\ deserted' = de
      /\ q \in Seq(Uplink) /\ o \in Seq(Downlink)
      /\ client'.open = client.open /\ client'.mounted = client.mounted \ {u}
      /\ client'.value = client.value /\ client'.up[w] = q \o <<m>>
  <2>1. /\ w \in Windows /\ server' = server /\ overtaken' = overtaken
        /\ u \in vs /\ apart' = apart /\ deserted' = de
    BY DEF Unmount, ViewsOf, Siblings
  <2>2. q \in Seq(Uplink) /\ o \in Seq(Downlink)
    BY <2>1, WindowParts
  <2>3. /\ client'.open = client.open /\ client'.mounted = client.mounted \ {u}
        /\ client'.value = client.value /\ client'.up[w] = q \o <<m>>
    BY <2>1, UnmountEffect
  <2>. QED BY <2>1, <2>2, <2>3
<1>2. m \in Uplink /\ m.k = "unsub" /\ (m.passive <=> u \in Passive)
  BY SubscriptionParts
<1>3. client'.up[w] = p /\ Grown(q, m, p)
  <2>. HIDE DEF q, m
  <2>. QED BY ONLY <1>1, <1>2, AppendParts, GrowsAndShrinks
<1>4. ViewsOf(w)' = vs \ {u}
  BY <1>1 DEF ViewsOf
<1>5. w \in client.open /\ ~ Has(q, "close") /\ Subs(vs, q, sub, act, apart, deserted)
  BY <1>1 DEF WindowKnown, WindowSubs
<1>6. ~ Has(p, "close")
  <2>. HIDE DEF q, m
  <2>. QED BY <1>1, <1>2, <1>5, HasAppend
<1>7. Subs(vs \ {u}, p, sub, act, apart, de)
  <2>. HIDE DEF vs, q, m, p, sub, act
  <2>. QED BY ONLY <1>2, <1>3, <1>5, SubsParted
<1>8. WindowSubs(w)'
  BY <1>1, <1>3, <1>4, <1>5, <1>6, <1>7 DEF WindowSubs
<1>9. /\ Coming(q, o, x) => Coming(p, o, x)
      /\ \A v, value : Tells(v, q, o, sub, act, value, x) =>
                         Tells(v, p, o, sub, act, value, x)
  <2>0. m.k # "set"
    BY <1>2
  <2>. HIDE DEF q, m, o, x, sub, act
  <2>. QED BY ONLY <1>1, <1>2, <2>0, OtherMessages
<1>10. WindowTold(w)'
  <2>. SUFFICES ASSUME w \notin overtaken
                PROVE  /\ sub => Coming(p, o, x)
                       /\ \A v \in (vs \ {u}) \ (apart \union de) :
                            Tells(v, p, o, sub, act, client.value[v], x)
    BY <1>1, <1>3, <1>4 DEF WindowTold
  <2>1. sub => Coming(p, o, x)
    BY <1>9 DEF WindowKnown, WindowTold
  <2>2. ASSUME NEW v \in (vs \ {u}) \ (apart \union de)
        PROVE  Tells(v, p, o, sub, act, client.value[v], x)
    <3>1. v \in vs \ (apart \union deserted)
      BY <2>2
    <3>2. Tells(v, q, o, sub, act, client.value[v], x)
      BY <3>1 DEF WindowKnown, WindowTold
    <3>. QED BY <1>9, <3>2
  <2>. QED BY <2>1, <2>2
<1>. QED BY <1>8, <1>10 DEF WindowKnown

(* A window that closes has no view. *)
LEMMA WindowCloses ==
  ASSUME NEW w \in Windows, TypesInv, WindowKnown(w), CloseWindow(w)
  PROVE  WindowKnown(w)'
<1> DEFINE q == client.up[w]
           m == [k |-> "close"]
           p == Append(q, m)
           o == server.out[w]
           x == server.state
<1>1. /\ server' = server /\ overtaken' = overtaken
      /\ q \in Seq(Uplink) /\ o \in Seq(Downlink)
      /\ client'.open = client.open \ {w} /\ client'.mounted = client.mounted \ ViewsOf(w)
      /\ client'.up[w] = q \o <<m>>
  <2>1. server' = server /\ overtaken' = overtaken
    BY DEF CloseWindow
  <2>. QED BY <2>1, CloseWindowEffect, WindowParts
<1>2. m \in Uplink /\ m.k # "set"
  BY DEF Uplink
<1>3. client'.up[w] = p
  <2>. HIDE DEF q, m
  <2>. QED BY ONLY <1>1, <1>2, AppendParts
<1>4. ViewsOf(w)' = {} /\ w \notin client'.open
  BY <1>1 DEF ViewsOf
<1>5. Coming(q, o, x) => Coming(p, o, x)
  <2>. HIDE DEF q, m, o, x
  <2>. QED BY ONLY <1>1, <1>2, OtherMessages
<1>6. WindowSubs(w)'
  BY <1>4 DEF WindowSubs
<1>7. WindowTold(w)'
  BY <1>1, <1>3, <1>4, <1>5 DEF WindowKnown, WindowTold
<1>. QED BY <1>6, <1>7 DEF WindowKnown

(* Every step keeps what is known of every window. *)
LEMMA WindowNext ==
  ASSUME TypesInv, NEW w \in Windows, WindowKnown(w), [WireNext]_wireVars
  PROVE  WindowKnown(w)'
<1> DEFINE q == client.up[w]
           o == server.out[w]
<1>0. q \in Seq(Uplink) /\ o \in Seq(Downlink) /\ server \in Server
      /\ \A v \in ViewsOf(w) : v \in Views /\ WindowOf[v] = w
  BY WindowParts DEF TypesInv, WireTypeOK
<1> DEFINE Same == /\ w \in client'.open <=> w \in client.open
                   /\ ViewsOf(w)' = ViewsOf(w)
                   /\ w \in server'.subscribers <=> w \in server.subscribers
                   /\ w \in server'.activeSubscribers <=> w \in server.activeSubscribers
                   /\ \A v \in ViewsOf(w) : /\ v \in deserted' <=> v \in deserted
                                            /\ v \in apart => v \in apart'
           SameUp == \/ client'.up[w] = q
                     \/ \E m \in Uplink : /\ m.k \notin {"sub", "unsub", "close", "set"}
                                          /\ client'.up[w] = Append(q, m)
           SameOut == \/ server'.out[w] = o
                      \/ \E m \in Downlink : /\ m.k # "state"
                                             /\ server'.out[w] = Append(o, m)
           SameField == /\ server'.state = server.state
                        /\ \A v \in ViewsOf(w) : client'.value[v] = client.value[v]
                        /\ w \notin overtaken' => w \notin overtaken
<1>1. ASSUME Same, SameUp, SameOut, SameField
      PROVE  WindowKnown(w)'
  <2>1. WindowSubs(w)'
    BY <1>1, SubsPass DEF WindowKnown
  <2>2. WindowTold(w)'
    BY <1>1, ToldPass DEF WindowKnown
  <2>. QED BY <2>1, <2>2 DEF WindowKnown
<1>2. ASSUME Same, client'.up[w] = q, NoteUpdates, server'.state \in Values,
             server'.out[w] = IF w \in server.subscribers
                                THEN Append(o, Patch(server'.state)) ELSE o
      PROVE  WindowKnown(w)'
  <2>1. WindowSubs(w)'
    BY <1>2, SubsPass DEF WindowKnown
  <2>2. WindowTold(w)'
    BY <1>2, ToldUpdate
  <2>. QED BY <2>1, <2>2 DEF WindowKnown
<1>3. ASSUME NEW c \in Windows, Receive(c)
      PROVE  WindowKnown(w)'
  <2> DEFINE m == Head(client.up[c])
  <2>1. /\ m \in Uplink /\ server' = Dispatched(server, c, m) /\ server' \in Server
        /\ client'.open = client.open /\ client'.mounted = client.mounted
        /\ client'.value = client.value
        /\ c # w => client'.up[w] = q
    BY <1>3, ReceiveEffect
  <2>2. NoteUpdates /\ apart' = apart /\ deserted' = deserted
    BY <1>3 DEF Receive, siblings
  <2>3. ViewsOf(w)' = ViewsOf(w)
    BY <2>1 DEF ViewsOf
  <2>4. CASE c = w
    <3>1. WindowSubs(w)'
      BY <1>3, <2>4, SubsReceived DEF WindowKnown
    <3>2. WindowTold(w)'
      BY <1>3, <2>4, ToldSeed, ToldReceived DEF WindowKnown
    <3>. QED BY <3>1, <3>2 DEF WindowKnown
  <2>5. CASE c # w
    <3>1. Handled(server, c, m, server')
      BY <1>0, <2>1, DispatchedEffect
    <3>. HIDE DEF m
    <3>2. /\ server'.state = IF m.k = "set" THEN m.value ELSE server.state
          /\ w \in server'.subscribers <=> w \in server.subscribers
          /\ w \in server'.activeSubscribers <=> w \in server.activeSubscribers
          /\ server'.out[w] = IF m.k = "set" /\ w \in server.subscribers
                                THEN Append(o, Patch(m.value)) ELSE o
      BY <2>5, <3>1 DEF Handled
    <3>3. Same
      BY <2>1, <2>2, <2>3, <3>2
    <3>4. CASE m.k = "set"
      <4>1. server'.state \in Values
        BY <2>1 DEF Server
      <4>. QED BY <1>2, <2>1, <2>2, <2>5, <3>2, <3>3, <3>4, <4>1
    <3>5. CASE m.k # "set"
      <4>1. w \notin overtaken' => w \notin overtaken
        BY <1>0, <2>2, <3>2, <3>5, UpdatesNoted
      <4>2. SameUp /\ SameOut /\ SameField
        BY <2>1, <2>5, <3>2, <3>5, <4>1
      <4>. QED BY <1>1, <3>3, <4>2
    <3>. QED BY <3>4, <3>5
  <2>. QED BY <2>4, <2>5
<1>4. CASE SetState
  <2>1. /\ client' = client /\ server'.state \in Values
        /\ server'.subscribers = server.subscribers
        /\ server'.activeSubscribers = server.activeSubscribers
        /\ server'.out[w] = IF w \in server.subscribers
                              THEN Append(o, Patch(server'.state)) ELSE o
    BY <1>4, SetStateEffect
  <2>2. NoteUpdates /\ apart' = apart /\ deserted' = deserted
    BY <1>4 DEF SetState, siblings
  <2>3. ViewsOf(w)' = ViewsOf(w)
    BY <2>1 DEF ViewsOf
  <2>. QED BY <1>2, <2>1, <2>2, <2>3
<1>5. CASE Publish
  <2>1. PICK s \in Server, ws \in SUBSET server.frameInterest :
          /\ s.state = server.state /\ s.out = server.out
          /\ s.subscribers = server.subscribers
          /\ s.activeSubscribers = server.activeSubscribers
          /\ FrameSent(s, ws, s.newest, server')
    BY <1>5, PublishEffect
  <2>2. /\ server'.state = server.state /\ server'.subscribers = server.subscribers
        /\ server'.activeSubscribers = server.activeSubscribers
        /\ server'.out[w] = o \/ server'.out[w] = Append(o, FrameMessage(s.newest))
    BY <2>1 DEF FrameSent
  <2>3. FrameMessage(s.newest) \in Downlink /\ FrameMessage(s.newest).k # "state"
    BY Messages DEF Server
  <2>4. client' = client /\ overtaken' = overtaken /\ apart' = apart
        /\ deserted' = deserted
    BY <1>5 DEF Publish, siblings
  <2>5. ViewsOf(w)' = ViewsOf(w)
    BY <2>4 DEF ViewsOf
  <2>. QED BY <1>1, <2>2, <2>3, <2>4, <2>5
<1>6. CASE Drained \/ Die \/ \E c \in Windows : OrchestratorDown(c)
  <2>1. /\ server'.state = server.state /\ server'.subscribers = server.subscribers
        /\ server'.activeSubscribers = server.activeSubscribers
        /\ server'.out = server.out /\ overtaken' = overtaken
        /\ client'.open = client.open /\ client'.mounted = client.mounted
        /\ client'.value = client.value /\ client'.up = client.up
    BY <1>6, QuietEffect
  <2>2. apart' = apart /\ deserted' = deserted
    BY <1>6 DEF Drained, Die, OrchestratorDown, siblings
  <2>3. ViewsOf(w)' = ViewsOf(w)
    BY <2>1 DEF ViewsOf
  <2>. QED BY <1>1, <2>1, <2>2, <2>3
<1>7. ASSUME NEW c \in Windows, NEW id \in Calls, Respond(c, id)
      PROVE  WindowKnown(w)'
  <2>1. PICK m \in Downlink :
          /\ m.k = "res"
          /\ server'.out[w] = o \/ server'.out[w] = Append(o, m)
    BY <1>7, RespondEffect
  <2>2. /\ client' = client /\ overtaken' = overtaken /\ apart' = apart
        /\ deserted' = deserted
    BY <1>7 DEF Respond, siblings
  <2>3. /\ server'.state = server.state /\ server'.subscribers = server.subscribers
        /\ server'.activeSubscribers = server.activeSubscribers
    BY <1>7, RespondEffect
  <2>4. ViewsOf(w)' = ViewsOf(w)
    BY <2>2 DEF ViewsOf
  <2>5. SameOut
    BY <2>1
  <2>. QED BY <1>1, <2>2, <2>3, <2>4, <2>5
<1>8. ASSUME NEW c \in Windows, Deliver(c)
      PROVE  WindowKnown(w)'
  <2>1. CASE c = w
    BY <1>8, <2>1, WindowDelivers
  <2>2. CASE c # w
    <3>1. /\ server' = [server EXCEPT !.out[c] = Tail(@)]
          /\ client'.open = client.open /\ client'.mounted = client.mounted
          /\ client'.value = client.value \/
               client'.value = [v \in Views |-> IF v \in ViewsOf(c)
                                                  THEN Head(server.out[c]).value
                                                  ELSE client.value[v]]
          /\ client'.up[w] = q
      BY <1>8, <2>2, DeliverEffect
    <3>2. \A v \in ViewsOf(w) : v \notin ViewsOf(c)
      BY <2>2 DEF ViewsOf
    <3>3. \A v \in ViewsOf(w) : client'.value[v] = client.value[v]
      BY <1>0, <3>1, <3>2
    <3>4. /\ server'.out[w] = o /\ server'.state = server.state
          /\ server'.subscribers = server.subscribers
          /\ server'.activeSubscribers = server.activeSubscribers
      BY <1>0, <2>2, <3>1 DEF Server
    <3>5. /\ overtaken' = overtaken /\ deserted' = deserted
          /\ apart' = apart \/ apart' = apart \ ViewsOf(c)
      BY <1>8 DEF Deliver
    <3>6. ViewsOf(w)' = ViewsOf(w)
      BY <3>1 DEF ViewsOf
    <3>7. Same
      BY <3>1, <3>2, <3>4, <3>5, <3>6
    <3>. QED BY <1>1, <3>1, <3>3, <3>4, <3>5, <3>7
  <2>. QED BY <2>1, <2>2
<1>9. ASSUME NEW c \in Windows, CloseWindow(c)
      PROVE  WindowKnown(w)'
  <2>1. CASE c = w
    BY <1>9, <2>1, WindowCloses
  <2>2. CASE c # w
    <3>1. /\ client'.open = client.open \ {c}
          /\ client'.mounted = client.mounted \ ViewsOf(c)
          /\ client'.value = client.value /\ client'.up[w] = q
      BY <1>9, <2>2, CloseWindowEffect
    <3>2. /\ server' = server /\ overtaken' = overtaken /\ apart' = apart
          /\ deserted' = deserted
      BY <1>9 DEF CloseWindow, siblings
    <3>3. ViewsOf(w)' = ViewsOf(w)
      BY <2>2, <3>1 DEF ViewsOf
    <3>. QED BY <1>1, <2>2, <3>1, <3>2, <3>3
  <2>. QED BY <2>1, <2>2
<1>10. ASSUME NEW u \in Views, Mount(u) \/ Unmount(u) \/ WriteField(u)
       PROVE  WindowKnown(w)'
  <2> DEFINE c == WindowOf[u]
  <2>0. c \in Windows
    OBVIOUS
  <2>1. CASE c = w
    BY <1>10, <2>1, WindowMounts, WindowUnmounts, WindowWrites
  <2>2. CASE c # w
    <3>1. /\ client'.open = client.open /\ client'.up[w] = q
          /\ \A v \in Views \ {u} : /\ client'.value[v] = client.value[v]
                                    /\ v \in client'.mounted <=> v \in client.mounted
      <4>1. CASE Mount(u)
        BY <2>2, <4>1, MountEffect
      <4>2. CASE Unmount(u)
        BY <2>2, <4>2, UnmountEffect
      <4>3. CASE WriteField(u)
        BY <2>2, <4>3, WriteFieldEffect
      <4>. QED BY <1>10, <4>1, <4>2, <4>3
    <3>2. client'.mounted \subseteq Views /\ client.mounted \subseteq Views
      <4>1. client' \in Client
        BY <1>10, MountEffect, UnmountEffect, WriteFieldEffect
      <4>. QED BY <4>1 DEF TypesInv, WireTypeOK, Client
    <3>3. ViewsOf(w)' = ViewsOf(w)
      BY <2>2, <3>1, <3>2 DEF ViewsOf
    <3>4. \A v \in ViewsOf(w) : v # u /\ v \notin Siblings(u)
      BY <2>2 DEF ViewsOf, Siblings
    <3>5. \A v \in ViewsOf(w) : /\ v \in deserted' <=> v \in deserted
                                /\ v \in apart => v \in apart'
      BY <1>10, <3>4 DEF Mount, Unmount, WriteField
    <3>6. server' = server /\ (w \notin overtaken' => w \notin overtaken)
      BY <1>10 DEF Mount, Unmount, WriteField
    <3>7. \A v \in ViewsOf(w) : client'.value[v] = client.value[v]
      BY <1>0, <3>1, <3>4
    <3>. QED BY <1>1, <3>1, <3>3, <3>5, <3>6, <3>7
  <2>. QED BY <2>1, <2>2
<1>11. ASSUME NEW u \in Views, Call(u)
       PROVE  WindowKnown(w)'
  <2>1. PICK id \in Calls :
          client'.up[w] = IF w = WindowOf[u] THEN q \o <<[k |-> "req", id |-> id]>> ELSE q
    BY <1>11, CallEffect
  <2> DEFINE m == [k |-> "req", id |-> id]
  <2>2. m \in Uplink /\ m.k \notin {"sub", "unsub", "close", "set"}
    BY DEF Uplink
  <2>3. /\ client'.open = client.open /\ client'.mounted = client.mounted
        /\ client'.value = client.value
    BY <1>11, CallEffect
  <2>4. /\ server' = server /\ overtaken' = overtaken /\ apart' = apart
        /\ deserted' = deserted
    BY <1>11 DEF Call, siblings
  <2>5. ViewsOf(w)' = ViewsOf(w)
    BY <2>3 DEF ViewsOf
  <2>6. SameUp
    <3> HIDE DEF m, q
    <3>1. q \o <<m>> = Append(q, m)
      BY ONLY <1>0, <2>2, AppendParts
    <3>. QED BY <2>1, <2>2, <3>1 DEF m
  <2>. QED BY <1>1, <2>3, <2>4, <2>5, <2>6
<1>12. CASE UNCHANGED wireVars
  <2>1. client' = client /\ server' = server /\ overtaken' = overtaken
        /\ apart' = apart /\ deserted' = deserted
    BY <1>12 DEF wireVars, siblings
  <2>2. ViewsOf(w)' = ViewsOf(w)
    BY <2>1 DEF ViewsOf
  <2>. QED BY <1>1, <2>1, <2>2
<1>. QED BY <1>3, <1>4, <1>5, <1>6, <1>7, <1>8, <1>9, <1>10, <1>11, <1>12 DEF WireNext

(* Before anything has happened no view is mounted. *)
LEMMA WindowInit ==
  ASSUME WireInit, NEW w \in Windows
  PROVE  WindowKnown(w)
<1>1. /\ ViewsOf(w) = {} /\ w \in client.open /\ client.up[w] = <<>>
      /\ w \notin server.subscribers /\ w \notin server.activeSubscribers
  BY DEF WireInit, ViewsOf
<1>2. ~ Has(<<>>, "close") /\ \A i : i \notin 1..Len(<<>>)
  BY DEF Has
<1>3. Subs({}, <<>>, w \in server.subscribers, w \in server.activeSubscribers,
           apart, deserted)
  BY <1>1, <1>2 DEF Subs, Ends
<1>. QED BY <1>1, <1>2, <1>3 DEF WindowKnown, WindowSubs, WindowTold

(* Whatever windows and views come and go, siblings or not, and whoever writes: when all  *)
(* has arrived, a window none of whose writes crossed an update shows the session's value *)
(* in every view that has neither joined another since, nor lost its subscription to one. *)
THEOREM ViewsSettle == WireSpec => []SettledViewsAgree
<1> DEFINE Inv == TypesInv /\ \A w \in Windows : WindowKnown(w)
<1>1. WireInit => Inv
  BY TypesInit, WindowInit
<1>2. Inv /\ [WireNext]_wireVars => Inv'
  BY TypesNext, WindowNext
<1>3. Inv => SettledViewsAgree
  <2> SUFFICES ASSUME Inv, NEW v \in client.mounted \ (apart \union deserted),
                      Quiet(WindowOf[v]), WindowOf[v] \notin overtaken
               PROVE  client.value[v] = server.state
    BY DEF SettledViewsAgree
  <2> DEFINE w == WindowOf[v]
             sub == w \in server.subscribers
             act == w \in server.activeSubscribers
  <2>1. w \in Windows /\ v \in ViewsOf(w)
    BY DEF TypesInv, WireTypeOK, Client, ViewsOf
  <2>2. client.up[w] = <<>> /\ server.out[w] = <<>>
    BY DEF Quiet
  <2>3. \A kind : ~ Has(<<>>, kind)
    BY DEF Has
  <2>4. WindowKnown(w)
    BY <2>1
  <2>5. Subs(ViewsOf(w), <<>>, sub, act, apart, deserted)
    BY <2>1, <2>2, <2>4 DEF WindowKnown, WindowSubs
  <2>6. Held(v, <<>>, sub, act)
    BY <2>1, <2>5 DEF Subs, ToCome
  <2>7. Tells(v, <<>>, <<>>, sub, act, client.value[v], server.state)
    BY <2>1, <2>2, <2>4 DEF WindowKnown, WindowTold
  <2> QED
    BY <2>3, <2>6, <2>7 DEF Tells, Explained
<1> QED
  BY <1>1, <1>2, <1>3, PTL DEF WireSpec

================================================================================
