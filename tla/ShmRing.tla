------------------------------- MODULE ShmRing -------------------------------
(***************************************************************************)
(* The shared-memory frame ring: one writer thread, readers in other       *)
(* processes, no lock.  core/src/ShmWrite.cpp fills a slot under a         *)
(* sequence word that is odd meanwhile; core/src/ShmRead.cpp copies a slot *)
(* out and keeps the copy only if the word is even and did not move.       *)
(*                                                                         *)
(* Every access to shared memory is a step of its own, in program order:   *)
(* the loads and stores are acquire/release with fences around the copies, *)
(* and the model assumes that much.  The payload is two words, so that a   *)
(* copy can be torn; the slot's metadata is a third.  A word holds the     *)
(* number of the frame it was written for.                                 *)
(***************************************************************************)
EXTENDS Integers, Sequences

CONSTANTS
  LatestReaders,  \* readLatestInto: preview panes, readCenter
  FifoReaders,    \* readSeqInto: grabBurst and the recorder's loop
  SlotCount,      \* ringDepth
  MaxRetries,     \* MAX_READ_RETRIES
  BigFrames,      \* frames whose payload exceeds the readers' buffer
  MaxFrames       \* bound: frames written in a run

ASSUME RingAssumption ==
  /\ SlotCount \in Nat \ {0} /\ MaxRetries \in Nat \ {0} /\ MaxFrames \in Nat
  /\ BigFrames \subseteq 1..MaxFrames
  /\ LatestReaders \intersect FifoReaders = {}

Readers == LatestReaders \union FifoReaders
SlotIds == 0..(SlotCount - 1)
Frames == 0..MaxFrames              \* 0: nothing yet

EmptySlot == [seq |-> 0, first |-> 0, second |-> 0, meta |-> 0]
NoFrame == [seq |-> 0, first |-> 0, second |-> 0, meta |-> 0]

VARIABLES
  latestSeq, latestSlot, closed,  \* SegmentHeader
  slots,                          \* the slot headers and payloads
  wpc, frame, wslot,              \* writer: what is next, on which frame, where
  pc,                             \* reader: what is next
  pos,                            \* lastSeq; wantSeq - 1 for a FIFO reader
  slot, before, copy, retries,    \* reader locals
  delivered,                      \* the last frame handed to the consumer
  skipped                         \* frames a FIFO reader jumped over

headerVars == <<latestSeq, latestSlot, closed>>
writerVars == <<slots, wpc, frame, wslot>>
readerVars == <<pc, pos, slot, before, copy, retries, delivered, skipped>>
vars == <<headerVars, writerVars, readerVars>>

Init ==
  /\ latestSeq = 0 /\ latestSlot = 0 /\ closed = FALSE
  /\ slots = [i \in SlotIds |-> EmptySlot]
  /\ wpc = "idle" /\ frame = 0 /\ wslot = 0
  /\ pc = [r \in Readers |-> "unopened"]
  /\ pos = [r \in Readers |-> 0]
  /\ slot = [r \in Readers |-> 0]
  /\ before = [r \in Readers |-> 0]
  /\ copy = [r \in Readers |-> NoFrame]
  /\ retries = [r \in Readers |-> 0]
  /\ delivered = [r \in Readers |-> NoFrame]
  /\ skipped = [r \in Readers |-> {}]

-----------------------------------------------------------------------------
(* The writer: beginSlot, the producer's copy, publish; setState at the end. *)

\* The sequence word of a slot while the frame after n is being filled in.
FillingWord(n) == 2 * n + 1

BeginSlot ==
  /\ wpc = "idle" /\ ~ closed /\ latestSeq < MaxFrames
  /\ wslot' = (latestSlot + 1) % SlotCount
  /\ frame' = latestSeq + 1
  /\ slots' = [slots EXCEPT ![wslot'].seq = FillingWord(latestSeq)]
  /\ wpc' = "first"
  /\ UNCHANGED <<headerVars, readerVars>>

\* The payload, in two steps, then what publish writes into the slot header.
Fill(word, next) ==
  /\ wpc = word
  /\ slots' = [slots EXCEPT ![wslot] = [@ EXCEPT ![word] = frame]]
  /\ wpc' = next
  /\ UNCHANGED <<headerVars, frame, wslot, readerVars>>

\* The three stores of publish.
PublishOrder == <<"seq", "latestSlot", "latestSeq">>

Store(k, here, next) ==
  /\ wpc = here
  /\ slots' = IF PublishOrder[k] = "seq"
              THEN [slots EXCEPT ![wslot].seq = 2 * frame] ELSE slots
  /\ latestSlot' = IF PublishOrder[k] = "latestSlot" THEN wslot ELSE latestSlot
  /\ latestSeq' = IF PublishOrder[k] = "latestSeq" THEN frame ELSE latestSeq
  /\ wpc' = next
  /\ UNCHANGED <<closed, frame, wslot, readerVars>>

FinishFrame ==
  \/ Fill("first", "second") \/ Fill("second", "meta") \/ Fill("meta", "store1")
  \/ Store(1, "store1", "store2") \/ Store(2, "store2", "store3")
  \/ Store(3, "store3", "idle")

Write == BeginSlot \/ FinishFrame

\* PipeHub::drop stops the producer before Publisher::close stores CLOSED.
Close ==
  /\ wpc = "idle" /\ ~ closed
  /\ closed' = TRUE
  /\ UNCHANGED <<latestSeq, latestSlot, writerVars, readerVars>>

-----------------------------------------------------------------------------
(* The readers.                                                             *)

Goto(r, next) == pc' = [pc EXCEPT ![r] = next]
Want(r) == pos[r] + 1

\* A FIFO consumer starts after what the ring holds, a preview pane takes
\* the newest frame there is, readCenter the first one after it opened.
Open(r) ==
  /\ pc[r] = "unopened" /\ Goto(r, "idle")
  /\ \E start \in IF r \in FifoReaders THEN {latestSeq} ELSE {0, latestSeq} :
       pos' = [pos EXCEPT ![r] = start]
  /\ UNCHANGED <<headerVars, writerVars, slot, before, copy, retries, delivered,
                 skipped>>

MistakeReadAgain(r) == latestSeq >= pos[r]

\* There is a frame to read: `latest > lastSeq`, `wantSeq <= latest`.
Fresh(r) == latestSeq > pos[r]

\* The first load of latestSeq.
LoadLatest(r) ==
  /\ pc[r] = "idle"
  /\ Goto(r, IF Fresh(r) THEN "slot" ELSE "state")
  /\ retries' = [retries EXCEPT ![r] = 0]
  /\ UNCHANGED <<headerVars, writerVars, pos, slot, before, copy, delivered,
                 skipped>>

MistakeNoReload == "ended"

\* Where a reader that found no frame goes once it sees the segment CLOSED:
\* to load latestSeq again, the first load may predate the final frame.
OnceClosed == "reload"

\* NoNewFrame or NotYet: the consumer polls again.
LoadState(r) ==
  /\ pc[r] = "state"
  /\ Goto(r, IF closed THEN OnceClosed ELSE "idle")
  /\ UNCHANGED <<headerVars, writerVars, pos, slot, before, copy, retries,
                 delivered, skipped>>

\* The second load of latestSeq decides between the last frame and Closed.
Reload(r) ==
  /\ pc[r] = "reload"
  /\ Goto(r, IF Fresh(r) THEN "slot" ELSE "ended")
  /\ UNCHANGED <<headerVars, writerVars, pos, slot, before, copy, retries,
                 delivered, skipped>>

MistakeSlotFromOne(r) == (Want(r) % SlotCount) + 1

\* "seq N occupies slot N % slotCount".
SlotOf(r) == Want(r) % SlotCount

\* Which slot to read: the latest, or the one that must hold the wanted frame.
LoadSlot(r) ==
  /\ pc[r] = "slot" /\ Goto(r, "before")
  /\ slot' = [slot EXCEPT ![r] = IF r \in FifoReaders THEN SlotOf(r)
                                 ELSE latestSlot]
  /\ UNCHANGED <<headerVars, writerVars, pos, before, copy, retries, delivered,
                 skipped>>

\* `continue` of the retry loop: TornRead (the consumer polls again) after
\* MaxRetries attempts.
Retry(r) ==
  /\ Goto(r, IF retries[r] + 1 < MaxRetries THEN "slot" ELSE "idle")
  /\ retries' = [retries EXCEPT ![r] = @ + 1]

\* A word no writer is behind: even, and of some frame.
Stable(word) == word > 0 /\ word % 2 = 0

LoadBefore(r) ==
  /\ pc[r] = "before"
  /\ LET word == slots[slot[r]].seq
         other == r \in FifoReaders /\ word \div 2 # Want(r)
     IN  /\ before' = [before EXCEPT ![r] = word]
         /\ IF Stable(word)
            THEN Goto(r, IF other THEN "gone" ELSE "meta") /\ UNCHANGED retries
            ELSE Retry(r)
  /\ UNCHANGED <<headerVars, writerVars, pos, slot, copy, delivered, skipped>>

MistakeJumpToLatest == latestSeq

\* The oldest frame still in the ring, as Gone reports it.
OldestLive == IF latestSeq >= SlotCount THEN latestSeq - SlotCount + 1 ELSE 1

\* Gone: load latestSeq; the consumer accounts the gap and jumps.
Jump(r) ==
  /\ pc[r] = "gone" /\ Goto(r, "idle")
  /\ skipped' = [skipped EXCEPT ![r] = @ \union (Want(r)..(OldestLive - 1))]
  /\ pos' = [pos EXCEPT ![r] = OldestLive - 1]
  /\ UNCHANGED <<headerVars, writerVars, slot, before, copy, retries, delivered>>

\* payloadBytes (with the rest of the slot's metadata), checked against the
\* size of the destination.
LoadMeta(r) ==
  /\ pc[r] = "meta"
  /\ copy' = [copy EXCEPT ![r].meta = slots[slot[r]].meta]
  /\ Goto(r, IF slots[slot[r]].meta \in BigFrames THEN "recheck" ELSE "first")
  /\ UNCHANGED <<headerVars, writerVars, pos, slot, before, retries, delivered,
                 skipped>>

MistakeTrustLength(r) == TRUE

\* The length was not torn by the writer.
LengthIsReal(r) == slots[slot[r]].seq = before[r]

\* DestTooSmall only if the length was not torn.  It throws: a preview pane
\* polls again, a burst ends.
Recheck(r) ==
  /\ pc[r] = "recheck"
  /\ IF LengthIsReal(r)
     THEN Goto(r, IF r \in FifoReaders THEN "failed" ELSE "idle") /\ UNCHANGED retries
     ELSE Retry(r)
  /\ UNCHANGED <<headerVars, writerVars, pos, slot, before, copy, delivered,
                 skipped>>

\* memcpy, in two steps.
CopyWord(r, word, next) ==
  /\ pc[r] = word /\ Goto(r, next)
  /\ copy' = [copy EXCEPT ![r] = [@ EXCEPT ![word] = slots[slot[r]][word]]]
  /\ UNCHANGED <<headerVars, writerVars, pos, slot, before, retries, delivered,
                 skipped>>

MistakeNoPostCheck(r) == TRUE

\* The post-check of the seqlock.
Untouched(r) == slots[slot[r]].seq = before[r]

LoadAfter(r) ==
  /\ pc[r] = "after"
  /\ LET seq == before[r] \div 2
     IN  IF Untouched(r)
         THEN /\ delivered' = [delivered EXCEPT ![r] = [copy[r] EXCEPT !.seq = seq]]
              /\ pos' = [pos EXCEPT ![r] = seq]
              /\ Goto(r, "idle")
              /\ UNCHANGED retries
         ELSE Retry(r) /\ UNCHANGED <<delivered, pos>>
  /\ UNCHANGED <<headerVars, writerVars, slot, before, copy, skipped>>

Read(r) ==
  \/ Open(r) \/ LoadLatest(r) \/ LoadState(r) \/ Reload(r) \/ LoadSlot(r)
  \/ LoadBefore(r) \/ Jump(r) \/ LoadMeta(r) \/ Recheck(r)
  \/ CopyWord(r, "first", "second") \/ CopyWord(r, "second", "after")
  \/ LoadAfter(r)

Next == Write \/ Close \/ \E r \in Readers : Read(r)

Spec == Init /\ [][Next]_vars

\* Readers keep polling; nobody must write or close, but a fill that began
\* is finished.
FairSpec ==
  /\ Spec
  /\ WF_vars(FinishFrame)
  /\ \A r \in Readers : WF_vars(Read(r))

-----------------------------------------------------------------------------
ReaderPCs == {"unopened", "idle", "state", "reload", "slot", "before", "gone",
              "meta", "recheck", "first", "second", "after", "ended", "failed"}
Words == 0..(2 * MaxFrames + 1)
Copies == [seq : Frames, first : Frames, second : Frames, meta : Frames]

TypeOK ==
  /\ latestSeq \in Frames /\ latestSlot \in SlotIds /\ closed \in BOOLEAN
  /\ slots \in [SlotIds -> [seq : Words, first : Frames, second : Frames,
                            meta : Frames]]
  /\ wpc \in {"idle", "first", "second", "meta", "store1", "store2", "store3"}
  /\ frame \in Frames /\ wslot \in SlotIds
  /\ pc \in [Readers -> ReaderPCs]
  /\ pos \in [Readers -> Frames]
  /\ slot \in [Readers -> SlotIds]
  /\ before \in [Readers -> Words]
  /\ copy \in [Readers -> Copies]
  /\ retries \in [Readers -> 0..MaxRetries]
  /\ delivered \in [Readers -> Copies]
  /\ skipped \in [Readers -> SUBSET (1..MaxFrames)]

\* What a consumer is handed is one frame: both halves of the payload and
\* the metadata belong to the number it is delivered under, whatever the
\* writer did to the slot during the copy.
FramesAreIntact ==
  \A r \in Readers :
    LET d == delivered[r]
    IN  d.first = d.seq /\ d.second = d.seq /\ d.meta = d.seq

\* A consumer is told Closed only when no published frame is left for it:
\* closing concurrently with its last polls never loses the final frame.
ClosedAfterTheLastFrame ==
  \A r \in Readers : pc[r] = "ended" => closed /\ pos[r] = latestSeq

\* A reader reports a buffer too small only if the frame it read the length
\* of is too big: a torn length is never reported.
TooSmallIsReal ==
  \A r \in FifoReaders : pc[r] = "failed" => before[r] \div 2 \in BigFrames

\* Every consumer of a closed ring comes to its end.  (A preview pane whose
\* buffer cannot take the last frame would poll it for ever; panes allocate
\* whole slots, so that it is never the case.)
ClosedIsNoticed ==
  \A r \in Readers :
    closed /\ (r \in LatestReaders => latestSeq \notin BigFrames)
      ~> pc[r] \in {"ended", "failed"}

\* What the ring implements: a stream read forward, with frames skipped only
\* when they are a whole ring behind.  A frame counts as published when its
\* slot becomes stable.
Stream == INSTANCE LossyStream WITH
  Fifo <- FifoReaders,
  Depth <- SlotCount,
  published <- IF wpc \in {"store2", "store3"} THEN frame ELSE latestSeq,
  ended <- closed,
  pos <- pos,
  last <- [r \in Readers |-> delivered[r].seq],
  phase <- [r \in Readers |->
              CASE pc[r] = "unopened" -> "new"
                [] pc[r] = "ended" -> "ended"
                [] pc[r] = "failed" -> "failed"
                [] OTHER -> "reading"]

ImplementsLossyStream == Stream!StreamSpec

-----------------------------------------------------------------------------
\* "Report the oldest still-live seq ... so the consumer jumps forward":
\* every Gone moves the consumer past the frame it asked for.
GoneJumpsForward ==
  [][\A r \in FifoReaders : pc[r] = "gone" /\ pc'[r] = "idle" => pos'[r] > pos[r]]_vars
=============================================================================
