------------------------------- MODULE ShmClient -------------------------------
(***************************************************************************)
(* The pool of pixel buffers of one renderer window (shm-client.ts), and   *)
(* everyone it lends to.                                                   *)
(*                                                                         *)
(* A read of shared memory is a message that carries a buffer to the       *)
(* preload (preload-renderer.ts) and back; the two directions are FIFO.    *)
(* The buffer then belongs to the reader, a pipe consumer                  *)
(* (pipe-consumer.ts) or a frame ref (useSession().frame, client.ts),      *)
(* which shows it and gives it back.  A read times out; its answer may     *)
(* still come, and only then is the buffer back.                           *)
(*                                                                         *)
(* Buffers stand for request ids: a request takes one along, and no other  *)
(* request can have it before it is back.                                  *)
(***************************************************************************)
EXTENDS Naturals, Sequences, FiniteSets, SequencesExt

CONSTANTS
  Pipes,       \* pipe consumers
  Refs,        \* frame refs
  Segments,    \* the pipes' rings
  SegmentOf,   \* the ring a pipe consumer reads
  Sizes,       \* byte lengths of buffers
  SizeOf,      \* the byte length a reader asks for
  Buffers,     \* bound: buffers that exist at a time
  MaxFrames,   \* bound: frames published to a ring
  None         \* no buffer

Readers == Pipes \union Refs

ASSUME ReadersAssumption ==
  /\ Pipes \intersect Refs = {}
  /\ SegmentOf \in [Pipes -> Segments] /\ SizeOf \in [Readers -> Sizes]
ASSUME BuffersAssumption ==
  /\ None \notin Buffers /\ IsFiniteSet(Buffers) /\ IsFiniteSet(Readers)
  /\ MaxFrames \in Nat

VARIABLES
  \* the client
  pools,       \* SizeBucket of each size
  pending,     \* the reads that are waited for: the buffers they took along
  disposed,
  \* the port
  requests, answers,
  \* the readers
  mode,        \* pipe: new, running, closed, stopped; ref: new, attached, disposed, late
  held,        \* the buffer that is displayed
  current,     \* the poll in flight, or the newest flush (its token)
  scheduled,   \* refs with a frame that waits for its flush
  lastSeq,
  \* the rings, and the preload's handles on them
  published, life, mapped

readerVars == <<mode, held, current, scheduled, lastSeq>>
ringVars == <<published, life>>
vars == <<pools, pending, disposed, requests, answers, readerVars, ringVars, mapped>>

NoBucket == [free |-> {}, outstanding |-> 0, windowPeak |-> 0, prevWindowPeak |-> 0,
             elapsed |-> 0]

Init ==
  /\ pools = [s \in Sizes |-> NoBucket]
  /\ pending = {} /\ disposed = FALSE
  /\ requests = <<>> /\ answers = <<>>
  /\ mode = [r \in Readers |-> "new"]
  /\ held = [r \in Readers |-> None]
  /\ current = [r \in Readers |-> None]
  /\ scheduled = {}
  /\ lastSeq = [p \in Pipes |-> 0]
  /\ published = [g \in Segments |-> 0]
  /\ life = [g \in Segments |-> "live"]
  /\ mapped = {}

\* The buffers that are somewhere; the others are garbage, or not allocated.
InUse ==
  (UNION {pools[s].free : s \in Sizes})
    \union {held[r] : r \in {x \in Readers : held[x] # None}}
    \union {m.buffer : m \in ToSet(requests) \union ToSet(answers)}

-----------------------------------------------------------------------------
(* The pool.                                                                *)

Larger(m, n) == IF m >= n THEN m ELSE n

\* retentionCap rotates the window on access: elapsed counts whole windows.
Rotated(b) ==
  IF b.elapsed = 0 THEN b
  ELSE [b EXCEPT !.prevWindowPeak = IF b.elapsed >= 2 THEN 0 ELSE b.windowPeak,
                 !.windowPeak = b.outstanding,
                 !.elapsed = 0]

RetentionCap(b) == Larger(b.windowPeak, b.prevWindowPeak)

MistakeKeepsBelowOutstanding(b) == Cardinality(b.free) < b.outstanding

Keeps(b) == Cardinality(b.free) < RetentionCap(b)

\* recycle: keep the buffer, if it is one, up to the cap, or let it go.
Recycled(b, buffer) ==
  LET back == [b EXCEPT !.outstanding = IF @ = 0 THEN 0 ELSE @ - 1]
      r == Rotated(back)
  IN  IF buffer = None THEN b
      ELSE IF Keeps(r) THEN [r EXCEPT !.free = @ \union {buffer}] ELSE r

\* Up to two buffers of this size come back, one after the other.
Recycle(size, first, second) ==
  pools' = [pools EXCEPT ![size] = Recycled(Recycled(@, first), second)]

\* The sizes that checkout drops: idle ones, since another size is in use.
Idle(keep) == {s \in Sizes \ {keep} : pools[s].outstanding = 0}

\* checkout: a free buffer of this size, or a new one.
Checkout(size, buffer) ==
  LET b == Rotated([pools[size] EXCEPT !.outstanding = @ + 1])
      peaked == [b EXCEPT !.windowPeak = Larger(@, b.outstanding)]
  IN  /\ IF peaked.free # {} THEN buffer \in peaked.free ELSE buffer \notin InUse
      /\ pools' = [s \in Sizes |->
                     IF s = size THEN [peaked EXCEPT !.free = @ \ {buffer}]
                     ELSE IF s \in Idle(size) THEN NoBucket ELSE pools[s]]

\* transferRead, readPipe: send a buffer along with the request.
Request(r, buffer, last) ==
  /\ ~ disposed
  /\ Checkout(SizeOf[r], buffer)
  /\ pending' = pending \union {buffer}
  /\ requests' = Append(requests, [buffer |-> buffer, reader |-> r, last |-> last])
  /\ current' = [current EXCEPT ![r] = buffer]

\* The retention window of a size goes by.
WindowElapses(s) ==
  /\ pools[s] # NoBucket /\ pools[s].elapsed < 2
  /\ pools' = [pools EXCEPT ![s].elapsed = @ + 1]
  /\ UNCHANGED <<pending, disposed, requests, answers, readerVars, ringVars, mapped>>

-----------------------------------------------------------------------------
(* A pipe consumer: start, poll, stop.                                      *)

Start(p) ==
  /\ p \in Pipes /\ mode[p] = "new"
  /\ mode' = [mode EXCEPT ![p] = "running"]
  /\ UNCHANGED <<pools, pending, disposed, requests, answers, held, current, scheduled,
                 lastSeq, ringVars, mapped>>

\* One poll at a time; on a disposed client it fails and is tried again.
Poll(p) ==
  /\ p \in Pipes /\ mode[p] = "running" /\ current[p] = None
  /\ \E buffer \in Buffers : Request(p, buffer, lastSeq[p])
  /\ UNCHANGED <<disposed, answers, mode, held, scheduled, lastSeq, ringVars, mapped>>

MistakeStillDisplayed(p) == held

\* stop() forgets the buffer it gives back.
DisplayAfterStop(p) == [held EXCEPT ![p] = None]

Stop(p) ==
  /\ p \in Pipes /\ mode[p] \in {"running", "closed"}
  /\ mode' = [mode EXCEPT ![p] = "stopped"]
  /\ Recycle(SizeOf[p], held[p], None)
  /\ held' = DisplayAfterStop(p)
  /\ UNCHANGED <<pending, disposed, requests, answers, current, scheduled, lastSeq,
                 ringVars, mapped>>

-----------------------------------------------------------------------------
(* A frame ref of useSession.                                               *)

\* The channel comes up and the ref listens.  A continuation cannot be
\* cancelled: disposal before it does not stop it.
Attach(f) ==
  /\ f \in Refs /\ mode[f] \in {"new", "disposed"}
  /\ mode' = [mode EXCEPT ![f] = IF @ = "new" THEN "attached" ELSE "late"]
  /\ UNCHANGED <<pools, pending, disposed, requests, answers, held, current, scheduled,
                 lastSeq, ringVars, mapped>>

\* A descriptor arrives: keep it as the latest and schedule a flush.
FrameArrives(f) ==
  /\ f \in Refs /\ mode[f] \in {"attached", "late"}
  /\ scheduled' = scheduled \union {f}
  /\ UNCHANGED <<pools, pending, disposed, requests, answers, mode, held, current,
                 lastSeq, ringVars, mapped>>

Flush(f) ==
  /\ f \in scheduled
  /\ scheduled' = scheduled \ {f}
  /\ \E buffer \in Buffers : Request(f, buffer, 0)
  /\ UNCHANGED <<disposed, answers, mode, held, lastSeq, ringVars, mapped>>

\* The read is refused at once, and the display is cleared.
FlushRefused(f) ==
  /\ f \in scheduled /\ disposed
  /\ scheduled' = scheduled \ {f}
  /\ Recycle(SizeOf[f], held[f], None)
  /\ held' = [held EXCEPT ![f] = None]
  /\ current' = [current EXCEPT ![f] = None]
  /\ UNCHANGED <<pending, disposed, requests, answers, mode, lastSeq, ringVars, mapped>>

\* Disposal cancels the pending flush, and bumps the token, which outdates the
\* read in flight.
MistakeFlushAfterDisposal(f) == scheduled

ScheduledAfterDisposal(f) == scheduled \ {f}

MistakeKeepToken(f) == current

TokensAfterDisposal(f) == [current EXCEPT ![f] = None]

DisposeRef(f) ==
  /\ f \in Refs /\ mode[f] \in {"new", "attached"}
  /\ mode' = [mode EXCEPT ![f] = "disposed"]
  /\ scheduled' = ScheduledAfterDisposal(f)
  /\ Recycle(SizeOf[f], held[f], None)
  /\ held' = [held EXCEPT ![f] = None]
  /\ current' = TokensAfterDisposal(f)
  /\ UNCHANGED <<pending, disposed, requests, answers, lastSeq, ringVars, mapped>>

-----------------------------------------------------------------------------
(* The preload reads the ring of the request at the head, and answers.      *)

\* handlePipeRead: reading the end drops the handle, so that the ring is
\* opened again, which fails once it is gone; the writer may tear a read.
PipeOutcomes(g, last) ==
  IF g \notin mapped /\ life[g] = "closed" THEN {"error"}
  ELSE (IF published[g] > last THEN {"frame"}
        ELSE IF life[g] = "closed" THEN {"closed"} ELSE {"none"})
       \union (IF life[g] = "live" THEN {"none"} ELSE {})

\* readShmFrame: a frame, none, or an error.
RefOutcomes == {"frame", "none", "error"}

Answer(m, outcome, seq) ==
  /\ requests' = Tail(requests)
  /\ answers' = Append(answers, [buffer |-> m.buffer, reader |-> m.reader,
                                 outcome |-> outcome, seq |-> seq])

PreloadReadsPipe ==
  /\ requests # <<>> /\ Head(requests).reader \in Pipes
  /\ LET m == Head(requests)
         g == SegmentOf[m.reader]
     IN  \E outcome \in PipeOutcomes(g, m.last) :
           /\ Answer(m, outcome, IF outcome = "frame" THEN published[g] ELSE 0)
           /\ mapped' = IF outcome \in {"closed", "error"} THEN mapped \ {g}
                                                           ELSE mapped \union {g}
  /\ UNCHANGED <<pools, pending, disposed, readerVars, ringVars>>

PreloadReadsFrame ==
  /\ requests # <<>> /\ Head(requests).reader \in Refs
  /\ \E outcome \in RefOutcomes : Answer(Head(requests), outcome, 0)
  /\ UNCHANGED <<pools, pending, disposed, readerVars, ringVars, mapped>>

-----------------------------------------------------------------------------
(* Answers and timeouts.  A settled read and its continuation in the reader *)
(* are one step.                                                            *)

Taken(m) == answers # <<>> /\ m = Head(answers) /\ answers' = Tail(answers)

MistakeDropStale(m) == None

\* The read is not waited for any more: reclaim its buffer.
Reclaimed(m) == m.buffer

StaleAnswer ==
  \E m \in ToSet(answers) :
    /\ Taken(m) /\ m.buffer \notin pending
    /\ Recycle(SizeOf[m.reader], Reclaimed(m), None)
    /\ UNCHANGED <<pending, disposed, requests, readerVars, ringVars, mapped>>

MistakeNoLivenessRecheck(p) == TRUE

\* The recheck after the await: stop() did not land meanwhile.
StillWanted(p) == mode[p] = "running"

\* onPipeDone and the rest of poll().
PipeAnswer ==
  \E m \in ToSet(answers) :
    LET p == m.reader
        show == m.outcome = "frame" /\ StillWanted(p)
    IN  /\ Taken(m) /\ p \in Pipes /\ m.buffer \in pending
        /\ pending' = pending \ {m.buffer}
        /\ current' = [current EXCEPT ![p] = None]
        /\ Recycle(SizeOf[p], IF show THEN held[p] ELSE m.buffer, None)
        /\ held' = IF show THEN [held EXCEPT ![p] = m.buffer] ELSE held
        /\ lastSeq' = IF show THEN [lastSeq EXCEPT ![p] = m.seq] ELSE lastSeq
        /\ mode' = IF m.outcome = "closed" /\ mode[p] = "running"
                   THEN [mode EXCEPT ![p] = "closed"] ELSE mode
        /\ UNCHANGED <<disposed, requests, scheduled, ringVars, mapped>>

\* The continuation of a flush: buffer is the frame it got, or None.  An
\* outdated flush gives its frame back; the newest one replaces the display.
Displaced(f, newest, buffer) == IF newest THEN held[f] ELSE buffer

\* onDone and the continuation of the flush.
RefAnswer ==
  \E m \in ToSet(answers) :
    LET f == m.reader
        newest == current[f] = m.buffer
        frame == IF m.outcome = "frame" THEN m.buffer ELSE None
        unused == IF frame = None THEN m.buffer ELSE None
    IN  /\ Taken(m) /\ f \in Refs /\ m.buffer \in pending
        /\ pending' = pending \ {m.buffer}
        /\ Recycle(SizeOf[f], unused, Displaced(f, newest, frame))
        /\ held' = IF newest THEN [held EXCEPT ![f] = frame] ELSE held
        /\ current' = IF newest THEN [current EXCEPT ![f] = None] ELSE current
        /\ UNCHANGED <<disposed, requests, mode, scheduled, lastSeq, ringVars, mapped>>

\* The reads that wait, by reader.
ReaderOf(buffer) ==
  CHOOSE r \in Readers :
    \E m \in ToSet(requests) \union ToSet(answers) : m.buffer = buffer /\ m.reader = r

\* A poll returns, and is repeated.
PipeTimeout(buffer) ==
  /\ buffer \in pending /\ ReaderOf(buffer) \in Pipes
  /\ pending' = pending \ {buffer}
  /\ current' = [current EXCEPT ![ReaderOf(buffer)] = None]
  /\ UNCHANGED <<pools, disposed, requests, answers, mode, held, scheduled, lastSeq,
                 ringVars, mapped>>

\* The newest flush clears the display.
RefTimeout(buffer) ==
  LET f == ReaderOf(buffer)
      newest == current[f] = buffer
  IN  /\ buffer \in pending /\ f \in Refs
      /\ pending' = pending \ {buffer}
      /\ Recycle(SizeOf[f], Displaced(f, newest, None), None)
      /\ held' = IF newest THEN [held EXCEPT ![f] = None] ELSE held
      /\ current' = IF newest THEN [current EXCEPT ![f] = None] ELSE current
      /\ UNCHANGED <<disposed, requests, answers, mode, scheduled, lastSeq, ringVars,
                     mapped>>

\* dispose(): the port closes, and what it carries is lost; every read is
\* rejected, which ends polls and clears the display of a newest flush.
Dispose ==
  /\ ~ disposed /\ disposed' = TRUE
  /\ pending' = {} /\ requests' = <<>> /\ answers' = <<>>
  /\ pools' = [s \in Sizes |-> NoBucket]
  /\ held' = [r \in Readers |->
                IF r \in Refs /\ current[r] \in pending THEN None ELSE held[r]]
  /\ current' = [r \in Readers |-> None]
  /\ UNCHANGED <<mode, scheduled, lastSeq, ringVars, mapped>>

-----------------------------------------------------------------------------
(* The publishers.                                                          *)

Publish(g) ==
  /\ life[g] = "live" /\ published[g] < MaxFrames
  /\ published' = [published EXCEPT ![g] = @ + 1]
  /\ UNCHANGED <<pools, pending, disposed, requests, answers, readerVars, life, mapped>>

Close(g) ==
  /\ life[g] = "live"
  /\ life' = [life EXCEPT ![g] = "closed"]
  /\ UNCHANGED <<pools, pending, disposed, requests, answers, readerVars, published, mapped>>

Preload == PreloadReadsPipe \/ PreloadReadsFrame
OnMessage == StaleAnswer \/ PipeAnswer \/ RefAnswer

Next ==
  \/ Preload \/ OnMessage \/ Dispose
  \/ \E s \in Sizes : WindowElapses(s)
  \/ \E p \in Pipes : Start(p) \/ Poll(p) \/ Stop(p)
  \/ \E f \in Refs :
       Attach(f) \/ FrameArrives(f) \/ Flush(f) \/ FlushRefused(f) \/ DisposeRef(f)
  \/ \E buffer \in Buffers : PipeTimeout(buffer) \/ RefTimeout(buffer)
  \/ \E g \in Segments : Publish(g) \/ Close(g)

Spec == Init /\ [][Next]_vars

\* The preload and the window's event loop run, and polls are paced by
\* animation frames.
FairSpec ==
  /\ Spec
  /\ WF_vars(Preload) /\ WF_vars(OnMessage)
  /\ \A p \in Pipes : WF_vars(Poll(p))

-----------------------------------------------------------------------------
Modes == [Readers -> {"new", "running", "closed", "stopped",
                      "attached", "disposed", "late"}]

Bucket ==
  [free : SUBSET Buffers, outstanding : 0 .. Cardinality(Buffers),
   windowPeak : 0 .. Cardinality(Buffers), prevWindowPeak : 0 .. Cardinality(Buffers),
   elapsed : 0 .. 2]

TypeOK ==
  /\ pools \in [Sizes -> Bucket]
  /\ pending \subseteq {m.buffer : m \in ToSet(requests) \union ToSet(answers)}
  /\ disposed \in BOOLEAN
  /\ requests \in Seq([buffer : Buffers, reader : Readers, last : 0 .. MaxFrames])
  /\ answers \in Seq([buffer : Buffers, reader : Readers, seq : 0 .. MaxFrames,
                      outcome : {"frame", "none", "closed", "error"}])
  /\ mode \in Modes
  /\ held \in [Readers -> Buffers \union {None}]
  /\ current \in [Readers -> Buffers \union {None}]
  /\ scheduled \subseteq {f \in Refs : mode[f] \in {"attached", "late"}}
  /\ lastSeq \in [Pipes -> 0 .. MaxFrames]
  /\ published \in [Segments -> 0 .. MaxFrames]
  /\ life \in [Segments -> {"live", "closed"}]
  /\ mapped \subseteq Segments

OnTheWay(s) ==
  Cardinality({n \in DOMAIN requests : SizeOf[requests[n].reader] = s})
  + Cardinality({n \in DOMAIN answers : SizeOf[answers[n].reader] = s})
Displayed(s) == {r \in Readers : SizeOf[r] = s /\ held[r] # None}

\* A buffer is free, on its way, or displayed by one reader: pixels that are
\* shown are never sent to be overwritten, and none is given back twice,
\* whatever order stops, timeouts, late answers and disposals come in.
BuffersHaveOneOwner ==
  Cardinality(InUse)
    = Cardinality({x \in Sizes \X Buffers : x[2] \in pools[x[1]].free})
      + Len(requests) + Len(answers) + Cardinality({r \in Readers : held[r] # None})

\* A size's outstanding count, by which it is evicted and its cap is set, is
\* the number of buffers that will come back.
OutstandingIsReal ==
  ~ disposed => \A s \in Sizes :
                  pools[s].outstanding = OnTheWay(s) + Cardinality(Displayed(s))

\* A steady stream does not allocate: as many buffers are kept as were out at
\* once in the current window or the one before.
WorkingSetIsRetained ==
  \A s \in Sizes :
    RetentionCap(pools[s]) <= Cardinality(pools[s].free) + pools[s].outstanding

\* A reader that was stopped or disposed of displays nothing, whatever arrives
\* later.
GoneReadersShowNothing ==
  \A r \in Readers : mode[r] \in {"stopped", "disposed"} => held[r] = None

-----------------------------------------------------------------------------
(* What comments say and the code does not do.                              *)

\* pipe-consumer.ts: on CLOSED the consumer stops.
ClosedIsHeard ==
  \A p \in Pipes :
    (mode[p] = "running" /\ life[SegmentOf[p]] = "closed" /\ SegmentOf[p] \in mapped)
      ~> (mode[p] # "running" \/ disposed)

\* client.ts: a session's subscriptions are torn down with the effect scope.
NoRefComesUpLate == \A f \in Refs : mode[f] = "late" => held[f] = None

\* shm-client.ts: the cap never drops below a peak of the last window.
CapCoversWhatIsOut ==
  [][\A s \in Sizes : pools'[s] # NoBucket /\ pools'[s] # pools[s]
                        => RetentionCap(pools'[s]) >= pools[s].outstanding]_vars
=============================================================================
