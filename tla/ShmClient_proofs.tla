--------------------------- MODULE ShmClient_proofs ---------------------------
(***************************************************************************)
(* Proofs about the buffer pool of a window, for all readers, sizes and    *)
(* buffers.  A buffer has one owner: it is free in one bucket, in one      *)
(* message, or on one display, or it is garbage.  From that the pool's     *)
(* counts are what they stand for, and the working set is retained.        *)
(*                                                                         *)
(* Whatever comes back - a late answer, an outdated flush, a frame that is *)
(* displaced, the display of a reader that stops - is one kind of step,    *)
(* Returned below: of the buffers that an answer and a display hold, each  *)
(* goes to the pool or stays on the display.                               *)
(***************************************************************************)
EXTENDS ShmClient, FiniteSetTheorems, TLAPS

AnyBucket ==
  [free : SUBSET Buffers, outstanding : Nat, windowPeak : Nat, prevWindowPeak : Nat,
   elapsed : 0 .. 2]

\* The types, with the counts of the pool left open.
Shape ==
  /\ pools \in [Sizes -> AnyBucket]
  /\ disposed \in BOOLEAN
  /\ requests \in Seq([buffer : Buffers, reader : Readers, last : 0 .. MaxFrames])
  /\ answers \in Seq([buffer : Buffers, reader : Readers, seq : 0 .. MaxFrames,
                      outcome : {"frame", "none", "closed", "error"}])
  /\ mode \in Modes
  /\ held \in [Readers -> Buffers \union {None}]
  /\ current \in [Readers -> Buffers \union {None}]
  /\ scheduled \subseteq {f \in Refs : mode[f] \in {"attached", "late"}}
  /\ lastSeq \in [Pipes -> 0 .. MaxFrames]
  /\ published \in [Segments -> 0 .. MaxFrames]
  /\ life \in [Segments -> {"live", "closed"}]
  /\ mapped \subseteq Segments

Carried(q) == {q[n].buffer : n \in DOMAIN q}
CarriedFor(q, s) == {q[n].buffer : n \in {k \in DOMAIN q : SizeOf[q[k].reader] = s}}
Distinct(q) == \A i, j \in DOMAIN q : q[i].buffer = q[j].buffer => i = j

\* What a reader displays, and everything of a size that is out.
Shown(r) == {held[r]} \ {None}
Out(s) ==
  CarriedFor(requests, s) \union CarriedFor(answers, s)
    \union {held[r] : r \in Displayed(s)}

\* One owner, place by place.
OwnersApart ==
  /\ Distinct(requests) /\ Distinct(answers)
  /\ Carried(requests) \intersect Carried(answers) = {}
  /\ \A s, t \in Sizes : s # t => pools[s].free \intersect pools[t].free = {}
  /\ \A s \in Sizes :
       pools[s].free \intersect (Carried(requests) \union Carried(answers)) = {}
  /\ \A r \in Readers :
       /\ Shown(r) \intersect (Carried(requests) \union Carried(answers)) = {}
       /\ \A s \in Sizes : Shown(r) \intersect pools[s].free = {}
  /\ \A r, o \in Readers : r # o => Shown(r) \intersect Shown(o) = {}

\* A peak is covered by the buffers that are kept or out.
Retains(b) ==
  /\ b.windowPeak <= Cardinality(b.free) + b.outstanding
  /\ b.prevWindowPeak <= Cardinality(b.free) + b.outstanding

\* The counts are those of the buffers that are out; nothing is counted after
\* disposal.
Books ==
  /\ disposed => /\ requests = <<>> /\ answers = <<>>
                 /\ pools = [s \in Sizes |-> NoBucket]
  /\ ~ disposed => \A s \in Sizes :
                     pools[s].outstanding = Cardinality(Out(s)) /\ Retains(pools[s])

\* Answers are awaited by those that are there, and who is gone awaits none.
ReadersGone ==
  /\ \A p \in Pipes : mode[p] \in {"new", "running", "closed", "stopped"}
  /\ \A f \in Refs : mode[f] \in {"new", "attached", "disposed", "late"}
  /\ \A r \in Readers : mode[r] \in {"stopped", "disposed"} => held[r] = None
  /\ \A f \in Refs : mode[f] = "disposed" => current[f] = None

PendingIsOut == pending \subseteq Carried(requests) \union Carried(answers)

PoolInv == Shape /\ OwnersApart /\ Books /\ ReadersGone /\ PendingIsOut

-----------------------------------------------------------------------------
(* The buckets.                                                             *)

USE ReadersAssumption, BuffersAssumption

LEMMA BufferSets ==
  ASSUME NEW S \in SUBSET Buffers
  PROVE  IsFiniteSet(S) /\ Cardinality(S) \in Nat /\ Cardinality(S) <= Cardinality(Buffers)
         /\ Cardinality(Buffers) \in Nat
  BY FS_Subset, FS_CardinalityType

LEMMA OneMore ==
  ASSUME NEW S \in SUBSET Buffers, NEW x \in Buffers, x \notin S, NEW T, T = S \union {x}
  PROVE  Cardinality(T) = Cardinality(S) + 1 /\ Cardinality(S) \in Nat
         /\ Cardinality(T) \in Nat
<1>1. IsFiniteSet(S) /\ Cardinality(S) \in Nat
  BY BufferSets
<1>2. Cardinality(S \union {x}) = Cardinality(S) + 1
  BY <1>1, FS_AddElement
<1>. QED BY <1>1, <1>2

LEMMA OneLess ==
  ASSUME NEW S \in SUBSET Buffers, NEW x \in S, NEW T, T = S \ {x}
  PROVE  Cardinality(S) = Cardinality(T) + 1 /\ Cardinality(S) \in Nat
         /\ Cardinality(T) \in Nat
<1>1. T \in SUBSET Buffers /\ x \notin T /\ x \in Buffers /\ S = T \union {x}
  OBVIOUS
<1>. QED BY <1>1, OneMore

\* Rotation keeps what is free and what is out, and no peak grows beyond what
\* bounds the peaks and what is out.
LEMMA RotatedBucket ==
  ASSUME NEW b \in AnyBucket, NEW m \in Nat,
         b.windowPeak <= m, b.prevWindowPeak <= m, b.outstanding <= m,
         NEW n, n = Rotated(b)
  PROVE  /\ n \in AnyBucket /\ n.free = b.free /\ n.outstanding = b.outstanding
         /\ n.windowPeak <= m /\ n.prevWindowPeak <= m
<1>1. CASE b.elapsed = 0
  BY <1>1 DEF Rotated
<1>2. CASE b.elapsed # 0
  <2>1. PICK p : p = IF b.elapsed >= 2 THEN 0 ELSE b.windowPeak
    OBVIOUS
  <2>2. n = [free |-> b.free, outstanding |-> b.outstanding,
             windowPeak |-> b.outstanding, prevWindowPeak |-> p, elapsed |-> 0]
    BY <1>2, <2>1 DEF Rotated, AnyBucket
  <2>3. p \in Nat /\ p <= m
    BY <2>1 DEF AnyBucket
  <2>. QED BY <2>2, <2>3 DEF AnyBucket
<1>. QED BY <1>1, <1>2

LEMMA RotatedFree ==
  ASSUME NEW b \in AnyBucket, NEW n, n = Rotated(b)
  PROVE  n \in AnyBucket /\ n.free = b.free
<1>1. PICK m \in Nat : m = b.windowPeak + b.prevWindowPeak + b.outstanding
  BY DEF AnyBucket
<1>2. b.windowPeak <= m /\ b.prevWindowPeak <= m /\ b.outstanding <= m
  BY <1>1 DEF AnyBucket
<1>. QED BY <1>2, RotatedBucket

\* A buffer comes back: it is kept or let go, and it is counted out.
LEMMA RecycledBucket ==
  ASSUME NEW b \in AnyBucket, Retains(b), NEW S \in SUBSET Buffers,
         b.outstanding = Cardinality(S), S \intersect b.free = {},
         NEW x \in Buffers \union {None}, x # None => x \in S,
         NEW r, r = Recycled(b, x), NEW T, T = S \ {x}
  PROVE  /\ r \in AnyBucket /\ Retains(r) /\ T \in SUBSET Buffers
         /\ r.outstanding = Cardinality(T) /\ T \intersect r.free = {}
         /\ b.free \subseteq r.free /\ r.free \subseteq b.free \union ({x} \ {None})
<1>1. CASE x = None
  <2>1. r = b /\ T = S
    BY <1>1 DEF Recycled
  <2>. QED BY <2>1
<1>2. CASE x # None
  <2>1. /\ IsFiniteSet(S) /\ IsFiniteSet(b.free) /\ Cardinality(b.free) \in Nat
        /\ Cardinality(S) \in Nat
    BY BufferSets DEF AnyBucket
  <2>2. Cardinality(T) = Cardinality(S) - 1 /\ Cardinality(S) > 0 /\ Cardinality(T) \in Nat
    BY <1>2, <2>1, FS_RemoveElement, FS_CardinalityType, FS_EmptySet
  <2>3. PICK back : back = [b EXCEPT !.outstanding = IF @ = 0 THEN 0 ELSE @ - 1]
    OBVIOUS
  <2>4. /\ back \in AnyBucket /\ back.free = b.free /\ back.outstanding = Cardinality(T)
        /\ back.windowPeak = b.windowPeak /\ back.prevWindowPeak = b.prevWindowPeak
        /\ back.elapsed = b.elapsed
    BY <2>2, <2>3 DEF AnyBucket
  <2>5. PICK n : n = Rotated(back)
    OBVIOUS
  <2>6. r = IF Keeps(n) THEN [n EXCEPT !.free = @ \union {x}] ELSE n
    BY <1>2, <2>3, <2>5 DEF Recycled
  <2>7. /\ n \in AnyBucket /\ n.free = b.free /\ n.outstanding = Cardinality(T)
        /\ n.windowPeak <= Cardinality(b.free) + b.outstanding
        /\ n.prevWindowPeak <= Cardinality(b.free) + b.outstanding
    <3>1. PICK m \in Nat : m = Cardinality(b.free) + b.outstanding
      BY <2>1
    <3>2. back.windowPeak <= m /\ back.prevWindowPeak <= m /\ back.outstanding <= m
      BY <2>1, <2>2, <2>4, <3>1 DEF Retains
    <3>. QED BY <2>4, <2>5, <3>1, <3>2, RotatedBucket
  <2>8. CASE Keeps(n)
    <3>1. /\ r \in AnyBucket /\ r.free = b.free \union {x} /\ r.outstanding = Cardinality(T)
          /\ r.windowPeak = n.windowPeak /\ r.prevWindowPeak = n.prevWindowPeak
      BY <1>2, <2>6, <2>7, <2>8 DEF AnyBucket
    <3>2. Cardinality(r.free) = Cardinality(b.free) + 1
      <4>1. b.free \in SUBSET Buffers /\ x \in Buffers /\ x \notin b.free
        BY <1>2 DEF AnyBucket
      <4>. QED BY <3>1, <4>1, OneMore
    <3>3. Retains(r)
      BY <2>1, <2>2, <2>7, <3>1, <3>2 DEF Retains, AnyBucket
    <3>. QED BY <1>2, <3>1, <3>3
  <2>9. CASE ~ Keeps(n)
    <3>1. r = n
      BY <2>6, <2>9
    <3>2. RetentionCap(n) <= Cardinality(n.free)
      BY <2>1, <2>7, <2>9 DEF Keeps, RetentionCap, Larger, AnyBucket
    <3>3. Retains(n)
      BY <2>1, <2>2, <2>7, <3>2 DEF Retains, RetentionCap, Larger, AnyBucket
    <3>. QED BY <2>7, <3>1, <3>3
  <2>. QED BY <2>8, <2>9
<1>. QED BY <1>1, <1>2

LEMMA RecycledNothing ==
  ASSUME NEW x
  PROVE  Recycled(NoBucket, x) = NoBucket
<1>1. PICK back : back = [NoBucket EXCEPT !.outstanding = IF @ = 0 THEN 0 ELSE @ - 1]
  OBVIOUS
<1>2. back = NoBucket
  BY <1>1 DEF NoBucket
<1>3. Rotated(NoBucket) = NoBucket
  BY DEF Rotated, NoBucket
<1>4. ~ Keeps(NoBucket)
  BY FS_EmptySet DEF Keeps, NoBucket, RetentionCap, Larger
<1>. QED BY <1>1, <1>2, <1>3, <1>4 DEF Recycled

\* What checkout makes of a bucket.
Issued(b, x) ==
  LET n == Rotated([b EXCEPT !.outstanding = @ + 1])
      peaked == [n EXCEPT !.windowPeak = Larger(@, n.outstanding)]
  IN  [peaked EXCEPT !.free = @ \ {x}]

\* A buffer goes out: a free one, or a new one when none is free.
LEMMA CheckedOut ==
  ASSUME NEW b \in AnyBucket, Retains(b), NEW S \in SUBSET Buffers,
         b.outstanding = Cardinality(S), NEW x \in Buffers, x \notin S,
         b.free # {} => x \in b.free, NEW r, r = Issued(b, x)
  PROVE  /\ r \in AnyBucket /\ Retains(r) /\ r.free = b.free \ {x}
         /\ r.outstanding = Cardinality(S \union {x})
<1> DEFINE T == S \union {x}
<1>a. PICK n : n = Rotated([b EXCEPT !.outstanding = @ + 1])
  OBVIOUS
<1>b. PICK peaked : peaked = [n EXCEPT !.windowPeak = Larger(@, n.outstanding)]
  OBVIOUS
<1>c. r = [peaked EXCEPT !.free = @ \ {x}]
  BY <1>a, <1>b DEF Issued
<1>1. /\ IsFiniteSet(S) /\ IsFiniteSet(b.free) /\ Cardinality(b.free) \in Nat
      /\ Cardinality(S) \in Nat
  BY BufferSets DEF AnyBucket
<1>2. Cardinality(T) = Cardinality(S) + 1
  BY <1>1, FS_AddElement
<1>3. PICK more : more = [b EXCEPT !.outstanding = @ + 1]
  OBVIOUS
<1>4. /\ more \in AnyBucket /\ more.free = b.free /\ more.outstanding = Cardinality(T)
      /\ more.windowPeak = b.windowPeak /\ more.prevWindowPeak = b.prevWindowPeak
  BY <1>1, <1>2, <1>3 DEF AnyBucket
<1>5. Cardinality(b.free \ {x}) \in Nat
      /\ Cardinality(b.free) + Cardinality(S) <= Cardinality(b.free \ {x}) + Cardinality(T)
  <2>1. CASE x \in b.free
    <3>1. b.free \in SUBSET Buffers
      BY DEF AnyBucket
    <3>2. PICK f : f = b.free \ {x}
      OBVIOUS
    <3>3. Cardinality(b.free) = Cardinality(f) + 1 /\ Cardinality(f) \in Nat
      BY <2>1, <3>1, <3>2, OneLess
    <3>. QED BY <1>1, <1>2, <3>2, <3>3
  <2>2. CASE x \notin b.free
    <3>1. b.free \ {x} = b.free
      BY <2>2
    <3>2. Cardinality(b.free \ {x}) = Cardinality(b.free)
      BY ONLY <3>1
    <3>. QED BY <1>1, <1>2, <3>2
  <2>. QED BY <2>1, <2>2
<1>6. PICK m \in Nat : m = Cardinality(b.free \ {x}) + Cardinality(T)
  BY <1>1, <1>2, <1>5
<1>7. more.windowPeak <= m /\ more.prevWindowPeak <= m /\ more.outstanding <= m
  BY <1>1, <1>2, <1>4, <1>5, <1>6 DEF Retains, AnyBucket
<1>8. /\ n \in AnyBucket /\ n.free = b.free /\ n.outstanding = Cardinality(T)
      /\ n.windowPeak <= m /\ n.prevWindowPeak <= m
  BY <1>a, <1>3, <1>4, <1>7, RotatedBucket
<1>9. /\ r \in AnyBucket /\ r.free = b.free \ {x} /\ r.outstanding = Cardinality(T)
      /\ r.windowPeak = Larger(n.windowPeak, n.outstanding)
      /\ r.prevWindowPeak = n.prevWindowPeak /\ peaked.free = b.free
  BY <1>b, <1>c, <1>8 DEF AnyBucket, Larger
<1>10. Retains(r)
  <2>1. r.windowPeak <= m /\ r.prevWindowPeak <= m
    BY <1>7, <1>4, <1>8, <1>9 DEF Larger
  <2>. QED BY <1>6, <1>9, <2>1 DEF Retains
<1>. QED BY <1>9, <1>10

-----------------------------------------------------------------------------
(* The messages.                                                            *)

\* The message m joins q, which gives more.
Joins(q, m, more) ==
  /\ Carried(more) = Carried(q) \union {m.buffer}
  /\ \A s : CarriedFor(more, s)
              = CarriedFor(q, s) \union (IF SizeOf[m.reader] = s THEN {m.buffer} ELSE {})
  /\ Distinct(q) /\ m.buffer \notin Carried(q) => Distinct(more)

\* A message is sent: its buffer joins those that are carried.
LEMMA MessageSent ==
  ASSUME NEW M, NEW q \in Seq(M), NEW m \in M, NEW more, more = Append(q, m)
  PROVE  more \in Seq(M) /\ Joins(q, m, more)
<1>1. /\ more \in Seq(M) /\ DOMAIN q = 1 .. Len(q) /\ Len(q) \in Nat
      /\ DOMAIN more = 1 .. (Len(q) + 1)
      /\ \A i \in DOMAIN q : more[i] = q[i]
      /\ more[Len(q) + 1] = m
  OBVIOUS
<1>2. DOMAIN more = DOMAIN q \union {Len(q) + 1} /\ Len(q) + 1 \notin DOMAIN q
  BY <1>1
<1>3. Carried(more) = Carried(q) \union {m.buffer}
  BY ONLY <1>1, <1>2 DEF Carried
<1>4. ASSUME NEW s
      PROVE  CarriedFor(more, s)
               = CarriedFor(q, s) \union (IF SizeOf[m.reader] = s THEN {m.buffer} ELSE {})
  BY ONLY <1>1, <1>2 DEF CarriedFor
<1>5. Distinct(q) /\ m.buffer \notin Carried(q) => Distinct(more)
  BY ONLY <1>1, <1>2 DEF Carried, Distinct
<1>. QED BY ONLY <1>1, <1>3, <1>4, <1>5 DEF Joins

\* The message m leaves q and rest remains.
Leaves(q, m, rest) ==
  /\ m.buffer \in Carried(q) /\ m.buffer \in CarriedFor(q, SizeOf[m.reader])
  /\ Carried(rest) = Carried(q) \ {m.buffer}
  /\ \A s : CarriedFor(rest, s) = CarriedFor(q, s) \ {m.buffer}
  /\ \A s : s # SizeOf[m.reader] => m.buffer \notin CarriedFor(q, s)
  /\ Distinct(rest)

\* The message at the head is taken: its buffer leaves.
LEMMA Received ==
  ASSUME NEW M, NEW q \in Seq(M), q # <<>>, Distinct(q), NEW m, m = Head(q),
         NEW rest, rest = Tail(q)
  PROVE  rest \in Seq(M) /\ m \in M /\ Leaves(q, m, rest)
<1>1. /\ rest \in Seq(M) /\ DOMAIN q = 1 .. Len(q) /\ Len(q) \in Nat /\ 1 \in DOMAIN q
      /\ DOMAIN rest = 1 .. (Len(q) - 1)
      /\ \A i \in DOMAIN rest : rest[i] = q[i + 1] /\ i + 1 \in DOMAIN q
      /\ m = q[1] /\ m \in M
  OBVIOUS
<1>2. \A i \in DOMAIN q : i # 1 => i - 1 \in DOMAIN rest /\ rest[i - 1] = q[i]
  BY <1>1
<1>3. Carried(rest) = Carried(q) \ {m.buffer}
  <2>1. ASSUME NEW i \in DOMAIN rest
        PROVE  rest[i].buffer \in Carried(q) /\ rest[i].buffer # m.buffer
    BY <1>1 DEF Carried, Distinct
  <2>2. ASSUME NEW i \in DOMAIN q, q[i].buffer # m.buffer
        PROVE  q[i].buffer \in Carried(rest)
    BY <1>1, <1>2, <2>2 DEF Carried
  <2>. QED BY ONLY <2>1, <2>2 DEF Carried
<1>4. ASSUME NEW s
      PROVE  CarriedFor(rest, s) = CarriedFor(q, s) \ {m.buffer}
  <2>1. ASSUME NEW i \in DOMAIN rest, SizeOf[rest[i].reader] = s
        PROVE  rest[i].buffer \in CarriedFor(q, s) /\ rest[i].buffer # m.buffer
    BY <1>1, <2>1 DEF CarriedFor, Distinct
  <2>2. ASSUME NEW i \in DOMAIN q, SizeOf[q[i].reader] = s, q[i].buffer # m.buffer
        PROVE  q[i].buffer \in CarriedFor(rest, s)
    BY <1>1, <1>2, <2>2 DEF CarriedFor
  <2>. QED BY ONLY <2>1, <2>2 DEF CarriedFor
<1>5. Distinct(rest)
  <2>1. ASSUME NEW i \in DOMAIN rest, NEW j \in DOMAIN rest,
               rest[i].buffer = rest[j].buffer
        PROVE  i = j
    <3>1. i + 1 \in DOMAIN q /\ j + 1 \in DOMAIN q /\ i \in Int /\ j \in Int
      BY <1>1
    <3>2. i + 1 = j + 1
      BY <1>1, <2>1, <3>1 DEF Distinct
    <3>. QED BY <3>1, <3>2
  <2>. QED BY <2>1 DEF Distinct
<1>6. m.buffer \in Carried(q)
      /\ m.buffer \in CarriedFor(q, SizeOf[m.reader])
  BY <1>1 DEF Carried, CarriedFor
<1>7. ASSUME NEW s, s # SizeOf[m.reader]
      PROVE  m.buffer \notin CarriedFor(q, s)
  BY <1>1, <1>7 DEF CarriedFor, Distinct
<1>. QED BY ONLY <1>1, <1>3, <1>4, <1>5, <1>6, <1>7 DEF Leaves

\* What is carried for a size is carried.
LEMMA CarriedBuffers ==
  ASSUME NEW M, NEW q \in Seq(M), \A m \in M : m.buffer \in Buffers
  PROVE  /\ Carried(q) \subseteq Buffers
         /\ \A s : CarriedFor(q, s) \subseteq Carried(q)
  BY DEF Carried, CarriedFor

-----------------------------------------------------------------------------
(* Buffers come back.                                                       *)

Messages == [buffer : Buffers, reader : Readers, last : 0 .. MaxFrames]
Answers == [buffer : Buffers, reader : Readers, seq : 0 .. MaxFrames,
            outcome : {"frame", "none", "closed", "error"}]

\* What an answer that is taken carries, for the reader r or for none.
Takes(r, gone) ==
  \/ gone = {} /\ answers' = answers
  \/ /\ answers # <<>> /\ answers' = Tail(answers)
     /\ Head(answers).reader = r /\ gone = {Head(answers).buffer}

\* Of the buffers that were in the answer and on r's display, a and b go to the
\* pool and d is displayed.
Returned(r, gone, a, b, d) ==
  /\ Takes(r, gone)
  /\ {a, b, d} \ {None} = gone \union Shown(r)
  /\ a # None => a # b /\ a # d
  /\ b # None => b # d
  /\ pools' = [pools EXCEPT ![SizeOf[r]] = Recycled(Recycled(@, a), b)]
  /\ held' = [held EXCEPT ![r] = d]
  /\ requests' = requests /\ disposed' = disposed

LEMMA Queues ==
  ASSUME Shape
  PROVE  /\ requests \in Seq(Messages) /\ answers \in Seq(Answers)
         /\ Carried(requests) \subseteq Buffers /\ Carried(answers) \subseteq Buffers
         /\ \A s : /\ CarriedFor(requests, s) \subseteq Carried(requests)
                  /\ CarriedFor(answers, s) \subseteq Carried(answers)
<1>1. requests \in Seq(Messages) /\ answers \in Seq(Answers)
  BY DEF Shape, Messages, Answers
<1>2. /\ \A m \in Messages : m.buffer \in Buffers
      /\ \A m \in Answers : m.buffer \in Buffers
  BY DEF Messages, Answers
<1>3. /\ Carried(requests) \subseteq Buffers
      /\ \A s : CarriedFor(requests, s) \subseteq Carried(requests)
  BY ONLY <1>1, <1>2, CarriedBuffers, Zenon
<1>4. /\ Carried(answers) \subseteq Buffers
      /\ \A s : CarriedFor(answers, s) \subseteq Carried(answers)
  BY ONLY <1>1, <1>2, CarriedBuffers, Zenon
<1>. QED BY <1>1, <1>3, <1>4

LEMMA TakenAnswer ==
  ASSUME Shape, OwnersApart, NEW r \in Readers, NEW gone, Takes(r, gone)
  PROVE  /\ answers' \in Seq(Answers) /\ Distinct(answers')
         /\ gone \subseteq CarriedFor(answers, SizeOf[r]) /\ gone \subseteq Buffers
         /\ Carried(answers') = Carried(answers) \ gone
         /\ \A s : CarriedFor(answers', s) = CarriedFor(answers, s) \ gone
         /\ \A s : s # SizeOf[r] => CarriedFor(answers, s) \intersect gone = {}
<1>1. answers \in Seq(Answers) /\ SizeOf[r] \in Sizes /\ Distinct(answers)
  BY DEF Shape, Answers, OwnersApart
<1>2. CASE gone = {} /\ answers' = answers
  BY <1>1, <1>2
<1>3. CASE answers # <<>> /\ answers' = Tail(answers) /\ Head(answers).reader = r
           /\ gone = {Head(answers).buffer}
  <2>1. PICK m : m = Head(answers)
    OBVIOUS
  <2>2. PICK rest : rest = Tail(answers)
    OBVIOUS
  <2>3. rest \in Seq(Answers) /\ m \in Answers /\ Leaves(answers, m, rest)
    <3>1. answers \in Seq(Answers) /\ answers # <<>> /\ Distinct(answers)
      BY <1>1, <1>3
    <3>. QED BY ONLY <3>1, <2>1, <2>2, Received, Zenon
  <2>4. answers' = rest /\ m.reader = r /\ gone = {m.buffer} /\ m.buffer \in Buffers
    BY <1>3, <2>1, <2>2, <2>3 DEF Answers
  <2>. QED BY ONLY <1>1, <2>3, <2>4 DEF Leaves
<1>. QED BY <1>2, <1>3 DEF Takes

LEMMA OutIs ==
  ASSUME NEW s, NEW y
  PROVE  y \in Out(s) <=> \/ y \in CarriedFor(requests, s) \/ y \in CarriedFor(answers, s)
                          \/ \E x \in Readers : SizeOf[x] = s /\ y \in Shown(x)
  BY DEF Out, Displayed, Shown

LEMMA OutIsNext ==
  ASSUME NEW s, NEW y
  PROVE  y \in Out(s)' <=> \/ y \in CarriedFor(requests', s) \/ y \in CarriedFor(answers', s)
                           \/ \E x \in Readers : SizeOf[x] = s /\ y \in Shown(x)'
  BY DEF Out, Displayed, Shown, CarriedFor

LEMMA OutBuffers ==
  ASSUME Shape, OwnersApart, NEW s \in Sizes
  PROVE  Out(s) \subseteq Buffers /\ Out(s) \intersect pools[s].free = {}
<1>1. /\ Carried(requests) \subseteq Buffers /\ CarriedFor(requests, s) \subseteq Carried(requests)
      /\ Carried(answers) \subseteq Buffers /\ CarriedFor(answers, s) \subseteq Carried(answers)
  BY Queues
<1>2. \A x \in Readers : Shown(x) \subseteq Buffers
  BY DEF Shown, Shape
<1>. QED BY <1>1, <1>2, OutIs DEF OwnersApart

LEMMA ReturnedOut ==
  ASSUME Shape, OwnersApart, NEW r \in Readers, NEW gone, NEW a, NEW b, NEW d,
         Returned(r, gone, a, b, d), NEW s \in Sizes
  PROVE  /\ s = SizeOf[r] => Out(s)' = (Out(s) \ {a}) \ {b}
         /\ s # SizeOf[r] => Out(s)' = Out(s)
         /\ \A x \in {a, b} : x # None => x \in Out(SizeOf[r])
<1> DEFINE z == SizeOf[r]
           back == gone \union Shown(r)
<1>1. /\ gone \subseteq CarriedFor(answers, z)
      /\ CarriedFor(answers', s) = CarriedFor(answers, s) \ gone
      /\ s # z => CarriedFor(answers, s) \intersect gone = {}
  BY TakenAnswer DEF Returned
<1>2. /\ CarriedFor(requests, s) \subseteq Carried(requests)
      /\ CarriedFor(answers, s) \subseteq Carried(answers)
      /\ CarriedFor(answers, z) \subseteq Carried(answers)
      /\ requests' = requests
  BY Queues DEF Returned
<1>3. /\ \A x \in Readers : x # r => Shown(x)' = Shown(x)
      /\ Shown(r)' = {d} \ {None}
  BY DEF Returned, Shown, Shape
<1>4. /\ {a, b, d} \ {None} = back
      /\ a # None => a # b /\ a # d
      /\ b # None => b # d
  BY DEF Returned
<1>5. /\ back \intersect Carried(requests) = {}
      /\ Shown(r) \intersect Carried(answers) = {}
      /\ \A x \in Readers : x # r => Shown(x) \intersect back = {}
  BY <1>1, <1>2 DEF OwnersApart
<1>6. \A x \in back : x \in Out(z)
  BY <1>1, OutIs
<1>7. \A x \in Readers : None \notin Shown(x)
  BY DEF Shown
<1>8. None \notin CarriedFor(requests, s) /\ None \notin CarriedFor(answers, s)
  BY Queues
<1> HIDE DEF z, back
<1>9. s = z => \A y : y \in Out(s)' <=> y \in Out(s) /\ y # a /\ y # b
  <2> SUFFICES ASSUME s = z, NEW y
               PROVE  y \in Out(s)' <=> y \in Out(s) /\ y # a /\ y # b
    OBVIOUS
  <2>1. ASSUME y \in Out(s)' PROVE y \in Out(s) /\ y # a /\ y # b
    <3>1. CASE y \in CarriedFor(requests, s)
      BY <1>2, <1>4, <1>5, <1>8, <3>1, OutIs
    <3>2. CASE y \in CarriedFor(answers, s) \ gone
      BY <1>2, <1>4, <1>5, <1>8, <3>2, OutIs DEF back
    <3>3. CASE \E x \in Readers : x # r /\ SizeOf[x] = s /\ y \in Shown(x)
      BY <1>4, <1>5, <1>7, <3>3, OutIs
    <3>4. CASE y = d /\ d # None
      BY <1>4, <1>6, <3>4
    <3>. QED BY <1>1, <1>2, <1>3, <2>1, <3>1, <3>2, <3>3, <3>4, OutIsNext
  <2>2. ASSUME y \in Out(s), y # a, y # b PROVE y \in Out(s)'
    <3>1. CASE y \in back
      <4>1. y = d /\ y \in Shown(r)'
        BY <1>3, <1>4, <2>2, <3>1
      <4>. QED BY <4>1, OutIsNext DEF z
    <3>2. CASE y \notin back
      <4>1. CASE y \in CarriedFor(requests, s) \/ y \in CarriedFor(answers, s)
        BY <1>1, <1>2, <3>2, <4>1, OutIsNext DEF back
      <4>2. CASE \E x \in Readers : SizeOf[x] = s /\ y \in Shown(x)
        BY <1>3, <3>2, <4>2, OutIsNext DEF back
      <4>. QED BY <2>2, <4>1, <4>2, OutIs
    <3>. QED BY <3>1, <3>2
  <2>. QED BY <2>1, <2>2
<1>10. s # z => \A y : y \in Out(s)' <=> y \in Out(s)
  <2>1. s # z => /\ CarriedFor(answers', s) = CarriedFor(answers, s)
                 /\ \A x \in Readers : SizeOf[x] = s => Shown(x)' = Shown(x)
    BY <1>1, <1>3 DEF z
  <2>. QED BY <1>2, <2>1, OutIs, OutIsNext
<1>11. \A x \in {a, b} : x # None => x \in Out(z)
  BY <1>4, <1>6
<1>. QED BY <1>9, <1>10, <1>11 DEF z

\* The bucket of r afterwards.
LEMMA ReturnedBucket ==
  ASSUME Shape, OwnersApart, Books, NEW r \in Readers, NEW gone,
         NEW a \in Buffers \union {None}, NEW b \in Buffers \union {None}, NEW d,
         Returned(r, gone, a, b, d), NEW z \in Sizes, z = SizeOf[r]
  PROVE  /\ pools'[z] \in AnyBucket
         /\ pools[z].free \subseteq pools'[z].free
         /\ pools'[z].free \subseteq pools[z].free \union ({a, b} \ {None})
         /\ disposed => pools'[z] = NoBucket
         /\ ~ disposed => /\ Retains(pools'[z])
                          /\ pools'[z].outstanding = Cardinality(Out(z)')
<1>1. PICK o : o = pools[z]
  OBVIOUS
<1>2. PICK p : p = Recycled(o, a)
  OBVIOUS
<1>3. PICK q : q = Recycled(p, b)
  OBVIOUS
<1>4. o \in AnyBucket /\ pools'[z] = q
  BY <1>1, <1>2, <1>3 DEF Returned, Shape
<1>5. CASE disposed
  <2>1. o = NoBucket
    BY <1>1, <1>5 DEF Books
  <2>2. q = NoBucket
    BY <1>2, <1>3, <2>1, RecycledNothing
  <2>. QED BY <1>1, <1>4, <1>5, <2>1, <2>2
<1>6. CASE ~ disposed
  <2>1. PICK S : S = Out(z)
    OBVIOUS
  <2>2. PICK T : T = S \ {a}
    OBVIOUS
  <2>3. PICK U : U = T \ {b}
    OBVIOUS
  <2>4. /\ Retains(o) /\ S \in SUBSET Buffers /\ o.outstanding = Cardinality(S)
        /\ S \intersect o.free = {}
    BY <1>1, <1>6, <2>1, OutBuffers DEF Books
  <2>5. /\ a # None => a \in S
        /\ b # None => b \in T
        /\ Out(z)' = U
    <3>1. Out(z)' = (Out(z) \ {a}) \ {b} /\ \A x \in {a, b} : x # None => x \in Out(z)
      BY ReturnedOut
    <3>2. a # None => a # b
      BY DEF Returned
    <3>. QED BY ONLY <2>1, <2>2, <2>3, <3>1, <3>2
  <2>6. /\ p \in AnyBucket /\ Retains(p) /\ T \in SUBSET Buffers
        /\ p.outstanding = Cardinality(T) /\ T \intersect p.free = {}
        /\ o.free \subseteq p.free /\ p.free \subseteq o.free \union ({a} \ {None})
    <3>1. /\ a \in Buffers \union {None} /\ a # None => a \in S
          /\ o \in AnyBucket /\ S \in SUBSET Buffers
      BY <1>4, <2>4, <2>5
    <3>. QED BY ONLY <1>2, <2>2, <2>4, <3>1, RecycledBucket
  <2>7. /\ q \in AnyBucket /\ Retains(q) /\ U \in SUBSET Buffers
        /\ q.outstanding = Cardinality(U) /\ U \intersect q.free = {}
        /\ p.free \subseteq q.free /\ q.free \subseteq p.free \union ({b} \ {None})
    <3>1. b \in Buffers \union {None} /\ b # None => b \in T
      BY <2>5
    <3>. QED BY ONLY <1>3, <2>3, <2>6, <3>1, RecycledBucket
  <2>. QED BY <1>1, <1>4, <1>6, <2>5, <2>6, <2>7
<1>. QED BY <1>5, <1>6

LEMMA ReturnedTypes ==
  ASSUME Shape, OwnersApart, Books, NEW r \in Readers, NEW gone,
         NEW a \in Buffers \union {None}, NEW b \in Buffers \union {None},
         NEW d \in Buffers \union {None}, Returned(r, gone, a, b, d)
  PROVE  /\ pools' \in [Sizes -> AnyBucket] /\ held' \in [Readers -> Buffers \union {None}]
         /\ answers' \in Seq(Answers) /\ requests' \in Seq(Messages)
         /\ \A s \in Sizes : s # SizeOf[r] => pools'[s] = pools[s]
<1>1. PICK z \in Sizes : z = SizeOf[r]
  OBVIOUS
<1>2. PICK n : n = Recycled(Recycled(pools[z], a), b)
  OBVIOUS
<1>3. pools' = [pools EXCEPT ![z] = n] /\ pools \in [Sizes -> AnyBucket]
  BY <1>1, <1>2 DEF Returned, Shape
<1>4. n \in AnyBucket
  <2>1. pools'[z] \in AnyBucket
    BY <1>1, ReturnedBucket
  <2>. QED BY <1>3, <2>1
<1>5. /\ pools' \in [Sizes -> AnyBucket]
      /\ \A s \in Sizes : s # SizeOf[r] => pools'[s] = pools[s]
  BY ONLY <1>1, <1>3, <1>4
<1>6. held' \in [Readers -> Buffers \union {None}]
  <2>1. held' = [held EXCEPT ![r] = d] /\ held \in [Readers -> Buffers \union {None}]
    BY DEF Returned, Shape
  <2>. QED BY <2>1
<1>7. answers' \in Seq(Answers) /\ requests' \in Seq(Messages)
  BY TakenAnswer, Queues DEF Returned
<1>. QED BY <1>5, <1>6, <1>7

LEMMA ReturnedKeepsOwners ==
  ASSUME Shape, OwnersApart, Books, NEW r \in Readers, NEW gone,
         NEW a \in Buffers \union {None}, NEW b \in Buffers \union {None},
         NEW d \in Buffers \union {None}, Returned(r, gone, a, b, d)
  PROVE  OwnersApart'
<1> DEFINE back == gone \union Shown(r)
<1>1. PICK z \in Sizes : z = SizeOf[r]
  OBVIOUS
<1>2. /\ Distinct(answers') /\ gone \subseteq Carried(answers)
      /\ Carried(answers') = Carried(answers) \ gone /\ requests' = requests
  BY TakenAnswer, Queues DEF Returned
<1>3. /\ {a, b, d} \ {None} = back
      /\ a # None => a # b /\ a # d
      /\ b # None => b # d
  BY DEF Returned
<1>4. /\ pools[z].free \subseteq pools'[z].free
      /\ pools'[z].free \subseteq pools[z].free \union ({a, b} \ {None})
      /\ \A s \in Sizes : s # z => pools'[s] = pools[s]
  BY <1>1, ReturnedBucket, ReturnedTypes
<1>5. /\ \A x \in Readers : x # r => Shown(x)' = Shown(x)
      /\ Shown(r)' = {d} \ {None}
  BY DEF Returned, Shown, Shape
<1>6. /\ \A s \in Sizes : back \intersect pools[s].free = {}
      /\ \A x \in Readers : x # r => Shown(x) \intersect back = {}
      /\ back \intersect Carried(requests) = {}
      /\ Shown(r) \intersect Carried(answers) = {}
  BY <1>2 DEF OwnersApart
<1>7. /\ Distinct(requests')
      /\ Carried(requests') \intersect Carried(answers') = {}
  BY <1>2 DEF OwnersApart
<1>8. /\ Shown(r)' \subseteq back
      /\ {a, b} \ {None} \subseteq back
      /\ Shown(r)' \intersect ({a, b} \ {None}) = {}
      /\ back \intersect Carried(answers') = {}
  BY <1>2, <1>3, <1>5, <1>6
<1> HIDE DEF back
<1>9. \A s, t \in Sizes : s # t => pools'[s].free \intersect pools'[t].free = {}
  BY ONLY <1>4, <1>6, <1>8, OwnersApart DEF OwnersApart
<1>10. \A s \in Sizes :
         pools'[s].free \intersect (Carried(requests') \union Carried(answers')) = {}
  BY ONLY <1>2, <1>4, <1>6, <1>8, OwnersApart DEF OwnersApart
<1>11. ASSUME NEW x \in Readers
       PROVE  /\ Shown(x)' \intersect (Carried(requests') \union Carried(answers')) = {}
              /\ \A s \in Sizes : Shown(x)' \intersect pools'[s].free = {}
  <2>1. CASE x = r
    BY ONLY <1>2, <1>4, <1>6, <1>8, <2>1
  <2>2. CASE x # r
    BY ONLY <1>2, <1>4, <1>5, <1>6, <1>8, <2>2, x \in Readers, OwnersApart DEF OwnersApart
  <2>. QED BY <2>1, <2>2
<1>12. \A x, o \in Readers : x # o => Shown(x)' \intersect Shown(o)' = {}
  BY ONLY <1>5, <1>6, <1>8, OwnersApart DEF OwnersApart
<1>. QED BY <1>2, <1>7, <1>9, <1>10, <1>11, <1>12 DEF OwnersApart, Shown, Carried, Distinct

LEMMA ReturnedKeepsBooks ==
  ASSUME Shape, OwnersApart, Books, NEW r \in Readers, NEW gone,
         NEW a \in Buffers \union {None}, NEW b \in Buffers \union {None},
         NEW d \in Buffers \union {None}, Returned(r, gone, a, b, d)
  PROVE  Books'
<1>1. PICK z \in Sizes : z = SizeOf[r]
  OBVIOUS
<1>2. disposed' = disposed /\ requests' = requests /\ Takes(r, gone)
  BY DEF Returned
<1>3. /\ pools' \in [Sizes -> AnyBucket]
      /\ \A s \in Sizes : s # z => pools'[s] = pools[s]
  BY <1>1, ReturnedTypes
<1>4. /\ disposed => pools'[z] = NoBucket
      /\ ~ disposed => Retains(pools'[z]) /\ pools'[z].outstanding = Cardinality(Out(z)')
  BY <1>1, ReturnedBucket
<1>5. ASSUME disposed PROVE requests' = <<>> /\ answers' = <<>>
                            /\ pools' = [s \in Sizes |-> NoBucket]
  <2>1. requests' = <<>> /\ answers' = <<>>
    BY <1>2, <1>5 DEF Books, Takes
  <2>2. \A s \in Sizes : pools'[s] = NoBucket
    BY <1>3, <1>4, <1>5 DEF Books
  <2>. QED BY <1>3, <2>1, <2>2
<1>6. ASSUME ~ disposed, NEW s \in Sizes
      PROVE  pools'[s].outstanding = Cardinality(Out(s)') /\ Retains(pools'[s])
  <2>1. CASE s = z
    BY <1>4, <1>6, <2>1
  <2>2. CASE s # z
    <3>1. Out(s)' = Out(s)
      BY <1>1, <2>2, ReturnedOut
    <3>. QED BY <1>3, <1>6, <2>2, <3>1 DEF Books
  <2>. QED BY <2>1, <2>2
<1>. QED BY <1>2, <1>5, <1>6 DEF Books, Retains

-----------------------------------------------------------------------------
(* Buffers go out, and through the preload.                                 *)

\* The buffer of a request is nobody's.
Unowned(x) ==
  /\ x \notin Carried(requests) /\ x \notin Carried(answers)
  /\ \A r \in Readers : x \notin Shown(r)

LEMMA InUseIs ==
  ASSUME NEW y
  PROVE  y \in InUse <=> \/ \E s \in Sizes : y \in pools[s].free
                        \/ (\E r \in Readers : y \in Shown(r))
                        \/ y \in Carried(requests) \/ y \in Carried(answers)
<1> DEFINE A == (UNION {pools[s].free : s \in Sizes})
           B == {held[r] : r \in {x \in Readers : held[x] # None}}
           C == {m.buffer : m \in ToSet(requests) \union ToSet(answers)}
<1>1. y \in A <=> \E s \in Sizes : y \in pools[s].free
  OBVIOUS
<1>2. y \in B <=> \E r \in Readers : y \in Shown(r)
  BY DEF Shown
<1>3. y \in C <=> y \in Carried(requests) \/ y \in Carried(answers)
  <2>1. \A m : m \in ToSet(requests) <=> \E n \in DOMAIN requests : m = requests[n]
    BY DEF ToSet
  <2>2. \A m : m \in ToSet(answers) <=> \E n \in DOMAIN answers : m = answers[n]
    BY DEF ToSet
  <2>3. y \in Carried(requests) <=> \E m \in ToSet(requests) : y = m.buffer
    BY <2>1 DEF Carried
  <2>4. y \in Carried(answers) <=> \E m \in ToSet(answers) : y = m.buffer
    BY <2>2 DEF Carried
  <2>. QED BY ONLY <2>3, <2>4
<1>4. InUse = A \union B \union C
  BY DEF InUse
<1> HIDE DEF A, B, C
<1>. QED BY ONLY <1>1, <1>2, <1>3, <1>4

LEMMA RequestTakes ==
  ASSUME Shape, OwnersApart, Books, NEW r \in Readers, NEW x \in Buffers,
         NEW last \in 0 .. MaxFrames, Request(r, x, last),
         answers' = answers, held' = held, disposed' = disposed,
         NEW z \in Sizes, z = SizeOf[r]
  PROVE  /\ Unowned(x) /\ \A t \in Sizes : t # z => x \notin pools[t].free
         /\ pools'[z].free = pools[z].free \ {x}
         /\ pools'[z] \in AnyBucket /\ Retains(pools'[z])
         /\ pools'[z].outstanding = Cardinality(Out(z) \union {x})
         /\ \A t \in Sizes :
              t # z => \/ pools'[t] = pools[t]
                       \/ pools[t].outstanding = 0 /\ pools'[t] = NoBucket
         /\ pools' \in [Sizes -> AnyBucket]
<1>1. PICK b : b = pools[z]
  OBVIOUS
<1>2. PICK out : out = Issued(b, x)
  OBVIOUS
<1>3. PICK n : n = Rotated([b EXCEPT !.outstanding = @ + 1])
  OBVIOUS
<1>6. b \in AnyBucket /\ pools \in [Sizes -> AnyBucket]
  BY <1>1 DEF Shape
<1>7. n \in AnyBucket /\ n.free = b.free
  <2>1. PICK more : more = [b EXCEPT !.outstanding = @ + 1]
    OBVIOUS
  <2>2. more \in AnyBucket /\ more.free = b.free
    BY <1>6, <2>1 DEF AnyBucket
  <2>. QED BY <1>3, <2>1, <2>2, RotatedFree
<1>4. /\ IF n.free # {} THEN x \in n.free ELSE x \notin InUse
      /\ pools' = [s \in Sizes |->
                     IF s = z THEN out ELSE IF s \in Idle(z) THEN NoBucket ELSE pools[s]]
      /\ ~ disposed
  <2>1. PICK peaked : peaked = [n EXCEPT !.windowPeak = Larger(@, n.outstanding)]
    OBVIOUS
  <2>2. /\ IF peaked.free # {} THEN x \in peaked.free ELSE x \notin InUse
        /\ pools' = [s \in Sizes |->
                       IF s = z THEN out ELSE IF s \in Idle(z) THEN NoBucket ELSE pools[s]]
        /\ ~ disposed
    BY <1>1, <1>2, <1>3, <2>1 DEF Request, Checkout, Issued
  <2>3. peaked.free = n.free
    BY <1>7, <2>1 DEF AnyBucket
  <2>. QED BY <2>2, <2>3
<1>8. x \in b.free \/ x \notin InUse
  BY <1>4, <1>7
<1>9. Unowned(x) /\ \A t \in Sizes : t # z => x \notin pools[t].free
  <2>1. CASE x \in b.free
    BY <1>1, <2>1 DEF OwnersApart, Unowned
  <2>2. CASE x \notin InUse
    BY <2>2, InUseIs DEF Unowned
  <2>. QED BY <1>8, <2>1, <2>2
<1>10. PICK S : S = Out(z)
  OBVIOUS
<1>11. /\ Retains(b) /\ S \in SUBSET Buffers /\ b.outstanding = Cardinality(S)
       /\ S \intersect b.free = {}
  BY <1>1, <1>4, <1>10, OutBuffers DEF Books
<1>12. x \notin S
  BY <1>9, <1>10, Queues, OutIs DEF Unowned
<1>13. /\ out \in AnyBucket /\ Retains(out) /\ out.outstanding = Cardinality(S \union {x})
       /\ out.free = b.free \ {x}
  <2>1. b.free # {} => x \in b.free
    BY <1>4, <1>7
  <2>2. x \in Buffers
    OBVIOUS
  <2>. QED BY ONLY <1>2, <1>6, <1>11, <1>12, <2>1, <2>2, CheckedOut
<1>14. NoBucket \in AnyBucket
  BY DEF NoBucket, AnyBucket
<1>15. pools' \in [Sizes -> AnyBucket]
  BY ONLY <1>4, <1>6, <1>13, <1>14
<1>16. /\ pools'[z] = out
       /\ \A t \in Sizes : t # z => \/ pools'[t] = pools[t]
                                    \/ pools[t].outstanding = 0 /\ pools'[t] = NoBucket
  BY <1>4 DEF Idle
<1>. QED BY <1>1, <1>9, <1>10, <1>13, <1>15, <1>16

LEMMA RequestedOut ==
  ASSUME Shape, OwnersApart, NEW r \in Readers, NEW x \in Buffers,
         NEW last \in 0 .. MaxFrames, Request(r, x, last),
         answers' = answers, held' = held
  PROVE  /\ requests' \in Seq(Messages)
         /\ Carried(requests') = Carried(requests) \union {x}
         /\ x \notin Carried(requests) => Distinct(requests')
         /\ \A s : Out(s)' = IF s = SizeOf[r] THEN Out(s) \union {x} ELSE Out(s)
<1>1. PICK m : m = [buffer |-> x, reader |-> r, last |-> last]
  OBVIOUS
<1>2. requests' = Append(requests, m) /\ m \in Messages /\ m.buffer = x /\ m.reader = r
  BY <1>1 DEF Request, Messages
<1>3. requests \in Seq(Messages) /\ Distinct(requests)
  BY Queues DEF OwnersApart
<1>4. PICK more : more = Append(requests, m)
  OBVIOUS
<1>5. more \in Seq(Messages) /\ Joins(requests, m, more)
  BY ONLY <1>2, <1>3, <1>4, MessageSent, Zenon
<1>6. \A y : Shown(y)' = Shown(y)
  BY DEF Shown
<1>7. ASSUME NEW s
      PROVE  Out(s)' = IF s = SizeOf[r] THEN Out(s) \union {x} ELSE Out(s)
  <2>1. \A y : y \in Out(s)' <=> y \in Out(s) \/ (s = SizeOf[r] /\ y = x)
    BY <1>2, <1>4, <1>5, <1>6, OutIs, OutIsNext DEF Joins
  <2>. QED BY <2>1
<1>. QED BY <1>2, <1>3, <1>4, <1>5, <1>7 DEF Joins

LEMMA RequestKeeps ==
  ASSUME Shape, OwnersApart, Books, NEW r \in Readers, NEW x \in Buffers,
         NEW last \in 0 .. MaxFrames, Request(r, x, last),
         answers' = answers, held' = held, disposed' = disposed
  PROVE  OwnersApart' /\ Books' /\ pools' \in [Sizes -> AnyBucket]
         /\ requests' \in Seq(Messages)
<1>1. PICK z \in Sizes : z = SizeOf[r]
  OBVIOUS
<1>2. /\ Unowned(x) /\ \A t \in Sizes : t # z => x \notin pools[t].free
      /\ pools'[z].free = pools[z].free \ {x}
      /\ Retains(pools'[z])
      /\ pools'[z].outstanding = Cardinality(Out(z) \union {x})
      /\ \A t \in Sizes :
           t # z => \/ pools'[t] = pools[t]
                    \/ pools[t].outstanding = 0 /\ pools'[t] = NoBucket
      /\ pools' \in [Sizes -> AnyBucket]
  BY <1>1, RequestTakes
<1>3. /\ requests' \in Seq(Messages)
      /\ Carried(requests') = Carried(requests) \union {x}
      /\ x \notin Carried(requests) => Distinct(requests')
      /\ \A s : Out(s)' = IF s = z THEN Out(s) \union {x} ELSE Out(s)
  BY <1>1, RequestedOut
<1>4. \A y : Shown(y)' = Shown(y)
  BY DEF Shown
<1>5. \A t \in Sizes : pools'[t].free \subseteq pools[t].free \ {x}
  BY <1>2 DEF NoBucket
<1>6. OwnersApart'
  <2>1. /\ Distinct(requests') /\ Distinct(answers')
        /\ Carried(requests') \intersect Carried(answers') = {}
    BY <1>2, <1>3 DEF OwnersApart, Unowned
  <2>2. /\ \A s, t \in Sizes : s # t => pools'[s].free \intersect pools'[t].free = {}
        /\ \A s \in Sizes :
             pools'[s].free \intersect (Carried(requests') \union Carried(answers')) = {}
        /\ \A y \in Readers : \A s \in Sizes : Shown(y)' \intersect pools'[s].free = {}
    BY <1>3, <1>4, <1>5 DEF OwnersApart
  <2>3. /\ \A y \in Readers :
             Shown(y)' \intersect (Carried(requests') \union Carried(answers')) = {}
        /\ \A y, o \in Readers : y # o => Shown(y)' \intersect Shown(o)' = {}
    BY <1>2, <1>3, <1>4 DEF OwnersApart, Unowned
  <2>. QED BY <2>1, <2>2, <2>3 DEF OwnersApart, Shown, Carried, Distinct
<1>7. ~ disposed
  BY DEF Request
<1>8. ASSUME NEW s \in Sizes
      PROVE  pools'[s].outstanding = Cardinality(Out(s)') /\ Retains(pools'[s])
  <2>1. CASE s = z
    BY <1>2, <1>3, <2>1
  <2>2. CASE s # z /\ pools'[s] = pools[s]
    BY <1>3, <1>7, <2>2 DEF Books
  <2>3. CASE s # z /\ pools[s].outstanding = 0 /\ pools'[s] = NoBucket
    <3>1. Retains(NoBucket) /\ NoBucket.outstanding = 0
      BY FS_EmptySet DEF Retains, NoBucket
    <3>2. 0 = Cardinality(Out(s)')
      BY <1>3, <1>7, <2>3 DEF Books
    <3>. QED BY <2>3, <3>1, <3>2
  <2>. QED BY <1>2, <2>1, <2>2, <2>3
<1>. QED BY <1>2, <1>3, <1>6, <1>7, <1>8 DEF Books, Retains

\* The preload answers the request at the head.
LEMMA AnswerKeeps ==
  ASSUME Shape, OwnersApart, Books, PendingIsOut, requests # <<>>,
         NEW outcome \in {"frame", "none", "closed", "error"}, NEW seq \in 0 .. MaxFrames,
         Answer(Head(requests), outcome, seq),
         UNCHANGED <<pools, pending, disposed, held>>
  PROVE  OwnersApart' /\ Books' /\ PendingIsOut'
         /\ requests' \in Seq(Messages) /\ answers' \in Seq(Answers)
<1>1. PICK m : m = Head(requests)
  OBVIOUS
<1>2. PICK rest : rest = Tail(requests)
  OBVIOUS
<1>3. requests \in Seq(Messages) /\ answers \in Seq(Answers)
      /\ Distinct(requests) /\ Distinct(answers)
  BY Queues DEF OwnersApart
<1>4. rest \in Seq(Messages) /\ m \in Messages /\ Leaves(requests, m, rest)
  BY ONLY <1>1, <1>2, <1>3, requests # <<>>, Received, Zenon
<1>5. PICK a : a = [buffer |-> m.buffer, reader |-> m.reader, outcome |-> outcome, seq |-> seq]
  OBVIOUS
<1>6. a \in Answers /\ a.buffer = m.buffer /\ a.reader = m.reader
  BY <1>4, <1>5 DEF Messages, Answers
<1>7. PICK more : more = Append(answers, a)
  OBVIOUS
<1>8. more \in Seq(Answers) /\ Joins(answers, a, more)
  BY ONLY <1>3, <1>6, <1>7, MessageSent, Zenon
<1>9. requests' = rest /\ answers' = more
  BY <1>1, <1>2, <1>5, <1>7 DEF Answer
<1>10. /\ m.buffer \in Carried(requests)
       /\ Carried(requests') = Carried(requests) \ {m.buffer}
       /\ Carried(answers') = Carried(answers) \union {m.buffer}
       /\ Distinct(requests')
  BY ONLY <1>4, <1>6, <1>8, <1>9 DEF Leaves, Joins
<1>11. Distinct(answers')
  BY <1>3, <1>6, <1>8, <1>9, <1>10 DEF OwnersApart, Joins
<1>12. Carried(requests') \union Carried(answers')
         = Carried(requests) \union Carried(answers)
  BY ONLY <1>10
<1>13. \A y : Shown(y)' = Shown(y)
  BY DEF Shown
<1>14. OwnersApart'
  <2>1. Carried(requests') \intersect Carried(answers') = {}
    BY <1>10 DEF OwnersApart
  <2>. QED
    BY <1>10, <1>11, <1>12, <1>13, <2>1 DEF OwnersApart, Shown, Carried, Distinct
<1>15. \A s : Out(s)' = Out(s)
  <2>1. ASSUME NEW s PROVE CarriedFor(requests', s) \union CarriedFor(answers', s)
                             = CarriedFor(requests, s) \union CarriedFor(answers, s)
    BY ONLY <1>4, <1>6, <1>8, <1>9 DEF Leaves, Joins
  <2>2. ASSUME NEW s PROVE Out(s)' = Out(s)
    <3>1. ASSUME NEW y PROVE y \in Out(s)' <=> y \in Out(s)
      <4>1. y \in CarriedFor(requests', s) \/ y \in CarriedFor(answers', s)
              <=> y \in CarriedFor(requests, s) \/ y \in CarriedFor(answers, s)
        BY <2>1
      <4>. QED BY <1>13, <4>1, OutIs, OutIsNext
    <3>. QED BY <3>1
  <2>. QED BY <2>2
<1>16. Books'
  <2>1. disposed => FALSE
    BY DEF Books
  <2>. QED BY <1>15, <2>1 DEF Books, Retains
<1>17. PendingIsOut'
  BY <1>12 DEF PendingIsOut, Carried
<1>. QED BY <1>4, <1>8, <1>9, <1>14, <1>16, <1>17

-----------------------------------------------------------------------------
(* The steps.                                                               *)

\* What a step does to the readers, apart from their displays.
ReadersTyped ==
  /\ mode \in Modes
  /\ current \in [Readers -> Buffers \union {None}]
  /\ scheduled \subseteq {f \in Refs : mode[f] \in {"attached", "late"}}
  /\ lastSeq \in [Pipes -> 0 .. MaxFrames]

LEMMA ReturnedKeeps ==
  ASSUME PoolInv, NEW r \in Readers, NEW gone,
         NEW a \in Buffers \union {None}, NEW b \in Buffers \union {None},
         NEW d \in Buffers \union {None}, Returned(r, gone, a, b, d),
         pending' \subseteq pending \ gone, ReadersTyped', ReadersGone',
         UNCHANGED <<ringVars, mapped>>
  PROVE  PoolInv'
<1>1. Shape /\ OwnersApart /\ Books /\ PendingIsOut
  BY DEF PoolInv
<1>2. OwnersApart' /\ Books'
  BY <1>1, ReturnedKeepsOwners, ReturnedKeepsBooks
<1>3. /\ pools' \in [Sizes -> AnyBucket] /\ held' \in [Readers -> Buffers \union {None}]
      /\ answers' \in Seq(Answers) /\ requests' \in Seq(Messages)
  BY <1>1, ReturnedTypes
<1>4. Carried(answers') = Carried(answers) \ gone
  BY <1>1, TakenAnswer DEF Returned
<1>5. PendingIsOut'
  BY <1>1, <1>4 DEF PendingIsOut, Returned, Carried
<1>6. disposed' \in BOOLEAN
  BY <1>1 DEF Shape, Returned
<1>7. Shape'
  BY <1>1, <1>3, <1>6 DEF Shape, ReadersTyped, ringVars, Answers, Messages
<1>. QED BY <1>2, <1>5, <1>7 DEF PoolInv

\* The message at the head, for the reader it is for.
LEMMA HeadAnswer ==
  ASSUME Shape, OwnersApart, NEW m, Taken(m)
  PROVE  /\ m \in Answers /\ m.reader \in Readers /\ m.buffer \in Buffers
         /\ m.seq \in 0 .. MaxFrames
         /\ m.buffer # None /\ m.buffer \notin Shown(m.reader)
         /\ Takes(m.reader, {m.buffer})
<1>1. answers \in Seq(Answers) /\ answers # <<>> /\ m = Head(answers)
      /\ answers' = Tail(answers)
  BY Queues DEF Taken
<1>2. m \in Answers /\ m = answers[1] /\ 1 \in DOMAIN answers
  BY <1>1
<1>3. m.reader \in Readers /\ m.buffer \in Buffers /\ m.seq \in 0 .. MaxFrames
  BY <1>2 DEF Answers
<1>4. m.buffer \in Carried(answers)
  BY <1>2 DEF Carried
<1>. QED BY <1>1, <1>2, <1>3, <1>4 DEF OwnersApart, Takes

LEMMA StaleAnswerKeeps == ASSUME PoolInv, StaleAnswer PROVE PoolInv'
<1>1. PICK m \in ToSet(answers) :
        /\ Taken(m) /\ m.buffer \notin pending
        /\ Recycle(SizeOf[m.reader], m.buffer, None)
        /\ UNCHANGED <<pending, disposed, requests, readerVars, ringVars, mapped>>
  BY DEF StaleAnswer, Reclaimed
<1>2. PICK r : r = m.reader
  OBVIOUS
<1>3. PICK x : x = m.buffer
  OBVIOUS
<1>4. PICK d : d = held[r]
  OBVIOUS
<1>5. /\ r \in Readers /\ x \in Buffers /\ x # None /\ x \notin Shown(r) /\ Takes(r, {x})
  BY <1>1, <1>2, <1>3, HeadAnswer DEF PoolInv
<1>6. d \in Buffers \union {None} /\ held = [held EXCEPT ![r] = d] /\ Shown(r) = {d} \ {None}
  BY <1>4, <1>5 DEF PoolInv, Shape, Shown
<1>7. Returned(r, {x}, x, None, d)
  BY <1>1, <1>2, <1>3, <1>5, <1>6 DEF Returned, Recycle, readerVars
<1>8. ReadersTyped' /\ ReadersGone'
  BY <1>1 DEF PoolInv, Shape, ReadersTyped, ReadersGone, readerVars
<1>. QED BY <1>1, <1>3, <1>5, <1>6, <1>7, <1>8, ReturnedKeeps

LEMMA PipeAnswerKeeps == ASSUME PoolInv, PipeAnswer PROVE PoolInv'
<1>1. PICK m \in ToSet(answers) :
        LET p == m.reader
            show == m.outcome = "frame" /\ StillWanted(p)
        IN  /\ Taken(m) /\ p \in Pipes /\ m.buffer \in pending
            /\ pending' = pending \ {m.buffer}
            /\ current' = [current EXCEPT ![p] = None]
            /\ Recycle(SizeOf[p], IF show THEN held[p] ELSE m.buffer, None)
            /\ held' = IF show THEN [held EXCEPT ![p] = m.buffer] ELSE held
            /\ lastSeq' = IF show THEN [lastSeq EXCEPT ![p] = m.seq] ELSE lastSeq
            /\ mode' = IF m.outcome = "closed" /\ mode[p] = "running"
                       THEN [mode EXCEPT ![p] = "closed"] ELSE mode
            /\ UNCHANGED <<disposed, requests, scheduled, ringVars, mapped>>
  BY DEF PipeAnswer
<1>2. PICK p : p = m.reader
  OBVIOUS
<1>3. PICK x : x = m.buffer
  OBVIOUS
<1>4. PICK d : d = held[p]
  OBVIOUS
<1>5. /\ p \in Readers /\ x \in Buffers /\ x # None /\ x \notin Shown(p) /\ Takes(p, {x})
      /\ m.seq \in 0 .. MaxFrames
  BY <1>1, <1>2, <1>3, HeadAnswer DEF PoolInv
<1>6. d \in Buffers \union {None} /\ held = [held EXCEPT ![p] = d] /\ Shown(p) = {d} \ {None}
  BY <1>4, <1>5 DEF PoolInv, Shape, Shown
<1>7. /\ p \in Pipes /\ p \notin Refs /\ pending' = pending \ {x}
      /\ UNCHANGED <<disposed, requests, scheduled, ringVars, mapped>>
      /\ current' = [current EXCEPT ![p] = None]
      /\ mode' = IF m.outcome = "closed" /\ mode[p] = "running"
                  THEN [mode EXCEPT ![p] = "closed"] ELSE mode
  BY <1>1, <1>2, <1>3
<1>a. lastSeq' = lastSeq \/ lastSeq' = [lastSeq EXCEPT ![p] = m.seq]
  BY <1>1, <1>2
<1>b. mode' = mode \/ (mode[p] = "running" /\ mode' = [mode EXCEPT ![p] = "closed"])
  BY <1>7
<1>8. ReadersTyped'
  <2>1. lastSeq' \in [Pipes -> 0 .. MaxFrames]
    BY <1>5, <1>7, <1>a DEF PoolInv, Shape
  <2>2. current' \in [Readers -> Buffers \union {None}]
    BY <1>7 DEF PoolInv, Shape
  <2>3. mode \in Modes
    BY DEF PoolInv, Shape
  <2>4. mode' \in Modes /\ \A f \in Refs : mode'[f] = mode[f]
    BY <1>7, <1>b, <2>3 DEF Modes, Readers
  <2>5. scheduled' \subseteq {f \in Refs : mode'[f] \in {"attached", "late"}}
    BY <1>7, <2>4 DEF PoolInv, Shape
  <2>. QED BY <2>1, <2>2, <2>4, <2>5 DEF ReadersTyped
<1>9. CASE m.outcome = "frame" /\ mode[p] = "running"
  <2>1. /\ Recycle(SizeOf[p], d, None) /\ held' = [held EXCEPT ![p] = x] /\ mode' = mode
    BY <1>1, <1>2, <1>3, <1>4, <1>9 DEF StillWanted
  <2>2. Returned(p, {x}, d, None, x)
    BY <1>5, <1>6, <1>7, <2>1 DEF Returned, Recycle
  <2>3. ReadersGone'
    BY <1>5, <1>7, <1>9, <2>1 DEF PoolInv, Shape, ReadersGone
  <2>. QED BY <1>5, <1>6, <1>7, <1>8, <2>2, <2>3, ReturnedKeeps
<1>10. CASE ~ (m.outcome = "frame" /\ mode[p] = "running")
  <2>1. Recycle(SizeOf[p], x, None) /\ held' = held
    BY <1>1, <1>2, <1>3, <1>10 DEF StillWanted
  <2>2. Returned(p, {x}, x, None, d)
    BY <1>5, <1>6, <1>7, <2>1 DEF Returned, Recycle
  <2>3. ReadersGone'
    BY <1>5, <1>7, <1>b, <2>1 DEF PoolInv, Shape, ReadersGone, Modes
  <2>. QED BY <1>5, <1>6, <1>7, <1>8, <2>2, <2>3, ReturnedKeeps
<1>. QED BY <1>9, <1>10

LEMMA RefAnswerKeeps == ASSUME PoolInv, RefAnswer PROVE PoolInv'
<1>1. PICK m \in ToSet(answers) :
        LET f == m.reader
            newest == current[f] = m.buffer
            frame == IF m.outcome = "frame" THEN m.buffer ELSE None
            unused == IF frame = None THEN m.buffer ELSE None
        IN  /\ Taken(m) /\ f \in Refs /\ m.buffer \in pending
            /\ pending' = pending \ {m.buffer}
            /\ Recycle(SizeOf[f], unused, Displaced(f, newest, frame))
            /\ held' = IF newest THEN [held EXCEPT ![f] = frame] ELSE held
            /\ current' = IF newest THEN [current EXCEPT ![f] = None] ELSE current
            /\ UNCHANGED <<disposed, requests, mode, scheduled, lastSeq, ringVars, mapped>>
  BY DEF RefAnswer
<1>2. PICK f : f = m.reader
  OBVIOUS
<1>3. PICK x : x = m.buffer
  OBVIOUS
<1>4. PICK d : d = held[f]
  OBVIOUS
<1>5. /\ f \in Readers /\ x \in Buffers /\ x # None /\ x \notin Shown(f) /\ Takes(f, {x})
  BY <1>1, <1>2, <1>3, HeadAnswer DEF PoolInv
<1>6. d \in Buffers \union {None} /\ held = [held EXCEPT ![f] = d] /\ Shown(f) = {d} \ {None}
  BY <1>4, <1>5 DEF PoolInv, Shape, Shown
<1>7. /\ f \in Refs /\ pending' = pending \ {x}
      /\ UNCHANGED <<disposed, requests, mode, scheduled, lastSeq, ringVars, mapped>>
      /\ current' = IF current[f] = x THEN [current EXCEPT ![f] = None] ELSE current
  BY <1>1, <1>2, <1>3
<1>8. ReadersTyped'
  BY <1>5, <1>7 DEF PoolInv, Shape, ReadersTyped
<1>9. mode[f] = "disposed" => current[f] # x
  BY <1>5, <1>7 DEF PoolInv, ReadersGone
<1>a. /\ mode' = mode /\ \A g \in Refs : current'[g] \in {current[g], None}
      /\ mode[f] # "stopped"
  <2>1. mode' = mode /\ mode[f] # "stopped"
    BY <1>7 DEF PoolInv, ReadersGone
  <2>2. current \in [Readers -> Buffers \union {None}]
    BY DEF PoolInv, Shape
  <2>. QED BY <1>7, <2>1, <2>2
<1>10. ASSUME NEW e, held' = [held EXCEPT ![f] = e], mode[f] # "disposed"
       PROVE  ReadersGone'
  <2>1. held \in [Readers -> Buffers \union {None}]
    BY DEF PoolInv, Shape
  <2>2. \A r \in Readers : r # f => held'[r] = held[r]
    BY <1>10, <2>1
  <2>. QED BY <1>a, <1>10, <2>2 DEF PoolInv, ReadersGone
<1>11. held' = held => ReadersGone'
  BY <1>a DEF PoolInv, ReadersGone
<1>12. CASE current[f] = x /\ m.outcome = "frame"
  <2>1. Recycle(SizeOf[f], None, d) /\ held' = [held EXCEPT ![f] = x]
    BY <1>1, <1>2, <1>3, <1>4, <1>5, <1>12 DEF Displaced
  <2>2. Returned(f, {x}, None, d, x)
    BY <1>5, <1>6, <1>7, <2>1 DEF Returned, Recycle
  <2>3. ReadersGone'
    BY <1>9, <1>10, <1>12, <2>1
  <2>. QED BY <1>5, <1>6, <1>7, <1>8, <2>2, <2>3, ReturnedKeeps
<1>13. CASE current[f] = x /\ m.outcome # "frame"
  <2>1. Recycle(SizeOf[f], x, d) /\ held' = [held EXCEPT ![f] = None]
    BY <1>1, <1>2, <1>3, <1>4, <1>13 DEF Displaced
  <2>2. Returned(f, {x}, x, d, None)
    BY <1>5, <1>6, <1>7, <2>1 DEF Returned, Recycle
  <2>3. ReadersGone'
    BY <1>9, <1>10, <1>13, <2>1
  <2>. QED BY <1>5, <1>6, <1>7, <1>8, <2>2, <2>3, ReturnedKeeps
<1>14. CASE current[f] # x /\ m.outcome = "frame"
  <2>1. Recycle(SizeOf[f], None, x) /\ held' = held
    BY <1>1, <1>2, <1>3, <1>5, <1>14 DEF Displaced
  <2>2. Returned(f, {x}, None, x, d)
    BY <1>5, <1>6, <1>7, <2>1 DEF Returned, Recycle
  <2>. QED BY <1>5, <1>6, <1>7, <1>8, <1>11, <2>1, <2>2, ReturnedKeeps
<1>15. CASE current[f] # x /\ m.outcome # "frame"
  <2>1. Recycle(SizeOf[f], x, None) /\ held' = held
    BY <1>1, <1>2, <1>3, <1>15 DEF Displaced
  <2>2. Returned(f, {x}, x, None, d)
    BY <1>5, <1>6, <1>7, <2>1 DEF Returned, Recycle
  <2>. QED BY <1>5, <1>6, <1>7, <1>8, <1>11, <2>1, <2>2, ReturnedKeeps
<1>. QED BY <1>12, <1>13, <1>14, <1>15

\* A reader gives its display back.
LEMMA ClearedKeeps ==
  ASSUME PoolInv, NEW r \in Readers, Recycle(SizeOf[r], held[r], None),
         held' = [held EXCEPT ![r] = None],
         UNCHANGED <<disposed, requests, answers, ringVars, mapped>>,
         pending' \subseteq pending, ReadersTyped', ReadersGone'
  PROVE  PoolInv'
<1>1. PICK d : d = held[r]
  OBVIOUS
<1>2. d \in Buffers \union {None} /\ Shown(r) = {d} \ {None}
  BY <1>1 DEF PoolInv, Shape, Shown
<1>3. Returned(r, {}, d, None, None)
  BY <1>1, <1>2 DEF Returned, Takes, Recycle
<1>4. pending' \subseteq pending \ {}
  OBVIOUS
<1>. QED BY <1>2, <1>3, <1>4, ReturnedKeeps

LEMMA StopKeeps == ASSUME PoolInv, NEW p \in Pipes, Stop(p) PROVE PoolInv'
<1>1. /\ p \in Readers /\ p \notin Refs /\ mode' = [mode EXCEPT ![p] = "stopped"]
      /\ Recycle(SizeOf[p], held[p], None) /\ held' = [held EXCEPT ![p] = None]
      /\ UNCHANGED <<pending, disposed, requests, answers, current, scheduled, lastSeq,
                     ringVars, mapped>>
  BY DEF Stop, DisplayAfterStop, Readers
<1>2. ReadersTyped'
  BY <1>1 DEF PoolInv, Shape, ReadersTyped, Modes
<1>3. ReadersGone'
  BY <1>1 DEF PoolInv, Shape, ReadersGone, Modes
<1>. QED BY <1>1, <1>2, <1>3, ClearedKeeps

LEMMA FlushRefusedKeeps == ASSUME PoolInv, NEW f \in Refs, FlushRefused(f) PROVE PoolInv'
<1>1. /\ f \in Readers /\ scheduled' = scheduled \ {f}
      /\ Recycle(SizeOf[f], held[f], None) /\ held' = [held EXCEPT ![f] = None]
      /\ current' = [current EXCEPT ![f] = None]
      /\ UNCHANGED <<pending, disposed, requests, answers, mode, lastSeq, ringVars, mapped>>
  BY DEF FlushRefused, Readers
<1>2. ReadersTyped'
  BY <1>1 DEF PoolInv, Shape, ReadersTyped
<1>3. ReadersGone'
  BY <1>1 DEF PoolInv, Shape, ReadersGone
<1>. QED BY <1>1, <1>2, <1>3, ClearedKeeps

LEMMA DisposeRefKeeps == ASSUME PoolInv, NEW f \in Refs, DisposeRef(f) PROVE PoolInv'
<1>1. /\ f \in Readers /\ f \notin Pipes /\ scheduled' = scheduled \ {f}
      /\ mode' = [mode EXCEPT ![f] = "disposed"]
      /\ Recycle(SizeOf[f], held[f], None) /\ held' = [held EXCEPT ![f] = None]
      /\ current' = [current EXCEPT ![f] = None]
      /\ UNCHANGED <<pending, disposed, requests, answers, lastSeq, ringVars, mapped>>
  BY DEF DisposeRef, ScheduledAfterDisposal, TokensAfterDisposal, Readers
<1>2. ReadersTyped'
  BY <1>1 DEF PoolInv, Shape, ReadersTyped, Modes
<1>3. ReadersGone'
  BY <1>1 DEF PoolInv, Shape, ReadersGone, Modes
<1>. QED BY <1>1, <1>2, <1>3, ClearedKeeps

LEMMA RefTimeoutKeeps == ASSUME PoolInv, NEW x \in Buffers, RefTimeout(x) PROVE PoolInv'
<1>1. PICK f : f = ReaderOf(x)
  OBVIOUS
<1>2. /\ f \in Refs /\ f \in Readers /\ pending' = pending \ {x}
      /\ Recycle(SizeOf[f], IF current[f] = x THEN held[f] ELSE None, None)
      /\ held' = IF current[f] = x THEN [held EXCEPT ![f] = None] ELSE held
      /\ current' = IF current[f] = x THEN [current EXCEPT ![f] = None] ELSE current
      /\ UNCHANGED <<disposed, requests, answers, mode, scheduled, lastSeq, ringVars,
                     mapped>>
  BY <1>1 DEF RefTimeout, Displaced, Readers
<1>3. ReadersTyped'
  BY <1>2 DEF PoolInv, Shape, ReadersTyped
<1>4. ReadersGone'
  <2>1. /\ \A r \in Readers : held'[r] \in {held[r], None}
        /\ \A r \in Readers : current'[r] \in {current[r], None}
    BY <1>2 DEF PoolInv, Shape
  <2>. QED BY <1>2, <2>1 DEF PoolInv, ReadersGone, Readers
<1>5. CASE current[f] = x
  BY <1>2, <1>3, <1>4, <1>5, ClearedKeeps
<1>6. CASE current[f] # x
  <2>1. PICK d : d = held[f]
    OBVIOUS
  <2>2. /\ d \in Buffers \union {None} /\ Shown(f) = {d} \ {None}
        /\ held' = [held EXCEPT ![f] = d]
    BY <1>2, <1>6, <2>1 DEF PoolInv, Shape, Shown
  <2>3. Returned(f, {}, None, None, d)
    BY <1>2, <1>6, <2>2 DEF Returned, Takes, Recycle
  <2>4. pending' \subseteq pending \ {}
    BY <1>2
  <2>. QED BY <1>2, <1>3, <1>4, <2>2, <2>3, <2>4, ReturnedKeeps
<1>. QED BY <1>5, <1>6

\* A request is made.
LEMMA RequestedKeeps ==
  ASSUME PoolInv, NEW r \in Readers, NEW x \in Buffers, NEW last \in 0 .. MaxFrames,
         Request(r, x, last), mode[r] # "disposed",
         UNCHANGED <<disposed, answers, mode, held, lastSeq, ringVars, mapped>>,
         scheduled' \subseteq scheduled
  PROVE  PoolInv'
<1>1. Shape /\ OwnersApart /\ Books /\ PendingIsOut /\ ReadersGone
  BY DEF PoolInv
<1>2. OwnersApart' /\ Books' /\ pools' \in [Sizes -> AnyBucket]
      /\ requests' \in Seq(Messages)
  BY <1>1, RequestKeeps
<1>3. Carried(requests') = Carried(requests) \union {x}
  BY <1>1, RequestedOut
<1>4. pending' = pending \union {x} /\ current' = [current EXCEPT ![r] = x]
  BY DEF Request
<1>5. PendingIsOut'
  BY <1>1, <1>3, <1>4 DEF PendingIsOut, Carried
<1>6. current' \in [Readers -> Buffers \union {None}]
      /\ \A f \in Refs : f # r => current'[f] = current[f]
  BY <1>1, <1>4 DEF Shape
<1>7. Shape'
  BY <1>1, <1>2, <1>6 DEF Shape, ringVars, Messages
<1>8. ReadersGone'
  BY <1>1, <1>6 DEF ReadersGone
<1>. QED BY <1>2, <1>5, <1>7, <1>8 DEF PoolInv

LEMMA PollKeeps == ASSUME PoolInv, NEW p \in Pipes, Poll(p) PROVE PoolInv'
<1>1. PICK x \in Buffers : Request(p, x, lastSeq[p])
  BY DEF Poll
<1>2. PICK last : last = lastSeq[p]
  OBVIOUS
<1>3. last \in 0 .. MaxFrames /\ p \in Readers /\ mode[p] # "disposed"
  BY <1>2 DEF PoolInv, Shape, Readers, Poll
<1>. QED BY <1>1, <1>2, <1>3, RequestedKeeps DEF Poll

LEMMA FlushKeeps == ASSUME PoolInv, NEW f \in Refs, Flush(f) PROVE PoolInv'
<1>1. PICK x \in Buffers : Request(f, x, 0)
  BY DEF Flush
<1>2. 0 \in 0 .. MaxFrames /\ f \in Readers
  BY DEF Readers
<1>3. mode[f] # "disposed"
  BY DEF Flush, PoolInv, Shape
<1>. QED BY <1>1, <1>2, <1>3, RequestedKeeps DEF Flush

LEMMA PreloadKeeps == ASSUME PoolInv, Preload PROVE PoolInv'
<1>1. /\ requests # <<>> /\ UNCHANGED <<pools, pending, disposed, readerVars, ringVars>>
      /\ \E outcome \in {"frame", "none", "closed", "error"}, seq \in 0 .. MaxFrames :
           Answer(Head(requests), outcome, seq)
      /\ mapped' \subseteq Segments
  <2>1. requests \in Seq(Messages)
    BY Queues DEF PoolInv
  <2>2. CASE PreloadReadsPipe
    <3>1. PICK m : m = Head(requests)
      OBVIOUS
    <3>2. PICK g : g = SegmentOf[m.reader]
      OBVIOUS
    <3>3. g \in Segments
      BY <2>2, <3>1, <3>2 DEF PreloadReadsPipe
    <3>4. PICK outcome \in PipeOutcomes(g, m.last) :
            /\ Answer(m, outcome, IF outcome = "frame" THEN published[g] ELSE 0)
            /\ mapped' = IF outcome \in {"closed", "error"} THEN mapped \ {g}
                                                            ELSE mapped \union {g}
      BY <2>2, <3>1, <3>2 DEF PreloadReadsPipe
    <3>5. outcome \in {"frame", "none", "closed", "error"}
      BY <3>4 DEF PipeOutcomes
    <3>6. PICK seq : seq = IF outcome = "frame" THEN published[g] ELSE 0
      OBVIOUS
    <3>7. seq \in 0 .. MaxFrames
      BY <3>3, <3>6 DEF PoolInv, Shape
    <3>8. mapped' \subseteq Segments
      BY <3>3, <3>4 DEF PoolInv, Shape
    <3>. QED BY <2>2, <3>1, <3>4, <3>5, <3>6, <3>7, <3>8 DEF PreloadReadsPipe
  <2>3. CASE PreloadReadsFrame
    <3>1. 0 \in 0 .. MaxFrames /\ mapped' \subseteq Segments
      BY <2>3 DEF PreloadReadsFrame, PoolInv, Shape
    <3>. QED BY <2>3, <3>1 DEF PreloadReadsFrame, RefOutcomes
  <2>. QED BY <2>2, <2>3 DEF Preload
<1>2. Shape /\ OwnersApart /\ Books /\ PendingIsOut /\ ReadersGone
  BY DEF PoolInv
<1>3. OwnersApart' /\ Books' /\ PendingIsOut'
      /\ requests' \in Seq(Messages) /\ answers' \in Seq(Answers)
  BY <1>1, <1>2, AnswerKeeps DEF readerVars
<1>4. Shape' /\ ReadersGone'
  BY <1>1, <1>2, <1>3 DEF Shape, ReadersGone, Messages, Answers, readerVars, ringVars
<1>. QED BY <1>3, <1>4 DEF PoolInv

LEMMA DisposeKeeps == ASSUME PoolInv, Dispose PROVE PoolInv'
<1>1. /\ disposed' = TRUE /\ pending' = {} /\ requests' = <<>> /\ answers' = <<>>
      /\ pools' = [s \in Sizes |-> NoBucket]
      /\ held' = [r \in Readers |->
                    IF r \in Refs /\ current[r] \in pending THEN None ELSE held[r]]
      /\ current' = [r \in Readers |-> None]
      /\ UNCHANGED <<mode, scheduled, lastSeq, ringVars, mapped>>
  BY DEF Dispose
<1>2. NoBucket \in AnyBucket /\ NoBucket.free = {}
  BY DEF NoBucket, AnyBucket
<1>3. Shape'
  <2>1. /\ pools' \in [Sizes -> AnyBucket] /\ held' \in [Readers -> Buffers \union {None}]
        /\ current' \in [Readers -> Buffers \union {None}]
    BY <1>1, <1>2 DEF PoolInv, Shape
  <2>2. requests' \in Seq(Messages) /\ answers' \in Seq(Answers)
    BY <1>1
  <2>. QED BY <1>1, <2>1, <2>2 DEF PoolInv, Shape, Messages, Answers, ringVars
<1>4. OwnersApart'
  <2>1. /\ Distinct(requests') /\ Distinct(answers')
        /\ Carried(requests') = {} /\ Carried(answers') = {}
    BY <1>1 DEF Distinct, Carried
  <2>2. \A r \in Readers : Shown(r)' \subseteq Shown(r)
    BY <1>1 DEF Shown
  <2>3. \A s \in Sizes : pools'[s].free = {}
    BY <1>1, <1>2
  <2>4. \A r, o \in Readers : r # o => Shown(r)' \intersect Shown(o)' = {}
    BY <2>2 DEF PoolInv, OwnersApart
  <2>. QED BY <2>1, <2>3, <2>4 DEF OwnersApart, Shown, Carried, Distinct
<1>5. Books'
  BY <1>1 DEF Books
<1>6. ReadersGone' /\ PendingIsOut'
  BY <1>1 DEF PoolInv, Shape, ReadersGone, PendingIsOut, Readers
<1>. QED BY <1>3, <1>4, <1>5, <1>6 DEF PoolInv

LEMMA OutStill ==
  ASSUME UNCHANGED <<requests, answers, held>>, NEW s
  PROVE  Out(s)' = Out(s)
<1>1. \A x : Shown(x)' = Shown(x)
  BY DEF Shown
<1>2. \A y : y \in Out(s)' <=> y \in Out(s)
  BY <1>1, OutIs, OutIsNext
<1>. QED BY <1>2

\* No buffer moves.
LEMMA StillKeeps ==
  ASSUME PoolInv, UNCHANGED <<pools, requests, answers, held, disposed>>,
         pending' \subseteq pending, ReadersTyped', ReadersGone',
         published' \in [Segments -> 0 .. MaxFrames], life' \in [Segments -> {"live", "closed"}],
         mapped' \subseteq Segments
  PROVE  PoolInv'
<1>1. Shape /\ OwnersApart /\ Books /\ PendingIsOut
  BY DEF PoolInv
<1>2. Shape'
  <2>1. /\ pools' \in [Sizes -> AnyBucket] /\ disposed' \in BOOLEAN
        /\ requests' \in Seq(Messages) /\ answers' \in Seq(Answers)
        /\ held' \in [Readers -> Buffers \union {None}]
    BY <1>1, Queues DEF Shape
  <2>2. /\ ReadersTyped' /\ published' \in [Segments -> 0 .. MaxFrames]
        /\ life' \in [Segments -> {"live", "closed"}] /\ mapped' \subseteq Segments
    OBVIOUS
  <2>. QED BY ONLY <2>1, <2>2 DEF Shape, ReadersTyped, Messages, Answers
<1>3. OwnersApart'
  <2>1. /\ Carried(requests') = Carried(requests) /\ Carried(answers') = Carried(answers)
        /\ \A r : Shown(r)' = Shown(r)
    BY DEF Shown
  <2>. QED BY <1>1, <2>1 DEF OwnersApart, Shown, Carried, Distinct
<1>4. \A s : Out(s)' = Out(s)
  BY OutStill
<1>5. Books'
  BY <1>1, <1>4 DEF Books, Retains
<1>6. PendingIsOut'
  BY <1>1 DEF PendingIsOut, Carried
<1>. QED BY <1>2, <1>3, <1>5, <1>6 DEF PoolInv

LEMMA WindowElapsesKeeps == ASSUME PoolInv, NEW s \in Sizes, WindowElapses(s) PROVE PoolInv'
<1>1. /\ pools' = [pools EXCEPT ![s].elapsed = @ + 1] /\ pools[s] # NoBucket
      /\ pools[s].elapsed < 2
      /\ UNCHANGED <<pending, disposed, requests, answers, readerVars, ringVars, mapped>>
  BY DEF WindowElapses
<1>2. Shape /\ OwnersApart /\ Books /\ PendingIsOut /\ ReadersGone
  BY DEF PoolInv
<1>3. PICK b : b = [pools[s] EXCEPT !.elapsed = @ + 1]
  OBVIOUS
<1>4. /\ b \in AnyBucket /\ b.free = pools[s].free /\ b.outstanding = pools[s].outstanding
      /\ b.windowPeak = pools[s].windowPeak /\ b.prevWindowPeak = pools[s].prevWindowPeak
  <2>1. pools[s] \in AnyBucket
    BY <1>2 DEF Shape
  <2>2. pools[s].elapsed + 1 \in 0 .. 2
    BY <1>1, <2>1 DEF AnyBucket
  <2>. QED BY <1>3, <2>1, <2>2 DEF AnyBucket
<1>5. pools' = [pools EXCEPT ![s] = b] /\ pools \in [Sizes -> AnyBucket]
  BY <1>1, <1>2, <1>3 DEF Shape
<1>6. /\ pools' \in [Sizes -> AnyBucket]
      /\ \A t \in Sizes :
           /\ pools'[t].free = pools[t].free /\ pools'[t].outstanding = pools[t].outstanding
           /\ Retains(pools[t]) => Retains(pools'[t])
  BY <1>4, <1>5 DEF Retains
<1>7. Shape'
  BY <1>1, <1>2, <1>6 DEF Shape, readerVars, ringVars
<1>8. OwnersApart'
  <2>1. UNCHANGED <<requests, answers, held>>
    BY <1>1 DEF readerVars
  <2>2. /\ Carried(requests') = Carried(requests) /\ Carried(answers') = Carried(answers)
        /\ \A r : Shown(r)' = Shown(r)
    BY <2>1 DEF Shown
  <2>. QED BY <1>2, <1>6, <2>1, <2>2 DEF OwnersApart, Shown, Carried, Distinct
<1>9. \A t : Out(t)' = Out(t)
  BY <1>1, OutStill DEF readerVars
<1>10. ~ disposed
  BY <1>1, <1>2 DEF Books
<1>11. Books'
  BY <1>1, <1>2, <1>6, <1>9, <1>10 DEF Books, Retains
<1>12. PendingIsOut' /\ ReadersGone'
  BY <1>1, <1>2 DEF PendingIsOut, Carried, ReadersGone, readerVars
<1>. QED BY <1>7, <1>8, <1>11, <1>12 DEF PoolInv

LEMMA PoolStarts == Init => PoolInv
<1> SUFFICES ASSUME Init PROVE PoolInv
  OBVIOUS
<1>1. NoBucket \in AnyBucket /\ NoBucket.free = {} /\ NoBucket.outstanding = 0
      /\ Retains(NoBucket)
  BY FS_EmptySet DEF NoBucket, AnyBucket, Retains
<1>2. Shape
  <2>1. requests \in Seq(Messages) /\ answers \in Seq(Answers)
    BY DEF Init
  <2>2. pools \in [Sizes -> AnyBucket]
    BY <1>1 DEF Init
  <2>3. /\ held \in [Readers -> Buffers \union {None}] /\ mode \in Modes
        /\ current \in [Readers -> Buffers \union {None}]
    BY DEF Init, Modes
  <2>4. lastSeq \in [Pipes -> 0 .. MaxFrames] /\ published \in [Segments -> 0 .. MaxFrames]
        /\ life \in [Segments -> {"live", "closed"}]
    BY DEF Init
  <2>5. disposed \in BOOLEAN /\ scheduled = {} /\ mapped = {}
    BY DEF Init
  <2>. QED BY ONLY <2>1, <2>2, <2>3, <2>4, <2>5 DEF Shape, Messages, Answers
<1>3. /\ \A q \in {requests, answers} : Carried(q) = {} /\ Distinct(q)
                                        /\ \A s : CarriedFor(q, s) = {}
      /\ \A r \in Readers : Shown(r) = {}
  BY DEF Init, Carried, Distinct, CarriedFor, Shown
<1>4. OwnersApart
  BY <1>1, <1>3 DEF OwnersApart, Init
<1>5. Books
  <2>1. \A s : Out(s) = {}
    BY <1>3, OutIs
  <2>. QED BY <1>1, <2>1, FS_EmptySet DEF Books, Init
<1>6. ReadersGone /\ PendingIsOut
  BY DEF Init, ReadersGone, PendingIsOut, Readers
<1>. QED BY <1>2, <1>4, <1>5, <1>6 DEF PoolInv

\* Every buffer has one owner, and the books are kept.
THEOREM Pool == Spec => []PoolInv
<1>1. Init => PoolInv
  BY PoolStarts
<1>2. ASSUME PoolInv, [Next]_vars PROVE PoolInv'
  <2>1. ASSUME NEW p \in Pipes, Start(p) PROVE PoolInv'
    <3>1. p \in Readers /\ p \notin Refs
      BY DEF Readers
    <3>2. ReadersTyped' /\ ReadersGone'
      BY <1>2, <2>1, <3>1 DEF Start, PoolInv, Shape, ReadersTyped, ReadersGone, Modes
    <3>. QED BY <1>2, <2>1, <3>2, StillKeeps DEF Start, ringVars, PoolInv, Shape
  <2>2. ASSUME NEW f \in Refs, Attach(f) PROVE PoolInv'
    <3>1. f \in Readers /\ f \notin Pipes
      BY DEF Readers
    <3>2. ReadersTyped' /\ ReadersGone'
      BY <1>2, <2>2, <3>1 DEF Attach, PoolInv, Shape, ReadersTyped, ReadersGone, Modes
    <3>. QED BY <1>2, <2>2, <3>2, StillKeeps DEF Attach, ringVars, PoolInv, Shape
  <2>3. ASSUME NEW f \in Refs, FrameArrives(f) PROVE PoolInv'
    <3>1. ReadersTyped' /\ ReadersGone'
      BY <1>2, <2>3 DEF FrameArrives, PoolInv, Shape, ReadersTyped, ReadersGone
    <3>. QED BY <1>2, <2>3, <3>1, StillKeeps DEF FrameArrives, ringVars, PoolInv, Shape
  <2>4. ASSUME NEW x \in Buffers, PipeTimeout(x) PROVE PoolInv'
    <3>1. PICK p : p = ReaderOf(x)
      OBVIOUS
    <3>2. /\ p \in Pipes /\ p \in Readers /\ p \notin Refs /\ pending' = pending \ {x}
          /\ current' = [current EXCEPT ![p] = None]
          /\ UNCHANGED <<pools, disposed, requests, answers, mode, held, scheduled, lastSeq,
                         ringVars, mapped>>
      BY <2>4, <3>1 DEF PipeTimeout, Readers
    <3>3. ReadersTyped' /\ ReadersGone'
      BY <1>2, <3>2 DEF PoolInv, Shape, ReadersTyped, ReadersGone
    <3>. QED BY <1>2, <3>2, <3>3, StillKeeps DEF ringVars, PoolInv, Shape
  <2>5. ASSUME NEW g \in Segments, Publish(g) \/ Close(g) PROVE PoolInv'
    <3>1. ReadersTyped' /\ ReadersGone' /\ pending' = pending /\ mapped' \subseteq Segments
          /\ UNCHANGED <<pools, requests, answers, held, disposed>>
      BY <1>2, <2>5
      DEF Publish, Close, PoolInv, Shape, ReadersTyped, ReadersGone, readerVars
    <3>2. published' \in [Segments -> 0 .. MaxFrames] /\ life' \in [Segments -> {"live", "closed"}]
      <4>1. published \in [Segments -> 0 .. MaxFrames] /\ life \in [Segments -> {"live", "closed"}]
        BY <1>2 DEF PoolInv, Shape
      <4>2. CASE Publish(g)
        <5>1. published[g] + 1 \in 0 .. MaxFrames
          BY <4>1, <4>2 DEF Publish
        <5>. QED BY <4>1, <4>2, <5>1 DEF Publish
      <4>3. CASE Close(g)
        BY <4>1, <4>3 DEF Close
      <4>. QED BY <2>5, <4>2, <4>3
    <3>. QED BY <1>2, <3>1, <3>2, StillKeeps
  <2>6. CASE UNCHANGED vars
    <3>1. ReadersTyped' /\ ReadersGone'
      BY <1>2, <2>6 DEF vars, readerVars, PoolInv, Shape, ReadersTyped, ReadersGone
    <3>. QED BY <1>2, <2>6, <3>1, StillKeeps DEF vars, readerVars, ringVars, PoolInv, Shape
  <2>7. CASE OnMessage
    BY <1>2, <2>7, StaleAnswerKeeps, PipeAnswerKeeps, RefAnswerKeeps DEF OnMessage
  <2>8. ASSUME NEW p \in Pipes, Poll(p) \/ Stop(p) PROVE PoolInv'
    BY <1>2, <2>8, PollKeeps, StopKeeps
  <2>9. ASSUME NEW f \in Refs, Flush(f) \/ FlushRefused(f) \/ DisposeRef(f) PROVE PoolInv'
    BY <1>2, <2>9, FlushKeeps, FlushRefusedKeeps, DisposeRefKeeps
  <2>10. ASSUME NEW x \in Buffers, RefTimeout(x) PROVE PoolInv'
    BY <1>2, <2>10, RefTimeoutKeeps
  <2>11. ASSUME NEW s \in Sizes, WindowElapses(s) PROVE PoolInv'
    BY <1>2, <2>11, WindowElapsesKeeps
  <2>. QED
    BY <1>2, <2>1, <2>2, <2>3, <2>4, <2>5, <2>6, <2>7, <2>8, <2>9, <2>10, <2>11,
       PreloadKeeps, DisposeKeeps DEF Next
<1>. QED BY <1>1, <1>2, PTL DEF Spec

-----------------------------------------------------------------------------
(* What follows from it.                                                    *)

LEMMA FromMessages ==
  ASSUME NEW M, NEW q \in Seq(M), Distinct(q), NEW D \in SUBSET (DOMAIN q)
  PROVE  /\ IsFiniteSet({q[n].buffer : n \in D}) /\ IsFiniteSet(D)
         /\ Cardinality({q[n].buffer : n \in D}) = Cardinality(D)
<1> DEFINE T == {q[n].buffer : n \in D}
           f == [n \in D |-> q[n].buffer]
<1>1. IsFiniteSet(D)
  <2>1. DOMAIN q = 1 .. Len(q) /\ Len(q) \in Nat
    OBVIOUS
  <2>2. PICK n \in Nat : n = Len(q)
    BY <2>1
  <2>3. IsFiniteSet(1 .. n)
    BY FS_Interval
  <2>4. D \subseteq 1 .. n
    BY <2>1, <2>2
  <2>. QED BY ONLY <2>3, <2>4, FS_Subset
<1>2. f \in Surjection(D, T)
  BY DEF Surjection
<1>3. f \in Injection(D, T)
  BY DEF Injection, IsInjective, Distinct
<1>. QED BY <1>1, <1>2, <1>3, FS_Surjection

LEMMA FromDisplays ==
  ASSUME Shape, OwnersApart, NEW D \in SUBSET {r \in Readers : held[r] # None}
  PROVE  /\ IsFiniteSet({held[r] : r \in D}) /\ IsFiniteSet(D)
         /\ Cardinality({held[r] : r \in D}) = Cardinality(D)
<1> DEFINE T == {held[r] : r \in D}
           f == [r \in D |-> held[r]]
<1>1. IsFiniteSet(D)
  BY FS_Subset
<1>2. f \in Surjection(D, T)
  BY DEF Surjection
<1>3. f \in Injection(D, T)
  BY DEF Injection, IsInjective, OwnersApart, Shown
<1>. QED BY <1>1, <1>2, <1>3, FS_Surjection

LEMMA FromPools ==
  ASSUME Shape, OwnersApart
  PROVE  LET P == {x \in Sizes \X Buffers : x[2] \in pools[x[1]].free}
             F == UNION {pools[s].free : s \in Sizes}
         IN  IsFiniteSet(F) /\ IsFiniteSet(P) /\ Cardinality(F) = Cardinality(P)
<1> DEFINE P == {x \in Sizes \X Buffers : x[2] \in pools[x[1]].free}
           F == UNION {pools[s].free : s \in Sizes}
           f == [x \in P |-> x[2]]
<1>1. F \subseteq Buffers /\ IsFiniteSet(F)
  <2>1. F \subseteq Buffers
    BY DEF Shape, AnyBucket
  <2>. QED BY <2>1, FS_Subset
<1>2. f \in Surjection(P, F)
  <2>1. f \in [P -> F]
    OBVIOUS
  <2>2. ASSUME NEW y \in F PROVE \E x \in P : f[x] = y
    <3>1. PICK s \in Sizes : y \in pools[s].free
      OBVIOUS
    <3>2. <<s, y>> \in P /\ f[<<s, y>>] = y
      BY <1>1, <3>1
    <3>. QED BY <3>2
  <2>. QED BY <2>1, <2>2 DEF Surjection
<1>3. f \in Injection(P, F)
  <2>1. ASSUME NEW x \in P, NEW y \in P, x[2] = y[2] PROVE x = y
    BY <2>1 DEF OwnersApart
  <2>. QED BY <1>2, <2>1 DEF Injection, IsInjective, Surjection
<1>4. IsFiniteSet(P)
  BY <1>1, <1>3, FS_Injection
<1>. QED BY <1>1, <1>2, <1>3, <1>4, FS_Surjection

LEMMA Together ==
  ASSUME NEW A, IsFiniteSet(A), NEW B, IsFiniteSet(B), A \intersect B = {},
         NEW C, C = A \union B
  PROVE  /\ IsFiniteSet(C) /\ Cardinality(C) = Cardinality(A) + Cardinality(B)
         /\ Cardinality(A) \in Nat /\ Cardinality(B) \in Nat /\ Cardinality(C) \in Nat
<1>1. Cardinality(A \intersect B) = 0
  BY FS_EmptySet
<1>2. /\ IsFiniteSet(C)
      /\ Cardinality(C) = Cardinality(A) + Cardinality(B) - Cardinality(A \intersect B)
  BY FS_Union
<1>3. Cardinality(A) \in Nat /\ Cardinality(B) \in Nat /\ Cardinality(C) \in Nat
  BY <1>2, FS_CardinalityType
<1>. QED BY <1>1, <1>2, <1>3

LEMMA MessagesCount ==
  ASSUME NEW M, NEW q \in Seq(M), Distinct(q)
  PROVE  /\ IsFiniteSet(Carried(q)) /\ Cardinality(Carried(q)) = Len(q)
         /\ \A s : /\ IsFiniteSet(CarriedFor(q, s))
                  /\ Cardinality(CarriedFor(q, s))
                       = Cardinality({n \in DOMAIN q : SizeOf[q[n].reader] = s})
<1>1. /\ IsFiniteSet({q[n].buffer : n \in DOMAIN q})
      /\ Cardinality({q[n].buffer : n \in DOMAIN q}) = Cardinality(DOMAIN q)
  <2>1. PICK D : D = DOMAIN q
    OBVIOUS
  <2>2. D \in SUBSET (DOMAIN q) /\ q \in Seq(M) /\ Distinct(q)
    BY <2>1
  <2>3. /\ IsFiniteSet({q[n].buffer : n \in D})
        /\ Cardinality({q[n].buffer : n \in D}) = Cardinality(D)
    BY ONLY <2>2, FromMessages, Zenon
  <2>. QED BY ONLY <2>1, <2>3, Zenon
<1>2. Cardinality(DOMAIN q) = Len(q)
  <2>1. PICK n \in Nat : n = Len(q)
    OBVIOUS
  <2>2. DOMAIN q = 1 .. n
    BY <2>1
  <2>3. Cardinality(1 .. n) = n
    BY FS_Interval
  <2>. QED BY <2>1, <2>2, <2>3
<1>3. ASSUME NEW s
      PROVE  /\ IsFiniteSet(CarriedFor(q, s))
             /\ Cardinality(CarriedFor(q, s))
                  = Cardinality({n \in DOMAIN q : SizeOf[q[n].reader] = s})
  <2>1. PICK D : D = {n \in DOMAIN q : SizeOf[q[n].reader] = s}
    OBVIOUS
  <2>2. /\ IsFiniteSet({q[n].buffer : n \in D})
        /\ Cardinality({q[n].buffer : n \in D}) = Cardinality(D)
    <3>1. D \in SUBSET (DOMAIN q) /\ q \in Seq(M) /\ Distinct(q)
      BY <2>1
    <3>. QED BY ONLY <3>1, FromMessages, Zenon
  <2>3. CarriedFor(q, s) = {q[n].buffer : n \in D}
    BY ONLY <2>1 DEF CarriedFor
  <2>. QED BY ONLY <2>1, <2>2, <2>3
<1>. QED BY <1>1, <1>2, <1>3 DEF Carried

\* Pixels that are shown are never sent to be overwritten, and no buffer is given
\* back twice, whatever order stops, timeouts, late answers and disposals come in.
THEOREM OneOwner == Spec => []BuffersHaveOneOwner
<1>1. ASSUME PoolInv PROVE BuffersHaveOneOwner
  <2> DEFINE F == UNION {pools[s].free : s \in Sizes}
             P == {x \in Sizes \X Buffers : x[2] \in pools[x[1]].free}
             D == {r \in Readers : held[r] # None}
             H == {held[r] : r \in D}
             Q == Carried(requests)
             A == Carried(answers)
  <2>1. Shape /\ OwnersApart
    BY <1>1 DEF PoolInv
  <2>2. IsFiniteSet(F) /\ Cardinality(F) = Cardinality(P)
    BY <2>1, FromPools
  <2>3. IsFiniteSet(H) /\ Cardinality(H) = Cardinality(D)
    BY <2>1, FromDisplays
  <2>4. IsFiniteSet(Q) /\ Cardinality(Q) = Len(requests) /\ IsFiniteSet(A)
        /\ Cardinality(A) = Len(answers)
    <3>1. /\ requests \in Seq(Messages) /\ answers \in Seq(Answers)
          /\ Distinct(requests) /\ Distinct(answers)
      BY <2>1, Queues DEF OwnersApart
    <3>2. IsFiniteSet(Q) /\ Cardinality(Q) = Len(requests)
      BY ONLY <3>1, MessagesCount, Zenon
    <3>3. IsFiniteSet(A) /\ Cardinality(A) = Len(answers)
      BY ONLY <3>1, MessagesCount, Zenon
    <3>. QED BY <3>2, <3>3
  <2>5. /\ \A y : y \in F <=> \E s \in Sizes : y \in pools[s].free
        /\ \A y : y \in H <=> \E r \in Readers : y \in Shown(r)
    BY DEF Shown
  <2>6. /\ F \intersect H = {} /\ (F \union H) \intersect Q = {}
        /\ ((F \union H) \union Q) \intersect A = {}
    BY <2>1, <2>5 DEF OwnersApart
  <2>7. InUse = ((F \union H) \union Q) \union A
    BY <2>5, InUseIs
  <2> HIDE DEF F, P, D, H, Q, A
  <2>8. PICK X, Y, Z : X = F \union H /\ Y = X \union Q /\ Z = Y \union A
    OBVIOUS
  <2>9. /\ IsFiniteSet(X) /\ Cardinality(X) = Cardinality(F) + Cardinality(H)
        /\ Cardinality(F) \in Nat /\ Cardinality(H) \in Nat
    BY <2>2, <2>3, <2>6, <2>8, Together
  <2>10. /\ IsFiniteSet(Y) /\ Cardinality(Y) = Cardinality(X) + Cardinality(Q)
         /\ Cardinality(Q) \in Nat
    BY <2>4, <2>6, <2>8, <2>9, Together
  <2>11. Cardinality(Z) = Cardinality(Y) + Cardinality(A) /\ Cardinality(A) \in Nat
    BY <2>4, <2>6, <2>8, <2>10, Together
  <2>12. Cardinality(InUse)
           = Cardinality(P) + Len(requests) + Len(answers) + Cardinality(D)
    <3>1. InUse = Z
      BY <2>7, <2>8
    <3>. QED BY <2>2, <2>3, <2>4, <2>9, <2>10, <2>11, <3>1
  <2>. QED BY <2>12 DEF BuffersHaveOneOwner, P, D
<1>. QED BY <1>1, Pool, PTL

\* A size's outstanding count, by which it is evicted and its cap is set, is the
\* number of buffers of that size that will come back.
THEOREM CountsAreReal == Spec => []OutstandingIsReal
<1>1. ASSUME PoolInv, ~ disposed, NEW s \in Sizes
      PROVE  pools[s].outstanding = OnTheWay(s) + Cardinality(Displayed(s))
  <2> DEFINE H == {held[r] : r \in Displayed(s)}
             Q == CarriedFor(requests, s)
             A == CarriedFor(answers, s)
  <2>1. Shape /\ OwnersApart /\ pools[s].outstanding = Cardinality(Out(s))
    BY <1>1 DEF PoolInv, Books
  <2>2. IsFiniteSet(H) /\ Cardinality(H) = Cardinality(Displayed(s))
    <3>1. Displayed(s) \in SUBSET {r \in Readers : held[r] # None}
      BY DEF Displayed
    <3>. QED BY <2>1, <3>1, FromDisplays
  <2>3. /\ IsFiniteSet(Q) /\ IsFiniteSet(A)
        /\ Cardinality(Q) = Cardinality({n \in DOMAIN requests : SizeOf[requests[n].reader] = s})
        /\ Cardinality(A) = Cardinality({n \in DOMAIN answers : SizeOf[answers[n].reader] = s})
    <3>1. /\ requests \in Seq(Messages) /\ answers \in Seq(Answers)
          /\ Distinct(requests) /\ Distinct(answers)
      BY <2>1, Queues DEF OwnersApart
    <3>2. /\ IsFiniteSet(Q)
          /\ Cardinality(Q)
               = Cardinality({n \in DOMAIN requests : SizeOf[requests[n].reader] = s})
      BY ONLY <3>1, MessagesCount, Zenon
    <3>3. /\ IsFiniteSet(A)
          /\ Cardinality(A)
               = Cardinality({n \in DOMAIN answers : SizeOf[answers[n].reader] = s})
      BY ONLY <3>1, MessagesCount, Zenon
    <3>. QED BY <3>2, <3>3
  <2>4. \A y \in H : \E r \in Readers : y \in Shown(r)
    BY DEF Displayed, Shown
  <2>5. Q \intersect A = {} /\ (Q \union A) \intersect H = {}
    <3>1. Q \subseteq Carried(requests) /\ A \subseteq Carried(answers)
      BY <2>1, Queues
    <3>. QED BY <2>1, <2>4, <3>1 DEF OwnersApart
  <2>6. Out(s) = (Q \union A) \union H
    BY DEF Out
  <2>7. OnTheWay(s) = Cardinality(Q) + Cardinality(A)
    BY <2>3 DEF OnTheWay
  <2> HIDE DEF H, Q, A
  <2>8. PICK X, Y : X = Q \union A /\ Y = X \union H
    OBVIOUS
  <2>9. IsFiniteSet(X) /\ Cardinality(X) = Cardinality(Q) + Cardinality(A)
    BY <2>3, <2>5, <2>8, Together
  <2>10. Cardinality(Y) = Cardinality(X) + Cardinality(H)
    BY <2>2, <2>5, <2>8, <2>9, Together
  <2>. QED BY <2>1, <2>2, <2>6, <2>7, <2>8, <2>9, <2>10
<1>2. PoolInv => OutstandingIsReal
  BY <1>1 DEF OutstandingIsReal
<1>. QED BY <1>2, Pool, PTL

\* A steady stream does not allocate: as many buffers are kept or out as were out
\* at once in the current window of a size or the one before.
THEOREM WorkingSet == Spec => []WorkingSetIsRetained
<1>1. ASSUME PoolInv, NEW s \in Sizes
      PROVE  RetentionCap(pools[s]) <= Cardinality(pools[s].free) + pools[s].outstanding
  <2>1. CASE disposed
    <3>1. pools[s] = NoBucket
      BY <1>1, <2>1 DEF PoolInv, Books
    <3>. QED BY <3>1, FS_EmptySet DEF NoBucket, RetentionCap, Larger
  <2>2. CASE ~ disposed
    BY <1>1, <2>2 DEF PoolInv, Books, Retains, RetentionCap, Larger
  <2>. QED BY <2>1, <2>2
<1>2. PoolInv => WorkingSetIsRetained
  BY <1>1 DEF WorkingSetIsRetained
<1>. QED BY <1>2, Pool, PTL

\* A reader that was stopped or disposed of displays nothing, whatever arrives
\* later.
THEOREM GoneShowNothing == Spec => []GoneReadersShowNothing
<1>1. PoolInv => GoneReadersShowNothing
  BY DEF PoolInv, ReadersGone, GoneReadersShowNothing
<1>. QED BY <1>1, Pool, PTL

\* The types, with the counts within what exists.
THEOREM Typing == Spec => []TypeOK
<1>1. ASSUME PoolInv, NEW s \in Sizes PROVE pools[s] \in Bucket
  <2>1. pools[s] \in AnyBucket /\ Cardinality(Buffers) \in Nat
    BY <1>1, FS_CardinalityType DEF PoolInv, Shape
  <2>2. CASE disposed
    <3>1. pools[s] = NoBucket
      BY <1>1, <2>2 DEF PoolInv, Books
    <3>. QED BY <2>1, <3>1 DEF NoBucket, Bucket
  <2>3. CASE ~ disposed
    <3>1. pools[s].outstanding = Cardinality(Out(s)) /\ Retains(pools[s])
      BY <1>1, <2>3 DEF PoolInv, Books
    <3>2. PICK free, out, all : free = pools[s].free /\ out = Out(s) /\ all = free \union out
      OBVIOUS
    <3>3. /\ free \in SUBSET Buffers /\ out \in SUBSET Buffers /\ all \in SUBSET Buffers
          /\ free \intersect out = {}
      BY <1>1, <2>1, <3>2, OutBuffers DEF PoolInv, AnyBucket
    <3>4. /\ IsFiniteSet(free) /\ IsFiniteSet(out) /\ IsFiniteSet(all)
          /\ Cardinality(all) <= Cardinality(Buffers)
      BY <3>3, BufferSets
    <3>5. /\ Cardinality(all) = Cardinality(free) + Cardinality(out)
          /\ Cardinality(free) \in Nat /\ Cardinality(out) \in Nat
      BY <3>2, <3>3, <3>4, Together
    <3>6. /\ pools[s].outstanding \in 0 .. Cardinality(Buffers)
          /\ pools[s].windowPeak \in 0 .. Cardinality(Buffers)
          /\ pools[s].prevWindowPeak \in 0 .. Cardinality(Buffers)
      BY <2>1, <3>1, <3>2, <3>4, <3>5 DEF Retains, AnyBucket
    <3>. QED BY <2>1, <3>6 DEF AnyBucket, Bucket
  <2>. QED BY <2>2, <2>3
<1>2. ASSUME PoolInv, NEW y \in pending
      PROVE  y \in {m.buffer : m \in ToSet(requests) \union ToSet(answers)}
  <2>1. PICK q \in {requests, answers} : y \in Carried(q)
    BY <1>2 DEF PoolInv, PendingIsOut
  <2>2. PICK n \in DOMAIN q : y = q[n].buffer
    BY <2>1 DEF Carried
  <2>3. q[n] \in ToSet(requests) \union ToSet(answers)
    BY DEF ToSet
  <2>. QED BY <2>2, <2>3
<1>3. ASSUME PoolInv PROVE TypeOK
  <2>1. pools \in [Sizes -> Bucket]
    BY <1>1, <1>3 DEF PoolInv, Shape
  <2>2. pending \subseteq {m.buffer : m \in ToSet(requests) \union ToSet(answers)}
    BY <1>2, <1>3
  <2>. QED BY <1>3, <2>1, <2>2 DEF PoolInv, Shape, TypeOK
<1>. QED BY <1>3, Pool, PTL
=============================================================================
