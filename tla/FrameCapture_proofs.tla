------------------------- MODULE FrameCapture_proofs -------------------------
(***************************************************************************)
(* Proofs about triggered captures, for any targets, cameras and queues.   *)
(*                                                                         *)
(* That a FIN tells of its own exposure and that a verdict is right is an  *)
(* argument about the cameras: when none of them has an earlier strobe to  *)
(* come as a request is taken up, they rest until its trigger, and from    *)
(* then on what the interrupts collect of them is of that request, however *)
(* late its strobes are.                                                   *)
(***************************************************************************)
EXTENDS FrameCapture, FiniteSetTheorems, SequenceTheorems, TLAPS

\* The scheduler's slots, of any host.
SlotsOf(h) ==
  /\ IsFiniteSet(h.open)
  /\ h.inFlight = Cardinality(h.open) /\ h.inFlight <= MaxInFlight
  /\ h.activeStreams = {r.stream : r \in h.open}
  /\ \A r, t \in h.open : r.stream = t.stream => r = t

HostOK(h) == h \in Host /\ SlotsOf(h)

\* The queue and the request that is active have one stream each, and are there
\* only while the controller is enabled.
QueueOK(m) ==
  /\ m.stage = "idle" <=> m.active = NoRequest
  /\ m.queue # <<>> \/ m.active # NoRequest => m.on
  /\ \A i, j \in DOMAIN m.queue : m.queue[i].stream = m.queue[j].stream => i = j
  /\ \A i \in DOMAIN m.queue : m.queue[i].stream # m.active.stream
  /\ m.flagged = {m.queue[i].stream : i \in DOMAIN m.queue}
                   \union (IF m.active = NoRequest THEN {} ELSE {m.active.stream})

\* Before the trigger of a request that no earlier strobe reaches, none of its
\* cameras follows one, and nothing is latched.
RestBefore ==
  mcu.stage \in {"popped", "settling"} /\ ~ clouded =>
    /\ mcu.latched = None
    /\ \A c \in ActiveCameras(mcu) : armed[c] = None /\ exposing[c] = None
    /\ mcu.stage = "popped" => \A c \in mcu.awaiting : armed[c] = None
    /\ mcu.stage = "settling" =>
         mcu.risen \intersect ActiveCameras(mcu) = {} /\ mcu.awaiting = ActiveCameras(mcu)

\* What the interrupts collect of its cameras is its own.
OwnExposure ==
  mcu.stage = "triggered" /\ ~ clouded =>
    /\ mcu.awaiting = ActiveCameras(mcu) /\ taken \subseteq ActiveCameras(mcu)
    /\ \A c \in ActiveCameras(mcu) :
         /\ armed[c] \in {None, mcu.active.seq} /\ exposing[c] \in {None, mcu.active.seq}
         /\ armed[c] # None => c \notin mcu.risen
         /\ exposing[c] # None => c \in mcu.risen \ taken
         /\ c \in mcu.high <=> exposing[c] # None
    /\ mcu.risen \intersect ActiveCameras(mcu)
         = taken \union {c \in ActiveCameras(mcu) : exposing[c] # None}
    /\ mcu.latched \in {None, mcu.active.seq}
    /\ mcu.latched = None <=> mcu.risen \intersect ActiveCameras(mcu) = {}

HighIsExposing == \A c \in mcu.high : exposing[c] # None

CaptureInv == RestBefore /\ OwnExposure /\ HighIsExposing

\* A strobe that rose since the masks were reset is still high, or was over before
\* the pulse was.
RisenBeforePulse ==
  /\ mcu.stage \in {"popped", "settling"} => mcu.elapsed = ""
  /\ mcu.stage \in {"popped", "settling", "triggered"} /\ mcu.elapsed = "" => ~ mcu.dropped
  /\ BeforePulseEnds =>
       /\ mcu.awaiting = ActiveCameras(mcu)
       /\ mcu.risen \intersect ActiveCameras(mcu) \subseteq mcu.high \union hasty

LineInv ==
  /\ RisenBeforePulse /\ LinesRest
  /\ mcu.stage = "triggered" /\ mcu.dropped => mcu.lines \intersect ActiveCameras(mcu) = {}

PastInv == clouded \in BOOLEAN /\ hasty \subseteq Cameras
HostInv == HostOK(host)
QueueInv == QueueOK(mcu)

-----------------------------------------------------------------------------
(* The scheduler: the next targets, and what asking for them does.          *)

USE TargetsAssumption, LimitsAssumption

LEMMA LeastNat ==
  ASSUME NEW T \in SUBSET Nat, T # {}
  PROVE  Min(T) \in T /\ \A m \in T : Min(T) <= m
<1> DEFINE R == OpToRel(<, Nat)
<1>1. IsWellFoundedOn(R, Nat)
  BY NatLessThanWellFounded
<1>2. PICK n \in T : \A m \in T : ~ (<<m, n>> \in R)
  <2> HIDE DEF R
  <2>. QED BY <1>1, WFMin
<1>3. ASSUME NEW m \in T PROVE n <= m
  <2>1. m \in Nat /\ n \in Nat
    OBVIOUS
  <2>2. <<m, n>> \notin {ss \in Nat \X Nat : ss[1] < ss[2]}
    BY <1>2 DEF OpToRel
  <2>3. ~ (m < n)
    BY ONLY <2>1, <2>2
  <2>. QED BY <2>1, <2>3
<1>. QED BY <1>3 DEF Min

LEMMA StreamsAndSeqs ==
  /\ IsFiniteSet(Streams) /\ IsFiniteSet(Seqs)
  /\ Len(Order) \in Nat \ {0} /\ DOMAIN Order = 1 .. Len(Order)
  /\ \A n \in DOMAIN Order : Order[n] \in Streams
<1>1. /\ Len(Order) \in Nat \ {0} /\ DOMAIN Order = 1 .. Len(Order)
      /\ \A n \in DOMAIN Order : Order[n] \in Streams
  <2>1. Order \in Seq(Streams) /\ Order # <<>>
    OBVIOUS
  <2>2. PICK S : S = Streams
    OBVIOUS
  <2>3. Order \in Seq(S) /\ Order # <<>>
    BY <2>1, <2>2
  <2>4. Len(Order) \in Nat /\ DOMAIN Order = 1 .. Len(Order) /\ Len(Order) # 0
    BY ONLY <2>3
  <2>5. \A n \in DOMAIN Order : Order[n] \in S
    BY ONLY <2>3
  <2>. QED BY ONLY <2>2, <2>4, <2>5
<1>2. IsFiniteSet(Seqs)
  BY FS_Interval DEF Seqs
<1>3. IsFiniteSet(Streams)
  <2>1. PICK D : D = DOMAIN Order
    OBVIOUS
  <2>2. IsFiniteSet(D)
    BY <1>1, <2>1, FS_Interval
  <2>3. Order \in Surjection(D, Streams)
    BY <1>1, <2>1 DEF Surjection, Streams, Range
  <2>. QED BY ONLY <2>2, <2>3, FS_Surjection
<1>. QED BY <1>1, <1>2, <1>3

\* A turn is a number of places to go from the cursor.
LEMMA TurnType ==
  ASSUME NEW h \in Host, NEW s \in Streams
  PROVE  Turn(h, s) \in Nat
<1> DEFINE T == {(n + Len(Order) - h.cursor) % Len(Order) : n \in Places(s)}
<1>1. PICK L \in Nat \ {0} : L = Len(Order)
  BY StreamsAndSeqs
<1>2. h.cursor \in 1 .. L
  BY <1>1 DEF Host
<1>3. \A n \in Places(s) : n \in 1 .. L
  BY <1>1, StreamsAndSeqs DEF Places
<1>4. T \in SUBSET Nat
  BY <1>1, <1>2, <1>3
<1>5. T # {}
  <2>1. PICK n \in DOMAIN Order : Order[n] = s
    BY DEF Streams, Range
  <2>2. n \in Places(s)
    BY <2>1 DEF Places
  <2>. QED BY <2>2
<1>6. Min(T) \in T
  <2> HIDE DEF T
  <2>. QED BY <1>4, <1>5, LeastNat
<1>7. Turn(h, s) = Min(T)
  BY DEF Turn
<1> HIDE DEF T
<1>. QED BY <1>4, <1>6, <1>7

\* The streams whose turn comes first, up to some number of them.
InTurn(h, n, q) ==
  /\ q \in [1..n -> Eligible(h)]
  /\ IsInjective(q)
  /\ \A k \in 1..n : \A s \in Eligible(h) \ {q[j] : j \in 1..k} :
       Turn(h, q[k]) <= Turn(h, s)

\* There are as many targets as are eligible.  By the least number for which
\* there are not: it is not 0, and one more comes after those before.
LEMMA TargetsExist ==
  ASSUME NEW h \in Host, NEW n \in Nat, n <= Cardinality(Eligible(h))
  PROVE  \E q : InTurn(h, n, q)
<1> DEFINE E == Eligible(h)
           T == {m \in Nat : m <= Cardinality(E) /\ ~ \E q : InTurn(h, m, q)}
<1>1. IsFiniteSet(E) /\ E \subseteq Streams /\ Cardinality(E) \in Nat
  <2>1. E \in SUBSET Streams
    BY DEF Eligible
  <2>. QED BY <2>1, StreamsAndSeqs, FS_Subset, FS_CardinalityType
<1>2. SUFFICES T = {}
  OBVIOUS
<1>3. SUFFICES ASSUME T # {} PROVE FALSE
  OBVIOUS
<1>4. PICK m \in T : \A k \in T : m <= k
  <2>1. T \in SUBSET Nat
    OBVIOUS
  <2> HIDE DEF T
  <2>. QED BY <1>3, <2>1, LeastNat
<1>5. m \in Nat /\ m <= Cardinality(E) /\ ~ \E q : InTurn(h, m, q)
  OBVIOUS
<1>6. m # 0
  <2>1. SUFFICES ASSUME m = 0 PROVE FALSE
    OBVIOUS
  <2>2. PICK q : q = [k \in 1..0 |-> 0]
    OBVIOUS
  <2>3. InTurn(h, 0, q)
    BY <2>2 DEF InTurn, IsInjective
  <2>. QED BY <1>5, <2>1, <2>3
<1>7. PICK q : InTurn(h, m - 1, q)
  <2>1. m - 1 \in Nat /\ m - 1 < m /\ m - 1 <= Cardinality(E)
    BY <1>1, <1>5, <1>6
  <2>2. m - 1 \notin T
    BY <1>4, <1>5, <2>1
  <2>. QED BY <2>1, <2>2
<1> HIDE DEF T, E
<1>8. PICK U : U = E \ {q[j] : j \in 1..(m - 1)}
  OBVIOUS
<1>9. U # {}
  <2>1. SUFFICES ASSUME U = {} PROVE FALSE
    OBVIOUS
  <2>2. PICK l \in Nat : l = m - 1
    BY <1>5, <1>6
  <2>3. q \in Surjection(1..l, E)
    BY <1>7, <1>8, <2>1, <2>2 DEF InTurn, Surjection, E
  <2>4. Cardinality(E) <= l
    BY <2>2, <2>3, FS_SurjCardinalityBound DEF ExistsSurjection
  <2>. QED BY <1>1, <1>5, <2>2, <2>4
<1>10. PICK s \in U : \A t \in U : Turn(h, s) <= Turn(h, t)
  <2>1. PICK N : N = {Turn(h, t) : t \in U}
    OBVIOUS
  <2>2. N \in SUBSET Nat /\ N # {}
    BY <1>1, <1>8, <1>9, <2>1, TurnType
  <2>3. PICK v : v \in N /\ \A x \in N : v <= x
    BY ONLY <2>2, LeastNat
  <2>. QED BY <2>1, <2>3
<1>11. PICK r : r = [k \in 1..m |-> IF k = m THEN s ELSE q[k]]
  OBVIOUS
<1>12. /\ \A k \in 1..m : k # m => k \in 1..(m - 1)
       /\ \A k \in 1..(m - 1) : k \in 1..m /\ k # m /\ r[k] = q[k] /\ q[k] \in E
       /\ m \in 1..m /\ r[m] = s /\ s \in E
  BY <1>5, <1>6, <1>7, <1>8, <1>11 DEF InTurn, E
<1>13. r \in [1..m -> E]
  BY <1>11, <1>12
<1>14. IsInjective(r)
  <2>1. \A k \in 1..(m - 1) : q[k] # s
    BY <1>8, <1>10
  <2>2. IsInjective(q) /\ DOMAIN q = 1..(m - 1) /\ DOMAIN r = 1..m
    BY <1>7, <1>13 DEF InTurn
  <2>. QED BY ONLY <1>12, <2>1, <2>2 DEF IsInjective
<1>15. ASSUME NEW k \in 1..m, NEW t \in E \ {r[j] : j \in 1..k}
       PROVE  Turn(h, r[k]) <= Turn(h, t)
  <2>1. CASE k = m
    <3>1. t \in U
      BY <1>8, <1>12, <1>15, <2>1
    <3>. QED BY <1>10, <1>12, <2>1, <3>1
  <2>2. CASE k # m
    <3>1. k \in 1..(m - 1)
      BY <1>12, <2>2
    <3>2. \A j \in 1..k : j \in 1..(m - 1)
      BY <1>5, <3>1
    <3>3. t \in E \ {q[j] : j \in 1..k}
      BY <1>12, <1>15, <3>2
    <3>4. Turn(h, q[k]) <= Turn(h, t)
      BY <1>7, <3>1, <3>3 DEF InTurn, E
    <3>. QED BY <1>12, <3>1, <3>4
  <2>. QED BY <2>1, <2>2
<1>16. InTurn(h, m, r)
  BY <1>13, <1>14, <1>15 DEF InTurn, E
<1>. QED BY <1>5, <1>16

LEMMA TargetsAre ==
  ASSUME NEW h \in Host, NEW n \in Nat, n <= Cardinality(Eligible(h))
  PROVE  Targets(h, n) \in [1..n -> Eligible(h)] /\ IsInjective(Targets(h, n))
<1>1. \E q \in [1..n -> Eligible(h)] :
        /\ IsInjective(q)
        /\ \A k \in 1..n : \A s \in Eligible(h) \ {q[j] : j \in 1..k} :
             Turn(h, q[k]) <= Turn(h, s)
  BY TargetsExist DEF InTurn
<1>. QED BY <1>1 DEF Targets

\* Numbers for as many requests as there are unused ones.
LEMMA NumbersExist ==
  ASSUME NEW S, IsFiniteSet(S), NEW n \in Nat, n <= Cardinality(S)
  PROVE  \E q \in [1..n -> S] : IsInjective(q)
<1>1. PICK c \in Nat : c = Cardinality(S)
  BY FS_CardinalityType
<1>2. PICK f \in Bijection(1..c, S) : TRUE
  BY <1>1, FS_CardinalityType DEF ExistsBijection
<1>3. PICK q : q = [k \in 1..n |-> f[k]]
  OBVIOUS
<1>4. /\ \A k \in 1..n : k \in 1..c
      /\ f \in [1..c -> S]
      /\ \A a, b \in 1..c : f[a] = f[b] => a = b
  BY <1>1, <1>2 DEF Bijection, Injection, IsInjective
<1>5. q \in [1..n -> S] /\ IsInjective(q)
  BY ONLY <1>3, <1>4 DEF IsInjective
<1>. QED BY <1>5

\* What is asked for: so many requests of eligible streams, one for each.
Asks(h, room, targets, requests) ==
  /\ room \in Nat \ {0} /\ room <= MaxInFlight - h.inFlight
  /\ targets \in [1..room -> Eligible(h)] /\ IsInjective(targets)
  /\ requests \in Seq(Requests) /\ DOMAIN requests = 1..room
  /\ \A k \in 1..room : requests[k].stream = targets[k]

LEMMA PumpedIs ==
  ASSUME NEW h, HostOK(h), Pumped(h) # h
  PROVE  \E room, targets, requests :
           /\ Asks(h, room, targets, requests)
           /\ Pumped(h) \in Host
           /\ Pumped(h).inFlight = h.inFlight + room
           /\ Pumped(h).activeStreams = h.activeStreams \union Range(targets)
           /\ Pumped(h).open = h.open \union Range(requests)
<1>1. h \in Host /\ SlotsOf(h)
  BY DEF HostOK
<1>2. PICK room : room = Min({Cardinality(Eligible(h)), MaxInFlight - h.inFlight,
                              Cardinality(UnusedSeqs)})
  OBVIOUS
<1>3. /\ IsFiniteSet(Eligible(h)) /\ Eligible(h) \subseteq Streams
      /\ IsFiniteSet(UnusedSeqs) /\ UnusedSeqs \subseteq Seqs
      /\ Cardinality(Eligible(h)) \in Nat /\ Cardinality(UnusedSeqs) \in Nat
  <2>1. Eligible(h) \in SUBSET Streams /\ UnusedSeqs \in SUBSET Seqs
    BY DEF Eligible, UnusedSeqs
  <2>. QED BY <2>1, StreamsAndSeqs, FS_Subset, FS_CardinalityType
<1>4. /\ room \in Nat /\ room <= Cardinality(Eligible(h))
      /\ room <= MaxInFlight - h.inFlight /\ room <= Cardinality(UnusedSeqs)
  <2>1. PICK T : T = {Cardinality(Eligible(h)), MaxInFlight - h.inFlight,
                      Cardinality(UnusedSeqs)}
    OBVIOUS
  <2>2. MaxInFlight - h.inFlight \in Nat
    BY <1>1 DEF SlotsOf, Host
  <2>3. T \in SUBSET Nat /\ T # {}
    BY <1>3, <2>1, <2>2
  <2>4. Min(T) \in T /\ \A m \in T : Min(T) <= m
    BY ONLY <2>3, LeastNat
  <2>5. room = Min(T)
    BY ONLY <1>2, <2>1
  <2>6. room \in Nat /\ \A m \in T : room <= m
    BY ONLY <2>3, <2>4, <2>5
  <2>. QED BY ONLY <2>1, <2>6
<1>5. PICK targets : targets = Targets(h, room)
  OBVIOUS
<1>6. PICK seqs : seqs = CHOOSE q \in [1..room -> UnusedSeqs] : IsInjective(q)
  OBVIOUS
<1>7. PICK requests : requests = [k \in 1..room |-> [seq |-> seqs[k], stream |-> targets[k]]]
  OBVIOUS
<1>8. PICK p : p = [h EXCEPT !.inFlight = @ + room,
                     !.activeStreams = @ \union Range(targets),
                     !.resting = @ \union Range(targets),
                     !.open = @ \union Range(requests),
                     !.pending = @ \union Range(seqs),
                     !.uplink = @ \o requests,
                     !.cursor = 1 + ((@ + Turn(h, targets[room])) % Len(Order))]
  OBVIOUS
<1>9. Pumped(h) = IF ~ h.running \/ room = 0 THEN h ELSE p
  BY ONLY <1>2, <1>5, <1>6, <1>7, <1>8 DEF Pumped
<1>10. room # 0 /\ Pumped(h) = p
  BY <1>9
<1>11. targets \in [1..room -> Eligible(h)] /\ IsInjective(targets)
  BY <1>1, <1>4, <1>5, TargetsAre
<1>12. seqs \in [1..room -> UnusedSeqs]
  <2>1. \E q \in [1..room -> UnusedSeqs] : IsInjective(q)
    BY <1>3, <1>4, NumbersExist
  <2>. QED BY ONLY <1>6, <2>1
<1>13. /\ requests \in Seq(Requests) /\ DOMAIN requests = 1..room
       /\ \A k \in 1..room : requests[k] \in Requests
  <2>1. \A k \in 1..room : [seq |-> seqs[k], stream |-> targets[k]] \in Requests
    BY <1>3, <1>11, <1>12 DEF Requests
  <2>2. requests \in [1..room -> Requests]
    BY ONLY <1>7, <2>1
  <2>3. PICK R, n : R = Requests /\ n = room
    OBVIOUS
  <2>4. requests \in [1..n -> R] /\ n \in Nat
    BY ONLY <1>4, <2>2, <2>3
  <2>5. requests \in Seq(R)
    BY ONLY <2>4, SeqDef
  <2>. QED BY ONLY <2>2, <2>3, <2>5
<1>14. \A k \in 1..room : requests[k].stream = targets[k]
  BY ONLY <1>7
<1>15. /\ Range(targets) \subseteq Streams /\ Range(seqs) \subseteq Seqs
       /\ Range(requests) \subseteq Requests
  <2>1. DOMAIN targets = 1..room /\ DOMAIN seqs = 1..room /\ DOMAIN requests = 1..room
    BY <1>11, <1>12, <1>13
  <2>2. \A k \in 1..room : targets[k] \in Streams /\ seqs[k] \in Seqs
    BY <1>3, <1>11, <1>12
  <2>. QED BY ONLY <1>13, <2>1, <2>2 DEF Range
<1>16. Asks(h, room, targets, requests)
  BY <1>4, <1>10, <1>11, <1>13, <1>14 DEF Asks
<1>17. /\ h.cursor \in 1..Len(Order) /\ h.inFlight \in Nat
       /\ h.activeStreams \subseteq Streams /\ h.resting \subseteq Streams
       /\ h.open \subseteq Requests /\ h.pending \subseteq Seqs
       /\ h.uplink \in Seq(Requests)
  BY <1>1 DEF Host
<1>18. 1 + ((h.cursor + Turn(h, targets[room])) % Len(Order)) \in 1..Len(Order)
  <2>1. PICK t \in Nat : t = Turn(h, targets[room])
    <3>1. targets[room] \in Streams
      <4>1. room \in 1..room
        BY ONLY <1>4, <1>10
      <4>. QED BY ONLY <1>3, <1>11, <4>1
    <3>. QED BY <1>1, <3>1, TurnType
  <2>2. PICK L \in Nat \ {0} : L = Len(Order)
    BY StreamsAndSeqs
  <2>3. h.cursor \in 1..L
    BY <1>17, <2>2
  <2>4. (h.cursor + t) % L \in 0..(L - 1)
    BY ONLY <2>1, <2>2, <2>3
  <2>5. 1 + ((h.cursor + t) % L) \in 1..L
    BY ONLY <2>2, <2>4
  <2>. QED BY ONLY <2>1, <2>2, <2>5
<1>19. h.uplink \o requests \in Seq(Requests)
  BY ONLY <1>13, <1>17
<1>20. /\ p \in Host /\ p.inFlight = h.inFlight + room
       /\ p.activeStreams = h.activeStreams \union Range(targets)
       /\ p.open = h.open \union Range(requests)
  <2>1. PICK c, u : /\ c = 1 + ((h.cursor + Turn(h, targets[room])) % Len(Order))
                    /\ u = h.uplink \o requests
    OBVIOUS
  <2>2. PICK A, O, D : A = Range(targets) /\ O = Range(requests) /\ D = Range(seqs)
    OBVIOUS
  <2>3. p = [h EXCEPT !.inFlight = @ + room, !.activeStreams = @ \union A,
                      !.resting = @ \union A, !.open = @ \union O,
                      !.pending = @ \union D, !.uplink = u, !.cursor = c]
    BY ONLY <1>8, <2>1, <2>2
  <2>4. /\ c \in 1..Len(Order) /\ u \in Seq(Requests) /\ A \subseteq Streams
        /\ O \subseteq Requests /\ D \subseteq Seqs
    BY ONLY <1>15, <1>18, <1>19, <2>1, <2>2
  <2>5. p \in Host /\ p.inFlight = h.inFlight + room
        /\ p.activeStreams = h.activeStreams \union A /\ p.open = h.open \union O
    <3>1. h \in Host /\ h.inFlight \in Nat /\ h.inFlight + room \in Nat
      BY ONLY <1>4, <1>1, <1>17
    <3>2. /\ h.activeStreams \union A \subseteq Streams /\ h.resting \union A \subseteq Streams
          /\ h.open \union O \subseteq Requests /\ h.pending \union D \subseteq Seqs
      BY ONLY <1>17, <2>4
    <3>3. PICK i, a, g, o, d :
            /\ i = h.inFlight + room /\ a = h.activeStreams \union A
            /\ g = h.resting \union A /\ o = h.open \union O /\ d = h.pending \union D
      OBVIOUS
    <3>4. p = [h EXCEPT !.inFlight = i, !.activeStreams = a, !.resting = g, !.open = o,
                        !.pending = d, !.uplink = u, !.cursor = c]
      BY ONLY <2>3, <3>3, <3>1 DEF Host
    <3>5. p \in Host /\ p.inFlight = i /\ p.activeStreams = a /\ p.open = o
      BY ONLY <2>4, <3>1, <3>2, <3>3, <3>4 DEF Host
    <3>. QED BY ONLY <3>3, <3>5
  <2>. QED BY ONLY <2>2, <2>5
<1>. QED BY ONLY <1>10, <1>16, <1>20

LEMMA PumpedKeeps ==
  ASSUME NEW h, HostOK(h)
  PROVE  HostOK(Pumped(h))
<1>1. CASE Pumped(h) = h
  BY <1>1
<1>2. CASE Pumped(h) # h
  <2>1. PICK room, targets, requests :
           /\ Asks(h, room, targets, requests)
           /\ Pumped(h) \in Host
           /\ Pumped(h).inFlight = h.inFlight + room
           /\ Pumped(h).activeStreams = h.activeStreams \union Range(targets)
           /\ Pumped(h).open = h.open \union Range(requests)
    BY <1>2, PumpedIs
  <2>2. PICK p : p = Pumped(h)
    OBVIOUS
  <2>3. PICK O : O = Range(requests)
    OBVIOUS
  <2>4. /\ SlotsOf(h) /\ h.inFlight \in Nat /\ h.open \subseteq Requests
    BY DEF HostOK, Host
  <2>5. /\ \A r \in O : \E k \in 1..room : r = requests[k] /\ r.stream = targets[k]
        /\ \A k \in 1..room : requests[k] \in O
    BY <2>1, <2>3 DEF Asks, Range
  <2>6. \A r, t \in O : r.stream = t.stream => r = t
    <3>1. DOMAIN targets = 1..room /\ IsInjective(targets)
      BY <2>1 DEF Asks
    <3>2. ASSUME NEW r \in O, NEW t \in O, r.stream = t.stream PROVE r = t
      <4>1. PICK k \in 1..room : r = requests[k] /\ r.stream = targets[k]
        BY <2>5
      <4>2. PICK j \in 1..room : t = requests[j] /\ t.stream = targets[j]
        BY <2>5
      <4>. QED BY ONLY <3>1, <3>2, <4>1, <4>2 DEF IsInjective
    <3>. QED BY <3>2
  <2>7. \A r \in O : r.stream \in Range(targets) /\ r.stream \notin h.activeStreams
    <3>1. targets \in [1..room -> Eligible(h)]
      BY <2>1 DEF Asks
    <3>2. ASSUME NEW r \in O
          PROVE  r.stream \in Range(targets) /\ r.stream \notin h.activeStreams
      <4>1. PICK k \in 1..room : r = requests[k] /\ r.stream = targets[k]
        BY <2>5
      <4>2. targets[k] \in Eligible(h) /\ targets[k] \in Range(targets)
        BY ONLY <3>1, <4>1 DEF Range
      <4>. QED BY ONLY <4>1, <4>2 DEF Eligible
    <3>. QED BY <3>2
  <2>8. \A s \in Range(targets) : \E r \in O : r.stream = s
    BY <2>1, <2>5 DEF Asks, Range
  <2>9. IsFiniteSet(O) /\ Cardinality(O) = room
    <3>1. PICK n \in Nat : n = room
      BY <2>1 DEF Asks
    <3>2. requests \in Bijection(1..n, O)
      <4>1. requests \in [1..n -> O]
        BY <2>1, <2>5, <3>1 DEF Asks
      <4>2. \A a, b \in 1..n : requests[a] = requests[b] => a = b
        <5>1. ASSUME NEW a \in 1..n, NEW b \in 1..n, requests[a] = requests[b] PROVE a = b
          <6>1. requests[a].stream = targets[a] /\ requests[b].stream = targets[b]
            BY <2>1, <3>1 DEF Asks
          <6>2. DOMAIN targets = 1..n /\ IsInjective(targets)
            BY <2>1, <3>1 DEF Asks
          <6>. QED BY <5>1, <6>1, <6>2 DEF IsInjective
        <5>. QED BY <5>1
      <4>3. \A r \in O : \E k \in 1..n : requests[k] = r
        BY <2>5, <3>1
      <4>. QED BY ONLY <4>1, <4>2, <4>3 DEF Bijection, Injection, Surjection, IsInjective
    <3>3. IsFiniteSet(1..n) /\ Cardinality(1..n) = n
      BY FS_Interval
    <3>. QED BY <3>1, <3>2, <3>3, FS_Bijection DEF ExistsBijection
  <2>10. h.open \intersect O = {}
    BY <2>4, <2>7 DEF SlotsOf
  <2>11. IsFiniteSet(p.open) /\ Cardinality(p.open) = h.inFlight + room
    <3>1. IsFiniteSet(h.open) /\ Cardinality(h.open) = h.inFlight
      BY <2>4 DEF SlotsOf
    <3>2. Cardinality(h.open \intersect O) = 0
      BY <2>10, FS_EmptySet
    <3>3. /\ IsFiniteSet(h.open \union O)
          /\ Cardinality(h.open \union O)
               = Cardinality(h.open) + Cardinality(O) - Cardinality(h.open \intersect O)
      BY <2>9, <3>1, FS_Union
    <3>4. room \in Nat
      BY <2>1 DEF Asks
    <3>5. p.open = h.open \union O
      BY <2>1, <2>2, <2>3
    <3>. QED BY ONLY <2>4, <2>9, <3>1, <3>2, <3>3, <3>4, <3>5
  <2>12. p.inFlight <= MaxInFlight /\ p.inFlight = h.inFlight + room
    BY <2>1, <2>2, <2>4 DEF Asks
  <2>13. p.activeStreams = {r.stream : r \in p.open}
    BY <2>1, <2>2, <2>3, <2>4, <2>7, <2>8 DEF SlotsOf
  <2>14. \A r, t \in p.open : r.stream = t.stream => r = t
    BY <2>1, <2>2, <2>3, <2>4, <2>6, <2>7 DEF SlotsOf
  <2>. QED BY <2>1, <2>2, <2>11, <2>12, <2>13, <2>14 DEF HostOK, SlotsOf
<1>. QED BY <1>1, <1>2

\* A slot is free again.
LEMMA FinishedKeeps ==
  ASSUME NEW h, HostOK(h), NEW r \in h.open, NEW failed \in BOOLEAN
  PROVE  HostOK(Finished(h, r, failed))
<1>1. PICK rest : rest = IF failed THEN h.resting \union {r.stream} ELSE h.resting
  OBVIOUS
<1>2. PICK f : f = [h EXCEPT !.inFlight = @ - 1, !.activeStreams = @ \ {r.stream},
                             !.resting = rest, !.open = @ \ {r},
                             !.accepted = @ \ {r.seq}]
  OBVIOUS
<1>3. Finished(h, r, failed) = Pumped(f)
  BY <1>1, <1>2 DEF Finished, HostOK, Host
<1>4. h \in Host /\ SlotsOf(h) /\ r \in Requests
  BY DEF HostOK, Host
<1>5. IsFiniteSet(h.open \ {r}) /\ Cardinality(h.open \ {r}) = h.inFlight - 1
      /\ Cardinality(h.open \ {r}) \in Nat
  BY <1>4, FS_RemoveElement, FS_CardinalityType DEF SlotsOf
<1>6. rest \subseteq Streams
  BY <1>1, <1>4 DEF Host, Requests
<1>7. /\ f \in Host /\ f.open = h.open \ {r} /\ f.inFlight = h.inFlight - 1
      /\ f.activeStreams = h.activeStreams \ {r.stream}
  BY <1>2, <1>4, <1>5, <1>6 DEF Host
<1>8. f.inFlight <= MaxInFlight
  BY <1>4, <1>7 DEF SlotsOf, Host
<1>9. f.activeStreams = {t.stream : t \in f.open}
  BY <1>4, <1>7 DEF SlotsOf
<1>10. SlotsOf(f)
  BY <1>4, <1>5, <1>7, <1>8, <1>9 DEF SlotsOf
<1>. QED BY <1>3, <1>7, <1>10, PumpedKeeps DEF HostOK

-----------------------------------------------------------------------------
(* The scheduler and the Device, step by step.                              *)

\* What the slots do not depend on may change.
LEMMA SameSlots ==
  ASSUME NEW h, HostOK(h), NEW g \in Host, g.inFlight = h.inFlight, g.open = h.open,
         g.activeStreams = h.activeStreams
  PROVE  HostOK(g)
  BY DEF HostOK, SlotsOf

LEMMA NoSlots ==
  ASSUME NEW g \in Host, g.inFlight = 0, g.open = {}, g.activeStreams = {}
  PROVE  HostOK(g)
  BY FS_EmptySet DEF HostOK, SlotsOf

LEMMA RetiredKeeps ==
  ASSUME NEW h, HostOK(h), NEW reply
  PROVE  HostOK(Retired(h, reply)) /\ Retired(h, reply).open = h.open
<1>1. CASE reply.kind = "ACK"
  BY <1>1 DEF Retired
<1>2. CASE reply.kind # "ACK"
  <2>1. PICK g : g = [h EXCEPT !.pending = @ \ {reply.seq}]
    OBVIOUS
  <2>2. h \in Host
    BY DEF HostOK
  <2>3. /\ g \in Host /\ g.inFlight = h.inFlight /\ g.open = h.open
        /\ g.activeStreams = h.activeStreams
    BY <2>1, <2>2 DEF Host
  <2>4. Retired(h, reply) = g
    BY <1>2, <2>1 DEF Retired
  <2>. QED BY <2>3, <2>4, SameSlots
<1>. QED BY <1>1, <1>2

LEMMA StartKeeps == ASSUME HostInv, Start PROVE HostInv'
<1>1. PICK g : g = [host EXCEPT !.running = TRUE, !.cursor = 1, !.inFlight = 0,
                                !.activeStreams = {}, !.resting = {},
                                !.open = {}, !.accepted = {}]
  OBVIOUS
<1>2. host' = Pumped(g)
  BY <1>1 DEF Start, HostStep
<1>3. 1 \in 1..Len(Order)
  BY StreamsAndSeqs
<1>4. g \in Host /\ g.inFlight = 0 /\ g.open = {} /\ g.activeStreams = {}
  BY <1>1, <1>3 DEF HostInv, HostOK, Host
<1>. QED BY <1>2, <1>4, NoSlots, PumpedKeeps DEF HostInv

LEMMA StopKeeps == ASSUME HostInv, Stop PROVE HostInv'
<1>1. host' = [host EXCEPT !.running = FALSE] /\ host \in Host
  BY DEF Stop, HostInv, HostOK
<1>2. /\ host' \in Host /\ host'.inFlight = host.inFlight /\ host'.open = host.open
      /\ host'.activeStreams = host.activeStreams
  BY <1>1 DEF Host
<1>. QED BY <1>2, SameSlots DEF HostInv

LEMMA WakeKeeps == ASSUME HostInv, NEW s \in Streams, Wake(s) PROVE HostInv'
<1>1. PICK g : g = [host EXCEPT !.resting = @ \ {s}]
  OBVIOUS
<1>2. host' = Pumped(g) /\ host \in Host
  BY <1>1 DEF Wake, HostStep, HostInv, HostOK
<1>3. /\ g \in Host /\ g.inFlight = host.inFlight /\ g.open = host.open
      /\ g.activeStreams = host.activeStreams
  BY <1>1, <1>2 DEF Host
<1>. QED BY <1>2, <1>3, SameSlots, PumpedKeeps DEF HostInv

LEMMA ReceiveKeeps == ASSUME HostInv, Receive PROVE HostInv'
<1>1. PICK reply : reply = Head(downlink)
  OBVIOUS
<1>2. PICK asked : asked = {r \in host.open : r.seq = reply.seq}
  OBVIOUS
<1>3. PICK g : g = [host EXCEPT !.accepted = @ \union {reply.seq}]
  OBVIOUS
<1>4. host' = IF reply.seq \notin host.pending THEN host
              ELSE IF asked = {} THEN Retired(host, reply)
              ELSE IF reply.kind = "ACK" THEN g
              ELSE Finished(Retired(host, reply), CHOOSE r \in asked : TRUE,
                            reply.kind = "REJ")
  BY <1>1, <1>2, <1>3 DEF Receive
<1>5. HostOK(host)
  BY DEF HostInv
<1>6. CASE reply.seq \notin host.pending
  BY <1>4, <1>5, <1>6 DEF HostInv
<1>7. CASE reply.seq \in host.pending /\ asked = {}
  BY <1>4, <1>5, <1>7, RetiredKeeps DEF HostInv
<1>8. CASE reply.seq \in host.pending /\ asked # {} /\ reply.kind = "ACK"
  <2>1. host \in Host
    BY <1>5 DEF HostOK
  <2>2. /\ g \in Host /\ g.inFlight = host.inFlight /\ g.open = host.open
        /\ g.activeStreams = host.activeStreams
    BY <1>3, <1>8, <2>1 DEF Host
  <2>. QED BY <1>4, <1>5, <1>8, <2>2, SameSlots DEF HostInv
<1>9. CASE reply.seq \in host.pending /\ asked # {} /\ reply.kind # "ACK"
  <2>1. PICK r : r = CHOOSE t \in asked : TRUE
    OBVIOUS
  <2>2. r \in host.open
    BY <1>2, <1>9, <2>1
  <2>3. PICK g1 : g1 = Retired(host, reply)
    OBVIOUS
  <2>4. HostOK(g1) /\ r \in g1.open
    BY <1>5, <2>2, <2>3, RetiredKeeps
  <2>5. PICK failed : failed = (reply.kind = "REJ")
    OBVIOUS
  <2>6. failed \in BOOLEAN
    BY <2>5
  <2>7. host' = Finished(g1, r, failed)
    BY ONLY <1>4, <1>9, <2>1, <2>3, <2>5
  <2>. QED BY <2>4, <2>6, <2>7, FinishedKeeps DEF HostInv
<1>. QED BY <1>6, <1>7, <1>8, <1>9

LEMMA UplinkTail ==
  ASSUME HostInv, host.uplink # <<>>, host' = [host EXCEPT !.uplink = Tail(@)]
  PROVE  HostInv'
<1>1. host \in Host /\ host.uplink \in Seq(Requests)
  BY DEF HostInv, HostOK, Host
<1>2. PICK t : t = Tail(host.uplink)
  OBVIOUS
<1>3. t \in Seq(Requests)
  <2>1. PICK q, R : q = host.uplink /\ R = Requests
    OBVIOUS
  <2>2. q \in Seq(R) /\ q # <<>>
    BY <1>1, <2>1
  <2>3. Tail(q) \in Seq(R)
    BY ONLY <2>2
  <2>. QED BY ONLY <1>2, <2>1, <2>3
<1>4. host' = [host EXCEPT !.uplink = t]
  BY <1>1, <1>2 DEF Host
<1>5. /\ host' \in Host /\ host'.inFlight = host.inFlight /\ host'.open = host.open
      /\ host'.activeStreams = host.activeStreams
  BY ONLY <1>1, <1>3, <1>4 DEF Host
<1>. QED BY <1>5, SameSlots DEF HostInv

LEMMA SweepKeeps == ASSUME HostInv, NEW q \in Seqs, Sweep(q) PROVE HostInv'
<1>1. host' = [host EXCEPT !.pending = @ \ {q}] /\ host \in Host
  BY DEF Sweep, HostStep, HostInv, HostOK
<1>2. /\ host' \in Host /\ host'.inFlight = host.inFlight /\ host'.open = host.open
      /\ host'.activeStreams = host.activeStreams
  BY <1>1 DEF Host
<1>. QED BY <1>2, SameSlots DEF HostInv

LEMMA HostStarts == Init => HostInv
<1>1. SUFFICES ASSUME Init PROVE HostInv
  OBVIOUS
<1>2. host \in Host /\ host.inFlight = 0 /\ host.open = {} /\ host.activeStreams = {}
  <2>1. PICK L \in Nat \ {0} : L = Len(Order)
    BY StreamsAndSeqs
  <2>2. 1 \in 1..L
    BY ONLY <2>1
  <2>3. PICK u : u = <<>>
    OBVIOUS
  <2>4. u \in Seq(Requests)
    BY <2>3
  <2>5. host = [running |-> FALSE, cursor |-> 1, inFlight |-> 0, activeStreams |-> {},
                resting |-> {}, open |-> {}, accepted |-> {}, pending |-> {},
                uplink |-> u]
    BY <1>1, <2>3 DEF Init
  <2>. QED BY ONLY <2>1, <2>2, <2>4, <2>5 DEF Host
<1>. QED BY <1>2, NoSlots DEF HostInv

LEMMA HostKeeps == ASSUME HostInv, [Next]_vars PROVE HostInv'
<1>1. CASE Start \/ Stop \/ Receive
  BY <1>1, StartKeeps, StopKeeps, ReceiveKeeps
<1>2. CASE Pump
  BY <1>2, PumpedKeeps DEF Pump, HostStep, HostInv
<1>3. CASE LosePacket
  BY <1>3, UplinkTail DEF LosePacket, HostInv
<1>4. CASE Handle
  BY <1>4, UplinkTail DEF Handle
<1>5. CASE \E s \in Streams : Wake(s)
  BY <1>5, WakeKeeps
<1>6. CASE \E r \in Requests : AckTimeout(r) \/ FinTimeout(r)
  BY <1>6, FinishedKeeps DEF AckTimeout, FinTimeout, HostStep, HostInv
<1>7. CASE \E q \in Seqs : Sweep(q)
  BY <1>7, SweepKeeps
<1>8. CASE host' = host
  BY <1>8 DEF HostInv
<1>9. (Disable \/ Enable \/ StartActive \/ SettleOver \/ Tick \/ Elapse
       \/ (\E c \in Cameras : Rise(c) \/ Fall(c)) \/ UNCHANGED vars) => host' = host
  BY DEF Disable, Enable, StartActive, SettleOver, Tick, Elapse, Rise, Fall, vars
<1>. QED BY <1>1, <1>2, <1>3, <1>4, <1>5, <1>6, <1>7, <1>8, <1>9 DEF Next

\* The scheduler's slots are those of the requests it still waits for, one per
\* stream, whichever of ACK, FIN, REJ and the timers came first and however late
\* the others are.
THEOREM Slots == Spec => []SlotsAreThoseInFlight
<1>1. ASSUME HostInv PROVE SlotsAreThoseInFlight
  <2>1. PICK O : O = host.open
    OBVIOUS
  <2>2. IsFiniteSet(O) /\ \A r, t \in O : r.stream = t.stream => r = t
    BY <1>1, <2>1 DEF HostInv, HostOK, SlotsOf
  <2>3. PICK S : S = {r.stream : r \in O}
    OBVIOUS
  <2>4. PICK f : f = [r \in O |-> r.stream]
    OBVIOUS
  <2>5. f \in Bijection(O, S)
    BY ONLY <2>2, <2>3, <2>4 DEF Bijection, Injection, Surjection, IsInjective
  <2>6. Cardinality(S) = Cardinality(O)
    BY ONLY <2>2, <2>5, FS_Bijection DEF ExistsBijection
  <2>. QED BY <1>1, <2>1, <2>3, <2>6 DEF HostInv, HostOK, SlotsOf, SlotsAreThoseInFlight
<1>. QED BY <1>1, HostStarts, HostKeeps, PTL DEF Spec

-----------------------------------------------------------------------------
(* The firmware: what is queued and active.                                 *)

LEMMA RequestTypes ==
  /\ NoRequest \notin Requests /\ NoRequest.seq = None /\ NoRequest.stream = None
  /\ None \notin Seqs
  /\ \A r \in Requests : r.seq \in Seqs /\ r.stream \in Streams /\ r.seq # None
                         /\ r.stream # None /\ CamerasOf[r.stream] \subseteq Cameras
                         /\ CamerasOf[r.stream] # {}
<1>1. None \notin Seqs
  BY DEF None, Seqs
<1>2. \A r \in Requests : r.seq \in Seqs /\ r.stream \in Streams
  BY DEF Requests
<1>3. \A s \in Streams : CamerasOf[s] \subseteq Cameras /\ CamerasOf[s] # {}
  OBVIOUS
<1>4. NoRequest.seq = None /\ NoRequest.stream = None
  BY DEF NoRequest
<1>. QED BY <1>1, <1>2, <1>3, <1>4

LEMMA ActiveTypes ==
  ASSUME NEW m \in Firmware
  PROVE  /\ ActiveCameras(m) \subseteq Cameras
         /\ m.active = NoRequest => ActiveCameras(m) = {}
         /\ m.active # NoRequest => /\ m.active \in Requests /\ ActiveCameras(m) # {}
                                    /\ ActiveCameras(m) = CamerasOf[m.active.stream]
  BY RequestTypes DEF ActiveCameras, Firmware

LEMMA QueueTypes ==
  ASSUME NEW m \in Firmware
  PROVE  /\ m.queue \in Seq(Requests) /\ DOMAIN m.queue = 1..Len(m.queue)
         /\ Len(m.queue) \in Nat /\ \A i \in DOMAIN m.queue : m.queue[i] \in Requests
         /\ m.queue # <<>> <=> DOMAIN m.queue # {}
<1>1. PICK q, R : q = m.queue /\ R = Requests
  OBVIOUS
<1>2. q \in Seq(R)
  BY <1>1 DEF Firmware
<1>3. /\ DOMAIN q = 1..Len(q) /\ Len(q) \in Nat /\ \A i \in DOMAIN q : q[i] \in R
      /\ q # <<>> <=> DOMAIN q # {}
  BY ONLY <1>2
<1>. QED BY <1>1, <1>2, <1>3

\* What the queue does not depend on may change.
LEMMA SameQueue ==
  ASSUME NEW m, QueueOK(m), NEW n, n.queue = m.queue, n.active = m.active,
         n.flagged = m.flagged, n.on = m.on, n.stage = "idle" <=> m.stage = "idle"
  PROVE  QueueOK(n)
  BY DEF QueueOK

\* A request joins the queue.
LEMMA QueueJoined ==
  ASSUME NEW m \in Firmware, QueueOK(m), NEW r \in Requests, Acceptable(m, r),
         NEW n, n = [m EXCEPT !.queue = Append(@, r), !.flagged = @ \union {r.stream}]
  PROVE  n \in Firmware /\ QueueOK(n)
<1>1. PICK q : q = m.queue
  OBVIOUS
<1>2. PICK t : t = Append(q, r)
  OBVIOUS
<1>3. /\ q \in Seq(Requests) /\ DOMAIN q = 1..Len(q) /\ Len(q) \in Nat
      /\ \A i \in DOMAIN q : q[i] \in Requests
  BY <1>1, QueueTypes
<1>4. PICK R : R = Requests
  OBVIOUS
<1>5. /\ t \in Seq(R) /\ DOMAIN t = DOMAIN q \union {Len(q) + 1} /\ t[Len(q) + 1] = r
      /\ \A i \in DOMAIN q : t[i] = q[i]
  <2>1. q \in Seq(R) /\ r \in R
    BY <1>3, <1>4
  <2>. QED BY ONLY <1>2, <2>1
<1>6. /\ n \in Firmware /\ n.queue = t /\ n.flagged = m.flagged \union {r.stream}
      /\ n.active = m.active /\ n.on = m.on /\ n.stage = m.stage
  <2>1. n = [m EXCEPT !.queue = t, !.flagged = @ \union {r.stream}]
    BY <1>1, <1>2 DEF Firmware
  <2>2. r.stream \in Streams
    BY RequestTypes
  <2>3. t \in Seq(Requests)
    BY <1>4, <1>5
  <2>. QED BY ONLY <2>1, <2>2, <2>3, m \in Firmware DEF Firmware
<1>7. m.on /\ m.active.stream # r.stream /\ \A i \in DOMAIN q : q[i].stream # r.stream
  BY <1>1 DEF Acceptable, Range
<1>8. QueueOK(m) /\ m.queue = q
  BY <1>1
<1>9. \A i, j \in DOMAIN t : t[i].stream = t[j].stream => i = j
  BY <1>5, <1>7, <1>8 DEF QueueOK
<1>10. \A i \in DOMAIN t : t[i].stream # m.active.stream
  BY <1>5, <1>7, <1>8 DEF QueueOK
<1>11. {t[i].stream : i \in DOMAIN t} = {q[i].stream : i \in DOMAIN q} \union {r.stream}
  BY ONLY <1>5
<1>12. n.flagged = {t[i].stream : i \in DOMAIN t}
                     \union (IF n.active = NoRequest THEN {} ELSE {n.active.stream})
  BY ONLY <1>6, <1>8, <1>11 DEF QueueOK
<1>13. QueueOK(n)
  BY ONLY <1>6, <1>7, <1>8, <1>9, <1>10, <1>12 DEF QueueOK
<1>. QED BY ONLY <1>6, <1>13

\* finishActive(): the flag of the request goes, and of no other.
Released(m, n) ==
  /\ n \in Firmware /\ QueueOK(n) /\ n.stage = "idle" /\ n.active = NoRequest
  /\ n.queue = m.queue /\ n.on = m.on /\ n.lines = m.lines /\ n.high = m.high
  /\ n.risen = m.risen /\ n.awaiting = m.awaiting /\ n.front = m.front

LEMMA ActiveLeft ==
  ASSUME NEW m \in Firmware, QueueOK(m), m.active # NoRequest, NEW n, n = Unoccupied(m)
  PROVE  Released(m, n)
<1>1. /\ n \in Firmware /\ n.stage = "idle" /\ n.active = NoRequest
      /\ n.queue = m.queue /\ n.on = m.on /\ n.lines = m.lines /\ n.high = m.high
      /\ n.risen = m.risen /\ n.awaiting = m.awaiting /\ n.front = m.front
      /\ n.flagged = m.flagged \ {m.active.stream}
  BY DEF Unoccupied, Firmware
<1>2. \A i \in DOMAIN m.queue : m.queue[i] \in Requests /\ m.queue[i].stream # None
  BY QueueTypes, RequestTypes
<1>3. n.flagged = {m.queue[i].stream : i \in DOMAIN m.queue}
  BY <1>1 DEF QueueOK
<1>4. QueueOK(n)
  BY <1>1, <1>2, <1>3, RequestTypes DEF QueueOK
<1>. QED BY ONLY <1>1, <1>4 DEF Released

\* startNext(): the oldest request becomes the active one.
TakenUp(m, n) ==
  /\ n \in Firmware /\ QueueOK(n) /\ n.stage = "popped" /\ n.active \in Requests
  /\ n.on /\ m.on /\ ~ n.dropped /\ n.latched = None /\ n.elapsed = ""
  /\ n.lines = m.lines /\ n.high = m.high /\ n.risen = m.risen
  /\ n.awaiting = m.awaiting /\ n.front = m.front

LEMMA HeadPopped ==
  ASSUME NEW m \in Firmware, QueueOK(m), m.stage = "idle", NEW n, n = Popped(m), n # m
  PROVE  TakenUp(m, n)
<1>1. PICK q : q = m.queue
  OBVIOUS
<1>2. PICK t, a : t = Tail(q) /\ a = Head(q)
  OBVIOUS
<1>3. q # <<>> /\ n = [m EXCEPT !.queue = Tail(@), !.active = Head(m.queue),
                                !.stage = "popped", !.dropped = FALSE, !.latched = None,
                                !.elapsed = ""]
  BY <1>1 DEF Popped
<1>4. PICK R : R = Requests
  OBVIOUS
<1>5. q \in Seq(R)
  BY <1>1, <1>4, QueueTypes
<1>6. /\ t \in Seq(R) /\ a \in R /\ a = q[1] /\ DOMAIN q = 1..Len(q) /\ Len(q) \in Nat
      /\ DOMAIN t = 1..(Len(q) - 1) /\ 1 \in DOMAIN q
      /\ \A i \in DOMAIN t : t[i] = q[i + 1] /\ i + 1 \in DOMAIN q /\ i + 1 # 1
                             /\ i \in Nat
      /\ \A i \in DOMAIN q : i # 1 => i - 1 \in DOMAIN t /\ t[i - 1] = q[i]
  <2>1. q \in Seq(R) /\ q # <<>> /\ t = Tail(q) /\ a = Head(q)
    BY ONLY <1>2, <1>3, <1>5
  <2>2. PICK l : l = Len(q)
    OBVIOUS
  <2>3. /\ t \in Seq(R) /\ a \in R /\ a = q[1] /\ DOMAIN q = 1..l /\ l \in Nat \ {0}
        /\ Len(t) = l - 1
    BY ONLY <2>1, <2>2
  <2>4. DOMAIN t = 1..(l - 1)
    BY ONLY <2>3
  <2>5. \A i \in 1..(l - 1) : t[i] = q[i + 1]
    BY ONLY <2>1, <2>2, <2>3
  <2>6. \A i \in 1..(l - 1) : i + 1 \in 1..l /\ i + 1 # 1 /\ i \in Nat
    BY ONLY <2>3
  <2>7. ASSUME NEW i \in 1..l, i # 1
        PROVE  i - 1 \in 1..(l - 1) /\ t[i - 1] = q[i]
    <3>1. i - 1 \in 1..(l - 1) /\ (i - 1) + 1 = i
      BY ONLY <2>3, <2>7
    <3>. QED BY ONLY <2>5, <3>1
  <2>. QED BY ONLY <2>2, <2>3, <2>4, <2>5, <2>6, <2>7
<1>7. n = [m EXCEPT !.queue = t, !.active = a, !.stage = "popped", !.dropped = FALSE,
                    !.latched = None, !.elapsed = ""]
  BY <1>1, <1>2, <1>3 DEF Firmware
<1>8. /\ n \in Firmware /\ n.queue = t /\ n.active = a /\ n.stage = "popped" /\ ~ n.dropped
      /\ n.latched = None /\ n.elapsed = "" /\ n.lines = m.lines /\ n.high = m.high
      /\ n.risen = m.risen /\ n.awaiting = m.awaiting /\ n.front = m.front
      /\ n.on = m.on /\ n.flagged = m.flagged
  <2>1. t \in Seq(Requests) /\ a \in Requests
    BY <1>4, <1>6
  <2>. QED BY ONLY <1>7, <2>1, m \in Firmware DEF Firmware
<1>9. a # NoRequest /\ a \in Requests /\ m.on /\ m.active = NoRequest
  BY <1>1, <1>3, <1>4, <1>6, RequestTypes DEF QueueOK
<1>10. /\ \A i, j \in DOMAIN q : q[i].stream = q[j].stream => i = j
       /\ m.flagged = {q[i].stream : i \in DOMAIN q}
  BY <1>1, <1>9 DEF QueueOK
<1>11. \A i, j \in DOMAIN t : t[i].stream = t[j].stream => i = j
  <2>1. ASSUME NEW i \in DOMAIN t, NEW j \in DOMAIN t, t[i].stream = t[j].stream
        PROVE  i = j
    <3>1. i + 1 = j + 1 /\ i \in Nat /\ j \in Nat
      BY ONLY <1>6, <1>10, <2>1
    <3>. QED BY ONLY <3>1
  <2>. QED BY <2>1
<1>12. \A i \in DOMAIN t : t[i].stream # a.stream
  BY ONLY <1>6, <1>10
<1>13. m.flagged = {t[i].stream : i \in DOMAIN t} \union {a.stream}
  <2>1. ASSUME NEW i \in DOMAIN q
        PROVE  q[i].stream \in {t[k].stream : k \in DOMAIN t} \union {a.stream}
    BY ONLY <1>6
  <2>2. ASSUME NEW i \in DOMAIN t
        PROVE  t[i].stream \in {q[k].stream : k \in DOMAIN q}
    BY ONLY <1>6
  <2>3. a.stream \in {q[k].stream : k \in DOMAIN q}
    BY ONLY <1>6
  <2>. QED BY ONLY <1>10, <2>1, <2>2, <2>3
<1>14. QueueOK(n)
  <2>1. n.queue = t /\ n.active = a /\ n.stage = "popped" /\ n.on /\ n.flagged = m.flagged
    BY ONLY <1>8, <1>9
  <2>2. n.stage = "idle" <=> n.active = NoRequest
    BY ONLY <1>9, <2>1
  <2>3. n.flagged = {t[i].stream : i \in DOMAIN t}
                      \union (IF a = NoRequest THEN {} ELSE {a.stream})
    BY ONLY <1>9, <1>13, <2>1
  <2>4. \A i \in DOMAIN n.queue : n.queue[i].stream # n.active.stream
    BY ONLY <1>12, <2>1
  <2>. QED BY ONLY <1>11, <2>1, <2>2, <2>3, <2>4 DEF QueueOK
<1>15. n.active \in Requests /\ n.on /\ m.on
  BY ONLY <1>8, <1>9
<1>. QED BY ONLY <1>8, <1>14, <1>15 DEF TakenUp

\* The lines may go down, and what the interrupts have collected stays.
Lowered(m, n) ==
  /\ n \in Firmware /\ n.on = m.on /\ n.queue = m.queue /\ n.active = m.active
  /\ n.stage = m.stage /\ n.flagged = m.flagged /\ n.front = m.front
  /\ n.elapsed = m.elapsed /\ n.latched = m.latched /\ n.high = m.high
  /\ n.risen = m.risen /\ n.awaiting = m.awaiting
  /\ ActiveCameras(n) = ActiveCameras(m) /\ ExposureOver(n) = ExposureOver(m)
  /\ n.lines \subseteq m.lines
  /\ m.elapsed # "" => n.dropped
  /\ n.dropped /\ ~ m.dropped => n.lines = m.lines \ ActiveCameras(m)
  /\ n.dropped = m.dropped => n = m

LEMMA DroppedIs ==
  ASSUME NEW m \in Firmware, NEW n, n = Dropped(m)
  PROVE  Lowered(m, n)
<1>1. PICK l : l = m.lines \ ActiveCameras(m)
  OBVIOUS
<1>2. l \subseteq m.lines /\ l \subseteq Cameras /\ m.lines \subseteq Cameras
      /\ m.dropped \in BOOLEAN
  BY <1>1 DEF Firmware
<1>3. n = IF m.dropped \/ m.elapsed = "" THEN m ELSE [m EXCEPT !.lines = l, !.dropped = TRUE]
  BY <1>1 DEF Dropped, Firmware
<1>4. /\ n \in Firmware /\ n.on = m.on /\ n.queue = m.queue /\ n.active = m.active
      /\ n.stage = m.stage /\ n.flagged = m.flagged /\ n.front = m.front
      /\ n.elapsed = m.elapsed /\ n.latched = m.latched /\ n.high = m.high
      /\ n.risen = m.risen /\ n.awaiting = m.awaiting
      /\ n.lines \in {l, m.lines}
      /\ m.elapsed # "" => n.dropped
      /\ n.dropped /\ ~ m.dropped => n.lines = l
      /\ n.dropped = m.dropped => n = m
  BY ONLY <1>2, <1>3, m \in Firmware DEF Firmware
<1>5. ActiveCameras(n) = ActiveCameras(m) /\ ExposureOver(n) = ExposureOver(m)
  BY ONLY <1>4 DEF ActiveCameras, ExposureOver
<1>. QED BY ONLY <1>1, <1>2, <1>4, <1>5 DEF Lowered

\* The stream has the DAC, and what the interrupts collect is cleared.
Fronted(m, n) ==
  /\ n \in Firmware /\ n.on = m.on /\ n.queue = m.queue /\ n.active = m.active
  /\ n.stage = m.stage /\ n.flagged = m.flagged /\ n.lines = m.lines
  /\ n.dropped = m.dropped /\ n.elapsed = m.elapsed /\ n.latched = m.latched
  /\ n.high = m.high \ ActiveCameras(m) /\ n.risen = m.risen \ ActiveCameras(m)
  /\ n.awaiting = ActiveCameras(m) /\ ActiveCameras(n) = ActiveCameras(m)

LEMMA FrontedIs ==
  ASSUME NEW m \in Firmware, NEW f \in Streams \union {None},
         NEW n, n = [Masked(m) EXCEPT !.front = f]
  PROVE  Fronted(m, n)
<1>1. PICK h, r, a : /\ h = m.high \ ActiveCameras(m) /\ r = m.risen \ ActiveCameras(m)
                     /\ a = ActiveCameras(m)
  OBVIOUS
<1>2. h \subseteq Cameras /\ r \subseteq Cameras /\ a \subseteq Cameras
  BY <1>1, ActiveTypes DEF Firmware
<1>3. n = [m EXCEPT !.high = h, !.risen = r, !.awaiting = a, !.front = f]
  BY <1>1 DEF Masked, Firmware
<1>4. /\ n \in Firmware /\ n.on = m.on /\ n.queue = m.queue /\ n.active = m.active
      /\ n.stage = m.stage /\ n.flagged = m.flagged /\ n.lines = m.lines
      /\ n.dropped = m.dropped /\ n.elapsed = m.elapsed /\ n.latched = m.latched
      /\ n.high = h /\ n.risen = r /\ n.awaiting = a
  BY ONLY <1>2, <1>3, m \in Firmware, f \in Streams \union {None} DEF Firmware
<1>5. ActiveCameras(n) = ActiveCameras(m)
  BY ONLY <1>4 DEF ActiveCameras
<1>. QED BY ONLY <1>1, <1>4, <1>5 DEF Fronted

CameraTypes ==
  /\ armed \in [Cameras -> Seqs \union {None}]
  /\ exposing \in [Cameras -> Seqs \union {None}] /\ taken \subseteq Cameras

\* The lines go up, and free cameras may follow.
LEMMA Triggers ==
  ASSUME NEW m \in Firmware, m.active \in Requests, CameraTypes, Trigger(m)
  PROVE  /\ mcu' \in Firmware /\ mcu'.on = m.on /\ mcu'.queue = m.queue
         /\ mcu'.active = m.active /\ mcu'.stage = "triggered"
         /\ mcu'.flagged = m.flagged /\ mcu'.dropped = m.dropped
         /\ mcu'.elapsed = m.elapsed /\ mcu'.latched = m.latched /\ mcu'.high = m.high
         /\ mcu'.risen = m.risen /\ mcu'.awaiting = m.awaiting
         /\ mcu'.lines = m.lines \union ActiveCameras(m)
         /\ ActiveCameras(mcu') = ActiveCameras(m)
         /\ CameraTypes' /\ taken' = {} /\ exposing' = exposing
         /\ \A c \in Cameras : armed'[c] = armed[c]
                 \/ (armed'[c] = m.active.seq /\ c \in ActiveCameras(m))
<1>1. PICK l : l = m.lines \union ActiveCameras(m)
  OBVIOUS
<1>2. l \subseteq Cameras
  BY <1>1, ActiveTypes DEF Firmware
<1>3. mcu' = [m EXCEPT !.stage = "triggered", !.lines = l]
  BY <1>1 DEF Trigger, Firmware
<1>4. /\ mcu' \in Firmware /\ mcu'.on = m.on /\ mcu'.queue = m.queue
      /\ mcu'.active = m.active /\ mcu'.stage = "triggered"
      /\ mcu'.flagged = m.flagged /\ mcu'.dropped = m.dropped
      /\ mcu'.elapsed = m.elapsed /\ mcu'.latched = m.latched /\ mcu'.high = m.high
      /\ mcu'.risen = m.risen /\ mcu'.awaiting = m.awaiting /\ mcu'.lines = l
  BY ONLY <1>2, <1>3, m \in Firmware DEF Firmware
<1>5. PICK hit \in SUBSET {c \in ActiveCameras(m) \ m.lines :
                             armed[c] = None /\ exposing[c] = None} :
        armed' = [c \in Cameras |-> IF c \in hit THEN m.active.seq ELSE armed[c]]
  BY DEF Trigger
<1>6. m.active.seq \in Seqs
  BY RequestTypes
<1>7. armed' \in [Cameras -> Seqs \union {None}]
  BY <1>5, <1>6 DEF CameraTypes
<1>8. taken' = {} /\ exposing' = exposing
  BY DEF Trigger
<1>9. CameraTypes'
  BY <1>7, <1>8 DEF CameraTypes
<1>10. \A c \in Cameras : armed'[c] = armed[c]
                 \/ (armed'[c] = m.active.seq /\ c \in ActiveCameras(m))
  BY ONLY <1>5
<1>11. ActiveCameras(mcu') = ActiveCameras(m)
  BY ONLY <1>4 DEF ActiveCameras
<1>. QED BY ONLY <1>1, <1>4, <1>8, <1>9, <1>10, <1>11

FirmwareInv == mcu \in Firmware /\ QueueInv /\ CameraTypes

LEMMA HandleKeeps ==
  ASSUME HostInv, FirmwareInv, Handle
  PROVE  /\ FirmwareInv' /\ UNCHANGED cameraVars
         /\ mcu'.on = mcu.on /\ mcu'.active = mcu.active /\ mcu'.stage = mcu.stage
         /\ mcu'.lines = mcu.lines /\ mcu'.dropped = mcu.dropped
         /\ mcu'.elapsed = mcu.elapsed /\ mcu'.latched = mcu.latched
         /\ mcu'.high = mcu.high /\ mcu'.risen = mcu.risen
         /\ mcu'.awaiting = mcu.awaiting
         /\ \E r \in Requests : \E kind \in {"ACK", "REJ"} :
              downlink' = Append(downlink, Answer(r, kind, None))
<1>1. PICK r : r = Head(host.uplink)
  OBVIOUS
<1>2. r \in Requests
  <2>1. PICK q, R : q = host.uplink /\ R = Requests
    OBVIOUS
  <2>2. q \in Seq(R) /\ q # <<>>
    BY <2>1 DEF Handle, HostInv, HostOK, Host
  <2>3. Head(q) \in R
    BY ONLY <2>2
  <2>. QED BY ONLY <1>1, <2>1, <2>3
<1>3. PICK m : m = [mcu EXCEPT !.queue = Append(@, r), !.flagged = @ \union {r.stream}]
  OBVIOUS
<1>4. /\ IF Acceptable(mcu, r)
           THEN mcu' = m /\ downlink' = Append(downlink, Answer(r, "ACK", None))
           ELSE downlink' = Append(downlink, Answer(r, "REJ", None)) /\ UNCHANGED mcu
      /\ UNCHANGED cameraVars
  BY <1>1, <1>3 DEF Handle
<1>5. mcu \in Firmware /\ QueueOK(mcu) /\ CameraTypes
  BY DEF FirmwareInv, QueueInv
<1>6. CameraTypes'
  BY <1>4, <1>5 DEF CameraTypes, cameraVars
<1>7. CASE Acceptable(mcu, r)
  <2>1. mcu' \in Firmware /\ QueueOK(mcu')
    BY <1>2, <1>3, <1>4, <1>5, <1>7, QueueJoined
  <2>2. /\ mcu'.on = mcu.on /\ mcu'.active = mcu.active /\ mcu'.stage = mcu.stage
        /\ mcu'.lines = mcu.lines /\ mcu'.dropped = mcu.dropped
        /\ mcu'.elapsed = mcu.elapsed /\ mcu'.latched = mcu.latched
        /\ mcu'.high = mcu.high /\ mcu'.risen = mcu.risen
        /\ mcu'.awaiting = mcu.awaiting
    <3>1. PICK q, g : q = Append(mcu.queue, r) /\ g = mcu.flagged \union {r.stream}
      OBVIOUS
    <3>2. mcu' = [mcu EXCEPT !.queue = q, !.flagged = g]
      BY <1>3, <1>4, <1>5, <1>7, <3>1 DEF Firmware
    <3>. QED BY ONLY <1>5, <3>2 DEF Firmware
  <2>. QED BY <1>2, <1>4, <1>6, <1>7, <2>1, <2>2 DEF FirmwareInv, QueueInv
<1>8. CASE ~ Acceptable(mcu, r)
  BY <1>2, <1>4, <1>5, <1>6, <1>8 DEF FirmwareInv, QueueInv
<1>. QED BY <1>7, <1>8

\* The next capture starts: the stream takes the DAC, at once or after settling.
LEMMA StartActiveKeeps ==
  ASSUME FirmwareInv, StartActive
  PROVE  /\ FirmwareInv' /\ mcu.stage = "popped" /\ mcu.active \in Requests
         /\ mcu'.on = mcu.on /\ mcu'.active = mcu.active
         /\ mcu'.dropped = mcu.dropped /\ mcu'.elapsed = mcu.elapsed
         /\ mcu'.latched = mcu.latched
         /\ mcu'.high = mcu.high \ ActiveCameras(mcu)
         /\ mcu'.risen = mcu.risen \ ActiveCameras(mcu)
         /\ mcu'.awaiting = ActiveCameras(mcu)
         /\ ActiveCameras(mcu') = ActiveCameras(mcu)
         /\ UNCHANGED <<exposing, downlink>>
         /\ \/ /\ mcu'.stage = "settling" /\ mcu'.lines = mcu.lines
               /\ UNCHANGED <<armed, taken>>
            \/ /\ mcu'.stage = "triggered" /\ taken' = {}
               /\ mcu'.lines = mcu.lines \union ActiveCameras(mcu)
               /\ \A c \in Cameras : armed'[c] = armed[c]
                    \/ (armed'[c] = mcu.active.seq /\ c \in ActiveCameras(mcu))
<1>1. mcu \in Firmware /\ QueueOK(mcu) /\ CameraTypes /\ mcu.stage = "popped"
  BY DEF FirmwareInv, QueueInv, StartActive
<1>2. mcu.active \in Requests /\ mcu.active.stream \in Streams
  BY <1>1, RequestTypes DEF QueueOK, Firmware
<1>3. PICK f : f = mcu.active.stream
  OBVIOUS
<1>4. PICK m : m = [Masked(mcu) EXCEPT !.front = f]
  OBVIOUS
<1>5. /\ m \in Firmware /\ m.on = mcu.on /\ m.queue = mcu.queue /\ m.active = mcu.active
      /\ m.stage = mcu.stage /\ m.flagged = mcu.flagged /\ m.lines = mcu.lines
      /\ m.dropped = mcu.dropped /\ m.elapsed = mcu.elapsed /\ m.latched = mcu.latched
      /\ m.high = mcu.high \ ActiveCameras(mcu)
      /\ m.risen = mcu.risen \ ActiveCameras(mcu)
      /\ m.awaiting = ActiveCameras(mcu) /\ ActiveCameras(m) = ActiveCameras(mcu)
  <2>1. f \in Streams \union {None}
    BY <1>2, <1>3
  <2>2. Fronted(mcu, m)
    BY ONLY <1>1, <1>4, <2>1, FrontedIs, Zenon
  <2>. QED BY ONLY <2>2 DEF Fronted
<1>6. \/ mcu' = [m EXCEPT !.stage = "settling"] /\ UNCHANGED cameraVars
      \/ Trigger(m)
  BY ONLY StartActive, <1>3, <1>4 DEF StartActive
<1>7. UNCHANGED downlink
  BY DEF StartActive
<1>8. CASE mcu' = [m EXCEPT !.stage = "settling"] /\ UNCHANGED cameraVars
  <2>1. /\ mcu' \in Firmware /\ mcu'.on = m.on /\ mcu'.queue = m.queue
        /\ mcu'.active = m.active /\ mcu'.stage = "settling" /\ mcu'.flagged = m.flagged
        /\ mcu'.lines = m.lines /\ mcu'.dropped = m.dropped /\ mcu'.elapsed = m.elapsed
        /\ mcu'.latched = m.latched /\ mcu'.high = m.high /\ mcu'.risen = m.risen
        /\ mcu'.awaiting = m.awaiting
    BY ONLY <1>5, <1>8 DEF Firmware
  <2>2. QueueOK(mcu')
    BY ONLY <1>1, <1>5, <2>1, SameQueue
  <2>3. ActiveCameras(mcu') = ActiveCameras(mcu)
    BY ONLY <1>5, <2>1 DEF ActiveCameras
  <2>4. UNCHANGED <<armed, exposing, taken>> /\ CameraTypes'
    BY <1>1, <1>8 DEF cameraVars, CameraTypes
  <2>5. FirmwareInv'
    BY <2>1, <2>2, <2>4 DEF FirmwareInv, QueueInv
  <2>. QED BY ONLY <1>1, <1>2, <1>5, <1>7, <2>1, <2>3, <2>4, <2>5
<1>9. CASE Trigger(m)
  <2>1. /\ mcu' \in Firmware /\ mcu'.on = m.on /\ mcu'.queue = m.queue
        /\ mcu'.active = m.active /\ mcu'.stage = "triggered"
        /\ mcu'.flagged = m.flagged /\ mcu'.dropped = m.dropped
        /\ mcu'.elapsed = m.elapsed /\ mcu'.latched = m.latched /\ mcu'.high = m.high
        /\ mcu'.risen = m.risen /\ mcu'.awaiting = m.awaiting
        /\ mcu'.lines = m.lines \union ActiveCameras(m)
        /\ ActiveCameras(mcu') = ActiveCameras(m)
        /\ CameraTypes' /\ taken' = {} /\ exposing' = exposing
        /\ \A c \in Cameras : armed'[c] = armed[c]
                 \/ (armed'[c] = m.active.seq /\ c \in ActiveCameras(m))
    <3>1. m.active \in Requests
      BY <1>2, <1>5
    <3>. QED BY ONLY <1>1, <1>5, <1>9, <3>1, Triggers
  <2>2. QueueOK(mcu')
    BY ONLY <1>1, <1>5, <2>1, SameQueue
  <2>3. FirmwareInv'
    BY <2>1, <2>2 DEF FirmwareInv, QueueInv
  <2>. QED BY ONLY <1>1, <1>2, <1>5, <1>7, <2>1, <2>3
<1>. QED BY ONLY <1>6, <1>8, <1>9

LEMMA SettleOverKeeps ==
  ASSUME FirmwareInv, SettleOver
  PROVE  /\ FirmwareInv' /\ mcu.stage = "settling" /\ mcu.active \in Requests
         /\ mcu'.on = mcu.on /\ mcu'.active = mcu.active /\ mcu'.stage = "triggered"
         /\ mcu'.dropped = mcu.dropped /\ mcu'.elapsed = mcu.elapsed
         /\ mcu'.latched = mcu.latched /\ mcu'.high = mcu.high
         /\ mcu'.risen = mcu.risen /\ mcu'.awaiting = mcu.awaiting
         /\ mcu'.lines = mcu.lines \union ActiveCameras(mcu)
         /\ ActiveCameras(mcu') = ActiveCameras(mcu)
         /\ UNCHANGED <<exposing, downlink>> /\ taken' = {}
         /\ \A c \in Cameras : armed'[c] = armed[c]
              \/ (armed'[c] = mcu.active.seq /\ c \in ActiveCameras(mcu))
<1>1. mcu \in Firmware /\ QueueOK(mcu) /\ CameraTypes /\ mcu.stage = "settling"
  BY DEF FirmwareInv, QueueInv, SettleOver
<1>2. mcu.active \in Requests /\ Trigger(mcu) /\ UNCHANGED downlink
  BY <1>1 DEF QueueOK, Firmware, SettleOver
<1>3. /\ mcu' \in Firmware /\ mcu'.on = mcu.on /\ mcu'.queue = mcu.queue
      /\ mcu'.active = mcu.active /\ mcu'.stage = "triggered"
      /\ mcu'.flagged = mcu.flagged /\ mcu'.dropped = mcu.dropped
      /\ mcu'.elapsed = mcu.elapsed /\ mcu'.latched = mcu.latched
      /\ mcu'.high = mcu.high
      /\ mcu'.risen = mcu.risen /\ mcu'.awaiting = mcu.awaiting
      /\ mcu'.lines = mcu.lines \union ActiveCameras(mcu)
      /\ ActiveCameras(mcu') = ActiveCameras(mcu)
      /\ CameraTypes' /\ taken' = {} /\ exposing' = exposing
      /\ \A c \in Cameras : armed'[c] = armed[c]
           \/ (armed'[c] = mcu.active.seq /\ c \in ActiveCameras(mcu))
  BY ONLY <1>1, <1>2, Triggers
<1>4. QueueOK(mcu')
  BY ONLY <1>1, <1>3, SameQueue
<1>5. FirmwareInv'
  BY <1>3, <1>4 DEF FirmwareInv, QueueInv
<1>. QED BY ONLY <1>1, <1>2, <1>3, <1>5

\* What tick() does: it takes up a request, takes the lines down, or ends a capture.
TickPops ==
  /\ mcu.stage = "idle" /\ mcu.on /\ mcu'.stage = "popped" /\ mcu'.active \in Requests
  /\ mcu'.latched = None /\ mcu'.elapsed = "" /\ ~ mcu'.dropped
  /\ mcu'.lines = mcu.lines /\ UNCHANGED downlink
TickLowers ==
  /\ mcu.stage = "triggered" /\ mcu'.stage = "triggered" /\ mcu'.active = mcu.active
  /\ mcu'.latched = mcu.latched /\ mcu'.elapsed = mcu.elapsed /\ mcu.elapsed # ""
  /\ mcu'.lines = mcu.lines \ ActiveCameras(mcu) /\ mcu'.dropped
  /\ ~ mcu.dropped /\ ActiveCameras(mcu') = ActiveCameras(mcu) /\ UNCHANGED downlink
TickEnds ==
  /\ mcu.stage = "triggered" /\ mcu'.stage \in {"idle", "popped"}
  /\ ExposureOver(mcu) \/ mcu.elapsed = "margin"
  /\ mcu'.stage = "popped" => mcu'.latched = None /\ mcu'.elapsed = "" /\ ~ mcu'.dropped
  /\ mcu'.lines \subseteq mcu.lines
  /\ mcu.elapsed # "" /\ ~ mcu.dropped => mcu'.lines = mcu.lines \ ActiveCameras(mcu)
  /\ downlink' = Append(downlink,
                        IF ExposureOver(mcu) THEN Answer(mcu.active, "FIN", mcu.latched)
                        ELSE Answer(mcu.active, "REJ", None))

LEMMA TickKeeps ==
  ASSUME FirmwareInv, Tick
  PROVE  /\ FirmwareInv' /\ UNCHANGED cameraVars /\ mcu'.on = mcu.on
         /\ mcu'.high = mcu.high /\ mcu'.risen = mcu.risen /\ mcu'.awaiting = mcu.awaiting
         /\ TickPops \/ TickLowers \/ TickEnds
<1>1. mcu \in Firmware /\ QueueOK(mcu) /\ CameraTypes
  BY DEF FirmwareInv, QueueInv
<1>2. UNCHANGED cameraVars /\ CameraTypes' /\ mcu' # mcu
  BY <1>1 DEF Tick, CameraTypes, cameraVars
<1>3. CASE mcu.stage = "idle" /\ mcu' = Popped(mcu) /\ UNCHANGED downlink
  <2>1. PICK n : n = mcu'
    OBVIOUS
  <2>2. /\ n \in Firmware /\ QueueOK(n) /\ n.stage = "popped" /\ n.active \in Requests
        /\ n.on /\ mcu.on /\ ~ n.dropped /\ n.latched = None /\ n.elapsed = ""
        /\ n.lines = mcu.lines /\ n.high = mcu.high /\ n.risen = mcu.risen
        /\ n.awaiting = mcu.awaiting /\ n.front = mcu.front
    <3>1. mcu.stage = "idle" /\ n = Popped(mcu) /\ n # mcu
      BY ONLY <1>2, <1>3, <2>1
    <3>2. TakenUp(mcu, n)
      BY ONLY <1>1, <3>1, HeadPopped, Zenon
    <3>. QED BY ONLY <3>2 DEF TakenUp
  <2>3. TickPops /\ mcu'.on = mcu.on
    <3>1. n.on = mcu.on
      BY ONLY <1>1, <2>2 DEF Firmware
    <3>. QED BY ONLY <1>3, <2>1, <2>2, <3>1 DEF TickPops
  <2>. QED BY ONLY <1>2, <2>1, <2>2, <2>3 DEF FirmwareInv, QueueInv
<1>4. CASE mcu.stage = "triggered"
  <2>1. PICK m : m = Dropped(mcu)
    OBVIOUS
  <2>2. PICK verdict : verdict = IF ExposureOver(mcu)
                                   THEN Answer(mcu.active, "FIN", mcu.latched)
                                   ELSE Answer(mcu.active, "REJ", None)
    OBVIOUS
  <2>3. /\ m \in Firmware /\ m.on = mcu.on /\ m.queue = mcu.queue /\ m.active = mcu.active
        /\ m.stage = mcu.stage /\ m.flagged = mcu.flagged /\ m.front = mcu.front
        /\ m.elapsed = mcu.elapsed /\ m.latched = mcu.latched /\ m.high = mcu.high
        /\ m.risen = mcu.risen /\ m.awaiting = mcu.awaiting
        /\ ActiveCameras(m) = ActiveCameras(mcu) /\ ExposureOver(m) = ExposureOver(mcu)
        /\ m.lines \subseteq mcu.lines
        /\ mcu.elapsed # "" => m.dropped
        /\ m.dropped /\ ~ mcu.dropped => m.lines = mcu.lines \ ActiveCameras(mcu)
        /\ m.dropped = mcu.dropped => m = mcu
    <3>1. Lowered(mcu, m)
      BY ONLY <1>1, <2>1, DroppedIs, Zenon
    <3>. QED BY ONLY <3>1 DEF Lowered
  <2>4. QueueOK(m)
    BY ONLY <1>1, <2>3, SameQueue
  <2>5. IF ExposureOver(mcu) \/ mcu.elapsed = "margin"
          THEN mcu' = Popped(Unoccupied(m)) /\ downlink' = Append(downlink, verdict)
          ELSE mcu' = m /\ UNCHANGED downlink
    <3>1. ~ (mcu.stage = "idle")
      BY <1>4
    <3>2. IF ExposureOver(m) \/ m.elapsed = "margin"
            THEN /\ mcu' = Popped(Unoccupied(m))
                 /\ downlink' = Append(downlink, IF ExposureOver(m)
                                   THEN Answer(m.active, "FIN", m.latched)
                                   ELSE Answer(m.active, "REJ", None))
            ELSE mcu' = m /\ UNCHANGED downlink
      BY ONLY Tick, <2>1, <3>1 DEF Tick
    <3>. QED BY ONLY <2>2, <2>3, <3>2
  <2>6. CASE ~ (ExposureOver(mcu) \/ mcu.elapsed = "margin")
    <3>1. mcu' = m /\ UNCHANGED downlink /\ m # mcu
      BY ONLY <1>2, <2>5, <2>6
    <3>2. m.dropped # mcu.dropped /\ m.dropped \in BOOLEAN /\ mcu.dropped \in BOOLEAN
      BY ONLY <1>1, <2>3, <3>1 DEF Firmware
    <3>3. m.dropped /\ ~ mcu.dropped /\ mcu.elapsed # ""
      BY ONLY <2>1, <3>2 DEF Dropped
    <3>4. TickLowers
      BY ONLY <1>4, <2>3, <3>1, <3>3 DEF TickLowers
    <3>. QED BY ONLY <1>2, <2>3, <2>4, <3>1, <3>4 DEF FirmwareInv, QueueInv
  <2>7. CASE ExposureOver(mcu) \/ mcu.elapsed = "margin"
    <3>1. PICK u : u = Unoccupied(m)
      OBVIOUS
    <3>2. m.active # NoRequest
      BY ONLY <1>4, <2>3, <2>4 DEF QueueOK
    <3>3. /\ u \in Firmware /\ QueueOK(u) /\ u.stage = "idle" /\ u.active = NoRequest
          /\ u.queue = m.queue /\ u.on = m.on /\ u.lines = m.lines /\ u.high = m.high
          /\ u.risen = m.risen /\ u.awaiting = m.awaiting /\ u.front = m.front
      <4>1. m \in Firmware
        BY ONLY <2>3
      <4>2. Released(m, u)
        BY ONLY <2>4, <3>1, <3>2, <4>1, ActiveLeft, Zenon
      <4>. QED BY ONLY <4>2 DEF Released
    <3>4. mcu' = Popped(u) /\ downlink' = Append(downlink, verdict)
      BY ONLY <2>5, <2>7, <3>1
    <3>5. PICK n : n = mcu'
      OBVIOUS
    <3>6. /\ n \in Firmware /\ QueueOK(n) /\ n.stage \in {"idle", "popped"}
          /\ n.stage = "popped" => n.latched = None /\ n.elapsed = "" /\ ~ n.dropped
          /\ n.on = u.on /\ n.lines = u.lines /\ n.high = u.high /\ n.risen = u.risen
          /\ n.awaiting = u.awaiting
      <4>1. CASE n = u
        BY ONLY <3>3, <4>1
      <4>2. CASE n # u
        <5>1. /\ n \in Firmware /\ QueueOK(n) /\ n.stage = "popped" /\ n.active \in Requests
              /\ n.on /\ u.on /\ ~ n.dropped /\ n.latched = None /\ n.elapsed = ""
              /\ n.lines = u.lines /\ n.high = u.high /\ n.risen = u.risen
              /\ n.awaiting = u.awaiting /\ n.front = u.front
          <6>1. n = Popped(u)
            BY ONLY <3>4, <3>5
          <6>2. u \in Firmware /\ QueueOK(u) /\ u.stage = "idle"
            BY ONLY <3>3
          <6>3. TakenUp(u, n)
            BY ONLY <4>2, <6>1, <6>2, HeadPopped, Zenon
          <6>. QED BY ONLY <6>3 DEF TakenUp
        <5>2. n.on = u.on
          BY ONLY <3>3, <5>1 DEF Firmware
        <5>. QED BY ONLY <5>1, <5>2
      <4>. QED BY ONLY <4>1, <4>2
    <3>7. mcu.elapsed # "" /\ ~ mcu.dropped => n.lines = mcu.lines \ ActiveCameras(mcu)
      BY ONLY <2>3, <3>3, <3>6
    <3>8. n.lines \subseteq mcu.lines
      BY ONLY <2>3, <3>3, <3>6
    <3>9. TickEnds
      BY ONLY <1>4, <2>2, <2>7, <3>4, <3>5, <3>6, <3>7, <3>8 DEF TickEnds
    <3>. QED BY ONLY <1>2, <2>3, <3>3, <3>5, <3>6, <3>9 DEF FirmwareInv, QueueInv
  <2>. QED BY ONLY <2>6, <2>7
<1>5. (mcu.stage = "idle" /\ mcu' = Popped(mcu) /\ UNCHANGED downlink)
      \/ mcu.stage = "triggered"
  BY ONLY Tick DEF Tick
<1>. QED BY ONLY <1>3, <1>4, <1>5

LEMMA DisableKeeps ==
  ASSUME FirmwareInv, Disable
  PROVE  /\ FirmwareInv' /\ UNCHANGED cameraVars /\ mcu.on /\ ~ mcu'.on
         /\ mcu'.stage = "idle" /\ mcu'.lines = mcu.lines \ ActiveCameras(mcu)
         /\ mcu'.high = mcu.high /\ mcu.stage # "popped"
<1>1. mcu \in Firmware /\ QueueOK(mcu) /\ CameraTypes
  BY DEF FirmwareInv, QueueInv
<1>2. UNCHANGED cameraVars /\ CameraTypes' /\ mcu.on /\ mcu.stage # "popped"
  BY <1>1 DEF Disable, CameraTypes, cameraVars
<1>3. PICK l, q : l = mcu.lines \ ActiveCameras(mcu) /\ q = <<>>
  OBVIOUS
<1>4. l \subseteq Cameras /\ q \in Seq(Requests)
  <2>1. q \in Seq(Requests)
    BY ONLY <1>3
  <2>2. mcu.lines \subseteq Cameras
    BY ONLY <1>1 DEF Firmware
  <2>. QED BY ONLY <1>3, <2>1, <2>2
<1>5. PICK n : n = mcu'
  OBVIOUS
<1>6. n = [mcu EXCEPT !.on = FALSE, !.queue = q, !.active = NoRequest,
                      !.stage = "idle", !.flagged = {}, !.front = None, !.lines = l]
  <2>1. mcu' = [mcu EXCEPT !.on = FALSE, !.queue = <<>>, !.active = NoRequest,
                           !.stage = "idle", !.flagged = {}, !.front = None,
                           !.lines = @ \ ActiveCameras(mcu)]
    BY DEF Disable
  <2>2. mcu' = [mcu EXCEPT !.on = FALSE, !.queue = q, !.active = NoRequest,
                           !.stage = "idle", !.flagged = {}, !.front = None, !.lines = l]
    BY ONLY <1>1, <1>3, <2>1 DEF Firmware
  <2>. QED BY ONLY <1>5, <2>2
<1>7. /\ n \in Firmware /\ ~ n.on /\ n.queue = q /\ n.active = NoRequest
      /\ n.stage = "idle" /\ n.flagged = {} /\ n.lines = l /\ n.high = mcu.high
  BY ONLY <1>1, <1>4, <1>6 DEF Firmware
<1>8. QueueOK(n)
  <2>1. DOMAIN q = {}
    BY <1>3
  <2>. QED BY ONLY <1>3, <1>7, <2>1 DEF QueueOK
<1>. QED BY ONLY <1>2, <1>3, <1>5, <1>7, <1>8 DEF FirmwareInv, QueueInv

LEMMA EnableKeeps ==
  ASSUME FirmwareInv, Enable
  PROVE  /\ FirmwareInv' /\ UNCHANGED cameraVars /\ ~ mcu.on /\ mcu'.stage = "idle"
         /\ mcu.stage = "idle" /\ mcu'.lines = mcu.lines /\ mcu'.high = mcu.high
<1>1. mcu \in Firmware /\ QueueOK(mcu) /\ CameraTypes
  BY DEF FirmwareInv, QueueInv
<1>2. UNCHANGED cameraVars /\ CameraTypes' /\ ~ mcu.on
  BY <1>1 DEF Enable, CameraTypes, cameraVars
<1>3. mcu' = [mcu EXCEPT !.on = TRUE]
  BY DEF Enable
<1>4. /\ mcu' \in Firmware /\ mcu'.on /\ mcu'.queue = mcu.queue
      /\ mcu'.active = mcu.active /\ mcu'.stage = mcu.stage /\ mcu'.lines = mcu.lines
      /\ mcu'.flagged = mcu.flagged /\ mcu'.high = mcu.high
  BY ONLY <1>1, <1>3 DEF Firmware
<1>5. QueueOK(mcu') /\ mcu.stage = "idle"
  BY ONLY <1>1, <1>2, <1>4 DEF QueueOK
<1>. QED BY ONLY <1>2, <1>4, <1>5 DEF FirmwareInv, QueueInv

LEMMA ElapseKeeps ==
  ASSUME FirmwareInv, Elapse
  PROVE  /\ FirmwareInv' /\ UNCHANGED cameraVars /\ mcu.stage = "triggered"
         /\ mcu'.on = mcu.on /\ mcu'.stage = "triggered" /\ mcu'.active = mcu.active
         /\ mcu'.lines = mcu.lines /\ mcu'.dropped = mcu.dropped
         /\ mcu'.latched = mcu.latched /\ mcu'.high = mcu.high
         /\ mcu'.risen = mcu.risen /\ mcu'.awaiting = mcu.awaiting
         /\ ActiveCameras(mcu') = ActiveCameras(mcu) /\ mcu'.elapsed # ""
<1>1. mcu \in Firmware /\ QueueOK(mcu) /\ CameraTypes
  BY DEF FirmwareInv, QueueInv
<1>2. UNCHANGED cameraVars /\ CameraTypes' /\ mcu.stage = "triggered"
  BY <1>1 DEF Elapse, CameraTypes, cameraVars
<1>3. PICK e \in {"pulse", "margin"} : mcu' = [mcu EXCEPT !.elapsed = e]
  BY DEF Elapse
<1>4. /\ mcu' \in Firmware /\ mcu'.on = mcu.on /\ mcu'.stage = "triggered"
      /\ mcu'.active = mcu.active /\ mcu'.queue = mcu.queue /\ mcu'.flagged = mcu.flagged
      /\ mcu'.lines = mcu.lines /\ mcu'.dropped = mcu.dropped
      /\ mcu'.latched = mcu.latched /\ mcu'.high = mcu.high
      /\ mcu'.risen = mcu.risen /\ mcu'.awaiting = mcu.awaiting /\ mcu'.elapsed = e
  BY ONLY <1>1, <1>2, <1>3 DEF Firmware
<1>5. QueueOK(mcu')
  BY ONLY <1>1, <1>2, <1>4, SameQueue
<1>6. ActiveCameras(mcu') = ActiveCameras(mcu)
  BY ONLY <1>4 DEF ActiveCameras
<1>7. FirmwareInv'
  BY ONLY <1>2, <1>4, <1>5 DEF FirmwareInv, QueueInv
<1>8. mcu'.elapsed # ""
  BY ONLY <1>3, <1>4
<1>. QED BY ONLY <1>2, <1>4, <1>6, <1>7, <1>8

\* What an edge of a strobe leaves alone.
OnlyStrobes ==
  /\ mcu'.on = mcu.on /\ mcu'.stage = mcu.stage /\ mcu'.active = mcu.active
  /\ mcu'.lines = mcu.lines /\ mcu'.dropped = mcu.dropped
  /\ mcu'.elapsed = mcu.elapsed /\ mcu'.awaiting = mcu.awaiting
  /\ ActiveCameras(mcu') = ActiveCameras(mcu)

LEMMA RiseKeeps ==
  ASSUME FirmwareInv, NEW c \in Cameras, Rise(c)
  PROVE  /\ FirmwareInv' /\ OnlyStrobes /\ armed[c] # None /\ UNCHANGED taken
         /\ armed' = [armed EXCEPT ![c] = None]
         /\ exposing' = [exposing EXCEPT ![c] = armed[c]]
         /\ mcu'.high = mcu.high \union {c} /\ mcu'.risen = mcu.risen \union {c}
         /\ mcu'.latched = IF mcu.latched = None /\ c \in mcu.awaiting
                             THEN armed[c] ELSE mcu.latched
<1>1. mcu \in Firmware /\ QueueOK(mcu) /\ CameraTypes
  BY DEF FirmwareInv, QueueInv
<1>2. /\ armed[c] # None /\ armed' = [armed EXCEPT ![c] = None]
      /\ exposing' = [exposing EXCEPT ![c] = armed[c]] /\ UNCHANGED taken
  BY DEF Rise
<1>3. CameraTypes'
  BY <1>1, <1>2 DEF CameraTypes
<1>4. PICK h, r, x : /\ h = mcu.high \union {c} /\ r = mcu.risen \union {c}
                     /\ x = IF mcu.latched = None /\ c \in mcu.awaiting
                              THEN armed[c] ELSE mcu.latched
  OBVIOUS
<1>5. h \subseteq Cameras /\ r \subseteq Cameras /\ x \in Seqs \union {None}
  <2>1. armed[c] \in Seqs \union {None}
    BY <1>1 DEF CameraTypes
  <2>. QED BY <1>1, <1>4, <2>1 DEF Firmware
<1>6. mcu' = [mcu EXCEPT !.high = h, !.risen = r, !.latched = x]
  BY <1>1, <1>4 DEF Rise, Firmware
<1>7. /\ mcu' \in Firmware /\ mcu'.queue = mcu.queue /\ mcu'.flagged = mcu.flagged
      /\ mcu'.on = mcu.on /\ mcu'.stage = mcu.stage /\ mcu'.active = mcu.active
      /\ mcu'.lines = mcu.lines /\ mcu'.dropped = mcu.dropped
      /\ mcu'.elapsed = mcu.elapsed /\ mcu'.awaiting = mcu.awaiting
      /\ mcu'.high = h /\ mcu'.risen = r /\ mcu'.latched = x
  BY ONLY <1>1, <1>5, <1>6 DEF Firmware
<1>8. QueueOK(mcu')
  BY ONLY <1>1, <1>7, SameQueue
<1>9. OnlyStrobes
  BY ONLY <1>7 DEF OnlyStrobes, ActiveCameras
<1>10. FirmwareInv'
  BY ONLY <1>3, <1>7, <1>8 DEF FirmwareInv, QueueInv
<1>. QED BY ONLY <1>2, <1>4, <1>7, <1>9, <1>10

LEMMA FallKeeps ==
  ASSUME FirmwareInv, NEW c \in Cameras, Fall(c)
  PROVE  /\ FirmwareInv' /\ OnlyStrobes /\ exposing[c] # None /\ UNCHANGED armed
         /\ exposing' = [exposing EXCEPT ![c] = None]
         /\ mcu'.high = mcu.high \ {c} /\ mcu'.risen = mcu.risen
         /\ mcu'.latched = mcu.latched
         /\ taken' = IF exposing[c] = mcu.active.seq
                       THEN taken \union ({c} \intersect ActiveCameras(mcu)) ELSE taken
<1>1. mcu \in Firmware /\ QueueOK(mcu) /\ CameraTypes
  BY DEF FirmwareInv, QueueInv
<1>2. /\ exposing[c] # None /\ UNCHANGED armed
      /\ exposing' = [exposing EXCEPT ![c] = None]
      /\ taken' = IF exposing[c] = mcu.active.seq
                    THEN taken \union ({c} \intersect ActiveCameras(mcu)) ELSE taken
  BY DEF Fall
<1>3. CameraTypes'
  BY <1>1, <1>2 DEF CameraTypes
<1>4. PICK h : h = mcu.high \ {c}
  OBVIOUS
<1>5. h \subseteq Cameras
  BY <1>1, <1>4 DEF Firmware
<1>6. mcu' = [mcu EXCEPT !.high = h]
  BY <1>1, <1>4 DEF Fall, Firmware
<1>7. /\ mcu' \in Firmware /\ mcu'.queue = mcu.queue /\ mcu'.flagged = mcu.flagged
      /\ mcu'.on = mcu.on /\ mcu'.stage = mcu.stage /\ mcu'.active = mcu.active
      /\ mcu'.lines = mcu.lines /\ mcu'.dropped = mcu.dropped
      /\ mcu'.elapsed = mcu.elapsed /\ mcu'.awaiting = mcu.awaiting
      /\ mcu'.high = h /\ mcu'.risen = mcu.risen /\ mcu'.latched = mcu.latched
  BY ONLY <1>1, <1>5, <1>6 DEF Firmware
<1>8. QueueOK(mcu')
  BY ONLY <1>1, <1>7, SameQueue
<1>9. OnlyStrobes
  BY ONLY <1>7 DEF OnlyStrobes, ActiveCameras
<1>10. FirmwareInv'
  BY ONLY <1>3, <1>7, <1>8 DEF FirmwareInv, QueueInv
<1>. QED BY ONLY <1>2, <1>4, <1>7, <1>9, <1>10

LEMMA OthersKeepFirmware ==
  Start \/ Stop \/ Pump \/ Receive \/ LosePacket \/ (\E s \in Streams : Wake(s))
    \/ (\E r \in Requests : AckTimeout(r) \/ FinTimeout(r))
    \/ (\E q \in Seqs : Sweep(q)) \/ UNCHANGED vars
  => UNCHANGED <<mcu, armed, exposing, taken>>
  BY DEF Start, Stop, Pump, Receive, LosePacket, Wake, AckTimeout, FinTimeout, Sweep,
         HostStep, vars, cameraVars

LEMMA FirmwareKeeps == ASSUME HostInv, FirmwareInv, [Next]_vars PROVE FirmwareInv'
<1>1. CASE UNCHANGED <<mcu, armed, exposing, taken>>
  BY <1>1 DEF FirmwareInv, QueueInv, CameraTypes
<1>2. CASE Handle
  BY <1>2, HandleKeeps
<1>3. CASE StartActive
  BY <1>3, StartActiveKeeps
<1>4. CASE SettleOver
  BY <1>4, SettleOverKeeps
<1>5. CASE Tick
  BY <1>5, TickKeeps
<1>6. CASE Disable
  BY <1>6, DisableKeeps
<1>7. CASE Enable
  BY <1>7, EnableKeeps
<1>8. CASE Elapse
  BY <1>8, ElapseKeeps
<1>9. CASE \E c \in Cameras : Rise(c) \/ Fall(c)
  BY <1>9, RiseKeeps, FallKeeps
<1>. QED BY <1>1, <1>2, <1>3, <1>4, <1>5, <1>6, <1>7, <1>8, <1>9, OthersKeepFirmware
         DEF Next

LEMMA FirmwareStarts == Init => FirmwareInv
<1>1. SUFFICES ASSUME Init PROVE FirmwareInv
  OBVIOUS
<1>2. PICK q : q = <<>>
  OBVIOUS
<1>3. mcu = [on |-> TRUE, queue |-> q, active |-> NoRequest, stage |-> "idle",
             flagged |-> {}, front |-> None, lines |-> {}, dropped |-> FALSE,
             elapsed |-> "", latched |-> None, high |-> {}, risen |-> {},
             awaiting |-> {}]
  BY <1>1, <1>2 DEF Init
<1>4. q \in Seq(Requests) /\ DOMAIN q = {}
  BY <1>2
<1>5. mcu \in Firmware
  BY ONLY <1>3, <1>4 DEF Firmware
<1>6. QueueOK(mcu)
  BY ONLY <1>2, <1>3, <1>4 DEF QueueOK
<1>7. CameraTypes
  BY <1>1 DEF Init, CameraTypes
<1>. QED BY ONLY <1>5, <1>6, <1>7 DEF FirmwareInv, QueueInv

LEMMA SequenceSteps ==
  ASSUME NEW S, NEW s \in Seq(S)
  PROVE  /\ \A x \in S : Append(s, x) \in Seq(S)
         /\ s # <<>> => Tail(s) \in Seq(S)
         /\ \A t \in Seq(S) : s \o t \in Seq(S)
<1>1. \A x \in S : Append(s, x) \in Seq(S)
  OBVIOUS
<1>2. s # <<>> => Tail(s) \in Seq(S)
  OBVIOUS
<1>3. \A t \in Seq(S) : s \o t \in Seq(S)
  OBVIOUS
<1>. QED BY ONLY <1>1, <1>2, <1>3

\* Every answer is an ACK, a REJ, or the FIN of a capture whose exposure is over.
LEMMA AnswersKept ==
  ASSUME NEW S, downlink \in Seq(S), HostInv, FirmwareInv, [Next]_vars,
         \A r \in Requests : \A kind \in {"ACK", "REJ"} : Answer(r, kind, None) \in S,
         mcu.stage = "triggered" /\ ExposureOver(mcu)
           => Answer(mcu.active, "FIN", mcu.latched) \in S
  PROVE  downlink' \in Seq(S)
<1>1. /\ mcu \in Firmware /\ QueueOK(mcu)
  BY DEF FirmwareInv, QueueInv
<1>2. CASE UNCHANGED downlink
  BY <1>2
<1>3. CASE downlink # <<>> /\ downlink' = Tail(downlink)
  <2>1. PICK s : s = downlink
    OBVIOUS
  <2>2. s \in Seq(S) /\ s # <<>>
    BY <1>3, <2>1
  <2>3. Tail(s) \in Seq(S)
    BY ONLY <2>2
  <2>. QED BY ONLY <1>3, <2>1, <2>3
<1>4. CASE \E x \in S : downlink' = Append(downlink, x)
  <2>1. PICK x \in S : downlink' = Append(downlink, x)
    BY <1>4
  <2>2. PICK s : s = downlink
    OBVIOUS
  <2>3. s \in Seq(S)
    BY <2>2
  <2>4. Append(s, x) \in Seq(S)
    BY ONLY <2>3
  <2>. QED BY ONLY <2>1, <2>2, <2>4
<1>5. CASE Disable
  <2>1. PICK a, b : /\ a = IF mcu.active = NoRequest THEN <<>> ELSE Rejections(<<mcu.active>>)
                    /\ b = Rejections(mcu.queue)
    OBVIOUS
  <2>2. b \in Seq(S)
    <3>1. PICK n, q : n = Len(mcu.queue) /\ q = mcu.queue
      OBVIOUS
    <3>2. n \in Nat /\ DOMAIN q = 1..n /\ \A i \in DOMAIN q : q[i] \in Requests
      BY <1>1, <3>1, QueueTypes
    <3>3. b = [k \in 1..n |-> Answer(q[k], "REJ", None)]
      BY <2>1, <3>1, <3>2 DEF Rejections
    <3>4. \A k \in 1..n : Answer(q[k], "REJ", None) \in S
      BY <3>2
    <3>5. b \in [1..n -> S]
      BY ONLY <3>3, <3>4
    <3>. QED BY ONLY <3>2, <3>5, SeqDef
  <2>3. a \in Seq(S)
    <3>1. CASE mcu.active = NoRequest
      <4>1. a = <<>>
        BY <2>1, <3>1
      <4>. QED BY ONLY <4>1
    <3>2. CASE mcu.active # NoRequest
      <4>1. PICK x : x = Answer(mcu.active, "REJ", None)
        OBVIOUS
      <4>2. x \in S
        <5>1. mcu.active \in Requests
          BY <1>1, <3>2, ActiveTypes
        <5>. QED BY <4>1, <5>1
      <4>3. a = [k \in 1..1 |-> x]
        <5>1. PICK p : p = mcu.active
          OBVIOUS
        <5>2. a = Rejections(<<p>>)
          BY <2>1, <3>2, <5>1
        <5>3. DOMAIN <<p>> = 1..1 /\ \A k \in 1..1 : <<p>>[k] = p
          OBVIOUS
        <5>4. a = [k \in 1..1 |-> Answer(p, "REJ", None)]
          BY ONLY <5>2, <5>3 DEF Rejections
        <5>. QED BY ONLY <4>1, <5>1, <5>4
      <4>4. a \in [1..1 -> S] /\ 1 \in Nat
        BY ONLY <4>2, <4>3
      <4>. QED BY ONLY <4>4, SeqDef
    <3>. QED BY <3>1, <3>2
  <2>4. PICK s : s = downlink
    OBVIOUS
  <2>5. s \in Seq(S) /\ downlink' = (s \o a) \o b
    BY <1>5, <2>1, <2>4 DEF Disable
  <2>6. (s \o a) \in Seq(S)
    BY ONLY <2>3, <2>5
  <2>7. PICK t : t = s \o a
    OBVIOUS
  <2>8. t \in Seq(S) /\ t \o b \in Seq(S)
    BY ONLY <2>2, <2>6, <2>7
  <2>. QED BY ONLY <2>5, <2>7, <2>8
<1>6. CASE Handle
  <2>1. PICK r \in Requests, kind \in {"ACK", "REJ"} :
          downlink' = Append(downlink, Answer(r, kind, None))
    BY <1>6, HandleKeeps
  <2>. QED BY <1>4, <2>1
<1>7. CASE Tick
  <2>1. TickPops \/ TickLowers \/ TickEnds
    BY <1>7, TickKeeps
  <2>2. CASE TickEnds
    <3>1. mcu.active \in Requests /\ mcu.stage = "triggered"
      BY <1>1, <2>2, ActiveTypes DEF TickEnds, QueueOK
    <3>2. downlink' = Append(downlink,
                        IF ExposureOver(mcu) THEN Answer(mcu.active, "FIN", mcu.latched)
                        ELSE Answer(mcu.active, "REJ", None))
      BY <2>2 DEF TickEnds
    <3>3. CASE ExposureOver(mcu)
      BY <1>4, <3>1, <3>2, <3>3
    <3>4. CASE ~ ExposureOver(mcu)
      BY <1>4, <3>1, <3>2, <3>4
    <3>. QED BY <3>3, <3>4
  <2>. QED BY <1>2, <2>1, <2>2 DEF TickPops, TickLowers
<1>8. CASE Receive \/ LosePacket
  BY <1>2, <1>3, <1>8 DEF Receive, LosePacket
<1>9. Start \/ Stop \/ Pump \/ (\E s \in Streams : Wake(s))
        \/ (\E r \in Requests : AckTimeout(r) \/ FinTimeout(r))
        \/ (\E q \in Seqs : Sweep(q)) \/ Enable \/ StartActive \/ SettleOver \/ Elapse
        \/ (\E c \in Cameras : Rise(c) \/ Fall(c)) \/ UNCHANGED vars
      => UNCHANGED downlink
  BY DEF Start, Stop, Pump, Wake, AckTimeout, FinTimeout, Sweep, HostStep, Enable,
         StartActive, SettleOver, Elapse, Rise, Fall, vars
<1>. QED BY <1>2, <1>5, <1>6, <1>7, <1>8, <1>9 DEF Next

DownlinkInv == downlink \in Seq(Replies)

LEMMA DownlinkKeeps ==
  ASSUME HostInv, FirmwareInv, DownlinkInv, [Next]_vars PROVE DownlinkInv'
<1>1. PICK S : S = Replies
  OBVIOUS
<1>2. \A r \in Requests : \A kind \in {"ACK", "REJ"} : Answer(r, kind, None) \in S
  BY <1>1, RequestTypes DEF Answer, Replies
<1>3. mcu.stage = "triggered" => Answer(mcu.active, "FIN", mcu.latched) \in S
  <2>1. SUFFICES ASSUME mcu.stage = "triggered"
                 PROVE  Answer(mcu.active, "FIN", mcu.latched) \in S
    OBVIOUS
  <2>2. mcu.active \in Requests /\ mcu.latched \in Seqs \union {None}
    BY <2>1 DEF FirmwareInv, QueueInv, QueueOK, Firmware
  <2>3. mcu.active.seq \in Seqs
    BY <2>2, RequestTypes
  <2>. QED BY <1>1, <2>2, <2>3 DEF Answer, Replies
<1>4. downlink \in Seq(S)
  BY <1>1 DEF DownlinkInv
<1>5. downlink' \in Seq(S)
  BY <1>2, <1>3, <1>4, AnswersKept
<1>. QED BY <1>1, <1>5 DEF DownlinkInv

FaultsInv == faults \in 0..MaxFaults

LEMMA FaultsKeep == ASSUME FaultsInv, [Next]_vars PROVE FaultsInv'
<1>1. CASE Stop \/ LosePacket \/ Disable
  <2>1. faults < MaxFaults /\ faults' = faults + 1
    BY <1>1 DEF Stop, LosePacket, Disable
  <2>2. MaxFaults \in Nat /\ faults \in 0..MaxFaults
    BY DEF FaultsInv
  <2>3. faults' \in 0..MaxFaults
    BY ONLY <2>1, <2>2
  <2>. QED BY ONLY <2>3 DEF FaultsInv
<1>2. CASE UNCHANGED faults
  BY <1>2 DEF FaultsInv
<1>3. Start \/ Pump \/ Receive \/ Handle \/ Enable \/ StartActive \/ SettleOver \/ Tick
        \/ Elapse \/ (\E s \in Streams : Wake(s))
        \/ (\E r \in Requests : AckTimeout(r) \/ FinTimeout(r))
        \/ (\E q \in Seqs : Sweep(q)) \/ (\E c \in Cameras : Rise(c) \/ Fall(c))
        \/ UNCHANGED vars => UNCHANGED faults
  BY DEF Start, Pump, Receive, Handle, Wake, AckTimeout, FinTimeout, Sweep, HostStep,
         Enable, StartActive, SettleOver, Tick, Elapse, Rise, Fall, vars
<1>. QED BY <1>1, <1>2, <1>3 DEF Next

\* What is remembered of the request that was taken up and of the strobes.
LEMMA CloudsStay ==
  ASSUME [Next]_vars
  PROVE  clouded' = clouded
         \/ (Tick /\ mcu'.stage = "popped" /\ clouded' = Clouded(mcu'))
  BY DEF Next, vars, pastVars, Start, Stop, Pump, Receive, LosePacket, Handle, Disable,
         Enable, StartActive, SettleOver, Tick, Elapse, Wake, AckTimeout, FinTimeout, Sweep,
         Rise, Fall, HostStep

LEMMA HastyStays ==
  ASSUME [Next]_vars
  PROVE  /\ Tick => hasty' = IF mcu.elapsed = "" THEN hasty ELSE hasty \ ActiveCameras(mcu)
         /\ Disable => hasty' = hasty \ ActiveCameras(mcu)
         /\ \A c \in Cameras : Fall(c) =>
              hasty' = IF BeforePulseEnds THEN hasty \union ({c} \intersect ActiveCameras(mcu))
                       ELSE hasty
         /\ Tick \/ Disable \/ (\E c \in Cameras : Fall(c)) \/ hasty' = hasty
  BY DEF Next, vars, pastVars, Start, Stop, Pump, Receive, LosePacket, Handle, Disable,
         Enable, StartActive, SettleOver, Tick, Elapse, Wake, AckTimeout, FinTimeout, Sweep,
         Rise, Fall, HostStep

LEMMA PastStarts == Init => PastInv
  BY DEF Init, PastInv

LEMMA PastKeeps == ASSUME PastInv, [Next]_vars PROVE PastInv'
<1>1. clouded' \in BOOLEAN
  BY CloudsStay DEF PastInv, Clouded
<1>2. hasty' \subseteq Cameras
  BY HastyStays DEF PastInv
<1>. QED BY <1>1, <1>2 DEF PastInv

\* Every variable has its type, as the scheduler, the Device, the firmware and the
\* cameras go on, whatever is lost or turned off.
THEOREM Typing == Spec => []TypeOK
<1>1. Init => HostInv /\ FirmwareInv /\ PastInv /\ DownlinkInv /\ FaultsInv
  <2>1. SUFFICES ASSUME Init PROVE DownlinkInv /\ FaultsInv
    BY HostStarts, FirmwareStarts, PastStarts
  <2>2. downlink = <<>> /\ faults = 0
    BY <2>1 DEF Init
  <2>3. DownlinkInv
    BY ONLY <2>2 DEF DownlinkInv
  <2>. QED BY <2>2, <2>3 DEF FaultsInv
<1>2. HostInv /\ FirmwareInv /\ PastInv /\ DownlinkInv /\ FaultsInv /\ [Next]_vars
      => (HostInv /\ FirmwareInv /\ PastInv /\ DownlinkInv /\ FaultsInv)'
  BY HostKeeps, FirmwareKeeps, PastKeeps, DownlinkKeeps, FaultsKeep
<1>3. HostInv /\ FirmwareInv /\ PastInv /\ DownlinkInv /\ FaultsInv => TypeOK
  BY DEF HostInv, HostOK, FirmwareInv, CameraTypes, PastInv, DownlinkInv, FaultsInv, TypeOK
<1>. QED BY <1>1, <1>2, <1>3, PTL DEF Spec

\* A stream is flagged exactly while one request of it is queued or active, and
\* there is none while the controller is disabled.
THEOREM Flags == Spec => []FlagsAreThoseEngaged
<1>1. ASSUME FirmwareInv PROVE FlagsAreThoseEngaged
  <2>1. mcu \in Firmware /\ QueueOK(mcu)
    BY <1>1 DEF FirmwareInv, QueueInv
  <2>2. PICK q, a : q = mcu.queue /\ a = mcu.active
    OBVIOUS
  <2>3. PICK A : A = {a} \ {NoRequest}
    OBVIOUS
  <2>4. PICK E : E = Engaged
    OBVIOUS
  <2>5. E = {q[i] : i \in DOMAIN q} \union A
    BY ONLY <2>2, <2>3, <2>4 DEF Engaged, Range
  <2>6. /\ \A i, j \in DOMAIN q : q[i].stream = q[j].stream => i = j
        /\ \A i \in DOMAIN q : q[i].stream # a.stream
        /\ mcu.flagged = {q[i].stream : i \in DOMAIN q}
                           \union (IF a = NoRequest THEN {} ELSE {a.stream})
        /\ q # <<>> \/ a # NoRequest => mcu.on
        /\ q # <<>> <=> DOMAIN q # {}
        /\ DOMAIN q = 1..Len(q) /\ Len(q) \in Nat
    BY <2>1, <2>2, QueueTypes DEF QueueOK
  <2>7. PICK S : S = {r.stream : r \in E}
    OBVIOUS
  <2>8. mcu.flagged = S
    BY ONLY <2>3, <2>5, <2>6, <2>7
  <2>9. E # {} => mcu.on
    BY ONLY <2>3, <2>5, <2>6
  <2>10. \A r, t \in E : r.stream = t.stream => r = t
    BY ONLY <2>3, <2>5, <2>6
  <2>11. IsFiniteSet(E)
    <3>1. PICK n, Q : n = Len(q) /\ Q = {q[i] : i \in 1..n}
      OBVIOUS
    <3>2. PICK f : f = [i \in 1..n |-> q[i]]
      OBVIOUS
    <3>3. f \in Surjection(1..n, Q)
      BY ONLY <3>1, <3>2 DEF Surjection
    <3>4. IsFiniteSet(1..n)
      BY ONLY <2>6, <3>1, FS_Interval
    <3>5. IsFiniteSet(Q)
      BY ONLY <3>3, <3>4, FS_Surjection
    <3>6. IsFiniteSet(A)
      <4>1. A \subseteq {a} /\ IsFiniteSet({a})
        BY ONLY <2>3, FS_Singleton
      <4>. QED BY ONLY <4>1, FS_Subset
    <3>7. E = Q \union A
      BY ONLY <2>5, <2>6, <3>1
    <3>. QED BY ONLY <3>5, <3>6, <3>7, FS_Union
  <2>12. Cardinality(E) = Cardinality(S)
    <3>1. PICK f : f = [r \in E |-> r.stream]
      OBVIOUS
    <3>2. f \in Bijection(E, S)
      BY ONLY <2>7, <2>10, <3>1 DEF Bijection, Injection, Surjection, IsInjective
    <3>. QED BY ONLY <2>11, <3>2, FS_Bijection DEF ExistsBijection
  <2>. QED BY ONLY <2>4, <2>7, <2>8, <2>9, <2>12 DEF FlagsAreThoseEngaged
<1>2. Init => HostInv /\ FirmwareInv
  BY HostStarts, FirmwareStarts
<1>3. HostInv /\ FirmwareInv /\ [Next]_vars => (HostInv /\ FirmwareInv)'
  BY HostKeeps, FirmwareKeeps
<1>. QED BY <1>1, <1>2, <1>3, PTL DEF Spec

-----------------------------------------------------------------------------
(* The cameras of a request that no earlier strobe reaches.                 *)

LEMMA CaptureStarts == Init => CaptureInv
<1>1. SUFFICES ASSUME Init PROVE CaptureInv
  OBVIOUS
<1>2. mcu.stage = "idle" /\ mcu.high = {}
  BY <1>1 DEF Init
<1>. QED BY ONLY <1>2 DEF CaptureInv, RestBefore, OwnExposure, HighIsExposing

LEMMA SameCapture ==
  ASSUME CaptureInv, UNCHANGED cameraVars, clouded' = clouded,
         mcu'.stage = mcu.stage, mcu'.active = mcu.active,
         mcu'.latched = mcu.latched, mcu'.high = mcu.high,
         mcu'.risen = mcu.risen, mcu'.awaiting = mcu.awaiting
  PROVE  CaptureInv'
<1>1. ActiveCameras(mcu') = ActiveCameras(mcu)
  BY DEF ActiveCameras
<1>2. UNCHANGED <<armed, exposing, taken>>
  BY DEF cameraVars
<1>3. RestBefore'
  BY <1>1, <1>2 DEF CaptureInv, RestBefore
<1>4. OwnExposure'
  BY <1>1, <1>2 DEF CaptureInv, OwnExposure
<1>5. HighIsExposing'
  BY <1>2 DEF CaptureInv, HighIsExposing
<1>. QED BY <1>3, <1>4, <1>5 DEF CaptureInv

\* The trigger of a request finds its cameras free, unless it is clouded.
LEMMA CaptureBegins ==
  ASSUME FirmwareInv', CaptureInv, clouded' = clouded, mcu'.stage = "triggered",
         UNCHANGED exposing, taken' = {}, mcu'.high \subseteq mcu.high,
         ~ clouded => /\ mcu'.latched = None
                      /\ mcu'.risen \intersect ActiveCameras(mcu') = {}
                      /\ mcu'.awaiting = ActiveCameras(mcu')
                      /\ \A c \in ActiveCameras(mcu') : armed[c] = None /\ exposing[c] = None,
         \A c \in Cameras : armed'[c] = armed[c]
           \/ (armed'[c] = mcu'.active.seq /\ c \in ActiveCameras(mcu'))
  PROVE  CaptureInv'
<1>1. HighIsExposing'
  BY DEF CaptureInv, HighIsExposing
<1>2. RestBefore'
  BY DEF RestBefore
<1>3. ASSUME ~ clouded PROVE OwnExposure'
  <2>1. PICK A, q, r : A = ActiveCameras(mcu') /\ q = mcu'.active.seq /\ r = mcu'.risen
    OBVIOUS
  <2>2. A \subseteq Cameras
    BY <2>1, ActiveTypes DEF FirmwareInv
  <2>3. \A c \in A : /\ exposing'[c] = None /\ armed'[c] \in {None, q}
                     /\ c \notin r /\ c \notin mcu'.high
    BY <1>1, <1>3, <2>1, <2>2 DEF HighIsExposing
  <2>4. mcu'.latched = None /\ mcu'.awaiting = A /\ taken' = {} /\ r \intersect A = {}
    BY <1>3, <2>1
  <2>. QED BY ONLY <2>1, <2>3, <2>4 DEF OwnExposure
<1>4. ASSUME clouded PROVE OwnExposure'
  BY <1>4 DEF OwnExposure
<1>. QED BY <1>1, <1>2, <1>3, <1>4 DEF CaptureInv

\* startNext() takes up a request, or there is none.
LEMMA CaptureWaits ==
  ASSUME CaptureInv, UNCHANGED <<armed, exposing>>, mcu'.high = mcu.high,
         mcu'.stage \in {"idle", "popped"},
         mcu'.stage = "popped" => mcu'.latched = None /\ clouded' = Clouded(mcu'),
         FirmwareInv'
  PROVE  CaptureInv'
<1>1. HighIsExposing'
  BY DEF CaptureInv, HighIsExposing
<1>2. ActiveCameras(mcu') \subseteq Cameras /\ mcu'.awaiting \subseteq Cameras
  BY ActiveTypes DEF FirmwareInv, Firmware
<1>3. RestBefore'
  BY <1>2 DEF RestBefore, Clouded
<1>4. OwnExposure'
  BY DEF OwnExposure
<1>. QED BY <1>1, <1>3, <1>4 DEF CaptureInv

\* What a strobe that rises adds to the capture.
LEMMA CaptureRises ==
  ASSUME FirmwareInv, CaptureInv, NEW c \in Cameras, Rise(c), clouded' = clouded
  PROVE  CaptureInv'
<1>1. /\ FirmwareInv' /\ OnlyStrobes /\ armed[c] # None /\ UNCHANGED taken
      /\ armed' = [armed EXCEPT ![c] = None]
      /\ exposing' = [exposing EXCEPT ![c] = armed[c]]
      /\ mcu'.high = mcu.high \union {c} /\ mcu'.risen = mcu.risen \union {c}
      /\ mcu'.latched = IF mcu.latched = None /\ c \in mcu.awaiting
                          THEN armed[c] ELSE mcu.latched
  BY RiseKeeps
<1>2. /\ armed'[c] = None /\ exposing'[c] = armed[c]
      /\ \A d \in Cameras \ {c} : armed'[d] = armed[d] /\ exposing'[d] = exposing[d]
  BY <1>1 DEF FirmwareInv, CameraTypes
<1>3. PICK A, q, r, h, w : /\ A = ActiveCameras(mcu) /\ q = mcu.active.seq
                           /\ r = mcu.risen /\ h = mcu.high /\ w = mcu.awaiting
  OBVIOUS
<1>4. /\ A \subseteq Cameras /\ w \subseteq Cameras /\ h \subseteq Cameras
      /\ mcu'.stage = mcu.stage /\ mcu'.active.seq = q /\ ActiveCameras(mcu') = A
      /\ mcu'.awaiting = w /\ mcu'.risen = r \union {c} /\ mcu'.high = h \union {c}
  BY <1>1, <1>3, ActiveTypes DEF FirmwareInv, Firmware, OnlyStrobes
<1>5. HighIsExposing'
  BY <1>1, <1>2, <1>3, <1>4 DEF CaptureInv, HighIsExposing
<1>6. RestBefore'
  <2>1. SUFFICES ASSUME mcu.stage \in {"popped", "settling"}, ~ clouded
                 PROVE  RestBefore'
    BY <1>4 DEF RestBefore
  <2>2. /\ mcu.latched = None /\ \A d \in A : armed[d] = None /\ exposing[d] = None
        /\ mcu.stage = "popped" => \A d \in w : armed[d] = None
        /\ mcu.stage = "settling" => r \intersect A = {} /\ w = A
    BY <1>3, <2>1 DEF CaptureInv, RestBefore
  <2>3. c \notin A /\ c \notin w
    BY <1>1, <2>1, <2>2
  <2>4. mcu'.latched = None
    BY <1>1, <1>3, <2>2, <2>3
  <2>5. \A d \in A : armed'[d] = None /\ exposing'[d] = None
    BY <1>2, <1>4, <2>2, <2>3
  <2>6. mcu.stage = "popped" => \A d \in w : armed'[d] = None
    BY <1>2, <1>4, <2>2, <2>3
  <2>. QED BY ONLY <1>4, <2>2, <2>3, <2>4, <2>5, <2>6 DEF RestBefore
<1>7. OwnExposure'
  <2>1. SUFFICES ASSUME mcu.stage = "triggered", ~ clouded PROVE OwnExposure'
    BY <1>4 DEF OwnExposure
  <2>2. /\ w = A /\ taken \subseteq A
        /\ \A d \in A :
             /\ armed[d] \in {None, q} /\ exposing[d] \in {None, q}
             /\ armed[d] # None => d \notin r
             /\ exposing[d] # None => d \in r \ taken
             /\ d \in h <=> exposing[d] # None
        /\ r \intersect A = taken \union {d \in A : exposing[d] # None}
        /\ mcu.latched \in {None, q}
        /\ mcu.latched = None <=> r \intersect A = {}
    BY <1>3, <2>1 DEF CaptureInv, OwnExposure
  <2>3. CASE c \in A
    <3>1. armed[c] = q /\ q # None /\ c \notin r /\ c \notin taken
      BY <1>1, <2>2, <2>3
    <3>2. \A d \in A :
            /\ armed'[d] \in {None, q} /\ exposing'[d] \in {None, q}
            /\ armed'[d] # None => d \notin r \union {c}
            /\ exposing'[d] # None => d \in (r \union {c}) \ taken
            /\ d \in h \union {c} <=> exposing'[d] # None
      BY ONLY <1>2, <1>4, <2>2, <3>1
    <3>3. (r \union {c}) \intersect A = taken \union {d \in A : exposing'[d] # None}
      BY ONLY <1>2, <1>4, <2>2, <2>3, <3>1
    <3>4. mcu'.latched = q /\ (r \union {c}) \intersect A # {}
      BY ONLY <1>1, <1>3, <2>2, <2>3, <3>1
    <3>5. UNCHANGED taken
      BY <1>1
    <3>. QED BY ONLY <1>4, <2>2, <3>1, <3>2, <3>3, <3>4, <3>5 DEF OwnExposure
  <2>4. CASE c \notin A
    <3>1. \A d \in A : armed'[d] = armed[d] /\ exposing'[d] = exposing[d]
      BY <1>2, <1>4, <2>4
    <3>2. mcu'.latched = mcu.latched /\ (r \union {c}) \intersect A = r \intersect A
      BY <1>1, <1>3, <2>2, <2>4
    <3>3. {d \in A : exposing'[d] # None} = {d \in A : exposing[d] # None}
      BY <3>1
    <3>4. \A d \in A :
            /\ armed'[d] \in {None, q} /\ exposing'[d] \in {None, q}
            /\ armed'[d] # None => d \notin r \union {c}
            /\ exposing'[d] # None => d \in (r \union {c}) \ taken
            /\ d \in h \union {c} <=> exposing'[d] # None
      BY ONLY <2>2, <2>4, <3>1
    <3>5. UNCHANGED taken
      BY <1>1
    <3>. QED BY ONLY <1>4, <2>2, <3>2, <3>3, <3>4, <3>5 DEF OwnExposure
  <2>. QED BY <2>3, <2>4
<1>. QED BY <1>5, <1>6, <1>7 DEF CaptureInv

\* And one that falls.
LEMMA CaptureFalls ==
  ASSUME FirmwareInv, CaptureInv, NEW c \in Cameras, Fall(c), clouded' = clouded
  PROVE  CaptureInv'
<1>1. /\ FirmwareInv' /\ OnlyStrobes /\ exposing[c] # None /\ UNCHANGED armed
      /\ exposing' = [exposing EXCEPT ![c] = None]
      /\ mcu'.high = mcu.high \ {c} /\ mcu'.risen = mcu.risen
      /\ mcu'.latched = mcu.latched
      /\ taken' = IF exposing[c] = mcu.active.seq
                    THEN taken \union ({c} \intersect ActiveCameras(mcu)) ELSE taken
  BY FallKeeps
<1>2. /\ exposing'[c] = None
      /\ \A d \in Cameras \ {c} : exposing'[d] = exposing[d]
  BY <1>1 DEF FirmwareInv, CameraTypes
<1>3. PICK A, q, r, h, w : /\ A = ActiveCameras(mcu) /\ q = mcu.active.seq
                           /\ r = mcu.risen /\ h = mcu.high /\ w = mcu.awaiting
  OBVIOUS
<1>4. /\ A \subseteq Cameras /\ h \subseteq Cameras
      /\ mcu'.stage = mcu.stage /\ mcu'.active.seq = q /\ ActiveCameras(mcu') = A
      /\ mcu'.awaiting = w /\ mcu'.risen = r /\ mcu'.high = h \ {c}
      /\ mcu'.latched = mcu.latched
  BY <1>1, <1>3, ActiveTypes DEF FirmwareInv, Firmware, OnlyStrobes
<1>5. HighIsExposing'
  BY <1>1, <1>2, <1>3, <1>4 DEF CaptureInv, HighIsExposing
<1>6. RestBefore'
  <2>1. SUFFICES ASSUME mcu.stage \in {"popped", "settling"}, ~ clouded
                 PROVE  RestBefore'
    BY <1>4 DEF RestBefore
  <2>2. /\ mcu.latched = None /\ \A d \in A : armed[d] = None /\ exposing[d] = None
        /\ mcu.stage = "popped" => \A d \in w : armed[d] = None
        /\ mcu.stage = "settling" => r \intersect A = {} /\ w = A
    BY <1>3, <2>1 DEF CaptureInv, RestBefore
  <2>3. \A d \in A : armed'[d] = None /\ exposing'[d] = None
    BY <1>1, <1>2, <1>4, <2>2
  <2>4. mcu.stage = "popped" => \A d \in w : armed'[d] = None
    BY <1>1, <2>2
  <2>. QED BY ONLY <1>4, <2>2, <2>3, <2>4 DEF RestBefore
<1>7. OwnExposure'
  <2>1. SUFFICES ASSUME mcu.stage = "triggered", ~ clouded PROVE OwnExposure'
    BY <1>4 DEF OwnExposure
  <2>2. /\ w = A /\ taken \subseteq A
        /\ \A d \in A :
             /\ armed[d] \in {None, q} /\ exposing[d] \in {None, q}
             /\ armed[d] # None => d \notin r
             /\ exposing[d] # None => d \in r \ taken
             /\ d \in h <=> exposing[d] # None
        /\ r \intersect A = taken \union {d \in A : exposing[d] # None}
        /\ mcu.latched \in {None, q}
        /\ mcu.latched = None <=> r \intersect A = {}
    BY <1>3, <2>1 DEF CaptureInv, OwnExposure
  <2>3. PICK t : t = taken
    OBVIOUS
  <2>4. UNCHANGED armed
    BY <1>1
  <2>5. CASE c \in A
    <3>1. exposing[c] = q /\ c \in r
      BY <1>1, <2>2, <2>5
    <3>2. taken' = t \union {c}
      BY <1>1, <1>3, <2>3, <2>5, <3>1
    <3>3. \A d \in A :
            /\ armed'[d] \in {None, q} /\ exposing'[d] \in {None, q}
            /\ armed'[d] # None => d \notin r
            /\ exposing'[d] # None => d \in r \ (t \union {c})
            /\ d \in h \ {c} <=> exposing'[d] # None
      BY ONLY <1>2, <1>4, <2>2, <2>3, <2>4
    <3>4. r \intersect A = (t \union {c}) \union {d \in A : exposing'[d] # None}
      BY ONLY <1>2, <1>4, <2>2, <2>3, <2>5, <3>1
    <3>5. t \union {c} \subseteq A
      BY <2>2, <2>3, <2>5
    <3>. QED BY ONLY <1>4, <2>2, <3>2, <3>3, <3>4, <3>5 DEF OwnExposure
  <2>6. CASE c \notin A
    <3>1. taken' = t
      BY <1>1, <1>3, <2>3, <2>6
    <3>2. \A d \in A : exposing'[d] = exposing[d]
      BY <1>2, <1>4, <2>6
    <3>3. \A d \in A :
            /\ armed'[d] \in {None, q} /\ exposing'[d] \in {None, q}
            /\ armed'[d] # None => d \notin r
            /\ exposing'[d] # None => d \in r \ t
            /\ d \in h \ {c} <=> exposing'[d] # None
      BY ONLY <2>2, <2>3, <2>4, <2>6, <3>2
    <3>4. r \intersect A = t \union {d \in A : exposing'[d] # None}
      BY ONLY <2>2, <2>3, <3>2
    <3>5. t \subseteq A
      BY <2>2, <2>3
    <3>. QED BY ONLY <1>4, <2>2, <3>1, <3>3, <3>4, <3>5 DEF OwnExposure
  <2>. QED BY <2>5, <2>6
<1>. QED BY <1>5, <1>6, <1>7 DEF CaptureInv

LEMMA CaptureKeeps ==
  ASSUME HostInv, FirmwareInv, CaptureInv, [Next]_vars
  PROVE  CaptureInv'
<1>1. FirmwareInv'
  BY FirmwareKeeps
<1>2. clouded' = clouded \/ (Tick /\ mcu'.stage = "popped" /\ clouded' = Clouded(mcu'))
  BY CloudsStay
<1>3. CASE UNCHANGED <<mcu, armed, exposing, taken>>
  <2>1. ~ Tick
    BY <1>3 DEF Tick
  <2>. QED BY <1>2, <1>3, <2>1, SameCapture DEF cameraVars
<1>4. CASE Handle
  <2>1. clouded' = clouded
    BY <1>4 DEF Handle, pastVars
  <2>. QED BY <1>4, <2>1, HandleKeeps, SameCapture
<1>5. CASE StartActive
  <2>1. /\ mcu.stage = "popped" /\ mcu'.active = mcu.active
        /\ mcu'.latched = mcu.latched
        /\ mcu'.high = mcu.high \ ActiveCameras(mcu)
        /\ mcu'.risen = mcu.risen \ ActiveCameras(mcu)
        /\ mcu'.awaiting = ActiveCameras(mcu)
        /\ ActiveCameras(mcu') = ActiveCameras(mcu)
        /\ UNCHANGED exposing
        /\ \/ mcu'.stage = "settling" /\ UNCHANGED <<armed, taken>>
           \/ /\ mcu'.stage = "triggered" /\ taken' = {}
              /\ \A c \in Cameras : armed'[c] = armed[c]
                   \/ (armed'[c] = mcu.active.seq /\ c \in ActiveCameras(mcu))
    BY <1>5, StartActiveKeeps
  <2>2. clouded' = clouded
    BY <1>5 DEF StartActive, pastVars
  <2>3. ~ clouded => /\ mcu.latched = None
                     /\ \A c \in ActiveCameras(mcu) : armed[c] = None /\ exposing[c] = None
    BY <2>1 DEF CaptureInv, RestBefore
  <2>4. CASE mcu'.stage = "settling" /\ UNCHANGED <<armed, taken>>
    <3>1. HighIsExposing'
      BY <2>1 DEF CaptureInv, HighIsExposing
    <3>2. RestBefore'
      BY <2>1, <2>2, <2>3, <2>4 DEF RestBefore
    <3>3. OwnExposure'
      BY <2>4 DEF OwnExposure
    <3>. QED BY <3>1, <3>2, <3>3 DEF CaptureInv
  <2>5. CASE /\ mcu'.stage = "triggered" /\ taken' = {}
             /\ \A c \in Cameras : armed'[c] = armed[c]
                  \/ (armed'[c] = mcu.active.seq /\ c \in ActiveCameras(mcu))
    BY <1>1, <2>1, <2>2, <2>3, <2>5, CaptureBegins
  <2>. QED BY <2>1, <2>4, <2>5
<1>6. CASE SettleOver
  <2>1. /\ mcu.stage = "settling"
        /\ mcu'.active = mcu.active /\ mcu'.stage = "triggered"
        /\ mcu'.latched = mcu.latched /\ mcu'.high = mcu.high
        /\ mcu'.risen = mcu.risen /\ mcu'.awaiting = mcu.awaiting
        /\ ActiveCameras(mcu') = ActiveCameras(mcu)
        /\ UNCHANGED exposing /\ taken' = {}
        /\ \A c \in Cameras : armed'[c] = armed[c]
             \/ (armed'[c] = mcu.active.seq /\ c \in ActiveCameras(mcu))
    BY <1>6, SettleOverKeeps
  <2>2. clouded' = clouded
    BY <1>6 DEF SettleOver, pastVars
  <2>3. ~ clouded => /\ mcu.latched = None
                     /\ mcu.risen \intersect ActiveCameras(mcu) = {}
                     /\ mcu.awaiting = ActiveCameras(mcu)
                     /\ \A c \in ActiveCameras(mcu) : armed[c] = None /\ exposing[c] = None
    BY <2>1 DEF CaptureInv, RestBefore
  <2>. QED BY <1>1, <2>1, <2>2, <2>3, CaptureBegins
<1>7. CASE Tick
  <2>1. /\ UNCHANGED cameraVars
        /\ mcu'.high = mcu.high /\ mcu'.risen = mcu.risen /\ mcu'.awaiting = mcu.awaiting
        /\ TickPops \/ TickLowers \/ TickEnds
    BY <1>7, TickKeeps
  <2>2. clouded' = IF mcu'.stage = "popped" THEN Clouded(mcu') ELSE clouded
    BY <1>7 DEF Tick
  <2>3. CASE TickPops \/ TickEnds
    <3>1. /\ mcu'.stage \in {"idle", "popped"}
          /\ mcu'.stage = "popped" => mcu'.latched = None
      BY <2>3 DEF TickPops, TickEnds
    <3>. QED BY <1>1, <2>1, <2>2, <3>1, CaptureWaits DEF cameraVars
  <2>4. CASE TickLowers
    <3>1. clouded' = clouded
      BY <2>2, <2>4 DEF TickLowers
    <3>. QED BY <2>1, <2>4, <3>1, SameCapture DEF TickLowers
  <2>. QED BY <2>1, <2>3, <2>4
<1>8. CASE Disable \/ Enable
  <2>1. /\ UNCHANGED <<armed, exposing>> /\ mcu'.stage = "idle" /\ mcu'.high = mcu.high
    BY <1>8, DisableKeeps, EnableKeeps DEF cameraVars
  <2>. QED BY <1>1, <2>1, CaptureWaits
<1>9. CASE Elapse
  <2>1. /\ UNCHANGED cameraVars /\ mcu.stage = "triggered"
        /\ mcu'.stage = "triggered" /\ mcu'.active = mcu.active
        /\ mcu'.latched = mcu.latched /\ mcu'.high = mcu.high
        /\ mcu'.risen = mcu.risen /\ mcu'.awaiting = mcu.awaiting
    BY <1>9, ElapseKeeps
  <2>2. clouded' = clouded
    BY <1>9 DEF Elapse, pastVars
  <2>. QED BY <2>1, <2>2, SameCapture
<1>10. CASE \E c \in Cameras : Rise(c) \/ Fall(c)
  <2>1. clouded' = clouded
    BY <1>10 DEF Rise, Fall, pastVars
  <2>. QED BY <1>10, <2>1, CaptureRises, CaptureFalls
<1>. QED BY <1>3, <1>4, <1>5, <1>6, <1>7, <1>8, <1>9, <1>10, OthersKeepFirmware DEF Next

CoreInv == HostInv /\ FirmwareInv /\ CaptureInv

LEMMA CoreStarts == Init => CoreInv
  BY HostStarts, FirmwareStarts, CaptureStarts DEF CoreInv

LEMMA CoreKeeps == ASSUME CoreInv, [Next]_vars PROVE CoreInv'
  BY HostKeeps, FirmwareKeeps, CaptureKeeps DEF CoreInv

\* What has been taken when a verdict is given.
LEMMA OverIsTaken ==
  ASSUME CoreInv, mcu.stage = "triggered", ~ clouded
  PROVE  /\ ExposureOver(mcu)
              <=> taken = ActiveCameras(mcu) /\ mcu.risen \subseteq ActiveCameras(mcu)
         /\ ExposureOver(mcu) => mcu.latched = mcu.active.seq
<1>1. PICK A, r, h : A = ActiveCameras(mcu) /\ r = mcu.risen /\ h = mcu.high
  OBVIOUS
<1>2. /\ mcu.awaiting = A /\ taken \subseteq A
      /\ \A c \in A : /\ exposing[c] # None => c \in r \ taken
                      /\ c \in h <=> exposing[c] # None
      /\ r \intersect A = taken \union {c \in A : exposing[c] # None}
      /\ mcu.latched \in {None, mcu.active.seq}
      /\ mcu.latched = None <=> r \intersect A = {}
  BY <1>1 DEF CoreInv, CaptureInv, OwnExposure
<1>3. A # {}
  <2>1. mcu \in Firmware /\ mcu.active # NoRequest
    BY DEF CoreInv, FirmwareInv, QueueInv, QueueOK
  <2>. QED BY <1>1, <2>1, ActiveTypes
<1>4. ExposureOver(mcu) <=> mcu.latched # None /\ r = A /\ h \intersect A = {}
  BY <1>1, <1>2 DEF ExposureOver
<1>5. ASSUME mcu.latched # None, r = A, h \intersect A = {}
      PROVE  taken = A /\ r \subseteq A /\ mcu.latched = mcu.active.seq
  BY ONLY <1>2, <1>5
<1>6. ASSUME taken = A, r \subseteq A
      PROVE  mcu.latched # None /\ r = A /\ h \intersect A = {}
  BY ONLY <1>2, <1>3, <1>6
<1>. QED BY ONLY <1>1, <1>4, <1>5, <1>6

\* A FIN tells of the exposure its own request has triggered, however requests
\* follow on each other, whatever cameras they have and however late strobes are,
\* unless an earlier strobe of its cameras was to come when it was taken up.
THEOREM OwnFin == Spec => FinIsItsOwn
<1>1. Init => CoreInv /\ DownlinkInv
  <2>1. SUFFICES ASSUME Init PROVE DownlinkInv
    BY CoreStarts
  <2>2. downlink = <<>>
    BY <2>1 DEF Init
  <2>. QED BY ONLY <2>2 DEF DownlinkInv
<1>2. CoreInv /\ DownlinkInv /\ [Next]_vars => (CoreInv /\ DownlinkInv)'
  BY CoreKeeps, DownlinkKeeps DEF CoreInv
<1>3. ASSUME CoreInv, DownlinkInv, [Next]_vars,
             NEW reply \in Range(downlink') \ Range(downlink), reply.kind = "FIN", ~ clouded
      PROVE  reply.exposure = reply.seq
  <2>1. PICK d : d = downlink
    OBVIOUS
  <2>2. PICK S : S = {y \in Replies : y \in Range(d) \/ (y.kind = "FIN" => y.exposure = y.seq)}
    OBVIOUS
  <2>3. d \in Seq(S)
    <3>1. PICK T : T = Replies
      OBVIOUS
    <3>2. d \in Seq(T)
      BY <1>3, <2>1, <3>1 DEF DownlinkInv
    <3>3. \A k \in DOMAIN d : d[k] \in T /\ d[k] \in Range(d)
      BY ONLY <3>2 DEF Range
    <3>4. \A k \in DOMAIN d : d[k] \in S
      BY ONLY <2>2, <3>1, <3>3
    <3>. QED BY ONLY <3>2, <3>4
  <2>4. \A r \in Requests : \A kind \in {"ACK", "REJ"} : Answer(r, kind, None) \in S
    BY <2>2, RequestTypes DEF Answer, Replies
  <2>5. ASSUME mcu.stage = "triggered", ExposureOver(mcu)
        PROVE  Answer(mcu.active, "FIN", mcu.latched) \in S
    <3>1. mcu.latched = mcu.active.seq
      BY <1>3, <2>5, OverIsTaken
    <3>2. mcu.active \in Requests
      BY <1>3, <2>5 DEF CoreInv, FirmwareInv, QueueInv, QueueOK, Firmware
    <3>3. mcu.active.seq \in Seqs
      BY <3>2, RequestTypes
    <3>. QED BY <2>2, <3>1, <3>3 DEF Answer, Replies
  <2>6. downlink \in Seq(S) /\ HostInv /\ FirmwareInv
    BY <1>3, <2>1, <2>3 DEF CoreInv
  <2>7. downlink' \in Seq(S)
    BY <1>3, <2>4, <2>5, <2>6, AnswersKept
  <2>8. PICK e : e = downlink'
    OBVIOUS
  <2>9. PICK k \in DOMAIN e : reply = e[k]
    BY <1>3, <2>8 DEF Range
  <2>10. e[k] \in S
    BY ONLY <2>7, <2>8, <2>9
  <2>. QED BY <1>3, <2>1, <2>2, <2>9, <2>10
<1>4. CoreInv /\ DownlinkInv /\ [Next]_vars
      => [\A reply \in Range(downlink') \ Range(downlink) :
            reply.kind = "FIN" /\ ~ clouded => reply.exposure = reply.seq]_vars
  BY <1>3
<1>. QED BY <1>1, <1>2, <1>4, PTL DEF Spec, FinIsItsOwn

\* A request that no earlier strobe reaches is answered by what happened: FIN as
\* soon as all of its cameras have exposed for it, and never before, unless the bit
\* of another camera is left in risenMask.
THEOREM Verdicts == Spec => []VerdictIsRight
<1>1. CoreInv => VerdictIsRight
  BY OverIsTaken DEF VerdictIsRight
<1>2. CoreInv /\ [Next]_vars => CoreInv'
  BY CoreKeeps
<1>. QED BY <1>1, <1>2, CoreStarts, PTL DEF Spec

-----------------------------------------------------------------------------
(* The trigger lines.                                                       *)

LEMMA LinesStart == Init => LineInv
<1>1. SUFFICES ASSUME Init PROVE LineInv
  OBVIOUS
<1>2. mcu.stage = "idle" /\ mcu.lines = {}
  BY <1>1 DEF Init
<1>. QED BY ONLY <1>2 DEF LineInv, RisenBeforePulse, BeforePulseEnds, LinesRest

LEMMA LinesKeep ==
  ASSUME HostInv, FirmwareInv, LineInv, [Next]_vars
  PROVE  LineInv'
<1>1. mcu \in Firmware /\ QueueOK(mcu) /\ FirmwareInv'
  BY FirmwareKeeps DEF FirmwareInv, QueueInv
<1>2. PICK A : A = ActiveCameras(mcu)
  OBVIOUS
<1>3. ASSUME mcu'.stage = mcu.stage, mcu'.active = mcu.active,
             mcu'.elapsed = mcu.elapsed \/ mcu'.elapsed # "",
             mcu.stage \in {"popped", "settling"} => mcu'.elapsed = mcu.elapsed,
             mcu'.dropped = mcu.dropped, mcu'.lines = mcu.lines,
             mcu'.awaiting = mcu.awaiting, hasty \subseteq hasty',
             BeforePulseEnds /\ mcu'.elapsed = "" =>
               \A c \in A : c \in mcu'.risen /\ c \notin mcu'.high /\ c \notin hasty'
                              => c \in mcu.risen /\ c \notin mcu.high
      PROVE  LineInv'
  <2>1. ActiveCameras(mcu') = A
    BY <1>2, <1>3 DEF ActiveCameras
  <2>2. LinesRest'
    BY <1>2, <1>3, <2>1 DEF LineInv, LinesRest
  <2>3. (mcu.stage = "triggered" /\ mcu.dropped => mcu.lines \intersect A = {})
    BY <1>2 DEF LineInv
  <2>4. RisenBeforePulse'
    <3>1. ASSUME BeforePulseEnds'
          PROVE  mcu'.awaiting = A /\ mcu'.risen \intersect A \subseteq mcu'.high \union hasty'
      <4>1. BeforePulseEnds /\ mcu'.elapsed = ""
        BY <1>3, <3>1 DEF BeforePulseEnds
      <4>2. mcu.awaiting = A /\ mcu.risen \intersect A \subseteq mcu.high \union hasty
        BY <1>2, <4>1 DEF LineInv, RisenBeforePulse
      <4>. QED BY <1>3, <4>1, <4>2
    <3>2. mcu'.stage \in {"popped", "settling"} => mcu'.elapsed = ""
      BY <1>3 DEF LineInv, RisenBeforePulse
    <3>3. mcu'.stage \in {"popped", "settling", "triggered"} /\ mcu'.elapsed = ""
            => ~ mcu'.dropped
      BY <1>3 DEF LineInv, RisenBeforePulse
    <3>. QED BY ONLY <2>1, <3>1, <3>2, <3>3 DEF RisenBeforePulse
  <2>. QED BY ONLY <1>3, <2>1, <2>2, <2>3, <2>4 DEF LineInv
<1>4. ASSUME mcu'.stage \in {"idle", "popped"},
             mcu'.stage = "popped" => mcu'.elapsed = "" /\ ~ mcu'.dropped,
             mcu'.lines \subseteq hasty'
      PROVE  LineInv'
  BY <1>4 DEF LineInv, RisenBeforePulse, BeforePulseEnds, LinesRest
<1>5. ASSUME mcu.stage \in {"popped", "settling"}, mcu'.stage \in {"settling", "triggered"},
             ActiveCameras(mcu') = A, mcu'.dropped = mcu.dropped,
             mcu'.elapsed = mcu.elapsed, hasty' = hasty,
             mcu'.lines \subseteq IF mcu'.stage = "settling" THEN mcu.lines
                                  ELSE mcu.lines \union A,
             mcu'.awaiting = A, mcu'.risen \intersect A \subseteq mcu'.high \union hasty'
      PROVE  LineInv'
  <2>1. mcu.elapsed = "" /\ ~ mcu.dropped /\ mcu.lines \subseteq hasty
    BY <1>5 DEF LineInv, RisenBeforePulse, LinesRest
  <2>2. RisenBeforePulse'
    BY <1>5, <2>1 DEF RisenBeforePulse, BeforePulseEnds
  <2>3. LinesRest'
    BY <1>5, <2>1 DEF LinesRest
  <2>. QED BY <1>5, <2>1, <2>2, <2>3 DEF LineInv
<1>6. CASE UNCHANGED <<mcu, armed, exposing, taken>>
  <2>1. ~ Tick /\ ~ Disable /\ \A c \in Cameras : ~ Fall(c)
    <3>1. ~ Tick
      BY <1>6 DEF Tick
    <3>2. ~ Disable
      BY <1>6, DisableKeeps
    <3>3. ASSUME NEW c \in Cameras, Fall(c) PROVE FALSE
      <4>1. exposing[c] # None /\ exposing' = [exposing EXCEPT ![c] = None]
        BY <3>3, FallKeeps
      <4>2. exposing'[c] = None
        BY <4>1 DEF FirmwareInv, CameraTypes
      <4>. QED BY <1>6, <4>1, <4>2
    <3>. QED BY <3>1, <3>2, <3>3
  <2>2. hasty' = hasty
    BY <2>1, HastyStays
  <2>. QED BY <1>3, <1>6, <2>2
<1>7. CASE Handle
  <2>1. hasty' = hasty
    BY <1>7 DEF Handle, pastVars
  <2>2. /\ mcu'.active = mcu.active /\ mcu'.stage = mcu.stage
        /\ mcu'.lines = mcu.lines /\ mcu'.dropped = mcu.dropped
        /\ mcu'.elapsed = mcu.elapsed
        /\ mcu'.high = mcu.high /\ mcu'.risen = mcu.risen /\ mcu'.awaiting = mcu.awaiting
    BY <1>7, HandleKeeps
  <2>. QED BY <1>3, <2>1, <2>2
<1>8. CASE StartActive
  <2>1. /\ mcu.stage = "popped" /\ mcu'.dropped = mcu.dropped
        /\ mcu'.elapsed = mcu.elapsed
        /\ mcu'.risen = mcu.risen \ ActiveCameras(mcu)
        /\ mcu'.awaiting = ActiveCameras(mcu)
        /\ ActiveCameras(mcu') = ActiveCameras(mcu)
        /\ \/ mcu'.stage = "settling" /\ mcu'.lines = mcu.lines
           \/ mcu'.stage = "triggered" /\ mcu'.lines = mcu.lines \union ActiveCameras(mcu)
    BY <1>8, StartActiveKeeps
  <2>2. hasty' = hasty
    BY <1>8 DEF StartActive, pastVars
  <2>. QED BY <1>2, <1>5, <2>1, <2>2
<1>9. CASE SettleOver
  <2>1. /\ mcu.stage = "settling" /\ mcu'.dropped = mcu.dropped
        /\ mcu'.elapsed = mcu.elapsed
        /\ mcu'.high = mcu.high /\ mcu'.risen = mcu.risen /\ mcu'.awaiting = mcu.awaiting
        /\ ActiveCameras(mcu') = ActiveCameras(mcu) /\ mcu'.stage = "triggered"
        /\ mcu'.lines = mcu.lines \union ActiveCameras(mcu)
    BY <1>9, SettleOverKeeps
  <2>2. hasty' = hasty
    BY <1>9 DEF SettleOver, pastVars
  <2>3. mcu.awaiting = A /\ mcu.risen \intersect A \subseteq mcu.high \union hasty
    BY <1>2, <2>1 DEF LineInv, RisenBeforePulse, BeforePulseEnds
  <2>. QED BY <1>2, <1>5, <2>1, <2>2, <2>3
<1>10. CASE Tick
  <2>1. TickPops \/ TickLowers \/ TickEnds
    BY <1>10, TickKeeps
  <2>2. hasty' = IF mcu.elapsed = "" THEN hasty ELSE hasty \ A
    BY <1>2, <1>10, HastyStays
  <2>3. CASE TickPops
    <3>1. A = {}
      BY <1>1, <1>2, <2>3 DEF TickPops, QueueOK, ActiveCameras
    <3>2. mcu.lines \subseteq hasty
      BY <2>3 DEF TickPops, LineInv, LinesRest
    <3>. QED BY <1>4, <2>2, <2>3, <3>1, <3>2 DEF TickPops
  <2>4. CASE TickLowers
    <3>1. /\ mcu'.stage = "triggered" /\ mcu'.elapsed # "" /\ mcu'.dropped
          /\ ActiveCameras(mcu') = A /\ mcu'.lines = mcu.lines \ A /\ hasty' = hasty \ A
      BY <1>2, <2>2, <2>4 DEF TickLowers
    <3>2. mcu.lines \ A \subseteq hasty
      BY <1>2 DEF LineInv, LinesRest
    <3>3. RisenBeforePulse'
      BY ONLY <3>1 DEF RisenBeforePulse, BeforePulseEnds
    <3>. QED BY ONLY <3>1, <3>2, <3>3 DEF LineInv, LinesRest
  <2>5. CASE TickEnds
    <3>1. /\ mcu.stage = "triggered" /\ mcu'.stage \in {"idle", "popped"}
          /\ ExposureOver(mcu) \/ mcu.elapsed = "margin"
          /\ mcu'.stage = "popped" => mcu'.elapsed = "" /\ ~ mcu'.dropped
          /\ mcu'.lines \subseteq mcu.lines
          /\ mcu.elapsed # "" /\ ~ mcu.dropped => mcu'.lines = mcu.lines \ A
      BY <1>2, <2>5 DEF TickEnds
    <3>2. CASE mcu.elapsed = ""
      <4>1. /\ mcu.risen = A /\ mcu.high \intersect mcu.awaiting = {}
        BY <1>2, <3>1, <3>2 DEF ExposureOver
      <4>2. mcu.awaiting = A /\ mcu.risen \intersect A \subseteq mcu.high \union hasty
        BY <1>2, <3>1, <3>2 DEF LineInv, RisenBeforePulse, BeforePulseEnds
      <4>3. A \subseteq hasty
        BY ONLY <4>1, <4>2
      <4>4. mcu.lines \subseteq hasty
        BY <1>2, <4>3 DEF LineInv, LinesRest
      <4>. QED BY <1>4, <2>2, <3>1, <3>2, <4>4
    <3>3. CASE mcu.elapsed # ""
      <4>1. mcu.lines \ A \subseteq hasty
        BY <1>2 DEF LineInv, LinesRest
      <4>2. mcu.dropped => mcu.lines \intersect A = {}
        BY <1>2, <3>1 DEF LineInv
      <4>3. mcu'.lines \subseteq hasty \ A
        BY ONLY <3>1, <3>3, <4>1, <4>2
      <4>. QED BY <1>4, <2>2, <3>1, <3>3, <4>3
    <3>. QED BY <3>2, <3>3
  <2>. QED BY <2>1, <2>3, <2>4, <2>5
<1>11. CASE Disable
  <2>1. mcu'.stage = "idle" /\ mcu'.lines = mcu.lines \ A
    BY <1>2, <1>11, DisableKeeps
  <2>2. hasty' = hasty \ A
    BY <1>2, <1>11, HastyStays
  <2>3. mcu.lines \ A \subseteq hasty
    BY <1>2 DEF LineInv, LinesRest
  <2>. QED BY <1>4, <2>1, <2>2, <2>3
<1>12. CASE Enable
  <2>1. mcu'.stage = "idle" /\ mcu.stage = "idle" /\ mcu'.lines = mcu.lines
    BY <1>12, EnableKeeps
  <2>2. hasty' = hasty
    BY <1>12 DEF Enable, pastVars
  <2>3. mcu.lines \subseteq hasty
    BY <2>1 DEF LineInv, LinesRest
  <2>. QED BY <1>4, <2>1, <2>2, <2>3
<1>13. CASE Elapse
  <2>1. /\ mcu.stage = "triggered" /\ mcu'.stage = "triggered" /\ mcu'.elapsed # ""
        /\ mcu'.active = mcu.active /\ mcu'.awaiting = mcu.awaiting
        /\ mcu'.lines = mcu.lines /\ mcu'.dropped = mcu.dropped
    BY <1>13, ElapseKeeps
  <2>2. hasty' = hasty
    BY <1>13 DEF Elapse, pastVars
  <2>. QED BY <1>3, <2>1, <2>2
<1>14. CASE \E c \in Cameras : Rise(c)
  <2>1. PICK c \in Cameras : Rise(c)
    BY <1>14
  <2>2. /\ OnlyStrobes
        /\ mcu'.high = mcu.high \union {c} /\ mcu'.risen = mcu.risen \union {c}
    BY <2>1, RiseKeeps
  <2>3. hasty' = hasty
    BY <2>1 DEF Rise, pastVars
  <2>. QED BY <1>3, <2>2, <2>3 DEF OnlyStrobes
<1>15. CASE \E c \in Cameras : Fall(c)
  <2>1. PICK c \in Cameras : Fall(c)
    BY <1>15
  <2>2. /\ OnlyStrobes
        /\ mcu'.high = mcu.high \ {c} /\ mcu'.risen = mcu.risen
    BY <2>1, FallKeeps
  <2>3. hasty' = IF BeforePulseEnds THEN hasty \union ({c} \intersect A) ELSE hasty
    BY <1>2, <2>1, HastyStays
  <2>. QED BY <1>3, <2>2, <2>3 DEF OnlyStrobes
<1>. QED BY <1>6, <1>7, <1>8, <1>9, <1>10, <1>11, <1>12, <1>13, <1>14, <1>15,
            OthersKeepFirmware DEF Next

\* A trigger line is up only for the pulse of the request that is exposing, so that
\* the next makes an edge, unless the strobe of its camera was over before its pulse.
THEOREM Lines == Spec => []LinesRest
<1>1. Init => HostInv /\ FirmwareInv /\ LineInv
  BY HostStarts, FirmwareStarts, LinesStart
<1>2. HostInv /\ FirmwareInv /\ LineInv /\ [Next]_vars
      => (HostInv /\ FirmwareInv /\ LineInv)'
  BY HostKeeps, FirmwareKeeps, LinesKeep
<1>3. LineInv => LinesRest
  BY DEF LineInv
<1>. QED BY <1>1, <1>2, <1>3, PTL DEF Spec
=============================================================================
