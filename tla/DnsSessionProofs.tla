-------------------------- MODULE DnsSessionProofs --------------------------
(***************************************************************************)
(* For any streams, chunk size, window, reach of the network and space of  *)
(* sequence numbers: the client gets the bytes of the downstream in order  *)
(* and once; the frames of the upstream leave the reassembly in order,     *)
(* once, and none that was answered is lost; and the buffers of a session  *)
(* stay within their bounds.                                               *)
(***************************************************************************)
EXTENDS DnsSession, SequenceTheorems, FiniteSetTheorems, WellFoundedInduction, TLAPS

-----------------------------------------------------------------------------
(* Numbers modulo N *)

LEMMA ModParts ==
    ASSUME NEW N \in Int, N > 0, NEW a \in Int
    PROVE  /\ a % N \in 0 .. N - 1
           /\ \E q \in Int : a = N * q + (a % N)
<1>1. a % N \in 0 .. N - 1
  BY SMT
<1>2. \E q \in Int : a = N * q + (a % N)
  BY SMT
<1> QED
  BY <1>1, <1>2

LEMMA MulGrows ==
    ASSUME NEW N \in Int, N > 0, NEW d \in Int, d # 0
    PROVE  N * d >= N \/ N * d <= -N
OBVIOUS

LEMMA ModOf ==
    ASSUME NEW N \in Int, N > 0, NEW q \in Int, NEW r \in 0 .. N - 1
    PROVE  (N * q + r) % N = r
<1> DEFINE a == N * q + r
           s == a % N
<1>1. a \in Int /\ N * q \in Int
  BY SMT
<1>2. s \in 0 .. N - 1
  BY <1>1, ModParts
<1>3. PICK p \in Int : a = N * p + s
  <2> HIDE DEF a
  <2> QED
    BY <1>1, ModParts DEF s
<1> DEFINE d == q - p
<1>4. d \in Int
  OBVIOUS
<1>5. N * d = N * q - N * p
  BY SMT
<1>6. N * p \in Int /\ N * d \in Int
  BY SMT
<1>7. N * d = s - r
  <2> HIDE DEF s, d
  <2> QED
    BY <1>1, <1>2, <1>3, <1>5, <1>6
<1>8. d = 0
  <2> HIDE DEF s, d, a
  <2> QED
    BY <1>2, <1>4, <1>7, MulGrows
<1>9. N * d = 0
  <2> HIDE DEF d
  <2> QED BY <1>8
<1> HIDE DEF s, d
<1> QED
  BY <1>2, <1>7, <1>9 DEF s

LEMMA ModNear ==
    ASSUME NEW N \in Int, N > 0, NEW x \in Int, NEW y \in Int,
           x - y < N, y - x < N, x # y
    PROVE  x % N # y % N
<1> SUFFICES ASSUME x % N = y % N PROVE FALSE
  OBVIOUS
<1>1. PICK p \in Int : x = N * p + (x % N)
  BY ModParts
<1>2. PICK q \in Int : y = N * q + (y % N)
  BY ModParts
<1> DEFINE d == p - q
<1>3. N * d = N * p - N * q
  BY SMT
<1>4. N * p \in Int /\ N * q \in Int /\ N * d \in Int /\ d \in Int
  BY SMT
<1>5. x % N \in Int
  BY ModParts
<1> HIDE DEF d
<1>6. N * d = x - y
  BY <1>1, <1>2, <1>3, <1>4, <1>5
<1>7. d # 0
  <2>1. d = 0 => N * d = 0
    OBVIOUS
  <2> QED
    BY <2>1, <1>6
<1> QED
  BY <1>4, <1>6, <1>7, MulGrows

LEMMA ModShift ==
    ASSUME NEW N \in Int, N > 0, NEW q \in Int, NEW x \in Int
    PROVE  (N * q + x) % N = x % N
<1>1. PICK p \in Int : x = N * p + (x % N)
  BY ModParts
<1>2. x % N \in 0 .. N - 1
  BY ModParts
<1>3. N * (q + p) = N * q + N * p /\ N * q \in Int /\ N * p \in Int
  BY SMT
<1> DEFINE r == x % N
<1>4. N * q + x = N * (q + p) + r
  <2> HIDE DEF r
  <2> QED
    BY <1>1, <1>2, <1>3 DEF r
<1>5. (N * (q + p) + r) % N = r
  <2> DEFINE t == q + p
  <2>1. t \in Int
    OBVIOUS
  <2> HIDE DEF r, t
  <2>2. (N * t + r) % N = r
    BY <2>1, <1>2, ModOf DEF r
  <2> QED
    BY <2>2 DEF t
<1> QED
  BY <1>4, <1>5

LEMMA ModPlus ==
    ASSUME NEW N \in Int, N > 0, NEW x \in Int, NEW k \in Int
    PROVE  ((x % N) + k) % N = (x + k) % N
<1>1. PICK p \in Int : x = N * p + (x % N)
  BY ModParts
<1> DEFINE r == x % N
           t == r + k
<1>2. r \in Int /\ t \in Int
  BY ModParts
<1>3. N * p \in Int
  BY SMT
<1>4. x + k = N * p + t
  BY <1>1, <1>2, <1>3
<1>5. (N * p + t) % N = t % N
  <2> HIDE DEF t
  <2> QED BY <1>2, ModShift
<1> QED
  BY <1>4, <1>5

LEMMA ModMinus ==
    ASSUME NEW N \in Int, N > 0, NEW x \in Int, NEW y \in Int
    PROVE  ((y % N) - (x % N)) % N = (y - x) % N
<1>1. PICK p \in Int : x = N * p + (x % N)
  BY ModParts
<1>2. PICK q \in Int : y = N * q + (y % N)
  BY ModParts
<1> DEFINE r == x % N
           s == y % N
           d == q - p
           t == s - r
<1>3. r \in Int /\ s \in Int /\ t \in Int /\ d \in Int
  BY ModParts
<1>4. N * d = N * q - N * p /\ N * d \in Int /\ N * p \in Int /\ N * q \in Int
  BY SMT
<1>5. y - x = N * d + t
  <2> HIDE DEF d
  <2> QED BY <1>1, <1>2, <1>3, <1>4
<1>6. (N * d + t) % N = t % N
  <2> HIDE DEF t, d
  <2> QED BY <1>3, ModShift
<1> QED
  BY <1>5, <1>6

LEMMA ModSmall ==
    ASSUME NEW N \in Int, N > 0, NEW r \in 0 .. N - 1
    PROVE  r % N = r
<1>1. N * 0 + r = r /\ 0 \in Int
  OBVIOUS
<1> QED
  BY <1>1, ModOf
-----------------------------------------------------------------------------
(* Sequences *)

LEMMA MinOfTwo ==
    ASSUME NEW a \in Int, NEW b \in Int
    PROVE  Min({a, b}) = IF a <= b THEN a ELSE b
<1> DEFINE m == IF a <= b THEN a ELSE b
<1>1. m \in {a, b} /\ \A y \in {a, b} : m <= y
  OBVIOUS
<1>2. \A x \in {a, b} : (\A y \in {a, b} : x <= y) => x = m
  OBVIOUS
<1> HIDE DEF m
<1>3. Min({a, b}) = m
  BY <1>1, <1>2 DEF Min
<1> QED
  BY <1>3 DEF m

\* How far what was in the network moves up when a message is pushed.
Shift(net) == IF Len(net) < Reach THEN 0 ELSE 1

\* The message is last, and behind it is what was there, the oldest perhaps dropped.
Arrives(T, net, msg) ==
    /\ Push(net, msg) \in Seq(T)
    /\ Len(Push(net, msg)) = Len(net) + 1 - Shift(net)
    /\ Len(Push(net, msg)) \in 1 .. Reach
    /\ Push(net, msg)[Len(net) + 1 - Shift(net)] = msg
    /\ \A i \in 1 .. Len(net) - Shift(net) : Push(net, msg)[i] = net[i + Shift(net)]

LEMMA Pushed ==
    ASSUME NEW T, NEW net \in Seq(T), NEW msg \in T, Reach \in Nat \ {0}, Len(net) <= Reach
    PROVE  Arrives(T, net, msg)
<1>0. Len(net) \in Nat
  OBVIOUS
<1>1. CASE Len(net) < Reach
  <2>1. Push(net, msg) = Append(net, msg) /\ Shift(net) = 0
    BY <1>1 DEF Push, Shift
  <2> QED
    BY <1>0, <1>1, <2>1, AppendProperties DEF Arrives
<1>2. CASE Len(net) = Reach
  <2>1. Push(net, msg) = Append(Tail(net), msg) /\ Shift(net) = 1
    BY <1>2 DEF Push, Shift
  <2>2. net # <<>>
    BY <1>2
  <2> DEFINE rest == Tail(net)
  <2>3. rest \in Seq(T) /\ Len(rest) = Len(net) - 1 /\ \A i \in 1 .. Len(rest) : rest[i] = net[i + 1]
    BY <2>2, HeadTailProperties
  <2> HIDE DEF rest
  <2>4. /\ Append(rest, msg) \in Seq(T) /\ Len(Append(rest, msg)) = Len(rest) + 1
        /\ \A i \in 1 .. Len(rest) : Append(rest, msg)[i] = rest[i]
        /\ Append(rest, msg)[Len(rest) + 1] = msg
    BY <2>3, AppendProperties
  <2>5. Push(net, msg) = Append(rest, msg)
    BY <2>1 DEF rest
  <2>6. Len(net) + 1 - Shift(net) = Len(rest) + 1 /\ Len(net) - Shift(net) = Len(rest)
    BY <1>0, <2>1, <2>3
  <2>7. \A i \in 1 .. Len(rest) : Append(rest, msg)[i] = net[i + 1]
    BY <2>3, <2>4
  <2> QED
    BY <1>0, <1>2, <2>1, <2>3, <2>4, <2>5, <2>6, <2>7 DEF Arrives
<1> QED
  BY <1>0, <1>1, <1>2

LEMMA PushedNumber ==
    ASSUME NEW net \in Seq(Nat), NEW msg \in Nat, Reach \in Nat \ {0}, Len(net) <= Reach
    PROVE  /\ Push(net, msg) \in Seq(Nat)
           /\ Len(Push(net, msg)) = Len(net) + 1 - Shift(net)
           /\ Push(net, msg)[Len(net) + 1 - Shift(net)] = msg
           /\ \A i \in 1 .. Len(net) - Shift(net) : Push(net, msg)[i] = net[i + Shift(net)]
<1> DEFINE T == Nat
<1>1. net \in Seq(T) /\ msg \in T
  OBVIOUS
<1> SUFFICES /\ Push(net, msg) \in Seq(T)
             /\ Len(Push(net, msg)) = Len(net) + 1 - Shift(net)
             /\ Push(net, msg)[Len(net) + 1 - Shift(net)] = msg
             /\ \A i \in 1 .. Len(net) - Shift(net) : Push(net, msg)[i] = net[i + Shift(net)]
  OBVIOUS
<1> HIDE DEF T
<1>2. Arrives(T, net, msg)
  BY <1>1, Pushed
<1> QED
  BY <1>2 DEF Arrives

LEMMA LeastNumber ==
    ASSUME NEW G \in SUBSET Nat, G # {}
    PROVE  \E r \in G : \A k \in G : r <= k
<1>1. PICK r \in G : \A k \in G : <<k, r>> \notin OpToRel(<, Nat)
  BY NatLessThanWellFounded, WFMin, Zenon
<1>2. \A k \in G : ~(k < r)
  BY <1>1, Zenon DEF OpToRel
<1> QED
  BY <1>2

\* The greatest of the numbers below which a condition holds everywhere.
LEMMA RunOf ==
    ASSUME NEW N \in Nat, NEW w \in 0 .. N, NEW G \in SUBSET Nat, w \in G
    PROVE  \E r \in 0 .. w :
              /\ Max({n \in 0 .. N : \A k \in 0 .. n - 1 : k \notin G}) = r
              /\ r \in G /\ \A k \in 0 .. r - 1 : k \notin G
<1>1. PICK r \in G : \A k \in G : r <= k
  BY LeastNumber
<1>2. r \in 0 .. w
  BY <1>1
<1> DEFINE S == {n \in 0 .. N : \A k \in 0 .. n - 1 : k \notin G}
<1>3. r \in S /\ \A k \in 0 .. r - 1 : k \notin G
  BY <1>1, <1>2
<1>4. \A n \in S : n \in Nat /\ r >= n
  <2> SUFFICES ASSUME NEW n \in S, n > r PROVE FALSE
    BY <1>2
  <2>1. r \in 0 .. n - 1
    BY <1>2
  <2> QED
    BY <2>1
<1> HIDE DEF S
<1>5. Max(S) = r
  <2>1. \A x \in S : (\A y \in S : x >= y) => x = r
    BY <1>2, <1>3, <1>4
  <2> QED
    BY <1>3, <1>4, <2>1 DEF Max
<1> QED
  BY <1>1, <1>2, <1>3, <1>5 DEF S
LEMMA SizeOfInterval ==
    \A a, b \in Int, n \in Nat : b - a + 1 = n => IsFiniteSet(a .. b) /\ Cardinality(a .. b) = n
<1> SUFFICES ASSUME NEW a \in Int, NEW b \in Int, NEW n \in Nat, b - a + 1 = n
             PROVE  IsFiniteSet(a .. b) /\ Cardinality(a .. b) = n
  OBVIOUS
<1>1. IsFiniteSet(a .. b) /\ Cardinality(a .. b) = IF a > b THEN 0 ELSE b - a + 1
  BY FS_Interval
<1> QED
  BY <1>1

-----------------------------------------------------------------------------
(* Types *)

LEMMA Sizes ==
    /\ SeqSpace \in Int /\ SeqSpace > 0 /\ Reach \in Nat \ {0} /\ Window \in Nat \ {0}
    /\ ChunkSize \in Nat \ {0} /\ SeqSpace \div 2 \in Int /\ SeqSpace = 2 * (SeqSpace \div 2)
    /\ Window + Reach <= SeqSpace \div 2
BY SessionAssumption

Asking == [frame : Nat \cup {Nothing}, seq : Int, ack : Int]
Telling == [frame : Nat \cup {Nothing}, seq : Int, payload : Seq(Nat)]

Types ==
    /\ outbound \in Seq(Nat) /\ inflight \in Seq(Nat) /\ produced \in Nat
    /\ seqOut \in Int
    /\ queries \in Seq(Asking) /\ Len(queries) <= Reach
    /\ answers \in Seq(Telling) /\ Len(answers) <= Reach
    /\ client \in [got : Seq(Nat), accepted : Nat, answered : SUBSET Nat]
    /\ cut \in Seq(Nat) /\ recut \in BOOLEAN /\ presumed \in BOOLEAN

-----------------------------------------------------------------------------
(* The downstream queue *)

\* Bytes that have left the queue.
Gone == produced - Len(outbound)

\* What a chunk cut now would have.
Room == IF ChunkSize <= Len(outbound) THEN ChunkSize ELSE Len(outbound)

\* The queue holds what was produced and not acknowledged; the chunk in flight
\* is its beginning.
Queued ==
    /\ Len(outbound) <= produced
    /\ \A k \in 1 .. Len(outbound) : outbound[k] = Gone + k
    /\ Len(inflight) <= Room
    /\ \A k \in 1 .. Len(inflight) : inflight[k] = Gone + k

LEMMA Measures ==
    ASSUME Types, Queued
    PROVE  Gone \in Nat /\ Room \in Nat /\ Len(inflight) \in Nat /\ Len(outbound) \in Nat
<1>1. Len(outbound) \in Nat /\ Len(inflight) \in Nat /\ produced \in Nat
  BY DEF Types
<1>2. Gone \in Nat
  BY <1>1 DEF Queued, Gone
<1>3. Room \in Nat
  BY <1>1, Sizes DEF Room
<1> QED
  BY <1>1, <1>2, <1>3

LEMMA FirstChunkOf ==
    ASSUME NEW queue \in Seq(Nat)
    PROVE  /\ FirstChunk(queue) \in Seq(Nat)
           /\ Len(FirstChunk(queue)) = IF ChunkSize <= Len(queue) THEN ChunkSize ELSE Len(queue)
           /\ \A k \in 1 .. Len(FirstChunk(queue)) : FirstChunk(queue)[k] = queue[k]
<1> DEFINE n == IF ChunkSize <= Len(queue) THEN ChunkSize ELSE Len(queue)
<1>1. n \in Nat /\ n <= Len(queue)
  BY Sizes
<1>2. Min({ChunkSize, Len(queue)}) = n
  BY Sizes, MinOfTwo
<1> HIDE DEF n
<1>3. FirstChunk(queue) = SubSeq(queue, 1, n)
  BY <1>2 DEF FirstChunk
<1>4. \A k \in 1 .. n : queue[k] \in Nat
  BY <1>1
<1>5. /\ SubSeq(queue, 1, n) \in Seq(Nat)
      /\ Len(SubSeq(queue, 1, n)) = IF 1 <= n THEN n - 1 + 1 ELSE 0
      /\ \A k \in 1 .. n - 1 + 1 : SubSeq(queue, 1, n)[k] = queue[1 + k - 1]
  BY <1>1, <1>4, SubSeqProperties
<1>6. Len(SubSeq(queue, 1, n)) = n
  BY <1>1, <1>5
<1>7. \A k \in 1 .. n : SubSeq(queue, 1, n)[k] = queue[k]
  BY <1>1, <1>5
<1> QED
  BY <1>3, <1>5, <1>6, <1>7 DEF n

\* An acknowledgement takes the chunk off the queue.
LEMMA Committed ==
    ASSUME Types, Queued, NEW i \in Nat, Ingest(i), Commits(queries[i])
    PROVE  /\ outbound' \in Seq(Nat) /\ inflight' \in Seq(Nat) /\ Queued'
           /\ Gone' = Gone + Len(inflight) /\ Gone' \in Nat /\ Len(inflight) > 0
           /\ seqOut' = (seqOut + 1) % SeqSpace
           /\ cut' = inflight' /\ recut' = recut
<1> DEFINE n == Len(inflight)
           rest == Rest(queries[i])
<1>1. n \in Nat /\ n > 0 /\ n <= Len(outbound) /\ Len(outbound) \in Nat
  <2>1. inflight \in Seq(Nat) /\ outbound \in Seq(Nat)
    BY DEF Types
  <2>2. n > 0
    BY <2>1 DEF Commits
  <2>3. n <= Room
    BY DEF Queued
  <2> QED
    BY <2>1, <2>2, <2>3, Sizes DEF Room
<1>2. rest = SubSeq(outbound, n + 1, Len(outbound))
  BY DEF Rest
<1>3. \A k \in n + 1 .. Len(outbound) : outbound[k] \in Nat
  <2>1. \A k \in 1 .. Len(outbound) : outbound[k] \in Nat
    BY DEF Types
  <2> HIDE DEF n
  <2> QED
    BY <2>1, <1>1
<1> HIDE DEF n, rest
<1>4. /\ SubSeq(outbound, n + 1, Len(outbound)) \in Seq(Nat)
      /\ Len(SubSeq(outbound, n + 1, Len(outbound))) =
            IF n + 1 <= Len(outbound) THEN Len(outbound) - (n + 1) + 1 ELSE 0
      /\ \A k \in 1 .. Len(outbound) - (n + 1) + 1 :
            SubSeq(outbound, n + 1, Len(outbound))[k] = outbound[(n + 1) + k - 1]
  BY <1>1, <1>3, SubSeqProperties
<1>5. rest \in Seq(Nat) /\ Len(rest) = Len(outbound) - n
  BY <1>1, <1>2, <1>4
<1>6. \A k \in 1 .. Len(outbound) - n : rest[k] = outbound[n + k]
  BY <1>1, <1>2, <1>4
<1>7. outbound' = rest /\ inflight' = FirstChunk(rest) /\ produced' = produced
  BY DEF Ingest, rest
<1>8. /\ inflight' \in Seq(Nat)
      /\ Len(inflight') = IF ChunkSize <= Len(rest) THEN ChunkSize ELSE Len(rest)
      /\ \A k \in 1 .. Len(inflight') : inflight'[k] = rest[k]
  BY <1>5, <1>7, FirstChunkOf
<1>9. Gone' = Gone + n /\ Gone \in Nat
  <2>1. Gone' = produced - Len(rest)
    BY <1>7 DEF Gone
  <2>2. produced \in Nat /\ Len(outbound) <= produced
    BY DEF Types, Queued
  <2> QED
    BY <1>1, <1>5, <2>1, <2>2 DEF Gone
<1>10. \A k \in 1 .. Len(rest) : rest[k] = Gone' + k
  <2> TAKE k \in 1 .. Len(rest)
  <2>1. n + k \in 1 .. Len(outbound) /\ rest[k] = outbound[n + k]
    BY <1>1, <1>5, <1>6
  <2>2. outbound[n + k] = Gone + (n + k)
    BY <2>1 DEF Queued
  <2> QED
    BY <1>1, <1>9, <2>1, <2>2
<1>11. Queued'
  <2>1. Len(rest) <= produced'
    BY <1>1, <1>5, <1>7 DEF Queued, Types
  <2>2. Len(inflight') <= Room' /\ Len(inflight') <= Len(rest)
    BY <1>5, <1>7, <1>8, Sizes DEF Room
  <2>3. \A k \in 1 .. Len(inflight') : inflight'[k] = Gone' + k
    BY <1>5, <1>8, <1>10, <2>2
  <2> QED
    BY <1>7, <1>10, <2>1, <2>2, <2>3 DEF Queued
<1>12. /\ seqOut' = (seqOut + 1) % SeqSpace
       /\ cut' = inflight' /\ recut' = recut
  <2>1. cut' = inflight' /\ seqOut' = (seqOut + 1) % SeqSpace
    BY DEF Ingest
  <2>2. recut' = (recut \/ (<<>> # <<>> /\ inflight' # <<>>))
    BY DEF Ingest
  <2>3. recut' = recut
    BY <2>2, Zenon DEF Types
  <2> QED
    BY <2>1, <2>3
<1> QED
  BY <1>1, <1>5, <1>7, <1>8, <1>9, <1>11, <1>12 DEF n

\* Any other query leaves the queue; the chunk is sent again, or cut.
LEMMA Replayed ==
    ASSUME Types, Queued, NEW i \in Nat, Ingest(i), ~Commits(queries[i])
    PROVE  /\ outbound' = outbound /\ produced' = produced /\ seqOut' = seqOut
           /\ inflight' \in Seq(Nat) /\ Queued'
           /\ inflight # <<>> => inflight' = inflight
           /\ inflight = <<>> => Len(inflight') = Room
           /\ cut' = IF cut = <<>> THEN inflight' ELSE cut
           /\ recut' = (recut \/ (cut # <<>> /\ inflight' # cut))
<1>1. /\ outbound' = outbound /\ produced' = produced /\ seqOut' = seqOut
      /\ inflight' = IF inflight = <<>> THEN FirstChunk(outbound) ELSE inflight
      /\ cut' = IF cut = <<>> THEN inflight' ELSE cut
      /\ recut' = (recut \/ (cut # <<>> /\ inflight' # cut))
  BY DEF Ingest, Rest
<1>2. CASE inflight # <<>>
  BY <1>1, <1>2 DEF Queued, Gone, Room, Types
<1>3. CASE inflight = <<>>
  <2>1. /\ inflight' \in Seq(Nat) /\ Len(inflight') = Room /\ Room <= Len(outbound)
        /\ \A k \in 1 .. Len(inflight') : inflight'[k] = outbound[k]
    <3>1. outbound \in Seq(Nat) /\ inflight' = FirstChunk(outbound) /\ Len(outbound) \in Nat
      BY <1>1, <1>3 DEF Types
    <3>2. Room <= Len(outbound)
      BY <3>1, Sizes DEF Room
    <3> QED
      BY <3>1, <3>2, FirstChunkOf DEF Room
  <2>2. Len(outbound) \in Nat /\ Len(inflight') \in Nat
    BY <2>1 DEF Types
  <2>3. \A k \in 1 .. Len(inflight') : inflight'[k] = Gone + k
    BY <2>1, <2>2 DEF Queued
  <2>4. Gone' = Gone /\ Room' = Room
    BY <1>1 DEF Gone, Room
  <2> QED
    BY <1>1, <1>3, <2>1, <2>2, <2>3, <2>4 DEF Queued
<1> QED
  BY <1>2, <1>3

-----------------------------------------------------------------------------
(* What is on its way *)

\* The chunk of the present sequence number that an answer may carry: cut when
\* the queue was no longer than now, and never after a longer one.
Fits(p) ==
    /\ Len(p) <= Room
    /\ inflight # <<>> => Len(p) <= Len(inflight)
    /\ \A b \in 1 .. Len(p) : p[b] = Gone + b
    /\ ~recut /\ p # <<>> => p = cut

\* h[i] chunks had been accepted when query i was sent; k are off the queue.
\* One query tells of one chunk more at most, for a chunk leaves the queue only
\* when a query has told of it.
AckHistory(k, h) ==
    /\ h \in Seq(Nat) /\ Len(h) = Len(queries)
    /\ \A i \in 1 .. Len(h) :
          /\ h[i] <= client.accepted
          /\ queries[i].ack = IF h[i] = 0 THEN Nothing ELSE (h[i] - 1) % SeqSpace
    /\ \A i, j \in 1 .. Len(h) : i <= j => h[i] <= h[j] /\ h[j] <= h[i] + (j - i)
    /\ Len(h) > 0 => k <= h[Len(h)]

\* g[i] chunks were off the queue when answer i was sent.
SeqHistory(k, g) ==
    /\ g \in Seq(Nat) /\ Len(g) = Len(answers)
    /\ \A i \in 1 .. Len(g) : g[i] <= k /\ k <= g[i] + (Len(g) - i) /\ answers[i].seq = g[i] % SeqSpace
    /\ \A i \in 1 .. Len(g) : g[i] = k => Fits(answers[i].payload)

\* Every unit of s comes before every one of t; none of s after n.
Before(s, t) == \A b \in 1 .. Len(s), c \in 1 .. Len(t) : s[b] < t[c]
UpTo(s, n) == \A b \in 1 .. Len(s) : s[b] <= n

\* Acknowledged or not, chunks of later numbers come later in the stream.  The
\* client awaits the chunk e, or a later one of the same sequence number, and from
\* e on each comes after all it has.
InOrder(k, e, g) ==
    /\ Increasing(client.got)
    /\ e \in 0 .. k + 1 /\ client.accepted % SeqSpace = e % SeqSpace
    /\ e <= k => UpTo(client.got, Gone)
    /\ UpTo(client.got, Gone + Room)
    /\ inflight # <<>> => UpTo(client.got, Gone + Len(inflight))
    /\ \A i \in 1 .. Len(g) :
          /\ Increasing(answers[i].payload)
          /\ g[i] < k => UpTo(answers[i].payload, Gone)
          /\ e <= g[i] => Before(client.got, answers[i].payload)
    /\ \A i, j \in 1 .. Len(g) : g[i] < g[j] => Before(answers[i].payload, answers[j].payload)

\* What the client has, with k chunks off the queue, all acknowledged: those, or
\* one more.
Delivered(k) ==
    /\ ~recut /\ inflight # <<>> => inflight = cut
    /\ client.accepted \in {k, k + 1}
    /\ client.accepted = k /\ ~recut =>
          Len(client.got) = Gone /\ \A b \in 1 .. Gone : client.got[b] = b
    /\ client.accepted = k + 1 /\ ~recut =>
          /\ cut # <<>> /\ Len(client.got) = Gone + Len(cut)
          /\ \A b \in 1 .. Gone + Len(cut) : client.got[b] = b

Acknowledged(k) == Delivered(k) /\ \E h \in Seq(Nat) : AckHistory(k, h)

DownHistory ==
    \E k \in Nat, e \in Nat, g \in Seq(Nat) :
        /\ seqOut = k % SeqSpace /\ SeqHistory(k, g) /\ InOrder(k, e, g)
        /\ presumed \/ Acknowledged(k)

DownInv == Types /\ Queued /\ DownHistory

-----------------------------------------------------------------------------
(* Sequences in order *)

LEMMA Higher ==
    ASSUME NEW s \in Seq(Nat), NEW m \in Nat, NEW n \in Nat, m <= n, UpTo(s, m)
    PROVE  UpTo(s, n)
<1>1. \A b \in 1 .. Len(s) : s[b] \in Nat
  OBVIOUS
<1> QED
  BY <1>1 DEF UpTo

LEMMA HigherBy ==
    ASSUME NEW s \in Seq(Nat), NEW m \in Nat, NEW n \in Nat, UpTo(s, m)
    PROVE  UpTo(s, m + n)
<1>1. m + n \in Nat /\ m <= m + n
  OBVIOUS
<1> QED
  BY <1>1, Higher

LEMMA Follows ==
    ASSUME NEW s \in Seq(Nat), NEW t \in Seq(Nat), NEW n \in Nat, UpTo(s, n),
           \A c \in 1 .. Len(t) : t[c] = n + c
    PROVE  Before(s, t)
<1> SUFFICES ASSUME NEW b \in 1 .. Len(s), NEW c \in 1 .. Len(t) PROVE s[b] < t[c]
  BY DEF Before
<1>1. s[b] \in Nat
  BY ElementOfSeq, Zenon
<1>5. s[b] <= n /\ t[c] = n + c
  BY DEF UpTo
<1>2. Len(t) \in Nat
  OBVIOUS
<1> DEFINE l == Len(t)
<1>3. l \in Nat /\ c \in 1 .. l
  BY <1>2
<1> HIDE DEF l
<1>4. c \in Nat /\ c > 0
  BY <1>3
<1>6. PICK u \in Nat : u = s[b]
  BY <1>1
<1>7. u <= n
  BY <1>5, <1>6
<1>8. u < n + c
  BY <1>4, <1>7
<1> QED
  BY <1>5, <1>6, <1>8, Zenon

LEMMA RunInOrder ==
    ASSUME NEW t \in Seq(Nat), NEW n \in Nat, \A c \in 1 .. Len(t) : t[c] = n + c
    PROVE  Increasing(t) /\ UpTo(t, n + Len(t))
<1>1. Len(t) \in Nat
  OBVIOUS
<1>2. Increasing(t)
  <2> SUFFICES ASSUME NEW b \in 1 .. Len(t), NEW c \in 1 .. Len(t), b < c PROVE t[b] < t[c]
    BY DEF Increasing
  <2>1. t[b] = n + b /\ t[c] = n + c
    OBVIOUS
  <2> QED
    BY <2>1, <1>1
<1>3. UpTo(t, n + Len(t))
  <2> SUFFICES ASSUME NEW c \in 1 .. Len(t) PROVE t[c] <= n + Len(t)
    BY DEF UpTo
  <2>1. t[c] = n + c
    OBVIOUS
  <2> QED
    BY <2>1, <1>1
<1> QED
  BY <1>2, <1>3

\* What is put behind a sequence keeps its order if it comes later.
LEMMA Joined ==
    ASSUME NEW s \in Seq(Nat), NEW t \in Seq(Nat)
    PROVE  /\ Increasing(s) /\ Increasing(t) /\ Before(s, t) => Increasing(s \o t)
           /\ \A n \in Nat : UpTo(s, n) /\ UpTo(t, n) => UpTo(s \o t, n)
           /\ \A u \in Seq(Nat) : Before(s, u) /\ Before(t, u) => Before(s \o t, u)
<1> DEFINE T == Nat
           all == s \o t
           n == Len(s)
           m == Len(t)
<1>1. s \in Seq(T) /\ t \in Seq(T)
  OBVIOUS
<1> HIDE DEF T
<1>2. /\ Len(s \o t) = Len(s) + Len(t)
      /\ \A b \in 1 .. Len(s) + Len(t) : (s \o t)[b] = IF b <= Len(s) THEN s[b] ELSE t[b - Len(s)]
  BY <1>1, ConcatProperties
<1>3. n \in Nat /\ m \in Nat
  OBVIOUS
<1>4. Len(all) = n + m /\ \A b \in 1 .. n + m : all[b] = IF b <= n THEN s[b] ELSE t[b - n]
  BY <1>2
<1> HIDE DEF all, n, m
<1>5. \A b \in 1 .. n + m : \/ b \in 1 .. n /\ all[b] = s[b]
                            \/ b > n /\ b - n \in 1 .. m /\ all[b] = t[b - n]
  BY <1>3, <1>4
<1>6. ASSUME Increasing(s), Increasing(t), Before(s, t) PROVE Increasing(all)
  <2> SUFFICES ASSUME NEW b \in 1 .. n + m, NEW c \in 1 .. n + m, b < c
               PROVE  all[b] < all[c]
    BY <1>4 DEF Increasing
  <2>1. CASE c \in 1 .. n /\ all[c] = s[c]
    <3>1. b \in 1 .. n /\ ~(b > n)
      BY <2>1, <1>3
    <3>2. all[b] = s[b]
      BY <3>1, <1>5
    <3> QED
      BY <2>1, <3>1, <3>2, <1>6 DEF Increasing, n
  <2>2. CASE c > n /\ c - n \in 1 .. m /\ all[c] = t[c - n] /\ b \in 1 .. n /\ all[b] = s[b]
    BY <2>2, <1>6 DEF Before, n, m
  <2>3. CASE c > n /\ c - n \in 1 .. m /\ all[c] = t[c - n] /\ b - n \in 1 .. m /\ all[b] = t[b - n]
    <3>1. b - n < c - n
      BY <1>3
    <3> QED
      BY <2>3, <3>1, <1>6 DEF Increasing, m
  <2> QED
    BY <1>5, <2>1, <2>2, <2>3
<1>7. ASSUME NEW k \in Nat, UpTo(s, k), UpTo(t, k) PROVE UpTo(all, k)
  BY <1>4, <1>5, <1>7 DEF UpTo, n, m
<1>8. ASSUME NEW u \in Seq(Nat), Before(s, u), Before(t, u) PROVE Before(all, u)
  BY <1>4, <1>5, <1>8 DEF Before, n, m
<1> QED
  BY <1>6, <1>7, <1>8 DEF all

LEMMA DownStarts == SessionInit => DownInv
<1> SUFFICES ASSUME SessionInit PROVE DownInv
  OBVIOUS
<1>1. Types /\ Gone = 0 /\ Room = 0
  <2>1. /\ outbound = <<>> /\ produced = 0 /\ inflight = <<>> /\ queries = <<>> /\ answers = <<>>
        /\ cut = <<>> /\ recut = FALSE /\ presumed = FALSE /\ seqOut = 0
    BY DEF SessionInit
  <2>2. client \in [got : Seq(Nat), accepted : Nat, answered : SUBSET Nat]
    BY DEF SessionInit
  <2>3. <<>> \in Seq(Nat) /\ <<>> \in Seq(Asking) /\ <<>> \in Seq(Telling) /\ Len(<<>>) = 0
    OBVIOUS
  <2>4. Gone = 0
    <3>1. Len(outbound) = 0 /\ produced = 0
      BY <2>1, <2>3
    <3> QED
      BY <3>1 DEF Gone
  <2>5. Room = 0
    BY <2>1, <2>3, Sizes DEF Room
  <2> QED
    <3>1. outbound \in Seq(Nat) /\ inflight \in Seq(Nat) /\ cut \in Seq(Nat)
      BY <2>1, <2>3
    <3>2. queries \in Seq(Asking) /\ Len(queries) <= Reach /\ answers \in Seq(Telling) /\ Len(answers) <= Reach
      BY <2>1, <2>3, Sizes
    <3>3. produced \in Nat /\ seqOut \in Int
      BY <2>1
    <3>4. recut \in BOOLEAN /\ presumed \in BOOLEAN
      BY <2>1, Zenon
    <3> QED
      BY <2>2, <2>4, <2>5, <3>1, <3>2, <3>3, <3>4 DEF Types
<1>2. Queued
  BY <1>1 DEF SessionInit, Queued
<1>3. seqOut = 0 % SeqSpace
  BY Sizes, ModSmall DEF SessionInit
<1>4. Delivered(0)
  BY <1>1 DEF SessionInit, Delivered
<1>5. <<>> \in Seq(Nat) /\ AckHistory(0, <<>>) /\ SeqHistory(0, <<>>)
  BY DEF SessionInit, AckHistory, SeqHistory
<1>6. InOrder(0, 0, <<>>)
  BY <1>1 DEF SessionInit, InOrder, Increasing, UpTo
<1> QED
  BY <1>1, <1>2, <1>3, <1>4, <1>5, <1>6 DEF DownInv, DownHistory, Acknowledged

\* A query that is sent comes behind those on their way.
LEMMA Sent ==
    ASSUME Types, NEW frame \in Nat \cup {Nothing}, NEW seq \in Int,
           queries' = Push(queries, [frame |-> frame, seq |-> seq, ack |-> LastAccepted])
    PROVE  /\ queries' \in Seq(Asking) /\ Len(queries') \in 1 .. Reach
           /\ Len(queries') = Len(queries) + 1 - Shift(queries)
           /\ queries'[Len(queries) + 1 - Shift(queries)].ack = LastAccepted
           /\ \A i \in 1 .. Len(queries) - Shift(queries) : queries'[i] = queries[i + Shift(queries)]
<1> DEFINE msg == [frame |-> frame, seq |-> seq, ack |-> LastAccepted]
           a == client.accepted
<1>1. LastAccepted \in Int
  <2>1. a \in Nat /\ LastAccepted = IF a = 0 THEN Nothing ELSE (a - 1) % SeqSpace
    BY DEF Types, LastAccepted
  <2>2. a # 0 => (a - 1) % SeqSpace \in Int
    <3>1. a - 1 \in Int
      BY <2>1
    <3> HIDE DEF a
    <3> QED
      BY <3>1, Sizes, ModParts
  <2> QED
    BY <2>1, <2>2 DEF Nothing
<1>2. msg \in Asking /\ msg.ack = LastAccepted
  BY <1>1 DEF Asking
<1>3. queries' = Push(queries, msg) /\ queries \in Seq(Asking) /\ Len(queries) <= Reach /\ Reach \in Nat \ {0}
  BY Sizes DEF Types
<1> HIDE DEF msg
<1>4. Arrives(Asking, queries, msg)
  BY <1>2, <1>3, Pushed
<1> QED
  BY <1>2, <1>3, <1>4 DEF Arrives

\* And it tells what the client has.
LEMMA Told ==
    ASSUME Types, NEW k \in Nat, client.accepted \in {k, k + 1}, NEW h, AckHistory(k, h),
           NEW frame \in Nat \cup {Nothing}, NEW seq \in Int,
           queries' = Push(queries, [frame |-> frame, seq |-> seq, ack |-> LastAccepted]), client' = client
    PROVE  \E hh \in Seq(Nat) : AckHistory(k, hh)'
<1> DEFINE a == client.accepted
           d == Shift(queries)
           n == Len(queries)
<1>1. a \in Nat /\ h \in Seq(Nat) /\ Len(h) = n /\ n \in Nat /\ n <= Reach /\ d \in {0, 1} /\ d <= n
      /\ Reach \in Nat \ {0}
  BY Sizes DEF Types, AckHistory, Shift
<1>2. LastAccepted = IF a = 0 THEN Nothing ELSE (a - 1) % SeqSpace
  BY DEF LastAccepted
<1>4. Shift(h) = d
  BY <1>1 DEF Shift
<1>5. /\ queries' \in Seq(Asking) /\ Len(queries') = n + 1 - d
      /\ queries'[n + 1 - d].ack = LastAccepted
      /\ \A i \in 1 .. n - d : queries'[i] = queries[i + d]
  BY Sent
<1>6. PICK hh : hh = Push(h, a)
  OBVIOUS
<1>7. /\ hh \in Seq(Nat) /\ Len(hh) = n + 1 - d
      /\ hh[n + 1 - d] = a
      /\ \A i \in 1 .. n - d : hh[i] = h[i + d]
  <2>1. h \in Seq(Nat) /\ a \in Nat /\ Len(h) <= Reach /\ Reach \in Nat \ {0}
    BY <1>1
  <2>2. /\ Push(h, a) \in Seq(Nat)
        /\ Len(Push(h, a)) = Len(h) + 1 - Shift(h)
        /\ Push(h, a)[Len(h) + 1 - Shift(h)] = a
        /\ \A i \in 1 .. Len(h) - Shift(h) : Push(h, a)[i] = h[i + Shift(h)]
    BY <2>1, PushedNumber
  <2> QED
    BY <1>1, <1>4, <1>6, <2>2
<1> HIDE DEF a, d, n
<1>8. \A i \in 1 .. n + 1 - d : i = n + 1 - d \/ (i \in 1 .. n - d /\ i + d \in 1 .. n)
  BY <1>1
<1>9. n > 0 => k <= h[n] /\ h[n] <= a /\ a <= h[n] + 1
  BY <1>1 DEF AckHistory, a
<1>10. \A i \in 1 .. n + 1 - d :
          /\ hh[i] <= a
          /\ queries'[i].ack = IF hh[i] = 0 THEN Nothing ELSE (hh[i] - 1) % SeqSpace
  <2> TAKE i \in 1 .. n + 1 - d
  <2>1. CASE i = n + 1 - d
    BY <2>1, <1>1, <1>2, <1>5, <1>7
  <2>2. CASE i \in 1 .. n - d /\ i + d \in 1 .. n
    <3>1. i + d \in 1 .. Len(h) /\ hh[i] = h[i + d] /\ queries'[i] = queries[i + d]
      BY <2>2, <1>1, <1>5, <1>7
    <3>2. /\ h[i + d] <= a
          /\ queries[i + d].ack = IF h[i + d] = 0 THEN Nothing ELSE (h[i + d] - 1) % SeqSpace
      BY <3>1 DEF AckHistory, a
    <3> QED
      BY <3>1, <3>2, Zenon
  <2> QED
    BY <1>8, <2>1, <2>2
<1>11. \A i, j \in 1 .. n + 1 - d : i <= j => hh[i] <= hh[j] /\ hh[j] <= hh[i] + (j - i)
  <2> SUFFICES ASSUME NEW i \in 1 .. n + 1 - d, NEW j \in 1 .. n + 1 - d, i <= j
               PROVE  hh[i] <= hh[j] /\ hh[j] <= hh[i] + (j - i)
    OBVIOUS
  <2>1. CASE i = n + 1 - d
    <3>1. j = i
      BY <2>1, <1>1
    <3> QED
      BY <2>1, <3>1, <1>1, <1>7
  <2>2. CASE i \in 1 .. n - d /\ i + d \in 1 .. n /\ j = n + 1 - d
    <3>1. hh[i] = h[i + d] /\ hh[j] = a /\ n > 0 /\ n \in 1 .. n
      BY <2>2, <1>1, <1>7
    <3>2. h[i + d] <= h[n] /\ h[n] <= h[i + d] + (n - (i + d))
      BY <2>2, <3>1, <1>1 DEF AckHistory
    <3>3. \A x \in 1 .. n : h[x] \in Nat
      BY <1>1
    <3>4. PICK u \in Nat, v \in Nat : u = h[n] /\ v = h[i + d]
      BY <3>3, <2>2, <3>1, Zenon
    <3>5. v <= u /\ u <= v + (n - (i + d)) /\ u <= a /\ a <= u + 1
      BY <3>1, <3>2, <3>4, <1>1, <1>9
    <3>6. v <= a /\ a <= v + (j - i)
      BY <3>4, <3>5, <2>2, <1>1, SMTT(30)
    <3> QED
      BY <3>1, <3>4, <3>6
  <2>3. CASE i \in 1 .. n - d /\ i + d \in 1 .. n /\ j \in 1 .. n - d /\ j + d \in 1 .. n
    <3>1. hh[i] = h[i + d] /\ hh[j] = h[j + d]
      BY <2>3, <1>7
    <3>4. i + d \in 1 .. Len(h) /\ j + d \in 1 .. Len(h) /\ i + d <= j + d
      BY <2>3, <1>1
    <3>2. h[i + d] <= h[j + d] /\ h[j + d] <= h[i + d] + ((j + d) - (i + d))
      BY <3>4 DEF AckHistory
    <3>3. h[i + d] \in Nat /\ h[j + d] \in Nat
      BY <2>3, <1>1
    <3> QED
      BY <2>3, <3>1, <3>2, <3>3, <1>1
  <2> QED
    BY <1>8, <2>1, <2>2, <2>3
<1>12. k <= a
  BY DEF a
<1> DEFINE m == n + 1 - d
<1>13. m \in Nat /\ Len(hh) = m /\ Len(queries') = m /\ hh[m] = a
  BY <1>1, <1>5, <1>7
<1>14. \A i \in 1 .. m :
          /\ hh[i] <= a
          /\ queries'[i].ack = IF hh[i] = 0 THEN Nothing ELSE (hh[i] - 1) % SeqSpace
  BY <1>10
<1>15. \A i, j \in 1 .. m : i <= j => hh[i] <= hh[j] /\ hh[j] <= hh[i] + (j - i)
  BY <1>11
<1> HIDE DEF m
<1>16. AckHistory(k, hh)'
  BY <1>7, <1>12, <1>13, <1>14, <1>15 DEF AckHistory, a
<1> QED
  BY <1>7, <1>16

\* gg is the history of the answers once payload has been sent with number kk.
Continues(g, kk, payload, gg) ==
    /\ Len(gg) = Len(answers')
    /\ \A i \in 1 .. Len(gg) :
          /\ gg[i] <= kk /\ kk <= gg[i] + (Len(gg) - i) /\ answers'[i].seq = gg[i] % SeqSpace
          /\ \/ gg[i] = kk /\ answers'[i].payload = payload
             \/ \E j \in 1 .. Len(g) : gg[i] = g[j] /\ answers'[i].payload = answers[j].payload

\* An answer that is sent has the present sequence number, and the answers on
\* their way are never more behind than they are old.
LEMMA Answered ==
    ASSUME Types, NEW k \in Nat, NEW g, SeqHistory(k, g), NEW kk \in {k, k + 1},
           NEW frame \in Nat \cup {Nothing}, NEW payload \in Seq(Nat),
           answers' = Push(answers, [frame |-> frame, seq |-> kk % SeqSpace, payload |-> payload])
    PROVE  /\ answers' \in Seq(Telling) /\ Len(answers') <= Reach
           /\ \E gg \in Seq(Nat) : Continues(g, kk, payload, gg)
<1> DEFINE msg == [frame |-> frame, seq |-> kk % SeqSpace, payload |-> payload]
           d == Shift(answers)
           n == Len(answers)
<1>1. g \in Seq(Nat) /\ Len(g) = n /\ n \in Nat /\ n <= Reach /\ d \in {0, 1} /\ d <= n
      /\ Reach \in Nat \ {0} /\ kk \in Nat
  <2>1. answers \in Seq(Telling) /\ n <= Reach /\ g \in Seq(Nat) /\ Len(g) = n
    BY DEF Types, SeqHistory
  <2>2. n \in Nat
    BY <2>1
  <2>3. d \in {0, 1} /\ d <= n
    BY <2>1, <2>2, Sizes DEF Shift
  <2> QED
    BY <2>1, <2>2, <2>3, Sizes
<1>2. msg \in Telling
  <2>1. kk % SeqSpace \in Int
    BY <1>1, Sizes, ModParts
  <2> QED
    BY <2>1 DEF Telling
<1>3. Shift(g) = d
  BY <1>1 DEF Shift
<1> HIDE DEF msg
<1>4. /\ answers' \in Seq(Telling) /\ Len(answers') = n + 1 - d /\ Len(answers') \in 1 .. Reach
      /\ answers'[n + 1 - d] = msg
      /\ \A i \in 1 .. n - d : answers'[i] = answers[i + d]
  <2>1. answers' = Push(answers, msg)
    BY DEF msg
  <2>2. answers \in Seq(Telling)
    BY DEF Types
  <2>3. Len(answers) <= Reach /\ Reach \in Nat \ {0}
    BY <1>1
  <2>4. Arrives(Telling, answers, msg)
    BY <1>2, <2>2, <2>3, Pushed
  <2> QED
    BY <2>1, <2>4 DEF Arrives
<1>5. PICK gg : gg = Push(g, kk)
  OBVIOUS
<1>6. /\ gg \in Seq(Nat) /\ Len(gg) = n + 1 - d
      /\ gg[n + 1 - d] = kk
      /\ \A i \in 1 .. n - d : gg[i] = g[i + d]
  <2>1. Len(g) <= Reach /\ Reach \in Nat \ {0} /\ g \in Seq(Nat) /\ kk \in Nat
    BY <1>1
  <2>2. /\ Push(g, kk) \in Seq(Nat)
        /\ Len(Push(g, kk)) = Len(g) + 1 - Shift(g)
        /\ Push(g, kk)[Len(g) + 1 - Shift(g)] = kk
        /\ \A i \in 1 .. Len(g) - Shift(g) : Push(g, kk)[i] = g[i + Shift(g)]
    BY <2>1, PushedNumber
  <2> QED
    BY <1>1, <1>3, <1>5, <2>2
<1> HIDE DEF d, n
<1>7. \A i \in 1 .. n + 1 - d : i = n + 1 - d \/ (i \in 1 .. n - d /\ i + d \in 1 .. n)
  BY <1>1
<1>8. ASSUME NEW i \in 1 .. n + 1 - d
      PROVE  /\ gg[i] <= kk /\ kk <= gg[i] + ((n + 1 - d) - i)
             /\ answers'[i].seq = gg[i] % SeqSpace
             /\ \/ gg[i] = kk /\ answers'[i].payload = payload
                \/ \E j \in 1 .. n : gg[i] = g[j] /\ answers'[i].payload = answers[j].payload
  <2>1. CASE i = n + 1 - d
    <3>1. gg[i] = kk /\ answers'[i] = msg /\ (n + 1 - d) - i = 0
      BY <2>1, <1>1, <1>4, <1>6
    <3>2. msg.seq = kk % SeqSpace /\ msg.payload = payload
      BY DEF msg
    <3>3. gg[i] <= kk /\ kk <= gg[i] + ((n + 1 - d) - i)
      BY <1>1, <3>1
    <3>4. answers'[i].seq = kk % SeqSpace /\ answers'[i].payload = payload
      BY <3>1, <3>2
    <3>5. gg[i] % SeqSpace = kk % SeqSpace
      BY <3>1
    <3> QED
      BY <3>1, <3>3, <3>4, <3>5
  <2>2. CASE i \in 1 .. n - d /\ i + d \in 1 .. n
    <3>0. g[i + d] \in Nat
      BY <2>2, <1>1
    <3>1. gg[i] = g[i + d] /\ answers'[i] = answers[i + d] /\ g[i + d] \in Nat
      BY <2>2, <3>0, <1>4, <1>6
    <3>2. g[i + d] <= k /\ k <= g[i + d] + (n - (i + d)) /\ answers[i + d].seq = g[i + d] % SeqSpace
      BY <2>2, <1>1 DEF SeqHistory
    <3>3. gg[i] <= kk /\ kk <= gg[i] + ((n + 1 - d) - i)
      BY <2>2, <3>1, <3>2, <1>1, SMTT(30)
    <3> QED
      BY <2>2, <3>1, <3>2, <3>3
  <2> QED
    BY <1>7, <2>1, <2>2
<1>9. Len(gg) = Len(answers') /\ Len(answers') = n + 1 - d /\ Len(g) = n /\ Len(gg) = n + 1 - d
  BY <1>1, <1>4, <1>6
<1>10. answers' \in Seq(Telling) /\ Len(answers') <= Reach /\ gg \in Seq(Nat)
  BY <1>1, <1>4, <1>6
<1> DEFINE m == n + 1 - d
<1>11. Len(gg) = m /\ Len(answers') = m /\ Len(g) = n
  BY <1>9
<1>12. \A i \in 1 .. m :
          /\ gg[i] <= kk /\ kk <= gg[i] + (m - i) /\ answers'[i].seq = gg[i] % SeqSpace
          /\ \/ gg[i] = kk /\ answers'[i].payload = payload
             \/ \E j \in 1 .. n : gg[i] = g[j] /\ answers'[i].payload = answers[j].payload
  BY <1>8
<1> HIDE DEF m
<1>13. Continues(g, kk, payload, gg)
  BY <1>11, <1>12 DEF Continues
<1> QED
  BY <1>10, <1>13

-----------------------------------------------------------------------------
(* The downstream, step by step *)

\* What depends on none of these stays.
LEMMA DownStays ==
    ASSUME NEW k \in Nat, NEW e \in Nat, NEW g \in Seq(Nat), SeqHistory(k, g), InOrder(k, e, g),
           outbound' = outbound, inflight' = inflight, produced' = produced, answers' = answers,
           client' = client, cut' = cut, recut' = recut
    PROVE  SeqHistory(k, g)' /\ InOrder(k, e, g)' /\ (Delivered(k) => Delivered(k)')
<1>1. Gone' = Gone /\ Room' = Room
  BY DEF Gone, Room
<1>2. SeqHistory(k, g)'
  BY <1>1 DEF SeqHistory, Fits
<1>3. InOrder(k, e, g)'
  BY <1>1 DEF InOrder, UpTo, Before, Increasing
<1>4. Delivered(k) => Delivered(k)'
  BY <1>1 DEF Delivered
<1> QED
  BY <1>2, <1>3, <1>4

LEMMA DownSend ==
    ASSUME DownInv, NEW frame \in Nat \cup {Nothing}, NEW seq \in Int, Send(frame, seq)
    PROVE  DownInv'
<1>1. PICK k \in Nat, e \in Nat, g \in Seq(Nat) :
             /\ seqOut = k % SeqSpace /\ SeqHistory(k, g) /\ InOrder(k, e, g)
             /\ presumed \/ Acknowledged(k)
  BY DEF DownInv, DownHistory
<1>2. /\ queries' = Push(queries, [frame |-> frame, seq |-> seq, ack |-> LastAccepted]) /\ client' = client
      /\ outbound' = outbound /\ inflight' = inflight /\ produced' = produced /\ seqOut' = seqOut
      /\ answers' = answers /\ cut' = cut /\ recut' = recut /\ presumed' = presumed
  BY DEF Send, server, chunkHistory
<1>3. Types /\ Queued
  BY DEF DownInv
<1>4. queries' \in Seq(Asking) /\ Len(queries') <= Reach
  BY <1>2, <1>3, Sent
<1>5. Types'
  BY <1>2, <1>3, <1>4 DEF Types
<1>6. Gone' = Gone /\ Room' = Room
  BY <1>2 DEF Gone, Room
<1>7. Queued'
  BY <1>2, <1>3, <1>6 DEF Queued
<1>8. SeqHistory(k, g)' /\ InOrder(k, e, g)' /\ (Delivered(k) => Delivered(k)')
  BY <1>1, <1>2, DownStays
<1>9. CASE presumed
  <2>1. presumed' /\ seqOut' = k % SeqSpace
    BY <1>1, <1>2, <1>9, Zenon
  <2> QED
    BY <2>1, <1>5, <1>7, <1>8 DEF DownInv, DownHistory
<1>10. CASE Acknowledged(k)
  <2>1. PICK h \in Seq(Nat) : AckHistory(k, h)
    BY <1>10 DEF Acknowledged
  <2>2. client.accepted \in {k, k + 1} /\ Delivered(k)
    BY <1>10 DEF Acknowledged, Delivered
  <2>3. \E hh \in Seq(Nat) : AckHistory(k, hh)'
    BY <1>2, <1>3, <2>1, <2>2, Told
  <2>4. Acknowledged(k)' /\ seqOut' = k % SeqSpace
    BY <1>1, <1>2, <1>8, <2>2, <2>3 DEF Acknowledged
  <2> QED
    BY <2>4, <1>5, <1>7, <1>8 DEF DownInv, DownHistory
<1> QED
  BY <1>1, <1>9, <1>10

\* New bytes go behind what is queued.
LEMMA DownQueue ==
    ASSUME DownInv, NEW n \in 1 .. MaxOutboundBytes, QueueOutbound(n)
    PROVE  DownInv'
<1>1. PICK k \in Nat, e \in Nat, g \in Seq(Nat) :
             /\ seqOut = k % SeqSpace /\ SeqHistory(k, g) /\ InOrder(k, e, g)
             /\ presumed \/ Acknowledged(k)
  BY DEF DownInv, DownHistory
<1>4. /\ queries' = queries /\ client' = client /\ inflight' = inflight /\ seqOut' = seqOut
      /\ answers' = answers /\ cut' = cut /\ recut' = recut /\ presumed' = presumed
      /\ produced' = produced + n
  BY DEF QueueOutbound, chunkHistory
<1> DEFINE more == [b \in 1 .. n |-> produced + b]
           len == Len(outbound)
<1>5. Types /\ Queued
  BY DEF DownInv
<1>6. n \in Nat /\ n > 0 /\ produced \in Nat /\ len \in Nat /\ len <= produced
  BY <1>5, SessionAssumption DEF Types, Queued
<1>7. more \in Seq(Nat) /\ Len(more) = n /\ \A b \in 1 .. n : more[b] = produced + b
  BY <1>6
<1>8. outbound' = outbound \o more
  BY DEF QueueOutbound
<1> HIDE DEF more
<1>9. /\ outbound' \in Seq(Nat) /\ Len(outbound') = len + n
      /\ \A b \in 1 .. len + n : outbound'[b] = IF b <= len THEN outbound[b] ELSE more[b - len]
  <2> DEFINE T == Nat
  <2>1. outbound \in Seq(T) /\ more \in Seq(T) /\ Len(more) = n /\ Len(outbound) = len
    BY <1>5, <1>7 DEF Types
  <2> HIDE DEF T, len
  <2>2. /\ outbound \o more \in Seq(T) /\ Len(outbound \o more) = Len(outbound) + Len(more)
        /\ \A b \in 1 .. Len(outbound) + Len(more) :
              (outbound \o more)[b] = IF b <= Len(outbound) THEN outbound[b] ELSE more[b - Len(outbound)]
    BY <2>1, ConcatProperties
  <2>3. outbound' \in Seq(Nat)
    BY <2>2, <1>8 DEF T
  <2> QED
    BY <2>1, <2>2, <2>3, <1>8
<1> HIDE DEF len
<1>10. Gone' = Gone /\ Gone \in Nat /\ Gone = produced - len
  <2>1. Gone' = (produced + n) - (len + n)
    BY <1>4, <1>9 DEF Gone
  <2> QED
    BY <2>1, <1>6 DEF Gone, len
<1>11. Room \in Nat /\ Room' \in Nat /\ Room <= Room'
  BY <1>6, <1>9, Sizes DEF Room, len
<1>12. \A b \in 1 .. len + n : outbound'[b] = Gone + b
  <2> TAKE b \in 1 .. len + n
  <2>1. CASE b <= len
    <3>1. b \in 1 .. Len(outbound) /\ outbound'[b] = outbound[b]
      BY <2>1, <1>6, <1>9 DEF len
    <3>2. outbound[b] = Gone + b
      BY <3>1, <1>5 DEF Queued
    <3> QED
      BY <3>1, <3>2
  <2>2. CASE b > len
    <3>1. outbound'[b] = more[b - len] /\ b - len \in 1 .. n
      BY <2>2, <1>6, <1>9
    <3>2. more[b - len] = produced + (b - len)
      BY <3>1, <1>7
    <3> QED
      BY <3>1, <3>2, <1>6, <1>10
  <2> QED
    BY <1>6, <2>1, <2>2
<1>13. Queued'
  <2>1. Len(outbound') <= produced'
    BY <1>4, <1>6, <1>9
  <2>2. Len(inflight') <= Room'
    BY <1>4, <1>5, <1>11 DEF Queued, Types
  <2>3. \A b \in 1 .. Len(inflight') : inflight'[b] = Gone' + b
    BY <1>4, <1>5, <1>10 DEF Queued
  <2> QED
    BY <1>9, <1>10, <1>12, <2>1, <2>2, <2>3 DEF Queued
<1>14. Types'
  BY <1>4, <1>5, <1>6, <1>9 DEF Types
<1>15. SeqHistory(k, g)'
  <2>1. ASSUME NEW p \in Seq(Nat), Fits(p) PROVE Len(p) <= Room'
    BY <2>1, <1>11 DEF Fits
  <2>2. ASSUME NEW i \in 1 .. Len(g), g[i] = k PROVE Fits(answers[i].payload)'
    <3>1. answers[i].payload \in Seq(Nat) /\ Fits(answers[i].payload)
      <4>1. i \in 1 .. Len(answers) /\ answers \in Seq(Telling) /\ Fits(answers[i].payload)
        BY <2>2, <1>1, <1>5 DEF SeqHistory, Types
      <4>2. answers[i] \in Telling
        BY <4>1
      <4> QED
        BY <4>1, <4>2 DEF Telling
    <3> QED
      BY <3>1, <2>1, <1>4, <1>10 DEF Fits
  <2> QED
    BY <1>1, <1>4, <2>2 DEF SeqHistory
<1>16. InOrder(k, e, g)'
  <2>1. client.got \in Seq(Nat)
    BY <1>5 DEF Types
  <2>2. Gone + Room \in Nat /\ Gone + Room' \in Nat /\ Gone + Room <= Gone + Room'
    BY <1>10, <1>11
  <2>3. UpTo(client.got, Gone + Room')
    <3>1. PICK x \in Nat, y \in Nat : x = Gone + Room /\ y = Gone + Room'
      BY <2>2
    <3>2. UpTo(client.got, x)
      BY <1>1, <3>1 DEF InOrder
    <3>3. UpTo(client.got, y)
      BY <2>1, <2>2, <3>1, <3>2, Higher
    <3> QED
      BY <3>1, <3>3
  <2>4. UpTo(client.got, Gone + Room)'
    BY <2>3, <1>4, <1>10 DEF UpTo
  <2> QED
    BY <1>1, <1>4, <1>10, <2>4 DEF InOrder, UpTo, Before, Increasing
<1>17. presumed' \/ Acknowledged(k)'
  <2>1. CASE presumed
    BY <2>1, <1>4, Zenon
  <2>2. CASE Acknowledged(k)
    <3>1. PICK h \in Seq(Nat) : AckHistory(k, h)
      BY <2>2 DEF Acknowledged
    <3>2. AckHistory(k, h)'
      BY <3>1, <1>4 DEF AckHistory
    <3>3. Delivered(k)'
      BY <2>2, <1>4, <1>10 DEF Acknowledged, Delivered
    <3> QED
      BY <3>2, <3>3 DEF Acknowledged
  <2> QED
    BY <1>1, <2>1, <2>2
<1>18. seqOut' = k % SeqSpace
  BY <1>1, <1>4
<1> QED
  BY <1>13, <1>14, <1>15, <1>16, <1>17, <1>18 DEF DownInv, DownHistory

\* The chunk in flight is forgotten, its bytes stay queued.
LEMMA DownExpire ==
    ASSUME DownInv, ExpireInFlight
    PROVE  DownInv'
<1>1. PICK k \in Nat, e \in Nat, g \in Seq(Nat) :
             /\ seqOut = k % SeqSpace /\ SeqHistory(k, g) /\ InOrder(k, e, g)
             /\ presumed \/ Acknowledged(k)
  BY DEF DownInv, DownHistory
<1>4. /\ queries' = queries /\ client' = client /\ inflight' = <<>> /\ seqOut' = seqOut
      /\ answers' = answers /\ cut' = cut /\ recut' = recut /\ presumed' = presumed
      /\ produced' = produced /\ outbound' = outbound
  BY DEF ExpireInFlight, chunkHistory
<1>5. Types /\ Queued
  BY DEF DownInv
<1>6. Gone' = Gone /\ Room' = Room /\ Room \in Nat
  BY <1>4, <1>5, Sizes DEF Gone, Room, Types
<1>7. <<>> \in Seq(Nat) /\ Len(<<>>) = 0
  OBVIOUS
<1>8. Types' /\ Queued'
  BY <1>4, <1>5, <1>6, <1>7 DEF Types, Queued
<1>9. SeqHistory(k, g)'
  BY <1>1, <1>4, <1>6 DEF SeqHistory, Fits
<1>10. InOrder(k, e, g)'
  BY <1>1, <1>4, <1>6 DEF InOrder, UpTo, Before, Increasing
<1>11. presumed' \/ Acknowledged(k)'
  <2>1. CASE presumed
    BY <2>1, <1>4, Zenon
  <2>2. CASE Acknowledged(k)
    <3>1. PICK h \in Seq(Nat) : AckHistory(k, h)
      BY <2>2 DEF Acknowledged
    <3>2. AckHistory(k, h)'
      BY <3>1, <1>4 DEF AckHistory
    <3>3. Delivered(k)'
      BY <2>2, <1>4, <1>6 DEF Acknowledged, Delivered
    <3> QED
      BY <3>2, <3>3 DEF Acknowledged
  <2> QED
    BY <1>1, <2>1, <2>2
<1>12. seqOut' = k % SeqSpace
  BY <1>1, <1>4
<1> QED
  BY <1>8, <1>9, <1>10, <1>11, <1>12 DEF DownInv, DownHistory

\* The client takes no chunk that does not come after all it has: an answer is
\* less than SeqSpace numbers behind, and so is what the client expects ahead of it.
LEMMA OrderReceived ==
    ASSUME Types, Queued, NEW k \in Nat, NEW e \in Nat, NEW g \in Seq(Nat), SeqHistory(k, g), InOrder(k, e, g),
           NEW i \in Nat, ReceiveAnswer(i)
    PROVE  \E ee \in Nat : InOrder(k, ee, g)'
<1> DEFINE p == answers[i].payload
           new == p # <<>> /\ answers[i].seq = client.accepted % SeqSpace
           got == client.got
<1>1. /\ outbound' = outbound /\ inflight' = inflight /\ produced' = produced /\ answers' = answers
      /\ i \in 1 .. Len(answers)
  BY DEF ReceiveAnswer, server
<1>2. /\ client'.got = IF new THEN got \o p ELSE got
      /\ client'.accepted = IF new THEN client.accepted + 1 ELSE client.accepted
  BY DEF ReceiveAnswer
<1>3. answers[i] \in Telling
  BY <1>1 DEF Types
<1>4. p \in Seq(Nat) /\ got \in Seq(Nat) /\ client.accepted \in Nat
  BY <1>3 DEF Telling, Types
<1>5. Gone' = Gone /\ Room' = Room
  BY <1>1 DEF Gone, Room
<1>6. CASE ~new
  <2>1. client'.got = client.got /\ client'.accepted = client.accepted
    BY <1>2, <1>6
  <2> QED
    BY <2>1, <1>1, <1>5, ZenonT(40) DEF InOrder, UpTo, Before, Increasing
<1>7. CASE new
  <2>20. i \in 1 .. Len(g) /\ g[i] \in Nat /\ Len(g) <= Reach /\ Len(g) \in Nat
    <3>1. i \in 1 .. Len(g) /\ Len(g) <= Reach
      BY <1>1 DEF SeqHistory, Types
    <3> QED
      BY <3>1
  <2>21. PICK x \in Nat : x = g[i]
    BY <2>20
  <2>1. i \in 1 .. Len(g) /\ x \in Nat /\ Len(g) <= Reach /\ Len(g) \in Nat /\ x = g[i]
    BY <2>20, <2>21
  <2>2. x <= k /\ k <= x + (Len(g) - i) /\ answers[i].seq = x % SeqSpace
    <3>1. g[i] <= k /\ k <= g[i] + (Len(g) - i) /\ answers[i].seq = g[i] % SeqSpace
      BY <2>1 DEF SeqHistory
    <3> QED
      BY <3>1, <2>1
  <2>3. e \in 0 .. k + 1 /\ x % SeqSpace = e % SeqSpace
    BY <2>2, <1>7 DEF InOrder
  <2>4. e <= x
    <3> SUFFICES ASSUME x < e PROVE FALSE
      BY <2>1
    <3> DEFINE y == x
               n == Len(g)
    <3>1. y \in Nat /\ n \in Nat /\ n <= Reach /\ i \in 1 .. n /\ y <= k /\ k <= y + (n - i) /\ y < e /\ e <= k + 1
      BY <2>1, <2>2, <2>3
    <3>2. Reach \in Nat /\ SeqSpace \in Int /\ SeqSpace > 0 /\ Reach < SeqSpace
      BY Sizes
    <3>3. y % SeqSpace = e % SeqSpace
      BY <2>3
    <3> HIDE DEF y, n
    <3>4. y \in Int /\ e \in Int /\ y # e /\ y - e < SeqSpace /\ e - y < SeqSpace
      BY <3>1, <3>2
    <3>5. y % SeqSpace # e % SeqSpace
      BY <3>2, <3>4, ModNear
    <3> QED
      BY <3>3, <3>5
  <2>5. Before(got, p) /\ Increasing(p) /\ Increasing(got)
    <3>1. e <= g[i]
      BY <2>1, <2>4
    <3> QED
      BY <3>1, <2>1 DEF InOrder
  <2> DEFINE all == client'.got
  <2>6. all = got \o p
    BY <1>2, <1>7
  <2>7. /\ Increasing(all)
        /\ \A n \in Nat : UpTo(got, n) /\ UpTo(p, n) => UpTo(all, n)
        /\ \A u \in Seq(Nat) : Before(got, u) /\ Before(p, u) => Before(all, u)
    BY <1>4, <2>5, <2>6, Joined
  <2>8. PICK ee \in Nat : ee = x + 1
    BY <2>1
  <2>9. ee \in 0 .. k + 1
    BY <2>1, <2>2, <2>8, SMTT(40)
  <2>10. client'.accepted % SeqSpace = ee % SeqSpace
    <3>1. client'.accepted = client.accepted + 1 /\ client.accepted % SeqSpace = x % SeqSpace
      BY <1>2, <1>7, <2>2
    <3>2. (client.accepted + 1) % SeqSpace = ((client.accepted % SeqSpace) + 1) % SeqSpace
      <4>1. client.accepted \in Int /\ 1 \in Int
        BY <1>4
      <4> QED
        BY <4>1, Sizes, ModPlus
    <3>3. (x + 1) % SeqSpace = ((x % SeqSpace) + 1) % SeqSpace
      <4>1. x \in Int /\ 1 \in Int
        BY <2>1
      <4> QED
        BY <4>1, Sizes, ModPlus
    <3> QED
      BY <2>8, <3>1, <3>2, <3>3, Zenon
  <2>11. Gone \in Nat /\ Room \in Nat /\ Len(inflight) \in Nat
    BY Measures
  <2>12. x < k => UpTo(got, Gone) /\ UpTo(p, Gone)
    <3>1. x < k => e <= k /\ g[i] < k
      BY <2>1, <2>3, <2>4
    <3> QED
      BY <3>1, <2>1 DEF InOrder
  <2>13. ee <= k => UpTo(all, Gone)
    <3>1. ee <= k => x < k
      BY <2>1, <2>8
    <3> QED
      BY <3>1, <2>7, <2>11, <2>12
  \* The chunk of the present number is within what may be in flight.
  <2>14. ASSUME NEW m \in Nat, UpTo(got, Gone + m), Fits(p) => Len(p) <= m
         PROVE  UpTo(all, Gone + m)
    <3>1. PICK z \in Nat : z = Gone + m
      BY <2>11
    <3>2. CASE x < k
      <4>1. UpTo(p, z)
        BY <3>1, <3>2, <1>4, <2>11, <2>12, Higher
      <4> QED
        BY <4>1, <3>1, <2>7, <2>14
    <3>3. CASE x = k
      <4>1. Fits(p)
        <5>1. g[i] = k
          BY <3>3, <2>1
        <5> QED
          BY <5>1, <2>1 DEF SeqHistory
      <4>2. \A c \in 1 .. Len(p) : p[c] = Gone + c
        BY <4>1 DEF Fits
      <4>3. PICK y \in Nat : y = Gone + Len(p)
        BY <1>4, <2>11
      <4>4. UpTo(p, y)
        BY <4>2, <4>3, <1>4, <2>11, RunInOrder
      <4>5. y <= z
        BY <4>1, <4>3, <3>1, <1>4, <2>11, <2>14
      <4>6. UpTo(p, z)
        BY <4>4, <4>5, <1>4, Higher
      <4> QED
        BY <4>6, <3>1, <2>7, <2>14
    <3> QED
      BY <3>2, <3>3, <2>1, <2>2
  <2>15. UpTo(all, Gone + Room)
    <3>1. UpTo(got, Gone + Room) /\ (Fits(p) => Len(p) <= Room)
      BY DEF InOrder, Fits
    <3> HIDE DEF all, got, p
    <3> QED
      BY <3>1, <2>11, <2>14
  <2>16. inflight # <<>> => UpTo(all, Gone + Len(inflight))
    <3> SUFFICES ASSUME inflight # <<>> PROVE UpTo(all, Gone + Len(inflight))
      OBVIOUS
    <3>1. UpTo(got, Gone + Len(inflight)) /\ (Fits(p) => Len(p) <= Len(inflight))
      BY DEF InOrder, Fits
    <3> HIDE DEF all, got, p
    <3> QED
      BY <3>1, <2>11, <2>14
  <2>17. ASSUME NEW j \in 1 .. Len(g), ee <= g[j] PROVE Before(all, answers[j].payload)
    <3>1. e <= g[j] /\ g[i] < g[j]
      <4>1. PICK y \in Nat : y = g[j]
        BY <2>1, ElementOfSeq, Zenon
      <4>2. e <= y /\ x < y
        BY <4>1, <2>1, <2>4, <2>8, <2>17, SMTT(40)
      <4> QED
        BY <4>1, <4>2, <2>1
    <3>2. Before(got, answers[j].payload) /\ Before(p, answers[j].payload)
      BY <3>1, <2>1 DEF InOrder
    <3>3. answers[j] \in Telling
      BY DEF SeqHistory, Types
    <3>4. answers[j].payload \in Seq(Nat)
      BY <3>3 DEF Telling
    <3> QED
      BY <3>2, <3>4, <2>7
  <2>18. \A j \in 1 .. Len(g) :
            /\ Increasing(answers[j].payload)
            /\ g[j] < k => UpTo(answers[j].payload, Gone)
    BY DEF InOrder
  <2>19. \A j, l \in 1 .. Len(g) : g[j] < g[l] => Before(answers[j].payload, answers[l].payload)
    BY DEF InOrder
  <2> HIDE DEF all
  <2>22. InOrder(k, ee, g)'
    BY <1>1, <1>5, <2>7, <2>9, <2>10, <2>13, <2>15, <2>16, <2>17, <2>18, <2>19
       DEF InOrder, UpTo, Before, Increasing, all
  <2> QED
    BY <2>22
<1> QED
  BY <1>6, <1>7

\* The client accepts the chunk it expects and no other: an answer of another
\* number is less than SeqSpace old.
LEMMA DownReceive ==
    ASSUME DownInv, NEW i \in Nat, ReceiveAnswer(i)
    PROVE  DownInv'
<1>1. PICK k \in Nat, e \in Nat, g \in Seq(Nat) :
             /\ seqOut = k % SeqSpace /\ SeqHistory(k, g) /\ InOrder(k, e, g)
             /\ presumed \/ Acknowledged(k)
  BY DEF DownInv, DownHistory
<1> DEFINE p == answers[i].payload
           new == p # <<>> /\ answers[i].seq = client.accepted % SeqSpace
           got == client.got
           old == Len(got)
<1>4. /\ outbound' = outbound /\ inflight' = inflight /\ produced' = produced /\ seqOut' = seqOut
      /\ queries' = queries /\ answers' = answers /\ cut' = cut /\ recut' = recut
      /\ presumed' = presumed /\ i \in 1 .. Len(answers)
  BY DEF ReceiveAnswer, server, chunkHistory
<1>5. /\ client'.got = IF new THEN got \o p ELSE got
      /\ client'.accepted = IF new THEN client.accepted + 1 ELSE client.accepted
      /\ client'.answered = IF answers[i].frame = Nothing THEN client.answered
                            ELSE client.answered \cup {answers[i].frame}
      /\ client' = [got |-> client'.got, accepted |-> client'.accepted, answered |-> client'.answered]
  BY DEF ReceiveAnswer
<1>6. Types /\ Queued
  BY DEF DownInv
<1>7. answers[i] \in Telling
  BY <1>4, <1>6 DEF Types
<1>8. p \in Seq(Nat) /\ answers[i].frame \in Nat \cup {Nothing} /\ got \in Seq(Nat)
      /\ client.answered \in SUBSET Nat /\ client.accepted \in Nat
  BY <1>6, <1>7 DEF Telling, Types
<1> HIDE DEF p, got
<1>9. old \in Nat /\ Len(p) \in Nat /\ \A b \in 1 .. old : got[b] \in Nat
  <2>1. p \in Seq(Nat) /\ got \in Seq(Nat)
    BY <1>8
  <2> QED
    BY <2>1
<1>10. /\ got \o p \in Seq(Nat) /\ Len(got \o p) = old + Len(p)
       /\ \A b \in 1 .. old + Len(p) : (got \o p)[b] = IF b <= old THEN got[b] ELSE p[b - old]
  <2> DEFINE T == Nat
  <2>1. got \in Seq(T) /\ p \in Seq(T)
    BY <1>8
  <2> HIDE DEF T
  <2>2. /\ got \o p \in Seq(T) /\ Len(got \o p) = Len(got) + Len(p)
        /\ \A b \in 1 .. Len(got) + Len(p) : (got \o p)[b] = IF b <= Len(got) THEN got[b] ELSE p[b - Len(got)]
    BY <2>1, ConcatProperties
  <2> QED
    BY <2>2 DEF T
<1>11. Types'
  <2>1. client'.got \in Seq(Nat) /\ client'.accepted \in Nat /\ client'.answered \in SUBSET Nat
    <3>1. client'.got \in Seq(Nat)
      BY <1>5, <1>8, <1>10, Zenon
    <3>2. client'.accepted \in Nat
      BY <1>5, <1>8
    <3>3. client'.answered \in SUBSET Nat
      BY <1>5, <1>8 DEF Nothing
    <3> QED
      BY <3>1, <3>2, <3>3
  <2>2. client' \in [got : Seq(Nat), accepted : Nat, answered : SUBSET Nat]
    BY <1>5, <2>1
  <2> QED
    BY <1>4, <1>6, <2>2 DEF Types
<1>12. Gone' = Gone /\ Room' = Room /\ Queued'
  BY <1>4, <1>6 DEF Gone, Room, Queued
<1>13. Gone \in Nat /\ Room \in Nat
  BY <1>6, Sizes DEF Gone, Room, Types, Queued
\* Only the present chunk is new, and only to a client that has not got it.
<1>14. new /\ client.accepted \in {k, k + 1} => client.accepted = k /\ Fits(p)
  <2> SUFFICES ASSUME new, client.accepted \in {k, k + 1} PROVE client.accepted = k /\ Fits(p)
    OBVIOUS
  <2>1. i \in 1 .. Len(g) /\ g[i] \in Nat /\ Len(g) <= Reach /\ Len(g) \in Nat
    <3>1. g \in Seq(Nat) /\ i \in 1 .. Len(g)
      BY <1>1, <1>4 DEF SeqHistory
    <3>2. Len(g) <= Reach
      BY <1>1, <1>6 DEF SeqHistory, Types
    <3> QED
      BY <3>1, <3>2
  <2>2. g[i] <= k /\ k <= g[i] + (Len(g) - i) /\ answers[i].seq = g[i] % SeqSpace
    BY <2>1, <1>1 DEF SeqHistory
  <2>3. g[i] % SeqSpace = client.accepted % SeqSpace
    BY <2>2
  <2>4. client.accepted - g[i] < SeqSpace /\ g[i] - client.accepted < SeqSpace
    <3> DEFINE a == client.accepted
               b == g[i]
               n == Len(g)
    <3>1. Reach \in Nat /\ SeqSpace \in Int /\ Reach < SeqSpace
      BY Sizes
    <3>2. a \in {k, k + 1} /\ b \in Nat /\ n \in Nat /\ n <= Reach /\ i \in 1 .. n /\ b <= k /\ k <= b + (n - i)
      BY <2>1, <2>2
    <3> HIDE DEF a, b, n
    <3>3. a - b < SeqSpace /\ b - a < SeqSpace
      BY <3>1, <3>2
    <3> QED
      BY <3>3 DEF a, b
  <2>5. g[i] = client.accepted
    <3> DEFINE a == client.accepted
               b == g[i]
    <3>1. a \in Int /\ b \in Int
      BY <1>8, <2>1
    <3> HIDE DEF a, b
    <3>2. a - b < SeqSpace /\ b - a < SeqSpace /\ b % SeqSpace = a % SeqSpace
      BY <2>3, <2>4 DEF a, b
    <3>3. a = b
      BY <3>1, <3>2, Sizes, ModNear
    <3> QED
      BY <3>3 DEF a, b
  <2>6. g[i] = k
    BY <2>1, <2>2, <2>5
  <2> QED
    BY <2>1, <2>5, <2>6, <1>1 DEF SeqHistory, p
<1>15. ASSUME NEW h \in Seq(Nat), AckHistory(k, h) PROVE AckHistory(k, h)'
  <2>1. client.accepted <= client'.accepted
    BY <1>5, <1>8
  <2>2. \A n \in 1 .. Len(h) : h[n] \in Nat /\ h[n] <= client'.accepted
    <3>1. \A n \in 1 .. Len(h) : h[n] \in Nat /\ h[n] <= client.accepted
      BY <1>15 DEF AckHistory
    <3>2. client.accepted \in Nat /\ client'.accepted \in Nat
      BY <1>8, <1>11 DEF Types
    <3> QED
      BY <2>1, <3>1, <3>2
  <2> QED
    BY <2>2, <1>15, <1>4 DEF AckHistory
<1>16. SeqHistory(k, g)'
  BY <1>1, <1>4, <1>12 DEF SeqHistory, Fits
<1>17. ASSUME Delivered(k) PROVE Delivered(k)'
  <2>1. CASE ~new
    <3>1. client'.got = client.got /\ client'.accepted = client.accepted
      BY <2>1, <1>5 DEF got
    <3> QED
      BY <3>1, <1>4, <1>12, <1>17 DEF Delivered
  <2>2. CASE new
    <3>1. /\ client.accepted = k /\ client'.accepted = k + 1 /\ client'.got = got \o p /\ p # <<>>
          /\ Fits(p)
      BY <2>2, <1>5, <1>14, <1>17 DEF Delivered
    <3> DEFINE all == client'.got
    <3>2. /\ Len(all) = old + Len(p)
          /\ \A b \in 1 .. old + Len(p) : all[b] = IF b <= old THEN got[b] ELSE p[b - old]
      BY <3>1, <1>10
    <3> HIDE DEF all, old
    <3>3. (\A b \in 1 .. Len(p) : p[b] = Gone + b) /\ (~recut => p = cut)
      BY <3>1 DEF Fits
    <3>4. ASSUME ~recut
          PROVE  cut # <<>> /\ Len(all) = Gone + Len(cut) /\ \A b \in 1 .. Gone + Len(cut) : all[b] = b
      <4>1. p = cut /\ old = Gone /\ \A b \in 1 .. Gone : got[b] = b
        BY <3>1, <3>3, <3>4, <1>17 DEF Delivered, got, old
      <4>2. ASSUME NEW b \in 1 .. Gone + Len(p) PROVE all[b] = b
        <5>1. CASE b <= old
          <6>1. b \in 1 .. Gone /\ all[b] = got[b]
            BY <5>1, <4>1, <3>2, <1>9
          <6> QED
            BY <6>1, <4>1
        <5>2. CASE b > old
          <6>1. b - old \in 1 .. Len(p) /\ all[b] = p[b - old]
            BY <5>2, <4>1, <3>2, <1>9
          <6>2. p[b - old] = Gone + (b - old)
            BY <6>1, <3>3
          <6> QED
            BY <6>1, <6>2, <4>1, <1>9
        <5> QED
          BY <5>1, <5>2, <4>1, <1>9
      <4> QED
        BY <4>1, <4>2, <3>1, <3>2
    <3>5. ~recut /\ inflight # <<>> => inflight = cut
      BY <1>17 DEF Delivered
    <3>6. client'.accepted # k
      BY <3>1
    <3> QED
      BY <3>1, <3>4, <3>5, <3>6, <1>4, <1>12 DEF Delivered, all
  <2> QED
    BY <2>1, <2>2
<1>18. PICK ee \in Nat : InOrder(k, ee, g)'
  BY <1>1, <1>6, OrderReceived
<1>19. presumed' \/ Acknowledged(k)'
  <2>1. CASE presumed
    BY <2>1, <1>4, Zenon
  <2>2. CASE Acknowledged(k)
    BY <2>2, <1>15, <1>17 DEF Acknowledged
  <2> QED
    BY <1>1, <2>1, <2>2
<1>20. seqOut' = k % SeqSpace
  BY <1>1, <1>4
<1> QED
  BY <1>11, <1>12, <1>16, <1>18, <1>19, <1>20 DEF DownInv, DownHistory

\* An acknowledgement of the present sequence number is one of the chunk in
\* flight: no query is so old that the number stands for an earlier one.
LEMMA AcknowledgesThis ==
    ASSUME Types, NEW k \in Nat, seqOut = k % SeqSpace, client.accepted \in {k, k + 1},
           NEW h, AckHistory(k, h), NEW i \in 1 .. Len(queries), Commits(queries[i]), queries[i].ack # Nothing
    PROVE  client.accepted = k + 1 /\ AckHistory(k + 1, h)
<1> DEFINE n == Len(h)
           a == h[i]
           z == h[n]
<1>1. n \in Nat /\ n <= Reach /\ i \in 1 .. n /\ n \in 1 .. n /\ h \in Seq(Nat)
  BY DEF Types, AckHistory
<1>2. a \in Nat /\ z \in Nat
  BY <1>1
<1>3. a <= client.accepted /\ a <= z /\ z <= a + (n - i) /\ k <= z /\ z <= client.accepted
  <2>1. a <= client.accepted /\ z <= client.accepted /\ k <= z
    BY <1>1 DEF AckHistory
  <2>2. i <= n
    BY <1>1
  <2>3. a <= z /\ z <= a + (n - i)
    BY <1>1, <2>2 DEF AckHistory
  <2> QED
    BY <2>1, <2>3
<1>4. queries[i].ack = k % SeqSpace
  BY DEF Commits
<1>5. queries[i].ack = IF a = 0 THEN Nothing ELSE (a - 1) % SeqSpace
  BY <1>1 DEF AckHistory
<1>6. k % SeqSpace \in 0 .. SeqSpace - 1
  BY Sizes, ModParts
<1> DEFINE c == client.accepted
<1>7. c \in {k, k + 1} /\ Reach \in Nat /\ SeqSpace \in Int /\ SeqSpace > 0 /\ Reach < SeqSpace
  BY Sizes
<1> HIDE DEF a, z, n
<1>8. a # 0 /\ (a - 1) % SeqSpace = k % SeqSpace
  BY <1>4, <1>5, <1>6, <1>7 DEF Nothing
<1>9. a - 1 = k
  <2> DEFINE b == a - 1
  <2>1. b \in Int /\ b - k < SeqSpace /\ k - b < SeqSpace
    BY <1>1, <1>2, <1>3, <1>7
  <2>2. b % SeqSpace = k % SeqSpace
    BY <1>8
  <2> HIDE DEF b
  <2>4. SeqSpace \in Int /\ SeqSpace > 0 /\ k \in Int
    BY <1>7
  <2>5. b # k => b % SeqSpace # k % SeqSpace
    BY <2>1, <2>4, ModNear
  <2>3. b = k
    BY <2>2, <2>5, Zenon
  <2> QED
    BY <2>3 DEF b
<1>10. c = k + 1 /\ k + 1 <= z
  BY <1>2, <1>3, <1>7, <1>9
<1> QED
  BY <1>10 DEF AckHistory, z, n

\* An answer that is sent comes after all that is on its way under a lower number.
LEMMA OrderAnswered ==
    ASSUME Types, Types', NEW k \in Nat, NEW e \in Nat, NEW g \in Seq(Nat), SeqHistory(k, g), InOrder(k, e, g),
           NEW kk \in {k, k + 1}, NEW gg \in Seq(Nat), Continues(g, kk, inflight', gg),
           client' = client, Queued', Gone \in Nat, Gone' \in Nat,
           kk = k => /\ Gone' = Gone /\ Room' = Room
                     /\ inflight # <<>> => inflight' = inflight
                     /\ inflight = <<>> => Len(inflight') = Room,
           kk = k + 1 => inflight # <<>> /\ Gone' = Gone + Len(inflight)
    PROVE  InOrder(kk, e, gg)'
<1> DEFINE p == inflight'
           got == client.got
           P(i) == answers[i].payload
           Q(i) == answers'[i].payload
<1>1. /\ p \in Seq(Nat) /\ got \in Seq(Nat) /\ Len(p) \in Nat /\ Len(inflight) \in Nat /\ kk \in Nat
      /\ \A c \in 1 .. Len(p) : p[c] = Gone' + c
      /\ k + 1 # k
  <2>1. p \in Seq(Nat) /\ got \in Seq(Nat) /\ inflight \in Seq(Nat)
    BY DEF Types
  <2> QED
    BY <2>1 DEF Queued
<1>2. Increasing(p) /\ UpTo(p, Gone' + Len(p))
  BY <1>1, RunInOrder
\* Everything under a lower number than this is off the queue.
<1>3. ASSUME NEW t \in Seq(Nat), UpTo(t, Gone) PROVE UpTo(t, Gone')
  <2>1. Gone <= Gone'
    BY <1>1
  <2> QED
    BY <2>1, <1>3, Higher
<1>4. ASSUME NEW i \in 1 .. Len(g) PROVE P(i) \in Seq(Nat) /\ g[i] \in Nat /\ g[i] <= k
  <2>1. answers[i] \in Telling
    BY DEF SeqHistory, Types
  <2> QED
    BY <2>1, SMTT(40) DEF Telling, SeqHistory
<1>5. ASSUME NEW i \in 1 .. Len(g), g[i] < kk PROVE UpTo(P(i), Gone')
  <2>1. CASE g[i] < k
    BY <2>1, <1>3, <1>4 DEF InOrder
  <2>2. CASE g[i] = k
    <3>1. kk = k + 1 /\ inflight # <<>> /\ Gone' = Gone + Len(inflight)
      BY <2>2, <1>5
    <3>2. Fits(P(i))
      BY <2>2 DEF SeqHistory
    <3>3. PICK t \in Seq(Nat) : t = P(i)
      BY <1>4
    <3>4. Len(t) <= Len(inflight) /\ \A c \in 1 .. Len(t) : t[c] = Gone + c
      BY <3>1, <3>2, <3>3 DEF Fits
    <3>5. PICK z \in Nat : z = Gone + Len(t)
      OBVIOUS
    <3>6. UpTo(t, z)
      BY <3>4, <3>5, RunInOrder
    <3>7. z <= Gone'
      BY <3>1, <3>4, <3>5, <1>1
    <3> QED
      BY <3>3, <3>6, <3>7, Higher
  <2> QED
    BY <1>4, <2>1, <2>2
<1>6. e <= kk => UpTo(got, Gone')
  <2>1. CASE kk = k
    BY <2>1 DEF InOrder
  <2>2. CASE kk = k + 1
    BY <2>2 DEF InOrder
  <2> QED
    BY <2>1, <2>2
<1>7. UpTo(got, Gone' + Room') /\ (p # <<>> => UpTo(got, Gone' + Len(p)))
  <2>0. Room' \in Nat
    BY Sizes DEF Types, Room
  <2>1. CASE kk = k
    BY <2>1 DEF InOrder
  <2>2. CASE kk = k + 1
    <3>1. UpTo(got, Gone')
      BY <2>2 DEF InOrder
    <3>2. UpTo(got, Gone' + Room')
      BY <3>1, <1>1, <2>0, HigherBy
    <3>3. UpTo(got, Gone' + Len(p))
      BY <3>1, <1>1, HigherBy
    <3> QED
      BY <3>2, <3>3
  <2> QED
    BY <2>1, <2>2
<1>8. e \in 0 .. kk + 1 /\ client.accepted % SeqSpace = e % SeqSpace /\ Increasing(got)
  BY DEF InOrder
<1>9. Len(gg) = Len(answers') /\ \A i \in 1 .. Len(gg) :
          /\ gg[i] \in Nat /\ gg[i] <= kk
          /\ \/ gg[i] = kk /\ Q(i) = p
             \/ \E j \in 1 .. Len(g) : gg[i] = g[j] /\ Q(i) = P(j)
  <2>1. \A i \in 1 .. Len(gg) : gg[i] \in Nat
    BY ElementOfSeq, Zenon
  <2>2. Len(gg) = Len(answers') /\ \A i \in 1 .. Len(gg) :
          /\ gg[i] <= kk
          /\ \/ gg[i] = kk /\ Q(i) = p
             \/ \E j \in 1 .. Len(g) : gg[i] = g[j] /\ Q(i) = P(j)
    BY Zenon DEF Continues
  <2> QED
    BY <2>1, <2>2, Zenon
<1> HIDE DEF p, got, P, Q
<1>10. ASSUME NEW i \in 1 .. Len(gg)
       PROVE  /\ Increasing(Q(i))
              /\ gg[i] < kk => UpTo(Q(i), Gone')
              /\ e <= gg[i] => Before(got, Q(i))
  <2>1. CASE gg[i] = kk /\ Q(i) = p
    <3>1. e <= kk => Before(got, p)
      BY <1>1, <1>6, Follows DEF p
    <3> QED
      BY <2>1, <3>1, <1>1, <1>2
  <2>2. ASSUME NEW j \in 1 .. Len(g), gg[i] = g[j], Q(i) = P(j)
        PROVE  /\ Increasing(Q(i))
               /\ gg[i] < kk => UpTo(Q(i), Gone')
               /\ e <= gg[i] => Before(got, Q(i))
    <3>1. Increasing(P(j)) /\ (e <= g[j] => Before(got, P(j)))
      BY DEF InOrder, P, got
    <3> QED
      BY <2>2, <3>1, <1>5
  <2> QED
    BY <1>9, <2>1, <2>2
<1>11. ASSUME NEW i \in 1 .. Len(gg), NEW j \in 1 .. Len(gg), gg[i] < gg[j] PROVE Before(Q(i), Q(j))
  <2>1. PICK a \in 1 .. Len(g) : gg[i] = g[a] /\ Q(i) = P(a)
    <3>1. gg[i] # kk
      BY <1>9, <1>11, <1>1, SMTT(40)
    <3> QED
      BY <3>1, <1>9
  <2>2. CASE gg[j] = kk /\ Q(j) = p
    <3>1. UpTo(P(a), Gone')
      BY <2>1, <2>2, <1>5, <1>11
    <3>2. P(a) \in Seq(Nat)
      BY <1>4
    <3>3. Before(P(a), p)
      BY <3>1, <3>2, <1>1, Follows DEF p
    <3> QED
      BY <2>1, <2>2, <3>3
  <2>3. ASSUME NEW b \in 1 .. Len(g), gg[j] = g[b], Q(j) = P(b) PROVE Before(Q(i), Q(j))
    <3>1. g[a] < g[b]
      BY <2>1, <2>3, <1>11
    <3>2. Before(P(a), P(b))
      BY <3>1 DEF InOrder, P
    <3> QED
      BY <2>1, <2>3, <3>2
  <2> QED
    BY <1>9, <2>2, <2>3
<1> QED
  BY <1>6, <1>7, <1>8, <1>10, <1>11 DEF InOrder, UpTo, Before, Increasing, p, got, Q

\* A query that acknowledges the chunk in flight, or stands for one that does.
LEMMA DownCommit ==
    ASSUME DownInv, NEW i \in Nat, Ingest(i), Commits(queries[i])
    PROVE  DownInv'
<1>1. PICK k \in Nat, e \in Nat, g \in Seq(Nat) :
             /\ seqOut = k % SeqSpace /\ SeqHistory(k, g) /\ InOrder(k, e, g)
             /\ presumed \/ Acknowledged(k)
  BY DEF DownInv, DownHistory
<1>4. Types /\ Queued
  BY DEF DownInv
<1>5. /\ queries' = queries /\ client' = client /\ produced' = produced /\ i \in 1 .. Len(queries)
      /\ answers' = Push(answers, [frame |-> queries[i].frame, seq |-> seqOut', payload |-> inflight'])
      /\ presumed' = (presumed \/ queries[i].ack = Nothing)
  BY DEF Ingest
<1>7. /\ outbound' \in Seq(Nat) /\ inflight' \in Seq(Nat) /\ Queued'
      /\ Gone' = Gone + Len(inflight) /\ Gone' \in Nat /\ Len(inflight) > 0
      /\ seqOut' = (seqOut + 1) % SeqSpace
      /\ cut' = inflight' /\ recut' = recut
  BY <1>4, Committed
<1>8. k + 1 \in Nat /\ (k + 1) % SeqSpace \in Int /\ k \in Int /\ 1 \in Int
  <2> DEFINE m == k + 1
  <2>1. m \in Int
    OBVIOUS
  <2> HIDE DEF m
  <2>2. m % SeqSpace \in Int
    BY <2>1, Sizes, ModParts
  <2> QED
    BY <2>2 DEF m
<1>9. seqOut' = (k + 1) % SeqSpace
  BY <1>1, <1>7, <1>8, Sizes, ModPlus
<1> DEFINE kk == k + 1
<1>10. kk \in {k, k + 1} /\ kk \in Nat /\ kk = k + 1
  OBVIOUS
<1>11. queries[i] \in Asking
  BY <1>4, <1>5 DEF Types
<1>12. queries[i].frame \in Nat \cup {Nothing}
  BY <1>11 DEF Asking
<1> HIDE DEF kk
<1>13. /\ answers' \in Seq(Telling) /\ Len(answers') <= Reach
       /\ \E gg \in Seq(Nat) : Continues(g, kk, inflight', gg)
  <2>1. PICK frame \in Nat \cup {Nothing} : frame = queries[i].frame
    BY <1>12
  <2>2. PICK payload \in Seq(Nat) : payload = inflight'
    BY <1>7
  <2>3. answers' = Push(answers, [frame |-> frame, seq |-> kk % SeqSpace, payload |-> payload])
    BY <2>1, <2>2, <1>5, <1>9, <1>10
  <2>4. Types /\ SeqHistory(k, g)
    BY <1>1, <1>4
  <2>5. /\ answers' \in Seq(Telling) /\ Len(answers') <= Reach
        /\ \E gg \in Seq(Nat) : Continues(g, kk, payload, gg)
    BY <2>3, <2>4, <1>10, Answered
  <2> QED
    BY <2>2, <2>5
<1>14. PICK gg \in Seq(Nat) : Continues(g, kk, inflight', gg)
  BY <1>13
<1>15. Types'
  <2>1. cut' \in Seq(Nat) /\ recut' \in BOOLEAN /\ presumed' \in BOOLEAN
    BY <1>4, <1>5, <1>7, Zenon DEF Types
  <2>2. seqOut' \in Int
    BY <1>8, <1>9
  <2> QED
    BY <1>4, <1>5, <1>7, <1>13, <2>1, <2>2 DEF Types
<1>17. SeqHistory(kk, gg)'
  <2>1. Len(inflight') <= Room' /\ \A b \in 1 .. Len(inflight') : inflight'[b] = Gone' + b
    BY <1>7 DEF Queued
  <2>2. Len(inflight') \in Nat
    BY <1>7
  <2>3. /\ Len(gg) = Len(answers')
        /\ \A n \in 1 .. Len(gg) : gg[n] <= kk /\ kk <= gg[n] + (Len(gg) - n) /\ answers'[n].seq = gg[n] % SeqSpace
    BY <1>14 DEF Continues
  <2>4. ASSUME NEW n \in 1 .. Len(gg), gg[n] = kk PROVE answers'[n].payload = inflight'
    <3>1. ASSUME NEW j \in 1 .. Len(g), gg[n] = g[j] PROVE FALSE
      <4>1. g[j] \in Nat /\ g[j] <= k
        BY <1>1, SMTT(40) DEF SeqHistory
      <4>2. g[j] = k + 1
        BY <3>1, <2>4, <1>10
      <4> QED
        BY <4>1, <4>2
    <3>2. \/ gg[n] = kk /\ answers'[n].payload = inflight'
          \/ \E j \in 1 .. Len(g) : gg[n] = g[j] /\ answers'[n].payload = answers[j].payload
      BY <1>14 DEF Continues
    <3> QED
      BY <3>1, <3>2, Zenon
  <2>5. ASSUME NEW n \in 1 .. Len(gg), gg[n] = kk PROVE Fits(answers[n].payload)'
    <3>1. PICK p : p = answers'[n].payload /\ p = inflight'
      BY <2>4, <2>5
    <3>2. Len(p) <= Room' /\ Len(p) <= Len(inflight') /\ p = cut' /\ \A b \in 1 .. Len(p) : p[b] = Gone' + b
      BY <3>1, <2>1, <2>2, <1>7
    <3> QED
      BY <3>1, <3>2 DEF Fits
  <2> QED
    BY <2>3, <2>5 DEF SeqHistory
<1>18. Gone \in Nat /\ inflight # <<>>
  BY <1>4 DEF Types, Queued, Gone, Commits
<1>19. InOrder(kk, e, gg)'
  <2>1. kk = k + 1 => inflight # <<>> /\ Gone' = Gone + Len(inflight)
    BY <1>7, <1>18
  <2>2. kk # k
    BY <1>10
  <2> QED
    BY <2>1, <2>2, <1>1, <1>4, <1>5, <1>7, <1>10, <1>14, <1>15, <1>18, OrderAnswered
<1>20. CASE presumed'
  BY <1>7, <1>9, <1>10, <1>15, <1>17, <1>19, <1>20 DEF DownInv, DownHistory
<1>21. CASE ~presumed'
  <2>1. ~presumed /\ queries[i].ack # Nothing
    BY <1>5, <1>21, Zenon
  <2>2. Delivered(k)
    BY <1>1, <2>1 DEF Acknowledged
  <2>3. PICK h \in Seq(Nat) : AckHistory(k, h)
    BY <1>1, <2>1 DEF Acknowledged
  <2>4. client.accepted = k + 1 /\ AckHistory(k + 1, h)
    <3>1. client.accepted \in {k, k + 1}
      BY <2>2 DEF Delivered
    <3> QED
      BY <3>1, <2>1, <2>3, <1>1, <1>4, <1>5, AcknowledgesThis
  <2>5. AckHistory(kk, h)'
    BY <2>3, <2>4, <1>5, <1>10 DEF AckHistory
  <2>6. Delivered(kk)'
    <3>1. client'.accepted = kk /\ client'.got = client.got /\ client'.accepted # kk + 1
      BY <2>4, <1>5, <1>10
    <3>2. ~recut => inflight = cut
      BY <2>2, <1>18 DEF Delivered
    <3>3. ~recut => Len(client.got) = Gone' /\ \A b \in 1 .. Gone' : client.got[b] = b
      BY <2>2, <2>4, <3>2, <1>7 DEF Delivered
    <3> QED
      BY <3>1, <3>3, <1>7 DEF Delivered
  <2>7. Acknowledged(kk)'
    BY <2>5, <2>6 DEF Acknowledged
  <2> QED
    BY <2>7, <1>7, <1>9, <1>10, <1>15, <1>17, <1>19 DEF DownInv, DownHistory
<1> QED
  BY <1>20, <1>21

\* Any other query: the chunk in flight again, or one cut now.
LEMMA DownReplay ==
    ASSUME DownInv, NEW i \in Nat, Ingest(i), ~Commits(queries[i])
    PROVE  DownInv'
<1>1. PICK k \in Nat, e \in Nat, g \in Seq(Nat) :
             /\ seqOut = k % SeqSpace /\ SeqHistory(k, g) /\ InOrder(k, e, g)
             /\ presumed \/ Acknowledged(k)
  BY DEF DownInv, DownHistory
<1>4. Types /\ Queued
  BY DEF DownInv
<1>5. /\ queries' = queries /\ client' = client /\ i \in 1 .. Len(queries)
      /\ answers' = Push(answers, [frame |-> queries[i].frame, seq |-> seqOut', payload |-> inflight'])
      /\ presumed' = (presumed \/ FALSE)
  BY DEF Ingest
<1>6. /\ outbound' = outbound /\ produced' = produced /\ seqOut' = seqOut
      /\ inflight' \in Seq(Nat) /\ Queued'
      /\ inflight # <<>> => inflight' = inflight
      /\ inflight = <<>> => Len(inflight') = Room
      /\ cut' = IF cut = <<>> THEN inflight' ELSE cut
      /\ recut' = (recut \/ (cut # <<>> /\ inflight' # cut))
  BY <1>4, Replayed
<1>7. Gone' = Gone /\ Room' = Room
  BY <1>6 DEF Gone, Room
<1>8. seqOut' = k % SeqSpace /\ k \in {k, k + 1}
  BY <1>1, <1>6
<1>9. queries[i] \in Asking
  BY <1>4, <1>5 DEF Types
<1>10. queries[i].frame \in Nat \cup {Nothing}
  BY <1>9 DEF Asking
<1>11. /\ answers' \in Seq(Telling) /\ Len(answers') <= Reach
       /\ \E gg \in Seq(Nat) : Continues(g, k, inflight', gg)
  <2>1. PICK frame \in Nat \cup {Nothing} : frame = queries[i].frame
    BY <1>10
  <2>2. PICK payload \in Seq(Nat) : payload = inflight'
    BY <1>6
  <2>3. answers' = Push(answers, [frame |-> frame, seq |-> k % SeqSpace, payload |-> payload])
    BY <2>1, <2>2, <1>5, <1>8
  <2>4. Types /\ SeqHistory(k, g)
    BY <1>1, <1>4
  <2>5. /\ answers' \in Seq(Telling) /\ Len(answers') <= Reach
        /\ \E gg \in Seq(Nat) : Continues(g, k, payload, gg)
    BY <2>3, <2>4, <1>8, Answered
  <2> QED
    BY <2>2, <2>5
<1>12. PICK gg \in Seq(Nat) : Continues(g, k, inflight', gg)
  BY <1>11
<1>13. ~recut' => ~recut /\ (cut # <<>> => inflight' = cut /\ cut' = cut) /\ cut' = inflight'
  <2>1. recut' = (recut \/ (cut # <<>> /\ inflight' # cut)) /\ cut' = IF cut = <<>> THEN inflight' ELSE cut
    BY <1>6
  <2> QED
    BY <2>1, Zenon
<1>14. Types'
  <2>1. cut' \in Seq(Nat)
    BY <1>4, <1>6 DEF Types
  <2>2. recut' \in BOOLEAN /\ presumed' \in BOOLEAN
    BY <1>5, <1>6, Zenon
  <2> QED
    BY <1>4, <1>5, <1>6, <1>11, <2>1, <2>2 DEF Types
<1>16. Len(inflight') \in Nat /\ Len(inflight') <= Room /\ \A b \in 1 .. Len(inflight') : inflight'[b] = Gone + b
  BY <1>6, <1>7 DEF Queued
\* What was cut before is no longer than what is in flight now.
<1>17. ASSUME NEW p \in Seq(Nat), p = inflight' \/ Fits(p)
       PROVE  /\ Len(p) <= Room' /\ Len(p) <= Len(inflight')
              /\ \A b \in 1 .. Len(p) : p[b] = Gone' + b
              /\ ~recut' /\ p # <<>> => p = cut'
  <2>1. CASE p = inflight'
    BY <2>1, <1>7, <1>13, <1>16
  <2>2. CASE Fits(p)
    <3>1. Len(p) <= Len(inflight')
      BY <2>2, <1>6 DEF Fits
    <3>2. ~recut' /\ p # <<>> => p = cut'
      BY <2>2, <1>13 DEF Fits
    <3> QED
      BY <2>2, <3>1, <3>2, <1>7 DEF Fits
  <2> QED
    BY <1>17, <2>1, <2>2
<1>18. SeqHistory(k, gg)'
  <2>1. ASSUME NEW n \in 1 .. Len(gg), gg[n] = k PROVE Fits(answers[n].payload)'
    <3>1. PICK p \in Seq(Nat) : p = answers'[n].payload /\ (p = inflight' \/ Fits(p))
      <4>1. CASE answers'[n].payload = inflight'
        BY <4>1, <1>6
      <4>2. ASSUME NEW j \in 1 .. Len(g), gg[n] = g[j], answers'[n].payload = answers[j].payload
            PROVE  \E p \in Seq(Nat) : p = answers'[n].payload /\ (p = inflight' \/ Fits(p))
        <5>1. j \in 1 .. Len(answers) /\ answers \in Seq(Telling) /\ Fits(answers[j].payload)
          BY <2>1, <4>2, <1>1, <1>4 DEF SeqHistory, Types
        <5>2. answers[j] \in Telling
          BY <5>1
        <5>3. answers[j].payload \in Seq(Nat)
          BY <5>2 DEF Telling
        <5> QED
          BY <4>2, <5>1, <5>3
      <4> QED
        BY <2>1, <4>1, <4>2, <1>12 DEF Continues
    <3>2. /\ Len(p) <= Room' /\ Len(p) <= Len(inflight')
          /\ \A b \in 1 .. Len(p) : p[b] = Gone' + b
          /\ ~recut' /\ p # <<>> => p = cut'
      BY <3>1, <1>17
    <3> QED
      BY <3>1, <3>2 DEF Fits
  <2> QED
    BY <2>1, <1>12 DEF SeqHistory, Continues
<1>19. InOrder(k, e, gg)'
  <2>1. Gone \in Nat /\ Gone' \in Nat /\ k # k + 1 /\ k \in {k, k + 1}
    BY <1>4, <1>7 DEF Types, Queued, Gone
  <2> QED
    BY <2>1, <1>1, <1>4, <1>5, <1>6, <1>7, <1>12, <1>14, OrderAnswered
<1>20. ASSUME Delivered(k) PROVE Delivered(k)'
  <2>1. client'.accepted = client.accepted /\ client'.got = client.got
    BY <1>5
  <2>2. ~recut' /\ inflight' # <<>> => inflight' = cut'
    BY <1>13
  <2>3. client.accepted = k + 1 /\ ~recut' =>
            /\ cut' # <<>> /\ Len(client.got) = Gone + Len(cut')
            /\ \A b \in 1 .. Gone + Len(cut') : client.got[b] = b
    BY <1>13, <1>20 DEF Delivered
  <2>4. client.accepted = k /\ ~recut' => Len(client.got) = Gone /\ \A b \in 1 .. Gone : client.got[b] = b
    BY <1>13, <1>20 DEF Delivered
  <2>5. client.accepted \in {k, k + 1}
    BY <1>20 DEF Delivered
  <2> QED
    BY <1>7, <2>1, <2>2, <2>3, <2>4, <2>5 DEF Delivered
<1>21. presumed' \/ Acknowledged(k)'
  <2>1. CASE presumed
    BY <2>1, <1>5, Zenon
  <2>2. CASE Acknowledged(k)
    <3>1. PICK h \in Seq(Nat) : AckHistory(k, h)
      BY <2>2 DEF Acknowledged
    <3>2. AckHistory(k, h)'
      BY <3>1, <1>5 DEF AckHistory
    <3> QED
      BY <2>2, <3>2, <1>20 DEF Acknowledged
  <2> QED
    BY <1>1, <2>1, <2>2
<1> QED
  BY <1>6, <1>8, <1>14, <1>18, <1>19, <1>21 DEF DownInv, DownHistory

LEMMA DownKeeps == DownInv /\ [SessionNext]_session => DownInv'
<1> SUFFICES ASSUME DownInv, [SessionNext]_session PROVE DownInv'
  OBVIOUS
<1>1. CASE UNCHANGED session
  <2>1. /\ queries' = queries /\ client' = client /\ outbound' = outbound /\ inflight' = inflight
        /\ produced' = produced /\ seqOut' = seqOut
        /\ answers' = answers /\ cut' = cut /\ recut' = recut /\ presumed' = presumed
    BY <1>1 DEF session, server, chunkHistory
  <2>2. Gone' = Gone /\ Room' = Room
    BY <2>1 DEF Gone, Room
  <2>3. Types' /\ Queued'
    BY <2>1, <2>2 DEF DownInv, Types, Queued
  <2>4. PICK k \in Nat, e \in Nat, g \in Seq(Nat) :
               /\ seqOut = k % SeqSpace /\ SeqHistory(k, g) /\ InOrder(k, e, g)
               /\ presumed \/ Acknowledged(k)
    BY DEF DownInv, DownHistory
  <2>5. SeqHistory(k, g)' /\ InOrder(k, e, g)' /\ (Delivered(k) => Delivered(k)')
    BY <2>1, <2>4, DownStays
  <2>6. presumed' \/ Acknowledged(k)'
    <3>1. CASE presumed
      BY <3>1, <2>1, Zenon
    <3>2. CASE Acknowledged(k)
      <4>1. PICK h \in Seq(Nat) : AckHistory(k, h)
        BY <3>2 DEF Acknowledged
      <4>2. AckHistory(k, h)'
        BY <4>1, <2>1 DEF AckHistory
      <4> QED
        BY <3>2, <4>2, <2>5 DEF Acknowledged
    <3> QED
      BY <2>4, <3>1, <3>2
  <2>7. seqOut' = k % SeqSpace
    BY <2>1, <2>4
  <2> QED
    BY <2>3, <2>5, <2>6, <2>7 DEF DownInv, DownHistory
<1>2. CASE Poll
  <2>1. PICK seq \in PollNumbers : Send(Nothing, seq)
    BY <1>2 DEF Poll
  <2>2. seq \in Int /\ Nothing \in Nat \cup {Nothing}
    BY Sizes, SessionAssumption
  <2> QED
    BY <2>1, <2>2, DownSend
<1>3. ASSUME NEW n \in 0 .. Frames - 1, SendFrame(n) PROVE DownInv'
  <2>1. n \in Nat \cup {Nothing} /\ Send(n, n % SeqSpace)
    BY <1>3 DEF SendFrame
  <2>2. n % SeqSpace \in Int
    BY Sizes, ModParts
  <2> QED
    BY <2>1, <2>2, DownSend
<1>4. ASSUME NEW i \in 1 .. Reach, Ingest(i) PROVE DownInv'
  BY <1>4, DownCommit, DownReplay
<1>5. ASSUME NEW i \in 1 .. Reach, ReceiveAnswer(i) PROVE DownInv'
  BY <1>5, DownReceive
<1>6. ASSUME NEW n \in 1 .. MaxOutboundBytes, QueueOutbound(n) PROVE DownInv'
  BY <1>6, DownQueue
<1>7. CASE ExpireInFlight
  BY <1>7, DownExpire
<1> QED
  BY <1>1, <1>2, <1>3, <1>4, <1>5, <1>6, <1>7 DEF SessionNext

\* The client gets every byte of the downstream once and in order, whatever the
\* network loses, repeats and reorders and however the numbers wrap, as long as
\* no number has stood for two chunks and no chunk has left the queue without its
\* acknowledgement; and even then no byte twice or too early.
THEOREM DownstreamInOrder == SessionSpec => []DownstreamExact
<1>1. DownInv => DownstreamExact
  <2> SUFFICES ASSUME DownInv PROVE DownstreamExact
    OBVIOUS
  <2>1. Increasing(client.got)
    BY DEF DownInv, DownHistory, InOrder
  <2>2. Gone \in Int /\ Gone >= 0 /\ Len(cut) \in Nat /\ Len(client.got) \in Nat
    BY DEF DownInv, Types, Queued, Gone
  <2>3. ASSUME ~recut, ~presumed PROVE Len(client.got) >= Gone /\ \A b \in 1 .. Gone : client.got[b] = b
    <3>1. PICK k \in Nat : Delivered(k)
      BY <2>3 DEF DownInv, DownHistory, Acknowledged
    <3> QED
      BY <3>1, <2>2, <2>3 DEF Delivered
  <2> QED
    BY <2>1, <2>2, <2>3 DEF DownstreamExact, DownstreamIntact, Gone
<1>2. SessionInit /\ [][SessionNext]_session => []DownInv
  BY DownStarts, DownKeeps, PTL
<1> QED
  BY <1>1, <1>2, PTL DEF SessionSpec

-----------------------------------------------------------------------------
(* The upstream *)

\* A frame is taken when it has left the reassembly or waits in it.
Taken(n) == n \in 0 .. Len(inbound) - 1 \/ reorder[n % SeqSpace] = n

Asked(n) == \E j \in 1 .. Len(queries) : queries[j].frame = n

\* What left is in order; what waits lies less than Window after it, in its place.
Ordered ==
    /\ inbound \in Seq(Nat) /\ \A i \in 1 .. Len(inbound) : inbound[i] = i - 1
    /\ nextSeqIn = Len(inbound) % SeqSpace
    /\ reorder \in [Seqs -> Nat \cup {Nothing}]
    /\ \A s \in Seqs : reorder[s] # Nothing =>
          /\ reorder[s] \in Len(inbound) + 1 .. Len(inbound) + Window - 1
          /\ s = reorder[s] % SeqSpace

\* What was answered was taken.
AnsweredTaken ==
    /\ \A n \in client.answered : Taken(n)
    /\ \A i \in 1 .. Len(answers) : answers[i].frame # Nothing => Taken(answers[i].frame)

\* A frame is first sent when those Window before it have been answered.
Windowed ==
    \A n \in Nat : Taken(n) \/ Asked(n) => \A k \in 0 .. n - Window : k \in client.answered

\* An old query still on its way was sent before every frame beyond its window.
Overtaken ==
    \A i \in 1 .. Len(queries), n \in Nat :
        queries[i].frame # Nothing /\ n >= queries[i].frame + Window /\ (Taken(n) \/ Asked(n)) =>
            \E j \in i + 1 .. Len(queries) : queries[j].frame = n

UpInv == Ordered /\ AnsweredTaken /\ Windowed /\ Overtaken

LEMMA NumbersNear ==
    \A x, y \in Nat : x % SeqSpace = y % SeqSpace /\ x - y < SeqSpace /\ y - x < SeqSpace => x = y
<1> SUFFICES ASSUME NEW x \in Nat, NEW y \in Nat, x - y < SeqSpace, y - x < SeqSpace, x # y
             PROVE  x % SeqSpace # y % SeqSpace
  OBVIOUS
<1> QED
  BY Sizes, ModNear

LEMMA NumbersInSpace == \A x \in Nat : x % SeqSpace \in Seqs
<1> SUFFICES ASSUME NEW x \in Nat PROVE x % SeqSpace \in 0 .. SeqSpace - 1
  BY DEF Seqs
<1> QED
  BY Sizes, ModParts

\* The next frame is not taken, and none from Window after it on.
LEMMA NotTaken ==
    ASSUME Ordered, NEW n \in Nat, Taken(n)
    PROVE  n # Len(inbound) /\ n < Len(inbound) + Window
<1>1. Len(inbound) \in Nat /\ n % SeqSpace \in Seqs
  BY NumbersInSpace DEF Ordered
<1>2. CASE reorder[n % SeqSpace] = n
  <2>1. n # Nothing
    BY DEF Nothing
  <2>2. n \in Len(inbound) + 1 .. Len(inbound) + Window - 1
    BY <1>1, <1>2, <2>1 DEF Ordered
  <2> QED
    BY <1>1, <2>2, Sizes
<1>3. CASE n \in 0 .. Len(inbound) - 1
  BY <1>1, <1>3, Sizes
<1> QED
  BY <1>2, <1>3 DEF Taken

\* Every frame on its way is near enough to the next one to tell it from it.
LEMMA InReach ==
    ASSUME Types, UpInv, NEW i \in 1 .. Len(queries), queries[i].frame # Nothing
    PROVE  /\ queries[i].frame \in Nat
           /\ queries[i].frame < Len(inbound) + Window
           /\ Len(inbound) - queries[i].frame < Window + Reach
<1> DEFINE f == queries[i].frame
           m == Len(inbound)
           len == Len(queries)
<1>1. queries[i] \in Asking /\ len \in Nat /\ len <= Reach /\ m \in Nat
  BY DEF Types, UpInv, Ordered
<1>2. f \in Nat
  BY <1>1 DEF Asking
<1>3. Asked(f)
  BY DEF Asked
<1> HIDE DEF f, m, len
<1>4. f < m + Window
  <2> SUFFICES ASSUME f >= m + Window PROVE FALSE
    BY <1>1, <1>2, Sizes
  <2>1. m \in 0 .. f - Window
    BY <1>1, <1>2, Sizes
  <2>2. m \in client.answered
    BY <2>1, <1>2, <1>3 DEF UpInv, Windowed
  <2>3. Taken(m)
    BY <2>2 DEF UpInv, AnsweredTaken
  <2> QED
    BY <2>3, <1>1, NotTaken DEF UpInv, m
<1>5. m - f < Window + Reach
  <2> SUFFICES ASSUME m - f >= Window + Reach PROVE FALSE
    BY <1>1, <1>2, Sizes
  <2> DEFINE S == f + Window .. m - 1
             T == i + 1 .. len
  <2>1. \A n \in S : n \in Nat /\ Taken(n) /\ n >= f + Window
    BY <1>1, <1>2, Sizes DEF Taken, m
  <2>2. \A n \in S : \E j \in T : queries[j].frame = n
    BY <2>1 DEF UpInv, Overtaken, f, len
  <2>3. IsFiniteSet(S) /\ Cardinality(S) = m - f - Window
    <3>1. PICK a \in Int, b \in Int, c \in Nat : a = f + Window /\ b = m - 1 /\ c = m - f - Window /\ b - a + 1 = c
      BY <1>1, <1>2, Sizes
    <3>2. IsFiniteSet(a .. b) /\ Cardinality(a .. b) = c
      BY <3>1, SizeOfInterval
    <3> QED
      BY <3>1, <3>2
  <2>4. IsFiniteSet(T) /\ Cardinality(T) = len - i
    <3>1. i \in 1 .. len
      BY DEF len
    <3> QED
      <4>1. PICK a \in Int, b \in Int, c \in Nat : a = i + 1 /\ b = len /\ c = len - i /\ b - a + 1 = c
        BY <1>1, <3>1
      <4>2. IsFiniteSet(a .. b) /\ Cardinality(a .. b) = c
        BY <4>1, SizeOfInterval
      <4> QED
        BY <4>1, <4>2
  <2>5. Cardinality(T) < Cardinality(S)
    <3>1. i \in 1 .. len
      BY DEF len
    <3> QED
      BY <1>1, <1>2, <2>3, <2>4, <3>1, Sizes
  <2> HIDE DEF S, T
  <2> DEFINE at == [n \in S |-> CHOOSE j \in T : queries[j].frame = n]
  <2>6. at \in [S -> T] /\ \A n \in S : queries[at[n]].frame = n
    BY <2>2
  <2> HIDE DEF at
  <2>7. PICK x \in S, y \in S : x # y /\ at[x] = at[y]
    BY <2>3, <2>4, <2>5, <2>6, FS_PigeonHole
  <2> QED
    BY <2>6, <2>7
<1> QED
  BY <1>2, <1>4, <1>5 DEF f, m

\* Held frames are fewer than the window.
LEMMA HeldInWindow ==
    ASSUME Ordered
    PROVE  /\ Cardinality(Held) \in Nat /\ Cardinality(Held) <= MaxReorderFrames
           /\ \A f \in Len(inbound) + 1 .. Len(inbound) + Window - 1 :
                 reorder[f % SeqSpace] = Nothing => Cardinality(Held) < MaxReorderFrames
<1> DEFINE m == Len(inbound)
           I == m + 1 .. m + Window - 1
<1>1. m \in Nat
  BY DEF Ordered
<1>2. IsFiniteSet(I) /\ Cardinality(I) = Window - 1
  <2> HIDE DEF m
  <2>1. PICK a \in Int, b \in Int, c \in Nat :
             a = m + 1 /\ b = m + Window - 1 /\ c = Window - 1 /\ b - a + 1 = c
    BY <1>1, Sizes
  <2>2. IsFiniteSet(a .. b) /\ Cardinality(a .. b) = c
    BY <2>1, SizeOfInterval
  <2> QED
    BY <2>1, <2>2
<1>3. IsFiniteSet(Held) /\ Cardinality(Held) \in Nat
  <2>1. IsFiniteSet(Seqs)
    BY Sizes, FS_Interval DEF Seqs
  <2>2. Held \in SUBSET Seqs
    BY DEF Held
  <2>3. IsFiniteSet(Held)
    BY <2>1, <2>2, FS_Subset
  <2> QED
    BY <2>3, FS_CardinalityType
<1>4. MaxReorderFrames \in Nat /\ MaxReorderFrames >= Window - 1 /\ Window \in Nat \ {0}
  BY SessionAssumption
<1>5. \A s \in Held : reorder[s] \in I /\ s = reorder[s] % SeqSpace
  BY DEF Held, Ordered
<1> HIDE DEF I
\* The frames held are different ones of any set that has them all.
<1>6. ASSUME NEW T, IsFiniteSet(T), Cardinality(T) \in Nat, \A s \in Held : reorder[s] \in T
      PROVE  Cardinality(Held) <= Cardinality(T)
  <2> SUFFICES ASSUME Cardinality(T) < Cardinality(Held) PROVE FALSE
    BY <1>3, <1>6
  <2> DEFINE at == [s \in Held |-> reorder[s]]
  <2>1. at \in [Held -> T] /\ \A s \in Held : at[s] = reorder[s]
    BY <1>6
  <2> HIDE DEF at
  <2>2. PICK x \in Held, y \in Held : x # y /\ at[x] = at[y]
    BY <1>3, <1>6, <2>1, FS_PigeonHole
  <2> QED
    BY <2>1, <2>2, <1>5
<1>7. Cardinality(Held) <= MaxReorderFrames
  BY <1>2, <1>3, <1>4, <1>5, <1>6
<1>8. ASSUME NEW f \in I, reorder[f % SeqSpace] = Nothing
      PROVE  Cardinality(Held) < MaxReorderFrames
  <2>1. IsFiniteSet(I \ {f}) /\ Cardinality(I \ {f}) = Cardinality(I) - 1
    BY <1>2, FS_RemoveElement
  <2>2. \A s \in Held : reorder[s] \in I \ {f}
    BY <1>5, <1>8 DEF Held
  <2>3. Cardinality(I \ {f}) \in Nat
    BY <2>1, FS_CardinalityType
  <2>4. Cardinality(Held) <= Cardinality(I \ {f})
    BY <1>6, <2>1, <2>2, <2>3
  <2> QED
    BY <1>2, <1>3, <1>4, <2>1, <2>3, <2>4
<1> QED
  BY <1>3, <1>7, <1>8 DEF I

\* A frame within reach that comes before the next one is refused; the next one
\* and what follows it are refused only when they wait already.
LEMMA RefusedIsTaken ==
    ASSUME Ordered, NEW f \in Nat, f < Len(inbound) + Window,
           Len(inbound) - f < SeqSpace \div 2
    PROVE  /\ Refused(f % SeqSpace) => Taken(f)
           /\ ~Refused(f % SeqSpace) => f >= Len(inbound) /\ reorder[f % SeqSpace] = Nothing
<1> DEFINE m == Len(inbound)
           s == f % SeqSpace
           half == SeqSpace \div 2
<1>1. m \in Nat /\ nextSeqIn = m % SeqSpace
  BY DEF Ordered
<1>2. s \in Seqs
  BY NumbersInSpace
<1>3. (nextSeqIn - s) % SeqSpace = (m - f) % SeqSpace
  <2>1. m \in Int /\ f \in Int
    BY <1>1
  <2> HIDE DEF m
  <2>2. ((m % SeqSpace) - (f % SeqSpace)) % SeqSpace = (m - f) % SeqSpace
    BY <2>1, Sizes, ModMinus
  <2> QED
    BY <2>2, <1>1
<1>4. half \in Nat /\ SeqSpace = 2 * half /\ Window < half /\ Window \in Nat /\ SeqSpace > 0 /\ SeqSpace \in Int
  BY Sizes
<1> HIDE DEF m, s, half
<1>5. f < m => SeqBefore(s, nextSeqIn)
  <2> SUFFICES ASSUME f < m PROVE SeqBefore(s, nextSeqIn)
    OBVIOUS
  <2>1. PICK r \in Int : r = m - f
    BY <1>1
  <2>2. r \in 0 .. SeqSpace - 1 /\ r < half /\ r > 0
    BY <2>1, <1>1, <1>4 DEF m, half
  <2>3. r % SeqSpace = r
    BY <2>2, <1>4, ModSmall
  <2>4. s # nextSeqIn
    BY <2>1, <2>2, <1>1, <1>4, NumbersNear DEF s
  <2> QED
    BY <2>1, <2>2, <2>3, <2>4, <1>3 DEF SeqBefore, half
<1>6. f >= m => ~SeqBefore(s, nextSeqIn)
  <2> SUFFICES ASSUME f > m PROVE ~SeqBefore(s, nextSeqIn)
    BY <1>1 DEF SeqBefore, s
  <2>1. PICK r \in Int : r = SeqSpace - (f - m)
    BY <1>1, <1>4
  <2>2. r \in 0 .. SeqSpace - 1 /\ r >= half
    BY <2>1, <1>1, <1>4 DEF m
  <2>3. SeqSpace * (-1) + r = m - f /\ -1 \in Int
    BY <2>1, <1>1, <1>4
  <2>4. (SeqSpace * (-1) + r) % SeqSpace = r
    BY <2>2, <2>3, <1>4, ModOf
  <2> QED
    BY <2>2, <2>3, <2>4, <1>3, <1>4 DEF SeqBefore, half
<1>7. reorder[s] # Nothing /\ f >= m => reorder[s] = f
  <2> SUFFICES ASSUME reorder[s] # Nothing, f >= m PROVE reorder[s] = f
    OBVIOUS
  <2>1. reorder[s] \in m + 1 .. m + Window - 1 /\ s = reorder[s] % SeqSpace
    BY <1>2 DEF Ordered, m
  <2>2. reorder[s] \in Nat /\ reorder[s] - f < SeqSpace /\ f - reorder[s] < SeqSpace
    BY <2>1, <1>1, <1>4 DEF m
  <2> QED
    BY <2>1, <2>2, NumbersNear DEF s
<1>8. f < m => Taken(f)
  BY <1>1 DEF Taken, m
<1>9. f >= m /\ reorder[s] = Nothing => ~Refused(s)
  <2> SUFFICES ASSUME f >= m, reorder[s] = Nothing, s # nextSeqIn
               PROVE  Cardinality(Held) < MaxReorderFrames
    <3>1. Cardinality(Held) \in Nat /\ MaxReorderFrames \in Nat
      BY HeldInWindow, SessionAssumption
    <3> QED
      BY <1>6, <3>1 DEF Refused
  <2>1. f # m
    BY <1>1 DEF s
  <2>2. f \in m + 1 .. m + Window - 1
    BY <2>1, <1>1, <1>4 DEF m
  <2> QED
    BY <2>2, HeldInWindow DEF m, s
<1>10. Refused(s) => Taken(f)
  <2>1. f >= m /\ reorder[s] = f => Taken(f)
    BY DEF Taken, s
  <2> QED
    BY <1>1, <1>7, <1>8, <1>9, <2>1
<1>11. ~Refused(s) => f >= m /\ reorder[s] = Nothing
  BY <1>1, <1>5 DEF Refused
<1> QED
  BY <1>10, <1>11 DEF m, s

\* Whatever frame within reach comes: what was taken is taken, the frame too,
\* and the order is kept.
LEMMA Reassembles ==
    ASSUME Ordered, NEW f \in Nat, f < Len(inbound) + Window,
           Len(inbound) - f < SeqSpace \div 2, Upstream(f)
    PROVE  Ordered' /\ \A n \in Nat : Taken(n)' <=> Taken(n) \/ n = f
<1> DEFINE m == Len(inbound)
           s == f % SeqSpace
           buffer == [reorder EXCEPT ![s] = f]
           r == RunLength(buffer)
           place(k) == (nextSeqIn + k) % SeqSpace
<1>1. f # Nothing
  BY DEF Nothing
<1>2. CASE Refused(s)
  <2>1. UNCHANGED <<nextSeqIn, reorder, inbound>>
    BY <1>1, <1>2 DEF Upstream
  <2>2. Taken(f)
    BY <1>2, RefusedIsTaken
  <2> QED
    BY <2>1, <2>2 DEF Ordered, Taken
<1>3. CASE ~Refused(s)
  <2>1. f >= m /\ reorder[s] = Nothing
    BY <1>3, RefusedIsTaken
  <2>2. m \in Nat /\ nextSeqIn = m % SeqSpace /\ Window \in Nat /\ SeqSpace \in Int /\ Window < SeqSpace /\ SeqSpace > 0
    <3>1. m \in Nat /\ nextSeqIn = m % SeqSpace
      BY DEF Ordered
    <3>2. Window \in Nat /\ SeqSpace \in Int /\ Window < SeqSpace /\ SeqSpace > 0
      BY Sizes
    <3> QED
      BY <3>1, <3>2
  <2>3. /\ inbound' = inbound \o [k \in 1 .. r |-> buffer[place(k - 1)]]
        /\ reorder' = [x \in Seqs |-> IF \E k \in 0 .. r - 1 : x = place(k) THEN Nothing ELSE buffer[x]]
        /\ nextSeqIn' = place(r)
    BY <1>1, <1>3 DEF Upstream
  <2>4. s \in Seqs
    BY NumbersInSpace
  <2>5. /\ buffer \in [Seqs -> Nat \cup {Nothing}]
        /\ \A x \in Seqs : buffer[x] = IF x = s THEN f ELSE reorder[x]
    BY <2>4 DEF Ordered
  <2> HIDE DEF buffer, r, m
  <2>6. \A x \in Seqs : buffer[x] # Nothing => buffer[x] \in m .. m + Window - 1 /\ x = buffer[x] % SeqSpace
    <3> SUFFICES ASSUME NEW x \in Seqs, buffer[x] # Nothing
                 PROVE  buffer[x] \in m .. m + Window - 1 /\ x = buffer[x] % SeqSpace
      OBVIOUS
    <3>1. CASE x = s
      BY <3>1, <2>1, <2>2, <2>5 DEF m
    <3>2. CASE x # s
      BY <3>2, <2>2, <2>5 DEF m, Ordered
    <3> QED
      BY <3>1, <3>2
  <2>7. \A k \in Nat : place(k) = (m + k) % SeqSpace
    <3> SUFFICES ASSUME NEW k \in Nat PROVE (nextSeqIn + k) % SeqSpace = (m + k) % SeqSpace
      OBVIOUS
    <3>1. m \in Int /\ k \in Int
      BY <2>2
    <3>2. ((m % SeqSpace) + k) % SeqSpace = (m + k) % SeqSpace
      BY <3>1, <2>2, ModPlus
    <3> QED
      BY <3>2, <2>2
  <2> HIDE DEF place
  \* In the place of a frame of the window there is that frame or nothing.
  <2>8. \A n \in Nat : n >= m /\ n <= m + Window => buffer[n % SeqSpace] \in {n, Nothing}
    <3> SUFFICES ASSUME NEW n \in Nat, n >= m, n <= m + Window, buffer[n % SeqSpace] # Nothing
                 PROVE  buffer[n % SeqSpace] = n
      OBVIOUS
    <3>1. n % SeqSpace \in Seqs
      BY NumbersInSpace
    <3>2. buffer[n % SeqSpace] \in m .. m + Window - 1 /\ n % SeqSpace = buffer[n % SeqSpace] % SeqSpace
      BY <3>1, <2>6
    <3> DEFINE b == buffer[n % SeqSpace]
    <3>3. b \in Nat /\ b - n < SeqSpace /\ n - b < SeqSpace /\ b % SeqSpace = n % SeqSpace
      BY <3>2, <2>2, SMTT(30)
    <3> HIDE DEF b
    <3>4. b = n
      BY <3>3, NumbersNear
    <3> QED
      BY <3>4 DEF b
  \* The run ends at the first gap, which is within the window.
  <2> DEFINE G == {k \in Nat : buffer[place(k)] = Nothing}
  <2>9. Window \in G
    <3>1. m + Window \in Nat /\ place(Window) = (m + Window) % SeqSpace
      BY <2>2, <2>7
    <3>2. place(Window) \in Seqs
      BY <3>1, NumbersInSpace
    <3>3. buffer[place(Window)] \in {m + Window, Nothing}
      <4>1. PICK n \in Nat : n = m + Window /\ n >= m /\ n <= m + Window
        BY <2>2
      <4>2. buffer[n % SeqSpace] \in {n, Nothing}
        BY <4>1, <2>8
      <4> QED
        BY <4>1, <4>2, <3>1
    <3>4. buffer[place(Window)] # m + Window
      BY <3>2, <2>2, <2>6, Sizes DEF Nothing
    <3> QED
      BY <3>3, <3>4, <2>2
  <2>10. r \in 0 .. Window /\ r \in G /\ \A k \in 0 .. r - 1 : k \notin G
    <3>1. r = Max({n \in 0 .. SeqSpace : \A k \in 0 .. n - 1 : buffer[place(k)] # Nothing})
      BY DEF r, RunLength, place
    <3>2. {n \in 0 .. SeqSpace : \A k \in 0 .. n - 1 : buffer[place(k)] # Nothing}
          = {n \in 0 .. SeqSpace : \A k \in 0 .. n - 1 : k \notin G}
      BY <2>2
    <3> DEFINE N == SeqSpace
    <3>3. G \in SUBSET Nat /\ N \in Nat /\ Window \in 0 .. N
      BY <2>2
    <3> HIDE DEF G, N
    <3>4. PICK q \in 0 .. Window :
             /\ Max({n \in 0 .. N : \A k \in 0 .. n - 1 : k \notin G}) = q
             /\ q \in G /\ \A k \in 0 .. q - 1 : k \notin G
      BY <3>3, <2>9, RunOf, ZenonT(60)
    <3> QED
      BY <3>1, <3>2, <3>4 DEF N
  <2>11. buffer[(m + r) % SeqSpace] = Nothing
    BY <2>2, <2>7, <2>10
  <2>12. \A k \in 0 .. r - 1 : buffer[place(k)] = m + k /\ place(k) = (m + k) % SeqSpace
    <3> TAKE k \in 0 .. r - 1
    <3>1. k \in Nat /\ m + k \in Nat /\ m + k <= m + Window
      BY <2>2, <2>10
    <3>2. place(k) = (m + k) % SeqSpace /\ buffer[place(k)] # Nothing
      BY <3>1, <2>7, <2>10
    <3>3. PICK n \in Nat : n = m + k /\ n >= m /\ n <= m + Window
      BY <3>1, <2>2
    <3>4. buffer[n % SeqSpace] \in {n, Nothing}
      BY <3>3, <2>8
    <3> QED
      BY <3>2, <3>3, <3>4
  <2> HIDE DEF G
  <2> DEFINE out == [k \in 1 .. r |-> buffer[place(k - 1)]]
  <2>13. \A k \in 1 .. r : out[k] = m + k - 1
    <3> TAKE k \in 1 .. r
    <3>1. k - 1 \in 0 .. r - 1 /\ out[k] = buffer[place(k - 1)]
      BY <2>10
    <3>2. buffer[place(k - 1)] = m + (k - 1)
      BY <3>1, <2>12
    <3> QED
      BY <3>1, <3>2, <2>2, <2>10
  <2>14. out \in Seq(Nat) /\ Len(out) = r
    <3>1. \A k \in 1 .. r : buffer[place(k - 1)] \in Nat
      BY <2>2, <2>10, <2>13
    <3> QED
      BY <3>1, <2>10
  <2>15. inbound' = inbound \o out
    BY <2>3
  <2> HIDE DEF out
  <2>16. /\ inbound' \in Seq(Nat) /\ Len(inbound') = m + r
         /\ \A i \in 1 .. m + r : inbound'[i] = IF i <= m THEN inbound[i] ELSE out[i - m]
    <3> DEFINE T == Nat
    <3>1. inbound \in Seq(T) /\ out \in Seq(T) /\ Len(inbound) = m
      BY <2>14 DEF Ordered, m
    <3> HIDE DEF T
    <3>2. /\ inbound \o out \in Seq(T) /\ Len(inbound \o out) = Len(inbound) + Len(out)
          /\ \A i \in 1 .. Len(inbound) + Len(out) :
                (inbound \o out)[i] = IF i <= Len(inbound) THEN inbound[i] ELSE out[i - Len(inbound)]
      BY <3>1, ConcatProperties
    <3>3. inbound' \in Seq(Nat)
      BY <3>2, <2>15 DEF T
    <3> QED
      BY <3>1, <3>2, <3>3, <2>14, <2>15
  <2>17. \A i \in 1 .. m + r : inbound'[i] = i - 1
    <3> TAKE i \in 1 .. m + r
    <3>1. CASE i <= m
      <4>1. i \in 1 .. m /\ inbound'[i] = inbound[i]
        BY <3>1, <2>2, <2>10, <2>16
      <4> QED
        BY <4>1 DEF Ordered, m
    <3>2. CASE i > m
      <4>1. i - m \in 1 .. r /\ inbound'[i] = out[i - m]
        BY <3>2, <2>2, <2>10, <2>16
      <4>2. out[i - m] = m + (i - m) - 1
        BY <4>1, <2>13
      <4> QED
        BY <4>1, <4>2, <2>2, <2>10
    <3> QED
      BY <3>1, <3>2, <2>2, <2>10
  <2>18. nextSeqIn' = Len(inbound') % SeqSpace
    BY <2>3, <2>7, <2>10, <2>16
  <2>19. \A x \in Seqs : reorder'[x] = IF \E k \in 0 .. r - 1 : x = place(k) THEN Nothing ELSE buffer[x]
    BY <2>3
  <2>20. reorder' \in [Seqs -> Nat \cup {Nothing}]
    BY <2>3, <2>5
  <2>21. \A x \in Seqs : reorder'[x] # Nothing =>
             /\ reorder'[x] \in Len(inbound') + 1 .. Len(inbound') + Window - 1
             /\ x = reorder'[x] % SeqSpace
    <3> SUFFICES ASSUME NEW x \in Seqs, reorder'[x] # Nothing
                 PROVE  /\ reorder'[x] \in m + r + 1 .. m + r + Window - 1
                        /\ x = reorder'[x] % SeqSpace
      BY <2>16
    <3>1. reorder'[x] = buffer[x] /\ \A k \in 0 .. r - 1 : x # place(k)
      BY <2>19
    <3> DEFINE b == buffer[x]
    <3>2. b \in m .. m + Window - 1 /\ x = b % SeqSpace /\ b # Nothing
      BY <3>1, <2>6
    <3>3. b # m + r
      BY <3>2, <2>11
    <3>4. \A k \in 0 .. r - 1 : b # m + k
      BY <3>1, <3>2, <2>12
    <3> HIDE DEF b
    <3>5. ~(b < m + r)
      <4> SUFFICES ASSUME b < m + r PROVE FALSE
        OBVIOUS
      <4>1. b - m \in 0 .. r - 1 /\ b = m + (b - m)
        BY <3>2, <2>2, <2>10
      <4> QED
        BY <4>1, <3>4
    <3>6. b \in m + r + 1 .. m + r + Window - 1
      BY <3>2, <3>3, <3>5, <2>2, <2>10
    <3> QED
      BY <3>1, <3>2, <3>6 DEF b
  <2>22. Ordered'
    BY <2>16, <2>17, <2>18, <2>20, <2>21 DEF Ordered
  <2>23. ASSUME NEW n \in Nat PROVE Taken(n)' <=> Taken(n) \/ n = f
    <3> DEFINE x == n % SeqSpace
    <3>1. x \in Seqs /\ n # Nothing
      BY NumbersInSpace DEF Nothing
    <3>2. Taken(n)' <=> n \in 0 .. m + r - 1 \/ reorder'[x] = n
      <4>1. Taken(n)' <=> n \in 0 .. Len(inbound') - 1 \/ reorder'[x] = n
        BY DEF Taken
      <4>2. Len(inbound') = m + r
        BY <2>16
      <4>3. Len(inbound') - 1 = m + r - 1
        BY <4>2, <2>2, <2>10
      <4> QED
        BY <4>1, <4>3, Zenon
    <3>3. Taken(n) <=> n \in 0 .. m - 1 \/ reorder[x] = n
      BY DEF Taken, m
    <3>4. buffer[x] = n <=> reorder[x] = n \/ n = f
      <4>1. CASE x = s
        BY <4>1, <3>1, <2>1, <2>4, <2>5
      <4>2. CASE x # s
        BY <4>2, <3>1, <2>5
      <4> QED
        BY <4>1, <4>2
    <3> HIDE DEF x
    <3>5. ASSUME n \in 0 .. m + r - 1 \/ reorder'[x] = n
          PROVE  n \in 0 .. m - 1 \/ buffer[x] = n
      <4>1. CASE n >= m /\ n < m + r
        <5>1. n - m \in 0 .. r - 1 /\ m + (n - m) = n
          BY <4>1, <2>2, <2>10
        <5>2. buffer[place(n - m)] = n /\ place(n - m) = n % SeqSpace
          BY <5>1, <2>12
        <5> QED
          BY <5>2 DEF x
      <4>2. CASE reorder'[x] = n
        BY <4>2, <3>1, <2>19
      <4> QED
        BY <3>5, <4>1, <4>2, <2>2, <2>10
    <3>6. ASSUME n \in 0 .. m - 1 \/ buffer[x] = n
          PROVE  n \in 0 .. m + r - 1 \/ reorder'[x] = n
      <4>1. CASE n \in 0 .. m - 1
        BY <4>1, <2>2, <2>10
      <4>2. CASE buffer[x] = n /\ \A k \in 0 .. r - 1 : x # place(k)
        BY <4>2, <3>1, <2>19
      <4>3. ASSUME buffer[x] = n, NEW k \in 0 .. r - 1, x = place(k)
            PROVE  n \in 0 .. m + r - 1
        <5>1. n = m + k
          BY <4>3, <2>12
        <5> QED
          BY <5>1, <2>2, <2>10
      <4> QED
        BY <3>6, <4>1, <4>2, <4>3
    <3> QED
      BY <3>2, <3>3, <3>4, <3>5, <3>6
  <2> QED
    BY <2>22, <2>23
<1> QED
  BY <1>2, <1>3

-----------------------------------------------------------------------------
(* The upstream, step by step *)

LEMMA UpStarts == SessionInit => UpInv
<1> SUFFICES ASSUME SessionInit PROVE UpInv
  OBVIOUS
<1>1. /\ inbound = <<>> /\ queries = <<>> /\ answers = <<>> /\ client.answered = {} /\ nextSeqIn = 0
      /\ reorder = [s \in Seqs |-> Nothing]
  BY DEF SessionInit
<1>2. inbound \in Seq(Nat) /\ Len(inbound) = 0 /\ Len(queries) = 0 /\ Len(answers) = 0
  BY <1>1
<1>3. 0 % SeqSpace = 0
  BY Sizes, ModSmall
<1>4. reorder \in [Seqs -> Nat \cup {Nothing}] /\ \A s \in Seqs : reorder[s] = Nothing
  BY <1>1
<1>5. Ordered
  BY <1>1, <1>2, <1>3, <1>4 DEF Ordered
<1>6. \A n \in Nat : ~Taken(n) /\ ~Asked(n)
  <2> TAKE n \in Nat
  <2>1. reorder[n % SeqSpace] # n
    BY <1>4, NumbersInSpace DEF Nothing
  <2> QED
    BY <1>2, <2>1 DEF Taken, Asked
<1>7. AnsweredTaken /\ Windowed /\ Overtaken
  BY <1>1, <1>2, <1>6 DEF AnsweredTaken, Windowed, Overtaken
<1> QED
  BY <1>5, <1>7 DEF UpInv

\* What leaves the buffers, the queries and the client's records alone.
LEMMA UpStays ==
    ASSUME UpInv, UNCHANGED <<nextSeqIn, reorder, inbound, queries, answers, client>>
    PROVE  UpInv'
BY DEF UpInv, Ordered, AnsweredTaken, Windowed, Overtaken, Taken, Asked

\* An answer to a query of a frame: the frame was taken.
LEMMA UpReceive ==
    ASSUME Types, UpInv, NEW i \in Nat, ReceiveAnswer(i)
    PROVE  UpInv'
<1>1. UNCHANGED <<nextSeqIn, reorder, inbound, queries, answers>> /\ i \in 1 .. Len(answers)
  BY DEF ReceiveAnswer, server
<1>2. client'.answered = IF answers[i].frame = Nothing THEN client.answered
                         ELSE client.answered \cup {answers[i].frame}
  BY DEF ReceiveAnswer
<1>3. Ordered' /\ \A n : Taken(n)' <=> Taken(n)
  BY <1>1 DEF UpInv, Ordered, Taken
<1>4. \A n : Asked(n)' <=> Asked(n)
  BY <1>1 DEF Asked
<1>5. \A n \in client'.answered : Taken(n)
  BY <1>1, <1>2 DEF UpInv, AnsweredTaken
<1>6. AnsweredTaken'
  BY <1>1, <1>3, <1>5 DEF UpInv, AnsweredTaken
<1>7. Windowed'
  BY <1>2, <1>3, <1>4 DEF UpInv, Windowed
<1>8. Overtaken'
  BY <1>1, <1>3, <1>4 DEF UpInv, Overtaken
<1> QED
  BY <1>3, <1>6, <1>7, <1>8 DEF UpInv

\* A query is sent with no frame, or with one of the window.
LEMMA UpSend ==
    ASSUME Types, UpInv, NEW frame \in Nat \cup {Nothing}, NEW seq \in Int, Send(frame, seq), Types',
           frame # Nothing => frame \notin client.answered /\ \A k \in 0 .. frame - Window : k \in client.answered
    PROVE  UpInv'
<1>1. /\ UNCHANGED <<nextSeqIn, reorder, inbound, answers, client>>
      /\ queries' = Push(queries, [frame |-> frame, seq |-> seq, ack |-> LastAccepted])
  BY DEF Send, server
<1>2. Ordered' /\ AnsweredTaken' /\ \A n : Taken(n)' <=> Taken(n)
  BY <1>1 DEF UpInv, Ordered, AnsweredTaken, Taken
<1> DEFINE msg == [frame |-> frame, seq |-> seq, ack |-> LastAccepted]
           d == Shift(queries)
           n == Len(queries)
<1>3. n \in Nat /\ n <= Reach /\ d \in {0, 1} /\ d <= n /\ Reach \in Nat \ {0} /\ queries \in Seq(Asking)
  <2>1. queries \in Seq(Asking) /\ n <= Reach /\ Reach \in Nat \ {0}
    BY Sizes DEF Types
  <2>2. n \in Nat
    BY <2>1
  <2> QED
    BY <2>1, <2>2 DEF Shift
<1> DEFINE T == Asking \cup {msg}
<1>4. msg \in T /\ queries \in Seq(T)
  BY <1>3
<1> HIDE DEF T, msg
<1>5. /\ Len(queries') = n + 1 - d /\ queries'[n + 1 - d] = msg
      /\ \A i \in 1 .. n - d : queries'[i] = queries[i + d]
  <2>1. queries' = Push(queries, msg)
    BY <1>1 DEF msg
  <2>2. Len(queries) <= Reach /\ Reach \in Nat \ {0}
    BY <1>3
  <2>3. Arrives(T, queries, msg)
    BY <1>4, <2>2, Pushed
  <2> QED
    BY <2>1, <2>3 DEF Arrives
<1>6. msg.frame = frame
  BY DEF msg
<1> HIDE DEF d, n
<1>7. \A i \in 1 .. n + 1 - d :
          \/ i = n + 1 - d /\ queries'[i].frame = frame
          \/ i \in 1 .. n - d /\ i + d \in 1 .. n /\ queries'[i].frame = queries[i + d].frame
  BY <1>3, <1>5, <1>6
<1>8. \A f \in Nat : Asked(f)' => Asked(f) \/ f = frame
  <2> SUFFICES ASSUME NEW f \in Nat, NEW j \in 1 .. n + 1 - d, queries'[j].frame = f, f # frame
               PROVE  Asked(f)
    BY <1>5 DEF Asked
  <2> QED
    BY <1>7 DEF Asked, n
<1>9. \A f \in Nat : f # Nothing
  BY DEF Nothing
<1>10. Windowed'
  <2> SUFFICES ASSUME NEW f \in Nat, Taken(f)' \/ Asked(f)', NEW k \in 0 .. f - Window
               PROVE  k \in client.answered
    BY <1>1 DEF Windowed
  <2>1. Taken(f) \/ Asked(f) \/ f = frame
    BY <1>2, <1>8
  <2> QED
    BY <2>1, <1>9 DEF UpInv, Windowed
<1>11. Overtaken'
  <2> SUFFICES ASSUME NEW i \in 1 .. n + 1 - d, NEW f \in Nat, queries'[i].frame # Nothing,
                      f >= queries'[i].frame + Window, Taken(f)' \/ Asked(f)'
               PROVE  \E j \in i + 1 .. n + 1 - d : queries'[j].frame = f
    BY <1>5 DEF Overtaken
  <2>1. Taken(f) \/ Asked(f) \/ f = frame
    BY <1>2, <1>8
  <2>2. CASE i = n + 1 - d /\ queries'[i].frame = frame
    <3>1. frame \in Nat /\ frame \notin client.answered
      BY <2>2
    <3>2. frame \in 0 .. f - Window /\ f # frame
      BY <2>2, <3>1, Sizes
    <3>3. frame \in client.answered
      BY <2>1, <3>2 DEF UpInv, Windowed
    <3> QED
      BY <3>1, <3>3
  <2>3. CASE i \in 1 .. n - d /\ i + d \in 1 .. n /\ queries'[i].frame = queries[i + d].frame
    <3>1. CASE f = frame
      <4>1. n + 1 - d \in i + 1 .. n + 1 - d /\ queries'[n + 1 - d].frame = f
        BY <2>3, <3>1, <1>3, <1>5, <1>6
      <4> QED
        BY <4>1
    <3>2. CASE Taken(f) \/ Asked(f)
      <4>1. PICK j \in (i + d) + 1 .. n : queries[j].frame = f
        BY <2>3, <3>2 DEF UpInv, Overtaken, n
      <4>2. j - d \in 1 .. n - d /\ (j - d) + d = j /\ j - d \in i + 1 .. n + 1 - d
        BY <2>3, <4>1, <1>3
      <4>3. queries'[j - d] = queries[(j - d) + d]
        BY <4>2, <1>5
      <4> QED
        BY <4>1, <4>2, <4>3
    <3> QED
      BY <2>1, <3>1, <3>2
  <2> QED
    BY <1>7, <2>2, <2>3
<1> QED
  BY <1>2, <1>10, <1>11 DEF UpInv

\* Of the frames, a query takes its own at most.
LEMMA Takes ==
    ASSUME Types, UpInv, NEW i \in Nat, Ingest(i)
    PROVE  /\ Ordered'
           /\ queries[i].frame = Nothing => \A n \in Nat : Taken(n)' <=> Taken(n)
           /\ queries[i].frame # Nothing => \A n \in Nat : Taken(n)' <=> Taken(n) \/ n = queries[i].frame
<1> DEFINE f == queries[i].frame
<1>1. i \in 1 .. Len(queries) /\ Upstream(f)
  BY DEF Ingest
<1>2. CASE f = Nothing
  <2>1. UNCHANGED <<nextSeqIn, reorder, inbound>>
    BY <1>2, <1>1 DEF Upstream
  <2> QED
    BY <1>2, <2>1 DEF UpInv, Ordered, Taken
<1>3. CASE f # Nothing
  <2>1. f \in Nat /\ f < Len(inbound) + Window /\ Len(inbound) - f < Window + Reach
    BY <1>3, <1>1, InReach
  <2>2. Len(inbound) \in Nat /\ Ordered
    BY DEF UpInv, Ordered
  <2>3. Len(inbound) - f < SeqSpace \div 2
    BY <2>1, <2>2, Sizes
  <2> HIDE DEF f
  <2>4. Ordered' /\ \A n \in Nat : Taken(n)' <=> Taken(n) \/ n = f
    BY <2>1, <2>2, <2>3, <1>1, Reassembles DEF f
  <2> QED
    BY <1>3, <2>4 DEF f
<1> QED
  BY <1>2, <1>3

\* The frame of a query is taken, and then answered.
LEMMA UpIngest ==
    ASSUME Types, UpInv, NEW i \in Nat, Ingest(i)
    PROVE  UpInv'
<1> DEFINE f == queries[i].frame
<1>1. /\ UNCHANGED <<queries, client>> /\ i \in 1 .. Len(queries) /\ Upstream(f)
      /\ answers' = Push(answers, [frame |-> f, seq |-> seqOut', payload |-> inflight'])
  BY DEF Ingest
<1>2. queries[i] \in Asking
  BY <1>1 DEF Types
<1>3. f \in Nat \cup {Nothing}
  BY <1>2 DEF Asking
\* The answers: those on their way, and one for this frame.
<1>4. \A a \in 1 .. Len(answers') :
          answers'[a].frame = f \/ \E b \in 1 .. Len(answers) : answers'[a].frame = answers[b].frame
  <2> DEFINE msg == [frame |-> f, seq |-> seqOut', payload |-> inflight']
             T == Telling \cup {msg}
             d == Shift(answers)
             n == Len(answers)
  <2>1. msg \in T /\ answers \in Seq(T) /\ n \in Nat /\ d \in {0, 1} /\ d <= n
        /\ n <= Reach /\ Reach \in Nat \ {0}
    BY Sizes DEF Types, Shift
  <2>2. msg.frame = f
    OBVIOUS
  <2>3. answers' = Push(answers, msg)
    BY <1>1
  <2> HIDE DEF T, msg
  <2>4. Arrives(T, answers, msg)
    BY <2>1, Pushed
  <2> HIDE DEF d, n, f
  <2>5. /\ Len(answers') = n + 1 - d /\ answers'[n + 1 - d] = msg
        /\ \A a \in 1 .. n - d : answers'[a] = answers[a + d]
    BY <2>3, <2>4 DEF Arrives, d, n
  <2> SUFFICES ASSUME NEW a \in 1 .. n + 1 - d
               PROVE  answers'[a].frame = f \/ \E b \in 1 .. n : answers'[a].frame = answers[b].frame
    BY <2>5 DEF n
  <2>6. CASE a = n + 1 - d
    BY <2>2, <2>5, <2>6
  <2>7. CASE a # n + 1 - d
    <3>1. a \in 1 .. n - d /\ a + d \in 1 .. n
      BY <2>1, <2>7
    <3>2. answers'[a] = answers[a + d]
      BY <3>1, <2>5
    <3> QED
      BY <3>1, <3>2
  <2> QED
    BY <2>6, <2>7
<1>5. Ordered' /\ (f = Nothing => \A n \in Nat : Taken(n)' <=> Taken(n))
      /\ (f # Nothing => \A n \in Nat : Taken(n)' <=> Taken(n) \/ n = f)
  BY Takes
<1>6. \A n \in Nat : Asked(n)' <=> Asked(n)
  BY <1>1 DEF Asked
<1>7. f # Nothing => Asked(f)
  BY <1>1 DEF Asked
<1> HIDE DEF f
<1>8. \A n \in Nat : Taken(n)' \/ Asked(n)' => Taken(n) \/ Asked(n)
  BY <1>5, <1>6, <1>7
<1>9. AnsweredTaken'
  <2>1. \A n \in client'.answered : Taken(n)'
    <3>1. client.answered \in SUBSET Nat
      BY DEF Types
    <3> QED
      BY <3>1, <1>1, <1>5 DEF UpInv, AnsweredTaken
  <2>2. ASSUME NEW a \in 1 .. Len(answers'), answers'[a].frame # Nothing PROVE Taken(answers[a].frame)'
    <3>1. PICK n : n = answers'[a].frame
      OBVIOUS
    <3>2. n \in Nat /\ Taken(n)'
      <4>1. CASE n = f
        BY <2>2, <3>1, <4>1, <1>3, <1>5
      <4>2. ASSUME NEW b \in 1 .. Len(answers), n = answers[b].frame PROVE n \in Nat /\ Taken(n)'
        <5>1. answers[b] \in Telling
          BY DEF Types
        <5>2. n \in Nat
          BY <5>1, <4>2, <2>2, <3>1 DEF Telling
        <5>3. Taken(n)
          BY <4>2, <2>2, <3>1 DEF UpInv, AnsweredTaken
        <5> QED
          BY <5>2, <5>3, <1>3, <1>5
      <4> QED
        BY <3>1, <4>1, <4>2, <1>4
    <3> QED
      BY <3>1, <3>2 DEF Taken
  <2> QED
    BY <2>1, <2>2 DEF AnsweredTaken
<1>10. Windowed'
  <2> SUFFICES ASSUME NEW n \in Nat, Taken(n)' \/ Asked(n)', NEW k \in 0 .. n - Window
               PROVE  k \in client.answered
    BY <1>1 DEF Windowed
  <2> QED
    BY <1>8 DEF UpInv, Windowed
<1>11. Overtaken'
  <2> SUFFICES ASSUME NEW j \in 1 .. Len(queries), NEW n \in Nat, queries[j].frame # Nothing,
                      n >= queries[j].frame + Window, Taken(n)' \/ Asked(n)'
               PROVE  \E l \in j + 1 .. Len(queries) : queries[l].frame = n
    BY <1>1 DEF Overtaken
  <2> QED
    BY <1>8 DEF UpInv, Overtaken
<1> QED
  BY <1>5, <1>9, <1>10, <1>11 DEF UpInv

LEMMA UpKeeps == Types /\ Types' /\ UpInv /\ [SessionNext]_session => UpInv'
<1> SUFFICES ASSUME Types, Types', UpInv, [SessionNext]_session PROVE UpInv'
  OBVIOUS
<1>1. CASE UNCHANGED session
  BY <1>1, UpStays DEF session, server
<1>2. CASE Poll
  <2>1. PICK seq \in PollNumbers : Send(Nothing, seq)
    BY <1>2 DEF Poll
  <2>2. seq \in Int /\ Nothing \in Nat \cup {Nothing}
    BY Sizes, SessionAssumption
  <2> QED
    BY <2>1, <2>2, UpSend
<1>3. ASSUME NEW n \in 0 .. Frames - 1, SendFrame(n) PROVE UpInv'
  <2>1. n \in Nat \cup {Nothing} /\ Send(n, n % SeqSpace) /\ n \notin client.answered
        /\ \A k \in 0 .. n - Window : k \in client.answered
    BY <1>3 DEF SendFrame
  <2>2. n % SeqSpace \in Int
    BY Sizes, ModParts
  <2> QED
    BY <2>1, <2>2, UpSend
<1>4. ASSUME NEW i \in 1 .. Reach, Ingest(i) PROVE UpInv'
  BY <1>4, UpIngest
<1>5. ASSUME NEW i \in 1 .. Reach, ReceiveAnswer(i) PROVE UpInv'
  BY <1>5, UpReceive
<1>6. ASSUME NEW n \in 1 .. MaxOutboundBytes, QueueOutbound(n) PROVE UpInv'
  BY <1>6, UpStays DEF QueueOutbound
<1>7. CASE ExpireInFlight
  BY <1>7, UpStays DEF ExpireInFlight
<1> QED
  BY <1>1, <1>2, <1>3, <1>4, <1>5, <1>6, <1>7 DEF SessionNext

\* The frames of the upstream leave the reassembly in order and once, though
\* their numbers wrap and old queries arrive late, and none that was answered is
\* lost: the buffer has room for every frame that can come.
THEOREM UpstreamInOrder == SessionSpec => []UpstreamExact
<1>1. DownInv /\ UpInv => UpstreamExact
  <2> SUFFICES ASSUME DownInv, UpInv PROVE UpstreamExact
    OBVIOUS
  <2>1. ASSUME NEW n \in client.answered
        PROVE  (\E i \in 1 .. Len(inbound) : inbound[i] = n) \/ (\E s \in Seqs : reorder[s] = n)
    <3>1. n \in Nat /\ Taken(n) /\ Len(inbound) \in Nat
      BY DEF DownInv, Types, UpInv, AnsweredTaken, Ordered
    <3>2. CASE n \in 0 .. Len(inbound) - 1
      <4>1. n + 1 \in 1 .. Len(inbound)
        BY <3>1, <3>2
      <4>2. inbound[n + 1] = (n + 1) - 1
        BY <4>1 DEF UpInv, Ordered
      <4> QED
        BY <3>1, <4>1, <4>2
    <3>3. CASE reorder[n % SeqSpace] = n
      BY <3>1, <3>3, NumbersInSpace
    <3> QED
      BY <3>1, <3>2, <3>3 DEF Taken
  <2> QED
    BY <2>1 DEF UpstreamExact, AnsweredIsHeld, UpInv, Ordered
<1>2. DownInv => Types
  BY DEF DownInv
<1>3. DownInv' => Types'
  BY DEF DownInv
<1>4. SessionInit /\ [][SessionNext]_session => [](DownInv /\ UpInv)
  BY DownStarts, DownKeeps, UpStarts, UpKeeps, <1>2, <1>3, PTL
<1> QED
  BY <1>1, <1>4, PTL DEF SessionSpec

-----------------------------------------------------------------------------
(* Types and bounds *)

Bounds ==
    /\ lengths \in Streams /\ produced <= Octets
    /\ Len(outbound) <= MaxOutboundBytes
    /\ expiries \in 0 .. MaxExpiries /\ lastReq \in Seqs \cup {Nothing}
    /\ \A i \in 1 .. Len(queries) : queries[i] \in Queries
    /\ \A i \in 1 .. Len(answers) : answers[i] \in Answers
    /\ \A s \in Seqs : reorder[s] \in 0 .. Frames - 1 \cup {Nothing}

LEMMA Lengths == lengths \in Streams => Octets \in Nat /\ Frames \in Nat
BY SessionAssumption DEF Octets, Frames

\* Consecutive bytes of the stream are a chunk.
LEMMA RunIsChunk ==
    ASSUME NEW p \in Seq(Nat), NEW gone \in Nat, NEW octets \in Nat,
           Len(p) <= ChunkSize, gone + Len(p) <= octets, \A b \in 1 .. Len(p) : p[b] = gone + b
    PROVE  p \in UNION {[1 .. n -> 1 .. octets] : n \in 0 .. ChunkSize}
<1>1. Len(p) \in 0 .. ChunkSize /\ p \in [1 .. Len(p) -> Nat]
  BY Sizes
<1>2. \A b \in 1 .. Len(p) : p[b] \in 1 .. octets
  BY <1>1
<1>3. p \in [1 .. Len(p) -> 1 .. octets]
  BY <1>1, <1>2
<1> QED
  BY <1>1, <1>3

\* What Push adds is the message.
LEMMA PushKeeps ==
    ASSUME NEW T, NEW net \in Seq(T), Len(net) <= Reach, NEW msg \in T, NEW S,
           \A i \in 1 .. Len(net) : net[i] \in S, msg \in S
    PROVE  \A i \in 1 .. Len(Push(net, msg)) : Push(net, msg)[i] \in S
<1> DEFINE d == Shift(net)
           n == Len(net)
<1>1. n \in Nat /\ d \in {0, 1} /\ d <= n /\ Reach \in Nat \ {0}
  BY Sizes DEF Shift
<1>2. Arrives(T, net, msg)
  BY <1>1, Pushed
<1> SUFFICES ASSUME NEW i \in 1 .. n + 1 - d PROVE Push(net, msg)[i] \in S
  BY <1>2 DEF Arrives
<1>3. CASE i = n + 1 - d
  BY <1>2, <1>3 DEF Arrives
<1>4. CASE i # n + 1 - d
  <2>1. i \in 1 .. n - d /\ i + d \in 1 .. n
    BY <1>1, <1>4
  <2> QED
    BY <2>1, <1>2 DEF Arrives
<1> QED
  BY <1>3, <1>4

LEMMA BoundsStart == SessionInit => Bounds
<1> SUFFICES ASSUME SessionInit PROVE Bounds
  OBVIOUS
<1>1. /\ lengths \in Streams /\ produced = 0 /\ outbound = <<>> /\ expiries = 0
      /\ queries = <<>> /\ answers = <<>> /\ reorder = [s \in Seqs |-> Nothing] /\ lastReq = Nothing
  BY DEF SessionInit
<1>2. Len(outbound) = 0 /\ Len(queries) = 0 /\ Len(answers) = 0
  BY <1>1
<1> QED
  BY <1>1, <1>2, Lengths, SessionAssumption DEF Bounds

LEMMA SentIsQuery ==
    ASSUME Types, Bounds, NEW frame \in 0 .. Frames - 1 \cup {Nothing}, NEW seq \in Seqs, Send(frame, seq)
    PROVE  \A i \in 1 .. Len(queries') : queries'[i] \in Queries
<1> DEFINE msg == [frame |-> frame, seq |-> seq, ack |-> LastAccepted]
           a == client.accepted
<1>1. LastAccepted \in Seqs \cup {Nothing}
  <2>1. a \in Nat /\ LastAccepted = IF a = 0 THEN Nothing ELSE (a - 1) % SeqSpace
    BY DEF Types, LastAccepted
  <2> HIDE DEF a
  <2>2. CASE a = 0
    BY <2>1, <2>2
  <2>3. CASE a # 0
    <3>1. PICK b \in Nat : b = a - 1
      BY <2>1, <2>3
    <3> QED
      BY <2>1, <2>3, <3>1, NumbersInSpace
  <2> QED
    BY <2>2, <2>3
<1>2. msg \in Queries
  BY <1>1 DEF Queries
<1> DEFINE T == Asking \cup Queries
<1>3. msg \in T /\ queries \in Seq(T) /\ Len(queries) <= Reach
  BY <1>2 DEF Types
<1>4. queries' = Push(queries, msg)
  BY DEF Send
<1>5. \A i \in 1 .. Len(queries) : queries[i] \in Queries
  BY DEF Bounds
<1> HIDE DEF msg, T
<1> QED
  BY <1>2, <1>3, <1>4, <1>5, PushKeeps

LEMMA HeldStaysBounded ==
    ASSUME Bounds, Ordered, NEW f \in 0 .. Frames - 1 \cup {Nothing}, Upstream(f)
    PROVE  \A s \in Seqs : reorder'[s] \in 0 .. Frames - 1 \cup {Nothing}
<1> DEFINE buffer == [reorder EXCEPT ![f % SeqSpace] = f]
<1>1. \A s \in Seqs : buffer[s] \in 0 .. Frames - 1 \cup {Nothing}
  BY DEF Bounds, Ordered
<1>2. CASE reorder' = reorder
  BY <1>2 DEF Bounds
<1>3. CASE ~(f = Nothing \/ Refused(f % SeqSpace))
  <2> DEFINE r == RunLength(buffer)
             place(k) == (nextSeqIn + k) % SeqSpace
  <2>1. reorder' = [s \in Seqs |-> IF \E k \in 0 .. r - 1 : s = place(k) THEN Nothing ELSE buffer[s]]
    BY <1>3 DEF Upstream
  <2> HIDE DEF buffer, r, place
  <2> QED
    BY <2>1, <1>1
<1> QED
  BY <1>2, <1>3 DEF Upstream

\* What is queued has not left the queue.
LEMMA QueuedGone ==
    ASSUME Types, NEW n \in 1 .. MaxOutboundBytes, QueueOutbound(n)
    PROVE  Gone' = Gone
<1> DEFINE more == [b \in 1 .. n |-> produced + b]
<1>1. /\ outbound' = outbound \o more /\ produced' = produced + n /\ n \in Nat
      /\ produced \in Nat /\ outbound \in Seq(Nat)
  BY SessionAssumption DEF QueueOutbound, Types
<1>2. more \in Seq(Nat) /\ Len(more) = n
  BY <1>1
<1> HIDE DEF more
<1>3. Len(outbound') = Len(outbound) + n
  BY <1>1, <1>2
<1> QED
  BY <1>1, <1>3 DEF Gone

LEMMA LengthsStay == [SessionNext]_session => lengths' = lengths
BY DEF session, SessionNext, Poll, SendFrame, Send, Ingest, ReceiveAnswer, QueueOutbound, ExpireInFlight

LEMMA BoundsKeep ==
    DownInv /\ DownInv' /\ UpInv /\ Bounds /\ [SessionNext]_session => Bounds'
<1> SUFFICES ASSUME DownInv, DownInv', UpInv, Bounds, [SessionNext]_session PROVE Bounds'
  OBVIOUS
<1>1. lengths' = lengths
  BY LengthsStay
<1>2. Octets' = Octets /\ Frames' = Frames /\ Queries' = Queries /\ Answers' = Answers
  BY <1>1 DEF Octets, Frames, Queries, Answers, Chunks
<1>3. Octets \in Nat /\ Frames \in Nat
  BY Lengths DEF Bounds
<1>4. CASE UNCHANGED session
  BY <1>4, <1>2 DEF session, server, Bounds
<1>5. ASSUME NEW frame \in 0 .. Frames - 1 \cup {Nothing}, NEW seq \in Seqs, Send(frame, seq) PROVE Bounds'
  <2>1. \A i \in 1 .. Len(queries') : queries'[i] \in Queries
    BY <1>5, SentIsQuery DEF DownInv
  <2> QED
    BY <1>5, <1>2, <2>1 DEF Send, server, Bounds
<1>6. ASSUME NEW i \in 1 .. Reach, ReceiveAnswer(i) PROVE Bounds'
  BY <1>6, <1>2 DEF ReceiveAnswer, server, Bounds
<1>7. ASSUME NEW n \in 1 .. MaxOutboundBytes, QueueOutbound(n) PROVE Bounds'
  <2>1. /\ UNCHANGED <<lengths, reorder, queries, answers, expiries, lastReq>>
        /\ produced' = produced + n /\ produced + n <= Octets /\ n \in 1 .. MaxOutboundBytes - Len(outbound)
    BY <1>7 DEF QueueOutbound
  <2>2. Len(outbound') <= MaxOutboundBytes
    <3>1. Gone' = Gone
      BY <1>7, QueuedGone DEF DownInv
    <3>2. outbound \in Seq(Nat) /\ outbound' \in Seq(Nat) /\ produced \in Nat /\ n \in Nat
      BY SessionAssumption DEF DownInv, Types
    <3>3. Len(outbound') = Len(outbound) + n
      BY <3>1, <3>2, <2>1 DEF Gone
    <3> QED
      BY <3>2, <3>3, <2>1, SessionAssumption
  <2> QED
    BY <2>1, <2>2, <1>2 DEF Bounds
<1>8. CASE ExpireInFlight
  <2>1. expiries' \in 0 .. MaxExpiries
    BY <1>8, SessionAssumption DEF ExpireInFlight, Bounds
  <2> QED
    BY <1>8, <1>2, <2>1 DEF ExpireInFlight, Bounds
<1>9. ASSUME NEW i \in 1 .. Reach, Ingest(i) PROVE Bounds'
  <2> DEFINE f == queries[i].frame
             msg == [frame |-> f, seq |-> seqOut', payload |-> inflight']
             T == Telling \cup Answers
  <2>1. /\ UNCHANGED <<lengths, produced, queries, client, expiries>> /\ i \in 1 .. Len(queries)
        /\ Upstream(f) /\ answers' = Push(answers, msg) /\ lastReq' = queries[i].seq
    BY <1>9 DEF Ingest
  <2>2. f \in 0 .. Frames - 1 \cup {Nothing} /\ queries[i].seq \in Seqs
    BY <2>1 DEF Bounds, Queries
  <2>3. seqOut' \in Seqs
    <3>1. PICK k \in Nat : seqOut' = k % SeqSpace
      BY DEF DownInv, DownHistory
    <3> QED
      BY <3>1, NumbersInSpace
  <2>4. inflight' \in Chunks
    <3>1. inflight' \in Seq(Nat) /\ outbound' \in Seq(Nat) /\ produced' \in Nat
      BY DEF DownInv, Types
    <3>2. /\ Len(outbound') <= produced' /\ Len(inflight') <= Room'
          /\ \A b \in 1 .. Len(inflight') : inflight'[b] = Gone' + b
      BY DEF DownInv, Queued
    <3>3. Gone' = produced' - Len(outbound')
      BY DEF Gone
    <3>4. Len(inflight') <= ChunkSize /\ Len(inflight') <= Len(outbound')
      BY <3>1, <3>2, Sizes DEF Room
    <3>5. PICK gone \in Nat : gone = produced' - Len(outbound')
      BY <3>1, <3>2, LenProperties
    <3>6. gone + Len(inflight') <= Octets
      BY <3>1, <3>4, <3>5, <2>1, <1>3 DEF Bounds
    <3>7. PICK octets \in Nat : octets = Octets
      BY <1>3
    <3>8. PICK p \in Seq(Nat) : p = inflight'
      BY <3>1
    <3>9. Len(p) <= ChunkSize /\ gone + Len(p) <= octets /\ \A b \in 1 .. Len(p) : p[b] = gone + b
      BY <3>2, <3>3, <3>4, <3>5, <3>6, <3>7, <3>8
    <3>10. p \in UNION {[1 .. n -> 1 .. octets] : n \in 0 .. ChunkSize}
      BY <3>9, RunIsChunk
    <3> QED
      BY <3>7, <3>8, <3>10, Zenon DEF Chunks
  <2>5. msg \in Answers
    BY <2>2, <2>3, <2>4 DEF Answers
  <2>6. \A a \in 1 .. Len(answers) : answers[a] \in Answers
    BY DEF Bounds
  <2>7. msg \in T /\ answers \in Seq(T) /\ Len(answers) <= Reach
    BY <2>5 DEF DownInv, Types
  <2> HIDE DEF msg, T, f
  <2>8. \A a \in 1 .. Len(answers') : answers'[a] \in Answers
    BY <2>1, <2>5, <2>6, <2>7, PushKeeps
  <2>9. \A s \in Seqs : reorder'[s] \in 0 .. Frames - 1 \cup {Nothing}
    BY <2>1, <2>2, HeldStaysBounded DEF UpInv
  <2>10. Len(outbound') <= MaxOutboundBytes
    <3>1. CASE Commits(queries[i])
      <4>1. Gone' = Gone + Len(inflight)
        BY <3>1, <1>9, Committed, Sizes DEF DownInv
      <4>2. inflight \in Seq(Nat) /\ outbound \in Seq(Nat) /\ outbound' \in Seq(Nat) /\ produced \in Nat
        BY DEF DownInv, Types
      <4>3. Len(outbound') <= Len(outbound)
        BY <4>1, <4>2, <2>1 DEF Gone
      <4> QED
        BY <4>2, <4>3, SessionAssumption DEF Bounds
    <3>2. CASE ~Commits(queries[i])
      BY <3>2, <1>9, Replayed, Sizes DEF DownInv, Bounds
    <3> QED
      BY <3>1, <3>2
  <2> QED
    BY <2>1, <2>2, <2>8, <2>9, <2>10, <1>2 DEF Bounds
<1>10. CASE Poll
  <2>1. PICK seq \in PollNumbers : Send(Nothing, seq)
    BY <1>10 DEF Poll
  <2>2. seq \in Seqs
    BY SessionAssumption DEF Seqs
  <2> QED
    BY <2>1, <2>2, <1>5
<1>11. ASSUME NEW n \in 0 .. Frames - 1, SendFrame(n) PROVE Bounds'
  <2>1. Send(n, n % SeqSpace) /\ n \in Nat
    BY <1>11 DEF SendFrame
  <2>2. n % SeqSpace \in Seqs
    BY <2>1, NumbersInSpace
  <2> QED
    BY <2>1, <2>2, <1>5
<1> QED
  BY <1>4, <1>6, <1>7, <1>8, <1>9, <1>10, <1>11 DEF SessionNext

\* The buffers stay within the limits the code sets: what is queued, the chunk
\* in flight, the frames held out of order.
THEOREM SessionTypeCorrect == SessionSpec => []SessionTypeOK
<1>1. DownInv /\ UpInv /\ Bounds => SessionTypeOK
  <2> SUFFICES ASSUME DownInv, UpInv, Bounds PROVE SessionTypeOK
    OBVIOUS
  <2>1. Octets \in Nat /\ Frames \in Nat
    BY Lengths DEF Bounds
  <2>2. /\ outbound \in Seq(Nat) /\ inflight \in Seq(Nat) /\ produced \in Nat /\ Len(outbound) <= produced
        /\ recut \in BOOLEAN /\ presumed \in BOOLEAN
    BY DEF DownInv, Types, Queued
  <2>3. Gone \in Nat /\ Gone + Len(outbound) = produced /\ produced <= Octets
    BY <2>2 DEF Gone, Bounds
  <2>4. outbound \in Seq(1 .. Octets)
    <3>1. \A b \in 1 .. Len(outbound) : outbound[b] = Gone + b
      BY DEF DownInv, Queued
    <3>2. \A b \in 1 .. Len(outbound) : outbound[b] \in 1 .. Octets
      BY <2>1, <2>2, <2>3, <3>1
    <3> DEFINE T == 1 .. Octets
               n == Len(outbound)
    <3>3. outbound \in [1 .. n -> Nat] /\ n \in Nat
      BY <2>2, LenProperties
    <3>4. \A b \in 1 .. n : outbound[b] \in T
      BY <3>2
    <3> HIDE DEF n, T
    <3>5. outbound \in [1 .. n -> T]
      BY <3>3, <3>4, Zenon
    <3>6. outbound \in Seq(T)
      BY <3>3, <3>5, SeqDef, Zenon
    <3> QED
      BY <3>6 DEF T
  <2>5. Len(inflight) <= ChunkSize /\ Len(inflight) <= Len(outbound) /\ Len(inflight) \in Nat
    BY <2>2, Sizes DEF DownInv, Queued, Room
  <2>6. inflight = SubSeq(outbound, 1, Len(inflight))
    <3> DEFINE n == Len(inflight)
               T == Nat
    <3>1. \A b \in 1 .. n : outbound[b] \in Nat /\ inflight[b] = outbound[b]
      BY <2>2, <2>5 DEF DownInv, Queued
    <3>2. n \in Nat /\ \A b \in 1 .. n : outbound[b] \in T
      BY <2>5, <3>1
    <3>3. inflight \in Seq(T)
      BY <2>2
    <3> HIDE DEF n, T
    <3>4. /\ SubSeq(outbound, 1, n) \in Seq(T)
          /\ Len(SubSeq(outbound, 1, n)) = IF 1 <= n THEN n - 1 + 1 ELSE 0
          /\ \A b \in 1 .. n - 1 + 1 : SubSeq(outbound, 1, n)[b] = outbound[1 + b - 1]
      BY <3>2, SubSeqProperties
    <3>5. Len(SubSeq(outbound, 1, n)) = n /\ \A b \in 1 .. n : SubSeq(outbound, 1, n)[b] = outbound[b]
      BY <3>2, <3>4
    <3>6. Len(inflight) = n
      BY DEF n
    <3>7. inflight = SubSeq(outbound, 1, n)
      BY <3>1, <3>3, <3>4, <3>5, <3>6, SeqEqual
    <3> QED
      BY <3>7 DEF n
  <2>7. seqOut \in Seqs /\ nextSeqIn \in Seqs
    <3>1. PICK k \in Nat : seqOut = k % SeqSpace
      BY DEF DownInv, DownHistory
    <3>2. Len(inbound) \in Nat /\ nextSeqIn = Len(inbound) % SeqSpace
      BY DEF UpInv, Ordered
    <3> QED
      BY <3>1, <3>2, NumbersInSpace
  <2>8. reorder \in [Seqs -> 0 .. Frames - 1 \cup {Nothing}]
    BY DEF UpInv, Ordered, Bounds
  <2>9. Cardinality(Held) <= MaxReorderFrames
    BY HeldInWindow DEF UpInv
  <2>10. produced \in 0 .. Octets
    BY <2>1, <2>2, <2>3
  <2> QED
    BY <2>2, <2>4, <2>5, <2>6, <2>7, <2>8, <2>9, <2>10 DEF SessionTypeOK, Bounds
<1>2. SessionInit /\ [][SessionNext]_session => [](DownInv /\ UpInv /\ Bounds)
  <2>1. DownInv => Types
    BY DEF DownInv
  <2>2. DownInv' => Types'
    BY DEF DownInv
  <2> QED
    BY DownStarts, DownKeeps, UpStarts, UpKeeps, BoundsStart, BoundsKeep, <2>1, <2>2, PTL
<1> QED
  BY <1>1, <1>2, PTL DEF SessionSpec

-----------------------------------------------------------------------------
(* A session implements two reliable streams *)

\* What the client has are bytes of the stream; what is taken, frames of it.
Numbered ==
    /\ \A b \in 1 .. Len(client.got) : client.got[b] >= 1
    /\ \A n \in Nat : Taken(n) => n < Frames

SessionInv == DownInv /\ UpInv /\ Bounds /\ Numbered

\* An answer adds its chunk to what the client has, or nothing.
LEMMA Receives ==
    ASSUME Types, NEW i \in Nat, ReceiveAnswer(i)
    PROVE  /\ i \in 1 .. Len(answers)
           /\ UNCHANGED <<lengths, server, produced, queries, answers, expiries, chunkHistory>>
           /\ Len(client.got) \in Nat /\ Len(client'.got) \in Nat /\ Len(client.got) <= Len(client'.got)
           /\ \A b \in 1 .. Len(client.got) : client'.got[b] = client.got[b]
           /\ \A b \in Len(client.got) + 1 .. Len(client'.got) :
                 \E d \in 1 .. Len(answers[i].payload) : client'.got[b] = answers[i].payload[d]
<1> DEFINE p == answers[i].payload
           got == client.got
<1>1. /\ i \in 1 .. Len(answers)
      /\ UNCHANGED <<lengths, server, produced, queries, answers, expiries, chunkHistory>>
      /\ client'.got = got \/ client'.got = got \o p
  BY DEF ReceiveAnswer
<1>2. answers[i] \in Telling
  BY <1>1 DEF Types
<1>3. p \in Seq(Nat) /\ got \in Seq(Nat)
  BY <1>2 DEF Telling, Types
<1> DEFINE T == Nat
<1>4. p \in Seq(T) /\ got \in Seq(T)
  BY <1>3
<1>5. Len(p) \in Nat /\ Len(got) \in Nat
  BY <1>3
<1> HIDE DEF p, got, T
<1>6. CASE client'.got = got
  BY <1>1, <1>5, <1>6 DEF got
<1>7. CASE client'.got = got \o p
  <2>1. /\ Len(got \o p) = Len(got) + Len(p)
        /\ \A b \in 1 .. Len(got) + Len(p) : (got \o p)[b] = IF b <= Len(got) THEN got[b] ELSE p[b - Len(got)]
    BY <1>4, ConcatProperties
  <2>2. \A b \in 1 .. Len(got) : client'.got[b] = got[b]
    BY <2>1, <1>5, <1>7
  <2>3. \A b \in Len(got) + 1 .. Len(got) + Len(p) :
            b - Len(got) \in 1 .. Len(p) /\ client'.got[b] = p[b - Len(got)]
    BY <2>1, <1>5, <1>7
  <2>4. Len(client'.got) = Len(got) + Len(p)
    BY <2>1, <1>7
  <2>5. Len(client'.got) \in Nat /\ Len(got) <= Len(client'.got)
    BY <2>4, <1>5
  <2> QED
    BY <2>2, <2>3, <2>4, <2>5, <1>1, <1>5 DEF p, got
<1> QED
  BY <1>1, <1>6, <1>7

LEMMA NumberedStarts == SessionInit => Numbered
<1> SUFFICES ASSUME SessionInit PROVE Numbered
  OBVIOUS
<1>1. client.got = <<>> /\ inbound = <<>> /\ reorder = [s \in Seqs |-> Nothing]
  BY DEF SessionInit
<1>2. Len(client.got) = 0 /\ Len(inbound) = 0
  BY <1>1
<1>3. ASSUME NEW n \in Nat PROVE ~Taken(n)
  <2>1. reorder[n % SeqSpace] # n
    BY <1>1, NumbersInSpace DEF Nothing
  <2> QED
    BY <1>2, <2>1 DEF Taken
<1> QED
  BY <1>2, <1>3 DEF Numbered

LEMMA NumberedKeeps ==
    DownInv /\ UpInv /\ Bounds /\ Numbered /\ [SessionNext]_session => Numbered'
<1> SUFFICES ASSUME DownInv, UpInv, Bounds, Numbered, [SessionNext]_session PROVE Numbered'
  OBVIOUS
<1>1. Frames' = Frames /\ Frames \in Nat /\ Octets \in Nat /\ Types
  BY LengthsStay, Lengths DEF Frames, Bounds, DownInv
<1>2. CASE UNCHANGED <<client, inbound, reorder>>
  BY <1>1, <1>2 DEF Numbered, Taken
<1>3. ASSUME NEW i \in 1 .. Reach, Ingest(i) PROVE Numbered'
  <2>1. client' = client /\ i \in Nat /\ i \in 1 .. Len(queries)
    BY <1>3, Sizes DEF Ingest
  <2>2. queries[i].frame \in 0 .. Frames - 1 \cup {Nothing}
    BY <2>1 DEF Bounds, Queries
  <2>3. ASSUME NEW n \in Nat, Taken(n)' PROVE n < Frames
    <3>1. Taken(n) \/ n = queries[i].frame
      BY <1>1, <1>3, <2>1, <2>3, Takes
    <3> QED
      BY <3>1, <2>2, <1>1 DEF Numbered, Nothing
  <2> QED
    BY <1>1, <2>1, <2>3 DEF Numbered
<1>4. ASSUME NEW i \in 1 .. Reach, ReceiveAnswer(i) PROVE Numbered'
  <2>1. i \in Nat
    BY Sizes
  <2>2. /\ i \in 1 .. Len(answers) /\ inbound' = inbound /\ reorder' = reorder
        /\ Len(client.got) \in Nat /\ Len(client'.got) \in Nat
        /\ \A b \in 1 .. Len(client.got) : client'.got[b] = client.got[b]
        /\ \A b \in Len(client.got) + 1 .. Len(client'.got) :
              \E d \in 1 .. Len(answers[i].payload) : client'.got[b] = answers[i].payload[d]
    BY <1>1, <1>4, <2>1, Receives DEF server
  <2>3. answers[i].payload \in Chunks
    BY <2>2 DEF Bounds, Answers
  <2>4. \A d \in 1 .. Len(answers[i].payload) : answers[i].payload[d] >= 1
    <3>1. PICK n \in 0 .. ChunkSize : answers[i].payload \in [1 .. n -> 1 .. Octets]
      BY <2>3 DEF Chunks
    <3>2. n \in Nat
      BY <3>1, Sizes
    <3>3. Len(answers[i].payload) = n
      BY <3>1, <3>2
    <3> QED
      BY <3>1, <3>3
  <2>5. ASSUME NEW b \in 1 .. Len(client'.got) PROVE client'.got[b] >= 1
    <3>1. CASE b \in 1 .. Len(client.got)
      BY <3>1, <2>2 DEF Numbered
    <3>2. CASE b \in Len(client.got) + 1 .. Len(client'.got)
      BY <3>2, <2>2, <2>4
    <3> QED
      BY <3>1, <3>2, <2>2
  <2> QED
    BY <1>1, <2>2, <2>5 DEF Numbered, Taken
<1> QED
  BY <1>2, <1>3, <1>4 DEF SessionNext, session, server, Poll, SendFrame, Send, QueueOutbound, ExpireInFlight

LEMMA SessionInvariant == SessionInit /\ [][SessionNext]_session => []SessionInv
<1>1. DownInv => Types
  BY DEF DownInv
<1>2. DownInv' => Types'
  BY DEF DownInv
<1>3. SessionInit => SessionInv
  BY DownStarts, UpStarts, BoundsStart, NumberedStarts DEF SessionInv
<1>4. SessionInv /\ [SessionNext]_session => SessionInv'
  BY DownKeeps, UpKeeps, BoundsKeep, NumberedKeeps, <1>1, <1>2 DEF SessionInv
<1> QED
  BY <1>3, <1>4, PTL

-----------------------------------------------------------------------------
(* Downstream *)

LEMMA ToClientStarts == SessionInit => ToClient!Init
<1> SUFFICES ASSUME SessionInit PROVE ToClient!Init
  OBVIOUS
<1>1. produced = 0 /\ outbound = <<>> /\ client.got = <<>> /\ recut = FALSE /\ presumed = FALSE
  BY DEF SessionInit
<1>2. Len(client.got) = 0 /\ Len(outbound) = 0
  BY <1>1
<1>3. {client.got[i] : i \in 1 .. Len(client.got)} = {} /\ 1 .. produced - Len(outbound) = {}
  BY <1>1, <1>2
<1> QED
  BY <1>1, <1>3 DEF ToClient!Init

\* What the client has comes from the stream and, while the stream is not broken,
\* is its beginning, with all that has left the queue.
Broken == recut \/ presumed

HasBeginning ==
    /\ client.got \in Seq(Nat) /\ Increasing(client.got)
    /\ \A b \in 1 .. Len(client.got) : client.got[b] \in 1 .. produced
    /\ Gone \in Nat
    /\ ~Broken => Len(client.got) >= Gone /\ \A b \in 1 .. Len(client.got) : client.got[b] = b

LEMMA Beginning == DownInv /\ Numbered => HasBeginning
<1> SUFFICES ASSUME DownInv, Numbered PROVE HasBeginning
  OBVIOUS
<1>1. UpTo(client.got, Gone + Room) /\ Increasing(client.got)
  BY DEF DownInv, DownHistory, InOrder
<1>2. /\ client.got \in Seq(Nat) /\ produced \in Nat /\ outbound \in Seq(Nat)
      /\ Len(outbound) <= produced /\ cut \in Seq(Nat)
  BY DEF DownInv, Types, Queued
<1>3. Gone \in Nat /\ Gone + Len(outbound) = produced /\ Len(outbound) \in Nat
  BY <1>2 DEF Gone
<1>4. Room \in Nat /\ Gone + Room <= produced
  BY <1>2, <1>3, Sizes DEF Room
<1>5. \A b \in 1 .. Len(client.got) : client.got[b] \in Nat /\ client.got[b] >= 1
  BY <1>2 DEF Numbered
<1>6. \A b \in 1 .. Len(client.got) : client.got[b] <= Gone + Room
  BY <1>1 DEF UpTo
<1>7. ~Broken => Len(client.got) >= Gone /\ \A b \in 1 .. Len(client.got) : client.got[b] = b
  <2>1. Len(cut) \in Nat /\ Len(client.got) \in Nat
    BY <1>2
  <2>2. ~Broken => ~recut /\ \E k \in Nat : Delivered(k)
    BY DEF DownInv, DownHistory, Acknowledged, Broken
  <2> QED
    BY <1>3, <2>1, <2>2 DEF Delivered
<1>8. \A b \in 1 .. Len(client.got) : client.got[b] \in 1 .. produced
  BY <1>2, <1>3, <1>4, <1>5, <1>6
<1> QED
  BY <1>1, <1>2, <1>3, <1>7, <1>8 DEF HasBeginning

LEMMA ToClientSteps ==
    ASSUME DownInv, DownInv', Numbered, Numbered', HasBeginning, HasBeginning', [SessionNext]_session
    PROVE  [ToClient!Next]_ToClient!stream
<1> DEFINE has == {client.got[b] : b \in 1 .. Len(client.got)}
<1>1. CASE UNCHANGED <<produced, outbound, client, recut, presumed>>
  BY <1>1 DEF ToClient!stream
<1>2. ASSUME NEW i \in 1 .. Reach, ReceiveAnswer(i) PROVE ToClient!Arrive
  <2>1. i \in Nat /\ Types
    BY Sizes DEF DownInv
  <2>2. /\ produced' = produced /\ outbound' = outbound /\ recut' = recut /\ presumed' = presumed
        /\ Len(client.got) \in Nat /\ Len(client'.got) \in Nat /\ Len(client.got) <= Len(client'.got)
        /\ \A b \in 1 .. Len(client.got) : client'.got[b] = client.got[b]
    BY <1>2, <2>1, Receives DEF server, chunkHistory
  <2>3. has \subseteq has'
    BY <2>2
  <2>4. has' \subseteq 1 .. 1 + produced - 1
    <3>1. \A b \in 1 .. Len(client'.got) : client'.got[b] \in 1 .. produced
      BY <2>2 DEF HasBeginning
    <3>2. 1 + produced - 1 = produced
      BY <2>1 DEF Types
    <3> QED
      BY <3>1, <3>2
  <2>5. ToClient!Increasing(client'.got)
    BY DEF HasBeginning, Increasing, ToClient!Increasing
  <2>6. Broken \/ ToClient!Complete(client'.got, has')
    <3>1. CASE ~Broken'
      <4>1. \A b \in 1 .. Len(client'.got) : client'.got[b] = 1 + b - 1
        BY <3>1 DEF HasBeginning
      <4>2. 1 + Len(client'.got) \notin has'
        BY <4>1, <2>2
      <4> QED
        BY <4>1, <4>2 DEF ToClient!Complete
    <3>2. Broken' <=> Broken
      BY <2>2 DEF Broken
    <3> QED
      BY <3>1, <3>2
  <2>7. \A b \in 1 .. Len(client'.got) : client'.got[b] \in has'
    OBVIOUS
  <2> QED
    BY <2>2, <2>3, <2>4, <2>5, <2>6, <2>7 DEF ToClient!Arrive, Broken
<1>3. ASSUME NEW i \in 1 .. Reach, Ingest(i)
      PROVE  ToClient!Settle \/ ToClient!Break \/ UNCHANGED ToClient!stream
  <2>1. i \in Nat /\ Types /\ Queued /\ produced' = produced /\ client' = client
    BY <1>3, Sizes DEF DownInv, Ingest
  <2>2. CASE Commits(queries[i])
    <3>1. Gone' = Gone + Len(inflight) /\ Len(inflight) \in Nat /\ recut' = recut
      BY <1>3, <2>1, <2>2, Committed DEF Types
    <3>4. presumed' = (presumed \/ queries[i].ack = Nothing)
      BY <1>3, <2>2 DEF Ingest
    <3>2. 1 .. Gone \subseteq 1 .. Gone'
      BY <3>1 DEF HasBeginning
    <3>3. Broken' \/ 1 .. Gone' \subseteq has
      <4>1. CASE ~Broken'
        <5>1. Len(client.got) \in Nat /\ Gone' \in Nat
          BY DEF HasBeginning
        <5>2. Len(client.got) >= Gone' /\ \A b \in 1 .. Len(client.got) : client.got[b] = b
          BY <4>1, <2>1 DEF HasBeginning
        <5> QED
          BY <5>1, <5>2
      <4> QED
        BY <4>1
    <3>5. CASE Broken' = Broken
      BY <2>1, <3>2, <3>3, <3>5 DEF ToClient!Settle, Gone, Broken
    <3>6. CASE Broken' = TRUE
      BY <2>1, <3>2, <3>6 DEF ToClient!Break, Gone, Broken
    <3>7. Broken' = Broken \/ Broken' = TRUE
      BY <3>1, <3>4, Zenon DEF Broken
    <3> QED
      BY <3>5, <3>6, <3>7
  <2>3. CASE ~Commits(queries[i])
    <3>1. /\ outbound' = outbound /\ recut' = (recut \/ (cut # <<>> /\ inflight' # cut))
          /\ presumed' = (presumed \/ FALSE)
      BY <1>3, <2>1, <2>3, Replayed DEF Ingest
    <3>2. CASE Broken' = Broken
      BY <2>1, <3>1, <3>2 DEF ToClient!stream, Broken
    <3>3. CASE Broken' = TRUE
      BY <2>1, <3>1, <3>3 DEF ToClient!Break, Broken
    <3>4. Broken' = Broken \/ Broken' = TRUE
      BY <3>1, Zenon DEF Broken
    <3> QED
      BY <3>2, <3>3, <3>4
  <2> QED
    BY <2>2, <2>3
<1>4. ASSUME NEW n \in 1 .. MaxOutboundBytes, QueueOutbound(n) PROVE ToClient!Offer
  <2>1. Types /\ produced' = produced + n /\ client' = client /\ recut' = recut /\ presumed' = presumed
    BY <1>4 DEF DownInv, QueueOutbound, chunkHistory
  <2>2. Gone' = Gone
    BY <1>4, <2>1, QueuedGone
  <2>3. n \in Nat /\ n > 0
    BY SessionAssumption
  <2>4. produced' \in Nat /\ produced' > produced
    BY <2>1, <2>3 DEF Types
  <2> QED
    BY <2>1, <2>2, <2>4 DEF ToClient!Offer, Gone
<1> QED
  BY <1>1, <1>2, <1>3, <1>4
     DEF SessionNext, session, server, chunkHistory, Poll, SendFrame, Send, ExpireInFlight, ToClient!Next

-----------------------------------------------------------------------------
(* Upstream *)

LEMMA ToServerStarts == SessionInit => ToServer!Init
<1> SUFFICES ASSUME SessionInit PROVE ToServer!Init
  OBVIOUS
<1>1. /\ lengths \in Streams /\ inbound = <<>> /\ client.answered = {}
      /\ reorder = [s \in Seqs |-> Nothing]
  BY DEF SessionInit
<1>2. Len(inbound) = 0 /\ Held = {}
  BY <1>1 DEF Held
<1>3. {inbound[i] : i \in 1 .. Len(inbound)} = {} /\ {reorder[s] : s \in Held} = {}
  BY <1>2
<1>4. Frames \in Nat
  BY <1>1, Lengths
<1> QED
  BY <1>1, <1>3, <1>4 DEF ToServer!Init

\* The frames that left the reassembly or wait in it, in any such state, are
\* those that are taken.
LEMMA TakenSet ==
    ASSUME NEW in \in Seq(Nat), \A i \in 1 .. Len(in) : in[i] = i - 1,
           NEW buffer, \A s \in Seqs : buffer[s] # Nothing => buffer[s] \in Nat /\ s = buffer[s] % SeqSpace
    PROVE  {in[i] : i \in 1 .. Len(in)} \cup {buffer[s] : s \in {x \in Seqs : buffer[x] # Nothing}}
           = {n \in Nat : n \in 0 .. Len(in) - 1 \/ buffer[n % SeqSpace] = n}
<1> DEFINE S == {in[i] : i \in 1 .. Len(in)}
           B == {buffer[s] : s \in {x \in Seqs : buffer[x] # Nothing}}
<1>1. ASSUME NEW n \in Nat PROVE n \in S <=> n \in 0 .. Len(in) - 1
  <2>1. Len(in) \in Nat
    OBVIOUS
  <2>2. ASSUME n \in 0 .. Len(in) - 1 PROVE n \in S
    <3>1. n + 1 \in 1 .. Len(in)
      BY <2>1, <2>2
    <3>2. in[n + 1] = (n + 1) - 1
      BY <3>1
    <3>3. in[n + 1] = n
      BY <3>2
    <3> QED
      BY <3>1, <3>3
  <2> QED
    BY <2>1, <2>2
<1>2. ASSUME NEW n \in Nat PROVE n \in B <=> buffer[n % SeqSpace] = n
  <2>1. n % SeqSpace \in Seqs /\ n # Nothing
    BY NumbersInSpace DEF Nothing
  <2> QED
    BY <2>1
<1>3. S \subseteq Nat /\ B \subseteq Nat
  OBVIOUS
<1> HIDE DEF S, B
<1>4. S \cup B = {n \in Nat : n \in 0 .. Len(in) - 1 \/ buffer[n % SeqSpace] = n}
  BY <1>1, <1>2, <1>3
<1> QED
  BY <1>4 DEF S, B

Arrived == {inbound[i] : i \in 1 .. Len(inbound)} \cup {reorder[s] : s \in Held}

LEMMA ArrivedIsTaken == Ordered => Arrived = {n \in Nat : Taken(n)}
<1> SUFFICES ASSUME Ordered PROVE Arrived = {n \in Nat : Taken(n)}
  OBVIOUS
<1>1. inbound \in Seq(Nat) /\ \A i \in 1 .. Len(inbound) : inbound[i] = i - 1
  BY DEF Ordered
<1>2. Len(inbound) \in Nat /\ Window \in Nat
  BY <1>1, Sizes
<1>3. \A s \in Seqs : reorder[s] # Nothing => reorder[s] \in Nat /\ s = reorder[s] % SeqSpace
  BY <1>2 DEF Ordered
<1> QED
  BY <1>1, <1>3, TakenSet DEF Arrived, Held, Taken

\* The frame that is waited for has not arrived.
LEMMA NextMissing == Ordered => Len(inbound) \in Nat /\ ~Taken(Len(inbound))
<1> SUFFICES ASSUME Ordered PROVE Len(inbound) \in Nat /\ ~Taken(Len(inbound))
  OBVIOUS
<1>1. Len(inbound) \in Nat
  BY DEF Ordered
<1> QED
  BY <1>1, NotTaken

ArrivedInv == Ordered /\ Arrived = {n \in Nat : Taken(n)} /\ Len(inbound) \in Nat /\ ~Taken(Len(inbound))

LEMMA ToServerSteps ==
    ASSUME DownInv, UpInv, UpInv', Bounds, Numbered', ArrivedInv, ArrivedInv', [SessionNext]_session
    PROVE  [ToServer!Next]_ToServer!stream
<1>1. Frames' = Frames /\ Frames \in Nat /\ Types
  BY LengthsStay, Lengths DEF Frames, Bounds, DownInv
<1>2. CASE UNCHANGED <<inbound, reorder, client>>
  BY <1>1, <1>2 DEF ToServer!stream, Held
<1>3. ASSUME NEW i \in 1 .. Reach, Ingest(i) PROVE ToServer!Arrive
  <2>1. i \in Nat /\ client' = client
    BY <1>3, Sizes DEF Ingest
  <2>2. \A n \in Nat : Taken(n) => Taken(n)'
    BY <1>1, <1>3, <2>1, Takes
  <2>3. Arrived \subseteq Arrived'
    BY <2>2 DEF ArrivedInv
  <2>4. Arrived' \subseteq 0 .. 0 + Frames - 1
    BY <1>1 DEF ArrivedInv, Numbered
  <2>5. /\ Len(inbound) \in Nat /\ Len(inbound') \in Nat
        /\ \A b \in 1 .. Len(inbound) : inbound[b] = b - 1
        /\ \A b \in 1 .. Len(inbound') : inbound'[b] = b - 1
    BY DEF ArrivedInv, Ordered
  <2>6. Len(inbound) <= Len(inbound')
    <3> SUFFICES ASSUME Len(inbound') < Len(inbound) PROVE FALSE
      BY <2>5
    <3>1. Taken(Len(inbound'))
      BY <2>5 DEF Taken
    <3>2. PICK n \in Nat : n = Len(inbound')
      BY <2>5
    <3>3. Taken(n)'
      BY <3>1, <3>2, <2>2
    <3>4. ~(n \in 0 .. Len(inbound') - 1) /\ reorder'[n % SeqSpace] # n
      BY <3>2 DEF ArrivedInv, Taken
    <3> QED
      BY <3>3, <3>4 DEF Taken
  <2>7. \A b \in 1 .. Len(inbound) : inbound'[b] = inbound[b]
    BY <2>5, <2>6
  <2>8. \A b \in 1 .. Len(inbound') : inbound'[b] \in Arrived'
    BY DEF Arrived
  <2>9. ToServer!Increasing(inbound')
    BY <2>5 DEF ToServer!Increasing
  <2>10. ToServer!Complete(inbound', Arrived')
    <3>1. 0 + Len(inbound') \notin Arrived'
      BY <2>5 DEF ArrivedInv, Taken
    <3>2. \A b \in 1 .. Len(inbound') : inbound'[b] = 0 + b - 1
      BY <2>5
    <3> QED
      BY <3>1, <3>2 DEF ToServer!Complete
  <2> QED
    BY <1>1, <2>1, <2>3, <2>4, <2>6, <2>7, <2>8, <2>9, <2>10 DEF ToServer!Arrive, Arrived, Held
<1>4. ASSUME NEW i \in 1 .. Reach, ReceiveAnswer(i) PROVE ToServer!Settle
  <2>1. inbound' = inbound /\ reorder' = reorder
    BY <1>4 DEF ReceiveAnswer, server
  <2>2. client.answered \subseteq client'.answered
    BY <1>4 DEF ReceiveAnswer
  <2>3. client'.answered \subseteq Arrived
    <3>1. Types'
      BY <1>4, Sizes, DownReceive DEF DownInv
    <3>2. client'.answered \subseteq Nat /\ \A n \in client'.answered : Taken(n)'
      BY <3>1 DEF Types, UpInv, AnsweredTaken
    <3>3. Arrived = {n \in Nat : Taken(n)} /\ \A n : Taken(n)' => Taken(n)
      BY <2>1 DEF ArrivedInv, Taken
    <3> QED
      BY <3>2, <3>3
  <2> QED
    BY <1>1, <2>1, <2>2, <2>3 DEF ToServer!Settle, Arrived, Held
<1> QED
  BY <1>2, <1>3, <1>4
     DEF SessionNext, session, server, Poll, SendFrame, Send, QueueOutbound, ExpireInFlight, ToServer!Next

-----------------------------------------------------------------------------
\* Every step of a session, whatever the network does, is one of two streams that
\* deliver in order, once and as soon as they can: a query is an arrival upstream,
\* and downstream a settlement if it acknowledges, a break if it replaces a chunk
\* that has expired or stands for an acknowledgement; an answer is an arrival downstream and a settlement upstream.
THEOREM SessionCarriesStreams == SessionSpec => StreamsCarried
<1>1. SessionInv => HasBeginning /\ ArrivedInv
  BY Beginning, ArrivedIsTaken, NextMissing DEF SessionInv, ArrivedInv, UpInv
<1>2. SessionInv /\ HasBeginning /\ (SessionInv /\ HasBeginning)' /\ [SessionNext]_session
         => [ToClient!Next]_ToClient!stream
  BY ToClientSteps DEF SessionInv
<1>3. SessionInv /\ ArrivedInv /\ (SessionInv /\ ArrivedInv)' /\ [SessionNext]_session
         => [ToServer!Next]_ToServer!stream
  BY ToServerSteps DEF SessionInv
<1>4. SessionSpec => ToClient!Spec
  BY <1>1, <1>2, SessionInvariant, ToClientStarts, PTL DEF SessionSpec, ToClient!Spec
<1>5. SessionSpec => ToServer!Spec
  BY <1>1, <1>3, SessionInvariant, ToServerStarts, PTL DEF SessionSpec, ToServer!Spec
<1> QED
  BY <1>4, <1>5, PTL DEF StreamsCarried

=============================================================================
