----------------------------- MODULE FleetProofs -----------------------------
(***************************************************************************)
(* Theorems of Fleet for any users, accounts, batch size and bounds.  No   *)
(* mixture of lost, late and repeated heartbeats, failed writes, dead or   *)
(* unreadable cores and restarts bills a user for more than the node's two *)
(* cores carried, unless the counter of one was lost or left out while the *)
(* other had counted the user too; no such mixture files a log line twice  *)
(* or out of order where one core writes lines; and, whichever write, no   *)
(* line is acknowledged that was not written.                              *)
(***************************************************************************)
EXTENDS Fleet, SequenceTheorems, WellFoundedInduction, TLAPS

-----------------------------------------------------------------------------
(* Lemmas about a counter and a row *)

\* A counter's delta is never negative, nothing after a restart or when the counter
\* did not move, and grows no faster than the counter.
LEMMA DeltaBounds ==
    ASSUME NEW p \in Nat, NEW c \in Nat
    PROVE  /\ TrafficDelta(p, c) \in Nat
           /\ TrafficDelta(p, 0) = 0 /\ TrafficDelta(p, p) = 0
           /\ TrafficDelta(p, c + 1) <= TrafficDelta(p, c) + 1
BY DEF TrafficDelta

\* Bytes a row has on record over its whole life.
Recorded(r) == r.life + r.used

\* Billing writes a row, and records at most the delta.
LEMMA BillingRecords ==
    ASSUME NEW r \in Rows, NEW delta \in Nat
    PROVE  /\ ApplyTraffic(r, delta, 0) \in Rows
           /\ Recorded(ApplyTraffic(r, delta, 0)) <= Recorded(r) + delta
           /\ Recorded(r) \in Int
<1> DEFINE used == SaturatingAdd(r.used, delta)
<1>1. used \in Bytes /\ used <= r.used + delta
  BY MaxIntAssumption DEF SaturatingAdd, Rows, Bytes
<1>2. Recorded(r) \in Int
  BY MaxIntAssumption DEF Recorded, Rows, Bytes, Longs
<1>3. ApplyTraffic(r, delta, 0) \in Rows
  BY <1>1, ZenonT(40) DEF ApplyTraffic, Rows, OverLimit, Statuses, OptTime, Time
<1>4. ApplyTraffic(r, delta, 0).used = used /\ ApplyTraffic(r, delta, 0).life = r.life
  BY DEF ApplyTraffic, Rows
<1>5. r.life \in Int /\ r.used \in Int
  BY MaxIntAssumption DEF Rows, Bytes, Longs
<1> HIDE DEF used
<1>6. r.life + used <= r.life + r.used + delta
  BY <1>1, <1>5, MaxIntAssumption DEF Bytes
<1> QED
  BY <1>2, <1>3, <1>4, <1>6 DEF Recorded

\* What a reading still adds to a user whose baseline is p.
Owed(p, reading) == IF p = Nil THEN 0 ELSE TrafficDelta(p, reading)

Baselines == Nat \cup {Nil}

LEMMA OwedBounds ==
    ASSUME NEW p \in Baselines, NEW c \in Nat
    PROVE  /\ Owed(p, c) \in Nat /\ Owed(p, 0) = 0
           /\ Owed(p, c + 1) <= Owed(p, c) + 1
BY DeltaBounds DEF Owed, Baselines, Nil

\* A row r with baseline p, and a counter that stands at c, bill no more than the m
\* bytes carried; and so when a reading x is billed before that.
Within(r, p, c, m) == Recorded(r) + Owed(p, c) <= m
WithinVia(r, p, x, c, m) == Recorded(r) + Owed(p, x) + TrafficDelta(x, c) <= m

\* Both survive a restart of the counter and a byte carried; a reading just taken
\* adds nothing of its own; once billed it is the baseline.
LEMMA WithinSteps ==
    ASSUME NEW r \in Rows, NEW p \in Baselines, NEW x \in Nat, NEW c \in Nat, NEW m \in Nat
    PROVE  /\ Within(r, p, c, m) =>
                /\ Within(r, p, 0, m) /\ Within(r, p, c + 1, m + 1)
                /\ WithinVia(r, p, c, c, m) /\ Recorded(r) <= m
           /\ WithinVia(r, p, x, c, m) =>
                /\ WithinVia(r, p, x, 0, m) /\ WithinVia(r, p, x, c + 1, m + 1)
                /\ p = Nil => Within(r, x, c, m)
                /\ p # Nil => Within(ApplyTraffic(r, TrafficDelta(p, x), 0), x, c, m)
                /\ p # Nil /\ TrafficDelta(p, x) = 0 => Within(r, x, c, m)
<1>1. Recorded(r) \in Int
  BY DeltaBounds, BillingRecords
<1>2. /\ Owed(p, c) \in Nat /\ Owed(p, 0) = 0 /\ Owed(p, x) \in Nat
      /\ Owed(p, c + 1) <= Owed(p, c) + 1 /\ Owed(p, c + 1) \in Nat
  BY OwedBounds, c + 1 \in Nat
<1>3. /\ TrafficDelta(x, c) \in Nat /\ TrafficDelta(x, 0) = 0 /\ TrafficDelta(c, c) = 0
      /\ TrafficDelta(x, c + 1) <= TrafficDelta(x, c) + 1 /\ TrafficDelta(x, c + 1) \in Nat
  BY DeltaBounds, c + 1 \in Nat
<1>4. ASSUME Within(r, p, c, m)
      PROVE  /\ Within(r, p, 0, m) /\ Within(r, p, c + 1, m + 1)
             /\ WithinVia(r, p, c, c, m) /\ Recorded(r) <= m
  BY <1>1, <1>2, <1>3, <1>4 DEF Within, WithinVia
<1>5. ASSUME WithinVia(r, p, x, c, m)
      PROVE  WithinVia(r, p, x, 0, m) /\ WithinVia(r, p, x, c + 1, m + 1)
  BY <1>1, <1>2, <1>3, <1>5 DEF WithinVia
<1>6. ASSUME WithinVia(r, p, x, c, m), p = Nil
      PROVE  Within(r, x, c, m)
  BY <1>1, <1>3, <1>6 DEF Within, WithinVia, Owed, Nil
<1>7. ASSUME WithinVia(r, p, x, c, m), p # Nil
      PROVE  /\ Within(ApplyTraffic(r, TrafficDelta(p, x), 0), x, c, m)
             /\ TrafficDelta(p, x) = 0 => Within(r, x, c, m)
  <2> DEFINE new == ApplyTraffic(r, TrafficDelta(p, x), 0)
  <2>1. TrafficDelta(p, x) \in Nat
    BY <1>7, DeltaBounds DEF Baselines
  <2>2. Recorded(new) <= Recorded(r) + TrafficDelta(p, x) /\ Recorded(new) \in Int
    BY <2>1, BillingRecords
  <2>3. Recorded(r) + TrafficDelta(p, x) + TrafficDelta(x, c) <= m
    BY <1>7 DEF WithinVia, Owed
  <2>4. Owed(x, c) = TrafficDelta(x, c)
    BY DEF Owed, Nil
  <2> HIDE DEF new
  <2>5. Recorded(new) + TrafficDelta(x, c) <= m
    BY <1>1, <1>3, <2>1, <2>2, <2>3
  <2>6. TrafficDelta(p, x) = 0 => Recorded(r) + TrafficDelta(x, c) <= m
    BY <1>1, <1>3, <2>3
  <2> QED
    BY <2>4, <2>5, <2>6 DEF Within, new
<1> QED
  BY <1>4, <1>5, <1>6, <1>7

-----------------------------------------------------------------------------
(* The heartbeat in flight *)

InFlight == {"sent", "save", "publish", "baseline", "bill", "answered"}

Shaped(b) == b \in [pc : InFlight, body : {b.body}, waiting : {b.waiting}, disabled : {b.disabled},
                    prev : {b.prev}, todo : {b.todo}, config : {b.config}]

IsBeat(b) ==
    /\ Shaped(b)
    /\ b.body.traffic \in [Users -> Nat]
    /\ b.prev \in [Users -> Baselines]
    /\ b.todo \subseteq Users

LEMMA ABeatIsFlying ==
    ASSUME NEW b, IsBeat(b)
    PROVE  b # NoBeat /\ b.pc \in InFlight
BY DEF IsBeat, Shaped, InFlight, NoBeat

\* The agent stops waiting for the answer.
LEMMA BeatUnheard ==
    ASSUME NEW b, IsBeat(b)
    PROVE  LET n == [b EXCEPT !.waiting = FALSE] IN
           IsBeat(n) /\ n.pc = b.pc /\ n.body = b.body /\ n.prev = b.prev /\ n.todo = b.todo
BY DEF IsBeat, Shaped

-----------------------------------------------------------------------------
(* The invariant *)

\* The heartbeat in flight is still to bill the user.
Pending(u) ==
    /\ beat.pc \in {"sent", "save", "publish", "baseline", "bill"}
    /\ beat.body.traffic[u] > 0
    /\ beat.pc = "bill" => u \in beat.todo

Total(u) == counter[Xray][u] + counter[SingBox][u]

\* What is on record, what the reading in flight will add, and what the counters add
\* after that are within what was carried; and so without the reading in flight.
Billed(u) ==
    /\ Within(db[u], snap[u], Total(u), carried[u])
    /\ Pending(u) => WithinVia(db[u], snap[u], beat.body.traffic[u], Total(u), carried[u])

\* A baseline the handler has read is the one it will replace.
Read(u) == beat.pc = "bill" /\ u \in beat.todo => beat.body.traffic[u] > 0 /\ beat.prev[u] = snap[u]

BillTypes ==
    /\ counter \in [Engines -> [Users -> Nat]] /\ carried \in [Users -> Nat] /\ mixed \subseteq Users
    /\ db \in [Users -> Rows] /\ snap \in [Users -> Baselines]
    /\ beat = NoBeat \/ IsBeat(beat)

BillInv == BillTypes /\ (\A u \in Users : Read(u)) /\ \A u \in Users \ mixed : Billed(u)

LEMMA TotalIsNat == ASSUME BillTypes, NEW u \in Users PROVE Total(u) \in Nat
<1>1. counter[Xray][u] \in Nat /\ counter[SingBox][u] \in Nat
  BY DEF BillTypes, Engines
<1> QED
  BY <1>1 DEF Total

\* What is read, or left, without some of the cores is all of a user's count or
\* nothing, unless another core has counted the user too.
LEMMA AllOrNothing ==
    ASSUME BillTypes, NEW u \in Users, NEW some, u \notin Splits(some)
    PROVE  LET left(e) == IF e \in some THEN 0 ELSE counter[e][u] IN
           /\ left(Xray) \in Nat /\ left(SingBox) \in Nat
           /\ left(Xray) + left(SingBox) = Total(u) \/ left(Xray) + left(SingBox) = 0
<1>1. counter[Xray][u] \in Nat /\ counter[SingBox][u] \in Nat
  BY DEF BillTypes, Engines
<1>2. ASSUME NEW e \in Engines, NEW f \in Engines, e \in some, f \notin some
      PROVE  ~(counter[e][u] > 0 /\ counter[f][u] > 0)
  BY <1>2 DEF Splits
<1>3. Xray \in Engines /\ SingBox \in Engines
  BY DEF Engines
<1> DEFINE x == counter[Xray][u]
           s == counter[SingBox][u]
<1>4. /\ x \in Nat /\ s \in Nat /\ Total(u) = x + s
      /\ Xray \in some /\ SingBox \notin some => ~(x > 0 /\ s > 0)
      /\ SingBox \in some /\ Xray \notin some => ~(s > 0 /\ x > 0)
  BY <1>1, <1>2, <1>3 DEF Total
<1> HIDE DEF x, s
<1>5. CASE Xray \in some /\ SingBox \in some
  BY <1>4, <1>5 DEF x, s
<1>6. CASE Xray \in some /\ SingBox \notin some
  <2>1. x = 0 \/ s = 0
    BY <1>4, <1>6
  <2> QED
    BY <1>4, <1>6, <2>1 DEF x, s
<1>7. CASE Xray \notin some /\ SingBox \in some
  <2>1. x = 0 \/ s = 0
    BY <1>4, <1>7
  <2> QED
    BY <1>4, <1>7, <2>1 DEF x, s
<1>8. CASE Xray \notin some /\ SingBox \notin some
  BY <1>4, <1>8 DEF x, s
<1> QED
  BY <1>5, <1>6, <1>7, <1>8

\* The counters stand, or some are lost and whom that splits is noted.
Fallen ==
    /\ counter' \in [Engines -> [Users -> Nat]] /\ mixed \subseteq mixed' /\ mixed' \subseteq Users
    /\ \A u \in Users \ mixed' : Total(u)' = Total(u) \/ Total(u)' = 0

LEMMA FallenOrNot ==
    ASSUME BillTypes,
           \/ counter' = counter /\ mixed' = mixed
           \/ \E some : /\ counter' = [e \in Engines |-> IF e \in some THEN Zero ELSE counter[e]]
                        /\ mixed' = mixed \cup Splits(some)
           \/ counter' = [e \in Engines |-> Zero] /\ mixed' = mixed
    PROVE  Fallen
<1>1. CASE counter' = counter /\ mixed' = mixed
  BY <1>1 DEF Fallen, Total, BillTypes
<1>2. ASSUME NEW some, counter' = [e \in Engines |-> IF e \in some THEN Zero ELSE counter[e]],
             mixed' = mixed \cup Splits(some)
      PROVE  Fallen
  <2>1. counter' \in [Engines -> [Users -> Nat]]
    BY <1>2 DEF BillTypes, Zero
  <2>2. mixed \subseteq mixed' /\ mixed' \subseteq Users
    BY <1>2 DEF BillTypes, Splits
  <2>3. ASSUME NEW u \in Users \ mixed' PROVE Total(u)' = Total(u) \/ Total(u)' = 0
    <3>1. u \notin Splits(some)
      BY <1>2
    <3>2. /\ counter'[Xray][u] = IF Xray \in some THEN 0 ELSE counter[Xray][u]
          /\ counter'[SingBox][u] = IF SingBox \in some THEN 0 ELSE counter[SingBox][u]
      BY <1>2 DEF Engines, Zero
    <3>3. Total(u)' = counter'[Xray][u] + counter'[SingBox][u]
      BY DEF Total
    <3> QED
      BY <3>1, <3>2, <3>3, AllOrNothing
  <2> QED
    BY <2>1, <2>2, <2>3 DEF Fallen
<1>3. CASE counter' = [e \in Engines |-> Zero] /\ mixed' = mixed
  <2>1. counter' \in [Engines -> [Users -> Nat]] /\ mixed' \subseteq Users
    BY <1>3 DEF BillTypes, Zero
  <2>2. ASSUME NEW u \in Users PROVE Total(u)' = 0
    BY <1>3 DEF Total, Zero, Engines
  <2> QED
    BY <1>3, <2>1, <2>2 DEF Fallen
<1> QED
  BY <1>1, <1>2, <1>3

LEMMA BillInit == ASSUME Init PROVE BillInv
<1>1. counter = [e \in Engines |-> Zero] /\ carried = Zero /\ mixed = {} /\ beat = NoBeat
      /\ snap = [u \in Users |-> Nil] /\ db \in [Users -> InitialRows]
  BY DEF Init
<1>2. BillTypes
  <2>1. counter \in [Engines -> [Users -> Nat]] /\ carried \in [Users -> Nat]
    BY <1>1 DEF Zero
  <2>2. db \in [Users -> Rows] /\ snap \in [Users -> Baselines]
    BY <1>1, FleetAssumption DEF Baselines
  <2> QED
    BY <1>1, <2>1, <2>2 DEF BillTypes
<1>3. beat.pc = "idle"
  BY <1>1 DEF NoBeat
<1>4. ASSUME NEW u \in Users PROVE Billed(u) /\ Read(u)
  <2>1. db[u] \in Rows /\ Recorded(db[u]) = 0
    <3>1. db[u] \in InitialRows
      BY <1>1
    <3> QED
      BY <3>1, FleetAssumption DEF Recorded
  <2>2. snap[u] = Nil /\ Total(u) = 0 /\ carried[u] = 0
    BY <1>1 DEF Total, Zero, Engines
  <2> QED
    BY <1>3, <2>1, <2>2 DEF Billed, Read, Within, Owed, Pending
<1> QED
  BY <1>2, <1>4 DEF BillInv

\* A step that moves no byte and bills nobody: counters may restart, and the
\* heartbeat may end or go on to where it bills no one else.
LEMMA QuietStep ==
    ASSUME BillInv, UNCHANGED <<carried, db, snap>>, Fallen,
           \/ beat' = NoBeat
           \/ /\ IsBeat(beat')
              /\ \A u \in Users : Pending(u)' => Pending(u) /\ beat'.body = beat.body
              /\ \A u \in Users : Read(u)'
    PROVE  BillInv'
<1>1. BillTypes'
  BY DEF BillInv, BillTypes, Fallen
<1>2. ASSUME NEW u \in Users PROVE Read(u)'
  <2>1. CASE beat' = NoBeat
    <3>1. beat'.pc = "idle"
      BY <2>1 DEF NoBeat
    <3> QED
      BY <3>1 DEF Read
  <2>2. CASE IsBeat(beat')
    <3>1. beat' # NoBeat
      BY <2>2, ABeatIsFlying
    <3> QED
      BY <3>1
  <2> QED
    BY <2>1, <2>2
<1>3. ASSUME NEW u \in Users \ mixed' PROVE Billed(u)'
  <2>1. /\ Total(u) \in Nat /\ carried[u] \in Nat /\ db[u] \in Rows /\ snap[u] \in Baselines
        /\ Billed(u) /\ (Total(u)' = Total(u) \/ Total(u)' = 0)
    BY TotalIsNat DEF BillInv, BillTypes, Fallen
  <2> DEFINE after == Total(u)'
  <2>2. after = Total(u) \/ after = 0
    BY <2>1
  <2> HIDE DEF after
  <2>3. Within(db[u], snap[u], after, carried[u])
    BY <2>1, <2>2, WithinSteps DEF Billed
  <2>4. CASE beat' = NoBeat
    <3>1. beat'.pc = "idle"
      BY <2>4 DEF NoBeat
    <3> QED
      BY <2>3, <3>1 DEF Billed, Pending, after
  <2>5. CASE IsBeat(beat')
    <3>1. beat' # NoBeat
      BY <2>5, ABeatIsFlying
    <3>2. ASSUME Pending(u)'
          PROVE  WithinVia(db[u], snap[u], beat'.body.traffic[u], after, carried[u])
      <4>1. Pending(u) /\ beat'.body = beat.body
        BY <3>1, <3>2
      <4>2. beat'.body.traffic[u] \in Nat
        BY <2>5 DEF IsBeat, Shaped
      <4>3. WithinVia(db[u], snap[u], beat'.body.traffic[u], Total(u), carried[u])
        BY <2>1, <4>1 DEF Billed
      <4> QED
        BY <2>1, <2>2, <4>2, <4>3, WithinSteps
    <3> QED
      BY <2>3, <3>2 DEF Billed, after
  <2> QED
    BY <2>4, <2>5
<1> QED
  BY <1>1, <1>2, <1>3 DEF BillInv

\* A step that leaves the heartbeat alone.
LEMMA AsideStep ==
    ASSUME BillInv, UNCHANGED <<carried, db, snap, beat>>, Fallen
    PROVE  BillInv'
<1>1. CASE beat = NoBeat
  BY <1>1, QuietStep
<1>2. CASE IsBeat(beat)
  <2>1. \A u \in Users : Read(u)'
    BY DEF BillInv, Read
  <2>2. \A u \in Users : Pending(u)' => Pending(u)
    BY DEF Pending
  <2> QED
    BY <1>2, <2>1, <2>2, QuietStep
<1> QED
  BY <1>1, <1>2 DEF BillInv, BillTypes

\* The agent is no longer there to hear the answer.
LEMMA UnheardStep ==
    ASSUME BillInv, UNCHANGED <<carried, db, snap>>, Fallen,
           beat' = NoBeat \/ (IsBeat(beat) /\ beat' = [beat EXCEPT !.waiting = FALSE])
    PROVE  BillInv'
<1>1. CASE beat' = NoBeat
  BY <1>1, QuietStep
<1>2. CASE IsBeat(beat) /\ beat' = [beat EXCEPT !.waiting = FALSE]
  <2>1. /\ IsBeat(beat') /\ beat'.pc = beat.pc /\ beat'.body = beat.body
        /\ beat'.prev = beat.prev /\ beat'.todo = beat.todo
    BY <1>2, BeatUnheard
  <2>2. \A u \in Users : Read(u)'
    BY <2>1 DEF BillInv, Read
  <2> QED
    BY <2>1, <2>2, QuietStep DEF Pending
<1> QED
  BY <1>1, <1>2

\* A step of the handler after which the heartbeat bills no user it was not to bill,
\* and none at once.
LEMMA HandledStep ==
    ASSUME BillInv, UNCHANGED <<carried, db, snap, counter, mixed>>, IsBeat(beat'),
           \A u \in Users : Pending(u)' => Pending(u) /\ beat'.body = beat.body,
           beat'.pc # "bill" \/ beat'.todo = {}
    PROVE  BillInv'
<1>1. Fallen
  BY FallenOrNot DEF BillInv
<1>2. \A u \in Users : Read(u)'
  BY DEF Read
<1> QED
  BY <1>1, <1>2, QuietStep

\* A byte is carried.
LEMMA TrafficStep == ASSUME BillInv, NEW c \in Engines, NEW v \in Users, Traffic(c, v) PROVE BillInv'
<1>1. /\ counter \in [Engines -> [Users -> Nat]] /\ carried \in [Users -> Nat]
      /\ counter' = [counter EXCEPT ![c][v] = @ + 1] /\ carried' = [carried EXCEPT ![v] = @ + 1]
      /\ UNCHANGED <<db, snap, beat, mixed>>
  BY DEF Traffic, BillInv, BillTypes, panel
<1>2. counter[c] \in [Users -> Nat] /\ counter[c][v] \in Nat /\ carried[v] \in Nat
  BY <1>1
<1>3. /\ counter' = [counter EXCEPT ![c] = [counter[c] EXCEPT ![v] = counter[c][v] + 1]]
      /\ counter[c][v] + 1 \in Nat /\ carried[v] + 1 \in Nat
  BY <1>1, <1>2
<1>4. BillTypes'
  <2>1. [counter[c] EXCEPT ![v] = counter[c][v] + 1] \in [Users -> Nat]
    BY <1>2, <1>3
  <2>2. counter' \in [Engines -> [Users -> Nat]]
    BY <1>1, <1>3, <2>1
  <2>3. carried' \in [Users -> Nat]
    BY <1>1, <1>3
  <2> QED
    BY <1>1, <2>2, <2>3 DEF BillInv, BillTypes
<1>5. ASSUME NEW u \in Users
      PROVE  \/ Total(u)' = Total(u) /\ carried'[u] = carried[u]
             \/ Total(u)' = Total(u) + 1 /\ carried'[u] = carried[u] + 1
  <2>1. counter[Xray][u] \in Nat /\ counter[SingBox][u] \in Nat
    BY <1>1 DEF Engines
  <2>2. ASSUME NEW e \in Engines
        PROVE  counter'[e][u] = IF e = c /\ u = v THEN counter[e][u] + 1 ELSE counter[e][u]
    BY <1>1, <1>2, <1>3
  <2>3. /\ counter'[Xray][u] = IF Xray = c /\ u = v THEN counter[Xray][u] + 1 ELSE counter[Xray][u]
        /\ counter'[SingBox][u] = IF SingBox = c /\ u = v THEN counter[SingBox][u] + 1 ELSE counter[SingBox][u]
        /\ c = Xray \/ c = SingBox
        /\ Xray # SingBox
    BY <2>2, FleetAssumption DEF Engines
  <2>4. carried'[u] = IF u = v THEN carried[u] + 1 ELSE carried[u]
    BY <1>1
  <2>5. Total(u) = counter[Xray][u] + counter[SingBox][u] /\ Total(u)' = counter'[Xray][u] + counter'[SingBox][u]
    BY DEF Total
  <2>6. CASE u # v
    BY <2>3, <2>4, <2>5, <2>6
  <2>7. CASE u = v
    BY <2>1, <2>3, <2>4, <2>5, <2>7
  <2> QED
    BY <2>6, <2>7
<1>6. ASSUME NEW u \in Users \ mixed PROVE Billed(u)'
  <2>1. /\ Total(u) \in Nat /\ carried[u] \in Nat /\ db[u] \in Rows /\ snap[u] \in Baselines
        /\ Billed(u)
    BY TotalIsNat DEF BillInv, BillTypes
  <2> DEFINE after == Total(u)'
             moved == carried'[u]
  <2>2. \/ after = Total(u) /\ moved = carried[u]
        \/ after = Total(u) + 1 /\ moved = carried[u] + 1
    BY <1>5
  <2> HIDE DEF after, moved
  <2>3. Within(db[u], snap[u], after, moved)
    BY <2>1, <2>2, WithinSteps DEF Billed
  <2>4. ASSUME Pending(u)
        PROVE  WithinVia(db[u], snap[u], beat.body.traffic[u], after, moved)
    <3>1. beat.body.traffic[u] \in Nat
      BY <2>4 DEF Pending, NoBeat, BillInv, BillTypes, IsBeat, Shaped
    <3>2. WithinVia(db[u], snap[u], beat.body.traffic[u], Total(u), carried[u])
      BY <2>1, <2>4 DEF Billed
    <3> QED
      BY <2>1, <2>2, <3>1, <3>2, WithinSteps
  <2> QED
    BY <1>1, <2>3, <2>4 DEF Billed, Pending, after, moved
<1>7. \A u \in Users : Read(u)'
  BY <1>1 DEF BillInv, Read
<1> QED
  BY <1>1, <1>4, <1>6, <1>7 DEF BillInv

\* The agent reports the counters as they stand, but for those it could not read.
LEMMA BeatStep == ASSUME BillInv, NEW unread, Post(unread) PROVE BillInv'
<1>1. UNCHANGED <<counter, carried, db, snap>> /\ mixed' = mixed \cup Splits(unread)
  BY DEF Post, node, panel
<1> DEFINE reading == Collect(unread).traffic
<1>2. reading = [u \in Users |-> Reported(u, unread)]
  BY DEF Collect
<1>3. ASSUME NEW u \in Users PROVE reading[u] \in Nat
  <2>1. counter[Xray][u] \in Nat /\ counter[SingBox][u] \in Nat
    BY DEF BillInv, BillTypes, Engines
  <2>2. Reading(Xray, u, unread) \in Nat /\ Reading(SingBox, u, unread) \in Nat
    BY <2>1 DEF Reading
  <2> QED
    BY <1>2, <2>2 DEF Reported
<1>4. ASSUME NEW u \in Users \ mixed' PROVE reading[u] = Total(u) \/ reading[u] = 0
  <2>1. u \notin Splits(unread) /\ reading[u] = Reported(u, unread)
    BY <1>1, <1>2
  <2>2. BillTypes
    BY DEF BillInv
  <2> HIDE DEF reading
  <2> QED
    BY <2>1, <2>2, AllOrNothing DEF Reported, Reading
<1>5. /\ beat'.pc = "sent" /\ beat'.body.traffic = reading
      /\ beat'.prev = snap /\ beat'.todo = {} /\ IsBeat(beat')
  <2> DEFINE new == [pc |-> "sent", body |-> Collect(unread), waiting |-> TRUE, disabled |-> FALSE,
                     prev |-> snap, todo |-> {}, config |-> Nothing]
  <2>1. beat' = new
    BY DEF Post
  <2>2. reading \in [Users -> Nat] /\ snap \in [Users -> Baselines]
    BY <1>2, <1>3 DEF BillInv, BillTypes
  <2>3. IsBeat(new) /\ new.pc = "sent" /\ new.body = Collect(unread) /\ new.prev = snap /\ new.todo = {}
    BY <2>2 DEF IsBeat, Shaped, InFlight
  <2> QED
    BY <2>1, <2>3
<1>6. BillTypes'
  <2>1. Splits(unread) \subseteq Users
    BY DEF Splits
  <2> QED
    BY <1>1, <1>5, <2>1 DEF BillInv, BillTypes
<1>7. \A u \in Users : Read(u)'
  BY <1>5 DEF Read
<1> HIDE DEF reading
<1>8. ASSUME NEW u \in Users \ mixed' PROVE Billed(u)'
  <2>1. /\ Total(u) \in Nat /\ carried[u] \in Nat /\ db[u] \in Rows /\ snap[u] \in Baselines
        /\ Within(db[u], snap[u], Total(u), carried[u])
    BY <1>1, TotalIsNat DEF BillInv, BillTypes, Billed
  <2>2. Total(u)' = Total(u)
    BY <1>1 DEF Total
  <2>3. WithinVia(db[u], snap[u], Total(u), Total(u), carried[u])
    BY <2>1, WithinSteps
  <2>4. Pending(u)' => reading[u] = Total(u)
    BY <1>3, <1>4, <1>5 DEF Pending
  <2> QED
    BY <1>1, <1>5, <2>1, <2>2, <2>3, <2>4 DEF Billed
<1> QED
  BY <1>6, <1>7, <1>8 DEF BillInv

\* One user is billed, passed over because the write failed, or gets a baseline.
LEMMA AccountStep == ASSUME BillInv, NEW v \in Users, Account(v) PROVE BillInv'
<1> DEFINE x == beat.body.traffic[v]
           delta == TrafficDelta(snap[v], x)
<1>1. /\ beat.pc = "bill" /\ v \in beat.todo /\ beat' = [beat EXCEPT !.todo = @ \ {v}]
      /\ UNCHANGED <<counter, carried, mixed>>
  BY DEF Account, At, node
<1>2. IsBeat(beat) /\ x \in Nat
  BY <1>1 DEF BillInv, BillTypes, NoBeat, IsBeat, Shaped
<1>3. /\ IsBeat(beat') /\ beat'.pc = "bill" /\ beat'.body = beat.body
      /\ beat'.prev = beat.prev /\ beat'.todo = beat.todo \ {v}
  <2>1. beat.prev \in [Users -> Baselines] /\ beat.todo \ {v} \in SUBSET Users
    BY <1>2 DEF IsBeat, Shaped
  <2>2. beat' = [beat EXCEPT !.todo = beat.todo \ {v}]
    BY <1>1
  <2> QED
    BY <1>1, <1>2, <2>1, <2>2 DEF IsBeat, Shaped
<1>4. /\ carried[v] \in Nat /\ db[v] \in Rows /\ snap[v] \in Baselines /\ Total(v) \in Nat
      /\ db \in [Users -> Rows] /\ snap \in [Users -> Baselines]
      /\ \A u \in Users \ mixed : Billed(u)
      /\ \A u \in Users : Read(u)
  BY TotalIsNat DEF BillInv, BillTypes
<1>5. beat.prev[v] = snap[v] /\ x > 0
  BY <1>1, <1>4 DEF Read
<1>6. \/ snap[v] = Nil /\ snap' = [snap EXCEPT ![v] = x] /\ db' = db
      \/ /\ snap[v] # Nil /\ snap' = [snap EXCEPT ![v] = x]
         /\ db' = IF delta = 0 THEN db ELSE [db EXCEPT ![v] = ApplyTraffic(@, delta, 0)]
      \/ snap' = snap /\ db' = db
  BY <1>5 DEF Account, FirstContact, BillUser
<1>10. v \notin mixed => /\ Within(db[v], snap[v], Total(v), carried[v])
                         /\ WithinVia(db[v], snap[v], x, Total(v), carried[v])
  BY <1>1, <1>4, <1>5 DEF Billed, Pending
<1>7. /\ db' \in [Users -> Rows] /\ snap' \in [Users -> Baselines]
      /\ v \notin mixed => Within(db'[v], snap'[v], Total(v), carried[v])
      /\ \A u \in Users \ {v} : db'[u] = db[u] /\ snap'[u] = snap[u]
  <2>1. CASE snap[v] = Nil /\ snap' = [snap EXCEPT ![v] = x] /\ db' = db
    <3>1. v \notin mixed => Within(db[v], x, Total(v), carried[v])
      BY <1>2, <1>4, <1>10, <2>1, WithinSteps
    <3> HIDE DEF x
    <3> QED
      BY <1>2, <1>4, <2>1, <3>1 DEF Baselines
  <2>2. CASE /\ snap[v] # Nil /\ snap' = [snap EXCEPT ![v] = x]
             /\ db' = IF delta = 0 THEN db ELSE [db EXCEPT ![v] = ApplyTraffic(@, delta, 0)]
    <3>1. delta \in Nat
      BY <1>2, <1>4, <2>2, DeltaBounds DEF Baselines
    <3>2. ApplyTraffic(db[v], delta, 0) \in Rows
      BY <1>4, <3>1, BillingRecords
    <3>3. v \notin mixed =>
            /\ Within(ApplyTraffic(db[v], delta, 0), x, Total(v), carried[v])
            /\ delta = 0 => Within(db[v], x, Total(v), carried[v])
      BY <1>2, <1>4, <1>10, <2>2, WithinSteps
    <3> HIDE DEF delta, x
    <3>4. CASE delta = 0
      BY <1>2, <1>4, <2>2, <3>3, <3>4 DEF Baselines
    <3>5. CASE delta # 0
      BY <1>2, <1>4, <2>2, <3>2, <3>3, <3>5 DEF Baselines
    <3> QED
      BY <3>4, <3>5
  <2>3. CASE snap' = snap /\ db' = db
    BY <1>4, <1>10, <2>3
  <2> QED
    BY <1>6, <2>1, <2>2, <2>3
<1>8. BillTypes'
  BY <1>1, <1>3, <1>7 DEF BillInv, BillTypes
<1>11. ASSUME NEW u \in Users PROVE Read(u)'
  <2>1. u \in beat'.todo => u # v /\ u \in beat.todo
    BY <1>3
  <2>2. u # v => snap'[u] = snap[u]
    BY <1>7
  <2>3. Read(u)
    BY <1>4
  <2> QED
    BY <1>1, <1>3, <2>1, <2>2, <2>3 DEF Read
<1>12. \A u \in Users : Total(u)' = Total(u)
  BY <1>1 DEF Total
<1>9. ASSUME NEW u \in Users \ mixed PROVE Billed(u)'
  <2>1. CASE u = v
    <3>1. ~Pending(u)'
      BY <1>3, <2>1 DEF Pending
    <3> QED
      BY <1>1, <1>7, <1>12, <2>1, <3>1 DEF Billed
  <2>2. CASE u # v
    <3>1. /\ db'[u] = db[u] /\ snap'[u] = snap[u] /\ Total(u)' = Total(u)
          /\ carried'[u] = carried[u] /\ Billed(u)
      BY <1>1, <1>4, <1>7, <1>12, <2>2
    <3>2. u \in beat'.todo => u \in beat.todo
      BY <1>3
    <3>3. Pending(u)' => Pending(u) /\ beat'.body.traffic[u] = beat.body.traffic[u]
      BY <1>1, <1>3, <3>2 DEF Pending
    <3> QED
      BY <3>1, <3>3 DEF Billed
  <2> QED
    BY <2>1, <2>2
<1> QED
  BY <1>1, <1>8, <1>9, <1>11 DEF BillInv

\* The handler reads the row, saves it and files the lines; reads the baselines; and
\* answers.
LEMMA HandlerStep ==
    ASSUME BillInv, Authenticate \/ Save \/ Publish \/ Baseline \/ Answer
    PROVE  BillInv'
<1>1. UNCHANGED <<carried, db, snap, counter, mixed>>
  BY DEF Authenticate, Save, Publish, Baseline, Answer, node, panel, bounds
<1>2. /\ IsBeat(beat)
      /\ {"save", "publish", "baseline", "bill", "answered"} \subseteq InFlight
  BY DEF Authenticate, Save, Publish, Baseline, Answer, At, BillInv, BillTypes, NoBeat, InFlight
<1>8. Fallen
  BY <1>1, FallenOrNot DEF BillInv
<1>3. CASE Authenticate
  <2>1. At("sent") /\ (beat' = NoBeat \/ beat' = [beat EXCEPT !.pc = "save", !.disabled = disabled])
    BY <1>3 DEF Authenticate
  <2>2. CASE beat' = NoBeat
    BY <1>1, <1>8, <2>2, QuietStep
  <2>3. CASE beat' = [beat EXCEPT !.pc = "save", !.disabled = disabled]
    <3>1. IsBeat(beat') /\ beat'.pc = "save" /\ beat'.body = beat.body
      BY <1>2, <2>3 DEF IsBeat, Shaped
    <3> QED
      BY <1>1, <2>1, <3>1, HandledStep DEF Pending, At
  <2> QED
    BY <2>1, <2>2, <2>3
<1>4. CASE Save
  <2>1. At("save") /\ beat' = [beat EXCEPT !.pc = "publish"]
    BY <1>4 DEF Save
  <2>2. IsBeat(beat') /\ beat'.pc = "publish" /\ beat'.body = beat.body
    BY <1>2, <2>1 DEF IsBeat, Shaped
  <2> QED
    BY <1>1, <2>1, <2>2, HandledStep DEF Pending, At
<1>5. CASE Publish
  <2>1. At("publish") /\ beat' = [beat EXCEPT !.pc = "baseline"]
    BY <1>5 DEF Publish
  <2>2. IsBeat(beat') /\ beat'.pc = "baseline" /\ beat'.body = beat.body
    BY <1>2, <2>1 DEF IsBeat, Shaped
  <2> QED
    BY <1>1, <2>1, <2>2, HandledStep DEF Pending, At
<1>6. CASE Baseline
  <2> DEFINE t == {u \in Users : beat.body.traffic[u] > 0}
  <2>1. /\ At("baseline")
        /\ \/ beat' = [beat EXCEPT !.pc = "bill", !.prev = snap, !.todo = t]
           \/ beat' = [beat EXCEPT !.pc = "bill", !.todo = {}]
    BY <1>6 DEF Baseline
  <2>2. snap \in [Users -> Baselines] /\ t \in SUBSET Users /\ {} \in SUBSET Users
    BY DEF BillInv, BillTypes
  <2> HIDE DEF t
  <2>3. CASE beat' = [beat EXCEPT !.pc = "bill", !.prev = snap, !.todo = t]
    <3>1. /\ IsBeat(beat') /\ beat'.pc = "bill" /\ beat'.body = beat.body
          /\ beat'.prev = snap
      BY <1>2, <2>2, <2>3 DEF IsBeat, Shaped
    <3>2. \A u \in Users : Pending(u)' => Pending(u) /\ beat'.body = beat.body
      BY <2>1, <3>1 DEF Pending, At
    <3>3. beat'.todo = t
      BY <1>2, <2>3 DEF IsBeat, Shaped
    <3>4. \A u \in Users : Read(u)'
      BY <1>1, <3>1, <3>3 DEF Read, t
    <3> QED
      BY <1>1, <1>8, <3>1, <3>2, <3>4, QuietStep
  <2>4. CASE beat' = [beat EXCEPT !.pc = "bill", !.todo = {}]
    <3>1. IsBeat(beat') /\ beat'.pc = "bill" /\ beat'.todo = {}
      BY <1>2, <2>2, <2>4 DEF IsBeat, Shaped
    <3> QED
      BY <1>1, <3>1, HandledStep DEF Pending
  <2> QED
    BY <2>1, <2>3, <2>4
<1>7. CASE Answer
  <2>1. beat' = NoBeat \/ beat' = [beat EXCEPT !.pc = "answered", !.config = Entitled]
    BY <1>7 DEF Answer, Done
  <2>2. CASE beat' = NoBeat
    BY <1>1, <1>8, <2>2, QuietStep
  <2>3. CASE beat' = [beat EXCEPT !.pc = "answered", !.config = Entitled]
    <3>1. IsBeat(beat') /\ beat'.pc = "answered"
      BY <1>2, <2>3 DEF IsBeat, Shaped
    <3> QED
      BY <1>1, <3>1, HandledStep DEF Pending
  <2> QED
    BY <2>1, <2>2, <2>3
<1> QED
  BY <1>3, <1>4, <1>5, <1>6, <1>7

LEMMA BillStep == ASSUME BillInv, [Next]_vars PROVE BillInv'
<1> USE DEF BillInv
<1>1. ASSUME NEW e \in Engines, NEW u \in Users, Traffic(e, u) PROVE BillInv'
  BY <1>1, TrafficStep
<1>2. ASSUME NEW k \in Range(Cores), CoreWrites(k) PROVE BillInv'
  <2>1. UNCHANGED <<carried, db, snap, beat, counter, mixed>>
    BY <1>2 DEF CoreWrites, panel, bounds
  <2> QED
    BY <2>1, FallenOrNot, AsideStep
<1>3. ASSUME NEW e \in Engines, CoreDies(e) PROVE BillInv'
  <2>1. /\ counter' = [f \in Engines |-> IF f \in {e} THEN Zero ELSE counter[f]]
        /\ mixed' = mixed \cup Splits({e}) /\ UNCHANGED <<carried, db, snap, beat>>
    BY <1>3 DEF CoreDies, panel, BillTypes
  <2>2. Fallen
    BY <2>1, FallenOrNot
  <2> QED
    BY <2>1, <2>2, AsideStep
<1>4. CASE Beat \/ BeatUnread
  BY <1>4, BeatStep DEF Beat, BeatUnread
<1>5. CASE GiveUp
  <2>1. UNCHANGED <<carried, db, snap, counter, mixed>>
    BY <1>5 DEF GiveUp, node, panel
  <2>2. beat' = NoBeat \/ (IsBeat(beat) /\ beat' = [beat EXCEPT !.waiting = FALSE])
    BY <1>5 DEF GiveUp, BillTypes
  <2>3. Fallen
    BY <2>1, FallenOrNot
  <2> QED
    BY <2>1, <2>2, <2>3, UnheardStep
<1>6. CASE Receive
  <2>1. UNCHANGED <<carried, db, snap>> /\ beat' = NoBeat
    BY <1>6 DEF Receive, panel
  <2>2. \E lost : /\ counter' = [e \in Engines |-> IF e \in lost THEN Zero ELSE counter[e]]
                 /\ mixed' = mixed \cup Splits(lost)
    BY <1>6 DEF Receive, ApplyConfigs
  <2>3. Fallen
    BY <2>2, FallenOrNot
  <2> QED
    BY <2>1, <2>3, QuietStep
<1>7. CASE AgentRestart
  <2>1. UNCHANGED <<carried, db, snap, mixed>> /\ counter' = [e \in Engines |-> Zero]
    BY <1>7 DEF AgentRestart, panel
  <2>2. beat' = NoBeat \/ (IsBeat(beat) /\ beat' = [beat EXCEPT !.waiting = FALSE])
    BY <1>7 DEF AgentRestart, BillTypes
  <2>3. Fallen
    BY <2>1, FallenOrNot
  <2> QED
    BY <2>1, <2>2, <2>3, UnheardStep
<1>8. CASE Authenticate \/ Save \/ Publish \/ Baseline \/ Answer
  BY <1>8, HandlerStep
<1>9. ASSUME NEW u \in Users, Account(u) PROVE BillInv'
  BY <1>9, AccountStep
<1>10. CASE PanelRestart
  <2>1. UNCHANGED <<carried, db, snap, counter, mixed>> /\ beat' = NoBeat
    BY <1>10 DEF PanelRestart, node
  <2> QED
    BY <2>1, FallenOrNot, QuietStep
<1>11. CASE SetNodeState \/ UNCHANGED vars
  <2>1. UNCHANGED <<carried, db, snap, beat, counter, mixed>>
    BY <1>11 DEF SetNodeState, vars, node, panel, bounds
  <2> QED
    BY <2>1, FallenOrNot, AsideStep
<1> QED
  BY <1>1, <1>2, <1>3, <1>4, <1>5, <1>6, <1>7, <1>8, <1>9, <1>10, <1>11 DEF Next, Handle

\* For any users, accounts, batch size and bounds: whatever heartbeats, answers and
\* processes are lost, whichever writes fail and whenever counters restart, nobody
\* is charged for more than the node carried, but users of both cores of whom one
\* core's counter was lost or left out.
THEOREM NodeNeverOverbilled == Spec => []NodeNeverOverbills
<1>1. ASSUME BillInv PROVE NodeNeverOverbills
  <2>1. ASSUME NEW u \in Users \ mixed PROVE db[u].life + db[u].used <= carried[u]
    <3>1. /\ Total(u) \in Nat /\ carried[u] \in Nat /\ db[u] \in Rows
          /\ snap[u] \in Baselines /\ Within(db[u], snap[u], Total(u), carried[u])
      BY <1>1, TotalIsNat DEF BillInv, BillTypes, Billed
    <3>2. Recorded(db[u]) <= carried[u]
      BY <3>1, WithinSteps
    <3> QED
      BY <3>2 DEF Recorded
  <2> QED
    BY <2>1 DEF NodeNeverOverbills
<1> QED
  BY <1>1, BillInit, BillStep, PTL DEF Spec

-----------------------------------------------------------------------------
(* The lines of the one core that speaks *)

OneCore == \E k : Cores = <<k>>
Core == Cores[1]

LEMMA CoreAlone == ASSUME OneCore PROVE Range(Cores) = {Core} /\ Len(Cores) = 1
BY DEF OneCore, Core, Range

LEMMA FlattenAlone == ASSUME NEW s PROVE FlattenSeq([i \in 1 .. 1 |-> s]) = s
<1> DEFINE seqs == [i \in 1 .. 1 |-> s]
           body(f) == [i \in 1 .. Len(seqs) |-> IF i = 1 THEN seqs[i] ELSE f[i - 1] \o seqs[i]]
           flatten == CHOOSE f : f = body(f)
<1>1. Len(seqs) = 1
  OBVIOUS
<1>2. [i \in 1 .. 1 |-> s] = body([i \in 1 .. 1 |-> s])
  BY <1>1
<1>3. flatten = body(flatten)
  BY <1>2
<1>4. flatten[1] = s
  BY <1>1, <1>3
<1>5. FlattenSeq(seqs) = flatten[Len(seqs)]
  BY <1>1 DEF FlattenSeq
<1> QED
  BY <1>1, <1>4, <1>5

FiledLines == [epoch : Nat, core : {Core}, n : Nat]

\* The body b carries the last lines the core wrote up to b.cursor, in their order.
IsBody(b) ==
    /\ b.lines \in Seq(FiledLines) /\ b.seq \in Nat /\ b.epoch \in Nat
    /\ b.cursor \in [{Core} -> Nat]
    /\ \A i \in 1 .. Len(b.lines) :
         b.lines[i] = [epoch |-> b.epoch, core |-> Core,
                       n |-> b.cursor[Core] - Len(b.lines) + i]

\* The line before the first that a heartbeat carries when w have been written.
Before(w) == IF w - Batch > cursor[Core] THEN w - Batch ELSE cursor[Core]

LEMMA Collected ==
    ASSUME NEW unread, OneCore, epoch \in Nat, logSeq \in Nat, wrote \in [{Core} -> Nat],
           cursor \in [{Core} -> Nat], cursor[Core] <= wrote[Core]
    PROVE  /\ IsBody(Collect(unread)) /\ Collect(unread).seq = logSeq /\ Collect(unread).epoch = epoch
           /\ Collect(unread).cursor = wrote
           /\ Len(Collect(unread).lines) = wrote[Core] - Before(wrote[Core])
<1> DEFINE all == Unshipped(Core)
           new == Newest(all)
           size == wrote[Core] - cursor[Core]
<1>1. wrote[Core] \in Nat /\ cursor[Core] \in Nat /\ size \in Nat /\ Batch \in Nat \ {0}
  BY FleetAssumption
<1>2. /\ all \in Seq(FiledLines) /\ Len(all) = size
      /\ \A i \in 1 .. size : all[i] = [epoch |-> epoch, core |-> Core, n |-> cursor[Core] + i]
  <2> DEFINE line(i) == [epoch |-> epoch, core |-> Core, n |-> cursor[Core] + i]
  <2>1. all = [i \in 1 .. size |-> line(i)]
    BY DEF Unshipped
  <2>2. \A i \in 1 .. size : line(i) \in FiledLines
    BY <1>1 DEF FiledLines
  <2> HIDE DEF line, size
  <2>3. [i \in 1 .. size |-> line(i)] \in Seq(FiledLines)
    BY <1>1, <2>2
  <2>4. Len([i \in 1 .. size |-> line(i)]) = size
    BY <1>1
  <2>5. \A i \in 1 .. size : all[i] = line(i)
    BY <2>1
  <2> QED
    BY <2>1, <2>3, <2>4, <2>5 DEF line
<1>3. /\ new \in Seq(FiledLines) /\ Len(new) = wrote[Core] - Before(wrote[Core])
      /\ \A i \in 1 .. Len(new) :
            new[i] = [epoch |-> epoch, core |-> Core, n |-> wrote[Core] - Len(new) + i]
  <2>1. CASE size <= Batch
    <3>1. new = all
      BY <1>2, <2>1 DEF Newest
    <3>2. wrote[Core] - Before(wrote[Core]) = size
      BY <1>1, <2>1 DEF Before
    <3> HIDE DEF new, all
    <3> QED
      BY <1>1, <1>2, <3>1, <3>2
  <2>2. CASE size > Batch
    <3>1. new = SubSeq(all, size - Batch + 1, size)
      <4>1. Len(all) = size /\ ~(Len(all) <= Batch)
        BY <1>1, <1>2, <2>2
      <4> HIDE DEF all, size
      <4> QED
        BY <4>1 DEF Newest
    <3>2. wrote[Core] - Before(wrote[Core]) = Batch
      BY <1>1, <2>2 DEF Before
    <3> HIDE DEF new, all
    <3>3. /\ size - Batch + 1 \in Int /\ size \in Int
          /\ \A i \in size - Batch + 1 .. size : all[i] \in FiledLines
      BY <1>1, <1>2, <2>2
    <3>4. /\ new \in Seq(FiledLines) /\ Len(new) = Batch
          /\ \A i \in 1 .. Batch : new[i] = all[size - Batch + i]
      <4>1. /\ new \in Seq(FiledLines)
            /\ Len(new) = IF size - Batch + 1 <= size THEN size - (size - Batch + 1) + 1 ELSE 0
            /\ \A i \in 1 .. size - (size - Batch + 1) + 1 : new[i] = all[size - Batch + 1 + i - 1]
        BY <3>1, <3>3, SubSeqProperties, SMTT(30)
      <4>2. size - (size - Batch + 1) + 1 = Batch /\ size - Batch + 1 <= size
        BY <1>1
      <4>3. \A i \in 1 .. Batch : size - Batch + 1 + i - 1 = size - Batch + i
        BY <1>1
      <4> QED
        BY <4>1, <4>2, <4>3
    <3>5. ASSUME NEW i \in 1 .. Batch
          PROVE  new[i] = [epoch |-> epoch, core |-> Core, n |-> wrote[Core] - Batch + i]
      <4>1. size - Batch + i \in 1 .. size /\ cursor[Core] + (size - Batch + i) = wrote[Core] - Batch + i
        BY <1>1, <2>2
      <4> QED
        BY <1>2, <3>4, <4>1
    <3> QED
      BY <3>2, <3>4, <3>5
  <2> QED
    BY <1>1, <2>1, <2>2
<1>4. Collect(unread).lines = new
  <2>1. [i \in 1 .. Len(Cores) |-> Unshipped(Cores[i])] = [i \in 1 .. 1 |-> all]
    <3>1. Len(Cores) = 1
      BY CoreAlone
    <3>2. \A i \in 1 .. 1 : Unshipped(Cores[i]) = all
      BY DEF Core
    <3> HIDE DEF all
    <3> QED
      BY <3>1, <3>2
  <2>2. FlattenSeq([i \in 1 .. Len(Cores) |-> Unshipped(Cores[i])]) = all
    BY <2>1, FlattenAlone
  <2> QED
    BY <2>2 DEF Collect
<1>5. Collect(unread).seq = logSeq /\ Collect(unread).epoch = epoch /\ Collect(unread).cursor = wrote
  BY DEF Collect
<1> HIDE DEF new
<1> QED
  BY <1>3, <1>4, <1>5 DEF IsBody

\* The last of the positions that the body b speaks of.
End(b) == b.seq + Len(b.lines)

\* No line of epoch e beyond its m-th is filed.
FiledUpTo(e, m) == \A i \in DOMAIN filed : filed[i].epoch = e => filed[i].n <= m

LogTypes ==
    /\ epoch \in Nat /\ logSeq \in Nat /\ next \in Nat
    /\ hubEpoch \in Nat \cup {Nil} /\ hubEpoch <= epoch
    /\ wrote \in [{Core} -> Nat] /\ cursor \in [{Core} -> Nat]
    /\ cursor[Core] <= wrote[Core]
    /\ filed \in Seq(FiledLines)
    /\ beat = NoBeat \/ (Shaped(beat) /\ IsBody(beat.body))

\* The lines of the heartbeat in flight have been filed; its answer can reach the agent.
HasFiled == beat.pc \in {"baseline", "bill", "answered"}
Heard == beat.pc \in {"sent", "answered"} \/ beat.waiting

\* Positions and line numbers drift apart when a batch is cut, but always in the same
\* direction: what the panel has of the running agent is below what stands at the
\* position it expects next, in the numbering of the next heartbeat...
AgentAhead ==
    hubEpoch = epoch =>
        next >= logSeq /\ FiledUpTo(epoch, Before(wrote[Core]) - logSeq + next)

\* ... and in that of the heartbeat in flight, which leaves the panel at its end.
BeatAhead ==
    /\ hubEpoch <= beat.body.epoch /\ beat.body.epoch <= epoch
    /\ hubEpoch = beat.body.epoch =>
         /\ next >= beat.body.seq
         /\ FiledUpTo(beat.body.epoch, beat.body.cursor[Core] - End(beat.body) + next)
    /\ HasFiled /\ Len(beat.body.lines) > 0 =>
         hubEpoch = beat.body.epoch /\ next >= End(beat.body)

\* An answer that can be heard is for the agent that is running, and a body of that
\* agent starts at the agent's cursors.
BeatCurrent ==
    /\ Heard => beat.body.epoch = epoch
    /\ beat.body.epoch = epoch =>
         /\ beat.body.seq = logSeq
         /\ cursor[Core] <= beat.body.cursor[Core] /\ beat.body.cursor[Core] <= wrote[Core]
         /\ Len(beat.body.lines) = beat.body.cursor[Core] - Before(beat.body.cursor[Core])

LogInv ==
    /\ LogTypes
    /\ FiledOnceInOrder
    /\ \A i \in DOMAIN filed : filed[i].epoch <= hubEpoch
    /\ AgentAhead
    /\ beat # NoBeat => BeatAhead /\ BeatCurrent

agentLog == <<epoch, logSeq, wrote, cursor>>

LEMMA LogInit == ASSUME OneCore, Init PROVE LogInv
<1>1. /\ wrote = [k \in {Core} |-> 0] /\ cursor = [k \in {Core} |-> 0]
      /\ epoch = 0 /\ logSeq = 0 /\ next = 0 /\ hubEpoch = Nil /\ filed = <<>> /\ beat = NoBeat
  BY CoreAlone DEF Init
<1>2. DOMAIN filed = {}
  BY <1>1
<1>3. LogTypes
  BY <1>1 DEF LogTypes, Nil
<1> QED
  BY <1>1, <1>2, <1>3 DEF LogInv, FiledOnceInOrder, AgentAhead, Nil

\* A step that files and acknowledges nothing: the heartbeat goes on, or ends, and has
\* filed what it carries only if it had before or carries nothing.
LEMMA LogQuietStep ==
    ASSUME LogInv, UNCHANGED <<agentLog, hub>>,
           \/ beat' = NoBeat
           \/ /\ beat # NoBeat /\ Shaped(beat') /\ beat'.body = beat.body
              /\ HasFiled' => HasFiled \/ ~(Len(beat.body.lines) > 0)
              /\ Heard' => Heard
    PROVE  LogInv'
<1>1. LogTypes'
  BY DEF LogInv, LogTypes, agentLog, hub
<1>2. FiledOnceInOrder' /\ AgentAhead' /\ \A i \in DOMAIN filed' : filed'[i].epoch <= hubEpoch'
  BY DEF LogInv, FiledOnceInOrder, AgentAhead, FiledUpTo, Before, agentLog, hub
<1>3. ASSUME beat' # NoBeat PROVE BeatAhead' /\ BeatCurrent'
  <2>1. /\ BeatAhead /\ BeatCurrent /\ beat'.body = beat.body
        /\ HasFiled' => HasFiled \/ ~(Len(beat.body.lines) > 0)
        /\ Heard' => Heard
    BY <1>3 DEF LogInv
  <2>2. BeatAhead'
    BY <2>1 DEF BeatAhead, FiledUpTo, End, agentLog, hub
  <2>3. BeatCurrent'
    BY <2>1 DEF BeatCurrent, Before, agentLog
  <2> QED
    BY <2>2, <2>3
<1> QED
  BY <1>1, <1>2, <1>3 DEF LogInv

LEMMA LogAsideStep == ASSUME LogInv, UNCHANGED <<agentLog, hub, beat>> PROVE LogInv'
<1>1. CASE beat = NoBeat
  BY <1>1, LogQuietStep
<1>2. CASE beat # NoBeat
  <2>1. Shaped(beat') /\ beat'.body = beat.body /\ (HasFiled' => HasFiled) /\ (Heard' => Heard)
    BY <1>2 DEF LogInv, LogTypes, HasFiled, Heard
  <2> QED
    BY <1>2, <2>1, LogQuietStep
<1> QED
  BY <1>1, <1>2

LEMMA CoreWritesStep == ASSUME OneCore, LogInv, NEW k \in Range(Cores), CoreWrites(k) PROVE LogInv'
<1>1. /\ k = Core /\ wrote' = [wrote EXCEPT ![Core] = @ + 1]
      /\ UNCHANGED <<epoch, logSeq, cursor, hub, beat>>
  BY CoreAlone DEF CoreWrites, panel
<1>2. /\ wrote[Core] \in Nat /\ cursor[Core] \in Nat /\ logSeq \in Nat /\ next \in Nat
      /\ wrote'[Core] = wrote[Core] + 1 /\ wrote' \in [{Core} -> Nat] /\ Batch \in Nat
      /\ filed \in Seq(FiledLines)
  BY <1>1, FleetAssumption DEF LogInv, LogTypes
<1>3. LogTypes'
  BY <1>1, <1>2 DEF LogInv, LogTypes, hub
<1>4. AgentAhead'
  <2>1. /\ Before(wrote[Core]) \in Int /\ Before(wrote[Core])' \in Int
        /\ Before(wrote[Core]) <= Before(wrote[Core])'
    BY <1>1, <1>2 DEF Before
  <2>2. ASSUME hubEpoch = epoch, NEW i \in DOMAIN filed, filed[i].epoch = epoch
        PROVE  filed[i].n <= Before(wrote[Core])' - logSeq + next
    <3>1. filed[i].n \in Nat /\ filed[i].n <= Before(wrote[Core]) - logSeq + next
      <4>1. filed[i] \in FiledLines
        BY <1>2, <2>2
      <4> QED
        BY <2>2, <4>1 DEF LogInv, AgentAhead, FiledUpTo, FiledLines
    <3> QED
      BY <1>2, <2>1, <3>1
  <2> QED
    BY <1>1, <2>2 DEF LogInv, AgentAhead, FiledUpTo, hub
<1>5. FiledOnceInOrder' /\ \A i \in DOMAIN filed' : filed'[i].epoch <= hubEpoch'
  BY <1>1 DEF LogInv, FiledOnceInOrder, hub
<1>6. ASSUME beat # NoBeat PROVE BeatAhead' /\ BeatCurrent'
  <2>1. BeatAhead /\ BeatCurrent /\ beat.body.cursor[Core] \in Nat
    BY <1>6 DEF LogInv, LogTypes, IsBody
  <2>2. BeatAhead'
    BY <1>1, <2>1 DEF BeatAhead, FiledUpTo, End, HasFiled, hub
  <2>3. BeatCurrent'
    BY <1>1, <1>2, <2>1 DEF BeatCurrent, Before, Heard
  <2> QED
    BY <2>2, <2>3
<1> QED
  BY <1>1, <1>3, <1>4, <1>5, <1>6 DEF LogInv

LEMMA BeatLogStep == ASSUME OneCore, LogInv, NEW unread, Post(unread) PROVE LogInv'
<1>1. UNCHANGED <<agentLog, hub>>
  BY DEF Post, node, panel, agentLog
<1>2. /\ Shaped(beat') /\ beat'.body = Collect(unread) /\ beat'.pc = "sent"
  BY DEF Post, Shaped, InFlight
<1>3. /\ IsBody(Collect(unread)) /\ Collect(unread).seq = logSeq /\ Collect(unread).epoch = epoch
      /\ Collect(unread).cursor = wrote
      /\ Len(Collect(unread).lines) = wrote[Core] - Before(wrote[Core])
  BY Collected DEF LogInv, LogTypes
<1> DEFINE b == beat'.body
<1>4. /\ IsBody(b) /\ b.seq = logSeq /\ b.epoch = epoch /\ b.cursor = wrote
      /\ Len(b.lines) = wrote[Core] - Before(wrote[Core])
  BY <1>2, <1>3
<1>5. LogTypes'
  BY <1>1, <1>2, <1>4 DEF LogInv, LogTypes, agentLog, hub
<1>6. FiledOnceInOrder' /\ AgentAhead' /\ \A i \in DOMAIN filed' : filed'[i].epoch <= hubEpoch'
  BY <1>1 DEF LogInv, FiledOnceInOrder, AgentAhead, FiledUpTo, Before, agentLog, hub
<1>7. wrote[Core] \in Nat /\ cursor[Core] \in Nat /\ logSeq \in Nat /\ next \in Nat
      /\ Batch \in Nat /\ Before(wrote[Core]) \in Int /\ epoch \in Nat /\ hubEpoch <= epoch
      /\ cursor[Core] <= wrote[Core]
  BY FleetAssumption DEF LogInv, LogTypes, Before
<1>8. BeatAhead'
  <2>1. b.cursor[Core] - End(b) + next = Before(wrote[Core]) - logSeq + next
    BY <1>4, <1>7 DEF End
  <2>2. ~HasFiled'
    BY <1>2 DEF HasFiled
  <2>3. /\ hubEpoch' = hubEpoch /\ epoch' = epoch /\ next' = next /\ filed' = filed
    BY <1>1 DEF agentLog, hub
  <2>4. hubEpoch = b.epoch => next >= b.seq /\ FiledUpTo(b.epoch, b.cursor[Core] - End(b) + next)
    BY <1>4, <2>1 DEF LogInv, AgentAhead
  <2> QED
    BY <1>4, <1>7, <2>2, <2>3, <2>4 DEF BeatAhead, FiledUpTo, End
<1>9. BeatCurrent'
  BY <1>1, <1>4, <1>7 DEF BeatCurrent, Before, agentLog
<1> QED
  BY <1>4, <1>5, <1>6, <1>8, <1>9 DEF LogInv

\* The agent hears the answer and takes the lines as acknowledged.
LEMMA ReceiveLogStep == ASSUME OneCore, LogInv, Receive PROVE LogInv'
<1> DEFINE b == beat.body
<1>1. /\ beat.pc = "answered" /\ beat # NoBeat /\ beat' = NoBeat
      /\ cursor' = b.cursor /\ logSeq' = End(b)
      /\ UNCHANGED <<epoch, wrote, hub>>
  <2>1. beat.pc = "answered" /\ cursor' = b.cursor /\ logSeq' = logSeq + Len(b.lines)
        /\ beat' = NoBeat /\ UNCHANGED <<epoch, wrote, hub>>
    BY DEF Receive, At, AcceptLogs, panel
  <2>2. beat # NoBeat
    BY <2>1 DEF NoBeat
  <2>3. BeatCurrent /\ Heard
    BY <2>1, <2>2 DEF LogInv, Heard
  <2> QED
    BY <2>1, <2>2, <2>3 DEF BeatCurrent, End
<1>2. /\ BeatAhead /\ HasFiled /\ b.epoch = epoch /\ IsBody(b)
      /\ cursor[Core] <= b.cursor[Core] /\ b.cursor[Core] <= wrote[Core] /\ b.seq = logSeq
      /\ Len(b.lines) = b.cursor[Core] - Before(b.cursor[Core])
  BY <1>1 DEF LogInv, LogTypes, HasFiled, Heard, BeatCurrent
<1>3. /\ b.cursor[Core] \in Nat /\ wrote[Core] \in Nat /\ cursor[Core] \in Nat /\ Len(b.lines) \in Nat
      /\ b.seq \in Nat /\ next \in Nat /\ Batch \in Nat \ {0} /\ End(b) \in Nat
      /\ filed \in Seq(FiledLines) /\ b.cursor \in [{Core} -> Nat]
  <2>1. b.lines \in Seq(FiledLines) /\ b.seq \in Nat /\ b.cursor \in [{Core} -> Nat]
    BY <1>2 DEF IsBody
  <2> QED
    BY <2>1, FleetAssumption, SMTT(30) DEF LogInv, LogTypes, End
<1>4. LogTypes'
  BY <1>1, <1>2, <1>3 DEF LogInv, LogTypes, hub
<1>5. AgentAhead'
  <2> SUFFICES ASSUME hubEpoch = epoch
               PROVE  next >= End(b) /\ FiledUpTo(epoch, Before(wrote[Core])' - End(b) + next)
    BY <1>1 DEF AgentAhead, FiledUpTo, hub
  <2>1. next >= b.seq /\ FiledUpTo(epoch, b.cursor[Core] - End(b) + next)
    BY <1>2 DEF BeatAhead
  <2>2. next >= End(b)
    <3>1. CASE Len(b.lines) > 0
      BY <1>2, <3>1 DEF BeatAhead
    <3>2. CASE Len(b.lines) = 0
      BY <1>3, <2>1, <3>2 DEF End
    <3> QED
      BY <1>3, <3>1, <3>2
  <2>3. b.cursor[Core] <= Before(wrote[Core])' /\ Before(wrote[Core])' \in Int
    BY <1>1, <1>2, <1>3, SMTT(30) DEF Before
  <2>4. ASSUME NEW i \in DOMAIN filed, filed[i].epoch = epoch
        PROVE  filed[i].n <= Before(wrote[Core])' - End(b) + next
    <3>1. filed[i] \in FiledLines
      BY <1>3
    <3>2. filed[i].n \in Nat /\ filed[i].n <= b.cursor[Core] - End(b) + next
      BY <2>1, <2>4, <3>1 DEF FiledUpTo, FiledLines
    <3> QED
      BY <1>3, <2>3, <3>2, SMTT(30)
  <2> QED
    BY <2>2, <2>4 DEF FiledUpTo
<1>6. FiledOnceInOrder' /\ \A i \in DOMAIN filed' : filed'[i].epoch <= hubEpoch'
  BY <1>1 DEF LogInv, FiledOnceInOrder, hub
<1> QED
  BY <1>1, <1>4, <1>5, <1>6 DEF LogInv

\* The agent starts again: what is in flight is of an earlier agent, and nobody hears
\* its answer.
LEMMA AgentRestartLogStep == ASSUME OneCore, LogInv, AgentRestart PROVE LogInv'
<1>1. /\ epoch' = epoch + 1 /\ logSeq' = 0 /\ UNCHANGED hub
      /\ wrote' = [k \in {Core} |-> 0] /\ cursor' = [k \in {Core} |-> 0]
      /\ \/ beat' = NoBeat
         \/ /\ beat # NoBeat /\ beat.pc \notin {"sent", "answered"}
            /\ beat' = [beat EXCEPT !.waiting = FALSE]
  BY CoreAlone DEF AgentRestart, panel
<1>2. epoch \in Nat /\ hubEpoch \in Nat \cup {Nil} /\ hubEpoch <= epoch
  BY DEF LogInv, LogTypes
<1>3. ASSUME beat' # NoBeat
      PROVE  /\ beat # NoBeat /\ Shaped(beat') /\ beat'.body = beat.body /\ beat'.pc = beat.pc
             /\ beat'.waiting = FALSE /\ beat.pc \notin {"sent", "answered"} /\ IsBody(beat.body)
  <2>1. beat # NoBeat /\ beat' = [beat EXCEPT !.waiting = FALSE] /\ beat.pc \notin {"sent", "answered"}
    BY <1>1, <1>3
  <2>2. Shaped(beat) /\ IsBody(beat.body)
    BY <2>1 DEF LogInv, LogTypes
  <2>3. Shaped(beat') /\ beat'.body = beat.body /\ beat'.pc = beat.pc /\ beat'.waiting = FALSE
    BY <2>1, <2>2 DEF Shaped
  <2> QED
    BY <2>1, <2>2, <2>3
<1>4. LogTypes'
  <2>1. beat' = NoBeat \/ (Shaped(beat') /\ IsBody(beat'.body))
    BY <1>3
  <2>2. hubEpoch <= epoch + 1 /\ epoch + 1 \in Nat
    BY <1>2 DEF Nil
  <2> QED
    BY <1>1, <2>1, <2>2 DEF LogInv, LogTypes, hub
<1>5. AgentAhead'
  BY <1>1, <1>2 DEF AgentAhead, hub, Nil
<1>6. FiledOnceInOrder' /\ \A i \in DOMAIN filed' : filed'[i].epoch <= hubEpoch'
  BY <1>1 DEF LogInv, FiledOnceInOrder, hub
<1>7. ASSUME beat' # NoBeat PROVE BeatAhead' /\ BeatCurrent'
  <2>1. BeatAhead /\ beat.body.epoch \in Nat
    BY <1>3, <1>7 DEF LogInv, IsBody
  <2>2. beat.body.epoch <= epoch
    BY <2>1 DEF BeatAhead
  <2>3. beat.body.epoch <= epoch + 1 /\ beat.body.epoch # epoch + 1
    BY <1>2, <2>1, <2>2
  <2>4. BeatAhead'
    BY <1>1, <1>3, <1>7, <2>1, <2>3 DEF BeatAhead, FiledUpTo, End, HasFiled, hub
  <2>5. ~Heard'
    BY <1>3, <1>7 DEF Heard
  <2>6. BeatCurrent'
    BY <1>1, <1>3, <1>7, <2>3, <2>5 DEF BeatCurrent
  <2> QED
    BY <2>4, <2>6
<1> QED
  BY <1>4, <1>5, <1>6, <1>7 DEF LogInv

LEMMA PanelRestartLogStep == ASSUME OneCore, LogInv, PanelRestart PROVE LogInv'
<1>1. /\ beat' = NoBeat /\ next' = 0 /\ hubEpoch' = Nil /\ filed' = <<>> /\ UNCHANGED agentLog
  BY DEF PanelRestart, node, agentLog
<1>2. DOMAIN filed' = {}
  BY <1>1
<1>3. LogTypes'
  BY <1>1 DEF LogInv, LogTypes, agentLog, Nil
<1>4. epoch' \in Nat
  BY <1>3 DEF LogTypes
<1> QED
  BY <1>1, <1>2, <1>3, <1>4 DEF LogInv, FiledOnceInOrder, AgentAhead, Nil

\* The handler's steps that file nothing.
LEMMA HandlerLogStep ==
    ASSUME LogInv, Authenticate \/ Save \/ Baseline \/ Answer \/ \E u \in Users : Account(u)
    PROVE  LogInv'
<1>1. UNCHANGED <<agentLog, hub>>
  BY DEF Authenticate, Save, Baseline, Answer, Account, node, panel, bounds, agentLog
<1>2. beat # NoBeat /\ Shaped(beat)
  BY DEF Authenticate, Save, Baseline, Answer, Account, At, LogInv, LogTypes, NoBeat
<1>3. CASE Authenticate
  <2>1. At("sent") /\ (beat' = NoBeat \/ beat' = [beat EXCEPT !.pc = "save", !.disabled = disabled])
    BY <1>3 DEF Authenticate
  <2>2. ASSUME beat' # NoBeat
        PROVE  Shaped(beat') /\ beat'.body = beat.body /\ ~HasFiled' /\ (Heard' => Heard)
    BY <1>2, <2>1, <2>2 DEF Shaped, InFlight, HasFiled, Heard, At
  <2> QED
    BY <1>1, <1>2, <2>2, LogQuietStep
<1>4. CASE Save
  <2>1. At("save") /\ beat' = [beat EXCEPT !.pc = "publish"]
    BY <1>4 DEF Save
  <2>2. Shaped(beat') /\ beat'.body = beat.body /\ ~HasFiled' /\ (Heard' => Heard)
    BY <1>2, <2>1 DEF Shaped, InFlight, HasFiled, Heard
  <2> QED
    BY <1>1, <1>2, <2>2, LogQuietStep
<1>5. CASE Baseline
  <2> DEFINE t == {u \in Users : beat.body.traffic[u] > 0}
  <2>1. /\ At("baseline")
        /\ \/ beat' = [beat EXCEPT !.pc = "bill", !.prev = snap, !.todo = t]
           \/ beat' = [beat EXCEPT !.pc = "bill", !.todo = {}]
    BY <1>5 DEF Baseline
  <2> HIDE DEF t
  <2>2. CASE beat' = [beat EXCEPT !.pc = "bill", !.prev = snap, !.todo = t]
    <3>1. Shaped(beat') /\ beat'.body = beat.body /\ beat'.pc = "bill" /\ beat'.waiting = beat.waiting
      BY <1>2, <2>2 DEF Shaped, InFlight
    <3> QED
      BY <1>1, <1>2, <2>1, <3>1, LogQuietStep DEF HasFiled, Heard, At
  <2>3. CASE beat' = [beat EXCEPT !.pc = "bill", !.todo = {}]
    <3>1. Shaped(beat') /\ beat'.body = beat.body /\ beat'.pc = "bill" /\ beat'.waiting = beat.waiting
      BY <1>2, <2>3 DEF Shaped, InFlight
    <3> QED
      BY <1>1, <1>2, <2>1, <3>1, LogQuietStep DEF HasFiled, Heard, At
  <2> QED
    BY <2>1, <2>2, <2>3
<1>6. CASE Answer
  <2>1. At("bill") /\ beat' = IF beat.waiting
                               THEN [beat EXCEPT !.pc = "answered", !.config = Entitled] ELSE NoBeat
    BY <1>6 DEF Answer, Done
  <2>2. CASE beat' = NoBeat
    BY <1>1, <2>2, LogQuietStep
  <2>3. CASE beat.waiting /\ beat' = [beat EXCEPT !.pc = "answered", !.config = Entitled]
    <3>1. Shaped(beat') /\ beat'.body = beat.body
      BY <1>2, <2>3 DEF Shaped, InFlight
    <3>2. HasFiled /\ Heard
      BY <2>1, <2>3 DEF HasFiled, Heard, At
    <3> QED
      BY <1>1, <1>2, <3>1, <3>2, LogQuietStep
  <2> QED
    BY <2>1, <2>2, <2>3
<1>7. ASSUME NEW u \in Users, Account(u) PROVE LogInv'
  <2>1. At("bill") /\ beat' = [beat EXCEPT !.todo = beat.todo \ {u}]
    BY <1>7 DEF Account
  <2>2. Shaped(beat') /\ beat'.body = beat.body /\ beat'.pc = beat.pc /\ beat'.waiting = beat.waiting
    BY <1>2, <2>1 DEF Shaped
  <2> QED
    BY <1>1, <1>2, <2>2, LogQuietStep DEF HasFiled, Heard
<1> QED
  BY <1>3, <1>4, <1>5, <1>6, <1>7

\* The agent no longer waits: only an answer or a request still on the way could have
\* been heard, and those are lost.
LEMMA GiveUpLogStep == ASSUME LogInv, GiveUp PROVE LogInv'
<1>1. /\ UNCHANGED <<agentLog, hub>> /\ beat # NoBeat
      /\ \/ beat' = NoBeat
         \/ beat.pc \notin {"sent", "answered"} /\ beat' = [beat EXCEPT !.waiting = FALSE]
  BY DEF GiveUp, node, panel, agentLog
<1>2. CASE beat' = NoBeat
  BY <1>1, <1>2, LogQuietStep
<1>3. CASE beat.pc \notin {"sent", "answered"} /\ beat' = [beat EXCEPT !.waiting = FALSE]
  <2>1. Shaped(beat)
    BY <1>1 DEF LogInv, LogTypes
  <2>2. Shaped(beat') /\ beat'.body = beat.body /\ beat'.pc = beat.pc /\ beat'.waiting = FALSE
    BY <1>3, <2>1 DEF Shaped
  <2> QED
    BY <1>1, <1>3, <2>2, LogQuietStep DEF HasFiled, Heard
<1> QED
  BY <1>1, <1>2, <1>3

\* What publish files are the lines of the body from the position it expects on, and
\* they go behind what is filed.
LEMMA PublishFiles ==
    ASSUME LogInv, beat # NoBeat, NEW want \in Nat, beat.body.seq <= want, want < End(beat.body),
           hubEpoch = beat.body.epoch => want = next
    PROVE  LET b == beat.body
               all == filed \o NewLines(b, want)
           IN /\ all \in Seq(FiledLines)
              /\ \A i, j \in DOMAIN all :
                    i < j /\ all[i].core = all[j].core =>
                       \/ all[i].epoch < all[j].epoch
                       \/ all[i].epoch = all[j].epoch /\ all[i].n < all[j].n
              /\ \A i \in DOMAIN all :
                    /\ all[i].epoch <= b.epoch
                    /\ all[i].epoch = b.epoch => all[i].n <= b.cursor[Core]
<1> DEFINE b == beat.body
           m == want - b.seq + 1
           new == NewLines(b, want)
           all == filed \o new
           w == b.cursor[Core]
           size == Len(b.lines)
           before == w - size + (want - b.seq)
<1>1. /\ b.lines \in Seq(FiledLines) /\ b.seq \in Nat /\ b.epoch \in Nat /\ w \in Nat
      /\ filed \in Seq(FiledLines) /\ next \in Nat /\ hubEpoch \in Nat \cup {Nil}
  BY DEF LogInv, LogTypes, IsBody
<1>2. /\ size \in Nat /\ m \in 1 .. size /\ m \in Nat /\ before \in Int
      /\ before = w - size + m - 1
  <2>1. size \in Nat
    BY <1>1
  <2>2. b.seq <= want /\ want < b.seq + size
    BY DEF End
  <2> DEFINE s == b.seq
  <2>3. s \in Nat /\ s <= want /\ want < s + size /\ m = want - s + 1 /\ before = w - size + (want - s)
    BY <1>1, <2>2
  <2> HIDE DEF s, w, size, m, before
  <2> QED
    BY <1>1, <2>1, <2>3
<1>3. /\ new \in Seq(FiledLines) /\ Len(new) = size - m + 1
      /\ \A i \in 1 .. Len(new) : new[i] = b.lines[m + i - 1]
  <2>1. m \in Int /\ Len(b.lines) \in Int /\ \A i \in m .. Len(b.lines) : b.lines[i] \in FiledLines
    BY <1>1, <1>2, SMTT(40)
  <2>2. new = SubSeq(b.lines, m, Len(b.lines))
    BY DEF NewLines
  <2> HIDE DEF new, m, b, size
  <2>3. /\ new \in Seq(FiledLines) /\ Len(new) = IF m <= size THEN size - m + 1 ELSE 0
        /\ \A i \in 1 .. size - m + 1 : new[i] = b.lines[m + i - 1]
    BY <2>1, <2>2, SubSeqProperties DEF size
  <2> QED
    BY <1>2, <2>1, <2>3 DEF size
<1>4. /\ before + Len(new) = w
      /\ \A i \in 1 .. Len(new) : new[i] = [epoch |-> b.epoch, core |-> Core, n |-> before + i]
  <2>1. before + Len(new) = w
    <3> HIDE DEF new, m, w, size, before
    <3> QED
      BY <1>1, <1>2, <1>3
  <2>2. ASSUME NEW i \in 1 .. Len(new)
        PROVE  new[i] = [epoch |-> b.epoch, core |-> Core, n |-> before + i]
    <3>1. m + i - 1 \in 1 .. size /\ w - size + (m + i - 1) = before + i
      <4>1. i \in 1 .. size - m + 1
        BY <1>3
      <4>2. w \in Nat
        BY <1>1
      <4> HIDE DEF new, m, w, size, before
      <4> QED
        BY <1>2, <4>1, <4>2
    <3>2. b.lines[m + i - 1] = [epoch |-> b.epoch, core |-> Core,
                                n |-> w - size + (m + i - 1)]
      BY <3>1 DEF LogInv, LogTypes, IsBody
    <3>3. new[i] = b.lines[m + i - 1]
      BY <1>3
    <3> HIDE DEF new, m, w, b, size, before
    <3> QED
      BY <3>1, <3>2, <3>3
  <2> QED
    BY <2>1, <2>2
<1>5. \A i \in 1 .. Len(filed) :
         /\ filed[i] \in FiledLines /\ filed[i].epoch <= b.epoch
         /\ filed[i].epoch = b.epoch => filed[i].n <= before
  <2> TAKE i \in 1 .. Len(filed)
  <2>1. filed[i] \in FiledLines /\ filed[i].epoch <= hubEpoch
    BY <1>1 DEF LogInv
  <2>2. BeatAhead
    BY DEF LogInv
  <2>3. filed[i].epoch \in Nat /\ filed[i].epoch <= b.epoch
    BY <1>1, <2>1, <2>2, SMTT(30) DEF BeatAhead, FiledLines, Nil
  <2>4. ASSUME filed[i].epoch = b.epoch PROVE filed[i].n <= before
    <3>1. hubEpoch = b.epoch
      BY <1>1, <2>1, <2>2, <2>4 DEF BeatAhead, Nil
    <3>2. want = next /\ filed[i].n <= w - End(b) + next
      BY <1>1, <2>2, <2>4, <3>1 DEF BeatAhead, FiledUpTo
    <3>3. w - End(b) + next = before
      <4>1. /\ End(b) = b.seq + size /\ before = w - size + (next - b.seq)
            /\ b.seq \in Nat /\ w \in Nat /\ size \in Nat /\ next \in Nat
        BY <1>1, <1>2, <3>2 DEF End
      <4> DEFINE s == b.seq
      <4> HIDE DEF b, s, w, size, before
      <4> QED
        BY <4>1 DEF s
    <3> QED
      BY <3>2, <3>3
  <2> QED
    BY <2>1, <2>3, <2>4
<1> DEFINE old == Len(filed)
           more == Len(new)
<1>6. old \in Nat /\ more \in Nat
  BY <1>1, <1>3
<1>7. /\ all \in Seq(FiledLines) /\ Len(all) = old + more
      /\ \A i \in 1 .. old : all[i] = filed[i]
      /\ \A i \in 1 .. more : all[old + i] = new[i]
  <2> HIDE DEF new
  <2>1. /\ all \in Seq(FiledLines) /\ Len(all) = Len(filed) + Len(new)
        /\ \A i \in 1 .. Len(filed) + Len(new) :
              all[i] = IF i <= Len(filed) THEN filed[i] ELSE new[i - Len(filed)]
    BY <1>1, <1>3, ConcatProperties
  <2> HIDE DEF all
  <2> QED
    BY <1>6, <2>1, SMTT(30)
\* The two halves: what was filed, and what is new.
<1> HIDE DEF new, all, m, w, b, size, before, old, more
<1>8. ASSUME NEW i \in 1 .. old
      PROVE  /\ all[i] = filed[i] /\ all[i].epoch \in Nat /\ all[i].n \in Nat
             /\ all[i].epoch <= b.epoch /\ (all[i].epoch = b.epoch => all[i].n <= before)
  BY <1>5, <1>7 DEF old, FiledLines
<1>9. ASSUME NEW i \in 1 .. more
      PROVE  all[old + i].epoch = b.epoch /\ all[old + i].n = before + i
  <2>1. all[old + i] = [epoch |-> b.epoch, core |-> Core, n |-> before + i]
    BY <1>4, <1>7 DEF more
  <2> QED
    BY <2>1
<1>10. ASSUME NEW i \in 1 .. Len(all)
       PROVE  i \in 1 .. old \/ \E k \in 1 .. more : i = old + k
  <2>1. i <= old \/ (i - old \in 1 .. more /\ i = old + (i - old))
    BY <1>6, <1>7
  <2> QED
    BY <1>6, <2>1
<1>11. ASSUME NEW i \in 1 .. Len(all), NEW j \in 1 .. Len(all), i < j
       PROVE  \/ all[i].core # all[j].core
              \/ all[i].epoch < all[j].epoch
              \/ all[i].epoch = all[j].epoch /\ all[i].n < all[j].n
  <2>1. CASE i \in 1 .. old /\ j \in 1 .. old
    <3>1. i \in DOMAIN filed /\ j \in DOMAIN filed
      BY <1>1, <2>1 DEF old
    <3> QED
      BY <1>8, <1>11, <2>1, <3>1 DEF LogInv, FiledOnceInOrder
  <2>2. ASSUME i \in 1 .. old, NEW k \in 1 .. more, j = old + k
        PROVE  all[i].epoch < all[j].epoch \/ (all[i].epoch = all[j].epoch /\ all[i].n < all[j].n)
    <3>1. /\ all[i].epoch <= b.epoch /\ all[i].epoch \in Nat /\ all[i].n \in Nat
          /\ all[i].epoch = b.epoch => all[i].n <= before
      BY <1>8, <2>2
    <3>2. all[j].epoch = b.epoch /\ all[j].n = before + k
      BY <1>9, <2>2
    <3> QED
      BY <1>1, <1>2, <1>6, <3>1, <3>2, SMTT(30)
  <2>3. ASSUME NEW k \in 1 .. more, i = old + k, NEW l \in 1 .. more, j = old + l
        PROVE  all[i].epoch = all[j].epoch /\ all[i].n < all[j].n
    <3>1. /\ all[i].epoch = b.epoch /\ all[i].n = before + k
          /\ all[j].epoch = b.epoch /\ all[j].n = before + l
      BY <1>9, <2>3
    <3> QED
      BY <1>2, <1>6, <1>11, <2>3, <3>1
  <2>4. ~(j \in 1 .. old /\ \E k \in 1 .. more : i = old + k)
    BY <1>6, <1>11
  <2> QED
    BY <1>10, <2>1, <2>2, <2>3, <2>4
<1>12. ASSUME NEW i \in 1 .. Len(all)
       PROVE  all[i].epoch <= b.epoch /\ (all[i].epoch = b.epoch => all[i].n <= w)
  <2>1. before <= w
    BY <1>2, <1>4, <1>6 DEF more
  <2>2. CASE i \in 1 .. old
    BY <1>1, <1>2, <1>8, <2>1, <2>2, SMTT(30)
  <2>3. ASSUME NEW k \in 1 .. more, i = old + k
        PROVE  all[i].epoch <= b.epoch /\ all[i].n <= w
    <3>1. all[i].epoch = b.epoch /\ all[i].n = before + k
      BY <1>9, <2>3
    <3> QED
      BY <1>1, <1>2, <1>4, <1>6, <3>1 DEF more
  <2> QED
    BY <1>10, <2>2, <2>3
<1>13. DOMAIN all = 1 .. Len(all)
  BY <1>7
<1>14. \A i, j \in DOMAIN all :
         i < j /\ all[i].core = all[j].core =>
            \/ all[i].epoch < all[j].epoch
            \/ all[i].epoch = all[j].epoch /\ all[i].n < all[j].n
  BY <1>11, <1>13
<1>15. \A i \in DOMAIN all : all[i].epoch <= b.epoch /\ (all[i].epoch = b.epoch => all[i].n <= w)
  BY <1>12, <1>13
<1> QED
  BY <1>7, <1>14, <1>15 DEF all, new, b, w

\* Which position the panel expects, and that it is inside the body only if the body
\* brings something new.
LEMMA ExpectedPosition ==
    ASSUME LogInv, beat # NoBeat, Len(beat.body.lines) > 0
    PROVE  LET b == beat.body
               want == Expected(b)
           IN /\ want \in Nat /\ b.seq <= want
              /\ hubEpoch = b.epoch => want = next
              /\ End(b) <= want => hubEpoch = b.epoch
<1> DEFINE b == beat.body
           size == Len(b.lines)
           s == b.seq
<1>1. s \in Nat /\ size \in Nat /\ next \in Nat /\ size > 0
  BY DEF LogInv, LogTypes, IsBody
<1>2. hubEpoch = b.epoch => next >= s
  BY DEF LogInv, BeatAhead
<1>3. End(b) = s + size
  BY DEF End
<1>4. Expected(b) = IF hubEpoch = b.epoch THEN IF s > next THEN s ELSE next
                                          ELSE IF s > 0 THEN s ELSE 0
  BY DEF Expected
<1>5. CASE hubEpoch = b.epoch
  <2>1. Expected(b) = next
    BY <1>1, <1>2, <1>4, <1>5
  <2> QED
    BY <1>1, <1>2, <1>5, <2>1
<1>6. CASE hubEpoch # b.epoch
  <2>1. Expected(b) = s
    BY <1>1, <1>4, <1>6
  <2>2. ~(End(b) <= s)
    <3> HIDE DEF b, s, size
    <3> QED
      BY <1>1, <1>3
  <2> QED
    BY <1>1, <1>6, <2>1, <2>2
<1> QED
  BY <1>5, <1>6

LEMMA PublishLogStep == ASSUME OneCore, LogInv, Publish PROVE LogInv'
<1> DEFINE b == beat.body
           want == Expected(b)
<1>1. beat.pc = "publish" /\ beat # NoBeat /\ beat' = [beat EXCEPT !.pc = "baseline"] /\ UNCHANGED agentLog
  BY DEF Publish, At, NoBeat, node, agentLog
<1>2. Shaped(beat) /\ IsBody(b)
  BY <1>1 DEF LogInv, LogTypes
<1>3. Shaped(beat') /\ beat'.body = b /\ beat'.pc = "baseline" /\ beat'.waiting = beat.waiting
  BY <1>1, <1>2 DEF Shaped, InFlight
<1>4. beat' # NoBeat /\ (Heard' => Heard)
  BY <1>3 DEF NoBeat, Heard
<1>5. b.lines \in Seq(FiledLines) /\ Len(b.lines) \in Nat /\ b.seq \in Nat
  BY <1>2 DEF IsBody
<1>6. CASE b.lines = <<>>
  <2>1. UNCHANGED hub
    BY <1>6 DEF Publish
  <2>2. ~(Len(b.lines) > 0)
    BY <1>6
  <2> QED
    BY <1>1, <1>3, <1>4, <2>1, <2>2, LogQuietStep
<1>7. CASE b.lines # <<>>
  <2>1. Len(b.lines) > 0
    BY <1>5, <1>7
  <2>2. /\ want \in Nat /\ b.seq <= want
        /\ hubEpoch = b.epoch => want = next
        /\ End(b) <= want => hubEpoch = b.epoch
    BY <1>1, <2>1, ExpectedPosition
  <2>3. /\ hubEpoch' = b.epoch
        /\ End(b) <= want => next' = (IF hubEpoch = b.epoch THEN next ELSE 0) /\ UNCHANGED filed
        /\ ~(End(b) <= want) => next' = End(b) /\ filed' = filed \o NewLines(b, want)
    BY <1>7 DEF Publish, End
  <2> HIDE DEF want
  <2>4. BeatAhead /\ BeatCurrent
    BY <1>1 DEF LogInv
  <2>5. BeatCurrent'
    BY <1>1, <1>3, <1>4, <2>4 DEF BeatCurrent, Before, agentLog
  <2>6. CASE End(b) <= want
    <3>1. UNCHANGED hub /\ hubEpoch = b.epoch /\ want = next
      BY <2>2, <2>3, <2>6 DEF hub
    <3>2. LogTypes'
      BY <1>1, <1>2, <1>3, <3>1 DEF LogInv, LogTypes, agentLog, hub
    <3>3. FiledOnceInOrder' /\ AgentAhead' /\ \A i \in DOMAIN filed' : filed'[i].epoch <= hubEpoch'
      BY <1>1, <3>1 DEF LogInv, FiledOnceInOrder, AgentAhead, FiledUpTo, Before, agentLog, hub
    <3>4. next >= End(b)
      <4>1. End(b) \in Int /\ next \in Nat
        BY <1>5 DEF End, LogInv, LogTypes
      <4> QED
        BY <2>6, <3>1, <4>1
    <3>5. BeatAhead'
      BY <1>1, <1>3, <2>4, <3>1, <3>4 DEF BeatAhead, FiledUpTo, End, agentLog, hub
    <3> QED
      BY <2>5, <3>2, <3>3, <3>5 DEF LogInv
  <2>7. CASE ~(End(b) <= want)
    <3> DEFINE all == filed \o NewLines(b, want)
               w == b.cursor[Core]
               size == Len(b.lines)
    <3>1. End(b) = b.seq + size /\ End(b) \in Nat /\ want < End(b) /\ size \in Nat /\ b.seq \in Nat
      <4>1. End(b) = b.seq + size /\ size \in Nat /\ b.seq \in Nat
        BY <1>5 DEF End
      <4>2. End(b) \in Nat
        BY <4>1
      <4> QED
        BY <2>2, <2>7, <4>1, <4>2
    <3>2. /\ all \in Seq(FiledLines)
          /\ \A i, j \in DOMAIN all :
                i < j /\ all[i].core = all[j].core =>
                   \/ all[i].epoch < all[j].epoch
                   \/ all[i].epoch = all[j].epoch /\ all[i].n < all[j].n
          /\ \A i \in DOMAIN all :
                /\ all[i].epoch <= b.epoch
                /\ all[i].epoch = b.epoch => all[i].n <= w
      BY <1>1, <2>2, <3>1, PublishFiles
    <3>3. hubEpoch' = b.epoch /\ next' = End(b) /\ filed' = all
      BY <2>3, <2>7
    <3> HIDE DEF all
    <3>4. b.epoch \in Nat /\ b.epoch <= epoch /\ w \in Nat
      BY <1>2, <2>4 DEF IsBody, BeatAhead
    <3>5. LogTypes'
      BY <1>1, <1>2, <1>3, <3>1, <3>2, <3>3, <3>4 DEF LogInv, LogTypes, agentLog
    <3>6. FiledOnceInOrder' /\ \A i \in DOMAIN filed' : filed'[i].epoch <= hubEpoch'
      BY <3>2, <3>3 DEF FiledOnceInOrder
    <3>7. FiledUpTo(b.epoch, w)'
      BY <1>3, <3>2, <3>3 DEF FiledUpTo
    <3>8. BeatAhead'
      <4>1. End(b) >= b.seq /\ w - End(b) + End(b) = w
        BY <3>1, <3>4
      <4>2. End(b) >= End(b)
        BY <3>1
      <4> QED
        BY <1>1, <1>3, <3>3, <3>4, <3>7, <4>1, <4>2 DEF BeatAhead, FiledUpTo, End, agentLog
    <3>9. AgentAhead'
      <4> SUFFICES ASSUME b.epoch = epoch
                   PROVE  /\ End(b) >= logSeq
                          /\ FiledUpTo(epoch, Before(wrote[Core]) - logSeq + End(b))'
        BY <1>1, <1>3, <3>3 DEF AgentAhead, FiledUpTo, Before, End, agentLog
      <4>1. b.seq = logSeq /\ w <= wrote[Core] /\ size = w - Before(w)
        BY <2>4 DEF BeatCurrent
      <4>2. wrote[Core] \in Nat /\ cursor[Core] \in Nat /\ Batch \in Nat
        BY FleetAssumption DEF LogInv, LogTypes
      <4>3. /\ Before(w) \in Int /\ Before(wrote[Core]) \in Int
            /\ Before(w) <= Before(wrote[Core])
        <5> HIDE DEF w, b, size
        <5> QED
          BY <3>4, <4>1, <4>2, SMTT(30) DEF Before
      <4>4. End(b) >= logSeq /\ w <= Before(wrote[Core]) - logSeq + End(b)
        <5> DEFINE s == b.seq
                   old == Before(w)
                   now == Before(wrote[Core])
                   end == End(b)
        <5>1. /\ end = s + size /\ s = logSeq /\ size = w - old /\ old <= now
              /\ s \in Nat /\ size \in Nat /\ w \in Nat /\ old \in Int /\ now \in Int
          BY <3>1, <3>4, <4>1, <4>3
        <5> HIDE DEF s, old, now, end, size, w, b
        <5>2. end >= s /\ w <= now - s + end
          BY <5>1
        <5> QED
          BY <5>1, <5>2 DEF now, end
      <4>5. ASSUME NEW i \in DOMAIN filed', filed'[i].epoch = epoch
            PROVE  filed'[i].n <= Before(wrote[Core]) - logSeq + End(b)
        <5>1. filed'[i].n <= w
          BY <3>2, <3>3, <4>5
        <5>2. filed'[i] \in FiledLines
          BY <3>2, <3>3
        <5>3. filed'[i].n \in Nat
          BY <5>2 DEF FiledLines
        <5>4. Before(wrote[Core]) - logSeq + End(b) \in Int
          BY <3>1, <4>1, <4>3
        <5> HIDE DEF w
        <5> QED
          BY <3>4, <4>4, <5>1, <5>3, <5>4
      <4> QED
        BY <1>1, <1>3, <4>4, <4>5 DEF FiledUpTo, Before, End, agentLog
    <3> QED
      BY <2>5, <3>5, <3>6, <3>8, <3>9 DEF LogInv
  <2> QED
    BY <2>6, <2>7
<1> QED
  BY <1>6, <1>7

LEMMA LogStep == ASSUME OneCore, LogInv, [Next]_vars PROVE LogInv'
<1>1. ASSUME NEW e \in Engines, NEW u \in Users, Traffic(e, u) PROVE LogInv'
  BY <1>1, LogAsideStep DEF Traffic, panel, agentLog
<1>2. ASSUME NEW k \in Range(Cores), CoreWrites(k) PROVE LogInv'
  BY <1>2, CoreWritesStep
<1>3. ASSUME NEW e \in Engines, CoreDies(e) PROVE LogInv'
  BY <1>3, LogAsideStep DEF CoreDies, panel, agentLog
<1>4. CASE Beat \/ BeatUnread
  BY <1>4, BeatLogStep DEF Beat, BeatUnread
<1>5. CASE GiveUp
  BY <1>5, GiveUpLogStep
<1>6. CASE Receive
  BY <1>6, ReceiveLogStep
<1>7. CASE AgentRestart
  BY <1>7, AgentRestartLogStep
<1>8. CASE Publish
  BY <1>8, PublishLogStep
<1>9. CASE Authenticate \/ Save \/ Baseline \/ Answer \/ \E u \in Users : Account(u)
  BY <1>9, HandlerLogStep
<1>10. CASE PanelRestart
  BY <1>10, PanelRestartLogStep
<1>11. CASE SetNodeState
  BY <1>11, LogAsideStep DEF SetNodeState, node, agentLog
<1>12. CASE UNCHANGED vars
  BY <1>12, LogAsideStep DEF vars, node, panel, agentLog
<1> QED
  BY <1>1, <1>2, <1>3, <1>4, <1>5, <1>6, <1>7, <1>8, <1>9, <1>10, <1>11, <1>12 DEF Next, Handle

\* Where one core writes lines, for any batch size and however many lines it writes: whatever
\* answers are lost, batches cut, and processes restarted, no line is filed twice and
\* none before an earlier one.
THEOREM LinesFiledOnceInOrder ==
    ASSUME OneCore
    PROVE  Spec => []FiledOnceInOrder
<1>1. Init => LogInv
  BY OneCore, LogInit
<1>2. LogInv /\ [Next]_vars => LogInv'
  BY OneCore, LogStep
<1>3. LogInv => FiledOnceInOrder
  BY DEF LogInv
<1> QED
  BY <1>1, <1>2, <1>3, PTL DEF Spec

-----------------------------------------------------------------------------
(* What a node collects, whichever of its cores write lines *)

\* Of some numbers one is the least.
LEMMA LeastNumber ==
    ASSUME NEW G \in SUBSET Nat, G # {}
    PROVE  \E r \in G : \A k \in G : r <= k
<1>1. PICK r \in G : \A k \in G : <<k, r>> \notin OpToRel(<, Nat)
  BY NatLessThanWellFounded, WFMin, Zenon
<1>2. \A k \in G : ~(k < r)
  BY <1>1, Zenon DEF OpToRel
<1> QED
  BY <1>2

\* f holds what the first n sequences come to, one more at each place.
Flattens(seqs, n, f) ==
    f = [i \in 1 .. n |-> IF i = 1 THEN seqs[i] ELSE f[i - 1] \o seqs[i]]

LEMMA SomeFlattens ==
    ASSUME NEW seqs, NEW n \in Nat
    PROVE  \E f : Flattens(seqs, n, f)
<1> DEFINE G == {m \in Nat : ~\E f : Flattens(seqs, m, f)}
<1>1. SUFFICES ASSUME G # {} PROVE FALSE
  OBVIOUS
<1>2. PICK m \in G : \A k \in G : m <= k
  <2> HIDE DEF G
  <2>1. G \in SUBSET Nat
    BY DEF G
  <2> QED
    BY <1>1, <2>1, LeastNumber
<1>3. m # 0
  <2>1. Flattens(seqs, 0, [i \in 1 .. 0 |-> seqs])
    BY DEF Flattens
  <2> QED
    BY <2>1
<1>4. m \in Nat /\ m - 1 \in Nat /\ m - 1 \notin G
  BY <1>2, <1>3
<1>5. PICK g : Flattens(seqs, m - 1, g)
  BY <1>4
<1> DEFINE last == IF m = 1 THEN seqs[m] ELSE g[m - 1] \o seqs[m]
           f == [i \in 1 .. m |-> IF i = m THEN last ELSE g[i]]
<1>6. ASSUME NEW i \in 1 .. m PROVE f[i] = IF i = 1 THEN seqs[i] ELSE f[i - 1] \o seqs[i]
  <2>1. CASE i = m
    <3>1. m # 1 => m - 1 \in 1 .. m /\ m - 1 # m
      BY <1>3, <1>4
    <3>2. m # 1 => f[m - 1] = g[m - 1]
      BY <3>1
    <3> QED
      BY <2>1, <3>2
  <2>2. CASE i # m
    <3>1. i \in 1 .. m - 1
      BY <1>4, <2>2
    <3>2. g[i] = IF i = 1 THEN seqs[i] ELSE g[i - 1] \o seqs[i]
      BY <1>5, <3>1 DEF Flattens
    <3>3. i # 1 => i - 1 \in 1 .. m /\ i - 1 # m
      BY <1>4, <3>1
    <3> QED
      BY <2>2, <3>2, <3>3
  <2> QED
    BY <2>1, <2>2
<1>7. f = [i \in 1 .. m |-> f[i]]
  OBVIOUS
<1> HIDE DEF f
<1>8. Flattens(seqs, m, f)
  BY <1>6, <1>7 DEF Flattens
<1> QED
  BY <1>2, <1>8

\* Sequences of lines, however many, come to a sequence of lines.
LEMMA Flattened ==
    ASSUME NEW T, NEW seqs \in Seq(Seq(T))
    PROVE  FlattenSeq(seqs) \in Seq(T)
<1>1. CASE Len(seqs) = 0
  <2>1. seqs = <<>>
    BY <1>1
  <2> QED
    BY <1>1, <2>1 DEF FlattenSeq
<1>2. CASE Len(seqs) # 0
  <2> DEFINE n == Len(seqs)
             flatten == CHOOSE f : f = [i \in 1 .. Len(seqs) |->
                                           IF i = 1 THEN seqs[i] ELSE f[i - 1] \o seqs[i]]
  <2>1. FlattenSeq(seqs) = flatten[n]
    BY <1>2 DEF FlattenSeq
  <2>2. n \in Nat /\ n >= 1 /\ \A i \in 1 .. n : seqs[i] \in Seq(T)
    BY <1>2
  <2>3. flatten = [i \in 1 .. n |-> IF i = 1 THEN seqs[i] ELSE flatten[i - 1] \o seqs[i]]
    <3>1. \E f : f = [i \in 1 .. n |-> IF i = 1 THEN seqs[i] ELSE f[i - 1] \o seqs[i]]
      BY <2>2, SomeFlattens, Zenon DEF Flattens
    <3> QED
      BY <3>1, Zenon
  <2> HIDE DEF flatten, n
  <2> DEFINE G == {i \in 1 .. n : flatten[i] \notin Seq(T)}
  <2>4. CASE G = {}
    BY <2>1, <2>2, <2>4
  <2>5. CASE G # {}
    <3>1. PICK m \in G : \A k \in G : m <= k
      <4> HIDE DEF G
      <4>1. G \in SUBSET Nat
        BY <2>2 DEF G
      <4> QED
        BY <2>5, <4>1, LeastNumber
    <3>2. m \in 1 .. n /\ flatten[m] \notin Seq(T) /\ flatten[m] = IF m = 1 THEN seqs[m] ELSE flatten[m - 1] \o seqs[m]
      BY <2>3, <3>1
    <3>3. m # 1
      BY <2>2, <3>2
    <3>4. m - 1 \in 1 .. n /\ m - 1 \notin G
      BY <2>2, <3>1, <3>2, <3>3
    <3>5. flatten[m - 1] \in Seq(T) /\ seqs[m] \in Seq(T)
      BY <2>2, <3>2, <3>4
    <3> QED
      BY <3>2, <3>3, <3>5, ConcatProperties
  <2> QED
    BY <2>4, <2>5
<1> QED
  BY <1>1, <1>2

LEMMA NewestTyped == ASSUME NEW T, NEW lines \in Seq(T) PROVE Newest(lines) \in Seq(T)
<1>1. Batch \in Nat /\ Len(lines) \in Nat
  BY FleetAssumption
<1>2. CASE Len(lines) <= Batch
  BY <1>2 DEF Newest
<1>3. CASE ~(Len(lines) <= Batch)
  <2>1. /\ Len(lines) - Batch + 1 \in Int /\ Len(lines) \in Int
        /\ \A i \in Len(lines) - Batch + 1 .. Len(lines) : lines[i] \in T
    BY <1>1, <1>3
  <2>2. SubSeq(lines, Len(lines) - Batch + 1, Len(lines)) \in Seq(T)
    BY <2>1, SubSeqProperties
  <2> QED
    BY <1>3, <2>2 DEF Newest
<1> QED
  BY <1>2, <1>3

-----------------------------------------------------------------------------
(* Types *)

Configs == {Nothing} \cup SUBSET Users

Flying ==
    [pc : InFlight, body : Body, waiting : BOOLEAN, disabled : BOOLEAN,
     prev : [Users -> Nat \cup {Nil}], todo : SUBSET Users, config : Configs]

NodeTypes ==
    /\ served \in [Engines -> Configs] /\ up \in [Engines -> BOOLEAN]
    /\ counter \in [Engines -> [Users -> Nat]]
    /\ carried \in [Users -> Nat] /\ mixed \subseteq Users
    /\ epoch \in Nat /\ logSeq \in Nat
    /\ wrote \in [Range(Cores) -> 0 .. MaxLines] /\ cursor \in [Range(Cores) -> Nat]
    /\ \A k \in Range(Cores) : cursor[k] \in 0 .. wrote[k]

PanelTypes ==
    /\ disabled \in BOOLEAN /\ db \in [Users -> Rows] /\ snap \in [Users -> Nat \cup {Nil}]
    /\ next \in Nat /\ hubEpoch \in Nat \cup {Nil} /\ filed \in Seq(Lines)

\* An answer that can be heard acknowledges what the running agent's cores wrote.
BeatTypes ==
    /\ beat = NoBeat \/ beat \in Flying
    /\ beat # NoBeat /\ Heard => \A k \in Range(Cores) : beat.body.cursor[k] <= wrote[k]

CountTypes == faults \in 0 .. MaxFaults /\ switches \in 0 .. MaxSwitches

FleetTypes == NodeTypes /\ PanelTypes /\ BeatTypes /\ CountTypes

LEMMA OfBeats == ASSUME FleetTypes PROVE TypeOK
<1>1. beat \in Beats
  BY DEF FleetTypes, BeatTypes, Beats, Flying, InFlight, Configs
<1> QED
  BY <1>1 DEF FleetTypes, NodeTypes, PanelTypes, CountTypes, TypeOK, Configs

LEMMA FleetTypesStart == Init => FleetTypes
<1> SUFFICES ASSUME Init PROVE FleetTypes
  OBVIOUS
<1>1. NodeTypes
  <2>1. MaxLines \in Nat /\ 0 \in 0 .. MaxLines
    BY FleetAssumption
  <2>2. /\ wrote \in [Range(Cores) -> 0 .. MaxLines] /\ cursor \in [Range(Cores) -> Nat]
        /\ \A k \in Range(Cores) : cursor[k] \in 0 .. wrote[k]
    BY <2>1 DEF Init
  <2>3. /\ served \in [Engines -> Configs] /\ up \in [Engines -> BOOLEAN]
        /\ counter \in [Engines -> [Users -> Nat]]
        /\ carried \in [Users -> Nat] /\ mixed \subseteq Users /\ epoch \in Nat /\ logSeq \in Nat
    BY DEF Init, Zero, Configs
  <2> QED
    BY <2>2, <2>3 DEF NodeTypes
<1>2. PanelTypes
  <2>1. InitialRows \subseteq Rows
    BY FleetAssumption
  <2>2. db \in [Users -> Rows]
    BY <2>1 DEF Init
  <2>3. snap \in [Users -> Nat \cup {Nil}] /\ filed \in Seq(Lines)
    BY DEF Init
  <2>4. disabled \in BOOLEAN /\ next \in Nat /\ hubEpoch \in Nat \cup {Nil}
    BY DEF Init
  <2> QED
    BY <2>2, <2>3, <2>4 DEF PanelTypes
<1>3. BeatTypes
  BY DEF Init, BeatTypes
<1>4. CountTypes
  BY FleetAssumption DEF Init, CountTypes
<1> QED
  BY <1>1, <1>2, <1>3, <1>4 DEF FleetTypes

LEMMA FaultCounts == ASSUME CountTypes, Fault PROVE faults' \in 0 .. MaxFaults
BY FleetAssumption DEF CountTypes, Fault

\* A heartbeat in flight goes on with some of its fields changed.
LEMMA FlyingOn ==
    ASSUME NEW b \in Flying
    PROVE  /\ \A pc \in InFlight : [b EXCEPT !.pc = pc] \in Flying
           /\ [b EXCEPT !.waiting = FALSE] \in Flying
           /\ \A off \in BOOLEAN : [b EXCEPT !.pc = "save", !.disabled = off] \in Flying
           /\ \A prev \in [Users -> Nat \cup {Nil}], todo \in SUBSET Users :
                 [b EXCEPT !.pc = "bill", !.prev = prev, !.todo = todo] \in Flying
           /\ \A todo \in SUBSET Users : /\ [b EXCEPT !.todo = todo] \in Flying
                                         /\ [b EXCEPT !.pc = "bill", !.todo = todo] \in Flying
           /\ \A config \in Configs : [b EXCEPT !.pc = "answered", !.config = config] \in Flying
<1> DEFINE B == Body
           P == [Users -> Nat \cup {Nil}]
           C == Configs
<1> HIDE DEF B, P, C
<1>1. b \in [pc : InFlight, body : B, waiting : BOOLEAN, disabled : BOOLEAN,
             prev : P, todo : SUBSET Users, config : C]
  BY DEF Flying, B, P, C
<1>2. Flying = [pc : InFlight, body : B, waiting : BOOLEAN, disabled : BOOLEAN,
                prev : P, todo : SUBSET Users, config : C]
  BY DEF Flying, B, P, C
<1>3. {"save", "bill", "answered"} \subseteq InFlight
  BY DEF InFlight
<1> QED
  BY <1>1, <1>2, <1>3 DEF P, C

LEMMA FlyingSame ==
    ASSUME NEW b \in Flying
    PROVE  /\ \A pc \in InFlight : LET n == [b EXCEPT !.pc = pc] IN
                 n.body = b.body /\ n.waiting = b.waiting /\ n.pc = pc
           /\ LET n == [b EXCEPT !.waiting = FALSE] IN
                 n.body = b.body /\ n.waiting = FALSE /\ n.pc = b.pc
           /\ \A off : LET n == [b EXCEPT !.pc = "save", !.disabled = off] IN n.body = b.body
           /\ \A todo : LET n == [b EXCEPT !.todo = todo] IN
                 n.body = b.body /\ n.waiting = b.waiting /\ n.pc = b.pc
BY DEF Flying

LEMMA FlyingFields ==
    ASSUME NEW b \in Flying
    PROVE  /\ b # NoBeat /\ b.pc \in InFlight /\ b.body \in Body /\ b.disabled \in BOOLEAN
           /\ b.prev \in [Users -> Nat \cup {Nil}] /\ b.todo \in SUBSET Users
           /\ b.config \in Configs
BY DEF Flying, NoBeat

LEMMA BodyFields ==
    ASSUME NEW b \in Body
    PROVE  /\ b.traffic \in [Users -> Nat] /\ b.lines \in Seq(Lines) /\ b.seq \in Nat
           /\ b.epoch \in Nat /\ b.cursor \in [Range(Cores) -> Nat]
BY DEF Body

\* A heartbeat that goes on, or ends: it is heard only if it was.
LEMMA BeatOn ==
    ASSUME BeatTypes, wrote' = wrote,
           \/ beat' = NoBeat
           \/ beat \in Flying /\ beat' \in Flying /\ beat'.body = beat.body /\ (Heard' => Heard)
    PROVE  BeatTypes'
BY FlyingFields DEF BeatTypes

LEMMA CollectTyped == ASSUME NodeTypes, NEW unread PROVE Collect(unread) \in Body
<1>1. \A k \in Range(Cores) : Unshipped(k) \in Seq(Lines)
  <2> SUFFICES ASSUME NEW k \in Range(Cores) PROVE Unshipped(k) \in Seq(Lines)
    OBVIOUS
  <2> DEFINE size == wrote[k] - cursor[k]
             line(i) == [epoch |-> epoch, core |-> k, n |-> cursor[k] + i]
  <2>1. /\ wrote[k] \in 0 .. MaxLines /\ cursor[k] \in 0 .. wrote[k] /\ epoch \in Nat /\ MaxLines \in Nat
    BY FleetAssumption DEF NodeTypes
  <2>2. size \in Nat /\ \A i \in 1 .. size : cursor[k] + i \in 1 .. MaxLines
    BY <2>1
  <2>3. \A i \in 1 .. size : line(i) \in Lines
    BY <2>1, <2>2 DEF Lines
  <2>4. Unshipped(k) = [i \in 1 .. size |-> line(i)]
    BY DEF Unshipped
  <2> HIDE DEF size, line
  <2> QED
    BY <2>2, <2>3, <2>4
<1>2. [i \in 1 .. Len(Cores) |-> Unshipped(Cores[i])] \in Seq(Seq(Lines))
  <2>1. Len(Cores) \in Nat /\ \A i \in 1 .. Len(Cores) : Cores[i] \in Range(Cores)
    BY FleetAssumption
  <2> QED
    BY <1>1, <2>1
<1>3. Collect(unread).lines \in Seq(Lines)
  BY <1>2, Flattened, NewestTyped DEF Collect
<1>4. wrote \in [Range(Cores) -> Nat]
  BY FleetAssumption DEF NodeTypes
<1>5. \A u \in Users : Reported(u, unread) \in Nat
  <2>1. Xray \in Engines /\ SingBox \in Engines
    BY DEF Engines
  <2>2. \A e \in Engines, u \in Users : Reading(e, u, unread) \in Nat
    BY DEF NodeTypes, Reading
  <2> QED
    BY <2>1, <2>2 DEF Reported
<1> QED
  BY <1>3, <1>4, <1>5 DEF Collect, Body, NodeTypes

\* The lines a heartbeat brings that were not filed yet.
LEMMA NewLinesTyped ==
    ASSUME PanelTypes, NEW b \in Body, ~(b.seq + Len(b.lines) <= Expected(b))
    PROVE  NewLines(b, Expected(b)) \in Seq(Lines)
<1> DEFINE want == Expected(b)
           lines == b.lines
           s == b.seq
           T == Lines
<1>1. s \in Nat /\ lines \in Seq(T) /\ Len(lines) \in Nat
  BY BodyFields
<1>2. want \in Nat /\ s <= want
  BY <1>1 DEF Expected, PanelTypes
<1>3. NewLines(b, want) = SubSeq(lines, want - s + 1, Len(lines))
  BY DEF NewLines
<1> HIDE DEF want, lines, s, T
<1>4. /\ want - s + 1 \in Int /\ Len(lines) \in Int
      /\ \A i \in want - s + 1 .. Len(lines) : lines[i] \in T
  BY <1>1, <1>2
<1>5. SubSeq(lines, want - s + 1, Len(lines)) \in Seq(T)
  BY <1>4, SubSeqProperties
<1> QED
  BY <1>3, <1>5 DEF want, T

LEMMA NodeStepTypes ==
    ASSUME FleetTypes, \/ \E e \in Engines, u \in Users : Traffic(e, u)
                       \/ \E k \in Range(Cores) : CoreWrites(k)
                       \/ \E e \in Engines : CoreDies(e)
                       \/ Beat \/ BeatUnread \/ GiveUp \/ Receive \/ AgentRestart
    PROVE  FleetTypes'
<1> USE DEF FleetTypes
<1>1. ASSUME NEW e \in Engines, NEW u \in Users, Traffic(e, u) PROVE FleetTypes'
  <2>1. counter[e][u] + 1 \in Nat /\ carried[u] + 1 \in Nat
    BY DEF NodeTypes
  <2>2. NodeTypes'
    BY <1>1, <2>1 DEF Traffic, NodeTypes
  <2> QED
    BY <1>1, <2>2 DEF Traffic, panel, hub, PanelTypes, BeatTypes, Heard, CountTypes
<1>2. ASSUME NEW k \in Range(Cores), CoreWrites(k) PROVE FleetTypes'
  <2>1. wrote[k] \in Nat /\ wrote[k] + 1 \in 0 .. MaxLines /\ wrote' = [wrote EXCEPT ![k] = @ + 1]
    BY <1>2, FleetAssumption DEF CoreWrites, NodeTypes
  <2>2. wrote' \in [Range(Cores) -> 0 .. MaxLines]
    BY <2>1 DEF NodeTypes
  <2>3. \A j \in Range(Cores) : wrote[j] \in Nat /\ wrote'[j] \in Nat /\ wrote[j] <= wrote'[j]
    BY <2>1, <2>2, FleetAssumption DEF NodeTypes
  <2>4. \A j \in Range(Cores) : cursor[j] \in 0 .. wrote'[j]
    BY <2>3 DEF NodeTypes
  <2>5. NodeTypes'
    BY <1>2, <2>2, <2>4 DEF CoreWrites, bounds, NodeTypes
  <2>6. BeatTypes'
    <3>1. UNCHANGED beat
      BY <1>2 DEF CoreWrites
    <3>2. ASSUME beat # NoBeat, Heard, NEW j \in Range(Cores)
          PROVE  beat.body.cursor[j] <= wrote'[j]
      <4>1. beat.body.cursor[j] <= wrote[j]
        BY <3>2 DEF BeatTypes
      <4>2. beat.body.cursor \in [Range(Cores) -> Nat]
        BY <3>2, FlyingFields, BodyFields DEF BeatTypes
      <4>3. beat.body.cursor[j] \in Nat
        BY <4>2
      <4> QED
        BY <2>3, <4>1, <4>3
    <3> QED
      BY <3>1, <3>2 DEF BeatTypes, Heard
  <2> QED
    BY <1>2, <2>5, <2>6 DEF CoreWrites, panel, hub, bounds, PanelTypes, CountTypes
<1>3. ASSUME NEW e \in Engines, CoreDies(e) PROVE FleetTypes'
  <2>1. NodeTypes'
    BY <1>3 DEF CoreDies, NodeTypes, Zero, Splits
  <2> QED
    BY <1>3, <2>1, FaultCounts DEF CoreDies, panel, hub, PanelTypes, BeatTypes, Heard, CountTypes
<1>4. ASSUME NEW unread, Post(unread), UNCHANGED faults \/ Fault PROVE FleetTypes'
  <2>1. UNCHANGED <<node, panel, carried, switches>> /\ mixed' = mixed \cup Splits(unread)
    BY <1>4 DEF Post
  <2>2. NodeTypes' /\ PanelTypes' /\ CountTypes'
    <3>1. NodeTypes' /\ PanelTypes'
      BY <2>1 DEF node, panel, hub, Splits, NodeTypes, PanelTypes
    <3>2. CountTypes'
      BY <1>4, <2>1, FaultCounts DEF CountTypes
    <3> QED
      BY <3>1, <3>2
  <2>3. beat' \in Flying
    <3>1. Collect(unread) \in Body /\ snap \in [Users -> Nat \cup {Nil}]
      BY CollectTyped DEF PanelTypes
    <3>2. beat' = [pc |-> "sent", body |-> Collect(unread), waiting |-> TRUE, disabled |-> FALSE,
                   prev |-> snap, todo |-> {}, config |-> Nothing]
      BY <1>4 DEF Post
    <3> DEFINE body == Collect(unread)
               P == [Users -> Nat \cup {Nil}]
    <3> HIDE DEF body, P
    <3>3. /\ body \in Body /\ snap \in P /\ {} \in SUBSET Users /\ Nothing \in Configs
          /\ Flying = [pc : InFlight, body : Body, waiting : BOOLEAN, disabled : BOOLEAN,
                       prev : P, todo : SUBSET Users, config : Configs]
          /\ beat' = [pc |-> "sent", body |-> body, waiting |-> TRUE, disabled |-> FALSE,
                      prev |-> snap, todo |-> {}, config |-> Nothing]
          /\ "sent" \in InFlight
      BY <3>1, <3>2 DEF body, P, Flying, InFlight, Configs
    <3> QED
      BY <3>3
  <2>4. beat'.body.cursor = wrote
    BY <1>4 DEF Post, Collect
  <2>5. \A k \in Range(Cores) : wrote[k] <= wrote[k]
    BY FleetAssumption DEF NodeTypes
  <2>6. BeatTypes'
    BY <2>1, <2>3, <2>4, <2>5 DEF BeatTypes, node
  <2> QED
    BY <2>2, <2>6
<1>5. CASE GiveUp
  <2>1. UNCHANGED <<node, panel, carried, mixed, switches>> /\ Fault /\ beat # NoBeat
    BY <1>5 DEF GiveUp
  <2>2. NodeTypes' /\ PanelTypes' /\ CountTypes'
    BY <2>1, FaultCounts DEF node, panel, hub, NodeTypes, PanelTypes, CountTypes
  <2>3. beat \in Flying
    BY <2>1 DEF BeatTypes
  <2>4. CASE beat.pc \notin {"sent", "answered"} /\ beat' = [beat EXCEPT !.waiting = FALSE]
    <3>1. /\ beat' \in Flying /\ beat'.body = beat.body /\ beat'.waiting = FALSE
          /\ beat'.pc = beat.pc
      BY <2>3, <2>4, FlyingOn, FlyingSame, Zenon
    <3>2. ~Heard'
      BY <2>4, <3>1 DEF Heard
    <3> QED
      BY <2>1, <2>2, <2>3, <3>1, <3>2, BeatOn DEF node
  <2>5. CASE beat' = NoBeat
    BY <2>1, <2>2, <2>5, BeatOn DEF node
  <2> QED
    BY <1>5, <2>4, <2>5 DEF GiveUp
<1>6. CASE Receive
  <2>1. /\ beat.pc = "answered" /\ beat' = NoBeat /\ UNCHANGED <<epoch, wrote, panel, carried, switches>>
        /\ cursor' = beat.body.cursor /\ logSeq' = logSeq + Len(beat.body.lines)
    BY <1>6 DEF Receive, At, AcceptLogs
  <2>2. beat # NoBeat /\ Heard
    BY <2>1 DEF NoBeat, Heard
  <2>3. beat \in Flying
    BY <2>2 DEF BeatTypes
  <2>4. beat.config \in Configs /\ beat.body \in Body
    BY <2>3, FlyingFields
  <2>5. beat.body.lines \in Seq(Lines) /\ beat.body.cursor \in [Range(Cores) -> Nat]
    BY <2>4, BodyFields
  <2>6. /\ served' \in [Engines -> Configs] /\ up' \in [Engines -> BOOLEAN]
        /\ counter' \in [Engines -> [Users -> Nat]] /\ mixed' \subseteq Users
        /\ faults' \in 0 .. MaxFaults
    <3>1. PICK o \in [Engines -> {"same", "hot", "restarted", "dead", "rejected"}] :
             LET lost == {e \in Engines : o[e] \in {"restarted", "dead"}}
                 kept == {e \in Engines : o[e] \in {"same", "rejected"}}
             IN /\ served' = [e \in Engines |-> IF e \in kept THEN served[e] ELSE beat.config]
                /\ up' = [e \in Engines |-> IF e \in kept THEN up[e] ELSE o[e] # "dead"]
                /\ counter' = [e \in Engines |-> IF e \in lost THEN Zero ELSE counter[e]]
                /\ mixed' = mixed \cup Splits(lost)
                /\ Fault \/ UNCHANGED faults
      BY <1>6 DEF Receive, ApplyConfigs
    <3>2. served' \in [Engines -> Configs]
      BY <2>4, <3>1 DEF NodeTypes
    <3>3. up' \in [Engines -> BOOLEAN]
      BY <3>1 DEF NodeTypes
    <3>4. counter' \in [Engines -> [Users -> Nat]]
      BY <3>1 DEF NodeTypes, Zero
    <3>5. mixed' \subseteq Users
      BY <3>1 DEF NodeTypes, Splits
    <3>6. faults' \in 0 .. MaxFaults
      BY <3>1, FaultCounts DEF CountTypes
    <3> QED
      BY <3>2, <3>3, <3>4, <3>5, <3>6
  <2>7. logSeq' \in Nat
    BY <2>1, <2>5 DEF NodeTypes
  <2>8. \A k \in Range(Cores) : cursor'[k] \in 0 .. wrote'[k]
    <3>1. \A k \in Range(Cores) : beat.body.cursor[k] \in Nat /\ wrote[k] \in Nat
      BY <2>5, FleetAssumption DEF NodeTypes
    <3>2. \A k \in Range(Cores) : beat.body.cursor[k] <= wrote[k]
      BY <2>2 DEF BeatTypes
    <3> QED
      BY <2>1, <3>1, <3>2
  <2>9. NodeTypes'
    BY <2>1, <2>5, <2>6, <2>7, <2>8 DEF NodeTypes
  <2> QED
    BY <2>1, <2>6, <2>9, BeatOn DEF panel, hub, PanelTypes, CountTypes
<1>7. CASE AgentRestart
  <2>1. /\ served' = [e \in Engines |-> Nothing] /\ up' = [e \in Engines |-> FALSE]
        /\ counter' = [e \in Engines |-> Zero]
        /\ epoch' = epoch + 1 /\ logSeq' = 0
        /\ wrote' = [k \in Range(Cores) |-> 0] /\ cursor' = [k \in Range(Cores) |-> 0]
        /\ UNCHANGED <<panel, carried, mixed, switches>> /\ Fault
    BY <1>7 DEF AgentRestart
  <2>2. NodeTypes'
    <3>1. MaxLines \in Nat /\ 0 \in 0 .. MaxLines
      BY FleetAssumption
    <3>2. /\ wrote' \in [Range(Cores) -> 0 .. MaxLines] /\ cursor' \in [Range(Cores) -> Nat]
          /\ \A k \in Range(Cores) : cursor'[k] \in 0 .. wrote'[k]
      BY <2>1, <3>1
    <3>3. epoch' \in Nat /\ carried' \in [Users -> Nat] /\ mixed' \subseteq Users
      BY <2>1 DEF NodeTypes
    <3>4. /\ served' \in [Engines -> Configs] /\ up' \in [Engines -> BOOLEAN]
          /\ counter' \in [Engines -> [Users -> Nat]] /\ logSeq' \in Nat
      BY <2>1 DEF Configs, Zero
    <3> QED
      BY <3>2, <3>3, <3>4 DEF NodeTypes
  <2>3. PanelTypes' /\ CountTypes'
    BY <2>1, FaultCounts DEF panel, hub, PanelTypes, CountTypes
  <2>4. BeatTypes'
    <3>1. CASE beat' = NoBeat
      BY <3>1 DEF BeatTypes
    <3>2. CASE beat # NoBeat /\ beat.pc \notin {"sent", "answered"} /\ beat' = [beat EXCEPT !.waiting = FALSE]
      <4>1. beat \in Flying
        BY <3>2 DEF BeatTypes
      <4>2. beat' \in Flying /\ beat'.waiting = FALSE /\ beat'.pc = beat.pc
        BY <3>2, <4>1, FlyingOn, FlyingSame, Zenon
      <4>3. ~Heard'
        BY <3>2, <4>2 DEF Heard
      <4> QED
        BY <4>2, <4>3 DEF BeatTypes
    <3> QED
      BY <1>7, <3>1, <3>2 DEF AgentRestart
  <2> QED
    BY <2>2, <2>3, <2>4
<1>8. CASE Beat \/ BeatUnread
  BY <1>4, <1>8 DEF Beat, BeatUnread
<1> QED
  BY <1>1, <1>2, <1>3, <1>5, <1>6, <1>7, <1>8

LEMMA HandlerTypes ==
    ASSUME FleetTypes, Authenticate \/ Save \/ Publish \/ Baseline \/ Answer
    PROVE  FleetTypes'
<1> USE DEF FleetTypes
<1>1. beat.pc \in InFlight /\ UNCHANGED node /\ UNCHANGED <<carried, mixed, switches>>
  BY DEF Authenticate, Save, Publish, Baseline, Answer, At, InFlight, bounds
<1>2. beat \in Flying
  BY <1>1 DEF BeatTypes, NoBeat, InFlight
<1>3. beat.body \in Body /\ beat.todo \in SUBSET Users /\ beat.disabled \in BOOLEAN
  BY <1>2, FlyingFields
<1>4. NodeTypes' /\ wrote' = wrote
  BY <1>1 DEF node, NodeTypes
<1>5. CASE Authenticate
  <2>1. UNCHANGED <<panel, bounds>> /\ beat.pc = "sent"
    BY <1>5 DEF Authenticate, At
  <2>2. Heard
    BY <2>1 DEF Heard
  <2>3. CASE beat' = [beat EXCEPT !.pc = "save", !.disabled = disabled]
    <3>1. beat' \in Flying /\ beat'.body = beat.body
      BY <1>2, <2>3, FlyingOn, FlyingSame, Zenon DEF PanelTypes
    <3> QED
      BY <1>2, <1>4, <2>1, <2>2, <3>1, BeatOn DEF panel, hub, bounds, PanelTypes, CountTypes
  <2>4. CASE beat' = NoBeat
    BY <1>4, <2>1, <2>4, BeatOn DEF panel, hub, bounds, PanelTypes, CountTypes
  <2> QED
    BY <1>5, <2>3, <2>4 DEF Authenticate
<1>6. CASE Save
  <2>1. /\ beat.pc = "save" /\ beat' = [beat EXCEPT !.pc = "publish"]
        /\ disabled' = beat.disabled /\ UNCHANGED <<db, snap, hub, bounds>>
    BY <1>6 DEF Save, At
  <2>2. beat' \in Flying /\ beat'.body = beat.body /\ beat'.waiting = beat.waiting /\ beat'.pc = "publish"
    <3>1. "publish" \in InFlight
      BY DEF InFlight
    <3> QED
      BY <1>2, <2>1, <3>1, FlyingOn, FlyingSame, Zenon
  <2>3. Heard' => Heard
    BY <2>2 DEF Heard
  <2>4. BeatTypes'
    BY <1>2, <1>4, <2>2, <2>3, BeatOn
  <2> QED
    BY <1>3, <1>4, <2>1, <2>4 DEF hub, bounds, PanelTypes, CountTypes
<1>7. CASE Publish
  <2> DEFINE b == beat.body
  <2>1. beat.pc = "publish" /\ beat' = [beat EXCEPT !.pc = "baseline"] /\ UNCHANGED <<disabled, db, snap, bounds>>
    BY <1>7 DEF Publish, At
  <2>2. beat' \in Flying /\ beat'.body = beat.body /\ beat'.waiting = beat.waiting /\ beat'.pc = "baseline"
    <3>1. "baseline" \in InFlight
      BY DEF InFlight
    <3> QED
      BY <1>2, <2>1, <3>1, FlyingOn, FlyingSame, Zenon
  <2>3. Heard' => Heard
    BY <2>2 DEF Heard
  <2>4. BeatTypes'
    BY <1>2, <1>4, <2>2, <2>3, BeatOn
  <2>5. b.lines \in Seq(Lines) /\ b.seq \in Nat /\ b.epoch \in Nat /\ Len(b.lines) \in Nat
    BY <1>3, BodyFields
  <2>6. next' \in Nat /\ hubEpoch' \in Nat \cup {Nil} /\ filed' \in Seq(Lines)
    <3>1. CASE UNCHANGED hub
      BY <3>1 DEF hub, PanelTypes
    <3>2. CASE /\ hubEpoch' = b.epoch /\ next' = (IF hubEpoch = b.epoch THEN next ELSE 0)
               /\ UNCHANGED filed
      BY <2>5, <3>2 DEF PanelTypes
    <3>3. CASE /\ ~(b.seq + Len(b.lines) <= Expected(b)) /\ hubEpoch' = b.epoch
               /\ next' = b.seq + Len(b.lines) /\ filed' = filed \o NewLines(b, Expected(b))
      <4>1. NewLines(b, Expected(b)) \in Seq(Lines) /\ filed \in Seq(Lines)
        BY <1>3, <3>3, NewLinesTyped DEF PanelTypes
      <4>2. filed \o NewLines(b, Expected(b)) \in Seq(Lines)
        BY <4>1, ConcatProperties
      <4>3. b.seq + Len(b.lines) \in Nat
        BY <2>5
      <4> QED
        BY <2>5, <3>3, <4>2, <4>3
    <3> QED
      BY <1>7, <3>1, <3>2, <3>3 DEF Publish
  <2> QED
    BY <1>4, <2>1, <2>4, <2>6 DEF bounds, PanelTypes, CountTypes
<1>8. CASE Baseline
  <2>1. beat.pc = "baseline" /\ UNCHANGED panel
    BY <1>8 DEF Baseline, At
  <2>2. faults' \in 0 .. MaxFaults
    BY <1>8, FaultCounts DEF Baseline, CountTypes
  <2>3. beat' \in Flying /\ beat'.body = beat.body /\ beat'.waiting = beat.waiting /\ beat'.pc = "bill"
    <3>1. CASE beat' = [beat EXCEPT !.pc = "bill", !.prev = snap,
                                    !.todo = {u \in Users : beat.body.traffic[u] > 0}]
      <4>1. snap \in [Users -> Nat \cup {Nil}] /\ {u \in Users : beat.body.traffic[u] > 0} \in SUBSET Users
        BY DEF PanelTypes
      <4> DEFINE todo == {u \in Users : beat.body.traffic[u] > 0}
      <4> HIDE DEF todo
      <4>2. beat' = [beat EXCEPT !.pc = "bill", !.prev = snap, !.todo = todo] /\ todo \in SUBSET Users
        BY <3>1, <4>1 DEF todo
      <4>3. beat' \in Flying
        BY <1>2, <4>1, <4>2, FlyingOn
      <4> QED
        BY <1>2, <4>2, <4>3 DEF Flying
    <3>2. CASE beat' = [beat EXCEPT !.pc = "bill", !.todo = {}]
      <4>1. beat' \in Flying
        BY <1>2, <3>2, FlyingOn
      <4> QED
        BY <1>2, <3>2, <4>1 DEF Flying
    <3> QED
      BY <1>8, <3>1, <3>2 DEF Baseline
  <2>4. Heard' => Heard
    BY <2>3 DEF Heard
  <2>5. BeatTypes'
    BY <1>2, <1>4, <2>3, <2>4, BeatOn
  <2> QED
    BY <1>1, <1>4, <2>1, <2>2, <2>5 DEF panel, hub, PanelTypes, CountTypes
<1>9. CASE Answer
  <2>1. UNCHANGED <<panel, bounds>> /\ beat' = Done(Entitled)
    BY <1>9 DEF Answer
  <2>2. Entitled \in Configs
    BY DEF Entitled, Configs
  <2>3. CASE beat.waiting /\ beat' = [beat EXCEPT !.pc = "answered", !.config = Entitled]
    <3>1. beat' \in Flying /\ beat'.body = beat.body
      <4>1. beat' \in Flying
        BY <1>2, <2>2, <2>3, FlyingOn
      <4> QED
        BY <1>2, <2>3, <4>1 DEF Flying
    <3>2. Heard
      BY <2>3, Zenon DEF Heard
    <3> QED
      BY <1>2, <1>4, <2>1, <3>1, <3>2, BeatOn DEF panel, hub, bounds, PanelTypes, CountTypes
  <2>4. CASE beat' = NoBeat
    BY <1>4, <2>1, <2>4, BeatOn DEF panel, hub, bounds, PanelTypes, CountTypes
  <2> QED
    BY <2>1, <2>3, <2>4 DEF Done
<1> QED
  BY <1>5, <1>6, <1>7, <1>8, <1>9

\* One user is billed, gets a baseline, or is passed over.
LEMMA AccountTypes == ASSUME FleetTypes, NEW u \in Users, Account(u) PROVE FleetTypes'
<1> USE DEF FleetTypes
<1>1. /\ beat.pc = "bill" /\ u \in beat.todo /\ beat' = [beat EXCEPT !.todo = @ \ {u}]
      /\ UNCHANGED <<node, disabled, hub, carried, mixed, switches>>
  BY DEF Account, At
<1>2. beat \in Flying
  BY <1>1 DEF BeatTypes, NoBeat
<1>3. beat.body.traffic \in [Users -> Nat] /\ beat.prev \in [Users -> Nat \cup {Nil}] /\ beat.todo \in SUBSET Users
  BY <1>2, FlyingFields, BodyFields
<1>4. NodeTypes' /\ wrote' = wrote
  BY <1>1 DEF node, NodeTypes
<1>5. BeatTypes'
  <2>1. beat.todo \ {u} \in SUBSET Users /\ beat' = [beat EXCEPT !.todo = beat.todo \ {u}]
    BY <1>1, <1>3
  <2>2. beat' \in Flying /\ beat'.body = beat.body /\ beat'.waiting = beat.waiting /\ beat'.pc = beat.pc
    BY <1>2, <2>1, FlyingOn, FlyingSame, Zenon
  <2>3. Heard' => Heard
    BY <2>2 DEF Heard
  <2> QED
    BY <1>2, <1>4, <2>2, <2>3, BeatOn
<1>6. faults' \in 0 .. MaxFaults
  BY FaultCounts DEF Account, CountTypes
<1>7. db' \in [Users -> Rows] /\ snap' \in [Users -> Nat \cup {Nil}]
  <2> DEFINE reported == beat.body.traffic[u]
             delta == TrafficDelta(beat.prev[u], reported)
  <2>1. reported \in Nat /\ db \in [Users -> Rows] /\ snap \in [Users -> Nat \cup {Nil}]
    BY <1>3 DEF PanelTypes
  <2>2. CASE db' = db /\ snap' = [snap EXCEPT ![u] = reported]
    BY <2>1, <2>2
  <2>3. CASE beat.prev[u] # Nil /\ BillUser(u)
    <3>1. beat.prev[u] \in Nat
      BY <1>3, <2>3
    <3>2. delta \in Nat
      BY <2>1, <3>1, DeltaBounds
    <3>3. snap' = [snap EXCEPT ![u] = reported]
          /\ (db' = db \/ db' = [db EXCEPT ![u] = ApplyTraffic(db[u], delta, 0)])
      BY <2>3 DEF BillUser
    <3> HIDE DEF delta
    <3>4. ApplyTraffic(db[u], delta, 0) \in Rows
      BY <2>1, <3>2, BillingRecords
    <3> QED
      BY <2>1, <3>3, <3>4
  <2>4. CASE UNCHANGED <<db, snap>>
    BY <2>1, <2>4
  <2> QED
    BY <2>2, <2>3, <2>4 DEF Account, FirstContact
<1> QED
  BY <1>1, <1>4, <1>5, <1>6, <1>7 DEF hub, PanelTypes, CountTypes

LEMMA FleetTypesStep == FleetTypes /\ [Next]_vars => FleetTypes'
<1> SUFFICES ASSUME FleetTypes, [Next]_vars PROVE FleetTypes'
  OBVIOUS
<1>1. CASE PanelRestart
  <2>1. NodeTypes' /\ PanelTypes' /\ wrote' = wrote
    BY <1>1 DEF FleetTypes, PanelRestart, node, NodeTypes, PanelTypes
  <2>2. BeatTypes'
    BY <1>1 DEF PanelRestart, BeatTypes
  <2>3. CountTypes'
    BY <1>1, FaultCounts DEF FleetTypes, PanelRestart, CountTypes
  <2> QED
    BY <2>1, <2>2, <2>3 DEF FleetTypes
<1>2. CASE SetNodeState
  <2>1. NodeTypes' /\ CountTypes'
    BY <1>2, FleetAssumption DEF FleetTypes, SetNodeState, node, NodeTypes, CountTypes
  <2>2. BeatTypes'
    BY <1>2 DEF FleetTypes, SetNodeState, node, BeatTypes, Heard
  <2>3. PanelTypes'
    BY <1>2 DEF FleetTypes, SetNodeState, hub, PanelTypes
  <2> QED
    BY <2>1, <2>2, <2>3 DEF FleetTypes
<1>3. CASE UNCHANGED vars
  <2>1. NodeTypes' /\ CountTypes' /\ PanelTypes'
    BY <1>3 DEF FleetTypes, vars, node, panel, hub, bounds, NodeTypes, PanelTypes, CountTypes
  <2>2. BeatTypes'
    BY <1>3 DEF FleetTypes, vars, node, BeatTypes, Heard
  <2> QED
    BY <2>1, <2>2 DEF FleetTypes
<1> QED
  BY <1>1, <1>2, <1>3, NodeStepTypes, HandlerTypes, AccountTypes DEF Next, Handle

\* For any users and lines, whichever cores write them: every variable keeps its shape,
\* and the agent takes no line for acknowledged that its cores have not written.
THEOREM FleetTypeCorrect == Spec => []TypeOK
<1>1. FleetTypes => TypeOK
  BY OfBeats
<1> QED
  BY <1>1, FleetTypesStart, FleetTypesStep, PTL DEF Spec
=============================================================================
