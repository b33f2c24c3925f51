-------------------------- MODULE AccountingProofs --------------------------
(***************************************************************************)
(* Theorems of Accounting, by what they assume of the constants:           *)
(*   - of any: type correctness;                                           *)
(*   - of one metered engine: nobody is charged for more than they moved;  *)
(*   - of transactional writers only: a period is reset once, and the      *)
(*     ledger is exact;                                                    *)
(*   - of any again: no job leaves a suspension that nothing justifies;    *)
(*   - of one panel: expired stays expired.                                *)
(***************************************************************************)
EXTENDS Accounting, TLAPS

-----------------------------------------------------------------------------
(* Lemmas about the row operators *)

\* Bytes a row has on record over its whole life.
Sum(r) == r.life + r.used

\* A counter's delta is never negative and never more than its reading.
LEMMA DeltaBounds ==
    ASSUME NEW p \in Nat, NEW c \in Nat
    PROVE  TrafficDelta(p, c) \in Nat /\ TrafficDelta(p, c) <= c
BY DEF TrafficDelta

\* Saturating addition stays in range and never exceeds the sum.
LEMMA SaturatingBounds ==
    ASSUME NEW x \in Bytes, NEW d \in Nat
    PROVE  /\ SaturatingAdd(x, d) \in Bytes
           /\ SaturatingAdd(x, d) <= x + d
BY MaxIntAssumption DEF SaturatingAdd, Bytes

\* Wrapping addition of a usage stays in range and never exceeds the sum.
LEMMA WrappingBounds ==
    ASSUME NEW x \in Longs, NEW y \in Bytes
    PROVE  /\ WrappingAdd(x, y) \in Longs
           /\ WrappingAdd(x, y) <= x + y
BY MaxIntAssumption DEF WrappingAdd, Longs, Bytes

\* Billing keeps the row well formed and adds at most the delta.
LEMMA ApplyTrafficRow ==
    ASSUME NEW r \in Rows, NEW d \in Nat, NEW at \in Time
    PROVE  /\ ApplyTraffic(r, d, at) \in Rows
           /\ Sum(ApplyTraffic(r, d, at)) <= Sum(r) + d
<1>1. r.used \in Bytes /\ r.life \in Longs /\ r.status \in Statuses
      /\ r.first \in OptTime
  BY DEF Rows
<1>2. SaturatingAdd(r.used, d) \in Bytes /\ SaturatingAdd(r.used, d) <= r.used + d
  BY <1>1, SaturatingBounds
<1>3. ApplyTraffic(r, d, at) \in Rows
  <2> DEFINE us == SaturatingAdd(r.used, d)
             fi == IF r.status = "on_hold" /\ r.first = Nil THEN at ELSE r.first
             st == IF r.status = "active" /\ OverLimit([r EXCEPT !.used = us])
                   THEN "limited" ELSE r.status
  <2>1. st \in Statuses
    BY <1>1 DEF Statuses
  <2>2. fi \in OptTime
    BY <1>1 DEF OptTime, Time
  <2>3. us \in Bytes
    BY <1>2
  <2>4. ApplyTraffic(r, d, at) = [r EXCEPT !.used = us, !.first = fi, !.status = st]
    BY DEF ApplyTraffic
  <2> HIDE DEF us, fi, st
  <2> QED
    BY <1>1, <2>1, <2>2, <2>3, <2>4 DEF Rows
<1>4. /\ ApplyTraffic(r, d, at).used = SaturatingAdd(r.used, d)
      /\ ApplyTraffic(r, d, at).life = r.life
  BY <1>1 DEF ApplyTraffic, Rows
<1> QED
  BY <1>1, <1>2, <1>3, <1>4 DEF Sum, Longs, Bytes

\* A reset keeps the row well formed and creates no bytes.
LEMMA ResetUsageRow ==
    ASSUME NEW r \in Rows, NEW at \in Time
    PROVE  /\ ResetUsage(r, at) \in Rows
           /\ Sum(ResetUsage(r, at)) <= Sum(r)
<1>1. r.used \in Bytes /\ r.life \in Longs /\ r.status \in Statuses
  BY DEF Rows
<1>2. WrappingAdd(r.life, r.used) \in Longs /\ WrappingAdd(r.life, r.used) <= r.life + r.used
  BY <1>1, WrappingBounds
<1>3. ResetUsage(r, at) \in Rows
  <2> DEFINE st == IF r.status = "limited" /\ (r.expire = Nil \/ at < r.expire)
                   THEN "active" ELSE r.status
             li == WrappingAdd(r.life, r.used)
  <2>1. st \in Statuses
    BY <1>1 DEF Statuses
  <2>2. at \in OptTime /\ 0 \in Bytes
    BY MaxIntAssumption DEF OptTime, Time, Bytes
  <2>3. li \in Longs
    BY <1>2
  <2>4. ResetUsage(r, at) =
          [r EXCEPT !.life = li, !.used = 0, !.lastReset = at, !.status = st]
    BY DEF ResetUsage
  <2> HIDE DEF st, li
  <2> QED
    BY <1>1, <2>1, <2>2, <2>3, <2>4 DEF Rows
<1>4. /\ ResetUsage(r, at).used = 0
      /\ ResetUsage(r, at).life = WrappingAdd(r.life, r.used)
  BY <1>1 DEF ResetUsage, Rows
<1> QED
  BY <1>1, <1>2, <1>3, <1>4 DEF Sum, Longs, Bytes

\* A reset marker is Nil or an instant that is not in the future.
LEMMA PeriodBounds ==
    ASSUME NEW r \in Rows, NEW at \in Time
    PROVE  /\ ResetPeriodStart(r, at) \in OptTime
           /\ ResetPeriodStart(r, at) <= at
<1>1. PeriodStart(at) \in Nat /\ PeriodStart(at) <= at
  BY PeriodLenAssumption DEF PeriodStart, Time
<1>2. r.expire \in OptTime
  BY DEF Rows
<1> QED
  BY <1>1, <1>2 DEF ResetPeriodStart, OptTime, Time, Nil

\* Hold activation and expiry keep the row well formed and touch no bytes.
LEMMA LifecycleRow ==
    ASSUME NEW r \in Rows
    PROVE  /\ r.first # Nil => ActivateHold(r) \in Rows
           /\ Sum(ActivateHold(r)) = Sum(r)
           /\ Expire(r) \in Rows
           /\ Sum(Expire(r)) = Sum(r)
           /\ [r EXCEPT !.disc = Nil] \in Rows
           /\ Sum([r EXCEPT !.disc = Nil]) = Sum(r)
<1>1. r.expire \in OptTime /\ r.first \in OptTime /\ r.hold \in Nat
  BY DEF Rows
<1>2. ASSUME r.first # Nil PROVE ActivateHold(r) \in Rows
  <2> DEFINE ex == IF r.hold > 0 /\ r.expire = Nil THEN r.first + r.hold ELSE r.expire
  <2>1. ex \in OptTime
    BY <1>1, <1>2 DEF OptTime, Time, Nil
  <2>2. "active" \in Statuses
    BY DEF Statuses
  <2>3. ActivateHold(r) = [r EXCEPT !.status = "active", !.expire = ex]
    BY DEF ActivateHold
  <2> HIDE DEF ex
  <2> QED
    BY <2>1, <2>2, <2>3 DEF Rows
<1>3. Sum(ActivateHold(r)) = Sum(r)
  BY DEF ActivateHold, Rows, Sum
<1>4. "expired" \in Statuses /\ Nil \in OptTime
  BY DEF Statuses, OptTime, Nil
<1>5. Expire(r) \in Rows
  BY <1>4 DEF Expire, Rows
<1>6. Sum(Expire(r)) = Sum(r)
  BY DEF Expire, Rows, Sum
<1>7. [r EXCEPT !.disc = Nil] \in Rows
  BY <1>4 DEF Rows
<1>8. Sum([r EXCEPT !.disc = Nil]) = Sum(r)
  BY DEF Rows, Sum
<1> QED
  BY <1>2, <1>3, <1>5, <1>6, <1>7, <1>8

\* A read-modify-save command yields a well formed row with no more bytes on
\* record than the row it was made from.
LEMMA FullEditRow ==
    ASSUME NEW c \in Commands, NEW r \in Rows, NEW at \in Time
    PROVE  /\ FullEdit(c, r, at) \in Rows
           /\ Sum(FullEdit(c, r, at)) <= Sum(r)
<1>1. /\ r.used \in Bytes /\ r.life \in Longs /\ r.status \in Statuses
      /\ r.expire \in OptTime /\ r.limit \in Nat /\ c.n \in Nat
      /\ Sum(r) \in Int
  BY DEF Rows, Commands, Sum, Bytes, Longs
<1>2. "active" \in Statuses /\ "disabled" \in Statuses
  BY DEF Statuses
<1>3. CASE c.op = "activate"
  <2>1. FullEdit(c, r, at) = [r EXCEPT !.status = "active"]
    BY <1>3 DEF FullEdit
  <2> QED
    BY <1>1, <1>2, <2>1 DEF Rows, Sum
<1>4. CASE c.op = "disable"
  <2>1. FullEdit(c, r, at) = [r EXCEPT !.status = "disabled"]
    BY <1>4 DEF FullEdit
  <2> QED
    BY <1>1, <1>2, <2>1 DEF Rows, Sum
<1>5. CASE c.op = "reset"
  <2> DEFINE li == WrappingAdd(r.life, r.used)
             st == IF r.status = "limited" THEN "active" ELSE r.status
  <2>1. FullEdit(c, r, at) = [r EXCEPT !.life = li, !.used = 0, !.status = st]
    BY <1>5 DEF FullEdit
  <2>2. li \in Longs /\ li <= r.life + r.used
    BY <1>1, WrappingBounds
  <2>3. st \in Statuses /\ 0 \in Bytes
    BY <1>1, <1>2, MaxIntAssumption DEF Bytes
  <2> HIDE DEF li, st
  <2>4. FullEdit(c, r, at) \in Rows
    BY <1>1, <2>1, <2>2, <2>3 DEF Rows
  <2>5. FullEdit(c, r, at).life = li /\ FullEdit(c, r, at).used = 0
    BY <1>1, <2>1 DEF Rows
  <2> QED
    BY <1>1, <2>2, <2>4, <2>5 DEF Sum, Longs, Bytes
<1>6. CASE c.op = "limit"
  <2> DEFINE raised == [r EXCEPT !.limit = c.n]
             st == IF raised.status = "limited" /\ ~OverLimit(raised)
                   THEN "active" ELSE raised.status
  <2>1. FullEdit(c, r, at) = [raised EXCEPT !.status = st]
    BY <1>6 DEF FullEdit
  <2>2. raised \in Rows /\ raised.used = r.used /\ raised.life = r.life
    BY <1>1 DEF Rows
  <2>3. raised.status \in Statuses
    BY <2>2 DEF Rows
  <2>4. st \in Statuses
    BY <1>2, <2>3
  <2> HIDE DEF raised, st
  <2>5. FullEdit(c, r, at) \in Rows
    BY <2>1, <2>2, <2>4 DEF Rows
  <2>6. /\ FullEdit(c, r, at).used = raised.used
        /\ FullEdit(c, r, at).life = raised.life
    BY <2>1, <2>2, <2>4 DEF Rows
  <2> QED
    BY <1>1, <2>2, <2>5, <2>6 DEF Sum
<1>7. CASE c.op = "extend"
  <2> DEFINE ex == Later(r.expire, at) + c.n
             st == IF r.status = "expired" /\ c.n > 0 THEN "active" ELSE r.status
  <2>1. FullEdit(c, r, at) = [r EXCEPT !.expire = ex, !.status = st]
    BY <1>7 DEF FullEdit
  <2>2. ex \in OptTime
    BY <1>1 DEF Later, OptTime, Time, Nil
  <2>3. st \in Statuses
    BY <1>1, <1>2
  <2> HIDE DEF ex, st
  <2>4. FullEdit(c, r, at) \in Rows
    BY <2>1, <2>2, <2>3 DEF Rows
  <2>5. FullEdit(c, r, at).used = r.used /\ FullEdit(c, r, at).life = r.life
    BY <2>1 DEF Rows
  <2> QED
    BY <1>1, <2>4, <2>5 DEF Sum
<1>8. CASE c.op \notin {"activate", "disable", "reset", "limit", "extend"}
  <2>1. FullEdit(c, r, at) = r
    BY <1>8 DEF FullEdit
  <2> QED
    BY <1>1, <2>1
<1> QED
  BY <1>3, <1>4, <1>5, <1>6, <1>7, <1>8

\* A column edit yields a well formed row and leaves its bytes alone.
LEMMA ColumnEditRow ==
    ASSUME NEW c \in Requests, NEW r \in Rows, NEW at \in Time
    PROVE  /\ ColumnEdit(c, r, at) \in Rows
           /\ Sum(ColumnEdit(c, r, at)) = Sum(r)
<1> DEFINE st == IF "status" \in c.cols THEN c.row.status ELSE r.status
           li == IF "limit" \in c.cols THEN c.row.limit ELSE r.limit
           sg == IF "strategy" \in c.cols THEN c.row.strategy ELSE r.strategy
           ho == IF "hold" \in c.cols THEN c.row.hold ELSE r.hold
           ex == IF "expire" \in c.cols THEN Instant(c, c.row.expire, at) ELSE r.expire
           di == IF "disc" \in c.cols THEN Instant(c, c.row.disc, at) ELSE r.disc
<1>1. c.row \in Rows
  BY DEF Requests
<1>2. \A t \in OptTime : Instant(c, t, at) \in OptTime
  BY DEF Instant, OptTime, Time, Nil
<1>3. st \in Statuses /\ li \in Nat /\ sg \in Strategies /\ ho \in Nat
  BY <1>1 DEF Rows
<1>4. ex \in OptTime /\ di \in OptTime
  BY <1>1, <1>2 DEF Rows
<1>5. ColumnEdit(c, r, at) =
        [r EXCEPT !.status = st, !.limit = li, !.strategy = sg, !.hold = ho,
                  !.expire = ex, !.disc = di]
  BY DEF ColumnEdit, Rows
<1> HIDE DEF st, li, sg, ho, ex, di
<1> QED
  BY <1>3, <1>4, <1>5 DEF Rows, Sum

-----------------------------------------------------------------------------
(* The sweeper's local state *)

\* The state a sweeper moves to is well formed, and its copy is the given one.
LEMMA ToUsersState ==
    ASSUME NEW rows \in [Users -> Rows], NEW at \in Time, NEW todo \in SUBSET Users
    PROVE  /\ ToUsers(rows, at, todo) \in SweepStates
           /\ ToUsers(rows, at, todo).pc # "idle" => ToUsers(rows, at, todo).rows = rows
<1> DEFINE due == {u \in todo : LifecycleDue(rows[u], at)}
           rel == {u \in Users : ReleaseDue(rows[u], at)}
<1>1. due \in SUBSET Users /\ rel \in SUBSET Users
  OBVIOUS
<1> HIDE DEF due, rel
<1>2. \/ ToUsers(rows, at, todo) = [pc |-> "users", rows |-> rows, at |-> at, todo |-> due]
      \/ ToUsers(rows, at, todo) = [pc |-> "release", rows |-> rows, at |-> at, todo |-> rel]
      \/ ToUsers(rows, at, todo) = [pc |-> "idle"]
  BY DEF ToUsers, ToRelease, IdleSweep, due, rel
<1> QED
  BY <1>1, <1>2 DEF SweepStates, IdleSweep

\* A sweeper at work holds a full copy of the table.
LEMMA SweepStateFields ==
    ASSUME NEW s \in SweepStates, s.pc # "idle", NEW u
    PROVE  /\ s.rows \in [Users -> Rows] /\ s.at \in Time /\ s.todo \in SUBSET Users
           /\ [s EXCEPT !.todo = @ \ {u}] \in SweepStates
BY DEF SweepStates, IdleSweep

\* The poll's local state while a cycle is under way.
LEMMA PollStateFields ==
    ASSUME TypeOK, poll.pc = "apply", NEW u \in Users
    PROVE  /\ poll.totals \in [Users -> Nat] /\ poll.prev \in [Users -> Nat]
           /\ poll.at \in Time /\ poll.todo \in SUBSET Users
           /\ TrafficDelta(poll.prev[u], poll.totals[u]) \in Nat
           /\ PollRest(u) \in PollStates
           /\ PollRest(u).pc = "apply" =>
                 PollRest(u) = [poll EXCEPT !.todo = @ \ {u}]
<1>1. /\ poll.totals \in [Users -> Nat] /\ poll.prev \in [Users -> Nat]
      /\ poll.at \in Time /\ poll.todo \in SUBSET Users
      /\ [poll EXCEPT !.todo = @ \ {u}] \in PollStates
  BY DEF TypeOK, PollStates, IdlePoll
<1>2. IdlePoll \in PollStates /\ IdlePoll.pc = "idle"
  BY DEF PollStates, IdlePoll
<1>3. TrafficDelta(poll.prev[u], poll.totals[u]) \in Nat
  BY <1>1, DeltaBounds
<1> QED
  BY <1>1, <1>2, <1>3 DEF PollRest

\* The users a cycle still has to deal with are users.
LEMMA PollTodo ==
    ASSUME TypeOK, poll.pc = "apply"
    PROVE  poll.todo \in SUBSET Users
BY DEF TypeOK, PollStates, IdlePoll

-----------------------------------------------------------------------------
(* Type correctness *)

\* Every step keeps the shape of every variable.
LEMMA TypeStep == TypeOK /\ [Next]_vars => TypeOK'
<1> SUFFICES ASSUME TypeOK, [Next]_vars PROVE TypeOK'
  OBVIOUS
<1> USE DEF TypeOK
<1>1. CASE Tick
  BY <1>1 DEF Tick, Time
<1>2. CASE EngineRestart
  BY <1>2 DEF EngineRestart, Fault
<1>3. CASE Crash
  BY <1>3 DEF Crash, Fault, PollStates, SweepStates, EditStates
<1>4. ASSUME NEW totals \in [Users -> Nat], PollRead(totals), faults' \in Nat PROVE TypeOK'
  <2>1. PICK todo \in SUBSET Users :
          poll' = [pc |-> "apply", totals |-> totals, prev |-> snap, at |-> now, todo |-> todo]
    BY <1>4 DEF PollRead
  <2>2. poll' \in PollStates
    BY <2>1 DEF PollStates
  <2> QED
    BY <1>4, <2>2 DEF PollRead
<1>4a. CASE PollStart \/ PollHalf
  <2>1. faults' = faults \/ faults' = faults + 1
    <3>1. CASE PollStart
      BY <3>1 DEF PollStart
    <3>2. CASE PollHalf
      BY <3>2 DEF PollHalf, Fault
    <3> QED
      BY <1>4a, <3>1, <3>2
  <2>2. Totals(TRUE) \in [Users -> Nat] /\ Totals(FALSE) \in [Users -> Nat]
    BY DEF Totals
  <2>3. faults' \in Nat
    BY <2>1
  <2> QED
    BY <1>4, <1>4a, <2>1, <2>2, <2>3 DEF PollStart, PollHalf
<1>4b. CASE SbRestart
  BY <1>4b DEF SbRestart, Fault
<1>4c. ASSUME NEW u \in Users, SbTraffic(u) PROVE TypeOK'
  BY <1>4c DEF SbTraffic
<1>5. ASSUME NEW u \in Users, Traffic(u) PROVE TypeOK'
  BY <1>5 DEF Traffic
<1>6. ASSUME NEW u \in Users, PollBill(u) PROVE TypeOK'
  <2>1. /\ poll.totals[u] \in Nat /\ poll.at \in Time
        /\ TrafficDelta(poll.prev[u], poll.totals[u]) \in Nat
        /\ PollRest(u) \in PollStates
    BY <1>6, PollStateFields DEF PollBill
  <2>2. db[u] \in Rows
    OBVIOUS
  <2>3. ApplyTraffic(db[u], TrafficDelta(poll.prev[u], poll.totals[u]), poll.at) \in Rows
    BY <2>1, <2>2, ApplyTrafficRow
  <2> QED
    BY <1>6, <2>1, <2>3 DEF PollBill
<1>7. ASSUME NEW u \in Users, PollRebase(u) PROVE TypeOK'
  <2>1. poll.totals[u] \in Nat /\ PollRest(u) \in PollStates
    BY <1>7, PollStateFields DEF PollRebase
  <2> QED
    BY <1>7, <2>1 DEF PollRebase
<1>8. ASSUME NEW u \in Users, PollWriteFails(u) PROVE TypeOK'
  <2>1. PollRest(u) \in PollStates
    BY <1>8, PollStateFields DEF PollWriteFails
  <2> QED
    BY <1>8, <2>1 DEF PollWriteFails, Fault
<1>8a. ASSUME NEW u \in Users, PollUnread(u) PROVE TypeOK'
  <2>1. poll.totals[u] \in Nat /\ PollRest(u) \in PollStates
    BY <1>8a, PollStateFields DEF PollUnread
  <2> QED
    BY <1>8a, <2>1 DEF PollUnread, Fault
<1>9. ASSUME NEW i \in Sweepers, SweepList(i) PROVE TypeOK'
  <2>1. ToUsers(db, now, Users) \in SweepStates
    BY ToUsersState
  <2> QED
    BY <1>9, <2>1 DEF SweepList
<1>10. ASSUME NEW i \in Sweepers, NEW u \in Users, SweepActivate(i, u) PROVE TypeOK'
  <2> DEFINE s == sweep[i]
             row == ActivateHold(s.rows[u])
             rows == [s.rows EXCEPT ![u] = row]
  <2>1. s \in SweepStates /\ s.pc # "idle" /\ s.rows[u].first # Nil
    BY <1>10 DEF SweepActivate, HoldStarted
  <2>2. s.rows \in [Users -> Rows] /\ s.at \in Time /\ s.todo \in SUBSET Users
    BY <2>1, SweepStateFields
  <2>3. row \in Rows
    BY <2>1, <2>2, LifecycleRow
  <2>4. rows \in [Users -> Rows]
    BY <2>2, <2>3
  <2>5. ToUsers(rows, s.at, s.todo) \in SweepStates
    BY <2>2, <2>4, ToUsersState
  <2>6. SweepSave(u, row) /\ sweep' = [sweep EXCEPT ![i] = ToUsers(rows, s.at, s.todo)]
    BY <1>10 DEF SweepActivate
  <2> HIDE DEF s, row, rows
  <2> QED
    BY <1>10, <2>3, <2>5, <2>6 DEF SweepActivate, SweepSave, Fault
<1>11. ASSUME NEW i \in Sweepers, NEW u \in Users, SweepExpire(i, u) PROVE TypeOK'
  <2> DEFINE s == sweep[i]
             row == Expire(s.rows[u])
             rows == [s.rows EXCEPT ![u] = row]
             todo == s.todo \ {u}
  <2>1. s \in SweepStates /\ s.pc # "idle"
    BY <1>11 DEF SweepExpire
  <2>2. s.rows \in [Users -> Rows] /\ s.at \in Time /\ todo \in SUBSET Users
    BY <2>1, SweepStateFields
  <2>3. row \in Rows
    BY <2>2, LifecycleRow
  <2>4. rows \in [Users -> Rows]
    BY <2>2, <2>3
  <2>5. ToUsers(rows, s.at, todo) \in SweepStates
    BY <2>2, <2>4, ToUsersState
  <2>6. SweepSave(u, row) /\ sweep' = [sweep EXCEPT ![i] = ToUsers(rows, s.at, todo)]
    BY <1>11 DEF SweepExpire
  <2> HIDE DEF s, row, rows, todo
  <2> QED
    BY <1>11, <2>3, <2>5, <2>6 DEF SweepExpire, SweepSave, Fault
<1>12. ASSUME NEW i \in Sweepers, NEW u \in Users, SweepReset(i, u) PROVE TypeOK'
  <2> DEFINE s == sweep[i]
             period == ResetPeriodStart(s.rows[u], s.at)
             todo == s.todo \ {u}
  <2>1. s \in SweepStates /\ s.pc # "idle"
    BY <1>12 DEF SweepReset
  <2>2. s.rows \in [Users -> Rows] /\ s.at \in Time /\ todo \in SUBSET Users
    BY <2>1, SweepStateFields
  <2>3. ToUsers(s.rows, s.at, todo) \in SweepStates
    BY <2>2, ToUsersState
  <2>4. ResetUsage(db[u], s.at) \in Rows
    BY <2>2, ResetUsageRow
  <2>5. sweep' = [sweep EXCEPT ![i] = ToUsers(s.rows, s.at, todo)]
    BY <1>12 DEF SweepReset
  <2>6. \/ /\ db' = [db EXCEPT ![u] = ResetUsage(@, s.at)]
           /\ resets' = [resets EXCEPT ![u] = @ \cup {period}]
           /\ repeated' = [repeated EXCEPT ![u] = @ \cup (resets[u] \cap {period})]
           /\ UNCHANGED faults
        \/ UNCHANGED <<db, resets, repeated>> /\ faults' \in Nat
    BY <1>12 DEF SweepReset, Fault
  <2>7. period \in Time
    <3>1. s.rows[u] \in Rows /\ period # Nil
      BY <2>2, <1>12 DEF SweepReset
    <3>2. period \in OptTime
      BY <2>2, <3>1, PeriodBounds
    <3> QED
      BY <3>1, <3>2 DEF OptTime, Time
  <2> HIDE DEF s, period, todo
  <2> QED
    BY <1>12, <2>3, <2>4, <2>5, <2>6, <2>7 DEF SweepReset
<1>13. ASSUME NEW i \in Sweepers, NEW u \in Users, SweepRelease(i, u) PROVE TypeOK'
  <2> DEFINE s == sweep[i]
             next == IF s.todo = {u} THEN IdleSweep ELSE [s EXCEPT !.todo = @ \ {u}]
             row == [db[u] EXCEPT !.disc = Nil]
  <2>1. s \in SweepStates /\ s.pc # "idle"
    BY <1>13 DEF SweepRelease
  <2>2. next \in SweepStates
    <3>1. [s EXCEPT !.todo = @ \ {u}] \in SweepStates
      BY <2>1, SweepStateFields
    <3> QED
      BY <3>1 DEF SweepStates
  <2>3. row \in Rows
    BY LifecycleRow
  <2>4. SweepSave(u, row) /\ sweep' = [sweep EXCEPT ![i] = next]
    BY <1>13 DEF SweepRelease
  <2>5. UNCHANGED <<now, moved, counter, sbCounter, snap, poll, edit, billed, missed, raced, edits, resets, repeated>>
    BY <1>13 DEF SweepRelease
  <2> HIDE DEF s, next, row
  <2>6. db' \in [Users -> Rows] /\ faults' \in Nat
    BY <2>3, <2>4 DEF SweepSave, Fault
  <2>7. sweep' \in [Sweepers -> SweepStates]
    BY <2>2, <2>4
  <2> QED
    BY <2>5, <2>6, <2>7
<1>14. ASSUME NEW a \in Editors, NEW u \in Users, NEW c \in FullEdits, EditRead(a, u, c)
       PROVE TypeOK'
  <2>1. c \in Commands
    BY ConstantsAssumption
  <2>2. FullEdit(c, db[u], now) \in Rows
    BY <2>1, FullEditRow
  <2>3. [pc |-> "save", user |-> u, row |-> FullEdit(c, db[u], now)] \in EditStates
    BY <2>2 DEF EditStates
  <2> QED
    BY <1>14, <2>3 DEF EditRead, Request
<1>15. ASSUME NEW a \in Editors, EditSave(a) PROVE TypeOK'
  <2>1. edit[a] \in EditStates /\ edit[a].pc = "save" /\ IdleEdit \in EditStates
    BY <1>15 DEF EditSave, EditStates
  <2>2. edit[a].user \in Users /\ edit[a].row \in Rows
    BY <2>1 DEF EditStates, IdleEdit
  <2> QED
    BY <1>15, <2>1, <2>2 DEF EditSave
<1>16. ASSUME NEW a \in Editors, EditFails(a) PROVE TypeOK'
  <2>1. IdleEdit \in EditStates
    BY DEF EditStates
  <2> QED
    BY <1>16, <2>1 DEF EditFails, Fault
<1>17. ASSUME NEW u \in Users, NEW c \in ColumnEdits, ColumnUpdate(u, c) PROVE TypeOK'
  <2>1. c \in Requests
    BY ConstantsAssumption
  <2>2. ColumnEdit(c, db[u], now) \in Rows
    BY <2>1, ColumnEditRow
  <2> QED
    BY <1>17, <2>2 DEF ColumnUpdate, Request
<1>18. CASE UNCHANGED vars
  BY <1>18 DEF vars
<1> QED
  BY <1>1, <1>2, <1>3, <1>4a, <1>4b, <1>4c, <1>5, <1>6, <1>7, <1>8, <1>8a, <1>9, <1>10, <1>11,
     <1>12, <1>13, <1>14, <1>15, <1>16, <1>17, <1>18 DEF Next, PollUser, SweepStep

LEMMA TypeInit == Init => TypeOK
<1> SUFFICES ASSUME Init PROVE TypeOK
  OBVIOUS
<1>1. db \in [Users -> Rows]
  BY ConstantsAssumption DEF Init
<1>2. /\ IdlePoll \in PollStates /\ IdleSweep \in SweepStates /\ IdleEdit \in EditStates
  BY DEF PollStates, SweepStates, EditStates
<1> QED
  BY <1>1, <1>2 DEF Init, TypeOK, Time

\* Every reachable state of the accounting has the declared types.
THEOREM TypeCorrect == Spec => []TypeOK
BY TypeInit, TypeStep, PTL DEF Spec

-----------------------------------------------------------------------------
(* No user is overbilled *)

\* What is on record, in the table and in every copy of it in flight, was
\* billed.  A stale save can therefore lose bytes but never invent any.
TableBilled == \A u \in Users : Sum(db[u]) <= billed[u]

SweepBilled ==
    \A i \in Sweepers, u \in Users :
        sweep[i].pc # "idle" => Sum(sweep[i].rows[u]) <= billed[u]

EditBilled ==
    \A a \in Editors :
        edit[a].pc = "save" => Sum(edit[a].row) <= billed[edit[a].user]

RowsBilled == TableBilled /\ SweepBilled /\ EditBilled

\* What was billed, and what the next reading would add, really moved.
BaselineSound ==
    \A u \in Users : billed[u] + TrafficDelta(snap[u], counter[u]) <= moved[u]

\* The same for a reading in flight: billing it and then reading the counter
\* again adds no more than what moved, even if the engine restarted since.
ReadingSound ==
    poll.pc = "apply" =>
        \A u \in poll.todo :
            /\ poll.prev[u] = snap[u]
            /\ billed[u] + TrafficDelta(poll.prev[u], poll.totals[u])
                 + TrafficDelta(poll.totals[u], counter[u]) <= moved[u]

\* Only xray is metered.
OneMeter == sbCounter = [u \in Users |-> 0]

NoOverbillInv == TypeOK /\ OneMeter /\ RowsBilled /\ BaselineSound /\ ReadingSound

\* A sing-box that reports no statistics stays out of the readings.
LEMMA OneMeterStep ==
    ASSUME ~SingboxStats, OneMeter, [Next]_vars
    PROVE  OneMeter'
<1>1. CASE Crash
  BY <1>1 DEF Crash, OneMeter
<1>2. CASE SbRestart \/ PollHalf \/ \E u \in Users : SbTraffic(u)
  BY <1>2 DEF SbRestart, PollHalf, SbTraffic, OneMeter
<1>3. ASSUME UNCHANGED sbCounter PROVE OneMeter'
  BY <1>3 DEF OneMeter
<1>4. CASE UNCHANGED vars
  BY <1>3, <1>4 DEF vars
<1>5. CASE Tick \/ EngineRestart \/ PollStart
  BY <1>3, <1>5 DEF Tick, EngineRestart, PollStart, PollRead
<1>6. ASSUME NEW u \in Users, Traffic(u) \/ PollUser(u) \/ PollWriteFails(u) \/ PollUnread(u) PROVE OneMeter'
  BY <1>3, <1>6 DEF Traffic, PollUser, PollBill, PollRebase, PollWriteFails, PollUnread
<1>7. ASSUME NEW i \in Sweepers, SweepList(i) \/ SweepStep(i) PROVE OneMeter'
  BY <1>3, <1>7 DEF SweepList, SweepStep, SweepActivate, SweepExpire, SweepReset, SweepRelease
<1>8. ASSUME NEW a \in Editors, EditSave(a) \/ EditFails(a) PROVE OneMeter'
  BY <1>3, <1>8 DEF EditSave, EditFails
<1>9. ASSUME NEW a \in Editors, NEW u \in Users, NEW c \in FullEdits, EditRead(a, u, c)
      PROVE  OneMeter'
  BY <1>3, <1>9 DEF EditRead
<1>10. ASSUME NEW u \in Users, NEW c \in ColumnEdits, ColumnUpdate(u, c) PROVE OneMeter'
  BY <1>3, <1>10 DEF ColumnUpdate
<1> QED
  BY <1>1, <1>2, <1>4, <1>5, <1>6, <1>7, <1>8, <1>9, <1>10 DEF Next

\* One more byte on a counter raises its delta by at most one.
LEMMA DeltaStep ==
    ASSUME NEW p \in Nat, NEW c \in Nat
    PROVE  TrafficDelta(p, c + 1) <= TrafficDelta(p, c) + 1
BY DEF TrafficDelta

\* A counter at zero has nothing to bill, and a reading adds nothing to itself.
LEMMA DeltaZero ==
    ASSUME NEW p \in Nat
    PROVE  TrafficDelta(p, 0) = 0 /\ TrafficDelta(p, p) = 0
BY DEF TrafficDelta

LEMMA BillingInit == Init => RowsBilled /\ BaselineSound /\ ReadingSound
<1> SUFFICES ASSUME Init PROVE RowsBilled /\ BaselineSound /\ ReadingSound
  OBVIOUS
<1>1. \A u \in Users : Sum(db[u]) = 0
  BY ConstantsAssumption DEF Init, Sum
<1>2. RowsBilled
  BY <1>1 DEF Init, RowsBilled, TableBilled, SweepBilled, EditBilled, IdleSweep, IdleEdit
<1>3. BaselineSound
  BY DeltaZero DEF Init, BaselineSound
<1>4. ReadingSound
  BY DEF Init, ReadingSound, IdlePoll
<1> QED
  BY <1>2, <1>3, <1>4

\* What a step does to the counters, the baselines and the billed totals.
LEMMA CountersStep ==
    ASSUME ~SingboxStats, TypeOK, OneMeter, BaselineSound, ReadingSound, [Next]_vars
    PROVE  BaselineSound' /\ ReadingSound' /\ \A u \in Users : billed'[u] >= billed[u]
<1> DEFINE Goal == BaselineSound' /\ ReadingSound' /\ \A u \in Users : billed'[u] >= billed[u]
<1>0. /\ moved \in [Users -> Nat] /\ counter \in [Users -> Nat]
      /\ snap \in [Users -> Nat] /\ billed \in [Users -> Nat]
  BY DEF TypeOK
<1>1. ASSUME UNCHANGED <<moved, counter, snap, poll, billed>> PROVE Goal
  BY <1>0, <1>1 DEF BaselineSound, ReadingSound
<1>2. ASSUME EngineRestart \/ Crash PROVE Goal
  <2>1. /\ counter' = [u \in Users |-> 0] /\ UNCHANGED <<moved, snap, billed>>
        /\ poll' = poll \/ poll' = IdlePoll
    BY <1>2 DEF EngineRestart, Crash
  <2>2. BaselineSound'
    <3> SUFFICES ASSUME NEW u \in Users
                 PROVE  billed[u] + TrafficDelta(snap[u], 0) <= moved[u]
      BY <2>1 DEF BaselineSound
    <3>1. TrafficDelta(snap[u], counter[u]) \in Nat /\ TrafficDelta(snap[u], 0) = 0
      BY <1>0, DeltaBounds, DeltaZero
    <3> QED
      BY <1>0, <3>1 DEF BaselineSound
  <2>3. ReadingSound'
    <3> SUFFICES ASSUME poll.pc = "apply", NEW u \in poll.todo, poll' = poll
                 PROVE  /\ poll.prev[u] = snap[u]
                        /\ billed[u] + TrafficDelta(poll.prev[u], poll.totals[u])
                             + TrafficDelta(poll.totals[u], 0) <= moved[u]
      BY <2>1, PollTodo DEF ReadingSound, IdlePoll
    <3>1. u \in Users
      BY PollTodo
    <3>2. poll.totals[u] \in Nat /\ TrafficDelta(poll.prev[u], poll.totals[u]) \in Nat
      BY <3>1, PollStateFields
    <3>3. /\ TrafficDelta(poll.totals[u], counter[u]) \in Nat
          /\ TrafficDelta(poll.totals[u], 0) = 0
      BY <1>0, <3>1, <3>2, DeltaBounds, DeltaZero
    <3> QED
      BY <1>0, <3>1, <3>2, <3>3 DEF ReadingSound
  <2> QED
    BY <1>0, <2>1, <2>2, <2>3
<1>3. ASSUME NEW v \in Users, Traffic(v) PROVE Goal
  <2>1. /\ moved' = [moved EXCEPT ![v] = @ + 1] /\ counter' = [counter EXCEPT ![v] = @ + 1]
        /\ UNCHANGED <<snap, poll, billed>>
    BY <1>3 DEF Traffic
  <2>2. ASSUME NEW u \in Users, NEW p \in Nat, NEW b \in Nat,
               b + TrafficDelta(p, counter[u]) <= moved[u]
        PROVE  b + TrafficDelta(p, counter'[u]) <= moved'[u]
    <3>1. CASE u # v
      BY <1>0, <2>1, <2>2, <3>1
    <3>2. CASE u = v
      <4>1. counter'[u] = counter[u] + 1 /\ moved'[u] = moved[u] + 1
        BY <1>0, <2>1, <3>2
      <4>2. TrafficDelta(p, counter[u] + 1) <= TrafficDelta(p, counter[u]) + 1
        BY <1>0, DeltaStep
      <4>a. counter[u] \in Nat /\ counter[u] + 1 \in Nat
        BY <1>0
      <4>3. TrafficDelta(p, counter[u] + 1) \in Nat /\ TrafficDelta(p, counter[u]) \in Nat
        BY <4>a, DeltaBounds
      <4> QED
        BY <1>0, <2>2, <4>1, <4>2, <4>3
    <3> QED
      BY <3>1, <3>2
  <2>3. BaselineSound'
    BY <1>0, <2>1, <2>2 DEF BaselineSound
  <2>4. ReadingSound'
    <3> SUFFICES ASSUME poll.pc = "apply", NEW u \in poll.todo
                 PROVE  /\ poll.prev[u] = snap[u]
                        /\ billed[u] + TrafficDelta(poll.prev[u], poll.totals[u])
                             + TrafficDelta(poll.totals[u], counter'[u]) <= moved'[u]
      BY <2>1 DEF ReadingSound
    <3>1. u \in Users
      BY PollTodo
    <3> DEFINE b == billed[u] + TrafficDelta(poll.prev[u], poll.totals[u])
    <3>2. poll.totals[u] \in Nat /\ b \in Nat
      BY <1>0, <3>1, PollStateFields
    <3>3. b + TrafficDelta(poll.totals[u], counter[u]) <= moved[u] /\ poll.prev[u] = snap[u]
      BY DEF ReadingSound
    <3> HIDE DEF b
    <3>4. b + TrafficDelta(poll.totals[u], counter'[u]) <= moved'[u]
      BY <2>2, <3>1, <3>2, <3>3
    <3> QED
      BY <3>3, <3>4 DEF b
  <2> QED
    BY <1>0, <2>1, <2>3, <2>4
<1>4. ASSUME PollStart PROVE Goal
  <2>0. Totals(TRUE) = counter
    BY <1>0 DEF Totals, OneMeter
  <2>1. PICK todo \in SUBSET Users :
          poll' = [pc |-> "apply", totals |-> counter, prev |-> snap, at |-> now, todo |-> todo]
    BY <1>4, <2>0 DEF PollStart, PollRead
  <2>2. UNCHANGED <<moved, counter, snap, billed>>
    BY <1>4 DEF PollStart, PollRead
  <2>3. ReadingSound'
    <3> SUFFICES ASSUME NEW u \in Users
                 PROVE  billed[u] + TrafficDelta(snap[u], counter[u])
                           + TrafficDelta(counter[u], counter[u]) <= moved[u]
      BY <2>1, <2>2 DEF ReadingSound
    <3>1. /\ TrafficDelta(snap[u], counter[u]) \in Nat
          /\ TrafficDelta(counter[u], counter[u]) = 0
      BY <1>0, DeltaBounds, DeltaZero
    <3> QED
      BY <1>0, <3>1 DEF BaselineSound
  <2> QED
    BY <1>0, <2>2, <2>3 DEF BaselineSound
<1>5. ASSUME NEW v \in Users, PollBill(v) PROVE Goal
  <2> DEFINE d == TrafficDelta(poll.prev[v], poll.totals[v])
  <2>1. /\ poll.pc = "apply" /\ v \in poll.todo /\ UNCHANGED <<moved, counter>>
        /\ snap' = [snap EXCEPT ![v] = poll.totals[v]]
        /\ billed' = [billed EXCEPT ![v] = @ + d]
        /\ poll' = PollRest(v)
    BY <1>5 DEF PollBill
  <2>2. d \in Nat /\ poll.totals[v] \in Nat
    BY <2>1, PollStateFields
  <2> HIDE DEF d
  <2>3. BaselineSound'
    <3> SUFFICES ASSUME NEW u \in Users
                 PROVE  billed'[u] + TrafficDelta(snap'[u], counter[u]) <= moved[u]
      BY <2>1 DEF BaselineSound
    <3>1. CASE u # v
      BY <1>0, <2>1, <3>1 DEF BaselineSound
    <3>2. CASE u = v
      <4>1. billed[v] + d + TrafficDelta(poll.totals[v], counter[v]) <= moved[v]
        BY <2>1 DEF ReadingSound, d
      <4>2. billed'[v] = billed[v] + d /\ snap'[v] = poll.totals[v]
        BY <1>0, <2>1
      <4>3. TrafficDelta(poll.totals[v], counter[v]) \in Nat
        BY <1>0, <2>2, DeltaBounds
      <4> QED
        BY <1>0, <2>2, <3>2, <4>1, <4>2, <4>3
    <3> QED
      BY <3>1, <3>2
  <2>4. ReadingSound'
    <3> SUFFICES ASSUME poll'.pc = "apply"
                 PROVE  ReadingSound'
      BY DEF ReadingSound
    <3>1. poll' = [poll EXCEPT !.todo = @ \ {v}]
      BY <2>1, PollStateFields
    <3>2. /\ poll'.prev = poll.prev /\ poll'.totals = poll.totals
          /\ poll'.todo = poll.todo \ {v}
      BY <2>1, <3>1 DEF TypeOK, PollStates, IdlePoll
    <3>3. \A u \in poll.todo \ {v} :
             snap'[u] = snap[u] /\ billed'[u] = billed[u]
      BY <1>0, <2>1, PollTodo
    <3> QED
      BY <2>1, <3>2, <3>3 DEF ReadingSound
  <2>5. \A u \in Users : billed'[u] >= billed[u]
    BY <1>0, <2>1, <2>2
  <2> QED
    BY <2>3, <2>4, <2>5
<1>6. ASSUME NEW v \in Users, PollRebase(v) \/ PollWriteFails(v) \/ PollUnread(v) PROVE Goal
  <2>1. /\ poll.pc = "apply" /\ v \in poll.todo /\ UNCHANGED <<moved, counter, billed>>
        /\ poll' = PollRest(v)
        /\ snap' \in {[snap EXCEPT ![v] = poll.totals[v]], snap}
    BY <1>6 DEF PollRebase, PollWriteFails, PollUnread
  <2>2. poll.totals[v] \in Nat /\ TrafficDelta(poll.prev[v], poll.totals[v]) \in Nat
    BY <2>1, PollStateFields
  <2>3. BaselineSound'
    <3> SUFFICES ASSUME NEW u \in Users
                 PROVE  billed[u] + TrafficDelta(snap'[u], counter[u]) <= moved[u]
      BY <2>1 DEF BaselineSound
    <3>1. CASE snap'[u] = snap[u]
      BY <3>1 DEF BaselineSound
    <3>2. CASE snap'[u] # snap[u]
      <4>1. u = v /\ snap'[v] = poll.totals[v]
        BY <1>0, <2>1, <3>2
      <4>2. billed[v] + TrafficDelta(poll.prev[v], poll.totals[v])
               + TrafficDelta(poll.totals[v], counter[v]) <= moved[v]
        BY <2>1 DEF ReadingSound
      <4>3. TrafficDelta(poll.totals[v], counter[v]) \in Nat
        BY <1>0, <2>2, DeltaBounds
      <4>4. billed[v] + TrafficDelta(poll.totals[v], counter[v]) <= moved[v]
        BY <1>0, <2>2, <4>2, <4>3
      <4> QED
        BY <4>1, <4>4
    <3> QED
      BY <3>1, <3>2
  <2>4. ReadingSound'
    <3> SUFFICES ASSUME poll'.pc = "apply"
                 PROVE  ReadingSound'
      BY DEF ReadingSound
    <3>1. poll' = [poll EXCEPT !.todo = @ \ {v}]
      BY <2>1, PollStateFields
    <3>2. /\ poll'.prev = poll.prev /\ poll'.totals = poll.totals
          /\ poll'.todo = poll.todo \ {v}
      BY <2>1, <3>1 DEF TypeOK, PollStates, IdlePoll
    <3>3. \A u \in poll.todo \ {v} : snap'[u] = snap[u]
      BY <1>0, <2>1, PollTodo
    <3> QED
      BY <2>1, <3>2, <3>3 DEF ReadingSound
  <2> QED
    BY <1>0, <2>1, <2>3, <2>4
<1>7. CASE UNCHANGED vars
  BY <1>1, <1>7 DEF vars
<1> HIDE DEF Goal
<1>8. ASSUME Next PROVE Goal
  <2>1. CASE Tick \/ SbRestart \/ PollHalf \/ \E u \in Users : SbTraffic(u)
    BY <1>1, <2>1 DEF Tick, SbRestart, PollHalf, SbTraffic, OneMeter
  <2>2. ASSUME NEW i \in Sweepers, SweepList(i) PROVE Goal
    BY <1>1, <2>2 DEF SweepList
  <2>3. ASSUME NEW i \in Sweepers, NEW u \in Users,
               \/ SweepActivate(i, u) \/ SweepExpire(i, u)
               \/ SweepReset(i, u) \/ SweepRelease(i, u)
        PROVE  Goal
    BY <1>1, <2>3 DEF SweepActivate, SweepExpire, SweepReset, SweepRelease
  <2>4. ASSUME NEW a \in Editors, EditSave(a) \/ EditFails(a) PROVE Goal
    BY <1>1, <2>4 DEF EditSave, EditFails
  <2>5. ASSUME NEW a \in Editors, NEW u \in Users, NEW c \in FullEdits, EditRead(a, u, c)
        PROVE  Goal
    BY <1>1, <2>5 DEF EditRead
  <2>6. ASSUME NEW u \in Users, NEW c \in ColumnEdits, ColumnUpdate(u, c) PROVE Goal
    BY <1>1, <2>6 DEF ColumnUpdate
  <2> QED
    BY <1>2, <1>3, <1>4, <1>5, <1>6, <1>8, <2>1, <2>2, <2>3, <2>4, <2>5, <2>6
       DEF Next, PollUser, SweepStep
<1> QED
  BY <1>7, <1>8 DEF Goal

\* Every row a step writes, or takes into a copy, was billed: it is a row that
\* was read before, changed by an operator that creates no bytes, and the
\* accounting job adds to it no more than it bills.
LEMMA RowsStep ==
    ASSUME TypeOK, RowsBilled, [Next]_vars,
           \A u \in Users : billed'[u] >= billed[u],
           billed' \in [Users -> Nat]
    PROVE  RowsBilled'
<1>0. /\ db \in [Users -> Rows] /\ billed \in [Users -> Nat]
      /\ sweep \in [Sweepers -> SweepStates] /\ edit \in [Editors -> EditStates]
      /\ \A r \in Rows : Sum(r) \in Int
  BY DEF TypeOK, Rows, Sum, Longs, Bytes
\* The copies a sweeper holds are rows, and so are the editors'.
<1>a. ASSUME NEW i \in Sweepers, sweep[i].pc # "idle"
      PROVE  sweep[i].rows \in [Users -> Rows] /\ sweep[i].at \in Time
  BY <1>0, <1>a, SweepStateFields
<1>b. ASSUME NEW a \in Editors, edit[a].pc = "save"
      PROVE  edit[a].user \in Users /\ edit[a].row \in Rows
  BY <1>0, <1>b DEF EditStates, IdleEdit
<1>1. ASSUME UNCHANGED db PROVE TableBilled'
  <2>1. \A u \in Users : Sum(db[u]) \in Int
    BY <1>0
  <2> QED
    BY <1>0, <1>1, <2>1 DEF RowsBilled, TableBilled
<1>2. ASSUME UNCHANGED sweep PROVE SweepBilled'
  <2>1. \A i \in Sweepers, u \in Users :
           sweep[i].pc # "idle" => Sum(sweep[i].rows[u]) \in Int
    BY <1>0, <1>a
  <2> QED
    BY <1>0, <1>2, <2>1 DEF RowsBilled, SweepBilled
<1>3. ASSUME UNCHANGED edit PROVE EditBilled'
  <2>1. \A a \in Editors :
           edit[a].pc = "save" => edit[a].user \in Users /\ Sum(edit[a].row) \in Int
    BY <1>0, <1>b
  <2> QED
    BY <1>0, <1>3, <2>1 DEF RowsBilled, EditBilled
<1>4. ASSUME NEW v \in Users, NEW row \in Rows, Sum(row) <= billed'[v],
             db' = [db EXCEPT ![v] = row]
      PROVE  TableBilled'
  <2> SUFFICES ASSUME NEW u \in Users PROVE Sum(db'[u]) <= billed'[u]
    BY DEF TableBilled
  <2>1. CASE u = v
    BY <1>0, <1>4, <2>1
  <2>2. CASE u # v
    <3>1. db'[u] = db[u] /\ Sum(db[u]) \in Int
      BY <1>0, <1>4, <2>2
    <3> QED
      BY <1>0, <3>1 DEF RowsBilled, TableBilled
  <2> QED
    BY <2>1, <2>2
<1>5. ASSUME NEW i \in Sweepers, NEW s, sweep' = [sweep EXCEPT ![i] = s],
             s.pc # "idle" => \A u \in Users : Sum(s.rows[u]) <= billed'[u]
      PROVE  SweepBilled'
  <2> SUFFICES ASSUME NEW j \in Sweepers, NEW u \in Users, sweep'[j].pc # "idle"
               PROVE  Sum(sweep'[j].rows[u]) <= billed'[u]
    BY DEF SweepBilled
  <2>1. CASE i = j
    BY <1>0, <1>5, <2>1
  <2>2. CASE i # j
    <3>1. sweep'[j] = sweep[j]
      BY <1>0, <1>5, <2>2
    <3>2. Sum(sweep[j].rows[u]) \in Int /\ Sum(sweep[j].rows[u]) <= billed[u]
      BY <1>0, <1>a, <3>1 DEF RowsBilled, SweepBilled
    <3> QED
      BY <1>0, <3>1, <3>2
  <2> QED
    BY <2>1, <2>2
\* A copy stays billed when one of its rows is replaced by a billed row.
<1>6. ASSUME NEW i \in Sweepers, sweep[i].pc # "idle", NEW v \in Users, NEW row \in Rows,
             Sum(row) = Sum(sweep[i].rows[v]), billed' = billed
      PROVE  /\ [sweep[i].rows EXCEPT ![v] = row] \in [Users -> Rows]
             /\ \A u \in Users : Sum([sweep[i].rows EXCEPT ![v] = row][u]) <= billed'[u]
             /\ Sum(row) <= billed'[v]
  <2>1. sweep[i].rows \in [Users -> Rows]
    BY <1>6, <1>a
  <2>2. \A u \in Users : Sum(sweep[i].rows[u]) <= billed'[u]
    BY <1>6 DEF RowsBilled, SweepBilled
  <2> QED
    BY <1>6, <2>1, <2>2
<1>7. ASSUME NEW v \in Users, PollBill(v) PROVE RowsBilled'
  <2> DEFINE d == TrafficDelta(poll.prev[v], poll.totals[v])
             row == ApplyTraffic(db[v], d, poll.at)
  <2>1. d \in Nat /\ poll.at \in Time
    BY <1>7, PollStateFields DEF PollBill
  <2>2. row \in Rows /\ Sum(row) <= Sum(db[v]) + d
    BY <1>0, <2>1, ApplyTrafficRow
  <2>3. /\ db' = [db EXCEPT ![v] = row] /\ billed' = [billed EXCEPT ![v] = @ + d]
        /\ UNCHANGED <<sweep, edit>>
    BY <1>7 DEF PollBill
  <2> HIDE DEF d, row
  <2>4. Sum(row) <= billed'[v]
    BY <1>0, <2>1, <2>2, <2>3 DEF RowsBilled, TableBilled
  <2> QED
    BY <1>2, <1>3, <1>4, <2>2, <2>3, <2>4 DEF RowsBilled
<1>8. ASSUME NEW i \in Sweepers, SweepList(i) PROVE RowsBilled'
  <2> DEFINE s == ToUsers(db, now, Users)
  <2>1. s.pc # "idle" => s.rows = db
    BY <1>0, ToUsersState DEF TypeOK
  <2>2. UNCHANGED <<db, edit, billed>> /\ sweep' = [sweep EXCEPT ![i] = s]
    BY <1>8 DEF SweepList
  <2> HIDE DEF s
  <2>3. \A u \in Users : Sum(db[u]) <= billed'[u]
    BY <2>2 DEF RowsBilled, TableBilled
  <2>4. SweepBilled'
    BY <1>5, <2>1, <2>2, <2>3
  <2> QED
    BY <1>1, <1>3, <2>2, <2>4 DEF RowsBilled
<1>9. ASSUME NEW i \in Sweepers, NEW v \in Users, SweepActivate(i, v) PROVE RowsBilled'
  <2> DEFINE row == ActivateHold(sweep[i].rows[v])
             rows == [sweep[i].rows EXCEPT ![v] = row]
             s == ToUsers(rows, sweep[i].at, sweep[i].todo)
  <2>1. /\ sweep[i].pc # "idle" /\ sweep[i].rows[v].first # Nil
        /\ SweepSave(v, row) /\ sweep' = [sweep EXCEPT ![i] = s] /\ UNCHANGED <<edit, billed>>
    BY <1>9 DEF SweepActivate, HoldStarted
  <2>2. row \in Rows /\ Sum(row) = Sum(sweep[i].rows[v])
    BY <1>a, <2>1, LifecycleRow
  <2> HIDE DEF row
  <2>3. /\ rows \in [Users -> Rows] /\ \A u \in Users : Sum(rows[u]) <= billed'[u]
        /\ Sum(row) <= billed'[v]
    BY <1>6, <2>1, <2>2
  <2>4. sweep[i].todo \in SUBSET Users
    BY <1>0, <2>1, SweepStateFields
  <2> HIDE DEF rows
  <2>5. s.pc # "idle" => s.rows = rows
    BY <1>a, <2>1, <2>3, <2>4, ToUsersState
  <2> HIDE DEF s
  <2>6. SweepBilled'
    BY <1>5, <2>1, <2>3, <2>5
  <2>7. TableBilled'
    BY <1>1, <1>4, <2>1, <2>2, <2>3 DEF SweepSave
  <2> QED
    BY <1>3, <2>1, <2>6, <2>7 DEF RowsBilled
<1>10. ASSUME NEW i \in Sweepers, NEW v \in Users, SweepExpire(i, v) PROVE RowsBilled'
  <2> DEFINE row == Expire(sweep[i].rows[v])
             rows == [sweep[i].rows EXCEPT ![v] = row]
             todo == sweep[i].todo \ {v}
             s == ToUsers(rows, sweep[i].at, todo)
  <2>1. /\ sweep[i].pc # "idle"
        /\ SweepSave(v, row) /\ sweep' = [sweep EXCEPT ![i] = s] /\ UNCHANGED <<edit, billed>>
    BY <1>10 DEF SweepExpire
  <2>2. row \in Rows /\ Sum(row) = Sum(sweep[i].rows[v])
    BY <1>a, <2>1, LifecycleRow
  <2> HIDE DEF row
  <2>3. /\ rows \in [Users -> Rows] /\ \A u \in Users : Sum(rows[u]) <= billed'[u]
        /\ Sum(row) <= billed'[v]
    BY <1>6, <2>1, <2>2
  <2>4. todo \in SUBSET Users
    BY <1>0, <2>1, SweepStateFields
  <2> HIDE DEF rows, todo
  <2>5. s.pc # "idle" => s.rows = rows
    BY <1>a, <2>1, <2>3, <2>4, ToUsersState
  <2> HIDE DEF s
  <2>6. SweepBilled'
    BY <1>5, <2>1, <2>3, <2>5
  <2>7. TableBilled'
    BY <1>1, <1>4, <2>1, <2>2, <2>3 DEF SweepSave
  <2> QED
    BY <1>3, <2>1, <2>6, <2>7 DEF RowsBilled
<1>11. ASSUME NEW i \in Sweepers, NEW v \in Users, SweepReset(i, v) PROVE RowsBilled'
  <2> DEFINE rows == sweep[i].rows
             todo == sweep[i].todo \ {v}
             s == ToUsers(rows, sweep[i].at, todo)
             row == ResetUsage(db[v], sweep[i].at)
  <2>1. /\ sweep[i].pc # "idle" /\ sweep' = [sweep EXCEPT ![i] = s]
        /\ UNCHANGED <<edit, billed>>
        /\ db' = [db EXCEPT ![v] = row] \/ db' = db
    BY <1>11 DEF SweepReset
  <2>2. row \in Rows /\ Sum(row) <= Sum(db[v])
    BY <1>0, <1>a, <2>1, ResetUsageRow
  <2>3. rows \in [Users -> Rows] /\ \A u \in Users : Sum(rows[u]) <= billed'[u]
    BY <1>a, <2>1 DEF RowsBilled, SweepBilled
  <2>4. todo \in SUBSET Users
    BY <1>0, <2>1, SweepStateFields
  <2> HIDE DEF rows, todo, row
  <2>5. s.pc # "idle" => s.rows = rows
    BY <1>a, <2>1, <2>3, <2>4, ToUsersState
  <2> HIDE DEF s
  <2>6. SweepBilled'
    BY <1>5, <2>1, <2>3, <2>5
  <2>7. Sum(row) <= billed'[v]
    BY <1>0, <2>1, <2>2 DEF RowsBilled, TableBilled
  <2>8. TableBilled'
    BY <1>1, <1>4, <2>1, <2>2, <2>7
  <2> QED
    BY <1>3, <2>1, <2>6, <2>8 DEF RowsBilled
<1>12. ASSUME NEW i \in Sweepers, NEW v \in Users, SweepRelease(i, v) PROVE RowsBilled'
  <2> DEFINE s == IF sweep[i].todo = {v} THEN IdleSweep
                  ELSE [sweep[i] EXCEPT !.todo = @ \ {v}]
             row == [db[v] EXCEPT !.disc = Nil]
  <2>1. /\ sweep[i].pc # "idle" /\ SweepSave(v, row)
        /\ sweep' = [sweep EXCEPT ![i] = s] /\ UNCHANGED <<edit, billed>>
    BY <1>12 DEF SweepRelease
  <2>2. row \in Rows /\ Sum(row) = Sum(db[v])
    BY <1>0, LifecycleRow
  <2>3. s.pc # "idle" => s.rows = sweep[i].rows
    BY <1>0, <2>1 DEF SweepStates, IdleSweep
  <2> HIDE DEF s, row
  <2>4. \A u \in Users : Sum(sweep[i].rows[u]) <= billed'[u]
    BY <2>1 DEF RowsBilled, SweepBilled
  <2>5. SweepBilled'
    BY <1>5, <2>1, <2>3, <2>4
  <2>6. Sum(row) <= billed'[v]
    BY <2>1, <2>2 DEF RowsBilled, TableBilled
  <2>7. TableBilled'
    BY <1>1, <1>4, <2>1, <2>2, <2>6 DEF SweepSave
  <2> QED
    BY <1>3, <2>1, <2>5, <2>7 DEF RowsBilled
<1>13. ASSUME NEW a \in Editors, NEW v \in Users, NEW c \in FullEdits, EditRead(a, v, c)
       PROVE  RowsBilled'
  <2> DEFINE row == FullEdit(c, db[v], now)
  <2>1. c \in Commands /\ now \in Time
    BY ConstantsAssumption DEF TypeOK
  <2>2. row \in Rows /\ Sum(row) <= Sum(db[v])
    BY <1>0, <2>1, FullEditRow
  <2>3. /\ edit' = [edit EXCEPT ![a] = [pc |-> "save", user |-> v, row |-> row]]
        /\ UNCHANGED <<db, sweep, billed>>
    BY <1>13 DEF EditRead
  <2> HIDE DEF row
  <2>4. Sum(row) <= billed'[v]
    BY <1>0, <2>2, <2>3 DEF RowsBilled, TableBilled
  <2>5. EditBilled'
    BY <1>0, <2>3, <2>4 DEF RowsBilled, EditBilled
  <2> QED
    BY <1>1, <1>2, <2>3, <2>5 DEF RowsBilled
<1>14. ASSUME NEW a \in Editors, EditSave(a) PROVE RowsBilled'
  <2>1. /\ edit[a].pc = "save" /\ db' = [db EXCEPT ![edit[a].user] = edit[a].row]
        /\ edit' = [edit EXCEPT ![a] = IdleEdit] /\ UNCHANGED <<sweep, billed>>
    BY <1>14 DEF EditSave
  <2>2. /\ edit[a].user \in Users /\ edit[a].row \in Rows
        /\ Sum(edit[a].row) <= billed'[edit[a].user]
    BY <1>b, <2>1 DEF RowsBilled, EditBilled
  <2>3. TableBilled'
    BY <1>4, <2>1, <2>2
  <2>4. EditBilled'
    BY <1>0, <2>1 DEF RowsBilled, EditBilled, IdleEdit
  <2> QED
    BY <1>2, <2>1, <2>3, <2>4 DEF RowsBilled
<1>15. ASSUME NEW a \in Editors, EditFails(a) PROVE RowsBilled'
  <2>1. edit' = [edit EXCEPT ![a] = IdleEdit] /\ UNCHANGED <<db, sweep, billed>>
    BY <1>15 DEF EditFails
  <2>2. EditBilled'
    BY <1>0, <2>1 DEF RowsBilled, EditBilled, IdleEdit
  <2> QED
    BY <1>1, <1>2, <2>1, <2>2 DEF RowsBilled
<1>16. ASSUME NEW v \in Users, NEW c \in ColumnEdits, ColumnUpdate(v, c) PROVE RowsBilled'
  <2> DEFINE row == ColumnEdit(c, db[v], now)
  <2>1. c \in Requests /\ now \in Time
    BY ConstantsAssumption DEF TypeOK
  <2>2. row \in Rows /\ Sum(row) = Sum(db[v])
    BY <1>0, <2>1, ColumnEditRow
  <2>3. db' = [db EXCEPT ![v] = row] /\ UNCHANGED <<sweep, edit, billed>>
    BY <1>16 DEF ColumnUpdate
  <2> HIDE DEF row
  <2>4. Sum(row) <= billed'[v]
    BY <2>2, <2>3 DEF RowsBilled, TableBilled
  <2> QED
    BY <1>2, <1>3, <1>4, <2>2, <2>3, <2>4 DEF RowsBilled
<1>17. CASE Crash
  <2>1. /\ db' = db /\ sweep' = [i \in Sweepers |-> IdleSweep]
        /\ edit' = [a \in Editors |-> IdleEdit]
    BY <1>17 DEF Crash
  <2>2. SweepBilled' /\ EditBilled'
    BY <2>1 DEF SweepBilled, EditBilled, IdleSweep, IdleEdit
  <2> QED
    BY <1>1, <2>1, <2>2 DEF RowsBilled
<1>18. ASSUME UNCHANGED <<db, sweep, edit>> PROVE RowsBilled'
  BY <1>1, <1>2, <1>3, <1>18 DEF RowsBilled
<1>19. ASSUME NEW v \in Users, Traffic(v) \/ SbTraffic(v) \/ PollRebase(v) \/ PollWriteFails(v) \/ PollUnread(v)
       PROVE  RowsBilled'
  BY <1>18, <1>19 DEF Traffic, SbTraffic, PollRebase, PollWriteFails, PollUnread
<1>20. CASE Tick \/ EngineRestart \/ SbRestart \/ PollStart \/ PollHalf \/ UNCHANGED vars
  BY <1>18, <1>20 DEF Tick, EngineRestart, SbRestart, PollStart, PollHalf, PollRead, vars
<1> QED
  BY <1>7, <1>8, <1>9, <1>10, <1>11, <1>12, <1>13, <1>14, <1>15, <1>16, <1>17, <1>19, <1>20
     DEF Next, PollUser, SweepStep

\* The inductive step, from its three parts.
LEMMA NoOverbillStep ==
    ASSUME ~SingboxStats, NoOverbillInv, [Next]_vars
    PROVE  NoOverbillInv'
<1>1. TypeOK'
  BY TypeStep DEF NoOverbillInv
<1>2. BaselineSound' /\ ReadingSound' /\ \A u \in Users : billed'[u] >= billed[u]
  BY CountersStep DEF NoOverbillInv
<1>2a. OneMeter'
  BY OneMeterStep DEF NoOverbillInv
<1>3. billed' \in [Users -> Nat]
  BY <1>1 DEF TypeOK
<1>4. RowsBilled'
  BY <1>2, <1>3, RowsStep DEF NoOverbillInv
<1> QED
  BY <1>1, <1>2, <1>2a, <1>4 DEF NoOverbillInv

\* The invariant gives the property: a row's bytes were billed, and what was
\* billed moved.
LEMMA NoOverbillFollows == NoOverbillInv => NoOverbill
<1> SUFFICES ASSUME NoOverbillInv, NEW u \in Users
             PROVE  db[u].life + db[u].used <= moved[u]
  BY DEF NoOverbill
<1>1. /\ db[u] \in Rows /\ billed[u] \in Nat /\ moved[u] \in Nat
      /\ TrafficDelta(snap[u], counter[u]) \in Nat
  BY DeltaBounds DEF NoOverbillInv, TypeOK
<1>2. db[u].life \in Int /\ db[u].used \in Int
  BY <1>1 DEF Rows, Longs, Bytes
<1>3. db[u].life + db[u].used <= billed[u]
  BY DEF NoOverbillInv, RowsBilled, TableBilled, Sum
<1>4. billed[u] + TrafficDelta(snap[u], counter[u]) <= moved[u]
  BY DEF NoOverbillInv, BaselineSound
<1> QED
  BY <1>1, <1>2, <1>3, <1>4

\* For any users, panel instances, editors, commands and faults, a panel whose
\* sing-box reports no statistics charges nobody for more bytes than they
\* moved.  (With two metered cores it does: run double_billing.)
THEOREM NeverOverbilled ==
    ASSUME ~SingboxStats
    PROVE  Spec => []NoOverbill
<1>1. Init => NoOverbillInv
  BY TypeInit, BillingInit DEF NoOverbillInv, Init, OneMeter
<1>2. NoOverbillInv /\ [Next]_vars => NoOverbillInv'
  BY NoOverbillStep
<1> QED
  BY <1>1, <1>2, NoOverbillFollows, PTL DEF Spec

-----------------------------------------------------------------------------
(***************************************************************************)
(* What the transactional writers of an account's row guarantee together,  *)
(* for any number of users, sweepers, faults and restarts: each period is  *)
(* reset at most once, and no billed byte is lost or counted twice.        *)
(*                                                                         *)
(* The hypothesis OnlyTransactions keeps the savers of whole rows out: no  *)
(* read-modify-save handler, and no account with a term or on hold, which  *)
(* the sweep saves whole.  With them both properties are false (run        *)
(* lost_billing).                                                          *)
(***************************************************************************)

\* An account the sweep never saves whole.
TermFree(r) == r.status # "on_hold" /\ r.expire = Nil

OnlyTransactions ==
    /\ Editors = {}
    /\ \A r \in InitialRows : TermFree(r)
    /\ \A c \in ColumnEdits : TermFree(c.row)

\* Neither the table nor a sweeper's copy has anything else.
TermFreeInv ==
    /\ \A u \in Users : TermFree(db[u])
    /\ \A i \in Sweepers, u \in Users : sweep[i].pc # "idle" => TermFree(sweep[i].rows[u])

-----------------------------------------------------------------------------
(* What each writer does to a row *)

\* Two rows with the same usage and the same reset marker.
SameLedger(r, s) == r.used = s.used /\ r.life = s.life /\ r.lastReset = s.lastReset

LEMMA ApplyTrafficTermFree ==
    ASSUME NEW r \in Rows, NEW d \in Nat, NEW at \in Time, TermFree(r)
    PROVE  /\ TermFree(ApplyTraffic(r, d, at))
           /\ ApplyTraffic(r, d, at).lastReset = r.lastReset
           /\ ApplyTraffic(r, d, at).life = r.life
           /\ ApplyTraffic(r, d, at).used = SaturatingAdd(r.used, d)
BY DEF ApplyTraffic, Rows, TermFree

LEMMA ResetUsageTermFree ==
    ASSUME NEW r \in Rows, NEW at \in Time, TermFree(r)
    PROVE  /\ TermFree(ResetUsage(r, at))
           /\ ResetUsage(r, at).lastReset = at
           /\ ResetUsage(r, at).used = 0
           /\ ResetUsage(r, at).life = WrappingAdd(r.life, r.used)
BY DEF ResetUsage, Rows, TermFree

LEMMA ReleaseTermFree ==
    ASSUME NEW r \in Rows, TermFree(r)
    PROVE  /\ TermFree([r EXCEPT !.disc = Nil])
           /\ SameLedger([r EXCEPT !.disc = Nil], r)
BY DEF Rows, TermFree, SameLedger

LEMMA ColumnEditTermFree ==
    ASSUME NEW c \in Requests, TermFree(c.row),
           NEW r \in Rows, NEW at \in Time, TermFree(r)
    PROVE  TermFree(ColumnEdit(c, r, at)) /\ SameLedger(ColumnEdit(c, r, at), r)
<1> DEFINE q == ColumnEdit(c, r, at)
<1>1. Instant(c, c.row.expire, at) = Nil
  BY DEF Instant, TermFree
<1>2. /\ q.status = IF "status" \in c.cols THEN c.row.status ELSE r.status
      /\ q.expire = IF "expire" \in c.cols THEN Instant(c, c.row.expire, at) ELSE r.expire
      /\ q.used = r.used /\ q.life = r.life /\ q.lastReset = r.lastReset
  BY DEF ColumnEdit, Rows
<1> HIDE DEF q
<1> QED
  BY <1>1, <1>2 DEF q, TermFree, SameLedger

\* A sweeper does nothing but resets and releases with such a copy.
LEMMA NothingToSave ==
    ASSUME TermFreeInv, NEW i \in Sweepers, NEW u \in Users, sweep[i].pc # "idle"
    PROVE  ~SweepActivate(i, u) /\ ~SweepExpire(i, u)
BY DEF TermFreeInv, TermFree, SweepActivate, SweepExpire, HoldStarted, PastExpiry

-----------------------------------------------------------------------------
(* What a step does to the row of user u: one of three things *)

Kept(u) ==
    /\ SameLedger(db'[u], db[u]) /\ TermFree(db'[u])
    /\ billed'[u] = billed[u] /\ resets'[u] = resets[u] /\ repeated'[u] = repeated[u]

Billed(u) ==
    \E d \in Nat, at \in Time :
        /\ db'[u] = ApplyTraffic(db[u], d, at)
        /\ billed'[u] = billed[u] + d
        /\ resets'[u] = resets[u] /\ repeated'[u] = repeated[u]

WasReset(u) ==
    \E at \in Time, period \in Time :
        /\ period <= at /\ ~AlreadyReset(db[u], period)
        /\ db'[u] = ResetUsage(db[u], at)
        /\ resets'[u] = resets[u] \cup {period}
        /\ repeated'[u] = repeated[u] \cup (resets[u] \cap {period})
        /\ billed'[u] = billed[u]

LEMMA RowChange ==
    ASSUME TypeOK, OnlyTransactions, TermFreeInv, [Next]_vars, NEW u \in Users
    PROVE  Kept(u) \/ Billed(u) \/ WasReset(u)
<1> DEFINE Goal == Kept(u) \/ Billed(u) \/ WasReset(u)
<1>0. /\ db \in [Users -> Rows] /\ billed \in [Users -> Nat] /\ now \in Time
      /\ resets \in [Users -> SUBSET Time] /\ repeated \in [Users -> SUBSET Time]
      /\ TermFree(db[u]) /\ SameLedger(db[u], db[u])
  BY DEF TypeOK, TermFreeInv, SameLedger
<1>1. ASSUME UNCHANGED <<db, billed, resets, repeated>> PROVE Goal
  BY <1>0, <1>1 DEF Kept
<1>2. ASSUME NEW v \in Users, PollBill(v) PROVE Goal
  <2> DEFINE d == TrafficDelta(poll.prev[v], poll.totals[v])
  <2>1. /\ db' = [db EXCEPT ![v] = ApplyTraffic(@, d, poll.at)]
        /\ billed' = [billed EXCEPT ![v] = @ + d] /\ UNCHANGED <<resets, repeated>>
    BY <1>2 DEF PollBill
  <2>2. d \in Nat /\ poll.at \in Time
    BY <1>2, PollStateFields DEF PollBill
  <2> HIDE DEF d
  <2>3. CASE u = v
    BY <1>0, <2>1, <2>2, <2>3 DEF Billed
  <2>4. CASE u # v
    BY <1>0, <2>1, <2>4 DEF Kept
  <2> QED
    BY <2>3, <2>4
<1>3. ASSUME NEW i \in Sweepers, NEW v \in Users, SweepReset(i, v) PROVE Goal
  <2> DEFINE s == sweep[i]
             period == ResetPeriodStart(s.rows[v], s.at)
  <2>1. s \in SweepStates /\ s.pc # "idle" /\ period # Nil
    BY <1>3 DEF TypeOK, SweepReset
  <2>2. s.rows[v] \in Rows /\ s.at \in Time
    BY <2>1, SweepStateFields
  <2>3. period \in Time /\ period <= s.at
    BY <2>1, <2>2, PeriodBounds DEF OptTime, Time
  <2>4. \/ /\ ~AlreadyReset(db[v], period)
           /\ db' = [db EXCEPT ![v] = ResetUsage(@, s.at)]
           /\ resets' = [resets EXCEPT ![v] = @ \cup {period}]
           /\ repeated' = [repeated EXCEPT ![v] = @ \cup (resets[v] \cap {period})]
           /\ UNCHANGED billed
        \/ UNCHANGED <<db, billed, resets, repeated>>
    BY <1>3 DEF SweepReset
  <2> HIDE DEF s, period
  <2>5. CASE u = v
    BY <1>0, <1>1, <2>2, <2>3, <2>4, <2>5 DEF WasReset
  <2>6. CASE u # v
    BY <1>0, <1>1, <2>4, <2>6 DEF Kept
  <2> QED
    BY <2>5, <2>6
<1>4. ASSUME NEW i \in Sweepers, NEW v \in Users, SweepRelease(i, v) PROVE Goal
  <2>1. /\ UNCHANGED <<billed, resets, repeated>>
        /\ db' = [db EXCEPT ![v] = [db[v] EXCEPT !.disc = Nil]] \/ UNCHANGED db
    BY <1>4 DEF SweepRelease, SweepSave
  <2>2. db'[u] \in {db[u], [db[u] EXCEPT !.disc = Nil]}
    BY <1>0, <2>1
  <2> QED
    BY <1>0, <2>1, <2>2, ReleaseTermFree DEF Kept
<1>5. ASSUME NEW v \in Users, NEW c \in ColumnEdits, ColumnUpdate(v, c) PROVE Goal
  <2>1. c \in Requests /\ TermFree(c.row)
    BY ConstantsAssumption DEF OnlyTransactions
  <2>2. db'[u] \in {db[u], ColumnEdit(c, db[u], now)} /\ UNCHANGED <<billed, resets, repeated>>
    BY <1>0, <1>5 DEF ColumnUpdate
  <2> QED
    BY <1>0, <2>1, <2>2, ColumnEditTermFree DEF Kept
<1>6. ASSUME NEW i \in Sweepers, SweepStep(i) PROVE Goal
  <2>1. sweep[i].pc # "idle"
    BY <1>6 DEF SweepStep, SweepActivate, SweepExpire, SweepReset, SweepRelease
  <2> QED
    BY <1>3, <1>4, <1>6, <2>1, NothingToSave DEF SweepStep
<1> HIDE DEF Goal
<1>7. ASSUME Tick \/ EngineRestart \/ SbRestart \/ Crash \/ PollStart \/ PollHalf \/ UNCHANGED vars
      PROVE  Goal
  BY <1>1, <1>7 DEF Tick, EngineRestart, SbRestart, Crash, PollStart, PollHalf, PollRead, vars
<1>8. ASSUME NEW v \in Users, Traffic(v) \/ SbTraffic(v) \/ PollRebase(v) \/ PollWriteFails(v) \/ PollUnread(v)
      PROVE  Goal
  BY <1>1, <1>8 DEF Traffic, SbTraffic, PollRebase, PollWriteFails, PollUnread
<1>9. ASSUME NEW i \in Sweepers, SweepList(i) PROVE Goal
  BY <1>1, <1>9 DEF SweepList
<1>10. \A a \in Editors : FALSE
  BY DEF OnlyTransactions
<1>11. ASSUME Next PROVE Goal
  BY <1>2, <1>5, <1>6, <1>7, <1>8, <1>9, <1>10, <1>11 DEF Next, PollUser
<1> QED
  BY <1>7, <1>11 DEF Goal

LEMMA TermFreeStep ==
    ASSUME TypeOK, OnlyTransactions, TermFreeInv, [Next]_vars
    PROVE  TermFreeInv'
<1>0. db \in [Users -> Rows] /\ sweep \in [Sweepers -> SweepStates] /\ now \in Time
  BY DEF TypeOK
<1>1. \A u \in Users : TermFree(db'[u])
  <2> SUFFICES ASSUME NEW u \in Users PROVE TermFree(db'[u])
    OBVIOUS
  <2>1. TermFree(db[u]) /\ db[u] \in Rows
    BY <1>0 DEF TermFreeInv
  <2> QED
    BY <2>1, RowChange, ApplyTrafficTermFree, ResetUsageTermFree DEF Kept, Billed, WasReset
<1> DEFINE Copies(s) == s.pc # "idle" => \A u \in Users : TermFree(s.rows[u])
           Goal == \A i \in Sweepers : Copies(sweep'[i])
<1>2. \A i \in Sweepers : Copies(sweep[i])
  BY DEF TermFreeInv
<1>3. ASSUME UNCHANGED sweep PROVE Goal
  BY <1>2, <1>3
<1>4. ASSUME NEW i \in Sweepers, NEW s, Copies(s), sweep' = [sweep EXCEPT ![i] = s] PROVE Goal
  BY <1>0, <1>2, <1>4
<1>5. ASSUME NEW i \in Sweepers, SweepList(i) PROVE Goal
  <2>1. ToUsers(db, now, Users).pc # "idle" => ToUsers(db, now, Users).rows = db
    BY <1>0, ToUsersState
  <2>2. Copies(ToUsers(db, now, Users))
    BY <2>1 DEF TermFreeInv
  <2> QED
    BY <1>4, <1>5, <2>2 DEF SweepList
<1>6. ASSUME NEW i \in Sweepers, NEW v \in Users, SweepReset(i, v) PROVE Goal
  <2> DEFINE s == sweep[i]
             t == ToUsers(s.rows, s.at, s.todo \ {v})
  <2>1. s.pc # "idle" /\ s \in SweepStates /\ sweep' = [sweep EXCEPT ![i] = t]
    BY <1>0, <1>6 DEF SweepReset
  <2>2. s.rows \in [Users -> Rows] /\ s.at \in Time /\ s.todo \ {v} \in SUBSET Users
    BY <2>1, SweepStateFields
  <2>3. t.pc # "idle" => t.rows = s.rows
    BY <2>2, ToUsersState
  <2>4. Copies(t)
    BY <1>2, <2>1, <2>3
  <2> HIDE DEF s, t
  <2> QED
    BY <1>4, <2>1, <2>4
<1>7. ASSUME NEW i \in Sweepers, NEW v \in Users, SweepRelease(i, v) PROVE Goal
  <2> DEFINE s == sweep[i]
             t == IF s.todo = {v} THEN IdleSweep ELSE [s EXCEPT !.todo = @ \ {v}]
  <2>1. s.pc # "idle" /\ s \in SweepStates /\ sweep' = [sweep EXCEPT ![i] = t]
    BY <1>0, <1>7 DEF SweepRelease
  <2>2. t.pc # "idle" => t.rows = s.rows
    BY <2>1 DEF SweepStates, IdleSweep
  <2>3. Copies(t)
    BY <1>2, <2>1, <2>2
  <2> HIDE DEF s, t
  <2> QED
    BY <1>4, <2>1, <2>3
<1>8. ASSUME NEW i \in Sweepers, SweepStep(i) PROVE Goal
  <2>1. sweep[i].pc # "idle"
    BY <1>8 DEF SweepStep, SweepActivate, SweepExpire, SweepReset, SweepRelease
  <2> QED
    BY <1>6, <1>7, <1>8, <2>1, NothingToSave DEF SweepStep
<1>9. ASSUME Crash PROVE Goal
  BY <1>9 DEF Crash, IdleSweep
<1> HIDE DEF Goal
<1>10. ASSUME Tick \/ EngineRestart \/ SbRestart \/ PollStart \/ PollHalf \/ UNCHANGED vars
       PROVE  Goal
  BY <1>3, <1>10 DEF Tick, EngineRestart, SbRestart, PollStart, PollHalf, PollRead, vars
<1>11. ASSUME NEW v \in Users, Traffic(v) \/ SbTraffic(v) \/ PollUser(v) \/ PollWriteFails(v) \/ PollUnread(v)
       PROVE  Goal
  BY <1>3, <1>11 DEF Traffic, SbTraffic, PollUser, PollBill, PollRebase, PollWriteFails, PollUnread
<1>12. ASSUME NEW v \in Users, NEW c \in ColumnEdits, ColumnUpdate(v, c) PROVE Goal
  BY <1>3, <1>12 DEF ColumnUpdate
<1>13. \A a \in Editors : FALSE
  BY DEF OnlyTransactions
<1>14. ASSUME Next PROVE Goal
  BY <1>5, <1>8, <1>9, <1>10, <1>11, <1>12, <1>13, <1>14 DEF Next
<1>15. Goal
  BY <1>10, <1>14
<1> QED
  BY <1>1, <1>15 DEF TermFreeInv, Goal

LEMMA TermFreeInit == OnlyTransactions /\ Init => TermFreeInv
BY DEF OnlyTransactions, Init, TermFreeInv, IdleSweep

-----------------------------------------------------------------------------
(* A period is reset once *)

\* The row remembers a reset at least as recent as every one that was applied.
MarkerInv ==
    \A u \in Users :
        /\ repeated[u] = {}
        /\ \A p \in resets[u] : AlreadyReset(db[u], p)

LEMMA MarkerStep ==
    ASSUME TypeOK, OnlyTransactions, TermFreeInv, MarkerInv, [Next]_vars
    PROVE  MarkerInv'
<1> SUFFICES ASSUME NEW u \in Users
             PROVE  repeated'[u] = {} /\ \A p \in resets'[u] : AlreadyReset(db'[u], p)
  BY DEF MarkerInv
<1>0. /\ db[u] \in Rows /\ resets[u] \subseteq Time /\ repeated[u] = {} /\ TermFree(db[u])
      /\ db[u].lastReset \in OptTime
      /\ \A p \in resets[u] : AlreadyReset(db[u], p)
  BY DEF TypeOK, Rows, MarkerInv, TermFreeInv
<1>1. CASE Kept(u)
  BY <1>0, <1>1 DEF Kept, SameLedger, AlreadyReset
<1>2. CASE Billed(u)
  BY <1>0, <1>2, ApplyTrafficTermFree DEF Billed, AlreadyReset
<1>3. CASE WasReset(u)
  <2>1. PICK at \in Time, period \in Time :
          /\ period <= at /\ ~AlreadyReset(db[u], period)
          /\ db'[u] = ResetUsage(db[u], at)
          /\ resets'[u] = resets[u] \cup {period}
          /\ repeated'[u] = repeated[u] \cup (resets[u] \cap {period})
    BY <1>3 DEF WasReset
  <2>2. db'[u].lastReset = at /\ at \in Nat /\ at # Nil
    BY <1>0, <2>1, ResetUsageTermFree DEF Time, Nil
  <2>3. period \notin resets[u]
    BY <1>0, <2>1
  <2>4. \A p \in resets[u] : p <= at
    BY <1>0, <2>1 DEF AlreadyReset, OptTime, Time, Nil
  <2> QED
    BY <1>0, <2>1, <2>2, <2>3, <2>4 DEF AlreadyReset
<1> QED
  BY <1>1, <1>2, <1>3, RowChange

\* With transactional writers only, no calendar period of an account is reset
\* twice, however many panel instances sweep the database.
THEOREM PeriodResetOnce ==
    ASSUME OnlyTransactions
    PROVE  Spec => []ResetOncePerPeriod
<1> DEFINE Inv == TypeOK /\ TermFreeInv /\ MarkerInv
<1>1. Init => Inv
  BY OnlyTransactions, TypeInit, TermFreeInit DEF Init, MarkerInv
<1>2. Inv /\ [Next]_vars => Inv'
  BY OnlyTransactions, TypeStep, TermFreeStep, MarkerStep
<1>3. Inv => ResetOncePerPeriod
  BY DEF MarkerInv, ResetOncePerPeriod
<1> QED
  BY <1>1, <1>2, <1>3, PTL DEF Spec

-----------------------------------------------------------------------------
(* The ledger is exact *)

\* Nobody moves more than the counter type holds.
MovedBound == \A u \in Users : moved[u] <= MaxTraffic

\* What the row holds over its life is what was billed, to the byte.
LedgerInv ==
    \A u \in Users : db[u].life \in Nat /\ db[u].life + db[u].used = billed[u]

LEMMA MovedStep ==
    ASSUME TypeOK, MovedBound, [Next]_vars
    PROVE  MovedBound'
<1>0. moved \in [Users -> Nat] /\ MaxTraffic \in Nat
  BY ConstantsAssumption DEF TypeOK
<1>1. ASSUME NEW v \in Users, moved[v] < MaxTraffic, moved' = [moved EXCEPT ![v] = @ + 1]
      PROVE  MovedBound'
  BY <1>0, <1>1 DEF MovedBound
<1>2. ASSUME UNCHANGED moved PROVE MovedBound'
  BY <1>2 DEF MovedBound
<1>3. ASSUME NEW v \in Users, Traffic(v) \/ SbTraffic(v) PROVE MovedBound'
  BY <1>1, <1>3 DEF Traffic, SbTraffic
<1>4. ASSUME \/ Tick \/ EngineRestart \/ SbRestart \/ Crash \/ PollStart \/ PollHalf
             \/ UNCHANGED vars
      PROVE  MovedBound'
  BY <1>2, <1>4
     DEF Tick, EngineRestart, SbRestart, Crash, PollStart, PollHalf, PollRead, vars
<1>5. ASSUME NEW v \in Users, PollUser(v) \/ PollWriteFails(v) \/ PollUnread(v) PROVE MovedBound'
  BY <1>2, <1>5 DEF PollUser, PollBill, PollRebase, PollWriteFails, PollUnread
<1>6. ASSUME NEW i \in Sweepers, SweepList(i) \/ SweepStep(i) PROVE MovedBound'
  BY <1>2, <1>6 DEF SweepList, SweepStep, SweepActivate, SweepExpire, SweepReset, SweepRelease
<1>7. ASSUME NEW a \in Editors, EditSave(a) \/ EditFails(a) PROVE MovedBound'
  BY <1>2, <1>7 DEF EditSave, EditFails
<1>8. ASSUME NEW a \in Editors, NEW v \in Users, NEW c \in FullEdits, EditRead(a, v, c)
      PROVE  MovedBound'
  BY <1>2, <1>8 DEF EditRead
<1>9. ASSUME NEW v \in Users, NEW c \in ColumnEdits, ColumnUpdate(v, c) PROVE MovedBound'
  BY <1>2, <1>9 DEF ColumnUpdate
<1> QED
  BY <1>3, <1>4, <1>5, <1>6, <1>7, <1>8, <1>9 DEF Next

\* What was billed fits the counters.
LEMMA BilledFits ==
    ASSUME TypeOK, MovedBound, BaselineSound, MaxTraffic <= MaxInt, NEW u \in Users
    PROVE  billed[u] <= MaxInt
<1>1. TrafficDelta(snap[u], counter[u]) \in Nat
  BY DeltaBounds DEF TypeOK
<1>2. billed[u] \in Nat /\ moved[u] \in Nat /\ MaxTraffic \in Nat /\ MaxInt \in Nat
  BY ConstantsAssumption, MaxIntAssumption DEF TypeOK
<1>3. billed[u] + TrafficDelta(snap[u], counter[u]) <= moved[u] /\ moved[u] <= MaxTraffic
  BY DEF BaselineSound, MovedBound
<1> QED
  BY <1>1, <1>2, <1>3

LEMMA LedgerStep ==
    ASSUME TypeOK, TypeOK', OnlyTransactions, TermFreeInv, LedgerInv, [Next]_vars,
           \A u \in Users : billed[u] <= MaxInt /\ billed'[u] <= MaxInt
    PROVE  LedgerInv'
<1> SUFFICES ASSUME NEW u \in Users
             PROVE  db'[u].life \in Nat /\ db'[u].life + db'[u].used = billed'[u]
  BY DEF LedgerInv
<1>0. /\ db[u] \in Rows /\ TermFree(db[u]) /\ db[u].used \in Nat /\ db[u].used <= MaxInt
      /\ db[u].life \in Nat /\ db[u].life + db[u].used = billed[u]
      /\ billed[u] \in Nat /\ MaxInt \in Nat
  BY MaxIntAssumption DEF TypeOK, Rows, Bytes, TermFreeInv, LedgerInv
<1>1. CASE Kept(u)
  BY <1>0, <1>1 DEF Kept, SameLedger
<1>2. CASE Billed(u)
  <2>1. PICK d \in Nat, at \in Time :
          db'[u] = ApplyTraffic(db[u], d, at) /\ billed'[u] = billed[u] + d
    BY <1>2 DEF Billed
  <2>2. db[u].used + d <= MaxInt
    BY <1>0, <2>1
  <2>3. SaturatingAdd(db[u].used, d) = db[u].used + d
    BY <1>0, <2>2 DEF SaturatingAdd
  <2> QED
    BY <1>0, <2>1, <2>3, ApplyTrafficTermFree
<1>3. CASE WasReset(u)
  <2>1. PICK at \in Time : db'[u] = ResetUsage(db[u], at) /\ billed'[u] = billed[u]
    BY <1>3 DEF WasReset
  <2>2. WrappingAdd(db[u].life, db[u].used) = billed[u]
    BY <1>0 DEF WrappingAdd
  <2> QED
    BY <1>0, <2>1, <2>2, ResetUsageTermFree
<1> QED
  BY <1>1, <1>2, <1>3, RowChange

\* With transactional writers only, one metered engine and counters that do not
\* overflow, the row holds exactly what was billed: no crash, restart, failed
\* write or concurrent sweep loses a byte or counts one twice.
THEOREM LedgerExact ==
    ASSUME OnlyTransactions, ~SingboxStats, MaxTraffic <= MaxInt
    PROVE  Spec => []ExactLedger
<1> DEFINE Inv == NoOverbillInv /\ TermFreeInv /\ MovedBound /\ LedgerInv
<1>1. Init => Inv
  <2> SUFFICES ASSUME Init PROVE Inv
    OBVIOUS
  <2>1. NoOverbillInv
    BY TypeInit, BillingInit DEF NoOverbillInv, Init, OneMeter
  <2>2. MovedBound
    BY ConstantsAssumption DEF Init, MovedBound
  <2>3. LedgerInv
    BY ConstantsAssumption DEF Init, LedgerInv
  <2> QED
    BY <2>1, <2>2, <2>3, OnlyTransactions, TermFreeInit
<1>2. Inv /\ [Next]_vars => Inv'
  <2> SUFFICES ASSUME Inv, [Next]_vars PROVE Inv'
    OBVIOUS
  <2>1. NoOverbillInv'
    BY ~SingboxStats, NoOverbillStep
  <2>2. TypeOK /\ TypeOK' /\ BaselineSound /\ BaselineSound'
    BY <2>1 DEF NoOverbillInv
  <2>3. TermFreeInv'
    BY <2>2, OnlyTransactions, TermFreeStep
  <2>4. MovedBound'
    BY <2>2, MovedStep
  <2>5. \A u \in Users : billed[u] <= MaxInt
    BY <2>2, MaxTraffic <= MaxInt, BilledFits
  <2>6. \A u \in Users : billed'[u] <= MaxInt
    <3> SUFFICES ASSUME NEW u \in Users PROVE billed'[u] <= MaxInt
      OBVIOUS
    <3>1. TrafficDelta(snap'[u], counter'[u]) \in Nat
      BY <2>2, DeltaBounds DEF TypeOK
    <3>2. billed'[u] \in Nat /\ moved'[u] \in Nat /\ MaxTraffic \in Nat /\ MaxInt \in Nat
      BY <2>2, ConstantsAssumption, MaxIntAssumption DEF TypeOK
    <3>3. /\ billed'[u] + TrafficDelta(snap'[u], counter'[u]) <= moved'[u]
          /\ moved'[u] <= MaxTraffic
      BY <2>2, <2>4 DEF BaselineSound, MovedBound
    <3> QED
      BY <3>1, <3>2, <3>3, MaxTraffic <= MaxInt
  <2>7. LedgerInv'
    BY <2>2, <2>5, <2>6, OnlyTransactions, LedgerStep
  <2> QED
    BY <2>1, <2>3, <2>4, <2>7
<1>3. Inv => ExactLedger
  BY DEF LedgerInv, ExactLedger
<1> QED
  BY <1>1, <1>2, <1>3, PTL DEF Spec

-----------------------------------------------------------------------------
(***************************************************************************)
(* The status of an account, whole-row saves included: what a step makes   *)
(* of a row (Fate), of a sweeper's copy (Onward) and of an editor's draft  *)
(* (Drafted), and from these who is suspended and who is revived.          *)
(***************************************************************************)

\* What becomes of the row of user u in a step: it is kept, billed, released, changed
\* by one of the sweep's three lifecycle steps, saved whole, or edited.
Fate(u) ==
    \/ db'[u] = db[u]
    \/ \E d \in Nat, at \in Time : db'[u] = ApplyTraffic(db[u], d, at)
    \/ db'[u] = [db[u] EXCEPT !.disc = Nil]
    \/ \E i \in Sweepers :
          \/ SweepReset(i, u) /\ db'[u] = ResetUsage(db[u], sweep[i].at)
          \/ SweepActivate(i, u) /\ db'[u] = ActivateHold(sweep[i].rows[u])
          \/ SweepExpire(i, u) /\ db'[u] = Expire(sweep[i].rows[u])
    \/ \E a \in Editors : EditSave(a) /\ edit[a].user = u /\ db'[u] = edit[a].row
    \/ \E c \in ColumnEdits : ColumnUpdate(u, c) /\ db'[u] = ColumnEdit(c, db[u], now)

LEMMA RowFate ==
    ASSUME TypeOK, [Next]_vars, NEW u \in Users
    PROVE  Fate(u)
<1>0. db \in [Users -> Rows]
  BY DEF TypeOK
<1>1. ASSUME UNCHANGED db PROVE Fate(u)
  BY <1>1 DEF Fate
<1>2. ASSUME NEW v \in Users, NEW row, db' = [db EXCEPT ![v] = row], u # v PROVE Fate(u)
  BY <1>0, <1>2 DEF Fate
<1>3. ASSUME NEW v \in Users, PollBill(v) PROVE Fate(u)
  <2> DEFINE d == TrafficDelta(poll.prev[v], poll.totals[v])
  <2>1. db' = [db EXCEPT ![v] = ApplyTraffic(db[v], d, poll.at)]
    BY <1>3 DEF PollBill
  <2>2. d \in Nat /\ poll.at \in Time
    BY <1>3, PollStateFields DEF PollBill
  <2> HIDE DEF d
  <2>3. CASE u = v
    BY <1>0, <2>1, <2>2, <2>3 DEF Fate
  <2> QED
    BY <1>2, <2>1, <2>3
<1>4. ASSUME NEW i \in Sweepers, NEW v \in Users, SweepReset(i, v) PROVE Fate(u)
  <2>1. UNCHANGED db \/ db' = [db EXCEPT ![v] = ResetUsage(db[v], sweep[i].at)]
    BY <1>4 DEF SweepReset
  <2>2. CASE u = v /\ db' = [db EXCEPT ![v] = ResetUsage(db[v], sweep[i].at)]
    <3>1. db'[u] = ResetUsage(db[u], sweep[i].at)
      BY <1>0, <2>2
    <3> QED
      BY <1>4, <2>2, <3>1 DEF Fate
  <2> QED
    BY <1>1, <1>2, <2>1, <2>2
<1>5. ASSUME NEW i \in Sweepers, NEW v \in Users, SweepActivate(i, v) PROVE Fate(u)
  <2>1. UNCHANGED db \/ db' = [db EXCEPT ![v] = ActivateHold(sweep[i].rows[v])]
    BY <1>5 DEF SweepActivate, SweepSave
  <2>2. CASE u = v /\ db' = [db EXCEPT ![v] = ActivateHold(sweep[i].rows[v])]
    <3>1. db'[u] = ActivateHold(sweep[i].rows[u])
      BY <1>0, <2>2
    <3> QED
      BY <1>5, <2>2, <3>1 DEF Fate
  <2> QED
    BY <1>1, <1>2, <2>1, <2>2
<1>6. ASSUME NEW i \in Sweepers, NEW v \in Users, SweepExpire(i, v) PROVE Fate(u)
  <2>1. UNCHANGED db \/ db' = [db EXCEPT ![v] = Expire(sweep[i].rows[v])]
    BY <1>6 DEF SweepExpire, SweepSave
  <2>2. CASE u = v /\ db' = [db EXCEPT ![v] = Expire(sweep[i].rows[v])]
    <3>1. db'[u] = Expire(sweep[i].rows[u])
      BY <1>0, <2>2
    <3> QED
      BY <1>6, <2>2, <3>1 DEF Fate
  <2> QED
    BY <1>1, <1>2, <2>1, <2>2
<1>7. ASSUME NEW i \in Sweepers, NEW v \in Users, SweepRelease(i, v) PROVE Fate(u)
  <2>1. UNCHANGED db \/ db' = [db EXCEPT ![v] = [db[v] EXCEPT !.disc = Nil]]
    BY <1>7 DEF SweepRelease, SweepSave
  <2>2. CASE u = v /\ db' = [db EXCEPT ![v] = [db[v] EXCEPT !.disc = Nil]]
    <3>1. db'[u] = [db[u] EXCEPT !.disc = Nil]
      BY <1>0, <2>2
    <3> QED
      BY <3>1 DEF Fate
  <2> QED
    BY <1>1, <1>2, <2>1, <2>2
<1>8. ASSUME NEW a \in Editors, EditSave(a) PROVE Fate(u)
  <2>1. edit[a] \in EditStates /\ edit[a].pc = "save"
    BY <1>8 DEF EditSave, TypeOK
  <2>2. edit[a].user \in Users /\ db' = [db EXCEPT ![edit[a].user] = edit[a].row]
    BY <1>8, <2>1 DEF EditSave, EditStates, IdleEdit
  <2>3. CASE u = edit[a].user
    <3>1. db'[u] = edit[a].row
      BY <1>0, <2>2, <2>3
    <3> QED
      BY <1>8, <2>3, <3>1 DEF Fate
  <2> QED
    BY <1>2, <2>2, <2>3
<1>9. ASSUME NEW v \in Users, NEW c \in ColumnEdits, ColumnUpdate(v, c) PROVE Fate(u)
  <2>1. db' = [db EXCEPT ![v] = ColumnEdit(c, db[v], now)]
    BY <1>9 DEF ColumnUpdate
  <2>2. CASE u = v
    <3>1. db'[u] = ColumnEdit(c, db[u], now)
      BY <1>0, <2>1, <2>2
    <3> QED
      BY <1>9, <2>2, <3>1 DEF Fate
  <2> QED
    BY <1>2, <2>1, <2>2
<1>10. ASSUME Tick \/ EngineRestart \/ SbRestart \/ Crash \/ PollStart \/ PollHalf \/ UNCHANGED vars
       PROVE  Fate(u)
  BY <1>1, <1>10 DEF Tick, EngineRestart, SbRestart, Crash, PollStart, PollHalf, PollRead, vars
<1>11. ASSUME NEW v \in Users, Traffic(v) \/ SbTraffic(v) \/ PollRebase(v) \/ PollWriteFails(v) \/ PollUnread(v)
       PROVE  Fate(u)
  BY <1>1, <1>11 DEF Traffic, SbTraffic, PollRebase, PollWriteFails, PollUnread
<1>12. ASSUME NEW i \in Sweepers, SweepList(i) PROVE Fate(u)
  BY <1>1, <1>12 DEF SweepList
<1>13. ASSUME NEW a \in Editors, EditFails(a) \/ \E v \in Users, c \in FullEdits : EditRead(a, v, c)
       PROVE  Fate(u)
  BY <1>1, <1>13 DEF EditFails, EditRead
<1> QED
  BY <1>3, <1>4, <1>5, <1>6, <1>7, <1>8, <1>9, <1>10, <1>11, <1>12, <1>13
     DEF Next, PollUser, SweepStep

\* What a sweeper that is at work moves to: its copy and its instant are the given
\* ones, and in the first pass it has nobody left to do that it was not given.
LEMMA ToUsersKeeps ==
    ASSUME NEW rows \in [Users -> Rows], NEW at \in Time, NEW todo \in SUBSET Users
    PROVE  LET t == ToUsers(rows, at, todo) IN
           /\ t.pc # "idle" => t.rows = rows /\ t.at = at
           /\ t.pc = "users" => t.todo \subseteq todo
<1> DEFINE due == {u \in todo : LifecycleDue(rows[u], at)}
           rel == {u \in Users : ReleaseDue(rows[u], at)}
<1>1. due \in SUBSET todo
  OBVIOUS
<1> HIDE DEF due, rel
<1>2. \/ ToUsers(rows, at, todo) = [pc |-> "users", rows |-> rows, at |-> at, todo |-> due]
      \/ ToUsers(rows, at, todo) = [pc |-> "release", rows |-> rows, at |-> at, todo |-> rel]
      \/ ToUsers(rows, at, todo) = [pc |-> "idle"]
  BY DEF ToUsers, ToRelease, IdleSweep, due, rel
<1> QED
  BY <1>1, <1>2

\* How a sweeper's state changes in a step: not at all, to the end, or it lists the
\* table, or goes on with its copy, of which it has changed only the row it dealt with.
Onward(i) ==
    \/ sweep'[i] = sweep[i]
    \/ sweep'[i].pc = "idle"
    \/ /\ sweep'[i].at = now
       /\ sweep'[i].rows = db
       /\ sweep[i] = IdleSweep /\ UNCHANGED <<db, edit>>
    \/ /\ sweep[i].pc # "idle" /\ sweep'[i].at = sweep[i].at
       /\ sweep'[i].pc = "users" => sweep[i].pc = "users" /\ sweep'[i].todo \subseteq sweep[i].todo
       /\ \/ sweep'[i].rows = sweep[i].rows
          \/ \E v \in Users : sweep'[i].rows \in
                {[sweep[i].rows EXCEPT ![v] = ActivateHold(sweep[i].rows[v])],
                 [sweep[i].rows EXCEPT ![v] = Expire(sweep[i].rows[v])]}

LEMMA SweepOnward ==
    ASSUME TypeOK, [Next]_vars, NEW j \in Sweepers
    PROVE  Onward(j)
<1>0. sweep \in [Sweepers -> SweepStates] /\ db \in [Users -> Rows] /\ now \in Time
  BY DEF TypeOK
<1>1. ASSUME UNCHANGED sweep PROVE Onward(j)
  BY <1>1 DEF Onward
<1>2. ASSUME NEW i \in Sweepers, NEW t, sweep' = [sweep EXCEPT ![i] = t], i # j PROVE Onward(j)
  BY <1>0, <1>2 DEF Onward
<1>3. ASSUME SweepList(j) PROVE Onward(j)
  <2>1. /\ sweep'[j] = ToUsers(db, now, Users) /\ ToUsers(db, now, Users) # IdleSweep
        /\ sweep[j] = IdleSweep /\ UNCHANGED <<db, edit>>
    BY <1>0, <1>3 DEF SweepList
  <2>2. LET t == ToUsers(db, now, Users) IN t.pc # "idle" => t.rows = db /\ t.at = now
    BY <1>0, ToUsersKeeps
  <2> QED
    BY <2>1, <2>2 DEF Onward
<1>4. ASSUME NEW v \in Users, SweepActivate(j, v) \/ SweepExpire(j, v) \/ SweepReset(j, v)
      PROVE  Onward(j)
  <2> DEFINE s == sweep[j]
             up == [s.rows EXCEPT ![v] = ActivateHold(s.rows[v])]
             down == [s.rows EXCEPT ![v] = Expire(s.rows[v])]
  <2>1. s \in SweepStates /\ s.pc = "users"
    BY <1>0, <1>4 DEF SweepActivate, SweepExpire, SweepReset
  <2>2. s.rows \in [Users -> Rows] /\ s.at \in Time /\ s.todo \in SUBSET Users
    BY <2>1, SweepStateFields
  <2>3. /\ SweepActivate(j, v) => up \in [Users -> Rows]
        /\ down \in [Users -> Rows]
    BY <2>2, LifecycleRow DEF SweepActivate, HoldStarted
  <2>4. ASSUME NEW rows \in [Users -> Rows], rows \in {s.rows, up, down},
               NEW todo \in SUBSET Users, todo \subseteq s.todo,
               sweep' = [sweep EXCEPT ![j] = ToUsers(rows, s.at, todo)]
        PROVE  Onward(j)
    <3>1. LET t == ToUsers(rows, s.at, todo) IN
             /\ t.pc # "idle" => t.rows = rows /\ t.at = s.at
             /\ t.pc = "users" => t.todo \subseteq todo
      BY <2>2, ToUsersKeeps
    <3>2. sweep'[j] = ToUsers(rows, s.at, todo)
      BY <1>0, <2>4
    <3> QED
      BY <2>1, <2>4, <3>1, <3>2 DEF Onward
  <2>5. CASE SweepActivate(j, v)
    <3>1. sweep' = [sweep EXCEPT ![j] = ToUsers(up, s.at, s.todo)]
      BY <2>5 DEF SweepActivate
    <3> HIDE DEF s, up, down
    <3> QED
      BY <2>2, <2>3, <2>4, <2>5, <3>1
  <2>6. CASE SweepExpire(j, v)
    <3>1. sweep' = [sweep EXCEPT ![j] = ToUsers(down, s.at, s.todo \ {v})]
      BY <2>6 DEF SweepExpire
    <3> HIDE DEF s, up, down
    <3> QED
      BY <2>2, <2>3, <2>4, <3>1
  <2>7. CASE SweepReset(j, v)
    <3>1. sweep' = [sweep EXCEPT ![j] = ToUsers(s.rows, s.at, s.todo \ {v})]
      BY <2>7 DEF SweepReset
    <3> HIDE DEF s, up, down
    <3> QED
      BY <2>2, <2>4, <3>1
  <2> QED
    BY <1>4, <2>5, <2>6, <2>7
<1>5. ASSUME NEW v \in Users, SweepRelease(j, v) PROVE Onward(j)
  <2> DEFINE s == sweep[j]
             t == IF s.todo = {v} THEN IdleSweep ELSE [s EXCEPT !.todo = @ \ {v}]
  <2>1. s \in SweepStates /\ s.pc = "release" /\ sweep'[j] = t
    BY <1>0, <1>5 DEF SweepRelease
  <2>2. t.pc = "idle" \/ (t.pc = "release" /\ t.rows = s.rows /\ t.at = s.at)
    BY <2>1 DEF SweepStates, IdleSweep
  <2> HIDE DEF t
  <2> QED
    BY <2>1, <2>2 DEF Onward
<1>6. ASSUME NEW i \in Sweepers, SweepList(i) \/ SweepStep(i) PROVE Onward(j)
  <2>1. CASE i = j
    BY <1>3, <1>4, <1>5, <1>6, <2>1 DEF SweepStep
  <2>2. CASE i # j
    <3>1. \E t : sweep' = [sweep EXCEPT ![i] = t]
      BY <1>6 DEF SweepList, SweepStep, SweepActivate, SweepExpire, SweepReset, SweepRelease
    <3> QED
      BY <1>2, <2>2, <3>1
  <2> QED
    BY <2>1, <2>2
<1>7. ASSUME Crash PROVE Onward(j)
  BY <1>7 DEF Crash, IdleSweep, Onward
<1>8. ASSUME Tick \/ EngineRestart \/ SbRestart \/ PollStart \/ PollHalf \/ UNCHANGED vars
      PROVE  Onward(j)
  BY <1>1, <1>8 DEF Tick, EngineRestart, SbRestart, PollStart, PollHalf, PollRead, vars
<1>9. ASSUME NEW v \in Users, Traffic(v) \/ SbTraffic(v) \/ PollUser(v) \/ PollWriteFails(v) \/ PollUnread(v)
      PROVE  Onward(j)
  BY <1>1, <1>9 DEF Traffic, SbTraffic, PollUser, PollBill, PollRebase, PollWriteFails, PollUnread
<1>10. ASSUME NEW v \in Users, NEW c \in ColumnEdits, ColumnUpdate(v, c) PROVE Onward(j)
  BY <1>1, <1>10 DEF ColumnUpdate
<1>11. ASSUME NEW a \in Editors, \/ EditSave(a) \/ EditFails(a)
                                 \/ \E v \in Users, c \in FullEdits : EditRead(a, v, c)
       PROVE  Onward(j)
  BY <1>1, <1>11 DEF EditSave, EditFails, EditRead
<1> QED
  BY <1>6, <1>7, <1>8, <1>9, <1>10, <1>11 DEF Next

-----------------------------------------------------------------------------
(* No job leaves a suspension that nothing justifies *)

\* At instant t, a row that is suspended for its quota has a reason to be.
Limited(r, t) == ~Unwarranted(r, t)

\* A sweep works from the past.
SweepInPast == \A i \in Sweepers : sweep[i].pc # "idle" => sweep[i].at <= now

\* A reason does not go away by waiting, nor by moving more bytes.
LEMMA LimitedLater ==
    ASSUME NEW r \in Rows, NEW t \in Time, NEW s \in Time, t <= s, Limited(r, t)
    PROVE  Limited(r, s)
<1>1. r.expire \in OptTime
  BY DEF Rows
<1> QED
  BY <1>1 DEF Limited, Unwarranted, OptTime, Time, Nil

LEMMA ApplyTrafficLimited ==
    ASSUME NEW r \in Rows, NEW d \in Nat, NEW at \in Time, NEW t \in Time, Limited(r, t)
    PROVE  Limited(ApplyTraffic(r, d, at), t)
<1> DEFINE us == SaturatingAdd(r.used, d)
           q  == ApplyTraffic(r, d, at)
<1>1. r.used \in Bytes /\ r.limit \in Nat
  BY DEF Rows
<1>2. us \in Nat /\ us >= r.used
  BY <1>1, MaxIntAssumption DEF SaturatingAdd, Bytes
<1>3. OverLimit([r EXCEPT !.used = us]) <=> (r.limit > 0 /\ us >= r.limit)
  BY DEF OverLimit, Rows
<1>4. /\ q.used = us /\ q.limit = r.limit /\ q.expire = r.expire
      /\ q.status = IF r.status = "active" /\ OverLimit([r EXCEPT !.used = us])
                    THEN "limited" ELSE r.status
  BY DEF ApplyTraffic, Rows
<1> HIDE DEF us, q
<1>5. r.used \in Nat
  BY <1>1, MaxIntAssumption DEF Bytes
<1> QED
  BY <1>1, <1>2, <1>3, <1>4, <1>5 DEF Limited, Unwarranted, OverLimit, q

LEMMA ResetUsageLimited ==
    ASSUME NEW r \in Rows, NEW at \in Time, NEW t \in Time, at <= t
    PROVE  Limited(ResetUsage(r, at), t)
<1> DEFINE q == ResetUsage(r, at)
<1>1. r.expire \in OptTime
  BY DEF Rows
<1>2. /\ q.expire = r.expire
      /\ q.status = IF r.status = "limited" /\ (r.expire = Nil \/ at < r.expire)
                    THEN "active" ELSE r.status
  BY DEF ResetUsage, Rows
<1> HIDE DEF q
<1>3. q.status = "limited" => q.expire # Nil /\ t >= q.expire
  BY <1>1, <1>2 DEF OptTime, Time, Nil
<1> QED
  BY <1>3 DEF Limited, Unwarranted, q

\* The sweep's whole-row saves suspend nobody; a hold that is lifted changes neither
\* cap nor term.
LEMMA LifecycleLimited ==
    ASSUME NEW r \in Rows, NEW t \in Time
    PROVE  /\ Limited(ActivateHold(r), t)
           /\ Limited(Expire(r), t)
           /\ Limited(r, t) => Limited([r EXCEPT !.disc = Nil], t)
BY DEF Limited, Unwarranted, ActivateHold, Expire, OverLimit, Rows

\* What becomes of an editor: it keeps what it was about to save, has read a row
\* of the table as it stands, or has nothing to save.
Drafted(a) ==
    \/ edit'[a] = edit[a]
    \/ edit'[a].pc # "save"
    \/ \E u \in Users, c \in FullEdits :
          /\ edit'[a] = [pc |-> "save", user |-> u, row |-> FullEdit(c, db[u], now)]
          /\ UNCHANGED <<now, db, sweep>>

LEMMA EditDrafted ==
    ASSUME TypeOK, [Next]_vars, NEW b \in Editors
    PROVE  Drafted(b)
<1>0. edit \in [Editors -> EditStates]
  BY DEF TypeOK
<1>1. ASSUME UNCHANGED edit PROVE Drafted(b)
  BY <1>1 DEF Drafted
<1>2. ASSUME NEW a \in Editors, NEW e, edit' = [edit EXCEPT ![a] = e], a # b PROVE Drafted(b)
  BY <1>0, <1>2 DEF Drafted
<1>3. ASSUME NEW a \in Editors, NEW u \in Users, NEW c \in FullEdits, EditRead(a, u, c)
      PROVE  Drafted(b)
  <2>1. CASE a = b
    BY <1>0, <1>3, <2>1 DEF EditRead, Drafted
  <2>2. CASE a # b
    <3>1. \E e : edit' = [edit EXCEPT ![a] = e]
      BY <1>3 DEF EditRead
    <3> QED
      BY <1>2, <2>2, <3>1
  <2> QED
    BY <2>1, <2>2
<1>4. ASSUME NEW a \in Editors, EditSave(a) \/ EditFails(a) PROVE Drafted(b)
  <2>1. edit' = [edit EXCEPT ![a] = IdleEdit]
    BY <1>4 DEF EditSave, EditFails
  <2> QED
    BY <1>0, <2>1 DEF Drafted, IdleEdit
<1>5. ASSUME Crash PROVE Drafted(b)
  BY <1>5 DEF Crash, Drafted, IdleEdit
<1>6. ASSUME Tick \/ EngineRestart \/ SbRestart \/ PollStart \/ PollHalf \/ UNCHANGED vars
      PROVE  Drafted(b)
  BY <1>1, <1>6 DEF Tick, EngineRestart, SbRestart, PollStart, PollHalf, PollRead, vars
<1>7. ASSUME NEW v \in Users, Traffic(v) \/ SbTraffic(v) \/ PollUser(v) \/ PollWriteFails(v) \/ PollUnread(v)
      PROVE  Drafted(b)
  BY <1>1, <1>7 DEF Traffic, SbTraffic, PollUser, PollBill, PollRebase, PollWriteFails, PollUnread
<1>8. ASSUME NEW i \in Sweepers, SweepList(i) \/ SweepStep(i) PROVE Drafted(b)
  BY <1>1, <1>8
     DEF SweepList, SweepStep, SweepActivate, SweepExpire, SweepReset, SweepRelease
<1>9. ASSUME NEW v \in Users, NEW c \in ColumnEdits, ColumnUpdate(v, c) PROVE Drafted(b)
  BY <1>1, <1>9 DEF ColumnUpdate
<1> QED
  BY <1>3, <1>4, <1>5, <1>6, <1>7, <1>8, <1>9 DEF Next

\* The clock does not run backwards.
LEMMA TimeGoesOn ==
    ASSUME TypeOK, [Next]_vars
    PROVE  now' \in Time /\ now <= now'
<1>1. now \in Time
  BY DEF TypeOK
<1>2. CASE Tick
  BY <1>1, <1>2 DEF Tick, Time
<1>3. CASE UNCHANGED now
  BY <1>1, <1>3 DEF Time
<1>4. Tick \/ UNCHANGED now
  <2>1. ASSUME NEW u \in Users, Traffic(u) \/ SbTraffic(u) \/ PollUser(u) \/ PollWriteFails(u) \/ PollUnread(u)
        PROVE  UNCHANGED now
    BY <2>1 DEF Traffic, SbTraffic, PollUser, PollBill, PollRebase, PollWriteFails, PollUnread
  <2>2. ASSUME NEW i \in Sweepers, SweepList(i) \/ SweepStep(i) PROVE UNCHANGED now
    BY <2>2 DEF SweepList, SweepStep, SweepActivate, SweepExpire, SweepReset, SweepRelease
  <2>3. ASSUME NEW a \in Editors, \/ EditSave(a) \/ EditFails(a)
                                  \/ \E u \in Users, c \in FullEdits : EditRead(a, u, c)
        PROVE  UNCHANGED now
    BY <2>3 DEF EditSave, EditFails, EditRead
  <2>4. ASSUME NEW u \in Users, NEW c \in ColumnEdits, ColumnUpdate(u, c) PROVE UNCHANGED now
    BY <2>4 DEF ColumnUpdate
  <2>5. ASSUME EngineRestart \/ SbRestart \/ Crash \/ PollStart \/ PollHalf \/ UNCHANGED vars
        PROVE  UNCHANGED now
    BY <2>5 DEF EngineRestart, SbRestart, Crash, PollStart, PollHalf, PollRead, vars
  <2> QED
    BY <2>1, <2>2, <2>3, <2>4, <2>5 DEF Next
<1> QED
  BY <1>2, <1>3, <1>4

LEMMA SweepInPastStep ==
    ASSUME TypeOK, SweepInPast, [Next]_vars
    PROVE  SweepInPast'
<1>0. sweep \in [Sweepers -> SweepStates] /\ now \in Time
  BY DEF TypeOK
<1>1. now' \in Time /\ now <= now'
  BY TimeGoesOn
<1>2. ASSUME NEW i \in Sweepers, sweep'[i].pc # "idle" PROVE sweep'[i].at <= now'
  <2>1. CASE \/ sweep'[i] = sweep[i]
             \/ sweep[i].pc # "idle" /\ sweep'[i].at = sweep[i].at
    <3>1. sweep[i] \in SweepStates /\ sweep[i].pc # "idle" /\ sweep'[i].at = sweep[i].at
      BY <1>0, <1>2, <2>1
    <3>2. sweep[i].at \in Time /\ sweep[i].at <= now
      BY <3>1, SweepStateFields DEF SweepInPast
    <3> QED
      BY <1>0, <1>1, <3>1, <3>2 DEF Time
  <2>2. CASE sweep'[i].at = now
    BY <1>1, <2>2
  <2> QED
    BY <1>2, <2>1, <2>2, SweepOnward DEF Onward
<1> QED
  BY <1>2 DEF SweepInPast

\* The step in which a suspension loses its reason is an administrator's.
LEMMA LimitStep ==
    ASSUME TypeOK, SweepInPast, [Next]_vars, NEW u \in Users,
           Limited(db[u], now), ~Limited(db'[u], now')
    PROVE  \/ \E a \in Editors : EditSave(a)
           \/ \E c \in ColumnEdits : ColumnUpdate(u, c)
<1>0. /\ db[u] \in Rows /\ now \in Time /\ sweep \in [Sweepers -> SweepStates]
  BY DEF TypeOK
<1>1. now' \in Time /\ now <= now'
  BY TimeGoesOn
<1>2. Limited(db[u], now')
  BY <1>0, <1>1, LimitedLater
<1>3. CASE db'[u] = db[u]
  BY <1>2, <1>3
<1>4. CASE \E d \in Nat, at \in Time : db'[u] = ApplyTraffic(db[u], d, at)
  BY <1>0, <1>1, <1>2, <1>4, ApplyTrafficLimited
<1>5. CASE db'[u] = [db[u] EXCEPT !.disc = Nil]
  BY <1>0, <1>1, <1>2, <1>5, LifecycleLimited
<1>6. ASSUME NEW i \in Sweepers, SweepReset(i, u), db'[u] = ResetUsage(db[u], sweep[i].at)
      PROVE  FALSE
  <2>1. sweep[i] \in SweepStates /\ sweep[i].pc = "users"
    BY <1>0, <1>6 DEF SweepReset
  <2>2. sweep[i].at \in Time /\ sweep[i].at <= now
    BY <2>1, SweepStateFields DEF SweepInPast
  <2>3. sweep[i].at <= now'
    BY <1>0, <1>1, <2>2 DEF Time
  <2> QED
    BY <1>0, <1>1, <1>6, <2>2, <2>3, ResetUsageLimited
<1>7. ASSUME NEW i \in Sweepers, SweepActivate(i, u) \/ SweepExpire(i, u),
             db'[u] \in {ActivateHold(sweep[i].rows[u]), Expire(sweep[i].rows[u])}
      PROVE  FALSE
  <2>1. sweep[i] \in SweepStates /\ sweep[i].pc = "users"
    BY <1>0, <1>7 DEF SweepActivate, SweepExpire
  <2>2. sweep[i].rows[u] \in Rows
    BY <2>1, SweepStateFields
  <2>3. /\ Limited(ActivateHold(sweep[i].rows[u]), now')
        /\ Limited(Expire(sweep[i].rows[u]), now')
    BY <1>1, <2>2, LifecycleLimited
  <2> QED
    BY <1>7, <2>3
<1>8. Fate(u)
  BY RowFate
<1> QED
  BY <1>3, <1>4, <1>5, <1>6, <1>7, <1>8 DEF Fate

\* However the accounting job, the sweeps of several panels, handlers and stale
\* whole-row saves interleave, only an administrator's edit leaves an account
\* suspended for a quota it has not used up, with its term still running.
THEOREM JobsSuspendFairly == Spec => SuspensionWarranted
<1> DEFINE Fair == \A u \in Users :
              ~Unwarranted(db[u], now) /\ Unwarranted(db'[u], now') =>
                  \/ \E a \in Editors : EditSave(a)
                  \/ \E c \in ColumnEdits : ColumnUpdate(u, c)
<1>1. Init => TypeOK /\ SweepInPast
  BY TypeInit DEF Init, SweepInPast, IdleSweep
<1>2. TypeOK /\ SweepInPast /\ [Next]_vars => TypeOK' /\ SweepInPast'
  BY TypeStep, SweepInPastStep
<1>3. TypeOK /\ SweepInPast /\ [Next]_vars => Fair
  BY LimitStep DEF Limited
<1>4. SuspensionWarranted <=> [][Fair]_vars
  BY DEF SuspensionWarranted
<1> QED
  BY <1>1, <1>2, <1>3, <1>4, PTL DEF Spec

-----------------------------------------------------------------------------
(* Expired stays expired *)

\* One panel on this database, and one handler that saves whole rows at a time.
SinglePanel ==
    /\ \A i, j \in Sweepers : i = j
    /\ \A a, b \in Editors : a = b

Expired(r) == r.status = "expired"

\* The sweep is about to end the hold of u, going by its copy.
Waking(i, u) ==
    sweep[i].pc = "users" /\ u \in sweep[i].todo /\ HoldStarted(sweep[i].rows[u])

\* No sweep is about to end the hold of an account that has expired, or that a
\* pending save is going to make expired again, as long as nobody set its status
\* by hand meanwhile.
RevivalInv ==
    /\ \A u \in Users \ raced, i \in Sweepers : Expired(db[u]) => ~Waking(i, u)
    /\ \A u \in Users \ raced, a \in Editors :
          edit[a].pc = "save" /\ edit[a].user = u /\ Expired(edit[a].row) =>
              /\ db[u].status # "on_hold"
              /\ \A i \in Sweepers : ~Waking(i, u)

\* Billing, a reset and a lifted disconnect leave an account expired, or on hold, or
\* neither, as they found it.
LEMMA StandingKept ==
    ASSUME NEW r \in Rows, NEW at \in Time
    PROVE  \A st \in {"expired", "on_hold"} :
              /\ \A d \in Nat : ApplyTraffic(r, d, at).status = st <=> r.status = st
              /\ ResetUsage(r, at).status = st <=> r.status = st
              /\ [r EXCEPT !.disc = Nil].status = st <=> r.status = st
<1>1. \A d \in Nat : ApplyTraffic(r, d, at).status \in
         IF r.status = "active" THEN {"active", "limited"} ELSE {r.status}
  BY DEF ApplyTraffic, Rows
<1>2. ResetUsage(r, at).status \in
         IF r.status = "limited" THEN {"active", "limited"} ELSE {r.status}
  BY DEF ResetUsage, Rows
<1>3. [r EXCEPT !.disc = Nil].status = r.status
  BY DEF Rows
<1> QED
  BY <1>1, <1>2, <1>3

\* A command makes nobody expired, and a request sets the status it names.
LEMMA EditedStanding ==
    ASSUME NEW r \in Rows, NEW at \in Time
    PROVE  /\ \A c \in Commands : Expired(FullEdit(c, r, at)) => Expired(r)
           /\ \A c \in Requests : ColumnEdit(c, r, at).status =
                 IF "status" \in c.cols THEN c.row.status ELSE r.status
<1>1. ASSUME NEW c \in Commands PROVE Expired(FullEdit(c, r, at)) => Expired(r)
  <2>1. FullEdit(c, r, at).status \in {r.status, "active", "disabled"}
    <3>1. CASE c.op \in {"activate", "disable", "reset", "extend"}
      BY <3>1 DEF FullEdit, Rows
    <3>2. CASE c.op = "limit"
      BY <3>2 DEF FullEdit, Rows
    <3>3. CASE c.op \notin {"activate", "disable", "reset", "limit", "extend"}
      BY <3>3 DEF FullEdit
    <3> QED
      BY <3>1, <3>2, <3>3
  <2> QED
    BY <2>1 DEF Expired
<1>2. ASSUME NEW c \in Requests
      PROVE  ColumnEdit(c, r, at).status = IF "status" \in c.cols THEN c.row.status ELSE r.status
  BY DEF ColumnEdit, Rows
<1> QED
  BY <1>1, <1>2

\* Who was edited by hand under a copy in use is remembered.
LEMMA RacedGrows ==
    ASSUME [Next]_vars
    PROVE  raced \subseteq raced'
<1>1. ASSUME NEW u \in Users, Traffic(u) \/ SbTraffic(u) \/ PollUser(u) \/ PollWriteFails(u) \/ PollUnread(u)
      PROVE  UNCHANGED raced
  BY <1>1 DEF Traffic, SbTraffic, PollUser, PollBill, PollRebase, PollWriteFails, PollUnread
<1>2. ASSUME NEW i \in Sweepers, SweepList(i) \/ SweepStep(i) PROVE UNCHANGED raced
  BY <1>2 DEF SweepList, SweepStep, SweepActivate, SweepExpire, SweepReset, SweepRelease
<1>3. ASSUME NEW a \in Editors, \/ EditSave(a) \/ EditFails(a)
                                \/ \E u \in Users, c \in FullEdits : EditRead(a, u, c)
      PROVE  UNCHANGED raced
  BY <1>3 DEF EditSave, EditFails, EditRead
<1>4. ASSUME NEW u \in Users, NEW c \in ColumnEdits, ColumnUpdate(u, c) PROVE raced \subseteq raced'
  BY <1>4 DEF ColumnUpdate
<1>5. ASSUME Tick \/ EngineRestart \/ SbRestart \/ Crash \/ PollStart \/ PollHalf \/ UNCHANGED vars
      PROVE  UNCHANGED raced
  BY <1>5 DEF Tick, EngineRestart, SbRestart, Crash, PollStart, PollHalf, PollRead, vars
<1> QED
  BY <1>1, <1>2, <1>3, <1>4, <1>5 DEF Next

\* Where a request makes an account expired or on hold and it is not so remembered,
\* nobody works from a copy of the row.
LEMMA EditAlone ==
    ASSUME TypeOK, NEW u \in Users \ raced', NEW c \in ColumnEdits, ColumnUpdate(u, c),
           NEW st \in {"expired", "on_hold"}, db'[u].status = st, db[u].status # st
    PROVE  ~CopyInUse
<1>1. db \in [Users -> Rows] /\ now \in Time
  BY DEF TypeOK
<1>2. c \in Requests /\ db'[u] = ColumnEdit(c, db[u], now)
  BY <1>1, ConstantsAssumption DEF ColumnUpdate
<1>3. "status" \in c.cols /\ c.row.status = st
  BY <1>1, <1>2, EditedStanding
<1> QED
  BY <1>3 DEF ColumnUpdate

\* A sweep that is about to end a hold was so before this step, or has just listed
\* the table and found the hold there.
LEMMA WokenBefore ==
    ASSUME TypeOK, [Next]_vars, NEW i \in Sweepers, NEW u \in Users,
           sweep'[i].pc = "users", u \in sweep'[i].todo, HoldStarted(sweep'[i].rows[u])
    PROVE  \/ Waking(i, u)
           \/ db[u].status = "on_hold" /\ UNCHANGED <<db, edit>>
<1>0. sweep \in [Sweepers -> SweepStates]
  BY DEF TypeOK
<1>1. CASE sweep'[i] = sweep[i]
  BY <1>1 DEF Waking
<1>2. CASE sweep'[i].rows = db /\ UNCHANGED <<db, edit>>
  BY <1>2 DEF HoldStarted
<1>3. ASSUME sweep[i].pc # "idle", sweep[i].pc = "users", sweep'[i].todo \subseteq sweep[i].todo,
             NEW v \in Users,
             sweep'[i].rows \in {sweep[i].rows,
                                 [sweep[i].rows EXCEPT ![v] = ActivateHold(sweep[i].rows[v])],
                                 [sweep[i].rows EXCEPT ![v] = Expire(sweep[i].rows[v])]}
      PROVE  Waking(i, u)
  <2>1. sweep[i].rows \in [Users -> Rows]
    BY <1>0, <1>3, SweepStateFields
  <2>2. ~HoldStarted(ActivateHold(sweep[i].rows[v])) /\ ~HoldStarted(Expire(sweep[i].rows[v]))
    BY <2>1 DEF HoldStarted, ActivateHold, Expire, Rows
  <2>3. sweep'[i].rows[u] = sweep[i].rows[u] \/ ~HoldStarted(sweep'[i].rows[u])
    BY <1>3, <2>1, <2>2
  <2> QED
    BY <1>3, <2>3 DEF Waking
<1> QED
  BY <1>1, <1>2, <1>3, SweepOnward DEF Onward

LEMMA RevivalStep ==
    ASSUME SinglePanel, TypeOK, RevivalInv, [Next]_vars
    PROVE  RevivalInv'
<1>0. /\ db \in [Users -> Rows] /\ now \in Time
      /\ sweep \in [Sweepers -> SweepStates] /\ edit \in [Editors -> EditStates]
  BY DEF TypeOK
<1>1. \A i \in Sweepers : sweep[i].pc = "users" =>
         sweep[i].at \in Time /\ sweep[i].rows \in [Users -> Rows]
  BY <1>0, SweepStateFields
<1>1a. raced \subseteq raced'
  BY RacedGrows
\* An account that is expired after the step was so, or a sweep expires it, or a
\* pending save makes it so.
<1>2. ASSUME NEW u \in Users \ raced', Expired(db'[u]), ~Expired(db[u]), NEW i \in Sweepers
      PROVE  ~Waking(i, u)
  <2>1. db'[u] # db[u]
    BY <1>2
  <2>2. CASE \E d \in Nat, at \in Time : db'[u] = ApplyTraffic(db[u], d, at)
    BY <1>0, <1>2, <2>2, StandingKept DEF Expired
  <2>3. CASE db'[u] = [db[u] EXCEPT !.disc = Nil]
    BY <1>0, <1>2, <2>3, StandingKept DEF Expired, Time
  <2>4. ASSUME NEW j \in Sweepers, SweepReset(j, u), db'[u] = ResetUsage(db[u], sweep[j].at)
        PROVE  FALSE
    BY <1>0, <1>1, <1>2, <2>4, StandingKept DEF Expired, SweepReset
  <2>5. ASSUME NEW j \in Sweepers, SweepActivate(j, u), db'[u] = ActivateHold(sweep[j].rows[u])
        PROVE  FALSE
    BY <1>1, <1>2, <2>5 DEF SweepActivate, Expired, ActivateHold, Rows
  <2>6. ASSUME NEW j \in Sweepers, SweepExpire(j, u) PROVE ~Waking(i, u)
    BY <2>6 DEF SinglePanel, SweepExpire, Waking
  <2>7. ASSUME NEW a \in Editors, EditSave(a), edit[a].user = u, db'[u] = edit[a].row
        PROVE  ~Waking(i, u)
    BY <1>2, <2>7 DEF RevivalInv, EditSave
  <2>8. ASSUME NEW c \in ColumnEdits, ColumnUpdate(u, c) PROVE ~Waking(i, u)
    <3>1. ~CopyInUse
      BY <1>2, <2>8, EditAlone DEF Expired
    <3> QED
      BY <3>1 DEF CopyInUse, Waking, IdleSweep
  <2>9. Fate(u)
    BY RowFate
  <2> QED
    BY <2>1, <2>2, <2>3, <2>4, <2>5, <2>6, <2>7, <2>8, <2>9 DEF Fate
<1>3. ASSUME NEW u \in Users \ raced', NEW i \in Sweepers, Expired(db'[u]),
             sweep'[i].pc = "users", u \in sweep'[i].todo, HoldStarted(sweep'[i].rows[u])
      PROVE  FALSE
  <2>1. CASE Waking(i, u)
    BY <1>1a, <1>2, <1>3, <2>1 DEF RevivalInv
  <2>2. CASE db[u].status = "on_hold" /\ UNCHANGED <<db, edit>>
    BY <1>3, <2>2 DEF Expired
  <2> QED
    BY <1>3, <2>1, <2>2, WokenBefore
\* A save that stays pending was not overtaken by another editor.
<1>4. ASSUME NEW u \in Users \ raced', NEW a \in Editors, edit[a].pc = "save", edit'[a] = edit[a],
             db[u].status # "on_hold"
      PROVE  db'[u].status # "on_hold"
  <2>1. CASE db'[u] = db[u]
    BY <1>4, <2>1
  <2>2. CASE \E d \in Nat, at \in Time : db'[u] = ApplyTraffic(db[u], d, at)
    BY <1>0, <1>4, <2>2, StandingKept
  <2>3. CASE db'[u] = [db[u] EXCEPT !.disc = Nil]
    BY <1>0, <1>4, <2>3, StandingKept DEF Time
  <2>4. ASSUME NEW j \in Sweepers, SweepReset(j, u), db'[u] = ResetUsage(db[u], sweep[j].at)
        PROVE  db'[u].status # "on_hold"
    BY <1>0, <1>1, <1>4, <2>4, StandingKept DEF SweepReset
  <2>5. ASSUME NEW j \in Sweepers, SweepActivate(j, u) \/ SweepExpire(j, u),
               db'[u] \in {ActivateHold(sweep[j].rows[u]), Expire(sweep[j].rows[u])}
        PROVE  db'[u].status # "on_hold"
    <3>1. sweep[j].rows[u] \in Rows
      BY <1>1, <2>5 DEF SweepActivate, SweepExpire
    <3> QED
      BY <2>5, <3>1 DEF ActivateHold, Expire, Rows
  <2>6. ASSUME NEW b \in Editors, EditSave(b) PROVE FALSE
    <3>1. a = b
      BY DEF SinglePanel
    <3> QED
      BY <1>0, <1>4, <2>6, <3>1 DEF EditSave, IdleEdit
  <2>7. ASSUME NEW c \in ColumnEdits, ColumnUpdate(u, c)
        PROVE  db'[u].status # "on_hold"
    <3>1. CopyInUse
      BY <1>4 DEF CopyInUse, IdleEdit
    <3> QED
      BY <1>4, <2>7, <3>1, EditAlone
  <2>8. Fate(u)
    BY RowFate
  <2> QED
    BY <2>1, <2>2, <2>3, <2>4, <2>5, <2>6, <2>7, <2>8 DEF Fate
<1>5. ASSUME NEW u \in Users \ raced', NEW a \in Editors,
             edit'[a].pc = "save", edit'[a].user = u, Expired(edit'[a].row)
      PROVE  /\ db'[u].status # "on_hold"
             /\ \A i \in Sweepers :
                   ~(/\ sweep'[i].pc = "users" /\ u \in sweep'[i].todo
                     /\ HoldStarted(sweep'[i].rows[u]))
  <2>1. CASE edit'[a] = edit[a]
    <3>1. edit[a].pc = "save" /\ db[u].status # "on_hold" /\ \A i \in Sweepers : ~Waking(i, u)
      BY <1>1a, <1>5, <2>1 DEF RevivalInv
    <3> QED
      BY <1>4, <2>1, <3>1, WokenBefore
  <2>2. ASSUME NEW v \in Users, NEW c \in FullEdits, UNCHANGED <<now, db, sweep>>,
               edit'[a] = [pc |-> "save", user |-> v, row |-> FullEdit(c, db[v], now)]
        PROVE  /\ db'[u].status # "on_hold"
               /\ \A i \in Sweepers :
                     ~(/\ sweep'[i].pc = "users" /\ u \in sweep'[i].todo
                       /\ HoldStarted(sweep'[i].rows[u]))
    <3>1. u = v /\ Expired(FullEdit(c, db[u], now))
      BY <1>5, <2>2
    <3>2. Expired(db[u])
      BY <1>0, <3>1, EditedStanding, ConstantsAssumption
    <3> QED
      BY <1>1a, <2>2, <3>2 DEF RevivalInv, Waking, Expired
  <2> QED
    BY <1>5, <2>1, <2>2, EditDrafted DEF Drafted
<1> QED
  BY <1>3, <1>5 DEF RevivalInv, Waking

\* The step in which a row stops being expired is an administrator's.
LEMMA NoRevivalStep ==
    ASSUME TypeOK, RevivalInv, [Next]_vars, NEW u \in Users \ raced, Expired(db[u]), ~Expired(db'[u])
    PROVE  \/ \E a \in Editors : EditSave(a)
           \/ \E c \in ColumnEdits : ColumnUpdate(u, c)
<1>0. db \in [Users -> Rows] /\ sweep \in [Sweepers -> SweepStates]
  BY DEF TypeOK
<1>1. \A i \in Sweepers : sweep[i].pc = "users" =>
         sweep[i].at \in Time /\ sweep[i].rows \in [Users -> Rows]
  BY <1>0, SweepStateFields
<1>2. db'[u] # db[u]
  OBVIOUS
<1>3. ASSUME \E d \in Nat, at \in Time : db'[u] = ApplyTraffic(db[u], d, at)
      PROVE  FALSE
  BY <1>0, <1>3, StandingKept DEF Expired
<1>4. ASSUME db'[u] = [db[u] EXCEPT !.disc = Nil] PROVE FALSE
  BY <1>0, <1>4, StandingKept DEF Expired, Time
<1>5. ASSUME NEW i \in Sweepers, SweepReset(i, u), db'[u] = ResetUsage(db[u], sweep[i].at)
      PROVE  FALSE
  BY <1>0, <1>1, <1>5, StandingKept DEF Expired, SweepReset
<1>6. ASSUME NEW i \in Sweepers, SweepActivate(i, u) PROVE FALSE
  BY <1>6 DEF RevivalInv, Waking, SweepActivate
<1>7. ASSUME NEW i \in Sweepers, SweepExpire(i, u), db'[u] = Expire(sweep[i].rows[u])
      PROVE  FALSE
  BY <1>1, <1>7 DEF SweepExpire, Expire, Expired, Rows
<1>8. Fate(u)
  BY RowFate
<1> QED
  BY <1>2, <1>3, <1>4, <1>5, <1>6, <1>7, <1>8 DEF Fate

\* With one panel, neither the sweep working from its stale copy, nor the periodic
\* reset, nor billing brings an expired account back: an administrator's edit does.
\* (Accounts whose status was set by hand under a copy in use are excepted in the
\* property: of those the sweep may save the hold it listed.)
THEOREM ExpiredStaysExpired ==
    ASSUME SinglePanel
    PROVE  Spec => NoSchedulerRevival
<1> DEFINE Stays == \A u \in Users \ raced :
              db[u].status = "expired" /\ db'[u].status # "expired" =>
                  \/ \E a \in Editors : EditSave(a)
                  \/ \E c \in ColumnEdits : ColumnUpdate(u, c)
<1>1. Init => TypeOK /\ RevivalInv
  BY TypeInit DEF Init, RevivalInv, Waking, IdleSweep, IdleEdit
<1>2. TypeOK /\ RevivalInv /\ [Next]_vars => TypeOK' /\ RevivalInv'
  BY SinglePanel, TypeStep, RevivalStep
<1>3. TypeOK /\ RevivalInv /\ [Next]_vars => Stays
  BY NoRevivalStep DEF Expired
<1>4. NoSchedulerRevival <=> [][Stays]_vars
  BY DEF NoSchedulerRevival
<1> QED
  BY <1>1, <1>2, <1>3, <1>4, PTL DEF Spec

=============================================================================
