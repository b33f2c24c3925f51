----------------------------- MODULE Accounting -----------------------------
(***************************************************************************)
(* Who changes an account's row, and in which steps.                       *)
(*                                                                         *)
(*   - the accounting job (job.pollAndAccount) bills the cumulative        *)
(*     counters of the proxy engines, one transaction per user: xray's     *)
(*     and, where the installed sing-box can report statistics, sing-box's *)
(*     added to them;                                                      *)
(*   - each sweeper (job.sweepAt) lists the users ONCE and then works from *)
(*     that copy: it saves whole rows for hold activation and expiry, and  *)
(*     uses a compare-and-set for the periodic reset;                      *)
(*   - each editor is a handler that reads a row, changes it in memory and *)
(*     saves the whole row (the Telegram commands, subscription revoke);   *)
(*   - column edits (handleUpdateUser, a plan, disconnect, reconnect) are  *)
(*     single transactions that touch only the named columns.              *)
(*                                                                         *)
(* The database is SQLite through GORM: a transaction or a single          *)
(* statement is atomic, and either happens whole or fails whole.           *)
(***************************************************************************)
EXTENDS UserRow, FiniteSets

CONSTANTS
    Users,
    Sweepers,      \* the sweep loops of the panel instances on this database
    Editors,       \* concurrent read-modify-save handlers
    FullEdits,     \* the commands editors run:  [op : STRING, n : Nat]
    ColumnEdits,   \* the requests that name columns and their values
    SingboxStats,  \* does the installed sing-box report statistics
    InitialRows,   \* the rows accounts may start with
    MaxTraffic,    \* bound: bytes a user moves in a behaviour
    MaxTime,       \* bound: clock
    MaxEdits,      \* bound: requests of administrators
    MaxFaults      \* bound: failed reads and writes, crashes, engine restarts

Commands == [op : STRING, n : Nat]

\* The columns a request writes, and the row their values are taken from; the
\* times of a disconnect and of a plan count from the moment it is applied.
Columns  == {"status", "limit", "strategy", "expire", "hold", "disc"}
Requests == [cols : SUBSET Columns, row : Rows, fromNow : BOOLEAN]

ASSUME ConstantsAssumption ==
    /\ IsFiniteSet(Users)
    /\ SingboxStats \in BOOLEAN
    /\ InitialRows \subseteq Rows
    /\ \A r \in InitialRows : r.used = 0 /\ r.life = 0
    /\ \A c \in FullEdits : c \in Commands
    /\ \A c \in ColumnEdits : c \in Requests
    /\ MaxTraffic \in Nat /\ MaxTime \in Nat /\ MaxFaults \in Nat /\ MaxEdits \in Nat

VARIABLES
    now,      \* the wall clock
    moved,    \* ghost: bytes each user really moved through metered engines
    counter,  \* xray's cumulative counter of each user
    sbCounter,\* sing-box's
    db,       \* the users table
    snap,     \* the traffic_snapshots table, scope "local"
    poll,     \* the accounting job's local variables
    sweep,    \* each sweeper's local variables
    edit,     \* each editor's local variables
    billed,   \* ghost: bytes billed by committed transactions
    missed,   \* ghost: the users whose bytes a failed read wrote off
    edits,    \* number of requests of administrators so far
    raced,    \* ghost: those whose status was set by hand under a copy in use
    resets,   \* ghost: the period markers for which a reset was applied
    repeated, \* ghost: those for which one was applied more than once
    faults    \* number of faults so far

vars == <<now, moved, counter, sbCounter, db, snap, poll, sweep, edit, billed, missed, raced, edits, resets, repeated, faults>>

-----------------------------------------------------------------------------
(* Local states of the processes *)

IdlePoll  == [pc |-> "idle"]
IdleSweep == [pc |-> "idle"]
IdleEdit  == [pc |-> "idle"]

PollStates ==
    {IdlePoll} \cup
    [pc : {"apply"}, totals : [Users -> Nat], prev : [Users -> Nat],
     at : Time, todo : SUBSET Users]

SweepStates ==
    {IdleSweep} \cup
    [pc : {"users", "release"}, rows : [Users -> Rows], at : Time,
     todo : SUBSET Users]

EditStates ==
    {IdleEdit} \cup [pc : {"save"}, user : Users, row : Rows]

-----------------------------------------------------------------------------
Init ==
    /\ now = 0
    /\ moved = [u \in Users |-> 0]
    /\ counter = [u \in Users |-> 0] /\ sbCounter = [u \in Users |-> 0]
    /\ db \in [Users -> InitialRows]
    /\ snap = [u \in Users |-> 0]
    /\ poll = IdlePoll
    /\ sweep = [i \in Sweepers |-> IdleSweep]
    /\ edit = [a \in Editors |-> IdleEdit]
    /\ billed = [u \in Users |-> 0]
    /\ missed = {} /\ raced = {} /\ edits = 0
    /\ resets = [u \in Users |-> {}]
    /\ repeated = [u \in Users |-> {}]
    /\ faults = 0

Fault == faults < MaxFaults /\ faults' = faults + 1

Request == edits < MaxEdits /\ edits' = edits + 1

-----------------------------------------------------------------------------
(* The environment *)

Tick ==
    /\ now < MaxTime
    /\ now' = now + 1
    /\ UNCHANGED <<moved, counter, sbCounter, db, snap, poll, sweep, edit, billed, missed, raced, edits, resets, repeated, faults>>

\* A user moves bytes through xray.  The engine serves the configuration of
\* its last reload, so this does not depend on what the row says now.
Traffic(u) ==
    /\ moved[u] < MaxTraffic
    /\ moved' = [moved EXCEPT ![u] = @ + 1]
    /\ counter' = [counter EXCEPT ![u] = @ + 1]
    /\ UNCHANGED <<now, sbCounter, db, snap, poll, sweep, edit, billed, missed, raced, edits, resets, repeated, faults>>

\* The same through sing-box (hysteria2, tuic, anytls, shadowtls, wireguard).
SbTraffic(u) ==
    /\ SingboxStats
    /\ moved[u] < MaxTraffic
    /\ moved' = [moved EXCEPT ![u] = @ + 1]
    /\ sbCounter' = [sbCounter EXCEPT ![u] = @ + 1]
    /\ UNCHANGED <<now, counter, db, snap, poll, sweep, edit, billed, missed, raced, edits, resets, repeated, faults>>

\* A configuration change restarts one engine, and its counters with it.
EngineRestart ==
    /\ Fault
    /\ \E u \in Users : counter[u] > 0
    /\ counter' = [u \in Users |-> 0]
    /\ UNCHANGED <<now, moved, sbCounter, db, snap, poll, sweep, edit, billed, missed, raced, edits, resets, repeated>>

SbRestart ==
    /\ Fault
    /\ \E u \in Users : sbCounter[u] > 0
    /\ sbCounter' = [u \in Users |-> 0]
    /\ UNCHANGED <<now, moved, counter, db, snap, poll, sweep, edit, billed, missed, raced, edits, resets, repeated>>

-----------------------------------------------------------------------------
(* The accounting job *)

\* QueryUserStats: xray's counters, and sing-box's added to them when its API
\* answers; the totals of the cycle.
Totals(answers) ==
    [u \in Users |-> counter[u] + (IF answers THEN sbCounter[u] ELSE 0)]

\* A cycle on the readings totals.  Only this job writes the scope's snapshots,
\* so reading the counters and reading the baseline are one step.  A counter
\* that is still zero may or may not be listed; a user whose total equals the
\* baseline needs nothing done.
PollRead(totals) ==
    /\ poll = IdlePoll
    /\ \E listed \in SUBSET Users :
          LET todo == {u \in listed : totals[u] # snap[u]} IN
          /\ \A u \in Users : totals[u] > 0 => u \in listed
          /\ todo # {}
          /\ poll' = [pc |-> "apply", totals |-> totals, prev |-> snap,
                      at |-> now, todo |-> todo]
    /\ UNCHANGED <<now, moved, counter, sbCounter, db, snap, sweep, edit, billed, missed, raced, edits, resets, repeated>>

\* A failure to read xray or the baseline skips the cycle; a failure to read
\* sing-box (PollHalf) leaves its counters out of the totals.
PollStart == PollRead(Totals(TRUE)) /\ UNCHANGED faults
PollHalf  == SingboxStats /\ Fault /\ PollRead(Totals(FALSE))

\* What is left of the cycle once u is dealt with.
PollRest(u) ==
    IF poll.todo = {u} THEN IdlePoll ELSE [poll EXCEPT !.todo = @ \ {u}]

\* Faulty variant: the usage is committed without its snapshot.
PollBill_NoSnapshot(u) ==
    LET delta == TrafficDelta(poll.prev[u], poll.totals[u]) IN
    /\ poll.pc = "apply"
    /\ u \in poll.todo
    /\ delta > 0
    /\ db' = [db EXCEPT ![u] = ApplyTraffic(@, delta, poll.at)]
    /\ billed' = [billed EXCEPT ![u] = @ + delta]
    /\ poll' = PollRest(u)
    /\ UNCHANGED <<now, moved, counter, sbCounter, snap, sweep, edit, missed, raced, edits, resets, repeated, faults>>

\* ApplyTrafficDeltaAt commits: usage, stamp and snapshot move together.
PollBill(u) ==
    LET delta == TrafficDelta(poll.prev[u], poll.totals[u]) IN
    /\ poll.pc = "apply"
    /\ u \in poll.todo
    /\ delta > 0
    /\ db' = [db EXCEPT ![u] = ApplyTraffic(@, delta, poll.at)]
    /\ snap' = [snap EXCEPT ![u] = poll.totals[u]]
    /\ billed' = [billed EXCEPT ![u] = @ + delta]
    /\ poll' = PollRest(u)
    /\ UNCHANGED <<now, moved, counter, sbCounter, sweep, edit, missed, raced, edits, resets, repeated, faults>>

\* No usage: only the baseline follows a counter that was reset.
PollRebase(u) ==
    /\ poll.pc = "apply"
    /\ u \in poll.todo
    /\ TrafficDelta(poll.prev[u], poll.totals[u]) = 0
    /\ snap' = [snap EXCEPT ![u] = poll.totals[u]]
    /\ poll' = PollRest(u)
    /\ UNCHANGED <<now, moved, counter, sbCounter, db, sweep, edit, billed, missed, raced, edits, resets, repeated, faults>>

\* The write of this user fails; the loop goes on with the next one.
PollWriteFails(u) ==
    /\ poll.pc = "apply"
    /\ u \in poll.todo
    /\ Fault
    /\ poll' = PollRest(u)
    /\ UNCHANGED <<now, moved, counter, sbCounter, db, snap, sweep, edit, billed, missed, raced, edits, resets, repeated>>

\* The user cannot be read: userForEmail takes the failure for a key that
\* belongs to nobody, so the baseline moves on and the bytes are not billed.
PollUnread(u) ==
    /\ poll.pc = "apply"
    /\ u \in poll.todo
    /\ Fault
    /\ snap' = [snap EXCEPT ![u] = poll.totals[u]]
    /\ missed' = missed \cup {u}
    /\ poll' = PollRest(u)
    /\ UNCHANGED <<now, moved, counter, sbCounter, db, sweep, edit, billed, raced, edits, resets, repeated>>

PollUser(u) == PollBill(u) \/ PollRebase(u)

-----------------------------------------------------------------------------
(* The sweep *)

ResetDue(r, at) == ResetPeriodStart(r, at) # Nil

\* Does any of the three lifecycle steps concern this (possibly stale) row?
LifecycleDue(r, at) == HoldStarted(r) \/ PastExpiry(r, at) \/ ResetDue(r, at)

\* The release pass runs over the same copy of the users.
ToRelease(rows, at) ==
    [pc |-> "release", rows |-> rows, at |-> at,
     todo |-> {u \in Users : ReleaseDue(rows[u], at)}]

ToUsers(rows, at, todo) ==
    LET due == {u \in todo : LifecycleDue(rows[u], at)} IN
    IF due # {} THEN [pc |-> "users", rows |-> rows, at |-> at, todo |-> due]
    ELSE IF \E u \in Users : ReleaseDue(rows[u], at) THEN ToRelease(rows, at)
    ELSE IdleSweep

SweepList(i) ==
    /\ sweep[i] = IdleSweep
    /\ ToUsers(db, now, Users) # IdleSweep
    /\ sweep' = [sweep EXCEPT ![i] = ToUsers(db, now, Users)]
    /\ UNCHANGED <<now, moved, counter, sbCounter, db, snap, poll, edit, billed, missed, raced, edits, resets, repeated, faults>>

\* Faulty variant: the row is changed in memory only.
SweepSave_InMemory(u, row) == UNCHANGED <<db, faults>>

\* A whole-row save from the sweeper's copy, which either lands or fails.
SweepSave(u, row) ==
    \/ db' = [db EXCEPT ![u] = row] /\ UNCHANGED faults
    \/ Fault /\ UNCHANGED db

\* Step 1: on-hold to active.  The copy is changed whether or not it is saved.
SweepActivate(i, u) ==
    LET s == sweep[i]
        row == ActivateHold(s.rows[u])
    IN
    /\ s.pc = "users" /\ u \in s.todo
    /\ HoldStarted(s.rows[u])
    /\ SweepSave(u, row)
    /\ sweep' = [sweep EXCEPT ![i] = ToUsers([s.rows EXCEPT ![u] = row], s.at, s.todo)]
    /\ UNCHANGED <<now, moved, counter, sbCounter, snap, poll, edit, billed, missed, raced, edits, resets, repeated>>

\* Step 2: expiry, which ends this user's turn.
SweepExpire(i, u) ==
    LET s == sweep[i]
        row == Expire(s.rows[u])
    IN
    /\ s.pc = "users" /\ u \in s.todo
    /\ ~HoldStarted(s.rows[u]) /\ PastExpiry(s.rows[u], s.at)
    /\ SweepSave(u, row)
    /\ sweep' = [sweep EXCEPT ![i] =
                   ToUsers([s.rows EXCEPT ![u] = row], s.at, s.todo \ {u})]
    /\ UNCHANGED <<now, moved, counter, sbCounter, snap, poll, edit, billed, missed, raced, edits, resets, repeated>>

\* Step 3: ResetUserUsageCAS reads the current row inside its transaction.
SweepReset(i, u) ==
    LET s == sweep[i]
        period == ResetPeriodStart(s.rows[u], s.at)
    IN
    /\ s.pc = "users" /\ u \in s.todo
    /\ ~HoldStarted(s.rows[u]) /\ ~PastExpiry(s.rows[u], s.at)
    /\ period # Nil
    /\ sweep' = [sweep EXCEPT ![i] = ToUsers(s.rows, s.at, s.todo \ {u})]
    /\ \/ /\ ~AlreadyReset(db[u], period)
          /\ db' = [db EXCEPT ![u] = ResetUsage(@, s.at)]
          /\ resets' = [resets EXCEPT ![u] = @ \cup {period}]
          /\ repeated' = [repeated EXCEPT ![u] = @ \cup (resets[u] \cap {period})]
          /\ UNCHANGED faults
       \/ AlreadyReset(db[u], period) /\ UNCHANGED <<db, resets, repeated, faults>>
       \/ Fault /\ UNCHANGED <<db, resets, repeated>>
    /\ UNCHANGED <<now, moved, counter, sbCounter, snap, poll, edit, billed, missed, raced, edits>>

\* releaseDisconnects: clears the column, judging by the copy.
SweepRelease(i, u) ==
    LET s == sweep[i] IN
    /\ s.pc = "release" /\ u \in s.todo
    /\ sweep' = [sweep EXCEPT ![i] =
                   IF s.todo = {u} THEN IdleSweep ELSE [s EXCEPT !.todo = @ \ {u}]]
    /\ SweepSave(u, [db[u] EXCEPT !.disc = Nil])
    /\ UNCHANGED <<now, moved, counter, sbCounter, snap, poll, edit, billed, missed, raced, edits, resets, repeated>>

SweepStep(i) ==
    \E u \in Users : \/ SweepActivate(i, u) \/ SweepExpire(i, u)
                     \/ SweepReset(i, u) \/ SweepRelease(i, u)

-----------------------------------------------------------------------------
(* Administrators *)

Later(t, s) == IF t > s THEN t ELSE s

\* The row a read-modify-save handler writes back for command c.
FullEdit(c, r, at) ==
    CASE c.op = "activate" -> [r EXCEPT !.status = "active"]
      [] c.op = "disable"  -> [r EXCEPT !.status = "disabled"]
      [] c.op = "reset"    ->
            [r EXCEPT !.life = WrappingAdd(@, r.used), !.used = 0,
                      !.status = IF @ = "limited" THEN "active" ELSE @]
      [] c.op = "limit"    ->
            LET raised == [r EXCEPT !.limit = c.n] IN
            [raised EXCEPT !.status =
                IF @ = "limited" /\ ~OverLimit(raised) THEN "active" ELSE @]
      [] c.op = "extend"   ->
            [r EXCEPT !.expire = Later(r.expire, at) + c.n,
                      !.status = IF @ = "expired" /\ c.n > 0 THEN "active" ELSE @]
      [] OTHER             -> r   \* sub_revoke: a column outside this model

EditRead(a, u, c) ==
    /\ Request
    /\ edit[a] = IdleEdit
    /\ c.op = "extend" => Later(db[u].expire, now) + c.n <= MaxTime + 1
    /\ edit' = [edit EXCEPT ![a] = [pc |-> "save", user |-> u,
                                     row |-> FullEdit(c, db[u], now)]]
    /\ UNCHANGED <<now, moved, counter, sbCounter, db, snap, poll, sweep, billed, missed, raced, resets, repeated, faults>>

EditSave(a) ==
    /\ edit[a].pc = "save"
    /\ db' = [db EXCEPT ![edit[a].user] = edit[a].row]
    /\ edit' = [edit EXCEPT ![a] = IdleEdit]
    /\ UNCHANGED <<now, moved, counter, sbCounter, snap, poll, sweep, billed, missed, raced, edits, resets, repeated, faults>>

EditFails(a) ==
    /\ edit[a].pc = "save"
    /\ Fault
    /\ edit' = [edit EXCEPT ![a] = IdleEdit]
    /\ UNCHANGED <<now, moved, counter, sbCounter, db, snap, poll, sweep, billed, missed, raced, edits, resets, repeated>>

\* The instant a request writes for the time t it carries.
Instant(c, t, at) == IF c.fromNow /\ t # Nil THEN at + t ELSE t

\* The row after UpdateUserFields (ApplyTemplateToUser for a plan) has written
\* the columns request c names.
ColumnEdit(c, r, at) ==
    [r EXCEPT
       !.status   = IF "status" \in c.cols THEN c.row.status ELSE @,
       !.limit    = IF "limit" \in c.cols THEN c.row.limit ELSE @,
       !.strategy = IF "strategy" \in c.cols THEN c.row.strategy ELSE @,
       !.hold     = IF "hold" \in c.cols THEN c.row.hold ELSE @,
       !.expire   = IF "expire" \in c.cols THEN Instant(c, c.row.expire, at) ELSE @,
       !.disc     = IF "disc" \in c.cols THEN Instant(c, c.row.disc, at) ELSE @]

\* Is a sweep or a saver of whole rows at work on a copy of the row?
CopyInUse ==
    \/ \E i \in Sweepers : sweep[i] # IdleSweep
    \/ \E a \in Editors : edit[a] # IdleEdit

ColumnUpdate(u, c) ==
    /\ Request
    /\ db' = [db EXCEPT ![u] = ColumnEdit(c, @, now)]
    /\ db' # db
    /\ raced' = IF "status" \in c.cols /\ c.row.status \in {"expired", "on_hold"} /\ CopyInUse
                THEN raced \cup {u} ELSE raced
    /\ UNCHANGED <<now, moved, counter, sbCounter, snap, poll, sweep, edit, billed, missed, resets, repeated, faults>>

-----------------------------------------------------------------------------
\* The panel dies: every goroutine's local state is gone, and the engine it
\* supervises goes with it.
Crash ==
    /\ Fault
    /\ poll' = IdlePoll
    /\ sweep' = [i \in Sweepers |-> IdleSweep]
    /\ edit' = [a \in Editors |-> IdleEdit]
    /\ counter' = [u \in Users |-> 0] /\ sbCounter' = [u \in Users |-> 0]
    /\ UNCHANGED <<now, moved, db, snap, billed, missed, raced, edits, resets, repeated>>

Next ==
    \/ Tick \/ EngineRestart \/ SbRestart \/ Crash \/ PollStart \/ PollHalf
    \/ \E u \in Users : Traffic(u) \/ SbTraffic(u) \/ PollUser(u) \/ PollWriteFails(u)
                         \/ PollUnread(u)
    \/ \E i \in Sweepers : SweepList(i) \/ SweepStep(i)
    \/ \E a \in Editors : EditSave(a) \/ EditFails(a)
    \/ \E a \in Editors, u \in Users, c \in FullEdits : EditRead(a, u, c)
    \/ \E u \in Users, c \in ColumnEdits : ColumnUpdate(u, c)

Spec == Init /\ [][Next]_vars

\* The jobs are loops on tickers: a cycle that can start starts, and one that
\* has started finishes.  Nothing is assumed of traffic, time or people.
JobFairness ==
    /\ WF_vars(PollStart)
    /\ \A u \in Users : WF_vars(PollUser(u))
    /\ \A i \in Sweepers : WF_vars(SweepList(i)) /\ WF_vars(SweepStep(i))

FairSpec == Spec /\ JobFairness

-----------------------------------------------------------------------------
(* Properties *)

\* Every variable keeps the shape the code gives it.
TypeOK ==
    /\ now \in Time
    /\ moved \in [Users -> Nat] /\ counter \in [Users -> Nat]
    /\ sbCounter \in [Users -> Nat]
    /\ snap \in [Users -> Nat] /\ billed \in [Users -> Nat]
    /\ db \in [Users -> Rows]
    /\ poll \in PollStates
    /\ sweep \in [Sweepers -> SweepStates]
    /\ edit \in [Editors -> EditStates]
    /\ missed \subseteq Users /\ raced \subseteq Users /\ edits \in Nat
    /\ resets \in [Users -> SUBSET Time] /\ repeated \in [Users -> SUBSET Time]
    /\ faults \in Nat

\* No user is ever charged for more bytes than they moved, whatever restarts,
\* crashes, failed writes and stale whole-row saves come in between
\* (pollAndAccount: "a crash between the two cannot double-count").  With one
\* metered engine only: see the run double_billing.
NoOverbill == \A u \in Users : db[u].life + db[u].used <= moved[u]

\* The ledger is exact: what the row holds over its lifetime is what the
\* accounting transactions charged.  It holds as long as every writer is a
\* transaction that re-reads the row (ApplyTrafficDeltaAt, ResetUserUsageCAS,
\* UpdateUserFields); a save of a stale row breaks it.
ExactLedger == \A u \in Users : db[u].life + db[u].used = billed[u]

\* ResetUserUsageCAS: a period's usage is reset at most once, however many
\* panel instances sweep the same database concurrently.
ResetOncePerPeriod == \A u \in Users : repeated[u] = {}

\* At instant t, nothing justifies a row's suspension for quota: it is neither
\* over its limit nor past its term.
Unwarranted(r, t) ==
    /\ r.status = "limited" /\ ~OverLimit(r)
    /\ ~(r.expire # Nil /\ t >= r.expire)

\* No background job ever leaves an account suspended for a quota it has not
\* used up, or lets one that a reset has emptied stay suspended (a reset
\* reactivates "a data-limited user that is not expired"), whatever the job's
\* copy of the row has missed; an administrator's own edit can (a raised cap, a
\* moved term, or the status itself, by PATCH or /extend).
SuspensionWarranted ==
    [][\A u \in Users :
          ~Unwarranted(db[u], now) /\ Unwarranted(db'[u], now') =>
              \/ \E a \in Editors : EditSave(a)
              \/ \E c \in ColumnEdits : ColumnUpdate(u, c)]_vars

\* Only an administrator brings an expired account back: neither the sweep nor
\* the periodic reset nor the accounting job revives it ("an expired user must
\* never be revived by a reset").  With several panels the sweep does, and so
\* it does where an administrator set the status by hand under a copy in use.
NoSchedulerRevival ==
    [][\A u \in Users \ raced :
          db[u].status = "expired" /\ db'[u].status # "expired" =>
              \/ \E a \in Editors : EditSave(a)
              \/ \E c \in ColumnEdits : ColumnUpdate(u, c)]_vars

\* Bytes that take an active account over its limit, through either engine, get
\* it suspended, unless an engine has lost its counter, the account stops being
\* active, or the job could not read the account and wrote its bytes off.
Unbilled(u) == Totals(TRUE)[u] - snap[u]
Exceeding(u) ==
    /\ db[u].status = "active" /\ db[u].limit > 0
    /\ Unbilled(u) > 0
    /\ db[u].used + Unbilled(u) >= db[u].limit
QuotaTrips ==
    \A u \in Users :
        Exceeding(u) ~> \/ db[u].status # "active"
                        \/ Totals(TRUE)[u] < moved[u]
                        \/ u \in missed

\* An active account past its term is taken out of service, unless its term is
\* moved.
ExpiryEnforced ==
    \A u \in Users :
        PastExpiry(db[u], now) ~> ~PastExpiry(db[u], now)

\* An on-hold account that has connected leaves the hold.
HoldActivates ==
    \A u \in Users : HoldStarted(db[u]) ~> db[u].status # "on_hold"

\* A disconnect hold that has run out is lifted, whatever state the account is
\* in: otherwise the user stays kicked out for good.
HoldReleased ==
    \A u \in Users :
        (db[u].disc # Nil /\ db[u].disc <= now)
            ~> (db[u].disc = Nil \/ db[u].disc > now)

=============================================================================
