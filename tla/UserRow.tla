------------------------------ MODULE UserRow ------------------------------
(***************************************************************************)
(* The row of a proxy account (store.User) and every function that changes *)
(* its accounting and lifecycle fields.  Each operator takes the row as    *)
(* the code read it and returns the row as the code writes it; WHEN a row  *)
(* is read and WHEN it is written is the business of Accounting.tla.       *)
(*                                                                         *)
(* Fields the lifecycle does not look at (names, credentials, notes, group *)
(* membership) are left out.  Times are instants of a discrete clock, Nil  *)
(* is Go's nil *time.Time.                                                 *)
(***************************************************************************)
EXTENDS Integers

CONSTANTS
    MaxInt,     \* the largest value of the integer type (math.MaxInt64)
    PeriodLen   \* length of a calendar reset period, in clock ticks

ASSUME MaxIntAssumption == MaxInt \in Nat \ {0}
ASSUME PeriodLenAssumption == PeriodLen \in Nat \ {0}

Nil == -1
Time == Nat
OptTime == Nat \cup {Nil}
Bytes == 0 .. MaxInt
Longs == (-MaxInt - 1) .. MaxInt

Statuses == {"active", "limited", "expired", "disabled", "on_hold"}

\* day, week, month and year differ only in where the period starts.
Strategies == {"no_reset", "periodic", "on_expire"}

Rows == [ status    : Statuses,
          limit     : Nat,        \* DataLimit, 0 = unlimited
          used      : Bytes,      \* UsedTraffic
          life      : Longs,      \* LifetimeTraffic, a plain (wrapping) sum
          strategy  : Strategies,
          lastReset : OptTime,
          expire    : OptTime,
          hold      : Nat,        \* OnHoldDuration
          first     : OptTime,    \* FirstConnectAt
          disc      : OptTime ]   \* DisconnectedUntil

-----------------------------------------------------------------------------
(* Arithmetic of the counters *)

TrafficDelta(previous, current) ==
    IF current < previous THEN current ELSE current - previous

\* Faulty variant (see README, "Faults the properties catch"): the counter grows
\* past its type.
SaturatingAdd_Unbounded(x, delta) == x + delta

\* "Saturate rather than wrap": the only addition of the ledger that does.
SaturatingAdd(x, delta) ==
    IF MaxInt - delta < x THEN MaxInt ELSE x + delta

\* Two's complement addition of two values of the width of MaxInt.
WrappingAdd(x, y) ==
    LET s == x + y IN
    IF s > MaxInt THEN s - 2 * (MaxInt + 1)
    ELSE IF s < -MaxInt - 1 THEN s + 2 * (MaxInt + 1)
    ELSE s

-----------------------------------------------------------------------------
(* Predicates of a row *)

OverLimit(r) == r.limit > 0 /\ r.used >= r.limit

HoldStarted(r) == r.status = "on_hold" /\ r.first # Nil

PastExpiry(r, at) == r.status = "active" /\ r.expire # Nil /\ at > r.expire

\* Faulty variant: holds of accounts that are not active are passed over.
ReleaseDue_ActiveOnly(r, at) ==
    r.status = "active" /\ r.disc # Nil /\ r.disc <= at

ReleaseDue(r, at) == r.disc # Nil /\ r.disc <= at

\* Where the calendar period containing instant at begins.
PeriodStart(at) == PeriodLen * (at \div PeriodLen)

\* The marker of the reset that is current at instant at; Nil when the
\* strategy has none (resetPeriodStart's ok = false).
ResetPeriodStart(r, at) ==
    CASE r.strategy = "periodic"  -> PeriodStart(at)
      [] r.strategy = "on_expire" ->
             IF r.expire = Nil \/ at < r.expire THEN Nil ELSE r.expire
      [] OTHER -> Nil

\* Faulty variant: strict comparison at the start of the period.
AlreadyReset_Strict(r, period) == r.lastReset # Nil /\ r.lastReset > period

\* What the compare-and-set compares.
AlreadyReset(r, period) == r.lastReset # Nil /\ r.lastReset >= period

-----------------------------------------------------------------------------
(* Writers of a row *)

\* Faulty variant: trips only beyond the limit.
ApplyTraffic_OffByOne(r, delta, at) ==
    LET used == SaturatingAdd(r.used, delta) IN
    [r EXCEPT !.used   = used,
              !.first  = IF r.status = "on_hold" /\ @ = Nil THEN at ELSE @,
              !.status = IF @ = "active" /\ r.limit > 0 /\ used > r.limit
                         THEN "limited" ELSE @]

\* The body of ApplyTrafficDeltaAt together with the scheduler's stamp.
ApplyTraffic(r, delta, at) ==
    LET used  == SaturatingAdd(r.used, delta)
        first == IF r.status = "on_hold" /\ r.first = Nil THEN at ELSE r.first
        trips == r.status = "active" /\ OverLimit([r EXCEPT !.used = used])
    IN [r EXCEPT !.used   = used,
                 !.first  = first,
                 !.status = IF trips THEN "limited" ELSE @]

\* Faulty variants: the period's bytes are dropped, the suspension is not
\* lifted, every suspension is lifted.
ResetUsage_DropsBytes(r, at) == [r EXCEPT !.used = 0, !.lastReset = at]
ResetUsage_KeepsSuspension(r, at) ==
    [r EXCEPT !.life = WrappingAdd(@, r.used), !.used = 0, !.lastReset = at]
ResetUsage_RevivesAll(r, at) ==
    [r EXCEPT !.life = WrappingAdd(@, r.used), !.used = 0, !.lastReset = at,
              !.status = IF @ \in {"limited", "expired"} THEN "active" ELSE @]

\* The update inside ResetUserUsageCAS.
ResetUsage(r, at) ==
    LET revived == r.status = "limited" /\ (r.expire = Nil \/ at < r.expire)
    IN [r EXCEPT !.life      = WrappingAdd(@, r.used),
                 !.used      = 0,
                 !.lastReset = at,
                 !.status    = IF revived THEN "active" ELSE @]

\* Faulty variant: the term is set but the hold is not left.
ActivateHold_StaysOnHold(r) ==
    [r EXCEPT !.expire = IF r.hold > 0 /\ @ = Nil THEN r.first + r.hold ELSE @]

\* Step 1 of the sweep.
ActivateHold(r) ==
    [r EXCEPT !.status = "active",
              !.expire = IF r.hold > 0 /\ @ = Nil THEN r.first + r.hold ELSE @]

\* Step 2 of the sweep.
Expire(r) == [r EXCEPT !.status = "expired"]

=============================================================================
