---------------------------- MODULE AddressLimit ----------------------------
(***************************************************************************)
(* How many addresses an account may use at once: the presence tracker     *)
(* that counts them (internal/core/online), the sweep that holds and       *)
(* releases accounts by that count (internal/job/iplimit.go), and the      *)
(* handlers that write the same rows.                                      *)
(*                                                                         *)
(* An address counts for TTL after its last connection.  The tracker keeps *)
(* at most MaxAddresses of an account and prunes those out of date when it *)
(* is read.  The sweep lists the rows, then counts each account's          *)
(* addresses; a second breach in a row holds the account for Cooldown.     *)
(* The sweeps and all of the tracker are those of one process.             *)
(***************************************************************************)
EXTENDS Naturals, FiniteSets

CONSTANTS Accounts, Addresses,
          Limits,        \* what an operator may set; 0 is no limit
          MaxAddresses,  \* the tracker's cap on one account
          TTL, Cooldown,
          Savers,        \* handlers that save whole rows
          Horizon, MaxEdits, MaxSlips  \* bounds: time, edits and row saves, faults

ASSUME AddressAssumption ==
    /\ IsFiniteSet(Addresses) /\ MaxAddresses \in Nat \ {0}
    /\ Limits \subseteq Nat /\ TTL \in Nat /\ Cooldown \in Nat

VARIABLES clock,
          seen,      \* account -> address -> its last connection, 0 for none;
                     \* a ghost for the addresses that are not tracked
          tracked,   \* account -> the addresses in the tracker's map
          allowance, \* account -> its row: limit, and until when it is held (0: it is not)
          breaches,  \* ipLimitState: account -> sweeps in a row over the limit
          sweep,     \* the sweep's local variables
          saver,     \* handler -> the row it read
          edits, slips,  \* edits and faults so far
          streak,    \* ghost: sweeps in a row, two at most, at which more addresses
                     \* than the limit had connected; kept while the account is held
          excused    \* ghost: accounts whose hold or release failed to be written,
                     \* or was overwritten, or whose limit the tracker cannot count to

presence == <<clock, seen, tracked>>
counts == <<breaches, sweep, streak>>
addresses == <<presence, allowance, counts, saver, edits, slips, excused>>

UserRows == [limit : Limits, until : Nat]

\* No sweep is under way.
NoSweep == [now |-> 0, todo |-> {}, rows |-> [u \in Accounts |-> [limit |-> 0, until |-> 0]]]
SweepRecords == [now : Nat, todo : SUBSET Accounts, rows : [Accounts -> [limit : Nat, until : Nat]]]

AddressesInit ==
    /\ clock = TTL + 1
    /\ seen = [u \in Accounts |-> [a \in Addresses |-> 0]]
    /\ tracked = [u \in Accounts |-> {}]
    /\ allowance \in [Accounts -> [limit : Limits, until : {0}]]
    /\ breaches = [u \in Accounts |-> 0] /\ streak = breaches
    /\ sweep = NoSweep
    /\ saver = [h \in Savers |-> {}]
    /\ edits = 0 /\ slips = 0 /\ excused = {}

-----------------------------------------------------------------------------
(* The tracker. *)

\* Connected within the window.
Recent(u, a) == seen[u][a] + TTL >= clock
Connected(u) == {a \in Addresses : Recent(u, a)}

Oldest(u) == {o \in tracked[u] : \A a \in tracked[u] : seen[u][o] <= seen[u][a]}

\* Observe, on a line of the core's log; the panel stamps it with its clock.
Observe(u, a) ==
    /\ seen' = [seen EXCEPT ![u][a] = clock]
    /\ \/ /\ a \in tracked[u] \/ Cardinality(tracked[u]) < MaxAddresses
          /\ tracked' = [tracked EXCEPT ![u] = @ \cup {a}]
       \/ /\ a \notin tracked[u] /\ Cardinality(tracked[u]) >= MaxAddresses
          /\ \E o \in Oldest(u) : tracked' = [tracked EXCEPT ![u] = (@ \ {o}) \cup {a}]
    /\ UNCHANGED <<clock, allowance, counts, saver, edits, slips, excused>>

\* What AddressCount counts, and leaves in the map.
Pruned(u) == {a \in tracked[u] : Recent(u, a)}

\* Snapshot, for the list of who is online.
Snapshot ==
    /\ tracked' = [u \in Accounts |-> Pruned(u)]
    /\ UNCHANGED <<clock, seen, allowance, counts, saver, edits, slips, excused>>

\* Forget, when an administrator disconnects the account.
Forget(u) ==
    /\ edits < MaxEdits /\ edits' = edits + 1
    /\ tracked' = [tracked EXCEPT ![u] = {}]
    /\ seen' = [seen EXCEPT ![u] = [a \in Addresses |-> 0]]
    /\ UNCHANGED <<clock, allowance, counts, saver, slips, excused>>

Tick ==
    /\ clock < Horizon /\ clock' = clock + 1
    /\ UNCHANGED <<seen, tracked, allowance, counts, saver, edits, slips, excused>>

-----------------------------------------------------------------------------
(* The sweep: enforceIPLimits. *)

\* ListUsers, and the instant the sweep goes by.
List ==
    /\ sweep.todo = {}
    /\ sweep' = [now |-> clock, todo |-> Accounts, rows |-> allowance]
    /\ UNCHANGED <<presence, allowance, breaches, streak, saver, edits, slips, excused>>

Done(u) == sweep' = IF sweep.todo = {u} THEN NoSweep ELSE [sweep EXCEPT !.todo = @ \ {u}]

\* One column is written; a failed write is passed over.
WriteUntil(u, t) ==
    /\ allowance' = [allowance EXCEPT ![u].until = t]
    /\ excused' = excused \ {u}
    /\ UNCHANGED slips
UntilUnwritten(u) ==
    /\ slips < MaxSlips /\ slips' = slips + 1
    /\ excused' = excused \cup {u}
    /\ UNCHANGED allowance

Clear(u) ==
    /\ breaches' = [breaches EXCEPT ![u] = 0]
    /\ streak' = [streak EXCEPT ![u] = 0]

\* The hold is over: it is released, and the count of breaches starts again.
Lapse(u) ==
    /\ sweep.rows[u].until # 0 /\ sweep.rows[u].until <= sweep.now
    /\ \/ WriteUntil(u, 0) /\ Clear(u)
       \/ UntilUnwritten(u) /\ UNCHANGED <<breaches, streak>>
    /\ UNCHANGED tracked

\* There is no limit any more: an account that is held is released at once.
Unlimited(u) ==
    /\ sweep.rows[u].limit = 0 /\ (sweep.rows[u].until = 0 \/ sweep.rows[u].until > sweep.now)
    /\ \/ sweep.rows[u].until # 0 /\ (WriteUntil(u, 0) \/ UntilUnwritten(u))
       \/ sweep.rows[u].until = 0 /\ UNCHANGED <<allowance, slips, excused>>
    /\ Clear(u) /\ UNCHANGED tracked

\* A hold goes on; nothing is measured.
StillHeld(u) ==
    /\ sweep.rows[u].limit # 0 /\ sweep.rows[u].until > sweep.now
    /\ UNCHANGED <<allowance, tracked, breaches, streak, slips, excused>>

\* What a sweep would have to see, and what the tracker can show it.
Over(u) == Cardinality(Connected(u)) > sweep.rows[u].limit
Counted(u) == Cardinality(Pruned(u)) > sweep.rows[u].limit

Measured(u) ==
    /\ sweep.rows[u].limit # 0 /\ sweep.rows[u].until = 0
    /\ tracked' = [tracked EXCEPT ![u] = Pruned(u)]
    /\ streak' = [streak EXCEPT ![u] = IF ~Over(u) THEN 0 ELSE IF @ = 0 THEN 1 ELSE 2]

\* A limit that the cap does not reach is not enforced.
Forgive(u) ==
    excused' = IF Over(u) /\ sweep.rows[u].limit >= MaxAddresses THEN excused \cup {u}
               ELSE IF ~Over(u) /\ allowance[u].until = 0 THEN excused \ {u}
               ELSE excused

\* Breaches have to be consecutive.
Within_Keeps(u) ==
    /\ Measured(u) /\ ~Counted(u)
    /\ Forgive(u)
    /\ UNCHANGED <<allowance, slips, breaches>>
Within(u) ==
    /\ Measured(u) /\ ~Counted(u)
    /\ breaches' = [breaches EXCEPT ![u] = 0]
    /\ Forgive(u)
    /\ UNCHANGED <<allowance, slips>>

\* ipLimitBreachesBeforeAction is 2.
Breach(u) ==
    /\ Measured(u) /\ Counted(u)
    /\ \/ /\ breaches[u] = 0 /\ breaches' = [breaches EXCEPT ![u] = 1]
          /\ UNCHANGED <<allowance, slips, excused>>
       \/ /\ breaches[u] > 0 /\ breaches' = [breaches EXCEPT ![u] = 0]
          /\ WriteUntil(u, sweep.now + Cooldown)
       \/ /\ breaches[u] > 0 /\ breaches' = [breaches EXCEPT ![u] = @ + 1]
          /\ UntilUnwritten(u)

Visit(u) ==
    /\ u \in sweep.todo /\ Done(u)
    /\ Lapse(u) \/ Unlimited(u) \/ StillHeld(u) \/ Within(u) \/ Breach(u)
    /\ UNCHANGED <<clock, seen, saver, edits>>

-----------------------------------------------------------------------------
(* Other writers, and a restart. *)

\* UpdateUserFields, on the limit.
SetLimit(u, l) ==
    /\ edits < MaxEdits /\ edits' = edits + 1
    /\ allowance' = [allowance EXCEPT ![u].limit = l]
    /\ UNCHANGED <<presence, counts, saver, slips, excused>>

\* A handler reads a row to change another column of it.
ReadRow(h, u) ==
    /\ saver[h] = {} /\ edits < MaxEdits /\ edits' = edits + 1
    /\ saver' = [saver EXCEPT ![h] = {<<u, allowance[u]>>}]
    /\ UNCHANGED <<presence, allowance, counts, slips, excused>>

\* SaveUser: the whole row as it was read, with the limit and the hold of then.
SaveRow(h) ==
    /\ \E r \in saver[h] :
          /\ allowance' = [allowance EXCEPT ![r[1]] = r[2]]
          /\ excused' = IF allowance[r[1]].until = r[2].until THEN excused ELSE excused \cup {r[1]}
    /\ saver' = [saver EXCEPT ![h] = {}]
    /\ UNCHANGED <<presence, counts, edits, slips>>

\* The panel starts again: what it had observed is gone, the holds are not.
PanelRestarts ==
    /\ slips < MaxSlips /\ slips' = slips + 1
    /\ seen' = [u \in Accounts |-> [a \in Addresses |-> 0]]
    /\ tracked' = [u \in Accounts |-> {}]
    /\ breaches' = [u \in Accounts |-> 0]
    /\ streak' = [u \in Accounts |-> IF allowance[u].until = 0 THEN 0 ELSE streak[u]]
    /\ sweep' = NoSweep
    /\ saver' = [h \in Savers |-> {}]
    /\ UNCHANGED <<clock, allowance, edits, excused>>

AddressesNext ==
    \/ \E u \in Accounts :
          \/ \E a \in Addresses : Observe(u, a)
          \/ \E l \in Limits : SetLimit(u, l)
          \/ \E h \in Savers : ReadRow(h, u)
          \/ Forget(u) \/ Visit(u)
    \/ \E h \in Savers : SaveRow(h)
    \/ Snapshot \/ Tick \/ List \/ PanelRestarts

AddressesSpec == AddressesInit /\ [][AddressesNext]_addresses

-----------------------------------------------------------------------------
(* Properties. *)

AddressesTypeOK ==
    /\ clock \in Nat /\ clock > TTL
    /\ seen \in [Accounts -> [Addresses -> Nat]]
    /\ tracked \in [Accounts -> SUBSET Addresses]
    /\ allowance \in [Accounts -> UserRows]
    /\ breaches \in [Accounts -> Nat] /\ streak \in [Accounts -> {0, 1, 2}]
    /\ sweep \in SweepRecords
    /\ saver \in [Savers -> SUBSET (Accounts \X UserRows)]
    /\ excused \subseteq Accounts

\* An account is held exactly when two sweeps in a row found more addresses
\* connected than its limit, whatever the cap on tracked addresses evicted and
\* whichever rows handlers saved: a roaming device is not locked out, and a
\* shared account is not overlooked.  Excused are a write that failed or was
\* overwritten by a whole row, and a limit beyond the cap.
LimitEnforced ==
    \A u \in Accounts \ excused : allowance[u].until # 0 <=> streak[u] = 2
=============================================================================
