------------------------------- MODULE Reload -------------------------------
(***************************************************************************)
(* From the tables to the running core.  Every mutation that changes what  *)
(* the cores should serve is followed by reloadEngines, most often in a    *)
(* goroutine of its own (startBackground).  A reload reads the inbounds,   *)
(* then the users, and then hands the result to Controller.ReloadSpecs,    *)
(* which alone is serialised (c.mu): what it was handed was read before    *)
(* the mutex was taken.  Supervisor.tla is what happens from there on.     *)
(*                                                                         *)
(* handleDisconnectUser runs its reload inline, and closes the user's      *)
(* connections after it: the order is the point, since a hot apply removes *)
(* a user without closing what is open, and a client reconnects at once.   *)
(* The closing is best effort: a connection may be left, and the answer is *)
(* the same.                                                               *)
(*                                                                         *)
(* Every user is on every inbound, and has an address of their own.        *)
(***************************************************************************)
EXTENDS Integers, FiniteSets

CONSTANTS
    People, Inbounds,
    Reloaders,      \* reloads that may run at once
    MaxMutations,   \* bound: changes of the tables
    MaxMishaps       \* bound: failed reads and failed applies

ASSUME ReloadAssumption ==
    /\ IsFiniteSet(People) /\ IsFiniteSet(Inbounds) /\ Inbounds # {}
    /\ MaxMutations \in Nat /\ MaxMishaps \in Nat

VARIABLES
    standing,   \* the users table: may the user be served
    held,       \* the users table: disconnected_until lies ahead
    enabled,    \* the inbounds table
    listening,  \* the inbounds the core serves
    clients,    \* the users it serves them to
    open,       \* users with an open connection
    job,        \* the reloads
    cut,        \* ghost: users a disconnect has dealt with and still holds
    spared,     \* ghost: users whose connection a disconnect left open
    restored,   \* ghost: held users put back by a reload that read them before the hold
    settled,    \* ghost: a reload that read the tables as they are has had its turn
    missed,     \* ghost: the last reload to finish had failed or was overtaken
    mutations, mishaps

ghosts == <<cut, spared, restored, settled, missed>>

reloading == <<standing, held, enabled, listening, clients, open, job, ghosts, mutations, mishaps>>

-----------------------------------------------------------------------------
\* "suspended" is a status that is not served (disabled, expired, limited) or
\* a hold over the number of addresses.
Standings == {"served", "suspended"}

Idle == [pc |-> "idle"]

Jobs ==
    {Idle} \cup
    [pc : {"inbounds", "users", "apply", "close"},
     inbounds : SUBSET Inbounds, users : SUBSET People,
     cuts : SUBSET People,     \* the user a disconnect request is about
     lifted : BOOLEAN,        \* ghost: the hold that request set is gone
     stale : BOOLEAN,         \* ghost: the tables changed since it began to read
     failed : BOOLEAN]

NewJob(cuts) ==
    [pc |-> "inbounds", inbounds |-> {}, users |-> {}, cuts |-> cuts,
     lifted |-> FALSE, stale |-> FALSE, failed |-> FALSE]

ReloadInit ==
    /\ standing = [u \in People |-> "served"]
    /\ held = {} /\ enabled = Inbounds
    /\ listening = Inbounds /\ clients = People
    /\ open = {}
    /\ job = [r \in Reloaders |-> Idle]
    /\ cut = {} /\ spared = {} /\ restored = {} /\ settled = TRUE /\ missed = FALSE
    /\ mutations = 0 /\ mishaps = 0

Mishap == mishaps < MaxMishaps /\ mishaps' = mishaps + 1

\* A reload that goes on while a change is committed: it may have read what
\* the change replaces, and the hold it was about may be gone.
Overlapped(j, freed) ==
    IF j = Idle THEN Idle
    ELSE [j EXCEPT !.stale = j.stale \/ j.pc \in {"users", "apply"},
                   !.lifted = j.lifted \/ freed \cap j.cuts # {}]

\* Faulty variant: a change made while a reload is running relies on that one.
Start_Coalesces(r, cuts, freed) ==
    /\ mutations < MaxMutations /\ mutations' = mutations + 1
    /\ job[r] = Idle
    /\ job' = [q \in Reloaders |->
                 IF q = r /\ \A p \in Reloaders : job[p] = Idle THEN NewJob(cuts)
                 ELSE Overlapped(job[q], freed)]
    /\ settled' = FALSE
    /\ UNCHANGED <<listening, clients, open, spared, restored, missed, mishaps>>

\* A handler (or the sweep) commits a change and starts a reload of its own,
\* whatever other reloads are under way.
Start(r, cuts, freed) ==
    /\ mutations < MaxMutations /\ mutations' = mutations + 1
    /\ job[r] = Idle
    /\ job' = [q \in Reloaders |-> IF q = r THEN NewJob(cuts) ELSE Overlapped(job[q], freed)]
    /\ settled' = FALSE
    /\ UNCHANGED <<listening, clients, open, spared, restored, missed, mishaps>>

-----------------------------------------------------------------------------
(* Mutations *)

\* An administrator, a quota, an expiry, a reset: a status changes.
SetStanding(r, u, s) ==
    /\ s # standing[u]
    /\ standing' = [standing EXCEPT ![u] = s]
    /\ Start(r, {}, {})
    /\ UNCHANGED <<held, enabled, cut>>

ToggleInbound(r, i) ==
    /\ enabled' = IF i \in enabled THEN enabled \ {i} ELSE enabled \cup {i}
    /\ Start(r, {}, {})
    /\ UNCHANGED <<standing, held, cut>>

\* handleDisconnectUser looks at nothing but the user's existence: a user
\* already held is held for longer.
Disconnect(r, u) ==
    /\ held' = held \cup {u}
    /\ Start(r, {u}, {})
    /\ UNCHANGED <<standing, enabled, cut>>

\* The hold is lifted by an administrator, or it has run out and the sweep has
\* noticed (the two are one step here).
Release(r, u) ==
    /\ u \in held
    /\ held' = held \ {u}
    /\ cut' = cut \ {u}
    /\ Start(r, {}, {u})
    /\ UNCHANGED <<standing, enabled>>

-----------------------------------------------------------------------------
(* reloadEngines *)

\* ListInbounds; if it fails there is nothing to serve, and the reload goes on.
ReadInbounds(r) ==
    /\ job[r].pc = "inbounds"
    /\ \/ job' = [job EXCEPT ![r].pc = "users", ![r].inbounds = enabled] /\ UNCHANGED mishaps
       \/ job' = [job EXCEPT ![r].pc = "apply", ![r].failed = TRUE] /\ Mishap
    /\ UNCHANGED <<standing, held, enabled, listening, clients, open, ghosts, mutations>>

\* Faulty variant: a disconnect hold is not looked at.
Entitled_Held == {u \in People : standing[u] = "served"}

Entitled == {u \in People : standing[u] = "served" /\ u \notin held}

\* ListUsers, whose error is dropped: the inbounds stay, without users.
ReadUsers(r) ==
    /\ job[r].pc = "users"
    /\ \/ job' = [job EXCEPT ![r].pc = "apply", ![r].users = Entitled] /\ UNCHANGED mishaps
       \/ job' = [job EXCEPT ![r].pc = "apply", ![r].failed = TRUE] /\ Mishap
    /\ UNCHANGED <<standing, held, enabled, listening, clients, open, ghosts, mutations>>

\* The reload is over; a disconnect goes on to close connections.  A reload
\* that read tables which have changed since, and comes after a reload that
\* read the new ones, was overtaken.
Finish(r, failed) ==
    /\ missed' = (failed \/ (job[r].stale /\ settled))
    /\ settled' = (settled \/ ~job[r].stale)
    /\ job' = [job EXCEPT ![r] =
                 IF job[r].cuts = {} THEN Idle ELSE [job[r] EXCEPT !.pc = "close", !.failed = failed]]

\* What the core is left with.  A restart closes every connection, a hot apply
\* none.
Handed(r) ==
    /\ spared' = spared \cap open'
    /\ restored' = (restored \cap open') \cup (IF job[r].stale THEN clients' \cap held ELSE {})
    /\ Finish(r, job[r].failed)

\* ReloadSpecs: a change of users alone may be applied to the running core and
\* leaves what is open open; anything else restarts or stops the core.  A
\* failure (no binary, a configuration that cannot be built) changes nothing
\* and its error is dropped.
Apply(r) ==
    /\ job[r].pc = "apply"
    /\ \/ /\ listening' = job[r].inbounds
          /\ clients' = IF job[r].inbounds = {} THEN {} ELSE job[r].users
          /\ open' \in (IF job[r].inbounds = listening THEN {open, {}} ELSE {{}})
          /\ Handed(r)
          /\ UNCHANGED mishaps
       \/ Mishap /\ Finish(r, TRUE) /\ UNCHANGED <<listening, clients, open, spared, restored>>
    /\ UNCHANGED <<standing, held, enabled, cut, mutations>>

\* connkill, and the answer to the administrator: the user is held.  Whether
\* the connections are closed, the answer does not depend on: one from an
\* address another user shares is left, one the presence table does not name
\* yet is not found, nothing is closed behind a platform's proxy or on a
\* system without connkill, and connkill may fail.
CloseConnections(r) ==
    /\ job[r].pc = "close"
    /\ open' \in {open, open \ job[r].cuts}
    /\ spared' = (spared \ job[r].cuts) \cup (open' \cap job[r].cuts)
    /\ cut' = IF job[r].failed \/ job[r].lifted THEN cut ELSE cut \cup job[r].cuts
    /\ job' = [job EXCEPT ![r] = Idle]
    /\ UNCHANGED <<standing, held, enabled, listening, clients, restored, settled, missed, mutations, mishaps>>

-----------------------------------------------------------------------------
(* Clients *)

Connect(u) ==
    /\ u \notin open
    /\ u \in clients /\ listening # {}
    /\ open' = open \cup {u}
    /\ UNCHANGED <<standing, held, enabled, listening, clients, job, ghosts, mutations, mishaps>>

Leave(u) ==
    /\ u \in open
    /\ open' = open \ {u}
    /\ spared' = spared \ {u}
    /\ UNCHANGED <<standing, held, enabled, listening, clients, job, cut, restored, settled, missed,
                   mutations, mishaps>>

-----------------------------------------------------------------------------
ReloadStep(r) == ReadInbounds(r) \/ ReadUsers(r) \/ Apply(r) \/ CloseConnections(r)

ReloadNext ==
    \/ \E r \in Reloaders, u \in People :
          \/ \E s \in Standings : SetStanding(r, u, s)
          \/ Disconnect(r, u) \/ Release(r, u)
    \/ \E r \in Reloaders, i \in Inbounds : ToggleInbound(r, i)
    \/ \E r \in Reloaders : ReloadStep(r)
    \/ \E u \in People : Connect(u) \/ Leave(u)

ReloadSpec == ReloadInit /\ [][ReloadNext]_reloading

-----------------------------------------------------------------------------
(* Properties *)

ReloadTypeOK ==
    /\ standing \in [People -> Standings] /\ held \subseteq People /\ enabled \subseteq Inbounds
    /\ listening \subseteq Inbounds /\ clients \subseteq People
    /\ listening = {} => clients = {}
    /\ open \subseteq People /\ cut \subseteq People
    /\ spared \subseteq People /\ restored \subseteq People
    /\ job \in [Reloaders -> Jobs] /\ settled \in BOOLEAN /\ missed \in BOOLEAN
    /\ mutations \in 0 .. MaxMutations /\ mishaps \in 0 .. MaxMishaps

\* Once a disconnect has been answered and until its hold is lifted, the user
\* has no connection but one the disconnect found and left: "the client's
\* immediate reconnect is refused rather than accepted on the credential we are
\* about to cut".  A disconnect whose own reload failed is not counted.
DisconnectHolds == cut \cap open \subseteq spared

\* The same for reloads that overlap: the one way back is a reload that read
\* the users before the hold was written and was applied after it.
DisconnectHoldsInOrder == cut \cap open \subseteq spared \cup restored

\* However many reloads overlap, and whatever changes while they run: when none
\* is running, the core serves the tables, unless the last to finish had failed
\* or was overtaken by the reload of a later change.
QuietMeansCurrent ==
    (\A r \in Reloaders : job[r] = Idle) /\ ~missed =>
        /\ listening = enabled
        /\ listening # {} => clients = Entitled

=============================================================================
