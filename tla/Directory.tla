----------------------------- MODULE Directory -----------------------------
(***************************************************************************)
(* The panel's rows that refer to each other (store/cascade.go,            *)
(* assignments.go, usertemplate.go, store.go): inbounds and their public   *)
(* hosts, groups and the inbounds they bind, users with a group and with   *)
(* inbounds of their own.  No foreign key guards a reference; every writer *)
(* has to.  Each store function is one transaction, so one action; a       *)
(* handler that reads a row, changes a field and saves the whole row is    *)
(* two, with its copy in "copy" between them.                              *)
(*                                                                         *)
(* The panel starts by bringing the database to the current schema         *)
(* (migrate/schema.go RunMigrations with the registry of                   *)
(* store/migrations.go): over a database an older release left behind,     *)
(* with the dangling references it left in it, over a new file, or over    *)
(* what an interrupted start left.  Of the registry the steps that change  *)
(* these rows are modelled; the others add empty columns and tables.       *)
(***************************************************************************)
EXTENDS Integers, FiniteSets

CONSTANTS UserIDs, GroupIDs, InboundIDs

VARIABLES
    boot,      \* "down", "adopt" or "migrate" while it runs the steps, "up"
    schema,    \* the tables exist
    ledger,    \* schema_migrations: does it exist, and the steps it records
    inbounds, hosts,          \* inbounds, and those with an endpoint row
    groups, column, default,  \* groups, Group.InboundIDs, Group.IsDefault
    mirror,                   \* group_inbounds
    users, groupOf,           \* users, User.GroupID: none or one
    direct,                   \* user_inbounds
    copy,      \* the copy a handler read and is about to save
    stray      \* ghost: users given a group no check covered and none exists

start == <<boot, schema, ledger>>
access == <<inbounds, hosts, groups, column, default, mirror>>
accounts == <<users, groupOf, direct, stray>>
directory == <<start, access, accounts, copy>>

-----------------------------------------------------------------------------
Nothing == [kind |-> "none"]
OneOrNone(S) == {{}} \cup {{x} : x \in S}

Steps == {"baseline", "repair", "bindings"}
Recorded == ledger.steps
Current == boot = "up"

Pairs(gs, col) == {p \in gs \X InboundIDs : p[2] \in col[p[1]]}
Live == users \X inbounds

Copies ==
    {Nothing}
    \cup [kind : {"user"}, user : UserIDs, group : OneOrNone(GroupIDs)]
    \cup [kind : {"inbound", "host"}, inbound : InboundIDs]

\* The group of the users in us becomes g, checked or not.
Stray(us, g, gs) == IF g \subseteq gs THEN stray \ us ELSE stray \cup us

-----------------------------------------------------------------------------
\* A new file, or the rows of a release without the registry: references may
\* dangle everywhere, and there is no mirror.
DirectoryInit ==
    /\ boot = "down" /\ ledger = [exists |-> FALSE, steps |-> {}]
    /\ schema \in BOOLEAN
    /\ inbounds \in SUBSET InboundIDs /\ groups \in SUBSET GroupIDs /\ users \in SUBSET UserIDs
    /\ column \in [GroupIDs -> SUBSET InboundIDs]
    /\ groupOf \in [UserIDs -> OneOrNone(GroupIDs)]
    /\ direct \in SUBSET (UserIDs \X InboundIDs)
    /\ default \in OneOrNone(GroupIDs)
    /\ \A g \in GroupIDs \ groups : column[g] = {} /\ g \notin default
    /\ \A u \in UserIDs \ users : groupOf[u] = {}
    /\ ~schema => inbounds = {} /\ groups = {} /\ users = {} /\ direct = {}
    /\ hosts = {} /\ mirror = {} /\ copy = Nothing /\ stray = {}

-----------------------------------------------------------------------------
(* RunMigrations *)

\* The ledger table is created when it is missing, and only then is an existing
\* schema looked for.
Open ==
    /\ boot = "down"
    /\ ledger' = [ledger EXCEPT !.exists = TRUE]
    /\ boot' = IF ~ledger.exists /\ schema THEN "adopt" ELSE "migrate"
    /\ UNCHANGED <<schema, access, accounts, copy>>

Record(step) == ledger' = [exists |-> TRUE, steps |-> ledger.steps \cup {step}]

\* Adopted: recorded without running.  Otherwise createSchema, which fails on
\* tables that exist: the panel does not start.
Baseline ==
    /\ boot \in {"adopt", "migrate"} /\ "baseline" \notin Recorded
    /\ \/ boot = "adopt" /\ Record("baseline") /\ UNCHANGED <<boot, schema>>
       \/ boot = "migrate" /\ ~schema /\ Record("baseline") /\ schema' = TRUE /\ UNCHANGED boot
       \/ boot = "migrate" /\ schema /\ boot' = "down" /\ UNCHANGED <<schema, ledger>>
    /\ UNCHANGED <<access, accounts, copy>>

\* repairOrphans, with its record.
RepairOrphans ==
    /\ boot \in {"adopt", "migrate"} /\ "baseline" \in Recorded /\ "repair" \notin Recorded
    /\ Record("repair")
    /\ direct' = direct \cap Live
    /\ groupOf' = [u \in UserIDs |-> groupOf[u] \cap groups]
    /\ column' = [g \in GroupIDs |-> column[g] \cap inbounds]
    /\ UNCHANGED <<boot, schema, inbounds, hosts, groups, default, mirror, users, stray, copy>>

\* group_inbounds is created and filled from the column.
Backfill ==
    /\ boot \in {"adopt", "migrate"} /\ "repair" \in Recorded /\ "bindings" \notin Recorded
    /\ Record("bindings")
    /\ mirror' = Pairs(groups, column)
    /\ UNCHANGED <<boot, schema, inbounds, hosts, groups, column, default, accounts, copy>>

Ready ==
    /\ boot \in {"adopt", "migrate"} /\ Recorded = Steps
    /\ boot' = "up"
    /\ UNCHANGED <<schema, ledger, access, accounts, copy>>

\* The process is killed, at any time.
Killed ==
    /\ boot # "down"
    /\ boot' = "down" /\ copy' = Nothing
    /\ UNCHANGED <<schema, ledger, access, accounts>>

-----------------------------------------------------------------------------
(* InboundIDs and hosts *)

CreateInbound(i) ==
    /\ Current /\ i \notin inbounds
    /\ inbounds' = inbounds \cup {i}
    /\ UNCHANGED <<start, hosts, groups, column, default, mirror, accounts, copy>>

\* Faulty variant: the assignments of a deleted inbound stay.
DeleteInbound_Alone(i) ==
    /\ Current
    /\ inbounds' = inbounds \ {i} /\ hosts' = hosts \ {i}
    /\ column' = [g \in GroupIDs |-> column[g] \ {i}]
    /\ mirror' = mirror \ (GroupIDs \X {i})
    /\ UNCHANGED <<start, groups, default, accounts, copy>>

\* deleteInboundTx; an id that is not there is cleaned up after all the same.
DeleteInbound(i) ==
    /\ Current
    /\ inbounds' = inbounds \ {i} /\ hosts' = hosts \ {i}
    /\ column' = [g \in GroupIDs |-> column[g] \ {i}]
    /\ mirror' = mirror \ (GroupIDs \X {i})
    /\ direct' = direct \ (UserIDs \X {i})
    /\ UNCHANGED <<start, groups, default, users, groupOf, stray, copy>>

-----------------------------------------------------------------------------
(* GroupIDs *)

\* The ids of the request are not looked up.
CreateGroup(g, ids) ==
    /\ Current /\ g \notin groups
    /\ groups' = groups \cup {g}
    /\ column' = [column EXCEPT ![g] = ids]
    /\ mirror' = mirror \cup ({g} \X ids)
    /\ UNCHANGED <<start, inbounds, hosts, default, accounts, copy>>

\* Faulty variant: the mirror is filled and never emptied.
UpdateGroupFields_Appends(g, ids) ==
    /\ Current /\ g \in groups /\ ids \subseteq inbounds
    /\ column' = [column EXCEPT ![g] = ids]
    /\ mirror' = mirror \cup ({g} \X ids)
    /\ UNCHANGED <<start, inbounds, hosts, groups, default, accounts, copy>>

UpdateGroupFields(g, ids) ==
    /\ Current /\ g \in groups /\ ids \subseteq inbounds
    /\ column' = [column EXCEPT ![g] = ids]
    /\ mirror' = (mirror \ ({g} \X InboundIDs)) \cup ({g} \X ids)
    /\ UNCHANGED <<start, inbounds, hosts, groups, default, accounts, copy>>

\* Faulty variant: the flag is set without clearing the others.
SetDefaultGroup_Keeps(d) ==
    /\ Current /\ d \subseteq groups
    /\ default' = default \cup d
    /\ UNCHANGED <<start, inbounds, hosts, groups, column, mirror, accounts, copy>>

\* The second transaction of handleUpdateGroup: this group, or none.
SetDefaultGroup(d) ==
    /\ Current /\ d \subseteq groups
    /\ default' = d
    /\ UNCHANGED <<start, inbounds, hosts, groups, column, mirror, accounts, copy>>

\* The members go to a group that exists, which may be the one deleted, or to
\* none if the caller accepts it.
DeleteGroupSafely(g, to, allowOrphan) ==
    LET members == {u \in users : groupOf[u] = {g}} IN
    /\ Current /\ g \in groups /\ to \subseteq groups
    /\ members = {} \/ allowOrphan \/ to # {}
    /\ groupOf' = [u \in UserIDs |-> IF u \in members THEN to ELSE groupOf[u]]
    /\ groups' = groups \ {g}
    /\ column' = [column EXCEPT ![g] = {}]
    /\ mirror' = mirror \ ({g} \X InboundIDs)
    /\ default' = default \ {g}
    /\ stray' = Stray(members, to, groups')
    /\ UNCHANGED <<start, inbounds, hosts, users, direct, copy>>

-----------------------------------------------------------------------------
(* UserIDs *)

\* The group of the request, or of the plan, is not looked up.  A plan's
\* inbounds follow in a transaction of their own: SetUserInbounds, or nothing
\* when it is refused.
CreateUser(u, g) ==
    /\ Current /\ u \notin users
    /\ users' = users \cup {u}
    /\ groupOf' = [groupOf EXCEPT ![u] = g]
    /\ stray' = Stray({u}, g, groups)
    /\ UNCHANGED <<start, access, direct, copy>>

DeleteUser(u) ==
    /\ Current /\ u \in users
    /\ users' = users \ {u}
    /\ groupOf' = [groupOf EXCEPT ![u] = {}]
    /\ direct' = direct \ ({u} \X InboundIDs)
    /\ stray' = stray \ {u}
    /\ UNCHANGED <<start, access, copy>>

\* The group is looked up in the same transaction.
UpdateUserFields(u, g) ==
    /\ Current /\ u \in users /\ g \subseteq groups
    /\ groupOf' = [groupOf EXCEPT ![u] = g]
    /\ stray' = stray \ {u}
    /\ UNCHANGED <<start, access, users, direct, copy>>

Assign(u, ids) == direct' = (direct \ ({u} \X InboundIDs)) \cup ({u} \X ids)

SetUserInbounds(u, ids) ==
    /\ Current /\ u \in users /\ ids \subseteq inbounds
    /\ Assign(u, ids)
    /\ UNCHANGED <<start, access, users, groupOf, stray, copy>>

\* A plan holds ids that were never looked up: its inbounds are checked when it
\* is applied, its group is not.
ApplyTemplateToUser(u, g, ids) ==
    /\ Current /\ u \in users /\ ids \subseteq inbounds
    /\ Assign(u, ids)
    /\ groupOf' = [groupOf EXCEPT ![u] = g]
    /\ stray' = Stray({u}, g, groups)
    /\ UNCHANGED <<start, access, users, copy>>

-----------------------------------------------------------------------------
(* Handlers that save what they read: the sweeps, the bot, an undo, a toggle.  *)
(* Saving a row that has been deleted inserts it again.                        *)

Hold ==
    /\ Current /\ copy = Nothing
    /\ copy' \in
        {[kind |-> "user", user |-> u, group |-> groupOf[u]] : u \in users}
        \cup [kind : {"inbound", "host"}, inbound : inbounds]
    /\ UNCHANGED <<start, access, accounts>>

SaveUser ==
    /\ Current /\ copy.kind = "user"
    /\ users' = users \cup {copy.user}
    /\ groupOf' = [groupOf EXCEPT ![copy.user] = copy.group]
    /\ stray' = Stray({copy.user}, copy.group, groups)
    /\ copy' = Nothing
    /\ UNCHANGED <<start, access, direct>>

SaveInbound ==
    /\ Current /\ copy.kind = "inbound"
    /\ inbounds' = inbounds \cup {copy.inbound}
    /\ copy' = Nothing
    /\ UNCHANGED <<start, hosts, groups, column, default, mirror, accounts>>

\* The handler has looked the inbound up; CreateHost does not.
CreateHost ==
    /\ Current /\ copy.kind = "host"
    /\ hosts' = hosts \cup {copy.inbound}
    /\ copy' = Nothing
    /\ UNCHANGED <<start, inbounds, groups, column, default, mirror, accounts>>

-----------------------------------------------------------------------------
StartUp == Open \/ Baseline \/ RepairOrphans \/ Backfill \/ Ready \/ Killed

Handler ==
    \/ \E i \in InboundIDs : CreateInbound(i) \/ DeleteInbound(i)
    \/ \E g \in GroupIDs, ids \in SUBSET InboundIDs : CreateGroup(g, ids) \/ UpdateGroupFields(g, ids)
    \/ \E d \in OneOrNone(GroupIDs) : SetDefaultGroup(d)
    \/ \E g \in GroupIDs, to \in OneOrNone(GroupIDs), allowOrphan \in BOOLEAN :
        DeleteGroupSafely(g, to, allowOrphan)
    \/ \E u \in UserIDs, g \in OneOrNone(GroupIDs) : CreateUser(u, g) \/ UpdateUserFields(u, g)
    \/ \E u \in UserIDs : DeleteUser(u)
    \/ \E u \in UserIDs, ids \in SUBSET InboundIDs :
        SetUserInbounds(u, ids) \/ \E g \in OneOrNone(GroupIDs) : ApplyTemplateToUser(u, g, ids)
    \/ Hold \/ SaveUser \/ SaveInbound \/ CreateHost

DirectoryNext == StartUp \/ Handler

DirectorySpec == DirectoryInit /\ [][DirectoryNext]_directory

-----------------------------------------------------------------------------
(* Properties *)

DirectoryTypeOK ==
    /\ boot \in {"down", "adopt", "migrate", "up"} /\ schema \in BOOLEAN
    /\ ledger \in [exists : BOOLEAN, steps : SUBSET Steps]
    /\ inbounds \in SUBSET InboundIDs /\ hosts \in SUBSET InboundIDs
    /\ groups \in SUBSET GroupIDs /\ column \in [GroupIDs -> SUBSET InboundIDs]
    /\ default \in SUBSET GroupIDs /\ mirror \in SUBSET (GroupIDs \X InboundIDs)
    /\ users \in SUBSET UserIDs /\ groupOf \in [UserIDs -> OneOrNone(GroupIDs)]
    /\ direct \in SUBSET (UserIDs \X InboundIDs)
    /\ copy \in Copies /\ stray \in SUBSET UserIDs

\* Once the repair step is recorded, an assignment names a user and an inbound
\* that exist ("a subscription keeps resolving through an inbound that no longer
\* exists"), and a user's group exists, unless it was written without a check.
ReferencesLive ==
    "repair" \in Recorded =>
        /\ direct \subseteq Live
        /\ \A u \in users \ stray : groupOf[u] \subseteq groups

\* Once it has been filled, the join table answers "which groups reference this
\* inbound" exactly as the text column would, after every writer of either.
MirrorExact == "bindings" \in Recorded => mirror = Pairs(groups, column)

\* "At most one default", and it is a group that exists.
OneDefault == Cardinality(default) <= 1 /\ default \subseteq groups
=============================================================================
