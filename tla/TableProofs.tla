---------------------------- MODULE TableProofs -----------------------------
(***************************************************************************)
(* Theorems about the tables of the store that several handlers share:     *)
(* Directory, Routing and WireGuardPeers, for every set of rows and callers.*)
(***************************************************************************)
EXTENDS Directory, Routing, WireGuardPeers, FiniteSetTheorems, TLAPS

-----------------------------------------------------------------------------
(***************************************************************************)
(* Directory: references, the join table and the default group stay right  *)
(* whatever handlers, stale saves and crashes interleave.                  *)
(***************************************************************************)

-----------------------------------------------------------------------------
(* Sets of at most one element *)

\* Dropping elements keeps a set of at most one element one.
LEMMA OneOrNoneDrops ==
    ASSUME NEW S, NEW T, NEW d \in OneOrNone(S)
    PROVE  d \cap T \in OneOrNone(S \cap T) /\ d \ T \in OneOrNone(S \ T)
BY DEF OneOrNone

\* One or none of a smaller set is one or none of a larger.
LEMMA OneOrNoneGrows ==
    ASSUME NEW S, NEW T, S \subseteq T, NEW d \in OneOrNone(S)
    PROVE  d \in OneOrNone(T)
BY DEF OneOrNone

\* What its cardinality is.
LEMMA OneOrNoneCardinality ==
    ASSUME NEW S, NEW d \in OneOrNone(S)
    PROVE  Cardinality(d) <= 1 /\ d \subseteq S
<1>1. CASE d = {}
  BY <1>1, FS_EmptySet
<1>2. ASSUME NEW x \in S, d = {x} PROVE Cardinality(d) <= 1 /\ d \subseteq S
  <2>1. Cardinality({x}) = 1
    BY FS_Singleton
  <2> QED
    BY <1>2, <2>1
<1> QED
  BY <1>1, <1>2 DEF OneOrNone

-----------------------------------------------------------------------------
(* The induction, one group of actions at a time *)

\* The panel serves only when every step is recorded.
ServesCurrent == Current => Recorded = Steps

\* The steps are recorded in order.
InOrder ==
    /\ "repair" \in Recorded => "baseline" \in Recorded
    /\ "bindings" \in Recorded => "repair" \in Recorded

\* The default group is none, or one that exists.
DefaultLives == default \in OneOrNone(groups)

\* What every step preserves.
DirectoryInv ==
    /\ DirectoryTypeOK
    /\ ServesCurrent
    /\ InOrder
    /\ ReferencesLive
    /\ MirrorExact
    /\ DefaultLives

USE DEF Current, Recorded, Steps

\* The initial states.
LEMMA DirectoryInitInv == DirectoryInit => DirectoryInv
<1> SUFFICES ASSUME DirectoryInit PROVE DirectoryInv
  OBVIOUS
<1>1. default \in OneOrNone(groups)
  BY DEF DirectoryInit, OneOrNone
<1>2. default \in SUBSET GroupIDs
  BY DEF DirectoryInit, OneOrNone
<1>3. DirectoryTypeOK
  BY <1>2 DEF DirectoryInit, DirectoryTypeOK, Copies
<1> QED
  BY <1>1, <1>3 DEF DirectoryInit, DirectoryInv, ServesCurrent, InOrder, ReferencesLive, MirrorExact, DefaultLives

\* Opening, recording, repairing, filling the join table, serving, crashing.
LEMMA StartInv ==
    ASSUME DirectoryInv, StartUp
    PROVE  DirectoryInv'
<1> USE DEF DirectoryInv, DirectoryTypeOK, access, accounts, ServesCurrent, InOrder, DefaultLives
<1>1. CASE Open
  BY <1>1 DEF Open, ReferencesLive, MirrorExact, Pairs, Live
<1>2. CASE Baseline
  <2>1. \/ ledger' = ledger
        \/ ledger' = [exists |-> TRUE, steps |-> ledger.steps \cup {"baseline"}]
    BY <1>2 DEF Baseline, Record
  <2>2. ServesCurrent' /\ InOrder' /\ DefaultLives'
    BY <1>2, <2>1 DEF Baseline
  <2>3. ledger' \in [exists : BOOLEAN, steps : SUBSET Steps]
    <3>1. CASE ledger' = ledger
      BY <3>1
    <3>2. ledger.steps \cup {"baseline"} \in SUBSET Steps
      OBVIOUS
    <3>3. [exists |-> TRUE, steps |-> ledger.steps \cup {"baseline"}]
            \in [exists : BOOLEAN, steps : SUBSET Steps]
      BY <3>2
    <3> QED
      BY <2>1, <3>1, <3>3
  <2>4. DirectoryTypeOK'
    BY <1>2, <2>3 DEF Baseline
  <2>5. ReferencesLive'
    BY <1>2, <2>1 DEF Baseline, ReferencesLive, Live
  <2>6. MirrorExact'
    BY <1>2, <2>1 DEF Baseline, MirrorExact, Pairs
  <2> QED
    BY <2>2, <2>4, <2>5, <2>6
<1>3. CASE RepairOrphans
  <2>1. groupOf' \in [UserIDs -> OneOrNone(GroupIDs)]
    <3>1. ASSUME NEW u \in UserIDs PROVE groupOf[u] \cap groups \in OneOrNone(GroupIDs)
      BY DEF OneOrNone
    <3> QED
      BY <1>3, <3>1 DEF RepairOrphans
  <2>2. DirectoryTypeOK'
    BY <1>3, <2>1 DEF RepairOrphans, Record
  <2>3. ReferencesLive'
    BY <1>3 DEF RepairOrphans, ReferencesLive, Live
  <2>4. MirrorExact' /\ ServesCurrent' /\ InOrder' /\ DefaultLives'
    BY <1>3 DEF RepairOrphans, Record, MirrorExact, Pairs
  <2> QED
    BY <2>2, <2>3, <2>4
<1>4. CASE Backfill
  <2>1. mirror' \in SUBSET (GroupIDs \X InboundIDs)
    BY <1>4 DEF Backfill, Pairs
  <2> QED
    BY <1>4, <2>1 DEF Backfill, Record, ReferencesLive, MirrorExact, Pairs, Live
<1>5. CASE Ready
  BY <1>5 DEF Ready, ReferencesLive, MirrorExact, Pairs, Live
<1>6. CASE Killed
  BY <1>6 DEF Killed, ReferencesLive, MirrorExact, Pairs, Live, Copies
<1> QED
  BY <1>1, <1>2, <1>3, <1>4, <1>5, <1>6 DEF StartUp

\* InboundIDs: what they are named by goes with them.
LEMMA InboundInv ==
    ASSUME DirectoryInv, NEW i \in InboundIDs, CreateInbound(i) \/ DeleteInbound(i)
    PROVE  DirectoryInv'
<1> USE DEF DirectoryInv, DirectoryTypeOK, start, accounts, ServesCurrent, InOrder, DefaultLives, ReferencesLive, Live
<1>1. CASE CreateInbound(i)
  BY <1>1 DEF CreateInbound, MirrorExact, Pairs
<1>2. CASE DeleteInbound(i)
  <2>1. MirrorExact'
    <3>1. Pairs(groups, column') = Pairs(groups, column) \ (GroupIDs \X {i})
      BY <1>2 DEF DeleteInbound, Pairs
    <3> QED
      BY <1>2, <3>1 DEF DeleteInbound, MirrorExact
  <2>2. ReferencesLive'
    BY <1>2 DEF DeleteInbound
  <2>3. DirectoryTypeOK' /\ ServesCurrent' /\ InOrder' /\ DefaultLives'
    BY <1>2 DEF DeleteInbound
  <2> QED
    BY <2>1, <2>2, <2>3
<1> QED
  BY <1>1, <1>2

\* Creating and editing a group: the column and the join table together.
LEMMA BindingInv ==
    ASSUME DirectoryInv, NEW g \in GroupIDs, NEW ids \in SUBSET InboundIDs,
           CreateGroup(g, ids) \/ UpdateGroupFields(g, ids)
    PROVE  DirectoryInv'
<1> USE DEF DirectoryInv, DirectoryTypeOK, start, accounts, ServesCurrent, InOrder, ReferencesLive, Live
<1>1. CASE CreateGroup(g, ids)
  <2>1. Pairs(groups', column') = Pairs(groups, column) \cup ({g} \X ids)
    BY <1>1 DEF CreateGroup, Pairs
  <2>2. default' \in OneOrNone(groups')
    BY <1>1, OneOrNoneGrows DEF CreateGroup, DefaultLives
  <2> QED
    BY <1>1, <2>1, <2>2 DEF CreateGroup, MirrorExact, DefaultLives
<1>2. CASE UpdateGroupFields(g, ids)
  <2>1. Pairs(groups', column') = (Pairs(groups, column) \ ({g} \X InboundIDs)) \cup ({g} \X ids)
    BY <1>2 DEF UpdateGroupFields, Pairs
  <2> QED
    BY <1>2, <2>1 DEF UpdateGroupFields, MirrorExact, DefaultLives
<1> QED
  BY <1>1, <1>2

\* The default flag moves as a whole.
LEMMA DefaultInv ==
    ASSUME DirectoryInv, NEW d \in OneOrNone(GroupIDs), SetDefaultGroup(d)
    PROVE  DirectoryInv'
<1>1. d \in OneOrNone(groups) /\ d \in SUBSET GroupIDs
  BY DEF SetDefaultGroup, OneOrNone
<1> QED
  BY <1>1 DEF SetDefaultGroup, DirectoryInv, DirectoryTypeOK, start, accounts, ServesCurrent, InOrder, ReferencesLive, Live,
    DefaultLives, MirrorExact, Pairs

\* Deleting a group moves its members, and its bindings go.
LEMMA DeleteGroupInv ==
    ASSUME DirectoryInv, NEW g \in GroupIDs, NEW to \in OneOrNone(GroupIDs), NEW allowOrphan \in BOOLEAN,
           DeleteGroupSafely(g, to, allowOrphan)
    PROVE  DirectoryInv'
<1> USE DEF DirectoryInv, DirectoryTypeOK, start
<1> DEFINE members == {u \in users : groupOf[u] = {g}}
<1>1. /\ groups' = groups \ {g} /\ users' = users /\ direct' = direct /\ inbounds' = inbounds
      /\ groupOf' = [u \in UserIDs |-> IF u \in members THEN to ELSE groupOf[u]]
      /\ stray' = IF to \subseteq groups' THEN stray \ members ELSE stray \cup members
      /\ ledger' = ledger /\ boot' = boot
  BY DEF DeleteGroupSafely, Stray
<1>2. DirectoryTypeOK'
  BY <1>1 DEF DeleteGroupSafely, Stray
<1>3. ReferencesLive'
  <2> SUFFICES ASSUME ReferencesLive, "repair" \in ledger.steps,
                      NEW u \in users, u \notin stray'
               PROVE  groupOf'[u] \subseteq groups'
    BY <1>1 DEF ReferencesLive, Live
  <2>1. CASE u \in members
    BY <1>1, <2>1
  <2>2. CASE u \notin members
    <3>1. groupOf'[u] = groupOf[u] /\ u \notin stray /\ groupOf[u] # {g}
      BY <1>1, <2>2
    <3>2. groupOf[u] \subseteq groups /\ groupOf[u] \in OneOrNone(GroupIDs)
      BY <3>1 DEF ReferencesLive
    <3> QED
      BY <1>1, <3>1, <3>2 DEF OneOrNone
  <2> QED
    BY <2>1, <2>2
<1>4. MirrorExact'
  <2>1. Pairs(groups', column') = Pairs(groups, column) \ ({g} \X InboundIDs)
    BY DEF DeleteGroupSafely, Pairs
  <2> QED
    BY <1>1, <2>1 DEF DeleteGroupSafely, MirrorExact
<1>5. DefaultLives'
  BY <1>1, OneOrNoneDrops DEF DeleteGroupSafely, DefaultLives
<1>6. ServesCurrent' /\ InOrder'
  BY <1>1 DEF ServesCurrent, InOrder
<1> QED
  BY <1>2, <1>3, <1>4, <1>5, <1>6

\* UserIDs: a group written without a check is live or marked.
LEMMA UserInv ==
    ASSUME DirectoryInv, NEW u \in UserIDs, NEW g \in OneOrNone(GroupIDs),
           CreateUser(u, g) \/ UpdateUserFields(u, g) \/ DeleteUser(u)
    PROVE  DirectoryInv'
<1> USE DEF DirectoryInv, DirectoryTypeOK, start, access, ServesCurrent, InOrder, DefaultLives, MirrorExact, Pairs,
      ReferencesLive, Live
<1>1. CASE CreateUser(u, g)
  BY <1>1 DEF CreateUser, Stray
<1>2. CASE UpdateUserFields(u, g)
  BY <1>2 DEF UpdateUserFields
<1>3. CASE DeleteUser(u)
  <2>1. groupOf' \in [UserIDs -> OneOrNone(GroupIDs)]
    BY <1>3 DEF DeleteUser, OneOrNone
  <2> QED
    BY <1>3, <2>1 DEF DeleteUser
<1> QED
  BY <1>1, <1>2, <1>3

\* Assignments name a user and inbounds looked up in the same transaction.
LEMMA AssignInv ==
    ASSUME DirectoryInv, NEW u \in UserIDs, NEW g \in OneOrNone(GroupIDs), NEW ids \in SUBSET InboundIDs,
           SetUserInbounds(u, ids) \/ ApplyTemplateToUser(u, g, ids)
    PROVE  DirectoryInv'
<1> USE DEF DirectoryInv, DirectoryTypeOK, start, access, ServesCurrent, InOrder, DefaultLives, MirrorExact, Pairs, Assign
<1>1. CASE SetUserInbounds(u, ids)
  BY <1>1 DEF SetUserInbounds, ReferencesLive, Live
<1>2. CASE ApplyTemplateToUser(u, g, ids)
  <2>1. DirectoryTypeOK'
    BY <1>2 DEF ApplyTemplateToUser, Stray
  <2>2. ReferencesLive'
    BY <1>2 DEF ApplyTemplateToUser, Stray, ReferencesLive, Live
  <2>3. ServesCurrent' /\ InOrder' /\ DefaultLives' /\ MirrorExact'
    BY <1>2 DEF ApplyTemplateToUser
  <2> QED
    BY <2>1, <2>2, <2>3
<1> QED
  BY <1>1, <1>2

\* A copy in a handler's hands, saved whenever it likes, brings back no reference.
LEMMA StaleInv ==
    ASSUME DirectoryInv, Hold \/ SaveUser \/ SaveInbound \/ CreateHost
    PROVE  DirectoryInv'
<1> USE DEF DirectoryInv, DirectoryTypeOK, start, access, accounts, ServesCurrent, InOrder, DefaultLives, MirrorExact, Pairs
<1>1. CASE Hold
  <2>1. copy' \in Copies
    BY <1>1 DEF Hold, Copies
  <2> QED
    BY <1>1, <2>1 DEF Hold, ReferencesLive, Live
<1>2. CASE SaveUser
  <2>1. copy.user \in UserIDs /\ copy.group \in OneOrNone(GroupIDs)
    BY <1>2 DEF SaveUser, Copies, Nothing
  <2>2. DirectoryTypeOK'
    BY <1>2, <2>1 DEF SaveUser, Stray, Copies
  <2>3. ReferencesLive'
    BY <1>2, <2>1 DEF SaveUser, Stray, ReferencesLive, Live
  <2>4. ServesCurrent' /\ InOrder' /\ DefaultLives' /\ MirrorExact'
    BY <1>2 DEF SaveUser
  <2> QED
    BY <2>2, <2>3, <2>4
<1>3. CASE SaveInbound \/ CreateHost
  <2>1. copy.inbound \in InboundIDs
    BY <1>3 DEF SaveInbound, CreateHost, Copies, Nothing
  <2> QED
    BY <1>3, <2>1 DEF SaveInbound, CreateHost, Copies, ReferencesLive, Live
<1> QED
  BY <1>1, <1>2, <1>3

\* A handler, any of them.
LEMMA HandlerInv ==
    ASSUME DirectoryInv, Handler
    PROVE  DirectoryInv'
<1>1. {} \in OneOrNone(GroupIDs)
  BY DEF OneOrNone
<1> QED
  BY <1>1, InboundInv, BindingInv, DefaultInv, DeleteGroupInv, UserInv, AssignInv, StaleInv
  DEF Handler

\* A step in which nothing changes.
LEMMA StutterInv ==
    ASSUME DirectoryInv, UNCHANGED directory
    PROVE  DirectoryInv'
BY DEF DirectoryInv, DirectoryTypeOK, directory, start, access, accounts, ServesCurrent, InOrder, DefaultLives, MirrorExact,
  Pairs, ReferencesLive, Live

\* The invariant holds of every reachable state.
THEOREM DirectoryInvariant == DirectorySpec => []DirectoryInv
<1>1. DirectoryInv /\ [DirectoryNext]_directory => DirectoryInv'
  BY StartInv, HandlerInv, StutterInv DEF DirectoryNext
<1> QED
  BY DirectoryInitInv, <1>1, PTL DEF DirectorySpec

-----------------------------------------------------------------------------
\* Every variable keeps its type, for every set of users, groups and inbounds.
THEOREM DirectoryTypeCorrect == DirectorySpec => []DirectoryTypeOK
<1>1. DirectoryInv => DirectoryTypeOK
  BY DEF DirectoryInv
<1> QED
  BY <1>1, DirectoryInvariant, PTL

\* No interleaving of deletes, edits, plans, stale saves and restarts leaves an
\* assignment of a user or an inbound that is gone, or a checked group that is.
THEOREM ReferencesStayLive == DirectorySpec => []ReferencesLive
<1>1. DirectoryInv => ReferencesLive
  BY DEF DirectoryInv
<1> QED
  BY <1>1, DirectoryInvariant, PTL

\* The join table mirrors the text column in every reachable state.
THEOREM MirrorStaysExact == DirectorySpec => []MirrorExact
<1>1. DirectoryInv => MirrorExact
  BY DEF DirectoryInv
<1> QED
  BY <1>1, DirectoryInvariant, PTL

\* There is never more than one default group, and it exists.
THEOREM DefaultStaysOne == DirectorySpec => []OneDefault
<1>1. DirectoryInv => OneDefault
  BY OneOrNoneCardinality DEF DirectoryInv, DefaultLives, OneDefault
<1> QED
  BY <1>1, DirectoryInvariant, PTL

-----------------------------------------------------------------------------
(***************************************************************************)
(* Routing: requests that do not overlap keep the table one that renders.  *)
(***************************************************************************)

-----------------------------------------------------------------------------
(* Lemmas about the rows *)

\* Removing a row nothing names keeps the table rendering.
LEMMA RemoveRenders ==
    ASSUME table \in [Ids -> Rows \cup {Missing}], NEW x \in Ids,
           Renders(table), ~Referenced(x)
    PROVE  Renders([table EXCEPT ![x] = Missing])
<1> DEFINE t == [table EXCEPT ![x] = Missing]
<1>1. /\ t[x] = Missing
      /\ \A y \in Ids : y # x => t[y] = table[y]
  OBVIOUS
<1>2. /\ Enabled(t, Outbounds) = Enabled(table, Outbounds) \ {x}
      /\ Enabled(t, Balancers) = Enabled(table, Balancers) \ {x}
      /\ Enabled(t, Rules) = Enabled(table, Rules) \ {x}
  BY <1>1 DEF Enabled, Present, Ids
<1> DEFINE known(s) == TagsOf(s, Enabled(s, Outbounds))
           balancers(s) == TagsOf(s, Enabled(s, Balancers))
<1> HIDE DEF t
<1>3. known(table) \ {table[x].tag} \subseteq known(t)
  BY <1>1, <1>2 DEF TagsOf, Enabled, Present, Ids
<1>4. balancers(table) \ {table[x].tag} \subseteq balancers(t)
  BY <1>1, <1>2 DEF TagsOf, Enabled, Present, Ids
<1>5. x \notin Outbounds => known(table) \subseteq known(t)
  BY <1>1, <1>2 DEF TagsOf, Enabled, Present, Ids
<1>6. ASSUME NEW y \in Enabled(t, Balancers)
      PROVE  t[y].names \subseteq known(t)
  <2>1. y \in Enabled(table, Balancers) /\ y # x /\ t[y] = table[y] /\ y \in Present(table, Balancers)
    BY <1>1, <1>2 DEF Enabled, Present, Ids
  <2>2. table[y].names \subseteq known(table)
    BY <2>1 DEF Renders, GroupsRender, RulesRender
  <2>3. CASE x \in Outbounds
    <3>1. table[x].tag \notin table[y].names
      BY <2>1, <2>3 DEF Referenced, OutboundReferenced, GroupReferenced, NamedIn, Present
    <3> QED
      BY <1>3, <2>1, <2>2, <3>1
  <2>4. CASE x \notin Outbounds
    BY <1>5, <2>1, <2>2, <2>4
  <2> QED
    BY <2>3, <2>4
<1>7. ASSUME NEW y \in Enabled(t, Rules)
      PROVE  t[y].names \subseteq known(t) \cup balancers(t)
  <2>1. y \in Enabled(table, Rules) /\ y # x /\ t[y] = table[y] /\ y \in Present(table, Rules)
    BY <1>1, <1>2 DEF Enabled, Present, Ids
  <2>2. table[y].names \subseteq known(table) \cup balancers(table)
    BY <2>1 DEF Renders, GroupsRender, RulesRender
  <2>3. table[x].tag \notin table[y].names
    BY <2>1 DEF Referenced, OutboundReferenced, GroupReferenced, NamedIn, Present
  <2> QED
    BY <1>3, <1>4, <2>1, <2>2, <2>3
<1>8. Renders(t)
  BY <1>6, <1>7 DEF Renders, GroupsRender, RulesRender
<1> QED
  BY <1>8 DEF t

-----------------------------------------------------------------------------
(* The induction *)

\* Unless they raced, one request is in flight at most.
Solo ==
    \A h, k \in Handlers : request[h] # NoRequest /\ request[k] # NoRequest => h = k

\* A table that renders is what a request found, and what undoing it restores.
Restorable ==
    \A h \in Handlers :
        /\ request[h].pc \in {"write", "delete"} => Renders(table)
        /\ request[h].pc = "write" => request[h].prev = table[request[h].id]
        /\ request[h].pc = "delete" => ~Referenced(request[h].id)
        /\ request[h].pc \in {"validate", "undo"} =>
            Renders([table EXCEPT ![request[h].id] = request[h].prev])

\* No save went unseen and no rollback was refused since the last that was
\* looked at in full.
Sure == ~stuck /\ ~blind

\* What every step preserves.
RoutingInv ==
    /\ RoutingTypeOK
    /\ ~raced => Solo
    /\ ~raced /\ Sure => Restorable
    /\ TableRenders

\* Alone, a request that is not idle leaves the others idle.
LEMMA OthersIdle ==
    ASSUME Solo, NEW h \in Handlers, request[h] # NoRequest
    PROVE  \A k \in Handlers : k # h => request[k] = NoRequest
BY DEF Solo

\* A request found with a field is the kind of request that has it.
LEMMA RequestTypes ==
    ASSUME RoutingTypeOK, NEW h \in Handlers
    PROVE  /\ request[h].pc = "idle" <=> request[h] = NoRequest
           /\ request[h].pc # "idle" => request[h].id \in Ids
           /\ request[h].pc = "write" => request[h].row \in Rows
           /\ request[h].pc \in {"write", "validate", "undo"} =>
                request[h].prev \in Rows \cup {Missing}
           /\ request[h].pc \in {"idle", "write", "validate", "undo", "delete"}
BY DEF RoutingTypeOK, Requests, NoRequest

\* The initial states.
LEMMA RoutingInitInv == RoutingInit => RoutingInv
<1> SUFFICES ASSUME RoutingInit PROVE RoutingInv
  OBVIOUS
<1>1. RoutingTypeOK
  BY DEF RoutingInit, RoutingTypeOK, Requests
<1>2. Solo /\ Restorable
  BY DEF RoutingInit, Solo, Restorable, NoRequest
<1>3. \A S \in SUBSET Ids : Enabled(table, S) = {}
  BY DEF RoutingInit, Enabled, Present
<1>4. Renders(table)
  BY <1>3 DEF Renders, GroupsRender, RulesRender, Ids
<1> QED
  BY <1>1, <1>2, <1>4 DEF RoutingInv, TableRenders

\* A request that arrives while another is served is a race; else the table is at rest.
LEMMA SaveInv ==
    ASSUME RoutingInv, NEW h \in Handlers, NEW x \in Ids, NEW row \in Row(x), Save(h, x, row)
    PROVE  RoutingInv'
<1> USE DEF RoutingInv
<1>1. /\ table' = table /\ stuck' = stuck /\ ~raced /\ raced' = ~Quiet /\ request[h] = NoRequest
  BY DEF Save, Arrives
<1>a. PICK prev \in {table[x], Missing} :
        /\ request' = [request EXCEPT ![h] = [pc |-> "write", id |-> x, row |-> row, prev |-> prev]]
        /\ blind' = (blind \/ prev # table[x])
  BY DEF Save, To
<1>2. RoutingTypeOK'
  <2>1. row \in Rows /\ prev \in Rows \cup {Missing}
    BY DEF Rows, Row, OutboundRows, GroupRows, RuleRows, RoutingTypeOK
  <2>2. [pc |-> "write", id |-> x, row |-> row, prev |-> prev] \in Requests
    BY <2>1 DEF Requests
  <2>3. raced' \in BOOLEAN /\ blind' \in BOOLEAN
    BY <1>1, <1>a DEF Quiet
  <2> QED
    BY <1>1, <1>a, <2>2, <2>3 DEF RoutingTypeOK
<1>3. ASSUME ~raced' PROVE Solo' /\ (Sure' => Restorable')
  <2>1. \A k \in Handlers : request[k] = NoRequest
    BY <1>1, <1>3 DEF Quiet
  <2>2. Solo'
    BY <1>a, <2>1 DEF Solo, RoutingTypeOK
  <2>3. Sure => Renders(table)
    BY <1>1, <2>1 DEF TableRenders, Quiet, Sure
  <2>4. ASSUME Sure' PROVE Restorable'
    <3>1. Sure /\ prev = table[x]
      BY <1>1, <1>a, <2>4 DEF Sure, RoutingTypeOK
    <3>2. /\ request'[h].pc = "write" /\ request'[h].prev = prev /\ request'[h].id = x
          /\ \A k \in Handlers : k # h => request'[k].pc = "idle"
      BY <1>a, <2>1 DEF RoutingTypeOK, NoRequest
    <3> QED
      BY <1>1, <2>3, <3>1, <3>2 DEF Restorable
  <2> QED
    BY <2>2, <2>4
<1>4. TableRenders'
  <2>1. request'[h] # NoRequest
    BY <1>a DEF RoutingTypeOK, NoRequest
  <2> QED
    BY <2>1 DEF TableRenders, Quiet
<1> QED
  BY <1>2, <1>3, <1>4

\* The same of a delete, which has looked its row up.
LEMMA DeleteInv ==
    ASSUME RoutingInv, NEW h \in Handlers, NEW x \in Ids, Delete(h, x)
    PROVE  RoutingInv'
<1> USE DEF RoutingInv
<1>1. /\ table' = table /\ stuck' = stuck /\ blind' = blind /\ ~raced /\ raced' = ~Quiet /\ request[h] = NoRequest
      /\ request' = [request EXCEPT ![h] = [pc |-> "delete", id |-> x]] /\ ~Referenced(x)
  BY DEF Delete, Arrives, To
<1>2. RoutingTypeOK'
  <2>1. [pc |-> "delete", id |-> x] \in Requests
    BY DEF Requests
  <2> QED
    BY <1>1, <2>1 DEF RoutingTypeOK, Quiet
<1>3. ASSUME ~raced' PROVE Solo' /\ (Sure' => Restorable')
  <2>1. \A k \in Handlers : request[k] = NoRequest
    BY <1>1, <1>3 DEF Quiet
  <2>2. Solo'
    BY <1>1, <2>1 DEF Solo, RoutingTypeOK
  <2>3. Sure => Renders(table)
    BY <1>1, <2>1 DEF TableRenders, Quiet, Sure
  <2>4. Sure' => Restorable'
    BY <1>1, <2>1, <2>3 DEF Sure, Restorable, RoutingTypeOK, NoRequest, Referenced, OutboundReferenced, GroupReferenced, NamedIn, Present
  <2> QED
    BY <2>2, <2>3, <2>4
<1>4. TableRenders'
  BY <1>1, <1>2 DEF TableRenders, Quiet, RoutingTypeOK, NoRequest
<1> QED
  BY <1>2, <1>3, <1>4

\* A request goes on with the table as it is: Solo stays, and if it ends the
\* table is at rest.
LEMMA GoesOn ==
    ASSUME RoutingInv, NEW h \in Handlers, request[h] # NoRequest, NEW r \in Requests,
           request' = [request EXCEPT ![h] = r], raced' = raced
    PROVE  /\ ~raced' => Solo' /\ \A k \in Handlers : k # h => request'[k] = NoRequest
           /\ request'[h] = r
BY DEF RoutingInv, RoutingTypeOK, Solo

\* The row is written: undoing it would give the table that was found.
LEMMA WriteInv ==
    ASSUME RoutingInv, NEW h \in Handlers, Write(h)
    PROVE  RoutingInv'
<1> DEFINE x == request[h].id
           row == request[h].row
           prev == request[h].prev
<1>1. /\ request[h].pc = "write" /\ request[h] # NoRequest /\ raced' = raced /\ stuck' = stuck /\ blind' = blind
      /\ x \in Ids /\ row \in Rows /\ prev \in Rows \cup {Missing}
  BY RequestTypes DEF Write, RoutingInv, NoRequest
<1>2. CASE table' = [table EXCEPT ![x] = row]
           /\ request' = [request EXCEPT ![h] = [pc |-> "validate", id |-> x, prev |-> prev]]
  <2>1. [pc |-> "validate", id |-> x, prev |-> prev] \in Requests
    BY <1>1 DEF Requests
  <2>2. RoutingTypeOK'
    BY <1>1, <1>2, <2>1 DEF RoutingInv, RoutingTypeOK
  <2>3. /\ ~raced' => Solo' /\ \A k \in Handlers : k # h => request'[k] = NoRequest
        /\ request'[h] = [pc |-> "validate", id |-> x, prev |-> prev]
    BY <1>1, <1>2, <2>1, GoesOn
  <2>4. ASSUME ~raced', Sure' PROVE Restorable'
    <3>1. Renders(table) /\ prev = table[x]
      BY <1>1, <2>4 DEF RoutingInv, Restorable, Sure
    <3>2. [table' EXCEPT ![x] = prev] = table
      BY <1>1, <1>2, <3>1 DEF RoutingInv, RoutingTypeOK
    <3>3. request'[h].pc = "validate" /\ request'[h].id = x /\ request'[h].prev = prev
      BY <2>3
    <3>4. Renders([table' EXCEPT ![request'[h].id] = request'[h].prev])
      BY <3>1, <3>2, <3>3
    <3>5. ASSUME NEW k \in Handlers, k # h PROVE request'[k].pc = "idle"
      BY <2>3, <2>4, <3>5 DEF NoRequest
    <3> HIDE DEF x, prev, row
    <3> QED
      BY <3>3, <3>4, <3>5 DEF Restorable
  <2>5. ~Quiet'
    BY <2>3 DEF Quiet, NoRequest
  <2> QED
    BY <2>2, <2>3, <2>4, <2>5 DEF RoutingInv, TableRenders, Sure
<1>3. CASE table' = table /\ request' = [request EXCEPT ![h] = NoRequest]
  <2>1. NoRequest \in Requests
    BY DEF Requests
  <2>2. RoutingTypeOK'
    BY <1>1, <1>3, <2>1 DEF RoutingInv, RoutingTypeOK
  <2>3. /\ ~raced' => Solo' /\ \A k \in Handlers : k # h => request'[k] = NoRequest
        /\ request'[h] = NoRequest
    BY <1>1, <1>3, <2>1, GoesOn
  <2>4. ASSUME ~raced', Sure' PROVE Restorable' /\ Renders(table')
    <3>1. Renders(table)
      BY <1>1, <2>4 DEF RoutingInv, Restorable, Sure
    <3> QED
      BY <1>3, <2>3, <2>4, <3>1 DEF Restorable, NoRequest
  <2> QED
    BY <2>2, <2>3, <2>4 DEF RoutingInv, TableRenders, Sure
<1> QED
  BY <1>2, <1>3 DEF Write, Put, To

\* A table that was looked at in full and accepted renders; one that was not
\* is taken note of; and a row that was refused is to be put back.
LEMMA ValidateInv ==
    ASSUME RoutingInv, NEW h \in Handlers, Validate(h)
    PROVE  RoutingInv'
<1> DEFINE undo == [request[h] EXCEPT !.pc = "undo"]
<1>1. request[h].pc = "validate" /\ request[h] # NoRequest /\ table' = table /\ raced' = raced
  BY DEF Validate, NoRequest
<1>2. undo \in Requests /\ NoRequest \in Requests
      /\ undo.pc = "undo" /\ undo.id = request[h].id /\ undo.prev = request[h].prev
  BY <1>1 DEF RoutingInv, RoutingTypeOK, Requests, NoRequest
<1> HIDE DEF undo
<1>3. CASE /\ request' = [request EXCEPT ![h] = NoRequest]
           /\ stuck' \in BOOLEAN /\ blind' \in BOOLEAN
           /\ blind' \/ Renders(table)
  <2>1. RoutingTypeOK'
    BY <1>1, <1>2, <1>3 DEF RoutingInv, RoutingTypeOK
  <2>2. /\ ~raced' => Solo' /\ \A k \in Handlers : k # h => request'[k] = NoRequest
        /\ request'[h] = NoRequest
    BY <1>1, <1>2, <1>3, GoesOn
  <2>3. ~raced' => Restorable'
    BY <2>2 DEF Restorable, NoRequest
  <2> QED
    BY <1>1, <1>3, <2>1, <2>2, <2>3 DEF RoutingInv, TableRenders
<1>4. CASE /\ request' = [request EXCEPT ![h] = undo]
           /\ UNCHANGED <<stuck, blind>>
  <2>1. RoutingTypeOK'
    BY <1>1, <1>2, <1>4 DEF RoutingInv, RoutingTypeOK
  <2>2. /\ ~raced' => Solo' /\ \A k \in Handlers : k # h => request'[k] = NoRequest
        /\ request'[h] = undo
    BY <1>1, <1>2, <1>4, GoesOn, ZenonT(40)
  <2>3. ASSUME ~raced', Sure' PROVE Restorable'
    <3>1. request'[h].pc = "undo" /\ request'[h].id = request[h].id
          /\ request'[h].prev = request[h].prev
      BY <1>2, <2>2
    <3>2. Renders([table EXCEPT ![request[h].id] = request[h].prev])
      BY <1>1, <1>4, <2>3 DEF RoutingInv, Restorable, Sure
    <3>3. Renders([table' EXCEPT ![request'[h].id] = request'[h].prev])
      BY <1>1, <3>1, <3>2
    <3>4. ASSUME NEW k \in Handlers, k # h PROVE request'[k].pc = "idle"
      BY <2>2, <2>3, <3>4 DEF NoRequest
    <3> QED
      BY <3>1, <3>3, <3>4 DEF Restorable
  <2>4. ~Quiet'
    BY <1>2, <2>2 DEF Quiet, NoRequest
  <2> QED
    BY <2>1, <2>2, <2>3, <2>4 DEF RoutingInv, TableRenders
<1>5. Accepted(h) => stuck' \in BOOLEAN /\ blind' \in BOOLEAN /\ (blind' \/ Renders(table))
  BY DEF Accepted
<1>6. AcceptedUnseen(h) => stuck' \in BOOLEAN /\ blind' \in BOOLEAN /\ (blind' \/ Renders(table))
  BY DEF AcceptedUnseen, RoutingInv, RoutingTypeOK
<1>7. CASE Accepted(h)
  BY <1>3, <1>5, <1>7 DEF Accepted, To
<1>8. CASE AcceptedUnseen(h)
  BY <1>3, <1>6, <1>8 DEF AcceptedUnseen, To
<1>9. CASE Refused(h)
  BY <1>4, <1>9 DEF Refused, To, undo
<1> QED
  BY <1>7, <1>8, <1>9 DEF Validate

\* Putting the previous row back restores the table that was found, or is refused.
LEMMA UndoInv ==
    ASSUME RoutingInv, NEW h \in Handlers, Undo(h)
    PROVE  RoutingInv'
<1> DEFINE x == request[h].id
           prev == request[h].prev
<1>1. /\ request[h].pc = "undo" /\ request[h] # NoRequest /\ raced' = raced /\ blind' = blind
      /\ request' = [request EXCEPT ![h] = NoRequest]
      /\ x \in Ids /\ prev \in Rows \cup {Missing} /\ NoRequest \in Requests
      /\ \/ table' = [table EXCEPT ![x] = prev] /\ stuck' = stuck
         \/ table' = table /\ stuck' = TRUE
  BY RequestTypes DEF Undo, RoutingInv, NoRequest, To, Put, Requests
<1>2. RoutingTypeOK'
  BY <1>1 DEF RoutingInv, RoutingTypeOK
<1>3. /\ ~raced' => Solo' /\ \A k \in Handlers : k # h => request'[k] = NoRequest
      /\ request'[h] = NoRequest
  BY <1>1, GoesOn
<1>4. ASSUME ~raced', Sure' PROVE Restorable' /\ Renders(table')
  <2>1. ~stuck /\ table' = [table EXCEPT ![x] = prev]
    BY <1>1, <1>4 DEF Sure
  <2>2. Renders(table')
    BY <1>1, <1>4, <2>1 DEF RoutingInv, Restorable, Sure
  <2> QED
    BY <1>3, <1>4, <2>2 DEF Restorable, NoRequest
<1> QED
  BY <1>2, <1>3, <1>4 DEF RoutingInv, TableRenders, Sure

\* The row that nothing named is gone.
LEMMA RemoveInv ==
    ASSUME RoutingInv, NEW h \in Handlers, Remove(h)
    PROVE  RoutingInv'
<1> DEFINE x == request[h].id
<1>1. /\ request[h].pc = "delete" /\ request[h] # NoRequest /\ raced' = raced /\ stuck' = stuck /\ blind' = blind
      /\ request' = [request EXCEPT ![h] = NoRequest] /\ x \in Ids /\ NoRequest \in Requests
      /\ table' = [table EXCEPT ![x] = Missing]
  BY RequestTypes DEF Remove, RoutingInv, NoRequest, To, Put, Requests
<1>2. RoutingTypeOK'
  BY <1>1 DEF RoutingInv, RoutingTypeOK
<1>3. /\ ~raced' => Solo' /\ \A k \in Handlers : k # h => request'[k] = NoRequest
      /\ request'[h] = NoRequest
  BY <1>1, GoesOn
<1>4. ASSUME ~raced', Sure' PROVE Restorable' /\ Renders(table')
  <2>1. Renders(table) /\ ~Referenced(x)
    BY <1>1, <1>4 DEF RoutingInv, Restorable, Sure
  <2>2. table \in [Ids -> Rows \cup {Missing}]
    BY DEF RoutingInv, RoutingTypeOK
  <2> HIDE DEF x
  <2>3. Renders(table')
    BY <1>1, <2>1, <2>2, RemoveRenders
  <2> QED
    BY <1>3, <1>4, <2>3 DEF Restorable, NoRequest
<1> QED
  BY <1>2, <1>3, <1>4 DEF RoutingInv, TableRenders, Sure

\* A crash leaves every request idle and the table as it was written.
LEMMA CrashInv ==
    ASSUME RoutingInv, PanelDies
    PROVE  RoutingInv'
BY DEF PanelDies, RoutingInv, RoutingTypeOK, Requests, Solo, TableRenders, Sure

\* The invariant holds of every reachable state.
THEOREM RoutingInvariant == RoutingSpec => []RoutingInv
<1>1. ASSUME RoutingInv, RoutingNext PROVE RoutingInv'
  BY <1>1, SaveInv, DeleteInv, WriteInv, ValidateInv, UndoInv, RemoveInv, CrashInv DEF RoutingNext, Serve
<1>2. ASSUME RoutingInv, UNCHANGED routing PROVE RoutingInv'
  BY <1>2 DEF routing, RoutingInv, RoutingTypeOK, Solo, Restorable, Sure, TableRenders, Quiet, Referenced, OutboundReferenced, GroupReferenced, NamedIn, Present
<1> QED
  BY RoutingInitInv, <1>1, <1>2, PTL DEF RoutingSpec

-----------------------------------------------------------------------------
\* Every variable keeps its type, for any rows, tags and handlers.
THEOREM RoutingTypeCorrect == RoutingSpec => []RoutingTypeOK
<1>1. RoutingInv => RoutingTypeOK
  BY DEF RoutingInv
<1> QED
  BY <1>1, RoutingInvariant, PTL

\* Whatever requests that do not overlap save, rename, disable, delete and undo,
\* and whatever the core refuses, the table is one that renders, unless undoing
\* a save was itself refused or a save went by a failed read, and no save has
\* been looked at in full and accepted since.
THEOREM TableAlwaysRenders == RoutingSpec => []TableRenders
<1>1. RoutingInv => TableRenders
  BY DEF RoutingInv
<1> QED
  BY <1>1, RoutingInvariant, PTL

-----------------------------------------------------------------------------
(***************************************************************************)
(* WireGuardPeers: EnsurePeer hands out one identity per client, and one   *)
(* address to two clients only through its window.                         *)
(***************************************************************************)

\* A call past the lookup has a client, and a row it has read for.
Placed(k) ==
    /\ calls[k].pc \in {"allocate", "insert", "made", "reread"} => calls[k].at \in Clients
    /\ calls[k].pc = "insert" =>
         /\ calls[k].row # NoRow
         /\ \A d \in Known : peers[d].address = calls[k].row.address => d \in calls[k].missed
    /\ calls[k].pc = "made" =>
         /\ calls[k].at \in Known /\ peers[calls[k].at] = calls[k].row

GivenIsKnown == \A g \in given : g[2] # NoRow /\ peers[g[1]] = g[2]

\* AddressesDistinct alone is not inductive: a call between its read and its
\* insert must have noted every row that took its address meanwhile.
PeersInvariant ==
    /\ PeersTypeOK
    /\ \A k \in PeerCallers : Placed(k)
    /\ AddressesDistinct
    /\ GivenIsKnown

LEMMA NoRowIsRow == NoRow \in PeerRows /\ NoCall \in Calls
<1>1. 0 \in 0..MaxKeys
  BY PeersAssumption
<1>2. NoRow \in PeerRows
  BY <1>1 DEF NoRow, PeerRows
<1> QED BY <1>2 DEF NoCall, Calls, Stages

\* The end of EnsurePeer keeps the types, moves no call into its window, and
\* hands out nothing but the row it was given.
LEMMA EndedKeeps ==
  ASSUME PeersInvariant, NEW k \in PeerCallers, NEW c \in Clients, NEW row \in PeerRows,
         Ended(k, c, row), UNCHANGED <<entitled, peers, served, shared>>,
         minted' \in 0..MaxKeys,
         row # NoRow => peers[c] = row
  PROVE  PeersInvariant'
<1>1. calls' \in [PeerCallers -> Calls] /\ calls'[k].pc \in {"idle", "list", "next"}
      /\ \A j \in PeerCallers \ {k} : calls'[j] = calls[j]
  <2>1. calls[k] \in Calls /\ calls \in [PeerCallers -> Calls]
    BY DEF PeersInvariant, PeersTypeOK
  <2>2. CASE calls[k].kind = "fetch"
    BY <2>1, <2>2, NoRowIsRow DEF Ended, NoCall
  <2>3. CASE calls[k].kind # "fetch"
    <3> DEFINE after == [calls[k] EXCEPT !.pc = IF calls[k].todo = {c} THEN "list" ELSE "next",
                                         !.todo = calls[k].todo \ {c},
                                         !.at = Anyone, !.row = NoRow, !.missed = {}]
    <3>1. after \in Calls /\ after.pc \in {"list", "next"}
      BY <2>1, NoRowIsRow, ZenonT(40) DEF Calls, Stages
    <3>2. calls' = [calls EXCEPT ![k] = after]
      BY <2>3 DEF Ended
    <3> QED BY <2>1, <3>1, <3>2, SMTT(40)
  <2> QED BY <2>2, <2>3
<1>2. given' \subseteq Clients \X PeerRows /\ GivenIsKnown'
  BY DEF PeersInvariant, PeersTypeOK, GivenIsKnown, Ended
<1>3. PeersTypeOK'
  BY <1>1, <1>2 DEF PeersInvariant, PeersTypeOK
<1>4. \A j \in PeerCallers : Placed(j)'
  BY <1>1 DEF PeersInvariant, Placed, Known
<1>5. AddressesDistinct'
  BY DEF PeersInvariant, AddressesDistinct, Known
<1> QED BY <1>2, <1>3, <1>4, <1>5 DEF PeersInvariant

\* A call that moves on outside its window disturbs nobody.
LEMMA CallKeeps ==
  ASSUME PeersInvariant, NEW k \in PeerCallers, NEW call \in Calls,
         calls' = [calls EXCEPT ![k] = call],
         call.pc \in {"idle", "next", "allocate", "reread"},
         call.pc \in {"allocate", "reread"} => call.at \in Clients,
         served' \in [users : SUBSET Clients, peers : SUBSET (Clients \X PeerRows)],
         UNCHANGED <<entitled, peers, minted, given, shared>>
  PROVE  PeersInvariant'
<1>1. PeersTypeOK'
  BY DEF PeersInvariant, PeersTypeOK
<1>2. \A j \in PeerCallers : Placed(j)'
  BY DEF PeersInvariant, PeersTypeOK, Placed, Known
<1>3. AddressesDistinct' /\ GivenIsKnown'
  BY DEF PeersInvariant, AddressesDistinct, GivenIsKnown, Known
<1> QED BY <1>1, <1>2, <1>3 DEF PeersInvariant

\* The chosen address is nobody's when the rows are read.
LEMMA AllocateKeeps ==
  ASSUME PeersInvariant, NEW k \in PeerCallers, Allocate(k)
  PROVE  PeersInvariant'
<1>1. calls[k] \in Calls /\ calls[k].at \in Clients /\ minted + 1 \in 0..MaxKeys /\ minted + 1 # 0
  BY PeersAssumption DEF PeersInvariant, PeersTypeOK, Placed, Allocate
<1>2. CASE Ended(k, calls[k].at, NoRow) /\ UNCHANGED minted
  <2>1. minted' \in 0..MaxKeys /\ UNCHANGED <<entitled, peers, served, shared>>
    BY <1>2 DEF PeersInvariant, PeersTypeOK, Allocate
  <2> QED BY <1>1, <1>2, <2>1, NoRowIsRow, EndedKeeps
<1>3. ASSUME NEW pool \in Pools, NEW a \in pool \ Taken, minted' = minted + 1,
             calls' = [calls EXCEPT ![k].pc = "insert", ![k].missed = {},
                                    ![k].row = [address |-> a, key |-> minted + 1]],
             UNCHANGED given
      PROVE  PeersInvariant'
  <2>0. UNCHANGED <<entitled, peers, served, shared>>
    BY DEF Allocate
  <2> DEFINE row == [address |-> a, key |-> minted + 1]
             call == [calls[k] EXCEPT !.pc = "insert", !.missed = {}, !.row = row]
  <2>1. row \in PeerRows /\ row # NoRow /\ row.address = a
    BY <1>1, <1>3 DEF PeerRows, NoRow
  <2>2. calls' = [calls EXCEPT ![k] = call]
    BY <1>1, <1>3 DEF PeersInvariant, PeersTypeOK, Calls
  <2>3. call \in Calls /\ call.pc = "insert" /\ call.at \in Clients /\ call.row = row
    BY <1>1, <2>1 DEF Calls, Stages
  <2> HIDE DEF call, row
  <2>4. PeersTypeOK'
    <3>1. calls' \in [PeerCallers -> Calls]
      BY <2>2, <2>3 DEF PeersInvariant, PeersTypeOK
    <3> QED BY <1>1, <1>3, <2>0, <3>1 DEF PeersInvariant, PeersTypeOK
  <2>5. \A d \in Known : peers[d].address # a
    BY <1>3 DEF Taken
  <2>6. \A j \in PeerCallers : Placed(j)'
    <3> TAKE j \in PeerCallers
    <3>1. CASE j = k
      BY <3>1, <2>0, <2>1, <2>2, <2>3, <2>5 DEF PeersInvariant, PeersTypeOK, Placed, Known
    <3>2. CASE j # k
      BY <3>2, <2>0, <2>2 DEF PeersInvariant, PeersTypeOK, Placed, Known
    <3> QED BY <3>1, <3>2
  <2>7. AddressesDistinct' /\ GivenIsKnown'
    BY <1>3, <2>0 DEF PeersInvariant, AddressesDistinct, GivenIsKnown, Known
  <2> QED BY <2>4, <2>6, <2>7 DEF PeersInvariant
<1> QED BY <1>2, <1>3 DEF Allocate

\* Whoever took the address since the read is in `missed', hence in `shared'.
LEMMA InsertKeeps ==
  ASSUME PeersInvariant, NEW k \in PeerCallers, Insert(k)
  PROVE  PeersInvariant'
<1> DEFINE c == calls[k].at
           row == calls[k].row
<1>1. calls[k] \in Calls /\ c \in Clients /\ row \in PeerRows /\ row # NoRow
      /\ \A d \in Known : peers[d].address = row.address => d \in calls[k].missed
  BY DEF PeersInvariant, PeersTypeOK, Placed, Insert, Calls
<1>2. UNCHANGED <<entitled, minted, served, given>>
  BY DEF Insert
<1>3. CASE calls' = [calls EXCEPT ![k].pc = "reread"] /\ UNCHANGED <<peers, shared>>
  <2> DEFINE call == [calls[k] EXCEPT !.pc = "reread"]
  <2>1. call \in Calls /\ call.pc = "reread" /\ call.at \in Clients
    BY <1>1 DEF Calls, Stages
  <2>2. calls' = [calls EXCEPT ![k] = call]
    BY <1>3 DEF PeersInvariant, PeersTypeOK
  <2>3. served' \in [users : SUBSET Clients, peers : SUBSET (Clients \X PeerRows)]
    BY <1>2 DEF PeersInvariant, PeersTypeOK
  <2> HIDE DEF call
  <2> QED BY <1>2, <1>3, <2>1, <2>2, <2>3, CallKeeps
<1>4. CASE /\ c \notin Known
           /\ peers' = [peers EXCEPT ![c] = row]
           /\ shared' = shared \cup {{c, d} : d \in calls[k].missed}
           /\ calls' = [j \in PeerCallers |->
                IF j = k THEN [calls[k] EXCEPT !.pc = "made"]
                ELSE IF calls[j].pc = "insert" THEN [calls[j] EXCEPT !.missed = @ \cup {c}]
                ELSE calls[j]]
  <2>1. peers \in [Clients -> PeerRows] /\ calls \in [PeerCallers -> Calls]
    BY DEF PeersInvariant, PeersTypeOK
  <2>2. Known' = Known \cup {c} /\ peers'[c] = row /\ \A d \in Known : d # c /\ peers'[d] = peers[d]
    BY <1>1, <1>4, <2>1 DEF Known
  <2>3. \A j \in PeerCallers : calls'[j] \in Calls /\ calls'[j].at = calls[j].at /\ calls'[j].row = calls[j].row
    BY <1>1, <1>4, <2>1, SMTT(40) DEF Calls, Stages
  <2>4. PeersTypeOK'
    <3>1. calls' \in [PeerCallers -> Calls]
      BY <1>4, <2>3
    <3>2. peers' \in [Clients -> PeerRows]
      BY <1>1, <1>4, <2>1
    <3>3. calls[k].missed \subseteq Clients
      BY <1>1 DEF Calls
    <3>4. shared' \subseteq SUBSET Clients
      BY <1>1, <1>4, <3>3 DEF PeersInvariant, PeersTypeOK
    <3> QED BY <1>2, <3>1, <3>2, <3>4 DEF PeersInvariant, PeersTypeOK
  <2>5. \A j \in PeerCallers : Placed(j)'
    <3> TAKE j \in PeerCallers
    <3>1. CASE j = k
      <4>1. calls'[k].pc = "made"
        BY <1>1, <1>4 DEF Calls
      <4> QED BY <3>1, <4>1, <1>1, <2>2, <2>3 DEF Placed
    <3>2. CASE j # k /\ calls[j].pc = "insert"
      <4>1. calls'[j].pc = "insert" /\ calls'[j].missed = calls[j].missed \cup {c}
        BY <1>4, <2>1, <3>2 DEF Calls
      <4> QED BY <3>2, <4>1, <2>2, <2>3 DEF Placed, PeersInvariant
    <3>3. CASE j # k /\ calls[j].pc # "insert"
      <4>1. calls'[j] = calls[j]
        BY <1>4, <3>3
      <4> QED BY <3>3, <4>1, <2>2 DEF Placed, PeersInvariant
    <3> QED BY <3>1, <3>2, <3>3
  <2>6. AddressesDistinct'
    <3> SUFFICES ASSUME NEW x \in Known', NEW y \in Known', x # y, peers'[x].address = peers'[y].address
                 PROVE  {x, y} \in shared'
      BY DEF AddressesDistinct
    <3>1. CASE x \in Known /\ y \in Known
      BY <3>1, <1>4, <2>2 DEF PeersInvariant, AddressesDistinct
    <3>2. CASE x = c /\ y \in Known
      <4>1. y \in calls[k].missed
        BY <3>2, <1>1, <2>2
      <4> QED BY <3>2, <4>1, <1>4
    <3>3. CASE y = c /\ x \in Known
      <4>1. x \in calls[k].missed /\ {x, y} = {c, x}
        BY <3>3, <1>1, <2>2
      <4> QED BY <4>1, <1>4
    <3> QED BY <2>2, <3>1, <3>2, <3>3
  <2>7. GivenIsKnown'
    <3> SUFFICES ASSUME NEW g \in given PROVE g[2] # NoRow /\ peers'[g[1]] = g[2]
      BY <1>2 DEF GivenIsKnown
    <3>1. g[1] \in Clients /\ g[2] # NoRow /\ peers[g[1]] = g[2]
      BY DEF PeersInvariant, PeersTypeOK, GivenIsKnown
    <3>2. g[1] \in Known
      BY <3>1 DEF Known
    <3> QED BY <3>1, <3>2, <2>2
  <2> QED BY <2>4, <2>5, <2>6, <2>7 DEF PeersInvariant
<1> QED BY <1>3, <1>4 DEF Insert

LEMMA InvariantHolds == PeersSpec => []PeersInvariant
<1>1. PeersInit => PeersInvariant
  <2> SUFFICES ASSUME PeersInit PROVE PeersInvariant
    OBVIOUS
  <2>1. PeersTypeOK
    BY NoRowIsRow, PeersAssumption DEF PeersInit, PeersTypeOK
  <2>2. Known = {} /\ \A k \in PeerCallers : calls[k].pc = "idle"
    BY DEF PeersInit, Known, NoCall
  <2> QED BY <2>1, <2>2 DEF PeersInit, PeersInvariant, Placed, AddressesDistinct, GivenIsKnown
<1>2. PeersInvariant /\ [PeersNext]_wireguard => PeersInvariant'
  <2> SUFFICES ASSUME PeersInvariant, [PeersNext]_wireguard PROVE PeersInvariant'
    OBVIOUS
  <2>0. calls \in [PeerCallers -> Calls] /\ peers \in [Clients -> PeerRows] /\ minted \in 0..MaxKeys
    BY DEF PeersInvariant, PeersTypeOK
  <2>1. ASSUME NEW c \in Clients, Entitle(c) PROVE PeersInvariant'
    BY <2>1 DEF Entitle, PeersInvariant, PeersTypeOK, Placed, AddressesDistinct, GivenIsKnown, Known
  <2>2. ASSUME NEW k \in PeerCallers, NEW c \in Clients, Fetch(k, c) PROVE PeersInvariant'
    <3> DEFINE call == [NoCall EXCEPT !.pc = "next", !.todo = {c}]
    <3>1. call \in Calls /\ call.pc = "next"
      BY NoRowIsRow DEF NoCall, Calls, Stages
    <3>2. calls' = [calls EXCEPT ![k] = call] /\ UNCHANGED <<entitled, peers, minted, served, given, shared>>
      BY <2>2 DEF Fetch
    <3>3. served' \in [users : SUBSET Clients, peers : SUBSET (Clients \X PeerRows)]
      BY <3>2 DEF PeersInvariant, PeersTypeOK
    <3> HIDE DEF call
    <3> QED BY <3>1, <3>2, <3>3, CallKeeps
  <2>3. ASSUME NEW k \in PeerCallers, NEW c \in Clients, Found(k, c) PROVE PeersInvariant'
    BY <2>0, <2>3, EndedKeeps DEF Found, Known
  <2>4. ASSUME NEW k \in PeerCallers, NEW c \in Clients, Unknown(k, c) PROVE PeersInvariant'
    <3> DEFINE call == [calls[k] EXCEPT !.pc = "allocate", !.at = c]
    <3>1. call \in Calls /\ call.pc = "allocate" /\ call.at \in Clients
      BY <2>0 DEF Calls, Stages
    <3>2. calls' = [calls EXCEPT ![k] = call] /\ UNCHANGED <<entitled, peers, minted, served, given, shared>>
      BY <2>0, <2>4 DEF Unknown, Calls
    <3>3. served' \in [users : SUBSET Clients, peers : SUBSET (Clients \X PeerRows)]
      BY <3>2 DEF PeersInvariant, PeersTypeOK
    <3> HIDE DEF call
    <3> QED BY <3>1, <3>2, <3>3, CallKeeps
  <2>5. ASSUME NEW k \in PeerCallers, Reload(k) PROVE PeersInvariant'
    <3>1. served' \in [users : SUBSET Clients, peers : SUBSET (Clients \X PeerRows)]
      BY <2>5 DEF Reload, PeersInvariant, PeersTypeOK
    <3>2. UNCHANGED <<entitled, peers, minted, given, shared>>
      BY <2>5 DEF Reload
    <3>3. CASE UNCHANGED calls
      BY <3>1, <3>2, <3>3 DEF PeersInvariant, PeersTypeOK, Placed, AddressesDistinct, GivenIsKnown, Known
    <3>4. CASE ~UNCHANGED calls
      <4> DEFINE call == [NoCall EXCEPT !.pc = "next", !.kind = "reload", !.todo = entitled, !.users = entitled]
      <4>1. call \in Calls /\ call.pc = "next"
        BY NoRowIsRow DEF NoCall, Calls, Stages, PeersInvariant, PeersTypeOK
      <4>2. calls' = [calls EXCEPT ![k] = call]
        BY <2>5, <3>4 DEF Reload
      <4> HIDE DEF call
      <4> QED BY <3>1, <3>2, <4>1, <4>2, CallKeeps
    <3> QED BY <3>3, <3>4
  <2>6. ASSUME NEW k \in PeerCallers, Made(k) PROVE PeersInvariant'
    <3>1. calls[k].at \in Clients /\ calls[k].row \in PeerRows /\ peers[calls[k].at] = calls[k].row
      BY <2>0, <2>6 DEF Made, PeersInvariant, Placed, Calls
    <3> QED BY <2>0, <2>6, <3>1, EndedKeeps DEF Made
  <2>7. ASSUME NEW k \in PeerCallers, Reread(k) PROVE PeersInvariant'
    <3>1. calls[k].at \in Clients
      BY <2>7 DEF Reread, PeersInvariant, Placed
    <3> QED BY <2>0, <2>7, <3>1, EndedKeeps DEF Reread
  <2>8. ASSUME NEW k \in PeerCallers, Render(k) PROVE PeersInvariant'
    <3>1. calls[k].users \subseteq Clients /\ ServerPeers \subseteq Clients \X PeerRows
      BY <2>0 DEF Calls, ServerPeers, Known
    <3>2. served' \in [users : SUBSET Clients, peers : SUBSET (Clients \X PeerRows)]
      BY <2>8, <3>1 DEF Render
    <3>3. NoCall.pc = "idle"
      BY DEF NoCall
    <3> QED BY <2>8, <3>2, <3>3, NoRowIsRow, CallKeeps DEF Render
  <2>9. CASE PeersCrash
    <3>1. \A k \in PeerCallers : calls'[k] = NoCall /\ NoCall.pc = "idle"
      BY <2>9 DEF PeersCrash, NoCall
    <3>2. PeersTypeOK'
      BY <2>9, NoRowIsRow DEF PeersCrash, PeersInvariant, PeersTypeOK
    <3> QED BY <2>9, <3>1, <3>2 DEF PeersCrash, PeersInvariant, Placed, AddressesDistinct, GivenIsKnown, Known
  <2>10. CASE UNCHANGED wireguard
    BY <2>10 DEF wireguard, PeersInvariant, PeersTypeOK, Placed, AddressesDistinct, GivenIsKnown, Known
  <2> QED BY <2>1, <2>2, <2>3, <2>4, <2>5, <2>6, <2>7, <2>8, <2>9, <2>10,
             AllocateKeeps, InsertKeeps DEF PeersNext
<1> QED BY <1>1, <1>2, PTL DEF PeersSpec

\* Two clients share an address only through the window of EnsurePeer.
THEOREM AddressesStayDistinct == PeersSpec => []AddressesDistinct
<1>1. PeersInvariant => AddressesDistinct
  BY DEF PeersInvariant
<1> QED BY <1>1, InvariantHolds, PTL

\* A client's downloaded identity is the server's, for ever.
THEOREM IdentityStaysAgreed == PeersSpec => []IdentityAgreed
<1>1. PeersInvariant => IdentityAgreed
  BY DEF PeersInvariant, GivenIsKnown, IdentityAgreed
<1> QED BY <1>1, InvariantHolds, PTL

\* The variables of the WireGuard peers keep their types.
THEOREM PeersTypeCorrect == PeersSpec => []PeersTypeOK
<1>1. PeersInvariant => PeersTypeOK
  BY DEF PeersInvariant
<1> QED BY <1>1, InvariantHolds, PTL

=============================================================================
