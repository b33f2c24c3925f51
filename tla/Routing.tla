------------------------------ MODULE Routing ------------------------------
(***************************************************************************)
(* The routing table: outbounds, failover groups of outbounds, and rules   *)
(* that send traffic to either by tag (store/routing.go), the handlers     *)
(* that edit it (api/routing.go, api/routinggroups.go) and what the        *)
(* renderer refuses (core/engine/routing.go).                              *)
(*                                                                         *)
(* A save looks up what it names, writes the row, renders the whole table  *)
(* and, when it is refused, puts the previous row back; a delete looks up  *)
(* what names the row, and removes it.  None of this is one transaction,   *)
(* and a read that fails is taken for a row, or rows, that do not exist.   *)
(*                                                                         *)
(* A row is [tag, names, on].  An outbound names nothing; a group names    *)
(* its members and its all-down policy; a rule has no tag and names its    *)
(* target.  Built-in targets always resolve and are left out, with the     *)
(* matchers, the order of the rules and the probe of the groups.           *)
(***************************************************************************)
EXTENDS Integers, FiniteSets

CONSTANTS Outbounds, Balancers, Rules, Tags, Handlers

VARIABLES
    table,    \* row by id, of an outbound, a group or a rule
    request,  \* what a handler is doing
    raced,    \* ghost: two requests overlapped, or a crash cut one short
    stuck,    \* ghost: putting a row back was itself refused
    blind     \* ghost: a save went by a read that failed, or was not rendered

routing == <<table, request, raced, stuck, blind>>

-----------------------------------------------------------------------------
Ids == Outbounds \cup Balancers \cup Rules
NoTag == "no tag"
Missing == [tag |-> NoTag, names |-> {}, on |-> FALSE]
NoRequest == [pc |-> "idle"]

OutboundRows == [tag : Tags, names : {{}}, on : BOOLEAN]
GroupRows == [tag : Tags, names : SUBSET Tags \ {{}}, on : BOOLEAN]
RuleRows == [tag : {NoTag}, names : {{t} : t \in Tags}, on : BOOLEAN]

Row(x) == IF x \in Outbounds THEN OutboundRows ELSE IF x \in Balancers THEN GroupRows ELSE RuleRows
Rows == UNION {Row(x) : x \in Ids}
Requests ==
    {NoRequest}
    \cup [pc : {"write"}, id : Ids, row : Rows, prev : Rows \cup {Missing}]
    \cup [pc : {"validate", "undo"}, id : Ids, prev : Rows \cup {Missing}]
    \cup [pc : {"delete"}, id : Ids]

Present(t, S) == {x \in S : t[x] # Missing}
Enabled(t, S) == {x \in Present(t, S) : t[x].on}
TagsOf(t, S) == {t[x].tag : x \in S}

outboundTags == TagsOf(table, Present(table, Outbounds))
groupTags == TagsOf(table, Present(table, Balancers))

\* What the store looks up before it saves.  An outbound and a group never share
\* a tag, a group's members are outbounds, and a disabled row resolves like any
\* other.
OutboundResolves(row) == row.tag \notin groupTags
GroupResolves(row) == row.tag \notin outboundTags /\ row.names \subseteq outboundTags \ groupTags
RuleResolves(row) == row.names \subseteq outboundTags \cup groupTags

Resolves(x, row) ==
    /\ x \in Outbounds => OutboundResolves(row)
    /\ x \in Balancers => GroupResolves(row)
    /\ x \in Rules => RuleResolves(row)

\* The unique index on the tag.
TagFree(x, row) ==
    LET kind == IF x \in Outbounds THEN Outbounds ELSE Balancers
    IN  x \in Rules \/ row.tag \notin TagsOf(table, Present(table, kind) \ {x})

\* Faulty variant: the members of the groups are not looked at.
Referenced_ByRules(x) ==
    \E y \in Present(table, Rules) : table[x].tag \in table[y].names

\* What the store looks up before it deletes: every row that names the tag,
\* disabled ones too.
NamedIn(S, t) == \E y \in Present(table, S) : t \in table[y].names
OutboundReferenced(x) == NamedIn(Balancers \cup Rules, table[x].tag)
GroupReferenced(x) == NamedIn(Rules, table[x].tag)

Referenced(x) ==
    \/ x \in Outbounds /\ OutboundReferenced(x)
    \/ x \notin Outbounds /\ GroupReferenced(x)

\* What the renderer looks up, over the enabled rows only.
GroupsRender(t, known) == \A y \in Enabled(t, Balancers) : t[y].names \subseteq known
RulesRender(t, known) == \A y \in Enabled(t, Rules) : t[y].names \subseteq known

Renders(t) ==
    LET known == TagsOf(t, Enabled(t, Outbounds))
        balancers == TagsOf(t, Enabled(t, Balancers))
    IN  GroupsRender(t, known) /\ RulesRender(t, known \cup balancers)

-----------------------------------------------------------------------------
RoutingInit ==
    /\ table = [x \in Ids |-> Missing]
    /\ request = [h \in Handlers |-> NoRequest]
    /\ raced = FALSE /\ stuck = FALSE /\ blind = FALSE

To(h, state) == request' = [request EXCEPT ![h] = state]
Put(x, row) == table' = [table EXCEPT ![x] = row]

Quiet == \A h \in Handlers : request[h] = NoRequest

\* A request arrives; the table is not followed past requests that raced.
Arrives(h) ==
    /\ request[h] = NoRequest /\ ~raced
    /\ raced' = ~Quiet

\* The handlers read the row they replace, for them a new one when the read
\* fails, and the store checks the row they save.
Save(h, x, row) ==
    /\ Arrives(h) /\ Resolves(x, row)
    /\ \E prev \in {table[x], Missing} :
          /\ To(h, [pc |-> "write", id |-> x, row |-> row, prev |-> prev])
          /\ blind' = (blind \/ prev # table[x])
    /\ UNCHANGED <<table, stuck>>

\* db.Save; the unique index may refuse it.
Write(h) ==
    LET x == request[h].id IN
    /\ request[h].pc = "write"
    /\ \/ /\ TagFree(x, request[h].row)
          /\ Put(x, request[h].row)
          /\ To(h, [pc |-> "validate", id |-> x, prev |-> request[h].prev])
       \/ ~TagFree(x, request[h].row) /\ To(h, NoRequest) /\ UNCHANGED table
    /\ UNCHANGED <<raced, stuck, blind>>

\* validateRoutingOrFail.  The table is read, rendered and shown to the core,
\* which may refuse it for what only the core knows.  A failed read of the
\* outbounds or of the groups leaves nothing that names anything, one of the
\* rules leaves no rule, and without an engine nothing is rendered: then a save
\* is accepted that was not, or not wholly, looked at.
Accepted(h) ==
    /\ Renders(table)
    /\ To(h, NoRequest)
    /\ stuck' = FALSE /\ blind' = FALSE

Refused(h) ==
    /\ To(h, [request[h] EXCEPT !.pc = "undo"])
    /\ UNCHANGED <<stuck, blind>>

AcceptedUnseen(h) ==
    /\ To(h, NoRequest)
    /\ blind' = TRUE
    /\ UNCHANGED stuck

Validate(h) ==
    /\ request[h].pc = "validate"
    /\ Accepted(h) \/ Refused(h) \/ AcceptedUnseen(h)
    /\ UNCHANGED <<table, raced>>

\* The rollback saves the previous row, or deletes a new one, with the checks of
\* any save or delete; its error is dropped.
Undo(h) ==
    LET x == request[h].id
        prev == request[h].prev
        possible ==
            IF prev = Missing THEN ~Referenced(x) ELSE Resolves(x, prev) /\ TagFree(x, prev)
    IN  /\ request[h].pc = "undo"
        /\ To(h, NoRequest)
        /\ IF possible THEN Put(x, prev) /\ UNCHANGED stuck ELSE stuck' = TRUE /\ UNCHANGED table
        /\ UNCHANGED <<raced, blind>>

Delete(h, x) ==
    /\ Arrives(h) /\ table[x] # Missing /\ ~Referenced(x)
    /\ To(h, [pc |-> "delete", id |-> x])
    /\ UNCHANGED <<table, stuck, blind>>

Remove(h) ==
    /\ request[h].pc = "delete"
    /\ Put(request[h].id, Missing)
    /\ To(h, NoRequest)
    /\ UNCHANGED <<raced, stuck, blind>>

\* The panel is killed with requests in flight; the table stays as written.
PanelDies ==
    /\ ~Quiet
    /\ request' = [h \in Handlers |-> NoRequest]
    /\ raced' = TRUE
    /\ UNCHANGED <<table, stuck, blind>>

Serve(h) == Write(h) \/ Validate(h) \/ Undo(h) \/ Remove(h)

RoutingNext ==
    \/ \E h \in Handlers :
        \/ Serve(h)
        \/ \E x \in Ids : Delete(h, x) \/ \E row \in Row(x) : Save(h, x, row)
    \/ PanelDies

RoutingSpec == RoutingInit /\ [][RoutingNext]_routing

-----------------------------------------------------------------------------
(* Properties *)

RoutingTypeOK ==
    /\ table \in [Ids -> Rows \cup {Missing}]
    /\ request \in [Handlers -> Requests]
    /\ raced \in BOOLEAN /\ stuck \in BOOLEAN /\ blind \in BOOLEAN

\* Requests that come one after the other, whatever they save, disable, rename
\* and delete, and whatever the core refuses, leave a table that renders, unless
\* putting a row back was refused or a read had failed: and then the next save
\* that is looked at in full and accepted finds the table mended.
TableRenders == Quiet /\ ~raced /\ ~stuck /\ ~blind => Renders(table)

\* "A failure rolls the row back rather than leaving a config the next reload
\* will reject."
RefusedIsRolledBack == Quiet /\ ~raced /\ ~blind => Renders(table)
=============================================================================
