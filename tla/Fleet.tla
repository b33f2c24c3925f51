------------------------------- MODULE Fleet -------------------------------
(***************************************************************************)
(* A remote node and the panel.  The node's agent is strictly pull: every  *)
(* ten seconds it posts a heartbeat (traffic totals, core output) and the  *)
(* answer is the configuration it is to run.                               *)
(*                                                                         *)
(*   agent    cmd/forgenode: collects, posts, and applies the answer;      *)
(*   panel    handleNodeHeartbeat, as the steps between which other        *)
(*            handlers may run: read the node's row, save it, file the     *)
(*            lines, read the baseline, bill one user at a time, answer;   *)
(*   admin    handleSetNodeState.                                          *)
(*                                                                         *)
(* The node runs two cores, each with a meter of its own; a heartbeat      *)
(* carries the sum of the meters that could be read.  The request or the   *)
(* answer may be lost, the agent may give up waiting, and either side may  *)
(* restart.  One heartbeat is in flight at a time: the agent posts         *)
(* sequentially, and the panel finishes a request the agent gave up on     *)
(* before the next one arrives.                                            *)
(***************************************************************************)
EXTENDS UserRow, Sequences, FiniteSets, SequencesExt

CONSTANTS
    Users,
    Xray, SingBox,  \* the cores of a node
    Cores,        \* those that write lines, in the order of their names
    Batch,        \* nodeLogBatch: lines one heartbeat carries
    InitialRows,  \* the rows accounts may start with
    MaxTraffic,   \* bound: bytes a user moves
    MaxLines,     \* bound: lines a core writes per agent process
    MaxFaults,    \* bound: losses, restarts, dead cores, failed writes
    MaxSwitches   \* bound: times the operator switches the node on or off

Engines == {Xray, SingBox}

Nothing == {"none"}   \* the configuration of an agent that has received none

ASSUME FleetAssumption ==
    /\ IsFiniteSet(Users) /\ Nothing \notin SUBSET Users
    /\ Xray # SingBox /\ Cores \in Seq(Range(Cores)) /\ Range(Cores) \subseteq Engines
    /\ \A r \in InitialRows : r \in Rows /\ r.used = 0 /\ r.life = 0
    /\ Batch \in Nat \ {0}
    /\ MaxTraffic \in Nat /\ MaxLines \in Nat
    /\ MaxFaults \in Nat /\ MaxSwitches \in Nat

VARIABLES
    \* the node
    served,   \* users in the configuration each core runs; Nothing before the first
    up,       \* is its process alive
    counter,  \* its cumulative counter of each user
    epoch,    \* logEpoch, the agent process
    wrote,    \* lines each core wrote in this agent process
    cursor,   \* engineProc.logCursor
    logSeq,   \* lines the panel has acknowledged
    \* the panel
    disabled, \* the node's row
    db,       \* the users table
    snap,     \* traffic_snapshots, scope "node:<id>"; Nil for no row
    next,     \* nodeLogHub.next of this node
    hubEpoch, \* nodeLogHub.epochs of this node
    filed,    \* the lines filed for this node, oldest first
    \* the heartbeat in flight
    beat,
    carried,  \* ghost: bytes each user moved through this node
    mixed,    \* ghost: users of both cores of whom one core's counter was lost or left out
    faults, switches

node   == <<served, up, counter, epoch, wrote, cursor, logSeq>>
hub    == <<next, hubEpoch, filed>>
panel  == <<disabled, db, snap, hub>>
bounds == <<carried, mixed, faults, switches>>
vars   == <<node, panel, beat, bounds>>

-----------------------------------------------------------------------------
Zero == [u \in Users |-> 0]

NoBeat == [pc |-> "idle"]
Lines == [epoch : Nat, core : Range(Cores), n : 1 .. MaxLines]

Body == [traffic : [Users -> Nat], lines : Seq(Lines), seq : Nat, epoch : Nat,
         cursor : [Range(Cores) -> Nat]]   \* the cursors an answer will commit

Beats ==
    {NoBeat} \cup
    [pc : {"sent", "save", "publish", "baseline", "bill", "answered"},
     body : Body, waiting : BOOLEAN, disabled : BOOLEAN,
     prev : [Users -> Nat \cup {Nil}], todo : SUBSET Users,
     config : {Nothing} \cup SUBSET Users]

Init ==
    /\ served = [e \in Engines |-> Nothing] /\ up = [e \in Engines |-> FALSE]
    /\ counter = [e \in Engines |-> Zero]
    /\ epoch = 0 /\ logSeq = 0
    /\ wrote = [k \in Range(Cores) |-> 0] /\ cursor = [k \in Range(Cores) |-> 0]
    /\ disabled = FALSE
    /\ db \in [Users -> InitialRows]
    /\ snap = [u \in Users |-> Nil]
    /\ next = 0 /\ hubEpoch = Nil /\ filed = <<>>
    /\ beat = NoBeat
    /\ carried = Zero /\ mixed = {}
    /\ faults = 0 /\ switches = 0

Fault == faults < MaxFaults /\ faults' = faults + 1

At(pc) == beat.pc = pc

-----------------------------------------------------------------------------
(* The node's cores *)

\* Users of several cores who would miss the counters of some, but not of all.
Splits(some) ==
    {u \in Users : \E e \in some, f \in Engines \ some : counter[e][u] > 0 /\ counter[f][u] > 0}

Traffic(e, u) ==
    /\ up[e] /\ u \in served[e]
    /\ carried[u] < MaxTraffic
    /\ carried' = [carried EXCEPT ![u] = @ + 1]
    /\ counter' = [counter EXCEPT ![e][u] = @ + 1]
    /\ UNCHANGED <<served, up, epoch, wrote, cursor, logSeq, panel, beat, mixed, faults, switches>>

CoreWrites(k) ==
    /\ up[k]
    /\ wrote[k] < MaxLines
    /\ wrote' = [wrote EXCEPT ![k] = @ + 1]
    /\ UNCHANGED <<served, up, counter, epoch, cursor, logSeq, panel, beat, bounds>>

\* A core dies.  Nothing watches it: the next configuration that differs
\* from the last one starts it again.
CoreDies(e) ==
    /\ up[e] /\ Fault
    /\ up' = [up EXCEPT ![e] = FALSE] /\ counter' = [counter EXCEPT ![e] = Zero]
    /\ mixed' = mixed \cup Splits({e})
    /\ UNCHANGED <<served, epoch, wrote, cursor, logSeq, panel, beat, carried, switches>>

-----------------------------------------------------------------------------
(* The agent *)

\* The lines of core k the panel has not acknowledged.
Unshipped(k) ==
    [i \in 1 .. (wrote[k] - cursor[k]) |-> [epoch |-> epoch, core |-> k, n |-> cursor[k] + i]]

Newest(lines) ==
    IF Len(lines) <= Batch THEN lines
    ELSE SubSeq(lines, Len(lines) - Batch + 1, Len(lines))

\* Running totals, summed over the cores; one whose counters cannot be read
\* counts for nothing, as a dead one does.
Reading(e, u, unread) == IF e \in unread THEN 0 ELSE counter[e][u]
Reported(u, unread) == Reading(Xray, u, unread) + Reading(SingBox, u, unread)

\* collectTraffic and collectLogs: the totals, and what has not been acknowledged,
\* grouped by core and cut to its tail.
Collect(unread) ==
    [traffic |-> [u \in Users |-> Reported(u, unread)],
     lines   |-> Newest(FlattenSeq([i \in 1 .. Len(Cores) |-> Unshipped(Cores[i])])),
     seq     |-> logSeq,
     epoch   |-> epoch,
     cursor  |-> wrote]

Post(unread) ==
    /\ beat = NoBeat
    /\ beat' = [pc |-> "sent", body |-> Collect(unread), waiting |-> TRUE, disabled |-> FALSE,
                prev |-> snap, todo |-> {}, config |-> Nothing]
    /\ mixed' = mixed \cup Splits(unread)
    /\ UNCHANGED <<node, panel, carried, switches>>

Beat == Post({}) /\ UNCHANGED faults

\* A core does not answer the agent's query for its counters.
BeatUnread == \E e \in Engines : up[e] /\ Post({e}) /\ Fault

\* The agent's HTTP client times out, or the connection breaks; the panel does
\* not notice.
GiveUp ==
    /\ beat # NoBeat /\ beat.waiting
    /\ Fault
    /\ beat' = IF beat.pc \in {"sent", "answered"} THEN NoBeat ELSE [beat EXCEPT !.waiting = FALSE]
    /\ UNCHANGED <<node, panel, carried, mixed, switches>>

AcceptLogs(b) ==
    /\ cursor' = b.cursor
    /\ logSeq' = logSeq + Len(b.lines)

\* engineProc.apply.  Nothing is done when the configuration is the installed
\* one.  Otherwise it is installed by a hot apply, which takes xray, running, and
\* a change of users alone, or by a restart, which may leave no core behind; or
\* the core's validator rejects it, and the last one stays.
Outcomes(e, config) ==
    IF served[e] = config THEN {"same"}
    ELSE {"restarted", "dead", "rejected"} \cup
         {o \in {"hot"} : e = Xray /\ up[e] /\ served[e] # Nothing}

\* Each core has its turn.
ApplyConfigs(config) ==
    \E o \in [Engines -> {"same", "hot", "restarted", "dead", "rejected"}] :
        LET lost == {e \in Engines : o[e] \in {"restarted", "dead"}}
            kept == {e \in Engines : o[e] \in {"same", "rejected"}}
        IN /\ \A e \in Engines : o[e] \in Outcomes(e, config)
           /\ served' = [e \in Engines |-> IF e \in kept THEN served[e] ELSE config]
           /\ up' = [e \in Engines |-> IF e \in kept THEN up[e] ELSE o[e] # "dead"]
           /\ counter' = [e \in Engines |-> IF e \in lost THEN Zero ELSE counter[e]]
           /\ mixed' = mixed \cup Splits(lost)
           /\ IF \E e \in Engines : o[e] \in {"dead", "rejected"} THEN Fault ELSE UNCHANGED faults

Receive ==
    /\ At("answered")
    /\ AcceptLogs(beat.body)
    /\ ApplyConfigs(beat.config)
    /\ beat' = NoBeat
    /\ UNCHANGED <<epoch, wrote, panel, carried, switches>>

\* The agent process is replaced, and its cores with it.
AgentRestart ==
    /\ Fault
    /\ served' = [e \in Engines |-> Nothing] /\ up' = [e \in Engines |-> FALSE]
    /\ counter' = [e \in Engines |-> Zero]
    /\ epoch' = epoch + 1 /\ logSeq' = 0
    /\ wrote' = [k \in Range(Cores) |-> 0] /\ cursor' = [k \in Range(Cores) |-> 0]
    /\ beat' = IF beat = NoBeat \/ beat.pc \in {"sent", "answered"} THEN NoBeat
               ELSE [beat EXCEPT !.waiting = FALSE]
    /\ UNCHANGED <<panel, carried, mixed, switches>>

-----------------------------------------------------------------------------
(* The panel: handleNodeHeartbeat *)

\* What becomes of the request once handled: an answer, if anyone waits.
Done(config) ==
    IF beat.waiting THEN [beat EXCEPT !.pc = "answered", !.config = config] ELSE NoBeat

\* The row is read.  A disabled node is refused, and the agent, told 403, does
\* nothing at all until its next tick.
Authenticate ==
    /\ At("sent")
    /\ beat' = IF disabled THEN NoBeat ELSE [beat EXCEPT !.pc = "save", !.disabled = disabled]
    /\ UNCHANGED <<node, panel, bounds>>

\* SaveNode writes the whole row that was read.
Save ==
    /\ At("save")
    /\ disabled' = beat.disabled
    /\ beat' = [beat EXCEPT !.pc = "publish"]
    /\ UNCHANGED <<node, db, snap, hub, bounds>>

\* Faulty variant: a batch is filed whole.
NewLines_Whole(b, want) == b.lines

\* The position the panel expects, given who is speaking and where they start.
Expected(b) ==
    LET known == IF hubEpoch = b.epoch THEN next ELSE 0 IN
    IF b.seq > known THEN b.seq ELSE known

NewLines(b, want) == SubSeq(b.lines, want - b.seq + 1, Len(b.lines))

\* nodeLogHub.publish.
Publish ==
    LET b == beat.body
        want == Expected(b)
        end == b.seq + Len(b.lines)
    IN
    /\ At("publish")
    /\ beat' = [beat EXCEPT !.pc = "baseline"]
    /\ \/ b.lines = <<>> /\ UNCHANGED hub
       \/ /\ b.lines # <<>>
          /\ hubEpoch' = b.epoch
          /\ IF end <= want
             THEN /\ next' = IF hubEpoch = b.epoch THEN next ELSE 0
                  /\ UNCHANGED filed
             ELSE next' = end /\ filed' = filed \o NewLines(b, want)
    /\ UNCHANGED <<node, disabled, db, snap, bounds>>

\* accountNodeTraffic: the baseline is read; if that fails nothing is billed.
Baseline ==
    /\ At("baseline")
    /\ \/ /\ beat' = [beat EXCEPT !.pc = "bill", !.prev = snap,
                                  !.todo = {u \in Users : beat.body.traffic[u] > 0}]
          /\ UNCHANGED faults
       \/ Fault /\ beat' = [beat EXCEPT !.pc = "bill", !.todo = {}]
    /\ UNCHANGED <<node, panel, carried, mixed, switches>>

\* A counter never seen before becomes the baseline, and nothing is billed.
\* (Faulty variant: it is passed over.)
FirstContact_Ignored(u) == UNCHANGED snap
FirstContact(u) == snap' = [snap EXCEPT ![u] = beat.body.traffic[u]]

\* Faulty variant: the usage is saved without the snapshot.
BillUser_NoSnapshot(u) ==
    /\ db' = [db EXCEPT ![u] =
                 ApplyTraffic(@, TrafficDelta(beat.prev[u], beat.body.traffic[u]), 0)]
    /\ UNCHANGED snap

\* ApplyTrafficDelta: usage, stamp and snapshot in one transaction.
BillUser(u) ==
    LET reported == beat.body.traffic[u]
        delta == TrafficDelta(beat.prev[u], reported)
    IN /\ db' = IF delta = 0 THEN db ELSE [db EXCEPT ![u] = ApplyTraffic(@, delta, 0)]
       /\ snap' = [snap EXCEPT ![u] = reported]

\* One turn of the loop over the reported counters, which may fail.
Account(u) ==
    /\ At("bill") /\ u \in beat.todo
    /\ beat' = [beat EXCEPT !.todo = @ \ {u}]
    /\ \/ beat.prev[u] = Nil /\ FirstContact(u) /\ UNCHANGED <<db, faults>>
       \/ beat.prev[u] # Nil /\ BillUser(u) /\ UNCHANGED faults
       \/ Fault /\ UNCHANGED <<db, snap>>
    /\ UNCHANGED <<node, disabled, hub, carried, mixed, switches>>

\* Faulty variant: suspensions are left to the panel's own cores.
Entitled_Limited == {u \in Users : db[u].status \notin {"disabled", "expired"}}

\* enabledInboundSpecs: everyone whose account is not suspended.
Entitled == {u \in Users : db[u].status \notin {"disabled", "expired", "limited"}}

\* The bundle is built from the tables as they are now.
Answer ==
    /\ At("bill") /\ beat.todo = {}
    /\ beat' = Done(Entitled)
    /\ UNCHANGED <<node, panel, bounds>>

PanelRestart ==
    /\ Fault
    /\ beat' = NoBeat
    /\ next' = 0 /\ hubEpoch' = Nil /\ filed' = <<>>
    /\ UNCHANGED <<node, disabled, db, snap, carried, mixed, switches>>

\* The operator switches the node off or on (read and save taken together).
SetNodeState ==
    /\ switches < MaxSwitches /\ switches' = switches + 1
    /\ disabled' = ~disabled
    /\ UNCHANGED <<node, db, snap, hub, beat, carried, mixed, faults>>

-----------------------------------------------------------------------------
Handle == Authenticate \/ Save \/ Publish \/ Baseline \/ Answer \/ \E u \in Users : Account(u)

Next ==
    \/ \E e \in Engines, u \in Users : Traffic(e, u)
    \/ \E k \in Range(Cores) : CoreWrites(k)
    \/ \E e \in Engines : CoreDies(e)
    \/ Beat \/ BeatUnread \/ GiveUp \/ Receive \/ AgentRestart
    \/ Handle \/ PanelRestart \/ SetNodeState

Spec == Init /\ [][Next]_vars

\* The agent's ticker goes on, requests that arrived are handled, and answers
\* arrive unless one of the faults strikes.
FairSpec == Spec /\ WF_vars(Beat) /\ WF_vars(Handle) /\ WF_vars(Receive)

-----------------------------------------------------------------------------
(* Properties *)

\* Every variable keeps its shape, and the agent acknowledges no line that was
\* not written.
TypeOK ==
    /\ served \in [Engines -> {Nothing} \cup SUBSET Users] /\ up \in [Engines -> BOOLEAN]
    /\ counter \in [Engines -> [Users -> Nat]]
    /\ carried \in [Users -> Nat] /\ mixed \subseteq Users
    /\ epoch \in Nat /\ logSeq \in Nat
    /\ wrote \in [Range(Cores) -> 0 .. MaxLines]
    /\ \A k \in Range(Cores) : cursor[k] \in 0 .. wrote[k]
    /\ disabled \in BOOLEAN
    /\ db \in [Users -> Rows] /\ snap \in [Users -> Nat \cup {Nil}]
    /\ next \in Nat /\ hubEpoch \in Nat \cup {Nil} /\ filed \in Seq(Lines)
    /\ beat \in Beats
    /\ faults \in 0 .. MaxFaults /\ switches \in 0 .. MaxSwitches

\* Whatever heartbeats, answers and processes are lost, and whenever counters
\* restart, nobody is charged for more than the node carried ("cumulative
\* reporting makes a heartbeat idempotent").  Not so once both cores carry a user
\* and the counter of one is lost or left out: the sum falls, is taken for a counter
\* that restarted, and what the other core had reported is charged again.
NodeNeverOverbills == \A u \in Users \ mixed : db[u].life + db[u].used <= carried[u]

\* A line the node sends again is not filed again, and lines are filed in the
\* order their core wrote them, across restarts of either side.  With one core
\* speaking only: positions count the batch as a whole, so when two cores speak
\* and an answer is lost, the lines one of them adds shift the other's.
FiledOnceInOrder ==
    \A i, j \in DOMAIN filed :
        i < j /\ filed[i].core = filed[j].core =>
                 \/ filed[i].epoch < filed[j].epoch
                 \/ filed[i].epoch = filed[j].epoch /\ filed[i].n < filed[j].n

\* An account that exhausts its quota on a node stops being served there.
RemoteQuotaEnforced ==
    \A u \in Users :
        db[u].status = "limited" ~> (disabled \/ \A e \in Engines : up[e] => u \notin served[e])

\* What a node carries reaches the ledger, unless a counter restarts first.
RemoteTrafficBilled ==
    \A u \in Users :
        LET total == Reported(u, {}) IN
        total > 0 /\ total > snap[u] ~> (disabled \/ total = 0 \/ total <= snap[u])

=============================================================================
