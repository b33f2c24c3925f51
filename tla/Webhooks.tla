------------------------------ MODULE Webhooks ------------------------------
(***************************************************************************)
(* The dispatcher of webhook events (internal/webhook): goroutines of the  *)
(* panel report facts and conditions, one worker delivers them, retries    *)
(* what failed along a finite ladder, and is told to stop.                 *)
(*                                                                         *)
(* Worker and reporters meet in a bounded queue and a wake channel of      *)
(* capacity one; a report that does not wake the worker, or a worker that  *)
(* sleeps on a stale look at the queue, loses the alert.  Time is what is  *)
(* left to wait; of what is due, the worker may take any.                  *)
(***************************************************************************)
EXTENDS Integers, Sequences, FiniteSets, SequencesExt

CONSTANTS
    Reporters,   \* goroutines that report
    Keys,        \* conditions: a type and a subject
    Endpoints,   \* the endpoints that asked for the events
    Retry,       \* retrySchedule
    MaxQueued,
    MaxTracked,  \* maxTrackedAlerts
    MaxReports   \* bound: events reported

ASSUME WebhooksAssumption ==
    /\ Retry \in Seq(Nat)
    /\ MaxQueued \in Nat \ {0} /\ MaxTracked \in Nat \ {0} /\ MaxReports \in Nat

VARIABLES
    raised,    \* Dispatcher.raised: a condition is "recent", "stale" or "none"
    queue,     \* Dispatcher.queue, of [id, to, attempt, wait]
    wake,      \* a token is in the wake channel
    worker,
    closing,   \* how far Close has come
    reporter,
    reports

webhooks == <<raised, queue, wake, worker, closing, reporter, reports>>

-----------------------------------------------------------------------------
NoReport == [pc |-> "idle"]

Tracked == {k \in Keys : raised[k] # "none"}
Closed == closing # "open"

WebhooksInit ==
    /\ raised = [k \in Keys |-> "none"]
    /\ queue = <<>> /\ wake = FALSE
    /\ worker = [pc |-> "take"]
    /\ closing = "open"
    /\ reporter = [p \in Reporters |-> NoReport]
    /\ reports = 0

-----------------------------------------------------------------------------
(* Reporting *)

\* enqueue: a new event, for every endpoint that asked for it.
Report(p) ==
    /\ reports < MaxReports /\ reports' = reports + 1
    /\ reporter' = [reporter EXCEPT ![p] = [pc |-> "push", id |-> reports + 1, to |-> Endpoints]]

\* A fact: nothing suppresses it.
Dispatch(p) ==
    /\ reporter[p] = NoReport
    /\ Report(p)
    /\ UNCHANGED <<raised, queue, wake, worker, closing>>

\* The oldest condition makes room for a new one.
Evicted(k) ==
    IF raised[k] # "none" \/ Cardinality(Tracked) < MaxTracked THEN {raised}
    ELSE {[raised EXCEPT ![old] = "none"] : old \in
            IF \E s \in Tracked : raised[s] = "stale"
            THEN {s \in Tracked : raised[s] = "stale"} ELSE Tracked}

\* A condition, unless it was reported lately.
Alert(p, k) ==
    /\ reporter[p] = NoReport
    /\ raised[k] # "recent"
    /\ \E kept \in Evicted(k) : raised' = [kept EXCEPT ![k] = "recent"]
    /\ Report(p)
    /\ UNCHANGED <<queue, wake, worker, closing>>

\* It has cleared: to be reported if it was raised.
ResolveAlert(p, k) ==
    /\ reporter[p] = NoReport
    /\ raised[k] # "none"
    /\ raised' = [raised EXCEPT ![k] = "none"]
    /\ Report(p)
    /\ UNCHANGED <<queue, wake, worker, closing>>

\* repeatAfter has passed.
Stale(k) ==
    /\ raised[k] = "recent"
    /\ raised' = [raised EXCEPT ![k] = "stale"]
    /\ UNCHANGED <<queue, wake, worker, closing, reporter, reports>>

\* push, in the lock: not when closed; a full queue loses its first delivery.
Pushed(d) ==
    IF Closed THEN queue
    ELSE Append(IF Len(queue) >= MaxQueued THEN Tail(queue) ELSE queue, d)

\* Faulty variant: only the first in the queue wakes the worker.
Push_WakesOnce(p) ==
    /\ reporter[p].pc = "push"
    /\ \E e \in reporter[p].to :
        /\ queue' = Pushed([id |-> reporter[p].id, to |-> e, attempt |-> 0, wait |-> 0])
        /\ reporter' = [reporter EXCEPT ![p].pc = IF Closed \/ queue # <<>> THEN "next" ELSE "wake",
                                        ![p].to = @ \ {e}]
    /\ UNCHANGED <<raised, wake, worker, closing, reports>>

Push(p) ==
    /\ reporter[p].pc = "push"
    /\ \E e \in reporter[p].to :
        /\ queue' = Pushed([id |-> reporter[p].id, to |-> e, attempt |-> 0, wait |-> 0])
        /\ reporter' = [reporter EXCEPT ![p].pc = IF Closed THEN "next" ELSE "wake",
                                        ![p].to = @ \ {e}]
    /\ UNCHANGED <<raised, wake, worker, closing, reports>>

NextEndpoint(p) ==
    reporter' = [reporter EXCEPT ![p] = IF @.to = {} THEN NoReport ELSE [@ EXCEPT !.pc = "push"]]

\* The rest of push: a token for the worker, if there is none.
Wake(p) ==
    /\ reporter[p].pc \in {"wake", "next"}
    /\ wake' = (wake \/ reporter[p].pc = "wake")
    /\ NextEndpoint(p)
    /\ UNCHANGED <<raised, queue, worker, closing, reports>>

-----------------------------------------------------------------------------
(* The worker *)

Ready == {i \in 1 .. Len(queue) : queue[i].wait = 0}
Shortest == CHOOSE n \in {queue[i].wait : i \in 1 .. Len(queue)} :
                \A i \in 1 .. Len(queue) : n <= queue[i].wait

\* Faulty variant: an empty queue and one with nothing due are treated alike.
Take_NoTimer ==
    /\ worker.pc = "take"
    /\ \/ /\ Closed \/ Ready = {}
          /\ worker' = [pc |-> "sleep"] /\ UNCHANGED queue
       \/ ~Closed /\ \E i \in Ready :
            /\ worker' = [pc |-> "send", d |-> queue[i]]
            /\ queue' = RemoveAt(queue, i)
    /\ UNCHANGED <<raised, wake, closing, reporter, reports>>

\* Faulty variant: what is sent stays in the queue.
Take_Leaves ==
    /\ worker.pc = "take"
    /\ \/ /\ Closed \/ queue = <<>>
          /\ worker' = [pc |-> "sleep"]
       \/ /\ ~Closed /\ queue # <<>> /\ Ready = {}
          /\ worker' = [pc |-> "timer", wait |-> Shortest]
       \/ ~Closed /\ \E i \in Ready : worker' = [pc |-> "send", d |-> queue[i]]
    /\ UNCHANGED <<raised, queue, wake, closing, reporter, reports>>

\* take: something due; or how long until something is; or nothing.
Take ==
    /\ worker.pc = "take"
    /\ \/ /\ Closed \/ queue = <<>>
          /\ worker' = [pc |-> "sleep"] /\ UNCHANGED queue
       \/ /\ ~Closed /\ queue # <<>> /\ Ready = {}
          /\ worker' = [pc |-> "timer", wait |-> Shortest] /\ UNCHANGED queue
       \/ ~Closed /\ \E i \in Ready :
            /\ worker' = [pc |-> "send", d |-> queue[i]]
            /\ queue' = RemoveAt(queue, i)
    /\ UNCHANGED <<raised, wake, closing, reporter, reports>>

\* The receiver accepts the event, or says it never will.
Settled ==
    /\ worker.pc = "send"
    /\ worker' = [pc |-> "take"]
    /\ UNCHANGED <<raised, queue, wake, closing, reporter, reports>>

\* The attempt fails in a way that may pass: again later, or given up.
Fails ==
    LET n == worker.d.attempt + 1 IN
    /\ worker.pc = "send"
    /\ worker' = [pc |-> "take"]
    /\ \/ n > Len(Retry) /\ UNCHANGED <<queue, wake>>
       \/ /\ n <= Len(Retry)
          /\ queue' = Pushed([worker.d EXCEPT !.attempt = n, !.wait = Retry[n]])
          /\ wake' = (wake \/ ~Closed)
    /\ UNCHANGED <<raised, closing, reporter, reports>>

Awakes ==
    /\ worker.pc \in {"timer", "sleep"} /\ wake
    /\ worker' = [pc |-> "take"] /\ wake' = FALSE
    /\ UNCHANGED <<raised, queue, closing, reporter, reports>>

TimerFires ==
    /\ worker.pc = "timer" /\ worker.wait = 0
    /\ worker' = [pc |-> "take"]
    /\ UNCHANGED <<raised, queue, wake, closing, reporter, reports>>

\* Faulty variant: an idle worker does not hear of quit.
Quits_Busy ==
    /\ worker.pc = "timer" /\ closing \in {"quit", "returned"}
    /\ worker' = [pc |-> "ended"]
    /\ UNCHANGED <<raised, queue, wake, closing, reporter, reports>>

Quits ==
    /\ worker.pc \in {"timer", "sleep"} /\ closing \in {"quit", "returned"}
    /\ worker' = [pc |-> "ended"]
    /\ UNCHANGED <<raised, queue, wake, closing, reporter, reports>>

\* Time passes for everything that waits.
Tick ==
    /\ \/ \E i \in 1 .. Len(queue) : queue[i].wait > 0
       \/ worker.pc = "timer" /\ worker.wait > 0
    /\ queue' = [i \in 1 .. Len(queue) |->
                    [queue[i] EXCEPT !.wait = IF @ = 0 THEN 0 ELSE @ - 1]]
    /\ worker' = IF worker.pc = "timer" /\ worker.wait > 0
                 THEN [worker EXCEPT !.wait = @ - 1] ELSE worker
    /\ UNCHANGED <<raised, wake, closing, reporter, reports>>

-----------------------------------------------------------------------------
(* Close, once: closed under the lock, quit, and the worker's end *)

CloseTo(from, to) ==
    /\ closing = from /\ closing' = to
    /\ UNCHANGED <<raised, queue, wake, worker, reporter, reports>>

CloseBegins == CloseTo("open", "closed")
CloseQuits == CloseTo("closed", "quit")
CloseReturns == worker.pc = "ended" /\ CloseTo("quit", "returned")

-----------------------------------------------------------------------------
Reporting(p) == Push(p) \/ Wake(p)
Deliver == Settled \/ Fails
Work == Take \/ Awakes \/ TimerFires \/ Quits
Closing == CloseQuits \/ CloseReturns

WebhooksNext ==
    \/ \E p \in Reporters :
        Dispatch(p) \/ Reporting(p) \/ \E k \in Keys : Alert(p, k) \/ ResolveAlert(p, k)
    \/ \E k \in Keys : Stale(k)
    \/ Work \/ Deliver \/ Tick
    \/ CloseBegins \/ Closing

WebhooksSpec == WebhooksInit /\ [][WebhooksNext]_webhooks

-----------------------------------------------------------------------------
(* Properties *)

\* The backlog and the alerts that are tracked stay within their bounds, and no
\* delivery is tried more often than the ladder has steps.
Deliveries == [id : 1 .. MaxReports, to : Endpoints, attempt : 0 .. Len(Retry), wait : Nat]

WebhooksTypeOK ==
    /\ raised \in [Keys -> {"none", "recent", "stale"}]
    /\ Cardinality(Tracked) <= MaxTracked
    /\ queue \in Seq(Deliveries) /\ Len(queue) <= MaxQueued
    /\ wake \in BOOLEAN
    /\ worker \in [pc : {"take", "sleep", "ended"}] \cup [pc : {"timer"}, wait : Nat]
                      \cup [pc : {"send"}, d : Deliveries]
    /\ closing \in {"open", "closed", "quit", "returned"}
    /\ reporter \in [Reporters -> {NoReport} \cup
           [pc : {"push", "wake", "next"}, id : 1 .. MaxReports, to : SUBSET Endpoints]]
    /\ reports \in 0 .. MaxReports

\* A token for the worker, or somebody on the way to give it one.
Waking == wake \/ \E p \in Reporters : reporter[p].pc = "wake"

\* No wakeup is lost: until Close, a worker nobody is about to wake sleeps only on
\* an empty queue, and waits no longer than the first delivery that comes due.
NeverSleptOn ==
    ~Closed /\ ~Waking =>
        /\ worker.pc = "sleep" => queue = <<>>
        /\ worker.pc = "timer" => \A i \in 1 .. Len(queue) : worker.wait <= queue[i].wait

\* An endpoint has one delivery of an event at most, queued or in hand, whatever
\* is retried.
OneDelivery ==
    /\ \A i, j \in 1 .. Len(queue) :
           queue[i].id = queue[j].id /\ queue[i].to = queue[j].to => i = j
    /\ worker.pc = "send" =>
           \A i \in 1 .. Len(queue) : ~(queue[i].id = worker.d.id /\ queue[i].to = worker.d.to)

InHand == IF worker.pc = "send" THEN {worker.d} ELSE {}
Pending(id) == \E d \in ToSet(queue) \cup InHand : d.id = id

\* Every event that is queued is settled, given up after the ladder, dropped from
\* a full queue, or abandoned by Close: the worker never sleeps on it.
EveryDeliveryEnds == \A id \in 1 .. MaxReports : Pending(id) ~> (~Pending(id) \/ Closed)

\* Close returns, whatever waits for its retry.
CloseEnds == Closed ~> closing = "returned"
=============================================================================
