---------------------------- MODULE MCPanelLive ----------------------------
(***************************************************************************)
(* What must eventually happen in four parts of the panel that share no    *)
(* state, checked in one run: `part' says which one moves, and the others  *)
(* stay where they began.  DnsEgress is an instance, for it shares names   *)
(* with the others.                                                        *)
(***************************************************************************)
EXTENDS Supervisor, ForgeUpstream, Webhooks

CONSTANTS one, two, shape, Ones, Both

Zone == {[cfg |-> "a", key |-> "k"], [cfg |-> "b", key |-> "l"], [cfg |-> "bad", key |-> "k"]}
Rejected == {"bad", Torn}
Ladder == <<1, 1>>

VARIABLES part,
          live, table, slot, handler, pump, sweeper, shutdown, dead, evictions, reads, early

eVars == <<live, table, slot, handler, pump, sweeper, shutdown, dead, evictions, reads, early>>

E == INSTANCE DnsEgress WITH
       Sessions <- Ones, Handlers <- Ones,
       MaxConns <- 1, MaxSlots <- 1, MaxEvictions <- 1, MaxReads <- 1

-----------------------------------------------------------------------------
PanelInit ==
    /\ part \in {"supervisor", "upstream", "webhooks", "egress"}
    /\ Init /\ UpstreamInit /\ WebhooksInit /\ E!EgressInit
    /\ part # "supervisor" => kind = "xray"

PanelNext ==
    \/ part = "supervisor" /\ Next /\ UNCHANGED <<part, upstream, webhooks, eVars>>
    \/ part = "upstream" /\ UpstreamNext /\ UNCHANGED <<part, vars, webhooks, eVars>>
    \/ part = "webhooks" /\ WebhooksNext /\ UNCHANGED <<part, vars, upstream, eVars>>
    \/ part = "egress" /\ E!EgressNext /\ UNCHANGED <<part, vars, upstream, webhooks>>

\* Upstream: goroutines run, a binary that was killed goes unless it is stuck, and
\* a call of Sync goes on.  A start that settled
\* may be awaited for ever only if it never settles: that branch is strong.
UpstreamFairness ==
    /\ \A i \in Procs : WF_upstream(part = "upstream" /\ i \notin stuck /\ Serve(i))
    /\ \A c \in Both : /\ WF_upstream(part = "upstream" /\ Sync(c))
                       /\ SF_upstream(part = "upstream" /\ Settle(c))

\* Webhooks: goroutines run, time passes, an endpoint answers or times out.
WebhookFairness ==
    /\ \A p \in Reporters : WF_webhooks(part = "webhooks" /\ Reporting(p))
    /\ WF_webhooks(part = "webhooks" /\ Work)
    /\ WF_webhooks(part = "webhooks" /\ Deliver)
    /\ WF_webhooks(part = "webhooks" /\ Tick)
    /\ WF_webhooks(part = "webhooks" /\ Closing)

\* Egress: goroutines run and a dial ends.  No destination need ever answer.
EgressFairness ==
    /\ \A h \in Ones : WF_eVars(part = "egress" /\ E!Handle(h))
    /\ \A i \in E!Slots : WF_eVars(part = "egress" /\ E!Pump(i))
    /\ WF_eVars(part = "egress" /\ E!Sweep)
    /\ WF_eVars(part = "egress" /\ E!Shutdown)

PanelSpec ==
    /\ PanelInit /\ [][PanelNext]_<<part, vars, upstream, webhooks, eVars>>
    /\ Fairness /\ UpstreamFairness /\ WebhookFairness /\ EgressFairness

-----------------------------------------------------------------------------
(* Properties of the parts; those of the modules extended are theirs. *)

\* DnsEgress: the connection of an evicted session is closed.
EvictedIsClosed == E!EvictedIsClosed

\* Webhooks and DnsEgress: Close and Shutdown return.
ClosingEnds == CloseEnds /\ E!ShutdownEnds
=============================================================================
