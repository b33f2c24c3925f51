----------------------------- MODULE Supervisor -----------------------------
(***************************************************************************)
(* supervisor.Process: one proxy core and the goroutines around it.        *)
(*                                                                         *)
(*   callers   Apply and Stop.  Apply runs under the controller's mutex,   *)
(*             so there is one applying caller; StopAll takes no mutex and *)
(*             may overlap it.                                             *)
(*   supervise the loop that launches, reaps and relaunches, one goroutine *)
(*             per restart() ("generation").                               *)
(*   probe     one goroutine per launch, asking whether the core answers;  *)
(*             of a stock sing-box, which has no API, it takes yes for an  *)
(*             answer.                                                     *)
(*   core      the child process: it reads the file once at startup, may   *)
(*             die, and may wedge (live but no longer answering, and,      *)
(*             "deaf", not heeding SIGTERM either).                        *)
(*                                                                         *)
(* Every step is one critical section of p.mu, one system call, or one     *)
(* channel operation.  Log pumps and diagnosis are left out.               *)
(***************************************************************************)
EXTENDS Integers, FiniteSets

CONSTANTS
    Appliers,       \* callers of Apply (serialised by the controller's mutex)
    Stoppers,       \* callers of Stop alone (Controller.StopAll)
    Shapes,         \* everything in a configuration but its users
    Users,          \* users of the one inbound
    Creds,          \* credentials a user may have
    NoCred,         \* the user is not on the inbound
    NoConfig,       \* no configuration file yet
    ProbeFailures,  \* consecutive misses before a core is condemned
    MaxApplies,     \* bound: accepted configurations
    MaxStops,       \* bound: calls of Stop
    MaxFaults,      \* bound: crashes, wedges, failed starts, missed probes
    MaxLaunches     \* bound: launches (one per applied configuration and per fault
                    \* is enough: a condemned core takes a fault as well)

Callers == Appliers \cup Stoppers
Configs == [shape : Shapes, users : [Users -> Creds \cup {NoCred}]]
\* Xray; a sing-box built with the statistics API; a sing-box as it is released.
\* Xray alone takes users while it runs.
Kinds == {"xray", "metered", "stock"}
Generations == 1 .. MaxApplies   \* one per restart(), and only Apply restarts
Launches == 1 .. MaxLaunches

ASSUME BoundsAssumption ==
    /\ ProbeFailures \in Nat \ {0}
    /\ MaxApplies \in Nat /\ MaxStops \in Nat
    /\ MaxFaults \in Nat /\ MaxLaunches \in Nat \ {0}
    /\ NoConfig \notin Configs /\ NoCred \notin Creds

VARIABLES
    kind,      \* which core this is: p.spec, given once
    file,      \* the live configuration file
    state,     \* p.state
    probeKill, \* p.probeKill
    handle,    \* generation p.cancel and p.done belong to, 0 for nil
    caller,    \* the callers' locals
    sup,       \* the supervise goroutine of each generation
    core,      \* the child process of each launch
    probe,     \* the probe goroutine of each launch
    applies, stops, launches, faults

vars == <<kind, file, state, probeKill, handle, caller, sup, core, probe,
          applies, stops, launches, faults>>

-----------------------------------------------------------------------------
States == {"stopped", "running", "crashed", "invalid_config", "unresponsive"}

CallerStates ==
    [pc  : {"idle", "decide", "remove", "add", "stop", "await", "spawn"},
     old : Configs \cup {NoConfig},  \* configuration the hot apply starts from
     gen : Generations \cup {0},     \* generation whose done is awaited
     restarting : BOOLEAN]           \* Stop called from restart()

SupStates ==
    [pc : {"none", "top", "wait", "report", "backoff", "done"},
     cancelled : BOOLEAN,            \* ctx.Err() # nil
     launch : Launches \cup {0}]     \* the launch whose exit it waits for

CoreStates ==
    [at  : {"unborn", "starting", "up", "wedged", "deaf", "exited", "reaped"},
     cfg : Configs \cup {NoConfig},  \* what it serves
     gen : Generations \cup {0},
     termed : BOOLEAN]               \* the probe sent it SIGTERM

ProbeStates ==
    [pc : {"off", "wait", "asking", "judge", "kill", "mark", "signal", "done"},
     ok : BOOLEAN,                   \* the answer being judged
     missed : 0 .. ProbeFailures]    \* consecutive

IdleCaller == [pc |-> "idle", old |-> NoConfig, gen |-> 0, restarting |-> FALSE]

Init ==
    /\ kind \in Kinds
    /\ file = NoConfig /\ state = "stopped" /\ probeKill = FALSE /\ handle = 0
    /\ caller = [c \in Callers |-> IdleCaller]
    /\ sup = [g \in Generations |-> [pc |-> "none", cancelled |-> FALSE, launch |-> 0]]
    /\ core = [l \in Launches |-> [at |-> "unborn", cfg |-> NoConfig, gen |-> 0, termed |-> FALSE]]
    /\ probe = [l \in Launches |-> [pc |-> "off", ok |-> FALSE, missed |-> 0]]
    /\ applies = 0 /\ stops = 0 /\ launches = 0 /\ faults = 0

Fault == faults < MaxFaults /\ faults' = faults + 1

Alive(l) == core[l].at \in {"starting", "up", "wedged", "deaf"}
Cancelled(l) == sup[core[l].gen].cancelled

-----------------------------------------------------------------------------
(* Apply *)

\* The core's own validator refuses the candidate: the process is untouched.
ApplyInvalid(c) ==
    /\ caller[c].pc = "idle"
    /\ applies < MaxApplies /\ applies' = applies + 1
    /\ state' = "invalid_config"
    /\ UNCHANGED <<file, probeKill, handle, caller, sup, core, probe, stops, launches, faults>>

\* The old file is read and the candidate renamed over it.
ApplyValid(c, cfg) ==
    /\ caller[c].pc = "idle"
    /\ applies < MaxApplies /\ applies' = applies + 1
    /\ file' = cfg
    /\ caller' = [caller EXCEPT ![c].pc = "decide", ![c].old = file]
    /\ UNCHANGED <<state, probeKill, handle, sup, core, probe, stops, launches, faults>>

ToRestart(c) == caller' = [caller EXCEPT ![c].pc = "stop", ![c].restarting = TRUE]
Return(c) == caller' = [caller EXCEPT ![c] = IdleCaller]

\* Users to take off the running core and users to put on it; a changed
\* credential is in both.
Removed(old, new) == {u \in Users : old.users[u] # NoCred /\ new.users[u] # old.users[u]}
Added(old, new) == {u \in Users : new.users[u] # NoCred /\ new.users[u] # old.users[u]}

\* Only Xray has a hot apply; DiffUsersOnly declines everything but a change of users.
Decide(c) ==
    LET old == caller[c].old IN
    /\ caller[c].pc = "decide"
    /\ IF kind # "xray" \/ old = NoConfig \/ state # "running" \/ old.shape # file.shape
       THEN ToRestart(c)
       ELSE IF Removed(old, file) # {} THEN caller' = [caller EXCEPT ![c].pc = "remove"]
       ELSE IF Added(old, file) # {} THEN caller' = [caller EXCEPT ![c].pc = "add"]
       ELSE Return(c)
    /\ UNCHANGED <<file, state, probeKill, handle, sup, core, probe, applies, stops, launches, faults>>

\* The call reaches whichever core has the API port; without one it fails.
Answering == {l \in Launches : core[l].at = "up"}

SetUsers(l, users) == core' = [core EXCEPT ![l].cfg.users = users]

\* xray api rmu: takes off the users that are there, and reports how many.
HotRemove(c) ==
    LET out == Removed(caller[c].old, file) IN
    /\ caller[c].pc = "remove"
    /\ \/ \E l \in Answering :
             LET users == core[l].cfg.users IN
             /\ SetUsers(l, [u \in Users |-> IF u \in out THEN NoCred ELSE users[u]])
             /\ IF \E u \in out : users[u] = NoCred THEN ToRestart(c)
                ELSE IF Added(caller[c].old, file) = {} THEN Return(c)
                ELSE caller' = [caller EXCEPT ![c].pc = "add"]
             /\ UNCHANGED faults
       \/ Answering = {} /\ ToRestart(c) /\ UNCHANGED <<core, faults>>
       \/ Fault /\ ToRestart(c) /\ UNCHANGED core
    /\ UNCHANGED <<file, state, probeKill, handle, sup, probe, applies, stops, launches>>

\* Faulty variant: the number of users the core says it added is not compared.
HotAdd_Unchecked(c) ==
    LET new == Added(caller[c].old, file) IN
    /\ caller[c].pc = "add"
    /\ \/ \E l \in Answering :
             LET users == core[l].cfg.users IN
             SetUsers(l, [u \in Users |-> IF u \in new /\ users[u] = NoCred
                                          THEN file.users[u] ELSE users[u]])
       \/ UNCHANGED core
    /\ Return(c)
    /\ UNCHANGED <<file, state, probeKill, handle, sup, probe, applies, stops, launches, faults>>

\* xray api adu: a user that is already there is not added.
HotAdd(c) ==
    LET new == Added(caller[c].old, file) IN
    /\ caller[c].pc = "add"
    /\ \/ \E l \in Answering :
             LET users == core[l].cfg.users IN
             /\ SetUsers(l, [u \in Users |-> IF u \in new /\ users[u] = NoCred
                                             THEN file.users[u] ELSE users[u]])
             /\ IF \E u \in new : users[u] # NoCred THEN ToRestart(c) ELSE Return(c)
             /\ UNCHANGED faults
       \/ Answering = {} /\ ToRestart(c) /\ UNCHANGED <<core, faults>>
       \/ Fault /\ ToRestart(c) /\ UNCHANGED core
    /\ UNCHANGED <<file, state, probeKill, handle, sup, probe, applies, stops, launches>>

-----------------------------------------------------------------------------
(* Stop and restart *)

StopCall(c) ==
    /\ caller[c].pc = "idle"
    /\ stops < MaxStops /\ stops' = stops + 1
    /\ caller' = [caller EXCEPT ![c].pc = "stop", ![c].restarting = FALSE]
    /\ UNCHANGED <<file, state, probeKill, handle, sup, core, probe, applies, launches, faults>>

\* Takes cancel and done, leaving nil, and cancels the context.
StopTake(c) ==
    /\ caller[c].pc = "stop"
    /\ caller' = [caller EXCEPT ![c].pc = "await", ![c].gen = handle]
    /\ handle' = 0
    /\ sup' = IF handle = 0 THEN sup ELSE [sup EXCEPT ![handle].cancelled = TRUE]
    /\ UNCHANGED <<file, state, probeKill, core, probe, applies, stops, launches, faults>>

\* Faulty variant: returns without waiting for the process to be reaped.
StopAwait_NoWait(c) ==
    /\ caller[c].pc = "await"
    /\ state' = "stopped"
    /\ IF caller[c].restarting THEN caller' = [caller EXCEPT ![c].pc = "spawn"] ELSE Return(c)
    /\ UNCHANGED <<file, probeKill, handle, sup, core, probe, applies, stops, launches, faults>>

StopAwait(c) ==
    /\ caller[c].pc = "await"
    /\ caller[c].gen # 0 => sup[caller[c].gen].pc = "done"
    /\ state' = "stopped"
    /\ IF caller[c].restarting THEN caller' = [caller EXCEPT ![c].pc = "spawn"] ELSE Return(c)
    /\ UNCHANGED <<file, probeKill, handle, sup, core, probe, applies, stops, launches, faults>>

Spawn(c) ==
    /\ caller[c].pc = "spawn"
    /\ \E g \in Generations :
          /\ sup[g].pc = "none" /\ \A h \in Generations : sup[h].pc = "none" => g <= h
          /\ sup' = [sup EXCEPT ![g].pc = "top"]
          /\ handle' = g
    /\ Return(c)
    /\ UNCHANGED <<file, state, probeKill, core, probe, applies, stops, launches, faults>>

-----------------------------------------------------------------------------
(* The supervise goroutine of generation g *)

SupQuit(g) ==
    /\ sup[g].pc = "top" /\ sup[g].cancelled
    /\ sup' = [sup EXCEPT ![g].pc = "done"]
    /\ UNCHANGED <<file, state, probeKill, handle, caller, core, probe, applies, stops, launches, faults>>

\* cmd.Start succeeds: the process exists, but has not read its file yet.
SupLaunch(g) ==
    LET l == launches + 1 IN
    /\ sup[g].pc = "top" /\ ~sup[g].cancelled
    /\ l \in Launches
    /\ launches' = l
    /\ state' = "running"
    /\ sup' = [sup EXCEPT ![g].pc = "wait", ![g].launch = l]
    /\ core' = [core EXCEPT ![l].at = "starting", ![l].gen = g]
    /\ probe' = [probe EXCEPT ![l].pc = "wait"]
    /\ UNCHANGED <<file, probeKill, handle, caller, applies, stops, faults>>

SupStartFails(g) ==
    /\ sup[g].pc = "top" /\ ~sup[g].cancelled
    /\ Fault
    /\ state' = "crashed"
    /\ sup' = [sup EXCEPT ![g].pc = "backoff"]
    /\ UNCHANGED <<file, probeKill, handle, caller, core, probe, applies, stops, launches>>

\* cmd.Wait returns and procDone is closed.
SupReap(g) ==
    LET l == sup[g].launch IN
    /\ sup[g].pc = "wait" /\ core[l].at = "exited"
    /\ core' = [core EXCEPT ![l].at = "reaped"]
    /\ sup' = [sup EXCEPT ![g].pc = "report"]
    /\ UNCHANGED <<file, state, probeKill, handle, caller, probe, applies, stops, launches, faults>>

\* Why the process went: stopped on purpose, killed by the probe, or crashed.
SupReport(g) ==
    /\ sup[g].pc = "report"
    /\ IF sup[g].cancelled
       THEN /\ state' = "stopped"
            /\ sup' = [sup EXCEPT ![g].pc = "done"]
            /\ UNCHANGED probeKill
       ELSE /\ state' = IF probeKill THEN "unresponsive" ELSE "crashed"
            /\ probeKill' = FALSE
            /\ sup' = [sup EXCEPT ![g].pc = "backoff"]
    /\ UNCHANGED <<file, handle, caller, core, probe, applies, stops, launches, faults>>

\* Faulty variant: a crash ends the loop.
SupSleep_GivesUp(g) ==
    /\ sup[g].pc = "backoff"
    /\ sup' = [sup EXCEPT ![g].pc = "done"]
    /\ UNCHANGED <<file, state, probeKill, handle, caller, core, probe, applies, stops, launches, faults>>

\* The backoff ends, or the context does.
SupSleep(g) ==
    /\ sup[g].pc = "backoff"
    /\ sup' = [sup EXCEPT ![g].pc = IF sup[g].cancelled THEN "done" ELSE "top"]
    /\ UNCHANGED <<file, state, probeKill, handle, caller, core, probe, applies, stops, launches, faults>>

Supervise(g) == SupQuit(g) \/ SupLaunch(g) \/ SupReap(g) \/ SupReport(g) \/ SupSleep(g)

-----------------------------------------------------------------------------
(* The core of launch l *)

CoreReads(l) ==
    /\ core[l].at = "starting"
    /\ core' = [core EXCEPT ![l].at = "up", ![l].cfg = file]
    /\ UNCHANGED <<file, state, probeKill, handle, caller, sup, probe, applies, stops, launches, faults>>

CoreWedges(l) ==
    /\ core[l].at = "up" /\ Fault
    /\ \E how \in {"wedged", "deaf"} : core' = [core EXCEPT ![l].at = how]
    /\ UNCHANGED <<file, state, probeKill, handle, caller, sup, probe, applies, stops, launches>>

CoreCrashes(l) ==
    /\ Alive(l) /\ Fault
    /\ core' = [core EXCEPT ![l].at = "exited", ![l].cfg = NoConfig]
    /\ UNCHANGED <<file, state, probeKill, handle, caller, sup, probe, applies, stops, launches>>

\* Faulty variant: a cancelled context sends SIGTERM and nothing else.
MustExit_TermOnly(l) ==
    (core[l].termed \/ Cancelled(l)) /\ core[l].at # "deaf"

\* A cancelled context is SIGTERM, then a kill after WaitDelay (or Stop's own
\* Kill), which nothing survives.  The probe sends SIGTERM only.
MustExit(l) ==
    \/ Cancelled(l)
    \/ core[l].termed /\ core[l].at # "deaf"

CoreKilled(l) ==
    /\ Alive(l) /\ MustExit(l)
    /\ core' = [core EXCEPT ![l].at = "exited", ![l].cfg = NoConfig]
    /\ UNCHANGED <<file, state, probeKill, handle, caller, sup, probe, applies, stops, launches, faults>>

-----------------------------------------------------------------------------
(* The probe of launch l *)

ProbeStep(l) == UNCHANGED <<file, handle, caller, sup, applies, stops, launches>>

ProbeEnds(l) ==
    /\ probe[l].pc = "wait" /\ (Cancelled(l) \/ core[l].at = "reaped")
    /\ probe' = [probe EXCEPT ![l].pc = "done"]
    /\ ProbeStep(l) /\ UNCHANGED <<state, probeKill, core, faults>>

\* The ticker fires; select may prefer it to a context that is also done.
ProbeAsk(l) ==
    /\ probe[l].pc = "wait"
    /\ probe' = [probe EXCEPT ![l].pc = "asking"]
    /\ ProbeStep(l) /\ UNCHANGED <<state, probeKill, core, faults>>

\* The answer, thrown away if the process is gone.  A wedged core, a missing
\* one and a cancelled context always miss; a busy or a starting core may.  A
\* stock sing-box has nothing to ask, and counts as answering.
ProbeAnswer(l) ==
    /\ probe[l].pc = "asking"
    /\ IF core[l].at = "reaped"
       THEN probe' = [probe EXCEPT ![l].pc = "done"] /\ UNCHANGED faults
       ELSE \/ /\ kind = "stock" \/ (Answering # {} /\ ~Cancelled(l))
               /\ probe' = [probe EXCEPT ![l].pc = "judge", ![l].ok = TRUE]
               /\ UNCHANGED faults
            \/ /\ kind # "stock"
               /\ probe' = [probe EXCEPT ![l].pc = "judge", ![l].ok = FALSE]
               /\ IF Cancelled(l) \/ core[l].at \in {"wedged", "deaf", "exited"}
                  THEN UNCHANGED faults ELSE Fault
    /\ ProbeStep(l) /\ UNCHANGED <<state, probeKill, core>>

\* recordProbe, and the count of consecutive misses.
ProbeJudge(l) ==
    /\ probe[l].pc = "judge"
    /\ IF probe[l].ok
       THEN /\ state' = IF state = "unresponsive" THEN "running" ELSE state
            /\ probe' = [probe EXCEPT ![l].pc = "wait", ![l].missed = 0]
       ELSE LET n == probe[l].missed + 1 IN
            /\ probe' = [probe EXCEPT ![l].missed = n,
                                      ![l].pc = IF n < ProbeFailures THEN "wait" ELSE "kill"]
            /\ UNCHANGED state
    /\ ProbeStep(l) /\ UNCHANGED <<probeKill, core, faults>>

ProbeKill(l) ==
    /\ probe[l].pc = "kill"
    /\ probeKill' = TRUE
    /\ probe' = [probe EXCEPT ![l].pc = "mark"]
    /\ ProbeStep(l) /\ UNCHANGED <<state, core, faults>>

ProbeMark(l) ==
    /\ probe[l].pc = "mark"
    /\ state' = "unresponsive"
    /\ probe' = [probe EXCEPT ![l].pc = "signal"]
    /\ ProbeStep(l) /\ UNCHANGED <<probeKill, core, faults>>

\* Faulty variant: the core is reported and left alone.
ProbeSignal_None(l) ==
    /\ probe[l].pc = "signal"
    /\ probe' = [probe EXCEPT ![l].pc = "done"]
    /\ ProbeStep(l) /\ UNCHANGED <<state, probeKill, core, faults>>

\* SIGTERM; a process that was waited for can no longer be signalled.
ProbeSignal(l) ==
    /\ probe[l].pc = "signal"
    /\ probe' = [probe EXCEPT ![l].pc = "done"]
    /\ core' = [core EXCEPT ![l].termed = core[l].at # "reaped"]
    /\ ProbeStep(l) /\ UNCHANGED <<state, probeKill, faults>>

Probing(l) ==
    \/ ProbeEnds(l) \/ ProbeAsk(l) \/ ProbeAnswer(l) \/ ProbeJudge(l)
    \/ ProbeKill(l) \/ ProbeMark(l) \/ ProbeSignal(l)

-----------------------------------------------------------------------------
\* What a caller does between its call and its return.
CallerStep(c) ==
    \/ Decide(c) \/ HotRemove(c) \/ HotAdd(c)
    \/ StopTake(c) \/ StopAwait(c) \/ Spawn(c)

Next ==
    /\ UNCHANGED kind
    /\ \/ \E c \in Appliers : ApplyInvalid(c) \/ \E cfg \in Configs : ApplyValid(c, cfg)
       \/ \E c \in Callers : StopCall(c) \/ CallerStep(c)
       \/ \E g \in Generations : Supervise(g) \/ SupStartFails(g)
       \/ \E l \in Launches : \/ CoreReads(l) \/ CoreWedges(l) \/ CoreCrashes(l)
                              \/ CoreKilled(l) \/ Probing(l)

Spec == Init /\ [][Next]_vars

\* Goroutines run, tickers tick, a started core reads its file, and a process
\* that has been killed goes.  Nothing is assumed of faults or of new calls.
Fairness ==
    /\ \A c \in Callers : WF_vars(UNCHANGED kind /\ CallerStep(c))
    /\ \A g \in Generations : WF_vars(UNCHANGED kind /\ Supervise(g))
    /\ \A l \in Launches : /\ WF_vars(UNCHANGED kind /\ CoreReads(l))
                         /\ WF_vars(UNCHANGED kind /\ CoreKilled(l))
                         /\ WF_vars(UNCHANGED kind /\ Probing(l))

FairSpec == Spec /\ Fairness

-----------------------------------------------------------------------------
(* Properties *)

\* Every variable keeps the shape the code gives it.
TypeOK ==
    /\ kind \in Kinds
    /\ file \in Configs \cup {NoConfig} /\ state \in States
    /\ probeKill \in BOOLEAN /\ handle \in Generations \cup {0}
    /\ caller \in [Callers -> CallerStates]
    /\ sup \in [Generations -> SupStates]
    /\ core \in [Launches -> CoreStates]
    /\ probe \in [Launches -> ProbeStates]
    /\ applies \in 0 .. MaxApplies /\ stops \in 0 .. MaxStops
    /\ launches \in 0 .. MaxLaunches /\ faults \in 0 .. MaxFaults

\* Two cores never run at once: Stop "BLOCKS until the process is fully reaped
\* so its listening ports are released before any subsequent start binds them".
SingleCore == \A k, l \in Launches : Alive(k) /\ Alive(l) => k = l

\* What the panel is promised, whatever mixture of hot applies, restarts and
\* crashes it takes: outside a change, a core serves the file on disk.
Service == INSTANCE CoreService WITH
    target   <- file,
    live     <- IF \E l \in Launches : core[l].cfg # NoConfig
                THEN core[CHOOSE l \in Launches : core[l].cfg # NoConfig].cfg
                ELSE NoConfig,
    changing <- \E c \in Callers : caller[c].pc # "idle"
ServesTheFile == Service!Spec

\* What nothing gets a core out of: a core that no longer answers and ignores
\* SIGTERM, and a stock sing-box that no longer answers, for nobody asks it.
Beyond == {"deaf"} \cup (IF kind = "stock" THEN {"wedged"} ELSE {})

\* A supervised core that goes away comes back, until it is stopped.
Supervised == handle # 0 /\ \A c \in Callers : caller[c].pc = "idle"
CrashedCoreReturns ==
    Supervised ~> \/ \E l \in Launches : core[l].at \in {"up"} \cup Beyond
                  \/ ~Supervised

\* A core with an API to ask that no longer answers, and heeds SIGTERM, is replaced.
WedgedIsReplaced ==
    \A l \in Launches : core[l].at = "wedged" /\ "wedged" \notin Beyond ~> core[l].at # "wedged"

\* Stop and Apply return, even on a core that ignores SIGTERM.
CallsReturn == \A c \in Callers : caller[c].pc # "idle" ~> caller[c].pc = "idle"

=============================================================================
