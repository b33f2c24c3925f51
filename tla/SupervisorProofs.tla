------------------------- MODULE SupervisorProofs -------------------------
(***************************************************************************)
(* Theorems of Supervisor for any users, credentials, configurations and   *)
(* bounds: type correctness, for any callers; and, for a single caller,    *)
(* which is what the controller's mutex leaves, that two cores never run   *)
(* at once and that the detailed supervisor implements CoreService.        *)
(***************************************************************************)
EXTENDS Supervisor, TLAPS

\* Apply and Stop are called by one goroutine at a time.  StopAll, which does not
\* take the mutex, is left out: it can return before the core it should stop exists.
OneCaller == \E c \in Callers : Callers = {c}

-----------------------------------------------------------------------------
(* Type correctness *)

\* What a configuration is made of.
LEMMA ConfigFields ==
    ASSUME NEW k \in Configs
    PROVE  /\ k.shape \in Shapes /\ k.users \in [Users -> Creds \cup {NoCred}]
           /\ k = [shape |-> k.shape, users |-> k.users]
           /\ \A m \in [Users -> Creds \cup {NoCred}] :
                 [k EXCEPT !.users = m] = [shape |-> k.shape, users |-> m]
BY DEF Configs

\* Two configurations that agree in both fields are one.
LEMMA ConfigEqual ==
    ASSUME NEW k \in Configs, NEW m \in Configs, k.shape = m.shape,
           \A u \in Users : k.users[u] = m.users[u]
    PROVE  k = m
BY ConfigFields

\* A core that serves something has not exited, and serves a configuration.
ServedByLive ==
    \A l \in Launches : /\ core[l].cfg # NoConfig => core[l].at \in {"up", "wedged", "deaf"}
                        /\ core[l].at = "up" => core[l].cfg \in Configs
                        /\ l > launches => core[l].at = "unborn"

\* A goroutine that is to start or has started a core.
Busy(g) == sup[g].pc \notin {"none", "done"}

\* Before anything is started there is a configuration to start it on.
FileFirst ==
    /\ \A g \in Generations : Busy(g) => file \in Configs
    /\ \A l \in Launches : core[l].at = "starting" => file \in Configs
    /\ \A c \in Callers :
          \/ caller[c].pc \in {"decide", "remove", "add"}
          \/ caller[c].pc \in {"stop", "await", "spawn"} /\ caller[c].restarting
          => file \in Configs
    /\ \A c \in Callers : caller[c].pc \in {"remove", "add"} => caller[c].old \in Configs
    /\ \A c \in Callers : caller[c].pc = "spawn" => caller[c].restarting

\* A probe that condemned its core does not count on.
FewMissed ==
    \A l \in Launches :
        /\ probe[l].pc \in {"off", "wait", "asking", "judge"} => probe[l].missed < ProbeFailures
        /\ l > launches => probe[l].pc = "off"

TypeInv == TypeOK /\ ServedByLive /\ FileFirst /\ FewMissed

LEMMA TypeInit == Init => TypeInv
<1> SUFFICES ASSUME Init PROVE TypeInv
  OBVIOUS
<1>1. caller \in [Callers -> CallerStates]
  BY DEF Init, IdleCaller, CallerStates
<1>2. sup \in [Generations -> SupStates] /\ core \in [Launches -> CoreStates]
  BY DEF Init, SupStates, CoreStates
<1>3. probe \in [Launches -> ProbeStates]
  BY BoundsAssumption DEF Init, ProbeStates
<1>4. applies \in 0 .. MaxApplies /\ stops \in 0 .. MaxStops
  BY BoundsAssumption DEF Init
<1>5. launches \in 0 .. MaxLaunches /\ faults \in 0 .. MaxFaults
  BY BoundsAssumption DEF Init
<1>6. TypeOK
  BY <1>1, <1>2, <1>3, <1>4, <1>5 DEF Init, TypeOK, States
<1> QED
  BY <1>6, BoundsAssumption DEF Init, TypeInv, ServedByLive, FileFirst, FewMissed, Busy, IdleCaller

\* A fault is counted within its bound.
LEMMA FaultType ==
    ASSUME TypeOK, Fault
    PROVE  faults' \in 0 .. MaxFaults
BY BoundsAssumption DEF TypeOK, Fault

\* A caller's step keeps the callers in their type.
LEMMA CallerType ==
    ASSUME TypeOK, NEW c \in Callers
    PROVE  /\ IdleCaller \in CallerStates
           /\ [caller EXCEPT ![c].pc = "remove"] \in [Callers -> CallerStates]
           /\ [caller EXCEPT ![c].pc = "add"] \in [Callers -> CallerStates]
           /\ [caller EXCEPT ![c].pc = "spawn"] \in [Callers -> CallerStates]
           /\ \A b \in BOOLEAN :
                 [caller EXCEPT ![c].pc = "stop", ![c].restarting = b] \in [Callers -> CallerStates]
           /\ ToRestart(c) \/ Return(c) => caller' \in [Callers -> CallerStates]
           /\ [caller EXCEPT ![c].pc = "decide", ![c].old = file] \in [Callers -> CallerStates]
           /\ [caller EXCEPT ![c].pc = "await", ![c].gen = handle] \in [Callers -> CallerStates]
<1>1. caller[c] \in CallerStates /\ caller \in [Callers -> CallerStates]
  BY DEF TypeOK
<1>2. IdleCaller \in CallerStates
  BY DEF CallerStates, IdleCaller
<1>3. ASSUME NEW pc \in {"decide", "remove", "add", "stop", "await", "spawn"}
      PROVE  [caller EXCEPT ![c].pc = pc] \in [Callers -> CallerStates]
  BY <1>1 DEF CallerStates
<1>4. ASSUME NEW b \in BOOLEAN
      PROVE  [caller EXCEPT ![c].pc = "stop", ![c].restarting = b] \in [Callers -> CallerStates]
  BY <1>1 DEF CallerStates
<1>5. [caller EXCEPT ![c].pc = "decide", ![c].old = file] \in [Callers -> CallerStates]
  BY <1>1 DEF CallerStates, TypeOK
<1>6. [caller EXCEPT ![c].pc = "await", ![c].gen = handle] \in [Callers -> CallerStates]
  BY <1>1 DEF CallerStates, TypeOK
<1>7. Return(c) => caller' \in [Callers -> CallerStates]
  BY <1>1, <1>2 DEF Return
<1>8. ToRestart(c) => caller' \in [Callers -> CallerStates]
  BY <1>4 DEF ToRestart
<1> QED
  BY <1>2, <1>3, <1>4, <1>5, <1>6, <1>7, <1>8, ZenonT(40)

\* A hot call changes the users of one core that is up.
LEMMA SetUsersType ==
    ASSUME TypeInv, NEW l \in Answering, NEW users \in [Users -> Creds \cup {NoCred}],
           SetUsers(l, users)
    PROVE  /\ core' \in [Launches -> CoreStates]
           /\ core'[l].cfg = [core[l].cfg EXCEPT !.users = users] /\ core'[l].cfg \in Configs
           /\ \A k \in Launches : /\ core'[k].at = core[k].at /\ core'[k].gen = core[k].gen
                                  /\ core'[k].termed = core[k].termed
                                  /\ k # l => core'[k] = core[k]
<1>1. core[l].cfg \in Configs /\ l \in Launches
  BY DEF TypeInv, ServedByLive, Answering
<1>2. [core[l].cfg EXCEPT !.users = users] \in Configs
  BY <1>1 DEF Configs
<1>3. core' = [core EXCEPT ![l].cfg.users = users]
  BY DEF SetUsers
<1>4. core'[l] = [core[l] EXCEPT !.cfg = [core[l].cfg EXCEPT !.users = users]]
  BY <1>1, <1>3 DEF TypeInv, TypeOK, CoreStates
<1> QED
  BY <1>1, <1>2, <1>3, <1>4 DEF TypeInv, TypeOK, CoreStates

\* The callers keep the types.
LEMMA CallersType ==
    ASSUME TypeInv, UNCHANGED kind, NEW c \in Callers,
           \/ ApplyInvalid(c) \/ StopCall(c) \/ CallerStep(c)
           \/ \E cfg \in Configs : ApplyValid(c, cfg)
    PROVE  TypeOK'
<1> USE DEF TypeInv
<1>1. CASE ApplyInvalid(c)
  BY <1>1, BoundsAssumption DEF TypeOK, ApplyInvalid, States
<1>2. ASSUME NEW cfg \in Configs, ApplyValid(c, cfg) PROVE TypeOK'
  <2>1. caller' \in [Callers -> CallerStates]
    BY <1>2, CallerType DEF ApplyValid
  <2>2. applies' \in 0 .. MaxApplies
    BY <1>2, BoundsAssumption DEF TypeOK, ApplyValid
  <2> QED
    BY <1>2, <2>1, <2>2 DEF TypeOK, ApplyValid
<1>3. CASE StopCall(c)
  <2>1. caller' \in [Callers -> CallerStates]
    BY <1>3, CallerType DEF StopCall
  <2>2. stops' \in 0 .. MaxStops
    BY <1>3, BoundsAssumption DEF TypeOK, StopCall
  <2> QED
    BY <1>3, <2>1, <2>2 DEF TypeOK, StopCall
<1>4. CASE Decide(c)
  <2>1. caller' \in [Callers -> CallerStates]
    <3>1. \/ ToRestart(c) \/ Return(c)
          \/ caller' = [caller EXCEPT ![c].pc = "remove"]
          \/ caller' = [caller EXCEPT ![c].pc = "add"]
      BY <1>4 DEF Decide
    <3>2. CASE ToRestart(c) \/ Return(c)
      BY <3>2, CallerType
    <3>3. CASE caller' = [caller EXCEPT ![c].pc = "remove"]
      BY <3>3, CallerType
    <3>4. CASE caller' = [caller EXCEPT ![c].pc = "add"]
      BY <3>4, CallerType
    <3> QED
      BY <3>1, <3>2, <3>3, <3>4
  <2> QED
    BY <1>4, <2>1 DEF TypeOK, Decide
<1>5. CASE HotRemove(c)
  <2>1. caller' \in [Callers -> CallerStates]
    BY <1>5, CallerType, ZenonT(40) DEF HotRemove
  <2>2. faults' \in 0 .. MaxFaults
    BY <1>5, FaultType DEF HotRemove, TypeOK
  <2>3. core' \in [Launches -> CoreStates]
    <3>1. ASSUME NEW l \in Answering,
                 SetUsers(l, [u \in Users |-> IF u \in Removed(caller[c].old, file) THEN NoCred
                                              ELSE core[l].cfg.users[u]])
          PROVE  core' \in [Launches -> CoreStates]
      <4>1. core[l].cfg \in Configs
        BY <3>1 DEF ServedByLive, Answering
      <4> QED
        BY <3>1, <4>1, SetUsersType, ConfigFields
    <3> QED
      BY <1>5, <3>1 DEF HotRemove, TypeOK
  <2> QED
    BY <1>5, <2>1, <2>2, <2>3 DEF TypeOK, HotRemove
<1>6. CASE HotAdd(c)
  <2>1. caller' \in [Callers -> CallerStates]
    BY <1>6, CallerType DEF HotAdd
  <2>2. faults' \in 0 .. MaxFaults
    BY <1>6, FaultType DEF HotAdd, TypeOK
  <2>3. core' \in [Launches -> CoreStates]
    <3>1. ASSUME NEW l \in Answering,
                 SetUsers(l, [u \in Users |-> IF u \in Added(caller[c].old, file)
                                                 /\ core[l].cfg.users[u] = NoCred
                                              THEN file.users[u] ELSE core[l].cfg.users[u]])
          PROVE  core' \in [Launches -> CoreStates]
      <4>1. core[l].cfg \in Configs /\ file \in Configs
        BY <1>6, <3>1 DEF ServedByLive, Answering, FileFirst, HotAdd
      <4> QED
        BY <3>1, <4>1, SetUsersType, ConfigFields, ZenonT(40)
    <3> QED
      BY <1>6, <3>1 DEF HotAdd, TypeOK
  <2> QED
    BY <1>6, <2>1, <2>2, <2>3 DEF TypeOK, HotAdd
<1>7. CASE StopTake(c)
  <2>1. sup' \in [Generations -> SupStates]
    BY <1>7, ZenonT(40) DEF TypeOK, StopTake, SupStates
  <2> QED
    <3>1. caller' \in [Callers -> CallerStates]
      BY <1>7, CallerType DEF StopTake
    <3> QED
      BY <1>7, <2>1, <3>1 DEF TypeOK, StopTake
<1>8. CASE StopAwait(c)
  <2>1. caller' \in [Callers -> CallerStates]
    BY <1>8, CallerType, ZenonT(40) DEF StopAwait
  <2> QED
    BY <1>8, <2>1 DEF TypeOK, StopAwait, States
<1>9. CASE Spawn(c)
  <2>1. sup' \in [Generations -> SupStates] /\ handle' \in Generations
    BY <1>9 DEF TypeOK, Spawn, SupStates
  <2> QED
    <3>1. caller' \in [Callers -> CallerStates]
      BY <1>9, CallerType DEF Spawn
    <3> QED
      BY <1>9, <2>1, <3>1 DEF TypeOK, Spawn
<1> QED
  BY <1>1, <1>2, <1>3, <1>4, <1>5, <1>6, <1>7, <1>8, <1>9 DEF CallerStep

\* The supervising goroutines and the cores keep the types.
LEMMA SupervisedType ==
    ASSUME TypeInv, UNCHANGED kind,
           \/ \E g \in Generations : Supervise(g) \/ SupStartFails(g)
           \/ \E l \in Launches : CoreReads(l) \/ CoreWedges(l) \/ CoreCrashes(l) \/ CoreKilled(l)
    PROVE  TypeOK'
<1> USE DEF TypeInv
<1>1. ASSUME NEW g \in Generations, SupQuit(g) \/ SupSleep(g) PROVE TypeOK'
  BY <1>1 DEF TypeOK, SupStates, SupQuit, SupSleep
<1>2. ASSUME NEW g \in Generations, SupLaunch(g) PROVE TypeOK'
  <2>1. sup' \in [Generations -> SupStates]
    BY <1>2, ZenonT(40) DEF TypeOK, SupStates, SupLaunch
  <2>2. core' \in [Launches -> CoreStates]
    BY <1>2 DEF TypeOK, CoreStates, SupLaunch
  <2>3. probe' \in [Launches -> ProbeStates]
    BY <1>2 DEF TypeOK, ProbeStates, SupLaunch
  <2>4. launches' \in 0 .. MaxLaunches
    BY <1>2, BoundsAssumption DEF SupLaunch, Launches
  <2> QED
    BY <1>2, <2>1, <2>2, <2>3, <2>4 DEF TypeOK, SupLaunch, States
<1>3. ASSUME NEW g \in Generations, SupStartFails(g) PROVE TypeOK'
  BY <1>3, FaultType DEF TypeOK, SupStates, SupStartFails, States
<1>4. ASSUME NEW g \in Generations, SupReap(g) PROVE TypeOK'
  <2>1. sup' \in [Generations -> SupStates]
    BY <1>4 DEF TypeOK, SupStates, SupReap
  <2>2. core' \in [Launches -> CoreStates]
    <3>1. core' = [core EXCEPT ![sup[g].launch].at = "reaped"]
      BY <1>4 DEF SupReap
    <3>2. CASE sup[g].launch \in Launches
      BY <3>1, <3>2 DEF TypeOK, CoreStates
    <3>3. CASE sup[g].launch \notin Launches
      BY <3>1, <3>3 DEF TypeOK
    <3> QED
      BY <3>2, <3>3
  <2> QED
    BY <1>4, <2>1, <2>2 DEF TypeOK, SupReap
<1>5. ASSUME NEW g \in Generations, SupReport(g) PROVE TypeOK'
  <2>1. sup' \in [Generations -> SupStates]
    BY <1>5 DEF TypeOK, SupStates, SupReport
  <2>2. state' \in States /\ probeKill' \in BOOLEAN
    BY <1>5 DEF TypeOK, SupReport, States
  <2> QED
    BY <1>5, <2>1, <2>2 DEF TypeOK, SupReport
<1>6. ASSUME NEW l \in Launches, CoreReads(l) \/ CoreKilled(l) PROVE TypeOK'
  <2>1. core' \in [Launches -> CoreStates]
    <3>1. CASE CoreReads(l)
      BY <3>1 DEF TypeOK, CoreStates, CoreReads
    <3>2. CASE CoreKilled(l)
      BY <3>2, SMTT(40) DEF TypeOK, CoreStates, CoreKilled
    <3> QED
      BY <1>6, <3>1, <3>2
  <2> QED
    BY <1>6, <2>1 DEF TypeOK, CoreReads, CoreKilled
<1>7. ASSUME NEW l \in Launches, CoreWedges(l) \/ CoreCrashes(l) PROVE TypeOK'
  BY <1>7, FaultType DEF TypeOK, CoreStates, CoreWedges, CoreCrashes
<1> QED
  BY <1>1, <1>2, <1>3, <1>4, <1>5, <1>6, <1>7 DEF Supervise

\* The probes keep the types.
LEMMA ProbesType ==
    ASSUME TypeInv, UNCHANGED kind, NEW l \in Launches, Probing(l)
    PROVE  TypeOK'
<1> USE DEF TypeInv, ProbeStep
<1>1. CASE ProbeEnds(l) \/ ProbeAsk(l)
  BY <1>1 DEF TypeOK, ProbeStates, ProbeEnds, ProbeAsk
<1>2. CASE ProbeAnswer(l)
  <2>1. probe' \in [Launches -> ProbeStates]
    BY <1>2 DEF TypeOK, ProbeStates, ProbeAnswer
  <2>2. faults' \in 0 .. MaxFaults
    BY <1>2, FaultType DEF TypeOK, ProbeAnswer
  <2> QED
    BY <1>2, <2>1, <2>2 DEF TypeOK, ProbeAnswer
<1>3. CASE ProbeJudge(l)
  <2>1. probe[l].missed \in Nat /\ probe[l].missed < ProbeFailures
    BY <1>3, BoundsAssumption DEF TypeOK, ProbeStates, ProbeJudge, FewMissed
  <2>2. probe' \in [Launches -> ProbeStates]
    BY <1>3, <2>1, BoundsAssumption DEF TypeOK, ProbeStates, ProbeJudge
  <2>3. state' \in States
    BY <1>3 DEF TypeOK, ProbeJudge, States
  <2> QED
    BY <1>3, <2>2, <2>3 DEF TypeOK, ProbeJudge
<1>4. CASE ProbeKill(l) \/ ProbeMark(l)
  BY <1>4, ZenonT(40) DEF TypeOK, ProbeStates, ProbeKill, ProbeMark, States
<1>5. CASE ProbeSignal(l)
  <2>1. probe' \in [Launches -> ProbeStates]
    BY <1>5 DEF TypeOK, ProbeStates, ProbeSignal
  <2>2. PICK b \in BOOLEAN : core' = [core EXCEPT ![l].termed = b]
    BY <1>5 DEF ProbeSignal
  <2>3. core' \in [Launches -> CoreStates]
    BY <2>2 DEF TypeOK, CoreStates
  <2> QED
    BY <1>5, <2>1, <2>3 DEF TypeOK, ProbeSignal
<1> QED
  BY <1>1, <1>2, <1>3, <1>4, <1>5 DEF Probing

LEMMA TypeStep == TypeInv /\ [Next]_vars => TypeOK'
<1> SUFFICES ASSUME TypeInv, [Next]_vars PROVE TypeOK'
  OBVIOUS
<1>1. CASE UNCHANGED vars
  BY <1>1 DEF TypeInv, TypeOK, vars
<1>2. CASE Next
  BY <1>2, CallersType, SupervisedType, ProbesType DEF Next, Callers
<1> QED
  BY <1>1, <1>2

\* How a core moves when no caller touches it: it starts, reads the file, wedges,
\* goes, is reaped.
CoreMoves(l) ==
    \/ core'[l].cfg = core[l].cfg /\ core'[l].at = core[l].at
    \/ core'[l].cfg = core[l].cfg /\ core[l].at = "up" /\ core'[l].at \in {"wedged", "deaf"}
    \/ core'[l].cfg = NoConfig /\ Alive(l) /\ core'[l].at = "exited"
    \/ core'[l].cfg = core[l].cfg /\ core[l].at = "exited" /\ core'[l].at = "reaped"
    \/ core'[l].cfg = core[l].cfg /\ l = launches' /\ core'[l].at = "starting"
       /\ launches' = launches + 1 /\ \E g \in Generations : SupLaunch(g)
    \/ core[l].at = "starting" /\ core'[l].at = "up" /\ core'[l].cfg = file

\* A step of a core, of the goroutine around it or of its probe is such a move.
LEMMA OwnMoves ==
    ASSUME TypeInv,
           \/ \E g \in Generations : Supervise(g) \/ SupStartFails(g)
           \/ \E l \in Launches : \/ CoreReads(l) \/ CoreWedges(l) \/ CoreCrashes(l)
                                  \/ CoreKilled(l) \/ Probing(l),
           NEW l \in Launches
    PROVE  CoreMoves(l) /\ UNCHANGED <<file, caller, applies, stops, handle>>
<1> USE DEF TypeInv, TypeOK, CoreStates
<1>1. ASSUME NEW g \in Generations, SupQuit(g) \/ SupSleep(g) \/ SupReport(g) \/ SupStartFails(g)
      PROVE  core' = core /\ UNCHANGED <<file, caller, applies, stops, handle>>
  BY <1>1 DEF SupQuit, SupSleep, SupReport, SupStartFails
<1>2. ASSUME NEW g \in Generations, SupLaunch(g)
      PROVE  CoreMoves(l) /\ UNCHANGED <<file, caller, applies, stops, handle>>
  BY <1>2, ZenonT(40) DEF SupLaunch, CoreMoves
<1>3. ASSUME NEW g \in Generations, SupReap(g)
      PROVE  CoreMoves(l) /\ UNCHANGED <<file, caller, applies, stops, handle>>
  BY <1>3 DEF SupReap, CoreMoves
<1>4. ASSUME NEW k \in Launches, CoreReads(k)
      PROVE  CoreMoves(l) /\ UNCHANGED <<file, caller, applies, stops, handle>>
  BY <1>4 DEF CoreReads, CoreMoves
<1>5. ASSUME NEW k \in Launches, CoreWedges(k)
      PROVE  CoreMoves(l) /\ UNCHANGED <<file, caller, applies, stops, handle>>
  BY <1>5 DEF CoreWedges, CoreMoves
<1>6. ASSUME NEW k \in Launches, CoreCrashes(k)
      PROVE  CoreMoves(l) /\ UNCHANGED <<file, caller, applies, stops, handle>>
  BY <1>6 DEF CoreCrashes, CoreMoves
<1>7. ASSUME NEW k \in Launches, CoreKilled(k)
      PROVE  CoreMoves(l) /\ UNCHANGED <<file, caller, applies, stops, handle>>
  BY <1>7 DEF CoreKilled, CoreMoves
<1>8. ASSUME NEW k \in Launches, ProbeSignal(k)
      PROVE  CoreMoves(l) /\ UNCHANGED <<file, caller, applies, stops, handle>>
  BY <1>8 DEF ProbeSignal, ProbeStep, CoreMoves
<1>9. ASSUME NEW k \in Launches,
             ProbeEnds(k) \/ ProbeAsk(k) \/ ProbeAnswer(k) \/ ProbeJudge(k) \/ ProbeKill(k) \/ ProbeMark(k)
      PROVE  core' = core /\ UNCHANGED <<file, caller, applies, stops, handle>>
  BY <1>9 DEF ProbeEnds, ProbeAsk, ProbeAnswer, ProbeJudge, ProbeKill, ProbeMark, ProbeStep
<1> QED
  BY <1>1, <1>2, <1>3, <1>4, <1>5, <1>6, <1>7, <1>8, <1>9 DEF Supervise, Probing, CoreMoves

\* What a caller's step does to the cores: nothing, or a hot call changes one that is up.
LEMMA CallersMove ==
    ASSUME TypeInv, NEW c \in Callers,
           \/ ApplyInvalid(c) \/ StopCall(c) \/ CallerStep(c)
           \/ \E cfg \in Configs : ApplyValid(c, cfg),
           NEW l \in Launches
    PROVE  /\ \/ core'[l] = core[l]
              \/ l \in Answering /\ core'[l].at = "up" /\ core'[l].cfg \in Configs
           /\ core'[l].gen = core[l].gen
           /\ launches' = launches /\ UNCHANGED probe
<1> USE DEF TypeInv
<1>1. CASE HotRemove(c)
  <2>1. ASSUME NEW k \in Answering,
               SetUsers(k, [u \in Users |-> IF u \in Removed(caller[c].old, file) THEN NoCred
                                            ELSE core[k].cfg.users[u]])
        PROVE  /\ \/ core'[l] = core[l]
                  \/ l \in Answering /\ core'[l].at = "up" /\ core'[l].cfg \in Configs
               /\ core'[l].gen = core[l].gen
    <3>1. core[k].cfg \in Configs
      BY <2>1 DEF ServedByLive, Answering
    <3>2. core'[l].gen = core[l].gen /\ core'[l].at = core[l].at
      BY <2>1, <3>1, SetUsersType, ConfigFields
    <3>3. core'[k].cfg \in Configs /\ (l # k => core'[l] = core[l])
      BY <2>1, <3>1, SetUsersType, ConfigFields
    <3> QED
      BY <2>1, <3>2, <3>3 DEF Answering
  <2> QED
    BY <1>1, <2>1 DEF HotRemove
<1>2. CASE HotAdd(c)
  <2>1. ASSUME NEW k \in Answering,
               SetUsers(k, [u \in Users |-> IF u \in Added(caller[c].old, file)
                                               /\ core[k].cfg.users[u] = NoCred
                                            THEN file.users[u] ELSE core[k].cfg.users[u]])
        PROVE  /\ \/ core'[l] = core[l]
                  \/ l \in Answering /\ core'[l].at = "up" /\ core'[l].cfg \in Configs
               /\ core'[l].gen = core[l].gen
    <3>1. core[k].cfg \in Configs /\ file \in Configs
      BY <1>2, <2>1 DEF ServedByLive, Answering, FileFirst, HotAdd
    <3>2. core'[l].gen = core[l].gen /\ core'[l].at = core[l].at
      BY <2>1, <3>1, SetUsersType, ConfigFields
    <3>3. core'[k].cfg \in Configs /\ (l # k => core'[l] = core[l])
      BY <2>1, <3>1, SetUsersType, ConfigFields, ZenonT(40)
    <3> QED
      BY <2>1, <3>2, <3>3 DEF Answering
  <2> QED
    BY <1>2, <2>1 DEF HotAdd
<1>3. CASE \/ ApplyInvalid(c) \/ StopCall(c) \/ Decide(c)
           \/ StopTake(c) \/ StopAwait(c) \/ Spawn(c)
           \/ \E cfg \in Configs : ApplyValid(c, cfg)
  BY <1>3 DEF ApplyInvalid, StopCall, Decide, StopTake, StopAwait, Spawn, ApplyValid
<1> QED
  BY <1>1, <1>2, <1>3 DEF CallerStep

LEMMA ServedByLiveStep == TypeInv /\ [Next]_vars => ServedByLive'
<1> SUFFICES ASSUME TypeInv, [Next]_vars PROVE ServedByLive'
  OBVIOUS
<1>1. ASSUME NEW c \in Callers,
             \/ ApplyInvalid(c) \/ StopCall(c) \/ CallerStep(c)
             \/ \E cfg \in Configs : ApplyValid(c, cfg)
      PROVE  ServedByLive'
  <2> SUFFICES ASSUME NEW l \in Launches
               PROVE  /\ core'[l].cfg # NoConfig => core'[l].at \in {"up", "wedged", "deaf"}
                      /\ core'[l].at = "up" => core'[l].cfg \in Configs
                      /\ l > launches' => core'[l].at = "unborn"
    BY DEF ServedByLive
  <2> QED
    BY <1>1, CallersMove DEF TypeInv, ServedByLive, Answering
<1>2. ASSUME \/ \E g \in Generations : Supervise(g) \/ SupStartFails(g)
             \/ \E l \in Launches : \/ CoreReads(l) \/ CoreWedges(l) \/ CoreCrashes(l)
                                    \/ CoreKilled(l) \/ Probing(l)
      PROVE  ServedByLive'
  <2> SUFFICES ASSUME NEW l \in Launches
               PROVE  /\ core'[l].cfg # NoConfig => core'[l].at \in {"up", "wedged", "deaf"}
                      /\ core'[l].at = "up" => core'[l].cfg \in Configs
                      /\ l > launches' => core'[l].at = "unborn"
    BY DEF ServedByLive
  <2>1. CoreMoves(l)
    BY <1>2, OwnMoves
  <2>2. launches' >= launches /\ launches \in Nat /\ launches' \in Nat
    <3>1. launches' = launches \/ launches' = launches + 1
      BY <1>2 DEF Supervise, SupQuit, SupLaunch, SupReap, SupReport, SupSleep,
         SupStartFails, CoreReads, CoreWedges, CoreCrashes, CoreKilled, Probing, ProbeStep,
         ProbeEnds, ProbeAsk, ProbeAnswer, ProbeJudge, ProbeKill, ProbeMark, ProbeSignal
    <3> QED
      BY <3>1, BoundsAssumption, SMTT(40) DEF TypeInv, TypeOK
  <2> QED
    BY <2>1, <2>2 DEF CoreMoves, TypeInv, ServedByLive, FileFirst, Alive, Launches
<1>3. CASE UNCHANGED vars
  BY <1>3 DEF vars, TypeInv, ServedByLive
<1> QED
  BY <1>1, <1>2, <1>3 DEF Next, Callers

LEMMA FewMissedStep == TypeInv /\ [Next]_vars => FewMissed'
<1> SUFFICES ASSUME TypeInv, [Next]_vars PROVE FewMissed'
  OBVIOUS
<1> USE DEF TypeInv
<1>1. CASE UNCHANGED <<probe, launches>>
  BY <1>1 DEF FewMissed
<1>2. ASSUME NEW g \in Generations, SupLaunch(g) PROVE FewMissed'
  <2>1. launches \in Nat /\ launches' = launches + 1 /\ launches' \in Launches
    BY <1>2, BoundsAssumption DEF TypeOK, SupLaunch
  <2>2. probe[launches'].pc = "off"
    BY <2>1 DEF FewMissed, Launches
  <2>3. \A l \in Launches : /\ l # launches' => probe'[l] = probe[l]
                            /\ probe'[l].missed = probe[l].missed
    BY <1>2 DEF TypeOK, ProbeStates, SupLaunch
  <2> QED
    BY <2>1, <2>2, <2>3 DEF FewMissed, Launches
<1>3. ASSUME NEW l \in Launches, ProbeEnds(l) \/ ProbeAsk(l) \/ ProbeKill(l) \/ ProbeMark(l) \/ ProbeSignal(l)
      PROVE  FewMissed'
  BY <1>3 DEF TypeOK, ProbeStates, FewMissed, ProbeStep,
     ProbeEnds, ProbeAsk, ProbeKill, ProbeMark, ProbeSignal
<1>4. ASSUME NEW l \in Launches, ProbeAnswer(l) PROVE FewMissed'
  BY <1>4 DEF TypeOK, ProbeStates, FewMissed, ProbeStep, ProbeAnswer
<1>5. ASSUME NEW l \in Launches, ProbeJudge(l) PROVE FewMissed'
  BY <1>5, BoundsAssumption DEF TypeOK, ProbeStates, FewMissed, ProbeStep, ProbeJudge
<1>6. ASSUME NEW c \in Callers,
             \/ ApplyInvalid(c) \/ StopCall(c) \/ CallerStep(c)
             \/ \E cfg \in Configs : ApplyValid(c, cfg)
      PROVE  UNCHANGED <<probe, launches>>
  BY <1>6 DEF ApplyInvalid, StopCall, CallerStep, Decide, HotRemove, HotAdd, StopTake, StopAwait,
     Spawn, ApplyValid
<1>7. CASE UNCHANGED vars
  BY <1>1, <1>7 DEF vars
<1> QED
  BY <1>1, <1>2, <1>3, <1>4, <1>5, <1>6, <1>7
  DEF Next, Callers, Supervise, SupQuit, SupReap, SupReport, SupSleep, SupStartFails,
      CoreReads, CoreWedges, CoreCrashes, CoreKilled, Probing

\* Where a caller stands after a step, and what it has in hand.
LEMMA CallerMoves ==
    ASSUME TypeOK, NEW c \in Callers
    PROVE  /\ Return(c) => /\ caller'[c].pc = "idle"
                           /\ \A d \in Callers : d # c => caller'[d] = caller[d]
           /\ ToRestart(c) => /\ caller'[c].pc = "stop" /\ caller'[c].restarting
                              /\ caller'[c].old = caller[c].old
                              /\ \A d \in Callers : d # c => caller'[d] = caller[d]
           /\ \A pc : caller' = [caller EXCEPT ![c].pc = pc] =>
                 /\ caller'[c].pc = pc /\ caller'[c].restarting = caller[c].restarting
                 /\ caller'[c].old = caller[c].old
                 /\ \A d \in Callers : d # c => caller'[d] = caller[d]
BY SMTT(40) DEF TypeOK, CallerStates, Return, ToRestart, IdleCaller

\* Only a caller starts a goroutine.
LEMMA NoneStarts ==
    ASSUME TypeOK,
           \/ \E g \in Generations : Supervise(g) \/ SupStartFails(g)
           \/ \E l \in Launches : \/ CoreReads(l) \/ CoreWedges(l) \/ CoreCrashes(l)
                                  \/ CoreKilled(l) \/ Probing(l),
           NEW g \in Generations, Busy(g)'
    PROVE  Busy(g)
BY ZenonT(40) DEF Busy, TypeOK, SupStates, Supervise, SupQuit, SupLaunch, SupReap, SupReport, SupSleep,
   SupStartFails, CoreReads, CoreWedges, CoreCrashes, CoreKilled, Probing, ProbeStep,
   ProbeEnds, ProbeAsk, ProbeAnswer, ProbeJudge, ProbeKill, ProbeMark, ProbeSignal

LEMMA FileFirstStep == TypeInv /\ [Next]_vars => FileFirst'
<1> SUFFICES ASSUME TypeInv, [Next]_vars PROVE FileFirst'
  OBVIOUS
<1> USE DEF TypeInv
<1>1. ASSUME NEW c \in Callers, ApplyInvalid(c) \/ StopCall(c) PROVE FileFirst'
  BY <1>1, SMTT(40) DEF ApplyInvalid, StopCall, TypeOK, CallerStates, FileFirst, Busy
<1>2. ASSUME NEW c \in Callers, NEW cfg \in Configs, ApplyValid(c, cfg) PROVE FileFirst'
  BY <1>2 DEF ApplyValid, TypeOK, CallerStates, FileFirst, Busy
<1>3. ASSUME NEW c \in Callers, Decide(c) PROVE FileFirst'
  BY <1>3, CallerMoves DEF Decide, TypeOK, CallerStates, FileFirst, Busy
<1>4. ASSUME NEW c \in Callers, HotRemove(c) \/ HotAdd(c) PROVE FileFirst'
  <2>1. \A l \in Launches : core'[l].at = core[l].at
    BY <1>4, CallersMove DEF CallerStep, Answering
  <2>2. Return(c) \/ ToRestart(c) \/ caller' = [caller EXCEPT ![c].pc = "add"]
    BY <1>4 DEF HotRemove, HotAdd
  <2>3. \A d \in Callers : \/ caller'[d].pc = "idle"
                           \/ caller'[d] = caller[d]
                           \/ /\ caller'[d].pc = "add" /\ caller'[d].old = caller[d].old
                              /\ caller[d].pc \in {"remove", "add"}
                           \/ caller'[d].pc = "stop" /\ caller[d].pc \in {"remove", "add"}
    BY <1>4, <2>2, CallerMoves DEF HotRemove, HotAdd
  <2> QED
    BY <1>4, <2>1, <2>3 DEF HotRemove, HotAdd, FileFirst, Busy
<1>5. ASSUME NEW c \in Callers, StopTake(c) PROVE FileFirst'
  <2>1. \A g \in Generations : sup'[g].pc = sup[g].pc
    BY <1>5 DEF StopTake, TypeOK, SupStates
  <2> QED
    BY <1>5, <2>1 DEF StopTake, TypeOK, CallerStates, FileFirst, Busy
<1>6. ASSUME NEW c \in Callers, StopAwait(c) PROVE FileFirst'
  <2>1. \/ Return(c)
        \/ caller[c].restarting /\ caller' = [caller EXCEPT ![c].pc = "spawn"]
    BY <1>6 DEF StopAwait
  <2>2. \A d \in Callers : \/ caller'[d].pc = "idle"
                           \/ caller'[d] = caller[d]
                           \/ /\ caller'[d].pc = "spawn" /\ caller'[d].restarting
                              /\ caller[d].pc = "await" /\ caller[d].restarting
    BY <1>6, <2>1, CallerMoves DEF StopAwait
  <2> QED
    BY <1>6, <2>2 DEF StopAwait, FileFirst, Busy
<1>7. ASSUME NEW c \in Callers, Spawn(c) PROVE FileFirst'
  <2>1. file \in Configs
    BY <1>7 DEF Spawn, FileFirst
  <2> QED
    BY <1>7, <2>1, CallerMoves DEF Spawn, FileFirst
<1>8. ASSUME \/ \E g \in Generations : Supervise(g) \/ SupStartFails(g)
             \/ \E l \in Launches : \/ CoreReads(l) \/ CoreWedges(l) \/ CoreCrashes(l)
                                    \/ CoreKilled(l) \/ Probing(l)
      PROVE  FileFirst'
  <2>1. UNCHANGED <<file, caller>>
    BY <1>8, OwnMoves, BoundsAssumption DEF Launches
  <2>2. ASSUME NEW g \in Generations, Busy(g)' PROVE Busy(g)
    BY <1>8, <2>2, NoneStarts
  <2>3. ASSUME NEW l \in Launches, core'[l].at = "starting" PROVE file \in Configs
    <3>1. CASE core[l].at = "starting"
      BY <3>1 DEF FileFirst
    <3>2. CASE core[l].at # "starting"
      BY <1>8, <2>3, <3>2, OwnMoves DEF CoreMoves, SupLaunch, FileFirst, Busy
    <3> QED
      BY <3>1, <3>2
  <2> QED
    BY <2>1, <2>2, <2>3 DEF FileFirst
<1>9. CASE UNCHANGED vars
  BY <1>9 DEF vars, FileFirst, Busy
<1> QED
  BY <1>1, <1>2, <1>3, <1>4, <1>5, <1>6, <1>7, <1>8, <1>9 DEF Next, Callers, CallerStep

LEMMA TypeInvStep == TypeInv /\ [Next]_vars => TypeInv'
BY TypeStep, ServedByLiveStep, FewMissedStep, FileFirstStep DEF TypeInv

\* Every variable keeps the shape the code gives it, whoever calls and whenever.
THEOREM SupervisorTypeCorrect == Spec => []TypeOK
<1>1. TypeInv /\ [Next]_vars => TypeInv'
  BY TypeInvStep
<1>2. TypeInv => TypeOK
  BY DEF TypeInv
<1> QED
  BY TypeInit, <1>1, <1>2, PTL DEF Spec

-----------------------------------------------------------------------------
(* One core at a time *)

\* A goroutine that is not done is the one the handle is for, or the one whose
\* end a caller awaits.
Owned ==
    /\ \A g \in Generations : Busy(g) =>
          g = handle \/ \E c \in Callers : caller[c].pc = "await" /\ caller[c].gen = g
    /\ \A c \in Callers : caller[c].pc \in {"await", "spawn"} => handle = 0

\* A live core is the one its goroutine waits for.
AwaitedCore ==
    \A l \in Launches : Alive(l) =>
        /\ core[l].gen \in Generations
        /\ sup[core[l].gen].pc = "wait" /\ sup[core[l].gen].launch = l

SingleInv == TypeInv /\ Owned /\ AwaitedCore

\* With one caller, no two goroutines are busy.
LEMMA OneBusy ==
    ASSUME OneCaller, TypeInv, Owned,
           NEW g \in Generations, NEW h \in Generations, Busy(g), Busy(h)
    PROVE  g = h
<1>1. PICK c \in Callers : Callers = {c}
  BY DEF OneCaller
<1>2. CASE caller[c].pc = "await"
  <2>1. handle = 0
    BY <1>2 DEF Owned
  <2> QED
    BY <1>1, <2>1 DEF Owned, Generations
<1>3. CASE caller[c].pc # "await"
  BY <1>1, <1>3 DEF Owned
<1> QED
  BY <1>2, <1>3

LEMMA SingleFromInv == OneCaller /\ SingleInv => SingleCore
<1> SUFFICES ASSUME OneCaller, SingleInv, NEW k \in Launches, NEW l \in Launches, Alive(k), Alive(l)
             PROVE  k = l
  BY DEF SingleCore
<1>1. Busy(core[k].gen) /\ Busy(core[l].gen)
  BY DEF SingleInv, AwaitedCore, Busy
<1>2. core[k].gen = core[l].gen
  BY <1>1, OneBusy DEF SingleInv, AwaitedCore
<1> QED
  BY <1>2 DEF SingleInv, AwaitedCore

LEMMA SingleInit == Init => SingleInv
<1> SUFFICES ASSUME Init PROVE SingleInv
  OBVIOUS
<1> QED
  BY TypeInit DEF Init, SingleInv, Owned, AwaitedCore, Busy, Alive, IdleCaller

LEMMA OwnedStep ==
    ASSUME OneCaller, TypeInv, Owned, [Next]_vars
    PROVE  Owned'
<1> PICK c \in Callers : Callers = {c}
  BY DEF OneCaller
<1> USE DEF TypeInv
<1>1. CASE ApplyInvalid(c) \/ StopCall(c) \/ Decide(c) \/ HotRemove(c) \/ HotAdd(c)
           \/ \E cfg \in Configs : ApplyValid(c, cfg)
  <2>1. UNCHANGED <<handle, sup>> /\ caller[c].pc # "await" /\ caller'[c].pc \notin {"await", "spawn"}
    <3>1. CASE ApplyInvalid(c) \/ StopCall(c) \/ \E cfg \in Configs : ApplyValid(c, cfg)
      BY <3>1 DEF ApplyInvalid, StopCall, ApplyValid, TypeOK, CallerStates
    <3>2. CASE Decide(c) \/ HotRemove(c) \/ HotAdd(c)
      <4>1. \/ Return(c) \/ ToRestart(c)
            \/ caller' = [caller EXCEPT ![c].pc = "remove"]
            \/ caller' = [caller EXCEPT ![c].pc = "add"]
        BY <3>2 DEF Decide, HotRemove, HotAdd
      <4> QED
        BY <3>2, <4>1, CallerMoves DEF Decide, HotRemove, HotAdd
    <3> QED
      BY <1>1, <3>1, <3>2
  <2> QED
    BY <2>1 DEF Owned, Busy
<1>2. CASE StopTake(c)
  <2>1. \A g \in Generations : sup'[g].pc = sup[g].pc
    BY <1>2 DEF StopTake, TypeOK, SupStates
  <2>2. caller'[c].pc = "await" /\ caller'[c].gen = handle /\ handle' = 0 /\ caller[c].pc = "stop"
    BY <1>2 DEF StopTake, TypeOK, CallerStates
  <2> QED
    BY <2>1, <2>2 DEF Owned, Busy
<1>3. CASE StopAwait(c)
  <2>1. \A g \in Generations : ~Busy(g)
    BY <1>3 DEF StopAwait, Owned, Busy, Generations
  <2>2. handle' = 0 /\ sup' = sup
    BY <1>3 DEF StopAwait, Owned
  <2> QED
    BY <2>1, <2>2 DEF Owned, Busy
<1>4. CASE Spawn(c)
  <2>1. \A g \in Generations : ~Busy(g)
    BY <1>4 DEF Spawn, Owned, Generations
  <2>2. PICK g \in Generations : sup' = [sup EXCEPT ![g].pc = "top"] /\ handle' = g
    BY <1>4 DEF Spawn
  <2>3. \A h \in Generations : h # g => sup'[h] = sup[h]
    BY <2>2 DEF TypeOK
  <2>4. caller'[c].pc = "idle"
    BY <1>4, CallerMoves DEF Spawn
  <2> QED
    BY <2>1, <2>2, <2>3, <2>4 DEF Owned, Busy
<1>5. ASSUME \/ \E g \in Generations : Supervise(g) \/ SupStartFails(g)
             \/ \E l \in Launches : \/ CoreReads(l) \/ CoreWedges(l) \/ CoreCrashes(l)
                                    \/ CoreKilled(l) \/ Probing(l)
      PROVE  Owned'
  <2>1. UNCHANGED <<caller, handle>>
    BY <1>5, OwnMoves, BoundsAssumption DEF Launches
  <2>2. ASSUME NEW g \in Generations, Busy(g)' PROVE Busy(g)
    BY <1>5, <2>2, NoneStarts
  <2> QED
    BY <2>1, <2>2 DEF Owned
<1>6. CASE UNCHANGED vars
  BY <1>6 DEF vars, Owned, Busy
<1> QED
  BY <1>1, <1>2, <1>3, <1>4, <1>5, <1>6 DEF Next, Callers, CallerStep

LEMMA AwaitedCoreStep ==
    ASSUME OneCaller, SingleInv, [Next]_vars
    PROVE  AwaitedCore'
<1> USE DEF SingleInv, TypeInv
<1>1. ASSUME NEW c \in Callers,
             \/ ApplyInvalid(c) \/ StopCall(c) \/ CallerStep(c)
             \/ \E cfg \in Configs : ApplyValid(c, cfg)
      PROVE  AwaitedCore'
  <2>1. \A g \in Generations : sup[g].pc = "wait" => sup'[g].pc = "wait" /\ sup'[g].launch = sup[g].launch
    BY <1>1 DEF TypeOK, SupStates, ApplyInvalid, StopCall, CallerStep, Decide, HotRemove, HotAdd, StopTake,
       StopAwait, Spawn, ApplyValid
  <2>2. \A l \in Launches : Alive(l)' => Alive(l) /\ core'[l].gen = core[l].gen
    BY <1>1, CallersMove DEF Alive, Answering
  <2> QED
    BY <2>1, <2>2 DEF AwaitedCore
<1>2. ASSUME NEW g \in Generations, SupLaunch(g) PROVE AwaitedCore'
  <2>1. \A l \in Launches : ~Alive(l)
    BY <1>2, OneBusy DEF AwaitedCore, Busy, SupLaunch
  <2>2. /\ core' = [core EXCEPT ![launches'].at = "starting", ![launches'].gen = g]
        /\ sup' = [sup EXCEPT ![g].pc = "wait", ![g].launch = launches']
        /\ launches' \in Launches
    BY <1>2 DEF SupLaunch
  <2>3. core'[launches'].gen = g /\ sup'[g].pc = "wait" /\ sup'[g].launch = launches'
    BY <2>2 DEF TypeOK, CoreStates, SupStates
  <2>4. \A l \in Launches : l # launches' => core'[l] = core[l]
    BY <2>2 DEF TypeOK
  <2>5. \A l \in Launches : Alive(l)' => l = launches'
    BY <2>1, <2>4 DEF Alive
  <2> QED
    BY <2>3, <2>5 DEF AwaitedCore
<1>3. ASSUME NEW g \in Generations, SupQuit(g) \/ SupSleep(g) \/ SupStartFails(g) \/ SupReport(g)
      PROVE  AwaitedCore'
  <2>1. sup[g].pc # "wait" /\ UNCHANGED core /\ \A h \in Generations : h # g => sup'[h] = sup[h]
    BY <1>3 DEF TypeOK, SupQuit, SupSleep, SupStartFails, SupReport
  <2> QED
    BY <2>1 DEF AwaitedCore, Alive
<1>4. ASSUME NEW g \in Generations, SupReap(g) PROVE AwaitedCore'
  <2>1. \A h \in Generations : h # g => sup'[h] = sup[h]
    BY <1>4 DEF TypeOK, SupReap
  <2>2. core[sup[g].launch].at = "exited" /\ sup[g].pc = "wait"
    BY <1>4 DEF SupReap
  <2>3. \A l \in Launches : Alive(l)' => Alive(l) /\ core'[l].gen = core[l].gen
    BY <1>4 DEF SupReap, Alive, TypeOK, CoreStates
  <2>4. \A l \in Launches : Alive(l) => core[l].gen # g
    BY <2>2 DEF AwaitedCore, Alive
  <2> QED
    BY <2>1, <2>3, <2>4 DEF AwaitedCore
<1>5. ASSUME NEW l \in Launches, CoreReads(l) \/ CoreWedges(l) \/ CoreCrashes(l) \/ CoreKilled(l) \/ Probing(l)
      PROVE  AwaitedCore'
  <2>1. UNCHANGED sup
    BY <1>5 DEF CoreReads, CoreWedges, CoreCrashes, CoreKilled, Probing, ProbeStep,
       ProbeEnds, ProbeAsk, ProbeAnswer, ProbeJudge, ProbeKill, ProbeMark, ProbeSignal
  <2>2. \A k \in Launches : Alive(k)' => Alive(k) /\ core'[k].gen = core[k].gen
    <3>1. CASE CoreReads(l) \/ CoreWedges(l)
      BY <3>1 DEF CoreReads, CoreWedges, Alive, TypeOK, CoreStates
    <3>2. CASE CoreCrashes(l) \/ CoreKilled(l)
      BY <3>2 DEF CoreCrashes, CoreKilled, Alive, TypeOK, CoreStates
    <3>3. CASE Probing(l)
      BY <3>3 DEF Probing, ProbeEnds, ProbeAsk, ProbeAnswer, ProbeJudge, ProbeKill, ProbeMark,
         ProbeSignal, Alive, TypeOK, CoreStates
    <3> QED
      BY <1>5, <3>1, <3>2, <3>3
  <2> QED
    BY <2>1, <2>2 DEF AwaitedCore
<1>6. CASE UNCHANGED vars
  BY <1>6 DEF vars, AwaitedCore, Alive
<1> QED
  BY <1>1, <1>2, <1>3, <1>4, <1>5, <1>6 DEF Next, Callers, Supervise

LEMMA SingleInvariant ==
    ASSUME OneCaller
    PROVE  Spec => []SingleInv
<1>1. SingleInv /\ [Next]_vars => SingleInv'
  BY OneCaller, TypeInvStep, OwnedStep, AwaitedCoreStep DEF SingleInv
<1> QED
  BY SingleInit, <1>1, PTL DEF Spec

\* Whatever mixture of hot applies, restarts, crashes and condemned cores: with one
\* caller there is never a second core on the ports of the first.
THEOREM OneCoreAtATime ==
    ASSUME OneCaller
    PROVE  Spec => []SingleCore
<1>1. SingleInv => SingleCore
  BY OneCaller, SingleFromInv
<1> QED
  BY <1>1, SingleInvariant, OneCaller, PTL

-----------------------------------------------------------------------------
(* What is served is what is on disk *)

\* The users of cfg without those in out.
Less(cfg, out) == [u \in Users |-> IF u \in out THEN NoCred ELSE cfg.users[u]]

\* A hot change has something to do, and changes nothing but users.
MidChange ==
    \A c \in Callers :
        LET old == caller[c].old IN
        /\ caller[c].pc \in {"remove", "add"} => old.shape = file.shape
        /\ caller[c].pc = "remove" => Removed(old, file) # {}
        /\ caller[c].pc = "add" => Added(old, file) # {}

\* What a core may serve while the caller is where it is: it was started on the
\* old file or on the new one, and the users to remove are on it or off.
Served(c, k) ==
    LET old == caller[c].old IN
    /\ caller[c].pc = "idle" => k = file
    /\ caller[c].pc \in {"decide", "remove"} => k \in {old, file}
    /\ caller[c].pc = "add" =>
          /\ k.shape = file.shape
          /\ k.users \in {Less(old, Removed(old, file)), file.users, Less(file, Removed(old, file))}

AllServed == \A c \in Callers, l \in Launches : core[l].cfg # NoConfig => Served(c, core[l].cfg)

ServiceInv == SingleInv /\ MidChange /\ AllServed

LEMMA ServiceInit == Init => ServiceInv
BY SingleInit DEF Init, ServiceInv, MidChange, AllServed, IdleCaller

\* Removing: what the old configuration leaves, or the new one if the core was
\* relaunched in between; with nothing to add, it is the new one or a user was missing.
LEMMA RemoveGives ==
    ASSUME NEW old \in Configs, NEW new \in Configs, NEW k \in {old, new},
           old.shape = new.shape, Removed(old, new) # {},
           \A u \in Removed(old, new) : k.users[u] # NoCred
    PROVE  /\ Less(k, Removed(old, new)) \in
                 {Less(old, Removed(old, new)), Less(new, Removed(old, new))}
           /\ Added(old, new) = {} =>
                 \A u \in Users : Less(k, Removed(old, new))[u] = new.users[u]
<1>1. Less(k, Removed(old, new)) \in {Less(old, Removed(old, new)), Less(new, Removed(old, new))}
  OBVIOUS
<1>2. ASSUME Added(old, new) = {}, NEW u \in Users
      PROVE  Less(k, Removed(old, new))[u] = new.users[u]
  <2>1. \A v \in Removed(old, new) : new.users[v] = NoCred
    BY <1>2 DEF Removed, Added
  <2>2. k = old
    BY <2>1
  <2>3. CASE u \in Removed(old, new)
    BY <2>1, <2>3 DEF Less
  <2>4. CASE u \notin Removed(old, new)
    BY <1>2, <2>2, <2>4 DEF Less, Removed, Added
  <2> QED
    BY <2>3, <2>4
<1> QED
  BY <1>1, <1>2

\* Adding: nothing was left to add, or it ends at the new configuration.
LEMMA AddGives ==
    ASSUME NEW old \in Configs, NEW new \in Configs, NEW k \in Configs,
           Added(old, new) # {},
           k.users \in {Less(old, Removed(old, new)), new.users, Less(new, Removed(old, new))},
           \A u \in Added(old, new) : k.users[u] = NoCred,
           NEW u \in Users
    PROVE  (IF u \in Added(old, new) /\ k.users[u] = NoCred THEN new.users[u] ELSE k.users[u])
              = new.users[u]
<1>1. CASE k.users = Less(old, Removed(old, new))
  BY <1>1 DEF Less, Removed, Added
<1>2. CASE k.users = new.users
  BY <1>2 DEF Added
<1>3. CASE k.users = Less(new, Removed(old, new))
  BY <1>3 DEF Less, Removed, Added
<1> QED
  BY <1>1, <1>2, <1>3

\* A core that serves something is the only one that does.
LEMMA OnlyServer ==
    ASSUME OneCaller, SingleInv, NEW k \in Launches, NEW l \in Launches,
           core[k].cfg # NoConfig, core[l].cfg # NoConfig
    PROVE  k = l
BY SingleFromInv DEF SingleCore, SingleInv, TypeInv, ServedByLive, Alive

\* A hot call that reached core l: the caller gives up and restarts, or core l
\* serves what the caller goes on from.
HotReached(c, l) ==
    /\ l \in Answering /\ core'[l].cfg \in Configs
    /\ \A k \in Launches \ {l} : core'[k] = core[k]
    /\ \/ ToRestart(c)
       \/ Return(c) /\ core'[l].cfg = file
       \/ /\ caller' = [caller EXCEPT ![c].pc = "add"]
          /\ Added(caller[c].old, file) # {}
          /\ core'[l].cfg.shape = file.shape
          /\ core'[l].cfg.users \in {Less(caller[c].old, Removed(caller[c].old, file)),
                                     Less(file, Removed(caller[c].old, file))}

LEMMA HotRemoveReaches ==
    ASSUME OneCaller, ServiceInv, NEW c \in Callers, HotRemove(c)
    PROVE  \/ UNCHANGED core /\ ToRestart(c)
           \/ \E l \in Launches : HotReached(c, l)
<1> DEFINE old == caller[c].old
           out == Removed(old, file)
<1>1. CASE UNCHANGED core /\ ToRestart(c)
  BY <1>1
<1>2. ASSUME NEW l \in Answering, SetUsers(l, Less(core[l].cfg, out)),
             IF \E u \in out : core[l].cfg.users[u] = NoCred THEN ToRestart(c)
             ELSE IF Added(old, file) = {} THEN Return(c)
             ELSE caller' = [caller EXCEPT ![c].pc = "add"]
      PROVE  HotReached(c, l)
  <2>1. core[l].cfg \in Configs /\ file \in Configs /\ old \in Configs /\ l \in Launches
    BY DEF ServiceInv, SingleInv, TypeInv, ServedByLive, Answering, FileFirst, HotRemove
  <2>2. core[l].cfg \in {old, file} /\ old.shape = file.shape /\ out # {}
    BY <2>1, BoundsAssumption DEF ServiceInv, AllServed, Served, MidChange, HotRemove
  <2>3. Less(core[l].cfg, out) \in [Users -> Creds \cup {NoCred}]
    BY <2>1, ConfigFields DEF Less
  <2>4. /\ core'[l].cfg \in Configs /\ core'[l].cfg.shape = file.shape
        /\ core'[l].cfg.users = Less(core[l].cfg, out)
        /\ \A k \in Launches \ {l} : core'[k] = core[k]
    <3>1. /\ core'[l].cfg = [core[l].cfg EXCEPT !.users = Less(core[l].cfg, out)]
          /\ core'[l].cfg \in Configs
          /\ \A k \in Launches \ {l} : core'[k] = core[k]
      BY <1>2, <2>3, SetUsersType DEF ServiceInv, SingleInv
    <3>2. core'[l].cfg = [shape |-> core[l].cfg.shape, users |-> Less(core[l].cfg, out)]
      BY <2>1, <2>3, <3>1, ConfigFields
    <3> QED
      BY <2>2, <3>1, <3>2
  <2>5. CASE \E u \in out : core[l].cfg.users[u] = NoCred
    BY <1>2, <2>4, <2>5 DEF HotReached
  <2>6. CASE \A u \in out : core[l].cfg.users[u] # NoCred
    <3>1. /\ Less(core[l].cfg, out) \in {Less(old, out), Less(file, out)}
          /\ Added(old, file) = {} => \A u \in Users : Less(core[l].cfg, out)[u] = file.users[u]
      BY <2>1, <2>2, <2>6, RemoveGives
    <3>2. CASE Added(old, file) = {}
      <4>1. core'[l].cfg = file
        BY <2>1, <2>4, <3>1, <3>2, ConfigEqual
      <4> QED
        BY <1>2, <2>4, <2>6, <3>2, <4>1 DEF HotReached
    <3>3. CASE Added(old, file) # {}
      BY <1>2, <2>4, <2>6, <3>1, <3>3 DEF HotReached
    <3> QED
      BY <3>2, <3>3
  <2> QED
    BY <2>5, <2>6
<1> QED
  BY <1>1, <1>2 DEF HotRemove, Less, Answering

LEMMA HotAddReaches ==
    ASSUME OneCaller, ServiceInv, NEW c \in Callers, HotAdd(c)
    PROVE  \/ UNCHANGED core /\ ToRestart(c)
           \/ \E l \in Launches : HotReached(c, l)
<1> DEFINE old == caller[c].old
           new == Added(old, file)
           More(k) == [u \in Users |-> IF u \in new /\ k.users[u] = NoCred
                                       THEN file.users[u] ELSE k.users[u]]
<1>1. CASE UNCHANGED core /\ ToRestart(c)
  BY <1>1
<1>2. ASSUME NEW l \in Answering, SetUsers(l, More(core[l].cfg)),
             IF \E u \in new : core[l].cfg.users[u] # NoCred THEN ToRestart(c) ELSE Return(c)
      PROVE  HotReached(c, l)
  <2>1. core[l].cfg \in Configs /\ file \in Configs /\ old \in Configs /\ l \in Launches
    BY DEF ServiceInv, SingleInv, TypeInv, ServedByLive, Answering, FileFirst, HotAdd
  <2>2. /\ core[l].cfg.shape = file.shape /\ new # {}
        /\ core[l].cfg.users \in {Less(old, Removed(old, file)), file.users, Less(file, Removed(old, file))}
    BY <2>1, BoundsAssumption DEF ServiceInv, AllServed, Served, MidChange, HotAdd
  <2>3. More(core[l].cfg) \in [Users -> Creds \cup {NoCred}]
    BY <2>1, ConfigFields
  <2>4. /\ core'[l].cfg \in Configs /\ core'[l].cfg.shape = file.shape
        /\ core'[l].cfg.users = More(core[l].cfg)
        /\ \A k \in Launches \ {l} : core'[k] = core[k]
    <3>1. /\ core'[l].cfg = [core[l].cfg EXCEPT !.users = More(core[l].cfg)]
          /\ core'[l].cfg \in Configs
          /\ \A k \in Launches \ {l} : core'[k] = core[k]
      BY <1>2, <2>3, SetUsersType DEF ServiceInv, SingleInv
    <3>2. core'[l].cfg = [shape |-> core[l].cfg.shape, users |-> More(core[l].cfg)]
      BY <2>1, <2>3, <3>1, ConfigFields
    <3> QED
      BY <2>2, <3>1, <3>2
  <2>5. CASE \E u \in new : core[l].cfg.users[u] # NoCred
    BY <1>2, <2>4, <2>5 DEF HotReached
  <2>6. CASE \A u \in new : core[l].cfg.users[u] = NoCred
    <3>1. \A u \in Users : More(core[l].cfg)[u] = file.users[u]
      BY <2>1, <2>2, <2>6, AddGives
    <3>2. core'[l].cfg = file
      BY <2>1, <2>4, <3>1, ConfigEqual
    <3> QED
      BY <1>2, <2>4, <2>6, <3>2 DEF HotReached
  <2> QED
    BY <2>5, <2>6
<1> QED
  BY <1>1, <1>2 DEF HotAdd, Answering

\* Before Stop or restart returns, no core is left to serve anything.
LEMMA NothingServed ==
    ASSUME OneCaller, SingleInv, NEW c \in Callers, StopAwait(c) \/ Spawn(c), NEW l \in Launches
    PROVE  core[l].cfg = NoConfig
<1>1. PICK d \in Callers : Callers = {d}
  BY DEF OneCaller
<1>2. \A g \in Generations : ~Busy(g)
  BY <1>1 DEF SingleInv, Owned, StopAwait, Spawn, Busy, Generations
<1>3. ~Alive(l)
  BY <1>2 DEF SingleInv, AwaitedCore, Busy
<1> QED
  BY <1>3 DEF SingleInv, TypeInv, ServedByLive, Alive

\* Nobody but the caller changes what it has in hand.
LEMMA ServedAfterOwnMove ==
    ASSUME ServiceInv, NEW l \in Launches, CoreMoves(l), UNCHANGED <<file, caller>>,
           NEW c \in Callers, core'[l].cfg # NoConfig
    PROVE  Served(c, core[l].cfg)'
<1>1. core'[l].cfg = core[l].cfg \/ core'[l].cfg = file
  BY SMTT(40) DEF CoreMoves
<1>2. CASE core'[l].cfg = core[l].cfg
  BY <1>2 DEF ServiceInv, AllServed, Served, Removed, Less
<1>3. CASE core'[l].cfg = file
  BY <1>3 DEF ServiceInv, Served, Removed, Less
<1> QED
  BY <1>1, <1>2, <1>3

LEMMA ChangeStep ==
    ASSUME OneCaller, ServiceInv, [Next]_vars
    PROVE  MidChange' /\ AllServed'
<1> PICK c \in Callers : Callers = {c}
  BY DEF OneCaller
<1> TypeOK
  BY SMTT(40) DEF ServiceInv, SingleInv, TypeInv
<1>1. ASSUME UNCHANGED <<file, caller, core>> PROVE MidChange' /\ AllServed'
  BY <1>1 DEF ServiceInv, MidChange, AllServed, Served, Removed, Added, Less
<1>2. ASSUME NEW cfg \in Configs, ApplyValid(c, cfg) PROVE MidChange' /\ AllServed'
  <2>1. caller'[c].pc = "decide" /\ caller'[c].old = file /\ caller[c].pc = "idle" /\ core' = core
    BY <1>2 DEF ApplyValid, TypeOK, CallerStates
  <2> QED
    BY <2>1 DEF ServiceInv, MidChange, AllServed, Served
<1>3. CASE Decide(c)
  <2>1. UNCHANGED <<file, core>> /\ caller[c].pc = "decide"
    BY <1>3 DEF Decide
  <2>2. CASE ToRestart(c)
    BY <2>1, <2>2, CallerMoves DEF MidChange, AllServed, Served
  <2>3. CASE /\ caller' = [caller EXCEPT ![c].pc = "remove"]
             /\ caller[c].old.shape = file.shape /\ Removed(caller[c].old, file) # {}
    <3>1. caller'[c].pc = "remove" /\ caller'[c].old = caller[c].old
      BY <2>3, CallerMoves
    <3>2. MidChange'
      BY <2>1, <2>3, <3>1 DEF MidChange, Removed
    <3>3. ASSUME NEW l \in Launches, core[l].cfg # NoConfig PROVE Served(c, core[l].cfg)'
      BY <2>1, <3>1, <3>3 DEF ServiceInv, AllServed, Served
    <3> QED
      BY <2>1, <3>2, <3>3 DEF AllServed
  <2>4. CASE /\ caller' = [caller EXCEPT ![c].pc = "add"] /\ caller[c].old # NoConfig
             /\ caller[c].old.shape = file.shape /\ Removed(caller[c].old, file) = {}
             /\ Added(caller[c].old, file) # {}
    <3>1. caller'[c].pc = "add" /\ caller'[c].old = caller[c].old
      BY <2>4, CallerMoves
    <3>2. MidChange'
      BY <2>1, <2>4, <3>1 DEF MidChange, Removed, Added
    <3>3. ASSUME NEW l \in Launches, core[l].cfg # NoConfig PROVE Served(c, core[l].cfg)'
      <4>1. core[l].cfg \in {caller[c].old, file}
        BY <2>1, <3>3 DEF ServiceInv, AllServed, Served
      <4>2. caller[c].old \in Configs
        BY <2>4 DEF TypeOK, CallerStates
      <4>3. Less(caller[c].old, Removed(caller[c].old, file)) = caller[c].old.users
        BY <2>4, <4>2, ConfigFields DEF Less
      <4> QED
        BY <2>1, <2>4, <3>1, <4>1, <4>3 DEF Served, Less, Removed
    <3> QED
      BY <2>1, <3>2, <3>3 DEF AllServed
  <2>5. CASE /\ Return(c) /\ caller[c].old # NoConfig /\ caller[c].old.shape = file.shape
             /\ Removed(caller[c].old, file) = {} /\ Added(caller[c].old, file) = {}
    <3>1. caller'[c].pc = "idle"
      BY <2>5, CallerMoves
    <3>2. caller[c].old \in Configs /\ file \in Configs
      BY <2>1, <2>5 DEF TypeOK, CallerStates, ServiceInv, SingleInv, TypeInv, FileFirst
    <3>3. caller[c].old = file
      <4>1. \A u \in Users : caller[c].old.users[u] = file.users[u]
        BY <2>5 DEF Removed, Added
      <4> QED
        BY <2>5, <3>2, <4>1, ConfigEqual
    <3> QED
      BY <2>1, <3>1, <3>3 DEF ServiceInv, MidChange, AllServed, Served
  <2> QED
    BY <1>3, <2>2, <2>3, <2>4, <2>5 DEF Decide
<1>4. CASE HotRemove(c) \/ HotAdd(c)
  <2>1. UNCHANGED file
    BY <1>4 DEF HotRemove, HotAdd
  <2>2. CASE ToRestart(c)
    BY <2>2, CallerMoves DEF MidChange, AllServed, Served
  <2>3. ASSUME NEW l \in Launches, HotReached(c, l), ~ToRestart(c) PROVE MidChange' /\ AllServed'
    <3>1. \A k \in Launches : core'[k].cfg # NoConfig => k = l
      <4>1. core[l].cfg # NoConfig
        BY <2>3, BoundsAssumption DEF HotReached, Answering, ServiceInv, SingleInv, TypeInv, ServedByLive
      <4> QED
        BY <2>3, <4>1, OnlyServer DEF HotReached, ServiceInv
    <3>2. CASE Return(c) /\ core'[l].cfg = file
      BY <2>1, <3>1, <3>2, CallerMoves DEF MidChange, AllServed, Served
    <3>3. CASE /\ caller' = [caller EXCEPT ![c].pc = "add"]
               /\ Added(caller[c].old, file) # {}
               /\ core'[l].cfg.shape = file.shape
               /\ core'[l].cfg.users \in {Less(caller[c].old, Removed(caller[c].old, file)),
                                          Less(file, Removed(caller[c].old, file))}
      <4>1. caller'[c].pc = "add" /\ caller'[c].old = caller[c].old
        BY <3>3, CallerMoves
      <4>2. caller[c].old.shape = file.shape
        BY <1>4 DEF ServiceInv, MidChange, HotRemove, HotAdd
      <4>3. MidChange'
        BY <2>1, <3>3, <4>1, <4>2, SMTT(40) DEF MidChange, Added
      <4>4. Served(c, core[l].cfg)'
        BY <2>1, <3>3, <4>1 DEF Served, Less, Removed
      <4> QED
        BY <3>1, <4>3, <4>4 DEF AllServed
    <3> QED
      BY <2>3, <3>2, <3>3 DEF HotReached
  <2> QED
    BY <1>4, <2>2, <2>3, HotRemoveReaches, HotAddReaches
<1>5. CASE StopCall(c) \/ StopTake(c)
  <2>1. caller'[c].pc \in {"stop", "await"}
    BY <1>5 DEF StopCall, StopTake, TypeOK, CallerStates
  <2> QED
    BY <2>1 DEF MidChange, AllServed, Served
<1>6. CASE StopAwait(c) \/ Spawn(c)
  <2>1. caller'[c].pc \in {"idle", "spawn"} /\ core' = core
    BY <1>6, CallerMoves DEF StopAwait, Spawn
  <2>2. \A l \in Launches : core[l].cfg = NoConfig
    BY <1>6, NothingServed DEF ServiceInv
  <2> QED
    BY <2>1, <2>2 DEF MidChange, AllServed
<1>7. ASSUME \/ \E g \in Generations : Supervise(g) \/ SupStartFails(g)
             \/ \E l \in Launches : \/ CoreReads(l) \/ CoreWedges(l) \/ CoreCrashes(l)
                                    \/ CoreKilled(l) \/ Probing(l)
      PROVE  MidChange' /\ AllServed'
  <2>1. UNCHANGED <<file, caller>> /\ \A l \in Launches : CoreMoves(l)
    BY <1>7, OwnMoves, BoundsAssumption DEF Launches, ServiceInv, SingleInv
  <2>2. MidChange'
    BY <2>1 DEF ServiceInv, MidChange, Removed, Added
  <2>3. AllServed'
    BY <2>1, ServedAfterOwnMove DEF AllServed
  <2> QED
    BY <2>2, <2>3
<1>8. CASE UNCHANGED vars
  BY <1>1, <1>8 DEF vars
<1>9. CASE ApplyInvalid(c)
  BY <1>1, <1>9 DEF ApplyInvalid
<1> QED
  BY <1>2, <1>3, <1>4, <1>5, <1>6, <1>7, <1>8, <1>9 DEF Next, Callers, CallerStep

-----------------------------------------------------------------------------
(* The supervisor implements CoreService *)

\* What is answered with when the cores are f: the mapping's value of "live".
LiveOf(f) == IF \E l \in Launches : f[l].cfg # NoConfig
             THEN f[CHOOSE l \in Launches : f[l].cfg # NoConfig].cfg
             ELSE NoConfig

LEMMA LiveOfServer ==
    ASSUME NEW f, \A k, l \in Launches : f[k].cfg # NoConfig /\ f[l].cfg # NoConfig => k = l
    PROVE  /\ \A l \in Launches : f[l].cfg # NoConfig => LiveOf(f) = f[l].cfg
           /\ (\A l \in Launches : f[l].cfg = NoConfig) => LiveOf(f) = NoConfig
           /\ LiveOf(f) # NoConfig => \E l \in Launches : f[l].cfg # NoConfig /\ LiveOf(f) = f[l].cfg
BY DEF LiveOf

\* No two cores serve anything.
OneServer == \A k, l \in Launches : core[k].cfg # NoConfig /\ core[l].cfg # NoConfig => k = l

\* A core moves on its own: to the file, to nothing, or not at all.
LEMMA LiveMoves ==
    ASSUME OneCaller, SingleInv, OneServer, OneServer', \A l \in Launches : CoreMoves(l)
    PROVE  \/ LiveOf(core') = LiveOf(core)
           \/ LiveOf(core') = NoConfig
           \/ LiveOf(core) = NoConfig /\ LiveOf(core') = file
<1> SUFFICES ASSUME NEW l \in Launches, core'[l].cfg # NoConfig, LiveOf(core') = core'[l].cfg
             PROVE  \/ LiveOf(core') = LiveOf(core)
                    \/ LiveOf(core) = NoConfig /\ LiveOf(core') = file
  BY LiveOfServer DEF OneServer
<1>1. CASE core'[l].cfg = core[l].cfg
  BY <1>1, LiveOfServer DEF OneServer
<1>2. CASE core[l].at = "starting" /\ core'[l].cfg = file
  <2>1. \A k \in Launches : core[k].cfg = NoConfig
    BY <1>2, SingleFromInv DEF SingleCore, SingleInv, TypeInv, ServedByLive, Alive
  <2> QED
    BY <1>2, <2>1, LiveOfServer DEF OneServer
<1> QED
  BY <1>1, <1>2 DEF CoreMoves

\* Init maps to Init.
LEMMA ServiceInitMaps == Init => Service!Init
BY DEF Init, Service!Init, IdleCaller

\* Some caller is between accepting a change and its return.
Changing == \E c \in Callers : caller[c].pc # "idle"

\* Every step maps to a step of CoreService, or to a stutter.
LEMMA ServiceStepMaps ==
    ASSUME OneCaller, ServiceInv, OneServer, ServiceInv', OneServer', [Next]_vars
    PROVE  [Service!Next]_Service!cvars
<1> PICK c \in Callers : Callers = {c}
  BY DEF OneCaller
<1> TypeOK
  BY SMTT(40) DEF ServiceInv, SingleInv, TypeInv
<1>0. SUFFICES \/ file' = file /\ LiveOf(core') = LiveOf(core) /\ Changing' = Changing
               \/ /\ ~Changing /\ Changing' /\ LiveOf(core') = LiveOf(core)
                  /\ file' \in Configs \cup {file}
               \/ Changing /\ Changing' /\ LiveOf(core') \in Configs /\ file' = file
               \/ Changing /\ ~Changing' /\ LiveOf(core') \in {NoConfig, file} /\ file' = file
               \/ LiveOf(core') = NoConfig /\ file' = file /\ Changing' = Changing
               \/ LiveOf(core) = NoConfig /\ LiveOf(core') = file /\ file' = file /\ Changing' = Changing
  BY DEF Service!Next, Service!cvars, Service!Begin, Service!Adjust, Service!Finish, Service!Down,
     Service!Up, LiveOf, Changing
<1>1. Changing = (caller[c].pc # "idle") /\ Changing' = (caller'[c].pc # "idle")
  BY DEF Changing
<1>2. CASE UNCHANGED <<file, caller, core>>
  BY <1>2, <1>1
<1>3. ASSUME NEW cfg \in Configs, ApplyValid(c, cfg)
      PROVE  /\ ~Changing /\ Changing' /\ LiveOf(core') = LiveOf(core)
             /\ file' \in Configs \cup {file}
  BY <1>1, <1>3 DEF ApplyValid, TypeOK, CallerStates
<1>4. CASE StopCall(c)
  BY <1>1, <1>4 DEF StopCall, TypeOK, CallerStates
<1>5. CASE Decide(c) \/ StopTake(c)
  <2>1. UNCHANGED <<file, core>> /\ Changing
    BY <1>1, <1>5 DEF Decide, StopTake
  <2>2. CASE Changing'
    BY <2>1, <2>2, <1>1
  <2>3. CASE ~Changing'
    <3>1. LiveOf(core') \in {NoConfig, file}
      BY <1>1, <2>1, <2>3, LiveOfServer DEF OneServer, ServiceInv, AllServed, Served
    <3> QED
      BY <2>1, <2>3, <3>1
  <2> QED
    BY <2>2, <2>3
<1>6. CASE HotRemove(c) \/ HotAdd(c)
  <2>1. file' = file /\ Changing
    BY <1>1, <1>6 DEF HotRemove, HotAdd
  <2>2. CASE UNCHANGED core /\ ToRestart(c)
    BY <1>1, <2>1, <2>2, CallerMoves
  <2>3. ASSUME NEW l \in Launches, HotReached(c, l)
        PROVE  \/ Changing' /\ LiveOf(core') \in Configs
               \/ ~Changing' /\ LiveOf(core') \in {NoConfig, file}
    <3>1. LiveOf(core') = core'[l].cfg
      BY <2>3, BoundsAssumption, LiveOfServer DEF OneServer, HotReached
    <3> QED
      BY <1>1, <2>3, <3>1, CallerMoves, ZenonT(40) DEF HotReached
  <2> QED
    BY <1>6, <2>1, <2>2, <2>3, HotRemoveReaches, HotAddReaches
<1>7. CASE StopAwait(c) \/ Spawn(c)
  <2>1. UNCHANGED <<file, core>> /\ Changing
    BY <1>1, <1>7 DEF StopAwait, Spawn
  <2>2. LiveOf(core') = NoConfig /\ LiveOf(core) = NoConfig
    BY <1>7, <2>1, NothingServed DEF LiveOf, ServiceInv
  <2> QED
    BY <1>1, <2>1, <2>2
<1>8. ASSUME \/ \E g \in Generations : Supervise(g) \/ SupStartFails(g)
             \/ \E l \in Launches : \/ CoreReads(l) \/ CoreWedges(l) \/ CoreCrashes(l)
                                    \/ CoreKilled(l) \/ Probing(l)
      PROVE  /\ file' = file /\ Changing' = Changing
             /\ \/ LiveOf(core') = LiveOf(core)
                \/ LiveOf(core') = NoConfig
                \/ LiveOf(core) = NoConfig /\ LiveOf(core') = file
  <2>1. UNCHANGED <<file, caller>> /\ \A l \in Launches : CoreMoves(l)
    BY <1>8, OwnMoves, BoundsAssumption DEF Launches, ServiceInv, SingleInv
  <2> QED
    BY <1>1, <2>1, LiveMoves DEF ServiceInv
<1>9. CASE UNCHANGED vars
  BY <1>2, <1>9 DEF vars
<1>10. CASE ApplyInvalid(c)
  BY <1>2, <1>10 DEF ApplyInvalid
<1> QED
  BY <1>3, <1>4, <1>5, <1>6, <1>7, <1>8, <1>9, <1>10 DEF Next, Callers, CallerStep

LEMMA ServiceInvariant ==
    ASSUME OneCaller
    PROVE  Spec => [](ServiceInv /\ OneServer)
<1>1. SingleInv /\ [Next]_vars => SingleInv'
  BY OneCaller, TypeInvStep, OwnedStep, AwaitedCoreStep DEF SingleInv
<1>2. ServiceInv /\ [Next]_vars => ServiceInv'
  BY OneCaller, <1>1, ChangeStep DEF ServiceInv
<1>3. ServiceInv => OneServer
  BY OneCaller, OnlyServer DEF ServiceInv, OneServer
<1> QED
  BY ServiceInit, <1>2, <1>3, PTL DEF Spec

\* Whatever mixture of hot applies, restarts, crashes and relaunches it takes: with
\* one caller, a core that serves anything outside a change serves the file on disk.
THEOREM SupervisorServesTheFile ==
    ASSUME OneCaller
    PROVE  Spec => ServesTheFile
<1>1. ServiceInv /\ OneServer /\ (ServiceInv /\ OneServer)' /\ [Next]_vars
         => [Service!Next]_Service!cvars
  BY OneCaller, ServiceStepMaps
<1> QED
  BY <1>1, ServiceInitMaps, ServiceInvariant, OneCaller, PTL DEF Spec, ServesTheFile, Service!Spec
============================================================================
