---------------------------- MODULE EngineProofs ----------------------------
(***************************************************************************)
(* Theorems about what the panel has its engines do: which users and inbounds*)
(* they serve (Reload), which binaries they run (CorePins), and which accounts*)
(* are held for their addresses (AddressLimit).                            *)
(***************************************************************************)
EXTENDS Reload, CorePins, AddressLimit, FiniteSetTheorems, TLAPS

-----------------------------------------------------------------------------
(***************************************************************************)
(* Reload, for any number of reloads at once and changes made while they   *)
(* run: a disconnected user has no connection but what the disconnect left,*)
(* unless a reload that read the users before the hold put them back (which*)
(* does happen: ReloadRace.cfg); and once every reload is over, the core   *)
(* serves the tables, unless the last one failed or was overtaken.         *)
(***************************************************************************)

-----------------------------------------------------------------------------
(* Type correctness *)

\* A job is idle or has all its fields.
LEMMA JobFields ==
    ASSUME NEW j \in Jobs, j.pc \in {"inbounds", "users", "apply", "close"}
    PROVE  /\ j \in [pc : {"inbounds", "users", "apply", "close"},
                     inbounds : SUBSET Inbounds, users : SUBSET People,
                     cuts : SUBSET People, lifted : BOOLEAN, stale : BOOLEAN,
                     failed : BOOLEAN]
           /\ j # Idle
BY DEF Jobs, Idle

\* A new job has not read anything.
LEMMA NewJobType ==
    ASSUME NEW cuts \in SUBSET People
    PROVE  NewJob(cuts) \in Jobs /\ NewJob(cuts) # Idle
BY DEF NewJob, Jobs, Idle

LEMMA TypeInit == ReloadInit => ReloadTypeOK
<1> SUFFICES ASSUME ReloadInit PROVE ReloadTypeOK
  OBVIOUS
<1>1. Idle \in Jobs
  BY DEF Jobs
<1>2. job \in [Reloaders -> Jobs]
  BY <1>1 DEF ReloadInit
<1>3. standing \in [People -> Standings]
  BY DEF ReloadInit, Standings
<1>4. mutations \in 0 .. MaxMutations /\ mishaps \in 0 .. MaxMishaps
  BY ReloadAssumption DEF ReloadInit
<1>5. listening = {} => clients = {}
  BY ReloadAssumption DEF ReloadInit
<1>6. missed \in BOOLEAN /\ settled \in BOOLEAN
  BY DEF ReloadInit
<1> QED
  BY <1>2, <1>3, <1>4, <1>5, <1>6 DEF ReloadInit, ReloadTypeOK

\* A reload that a change overlaps goes on as it was: only what the ghosts say
\* of it changes.
LEMMA Overlaps ==
    ASSUME NEW j \in Jobs, j # Idle, NEW freed
    PROVE  /\ Overlapped(j, freed) \in Jobs /\ Overlapped(j, freed) # Idle
           /\ Overlapped(j, freed).pc = j.pc /\ Overlapped(j, freed).inbounds = j.inbounds
           /\ Overlapped(j, freed).users = j.users /\ Overlapped(j, freed).cuts = j.cuts
           /\ Overlapped(j, freed).failed = j.failed
           /\ Overlapped(j, freed).stale <=> j.stale \/ j.pc \in {"users", "apply"}
           /\ Overlapped(j, freed).lifted <=> j.lifted \/ freed \cap j.cuts # {}
<1> DEFINE st == j.stale \/ j.pc \in {"users", "apply"}
           li == j.lifted \/ freed \cap j.cuts # {}
<1>1. Overlapped(j, freed) = [j EXCEPT !.stale = st, !.lifted = li]
  BY DEF Overlapped
<1>2. j \in [pc : {"inbounds", "users", "apply", "close"},
            inbounds : SUBSET Inbounds, users : SUBSET People,
            cuts : SUBSET People, lifted : BOOLEAN, stale : BOOLEAN, failed : BOOLEAN]
  BY DEF Jobs
<1>3. st \in BOOLEAN /\ li \in BOOLEAN
  BY <1>2
<1> HIDE DEF st, li
<1>4. /\ [j EXCEPT !.stale = st, !.lifted = li] \in Jobs
      /\ [j EXCEPT !.stale = st, !.lifted = li].pc = j.pc
      /\ [j EXCEPT !.stale = st, !.lifted = li].inbounds = j.inbounds
      /\ [j EXCEPT !.stale = st, !.lifted = li].users = j.users
      /\ [j EXCEPT !.stale = st, !.lifted = li].cuts = j.cuts
      /\ [j EXCEPT !.stale = st, !.lifted = li].failed = j.failed
      /\ [j EXCEPT !.stale = st, !.lifted = li].stale = st
      /\ [j EXCEPT !.stale = st, !.lifted = li].lifted = li
  BY <1>2, <1>3 DEF Jobs
<1>5. Overlapped(j, freed) # Idle
  BY <1>1, <1>2, <1>4 DEF Idle
<1> QED
  BY <1>1, <1>4, <1>5 DEF st, li

\* A change starts a reload of its own and leaves the others under way.
LEMMA Starts ==
    ASSUME ReloadTypeOK, NEW r \in Reloaders, NEW cuts \in SUBSET People, NEW freed,
           Start(r, cuts, freed)
    PROVE  /\ job[r] = Idle /\ job'[r] = NewJob(cuts)
           /\ \A q \in Reloaders \ {r} :
                job'[q] = IF job[q] = Idle THEN Idle ELSE Overlapped(job[q], freed)
           /\ ~settled'
           /\ UNCHANGED <<listening, clients, open, spared, restored, missed>>
<1>1. /\ job[r] = Idle /\ settled' = FALSE
      /\ job' = [q \in Reloaders |-> IF q = r THEN NewJob(cuts) ELSE Overlapped(job[q], freed)]
      /\ UNCHANGED <<listening, clients, open, spared, restored, missed>>
  BY DEF Start
<1>2. job'[r] = NewJob(cuts) /\ \A q \in Reloaders \ {r} : job'[q] = Overlapped(job[q], freed)
  BY <1>1
<1>3. \A q \in Reloaders : job[q] = Idle => Overlapped(job[q], freed) = Idle
  BY DEF Overlapped
<1> QED
  BY <1>1, <1>2, <1>3

\* Starting a job keeps everything it touches in its type.
LEMMA StartType ==
    ASSUME ReloadTypeOK, NEW r \in Reloaders, NEW cuts \in SUBSET People, NEW freed,
           Start(r, cuts, freed)
    PROVE  /\ job' \in [Reloaders -> Jobs] /\ mutations' \in 0 .. MaxMutations
           /\ settled' \in BOOLEAN
           /\ UNCHANGED <<listening, clients, open, spared, restored, missed, mishaps>>
<1>1. ASSUME NEW q \in Reloaders PROVE Overlapped(job[q], freed) \in Jobs
  <2>1. job[q] \in Jobs
    BY DEF ReloadTypeOK
  <2>2. CASE job[q] = Idle
    BY <2>2 DEF Overlapped, Jobs
  <2>3. CASE job[q] # Idle
    BY <2>1, <2>3, Overlaps
  <2> QED
    BY <2>2, <2>3
<1>2. job' \in [Reloaders -> Jobs]
  BY <1>1, NewJobType DEF Start
<1>3. /\ mutations < MaxMutations /\ mutations' = mutations + 1 /\ settled' = FALSE
      /\ UNCHANGED <<listening, clients, open, spared, restored, missed, mishaps>>
  BY DEF Start
<1>4. mutations' \in 0 .. MaxMutations
  BY <1>3, ReloadAssumption DEF ReloadTypeOK
<1> QED
  BY <1>2, <1>3, <1>4

LEMMA TypeStep == ReloadTypeOK /\ [ReloadNext]_reloading => ReloadTypeOK'
<1> SUFFICES ASSUME ReloadTypeOK, [ReloadNext]_reloading PROVE ReloadTypeOK'
  OBVIOUS
<1>1. ASSUME NEW r \in Reloaders, NEW u \in People, NEW s \in Standings, SetStanding(r, u, s)
      PROVE ReloadTypeOK'
  BY <1>1, StartType DEF ReloadTypeOK, SetStanding
<1>2. ASSUME NEW r \in Reloaders, NEW u \in People, Disconnect(r, u) PROVE ReloadTypeOK'
  BY <1>2, StartType DEF ReloadTypeOK, Disconnect
<1>3. ASSUME NEW r \in Reloaders, NEW u \in People, Release(r, u) PROVE ReloadTypeOK'
  BY <1>3, StartType DEF ReloadTypeOK, Release
<1>4. ASSUME NEW r \in Reloaders, NEW i \in Inbounds, ToggleInbound(r, i) PROVE ReloadTypeOK'
  BY <1>4, StartType DEF ReloadTypeOK, ToggleInbound
<1>5. ASSUME NEW r \in Reloaders, ReadInbounds(r) PROVE ReloadTypeOK'
  <2>1. job' \in [Reloaders -> Jobs]
    BY <1>5, JobFields DEF ReloadTypeOK, ReadInbounds, Jobs
  <2>2. mishaps' \in 0 .. MaxMishaps
    BY <1>5, ReloadAssumption DEF ReloadTypeOK, ReadInbounds, Mishap
  <2> QED
    BY <1>5, <2>1, <2>2 DEF ReloadTypeOK, ReadInbounds, ghosts
<1>6. ASSUME NEW r \in Reloaders, ReadUsers(r) PROVE ReloadTypeOK'
  <2>1. job' \in [Reloaders -> Jobs]
    BY <1>6, JobFields DEF ReloadTypeOK, ReadUsers, Entitled, Jobs
  <2>2. mishaps' \in 0 .. MaxMishaps
    BY <1>6, ReloadAssumption DEF ReloadTypeOK, ReadUsers, Mishap
  <2> QED
    BY <1>6, <2>1, <2>2 DEF ReloadTypeOK, ReadUsers, ghosts
<1>7. ASSUME NEW r \in Reloaders, Apply(r) PROVE ReloadTypeOK'
  <2>1. ASSUME NEW f \in BOOLEAN, Finish(r, f)
        PROVE  job' \in [Reloaders -> Jobs] /\ missed' \in BOOLEAN /\ settled' \in BOOLEAN
    <3>1. job[r] \in Jobs /\ job[r].pc = "apply"
      BY <1>7 DEF ReloadTypeOK, Apply
    <3>2. [job[r] EXCEPT !.pc = "close", !.failed = f] \in Jobs /\ Idle \in Jobs
      BY <3>1, JobFields DEF Jobs
    <3>3. missed' \in BOOLEAN /\ settled' \in BOOLEAN
      BY <2>1 DEF Finish
    <3> QED
      BY <2>1, <3>2, <3>3 DEF ReloadTypeOK, Finish
  <2>2. job[r].failed \in BOOLEAN /\ job[r].inbounds \subseteq Inbounds /\ job[r].users \subseteq People
    BY <1>7, JobFields DEF ReloadTypeOK, Apply
  <2>3. job' \in [Reloaders -> Jobs] /\ missed' \in BOOLEAN /\ settled' \in BOOLEAN
    BY <1>7, <2>1, <2>2 DEF Apply, Handed
  <2>4. mishaps' \in 0 .. MaxMishaps
    <3>1. mishaps' = mishaps \/ Mishap
      BY <1>7 DEF Apply
    <3> QED
      BY <3>1, ReloadAssumption DEF ReloadTypeOK, Mishap
  <2>5. listening' \subseteq Inbounds /\ clients' \subseteq People /\ (listening' = {} => clients' = {})
    BY <1>7, <2>2 DEF ReloadTypeOK, Apply
  <2>6. open' \subseteq People
    BY <1>7 DEF ReloadTypeOK, Apply
  <2>7. spared' \subseteq People /\ restored' \subseteq People
    <3>1. \/ UNCHANGED <<spared, restored>>
          \/ /\ spared' = spared \cap open'
             /\ restored' = (restored \cap open') \cup (IF job[r].stale THEN clients' \cap held ELSE {})
      BY <1>7 DEF Apply, Handed
    <3> QED
      BY <3>1, <2>5 DEF ReloadTypeOK
  <2>8. UNCHANGED <<standing, held, enabled, cut, mutations>>
    BY <1>7 DEF Apply
  <2> QED
    BY <2>3, <2>4, <2>5, <2>6, <2>7, <2>8 DEF ReloadTypeOK
<1>8. ASSUME NEW r \in Reloaders, CloseConnections(r) PROVE ReloadTypeOK'
  <2>1. job[r].cuts \subseteq People
    BY <1>8, JobFields DEF ReloadTypeOK, CloseConnections
  <2>2. job' \in [Reloaders -> Jobs]
    BY <1>8 DEF ReloadTypeOK, CloseConnections, Jobs
  <2>3. open' \subseteq People /\ spared' \subseteq People /\ cut' \subseteq People
    BY <1>8, <2>1 DEF ReloadTypeOK, CloseConnections
  <2> QED
    BY <1>8, <2>2, <2>3 DEF ReloadTypeOK, CloseConnections
<1>9. ASSUME NEW u \in People, Connect(u) \/ Leave(u) PROVE ReloadTypeOK'
  BY <1>9 DEF ReloadTypeOK, Connect, Leave, ghosts
<1>10. CASE UNCHANGED reloading
  BY <1>10 DEF ReloadTypeOK, reloading, ghosts
<1> QED
  BY <1>1, <1>2, <1>3, <1>4, <1>5, <1>6, <1>7, <1>8, <1>9, <1>10 DEF ReloadNext, ReloadStep

\* Every variable of Reload keeps its shape, and a core without inbounds has no
\* users configured, with any number of reloads at once.
THEOREM ReloadTypeCorrect == ReloadSpec => []ReloadTypeOK
<1>1. ReloadInit => ReloadTypeOK
  BY TypeInit
<1>2. ReloadTypeOK /\ [ReloadNext]_reloading => ReloadTypeOK'
  BY TypeStep
<1> QED
  BY <1>1, <1>2, PTL DEF ReloadSpec

-----------------------------------------------------------------------------
(* What a job goes through *)

\* What a reload knows of the holds, and what it leaves behind for the close.
\* A reload that nothing overlapped leaves out whoever is held; one that serves
\* a disconnect leaves out its user, as long as the hold is there.
JobHolds(r) ==
    LET j == job[r] IN
    /\ j # Idle /\ ~j.lifted => j.cuts \subseteq held
    /\ j.pc \in {"inbounds", "users"} => j.users = {}
    /\ j.pc = "apply" /\ ~j.stale => j.users \cap held = {}
    /\ j.pc = "apply" /\ ~j.lifted => j.users \cap j.cuts = {}
    /\ j.pc = "close" /\ ~j.failed /\ ~j.lifted => j.cuts \cap clients \subseteq restored

\* A user a disconnect has dealt with is still held, and is on no core unless
\* a late reload put them there.
HoldInv ==
    /\ cut \subseteq held
    /\ cut \cap clients \subseteq restored
    /\ cut \cap open \subseteq spared \cup restored
    /\ \A r \in Reloaders : JobHolds(r)

\* The core serves what the tables say.
Current == listening = enabled /\ (listening # {} => clients = Entitled)

\* What a job that nothing overlapped has read is what the tables say.
JobCurrent(r) ==
    LET j == job[r] IN
    /\ j.pc \in {"inbounds", "users"} => ~j.failed
    /\ j.pc \in {"users", "apply"} /\ ~j.failed /\ ~j.stale => j.inbounds = enabled
    /\ j.pc = "apply" /\ ~j.failed /\ ~j.stale => j.users = Entitled

\* A reload that will read, or has read, the tables as they are.
Pending(r) == job[r].pc \in {"inbounds", "users", "apply"} /\ ~job[r].stale

\* The last change has a reload to come, or it has had its turn; and after that
\* only a failure or a late reload leaves the core behind.
QuietInv ==
    /\ settled \/ \E r \in Reloaders : Pending(r)
    /\ settled /\ ~missed => Current
    /\ \A r \in Reloaders : JobCurrent(r)

\* The fields of a job that reads.
LEMMA Reads ==
    ASSUME ReloadTypeOK, NEW r \in Reloaders, ReadInbounds(r) \/ ReadUsers(r)
    PROVE  /\ job[r] \in Jobs /\ job[r] # Idle /\ job'[r] # Idle
           /\ job'[r].cuts = job[r].cuts /\ job'[r].lifted = job[r].lifted
           /\ job'[r].stale = job[r].stale
           /\ \A q \in Reloaders \ {r} : job'[q] = job[q]
           /\ UNCHANGED <<standing, held, enabled, listening, clients, open, ghosts>>
<1>1. CASE ReadInbounds(r)
  <2>1. job[r] \in Jobs /\ job[r].pc = "inbounds" /\ job[r] # Idle
    BY <1>1, JobFields DEF ReloadTypeOK, ReadInbounds
  <2>2. \/ job' = [job EXCEPT ![r].pc = "users", ![r].inbounds = enabled]
        \/ job' = [job EXCEPT ![r].pc = "apply", ![r].failed = TRUE]
    BY <1>1 DEF ReadInbounds
  <2>3. job'[r].pc # "idle"
    BY <2>1, <2>2, JobFields DEF ReloadTypeOK
  <2>4. job'[r] # Idle
    BY <2>3 DEF Idle
  <2>5. /\ job'[r].cuts = job[r].cuts /\ job'[r].lifted = job[r].lifted
        /\ job'[r].stale = job[r].stale
    BY <2>1, <2>2, JobFields DEF ReloadTypeOK
  <2>6. \A q \in Reloaders \ {r} : job'[q] = job[q]
    BY <2>2 DEF ReloadTypeOK
  <2> QED
    BY <1>1, <2>1, <2>4, <2>5, <2>6 DEF ReadInbounds
<1>2. CASE ReadUsers(r)
  <2>1. job[r] \in Jobs /\ job[r].pc = "users" /\ job[r] # Idle
    BY <1>2, JobFields DEF ReloadTypeOK, ReadUsers
  <2>2. \/ job' = [job EXCEPT ![r].pc = "apply", ![r].users = Entitled]
        \/ job' = [job EXCEPT ![r].pc = "apply", ![r].failed = TRUE]
    BY <1>2 DEF ReadUsers
  <2>3. job'[r].pc # "idle"
    BY <2>1, <2>2, JobFields DEF ReloadTypeOK
  <2>4. job'[r] # Idle
    BY <2>3 DEF Idle
  <2>5. /\ job'[r].cuts = job[r].cuts /\ job'[r].lifted = job[r].lifted
        /\ job'[r].stale = job[r].stale
    BY <2>1, <2>2, JobFields DEF ReloadTypeOK
  <2>6. \A q \in Reloaders \ {r} : job'[q] = job[q]
    BY <2>2 DEF ReloadTypeOK
  <2> QED
    BY <1>2, <2>1, <2>4, <2>5, <2>6 DEF ReadUsers
<1> QED
  BY <1>1, <1>2

\* What each read leaves in the job.
LEMMA ReadsInbounds ==
    ASSUME ReloadTypeOK, NEW r \in Reloaders, ReadInbounds(r)
    PROVE  /\ job[r].pc = "inbounds" /\ job'[r].users = job[r].users
           /\ \/ job'[r].pc = "users" /\ job'[r].inbounds = enabled /\ job'[r].failed = job[r].failed
              \/ job'[r].pc = "apply" /\ job'[r].failed = TRUE
BY JobFields DEF ReloadTypeOK, ReadInbounds

LEMMA ReadsUsers ==
    ASSUME ReloadTypeOK, NEW r \in Reloaders, ReadUsers(r)
    PROVE  /\ job[r].pc = "users" /\ job'[r].pc = "apply" /\ job'[r].inbounds = job[r].inbounds
           /\ \/ job'[r].users = Entitled /\ job'[r].failed = job[r].failed
              \/ job'[r].users = job[r].users /\ job'[r].failed = TRUE
BY JobFields DEF ReloadTypeOK, ReadUsers

\* A job that finishes is idle, or a disconnect that goes on to close.
LEMMA Finishes ==
    ASSUME ReloadTypeOK, NEW r \in Reloaders, job[r].pc = "apply", NEW f \in BOOLEAN, Finish(r, f)
    PROVE  /\ \/ job'[r] = Idle
              \/ /\ job'[r].pc = "close" /\ job'[r].failed = f /\ job'[r] # Idle
                 /\ job'[r].cuts = job[r].cuts /\ job'[r].lifted = job[r].lifted
           /\ \A q \in Reloaders \ {r} : job'[q] = job[q]
<1>1. job[r] \in Jobs /\ job[r] # Idle
  BY JobFields DEF ReloadTypeOK
<1>2. \A q \in Reloaders \ {r} : job'[q] = job[q]
  BY DEF Finish, ReloadTypeOK
<1>3. job'[r] = IF job[r].cuts = {} THEN Idle ELSE [job[r] EXCEPT !.pc = "close", !.failed = f]
  BY DEF Finish, ReloadTypeOK
<1>4. LET j == [job[r] EXCEPT !.pc = "close", !.failed = f] IN
        /\ j.pc = "close" /\ j.failed = f /\ j.cuts = job[r].cuts /\ j.lifted = job[r].lifted
  BY <1>1, JobFields
<1>5. [job[r] EXCEPT !.pc = "close", !.failed = f] # Idle
  BY <1>4 DEF Idle
<1> QED
  BY <1>2, <1>3, <1>4, <1>5

\* The two ways a reload is applied: the core is handed what was read, or the
\* apply fails and it is left as it was.
LEMMA Applies ==
    ASSUME ReloadTypeOK, NEW r \in Reloaders, Apply(r)
    PROVE  /\ job[r] \in Jobs /\ job[r] # Idle /\ job[r].pc = "apply"
           /\ UNCHANGED <<standing, held, enabled, cut>>
           /\ \/ /\ Finish(r, job[r].failed)
                 /\ listening' = job[r].inbounds
                 /\ clients' = IF job[r].inbounds = {} THEN {} ELSE job[r].users
                 /\ open' \in {open, {}} /\ spared' = spared \cap open'
                 /\ restored' = (restored \cap open')
                                  \cup (IF job[r].stale THEN clients' \cap held ELSE {})
              \/ Finish(r, TRUE) /\ UNCHANGED <<listening, clients, open, spared, restored>>
<1>1. job[r] \in Jobs /\ job[r].pc = "apply"
  BY DEF ReloadTypeOK, Apply
<1>2. job[r] # Idle
  BY <1>1 DEF Idle
<1> QED
  BY <1>1, <1>2 DEF Apply, Handed

-----------------------------------------------------------------------------
(* A disconnect holds *)

LEMMA HoldInit == ReloadInit => HoldInv
BY DEF ReloadInit, HoldInv, JobHolds, Idle

\* A change that starts a reload, as far as the holds go: it may hold a user the
\* new reload cuts, and may lift holds, which the reloads about them are told.
LEMMA StartHolds ==
    ASSUME ReloadTypeOK, HoldInv, NEW r \in Reloaders,
           NEW cuts \in SUBSET People, NEW freed \in SUBSET People, Start(r, cuts, freed),
           cuts \subseteq held', held \ freed \subseteq held',
           cut' = cut \ freed
    PROVE  HoldInv'
<1>1. /\ job[r] = Idle /\ job'[r] = NewJob(cuts)
      /\ \A q \in Reloaders \ {r} :
           job'[q] = IF job[q] = Idle THEN Idle ELSE Overlapped(job[q], freed)
      /\ UNCHANGED <<clients, open, spared, restored>>
  BY Starts
<1>2. cut' \subseteq held' /\ cut' \cap clients' \subseteq restored'
      /\ cut' \cap open' \subseteq spared' \cup restored'
  BY <1>1 DEF HoldInv
<1>3. JobHolds(r)'
  BY <1>1 DEF JobHolds, NewJob
<1>4. ASSUME NEW q \in Reloaders \ {r} PROVE JobHolds(q)'
  <2>1. CASE job[q] = Idle
    BY <1>1, <2>1 DEF JobHolds, Idle
  <2>2. CASE job[q] # Idle
    <3> DEFINE j == job[q]
               o == job'[q]
    <3>1. job[q] \in Jobs
      BY DEF ReloadTypeOK
    <3>2. o = Overlapped(j, freed)
      BY <1>1, <2>2
    <3>3. /\ o # Idle /\ o.pc = j.pc /\ o.users = j.users /\ o.cuts = j.cuts /\ o.failed = j.failed
          /\ o.stale <=> j.stale \/ j.pc \in {"users", "apply"}
          /\ o.lifted <=> j.lifted \/ freed \cap j.cuts # {}
      BY <2>2, <3>1, <3>2, Overlaps
    <3>4. JobHolds(q)
      BY DEF HoldInv
    <3>5. ~o.lifted => o.cuts \subseteq held'
      BY <2>2, <3>3, <3>4 DEF JobHolds
    <3>6. o.pc \in {"inbounds", "users"} => o.users = {}
      BY <3>3, <3>4 DEF JobHolds
    <3>7. o.pc = "apply" => o.stale
      BY <3>3
    <3>8. o.pc = "apply" /\ ~o.lifted => o.users \cap o.cuts = {}
      BY <3>3, <3>4 DEF JobHolds
    <3>9. o.pc = "close" /\ ~o.failed /\ ~o.lifted => o.cuts \cap clients' \subseteq restored'
      BY <1>1, <3>3, <3>4 DEF JobHolds
    <3> QED
      BY <3>5, <3>6, <3>7, <3>8, <3>9 DEF JobHolds
  <2> QED
    BY <2>1, <2>2
<1> QED
  BY <1>2, <1>3, <1>4 DEF HoldInv

\* A read leaves out who is held.
LEMMA ReadHolds ==
    ASSUME ReloadTypeOK, HoldInv, NEW r \in Reloaders, ReadInbounds(r) \/ ReadUsers(r)
    PROVE  HoldInv'
<1>1. /\ job[r] # Idle
      /\ job'[r].cuts = job[r].cuts /\ job'[r].lifted = job[r].lifted
      /\ \A q \in Reloaders \ {r} : job'[q] = job[q]
      /\ UNCHANGED <<held, clients, open, cut, spared, restored>>
  BY Reads DEF ghosts
<1>2. JobHolds(r)'
  <2>1. JobHolds(r)
    BY DEF HoldInv
  <2>2. job'[r].pc \in {"users", "apply"}
    BY ReadsInbounds, ReadsUsers
  <2>3. job'[r].users \in {{}, Entitled} /\ (job'[r].pc = "users" => job'[r].users = {})
    BY <2>1, ReadsInbounds, ReadsUsers DEF JobHolds
  <2>4. ~job'[r].lifted => job'[r].cuts \subseteq held
    BY <1>1, <2>1 DEF JobHolds
  <2>5. Entitled \cap held = {}
    BY DEF Entitled
  <2> QED
    BY <1>1, <2>2, <2>3, <2>4, <2>5 DEF JobHolds
<1> QED
  BY <1>1, <1>2 DEF HoldInv, JobHolds

\* Whom an apply serves although they are held, it puts back, and it is late.
LEMMA ApplyHolds ==
    ASSUME ReloadTypeOK, HoldInv, NEW r \in Reloaders, Apply(r)
    PROVE  HoldInv'
<1>1. /\ job[r] \in Jobs /\ job[r] # Idle /\ job[r].pc = "apply"
      /\ UNCHANGED <<held, cut>>
  BY Applies
<1>2. JobHolds(r)
  BY DEF HoldInv
<1>3. job[r].failed \in BOOLEAN
  BY <1>1, JobFields
<1>4. CASE Finish(r, TRUE) /\ UNCHANGED <<listening, clients, open, spared, restored>>
  <2>1. /\ job'[r] = Idle \/ /\ job'[r].pc = "close" /\ job'[r].failed /\ job'[r] # Idle
                             /\ job'[r].cuts = job[r].cuts /\ job'[r].lifted = job[r].lifted
        /\ \A q \in Reloaders \ {r} : job'[q] = job[q]
    BY <1>1, <1>4, Finishes
  <2>2. JobHolds(r)'
    BY <1>1, <1>2, <2>1 DEF JobHolds, Idle
  <2> QED
    BY <1>1, <1>4, <2>1, <2>2 DEF HoldInv, JobHolds
<1>5. CASE /\ Finish(r, job[r].failed)
           /\ clients' = IF job[r].inbounds = {} THEN {} ELSE job[r].users
           /\ open' \in {open, {}} /\ spared' = spared \cap open'
           /\ restored' = (restored \cap open')
                            \cup (IF job[r].stale THEN clients' \cap held ELSE {})
  <2>1. /\ job'[r] = Idle \/ /\ job'[r].pc = "close" /\ job'[r] # Idle
                             /\ job'[r].cuts = job[r].cuts /\ job'[r].lifted = job[r].lifted
        /\ \A q \in Reloaders \ {r} : job'[q] = job[q]
    BY <1>1, <1>3, <1>5, Finishes
  <2>2. clients' \cap held \subseteq restored'
    BY <1>1, <1>2, <1>5 DEF JobHolds
  <2>3. cut' \cap open' \subseteq spared' \cup restored'
    BY <1>1, <1>5 DEF HoldInv
  <2>4. JobHolds(r)'
    <3>1. job[r].cuts \subseteq held \/ job[r].lifted
      BY <1>1, <1>2 DEF JobHolds
    <3> QED
      BY <1>1, <2>1, <2>2, <3>1 DEF JobHolds, Idle
  <2>5. ASSUME NEW q \in Reloaders \ {r} PROVE JobHolds(q)'
    <3>1. JobHolds(q) /\ job'[q] = job[q]
      BY <2>1 DEF HoldInv
    <3>2. job[q].pc = "close" => job[q] # Idle
      BY DEF Idle
    <3> QED
      BY <1>1, <2>2, <3>1, <3>2 DEF JobHolds
  <2> QED
    BY <1>1, <2>2, <2>3, <2>4, <2>5 DEF HoldInv
<1> QED
  BY <1>4, <1>5, Applies

\* The close records what it leaves.
LEMMA CloseHolds ==
    ASSUME ReloadTypeOK, HoldInv, NEW r \in Reloaders, CloseConnections(r)
    PROVE  HoldInv'
<1>1. job[r] \in Jobs /\ job[r].pc = "close" /\ job[r] # Idle
  BY JobFields DEF ReloadTypeOK, CloseConnections
<1>2. /\ job'[r] = Idle /\ \A q \in Reloaders \ {r} : job'[q] = job[q]
      /\ open' \in {open, open \ job[r].cuts}
      /\ spared' = (spared \ job[r].cuts) \cup (open' \cap job[r].cuts)
      /\ cut' = IF job[r].failed \/ job[r].lifted THEN cut ELSE cut \cup job[r].cuts
      /\ UNCHANGED <<held, clients, restored>>
  BY DEF ReloadTypeOK, CloseConnections
<1>3. JobHolds(r)
  BY DEF HoldInv
<1>4. cut' \subseteq held' /\ cut' \cap clients' \subseteq restored'
  BY <1>1, <1>2, <1>3 DEF HoldInv, JobHolds
<1>5. cut' \cap open' \subseteq spared' \cup restored'
  BY <1>2 DEF HoldInv
<1>6. JobHolds(r)'
  BY <1>2 DEF JobHolds, Idle
<1> QED
  BY <1>2, <1>4, <1>5, <1>6 DEF HoldInv, JobHolds

LEMMA HoldStep == ReloadTypeOK /\ HoldInv /\ [ReloadNext]_reloading => HoldInv'
<1> SUFFICES ASSUME ReloadTypeOK, HoldInv, [ReloadNext]_reloading PROVE HoldInv'
  OBVIOUS
<1>1. ASSUME NEW r \in Reloaders, NEW u \in People, NEW s \in Standings, SetStanding(r, u, s)
      PROVE HoldInv'
  BY <1>1, StartHolds DEF SetStanding
<1>2. ASSUME NEW r \in Reloaders, NEW u \in People, Disconnect(r, u) PROVE HoldInv'
  BY <1>2, StartHolds DEF Disconnect
<1>3. ASSUME NEW r \in Reloaders, NEW u \in People, Release(r, u) PROVE HoldInv'
  BY <1>3, StartHolds DEF Release
<1>4. ASSUME NEW r \in Reloaders, NEW i \in Inbounds, ToggleInbound(r, i) PROVE HoldInv'
  BY <1>4, StartHolds DEF ToggleInbound
<1>5. ASSUME NEW r \in Reloaders, ReadInbounds(r) \/ ReadUsers(r) PROVE HoldInv'
  BY <1>5, ReadHolds
<1>6. ASSUME NEW r \in Reloaders, Apply(r) PROVE HoldInv'
  BY <1>6, ApplyHolds
<1>7. ASSUME NEW r \in Reloaders, CloseConnections(r) PROVE HoldInv'
  BY <1>7, CloseHolds
<1>8. ASSUME NEW u \in People, Connect(u) PROVE HoldInv'
  BY <1>8 DEF Connect, HoldInv, JobHolds, ghosts
<1>9. ASSUME NEW u \in People, Leave(u) PROVE HoldInv'
  BY <1>9 DEF Leave, HoldInv, JobHolds
<1>10. CASE UNCHANGED reloading
  BY <1>10 DEF reloading, ghosts, HoldInv, JobHolds
<1> QED
  BY <1>1, <1>2, <1>3, <1>4, <1>5, <1>6, <1>7, <1>8, <1>9, <1>10 DEF ReloadNext, ReloadStep

\* However many reloads overlap, and whatever fails: once a disconnect has been
\* answered and until its hold is lifted, the user has no connection but one the
\* disconnect left open, or one on a credential that a reload which had read the
\* users before the hold put back.
THEOREM DisconnectHoldsForAll == ReloadSpec => []DisconnectHoldsInOrder
<1>1. ReloadInit => ReloadTypeOK /\ HoldInv
  BY TypeInit, HoldInit
<1>2. ReloadTypeOK /\ HoldInv /\ [ReloadNext]_reloading => (ReloadTypeOK /\ HoldInv)'
  BY TypeStep, HoldStep
<1>3. HoldInv => DisconnectHoldsInOrder
  BY DEF HoldInv, DisconnectHoldsInOrder
<1> QED
  BY <1>1, <1>2, <1>3, PTL DEF ReloadSpec

-----------------------------------------------------------------------------
(* What is served when no reload runs *)

LEMMA QuietInit == ReloadInit => QuietInv
BY DEF ReloadInit, QuietInv, JobCurrent, Current, Entitled, Idle

\* After a change, the reload it starts is the one to come, and no other is
\* taken for current.
LEMMA StartQuiet ==
    ASSUME ReloadTypeOK, QuietInv, NEW r \in Reloaders,
           NEW cuts \in SUBSET People, NEW freed \in SUBSET People, Start(r, cuts, freed)
    PROVE  QuietInv'
<1>1. /\ job'[r] = NewJob(cuts) /\ ~settled'
      /\ \A q \in Reloaders \ {r} :
           job'[q] = IF job[q] = Idle THEN Idle ELSE Overlapped(job[q], freed)
  BY Starts
<1>2. Pending(r)' /\ JobCurrent(r)'
  BY <1>1 DEF Pending, JobCurrent, NewJob
<1>3. ASSUME NEW q \in Reloaders \ {r} PROVE JobCurrent(q)'
  <2>1. CASE job[q] = Idle
    BY <1>1, <2>1 DEF JobCurrent, Idle
  <2>2. CASE job[q] # Idle
    <3>1. job[q] \in Jobs
      BY DEF ReloadTypeOK
    <3>2. /\ job'[q].pc = job[q].pc /\ job'[q].failed = job[q].failed
          /\ job'[q].stale <=> job[q].stale \/ job[q].pc \in {"users", "apply"}
      BY <1>1, <2>2, <3>1, Overlaps
    <3> QED
      BY <3>2 DEF QuietInv, JobCurrent
  <2> QED
    BY <2>1, <2>2
<1>4. \E q \in Reloaders : Pending(q)'
  BY <1>2
<1>5. \A q \in Reloaders : JobCurrent(q)'
  BY <1>2, <1>3
<1> QED
  BY <1>1, <1>4, <1>5 DEF QuietInv

\* A read takes the tables as they are.
LEMMA ReadQuiet ==
    ASSUME ReloadTypeOK, QuietInv, NEW r \in Reloaders, ReadInbounds(r) \/ ReadUsers(r)
    PROVE  QuietInv'
<1>1. /\ job'[r].stale = job[r].stale
      /\ \A q \in Reloaders \ {r} : job'[q] = job[q]
      /\ UNCHANGED <<standing, held, enabled, listening, clients, settled, missed>>
  BY Reads DEF ghosts
<1>2. Entitled' = Entitled /\ Current' = Current
  BY <1>1 DEF Current, Entitled
<1>3. JobCurrent(r)
  BY DEF QuietInv
<1>4. JobCurrent(r)' /\ job[r].pc \in {"inbounds", "users"} /\ job'[r].pc \in {"users", "apply"}
  <2>1. CASE ReadInbounds(r)
    BY <1>1, <1>2, <1>3, <2>1, ReadsInbounds DEF JobCurrent
  <2>2. CASE ReadUsers(r)
    BY <1>1, <1>2, <1>3, <2>2, ReadsUsers DEF JobCurrent
  <2> QED
    BY <2>1, <2>2
<1>5. ASSUME NEW q \in Reloaders, Pending(q) PROVE Pending(q)'
  BY <1>1, <1>4, <1>5 DEF Pending
<1>6. \A q \in Reloaders \ {r} : JobCurrent(q)'
  BY <1>1, <1>2 DEF QuietInv, JobCurrent
<1>7. settled' \/ \E q \in Reloaders : Pending(q)'
  BY <1>1, <1>5 DEF QuietInv
<1>8. settled' /\ ~missed' => Current'
  BY <1>1, <1>2 DEF QuietInv
<1> QED
  BY <1>4, <1>6, <1>7, <1>8 DEF QuietInv

\* A reload that nothing overlapped brings the core up to date; one that
\* something did, leaves it to the reload to come or is taken note of.
LEMMA ApplyQuiet ==
    ASSUME ReloadTypeOK, QuietInv, NEW r \in Reloaders, Apply(r)
    PROVE  QuietInv'
<1>1. /\ job[r] \in Jobs /\ job[r] # Idle /\ job[r].pc = "apply"
      /\ UNCHANGED <<standing, held, enabled>>
  BY Applies, Zenon
<1>2. job[r].failed \in BOOLEAN /\ job[r].stale \in BOOLEAN
  BY <1>1, JobFields
<1>3. settled' = (settled \/ ~job[r].stale)
  BY <1>1, Applies DEF Finish
<1>4. job'[r].pc \in {"idle", "close"} /\ \A q \in Reloaders \ {r} : job'[q] = job[q]
  <2>1. ASSUME NEW f \in BOOLEAN, Finish(r, f)
        PROVE  job'[r].pc \in {"idle", "close"} /\ \A q \in Reloaders \ {r} : job'[q] = job[q]
    BY <1>1, <2>1, Finishes DEF Idle
  <2> QED
    BY <1>2, <2>1, Applies
<1>5. Entitled' = Entitled
  BY <1>1 DEF Entitled
<1>6. \A q \in Reloaders : JobCurrent(q)'
  BY <1>1, <1>4, <1>5 DEF QuietInv, JobCurrent
<1>7. settled' \/ \E q \in Reloaders : Pending(q)'
  <2>1. CASE settled \/ ~job[r].stale
    BY <1>3, <2>1
  <2>2. CASE ~settled /\ job[r].stale
    <3>1. PICK q \in Reloaders : Pending(q)
      BY <2>2 DEF QuietInv
    <3>2. q # r
      BY <2>2, <3>1 DEF Pending
    <3> QED
      BY <1>4, <3>1, <3>2 DEF Pending
  <2> QED
    BY <1>2, <2>1, <2>2 DEF ReloadTypeOK
<1>8. settled' /\ ~missed' => Current'
  <2>1. CASE Finish(r, TRUE)
    BY <2>1 DEF Finish
  <2>2. CASE /\ Finish(r, job[r].failed)
             /\ listening' = job[r].inbounds
             /\ clients' = IF job[r].inbounds = {} THEN {} ELSE job[r].users
    <3> SUFFICES ASSUME settled', ~missed' PROVE Current'
      OBVIOUS
    <3>1. ~job[r].failed /\ ~(job[r].stale /\ settled)
      BY <2>2 DEF Finish
    <3>2. ~job[r].stale
      BY <1>3, <3>1
    <3>3. JobCurrent(r)
      BY DEF QuietInv
    <3> QED
      BY <1>1, <1>5, <2>2, <3>1, <3>2, <3>3 DEF JobCurrent, Current
  <2> QED
    BY <2>1, <2>2, Applies
<1> QED
  BY <1>6, <1>7, <1>8 DEF QuietInv

LEMMA QuietStep == ReloadTypeOK /\ QuietInv /\ [ReloadNext]_reloading => QuietInv'
<1> SUFFICES ASSUME ReloadTypeOK, QuietInv, [ReloadNext]_reloading PROVE QuietInv'
  OBVIOUS
<1>1. ASSUME NEW r \in Reloaders, NEW u \in People, NEW s \in Standings, SetStanding(r, u, s)
      PROVE QuietInv'
  BY <1>1, StartQuiet DEF SetStanding
<1>2. ASSUME NEW r \in Reloaders, NEW u \in People, Disconnect(r, u) \/ Release(r, u) PROVE QuietInv'
  BY <1>2, StartQuiet DEF Disconnect, Release
<1>3. ASSUME NEW r \in Reloaders, NEW i \in Inbounds, ToggleInbound(r, i) PROVE QuietInv'
  BY <1>3, StartQuiet DEF ToggleInbound
<1>4. ASSUME NEW r \in Reloaders, ReadInbounds(r) \/ ReadUsers(r) PROVE QuietInv'
  BY <1>4, ReadQuiet
<1>5. ASSUME NEW r \in Reloaders, Apply(r) PROVE QuietInv'
  BY <1>5, ApplyQuiet
<1>6. ASSUME NEW r \in Reloaders, CloseConnections(r) PROVE QuietInv'
  <2>1. /\ job[r].pc = "close" /\ job'[r] = Idle /\ \A q \in Reloaders \ {r} : job'[q] = job[q]
        /\ UNCHANGED <<enabled, standing, held, listening, clients, settled, missed>>
    BY <1>6 DEF ReloadTypeOK, CloseConnections
  <2>2. Entitled' = Entitled /\ Current' = Current
    BY <2>1 DEF Current, Entitled
  <2>3. ASSUME NEW q \in Reloaders PROVE (Pending(q) => Pending(q)') /\ JobCurrent(q)'
    BY <2>1, <2>2 DEF QuietInv, Pending, JobCurrent, Idle
  <2> QED
    BY <2>1, <2>2, <2>3 DEF QuietInv
<1>7. ASSUME NEW u \in People, Connect(u) \/ Leave(u) PROVE QuietInv'
  BY <1>7 DEF Connect, Leave, ghosts, QuietInv, JobCurrent, Pending, Current, Entitled
<1>8. CASE UNCHANGED reloading
  BY <1>8 DEF reloading, ghosts, QuietInv, JobCurrent, Pending, Current, Entitled
<1> QED
  BY <1>1, <1>2, <1>3, <1>4, <1>5, <1>6, <1>7, <1>8 DEF ReloadNext, ReloadStep

\* However many reloads overlap, and whatever changes while they read: once none
\* is running, the core serves the inbounds and the users that the tables say,
\* unless the last to finish had failed or was overtaken by the reload of a
\* later change.
THEOREM QuietMeansCurrentForAll == ReloadSpec => []QuietMeansCurrent
<1>1. ReloadInit => ReloadTypeOK /\ QuietInv
  BY TypeInit, QuietInit
<1>2. ReloadTypeOK /\ QuietInv /\ [ReloadNext]_reloading => (ReloadTypeOK /\ QuietInv)'
  BY TypeStep, QuietStep
<1>3. QuietInv => QuietMeansCurrent
  <2> SUFFICES ASSUME QuietInv, ~missed, \A r \in Reloaders : job[r] = Idle PROVE Current
    BY DEF QuietMeansCurrent, Current
  <2>1. \A r \in Reloaders : ~Pending(r)
    BY DEF Pending, Idle
  <2> QED
    BY <2>1 DEF QuietInv
<1> QED
  BY <1>1, <1>2, <1>3, PTL DEF ReloadSpec

-----------------------------------------------------------------------------
(***************************************************************************)
(* CorePins: what was selected runs, there is a version to go back to, and *)
(* directories hold what they are named for, outside the windows the ghosts*)
(* record.                                                                 *)
(***************************************************************************)

\* A request knows every request that was in flight while it was; until another
\* writes, what it read and built is true of the settings.
RequestsSound ==
    /\ \A r \in PinRequests : reqs[r].pc # "idle" => reqs[r].engine \in Engines
    /\ \A r, s \in PinRequests : r # s /\ InFlight(r) /\ InFlight(s) => reqs[s].engine \in reqs[r].met
    /\ \A r \in PinRequests : InFlight(r) /\ Solo(r) =>
          /\ reqs[r].map = [chosen EXCEPT ![reqs[r].engine] = reqs[r].version]
          /\ reqs[r].pc = "apply" => chosen[reqs[r].engine] = reqs[r].version
    /\ \A r \in PinRequests : InFlight(r) /\ AloneOn(r) =>
          /\ reqs[r].pc = "first" => reqs[r].prev = chosen[reqs[r].engine]
          /\ reqs[r].pc = "second" =>
               IF reqs[r].engine \in VersionFirst THEN chosen[reqs[r].engine] = reqs[r].version
               ELSE former[reqs[r].engine] = reqs[r].prev
    /\ \A r \in PinRequests : reqs[r].pc = "second" =>
          reqs[r].engine \in loose /\ reqs[r].prev # reqs[r].version

\* An installer installs the version its path is for, or `moved' says not.
FilesSound ==
    /\ \A i \in Installers : ensure[i].pc # "idle" => ensure[i].engine \in Engines
    /\ \A i \in Installers : ensure[i].pc = "install" =>
          \/ running[ensure[i].engine] = ensure[i].path
          \/ <<ensure[i].engine, ensure[i].path>> \in moved
    /\ \A i \in Installers : ensure[i].pc = "finalize" =>
          \/ ensure[i].version = ensure[i].path
          \/ <<ensure[i].engine, ensure[i].path>> \in moved
    /\ \A i \in Installers : ensure[i].pc = "data" => ensure[i].engine \in WithData

PinsInvariant ==
    /\ PinsTypeOK
    /\ RequestsSound /\ SelectionRuns /\ RollbackHasTarget
    /\ FilesSound /\ DirectoriesHold

LEMMA IdleTypes == NoPinRequest \in RequestRecords /\ NoInstall \in EnsureRecords
                   /\ Empty \in Folders /\ NoPinRequest.pc = "idle" /\ NoInstall.pc = "idle"
  BY DEF NoPinRequest, RequestRecords, RequestStages, NoInstall, EnsureRecords, EnsureStages, Empty,
         Folders, Versions

\* What a request touches, and what an installer does.
RequestPart == RequestsSound /\ SelectionRuns /\ RollbackHasTarget
FilePart == FilesSound /\ DirectoriesHold

LEMMA RequestsUndisturbed ==
  ASSUME RequestPart, UNCHANGED <<chosen, former, running, reqs, loose, behind>>
  PROVE  RequestPart'
  BY DEF RequestPart, RequestsSound, InFlight, Solo, AloneOn, SelectionRuns, RollbackHasTarget

LEMMA FilesUndisturbed ==
  ASSUME FilePart, UNCHANGED <<folder, ensure, running, moved>>
  PROVE  FilePart'
  BY DEF FilePart, FilesSound, DirectoriesHold, Begun

-----------------------------------------------------------------------------
(* PinRequests. *)

LEMMA AskKeeps ==
  ASSUME PinsInvariant, NEW r \in PinRequests, NEW e \in Engines, NEW v \in Versions, Ask(r, e, v)
  PROVE  PinsTypeOK' /\ RequestPart'
<1> DEFINE req == [NoPinRequest EXCEPT !.pc = "read", !.engine = e, !.version = v]
<1>1. req \in RequestRecords /\ req.pc = "read" /\ req.engine = e
  BY IdleTypes DEF RequestRecords, RequestStages, NoPinRequest
<1>2. reqs' = [reqs EXCEPT ![r] = req]
      /\ UNCHANGED <<chosen, former, loose, running, folder, ensure, moved, behind>>
  BY DEF Ask, settings, files
<1> HIDE DEF req
<1>3. PinsTypeOK'
  BY <1>1, <1>2 DEF PinsInvariant, PinsTypeOK
<1>4. RequestPart'
  BY <1>1, <1>2 DEF PinsInvariant, PinsTypeOK, RequestPart, RequestsSound, InFlight, Solo, AloneOn,
                    SelectionRuns, RollbackHasTarget
<1> QED BY <1>3, <1>4

LEMMA ReadKeeps ==
  ASSUME PinsInvariant, NEW r \in PinRequests, Read(r)
  PROVE  PinsTypeOK' /\ RequestPart'
<1> DEFINE e == reqs[r].engine
           others == {s \in PinRequests \ {r} : InFlight(s)}
           mine == [reqs[r] EXCEPT !.pc = "first", !.prev = chosen[e], !.map = MapFor(r),
                                   !.met = {reqs[o].engine : o \in others}]
<1>1. reqs \in [PinRequests -> RequestRecords] /\ chosen \in [Engines -> Versions]
      /\ e \in Engines /\ \A s \in others : reqs[s].engine \in Engines
  BY DEF PinsInvariant, PinsTypeOK, RequestsSound, Read, InFlight
<1>2. MapFor(r) = [chosen EXCEPT ![e] = reqs[r].version] /\ MapFor(r) \in [Engines -> Versions]
  BY <1>1, SMTT(40) DEF MapFor, RequestRecords
<1>3. mine \in RequestRecords
  <2>1. {reqs[o].engine : o \in others} \in SUBSET Engines
    BY <1>1
  <2>2. reqs[r] \in RequestRecords /\ chosen[e] \in Versions
    BY <1>1
  <2> HIDE DEF others
  <2> QED BY <2>1, <2>2, <1>2 DEF RequestRecords, RequestStages
<1>4. mine.pc = "first" /\ mine.engine = e /\ mine.version = reqs[r].version /\ mine.prev = chosen[e]
      /\ mine.map = MapFor(r) /\ mine.met = {reqs[o].engine : o \in others}
  BY <1>1 DEF RequestRecords
<1>5. /\ reqs'[r] = mine
      /\ \A s \in others : reqs'[s] = [reqs[s] EXCEPT !.met = @ \cup {e}]
      /\ \A s \in PinRequests \ {r} : s \notin others => reqs'[s] = reqs[s]
      /\ reqs' = [s \in PinRequests |-> reqs'[s]]
  BY DEF Read
<1>6. UNCHANGED <<chosen, former, loose, running, folder, ensure, moved, behind>>
  BY DEF Read, settings, files
<1> HIDE DEF mine
<1>7. \A s \in others : /\ reqs'[s] \in RequestRecords /\ reqs'[s].pc = reqs[s].pc
                        /\ reqs'[s].engine = reqs[s].engine /\ reqs'[s].version = reqs[s].version
                        /\ reqs'[s].prev = reqs[s].prev /\ reqs'[s].map = reqs[s].map
                        /\ reqs'[s].met = reqs[s].met \cup {e}
  BY <1>1, <1>5 DEF RequestRecords
<1>8. PinsTypeOK'
  <2>1. \A s \in PinRequests : reqs'[s] \in RequestRecords
    BY <1>1, <1>3, <1>5, <1>7
  <2> QED BY <1>5, <1>6, <2>1 DEF PinsInvariant, PinsTypeOK
<1>9. RequestsSound'
  <2>1. \A s \in PinRequests : reqs'[s].pc # "idle" => reqs'[s].engine \in Engines
    BY <1>1, <1>4, <1>5, <1>7 DEF PinsInvariant, RequestsSound
  <2>2. \A s \in PinRequests : InFlight(s)' <=> s = r \/ s \in others
    BY <1>4, <1>5, <1>7 DEF InFlight
  <2>3. \A s, t \in PinRequests : s # t /\ InFlight(s)' /\ InFlight(t)' => reqs'[t].engine \in reqs'[s].met
    BY <1>4, <1>5, <1>7, <2>2 DEF PinsInvariant, RequestsSound
  <2>4. \A s \in others : ~Solo(s)'
    BY <1>7 DEF Solo
  <2>5. \A s \in PinRequests : InFlight(s)' /\ Solo(s)' =>
          /\ reqs'[s].map = [chosen' EXCEPT ![reqs'[s].engine] = reqs'[s].version]
          /\ reqs'[s].pc = "apply" => chosen'[reqs'[s].engine] = reqs'[s].version
    BY <1>2, <1>4, <1>5, <1>6, <2>2, <2>4
  <2>6. \A s \in PinRequests : InFlight(s)' /\ AloneOn(s)' =>
          /\ reqs'[s].pc = "first" => reqs'[s].prev = chosen'[reqs'[s].engine]
          /\ reqs'[s].pc = "second" =>
               IF reqs'[s].engine \in VersionFirst THEN chosen'[reqs'[s].engine] = reqs'[s].version
               ELSE former'[reqs'[s].engine] = reqs'[s].prev
    <3> SUFFICES ASSUME NEW s \in PinRequests, InFlight(s)', AloneOn(s)'
                 PROVE  /\ reqs'[s].pc = "first" => reqs'[s].prev = chosen'[reqs'[s].engine]
                        /\ reqs'[s].pc = "second" =>
                             IF reqs'[s].engine \in VersionFirst
                             THEN chosen'[reqs'[s].engine] = reqs'[s].version
                             ELSE former'[reqs'[s].engine] = reqs'[s].prev
      OBVIOUS
    <3>1. CASE s = r
      BY <3>1, <1>4, <1>5, <1>6
    <3>2. CASE s \in others
      <4>1. AloneOn(s) /\ InFlight(s)
        BY <3>2, <1>7 DEF AloneOn
      <4> QED BY <3>2, <4>1, <1>6, <1>7 DEF PinsInvariant, RequestsSound
    <3> QED BY <2>2, <3>1, <3>2
  <2>7. \A s \in PinRequests : reqs'[s].pc = "second" =>
          reqs'[s].engine \in loose' /\ reqs'[s].prev # reqs'[s].version
    BY <1>4, <1>5, <1>6, <1>7 DEF PinsInvariant, RequestsSound
  <2> QED BY <2>1, <2>3, <2>5, <2>6, <2>7 DEF RequestsSound
<1>10. SelectionRuns' /\ RollbackHasTarget'
  BY <1>6 DEF PinsInvariant, SelectionRuns, RollbackHasTarget
<1> QED BY <1>8, <1>9, <1>10 DEF RequestPart

\* A request r that writes a setting of its engine, and goes on to pc.
LEMMA WriteKeeps ==
  ASSUME PinsInvariant, NEW r \in PinRequests, NEW pc \in {"second", "apply"},
         InFlight(r), reqs' = [reqs EXCEPT ![r].pc = pc],
         UNCHANGED <<running, folder, ensure, moved>>,
         \/ WriteVersion(r) \/ WriteFormer(r),
         loose' \in {loose, loose \cup {reqs[r].engine}, loose \ {reqs[r].engine}},
         reqs[r].engine \in loose' \/ AloneOn(r),
         pc = "second" => reqs[r].engine \in loose' /\ reqs[r].prev # reqs[r].version,
         pc = "apply" => (Solo(r) => chosen'[reqs[r].engine] = reqs[r].version),
         pc = "second" /\ AloneOn(r) =>
               IF reqs[r].engine \in VersionFirst THEN chosen'[reqs[r].engine] = reqs[r].version
               ELSE former'[reqs[r].engine] = reqs[r].prev,
         reqs[r].engine \notin loose' /\ chosen'[reqs[r].engine] = former'[reqs[r].engine]
            => chosen'[reqs[r].engine] = Shipped
  PROVE  PinsTypeOK' /\ RequestPart'
<1> DEFINE e == reqs[r].engine
<1>1. reqs \in [PinRequests -> RequestRecords] /\ e \in Engines
      /\ chosen \in [Engines -> Versions] /\ former \in [Engines -> Versions]
  BY DEF PinsInvariant, PinsTypeOK, RequestsSound, InFlight
<1>2. /\ reqs'[r] \in RequestRecords /\ reqs'[r].pc = pc /\ reqs'[r].engine = e
      /\ reqs'[r].version = reqs[r].version
      /\ reqs'[r].prev = reqs[r].prev /\ reqs'[r].map = reqs[r].map /\ reqs'[r].met = reqs[r].met
      /\ \A s \in PinRequests \ {r} : reqs'[s] = reqs[s]
      /\ reqs' \in [PinRequests -> RequestRecords]
  BY <1>1 DEF RequestRecords, RequestStages
<1>3. /\ chosen' \in [Engines -> Versions] /\ former' \in [Engines -> Versions]
      /\ \A x \in Engines \ {e} : chosen'[x] = chosen[x] /\ former'[x] = former[x]
      /\ chosen' = chosen \/ chosen' = [chosen EXCEPT ![e] = reqs[r].version]
      /\ behind' \in BOOLEAN /\ (behind => behind') /\ (chosen' # chosen => behind')
  <2>1. reqs[r].version \in Versions /\ reqs[r].prev \in Versions /\ behind \in BOOLEAN
    BY <1>1 DEF RequestRecords, PinsInvariant, PinsTypeOK
  <2>2. CASE WriteVersion(r)
    <3>1. chosen' = [chosen EXCEPT ![e] = reqs[r].version] /\ former' = former
      BY <2>2 DEF WriteVersion
    <3>2. behind' \in BOOLEAN /\ (behind => behind') /\ (chosen' # chosen => behind')
      BY <2>1, <2>2, Zenon DEF WriteVersion
    <3> QED BY <1>1, <2>1, <3>1, <3>2
  <2>3. CASE WriteFormer(r)
    <3>1. former' = [former EXCEPT ![e] = reqs[r].prev] /\ chosen' = chosen /\ behind' = behind
      BY <2>3 DEF WriteFormer
    <3> QED BY <1>1, <2>1, <3>1
  <2> QED BY <2>2, <2>3
<1>4. PinsTypeOK'
  BY <1>1, <1>2, <1>3 DEF PinsInvariant, PinsTypeOK
<1>5. \A s \in PinRequests : InFlight(s)' => InFlight(s)
  BY <1>2 DEF InFlight
<1>6. \A s \in PinRequests \ {r} : InFlight(s) => ~Solo(s) /\ (AloneOn(s) => reqs[s].engine # e)
  <2> SUFFICES ASSUME NEW s \in PinRequests \ {r}, InFlight(s)
               PROVE  ~Solo(s) /\ (AloneOn(s) => reqs[s].engine # e)
    OBVIOUS
  <2>1. e \in reqs[s].met
    BY DEF PinsInvariant, RequestsSound
  <2> QED BY <2>1 DEF Solo, AloneOn
<1>7. RequestsSound'
  <2>1. \A s \in PinRequests : reqs'[s].pc # "idle" => reqs'[s].engine \in Engines
    BY <1>1, <1>2 DEF PinsInvariant, RequestsSound
  <2>2. \A s, t \in PinRequests : s # t /\ InFlight(s)' /\ InFlight(t)' => reqs'[t].engine \in reqs'[s].met
    BY <1>2, <1>5 DEF PinsInvariant, RequestsSound
  <2>3. \A s \in PinRequests : InFlight(s)' /\ Solo(s)' =>
          /\ reqs'[s].map = [chosen' EXCEPT ![reqs'[s].engine] = reqs'[s].version]
          /\ reqs'[s].pc = "apply" => chosen'[reqs'[s].engine] = reqs'[s].version
    <3> SUFFICES ASSUME NEW s \in PinRequests, InFlight(s)', Solo(s)'
                 PROVE  /\ reqs'[s].map = [chosen' EXCEPT ![reqs'[s].engine] = reqs'[s].version]
                        /\ reqs'[s].pc = "apply" => chosen'[reqs'[s].engine] = reqs'[s].version
      OBVIOUS
    <3>1. s = r
      BY <1>2, <1>5, <1>6 DEF Solo
    <3>2. Solo(r)
      BY <3>1, <1>2 DEF Solo
    <3>3. reqs[r].map = [chosen EXCEPT ![e] = reqs[r].version]
      BY <3>2 DEF PinsInvariant, RequestsSound
    <3>4. [chosen' EXCEPT ![e] = reqs[r].version] = [chosen EXCEPT ![e] = reqs[r].version]
      BY <1>1, <1>3
    <3> QED BY <3>1, <3>2, <3>3, <3>4, <1>2
  <2>4. \A s \in PinRequests : InFlight(s)' /\ AloneOn(s)' =>
          /\ reqs'[s].pc = "first" => reqs'[s].prev = chosen'[reqs'[s].engine]
          /\ reqs'[s].pc = "second" =>
               IF reqs'[s].engine \in VersionFirst THEN chosen'[reqs'[s].engine] = reqs'[s].version
               ELSE former'[reqs'[s].engine] = reqs'[s].prev
    <3> SUFFICES ASSUME NEW s \in PinRequests, InFlight(s)', AloneOn(s)'
                 PROVE  /\ reqs'[s].pc = "first" => reqs'[s].prev = chosen'[reqs'[s].engine]
                        /\ reqs'[s].pc = "second" =>
                             IF reqs'[s].engine \in VersionFirst
                             THEN chosen'[reqs'[s].engine] = reqs'[s].version
                             ELSE former'[reqs'[s].engine] = reqs'[s].prev
      OBVIOUS
    <3>1. CASE s = r
      <4>1. AloneOn(r)
        BY <3>1, <1>2 DEF AloneOn
      <4> QED BY <3>1, <4>1, <1>2
    <3>2. CASE s # r
      <4>1. reqs'[s] = reqs[s] /\ InFlight(s) /\ AloneOn(s)
        BY <3>2, <1>2, <1>5 DEF AloneOn
      <4>2. reqs[s].engine \in Engines \ {e}
        BY <3>2, <4>1, <1>6 DEF PinsInvariant, RequestsSound, InFlight
      <4> QED BY <4>1, <4>2, <1>3 DEF PinsInvariant, RequestsSound
    <3> QED BY <3>1, <3>2
  <2>5. \A s \in PinRequests : reqs'[s].pc = "second" =>
          reqs'[s].engine \in loose' /\ reqs'[s].prev # reqs'[s].version
    <3> SUFFICES ASSUME NEW s \in PinRequests, reqs'[s].pc = "second"
                 PROVE  reqs'[s].engine \in loose' /\ reqs'[s].prev # reqs'[s].version
      OBVIOUS
    <3>1. CASE s = r
      BY <3>1, <1>2
    <3>2. CASE s # r
      <4>1. reqs'[s] = reqs[s] /\ reqs[s].engine \in loose /\ reqs[s].prev # reqs[s].version
            /\ InFlight(s)
        BY <3>2, <1>2 DEF PinsInvariant, RequestsSound, InFlight
      <4>2. CASE e \in loose'
        BY <4>1, <4>2
      <4>3. CASE e \notin loose'
        <5>1. AloneOn(r) /\ reqs[s].engine \in reqs[r].met
          BY <3>2, <4>1, <4>3 DEF PinsInvariant, RequestsSound
        <5>2. reqs[s].engine # e
          BY <5>1 DEF AloneOn
        <5> QED BY <4>1, <5>2
      <4> QED BY <4>2, <4>3
    <3> QED BY <3>1, <3>2
  <2> QED BY <2>1, <2>2, <2>3, <2>4, <2>5 DEF RequestsSound
<1>8. SelectionRuns'
  BY <1>3 DEF PinsInvariant, SelectionRuns
<1>9. RollbackHasTarget'
  <2> SUFFICES ASSUME NEW x \in Engines \ loose', chosen'[x] = former'[x] PROVE chosen'[x] = Shipped
    BY DEF RollbackHasTarget
  <2>1. CASE x = e
    BY <2>1
  <2>2. CASE x # e
    <3>1. x \notin loose /\ chosen'[x] = chosen[x] /\ former'[x] = former[x]
      BY <2>2, <1>3
    <3> QED BY <3>1 DEF PinsInvariant, RollbackHasTarget
  <2> QED BY <2>1, <2>2
<1> QED BY <1>4, <1>7, <1>8, <1>9 DEF RequestPart

LEMMA WriteFirstKeeps ==
  ASSUME PinsInvariant, NEW r \in PinRequests, WriteFirst(r)
  PROVE  PinsTypeOK' /\ RequestPart'
<1> DEFINE e == reqs[r].engine
<1>1. InFlight(r) /\ e \in Engines /\ reqs[r] \in RequestRecords
      /\ chosen \in [Engines -> Versions] /\ former \in [Engines -> Versions]
      /\ UNCHANGED <<running, folder, ensure, moved>>
  BY DEF WriteFirst, InFlight, PinsInvariant, PinsTypeOK, RequestsSound, files
<1>2. CASE Repinned(r)
  <2>1. WriteVersion(r) /\ reqs' = [reqs EXCEPT ![r].pc = "apply"]
        /\ loose' = (IF AloneOn(r) THEN loose ELSE loose \cup {e})
    BY <1>2 DEF WriteFirst
  <2>2. chosen' = [chosen EXCEPT ![e] = reqs[r].version] /\ former' = former
        /\ chosen'[e] = reqs[r].version
    BY <1>1, <2>1 DEF WriteVersion
  <2>3. AloneOn(r) => chosen'[e] = chosen[e]
    BY <1>1, <1>2, <2>2 DEF PinsInvariant, RequestsSound, WriteFirst, Repinned
  <2>4. e \notin loose' /\ chosen'[e] = former'[e] => chosen'[e] = Shipped
    BY <1>1, <2>1, <2>2, <2>3 DEF PinsInvariant, RollbackHasTarget
  <2> QED BY <1>1, <2>1, <2>2, <2>4, WriteKeeps
<1>3. CASE ~Repinned(r)
  <2>1. (IF e \in VersionFirst THEN WriteVersion(r) ELSE WriteFormer(r))
        /\ reqs' = [reqs EXCEPT ![r].pc = "second"] /\ loose' = loose \cup {e}
        /\ reqs[r].prev # reqs[r].version
    BY <1>3 DEF WriteFirst, Repinned
  <2>2. IF e \in VersionFirst THEN chosen'[e] = reqs[r].version ELSE former'[e] = reqs[r].prev
    BY <1>1, <2>1 DEF WriteVersion, WriteFormer
  <2> QED BY <1>1, <2>1, <2>2, WriteKeeps
<1> QED BY <1>2, <1>3

LEMMA WriteSecondKeeps ==
  ASSUME PinsInvariant, NEW r \in PinRequests, WriteSecond(r)
  PROVE  PinsTypeOK' /\ RequestPart'
<1> DEFINE e == reqs[r].engine
<1>1. InFlight(r) /\ e \in Engines /\ reqs[r] \in RequestRecords
      /\ chosen \in [Engines -> Versions] /\ former \in [Engines -> Versions]
      /\ UNCHANGED <<running, folder, ensure, moved>>
  BY DEF WriteSecond, InFlight, PinsInvariant, PinsTypeOK, RequestsSound, files
<1>2. e \in loose /\ reqs[r].prev # reqs[r].version
      /\ (AloneOn(r) => IF e \in VersionFirst THEN chosen[e] = reqs[r].version ELSE former[e] = reqs[r].prev)
  BY <1>1 DEF WriteSecond, PinsInvariant, RequestsSound
<1>3. (IF e \in VersionFirst THEN WriteFormer(r) ELSE WriteVersion(r))
      /\ reqs' = [reqs EXCEPT ![r].pc = "apply"]
      /\ loose' = (IF AloneOn(r) THEN loose \ {e} ELSE loose)
  BY DEF WriteSecond
<1>4. AloneOn(r) => chosen'[e] = reqs[r].version /\ former'[e] = reqs[r].prev
  BY <1>1, <1>2, <1>3 DEF WriteVersion, WriteFormer
<1>5. Solo(r) => AloneOn(r)
  BY DEF Solo, AloneOn
<1> QED BY <1>1, <1>2, <1>3, <1>4, <1>5, WriteKeeps

\* A request ends; the others know nothing less.
LEMMA EndKeeps ==
  ASSUME PinsInvariant, NEW r \in PinRequests, reqs' = [reqs EXCEPT ![r] = NoPinRequest],
         UNCHANGED <<chosen, former, loose>>
  PROVE  reqs' \in [PinRequests -> RequestRecords] /\ RequestsSound' /\ RollbackHasTarget'
<1>1. reqs' \in [PinRequests -> RequestRecords] /\ reqs'[r].pc = "idle"
      /\ \A s \in PinRequests \ {r} : reqs'[s] = reqs[s]
  BY IdleTypes DEF PinsInvariant, PinsTypeOK
<1> QED BY <1>1 DEF PinsInvariant, RequestsSound, InFlight, Solo, AloneOn, RollbackHasTarget

LEMMA SetPinsKeeps ==
  ASSUME PinsInvariant, NEW r \in PinRequests, SetPins(r)
  PROVE  PinsInvariant'
<1>0. reqs[r] \in RequestRecords /\ reqs[r].engine \in Engines /\ chosen \in [Engines -> Versions]
  BY DEF PinsInvariant, PinsTypeOK, RequestsSound, SetPins
<1>1. reqs' = [reqs EXCEPT ![r] = NoPinRequest] /\ UNCHANGED <<chosen, former, loose, folder, ensure>>
      /\ running' = reqs[r].map /\ behind' = ~Solo(r) /\ moved' = moved \cup Moves(running')
  BY DEF SetPins, settings
<1>2. reqs' \in [PinRequests -> RequestRecords] /\ RequestsSound' /\ RollbackHasTarget'
  BY <1>1, EndKeeps
<1>3. SelectionRuns'
  <2> SUFFICES ASSUME Solo(r) PROVE running' = chosen'
    BY <1>1 DEF SelectionRuns
  <2>1. reqs[r].map = [chosen EXCEPT ![reqs[r].engine] = reqs[r].version]
        /\ chosen[reqs[r].engine] = reqs[r].version
    BY DEF SetPins, InFlight, PinsInvariant, RequestsSound
  <2> QED BY <1>0, <1>1, <2>1
<1>4. Moves(running') \subseteq Engines \X Versions
  BY DEF Moves, PinsInvariant, PinsTypeOK, FilesSound, EnsureRecords
<1>5. PinsTypeOK'
  BY <1>0, <1>1, <1>2, <1>4 DEF PinsInvariant, PinsTypeOK, RequestRecords
<1>6. FilesSound'
  <2>1. \A i \in Installers : ensure[i].pc = "install" =>
          \/ running'[ensure[i].engine] = ensure[i].path
          \/ <<ensure[i].engine, ensure[i].path>> \in moved'
    BY <1>1 DEF Moves
  <2> QED BY <1>1, <2>1 DEF PinsInvariant, FilesSound
<1>7. DirectoriesHold'
  BY <1>1 DEF PinsInvariant, DirectoriesHold, Begun
<1> QED BY <1>2, <1>3, <1>5, <1>6, <1>7 DEF PinsInvariant

-----------------------------------------------------------------------------
(* Installers. *)

\* Installer i goes on as `to', and no directory changes.
LEMMA InstallerKeeps ==
  ASSUME PinsInvariant, NEW i \in Installers, NEW to \in EnsureRecords,
         ensure' = [ensure EXCEPT ![i] = to],
         UNCHANGED <<chosen, former, loose, running, reqs, folder, behind>>,
         moved' = moved \cup Begun(i),
         to.pc \in {"idle", "install", "finalize"},
         to.pc # "idle" => to.engine \in Engines,
         to.pc = "install" => to.path = running[to.engine],
         to.pc = "finalize" => to.version = to.path \/ <<to.engine, to.path>> \in moved
  PROVE  PinsInvariant'
<1>1. ensure' \in [Installers -> EnsureRecords] /\ ensure'[i] = to
      /\ \A j \in Installers \ {i} : ensure'[j] = ensure[j]
  BY DEF PinsInvariant, PinsTypeOK
<1>2. Begun(i) \subseteq Engines \X Versions
  BY DEF Begun, PinsInvariant, PinsTypeOK, FilesSound, EnsureRecords
<1>3. PinsTypeOK'
  BY <1>1, <1>2 DEF PinsInvariant, PinsTypeOK
<1>4. FilesSound'
  BY <1>1 DEF PinsInvariant, FilesSound
<1>5. DirectoriesHold'
  <2> SUFFICES ASSUME NEW e \in Engines, NEW v \in Versions, folder[e][v].binary # Absent,
                      <<e, v>> \notin moved'
               PROVE  /\ folder[e][v].binary = v
                      /\ e \in WithData /\ ~folder[e][v].data =>
                           \E j \in Installers : <<e, v>> \in Begun(j)'
    BY DEF DirectoriesHold
  <2>1. folder[e][v].binary = v
        /\ (e \in WithData /\ ~folder[e][v].data => \E j \in Installers : <<e, v>> \in Begun(j))
    BY DEF PinsInvariant, DirectoriesHold
  <2>2. \A j \in Installers : <<e, v>> \in Begun(j) => j # i /\ <<e, v>> \in Begun(j)'
    BY <1>1 DEF Begun
  <2> QED BY <2>1, <2>2
<1>6. RequestPart'
  BY RequestsUndisturbed DEF PinsInvariant, RequestPart
<1> QED BY <1>3, <1>4, <1>5, <1>6 DEF PinsInvariant, RequestPart

LEMMA FinalizeKeeps ==
  ASSUME PinsInvariant, NEW i \in Installers, Finalize(i)
  PROVE  PinsInvariant'
<1> DEFINE e == ensure[i].engine
           p == ensure[i].path
           w == ensure[i].version
           to == IF e \in WithData THEN [ensure[i] EXCEPT !.pc = "data"] ELSE NoInstall
<1>1. e \in Engines /\ p \in Versions /\ w \in Versions /\ ensure[i] \in EnsureRecords
      /\ (w = p \/ <<e, p>> \in moved) /\ folder \in [Engines -> [Versions -> Folders]]
      /\ ensure \in [Installers -> EnsureRecords]
  BY DEF Finalize, PinsInvariant, PinsTypeOK, FilesSound, EnsureRecords
<1>2. ensure' = [ensure EXCEPT ![i] = to] /\ folder' = [folder EXCEPT ![e][p].binary = w]
      /\ UNCHANGED <<chosen, former, loose, running, reqs, behind, moved>>
  BY DEF Finalize, settings
<1>3. to \in EnsureRecords /\ to.pc \in {"idle", "data"}
      /\ (e \in WithData => to.pc = "data" /\ to.engine = e /\ to.path = p)
      /\ (to.pc # "idle" => e \in WithData)
  BY <1>1, IdleTypes DEF EnsureRecords, EnsureStages
<1> HIDE DEF to
<1>4. /\ folder'[e][p].binary = w /\ folder'[e][p].data = folder[e][p].data
      /\ \A x \in Engines, v \in Versions : <<x, v>> # <<e, p>> => folder'[x][v] = folder[x][v]
  BY <1>1, <1>2 DEF Folders
<1>5. folder' \in [Engines -> [Versions -> Folders]]
  <2>1. [folder[e][p] EXCEPT !.binary = w] \in Folders
    BY <1>1 DEF Folders
  <2> QED BY <1>1, <1>2, <2>1
<1>6. ensure' \in [Installers -> EnsureRecords] /\ ensure'[i] = to
      /\ \A j \in Installers \ {i} : ensure'[j] = ensure[j]
  BY <1>1, <1>2, <1>3
<1>7. PinsTypeOK'
  BY <1>2, <1>5, <1>6 DEF PinsInvariant, PinsTypeOK
<1>8. FilesSound'
  BY <1>2, <1>3, <1>6, <1>1 DEF PinsInvariant, FilesSound
<1>9. DirectoriesHold'
  <2> SUFFICES ASSUME NEW x \in Engines, NEW v \in Versions, folder'[x][v].binary # Absent,
                      <<x, v>> \notin moved
               PROVE  /\ folder'[x][v].binary = v
                      /\ x \in WithData /\ ~folder'[x][v].data =>
                           \E j \in Installers : <<x, v>> \in Begun(j)'
    BY <1>2 DEF DirectoriesHold
  <2>1. CASE x = e /\ v = p
    <3>1. folder'[x][v].binary = v
      BY <2>1, <1>1, <1>4
    <3>2. x \in WithData => <<x, v>> \in Begun(i)'
      BY <2>1, <1>3, <1>6 DEF Begun
    <3> QED BY <3>1, <3>2
  <2>2. CASE ~(x = e /\ v = p)
    <3>1. folder'[x][v] = folder[x][v]
      BY <2>2, <1>4
    <3>2. \A j \in Installers : <<x, v>> \in Begun(j) => j # i
      BY DEF Begun, Finalize
    <3>3. \A j \in Installers : <<x, v>> \in Begun(j) => <<x, v>> \in Begun(j)'
      BY <3>2, <1>6 DEF Begun
    <3> QED BY <3>1, <3>3 DEF PinsInvariant, DirectoriesHold
  <2> QED BY <2>1, <2>2, SMTT(40)
<1>10. RequestPart'
  BY <1>2, RequestsUndisturbed DEF PinsInvariant, RequestPart
<1> QED BY <1>7, <1>8, <1>9, <1>10 DEF PinsInvariant, RequestPart

LEMMA InstallDataKeeps ==
  ASSUME PinsInvariant, NEW i \in Installers, InstallData(i)
  PROVE  PinsInvariant'
<1> DEFINE e == ensure[i].engine
           p == ensure[i].path
<1>1. e \in Engines /\ p \in Versions /\ folder \in [Engines -> [Versions -> Folders]]
      /\ ensure \in [Installers -> EnsureRecords]
  BY DEF InstallData, PinsInvariant, PinsTypeOK, FilesSound, EnsureRecords
<1>2. ensure' = [ensure EXCEPT ![i] = NoInstall] /\ folder' = [folder EXCEPT ![e][p].data = TRUE]
      /\ UNCHANGED <<chosen, former, loose, running, reqs, behind, moved>>
  BY DEF InstallData, settings
<1>3. /\ folder'[e][p].binary = folder[e][p].binary /\ folder'[e][p].data = TRUE
      /\ \A x \in Engines, v \in Versions : <<x, v>> # <<e, p>> => folder'[x][v] = folder[x][v]
  <2>1. folder'[e][p] = [folder[e][p] EXCEPT !.data = TRUE] /\ folder[e][p] \in Folders
    BY <1>1, <1>2
  <2>2. folder'[e][p].binary = folder[e][p].binary /\ folder'[e][p].data = TRUE
    BY <2>1 DEF Folders
  <2> QED BY <1>1, <1>2, <2>2
<1>4. folder' \in [Engines -> [Versions -> Folders]]
  <2>1. folder[e][p] \in Folders
    BY <1>1
  <2>2. [folder[e][p] EXCEPT !.data = TRUE] \in Folders
    BY <2>1 DEF Folders
  <2> QED BY <1>1, <1>2, <2>2
<1>5. ensure' \in [Installers -> EnsureRecords] /\ ensure'[i].pc = "idle"
      /\ \A j \in Installers \ {i} : ensure'[j] = ensure[j]
  BY <1>1, <1>2, IdleTypes
<1>6. PinsTypeOK'
  BY <1>2, <1>4, <1>5 DEF PinsInvariant, PinsTypeOK
<1>7. FilesSound'
  BY <1>2, <1>5 DEF PinsInvariant, FilesSound
<1>8. DirectoriesHold'
  <2> SUFFICES ASSUME NEW x \in Engines, NEW v \in Versions, folder'[x][v].binary # Absent,
                      <<x, v>> \notin moved
               PROVE  /\ folder'[x][v].binary = v
                      /\ x \in WithData /\ ~folder'[x][v].data =>
                           \E j \in Installers : <<x, v>> \in Begun(j)'
    BY <1>2 DEF DirectoriesHold
  <2>1. folder'[x][v].binary = folder[x][v].binary /\ (~folder'[x][v].data => folder'[x][v] = folder[x][v] /\ <<x, v>> # <<e, p>>)
    BY <1>3
  <2>2. \A j \in Installers : <<x, v>> # <<e, p>> /\ <<x, v>> \in Begun(j) => <<x, v>> \in Begun(j)'
    BY <1>5 DEF Begun
  <2> QED BY <2>1, <2>2, SMTT(40) DEF PinsInvariant, DirectoriesHold
<1>9. RequestPart'
  BY <1>2, RequestsUndisturbed DEF PinsInvariant, RequestPart
<1> QED BY <1>6, <1>7, <1>8, <1>9 DEF PinsInvariant, RequestPart

LEMMA RestartKeeps ==
  ASSUME PinsInvariant, Restart
  PROVE  PinsInvariant'
<1>1. /\ running' = chosen /\ behind' = FALSE /\ UNCHANGED <<chosen, former, loose, folder>>
      /\ reqs' = [r \in PinRequests |-> NoPinRequest] /\ ensure' = [i \in Installers |-> NoInstall]
      /\ moved' = moved \cup UNION {Begun(i) : i \in Installers}
  BY DEF Restart, settings
<1>2. \A i \in Installers : Begun(i) \subseteq Engines \X Versions
  BY DEF Begun, PinsInvariant, PinsTypeOK, FilesSound, EnsureRecords
<1>3. PinsTypeOK'
  <2>1. moved' \subseteq Engines \X Versions
    BY <1>1, <1>2 DEF PinsInvariant, PinsTypeOK
  <2>2. reqs' \in [PinRequests -> RequestRecords] /\ ensure' \in [Installers -> EnsureRecords]
    BY <1>1, IdleTypes
  <2> QED BY <1>1, <2>1, <2>2 DEF PinsInvariant, PinsTypeOK
<1>4. RequestsSound' /\ SelectionRuns' /\ RollbackHasTarget' /\ FilesSound'
  BY <1>1, IdleTypes DEF PinsInvariant, RequestsSound, InFlight, SelectionRuns, RollbackHasTarget, FilesSound
<1>5. DirectoriesHold'
  BY <1>1 DEF PinsInvariant, DirectoriesHold
<1> QED BY <1>3, <1>4, <1>5 DEF PinsInvariant

-----------------------------------------------------------------------------
LEMMA InvariantHolds == PinsSpec => []PinsInvariant
<1>1. PinsInit => PinsInvariant
  <2> SUFFICES ASSUME PinsInit PROVE PinsInvariant
    OBVIOUS
  <2>1. PinsTypeOK
    BY IdleTypes DEF PinsInit, PinsTypeOK, Versions
  <2>2. RequestsSound /\ FilesSound
    BY IdleTypes DEF PinsInit, RequestsSound, FilesSound, InFlight
  <2>3. SelectionRuns /\ RollbackHasTarget /\ DirectoriesHold
    BY DEF PinsInit, SelectionRuns, RollbackHasTarget, DirectoriesHold, Empty
  <2> QED BY <2>1, <2>2, <2>3 DEF PinsInvariant
<1>2. PinsInvariant /\ [PinsNext]_pins => PinsInvariant'
  <2> SUFFICES ASSUME PinsInvariant, [PinsNext]_pins PROVE PinsInvariant'
    OBVIOUS
  <2>0. ensure \in [Installers -> EnsureRecords] /\ running \in [Engines -> Versions]
    BY DEF PinsInvariant, PinsTypeOK
  <2>1. ASSUME PinsTypeOK', RequestPart', UNCHANGED <<folder, ensure, running, moved>>
        PROVE  PinsInvariant'
    BY <2>1, FilesUndisturbed DEF PinsInvariant, RequestPart, FilePart
  <2>2. ASSUME NEW r \in PinRequests, NEW e \in Engines, NEW v \in Versions, Ask(r, e, v)
        PROVE  PinsInvariant'
    BY <2>1, <2>2, AskKeeps, ZenonT(40) DEF Ask, files
  <2>3. ASSUME NEW r \in PinRequests, Read(r) PROVE PinsInvariant'
    BY <2>1, <2>3, ReadKeeps, ZenonT(40) DEF Read, files
  <2>4. ASSUME NEW r \in PinRequests, WriteFirst(r) PROVE PinsInvariant'
    BY <2>1, <2>4, WriteFirstKeeps DEF WriteFirst, files
  <2>5. ASSUME NEW r \in PinRequests, WriteSecond(r) PROVE PinsInvariant'
    BY <2>1, <2>5, WriteSecondKeeps DEF WriteSecond, files
  <2>6. ASSUME NEW r \in PinRequests, WriteFails(r) PROVE PinsInvariant'
    <3>1. reqs' = [reqs EXCEPT ![r] = NoPinRequest]
          /\ UNCHANGED <<chosen, former, loose, running, folder, ensure, moved, behind>>
      BY <2>6 DEF WriteFails, settings, files
    <3>2. reqs' \in [PinRequests -> RequestRecords] /\ RequestsSound' /\ RollbackHasTarget'
      BY <3>1, EndKeeps
    <3>3. PinsTypeOK' /\ RequestPart'
      BY <3>1, <3>2 DEF PinsInvariant, PinsTypeOK, RequestPart, SelectionRuns
    <3> QED BY <2>1, <3>1, <3>3
  <2>7. ASSUME NEW i \in Installers, NEW e \in Engines, Locate(i, e) PROVE PinsInvariant'
    <3> DEFINE to == [NoInstall EXCEPT !.pc = "install", !.engine = e, !.path = running[e]]
    <3>1. to \in EnsureRecords /\ to.pc = "install" /\ to.engine = e /\ to.path = running[e]
      BY <2>0, IdleTypes DEF EnsureRecords, EnsureStages, NoInstall
    <3>2. ensure' = [ensure EXCEPT ![i] = to] /\ Begun(i) = {} /\ moved' = moved
          /\ UNCHANGED <<chosen, former, loose, running, reqs, folder, behind>>
      BY <2>7 DEF Locate, Begun, settings
    <3> HIDE DEF to
    <3> QED BY <3>1, <3>2, InstallerKeeps
  <2>8. ASSUME NEW i \in Installers, Install(i) PROVE PinsInvariant'
    <3> DEFINE to == [ensure[i] EXCEPT !.pc = "finalize", !.version = running[ensure[i].engine]]
    <3>1. ensure[i].engine \in Engines
          /\ (running[ensure[i].engine] = ensure[i].path \/ <<ensure[i].engine, ensure[i].path>> \in moved)
      BY <2>8 DEF Install, PinsInvariant, FilesSound
    <3>2. to \in EnsureRecords /\ to.pc = "finalize" /\ to.engine = ensure[i].engine
          /\ to.path = ensure[i].path /\ to.version = running[ensure[i].engine]
      BY <2>0, <3>1 DEF EnsureRecords, EnsureStages
    <3>3. ensure' = [ensure EXCEPT ![i] = to] /\ Begun(i) = {} /\ moved' = moved
          /\ UNCHANGED <<chosen, former, loose, running, reqs, folder, behind>>
      BY <2>0, <2>8 DEF Install, Begun, settings
    <3> HIDE DEF to
    <3> QED BY <3>1, <3>2, <3>3, InstallerKeeps
  <2>9. ASSUME NEW i \in Installers, InstallFails(i) PROVE PinsInvariant'
    <3>1. ensure' = [ensure EXCEPT ![i] = NoInstall] /\ moved' = moved \cup Begun(i)
          /\ UNCHANGED <<chosen, former, loose, running, reqs, folder, behind>>
      BY <2>9 DEF InstallFails, settings
    <3> QED BY <3>1, IdleTypes, InstallerKeeps
  <2>10. CASE UNCHANGED pins
    <3>1. PinsTypeOK' /\ RequestPart'
      BY <2>10, RequestsUndisturbed DEF pins, PinsInvariant, PinsTypeOK, RequestPart
    <3> QED BY <2>1, <2>10, <3>1 DEF pins
  <2> QED BY <2>2, <2>3, <2>4, <2>5, <2>6, <2>7, <2>8, <2>9, <2>10,
             SetPinsKeeps, FinalizeKeeps, InstallDataKeeps, RestartKeeps DEF PinsNext
<1> QED BY <1>1, <1>2, PTL DEF PinsSpec

\* What was selected and applied runs, over restarts and failed writes.
THEOREM SelectionAlwaysRuns == PinsSpec => []SelectionRuns
<1>1. PinsInvariant => SelectionRuns
  BY DEF PinsInvariant
<1> QED BY <1>1, InvariantHolds, PTL

\* There is always a version to roll back to once one was pinned.
THEOREM RollbackAlwaysHasTarget == PinsSpec => []RollbackHasTarget
<1>1. PinsInvariant => RollbackHasTarget
  BY DEF PinsInvariant
<1> QED BY <1>1, InvariantHolds, PTL

\* A version's directory holds that version.
THEOREM DirectoriesAlwaysHold == PinsSpec => []DirectoriesHold
<1>1. PinsInvariant => DirectoriesHold
  BY DEF PinsInvariant
<1> QED BY <1>1, InvariantHolds, PTL

\* The variables of the pins keep their types.
THEOREM PinsTypeCorrect == PinsSpec => []PinsTypeOK
<1>1. PinsInvariant => PinsTypeOK
  BY DEF PinsInvariant
<1> QED BY <1>1, InvariantHolds, PTL

-----------------------------------------------------------------------------
(***************************************************************************)
(* AddressLimit: an account is held exactly when two sweeps in a row found it*)
(* over its limit.  The tracker forgets only addresses older than all of a *)
(* full map, so below the cap what it counts exceeds a limit exactly when what*)
(* is connected does.                                                      *)
(***************************************************************************)

\* The tracker keeps an account's latest addresses.
Latest(u) ==
    /\ Cardinality(tracked[u]) <= MaxAddresses
    /\ \A a \in Addresses \ tracked[u] : Recent(u, a) =>
          /\ Cardinality(tracked[u]) = MaxAddresses
          /\ \A b \in tracked[u] : seen[u][a] <= seen[u][b]
LatestTracked == \A u \in Accounts : Latest(u)

NoneAhead == \A u \in Accounts, a \in Addresses : seen[u][a] <= clock

\* The count of breaches agrees with what really happened, and a sweep's copy
\* of a row with the row, but for the accounts excused.
BreachesSound ==
    /\ \A u \in Accounts : breaches[u] # 0 => streak[u] # 0
    /\ \A u \in Accounts \ excused : allowance[u].until = 0 /\ streak[u] # 0 => breaches[u] # 0
SweepSound ==
    /\ sweep.todo # {} => sweep.now > 0
    /\ \A u \in sweep.todo \ excused : sweep.rows[u].until = allowance[u].until

AddressInvariant ==
    /\ AddressesTypeOK
    /\ NoneAhead /\ LatestTracked
    /\ BreachesSound /\ SweepSound /\ LimitEnforced

-----------------------------------------------------------------------------
(* The tracker *)

\* Every set of addresses is finite.
LEMMA AddressesFinite ==
    ASSUME NEW S \in SUBSET Addresses
    PROVE  IsFiniteSet(S) /\ Cardinality(S) \in Nat
BY AddressAssumption, FS_Subset, FS_CardinalityType

\* Below the cap, the tracker shows a breach exactly when there is one.
LEMMA CountAgrees ==
    ASSUME AddressesTypeOK, LatestTracked, NEW u \in Accounts
    PROVE  /\ Counted(u) => Over(u)
           /\ Over(u) /\ sweep.rows[u].limit < MaxAddresses => Counted(u)
<1>1. /\ tracked[u] \in SUBSET Addresses /\ Connected(u) \in SUBSET Addresses
      /\ Pruned(u) \in SUBSET Connected(u)
  BY DEF AddressesTypeOK, Connected, Pruned
<1>2. /\ Cardinality(tracked[u]) \in Nat /\ Cardinality(Connected(u)) \in Nat
      /\ Cardinality(Pruned(u)) \in Nat
      /\ Cardinality(Pruned(u)) <= Cardinality(Connected(u))
  BY <1>1, AddressesFinite, FS_Subset, FS_CardinalityType
<1>3. sweep.rows[u].limit \in Nat
  BY DEF AddressesTypeOK, SweepRecords
<1>4. CASE Connected(u) \subseteq tracked[u]
  <2>1. Connected(u) = Pruned(u)
    BY <1>1, <1>4 DEF Connected, Pruned
  <2> QED
    BY <2>1 DEF Over, Counted
<1>5. ASSUME NEW a \in Connected(u), a \notin tracked[u]
      PROVE  Cardinality(Pruned(u)) = MaxAddresses
  <2>1. /\ Cardinality(tracked[u]) = MaxAddresses
        /\ \A b \in tracked[u] : seen[u][a] <= seen[u][b]
    BY <1>5 DEF LatestTracked, Latest, Connected
  <2>2. \A b \in tracked[u] : seen[u][b] \in Nat
    BY <1>1 DEF AddressesTypeOK
  <2>3. seen[u][a] \in Nat /\ seen[u][a] + TTL >= clock
    BY <1>5 DEF AddressesTypeOK, Connected, Recent
  <2>4. \A b \in tracked[u] : Recent(u, b)
    BY <2>1, <2>2, <2>3, AddressAssumption DEF Recent, AddressesTypeOK
  <2>5. Pruned(u) = tracked[u]
    BY <2>4 DEF Pruned
  <2> QED
    BY <2>1, <2>5
<1> QED
  BY <1>2, <1>3, <1>4, <1>5, AddressAssumption DEF Over, Counted

\* Pruning loses nothing that is recent.
LEMMA PruneKeepsLatest ==
    ASSUME AddressesTypeOK, LatestTracked,
           NEW u \in Accounts, tracked'[u] = Pruned(u),
           seen' = seen, clock' = clock
    PROVE  Latest(u)'
<1>1. tracked[u] \in SUBSET Addresses /\ Pruned(u) \in SUBSET tracked[u]
  BY DEF AddressesTypeOK, Pruned
<1>2. /\ Cardinality(Pruned(u)) <= Cardinality(tracked[u])
      /\ Cardinality(Pruned(u)) \in Nat /\ Cardinality(tracked[u]) \in Nat
  BY <1>1, AddressesFinite, FS_Subset
<1>3. Cardinality(tracked'[u]) <= MaxAddresses
  BY <1>2, AddressAssumption DEF LatestTracked, Latest
<1>4. ASSUME NEW a \in Addresses, a \notin tracked'[u], Recent(u, a)
      PROVE  /\ Cardinality(tracked'[u]) = MaxAddresses
             /\ \A b \in tracked'[u] : seen[u][a] <= seen[u][b]
  <2>1. a \notin tracked[u]
    BY <1>4 DEF Pruned
  <2>2. /\ Cardinality(tracked[u]) = MaxAddresses
        /\ \A b \in tracked[u] : seen[u][a] <= seen[u][b]
    BY <2>1, <1>4 DEF LatestTracked, Latest
  <2>3. \A b \in tracked[u] : seen[u][b] \in Nat
    BY <1>1 DEF AddressesTypeOK
  <2>4. seen[u][a] \in Nat /\ seen[u][a] + TTL >= clock
    BY <1>4 DEF AddressesTypeOK, Recent
  <2>5. \A b \in tracked[u] : Recent(u, b)
    BY <2>2, <2>3, <2>4, AddressAssumption DEF Recent, AddressesTypeOK
  <2>6. Pruned(u) = tracked[u]
    BY <2>5 DEF Pruned
  <2> QED
    BY <2>2, <2>6
<1> QED
  BY <1>3, <1>4 DEF Latest, Recent

-----------------------------------------------------------------------------
(* The actions that change what is tracked *)

LEMMA ObserveKeeps ==
    ASSUME AddressInvariant, NEW u \in Accounts, NEW a \in Addresses, Observe(u, a)
    PROVE  AddressInvariant'
<1> USE DEF AddressInvariant
<1>1. /\ clock' = clock /\ allowance' = allowance /\ breaches' = breaches /\ sweep' = sweep
      /\ streak' = streak /\ saver' = saver /\ excused' = excused
      /\ seen' = [seen EXCEPT ![u][a] = clock]
  BY DEF Observe, counts
<1>2. /\ seen' \in [Accounts -> [Addresses -> Nat]]
      /\ seen'[u][a] = clock
      /\ \A b \in Addresses \ {a} : seen'[u][b] = seen[u][b]
      /\ \A v \in Accounts \ {u} : seen'[v] = seen[v]
  BY <1>1 DEF AddressesTypeOK
<1>3. tracked[u] \in SUBSET Addresses /\ Cardinality(tracked[u]) \in Nat
  BY AddressesFinite DEF AddressesTypeOK
<1>4. /\ tracked' \in [Accounts -> SUBSET Addresses]
      /\ \A v \in Accounts \ {u} : tracked'[v] = tracked[v]
  BY DEF Observe, AddressesTypeOK
<1>5. \A b \in Addresses : seen[u][b] \in Nat /\ seen'[u][b] \in Nat /\ seen[u][b] <= clock
  BY <1>2 DEF AddressesTypeOK, NoneAhead
<1>6. Latest(u)'
  <2>1. CASE a \in tracked[u] \/ Cardinality(tracked[u]) < MaxAddresses
    <3>1. tracked'[u] = tracked[u] \cup {a}
      BY <2>1, <1>3, AddressAssumption DEF Observe, AddressesTypeOK
    <3>2. Cardinality(tracked'[u]) <= MaxAddresses
      <4>1. Cardinality(tracked'[u]) = IF a \in tracked[u] THEN Cardinality(tracked[u])
                                       ELSE Cardinality(tracked[u]) + 1
        BY <3>1, <1>3, AddressesFinite, FS_AddElement
      <4> QED
        BY <4>1, <2>1, <1>3, AddressAssumption DEF LatestTracked, Latest
    <3>3. ASSUME NEW b \in Addresses \ tracked'[u], Recent(u, b)'
          PROVE  /\ Cardinality(tracked'[u]) = MaxAddresses
                 /\ \A c \in tracked'[u] : seen'[u][b] <= seen'[u][c]
      <4>1. b # a /\ b \notin tracked[u]
        BY <3>1, <3>3
      <4>2. Recent(u, b)
        BY <3>3, <4>1, <1>1, <1>2 DEF Recent
      <4>3. /\ Cardinality(tracked[u]) = MaxAddresses
            /\ \A c \in tracked[u] : seen[u][b] <= seen[u][c]
        BY <4>1, <4>2 DEF LatestTracked, Latest
      <4>4. a \in tracked[u] /\ tracked'[u] = tracked[u]
        BY <4>3, <2>1, <3>1, <1>3, AddressAssumption
      <4>5. \A c \in tracked[u] : seen'[u][b] <= seen'[u][c]
        BY <4>1, <4>3, <1>2, <1>3, <1>5, <3>3
      <4> QED
        BY <4>3, <4>4, <4>5
    <3> QED
      BY <3>2, <3>3 DEF Latest
  <2>2. CASE a \notin tracked[u] /\ Cardinality(tracked[u]) >= MaxAddresses
    <3>1. PICK o \in Oldest(u) : tracked'[u] = (tracked[u] \ {o}) \cup {a}
      BY <2>2, <1>3, AddressAssumption DEF Observe, AddressesTypeOK
    <3>2. o \in tracked[u] /\ \A b \in tracked[u] : seen[u][o] <= seen[u][b]
      BY <3>1 DEF Oldest
    <3>3. Cardinality(tracked[u]) = MaxAddresses
      BY <2>2, <1>3, AddressAssumption DEF LatestTracked, Latest
    <3>4. Cardinality(tracked'[u]) = MaxAddresses
      <4>1. /\ IsFiniteSet(tracked[u]) /\ IsFiniteSet(tracked[u] \ {o})
            /\ Cardinality(tracked[u] \ {o}) = Cardinality(tracked[u]) - 1
        BY <1>3, <3>2, AddressesFinite, FS_RemoveElement
      <4>2. Cardinality(tracked'[u]) = Cardinality(tracked[u] \ {o}) + 1
        BY <4>1, <3>1, <2>2, FS_AddElement
      <4> QED
        BY <4>1, <4>2, <3>3, <1>3
    <3>5. ASSUME NEW b \in Addresses \ tracked'[u], Recent(u, b)'
          PROVE  \A c \in tracked'[u] : seen'[u][b] <= seen'[u][c]
      <4>1. b # a /\ seen'[u][b] = seen[u][b]
        BY <3>1, <3>5, <1>2
      <4>2. Recent(u, b)
        BY <3>5, <4>1, <1>1 DEF Recent
      <4>3. \A c \in tracked[u] : seen[u][b] <= seen[u][c]
        <5>1. CASE b = o
          BY <5>1, <3>2
        <5>2. CASE b # o
          BY <5>2, <3>1, <3>5, <4>2 DEF LatestTracked, Latest
        <5> QED
          BY <5>1, <5>2
      <4>4. \A c \in tracked[u] : c # a /\ seen'[u][c] = seen[u][c]
        BY <2>2, <1>2, <1>3
      <4> QED
        BY <3>1, <4>1, <4>3, <4>4, <1>2, <1>5, <3>5
    <3> QED
      BY <3>4, <3>5, AddressAssumption DEF Latest
  <2> QED
    BY <2>1, <2>2, <1>3, AddressAssumption
<1>7. LatestTracked'
  BY <1>1, <1>2, <1>4, <1>6 DEF LatestTracked, Latest, Recent
<1>8. NoneAhead'
  BY <1>1, <1>2, <1>5 DEF NoneAhead, AddressesTypeOK
<1>9. AddressesTypeOK'
  BY <1>1, <1>2, <1>4 DEF AddressesTypeOK
<1> QED
  BY <1>1, <1>7, <1>8, <1>9 DEF BreachesSound, SweepSound, LimitEnforced

LEMMA SnapshotKeeps ==
    ASSUME AddressInvariant, Snapshot
    PROVE  AddressInvariant'
<1> USE DEF AddressInvariant
<1>1. /\ clock' = clock /\ seen' = seen /\ allowance' = allowance /\ breaches' = breaches
      /\ sweep' = sweep /\ streak' = streak /\ saver' = saver /\ excused' = excused
      /\ \A u \in Accounts : tracked'[u] = Pruned(u)
  BY DEF Snapshot, counts
<1>2. LatestTracked'
  BY <1>1, PruneKeepsLatest DEF LatestTracked
<1>3. tracked' \in [Accounts -> SUBSET Addresses]
  BY DEF Snapshot, Pruned, AddressesTypeOK
<1> QED
  BY <1>1, <1>2, <1>3 DEF AddressesTypeOK, NoneAhead, BreachesSound, SweepSound, LimitEnforced

LEMMA ForgetKeeps ==
    ASSUME AddressInvariant, NEW u \in Accounts, Forget(u)
    PROVE  AddressInvariant'
<1> USE DEF AddressInvariant
<1>1. /\ clock' = clock /\ allowance' = allowance /\ breaches' = breaches
      /\ sweep' = sweep /\ streak' = streak /\ saver' = saver /\ excused' = excused
      /\ tracked' = [tracked EXCEPT ![u] = {}]
      /\ seen' = [seen EXCEPT ![u] = [a \in Addresses |-> 0]]
  BY DEF Forget, counts
<1>2. /\ AddressesTypeOK' /\ NoneAhead'
  BY <1>1, AddressAssumption DEF AddressesTypeOK, NoneAhead
<1>3. Latest(u)'
  BY <1>1, FS_EmptySet, AddressAssumption DEF Latest, Recent, AddressesTypeOK
<1>4. LatestTracked'
  BY <1>1, <1>3 DEF LatestTracked, Latest, Recent, AddressesTypeOK
<1> QED
  BY <1>1, <1>2, <1>4 DEF BreachesSound, SweepSound, LimitEnforced

LEMMA TickKeeps ==
    ASSUME AddressInvariant, Tick
    PROVE  AddressInvariant'
<1> USE DEF AddressInvariant
<1>1. /\ clock' = clock + 1 /\ seen' = seen /\ tracked' = tracked /\ allowance' = allowance
      /\ breaches' = breaches /\ sweep' = sweep /\ streak' = streak /\ saver' = saver
      /\ excused' = excused
  BY DEF Tick, counts
<1>2. \A u \in Accounts, a \in Addresses : Recent(u, a)' => Recent(u, a)
  BY <1>1, AddressAssumption DEF Recent, AddressesTypeOK
<1>3. LatestTracked'
  BY <1>1, <1>2 DEF LatestTracked, Latest
<1> QED
  BY <1>1, <1>3, AddressAssumption
     DEF AddressesTypeOK, NoneAhead, BreachesSound, SweepSound, LimitEnforced

LEMMA PanelRestartsKeeps ==
    ASSUME AddressInvariant, PanelRestarts
    PROVE  AddressInvariant'
<1> USE DEF AddressInvariant
<1>1. /\ clock' = clock /\ allowance' = allowance /\ excused' = excused
      /\ \A u \in Accounts : tracked'[u] = {} /\ breaches'[u] = 0
      /\ \A u \in Accounts, a \in Addresses : seen'[u][a] = 0
      /\ \A u \in Accounts : streak'[u] = IF allowance[u].until = 0 THEN 0 ELSE streak[u]
      /\ sweep' = NoSweep
  BY DEF PanelRestarts
<1>2. AddressesTypeOK'
  BY <1>1 DEF PanelRestarts, AddressesTypeOK, SweepRecords, NoSweep
<1>3. NoneAhead'
  BY <1>1 DEF NoneAhead, AddressesTypeOK
<1>6. \A u \in Accounts, a \in Addresses : ~Recent(u, a)'
  BY <1>1, AddressAssumption DEF Recent, AddressesTypeOK
<1>7. LatestTracked'
  <2>1. ASSUME NEW u \in Accounts PROVE Latest(u)'
    <3>1. tracked'[u] = {} /\ Cardinality(tracked'[u]) = 0
      BY <1>1, FS_EmptySet
    <3> QED
      BY <1>6, <3>1, AddressAssumption DEF Latest
  <2> QED
    BY <2>1 DEF LatestTracked
<1>4. BreachesSound' /\ SweepSound'
  BY <1>1 DEF BreachesSound, SweepSound, NoSweep
<1>5. LimitEnforced'
  BY <1>1 DEF LimitEnforced
<1> QED
  BY <1>2, <1>3, <1>7, <1>4, <1>5

-----------------------------------------------------------------------------
(* The sweep, account by account *)

\* The tracker's part of a step that leaves it alone, or prunes it.
LEMMA TrackerKeeps ==
    ASSUME AddressInvariant, NEW u \in Accounts, clock' = clock, seen' = seen,
           \/ tracked' = tracked
           \/ tracked' = [tracked EXCEPT ![u] = Pruned(u)]
    PROVE  NoneAhead' /\ LatestTracked' /\ tracked' \in [Accounts -> SUBSET Addresses]
<1> USE DEF AddressInvariant
<1>1. NoneAhead'
  BY DEF NoneAhead
<1>2. tracked' \in [Accounts -> SUBSET Addresses]
  BY DEF AddressesTypeOK, Pruned
<1>3. CASE tracked' = tracked
  <2>1. ASSUME NEW v \in Accounts PROVE Latest(v)'
    BY <1>3, <2>1 DEF LatestTracked, Latest, Recent
  <2> QED
    BY <1>1, <1>2, <2>1 DEF LatestTracked
<1>4. CASE tracked' = [tracked EXCEPT ![u] = Pruned(u)]
  <2>1. tracked'[u] = Pruned(u) /\ \A v \in Accounts \ {u} : tracked'[v] = tracked[v]
    BY <1>4 DEF AddressesTypeOK
  <2>2. Latest(u)'
    BY <2>1, PruneKeepsLatest
  <2>3. ASSUME NEW v \in Accounts \ {u} PROVE Latest(v)'
    BY <2>1, <2>3 DEF LatestTracked, Latest, Recent
  <2> QED
    BY <1>1, <1>2, <2>2, <2>3 DEF LatestTracked
<1> QED
  BY <1>3, <1>4

\* What a visit does to the account visited, said of its own row alone.
VisitSound(u) ==
    /\ allowance'[u] \in UserRows /\ \A v \in Accounts \ {u} : allowance'[v] = allowance[v]
    /\ breaches'[u] \in Nat /\ \A v \in Accounts \ {u} : breaches'[v] = breaches[v]
    /\ streak'[u] \in {0, 1, 2} /\ \A v \in Accounts \ {u} : streak'[v] = streak[v]
    /\ excused' \subseteq Accounts /\ \A v \in Accounts \ {u} : v \in excused' <=> v \in excused
    /\ breaches'[u] # 0 => streak'[u] # 0
    /\ u \notin excused' => /\ allowance'[u].until = 0 /\ streak'[u] # 0 => breaches'[u] # 0
                            /\ allowance'[u].until # 0 <=> streak'[u] = 2
    /\ allowance' \in [Accounts -> UserRows]
    /\ breaches' \in [Accounts -> Nat] /\ streak' \in [Accounts -> {0, 1, 2}]

\* The facts of the account visited that the cases below start from.
LEMMA Visited ==
    ASSUME AddressInvariant, NEW u \in sweep.todo
    PROVE  /\ u \in Accounts
           /\ allowance \in [Accounts -> UserRows] /\ allowance[u] \in UserRows
           /\ breaches \in [Accounts -> Nat] /\ streak \in [Accounts -> {0, 1, 2}]
           /\ excused \subseteq Accounts
           /\ sweep.rows[u].limit \in Nat /\ sweep.rows[u].until \in Nat
           /\ sweep.now \in Nat /\ sweep.now > 0
           /\ breaches[u] # 0 => streak[u] # 0
           /\ u \notin excused => /\ allowance[u].until = 0 /\ streak[u] # 0 => breaches[u] # 0
                                  /\ allowance[u].until # 0 <=> streak[u] = 2
                                  /\ sweep.rows[u].until = allowance[u].until
<1>1. sweep \in SweepRecords /\ u \in Accounts
  BY DEF AddressInvariant, AddressesTypeOK, SweepRecords
<1> QED
  BY <1>1 DEF AddressInvariant, AddressesTypeOK, SweepRecords, BreachesSound, SweepSound, LimitEnforced

\* A hold or a release that is written, and one that is not.
LEMMA UntilWritten ==
    ASSUME allowance \in [Accounts -> UserRows], NEW u \in Accounts, NEW t \in Nat, WriteUntil(u, t)
    PROVE  /\ allowance' \in [Accounts -> UserRows] /\ allowance'[u] \in UserRows
           /\ allowance'[u].until = t /\ \A v \in Accounts \ {u} : allowance'[v] = allowance[v]
           /\ excused' = excused \ {u}
<1>1. allowance' = [allowance EXCEPT ![u] = [allowance[u] EXCEPT !.until = t]]
  BY DEF WriteUntil
<1>2. allowance[u] \in UserRows
  OBVIOUS
<1>3. [allowance[u] EXCEPT !.until = t] \in UserRows /\ [allowance[u] EXCEPT !.until = t].until = t
  BY <1>2 DEF UserRows
<1> QED
  BY <1>1, <1>3 DEF WriteUntil

LEMMA LapseSound ==
    ASSUME AddressInvariant, NEW u \in sweep.todo, Lapse(u)
    PROVE  VisitSound(u)
<1>1. CASE WriteUntil(u, 0) /\ Clear(u)
  BY <1>1, Visited, UntilWritten DEF Clear, VisitSound
<1>2. CASE UntilUnwritten(u) /\ UNCHANGED <<breaches, streak>>
  BY <1>2, Visited DEF UntilUnwritten, VisitSound
<1> QED
  BY <1>1, <1>2 DEF Lapse

LEMMA UnlimitedSound ==
    ASSUME AddressInvariant, NEW u \in sweep.todo, Unlimited(u)
    PROVE  VisitSound(u)
<1>1. CASE sweep.rows[u].until # 0 /\ WriteUntil(u, 0)
  BY <1>1, Visited, UntilWritten DEF Unlimited, Clear, VisitSound
<1>2. CASE sweep.rows[u].until # 0 /\ UntilUnwritten(u)
  BY <1>2, Visited DEF Unlimited, Clear, UntilUnwritten, VisitSound
<1>3. CASE sweep.rows[u].until = 0 /\ UNCHANGED <<allowance, slips, excused>>
  BY <1>3, Visited DEF Unlimited, Clear, VisitSound
<1> QED
  BY <1>1, <1>2, <1>3 DEF Unlimited

LEMMA StillHeldSound ==
    ASSUME AddressInvariant, NEW u \in sweep.todo, StillHeld(u)
    PROVE  VisitSound(u)
BY Visited DEF StillHeld, VisitSound

LEMMA WithinSound ==
    ASSUME AddressInvariant, NEW u \in sweep.todo, Within(u)
    PROVE  VisitSound(u)
<1>1. Over(u) => sweep.rows[u].limit >= MaxAddresses
  BY Visited, CountAgrees, AddressAssumption DEF AddressInvariant, Within
<1>2. CASE Over(u)
  BY <1>1, <1>2, Visited DEF Within, Measured, Forgive, VisitSound
<1>3. CASE ~Over(u)
  BY <1>3, Visited DEF Within, Measured, Forgive, VisitSound
<1> QED
  BY <1>2, <1>3

LEMMA BreachSound ==
    ASSUME AddressInvariant, NEW u \in sweep.todo, Breach(u)
    PROVE  VisitSound(u)
<1>1. Over(u)
  BY Visited, CountAgrees DEF AddressInvariant, Breach
<1>2. /\ streak' = [streak EXCEPT ![u] = IF @ = 0 THEN 1 ELSE 2]
      /\ sweep.rows[u].until = 0
  BY <1>1 DEF Breach, Measured
<1>3. CASE breaches[u] = 0 /\ breaches' = [breaches EXCEPT ![u] = 1] /\ UNCHANGED <<allowance, slips, excused>>
  BY <1>2, <1>3, Visited DEF VisitSound
<1>4. CASE /\ breaches[u] > 0 /\ breaches' = [breaches EXCEPT ![u] = 0]
           /\ WriteUntil(u, sweep.now + Cooldown)
  <2>1. sweep.now + Cooldown \in Nat /\ sweep.now + Cooldown # 0
    BY Visited, AddressAssumption
  <2> QED
    BY <1>2, <1>4, <2>1, Visited, UntilWritten DEF VisitSound
<1>5. CASE breaches[u] > 0 /\ breaches' = [breaches EXCEPT ![u] = @ + 1] /\ UntilUnwritten(u)
  BY <1>2, <1>5, Visited DEF UntilUnwritten, VisitSound
<1> QED
  BY <1>3, <1>4, <1>5 DEF Breach

LEMMA VisitKeeps ==
    ASSUME AddressInvariant, NEW u \in Accounts, Visit(u)
    PROVE  AddressInvariant'
<1>1. u \in sweep.todo /\ Done(u) /\ clock' = clock /\ seen' = seen /\ saver' = saver
  BY DEF Visit
<1>2. VisitSound(u)
  BY <1>1, LapseSound, UnlimitedSound, StillHeldSound, WithinSound, BreachSound DEF Visit
<1>3. tracked' = tracked \/ tracked' = [tracked EXCEPT ![u] = Pruned(u)]
  BY DEF Visit, Lapse, Unlimited, StillHeld, Within, Breach, Measured
<1>4. NoneAhead' /\ LatestTracked' /\ tracked' \in [Accounts -> SUBSET Addresses]
  BY <1>1, <1>3, TrackerKeeps
<1>5. /\ sweep' \in SweepRecords
      /\ sweep'.todo \subseteq sweep.todo \ {u}
      /\ sweep'.todo # {} => sweep'.now = sweep.now /\ sweep'.rows = sweep.rows
  <2>1. sweep \in SweepRecords
    BY DEF AddressInvariant, AddressesTypeOK
  <2>2. NoSweep \in SweepRecords /\ NoSweep.todo = {}
    BY DEF NoSweep, SweepRecords
  <2>3. CASE sweep.todo = {u}
    BY <1>1, <2>2, <2>3 DEF Done
  <2>4. CASE sweep.todo # {u}
    BY <1>1, <2>1, <2>4 DEF Done, SweepRecords
  <2> QED
    BY <2>3, <2>4
<1>6. AddressesTypeOK'
  BY <1>1, <1>2, <1>4, <1>5 DEF AddressInvariant, AddressesTypeOK, VisitSound
<1>7. BreachesSound'
  BY <1>2 DEF AddressInvariant, BreachesSound, VisitSound
<1>8. SweepSound'
  <2>1. sweep'.todo \subseteq Accounts \ {u}
    BY <1>5 DEF AddressInvariant, AddressesTypeOK, SweepRecords
  <2> QED
    BY <1>2, <1>5, <2>1 DEF AddressInvariant, SweepSound, VisitSound
<1>9. LimitEnforced'
  BY <1>2 DEF AddressInvariant, LimitEnforced, VisitSound
<1> QED
  BY <1>4, <1>6, <1>7, <1>8, <1>9 DEF AddressInvariant

LEMMA ListKeeps ==
    ASSUME AddressInvariant, List
    PROVE  AddressInvariant'
<1> USE DEF AddressInvariant
<1>1. /\ clock' = clock /\ seen' = seen /\ tracked' = tracked /\ allowance' = allowance
      /\ breaches' = breaches /\ streak' = streak /\ saver' = saver /\ excused' = excused
      /\ sweep' = [now |-> clock, todo |-> Accounts, rows |-> allowance]
  BY DEF List, presence
<1>2. allowance \in [Accounts -> [limit : Nat, until : Nat]]
  <2>1. UserRows \subseteq [limit : Nat, until : Nat]
    BY AddressAssumption DEF UserRows
  <2> QED
    BY <2>1 DEF AddressesTypeOK
<1>3. AddressesTypeOK'
  BY <1>1, <1>2 DEF AddressesTypeOK, SweepRecords
<1>4. SweepSound'
  BY <1>1, AddressAssumption DEF SweepSound, AddressesTypeOK
<1> QED
  BY <1>1, <1>3, <1>4 DEF NoneAhead, LatestTracked, Latest, Recent, BreachesSound, LimitEnforced

-----------------------------------------------------------------------------
(* The other writers *)

LEMMA SetLimitKeeps ==
    ASSUME AddressInvariant, NEW u \in Accounts, NEW l \in Limits, SetLimit(u, l)
    PROVE  AddressInvariant'
<1> USE DEF AddressInvariant
<1>1. /\ clock' = clock /\ seen' = seen /\ tracked' = tracked /\ sweep' = sweep
      /\ breaches' = breaches /\ streak' = streak /\ saver' = saver /\ excused' = excused
      /\ allowance' = [allowance EXCEPT ![u] = [allowance[u] EXCEPT !.limit = l]]
  BY DEF SetLimit, presence, counts
<1>2. allowance[u] \in UserRows
  BY DEF AddressesTypeOK
<1>3. /\ [allowance[u] EXCEPT !.limit = l] \in UserRows
      /\ [allowance[u] EXCEPT !.limit = l].until = allowance[u].until
  BY <1>2 DEF UserRows
<1>4. allowance' \in [Accounts -> UserRows] /\ \A v \in Accounts : allowance'[v].until = allowance[v].until
  BY <1>1, <1>3 DEF AddressesTypeOK
<1>5. AddressesTypeOK' /\ BreachesSound' /\ LimitEnforced'
  BY <1>1, <1>4 DEF AddressesTypeOK, BreachesSound, LimitEnforced
<1>6. SweepSound'
  BY <1>1, <1>4 DEF AddressesTypeOK, SweepRecords, SweepSound
<1> QED
  BY <1>1, <1>5, <1>6 DEF NoneAhead, LatestTracked, Latest, Recent

LEMMA ReadRowKeeps ==
    ASSUME AddressInvariant, NEW h \in Savers, NEW u \in Accounts, ReadRow(h, u)
    PROVE  AddressInvariant'
<1> USE DEF AddressInvariant
<1>1. /\ clock' = clock /\ seen' = seen /\ tracked' = tracked /\ sweep' = sweep /\ allowance' = allowance
      /\ breaches' = breaches /\ streak' = streak /\ excused' = excused
      /\ saver' = [saver EXCEPT ![h] = {<<u, allowance[u]>>}]
  BY DEF ReadRow, presence, counts
<1>2. AddressesTypeOK'
  BY <1>1 DEF AddressesTypeOK
<1> QED
  BY <1>1, <1>2 DEF NoneAhead, LatestTracked, Latest, Recent, BreachesSound, SweepSound, LimitEnforced

LEMMA SaveRowKeeps ==
    ASSUME AddressInvariant, NEW h \in Savers, SaveRow(h)
    PROVE  AddressInvariant'
<1> USE DEF AddressInvariant
<1>1. /\ clock' = clock /\ seen' = seen /\ tracked' = tracked /\ sweep' = sweep
      /\ breaches' = breaches /\ streak' = streak /\ saver' = [saver EXCEPT ![h] = {}]
  BY DEF SaveRow, presence, counts
<1>2. PICK r \in saver[h] :
        /\ allowance' = [allowance EXCEPT ![r[1]] = r[2]]
        /\ excused' = IF allowance[r[1]].until = r[2].until THEN excused ELSE excused \cup {r[1]}
  BY DEF SaveRow
<1>3. r[1] \in Accounts /\ r[2] \in UserRows
  BY DEF AddressesTypeOK
<1>4. /\ allowance' \in [Accounts -> UserRows] /\ excused' \subseteq Accounts /\ excused \subseteq excused'
      /\ \A v \in Accounts \ excused' : allowance'[v].until = allowance[v].until
  BY <1>2, <1>3 DEF AddressesTypeOK
<1>5. AddressesTypeOK'
  BY <1>1, <1>4 DEF AddressesTypeOK
<1>6. BreachesSound' /\ LimitEnforced'
  BY <1>1, <1>4 DEF BreachesSound, LimitEnforced
<1>7. SweepSound'
  <2>1. sweep.todo \subseteq Accounts
    BY DEF AddressesTypeOK, SweepRecords
  <2> QED
    BY <1>1, <1>4, <2>1 DEF SweepSound
<1> QED
  BY <1>1, <1>5, <1>6, <1>7 DEF NoneAhead, LatestTracked, Latest, Recent

-----------------------------------------------------------------------------
(* The theorems *)

LEMMA AddressesStart ==
    ASSUME AddressesInit
    PROVE  AddressInvariant
<1> USE DEF AddressesInit
<1>1. allowance \in [Accounts -> UserRows] /\ \A u \in Accounts : allowance[u].until = 0
  BY DEF UserRows
<1>2. AddressesTypeOK
  BY <1>1, AddressAssumption DEF AddressesTypeOK, SweepRecords, NoSweep
<1>3. \A u \in Accounts, a \in Addresses : ~Recent(u, a)
  BY AddressAssumption DEF Recent
<1>4. LatestTracked
  BY <1>3, FS_EmptySet, AddressAssumption DEF LatestTracked, Latest
<1>5. NoneAhead
  BY AddressAssumption DEF NoneAhead
<1> QED
  BY <1>1, <1>2, <1>4, <1>5 DEF AddressInvariant, BreachesSound, SweepSound, LimitEnforced, NoSweep

LEMMA AddressesStep ==
    ASSUME AddressInvariant, [AddressesNext]_addresses
    PROVE  AddressInvariant'
<1>1. CASE AddressesNext
  BY <1>1, ObserveKeeps, SetLimitKeeps, ReadRowKeeps, ForgetKeeps, VisitKeeps, SaveRowKeeps,
     SnapshotKeeps, TickKeeps, ListKeeps, PanelRestartsKeeps DEF AddressesNext
<1>2. CASE UNCHANGED addresses
  BY <1>2 DEF addresses, presence, counts, AddressInvariant, AddressesTypeOK, NoneAhead,
     LatestTracked, Latest, Recent, BreachesSound, SweepSound, LimitEnforced
<1> QED
  BY <1>1, <1>2

\* The types of the tracker, the sweep and the rows.
THEOREM AddressesTypeCorrect == AddressesSpec => []AddressesTypeOK
<1>1. AddressInvariant => AddressesTypeOK
  BY DEF AddressInvariant
<1> QED
  BY <1>1, AddressesStart, AddressesStep, PTL DEF AddressesSpec

\* An account is held exactly when two sweeps in a row found more addresses
\* connected than its limit (iplimit.go with tracker.go), but for writes that
\* failed or were overwritten and limits beyond the cap.
THEOREM LimitAlwaysEnforced == AddressesSpec => []LimitEnforced
<1>1. AddressInvariant => LimitEnforced
  BY DEF AddressInvariant
<1> QED
  BY <1>1, AddressesStart, AddressesStep, PTL DEF AddressesSpec

=============================================================================
