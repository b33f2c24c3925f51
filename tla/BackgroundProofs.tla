-------------------------- MODULE BackgroundProofs --------------------------
(***************************************************************************)
(* Two things that run in the background of the panel.                     *)
(*                                                                         *)
(* The ForgeDNS upstream, for any callers of Sync, versions of a zone's    *)
(* settings and bounds: the goroutine that may run a binary is the zone's  *)
(* current one, so two binaries of a zone never run at once, those apart   *)
(* that outlived the SIGKILL of their stop.                                *)
(*                                                                         *)
(* The webhooks, for any reporters, conditions, endpoints and ladder: the  *)
(* queue keeps its bounds, its worker is never left asleep on a delivery,  *)
(* and an endpoint has one delivery of an event at most.                   *)
(***************************************************************************)
EXTENDS ForgeUpstream, Webhooks, SequenceTheorems, FiniteSetTheorems,
        WellFoundedInduction, TLAPS

-----------------------------------------------------------------------------
(* The upstream *)

\* What can be in the zone's directory once something was installed: the
\* configuration of one version, and the key of one, or half of either.
Files == [cfg : {v.cfg : v \in Versions} \cup {Torn},
          key : {v.key : v \in Versions} \cup {Torn, "absent"}]

SupStates == {"none", "launch", "wait", "backoff", "ended"}

\* A call that holds the lock.
Holding == {"remove", "compare", "stop", "port", "settle", "undo", "rollback"}

CallerStates ==
    {Idle} \cup [pc : {"resolved"}, want : Versions \cup {Absent}]
           \cup [pc : {"remove"}]
           \cup [pc : Holding \ {"remove"}, want : Versions,
                 prev : Files \cup {Absent}, old : Procs \cup {None}]

UpTypes ==
    /\ zone \in Files \cup {Absent}
    /\ cur \in Procs \cup {None}
    /\ stuck \subseteq Procs
    /\ server \in [Procs -> SupStates]
    /\ syncer \in [Syncers -> CallerStates]
    /\ child \in [Procs -> Files \cup {Absent}]
    /\ \A i \in Procs : child[i] # Absent => server[i] = "wait"
    /\ \A c \in Syncers : syncer[c].pc \in Holding \ {"remove"} => zone \in Files

\* A goroutine that may start a binary, or has one running.
Busy(i) == server[i] \notin {"none", "ended"}

\* Waiting for the current proc, which there is, to settle or to stop.
Waiting == {"remove", "stop", "settle", "undo"}

\* One call at a time holds the lock, nothing is current when a port is awaited or
\* a roll-back begins, something is while it is waited for, and a busy goroutine that no stop gave up on is the current
\* proc's.
Owned ==
    /\ \A c, d \in Syncers : syncer[c].pc \in Holding /\ syncer[d].pc \in Holding => c = d
    /\ \A c \in Syncers : syncer[c].pc \in {"port", "rollback"} => cur = None
    /\ \A c \in Syncers : syncer[c].pc \in Waiting => cur # None
    /\ \A i \in Procs : Busy(i) => i = cur \/ i \in stuck

UpInv == UpTypes /\ Owned

\* A version is a record of the two, and no version is the absent one.
LEMMA VersionFiles ==
    ASSUME NEW v \in Versions
    PROVE  v \in Files
BY UpstreamAssumption DEF Files

LEMMA FilesUpdated ==
    ASSUME NEW f \in Files, NEW g \in Files
    PROVE  /\ [f EXCEPT !.cfg = g.cfg] \in Files /\ [f EXCEPT !.cfg = Torn] \in Files
           /\ [f EXCEPT !.cfg = f.cfg] \in Files
BY DEF Files

\* What a failed Apply leaves is a directory's contents.
LEMMA UnfinishedFiles ==
    ASSUME NEW v \in Versions, zone \in Files \cup {Absent}, NEW f \in Unfinished(v)
    PROVE  f \in Files \cup {Absent}
<1>1. v.cfg \in {w.cfg : w \in Versions}
  OBVIOUS
<1> DEFINE key == IF zone = Absent THEN "absent" ELSE zone.key
<1>2. key \in {w.key : w \in Versions} \cup {Torn, "absent"}
  BY DEF Files
<1>3. f \in {zone, [cfg |-> Torn, key |-> key], [cfg |-> v.cfg, key |-> key], [cfg |-> v.cfg, key |-> Torn]}
  BY DEF Unfinished
<1> HIDE DEF key, Torn, Absent
<1>4. \/ f = zone \/ f = [cfg |-> Torn, key |-> key]
      \/ f = [cfg |-> v.cfg, key |-> key] \/ f = [cfg |-> v.cfg, key |-> Torn]
  BY <1>3
<1> QED
  BY <1>1, <1>2, <1>4 DEF Files

LEMMA UpInit == UpstreamInit => UpInv
BY DEF UpstreamInit, UpInv, UpTypes, Owned, Busy, SupStates, CallerStates, Idle, Holding, Waiting, None

\* Where a caller goes, the others stay.
LEMMA CallerGoes ==
    ASSUME syncer \in [Syncers -> CallerStates], NEW c \in Syncers, NEW state \in CallerStates,
           To(c, state)
    PROVE  /\ syncer' \in [Syncers -> CallerStates] /\ syncer'[c] = state
           /\ \A d \in Syncers : d # c => syncer'[d] = syncer[d]
BY DEF To

\* What a call that compared its version has in hand, and where it can go with it.
LEMMA CallFields ==
    ASSUME UpTypes, NEW c \in Syncers,
           syncer[c].pc \in Holding \ {"remove"}
    PROVE  /\ syncer[c].want \in Versions /\ syncer[c].prev \in Files \cup {Absent}
           /\ syncer[c].old \in Procs \cup {None}
           /\ \A pc \in {"stop", "port", "settle", "undo", "rollback"} :
                 /\ [syncer[c] EXCEPT !.pc = pc] \in CallerStates
                 /\ [syncer[c] EXCEPT !.pc = pc].pc = pc
<1>1. syncer[c] \in CallerStates
  BY DEF UpTypes
<1>2. syncer[c] \in [pc : Holding \ {"remove"}, want : Versions,
                     prev : Files \cup {Absent}, old : Procs \cup {None}]
  BY <1>1 DEF CallerStates, Idle, Holding
<1> HIDE DEF Files, Absent
<1> QED
  BY <1>2 DEF CallerStates, Holding

\* The supervising goroutines.
LEMMA SupervisorsKeep ==
    ASSUME UpInv, NEW i \in Procs, Serve(i) \/ Crash(i)
    PROVE  UpInv'
<1> USE DEF UpInv
<1>1. UNCHANGED <<zone, cur, syncer, stuck>> /\ Busy(i)
  BY DEF Serve, Launch, Exit, Backoff, Crash, Ended, Busy
<1>2. /\ server' \in [Procs -> SupStates]
      /\ \A j \in Procs : j # i => server'[j] = server[j]
  BY DEF Serve, Launch, Exit, Backoff, Crash, Ended, UpTypes, SupStates
<1>3. /\ child' \in [Procs -> Files \cup {Absent}]
      /\ \A j \in Procs : child'[j] # Absent => server'[j] = "wait"
  <2> HIDE DEF Files, Absent
  <2>1. CASE Launch(i)
    BY <2>1 DEF Launch, UpTypes, SupStates
  <2>2. CASE Exit(i) \/ Crash(i)
    BY <2>2 DEF Exit, Crash, Ended, UpTypes, SupStates
  <2>3. CASE Backoff(i)
    BY <2>3 DEF Backoff, UpTypes, SupStates
  <2> QED
    BY <2>1, <2>2, <2>3 DEF Serve
<1> QED
  BY <1>1, <1>2, <1>3 DEF UpTypes, Owned, Busy

\* Starting a proc when none is busy makes the new one the only one.
LEMMA StartKeeps ==
    ASSUME UpInv, NEW sig, Start(sig), \A i \in Procs : Busy(i) => i \in stuck
    PROVE  /\ cur' \in Procs /\ server' \in [Procs -> SupStates] /\ child' = child
           /\ \A i \in Procs : Busy(i)' => i = cur' \/ i \in stuck
           /\ \A i \in Procs : child[i] # Absent => server'[i] = "wait"
<1>1. PICK i \in Procs : /\ cur' = i /\ server' = [server EXCEPT ![i] = "launch"] /\ child' = child
                          /\ server[i] = "none"
  BY DEF Start, Fresh, Started
<1> HIDE DEF Absent
<1>2. /\ server' \in [Procs -> SupStates]
      /\ \A j \in Procs : j # i => server'[j] = server[j]
  BY <1>1 DEF UpInv, UpTypes, SupStates
<1> QED
  BY <1>1, <1>2 DEF UpInv, UpTypes, Busy

\* A call that holds the lock, or takes it, and starts nothing.
LEMMA HolderKeeps ==
    ASSUME UpInv, NEW c \in Syncers, NEW state \in CallerStates, To(c, state), UNCHANGED <<server, child>>,
           syncer[c].pc \in Holding \/ Free,
           zone' \in Files \cup {Absent}, stuck \subseteq stuck', stuck' \subseteq Procs,
           state.pc \in Holding \ {"remove"} => zone' \in Files,
           \/ cur' = cur
           \/ cur' = None /\ \A i \in Procs : Busy(i) => i \in stuck',
           state.pc \in {"port", "rollback"} => cur' = None,
           state.pc \in Waiting => cur' # None
    PROVE  UpInv'
<1> USE DEF UpInv
<1>1. /\ syncer' \in [Syncers -> CallerStates] /\ syncer'[c] = state
      /\ \A d \in Syncers : d # c => syncer'[d] = syncer[d]
  BY CallerGoes DEF UpTypes
<1>2. \A d \in Syncers : d # c => syncer[d].pc \notin Holding
  BY DEF Owned, Free, Holding
<1>3. UpTypes'
  BY <1>1, <1>2 DEF UpTypes
<1>4. Owned'
  BY <1>1, <1>2 DEF Owned, Busy, Holding, Waiting
<1> QED
  BY <1>3, <1>4

\* The calls that start nothing.
LEMMA QuietCallsKeep ==
    ASSUME UpInv, NEW c \in Syncers,
           \/ Apply(c) \/ Withdrawn(c) \/ Compare(c) \/ Stopped(c) \/ Settle(c) \/ Undo(c)
           \/ UNCHANGED procs /\ (Port(c) \/ Rollback(c))
           \/ \E v \in Versions \cup {Absent} : Resolve(c, v)
    PROVE  UpInv'
<1> USE DEF UpInv
<1>0. UNCHANGED <<server, child>> /\ syncer[c] \in CallerStates /\ Idle \in CallerStates
      /\ zone \in Files \cup {Absent} /\ Idle.pc = "idle"
  BY DEF Apply, Withdrawn, Compare, Stopped, Settle, Undo, Port, Rollback, Resolve, procs, UpTypes, CallerStates, Idle
<1>1. ASSUME StopReturns, cur \in Procs
      PROVE  /\ \A i \in Procs : Busy(i) => i \in stuck'
             /\ stuck \subseteq stuck' /\ stuck' \subseteq Procs
  <2>1. CASE Gone(cur) /\ UNCHANGED stuck
    BY <2>1 DEF Gone, Busy, Owned, UpTypes
  <2>2. CASE stuck' = stuck \cup {cur}
    BY <1>1, <2>2 DEF Owned, UpTypes
  <2> QED
    BY <1>1, <2>1, <2>2 DEF StopReturns
<1>2. ASSUME NEW v \in Versions \cup {Absent}, Resolve(c, v) PROVE UpInv'
  <2>1. [pc |-> "resolved", want |-> v] \in CallerStates
    BY DEF CallerStates
  <2>2. /\ syncer' \in [Syncers -> CallerStates] /\ syncer'[c].pc = "resolved"
        /\ \A d \in Syncers : d # c => syncer'[d] = syncer[d]
    BY <1>2, <2>1, CallerGoes DEF UpTypes, Resolve
  <2> QED
    BY <1>2, <2>2 DEF Resolve, procs, UpTypes, Owned, Holding, Waiting, Busy
<1>3. CASE Apply(c)
  <2> DEFINE v == syncer[c].want
  <2>1. v \in Versions \cup {Absent}
    BY <1>0, <1>3 DEF Apply, CallerStates, Idle
  <2>2. Free /\ UNCHANGED <<cur, server, child, stuck>> /\ stuck \subseteq Procs
    BY <1>3 DEF Apply, UpTypes
  <2>3. CASE To(c, Idle) /\ zone' = zone
    BY <1>0, <2>2, <2>3, HolderKeeps DEF Holding, Waiting
  <2>4. CASE cur # None /\ To(c, [pc |-> "remove"]) /\ zone' = zone
    <3>1. [pc |-> "remove"] \in CallerStates
      BY DEF CallerStates
    <3> QED
      BY <1>0, <2>2, <2>4, <3>1, HolderKeeps DEF Waiting
  <2>5. CASE v # Absent /\ zone' = v /\ To(c, [pc |-> "compare", want |-> v, prev |-> zone, old |-> cur])
    <3>1. v \in Versions /\ v \in Files
      BY <2>1, <2>5, VersionFiles
    <3>2. [pc |-> "compare", want |-> v, prev |-> zone, old |-> cur] \in CallerStates
      BY <1>0, <3>1 DEF CallerStates, UpTypes, Holding
    <3> QED
      BY <2>2, <2>5, <3>1, <3>2, HolderKeeps DEF Waiting
  <2>6. CASE v # Absent /\ zone' \in Unfinished(v) /\ To(c, Idle)
    <3>1. zone' \in Files \cup {Absent}
      BY <1>0, <2>1, <2>6, UnfinishedFiles
    <3> QED
      BY <1>0, <2>2, <2>6, <3>1, HolderKeeps DEF Holding, Waiting
  <2> QED
    BY <1>3, <2>3, <2>4, <2>5, <2>6 DEF Apply
<1>4. CASE Withdrawn(c)
  <2>1. StopReturns /\ cur \in Procs /\ cur' = None /\ zone' = zone /\ To(c, Idle) /\ syncer[c].pc \in Holding
    BY <1>4 DEF Withdrawn, Owned, UpTypes, Waiting, Holding
  <2> QED
    BY <1>0, <1>1, <2>1, HolderKeeps DEF Holding, Waiting
<1>5. CASE Compare(c)
  <2>1. zone \in Files /\ UNCHANGED <<zone, cur, stuck>> /\ syncer[c].pc = "compare" /\ stuck \subseteq Procs
    BY <1>5 DEF Compare, UpTypes, Holding
  <2>2. CASE To(c, Idle)
    BY <1>0, <2>1, <2>2, HolderKeeps DEF Holding, Waiting
  <2>3. CASE cur # None /\ To(c, [syncer[c] EXCEPT !.pc = "stop"])
    BY <1>0, <2>1, <2>3, CallFields, HolderKeeps DEF Holding
  <2>4. CASE cur = None /\ To(c, [syncer[c] EXCEPT !.pc = "port"])
    BY <1>0, <2>1, <2>4, CallFields, HolderKeeps DEF Holding, Waiting
  <2> QED
    BY <1>5, <2>2, <2>3, <2>4 DEF Compare
<1>6. ASSUME NEW pc \in {"port", "rollback"}, Stopped(c) \/ Undo(c),
             To(c, [syncer[c] EXCEPT !.pc = pc])
      PROVE  UpInv'
  <2>1. /\ StopReturns /\ cur \in Procs /\ cur' = None /\ zone' = zone
        /\ syncer[c].pc \in {"stop", "undo"} /\ zone \in Files
    BY <1>6 DEF Stopped, Undo, UpTypes, Owned, Holding, Waiting
  <2> QED
    BY <1>0, <1>1, <1>6, <2>1, CallFields, HolderKeeps DEF Holding, Waiting
<1>7. CASE Settle(c)
  <2>1. /\ zone \in Files /\ UNCHANGED <<zone, cur, stuck>> /\ syncer[c].pc = "settle"
        /\ stuck \subseteq Procs /\ cur # None
    BY <1>7 DEF Settle, UpTypes, Owned, Holding, Waiting
  <2>2. CASE To(c, Idle)
    BY <1>0, <2>1, <2>2, HolderKeeps DEF Holding, Waiting
  <2>3. CASE To(c, [syncer[c] EXCEPT !.pc = "undo"])
    BY <1>0, <2>1, <2>3, CallFields, HolderKeeps DEF Holding
  <2> QED
    BY <1>7, <2>2, <2>3 DEF Settle
<1>8. CASE Port(c) /\ To(c, [syncer[c] EXCEPT !.pc = "rollback"]) /\ UNCHANGED procs
  <2>1. /\ zone \in Files /\ UNCHANGED <<zone, cur, stuck>> /\ syncer[c].pc = "port"
        /\ stuck \subseteq Procs /\ cur = None
    BY <1>8 DEF Port, procs, UpTypes, Owned, Holding
  <2> QED
    BY <1>0, <1>8, <2>1, CallFields, HolderKeeps DEF Holding, Waiting
<1>9. CASE Rollback(c) /\ UNCHANGED procs
  <2>1. /\ zone \in Files /\ UNCHANGED <<cur, stuck>> /\ syncer[c].pc = "rollback"
        /\ stuck \subseteq Procs /\ To(c, Idle)
    BY <1>9 DEF Rollback, procs, UpTypes, Holding
  <2>2. zone' \in Files
    <3>1. syncer[c].prev \in Files \cup {Absent}
      BY <2>1, CallFields DEF Holding
    <3>2. \/ zone' = zone
          \/ syncer[c].prev \in Files /\ zone' = [zone EXCEPT !.cfg = syncer[c].prev.cfg]
          \/ zone' = [zone EXCEPT !.cfg = zone.cfg]
          \/ zone' = [zone EXCEPT !.cfg = Torn]
      BY <1>9, <3>1 DEF Rollback
    <3> QED
      BY <2>1, <3>2, FilesUpdated
  <2> QED
    BY <1>0, <2>1, <2>2, HolderKeeps DEF Holding, Waiting
<1> QED
  <2>1. Port(c) /\ UNCHANGED procs => To(c, [syncer[c] EXCEPT !.pc = "rollback"])
    <3>1. ASSUME Port(c), UNCHANGED procs, NEW sig, Start(sig) PROVE FALSE
      BY <3>1 DEF Port, Start, procs, Owned, None, Procs
    <3> QED
      BY <3>1 DEF Port
  <2> QED
    BY <1>2, <1>3, <1>4, <1>5, <1>6, <1>7, <1>8, <1>9, <2>1 DEF Stopped, Undo

\* The calls that start a proc: for what was asked, or back to what was there.
LEMMA StartingCallsKeep ==
    ASSUME UpInv, NEW c \in Syncers, Port(c) \/ Rollback(c)
    PROVE  UpInv'
<1> USE DEF UpInv
<1>0. /\ syncer[c].pc \in {"port", "rollback"} /\ zone \in Files
      /\ Idle \in CallerStates /\ Idle.pc = "idle" /\ stuck' = stuck
  BY DEF Port, Rollback, UpTypes, Holding, CallerStates, Idle
<1>1. \A i \in Procs : Busy(i) => i \in stuck
  BY <1>0 DEF Owned, None, Procs
<1>2. ASSUME NEW state \in CallerStates, To(c, state), NEW sig, Start(sig),
             state.pc \in {"idle", "settle"}, zone' \in Files
      PROVE  UpInv'
  <2>1. /\ syncer' \in [Syncers -> CallerStates] /\ syncer'[c] = state
        /\ \A d \in Syncers : d # c => syncer'[d] = syncer[d]
    BY <1>2, CallerGoes DEF UpTypes
  <2>2. \A d \in Syncers : d # c => syncer[d].pc \notin Holding
    BY <1>0 DEF Owned, Holding
  <2>3. /\ cur' \in Procs /\ server' \in [Procs -> SupStates] /\ child' = child
        /\ \A i \in Procs : Busy(i)' => i = cur' \/ i \in stuck
        /\ \A i \in Procs : child[i] # Absent => server'[i] = "wait"
    BY <1>1, <1>2, StartKeeps
  <2>4. UpTypes'
    BY <1>0, <1>2, <2>1, <2>2, <2>3 DEF UpTypes
  <2>5. Owned'
    BY <1>0, <1>2, <2>1, <2>2, <2>3 DEF Owned, Holding, Waiting, None, Procs
  <2> QED
    BY <2>4, <2>5
<1>3. CASE UNCHANGED procs
  BY <1>3, QuietCallsKeep
<1>4. CASE Rollback(c)
  <2>1. ASSUME To(c, Idle), syncer[c].prev # Absent, NEW sig, Start(sig),
               zone' = [zone EXCEPT !.cfg = syncer[c].prev.cfg]
        PROVE  UpInv'
    <3>1. syncer[c].prev \in Files
      BY <1>0, <2>1, CallFields DEF Holding
    <3>2. zone' \in Files
      BY <1>0, <2>1, <3>1, FilesUpdated
    <3> QED
      BY <1>0, <1>2, <2>1, <3>2
  <2> QED
    BY <1>3, <1>4, <2>1 DEF Rollback
<1>5. CASE /\ Start(syncer[c].want.cfg)
           /\ To(c, [syncer[c] EXCEPT !.pc = "settle"])
           /\ zone' = zone
  <2>1. [syncer[c] EXCEPT !.pc = "settle"] \in CallerStates /\ [syncer[c] EXCEPT !.pc = "settle"].pc = "settle"
    BY <1>0, CallFields DEF Holding
  <2> QED
    BY <1>0, <1>2, <1>5, <2>1
<1> QED
  BY <1>3, <1>4, <1>5 DEF Port

LEMMA UpInvariant == UpstreamSpec => []UpInv
<1>1. UpInv /\ [UpstreamNext]_upstream => UpInv'
  <2> SUFFICES ASSUME UpInv, [UpstreamNext]_upstream PROVE UpInv'
    OBVIOUS
  <2>1. CASE UNCHANGED upstream
    BY <2>1 DEF upstream, procs, bounds, UpInv, UpTypes, Owned, Busy, Waiting
  <2>2. CASE UpstreamNext
    BY <2>2, UpstreamAssumption, SupervisorsKeep, QuietCallsKeep, StartingCallsKeep DEF UpstreamNext, Sync
  <2> QED
    BY <2>1, <2>2
<1> QED
  BY UpstreamAssumption, UpInit, <1>1, PTL DEF UpstreamSpec

\* The files, the goroutines and what runs keep the shape the code gives them.
THEOREM UpstreamTypeCorrect == UpstreamSpec => []UpstreamTypeOK
<1>1. UpInv => UpstreamTypeOK
  BY DEF UpInv, UpTypes, UpstreamTypeOK, Files, SupStates
<1> QED
  BY UpstreamAssumption, UpInvariant, <1>1, PTL

\* However calls of Sync, roll-backs, crashes and half written files interleave, two
\* binaries of a zone never run at once, those apart that outlived their SIGKILL.
THEOREM OneServerPerZone == UpstreamSpec => []OneChild
<1>1. ASSUME UpInv PROVE OneChild
  <2>1. \A i \in Running \ stuck : i = cur
    BY <1>1 DEF UpInv, UpTypes, Owned, Running, Busy
  <2>2. CASE Running \ stuck = {}
    BY <2>2, FS_EmptySet DEF OneChild
  <2>3. CASE Running \ stuck # {}
    <3>1. Running \ stuck = {cur}
      BY <2>1, <2>3
    <3>2. Cardinality(Running \ stuck) = 1
      BY <3>1, FS_Singleton
    <3> QED
      BY <3>2 DEF OneChild
  <2> QED
    BY <2>2, <2>3
<1> QED
  BY UpstreamAssumption, UpInvariant, <1>1, PTL

-----------------------------------------------------------------------------
(* Sequences and least numbers *)

\* Of some numbers one is the least.
LEMMA LeastOf ==
    ASSUME NEW G \in SUBSET Nat, G # {}
    PROVE  \E r \in G : \A k \in G : r <= k
<1>1. PICK r \in G : \A k \in G : <<k, r>> \notin OpToRel(<, Nat)
  BY NatLessThanWellFounded, WFMin, Zenon
<1>2. \A k \in G : ~(k < r)
  BY <1>1, Zenon DEF OpToRel
<1> QED
  BY <1>2

\* What follows the element that is removed moves up.
LEMMA Removed ==
    ASSUME NEW T, NEW q \in Seq(T), NEW k \in 1 .. Len(q)
    PROVE  /\ RemoveAt(q, k) \in Seq(T) /\ Len(RemoveAt(q, k)) = Len(q) - 1
           /\ \A i \in 1 .. Len(q) - 1 : RemoveAt(q, k)[i] = IF i < k THEN q[i] ELSE q[i + 1]
<1> DEFINE a == SubSeq(q, 1, k - 1)
           b == SubSeq(q, k + 1, Len(q))
           n == Len(q)
<1>1. n \in Nat /\ k \in 1 .. n /\ \A i \in 1 .. n : q[i] \in T
  OBVIOUS
<1> HIDE DEF n
<1>2. a \in Seq(T) /\ Len(a) = k - 1 /\ \A i \in 1 .. k - 1 : a[i] = q[i]
  <2>1. k - 1 \in Int /\ \A i \in 1 .. k - 1 : q[i] \in T
    BY <1>1
  <2>2. /\ a \in Seq(T) /\ Len(a) = IF 1 <= k - 1 THEN k - 1 - 1 + 1 ELSE 0
        /\ \A i \in 1 .. k - 1 - 1 + 1 : a[i] = q[1 + i - 1]
    BY <2>1, SubSeqProperties
  <2> QED
    BY <1>1, <2>2
<1>3. b \in Seq(T) /\ Len(b) = n - k /\ \A i \in 1 .. n - k : b[i] = q[k + i]
  <2>1. k + 1 \in Int /\ n \in Int /\ \A i \in k + 1 .. n : q[i] \in T
    BY <1>1
  <2>2. /\ b \in Seq(T) /\ Len(b) = IF k + 1 <= n THEN n - (k + 1) + 1 ELSE 0
        /\ \A i \in 1 .. n - (k + 1) + 1 : b[i] = q[(k + 1) + i - 1]
    BY <2>1, SubSeqProperties DEF n
  <2> QED
    BY <1>1, <2>2, SMTT(40)
<1>4. RemoveAt(q, k) = a \o b
  BY DEF RemoveAt
<1> HIDE DEF a, b
<1>5. /\ a \o b \in Seq(T) /\ Len(a \o b) = Len(a) + Len(b)
      /\ \A i \in 1 .. Len(a) + Len(b) : (a \o b)[i] = IF i <= Len(a) THEN a[i] ELSE b[i - Len(a)]
  BY <1>2, <1>3, ConcatProperties
<1>6. ASSUME NEW i \in 1 .. n - 1 PROVE (a \o b)[i] = IF i < k THEN q[i] ELSE q[i + 1]
  <2>1. CASE i < k
    <3>1. i \in 1 .. k - 1 /\ i \in 1 .. Len(a) + Len(b) /\ i <= Len(a)
      BY <2>1, <1>1, <1>2, <1>3
    <3> QED
      BY <2>1, <3>1, <1>2, <1>5
  <2>2. CASE ~(i < k)
    <3>1. i - (k - 1) \in 1 .. n - k /\ k + (i - (k - 1)) = i + 1
          /\ i \in 1 .. Len(a) + Len(b) /\ ~(i <= Len(a)) /\ i - Len(a) = i - (k - 1)
      BY <2>2, <1>1, <1>2, <1>3
    <3>2. (a \o b)[i] = b[i - (k - 1)]
      BY <3>1, <1>5
    <3>3. b[i - (k - 1)] = q[i + 1]
      BY <3>1, <1>3
    <3> QED
      BY <2>2, <3>2, <3>3
  <2> QED
    BY <2>1, <2>2
<1> QED
  BY <1>1, <1>2, <1>3, <1>4, <1>5, <1>6 DEF n

-----------------------------------------------------------------------------
(* The queue of the webhooks *)

Workers == [pc : {"take", "sleep", "ended"}] \cup [pc : {"timer"}, wait : Nat]
             \cup [pc : {"send"}, d : Deliveries]
Reports == [pc : {"push", "wake", "next"}, id : 1 .. MaxReports, to : SUBSET Endpoints]

\* The first of a full queue goes when another comes.
Dropped == IF Len(queue) >= MaxQueued THEN 1 ELSE 0

LEMMA QueueGains ==
    ASSUME queue \in Seq(Deliveries), Len(queue) <= MaxQueued, ~Closed, NEW d \in Deliveries
    PROVE  /\ Pushed(d) \in Seq(Deliveries)
           /\ Len(Pushed(d)) = Len(queue) + 1 - Dropped /\ Len(Pushed(d)) \in 1 .. MaxQueued
           /\ Dropped \in {0, 1} /\ Dropped <= Len(queue)
           /\ Pushed(d)[Len(queue) + 1 - Dropped] = d
           /\ \A i \in 1 .. Len(queue) - Dropped : Pushed(d)[i] = queue[i + Dropped]
<1>0. Len(queue) \in Nat /\ MaxQueued \in Nat \ {0}
  BY WebhooksAssumption
<1>1. CASE Len(queue) < MaxQueued
  <2>1. Pushed(d) = Append(queue, d) /\ Dropped = 0
    BY <1>0, <1>1 DEF Pushed, Dropped
  <2> QED
    BY <1>0, <1>1, <2>1, AppendProperties
<1>2. CASE Len(queue) >= MaxQueued
  <2>1. Pushed(d) = Append(Tail(queue), d) /\ Dropped = 1 /\ Len(queue) = MaxQueued
    BY <1>0, <1>2 DEF Pushed, Dropped
  <2>2. queue # <<>>
    BY <1>0, <2>1
  <2> DEFINE t == Tail(queue)
  <2>3. t \in Seq(Deliveries) /\ Len(t) = Len(queue) - 1 /\ \A i \in 1 .. Len(t) : t[i] = queue[i + 1]
    BY <2>2, HeadTailProperties
  <2> HIDE DEF t
  <2>4. /\ Append(t, d) \in Seq(Deliveries) /\ Len(Append(t, d)) = Len(t) + 1
        /\ \A i \in 1 .. Len(t) : Append(t, d)[i] = t[i]
        /\ Append(t, d)[Len(t) + 1] = d
    BY <2>3, AppendProperties
  <2>5. Pushed(d) = Append(t, d)
    BY <2>1 DEF t
  <2> QED
    BY <1>0, <2>1, <2>3, <2>4, <2>5
<1> QED
  BY <1>0, <1>1, <1>2

\* The worker sleeps no longer than the first delivery that comes due.
LEMMA ShortestIsFirst ==
    ASSUME queue \in Seq(Deliveries), queue # <<>>
    PROVE  Shortest \in Nat /\ \A i \in 1 .. Len(queue) : Shortest <= queue[i].wait
<1> DEFINE W == {queue[i].wait : i \in 1 .. Len(queue)}
<1>1. \A i \in 1 .. Len(queue) : queue[i] \in Deliveries
  OBVIOUS
<1>2. W \in SUBSET Nat
  BY <1>1 DEF Deliveries
<1>3. W # {}
  <2>1. 1 \in 1 .. Len(queue)
    OBVIOUS
  <2> QED
    BY <2>1
<1>4. \E n \in W : \A i \in 1 .. Len(queue) : n <= queue[i].wait
  <2> HIDE DEF W
  <2>1. PICK n \in W : \A k \in W : n <= k
    BY <1>2, <1>3, LeastOf
  <2>2. \A i \in 1 .. Len(queue) : queue[i].wait \in W
    BY DEF W
  <2> QED
    BY <2>1, <2>2
<1> QED
  BY <1>2, <1>4 DEF Shortest

LEMMA WorkerFields ==
    ASSUME worker \in Workers
    PROVE  /\ worker.pc \in {"take", "sleep", "ended", "timer", "send"}
           /\ worker.pc = "timer" => worker.wait \in Nat
           /\ worker.pc = "send" => worker.d \in Deliveries
BY DEF Workers

LEMMA ReportFields ==
    ASSUME reporter \in [Reporters -> {NoReport} \cup Reports], NEW p \in Reporters
    PROVE  /\ reporter[p].pc \in {"idle", "push", "wake", "next"}
           /\ reporter[p].pc = "idle" => reporter[p] = NoReport
           /\ reporter[p].pc # "idle" => /\ reporter[p] \in Reports /\ reporter[p].id \in 1 .. MaxReports
                                         /\ reporter[p].to \in SUBSET Endpoints
BY DEF Reports, NoReport

-----------------------------------------------------------------------------
(* Types and bounds *)

WebTypes ==
    /\ raised \in [Keys -> {"none", "recent", "stale"}]
    /\ IsFiniteSet(Tracked) /\ Cardinality(Tracked) <= MaxTracked
    /\ queue \in Seq(Deliveries) /\ Len(queue) <= MaxQueued
    /\ wake \in BOOLEAN
    /\ worker \in Workers
    /\ closing \in {"open", "closed", "quit", "returned"}
    /\ reporter \in [Reporters -> {NoReport} \cup Reports]
    /\ reports \in 0 .. MaxReports

LEMMA WebTypesStart == WebhooksInit => WebTypes
<1> SUFFICES ASSUME WebhooksInit PROVE WebTypes
  OBVIOUS
<1>1. Tracked = {}
  BY DEF WebhooksInit, Tracked
<1>2. IsFiniteSet(Tracked) /\ Cardinality(Tracked) = 0
  BY <1>1, FS_EmptySet
<1>3. queue \in Seq(Deliveries) /\ Len(queue) = 0
  BY DEF WebhooksInit
<1>4. worker \in Workers /\ wake \in BOOLEAN
  BY DEF WebhooksInit, Workers
<1>5. reporter \in [Reporters -> {NoReport} \cup Reports] /\ reports \in 0 .. MaxReports
  BY WebhooksAssumption DEF WebhooksInit
<1>6. Cardinality(Tracked) <= MaxTracked /\ Len(queue) <= MaxQueued
  BY <1>2, <1>3, WebhooksAssumption
<1> QED
  BY <1>2, <1>3, <1>4, <1>5, <1>6 DEF WebhooksInit, WebTypes

\* A reporter takes an event up.
LEMMA ReportTypes ==
    ASSUME WebTypes, NEW p \in Reporters, Report(p)
    PROVE  /\ reports' \in 0 .. MaxReports /\ reports' = reports + 1
           /\ reporter' \in [Reporters -> {NoReport} \cup Reports]
           /\ reporter' = [reporter EXCEPT ![p] = [pc |-> "push", id |-> reports + 1, to |-> Endpoints]]
<1>1. reports \in Nat /\ reports < MaxReports /\ reports' = reports + 1 /\ MaxReports \in Nat
  BY WebhooksAssumption DEF Report, WebTypes
<1>2. [pc |-> "push", id |-> reports + 1, to |-> Endpoints] \in Reports
  BY <1>1 DEF Reports
<1> QED
  BY <1>1, <1>2 DEF Report, WebTypes

\* Fewer are tracked, or one more when there is room.
LEMMA TrackedBounded ==
    ASSUME WebTypes, NEW k \in Keys, NEW kept \in Evicted(k), raised' = [kept EXCEPT ![k] = "recent"]
    PROVE  /\ raised' \in [Keys -> {"none", "recent", "stale"}]
           /\ IsFiniteSet(Tracked)' /\ (Cardinality(Tracked) <= MaxTracked)'
<1>1. IsFiniteSet(Tracked) /\ Cardinality(Tracked) \in Nat /\ Cardinality(Tracked) <= MaxTracked
      /\ MaxTracked \in Nat \ {0} /\ Tracked \in SUBSET Keys
  BY FS_CardinalityType, WebhooksAssumption DEF WebTypes, Tracked
<1>2. kept \in [Keys -> {"none", "recent", "stale"}]
  BY DEF Evicted, WebTypes
<1>3. raised' \in [Keys -> {"none", "recent", "stale"}]
  BY <1>2
<1>4. CASE raised[k] # "none"
  <2>1. kept = raised
    BY <1>4 DEF Evicted
  <2>2. Tracked' = Tracked
    BY <2>1, <1>2, <1>3, <1>4 DEF Tracked
  <2> QED
    BY <2>2, <1>1, <1>3
<1>5. CASE raised[k] = "none" /\ Cardinality(Tracked) < MaxTracked
  <2>1. kept = raised
    BY <1>5 DEF Evicted
  <2>2. Tracked' = Tracked \cup {k} /\ k \notin Tracked
    BY <2>1, <1>2, <1>3, <1>5 DEF Tracked
  <2>3. IsFiniteSet(Tracked \cup {k}) /\ Cardinality(Tracked \cup {k}) = Cardinality(Tracked) + 1
    BY <2>2, <1>1, FS_AddElement
  <2> QED
    BY <2>2, <2>3, <1>1, <1>3, <1>5
<1>6. CASE raised[k] = "none" /\ ~(Cardinality(Tracked) < MaxTracked)
  <2>1. PICK old \in Tracked : kept = [raised EXCEPT ![old] = "none"]
    BY <1>6 DEF Evicted
  <2> DEFINE left == Tracked \ {old}
  <2>2. IsFiniteSet(left) /\ Cardinality(left) = Cardinality(Tracked) - 1
    BY <1>1, FS_RemoveElement
  <2>3. Tracked' = left \cup {k} /\ k \notin left
    BY <2>1, <1>1, <1>2, <1>3, <1>6 DEF Tracked, WebTypes
  <2> HIDE DEF left
  <2>4. IsFiniteSet(left \cup {k}) /\ Cardinality(left \cup {k}) = Cardinality(left) + 1
    BY <2>2, <2>3, FS_AddElement
  <2> QED
    BY <2>2, <2>3, <2>4, <1>1, <1>3
<1> QED
  BY <1>4, <1>5, <1>6

\* An alert that has cleared, or grown old, is tracked no more, or as before.
LEMMA TrackedShrinks ==
    ASSUME WebTypes, NEW k \in Keys, raised[k] # "none", NEW v \in {"none", "stale"},
           raised' = [raised EXCEPT ![k] = v]
    PROVE  /\ raised' \in [Keys -> {"none", "recent", "stale"}]
           /\ IsFiniteSet(Tracked)' /\ (Cardinality(Tracked) <= MaxTracked)'
<1>1. raised' \in [Keys -> {"none", "recent", "stale"}] /\ Tracked' \in SUBSET Tracked
  BY DEF WebTypes, Tracked
<1>2. IsFiniteSet(Tracked') /\ Cardinality(Tracked') <= Cardinality(Tracked)
  BY <1>1, FS_Subset DEF WebTypes
<1>3. Cardinality(Tracked') \in Nat /\ Cardinality(Tracked) \in Nat
  BY <1>2, FS_CardinalityType DEF WebTypes
<1> QED
  BY <1>1, <1>2, <1>3, WebhooksAssumption DEF WebTypes

LEMMA WebTypesStep == WebTypes /\ [WebhooksNext]_webhooks => WebTypes'
<1> SUFFICES ASSUME WebTypes, [WebhooksNext]_webhooks PROVE WebTypes'
  OBVIOUS
<1>0. ASSUME raised' = raised PROVE IsFiniteSet(Tracked)' /\ (Cardinality(Tracked) <= MaxTracked)'
  BY <1>0 DEF WebTypes, Tracked
<1>1. CASE UNCHANGED webhooks
  BY <1>1, <1>0 DEF webhooks, WebTypes
<1>2. ASSUME NEW p \in Reporters, Dispatch(p) PROVE WebTypes'
  BY <1>2, <1>0, ReportTypes DEF Dispatch, WebTypes
<1>3. ASSUME NEW p \in Reporters, NEW k \in Keys, Alert(p, k) PROVE WebTypes'
  BY <1>3, TrackedBounded, ReportTypes DEF Alert, WebTypes
<1>4. ASSUME NEW p \in Reporters, NEW k \in Keys, ResolveAlert(p, k) PROVE WebTypes'
  BY <1>4, TrackedShrinks, ReportTypes DEF ResolveAlert, WebTypes
<1>5. ASSUME NEW k \in Keys, Stale(k) PROVE WebTypes'
  BY <1>5, TrackedShrinks DEF Stale, WebTypes
<1>6. ASSUME NEW p \in Reporters, Push(p) PROVE WebTypes'
  <2>1. PICK e \in reporter[p].to :
           /\ queue' = Pushed([id |-> reporter[p].id, to |-> e, attempt |-> 0, wait |-> 0])
           /\ reporter' = [reporter EXCEPT ![p].pc = IF Closed THEN "next" ELSE "wake",
                                           ![p].to = @ \ {e}]
    BY <1>6 DEF Push
  <2>2. reporter[p] \in Reports /\ reporter[p].id \in 1 .. MaxReports /\ reporter[p].to \in SUBSET Endpoints
    BY <1>6, ReportFields DEF Push, WebTypes
  <2>3. [id |-> reporter[p].id, to |-> e, attempt |-> 0, wait |-> 0] \in Deliveries
    BY <2>2, WebhooksAssumption DEF Deliveries
  <2>4. queue' \in Seq(Deliveries) /\ Len(queue') <= MaxQueued
    <3>1. CASE Closed
      BY <3>1, <2>1 DEF Pushed, WebTypes
    <3>2. CASE ~Closed
      BY <3>2, <2>1, <2>3, QueueGains, WebhooksAssumption DEF WebTypes
    <3> QED
      BY <3>1, <3>2
  <2>5. reporter' \in [Reporters -> {NoReport} \cup Reports]
    BY <2>1, <2>2 DEF WebTypes, Reports
  <2> QED
    BY <1>6, <1>0, <2>4, <2>5 DEF Push, WebTypes
<1>7. ASSUME NEW p \in Reporters, Wake(p) PROVE WebTypes'
  <2>1. reporter[p] \in Reports
    BY <1>7, ReportFields DEF Wake, WebTypes
  <2>2. reporter' \in [Reporters -> {NoReport} \cup Reports]
    BY <1>7, <2>1 DEF Wake, NextEndpoint, WebTypes, Reports
  <2>3. wake' \in BOOLEAN
    BY <1>7, Zenon DEF Wake
  <2> QED
    BY <1>7, <1>0, <2>2, <2>3 DEF Wake, WebTypes
<1>8. CASE Take
  <2>1. queue' \in Seq(Deliveries) /\ Len(queue') <= MaxQueued /\ worker' \in Workers
    <3>1. CASE UNCHANGED queue /\ worker' = [pc |-> "sleep"]
      BY <3>1 DEF WebTypes, Workers
    <3>2. CASE UNCHANGED queue /\ queue # <<>> /\ worker' = [pc |-> "timer", wait |-> Shortest]
      BY <3>2, ShortestIsFirst DEF WebTypes, Workers
    <3>3. ASSUME NEW i \in Ready, worker' = [pc |-> "send", d |-> queue[i]], queue' = RemoveAt(queue, i)
          PROVE  queue' \in Seq(Deliveries) /\ Len(queue') <= MaxQueued /\ worker' \in Workers
      <4>1. i \in 1 .. Len(queue) /\ queue \in Seq(Deliveries) /\ Len(queue) \in Nat /\ Len(queue) <= MaxQueued
        BY DEF Ready, WebTypes
      <4>2. queue' \in Seq(Deliveries) /\ Len(queue') = Len(queue) - 1
        BY <3>3, <4>1, Removed
      <4>3. queue[i] \in Deliveries
        BY <4>1
      <4> QED
        BY <3>3, <4>1, <4>2, <4>3, WebhooksAssumption DEF Workers
    <3> QED
      BY <1>8, <3>1, <3>2, <3>3 DEF Take
  <2> QED
    BY <1>8, <1>0, <2>1 DEF Take, WebTypes
<1>9. CASE Settled
  BY <1>9, <1>0 DEF Settled, WebTypes, Workers
<1>10. CASE Fails
  <2>1. worker.d \in Deliveries /\ worker' = [pc |-> "take"]
    BY <1>10, WorkerFields DEF Fails, WebTypes
  <2>2. queue' \in Seq(Deliveries) /\ Len(queue') <= MaxQueued /\ wake' \in BOOLEAN
    <3>1. CASE UNCHANGED <<queue, wake>>
      BY <3>1 DEF WebTypes
    <3> DEFINE n == worker.d.attempt + 1
               d == [worker.d EXCEPT !.attempt = n, !.wait = Retry[n]]
    <3>2. CASE n <= Len(Retry) /\ queue' = Pushed(d) /\ wake' = (wake \/ ~Closed)
      <4>1. n \in 1 .. Len(Retry) /\ Retry \in Seq(Nat)
        BY <2>1, <3>2, WebhooksAssumption DEF Deliveries
      <4>2. d \in Deliveries
        <5>1. Retry[n] \in Nat /\ n \in 0 .. Len(Retry)
          BY <4>1
        <5>2. worker.d \in [id : 1 .. MaxReports, to : Endpoints, attempt : 0 .. Len(Retry), wait : Nat]
          BY <2>1 DEF Deliveries
        <5> HIDE DEF n
        <5> QED
          BY <5>1, <5>2 DEF Deliveries
      <4>3. wake' \in BOOLEAN
        BY <3>2, Zenon
      <4> HIDE DEF d
      <4>4. CASE Closed
        BY <3>2, <4>3, <4>4 DEF Pushed, WebTypes
      <4>5. CASE ~Closed
        BY <3>2, <4>2, <4>3, <4>5, QueueGains, WebhooksAssumption DEF WebTypes
      <4> QED
        BY <4>4, <4>5
    <3> QED
      BY <1>10, <3>1, <3>2 DEF Fails
  <2> QED
    BY <1>10, <1>0, <2>1, <2>2 DEF Fails, WebTypes, Workers
<1>11. CASE Awakes \/ TimerFires \/ Quits
  <2>1. worker' \in Workers
    BY <1>11 DEF Awakes, TimerFires, Quits, Workers
  <2>2. wake' \in BOOLEAN
    <3>1. wake \in BOOLEAN
      BY DEF WebTypes
    <3> QED
      BY <1>11, <3>1, Zenon DEF Awakes, TimerFires, Quits
  <2> QED
    BY <1>11, <1>0, <2>1, <2>2 DEF Awakes, TimerFires, Quits, WebTypes
<1>12. CASE Tick
  <2>1. queue' = [i \in 1 .. Len(queue) |-> [queue[i] EXCEPT !.wait = IF @ = 0 THEN 0 ELSE @ - 1]]
    BY <1>12 DEF Tick
  <2>2. \A i \in 1 .. Len(queue) : [queue[i] EXCEPT !.wait = IF @ = 0 THEN 0 ELSE @ - 1] \in Deliveries
    <3> TAKE i \in 1 .. Len(queue)
    <3>1. queue[i] \in Deliveries
      BY DEF WebTypes
    <3> QED
      BY <3>1 DEF Deliveries
  <2>3. queue' \in Seq(Deliveries) /\ Len(queue') = Len(queue)
    <3>1. Len(queue) \in Nat
      BY DEF WebTypes
    <3> QED
      BY <2>1, <2>2, <3>1
  <2>4. worker' \in Workers
    BY <1>12, WorkerFields DEF Tick, WebTypes, Workers
  <2> QED
    BY <1>12, <1>0, <2>3, <2>4 DEF Tick, WebTypes
<1>13. CASE CloseBegins \/ Closing
  BY <1>13, <1>0 DEF CloseBegins, Closing, CloseQuits, CloseReturns, CloseTo, WebTypes
<1> QED
  BY <1>1, <1>2, <1>3, <1>4, <1>5, <1>6, <1>7, <1>8, <1>9, <1>10, <1>11, <1>12, <1>13
     DEF WebhooksNext, Reporting, Work, Deliver

\* The backlog never grows beyond maxQueued, the alerts tracked beyond
\* maxTrackedAlerts, and no delivery is tried beyond the ladder.
THEOREM WebhooksTypeCorrect == WebhooksSpec => []WebhooksTypeOK
<1>1. WebTypes => WebhooksTypeOK
  BY DEF WebTypes, WebhooksTypeOK, Workers, Reports
<1> QED
  BY <1>1, WebTypesStart, WebTypesStep, PTL DEF WebhooksSpec

-----------------------------------------------------------------------------
(* No wakeup is lost *)

\* A worker that is about to look needs no waking.
LEMMA LookingIsAwake ==
    ASSUME worker.pc \notin {"sleep", "timer"}
    PROVE  NeverSleptOn
BY DEF NeverSleptOn

\* A step that leaves queue and worker alone, and takes no waking away.
LEMMA StaysAwake ==
    ASSUME NeverSleptOn, UNCHANGED <<queue, worker>>, Closed => Closed', Waking => Waking' \/ Closed'
    PROVE  NeverSleptOn'
BY DEF NeverSleptOn

\* A reporter other than p is as it was.
LEMMA WakingStays ==
    ASSUME WebTypes, NEW p \in Reporters, NEW r, reporter[p].pc # "wake" \/ wake',
           reporter' = [reporter EXCEPT ![p] = r], wake => wake'
    PROVE  Waking => Waking'
<1> SUFFICES ASSUME Waking PROVE Waking'
  OBVIOUS
<1>1. CASE wake'
  BY <1>1, Zenon DEF Waking
<1>2. CASE ~wake'
  <2>1. PICK o \in Reporters : reporter[o].pc = "wake"
    BY <1>2, Zenon DEF Waking
  <2>2. o # p /\ reporter'[o] = reporter[o]
    BY <2>1, <1>2, Zenon DEF WebTypes
  <2> QED
    BY <2>1, <2>2, Zenon DEF Waking
<1> QED
  BY <1>1, <1>2

LEMMA AwakeStart == WebhooksInit => NeverSleptOn
<1> SUFFICES ASSUME WebhooksInit PROVE NeverSleptOn
  OBVIOUS
<1> QED
  BY LookingIsAwake DEF WebhooksInit

LEMMA AwakeStep == WebTypes /\ WebTypes' /\ NeverSleptOn /\ [WebhooksNext]_webhooks => NeverSleptOn'
<1> SUFFICES ASSUME WebTypes, WebTypes', NeverSleptOn, [WebhooksNext]_webhooks PROVE NeverSleptOn'
  OBVIOUS
<1>1. CASE UNCHANGED webhooks
  BY <1>1 DEF webhooks, NeverSleptOn, Closed, Waking
<1>2. ASSUME NEW p \in Reporters, reporter[p] = NoReport, Report(p),
             UNCHANGED <<queue, wake, worker, closing>>
      PROVE  NeverSleptOn'
  <2>1. reporter[p].pc # "wake"
    BY <1>2 DEF NoReport
  <2>2. Waking => Waking'
    BY <1>2, <2>1, WakingStays DEF Report
  <2> QED
    BY <1>2, <2>2, StaysAwake DEF Closed
<1>3. ASSUME NEW p \in Reporters, NEW k \in Keys, Dispatch(p) \/ Alert(p, k) \/ ResolveAlert(p, k)
      PROVE  NeverSleptOn'
  BY <1>2, <1>3 DEF Dispatch, Alert, ResolveAlert
<1>4. ASSUME NEW p \in Reporters, Dispatch(p) PROVE NeverSleptOn'
  BY <1>2, <1>4 DEF Dispatch
<1>5. ASSUME NEW k \in Keys, Stale(k) PROVE NeverSleptOn'
  BY <1>5 DEF Stale, NeverSleptOn, Closed, Waking
<1>6. ASSUME NEW p \in Reporters, Push(p) PROVE NeverSleptOn'
  <2>1. PICK e \in reporter[p].to :
           reporter' = [reporter EXCEPT ![p].pc = IF Closed THEN "next" ELSE "wake",
                                        ![p].to = @ \ {e}]
    BY <1>6 DEF Push
  <2>2. UNCHANGED <<wake, worker, closing>>
    BY <1>6 DEF Push
  <2>3. CASE Closed
    BY <2>2, <2>3 DEF NeverSleptOn, Closed
  <2>4. CASE ~Closed
    <3>1. reporter[p] \in Reports
      BY <1>6, ReportFields DEF Push, WebTypes
    <3>2. reporter'[p].pc = "wake"
      BY <2>1, <2>4, <3>1 DEF WebTypes, Reports
    <3> QED
      BY <3>2, Zenon DEF NeverSleptOn, Waking
  <2> QED
    BY <2>3, <2>4
<1>7. ASSUME NEW p \in Reporters, Wake(p) PROVE NeverSleptOn'
  <2>1. PICK r : reporter' = [reporter EXCEPT ![p] = r]
    BY <1>7 DEF Wake, NextEndpoint
  <2>2. wake' = (wake \/ reporter[p].pc = "wake")
    BY <1>7, Zenon DEF Wake
  <2>3. (wake => wake') /\ (reporter[p].pc # "wake" \/ wake')
    BY <2>2, Zenon
  <2>4. Waking => Waking'
    BY <2>1, <2>3, WakingStays
  <2> QED
    BY <1>7, <2>4, StaysAwake DEF Wake, Closed
<1>8. CASE Take
  <2>1. CASE (Closed \/ queue = <<>>) /\ worker' = [pc |-> "sleep"] /\ UNCHANGED queue
    BY <1>8, <2>1 DEF Take, NeverSleptOn, Closed
  <2>2. CASE queue # <<>> /\ worker' = [pc |-> "timer", wait |-> Shortest] /\ UNCHANGED queue
    <3>1. \A i \in 1 .. Len(queue) : Shortest <= queue[i].wait
      BY <2>2, ShortestIsFirst DEF WebTypes
    <3> QED
      BY <2>2, <3>1 DEF NeverSleptOn
  <2>3. ASSUME NEW i \in Ready, worker' = [pc |-> "send", d |-> queue[i]] PROVE NeverSleptOn'
    BY <2>3 DEF NeverSleptOn
  <2> QED
    BY <1>8, <2>1, <2>2, <2>3 DEF Take
<1>9. CASE Deliver \/ Awakes \/ TimerFires \/ Quits
  BY <1>9 DEF Deliver, Settled, Fails, Awakes, TimerFires, Quits, NeverSleptOn
<1>10. CASE Tick
  <2>1. /\ queue' = [i \in 1 .. Len(queue) |-> [queue[i] EXCEPT !.wait = IF @ = 0 THEN 0 ELSE @ - 1]]
        /\ worker' = IF worker.pc = "timer" /\ worker.wait > 0
                     THEN [worker EXCEPT !.wait = @ - 1] ELSE worker
        /\ UNCHANGED <<wake, closing, reporter>>
    BY <1>10 DEF Tick
  <2> SUFFICES ASSUME ~Closed, ~Waking
               PROVE  /\ worker'.pc = "sleep" => queue' = <<>>
                      /\ worker'.pc = "timer" => \A i \in 1 .. Len(queue') : worker'.wait <= queue'[i].wait
    BY <2>1 DEF NeverSleptOn, Closed, Waking
  <2>2. Len(queue) \in Nat /\ queue \in Seq(Deliveries)
    BY DEF WebTypes
  <2>3. worker'.pc = "sleep" => queue' = <<>>
    <3> SUFFICES ASSUME worker'.pc = "sleep" PROVE queue' = <<>>
      OBVIOUS
    <3>1. worker.pc = "sleep"
      BY <2>1, WorkerFields DEF WebTypes, Workers
    <3>2. queue = <<>>
      BY <3>1 DEF NeverSleptOn
    <3> QED
      BY <2>1, <3>2
  <2>4. ASSUME worker'.pc = "timer", NEW i \in 1 .. Len(queue')
        PROVE  worker'.wait <= queue'[i].wait
    <3>1. Len(queue') = Len(queue)
      BY <2>1, <2>2
    <3>2. worker \in Workers /\ worker.pc = "timer"
      BY <2>1, <2>4, WorkerFields DEF WebTypes, Workers
    <3>3. worker.wait \in Nat /\ worker'.wait = IF worker.wait > 0 THEN worker.wait - 1 ELSE worker.wait
      BY <2>1, <3>2 DEF Workers
    <3>4. queue[i] \in Deliveries /\ worker.wait <= queue[i].wait
      BY <2>2, <2>4, <3>1, <3>2 DEF NeverSleptOn
    <3>5. queue'[i].wait = IF queue[i].wait = 0 THEN 0 ELSE queue[i].wait - 1
      BY <2>1, <2>4, <3>1, <3>4 DEF Deliveries
    <3> QED
      BY <3>3, <3>4, <3>5 DEF Deliveries
  <2> QED
    BY <2>3, <2>4
<1>11. CASE CloseBegins \/ Closing
  <2>1. Closed' /\ UNCHANGED <<queue, worker>>
    BY <1>11 DEF CloseBegins, Closing, CloseQuits, CloseReturns, CloseTo, Closed
  <2> QED
    BY <2>1 DEF NeverSleptOn
<1> QED
  BY <1>1, <1>3, <1>4, <1>5, <1>6, <1>7, <1>8, <1>9, <1>10, <1>11
     DEF WebhooksNext, Reporting, Work

\* The worker is never left asleep on a delivery, whatever the order of push, its
\* token and take.
THEOREM WorkerNeverSleptOn == WebhooksSpec => []NeverSleptOn
<1>1. WebhooksInit => WebTypes /\ NeverSleptOn
  BY WebTypesStart, AwakeStart
<1>2. (WebTypes /\ NeverSleptOn) /\ [WebhooksNext]_webhooks => (WebTypes /\ NeverSleptOn)'
  BY WebTypesStep, AwakeStep
<1> QED
  BY <1>1, <1>2, PTL DEF WebhooksSpec

-----------------------------------------------------------------------------
(* An event goes to an endpoint once *)

Name(d) == <<d.id, d.to>>
Names(q) == {Name(q[i]) : i \in 1 .. Len(q)}
Single(q) == \A i, j \in 1 .. Len(q) : Name(q[i]) = Name(q[j]) => i = j
Held == IF worker.pc = "send" THEN {Name(worker.d)} ELSE {}

\* Of what is queued or in hand nothing is there twice, all of it was reported, and
\* a reporter still owes an endpoint only what is not there yet.
OnceInv ==
    /\ Single(queue) /\ Names(queue) \cap Held = {}
    /\ \A d \in Names(queue) \cup Held : d[1] <= reports
    /\ \A p \in Reporters : reporter[p].pc # "idle" =>
           /\ reporter[p].id <= reports
           /\ \A e \in reporter[p].to : <<reporter[p].id, e>> \notin Names(queue) \cup Held
    /\ \A p, o \in Reporters :
           reporter[p].pc # "idle" /\ reporter[o].pc # "idle" /\ reporter[p].id = reporter[o].id => p = o

LEMMA OneOfEach == OnceInv => OneDelivery
<1> SUFFICES ASSUME OnceInv PROVE OneDelivery
  OBVIOUS
<1>1. ASSUME NEW i \in 1 .. Len(queue), NEW j \in 1 .. Len(queue),
             queue[i].id = queue[j].id, queue[i].to = queue[j].to
      PROVE  i = j
  BY <1>1 DEF OnceInv, Single, Name
<1>2. ASSUME worker.pc = "send", NEW i \in 1 .. Len(queue),
             queue[i].id = worker.d.id, queue[i].to = worker.d.to
      PROVE  FALSE
  <2>1. Name(queue[i]) = Name(worker.d) /\ Name(queue[i]) \in Names(queue)
    BY <1>2 DEF Name, Names
  <2> QED
    BY <1>2, <2>1 DEF OnceInv, Held
<1> QED
  BY <1>1, <1>2 DEF OneDelivery

\* What is taken is in the queue no more.
LEMMA TakenName ==
    ASSUME NEW q \in Seq(Deliveries), NEW k \in 1 .. Len(q), Single(q)
    PROVE  /\ Single(RemoveAt(q, k)) /\ Name(q[k]) \notin Names(RemoveAt(q, k))
           /\ Name(q[k]) \in Names(q) /\ Names(RemoveAt(q, k)) \subseteq Names(q)
<1> DEFINE r == RemoveAt(q, k)
           n == Len(q)
           at(i) == IF i < k THEN i ELSE i + 1
<1>1. n \in Nat /\ k \in 1 .. n /\ Len(r) = n - 1
      /\ \A i \in 1 .. n - 1 : r[i] = IF i < k THEN q[i] ELSE q[i + 1]
  BY Removed
<1>2. Single(q) <=> \A i, j \in 1 .. n : Name(q[i]) = Name(q[j]) => i = j
  BY DEF Single
<1>3. Names(q) = {Name(q[i]) : i \in 1 .. n} /\ Names(r) = {Name(r[i]) : i \in 1 .. n - 1}
  BY <1>1 DEF Names
<1> HIDE DEF r, n
<1>4. \A i \in 1 .. n - 1 : at(i) \in 1 .. n /\ at(i) # k /\ r[i] = q[at(i)]
  BY <1>1
<1>5. \A i, j \in 1 .. n - 1 : at(i) = at(j) => i = j
  BY <1>1
<1> HIDE DEF at
<1>6. Single(r)
  <2>1. ASSUME NEW i \in 1 .. n - 1, NEW j \in 1 .. n - 1, Name(r[i]) = Name(r[j]) PROVE i = j
    <3>1. at(i) \in 1 .. n /\ at(j) \in 1 .. n /\ Name(q[at(i)]) = Name(q[at(j)])
      BY <1>4, <2>1
    <3>2. at(i) = at(j)
      BY <3>1, <1>2
    <3> QED
      BY <3>2, <1>5
  <2> QED
    BY <2>1, <1>1 DEF Single
<1>7. ASSUME NEW i \in 1 .. n - 1 PROVE Name(r[i]) # Name(q[k]) /\ Name(r[i]) \in Names(q)
  <2>1. r[i] = q[at(i)] /\ at(i) # k /\ at(i) \in 1 .. n
    BY <1>4
  <2> QED
    BY <2>1, <1>1, <1>2, <1>3
<1> QED
  BY <1>1, <1>3, <1>6, <1>7 DEF r

\* What is pushed is new to the queue, or the queue holds it twice.
LEMMA PushedName ==
    ASSUME queue \in Seq(Deliveries), Len(queue) <= MaxQueued, NEW d \in Deliveries,
           Single(queue), Name(d) \notin Names(queue)
    PROVE  Single(Pushed(d)) /\ Names(Pushed(d)) \subseteq Names(queue) \cup {Name(d)}
<1>1. CASE Closed
  BY <1>1 DEF Pushed
<1>2. CASE ~Closed
  <2> DEFINE r == Pushed(d)
             n == Len(queue)
             k == Dropped
  <2>1. /\ n \in Nat /\ k \in {0, 1} /\ k <= n /\ Len(r) = n + 1 - k /\ r[n + 1 - k] = d
        /\ \A i \in 1 .. n - k : r[i] = queue[i + k]
    BY <1>2, QueueGains
  <2>2. \A i, j \in 1 .. n : Name(queue[i]) = Name(queue[j]) => i = j
    BY DEF Single
  <2>3. \A i \in 1 .. n : Name(queue[i]) \in Names(queue)
    BY DEF Names
  <2>4. Names(r) = {Name(r[i]) : i \in 1 .. Len(r)}
    BY DEF Names
  <2> HIDE DEF r, n, k
  <2>5. ASSUME NEW i \in 1 .. Len(r)
        PROVE  \/ i = n + 1 - k /\ r[i] = d
               \/ i < n + 1 - k /\ i + k \in 1 .. n /\ r[i] = queue[i + k]
    BY <2>1
  <2>6. Names(r) \subseteq Names(queue) \cup {Name(d)}
    <3>1. \A i \in 1 .. Len(r) : Name(r[i]) \in Names(queue) \cup {Name(d)}
      BY <2>3, <2>5
    <3> QED
      BY <2>4, <3>1
  <2>7. ASSUME NEW i \in 1 .. Len(r), NEW j \in 1 .. Len(r), Name(r[i]) = Name(r[j]) PROVE i = j
    <3>1. CASE r[i] = d /\ i = n + 1 - k
      BY <3>1, <2>1, <2>3, <2>5, <2>7
    <3>2. CASE i + k \in 1 .. n /\ r[i] = queue[i + k]
      <4>1. r[j] = queue[j + k] /\ j + k \in 1 .. n
        BY <3>2, <2>3, <2>5, <2>7
      <4>2. i + k = j + k
        BY <3>2, <4>1, <2>2, <2>7
      <4> QED
        BY <4>2, <2>1
    <3> QED
      BY <3>1, <3>2, <2>5
  <2> QED
    BY <2>6, <2>7 DEF Single, r
<1> QED
  BY <1>1, <1>2

\* A step of the worker: it adds nothing, and keeps apart what it has.
LEMMA HandsOn ==
    ASSUME OnceInv, UNCHANGED <<reporter, reports>>, Single(queue'), Names(queue') \cap Held' = {},
           Names(queue') \cup Held' \subseteq Names(queue) \cup Held
    PROVE  OnceInv'
BY DEF OnceInv

\* A reporter takes up an event nobody has reported yet.
LEMMA NewEvent ==
    ASSUME WebTypes, OnceInv, NEW p \in Reporters, reporter[p] = NoReport, Report(p), UNCHANGED <<queue, worker>>
    PROVE  OnceInv'
<1> DEFINE N == Names(queue) \cup Held
<1>1. /\ reports \in Nat /\ reports' = reports + 1
      /\ reporter' = [reporter EXCEPT ![p] = [pc |-> "push", id |-> reports + 1, to |-> Endpoints]]
      /\ reporter'[p] = [pc |-> "push", id |-> reports + 1, to |-> Endpoints]
      /\ \A o \in Reporters \ {p} : reporter'[o] = reporter[o]
  BY ReportTypes DEF WebTypes
<1>2. N' = N /\ Single(queue)' /\ Names(queue') \cap Held' = {}
  BY DEF OnceInv, Held
<1>3. \A d \in N : d[1] <= reports
  BY DEF OnceInv
<1>4. ASSUME NEW d \in N PROVE d[1] \in Int /\ d[1] <= reports'
  <2>1. d[1] \in Int
    <3>1. CASE d \in Held
      BY <3>1, WorkerFields DEF Held, Name, WebTypes, Deliveries
    <3>2. CASE d \in Names(queue)
      <4>1. PICK i \in 1 .. Len(queue) : d = Name(queue[i])
        BY <3>2 DEF Names
      <4>2. queue[i] \in Deliveries
        BY DEF WebTypes
      <4> QED
        BY <4>1, <4>2 DEF Name, Deliveries
    <3> QED
      BY <3>1, <3>2
  <2> QED
    BY <2>1, <1>1, <1>3
<1>5. ASSUME NEW o \in Reporters, o # p, reporter'[o].pc # "idle"
      PROVE  /\ reporter'[o].id \in Nat /\ reporter'[o].id <= reports
             /\ \A e \in reporter'[o].to : <<reporter'[o].id, e>> \notin N
  BY <1>1, <1>5, ReportFields DEF OnceInv, WebTypes
<1>6. \A e \in Endpoints : <<reports + 1, e>> \notin N
  <2> SUFFICES ASSUME NEW e \in Endpoints, <<reports + 1, e>> \in N PROVE FALSE
    OBVIOUS
  <2>1. <<reports + 1, e>>[1] <= reports
    BY <1>3
  <2> QED
    BY <2>1, <1>1
<1> HIDE DEF N
<1>7. ASSUME NEW o \in Reporters, reporter'[o].pc # "idle"
      PROVE  /\ reporter'[o].id <= reports'
             /\ \A e \in reporter'[o].to : <<reporter'[o].id, e>> \notin N'
  <2>1. CASE o = p
    BY <2>1, <1>1, <1>2, <1>6
  <2>2. CASE o # p
    BY <2>2, <1>1, <1>2, <1>5, <1>7
  <2> QED
    BY <2>1, <2>2
<1>8. ASSUME NEW o \in Reporters, NEW s \in Reporters,
             reporter'[o].pc # "idle", reporter'[s].pc # "idle", reporter'[o].id = reporter'[s].id
      PROVE  o = s
  <2>1. CASE o = p /\ s # p
    BY <2>1, <1>1, <1>5, <1>8
  <2>2. CASE o # p /\ s = p
    BY <2>2, <1>1, <1>5, <1>8
  <2>3. CASE o # p /\ s # p
    BY <2>3, <1>1, <1>8 DEF OnceInv
  <2> QED
    BY <2>1, <2>2, <2>3
<1>9. \A d \in N' : d[1] <= reports'
  BY <1>2, <1>4
<1> QED
  BY <1>2, <1>7, <1>8, <1>9 DEF OnceInv, N

\* A reporter hands one of its deliveries over: the others owe another event.
LEMMA HandsOver ==
    ASSUME WebTypes, OnceInv, NEW p \in Reporters, Push(p)
    PROVE  OnceInv'
<1>1. PICK e \in reporter[p].to :
         /\ queue' = Pushed([id |-> reporter[p].id, to |-> e, attempt |-> 0, wait |-> 0])
         /\ reporter' = [reporter EXCEPT ![p].pc = IF Closed THEN "next" ELSE "wake",
                                         ![p].to = @ \ {e}]
  BY DEF Push
<1>2. reporter[p].pc = "push" /\ UNCHANGED <<worker, reports>>
  BY DEF Push
<1>3. reporter[p] \in Reports /\ reporter[p].id \in 1 .. MaxReports /\ reporter[p].to \in SUBSET Endpoints
  BY <1>2, ReportFields DEF WebTypes
<1> DEFINE id == reporter[p].id
           d == [id |-> id, to |-> e, attempt |-> 0, wait |-> 0]
           N == Names(queue) \cup Held
<1>4. d \in Deliveries /\ Name(d) = <<id, e>>
  BY <1>3, WebhooksAssumption DEF Deliveries, Name
<1>5. id <= reports /\ \A x \in reporter[p].to : <<id, x>> \notin N
  BY <1>2 DEF OnceInv
<1>6. Single(queue') /\ Names(queue') \subseteq Names(queue) \cup {<<id, e>>} /\ Held' = Held
  <2>1. Single(Pushed(d)) /\ Names(Pushed(d)) \subseteq Names(queue) \cup {Name(d)}
    BY <1>4, <1>5, PushedName DEF OnceInv, WebTypes
  <2> QED
    BY <2>1, <1>1, <1>2, <1>4 DEF Held
<1>7. Names(queue') \cap Held' = {} /\ N' \subseteq N \cup {<<id, e>>}
  BY <1>5, <1>6 DEF OnceInv
<1>8. \A x \in N' : x[1] <= reports'
  <2>1. \A x \in N : x[1] <= reports
    BY DEF OnceInv
  <2>2. <<id, e>>[1] = id
    OBVIOUS
  <2> QED
    BY <2>1, <2>2, <1>2, <1>5, <1>7
<1>9. /\ reporter'[p].pc # "idle" /\ reporter'[p].id = id /\ reporter'[p].to = reporter[p].to \ {e}
      /\ \A o \in Reporters \ {p} : reporter'[o] = reporter[o]
  BY <1>1, <1>3 DEF WebTypes, Reports
<1>10. ASSUME NEW o \in Reporters, reporter'[o].pc # "idle"
       PROVE  /\ reporter'[o].id <= reports' /\ reporter[o].pc # "idle" /\ reporter'[o].id = reporter[o].id
              /\ \A x \in reporter'[o].to : <<reporter'[o].id, x>> \notin N'
  <2>1. CASE o = p
    <3>1. ASSUME NEW x \in reporter[p].to \ {e} PROVE <<id, x>> \notin N'
      <4>1. <<id, x>> \notin N /\ <<id, x>> # <<id, e>>
        BY <1>5
      <4> QED
        BY <4>1, <1>7
    <3> QED
      BY <2>1, <3>1, <1>2, <1>5, <1>9
  <2>2. CASE o # p
    <3>1. reporter'[o] = reporter[o] /\ reporter[o].pc # "idle"
      BY <2>2, <1>9, <1>10
    <3>2. reporter[o].id <= reports /\ reporter[o].id # id
          /\ \A x \in reporter[o].to : <<reporter[o].id, x>> \notin N
      BY <2>2, <3>1, <1>2 DEF OnceInv
    <3>3. ASSUME NEW x \in reporter[o].to PROVE <<reporter[o].id, x>> \notin N'
      <4>1. <<reporter[o].id, x>> \notin N /\ <<reporter[o].id, x>> # <<id, e>>
        BY <3>2
      <4> QED
        BY <4>1, <1>7
    <3> QED
      BY <3>1, <3>2, <3>3, <1>2
  <2> QED
    BY <2>1, <2>2
<1>11. ASSUME NEW o \in Reporters, NEW s \in Reporters,
              reporter'[o].pc # "idle", reporter'[s].pc # "idle", reporter'[o].id = reporter'[s].id
       PROVE  o = s
  BY <1>10, <1>11 DEF OnceInv
<1> HIDE DEF id, d
<1> QED
  BY <1>6, <1>7, <1>8, <1>10, <1>11 DEF OnceInv

LEMMA OnceStart == WebhooksInit => OnceInv
<1> SUFFICES ASSUME WebhooksInit PROVE OnceInv
  OBVIOUS
<1>1. Names(queue) = {} /\ Held = {} /\ Single(queue)
  BY DEF WebhooksInit, Names, Held, Single
<1>2. \A p \in Reporters : reporter[p].pc = "idle"
  BY DEF WebhooksInit, NoReport
<1> QED
  BY <1>1, <1>2 DEF OnceInv

LEMMA OnceStep == WebTypes /\ OnceInv /\ [WebhooksNext]_webhooks => OnceInv'
<1> SUFFICES ASSUME WebTypes, OnceInv, [WebhooksNext]_webhooks PROVE OnceInv'
  OBVIOUS
<1>0. Single(queue) /\ Names(queue) \cap Held = {}
  BY DEF OnceInv
<1>1. ASSUME UNCHANGED <<queue, reporter, reports>>, UNCHANGED worker \/ worker'.pc # "send" PROVE OnceInv'
  <2>1. Held' \subseteq Held
    BY <1>1 DEF Held
  <2> QED
    BY <1>0, <1>1, <2>1, HandsOn
<1>2. ASSUME NEW p \in Reporters, NEW k \in Keys, Alert(p, k) \/ ResolveAlert(p, k) PROVE OnceInv'
  BY <1>2, NewEvent DEF Alert, ResolveAlert
<1>3. ASSUME NEW p \in Reporters, Dispatch(p) PROVE OnceInv'
  BY <1>3, NewEvent DEF Dispatch
<1>4. ASSUME NEW p \in Reporters, Wake(p) PROVE OnceInv'
  <2>1. UNCHANGED <<queue, worker, reports>> /\ NextEndpoint(p) /\ reporter[p].pc # "idle"
    BY <1>4 DEF Wake
  <2>2. reporter[p] \in Reports
    BY <2>1, ReportFields DEF WebTypes
  <2>3. ASSUME NEW o \in Reporters, reporter'[o].pc # "idle"
        PROVE  reporter[o].pc # "idle" /\ reporter'[o].id = reporter[o].id /\ reporter'[o].to = reporter[o].to
    BY <2>1, <2>2, <2>3 DEF NextEndpoint, WebTypes, Reports, NoReport
  <2>4. Held' = Held
    BY <2>1 DEF Held
  <2> QED
    BY <2>1, <2>3, <2>4 DEF OnceInv
<1>5. CASE Take
  <2>1. worker.pc = "take" /\ UNCHANGED <<reporter, reports>>
    BY <1>5 DEF Take
  <2>2. CASE UNCHANGED queue /\ worker'.pc # "send"
    BY <2>1, <2>2, <1>1
  <2>3. ASSUME NEW i \in Ready, worker' = [pc |-> "send", d |-> queue[i]], queue' = RemoveAt(queue, i)
        PROVE  OnceInv'
    <3>1. i \in 1 .. Len(queue) /\ queue \in Seq(Deliveries)
      BY DEF Ready, WebTypes
    <3>2. /\ Single(queue') /\ Name(queue[i]) \notin Names(queue')
          /\ Name(queue[i]) \in Names(queue) /\ Names(queue') \subseteq Names(queue)
      BY <1>0, <2>3, <3>1, TakenName
    <3>3. Held' = {Name(queue[i])}
      BY <2>3 DEF Held
    <3> QED
      BY <2>1, <3>2, <3>3, HandsOn
  <2> QED
    BY <1>5, <2>2, <2>3 DEF Take
<1>6. CASE Fails
  <2>1. worker.pc = "send" /\ worker' = [pc |-> "take"] /\ UNCHANGED <<reporter, reports>>
    BY <1>6 DEF Fails
  <2>2. worker.d \in Deliveries /\ Held = {Name(worker.d)} /\ Held' = {}
    BY <2>1, WorkerFields DEF Held, WebTypes
  <2> DEFINE n == worker.d.attempt + 1
             d == [worker.d EXCEPT !.attempt = n, !.wait = Retry[n]]
  <2>3. CASE UNCHANGED queue
    BY <2>1, <2>3, <1>1
  <2>4. CASE n <= Len(Retry) /\ queue' = Pushed(d)
    <3>1. Name(d) = Name(worker.d)
      BY <2>2 DEF Name, Deliveries
    <3>2. n \in 1 .. Len(Retry) /\ Retry \in Seq(Nat)
      BY <2>2, <2>4, WebhooksAssumption DEF Deliveries
    <3>3. d \in Deliveries
      <4>1. Retry[n] \in Nat /\ n \in 0 .. Len(Retry)
        BY <3>2
      <4>2. worker.d \in [id : 1 .. MaxReports, to : Endpoints, attempt : 0 .. Len(Retry), wait : Nat]
        BY <2>2 DEF Deliveries
      <4> HIDE DEF n
      <4> QED
        BY <4>1, <4>2 DEF Deliveries
    <3> HIDE DEF d
    <3>4. Name(d) \notin Names(queue)
      BY <3>1, <2>2, <1>0
    <3>5. Single(queue') /\ Names(queue') \subseteq Names(queue) \cup {Name(d)}
      BY <2>4, <3>3, <3>4, <1>0, PushedName DEF WebTypes
    <3> QED
      BY <2>1, <2>2, <3>1, <3>5, HandsOn
  <2> QED
    BY <1>6, <2>3, <2>4 DEF Fails
<1>7. CASE Tick
  <2>1. /\ queue' = [i \in 1 .. Len(queue) |-> [queue[i] EXCEPT !.wait = IF @ = 0 THEN 0 ELSE @ - 1]]
        /\ UNCHANGED <<reporter, reports>>
    BY <1>7 DEF Tick
  <2>2. Len(queue) \in Nat /\ \A i \in 1 .. Len(queue) : queue[i] \in Deliveries
    BY DEF WebTypes
  <2>3. Len(queue') = Len(queue)
    BY <2>1, <2>2
  <2>4. \A i \in 1 .. Len(queue) : Name(queue'[i]) = Name(queue[i])
    BY <2>1, <2>2 DEF Name, Deliveries
  <2>5. Names(queue') = Names(queue) /\ Single(queue')
    BY <1>0, <2>3, <2>4 DEF Names, Single
  <2>6. Held' = Held
    <3>1. CASE UNCHANGED worker
      BY <3>1 DEF Held
    <3>2. CASE worker.pc = "timer" /\ worker' = [worker EXCEPT !.wait = @ - 1]
      <4>1. worker \in Workers
        BY DEF WebTypes
      <4>2. worker'.pc = "timer"
        BY <3>2, <4>1 DEF Workers
      <4> QED
        BY <3>2, <4>2 DEF Held
    <3> QED
      BY <1>7, <3>1, <3>2 DEF Tick
  <2> QED
    BY <2>1, <2>5, <2>6, <1>0, HandsOn
<1>8. CASE Settled \/ Awakes \/ TimerFires \/ Quits
  BY <1>1, <1>8 DEF Settled, Awakes, TimerFires, Quits
<1>9. CASE UNCHANGED webhooks \/ CloseBegins \/ Closing \/ \E k \in Keys : Stale(k)
  BY <1>1, <1>9 DEF webhooks, CloseBegins, Closing, CloseQuits, CloseReturns, CloseTo, Stale
<1>10. ASSUME NEW p \in Reporters, Push(p) PROVE OnceInv'
  BY <1>10, HandsOver
<1> QED
  BY <1>2, <1>3, <1>4, <1>5, <1>6, <1>7, <1>8, <1>9, <1>10
     DEF WebhooksNext, Reporting, Work, Deliver

\* An endpoint has one delivery of an event at most, however often it is retried
\* and however the reporters interleave.
THEOREM OneDeliveryEach == WebhooksSpec => []OneDelivery
<1>1. WebhooksInit => WebTypes /\ OnceInv
  BY WebTypesStart, OnceStart
<1>2. (WebTypes /\ OnceInv) /\ [WebhooksNext]_webhooks => (WebTypes /\ OnceInv)'
  BY WebTypesStep, OnceStep
<1> QED
  BY <1>1, <1>2, OneOfEach, PTL DEF WebhooksSpec
=============================================================================
