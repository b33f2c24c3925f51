--------------------------- MODULE ForgeUpstream ---------------------------
(***************************************************************************)
(* The supervisor of one upstream tunnel zone (forgedns/upstream): Sync    *)
(* brings the zone to a version of its settings, a goroutine per start     *)
(* keeps the binary running on the files in the zone's directory, and a    *)
(* version that does not come up is rolled back.                           *)
(*                                                                         *)
(* A version is a configuration and a key.  The configuration file is what *)
(* the signature covers; the key is a file of its own.  Configurations in  *)
(* Bad make the binary exit within the settle window.                      *)
(***************************************************************************)
EXTENDS Integers, FiniteSets

CONSTANTS
    Syncers,
    Versions,    \* records [cfg, key]
    Bad,         \* configurations the binary rejects
    MaxProcs,    \* bound: procs started
    MaxSyncs,    \* bound: calls of Sync
    MaxMishaps    \* bound: crashes of a good binary, busy ports, failed writes,
                  \* binaries that outlive SIGKILL

Absent == [cfg |-> "absent"]    \* the zone is not, or no longer, wanted
Torn == "torn"                  \* a file whose write failed half way

ASSUME UpstreamAssumption ==
    /\ MaxProcs \in Nat
    /\ \A v \in Versions : v = [cfg |-> v.cfg, key |-> v.key]

VARIABLES
    zone,     \* server_config.toml and encrypt_key.txt
    cur,      \* Manager.procs of the zone: a proc, or None
    proc,     \* procs by order of creation
    server,      \* the supervise goroutine of a proc
    child,    \* the version its binary runs, or Absent
    syncer,
    stuck,       \* ghost: procs whose stop gave up waiting
    good,     \* ghost: the last configuration that settled; absent when the zone is
              \* removed, or its files are left half written
    syncs, mishaps

procs == <<cur, proc, server, child>>
bounds == <<syncs, mishaps>>
upstream == <<zone, procs, syncer, stuck, good, bounds>>

-----------------------------------------------------------------------------
None == 0
Procs == 1 .. MaxProcs
Idle == [pc |-> "idle"]

Started == {i \in Procs : server[i] # "none"}
Fresh(i) == i \notin Started /\ \A j \in Procs : j \notin Started => i <= j
Running == {i \in Procs : child[i] # Absent}

UpstreamInit ==
    /\ zone = Absent
    /\ cur = None
    /\ proc = [i \in Procs |-> [sig |-> "absent", state |-> "stopped", stopping |-> FALSE]]
    /\ server = [i \in Procs |-> "none"]
    /\ child = [i \in Procs |-> Absent]
    /\ syncer = [c \in Syncers |-> Idle]
    /\ stuck = {} /\ good = "absent"
    /\ syncs = 0 /\ mishaps = 0

Mishap == mishaps < MaxMishaps /\ mishaps' = mishaps + 1

State(i, s) == proc' = [proc EXCEPT ![i].state = s]

-----------------------------------------------------------------------------
(* supervise *)

\* The binary starts, on the files as they are now; the context may be done.
Launch(i) ==
    /\ server[i] = "launch"
    /\ IF proc[i].stopping
       THEN server' = [server EXCEPT ![i] = "ended"] /\ State(i, "stopped") /\ UNCHANGED child
       ELSE /\ server' = [server EXCEPT ![i] = "wait"] /\ State(i, "running")
            /\ child' = [child EXCEPT ![i] = zone]
    /\ UNCHANGED <<zone, cur, syncer, stuck, good, bounds>>

Ended(i) ==
    /\ child' = [child EXCEPT ![i] = Absent]
    /\ IF proc[i].stopping
       THEN server' = [server EXCEPT ![i] = "ended"] /\ State(i, "stopped")
       ELSE server' = [server EXCEPT ![i] = "backoff"] /\ State(i, "crashed")
    /\ UNCHANGED <<zone, cur, syncer, stuck, good, syncs>>

\* The binary exits, because it was told to, rejects its configuration, or finds
\* the port taken by one that outlived its stop.
Exit(i) ==
    /\ server[i] = "wait"
    /\ proc[i].stopping \/ child[i].cfg \in Bad \/ Running # {i}
    /\ Ended(i) /\ UNCHANGED mishaps

Crash(i) ==
    /\ server[i] = "wait" /\ ~proc[i].stopping /\ child[i].cfg \notin Bad
    /\ Mishap /\ Ended(i)

\* sleepCtx, then the loop; a cancelled context ends it.
Backoff(i) ==
    /\ server[i] = "backoff"
    /\ server' = [server EXCEPT ![i] = IF proc[i].stopping THEN "ended" ELSE "launch"]
    /\ UNCHANGED <<zone, cur, proc, child, syncer, stuck, good, bounds>>

-----------------------------------------------------------------------------
(* start and stop *)

\* A new proc becomes the zone's, and its goroutine starts.
Start(sig) ==
    \E i \in Procs :
        /\ Fresh(i)
        /\ cur' = i
        /\ proc' = [proc EXCEPT ![i] = [sig |-> sig, state |-> "starting", stopping |-> FALSE]]
        /\ server' = [server EXCEPT ![i] = "launch"]
        /\ UNCHANGED child

\* stop cancels: SIGTERM to the group now, SIGKILL when it does not end in time.
Cancel(i) ==
    proc' = [proc EXCEPT ![i].stopping = TRUE,
                         ![i].state = IF @ \in {"running", "starting"} THEN "stopping" ELSE @]

\* Faulty variant: stop does not wait.
Gone_AtOnce(i) == TRUE

\* What stop waits for: supervise has returned, so the child is reaped.
Gone(i) == server[i] \in {"none", "ended"}

\* stop returns; after SIGKILL it waits three seconds more and then gives up.
StopReturns ==
    \/ Gone(cur) /\ UNCHANGED <<stuck, mishaps>>
    \/ server[cur] = "wait" /\ Mishap /\ stuck' = stuck \cup {cur}

-----------------------------------------------------------------------------
(* Sync.  Everything after "resolved" is under Manager.mu. *)

To(c, state) == syncer' = [syncer EXCEPT ![c] = state]

Free == \A c \in Syncers : syncer[c].pc \in {"idle", "resolved"}

\* resolve: the zone's settings as the caller read them, outside the lock.
Resolve(c, v) ==
    /\ syncer[c] = Idle
    /\ syncs < MaxSyncs /\ syncs' = syncs + 1
    /\ To(c, [pc |-> "resolved", want |-> v])
    /\ UNCHANGED <<zone, procs, stuck, good, mishaps>>

\* What a failed Apply leaves in the directory: nothing new, half of the
\* configuration, or the configuration without the key.
Unfinished(v) ==
    LET key == IF zone = Absent THEN "absent" ELSE zone.key IN
    {zone, [cfg |-> Torn, key |-> key], [cfg |-> v.cfg, key |-> key], [cfg |-> v.cfg, key |-> Torn]}

\* The zone is no longer wanted: stop it.  Otherwise install its files.  A failed
\* write fails the zone with the files as they are: the running binary still has
\* the old ones, and the next crash brings up the new.
Apply(c) ==
    LET v == syncer[c].want IN
    /\ syncer[c].pc = "resolved" /\ Free
    /\ \/ /\ v = Absent /\ cur = None
          /\ To(c, Idle) /\ UNCHANGED <<zone, proc, good, mishaps>>
       \/ /\ v = Absent /\ cur # None
          /\ Cancel(cur)
          /\ To(c, [pc |-> "remove"]) /\ UNCHANGED <<zone, good, mishaps>>
       \/ /\ v # Absent
          /\ zone' = v
          /\ To(c, [pc |-> "compare", want |-> v, prev |-> zone, old |-> cur])
          /\ UNCHANGED <<proc, good, mishaps>>
       \/ /\ v # Absent /\ Mishap
          /\ zone' \in Unfinished(v)
          /\ good' = IF zone' = zone THEN good ELSE "absent"
          /\ To(c, Idle) /\ UNCHANGED proc
    /\ UNCHANGED <<cur, server, child, stuck, syncs>>

Withdrawn(c) ==
    /\ syncer[c].pc = "remove" /\ StopReturns
    /\ cur' = None /\ good' = "absent"
    /\ To(c, Idle)
    /\ UNCHANGED <<zone, proc, server, child, syncs>>

\* Already running exactly this; or the old process has to stop first.
Compare(c) ==
    LET v == syncer[c].want IN
    /\ syncer[c].pc = "compare"
    /\ \/ /\ cur # None /\ proc[cur].sig = v.cfg /\ proc[cur].state = "running"
          /\ To(c, Idle) /\ UNCHANGED proc
       \/ /\ cur # None /\ (proc[cur].sig # v.cfg \/ proc[cur].state # "running")
          /\ Cancel(cur) /\ To(c, [syncer[c] EXCEPT !.pc = "stop"])
       \/ cur = None /\ To(c, [syncer[c] EXCEPT !.pc = "port"]) /\ UNCHANGED proc
    /\ UNCHANGED <<zone, cur, server, child, stuck, good, bounds>>

Stopped(c) ==
    /\ syncer[c].pc = "stop" /\ StopReturns
    /\ cur' = None
    /\ To(c, [syncer[c] EXCEPT !.pc = "port"])
    /\ UNCHANGED <<zone, proc, server, child, good, syncs>>

\* waitPortFree, then start; or somebody has the port, who may be one of ours that
\* outlived its stop.
Port(c) ==
    /\ syncer[c].pc = "port"
    /\ \/ /\ Running = {} /\ Started # Procs
          /\ Start(syncer[c].want.cfg)
          /\ To(c, [syncer[c] EXCEPT !.pc = "settle"]) /\ UNCHANGED mishaps
       \/ /\ IF Running = {} THEN Mishap ELSE UNCHANGED mishaps
          /\ To(c, [syncer[c] EXCEPT !.pc = "rollback"]) /\ UNCHANGED procs
    /\ UNCHANGED <<zone, stuck, good, syncs>>

\* waitSettled.  A configuration the binary rejects does not outlive the window.
Settle(c) ==
    /\ syncer[c].pc = "settle"
    /\ \/ /\ proc[cur].state = "running" /\ child[cur].cfg \notin Bad
          /\ good' = syncer[c].want.cfg
          /\ To(c, Idle) /\ UNCHANGED proc
       \/ /\ proc[cur].state = "crashed"
          /\ Cancel(cur)
          /\ To(c, [syncer[c] EXCEPT !.pc = "undo"]) /\ UNCHANGED good
    /\ UNCHANGED <<zone, cur, server, child, stuck, bounds>>

Undo(c) ==
    /\ syncer[c].pc = "undo" /\ StopReturns
    /\ cur' = None
    /\ To(c, [syncer[c] EXCEPT !.pc = "rollback"])
    /\ UNCHANGED <<zone, proc, server, child, good, syncs>>

\* Faulty variant: what failed to start is left in place.
Rollback_Forgets(c) ==
    /\ syncer[c].pc = "rollback"
    /\ To(c, Idle)
    /\ UNCHANGED <<zone, procs, stuck, good, bounds>>

\* rollback: the previous configuration, but not the previous key, and the
\* previous signature.  Without a previous process, or with an empty file (which
\* half a write may be), nothing is restored; nor is it when the write fails.
Rollback(c) ==
    LET old == syncer[c].old
        prev == syncer[c].prev IN
    /\ syncer[c].pc = "rollback"
    /\ To(c, Idle)
    /\ \/ /\ old = None \/ prev = Absent \/ prev.cfg = Torn
          /\ UNCHANGED <<zone, procs, good, mishaps>>
       \/ /\ old # None /\ prev # Absent /\ Started # Procs
          /\ zone' = [zone EXCEPT !.cfg = prev.cfg] /\ Start(proc[old].sig)
          /\ UNCHANGED <<good, mishaps>>
       \/ /\ old # None /\ prev # Absent /\ Mishap
          /\ \E cfg \in {zone.cfg, Torn} : zone' = [zone EXCEPT !.cfg = cfg]
          /\ good' = "absent" /\ UNCHANGED procs
    /\ UNCHANGED <<stuck, syncs>>

-----------------------------------------------------------------------------
Serve(i) == Launch(i) \/ Exit(i) \/ Backoff(i)
Sync(c) ==
    \/ Apply(c) \/ Withdrawn(c) \/ Compare(c) \/ Stopped(c)
    \/ Port(c) \/ Settle(c) \/ Undo(c) \/ Rollback(c)

UpstreamNext ==
    \/ \E i \in Procs : Serve(i) \/ Crash(i)
    \/ \E c \in Syncers : Sync(c) \/ \E v \in Versions \cup {Absent} : Resolve(c, v)

UpstreamSpec == UpstreamInit /\ [][UpstreamNext]_upstream

-----------------------------------------------------------------------------
(* Properties *)

UpstreamTypeOK ==
    /\ zone \in {Absent} \cup [cfg : {v.cfg : v \in Versions} \cup {Torn},
                             key : {v.key : v \in Versions} \cup {Torn, "absent"}]
    /\ cur \in {None} \cup Procs /\ stuck \subseteq Procs
    /\ \A i \in Procs : server[i] \in {"none", "launch", "wait", "backoff", "ended"}
    /\ \A i \in Procs : child[i] # Absent => server[i] = "wait"

\* Two binaries of the zone never run at once, one that outlived SIGKILL apart: the
\* replacement would race the old one for the zone's port.
OneChild == Cardinality(Running \ stuck) <= 1

\* "A bad edit degrades to 'still running the old settings' rather than 'zone
\* down'": while a configuration has settled and the zone is wanted, some
\* configuration that can run comes back, unless a failed write, of the edit or of
\* the roll-back, left the files half done or the zone down, or a binary that
\* outlived SIGKILL has the port.
GoodConfigReturns ==
    good # "absent" ~>
        \/ good = "absent"
        \/ \E i \in Running : child[i].cfg \notin Bad
        \/ Running \cap stuck # {}
=============================================================================
