------------------------------ MODULE CorePins ------------------------------
(***************************************************************************)
(* Which version of a core the panel runs: the pin and rollback requests   *)
(* (internal/api/cores.go), the settings they are kept in, and the binary  *)
(* manager that installs and resolves them (internal/core/binmgr).         *)
(*                                                                         *)
(* A version is pinned by rewriting two settings, the selected version and *)
(* the one before it, and then replacing the manager's whole map of pins,  *)
(* which is built from the settings as the request read them.  Requests    *)
(* are under no lock.  A version's binary has a directory of its own:      *)
(* Ensure computes it from the pins, and the installer reads the pins      *)
(* again for what to download into it.                                     *)
(*                                                                         *)
(* Digests are left out: a request is one whose digests are complete, and  *)
(* a download is one that verifies.                                        *)
(***************************************************************************)
EXTENDS Naturals

CONSTANTS Engines,      \* the managed engines
          Releases,     \* versions an operator may pin
          Shipped,      \* no selection: the version this build came with
          VersionFirst, \* engines whose version setting sorts before the other
          WithData,     \* engines whose archive holds data files (Xray)
          PinRequests,  \* handlers of pin and rollback requests
          Installers,   \* goroutines in Ensure: a reload, the diagnostics
          Absent,       \* no binary, and no engine
          MaxRequests, MaxInstalls, MaxBreaks  \* bounds: requests, installs, failures

Versions == Releases \cup {Shipped}

ASSUME PinsAssumption ==
    /\ Shipped \notin Releases /\ Absent \notin Versions \cup Engines
    /\ VersionFirst \subseteq Engines /\ WithData \subseteq Engines

VARIABLES chosen,   \* setting core_version_<engine>
          former,   \* setting core_version_prev_<engine>
          running,  \* Manager.Pins
          reqs,     \* request -> its local variables
          folder,   \* engine -> version -> what is installed in its directory
          ensure,   \* installer -> its local variables
          asked, installs, breaks,  \* requests, installs and failures so far
          loose,    \* ghost: engines whose settings were written in part, or by
                    \* requests that overlapped on them
          behind,   \* ghost: a selection was written and not yet applied, or
                    \* applied by a request that overlapped another
          moved     \* ghost: <<engine, version>>: a pin moved, or the panel
                    \* failed, inside an install of it

settings == <<chosen, former, loose>>
files == <<folder, ensure, installs, moved>>
pins == <<chosen, former, running, reqs, folder, ensure, asked, installs, breaks, loose, behind, moved>>

\* A request's engine, version, the selection it read and the selection its
\* map was built from; the engines of the requests in flight with it.
NoPinRequest == [pc |-> "idle", engine |-> Absent, version |-> Shipped, prev |-> Shipped,
              map |-> [x \in Engines |-> Shipped], met |-> {}]
RequestStages == {"idle", "read", "first", "second", "apply"}
RequestRecords == [pc : RequestStages, engine : Engines \cup {Absent}, version : Versions, prev : Versions,
                   map : [Engines -> Versions], met : SUBSET Engines]

\* An installer's engine, the version its path is for and the one it fetches.
NoInstall == [pc |-> "idle", engine |-> Absent, path |-> Shipped, version |-> Shipped]
EnsureStages == {"idle", "install", "finalize", "data"}
EnsureRecords == [pc : EnsureStages, engine : Engines \cup {Absent}, path : Versions, version : Versions]

\* What a directory holds: a binary, and the data files of its archive.
Empty == [binary |-> Absent, data |-> FALSE]
Folders == [binary : Versions \cup {Absent}, data : BOOLEAN]

PinsInit ==
    /\ chosen = [e \in Engines |-> Shipped] /\ former = chosen /\ running = chosen
    /\ reqs = [r \in PinRequests |-> NoPinRequest]
    /\ folder = [e \in Engines |-> [v \in Versions |-> Empty]]
    /\ ensure = [i \in Installers |-> NoInstall]
    /\ asked = 0 /\ installs = 0 /\ breaks = 0
    /\ loose = {} /\ behind = FALSE /\ moved = {}

-----------------------------------------------------------------------------
(* PinRequests. *)

InFlight(r) == reqs[r].pc \in {"first", "second", "apply"}

\* handlePinCore is asked for a version.  handleRollbackCore reads the two
\* settings: the version is the former one, if it is another.
Ask(r, e, v) ==
    /\ reqs[r].pc = "idle" /\ asked < MaxRequests
    /\ \/ v \in Releases
       \/ v = former[e] /\ chosen[e] # former[e]
    /\ reqs' = [reqs EXCEPT ![r] = [NoPinRequest EXCEPT !.pc = "read", !.engine = e, !.version = v]]
    /\ asked' = asked + 1
    /\ UNCHANGED <<settings, running, files, breaks, behind>>

\* The map of pins: the selections as they are, but for the one asked for.
MapFor_One(r) == [e \in Engines |-> IF e = reqs[r].engine THEN reqs[r].version ELSE Shipped]
MapFor(r) == [chosen EXCEPT ![reqs[r].engine] = reqs[r].version]

\* applyCoreSelection reads every selection and builds the map of pins.
Read(r) ==
    /\ reqs[r].pc = "read"
    /\ LET e == reqs[r].engine
           others == {s \in PinRequests \ {r} : InFlight(s)}
       IN reqs' = [s \in PinRequests |->
            IF s = r THEN [reqs[r] EXCEPT !.pc = "first", !.prev = chosen[e],
                             !.map = MapFor(r),
                             !.met = {reqs[o].engine : o \in others}]
            ELSE IF s \in others THEN [reqs[s] EXCEPT !.met = @ \cup {e}]
            ELSE reqs[s]]
    /\ UNCHANGED <<settings, running, files, asked, breaks, behind>>

Solo(r) == reqs[r].met = {}
AloneOn(r) == reqs[r].engine \notin reqs[r].met

WriteVersion(r) ==
    /\ chosen' = [chosen EXCEPT ![reqs[r].engine] = reqs[r].version]
    /\ behind' = (behind \/ chosen' # chosen)
    /\ UNCHANGED former
WriteFormer(r) ==
    /\ former' = [former EXCEPT ![reqs[r].engine] = reqs[r].prev]
    /\ UNCHANGED <<chosen, behind>>

\* Pinning the version already selected leaves the former one alone.
Repinned_Never(r) == FALSE
Repinned(r) == reqs[r].prev = reqs[r].version

\* SetAll writes the settings one at a time, in the order of their names.
WriteFirst(r) ==
    /\ reqs[r].pc = "first"
    /\ LET e == reqs[r].engine IN
       IF Repinned(r)
       THEN /\ WriteVersion(r)
            /\ reqs' = [reqs EXCEPT ![r].pc = "apply"]
            /\ loose' = IF AloneOn(r) THEN loose ELSE loose \cup {e}
       ELSE /\ IF e \in VersionFirst THEN WriteVersion(r) ELSE WriteFormer(r)
            /\ reqs' = [reqs EXCEPT ![r].pc = "second"]
            /\ loose' = loose \cup {e}
    /\ UNCHANGED <<running, files, asked, breaks>>

WriteSecond(r) ==
    /\ reqs[r].pc = "second"
    /\ LET e == reqs[r].engine IN
       /\ IF e \in VersionFirst THEN WriteFormer(r) ELSE WriteVersion(r)
       /\ loose' = IF AloneOn(r) THEN loose \ {e} ELSE loose
    /\ reqs' = [reqs EXCEPT ![r].pc = "apply"]
    /\ UNCHANGED <<running, files, asked, breaks>>

\* A write fails: the request ends, and what it has written stays.
WriteFails(r) ==
    /\ reqs[r].pc \in {"first", "second"} /\ breaks < MaxBreaks
    /\ breaks' = breaks + 1
    /\ reqs' = [reqs EXCEPT ![r] = NoPinRequest]
    /\ UNCHANGED <<settings, running, files, asked, behind>>

\* The directories an installer is about to fill, when the pins become p.
Moves(p) == {<<ensure[i].engine, ensure[i].path>> :
             i \in {j \in Installers : ensure[j].pc = "install"
                                       /\ p[ensure[j].engine] # ensure[j].path}}

SetPins(r) ==
    /\ reqs[r].pc = "apply"
    /\ running' = reqs[r].map
    /\ behind' = ~Solo(r)
    /\ moved' = moved \cup Moves(running')
    /\ reqs' = [reqs EXCEPT ![r] = NoPinRequest]
    /\ UNCHANGED <<settings, folder, ensure, installs, asked, breaks>>

-----------------------------------------------------------------------------
(* Ensure. *)

\* The path is that of the version running now.  What is there is not looked
\* into: a binary is installed.
Locate(i, e) ==
    /\ ensure[i].pc = "idle" /\ installs < MaxInstalls
    /\ folder[e][running[e]].binary = Absent
    /\ ensure' = [ensure EXCEPT ![i] = [NoInstall EXCEPT !.pc = "install", !.engine = e, !.path = running[e]]]
    /\ installs' = installs + 1
    /\ UNCHANGED <<settings, running, reqs, folder, asked, breaks, behind, moved>>

Install_Shipped(i) ==
    /\ ensure[i].pc = "install"
    /\ ensure' = [ensure EXCEPT ![i].pc = "finalize", ![i].version = Shipped]
    /\ UNCHANGED <<settings, running, reqs, folder, installs, asked, breaks, behind, moved>>

\* installXray and its like read the version again, and download it.
Install(i) ==
    /\ ensure[i].pc = "install"
    /\ ensure' = [ensure EXCEPT ![i].pc = "finalize",
                                ![i].version = running[ensure[i].engine]]
    /\ UNCHANGED <<settings, running, reqs, folder, installs, asked, breaks, behind, moved>>

\* finalizeInstall verifies the version it downloaded and renames it in place.
Finalize(i) ==
    /\ ensure[i].pc = "finalize"
    /\ LET e == ensure[i].engine IN
       /\ folder' = [folder EXCEPT ![e][ensure[i].path].binary = ensure[i].version]
       /\ ensure' = [ensure EXCEPT ![i] = IF e \in WithData THEN [@ EXCEPT !.pc = "data"] ELSE NoInstall]
    /\ UNCHANGED <<settings, running, reqs, installs, asked, breaks, behind, moved>>

\* installGeodata extracts the data files next to the binary.
InstallData(i) ==
    /\ ensure[i].pc = "data"
    /\ folder' = [folder EXCEPT ![ensure[i].engine][ensure[i].path].data = TRUE]
    /\ ensure' = [ensure EXCEPT ![i] = NoInstall]
    /\ UNCHANGED <<settings, running, reqs, installs, asked, breaks, behind, moved>>

\* A directory that an installer has begun and not completed.
Begun(i) == IF ensure[i].pc = "data" THEN {<<ensure[i].engine, ensure[i].path>>} ELSE {}

\* A download, a check or an extraction fails.
InstallFails(i) ==
    /\ ensure[i].pc # "idle" /\ breaks < MaxBreaks
    /\ breaks' = breaks + 1
    /\ moved' = moved \cup Begun(i)
    /\ ensure' = [ensure EXCEPT ![i] = NoInstall]
    /\ UNCHANGED <<settings, running, reqs, folder, installs, asked, behind>>

-----------------------------------------------------------------------------
\* The panel is killed and starts again: applyStoredCorePins.
Restart ==
    /\ breaks < MaxBreaks /\ breaks' = breaks + 1
    /\ running' = chosen /\ behind' = FALSE
    /\ reqs' = [r \in PinRequests |-> NoPinRequest]
    /\ ensure' = [i \in Installers |-> NoInstall]
    /\ moved' = moved \cup UNION {Begun(i) : i \in Installers}
    /\ UNCHANGED <<settings, folder, installs, asked>>

PinsNext ==
    \/ \E r \in PinRequests :
          \/ \E e \in Engines, v \in Versions : Ask(r, e, v)
          \/ Read(r) \/ WriteFirst(r) \/ WriteSecond(r) \/ WriteFails(r) \/ SetPins(r)
    \/ \E i \in Installers :
          \/ \E e \in Engines : Locate(i, e)
          \/ Install(i) \/ Finalize(i) \/ InstallData(i) \/ InstallFails(i)
    \/ Restart

PinsSpec == PinsInit /\ [][PinsNext]_pins

-----------------------------------------------------------------------------
(* Properties. *)

PinsTypeOK ==
    /\ chosen \in [Engines -> Versions] /\ former \in [Engines -> Versions]
    /\ running \in [Engines -> Versions]
    /\ reqs \in [PinRequests -> RequestRecords] /\ ensure \in [Installers -> EnsureRecords]
    /\ folder \in [Engines -> [Versions -> Folders]]
    /\ loose \subseteq Engines /\ behind \in BOOLEAN /\ moved \subseteq Engines \X Versions

\* A selection that was written and applied is what runs, for every engine and
\* across restarts and failed writes, unless the request that applied it
\* overlapped another: then the last map of pins drops what the other selected.
SelectionRuns == ~behind => running = chosen

\* There is a version to roll back to once one was pinned, unless the two
\* settings were written in part or by requests that overlapped.
RollbackHasTarget ==
    \A e \in Engines \ loose : chosen[e] = former[e] => chosen[e] = Shipped

\* A version's directory holds that version, whole or being completed, unless
\* the pin moved between the path and the download, or the install failed
\* between the binary and its data: Ensure repairs neither.
DirectoriesHold ==
    \A e \in Engines, v \in Versions :
        folder[e][v].binary # Absent /\ <<e, v>> \notin moved =>
            /\ folder[e][v].binary = v
            /\ e \in WithData /\ ~folder[e][v].data =>
                 \E i \in Installers : <<e, v>> \in Begun(i)
=============================================================================
