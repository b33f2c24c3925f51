---------------------------- MODULE CoreService ----------------------------
(***************************************************************************)
(* What the panel relies on when it hands a configuration to a proxy core  *)
(* (the contract of supervisor.Process): a core that serves anything       *)
(* outside a change serves exactly the configuration on disk.  How the     *)
(* change is made (hot apply or restart), and how often the core dies and  *)
(* is relaunched in between, is left open.                                 *)
(***************************************************************************)
CONSTANTS Configs, NoConfig

VARIABLES
    target,    \* the configuration on disk
    live,      \* the configuration the core answers with, NoConfig when down
    changing   \* a caller is between accepting a change and its return

cvars == <<target, live, changing>>

Init == target = NoConfig /\ live = NoConfig /\ changing = FALSE

\* A new configuration is on disk, or the core is about to be stopped.
Begin == /\ ~changing /\ changing' = TRUE
         /\ target' \in Configs \cup {target}
         /\ UNCHANGED live

\* Only while a change is under way may the core serve anything else.
Adjust == changing /\ live' \in Configs /\ UNCHANGED <<target, changing>>

\* The caller returns: what is served is what is on disk, if anything is.
Finish == /\ changing /\ changing' = FALSE
          /\ live' \in {NoConfig, target}
          /\ UNCHANGED target

Down == live' = NoConfig /\ UNCHANGED <<target, changing>>

Up == live = NoConfig /\ live' = target /\ UNCHANGED <<target, changing>>

Next == Begin \/ Adjust \/ Finish \/ Down \/ Up

Spec == Init /\ [][Next]_cvars
=============================================================================
