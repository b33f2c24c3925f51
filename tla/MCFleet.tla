------------------------------ MODULE MCFleet ------------------------------
(* Model values for the TLC runs of Fleet. *)
EXTENDS Fleet

CONSTANTS u1, u2, k1, k2

Account0 == [status |-> "active", limit |-> 1, used |-> 0, life |-> 0,
             strategy |-> "no_reset", lastReset |-> Nil, expire |-> Nil,
             hold |-> 0, first |-> Nil, disc |-> Nil]

Active == {Account0}
OneSpeaks == <<k1>>
BothSpeak == <<k1, k2>>   \* not in a run: lines are then filed twice
=============================================================================
