------------------------------ MODULE MCReload ------------------------------
(* Model values for the TLC runs of Reload. *)
EXTENDS Reload, TLC

CONSTANTS u1, u2, i1, i2, r1, r2

ReloadSymmetry == Permutations(People) \cup Permutations(Inbounds)
=============================================================================
