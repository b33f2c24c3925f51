--------------------------- MODULE MCExactlyOnce ---------------------------
(***************************************************************************)
(* What must happen exactly once, in three parts that share no state: the  *)
(* bytes an account is billed and the resets of its periods (Accounting),  *)
(* the bytes of a DNS tunnel session in both directions (DnsSession), and  *)
(* the closing of every connection that a tunnel zone opens (DnsEgress).   *)
(* One run checks all: `part' says which one moves.                        *)
(***************************************************************************)
EXTENDS MCAccounting, DnsSession, DnsEgress

CONSTANTS t1, h1, h2

VARIABLE part

\* Either stream alone, long enough for its sequence numbers to wrap, and both.
Wrapping == {<<9, 0>>, <<0, 9>>, <<3, 2>>}

-----------------------------------------------------------------------------
OnceInit ==
    /\ part \in {"accounting", "session", "egress"} /\ Init /\ SessionInit /\ EgressInit
    /\ part # "session" => lengths = <<3, 2>>

OnceNext ==
    \/ part = "accounting" /\ Next /\ UNCHANGED <<part, session, egress>>
    \/ part = "session" /\ SessionNext /\ UNCHANGED <<part, vars, egress>>
    \/ part = "egress" /\ EgressNext /\ UNCHANGED <<part, vars, session>>

OnceSpec == OnceInit /\ [][OnceNext]_<<part, vars, session, egress>>
=============================================================================
