--------------------------- MODULE ReliableStream ---------------------------
(***************************************************************************)
(* What one direction of a tunnel session promises, whatever the network   *)
(* between its ends does: units (bytes, frames) are handed on in order,    *)
(* once, and as soon as none before them is missing, and the sender lets   *)
(* go only of what has arrived.  Nothing is said of how: there are no      *)
(* messages, sequence numbers or windows here.                             *)
(*                                                                         *)
(* A stream may break, if its receiver can no longer tell what it is       *)
(* given or its sender lets go of what it only takes for arrived.  From    *)
(* then on units may be lost, but none is handed on twice or out of order. *)
(***************************************************************************)
EXTENDS Integers, Sequences

CONSTANT First    \* the number of the first unit; the others follow it

VARIABLES
    offered,      \* how many units there are to carry so far
    arrived,      \* those the receiving end has
    delivered,    \* what it has handed on
    settled,      \* those the sending end has let go of
    broken

stream == <<offered, arrived, delivered, settled, broken>>

-----------------------------------------------------------------------------
Init ==
    /\ offered \in Nat
    /\ arrived = {} /\ delivered = <<>> /\ settled = {}
    /\ broken = FALSE

Offer ==
    /\ offered' \in Nat /\ offered' > offered
    /\ UNCHANGED <<arrived, delivered, settled, broken>>

Increasing(s) == \A i, j \in 1 .. Len(s) : i < j => s[i] < s[j]

\* Everything up to the first unit that is missing, and nothing else.
Complete(s, units) ==
    /\ \A i \in 1 .. Len(s) : s[i] = First + i - 1
    /\ First + Len(s) \notin units

\* Units arrive, in any order, and what can be handed on is, at once.
Arrive ==
    /\ arrived \subseteq arrived' /\ arrived' \subseteq First .. First + offered - 1
    /\ Len(delivered) <= Len(delivered')
    /\ \A i \in 1 .. Len(delivered) : delivered'[i] = delivered[i]
    /\ \A i \in 1 .. Len(delivered') : delivered'[i] \in arrived'
    /\ Increasing(delivered')
    /\ broken \/ Complete(delivered', arrived')
    /\ UNCHANGED <<offered, settled, broken>>

Settle ==
    /\ settled \subseteq settled'
    /\ broken \/ settled' \subseteq arrived
    /\ UNCHANGED <<offered, arrived, delivered, broken>>

\* The sending end may let go of what has not arrived.
Break ==
    /\ broken' = TRUE
    /\ settled \subseteq settled'
    /\ UNCHANGED <<offered, arrived, delivered>>

Next == Offer \/ Arrive \/ Settle \/ Break

Spec == Init /\ [][Next]_stream
=============================================================================
