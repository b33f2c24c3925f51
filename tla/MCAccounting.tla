---------------------------- MODULE MCAccounting ----------------------------
(* Model values for the TLC runs of Accounting. *)
EXTENDS Accounting, TLC

CONSTANTS u1, u2, s1, s2, e1

Base == [status |-> "active", limit |-> 2, used |-> 0, life |-> 0,
         strategy |-> "no_reset", lastReset |-> Nil, expire |-> Nil,
         hold |-> 0, first |-> Nil, disc |-> Nil]

Cmd(op) == [op |-> op, n |-> 0]
CmdN(op, n) == [op |-> op, n |-> n]

\* A PATCH of the given columns, and one whose times count from now.
Patch(cols, row) == [cols |-> cols, row |-> row, fromNow |-> FALSE]
FromNow(cols, row) == [cols |-> cols, row |-> row, fromNow |-> TRUE]
SetStatus(st) == Patch({"status"}, [Base EXCEPT !.status = st])

\* Accounts with neither a term nor a hold: no writer saves a whole row.
TxRows == {[Base EXCEPT !.strategy = "periodic"]}
TxColumns == {Patch({"limit"}, [Base EXCEPT !.limit = 1])}

\* Accounts with a term, on hold, and with both kinds of reset; a limit of one
\* byte, and a counter type that holds no more than that.
FullRows == {[Base EXCEPT !.limit = 1, !.expire = 1, !.strategy = "on_expire"],
             [Base EXCEPT !.limit = 1, !.status = "on_hold", !.hold = 1],
             [Base EXCEPT !.limit = 1, !.strategy = "periodic"]}
FullCommands == {Cmd("reset"), CmdN("limit", 0), CmdN("extend", 1)}
\* A status set by hand, and a raised cap with the term taken away.
FullColumns ==
    {SetStatus("limited"), SetStatus("expired"),
     Patch({"limit", "expire"}, [Base EXCEPT !.limit = 0])}

LiveRows == {[Base EXCEPT !.limit = 1, !.expire = 1],
             [Base EXCEPT !.limit = 1, !.status = "on_hold", !.hold = 1]}
LiveColumns == {SetStatus("active"), SetStatus("on_hold"),
                FromNow({"disc"}, [Base EXCEPT !.disc = 1])}

OnHoldRows == {[Base EXCEPT !.status = "on_hold", !.hold = 2]}

NoEdits == {}

SweeperSymmetry == Permutations(Sweepers)
=============================================================================
