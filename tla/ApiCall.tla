------------------------------- MODULE ApiCall -------------------------------
(***************************************************************************)
(* How a call of the sensor library runs.  One task calls the library and  *)
(* a call runs to its end, so it is one action; inside it, operators on a  *)
(* call record c follow the code transfer by transfer.  c.fuse counts the  *)
(* transfers down to the one that fails (negative: none does) and c.status *)
(* is the Status variable of the code.                                     *)
(***************************************************************************)
EXTENDS Integers

VARIABLES
    last,       \* the last call, what it returned, whether a transfer was lost
    calls       \* history: calls so far

Statuses == {"none", "io", "invalid", "timeout", "range", "unsupported",
             "gpio", "spad", "uncleared"}

CallTypeOK == last.status \in Statuses /\ last.lost \in BOOLEAN /\ calls \in Nat

CallInit ==
    /\ last = [op |-> "none", status |-> "none", lost |-> FALSE]
    /\ calls = 0

(* "if (Status == VL53L0X_ERROR_NONE)".                                    *)
Then(c, Op(_)) == IF c.status = "none" THEN Op(c) ELSE c

(* One transfer, and its effect when it reaches the sensor.                *)
Transfer(c) == [c EXCEPT !.fuse = @ - 1,
                         !.status = IF c.fuse = 0 THEN "io" ELSE "none"]
Done(c, Op(_)) == Then(Transfer(c), Op)

Transfers(c, n) == IF c.fuse \in 0 .. n - 1
                   THEN [c EXCEPT !.fuse = -1, !.status = "io"]
                   ELSE [c EXCEPT !.fuse = @ - n, !.status = "none"]

(* A status the next assignment overwrites.                                *)
Overwrite(c) == [c EXCEPT !.status = "none"]

Fail(c, status) == [c EXCEPT !.status = status]
Invalid(c) == Fail(c, "invalid")

Ended(op, c, lost) ==
    /\ last' = [op |-> op, status |-> c.status, lost |-> lost]
    /\ calls' = calls + 1

(* A negative fuse at the end is one that burnt down, unless it began so.  *)
Lost(f, c) == f >= 0 /\ c.fuse < 0

CleanCall == calls' = calls + 1 /\ ~last'.lost
=============================================================================
