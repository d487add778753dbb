--------------------------- MODULE MCSpendReports ---------------------------
(***************************************************************************)
(* An instance of SpendReports for TLC: a turn whose report is priced, one *)
(* that names no model, and the files a proxy may find: none, one of       *)
(* version 1, and one of version 1 whose stamp is missing.                 *)
(***************************************************************************)
EXTENDS SpendReports

MCModelOf == [t \in Turns |-> IF t = "t1" THEN "m" ELSE "unreported"]

New == [stamp |-> 0, old |-> FALSE, columns |-> [d \in Days |-> 0], bucket |-> Zero,
        calls |-> [d \in Days |-> 0], turns |-> [t \in Turns |-> Forgotten]]

Spent == [New EXCEPT !.old = TRUE, !.columns[0] = 1, !.calls[0] = 1]

MCStarts == {New, Spent, [Spent EXCEPT !.stamp = 1]}
=============================================================================
