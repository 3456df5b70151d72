------------------------------ MODULE MCReports -------------------------------
(* Small instances of Reports: a day of 6 ticks.                            *)
EXTENDS Reports, TLC

CONSTANTS t1, r1, shop

\* A zone without changes, one whose clock skips the first tick of the second
\* day, and one that shows the last tick of it twice.
Skipping == [at |-> 5, before |-> 1, after |-> 2]
Repeating == [at |-> 12, before |-> 0, after |-> -1]
Zones == {Skipping, Repeating}

\* The instants about the midnights of these zones.
Instants == {5, 10, 12}

\* One product.
OneCup == 1 :> [tenant |-> shop, name |-> "tea", price |-> 1, stock |-> 2,
                is_archived |-> FALSE]
=============================================================================
