--------------------------- MODULE MCPlanScheduler ---------------------------
(* Small plans for TLC: a and b write outside, c needs both of them. *)
EXTENDS PlanScheduler, TLC

CONSTANTS a, b, c

SmallDeps == [t \in Tasks |-> IF t = c THEN {a, b} ELSE {}]

\* A plan or all its replacements, and a replacement of the last task.
SmallGiven == {Tasks, {c}}

SmallSymmetry == Permutations({a, b})

\* Two tasks in a row.
ChainDeps == [t \in Tasks |-> IF t = b THEN {a} ELSE {}]
ChainGiven == {Tasks, {b}}
=============================================================================
