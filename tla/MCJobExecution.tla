--------------------------- MODULE MCJobExecution ---------------------------
(* Small instances of JobExecution. *)
EXTENDS JobExecution, TLC

CONSTANTS Dbs, Crashes, Stalls, Repeats

MCFaults == [f \in FaultKind |->
    CASE f = "db" -> Dbs [] f = "crash" -> Crashes [] f = "stall" -> Stalls [] f = "repeat" -> Repeats]

\* Workers of one kind are alike (used where Limited is empty).
Symmetry == Permutations(Worker)
=============================================================================
