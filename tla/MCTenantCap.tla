----------------------------- MODULE MCTenantCap -----------------------------
(* Small instances of TenantCap for TLC. *)
EXTENDS TenantCap

\* The fault budget of a run.
CONSTANTS Crashes, Expiries, Throws, Retries, Repeats, Rejects, Locks

MCFaults == "crash" :> Crashes @@ "expire" :> Expiries @@ "throw" :> Throws
            @@ "retry" :> Retries @@ "repeat" :> Repeats
            @@ "reject" :> Rejects @@ "lock" :> Locks

Symmetry == Permutations(Job \ Recurring) \cup Permutations(Worker)
=============================================================================
