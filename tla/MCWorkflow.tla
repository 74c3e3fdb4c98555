----------------------------- MODULE MCWorkflow -----------------------------
(* Small instances of Workflow: every shape of a kind over the jobs 1 .. Jobs. *)
EXTENDS Workflow

CONSTANTS Jobs, Prios

MCJob == 1 .. Jobs
MCApi == 0
NoFaults(w) == {}

\* Jobs may be listed in any order: depth[j] is above that of every parent.
Acyclic(parents) ==
    \E depth \in [MCJob -> MCJob] : \A j \in MCJob : \A p \in parents[j] : depth[p] < depth[j]

Shapes(P) == {[parents |-> f, prio |-> r, strict |-> s] :
                 f \in {g \in P : Acyclic(g)}, r \in [MCJob -> 1 .. Prios], s \in SUBSET MCJob}

\* Any dependency graph, a forest, and a single chain in the order of creation.
Dags == Shapes([MCJob -> SUBSET MCJob])
Forests == Shapes([MCJob -> {{}} \cup {{j} : j \in MCJob}])
Chains == Shapes({[j \in MCJob |-> IF j = 1 THEN {} ELSE {j - 1}]})
=============================================================================
