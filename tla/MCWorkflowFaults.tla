-------------------------- MODULE MCWorkflowFaults --------------------------
(* Workflow with faults: a job with two parents, a chain, and a job beside a chain.  Each *)
(* has a STRICT child.                                                                   *)
EXTENDS Workflow

MCJob == 1 .. 3
MCApi == 0

Flow(parents, strict) ==
    [parents |-> parents, prio |-> [j \in MCJob |-> 1], strict |-> strict]

Join == Flow(<<{}, {}, {1, 2}>>, {3})
Chain == Flow(<<{}, {1}, {2}>>, {2})
Twig == Flow(<<{}, {1}, {}>>, {2})
Knots == {Join, Chain, Twig}

\* One fault of each of these kinds.
Mix(kinds) == [f \in FaultKind |-> IF f \in kinds THEN 1 ELSE 0]

MCFaults(w) ==
    {Mix({"crash", "throw"}), Mix({"error", "late"})} \cup IF w = Twig THEN {} ELSE {Mix({"lock"})}
=============================================================================
