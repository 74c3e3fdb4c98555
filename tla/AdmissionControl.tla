-------------------------- MODULE AdmissionControl --------------------------
(***************************************************************************)
(* What a tenant's concurrency cap promises, with no Redis, no list and no *)
(* counter: a job is refused, admitted or parked; a parked job may be      *)
(* admitted later; nothing is admitted while Limit jobs are, and debt jobs *)
(* more that the cap has forgotten (or, below zero, still counts although  *)
(* they ended).                                                            *)
(***************************************************************************)
EXTENDS Integers, FiniteSets

CONSTANTS Job, Limit

VARIABLES stage, debt

Stage == {"new", "parked", "refused", "admitted", "finished"}

Init == stage = [j \in Job |-> "new"] /\ debt = 0

Move(j, from, to) == stage[j] \in from /\ stage' = [stage EXCEPT ![j] = to]

Admitted == {j \in Job : stage[j] = "admitted"}

\* The jobs whose submission may be under way, or died there.
Pending == {j \in Job : stage[j] \in {"new", "refused"}}

Admit(j) ==
    /\ Move(j, {"new", "parked"}, "admitted")
    /\ Cardinality(Admitted) < Limit + debt
    /\ debt' = debt

Park(j) == Move(j, {"new"}, "parked") /\ debt' = debt

Refuse(j) == Move(j, {"new"}, "refused") /\ debt' = debt

\* A job that ends gives its place back, or its place is lost.
Finish(j) == Move(j, {"admitted"}, "finished") /\ debt' \in {debt, debt - 1}

\* A job that had ended runs again and takes no place for it; it may have been
\* forgotten by a drain at the same time.
Again(j) == Move(j, {"finished"}, "admitted") /\ debt' \in {debt + 1, debt + 2}

\* One place too many is given back.
Slip == debt' = debt + 1 /\ stage' = stage

\* The count starts again from zero, whoever is inside.
Wipe ==
    /\ debt' \in Int
    /\ debt' <= Cardinality(Admitted) + Cardinality(Pending)
    /\ Cardinality(Admitted) <= Limit + debt'
    /\ stage' = stage

Next ==
    \/ \E j \in Job : Admit(j) \/ Park(j) \/ Refuse(j) \/ Finish(j) \/ Again(j)
    \/ Slip
    \/ Wipe

Spec == Init /\ [][Next]_<<stage, debt>>
=============================================================================
