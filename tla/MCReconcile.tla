----------------------------- MODULE MCReconcile -----------------------------
(* Small instances of Reconcile. *)
EXTENDS Reconcile, TLC

Symmetry == Permutations(Job) \cup Permutations(Worker)
=============================================================================
