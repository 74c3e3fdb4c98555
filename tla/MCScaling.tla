----------------------------- MODULE MCScaling -----------------------------
(* Small instances of Scaling: a normal job among urgent ones, a crash, and more
   jobs than workers. *)
EXTENDS Scaling

CONSTANTS j1, j2, j3

MCLoads == {[urgent |-> {j1}, normal |-> {j2}, crashes |-> 0],
            [urgent |-> {j1, j2}, normal |-> {}, crashes |-> 1],
            [urgent |-> {j1, j2, j3}, normal |-> {}, crashes |-> 0]}
=============================================================================
