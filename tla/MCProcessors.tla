---------------------------- MODULE MCProcessors ----------------------------
(* Small instances of Processors: one job, or two of a kind that share files. *)
EXTENDS Processors, TLC

CONSTANTS Awaits, Crashes, Stalls

MCFaults == [f \in FaultKind |->
    CASE f = "await" -> Awaits [] f = "crash" -> Crashes [] f = "stall" -> Stalls]

MCLoads == {[j \in {i} |-> k] : i \in Job, k \in {"email", "etl", "transcode", "convert", "image", "text"}}
           \cup {[j \in Job |-> k] : k \in {"report", "ocr"}}

Symmetry == Permutations(Worker) \cup Permutations(Job)
=============================================================================
