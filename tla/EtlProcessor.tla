---------------------------- MODULE EtlProcessor ----------------------------
(***************************************************************************)
(* process() of the ETL worker (workers/src/etl-worker/processor.ts) and   *)
(* its extract, transform and load (etl-worker/service.ts): a run throws   *)
(* until the job it depends on is COMPLETED, and at its end it chains the  *)
(* next job of its payload.                                                *)
(***************************************************************************)
EXTENDS Delivery

CONSTANT HasNext   \* the payload has a nextJob

VARIABLES
    dep,     \* the jobs row of metadata.dependsOn
    rows,    \* whether the transform leaves rows to load, per worker
    loaded,  \* jobs whose rows are in processed_users
    next     \* per job, its chained jobs by the state of their row: "saved", "submitted"

etlVars == <<dep, rows, loaded, next>>

EtlInit ==
    /\ dep \in {"missing", "PROCESSING", "COMPLETED"}
    /\ rows = [w \in Worker |-> FALSE]
    /\ loaded = {}
    /\ next = [j \in Job |-> [s \in {"saved", "submitted"} |-> 0]]

\* The other job of the pair completes meanwhile.
DependencyCompletes ==
    /\ dep = "PROCESSING" /\ dep' = "COMPLETED"
    /\ UNCHANGED <<rows, loaded, next>>

CheckDependency(w) ==
    /\ Go(w, "start", IF dep = "COMPLETED" THEN "extract" ELSE "throw")
    /\ UNCHANGED etlVars

\* A table, a URL or, for any other source, nothing.
Extract(w) ==
    /\ pc[w] = "extract"
    /\ \/ /\ Go(w, "extract", "load")
          /\ \E some \in BOOLEAN : rows' = [rows EXCEPT ![w] = some]
       \/ /\ Go(w, "extract", "throw")
          /\ rows' = rows
    /\ UNCHANGED <<dep, loaded, next>>

\* Rows may be filtered out, or lack the field that is upper-cased.
Transform(w) ==
    /\ rows[w]
    /\ \/ /\ Go(w, "load", "upsert")
          /\ rows' = rows
       \/ /\ Go(w, "load", "upsert")
          /\ rows' = [rows EXCEPT ![w] = FALSE]
       \/ /\ Go(w, "load", "throw")
          /\ rows' = rows
    /\ UNCHANGED <<dep, loaded, next>>

TransformNothing(w) ==
    /\ ~rows[w] /\ Go(w, "load", "upsert")
    /\ UNCHANGED etlVars

\* upsert on the primary key: loading twice leaves what loading once leaves.
Load(w) ==
    /\ Go(w, "upsert", IF HasNext THEN "saveNext" ELSE "done")
    /\ loaded' = IF rows[w] THEN loaded \cup {at[w]} ELSE loaded
    /\ rows' = [rows EXCEPT ![w] = FALSE]
    /\ UNCHANGED <<dep, next>>

\* A new row with a random id, on every run.
SaveNext(w) ==
    /\ Go(w, "saveNext", "submitNext")
    /\ next' = [next EXCEPT ![at[w]]["saved"] = @ + 1]
    /\ UNCHANGED <<dep, rows, loaded>>

\* Mutant: the next job is chained by its row alone.
SubmitNext_RowOnly(w) ==
    /\ Go(w, "submitNext", "done")
    /\ UNCHANGED etlVars

SubmitNext(w) ==
    /\ Go(w, "submitNext", "done")
    /\ next' = [next EXCEPT ![at[w]]["saved"] = @ - 1, ![at[w]]["submitted"] = @ + 1]
    /\ UNCHANGED <<dep, rows, loaded>>

EtlStep(w) ==
    /\ \/ CheckDependency(w) \/ Extract(w) \/ Transform(w) \/ TransformNothing(w)
       \/ Load(w) \/ SaveNext(w) \/ SubmitNext(w)
    /\ UNCHANGED outerVars

\* A statement or submitJob() throws, the latter before or after the job is queued.
EtlThrows(w) ==
    /\ Spend("await")
    /\ \/ pc[w] \in {"start", "upsert", "saveNext"} /\ next' = next
       \/ /\ pc[w] = "submitNext"
          /\ next' \in {next, [next EXCEPT ![at[w]]["saved"] = @ - 1, ![at[w]]["submitted"] = @ + 1]}
    /\ pc' = [pc EXCEPT ![w] = "throw"]
    /\ rows' = [rows EXCEPT ![w] = FALSE]
    /\ UNCHANGED <<dep, loaded, bull, made, lock, stalls, finished, at>>
=============================================================================
