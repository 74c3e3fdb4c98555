------------------------------ MODULE Delivery ------------------------------
(***************************************************************************)
(* What a processor sees of the machinery around it: BullMQ hands a job to *)
(* a worker, BaseProcessor.execute() skips it when it is COMPLETED and     *)
(* otherwise calls process(), and a run that throws is tried again.  It is *)
(* JobExecution without the rows and counters that process() cannot see;   *)
(* Processors adds what process() does between "start" and "done".         *)
(***************************************************************************)
EXTENDS Integers, FiniteSets

CONSTANTS
    Job,          \* BullMQ jobs
    Worker,       \* the workers of their queue, with one working directory
    None,
    MaxAttempts,  \* opts.attempts
    Faults        \* how often each fault may happen

FaultKind == {"await", "crash", "stall"}

\* BullMQ's maxStalledCount
MaxStalled == 1

ASSUME SetAssumption == IsFiniteSet(Job) /\ IsFiniteSet(Worker) /\ None \notin Job \cup Worker
ASSUME BoundAssumption == MaxAttempts \in Nat \ {0} /\ Faults \in [FaultKind -> Nat]

VARIABLES
    bull,      \* the job in BullMQ
    made,      \* its attemptsMade
    lock,      \* the worker that holds its lock
    stalls,    \* its stalled count
    finished,  \* jobs whose row says COMPLETED
    pc,        \* where each worker stands
    at,        \* the job in its hands
    budget

deliveryVars == <<bull, made, lock, stalls, finished, pc, at, budget>>

\* What a step inside process() leaves alone, pc aside.
outerVars == <<bull, made, lock, stalls, finished, at, budget>>

DeliveryInit(queued) ==
    /\ bull = [j \in Job |-> IF j \in queued THEN "waiting" ELSE "absent"]
    /\ made = [j \in Job |-> 0]
    /\ lock = [j \in Job |-> None]
    /\ stalls = [j \in Job |-> 0]
    /\ finished = {}
    /\ pc = [w \in Worker |-> "idle"]
    /\ at = [w \in Worker |-> None]
    /\ budget = Faults

Spend(f) == budget[f] > 0 /\ budget' = [budget EXCEPT ![f] = @ - 1]

Spent(f) == Faults[f] - budget[f]

\* The faults after which a job may run once more than its own failures explain.
Faulted == Spent("await") + Spent("crash") + Spent("stall")

Go(w, from, to) == pc[w] = from /\ pc' = [pc EXCEPT ![w] = to]

Deliver(w, j) ==
    /\ bull[j] = "waiting"
    /\ Go(w, "idle", "find")
    /\ bull' = [bull EXCEPT ![j] = "active"]
    /\ lock' = [lock EXCEPT ![j] = w]
    /\ at' = [at EXCEPT ![w] = j]
    /\ UNCHANGED <<made, stalls, finished, budget>>

FindJob(w) ==
    /\ Go(w, "find", IF at[w] \in finished THEN "return" ELSE "start")
    /\ UNCHANGED outerVars

\* process() has returned: the job's row is set COMPLETED.
Complete(w) ==
    /\ Go(w, "done", "return")
    /\ finished' = finished \cup {at[w]}
    /\ UNCHANGED <<bull, made, lock, stalls, at, budget>>

\* BullMQ takes the outcome of a run that still holds its lock.
Return(w) ==
    LET j == at[w]
    IN  /\ Go(w, "return", "idle")
        /\ IF lock[j] = w
           THEN bull' = [bull EXCEPT ![j] = "completed"] /\ lock' = [lock EXCEPT ![j] = None]
           ELSE UNCHANGED <<bull, lock>>
        /\ at' = [at EXCEPT ![w] = None]
        /\ UNCHANGED <<made, stalls, finished, budget>>

Throw(w) ==
    LET j == at[w]
        outcome == IF made[j] + 1 < MaxAttempts THEN "waiting" ELSE "failed"
    IN  /\ Go(w, "throw", "idle")
        /\ IF lock[j] = w
           THEN /\ made' = [made EXCEPT ![j] = @ + 1]
                /\ bull' = [bull EXCEPT ![j] = outcome]
                /\ lock' = [lock EXCEPT ![j] = None]
           ELSE UNCHANGED <<made, bull, lock>>
        /\ at' = [at EXCEPT ![w] = None]
        /\ UNCHANGED <<stalls, finished, budget>>

-----------------------------------------------------------------------------
(* Faults *)

Stalled(j) ==
    /\ bull' = [bull EXCEPT ![j] = IF stalls[j] < MaxStalled THEN "waiting" ELSE "failed"]
    /\ lock' = [lock EXCEPT ![j] = None]
    /\ stalls' = [stalls EXCEPT ![j] = @ + 1]

\* A run dies where it stands.
Crash(w) ==
    /\ pc[w] # "idle" /\ Spend("crash")
    /\ pc' = [pc EXCEPT ![w] = "idle"]
    /\ at' = [at EXCEPT ![w] = None]
    /\ IF lock[at[w]] = w THEN Stalled(at[w]) ELSE UNCHANGED <<bull, lock, stalls>>
    /\ UNCHANGED <<made, finished>>

\* The lock expires while the run goes on; another worker may take the job.
LoseLock(w) ==
    /\ pc[w] # "idle" /\ lock[at[w]] = w /\ Spend("stall")
    /\ Stalled(at[w])
    /\ UNCHANGED <<made, finished, pc, at>>

\* An await of this frame throws.
FrameThrows(w) ==
    /\ Spend("await")
    /\ pc[w] \in {"find", "done"}
    /\ pc' = [pc EXCEPT ![w] = "throw"]
    /\ UNCHANGED <<bull, made, lock, stalls, finished, at>>

DeliveryStep(w) ==
    \/ FindJob(w) \/ Complete(w) \/ Return(w) \/ Throw(w)
    \/ \E j \in Job : Deliver(w, j)

DeliveryFault(w) == Crash(w) \/ LoseLock(w) \/ FrameThrows(w)

DeliveryTypeOK ==
    /\ bull \in [Job -> {"absent", "waiting", "active", "completed", "failed"}]
    /\ made \in [Job -> 0 .. MaxAttempts]
    /\ lock \in [Job -> Worker \cup {None}]
    /\ stalls \in [Job -> 0 .. MaxStalled + 1]
    /\ finished \subseteq Job
    /\ at \in [Worker -> Job \cup {None}]
    /\ budget \in [FaultKind -> Nat]
=============================================================================
