---------------------------- MODULE JobExecution ----------------------------
(***************************************************************************)
(* One run of a job on a BullMQ worker: BaseProcessor.execute()            *)
(* (workers/src/base-worker/base.processor.ts), the worker around it       *)
(* (base.worker.ts, and createWorker() of workerRegistry.service.ts for    *)
(* workers the autoscaler spawned), and BullMQ's delivery, retry and       *)
(* stalled-job rules as far as this code relies on them.                   *)
(*                                                                         *)
(* A step is one await: a database statement, a Redis command, the job's   *)
(* own work.  tenantCapService.release() and the two calls of ChainService *)
(* count as one step here; TenantCap and Workflow open them up.  Metrics   *)
(* histograms and JobLog rows, which nothing reads back, are left out.     *)
(***************************************************************************)
EXTENDS Integers, FiniteSets, Sequences

CONSTANTS
    Job,          \* jobs of one queue, already admitted and enqueued
    Recurring,    \* those that carry opts.repeat
    Worker,       \* the queue's workers
    Limited,      \* the workers BaseWorker created: only they check the rate
    RateLimit,    \* TENANT_JOBS_PER_MINUTE; 0 is off
    MaxAttempts,  \* opts.attempts, the job's retries
    Faults,       \* how often each fault may happen
    None

FaultKind == {"db", "crash", "stall", "repeat"}

\* BullMQ's maxStalledCount: a job that stalls again is failed.
MaxStalled == 1

ASSUME JobAssumption == IsFiniteSet(Job) /\ Recurring \subseteq Job /\ None \notin Job
ASSUME WorkerAssumption == IsFiniteSet(Worker) /\ Limited \subseteq Worker /\ None \notin Worker
ASSUME BoundAssumption == RateLimit \in Nat /\ MaxAttempts \in Nat \ {0}
ASSUME FaultAssumption == Faults \in [FaultKind -> Nat]

VARIABLES
    status,    \* jobs.status
    attempts,  \* the job_attempts rows of each job, in order, by status
    lastSeq,   \* queue_sequences.lastSequence of the queue
    runs,      \* recurring_jobs.runCount
    seq,       \* jobs.queueSequence
    bull,      \* the job in BullMQ
    made,      \* its attemptsMade
    lock,      \* the worker that holds its lock
    stalls,    \* its stalled count
    events,    \* "failed" events whose listener has not run: <<worker, job>>
    rate,      \* jobs:<tenant>:<minute>
    tally,     \* per job: calls of release(), of the reconcile counters, DLQ adds, rejections,
               \* and the runs a cron pattern added
    run,       \* per worker: the locals of the execute() it is in
    budget

dbVars == <<status, attempts, lastSeq, runs, seq>>
bullVars == <<bull, made, lock, stalls, events>>
vars == <<dbVars, bullVars, rate, tally, run, budget>>

Status == {"QUEUED", "PROCESSING", "COMPLETED", "FAILED"}
Tallies == {"released", "completed", "failed", "dlq", "limited", "repeated"}

\* The awaits before the try block, in it, and in its catch block.
BeforeTry == {"rate", "find", "sequence", "save", "stamp", "attempt", "begin"}
InTry == {"process", "rowCompleted", "complete", "chain", "count"}
InCatch == {"rowFailed", "markFailed", "countFailed", "parent"}
PC == {"idle", "skip", "finally", "return", "throw"} \cup BeforeTry \cup InTry \cup InCatch

Idle == [pc |-> "idle", job |-> None, made |-> 0, read |-> 0, row |-> 0,
         ok |-> FALSE, threw |-> FALSE]

Init ==
    /\ status = [j \in Job |-> "QUEUED"]
    /\ attempts = [j \in Job |-> << >>]
    /\ lastSeq = 0
    /\ runs = [j \in Recurring |-> 0]
    /\ seq = [j \in Job |-> 0]
    /\ bull = [j \in Job |-> "waiting"]
    /\ made = [j \in Job |-> 0]
    /\ lock = [j \in Job |-> None]
    /\ stalls = [j \in Job |-> 0]
    /\ events = {}
    /\ rate = 0
    /\ tally = [j \in Job |-> [t \in Tallies |-> 0]]
    /\ run = [w \in Worker |-> Idle]
    /\ budget = Faults

Spend(f) == budget[f] > 0 /\ budget' = [budget EXCEPT ![f] = @ - 1]

At(w, here) == run[w].pc = here

Go(w, from, to) == At(w, from) /\ run' = [run EXCEPT ![w].pc = to]

Bump(j, t) == tally' = [tally EXCEPT ![j][t] = @ + 1]

\* Mutant: attemptsMade is taken to count the attempt under way.
IsLastAttempt_NotYetCounted(w) == run[w].made >= MaxAttempts

\* job.attemptsMade + 1 >= maxAttempts, on the attemptsMade the run started with
IsLastAttempt(w) == run[w].made + 1 >= MaxAttempts

-----------------------------------------------------------------------------
(* The worker takes a job *)

Deliver(w, j) ==
    /\ At(w, "idle") /\ bull[j] = "waiting"
    /\ bull' = [bull EXCEPT ![j] = "active"]
    /\ lock' = [lock EXCEPT ![j] = w]
    /\ run' = [run EXCEPT ![w] = [Idle EXCEPT
                  !.pc = IF w \in Limited /\ RateLimit > 0 THEN "rate" ELSE "find",
                  !.job = j, !.made = made[j]]]
    /\ UNCHANGED <<dbVars, made, stalls, events, rate, tally, budget>>

\* INCR jobs:<tenant>:<minute>; over the limit the handler throws, execute()
\* never starts and its finally block never runs.
RateCheck(w) ==
    /\ Go(w, "rate", IF rate + 1 > RateLimit THEN "throw" ELSE "find")
    /\ rate' = rate + 1
    /\ IF rate + 1 > RateLimit THEN Bump(run[w].job, "limited") ELSE tally' = tally
    /\ UNCHANGED <<dbVars, bullVars, budget>>

MinutePasses ==
    /\ rate > 0 /\ rate' = 0
    /\ UNCHANGED <<dbVars, bullVars, tally, run, budget>>

-----------------------------------------------------------------------------
(* execute(), up to the try block *)

\* Mutant: a job that is already COMPLETED is not skipped.
FindJob_NoSkip(w) ==
    /\ Go(w, "find", "sequence")
    /\ UNCHANGED <<dbVars, bullVars, rate, tally, budget>>

FindJob(w) ==
    /\ Go(w, "find", IF status[run[w].job] = "COMPLETED" /\ run[w].job \notin Recurring
                     THEN "skip" ELSE "sequence")
    /\ UNCHANGED <<dbVars, bullVars, rate, tally, budget>>

SkipCompleted(w) ==
    /\ Go(w, "skip", "return")
    /\ Bump(run[w].job, "released")
    /\ UNCHANGED <<dbVars, bullVars, rate, budget>>

ReadSequence(w) ==
    /\ At(w, "sequence")
    /\ run' = [run EXCEPT ![w].pc = "save",
                          ![w].read = IF run[w].job \in Recurring THEN runs[run[w].job] ELSE lastSeq]
    /\ UNCHANGED <<dbVars, bullVars, rate, tally, budget>>

\* Read and save are two statements: the row is neither locked nor incremented in place.
SaveSequence(w) ==
    LET j == run[w].job
        n == run[w].read + 1
    IN  /\ \/ /\ j \in Recurring /\ Go(w, "save", "attempt")
              /\ runs' = [runs EXCEPT ![j] = n] /\ lastSeq' = lastSeq
           \/ /\ j \notin Recurring /\ Go(w, "save", "stamp")
              /\ lastSeq' = n /\ runs' = runs
        /\ UNCHANGED <<status, attempts, seq, bullVars, rate, tally, budget>>

StampJob(w) ==
    /\ Go(w, "stamp", "attempt")
    /\ seq' = [seq EXCEPT ![run[w].job] = run[w].read + 1]
    /\ UNCHANGED <<status, attempts, lastSeq, runs, bullVars, rate, tally, budget>>

StartAttempt(w) ==
    LET j == run[w].job
    IN  /\ At(w, "attempt")
        /\ attempts' = [attempts EXCEPT ![j] = Append(@, "PROCESSING")]
        /\ run' = [run EXCEPT ![w].pc = "begin", ![w].row = Len(attempts[j]) + 1]
        /\ UNCHANGED <<status, lastSeq, runs, seq, bullVars, rate, tally, budget>>

Begin(w) ==
    /\ Go(w, "begin", "process")
    /\ status' = IF run[w].made = 0 THEN [status EXCEPT ![run[w].job] = "PROCESSING"] ELSE status
    /\ UNCHANGED <<attempts, lastSeq, runs, seq, bullVars, rate, tally, budget>>

-----------------------------------------------------------------------------
(* The try block *)

ProcessSucceeds(w) ==
    /\ At(w, "process")
    /\ run' = [run EXCEPT ![w].pc = "rowCompleted", ![w].ok = TRUE]
    /\ UNCHANGED <<dbVars, bullVars, rate, tally, budget>>

ProcessFails(w) ==
    /\ At(w, "process")
    /\ run' = [run EXCEPT ![w].pc = "rowFailed", ![w].threw = TRUE]
    /\ UNCHANGED <<dbVars, bullVars, rate, tally, budget>>

RowCompleted(w) ==
    /\ Go(w, "rowCompleted", "complete")
    /\ attempts' = [attempts EXCEPT ![run[w].job][run[w].row] = "COMPLETED"]
    /\ UNCHANGED <<status, lastSeq, runs, seq, bullVars, rate, tally, budget>>

Complete(w) ==
    /\ Go(w, "complete", "chain")
    /\ status' = [status EXCEPT ![run[w].job] = "COMPLETED"]
    /\ UNCHANGED <<attempts, lastSeq, runs, seq, bullVars, rate, tally, budget>>

\* chainService.onJobCompleted(); whatever it throws is swallowed
ChainCompleted(w) ==
    /\ Go(w, "chain", "count")
    /\ UNCHANGED <<dbVars, bullVars, rate, tally, budget>>

CountCompleted(w) ==
    /\ Go(w, "count", "finally")
    /\ Bump(run[w].job, "completed")
    /\ UNCHANGED <<dbVars, bullVars, rate, budget>>

-----------------------------------------------------------------------------
(* The catch block *)

\* Mutant: every failed attempt is treated as the final one.
RowFailed_Final(w) ==
    /\ Go(w, "rowFailed", "markFailed")
    /\ attempts' = [attempts EXCEPT ![run[w].job][run[w].row] = "FAILED"]
    /\ UNCHANGED <<status, lastSeq, runs, seq, bullVars, rate, tally, budget>>

\* Mutant: the row gets a status that job_attempts does not know.
RowFailed_Status(w) ==
    /\ Go(w, "rowFailed", IF IsLastAttempt(w) THEN "markFailed" ELSE "parent")
    /\ attempts' = [attempts EXCEPT ![run[w].job][run[w].row] = "ERROR"]
    /\ UNCHANGED <<status, lastSeq, runs, seq, bullVars, rate, tally, budget>>

\* Mutant: the update selects the attempt by job and hits the first one.
RowFailed_First(w) ==
    /\ Go(w, "rowFailed", IF IsLastAttempt(w) THEN "markFailed" ELSE "parent")
    /\ attempts' = [attempts EXCEPT ![run[w].job][1] = "FAILED"]
    /\ UNCHANGED <<status, lastSeq, runs, seq, bullVars, rate, tally, budget>>

RowFailed(w) ==
    /\ Go(w, "rowFailed", IF IsLastAttempt(w) THEN "markFailed" ELSE "parent")
    /\ attempts' = [attempts EXCEPT ![run[w].job][run[w].row] = "FAILED"]
    /\ UNCHANGED <<status, lastSeq, runs, seq, bullVars, rate, tally, budget>>

MarkFailed(w) ==
    /\ Go(w, "markFailed", "countFailed")
    /\ status' = [status EXCEPT ![run[w].job] = "FAILED"]
    /\ UNCHANGED <<attempts, lastSeq, runs, seq, bullVars, rate, tally, budget>>

CountFailed(w) ==
    /\ Go(w, "countFailed", "parent")
    /\ Bump(run[w].job, "failed")
    /\ UNCHANGED <<dbVars, bullVars, rate, budget>>

\* chainService.handleParentFailure(), on every failed attempt
ParentFailure(w) ==
    /\ Go(w, "parent", "finally")
    /\ UNCHANGED <<dbVars, bullVars, rate, tally, budget>>

-----------------------------------------------------------------------------
(* The finally block *)

\* Mutant: the slot is released on every failed attempt.
Finally_OnRetry(w) ==
    /\ Go(w, "finally", IF run[w].threw THEN "throw" ELSE "return")
    /\ Bump(run[w].job, "released")
    /\ UNCHANGED <<dbVars, bullVars, rate, budget>>

Finally(w) ==
    /\ Go(w, "finally", IF run[w].threw THEN "throw" ELSE "return")
    /\ IF run[w].ok \/ IsLastAttempt(w) THEN Bump(run[w].job, "released") ELSE tally' = tally
    /\ UNCHANGED <<dbVars, bullVars, rate, budget>>

-----------------------------------------------------------------------------
(* BullMQ takes the outcome; a run whose lock was lost changes nothing *)

Leave(w) == run' = [run EXCEPT ![w] = Idle]

Return(w) ==
    LET j == run[w].job
    IN  /\ At(w, "return") /\ Leave(w)
        /\ IF lock[j] = w
           THEN bull' = [bull EXCEPT ![j] = "completed"] /\ lock' = [lock EXCEPT ![j] = None]
           ELSE UNCHANGED <<bull, lock>>
        /\ UNCHANGED <<dbVars, made, stalls, events, rate, tally, budget>>

Throw(w) ==
    LET j == run[w].job
        retry == made[j] + 1 < MaxAttempts
    IN  /\ At(w, "throw") /\ Leave(w)
        /\ IF lock[j] = w
           THEN /\ made' = [made EXCEPT ![j] = @ + 1]
                /\ bull' = [bull EXCEPT ![j] = IF retry THEN "waiting" ELSE "failed"]
                /\ lock' = [lock EXCEPT ![j] = None]
                /\ events' = IF retry THEN events ELSE events \cup {<<w, j>>}
           ELSE UNCHANGED <<made, bull, lock, events>>
        /\ UNCHANGED <<dbVars, stalls, rate, tally, budget>>

\* Mutant: attemptsMade > maxAttempts, which the last attempt never reaches.
MoveToDlq_Never(w, j) ==
    /\ <<w, j>> \in events /\ made[j] > MaxAttempts
    /\ events' = events \ {<<w, j>>}
    /\ Bump(j, "dlq")
    /\ UNCHANGED <<dbVars, bull, made, lock, stalls, rate, run, budget>>

\* The worker's "failed" listener: attemptsMade >= maxAttempts, so add to the DLQ.
MoveToDlq(w, j) ==
    /\ <<w, j>> \in events
    /\ events' = events \ {<<w, j>>}
    /\ Bump(j, "dlq")
    /\ UNCHANGED <<dbVars, bull, made, lock, stalls, rate, run, budget>>

\* The next run of a cron job is a new BullMQ job on the same row.
Repeat(j) ==
    /\ j \in Recurring /\ bull[j] \in {"completed", "failed"}
    /\ Spend("repeat")
    /\ bull' = [bull EXCEPT ![j] = "waiting"]
    /\ made' = [made EXCEPT ![j] = 0]
    /\ stalls' = [stalls EXCEPT ![j] = 0]
    /\ Bump(j, "repeated")
    /\ UNCHANGED <<dbVars, lock, events, rate, run>>

-----------------------------------------------------------------------------
(* Faults *)

\* A database statement or Redis command of execute() throws; at "process" it is
\* the JobLog row written just before the try block.
AwaitThrows(w) ==
    /\ Spend("db")
    /\ \/ /\ run[w].pc \in BeforeTry \cup {"process"}
          /\ run' = [run EXCEPT ![w].pc = "throw"]
       \/ /\ run[w].pc \in InTry \ {"process", "chain"}
          /\ run' = [run EXCEPT ![w].pc = "rowFailed", ![w].threw = TRUE]
       \/ /\ run[w].pc \in InCatch
          /\ run' = [run EXCEPT ![w].pc = "finally"]
    /\ UNCHANGED <<dbVars, bullVars, rate, tally>>

\* The stalled-job check finds the lock of j expired: once more to the queue, or
\* failed with nobody's execute() and no "failed" event that reaches the DLQ.
Stalled(j) ==
    /\ bull' = [bull EXCEPT ![j] = IF stalls[j] < MaxStalled THEN "waiting" ELSE "failed"]
    /\ lock' = [lock EXCEPT ![j] = None]
    /\ stalls' = [stalls EXCEPT ![j] = @ + 1]

Crash(w) ==
    /\ ~At(w, "idle") /\ Spend("crash")
    /\ Leave(w)
    /\ events' = {e \in events : e[1] # w}
    /\ IF lock[run[w].job] = w THEN Stalled(run[w].job) ELSE UNCHANGED <<bull, lock, stalls>>
    /\ UNCHANGED <<dbVars, made, rate, tally>>

\* The worker is too busy to renew the lock, and goes on with the job all the same.
LoseLock(w) ==
    /\ ~At(w, "idle") /\ lock[run[w].job] = w /\ Spend("stall")
    /\ Stalled(run[w].job)
    /\ UNCHANGED <<dbVars, made, events, rate, tally, run>>

-----------------------------------------------------------------------------
ExecuteStep(w) ==
    \/ RateCheck(w) \/ FindJob(w) \/ SkipCompleted(w) \/ ReadSequence(w) \/ SaveSequence(w)
    \/ StampJob(w) \/ StartAttempt(w) \/ Begin(w) \/ ProcessSucceeds(w) \/ ProcessFails(w)
    \/ RowCompleted(w) \/ Complete(w) \/ ChainCompleted(w) \/ CountCompleted(w)
    \/ RowFailed(w) \/ MarkFailed(w) \/ CountFailed(w) \/ ParentFailure(w)
    \/ Finally(w) \/ Return(w) \/ Throw(w)

Next ==
    \/ \E w \in Worker : ExecuteStep(w) \/ AwaitThrows(w) \/ Crash(w) \/ LoseLock(w)
    \/ \E w \in Worker, j \in Job : Deliver(w, j) \/ MoveToDlq(w, j)
    \/ \E j \in Job : Repeat(j)
    \/ MinutePasses

\* The event loop resumes an answered await, BullMQ serves a free worker, a
\* listener that was called runs, and time passes.
Fairness ==
    /\ \A w \in Worker : WF_vars(ExecuteStep(w))
    /\ \A w \in Worker : WF_vars(\E j \in Job : Deliver(w, j))
    /\ \A w \in Worker, j \in Job : WF_vars(MoveToDlq(w, j))
    /\ WF_vars(MinutePasses)

Spec == Init /\ [][Next]_vars

FairSpec == Spec /\ Fairness

-----------------------------------------------------------------------------
(* Properties *)

Finished(j) == bull[j] \in {"completed", "failed"}

Row == {"PROCESSING", "COMPLETED", "FAILED"}

\* Every variable stays in its domain.
TypeOK ==
    /\ status \in [Job -> Status]
    /\ attempts \in [Job -> Seq(Row)]
    /\ lastSeq \in Nat /\ rate \in Nat
    /\ runs \in [Recurring -> Nat]
    /\ seq \in [Job -> Nat]
    /\ bull \in [Job -> {"waiting", "active", "completed", "failed"}]
    /\ made \in [Job -> 0 .. MaxAttempts]
    /\ lock \in [Job -> Worker \cup {None}]
    /\ stalls \in [Job -> 0 .. MaxStalled + 1]
    /\ events \subseteq Worker \X Job
    /\ tally \in [Job -> [Tallies -> Nat]]
    /\ run \in [Worker -> [pc : PC, job : Job \cup {None}, made : 0 .. MaxAttempts,
                           read : Nat, row : Nat, ok : BOOLEAN, threw : BOOLEAN]]
    /\ budget \in [FaultKind -> Nat]

Spent(f) == Faults[f] - budget[f]

\* The faults that can cost or duplicate a call: a throwing await, a crash, a lost lock.
InfraSpent == Spent("db") + Spent("crash") + Spent("stall")

\* The deliveries of j that owe one release() each.
Cycles(j) == 1 + tally[j].repeated

\* The finally block and the skip path together release a job's tenant slot once
\* per delivery: a fault between the work and BullMQ's acknowledgement adds at
\* most one release; only a fault, or an attempt the rate limit rejects before
\* execute() begins, can lose one.
ReleaseBalance ==
    \A j \in Job :
        /\ tally[j].released <= Cycles(j) + InfraSpent
        /\ Finished(j) => tally[j].released >= Cycles(j) - InfraSpent - tally[j].limited

\* The reconcile counters see each delivery end once, as completed or failed,
\* give or take a fault or a rejected attempt, and the DLQ gets it once at most.
CountedOnce ==
    \A j \in Job : LET n == tally[j].completed + tally[j].failed IN
        /\ n <= Cycles(j) + InfraSpent
        /\ Finished(j) => n >= Cycles(j) - InfraSpent - tally[j].limited
        /\ tally[j].dlq <= Cycles(j)

Reliable == Spent("db") = 0 /\ Spent("stall") = 0

\* When BullMQ is done with a job the database says the same of it, although the
\* two are written by different steps and a crash may fall between them; only a
\* failing statement, a lost lock, a rejected attempt or a crash too many sets them
\* apart.
OutcomeAgrees ==
    \A j \in Job : Reliable /\ tally[j].limited = 0 =>
        /\ bull[j] = "completed" => status[j] = "COMPLETED"
        /\ bull[j] = "failed" /\ stalls[j] <= MaxStalled => status[j] = "FAILED"

\* A completed job is not started over, even when it is delivered again after a
\* crash: execute() finds it COMPLETED and skips it.
CompletedSticks ==
    [][\A j \in Job \ Recurring :
          Reliable' /\ status[j] = "COMPLETED" => status'[j] = "COMPLETED"]_vars

OpenRows(j) == {i \in DOMAIN attempts[j] : attempts[j][i] = "PROCESSING"}

\* The attempt rows that no run will close any more.
Orphans(j) == {i \in OpenRows(j) : \A w \in Worker : run[w].job = j => run[w].row # i}

\* job_attempts tells what happened: a row is left at PROCESSING only by a fault,
\* one row each, and every run writes to the row it opened itself.
RowsClosed ==
    \A j \in Job : Cardinality(Orphans(j)) <= InfraSpent

\* Every job ends, completed or in the dead letter queue, through failing
\* attempts and the tenant's rate limit.
Settles == \A j \in Job : <>(bull[j] = "completed" \/ (bull[j] = "failed" /\ tally[j].dlq = 1))
=============================================================================
