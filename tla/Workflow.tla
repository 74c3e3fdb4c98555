------------------------------ MODULE Workflow ------------------------------
(***************************************************************************)
(* One workflow of ChainService (shared/src/chain/chain.service.ts): jobs  *)
(* with dependencies, run one at a time.  Every scheduler is an actor: the *)
(* API call that created the workflow (JobApi has its checks and inserts), *)
(* and each BullMQ task that runs one of its jobs (onJobCompleted and      *)
(* handleParentFailure are called from inside BaseProcessor.execute()).    *)
(*                                                                         *)
(* A step is one database statement or one call of submitJob(), which here *)
(* puts the job into BullMQ (TenantCap opens it up).  The parts of         *)
(* execute() that do not touch a workflow's rows are left out              *)
(* (JobExecution has them), but for the throws that end it early.  A       *)
(* statement that throws has written nothing.                              *)
(***************************************************************************)
EXTENDS Integers, FiniteSets, Sequences

CONSTANTS
    Job,          \* the workflow's jobs, numbered in the order of createdAt
    Workflows,    \* the shapes a client may post: parents, priorities, strategies
    MaxAttempts,  \* retries, the attempts of a BullMQ task
    Faults(_),    \* the mixes of faults a workflow of each shape may meet
    Stray,        \* the runs that go on after BullMQ has taken their task away
    Api           \* the call of createWorkFlow()

\* A process dies; submitJob() throws; another statement throws, or the rate limiter rejects
\* the attempt; a statement after onJobCompleted() throws; a task's lock is lost.
FaultKind == {"crash", "throw", "error", "late", "lock"}

ASSUME JobAssumption == Job \subseteq Nat \ {0} /\ IsFiniteSet(Job)
Shape == [parents : [Job -> SUBSET Job], prio : [Job -> 1 .. 4], strict : SUBSET Job]

ASSUME ShapeAssumption == Workflows \subseteq Shape
ASSUME BoundAssumption ==
    MaxAttempts \in Nat \ {0} /\ \A w \in Workflows : Faults(w) \subseteq [FaultKind -> Nat]

\* A job is also the name of its BullMQ task, which scheduleNextJob() submits with the
\* job's id as idempotencyKey.
Task == Job
Actor == Task \cup Stray \cup {Api}

ASSUME ActorAssumption == Api \notin Job \cup Stray /\ Stray \cap Job = {}

VARIABLES
    wf,      \* the workflow's shape, fixed once created
    status,  \* jobs.status
    pc,      \* where each actor stands
    made,    \* attemptsMade of each run
    then,    \* where the actor goes when its scheduling is over
    todo,    \* children its loop has not visited yet
    cand,    \* the job in its hands
    snap,    \* the statuses its pickNextJobGLobal() loaded
    stack,   \* the siblings still to visit, per level of its walk, the deepest first
    lost,    \* the task that each stray run was
    stalled, \* the tasks BullMQ has taken back once
    ran,     \* the jobs that have been COMPLETED, a history
    spent    \* the faults so far

past == <<lost, stalled, ran>>
locals == <<then, todo, cand, snap, stack>>
vars == <<wf, status, pc, made, locals, past, spent>>

Status == {"WAITING", "READY", "QUEUED", "PROCESSING", "COMPLETED", "FAILED", "SKIPPED"}
Active == {"QUEUED", "PROCESSING"}

PC == {"none", "waiting", "begin", "work", "catch", "unlock", "check", "ready", "skip",
       "count", "pick", "walk", "claim", "submit", "return", "throw", "done"}

Children(j) == {c \in Job : j \in wf.parents[c]}
Roots == {j \in Job : wf.parents[j] = {}}

\* createWorkFlow() has saved the rows and calls scheduleNextJob().
Init ==
    /\ wf \in Workflows
    /\ status = [j \in Job |-> IF wf.parents[j] = {} THEN "READY" ELSE "WAITING"]
    /\ pc = [a \in Actor |-> IF a = Api THEN "count" ELSE "none"]
    /\ made = [a \in Task \cup Stray |-> 0]
    /\ then = [a \in Actor |-> "done"]
    /\ todo = [a \in Actor |-> {}]
    /\ cand = [a \in Actor |-> 0]
    /\ snap = [a \in Actor |-> << >>]
    /\ stack = [a \in Actor |-> << >>]
    /\ lost = [s \in Stray |-> 0]
    /\ stalled = {}
    /\ ran = {}
    /\ spent = [f \in FaultKind |-> 0]

Spend(f) ==
    /\ spent' = [spent EXCEPT ![f] = @ + 1]
    /\ \E mix \in Faults(wf) : \A g \in FaultKind : spent'[g] <= mix[g]

Go(a, from, to) == pc[a] = from /\ pc' = [pc EXCEPT ![a] = to]

SetStatus(j, s) == status' = [status EXCEPT ![j] = s]

-----------------------------------------------------------------------------
(* BaseProcessor.execute(), as far as the workflow sees it *)

FindJob(t) ==
    /\ Go(t, "waiting", IF status[t] = "COMPLETED" THEN "done" ELSE "begin")
    /\ UNCHANGED <<wf, status, made, locals, past, spent>>

\* The run a of job j; below, too.
Begin(a, j) ==
    /\ Go(a, "begin", "work")
    /\ status' = IF made[a] = 0 THEN [status EXCEPT ![j] = "PROCESSING"] ELSE status
    /\ UNCHANGED <<wf, made, locals, past, spent>>

Succeed(a, j) ==
    /\ Go(a, "work", "unlock")
    /\ SetStatus(j, "COMPLETED")
    /\ ran' = ran \cup {j}
    /\ then' = [then EXCEPT ![a] = "return"]
    /\ todo' = [todo EXCEPT ![a] = Children(j)]
    /\ UNCHANGED <<wf, made, cand, snap, stack, lost, stalled, spent>>

Fail(a) ==
    /\ Go(a, "work", "catch")
    /\ UNCHANGED <<wf, status, made, locals, past, spent>>

IsLastAttempt(a) == made[a] + 1 >= MaxAttempts

\* The catch block: FAILED only after the last attempt, handleParentFailure() after each.
Catch(a, j) ==
    /\ Go(a, "catch", "skip")
    /\ status' = IF IsLastAttempt(a) THEN [status EXCEPT ![j] = "FAILED"] ELSE status
    /\ then' = [then EXCEPT ![a] = "throw"]
    /\ todo' = [todo EXCEPT ![a] = Children(j)]
    /\ UNCHANGED <<wf, made, cand, snap, stack, past, spent>>

\* BullMQ takes the outcome.
Return(t) ==
    /\ Go(t, "return", "done")
    /\ UNCHANGED <<wf, status, made, locals, past, spent>>

Throw(t) ==
    /\ Go(t, "throw", IF IsLastAttempt(t) THEN "done" ELSE "waiting")
    /\ made' = [made EXCEPT ![t] = @ + 1]
    /\ UNCHANGED <<wf, status, locals, past, spent>>

\* BullMQ refuses the outcome of a run without the lock.
Refuse(s) ==
    /\ \E from \in {"return", "throw"} : Go(s, from, "done")
    /\ UNCHANGED <<wf, status, made, locals, past, spent>>

-----------------------------------------------------------------------------
(* onJobCompleted() and unlockChildren() *)

\* The child's row is read, then the count of its parents that are not COMPLETED,
\* then it is set READY: three statements.
FindChild(a) ==
    \/ /\ todo[a] = {} /\ Go(a, "unlock", "count")
       /\ UNCHANGED <<wf, status, made, locals, past, spent>>
    \/ \E c \in todo[a] :
          /\ Go(a, "unlock", IF status[c] = "WAITING" THEN "check" ELSE "unlock")
          /\ todo' = [todo EXCEPT ![a] = @ \ {c}]
          /\ cand' = [cand EXCEPT ![a] = c]
          /\ UNCHANGED <<wf, status, made, then, snap, stack, past, spent>>

\* Mutant: only a parent that has not been scheduled yet counts.
RemainingDeps_Unscheduled(c) == {p \in wf.parents[c] : status[p] \in {"WAITING", "READY"}}

RemainingDeps(c) == {p \in wf.parents[c] : status[p] # "COMPLETED"}

CountRemaining(a) ==
    /\ Go(a, "check", IF RemainingDeps(cand[a]) = {} THEN "ready" ELSE "unlock")
    /\ UNCHANGED <<wf, status, made, locals, past, spent>>

SetReady(a) ==
    /\ Go(a, "ready", "unlock")
    /\ SetStatus(cand[a], "READY")
    /\ UNCHANGED <<wf, made, locals, past, spent>>

-----------------------------------------------------------------------------
(* handleParentFailure() *)

\* A STRICT child is SKIPPED, whatever its status; a LENIENT one is left alone.
SkipChild(a) ==
    \/ /\ todo[a] = {} /\ Go(a, "skip", "count")
       /\ UNCHANGED <<wf, status, made, locals, past, spent>>
    \/ \E c \in todo[a] :
          /\ pc[a] = "skip"
          /\ todo' = [todo EXCEPT ![a] = @ \ {c}]
          /\ status' = IF c \in wf.strict THEN [status EXCEPT ![c] = "SKIPPED"] ELSE status
          /\ UNCHANGED <<wf, pc, made, then, cand, snap, stack, past, spent>>

-----------------------------------------------------------------------------
(* scheduleNextJob() *)

\* Mutant: only QUEUED jobs count as active.
CountActive_QueuedOnly(a) ==
    /\ Go(a, "count", IF \E j \in Job : status[j] = "QUEUED" THEN then[a] ELSE "pick")
    /\ UNCHANGED <<wf, status, made, locals, past, spent>>

CountActive(a) ==
    /\ Go(a, "count", IF \E j \in Job : status[j] \in Active THEN then[a] ELSE "pick")
    /\ UNCHANGED <<wf, status, made, locals, past, spent>>

\* Priority, then creation time.
Before(i, j) == wf.prio[i] < wf.prio[j] \/ (wf.prio[i] = wf.prio[j] /\ i < j)

LoadRoots(a) ==
    /\ Go(a, "pick", "walk")
    /\ snap' = [snap EXCEPT ![a] = status]
    /\ stack' = [stack EXCEPT ![a] = <<Roots>>]
    /\ UNCHANGED <<wf, status, made, then, todo, cand, past, spent>>

\* A turn of the loop of pickNextJobGLobal() (one level on the stack, statuses as
\* loaded) or of pickBestReadyDescendantDfs() (deeper, the child is read again): it
\* visits the first sibling of those left.
Visits(a, j, seen) ==
    /\ pc[a] = "walk" /\ stack[a] # << >>
    /\ j \in Head(stack[a]) /\ \A i \in Head(stack[a]) \ {j} : Before(j, i)
    /\ (IF Len(stack[a]) = 1 THEN snap[a][j] ELSE status[j]) \in seen

\* The siblings after j, and the levels above.
Rest(a, j) == <<Head(stack[a]) \ {j}>> \o Tail(stack[a])

WalkFound(a) == \E j \in Job :
    /\ Visits(a, j, {"READY"})
    /\ pc' = [pc EXCEPT ![a] = "claim"]
    /\ cand' = [cand EXCEPT ![a] = j]
    /\ stack' = [stack EXCEPT ![a] = << >>]
    /\ snap' = [snap EXCEPT ![a] = << >>]
    /\ UNCHANGED <<wf, status, made, then, todo, past, spent>>

\* "block - dont start siblings yet": null for this level, which the level above
\* takes for "subtree fully done".
WalkBlocked(a) == \E j \in Job :
    /\ Visits(a, j, Active \cup {"WAITING"})
    /\ stack' = [stack EXCEPT ![a] = Tail(@)]
    /\ UNCHANGED <<wf, status, pc, made, then, todo, cand, snap, past, spent>>

WalkDown(a) == \E j \in Job :
    /\ Visits(a, j, {"COMPLETED", "SKIPPED"})
    /\ stack' = [stack EXCEPT ![a] = <<Children(j)>> \o Rest(a, j)]
    /\ UNCHANGED <<wf, status, pc, made, then, todo, cand, snap, past, spent>>

\* Mutant: a FAILED job blocks its siblings like one that has not run.
WalkPast_Block(a) == \E j \in Job :
    /\ Visits(a, j, {"FAILED"})
    /\ stack' = [stack EXCEPT ![a] = Tail(@)]
    /\ UNCHANGED <<wf, status, pc, made, then, todo, cand, snap, past, spent>>

\* A FAILED job is passed over, its subtree with it.
WalkPast(a) == \E j \in Job :
    /\ Visits(a, j, {"FAILED"})
    /\ stack' = [stack EXCEPT ![a] = Rest(a, j)]
    /\ UNCHANGED <<wf, status, pc, made, then, todo, cand, snap, past, spent>>

\* A level without a READY job returns null; at the top there is nothing to schedule.
WalkUp(a) ==
    /\ pc[a] = "walk"
    /\ \/ /\ stack[a] # << >> /\ Head(stack[a]) = {}
          /\ stack' = [stack EXCEPT ![a] = Tail(@)]
          /\ UNCHANGED <<pc, snap>>
       \/ /\ stack[a] = << >>
          /\ pc' = [pc EXCEPT ![a] = then[a]]
          /\ snap' = [snap EXCEPT ![a] = << >>]
          /\ stack' = stack
    /\ UNCHANGED <<wf, status, made, then, todo, cand, past, spent>>

\* Mutant: the candidate is marked STAGED, which no step of a workflow expects.
Claim_Staged(a) ==
    /\ Go(a, "claim", "submit")
    /\ SetStatus(cand[a], "STAGED")
    /\ UNCHANGED <<wf, made, locals, past, spent>>

\* UPDATE ... SET status = QUEUED WHERE id: unconditional.
Claim(a) ==
    /\ Go(a, "claim", "submit")
    /\ SetStatus(cand[a], "QUEUED")
    /\ UNCHANGED <<wf, made, locals, past, spent>>

\* Mutant: the idempotencyKey is the workflow's, so its tasks share one BullMQ id.
SubmittedTask_FlowKey(a) == CHOOSE j \in Job : \A i \in Job : j <= i

\* scheduleNextJob() passes idempotencyKey = id.
SubmittedTask(a) == cand[a]

\* submitJob(); BullMQ ignores an id it knows already.
Submit(a) ==
    /\ pc[a] = "submit"
    /\ pc' = [pc EXCEPT ![a] = then[a],
                        ![SubmittedTask(a)] = IF @ = "none" THEN "waiting" ELSE @]
    /\ cand' = [cand EXCEPT ![a] = 0]
    /\ UNCHANGED <<wf, status, made, then, todo, snap, stack, past, spent>>

-----------------------------------------------------------------------------
(* Faults *)

\* submitJob() throws; the candidate keeps its QUEUED status.
SubmitThrows(a) ==
    /\ Spend("throw")
    /\ Go(a, "submit", then[a])
    /\ cand' = [cand EXCEPT ![a] = 0]
    /\ UNCHANGED <<wf, status, made, then, todo, snap, stack, past>>

\* What a run has in its hands when it is cut short.
Drop(a) ==
    /\ todo' = [todo EXCEPT ![a] = {}]
    /\ cand' = [cand EXCEPT ![a] = 0]
    /\ snap' = [snap EXCEPT ![a] = << >>]
    /\ stack' = [stack EXCEPT ![a] = << >>]

\* A statement throws, or the rate limiter rejects the attempt before its first one.
\* Outside the try, and inside the catch block before its UPDATE, the attempt fails with
\* nothing written; what onJobCompleted() throws is logged and forgotten; what
\* handleParentFailure() throws fails the attempt as it would have failed anyway.
Errors(a) ==
    /\ Spend("error")
    /\ pc[a] \notin {"none", "submit", "return", "throw", "done"}
    /\ Go(a, pc[a], IF pc[a] \in {"waiting", "begin", "work", "catch"} THEN "throw" ELSE then[a])
    /\ Drop(a)
    /\ UNCHANGED <<wf, status, made, then, past>>

\* A statement after onJobCompleted() throws: the catch block runs for a COMPLETED job.
ThrowLate(a) ==
    /\ Spend("late")
    /\ Go(a, "return", "catch")
    /\ UNCHANGED <<wf, status, made, locals, past>>

\* BullMQ delivers a task that was active again, and fails it the second time.
TakenBack(t) == IF t \in stalled THEN "done" ELSE "waiting"

Crash(a) ==
    /\ pc[a] \notin {"none", "waiting", "done"}
    /\ Spend("crash")
    /\ pc' = [pc EXCEPT ![a] = IF a \in Task THEN TakenBack(a) ELSE "done"]
    /\ stalled' = stalled \cup ({a} \cap Task)
    /\ Drop(a)
    /\ UNCHANGED <<wf, status, made, then, lost, ran>>

\* The run of task t loses its lock and goes on as s.
LoseLock(t, s) ==
    /\ pc[t] \notin {"none", "waiting", "done"} /\ pc[s] \in {"none", "done"}
    /\ Spend("lock")
    /\ pc' = [pc EXCEPT ![t] = TakenBack(t), ![s] = pc[t]]
    /\ stalled' = stalled \cup {t}
    /\ lost' = [lost EXCEPT ![s] = t]
    /\ made' = [made EXCEPT ![s] = made[t]]
    /\ then' = [then EXCEPT ![s] = then[t]]
    /\ todo' = [todo EXCEPT ![t] = {}, ![s] = todo[t]]
    /\ cand' = [cand EXCEPT ![t] = 0, ![s] = cand[t]]
    /\ snap' = [snap EXCEPT ![t] = << >>, ![s] = snap[t]]
    /\ stack' = [stack EXCEPT ![t] = << >>, ![s] = stack[t]]
    /\ UNCHANGED <<wf, status, ran>>

-----------------------------------------------------------------------------
ScheduleStep(a) ==
    \/ CountActive(a) \/ LoadRoots(a) \/ WalkFound(a) \/ WalkBlocked(a) \/ WalkDown(a)
    \/ WalkPast(a) \/ WalkUp(a) \/ Claim(a) \/ Submit(a)

\* The run a of job j.
RunStep(a, j) ==
    \/ Begin(a, j) \/ Succeed(a, j) \/ Fail(a) \/ Catch(a, j)
    \/ FindChild(a) \/ CountRemaining(a) \/ SetReady(a) \/ SkipChild(a)

TaskStep(t) == RunStep(t, t) \/ FindJob(t) \/ Return(t) \/ Throw(t)

StrayStep(s) == RunStep(s, lost[s]) \/ Refuse(s)

Fault(a) ==
    \/ SubmitThrows(a) \/ Errors(a) \/ ThrowLate(a) \/ Crash(a)
    \/ a \in Task /\ \E s \in Stray : LoseLock(a, s)

Next ==
    \/ \E a \in Actor : ScheduleStep(a) \/ Fault(a)
    \/ \E t \in Task : TaskStep(t)
    \/ \E s \in Stray : StrayStep(s)

\* An answered await goes on, BullMQ delivers a waiting task, a job's work ends.
Fairness ==
    /\ \A a \in Actor : WF_vars(ScheduleStep(a))
    /\ \A t \in Task : WF_vars(TaskStep(t))
    /\ \A s \in Stray : WF_vars(StrayStep(s))

Spec == Init /\ [][Next]_vars

FairSpec == Spec /\ Fairness

-----------------------------------------------------------------------------
(* Properties *)

\* Every variable stays in its domain.
TypeOK ==
    /\ wf \in Shape
    /\ status \in [Job -> Status]
    /\ pc \in [Actor -> PC]
    /\ made \in [Task \cup Stray -> 0 .. MaxAttempts]
    /\ then \in [Actor -> {"return", "throw", "done"}]
    /\ todo \in [Actor -> SUBSET Job]
    /\ cand \in [Actor -> Job \cup {0}]
    /\ snap \in [Actor -> [Job -> Status] \cup {<< >>}]
    /\ stack \in [Actor -> Seq(SUBSET Job)]
    /\ lost \in [Stray -> Job \cup {0}]
    /\ stalled \subseteq Task /\ ran \subseteq Job
    /\ spent \in [FaultKind -> Nat]

Unspent(kinds) == \A f \in kinds : spent[f] = 0

Started(j) == status[j] \in {"READY", "QUEUED", "PROCESSING", "COMPLETED", "FAILED"}

\* After a crash two schedulers may overlap, and Claim and SetReady write a row that
\* another may have brought to COMPLETED since it was read: it is put back, though the
\* job has run.
PutBack(p) ==
    /\ spent["crash"] = 1
    /\ status[p] \in {"READY", "QUEUED"}
    /\ pc[p] \notin {"none", "waiting", "begin", "work"}

\* A job starts only after all its parents have run, though unlockChildren() reads the
\* parents in one statement and sets the child READY in another: whatever crashes, throws
\* or overlaps.  The parents' rows still say so, too, unless a crash has put one back; that
\* much is lost with a second crash, a throw in an odd place or a lost lock.
DependencyOrder ==
    /\ \A j \in Job : Started(j) \/ pc[j] # "none" => wf.parents[j] \subseteq ran
    /\ spent["crash"] <= 1 /\ Unspent({"error", "late", "lock"}) =>
          \A j \in Job : Started(j) =>
              \A p \in wf.parents[j] : status[p] = "COMPLETED" \/ PutBack(p)

\* scheduleNextJob() runs a workflow one job at a time, though it counts the active
\* jobs, picks and claims in separate statements: no two of its calls overlap, whichever
\* attempts fail and statements throw, unless a process dies, a task is taken from a run
\* that goes on, or a job fails after it has scheduled the next one.
OneActive ==
    Unspent({"crash", "late", "lock"}) => Cardinality({j \in Job : status[j] \in Active}) <= 1

\* The jobs that are QUEUED and that nobody will run: no task in BullMQ or at work,
\* no submission under way.
Stranded == {j \in Job :
    /\ status[j] = "QUEUED"
    /\ pc[j] \in {"none", "done"}
    /\ \A a \in Actor : ~(pc[a] = "submit" /\ cand[a] = j)}

Quiescent == \A a \in Actor : pc[a] \in {"none", "done"}

\* The jobs that wait though all their parents are done.
Forgotten == {j \in Job : status[j] = "WAITING" /\ \A p \in wf.parents[j] : status[p] = "COMPLETED"}

\* A job that is QUEUED is on its way to a worker.  Each crash between the two statements
\* that queue it, and each submitJob() that throws, leaves one job behind that BullMQ never
\* had.  A job whose task is over stays QUEUED only after a fault: two schedulers, or a last
\* attempt that fails outside the try.  A child is forgotten for good only by a crash
\* between a parent's COMPLETED and unlockChildren(), as the redelivered parent is skipped,
\* or by a throw in there, which is swallowed; no overlap of schedulers forgets one.
StrandedOnlyByFault ==
    /\ Cardinality({j \in Stranded : pc[j] = "none"}) <= spent["crash"] + spent["throw"]
    /\ (\E j \in Stranded : pc[j] = "done") => ~Unspent({"crash", "error", "late", "lock"})
    /\ Quiescent /\ Forgotten # {} => ~Unspent({"crash", "error"})

\* "the first ready job in this walk wins": the walk misses no READY job, so none is
\* left when the workflow comes to rest.
NoReadyLeft == Quiescent => \A j \in Job : status[j] # "READY"

\* A job is settled when it ended or can never run.
Settled(j) == \/ status[j] \in {"COMPLETED", "FAILED", "SKIPPED"}
              \/ status[j] = "WAITING" /\ \E p \in wf.parents[j] : status[p] # "COMPLETED"

\* A workflow comes to rest, and then nothing in it could still run.
WorkflowEnds == <>[](Quiescent /\ \A j \in Job : Settled(j))

-----------------------------------------------------------------------------
(* What the comments and messages say; the code does not do it *)

\* "skipped due to STRICT failure strategy": a job is skipped because a parent FAILED.
SkippedByFailure ==
    \A j \in Job : status[j] = "SKIPPED" => \E p \in wf.parents[j] : status[p] # "COMPLETED"
=============================================================================
