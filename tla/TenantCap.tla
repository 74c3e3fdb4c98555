------------------------------ MODULE TenantCap ------------------------------
(***************************************************************************)
(* The per-tenant concurrency cap of shared/src/scaling/                   *)
(* tenant-cap.service.ts, for one tenant (every Redis key the service uses *)
(* carries the tenant id, so tenants never meet).                          *)
(*                                                                         *)
(* submitJob() runs once per job, in an API or worker process; release()   *)
(* is called by BaseProcessor.execute() on the BullMQ worker that ran the  *)
(* job, so a worker serves at most one release() at a time.  A step is one *)
(* Redis command, or one call of queueService.enqueue(): between two awaits*)
(* every other process may run.                                            *)
(*                                                                         *)
(* The reconcile counters the service also bumps are write-only here; they *)
(* are left out of this module.  Redis itself is up (a command on the      *)
(* service's own connection answers), but enqueue() may throw, a process   *)
(* may crash at any await, a busy worker may lose its BullMQ lock, an      *)
(* attempt may be turned away before execute()'s try, and the counter's    *)
(* key may reach its TTL.  How often each happens is bounded by Faults.    *)
(***************************************************************************)
EXTENDS Integers, FiniteSets, SequencesExt

CONSTANTS
    Job,            \* the jobs the tenant submits, each once
    Worker,         \* the BullMQ workers (concurrency 1 each) that run them
    MaxConcurrent,  \* MAX_CONCURRENT_PER_TENANT
    Recurring,      \* the jobs submitted with a cron pattern
    Faults,         \* how often each fault of FaultKind may happen
    NoJob           \* no payload in hand

FaultKind == {"crash", "expire", "throw", "retry", "repeat", "reject", "lock"}

ASSUME CapAssumption == MaxConcurrent \in Nat \ {0}
ASSUME JobAssumption == IsFiniteSet(Job) /\ NoJob \notin Job /\ Recurring \subseteq Job
ASSUME WorkerAssumption == IsFiniteSet(Worker)
ASSUME FaultAssumption == Faults \in [FaultKind -> Nat]

VARIABLES
    inflight,  \* tenant:inflight:<id>; an absent key reads as 0
    ttl,       \* the inflight key carries an expiry
    staging,   \* tenant:staging:<id>, the list of parked payloads
    sub,       \* where submitJob(j) stands
    place,     \* the job as BullMQ sees it; "released" is active, after DECR
    wrk,       \* where each worker stands in execute() / release()
    cur,       \* the job each worker holds the lock of; NoJob in a lost run
    stalled,   \* the jobs that BullMQ has already found stalled once
    held,      \* the payload drainOne() popped and has not yet placed
    budget,    \* faults still allowed
    drift      \* ghost: slots really held minus slots the counter knows of

redisVars == <<inflight, ttl, staging>>
workerVars == <<wrk, cur, held>>
vars == <<inflight, ttl, staging, sub, place, wrk, cur, stalled, held, budget, drift>>

SubPC == {"new", "expire", "enqueue", "undo", "stage",
          "queued", "staged", "leaked", "stuck", "dropped"}
WrkPC == {"idle", "process", "decr", "reset", "lpop",
          "enqueue", "incr", "putback", "ack"}
Place == {"none", "waiting", "active", "released", "done"}

Init ==
    /\ inflight = 0
    /\ ttl = FALSE
    /\ staging = << >>
    /\ sub = [j \in Job |-> "new"]
    /\ place = [j \in Job |-> "none"]
    /\ wrk = [w \in Worker |-> "idle"]
    /\ cur = [w \in Worker |-> NoJob]
    /\ stalled = {}
    /\ held = [w \in Worker |-> NoJob]
    /\ budget = Faults
    /\ drift = 0

Spend(f) == budget[f] > 0 /\ budget' = [budget EXCEPT ![f] = @ - 1]

SubGo(j, from, to) == sub[j] = from /\ sub' = [sub EXCEPT ![j] = to]

WrkGo(w, from, to) == wrk[w] = from /\ wrk' = [wrk EXCEPT ![w] = to]

\* The slots of the tenant's capacity that a job at place p occupies.
Slot(p) == IF p \in {"waiting", "active"} THEN 1 ELSE 0

\* Worker w's job goes to p in BullMQ, which no longer listens to a lost run.
Goes(w, p) ==
    place' = IF cur[w] = NoJob THEN place ELSE [place EXCEPT ![cur[w]] = p]

-----------------------------------------------------------------------------
(* submitJob(payload) *)

\* Mutant: the comparison with the cap is forgotten.
SubmitDecision_NoCap(n) == IF n = 1 THEN "expire" ELSE "enqueue"

\* What submitJob does next when INCR answered n.
SubmitDecision(n) ==
    IF n = 1 THEN "expire" ELSE IF n <= MaxConcurrent THEN "enqueue" ELSE "undo"

SubmitIncr(j) ==
    /\ SubGo(j, "new", SubmitDecision(inflight + 1))
    /\ inflight' = inflight + 1
    /\ UNCHANGED <<ttl, staging, place, workerVars, stalled, budget, drift>>

\* n = 1 <= MaxConcurrent, so the job is admitted after the EXPIRE.
SubmitExpire(j) ==
    /\ SubGo(j, "expire", "enqueue")
    /\ ttl' = TRUE
    /\ UNCHANGED <<inflight, staging, place, workerVars, stalled, budget, drift>>

SubmitEnqueue(j) ==
    /\ SubGo(j, "enqueue", "queued")
    /\ place' = [place EXCEPT ![j] = "waiting"]
    /\ UNCHANGED <<redisVars, workerVars, stalled, budget, drift>>

\* enqueue() throws to the caller; nothing takes the INCR back.
SubmitEnqueueThrows(j) ==
    /\ SubGo(j, "enqueue", "leaked")
    /\ Spend("throw")
    /\ UNCHANGED <<redisVars, place, workerVars, stalled, drift>>

\* Mutant: the premature INCR is not undone.
SubmitUndo_NoDecr(j) ==
    /\ SubGo(j, "undo", "stage")
    /\ UNCHANGED <<redisVars, place, workerVars, stalled, budget, drift>>

SubmitUndo(j) ==
    /\ SubGo(j, "undo", "stage")
    /\ inflight' = inflight - 1
    /\ UNCHANGED <<ttl, staging, place, workerVars, stalled, budget, drift>>

SubmitStage(j) ==
    /\ SubGo(j, "stage", "staged")
    /\ staging' = Append(staging, j)
    /\ UNCHANGED <<inflight, ttl, place, workerVars, stalled, budget, drift>>

\* The process that runs submitJob(j) dies between two of its commands.
SubmitCrash(j) ==
    /\ \/ SubGo(j, "expire", "leaked")
       \/ SubGo(j, "enqueue", "leaked")
       \/ SubGo(j, "undo", "stuck")
       \/ SubGo(j, "stage", "dropped")
    /\ Spend("crash")
    /\ UNCHANGED <<redisVars, place, workerVars, stalled, drift>>

-----------------------------------------------------------------------------
(* BullMQ and BaseProcessor.execute(), as far as the cap sees them *)

Take(w, j) ==
    /\ WrkGo(w, "idle", "process")
    /\ place[j] = "waiting"
    /\ place' = [place EXCEPT ![j] = "active"]
    /\ cur' = [cur EXCEPT ![w] = j]
    /\ UNCHANGED <<redisVars, sub, stalled, held, budget, drift>>

\* A failed attempt that is not the last: the slot is retained.
Retry(w) ==
    /\ WrkGo(w, "process", "idle")
    /\ Spend("retry")
    /\ Goes(w, "waiting")
    /\ cur' = [cur EXCEPT ![w] = NoJob]
    /\ UNCHANGED <<redisVars, sub, stalled, held, drift>>

\* The last attempt is turned away by the rate limiter, or throws in execute()
\* before the try: BullMQ fails the job and no release() is called for its slot.
Reject(w) ==
    /\ WrkGo(w, "process", "idle")
    /\ Spend("reject")
    /\ Goes(w, "done")
    /\ cur' = [cur EXCEPT ![w] = NoJob]
    /\ drift' = drift - (IF cur[w] = NoJob THEN 0 ELSE 1)
    /\ UNCHANGED <<redisVars, sub, stalled, held>>

\* Success or final failure: the finally block calls release().
Finish(w) ==
    /\ WrkGo(w, "process", "decr")
    /\ UNCHANGED <<redisVars, sub, place, cur, stalled, held, budget, drift>>

\* execute() has returned and BullMQ records the job's end.
Ack(w) ==
    /\ WrkGo(w, "ack", "idle")
    /\ Goes(w, "done")
    /\ cur' = [cur EXCEPT ![w] = NoJob]
    /\ UNCHANGED <<redisVars, sub, stalled, held, budget, drift>>

\* A statement after process() threw: the finally block has released the job all
\* the same, BullMQ retries it, and the retry will release it again.
Rerun(w) ==
    /\ cur[w] # NoJob
    /\ WrkGo(w, "ack", "idle")
    /\ Spend("retry")
    /\ Goes(w, "waiting")
    /\ cur' = [cur EXCEPT ![w] = NoJob]
    /\ drift' = drift + 1
    /\ UNCHANGED <<redisVars, sub, stalled, held>>

\* The next run of a cron job: BullMQ delivers it without a submitJob(), and
\* execute() releases a slot for it all the same.
Repeat(j) ==
    /\ j \in Recurring /\ place[j] = "done"
    /\ Spend("repeat")
    /\ place' = [place EXCEPT ![j] = "waiting"]
    /\ stalled' = stalled \ {j}
    /\ drift' = drift + 1
    /\ UNCHANGED <<redisVars, sub, workerVars>>

-----------------------------------------------------------------------------
(* release(tenantId, queueName) and drainOne() *)

ReleaseDecr(w) ==
    /\ WrkGo(w, "decr", IF inflight - 1 < 0 THEN "reset" ELSE "lpop")
    /\ inflight' = inflight - 1
    /\ Goes(w, "released")
    /\ drift' = drift + (IF cur[w] = NoJob THEN 1 ELSE 0)
    /\ UNCHANGED <<ttl, staging, sub, cur, stalled, held, budget>>

\* SET key 0 overwrites whatever other processes did since the DECR, drops the
\* expiry, and returns without draining.
ReleaseReset(w) ==
    /\ WrkGo(w, "reset", "ack")
    /\ inflight' = 0
    /\ ttl' = FALSE
    /\ drift' = drift + inflight
    /\ UNCHANGED <<staging, sub, place, cur, stalled, held, budget>>

\* Mutant: LINDEX instead of LPOP leaves the payload in the list.
DrainPop_Peek(w) ==
    /\ \/ /\ staging = << >>
          /\ WrkGo(w, "lpop", "ack")
          /\ held' = held
       \/ /\ staging # << >>
          /\ WrkGo(w, "lpop", "enqueue")
          /\ held' = [held EXCEPT ![w] = Head(staging)]
    /\ UNCHANGED <<redisVars, sub, place, cur, stalled, budget, drift>>

\* Mutant: BLPOP instead of LPOP waits for a payload.
DrainPop_Block(w) ==
    /\ staging # << >>
    /\ WrkGo(w, "lpop", "enqueue")
    /\ held' = [held EXCEPT ![w] = Head(staging)]
    /\ staging' = Tail(staging)
    /\ UNCHANGED <<inflight, ttl, sub, place, cur, stalled, budget, drift>>

DrainPop(w) ==
    /\ \/ /\ staging = << >>
          /\ WrkGo(w, "lpop", "ack")
          /\ UNCHANGED <<staging, held>>
       \/ /\ staging # << >>
          /\ WrkGo(w, "lpop", "enqueue")
          /\ held' = [held EXCEPT ![w] = Head(staging)]
          /\ staging' = Tail(staging)
    /\ UNCHANGED <<inflight, ttl, sub, place, cur, stalled, budget, drift>>

DrainEnqueue(w) ==
    /\ WrkGo(w, "enqueue", "incr")
    /\ place' = [place EXCEPT ![held[w]] = "waiting"]
    /\ held' = [held EXCEPT ![w] = NoJob]
    /\ UNCHANGED <<redisVars, sub, cur, stalled, budget, drift>>

DrainEnqueueThrows(w) ==
    /\ WrkGo(w, "enqueue", "putback")
    /\ Spend("throw")
    /\ UNCHANGED <<redisVars, sub, place, cur, stalled, held, drift>>

DrainIncr(w) ==
    /\ WrkGo(w, "incr", "ack")
    /\ inflight' = inflight + 1
    /\ UNCHANGED <<ttl, staging, sub, place, cur, stalled, held, budget, drift>>

\* Mutant: the payload is not put back.
DrainPutBack_Drop(w) ==
    /\ WrkGo(w, "putback", "ack")
    /\ held' = [held EXCEPT ![w] = NoJob]
    /\ UNCHANGED <<redisVars, sub, place, cur, stalled, budget, drift>>

\* Mutant: the payload variable is cleared before the LPUSH.
DrainPutBack_Cleared(w) ==
    /\ WrkGo(w, "putback", "ack")
    /\ held' = [held EXCEPT ![w] = NoJob]
    /\ staging' = <<held'[w]>> \o staging
    /\ UNCHANGED <<inflight, ttl, sub, place, cur, stalled, budget, drift>>

DrainPutBack(w) ==
    /\ WrkGo(w, "putback", "ack")
    /\ staging' = <<held[w]>> \o staging
    /\ held' = [held EXCEPT ![w] = NoJob]
    /\ UNCHANGED <<inflight, ttl, sub, place, cur, stalled, budget, drift>>

-----------------------------------------------------------------------------
(* Faults *)

\* BullMQ's stalled-job check finds worker w's job without a lock: it delivers the
\* job again, or fails it for good when it has stalled before.  A job whose slot was
\* given back is then released a second time, one failed with its slot never.
AfterStall(j) == IF j \in stalled THEN "done" ELSE "waiting"

Stall(w, uncounted) ==
    \/ /\ cur[w] = NoJob
       /\ drift' = drift + uncounted
       /\ UNCHANGED <<place, stalled>>
    \/ \E j \in Job :
          /\ cur[w] = j
          /\ place' = [place EXCEPT ![j] = AfterStall(j)]
          /\ stalled' = stalled \cup {j}
          /\ drift' = drift + Slot(AfterStall(j)) - Slot(place[j]) + uncounted

\* The worker process dies: a job it enqueued for drainOne() and had not yet
\* counted is never counted, and a popped payload is gone.
WorkerCrash(w) ==
    /\ wrk[w] # "idle"
    /\ Spend("crash")
    /\ Stall(w, IF wrk[w] = "incr" THEN 1 ELSE 0)
    /\ wrk' = [wrk EXCEPT ![w] = "idle"]
    /\ cur' = [cur EXCEPT ![w] = NoJob]
    /\ held' = [held EXCEPT ![w] = NoJob]
    /\ UNCHANGED <<redisVars, sub>>

\* A busy worker fails to renew its lock in time: its run goes on, release()
\* included, while BullMQ already gives the job to another worker.
LoseLock(w) ==
    /\ cur[w] # NoJob
    /\ Spend("lock")
    /\ Stall(w, 0)
    /\ cur' = [cur EXCEPT ![w] = NoJob]
    /\ UNCHANGED <<redisVars, sub, wrk, held>>

\* 300 s after the last EXPIRE the key is deleted, whatever it holds.
KeyExpires ==
    /\ ttl
    /\ Spend("expire")
    /\ inflight' = 0
    /\ ttl' = FALSE
    /\ drift' = drift + inflight
    /\ UNCHANGED <<staging, sub, place, workerVars, stalled>>

-----------------------------------------------------------------------------
SubmitStep(j) ==
    \/ SubmitIncr(j) \/ SubmitExpire(j) \/ SubmitEnqueue(j)
    \/ SubmitEnqueueThrows(j) \/ SubmitUndo(j) \/ SubmitStage(j)

ReleaseStep(w) ==
    \/ ReleaseDecr(w) \/ ReleaseReset(w) \/ DrainPop(w) \/ DrainEnqueue(w)
    \/ DrainEnqueueThrows(w) \/ DrainIncr(w) \/ DrainPutBack(w) \/ Ack(w)

Next ==
    \/ \E j \in Job : SubmitStep(j) \/ SubmitCrash(j) \/ Repeat(j)
    \/ \E w \in Worker, j \in Job : Take(w, j)
    \/ \E w \in Worker :
          \/ Retry(w) \/ Reject(w) \/ Finish(w) \/ ReleaseStep(w) \/ Rerun(w)
          \/ WorkerCrash(w) \/ LoseLock(w)
    \/ KeyExpires

\* An await whose answer arrives is resumed by the event loop; BullMQ hands a
\* waiting job to a free worker; a job's work ends.  Nothing makes a client
\* submit, but a call that has begun goes on.
Fairness ==
    /\ \A j \in Job : WF_vars(sub[j] # "new" /\ SubmitStep(j))
    /\ \A w \in Worker : /\ WF_vars(ReleaseStep(w))
                         /\ WF_vars(Finish(w))
                         /\ WF_vars(\E j \in Job : Take(w, j))

Spec == Init /\ [][Next]_vars

FairSpec == Spec /\ Fairness

-----------------------------------------------------------------------------
(* Properties *)

\* Every variable stays in its domain.
TypeOK ==
    /\ inflight \in Int
    /\ ttl \in BOOLEAN
    /\ staging \in Seq(Job)
    /\ sub \in [Job -> SubPC]
    /\ place \in [Job -> Place]
    /\ wrk \in [Worker -> WrkPC]
    /\ cur \in [Worker -> Job \cup {NoJob}]
    /\ stalled \subseteq Job
    /\ held \in [Worker -> Job \cup {NoJob}]
    /\ budget \in [FaultKind -> Nat]
    /\ drift \in Int

\* The jobs that really occupy the tenant's capacity: in BullMQ, not released.
Holding == {j \in Job : Slot(place[j]) = 1}

\* The submissions whose INCR stands although their job is not in BullMQ.
Counted == {j \in Job : sub[j] \in {"expire", "enqueue", "undo", "leaked", "stuck"}}

\* Those of them that INCRed past the cap.
OverCap == {j \in Job : sub[j] \in {"undo", "stuck"}}

\* The releases that have put a job into BullMQ and have not yet counted it.
Uncounted == {w \in Worker : wrk[w] \in {"incr"}}

\* The releases that gave a slot back and may still take it for a staged job.
Draining == {w \in Worker : wrk[w] \in {"lpop", "enqueue", "incr"}}

\* Through every interleaving of submitJob(), release() and drainOne(), the Redis
\* counter plus its known errors equals the slots in use.  The errors, and no step
\* makes another: SET 0 and the TTL forget what the counter held; a run that
\* release()s a slot it does not have (a cron run, a redelivered or lost run, the
\* retry of a job that had succeeded) or a crash before drainOne()'s INCR forgets
\* one; a job that ends without release() (its last attempt rejected or thrown out
\* before the try, or stalled twice) leaves its slot counted for good.
SlotLedger ==
    inflight + drift = Cardinality(Holding) + Cardinality(Counted) - Cardinality(Uncounted)

\* Admission looks at the counter before drainOne() has put its INCR back, so
\* the counter exceeds the cap, but by no more than one per release under way.
OvershootBound ==
    inflight - Cardinality(OverCap) + Cardinality(Draining)
        <= MaxConcurrent + Cardinality(Worker)

\* The cap the service really enforces on the jobs in BullMQ.
CapSlack == Cardinality(Holding) <= MaxConcurrent + Cardinality(Worker) + drift

\* A payload is in one place only: twice in the staging list, in the list and in
\* a worker's hands, or staged and in BullMQ would each run the job twice.
NoDuplicate ==
    /\ IsInjective(staging)
    /\ \A w \in Worker : held[w] # NoJob =>
          /\ ~Contains(staging, held[w])
          /\ \A v \in Worker : held[v] = held[w] => v = w
    /\ \A j \in Job :
          Contains(staging, j) \/ (\E w \in Worker : held[w] = j)
             => sub[j] = "staged" /\ place[j] = "none"
    /\ \A v, w \in Worker : cur[v] = cur[w] /\ cur[v] # NoJob => v = w

\* What BullMQ, the submitter and the worker know of a job agree: a worker with the
\* lock of a job runs one that BullMQ holds active for it, released exactly when its
\* DECR is done; a payload is in hand exactly between LPOP and the enqueue() or LPUSH.
Consistent ==
    /\ \A j \in Job : place[j] # "none" => sub[j] \in {"queued", "staged"}
    /\ \A w \in Worker :
          cur[w] # NoJob =>
             /\ wrk[w] # "idle"
             /\ place[cur[w]] = IF wrk[w] \in {"process", "decr"} THEN "active" ELSE "released"
    /\ \A w \in Worker : held[w] # NoJob <=> wrk[w] \in {"enqueue", "putback"}

\* Staged by submitJob() and no longer anywhere, or never staged at all.
Lost == {j \in Job : \/ sub[j] = "dropped"
                     \/ /\ sub[j] = "staged" /\ place[j] = "none"
                        /\ ~Contains(staging, j) /\ \A w \in Worker : held[w] # j}

\* A job over the cap is lost only by a crash, and a crash loses at most one:
\* the window between LPOP and enqueue(), or between the undoing DECR and RPUSH.
LostOnlyByCrash == Cardinality(Lost) <= Faults["crash"] - budget["crash"]

\* Every admitted job ends in BullMQ, released or not: a crash, a lost lock, a
\* rejected attempt, a retry or a throwing enqueue() delays it, and a release() over
\* an empty or a full staging list never keeps the worker that must end it.
AdmittedCompletes == \A j \in Job : place[j] # "none" ~> place[j] = "done"

-----------------------------------------------------------------------------
(* The abstract specification *)

\* A job as AdmissionControl sees it.
stage == [j \in Job |->
    CASE place[j] \in {"waiting", "active"} -> "admitted"
      [] place[j] \in {"released", "done"} -> "finished"
      [] place[j] = "none" /\ sub[j] = "staged" -> "parked"
      [] place[j] = "none" /\ sub[j] \in {"leaked", "stuck", "dropped"} -> "refused"
      [] OTHER -> "new"]

AC == INSTANCE AdmissionControl
          WITH Limit <- MaxConcurrent + Cardinality(Worker), debt <- drift

\* With any number of workers and through every fault, the commands of submitJob()
\* and release() together behave as one atomic admission that lets in at most one
\* job per worker past the cap, and more only by what its counter was made to
\* forget: one slot at a time, or all that was in use when SET 0 or the TTL struck.
ImplementsAdmission == AC!Spec
=============================================================================
