------------------------------- MODULE Scaling -------------------------------
(***************************************************************************)
(* The autoscaler (shared/src/scaling/autoScaler.service.ts), the registry *)
(* of one process's BullMQ workers (workerRegistry.service.ts) and the     *)
(* band promoter (band.promoter.service.ts), over one queue.               *)
(*                                                                         *)
(* setInterval() starts a tick whether or not the last one is over, so     *)
(* ticks overlap whenever Redis is slow or a worker takes long to close.   *)
(* Times are kept as ages that stop counting at the longest one that       *)
(* matters, which leaves the clock unbounded and the state space finite.   *)
(***************************************************************************)
EXTENDS Integers, FiniteSets, SequencesExt

CONSTANTS
    Job,         \* jobs of the queue
    Loads,       \* which jobs are posted with which priority, and how often the
                 \* process may crash
    Tick,        \* as many ticks as may be under way at once
    Base,        \* workers started at boot: 1 in a worker process, 0 in the API's
    MinWorkers,
    MaxWorkers,
    Cooldown,    \* MIN_COOLDOWN_MS
    Poll,        \* POLL_INTERVAL_MS, in the same unit
    Window,      \* jobs one promotion scan loads
    None

ASSUME JobAssumption == IsFiniteSet(Job) /\ None \notin Job
ASSUME TickAssumption == IsFiniteSet(Tick)
ASSUME BoundAssumption ==
    /\ Base \in Nat /\ MinWorkers \in Nat /\ MaxWorkers \in Nat
    /\ Base <= MaxWorkers /\ MinWorkers <= MaxWorkers
    /\ Cooldown \in Nat /\ Poll \in Nat \ {0} /\ Window \in Nat
ASSUME LoadAssumption ==
    Loads \subseteq [urgent : SUBSET Job, normal : SUBSET Job, crashes : Nat]

\* BullMQ Worker objects; a closed one's number is used again.
Worker == 1 .. (MaxWorkers + Cardinality(Tick))

VARIABLES
    load,       \* the load at hand, fixed; urgent jobs are posted with priority 1
    job,        \* where each job is in BullMQ
    high,       \* jobs in the high band
    old,        \* jobs older than PROMOTION_THRESHHOLD_MS
    scan,       \* jobs the promotion scan has still to look at
    pool,       \* the registry's list of workers, oldest first
    closing,    \* workers taken off the list whose close() is under way
    hold,       \* the job each worker runs
    runs,       \* times each job was taken
    pc,         \* where each tick stands
    counts,     \* the job counts it got from Redis
    victim,     \* the worker it closes
    sinceNow,   \* age of its "now"
    sinceStamp, \* age of lastScaleAt
    sinceScale, \* time since a worker was last added or removed
    overlap,    \* some tick decided while another was acting
    timer,      \* time to the next tick
    crashes

jobVars == <<job, high, old, runs>>
poolVars == <<pool, closing, hold>>
tickVars == <<pc, counts, victim, sinceNow, sinceStamp, sinceScale, overlap>>
vars == <<load, jobVars, scan, poolVars, tickVars, timer, crashes>>

Boot == [i \in 1 .. Base |-> i]

Init ==
    /\ load \in Loads
    /\ job = [j \in Job |-> "absent"]
    /\ high = {} /\ old = {} /\ scan = {}
    /\ runs = [j \in Job |-> 0]
    /\ pool = Boot
    /\ closing = {}
    /\ hold = [w \in Worker |-> None]
    /\ pc = [t \in Tick |-> "idle"]
    /\ counts = [t \in Tick |-> [active |-> 0, backlog |-> 0]]
    /\ victim = [t \in Tick |-> 0]
    /\ sinceNow = [t \in Tick |-> 0]
    /\ sinceStamp = Cooldown
    /\ sinceScale = Cooldown
    /\ overlap = FALSE
    /\ timer = Poll
    /\ crashes = 0

Jobs(s) == {j \in Job : job[j] = s}

Go(t, from, to) == pc[t] = from /\ pc' = [pc EXCEPT ![t] = to]

Pooled == ToSet(pool)

-----------------------------------------------------------------------------
(* Jobs and workers *)

Post(j) ==
    /\ job[j] = "absent" /\ j \in load.urgent \cup load.normal
    /\ job' = [job EXCEPT ![j] = "queued"]
    /\ high' = IF j \in load.urgent THEN high \cup {j} ELSE high
    /\ UNCHANGED <<load, old, runs, scan, poolVars, tickVars, timer, crashes>>

\* A job of the normal band has waited for the threshold.
Age(j) ==
    /\ job[j] = "queued" /\ j \notin old \cup load.urgent
    /\ old' = old \cup {j}
    /\ UNCHANGED <<load, job, high, runs, scan, poolVars, tickVars, timer, crashes>>

\* Mutant: workers ask for the high band only.
Take_HighOnly(w, j) ==
    /\ w \in Pooled /\ hold[w] = None
    /\ job[j] = "queued" /\ j \in high
    /\ job' = [job EXCEPT ![j] = "active"]
    /\ hold' = [hold EXCEPT ![w] = j]
    /\ runs' = [runs EXCEPT ![j] = @ + 1]
    /\ UNCHANGED <<load, high, old, scan, pool, closing, tickVars, timer, crashes>>

\* Lower numbers first: a worker takes a job of the high band if there is one.
Take(w, j) ==
    /\ w \in Pooled /\ hold[w] = None
    /\ job[j] = "queued" /\ (j \in high \/ Jobs("queued") \cap high = {})
    /\ job' = [job EXCEPT ![j] = "active"]
    /\ hold' = [hold EXCEPT ![w] = j]
    /\ runs' = [runs EXCEPT ![j] = @ + 1]
    /\ UNCHANGED <<load, high, old, scan, pool, closing, tickVars, timer, crashes>>

Finish(w) ==
    /\ hold[w] # None
    /\ job' = [job EXCEPT ![hold[w]] = "done"]
    /\ hold' = [hold EXCEPT ![w] = None]
    /\ UNCHANGED <<load, high, old, runs, scan, pool, closing, tickVars, timer, crashes>>

-----------------------------------------------------------------------------
(* WorkerRegistryService *)

\* spawnWorker()
Spawn ==
    LET new == CHOOSE w \in Worker : w \notin Pooled \cup closing
    IN  pool' = Append(pool, new) /\ UNCHANGED <<closing, hold>>

\* terminateWorker() up to its await: the youngest worker leaves the list.
Terminate(t) ==
    /\ pool' = Front(pool)
    /\ closing' = closing \cup {Last(pool)}
    /\ victim' = [victim EXCEPT ![t] = Last(pool)]
    /\ hold' = hold

\* worker.close() resolves once the worker has finished its job.
Close(t) ==
    /\ Go(t, "closing", "stamp")
    /\ hold[victim[t]] = None
    /\ closing' = closing \ {victim[t]}
    /\ victim' = [victim EXCEPT ![t] = 0]
    /\ UNCHANGED <<load, jobVars, scan, pool, hold, counts, sinceNow, sinceStamp, sinceScale, overlap, timer, crashes>>

-----------------------------------------------------------------------------
(* AutoScalerService *)

\* A unit of time passes.
Advance ==
    /\ timer > 0
    /\ timer' = timer - 1
    /\ sinceNow' = [t \in Tick |-> IF pc[t] \in {"closing", "stamp"} /\ sinceNow[t] < Cooldown
                                   THEN sinceNow[t] + 1 ELSE sinceNow[t]]
    /\ sinceStamp' = IF sinceStamp < Cooldown THEN sinceStamp + 1 ELSE sinceStamp
    /\ sinceScale' = IF sinceScale < Cooldown THEN sinceScale + 1 ELSE sinceScale
    /\ UNCHANGED <<load, jobVars, scan, poolVars, pc, counts, victim, overlap, crashes>>

\* The interval fires; the tick asks for the job counts.  With every tick of Tick
\* under way the firing is left out: the one bound on the overlap.
StartTick ==
    /\ timer = 0 /\ timer' = Poll
    /\ \/ \E t \in Tick : Go(t, "idle", "asking")
       \/ (\A t \in Tick : pc[t] # "idle") /\ pc' = pc
    /\ UNCHANGED <<load, jobVars, scan, poolVars, counts, victim, sinceNow, sinceStamp, sinceScale, overlap, crashes>>

\* getJobCounts() as Redis answers it; the answer takes its time.
Count(t) ==
    /\ Go(t, "asking", "decide")
    /\ counts' = [counts EXCEPT ![t] = [active |-> Cardinality(Jobs("active")),
                                        backlog |-> Cardinality(Jobs("queued"))]]
    /\ UNCHANGED <<load, jobVars, scan, poolVars, victim, sinceNow, sinceStamp, sinceScale, overlap, timer, crashes>>

\* Mutant: the cooldown is not looked at before a worker is added.
WantsMore_Eager(t) ==
    LET workers == Len(pool)
    IN  workers > 0 /\ counts[t].active >= workers /\ counts[t].backlog > 0 /\ workers < MaxWorkers

\* Mutant: the ceiling is compared with the number of jobs that run.
WantsMore_Active(t) ==
    LET workers == Len(pool)
    IN  /\ sinceStamp >= Cooldown
        /\ workers > 0 /\ counts[t].active >= workers /\ counts[t].backlog > 0
        /\ counts[t].active <= MaxWorkers

\* utilization >= 1, and 0 of a process that has no workers; the workers are counted
\* now, the jobs a while ago.
WantsMore(t) ==
    LET workers == Len(pool)
    IN  /\ sinceStamp >= Cooldown
        /\ workers > 0 /\ counts[t].active >= workers /\ counts[t].backlog > 0
        /\ workers < MaxWorkers

WantsFewer(t) ==
    /\ sinceStamp >= Cooldown
    /\ counts[t].backlog = 0 /\ counts[t].active = 0
    /\ Len(pool) > MinWorkers

Acting(t) == pc[t] \in {"closing", "stamp"}

\* The tick goes on: "now" is taken, a worker is added or taken off the list, all in
\* one turn of the event loop.
Decide(t) ==
    /\ pc[t] = "decide"
    /\ sinceNow' = [sinceNow EXCEPT ![t] = 0]
    /\ counts' = [counts EXCEPT ![t] = [active |-> 0, backlog |-> 0]]
    /\ \/ /\ WantsMore(t) /\ Go(t, "decide", "stamp")
          /\ Spawn /\ victim' = victim
          /\ sinceScale' = 0
       \/ /\ ~WantsMore(t) /\ WantsFewer(t) /\ Go(t, "decide", "closing")
          /\ Terminate(t)
          /\ sinceScale' = 0
       \/ /\ ~WantsMore(t) /\ ~WantsFewer(t) /\ Go(t, "decide", "idle")
          /\ UNCHANGED <<poolVars, victim, sinceScale>>
    /\ overlap' = (overlap \/ \E u \in Tick \ {t} : Acting(u))
    /\ UNCHANGED <<load, jobVars, scan, sinceStamp, timer, crashes>>

\* Mutant: lastScaleAt is set to the time the cooldown ends.
Stamp_Ahead(t) ==
    /\ Go(t, "stamp", "idle")
    /\ sinceStamp' = sinceNow[t] - Cooldown
    /\ UNCHANGED <<load, jobVars, scan, poolVars, counts, victim, sinceNow, sinceScale, overlap, timer, crashes>>

\* lastScaleAt is set to the tick's "now", which may be older than what it holds.
Stamp(t) ==
    /\ Go(t, "stamp", "idle")
    /\ sinceStamp' = sinceNow[t]
    /\ UNCHANGED <<load, jobVars, scan, poolVars, counts, victim, sinceNow, sinceScale, overlap, timer, crashes>>

-----------------------------------------------------------------------------
(* BandPromoterService *)

\* promoteQueue(): some jobs of the queue, as getJobs() orders them; those posted in
\* the high band and those that have not waited long enough are passed over.
Scan ==
    /\ scan = {}
    /\ \E S \in SUBSET Jobs("queued") :
          /\ Cardinality(S) <= Window
          /\ scan' = {j \in S \ load.urgent : j \in old}
          /\ scan' # {}
    /\ UNCHANGED <<load, jobVars, poolVars, tickVars, timer, crashes>>

\* Mutant: the job is added again with the new priority, as the code once did,
\* though a worker may have taken it since it was loaded.
Promote_ReAdd(j) ==
    /\ j \in scan
    /\ scan' = scan \ {j}
    /\ high' = high \cup {j}
    /\ job' = [job EXCEPT ![j] = "queued"]
    /\ UNCHANGED <<load, old, runs, poolVars, tickVars, timer, crashes>>

\* promoteJob(): a job that was taken meanwhile is left alone.
Promote(j) ==
    /\ j \in scan
    /\ scan' = scan \ {j}
    /\ high' = IF job[j] = "queued" THEN high \cup {j} ELSE high
    /\ UNCHANGED <<load, job, old, runs, poolVars, tickVars, timer, crashes>>

-----------------------------------------------------------------------------
\* The process dies and starts again: the pool, the ticks and lastScaleAt are gone,
\* BullMQ queues the jobs its workers had.
Restart ==
    /\ crashes < load.crashes /\ crashes' = crashes + 1
    /\ job' = [j \in Job |-> IF job[j] = "active" THEN "queued" ELSE job[j]]
    /\ scan' = {}
    /\ pool' = Boot
    /\ closing' = {}
    /\ hold' = [w \in Worker |-> None]
    /\ pc' = [t \in Tick |-> "idle"]
    /\ counts' = [t \in Tick |-> [active |-> 0, backlog |-> 0]]
    /\ victim' = [t \in Tick |-> 0]
    /\ sinceNow' = [t \in Tick |-> 0]
    /\ sinceStamp' = Cooldown /\ sinceScale' = Cooldown
    /\ timer' = Poll
    /\ UNCHANGED <<load, high, old, runs, overlap>>

TickStep(t) == Count(t) \/ Decide(t) \/ Close(t) \/ Stamp(t)

Next ==
    \/ \E j \in Job : Post(j) \/ Age(j) \/ Promote(j)
    \/ \E w \in Worker : Finish(w) \/ \E j \in Job : Take(w, j)
    \/ \E t \in Tick : TickStep(t)
    \/ Advance \/ StartTick \/ Scan \/ Restart

\* Jobs end, a worker asks for the next one, Redis answers, time passes.
Fairness ==
    /\ \A w \in Worker : WF_vars(Finish(w))
    /\ WF_vars(\E w \in Worker, j \in Job : Take(w, j))
    /\ \A t \in Tick : WF_vars(TickStep(t))
    /\ WF_vars(Advance) /\ WF_vars(StartTick)

Spec == Init /\ [][Next]_vars

FairSpec == Spec /\ Fairness

-----------------------------------------------------------------------------
(* Properties *)

\* Every variable stays in its domain.
TypeOK ==
    /\ load \in Loads
    /\ job \in [Job -> {"absent", "queued", "active", "done"}]
    /\ high \subseteq Job /\ old \subseteq Job /\ scan \subseteq Job
    /\ runs \in [Job -> Nat]
    /\ pool \in Seq(Worker) /\ closing \subseteq Worker
    /\ hold \in [Worker -> Job \cup {None}]
    /\ pc \in [Tick -> {"idle", "asking", "decide", "closing", "stamp"}]
    /\ counts \in [Tick -> [active : Nat, backlog : Nat]]
    /\ victim \in [Tick -> Worker \cup {0}]
    /\ sinceNow \in [Tick -> 0 .. Cooldown]
    /\ sinceStamp \in 0 .. Cooldown /\ sinceScale \in 0 .. Cooldown
    /\ overlap \in BOOLEAN
    /\ timer \in 0 .. Poll /\ crashes \in 0 .. load.crashes

\* "hard ceiling - no queue may have more than this many workers", and never fewer
\* than the minimum it started with, however many ticks act on counts that are out
\* of date: the registry is read and changed in one turn of the event loop.  Workers
\* on their way out run on, one per tick at most.
PoolInBounds ==
    /\ Len(pool) <= MaxWorkers
    /\ Base >= MinWorkers => Len(pool) >= MinWorkers
    /\ Cardinality(closing) <= Cardinality({t \in Tick : pc[t] = "closing"})

\* "No jobs are dropped": every job that was posted is queued, in the hands of one
\* worker that still runs, or done, through scale-downs that close a worker on the
\* strength of stale counts and promotions of jobs a worker has just taken.
JobsKept ==
    /\ \A j \in Job : Cardinality({w \in Pooled \cup closing : hold[w] = j})
                        = (IF job[j] = "active" THEN 1 ELSE 0)
    /\ \A j \in Job : runs[j] <= 1 + crashes

\* Cooldown: a worker is added or removed no sooner than MIN_COOLDOWN_MS after the
\* last one was, as long as no tick decides while another still waits for a worker
\* to close; then lastScaleAt is written late, and with a time that has passed.
CooldownKept ==
    [][pool' # pool /\ ~overlap' /\ crashes' = crashes => sinceScale >= Cooldown]_vars

\* In the end every job that was posted has run: scaling down never takes the
\* worker it needs, and never waits for one for good.
AllRun == <>[](\A j \in Job : job[j] \notin {"queued", "active"})
=============================================================================
