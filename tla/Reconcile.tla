------------------------------- MODULE Reconcile -------------------------------
(***************************************************************************)
(* The reconcile counters of one queue (shared/src/metrics/                *)
(* queueReconcileCollector.ts), the calls of submitJob(), drainOne() and   *)
(* execute() that move them, and the report that adds them up with what    *)
(* QueueMetricsCollector reads from BullMQ (metrics.controller.ts).        *)
(*                                                                         *)
(* A step is one Redis command.  An increment is one HINCRBY; a decrement  *)
(* is an HGET and an HSET.  Whether submitJob() admits or stages is left   *)
(* open here: TenantCap has the cap.  Waiting, prioritized and delayed are *)
(* one state of a BullMQ job.  A command of submitJob() or drainOne() may  *)
(* throw, Faults times in all.                                             *)
(***************************************************************************)
EXTENDS Integers, FiniteSets, Sequences

CONSTANTS Job, Worker, NoJob, Faults

ASSUME JobAssumption == IsFiniteSet(Job) /\ NoJob \notin Job
ASSUME WorkerAssumption == IsFiniteSet(Worker)
ASSUME FaultAssumption == Faults \in Nat

VARIABLES
    totals,    \* submitted_total
    pre,       \* the hash of staged and release_pending
    terminal,  \* the hash of completed and failed
    staging,   \* tenant:staging, the payloads themselves
    bull,      \* BullMQ jobs waiting, per payload
    dlq,       \* jobs in the dead letter queue
    sub,       \* where submitJob(j) stands
    wrk,       \* where each worker stands in execute(), release() and drainOne()
    cur,       \* the job it runs
    won,       \* whether that succeeded
    hand,      \* the payload drainOne() has popped
    reg,       \* the counter's value its HGET read
    back,      \* whether it is in the catch block
    rep,       \* where the report stands
    seen,      \* what the report has read
    calm,      \* ghost: the report began at rest, and nothing has happened since
    hazy,      \* ghost: an HSET wrote something else than one less
    budget     \* throws left

counters == <<totals, pre, terminal>>
locals == <<cur, won, hand, reg, back>>
places == <<staging, bull, dlq>>
report == <<rep, seen>>
vars == <<counters, places, sub, wrk, locals, report, calm, hazy, budget>>

SubPC == {"new", "decide", "count", "done", "thrown"}
WrkPC == {"idle", "run", "tally", "lpop", "getStaged", "setStaged", "incPending", "enqueue",
          "getPending", "setPending", "lpush", "incStaged", "ack"}
Reads == {"waiting", "active", "dlq", "pre", "terminal", "totals"}

Init ==
    /\ totals = 0 /\ pre = [staged |-> 0, pending |-> 0]
    /\ terminal = [completed |-> 0, failed |-> 0]
    /\ staging = << >> /\ bull = [j \in Job |-> 0] /\ dlq = 0
    /\ sub = [j \in Job |-> "new"]
    /\ wrk = [w \in Worker |-> "idle"] /\ cur = [w \in Worker |-> NoJob]
    /\ won = [w \in Worker |-> FALSE] /\ hand = [w \in Worker |-> NoJob]
    /\ reg = [w \in Worker |-> 0] /\ back = [w \in Worker |-> FALSE]
    /\ rep = "none" /\ seen = << >> /\ calm = FALSE
    /\ hazy = FALSE /\ budget = Faults

SubGo(j, from, to) == sub[j] = from /\ sub' = [sub EXCEPT ![j] = to]
WrkGo(w, from, to) == wrk[w] = from /\ wrk' = [wrk EXCEPT ![w] = to]

AtRest ==
    /\ \A j \in Job : sub[j] \in {"new", "done"}
    /\ \A w \in Worker : wrk[w] \in {"idle", "run"}

\* A report only reads: one that is overtaken by any other step is not followed further,
\* since nothing can be said of what it adds up.
Stir == calm' = FALSE /\ rep' = "none" /\ seen' = << >>

-----------------------------------------------------------------------------
(* submitJob() *)

IncrementSubmitted(j) ==
    /\ SubGo(j, "new", "decide")
    /\ totals' = totals + 1
    /\ UNCHANGED <<pre, terminal, places, wrk, locals, hazy, budget>>

Admit(j) ==
    /\ SubGo(j, "decide", "done")
    /\ bull' = [bull EXCEPT ![j] = @ + 1]
    /\ UNCHANGED <<counters, staging, dlq, wrk, locals, hazy, budget>>

\* RPUSH; from here on a release may pop the payload.
Stage(j) ==
    /\ SubGo(j, "decide", "count")
    /\ staging' = Append(staging, j)
    /\ UNCHANGED <<counters, bull, dlq, wrk, locals, hazy, budget>>

\* Mutant: the wrong field of the hash.
IncrementStaged_Pending(j) ==
    /\ SubGo(j, "count", "done")
    /\ pre' = [pre EXCEPT !.pending = @ + 1]
    /\ UNCHANGED <<totals, terminal, places, wrk, locals, hazy, budget>>

IncrementStaged(j) ==
    /\ SubGo(j, "count", "done")
    /\ pre' = [pre EXCEPT !.staged = @ + 1]
    /\ UNCHANGED <<totals, terminal, places, wrk, locals, hazy, budget>>

SubmitThrows(j) ==
    /\ sub[j] \in {"new", "decide", "count"} /\ budget > 0
    /\ sub' = [sub EXCEPT ![j] = "thrown"]
    /\ budget' = budget - 1
    /\ UNCHANGED <<counters, places, wrk, locals, hazy>>

-----------------------------------------------------------------------------
(* execute(), as far as it counts *)

Take(w, j) ==
    /\ WrkGo(w, "idle", "run") /\ bull[j] > 0
    /\ bull' = [bull EXCEPT ![j] = @ - 1]
    /\ cur' = [cur EXCEPT ![w] = j]
    /\ UNCHANGED <<counters, staging, dlq, sub, won, hand, reg, back, hazy, budget>>

\* The job succeeds, or fails for the last time.
Finish(w) ==
    /\ WrkGo(w, "run", "tally")
    /\ \E b \in BOOLEAN : won' = [won EXCEPT ![w] = b]
    /\ UNCHANGED <<counters, places, sub, cur, hand, reg, back, hazy, budget>>

\* incrementCompleted() or incrementFailed().
Tally(w) ==
    /\ WrkGo(w, "tally", "lpop")
    /\ terminal' = IF won[w] THEN [terminal EXCEPT !.completed = @ + 1]
                             ELSE [terminal EXCEPT !.failed = @ + 1]
    /\ UNCHANGED <<totals, pre, places, sub, locals, hazy, budget>>

\* BullMQ takes the outcome; the "failed" handler adds a failed job to the DLQ.
Ack(w) ==
    /\ WrkGo(w, "ack", "idle")
    /\ dlq' = IF won[w] THEN dlq ELSE dlq + 1
    /\ cur' = [cur EXCEPT ![w] = NoJob] /\ won' = [won EXCEPT ![w] = FALSE]
    /\ back' = [back EXCEPT ![w] = FALSE] /\ hand' = [hand EXCEPT ![w] = NoJob]
    /\ reg' = [reg EXCEPT ![w] = 0]
    /\ UNCHANGED <<counters, staging, bull, sub, hazy, budget>>

-----------------------------------------------------------------------------
(* drainOne() *)

\* Mutant: LINDEX instead of LPOP.
Pop_Peek(w) ==
    /\ IF staging = << >>
       THEN WrkGo(w, "lpop", "ack") /\ UNCHANGED hand
       ELSE WrkGo(w, "lpop", "getStaged") /\ hand' = [hand EXCEPT ![w] = Head(staging)]
    /\ UNCHANGED <<counters, places, sub, cur, won, reg, back, hazy, budget>>

Pop(w) ==
    /\ IF staging = << >>
       THEN WrkGo(w, "lpop", "ack") /\ UNCHANGED <<staging, hand>>
       ELSE /\ WrkGo(w, "lpop", "getStaged")
            /\ hand' = [hand EXCEPT ![w] = Head(staging)] /\ staging' = Tail(staging)
    /\ UNCHANGED <<counters, bull, dlq, sub, cur, won, reg, back, hazy, budget>>

\* decrementFloorZero(): HGET ...
Get(w, from, field, to) ==
    /\ WrkGo(w, from, to)
    /\ reg' = [reg EXCEPT ![w] = pre[field]]
    /\ UNCHANGED <<counters, places, sub, cur, won, hand, back, hazy, budget>>

\* Mutant: Math.max(0, ...) is dropped.
Floor_None(n) == n

Floor(n) == IF n < 0 THEN 0 ELSE n

\* ... and HSET, which undoes every increment in between.
Set(w, from, field, to) ==
    /\ WrkGo(w, from, to)
    /\ pre' = [pre EXCEPT ![field] = Floor(reg[w] - 1)]
    /\ hazy' = (hazy \/ pre'[field] # pre[field] - 1)
    /\ reg' = [reg EXCEPT ![w] = 0]
    /\ UNCHANGED <<totals, terminal, places, sub, cur, won, hand, back, budget>>

IncrementPending(w) ==
    /\ WrkGo(w, "incPending", "enqueue")
    /\ pre' = [pre EXCEPT !.pending = @ + 1]
    /\ UNCHANGED <<totals, terminal, places, sub, locals, hazy, budget>>

\* hand keeps the payload: raw is still there if the catch block needs it.
Enqueue(w) ==
    /\ WrkGo(w, "enqueue", "getPending")
    /\ bull' = [bull EXCEPT ![hand[w]] = @ + 1]
    /\ UNCHANGED <<counters, staging, dlq, sub, locals, hazy, budget>>

PutBack(w) ==
    /\ WrkGo(w, "lpush", "getPending")
    /\ staging' = <<hand[w]>> \o staging
    /\ back' = [back EXCEPT ![w] = TRUE]
    /\ UNCHANGED <<counters, bull, dlq, sub, cur, won, hand, reg, hazy, budget>>

RestoreStaged(w) ==
    /\ WrkGo(w, "incStaged", "ack")
    /\ pre' = [pre EXCEPT !.staged = @ + 1]
    /\ UNCHANGED <<totals, terminal, places, sub, locals, hazy, budget>>

\* Inside the try, from enqueue() on, the catch block puts the payload back, whether or
\* not it had been enqueued; before the try and in the catch the error leaves drainOne().
Caught(w) == wrk[w] \in {"enqueue", "getPending", "setPending"} /\ ~back[w]

DrainThrows(w) ==
    /\ wrk[w] \notin {"idle", "run", "tally", "ack"} /\ budget > 0
    /\ budget' = budget - 1
    /\ wrk' = [wrk EXCEPT ![w] = IF Caught(w) THEN "lpush" ELSE "ack"]
    /\ UNCHANGED <<counters, places, sub, locals, hazy>>

DrainStep(w) ==
    \/ Pop(w) \/ IncrementPending(w) \/ Enqueue(w) \/ PutBack(w) \/ RestoreStaged(w)
    \/ Get(w, "getStaged", "staged", "setStaged") \/ Set(w, "setStaged", "staged", "incPending")
    \/ Get(w, "getPending", "pending", "setPending")
    \/ Set(w, "setPending", "pending", IF back[w] THEN "incStaged" ELSE "ack")

-----------------------------------------------------------------------------
(* GET /metrics/reconcile?fresh=true *)

BeginReport ==
    /\ rep = "none" /\ rep' = "poll"
    /\ calm' = (AtRest /\ ~hazy /\ budget = Faults)
    /\ UNCHANGED <<counters, places, sub, wrk, locals, seen, hazy, budget>>

\* The BullMQ jobs that wait: a payload enqueued n times is n of them.
Waiting == UNION {{j} \X (1 .. bull[j]) : j \in Job}

Value(name) ==
    CASE name = "waiting" -> Cardinality(Waiting)
      [] name = "active" -> Cardinality({w \in Worker : wrk[w] # "idle"})
      [] name = "dlq" -> dlq
      [] name = "pre" -> pre.staged + pre.pending
      [] name = "terminal" -> terminal.completed + terminal.failed
      [] name = "totals" -> totals

\* The queries of one Promise.all, in the order their answers come.
Read(from, names, to) ==
    /\ rep = from
    /\ \E name \in names \ DOMAIN seen :
          /\ seen' = [n \in DOMAIN seen \cup {name} |-> IF n = name THEN Value(name) ELSE seen[n]]
          /\ rep' = IF names \subseteq DOMAIN seen' THEN to ELSE from
    /\ UNCHANGED <<counters, places, sub, wrk, locals, calm, hazy, budget>>

\* poll(): the states of the queue, then the depth of its DLQ.
Poll == Read("poll", {"waiting", "active"}, "dlq") \/ Read("dlq", {"dlq"}, "state")

\* getQueueState().
GetQueueState == Read("state", {"pre", "terminal", "totals"}, "done")

\* Mutant: release_pending is left out of the sum.
AccountedForTotal_Short == seen["waiting"] + seen["active"] + seen["terminal"]

AccountedForTotal ==
    seen["pre"] + seen["waiting"] + seen["active"] + seen["terminal"] + seen["dlq"]

Delta == seen["totals"] - AccountedForTotal

-----------------------------------------------------------------------------
Next ==
    \/ /\ \/ \E j \in Job : \/ IncrementSubmitted(j) \/ Admit(j) \/ Stage(j) \/ IncrementStaged(j)
                            \/ SubmitThrows(j)
          \/ \E w \in Worker : \/ \E j \in Job : Take(w, j)
                               \/ Finish(w) \/ Tally(w) \/ Ack(w) \/ DrainStep(w) \/ DrainThrows(w)
       /\ Stir
    \/ BeginReport \/ Poll \/ GetQueueState

Spec == Init /\ [][Next]_vars

-----------------------------------------------------------------------------
(* Properties *)

Spent == Faults - budget

\* Every variable stays in its domain; no counter is ever negative.
TypeOK ==
    /\ totals \in Nat /\ pre \in [staged : Nat, pending : Nat]
    /\ terminal \in [completed : Nat, failed : Nat]
    /\ staging \in Seq(Job) /\ bull \in [Job -> Nat] /\ dlq \in Nat
    /\ sub \in [Job -> SubPC] /\ wrk \in [Worker -> WrkPC]
    /\ cur \in [Worker -> Job \cup {NoJob}] /\ hand \in [Worker -> Job \cup {NoJob}]
    /\ won \in [Worker -> BOOLEAN] /\ back \in [Worker -> BOOLEAN] /\ reg \in [Worker -> Nat]
    /\ rep \in {"none", "poll", "dlq", "state", "done"} /\ DOMAIN seen \subseteq Reads
    /\ calm \in BOOLEAN /\ hazy \in BOOLEAN /\ budget \in 0 .. Faults

Running == {w \in Worker : wrk[w] \in {"run", "tally"}}

\* The counters tell the truth at rest, unless a command threw or one of the two races
\* happened: an increment between the HGET and the HSET of a decrement, or a payload
\* popped before submitJob() had counted it, so that the floor swallows the decrement.
LedgerExact ==
    AtRest /\ ~hazy /\ Spent = 0 =>
        /\ pre = [staged |-> Len(staging), pending |-> 0]
        /\ totals = pre.staged + Cardinality(Waiting) + Cardinality(Running)
                    + terminal.completed + terminal.failed

\* The workers whose hands hold a payload that is nowhere else, or in BullMQ already and
\* about to be put back.
Handing == {w \in Worker : wrk[w] \in {"getStaged", "setStaged", "incPending", "enqueue", "lpush"}}

InPlay == Len(staging) + Cardinality(Waiting) + Cardinality(Handing) + Cardinality(Running)
          + (terminal.completed + terminal.failed)

Placed == Cardinality({j \in Job : sub[j] \in {"count", "done"}})

\* Every throw costs or doubles one payload at most: one before the try of drainOne()
\* loses what it popped, one after enqueue() stages again what BullMQ has.
PayloadsKept == InPlay - Placed \in -Spent .. Spent

\* A fresh report taken while the queue is quiet is off by the jobs in the DLQ exactly:
\* nothing is unknown, and each finally failed job is counted as failed and as dlq.
ReportOffByDlq == rep = "done" /\ calm => Delta = -seen["dlq"]
=============================================================================
