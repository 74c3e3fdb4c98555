-------------------------------- MODULE JobApi --------------------------------
(***************************************************************************)
(* What the API does between a client's request and a payload that         *)
(* TenantCapService holds: JobsService (single, delayed and recurring      *)
(* jobs, manual retries), BatchJobService, ChainService.createWorkFlow()   *)
(* and NotificationsController, several requests at a time.                *)
(*                                                                         *)
(* A request is a process and a step of it one database statement or one   *)
(* call of submitJob(), which answers "queued" or "staged", or throws,     *)
(* with or without having done its work (TenantCap opens it up).  No       *)
(* request is one transaction: what it saved before it threw stays.        *)
(***************************************************************************)
EXTENDS Integers, FiniteSets, Sequences

CONSTANTS
    Request,   \* the requests under way
    Node,      \* the keys of a workflow's jobs, and the positions in a batch
    Scenes,    \* what the clients may ask: functions from Request to bodies
    Tenant,    \* user.tenant.id
    NoKey,     \* no idempotencyKey
    NoDeps,    \* no dependsOn
    Faults

FaultKind == {"crash", "throw", "fail"}

ASSUME FaultAssumption == Faults \in [FaultKind -> Nat]
ASSUME RequestAssumption == IsFiniteSet(Request)
ASSUME NodeAssumption == 1 \in Node /\ Node \subseteq Nat \ {0} /\ IsFiniteSet(Node)

Row == Request \X Node

\* The items of a batch have positions and priorities, a retry or a notification names a
\* row (its own, which nobody saves, if there is no such job), and a dependsOn has
\* finitely many keys.
ASSUME SceneAssumption ==
    \A scene \in Scenes, r \in Request :
        /\ scene[r].op = "batch" =>
              DOMAIN scene[r].items \subseteq Node /\ \A i \in DOMAIN scene[r].items : scene[r].items[i].prio \in Nat
        /\ scene[r].op \in {"retry", "notify"} => scene[r].row \in Row
        /\ scene[r].op = "flow" =>
              \A n \in Node : scene[r].parents[n] = NoDeps \/ IsFiniteSet(scene[r].parents[n])

VARIABLES
    body,       \* what each request asks, fixed
    pc,         \* where each request stands
    at,         \* how far its loop is: the key or position in hand, 0 before the first
    rows,       \* jobs.status, "none" before the row is saved
    deps,       \* job_dependencies: <<parent, child>>
    recurring,  \* the requests whose recurring_job row is saved
    repeats,    \* the requests whose pattern BullMQ repeats
    staged,     \* payloads in the tenant's staging list, per row they were made from
    sent,       \* BullMQ jobs ever added, per row they were made from
    passes,     \* how many retries the status of a row has let through (a ledger)
    budget

tables == <<rows, deps, recurring, passes>>
redis == <<repeats, staged, sent>>
vars == <<body, pc, at, tables, redis, budget>>

\* The job types: "sound" ones have a queue, "media-jobs" is an alias that only
\* resolveQueueName() knows, "unknown" stands for every other text.
JobType == {"sound", "media-jobs", "unknown"}
Status == {"none", "QUEUED", "SCHEDULED", "FAILED", "WAITING", "READY"}
Ended == {"ok", "refused", "dead"}
PC == {"new", "recurring", "save", "submit", "mark", "rows", "deps", "schedule"} \cup Ended

Init ==
    /\ body \in Scenes
    /\ pc = [r \in Request |-> "new"]
    /\ at = [r \in Request |-> 0]
    /\ rows = [w \in Row |-> "none"]
    /\ deps = {} /\ recurring = {} /\ repeats = {}
    /\ staged = [w \in Row |-> 0]
    /\ sent = [w \in Row |-> 0]
    /\ passes = [w \in Row |-> 0]
    /\ budget = Faults

Op(r) == body[r].op

Spend(f) == budget[f] > 0 /\ budget' = [budget EXCEPT ![f] = @ - 1]

Go(r, from, to) == pc[r] = from /\ pc' = [pc EXCEPT ![r] = to]

Save(w, s) == rows' = [rows EXCEPT ![w] = s]

Pass(w) == passes' = [passes EXCEPT ![w] = @ + 1]

Saved(w) == rows[w] # "none"

Payloads(w) == staged[w] + sent[w]

-----------------------------------------------------------------------------
(* resolveQueueName(), QueueService.enqueue() and submitJob() *)

\* resolveQueueName() throws for a type it does not know.
Resolves(type) == type # "unknown"

\* QUEUE_MAP has every alias in its own queue's list but "media-jobs".
GetQueueName(type) == type = "sound"

\* queue.add(): a job, or the repetition of one; r is the request with the pattern.
Enqueue(w, repeat) ==
    /\ sent' = [sent EXCEPT ![w] = @ + 1]
    /\ repeats' = repeats \cup repeat
    /\ UNCHANGED staged

Stage(w) ==
    /\ staged' = [staged EXCEPT ![w] = @ + 1]
    /\ UNCHANGED <<sent, repeats>>

\* submitJob() answers: below the cap it enqueues, which needs a queue; above it
\* stages without a look at the type.
Answers(w, type, repeat) ==
    /\ (GetQueueName(type) /\ Enqueue(w, repeat)) \/ Stage(w)
    /\ UNCHANGED budget

\* It throws: no queue for the type, or Redis fails before or after the effect.
Rejects(w, type, repeat) ==
    \/ ~GetQueueName(type) /\ UNCHANGED <<redis, budget>>
    \/ /\ Spend("throw")
       /\ UNCHANGED redis \/ Stage(w) \/ (GetQueueName(type) /\ Enqueue(w, repeat))

Cron(r) == IF body[r].cron THEN {r} ELSE {}

\* The pattern in a payload of createAndEnqueue(). The payload of a retry has none; which
\* of a row's payloads is drained when both are staged is left open.
Patterns(w) ==
    {IF Op(w[1]) = "create" THEN Cron(w[1]) ELSE {}}
    \cup {{} : r \in {q \in Request : Op(q) = "retry" /\ body[q].row = w /\ pc[q] \in Ended}}

\* The next release drains a payload: enqueue() takes it, or it is put back.
Drain(w, type) ==
    /\ staged[w] > 0 /\ GetQueueName(type)
    /\ staged' = [staged EXCEPT ![w] = @ - 1]
    /\ sent' = [sent EXCEPT ![w] = @ + 1]
    /\ \E pattern \in Patterns(w) : repeats' = repeats \cup pattern
    /\ UNCHANGED <<body, pc, at, tables, budget>>

-----------------------------------------------------------------------------
(* JobsService.createAndEnqueue() *)

Creating(r) == Op(r) = "create" /\ UNCHANGED <<body, at, deps, passes>>

BeginCreate(r) ==
    /\ Creating(r)
    /\ Go(r, "new", IF body[r].cron THEN "recurring" ELSE "save")
    /\ UNCHANGED <<rows, recurring, redis, budget>>

\* Mutant: the row of the recurring job is built and not saved.
SaveRecurring_Unsaved(r) ==
    /\ Creating(r) /\ Go(r, "recurring", "save")
    /\ UNCHANGED <<rows, recurring, redis, budget>>

SaveRecurring(r) ==
    /\ Creating(r) /\ Go(r, "recurring", "save")
    /\ recurring' = recurring \cup {r}
    /\ UNCHANGED <<rows, redis, budget>>

\* The item a row is made from.
Item(w) == IF Op(w[1]) = "batch" THEN body[w[1]].items[w[2]] ELSE body[w[1]]

\* The rows a request may save.
Positions(r) == IF Op(r) = "batch" THEN DOMAIN body[r].items ELSE IF Op(r) = "flow" THEN Node ELSE {1}

KeyOf(w) ==
    IF Op(w[1]) \in {"create", "batch"} /\ w[2] \in Positions(w[1]) THEN Item(w).key ELSE NoKey

\* jobs.idempotencyKey is UNIQUE: the insert of a second row with a key throws.
KeyTaken(w) == KeyOf(w) # NoKey /\ \E v \in Row : Saved(v) /\ KeyOf(v) = KeyOf(w)

Job1(r) == <<r, 1>>

\* Mutant: the payload is handed over before the row is saved.
SaveJob_Unsaved(r) ==
    /\ Creating(r)
    /\ Go(r, "save", IF KeyTaken(Job1(r)) THEN "refused" ELSE "submit")
    /\ UNCHANGED <<rows, recurring, redis, budget>>

SaveJob(r) ==
    /\ Creating(r)
    /\ IF KeyTaken(Job1(r))
       THEN Go(r, "save", "refused") /\ UNCHANGED rows
       ELSE Go(r, "save", "submit") /\ Save(Job1(r), IF body[r].cron THEN "SCHEDULED" ELSE "QUEUED")
    /\ UNCHANGED <<recurring, redis, budget>>

\* "throw error": the row stays as it was saved.
SubmitJob(r) ==
    /\ Creating(r) /\ UNCHANGED <<rows, recurring>>
    /\ \/ /\ Resolves(body[r].type) /\ Go(r, "submit", "ok")
          /\ Answers(Job1(r), body[r].type, Cron(r))
       \/ /\ Go(r, "submit", "refused")
          /\ \/ Resolves(body[r].type) /\ Rejects(Job1(r), body[r].type, Cron(r))
             \/ ~Resolves(body[r].type) /\ UNCHANGED <<redis, budget>>

CreateStep(r) == BeginCreate(r) \/ SaveRecurring(r) \/ SaveJob(r) \/ SubmitJob(r)

-----------------------------------------------------------------------------
(* BatchJobService.submitBatch() *)

Batching(r) == Op(r) = "batch" /\ UNCHANGED <<body, deps, recurring>>

Items(r) == DOMAIN body[r].items

\* The jobs are sorted by priority; the sort is stable.
Before(r, i, j) ==
    LET Rank(n) == body[r].items[n].prio IN Rank(i) < Rank(j) \/ (Rank(i) = Rank(j) /\ i < j)

\* The items whose turn is still to come.
Later(r) == {i \in Items(r) : at[r] = 0 \/ Before(r, at[r], i)}

Current(r) == <<r, at[r]>>

\* Not empty, and no name twice.
Valid(r) ==
    /\ Items(r) # {}
    /\ \A i, j \in Items(r) : body[r].items[i].name = body[r].items[j].name => i = j

BeginBatch(r) ==
    /\ Batching(r) /\ Go(r, "new", IF Valid(r) THEN "save" ELSE "refused")
    /\ UNCHANGED <<at, rows, passes, redis, budget>>

SaveItem(r) ==
    /\ Batching(r) /\ pc[r] = "save"
    /\ \E i \in Later(r) :
          /\ \A j \in Later(r) : ~Before(r, j, i)
          /\ at' = [at EXCEPT ![r] = i]
          /\ IF KeyTaken(<<r, i>>)
             THEN Go(r, "save", "refused") /\ UNCHANGED rows
             ELSE Go(r, "save", "submit") /\ Save(<<r, i>>, "QUEUED")
    /\ UNCHANGED <<passes, redis, budget>>

NextItem(r) == Go(r, "submit", IF Later(r) = {} THEN "ok" ELSE "save")

SubmitItem(r) ==
    /\ Batching(r) /\ pc[r] = "submit" /\ UNCHANGED <<at, rows, passes>>
    /\ LET w == Current(r)
       IN \/ Resolves(Item(w).type) /\ Answers(w, Item(w).type, {}) /\ NextItem(r)
          \/ /\ Go(r, "submit", "mark")
             /\ \/ Resolves(Item(w).type) /\ Rejects(w, Item(w).type, {})
                \/ ~Resolves(Item(w).type) /\ UNCHANGED <<redis, budget>>

\* Mutant: the catch block only throws on.
MarkItem_Leaves(r) ==
    /\ Batching(r) /\ Go(r, "mark", "refused")
    /\ UNCHANGED <<at, rows, passes, redis, budget>>

\* "revert to db status so it doesnt sit as queued with nothing in bullMQ"; the
\* items before it stay submitted, those after it are never saved.
MarkItem(r) ==
    /\ Batching(r) /\ Go(r, "mark", "refused")
    /\ Save(Current(r), "FAILED") /\ Pass(Current(r))
    /\ UNCHANGED <<at, redis, budget>>

BatchStep(r) == BeginBatch(r) \/ SaveItem(r) \/ SubmitItem(r) \/ MarkItem(r)

-----------------------------------------------------------------------------
(* ChainService.createWorkFlow() *)

Flowing(r) == Op(r) = "flow" /\ UNCHANGED <<body, recurring, passes>>

DependsOn(r, n) == body[r].parents[n]

\* The keys of dependsOn, as a list.
Parents(r, n) == IF DependsOn(r, n) = NoDeps THEN {} ELSE DependsOn(r, n)

\* An empty array is a dependsOn too.
HasRoot(r) == \E n \in Node : DependsOn(r, n) = NoDeps

\* graph[key] = [job.dependsOn]: an array is one neighbour, and as the name of a
\* node it reads as its keys joined by commas, a key only if there is just one.
Neighbour(r, n) == IF Cardinality(Parents(r, n)) = 1 THEN Parents(r, n) ELSE {}

Named(r) == Node \cup UNION {Parents(r, n) : n \in Node}

NeighbourIn(r, n) == IF n \in Node THEN Neighbour(r, n) ELSE {}

\* A call of dfs(), with visited and recStack as it finds them.
Call(r) == [node : Named(r), visited : SUBSET Named(r), recStack : SUBSET Named(r)]

\* The call for the neighbour.
Deeper(r, c) ==
    [node |-> CHOOSE m \in NeighbourIn(r, c.node) : TRUE,
     visited |-> c.visited \cup {c.node}, recStack |-> c.recStack \cup {c.node}]

\* Mutant: recStack.delete(node) is forgotten, so it grows as visited does.
Dfs_NoDelete(r) ==
    LET dfs[c \in Call(r)] ==
            IF c.node \in c.visited \/ NeighbourIn(r, c.node) = {}
            THEN [found |-> FALSE, visited |-> c.visited \cup {c.node}]
            ELSE LET next == Deeper(r, c)
                 IN IF next.node \in next.visited
                    THEN [found |-> TRUE, visited |-> next.visited]
                    ELSE dfs[next]
    IN dfs

\* dfs(): a node's neighbour is on a cycle if it is on the path to it (recStack); nodes
\* that an earlier search has left (visited) are not searched again.
Dfs(r) ==
    LET dfs[c \in Call(r)] ==
            IF c.node \in c.visited \/ NeighbourIn(r, c.node) = {}
            THEN [found |-> FALSE, visited |-> c.visited \cup {c.node}]
            ELSE LET next == Deeper(r, c)
                 IN IF next.node \in next.visited
                    THEN [found |-> next.node \in next.recStack, visited |-> next.visited]
                    ELSE dfs[next]
    IN dfs

\* dfs() from one key after the other; visited is kept.
HasCircularDependency(r) ==
    LET search[s \in [keys : SUBSET Node, visited : SUBSET Named(r)]] ==
            LET n == CHOOSE i \in s.keys : \A j \in s.keys : i <= j
                turn == Dfs(r)[[node |-> n, visited |-> s.visited, recStack |-> {}]]
            IN s.keys # {} /\ (turn.found \/ search[[keys |-> s.keys \ {n}, visited |-> turn.visited]])
    IN search[[keys |-> Node, visited |-> {}]]

BeginFlow(r) ==
    /\ Flowing(r)
    /\ Go(r, "new", IF HasRoot(r) /\ ~HasCircularDependency(r) THEN "rows" ELSE "refused")
    /\ UNCHANGED <<at, rows, deps, redis, budget>>

\* A job without a type is found when its turn comes.
SaveRow(r) ==
    /\ Flowing(r) /\ pc[r] = "rows"
    /\ \E n \in Node :
          /\ n > at[r] /\ \A m \in Node : m > at[r] => n <= m
          /\ at' = [at EXCEPT ![r] = n]
          /\ IF n \in body[r].typed
             THEN Save(<<r, n>>, IF Parents(r, n) = {} THEN "READY" ELSE "WAITING") /\ pc' = pc
             ELSE Go(r, "rows", "refused") /\ UNCHANGED rows
    /\ UNCHANGED <<deps, redis, budget>>

RowsSaved(r) ==
    /\ Flowing(r) /\ (\A n \in Node : n <= at[r]) /\ Go(r, "rows", "deps")
    /\ UNCHANGED <<at, rows, deps, redis, budget>>

Edges(r) == {e \in Named(r) \X Node : e[1] \in Parents(r, e[2])}

Dep(r, e) == <<<<r, e[1]>>, <<r, e[2]>>>>

Missing(r) == {e \in Edges(r) : Dep(r, e) \notin deps}

\* The dependencies are saved job by job; a parent that is not in the request throws.
SaveDep(r) ==
    /\ Flowing(r) /\ pc[r] = "deps"
    /\ \E e \in Missing(r) :
          /\ \A f \in Missing(r) : e[2] <= f[2]
          /\ IF e[1] \in Node
             THEN deps' = deps \cup {Dep(r, e)} /\ pc' = pc
             ELSE Go(r, "deps", "refused") /\ UNCHANGED deps
    /\ UNCHANGED <<at, rows, redis, budget>>

DepsSaved(r) ==
    /\ Flowing(r) /\ Missing(r) = {} /\ Go(r, "deps", "schedule")
    /\ UNCHANGED <<at, rows, deps, redis, budget>>

\* scheduleNextJob() sets a READY job QUEUED ...
ScheduleFirst(r) ==
    /\ Flowing(r)
    /\ \E n \in Node :
          /\ rows[<<r, n>>] = "READY"
          /\ Save(<<r, n>>, "QUEUED")
          /\ at' = [at EXCEPT ![r] = n] /\ Go(r, "schedule", "submit")
    /\ UNCHANGED <<deps, redis, budget>>

\* ... and submits it.
SubmitFirst(r) ==
    /\ Flowing(r) /\ UNCHANGED <<at, rows, deps>>
    /\ LET w == <<r, at[r]>>
       IN \/ Go(r, "submit", "ok") /\ Answers(w, "sound", {})
          \/ Go(r, "submit", "refused") /\ Rejects(w, "sound", {})

FlowStep(r) ==
    \/ BeginFlow(r) \/ SaveRow(r) \/ RowsSaved(r) \/ SaveDep(r) \/ DepsSaved(r)
    \/ ScheduleFirst(r) \/ SubmitFirst(r)

-----------------------------------------------------------------------------
(* retryFailedJob(), the notifications controller and stopRecurringJob() *)

Retrying(r) == Op(r) = "retry" /\ UNCHANGED <<body, at, deps, recurring>>

\* The retries that have read the row and not updated it yet.
Looking(w) == {r \in Request : Op(r) = "retry" /\ body[r].row = w /\ pc[r] = "save"}

\* A retry that reads FAILED next to another one goes through as well.
Look(r) ==
    /\ IF Looking(body[r].row) = {} THEN UNCHANGED passes ELSE Pass(body[r].row)
    /\ Go(r, "new", "save")

\* Mutant: the status is not looked at.
FindFailed_Any(r) ==
    /\ Retrying(r) /\ UNCHANGED <<rows, redis, budget>>
    /\ IF Saved(body[r].row) THEN Look(r) ELSE Go(r, "new", "refused") /\ UNCHANGED passes

FindFailed(r) ==
    /\ Retrying(r) /\ UNCHANGED <<rows, redis, budget>>
    /\ IF rows[body[r].row] = "FAILED" THEN Look(r) ELSE Go(r, "new", "refused") /\ UNCHANGED passes

Requeue(r) ==
    /\ Retrying(r) /\ Go(r, "save", "submit")
    /\ Save(body[r].row, "QUEUED")
    /\ UNCHANGED <<passes, redis, budget>>

Resubmit(r) ==
    /\ Retrying(r) /\ pc[r] = "submit" /\ UNCHANGED <<rows, passes>>
    /\ LET w == body[r].row
           type == Item(w).type
       IN \/ Resolves(type) /\ Go(r, "submit", "ok") /\ Answers(w, type, {})
          \/ /\ Go(r, "submit", "refused")
             /\ \/ Resolves(type) /\ Rejects(w, type, {})
                \/ ~Resolves(type) /\ UNCHANGED <<redis, budget>>

\* The payload is submitted as it is: it names the row the client gave, which need not
\* exist or be in any state, and the queue is the one the body names, so nothing resolves
\* the type. Ids are uuids: nobody knows the id of a row before it is saved.
Notify(r) ==
    /\ Op(r) = "notify" /\ UNCHANGED <<body, at, tables>>
    /\ body[r].row = Job1(r) \/ Saved(body[r].row)
    /\ \/ Go(r, "new", "ok") /\ Answers(Job1(r), body[r].type, {})
       \/ Go(r, "new", "refused") /\ Rejects(Job1(r), body[r].type, {})

\* r.id?.includes(tenantId): ids are uuids, none is part of another.
Includes(id, text) == id = text

\* The first repetition that matches the type and the pattern, belongs to the job
\* named, if one is, and whose id includes the tenant's is removed.
StopRecurring(r) ==
    /\ Op(r) = "stop" /\ Go(r, "new", "ok")
    /\ repeats' = {q \in repeats : q # body[r].of \/ ~Includes(q, Tenant)}
    /\ UNCHANGED <<body, at, tables, staged, sent, budget>>

-----------------------------------------------------------------------------
(* Faults, and the worker that fails a job *)

\* A database statement fails: the request is refused, what it saved stays.
Throws(r) ==
    /\ pc[r] \in {"recurring", "save", "mark", "rows", "deps", "schedule"}
    /\ Spend("throw") /\ pc' = [pc EXCEPT ![r] = "refused"]
    /\ UNCHANGED <<body, at, tables, redis>>

\* The API process dies with all its requests.
Crash ==
    /\ \E r \in Request : pc[r] \notin Ended \cup {"new"}
    /\ Spend("crash")
    /\ pc' = [r \in Request |-> IF pc[r] \in Ended \cup {"new"} THEN pc[r] ELSE "dead"]
    /\ UNCHANGED <<body, at, tables, redis>>

\* A worker has a job that names the row: the row's own, or a notification.
Reached(w) == sent[w] > 0 \/ \E r \in Request : Op(r) = "notify" /\ body[r].row = w /\ sent[Job1(r)] > 0

Fails(w) ==
    /\ rows[w] \in {"QUEUED", "SCHEDULED"} /\ Reached(w) /\ Op(w[1]) # "flow"
    /\ Spend("fail") /\ Save(w, "FAILED") /\ Pass(w)
    /\ UNCHANGED <<body, pc, at, deps, recurring, redis>>

-----------------------------------------------------------------------------
Next ==
    \/ \E r \in Request :
          \/ CreateStep(r) \/ BatchStep(r) \/ FlowStep(r)
          \/ FindFailed(r) \/ Requeue(r) \/ Resubmit(r) \/ Notify(r) \/ StopRecurring(r)
          \/ Throws(r)
    \/ \E w \in Row : Fails(w) \/ (staged[w] > 0 /\ Op(w[1]) # "flow" /\ Drain(w, Item(w).type))
    \/ Crash

Spec == Init /\ [][Next]_vars

-----------------------------------------------------------------------------
(* Properties *)

Spent(f) == Faults[f] - budget[f]

Of(op) == {r \in Request : Op(r) = op}

\* Every variable stays in its domain.
TypeOK ==
    /\ pc \in [Request -> PC]
    /\ at \in [Request -> Nat]
    /\ rows \in [Row -> Status]
    /\ deps \subseteq Row \X Row
    /\ recurring \subseteq Of("create") /\ repeats \subseteq recurring
    /\ staged \in [Row -> Nat] /\ sent \in [Row -> Nat] /\ passes \in [Row -> Nat]
    /\ budget \in [FaultKind -> Nat]

\* The request a row comes from, and those that retry it.
Asking(w) == {w[1]} \cup {r \in Of("retry") : body[r].row = w}

\* A row that waits for a worker while no payload names it was left by a request that
\* died or told its client so: submitBatch() takes back what submitJob() refused
\* (unless the database fails as well), and nobody who was answered ok is left waiting.
LimboIsTold ==
    \A w \in Row :
        /\ rows[w] \in {"QUEUED", "SCHEDULED"} /\ Payloads(w) = 0
        /\ \A r \in Asking(w) : pc[r] \in Ended \cup {"new"}
        => \E r \in Asking(w) :
              \/ pc[r] = "dead" \/ (pc[r] = "refused" /\ Op(r) # "batch")
              \/ pc[r] = "refused" /\ Spent("throw") > 0

\* An idempotencyKey buys one job: of all the requests and batch items that carry it,
\* racing or repeated, one at most gets a payload.
KeyBuysOne ==
    \A v, w \in Row :
        /\ KeyOf(v) = KeyOf(w) /\ KeyOf(v) # NoKey
        /\ Payloads(v) > 0 /\ Payloads(w) > 0
        => v = w

\* A row is submitted once, and once more for each retry that its status let through: one
\* retry for each time a worker failed it or submitBatch() marked it FAILED, and one for
\* each that read FAILED while another retry had read it and not updated it yet (two users
\* at once). A notification that names the row is one payload more for it, and never two.
SubmittedOnce ==
    /\ KeyBuysOne
    /\ \A w \in Row : Payloads(w) <= 1 + passes[w]

\* The jobs of a workflow that are submitted have all they need.
FlowReady(r) ==
    (\E n \in Node : Payloads(<<r, n>>) > 0) =>
        (\A n \in Node : Saved(<<r, n>>)) /\ (\A e \in Edges(r) : Dep(r, e) \in deps)

\* Except through the notifications endpoint, which takes any id: a payload never names a
\* row the database does not have (execute() would find no row and throw); no job of a
\* workflow runs before all its rows and dependencies are there, as a parent could
\* otherwise complete and unlock nothing; and an accepted workflow has one job on its way.
FlowWhole ==
    /\ \A w \in Row : Payloads(w) > 0 /\ Op(w[1]) # "notify" => Saved(w)
    /\ \A r \in Of("flow") :
          FlowReady(r) /\ (pc[r] = "ok" => \E n \in Node : Payloads(<<r, n>>) = 1)

\* Jobs that wait for each other in a circle: none of them can ever run.
Cyclic(r) ==
    \E circle \in (SUBSET Node) \ {{}} : \A n \in circle : Parents(r, n) \cap circle # {}

\* The search finds a cycle exactly when there is one, as long as no job of the request
\* has two parents; with several parents it may miss one and never invents one.
CycleCheckExact ==
    \A r \in Of("flow") :
        pc[r] = "new" =>
            /\ HasCircularDependency(r) => Cyclic(r)
            /\ Cyclic(r) /\ (\A n \in Node : Cardinality(Parents(r, n)) <= 1)
                  => HasCircularDependency(r)
=============================================================================
