----------------------------- MODULE JobApiProofs -----------------------------
(***************************************************************************)
(* Proofs about JobApi for any requests, bodies, keys and faults: an       *)
(* inductive invariant for the requests, and the correctness of the search *)
(* for cycles by induction over the keys it has not visited.               *)
(***************************************************************************)
EXTENDS JobApi, FiniteSetTheorems, WellFoundedInduction, TLAPS

-----------------------------------------------------------------------------
(* What each request knows at each point of its code *)

Types == TypeOK /\ body \in Scenes /\ Spent("throw") >= 0 /\ Spent("fail") >= 0

\* The row is saved just before submitJob() is called, and the recurring job before it.
CreateOK(r) ==
    /\ pc[r] \in {"new", "recurring", "save"} => ~Saved(Job1(r))
    /\ pc[r] = "submit" => Saved(Job1(r))
    /\ body[r].cron /\ (pc[r] \in {"save", "submit"} \/ Saved(Job1(r))) => r \in recurring

\* The items saved are those up to the one in hand.
BatchOK(r) ==
    /\ at[r] \in Items(r) \cup {0}
    /\ pc[r] \in {"submit", "mark"} => at[r] # 0 /\ Saved(Current(r))
    /\ \A i \in Node : Saved(<<r, i>>) => i \in Items(r) \ Later(r)

AllSaved(r) == \A n \in Node : Saved(<<r, n>>)

\* A workflow is whole before anything of it is submitted, which is one job at its end.
FlowOK(r) ==
    /\ at[r] \in Node \cup {0} /\ (pc[r] = "submit" => at[r] \in Node)
    /\ pc[r] \in {"new", "rows"} => \A n \in Node : n <= at[r] => Saved(<<r, n>>)
    /\ pc[r] \in {"deps", "schedule", "submit", "ok"} => AllSaved(r)
    /\ pc[r] \in {"schedule", "submit", "ok"} => Missing(r) = {}
    /\ \A n \in Node : Payloads(<<r, n>>) > 0 => pc[r] \in Ended /\ AllSaved(r) /\ Missing(r) = {}
    /\ pc[r] = "ok" => \E n \in Node : Payloads(<<r, n>>) = 1

\* What is retried is a job of its own or of a batch.
RetryOK(r) ==
    pc[r] \in {"save", "submit"} => Saved(body[r].row) /\ Op(body[r].row[1]) \in {"create", "batch"}

RequestOK(r) ==
    /\ Op(r) = "create" => CreateOK(r)
    /\ Op(r) = "batch" => BatchOK(r)
    /\ Op(r) = "flow" => FlowOK(r)
    /\ Op(r) = "retry" => RetryOK(r)

\* Who saves rows, who can fail them, and that a payload names one.
RowsOK ==
    \A w \in Row :
        /\ Saved(w) => Op(w[1]) \in {"create", "batch", "flow"} /\ w[2] \in Positions(w[1])
        /\ rows[w] = "FAILED" => Op(w[1]) \in {"create", "batch"}
        /\ Payloads(w) > 0 /\ Op(w[1]) # "notify" => Saved(w)

\* jobs.idempotencyKey is UNIQUE.
KeysUnique == \A v, w \in Row : Saved(v) /\ Saved(w) /\ KeyOf(v) = KeyOf(w) /\ KeyOf(v) # NoKey => v = w

\* The request r has queued the row w and not submitted it yet, or not given it up.
InHand(r, w) ==
    \/ Op(r) = "create" /\ pc[r] = "submit" /\ w = Job1(r)
    \/ Op(r) = "batch" /\ pc[r] \in {"submit", "mark"} /\ w = Current(r)
    \/ Op(r) = "flow" /\ pc[r] = "submit" /\ w = <<r, at[r]>>
    \/ Op(r) = "retry" /\ pc[r] = "submit" /\ w = body[r].row

\* It has ended without an answer, or was told that the job may not run.
Told(r) == pc[r] = "dead" \/ (pc[r] = "refused" /\ (Op(r) # "batch" \/ Spent("throw") > 0))

\* What is queued and not submitted is in somebody's hands, or somebody was told.
LimboHeld ==
    \A w \in Row : rows[w] \in {"QUEUED", "SCHEDULED"} /\ Payloads(w) = 0 =>
        \E r \in Asking(w) : InHand(r, w) \/ Told(r)

\* The request a row comes from may still submit it.
Due(w) ==
    IF Op(w[1]) = "batch"
    THEN ~Saved(w) \/ (pc[w[1]] = "submit" /\ w = Current(w[1]))
    ELSE pc[w[1]] \notin Ended

\* The retries of w that have read FAILED and not submitted it yet.
Retries(w) == {r \in Request : Op(r) = "retry" /\ body[r].row = w /\ pc[r] \in {"save", "submit"}}

\* FAILED, and no retry has seen it.
Fresh(w) == rows[w] = "FAILED" /\ Looking(w) = {}

\* The payloads w has, and those it may get as things stand.
Ahead(w) == (IF Due(w) THEN 1 ELSE 0) + (IF Fresh(w) THEN 1 ELSE 0)

OnceOK == \A w \in Row : Payloads(w) + Cardinality(Retries(w)) + Ahead(w) <= 1 + passes[w]

IInv ==
    /\ Types /\ (\A r \in Request : RequestOK(r)) /\ RowsOK /\ KeysUnique /\ LimboHeld /\ OnceOK

-----------------------------------------------------------------------------
(* Calls of submitJob(), and faults *)

Pays(f) == budget[f] > 0 /\ budget' = [budget EXCEPT ![f] = @ - 1]

\* What a fault costs.
LEMMA Costs ==
    ASSUME Types, NEW f \in FaultKind, Pays(f)
    PROVE  /\ budget' \in [FaultKind -> Nat]
           /\ Spent("throw")' = Spent("throw") + (IF f = "throw" THEN 1 ELSE 0)
           /\ Spent("fail")' = Spent("fail") + (IF f = "fail" THEN 1 ELSE 0)
           /\ Spent("throw") \in Nat /\ Spent("fail") \in Nat
  BY FaultAssumption DEF Types, TypeOK, Pays, Spent, FaultKind

LEMMA CostsNothing ==
    ASSUME Types, budget' = budget
    PROVE  /\ Spent("throw")' = Spent("throw") /\ Spent("fail")' = Spent("fail")
           /\ Spent("throw") \in Nat /\ Spent("fail") \in Nat
  BY FaultAssumption DEF Types, TypeOK, Spent, FaultKind

\* At most one payload more for w, and repetitions of those who asked for one.
Effect(w, repeat) ==
    /\ staged' \in [Row -> Nat] /\ sent' \in [Row -> Nat]
    /\ \A v \in Row \ {w} : Payloads(v)' = Payloads(v)
    /\ repeats' \subseteq repeats \cup repeat

LEMMA AnswersMoves ==
    ASSUME Types, NEW w \in Row, NEW type, NEW repeat, Answers(w, type, repeat)
    PROVE  Effect(w, repeat) /\ Payloads(w)' = Payloads(w) + 1 /\ budget' = budget
  BY DEF Types, TypeOK, Answers, Enqueue, Stage, Payloads, Effect

LEMMA RejectsMoves ==
    ASSUME Types, NEW w \in Row, NEW type, NEW repeat, Rejects(w, type, repeat)
    PROVE  /\ Effect(w, repeat)
           /\ \/ UNCHANGED <<staged, sent, budget>> /\ Payloads(w)' = Payloads(w)
              \/ Pays("throw") /\ Payloads(w)' \in {Payloads(w), Payloads(w) + 1}
  <1>1. staged \in [Row -> Nat] /\ sent \in [Row -> Nat]
    BY DEF Types, TypeOK
  <1>2. CASE UNCHANGED redis
    BY <1>1, <1>2 DEF Rejects, redis, Effect, Payloads, Spend, Pays
  <1>3. CASE Spend("throw") /\ (Stage(w) \/ Enqueue(w, repeat))
    BY <1>1, <1>3 DEF Enqueue, Stage, Payloads, Effect, Spend, Pays
  <1> QED  BY <1>2, <1>3 DEF Rejects

\* r submits w: it is answered, or refused, or a throw leaves that open.
Hands(r, w) ==
    /\ UNCHANGED <<body, at, tables>>
    /\ staged' \in [Row -> Nat] /\ sent' \in [Row -> Nat] /\ repeats' \subseteq recurring
    /\ \A v \in Row \ {w} : Payloads(v)' = Payloads(v)
    /\ pc' = [pc EXCEPT ![r] = pc'[r]] /\ pc[r] \in {"new", "submit"}
    /\ \/ /\ pc'[r] = "ok" \/ (Op(r) = "batch" /\ pc'[r] = "save")
          /\ Payloads(w)' = Payloads(w) + 1 /\ budget' = budget
       \/ /\ pc'[r] = (IF Op(r) = "batch" THEN "mark" ELSE "refused")
          /\ \/ Payloads(w)' = Payloads(w) /\ budget' = budget
             \/ Payloads(w)' \in {Payloads(w), Payloads(w) + 1} /\ Pays("throw")

LEMMA Submission ==
    ASSUME Types, NEW r \in Request, RequestOK(r),
           SubmitJob(r) \/ SubmitItem(r) \/ SubmitFirst(r) \/ Resubmit(r) \/ Notify(r)
    PROVE  \E w \in Row : /\ Hands(r, w)
                          /\ InHand(r, w) \/ (Op(r) = "notify" /\ pc[r] = "new" /\ w = Job1(r))
  <1>1. /\ pc \in [Request -> PC] /\ staged \in [Row -> Nat] /\ sent \in [Row -> Nat]
        /\ repeats \subseteq recurring
        /\ Job1(r) \in Row /\ (Op(r) = "retry" => body[r].row \in Row)
    BY NodeAssumption, SceneAssumption DEF Types, TypeOK, Row, Job1, Op
  <1>2. ASSUME NEW w \in Row, NEW type, NEW repeat, repeat \subseteq recurring, NEW from, NEW to,
               Go(r, from, to), from \in {"new", "submit"}, UNCHANGED <<body, at, tables>>,
               \/ Answers(w, type, repeat) /\ (to = "ok" \/ (Op(r) = "batch" /\ to = "save"))
               \/ /\ Rejects(w, type, repeat) \/ UNCHANGED <<redis, budget>>
                  /\ to = (IF Op(r) = "batch" THEN "mark" ELSE "refused")
        PROVE  Hands(r, w)
    <2>1. /\ pc' = [pc EXCEPT ![r] = pc'[r]] /\ pc[r] \in {"new", "submit"} /\ pc'[r] = to
      BY <1>1, <1>2 DEF Go
    <2>2. CASE Answers(w, type, repeat) /\ (to = "ok" \/ (Op(r) = "batch" /\ to = "save"))
      <3>1. Effect(w, repeat) /\ Payloads(w)' = Payloads(w) + 1 /\ budget' = budget
        BY <2>2, AnswersMoves
      <3> QED  BY <1>1, <1>2, <2>1, <2>2, <3>1 DEF Hands, Effect
    <2>3. CASE Rejects(w, type, repeat) /\ to = (IF Op(r) = "batch" THEN "mark" ELSE "refused")
      <3>1. /\ Effect(w, repeat)
            /\ \/ budget' = budget /\ Payloads(w)' = Payloads(w)
               \/ Pays("throw") /\ Payloads(w)' \in {Payloads(w), Payloads(w) + 1}
        BY <2>3, RejectsMoves
      <3> QED  BY <1>1, <1>2, <2>1, <2>3, <3>1 DEF Hands, Effect
    <2>4. CASE UNCHANGED <<redis, budget>> /\ to = (IF Op(r) = "batch" THEN "mark" ELSE "refused")
      BY <1>1, <1>2, <2>1, <2>4 DEF Hands, redis, Payloads
    <2> QED  BY <1>2, <2>2, <2>3, <2>4
  <1>3. CASE SubmitJob(r)
    <2>1. /\ Op(r) = "create" /\ pc[r] = "submit" /\ Cron(r) \subseteq recurring
          /\ UNCHANGED <<body, at, tables>>
      BY <1>3 DEF SubmitJob, Creating, Go, RequestOK, CreateOK, Cron, tables
    <2>2. PICK w \in Row, type \in {body[r].type}, repeat \in {Cron(r)} : w = Job1(r)
      BY <1>1
    <2>3. /\ Go(r, "submit", "ok") /\ Answers(w, type, repeat)
          \/ /\ Go(r, "submit", "refused")
             /\ Rejects(w, type, repeat) \/ UNCHANGED <<redis, budget>>
      BY <1>3, <2>2 DEF SubmitJob
    <2>4. Hands(r, w)
      BY <1>2, <2>1, <2>2, <2>3 DEF Ended
    <2> QED  BY <2>1, <2>2, <2>4 DEF InHand
  <1>4. CASE SubmitItem(r)
    <2>1. Op(r) = "batch" /\ pc[r] = "submit" /\ UNCHANGED <<body, at, tables>>
      BY <1>4 DEF SubmitItem, Batching, tables
    <2>2. Current(r) \in Row
      BY <2>1, SceneAssumption DEF RequestOK, BatchOK, Current, Row, Items, Types, Op
    <2>3. PICK w \in Row, type \in {Item(Current(r)).type} : w = Current(r)
      BY <2>2
    <2>4. \/ Answers(w, type, {}) /\ (Go(r, "submit", "ok") \/ Go(r, "submit", "save"))
          \/ Go(r, "submit", "mark") /\ (Rejects(w, type, {}) \/ UNCHANGED <<redis, budget>>)
      BY <1>4, <2>3 DEF SubmitItem, NextItem
    <2>5. Hands(r, w)
      BY <1>2, <2>1, <2>3, <2>4 DEF Ended
    <2> QED  BY <2>1, <2>3, <2>5 DEF InHand
  <1>5. CASE SubmitFirst(r)
    <2>1. Op(r) = "flow" /\ pc[r] = "submit" /\ UNCHANGED <<body, at, tables>>
      BY <1>5 DEF SubmitFirst, Flowing, Go, tables
    <2>2. PICK w \in Row : w = <<r, at[r]>>
      BY <2>1 DEF RequestOK, FlowOK, Row
    <2>3. \/ Answers(w, "sound", {}) /\ Go(r, "submit", "ok")
          \/ Go(r, "submit", "refused") /\ Rejects(w, "sound", {})
      BY <1>5, <2>2 DEF SubmitFirst
    <2>4. Hands(r, w)
      BY <1>2, <2>1, <2>2, <2>3 DEF Ended
    <2> QED  BY <2>1, <2>2, <2>4 DEF InHand
  <1>6. CASE Resubmit(r)
    <2>1. Op(r) = "retry" /\ pc[r] = "submit" /\ UNCHANGED <<body, at, tables>>
      BY <1>6 DEF Resubmit, Retrying, tables
    <2>2. PICK w \in Row, type \in {Item(body[r].row).type} : w = body[r].row
      BY <1>1, <2>1
    <2>3. \/ Answers(w, type, {}) /\ Go(r, "submit", "ok")
          \/ Go(r, "submit", "refused") /\ (Rejects(w, type, {}) \/ UNCHANGED <<redis, budget>>)
      BY <1>6, <2>2 DEF Resubmit
    <2>4. Hands(r, w)
      BY <1>2, <2>1, <2>2, <2>3 DEF Ended
    <2> QED  BY <2>1, <2>2, <2>4 DEF InHand
  <1>7. CASE Notify(r)
    <2>1. Op(r) = "notify" /\ pc[r] = "new" /\ UNCHANGED <<body, at, tables>>
      BY <1>7 DEF Notify, Go
    <2>2. PICK w \in Row, type \in {body[r].type} : w = Job1(r)
      BY <1>1
    <2>3. \/ Answers(w, type, {}) /\ Go(r, "new", "ok")
          \/ Go(r, "new", "refused") /\ Rejects(w, type, {})
      BY <1>7, <2>2 DEF Notify
    <2>4. Hands(r, w)
      BY <1>2, <2>1, <2>2, <2>3 DEF Ended
    <2> QED  BY <2>1, <2>2, <2>4
  <1> QED  BY <1>3, <1>4, <1>5, <1>6, <1>7

-----------------------------------------------------------------------------
(* The kinds of steps *)

RequestStep(r) ==
    \/ CreateStep(r) \/ BatchStep(r) \/ FlowStep(r)
    \/ FindFailed(r) \/ Requeue(r) \/ Resubmit(r) \/ Notify(r) \/ StopRecurring(r)
    \/ Throws(r)

\* Only r moves.
Moves(r) ==
    /\ body' = body
    /\ pc' = [pc EXCEPT ![r] = pc'[r]] /\ pc'[r] \in PC /\ pc[r] \notin Ended
    /\ at' = [at EXCEPT ![r] = at'[r]] /\ at'[r] \in Nat

\* Neither rows nor payloads change.
Quiet(r) ==
    /\ Moves(r) /\ UNCHANGED <<rows, staged, sent>> /\ repeats' \subseteq repeats
    /\ deps \subseteq deps' /\ deps' \subseteq Row \X Row
    /\ recurring \subseteq recurring' /\ recurring' \subseteq Of("create")
    /\ \/ budget' = budget /\ pc[r] \notin {"submit", "mark"} /\ pc'[r] \notin {"submit", "mark"}
       \/ Pays("throw") /\ pc'[r] = "refused"
    /\ Op(r) = "retry" => pc'[r] \in {"save", "refused"}
    /\ IF Op(r) = "retry" /\ pc'[r] = "save"
       THEN /\ pc[r] = "new" /\ rows[body[r].row] = "FAILED"
            /\ IF Looking(body[r].row) = {} THEN UNCHANGED passes ELSE Pass(body[r].row)
       ELSE UNCHANGED passes

\* r saves the row w or updates it.
Writes(r, w, s) ==
    /\ Moves(r) /\ rows' = [rows EXCEPT ![w] = s]
    /\ UNCHANGED <<deps, recurring, repeats, staged, sent, budget>>
    /\ IF s = "FAILED" THEN Pass(w) ELSE UNCHANGED passes
    /\ Op(r) = "retry" => pc'[r] = "submit"
    /\ \/ /\ s \in {"QUEUED", "SCHEDULED"} /\ pc[r] \notin {"submit", "mark"} /\ InHand(r, w)'
          /\ \/ /\ Op(r) \in {"create", "batch"} /\ w[1] = r /\ w[2] \in Positions(r)
                /\ ~Saved(w) /\ ~KeyTaken(w)
             \/ Op(r) = "flow" /\ w[1] = r
             \/ Op(r) = "retry" /\ pc[r] = "save" /\ w = body[r].row
       \/ s \in {"READY", "WAITING"} /\ Op(r) = "flow" /\ w[1] = r /\ pc[r] = "rows" /\ pc' = pc
       \/ s = "FAILED" /\ Op(r) = "batch" /\ w = Current(r) /\ pc[r] = "mark" /\ pc'[r] = "refused"

LEMMA SceneOf ==
    ASSUME body \in Scenes, NEW r \in Request
    PROVE  /\ Op(r) = "batch" => Items(r) \subseteq Node /\ \A i \in Items(r) : body[r].items[i].prio \in Nat
           /\ Op(r) = "retry" => body[r].row \in Row
  BY SceneAssumption DEF Op, Items

LEMMA CreateKinds ==
    ASSUME Types, NEW r \in Request, RequestOK(r), CreateStep(r)
    PROVE  SubmitJob(r) \/ Quiet(r) \/ \E w \in Row, s \in Status \ {"none"} : Writes(r, w, s)
  <1>1. /\ pc \in [Request -> PC] /\ at \in [Request -> Nat] /\ deps \subseteq Row \X Row
        /\ recurring \subseteq Of("create") /\ Job1(r) \in Row /\ Op(r) = "create"
        /\ UNCHANGED <<body, at, deps, passes>>
    BY NodeAssumption DEF Types, TypeOK, Job1, Row, CreateStep, BeginCreate, SaveRecurring, SaveJob, SubmitJob, Creating
  <1> USE DEF Go, PC, Ended
  <1>2. ASSUME BeginCreate(r) PROVE Quiet(r)
    BY <1>1, <1>2 DEF BeginCreate, Quiet, Moves, redis
  <1>3. ASSUME SaveRecurring(r) PROVE Quiet(r)
    BY <1>1, <1>3 DEF SaveRecurring, Quiet, Moves, redis, Of
  <1>4. ASSUME SaveJob(r) PROVE Quiet(r) \/ \E w \in Row, s \in Status \ {"none"} : Writes(r, w, s)
    <2>1. CASE KeyTaken(Job1(r))
      BY <1>1, <1>4, <2>1 DEF SaveJob, Quiet, Moves, redis
    <2>2. CASE ~KeyTaken(Job1(r))
      <3>1. PICK s \in {"QUEUED", "SCHEDULED"} : Save(Job1(r), s) /\ pc[r] = "save" /\ pc' = [pc EXCEPT ![r] = "submit"]
        BY <1>4, <2>2 DEF SaveJob
      <3>2. PICK w \in Row : w = Job1(r)
        BY <1>1
      <3>3. ~Saved(w) /\ w[1] = r /\ w[2] \in Positions(r)
        BY <1>1, <3>1, <3>2 DEF RequestOK, CreateOK, Job1, Positions
      <3>4. InHand(r, w)'
        BY <1>1, <3>1, <3>2 DEF InHand, Op
      <3>5. Writes(r, w, s)
        BY <1>1, <1>4, <2>2, <3>1, <3>2, <3>3, <3>4 DEF Writes, Moves, Save, SaveJob, redis
      <3> QED  BY <3>1, <3>5 DEF Status
    <2> QED  BY <2>1, <2>2
  <1> QED  BY <1>2, <1>3, <1>4 DEF CreateStep

LEMMA BatchKinds ==
    ASSUME Types, NEW r \in Request, RequestOK(r), BatchStep(r)
    PROVE  SubmitItem(r) \/ Quiet(r) \/ \E w \in Row, s \in Status \ {"none"} : Writes(r, w, s)
  <1>1. /\ pc \in [Request -> PC] /\ at \in [Request -> Nat] /\ deps \subseteq Row \X Row
        /\ recurring \subseteq Of("create") /\ Op(r) = "batch" /\ Items(r) \subseteq Node /\ Node \subseteq Nat
        /\ UNCHANGED <<body, deps, recurring>> /\ BatchOK(r)
    BY NodeAssumption, SceneOf
       DEF Types, TypeOK, BatchStep, BeginBatch, SaveItem, SubmitItem, MarkItem, Batching, RequestOK
  <1> USE DEF Go, PC, Ended
  <1>2. ASSUME BeginBatch(r) PROVE Quiet(r)
    BY <1>1, <1>2 DEF BeginBatch, Quiet, Moves, redis
  <1>3. ASSUME SaveItem(r) PROVE Quiet(r) \/ \E w \in Row, s \in Status \ {"none"} : Writes(r, w, s)
    <2>1. PICK i \in Later(r) :
            /\ at' = [at EXCEPT ![r] = i]
            /\ IF KeyTaken(<<r, i>>)
               THEN Go(r, "save", "refused") /\ UNCHANGED rows
               ELSE Go(r, "save", "submit") /\ Save(<<r, i>>, "QUEUED")
      BY <1>3 DEF SaveItem
    <2>2. i \in Items(r) /\ i \in Node /\ i \in Nat /\ <<r, i>> \in Row
      BY <1>1 DEF Later, Row
    <2>3. CASE KeyTaken(<<r, i>>)
      BY <1>1, <1>3, <2>1, <2>2, <2>3 DEF SaveItem, Quiet, Moves, redis
    <2>4. CASE ~KeyTaken(<<r, i>>)
      <3>1. PICK w \in Row : w = <<r, i>>
        BY <2>2
      <3>2. ~Saved(w) /\ w[1] = r /\ w[2] \in Positions(r)
        BY <1>1, <2>2, <3>1 DEF BatchOK, Positions, Items
      <3>3. InHand(r, w)'
        BY <1>1, <2>1, <2>2, <2>4, <3>1 DEF InHand, Op, Current
      <3>4. Writes(r, w, "QUEUED")
        BY <1>1, <1>3, <2>1, <2>2, <2>4, <3>1, <3>2, <3>3 DEF Writes, Moves, Save, SaveItem, redis
      <3> QED  BY <3>4 DEF Status
    <2> QED  BY <2>3, <2>4
  <1>4. ASSUME MarkItem(r) PROVE \E w \in Row, s \in Status \ {"none"} : Writes(r, w, s)
    <2>1. pc[r] = "mark" /\ Current(r) \in Row
      BY <1>1, <1>4 DEF MarkItem, BatchOK, Current, Row
    <2>2. PICK w \in Row : w = Current(r)
      BY <2>1
    <2>3. Writes(r, w, "FAILED")
      BY <1>1, <1>4, <2>2 DEF MarkItem, Writes, Moves, Save, redis
    <2> QED  BY <2>3 DEF Status
  <1> QED  BY <1>2, <1>3, <1>4 DEF BatchStep

LEMMA FlowKinds ==
    ASSUME Types, NEW r \in Request, RequestOK(r), FlowStep(r)
    PROVE  SubmitFirst(r) \/ Quiet(r) \/ \E w \in Row, s \in Status \ {"none"} : Writes(r, w, s)
  <1>1. /\ pc \in [Request -> PC] /\ at \in [Request -> Nat] /\ deps \subseteq Row \X Row
        /\ recurring \subseteq Of("create") /\ Op(r) = "flow" /\ Node \subseteq Nat
        /\ UNCHANGED <<body, recurring, passes>> /\ FlowOK(r)
    BY NodeAssumption
       DEF Types, TypeOK, FlowStep, BeginFlow, SaveRow, RowsSaved, SaveDep, DepsSaved, ScheduleFirst, SubmitFirst,
           Flowing, RequestOK
  <1> USE DEF Go, PC, Ended
  <1>2. ASSUME BeginFlow(r) \/ RowsSaved(r) \/ DepsSaved(r) PROVE Quiet(r)
    BY <1>1, <1>2 DEF BeginFlow, RowsSaved, DepsSaved, Quiet, Moves, redis
  <1>3. ASSUME SaveRow(r) PROVE Quiet(r) \/ \E w \in Row, s \in Status \ {"none"} : Writes(r, w, s)
    <2>1. PICK n \in Node :
            /\ at' = [at EXCEPT ![r] = n]
            /\ IF n \in body[r].typed
               THEN Save(<<r, n>>, IF Parents(r, n) = {} THEN "READY" ELSE "WAITING") /\ pc' = pc
               ELSE Go(r, "rows", "refused") /\ UNCHANGED rows
      BY <1>3 DEF SaveRow
    <2>2. <<r, n>> \in Row /\ n \in Nat
      BY <1>1 DEF Row
    <2>3. CASE n \notin body[r].typed
      BY <1>1, <1>3, <2>1, <2>2, <2>3 DEF SaveRow, Quiet, Moves, redis
    <2>4. CASE n \in body[r].typed
      <3>1. PICK s \in {"READY", "WAITING"} : Save(<<r, n>>, s)
        BY <2>1, <2>4
      <3>2. Writes(r, <<r, n>>, s)
        BY <1>1, <1>3, <2>1, <2>2, <2>4, <3>1 DEF Writes, Moves, Save, SaveRow, redis
      <3> QED  BY <2>2, <3>2 DEF Status
    <2> QED  BY <2>3, <2>4
  <1>4. ASSUME SaveDep(r) PROVE Quiet(r)
    <2>1. PICK e \in Missing(r) :
            IF e[1] \in Node
            THEN deps' = deps \cup {Dep(r, e)} /\ pc' = pc
            ELSE Go(r, "deps", "refused") /\ UNCHANGED deps
      BY <1>4 DEF SaveDep
    <2>2. e[1] \in Node => Dep(r, e) \in Row \X Row
      BY DEF Missing, Edges, Dep, Row
    <2> QED  BY <1>1, <1>4, <2>1, <2>2 DEF SaveDep, Quiet, Moves, redis
  <1>5. ASSUME ScheduleFirst(r) PROVE \E w \in Row, s \in Status \ {"none"} : Writes(r, w, s)
    <2>1. PICK n \in Node : Save(<<r, n>>, "QUEUED") /\ at' = [at EXCEPT ![r] = n] /\ Go(r, "schedule", "submit")
      BY <1>5 DEF ScheduleFirst
    <2>2. PICK w \in Row : w = <<r, n>>
      BY DEF Row
    <2>3. InHand(r, w)'
      BY <1>1, <2>1, <2>2 DEF InHand, Op
    <2>4. Writes(r, w, "QUEUED")
      BY <1>1, <1>5, <2>1, <2>2, <2>3 DEF Writes, Moves, Save, ScheduleFirst, redis
    <2> QED  BY <2>4 DEF Status
  <1> QED  BY <1>2, <1>3, <1>4, <1>5 DEF FlowStep

LEMMA OtherKinds ==
    ASSUME Types, NEW r \in Request, RequestOK(r),
           FindFailed(r) \/ Requeue(r) \/ StopRecurring(r) \/ Throws(r)
    PROVE  Quiet(r) \/ \E w \in Row, s \in Status \ {"none"} : Writes(r, w, s)
  <1>1. /\ pc \in [Request -> PC] /\ at \in [Request -> Nat] /\ deps \subseteq Row \X Row
        /\ recurring \subseteq Of("create") /\ (Op(r) = "retry" => body[r].row \in Row)
    BY SceneOf DEF Types, TypeOK
  <1> USE DEF Go, PC, Ended
  <1>2. ASSUME FindFailed(r) PROVE Quiet(r)
    <2>1. /\ Op(r) = "retry" /\ pc[r] = "new" /\ UNCHANGED <<body, at, deps, recurring, rows, redis, budget>>
          /\ \/ /\ rows[body[r].row] = "FAILED" /\ pc' = [pc EXCEPT ![r] = "save"]
                /\ IF Looking(body[r].row) = {} THEN UNCHANGED passes ELSE Pass(body[r].row)
             \/ pc' = [pc EXCEPT ![r] = "refused"] /\ UNCHANGED passes
      BY <1>2 DEF FindFailed, Retrying, Look
    <2>2. pc'[r] \in {"save", "refused"} /\ (pc'[r] = "save" => rows[body[r].row] = "FAILED"
              /\ IF Looking(body[r].row) = {} THEN UNCHANGED passes ELSE Pass(body[r].row))
          /\ (pc'[r] # "save" => UNCHANGED passes) /\ pc' = [pc EXCEPT ![r] = pc'[r]]
      BY <1>1, <2>1
    <2>3. Moves(r)
      BY <1>1, <2>1, <2>2 DEF Moves
    <2> QED  BY <1>1, <2>1, <2>2, <2>3 DEF Quiet, redis
  <1>3. ASSUME Requeue(r) PROVE \E w \in Row, s \in Status \ {"none"} : Writes(r, w, s)
    <2>1. PICK w \in Row : w = body[r].row
      BY <1>1, <1>3 DEF Requeue, Retrying
    <2>2. InHand(r, w)'
      BY <1>1, <1>3, <2>1 DEF InHand, Op, Requeue, Retrying
    <2>3. Writes(r, w, "QUEUED")
      BY <1>1, <1>3, <2>1, <2>2 DEF Writes, Moves, Save, Requeue, Retrying, redis
    <2> QED  BY <2>3 DEF Status
  <1>4. ASSUME StopRecurring(r) PROVE Quiet(r)
    BY <1>1, <1>4 DEF StopRecurring, Quiet, Moves, tables
  <1>5. ASSUME Throws(r) PROVE Quiet(r)
    BY <1>1, <1>5 DEF Throws, Quiet, Moves, tables, redis, Spend, Pays
  <1> QED  BY <1>2, <1>3, <1>4, <1>5

\* Every step of a request submits a payload, writes a row, or does neither.
LEMMA Kinds ==
    ASSUME Types, NEW r \in Request, RequestOK(r), RequestStep(r)
    PROVE  \/ \E w \in Row : /\ Hands(r, w)
                             /\ InHand(r, w) \/ (Op(r) = "notify" /\ pc[r] = "new" /\ w = Job1(r))
           \/ \E w \in Row, s \in Status \ {"none"} : Writes(r, w, s)
           \/ Quiet(r)
  BY CreateKinds, BatchKinds, FlowKinds, OtherKinds, Submission
     DEF RequestStep, CreateStep, BatchStep, FlowStep

-----------------------------------------------------------------------------
(* What each request knows stays true *)

\* What a step that is not r's leaves to r.
Spares(r) ==
    /\ body' = body /\ pc'[r] = pc[r] /\ at'[r] = at[r] /\ deps \subseteq deps' /\ recurring \subseteq recurring'
    /\ \A w \in Row : (Saved(w) => Saved(w)') /\ (w[1] = r => (Saved(w)' => Saved(w)))
    /\ Op(r) = "flow" => \A n \in Node : Payloads(<<r, n>>)' = Payloads(<<r, n>>)

LEMMA SparesKeep ==
    ASSUME Types, NEW r \in Request, RequestOK(r), Spares(r)
    PROVE  RequestOK(r)'
  <1>1. /\ Op(r)' = Op(r) /\ Job1(r) \in Row /\ Job1(r)[1] = r
        /\ \A n \in Node : <<r, n>> \in Row /\ <<r, n>>[1] = r
        /\ Items(r)' = Items(r) /\ Later(r)' = Later(r) /\ Current(r)' = Current(r)
    BY NodeAssumption DEF Spares, Op, Job1, Row, Items, Later, Before, Current
  <1>2. Op(r) = "create" => CreateOK(r)'
    BY <1>1 DEF RequestOK, CreateOK, Spares
  <1>3. Op(r) = "batch" => BatchOK(r)'
    <2> SUFFICES ASSUME Op(r) = "batch" PROVE BatchOK(r)'
      OBVIOUS
    <2>1. BatchOK(r) /\ (at[r] # 0 => Current(r) \in Row /\ Current(r)[1] = r)
      BY SceneOf DEF RequestOK, BatchOK, Current, Row, Types
    <2> QED  BY <1>1, <2>1 DEF BatchOK, Spares
  <1>4. Op(r) = "flow" => FlowOK(r)'
    <2>1. Missing(r) = {} => Missing(r)' = {}
      BY DEF Missing, Edges, Named, Parents, DependsOn, Dep, Spares
    <2>2. AllSaved(r)' = AllSaved(r)
      BY <1>1 DEF AllSaved, Spares
    <2> QED  BY <1>1, <2>1, <2>2 DEF RequestOK, FlowOK, Spares
  <1>5. Op(r) = "retry" => RetryOK(r)'
    <2> SUFFICES ASSUME Op(r) = "retry" PROVE RetryOK(r)'
      OBVIOUS
    <2>1. PICK w \in Row : w = body[r].row
      BY SceneOf DEF Types
    <2> QED  BY <2>1 DEF RequestOK, RetryOK, Spares, Op
  <1> QED  BY <1>1, <1>2, <1>3, <1>4, <1>5 DEF RequestOK

\* A request leaves the rows of the others as they are, and their workflows alone.
LEMMA OthersSpared ==
    ASSUME Types, NEW q \in Request, RequestOK(q), RequestStep(q), NEW r \in Request \ {q}
    PROVE  Spares(r)
  <1>1. /\ pc \in [Request -> PC] /\ at \in [Request -> Nat] /\ rows \in [Row -> Status]
        /\ \A v \in Row : v = <<v[1], v[2]>>
    BY DEF Types, TypeOK, Row
  <1>2. ASSUME NEW w \in Row, Hands(q, w), InHand(q, w) \/ w = Job1(q) PROVE Spares(r)
    <2>1. w[1] = q \/ (w = body[q].row /\ Op(q) = "retry" /\ pc[q] = "submit")
      BY <1>2 DEF InHand, Job1, Current
    <2>2. Op(r) = "flow" => w[1] # r
      BY <2>1 DEF RequestOK, RetryOK
    <2>3. \A n \in Node : <<r, n>> \in Row /\ <<r, n>>[1] = r
      BY DEF Row
    <2> QED  BY <1>1, <1>2, <2>2, <2>3 DEF Hands, Spares, tables, Saved
  <1>3. ASSUME NEW w \in Row, NEW s \in Status \ {"none"}, Writes(q, w, s) PROVE Spares(r)
    <2>1. w[1] = q \/ Saved(w)
      BY <1>3 DEF Writes, Current, RequestOK, RetryOK
    <2>2. rows' = [rows EXCEPT ![w] = s] /\ UNCHANGED <<body, deps, recurring, staged, sent>>
          /\ pc'[r] = pc[r] /\ at'[r] = at[r]
      BY <1>1, <1>3 DEF Writes, Moves
    <2> QED  BY <1>1, <2>1, <2>2 DEF Spares, Saved, Payloads
  <1>4. ASSUME Quiet(q) PROVE Spares(r)
    BY <1>1, <1>4 DEF Quiet, Moves, Spares, Saved, Payloads
  <1> QED  BY <1>2, <1>3, <1>4, Kinds

LEMMA CreateOwn ==
    ASSUME Types, NEW r \in Request, RequestOK(r), Op(r) = "create", CreateStep(r) \/ Throws(r)
    PROVE  CreateOK(r)'
  <1>1. /\ pc \in [Request -> PC] /\ rows \in [Row -> Status] /\ Job1(r) \in Row
        /\ UNCHANGED body /\ CreateOK(r)
    BY NodeAssumption DEF Types, TypeOK, Job1, Row, CreateStep, BeginCreate, SaveRecurring, SaveJob, SubmitJob,
        Creating, Throws, RequestOK
  <1> USE DEF Go, CreateOK
  <1>2. CASE BeginCreate(r)
    BY <1>1, <1>2 DEF BeginCreate, Saved
  <1>3. CASE SaveRecurring(r)
    BY <1>1, <1>3 DEF SaveRecurring, Saved
  <1>4. CASE SaveJob(r)
    BY <1>1, <1>4 DEF SaveJob, Saved, Save
  <1>5. CASE SubmitJob(r)
    BY <1>1, <1>5 DEF SubmitJob
  <1>6. CASE Throws(r)
    BY <1>1, <1>6 DEF Throws, tables, Saved
  <1> QED  BY <1>2, <1>3, <1>4, <1>5, <1>6 DEF CreateStep

\* The order of the jobs of a batch.
LEMMA BeforeOrders ==
    ASSUME body \in Scenes, NEW r \in Request, Op(r) = "batch",
           NEW i \in Items(r), NEW j \in Items(r), NEW k \in Items(r)
    PROVE  ~Before(r, i, i) /\ (Before(r, i, j) /\ Before(r, j, k) => Before(r, i, k))
  <1>1. i \in Nat /\ j \in Nat /\ k \in Nat
    BY SceneOf, NodeAssumption
  <1>2. PICK a \in Nat, b \in Nat, c \in Nat :
          a = body[r].items[i].prio /\ b = body[r].items[j].prio /\ c = body[r].items[k].prio
    BY SceneOf
  <1>3. /\ Before(r, i, i) <=> a < a \/ (a = a /\ i < i)
        /\ Before(r, i, j) <=> a < b \/ (a = b /\ i < j)
        /\ Before(r, j, k) <=> b < c \/ (b = c /\ j < k)
        /\ Before(r, i, k) <=> a < c \/ (a = c /\ i < k)
    BY <1>2, Zenon DEF Before
  <1> QED  BY <1>1, <1>3

LEMMA BatchOwn ==
    ASSUME Types, NEW r \in Request, RequestOK(r), Op(r) = "batch", BatchStep(r) \/ Throws(r)
    PROVE  BatchOK(r)'
  <1>1. /\ pc \in [Request -> PC] /\ at \in [Request -> Nat] /\ rows \in [Row -> Status]
        /\ UNCHANGED body /\ BatchOK(r) /\ \A i \in Node : <<r, i>> \in Row
        /\ Items(r) \subseteq Node /\ Node \subseteq Nat \ {0} /\ \A i \in Items(r) : body[r].items[i].prio \in Nat
    BY NodeAssumption, SceneOf DEF Types, TypeOK, Row, BatchStep, BeginBatch, SaveItem, SubmitItem, MarkItem,
        Batching, Throws, RequestOK
  <1>2. Items(r)' = Items(r) /\ (at' = at => Later(r)' = Later(r) /\ Current(r)' = Current(r))
    BY <1>1 DEF Items, Later, Before, Current
  <1>3. ASSUME at' = at, rows' = rows, pc'[r] \in {"submit", "mark"} => pc[r] \in {"submit", "mark"}
        PROVE  BatchOK(r)'
    BY <1>1, <1>2, <1>3 DEF BatchOK, Saved
  <1> USE DEF Go
  <1>4. CASE BeginBatch(r)
    BY <1>1, <1>3, <1>4 DEF BeginBatch
  <1>5. CASE SaveItem(r)
    <2>1. PICK i \in Later(r) :
            /\ at' = [at EXCEPT ![r] = i]
            /\ IF KeyTaken(<<r, i>>)
               THEN Go(r, "save", "refused") /\ UNCHANGED rows
               ELSE Go(r, "save", "submit") /\ Save(<<r, i>>, "QUEUED")
      BY <1>5 DEF SaveItem
    <2>2. i \in Items(r) /\ i \in Node /\ i # 0 /\ at'[r] = i /\ at[r] \in Items(r) \cup {0}
      BY <1>1, <2>1 DEF Later, BatchOK
    <2>3. /\ \A j \in Items(r) : j \notin Later(r) => at[r] # 0 /\ ~Before(r, at[r], j)
          /\ at[r] # 0 => Before(r, at[r], i)
      BY <2>1 DEF Later
    \* What came before the item in hand comes before the next one.
    <2>4. \A j \in Items(r) : j \notin Later(r) \/ j = i => ~Before(r, i, j)
      BY <2>2, <2>3, BeforeOrders DEF Types
    <2>5. \A j \in Items(r) : j \notin Later(r) \/ j = i => j \notin Later(r)'
      BY <1>1, <1>2, <2>2, <2>4 DEF Later, Before
    <2>6. \A j \in Node : Saved(<<r, j>>)' => Saved(<<r, j>>) \/ j = i
      BY <1>1, <2>1, <2>2 DEF Saved, Save
    <2>7. \A j \in Node : Saved(<<r, j>>)' => j \in Items(r)' \ Later(r)'
      BY <1>1, <1>2, <2>2, <2>5, <2>6 DEF BatchOK
    <2>8. pc'[r] \in {"submit", "mark"} => Saved(Current(r))'
      BY <1>1, <2>1, <2>2 DEF Saved, Save, Current
    <2> QED  BY <1>2, <2>2, <2>7, <2>8 DEF BatchOK
  <1>6. CASE SubmitItem(r)
    BY <1>1, <1>3, <1>6 DEF SubmitItem, NextItem
  <1>7. CASE MarkItem(r)
    <2>1. pc'[r] = "refused" /\ at' = at /\ Save(Current(r), "FAILED") /\ pc[r] = "mark"
      BY <1>1, <1>7 DEF MarkItem
    <2>2. \A j \in Node : Saved(<<r, j>>)' => Saved(<<r, j>>)
      BY <1>1, <2>1 DEF Saved, Save, BatchOK
    <2> QED  BY <1>1, <1>2, <2>1, <2>2 DEF BatchOK
  <1>8. CASE Throws(r)
    BY <1>1, <1>3, <1>8 DEF Throws, tables
  <1> QED  BY <1>4, <1>5, <1>6, <1>7, <1>8 DEF BatchStep

LEMMA RetryOwn ==
    ASSUME Types, NEW r \in Request, RequestOK(r), RowsOK, Op(r) = "retry",
           FindFailed(r) \/ Requeue(r) \/ Resubmit(r) \/ Throws(r)
    PROVE  RetryOK(r)'
  <1>1. /\ pc \in [Request -> PC] /\ rows \in [Row -> Status] /\ UNCHANGED body /\ RetryOK(r)
    BY DEF Types, TypeOK, FindFailed, Requeue, Resubmit, Throws, Retrying, RequestOK
  <1>2. PICK w \in Row : w = body[r].row
    BY SceneOf DEF Types
  <1>3. Op(w[1])' = Op(w[1])
    BY <1>1 DEF Op
  <1> USE DEF Go, RetryOK
  <1>4. CASE FindFailed(r)
    BY <1>1, <1>2, <1>3, <1>4 DEF FindFailed, RowsOK, Saved
  <1>5. CASE Requeue(r)
    BY <1>1, <1>2, <1>3, <1>5 DEF Requeue, Save, Saved
  <1>6. CASE Resubmit(r)
    BY <1>1, <1>6 DEF Resubmit
  <1>7. CASE Throws(r)
    BY <1>1, <1>7 DEF Throws
  <1> QED  BY <1>4, <1>5, <1>6, <1>7

LEMMA FlowOwn ==
    ASSUME Types, NEW r \in Request, RequestOK(r), Op(r) = "flow", FlowStep(r) \/ Throws(r)
    PROVE  FlowOK(r)'
  <1>1. /\ pc \in [Request -> PC] /\ at \in [Request -> Nat] /\ rows \in [Row -> Status]
        /\ UNCHANGED body /\ FlowOK(r) /\ \A n \in Node : <<r, n>> \in Row
        /\ Node \subseteq Nat \ {0} /\ \A n \in Node : Payloads(<<r, n>>) \in Nat
    BY NodeAssumption DEF Types, TypeOK, Row, FlowStep, BeginFlow, SaveRow, RowsSaved, SaveDep, DepsSaved,
        ScheduleFirst, SubmitFirst, Flowing, Throws, RequestOK, Payloads
  <1>2. deps' = deps => Missing(r)' = Missing(r)
    BY <1>1 DEF Missing, Edges, Named, Parents, DependsOn, Dep
  <1>3. (\A n \in Node : Saved(<<r, n>>) => Saved(<<r, n>>)') => (AllSaved(r) => AllSaved(r)')
    BY DEF AllSaved
  <1>4. rows' = rows => \A n \in Node : Saved(<<r, n>>)' = Saved(<<r, n>>)
    BY DEF Saved
  <1>5. UNCHANGED redis => \A n \in Node : Payloads(<<r, n>>)' = Payloads(<<r, n>>)
    BY DEF redis, Payloads
  <1>6. pc[r] \notin Ended => \A n \in Node : Payloads(<<r, n>>) = 0
    BY <1>1 DEF FlowOK
  \* Nothing is submitted, and the workflow is not accepted.
  <1>7. ASSUME pc[r] \notin Ended, UNCHANGED redis, pc'[r] # "ok",
               at'[r] \in Node \cup {0}, pc'[r] = "submit" => at'[r] \in Node,
               pc'[r] \in {"new", "rows"} => \A n \in Node : n <= at'[r] => Saved(<<r, n>>)',
               pc'[r] \in {"deps", "schedule", "submit"} => AllSaved(r)',
               pc'[r] \in {"schedule", "submit"} => Missing(r)' = {}
        PROVE  FlowOK(r)'
    BY <1>5, <1>6, <1>7 DEF FlowOK
  <1> USE DEF Go
  <1>8. CASE BeginFlow(r)
    <2>1. pc[r] = "new" /\ pc'[r] \in {"rows", "refused"} /\ UNCHANGED <<at, rows, deps, redis>>
      BY <1>1, <1>8 DEF BeginFlow
    <2> QED  BY <1>1, <1>4, <1>7, <2>1 DEF FlowOK, Ended
  <1>9. CASE SaveRow(r)
    <2>1. PICK n \in Node :
            /\ n > at[r] /\ \A m \in Node : m > at[r] => n <= m
            /\ at' = [at EXCEPT ![r] = n]
            /\ IF n \in body[r].typed
               THEN Save(<<r, n>>, IF Parents(r, n) = {} THEN "READY" ELSE "WAITING") /\ pc' = pc
               ELSE Go(r, "rows", "refused") /\ UNCHANGED rows
      BY <1>9 DEF SaveRow
    <2>2. pc[r] = "rows" /\ at'[r] = n /\ UNCHANGED redis
      BY <1>1, <1>9, <2>1 DEF SaveRow
    <2>3. CASE n \in body[r].typed
      <3>1. pc'[r] = "rows" /\ Saved(<<r, n>>)' /\ \A m \in Node : Saved(<<r, m>>) => Saved(<<r, m>>)'
        BY <1>1, <2>1, <2>2, <2>3 DEF Save, Saved
      <3>2. \A m \in Node : m <= n => m <= at[r] \/ m = n
        BY <1>1, <2>1
      <3> QED  BY <1>1, <1>7, <2>2, <3>1, <3>2 DEF FlowOK, Ended
    <2>4. CASE n \notin body[r].typed
      BY <1>1, <1>7, <2>1, <2>2, <2>4 DEF Ended
    <2> QED  BY <2>3, <2>4
  <1>10. CASE RowsSaved(r)
    <2>1. pc[r] = "rows" /\ pc'[r] = "deps" /\ UNCHANGED <<at, rows, deps, redis>> /\ \A n \in Node : n <= at[r]
      BY <1>1, <1>10 DEF RowsSaved
    <2>2. AllSaved(r)'
      BY <1>1, <1>4, <2>1 DEF FlowOK, AllSaved
    <2> QED  BY <1>1, <1>7, <2>1, <2>2 DEF FlowOK, Ended
  <1>11. CASE SaveDep(r)
    <2>1. pc[r] = "deps" /\ pc'[r] \in {"deps", "refused"} /\ UNCHANGED <<at, rows, redis>>
      BY <1>1, <1>11 DEF SaveDep
    <2> QED  BY <1>1, <1>3, <1>4, <1>7, <2>1 DEF FlowOK, Ended
  <1>12. CASE DepsSaved(r)
    <2>1. /\ pc[r] = "deps" /\ pc'[r] = "schedule" /\ UNCHANGED <<at, rows, deps, redis>>
          /\ Missing(r) = {}
      BY <1>1, <1>12 DEF DepsSaved
    <2> QED  BY <1>1, <1>2, <1>3, <1>4, <1>7, <2>1 DEF FlowOK, Ended
  <1>13. CASE ScheduleFirst(r)
    <2>1. PICK n \in Node : /\ Save(<<r, n>>, "QUEUED") /\ at' = [at EXCEPT ![r] = n]
                            /\ pc[r] = "schedule" /\ pc'[r] = "submit" /\ UNCHANGED <<deps, redis>>
      BY <1>1, <1>13 DEF ScheduleFirst
    <2>2. at'[r] = n /\ \A m \in Node : Saved(<<r, m>>) => Saved(<<r, m>>)'
      BY <1>1, <2>1 DEF Save, Saved
    <2> QED  BY <1>1, <1>2, <1>3, <1>7, <2>1, <2>2 DEF FlowOK, Ended
  <1>14. CASE SubmitFirst(r)
    <2>1. pc[r] = "submit" /\ at[r] \in Node /\ UNCHANGED <<at, rows, deps>>
      BY <1>1, <1>14 DEF SubmitFirst, FlowOK
    <2>2. PICK w \in Row : Hands(r, w) /\ (InHand(r, w) \/ (Op(r) = "notify" /\ pc[r] = "new" /\ w = Job1(r)))
      BY <1>14, Submission
    <2>3. w = <<r, at[r]>>
      BY <2>2 DEF InHand
    <2>4. /\ pc'[r] \in {"ok", "refused"}
          /\ Payloads(w)' \in {Payloads(w), Payloads(w) + 1}
          /\ pc'[r] = "ok" => Payloads(w)' = Payloads(w) + 1
      BY <2>2 DEF Hands
    <2>5. \E n \in Node : n = at[r] /\ w = <<r, n>>
      BY <2>1, <2>3
    <2>6. PICK n \in Node : n = at[r] /\ w = <<r, n>>
      BY <2>5
    <2>7. pc'[r] = "ok" => Payloads(<<r, n>>)' = 1
      BY <1>6, <2>1, <2>4, <2>6 DEF Ended
    <2>8. AllSaved(r)' /\ Missing(r)' = {}
      BY <1>1, <1>2, <1>3, <1>4, <2>1 DEF FlowOK
    <2> QED  BY <1>1, <2>1, <2>4, <2>7, <2>8 DEF FlowOK, Ended
  <1>15. CASE Throws(r)
    <2>1. pc[r] \notin Ended /\ pc'[r] = "refused" /\ UNCHANGED <<at, rows, deps, redis>>
      BY <1>1, <1>15 DEF Throws, tables, Ended
    <2> QED  BY <1>1, <1>7, <2>1 DEF FlowOK
  <1> QED  BY <1>8, <1>9, <1>10, <1>11, <1>12, <1>13, <1>14, <1>15 DEF FlowStep

\* The step of one request leaves all of them as they should be.
LEMMA RequestsKept ==
    ASSUME Types, \A r \in Request : RequestOK(r), RowsOK, NEW q \in Request, RequestStep(q)
    PROVE  \A r \in Request : RequestOK(r)'
  <1>1. ASSUME NEW r \in Request \ {q} PROVE RequestOK(r)'
    BY <1>1, OthersSpared, SparesKeep
  <1>2. Op(q)' = Op(q)
    BY DEF Op, RequestStep, CreateStep, BeginCreate, SaveRecurring, SaveJob, SubmitJob, Creating,
           BatchStep, BeginBatch, SaveItem, SubmitItem, MarkItem, Batching,
           FlowStep, BeginFlow, SaveRow, RowsSaved, SaveDep, DepsSaved, ScheduleFirst, SubmitFirst, Flowing,
           FindFailed, Requeue, Resubmit, Retrying, Notify, StopRecurring, Throws
  <1>3. /\ CreateStep(q) => Op(q) = "create"
        /\ BatchStep(q) => Op(q) = "batch"
        /\ FlowStep(q) => Op(q) = "flow"
        /\ FindFailed(q) \/ Requeue(q) \/ Resubmit(q) => Op(q) = "retry"
        /\ Notify(q) => Op(q) = "notify"
        /\ StopRecurring(q) => Op(q) = "stop"
    BY DEF CreateStep, BeginCreate, SaveRecurring, SaveJob, SubmitJob, Creating,
           BatchStep, BeginBatch, SaveItem, SubmitItem, MarkItem, Batching,
           FlowStep, BeginFlow, SaveRow, RowsSaved, SaveDep, DepsSaved, ScheduleFirst, SubmitFirst, Flowing,
           FindFailed, Requeue, Resubmit, Retrying, Notify, StopRecurring
  <1>4. Op(q) = "create" => CreateOK(q)'
    BY <1>3, CreateOwn DEF RequestStep
  <1>5. Op(q) = "batch" => BatchOK(q)'
    BY <1>3, BatchOwn DEF RequestStep
  <1>6. Op(q) = "flow" => FlowOK(q)'
    BY <1>3, FlowOwn DEF RequestStep
  <1>7. Op(q) = "retry" => RetryOK(q)'
    BY <1>3, RetryOwn DEF RequestStep
  <1>8. RequestOK(q)'
    BY <1>2, <1>4, <1>5, <1>6, <1>7 DEF RequestOK
  <1> QED  BY <1>1, <1>8

\* What the steps that no request takes do to the requests.
LEMMA CrashKeeps ==
    ASSUME Types, NEW r \in Request, RequestOK(r), Crash
    PROVE  RequestOK(r)'
  <1>1. /\ UNCHANGED <<body, at, rows, deps, recurring, staged, sent>>
        /\ pc'[r] = (IF pc[r] \in Ended \cup {"new"} THEN pc[r] ELSE "dead")
    BY DEF Crash, tables, redis
  <1>2. /\ Op(r)' = Op(r) /\ Items(r)' = Items(r) /\ Later(r)' = Later(r) /\ Current(r)' = Current(r)
        /\ Missing(r)' = Missing(r) /\ AllSaved(r)' = AllSaved(r)
    BY <1>1 DEF Op, Items, Later, Before, Current, Missing, Edges, Named, Parents, DependsOn, Dep, AllSaved, Saved
  <1>3. Op(r) = "create" => CreateOK(r)'
    BY <1>1 DEF RequestOK, CreateOK, Saved, Ended
  <1>4. Op(r) = "batch" => BatchOK(r)'
    BY <1>1, <1>2 DEF RequestOK, BatchOK, Saved, Ended
  <1>5. Op(r) = "flow" => FlowOK(r)'
    BY <1>1, <1>2 DEF RequestOK, FlowOK, Saved, Payloads, Ended
  <1>6. Op(r) = "retry" => RetryOK(r)'
    BY <1>1 DEF RequestOK, RetryOK, Saved, Ended, Op
  <1> QED  BY <1>2, <1>3, <1>4, <1>5, <1>6 DEF RequestOK

\* A worker fails a job, or a release drains a payload.
WorkerStep(w) == Fails(w) \/ (staged[w] > 0 /\ Op(w[1]) # "flow" /\ Drain(w, Item(w).type))

LEMMA WorkerMoves ==
    ASSUME Types, NEW w \in Row, WorkerStep(w)
    PROVE  /\ UNCHANGED <<body, pc, at, deps, recurring>>
           /\ staged' \in [Row -> Nat] /\ sent' \in [Row -> Nat] /\ \A v \in Row : Payloads(v)' = Payloads(v)
           /\ \/ /\ Payloads(w) > 0 /\ (\E pattern \in Patterns(w) : repeats' = repeats \cup pattern)
                 /\ rows' = rows /\ passes' = passes /\ budget' = budget
              \/ /\ rows[w] \in {"QUEUED", "SCHEDULED"} /\ Op(w[1]) # "flow" /\ rows' = [rows EXCEPT ![w] = "FAILED"]
                 /\ Pass(w) /\ repeats' = repeats /\ Pays("fail")
  <1>1. staged \in [Row -> Nat] /\ sent \in [Row -> Nat]
    BY DEF Types, TypeOK
  <1>2. CASE Fails(w)
    BY <1>1, <1>2 DEF Fails, Save, Spend, Pays, redis, Payloads
  <1>3. CASE staged[w] > 0 /\ Drain(w, Item(w).type)
    BY <1>1, <1>3 DEF Drain, tables, Payloads
  <1> QED  BY <1>2, <1>3 DEF WorkerStep

\* The pattern a drained payload brings is that of a recurring job whose row is saved.
LEMMA WorkerRepeats ==
    ASSUME Types, RowsOK, \A r \in Request : RequestOK(r), NEW w \in Row, WorkerStep(w)
    PROVE  repeats' \subseteq recurring
  <1>1. repeats \subseteq recurring
    BY DEF Types, TypeOK
  <1>2. CASE repeats' = repeats
    BY <1>1, <1>2
  <1>3. CASE Payloads(w) > 0 /\ \E pattern \in Patterns(w) : repeats' = repeats \cup pattern
    <2>1. PICK pattern \in Patterns(w) : repeats' = repeats \cup pattern
      BY <1>3
    <2>2. pattern # {} => Op(w[1]) = "create" /\ pattern = Cron(w[1])
      BY DEF Patterns
    <2>3. ASSUME Op(w[1]) = "create", body[w[1]].cron PROVE w[1] \in recurring
      <3>1. Saved(w) /\ w[2] \in Positions(w[1]) /\ w[1] \in Request /\ w = <<w[1], w[2]>>
        BY <1>3, <2>3 DEF RowsOK, Row
      <3>2. w = Job1(w[1])
        BY <2>3, <3>1 DEF Positions, Job1
      <3>3. CreateOK(w[1])
        BY <2>3, <3>1 DEF RequestOK
      <3>4. Saved(Job1(w[1]))
        BY <3>1, <3>2, Zenon
      <3> QED  BY <2>3, <3>3, <3>4 DEF CreateOK
    <2> QED  BY <1>1, <2>1, <2>2, <2>3 DEF Cron
  <1> QED  BY <1>2, <1>3, WorkerMoves

LEMMA WorkerKeeps ==
    ASSUME Types, NEW r \in Request, RequestOK(r), NEW w \in Row, WorkerStep(w)
    PROVE  RequestOK(r)'
  <1>1. \A v \in Row : Saved(v)' = Saved(v)
    BY WorkerMoves DEF Types, TypeOK, Saved
  <1>2. \A n \in Node : <<r, n>> \in Row
    BY DEF Row
  <1> QED  BY <1>1, <1>2, WorkerMoves, SparesKeep DEF Spares

-----------------------------------------------------------------------------
(* Types *)

\* The ledger counts.
LEMMA Passed ==
    ASSUME Types, NEW w \in Row, Pass(w) \/ UNCHANGED passes
    PROVE  /\ passes' \in [Row -> Nat]
           /\ Pass(w) => passes'[w] = passes[w] + 1 /\ \A v \in Row \ {w} : passes'[v] = passes[v]
  BY DEF Types, TypeOK, Pass

LEMMA TypesHands ==
    ASSUME Types, NEW r \in Request, NEW w \in Row, Hands(r, w)
    PROVE  Types'
  <1>1. /\ UNCHANGED <<body, at, rows, deps, recurring>> /\ pc \in [Request -> PC]
        /\ pc' = [pc EXCEPT ![r] = pc'[r]] /\ pc'[r] \in PC
    BY DEF Hands, Types, TypeOK, tables, PC, Ended
  <1>2. pc' \in [Request -> PC] /\ passes' = passes
    BY <1>1 DEF Hands, tables
  <1>3. budget' \in [FaultKind -> Nat] /\ Spent("throw")' >= 0 /\ Spent("fail")' >= 0
    <2>1. CASE budget' = budget
      BY <2>1, CostsNothing DEF Types, TypeOK
    <2>2. CASE Pays("throw")
      BY <2>2, Costs DEF FaultKind
    <2> QED  BY <2>1, <2>2 DEF Hands
  <1> QED  BY <1>1, <1>2, <1>3 DEF Hands, Types, TypeOK, Of, Op

LEMMA TypesMoves ==
    ASSUME Types, NEW r \in Request, Moves(r)
    PROVE  pc' \in [Request -> PC] /\ at' \in [Request -> Nat]
  BY DEF Types, TypeOK, Moves

LEMMA TypesWrites ==
    ASSUME Types, NEW r \in Request, NEW w \in Row, NEW s \in Status \ {"none"}, Writes(r, w, s)
    PROVE  Types'
  <1>1. pc' \in [Request -> PC] /\ at' \in [Request -> Nat] /\ rows' \in [Row -> Status]
    BY TypesMoves DEF Writes, Types, TypeOK
  <1>2. Spent("throw")' >= 0 /\ Spent("fail")' >= 0
    BY CostsNothing DEF Writes, Types
  <1>3. passes' \in [Row -> Nat]
    BY Passed DEF Writes
  <1> QED  BY <1>1, <1>2, <1>3 DEF Writes, Moves, Types, TypeOK, Of, Op

LEMMA TypesQuiet ==
    ASSUME Types, NEW r \in Request, Quiet(r)
    PROVE  Types'
  <1>1. pc' \in [Request -> PC] /\ at' \in [Request -> Nat]
    BY TypesMoves DEF Quiet
  <1>2. budget' \in [FaultKind -> Nat] /\ Spent("throw")' >= 0 /\ Spent("fail")' >= 0
    <2>1. CASE budget' = budget
      BY <2>1, CostsNothing DEF Types, TypeOK
    <2>2. CASE Pays("throw")
      BY <2>2, Costs DEF FaultKind
    <2> QED  BY <2>1, <2>2 DEF Quiet
  <1>3. passes' \in [Row -> Nat]
    <2>1. CASE UNCHANGED passes
      BY <2>1 DEF Types, TypeOK
    <2>2. CASE ~UNCHANGED passes
      <3>1. PICK w \in Row : w = body[r].row
        BY <2>2, SceneOf DEF Quiet, Types
      <3> QED  BY <2>2, <3>1, Passed DEF Quiet
    <2> QED  BY <2>1, <2>2
  <1> QED  BY <1>1, <1>2, <1>3 DEF Quiet, Moves, Types, TypeOK, Of, Op

LEMMA TypesWorker ==
    ASSUME Types, RowsOK, \A r \in Request : RequestOK(r), NEW w \in Row, WorkerStep(w)
    PROVE  Types'
  <1>1. budget' \in [FaultKind -> Nat] /\ Spent("throw")' >= 0 /\ Spent("fail")' >= 0
    <2>1. CASE budget' = budget
      BY <2>1, CostsNothing DEF Types, TypeOK
    <2>2. CASE Pays("fail")
      BY <2>2, Costs DEF FaultKind
    <2> QED  BY <2>1, <2>2, WorkerMoves
  <1>2. rows' \in [Row -> Status] /\ passes' \in [Row -> Nat]
    BY WorkerMoves, Passed DEF Types, TypeOK, Status
  <1>3. repeats' \subseteq recurring /\ UNCHANGED <<body, pc, at, deps, recurring>>
    BY WorkerRepeats, WorkerMoves
  <1> QED  BY <1>1, <1>2, <1>3, WorkerMoves DEF Types, TypeOK, Of, Op

LEMMA TypesCrash ==
    ASSUME Types, Crash
    PROVE  Types' /\ Pays("crash")
  <1>1. Pays("crash") /\ UNCHANGED <<body, at, tables, redis>>
    BY DEF Crash, Spend, Pays
  <1>2. budget' \in [FaultKind -> Nat] /\ Spent("throw")' >= 0 /\ Spent("fail")' >= 0
    BY <1>1, Costs DEF FaultKind
  <1>3. pc' \in [Request -> PC]
    BY DEF Crash, Types, TypeOK, PC, Ended
  <1> QED  BY <1>1, <1>2, <1>3 DEF Types, TypeOK, Of, Op, tables, redis

-----------------------------------------------------------------------------
(* The rows *)

\* What the requests know of a row in their hands.
LEMMA HeldSaved ==
    ASSUME Types, NEW r \in Request, RequestOK(r), NEW w, InHand(r, w)
    PROVE  Saved(w)
  BY DEF InHand, RequestOK, CreateOK, BatchOK, FlowOK, AllSaved, RetryOK, Ended

LEMMA OneInHand ==
    ASSUME NEW r, NEW v, NEW w, InHand(r, v), InHand(r, w)
    PROVE  v = w
  BY DEF InHand

LEMMA HeldAsked ==
    ASSUME NEW r \in Request, NEW w, InHand(r, w) \/ w = Job1(r)
    PROVE  r \in Asking(w)
  BY DEF InHand, Job1, Current, Asking, Of

\* Whoever writes a row that is not saved may have it.
LEMMA WritesRow ==
    ASSUME Types, NEW r \in Request, RequestOK(r), NEW w \in Row, NEW s \in Status \ {"none"}, Writes(r, w, s)
    PROVE  \/ Saved(w)
           \/ w[1] = r /\ Op(r) \in {"create", "batch", "flow"} /\ w[2] \in Positions(r)
  <1>1. CASE Op(r) \in {"create", "batch"} /\ w[1] = r /\ w[2] \in Positions(r)
    BY <1>1
  <1>2. CASE Op(r) = "flow" /\ w[1] = r
    BY <1>2 DEF Positions, Row
  <1>3. CASE Op(r) = "retry" /\ w = body[r].row /\ pc[r] = "save"
    BY <1>3 DEF RequestOK, RetryOK
  <1>4. CASE Op(r) = "batch" /\ w = Current(r) /\ pc[r] = "mark"
    BY <1>4 DEF RequestOK, BatchOK
  <1> QED  BY <1>1, <1>2, <1>3, <1>4 DEF Writes

LEMMA RowsSteady ==
    ASSUME RowsOK, body' = body, rows' = rows,
           \A w \in Row : Payloads(w)' > 0 => Payloads(w) > 0 \/ Saved(w) \/ Op(w[1]) = "notify"
    PROVE  RowsOK'
  BY DEF RowsOK, Saved, Op, Positions

LEMMA RowsHands ==
    ASSUME Types, RowsOK, NEW r \in Request, RequestOK(r), NEW w \in Row, Hands(r, w),
           InHand(r, w) \/ (Op(r) = "notify" /\ pc[r] = "new" /\ w = Job1(r))
    PROVE  RowsOK'
  <1>1. Saved(w) \/ Op(w[1]) = "notify"
    BY HeldSaved DEF Job1
  <1> QED  BY <1>1, RowsSteady DEF Hands, tables

LEMMA RowsWrites ==
    ASSUME Types, RowsOK, NEW r \in Request, RequestOK(r), NEW w \in Row, NEW s \in Status \ {"none"}, Writes(r, w, s)
    PROVE  RowsOK'
  <1>1. /\ rows \in [Row -> Status] /\ rows' = [rows EXCEPT ![w] = s] /\ body' = body
        /\ \A v \in Row : Payloads(v)' = Payloads(v)
    BY DEF Types, TypeOK, Writes, Moves, Payloads
  <1>2. \A v \in Row : Saved(v)' <=> Saved(v) \/ v = w
    BY <1>1 DEF Saved
  <1>3. \A v \in Row : Op(v[1])' = Op(v[1]) /\ Positions(v[1])' = Positions(v[1])
    BY <1>1 DEF Op, Positions
  <1>4. Op(w[1]) \in {"create", "batch", "flow"} /\ w[2] \in Positions(w[1])
    BY WritesRow DEF RowsOK
  <1>5. s = "FAILED" => Op(w[1]) = "batch"
    BY DEF Writes, Current
  <1>6. \A v \in Row : rows'[v] = "FAILED" => rows[v] = "FAILED" \/ Op(v[1]) = "batch"
    BY <1>1, <1>5
  <1> QED  BY <1>1, <1>2, <1>3, <1>4, <1>6 DEF RowsOK

LEMMA RowsWorker ==
    ASSUME Types, RowsOK, NEW w \in Row, WorkerStep(w)
    PROVE  RowsOK'
  <1>1. CASE rows' = rows
    BY <1>1, WorkerMoves, RowsSteady
  <1>2. CASE rows[w] \in {"QUEUED", "SCHEDULED"} /\ Op(w[1]) # "flow" /\ rows' = [rows EXCEPT ![w] = "FAILED"]
    <2>1. /\ rows \in [Row -> Status] /\ body' = body /\ \A v \in Row : Payloads(v)' = Payloads(v)
      BY WorkerMoves DEF Types, TypeOK
    <2>2. \A v \in Row : Saved(v)' = Saved(v)
      BY <1>2, <2>1 DEF Saved
    <2>3. \A v \in Row : Op(v[1])' = Op(v[1]) /\ Positions(v[1])' = Positions(v[1])
      BY <2>1 DEF Op, Positions
    <2>4. Op(w[1]) \in {"create", "batch"}
      BY <1>2 DEF RowsOK, Saved
    <2> QED  BY <1>2, <2>1, <2>2, <2>3, <2>4 DEF RowsOK
  <1> QED  BY <1>1, <1>2, WorkerMoves

LEMMA KeysKept ==
    ASSUME KeysUnique, body' = body, \A v \in Row : Saved(v)' = Saved(v)
    PROVE  KeysUnique'
  <1>1. \A v \in Row : KeyOf(v)' = KeyOf(v)
    BY DEF KeyOf, Op, Positions, Item
  <1> QED  BY <1>1 DEF KeysUnique

LEMMA KeysWrites ==
    ASSUME Types, KeysUnique, NEW r \in Request, RequestOK(r), NEW w \in Row, NEW s \in Status \ {"none"},
           Writes(r, w, s)
    PROVE  KeysUnique'
  <1>1. rows \in [Row -> Status] /\ rows' = [rows EXCEPT ![w] = s] /\ body' = body
    BY DEF Types, TypeOK, Writes, Moves
  <1>2. \A v \in Row : Saved(v)' <=> Saved(v) \/ v = w
    BY <1>1 DEF Saved
  <1>3. CASE Saved(w)
    <2>1. \A v \in Row : Saved(v)' = Saved(v)
      BY <1>2, <1>3 DEF Saved
    <2> QED  BY <1>1, <2>1, KeysKept
  <1>4. CASE ~Saved(w)
    <2>1. ~KeyTaken(w) \/ KeyOf(w) = NoKey
      BY <1>4 DEF Writes, RequestOK, RetryOK, BatchOK, KeyOf
    <2>2. \A v \in Row : KeyOf(v)' = KeyOf(v)
      BY <1>1 DEF KeyOf, Op, Positions, Item
    <2> QED  BY <1>2, <2>1, <2>2 DEF KeysUnique, KeyTaken
  <1> QED  BY <1>3, <1>4

-----------------------------------------------------------------------------
(* What is queued and not submitted *)

\* Nobody forgets an answer.
LEMMA ToldKept ==
    ASSUME Types, NEW r \in Request, Told(r), body' = body, pc'[r] = pc[r] \/ pc[r] \notin Ended,
           Spent("throw")' >= Spent("throw"), Types'
    PROVE  Told(r)'
  <1>1. Spent("throw") \in Int /\ Spent("throw")' \in Int
    BY FaultAssumption DEF Types, TypeOK, Spent, FaultKind
  <1> QED  BY <1>1 DEF Told, Ended, Op

\* A budget is only spent.
LEMMA Dearer ==
    ASSUME Types, budget' = budget \/ \E f \in FaultKind : Pays(f)
    PROVE  Spent("throw")' >= Spent("throw") /\ Spent("fail")' >= Spent("fail")
  BY Costs, CostsNothing

LEMMA LimboHands ==
    ASSUME Types, LimboHeld, NEW r \in Request, RequestOK(r), NEW w \in Row, Hands(r, w),
           InHand(r, w) \/ (Op(r) = "notify" /\ pc[r] = "new" /\ w = Job1(r))
    PROVE  LimboHeld'
  <1>1. /\ UNCHANGED <<body, at, rows>> /\ Types' /\ pc[r] \notin Ended /\ pc \in [Request -> PC]
        /\ pc' = [pc EXCEPT ![r] = pc'[r]]
    BY TypesHands DEF Hands, tables, Types, TypeOK, Ended
  <1>2. Spent("throw")' >= Spent("throw")
    BY Dearer DEF Hands, FaultKind
  <1>3. SUFFICES ASSUME NEW v \in Row, rows[v] \in {"QUEUED", "SCHEDULED"}, Payloads(v)' = 0
                 PROVE  \E q \in Asking(v)' : (InHand(q, v) \/ Told(q))'
    BY <1>1 DEF LimboHeld
  <1>4. Asking(v)' = Asking(v) /\ Asking(v) \subseteq Request
    BY <1>1 DEF Asking, Of, Op, Row
  <1>5. \A q \in Request : Told(q) => Told(q)'
    BY <1>1, <1>2, ToldKept
  <1>6. CASE v = w
    <2>1. /\ Payloads(w)' = Payloads(w) /\ pc'[r] = (IF Op(r) = "batch" THEN "mark" ELSE "refused")
      BY <1>3, <1>6 DEF Hands, Payloads, Types, TypeOK
    <2>2. r \in Asking(v)
      BY <1>6, HeldAsked
    <2>3. Op(r) = "batch" => InHand(r, w) /\ InHand(r, w)'
      BY <1>1, <2>1 DEF InHand, Op, Current
    <2>4. Op(r) # "batch" => Told(r)'
      BY <1>1, <2>1 DEF Told, Op
    <2> QED  BY <1>4, <1>6, <2>2, <2>3, <2>4
  <1>7. CASE v # w
    <2>1. PICK q \in Asking(v) : InHand(q, v) \/ Told(q)
      BY <1>3, <1>7 DEF LimboHeld, Hands
    <2>2. CASE Told(q)
      BY <1>4, <1>5, <2>2
    <2>3. CASE InHand(q, v)
      <3>1. q # r
        BY <1>7, <2>3, OneInHand DEF InHand
      <3>2. InHand(q, v)'
        BY <1>1, <1>4, <2>3, <3>1 DEF InHand, Op, Current, Job1
      <3> QED  BY <1>4, <3>2
    <2> QED  BY <2>1, <2>2, <2>3
  <1> QED  BY <1>6, <1>7

LEMMA LimboWrites ==
    ASSUME Types, LimboHeld, NEW r \in Request, RequestOK(r), NEW w \in Row, NEW s \in Status \ {"none"},
           Writes(r, w, s)
    PROVE  LimboHeld'
  <1>1. /\ body' = body /\ rows \in [Row -> Status] /\ rows' = [rows EXCEPT ![w] = s] /\ Types'
        /\ pc[r] \notin Ended /\ pc \in [Request -> PC] /\ pc' = [pc EXCEPT ![r] = pc'[r]]
        /\ at \in [Request -> Nat] /\ at' = [at EXCEPT ![r] = at'[r]]
        /\ \A v \in Row : Payloads(v)' = Payloads(v)
    BY TypesWrites DEF Writes, Moves, Types, TypeOK, Payloads
  <1>2. Spent("throw")' >= Spent("throw")
    BY Dearer DEF Writes
  <1>3. SUFFICES ASSUME NEW v \in Row, rows'[v] \in {"QUEUED", "SCHEDULED"}, Payloads(v) = 0
                 PROVE  \E q \in Asking(v)' : (InHand(q, v) \/ Told(q))'
    BY <1>1 DEF LimboHeld
  <1>4. Asking(v)' = Asking(v) /\ Asking(v) \subseteq Request
    BY <1>1 DEF Asking, Of, Op, Row
  <1>5. \A q \in Request : Told(q) => Told(q)'
    BY <1>1, <1>2, ToldKept
  <1>6. CASE v = w
    <2>1. InHand(r, w)'
      BY <1>1, <1>3, <1>6 DEF Writes
    <2>2. r \in Asking(v)'
      <3>1. (InHand(r, w) => r \in Asking(w))'
        BY HeldAsked, PTL
      <3> QED  BY <1>6, <2>1, <3>1
    <2> QED  BY <1>6, <2>1, <2>2
  <1>7. CASE v # w
    <2>1. PICK q \in Asking(v) : InHand(q, v) \/ Told(q)
      BY <1>1, <1>3, <1>7 DEF LimboHeld
    <2>2. CASE Told(q)
      BY <1>4, <1>5, <2>2
    <2>3. CASE InHand(q, v)
      <3>1. q # r
        BY <1>7, <2>3 DEF InHand, Writes
      <3>2. InHand(q, v)'
        BY <1>1, <1>4, <2>3, <3>1 DEF InHand, Op, Current, Job1
      <3> QED  BY <1>4, <3>2
    <2> QED  BY <2>1, <2>2, <2>3
  <1> QED  BY <1>6, <1>7

\* Whoever had something in hand and has not any more is told, and no row is queued.
LEMMA LimboKept ==
    ASSUME Types, LimboHeld, Types', body' = body, Spent("throw")' >= Spent("throw"),
           \A v \in Row : Payloads(v)' = Payloads(v) /\ (rows'[v] = rows[v] \/ rows'[v] = "FAILED"),
           \A r \in Request : pc'[r] = pc[r] \/ pc[r] \notin Ended,
           \A r \in Request, v \in Row : InHand(r, v) => (InHand(r, v) \/ Told(r))'
    PROVE  LimboHeld'
  <1>1. SUFFICES ASSUME NEW v \in Row, rows'[v] \in {"QUEUED", "SCHEDULED"}, Payloads(v) = 0
                 PROVE  \E q \in Asking(v)' : (InHand(q, v) \/ Told(q))'
    BY DEF LimboHeld
  <1>2. Asking(v)' = Asking(v) /\ Asking(v) \subseteq Request
    BY DEF Asking, Of, Op, Row
  <1>3. PICK q \in Asking(v) : InHand(q, v) \/ Told(q)
    BY <1>1 DEF LimboHeld
  <1>4. Told(q) => Told(q)'
    BY <1>2, ToldKept
  <1> QED  BY <1>2, <1>3, <1>4

LEMMA LimboQuiet ==
    ASSUME Types, LimboHeld, NEW r \in Request, Quiet(r)
    PROVE  LimboHeld'
  <1>1. /\ body' = body /\ Types' /\ pc \in [Request -> PC] /\ pc' = [pc EXCEPT ![r] = pc'[r]] /\ pc[r] \notin Ended
        /\ at \in [Request -> Nat] /\ at' = [at EXCEPT ![r] = at'[r]] /\ rows' = rows
        /\ \A v \in Row : Payloads(v)' = Payloads(v)
    BY TypesQuiet DEF Quiet, Moves, Types, TypeOK, Payloads
  <1>2. Spent("throw")' >= Spent("throw")
    BY Dearer DEF Quiet, FaultKind
  <1>3. ASSUME NEW q \in Request, NEW v \in Row, InHand(q, v) PROVE (InHand(q, v) \/ Told(q))'
    <2>1. CASE q # r
      BY <1>1, <1>3, <2>1 DEF InHand, Op, Current, Job1
    <2>2. CASE q = r
      <3>1. Pays("throw") /\ pc'[r] = "refused"
        BY <1>3, <2>2 DEF InHand, Quiet
      <3>2. Spent("throw")' > 0
        BY <3>1, Costs DEF FaultKind
      <3> QED  BY <2>2, <3>1, <3>2 DEF Told
    <2> QED  BY <2>1, <2>2
  <1> QED  BY <1>1, <1>2, <1>3, LimboKept

LEMMA LimboWorker ==
    ASSUME Types, RowsOK, \A r \in Request : RequestOK(r), LimboHeld, NEW w \in Row, WorkerStep(w)
    PROVE  LimboHeld'
  <1>1. Types' /\ \A v \in Row : rows'[v] = rows[v] \/ rows'[v] = "FAILED"
    BY TypesWorker, WorkerMoves DEF Types, TypeOK
  <1>2. Spent("throw")' >= Spent("throw")
    BY Dearer, WorkerMoves DEF FaultKind
  <1>3. \A q \in Request, v \in Row : InHand(q, v) => InHand(q, v)'
    BY WorkerMoves DEF InHand, Op, Current, Job1
  <1> QED  BY <1>1, <1>2, <1>3, WorkerMoves, LimboKept

LEMMA LimboCrash ==
    ASSUME Types, LimboHeld, Crash
    PROVE  LimboHeld'
  <1>1. /\ Types' /\ UNCHANGED <<body, at, rows>> /\ \A v \in Row : Payloads(v)' = Payloads(v)
        /\ pc' = [r \in Request |-> IF pc[r] \in Ended \cup {"new"} THEN pc[r] ELSE "dead"]
    BY TypesCrash DEF Crash, tables, redis, Payloads
  <1>2. Spent("throw")' >= Spent("throw")
    BY Dearer, TypesCrash DEF FaultKind
  <1>3. \A q \in Request, v \in Row : InHand(q, v) => Told(q)'
    BY <1>1 DEF InHand, Told, Ended
  <1> QED  BY <1>1, <1>2, <1>3, LimboKept

-----------------------------------------------------------------------------
(* What is submitted once *)

LEMMA Counts ==
    ASSUME Types, NEW w \in Row
    PROVE  /\ Payloads(w) \in Nat /\ passes[w] \in Nat /\ Ahead(w) \in Nat
           /\ IsFiniteSet(Retries(w)) /\ Cardinality(Retries(w)) \in Nat
           /\ w[1] \in Request
  <1>1. Retries(w) \subseteq Request
    BY DEF Retries
  <1>2. IsFiniteSet(Retries(w))
    BY <1>1, RequestAssumption, FS_Subset
  <1> QED  BY <1>2, FS_CardinalityType DEF Types, TypeOK, Payloads, Ahead, Row

\* One payload that was ahead has come, or one retry the status let through is on its way.
LEMMA Weighs ==
    ASSUME Types, Types', OnceOK, NEW w \in Row,
           \/ Payloads(w)' + Cardinality(Retries(w))' + Ahead(w)' <= Payloads(w) + Cardinality(Retries(w)) + Ahead(w)
              /\ passes'[w] = passes[w]
           \/ Payloads(w)' + Cardinality(Retries(w))' + Ahead(w)' <= Payloads(w) + Cardinality(Retries(w)) + Ahead(w) + 1
              /\ passes'[w] = passes[w] + 1
    PROVE  Payloads(w)' + Cardinality(Retries(w))' + Ahead(w)' <= 1 + passes'[w]
  <1>1. /\ Payloads(w) \in Nat /\ passes[w] \in Nat /\ Ahead(w) \in Nat
        /\ Cardinality(Retries(w)) \in Nat
    BY Counts
  <1>2. /\ Payloads(w)' \in Nat /\ passes'[w] \in Nat /\ Ahead(w)' \in Nat
        /\ Cardinality(Retries(w))' \in Nat
    <2>1. Payloads(w)' \in Nat /\ passes'[w] \in Nat /\ Ahead(w)' \in Nat
      BY DEF Types, TypeOK, Payloads, Ahead
    <2>2. Retries(w)' \subseteq Request
      BY DEF Retries
    <2>3. IsFiniteSet(Retries(w)')
      BY <2>2, RequestAssumption, FS_Subset
    <2> QED  BY <2>1, <2>3, FS_CardinalityType
  <1> QED  BY <1>1, <1>2 DEF OnceOK

\* Nothing about w that weighs gets more.
Steady(w) ==
    /\ Payloads(w)' = Payloads(w) /\ Retries(w)' = Retries(w)
    /\ Due(w)' => Due(w)
    /\ Looking(w)' = Looking(w)

LEMMA SteadyWeighs ==
    ASSUME Types, Types', OnceOK, NEW w \in Row, Steady(w),
           \/ passes'[w] = passes[w] /\ (rows'[w] = "FAILED" => rows[w] = "FAILED")
           \/ passes'[w] = passes[w] + 1
    PROVE  Payloads(w)' + Cardinality(Retries(w))' + Ahead(w)' <= 1 + passes'[w]
  <1>1. Payloads(w) \in Nat /\ Cardinality(Retries(w)) \in Nat
    BY Counts
  <1>2. CASE passes'[w] = passes[w] /\ (rows'[w] = "FAILED" => rows[w] = "FAILED")
    <2>1. Ahead(w)' <= Ahead(w)
      BY <1>2 DEF Steady, Ahead, Fresh
    <2>2. Ahead(w) \in Int /\ Ahead(w)' \in Int
      BY DEF Ahead
    <2> QED  BY <1>1, <1>2, <2>1, <2>2, Weighs DEF Steady
  <1>3. CASE passes'[w] = passes[w] + 1
    <2>1. Ahead(w)' <= Ahead(w) + 1 /\ Ahead(w) \in Int /\ Ahead(w)' \in Int
      BY DEF Steady, Ahead, Fresh
    <2> QED  BY <1>1, <1>3, <2>1, Weighs DEF Steady
  <1> QED  BY <1>2, <1>3

\* The step of a request that is no retry, or of one that retries another row.
LEMMA Apart ==
    ASSUME Types, NEW r \in Request, NEW v \in Row, body' = body, pc' = [pc EXCEPT ![r] = pc'[r]],
           Op(r) # "retry" \/ body[r].row # v
    PROVE  Retries(v)' = Retries(v) /\ Looking(v)' = Looking(v)
  <1>1. pc \in [Request -> PC]
    BY DEF Types, TypeOK
  <1>2. \A q \in Request : Op(q)' = Op(q) /\ (q # r => pc'[q] = pc[q])
    BY <1>1 DEF Op
  <1>3. Retries(v)' = Retries(v)
    BY <1>2 DEF Retries
  <1>4. Looking(v)' = Looking(v)
    BY <1>2 DEF Looking
  <1> QED  BY <1>3, <1>4

\* A step of r makes no row due: it was at work before.
LEMMA DueKept ==
    ASSUME Types, NEW r \in Request, NEW v \in Row, body' = body, pc' = [pc EXCEPT ![r] = pc'[r]], pc[r] \notin Ended,
           at' = [at EXCEPT ![r] = at'[r]], Saved(v) => Saved(v)',
           Op(r) = "batch" /\ v[1] = r /\ pc'[r] = "submit" /\ v = Current(r)' => Due(v)
    PROVE  Due(v)' => Due(v)
  <1>1. pc \in [Request -> PC] /\ at \in [Request -> Nat] /\ v[1] \in Request
    BY DEF Types, TypeOK, Row
  <1>2. Op(v[1])' = Op(v[1]) /\ (v[1] # r => pc'[v[1]] = pc[v[1]] /\ Current(v[1])' = Current(v[1]))
    BY <1>1 DEF Op, Current
  <1>3. CASE v[1] # r
    BY <1>2, <1>3 DEF Due
  <1>4. CASE v[1] = r /\ Op(r) # "batch"
    BY <1>2, <1>4 DEF Due
  <1>5. CASE v[1] = r /\ Op(r) = "batch"
    BY <1>1, <1>2, <1>5 DEF Due
  <1> QED  BY <1>3, <1>4, <1>5

\* A retry that gives up leaves a row that is FAILED still to the others.
LEMMA Leaves ==
    ASSUME Types, Types', OnceOK, NEW r \in Request, NEW v \in Row, UNCHANGED <<body, rows, passes>>,
           pc' = [pc EXCEPT ![r] = "refused"], Payloads(v)' = Payloads(v), Due(v)' => Due(v),
           Op(r) = "retry", body[r].row = v, pc[r] \in {"save", "submit"}
    PROVE  Payloads(v)' + Cardinality(Retries(v))' + Ahead(v)' <= 1 + passes'[v]
  <1>1. pc \in [Request -> PC]
    BY DEF Types, TypeOK
  <1>2. Retries(v)' = Retries(v) \ {r} /\ r \in Retries(v)
    BY <1>1 DEF Retries, Op
  <1>3. Cardinality(Retries(v))' = Cardinality(Retries(v)) - 1
    BY <1>2, Counts, FS_RemoveElement
  <1>4. Ahead(v)' <= Ahead(v) + 1 /\ Ahead(v) \in Int /\ Ahead(v)' \in Int
    BY DEF Ahead, Fresh
  <1>5. Cardinality(Retries(v)) \in Nat /\ Payloads(v) \in Nat
    BY Counts
  <1> QED  BY <1>3, <1>4, <1>5, Weighs

LEMMA OnceHands ==
    ASSUME Types, RowsOK, OnceOK, NEW r \in Request, RequestOK(r), NEW w \in Row, Hands(r, w),
           InHand(r, w) \/ (Op(r) = "notify" /\ pc[r] = "new" /\ w = Job1(r))
    PROVE  OnceOK'
  <1>1. /\ UNCHANGED <<body, at, rows, passes>> /\ Types' /\ pc[r] \notin Ended /\ pc \in [Request -> PC]
        /\ pc' = [pc EXCEPT ![r] = pc'[r]] /\ at' = [at EXCEPT ![r] = at'[r]]
        /\ pc'[r] \notin {"submit", "new", "recurring"} /\ (Op(r) # "batch" => pc'[r] \in Ended)
        /\ \A v \in Row : Payloads(v) \in Nat /\ v[1] \in Request
    BY TypesHands, Counts DEF Hands, tables, Types, TypeOK, Ended
  <1>2. \A v \in Row : (Due(v)' => Due(v)) /\ Saved(v)' = Saved(v)
    BY <1>1, DueKept DEF Saved
  <1>3. Payloads(w)' \in {Payloads(w), Payloads(w) + 1}
    BY DEF Hands
  <1> SUFFICES ASSUME NEW v \in Row
               PROVE  Payloads(v)' + Cardinality(Retries(v))' + Ahead(v)' <= 1 + passes'[v]
    BY DEF OnceOK
  <1>4. CASE Op(r) # "retry" \/ body[r].row # v
    <2>1. Retries(v)' = Retries(v) /\ Looking(v)' = Looking(v)
      BY <1>1, <1>4, Apart
    <2>2. CASE v # w
      <3>1. Steady(v)
        BY <1>2, <2>1, <2>2 DEF Steady, Hands
      <3> QED  BY <1>1, <3>1, SteadyWeighs
    <2>3. CASE v = w
      <3>1. Op(r) # "retry" /\ w[1] = r
        BY <1>4, <2>3 DEF InHand, Job1, Current
      <3>2. Due(w) /\ ~Due(w)'
        <4>1. Op(r)' = Op(r) /\ Op(w[1]) = Op(r) /\ Op(w[1])' = Op(r)
          BY <1>1, <3>1 DEF Op
        <4>2. CASE Op(r) = "batch"
          <5>1. InHand(r, w) /\ w = Current(r) /\ pc[r] = "submit" /\ Saved(w)
            BY <1>1, <4>2, HeldSaved DEF InHand, Hands
          <5> QED  BY <1>1, <1>2, <3>1, <4>1, <4>2, <5>1 DEF Due
        <4>3. CASE Op(r) # "batch"
          BY <1>1, <3>1, <4>1, <4>3 DEF Due
        <4> QED  BY <4>2, <4>3
      <3>3. Ahead(w)' + 1 <= Ahead(w) /\ Ahead(w) \in Int /\ Ahead(w)' \in Int
        BY <1>1, <2>1, <2>3, <3>2 DEF Ahead, Fresh
      <3>4. Cardinality(Retries(w)) \in Nat /\ Payloads(w) \in Nat
        BY Counts
      <3> QED  BY <1>1, <1>3, <2>1, <2>3, <3>3, <3>4, Weighs
    <2> QED  BY <2>2, <2>3
  <1>5. CASE Op(r) = "retry" /\ body[r].row = v
    <2>1. v = w /\ pc[r] = "submit" /\ pc'[r] \in Ended
      BY <1>1, <1>5 DEF InHand
    <2>2. Retries(w)' = Retries(w) \ {r} /\ r \in Retries(w)
      BY <1>1, <1>5, <2>1 DEF Retries, Op, Ended
    <2>3. Looking(w)' = Looking(w)
      BY <1>1, <1>5, <2>1 DEF Looking, Op, Ended
    <2>4. Cardinality(Retries(w))' = Cardinality(Retries(w)) - 1
      BY <2>2, Counts, FS_RemoveElement
    <2>5. Ahead(w)' <= Ahead(w) /\ Ahead(w) \in Int /\ Ahead(w)' \in Int
      BY <1>1, <1>2, <2>3 DEF Ahead, Fresh
    <2>6. Cardinality(Retries(w)) \in Nat /\ Payloads(w) \in Nat
      BY Counts
    <2> QED  BY <1>1, <1>3, <2>1, <2>4, <2>5, <2>6, Weighs
  <1> QED  BY <1>4, <1>5

LEMMA OnceWrites ==
    ASSUME Types, RowsOK, OnceOK, NEW r \in Request, RequestOK(r), NEW w \in Row, NEW s \in Status \ {"none"},
           Writes(r, w, s)
    PROVE  OnceOK'
  <1>1. /\ body' = body /\ rows \in [Row -> Status] /\ rows' = [rows EXCEPT ![w] = s] /\ Types'
        /\ pc[r] \notin Ended /\ pc \in [Request -> PC] /\ pc' = [pc EXCEPT ![r] = pc'[r]]
        /\ at \in [Request -> Nat] /\ at' = [at EXCEPT ![r] = at'[r]]
    BY TypesWrites DEF Writes, Moves, Types, TypeOK
  <1>2. \A v \in Row : Payloads(v)' = Payloads(v) /\ v[1] \in Request
    BY DEF Writes, Payloads, Row
  <1>3. \A v \in Row : Saved(v) => Saved(v)'
    BY <1>1 DEF Saved
  <1>4. ASSUME NEW v \in Row, Op(r) = "batch", v[1] = r, pc'[r] = "submit", v = Current(r)' PROVE Due(v)
    <2>1. InHand(r, w)' /\ ~Saved(w)
      BY <1>4 DEF Writes
    <2>2. w = Current(r)'
      BY <1>1, <1>4, <2>1 DEF InHand, Op
    <2> QED  BY <1>4, <2>1, <2>2 DEF Due
  <1>5. \A v \in Row : Due(v)' => Due(v)
    BY <1>1, <1>3, <1>4, DueKept
  <1>6. \A v \in Row : \/ passes'[v] = passes[v] /\ (rows'[v] = "FAILED" => rows[v] = "FAILED")
                       \/ passes'[v] = passes[v] + 1
    BY <1>1, Passed DEF Writes
  <1> SUFFICES ASSUME NEW v \in Row
               PROVE  Payloads(v)' + Cardinality(Retries(v))' + Ahead(v)' <= 1 + passes'[v]
    BY DEF OnceOK
  <1>7. CASE Op(r) # "retry" \/ body[r].row # v
    <2>1. Retries(v)' = Retries(v) /\ Looking(v)' = Looking(v)
      BY <1>1, <1>7, Apart
    <2> QED  BY <1>1, <1>2, <1>5, <1>6, <2>1, SteadyWeighs DEF Steady
  <1>8. CASE Op(r) = "retry" /\ body[r].row = v
    <2>1. /\ pc[r] = "save" /\ pc'[r] = "submit" /\ w = v /\ s \in {"QUEUED", "SCHEDULED"} /\ passes' = passes
      BY <1>8 DEF Writes
    <2>2. Retries(v)' = Retries(v)
      BY <1>1, <2>1 DEF Retries, Op
    <2>3. rows'[v] # "FAILED"
      BY <1>1, <2>1
    <2>4. Ahead(v)' <= Ahead(v) /\ Ahead(v) \in Int /\ Ahead(v)' \in Int
      BY <1>5, <2>3 DEF Ahead, Fresh
    <2>5. Cardinality(Retries(v)) \in Nat /\ Payloads(v) \in Nat
      BY Counts
    <2> QED  BY <1>1, <1>2, <2>1, <2>2, <2>4, <2>5, Weighs
  <1> QED  BY <1>7, <1>8

LEMMA OnceQuiet ==
    ASSUME Types, OnceOK, NEW r \in Request, Quiet(r)
    PROVE  OnceOK'
  <1>1. /\ body' = body /\ Types' /\ pc \in [Request -> PC] /\ pc' = [pc EXCEPT ![r] = pc'[r]] /\ pc[r] \notin Ended
        /\ at \in [Request -> Nat] /\ at' = [at EXCEPT ![r] = at'[r]] /\ rows' = rows
        /\ pc'[r] # "submit"
    BY TypesQuiet DEF Quiet, Moves, Types, TypeOK
  <1>2. \A v \in Row : Payloads(v)' = Payloads(v) /\ v[1] \in Request /\ Saved(v)' = Saved(v)
    BY <1>1 DEF Quiet, Payloads, Row, Saved
  <1>3. \A v \in Row : Due(v)' => Due(v)
    BY <1>1, <1>2, DueKept
  <1> SUFFICES ASSUME NEW v \in Row
               PROVE  Payloads(v)' + Cardinality(Retries(v))' + Ahead(v)' <= 1 + passes'[v]
    BY DEF OnceOK
  <1>4. CASE Op(r) # "retry" \/ body[r].row # v
    <2>1. Retries(v)' = Retries(v) /\ Looking(v)' = Looking(v)
      BY <1>1, <1>4, Apart
    <2>2. passes'[v] = passes[v]
      <3>1. CASE passes' = passes
        BY <3>1
      <3>2. CASE passes' # passes
        <4>1. Op(r) = "retry" /\ Pass(body[r].row) /\ body[r].row \in Row
          BY <3>2, SceneOf DEF Quiet, Types
        <4> QED  BY <1>4, <4>1, Passed
      <3> QED  BY <3>1, <3>2
    <2> QED  BY <1>1, <1>2, <1>3, <2>1, <2>2, SteadyWeighs DEF Steady
  <1>5. ASSUME Op(r) = "retry", body[r].row = v, pc'[r] = "save"
        PROVE  Payloads(v)' + Cardinality(Retries(v))' + Ahead(v)' <= 1 + passes'[v]
    <2>1. pc[r] = "new" /\ rows[v] = "FAILED" /\ (IF Looking(v) = {} THEN passes' = passes ELSE Pass(v))
      BY <1>5 DEF Quiet
    <2>2. Retries(v)' = Retries(v) \cup {r} /\ r \notin Retries(v)
      BY <1>1, <1>5, <2>1 DEF Retries, Op
    <2>3. Looking(v)' = Looking(v) \cup {r}
      BY <1>1, <1>5, <2>1 DEF Looking, Op
    <2>4. Cardinality(Retries(v))' = Cardinality(Retries(v)) + 1
      BY <2>2, Counts, FS_AddElement
    <2>5. ~Fresh(v)' /\ (Looking(v) = {} => Fresh(v))
      BY <2>1, <2>3 DEF Fresh
    <2>6. Cardinality(Retries(v)) \in Nat /\ Payloads(v) \in Nat
      BY Counts
    <2>7. /\ Ahead(v) \in Int /\ Ahead(v)' \in Int /\ Ahead(v)' <= Ahead(v)
          /\ Looking(v) = {} => Ahead(v)' + 1 <= Ahead(v)
      BY <1>3, <2>5 DEF Ahead
    <2>8. CASE Looking(v) = {}
      BY <1>1, <1>2, <2>1, <2>4, <2>6, <2>7, <2>8, Weighs
    <2>9. CASE Looking(v) # {}
      <3>1. passes'[v] = passes[v] + 1
        BY <2>1, <2>9, Passed
      <3> QED  BY <1>1, <1>2, <2>4, <2>6, <2>7, <3>1, Weighs
    <2> QED  BY <2>8, <2>9
  <1>6. ASSUME Op(r) = "retry", body[r].row = v, pc'[r] # "save"
        PROVE  Payloads(v)' + Cardinality(Retries(v))' + Ahead(v)' <= 1 + passes'[v]
    <2>1. pc'[r] = "refused" /\ passes' = passes
      BY <1>6 DEF Quiet
    <2>2. CASE pc[r] \in {"save", "submit"}
      BY <1>1, <1>2, <1>3, <1>6, <2>1, <2>2, Leaves
    <2>3. CASE pc[r] \notin {"save", "submit"}
      <3>1. Retries(v)' = Retries(v)
        BY <1>1, <2>1, <2>3 DEF Retries, Op
      <3>2. Looking(v)' = Looking(v)
        BY <1>1, <2>1, <2>3 DEF Looking, Op
      <3> QED  BY <1>1, <1>2, <1>3, <2>1, <3>1, <3>2, SteadyWeighs DEF Steady
    <2> QED  BY <2>2, <2>3
  <1> QED  BY <1>4, <1>5, <1>6

LEMMA OnceWorker ==
    ASSUME Types, RowsOK, \A r \in Request : RequestOK(r), OnceOK, NEW w \in Row, WorkerStep(w)
    PROVE  OnceOK'
  <1>1. Types' /\ rows \in [Row -> Status] /\ UNCHANGED <<body, pc, at>>
    BY TypesWorker, WorkerMoves DEF Types, TypeOK
  <1>2. ASSUME NEW v \in Row PROVE Steady(v)
    <2>1. Payloads(v)' = Payloads(v) /\ (Saved(v) => Saved(v)')
      BY <1>1, WorkerMoves DEF Saved
    <2>2. Retries(v)' = Retries(v) /\ Looking(v)' = Looking(v)
      BY <1>1 DEF Retries, Looking, Op
    <2>3. Due(v)' => Due(v)
      BY <1>1, <2>1 DEF Due, Op, Current
    <2> QED  BY <2>1, <2>2, <2>3 DEF Steady
  <1>3. \A v \in Row : \/ passes'[v] = passes[v] /\ (rows'[v] = "FAILED" => rows[v] = "FAILED")
                       \/ passes'[v] = passes[v] + 1
    BY <1>1, WorkerMoves, Passed
  <1> QED  BY <1>1, <1>2, <1>3, SteadyWeighs DEF OnceOK

LEMMA OnceCrash ==
    ASSUME Types, OnceOK, Crash
    PROVE  OnceOK'
  <1>1. /\ Types' /\ UNCHANGED <<body, at, rows, passes>>
        /\ pc' = [r \in Request |-> IF pc[r] \in Ended \cup {"new"} THEN pc[r] ELSE "dead"]
    BY TypesCrash DEF Crash, tables
  <1> SUFFICES ASSUME NEW v \in Row
               PROVE  Payloads(v)' + Cardinality(Retries(v))' + Ahead(v)' <= 1 + passes'[v]
    BY DEF OnceOK
  <1>2. Payloads(v)' = Payloads(v) /\ Saved(v)' = Saved(v) /\ v[1] \in Request
    BY <1>1 DEF Crash, redis, Payloads, Saved, Row
  <1>3. Due(v)' => Due(v)
    <2>1. Op(v[1])' = Op(v[1]) /\ Current(v[1])' = Current(v[1])
      BY <1>1 DEF Op, Current
    <2>2. pc'[v[1]] # "submit" /\ (pc'[v[1]] \notin Ended => pc[v[1]] \notin Ended)
      BY <1>1, <1>2 DEF Ended
    <2> QED  BY <1>2, <2>1, <2>2 DEF Due
  <1>4. Retries(v)' = {} /\ Looking(v)' = {}
    BY <1>1 DEF Retries, Looking, Ended
  <1>5. Cardinality(Retries(v))' = 0
    BY <1>4, FS_EmptySet
  <1>6. Cardinality(Retries(v)) \in Nat /\ Payloads(v) \in Nat /\ IsFiniteSet(Retries(v))
    BY Counts
  <1>7. Retries(v) # {} => Cardinality(Retries(v)) >= 1
    BY <1>6, FS_EmptySet
  <1>8. Looking(v) \subseteq Retries(v)
    BY DEF Looking, Retries
  <1>9. Ahead(v)' <= Ahead(v) + (IF Looking(v) = {} THEN 0 ELSE 1) /\ Ahead(v) \in Int /\ Ahead(v)' \in Int
    BY <1>1, <1>3 DEF Ahead, Fresh
  <1>10. Payloads(v)' + Cardinality(Retries(v))' + Ahead(v)' <= Payloads(v) + Cardinality(Retries(v)) + Ahead(v)
    BY <1>2, <1>5, <1>6, <1>7, <1>8, <1>9
  <1> QED  BY <1>1, <1>10, Weighs

-----------------------------------------------------------------------------
(* The invariant *)

LEMMA InitHolds == Init => IInv
  <1> SUFFICES ASSUME Init PROVE IInv
    OBVIOUS
  <1>1. TypeOK /\ body \in Scenes
    BY FaultAssumption DEF Init, TypeOK, PC, Status
  <1>2. Spent("throw") = 0 /\ Spent("fail") = 0
    BY FaultAssumption DEF Init, Spent, FaultKind
  <1>3. \A w \in Row : ~Saved(w) /\ Payloads(w) = 0 /\ rows[w] = "none"
    BY DEF Init, Saved, Payloads
  <1>4. ASSUME NEW r \in Request PROVE RequestOK(r)
    <2>1. pc[r] = "new" /\ at[r] = 0 /\ Job1(r) \in Row /\ \A n \in Node : <<r, n>> \in Row
      BY NodeAssumption DEF Init, Job1, Row
    <2> QED  BY <1>3, <2>1, NodeAssumption DEF RequestOK, CreateOK, BatchOK, FlowOK, RetryOK
  <1>5. \A r \in Request : pc[r] = "new"
    BY DEF Init
  <1>6. OnceOK
    <2> SUFFICES ASSUME NEW w \in Row PROVE Payloads(w) + Cardinality(Retries(w)) + Ahead(w) <= 1 + passes[w]
      BY DEF OnceOK
    <2>1. Retries(w) = {} /\ ~Fresh(w) /\ passes[w] = 0
      BY <1>3, <1>5 DEF Retries, Fresh, Init
    <2>2. Cardinality(Retries(w)) = 0 /\ Ahead(w) \in {0, 1}
      BY <2>1, FS_EmptySet DEF Ahead
    <2> QED  BY <1>3, <2>1, <2>2
  <1> QED  BY <1>1, <1>2, <1>3, <1>4, <1>5, <1>6 DEF IInv, Types, RowsOK, KeysUnique, LimboHeld

LEMMA RequestKeeps ==
    ASSUME IInv, NEW r \in Request, RequestStep(r)
    PROVE  IInv'
  <1>1. Types /\ RequestOK(r) /\ RowsOK /\ KeysUnique /\ LimboHeld /\ OnceOK
    BY DEF IInv
  <1>2. \A q \in Request : RequestOK(q)'
    BY RequestsKept DEF IInv
  <1>3. ASSUME NEW w \in Row, Hands(r, w), InHand(r, w) \/ (Op(r) = "notify" /\ pc[r] = "new" /\ w = Job1(r))
        PROVE  IInv'
    <2>1. KeysUnique'
      BY <1>1, <1>3, KeysKept DEF Hands, tables, Saved
    <2> QED  BY <1>1, <1>2, <1>3, <2>1, TypesHands, RowsHands, LimboHands, OnceHands DEF IInv
  <1>4. ASSUME NEW w \in Row, NEW s \in Status \ {"none"}, Writes(r, w, s) PROVE IInv'
    BY <1>1, <1>2, <1>4, TypesWrites, RowsWrites, KeysWrites, LimboWrites, OnceWrites DEF IInv
  <1>5. ASSUME Quiet(r) PROVE IInv'
    <2>1. body' = body /\ rows' = rows /\ \A w \in Row : Payloads(w)' = Payloads(w)
      BY <1>5 DEF Quiet, Moves, Payloads
    <2>2. KeysUnique'
      BY <1>1, <2>1, KeysKept DEF Saved
    <2>3. RowsOK'
      BY <1>1, <2>1, RowsSteady
    <2> QED  BY <1>1, <1>2, <1>5, <2>2, <2>3, TypesQuiet, LimboQuiet, OnceQuiet DEF IInv
  <1> QED  BY <1>1, <1>3, <1>4, <1>5, Kinds

LEMMA WorkerKeepsAll ==
    ASSUME IInv, NEW w \in Row, WorkerStep(w)
    PROVE  IInv'
  <1>1. Types /\ RowsOK /\ KeysUnique /\ LimboHeld /\ OnceOK
    BY DEF IInv
  <1>2. \A r \in Request : RequestOK(r)'
    BY WorkerKeeps DEF IInv
  <1>3. body' = body /\ \A v \in Row : Saved(v)' = Saved(v)
    BY <1>1, WorkerMoves DEF Types, TypeOK, Saved
  <1> QED  BY <1>1, <1>2, <1>3, KeysKept, TypesWorker, RowsWorker, LimboWorker, OnceWorker DEF IInv

LEMMA CrashKeepsAll ==
    ASSUME IInv, Crash
    PROVE  IInv'
  <1>1. Types /\ RowsOK /\ KeysUnique /\ LimboHeld /\ OnceOK
    BY DEF IInv
  <1>2. \A r \in Request : RequestOK(r)'
    BY CrashKeeps DEF IInv
  <1>3. body' = body /\ rows' = rows /\ \A v \in Row : Payloads(v)' = Payloads(v)
    BY DEF Crash, tables, redis, Payloads
  <1>4. KeysUnique' /\ RowsOK'
    BY <1>1, <1>3, KeysKept, RowsSteady DEF Saved
  <1> QED  BY <1>1, <1>2, <1>4, TypesCrash, LimboCrash, OnceCrash DEF IInv

LEMMA StutterKeeps ==
    ASSUME IInv, UNCHANGED vars
    PROVE  IInv'
  <1> USE DEF vars, tables, redis
  <1>1. \A r \in Request : RequestOK(r)'
    <2> SUFFICES ASSUME NEW r \in Request PROVE RequestOK(r)'
      OBVIOUS
    <2>1. Types /\ RequestOK(r) /\ Spares(r)
      BY DEF IInv, Spares, Saved, Payloads
    <2> QED  BY <2>1, SparesKeep
  <1>2. Types'
    BY DEF IInv, Types, TypeOK, Of, Op, Spent
  <1>3. RowsOK'
    BY RowsSteady DEF IInv, Payloads
  <1>4. KeysUnique'
    BY KeysKept DEF IInv, Saved
  <1>5. LimboHeld' /\ OnceOK'
    <2>1. \A v \in Row : Payloads(v)' = Payloads(v) /\ rows'[v] = rows[v]
      BY DEF Payloads
    <2>2. \A v \in Row, r \in Request : InHand(r, v)' <=> InHand(r, v)
      BY DEF InHand, Op, Current, Job1
    <2>3. Spent("throw")' = Spent("throw")
      BY DEF Spent
    <2>4. Spent("throw") \in Nat
      BY FaultAssumption DEF IInv, Types, TypeOK, Spent, FaultKind
    <2>5. LimboHeld'
      BY <1>2, <2>1, <2>2, <2>3, <2>4, LimboKept DEF IInv
    <2>6. \A v \in Row : Retries(v)' = Retries(v) /\ Ahead(v)' = Ahead(v) /\ passes'[v] = passes[v]
      BY DEF Retries, Ahead, Due, Fresh, Looking, Op, Saved, Current
    <2> QED  BY <2>1, <2>5, <2>6 DEF IInv, OnceOK
  <1> QED  BY <1>1, <1>2, <1>3, <1>4, <1>5 DEF IInv

LEMMA Invariance == Spec => []IInv
  <1>1. IInv /\ [Next]_vars => IInv'
    <2> SUFFICES ASSUME IInv, [Next]_vars PROVE IInv'
      OBVIOUS
    <2>1. CASE \E r \in Request : RequestStep(r)
      BY <2>1, RequestKeeps
    <2>2. CASE \E w \in Row : WorkerStep(w)
      BY <2>2, WorkerKeepsAll
    <2>3. CASE Crash
      BY <2>3, CrashKeepsAll
    <2>4. CASE UNCHANGED vars
      BY <2>4, StutterKeeps
    <2> QED  BY <2>1, <2>2, <2>3, <2>4 DEF Next, RequestStep, WorkerStep
  <1> QED  BY <1>1, InitHolds, PTL DEF Spec

-----------------------------------------------------------------------------
(* The search for cycles *)

\* Induction over the natural numbers, for a set of them.
LEMMA Induct ==
    ASSUME NEW G, 0 \in G, \A k \in Nat : k \in G => k + 1 \in G
    PROVE  Nat \subseteq G
  <1> DEFINE T == Nat \ G
  <1> SUFFICES ASSUME T # {} PROVE FALSE
    OBVIOUS
  <1>1. PICK n \in T : \A m \in T : ~(<<m, n>> \in OpToRel(<, Nat))
    BY NatLessThanWellFounded, WFMin
  <1>2. n \in Nat /\ n # 0 /\ n - 1 \in Nat
    OBVIOUS
  <1>3. n - 1 \in G
    <2> SUFFICES ASSUME n - 1 \in T PROVE FALSE
      BY <1>2
    <2>1. n - 1 < n
      BY <1>2
    <2>2. <<n - 1, n>> \in OpToRel(<, Nat)
      BY <1>2, <2>1 DEF OpToRel
    <2> QED  BY <1>1, <2>2
  <1>4. (n - 1) + 1 \in G
    BY <1>2, <1>3
  <1> QED  BY <1>2, <1>4

\* One level of dfs(), where f answers for the next.
DfsBody(r, f, c) ==
    IF c.node \in c.visited \/ NeighbourIn(r, c.node) = {}
    THEN [found |-> FALSE, visited |-> c.visited \cup {c.node}]
    ELSE LET next == Deeper(r, c)
         IN IF next.node \in next.visited
            THEN [found |-> next.node \in next.recStack, visited |-> next.visited]
            ELSE f[next]

\* A recursive definition is a choice of a function that satisfies its equation.
LEMMA DfsChosen ==
    ASSUME NEW r
    PROVE  Dfs(r) = CHOOSE f : f = [c \in Call(r) |-> DfsBody(r, f, c)]
  BY Zenon DEF Dfs, DfsBody

\* The call for the neighbour is one of dfs()'s.
LEMMA DeeperCall ==
    ASSUME NEW r, NEW c \in Call(r), NeighbourIn(r, c.node) # {}
    PROVE  /\ Deeper(r, c) \in Call(r) /\ Deeper(r, c).node \in NeighbourIn(r, c.node)
           /\ Deeper(r, c).visited = c.visited \cup {c.node}
           /\ Deeper(r, c).recStack = c.recStack \cup {c.node}
           /\ c.node \in Node
  <1> DEFINE m == CHOOSE x \in NeighbourIn(r, c.node) : TRUE
  <1>1. c.node \in Node /\ NeighbourIn(r, c.node) = Neighbour(r, c.node)
    BY DEF NeighbourIn
  <1>2. m \in NeighbourIn(r, c.node)
    OBVIOUS
  <1>3. m \in Named(r)
    BY <1>1, <1>2 DEF Neighbour, Named
  <1>4. c.visited \cup {c.node} \in SUBSET Named(r) /\ c.recStack \cup {c.node} \in SUBSET Named(r)
    BY DEF Call
  <1> HIDE DEF m
  <1>5. Deeper(r, c) = [node |-> m, visited |-> c.visited \cup {c.node}, recStack |-> c.recStack \cup {c.node}]
    BY DEF Deeper, m
  <1> QED  BY <1>1, <1>2, <1>3, <1>4, <1>5 DEF Call

\* The keys that a search has not visited: one less with every level.
Unvisited(c) == Cardinality(Node \ c.visited)

\* It has one key less to visit.
LEMMA Fewer ==
    ASSUME NEW r, NEW c \in Call(r), NeighbourIn(r, c.node) # {}, c.node \notin c.visited
    PROVE  /\ Unvisited(c) \in Nat /\ Unvisited(Deeper(r, c)) \in Nat
           /\ Unvisited(Deeper(r, c)) = Unvisited(c) - 1
  <1> DEFINE S == Node \ c.visited
  <1>1. IsFiniteSet(S) /\ Cardinality(S) \in Nat
    BY NodeAssumption, FS_Subset, FS_CardinalityType
  <1>2. c.node \in S
    BY DeeperCall
  <1>3. Cardinality(S \ {c.node}) = Cardinality(S) - 1 /\ IsFiniteSet(S \ {c.node})
    BY <1>1, <1>2, FS_RemoveElement
  <1>4. Node \ Deeper(r, c).visited = S \ {c.node}
    BY DeeperCall
  <1>5. Cardinality(S \ {c.node}) \in Nat
    BY <1>3, FS_CardinalityType
  <1> QED  BY <1>1, <1>3, <1>4, <1>5 DEF Unvisited

\* The recursion of dfs() ends, so it is a function.
LEMMA DfsDefined ==
    ASSUME NEW r
    PROVE  \A c \in Call(r) : Dfs(r)[c] = DfsBody(r, Dfs(r), c)
  <1> DEFINE G == {k \in Nat : \E f : \A c \in Call(r) : Unvisited(c) < k => f[c] = DfsBody(r, f, c)}
  <1>0. \A c \in Call(r) : Unvisited(c) \in Nat /\ Unvisited(c) <= Cardinality(Node)
    <2> SUFFICES ASSUME NEW c \in Call(r)
                 PROVE  Unvisited(c) \in Nat /\ Unvisited(c) <= Cardinality(Node)
      OBVIOUS
    <2>1. Node \ c.visited \in SUBSET Node
      OBVIOUS
    <2> QED  BY <2>1, NodeAssumption, FS_Subset, FS_CardinalityType DEF Unvisited
  <1>1. 0 \in G
    BY <1>0
  <1>2. ASSUME NEW k \in Nat, k \in G PROVE k + 1 \in G
    <2>1. PICK f : \A c \in Call(r) : Unvisited(c) < k => f[c] = DfsBody(r, f, c)
      BY <1>2
    <2> DEFINE g == [c \in Call(r) |-> DfsBody(r, f, c)]
    <2>2. ASSUME NEW c \in Call(r), Unvisited(c) < k + 1 PROVE g[c] = DfsBody(r, g, c)
      <3>1. g[c] = DfsBody(r, f, c)
        OBVIOUS
      <3>2. CASE c.node \in c.visited \/ NeighbourIn(r, c.node) = {}
        BY <3>1, <3>2 DEF DfsBody
      <3>3. CASE ~(c.node \in c.visited \/ NeighbourIn(r, c.node) = {})
        <4>1. Deeper(r, c) \in Call(r) /\ Unvisited(Deeper(r, c)) < k
          <5>1. Unvisited(c) \in Nat /\ Unvisited(Deeper(r, c)) = Unvisited(c) - 1
            BY <3>3, Fewer
          <5>2. Deeper(r, c) \in Call(r)
            BY <3>3, DeeperCall
          <5>3. Unvisited(c) < k + 1
            BY <2>2
          <5> HIDE DEF g, G
          <5> QED  BY <5>1, <5>2, <5>3
        <4>2. f[Deeper(r, c)] = g[Deeper(r, c)]
          BY <2>1, <4>1
        <4>3. DfsBody(r, f, c) = DfsBody(r, g, c)
          <5> HIDE DEF g, G
          <5> QED  BY <4>2, Zenon DEF DfsBody
        <4> QED  BY <3>1, <4>3
      <3> QED  BY <3>2, <3>3
    <2>3. \A c \in Call(r) : Unvisited(c) < k + 1 => g[c] = DfsBody(r, g, c)
      <3> HIDE DEF g
      <3> QED  BY <2>2
    <2>4. \E h : \A c \in Call(r) : Unvisited(c) < k + 1 => h[c] = DfsBody(r, h, c)
      <3> HIDE DEF g
      <3> QED  BY <2>3, Zenon
    <2> QED  BY <2>4
  <1> HIDE DEF G
  <1>3. Cardinality(Node) + 1 \in Nat
    BY NodeAssumption, FS_CardinalityType
  <1>4. Cardinality(Node) + 1 \in G
    BY <1>1, <1>2, <1>3, Induct
  <1>5. PICK f : \A c \in Call(r) : f[c] = DfsBody(r, f, c)
    <2>1. \A c \in Call(r) : Unvisited(c) < Cardinality(Node) + 1
      <3> SUFFICES ASSUME NEW c \in Call(r) PROVE Unvisited(c) < Cardinality(Node) + 1
        OBVIOUS
      <3>1. Unvisited(c) \in Nat /\ Unvisited(c) <= Cardinality(Node) /\ Cardinality(Node) \in Nat
        BY <1>0, NodeAssumption, FS_CardinalityType
      <3> QED  BY <3>1
    <2> QED  BY <1>4, <2>1 DEF G
  <1> DEFINE g == [c \in Call(r) |-> f[c]]
  <1>6. \A c \in Call(r) : g[c] = DfsBody(r, g, c)
    <2> SUFFICES ASSUME NEW c \in Call(r) PROVE f[c] = DfsBody(r, g, c)
      OBVIOUS
    <2>1. CASE c.node \in c.visited \/ NeighbourIn(r, c.node) = {}
      BY <1>5, <2>1 DEF DfsBody
    <2>2. CASE ~(c.node \in c.visited \/ NeighbourIn(r, c.node) = {})
      <3>1. g[Deeper(r, c)] = f[Deeper(r, c)]
        BY <2>2, DeeperCall
      <3>2. DfsBody(r, f, c) = DfsBody(r, g, c)
        <4> HIDE DEF g
        <4> QED  BY <3>1, Zenon DEF DfsBody
      <3> QED  BY <1>5, <3>2
    <2> QED  BY <2>1, <2>2
  <1>7. g = [c \in Call(r) |-> DfsBody(r, g, c)]
    <2>1. g = [c \in Call(r) |-> g[c]]
      OBVIOUS
    <2> HIDE DEF g
    <2> QED  BY <1>6, <2>1
  <1> HIDE DEF g
  <1>8. Dfs(r) = [c \in Call(r) |-> DfsBody(r, Dfs(r), c)]
    BY <1>7, DfsChosen, Zenon
  <1> QED  BY <1>8, Zenon

\* Keys each of which has its neighbours among them.
Ring(r, C) == C \subseteq Node /\ \A x \in C : NeighbourIn(r, x) # {} /\ NeighbourIn(r, x) \subseteq C

\* The keys on the path each have a neighbour on it.
Path(r, c) == \A x \in c.recStack : NeighbourIn(r, x) \cap (c.recStack \cup {c.node}) # {}

\* The search has not left a key of C without an answer, and once it is in C it stays.
Inside(c, C) ==
    /\ c.recStack = {} \/ c.node \notin c.visited
    /\ (c.visited \ c.recStack) \cap C = {}
    /\ c.recStack \cap C # {} => c.node \in C

\* What dfs() answers: a cycle it finds is one, and a ring it enters is one it finds.
Searched(r, c, d) ==
    /\ c.visited \cup {c.node} \subseteq d.visited /\ d.visited \in SUBSET Named(r)
    /\ Path(r, c) /\ d.found => Cyclic(r)
    /\ \A C : Ring(r, C) /\ Inside(c, C) /\ ~d.found => d.visited \cap C = {}

\* What dfs() follows are dependencies.
LEMMA NeighboursAreParents ==
    ASSUME NEW r, NEW x, NEW m \in NeighbourIn(r, x)
    PROVE  x \in Node /\ m \in Parents(r, x)
  BY DEF NeighbourIn, Neighbour

\* A neighbour on the path closes a cycle.
LEMMA PathIsCycle ==
    ASSUME NEW r, NEW c \in Call(r), Path(r, c),
           NeighbourIn(r, c.node) \cap (c.recStack \cup {c.node}) # {}
    PROVE  Cyclic(r)
  <1> DEFINE circle == c.recStack \cup {c.node}
  <1>1. \A x \in circle : NeighbourIn(r, x) \cap circle # {}
    BY DEF Path
  <1>2. \A x \in circle : x \in Node /\ Parents(r, x) \cap circle # {}
    BY <1>1, NeighboursAreParents
  <1>3. circle \in (SUBSET Node) \ {{}}
    BY <1>2
  <1> QED  BY <1>2, <1>3 DEF Cyclic

\* The answer of the first level, and how it follows from the next one's.
LEMMA SearchedHere ==
    ASSUME NEW r, NEW c \in Call(r), c.node \in c.visited \/ NeighbourIn(r, c.node) = {}
    PROVE  Searched(r, c, [found |-> FALSE, visited |-> c.visited \cup {c.node}])
  <1>1. c.visited \cup {c.node} \in SUBSET Named(r)
    BY DEF Call
  <1>2. ASSUME NEW C, Ring(r, C), Inside(c, C)
        PROVE  (c.visited \cup {c.node}) \cap C = {}
    <2>1. CASE c.node \in c.visited
      BY <1>2, <2>1 DEF Inside
    <2>2. CASE NeighbourIn(r, c.node) = {}
      BY <1>2, <2>2 DEF Inside, Ring
    <2> QED  BY <2>1, <2>2
  <1> QED  BY <1>1, <1>2 DEF Searched

LEMMA SearchedStop ==
    ASSUME NEW r, NEW c \in Call(r), NEW m \in NeighbourIn(r, c.node),
           c.node \notin c.visited, m \in c.visited \cup {c.node}
    PROVE  Searched(r, c, [found |-> m \in c.recStack \cup {c.node}, visited |-> c.visited \cup {c.node}])
  <1>1. c.visited \cup {c.node} \in SUBSET Named(r)
    BY DEF Call
  <1>2. Path(r, c) /\ m \in c.recStack \cup {c.node} => Cyclic(r)
    BY PathIsCycle
  <1>3. ASSUME NEW C, Ring(r, C), Inside(c, C), m \notin c.recStack \cup {c.node}
        PROVE  (c.visited \cup {c.node}) \cap C = {}
    <2>1. m \notin C
      BY <1>3 DEF Inside
    <2>2. c.node \notin C
      BY <1>3, <2>1 DEF Ring
    <2> QED  BY <1>3, <2>2 DEF Inside
  <1> QED  BY <1>1, <1>2, <1>3 DEF Searched

LEMMA SearchedOn ==
    ASSUME NEW r, NEW c \in Call(r), NEW d \in Call(r), NEW e, Searched(r, d, e),
           c.node \notin c.visited, d.node \in NeighbourIn(r, c.node), d.node \notin d.visited,
           d.visited = c.visited \cup {c.node}, d.recStack = c.recStack \cup {c.node}
    PROVE  Searched(r, c, e)
  <1>1. c.visited \cup {c.node} \subseteq e.visited /\ e.visited \in SUBSET Named(r)
    BY DEF Searched
  <1>2. Path(r, c) => Path(r, d)
    <2> SUFFICES ASSUME Path(r, c), NEW x \in d.recStack
                 PROVE  NeighbourIn(r, x) \cap (d.recStack \cup {d.node}) # {}
      BY DEF Path
    <2>1. CASE x = c.node
      BY <2>1
    <2>2. CASE x \in c.recStack
      BY <2>2 DEF Path
    <2> QED  BY <2>1, <2>2
  <1>3. ASSUME NEW C, Ring(r, C), Inside(c, C) PROVE Inside(d, C)
    <2>1. d.recStack \cap C # {} => c.node \in C
      BY <1>3 DEF Inside
    <2>2. d.recStack \cap C # {} => d.node \in C
      BY <1>3, <2>1 DEF Ring
    <2>3. (d.visited \ d.recStack) \cap C = {}
      BY <1>3 DEF Inside
    <2> QED  BY <2>2, <2>3 DEF Inside
  <1> QED  BY <1>1, <1>2, <1>3 DEF Searched

\* By induction over the keys not visited: every call answers as it should.
LEMMA DfsSearches ==
    ASSUME NEW r
    PROVE  \A c \in Call(r) : Searched(r, c, Dfs(r)[c])
  <1> DEFINE G == {k \in Nat : \A c \in Call(r) : Unvisited(c) < k => Searched(r, c, Dfs(r)[c])}
  <1>0. \A c \in Call(r) : Unvisited(c) \in Nat
    BY NodeAssumption, FS_Subset, FS_CardinalityType DEF Unvisited
  <1>1. ASSUME NEW c \in Call(r), c.node \in c.visited \/ NeighbourIn(r, c.node) = {}
        PROVE  Searched(r, c, Dfs(r)[c])
    <2>1. Dfs(r)[c] = [found |-> FALSE, visited |-> c.visited \cup {c.node}]
      BY <1>1, DfsDefined DEF DfsBody
    <2> QED  BY <1>1, <2>1, SearchedHere
  <1>2. ASSUME NEW c \in Call(r), ~(c.node \in c.visited \/ NeighbourIn(r, c.node) = {}),
               Deeper(r, c).node \notin Deeper(r, c).visited => Searched(r, Deeper(r, c), Dfs(r)[Deeper(r, c)])
        PROVE  Searched(r, c, Dfs(r)[c])
    <2>1. PICK d : d = Deeper(r, c)
      OBVIOUS
    <2>2. /\ d \in Call(r) /\ d.node \in NeighbourIn(r, c.node)
          /\ d.visited = c.visited \cup {c.node} /\ d.recStack = c.recStack \cup {c.node}
      BY <1>2, <2>1, DeeperCall
    <2>3. CASE d.node \in d.visited
      <3>1. Dfs(r)[c] = [found |-> d.node \in d.recStack, visited |-> d.visited]
        BY <1>2, <2>1, <2>3, DfsDefined, Zenon DEF DfsBody
      <3>2. Dfs(r)[c] = [found |-> d.node \in c.recStack \cup {c.node}, visited |-> c.visited \cup {c.node}]
        BY <2>2, <3>1
      <3>3. d.node \in c.visited \cup {c.node}
        BY <2>2, <2>3
      <3> QED  BY <1>2, <2>2, <3>2, <3>3, SearchedStop
    <2>4. CASE d.node \notin d.visited
      <3>1. Dfs(r)[c] = Dfs(r)[d]
        BY <1>2, <2>1, <2>4, DfsDefined, Zenon DEF DfsBody
      <3>2. Searched(r, d, Dfs(r)[d])
        BY <1>2, <2>1, <2>4
      <3> QED  BY <1>2, <2>2, <2>4, <3>1, <3>2, SearchedOn
    <2> QED  BY <2>3, <2>4
  <1>3. 0 \in G
    BY <1>0
  <1>4. ASSUME NEW k \in Nat, k \in G PROVE k + 1 \in G
    <2> SUFFICES ASSUME NEW c \in Call(r), Unvisited(c) < k + 1 PROVE Searched(r, c, Dfs(r)[c])
      OBVIOUS
    <2>1. CASE c.node \in c.visited \/ NeighbourIn(r, c.node) = {}
      BY <1>1, <2>1
    <2>2. CASE ~(c.node \in c.visited \/ NeighbourIn(r, c.node) = {})
      <3>1. Deeper(r, c) \in Call(r)
        BY <2>2, DeeperCall
      <3>2. Unvisited(c) \in Nat /\ Unvisited(Deeper(r, c)) = Unvisited(c) - 1
        BY <2>2, Fewer
      <3>3. Unvisited(Deeper(r, c)) < k
        BY <3>2
      <3>4. Searched(r, Deeper(r, c), Dfs(r)[Deeper(r, c)])
        BY <1>4, <3>1, <3>3
      <3> QED  BY <1>2, <2>2, <3>4
    <2> QED  BY <2>1, <2>2
  <1> HIDE DEF G
  <1>5. Nat \subseteq G
    BY <1>3, <1>4, Induct
  <1> SUFFICES ASSUME NEW c \in Call(r) PROVE Searched(r, c, Dfs(r)[c])
    OBVIOUS
  <1>6. Unvisited(c) + 1 \in G /\ Unvisited(c) < Unvisited(c) + 1
    BY <1>0, <1>5
  <1> QED  BY <1>6 DEF G

\* A turn of the loop over the keys: those to come, and what is visited.
Turns(r) == [keys : SUBSET Node, visited : SUBSET Named(r)]

First(s) == CHOOSE i \in s.keys : \A j \in s.keys : i <= j

FirstCall(s) == [node |-> First(s), visited |-> s.visited, recStack |-> {}]

AfterTurn(r, s) == [keys |-> s.keys \ {First(s)}, visited |-> Dfs(r)[FirstCall(s)].visited]

LoopBody(r, f, s) == s.keys # {} /\ (Dfs(r)[FirstCall(s)].found \/ f[AfterTurn(r, s)])

\* There is a least key among those to come.
LEMMA FirstKey ==
    ASSUME NEW r, NEW s \in Turns(r), s.keys # {}
    PROVE  First(s) \in s.keys
  <1>1. s.keys \subseteq Nat
    BY NodeAssumption DEF Turns
  <1>2. PICK i \in s.keys : \A j \in s.keys : ~(<<j, i>> \in OpToRel(<, Nat))
    BY <1>1, NatLessThanWellFounded, WFMin
  <1>3. ASSUME NEW j \in s.keys PROVE i <= j
    <2>1. i \in Nat /\ j \in Nat
      BY <1>1
    <2>2. ~(j < i)
      <3> SUFFICES ASSUME j < i PROVE FALSE
        OBVIOUS
      <3>1. <<j, i>> \in OpToRel(<, Nat)
        BY <2>1 DEF OpToRel
      <3> QED  BY <1>2, <3>1
    <2> QED  BY <2>1, <2>2
  <1> QED  BY <1>3 DEF First

\* Its search answers as it should, and the loop goes on.
LEMMA FirstSearches ==
    ASSUME NEW r, NEW s \in Turns(r), s.keys # {}
    PROVE  /\ FirstCall(s) \in Call(r) /\ Searched(r, FirstCall(s), Dfs(r)[FirstCall(s)])
           /\ AfterTurn(r, s) \in Turns(r)
  <1>1. First(s) \in s.keys /\ s.keys \subseteq Node /\ s.visited \in SUBSET Named(r)
    BY FirstKey DEF Turns
  <1>2. FirstCall(s) \in Call(r)
    BY <1>1 DEF FirstCall, Call, Named
  <1>3. Searched(r, FirstCall(s), Dfs(r)[FirstCall(s)])
    BY <1>2, DfsSearches
  <1>4. Dfs(r)[FirstCall(s)].visited \in SUBSET Named(r)
    BY <1>3 DEF Searched
  <1> QED  BY <1>1, <1>2, <1>3, <1>4 DEF AfterTurn, Turns

\* Each turn takes one key.
LEMMA FewerKeys ==
    ASSUME NEW r, NEW s \in Turns(r)
    PROVE  /\ Cardinality(s.keys) \in Nat /\ Cardinality(s.keys) <= Cardinality(Node)
           /\ s.keys # {} => Cardinality(AfterTurn(r, s).keys) = Cardinality(s.keys) - 1
  <1>1. s.keys \in SUBSET Node
    BY DEF Turns
  <1>2. IsFiniteSet(s.keys) /\ Cardinality(s.keys) \in Nat /\ Cardinality(s.keys) <= Cardinality(Node)
    BY <1>1, NodeAssumption, FS_Subset, FS_CardinalityType
  <1>3. ASSUME s.keys # {} PROVE Cardinality(AfterTurn(r, s).keys) = Cardinality(s.keys) - 1
    <2>1. First(s) \in s.keys
      BY <1>3, FirstKey
    <2>2. Cardinality(s.keys \ {First(s)}) = Cardinality(s.keys) - 1
      BY <1>2, <2>1, FS_RemoveElement
    <2> QED  BY <2>2 DEF AfterTurn
  <1> QED  BY <1>2, <1>3

\* The loop ends, so it is a function.
LEMMA LoopDefined ==
    ASSUME NEW r
    PROVE  \E f : /\ \A s \in Turns(r) : f[s] = LoopBody(r, f, s)
                  /\ HasCircularDependency(r) = f[[keys |-> Node, visited |-> {}]]
  <1> DEFINE G == {k \in Nat : \E f : \A s \in Turns(r) : Cardinality(s.keys) < k => f[s] = LoopBody(r, f, s)}
             T == CHOOSE f : f = [s \in Turns(r) |-> LoopBody(r, f, s)]
  <1>1. 0 \in G
    BY FewerKeys
  <1>2. ASSUME NEW k \in Nat, k \in G PROVE k + 1 \in G
    <2>1. PICK f : \A s \in Turns(r) : Cardinality(s.keys) < k => f[s] = LoopBody(r, f, s)
      BY <1>2
    <2> DEFINE g == [s \in Turns(r) |-> LoopBody(r, f, s)]
    <2>2. ASSUME NEW s \in Turns(r), Cardinality(s.keys) < k + 1 PROVE g[s] = LoopBody(r, g, s)
      <3>1. g[s] = LoopBody(r, f, s)
        OBVIOUS
      <3>2. CASE s.keys = {}
        BY <3>1, <3>2 DEF LoopBody
      <3>3. CASE s.keys # {}
        <4>1. AfterTurn(r, s) \in Turns(r) /\ Cardinality(AfterTurn(r, s).keys) < k
          <5>1. Cardinality(s.keys) \in Nat /\ Cardinality(AfterTurn(r, s).keys) = Cardinality(s.keys) - 1
            BY <3>3, FewerKeys
          <5>2. AfterTurn(r, s) \in Turns(r)
            BY <3>3, FirstSearches
          <5>3. Cardinality(s.keys) < k + 1
            BY <2>2
          <5> HIDE DEF g, G
          <5> QED  BY <5>1, <5>2, <5>3
        <4>2. f[AfterTurn(r, s)] = g[AfterTurn(r, s)]
          BY <2>1, <4>1
        <4>3. LoopBody(r, f, s) = LoopBody(r, g, s)
          <5> HIDE DEF g, G
          <5> QED  BY <4>2, Zenon DEF LoopBody
        <4> QED  BY <3>1, <4>3
      <3> QED  BY <3>2, <3>3
    <2>3. \A s \in Turns(r) : Cardinality(s.keys) < k + 1 => g[s] = LoopBody(r, g, s)
      <3> HIDE DEF g
      <3> QED  BY <2>2
    <2>4. \E h : \A s \in Turns(r) : Cardinality(s.keys) < k + 1 => h[s] = LoopBody(r, h, s)
      <3> HIDE DEF g
      <3> QED  BY <2>3, Zenon
    <2> QED  BY <2>4
  <1> HIDE DEF G, T
  <1>3. Cardinality(Node) + 1 \in Nat /\ Cardinality(Node) \in Nat
    BY NodeAssumption, FS_CardinalityType
  <1>4. Cardinality(Node) + 1 \in G
    BY <1>1, <1>2, <1>3, Induct
  <1>5. PICK f : \A s \in Turns(r) : f[s] = LoopBody(r, f, s)
    <2>1. ASSUME NEW s \in Turns(r) PROVE Cardinality(s.keys) < Cardinality(Node) + 1
      <3>1. Cardinality(s.keys) \in Nat /\ Cardinality(s.keys) <= Cardinality(Node)
        BY FewerKeys
      <3> QED  BY <1>3, <3>1
    <2> QED  BY <1>4, <2>1 DEF G
  <1> DEFINE g == [s \in Turns(r) |-> f[s]]
  <1>6. ASSUME NEW s \in Turns(r) PROVE g[s] = LoopBody(r, g, s)
    <2>1. CASE s.keys = {}
      BY <1>5, <2>1 DEF LoopBody
    <2>2. CASE s.keys # {}
      <3>1. g[AfterTurn(r, s)] = f[AfterTurn(r, s)]
        BY <2>2, FirstSearches
      <3>2. LoopBody(r, f, s) = LoopBody(r, g, s)
        <4> HIDE DEF g
        <4> QED  BY <3>1, Zenon DEF LoopBody
      <3> QED  BY <1>5, <3>2
    <2> QED  BY <2>1, <2>2
  <1>7. g = [s \in Turns(r) |-> LoopBody(r, g, s)]
    <2>1. g = [s \in Turns(r) |-> g[s]]
      OBVIOUS
    <2> HIDE DEF g
    <2> QED  BY <1>6, <2>1
  <1> HIDE DEF g
  <1>8. T = [s \in Turns(r) |-> LoopBody(r, T, s)]
    BY <1>7, Zenon DEF T
  <1>9. HasCircularDependency(r) = T[[keys |-> Node, visited |-> {}]]
    BY Zenon DEF HasCircularDependency, T, Turns, LoopBody, AfterTurn, FirstCall, First
  <1>10. \A s \in Turns(r) : T[s] = LoopBody(r, T, s)
    BY <1>8, Zenon
  <1> QED  BY <1>9, <1>10, Zenon

\* What the loop says of the keys to come: a cycle it finds is one, and a ring of which
\* no search has entered a key is found.
LEMMA LoopSearches ==
    ASSUME NEW r, NEW f, \A s \in Turns(r) : f[s] = LoopBody(r, f, s)
    PROVE  \A s \in Turns(r) :
              /\ f[s] => Cyclic(r)
              /\ \A C : Ring(r, C) /\ C # {} /\ s.visited \cap C = {} /\ Node \ s.keys \subseteq s.visited => f[s]
  <1> DEFINE P(s) == /\ f[s] => Cyclic(r)
                     /\ \A C : Ring(r, C) /\ C # {} /\ s.visited \cap C = {} /\ Node \ s.keys \subseteq s.visited => f[s]
             G == {k \in Nat : \A s \in Turns(r) : Cardinality(s.keys) < k => P(s)}
  <1>1. 0 \in G
    BY FewerKeys
  <1>2. ASSUME NEW s \in Turns(r), s.keys = {} PROVE P(s)
    BY <1>2 DEF LoopBody, Ring
  <1>3. ASSUME NEW s \in Turns(r), s.keys # {}, P(AfterTurn(r, s)) PROVE P(s)
    <2>1. PICK c : c = FirstCall(s)
      OBVIOUS
    <2>2. PICK d : d = Dfs(r)[c]
      OBVIOUS
    <2>3. PICK t : t = AfterTurn(r, s)
      OBVIOUS
    <2>4. f[s] <=> d.found \/ f[t]
      BY <1>3, <2>1, <2>2, <2>3 DEF LoopBody
    <2>5. Searched(r, c, d)
      BY <1>3, <2>1, <2>2, FirstSearches
    <2>6. c.node = First(s) /\ c.visited = s.visited /\ c.recStack = {}
      BY <2>1 DEF FirstCall
    <2>7. t.keys = s.keys \ {First(s)} /\ t.visited = d.visited
      BY <2>1, <2>2, <2>3 DEF AfterTurn
    <2>8. (f[t] => Cyclic(r)) /\ \A C : Ring(r, C) /\ C # {} /\ t.visited \cap C = {} /\ Node \ t.keys \subseteq t.visited => f[t]
      BY <1>3, <2>3
    <2>9. f[s] => Cyclic(r)
      BY <2>4, <2>5, <2>6, <2>8 DEF Searched, Path
    <2>10. ASSUME NEW C, Ring(r, C), C # {}, s.visited \cap C = {}, Node \ s.keys \subseteq s.visited PROVE f[s]
      <3>1. ASSUME ~d.found PROVE f[t]
        <4>1. Inside(c, C)
          BY <2>6, <2>10 DEF Inside
        <4>2. t.visited \cap C = {}
          BY <2>5, <2>7, <2>10, <3>1, <4>1 DEF Searched
        <4>3. Node \ t.keys \subseteq t.visited
          BY <2>5, <2>6, <2>7, <2>10 DEF Searched
        <4> QED  BY <2>8, <2>10, <4>2, <4>3
      <3> QED  BY <2>4, <3>1
    <2> QED  BY <2>9, <2>10
  <1>4. ASSUME NEW k \in Nat, k \in G PROVE k + 1 \in G
    <2> SUFFICES ASSUME NEW s \in Turns(r), Cardinality(s.keys) < k + 1 PROVE P(s)
      OBVIOUS
    <2>1. CASE s.keys # {}
      <3>1. AfterTurn(r, s) \in Turns(r)
        BY <2>1, FirstSearches
      <3>2. Cardinality(s.keys) \in Nat /\ Cardinality(AfterTurn(r, s).keys) = Cardinality(s.keys) - 1
        BY <2>1, FewerKeys
      <3>3. Cardinality(AfterTurn(r, s).keys) < k
        BY <3>2
      <3>4. P(AfterTurn(r, s))
        BY <1>4, <3>1, <3>3
      <3> QED  BY <1>3, <2>1, <3>4
    <2> QED  BY <1>2, <2>1
  <1> HIDE DEF G
  <1>5. Nat \subseteq G
    BY <1>1, <1>4, Induct
  <1> SUFFICES ASSUME NEW s \in Turns(r) PROVE P(s)
    OBVIOUS
  <1>6. Cardinality(s.keys) \in Nat
    BY FewerKeys
  <1>7. Cardinality(s.keys) + 1 \in G /\ Cardinality(s.keys) < Cardinality(s.keys) + 1
    BY <1>5, <1>6
  <1> QED  BY <1>7 DEF G

\* One key in a dependsOn is the neighbour the search goes to.
LEMMA OneParent ==
    ASSUME NEW r, NEW n \in Node, IsFiniteSet(Parents(r, n)), Cardinality(Parents(r, n)) <= 1, Parents(r, n) # {}
    PROVE  \E m : Parents(r, n) = {m} /\ NeighbourIn(r, n) = {m}
  <1>1. PICK m : m \in Parents(r, n)
    OBVIOUS
  <1>2. Cardinality(Parents(r, n)) \in Nat /\ Cardinality(Parents(r, n)) # 0
    BY FS_CardinalityType, FS_EmptySet
  <1>3. Cardinality(Parents(r, n)) = 1
    BY <1>2
  <1>4. Parents(r, n) = {m}
    BY <1>1, <1>3, FS_Singleton
  <1> QED  BY <1>3, <1>4 DEF NeighbourIn, Neighbour

\* The whole check.
LEMMA CycleFound ==
    ASSUME NEW r, \A n \in Node : IsFiniteSet(Parents(r, n))
    PROVE  /\ HasCircularDependency(r) => Cyclic(r)
           /\ Cyclic(r) /\ (\A n \in Node : Cardinality(Parents(r, n)) <= 1) => HasCircularDependency(r)
  <1>1. PICK f : /\ \A s \in Turns(r) : f[s] = LoopBody(r, f, s)
                 /\ HasCircularDependency(r) = f[[keys |-> Node, visited |-> {}]]
    BY LoopDefined
  <1>2. PICK s : s = [keys |-> Node, visited |-> {}]
    OBVIOUS
  <1>3. s \in Turns(r) /\ s.visited = {} /\ s.keys = Node
    BY <1>2 DEF Turns
  <1>4. /\ f[s] => Cyclic(r)
        /\ \A C : Ring(r, C) /\ C # {} /\ s.visited \cap C = {} /\ Node \ s.keys \subseteq s.visited => f[s]
    BY <1>1, <1>3, LoopSearches
  <1>5. HasCircularDependency(r) = f[s]
    BY <1>1, <1>2
  <1>6. ASSUME Cyclic(r), \A n \in Node : Cardinality(Parents(r, n)) <= 1 PROVE f[s]
    <2>1. PICK C \in (SUBSET Node) \ {{}} : \A n \in C : Parents(r, n) \cap C # {}
      BY <1>6 DEF Cyclic
    <2>2. ASSUME NEW n \in C PROVE NeighbourIn(r, n) # {} /\ NeighbourIn(r, n) \subseteq C
      <3>1. PICK m : Parents(r, n) = {m} /\ NeighbourIn(r, n) = {m}
        BY <1>6, <2>1, <2>2, OneParent
      <3> QED  BY <2>1, <2>2, <3>1
    <2>3. Ring(r, C)
      BY <2>1, <2>2 DEF Ring
    <2> QED  BY <1>3, <1>4, <2>1, <2>3
  <1> QED  BY <1>4, <1>5, <1>6

-----------------------------------------------------------------------------
(* Theorems *)

\* A request's place in its code, its loop position, the rows, the dependencies, the recurring
\* jobs and their repetitions, and the payloads staged and sent stay in their domains; only
\* createAndEnqueue() saves a recurring job, and BullMQ repeats no pattern without its row.
THEOREM TypeCorrect == Spec => []TypeOK
  BY Invariance, PTL DEF IInv, Types

\* Whoever left a row QUEUED or SCHEDULED with no payload for it, died or told its client that
\* the job may not run; a batch only if the database threw as well (submitBatch() marks what
\* submitJob() refused FAILED).
THEOREM LimboTold == Spec => []LimboIsTold
  <1>1. IInv => LimboIsTold
    BY DEF IInv, LimboHeld, LimboIsTold, InHand, Told, Ended
  <1> QED  BY <1>1, Invariance, PTL

\* One payload at most per idempotencyKey; and, made from one row, one more than the times a
\* worker or submitBatch() made it FAILED and the retries that read it beside another one.
THEOREM SubmitsOnce == Spec => []SubmittedOnce
  <1>1. IInv => SubmittedOnce
    <2> SUFFICES ASSUME IInv PROVE SubmittedOnce
      OBVIOUS
    <2>1. KeyBuysOne
      <3> SUFFICES ASSUME NEW v \in Row, NEW w \in Row, KeyOf(v) = KeyOf(w), KeyOf(v) # NoKey,
                          Payloads(v) > 0, Payloads(w) > 0
                   PROVE  v = w
        BY DEF KeyBuysOne
      <3>1. Op(v[1]) # "notify" /\ Op(w[1]) # "notify"
        BY DEF KeyOf
      <3> QED  BY <3>1 DEF IInv, RowsOK, KeysUnique
    <2>2. ASSUME NEW w \in Row PROVE Payloads(w) <= 1 + passes[w]
      <3>1. Payloads(w) \in Nat /\ passes[w] \in Nat /\ Cardinality(Retries(w)) \in Nat /\ Ahead(w) \in Nat
        BY Counts DEF IInv
      <3> QED  BY <3>1 DEF IInv, OnceOK
    <2> QED  BY <2>1, <2>2 DEF SubmittedOnce
  <1> QED  BY <1>1, Invariance, PTL

\* Every payload names a saved row, unless it came through the notifications endpoint; no job of
\* a workflow is submitted before createWorkFlow() has saved all its rows and dependencies, and
\* exactly one is when it answers.
THEOREM FlowsWhole == Spec => []FlowWhole
  <1>1. IInv => FlowWhole
    <2> SUFFICES ASSUME IInv PROVE FlowWhole
      OBVIOUS
    <2>1. ASSUME NEW r \in Of("flow") PROVE FlowReady(r) /\ (pc[r] = "ok" => \E n \in Node : Payloads(<<r, n>>) = 1)
      <3>1. FlowOK(r)
        BY DEF Of, IInv, RequestOK
      <3>2. Missing(r) = {} => \A e \in Edges(r) : Dep(r, e) \in deps
        BY DEF Missing
      <3> QED  BY <3>1, <3>2 DEF FlowOK, FlowReady, AllSaved
    <2> QED  BY <2>1 DEF IInv, RowsOK, FlowWhole
  <1> QED  BY <1>1, Invariance, PTL

\* createWorkFlow() refuses no workflow without a cycle, and every one with a cycle in which no
\* job names two parents.
THEOREM CycleCheck == Spec => []CycleCheckExact
  <1>1. IInv => CycleCheckExact
    <2> SUFFICES ASSUME IInv, NEW r \in Of("flow")
                 PROVE  /\ HasCircularDependency(r) => Cyclic(r)
                        /\ Cyclic(r) /\ (\A n \in Node : Cardinality(Parents(r, n)) <= 1) => HasCircularDependency(r)
      BY DEF CycleCheckExact
    <2>1. body \in Scenes /\ r \in Request /\ body[r].op = "flow"
      BY DEF IInv, Types, Of, Op
    <2>2. \A n \in Node : DependsOn(r, n) = NoDeps \/ IsFiniteSet(DependsOn(r, n))
      BY <2>1, SceneAssumption DEF DependsOn
    <2>3. \A n \in Node : IsFiniteSet(Parents(r, n))
      BY <2>2, FS_EmptySet DEF Parents
    <2> QED  BY <2>3, CycleFound
  <1> QED  BY <1>1, Invariance, PTL
===============================================================================
