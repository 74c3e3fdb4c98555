--------------------------- MODULE WorkflowProofs ---------------------------
(***************************************************************************)
(* What Workflow keeps for every set of shapes, cyclic ones included, every *)
(* number of jobs, of attempts, of stray runs and of faults.  Whatever      *)
(* happens, no job is touched before its parents have run (OnlyAfter), and  *)
(* each job that BullMQ never had cost a fault (LostCounted).  While no     *)
(* task is taken from its run, one token is handed over (IInv); what the    *)
(* jobs that ran leave behind outlasts the first crash (Aftermath).         *)
(***************************************************************************)
EXTENDS Workflow, SequenceTheorems, FiniteSetTheorems, TLAPS

-----------------------------------------------------------------------------
(* The inductive invariant *)

\* A task that is not over has an attempt left.
Bounds ==
    \A t \in Task : (pc[t] # "done" => made[t] < MaxAttempts) /\ (pc[t] = "none" => made[t] = 0)

\* An actor that is to write a row has it; a stray run was one of a task that BullMQ knows.
Hands ==
    /\ \A a \in Actor : pc[a] \in {"check", "ready", "claim", "submit"} => cand[a] \in Job
    /\ \A s \in Stray : pc[s] # "none" => lost[s] \in Job /\ pc[lost[s]] # "none"
    /\ spent["lock"] = 0 => \A s \in Stray : pc[s] = "none"

\* An actor that may still write a row or submit a job.  A task in "throw" comes back
\* unless the attempt was its last.
Live(a) ==
    /\ pc[a] \notin {"none", "return", "done"}
    /\ pc[a] = "throw" => a \in Task /\ ~IsLastAttempt(a)

\* The row of the actor's own job after a failed attempt.
FailedRow(t) ==
    t \in Task /\ status[t] \in (IF IsLastAttempt(t) THEN {"FAILED"} ELSE Active)

\* What an actor that is live knows of the rows at its place in the code.
Place(a) ==
    /\ pc[a] \in {"waiting", "begin", "work", "catch"} => a \in Task /\ status[a] \in Active
    /\ pc[a] \in {"unlock", "check", "ready"} =>
          a \in Task /\ status[a] = "COMPLETED" /\ then[a] = "return"
    /\ pc[a] \in {"check", "ready"} => cand[a] \in Job /\ status[cand[a]] = "WAITING"
    /\ pc[a] = "ready" => RemainingDeps(cand[a]) = {}
    /\ pc[a] = "skip" => then[a] = "throw" /\ todo[a] \subseteq Children(a)
    /\ pc[a] \in {"skip", "throw"} => FailedRow(a)
    /\ pc[a] = "count" /\ then[a] = "throw" => FailedRow(a)
    /\ pc[a] = "count" /\ then[a] # "throw" => a \notin Task \/ status[a] = "COMPLETED"
    /\ pc[a] \in {"pick", "walk", "claim", "submit"} /\ then[a] = "throw" =>
          a \in Task /\ IsLastAttempt(a)
    /\ pc[a] = "walk" => snap[a] = status
    /\ pc[a] = "claim" => cand[a] \in Job /\ status[cand[a]] = "READY"
    /\ pc[a] = "submit" => cand[a] \in Job /\ status[cand[a]] = "QUEUED"

\* The job that a live actor may leave active: its own, or the one it has claimed.
Holds(a, j) ==
    \/ j = a /\ pc[a] \in {"waiting", "begin", "work", "catch", "skip", "count", "throw"}
    \/ j = cand[a] /\ pc[a] = "submit"

\* There is one token: the actor that has it is the only live one, and no job is active
\* but the one it holds.
Token ==
    \A a \in Actor : Live(a) =>
        /\ \A b \in Actor : Live(b) => b = a
        /\ \A j \in Job : status[j] \in Active => Holds(a, j)
        /\ Place(a)

Single == \A i, j \in Job : status[i] \in Active /\ status[j] \in Active => i = j

Ordered == \A j \in Job : Started(j) => \A p \in wf.parents[j] : status[p] = "COMPLETED"

\* A job has a BullMQ task only once it was queued, so that the job a scheduler submits is
\* new to BullMQ.
Fresh == \A t \in Task : pc[t] # "none" => status[t] \in {"QUEUED", "PROCESSING", "COMPLETED", "FAILED"}

Submits == \A a \in Actor : pc[a] = "submit" => pc[cand[a]] = "none"

Handover == Fresh /\ Submits

\* No task was taken from its run, and none failed after it had scheduled the next job.
Orderly == Unspent({"crash", "late", "lock"})

IInv ==
    /\ TypeOK
    /\ Bounds
    /\ Hands
    /\ Orderly => Token /\ Single /\ Ordered /\ Handover

-----------------------------------------------------------------------------
(* Types *)

LEMMA ShapeTyped == TypeOK => wf.parents \in [Job -> SUBSET Job]
BY DEF TypeOK, Shape

\* Taking siblings off the walk's stack, or putting a level on it, leaves a stack.
LEMMA StackStep ==
    ASSUME NEW s \in Seq(SUBSET Job), s # << >>, NEW j
    PROVE  /\ Head(s) \in SUBSET Job
           /\ Tail(s) \in Seq(SUBSET Job)
           /\ <<Head(s) \ {j}>> \o Tail(s) \in Seq(SUBSET Job)
           /\ \A c \in SUBSET Job : <<c>> \o (<<Head(s) \ {j}>> \o Tail(s)) \in Seq(SUBSET Job)
<1>1. Head(s) \in SUBSET Job /\ Tail(s) \in Seq(SUBSET Job)
    BY HeadTailProperties
<1>2. <<Head(s) \ {j}>> \in Seq(SUBSET Job)
    BY <1>1
<1>3. <<Head(s) \ {j}>> \o Tail(s) \in Seq(SUBSET Job)
    BY <1>1, <1>2, ConcatProperties
<1>4. \A c \in SUBSET Job : <<c>> \in Seq(SUBSET Job)
    OBVIOUS
<1> QED  BY <1>1, <1>3, <1>4, ConcatProperties

LEMMA TypeInit == Init => TypeOK /\ Bounds /\ Hands
<1> SUFFICES ASSUME Init PROVE TypeOK /\ Bounds /\ Hands
    OBVIOUS
<1>1. wf \in Shape
    BY ShapeAssumption DEF Init
<1>2. status \in [Job -> Status]
    BY DEF Init, Status
<1>3. stack \in [Actor -> Seq(SUBSET Job)]
    <2>1. << >> \in Seq(SUBSET Job)
        OBVIOUS
    <2> QED  BY <2>1 DEF Init
<1>4. spent \in [FaultKind -> Nat]
    BY DEF Init
<1>5. made \in [Task \cup Stray -> 0 .. MaxAttempts] /\ \A t \in Task : made[t] = 0
    BY BoundAssumption DEF Init
<1>6. pc \in [Actor -> PC] /\ then \in [Actor -> {"return", "throw", "done"}]
    BY DEF Init, PC
<1>7. todo \in [Actor -> SUBSET Job] /\ cand \in [Actor -> Job \cup {0}]
    BY DEF Init
<1>8. snap \in [Actor -> [Job -> Status] \cup {<< >>}]
    BY DEF Init
<1>9. lost \in [Stray -> Job \cup {0}] /\ stalled \subseteq Task /\ ran \subseteq Job
    BY DEF Init
<1>10. Bounds
    BY <1>5, BoundAssumption DEF Bounds
<1>11. Hands
    BY ActorAssumption DEF Hands, Init, Actor
<1> QED  BY <1>1, <1>2, <1>3, <1>4, <1>5, <1>6, <1>7, <1>8, <1>9, <1>10, <1>11 DEF TypeOK

\* An actor goes to the place q.
LEMMA Moves ==
    ASSUME TypeOK, Bounds, NEW a \in Actor, NEW q \in PC \ {"none"}, pc[a] # "done",
           pc' = [pc EXCEPT ![a] = q], made' = made
    PROVE  pc' \in [Actor -> PC] /\ Bounds'
<1>1. pc \in [Actor -> PC]
    BY DEF TypeOK
<1>2. pc' \in [Actor -> PC] /\ \A b \in Actor : pc'[b] = IF b = a THEN q ELSE pc[b]
    BY <1>1
<1>3. Task \subseteq Actor
    BY DEF Actor
<1>4. \A t \in Task : /\ pc'[t] # "done" => pc[t] # "done"
                      /\ pc'[t] = "none" => pc[t] = "none"
    BY <1>2, <1>3
<1> QED  BY <1>2, <1>4 DEF Bounds

LEMMA FindChildTypes ==
    ASSUME TypeOK, Bounds, NEW a \in Actor, FindChild(a)
    PROVE  TypeOK' /\ Bounds'
<1>2. PICK q \in {"check", "unlock", "count"} : pc' = [pc EXCEPT ![a] = q]
    BY DEF FindChild, Go
<1>3. pc[a] = "unlock" /\ UNCHANGED <<wf, status, made, then, snap, stack, past, spent>>
    BY DEF FindChild, Go, locals
<1>4. pc' \in [Actor -> PC] /\ Bounds'
    BY <1>2, <1>3, Moves DEF PC
<1>5. todo' \in [Actor -> SUBSET Job] /\ cand' \in [Actor -> Job \cup {0}]
    <2>1. todo \in [Actor -> SUBSET Job] /\ cand \in [Actor -> Job \cup {0}]
        BY DEF TypeOK
    <2>2. CASE UNCHANGED <<todo, cand>>
        BY <2>1, <2>2
    <2>3. CASE \E c \in todo[a] : todo' = [todo EXCEPT ![a] = @ \ {c}]
                                   /\ cand' = [cand EXCEPT ![a] = c]
        BY <2>1, <2>3
    <2> QED  BY <2>2, <2>3 DEF FindChild, locals
<1> QED  BY <1>3, <1>4, <1>5 DEF TypeOK, past

\* A run of a job, of a task or a stray one.
LEMMA RunTypes ==
    ASSUME TypeOK, Bounds, NEW a \in Task \cup Stray, NEW j \in Job, RunStep(a, j)
    PROVE  TypeOK' /\ Bounds'
<1> USE DEF TypeOK, Bounds, locals, past
<1>0. a \in Actor /\ Task = Job /\ Task \subseteq Actor
    BY DEF Task, Actor
<1>2. CASE Begin(a, j)
    BY <1>0, <1>2 DEF Begin, Go, PC, Status
<1>3. CASE Succeed(a, j)
    BY <1>0, <1>3 DEF Succeed, Go, PC, Status, SetStatus, Children
<1>4. CASE Fail(a)
    BY <1>0, <1>4 DEF Fail, Go, PC
<1>5. CASE Catch(a, j)
    BY <1>0, <1>5 DEF Catch, Go, PC, Status, Children
<1>7. CASE FindChild(a)
    BY <1>0, <1>7, FindChildTypes
<1>8. CASE CountRemaining(a)
    BY <1>0, <1>8 DEF CountRemaining, Go, PC
<1>9. CASE SetReady(a)
    BY <1>0, <1>9 DEF SetReady, Go, PC, Status, SetStatus
<1>10. CASE SkipChild(a)
    <2>1. CASE todo[a] = {} /\ Go(a, "skip", "count")
                    /\ UNCHANGED <<wf, status, made, locals, past, spent>>
        BY <1>0, <2>1 DEF Go, PC
    <2>2. CASE \E c \in todo[a] :
                    /\ todo' = [todo EXCEPT ![a] = @ \ {c}]
                    /\ status' \in {[status EXCEPT ![c] = "SKIPPED"], status}
                    /\ UNCHANGED <<wf, pc, made, then, cand, snap, stack, past, spent>>
        <3>1. PICK c \in Job : /\ todo' = [todo EXCEPT ![a] = @ \ {c}]
                               /\ status' \in {[status EXCEPT ![c] = "SKIPPED"], status}
                               /\ UNCHANGED <<wf, pc, made, then, cand, snap, stack, past, spent>>
            BY <1>0, <2>2
        <3>2. status' \in [Job -> Status] /\ todo' \in [Actor -> SUBSET Job]
            BY <1>0, <3>1 DEF Status
        <3> QED  BY <3>1, <3>2
    <2> QED  BY <1>10, <2>1, <2>2 DEF SkipChild
<1> QED  BY <1>2, <1>3, <1>4, <1>5, <1>7, <1>8, <1>9, <1>10 DEF RunStep

LEMMA TaskTypes ==
    ASSUME TypeOK, Bounds, NEW t \in Task, TaskStep(t)
    PROVE  TypeOK' /\ Bounds'
<1> USE DEF TypeOK, Bounds, locals, past
<1>0. t \in Actor /\ t \in Job /\ Task = Job /\ Task \subseteq Actor
    BY DEF Task, Actor
<1>1. CASE RunStep(t, t)
    BY <1>0, <1>1, RunTypes
<1>2. CASE FindJob(t)
    BY <1>0, <1>2 DEF FindJob, Go, PC
<1>5. CASE Return(t)
    BY <1>0, <1>5 DEF Return, Go, PC
<1>6. CASE Throw(t)
    <2>1. pc[t] = "throw" /\ made[t] < MaxAttempts /\ made[t] \in Nat
        BY <1>0, <1>6, BoundAssumption DEF Throw, Go
    <2>2. made' = [made EXCEPT ![t] = made[t] + 1] /\ made[t] + 1 \in 0 .. MaxAttempts
        BY <2>1, <1>6, BoundAssumption DEF Throw
    <2>3. pc' = [pc EXCEPT ![t] = IF IsLastAttempt(t) THEN "done" ELSE "waiting"]
        BY <1>6 DEF Throw, Go
    <2>4. pc' \in [Actor -> PC] /\ made' \in [Task \cup Stray -> 0 .. MaxAttempts]
        BY <1>0, <2>2, <2>3 DEF PC
    <2>5. pc'[t] # "done" => made'[t] < MaxAttempts
        BY <1>0, <2>1, <2>2, <2>3, BoundAssumption DEF IsLastAttempt
    <2>6. \A u \in Task : (pc'[u] # "done" => made'[u] < MaxAttempts)
                          /\ (pc'[u] = "none" => made'[u] = 0)
        BY <1>0, <2>2, <2>3, <2>5
    <2> QED  BY <1>6, <2>4, <2>6 DEF Throw
<1> QED  BY <1>1, <1>2, <1>5, <1>6 DEF TaskStep

LEMMA StrayTypes ==
    ASSUME TypeOK, Bounds, Hands, NEW s \in Stray, StrayStep(s)
    PROVE  TypeOK' /\ Bounds'
<1>1. s \in Actor
    BY DEF Actor
<1>2. CASE RunStep(s, lost[s])
    <2>1. pc[s] # "none"
        BY <1>2 DEF RunStep, Begin, Succeed, Fail, Catch, FindChild, CountRemaining, SetReady,
                    SkipChild, Go
    <2> QED  BY <1>2, <2>1, RunTypes DEF Hands
<1>3. CASE Refuse(s)
    <2>1. pc[s] \in {"return", "throw"} /\ pc' = [pc EXCEPT ![s] = "done"]
          /\ UNCHANGED <<wf, status, made, locals, past, spent>>
        BY <1>3 DEF Refuse, Go
    <2>2. pc' \in [Actor -> PC] /\ Bounds'
        BY <1>1, <2>1, Moves DEF PC
    <2> QED  BY <2>1, <2>2 DEF TypeOK, locals, past
<1> QED  BY <1>2, <1>3 DEF StrayStep

\* A fault is counted, and nothing else is.
LEMMA Counted ==
    ASSUME TypeOK, NEW f \in FaultKind, Spend(f)
    PROVE  /\ spent' \in [FaultKind -> Nat] /\ spent'[f] = spent[f] + 1
           /\ \A g \in FaultKind \ {f} : spent'[g] = spent[g]
BY DEF Spend, TypeOK

\* The scheduler ends, and submits its candidate unless submitJob() throws.
LEMMA SubmitTypes ==
    ASSUME TypeOK, Bounds, NEW a \in Actor, Submit(a) \/ SubmitThrows(a)
    PROVE  TypeOK' /\ Bounds'
<1>1. /\ pc[a] = "submit" /\ cand' = [cand EXCEPT ![a] = 0]
      /\ UNCHANGED <<wf, status, made, then, todo, snap, stack, past>>
    BY DEF Submit, SubmitThrows, Go
<1>2. cand' \in [Actor -> Job \cup {0}]
    BY <1>1 DEF TypeOK
<1>3. spent' \in [FaultKind -> Nat]
    BY Counted DEF Submit, SubmitThrows, FaultKind, TypeOK
<1>5. then[a] \in {"return", "throw", "done"} /\ pc \in [Actor -> PC] /\ Task \subseteq Actor
    BY DEF TypeOK, Actor
<1>6. /\ pc' \in [Actor -> PC]
      /\ \A b \in Actor : pc'[b] = pc[b] \/ (b = a /\ pc'[b] # "none")
                          \/ (pc[b] = "none" /\ pc'[b] = "waiting")
    <2>1. CASE Submit(a)
        <3>1. pc' = [pc EXCEPT ![a] = then[a],
                               ![cand[a]] = IF @ = "none" THEN "waiting" ELSE @]
            BY <2>1 DEF Submit, SubmittedTask
        <3>2. pc' \in [Actor -> PC]
            BY <1>5, <3>1 DEF PC
        <3>3. CASE cand[a] \in Actor
            BY <1>5, <3>1, <3>2, <3>3
        <3>4. CASE cand[a] \notin Actor
            BY <1>5, <3>1, <3>2, <3>4
        <3> QED  BY <3>3, <3>4
    <2>2. CASE SubmitThrows(a)
        <3>1. pc' = [pc EXCEPT ![a] = then[a]]
            BY <2>2 DEF SubmitThrows, Go
        <3> QED  BY <1>5, <3>1 DEF PC
    <2> QED  BY <2>1, <2>2
<1>7. Bounds'
    BY <1>1, <1>5, <1>6 DEF Bounds
<1> QED  BY <1>1, <1>2, <1>3, <1>6, <1>7 DEF TypeOK, past

LEMMA ScheduleTypes ==
    ASSUME TypeOK, Bounds, NEW a \in Actor, ScheduleStep(a)
    PROVE  TypeOK' /\ Bounds'
<1> USE DEF TypeOK, Bounds, past
<1>0. Task = Job /\ Task \subseteq Actor
    BY DEF Task, Actor
<1>1. CASE CountActive(a)
    BY <1>0, <1>1 DEF CountActive, Go, PC, locals
<1>2. CASE LoadRoots(a)
    <2>1. <<Roots>> \in Seq(SUBSET Job)
        BY DEF Roots
    <2> QED  BY <1>0, <1>2, <2>1 DEF LoadRoots, Go, PC
<1>3. CASE WalkFound(a)
    <2>1. << >> \in Seq(SUBSET Job)
        OBVIOUS
    <2> QED  BY <1>0, <1>3, <2>1 DEF WalkFound, Visits, PC
<1>4. CASE WalkBlocked(a)
    BY <1>0, <1>4, StackStep DEF WalkBlocked, Visits
<1>5. CASE WalkDown(a)
    <2>1. \A j \in Job : Children(j) \in SUBSET Job
        BY DEF Children
    <2> QED  BY <1>0, <1>5, <2>1, StackStep DEF WalkDown, Visits, Rest
<1>6. CASE WalkPast(a)
    BY <1>0, <1>6, StackStep DEF WalkPast, Visits, Rest
<1>7. CASE WalkUp(a)
    <2>1. CASE stack[a] # << >> /\ pc' = pc /\ snap' = snap
                    /\ stack' = [stack EXCEPT ![a] = Tail(@)]
        BY <1>0, <1>7, <2>1, StackStep DEF WalkUp
    <2>2. CASE pc' = [pc EXCEPT ![a] = then[a]] /\ snap' = [snap EXCEPT ![a] = << >>]
                    /\ stack' = stack
        BY <1>0, <1>7, <2>2 DEF WalkUp, PC
    <2> QED  BY <1>7, <2>1, <2>2 DEF WalkUp
<1>8. CASE Claim(a)
    BY <1>0, <1>8 DEF Claim, Go, PC, Status, SetStatus, locals
<1>9. CASE Submit(a)
    BY <1>9, SubmitTypes
<1> QED  BY <1>1, <1>2, <1>3, <1>4, <1>5, <1>6, <1>7, <1>8, <1>9 DEF ScheduleStep

LEMMA FaultTypes ==
    ASSUME TypeOK, Bounds, NEW a \in Actor, Fault(a)
    PROVE  TypeOK' /\ Bounds'
<1>0. Task = Job /\ Task \subseteq Actor /\ Stray \subseteq Actor /\ << >> \in Seq(SUBSET Job)
    BY DEF Task, Actor
<1>1. CASE SubmitThrows(a)
    BY <1>1, SubmitTypes
<1>2. spent' \in [FaultKind -> Nat]
    BY Counted DEF Fault, SubmitThrows, Errors, ThrowLate, Crash, LoseLock, FaultKind
<1>3. CASE Errors(a)
    <2>1. PICK q \in {"return", "throw", "done"} : pc' = [pc EXCEPT ![a] = q]
        BY <1>3 DEF Errors, Go, TypeOK
    <2>2. pc[a] # "done" /\ UNCHANGED <<wf, status, made, then, past>> /\ Drop(a)
        BY <1>3 DEF Errors
    <2>3. pc' \in [Actor -> PC] /\ Bounds'
        BY <2>1, <2>2, Moves DEF PC
    <2> QED  BY <1>0, <1>2, <2>2, <2>3 DEF TypeOK, Drop, past
<1>4. CASE ThrowLate(a)
    <2>1. /\ pc[a] = "return" /\ pc' = [pc EXCEPT ![a] = "catch"]
          /\ UNCHANGED <<wf, status, made, locals, past>>
        BY <1>4 DEF ThrowLate, Go
    <2>2. pc' \in [Actor -> PC] /\ Bounds'
        BY <2>1, Moves DEF PC
    <2> QED  BY <1>2, <2>1, <2>2 DEF TypeOK, locals, past
<1>5. CASE Crash(a)
    <2>1. PICK q \in {"waiting", "done"} : pc' = [pc EXCEPT ![a] = q]
        BY <1>5 DEF Crash, TakenBack
    <2>2. pc[a] # "done" /\ UNCHANGED <<wf, status, made, then, lost, ran>> /\ Drop(a)
          /\ stalled' = stalled \cup ({a} \cap Task)
        BY <1>5 DEF Crash
    <2>3. pc' \in [Actor -> PC] /\ Bounds'
        BY <2>1, <2>2, Moves DEF PC
    <2> QED  BY <1>0, <1>2, <2>2, <2>3 DEF TypeOK, Drop
<1>6. ASSUME a \in Task, NEW s \in Stray, LoseLock(a, s) PROVE TypeOK' /\ Bounds'
    <2>1. /\ pc[a] \notin {"none", "waiting", "done"} /\ s # a /\ s \notin Task
          /\ UNCHANGED <<wf, status, ran>>
        BY <1>6, ActorAssumption DEF LoseLock, Task
    <2>2. PICK q \in {"waiting", "done"} : pc' = [pc EXCEPT ![a] = q, ![s] = pc[a]]
        BY <1>6 DEF LoseLock, TakenBack
    <2>3. pc' \in [Actor -> PC]
        BY <1>0, <1>6, <2>2 DEF TypeOK, PC
    <2>4. Bounds'
        <3>1. \A t \in Task : made'[t] = made[t]
            BY <1>6, <2>1 DEF LoseLock, TypeOK
        <3>2. \A t \in Task : /\ pc'[t] # "done" => pc[t] # "done"
                              /\ pc'[t] = "none" => pc[t] = "none"
            BY <1>0, <2>1, <2>2 DEF TypeOK
        <3> QED  BY <3>1, <3>2 DEF Bounds
    <2>5. made' \in [Task \cup Stray -> 0 .. MaxAttempts] /\ lost' \in [Stray -> Job \cup {0}]
        BY <1>0, <1>6 DEF LoseLock, TypeOK
    <2>6. then' \in [Actor -> {"return", "throw", "done"}] /\ todo' \in [Actor -> SUBSET Job]
        BY <1>0, <1>6 DEF LoseLock, TypeOK
    <2>7. cand' \in [Actor -> Job \cup {0}] /\ snap' \in [Actor -> [Job -> Status] \cup {<< >>}]
        BY <1>0, <1>6 DEF LoseLock, TypeOK
    <2>8. stack' \in [Actor -> Seq(SUBSET Job)] /\ stalled' \subseteq Task
        BY <1>0, <1>6 DEF LoseLock, TypeOK
    <2> QED  BY <1>2, <2>1, <2>3, <2>4, <2>5, <2>6, <2>7, <2>8 DEF TypeOK
<1> QED  BY <1>1, <1>3, <1>4, <1>5, <1>6 DEF Fault

LEMMA TypeStep == TypeOK /\ Bounds /\ Hands /\ [Next]_vars => TypeOK' /\ Bounds'
<1>1. CASE UNCHANGED vars
    BY <1>1 DEF TypeOK, Bounds, vars, locals, past
<1> QED  BY <1>1, TaskTypes, StrayTypes, ScheduleTypes, FaultTypes DEF Next

-----------------------------------------------------------------------------
(* The token: who has it may write, and nobody else *)

Core == TypeOK /\ Bounds /\ Hands /\ Token /\ Single /\ Ordered

\* Mutual exclusion survives a step in which one live actor moves.
LEMMA OneMoves ==
    ASSUME Token, NEW a \in Actor, Live(a),
           \A b \in Actor \ {a} : pc'[b] = pc[b],
           \A t \in Task \ {a} : made'[t] = made[t],
           Live(a)' => /\ \A j \in Job : status'[j] \in Active => Holds(a, j)'
                       /\ Place(a)'
    PROVE  Token'
<1>1. \A b \in Actor \ {a} : ~Live(b)
    BY DEF Token
<1>2. \A b \in Actor \ {a} : ~Live(b)'
    BY <1>1 DEF Live, IsLastAttempt
<1> QED  BY <1>2 DEF Token

\* A step that writes no row leaves the order and the single active job alone.
LEMMA RowsKept ==
    ASSUME Single, Ordered, UNCHANGED <<wf, status>>
    PROVE  Single' /\ Ordered'
BY DEF Single, Ordered, Started

\* What the token tells of the actor that has it.
LEMMA TokenFacts ==
    ASSUME Core, NEW a \in Actor, Live(a)
    PROVE  /\ Place(a)
           /\ \A j \in Job : status[j] \in Active => Holds(a, j)
           /\ \A b \in Actor : Live(b) => b = a
BY DEF Core, Token

LEMMA FindJobStep ==
    ASSUME Core, NEW t \in Task, FindJob(t) PROVE (Token /\ Single /\ Ordered)'
<1>0. t \in Actor /\ pc[t] = "waiting" /\ Live(t) /\ UNCHANGED <<wf, status, made>>
    BY DEF FindJob, Go, Live, Task, Actor
<1>1. Place(t) /\ \A j \in Job : status[j] \in Active => Holds(t, j)
    BY <1>0, TokenFacts
<1>2. pc' = [pc EXCEPT ![t] = "begin"]
    BY <1>0, <1>1 DEF FindJob, Go, Place, Active
<1>3. pc'[t] = "begin" /\ \A b \in Actor \ {t} : pc'[b] = pc[b]
    BY <1>0, <1>2 DEF Core, TypeOK
<1>4. Place(t)'
    BY <1>0, <1>1, <1>3 DEF Place
<1>5. \A j \in Job : status'[j] \in Active => Holds(t, j)'
    BY <1>0, <1>1, <1>3 DEF Holds
<1> QED  BY <1>0, <1>3, <1>4, <1>5, OneMoves, RowsKept DEF Core

LEMMA BeginStep ==
    ASSUME Core, NEW t \in Task, Begin(t, t) PROVE (Token /\ Single /\ Ordered)'
<1>0. t \in Actor /\ t \in Job /\ pc[t] = "begin" /\ Live(t) /\ UNCHANGED <<wf, made>>
    BY DEF Begin, Go, Live, Task, Actor
<1>1. Place(t) /\ \A j \in Job : status[j] \in Active => Holds(t, j)
    BY <1>0, TokenFacts
<1>2. pc'[t] = "work" /\ \A b \in Actor \ {t} : pc'[b] = pc[b]
    BY <1>0 DEF Begin, Go, Core, TypeOK
<1>3. status[t] \in Active
    BY <1>0, <1>1 DEF Place
<1>4. status'[t] \in Active /\ \A j \in Job \ {t} : status'[j] = status[j]
    BY <1>0, <1>3 DEF Begin, Core, TypeOK, Active
<1>5. \A j \in Job : status'[j] \in Active => j = t
    BY <1>0, <1>1, <1>4 DEF Holds
<1>6. Place(t)' /\ \A j \in Job : status'[j] \in Active => Holds(t, j)'
    BY <1>0, <1>2, <1>4, <1>5 DEF Place, Holds
<1>7. Ordered'
    BY <1>0, <1>3, <1>4, ShapeTyped DEF Core, Ordered, Started, Active
<1>8. Single'
    BY <1>5 DEF Single
<1> QED  BY <1>0, <1>2, <1>6, <1>7, <1>8, OneMoves DEF Core

LEMMA SucceedStep ==
    ASSUME Core, NEW t \in Task, Succeed(t, t) PROVE (Token /\ Single /\ Ordered)'
<1>0. t \in Actor /\ t \in Job /\ pc[t] = "work" /\ Live(t) /\ UNCHANGED <<wf, made>>
    BY DEF Succeed, Go, Live, Task, Actor
<1>1. Place(t) /\ \A j \in Job : status[j] \in Active => Holds(t, j)
    BY <1>0, TokenFacts
<1>2. /\ pc'[t] = "unlock" /\ \A b \in Actor \ {t} : pc'[b] = pc[b]
      /\ then'[t] = "return"
    BY <1>0 DEF Succeed, Go, Core, TypeOK
<1>3. status[t] \in Active
    BY <1>0, <1>1 DEF Place
<1>4. status'[t] = "COMPLETED" /\ \A j \in Job \ {t} : status'[j] = status[j]
    BY <1>0 DEF Succeed, SetStatus, Core, TypeOK
<1>5. \A j \in Job : status'[j] \notin Active
    BY <1>0, <1>1, <1>4 DEF Holds, Active
<1>6. Place(t)'
    BY <1>0, <1>2, <1>4 DEF Place
<1>7. Ordered'
    BY <1>0, <1>3, <1>4, ShapeTyped DEF Core, Ordered, Started, Active
<1>8. Single'
    BY <1>5 DEF Single
<1> QED  BY <1>0, <1>2, <1>5, <1>6, <1>7, <1>8, OneMoves DEF Core

LEMMA FailStep ==
    ASSUME Core, NEW t \in Task, Fail(t) PROVE (Token /\ Single /\ Ordered)'
<1>0. t \in Actor /\ pc[t] = "work" /\ Live(t) /\ UNCHANGED <<wf, status, made>>
    BY DEF Fail, Go, Live, Task, Actor
<1>1. Place(t) /\ \A j \in Job : status[j] \in Active => Holds(t, j)
    BY <1>0, TokenFacts
<1>2. pc'[t] = "catch" /\ \A b \in Actor \ {t} : pc'[b] = pc[b]
    BY <1>0 DEF Fail, Go, Core, TypeOK
<1>3. Place(t)' /\ \A j \in Job : status'[j] \in Active => Holds(t, j)'
    BY <1>0, <1>1, <1>2 DEF Place, Holds
<1> QED  BY <1>0, <1>2, <1>3, OneMoves, RowsKept DEF Core

LEMMA CatchStep ==
    ASSUME Core, NEW t \in Task, Catch(t, t) PROVE (Token /\ Single /\ Ordered)'
<1>0. t \in Actor /\ t \in Job /\ pc[t] = "catch" /\ Live(t) /\ UNCHANGED <<wf, made>>
    BY DEF Catch, Go, Live, Task, Actor
<1>1. Place(t) /\ \A j \in Job : status[j] \in Active => Holds(t, j)
    BY <1>0, TokenFacts
<1>2. /\ pc'[t] = "skip" /\ \A b \in Actor \ {t} : pc'[b] = pc[b]
      /\ then'[t] = "throw" /\ todo'[t] = Children(t)
    BY <1>0 DEF Catch, Go, Core, TypeOK
<1>3. status[t] \in Active
    BY <1>0, <1>1 DEF Place
<1>4. /\ status'[t] = IF IsLastAttempt(t) THEN "FAILED" ELSE status[t]
      /\ \A j \in Job \ {t} : status'[j] = status[j]
    BY <1>0, <1>3 DEF Catch, Core, TypeOK
<1>5. \A j \in Job : status'[j] \in Active => j = t
    BY <1>0, <1>1, <1>4 DEF Holds
<1>6. Place(t)' /\ \A j \in Job : status'[j] \in Active => Holds(t, j)'
    <2>1. FailedRow(t)'
        BY <1>0, <1>3, <1>4 DEF FailedRow, IsLastAttempt
    <2> QED  BY <1>0, <1>2, <1>5, <2>1 DEF Place, Holds, Children
<1>7. Ordered'
    BY <1>0, <1>3, <1>4, ShapeTyped DEF Core, Ordered, Started, Active
<1>8. Single'
    BY <1>5 DEF Single
<1> QED  BY <1>0, <1>2, <1>6, <1>7, <1>8, OneMoves DEF Core

LEMMA ReturnStep ==
    ASSUME Core, NEW t \in Task, Return(t) PROVE (Token /\ Single /\ Ordered)'
<1>0. t \in Actor /\ pc[t] = "return" /\ pc' = [pc EXCEPT ![t] = "done"]
      /\ UNCHANGED <<wf, status, made, locals>>
    BY DEF Return, Go, Task, Actor
<1>1. \A b \in Actor : Live(b)' => b # t /\ Live(b)
    BY <1>0 DEF Live, IsLastAttempt, Core, TypeOK
<1>2. \A b \in Actor \ {t} : pc'[b] = pc[b]
    BY <1>0 DEF Core, TypeOK
<1>3. \A b \in Actor \ {t} : Place(b) => Place(b)'
    BY <1>0, <1>2 DEF Place, FailedRow, IsLastAttempt, RemainingDeps, Children, locals
<1>4. \A b \in Actor \ {t}, j \in Job : Holds(b, j) => Holds(b, j)'
    BY <1>0, <1>2 DEF Holds, locals
<1>5. Token'
    BY <1>0, <1>1, <1>3, <1>4 DEF Token, Core
<1> QED  BY <1>0, <1>5, RowsKept DEF Core

LEMMA ThrowStep ==
    ASSUME Core, NEW t \in Task, Throw(t) PROVE (Token /\ Single /\ Ordered)'
<1>0. t \in Actor /\ t \in Job /\ pc[t] = "throw" /\ UNCHANGED <<wf, status, locals>>
    BY DEF Throw, Go, Task, Actor
<1>1. /\ pc'[t] = (IF IsLastAttempt(t) THEN "done" ELSE "waiting")
      /\ \A b \in Actor \ {t} : pc'[b] = pc[b]
      /\ \A u \in Task \ {t} : made'[u] = made[u]
      /\ made'[t] = made[t] + 1 /\ made[t] \in Nat
    BY <1>0, BoundAssumption DEF Throw, Go, Core, TypeOK
<1>2. Token'
    <2>1. CASE IsLastAttempt(t)
        <3>1. \A b \in Actor : Live(b)' => b # t /\ Live(b)
            BY <1>0, <1>1, <2>1 DEF Live, IsLastAttempt
        <3>2. \A b \in Actor \ {t} : Place(b) => Place(b)'
            BY <1>0, <1>1 DEF Place, FailedRow, IsLastAttempt, RemainingDeps, Children, locals
        <3>3. \A b \in Actor \ {t}, j \in Job : Holds(b, j) => Holds(b, j)'
            BY <1>0, <1>1 DEF Holds, locals
        <3> QED  BY <1>0, <3>1, <3>2, <3>3 DEF Token, Core
    <2>2. CASE ~IsLastAttempt(t)
        <3>1. Live(t)
            BY <1>0, <2>2 DEF Live
        <3>2. Place(t) /\ \A j \in Job : status[j] \in Active => Holds(t, j)
            BY <1>0, <3>1, TokenFacts
        <3>3. status[t] \in Active
            BY <1>0, <2>2, <3>2 DEF Place, FailedRow
        <3>4. Place(t)' /\ \A j \in Job : status'[j] \in Active => Holds(t, j)'
            BY <1>0, <1>1, <2>2, <3>2, <3>3 DEF Place, Holds
        <3> QED  BY <1>0, <1>1, <3>1, <3>4, OneMoves DEF Core
    <2> QED  BY <2>1, <2>2
<1> QED  BY <1>0, <1>2, RowsKept DEF Core

LEMMA FindChildStep ==
    ASSUME Core, NEW t \in Task, FindChild(t) PROVE (Token /\ Single /\ Ordered)'
<1>0. /\ t \in Actor /\ t \in Job /\ pc[t] = "unlock" /\ Live(t)
      /\ UNCHANGED <<wf, status, made, then>>
    BY DEF FindChild, Go, Live, Task, Actor, locals
<1>1. Place(t) /\ \A j \in Job : status[j] \in Active => Holds(t, j)
    BY <1>0, TokenFacts
<1>2. status[t] = "COMPLETED" /\ then[t] = "return"
    BY <1>0, <1>1 DEF Place
<1>3. \A j \in Job : status'[j] \notin Active
    BY <1>0, <1>1, <1>2 DEF Holds, Active
<1>4. \A b \in Actor \ {t} : pc'[b] = pc[b]
    BY <1>0 DEF FindChild, Go, Core, TypeOK
<1>5. Place(t)'
    <2>1. CASE pc'[t] \in {"unlock", "count"}
        BY <1>0, <1>2, <2>1 DEF Place
    <2>2. CASE pc'[t] \notin {"unlock", "count"}
        <3>1. PICK c \in todo[t] :
                  /\ pc' = [pc EXCEPT ![t] = IF status[c] = "WAITING" THEN "check" ELSE "unlock"]
                  /\ cand' = [cand EXCEPT ![t] = c]
            BY <1>0, <2>2 DEF FindChild, Go, Core, TypeOK
        <3>2. c \in Job /\ cand'[t] = c
            BY <1>0, <3>1 DEF Core, TypeOK
        <3>3. pc'[t] = "check" /\ status[c] = "WAITING"
            BY <1>0, <2>2, <3>1 DEF Core, TypeOK
        <3> QED  BY <1>0, <1>2, <3>2, <3>3 DEF Place
    <2> QED  BY <2>1, <2>2
<1> QED  BY <1>0, <1>3, <1>4, <1>5, OneMoves, RowsKept DEF Core

LEMMA CountRemainingStep ==
    ASSUME Core, NEW t \in Task, CountRemaining(t) PROVE (Token /\ Single /\ Ordered)'
<1>0. /\ t \in Actor /\ t \in Job /\ pc[t] = "check" /\ Live(t)
      /\ UNCHANGED <<wf, status, made, then, cand>>
    BY DEF CountRemaining, Go, Live, Task, Actor, locals
<1>1. Place(t) /\ \A j \in Job : status[j] \in Active => Holds(t, j)
    BY <1>0, TokenFacts
<1>2. /\ pc'[t] = IF RemainingDeps(cand[t]) = {} THEN "ready" ELSE "unlock"
      /\ \A b \in Actor \ {t} : pc'[b] = pc[b]
    BY <1>0 DEF CountRemaining, Go, Core, TypeOK
<1>3. RemainingDeps(cand[t])' = RemainingDeps(cand[t])
    BY <1>0 DEF RemainingDeps
<1>4. Place(t)' /\ \A j \in Job : status'[j] \notin Active
    BY <1>0, <1>1, <1>2, <1>3 DEF Place, Holds
<1> QED  BY <1>0, <1>2, <1>4, OneMoves, RowsKept DEF Core

LEMMA SetReadyStep ==
    ASSUME Core, NEW t \in Task, SetReady(t) PROVE (Token /\ Single /\ Ordered)'
<1>0. /\ t \in Actor /\ t \in Job /\ pc[t] = "ready" /\ Live(t)
      /\ UNCHANGED <<wf, made, then, cand>>
    BY DEF SetReady, Go, Live, Task, Actor, locals
<1>1. Place(t) /\ \A j \in Job : status[j] \in Active => Holds(t, j)
    BY <1>0, TokenFacts
<1>2. pc'[t] = "unlock" /\ \A b \in Actor \ {t} : pc'[b] = pc[b]
    BY <1>0 DEF SetReady, Go, Core, TypeOK
<1>3. /\ status[t] = "COMPLETED" /\ then[t] = "return" /\ RemainingDeps(cand[t]) = {}
      /\ cand[t] \in Job /\ status[cand[t]] = "WAITING"
    BY <1>0, <1>1 DEF Place
<1>4. status'[cand[t]] = "READY" /\ \A j \in Job \ {cand[t]} : status'[j] = status[j]
    BY <1>0, <1>3 DEF SetReady, SetStatus, Core, TypeOK
<1>5. \A p \in wf.parents[cand[t]] : status[p] = "COMPLETED"
    BY <1>3 DEF RemainingDeps
<1>6. Place(t)' /\ \A j \in Job : status'[j] \notin Active
    BY <1>0, <1>1, <1>2, <1>3, <1>4 DEF Place, Holds, Active
<1>7. Ordered'
    BY <1>0, <1>3, <1>4, <1>5, ShapeTyped DEF Core, Ordered, Started
<1>8. Single'
    BY <1>6 DEF Single
<1> QED  BY <1>0, <1>2, <1>6, <1>7, <1>8, OneMoves DEF Core

LEMMA SkipChildStep ==
    ASSUME Core, NEW t \in Task, SkipChild(t) PROVE (Token /\ Single /\ Ordered)'
<1>0. /\ t \in Actor /\ t \in Job /\ pc[t] = "skip" /\ Live(t)
      /\ UNCHANGED <<wf, made, then>>
    BY DEF SkipChild, Go, Live, Task, Actor, locals
<1>1. Place(t) /\ \A j \in Job : status[j] \in Active => Holds(t, j)
    BY <1>0, TokenFacts
<1>2. FailedRow(t) /\ then[t] = "throw" /\ todo[t] \subseteq Children(t)
    BY <1>0, <1>1 DEF Place
<1>3. CASE todo[t] = {} /\ Go(t, "skip", "count") /\ UNCHANGED <<wf, status, made, locals, past, spent>>
    <2>1. pc'[t] = "count" /\ \A b \in Actor \ {t} : pc'[b] = pc[b]
        BY <1>0, <1>3 DEF Go, Core, TypeOK
    <2>2. Place(t)' /\ \A j \in Job : status'[j] \in Active => Holds(t, j)'
        BY <1>0, <1>1, <1>2, <1>3, <2>1 DEF Place, Holds, FailedRow, IsLastAttempt
    <2> QED  BY <1>0, <1>3, <2>1, <2>2, OneMoves, RowsKept DEF Core
<1>4. CASE \E c \in todo[t] :
              /\ pc[t] = "skip"
              /\ todo' = [todo EXCEPT ![t] = @ \ {c}]
              /\ status' = IF c \in wf.strict THEN [status EXCEPT ![c] = "SKIPPED"] ELSE status
              /\ UNCHANGED <<wf, pc, made, then, cand, snap, stack, past, spent>>
    <2>1. PICK c \in todo[t] :
              /\ todo' = [todo EXCEPT ![t] = @ \ {c}]
              /\ status' = IF c \in wf.strict THEN [status EXCEPT ![c] = "SKIPPED"] ELSE status
              /\ pc' = pc
        BY <1>4
    <2>2. c \in Job /\ t \in wf.parents[c] /\ status[t] # "COMPLETED"
        BY <1>2, <2>1 DEF Children, FailedRow, Active
    <2>3. ~Started(c)
        BY <2>2 DEF Core, Ordered
    <2>4. c # t
        BY <1>2, <2>3 DEF Started, FailedRow, Active
    <2>5. /\ \A j \in Job \ {c} : status'[j] = status[j]
          /\ status'[c] \in {status[c], "SKIPPED"}
        BY <2>1, <2>2 DEF Core, TypeOK
    <2>6. \A j \in Job : status'[j] \in Active => status[j] \in Active
        BY <2>5 DEF Active
    <2>7. FailedRow(t)' /\ todo'[t] \subseteq Children(t)'
        BY <1>0, <1>2, <2>1, <2>4, <2>5 DEF FailedRow, IsLastAttempt, Children, Core, TypeOK
    <2>8. Place(t)' /\ \A j \in Job : status'[j] \in Active => Holds(t, j)'
        BY <1>0, <1>1, <1>2, <2>1, <2>6, <2>7 DEF Place, Holds
    <2>9. Ordered'
        <3>1. \A j \in Job : Started(j)' => j # c /\ Started(j)
            BY <2>3, <2>5 DEF Started
        <3>2. \A j \in Job : status[j] = "COMPLETED" => status'[j] = "COMPLETED"
            BY <2>3, <2>5 DEF Started
        <3> QED  BY <1>0, <3>1, <3>2, ShapeTyped DEF Core, Ordered
    <2>10. Single'
        BY <2>6 DEF Core, Single
    <2> QED  BY <1>0, <2>1, <2>8, <2>9, <2>10, OneMoves DEF Core
<1> QED  BY <1>3, <1>4 DEF SkipChild

-----------------------------------------------------------------------------
(* scheduleNextJob() with the token *)

LEMMA CountActiveStep ==
    ASSUME Core, NEW a \in Actor, CountActive(a) PROVE (Token /\ Single /\ Ordered)'
<1>0. /\ pc[a] = "count" /\ Live(a) /\ UNCHANGED <<wf, status, made, then, cand>>
    BY DEF CountActive, Go, Live, locals
<1>1. Place(a) /\ \A j \in Job : status[j] \in Active => Holds(a, j)
    BY <1>0, TokenFacts
<1>2. /\ pc'[a] = IF \E j \in Job : status[j] \in Active THEN then[a] ELSE "pick"
      /\ \A b \in Actor \ {a} : pc'[b] = pc[b]
      /\ then[a] \in {"return", "throw", "done"}
    BY <1>0 DEF CountActive, Go, Core, TypeOK
<1>3. CASE \E j \in Job : status[j] \in Active
    <2>1. Live(a)' => pc'[a] = "throw" /\ FailedRow(a) /\ ~IsLastAttempt(a)
        BY <1>0, <1>1, <1>2, <1>3 DEF Live, Place, IsLastAttempt
    <2>2. Live(a)' => Place(a)' /\ \A j \in Job : status'[j] \in Active => Holds(a, j)'
        BY <1>0, <1>1, <1>2, <2>1 DEF Place, Holds, FailedRow, IsLastAttempt
    <2> QED  BY <1>0, <1>2, <2>2, OneMoves, RowsKept DEF Core
<1>4. CASE ~\E j \in Job : status[j] \in Active
    <2>1. then[a] = "throw" => a \in Task /\ IsLastAttempt(a)
        BY <1>0, <1>1, <1>4 DEF Place, FailedRow, Active, Task
    <2>2. Place(a)' /\ \A j \in Job : status'[j] \in Active => Holds(a, j)'
        BY <1>0, <1>2, <1>4, <2>1 DEF Place, IsLastAttempt
    <2> QED  BY <1>0, <1>2, <2>2, OneMoves, RowsKept DEF Core
<1> QED  BY <1>3, <1>4

LEMMA LoadRootsStep ==
    ASSUME Core, NEW a \in Actor, LoadRoots(a) PROVE (Token /\ Single /\ Ordered)'
<1>0. /\ pc[a] = "pick" /\ Live(a) /\ UNCHANGED <<wf, status, made, then>>
    BY DEF LoadRoots, Go, Live
<1>1. Place(a) /\ \A j \in Job : status[j] \in Active => Holds(a, j)
    BY <1>0, TokenFacts
<1>2. /\ pc'[a] = "walk" /\ snap'[a] = status
      /\ \A b \in Actor \ {a} : pc'[b] = pc[b]
    <2>1. snap' = [snap EXCEPT ![a] = status]
        BY DEF LoadRoots
    <2> QED  BY <1>0, <2>1 DEF LoadRoots, Go, Core, TypeOK
<1>3. Place(a)' /\ \A j \in Job : status'[j] \in Active => Holds(a, j)'
    BY <1>0, <1>1, <1>2 DEF Place, Holds, IsLastAttempt
<1> QED  BY <1>0, <1>2, <1>3, OneMoves, RowsKept DEF Core

LEMMA WalkFoundStep ==
    ASSUME Core, NEW a \in Actor, WalkFound(a) PROVE (Token /\ Single /\ Ordered)'
<1>1. PICK j \in Job :
          /\ Visits(a, j, {"READY"})
          /\ pc' = [pc EXCEPT ![a] = "claim"]
          /\ cand' = [cand EXCEPT ![a] = j]
          /\ UNCHANGED <<wf, status, made, then>>
    BY DEF WalkFound
<1>2. pc[a] = "walk" /\ Live(a)
    BY <1>1 DEF Visits, Live
<1>3. Place(a) /\ \A i \in Job : status[i] \in Active => Holds(a, i)
    BY <1>2, TokenFacts
<1>4. status[j] = "READY"
    BY <1>1, <1>2, <1>3 DEF Visits, Place
<1>5. /\ pc'[a] = "claim" /\ cand'[a] = j
      /\ \A b \in Actor \ {a} : pc'[b] = pc[b]
    BY <1>1 DEF Core, TypeOK
<1>6. Place(a)' /\ \A i \in Job : status'[i] \in Active => Holds(a, i)'
    BY <1>1, <1>2, <1>3, <1>4, <1>5 DEF Place, Holds, IsLastAttempt
<1> QED  BY <1>1, <1>2, <1>5, <1>6, OneMoves, RowsKept DEF Core

\* A turn of the walk that finds no READY job.
LEMMA WalkOnStep ==
    ASSUME Core, NEW a \in Actor, pc[a] = "walk",
           UNCHANGED <<wf, status, pc, made, then, cand, snap>>
    PROVE  (Token /\ Single /\ Ordered)'
<1>1. Live(a) /\ Place(a) /\ \A j \in Job : status[j] \in Active => Holds(a, j)
    BY TokenFacts DEF Live
<1>2. Place(a)' /\ \A j \in Job : status'[j] \in Active => Holds(a, j)'
    BY <1>1 DEF Place, Holds, IsLastAttempt
<1> QED  BY <1>1, <1>2, OneMoves, RowsKept DEF Core

LEMMA WalkUpStep ==
    ASSUME Core, NEW a \in Actor, WalkUp(a) PROVE (Token /\ Single /\ Ordered)'
<1>1. CASE UNCHANGED <<pc, snap>>
    BY <1>1, WalkOnStep DEF WalkUp
<1>2. CASE pc' = [pc EXCEPT ![a] = then[a]]
    <2>1. pc[a] = "walk" /\ Live(a) /\ UNCHANGED <<wf, status, made>>
        BY DEF WalkUp, Live
    <2>2. Place(a)
        BY <2>1, TokenFacts
    <2>3. pc'[a] = then[a] /\ \A b \in Actor \ {a} : pc'[b] = pc[b]
        BY <1>2 DEF Core, TypeOK
    <2>4. ~Live(a)'
        BY <2>1, <2>2, <2>3 DEF Live, Place, IsLastAttempt, Core, TypeOK
    <2> QED  BY <2>1, <2>3, <2>4, OneMoves, RowsKept DEF Core
<1> QED  BY <1>1, <1>2 DEF WalkUp

LEMMA ClaimStep ==
    ASSUME Core, NEW a \in Actor, Claim(a) PROVE (Token /\ Single /\ Ordered)'
<1>0. /\ pc[a] = "claim" /\ Live(a) /\ UNCHANGED <<wf, made, then, cand>>
    BY DEF Claim, Go, Live, locals
<1>1. Place(a) /\ \A j \in Job : status[j] \in Active => Holds(a, j)
    BY <1>0, TokenFacts
<1>2. pc'[a] = "submit" /\ \A b \in Actor \ {a} : pc'[b] = pc[b]
    BY <1>0 DEF Claim, Go, Core, TypeOK
<1>3. cand[a] \in Job /\ status[cand[a]] = "READY"
    BY <1>0, <1>1 DEF Place
<1>4. status'[cand[a]] = "QUEUED" /\ \A j \in Job \ {cand[a]} : status'[j] = status[j]
    BY <1>3 DEF Claim, SetStatus, Core, TypeOK
<1>5. \A j \in Job : status'[j] \in Active => j = cand[a]
    BY <1>0, <1>1, <1>4 DEF Holds
<1>6. Place(a)' /\ \A j \in Job : status'[j] \in Active => Holds(a, j)'
    BY <1>0, <1>1, <1>2, <1>3, <1>4, <1>5 DEF Place, Holds, IsLastAttempt
<1>7. Ordered'
    BY <1>0, <1>3, <1>4, ShapeTyped DEF Core, Ordered, Started
<1>8. Single'
    BY <1>5 DEF Single
<1> QED  BY <1>0, <1>2, <1>6, <1>7, <1>8, OneMoves DEF Core

\* The scheduler is over: it was called from a task that has ended or from the API.
LEMMA SchedulerEnds ==
    ASSUME Core, NEW a \in Actor, pc[a] = "submit"
    PROVE  /\ Live(a) /\ cand[a] \in Job /\ status[cand[a]] = "QUEUED"
           /\ \A j \in Job : status[j] \in Active => j = cand[a]
           /\ then[a] = "throw" => a \in Task /\ IsLastAttempt(a)
           /\ then[a] \in {"return", "throw", "done"}
<1>1. Live(a)
    BY DEF Live
<1>2. Place(a) /\ \A j \in Job : status[j] \in Active => Holds(a, j)
    BY <1>1, TokenFacts
<1>3. \A j \in Job : status[j] \in Active => j = cand[a]
    BY <1>2 DEF Holds
<1>4. then[a] \in {"return", "throw", "done"}
    BY DEF Core, TypeOK
<1> QED  BY <1>1, <1>2, <1>3, <1>4 DEF Place

LEMMA SubmitStep ==
    ASSUME Core, NEW a \in Actor, Submit(a) PROVE (Token /\ Single /\ Ordered)'
<1>0. pc[a] = "submit" /\ UNCHANGED <<wf, status, made, then>>
    BY DEF Submit
<1>c. PICK c \in Job : c = cand[a]
    BY <1>0, SchedulerEnds
<1>1. /\ Live(a) /\ c \in Actor /\ c \in Task /\ status[c] = "QUEUED"
      /\ \A j \in Job : status[j] \in Active => j = c
      /\ then[a] = "throw" => a \in Task /\ IsLastAttempt(a)
      /\ then[a] \in {"return", "throw", "done"}
    BY <1>0, <1>c, SchedulerEnds DEF Task, Actor
<1>2. pc' = [pc EXCEPT ![a] = then[a], ![c] = IF @ = "none" THEN "waiting" ELSE @]
    BY <1>c DEF Submit, SubmittedTask
<1>3. /\ \A b \in Actor \ {a, c} : pc'[b] = pc[b]
      /\ pc[c] = "none" /\ c # a => pc'[c] = "waiting"
      /\ pc[c] # "none" /\ c # a => pc'[c] = pc[c]
      /\ c # a => pc'[a] = then[a]
      /\ c = a => pc'[a] = then[a]
    BY <1>1, <1>2 DEF Core, TypeOK
<1>4. \A b \in Actor : Live(b) => b = a
    BY <1>1, TokenFacts
<1>5. \A b \in Actor : Live(b)' => b = c /\ pc[c] = "none" /\ c # a
    BY <1>0, <1>1, <1>3, <1>4 DEF Live, IsLastAttempt
<1>6. CASE pc[c] = "none" /\ c # a
    <2>1. pc'[c] = "waiting" /\ made'[c] = 0 /\ status'[c] = "QUEUED"
        BY <1>0, <1>1, <1>3, <1>6 DEF Core, Bounds
    <2>2. Place(c)'
        BY <1>1, <2>1 DEF Place, Active
    <2>3. \A j \in Job : status'[j] \in Active => Holds(c, j)'
        BY <1>0, <1>1, <2>1 DEF Holds
    <2>4. Token'
        BY <1>5, <2>2, <2>3 DEF Token
    <2> QED  BY <1>0, <2>4, RowsKept DEF Core
<1>7. CASE ~(pc[c] = "none" /\ c # a)
    BY <1>0, <1>5, <1>7, RowsKept DEF Core, Token
<1> QED  BY <1>6, <1>7

LEMMA SubmitThrowsStep ==
    ASSUME Core, NEW a \in Actor, SubmitThrows(a) PROVE (Token /\ Single /\ Ordered)'
<1>0. pc[a] = "submit" /\ UNCHANGED <<wf, status, made, then>>
    BY DEF SubmitThrows, Go
<1>1. pc'[a] = then[a] /\ \A b \in Actor \ {a} : pc'[b] = pc[b]
    BY DEF SubmitThrows, Go, Core, TypeOK
<1>2. Live(a) /\ ~Live(a)'
    BY <1>0, <1>1, SchedulerEnds DEF Live, IsLastAttempt
<1> QED  BY <1>0, <1>1, <1>2, OneMoves, RowsKept DEF Core

\* A throw ends the scheduler or the attempt: the token is kept by an attempt that is not
\* the last, and lost otherwise.
LEMMA ErrorsStep ==
    ASSUME Core, NEW a \in Actor, Errors(a) PROVE (Token /\ Single /\ Ordered)'
<1>0. /\ pc[a] \notin {"none", "submit", "return", "throw", "done"} /\ Live(a)
      /\ UNCHANGED <<wf, status, made, then>>
    BY DEF Errors, Live
<1>1. Place(a) /\ \A j \in Job : status[j] \in Active => Holds(a, j)
    BY <1>0, TokenFacts
<1>2. /\ pc'[a] = IF pc[a] \in {"waiting", "begin", "work", "catch"} THEN "throw" ELSE then[a]
      /\ \A b \in Actor \ {a} : pc'[b] = pc[b]
      /\ then[a] \in {"return", "throw", "done"}
    BY DEF Errors, Go, Core, TypeOK
<1>3. Live(a)' => pc'[a] = "throw" /\ a \in Task /\ ~IsLastAttempt(a)
    BY <1>0, <1>2 DEF Live, IsLastAttempt
<1>4. Live(a)' => status[a] \in Active
    BY <1>0, <1>1, <1>2, <1>3 DEF Place, FailedRow, PC, Core, TypeOK
<1>5. Live(a)' => Place(a)' /\ \A j \in Job : status'[j] \in Active => Holds(a, j)'
    <2> SUFFICES ASSUME Live(a)' PROVE Place(a)' /\ \A j \in Job : status'[j] \in Active => Holds(a, j)'
        OBVIOUS
    <2>1. FailedRow(a)'
        BY <1>0, <1>3, <1>4 DEF FailedRow, IsLastAttempt
    <2>2. \A j \in Job : status[j] \in Active => j = a
        <3>1. a \in Job /\ Holds(a, a)
            BY <1>1, <1>3, <1>4 DEF Task
        <3> QED  BY <1>0, <1>1, <1>3, <1>4 DEF Core, Single, Task
    <2> QED  BY <1>0, <1>3, <2>1, <2>2 DEF Place, Holds
<1> QED  BY <1>0, <1>2, <1>5, OneMoves, RowsKept DEF Core

-----------------------------------------------------------------------------
(* The token is handed over to jobs new to BullMQ *)

\* A step of a live actor that submits nothing.
LEMMA KeepsToken ==
    ASSUME Core, Handover, NEW a \in Actor, Live(a), pc'[a] # "submit",
           \A b \in Actor \ {a} : pc'[b] = pc[b],
           \A j \in Job : \/ status'[j] = status[j]
                          \/ status'[j] \in {"QUEUED", "PROCESSING", "COMPLETED", "FAILED"}
                          \/ pc[j] = "none" /\ j # a
    PROVE  Handover'
<1>1. Fresh'
    <2>1. pc[a] # "none" /\ Task = Job /\ Task \subseteq Actor
        BY DEF Live, Task, Actor
    <2> QED  BY <2>1 DEF Handover, Fresh
<1>2. Submits'
    <2>1. \A b \in Actor : pc[b] = "submit" => Live(b)
        BY DEF Live
    <2>2. \A b \in Actor : pc'[b] # "submit"
        BY <2>1, TokenFacts
    <2> QED  BY <2>2 DEF Submits
<1> QED  BY <1>1, <1>2 DEF Handover

LEMMA SucceedHandover ==
    ASSUME Core, Handover, NEW t \in Task, Succeed(t, t) PROVE Handover'
<1>1. t \in Actor /\ t \in Job /\ pc[t] = "work" /\ Live(t)
    BY DEF Succeed, Go, Live, Task, Actor
<1>2. pc'[t] = "unlock" /\ \A b \in Actor \ {t} : pc'[b] = pc[b]
    BY <1>1 DEF Succeed, Go, Core, TypeOK
<1>3. status'[t] = "COMPLETED" /\ \A j \in Job \ {t} : status'[j] = status[j]
    BY <1>1 DEF Succeed, SetStatus, Core, TypeOK
<1> QED  BY <1>1, <1>2, <1>3, KeepsToken

LEMMA UnlockHandover ==
    ASSUME Core, Handover, NEW t \in Task, FindChild(t) \/ CountRemaining(t) PROVE Handover'
<1>1. t \in Actor /\ pc[t] \in {"unlock", "check"} /\ Live(t) /\ status' = status
    BY DEF FindChild, CountRemaining, Go, Live, Task, Actor
<1>2. /\ \A b \in Actor \ {t} : pc'[b] = pc[b]
      /\ pc'[t] \in {"unlock", "check", "ready", "count"}
    BY <1>1 DEF FindChild, CountRemaining, Go, Core, TypeOK
<1> QED  BY <1>1, <1>2, KeepsToken

LEMMA SetReadyHandover ==
    ASSUME Core, Handover, NEW t \in Task, SetReady(t) PROVE Handover'
<1>1. t \in Actor /\ t \in Job /\ pc[t] = "ready" /\ Live(t)
    BY DEF SetReady, Go, Live, Task, Actor
<1>2. cand[t] \in Job /\ status[cand[t]] = "WAITING" /\ status[t] = "COMPLETED"
    BY <1>1, TokenFacts DEF Place
<1>3. status'[cand[t]] = "READY" /\ \A j \in Job \ {cand[t]} : status'[j] = status[j]
    BY <1>2 DEF SetReady, SetStatus, Core, TypeOK
<1>4. pc'[t] = "unlock" /\ \A b \in Actor \ {t} : pc'[b] = pc[b]
    BY <1>1 DEF SetReady, Go, Core, TypeOK
<1>5. pc[cand[t]] = "none" /\ cand[t] # t
    BY <1>2 DEF Handover, Fresh, Task
<1> QED  BY <1>1, <1>3, <1>4, <1>5, KeepsToken

LEMMA SkipChildHandover ==
    ASSUME Core, Handover, NEW t \in Task, SkipChild(t) PROVE Handover'
<1>1. t \in Actor /\ t \in Job /\ pc[t] = "skip" /\ Live(t)
    BY DEF SkipChild, Go, Live, Task, Actor
<1>2. FailedRow(t) /\ todo[t] \subseteq Children(t)
    BY <1>1, TokenFacts DEF Place
<1>3. pc'[t] \in {"skip", "count"} /\ \A b \in Actor \ {t} : pc'[b] = pc[b]
    BY <1>1 DEF SkipChild, Go, Core, TypeOK
<1>5. \A j \in Job : status'[j] # status[j] => j \in todo[t]
    BY DEF SkipChild, Core, TypeOK
<1>6. \A j \in todo[t] : j \in Job /\ ~Started(j)
    BY <1>1, <1>2 DEF Children, FailedRow, Active, Core, Ordered
<1>7. \A j \in todo[t] : pc[j] = "none" /\ j # t
    BY <1>1, <1>6 DEF Handover, Fresh, Task, Started
<1> QED  BY <1>1, <1>3, <1>5, <1>7, KeepsToken

\* The rest of a run writes its own row, if any.
LEMMA OwnRowHandover ==
    ASSUME Core, Handover, NEW t \in Task,
           FindJob(t) \/ Begin(t, t) \/ Fail(t) \/ Catch(t, t) \/ Errors(t)
    PROVE  Handover'
<1>0. t \in Actor /\ t \in Job
    BY DEF Task, Actor
<1>1. pc[t] \notin {"none", "return", "throw", "done", "submit"} /\ Live(t)
    BY DEF FindJob, Begin, Fail, Catch, Errors, Go, Live
<1>2. /\ pc'[t] # "submit"
      /\ \A b \in Actor \ {t} : pc'[b] = pc[b]
    BY <1>0 DEF FindJob, Begin, Fail, Catch, Errors, Go, Core, TypeOK
<1>3. \A j \in Job : status'[j] \in {status[j], "PROCESSING", "FAILED"}
    BY DEF FindJob, Begin, Fail, Catch, Errors, Core, TypeOK
<1> QED  BY <1>0, <1>1, <1>2, <1>3, KeepsToken

LEMMA EndHandover ==
    ASSUME Core, Handover, NEW t \in Task, Return(t) \/ Throw(t) PROVE Handover'
<1>1. t \in Actor /\ pc[t] \in {"return", "throw"} /\ UNCHANGED <<status, cand>>
    BY DEF Return, Throw, Go, Task, Actor, locals
<1>2. pc'[t] \in {"done", "waiting"} /\ \A b \in Actor \ {t} : pc'[b] = pc[b]
    BY <1>1 DEF Return, Throw, Go, Core, TypeOK
<1>5. Fresh'
    BY <1>1, <1>2 DEF Handover, Fresh, Actor
<1>6. Submits'
    <2>1. \A a \in Actor : pc'[a] = "submit" => pc[a] = "submit" /\ pc[cand[a]] = "none"
        BY <1>2 DEF Handover, Submits
    <2>2. \A a \in Actor : pc'[a] = "submit" => cand[a] # t /\ cand[a] \in Actor
        BY <1>1, <2>1, SchedulerEnds DEF Actor, Task
    <2> QED  BY <1>1, <1>2, <2>1, <2>2 DEF Submits
<1> QED  BY <1>5, <1>6 DEF Handover

LEMMA TaskHandover ==
    ASSUME Core, Handover, NEW t \in Task, TaskStep(t) PROVE Handover'
BY SucceedHandover, UnlockHandover, SetReadyHandover, SkipChildHandover, OwnRowHandover,
   EndHandover DEF TaskStep, RunStep

\* A turn of the scheduler that claims and submits nothing, or a throw that ends it.
LEMMA WalkHandover ==
    ASSUME Core, Handover, NEW a \in Actor,
           \/ CountActive(a) \/ LoadRoots(a) \/ WalkFound(a) \/ WalkBlocked(a) \/ WalkDown(a)
           \/ WalkPast(a) \/ WalkUp(a) \/ Errors(a)
    PROVE  Handover'
<1>1. pc[a] \notin {"none", "return", "throw", "done", "submit"} /\ Live(a) /\ status' = status
    BY DEF CountActive, LoadRoots, WalkFound, WalkBlocked, WalkDown, WalkPast, WalkUp, Errors,
           Visits, Go, Live
<1>2. pc'[a] # "submit" /\ \A b \in Actor \ {a} : pc'[b] = pc[b]
    BY <1>1 DEF CountActive, LoadRoots, WalkFound, WalkBlocked, WalkDown, WalkPast, WalkUp,
                Errors, Go, Core, TypeOK
<1> QED  BY <1>1, <1>2, KeepsToken

LEMMA ClaimHandover ==
    ASSUME Core, Handover, NEW a \in Actor, Claim(a) PROVE Handover'
<1>1. pc[a] = "claim" /\ Live(a) /\ cand' = cand
    BY DEF Claim, Go, Live, locals
<1>2. pc'[a] = "submit" /\ \A b \in Actor \ {a} : pc'[b] = pc[b]
    BY <1>1 DEF Claim, Go, Core, TypeOK
<1>3. cand[a] \in Job /\ status[cand[a]] = "READY"
    BY <1>1, TokenFacts DEF Place
<1>4. status'[cand[a]] = "QUEUED" /\ \A j \in Job \ {cand[a]} : status'[j] = status[j]
    BY <1>3 DEF Claim, SetStatus, Core, TypeOK
<1>5. pc[cand[a]] = "none" /\ cand[a] # a /\ cand[a] \in Actor
    BY <1>1, <1>3 DEF Handover, Fresh, Task, Actor
<1>6. \A b \in Actor : pc'[b] = "submit" => b = a
    BY <1>1, <1>2, TokenFacts DEF Live
<1>7. Submits'
    BY <1>1, <1>2, <1>5, <1>6 DEF Submits
<1>8. Fresh'
    BY <1>1, <1>2, <1>4 DEF Handover, Fresh, Task, Actor
<1> QED  BY <1>7, <1>8 DEF Handover

LEMMA SubmitHandover ==
    ASSUME Core, Handover, NEW a \in Actor, Submit(a) PROVE Handover'
<1>0. pc[a] = "submit" /\ Live(a) /\ status' = status
    BY DEF Submit, Live
<1>1. PICK c \in Job : c = cand[a] /\ status[c] = "QUEUED"
    BY <1>0, SchedulerEnds
<1>2. pc[c] = "none" /\ c # a /\ c \in Actor
    BY <1>0, <1>1 DEF Handover, Submits, Task, Actor
<1>3. pc' = [pc EXCEPT ![a] = then[a], ![c] = IF @ = "none" THEN "waiting" ELSE @]
    BY <1>1 DEF Submit, SubmittedTask
<1>4. /\ pc'[c] = "waiting" /\ pc'[a] = then[a]
      /\ \A b \in Actor \ {a, c} : pc'[b] = pc[b]
    BY <1>2, <1>3 DEF Core, TypeOK
<1>5. then[a] \in {"return", "throw", "done"}
    BY <1>0, SchedulerEnds
<1>7. Fresh'
    BY <1>0, <1>1, <1>4 DEF Handover, Fresh, Task, Actor
<1>8. \A b \in Actor : pc'[b] # "submit"
    BY <1>0, <1>4, <1>5, TokenFacts DEF Live
<1> QED  BY <1>7, <1>8 DEF Handover, Submits

LEMMA SubmitThrowsHandover ==
    ASSUME Core, Handover, NEW a \in Actor, SubmitThrows(a) PROVE Handover'
<1>0. pc[a] = "submit" /\ Live(a) /\ status' = status
    BY DEF SubmitThrows, Go, Live
<1>1. /\ pc'[a] = then[a] /\ \A b \in Actor \ {a} : pc'[b] = pc[b]
      /\ then[a] \in {"return", "throw", "done"}
    BY <1>0 DEF SubmitThrows, Go, Core, TypeOK
<1> QED  BY <1>0, <1>1, KeepsToken

LEMMA ScheduleHandover ==
    ASSUME Core, Handover, NEW a \in Actor, ScheduleStep(a) PROVE Handover'
BY WalkHandover, ClaimHandover, SubmitHandover DEF ScheduleStep

-----------------------------------------------------------------------------
(* The invariant *)

LEMMA HandsKept ==
    ASSUME Hands, NEW a \in Actor, pc[a] # "none", pc'[a] # "none",
           UNCHANGED lost, spent'["lock"] = spent["lock"],
           \A b \in Actor \ {a} : /\ cand'[b] = cand[b]
                                  /\ pc'[b] = pc[b] \/ (b \in Job /\ pc'[b] = "waiting"),
           pc'[a] \in {"check", "ready", "claim", "submit"} => cand'[a] \in Job
    PROVE  Hands'
<1>1. Job \subseteq Actor /\ Stray \subseteq Actor /\ Stray \cap Job = {}
    BY ActorAssumption DEF Actor, Task
<1>2. \A b \in Actor : pc'[b] \in {"check", "ready", "claim", "submit"} => cand'[b] \in Job
    BY DEF Hands
<1>3. \A s \in Stray : pc'[s] # "none" => pc[s] # "none"
    BY <1>1
<1>4. \A j \in Job : pc[j] # "none" => pc'[j] # "none"
    BY <1>1
<1> QED  BY <1>2, <1>3, <1>4 DEF Hands

LEMMA RunHands ==
    ASSUME TypeOK, Hands, NEW a \in Task \cup Stray, NEW j, RunStep(a, j) PROVE Hands'
<1>0. a \in Actor
    BY DEF Actor
<1>1. CASE FindChild(a)
    <2>1. PICK q \in {"check", "unlock", "count"} : pc' = [pc EXCEPT ![a] = q]
        BY <1>1 DEF FindChild, Go
    <2>2. pc[a] = "unlock" /\ UNCHANGED <<lost, spent>>
        BY <1>1 DEF FindChild, Go, past
    <2>3. /\ \A b \in Actor \ {a} : cand'[b] = cand[b]
          /\ cand' = cand \/ cand'[a] \in Job
        BY <1>0, <1>1 DEF FindChild, locals, TypeOK
    <2>4. pc'[a] = "check" => cand'[a] \in Job
        <3>1. CASE todo[a] = {} /\ Go(a, "unlock", "count")
            BY <1>0, <3>1 DEF Go, TypeOK
        <3>2. CASE \E c \in todo[a] : cand' = [cand EXCEPT ![a] = c]
            BY <1>0, <3>2 DEF TypeOK
        <3> QED  BY <1>1, <3>1, <3>2 DEF FindChild
    <2> QED  BY <1>0, <2>1, <2>2, <2>3, <2>4, HandsKept DEF TypeOK
<1>2. CASE CountRemaining(a)
    <2>1. pc[a] = "check" /\ cand[a] \in Job
        BY <1>0, <1>2 DEF CountRemaining, Go, Hands
    <2> QED  BY <1>0, <1>2, <2>1, HandsKept DEF CountRemaining, Go, past, locals, TypeOK
<1>3. CASE Begin(a, j) \/ Succeed(a, j) \/ Fail(a) \/ Catch(a, j) \/ SetReady(a) \/ SkipChild(a)
    <2>1. /\ pc[a] \in {"begin", "work", "catch", "ready", "skip"}
          /\ pc'[a] \in {"work", "unlock", "catch", "skip", "count"}
          /\ \A b \in Actor \ {a} : pc'[b] = pc[b]
        BY <1>0, <1>3 DEF Begin, Succeed, Fail, Catch, SetReady, SkipChild, Go, TypeOK
    <2>2. UNCHANGED <<cand, lost, spent>>
        BY <1>3 DEF Begin, Succeed, Fail, Catch, SetReady, SkipChild, past, locals
    <2> QED  BY <1>0, <2>1, <2>2, HandsKept
<1> QED  BY <1>1, <1>2, <1>3 DEF RunStep

LEMMA EndHands ==
    ASSUME TypeOK, Hands, NEW a \in Task \cup Stray,
           (a \in Task /\ (FindJob(a) \/ Return(a) \/ Throw(a))) \/ Refuse(a)
    PROVE  Hands'
<1>0. a \in Actor
    BY DEF Actor
<1>1. /\ pc[a] \in {"waiting", "return", "throw"} /\ pc'[a] \in {"done", "begin", "waiting"}
      /\ \A b \in Actor \ {a} : pc'[b] = pc[b]
    BY <1>0 DEF FindJob, Return, Throw, Refuse, Go, TypeOK
<1>2. UNCHANGED <<cand, lost, spent>>
    BY DEF FindJob, Return, Throw, Refuse, past, locals
<1> QED  BY <1>0, <1>1, <1>2, HandsKept

LEMMA SubmitHands ==
    ASSUME TypeOK, Hands, NEW a \in Actor, Submit(a) \/ SubmitThrows(a) PROVE Hands'
<1>0. pc[a] = "submit" /\ cand' = [cand EXCEPT ![a] = 0] /\ UNCHANGED past
    BY DEF Submit, SubmitThrows, Go
<1>1. PICK c \in Job : c = cand[a]
    BY <1>0 DEF Hands
<1>2. then[a] \in {"return", "throw", "done"} /\ pc \in [Actor -> PC] /\ c \in Actor
    BY DEF TypeOK, Actor, Task
<1>3. \/ pc' = [pc EXCEPT ![a] = then[a], ![c] = IF @ = "none" THEN "waiting" ELSE @]
      \/ pc' = [pc EXCEPT ![a] = then[a]]
    BY <1>1 DEF Submit, SubmitThrows, SubmittedTask, Go
<1>4. /\ pc'[a] \in {"return", "throw", "done"}
      /\ \A b \in Actor \ {a} : pc'[b] = pc[b] \/ (b \in Job /\ pc'[b] = "waiting")
    BY <1>0, <1>2, <1>3
<1>5. \A b \in Actor \ {a} : cand'[b] = cand[b]
    BY <1>0 DEF TypeOK
<1>6. spent'["lock"] = spent["lock"]
    BY Counted DEF Submit, SubmitThrows, FaultKind
<1> QED  BY <1>0, <1>4, <1>5, <1>6, HandsKept DEF past

LEMMA ScheduleHands ==
    ASSUME TypeOK, Hands, NEW a \in Actor, ScheduleStep(a) PROVE Hands'
<1>1. CASE CountActive(a) \/ LoadRoots(a) \/ WalkBlocked(a) \/ WalkDown(a) \/ WalkPast(a) \/ WalkUp(a)
    <2>1. /\ pc[a] \in {"count", "pick", "walk"}
          /\ pc'[a] \in {"pick", "walk", "return", "throw", "done"}
          /\ \A b \in Actor \ {a} : pc'[b] = pc[b]
        BY <1>1 DEF CountActive, LoadRoots, WalkBlocked, WalkDown, WalkPast, WalkUp, Visits,
                    Go, TypeOK
    <2>2. UNCHANGED <<cand, lost, spent>>
        BY <1>1 DEF CountActive, LoadRoots, WalkBlocked, WalkDown, WalkPast, WalkUp, past, locals
    <2> QED  BY <2>1, <2>2, HandsKept
<1>2. CASE WalkFound(a)
    <2>1. PICK j \in Job : /\ pc' = [pc EXCEPT ![a] = "claim"] /\ pc[a] = "walk"
                           /\ cand' = [cand EXCEPT ![a] = j] /\ UNCHANGED <<lost, spent>>
        BY <1>2 DEF WalkFound, Visits, past
    <2> QED  BY <2>1, HandsKept DEF TypeOK
<1>3. CASE Claim(a)
    <2>1. pc[a] = "claim" /\ cand[a] \in Job /\ UNCHANGED <<cand, lost, spent>>
        BY <1>3 DEF Claim, Go, Hands, past, locals
    <2> QED  BY <1>3, <2>1, HandsKept DEF Claim, Go, TypeOK
<1> QED  BY <1>1, <1>2, <1>3, SubmitHands DEF ScheduleStep

LEMMA FaultHands ==
    ASSUME TypeOK, Hands, NEW a \in Actor, Fault(a) PROVE Hands'
<1>1. CASE Errors(a)
    <2>1. /\ pc[a] # "none" /\ pc'[a] \in {"return", "throw", "done"}
          /\ \A b \in Actor \ {a} : pc'[b] = pc[b] /\ cand'[b] = cand[b]
        BY <1>1 DEF Errors, Drop, Go, TypeOK
    <2>2. lost' = lost /\ spent'["lock"] = spent["lock"]
        BY <1>1, Counted DEF Errors, FaultKind, past
    <2> QED  BY <2>1, <2>2, HandsKept
<1>2. CASE ThrowLate(a)
    <2>1. /\ pc[a] # "none" /\ pc'[a] = "catch"
          /\ \A b \in Actor \ {a} : pc'[b] = pc[b] /\ cand'[b] = cand[b]
        BY <1>2 DEF ThrowLate, Go, TypeOK, locals
    <2>2. lost' = lost /\ spent'["lock"] = spent["lock"]
        BY <1>2, Counted DEF ThrowLate, FaultKind, past
    <2> QED  BY <2>1, <2>2, HandsKept
<1>3. CASE Crash(a)
    <2>1. /\ pc[a] # "none" /\ pc'[a] \in {"waiting", "done"}
          /\ \A b \in Actor \ {a} : pc'[b] = pc[b] /\ cand'[b] = cand[b]
        BY <1>3 DEF Crash, TakenBack, Drop, TypeOK
    <2>2. lost' = lost /\ spent'["lock"] = spent["lock"]
        BY <1>3, Counted DEF Crash, FaultKind
    <2> QED  BY <2>1, <2>2, HandsKept
<1>4. CASE a \in Task /\ \E s \in Stray : LoseLock(a, s)
    <2>0. PICK s \in Stray : LoseLock(a, s)
        BY <1>4
    <2>1. /\ a \in Job /\ a \in Actor /\ s \in Actor /\ a # s
          /\ Stray \subseteq Actor /\ Stray \cap Job = {}
        BY <1>4, ActorAssumption DEF Actor, Task
    <2>2. /\ pc[a] # "none" /\ pc'[a] \in {"waiting", "done"} /\ pc'[s] = pc[a]
          /\ cand'[s] = cand[a]
          /\ \A b \in Actor \ {a, s} : pc'[b] = pc[b] /\ cand'[b] = cand[b]
        BY <2>0, <2>1 DEF LoseLock, TakenBack, TypeOK
    <2>3. lost'[s] = a /\ \A r \in Stray \ {s} : lost'[r] = lost[r]
        BY <2>0 DEF LoseLock, TypeOK
    <2>4. spent'["lock"] # 0
        BY <2>0, Counted DEF LoseLock, FaultKind, TypeOK
    <2>5. \A b \in Actor : pc'[b] \in {"check", "ready", "claim", "submit"} => cand'[b] \in Job
        BY <2>1, <2>2 DEF Hands
    <2>6. \A r \in Stray : pc'[r] # "none" => lost'[r] \in Job /\ pc'[lost'[r]] # "none"
        <3>1. \A j \in Job : pc[j] # "none" => pc'[j] # "none"
            BY <2>1, <2>2 DEF Actor, Task
        <3>2. \A r \in Stray \ {s} : pc'[r] # "none" => lost[r] \in Job /\ pc[lost[r]] # "none"
            BY <2>1, <2>2 DEF Hands
        <3> QED  BY <2>1, <2>2, <2>3, <3>1, <3>2
    <2> QED  BY <2>4, <2>5, <2>6 DEF Hands
<1> QED  BY <1>1, <1>2, <1>3, <1>4, SubmitHands DEF Fault

LEMMA HandsStep == TypeOK /\ Hands /\ [Next]_vars => Hands'
<1>1. CASE UNCHANGED vars
    BY <1>1 DEF Hands, vars, locals, past
<1>2. ASSUME TypeOK, Hands, NEW s \in Stray, StrayStep(s) PROVE Hands'
    BY <1>2, RunHands, EndHands DEF StrayStep
<1>3. ASSUME TypeOK, Hands, NEW t \in Task, TaskStep(t) PROVE Hands'
    BY <1>3, RunHands, EndHands DEF TaskStep
<1> QED  BY <1>1, <1>2, <1>3, ScheduleHands, FaultHands DEF Next

\* No fault is forgotten.
LEMMA FaultsCounted ==
    ASSUME TypeOK, [Next]_vars
    PROVE  /\ \A f \in FaultKind : spent[f] \in Nat /\ spent'[f] \in Nat /\ spent'[f] >= spent[f]
           /\ (\E a \in Actor : SubmitThrows(a)) => spent'["throw"] = spent["throw"] + 1
           /\ (\E a \in Actor : Errors(a)) => spent'["error"] = spent["error"] + 1
           /\ (\E a \in Actor : ThrowLate(a)) => spent'["late"] = spent["late"] + 1
           /\ (\E a \in Actor : Crash(a)) => spent'["crash"] = spent["crash"] + 1
           /\ (\E t \in Task, s \in Stray : LoseLock(t, s)) => spent'["lock"] = spent["lock"] + 1
<1>1. \A f \in FaultKind : spent[f] \in Nat
    BY DEF TypeOK
<1>2. ASSUME UNCHANGED vars PROVE spent' = spent
    BY <1>2 DEF vars
<1>3. ASSUME NEW a \in Actor, ScheduleStep(a) PROVE spent' = spent
    BY <1>3 DEF ScheduleStep, CountActive, LoadRoots, WalkFound, WalkBlocked, WalkDown,
                WalkPast, WalkUp, Claim, Submit
<1>4. ASSUME NEW a, NEW j, RunStep(a, j) PROVE spent' = spent
    BY <1>4 DEF RunStep, Begin, Succeed, Fail, Catch, FindChild, CountRemaining, SetReady,
                SkipChild
<1>5. ASSUME NEW t, FindJob(t) \/ Return(t) \/ Throw(t) \/ Refuse(t) PROVE spent' = spent
    BY <1>5 DEF FindJob, Return, Throw, Refuse
<1>6. /\ (\E a \in Actor : SubmitThrows(a)) => Spend("throw")
      /\ (\E a \in Actor : Errors(a)) => Spend("error")
      /\ (\E a \in Actor : ThrowLate(a)) => Spend("late")
      /\ (\E a \in Actor : Crash(a)) => Spend("crash")
      /\ (\E t \in Task, s \in Stray : LoseLock(t, s)) => Spend("lock")
    BY DEF SubmitThrows, Errors, ThrowLate, Crash, LoseLock
<1>7. spent' = spent \/ \E f \in FaultKind : Spend(f)
    BY <1>2, <1>3, <1>4, <1>5, <1>6 DEF Next, TaskStep, StrayStep, Fault, FaultKind
<1>8. \A f \in FaultKind : spent'[f] = spent[f] \/ spent'[f] = spent[f] + 1
    BY <1>7, Counted
<1>9. \A f \in FaultKind : Spend(f) => spent'[f] = spent[f] + 1
    BY Counted
<1> QED  BY <1>1, <1>6, <1>8, <1>9 DEF FaultKind

\* A kind of fault that never happened does not happen in this step.
LEMMA UnspentBefore ==
    ASSUME TypeOK, [Next]_vars, NEW kinds \in SUBSET FaultKind, Unspent(kinds)'
    PROVE  /\ Unspent(kinds)
           /\ "throw" \in kinds => \A a \in Actor : ~SubmitThrows(a)
           /\ "error" \in kinds => \A a \in Actor : ~Errors(a)
           /\ "late" \in kinds => \A a \in Actor : ~ThrowLate(a)
           /\ "crash" \in kinds => \A a \in Actor : ~Crash(a)
           /\ "lock" \in kinds => \A t \in Task, s \in Stray : ~LoseLock(t, s)
<1>1. \A f \in kinds : spent[f] \in Nat /\ spent'[f] = 0 /\ spent[f] = 0
    BY FaultsCounted DEF Unspent
<1> QED  BY <1>1, FaultsCounted DEF Unspent

\* As long as no lock is lost, no run is without its task.
LEMMA NoStrayStep ==
    ASSUME Hands, spent["lock"] = 0 PROVE \A s \in Stray : ~StrayStep(s)
<1>1. \A s \in Stray : pc[s] = "none"
    BY DEF Hands
<1> QED  BY <1>1 DEF StrayStep, RunStep, Begin, Succeed, Fail, Catch, FindChild, CountRemaining,
                     SetReady, SkipChild, Refuse, Go

LEMMA TaskCore ==
    ASSUME Core, NEW t \in Task, TaskStep(t) PROVE (Token /\ Single /\ Ordered)'
BY FindJobStep, BeginStep, SucceedStep, FailStep, CatchStep, ReturnStep, ThrowStep,
   FindChildStep, CountRemainingStep, SetReadyStep, SkipChildStep DEF TaskStep, RunStep

LEMMA ScheduleCore ==
    ASSUME Core, NEW a \in Actor, ScheduleStep(a) PROVE (Token /\ Single /\ Ordered)'
<1>1. CASE WalkBlocked(a)
    BY <1>1, WalkOnStep DEF WalkBlocked, Visits
<1>2. CASE WalkDown(a)
    BY <1>2, WalkOnStep DEF WalkDown, Visits
<1>3. CASE WalkPast(a)
    BY <1>3, WalkOnStep DEF WalkPast, Visits
<1> QED  BY <1>1, <1>2, <1>3, CountActiveStep, LoadRootsStep, WalkFoundStep, WalkUpStep,
            ClaimStep, SubmitStep DEF ScheduleStep

LEMMA CoreInit == Init => Token /\ Single /\ Ordered /\ Handover
<1> SUFFICES ASSUME Init PROVE Token /\ Single /\ Ordered /\ Handover
    OBVIOUS
<1>0. wf \in Shape /\ wf.parents \in [Job -> SUBSET Job]
    BY ShapeAssumption DEF Init, Shape
<1>1. \A j \in Job : status[j] = IF wf.parents[j] = {} THEN "READY" ELSE "WAITING"
    BY DEF Init
<1>2. \A j \in Job : status[j] \notin Active
    BY <1>1 DEF Active
<1>3. Ordered
    BY <1>0, <1>1 DEF Ordered, Started
<1>4. \A a \in Actor : Live(a) => a = Api /\ pc[a] = "count" /\ then[a] = "done"
    BY DEF Init, Live
<1>5. Place(Api)
    BY <1>4, ActorAssumption DEF Place, Init, Actor, Task
<1>6. Fresh /\ Submits
    BY ActorAssumption DEF Init, Fresh, Submits, Task, Actor
<1> QED  BY <1>2, <1>3, <1>4, <1>5, <1>6 DEF Token, Single, Handover

LEMMA OrderlyStep ==
    ASSUME TypeOK, Bounds, Hands, [Next]_vars, Orderly', Orderly => Token /\ Single /\ Ordered /\ Handover
    PROVE  (Token /\ Single /\ Ordered /\ Handover)'
<1>1. /\ Orderly /\ \A a \in Actor : ~Crash(a) /\ ~ThrowLate(a)
      /\ \A t \in Task, s \in Stray : ~LoseLock(t, s)
    BY UnspentBefore DEF Orderly, FaultKind
<1>2. Core /\ Handover /\ \A s \in Stray : ~StrayStep(s)
    BY <1>1, NoStrayStep DEF Core, Orderly, Unspent
<1>3. CASE UNCHANGED vars
    <2>1. UNCHANGED <<wf, status, pc, made, then, todo, cand, snap, stack>>
        BY <1>3 DEF vars, locals
    <2>2. \A a \in Actor : /\ Live(a)' = Live(a) /\ Place(a)' = Place(a)
                           /\ \A j \in Job : Holds(a, j)' = Holds(a, j)
        BY <2>1 DEF Live, Place, Holds, FailedRow, IsLastAttempt, RemainingDeps, Children
    <2>3. Token'
        BY <1>2, <2>1, <2>2 DEF Core, Token
    <2>4. Handover'
        BY <1>2, <2>1 DEF Handover, Fresh, Submits
    <2> QED  BY <1>2, <2>1, <2>3, <2>4, RowsKept DEF Core
<1>4. ASSUME NEW a \in Actor, Errors(a) PROVE (Token /\ Single /\ Ordered /\ Handover)'
    BY <1>2, <1>4, ErrorsStep, WalkHandover
<1> QED  BY <1>1, <1>2, <1>3, <1>4, TaskCore, ScheduleCore, SubmitThrowsStep, TaskHandover,
            ScheduleHandover, SubmitThrowsHandover DEF Next, Fault

\* The invariant holds in every reachable state.
THEOREM Inductive == Spec => []IInv
<1>1. Init => IInv
    BY TypeInit, CoreInit DEF IInv
<1>2. IInv /\ [Next]_vars => IInv'
    BY TypeStep, HandsStep, OrderlyStep DEF IInv
<1> QED  BY <1>1, <1>2, PTL DEF Spec

\* Every variable stays in its domain, for any shapes, attempts and faults.
THEOREM TypeCorrect == Spec => []TypeOK
<1>1. IInv => TypeOK
    BY DEF IInv
<1> QED  BY <1>1, Inductive, PTL

\* scheduleNextJob() runs one job at a time, although it counts, picks and claims in separate
\* statements, whatever submitJob() and the other statements throw: as long as no process
\* dies, no task loses its lock and no job fails after it has scheduled the next one.
THEOREM OneAtATime == Spec => []OneActive
<1>1. IInv => OneActive
    <2> SUFFICES ASSUME IInv, Orderly
                 PROVE  Cardinality({j \in Job : status[j] \in Active}) <= 1
        BY DEF OneActive, Orderly
    <2> DEFINE A == {j \in Job : status[j] \in Active}
    <2>1. \A i, j \in A : i = j
        BY DEF IInv, Single
    <2>2. CASE A = {}
        BY <2>2, FS_EmptySet
    <2>3. CASE A # {}
        <3>1. PICK k \in Job : A = {k}
            BY <2>1, <2>3
        <3>2. Cardinality({k}) = 1
            BY FS_Singleton
        <3> QED  BY <3>1, <3>2
    <2> QED  BY <2>2, <2>3
<1> QED  BY <1>1, Inductive, PTL

-----------------------------------------------------------------------------
(* Whatever happens, a job is not touched before its parents have run *)

\* The actor is about to set the job READY, or holds it to have been READY.
InHand(a, j) ==
    \/ pc[a] \in {"ready", "claim", "submit"} /\ cand[a] = j
    \/ pc[a] = "walk" /\ snap[a][j] = "READY"

Touched(j) == Started(j) \/ pc[j] # "none" \/ \E a \in Actor : InHand(a, j)

Due(j) == wf.parents[j] \subseteq ran

OnlyAfter ==
    /\ \A j \in Job : status[j] = "COMPLETED" => j \in ran
    /\ \A j \in Job : Touched(j) => Due(j)

\* An actor moves, writes rows of jobs that somebody has touched, and no new COMPLETED.
LEMMA TouchesAgain ==
    ASSUME TypeOK, OnlyAfter, NEW a \in Actor, pc[a] # "none", UNCHANGED <<wf, ran>>,
           \A j \in Job : status'[j] \in {status[j], "SKIPPED"}
                          \/ (status'[j] # "COMPLETED" /\ Touched(j)),
           \A b \in Actor \ {a} : /\ cand'[b] = cand[b] /\ snap'[b] = snap[b]
                                  /\ pc'[b] = pc[b] \/ (b \in Job /\ pc'[b] = "waiting" /\ Touched(b)),
           \A j \in Job : InHand(a, j)' => Touched(j) \/ Due(j)
    PROVE  OnlyAfter'
<1>1. \A j \in Job : status'[j] = "COMPLETED" => j \in ran'
    BY DEF OnlyAfter
<1>2. \A j \in Job : Touched(j)' => Touched(j) \/ Due(j)
    <2>1. \A j \in Job : Started(j)' => Touched(j)
        BY DEF Started, Touched
    <2>2. \A j \in Job : pc'[j] # "none" => Touched(j)
        BY DEF Touched, Actor, Task
    <2>3. \A b \in Actor, j \in Job : InHand(b, j)' => Touched(j) \/ Due(j)
        <3>1. \A b \in Actor \ {a}, j \in Job : InHand(b, j)' => Touched(j)
            BY DEF InHand, Touched
        <3> QED  BY <3>1
    <2> QED  BY <2>1, <2>2, <2>3 DEF Touched
<1> QED  BY <1>1, <1>2 DEF OnlyAfter, Due

LEMMA RunAfter ==
    ASSUME TypeOK, OnlyAfter, NEW a \in Task \cup Stray, NEW j \in Job, pc[j] # "none",
           RunStep(a, j)
    PROVE  OnlyAfter'
<1>0. a \in Actor /\ Touched(j)
    BY DEF Actor, Touched
<1>1. CASE Begin(a, j) \/ Fail(a) \/ Catch(a, j) \/ SkipChild(a)
    <2>1. /\ pc[a] # "none" /\ pc'[a] \notin {"ready", "claim", "submit", "walk"}
          /\ \A b \in Actor \ {a} : pc'[b] = pc[b]
        BY <1>0, <1>1 DEF Begin, Fail, Catch, SkipChild, Go, TypeOK
    <2>2. UNCHANGED <<wf, ran, cand, snap>>
        BY <1>1 DEF Begin, Fail, Catch, SkipChild, locals, past
    <2>3. \A i \in Job : /\ i # j => status'[i] \in {status[i], "SKIPPED"}
                         /\ i = j => status'[i] \in {status[i], "SKIPPED", "PROCESSING", "FAILED"}
        BY <1>1 DEF Begin, Fail, Catch, SkipChild, locals, TypeOK
    <2>4. \A i \in Job : ~InHand(a, i)'
        BY <2>1 DEF InHand
    <2>5. \A i \in Job : status'[i] \in {status[i], "SKIPPED"}
                         \/ (status'[i] # "COMPLETED" /\ Touched(i))
        BY <1>0, <2>3
    <2> QED  BY <1>0, <2>1, <2>2, <2>4, <2>5, TouchesAgain
<1>2. CASE Succeed(a, j)
    <2>1. /\ pc[a] = "work" /\ pc'[a] = "unlock" /\ \A b \in Actor \ {a} : pc'[b] = pc[b]
          /\ UNCHANGED <<wf, cand, snap>> /\ ran' = ran \cup {j}
          /\ \A i \in Job : i # j => status'[i] = status[i]
        BY <1>0, <1>2 DEF Succeed, SetStatus, Go, TypeOK
    <2>2. \A i \in Job : Touched(i)' => Touched(i)
        <3>1. \A b \in Actor : \A i \in Job : InHand(b, i)' => InHand(b, i)
            BY <2>1 DEF InHand
        <3>2. \A i \in Job : pc'[i] # "none" => pc[i] # "none"
            BY <2>1 DEF Actor, Task
        <3> QED  BY <1>0, <2>1, <3>1, <3>2 DEF Touched, Started
    <2>3. \A i \in Job : status'[i] = "COMPLETED" => i \in ran'
        BY <2>1 DEF OnlyAfter
    <2> QED  BY <2>1, <2>2, <2>3 DEF OnlyAfter, Due
<1>3. CASE FindChild(a)
    <2>1. /\ pc[a] = "unlock" /\ pc'[a] \in {"check", "unlock", "count"}
          /\ \A b \in Actor \ {a} : pc'[b] = pc[b]
        BY <1>0, <1>3 DEF FindChild, Go, TypeOK
    <2>2. /\ UNCHANGED <<wf, ran, status, snap>>
          /\ \A b \in Actor \ {a} : cand'[b] = cand[b]
        BY <1>3 DEF FindChild, locals, past, TypeOK
    <2>3. \A i \in Job : ~InHand(a, i)'
        BY <2>1 DEF InHand
    <2> QED  BY <1>0, <2>1, <2>2, <2>3, TouchesAgain
<1>4. CASE CountRemaining(a)
    <2>1. /\ pc[a] = "check" /\ UNCHANGED <<wf, ran, status, cand, snap>>
          /\ pc'[a] = IF RemainingDeps(cand[a]) = {} THEN "ready" ELSE "unlock"
          /\ \A b \in Actor \ {a} : pc'[b] = pc[b]
        BY <1>0, <1>4 DEF CountRemaining, Go, locals, past, TypeOK
    <2>2. \A i \in Job : InHand(a, i)' => i = cand[a] /\ RemainingDeps(i) = {}
        BY <2>1 DEF InHand
    <2>3. \A i \in Job : InHand(a, i)' => Due(i)
        BY <2>2, ShapeTyped DEF RemainingDeps, OnlyAfter, Due
    <2> QED  BY <1>0, <2>1, <2>3, TouchesAgain
<1>5. CASE SetReady(a)
    <2>1. /\ pc[a] = "ready" /\ pc'[a] = "unlock" /\ UNCHANGED <<wf, ran, cand, snap>>
          /\ \A b \in Actor \ {a} : pc'[b] = pc[b]
          /\ \A i \in Job : status'[i] = status[i] \/ (i = cand[a] /\ status'[i] = "READY")
        BY <1>0, <1>5 DEF SetReady, SetStatus, Go, locals, past, TypeOK
    <2>2. \A i \in Job : i = cand[a] => Touched(i)
        BY <1>0, <2>1 DEF Touched, InHand
    <2>3. \A i \in Job : ~InHand(a, i)'
        BY <2>1 DEF InHand
    <2> QED  BY <1>0, <2>1, <2>2, <2>3, TouchesAgain
<1> QED  BY <1>1, <1>2, <1>3, <1>4, <1>5 DEF RunStep

LEMMA EndAfter ==
    ASSUME TypeOK, OnlyAfter, NEW a \in Task \cup Stray,
           (a \in Task /\ (FindJob(a) \/ Return(a) \/ Throw(a))) \/ Refuse(a)
    PROVE  OnlyAfter'
<1>0. a \in Actor
    BY DEF Actor
<1>1. /\ pc[a] # "none" /\ pc'[a] \in {"done", "begin", "waiting"}
      /\ \A b \in Actor \ {a} : pc'[b] = pc[b]
    BY <1>0 DEF FindJob, Return, Throw, Refuse, Go, TypeOK
<1>2. UNCHANGED <<wf, ran, status, cand, snap>>
    BY DEF FindJob, Return, Throw, Refuse, locals, past
<1>3. \A i \in Job : ~InHand(a, i)'
    BY <1>1 DEF InHand
<1> QED  BY <1>0, <1>1, <1>2, <1>3, TouchesAgain

LEMMA SubmitAfter ==
    ASSUME TypeOK, Hands, OnlyAfter, NEW a \in Actor, Submit(a) \/ SubmitThrows(a)
    PROVE  OnlyAfter'
<1>0. /\ pc[a] = "submit" /\ cand' = [cand EXCEPT ![a] = 0]
      /\ UNCHANGED <<wf, ran, status, snap>>
    BY DEF Submit, SubmitThrows, Go, past
<1>1. PICK c \in Job : c = cand[a]
    BY <1>0 DEF Hands
<1>2. /\ then[a] \in {"return", "throw", "done"} /\ pc \in [Actor -> PC] /\ c \in Actor
      /\ Touched(c)
    BY <1>0, <1>1 DEF TypeOK, Actor, Task, Touched, InHand
<1>3. \/ pc' = [pc EXCEPT ![a] = then[a], ![c] = IF @ = "none" THEN "waiting" ELSE @]
      \/ pc' = [pc EXCEPT ![a] = then[a]]
    BY <1>1 DEF Submit, SubmitThrows, SubmittedTask, Go
<1>4. \A b \in Actor \ {a} : pc'[b] = pc[b] \/ (b \in Job /\ pc'[b] = "waiting" /\ Touched(b))
    BY <1>2, <1>3
<1>5. \A b \in Actor \ {a} : cand'[b] = cand[b]
    BY <1>0 DEF TypeOK
<1>6. pc'[a] \in {"return", "throw", "done", "waiting"}
    BY <1>2, <1>3
<1>7. \A i \in Job : ~InHand(a, i)'
    BY <1>6 DEF InHand
<1> QED  BY <1>0, <1>4, <1>5, <1>7, TouchesAgain

LEMMA ScheduleAfter ==
    ASSUME TypeOK, Hands, OnlyAfter, NEW a \in Actor, ScheduleStep(a) PROVE OnlyAfter'
<1>1. CASE \/ CountActive(a) \/ LoadRoots(a) \/ WalkFound(a) \/ WalkBlocked(a) \/ WalkDown(a)
           \/ WalkPast(a) \/ WalkUp(a)
    <2>1. /\ pc[a] \in {"count", "pick", "walk"} /\ UNCHANGED <<wf, ran, status>>
          /\ \A b \in Actor \ {a} : pc'[b] = pc[b] /\ cand'[b] = cand[b] /\ snap'[b] = snap[b]
        BY <1>1 DEF CountActive, LoadRoots, WalkFound, WalkBlocked, WalkDown, WalkPast, WalkUp,
                    Visits, Go, locals, past, TypeOK
    <2>2. \A i \in Job : InHand(a, i)' => Touched(i)
        <3>1. CASE CountActive(a)
            BY <3>1 DEF CountActive, Go, InHand, TypeOK
        <3>2. CASE LoadRoots(a)
            <4>1. snap' = [snap EXCEPT ![a] = status] /\ pc'[a] = "walk"
                BY <3>2 DEF LoadRoots, Go, TypeOK
            <4>2. snap'[a] = status
                BY <4>1 DEF TypeOK
            <4> QED  BY <4>1, <4>2 DEF InHand, Touched, Started
        <3>3. CASE WalkFound(a)
            <4>1. PICK j \in Job : /\ Visits(a, j, {"READY"})
                                   /\ pc' = [pc EXCEPT ![a] = "claim"]
                                   /\ cand' = [cand EXCEPT ![a] = j]
                BY <3>3 DEF WalkFound
            <4>2. Touched(j)
                BY <4>1 DEF Visits, Touched, Started, InHand
            <4>3. pc'[a] = "claim" /\ cand'[a] = j
                BY <4>1 DEF TypeOK
            <4> QED  BY <4>2, <4>3 DEF InHand
        <3>4. CASE WalkBlocked(a) \/ WalkDown(a) \/ WalkPast(a)
            <4>1. UNCHANGED <<pc, cand, snap>>
                BY <3>4 DEF WalkBlocked, WalkDown, WalkPast
            <4> QED  BY <4>1 DEF InHand, Touched
        <3>5. CASE WalkUp(a)
            <4>1. CASE UNCHANGED <<pc, snap>>
                <5>1. cand' = cand
                    BY <3>5 DEF WalkUp
                <5> QED  BY <4>1, <5>1 DEF InHand, Touched
            <4>2. CASE pc' = [pc EXCEPT ![a] = then[a]]
                <5>1. pc'[a] \in {"return", "throw", "done"}
                    BY <4>2 DEF TypeOK
                <5> QED  BY <5>1 DEF InHand
            <4> QED  BY <3>5, <4>1, <4>2 DEF WalkUp
        <3> QED  BY <1>1, <3>1, <3>2, <3>3, <3>4, <3>5
    <2> QED  BY <2>1, <2>2, TouchesAgain
<1>2. CASE Claim(a)
    <2>1. /\ pc[a] = "claim" /\ pc'[a] = "submit" /\ UNCHANGED <<wf, ran, cand, snap>>
          /\ \A b \in Actor \ {a} : pc'[b] = pc[b]
          /\ \A i \in Job : status'[i] = status[i] \/ (i = cand[a] /\ status'[i] = "QUEUED")
        BY <1>2 DEF Claim, SetStatus, Go, locals, past, TypeOK
    <2>2. \A i \in Job : i = cand[a] => Touched(i)
        BY <2>1 DEF Touched, InHand
    <2>3. \A i \in Job : InHand(a, i)' => Touched(i)
        BY <2>1, <2>2 DEF InHand
    <2> QED  BY <2>1, <2>2, <2>3, TouchesAgain
<1> QED  BY <1>1, <1>2, SubmitAfter DEF ScheduleStep

LEMMA FaultAfter ==
    ASSUME TypeOK, Hands, OnlyAfter, NEW a \in Actor, Fault(a) PROVE OnlyAfter'
<1>1. CASE Errors(a) \/ ThrowLate(a) \/ Crash(a)
    <2>1. /\ pc[a] # "none" /\ pc'[a] \notin {"ready", "claim", "submit", "walk"}
          /\ \A b \in Actor \ {a} : pc'[b] = pc[b] /\ cand'[b] = cand[b] /\ snap'[b] = snap[b]
          /\ UNCHANGED <<wf, ran, status>>
        BY <1>1 DEF Errors, ThrowLate, Crash, TakenBack, Drop, Go, locals, past, TypeOK
    <2>2. \A i \in Job : ~InHand(a, i)'
        BY <2>1 DEF InHand
    <2> QED  BY <2>1, <2>2, TouchesAgain
<1>2. CASE a \in Task /\ \E s \in Stray : LoseLock(a, s)
    <2>0. PICK s \in Stray : LoseLock(a, s)
        BY <1>2
    <2>1. s \in Actor /\ a \in Job /\ a # s /\ Stray \cap Job = {}
        BY <1>2, ActorAssumption DEF Actor, Task
    <2>2. /\ pc[a] # "none" /\ pc'[a] \in {"waiting", "done"} /\ pc'[s] = pc[a]
          /\ cand'[s] = cand[a] /\ snap'[s] = snap[a] /\ UNCHANGED <<wf, ran, status>>
          /\ \A b \in Actor \ {a, s} : pc'[b] = pc[b] /\ cand'[b] = cand[b] /\ snap'[b] = snap[b]
        BY <2>0, <2>1 DEF LoseLock, TakenBack, TypeOK
    <2>3. \A i \in Job : Touched(i)' => Touched(i)
        <3>1. \A i \in Job : pc'[i] # "none" => pc[i] # "none"
            BY <2>1, <2>2 DEF Actor, Task
        <3>2. \A b \in Actor, i \in Job : InHand(b, i)' => InHand(IF b = s THEN a ELSE b, i)
            BY <2>2 DEF InHand
        <3> QED  BY <2>2, <3>1, <3>2 DEF Touched, Started
    <2> QED  BY <2>2, <2>3 DEF OnlyAfter, Due
<1> QED  BY <1>1, <1>2, SubmitAfter DEF Fault

LEMMA AfterStep == TypeOK /\ Hands /\ OnlyAfter /\ [Next]_vars => OnlyAfter'
<1> SUFFICES ASSUME TypeOK, Hands, OnlyAfter, [Next]_vars PROVE OnlyAfter'
    OBVIOUS
<1>1. CASE UNCHANGED vars
    BY <1>1 DEF OnlyAfter, Touched, Due, Started, InHand, vars, locals, past
<1>2. ASSUME NEW t \in Task, TaskStep(t) PROVE OnlyAfter'
    <2>1. CASE RunStep(t, t)
        <3>1. t \in Job /\ pc[t] # "none"
            BY <2>1 DEF Task, RunStep, Begin, Succeed, Fail, Catch, FindChild, CountRemaining,
                        SetReady, SkipChild, Go
        <3> QED  BY <2>1, <3>1, RunAfter
    <2> QED  BY <1>2, <2>1, EndAfter DEF TaskStep
<1>3. ASSUME NEW s \in Stray, StrayStep(s) PROVE OnlyAfter'
    <2>1. CASE RunStep(s, lost[s])
        <3>1. pc[s] # "none"
            BY <2>1 DEF RunStep, Begin, Succeed, Fail, Catch, FindChild, CountRemaining,
                        SetReady, SkipChild, Go
        <3>2. lost[s] \in Job /\ pc[lost[s]] # "none"
            BY <3>1 DEF Hands
        <3> QED  BY <2>1, <3>2, RunAfter
    <2> QED  BY <1>3, <2>1, EndAfter DEF StrayStep
<1> QED  BY <1>1, <1>2, <1>3, ScheduleAfter, FaultAfter DEF Next

LEMMA AfterInit == Init => OnlyAfter
<1> SUFFICES ASSUME Init PROVE OnlyAfter
    OBVIOUS
<1>1. /\ wf.parents \in [Job -> SUBSET Job]
      /\ \A j \in Job : status[j] = IF wf.parents[j] = {} THEN "READY" ELSE "WAITING"
      /\ \A a \in Actor : pc[a] = IF a = Api THEN "count" ELSE "none"
    BY TypeInit, ShapeTyped DEF Init
<1>2. Job \subseteq Actor /\ Api \notin Job
    BY ActorAssumption DEF Task, Actor
<1> QED  BY <1>1, <1>2 DEF OnlyAfter, Touched, Started, InHand, Due

\* Nobody sets a job READY, claims it or runs it before its parents have run: whatever
\* crashes, throws or overlaps.
THEOREM ParentsHaveRun == Spec => []OnlyAfter
<1>1. IInv /\ OnlyAfter /\ [Next]_vars => OnlyAfter'
    BY AfterStep DEF IInv
<1> QED  BY <1>1, AfterInit, Inductive, PTL DEF Spec

-----------------------------------------------------------------------------
(* What a crash leaves: the jobs that ran, and the jobs they let start *)

\* A job that has run; after a crash its row may have been put back.
Ran(p) == then[p] = "return" /\ status[p] \in {"COMPLETED", "READY", "QUEUED"}

\* What a task knows of itself, whoever else writes its row, and a scheduler of its job.
Own ==
    /\ \A t \in Task :
          /\ then[t] # "done" => pc[t] # "none"
          /\ status[t] = "COMPLETED" => then[t] = "return"
          /\ pc[t] \in {"begin", "work", "catch"} => then[t] # "return"
          /\ pc[t] \in {"skip", "throw"} => then[t] = "throw"
          /\ pc[t] = "skip" => todo[t] \subseteq Children(t)
    /\ \A a \in Actor : pc[a] \in {"claim", "submit"} => cand[a] \in Job

\* Nobody has touched a job whose parents have not run.
AfterParents == \A j \in Job : Touched(j) => \A p \in wf.parents[j] : Ran(p)

\* Nobody will write the row of the job p, as far as its place tells.
Unwritten(p) ==
    \A a \in Actor : /\ ~(pc[a] \in {"check", "ready", "claim"} /\ cand[a] = p)
                     /\ ~(pc[a] = "walk" /\ snap[a][p] = "READY")

\* A job that had run when its process died is COMPLETED when it is delivered again.
Redelivered ==
    \A p \in Task : pc[p] = "waiting" /\ then[p] = "return" =>
        status[p] = "COMPLETED" /\ Unwritten(p)

Trail == Own /\ AfterParents /\ Redelivered

\* Without a crash no row of a job that ran is put back, and a QUEUED job has not begun.
Kept == \A t \in Task : then[t] = "return" => status[t] = "COMPLETED"
Awaited ==
    \A j \in Job : status[j] = "QUEUED" => pc[j] \in {"none", "waiting", "begin"} /\ made[j] = 0

\* A step keeps the order if a job that ran stays one, and it touches only jobs that were
\* touched or whose parents have run.
LEMMA OrderKept ==
    ASSUME TypeOK, AfterParents, wf' = wf,
           \A p \in Job : Ran(p) => Ran(p)',
           \A j \in Job : Touched(j)' => Touched(j) \/ \A p \in wf.parents[j] : Ran(p)
    PROVE  AfterParents'
BY ShapeTyped DEF AfterParents

\* A step that leaves the rows and what the actors hold of them alone.
LEMMA NothingTouched ==
    ASSUME TypeOK, AfterParents, UNCHANGED <<wf, status, then>>,
           \A j \in Job : pc[j] = "none" => pc'[j] = "none",
           \A a \in Actor, j \in Job : InHand(a, j)' => InHand(a, j)
    PROVE  AfterParents'
<1>1. \A p \in Job : Ran(p) => Ran(p)'
    BY DEF Ran
<1>2. \A j \in Job : Touched(j)' => Touched(j)
    BY DEF Touched, Started
<1> QED  BY <1>1, <1>2, OrderKept

LEMMA FindJobTrail ==
    ASSUME TypeOK, Trail, NEW t \in Task, FindJob(t) PROVE Trail'
<1>1. /\ pc[t] = "waiting" /\ UNCHANGED <<wf, status, then, todo, cand, snap>>
      /\ t \in Actor /\ t \in Job
    BY DEF FindJob, Go, locals, Task, Actor
<1>2. /\ pc'[t] = IF status[t] = "COMPLETED" THEN "done" ELSE "begin"
      /\ \A b \in Actor \ {t} : pc'[b] = pc[b]
    BY <1>1 DEF FindJob, Go, TypeOK
<1>3. status[t] # "COMPLETED" => then[t] # "return"
    BY <1>1 DEF Trail, Redelivered
<1>4. Own'
    BY <1>1, <1>2, <1>3 DEF Trail, Own, Children, Task, Actor
<1>5. \A a \in Actor, j \in Job : InHand(a, j)' => InHand(a, j)
    BY <1>1, <1>2 DEF InHand
<1>6. AfterParents'
    BY <1>1, <1>2, <1>5, NothingTouched DEF Trail, Actor, Task
<1>7. Redelivered'
    BY <1>1, <1>2 DEF Trail, Redelivered, Unwritten, Task, Actor
<1> QED  BY <1>4, <1>6, <1>7 DEF Trail

LEMMA BeginTrail ==
    ASSUME TypeOK, Trail, NEW t \in Task, Begin(t, t) PROVE Trail'
<1>1. /\ pc[t] = "begin" /\ UNCHANGED <<wf, then, todo, cand, snap>>
      /\ t \in Actor /\ t \in Job
    BY DEF Begin, Go, locals, Task, Actor
<1>2. /\ pc'[t] = "work"
      /\ \A b \in Actor \ {t} : pc'[b] = pc[b]
    BY <1>1 DEF Begin, Go, TypeOK
<1>3. then[t] # "return" /\ status[t] # "COMPLETED"
    BY <1>1 DEF Trail, Own
<1>4. /\ status'[t] \in {status[t], "PROCESSING"}
      /\ \A j \in Job \ {t} : status'[j] = status[j]
    BY <1>1 DEF Begin, TypeOK
<1>5. Own'
    BY <1>1, <1>2, <1>3, <1>4 DEF Trail, Own, Children, Task, Actor
<1>6. \A p \in Job : Ran(p) => Ran(p)'
    BY <1>1, <1>3, <1>4 DEF Ran
<1>7. \A j \in Job : Touched(j)' => Touched(j)
    BY <1>1, <1>2, <1>4 DEF Touched, Started, InHand, Actor, Task
<1>8. AfterParents'
    BY <1>1, <1>6, <1>7, OrderKept DEF Trail
<1>9. Redelivered'
    BY <1>1, <1>2, <1>3, <1>4 DEF Trail, Redelivered, Unwritten, Task, Actor
<1> QED  BY <1>5, <1>8, <1>9 DEF Trail

LEMMA SucceedTrail ==
    ASSUME TypeOK, Trail, NEW t \in Task, Succeed(t, t) PROVE Trail'
<1>1. /\ pc[t] = "work" /\ UNCHANGED <<wf, cand, snap>>
      /\ t \in Actor /\ t \in Job
    BY DEF Succeed, Go, Task, Actor
<1>2. /\ pc'[t] = "unlock" /\ then'[t] = "return"
      /\ \A b \in Actor \ {t} : pc'[b] = pc[b] /\ then'[b] = then[b] /\ todo'[b] = todo[b]
    BY <1>1 DEF Succeed, Go, TypeOK
<1>3. /\ status'[t] = "COMPLETED"
      /\ \A j \in Job \ {t} : status'[j] = status[j]
    BY <1>1 DEF Succeed, SetStatus, TypeOK
<1>4. Own'
    BY <1>1, <1>2, <1>3 DEF Trail, Own, Children, Task, Actor
<1>5. \A p \in Job : Ran(p) => Ran(p)'
    BY <1>1, <1>2, <1>3 DEF Ran, Actor, Task
<1>6. \A j \in Job : Touched(j)' => Touched(j)
    BY <1>1, <1>2, <1>3 DEF Touched, Started, InHand, Actor, Task
<1>7. AfterParents'
    BY <1>1, <1>5, <1>6, OrderKept DEF Trail
<1>8. Redelivered'
    BY <1>1, <1>2, <1>3 DEF Trail, Redelivered, Unwritten, Task, Actor
<1> QED  BY <1>4, <1>7, <1>8 DEF Trail

LEMMA FailTrail ==
    ASSUME TypeOK, Trail, NEW t \in Task, Fail(t) PROVE Trail'
<1>1. /\ pc[t] = "work" /\ UNCHANGED <<wf, status, then, todo, cand, snap>>
      /\ t \in Actor /\ t \in Job
    BY DEF Fail, Go, locals, Task, Actor
<1>2. pc'[t] = "catch" /\ \A b \in Actor \ {t} : pc'[b] = pc[b]
    BY <1>1 DEF Fail, Go, TypeOK
<1>3. Own'
    BY <1>1, <1>2 DEF Trail, Own, Children, Task, Actor
<1>4. \A a \in Actor, j \in Job : InHand(a, j)' => InHand(a, j)
    BY <1>1, <1>2 DEF InHand
<1>5. AfterParents'
    BY <1>1, <1>2, <1>4, NothingTouched DEF Trail, Actor, Task
<1>6. Redelivered'
    BY <1>1, <1>2 DEF Trail, Redelivered, Unwritten, Task, Actor
<1> QED  BY <1>3, <1>5, <1>6 DEF Trail

LEMMA CatchTrail ==
    ASSUME TypeOK, Trail, NEW t \in Task, Catch(t, t) PROVE Trail'
<1>1. /\ pc[t] = "catch" /\ UNCHANGED <<wf, cand, snap>>
      /\ t \in Actor /\ t \in Job
    BY DEF Catch, Go, Task, Actor
<1>2. /\ pc'[t] = "skip" /\ then'[t] = "throw" /\ todo'[t] = Children(t)
      /\ \A b \in Actor \ {t} : pc'[b] = pc[b] /\ then'[b] = then[b] /\ todo'[b] = todo[b]
    BY <1>1 DEF Catch, Go, TypeOK
<1>3. then[t] # "return" /\ status[t] # "COMPLETED"
    BY <1>1 DEF Trail, Own
<1>4. /\ status'[t] \in {status[t], "FAILED"}
      /\ \A j \in Job \ {t} : status'[j] = status[j]
    BY <1>1 DEF Catch, TypeOK
<1>5. Own'
    BY <1>1, <1>2, <1>3, <1>4 DEF Trail, Own, Children, Task, Actor
<1>6. \A p \in Job : Ran(p) => Ran(p)'
    BY <1>1, <1>2, <1>3, <1>4 DEF Ran, Actor, Task
<1>7. \A j \in Job : Touched(j)' => Touched(j)
    BY <1>1, <1>2, <1>4 DEF Touched, Started, InHand, Actor, Task
<1>8. AfterParents'
    BY <1>1, <1>6, <1>7, OrderKept DEF Trail
<1>9. Redelivered'
    BY <1>1, <1>2, <1>4 DEF Trail, Redelivered, Unwritten, Task, Actor
<1> QED  BY <1>5, <1>8, <1>9 DEF Trail

\* BullMQ takes the outcome: the row of a task that threw is not that of a job that ran.
LEMMA EndTrail ==
    ASSUME TypeOK, Trail, NEW t \in Task, Return(t) \/ Throw(t) PROVE Trail'
<1>1. /\ pc[t] \in {"return", "throw"} /\ UNCHANGED <<wf, status, then, todo, cand, snap>>
      /\ t \in Actor /\ t \in Job
    BY DEF Return, Throw, Go, locals, Task, Actor
<1>2. /\ pc'[t] \in {"done", "waiting"} /\ (pc'[t] = "waiting" => pc[t] = "throw")
      /\ \A b \in Actor \ {t} : pc'[b] = pc[b]
    BY <1>1 DEF Return, Throw, Go, TypeOK
<1>3. pc'[t] = "waiting" => then[t] = "throw"
    BY <1>2 DEF Trail, Own
<1>4. Own'
    BY <1>1, <1>2 DEF Trail, Own, Children, Task, Actor
<1>5. \A a \in Actor, j \in Job : InHand(a, j)' => InHand(a, j)
    BY <1>1, <1>2 DEF InHand
<1>6. AfterParents'
    BY <1>1, <1>2, <1>5, NothingTouched DEF Trail, Actor, Task
<1>7. Redelivered'
    BY <1>1, <1>2, <1>3 DEF Trail, Redelivered, Unwritten, Task, Actor
<1> QED  BY <1>4, <1>6, <1>7 DEF Trail

LEMMA FindChildTrail ==
    ASSUME TypeOK, Trail, NEW t \in Task, FindChild(t) PROVE Trail'
<1>1. /\ pc[t] = "unlock" /\ UNCHANGED <<wf, status, then, snap>>
      /\ t \in Actor /\ t \in Job
    BY DEF FindChild, Go, locals, Task, Actor
<1>2. /\ pc'[t] \in {"unlock", "count", "check"}
      /\ pc'[t] = "check" => cand'[t] \in Job /\ status[cand'[t]] = "WAITING"
      /\ \A b \in Actor \ {t} : pc'[b] = pc[b] /\ todo'[b] = todo[b] /\ cand'[b] = cand[b]
    <2>1. CASE todo[t] = {} /\ Go(t, "unlock", "count")
                    /\ UNCHANGED <<wf, status, made, locals, past, spent>>
        BY <1>1, <2>1 DEF Go, TypeOK, locals
    <2>2. CASE \E c \in todo[t] :
          /\ Go(t, "unlock", IF status[c] = "WAITING" THEN "check" ELSE "unlock")
          /\ todo' = [todo EXCEPT ![t] = @ \ {c}]
          /\ cand' = [cand EXCEPT ![t] = c]
        BY <1>1, <2>2 DEF Go, TypeOK
    <2> QED  BY <2>1, <2>2 DEF FindChild
<1>3. Own'
    BY <1>1, <1>2 DEF Trail, Own, Children, Task, Actor
<1>4. \A a \in Actor, j \in Job : InHand(a, j)' => InHand(a, j)
    BY <1>1, <1>2 DEF InHand
<1>5. AfterParents'
    BY <1>1, <1>2, <1>4, NothingTouched DEF Trail, Actor, Task
<1>6. Redelivered'
    BY <1>1, <1>2 DEF Trail, Redelivered, Unwritten, Task, Actor
<1> QED  BY <1>3, <1>5, <1>6 DEF Trail

\* The child that comes into hand has no parent left.
LEMMA CountRemainingTrail ==
    ASSUME TypeOK, Trail, NEW t \in Task, CountRemaining(t) PROVE Trail'
<1>1. /\ pc[t] = "check" /\ UNCHANGED <<wf, status, then, todo, cand, snap>>
      /\ t \in Actor /\ t \in Job
    BY DEF CountRemaining, Go, locals, Task, Actor
<1>2. /\ pc'[t] = IF RemainingDeps(cand[t]) = {} THEN "ready" ELSE "unlock"
      /\ \A b \in Actor \ {t} : pc'[b] = pc[b]
    BY <1>1 DEF CountRemaining, Go, TypeOK
<1>3. Own'
    BY <1>1, <1>2 DEF Trail, Own, Children, Task, Actor
<1>4. \A p \in Job : Ran(p) => Ran(p)'
    BY <1>1 DEF Ran
<1>5. ASSUME RemainingDeps(cand[t]) = {}, cand[t] \in Job
      PROVE  \A p \in wf.parents[cand[t]] : Ran(p)
    BY <1>5, ShapeTyped DEF RemainingDeps, Ran, Trail, Own, Task
<1>6. \A j \in Job : Touched(j)' => Touched(j) \/ \A p \in wf.parents[j] : Ran(p)
    <2>1. \A a \in Actor, j \in Job : InHand(a, j)' =>
              InHand(a, j) \/ (cand[t] = j /\ RemainingDeps(cand[t]) = {})
        BY <1>1, <1>2 DEF InHand
    <2>2. \A j \in Job : pc'[j] # "none" => pc[j] # "none"
        BY <1>1, <1>2 DEF Actor, Task
    <2> QED  BY <1>1, <1>5, <2>1, <2>2 DEF Touched, Started
<1>7. AfterParents'
    BY <1>1, <1>4, <1>6, OrderKept DEF Trail
<1>8. Redelivered'
    BY <1>1, <1>2 DEF Trail, Redelivered, Unwritten, Task, Actor
<1> QED  BY <1>3, <1>7, <1>8 DEF Trail

\* SetReady and Claim write the row of the job in the actor's hands.
LEMMA WriteTrail ==
    ASSUME TypeOK, Trail, NEW a \in Actor, (a \in Task /\ SetReady(a)) \/ Claim(a)
    PROVE  Trail'
<1>1. /\ pc[a] \in {"ready", "claim"} /\ UNCHANGED <<wf, then, todo, cand, snap>>
    BY DEF SetReady, Claim, Go, locals
<1>2. /\ pc'[a] \in {"unlock", "submit"} /\ (pc'[a] = "submit" => pc[a] = "claim")
      /\ \A b \in Actor \ {a} : pc'[b] = pc[b]
    BY <1>1 DEF SetReady, Claim, Go, TypeOK
<1>3. \A j \in Job : /\ j # cand[a] => status'[j] = status[j]
                     /\ j = cand[a] => status'[j] \in {"READY", "QUEUED"}
    BY DEF SetReady, Claim, SetStatus, TypeOK
<1>4. Own'
    BY <1>1, <1>2, <1>3 DEF Trail, Own, Children, Task, Actor
<1>5. \A p \in Job : Ran(p) => Ran(p)'
    BY <1>1, <1>3 DEF Ran
<1>6. \A j \in Job : Touched(j)' => Touched(j)
    <2>1. \A b \in Actor, j \in Job : InHand(b, j)' => InHand(b, j)
        BY <1>1, <1>2 DEF InHand
    <2>2. \A j \in Job : pc'[j] # "none" => pc[j] # "none"
        BY <1>1, <1>2 DEF Actor, Task
    <2>3. \A j \in Job : j = cand[a] => InHand(a, j)
        BY <1>1 DEF InHand
    <2>4. \A j \in Job : Started(j)' => Started(j) \/ j = cand[a]
        BY <1>3 DEF Started
    <2> QED  BY <2>1, <2>2, <2>3, <2>4 DEF Touched
<1>7. AfterParents'
    BY <1>1, <1>5, <1>6, OrderKept DEF Trail
<1>8. Redelivered'
    <2> SUFFICES ASSUME NEW p \in Task, pc'[p] = "waiting", then'[p] = "return"
                 PROVE  (status[p] = "COMPLETED" /\ Unwritten(p))'
        BY DEF Redelivered
    <2>1. p # a /\ pc[p] = "waiting" /\ then[p] = "return"
        BY <1>1, <1>2 DEF Task, Actor
    <2>2. status[p] = "COMPLETED" /\ Unwritten(p)
        BY <2>1 DEF Trail, Redelivered
    <2>3. cand[a] # p
        BY <1>1, <2>2 DEF Unwritten
    <2> QED  BY <1>1, <1>2, <1>3, <2>2, <2>3 DEF Unwritten, Task
<1> QED  BY <1>4, <1>7, <1>8 DEF Trail

\* handleParentFailure() skips no job that ran: its parents ran too, and did not throw.
LEMMA SkipChildTrail ==
    ASSUME TypeOK, Trail, NEW t \in Task, SkipChild(t) PROVE Trail'
<1>1. /\ pc[t] = "skip" /\ UNCHANGED <<wf, then, cand, snap>>
      /\ t \in Actor /\ t \in Job
    BY DEF SkipChild, Go, locals, Task, Actor
<1>2. then[t] = "throw" /\ todo[t] \subseteq Children(t)
    BY <1>1 DEF Trail, Own
<1>3. /\ pc'[t] \in {"skip", "count"} /\ todo'[t] \subseteq todo[t]
      /\ \A b \in Actor \ {t} : pc'[b] = pc[b] /\ todo'[b] = todo[b]
      /\ \A j \in Job : status'[j] # status[j] => j \in todo[t] /\ status'[j] = "SKIPPED"
    <2>1. CASE todo[t] = {} /\ Go(t, "skip", "count")
                    /\ UNCHANGED <<wf, status, made, locals, past, spent>>
        BY <1>1, <2>1 DEF Go, TypeOK, locals
    <2>2. CASE \E c \in todo[t] :
          /\ pc[t] = "skip"
          /\ todo' = [todo EXCEPT ![t] = @ \ {c}]
          /\ status' = IF c \in wf.strict THEN [status EXCEPT ![c] = "SKIPPED"] ELSE status
          /\ UNCHANGED <<wf, pc, made, then, cand, snap, stack, past, spent>>
        BY <1>1, <2>2 DEF TypeOK
    <2> QED  BY <2>1, <2>2 DEF SkipChild
<1>4. \A j \in todo[t] : ~Touched(j)
    BY <1>2 DEF Trail, AfterParents, Ran, Children
<1>5. Own'
    BY <1>1, <1>2, <1>3 DEF Trail, Own, Children, Task, Actor
<1>6. \A p \in Job : Ran(p) => Ran(p)'
    BY <1>1, <1>3, <1>4 DEF Ran, Touched, Started
<1>7. \A j \in Job : Touched(j)' => Touched(j)
    <2>1. \A b \in Actor, j \in Job : InHand(b, j)' => InHand(b, j)
        BY <1>1, <1>3 DEF InHand
    <2>2. \A j \in Job : pc'[j] # "none" => pc[j] # "none"
        BY <1>1, <1>3 DEF Actor, Task
    <2>3. \A j \in Job : Started(j)' => Started(j)
        BY <1>3 DEF Started
    <2> QED  BY <2>1, <2>2, <2>3 DEF Touched
<1>8. AfterParents'
    BY <1>1, <1>6, <1>7, OrderKept DEF Trail
<1>9. Redelivered'
    <2> SUFFICES ASSUME NEW p \in Task, pc'[p] = "waiting", then'[p] = "return"
                 PROVE  (status[p] = "COMPLETED" /\ Unwritten(p))'
        BY DEF Redelivered
    <2>1. p # t /\ pc[p] = "waiting" /\ then[p] = "return"
        BY <1>1, <1>3 DEF Task, Actor
    <2>2. status[p] = "COMPLETED" /\ Unwritten(p)
        BY <2>1 DEF Trail, Redelivered
    <2>3. status'[p] = "COMPLETED"
        BY <1>3, <1>4, <2>2 DEF Task, Touched, Started
    <2> QED  BY <1>1, <1>3, <2>2, <2>3 DEF Unwritten
<1> QED  BY <1>5, <1>8, <1>9 DEF Trail

LEMMA TaskTrail ==
    ASSUME TypeOK, Trail, NEW t \in Task, TaskStep(t) PROVE Trail'
BY FindJobTrail, BeginTrail, SucceedTrail, FailTrail, CatchTrail, EndTrail, FindChildTrail,
   CountRemainingTrail, WriteTrail, SkipChildTrail DEF TaskStep, RunStep, Actor

\* A scheduler goes on, or ends where its call came from, and writes no row.
LEMMA GoesOnTrail ==
    ASSUME TypeOK, Trail, NEW a \in Actor, UNCHANGED <<wf, status, then, todo>>,
           pc[a] \in {"count", "pick", "walk", "submit"},
           pc'[a] \in {"pick", "walk", "claim", then[a]},
           \A b \in Actor \ {a} : \/ pc'[b] = pc[b]
                                  \/ pc[b] = "none" /\ pc'[b] = "waiting" /\ cand[a] = b
                                     /\ pc[a] = "submit" /\ b \in Task,
           \A b \in Actor \ {a} : cand'[b] = cand[b] /\ snap'[b] = snap[b],
           pc'[a] = "walk" => snap'[a] \in {snap[a], status} /\ (pc[a] = "walk" \/ snap'[a] = status),
           pc'[a] = "claim" => /\ pc[a] = "walk" /\ cand'[a] \in Job
                               /\ snap[a][cand'[a]] = "READY" \/ status[cand'[a]] = "READY"
    PROVE  Trail'
<1>0. then[a] \in {"return", "throw", "done"} /\ pc \in [Actor -> PC]
    BY DEF TypeOK
<1>1. Own'
    BY <1>0 DEF Trail, Own, Children, Task, Actor
<1>2. \A p \in Job : Ran(p) => Ran(p)'
    BY DEF Ran
<1>3. \A j \in Job : InHand(a, j)' => Touched(j)
    BY <1>0 DEF Touched, InHand, Started
<1>4. \A b \in Actor, j \in Job : b # a => (InHand(b, j)' => InHand(b, j))
    BY DEF InHand
<1>5. \A j \in Job : pc'[j] # "none" => Touched(j)
    <2>1. \A j \in Job : j \in Actor /\ Task = Job
        BY DEF Actor, Task
    <2>2. \A j \in Job : pc[j] = "none" /\ pc'[j] # "none" => pc[a] = "submit" /\ cand[a] = j
        BY <2>1
    <2> QED  BY <2>2 DEF Touched, InHand
<1>6. \A j \in Job : Touched(j)' => Touched(j)
    BY <1>3, <1>4, <1>5 DEF Touched, Started
<1>7. AfterParents'
    BY <1>2, <1>6, OrderKept DEF Trail
<1>8. Redelivered'
    <2> SUFFICES ASSUME NEW p \in Task, pc'[p] = "waiting", then'[p] = "return"
                 PROVE  (status[p] = "COMPLETED" /\ Unwritten(p))'
        BY DEF Redelivered
    <2>1. pc[p] = "waiting" /\ then[p] = "return" /\ p \in Actor
        BY <1>0 DEF Trail, Own, Actor
    <2>2. status[p] = "COMPLETED" /\ Unwritten(p)
        BY <2>1 DEF Trail, Redelivered
    <2>3. /\ ~(pc'[a] \in {"check", "ready", "claim"} /\ cand'[a] = p)
          /\ ~(pc'[a] = "walk" /\ snap'[a][p] = "READY")
        BY <1>0, <2>2 DEF Unwritten
    <2>4. \A b \in Actor : b # a => /\ ~(pc'[b] \in {"check", "ready", "claim"} /\ cand'[b] = p)
                                    /\ ~(pc'[b] = "walk" /\ snap'[b][p] = "READY")
        BY <2>2 DEF Unwritten
    <2> QED  BY <2>2, <2>3, <2>4 DEF Unwritten
<1> QED  BY <1>1, <1>7, <1>8 DEF Trail

LEMMA WalkTrail ==
    ASSUME TypeOK, Trail, NEW a \in Actor,
           CountActive(a) \/ LoadRoots(a) \/ WalkFound(a) \/ WalkUp(a)
    PROVE  Trail'
<1>1. CASE CountActive(a)
    BY <1>1, GoesOnTrail DEF CountActive, Go, TypeOK, locals
<1>2. CASE LoadRoots(a)
    <2>1. snap' = [snap EXCEPT ![a] = status] /\ snap'[a] = status
        BY <1>2 DEF LoadRoots, TypeOK
    <2> QED  BY <1>2, <2>1, GoesOnTrail DEF LoadRoots, Go, TypeOK
<1>3. CASE WalkFound(a)
    <2>1. PICK j \in Job :
              /\ Visits(a, j, {"READY"})
              /\ pc' = [pc EXCEPT ![a] = "claim"]
              /\ cand' = [cand EXCEPT ![a] = j]
              /\ snap' = [snap EXCEPT ![a] = << >>]
              /\ UNCHANGED <<wf, status, made, then, todo, past, spent>>
        BY <1>3 DEF WalkFound
    <2>2. pc[a] = "walk" /\ (snap[a][j] = "READY" \/ status[j] = "READY")
        BY <2>1 DEF Visits
    <2>3. /\ pc'[a] = "claim" /\ cand'[a] = j
          /\ \A b \in Actor \ {a} : pc'[b] = pc[b] /\ cand'[b] = cand[b] /\ snap'[b] = snap[b]
        BY <2>1 DEF TypeOK
    <2> QED  BY <2>1, <2>2, <2>3, GoesOnTrail
<1>4. CASE WalkUp(a)
    <2>1. pc[a] = "walk" /\ UNCHANGED <<wf, status, then, todo, cand>>
        BY <1>4 DEF WalkUp
    <2>2. /\ pc'[a] \in {"walk", then[a]} /\ (pc'[a] = "walk" => snap'[a] = snap[a])
          /\ \A b \in Actor \ {a} : pc'[b] = pc[b] /\ snap'[b] = snap[b]
        BY <1>4 DEF WalkUp, TypeOK
    <2> QED  BY <2>1, <2>2, GoesOnTrail DEF TypeOK
<1> QED  BY <1>1, <1>2, <1>3, <1>4

\* A step that changes no more than the walk's stack.
LEMMA StackTrail ==
    ASSUME Trail, UNCHANGED <<wf, status, pc, then, todo, cand, snap>>
    PROVE  Trail'
BY DEF Trail, Own, AfterParents, Redelivered, Touched, Started, InHand, Unwritten, Ran, Children

LEMMA SubmitTrail ==
    ASSUME TypeOK, Trail, NEW a \in Actor, Submit(a) \/ SubmitThrows(a)
    PROVE  Trail'
<1>1. /\ pc[a] = "submit" /\ cand' = [cand EXCEPT ![a] = 0]
      /\ UNCHANGED <<wf, status, then, todo, snap>>
    BY DEF Submit, SubmitThrows, Go
<1>2. /\ pc'[a] = then[a]
      /\ \A b \in Actor \ {a} : \/ pc'[b] = pc[b]
                                \/ pc[b] = "none" /\ pc'[b] = "waiting" /\ cand[a] = b /\ b \in Task
    <2>1. CASE SubmitThrows(a)
        BY <2>1 DEF SubmitThrows, Go, TypeOK
    <2>2. CASE Submit(a)
        <3>c. PICK c \in Job : c = cand[a]
            BY <1>1 DEF Trail, Own
        <3>1. pc' = [pc EXCEPT ![a] = then[a], ![c] = IF @ = "none" THEN "waiting" ELSE @]
            BY <2>2, <3>c DEF Submit, SubmittedTask
        <3> QED  BY <1>1, <3>c, <3>1 DEF TypeOK, Actor, Task
    <2> QED  BY <2>1, <2>2
<1>3. \A b \in Actor \ {a} : cand'[b] = cand[b]
    BY <1>1 DEF TypeOK
<1>4. then[a] \in {"return", "throw", "done"}
    BY DEF TypeOK
<1> QED  BY <1>1, <1>2, <1>3, <1>4, GoesOnTrail

LEMMA ScheduleTrail ==
    ASSUME TypeOK, Trail, NEW a \in Actor, ScheduleStep(a) \/ SubmitThrows(a)
    PROVE  Trail'
<1>1. CASE WalkBlocked(a) \/ WalkDown(a) \/ WalkPast(a)
    BY <1>1, StackTrail DEF WalkBlocked, WalkDown, WalkPast
<1> QED  BY <1>1, WalkTrail, SubmitTrail, WriteTrail DEF ScheduleStep

\* The first crash: the token kept the rows of the jobs that ran out of other hands.
LEMMA CrashTrail ==
    ASSUME Core, Kept, Trail, NEW a \in Actor, Crash(a) PROVE Trail'
<1>1. /\ pc[a] \notin {"none", "waiting", "done"} /\ UNCHANGED <<wf, status, then>>
      /\ pc'[a] \in {"waiting", "done"}
      /\ \A b \in Actor \ {a} : /\ pc'[b] = pc[b] /\ todo'[b] = todo[b]
                                /\ cand'[b] = cand[b] /\ snap'[b] = snap[b]
    BY DEF Crash, TakenBack, Drop, Core, TypeOK
<1>2. Own'
    BY <1>1 DEF Trail, Own, Children, Task, Actor
<1>3. \A b \in Actor, j \in Job : InHand(b, j)' => InHand(b, j)
    BY <1>1 DEF InHand
<1>4. AfterParents'
    BY <1>1, <1>3, NothingTouched DEF Trail, Core, Actor, Task
<1>5. Redelivered'
    <2> SUFFICES ASSUME NEW p \in Task, pc'[p] = "waiting", then'[p] = "return"
                 PROVE  (status[p] = "COMPLETED" /\ Unwritten(p))'
        BY DEF Redelivered
    <2>1. p \in Actor /\ p \in Job /\ status[p] = "COMPLETED"
        BY <1>1 DEF Kept, Actor, Task
    <2>2. ASSUME Live(p) PROVE \A b \in Actor \ {p} : ~Live(b)
        BY <2>1, <2>2, TokenFacts
    <2>3. pc[p] # "waiting"
        <3>1. SUFFICES ASSUME pc[p] = "waiting" PROVE FALSE
            OBVIOUS
        <3>2. Place(p)
            BY <2>1, <3>1, TokenFacts DEF Live
        <3> QED  BY <2>1, <3>1, <3>2 DEF Place, Active
    <2>4. p = a
        BY <1>1, <2>1, <2>3
    <2>5. ASSUME NEW b \in Actor, b # a, pc[b] \in {"check", "ready", "claim", "walk"}
          PROVE  /\ pc[b] # "walk" => cand[b] # p
                 /\ pc[b] = "walk" => snap[b][p] # "READY"
        <3>1. Place(b)
            BY <2>5, TokenFacts DEF Live
        <3> QED  BY <2>1, <2>5, <3>1 DEF Place
    <2>6. Unwritten(p)'
        BY <1>1, <2>5, <2>4 DEF Unwritten
    <2> QED  BY <1>1, <2>1, <2>6
<1> QED  BY <1>2, <1>4, <1>5 DEF Trail

\* Without a crash no step takes a row from COMPLETED.
LEMMA KeptStep ==
    ASSUME Core, Trail, Kept,
           \/ \E t \in Task : TaskStep(t)
           \/ \E a \in Actor : ScheduleStep(a) \/ SubmitThrows(a)
    PROVE  Kept'
<1> USE DEF Core
<1>1. ASSUME UNCHANGED <<status, then>> PROVE Kept'
    BY <1>1 DEF Kept
<1>2. ASSUME NEW t \in Task, Begin(t, t) PROVE Kept'
    BY <1>2 DEF Begin, Go, locals, Kept, Trail, Own, TypeOK
<1>3. ASSUME NEW t \in Task, Succeed(t, t) PROVE Kept'
    BY <1>3 DEF Succeed, SetStatus, Kept, TypeOK, Task, Actor
<1>4. ASSUME NEW t \in Task, Catch(t, t) PROVE Kept'
    BY <1>4 DEF Catch, Go, Kept, TypeOK, Task, Actor
<1>5. ASSUME NEW t \in Task, SetReady(t) PROVE Kept'
    <2>1. pc[t] = "ready" /\ t \in Actor /\ Live(t) /\ then' = then
        BY <1>5 DEF SetReady, Go, Live, Task, Actor, locals
    <2>2. cand[t] \in Job /\ status[cand[t]] = "WAITING"
        BY <2>1, TokenFacts DEF Place
    <2> QED  BY <1>5, <2>1, <2>2 DEF SetReady, SetStatus, Kept, TypeOK
<1>6. ASSUME NEW a \in Actor, Claim(a) PROVE Kept'
    <2>1. pc[a] = "claim" /\ Live(a) /\ then' = then
        BY <1>6 DEF Claim, Go, Live, locals
    <2>2. cand[a] \in Job /\ status[cand[a]] = "READY"
        BY <2>1, TokenFacts DEF Place
    <2> QED  BY <1>6, <2>1, <2>2 DEF Claim, SetStatus, Kept, TypeOK
<1>7. ASSUME NEW t \in Task, SkipChild(t) PROVE Kept'
    <2>1. pc[t] = "skip" /\ then' = then /\ t \in Actor
        BY <1>7 DEF SkipChild, Go, locals, Task, Actor
    <2>2. then[t] = "throw" /\ todo[t] \subseteq Children(t)
        BY <2>1 DEF Trail, Own
    <2>3. \A j \in todo[t] : ~Touched(j)
        BY <2>2 DEF Trail, AfterParents, Ran, Children
    <2>4. \A j \in Job : status'[j] # status[j] => j \in todo[t]
        BY <1>7 DEF SkipChild, TypeOK
    <2> QED  BY <2>1, <2>3, <2>4 DEF Kept, Touched, Started, Task
<1>8. ASSUME NEW t \in Task,
             FindJob(t) \/ Fail(t) \/ Return(t) \/ Throw(t) \/ FindChild(t) \/ CountRemaining(t)
      PROVE  Kept'
    BY <1>1, <1>8 DEF FindJob, Fail, Return, Throw, FindChild, CountRemaining, locals
<1>9. ASSUME NEW a \in Actor,
             \/ CountActive(a) \/ LoadRoots(a) \/ WalkFound(a) \/ WalkBlocked(a) \/ WalkDown(a)
             \/ WalkPast(a) \/ WalkUp(a) \/ Submit(a) \/ SubmitThrows(a)
      PROVE  Kept'
    BY <1>1, <1>9 DEF CountActive, LoadRoots, WalkFound, WalkBlocked, WalkDown, WalkPast,
                      WalkUp, Submit, SubmitThrows, locals
<1> QED  BY <1>2, <1>3, <1>4, <1>5, <1>6, <1>7, <1>8, <1>9 DEF TaskStep, RunStep, ScheduleStep

\* A row gets QUEUED before BullMQ has the job, and leaves it when the job begins.
LEMMA AwaitedKept ==
    ASSUME Awaited,
           \A j \in Job : status'[j] = "QUEUED" =>
                             /\ status[j] = "QUEUED" \/ (pc[j] = "none" /\ made[j] = 0)
                             /\ pc'[j] \in {pc[j], "waiting", "begin"} /\ made'[j] = made[j]
    PROVE  Awaited'
BY DEF Awaited

LEMMA TaskAwaited ==
    ASSUME Core, Awaited, NEW t \in Task, TaskStep(t) PROVE Awaited'
<1> USE DEF Core
<1>0. t \in Actor /\ t \in Job /\ Task = Job /\ Job \subseteq Actor
    BY DEF Task, Actor
<1>1. CASE FindJob(t)
    BY <1>0, <1>1, AwaitedKept DEF FindJob, Go, TypeOK, Awaited
<1>2. CASE Begin(t, t)
    <2>1. status'[t] # "QUEUED" /\ \A j \in Job \ {t} : status'[j] = status[j]
        BY <1>0, <1>2 DEF Begin, TypeOK, Awaited
    <2>2. made' = made /\ \A j \in Job \ {t} : pc'[j] = pc[j]
        BY <1>2 DEF Begin, Go, TypeOK
    <2> QED  BY <2>1, <2>2, AwaitedKept
<1>3. CASE Succeed(t, t)
    BY <1>0, <1>3, AwaitedKept DEF Succeed, SetStatus, Go, TypeOK
<1>4. CASE Fail(t) \/ Catch(t, t)
    <2>1. pc[t] \in {"work", "catch"} /\ made' = made
        BY <1>4 DEF Fail, Catch, Go
    <2>2. status'[t] # "QUEUED" /\ \A j \in Job \ {t} : status'[j] = status[j]
        BY <1>0, <1>4, <2>1 DEF Fail, Catch, TypeOK, Awaited
    <2>3. \A j \in Job \ {t} : pc'[j] = pc[j]
        BY <1>0, <1>4 DEF Fail, Catch, Go, TypeOK
    <2> QED  BY <2>1, <2>2, <2>3, AwaitedKept
<1>5. CASE Return(t) \/ Throw(t)
    <2>1. pc[t] \in {"return", "throw"} /\ status' = status
        BY <1>5 DEF Return, Throw, Go
    <2>2. status[t] # "QUEUED"
        BY <1>0, <2>1 DEF Awaited
    <2>3. \A j \in Job \ {t} : pc'[j] = pc[j] /\ made'[j] = made[j]
        BY <1>0, <1>5 DEF Return, Throw, Go, TypeOK, Task
    <2> QED  BY <2>1, <2>2, <2>3, AwaitedKept
<1>6. CASE FindChild(t) \/ CountRemaining(t)
    <2>1. pc[t] \in {"unlock", "check"} /\ status' = status /\ made' = made
        BY <1>6 DEF FindChild, CountRemaining, Go
    <2>2. status[t] # "QUEUED"
        BY <1>0, <2>1 DEF Awaited
    <2>3. \A j \in Job \ {t} : pc'[j] = pc[j]
        BY <1>0, <1>6 DEF FindChild, CountRemaining, Go, TypeOK
    <2> QED  BY <2>1, <2>2, <2>3, AwaitedKept
<1>7. CASE SetReady(t)
    <2>1. pc[t] = "ready" /\ made' = made /\ \A j \in Job \ {t} : pc'[j] = pc[j]
        BY <1>7 DEF SetReady, Go, TypeOK
    <2>2. \A j \in Job : status'[j] = "QUEUED" => status[j] = "QUEUED"
        BY <1>7 DEF SetReady, SetStatus, TypeOK
    <2>3. status[t] # "QUEUED"
        BY <1>0, <2>1 DEF Awaited
    <2> QED  BY <1>0, <2>1, <2>2, <2>3, AwaitedKept
<1>8. CASE SkipChild(t)
    <2>1. pc[t] = "skip" /\ made' = made /\ \A j \in Job \ {t} : pc'[j] = pc[j]
        BY <1>0, <1>8 DEF SkipChild, Go, TypeOK
    <2>2. \A j \in Job : status'[j] = "QUEUED" => status[j] = "QUEUED"
        BY <1>8 DEF SkipChild, TypeOK
    <2>3. status[t] # "QUEUED"
        BY <1>0, <2>1 DEF Awaited
    <2> QED  BY <1>0, <2>1, <2>2, <2>3, AwaitedKept
<1> QED  BY <1>1, <1>2, <1>3, <1>4, <1>5, <1>6, <1>7, <1>8 DEF TaskStep, RunStep

LEMMA ScheduleAwaited ==
    ASSUME Core, Handover, Awaited, NEW a \in Actor, ScheduleStep(a) \/ SubmitThrows(a)
    PROVE  Awaited'
<1> USE DEF Core
<1>0. Job \subseteq Actor /\ Task = Job
    BY DEF Task, Actor
<1>1. CASE Claim(a)
    <2>1. pc[a] = "claim" /\ Live(a) /\ made' = made /\ \A b \in Actor \ {a} : pc'[b] = pc[b]
        BY <1>1 DEF Claim, Go, Live, TypeOK
    <2>2. cand[a] \in Job /\ status[cand[a]] = "READY"
        BY <2>1, TokenFacts DEF Place
    <2>3. pc[cand[a]] = "none" /\ made[cand[a]] = 0
        BY <2>2 DEF Handover, Fresh, Task, Bounds
    <2>4. /\ \A j \in Job : status'[j] = "QUEUED" => status[j] = "QUEUED" \/ j = cand[a]
          /\ \A j \in Job : j # cand[a] => status'[j] = status[j]
        BY <1>1 DEF Claim, SetStatus, TypeOK
    <2>5. a \in Job => status[a] # "QUEUED" /\ cand[a] # a
        BY <2>1, <2>3 DEF Awaited
    <2> QED  BY <1>0, <2>1, <2>3, <2>4, <2>5, AwaitedKept
<1>2. CASE Submit(a) \/ SubmitThrows(a)
    <2>1. pc[a] = "submit" /\ status' = status /\ made' = made
        BY <1>2 DEF Submit, SubmitThrows, Go
    <2>2. a \in Job => status[a] # "QUEUED"
        BY <2>1 DEF Awaited
    <2>3. \A j \in Job : j # a => pc'[j] \in {pc[j], "waiting"}
        <3>1. CASE SubmitThrows(a)
            BY <1>0, <3>1 DEF SubmitThrows, Go, TypeOK
        <3>2. CASE Submit(a)
            <4>1. PICK c \in Job : c = cand[a]
                BY <2>1, SchedulerEnds
            <4>2. pc' = [pc EXCEPT ![a] = then[a], ![c] = IF @ = "none" THEN "waiting" ELSE @]
                BY <3>2, <4>1 DEF Submit, SubmittedTask
            <4> QED  BY <1>0, <4>1, <4>2 DEF TypeOK
        <3> QED  BY <1>2, <3>1, <3>2
    <2> QED  BY <2>1, <2>2, <2>3, AwaitedKept
<1>3. CASE \/ CountActive(a) \/ LoadRoots(a) \/ WalkFound(a) \/ WalkBlocked(a) \/ WalkDown(a)
           \/ WalkPast(a) \/ WalkUp(a)
    <2>1. pc[a] \in {"count", "pick", "walk"} /\ status' = status /\ made' = made
        BY <1>3 DEF CountActive, LoadRoots, WalkFound, WalkBlocked, WalkDown, WalkPast, WalkUp,
                    Visits, Go
    <2>2. \A b \in Actor \ {a} : pc'[b] = pc[b]
        BY <1>3 DEF CountActive, LoadRoots, WalkFound, WalkBlocked, WalkDown, WalkPast, WalkUp,
                    Go, TypeOK
    <2>3. a \in Job => status[a] # "QUEUED"
        BY <2>1 DEF Awaited
    <2> QED  BY <1>0, <2>1, <2>2, <2>3, AwaitedKept
<1> QED  BY <1>1, <1>2, <1>3 DEF ScheduleStep

-----------------------------------------------------------------------------
(* The children that a completed job leaves to visit *)

\* The actor has still to look at the job.
Nears(a, j) ==
    \/ pc[a] \in {"unlock", "check", "ready"} /\ j \in todo[a]
    \/ pc[a] \in {"check", "ready"} /\ cand[a] = j

Visited == \A j \in Forgotten : \E a \in Actor : Nears(a, j)

\* A step that completes no job.
LEMMA VisitedKept ==
    ASSUME TypeOK, Visited, wf' = wf,
           \A j \in Job : status'[j] \in {"WAITING", "COMPLETED"} => status'[j] = status[j],
           \A a \in Actor, j \in Forgotten' : Nears(a, j) => \E b \in Actor : Nears(b, j)'
    PROVE  Visited'
<1>1. Forgotten' \subseteq Forgotten
    BY ShapeTyped DEF Forgotten
<1> QED  BY <1>1 DEF Visited

\* The actor that moves has no child to visit.
LEMMA VisitedApart ==
    ASSUME TypeOK, Visited, NEW a \in Actor, wf' = wf, pc[a] \notin {"unlock", "check", "ready"},
           \A j \in Job : status'[j] \in {"WAITING", "COMPLETED"} => status'[j] = status[j],
           \A b \in Actor \ {a} : /\ todo'[b] = todo[b] /\ cand'[b] = cand[b]
                                  /\ pc'[b] = pc[b] \/ pc[b] = "none"
    PROVE  Visited'
<1>1. \A b \in Actor, j \in Job : Nears(b, j) => Nears(b, j)'
    BY DEF Nears
<1>2. Forgotten' \subseteq Job
    BY DEF Forgotten
<1> QED  BY <1>1, <1>2, VisitedKept

LEMMA RunVisited ==
    ASSUME TypeOK, Hands, Visited, NEW a \in Task \cup Stray, NEW j \in Job, RunStep(a, j)
    PROVE  Visited'
<1>0. a \in Actor
    BY DEF Actor
<1>1. CASE Begin(a, j) \/ Fail(a) \/ Catch(a, j) \/ SkipChild(a)
    <2>1. /\ pc[a] \in {"begin", "work", "catch", "skip"} /\ wf' = wf /\ cand' = cand
          /\ \A b \in Actor \ {a} : pc'[b] = pc[b] /\ todo'[b] = todo[b]
        BY <1>0, <1>1 DEF Begin, Fail, Catch, SkipChild, Go, locals, TypeOK
    <2>2. \A i \in Job : status'[i] \in {status[i], "PROCESSING", "FAILED", "SKIPPED"}
        BY <1>1 DEF Begin, Fail, Catch, SkipChild, TypeOK
    <2> QED  BY <1>0, <2>1, <2>2, VisitedApart
<1>2. CASE Succeed(a, j)
    <2>1. /\ pc[a] = "work" /\ pc'[a] = "unlock" /\ todo'[a] = Children(j)
          /\ UNCHANGED <<wf, cand>>
          /\ \A b \in Actor \ {a} : pc'[b] = pc[b] /\ todo'[b] = todo[b]
        BY <1>0, <1>2 DEF Succeed, Go, TypeOK
    <2>2. status'[j] = "COMPLETED" /\ \A i \in Job \ {j} : status'[i] = status[i]
        BY <1>2 DEF Succeed, SetStatus, TypeOK
    <2>3. \A i \in Forgotten' : i \in Forgotten \/ i \in Children(j)
        BY <2>1, <2>2, ShapeTyped DEF Forgotten, Children
    <2>4. \A i \in Children(j) : Nears(a, i)'
        BY <2>1 DEF Nears
    <2>5. \A b \in Actor, i \in Job : Nears(b, i) => Nears(b, i)'
        BY <2>1 DEF Nears
    <2> QED  BY <1>0, <2>3, <2>4, <2>5 DEF Visited, Forgotten
<1>3. CASE FindChild(a)
    <2>1. /\ pc[a] = "unlock" /\ UNCHANGED <<wf, status>>
          /\ \A b \in Actor \ {a} : pc'[b] = pc[b] /\ todo'[b] = todo[b] /\ cand'[b] = cand[b]
        BY <1>0, <1>3 DEF FindChild, Go, locals, TypeOK
    <2>2. ASSUME NEW i \in Forgotten', Nears(a, i) PROVE Nears(a, i)'
        <3>1. i \in todo[a] /\ status[i] = "WAITING"
            BY <2>1, <2>2 DEF Nears, Forgotten
        <3>2. PICK c \in todo[a] :
                  /\ pc' = [pc EXCEPT ![a] = IF status[c] = "WAITING" THEN "check" ELSE "unlock"]
                  /\ todo' = [todo EXCEPT ![a] = @ \ {c}] /\ cand' = [cand EXCEPT ![a] = c]
            BY <1>3, <3>1 DEF FindChild, Go
        <3>3. /\ pc'[a] = IF status[c] = "WAITING" THEN "check" ELSE "unlock"
              /\ todo'[a] = todo[a] \ {c} /\ cand'[a] = c
            BY <1>0, <3>2 DEF TypeOK
        <3> QED  BY <3>1, <3>3 DEF Nears
    <2>3. \A b \in Actor \ {a}, i \in Forgotten' : Nears(b, i) => Nears(b, i)'
        BY <2>1 DEF Nears
    <2>4. \A b \in Actor, i \in Forgotten' : Nears(b, i) => Nears(b, i)'
        BY <2>2, <2>3
    <2> QED  BY <2>1, <2>4, VisitedKept
<1>4. CASE CountRemaining(a)
    <2>1. /\ pc[a] = "check" /\ UNCHANGED <<wf, status, todo, cand>>
          /\ pc'[a] = IF RemainingDeps(cand[a]) = {} THEN "ready" ELSE "unlock"
          /\ \A b \in Actor \ {a} : pc'[b] = pc[b]
        BY <1>0, <1>4 DEF CountRemaining, Go, locals, TypeOK
    <2>2. \A i \in Forgotten' : RemainingDeps(i) = {}
        BY <2>1 DEF Forgotten, RemainingDeps
    <2>3. \A b \in Actor, i \in Forgotten' : Nears(b, i) => Nears(b, i)'
        BY <2>1, <2>2 DEF Nears
    <2> QED  BY <2>1, <2>3, VisitedKept
<1>5. CASE SetReady(a)
    <2>1. /\ pc[a] = "ready" /\ pc'[a] = "unlock" /\ UNCHANGED <<wf, todo, cand>>
          /\ \A b \in Actor \ {a} : pc'[b] = pc[b]
        BY <1>0, <1>5 DEF SetReady, Go, locals, TypeOK
    <2>2. cand[a] \in Job
        BY <1>0, <2>1 DEF Hands
    <2>3. status'[cand[a]] = "READY" /\ \A i \in Job \ {cand[a]} : status'[i] = status[i]
        BY <1>5, <2>2 DEF SetReady, SetStatus, TypeOK
    <2>4. \A i \in Forgotten' : i # cand[a]
        BY <2>3 DEF Forgotten
    <2>5. \A b \in Actor, i \in Forgotten' : Nears(b, i) => Nears(b, i)'
        BY <2>1, <2>4 DEF Nears
    <2> QED  BY <2>1, <2>3, <2>5, VisitedKept
<1> QED  BY <1>1, <1>2, <1>3, <1>4, <1>5 DEF RunStep

LEMMA EndVisited ==
    ASSUME TypeOK, Visited, NEW a \in Task \cup Stray,
           (a \in Task /\ (FindJob(a) \/ Return(a) \/ Throw(a))) \/ Refuse(a)
    PROVE  Visited'
<1>0. a \in Actor
    BY DEF Actor
<1>1. /\ pc[a] \in {"waiting", "return", "throw"} /\ UNCHANGED <<wf, status, todo, cand>>
      /\ \A b \in Actor \ {a} : pc'[b] = pc[b]
    BY <1>0 DEF FindJob, Return, Throw, Refuse, Go, locals, TypeOK
<1> QED  BY <1>0, <1>1, VisitedApart

LEMMA ScheduleVisited ==
    ASSUME TypeOK, Hands, Visited, NEW a \in Actor, ScheduleStep(a) \/ SubmitThrows(a)
    PROVE  Visited'
<1>1. CASE Submit(a) \/ SubmitThrows(a)
    <2>1. /\ pc[a] = "submit" /\ cand' = [cand EXCEPT ![a] = 0] /\ UNCHANGED <<wf, status, todo>>
        BY <1>1 DEF Submit, SubmitThrows, Go
    <2>2. PICK c \in Job : c = cand[a]
        BY <2>1 DEF Hands
    <2>3. \/ pc' = [pc EXCEPT ![a] = then[a], ![c] = IF @ = "none" THEN "waiting" ELSE @]
          \/ pc' = [pc EXCEPT ![a] = then[a]]
        BY <1>1, <2>2 DEF Submit, SubmitThrows, SubmittedTask, Go
    <2>4. \A b \in Actor \ {a} : cand'[b] = cand[b] /\ (pc'[b] = pc[b] \/ pc[b] = "none")
        BY <2>1, <2>3 DEF TypeOK
    <2> QED  BY <2>1, <2>4, VisitedApart
<1>2. CASE \/ CountActive(a) \/ LoadRoots(a) \/ WalkFound(a) \/ WalkBlocked(a) \/ WalkDown(a)
           \/ WalkPast(a) \/ WalkUp(a) \/ Claim(a)
    <2>1. /\ pc[a] \in {"count", "pick", "walk", "claim"} /\ UNCHANGED <<wf, todo>>
          /\ \A b \in Actor \ {a} : pc'[b] = pc[b] /\ cand'[b] = cand[b]
          /\ \A i \in Job : status'[i] \in {status[i], "QUEUED"}
        BY <1>2 DEF CountActive, LoadRoots, WalkFound, WalkBlocked, WalkDown, WalkPast, WalkUp,
                    Claim, SetStatus, Visits, Go, locals, TypeOK
    <2> QED  BY <2>1, VisitedApart
<1> QED  BY <1>1, <1>2 DEF ScheduleStep

LEMMA LateVisited ==
    ASSUME TypeOK, Visited, NEW a \in Actor,
           ThrowLate(a) \/ (a \in Task /\ \E s \in Stray : LoseLock(a, s))
    PROVE  Visited'
<1>1. CASE ThrowLate(a)
    <2>1. /\ pc[a] = "return" /\ UNCHANGED <<wf, status, todo, cand>>
          /\ \A b \in Actor \ {a} : pc'[b] = pc[b]
        BY <1>1 DEF ThrowLate, Go, locals, TypeOK
    <2> QED  BY <2>1, VisitedApart
<1>2. CASE a \in Task /\ \E s \in Stray : LoseLock(a, s)
    <2>0. PICK s \in Stray : LoseLock(a, s)
        BY <1>2
    <2>1. s \in Actor /\ a # s
        BY <1>2, ActorAssumption DEF Actor, Task
    <2>2. /\ pc[s] \in {"none", "done"} /\ pc'[s] = pc[a] /\ cand'[s] = cand[a]
          /\ todo'[s] = todo[a] /\ UNCHANGED <<wf, status>>
          /\ \A b \in Actor \ {a, s} : pc'[b] = pc[b] /\ cand'[b] = cand[b] /\ todo'[b] = todo[b]
        BY <2>0, <2>1 DEF LoseLock, TypeOK
    <2>3. \A b \in Actor, j \in Forgotten' : Nears(b, j) => Nears(IF b = a THEN s ELSE b, j)'
        BY <2>2 DEF Nears
    <2> QED  BY <2>1, <2>2, <2>3, VisitedKept
<1> QED  BY <1>1, <1>2

\* Until a process dies or a statement throws, every forgotten child is still to be visited.
Unlocking == Unspent({"crash", "error"}) => Visited

LEMMA UnlockingStep == TypeOK /\ Hands /\ Unlocking /\ [Next]_vars => Unlocking'
<1> SUFFICES ASSUME TypeOK, Hands, Unlocking, [Next]_vars, Unspent({"crash", "error"})'
             PROVE  Visited'
    BY DEF Unlocking
<1>1. Visited /\ \A a \in Actor : ~Crash(a) /\ ~Errors(a)
    BY UnspentBefore DEF Unlocking, FaultKind
<1>2. CASE UNCHANGED vars
    BY <1>1, <1>2 DEF Visited, Forgotten, Nears, vars, locals
<1>3. ASSUME NEW t \in Task, TaskStep(t) PROVE Visited'
    BY <1>1, <1>3, RunVisited, EndVisited DEF TaskStep, Task
<1>4. ASSUME NEW s \in Stray, StrayStep(s) PROVE Visited'
    <2>1. CASE RunStep(s, lost[s])
        <3>1. pc[s] # "none"
            BY <2>1 DEF RunStep, Begin, Succeed, Fail, Catch, FindChild, CountRemaining,
                        SetReady, SkipChild, Go
        <3>2. lost[s] \in Job
            BY <3>1 DEF Hands
        <3> QED  BY <1>1, <2>1, <3>2, RunVisited
    <2> QED  BY <1>1, <1>4, <2>1, EndVisited DEF StrayStep
<1> QED  BY <1>1, <1>2, <1>3, <1>4, ScheduleVisited, LateVisited DEF Next, Fault

-----------------------------------------------------------------------------
(* The jobs BullMQ never had *)

Lost == {j \in Stranded : pc[j] = "none"}

LEMMA LostKept ==
    ASSUME \A j \in Job : status'[j] = "QUEUED" => status[j] = "QUEUED",
           \A j \in Job : pc'[j] = "none" => pc[j] = "none",
           \A a \in Actor : pc[a] = "submit" =>
               \E b \in Actor : pc'[b] = "submit" /\ cand'[b] = cand[a]
    PROVE  Lost' \subseteq Lost
BY DEF Lost, Stranded

\* An actor moves that has nothing to submit.
LEMMA LostApart ==
    ASSUME NEW a \in Actor, pc[a] \notin {"none", "submit"}, pc'[a] # "none",
           \A j \in Job : status'[j] = "QUEUED" => status[j] = "QUEUED",
           \A b \in Actor \ {a} : pc'[b] = pc[b] /\ cand'[b] = cand[b]
    PROVE  Lost' \subseteq Lost
<1>1. Job \subseteq Actor
    BY DEF Actor, Task
<1> QED  BY <1>1, LostKept

\* Only a submission that does not happen loses a job: it costs a fault.
LEMMA LostStep ==
    ASSUME TypeOK, Hands, [Next]_vars
    PROVE  \/ Lost' \subseteq Lost
           \/ /\ \E a \in Actor : Crash(a) \/ SubmitThrows(a)
              /\ \E j \in Job : Lost' \subseteq Lost \cup {j}
<1>0. Task = Job /\ Job \subseteq Actor
    BY DEF Task, Actor
<1>1. \A j \in Job : j \in Lost <=> /\ status[j] = "QUEUED" /\ pc[j] = "none"
                                    /\ \A a \in Actor : ~(pc[a] = "submit" /\ cand[a] = j)
    BY DEF Lost, Stranded
<1>2. Lost' \subseteq Job /\ \A j \in Lost' :
          /\ status'[j] = "QUEUED" /\ pc'[j] = "none"
          /\ \A a \in Actor : ~(pc'[a] = "submit" /\ cand'[a] = j)
    BY DEF Lost, Stranded
<1>4. CASE UNCHANGED vars
    BY <1>4, LostKept DEF vars, locals
<1>5. ASSUME NEW a \in Task \cup Stray, NEW j, RunStep(a, j) PROVE Lost' \subseteq Lost
    <2>1. a \in Actor
        BY DEF Actor
    <2>2. \A i \in Job : status'[i] = "QUEUED" => status[i] = "QUEUED"
        BY <1>5 DEF RunStep, Begin, Succeed, Fail, Catch, FindChild, CountRemaining, SetReady,
                    SkipChild, SetStatus, locals, TypeOK
    <2>3. /\ pc[a] \notin {"none", "submit"} /\ pc'[a] # "none"
          /\ \A b \in Actor \ {a} : pc'[b] = pc[b] /\ cand'[b] = cand[b]
        BY <1>5, <2>1 DEF RunStep, Begin, Succeed, Fail, Catch, FindChild, CountRemaining,
                          SetReady, SkipChild, Go, locals, TypeOK
    <2> QED  BY <2>1, <2>2, <2>3, LostApart
<1>6. ASSUME NEW a \in Task \cup Stray,
             (a \in Task /\ (FindJob(a) \/ Return(a) \/ Throw(a))) \/ Refuse(a)
      PROVE  Lost' \subseteq Lost
    <2>1. a \in Actor
        BY DEF Actor
    <2>2. /\ pc[a] \in {"waiting", "return", "throw"} /\ pc'[a] # "none" /\ status' = status
          /\ \A b \in Actor \ {a} : pc'[b] = pc[b] /\ cand'[b] = cand[b]
        BY <1>6, <2>1 DEF FindJob, Return, Throw, Refuse, Go, locals, TypeOK
    <2> QED  BY <2>1, <2>2, LostApart
<1>7. ASSUME NEW a \in Actor,
             \/ CountActive(a) \/ LoadRoots(a) \/ WalkFound(a) \/ WalkBlocked(a) \/ WalkDown(a)
             \/ WalkPast(a) \/ WalkUp(a) \/ Errors(a) \/ ThrowLate(a)
      PROVE  Lost' \subseteq Lost
    <2>1. /\ pc[a] \notin {"none", "submit"} /\ status' = status
          /\ \A b \in Actor \ {a} : pc'[b] = pc[b] /\ cand'[b] = cand[b]
          /\ pc'[a] # "none"
        BY <1>7 DEF CountActive, LoadRoots, WalkFound, WalkBlocked, WalkDown, WalkPast, WalkUp,
                    Errors, ThrowLate, Drop, Visits, Go, locals, TypeOK
    <2> QED  BY <2>1, LostApart
<1>8. ASSUME NEW a \in Actor, Claim(a) PROVE Lost' \subseteq Lost
    <2>1. /\ pc[a] = "claim" /\ pc'[a] = "submit" /\ cand' = cand
          /\ \A b \in Actor \ {a} : pc'[b] = pc[b]
          /\ \A j \in Job : j # cand[a] => status'[j] = status[j]
        BY <1>8 DEF Claim, Go, SetStatus, locals, TypeOK
    <2> QED  BY <1>0, <1>1, <1>2, <2>1
<1>9. ASSUME NEW a \in Actor, Submit(a) PROVE Lost' \subseteq Lost
    <2>c. PICK c \in Job : c = cand[a]
        BY <1>9 DEF Submit, Hands
    <2>1. /\ pc[a] = "submit" /\ status' = status /\ then[a] # "none"
          /\ \A b \in Actor \ {a} : cand'[b] = cand[b]
        BY <1>9 DEF Submit, TypeOK
    <2>2. pc' = [pc EXCEPT ![a] = then[a], ![c] = IF @ = "none" THEN "waiting" ELSE @]
        BY <1>9, <2>c DEF Submit, SubmittedTask
    <2>3. /\ pc'[c] # "none" /\ \A j \in Job : pc'[j] = "none" => pc[j] = "none"
          /\ \A b \in Actor \ {a} : pc[b] = "submit" => pc'[b] = "submit"
        BY <1>0, <2>1, <2>2 DEF TypeOK
    <2> QED  BY <1>0, <1>1, <1>2, <2>c, <2>1, <2>3
<1>10. ASSUME NEW a \in Actor, Crash(a) \/ SubmitThrows(a)
       PROVE  Lost' \subseteq Lost \/ \E j \in Job : Lost' \subseteq Lost \cup {j}
    <2>1. /\ pc[a] # "none" /\ pc'[a] # "none" /\ status' = status
          /\ \A b \in Actor \ {a} : pc'[b] = pc[b] /\ cand'[b] = cand[b]
        BY <1>10 DEF Crash, TakenBack, Drop, SubmitThrows, Go, TypeOK
    <2>2. Lost' \subseteq Lost \cup {cand[a]}
        BY <1>0, <1>1, <1>2, <2>1
    <2> QED  BY <1>2, <2>2
<1>11. ASSUME NEW t \in Task, NEW s \in Stray, LoseLock(t, s) PROVE Lost' \subseteq Lost
    <2>1. s \in Actor /\ t \in Actor /\ t # s /\ Stray \cap Job = {}
        BY ActorAssumption DEF Actor, Task
    <2>2. /\ pc[t] # "none" /\ pc'[t] # "none" /\ pc[s] \in {"none", "done"} /\ status' = status
          /\ pc'[s] = pc[t] /\ cand'[s] = cand[t]
          /\ \A b \in Actor \ {t, s} : pc'[b] = pc[b] /\ cand'[b] = cand[b]
        BY <1>11, <2>1 DEF LoseLock, TakenBack, TypeOK
    <2>3. \A j \in Job : pc'[j] = "none" => pc[j] = "none"
        BY <1>0, <2>1, <2>2
    <2>4. \A a \in Actor : pc[a] = "submit" =>
              \E b \in Actor : pc'[b] = "submit" /\ cand'[b] = cand[a]
        BY <2>1, <2>2
    <2> QED  BY <2>2, <2>3, <2>4, LostKept
<1>12. ASSUME NEW t \in Task, TaskStep(t) PROVE Lost' \subseteq Lost
    BY <1>5, <1>6, <1>12 DEF TaskStep
<1>13. ASSUME NEW s \in Stray, StrayStep(s) PROVE Lost' \subseteq Lost
    BY <1>5, <1>6, <1>13 DEF StrayStep
<1> QED  BY <1>4, <1>7, <1>8, <1>9, <1>10, <1>11, <1>12, <1>13 DEF Next, ScheduleStep, Fault

LEMMA LostCounted ==
    ASSUME TypeOK, Hands, [Next]_vars,
           Cardinality(Lost) <= spent["crash"] + spent["throw"]
    PROVE  (Cardinality(Lost) <= spent["crash"] + spent["throw"])'
<1>1. IsFiniteSet(Lost) /\ Lost \subseteq Job /\ Cardinality(Lost) \in Nat
    BY JobAssumption, FS_Subset, FS_CardinalityType DEF Lost, Stranded
<1>2. /\ spent["crash"] \in Nat /\ spent["throw"] \in Nat
      /\ spent'["crash"] \in Nat /\ spent'["throw"] \in Nat
      /\ spent'["crash"] >= spent["crash"] /\ spent'["throw"] >= spent["throw"]
    BY FaultsCounted DEF FaultKind
<1>4. CASE Lost' \subseteq Lost
    <2>1. Cardinality(Lost') \in Nat /\ Cardinality(Lost') <= Cardinality(Lost)
        BY <1>1, <1>4, FS_Subset, FS_CardinalityType
    <2> QED  BY <1>1, <1>2, <2>1
<1>5. CASE /\ \E a \in Actor : Crash(a) \/ SubmitThrows(a)
           /\ \E j \in Job : Lost' \subseteq Lost \cup {j}
    <2>1. PICK j \in Job : Lost' \subseteq Lost \cup {j}
        BY <1>5
    <2> DEFINE L == Lost \cup {j}
    <2>2. IsFiniteSet(L) /\ Cardinality(L) \in Nat /\ Cardinality(L) <= Cardinality(Lost) + 1
        <3>1. /\ IsFiniteSet(L)
              /\ Cardinality(L) = IF j \in Lost THEN Cardinality(Lost) ELSE Cardinality(Lost) + 1
            BY <1>1, FS_AddElement
        <3> QED  BY <1>1, <3>1
    <2>3. Cardinality(Lost') \in Nat /\ Cardinality(Lost') <= Cardinality(L)
        BY <2>1, <2>2, FS_Subset, FS_CardinalityType
    <2>4. spent'["crash"] = spent["crash"] + 1 \/ spent'["throw"] = spent["throw"] + 1
        BY <1>5, FaultsCounted
    <2> QED  BY <1>1, <1>2, <2>2, <2>3, <2>4
<1> QED  BY <1>4, <1>5, LostStep

-----------------------------------------------------------------------------
(* What holds after a crash *)

\* No statement threw but submitJob()'s, and no run lost its task and went on.
Calm == Unspent({"error", "late", "lock"})

\* What holds of the jobs that ran: all of it until a process dies, the trail until a
\* second one does.
Aftermath ==
    /\ Calm /\ spent["crash"] = 0 => Kept /\ Awaited
    /\ Calm /\ spent["crash"] <= 1 => Trail

LEMMA AftermathInit == Init => Aftermath /\ Unlocking /\ Cardinality(Lost) <= spent["crash"] + spent["throw"]
<1> SUFFICES ASSUME Init
             PROVE  Aftermath /\ Unlocking /\ Cardinality(Lost) <= spent["crash"] + spent["throw"]
    OBVIOUS
<1>1. /\ wf.parents \in [Job -> SUBSET Job]
      /\ \A j \in Job : status[j] = IF wf.parents[j] = {} THEN "READY" ELSE "WAITING"
      /\ \A a \in Actor : pc[a] = (IF a = Api THEN "count" ELSE "none") /\ then[a] = "done"
    BY TypeInit, ShapeTyped DEF Init
<1>2. Job \subseteq Actor /\ Task = Job /\ Api \notin Job
    BY ActorAssumption DEF Task, Actor
<1>3. Kept /\ Awaited
    BY <1>1, <1>2 DEF Kept, Awaited
<1>4. Own /\ Redelivered
    BY <1>1, <1>2 DEF Own, Redelivered
<1>5. AfterParents
    BY <1>1, <1>2 DEF AfterParents, Touched, Started, InHand
<1>6. Lost = {} /\ Forgotten = {}
    BY <1>1 DEF Lost, Stranded, Forgotten
<1>7. spent["crash"] = 0 /\ spent["throw"] = 0
    BY DEF Init, FaultKind
<1> QED  BY <1>3, <1>4, <1>5, <1>6, <1>7, FS_EmptySet DEF Aftermath, Trail, Unlocking, Visited

LEMMA AftermathStep == IInv /\ Aftermath /\ [Next]_vars => Aftermath'
<1> SUFFICES ASSUME IInv, Aftermath, [Next]_vars, Calm' PROVE Aftermath'
    BY DEF Aftermath
<1>0. TypeOK /\ Bounds /\ Hands
    BY DEF IInv
<1>1. /\ Calm /\ \A a \in Actor : ~Errors(a) /\ ~ThrowLate(a)
      /\ \A t \in Task, s \in Stray : ~LoseLock(t, s)
    BY <1>0, UnspentBefore DEF Calm, FaultKind
<1>2. \A s \in Stray : ~StrayStep(s)
    BY <1>0, <1>1, NoStrayStep DEF Calm, Unspent
<1>3. /\ spent["crash"] \in Nat /\ spent'["crash"] \in Nat /\ spent'["crash"] >= spent["crash"]
      /\ (\E a \in Actor : Crash(a)) => spent'["crash"] = spent["crash"] + 1
    BY <1>0, FaultsCounted DEF FaultKind
<1>4. spent["crash"] = 0 => Core /\ Handover /\ Kept /\ Awaited /\ Trail
    BY <1>1 DEF IInv, Orderly, Calm, Unspent, Core, Aftermath
<1>5. ASSUME spent'["crash"] = 0 PROVE Kept' /\ Awaited'
    <2>1. spent["crash"] = 0 /\ \A a \in Actor : ~Crash(a)
        BY <1>3, <1>5
    <2>2. Core /\ Handover /\ Kept /\ Awaited /\ Trail
        BY <1>4, <2>1
    <2>3. CASE UNCHANGED vars
        BY <2>2, <2>3 DEF Kept, Awaited, vars, locals
    <2> QED  BY <1>1, <1>2, <2>1, <2>2, <2>3, KeptStep, TaskAwaited, ScheduleAwaited DEF Next, Fault
<1>6. ASSUME spent'["crash"] <= 1 PROVE Trail'
    <2>1. Trail
        BY <1>1, <1>3, <1>6 DEF Aftermath
    <2>2. CASE UNCHANGED vars
        BY <2>1, <2>2, StackTrail DEF vars, locals
    <2>3. ASSUME NEW a \in Actor, Crash(a) PROVE Trail'
        <3>1. spent["crash"] = 0
            BY <1>3, <1>6, <2>3
        <3> QED  BY <1>4, <2>3, <3>1, CrashTrail
    <2> QED  BY <1>0, <1>1, <1>2, <2>1, <2>2, <2>3, TaskTrail, ScheduleTrail DEF Next, Fault
<1> QED  BY <1>5, <1>6 DEF Aftermath

\* What a process that died leaves: onJobCompleted() of a redelivered job and the calls of
\* scheduleNextJob() that now overlap put rows of jobs back, but no job is touched whose
\* parents have not run, as their rows tell.
THEOREM AfterOneCrash == Spec => []Aftermath
<1>1. Init => Aftermath
    BY AftermathInit
<1> QED  BY <1>1, AftermathStep, Inductive, PTL DEF Spec

\* No job starts before its parents have run, whatever the graph, cycles included, and
\* whatever crashes, throws or overlaps; and the rows of the parents say so until they are
\* put back.
THEOREM ParentsFirst == Spec => []DependencyOrder
<1>1. IInv /\ OnlyAfter /\ Aftermath => DependencyOrder
    <2> SUFFICES ASSUME IInv, OnlyAfter, Aftermath PROVE DependencyOrder
        OBVIOUS
    <2>1. \A j \in Job : Started(j) \/ pc[j] # "none" => wf.parents[j] \subseteq ran
        BY DEF OnlyAfter, Touched, Due
    <2>2. ASSUME spent["crash"] <= 1, Calm, NEW j \in Job, Started(j), NEW p \in wf.parents[j]
          PROVE  status[p] = "COMPLETED" \/ PutBack(p)
        <3>1. p \in Job /\ p \in Task
            BY ShapeTyped DEF IInv, Task
        <3>2. Trail /\ Ran(p)
            BY <2>2 DEF Aftermath, Trail, AfterParents, Touched
        <3>3. CASE spent["crash"] = 0
            BY <2>2, <3>1, <3>2, <3>3 DEF Aftermath, Kept, Ran
        <3>4. CASE spent["crash"] # 0
            <4>1. spent["crash"] = 1
                BY <2>2, <3>4 DEF IInv, TypeOK, FaultKind
            <4>2. then[p] = "return" /\ status[p] \in {"COMPLETED", "READY", "QUEUED"}
                BY <3>2 DEF Ran
            <4>3. pc[p] \notin {"none", "begin", "work"}
                BY <3>1, <3>2, <4>2 DEF Trail, Own
            <4>4. pc[p] = "waiting" => status[p] = "COMPLETED"
                BY <3>1, <3>2, <4>2 DEF Trail, Redelivered
            <4> QED  BY <4>1, <4>2, <4>3, <4>4 DEF PutBack
        <3> QED  BY <3>3, <3>4
    <2> QED  BY <2>1, <2>2 DEF DependencyOrder, Calm
<1> QED  BY <1>1, Inductive, ParentsHaveRun, AfterOneCrash, PTL

\* Every job that BullMQ never had cost a crash or a submitJob() that threw, however many
\* faults there are; no job that has begun is left QUEUED, and no child is forgotten, but
\* after the faults that StrandedOnlyByFault names.
THEOREM NothingStranded == Spec => []StrandedOnlyByFault
<1> DEFINE Paid == Cardinality(Lost) <= spent["crash"] + spent["throw"]
<1>1. Init => Paid /\ Unlocking
    BY AftermathInit
<1>2. IInv /\ Paid /\ Unlocking /\ [Next]_vars => Paid' /\ Unlocking'
    BY LostCounted, UnlockingStep DEF IInv
<1>3. IInv /\ Aftermath /\ Paid /\ Unlocking => StrandedOnlyByFault
    <2> SUFFICES ASSUME IInv, Aftermath, Paid, Unlocking PROVE StrandedOnlyByFault
        OBVIOUS
    <2>1. ASSUME Unspent({"crash", "error", "late", "lock"}), NEW j \in Stranded
          PROVE  pc[j] # "done"
        <3>1. Awaited
            BY <2>1 DEF Aftermath, Calm, Unspent
        <3> QED  BY <3>1 DEF Awaited, Stranded
    <2>2. ASSUME Unspent({"crash", "error"}), Quiescent PROVE Forgotten = {}
        <3>1. Visited
            BY <2>2 DEF Unlocking
        <3> QED  BY <2>2, <3>1 DEF Visited, Nears, Quiescent
    <2> QED  BY <2>1, <2>2 DEF StrandedOnlyByFault, Lost
<1> HIDE DEF Paid
<1> QED  BY <1>1, <1>2, <1>3, Inductive, AfterOneCrash, PTL DEF Spec
=============================================================================
