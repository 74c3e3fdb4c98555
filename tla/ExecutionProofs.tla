--------------------------- MODULE ExecutionProofs ---------------------------
(***************************************************************************)
(* Proofs about JobExecution for every set of jobs, recurring or not, every *)
(* number of workers, attempts and faults, and every rate limit.           *)
(***************************************************************************)
EXTENDS JobExecution, SequenceTheorems, TLAPS

-----------------------------------------------------------------------------
(* The inductive invariant *)

\* A worker that is not idle has a job.
Busy(w) == run[w].pc # "idle"

\* BullMQ's side: an active job is locked by the worker that runs it, with the attempt
\* count it was delivered with, and a job still to be run has attempts and stalls left.
Locks ==
    /\ \A w \in Worker : Busy(w) => run[w].job \in Job
    /\ \A j \in Job : lock[j] # None =>
          bull[j] = "active" /\ Busy(lock[j]) /\ run[lock[j]].job = j /\ run[lock[j]].made = made[j]
    /\ \A j \in Job : bull[j] = "active" => lock[j] # None
    /\ \A j \in Job : bull[j] \in {"waiting", "active"} =>
          made[j] < MaxAttempts /\ stalls[j] <= MaxStalled
    /\ \A f \in FaultKind : budget[f] <= Faults[f]

\* The awaits after execute() has found the row not COMPLETED, up to the one that
\* makes it so.
Working == {"sequence", "save", "stamp", "attempt", "begin", "process",
            "rowCompleted", "complete", "rowFailed", "markFailed"}

\* Without failing statements and lost locks a run has its job for itself ...
Alone == Reliable => \A w \in Worker : Busy(w) => lock[run[w].job] = w

\* ... and what it has done so far is what the row says.
RowOf(w) ==
    LET s == status[run[w].job]
        failed == s = "FAILED" \/ ~IsLastAttempt(w)
    IN  /\ run[w].pc \in Working /\ run[w].job \notin Recurring => s # "COMPLETED"
        /\ run[w].pc \in {"chain", "count", "skip", "return"} => s = "COMPLETED"
        /\ run[w].pc \in InCatch => run[w].threw
        /\ run[w].threw => run[w].pc \in InCatch \cup {"finally", "throw"}
        /\ run[w].pc = "countFailed" => s = "FAILED"
        /\ run[w].pc = "parent" => failed
        /\ run[w].pc = "finally" => IF run[w].threw THEN failed ELSE s = "COMPLETED"
        /\ run[w].pc = "throw" => failed \/ tally[run[w].job].limited > 0

RowsAgree == Reliable => \A w \in Worker : Busy(w) => RowOf(w)

IInv == TypeOK /\ Locks /\ Alone /\ RowsAgree /\ OutcomeAgrees

-----------------------------------------------------------------------------
(* What the steps have in common *)

\* A step of w inside execute(): w keeps its job, BullMQ and the other workers are not
\* touched.
Inner(w) ==
    /\ Busy(w) /\ Busy(w)'
    /\ run'[w].job = run[w].job /\ run'[w].made = run[w].made
    /\ \A v \in Worker \ {w} : run'[v] = run[v]
    /\ UNCHANGED <<bull, made, lock, stalls, events>>

InnerStep(w) ==
    \/ RateCheck(w) \/ FindJob(w) \/ SkipCompleted(w) \/ ReadSequence(w) \/ SaveSequence(w)
    \/ StampJob(w) \/ StartAttempt(w) \/ Begin(w) \/ ProcessSucceeds(w) \/ ProcessFails(w)
    \/ RowCompleted(w) \/ Complete(w) \/ ChainCompleted(w) \/ CountCompleted(w)
    \/ RowFailed(w) \/ MarkFailed(w) \/ CountFailed(w) \/ ParentFailure(w) \/ Finally(w)

LEMMA InnerSteps ==
    ASSUME TypeOK, NEW w \in Worker, InnerStep(w)
    PROVE  Inner(w) /\ budget' = budget
  <1> USE DEF TypeOK, Inner, Busy, At, Go, bullVars
  <1>1. CASE RateCheck(w)  BY <1>1 DEF RateCheck
  <1>2. CASE FindJob(w)  BY <1>2 DEF FindJob
  <1>3. CASE SkipCompleted(w)  BY <1>3 DEF SkipCompleted
  <1>4. CASE ReadSequence(w)  BY <1>4 DEF ReadSequence
  <1>5. CASE SaveSequence(w)  BY <1>5 DEF SaveSequence
  <1>6. CASE StampJob(w)  BY <1>6 DEF StampJob
  <1>7. CASE StartAttempt(w)  BY <1>7 DEF StartAttempt
  <1>8. CASE Begin(w)  BY <1>8 DEF Begin
  <1>9. CASE ProcessSucceeds(w)  BY <1>9 DEF ProcessSucceeds
  <1>10. CASE ProcessFails(w)  BY <1>10 DEF ProcessFails
  <1>11. CASE RowCompleted(w)  BY <1>11 DEF RowCompleted
  <1>12. CASE Complete(w)  BY <1>12 DEF Complete
  <1>13. CASE ChainCompleted(w)  BY <1>13 DEF ChainCompleted
  <1>14. CASE CountCompleted(w)  BY <1>14 DEF CountCompleted
  <1>15. CASE RowFailed(w)  BY <1>15 DEF RowFailed
  <1>16. CASE MarkFailed(w)  BY <1>16 DEF MarkFailed
  <1>17. CASE CountFailed(w)  BY <1>17 DEF CountFailed
  <1>18. CASE ParentFailure(w)  BY <1>18 DEF ParentFailure
  <1>19. CASE Finally(w)  BY <1>19 DEF Finally
  <1> QED  BY <1>1, <1>2, <1>3, <1>4, <1>5, <1>6, <1>7, <1>8, <1>9, <1>10, <1>11, <1>12, <1>13,
              <1>14, <1>15, <1>16, <1>17, <1>18, <1>19 DEF InnerStep

\* A statement that throws is a step inside execute() too.
LEMMA ThrowingStep ==
    ASSUME TypeOK, NEW w \in Worker, AwaitThrows(w)
    PROVE  Inner(w)
  BY DEF AwaitThrows, TypeOK, Inner, Busy, BeforeTry, InTry, InCatch, bullVars

\* Faults are only ever spent.
LEMMA BudgetStep ==
    ASSUME TypeOK, Locks, [Next]_vars
    PROVE  /\ budget' \in [FaultKind -> Nat]
           /\ \A f \in FaultKind : budget'[f] <= budget[f] /\ budget'[f] <= Faults[f]
           /\ Reliable' => Reliable
  <1>1. budget' = budget \/ \E f \in FaultKind : Spend(f)
    <2>1. ASSUME NEW w \in Worker, InnerStep(w)  PROVE budget' = budget
      BY <2>1, InnerSteps
    <2>2. ASSUME NEW w \in Worker, Return(w) \/ Throw(w)  PROVE budget' = budget
      BY <2>2 DEF Return, Throw
    <2>3. ASSUME NEW w \in Worker, AwaitThrows(w) \/ Crash(w) \/ LoseLock(w)
          PROVE  \E f \in FaultKind : Spend(f)
      BY <2>3 DEF AwaitThrows, Crash, LoseLock, FaultKind
    <2>4. ASSUME NEW w \in Worker, NEW j \in Job, Deliver(w, j) \/ MoveToDlq(w, j)
          PROVE  budget' = budget
      BY <2>4 DEF Deliver, MoveToDlq
    <2>5. ASSUME NEW j \in Job, Repeat(j)  PROVE \E f \in FaultKind : Spend(f)
      BY <2>5 DEF Repeat, FaultKind
    <2>6. CASE MinutePasses \/ UNCHANGED vars
      BY <2>6 DEF MinutePasses, vars
    <2> QED  BY <2>1, <2>2, <2>3, <2>4, <2>5, <2>6 DEF Next, ExecuteStep, InnerStep
  <1>2. /\ budget' \in [FaultKind -> Nat]
        /\ \A f \in FaultKind : budget'[f] <= budget[f]
    <2>1. budget \in [FaultKind -> Nat]  BY DEF TypeOK
    <2>2. CASE budget' = budget  BY <2>1, <2>2
    <2>3. ASSUME NEW f \in FaultKind, Spend(f)
          PROVE  budget' \in [FaultKind -> Nat] /\ \A g \in FaultKind : budget'[g] <= budget[g]
      BY <2>1, <2>3 DEF Spend
    <2> QED  BY <1>1, <2>2, <2>3
  <1>3. \A f \in FaultKind : budget[f] \in Nat /\ budget[f] <= Faults[f] /\ Faults[f] \in Nat
    BY FaultAssumption DEF TypeOK, Locks
  <1>4. ASSUME NEW f \in FaultKind
        PROVE  budget'[f] <= Faults[f] /\ (Faults[f] - budget'[f] = 0 => Faults[f] - budget[f] = 0)
    BY <1>2, <1>3
  <1> QED  BY <1>2, <1>4 DEF Reliable, Spent, FaultKind

-----------------------------------------------------------------------------
(* Types *)

LEMMA InitType == Init => TypeOK
  <1>1. 0 \in 0 .. MaxAttempts /\ 0 \in 0 .. MaxStalled + 1
    BY BoundAssumption DEF MaxStalled
  <1>2. Idle \in [pc : PC, job : Job \cup {None}, made : 0 .. MaxAttempts,
                  read : Nat, row : Nat, ok : BOOLEAN, threw : BOOLEAN]
    BY <1>1 DEF Idle, PC
  <1> SUFFICES ASSUME Init  PROVE TypeOK
    OBVIOUS
  <1>3. /\ status \in [Job -> Status] /\ attempts \in [Job -> Seq(Row)]
        /\ lastSeq \in Nat /\ rate \in Nat /\ runs \in [Recurring -> Nat] /\ seq \in [Job -> Nat]
        /\ bull \in [Job -> {"waiting", "active", "completed", "failed"}]
    BY DEF Init, Status
  <1>4. /\ made \in [Job -> 0 .. MaxAttempts] /\ stalls \in [Job -> 0 .. MaxStalled + 1]
        /\ lock \in [Job -> Worker \cup {None}] /\ events \subseteq Worker \X Job
        /\ tally \in [Job -> [Tallies -> Nat]]
    BY <1>1 DEF Init
  <1>5. /\ run \in [Worker -> [pc : PC, job : Job \cup {None}, made : 0 .. MaxAttempts,
                              read : Nat, row : Nat, ok : BOOLEAN, threw : BOOLEAN]]
        /\ budget \in [FaultKind -> Nat]
    BY <1>2, FaultAssumption DEF Init
  <1> QED  BY <1>3, <1>4, <1>5 DEF TypeOK

Local == [pc : PC, job : Job \cup {None}, made : 0 .. MaxAttempts,
          read : Nat, row : Nat, ok : BOOLEAN, threw : BOOLEAN]

\* A worker that has a job goes on with another program counter.
LEMMA Moves ==
    ASSUME TypeOK, NEW w \in Worker, NEW a, NEW b \in PC, Go(w, a, b)
    PROVE  run' \in [Worker -> Local]
  BY DEF TypeOK, Go, Local

LEMMA Bumps ==
    ASSUME TypeOK, NEW j \in Job, NEW t \in Tallies, Bump(j, t)
    PROVE  tally' \in [Job -> [Tallies -> Nat]]
  BY DEF TypeOK, Bump

\* A row of job_attempts is given another status, if it exists.
LEMMA RowSet ==
    ASSUME TypeOK, NEW j \in Job, NEW i, NEW s \in Row,
           attempts' = [attempts EXCEPT ![j][i] = s]
    PROVE  attempts' \in [Job -> Seq(Row)]
  <1>1. attempts[j] \in Seq(Row) /\ attempts \in [Job -> Seq(Row)]
    BY DEF TypeOK
  <1>2. [attempts[j] EXCEPT ![i] = s] \in Seq(Row)
    <2>1. CASE i \in 1 .. Len(attempts[j])
      BY <1>1, <2>1, ExceptSeq
    <2>2. CASE i \notin 1 .. Len(attempts[j])
      <3>1. i \notin DOMAIN attempts[j]  BY <1>1, <2>2
      <3>2. [attempts[j] EXCEPT ![i] = s] = attempts[j]  BY <1>1, <3>1
      <3> QED  BY <1>1, <3>2
    <2> QED  BY <2>1, <2>2
  <1> QED  BY <1>1, <1>2

LEMMA InnerType ==
    ASSUME TypeOK, Locks, NEW w \in Worker, InnerStep(w)
    PROVE  TypeOK'
  <1>0. run[w].job \in Job /\ run[w] \in Local
    BY InnerSteps DEF Inner, Locks, TypeOK, Local
  <1>01. /\ {"idle", "skip", "finally", "return", "throw"} \subseteq PC
         /\ {"rate", "find", "sequence", "save", "stamp", "attempt", "begin"} \subseteq PC
         /\ {"process", "rowCompleted", "complete", "chain", "count"} \subseteq PC
         /\ {"rowFailed", "markFailed", "countFailed", "parent"} \subseteq PC
    BY DEF PC, BeforeTry, InTry, InCatch
  <1>02. /\ {"QUEUED", "PROCESSING", "COMPLETED", "FAILED"} = Status
         /\ {"released", "completed", "failed", "dlq", "limited", "repeated"} = Tallies
         /\ {"PROCESSING", "COMPLETED", "FAILED"} = Row
    BY DEF Status, Tallies, Row
  <1> HIDE DEF Local
  <1> DEFINE rest == UNCHANGED <<bull, made, lock, stalls, events, budget>>
             same == UNCHANGED <<bull, made, lock, stalls, events, budget, rate, tally>>
             rows == UNCHANGED <<status, attempts, lastSeq, runs, seq>>
  <1>1. ASSUME NEW a, NEW b \in PC, Go(w, a, b), rows, same  PROVE TypeOK'
    <2>1. run' \in [Worker -> Local]  BY <1>1, Moves
    <2> QED  BY <1>1, <2>1 DEF TypeOK, Local
  <1>2. ASSUME NEW a, NEW b \in PC, Go(w, a, b), rows, rest, rate' = rate,
               NEW t \in Tallies, Bump(run[w].job, t) \/ tally' = tally
        PROVE  TypeOK'
    <2>1. run' \in [Worker -> Local]  BY <1>2, Moves
    <2>2. tally' \in [Job -> [Tallies -> Nat]]  BY <1>0, <1>2, Bumps DEF TypeOK
    <2> QED  BY <1>2, <2>1, <2>2 DEF TypeOK, Local
  <1>3. ASSUME NEW a, NEW b \in PC, Go(w, a, b), same,
               UNCHANGED <<attempts, lastSeq, runs, seq>>,
               NEW s \in Status, status' = [status EXCEPT ![run[w].job] = s] \/ status' = status
        PROVE  TypeOK'
    <2>1. run' \in [Worker -> Local]  BY <1>3, Moves
    <2>2. status' \in [Job -> Status]  BY <1>3 DEF TypeOK
    <2> QED  BY <1>3, <2>1, <2>2 DEF TypeOK, Local
  <1>4. ASSUME NEW a, NEW b \in PC, Go(w, a, b), same,
               UNCHANGED <<status, lastSeq, runs, seq>>,
               NEW s \in Row, attempts' = [attempts EXCEPT ![run[w].job][run[w].row] = s]
        PROVE  TypeOK'
    <2>1. run' \in [Worker -> Local]  BY <1>4, Moves
    <2>2. attempts' \in [Job -> Seq(Row)]  BY <1>0, <1>4, RowSet
    <2> QED  BY <1>4, <2>1, <2>2 DEF TypeOK, Local
  <1> USE DEF dbVars, bullVars
  <1>5. CASE RateCheck(w)
    <2>1. rate' \in Nat  BY <1>5 DEF RateCheck, TypeOK
    <2>2. run' \in [Worker -> Local]
      BY <1>5, <1>01, Moves DEF RateCheck
    <2>3. tally' \in [Job -> [Tallies -> Nat]]
      BY <1>0, <1>02, <1>5, Bumps DEF RateCheck, TypeOK
    <2> QED  BY <1>5, <2>1, <2>2, <2>3 DEF RateCheck, TypeOK, Local
  <1>6. CASE FindJob(w)  BY <1>01, <1>1, <1>6 DEF FindJob
  <1>7. CASE SkipCompleted(w)  BY <1>01, <1>02, <1>2, <1>7 DEF SkipCompleted
  <1>8. CASE ReadSequence(w)
    <2>1. run' \in [Worker -> Local]
      <3>1. (IF run[w].job \in Recurring THEN runs[run[w].job] ELSE lastSeq) \in Nat
        BY DEF TypeOK
      <3> QED  BY <1>0, <1>01, <1>8, <3>1 DEF ReadSequence, TypeOK, Local
    <2> QED  BY <1>8, <2>1 DEF ReadSequence, TypeOK, Local
  <1>9. CASE SaveSequence(w)
    <2>1. run[w].read + 1 \in Nat  BY <1>0 DEF Local
    <2>2. run' \in [Worker -> Local]  BY <1>01, <1>9, Moves DEF SaveSequence
    <2>3. runs' \in [Recurring -> Nat] /\ lastSeq' \in Nat  BY <1>9, <2>1 DEF SaveSequence, TypeOK
    <2> QED  BY <1>9, <2>2, <2>3 DEF SaveSequence, TypeOK, Local
  <1>10. CASE StampJob(w)
    <2>1. run[w].read + 1 \in Nat  BY <1>0 DEF Local
    <2>2. run' \in [Worker -> Local]  BY <1>01, <1>10, Moves DEF StampJob
    <2>3. seq' \in [Job -> Nat]  BY <1>10, <2>1 DEF StampJob, TypeOK
    <2> QED  BY <1>10, <2>2, <2>3 DEF StampJob, TypeOK, Local
  <1>11. CASE StartAttempt(w)
    <2>1. attempts[run[w].job] \in Seq(Row) /\ Len(attempts[run[w].job]) + 1 \in Nat
      BY <1>0 DEF TypeOK
    <2>2. run' \in [Worker -> Local]
      BY <1>0, <1>01, <1>11, <2>1 DEF StartAttempt, TypeOK, Local
    <2>3. Append(attempts[run[w].job], "PROCESSING") \in Seq(Row)
      BY <1>02, <2>1, AppendProperties
    <2>4. attempts' \in [Job -> Seq(Row)]
      BY <1>11, <2>3 DEF StartAttempt, TypeOK
    <2> QED  BY <1>11, <2>2, <2>4 DEF StartAttempt, TypeOK, Local
  <1>12. CASE Begin(w)  BY <1>01, <1>02, <1>3, <1>12 DEF Begin
  <1>13. CASE ProcessSucceeds(w)
    <2>1. run' \in [Worker -> Local]
      BY <1>0, <1>01, <1>13 DEF ProcessSucceeds, TypeOK, Local
    <2> QED  BY <1>13, <2>1 DEF ProcessSucceeds, TypeOK, Local
  <1>14. CASE ProcessFails(w)
    <2>1. run' \in [Worker -> Local]
      BY <1>0, <1>01, <1>14 DEF ProcessFails, TypeOK, Local
    <2> QED  BY <1>14, <2>1 DEF ProcessFails, TypeOK, Local
  <1>15. CASE RowCompleted(w)  BY <1>01, <1>02, <1>4, <1>15 DEF RowCompleted
  <1>16. CASE Complete(w)  BY <1>01, <1>02, <1>3, <1>16 DEF Complete
  <1>17. CASE ChainCompleted(w)  BY <1>01, <1>1, <1>17 DEF ChainCompleted
  <1>18. CASE CountCompleted(w)  BY <1>01, <1>02, <1>2, <1>18 DEF CountCompleted
  <1>19. CASE RowFailed(w)  BY <1>01, <1>02, <1>4, <1>19 DEF RowFailed
  <1>20. CASE MarkFailed(w)  BY <1>01, <1>02, <1>3, <1>20 DEF MarkFailed
  <1>21. CASE CountFailed(w)  BY <1>01, <1>02, <1>2, <1>21 DEF CountFailed
  <1>22. CASE ParentFailure(w)  BY <1>01, <1>1, <1>22 DEF ParentFailure
  <1>23. CASE Finally(w)  BY <1>01, <1>02, <1>2, <1>23 DEF Finally
  <1> QED  BY <1>5, <1>6, <1>7, <1>8, <1>9, <1>10, <1>11, <1>12, <1>13, <1>14, <1>15, <1>16,
              <1>17, <1>18, <1>19, <1>20, <1>21, <1>22, <1>23 DEF InnerStep

\* A lock is only lost for a job that runs, so the stalled count stays in its bounds.
LEMMA StalledType ==
    ASSUME TypeOK, Locks, NEW j \in Job, lock[j] # None, Stalled(j)
    PROVE  /\ bull' \in [Job -> {"waiting", "active", "completed", "failed"}]
           /\ lock' \in [Job -> Worker \cup {None}]
           /\ stalls' \in [Job -> 0 .. MaxStalled + 1]
  <1>1. stalls[j] \in Nat /\ stalls[j] <= MaxStalled
    BY DEF TypeOK, Locks
  <1>2. stalls[j] + 1 \in 0 .. MaxStalled + 1
    BY <1>1 DEF MaxStalled
  <1> QED  BY <1>2 DEF Stalled, TypeOK

LEMMA IdleType == Idle \in Local
  <1>1. 0 \in 0 .. MaxAttempts  BY BoundAssumption
  <1> QED  BY <1>1 DEF Local, Idle, PC

LEMMA TypeStep ==
    ASSUME TypeOK, Locks, [Next]_vars
    PROVE  TypeOK'
  <1>0. \A w \in Worker : Busy(w) => run[w].job \in Job
    BY DEF Locks
  <1>01. budget' \in [FaultKind -> Nat]
    BY BudgetStep
  <1>02. ASSUME NEW w \in Worker, Leave(w)  PROVE run' \in [Worker -> Local]
    BY <1>02, IdleType DEF Leave, TypeOK, Local
  <1> USE DEF dbVars, bullVars
  <1>1. ASSUME NEW w \in Worker, InnerStep(w)  PROVE TypeOK'
    BY <1>1, InnerType
  <1>2. ASSUME NEW w \in Worker, Return(w)  PROVE TypeOK'
    <2>1. run' \in [Worker -> Local]  BY <1>2, <1>02 DEF Return
    <2>2. /\ bull' \in [Job -> {"waiting", "active", "completed", "failed"}]
          /\ lock' \in [Job -> Worker \cup {None}]
      BY <1>2 DEF Return, TypeOK
    <2> QED  BY <1>2, <2>1, <2>2 DEF Return, TypeOK, Local
  <1>3. ASSUME NEW w \in Worker, Throw(w)  PROVE TypeOK'
    <2>1. run' \in [Worker -> Local] /\ run[w].job \in Job
      BY <1>0, <1>3, <1>02 DEF Throw, At, Busy
    <2>2. lock[run[w].job] = w => made[run[w].job] + 1 \in 0 .. MaxAttempts
      <3>1. HAVE lock[run[w].job] = w
      <3>2. made[run[w].job] < MaxAttempts /\ made[run[w].job] \in Nat
        BY <2>1, <3>1, WorkerAssumption DEF Locks, TypeOK
      <3> QED  BY <3>2, BoundAssumption
    <2>3. /\ bull' \in [Job -> {"waiting", "active", "completed", "failed"}]
          /\ lock' \in [Job -> Worker \cup {None}] /\ made' \in [Job -> 0 .. MaxAttempts]
          /\ events' \subseteq Worker \X Job
      <3>1. CASE lock[run[w].job] = w
        <4>1. made' \in [Job -> 0 .. MaxAttempts]  BY <1>3, <2>1, <2>2, <3>1 DEF Throw, TypeOK
        <4>2. <<w, run[w].job>> \in Worker \X Job  BY <2>1
        <4>3. /\ bull' \in [Job -> {"waiting", "active", "completed", "failed"}]
              /\ lock' \in [Job -> Worker \cup {None}]
          BY <1>3, <3>1 DEF Throw, TypeOK
        <4>4. events' \subseteq Worker \X Job
          BY <1>3, <3>1, <4>2 DEF Throw, TypeOK
        <4> QED  BY <4>1, <4>3, <4>4
      <3>2. CASE lock[run[w].job] # w
        BY <1>3, <3>2 DEF Throw, TypeOK
      <3> QED  BY <3>1, <3>2
    <2> QED  BY <1>3, <2>1, <2>3 DEF Throw, TypeOK, Local
  <1>4. ASSUME NEW w \in Worker, AwaitThrows(w)  PROVE TypeOK'
    <2>1. run' \in [Worker -> Local]
      <3>1. /\ {"throw", "rowFailed", "finally"} \subseteq PC
            /\ \/ run' = [run EXCEPT ![w].pc = "throw"]
               \/ run' = [run EXCEPT ![w].pc = "rowFailed", ![w].threw = TRUE]
               \/ run' = [run EXCEPT ![w].pc = "finally"]
        BY <1>4 DEF AwaitThrows, PC, InCatch
      <3>2. run[w] \in Local /\ run \in [Worker -> Local]
        BY DEF TypeOK, Local
      <3>3. CASE run' = [run EXCEPT ![w].pc = "throw"]
        <4>1. [run[w] EXCEPT !.pc = "throw"] \in Local  BY <3>1, <3>2 DEF Local
        <4> QED  BY <3>2, <3>3, <4>1
      <3>4. CASE run' = [run EXCEPT ![w].pc = "rowFailed", ![w].threw = TRUE]
        <4>1. [run[w] EXCEPT !.pc = "rowFailed", !.threw = TRUE] \in Local
          BY <3>1, <3>2 DEF Local
        <4> QED  BY <3>2, <3>4, <4>1
      <3>5. CASE run' = [run EXCEPT ![w].pc = "finally"]
        <4>1. [run[w] EXCEPT !.pc = "finally"] \in Local  BY <3>1, <3>2 DEF Local
        <4> QED  BY <3>2, <3>5, <4>1
      <3> QED  BY <3>1, <3>3, <3>4, <3>5
    <2> QED  BY <1>4, <1>01, <2>1 DEF AwaitThrows, TypeOK, Local
  <1>5. ASSUME NEW w \in Worker, Crash(w)  PROVE TypeOK'
    <2>1. run' \in [Worker -> Local] /\ run[w].job \in Job
      BY <1>0, <1>5, <1>02 DEF Crash, At, Busy
    <2>2. /\ bull' \in [Job -> {"waiting", "active", "completed", "failed"}]
          /\ lock' \in [Job -> Worker \cup {None}]
          /\ stalls' \in [Job -> 0 .. MaxStalled + 1]
      <3>1. CASE lock[run[w].job] = w
        BY <1>5, <2>1, <3>1, StalledType, WorkerAssumption DEF Crash
      <3>2. CASE lock[run[w].job] # w
        BY <1>5, <3>2 DEF Crash, TypeOK
      <3> QED  BY <3>1, <3>2
    <2>3. events' \subseteq Worker \X Job
      BY <1>5 DEF Crash, TypeOK
    <2> QED  BY <1>5, <1>01, <2>1, <2>2, <2>3 DEF Crash, TypeOK, Local
  <1>6. ASSUME NEW w \in Worker, LoseLock(w)  PROVE TypeOK'
    <2>1. run[w].job \in Job  BY <1>0, <1>6 DEF LoseLock, At, Busy
    <2>2. /\ bull' \in [Job -> {"waiting", "active", "completed", "failed"}]
          /\ lock' \in [Job -> Worker \cup {None}]
          /\ stalls' \in [Job -> 0 .. MaxStalled + 1]
      BY <1>6, <2>1, StalledType, WorkerAssumption DEF LoseLock
    <2> QED  BY <1>6, <1>01, <2>2 DEF LoseLock, TypeOK
  <1>7. ASSUME NEW w \in Worker, NEW j \in Job, Deliver(w, j)  PROVE TypeOK'
    <2>1. run' \in [Worker -> Local]
      <3>1. made[j] \in 0 .. MaxAttempts  BY DEF TypeOK
      <3>2. [Idle EXCEPT !.pc = IF w \in Limited /\ RateLimit > 0 THEN "rate" ELSE "find",
                         !.job = j, !.made = made[j]] \in Local
        BY <3>1, IdleType DEF Local, PC, BeforeTry
      <3> QED  BY <1>7, <3>2 DEF Deliver, TypeOK, Local
    <2>2. /\ bull' \in [Job -> {"waiting", "active", "completed", "failed"}]
          /\ lock' \in [Job -> Worker \cup {None}]
      BY <1>7 DEF Deliver, TypeOK
    <2> QED  BY <1>7, <2>1, <2>2 DEF Deliver, TypeOK, Local
  <1>8. ASSUME NEW w \in Worker, NEW j \in Job, MoveToDlq(w, j)  PROVE TypeOK'
    <2>1. tally' \in [Job -> [Tallies -> Nat]]
      BY <1>8, Bumps DEF MoveToDlq, Tallies
    <2>2. events' \subseteq Worker \X Job
      BY <1>8 DEF MoveToDlq, TypeOK
    <2> QED  BY <1>8, <2>1, <2>2 DEF MoveToDlq, TypeOK
  <1>9. ASSUME NEW j \in Job, Repeat(j)  PROVE TypeOK'
    <2>1. /\ bull' \in [Job -> {"waiting", "active", "completed", "failed"}]
          /\ made' \in [Job -> 0 .. MaxAttempts]
          /\ stalls' \in [Job -> 0 .. MaxStalled + 1]
      <3>1. 0 \in 0 .. MaxAttempts /\ 0 \in 0 .. MaxStalled + 1
        BY BoundAssumption DEF MaxStalled
      <3> QED  BY <1>9, <3>1 DEF Repeat, TypeOK
    <2>2. tally' \in [Job -> [Tallies -> Nat]]
      BY <1>9, Bumps DEF Repeat, Tallies
    <2> QED  BY <1>9, <1>01, <2>1, <2>2 DEF Repeat, TypeOK
  <1>10. CASE MinutePasses
    BY <1>10 DEF MinutePasses, TypeOK
  <1>11. CASE UNCHANGED vars
    BY <1>11 DEF vars, TypeOK
  <1> QED  BY <1>1, <1>2, <1>3, <1>4, <1>5, <1>6, <1>7, <1>8, <1>9, <1>10, <1>11
           DEF Next, ExecuteStep, InnerStep

-----------------------------------------------------------------------------
(* Locks *)

LEMMA InitLocks == Init => Locks
  BY BoundAssumption, FaultAssumption DEF Init, Locks, Busy, Idle, MaxStalled

\* A worker that leaves its job, the lock given up if it was its own.
LEMMA LeftLocks ==
    ASSUME TypeOK, Locks, NEW w \in Worker, Busy(w), Leave(w), NEW j \in Job, j = run[w].job,
           \A i \in Job \ {j} : /\ bull'[i] = bull[i] /\ lock'[i] = lock[i]
                                /\ made'[i] = made[i] /\ stalls'[i] = stalls[i],
           IF lock[j] = w
           THEN /\ lock'[j] = None /\ bull'[j] # "active"
                /\ bull'[j] = "waiting" => made'[j] < MaxAttempts /\ stalls'[j] <= MaxStalled
           ELSE /\ bull'[j] = bull[j] /\ lock'[j] = lock[j]
                /\ made'[j] = made[j] /\ stalls'[j] = stalls[j],
           \A f \in FaultKind : budget'[f] <= Faults[f]
    PROVE  Locks'
  <1>1. \A v \in Worker : Busy(v)' => v # w /\ Busy(v) /\ run'[v] = run[v]
    BY DEF Leave, Busy, Idle, TypeOK
  <1>2. \A i \in Job : lock'[i] # None => lock'[i] = lock[i] /\ lock[i] # w
    BY DEF Locks
  <1>3. \A v \in Worker \ {w} : run'[v] = run[v]
    BY DEF Leave, TypeOK
  <1>4. \A i \in Job : lock'[i] # None =>
          /\ lock[i] \in Worker \ {w} /\ lock'[i] = lock[i]
          /\ bull'[i] = bull[i] /\ made'[i] = made[i]
    BY <1>2 DEF TypeOK
  <1>5. \A i \in Job : lock'[i] # None =>
          /\ bull'[i] = "active" /\ run'[lock'[i]].pc # "idle" /\ run'[lock'[i]].job = i
          /\ run'[lock'[i]].made = made'[i]
    BY <1>3, <1>4 DEF Locks, Busy
  <1>6. \A i \in Job : bull'[i] = "active" => lock'[i] # None
    BY DEF Locks
  <1>7. \A i \in Job : bull'[i] \in {"waiting", "active"} =>
          made'[i] < MaxAttempts /\ stalls'[i] <= MaxStalled
    BY DEF Locks
  <1>8. \A v \in Worker : Busy(v)' => run'[v].job \in Job
    BY <1>1 DEF Locks
  <1> QED  BY <1>5, <1>6, <1>7, <1>8 DEF Locks, Busy

LEMMA LocksStep ==
    ASSUME TypeOK, Locks, [Next]_vars
    PROVE  Locks'
  <1>0. \A f \in FaultKind : budget'[f] <= Faults[f]
    BY BudgetStep
  <1>01. \A w \in Worker : w # None
    BY WorkerAssumption
  <1>1. ASSUME NEW w \in Worker, Inner(w)  PROVE Locks'
    <2>1. /\ \A v \in Worker : /\ run'[v].job = run[v].job /\ run'[v].made = run[v].made
                               /\ run'[v].pc # "idle" <=> run[v].pc # "idle"
          /\ UNCHANGED <<bull, made, lock, stalls>>
      BY <1>1 DEF Inner, Busy
    <2>2. \A j \in Job : lock[j] # None => lock[j] \in Worker
      BY DEF TypeOK
    <2>3. \A j \in Job : lock'[j] # None =>
            /\ bull'[j] = "active" /\ run'[lock'[j]].pc # "idle" /\ run'[lock'[j]].job = j
            /\ run'[lock'[j]].made = made'[j]
      BY <2>1, <2>2 DEF Locks, Busy
    <2>4. \A v \in Worker : run'[v].pc # "idle" => run'[v].job \in Job
      BY <2>1 DEF Locks, Busy
    <2>5. /\ \A j \in Job : bull'[j] = "active" => lock'[j] # None
          /\ \A j \in Job : bull'[j] \in {"waiting", "active"} =>
                made'[j] < MaxAttempts /\ stalls'[j] <= MaxStalled
      BY <2>1 DEF Locks
    <2> QED  BY <1>0, <2>3, <2>4, <2>5 DEF Locks, Busy
  <1>2. ASSUME NEW w \in Worker, InnerStep(w) \/ AwaitThrows(w)  PROVE Locks'
    BY <1>1, <1>2, InnerSteps, ThrowingStep
  <1>3. ASSUME UNCHANGED <<bull, made, lock, stalls, run>>  PROVE Locks'
    BY <1>0, <1>3 DEF Locks, Busy
  <1>4. ASSUME NEW w \in Worker, Return(w)  PROVE Locks'
    <2> DEFINE j == run[w].job
    <2>1. Busy(w) /\ Leave(w) /\ j \in Job
      BY <1>4 DEF Return, Busy, At, Locks
    <2>2. \A i \in Job \ {j} : /\ bull'[i] = bull[i] /\ lock'[i] = lock[i]
                               /\ made'[i] = made[i] /\ stalls'[i] = stalls[i]
      BY <1>4 DEF Return, TypeOK
    <2>3. IF lock[j] = w
          THEN lock'[j] = None /\ bull'[j] = "completed"
          ELSE /\ bull'[j] = bull[j] /\ lock'[j] = lock[j]
               /\ made'[j] = made[j] /\ stalls'[j] = stalls[j]
      BY <1>4, <2>1 DEF Return, TypeOK
    <2> QED  BY <1>0, <2>1, <2>2, <2>3, LeftLocks
  <1>5. ASSUME NEW w \in Worker, Throw(w)  PROVE Locks'
    <2> DEFINE j == run[w].job
    <2>1. Busy(w) /\ Leave(w) /\ j \in Job
      BY <1>5 DEF Throw, Busy, At, Locks
    <2>2. \A i \in Job \ {j} : /\ bull'[i] = bull[i] /\ lock'[i] = lock[i]
                               /\ made'[i] = made[i] /\ stalls'[i] = stalls[i]
      BY <1>5 DEF Throw, TypeOK
    <2>3. CASE lock[j] = w
      <3>1. bull[j] = "active" /\ stalls[j] <= MaxStalled
        BY <1>01, <2>1, <2>3 DEF Locks
      <3>2. /\ lock'[j] = None /\ made'[j] = made[j] + 1 /\ stalls'[j] = stalls[j]
            /\ bull'[j] = IF made[j] + 1 < MaxAttempts THEN "waiting" ELSE "failed"
        BY <1>5, <2>1, <2>3 DEF Throw, TypeOK
      <3> QED  BY <1>0, <2>1, <2>2, <2>3, <3>1, <3>2, LeftLocks
    <2>4. CASE lock[j] # w
      <3>1. /\ bull'[j] = bull[j] /\ lock'[j] = lock[j]
            /\ made'[j] = made[j] /\ stalls'[j] = stalls[j]
        BY <1>5, <2>4 DEF Throw
      <3> QED  BY <1>0, <2>1, <2>2, <2>4, <3>1, LeftLocks
    <2> QED  BY <2>3, <2>4
  <1>6. ASSUME NEW j \in Job, lock[j] # None, Stalled(j)
        PROVE  /\ \A i \in Job \ {j} : /\ bull'[i] = bull[i] /\ lock'[i] = lock[i]
                                       /\ stalls'[i] = stalls[i]
               /\ lock'[j] = None /\ bull'[j] # "active"
               /\ bull'[j] = "waiting" => made[j] < MaxAttempts /\ stalls'[j] <= MaxStalled
    <2>1. made[j] < MaxAttempts /\ stalls[j] \in Nat
      BY <1>6 DEF Locks, TypeOK
    <2>2. /\ lock'[j] = None /\ stalls'[j] = stalls[j] + 1
          /\ bull'[j] = IF stalls[j] < MaxStalled THEN "waiting" ELSE "failed"
          /\ \A i \in Job \ {j} : /\ bull'[i] = bull[i] /\ lock'[i] = lock[i]
                                  /\ stalls'[i] = stalls[i]
      BY <1>6 DEF Stalled, TypeOK
    <2> QED  BY <2>1, <2>2 DEF MaxStalled
  <1>7. ASSUME NEW w \in Worker, Crash(w)  PROVE Locks'
    <2> DEFINE j == run[w].job
    <2>1. Busy(w) /\ Leave(w) /\ j \in Job /\ made' = made
      BY <1>7 DEF Crash, Busy, At, Locks
    <2>2. CASE lock[j] = w
      <3>1. Stalled(j)  BY <1>7, <2>2 DEF Crash
      <3> HIDE DEF j
      <3>2. /\ \A i \in Job \ {j} : /\ bull'[i] = bull[i] /\ lock'[i] = lock[i]
                                    /\ stalls'[i] = stalls[i]
            /\ lock'[j] = None /\ bull'[j] # "active"
            /\ bull'[j] = "waiting" => made[j] < MaxAttempts /\ stalls'[j] <= MaxStalled
        BY <1>01, <1>6, <2>1, <2>2, <3>1
      <3> QED  BY <1>0, <2>1, <2>2, <3>2, LeftLocks DEF j
    <2>3. CASE lock[j] # w
      <3>1. UNCHANGED <<bull, lock, stalls>>  BY <1>7, <2>3 DEF Crash
      <3> QED  BY <1>0, <2>1, <2>3, <3>1, LeftLocks
    <2> QED  BY <2>2, <2>3
  <1>8. ASSUME NEW w \in Worker, LoseLock(w)  PROVE Locks'
    <2> DEFINE j == run[w].job
    <2>1. Busy(w) /\ j \in Job /\ lock[j] = w /\ Stalled(j) /\ UNCHANGED <<made, run>>
      BY <1>8 DEF LoseLock, Busy, At, Locks
    <2> HIDE DEF j
    <2>2. /\ \A i \in Job \ {j} : /\ bull'[i] = bull[i] /\ lock'[i] = lock[i]
                                  /\ stalls'[i] = stalls[i]
          /\ lock'[j] = None /\ bull'[j] # "active"
          /\ bull'[j] = "waiting" => made[j] < MaxAttempts /\ stalls'[j] <= MaxStalled
      BY <1>01, <1>6, <2>1
    <2>3. /\ \A i \in Job : bull'[i] = "active" => lock'[i] # None
          /\ \A i \in Job : lock'[i] # None =>
                lock'[i] = lock[i] /\ bull'[i] = bull[i] /\ made'[i] = made[i]
      BY <2>1, <2>2 DEF Locks
    <2>4. \A i \in Job : bull'[i] \in {"waiting", "active"} =>
            made'[i] < MaxAttempts /\ stalls'[i] <= MaxStalled
      BY <2>1, <2>2 DEF Locks
    <2> QED  BY <1>0, <2>1, <2>3, <2>4 DEF Locks, Busy
  <1>9. ASSUME NEW w \in Worker, NEW j \in Job, Deliver(w, j)  PROVE Locks'
    <2>1. /\ bull[j] = "waiting" /\ lock[j] = None /\ ~Busy(w)
          /\ bull'[j] = "active" /\ lock'[j] = w
          /\ run'[w].pc # "idle" /\ run'[w].job = j /\ run'[w].made = made[j]
          /\ UNCHANGED <<made, stalls>>
      BY <1>9 DEF Deliver, Locks, TypeOK, At, Busy, Idle
    <2>2. /\ \A i \in Job \ {j} : bull'[i] = bull[i] /\ lock'[i] = lock[i]
          /\ \A v \in Worker \ {w} : run'[v] = run[v]
      BY <1>9 DEF Deliver, TypeOK
    <2>3. \A i \in Job : lock[i] # None => lock[i] \in Worker \ {w}
      BY <2>1 DEF Locks, TypeOK
    <2>4. \A i \in Job : lock'[i] # None =>
            /\ bull'[i] = "active" /\ run'[lock'[i]].pc # "idle" /\ run'[lock'[i]].job = i
            /\ run'[lock'[i]].made = made'[i]
      <3>1. TAKE i \in Job
      <3>2. CASE i = j  BY <2>1, <3>2
      <3>3. CASE i # j  BY <2>1, <2>2, <2>3, <3>3 DEF Locks, Busy
      <3> QED  BY <3>2, <3>3
    <2>5. \A v \in Worker : run'[v].pc # "idle" => run'[v].job \in Job
      BY <2>1, <2>2 DEF Locks, Busy
    <2>6. \A i \in Job : bull'[i] = "active" => lock'[i] # None
      BY <1>01, <2>1, <2>2 DEF Locks
    <2>7. \A i \in Job : bull'[i] \in {"waiting", "active"} =>
            made'[i] < MaxAttempts /\ stalls'[i] <= MaxStalled
      BY <2>1, <2>2 DEF Locks
    <2> QED  BY <1>0, <2>4, <2>5, <2>6, <2>7 DEF Locks, Busy
  <1>10. ASSUME NEW w \in Worker, NEW j \in Job, MoveToDlq(w, j)  PROVE Locks'
    BY <1>3, <1>10 DEF MoveToDlq
  <1>11. ASSUME NEW j \in Job, Repeat(j)  PROVE Locks'
    <2>1. /\ bull[j] \in {"completed", "failed"} /\ bull'[j] = "waiting"
          /\ made'[j] = 0 /\ stalls'[j] = 0 /\ UNCHANGED <<lock, run>>
          /\ \A i \in Job \ {j} : bull'[i] = bull[i] /\ made'[i] = made[i] /\ stalls'[i] = stalls[i]
      BY <1>11 DEF Repeat, TypeOK
    <2>2. lock[j] = None
      BY <2>1 DEF Locks
    <2>3. \A i \in Job : bull'[i] \in {"waiting", "active"} =>
            made'[i] < MaxAttempts /\ stalls'[i] <= MaxStalled
      BY <2>1, BoundAssumption DEF Locks, MaxStalled
    <2>4. /\ \A i \in Job : bull'[i] = "active" => lock'[i] # None
          /\ \A i \in Job : lock'[i] # None =>
                /\ bull'[i] = "active" /\ run'[lock'[i]].pc # "idle"
                /\ run'[lock'[i]].job = i /\ run'[lock'[i]].made = made'[i]
      BY <2>1, <2>2 DEF Locks, Busy
    <2> QED  BY <1>0, <2>1, <2>3, <2>4 DEF Locks, Busy
  <1>12. CASE MinutePasses \/ UNCHANGED vars
    BY <1>3, <1>12 DEF MinutePasses, vars, bullVars
  <1> QED  BY <1>2, <1>4, <1>5, <1>7, <1>8, <1>9, <1>10, <1>11, <1>12
           DEF Next, ExecuteStep, InnerStep

-----------------------------------------------------------------------------
(* Runs without failing statements and lost locks *)

LEMMA FaultsTell ==
    ASSUME TypeOK, Locks, NEW w \in Worker, AwaitThrows(w) \/ LoseLock(w)
    PROVE  ~Reliable'
  <1>1. Spend("db") \/ Spend("stall")
    BY DEF AwaitThrows, LoseLock
  <1>2. \A f \in FaultKind : budget[f] \in Nat /\ budget[f] <= Faults[f] /\ Faults[f] \in Nat
    BY FaultAssumption DEF TypeOK, Locks
  <1>3. ASSUME NEW f \in FaultKind, Spend(f)  PROVE Faults[f] - budget'[f] # 0
    <2>1. budget'[f] = budget[f] - 1 /\ budget[f] > 0  BY <1>3 DEF Spend, TypeOK
    <2> QED  BY <1>2, <2>1
  <1> QED  BY <1>1, <1>3 DEF Reliable, Spent, FaultKind

\* The worker that steps holds its lock, so no other worker has its job.
LEMMA Alones ==
    ASSUME TypeOK, Locks, Alone, Reliable, NEW v \in Worker, NEW w \in Worker,
           v # w, Busy(v), Busy(w)
    PROVE  run[v].job # run[w].job /\ lock[run[v].job] = v /\ lock[run[w].job] = w
  BY DEF Alone

LEMMA AloneStep ==
    ASSUME TypeOK, Locks, Alone, [Next]_vars
    PROVE  Alone'
  <1> SUFFICES ASSUME Reliable', NEW v \in Worker, Busy(v)'  PROVE lock'[run'[v].job] = v
    BY DEF Alone
  <1>0. Reliable
    BY BudgetStep
  <1>1. ASSUME run'[v].job = run[v].job, Busy(v), lock'[run[v].job] = lock[run[v].job]
        PROVE  lock'[run'[v].job] = v
    BY <1>0, <1>1 DEF Alone
  <1>2. ASSUME NEW w \in Worker, InnerStep(w)  PROVE lock'[run'[v].job] = v
    BY <1>1, <1>2, InnerSteps DEF Inner, Busy
  <1>3. ASSUME NEW w \in Worker, AwaitThrows(w) \/ LoseLock(w)  PROVE FALSE
    BY <1>3, FaultsTell
  <1>4. ASSUME NEW w \in Worker, Busy(w), Leave(w),
               \A i \in Job \ {run[w].job} : lock'[i] = lock[i]
        PROVE  lock'[run'[v].job] = v
    <2>1. v # w /\ run'[v] = run[v] /\ Busy(v)
      BY <1>4 DEF Leave, Busy, Idle, TypeOK
    <2>2. run[v].job # run[w].job /\ run[v].job \in Job
      BY <1>0, <1>4, <2>1, Alones DEF Locks
    <2> QED  BY <1>1, <1>4, <2>1, <2>2
  <1>5. ASSUME NEW w \in Worker, Return(w)  PROVE lock'[run'[v].job] = v
    BY <1>4, <1>5 DEF Return, At, Busy, TypeOK
  <1>6. ASSUME NEW w \in Worker, Throw(w)  PROVE lock'[run'[v].job] = v
    BY <1>4, <1>6 DEF Throw, At, Busy, TypeOK
  <1>7. ASSUME NEW w \in Worker, Crash(w)  PROVE lock'[run'[v].job] = v
    BY <1>4, <1>7 DEF Crash, Stalled, At, Busy, TypeOK
  <1>8. ASSUME NEW w \in Worker, NEW j \in Job, Deliver(w, j)  PROVE lock'[run'[v].job] = v
    <2>1. /\ lock' = [lock EXCEPT ![j] = w] /\ run'[w].job = j
          /\ \A u \in Worker \ {w} : run'[u] = run[u]
      BY <1>8 DEF Deliver, TypeOK, Idle
    <2>2. CASE v = w
      BY <2>1, <2>2 DEF TypeOK
    <2>3. CASE v # w
      <3>1. Busy(v) /\ run'[v] = run[v]  BY <2>1, <2>3 DEF Busy
      <3>2. run[v].job # j
        BY <1>0, <1>8, <3>1, WorkerAssumption DEF Deliver, Alone, Locks
      <3> QED  BY <1>1, <2>1, <3>1, <3>2 DEF TypeOK
    <2> QED  BY <2>2, <2>3
  <1>9. ASSUME UNCHANGED <<run, lock>>  PROVE lock'[run'[v].job] = v
    BY <1>1, <1>9 DEF Busy
  <1>10. ASSUME NEW w \in Worker, NEW j \in Job, MoveToDlq(w, j)  PROVE lock'[run'[v].job] = v
    BY <1>9, <1>10 DEF MoveToDlq
  <1>11. ASSUME NEW j \in Job, Repeat(j)  PROVE lock'[run'[v].job] = v
    BY <1>9, <1>11 DEF Repeat
  <1>12. CASE MinutePasses \/ UNCHANGED vars
    BY <1>9, <1>12 DEF MinutePasses, vars, bullVars
  <1> QED  BY <1>2, <1>3, <1>5, <1>6, <1>7, <1>8, <1>10, <1>11, <1>12
           DEF Next, ExecuteStep, InnerStep

\* What a step inside execute() writes, and what it finds there.
LEMMA InnerRows ==
    ASSUME TypeOK, NEW w \in Worker, Busy(w), run[w].job \in Job, RowOf(w), InnerStep(w)
    PROVE  /\ \A i \in Job \ {run[w].job} :
                 status'[i] = status[i] /\ tally'[i].limited = tally[i].limited
           /\ tally'[run[w].job].limited >= tally[run[w].job].limited
           /\ RowOf(w)'
  <1> DEFINE j == run[w].job
  <1>0. /\ run'[w].job = j /\ run'[w].made = run[w].made
        /\ IsLastAttempt(w)' <=> IsLastAttempt(w)
    BY InnerSteps DEF Inner, IsLastAttempt
  <1>1. ASSUME tally' = tally \/ \E t \in Tallies \ {"limited"} : Bump(j, t)
        PROVE  \A i \in Job : tally'[i].limited = tally[i].limited
    <2>1. ASSUME NEW t \in Tallies \ {"limited"}, Bump(j, t), NEW i \in Job
          PROVE  tally'[i].limited = tally[i].limited
      BY <2>1 DEF Bump, TypeOK, Tallies
    <2> QED  BY <1>1, <2>1
  <1>2. tally[j].limited \in Nat
    BY DEF TypeOK, Tallies
  <1> USE DEF At, Go, dbVars, RowOf, Working, InCatch
  <1>3. CASE RateCheck(w)
    <2>1. CASE rate + 1 > RateLimit
      <3>1. run'[w].pc = "throw" /\ status' = status /\ Bump(j, "limited")
        BY <1>3, <2>1 DEF RateCheck, TypeOK
      <3>2. /\ tally'[j].limited = tally[j].limited + 1
            /\ \A i \in Job \ {j} : tally'[i].limited = tally[i].limited
        BY <3>1 DEF Bump, TypeOK, Tallies
      <3> QED  BY <1>0, <1>2, <3>1, <3>2
    <2>2. CASE ~(rate + 1 > RateLimit)
      <3>1. run'[w].pc = "find" /\ run[w].pc = "rate" /\ status' = status /\ tally' = tally
            /\ run'[w].threw = run[w].threw
        BY <1>3, <2>2 DEF RateCheck, TypeOK
      <3> QED  BY <1>0, <1>2, <3>1
    <2> QED  BY <2>1, <2>2
  <1>4. CASE FindJob(w)
    <2>1. /\ status' = status /\ tally' = tally /\ run[w].pc = "find"
          /\ run'[w].threw = run[w].threw
          /\ run'[w].pc = IF status[j] = "COMPLETED" /\ j \notin Recurring THEN "skip" ELSE "sequence"
      BY <1>4 DEF FindJob, TypeOK
    <2> QED  BY <1>0, <1>2, <2>1
  <1>5. CASE SkipCompleted(w)
    <2>1. /\ status' = status /\ run'[w].pc = "return" /\ run[w].pc = "skip"
          /\ run'[w].threw = run[w].threw /\ Bump(j, "released")
      BY <1>5 DEF SkipCompleted, TypeOK
    <2>2. \A i \in Job : tally'[i].limited = tally[i].limited
      BY <1>1, <2>1 DEF Tallies
    <2> QED  BY <1>0, <1>2, <2>1, <2>2
  <1>6. ASSUME UNCHANGED <<status, tally>>, run'[w].threw = run[w].threw,
               run[w].pc \in Working \ {"rowFailed", "markFailed"},
               run'[w].pc \in Working \ {"rowFailed", "markFailed"}
        PROVE  RowOf(w)'
    BY <1>0, <1>6
  <1>7. CASE ReadSequence(w)
    BY <1>2, <1>6, <1>7 DEF ReadSequence, TypeOK
  <1>8. CASE SaveSequence(w)
    BY <1>2, <1>6, <1>8 DEF SaveSequence, TypeOK
  <1>9. CASE StampJob(w)
    BY <1>2, <1>6, <1>9 DEF StampJob, TypeOK
  <1>10. CASE StartAttempt(w)
    BY <1>2, <1>6, <1>10 DEF StartAttempt, TypeOK
  <1>11. CASE ProcessSucceeds(w)
    BY <1>2, <1>6, <1>11 DEF ProcessSucceeds, TypeOK
  <1>12. CASE RowCompleted(w)
    BY <1>2, <1>6, <1>12 DEF RowCompleted, TypeOK
  <1>13. CASE Begin(w)
    <2>1. /\ tally' = tally /\ run[w].pc = "begin" /\ run'[w].pc = "process"
          /\ run'[w].threw = run[w].threw
          /\ \A i \in Job \ {j} : status'[i] = status[i]
          /\ status'[j] = "PROCESSING" \/ status'[j] = status[j]
      BY <1>13 DEF Begin, TypeOK
    <2> QED  BY <1>0, <1>2, <2>1
  <1>14. CASE ProcessFails(w)
    <2>1. /\ UNCHANGED <<status, tally>> /\ run[w].pc = "process" /\ run'[w].pc = "rowFailed"
          /\ run'[w].threw = TRUE
      BY <1>14 DEF ProcessFails, TypeOK
    <2> QED  BY <1>0, <1>2, <2>1
  <1>15. CASE Complete(w)
    <2>1. /\ tally' = tally /\ run[w].pc = "complete" /\ run'[w].pc = "chain"
          /\ run'[w].threw = run[w].threw /\ status'[j] = "COMPLETED"
          /\ \A i \in Job \ {j} : status'[i] = status[i]
      BY <1>15 DEF Complete, TypeOK
    <2> QED  BY <1>0, <1>2, <2>1
  <1>16. CASE ChainCompleted(w)
    <2>1. /\ UNCHANGED <<status, tally>> /\ run[w].pc = "chain" /\ run'[w].pc = "count"
          /\ run'[w].threw = run[w].threw
      BY <1>16 DEF ChainCompleted, TypeOK
    <2> QED  BY <1>0, <1>2, <2>1
  <1>17. CASE CountCompleted(w)
    <2>1. /\ status' = status /\ run[w].pc = "count" /\ run'[w].pc = "finally"
          /\ run'[w].threw = run[w].threw /\ Bump(j, "completed")
      BY <1>17 DEF CountCompleted, TypeOK
    <2>2. \A i \in Job : tally'[i].limited = tally[i].limited
      BY <1>1, <2>1 DEF Tallies
    <2> QED  BY <1>0, <1>2, <2>1, <2>2
  <1>18. CASE RowFailed(w)
    <2>1. /\ UNCHANGED <<status, tally>> /\ run[w].pc = "rowFailed" /\ run'[w].threw = run[w].threw
          /\ run'[w].pc = IF IsLastAttempt(w) THEN "markFailed" ELSE "parent"
      BY <1>18 DEF RowFailed, TypeOK
    <2> QED  BY <1>0, <1>2, <2>1
  <1>19. CASE MarkFailed(w)
    <2>1. /\ tally' = tally /\ run[w].pc = "markFailed" /\ run'[w].pc = "countFailed"
          /\ run'[w].threw = run[w].threw /\ status'[j] = "FAILED"
          /\ \A i \in Job \ {j} : status'[i] = status[i]
      BY <1>19 DEF MarkFailed, TypeOK
    <2> QED  BY <1>0, <1>2, <2>1
  <1>20. CASE CountFailed(w)
    <2>1. /\ status' = status /\ run[w].pc = "countFailed" /\ run'[w].pc = "parent"
          /\ run'[w].threw = run[w].threw /\ Bump(j, "failed")
      BY <1>20 DEF CountFailed, TypeOK
    <2>2. \A i \in Job : tally'[i].limited = tally[i].limited
      BY <1>1, <2>1 DEF Tallies
    <2> QED  BY <1>0, <1>2, <2>1, <2>2
  <1>21. CASE ParentFailure(w)
    <2>1. /\ UNCHANGED <<status, tally>> /\ run[w].pc = "parent" /\ run'[w].pc = "finally"
          /\ run'[w].threw = run[w].threw
      BY <1>21 DEF ParentFailure, TypeOK
    <2> QED  BY <1>0, <1>2, <2>1
  <1>22. CASE Finally(w)
    <2>1. /\ status' = status /\ run[w].pc = "finally" /\ run'[w].threw = run[w].threw
          /\ run'[w].pc = IF run[w].threw THEN "throw" ELSE "return"
          /\ tally' = tally \/ Bump(j, "released")
      BY <1>22 DEF Finally, TypeOK
    <2>2. \A i \in Job : tally'[i].limited = tally[i].limited
      BY <1>1, <2>1 DEF Tallies
    <2> QED  BY <1>0, <1>2, <2>1, <2>2
  <1> QED  BY <1>3, <1>4, <1>5, <1>7, <1>8, <1>9, <1>10, <1>11, <1>12, <1>13, <1>14, <1>15,
              <1>16, <1>17, <1>18, <1>19, <1>20, <1>21, <1>22 DEF InnerStep

LEMMA RowsStep ==
    ASSUME TypeOK, Locks, Alone, RowsAgree, [Next]_vars
    PROVE  RowsAgree'
  <1> SUFFICES ASSUME Reliable', NEW v \in Worker, Busy(v)'  PROVE RowOf(v)'
    BY DEF RowsAgree
  <1>0. Reliable
    BY BudgetStep
  <1>1. ASSUME run'[v] = run[v], status'[run[v].job] = status[run[v].job],
               tally'[run[v].job].limited = tally[run[v].job].limited
        PROVE  RowOf(v)'
    <2>1. RowOf(v)  BY <1>0, <1>1 DEF RowsAgree, Busy
    <2> QED  BY <1>1, <2>1 DEF RowOf, IsLastAttempt
  <1>2. ASSUME NEW w \in Worker, InnerStep(w)  PROVE RowOf(v)'
    <2>1. Inner(w) /\ run[w].job \in Job
      BY <1>2, InnerSteps DEF Inner, Locks
    <2>2. RowOf(w)
      BY <1>0, <2>1 DEF RowsAgree, Inner
    <2>3. /\ \A i \in Job \ {run[w].job} :
                status'[i] = status[i] /\ tally'[i].limited = tally[i].limited
          /\ RowOf(w)'
      BY <1>2, <2>1, <2>2, InnerRows DEF Inner
    <2>4. CASE v # w
      <3>1. run'[v] = run[v] /\ Busy(v)  BY <2>1, <2>4 DEF Inner, Busy
      <3>2. run[v].job # run[w].job /\ run[v].job \in Job
        BY <1>0, <2>1, <2>4, <3>1, Alones DEF Inner, Locks
      <3> QED  BY <1>1, <2>3, <3>1, <3>2
    <2> QED  BY <2>3, <2>4
  <1>3. ASSUME NEW w \in Worker, AwaitThrows(w) \/ LoseLock(w)  PROVE FALSE
    BY <1>3, FaultsTell
  <1>4. ASSUME NEW w \in Worker, Leave(w), UNCHANGED <<status, tally>>  PROVE RowOf(v)'
    <2>1. run'[v] = run[v]
      BY <1>4 DEF Leave, Busy, Idle, TypeOK
    <2> QED  BY <1>1, <1>4, <2>1
  <1>5. ASSUME NEW w \in Worker, Return(w) \/ Throw(w) \/ Crash(w)  PROVE RowOf(v)'
    BY <1>4, <1>5 DEF Return, Throw, Crash, dbVars
  <1>6. ASSUME NEW w \in Worker, NEW j \in Job, Deliver(w, j)  PROVE RowOf(v)'
    <2>1. /\ UNCHANGED <<status, tally>> /\ \A u \in Worker \ {w} : run'[u] = run[u]
          /\ run'[w].pc \in {"rate", "find"} /\ run'[w].threw = FALSE
      BY <1>6 DEF Deliver, dbVars, TypeOK, Idle
    <2>2. CASE v = w
      BY <2>1, <2>2 DEF RowOf, Working, InCatch
    <2> QED  BY <1>1, <2>1, <2>2
  <1>7. ASSUME NEW w \in Worker, NEW j \in Job, MoveToDlq(w, j)  PROVE RowOf(v)'
    <2>1. \A i \in Job : tally'[i].limited = tally[i].limited
      BY <1>7 DEF MoveToDlq, Bump, TypeOK, Tallies
    <2>2. run[v].job \in Job
      BY <1>7 DEF MoveToDlq, Locks, Busy
    <2> QED  BY <1>1, <1>7, <2>1, <2>2 DEF MoveToDlq, dbVars
  <1>8. ASSUME NEW j \in Job, Repeat(j)  PROVE RowOf(v)'
    <2>1. \A i \in Job : tally'[i].limited = tally[i].limited
      BY <1>8 DEF Repeat, Bump, TypeOK, Tallies
    <2>2. run[v].job \in Job
      BY <1>8 DEF Repeat, Locks, Busy
    <2> QED  BY <1>1, <1>8, <2>1, <2>2 DEF Repeat, dbVars
  <1>9. CASE MinutePasses \/ UNCHANGED vars
    BY <1>1, <1>9 DEF MinutePasses, vars, dbVars
  <1> QED  BY <1>2, <1>3, <1>5, <1>6, <1>7, <1>8, <1>9 DEF Next, ExecuteStep, InnerStep

LEMMA OutcomeStep ==
    ASSUME TypeOK, Locks, Alone, RowsAgree, OutcomeAgrees, [Next]_vars
    PROVE  OutcomeAgrees'
  <1> DEFINE Fine(j) == /\ bull[j] = "completed" => status[j] = "COMPLETED"
                        /\ bull[j] = "failed" /\ stalls[j] <= MaxStalled => status[j] = "FAILED"
  <1> SUFFICES ASSUME Reliable', NEW j \in Job, tally'[j].limited = 0  PROVE Fine(j)'
    BY DEF OutcomeAgrees
  <1>0. Reliable
    BY BudgetStep
  <1>1. ASSUME tally[j].limited = 0, bull'[j] = bull[j], stalls'[j] = stalls[j],
               status'[j] = status[j]
        PROVE  Fine(j)'
    BY <1>0, <1>1 DEF OutcomeAgrees
  <1>2. ASSUME NEW w \in Worker, InnerStep(w)  PROVE Fine(j)'
    <2>1. Inner(w) /\ run[w].job \in Job
      BY <1>2, InnerSteps DEF Inner, Locks
    <2>2. CASE j = run[w].job
      <3>1. bull[j] = "active"
        BY <1>0, <2>1, <2>2, WorkerAssumption DEF Inner, Alone, Locks
      <3> QED  BY <2>1, <3>1 DEF Inner
    <2>3. CASE j # run[w].job
      <3>1. status'[j] = status[j] /\ tally'[j].limited = tally[j].limited
        BY <1>0, <1>2, <2>1, <2>3, InnerRows DEF RowsAgree, Inner
      <3> QED  BY <1>1, <2>1, <3>1 DEF Inner
    <2> QED  BY <2>2, <2>3
  <1>3. ASSUME NEW w \in Worker, AwaitThrows(w) \/ LoseLock(w)  PROVE FALSE
    BY <1>3, FaultsTell
  <1>4. ASSUME NEW w \in Worker, Return(w)  PROVE Fine(j)'
    <2>1. /\ UNCHANGED <<status, tally, stalls>> /\ run[w].pc = "return" /\ Busy(w)
          /\ bull'[j] = bull[j] \/ (j = run[w].job /\ bull'[j] = "completed")
      BY <1>4 DEF Return, At, dbVars, Busy, TypeOK
    <2>2. status[run[w].job] = "COMPLETED"
      BY <1>0, <2>1 DEF RowsAgree, RowOf
    <2> QED  BY <1>1, <2>1, <2>2
  <1>5. ASSUME NEW w \in Worker, Throw(w)  PROVE Fine(j)'
    <2>1. UNCHANGED <<status, tally, stalls>> /\ run[w].pc = "throw" /\ Busy(w)
      BY <1>5 DEF Throw, At, dbVars, Busy
    <2>2. CASE j = run[w].job /\ lock[j] = w
      <3>1. run[w].made = made[j]
        BY <2>2, WorkerAssumption DEF Locks
      <3>2. bull'[j] = IF made[j] + 1 < MaxAttempts THEN "waiting" ELSE "failed"
        BY <1>5, <2>2 DEF Throw, TypeOK
      <3>3. status[j] = "FAILED" \/ ~IsLastAttempt(w)
        <4>1. RowOf(w) /\ tally[j].limited = 0  BY <1>0, <2>1 DEF RowsAgree
        <4> QED  BY <2>1, <2>2, <4>1 DEF RowOf
      <3>4. made[j] \in Nat /\ MaxAttempts \in Nat
        BY BoundAssumption DEF TypeOK
      <3>5. ~IsLastAttempt(w) => made[j] + 1 < MaxAttempts
        BY <3>1, <3>4 DEF IsLastAttempt
      <3> QED  BY <2>1, <3>2, <3>3, <3>5
    <2>3. CASE ~(j = run[w].job /\ lock[j] = w)
      <3>1. bull'[j] = bull[j]
        BY <1>5, <2>3 DEF Throw, TypeOK
      <3> QED  BY <1>1, <2>1, <3>1
    <2> QED  BY <2>2, <2>3
  <1>6. ASSUME NEW w \in Worker, Crash(w)  PROVE Fine(j)'
    <2>1. UNCHANGED <<status, tally>>
      BY <1>6 DEF Crash, dbVars
    <2>2. CASE j = run[w].job /\ lock[j] = w
      <3>1. stalls[j] \in Nat /\ stalls'[j] = stalls[j] + 1
            /\ bull'[j] = IF stalls[j] < MaxStalled THEN "waiting" ELSE "failed"
        BY <1>6, <2>2 DEF Crash, Stalled, TypeOK
      <3> QED  BY <3>1 DEF MaxStalled
    <2>3. CASE ~(j = run[w].job /\ lock[j] = w)
      <3>1. bull'[j] = bull[j] /\ stalls'[j] = stalls[j]
        BY <1>6, <2>3 DEF Crash, Stalled, TypeOK
      <3> QED  BY <1>1, <2>1, <3>1
    <2> QED  BY <2>2, <2>3
  <1>7. ASSUME NEW w \in Worker, NEW i \in Job, Deliver(w, i)  PROVE Fine(j)'
    <2>1. /\ UNCHANGED <<status, tally, stalls>>
          /\ bull'[j] = bull[j] \/ bull'[j] = "active"
      BY <1>7 DEF Deliver, dbVars, TypeOK
    <2> QED  BY <1>1, <2>1
  <1>8. ASSUME NEW w \in Worker, NEW i \in Job, MoveToDlq(w, i)  PROVE Fine(j)'
    <2>1. tally'[j].limited = tally[j].limited
      BY <1>8 DEF MoveToDlq, Bump, TypeOK, Tallies
    <2> QED  BY <1>1, <1>8, <2>1 DEF MoveToDlq, dbVars
  <1>9. ASSUME NEW i \in Job, Repeat(i)  PROVE Fine(j)'
    <2>1. /\ status' = status /\ tally'[j].limited = tally[j].limited
          /\ (bull'[j] = bull[j] /\ stalls'[j] = stalls[j]) \/ bull'[j] = "waiting"
      BY <1>9 DEF Repeat, dbVars, Bump, TypeOK, Tallies
    <2> QED  BY <1>1, <2>1
  <1>10. CASE MinutePasses \/ UNCHANGED vars
    BY <1>1, <1>10 DEF MinutePasses, vars, dbVars, bullVars
  <1> QED  BY <1>2, <1>3, <1>4, <1>5, <1>6, <1>7, <1>8, <1>9, <1>10
           DEF Next, ExecuteStep, InnerStep

-----------------------------------------------------------------------------
(* The theorems *)

LEMMA InitInv == Init => IInv
  <1> SUFFICES ASSUME Init  PROVE IInv
    OBVIOUS
  <1>1. \A w \in Worker : ~Busy(w)
    BY DEF Init, Busy, Idle
  <1>2. Alone /\ RowsAgree
    BY <1>1 DEF Alone, RowsAgree
  <1>3. OutcomeAgrees
    BY DEF Init, OutcomeAgrees
  <1> QED  BY <1>2, <1>3, InitType, InitLocks DEF IInv

LEMMA NextInv == IInv /\ [Next]_vars => IInv'
  BY TypeStep, LocksStep, AloneStep, RowsStep, OutcomeStep DEF IInv

\* Every reachable state satisfies the inductive invariant.
THEOREM Inductive == Spec => []IInv
  <1> QED  BY InitInv, NextInv, PTL DEF Spec

\* Every variable of a run, its rows and BullMQ's books stays in its domain; attemptsMade
\* and the stalled count never pass their maxima.
THEOREM TypeCorrect == Spec => []TypeOK
  <1>1. IInv => TypeOK
    BY DEF IInv
  <1> QED  BY <1>1, Inductive, PTL

\* base.processor.ts: without failing statements, lost locks and rejected attempts the
\* jobs row and BullMQ agree on every job that is over, through crashes at any await.
THEOREM OutcomesAgree == Spec => []OutcomeAgrees
  <1>1. IInv => OutcomeAgrees
    BY DEF IInv
  <1> QED  BY <1>1, Inductive, PTL

\* base.processor.ts: execute() skips a job it finds COMPLETED, so a job that does not
\* recur stays COMPLETED however often it is delivered again after crashes.
THEOREM CompletedStays == Spec => CompletedSticks
  <1>1. IInv /\ [Next]_vars =>
          [\A j \in Job \ Recurring :
             Reliable' /\ status[j] = "COMPLETED" => status'[j] = "COMPLETED"]_vars
    <2> SUFFICES ASSUME IInv, Next, NEW j \in Job \ Recurring,
                        Reliable', status[j] = "COMPLETED", status'[j] # "COMPLETED"
                 PROVE  FALSE
      OBVIOUS
    <2>1. PICK w \in Worker : Begin(w) \/ Complete(w) \/ MarkFailed(w)
      BY DEF Next, ExecuteStep, RateCheck, FindJob, SkipCompleted, ReadSequence, SaveSequence,
             StampJob, StartAttempt, ProcessSucceeds, ProcessFails, RowCompleted, ChainCompleted,
             CountCompleted, RowFailed, CountFailed, ParentFailure, Finally, Return, Throw,
             AwaitThrows, Crash, LoseLock, Deliver, MoveToDlq, Repeat, MinutePasses, dbVars
    <2>2. /\ run[w].pc \in {"begin", "complete", "markFailed"} /\ run[w].job = j
      BY <2>1 DEF Begin, Complete, MarkFailed, Go, At, IInv, TypeOK
    <2>3. Reliable
      BY BudgetStep DEF IInv
    <2>4. RowOf(w)
      BY <2>2, <2>3 DEF IInv, RowsAgree, Busy
    <2> QED  BY <2>2, <2>4 DEF RowOf, Working
  <1> QED  BY <1>1, Inductive, PTL DEF Spec, CompletedSticks
=============================================================================
