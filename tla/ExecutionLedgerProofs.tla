------------------------ MODULE ExecutionLedgerProofs ------------------------
(***************************************************************************)
(* Proofs about the calls JobExecution counts: how often a job is released, *)
(* counted, sent to the dead letter queue and left with an open attempt    *)
(* row, for every set of jobs and workers, and every number of attempts    *)
(* and faults.                                                             *)
(***************************************************************************)
EXTENDS ExecutionProofs, FiniteSetTheorems

-----------------------------------------------------------------------------
(* The inductive invariant *)

One(b) == IF b THEN 1 ELSE 0

\* What execute()'s locals say at each await, whatever has failed before.
LocalsOf(w) ==
    /\ run[w].pc \in InCatch => run[w].threw
    /\ run[w].threw => run[w].pc \in InCatch \cup {"finally", "throw"}
    /\ run[w].pc \in BeforeTry \cup {"process"} => ~run[w].ok
    /\ run[w].pc \in {"rowCompleted", "complete", "chain", "count"} => run[w].ok
    /\ run[w].pc = "finally" => run[w].ok \/ run[w].threw
    /\ run[w].pc \in {"markFailed", "countFailed"} => IsLastAttempt(w)
    /\ run[w].pc = "skip" => run[w].job \notin Recurring

Locals == /\ \A w \in Worker : LocalsOf(w)
          /\ \A j \in Job \ Recurring : tally[j].repeated = 0

\* The runs of j that have lost its lock and go on all the same.
IsStray(w, j, P) == run[w].job = j /\ lock[j] # w /\ run[w].pc \in P
Stray(j, P) == {w \in Worker : IsStray(w, j, P)}

\* Without a fault a job that is COMPLETED is over for BullMQ, or about to be.
Fresh ==
    InfraSpent = 0 => \A j \in Job \ Recurring : status[j] = "COMPLETED" =>
        \/ bull[j] = "completed"
        \/ /\ bull[j] = "active" /\ ~run[lock[j]].threw
           /\ run[lock[j]].pc \in {"chain", "count", "finally", "return"}

\* The awaits before execute() has released the slot, and those before it has counted
\* the outcome.
Unreleased == PC \ {"idle", "return", "throw"}
Uncounted == BeforeTry \cup InTry \cup {"rowFailed", "markFailed", "countFailed"}

\* This run, or the attempt that follows it, will release the slot; both will when a
\* statement after process() has thrown and it was not the last attempt.
WillRelease(w) ==
    run[w].pc \in Unreleased \/ (run[w].pc = "throw" /\ ~IsLastAttempt(w))
WillReleaseTwice(w) ==
    run[w].pc \in Unreleased /\ run[w].ok /\ run[w].threw /\ ~IsLastAttempt(w)

\* This run, or the attempt that follows it, will count the job.
WillCount(w) ==
    \/ run[w].pc \in Uncounted
    \/ /\ ~IsLastAttempt(w)
       /\ \/ run[w].pc \in {"parent", "throw"}
          \/ run[w].pc = "finally" /\ run[w].threw

ReleaseDue(j) == bull[j] = "waiting" \/ (bull[j] = "active" /\ WillRelease(lock[j]))
CountDue(j) == bull[j] = "waiting" \/ (bull[j] = "active" /\ WillCount(lock[j]))
Twice(j) == bull[j] = "active" /\ WillReleaseTwice(lock[j])

\* Calls made and calls to come never exceed the deliveries by more than the faults ...
ReleaseAtMost(j) ==
    tally[j].released + One(ReleaseDue(j)) + One(Twice(j))
        + Cardinality(Stray(j, Unreleased)) <= Cycles(j) + InfraSpent
CountAtMost(j) ==
    tally[j].completed + tally[j].failed + One(CountDue(j))
        + Cardinality(Stray(j, Uncounted)) <= Cycles(j) + InfraSpent

\* ... nor fall short of them by more than the faults and the rejected attempts.
ReleaseAtLeast(j) ==
    tally[j].released + One(ReleaseDue(j)) + InfraSpent + tally[j].limited >= Cycles(j)
CountAtLeast(j) ==
    tally[j].completed + tally[j].failed + One(CountDue(j)) + InfraSpent
        + tally[j].limited >= Cycles(j)

\* A delivery ends in one "failed" event at most, and each event in one DLQ job.
EventsOf(j) == {e \in events : e[2] = j}
DlqAtMost(j) == tally[j].dlq + Cardinality(EventsOf(j)) + One(~Finished(j)) <= Cycles(j)

\* The open rows that no run is on its way to close.
Closing == {"begin", "process", "rowCompleted", "rowFailed"}
Abandoned(j) == {i \in OpenRows(j) :
    \A w \in Worker : run[w].job = j /\ run[w].pc \in Closing => run[w].row # i}
RowsAtMost(j) == Cardinality(Abandoned(j)) <= InfraSpent

Totals(j) == ReleaseAtMost(j) /\ ReleaseAtLeast(j) /\ CountAtMost(j) /\ CountAtLeast(j)

Books == \A j \in Job : Totals(j) /\ DlqAtMost(j) /\ RowsAtMost(j)

-----------------------------------------------------------------------------
(* What the steps inside execute() do to the locals and the tallies *)

LEMMA OneType == \A b : One(b) \in {0, 1}
  BY DEF One

\* w goes from one await to the next, counting one call for its job, if "call" is one.
Hop(w, from, to, call) ==
    /\ run[w].pc = from /\ run'[w].pc = to
    /\ \A t \in Tallies :
          tally'[run[w].job][t] = tally[run[w].job][t] + One(t = call)

Same(w) == run'[w].ok = run[w].ok /\ run'[w].threw = run[w].threw

\* The paths through execute() ...
Path(w) ==
    \/ /\ Same(w)
       /\ \/ Hop(w, "rate", "throw", "limited") \/ Hop(w, "rate", "find", "none")
          \/ Hop(w, "find", "sequence", "none")
          \/ /\ Hop(w, "find", "skip", "none")
             /\ status[run[w].job] = "COMPLETED" /\ run[w].job \notin Recurring
          \/ Hop(w, "skip", "return", "released")
          \/ Hop(w, "sequence", "save", "none") \/ Hop(w, "save", "attempt", "none")
          \/ Hop(w, "save", "stamp", "none") \/ Hop(w, "stamp", "attempt", "none")
          \/ Hop(w, "attempt", "begin", "none") \/ Hop(w, "begin", "process", "none")
          \/ Hop(w, "rowCompleted", "complete", "none") \/ Hop(w, "complete", "chain", "none")
          \/ Hop(w, "chain", "count", "none") \/ Hop(w, "count", "finally", "completed")
          \/ Hop(w, "rowFailed", "markFailed", "none") /\ IsLastAttempt(w)
          \/ Hop(w, "rowFailed", "parent", "none") /\ ~IsLastAttempt(w)
          \/ Hop(w, "markFailed", "countFailed", "none")
          \/ Hop(w, "countFailed", "parent", "failed") \/ Hop(w, "parent", "finally", "none")
          \/ /\ Hop(w, "finally", IF run[w].threw THEN "throw" ELSE "return",
                                   IF run[w].ok \/ IsLastAttempt(w) THEN "released" ELSE "none")
    \/ Hop(w, "process", "rowCompleted", "none") /\ run'[w].ok /\ run'[w].threw = run[w].threw
    \/ Hop(w, "process", "rowFailed", "none") /\ run'[w].threw /\ run'[w].ok = run[w].ok

\* ... and those of a statement that throws.
ThrownPath(w) ==
    /\ Hop(w, run[w].pc, run'[w].pc, "none")
    /\ \/ run[w].pc \in BeforeTry \cup {"process"} /\ run'[w].pc = "throw" /\ Same(w)
       \/ /\ run[w].pc \in InTry \ {"process", "chain"} /\ run'[w].pc = "rowFailed"
          /\ run'[w].threw /\ run'[w].ok = run[w].ok
       \/ run[w].pc \in InCatch /\ run'[w].pc = "finally" /\ Same(w)

LEMMA TallyTypes ==
    ASSUME TypeOK, NEW j \in Job, NEW t \in Tallies
    PROVE  tally[j][t] \in Nat
  BY DEF TypeOK

LEMMA BumpOne ==
    ASSUME TypeOK, NEW j \in Job, NEW c \in Tallies, Bump(j, c)
    PROVE  /\ \A t \in Tallies : tally'[j][t] = tally[j][t] + One(t = c)
           /\ \A i \in Job \ {j} : tally'[i] = tally[i]
  BY TallyTypes DEF TypeOK, Bump, One

LEMMA BumpNone ==
    ASSUME TypeOK, NEW j \in Job, tally' = tally
    PROVE  \A t \in Tallies : tally'[j][t] = tally[j][t] + One(t = "none")
  BY TallyTypes DEF Tallies, One

LEMMA InnerPath ==
    ASSUME TypeOK, Locks, NEW w \in Worker, InnerStep(w)
    PROVE  Path(w) /\ \A i \in Job \ {run[w].job} : tally'[i] = tally[i]
  <1> DEFINE j == run[w].job
  <1>0. j \in Job /\ run[w] \in Local /\ run \in [Worker -> Local]
    BY InnerSteps DEF Inner, Locks, TypeOK, Local
  <1>1. ASSUME tally' = tally
        PROVE  /\ \A t \in Tallies : tally'[j][t] = tally[j][t] + One(t = "none")
               /\ \A i \in Job \ {j} : tally'[i] = tally[i]
    BY <1>0, <1>1, BumpNone
  <1>2. ASSUME NEW c \in Tallies, Bump(j, c)
        PROVE  /\ \A t \in Tallies : tally'[j][t] = tally[j][t] + One(t = c)
               /\ \A i \in Job \ {j} : tally'[i] = tally[i]
    BY <1>0, <1>2, BumpOne
  <1>3. {"released", "completed", "failed", "limited"} \subseteq Tallies
    BY DEF Tallies
  <1>4. ASSUME NEW a, NEW b, Go(w, a, b)
        PROVE  run[w].pc = a /\ run'[w].pc = b /\ Same(w)
    BY <1>0, <1>4 DEF Go, At, Same, Local
  <1>5. CASE RateCheck(w)
    <2>1. CASE rate + 1 > RateLimit
      BY <1>2, <1>3, <1>4, <1>5, <2>1 DEF RateCheck, Path, Hop
    <2>2. CASE ~(rate + 1 > RateLimit)
      BY <1>1, <1>4, <1>5, <2>2 DEF RateCheck, Path, Hop
    <2> QED  BY <2>1, <2>2
  <1>6. CASE FindJob(w)
    BY <1>1, <1>4, <1>6 DEF FindJob, Path, Hop
  <1>7. CASE SkipCompleted(w)
    BY <1>2, <1>3, <1>4, <1>7 DEF SkipCompleted, Path, Hop
  <1>8. CASE ReadSequence(w)
    <2>1. run[w].pc = "sequence" /\ run'[w].pc = "save" /\ Same(w) /\ tally' = tally
      BY <1>0, <1>8 DEF ReadSequence, At, Same, Local
    <2> QED  BY <1>1, <2>1 DEF Path, Hop
  <1>9. CASE SaveSequence(w)
    BY <1>1, <1>4, <1>9 DEF SaveSequence, Path, Hop
  <1>10. CASE StampJob(w)
    BY <1>1, <1>4, <1>10 DEF StampJob, Path, Hop
  <1>11. CASE StartAttempt(w)
    <2>1. run[w].pc = "attempt" /\ run'[w].pc = "begin" /\ Same(w) /\ tally' = tally
      BY <1>0, <1>11 DEF StartAttempt, At, Same, Local
    <2> QED  BY <1>1, <2>1 DEF Path, Hop
  <1>12. CASE Begin(w)
    BY <1>1, <1>4, <1>12 DEF Begin, Path, Hop
  <1>13. CASE ProcessSucceeds(w)
    <2>1. /\ run[w].pc = "process" /\ run'[w].pc = "rowCompleted" /\ tally' = tally
          /\ run'[w].ok = TRUE /\ run'[w].threw = run[w].threw
      BY <1>0, <1>13 DEF ProcessSucceeds, At, Local
    <2> QED  BY <1>1, <2>1 DEF Path, Hop
  <1>14. CASE ProcessFails(w)
    <2>1. /\ run[w].pc = "process" /\ run'[w].pc = "rowFailed" /\ tally' = tally
          /\ run'[w].threw = TRUE /\ run'[w].ok = run[w].ok
      BY <1>0, <1>14 DEF ProcessFails, At, Local
    <2> QED  BY <1>1, <2>1 DEF Path, Hop
  <1>15. CASE RowCompleted(w)
    BY <1>1, <1>4, <1>15 DEF RowCompleted, Path, Hop
  <1>16. CASE Complete(w)
    BY <1>1, <1>4, <1>16 DEF Complete, Path, Hop
  <1>17. CASE ChainCompleted(w)
    BY <1>1, <1>4, <1>17 DEF ChainCompleted, Path, Hop
  <1>18. CASE CountCompleted(w)
    BY <1>2, <1>3, <1>4, <1>18 DEF CountCompleted, Path, Hop
  <1>19. CASE RowFailed(w)
    <2>1. CASE IsLastAttempt(w)
      BY <1>1, <1>4, <1>19, <2>1 DEF RowFailed, Path, Hop
    <2>2. CASE ~IsLastAttempt(w)
      BY <1>1, <1>4, <1>19, <2>2 DEF RowFailed, Path, Hop
    <2> QED  BY <2>1, <2>2
  <1>20. CASE MarkFailed(w)
    BY <1>1, <1>4, <1>20 DEF MarkFailed, Path, Hop
  <1>21. CASE CountFailed(w)
    BY <1>2, <1>3, <1>4, <1>21 DEF CountFailed, Path, Hop
  <1>22. CASE ParentFailure(w)
    BY <1>1, <1>4, <1>22 DEF ParentFailure, Path, Hop
  <1>23. CASE Finally(w)
    <2>1. CASE run[w].ok \/ IsLastAttempt(w)
      BY <1>2, <1>3, <1>4, <1>23, <2>1 DEF Finally, Path, Hop
    <2>2. CASE ~(run[w].ok \/ IsLastAttempt(w))
      BY <1>1, <1>4, <1>23, <2>2 DEF Finally, Path, Hop
    <2> QED  BY <2>1, <2>2
  <1> QED  BY <1>5, <1>6, <1>7, <1>8, <1>9, <1>10, <1>11, <1>12, <1>13, <1>14, <1>15, <1>16,
              <1>17, <1>18, <1>19, <1>20, <1>21, <1>22, <1>23 DEF InnerStep

LEMMA ThrowPath ==
    ASSUME TypeOK, Locks, NEW w \in Worker, AwaitThrows(w)
    PROVE  ThrownPath(w) /\ \A i \in Job : tally'[i] = tally[i]
  <1>0. run[w].job \in Job /\ run[w] \in Local /\ run \in [Worker -> Local]
    BY ThrowingStep DEF Inner, Locks, TypeOK, Local
  <1>1. tally' = tally
    BY DEF AwaitThrows
  <1>2. \A t \in Tallies : tally'[run[w].job][t] = tally[run[w].job][t] + One(t = "none")
    BY <1>0, <1>1, BumpNone
  <1>3. CASE run[w].pc \in BeforeTry \cup {"process"} /\ run' = [run EXCEPT ![w].pc = "throw"]
    <2>1. run'[w].pc = "throw" /\ Same(w)
      BY <1>0, <1>3 DEF Same, Local
    <2>2. run[w].pc \in BeforeTry \cup {"process"}
      BY <1>3
    <2> QED  BY <1>1, <1>2, <2>1, <2>2 DEF ThrownPath, Hop
  <1>4. CASE /\ run[w].pc \in InTry \ {"process", "chain"}
             /\ run' = [run EXCEPT ![w].pc = "rowFailed", ![w].threw = TRUE]
    <2>1. run'[w].pc = "rowFailed" /\ run'[w].threw = TRUE /\ run'[w].ok = run[w].ok
      BY <1>0, <1>4 DEF Local
    <2>2. run[w].pc \in InTry \ {"process", "chain"}
      BY <1>4
    <2> QED  BY <1>1, <1>2, <2>1, <2>2 DEF ThrownPath, Hop
  <1>5. CASE run[w].pc \in InCatch /\ run' = [run EXCEPT ![w].pc = "finally"]
    <2>1. run'[w].pc = "finally" /\ Same(w)
      BY <1>0, <1>5 DEF Same, Local
    <2>2. run[w].pc \in InCatch
      BY <1>5
    <2> QED  BY <1>1, <1>2, <2>1, <2>2 DEF ThrownPath, Hop
  <1> QED  BY <1>1, <1>3, <1>4, <1>5 DEF AwaitThrows

\* What such a step may do to w's own share of the two books, as the run that holds the
\* lock and as one that has lost it, when it costs d faults.
Released(j) == tally[j].released
Counted(j) == tally[j].completed + tally[j].failed

Shares(w, j, d) ==
    /\ Released(j)' + One(WillRelease(w)') + One(WillReleaseTwice(w)')
         <= Released(j) + One(WillRelease(w)) + One(WillReleaseTwice(w)) + d
    /\ Released(j)' + One(run'[w].pc \in Unreleased)
         <= Released(j) + One(run[w].pc \in Unreleased) + d
    /\ Released(j)' + One(WillRelease(w)') + tally'[j].limited + d
         >= Released(j) + One(WillRelease(w)) + tally[j].limited
    /\ Counted(j)' + One(WillCount(w)') <= Counted(j) + One(WillCount(w)) + d
    /\ Counted(j)' + One(run'[w].pc \in Uncounted)
         <= Counted(j) + One(run[w].pc \in Uncounted) + d
    /\ \/ Counted(j)' + One(WillCount(w)') + tally'[j].limited + d
            >= Counted(j) + One(WillCount(w)) + tally[j].limited
       \/ run[w].pc = "find" /\ status[j] = "COMPLETED" /\ j \notin Recurring
    /\ Released(j)' >= Released(j) /\ Counted(j)' >= Counted(j)
    /\ tally'[j].limited >= tally[j].limited
    /\ tally'[j].repeated = tally[j].repeated /\ tally'[j].dlq = tally[j].dlq

LEMMA HopTallies ==
    ASSUME TypeOK, NEW w \in Worker, NEW j \in Job, run[w].job = j, NEW from, NEW to, NEW c,
           Hop(w, from, to, c)
    PROVE  /\ run[w].pc = from /\ run'[w].pc = to
           /\ Released(j)' = Released(j) + One(c = "released")
           /\ Counted(j)' = Counted(j) + One(c = "completed") + One(c = "failed")
           /\ tally'[j].limited = tally[j].limited + One(c = "limited")
           /\ tally'[j].repeated = tally[j].repeated + One(c = "repeated")
           /\ tally'[j].dlq = tally[j].dlq + One(c = "dlq")
           /\ Released(j) \in Nat /\ Counted(j) \in Nat /\ tally[j].limited \in Nat
           /\ tally[j].repeated \in Nat /\ tally[j].dlq \in Nat
  <1>1. /\ tally[j].released \in Nat /\ tally[j].completed \in Nat /\ tally[j].failed \in Nat
        /\ tally[j].limited \in Nat /\ tally[j].repeated \in Nat /\ tally[j].dlq \in Nat
    BY TallyTypes DEF Tallies
  <1>2. /\ run[w].pc = from /\ run'[w].pc = to
        /\ tally'[j].released = tally[j].released + One(c = "released")
        /\ tally'[j].completed = tally[j].completed + One(c = "completed")
        /\ tally'[j].failed = tally[j].failed + One(c = "failed")
        /\ tally'[j].limited = tally[j].limited + One(c = "limited")
        /\ tally'[j].repeated = tally[j].repeated + One(c = "repeated")
        /\ tally'[j].dlq = tally[j].dlq + One(c = "dlq")
    BY DEF Hop, Tallies
  <1>3. /\ One(c = "completed") \in {0, 1} /\ One(c = "failed") \in {0, 1}
    BY OneType
  <1> QED  BY <1>1, <1>2, <1>3 DEF Released, Counted

LEMMA PathShares ==
    ASSUME TypeOK, NEW w \in Worker, LocalsOf(w), NEW j \in Job, run[w].job = j,
           run'[w].job = j, run'[w].made = run[w].made, Path(w)
    PROVE  Shares(w, j, 0) /\ LocalsOf(w)'
  <1>1. IsLastAttempt(w)' <=> IsLastAttempt(w)
    BY DEF IsLastAttempt
  <1>2. /\ Released(j) \in Nat /\ Counted(j) \in Nat /\ tally[j].limited \in Nat
        /\ tally[j].repeated \in Nat /\ tally[j].dlq \in Nat
    BY TallyTypes DEF Tallies, Released, Counted
  <1>3. ASSUME NEW from, NEW to, NEW c, Hop(w, from, to, c)
        PROVE  /\ run[w].pc = from /\ run'[w].pc = to
               /\ Released(j)' = Released(j) + One(c = "released")
               /\ Counted(j)' = Counted(j) + One(c = "completed") + One(c = "failed")
               /\ tally'[j].limited = tally[j].limited + One(c = "limited")
               /\ tally'[j].repeated = tally[j].repeated + One(c = "repeated")
               /\ tally'[j].dlq = tally[j].dlq + One(c = "dlq")
    BY <1>3, HopTallies
  <1> USE DEF Shares, WillRelease, WillReleaseTwice, WillCount, One, Unreleased, Uncounted,
              PC, BeforeTry, InTry, InCatch
  <1>4. ASSUME NEW from, NEW to, from \in Uncounted \ {"find", "process"}, to \in Uncounted,
               Hop(w, from, to, "none"), Same(w)
        PROVE  Shares(w, j, 0)
    <2>1. /\ run[w].pc = from /\ run'[w].pc = to
          /\ Released(j)' = Released(j) /\ Counted(j)' = Counted(j)
          /\ tally'[j].limited = tally[j].limited
          /\ tally'[j].repeated = tally[j].repeated /\ tally'[j].dlq = tally[j].dlq
      BY <1>2, <1>3, <1>4
    <2> QED  BY <1>1, <1>2, <1>4, <2>1 DEF Same
  <1>5. ASSUME \/ /\ Hop(w, "process", "rowCompleted", "none")
                  /\ run'[w].ok /\ run'[w].threw = run[w].threw
               \/ /\ Hop(w, "process", "rowFailed", "none")
                  /\ run'[w].threw /\ run'[w].ok = run[w].ok
        PROVE  Shares(w, j, 0)
    BY <1>1, <1>2, <1>3, <1>5 DEF LocalsOf
  <1>6. ASSUME \/ Hop(w, "rate", "throw", "limited") 
               \/ Hop(w, "find", "skip", "none") /\ status[j] = "COMPLETED" /\ j \notin Recurring
               \/ Hop(w, "find", "sequence", "none") 
               \/ Hop(w, "skip", "return", "released") 
               \/ Hop(w, "count", "finally", "completed"),
               Same(w)
        PROVE  Shares(w, j, 0)
    BY <1>1, <1>2, <1>3, <1>6 DEF LocalsOf, Same
  <1>7. ASSUME \/ Hop(w, "rowFailed", "parent", "none") /\ ~IsLastAttempt(w)
               \/ Hop(w, "countFailed", "parent", "failed") \/ Hop(w, "parent", "finally", "none"),
               Same(w)
        PROVE  Shares(w, j, 0)
    BY <1>1, <1>2, <1>3, <1>7 DEF LocalsOf, Same
  <1>8. ASSUME Hop(w, "finally", IF run[w].threw THEN "throw" ELSE "return",
                                 IF run[w].ok \/ IsLastAttempt(w) THEN "released" ELSE "none"),
               Same(w)
        PROVE  Shares(w, j, 0)
    <2>1. CASE run[w].threw
      BY <1>1, <1>2, <1>3, <1>8, <2>1 DEF LocalsOf, Same
    <2>2. CASE ~run[w].threw
      BY <1>1, <1>2, <1>3, <1>8, <2>2 DEF LocalsOf, Same
    <2> QED  BY <2>1, <2>2
  <1>9. Shares(w, j, 0)
    BY <1>4, <1>5, <1>6, <1>7, <1>8 DEF Path
  <1>10. LocalsOf(w)'
    BY <1>1, <1>3 DEF Path, LocalsOf, Same
  <1> QED  BY <1>9, <1>10

LEMMA ThrownShares ==
    ASSUME TypeOK, NEW w \in Worker, LocalsOf(w), NEW j \in Job, run[w].job = j,
           run'[w].job = j, run'[w].made = run[w].made, ThrownPath(w)
    PROVE  Shares(w, j, 1) /\ LocalsOf(w)'
  <1>1. IsLastAttempt(w)' <=> IsLastAttempt(w)
    BY DEF IsLastAttempt
  <1>2. /\ Released(j) \in Nat /\ Counted(j) \in Nat /\ tally[j].limited \in Nat
        /\ tally[j].repeated \in Nat /\ tally[j].dlq \in Nat
    BY TallyTypes DEF Tallies, Released, Counted
  <1>3. /\ Released(j)' = Released(j) /\ Counted(j)' = Counted(j)
        /\ tally'[j].limited = tally[j].limited
        /\ tally'[j].repeated = tally[j].repeated /\ tally'[j].dlq = tally[j].dlq
    <2>1. Hop(w, run[w].pc, run'[w].pc, "none")
      BY DEF ThrownPath
    <2> QED  BY <1>2, <2>1, HopTallies DEF One
  <1> USE DEF BeforeTry, InTry, InCatch
  <1>4. CASE run[w].pc \in BeforeTry \cup {"process"} /\ run'[w].pc = "throw" /\ Same(w)
    BY <1>1, <1>2, <1>3, <1>4
       DEF LocalsOf, Same, Shares, WillRelease, WillReleaseTwice, WillCount, One, Unreleased, 
           Uncounted, PC
  <1>5. CASE /\ run[w].pc \in InTry \ {"process", "chain"} /\ run'[w].pc = "rowFailed"
             /\ run'[w].threw /\ run'[w].ok = run[w].ok
    BY <1>1, <1>2, <1>3, <1>5
       DEF LocalsOf, Same, Shares, WillRelease, WillReleaseTwice, WillCount, One, Unreleased, 
           Uncounted, PC
  <1>6. CASE run[w].pc \in InCatch /\ run'[w].pc = "finally" /\ Same(w)
    BY <1>1, <1>2, <1>3, <1>6
       DEF LocalsOf, Same, Shares, WillRelease, WillReleaseTwice, WillCount, One, Unreleased, 
           Uncounted, PC
  <1> QED  BY <1>4, <1>5, <1>6 DEF ThrownPath

-----------------------------------------------------------------------------
(* The faults spent, and the runs that have lost their lock *)

LEMMA InfraType ==
    ASSUME TypeOK, Locks
    PROVE  InfraSpent \in Nat
  <1>1. \A f \in FaultKind : Faults[f] \in Nat /\ budget[f] \in Nat /\ budget[f] <= Faults[f]
    BY FaultAssumption DEF TypeOK, Locks
  <1> QED  BY <1>1 DEF InfraSpent, Spent, FaultKind

\* A throwing await, a crash and a lost lock are one fault each; nothing else is.
LEMMA InfraStep ==
    ASSUME TypeOK, Locks
    PROVE  /\ budget' = budget => InfraSpent' = InfraSpent
           /\ Spend("db") \/ Spend("crash") \/ Spend("stall") => InfraSpent' = InfraSpent + 1
           /\ Spend("repeat") => InfraSpent' = InfraSpent
  <1>1. \A f \in FaultKind : Faults[f] \in Nat /\ budget[f] \in Nat
    BY FaultAssumption DEF TypeOK
  <1>2. budget \in [FaultKind -> Nat]
    BY DEF TypeOK
  <1> QED  BY <1>1, <1>2 DEF InfraSpent, Spent, FaultKind, Spend

LEMMA StrayFinite ==
    ASSUME NEW j, NEW P
    PROVE  IsFiniteSet(Stray(j, P)) /\ Cardinality(Stray(j, P)) \in Nat
  <1>1. Stray(j, P) \subseteq Worker
    BY DEF Stray
  <1> QED  BY <1>1, WorkerAssumption, FS_Subset, FS_CardinalityType

\* A step of one worker lets that worker alone join or leave the strays.
LEMMA StrayStep ==
    ASSUME NEW j \in Job, NEW P, NEW w \in Worker,
           \A v \in Worker \ {w} : run'[v] = run[v] /\ (lock'[j] = v <=> lock[j] = v)
    PROVE  /\ Cardinality(Stray(j, P)') + One(IsStray(w, j, P))
                = Cardinality(Stray(j, P)) + One(IsStray(w, j, P)')
           /\ Cardinality(Stray(j, P)) \in Nat /\ Cardinality(Stray(j, P)') \in Nat
  <1> DEFINE S == Stray(j, P)
             T == Stray(j, P)'
  <1>1. /\ IsFiniteSet(S) /\ Cardinality(S) \in Nat
        /\ IsFiniteSet(T) /\ Cardinality(T) \in Nat
    <2>1. S \subseteq Worker /\ T \subseteq Worker
      BY DEF Stray
    <2> QED  BY <2>1, WorkerAssumption, FS_Subset, FS_CardinalityType
  <1>2. S \ {w} = T \ {w}
    BY DEF Stray, IsStray
  <1>3. (w \in S <=> IsStray(w, j, P)) /\ (w \in T <=> IsStray(w, j, P)')
    BY DEF Stray, IsStray
  <1> HIDE DEF S, T
  <1>4. CASE w \in T /\ w \notin S
    <2>1. T = S \cup {w}  BY <1>2, <1>4
    <2>2. Cardinality(S \cup {w}) = Cardinality(S) + 1
      BY <1>1, <1>4, FS_AddElement
    <2>3. Cardinality(T) + One(w \in S) = Cardinality(S) + One(w \in T)
      BY <1>1, <1>4, <2>1, <2>2 DEF One
    <2> QED  BY <1>1, <1>3, <2>3, <1>4 DEF S, T, One
  <1>5. CASE w \notin T /\ w \in S
    <2>1. T = S \ {w}  BY <1>2, <1>5
    <2>2. Cardinality(S \ {w}) = Cardinality(S) - 1
      BY <1>1, <1>5, FS_RemoveElement
    <2>3. Cardinality(T) + One(w \in S) = Cardinality(S) + One(w \in T)
      BY <1>1, <1>5, <2>1, <2>2 DEF One
    <2> QED  BY <1>1, <1>3, <2>3, <1>5 DEF S, T, One
  <1>6. CASE w \in T <=> w \in S
    <2>1. T = S  BY <1>2, <1>6
    <2> QED  BY <1>1, <1>3, <2>1, <1>6 DEF S, T, One
  <1> QED  BY <1>4, <1>5, <1>6

-----------------------------------------------------------------------------
(* The calls made and the calls to come *)

\* The terms of the four bounds are natural numbers.
LEMMA TermTypes ==
    ASSUME TypeOK, Locks, NEW j \in Job
    PROVE  /\ Released(j) \in Nat /\ Counted(j) \in Nat /\ tally[j].limited \in Nat
           /\ tally[j].repeated \in Nat /\ tally[j].dlq \in Nat /\ InfraSpent \in Nat
           /\ tally[j].released \in Nat /\ tally[j].completed \in Nat /\ tally[j].failed \in Nat
  BY TallyTypes, InfraType DEF Released, Counted, Tallies

\* A step that makes no call, costs d faults and shifts what is to come by d at most.
LEMMA TotalsMove ==
    ASSUME TypeOK, Locks, NEW j \in Job, Totals(j), NEW d \in Nat, InfraSpent' = InfraSpent + d,
           \A t \in Tallies \ {"dlq"} : tally'[j][t] = tally[j][t],
           Cardinality(Stray(j, Unreleased)') \in Nat, Cardinality(Stray(j, Uncounted)') \in Nat,
           One(ReleaseDue(j)') + One(Twice(j)') + Cardinality(Stray(j, Unreleased)')
             <= One(ReleaseDue(j)) + One(Twice(j)) + Cardinality(Stray(j, Unreleased)) + d,
           One(CountDue(j)') + Cardinality(Stray(j, Uncounted)')
             <= One(CountDue(j)) + Cardinality(Stray(j, Uncounted)) + d,
           One(ReleaseDue(j)') + d >= One(ReleaseDue(j)), One(CountDue(j)') + d >= One(CountDue(j))
    PROVE  Totals(j)'
  <1>1. /\ One(ReleaseDue(j)) \in Nat /\ One(Twice(j)) \in Nat /\ One(CountDue(j)) \in Nat
        /\ One(ReleaseDue(j)') \in Nat /\ One(Twice(j)') \in Nat /\ One(CountDue(j)') \in Nat
        /\ Cardinality(Stray(j, Unreleased)) \in Nat /\ Cardinality(Stray(j, Uncounted)) \in Nat
    BY StrayFinite DEF One
  <1>2. /\ Cycles(j)' = Cycles(j) /\ tally'[j].released = tally[j].released
        /\ tally'[j].completed = tally[j].completed /\ tally'[j].failed = tally[j].failed
        /\ tally'[j].limited = tally[j].limited
    BY DEF Tallies, Cycles
  <1>3. /\ tally[j].released \in Nat /\ tally[j].completed \in Nat /\ tally[j].failed \in Nat
        /\ tally[j].limited \in Nat /\ Cycles(j) \in Nat /\ InfraSpent \in Nat
    BY TermTypes DEF Cycles
  <1>4. ReleaseAtMost(j)'
    BY <1>1, <1>2, <1>3 DEF Totals, ReleaseAtMost
  <1>5. ReleaseAtLeast(j)'
    BY <1>1, <1>2, <1>3 DEF Totals, ReleaseAtLeast
  <1>6. CountAtMost(j)'
    BY <1>1, <1>2, <1>3 DEF Totals, CountAtMost
  <1>7. CountAtLeast(j)'
    BY <1>1, <1>2, <1>3 DEF Totals, CountAtLeast
  <1> QED  BY <1>4, <1>5, <1>6, <1>7 DEF Totals

\* A step that does not concern j, whatever it costs.
LEMMA TotalsFrame ==
    ASSUME TypeOK, Locks, NEW j \in Job, Totals(j), NEW d \in Nat, InfraSpent' = InfraSpent + d,
           \A t \in Tallies \ {"dlq"} : tally'[j][t] = tally[j][t],
           bull'[j] = bull[j], lock'[j] = lock[j],
           bull[j] = "active" => run'[lock[j]] = run[lock[j]],
           Cardinality(Stray(j, Unreleased)') \in Nat, Cardinality(Stray(j, Uncounted)') \in Nat,
           Cardinality(Stray(j, Unreleased)') <= Cardinality(Stray(j, Unreleased)),
           Cardinality(Stray(j, Uncounted)') <= Cardinality(Stray(j, Uncounted))
    PROVE  Totals(j)'
  <1>1. /\ One(ReleaseDue(j)') = One(ReleaseDue(j)) /\ One(Twice(j)') = One(Twice(j))
        /\ One(CountDue(j)') = One(CountDue(j))
    BY DEF ReleaseDue, CountDue, Twice, WillRelease, WillReleaseTwice, WillCount, IsLastAttempt
  <1>2. /\ One(ReleaseDue(j)) \in Nat /\ One(Twice(j)) \in Nat /\ One(CountDue(j)) \in Nat
        /\ Cardinality(Stray(j, Unreleased)) \in Nat /\ Cardinality(Stray(j, Uncounted)) \in Nat
    BY StrayFinite DEF One
  <1> QED  BY <1>1, <1>2, TotalsMove

LEMMA NoFaults ==
    ASSUME TypeOK, Locks, InfraSpent = 0
    PROVE  Reliable
  <1>1. \A f \in FaultKind : Faults[f] \in Nat /\ budget[f] \in Nat /\ budget[f] <= Faults[f]
    BY FaultAssumption DEF TypeOK, Locks
  <1>2. Spent("db") \in Nat /\ Spent("crash") \in Nat /\ Spent("stall") \in Nat
    BY <1>1 DEF Spent, FaultKind
  <1> QED  BY <1>2 DEF InfraSpent, Reliable

\* A run that finds its job COMPLETED got it through a fault.
LEMMA SkipTells ==
    ASSUME TypeOK, Locks, Alone, Fresh, Locals, NEW w \in Worker, NEW j \in Job,
           run[w].job = j, run[w].pc = "find", status[j] = "COMPLETED", j \notin Recurring
    PROVE  InfraSpent >= 1 /\ Cycles(j) = 1
  <1>1. Cycles(j) = 1
    BY DEF Locals, Cycles
  <1>2. ASSUME InfraSpent = 0  PROVE FALSE
    <2>1. lock[j] = w
      BY <1>2, NoFaults DEF Alone, Busy
    <2>2. bull[j] = "active"
      BY <2>1, WorkerAssumption DEF Locks
    <2> QED  BY <1>2, <2>1, <2>2 DEF Fresh
  <1> QED  BY <1>1, <1>2, InfraType

\* A step of w inside execute(), which costs d faults.
LEMMA InnerTotals ==
    ASSUME TypeOK, TypeOK', Locks, Alone, Fresh, Locals, NEW w \in Worker, Inner(w),
           NEW d \in Nat, InfraSpent' = InfraSpent + d, NEW i \in Job, run[w].job = i,
           Shares(w, i, d), \A k \in Job \ {i} : tally'[k] = tally[k],
           NEW j \in Job, Totals(j)
    PROVE  Totals(j)'
  <1>1. /\ \A v \in Worker \ {w} : run'[v] = run[v]
        /\ run'[w].job = run[w].job /\ lock' = lock /\ bull' = bull /\ run[w].pc # "idle"
    BY DEF Inner, Busy
  <1>2. ASSUME NEW P
        PROVE  /\ Cardinality(Stray(j, P)') + One(IsStray(w, j, P))
                    = Cardinality(Stray(j, P)) + One(IsStray(w, j, P)')
               /\ Cardinality(Stray(j, P)) \in Nat /\ Cardinality(Stray(j, P)') \in Nat
    BY <1>1, StrayStep
  <1>3. /\ Released(j) \in Nat /\ Counted(j) \in Nat /\ tally[j].limited \in Nat
        /\ tally[j].repeated \in Nat /\ InfraSpent \in Nat
    BY TermTypes
  <1>4. /\ Released(j) = tally[j].released /\ Counted(j) = tally[j].completed + tally[j].failed
        /\ Cycles(j) = 1 + tally[j].repeated
    BY DEF Released, Counted, Cycles
  <1>41. /\ tally'[j].released \in Nat /\ tally'[j].completed \in Nat
         /\ tally'[j].failed \in Nat /\ tally'[j].limited \in Nat
    <2>1. tally' \in [Job -> [Tallies -> Nat]]  BY DEF TypeOK
    <2> QED  BY <2>1 DEF Tallies
  <1>42. /\ One(WillRelease(w)) \in {0, 1} /\ One(WillRelease(w)') \in {0, 1}
         /\ One(WillReleaseTwice(w)) \in {0, 1} /\ One(WillReleaseTwice(w)') \in {0, 1}
         /\ One(WillCount(w)) \in {0, 1} /\ One(WillCount(w)') \in {0, 1}
    BY OneType
  <1>5. CASE j # i
    <2>1. ~IsStray(w, j, Unreleased) /\ ~IsStray(w, j, Unreleased)'
          /\ ~IsStray(w, j, Uncounted) /\ ~IsStray(w, j, Uncounted)'
      BY <1>1, <1>5 DEF IsStray
    <2>2. /\ Cardinality(Stray(j, Unreleased)') = Cardinality(Stray(j, Unreleased))
          /\ Cardinality(Stray(j, Uncounted)') = Cardinality(Stray(j, Uncounted))
      BY <1>2, <2>1 DEF One
    <2>3. bull[j] = "active" => lock[j] \in Worker \ {w}
      BY <1>1, <1>5 DEF Locks, TypeOK
    <2> QED  BY <1>1, <1>2, <1>5, <2>2, <2>3, TotalsFrame
  <1>6. CASE j = i /\ lock[j] = w
    <2>1. ~IsStray(w, j, Unreleased) /\ ~IsStray(w, j, Unreleased)'
          /\ ~IsStray(w, j, Uncounted) /\ ~IsStray(w, j, Uncounted)'
      BY <1>1, <1>6 DEF IsStray
    <2>2. /\ Cardinality(Stray(j, Unreleased)') = Cardinality(Stray(j, Unreleased))
          /\ Cardinality(Stray(j, Uncounted)') = Cardinality(Stray(j, Uncounted))
          /\ Cardinality(Stray(j, Unreleased)) \in Nat
          /\ Cardinality(Stray(j, Uncounted)) \in Nat
      BY <1>2, <2>1 DEF One
    <2>3. bull[j] = "active"
      BY <1>6, WorkerAssumption DEF Locks
    <2>4. /\ One(ReleaseDue(j)) = One(WillRelease(w)) /\ One(ReleaseDue(j)') = One(WillRelease(w)')
          /\ One(Twice(j)) = One(WillReleaseTwice(w)) /\ One(Twice(j)') = One(WillReleaseTwice(w)')
          /\ One(CountDue(j)) = One(WillCount(w)) /\ One(CountDue(j)') = One(WillCount(w)')
      BY <1>1, <1>6, <2>3
         DEF ReleaseDue, Twice, CountDue, WillRelease, WillReleaseTwice, WillCount, IsLastAttempt
    <2>5. /\ Cycles(j)' = Cycles(j) /\ Cycles(j) \in Nat
          /\ tally'[j].limited >= tally[j].limited
          /\ Released(j)' = tally'[j].released
          /\ Counted(j)' = tally'[j].completed + tally'[j].failed
      BY <1>3, <1>6 DEF Shares, Cycles, Released, Counted
    <2>6. One(ReleaseDue(j)) \in {0, 1} /\ One(Twice(j)) \in {0, 1} /\ One(CountDue(j)) \in {0, 1}
      BY OneType
    <2>7. ReleaseAtMost(j)'
      BY <1>3, <1>4, <1>41, <1>42, <1>6, <2>2, <2>4, <2>5, <2>6 DEF Totals, ReleaseAtMost, Shares
    <2>8. ReleaseAtLeast(j)'
      BY <1>3, <1>4, <1>41, <1>42, <1>6, <2>2, <2>4, <2>5, <2>6 DEF Totals, ReleaseAtLeast, Shares
    <2>9. CountAtMost(j)'
      BY <1>3, <1>4, <1>41, <1>42, <1>6, <2>2, <2>4, <2>5, <2>6 DEF Totals, CountAtMost, Shares
    <2>10. CountAtLeast(j)'
      BY <1>3, <1>4, <1>41, <1>42, <1>6, <2>2, <2>4, <2>5, <2>6, SkipTells DEF Totals, CountAtLeast, Shares
    <2> QED  BY <2>7, <2>8, <2>9, <2>10 DEF Totals
  <1>7. CASE j = i /\ lock[j] # w
    <2>1. /\ IsStray(w, j, Unreleased) <=> run[w].pc \in Unreleased
          /\ IsStray(w, j, Unreleased)' <=> run'[w].pc \in Unreleased
          /\ IsStray(w, j, Uncounted) <=> run[w].pc \in Uncounted
          /\ IsStray(w, j, Uncounted)' <=> run'[w].pc \in Uncounted
      BY <1>1, <1>7 DEF IsStray
    <2>2. /\ Cardinality(Stray(j, Unreleased)') + One(run[w].pc \in Unreleased)
               = Cardinality(Stray(j, Unreleased)) + One(run'[w].pc \in Unreleased)
          /\ Cardinality(Stray(j, Uncounted)') + One(run[w].pc \in Uncounted)
               = Cardinality(Stray(j, Uncounted)) + One(run'[w].pc \in Uncounted)
      BY <1>2, <2>1 DEF One
    <2>3. /\ Cardinality(Stray(j, Unreleased)) \in Nat /\ Cardinality(Stray(j, Unreleased)') \in Nat
          /\ Cardinality(Stray(j, Uncounted)) \in Nat /\ Cardinality(Stray(j, Uncounted)') \in Nat
      BY <1>2
    <2>4. /\ One(ReleaseDue(j)') = One(ReleaseDue(j)) /\ One(Twice(j)') = One(Twice(j))
          /\ One(CountDue(j)') = One(CountDue(j))
      <3>1. bull[j] = "active" => lock[j] \in Worker \ {w}
        BY <1>7 DEF Locks, TypeOK
      <3> QED  BY <1>1, <3>1
         DEF ReleaseDue, Twice, CountDue, WillRelease, WillReleaseTwice, WillCount, IsLastAttempt
    <2>5. /\ Cycles(j)' = Cycles(j) /\ Cycles(j) \in Nat
          /\ tally'[j].limited >= tally[j].limited
          /\ Released(j)' = tally'[j].released
          /\ Counted(j)' = tally'[j].completed + tally'[j].failed
      BY <1>3, <1>7 DEF Shares, Cycles, Released, Counted
    <2>6. /\ One(ReleaseDue(j)) \in {0, 1} /\ One(Twice(j)) \in {0, 1} /\ One(CountDue(j)) \in {0, 1}
          /\ One(run[w].pc \in Unreleased) \in {0, 1} /\ One(run'[w].pc \in Unreleased) \in {0, 1}
          /\ One(run[w].pc \in Uncounted) \in {0, 1} /\ One(run'[w].pc \in Uncounted) \in {0, 1}
      BY OneType
    <2>7. ReleaseAtMost(j)'
      BY <1>3, <1>4, <1>41, <1>7, <2>2, <2>3, <2>4, <2>5, <2>6 DEF Totals, ReleaseAtMost, Shares
    <2>8. ReleaseAtLeast(j)'
      BY <1>3, <1>4, <1>41, <1>7, <2>4, <2>5, <2>6 DEF Totals, ReleaseAtLeast, Shares
    <2>9. CountAtMost(j)'
      BY <1>3, <1>4, <1>41, <1>7, <2>2, <2>3, <2>4, <2>5, <2>6 DEF Totals, CountAtMost, Shares
    <2>10. CountAtLeast(j)'
      BY <1>3, <1>4, <1>41, <1>7, <2>4, <2>5, <2>6 DEF Totals, CountAtLeast, Shares
    <2> QED  BY <2>7, <2>8, <2>9, <2>10 DEF Totals
  <1> QED  BY <1>5, <1>6, <1>7

\* A run that is over, or whose worker crashes.
LEMMA LeaveTotals ==
    ASSUME TypeOK, Locks, NEW w \in Worker, Busy(w), Leave(w),
           NEW d \in {0, 1}, InfraSpent' = InfraSpent + d,
           NEW j \in Job, Totals(j), \A t \in Tallies \ {"dlq"} : tally'[j][t] = tally[j][t],
           IF run[w].job = j /\ lock[j] = w
           THEN /\ lock'[j] = None /\ bull'[j] # "active"
                /\ d = 0 => /\ ~WillReleaseTwice(w)
                            /\ bull'[j] = "waiting" <=> WillRelease(w)
                            /\ bull'[j] = "waiting" <=> WillCount(w)
           ELSE lock'[j] = lock[j] /\ bull'[j] = bull[j]
    PROVE  Totals(j)'
  <1>1. /\ \A v \in Worker \ {w} : run'[v] = run[v]
        /\ run'[w].job = None /\ run'[w].pc = "idle"
    BY DEF Leave, TypeOK, Idle
  <1>2. \A v \in Worker \ {w} : lock'[j] = v <=> lock[j] = v
    BY WorkerAssumption
  <1>3. ASSUME NEW P
        PROVE  /\ Cardinality(Stray(j, P)') <= Cardinality(Stray(j, P))
               /\ run[w].job = j /\ lock[j] = w
                    => Cardinality(Stray(j, P)') = Cardinality(Stray(j, P))
               /\ Cardinality(Stray(j, P)) \in Nat /\ Cardinality(Stray(j, P)') \in Nat
    <2>1. /\ Cardinality(Stray(j, P)') + One(IsStray(w, j, P))
                = Cardinality(Stray(j, P)) + One(IsStray(w, j, P)')
          /\ Cardinality(Stray(j, P)) \in Nat /\ Cardinality(Stray(j, P)') \in Nat
      BY <1>1, <1>2, StrayStep
    <2>2. ~IsStray(w, j, P)' /\ (run[w].job = j /\ lock[j] = w => ~IsStray(w, j, P))
      BY <1>1, JobAssumption DEF IsStray
    <2> QED  BY <2>1, <2>2 DEF One
  <1>4. CASE run[w].job = j /\ lock[j] = w
    <2>1. bull[j] = "active"
      BY <1>4, WorkerAssumption DEF Locks
    <2>2. /\ ReleaseDue(j)' <=> bull'[j] = "waiting"
          /\ CountDue(j)' <=> bull'[j] = "waiting"
          /\ ~Twice(j)'
          /\ ReleaseDue(j) <=> WillRelease(w)
          /\ CountDue(j) <=> WillCount(w)
          /\ Twice(j) <=> WillReleaseTwice(w)
      BY <1>4, <2>1 DEF ReleaseDue, CountDue, Twice
    <2>3. /\ One(ReleaseDue(j)') + One(Twice(j)') <= One(ReleaseDue(j)) + One(Twice(j)) + d
          /\ One(CountDue(j)') <= One(CountDue(j)) + d
          /\ One(ReleaseDue(j)') + d >= One(ReleaseDue(j))
          /\ One(CountDue(j)') + d >= One(CountDue(j))
      <3>1. CASE d = 0
        BY <1>4, <2>2, <3>1 DEF One
      <3>2. CASE d = 1
        BY <2>2, <3>2 DEF One
      <3> QED  BY <3>1, <3>2
    <2>4. /\ One(ReleaseDue(j)) \in Nat /\ One(Twice(j)) \in Nat /\ One(CountDue(j)) \in Nat
          /\ One(ReleaseDue(j)') \in Nat /\ One(Twice(j)') \in Nat /\ One(CountDue(j)') \in Nat
      BY DEF One
    <2>5. d \in Nat
      OBVIOUS
    <2> QED  BY <1>3, <1>4, <2>3, <2>4, <2>5, TotalsMove
  <1>5. CASE ~(run[w].job = j /\ lock[j] = w)
    <2>1. bull[j] = "active" => lock[j] \in Worker \ {w}
      BY <1>5 DEF Locks, TypeOK
    <2>2. d \in Nat
      OBVIOUS
    <2> QED  BY <1>1, <1>3, <1>5, <2>1, <2>2, TotalsFrame
  <1> QED  BY <1>4, <1>5

\* The worker goes on with a job it no longer has: what it owed now comes on top.
LEMMA LoseLockTotals ==
    ASSUME TypeOK, Locks, Locals, NEW w \in Worker, LoseLock(w), NEW j \in Job, Totals(j)
    PROVE  Totals(j)'
  <1> DEFINE i == run[w].job
  <1>1. /\ run' = run /\ tally' = tally /\ lock[i] = w /\ i \in Job /\ Stalled(i)
        /\ Busy(w) /\ InfraSpent' = InfraSpent + 1
    BY InfraStep DEF LoseLock, At, Locks, Busy
  <1>2. CASE j = i
    <2>1. /\ lock'[j] = None /\ bull'[j] # "active" /\ bull[j] = "active"
      BY <1>1, <1>2, WorkerAssumption DEF Stalled, TypeOK, Locks
    <2>2. \A v \in Worker \ {w} : run'[v] = run[v] /\ (lock'[j] = v <=> lock[j] = v)
      BY <1>1, <1>2, <2>1, WorkerAssumption
    <2>3. ASSUME NEW P
          PROVE  /\ Cardinality(Stray(j, P)') + One(IsStray(w, j, P))
                      = Cardinality(Stray(j, P)) + One(IsStray(w, j, P)')
                 /\ Cardinality(Stray(j, P)) \in Nat /\ Cardinality(Stray(j, P)') \in Nat
      BY <2>2, StrayStep
    <2>4. ASSUME NEW P
          PROVE  ~IsStray(w, j, P) /\ (IsStray(w, j, P)' <=> run[w].pc \in P)
      BY <1>1, <1>2, <2>1, WorkerAssumption DEF IsStray
    <2>5. /\ run[w].pc \in Unreleased => ReleaseDue(j)
          /\ run[w].pc \in Uncounted => CountDue(j)
          /\ ~Twice(j)'
      BY <1>1, <1>2, <2>1 DEF ReleaseDue, CountDue, Twice, WillRelease, WillCount
    <2>6. /\ One(ReleaseDue(j)') + One(Twice(j)') + Cardinality(Stray(j, Unreleased)')
               <= One(ReleaseDue(j)) + One(Twice(j)) + Cardinality(Stray(j, Unreleased)) + 1
          /\ One(CountDue(j)') + Cardinality(Stray(j, Uncounted)')
               <= One(CountDue(j)) + Cardinality(Stray(j, Uncounted)) + 1
          /\ One(ReleaseDue(j)') + 1 >= One(ReleaseDue(j))
          /\ One(CountDue(j)') + 1 >= One(CountDue(j))
      <3>1. /\ Cardinality(Stray(j, Unreleased)')
                 = Cardinality(Stray(j, Unreleased)) + One(run[w].pc \in Unreleased)
            /\ Cardinality(Stray(j, Unreleased)) \in Nat
        BY <2>3, <2>4 DEF One
      <3>2. /\ Cardinality(Stray(j, Uncounted)')
                 = Cardinality(Stray(j, Uncounted)) + One(run[w].pc \in Uncounted)
            /\ Cardinality(Stray(j, Uncounted)) \in Nat
        BY <2>3, <2>4 DEF One
      <3> QED  BY <2>5, <3>1, <3>2 DEF One
    <2> QED  BY <1>1, <2>3, <2>6, TotalsMove
  <1>3. CASE j # i
    <2>1. bull'[j] = bull[j] /\ lock'[j] = lock[j]
      BY <1>1, <1>3 DEF Stalled, TypeOK
    <2>2. ASSUME NEW P
          PROVE  /\ Cardinality(Stray(j, P)') = Cardinality(Stray(j, P))
                 /\ Cardinality(Stray(j, P)') \in Nat
      <3>1. Stray(j, P)' = Stray(j, P)
        BY <1>1, <2>1 DEF Stray, IsStray
      <3> QED  BY <3>1, StrayFinite
    <2> QED  BY <1>1, <2>1, <2>2, TotalsFrame
  <1> QED  BY <1>2, <1>3

LEMMA DeliverTotals ==
    ASSUME TypeOK, Locks, NEW w \in Worker, NEW i \in Job, Deliver(w, i),
           NEW j \in Job, Totals(j)
    PROVE  Totals(j)'
  <1>1. /\ run[w].pc = "idle" /\ bull[i] = "waiting" /\ tally' = tally
        /\ bull' = [bull EXCEPT ![i] = "active"] /\ lock' = [lock EXCEPT ![i] = w]
        /\ \A v \in Worker \ {w} : run'[v] = run[v]
        /\ run'[w].pc \in {"rate", "find"} /\ run'[w].job = i
        /\ run'[w].ok = FALSE /\ run'[w].threw = FALSE
        /\ InfraSpent' = InfraSpent
    <2>1. InfraSpent' = InfraSpent
      BY InfraStep DEF Deliver
    <2>2. /\ run'[w].pc \in {"rate", "find"} /\ run'[w].job = i
          /\ run'[w].ok = FALSE /\ run'[w].threw = FALSE
          /\ \A v \in Worker \ {w} : run'[v] = run[v]
      BY DEF Deliver, Idle, TypeOK
    <2> QED  BY <2>1, <2>2 DEF Deliver, At
  <1>2. \A v \in Worker \ {w} : lock'[j] = v <=> lock[j] = v
    <2>1. j = i => lock[j] = None /\ lock'[j] = w
      BY <1>1 DEF Locks, TypeOK
    <2>2. j # i => lock'[j] = lock[j]
      BY <1>1 DEF TypeOK
    <2> QED  BY <2>1, <2>2, WorkerAssumption
  <1>3. ASSUME NEW P, "idle" \notin P
        PROVE  /\ Cardinality(Stray(j, P)') = Cardinality(Stray(j, P))
               /\ Cardinality(Stray(j, P)') \in Nat /\ Cardinality(Stray(j, P)) \in Nat
    <2>1. /\ Cardinality(Stray(j, P)') + One(IsStray(w, j, P))
                = Cardinality(Stray(j, P)) + One(IsStray(w, j, P)')
          /\ Cardinality(Stray(j, P)) \in Nat /\ Cardinality(Stray(j, P)') \in Nat
      BY <1>1, <1>2, StrayStep
    <2>2. ~IsStray(w, j, P) /\ ~IsStray(w, j, P)'
      BY <1>1, <1>3 DEF IsStray, TypeOK
    <2> QED  BY <2>1, <2>2 DEF One
  <1>4. "idle" \notin Unreleased /\ "idle" \notin Uncounted
    BY DEF Unreleased, Uncounted, BeforeTry, InTry
  <1>5. CASE j = i
    <2>1. bull'[j] = "active" /\ lock'[j] = w
      BY <1>1, <1>5 DEF TypeOK
    <2>2. /\ ReleaseDue(j) /\ CountDue(j) /\ ~Twice(j)
          /\ ReleaseDue(j)' /\ CountDue(j)' /\ ~Twice(j)'
      BY <1>1, <1>5, <2>1
         DEF ReleaseDue, CountDue, Twice, WillRelease, WillReleaseTwice, WillCount, Unreleased,
             Uncounted, PC, BeforeTry
    <2>3. /\ One(ReleaseDue(j)) = 1 /\ One(ReleaseDue(j)') = 1
          /\ One(CountDue(j)) = 1 /\ One(CountDue(j)') = 1
          /\ One(Twice(j)) = 0 /\ One(Twice(j)') = 0
      BY <2>2 DEF One
    <2>4. 0 \in Nat /\ InfraSpent' = InfraSpent + 0
      BY <1>1, InfraType
    <2> QED  BY <1>1, <1>3, <1>4, <2>3, <2>4, TotalsMove
  <1>6. CASE j # i
    <2>1. bull'[j] = bull[j] /\ lock'[j] = lock[j]
      BY <1>1, <1>6 DEF TypeOK
    <2>2. bull[j] = "active" => lock[j] \in Worker \ {w}
      BY <1>1 DEF Locks, TypeOK, Busy
    <2>3. 0 \in Nat /\ InfraSpent' = InfraSpent + 0
      BY <1>1, InfraType
    <2> QED  BY <1>1, <1>3, <1>4, <2>1, <2>2, <2>3, TotalsFrame
  <1> QED  BY <1>5, <1>6

\* A cron run more: one release and one count more to come, and to expect.
LEMMA RepeatTotals ==
    ASSUME TypeOK, Locks, NEW i \in Job, Repeat(i), NEW j \in Job, Totals(j)
    PROVE  Totals(j)'
  <1>1. /\ run' = run /\ lock' = lock /\ InfraSpent' = InfraSpent
        /\ bull[i] \in {"completed", "failed"} /\ bull' = [bull EXCEPT ![i] = "waiting"]
        /\ Bump(i, "repeated")
    BY InfraStep DEF Repeat
  <1>2. Stray(j, Unreleased)' = Stray(j, Unreleased) /\ Stray(j, Uncounted)' = Stray(j, Uncounted)
    BY <1>1 DEF Stray, IsStray
  <1>3. /\ Cardinality(Stray(j, Unreleased)) \in Nat /\ Cardinality(Stray(j, Uncounted)) \in Nat
    BY StrayFinite
  <1>4. CASE j = i
    <2>1. /\ tally'[j].released = tally[j].released /\ tally'[j].completed = tally[j].completed
          /\ tally'[j].failed = tally[j].failed /\ tally'[j].limited = tally[j].limited
          /\ tally'[j].repeated = tally[j].repeated + 1
      BY <1>1, <1>4 DEF Bump, TypeOK, Tallies
    <2>2. /\ ~ReleaseDue(j) /\ ~CountDue(j) /\ ~Twice(j)
          /\ ReleaseDue(j)' /\ CountDue(j)' /\ ~Twice(j)'
      BY <1>1, <1>4 DEF ReleaseDue, CountDue, Twice, TypeOK
    <2>3. /\ One(ReleaseDue(j)) = 0 /\ One(ReleaseDue(j)') = 1
          /\ One(CountDue(j)) = 0 /\ One(CountDue(j)') = 1
          /\ One(Twice(j)) = 0 /\ One(Twice(j)') = 0
      BY <2>2 DEF One
    <2>4. /\ Cycles(j)' = Cycles(j) + 1 /\ Cycles(j) \in Nat
          /\ tally[j].released \in Nat /\ tally[j].completed \in Nat /\ tally[j].failed \in Nat
          /\ tally[j].limited \in Nat /\ InfraSpent \in Nat
      BY <2>1, TermTypes DEF Cycles
    <2>5. ReleaseAtMost(j)' /\ ReleaseAtLeast(j)'
      BY <1>1, <1>2, <1>3, <2>1, <2>3, <2>4 DEF Totals, ReleaseAtMost, ReleaseAtLeast
    <2>6. CountAtMost(j)' /\ CountAtLeast(j)'
      BY <1>1, <1>2, <1>3, <2>1, <2>3, <2>4 DEF Totals, CountAtMost, CountAtLeast
    <2> QED  BY <2>5, <2>6 DEF Totals
  <1>5. CASE j # i
    <2>1. bull'[j] = bull[j] /\ tally'[j] = tally[j]
      BY <1>1, <1>5 DEF Bump, TypeOK
    <2>2. 0 \in Nat /\ InfraSpent' = InfraSpent + 0
      BY <1>1, InfraType
    <2> QED  BY <1>1, <1>2, <1>3, <2>1, <2>2, TotalsFrame
  <1> QED  BY <1>4, <1>5

\* A step inside execute(), with or without a statement that throws.
LEMMA ExecuteTotals ==
    ASSUME TypeOK, TypeOK', Locks, Alone, Fresh, Locals, NEW w \in Worker,
           InnerStep(w) \/ AwaitThrows(w)
    PROVE  Locals' /\ \A j \in Job : Totals(j) => Totals(j)'
  <1> DEFINE i == run[w].job
  <1>1. /\ Inner(w) /\ i \in Job /\ run'[w].job = i /\ run'[w].made = run[w].made
        /\ \A v \in Worker \ {w} : run'[v] = run[v]
    BY InnerSteps, ThrowingStep DEF Inner, Locks
  <1>2. PICK d \in {0, 1} : /\ InfraSpent' = InfraSpent + d
                            /\ Shares(w, i, d) /\ LocalsOf(w)'
                            /\ \A k \in Job \ {i} : tally'[k] = tally[k]
    <2>1. CASE InnerStep(w)
      <3>1. InfraSpent' = InfraSpent + 0
        BY <2>1, InnerSteps, InfraStep, InfraType
      <3>2. Path(w) /\ \A k \in Job \ {i} : tally'[k] = tally[k]
        BY <2>1, InnerPath
      <3> QED  BY <1>1, <3>1, <3>2, PathShares DEF Locals
    <2>2. CASE AwaitThrows(w)
      <3>1. InfraSpent' = InfraSpent + 1
        BY <2>2, InfraStep DEF AwaitThrows
      <3>2. ThrownPath(w) /\ \A k \in Job \ {i} : tally'[k] = tally[k]
        BY <2>2, ThrowPath
      <3> QED  BY <1>1, <3>1, <3>2, ThrownShares DEF Locals
    <2> QED  BY <2>1, <2>2
  <1>3. ASSUME NEW j \in Job, Totals(j)  PROVE Totals(j)'
    BY <1>1, <1>2, <1>3, InnerTotals
  <1>4. \A v \in Worker : LocalsOf(v)'
    BY <1>1, <1>2 DEF Locals, LocalsOf, IsLastAttempt
  <1>5. \A j \in Job \ Recurring : tally'[j].repeated = 0
    BY <1>1, <1>2 DEF Locals, Shares
  <1> QED  BY <1>3, <1>4, <1>5 DEF Locals

LEMMA TotalsStep ==
    ASSUME TypeOK, TypeOK', Locks, Alone, Fresh, Locals, NEW j \in Job, Totals(j), [Next]_vars
    PROVE  Totals(j)'
  <1>1. InfraSpent \in Nat
    BY InfraType
  <1>2. ASSUME NEW w \in Worker, InnerStep(w) \/ AwaitThrows(w)  PROVE Totals(j)'
    BY <1>2, ExecuteTotals
  <1>3. ASSUME NEW w \in Worker, Return(w)  PROVE Totals(j)'
    <2>1. /\ run[w].pc = "return" /\ Busy(w) /\ Leave(w) /\ tally' = tally
          /\ InfraSpent' = InfraSpent + 0
      BY <1>1, <1>3, InfraStep DEF Return, At, Busy
    <2>2. ~WillRelease(w) /\ ~WillReleaseTwice(w) /\ ~WillCount(w)
      BY <2>1 DEF WillRelease, WillReleaseTwice, WillCount, Unreleased, Uncounted, BeforeTry, InTry
    <2>3. IF run[w].job = j /\ lock[j] = w
          THEN lock'[j] = None /\ bull'[j] = "completed"
          ELSE lock'[j] = lock[j] /\ bull'[j] = bull[j]
      BY <1>3 DEF Return, TypeOK
    <2> QED  BY <2>1, <2>2, <2>3, LeaveTotals
  <1>4. ASSUME NEW w \in Worker, Throw(w)  PROVE Totals(j)'
    <2>1. /\ run[w].pc = "throw" /\ Busy(w) /\ Leave(w) /\ tally' = tally
          /\ InfraSpent' = InfraSpent + 0
      BY <1>1, <1>4, InfraStep DEF Throw, At, Busy
    <2>2. /\ WillRelease(w) <=> ~IsLastAttempt(w)
          /\ WillCount(w) <=> ~IsLastAttempt(w)
          /\ ~WillReleaseTwice(w)
      BY <2>1 DEF WillRelease, WillReleaseTwice, WillCount, Unreleased, Uncounted, BeforeTry, InTry
    <2>3. IF run[w].job = j /\ lock[j] = w
          THEN /\ lock'[j] = None
               /\ bull'[j] = IF made[j] + 1 < MaxAttempts THEN "waiting" ELSE "failed"
          ELSE lock'[j] = lock[j] /\ bull'[j] = bull[j]
      <3>1. bull \in [Job -> {"waiting", "active", "completed", "failed"}] /\ DOMAIN lock = Job
        BY DEF TypeOK
      <3>2. CASE lock[run[w].job] = w
        BY <1>4, <3>1, <3>2 DEF Throw
      <3>3. CASE lock[run[w].job] # w
        BY <1>4, <3>1, <3>3 DEF Throw
      <3> QED  BY <3>2, <3>3
    <2>4. run[w].job = j /\ lock[j] = w => (made[j] + 1 < MaxAttempts <=> ~IsLastAttempt(w))
      <3>1. run[w].job = j /\ lock[j] = w => run[w].made = made[j]
        BY WorkerAssumption DEF Locks
      <3>2. made[j] \in Nat /\ MaxAttempts \in Nat
        BY BoundAssumption DEF TypeOK
      <3> QED  BY <3>1, <3>2 DEF IsLastAttempt
    <2> QED  BY <2>1, <2>2, <2>3, <2>4, LeaveTotals
  <1>5. ASSUME NEW w \in Worker, Crash(w)  PROVE Totals(j)'
    <2>1. /\ Busy(w) /\ Leave(w) /\ tally' = tally /\ InfraSpent' = InfraSpent + 1
      BY <1>5, InfraStep DEF Crash, At, Busy
    <2>2. IF run[w].job = j /\ lock[j] = w
          THEN lock'[j] = None /\ bull'[j] # "active"
          ELSE lock'[j] = lock[j] /\ bull'[j] = bull[j]
      <3>1. bull \in [Job -> {"waiting", "active", "completed", "failed"}] /\ DOMAIN lock = Job
        BY DEF TypeOK
      <3>2. CASE lock[run[w].job] = w
        BY <1>5, <3>1, <3>2 DEF Crash, Stalled
      <3>3. CASE lock[run[w].job] # w
        BY <1>5, <3>1, <3>3 DEF Crash
      <3> QED  BY <3>2, <3>3
    <2> QED  BY <2>1, <2>2, LeaveTotals
  <1>6. ASSUME NEW w \in Worker, LoseLock(w)  PROVE Totals(j)'
    BY <1>6, LoseLockTotals
  <1>7. ASSUME NEW w \in Worker, NEW i \in Job, Deliver(w, i)  PROVE Totals(j)'
    BY <1>7, DeliverTotals
  <1>8. ASSUME NEW i \in Job, Repeat(i)  PROVE Totals(j)'
    BY <1>8, RepeatTotals
  <1>9. ASSUME UNCHANGED <<bull, lock, run, budget>>,
               \A t \in Tallies \ {"dlq"} : tally'[j][t] = tally[j][t]
        PROVE  Totals(j)'
    <2>1. InfraSpent' = InfraSpent + 0
      BY <1>1, <1>9, InfraStep
    <2>2. Stray(j, Unreleased)' = Stray(j, Unreleased) /\ Stray(j, Uncounted)' = Stray(j, Uncounted)
      BY <1>9 DEF Stray, IsStray
    <2> QED  BY <1>9, <2>1, <2>2, StrayFinite, TotalsFrame
  <1>10. ASSUME NEW w \in Worker, NEW i \in Job, MoveToDlq(w, i)  PROVE Totals(j)'
    <2>1. \A t \in Tallies \ {"dlq"} : tally'[j][t] = tally[j][t]
      BY <1>10 DEF MoveToDlq, Bump, TypeOK
    <2> QED  BY <1>9, <1>10, <2>1 DEF MoveToDlq
  <1>11. CASE MinutePasses \/ UNCHANGED vars
    BY <1>9, <1>11 DEF MinutePasses, vars, bullVars
  <1> QED  BY <1>2, <1>3, <1>4, <1>5, <1>6, <1>7, <1>8, <1>10, <1>11
           DEF Next, ExecuteStep, InnerStep

-----------------------------------------------------------------------------
(* The locals, and the jobs that are COMPLETED *)

LEMMA LocalsStep ==
    ASSUME TypeOK, TypeOK', Locks, Alone, Fresh, Locals, [Next]_vars
    PROVE  Locals'
  <1>1. ASSUME NEW w \in Worker, InnerStep(w) \/ AwaitThrows(w)  PROVE Locals'
    BY <1>1, ExecuteTotals
  <1>2. ASSUME NEW w \in Worker, \A v \in Worker \ {w} : run'[v] = run[v],
               run'[w].pc \in {"idle", "rate", "find"}, run'[w].ok = FALSE, run'[w].threw = FALSE,
               tally' = tally
        PROVE  Locals'
    <2>1. LocalsOf(w)'
      BY <1>2 DEF LocalsOf, InCatch
    <2>2. \A v \in Worker \ {w} : LocalsOf(v)'
      BY <1>2 DEF Locals, LocalsOf, IsLastAttempt
    <2> QED  BY <1>2, <2>1, <2>2 DEF Locals
  <1>3. ASSUME NEW w \in Worker, Return(w) \/ Throw(w) \/ Crash(w)  PROVE Locals'
    <2>1. Leave(w) /\ tally' = tally
      BY <1>3 DEF Return, Throw, Crash
    <2>2. /\ \A v \in Worker \ {w} : run'[v] = run[v]
          /\ run'[w].pc = "idle" /\ run'[w].ok = FALSE /\ run'[w].threw = FALSE
      BY <2>1 DEF Leave, Idle, TypeOK
    <2> QED  BY <1>2, <2>1, <2>2
  <1>4. ASSUME NEW w \in Worker, NEW i \in Job, Deliver(w, i)  PROVE Locals'
    <2>1. /\ \A v \in Worker \ {w} : run'[v] = run[v]
          /\ run'[w].pc \in {"rate", "find"} /\ run'[w].ok = FALSE /\ run'[w].threw = FALSE
      BY <1>4 DEF Deliver, Idle, TypeOK
    <2>2. tally' = tally
      BY <1>4 DEF Deliver
    <2> QED  BY <1>2, <2>1, <2>2
  <1>5. ASSUME run' = run, \A j \in Job \ Recurring : tally'[j].repeated = tally[j].repeated
        PROVE  Locals'
    BY <1>5 DEF Locals, LocalsOf, IsLastAttempt
  <1>6. ASSUME NEW w \in Worker, NEW i \in Job, MoveToDlq(w, i)  PROVE Locals'
    <2>1. \A j \in Job : tally'[j].repeated = tally[j].repeated
      BY <1>6 DEF MoveToDlq, Bump, TypeOK, Tallies
    <2> QED  BY <1>5, <1>6, <2>1 DEF MoveToDlq
  <1>7. ASSUME NEW i \in Job, Repeat(i)  PROVE Locals'
    <2>1. \A j \in Job \ Recurring : tally'[j].repeated = tally[j].repeated
      BY <1>7 DEF Repeat, Bump, TypeOK
    <2> QED  BY <1>5, <1>7, <2>1 DEF Repeat
  <1>8. ASSUME NEW w \in Worker, LoseLock(w)  PROVE Locals'
    BY <1>5, <1>8 DEF LoseLock
  <1>9. CASE MinutePasses \/ UNCHANGED vars
    BY <1>5, <1>9 DEF MinutePasses, vars
  <1> QED  BY <1>1, <1>3, <1>4, <1>6, <1>7, <1>8, <1>9 DEF Next, ExecuteStep, InnerStep

LEMMA FreshStep ==
    ASSUME IInv, Fresh, [Next]_vars, TypeOK'
    PROVE  Fresh'
  <1> USE DEF IInv
  <1> DEFINE Over(j) == \/ bull[j] = "completed"
                        \/ /\ bull[j] = "active" /\ ~run[lock[j]].threw
                           /\ run[lock[j]].pc \in {"chain", "count", "finally", "return"}
  <1> SUFFICES ASSUME InfraSpent' = 0, NEW j \in Job \ Recurring, status'[j] = "COMPLETED"
               PROVE  Over(j)'
    BY DEF Fresh
  <1>0. InfraSpent = 0 /\ Reliable /\ InfraSpent \in Nat
    <2>1. \A f \in FaultKind : /\ Faults[f] \in Nat /\ budget[f] \in Nat /\ budget'[f] \in Nat
                               /\ budget'[f] <= budget[f] /\ budget[f] <= Faults[f]
      BY BudgetStep, FaultAssumption DEF TypeOK, Locks
    <2>2. /\ Spent("db") \in Nat /\ Spent("crash") \in Nat /\ Spent("stall") \in Nat
          /\ Spent("db")' >= Spent("db") /\ Spent("crash")' >= Spent("crash")
          /\ Spent("stall")' >= Spent("stall")
          /\ Spent("db")' \in Nat /\ Spent("crash")' \in Nat /\ Spent("stall")' \in Nat
      BY <2>1 DEF Spent, FaultKind
    <2>3. InfraSpent = 0
      BY <2>2 DEF InfraSpent
    <2> QED  BY <2>3, NoFaults
  <1>1. ASSUME bull'[j] = bull[j], lock'[j] = lock[j], status'[j] = status[j],
               bull[j] = "active" => run'[lock[j]] = run[lock[j]]
        PROVE  Over(j)'
    BY <1>0, <1>1 DEF Fresh
  <1>2. ASSUME NEW w \in Worker, InnerStep(w)  PROVE Over(j)'
    <2>1. /\ Inner(w) /\ run[w].job \in Job
          /\ \A v \in Worker \ {w} : run'[v] = run[v]
          /\ bull' = bull /\ lock' = lock
      BY <1>2, InnerSteps DEF Inner, Locks
    <2>2. lock[run[w].job] = w /\ RowOf(w)
      BY <1>0, <2>1 DEF Alone, RowsAgree, Inner
    <2>3. CASE j # run[w].job
      <3>1. status'[j] = status[j]
        BY <1>2, <2>1, <2>2, <2>3, InnerRows DEF Inner
      <3>2. bull[j] = "active" => lock[j] \in Worker \ {w}
        BY <2>3 DEF Locks, TypeOK
      <3> QED  BY <1>1, <2>1, <3>1, <3>2
    <2>4. CASE j = run[w].job
      <3>1. bull[j] = "active" /\ bull'[j] = "active" /\ lock'[j] = w
        BY <2>1, <2>2, <2>4, WorkerAssumption DEF Locks
      <3>2. CASE Complete(w)
        <4>1. run[w].pc = "complete" /\ run'[w].pc = "chain" /\ run'[w].threw = run[w].threw
          BY <3>2 DEF Complete, Go, At, TypeOK
        <4> QED  BY <2>2, <3>1, <4>1 DEF RowOf, InCatch
      <3>3. CASE ~Complete(w)
        <4>1. status[j] = "COMPLETED"
          BY <1>2, <2>4, <3>3
             DEF InnerStep, RateCheck, FindJob, SkipCompleted, ReadSequence, SaveSequence, StampJob,
                 StartAttempt, Begin, ProcessSucceeds, ProcessFails, RowCompleted, ChainCompleted,
                 CountCompleted, RowFailed, MarkFailed, CountFailed, ParentFailure, Finally, dbVars,
                 TypeOK
        <4>2. ~run[w].threw /\ run[w].pc \in {"chain", "count", "finally", "return"}
          BY <1>0, <2>2, <2>4, <3>1, <4>1 DEF Fresh
        <4>3. Path(w)
          BY <1>2, InnerPath
        <4>4. \A from, to, c : Hop(w, from, to, c) => run[w].pc = from /\ run'[w].pc = to
          BY DEF Hop
        <4>5. ~run'[w].threw /\ run'[w].pc \in {"count", "finally", "return"}
          BY <4>2, <4>3, <4>4 DEF Path, Same
        <4> QED  BY <3>1, <4>5
      <3> QED  BY <3>2, <3>3
    <2> QED  BY <2>3, <2>4
  <1>3. ASSUME NEW w \in Worker, AwaitThrows(w) \/ LoseLock(w) \/ Crash(w)  PROVE FALSE
    BY <1>0, <1>3, InfraStep DEF AwaitThrows, LoseLock, Crash
  <1>4. ASSUME NEW w \in Worker, Return(w) \/ Throw(w)  PROVE Over(j)'
    <2>1. /\ Busy(w) /\ run[w].pc \in {"return", "throw"} /\ status' = status /\ Leave(w)
          /\ \A i \in Job \ {run[w].job} : bull'[i] = bull[i] /\ lock'[i] = lock[i]
      BY <1>4 DEF Return, Throw, Busy, At, dbVars, TypeOK
    <2>2. \A v \in Worker \ {w} : run'[v] = run[v]
      BY <2>1 DEF Leave, TypeOK
    <2>3. lock[run[w].job] = w /\ run[w].job \in Job
      BY <1>0, <2>1 DEF Alone, Locks
    <2>4. CASE j # run[w].job
      <3>1. bull[j] = "active" => lock[j] \in Worker \ {w}
        BY <2>4 DEF Locks, TypeOK
      <3> QED  BY <1>1, <2>1, <2>2, <2>4, <3>1
    <2>5. CASE j = run[w].job
      <3>1. bull[j] = "active"
        BY <2>3, <2>5, WorkerAssumption DEF Locks
      <3>2. run[w].pc = "return"
        BY <1>0, <2>1, <2>3, <2>5, <3>1 DEF Fresh
      <3>3. bull'[j] = "completed"
        BY <1>4, <2>3, <2>5, <3>2 DEF Return, Throw, At, TypeOK
      <3> QED  BY <3>3
    <2> QED  BY <2>4, <2>5
  <1>5. ASSUME NEW w \in Worker, NEW i \in Job, Deliver(w, i)  PROVE Over(j)'
    <2>1. /\ status' = status /\ bull[i] = "waiting" /\ run[w].pc = "idle"
          /\ \A v \in Worker \ {w} : run'[v] = run[v]
          /\ \A k \in Job \ {i} : bull'[k] = bull[k] /\ lock'[k] = lock[k]
      BY <1>5 DEF Deliver, dbVars, At, TypeOK
    <2>2. j # i
      BY <1>0, <2>1 DEF Fresh
    <2>3. bull[j] = "active" => lock[j] \in Worker \ {w}
      BY <2>1 DEF Locks, TypeOK, Busy
    <2> QED  BY <1>1, <2>1, <2>2, <2>3
  <1>6. ASSUME NEW w \in Worker, NEW i \in Job, MoveToDlq(w, i)  PROVE Over(j)'
    BY <1>1, <1>6 DEF MoveToDlq, dbVars
  <1>7. ASSUME NEW i \in Job, Repeat(i)  PROVE Over(j)'
    <2>1. /\ status' = status /\ run' = run /\ lock' = lock /\ bull'[j] = bull[j]
      BY <1>7 DEF Repeat, dbVars, TypeOK
    <2> QED  BY <1>1, <2>1
  <1>8. CASE MinutePasses \/ UNCHANGED vars
    BY <1>1, <1>8 DEF MinutePasses, vars, dbVars, bullVars
  <1> QED  BY <1>2, <1>3, <1>4, <1>5, <1>6, <1>7, <1>8 DEF Next, ExecuteStep, InnerStep

-----------------------------------------------------------------------------
(* The dead letter queue *)

LEMMA EventsFinite ==
    ASSUME NEW E \in SUBSET (Worker \X Job), NEW j
    PROVE  IsFiniteSet({e \in E : e[2] = j}) /\ Cardinality({e \in E : e[2] = j}) \in Nat
  <1>1. IsFiniteSet(Worker \X Job)
    BY WorkerAssumption, JobAssumption, FS_Product
  <1>2. {e \in E : e[2] = j} \subseteq Worker \X Job
    OBVIOUS
  <1> QED  BY <1>1, <1>2, FS_Subset, FS_CardinalityType

LEMMA DlqStep ==
    ASSUME TypeOK, TypeOK', Locks, Alone, Fresh, Locals, NEW j \in Job, DlqAtMost(j), [Next]_vars
    PROVE  DlqAtMost(j)'
  <1>1. /\ IsFiniteSet(EventsOf(j)) /\ Cardinality(EventsOf(j)) \in Nat
        /\ IsFiniteSet(EventsOf(j)') /\ Cardinality(EventsOf(j)') \in Nat
        /\ tally[j].dlq \in Nat /\ tally'[j].dlq \in Nat
        /\ tally[j].repeated \in Nat /\ tally'[j].repeated \in Nat
    <2>1. events \in SUBSET (Worker \X Job) /\ events' \in SUBSET (Worker \X Job)
      BY DEF TypeOK
    <2>2. tally \in [Job -> [Tallies -> Nat]] /\ tally' \in [Job -> [Tallies -> Nat]]
      BY DEF TypeOK
    <2> QED  BY <2>1, <2>2, EventsFinite DEF EventsOf, Tallies
  <1>2. /\ One(~Finished(j)) \in {0, 1} /\ One(~Finished(j)') \in {0, 1}
        /\ ~Finished(j) => One(~Finished(j)) = 1
        /\ Finished(j)' => One(~Finished(j)') = 0
        /\ (Finished(j)' <=> Finished(j)) => One(~Finished(j)') = One(~Finished(j))
    BY DEF One
  <1>3. ASSUME NEW d \in Nat, tally'[j].dlq = tally[j].dlq, tally'[j].repeated = tally[j].repeated,
               Cardinality(EventsOf(j)') <= Cardinality(EventsOf(j)) + d,
               One(~Finished(j)') + d <= One(~Finished(j))
        PROVE  DlqAtMost(j)'
    BY <1>1, <1>2, <1>3 DEF DlqAtMost, Cycles
  <1>4. ASSUME events' \subseteq events, tally'[j].dlq = tally[j].dlq,
               tally'[j].repeated = tally[j].repeated, ~Finished(j) \/ bull'[j] = bull[j]
        PROVE  DlqAtMost(j)'
    <2>1. EventsOf(j)' \subseteq EventsOf(j)
      BY <1>4 DEF EventsOf
    <2>2. Cardinality(EventsOf(j)') <= Cardinality(EventsOf(j)) + 0
      BY <1>1, <2>1, FS_Subset
    <2>3. One(~Finished(j)') + 0 <= One(~Finished(j))
      BY <1>2, <1>4 DEF Finished
    <2> QED  BY <1>3, <1>4, <2>2, <2>3
  <1>5. ASSUME NEW w \in Worker, InnerStep(w) \/ AwaitThrows(w)  PROVE DlqAtMost(j)'
    <2>1. Inner(w) /\ run[w].job \in Job /\ run'[w].job = run[w].job /\ run'[w].made = run[w].made
      BY <1>5, InnerSteps, ThrowingStep DEF Inner, Locks
    <2>2. tally'[j].dlq = tally[j].dlq /\ tally'[j].repeated = tally[j].repeated
      <3>1. CASE InnerStep(w)
        <4>1. Path(w) /\ \A k \in Job \ {run[w].job} : tally'[k] = tally[k]
          BY <3>1, InnerPath
        <4> QED  BY <2>1, <4>1, PathShares DEF Locals, Shares
      <3>2. CASE AwaitThrows(w)
        BY <3>2 DEF AwaitThrows
      <3> QED  BY <1>5, <3>1, <3>2
    <2> QED  BY <1>4, <2>1, <2>2 DEF Inner
  <1>6. ASSUME NEW w \in Worker, Return(w)  PROVE DlqAtMost(j)'
    <2>1. bull'[j] = bull[j] \/ bull[j] = "active"
      BY <1>6, WorkerAssumption DEF Return, TypeOK, Locks
    <2> QED  BY <1>4, <1>6, <2>1 DEF Return, Finished
  <1>7. ASSUME NEW w \in Worker, Throw(w)  PROVE DlqAtMost(j)'
    <2>1. tally' = tally
      BY <1>7 DEF Throw
    <2>2. CASE events' = events
      <3>1. bull'[j] = bull[j] \/ bull[j] = "active"
        BY <1>7, WorkerAssumption DEF Throw, TypeOK, Locks
      <3> QED  BY <1>4, <2>1, <2>2, <3>1 DEF Finished
    <2>3. CASE events' # events
      <3>1. /\ lock[run[w].job] = w /\ events' = events \cup {<<w, run[w].job>>}
            /\ bull' = [bull EXCEPT ![run[w].job] = "failed"]
        BY <1>7, <2>3 DEF Throw
      <3>2. CASE run[w].job = j
        <4>1. bull[j] = "active" /\ bull'[j] = "failed"
          BY <3>1, <3>2, WorkerAssumption DEF Locks, TypeOK
        <4>2. EventsOf(j)' = EventsOf(j) \cup {<<w, j>>}
          BY <3>1, <3>2 DEF EventsOf
        <4>3. Cardinality(EventsOf(j)') <= Cardinality(EventsOf(j)) + 1
          <5>1. Cardinality(EventsOf(j) \cup {<<w, j>>}) =
                  IF <<w, j>> \in EventsOf(j) THEN Cardinality(EventsOf(j))
                  ELSE Cardinality(EventsOf(j)) + 1
            BY <1>1, FS_AddElement
          <5> QED  BY <1>1, <4>2, <5>1
        <4>4. One(~Finished(j)') + 1 <= One(~Finished(j))
          BY <1>2, <4>1 DEF Finished
        <4> QED  BY <1>3, <2>1, <4>3, <4>4
      <3>3. CASE run[w].job # j
        <4>1. bull'[j] = bull[j]
          BY <3>1, <3>3 DEF TypeOK
        <4>2. EventsOf(j)' = EventsOf(j)
          BY <3>1, <3>3 DEF EventsOf
        <4>3. One(~Finished(j)') + 0 <= One(~Finished(j))
          BY <1>2, <4>1 DEF Finished
        <4> QED  BY <1>1, <1>3, <2>1, <4>2, <4>3
      <3> QED  BY <3>2, <3>3
    <2> QED  BY <2>2, <2>3
  <1>8. ASSUME NEW w \in Worker, Crash(w) \/ LoseLock(w)  PROVE DlqAtMost(j)'
    <2>1. bull'[j] = bull[j] \/ bull[j] = "active"
      <3>1. run[w].job \in Job
        BY <1>8 DEF Crash, LoseLock, Locks, At, Busy
      <3>2. lock[run[w].job] = w => bull[run[w].job] = "active"
        BY <3>1, WorkerAssumption DEF Locks
      <3>3. bull' = bull \/ (lock[run[w].job] = w /\ Stalled(run[w].job))
        BY <1>8 DEF Crash, LoseLock
      <3>4. Stalled(run[w].job) => bull'[j] = bull[j] \/ j = run[w].job
        BY DEF Stalled, TypeOK
      <3> QED  BY <3>2, <3>3, <3>4
    <2>2. events' \subseteq events /\ tally' = tally
      BY <1>8 DEF Crash, LoseLock
    <2> QED  BY <1>4, <2>1, <2>2 DEF Finished
  <1>9. ASSUME NEW w \in Worker, NEW i \in Job, Deliver(w, i)  PROVE DlqAtMost(j)'
    <2>1. bull'[j] = bull[j] \/ bull[j] = "waiting"
      BY <1>9 DEF Deliver, TypeOK
    <2> QED  BY <1>4, <1>9, <2>1 DEF Deliver, Finished
  <1>10. ASSUME NEW w \in Worker, NEW i \in Job, MoveToDlq(w, i)  PROVE DlqAtMost(j)'
    <2>1. /\ <<w, i>> \in events /\ events' = events \ {<<w, i>>} /\ bull' = bull
          /\ Bump(i, "dlq")
      BY <1>10 DEF MoveToDlq
    <2>2. /\ tally'[j].repeated = tally[j].repeated
          /\ tally'[j].dlq = IF j = i THEN tally[j].dlq + 1 ELSE tally[j].dlq
      <3>1. /\ \A t \in Tallies : tally'[i][t] = tally[i][t] + One(t = "dlq")
            /\ \A k \in Job \ {i} : tally'[k] = tally[k]
        BY <2>1, BumpOne DEF Tallies
      <3> QED  BY <1>1, <3>1 DEF One, Tallies
    <2>3. CASE j = i
      <3>1. EventsOf(j)' = EventsOf(j) \ {<<w, j>>} /\ <<w, j>> \in EventsOf(j)
        BY <2>1, <2>3 DEF EventsOf
      <3>2. Cardinality(EventsOf(j)') = Cardinality(EventsOf(j)) - 1
        BY <1>1, <3>1, FS_RemoveElement
      <3>3. One(~Finished(j)') = One(~Finished(j))
        BY <1>2, <2>1 DEF Finished
      <3> QED  BY <1>1, <1>2, <2>2, <2>3, <3>2, <3>3 DEF DlqAtMost, Cycles
    <2>4. CASE j # i
      BY <1>4, <2>1, <2>2, <2>4
    <2> QED  BY <2>3, <2>4
  <1>11. ASSUME NEW i \in Job, Repeat(i)  PROVE DlqAtMost(j)'
    <2>1. /\ events' = events /\ bull[i] \in {"completed", "failed"} /\ Bump(i, "repeated")
          /\ bull' = [bull EXCEPT ![i] = "waiting"]
      BY <1>11 DEF Repeat
    <2>2. /\ tally'[j].dlq = tally[j].dlq
          /\ tally'[j].repeated = IF j = i THEN tally[j].repeated + 1 ELSE tally[j].repeated
          /\ j # i => bull'[j] = bull[j]
      <3>1. /\ \A t \in Tallies : tally'[i][t] = tally[i][t] + One(t = "repeated")
            /\ \A k \in Job \ {i} : tally'[k] = tally[k]
        BY <2>1, BumpOne DEF Tallies
      <3>2. j # i => bull'[j] = bull[j]
        BY <2>1 DEF TypeOK
      <3> QED  BY <1>1, <3>1, <3>2 DEF One, Tallies
    <2>3. CASE j = i
      <3>1. EventsOf(j)' = EventsOf(j)
        BY <2>1 DEF EventsOf
      <3>2. One(~Finished(j)) = 0
        BY <2>1, <2>3 DEF Finished, One
      <3> QED  BY <1>1, <1>2, <2>2, <2>3, <3>1, <3>2 DEF DlqAtMost, Cycles
    <2>4. CASE j # i
      BY <1>4, <2>1, <2>2, <2>4
    <2> QED  BY <2>3, <2>4
  <1>12. CASE MinutePasses \/ UNCHANGED vars
    BY <1>4, <1>12 DEF MinutePasses, vars, bullVars
  <1> QED  BY <1>5, <1>6, <1>7, <1>8, <1>9, <1>10, <1>11, <1>12 DEF Next, ExecuteStep, InnerStep

-----------------------------------------------------------------------------
(* The attempt rows *)

LEMMA RowSubset ==
    ASSUME NEW s \in Seq(Row), NEW S \in SUBSET (DOMAIN s)
    PROVE  IsFiniteSet(S) /\ Cardinality(S) \in Nat
  <1>1. DOMAIN s = 1 .. Len(s) /\ Len(s) \in Int
    OBVIOUS
  <1>2. IsFiniteSet(1 .. Len(s))
    BY <1>1, FS_Interval
  <1> QED  BY <1>1, <1>2, FS_Subset, FS_CardinalityType

LEMMA AbandonedFinite ==
    ASSUME TypeOK, TypeOK', NEW j \in Job
    PROVE  /\ IsFiniteSet(Abandoned(j)) /\ Cardinality(Abandoned(j)) \in Nat
           /\ IsFiniteSet(Abandoned(j)') /\ Cardinality(Abandoned(j)') \in Nat
  <1>1. attempts[j] \in Seq(Row) /\ attempts'[j] \in Seq(Row)
    BY DEF TypeOK
  <1>2. /\ Abandoned(j) \in SUBSET (DOMAIN attempts[j])
        /\ Abandoned(j)' \in SUBSET (DOMAIN attempts'[j])
    BY DEF Abandoned, OpenRows
  <1> QED  BY <1>1, <1>2, RowSubset

\* A step that opens no row abandons w's own at most, and only when w leaves the awaits
\* that would have closed it.
LEMMA AbandonOne ==
    ASSUME NEW j \in Job, NEW w \in Worker, \A v \in Worker \ {w} : run'[v] = run[v],
           OpenRows(j)' \subseteq OpenRows(j)
    PROVE  /\ Abandoned(j)' \subseteq Abandoned(j) \cup {run[w].row}
           /\ \/ run[w].row \notin OpenRows(j)'
              \/ /\ run[w].job = j /\ run[w].pc \in Closing
                      => /\ run'[w].job = j /\ run'[w].pc \in Closing
                         /\ run'[w].row = run[w].row
              => Abandoned(j)' \subseteq Abandoned(j)
  BY DEF Abandoned

LEMMA InnerRow ==
    ASSUME TypeOK, Locks, NEW w \in Worker, InnerStep(w), NEW j \in Job
    PROVE  Abandoned(j)' \subseteq Abandoned(j)
  <1>1. /\ run[w].job \in Job /\ run'[w].job = run[w].job
        /\ \A v \in Worker \ {w} : run'[v] = run[v]
        /\ run \in [Worker -> Local] /\ run[w] \in Local
    BY InnerSteps DEF Inner, Locks, TypeOK, Local
  <1>2. attempts[j] \in Seq(Row) /\ attempts[run[w].job] \in Seq(Row) /\ DOMAIN attempts = Job
    BY <1>1 DEF TypeOK
  <1>3. CASE StartAttempt(w)
    <2>1. CASE j # run[w].job
      <3>1. attempts'[j] = attempts[j]
        BY <1>2, <1>3, <2>1 DEF StartAttempt
      <3> QED  BY <1>1, <2>1, <3>1, AbandonOne DEF OpenRows
    <2>2. CASE j = run[w].job
      <3>1. /\ attempts'[j] = Append(attempts[j], "PROCESSING")
            /\ run'[w].pc = "begin" /\ run'[w].row = Len(attempts[j]) + 1 /\ run[w].pc = "attempt"
        BY <1>1, <1>2, <1>3, <2>2 DEF StartAttempt, At, Local
      <3>2. /\ DOMAIN attempts[j] = 1 .. Len(attempts[j]) /\ Len(attempts[j]) \in Nat
            /\ DOMAIN attempts'[j] = 1 .. Len(attempts[j]) + 1
            /\ \A i \in 1 .. Len(attempts[j]) : attempts'[j][i] = attempts[j][i]
        BY <1>2, <3>1
      <3>3. OpenRows(j)' \subseteq OpenRows(j) \cup {run'[w].row}
        BY <3>1, <3>2 DEF OpenRows
      <3>4. run'[w].job = j /\ run'[w].pc \in Closing /\ run[w].pc \notin Closing
        BY <1>1, <2>2, <3>1 DEF Closing
      <3> QED  BY <1>1, <3>3, <3>4 DEF Abandoned
    <2> QED  BY <2>1, <2>2
  <1>4. CASE RowCompleted(w) \/ RowFailed(w)
    <2>1. CASE j # run[w].job
      <3>1. attempts'[j] = attempts[j]
        BY <1>2, <1>4, <2>1 DEF RowCompleted, RowFailed
      <3> QED  BY <1>1, <2>1, <3>1, AbandonOne DEF OpenRows
    <2>2. CASE j = run[w].job
      <3>1. PICK s \in {"COMPLETED", "FAILED"} :
               attempts'[j] = [attempts[j] EXCEPT ![run[w].row] = s]
        BY <1>2, <1>4, <2>2 DEF RowCompleted, RowFailed
      <3>2. OpenRows(j)' \subseteq OpenRows(j) /\ run[w].row \notin OpenRows(j)'
        BY <1>2, <3>1 DEF OpenRows
      <3> QED  BY <1>1, <3>2, AbandonOne
    <2> QED  BY <2>1, <2>2
  <1>5. ASSUME attempts' = attempts, run'[w].row = run[w].row,
               run[w].pc \in Closing => run'[w].pc \in Closing
        PROVE  Abandoned(j)' \subseteq Abandoned(j)
    <2>1. OpenRows(j)' \subseteq OpenRows(j)
      BY <1>5 DEF OpenRows
    <2> QED  BY <1>1, <1>5, <2>1, AbandonOne
  <1>6. CASE ~(StartAttempt(w) \/ RowCompleted(w) \/ RowFailed(w))
    <2>1. attempts' = attempts
      BY <1>6 DEF InnerStep, RateCheck, FindJob, SkipCompleted, ReadSequence, SaveSequence,
                  StampJob, Begin, ProcessSucceeds, ProcessFails, Complete, ChainCompleted,
                  CountCompleted, MarkFailed, CountFailed, ParentFailure, Finally, dbVars
    <2>2. run'[w].row = run[w].row
      BY <1>1, <1>6
         DEF InnerStep, RateCheck, FindJob, SkipCompleted, ReadSequence, SaveSequence, StampJob,
             Begin, ProcessSucceeds, ProcessFails, Complete, ChainCompleted, CountCompleted,
             MarkFailed, CountFailed, ParentFailure, Finally, Go, Local
    <2>3. run[w].pc \in Closing => run'[w].pc \in Closing
      BY <1>1, <1>6
         DEF InnerStep, RateCheck, FindJob, SkipCompleted, ReadSequence, SaveSequence, StampJob,
             Begin, ProcessSucceeds, ProcessFails, Complete, ChainCompleted, CountCompleted,
             MarkFailed, CountFailed, ParentFailure, Finally, Go, At, Local, Closing
    <2> QED  BY <1>5, <2>1, <2>2, <2>3
  <1> QED  BY <1>3, <1>4, <1>6

LEMMA AbandonedStep ==
    ASSUME TypeOK, TypeOK', Locks, NEW j \in Job, RowsAtMost(j), [Next]_vars
    PROVE  RowsAtMost(j)'
  <1>0. /\ IsFiniteSet(Abandoned(j)) /\ Cardinality(Abandoned(j)) \in Nat
        /\ IsFiniteSet(Abandoned(j)') /\ Cardinality(Abandoned(j)') \in Nat
        /\ InfraSpent \in Nat
    BY AbandonedFinite, InfraType
  <1>1. ASSUME Abandoned(j)' \subseteq Abandoned(j), NEW d \in Nat, InfraSpent' = InfraSpent + d
        PROVE  RowsAtMost(j)'
    <2>1. Cardinality(Abandoned(j)') <= Cardinality(Abandoned(j))
      BY <1>0, <1>1, FS_Subset
    <2> QED  BY <1>0, <1>1, <2>1 DEF RowsAtMost
  <1>2. ASSUME NEW x, Abandoned(j)' \subseteq Abandoned(j) \cup {x}, InfraSpent' = InfraSpent + 1
        PROVE  RowsAtMost(j)'
    <2>1. /\ IsFiniteSet(Abandoned(j) \cup {x})
          /\ Cardinality(Abandoned(j) \cup {x}) =
               IF x \in Abandoned(j) THEN Cardinality(Abandoned(j))
               ELSE Cardinality(Abandoned(j)) + 1
      BY <1>0, FS_AddElement
    <2>2. Cardinality(Abandoned(j)') <= Cardinality(Abandoned(j) \cup {x})
      BY <1>2, <2>1, FS_Subset
    <2> QED  BY <1>0, <1>2, <2>1, <2>2 DEF RowsAtMost
  <1>3. ASSUME NEW w \in Worker, InnerStep(w)  PROVE RowsAtMost(j)'
    <2>1. InfraSpent' = InfraSpent + 0
      BY <1>0, <1>3, InnerSteps, InfraStep
    <2> QED  BY <1>1, <1>3, <2>1, InnerRow
  <1>4. ASSUME NEW w \in Worker, AwaitThrows(w) \/ Crash(w)  PROVE RowsAtMost(j)'
    <2>1. \A v \in Worker \ {w} : run'[v] = run[v]
      BY <1>4, ThrowingStep DEF Inner, Crash, Leave, TypeOK
    <2>2. OpenRows(j)' \subseteq OpenRows(j)
      BY <1>4 DEF AwaitThrows, Crash, OpenRows, dbVars
    <2>3. InfraSpent' = InfraSpent + 1
      BY <1>4, InfraStep DEF AwaitThrows, Crash
    <2> QED  BY <1>2, <2>1, <2>2, <2>3, AbandonOne
  <1>5. ASSUME NEW w \in Worker, \A v \in Worker \ {w} : run'[v] = run[v], attempts' = attempts,
               run[w].pc \notin Closing, budget' = budget
        PROVE  RowsAtMost(j)'
    <2>1. OpenRows(j)' \subseteq OpenRows(j)
      BY <1>5 DEF OpenRows
    <2>2. InfraSpent' = InfraSpent + 0
      BY <1>0, <1>5, InfraStep
    <2> QED  BY <1>1, <1>5, <2>1, <2>2, AbandonOne
  <1>6. ASSUME NEW w \in Worker, Return(w) \/ Throw(w)  PROVE RowsAtMost(j)'
    <2>1. /\ run[w].pc \notin Closing /\ attempts' = attempts /\ budget' = budget
          /\ \A v \in Worker \ {w} : run'[v] = run[v]
      BY <1>6 DEF Return, Throw, At, Leave, TypeOK, dbVars, Closing
    <2> QED  BY <1>5, <2>1
  <1>7. ASSUME NEW w \in Worker, NEW i \in Job, Deliver(w, i)  PROVE RowsAtMost(j)'
    <2>1. /\ run[w].pc \notin Closing /\ attempts' = attempts /\ budget' = budget
          /\ \A v \in Worker \ {w} : run'[v] = run[v]
      BY <1>7 DEF Deliver, At, TypeOK, dbVars, Closing
    <2> QED  BY <1>5, <2>1
  <1>8. ASSUME run' = run, attempts' = attempts, NEW d \in Nat, InfraSpent' = InfraSpent + d
        PROVE  RowsAtMost(j)'
    <2>1. Abandoned(j)' = Abandoned(j)
      BY <1>8 DEF Abandoned, OpenRows
    <2> QED  BY <1>1, <1>8, <2>1
  <1>9. ASSUME NEW w \in Worker, LoseLock(w)  PROVE RowsAtMost(j)'
    <2>1. InfraSpent' = InfraSpent + 1
      BY <1>9, InfraStep DEF LoseLock
    <2> QED  BY <1>8, <1>9, <2>1 DEF LoseLock, dbVars
  <1>10. ASSUME NEW i \in Job, Repeat(i)  PROVE RowsAtMost(j)'
    <2>1. InfraSpent' = InfraSpent + 0
      BY <1>0, <1>10, InfraStep DEF Repeat
    <2> QED  BY <1>8, <1>10, <2>1 DEF Repeat, dbVars
  <1>11. ASSUME NEW w \in Worker, NEW i \in Job, MoveToDlq(w, i)  PROVE RowsAtMost(j)'
    <2>1. InfraSpent' = InfraSpent + 0
      BY <1>0, <1>11, InfraStep DEF MoveToDlq
    <2> QED  BY <1>8, <1>11, <2>1 DEF MoveToDlq, dbVars
  <1>12. CASE MinutePasses \/ UNCHANGED vars
    <2>1. InfraSpent' = InfraSpent + 0
      BY <1>0, <1>12, InfraStep DEF MinutePasses, vars
    <2> QED  BY <1>8, <1>12, <2>1 DEF MinutePasses, vars, dbVars
  <1> QED  BY <1>3, <1>4, <1>6, <1>7, <1>9, <1>10, <1>11, <1>12 DEF Next, ExecuteStep, InnerStep

-----------------------------------------------------------------------------
(* The theorems *)

LInv == IInv /\ Locals /\ Fresh /\ Books

LEMMA LedgerInit == Init => LInv
  <1> SUFFICES ASSUME Init  PROVE LInv
    OBVIOUS
  <1>1. IInv
    BY InitInv
  <1>2. Locals
    <2>1. \A w \in Worker : run[w] = Idle
      BY DEF Init
    <2>2. \A j \in Job : tally[j].repeated = 0
      BY DEF Init, Tallies
    <2> QED  BY <2>1, <2>2 DEF Locals, LocalsOf, Idle, BeforeTry, InCatch
  <1>3. Fresh
    BY JobAssumption DEF Init, Fresh
  <1>4. InfraSpent = 0
    <2>1. \A f \in FaultKind : Spent(f) = 0
      BY FaultAssumption DEF Init, Spent
    <2> QED  BY <2>1 DEF InfraSpent, FaultKind
  <1>5. ASSUME NEW j \in Job
        PROVE  Totals(j) /\ DlqAtMost(j) /\ RowsAtMost(j)
    <2>1. /\ tally[j].released = 0 /\ tally[j].completed = 0 /\ tally[j].failed = 0
          /\ tally[j].dlq = 0 /\ tally[j].limited = 0 /\ tally[j].repeated = 0
          /\ bull[j] = "waiting" /\ attempts[j] = << >> /\ events = {} /\ Cycles(j) = 1
      BY DEF Init, Tallies, Cycles
    <2>2. /\ Stray(j, Unreleased) = {} /\ Stray(j, Uncounted) = {}
      BY JobAssumption DEF Init, Stray, IsStray, Idle
    <2>3. /\ One(ReleaseDue(j)) = 1 /\ One(CountDue(j)) = 1 /\ One(Twice(j)) = 0
          /\ One(~Finished(j)) = 1
      BY <2>1 DEF ReleaseDue, CountDue, Twice, Finished, One
    <2>4. EventsOf(j) = {} /\ Abandoned(j) = {}
      BY <2>1 DEF EventsOf, Abandoned, OpenRows
    <2>5. Cardinality({}) = 0
      BY FS_EmptySet
    <2>6. Totals(j)
      BY <1>4, <2>1, <2>2, <2>3, <2>5
         DEF Totals, ReleaseAtMost, ReleaseAtLeast, CountAtMost, CountAtLeast
    <2>7. DlqAtMost(j) /\ RowsAtMost(j)
      BY <1>4, <2>1, <2>3, <2>4, <2>5 DEF DlqAtMost, RowsAtMost
    <2> QED  BY <2>6, <2>7
  <1> QED  BY <1>1, <1>2, <1>3, <1>5 DEF LInv, Books

LEMMA LedgerNext == LInv /\ [Next]_vars => LInv'
  <1> SUFFICES ASSUME LInv, [Next]_vars  PROVE LInv'
    OBVIOUS
  <1>1. IInv'
    BY NextInv DEF LInv
  <1>2. TypeOK /\ TypeOK' /\ Locks /\ Alone /\ Fresh /\ Locals
    BY <1>1 DEF LInv, IInv
  <1>3. Locals' /\ Fresh'
    BY <1>2, LocalsStep, FreshStep DEF LInv
  <1>4. ASSUME NEW j \in Job  PROVE (Totals(j) /\ DlqAtMost(j) /\ RowsAtMost(j))'
    <2>1. Totals(j) /\ DlqAtMost(j) /\ RowsAtMost(j)
      BY DEF LInv, Books
    <2> QED  BY <1>2, <2>1, TotalsStep, DlqStep, AbandonedStep
  <1> QED  BY <1>1, <1>3, <1>4 DEF LInv, Books

\* The books of each job, with the locals they depend on, are kept by every await of
\* execute() and by every fault.
THEOREM LedgerInductive == Spec => []LInv
  <1> QED  BY LedgerInit, LedgerNext, PTL DEF Spec

\* base.processor.ts: the finally block and the skip path release a tenant's slot once
\* per delivery, give or take one for every throwing await, crash or lost lock, and never
\* once too few unless a fault or the rate limit came between.
THEOREM ReleasesBalance == Spec => []ReleaseBalance
  <1>1. LInv => ReleaseBalance
    <2> SUFFICES ASSUME LInv, NEW j \in Job
                 PROVE  /\ tally[j].released <= Cycles(j) + InfraSpent
                        /\ Finished(j) => tally[j].released
                                            >= Cycles(j) - InfraSpent - tally[j].limited
      BY DEF ReleaseBalance
    <2>1. ReleaseAtMost(j) /\ ReleaseAtLeast(j)
      BY DEF LInv, Books, Totals
    <2>2. /\ tally[j].released \in Nat /\ tally[j].limited \in Nat /\ InfraSpent \in Nat
          /\ Cycles(j) \in Nat
      BY TermTypes DEF LInv, IInv, Cycles
    <2>3. /\ One(ReleaseDue(j)) \in Nat /\ One(Twice(j)) \in Nat
          /\ Cardinality(Stray(j, Unreleased)) \in Nat
          /\ Finished(j) => One(ReleaseDue(j)) = 0
      BY StrayFinite DEF One, Finished, ReleaseDue
    <2> QED  BY <2>1, <2>2, <2>3 DEF ReleaseAtMost, ReleaseAtLeast
  <1> QED  BY <1>1, LedgerInductive, PTL

\* base.processor.ts, base.worker.ts: every delivery is counted once, as completed or
\* failed, give or take a fault or a rejected attempt, and the dead letter queue gets it
\* once at most, whatever fails.
THEOREM CountsOnce == Spec => []CountedOnce
  <1>1. LInv => CountedOnce
    <2> SUFFICES ASSUME LInv, NEW j \in Job
                 PROVE  LET n == tally[j].completed + tally[j].failed IN
                        /\ n <= Cycles(j) + InfraSpent
                        /\ Finished(j) => n >= Cycles(j) - InfraSpent - tally[j].limited
                        /\ tally[j].dlq <= Cycles(j)
      BY DEF CountedOnce
    <2>1. CountAtMost(j) /\ CountAtLeast(j) /\ DlqAtMost(j)
      BY DEF LInv, Books, Totals
    <2>2. /\ tally[j].completed \in Nat /\ tally[j].failed \in Nat /\ tally[j].limited \in Nat
          /\ tally[j].dlq \in Nat /\ InfraSpent \in Nat /\ Cycles(j) \in Nat
      BY TermTypes DEF LInv, IInv, Cycles
    <2>3. /\ One(CountDue(j)) \in Nat /\ One(~Finished(j)) \in Nat
          /\ Cardinality(Stray(j, Uncounted)) \in Nat
          /\ Finished(j) => One(CountDue(j)) = 0
      BY StrayFinite DEF One, Finished, CountDue
    <2>4. Cardinality(EventsOf(j)) \in Nat
      <3>1. events \in SUBSET (Worker \X Job)
        BY DEF LInv, IInv, TypeOK
      <3> QED  BY <3>1, EventsFinite DEF EventsOf
    <2> QED  BY <2>1, <2>2, <2>3, <2>4 DEF CountAtMost, CountAtLeast, DlqAtMost
  <1> QED  BY <1>1, LedgerInductive, PTL

\* base.processor.ts: a job_attempts row stays PROCESSING for good only through a fault,
\* one row each.
THEOREM RowsCloseUp == Spec => []RowsClosed
  <1>1. LInv => RowsClosed
    <2> SUFFICES ASSUME LInv, NEW j \in Job  PROVE Cardinality(Orphans(j)) <= InfraSpent
      BY DEF RowsClosed
    <2>1. Orphans(j) \subseteq Abandoned(j)
      BY DEF Orphans, Abandoned
    <2>2. /\ attempts[j] \in Seq(Row) /\ InfraSpent \in Nat
          /\ Cardinality(Abandoned(j)) <= InfraSpent
      BY InfraType DEF LInv, IInv, TypeOK, Books, RowsAtMost
    <2>3. /\ Abandoned(j) \in SUBSET (DOMAIN attempts[j])
          /\ Orphans(j) \in SUBSET (DOMAIN attempts[j])
      BY DEF Orphans, Abandoned, OpenRows
    <2>4. /\ IsFiniteSet(Abandoned(j)) /\ Cardinality(Abandoned(j)) \in Nat
          /\ Cardinality(Orphans(j)) \in Nat
      BY <2>2, <2>3, RowSubset
    <2>5. Cardinality(Orphans(j)) <= Cardinality(Abandoned(j))
      BY <2>1, <2>4, FS_Subset
    <2> QED  BY <2>2, <2>4, <2>5
  <1> QED  BY <1>1, LedgerInductive, PTL
=============================================================================
