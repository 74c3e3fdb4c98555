--------------------------- MODULE TenantCapProofs ---------------------------
(***************************************************************************)
(* Proofs about TenantCap for every set of jobs and workers, every cap and *)
(* every number of faults.                                                 *)
(***************************************************************************)
EXTENDS TenantCap, FiniteSetTheorems, TLAPS

-----------------------------------------------------------------------------
(* Counting *)

Is(x, A) == IF x \in A THEN 1 ELSE 0

\* A set that gains or loses one element changes its size by that element: the
\* lemma every step of the slot ledger rests on.
LEMMA CardUpdate ==
    ASSUME NEW T, NEW U, NEW s, IsFiniteSet(T), U \ {s} = T \ {s}
    PROVE  Cardinality(U) = Cardinality(T) + Is(s, U) - Is(s, T)
  <1>1. Cardinality(T) \in Nat
    BY FS_CardinalityType
  <1>2. CASE s \in U /\ s \notin T
    <2>1. U = T \cup {s}  BY <1>2
    <2>2. Cardinality(T \cup {s}) = Cardinality(T) + 1
      BY <1>2, FS_AddElement
    <2> QED  BY <1>1, <1>2, <2>1, <2>2 DEF Is
  <1>3. CASE s \notin U /\ s \in T
    <2>1. U = T \ {s}  BY <1>3
    <2>2. Cardinality(T \ {s}) = Cardinality(T) - 1
      BY <1>3, FS_RemoveElement
    <2> QED  BY <1>1, <1>3, <2>1, <2>2 DEF Is
  <1>4. CASE s \in U /\ s \in T
    <2>1. U = T  BY <1>4
    <2> QED  BY <1>1, <1>4, <2>1 DEF Is
  <1>5. CASE s \notin U /\ s \notin T
    <2>1. U = T  BY <1>5
    <2> QED  BY <1>1, <1>5, <2>1 DEF Is
  <1> QED  BY <1>2, <1>3, <1>4, <1>5

-----------------------------------------------------------------------------
(* The staging list: what RPUSH, LPOP and LPUSH do to its members *)

\* RPUSH of a payload that is not in the list.
LEMMA PushTail ==
    ASSUME NEW S, NEW s \in Seq(S), NEW x \in S, IsInjective(s), ~Contains(s, x)
    PROVE  /\ Append(s, x) \in Seq(S)
           /\ IsInjective(Append(s, x))
           /\ \A y : Contains(Append(s, x), y) <=> Contains(s, y) \/ y = x
  BY DEF IsInjective, Contains

\* LPOP of a non-empty list.
LEMMA PopHead ==
    ASSUME NEW S, NEW s \in Seq(S), s # << >>, IsInjective(s)
    PROVE  /\ Head(s) \in S /\ Tail(s) \in Seq(S)
           /\ Contains(s, Head(s))
           /\ IsInjective(Tail(s))
           /\ \A y : Contains(Tail(s), y) <=> Contains(s, y) /\ y # Head(s)
  BY DEF IsInjective, Contains

\* LPUSH of a payload that is not in the list.
LEMMA PushHead ==
    ASSUME NEW S, NEW s \in Seq(S), NEW x \in S, IsInjective(s), ~Contains(s, x)
    PROVE  /\ <<x>> \o s \in Seq(S)
           /\ IsInjective(<<x>> \o s)
           /\ \A y : Contains(<<x>> \o s, y) <=> Contains(s, y) \/ y = x
  <1> DEFINE t == <<x>> \o s
  <1>1. t \in Seq(S) /\ Len(t) = Len(s) + 1 /\ Len(s) \in Nat
    OBVIOUS
  <1>2. t[1] = x /\ \A i \in 1..Len(s) : t[i + 1] = s[i]
    OBVIOUS
  <1>3. \A i \in 1..Len(t) : i = 1 \/ (i - 1 \in 1..Len(s) /\ t[i] = s[i - 1])
    <2> TAKE i \in 1..Len(t)
    <2> HIDE DEF t
    <2>1. i \in Int /\ 1 <= i /\ i <= Len(s) + 1  BY <1>1
    <2>2. CASE i # 1
      <3>1. i - 1 \in 1..Len(s) /\ (i - 1) + 1 = i  BY <1>1, <2>1, <2>2
      <3>2. t[(i - 1) + 1] = s[i - 1]  BY <1>2, <3>1
      <3> QED  BY <3>1, <3>2
    <2> QED  BY <2>2
  <1> HIDE DEF t
  <1>4. DOMAIN t = 1..Len(t) /\ DOMAIN s = 1..Len(s)
    BY <1>1
  <1>5. ASSUME NEW i \in 1..Len(t), NEW k \in 1..Len(t), t[i] = t[k]
        PROVE  i = k
    <2>1. i \in Int /\ k \in Int  BY <1>1
    <2>2. CASE i = 1 /\ k # 1
      <3>1. k - 1 \in 1..Len(s) /\ s[k - 1] = x  BY <1>2, <1>3, <1>5, <2>2
      <3> QED  BY <3>1 DEF Contains
    <2>3. CASE i # 1 /\ k = 1
      <3>1. i - 1 \in 1..Len(s) /\ s[i - 1] = x  BY <1>2, <1>3, <1>5, <2>3
      <3> QED  BY <3>1 DEF Contains
    <2>4. CASE i # 1 /\ k # 1
      <3>1. i - 1 \in 1..Len(s) /\ k - 1 \in 1..Len(s) /\ s[i - 1] = s[k - 1]
        BY <1>3, <1>5, <2>4
      <3>2. i - 1 = k - 1  BY <3>1, <1>4 DEF IsInjective
      <3> QED  BY <3>2, <2>1
    <2> QED  BY <2>2, <2>3, <2>4
  <1>6. IsInjective(t)  BY <1>4, <1>5 DEF IsInjective
  <1>7. ASSUME NEW y PROVE Contains(t, y) <=> Contains(s, y) \/ y = x
    <2>1. ASSUME Contains(t, y) PROVE Contains(s, y) \/ y = x
      <3>1. PICK i \in 1..Len(t) : t[i] = y  BY <2>1 DEF Contains
      <3> QED  BY <3>1, <1>2, <1>3 DEF Contains
    <2>2. ASSUME Contains(s, y) PROVE Contains(t, y)
      <3>1. PICK i \in 1..Len(s) : s[i] = y  BY <2>2 DEF Contains
      <3>2. i + 1 \in 1..Len(t) /\ t[i + 1] = y  BY <3>1, <1>1, <1>2
      <3> QED  BY <3>2 DEF Contains
    <2>3. Contains(t, x)
      <3>1. 1 \in 1..Len(t)  BY <1>1
      <3> QED  BY <3>1, <1>2 DEF Contains
    <2> QED  BY <2>1, <2>2, <2>3
  <1> QED  BY <1>1, <1>6, <1>7 DEF t

-----------------------------------------------------------------------------
(* Where a job is: TypeOK, Consistent and NoDuplicate are inductive together *)

Shape == TypeOK /\ Consistent /\ NoDuplicate

\* Nothing is anywhere at first.
LEMMA ShapeInit == Init => Shape
  <1> SUFFICES ASSUME Init PROVE Shape
    OBVIOUS
  <1>1. TypeOK
    <2>1. ttl \in BOOLEAN /\ stalled \subseteq Job  BY DEF Init
    <2>2. inflight \in Int /\ drift \in Int /\ staging \in Seq(Job)
      BY DEF Init
    <2>3. sub \in [Job -> SubPC] /\ place \in [Job -> Place] /\ wrk \in [Worker -> WrkPC]
      BY DEF Init, SubPC, Place, WrkPC
    <2> QED  BY <2>1, <2>2, <2>3, FaultAssumption DEF Init, TypeOK
  <1>2. Consistent
    BY DEF Init, Consistent
  <1>3. staging = << >> /\ DOMAIN staging = {} /\ 1..Len(staging) = {}
    BY DEF Init
  <1>4. IsInjective(staging) /\ \A j : ~Contains(staging, j)
    BY <1>3 DEF IsInjective, Contains
  <1>5. NoDuplicate
    BY <1>4, JobAssumption DEF Init, NoDuplicate
  <1> QED  BY <1>1, <1>2, <1>5 DEF Shape

\* The job of a run that kept its lock is where Consistent says; a lost run has none.
LEMMA RunKnown ==
    ASSUME Shape, NEW w \in Worker, cur[w] # NoJob
    PROVE  /\ cur[w] \in Job /\ wrk[w] # "idle"
           /\ place[cur[w]] = IF wrk[w] \in {"process", "decr"} THEN "active" ELSE "released"
  <1>1. cur[w] \in Job  BY DEF Shape, TypeOK
  <1>2. /\ wrk[w] # "idle"
        /\ place[cur[w]] = IF wrk[w] \in {"process", "decr"} THEN "active" ELSE "released"
    BY DEF Shape, Consistent
  <1> QED  BY <1>1, <1>2

\* What Goes does to each job.
LEMMA GoesMoves ==
    ASSUME Shape, NEW w \in Worker, NEW p \in Place, Goes(w, p)
    PROVE  /\ place' \in [Job -> Place]
           /\ cur[w] # NoJob => place' = [place EXCEPT ![cur[w]] = p] /\ place'[cur[w]] = p
           /\ cur[w] = NoJob => place' = place
           /\ \A i \in Job : i # cur[w] => place'[i] = place[i]
  <1>1. place \in [Job -> Place]  BY DEF Shape, TypeOK
  <1>2. CASE cur[w] = NoJob
    <2>1. place' = place  BY <1>2 DEF Goes
    <2> QED  BY <1>1, <1>2, <2>1
  <1>3. CASE cur[w] # NoJob
    <2>1. cur[w] \in Job  BY <1>3, RunKnown
    <2>2. place' = [place EXCEPT ![cur[w]] = p]  BY <1>3 DEF Goes
    <2> QED  BY <1>1, <1>3, <2>1, <2>2
  <1> QED  BY <1>2, <1>3

\* What the stalled-job check does: a job moves to where AfterStall says, or none.
LEMMA StallMoves ==
    ASSUME Shape, NEW w \in Worker, NEW u \in Int, Stall(w, u)
    PROVE  /\ stalled' \subseteq Job /\ drift' \in Int
           /\ \/ cur[w] = NoJob /\ place' = place /\ drift' = drift + u
              \/ \E p \in {"waiting", "done"} :
                    /\ cur[w] # NoJob
                    /\ Goes(w, p)
                    /\ drift' = drift + Slot(p) - Slot(place[cur[w]]) + u
  <1>1. drift \in Int /\ stalled \subseteq Job  BY DEF Shape, TypeOK
  <1>2. CASE cur[w] = NoJob
    BY <1>1, <1>2, JobAssumption DEF Stall
  <1>3. CASE cur[w] # NoJob
    <2>1. PICK j \in Job : /\ cur[w] = j
                           /\ place' = [place EXCEPT ![j] = AfterStall(j)]
                           /\ stalled' = stalled \cup {j}
                           /\ drift' = drift + Slot(AfterStall(j)) - Slot(place[j]) + u
      BY <1>3 DEF Stall
    <2>2. PICK p \in {"waiting", "done"} : AfterStall(j) = p
      BY DEF AfterStall
    <2>3. Slot(p) \in Int /\ Slot(place[j]) \in Int
      BY DEF Slot
    <2>4. Goes(w, p)
      BY <1>3, <2>1, <2>2 DEF Goes
    <2> QED  BY <1>1, <1>3, <2>1, <2>2, <2>3, <2>4
  <1> QED  BY <1>2, <1>3

\* A worker that puts its job down, in BullMQ's sight or after losing the lock.
PutsDown(w) ==
    /\ (cur[w] = NoJob /\ place' = place) \/ \E p \in {"waiting", "done"} : Goes(w, p)
    /\ cur' = [cur EXCEPT ![w] = NoJob]
    /\ UNCHANGED redisVars /\ sub' = sub
    /\ \/ (wrk' = wrk /\ held' = held)
       \/ /\ wrk' = [wrk EXCEPT ![w] = "idle"]
          /\ \/ held' = [held EXCEPT ![w] = NoJob]
             \/ (held' = held /\ held[w] = NoJob)
    /\ budget' \in [FaultKind -> Nat] /\ drift' \in Int /\ stalled' \subseteq Job

LEMMA PutDown == ASSUME Shape, NEW w \in Worker, PutsDown(w) PROVE Shape'
  <1> USE JobAssumption DEF PutsDown, redisVars
  <1>p. PICK p \in {"waiting", "done"} : (cur[w] = NoJob /\ place' = place) \/ Goes(w, p)
    OBVIOUS
  <1>1. place' \in [Job -> Place] /\ \A i \in Job : i # cur[w] => place'[i] = place[i]
    BY <1>p, GoesMoves DEF Shape, TypeOK, Place
  <1>2. cur' \in [Worker -> Job \cup {NoJob}] /\ cur'[w] = NoJob
        /\ \A v \in Worker : v # w => cur'[v] = cur[v]
    BY DEF Shape, TypeOK
  <1>3. wrk' \in [Worker -> WrkPC] /\ \A v \in Worker : v # w => wrk'[v] = wrk[v]
    BY DEF Shape, TypeOK, WrkPC
  <1>4. /\ held' \in [Worker -> Job \cup {NoJob}]
        /\ \A v \in Worker : v # w => held'[v] = held[v]
        /\ held'[w] \in {held[w], NoJob}
        /\ held'[w] # NoJob <=> wrk'[w] \in {"enqueue", "putback"}
    BY DEF Shape, TypeOK, Consistent
  <1>5. \A j \in Job : place'[j] = "none" <=> place[j] = "none"
    <2>1. CASE cur[w] = NoJob  BY <1>1, <2>1
    <2>2. CASE cur[w] # NoJob
      <3>1. cur[w] \in Job /\ place[cur[w]] # "none"  BY <2>2, RunKnown
      <3>2. place'[cur[w]] = p  BY <1>p, <2>2, GoesMoves DEF Place
      <3> QED  BY <1>1, <3>1, <3>2
    <2> QED  BY <2>1, <2>2
  <1>6. TypeOK'
    <2>1. ttl' \in BOOLEAN  BY DEF Shape, TypeOK
    <2> QED  BY <1>1, <1>2, <1>3, <1>4, <2>1 DEF Shape, TypeOK
  <1>7. \A v \in Worker : cur'[v] # NoJob => v # w /\ cur'[v] = cur[v] /\ cur[v] # cur[w]
    BY <1>2 DEF Shape, NoDuplicate
  <1>8. Consistent'
    <2>1. \A j \in Job : place'[j] # "none" => sub'[j] \in {"queued", "staged"}
      BY <1>5 DEF Shape, Consistent
    <2>2. ASSUME NEW v \in Worker, cur'[v] # NoJob
          PROVE  /\ wrk'[v] # "idle"
                 /\ place'[cur'[v]] = IF wrk'[v] \in {"process", "decr"} THEN "active" ELSE "released"
      <3>1. v # w /\ cur'[v] = cur[v] /\ cur[v] # cur[w] /\ wrk'[v] = wrk[v] /\ cur[v] # NoJob
        BY <1>3, <1>7, <2>2
      <3>2. cur[v] \in Job /\ place'[cur[v]] = place[cur[v]]
        BY <1>1, <3>1, RunKnown
      <3> QED  BY <3>1, <3>2, RunKnown
    <2>3. ASSUME NEW v \in Worker
          PROVE  held'[v] # NoJob <=> wrk'[v] \in {"enqueue", "putback"}
      <3>1. CASE v = w  BY <1>4, <3>1
      <3>2. CASE v # w  BY <1>3, <1>4, <3>2 DEF Shape, Consistent
      <3> QED  BY <3>1, <3>2
    <2> QED  BY <2>1, <2>2, <2>3 DEF Consistent
  <1>9. NoDuplicate'
    <2>1. \A v \in Worker : held'[v] # NoJob => held'[v] = held[v]
      BY <1>4
    <2>2. \A v, x \in Worker : cur'[v] = cur'[x] /\ cur'[v] # NoJob => v = x
      BY <1>7 DEF Shape, NoDuplicate
    <2> QED  BY <1>4, <1>5, <2>1, <2>2 DEF Shape, NoDuplicate
  <1> QED  BY <1>6, <1>8, <1>9 DEF Shape

\* Every step keeps a job in one place: one case per action.
LEMMA ShapeNext == Shape /\ [Next]_vars => Shape'
  <1> SUFFICES ASSUME Shape, [Next]_vars PROVE Shape'
    OBVIOUS
  <1> USE JobAssumption DEF Shape, SubGo, WrkGo, Spend, redisVars, workerVars
  <1>1. ASSUME NEW j \in Job, SubmitIncr(j) PROVE Shape'
    BY <1>1 DEF SubmitIncr, SubmitDecision, TypeOK, Consistent, NoDuplicate, SubPC, WrkPC, Place, FaultKind
  <1>2. ASSUME NEW j \in Job, SubmitExpire(j) PROVE Shape'
    BY <1>2 DEF SubmitExpire, TypeOK, Consistent, NoDuplicate, SubPC, WrkPC, Place, FaultKind
  <1>3. ASSUME NEW j \in Job, SubmitEnqueue(j) PROVE Shape'
    BY <1>3 DEF SubmitEnqueue, TypeOK, Consistent, NoDuplicate, SubPC, WrkPC, Place, FaultKind
  <1>4. ASSUME NEW j \in Job, SubmitEnqueueThrows(j) PROVE Shape'
    BY <1>4 DEF SubmitEnqueueThrows, TypeOK, Consistent, NoDuplicate, SubPC, WrkPC, Place, FaultKind
  <1>5. ASSUME NEW j \in Job, SubmitUndo(j) PROVE Shape'
    BY <1>5 DEF SubmitUndo, TypeOK, Consistent, NoDuplicate, SubPC, WrkPC, Place, FaultKind
  <1>6. ASSUME NEW j \in Job, SubmitStage(j) PROVE Shape'
    <2>1. ~Contains(staging, j) /\ place[j] = "none" /\ \A w \in Worker : held[w] # j
      BY <1>6 DEF SubmitStage, TypeOK, Consistent, NoDuplicate
    <2>2. /\ staging' \in Seq(Job) /\ IsInjective(staging')
          /\ \A y : Contains(staging', y) <=> Contains(staging, y) \/ y = j
      BY <1>6, <2>1, PushTail DEF SubmitStage, TypeOK, NoDuplicate
    <2>3. TypeOK'
      BY <1>6, <2>2 DEF SubmitStage, TypeOK, SubPC
    <2>4. Consistent'
      BY <1>6 DEF SubmitStage, TypeOK, Consistent
    <2>5. NoDuplicate'
      BY <1>6, <2>1, <2>2 DEF SubmitStage, TypeOK, NoDuplicate
    <2> QED  BY <2>3, <2>4, <2>5
  <1>7. ASSUME NEW j \in Job, SubmitCrash(j) PROVE Shape'
    BY <1>7 DEF SubmitCrash, TypeOK, Consistent, NoDuplicate, SubPC, WrkPC, Place, FaultKind
  <1>8. ASSUME NEW j \in Job, Repeat(j) PROVE Shape'
    BY <1>8 DEF Repeat, TypeOK, Consistent, NoDuplicate, SubPC, WrkPC, Place, FaultKind
  <1>9. ASSUME NEW w \in Worker, NEW j \in Job, Take(w, j) PROVE Shape'
    BY <1>9 DEF Take, TypeOK, Consistent, NoDuplicate, SubPC, WrkPC, Place, FaultKind
  <1>10. ASSUME NEW w \in Worker, Retry(w) PROVE Shape'
    <2>1. wrk[w] # "idle" /\ held[w] = NoJob  BY <1>10 DEF Retry, Consistent
    <2>2. drift' \in Int /\ budget' \in [FaultKind -> Nat] /\ stalled' \subseteq Job
      BY <1>10 DEF Retry, TypeOK, FaultKind
    <2>9. PutsDown(w)  BY <1>10, <2>1, <2>2 DEF Retry, PutsDown
    <2> QED  BY <2>9, PutDown
  <1>11. ASSUME NEW w \in Worker, Finish(w) PROVE Shape'
    BY <1>11 DEF Finish, TypeOK, Consistent, NoDuplicate, SubPC, WrkPC, Place, FaultKind
  <1>12. ASSUME NEW w \in Worker, Ack(w) PROVE Shape'
    <2>1. wrk[w] # "idle" /\ held[w] = NoJob  BY <1>12 DEF Ack, Consistent
    <2>2. drift' \in Int /\ budget' \in [FaultKind -> Nat] /\ stalled' \subseteq Job
      BY <1>12 DEF Ack, TypeOK, FaultKind
    <2>9. PutsDown(w)  BY <1>12, <2>1, <2>2 DEF Ack, PutsDown
    <2> QED  BY <2>9, PutDown
  <1>13. ASSUME NEW w \in Worker, ReleaseDecr(w) PROVE Shape'
    <2>1. /\ wrk[w] = "decr" /\ held' = held /\ cur' = cur /\ sub' = sub /\ staging' = staging
          /\ wrk' \in [Worker -> WrkPC] /\ wrk'[w] \in {"reset", "lpop"}
          /\ \A v \in Worker : v # w => wrk'[v] = wrk[v]
      BY <1>13 DEF ReleaseDecr, TypeOK, WrkPC
    <2>2. /\ place' \in [Job -> Place]
          /\ cur[w] # NoJob => place'[cur[w]] = "released"
          /\ \A i \in Job : i # cur[w] => place'[i] = place[i]
      BY <1>13, GoesMoves DEF ReleaseDecr, Place
    <2>3. \A j \in Job : place'[j] = "none" <=> place[j] = "none"
      <3>1. CASE cur[w] = NoJob  BY <2>2, <3>1
      <3>2. CASE cur[w] # NoJob
        <4>1. cur[w] \in Job /\ place[cur[w]] # "none"  BY <3>2, RunKnown
        <4> QED  BY <2>2, <3>2, <4>1
      <3> QED  BY <3>1, <3>2
    <2>4. TypeOK'
      <3>1. ttl' \in BOOLEAN  BY <1>13 DEF ReleaseDecr, TypeOK
      <3>2. inflight' \in Int /\ drift' \in Int  BY <1>13 DEF ReleaseDecr, TypeOK
      <3> QED  BY <1>13, <2>1, <2>2, <3>1, <3>2 DEF ReleaseDecr, TypeOK
    <2>5. Consistent'
      <3>1. \A j \in Job : place'[j] # "none" => sub'[j] \in {"queued", "staged"}
        BY <2>1, <2>3 DEF Consistent
      <3>2. ASSUME NEW v \in Worker, cur'[v] # NoJob
            PROVE  /\ wrk'[v] # "idle"
                   /\ place'[cur'[v]] = IF wrk'[v] \in {"process", "decr"} THEN "active" ELSE "released"
        <4>1. CASE v = w  BY <2>1, <2>2, <3>2, <4>1
        <4>2. CASE v # w
          <5>1. cur[v] # cur[w] /\ cur[v] \in Job  BY <2>1, <3>2, <4>2, RunKnown DEF NoDuplicate
          <5> QED  BY <2>1, <2>2, <3>2, <4>2, <5>1, RunKnown
        <4> QED  BY <4>1, <4>2
      <3>3. \A v \in Worker : held'[v] # NoJob <=> wrk'[v] \in {"enqueue", "putback"}
        BY <2>1 DEF Consistent
      <3> QED  BY <3>1, <3>2, <3>3 DEF Consistent
    <2>6. NoDuplicate'  BY <2>1, <2>3 DEF NoDuplicate
    <2> QED  BY <2>4, <2>5, <2>6
  <1>14. ASSUME NEW w \in Worker, ReleaseReset(w) PROVE Shape'
    <2>1. TypeOK'
      <3>1. ttl' \in BOOLEAN  BY <1>14 DEF ReleaseReset
      <3> QED  BY <1>14, <3>1 DEF ReleaseReset, TypeOK, WrkPC
    <2>2. Consistent' /\ NoDuplicate'
      BY <1>14 DEF ReleaseReset, TypeOK, Consistent, NoDuplicate
    <2> QED  BY <2>1, <2>2
  <1>15. ASSUME NEW w \in Worker, DrainPop(w) PROVE Shape'
    <2>1. CASE staging = << >>
      BY <1>15, <2>1 DEF DrainPop, TypeOK, Consistent, NoDuplicate, WrkPC
    <2>2. CASE staging # << >>
      <3>1. /\ Head(staging) \in Job /\ Tail(staging) \in Seq(Job)
            /\ Contains(staging, Head(staging)) /\ IsInjective(Tail(staging))
            /\ \A y : Contains(Tail(staging), y) <=> Contains(staging, y) /\ y # Head(staging)
        BY <2>2, PopHead DEF TypeOK, NoDuplicate
      <3>2. /\ wrk[w] = "lpop" /\ wrk' = [wrk EXCEPT ![w] = "enqueue"]
            /\ held' = [held EXCEPT ![w] = Head(staging)] /\ staging' = Tail(staging)
            /\ UNCHANGED <<inflight, ttl, sub, place, cur, stalled, budget, drift>>
        BY <1>15, <2>2 DEF DrainPop
      <3>3. TypeOK'
        BY <3>1, <3>2 DEF TypeOK, WrkPC
      <3>4. Consistent'
        BY <3>1, <3>2 DEF TypeOK, Consistent
      <3>5. NoDuplicate'
        BY <3>1, <3>2 DEF TypeOK, NoDuplicate
      <3> QED  BY <3>3, <3>4, <3>5
    <2> QED  BY <2>1, <2>2
  <1>16. ASSUME NEW w \in Worker, DrainEnqueue(w) PROVE Shape'
    BY <1>16 DEF DrainEnqueue, TypeOK, Consistent, NoDuplicate, SubPC, WrkPC, Place, FaultKind
  <1>17. ASSUME NEW w \in Worker, DrainEnqueueThrows(w) PROVE Shape'
    BY <1>17 DEF DrainEnqueueThrows, TypeOK, Consistent, NoDuplicate, SubPC, WrkPC, Place, FaultKind
  <1>18. ASSUME NEW w \in Worker, DrainIncr(w) PROVE Shape'
    BY <1>18 DEF DrainIncr, TypeOK, Consistent, NoDuplicate, SubPC, WrkPC, Place, FaultKind
  <1>19. ASSUME NEW w \in Worker, DrainPutBack(w) PROVE Shape'
    <2>1. held[w] \in Job /\ ~Contains(staging, held[w])
      BY <1>19 DEF DrainPutBack, TypeOK, Consistent, NoDuplicate
    <2>2. /\ staging' \in Seq(Job) /\ IsInjective(staging')
          /\ \A y : Contains(staging', y) <=> Contains(staging, y) \/ y = held[w]
      BY <1>19, <2>1, PushHead DEF DrainPutBack, TypeOK, NoDuplicate
    <2>3. TypeOK'
      BY <1>19, <2>2 DEF DrainPutBack, TypeOK, WrkPC
    <2>4. Consistent'
      BY <1>19 DEF DrainPutBack, TypeOK, Consistent
    <2>5. NoDuplicate'
      BY <1>19, <2>1, <2>2 DEF DrainPutBack, TypeOK, NoDuplicate
    <2> QED  BY <2>3, <2>4, <2>5
  <1>20. ASSUME NEW w \in Worker, WorkerCrash(w) PROVE Shape'
    <2>1. budget' \in [FaultKind -> Nat]  BY <1>20 DEF WorkerCrash, TypeOK, FaultKind
    <2>2. PICK u \in Int : Stall(w, u)  BY <1>20 DEF WorkerCrash
    <2>3. stalled' \subseteq Job /\ drift' \in Int  BY <2>2, StallMoves
    <2>4. (cur[w] = NoJob /\ place' = place) \/ \E p \in {"waiting", "done"} : Goes(w, p)
      BY <2>2, StallMoves
    <2>9. PutsDown(w)  BY <1>20, <2>1, <2>3, <2>4 DEF WorkerCrash, PutsDown
    <2> QED  BY <2>9, PutDown
  <1>21. CASE KeyExpires
    <2>1. TypeOK'
      <3>1. ttl' \in BOOLEAN  BY <1>21 DEF KeyExpires
      <3> QED  BY <1>21, <3>1 DEF KeyExpires, TypeOK, FaultKind
    <2>2. Consistent' /\ NoDuplicate'
      BY <1>21 DEF KeyExpires, Consistent, NoDuplicate
    <2> QED  BY <2>1, <2>2
  <1>22. ASSUME NEW w \in Worker, Reject(w) PROVE Shape'
    <2>1. wrk[w] # "idle" /\ held[w] = NoJob  BY <1>22 DEF Reject, Consistent
    <2>2. drift' \in Int /\ budget' \in [FaultKind -> Nat] /\ stalled' \subseteq Job
      BY <1>22 DEF Reject, TypeOK, FaultKind
    <2>9. PutsDown(w)  BY <1>22, <2>1, <2>2 DEF Reject, PutsDown
    <2> QED  BY <2>9, PutDown
  <1>23. ASSUME NEW w \in Worker, Rerun(w) PROVE Shape'
    <2>1. wrk[w] # "idle" /\ held[w] = NoJob  BY <1>23 DEF Rerun, Consistent
    <2>2. drift' \in Int /\ budget' \in [FaultKind -> Nat] /\ stalled' \subseteq Job
      BY <1>23 DEF Rerun, TypeOK, FaultKind
    <2>9. PutsDown(w)  BY <1>23, <2>1, <2>2 DEF Rerun, PutsDown
    <2> QED  BY <2>9, PutDown
  <1>24. ASSUME NEW w \in Worker, LoseLock(w) PROVE Shape'
    <2>1. budget' \in [FaultKind -> Nat]  BY <1>24 DEF LoseLock, TypeOK, FaultKind
    <2>2. Stall(w, 0) /\ 0 \in Int  BY <1>24 DEF LoseLock
    <2>3. stalled' \subseteq Job /\ drift' \in Int  BY <2>2, StallMoves
    <2>4. (cur[w] = NoJob /\ place' = place) \/ \E p \in {"waiting", "done"} : Goes(w, p)
      BY <2>2, StallMoves
    <2>9. PutsDown(w)  BY <1>24, <2>1, <2>3, <2>4 DEF LoseLock, PutsDown
    <2> QED  BY <2>9, PutDown
  <1>25. CASE UNCHANGED vars
    BY <1>25 DEF vars, TypeOK, Consistent, NoDuplicate, SubPC, WrkPC, Place, FaultKind
  <1> QED
    BY <1>1, <1>2, <1>3, <1>4, <1>5, <1>6, <1>7, <1>8, <1>9, <1>10, <1>11, <1>12, <1>13, <1>14, <1>15, <1>16, <1>17, <1>18, <1>19, <1>20, <1>21, <1>22, <1>23, <1>24, <1>25 DEF Next, SubmitStep, ReleaseStep

-----------------------------------------------------------------------------
(* The slot ledger and the bound on the counter *)

Slots == {"waiting", "active"}
CountedPC == {"expire", "enqueue", "undo", "leaked", "stuck"}
OverCapPC == {"undo", "stuck"}
UncountedPC == {"incr"}
DrainingPC == {"lpop", "enqueue", "incr"}

\* The sets of the ledger are finite, and ordered as their definitions say.
LEMMA Sizes ==
    /\ Cardinality(Holding) \in Nat /\ Cardinality(Counted) \in Nat
    /\ Cardinality(OverCap) \in Nat /\ Cardinality(Uncounted) \in Nat
    /\ Cardinality(Draining) \in Nat /\ Cardinality(Worker) \in Nat
    /\ Cardinality(Draining) <= Cardinality(Worker)
    /\ Cardinality(OverCap) <= Cardinality(Counted)
    /\ Cardinality(Uncounted) <= Cardinality(Draining)
  <1> USE JobAssumption, WorkerAssumption
  <1>1. IsFiniteSet(Holding) /\ IsFiniteSet(Counted) /\ IsFiniteSet(OverCap)
    BY FS_Subset DEF Holding, Counted, OverCap
  <1>2. IsFiniteSet(Uncounted)
    BY FS_Subset DEF Uncounted
  <1>3. IsFiniteSet(Draining) /\ Cardinality(Draining) <= Cardinality(Worker)
    <2>1. Draining \subseteq Worker  BY DEF Draining
    <2> QED  BY <2>1, FS_Subset
  <1>4. Cardinality(OverCap) <= Cardinality(Counted)
    <2>1. OverCap \subseteq Counted  BY DEF OverCap, Counted
    <2> QED  BY <1>1, <2>1, FS_Subset
  <1>5. Cardinality(Uncounted) <= Cardinality(Draining)
    <2>1. Uncounted \subseteq Draining  BY DEF Uncounted, Draining
    <2> QED  BY <1>3, <2>1, FS_Subset
  <1> QED  BY <1>1, <1>2, <1>3, <1>4, <1>5, FS_CardinalityType

\* A step of submitJob(j) moves j alone between the sets of submissions.
LEMMA SubCount ==
    ASSUME TypeOK, NEW j \in Job, NEW v \in SubPC, sub' = [sub EXCEPT ![j] = v]
    PROVE  /\ Cardinality(Counted') = Cardinality(Counted)
                + Is(v, CountedPC) - Is(sub[j], CountedPC)
           /\ Cardinality(OverCap') = Cardinality(OverCap)
                + Is(v, OverCapPC) - Is(sub[j], OverCapPC)
  <1>1. Cardinality(Counted') = Cardinality(Counted) + Is(v, CountedPC) - Is(sub[j], CountedPC)
    <2>1. Counted' \ {j} = Counted \ {j}
      BY DEF Counted, TypeOK
    <2>2. Is(j, Counted') = Is(v, CountedPC) /\ Is(j, Counted) = Is(sub[j], CountedPC)
      BY DEF Counted, CountedPC, Is, TypeOK
    <2>3. IsFiniteSet(Counted)
      BY JobAssumption, FS_Subset DEF Counted
    <2>4. Cardinality(Counted') = Cardinality(Counted) + Is(j, Counted') - Is(j, Counted)
      BY <2>1, <2>3, CardUpdate
    <2> QED  BY <2>2, <2>4
  <1>2. Cardinality(OverCap') = Cardinality(OverCap) + Is(v, OverCapPC) - Is(sub[j], OverCapPC)
    <2>1. OverCap' \ {j} = OverCap \ {j}
      BY DEF OverCap, TypeOK
    <2>2. Is(j, OverCap') = Is(v, OverCapPC) /\ Is(j, OverCap) = Is(sub[j], OverCapPC)
      BY DEF OverCap, OverCapPC, Is, TypeOK
    <2>3. IsFiniteSet(OverCap)
      BY JobAssumption, FS_Subset DEF OverCap
    <2>4. Cardinality(OverCap') = Cardinality(OverCap) + Is(j, OverCap') - Is(j, OverCap)
      BY <2>1, <2>3, CardUpdate
    <2> QED  BY <2>2, <2>4
  <1> QED  BY <1>1, <1>2

\* BullMQ moves one job at a time.
LEMMA PlaceCount ==
    ASSUME TypeOK, NEW j \in Job, NEW v \in Place, place' = [place EXCEPT ![j] = v]
    PROVE  Cardinality(Holding') = Cardinality(Holding)
                + Is(v, Slots) - Is(place[j], Slots)
  <1>1. Cardinality(Holding') = Cardinality(Holding) + Is(v, Slots) - Is(place[j], Slots)
    <2>1. Holding' \ {j} = Holding \ {j}
      BY DEF Holding, Slot, TypeOK
    <2>2. Is(j, Holding') = Is(v, Slots) /\ Is(j, Holding) = Is(place[j], Slots)
      BY DEF Holding, Slot, Slots, Is, TypeOK
    <2>3. IsFiniteSet(Holding)
      BY JobAssumption, FS_Subset DEF Holding
    <2>4. Cardinality(Holding') = Cardinality(Holding) + Is(j, Holding') - Is(j, Holding)
      BY <2>1, <2>3, CardUpdate
    <2> QED  BY <2>2, <2>4
  <1> QED  BY <1>1

\* A step of a worker moves that worker alone between the sets of releases.
LEMMA WrkCount ==
    ASSUME TypeOK, NEW w \in Worker, NEW v \in WrkPC, wrk' = [wrk EXCEPT ![w] = v]
    PROVE  /\ Cardinality(Uncounted') = Cardinality(Uncounted)
                + Is(v, UncountedPC) - Is(wrk[w], UncountedPC)
           /\ Cardinality(Draining') = Cardinality(Draining)
                + Is(v, DrainingPC) - Is(wrk[w], DrainingPC)
  <1>1. Cardinality(Uncounted') = Cardinality(Uncounted) + Is(v, UncountedPC) - Is(wrk[w], UncountedPC)
    <2>1. Uncounted' \ {w} = Uncounted \ {w}
      BY DEF Uncounted, TypeOK
    <2>2. Is(w, Uncounted') = Is(v, UncountedPC) /\ Is(w, Uncounted) = Is(wrk[w], UncountedPC)
      BY DEF Uncounted, UncountedPC, Is, TypeOK
    <2>3. IsFiniteSet(Uncounted)
      BY WorkerAssumption, FS_Subset DEF Uncounted
    <2>4. Cardinality(Uncounted') = Cardinality(Uncounted) + Is(w, Uncounted') - Is(w, Uncounted)
      BY <2>1, <2>3, CardUpdate
    <2> QED  BY <2>2, <2>4
  <1>2. Cardinality(Draining') = Cardinality(Draining) + Is(v, DrainingPC) - Is(wrk[w], DrainingPC)
    <2>1. Draining' \ {w} = Draining \ {w}
      BY DEF Draining, TypeOK
    <2>2. Is(w, Draining') = Is(v, DrainingPC) /\ Is(w, Draining) = Is(wrk[w], DrainingPC)
      BY DEF Draining, DrainingPC, Is, TypeOK
    <2>3. IsFiniteSet(Draining)
      BY WorkerAssumption, FS_Subset DEF Draining
    <2>4. Cardinality(Draining') = Cardinality(Draining) + Is(w, Draining') - Is(w, Draining)
      BY <2>1, <2>3, CardUpdate
    <2> QED  BY <2>2, <2>4
  <1> QED  BY <1>1, <1>2

\* Goes moves the worker's job, if it still has one.
LEMMA GoesCount ==
    ASSUME Shape, NEW w \in Worker, NEW p \in Place, Goes(w, p)
    PROVE  Cardinality(Holding') = Cardinality(Holding)
             + (IF cur[w] = NoJob THEN 0 ELSE Is(p, Slots) - Is(place[cur[w]], Slots))
  <1>1. CASE cur[w] = NoJob
    <2>1. Holding' = Holding  BY <1>1, GoesMoves DEF Holding
    <2> QED  BY <1>1, <2>1, Sizes
  <1>2. CASE cur[w] # NoJob
    BY <1>2, GoesMoves, RunKnown, PlaceCount DEF Shape
  <1> QED  BY <1>1, <1>2

\* The stalled-job check changes drift by the slots it takes or gives, and no more.
LEMMA StallCount ==
    ASSUME Shape, NEW w \in Worker, NEW u \in Int, Stall(w, u)
    PROVE  Cardinality(Holding') - drift' = Cardinality(Holding) - drift - u /\ drift' \in Int
  <1>1. drift \in Int /\ drift' \in Int  BY StallMoves DEF Shape, TypeOK
  <1>2. CASE cur[w] = NoJob
    <2>1. place' = place /\ drift' = drift + u  BY <1>2, StallMoves
    <2>2. Holding' = Holding  BY <2>1 DEF Holding
    <2> QED  BY <1>1, <2>1, <2>2, Sizes
  <1>3. CASE cur[w] # NoJob
    <2>1. PICK p \in {"waiting", "done"} :
            Goes(w, p) /\ drift' = drift + Slot(p) - Slot(place[cur[w]]) + u
      BY <1>3, StallMoves
    <2>2. Cardinality(Holding') = Cardinality(Holding) + Is(p, Slots) - Is(place[cur[w]], Slots)
      BY <1>3, <2>1, GoesCount, Sizes DEF Place, Is
    <2>3. /\ Is(p, Slots) = Slot(p) /\ Is(place[cur[w]], Slots) = Slot(place[cur[w]])
          /\ Slot(p) \in Int /\ Slot(place[cur[w]]) \in Int
      BY DEF Is, Slots, Slot
    <2> QED  BY <1>1, <2>1, <2>2, <2>3, Sizes
  <1> QED  BY <1>2, <1>3

\* The counter's two facts; Shape says which sets a step moves a job between.
Ledger == SlotLedger /\ OvershootBound

\* Where a job is when a step is about to move it.
LEMMA Facts ==
    ASSUME Shape
    PROVE  /\ TypeOK /\ inflight \in Int /\ drift \in Int
           /\ MaxConcurrent \in Nat /\ MaxConcurrent >= 1
           /\ \A j \in Job : sub[j] = "enqueue" => place[j] = "none"
           /\ \A w \in Worker : cur[w] # NoJob =>
                /\ cur[w] \in Job
                /\ place[cur[w]] = IF wrk[w] \in {"process", "decr"} THEN "active" ELSE "released"
           /\ \A w \in Worker : wrk[w] = "enqueue" => held[w] \in Job /\ place[held[w]] = "none"
  <1>1. TypeOK /\ inflight \in Int /\ drift \in Int /\ MaxConcurrent \in Nat /\ MaxConcurrent >= 1
    BY CapAssumption DEF Shape, TypeOK
  <1>2. \A j \in Job : sub[j] = "enqueue" => place[j] = "none"
    BY DEF Shape, Consistent
  <1>3. \A w \in Worker : wrk[w] = "enqueue" => held[w] \in Job /\ place[held[w]] = "none"
    BY DEF Shape, TypeOK, Consistent, NoDuplicate
  <1> QED  BY <1>1, <1>2, <1>3, RunKnown

\* Every step keeps the ledger: one case per action.
LEMMA LedgerNext == Shape /\ Ledger /\ [Next]_vars => Ledger'
  <1> SUFFICES ASSUME Shape, Ledger, [Next]_vars PROVE Ledger'
    OBVIOUS
  <1>1. ASSUME NEW j \in Job, SubmitExpire(j) PROVE Ledger'
    <2>1. /\ Cardinality(Counted') = Cardinality(Counted) + Is("enqueue", CountedPC) - Is("expire", CountedPC)
          /\ Cardinality(OverCap') = Cardinality(OverCap) + Is("enqueue", OverCapPC) - Is("expire", OverCapPC)
      BY <1>1, Facts, SubCount DEF SubmitExpire, SubPC, SubGo
    <2>2. Holding' = Holding /\ Uncounted' = Uncounted /\ Draining' = Draining
      BY <1>1 DEF SubmitExpire, workerVars, Holding, Uncounted, Draining
    <2> QED
      BY <1>1, <2>1, <2>2, Sizes, Facts
         DEF SubmitExpire, Ledger, SlotLedger, OvershootBound, Is, CountedPC, OverCapPC
  <1>2. ASSUME NEW j \in Job, SubmitEnqueue(j) PROVE Ledger'
    <2>1. /\ Cardinality(Counted') = Cardinality(Counted) + Is("queued", CountedPC) - Is("enqueue", CountedPC)
          /\ Cardinality(OverCap') = Cardinality(OverCap) + Is("queued", OverCapPC) - Is("enqueue", OverCapPC)
      BY <1>2, Facts, SubCount DEF SubmitEnqueue, SubPC, SubGo
    <2>2. Cardinality(Holding') = Cardinality(Holding) + Is("waiting", Slots) - Is("none", Slots)
      BY <1>2, Facts, PlaceCount DEF SubmitEnqueue, Place, SubGo
    <2>3. Uncounted' = Uncounted /\ Draining' = Draining
      BY <1>2 DEF SubmitEnqueue, workerVars, Uncounted, Draining
    <2> QED
      BY <1>2, <2>1, <2>2, <2>3, Sizes, Facts
         DEF SubmitEnqueue, Ledger, SlotLedger, OvershootBound, Is, CountedPC, OverCapPC, Slots, redisVars
  <1>3. ASSUME NEW j \in Job, SubmitEnqueueThrows(j) PROVE Ledger'
    <2>1. /\ Cardinality(Counted') = Cardinality(Counted) + Is("leaked", CountedPC) - Is("enqueue", CountedPC)
          /\ Cardinality(OverCap') = Cardinality(OverCap) + Is("leaked", OverCapPC) - Is("enqueue", OverCapPC)
      BY <1>3, Facts, SubCount DEF SubmitEnqueueThrows, SubPC, SubGo
    <2>2. Holding' = Holding /\ Uncounted' = Uncounted /\ Draining' = Draining
      BY <1>3 DEF SubmitEnqueueThrows, workerVars, Holding, Uncounted, Draining
    <2> QED
      BY <1>3, <2>1, <2>2, Sizes, Facts
         DEF SubmitEnqueueThrows, Ledger, SlotLedger, OvershootBound, Is, CountedPC, OverCapPC, redisVars
  <1>4. ASSUME NEW j \in Job, SubmitUndo(j) PROVE Ledger'
    <2>1. /\ Cardinality(Counted') = Cardinality(Counted) + Is("stage", CountedPC) - Is("undo", CountedPC)
          /\ Cardinality(OverCap') = Cardinality(OverCap) + Is("stage", OverCapPC) - Is("undo", OverCapPC)
      BY <1>4, Facts, SubCount DEF SubmitUndo, SubPC, SubGo
    <2>2. Holding' = Holding /\ Uncounted' = Uncounted /\ Draining' = Draining
      BY <1>4 DEF SubmitUndo, workerVars, Holding, Uncounted, Draining
    <2> QED
      BY <1>4, <2>1, <2>2, Sizes, Facts
         DEF SubmitUndo, Ledger, SlotLedger, OvershootBound, Is, CountedPC, OverCapPC
  <1>5. ASSUME NEW j \in Job, SubmitStage(j) PROVE Ledger'
    <2>1. /\ Cardinality(Counted') = Cardinality(Counted) + Is("staged", CountedPC) - Is("stage", CountedPC)
          /\ Cardinality(OverCap') = Cardinality(OverCap) + Is("staged", OverCapPC) - Is("stage", OverCapPC)
      BY <1>5, Facts, SubCount DEF SubmitStage, SubPC, SubGo
    <2>2. Holding' = Holding /\ Uncounted' = Uncounted /\ Draining' = Draining
      BY <1>5 DEF SubmitStage, workerVars, Holding, Uncounted, Draining
    <2> QED
      BY <1>5, <2>1, <2>2, Sizes, Facts
         DEF SubmitStage, Ledger, SlotLedger, OvershootBound, Is, CountedPC, OverCapPC
  <1>6. ASSUME NEW j \in Job, Repeat(j) PROVE Ledger'
    <2>1. Cardinality(Holding') = Cardinality(Holding) + Is("waiting", Slots) - Is("done", Slots)
      BY <1>6, Facts, PlaceCount DEF Repeat, Place, SubGo
    <2>2. Counted' = Counted /\ OverCap' = OverCap /\ Uncounted' = Uncounted /\ Draining' = Draining
      BY <1>6 DEF Repeat, workerVars, Counted, OverCap, Uncounted, Draining
    <2> QED
      BY <1>6, <2>1, <2>2, Sizes, Facts
         DEF Repeat, Ledger, SlotLedger, OvershootBound, Is, Slots, redisVars
  <1>7. ASSUME NEW w \in Worker, Retry(w) PROVE Ledger'
    <2>1. wrk[w] = "process" /\ (cur[w] # NoJob => place[cur[w]] = "active")
      BY <1>7, Facts DEF Retry, WrkGo
    <2>2. Cardinality(Holding') = Cardinality(Holding)
             + (IF cur[w] = NoJob THEN 0 ELSE Is("waiting", Slots) - Is("active", Slots))
      BY <1>7, <2>1, GoesCount DEF Retry, Place
    <2>3. /\ Cardinality(Uncounted') = Cardinality(Uncounted) + Is("idle", UncountedPC) - Is("process", UncountedPC)
          /\ Cardinality(Draining') = Cardinality(Draining) + Is("idle", DrainingPC) - Is("process", DrainingPC)
      BY <1>7, Facts, WrkCount DEF Retry, WrkPC, WrkGo
    <2>4. Counted' = Counted /\ OverCap' = OverCap
      BY <1>7 DEF Retry, workerVars, Counted, OverCap
    <2> QED
      BY <1>7, <2>2, <2>3, <2>4, Sizes, Facts
         DEF Retry, Ledger, SlotLedger, OvershootBound, Is, Slots, UncountedPC, DrainingPC, redisVars
  <1>8. ASSUME NEW w \in Worker, Finish(w) PROVE Ledger'
    <2>1. /\ Cardinality(Uncounted') = Cardinality(Uncounted) + Is("decr", UncountedPC) - Is("process", UncountedPC)
          /\ Cardinality(Draining') = Cardinality(Draining) + Is("decr", DrainingPC) - Is("process", DrainingPC)
      BY <1>8, Facts, WrkCount DEF Finish, WrkPC, WrkGo
    <2>2. Holding' = Holding /\ Counted' = Counted /\ OverCap' = OverCap
      BY <1>8 DEF Finish, workerVars, Holding, Counted, OverCap
    <2> QED
      BY <1>8, <2>1, <2>2, Sizes, Facts
         DEF Finish, Ledger, SlotLedger, OvershootBound, Is, UncountedPC, DrainingPC, redisVars
  <1>9. ASSUME NEW w \in Worker, Ack(w) PROVE Ledger'
    <2>1. wrk[w] = "ack" /\ (cur[w] # NoJob => place[cur[w]] = "released")
      BY <1>9, Facts DEF Ack, WrkGo
    <2>2. Cardinality(Holding') = Cardinality(Holding)
             + (IF cur[w] = NoJob THEN 0 ELSE Is("done", Slots) - Is("released", Slots))
      BY <1>9, <2>1, GoesCount DEF Ack, Place
    <2>3. /\ Cardinality(Uncounted') = Cardinality(Uncounted) + Is("idle", UncountedPC) - Is("ack", UncountedPC)
          /\ Cardinality(Draining') = Cardinality(Draining) + Is("idle", DrainingPC) - Is("ack", DrainingPC)
      BY <1>9, Facts, WrkCount DEF Ack, WrkPC, WrkGo
    <2>4. Counted' = Counted /\ OverCap' = OverCap
      BY <1>9 DEF Ack, workerVars, Counted, OverCap
    <2> QED
      BY <1>9, <2>2, <2>3, <2>4, Sizes, Facts
         DEF Ack, Ledger, SlotLedger, OvershootBound, Is, Slots, UncountedPC, DrainingPC, redisVars
  <1>10. ASSUME NEW w \in Worker, ReleaseReset(w) PROVE Ledger'
    <2>1. /\ Cardinality(Uncounted') = Cardinality(Uncounted) + Is("ack", UncountedPC) - Is("reset", UncountedPC)
          /\ Cardinality(Draining') = Cardinality(Draining) + Is("ack", DrainingPC) - Is("reset", DrainingPC)
      BY <1>10, Facts, WrkCount DEF ReleaseReset, WrkPC, WrkGo
    <2>2. Holding' = Holding /\ Counted' = Counted /\ OverCap' = OverCap
      BY <1>10 DEF ReleaseReset, workerVars, Holding, Counted, OverCap
    <2> QED
      BY <1>10, <2>1, <2>2, Sizes, Facts
         DEF ReleaseReset, Ledger, SlotLedger, OvershootBound, Is, UncountedPC, DrainingPC
  <1>11. ASSUME NEW w \in Worker, DrainEnqueue(w) PROVE Ledger'
    <2>1. Cardinality(Holding') = Cardinality(Holding) + Is("waiting", Slots) - Is("none", Slots)
      BY <1>11, Facts, PlaceCount DEF DrainEnqueue, Place, WrkGo
    <2>2. /\ Cardinality(Uncounted') = Cardinality(Uncounted) + Is("incr", UncountedPC) - Is("enqueue", UncountedPC)
          /\ Cardinality(Draining') = Cardinality(Draining) + Is("incr", DrainingPC) - Is("enqueue", DrainingPC)
      BY <1>11, Facts, WrkCount DEF DrainEnqueue, WrkPC, WrkGo
    <2>3. Counted' = Counted /\ OverCap' = OverCap
      BY <1>11 DEF DrainEnqueue, workerVars, Counted, OverCap
    <2> QED
      BY <1>11, <2>1, <2>2, <2>3, Sizes, Facts
         DEF DrainEnqueue, Ledger, SlotLedger, OvershootBound, Is, Slots, UncountedPC, DrainingPC, redisVars
  <1>12. ASSUME NEW w \in Worker, DrainEnqueueThrows(w) PROVE Ledger'
    <2>1. /\ Cardinality(Uncounted') = Cardinality(Uncounted) + Is("putback", UncountedPC) - Is("enqueue", UncountedPC)
          /\ Cardinality(Draining') = Cardinality(Draining) + Is("putback", DrainingPC) - Is("enqueue", DrainingPC)
      BY <1>12, Facts, WrkCount DEF DrainEnqueueThrows, WrkPC, WrkGo
    <2>2. Holding' = Holding /\ Counted' = Counted /\ OverCap' = OverCap
      BY <1>12 DEF DrainEnqueueThrows, workerVars, Holding, Counted, OverCap
    <2> QED
      BY <1>12, <2>1, <2>2, Sizes, Facts
         DEF DrainEnqueueThrows, Ledger, SlotLedger, OvershootBound, Is, UncountedPC, DrainingPC, redisVars
  <1>13. ASSUME NEW w \in Worker, DrainIncr(w) PROVE Ledger'
    <2>1. /\ Cardinality(Uncounted') = Cardinality(Uncounted) + Is("ack", UncountedPC) - Is("incr", UncountedPC)
          /\ Cardinality(Draining') = Cardinality(Draining) + Is("ack", DrainingPC) - Is("incr", DrainingPC)
      BY <1>13, Facts, WrkCount DEF DrainIncr, WrkPC, WrkGo
    <2>2. Holding' = Holding /\ Counted' = Counted /\ OverCap' = OverCap
      BY <1>13 DEF DrainIncr, workerVars, Holding, Counted, OverCap
    <2> QED
      BY <1>13, <2>1, <2>2, Sizes, Facts
         DEF DrainIncr, Ledger, SlotLedger, OvershootBound, Is, UncountedPC, DrainingPC
  <1>14. ASSUME NEW w \in Worker, DrainPutBack(w) PROVE Ledger'
    <2>1. /\ Cardinality(Uncounted') = Cardinality(Uncounted) + Is("ack", UncountedPC) - Is("putback", UncountedPC)
          /\ Cardinality(Draining') = Cardinality(Draining) + Is("ack", DrainingPC) - Is("putback", DrainingPC)
      BY <1>14, Facts, WrkCount DEF DrainPutBack, WrkPC, WrkGo
    <2>2. Holding' = Holding /\ Counted' = Counted /\ OverCap' = OverCap
      BY <1>14 DEF DrainPutBack, workerVars, Holding, Counted, OverCap
    <2> QED
      BY <1>14, <2>1, <2>2, Sizes, Facts
         DEF DrainPutBack, Ledger, SlotLedger, OvershootBound, Is, UncountedPC, DrainingPC
  <1>15. ASSUME NEW j \in Job, SubmitIncr(j) PROVE Ledger'
    <2> DEFINE to == SubmitDecision(inflight + 1)
    <2>1. to \in SubPC /\ sub[j] = "new" /\ sub' = [sub EXCEPT ![j] = to]
      BY <1>15 DEF SubmitIncr, SubmitDecision, SubGo, SubPC
    <2>2. /\ Cardinality(Counted') = Cardinality(Counted) + Is(to, CountedPC) - Is("new", CountedPC)
          /\ Cardinality(OverCap') = Cardinality(OverCap) + Is(to, OverCapPC) - Is("new", OverCapPC)
      <3> HIDE DEF to
      <3> QED  BY <2>1, Facts, SubCount
    <2>3. /\ Is(to, CountedPC) = 1 /\ Is("new", CountedPC) = 0 /\ Is("new", OverCapPC) = 0
          /\ \/ inflight + 1 <= MaxConcurrent /\ Is(to, OverCapPC) = 0
             \/ Is(to, OverCapPC) = 1
      BY Facts DEF SubmitDecision, Is, CountedPC, OverCapPC
    <2>4. Holding' = Holding /\ Uncounted' = Uncounted /\ Draining' = Draining
      BY <1>15 DEF SubmitIncr, workerVars, Holding, Uncounted, Draining
    <2> HIDE DEF to
    <2> QED
      BY <1>15, <2>2, <2>3, <2>4, Sizes, Facts
         DEF SubmitIncr, Ledger, SlotLedger, OvershootBound
  <1>16. ASSUME NEW j \in Job, SubmitCrash(j) PROVE Ledger'
    <2>1. PICK to \in SubPC :
            /\ sub' = [sub EXCEPT ![j] = to]
            /\ Is(to, CountedPC) = Is(sub[j], CountedPC)
            /\ Is(to, OverCapPC) = Is(sub[j], OverCapPC)
      BY <1>16 DEF SubmitCrash, SubGo, SubPC, Is, CountedPC, OverCapPC
    <2>2. /\ Cardinality(Counted') = Cardinality(Counted) + Is(to, CountedPC) - Is(sub[j], CountedPC)
          /\ Cardinality(OverCap') = Cardinality(OverCap) + Is(to, OverCapPC) - Is(sub[j], OverCapPC)
      BY <2>1, Facts, SubCount
    <2>3. Is(sub[j], CountedPC) \in Nat /\ Is(sub[j], OverCapPC) \in Nat
      BY DEF Is
    <2>4. Holding' = Holding /\ Uncounted' = Uncounted /\ Draining' = Draining
      BY <1>16 DEF SubmitCrash, workerVars, Holding, Uncounted, Draining
    <2> QED
      BY <1>16, <2>1, <2>2, <2>3, <2>4, Sizes, Facts
         DEF SubmitCrash, redisVars, Ledger, SlotLedger, OvershootBound
  <1>17. ASSUME NEW w \in Worker, NEW j \in Job, Take(w, j) PROVE Ledger'
    <2>1. Cardinality(Holding') = Cardinality(Holding) + Is("active", Slots) - Is("waiting", Slots)
      BY <1>17, Facts, PlaceCount DEF Take, Place
    <2>2. /\ Cardinality(Uncounted') = Cardinality(Uncounted) + Is("process", UncountedPC) - Is("idle", UncountedPC)
          /\ Cardinality(Draining') = Cardinality(Draining) + Is("process", DrainingPC) - Is("idle", DrainingPC)
      BY <1>17, Facts, WrkCount DEF Take, WrkPC, WrkGo
    <2>3. Counted' = Counted /\ OverCap' = OverCap
      BY <1>17 DEF Take, workerVars, Counted, OverCap
    <2> QED
      BY <1>17, <2>1, <2>2, <2>3, Sizes, Facts
         DEF Take, Ledger, SlotLedger, OvershootBound, Is, Slots, UncountedPC, DrainingPC, redisVars
  <1>18. ASSUME NEW w \in Worker, ReleaseDecr(w) PROVE Ledger'
    <2>1. PICK to \in {"reset", "lpop"} : wrk[w] = "decr" /\ wrk' = [wrk EXCEPT ![w] = to]
      BY <1>18 DEF ReleaseDecr, WrkGo
    <2>2. Cardinality(Holding') = Cardinality(Holding)
             + (IF cur[w] = NoJob THEN 0 ELSE Is("released", Slots) - Is("active", Slots))
      BY <1>18, <2>1, Facts, GoesCount DEF ReleaseDecr, Place
    <2>3. /\ Cardinality(Uncounted') = Cardinality(Uncounted) + Is(to, UncountedPC) - Is("decr", UncountedPC)
          /\ Cardinality(Draining') = Cardinality(Draining) + Is(to, DrainingPC) - Is("decr", DrainingPC)
      BY <2>1, Facts, WrkCount DEF WrkPC
    <2>4. Counted' = Counted /\ OverCap' = OverCap
      BY <1>18 DEF ReleaseDecr, Counted, OverCap
    <2> QED
      BY <1>18, <2>1, <2>2, <2>3, <2>4, Sizes, Facts
         DEF ReleaseDecr, Ledger, SlotLedger, OvershootBound, Is, Slots, UncountedPC, DrainingPC
  <1>19. ASSUME NEW w \in Worker, DrainPop(w) PROVE Ledger'
    <2>1. PICK to \in {"ack", "enqueue"} : wrk[w] = "lpop" /\ wrk' = [wrk EXCEPT ![w] = to]
      BY <1>19 DEF DrainPop, WrkGo
    <2>2. /\ Cardinality(Uncounted') = Cardinality(Uncounted) + Is(to, UncountedPC) - Is("lpop", UncountedPC)
          /\ Cardinality(Draining') = Cardinality(Draining) + Is(to, DrainingPC) - Is("lpop", DrainingPC)
      BY <2>1, Facts, WrkCount DEF WrkPC
    <2>3. /\ Holding' = Holding /\ Counted' = Counted /\ OverCap' = OverCap
          /\ inflight' = inflight /\ drift' = drift
      BY <1>19 DEF DrainPop, Holding, Counted, OverCap
    <2> QED
      BY <2>1, <2>2, <2>3, Sizes, Facts
         DEF Ledger, SlotLedger, OvershootBound, Is, UncountedPC, DrainingPC
  <1>20. ASSUME NEW w \in Worker, WorkerCrash(w) PROVE Ledger'
    <2>1. Counted' = Counted /\ OverCap' = OverCap /\ inflight' = inflight
      BY <1>20 DEF WorkerCrash, redisVars, Counted, OverCap
    <2>2. Is(wrk[w], UncountedPC) \in Int /\ Stall(w, Is(wrk[w], UncountedPC))
      BY <1>20 DEF WorkerCrash, Is, UncountedPC
    <2>3. /\ Cardinality(Holding') - drift' = Cardinality(Holding) - drift - Is(wrk[w], UncountedPC)
          /\ drift' \in Int
      BY <2>2, StallCount
    <2>4. /\ Cardinality(Uncounted') = Cardinality(Uncounted) + Is("idle", UncountedPC) - Is(wrk[w], UncountedPC)
          /\ Cardinality(Draining') = Cardinality(Draining) + Is("idle", DrainingPC) - Is(wrk[w], DrainingPC)
      BY <1>20, Facts, WrkCount DEF WorkerCrash, WrkPC
    <2>5. /\ Is("idle", UncountedPC) = 0 /\ Is("idle", DrainingPC) = 0
          /\ Is(wrk[w], UncountedPC) \in Nat /\ Is(wrk[w], DrainingPC) \in Nat
      BY DEF Is, UncountedPC, DrainingPC
    <2>6. IsFiniteSet(Holding')
      BY JobAssumption, FS_Subset DEF Holding
    <2>7. Cardinality(Holding') \in Nat
      BY <2>6, FS_CardinalityType
    <2>8. SlotLedger'
      BY <2>1, <2>3, <2>4, <2>5, <2>7, Sizes, Facts DEF Ledger, SlotLedger
    <2>9. OvershootBound'
      BY <2>1, <2>4, <2>5, Sizes, Facts DEF Ledger, OvershootBound
    <2> QED  BY <2>8, <2>9 DEF Ledger
  <1>21. CASE KeyExpires
    <2>1. /\ Holding' = Holding /\ Counted' = Counted /\ OverCap' = OverCap
          /\ Uncounted' = Uncounted /\ Draining' = Draining
      BY <1>21 DEF KeyExpires, workerVars, Holding, Counted, OverCap, Uncounted, Draining
    <2> QED
      BY <1>21, <2>1, Sizes, Facts DEF KeyExpires, Ledger, SlotLedger, OvershootBound
  <1>22. ASSUME NEW w \in Worker, Reject(w) PROVE Ledger'
    <2>1. wrk[w] = "process" /\ (cur[w] # NoJob => place[cur[w]] = "active")
      BY <1>22, Facts DEF Reject, WrkGo
    <2>2. Cardinality(Holding') = Cardinality(Holding)
             + (IF cur[w] = NoJob THEN 0 ELSE Is("done", Slots) - Is("active", Slots))
      BY <1>22, <2>1, GoesCount DEF Reject, Place
    <2>3. /\ Cardinality(Uncounted') = Cardinality(Uncounted) + Is("idle", UncountedPC) - Is("process", UncountedPC)
          /\ Cardinality(Draining') = Cardinality(Draining) + Is("idle", DrainingPC) - Is("process", DrainingPC)
      BY <1>22, Facts, WrkCount DEF Reject, WrkPC, WrkGo
    <2>4. Counted' = Counted /\ OverCap' = OverCap
      BY <1>22 DEF Reject, workerVars, Counted, OverCap
    <2> QED
      BY <1>22, <2>2, <2>3, <2>4, Sizes, Facts
         DEF Reject, Ledger, SlotLedger, OvershootBound, Is, Slots, UncountedPC, DrainingPC, redisVars
  <1>23. ASSUME NEW w \in Worker, Rerun(w) PROVE Ledger'
    <2>1. wrk[w] = "ack" /\ (cur[w] # NoJob => place[cur[w]] = "released")
      BY <1>23, Facts DEF Rerun, WrkGo
    <2>2. Cardinality(Holding') = Cardinality(Holding)
             + (IF cur[w] = NoJob THEN 0 ELSE Is("waiting", Slots) - Is("released", Slots))
      BY <1>23, <2>1, GoesCount DEF Rerun, Place
    <2>3. /\ Cardinality(Uncounted') = Cardinality(Uncounted) + Is("idle", UncountedPC) - Is("ack", UncountedPC)
          /\ Cardinality(Draining') = Cardinality(Draining) + Is("idle", DrainingPC) - Is("ack", DrainingPC)
      BY <1>23, Facts, WrkCount DEF Rerun, WrkPC, WrkGo
    <2>4. Counted' = Counted /\ OverCap' = OverCap
      BY <1>23 DEF Rerun, workerVars, Counted, OverCap
    <2> QED
      BY <1>23, <2>2, <2>3, <2>4, Sizes, Facts
         DEF Rerun, Ledger, SlotLedger, OvershootBound, Is, Slots, UncountedPC, DrainingPC, redisVars
  <1>24. ASSUME NEW w \in Worker, LoseLock(w) PROVE Ledger'
    <2>1. /\ Counted' = Counted /\ OverCap' = OverCap /\ inflight' = inflight
          /\ Uncounted' = Uncounted /\ Draining' = Draining
      BY <1>24 DEF LoseLock, redisVars, Counted, OverCap, Uncounted, Draining
    <2>2. Cardinality(Holding') - drift' = Cardinality(Holding) - drift - 0 /\ drift' \in Int
      BY <1>24, StallCount DEF LoseLock
    <2>3. IsFiniteSet(Holding')
      BY JobAssumption, FS_Subset DEF Holding
    <2>4. Cardinality(Holding') \in Nat
      BY <2>3, FS_CardinalityType
    <2> QED
      BY <2>1, <2>2, <2>4, Sizes, Facts DEF Ledger, SlotLedger, OvershootBound
  <1>25. CASE UNCHANGED vars
    BY <1>25 DEF vars, Ledger, SlotLedger, OvershootBound, Holding, Counted, OverCap, Uncounted, Draining
  <1> QED
    BY <1>1, <1>2, <1>3, <1>4, <1>5, <1>6, <1>7, <1>8, <1>9, <1>10, <1>11, <1>12,
       <1>13, <1>14, <1>15, <1>16, <1>17, <1>18, <1>19, <1>20, <1>21, <1>22, <1>23, <1>24, <1>25
       DEF Next, SubmitStep, ReleaseStep

\* The ledger starts balanced.
LEMMA LedgerInit == Init => Ledger
  <1> SUFFICES ASSUME Init PROVE Ledger
    OBVIOUS
  <1>1. Holding = {} /\ Counted = {} /\ OverCap = {} /\ Uncounted = {} /\ Draining = {}
    BY DEF Init, Holding, Slot, Counted, OverCap, Uncounted, Draining
  <1>2. Cardinality({}) = 0
    BY FS_EmptySet
  <1> QED
    BY <1>1, <1>2, Sizes, CapAssumption DEF Init, Ledger, SlotLedger, OvershootBound

-----------------------------------------------------------------------------
(* The theorems *)

\* Where a job is and how far each call has got always agree.
THEOREM ShapeInvariant == Spec => []Shape
  <1>1. Init => Shape  BY ShapeInit
  <1>2. Shape /\ [Next]_vars => Shape'  BY ShapeNext
  <1> QED  BY <1>1, <1>2, PTL DEF Spec

\* Every variable keeps its type, for any number of jobs, workers and faults.
THEOREM TypeCorrect == Spec => []TypeOK
  <1>1. Shape => TypeOK  BY DEF Shape
  <1> QED  BY <1>1, ShapeInvariant, PTL

\* drainOne(), release() and submitJob() never leave a payload in two places, so
\* no interleaving of theirs makes BullMQ run a submitted job twice.
THEOREM NeverDuplicated == Spec => []NoDuplicate
  <1>1. Shape => NoDuplicate  BY DEF Shape
  <1> QED  BY <1>1, ShapeInvariant, PTL

\* The Redis counter and the slots in use differ by drift alone.
THEOREM LedgerInvariant == Spec => [](SlotLedger /\ OvershootBound)
  <1>1. Init => Ledger  BY LedgerInit
  <1>2. Shape /\ Ledger /\ [Next]_vars => Ledger'  BY LedgerNext
  <1>3. Ledger => SlotLedger /\ OvershootBound  BY DEF Ledger
  <1> QED  BY <1>1, <1>2, <1>3, ShapeInvariant, PTL DEF Spec

\* The jobs a tenant has in BullMQ exceed MAX_CONCURRENT_PER_TENANT by at most
\* one per worker, plus what the counter was made to forget.
THEOREM CapHolds == Spec => []CapSlack
  <1>1. Shape /\ SlotLedger /\ OvershootBound => CapSlack
    BY Sizes, Facts DEF SlotLedger, OvershootBound, CapSlack
  <1> QED  BY <1>1, ShapeInvariant, LedgerInvariant, PTL
-----------------------------------------------------------------------------
(* What a crash loses *)

\* The losses on record are paid for by crashes.
LossBound == budget["crash"] <= Faults["crash"] /\ LostOnlyByCrash

\* No step but a crash loses a payload, and a crash loses one at most.
Kept == Lost' \subseteq Lost /\ budget'["crash"] = budget["crash"]
CostsOne == \E x : /\ Lost' \subseteq Lost \cup {x}
                   /\ budget["crash"] > 0 /\ budget'["crash"] = budget["crash"] - 1

\* A step that touches neither the list, nor the payloads in hand, nor a
\* submission, and takes no job out of BullMQ's sight, loses nothing.
LEMMA KeptAside ==
    ASSUME TypeOK, staging' = staging, held' = held,
           \A j \in Job : sub'[j] \in {"dropped", "staged"} => sub'[j] = sub[j],
           \A j \in Job : place'[j] = "none" => place[j] = "none"
    PROVE  Lost' \subseteq Lost
  BY DEF Lost

\* One case per action that moves a payload or may take it away.
LEMMA LossStep == Shape /\ [Next]_vars => Kept \/ CostsOne
  <1> SUFFICES ASSUME Shape, [Next]_vars PROVE Kept \/ CostsOne
    OBVIOUS
  <1> USE JobAssumption DEF Shape, SubGo, WrkGo, Spend, redisVars, workerVars
  <1>1. ASSUME NEW j \in Job,
               SubmitIncr(j) \/ SubmitExpire(j) \/ SubmitEnqueue(j) \/ SubmitUndo(j)
        PROVE  Kept
    <2>1. \A i \in Job : sub'[i] \in {"dropped", "staged"} => sub'[i] = sub[i]
      BY <1>1 DEF SubmitIncr, SubmitDecision, SubmitExpire, SubmitEnqueue, SubmitUndo, TypeOK
    <2>2. \A i \in Job : place'[i] = "none" => place[i] = "none"
      BY <1>1 DEF SubmitIncr, SubmitExpire, SubmitEnqueue, SubmitUndo, TypeOK
    <2>3. staging' = staging /\ held' = held /\ budget' = budget
      BY <1>1 DEF SubmitIncr, SubmitExpire, SubmitEnqueue, SubmitUndo
    <2> QED  BY <2>1, <2>2, <2>3, KeptAside DEF Kept
  <1>2. ASSUME NEW j \in Job, SubmitEnqueueThrows(j) PROVE Kept
    BY <1>2, KeptAside DEF SubmitEnqueueThrows, Kept, TypeOK, FaultKind
  <1>3. ASSUME NEW j \in Job, SubmitStage(j) PROVE Kept
    <2>1. ~Contains(staging, j)
      BY <1>3 DEF SubmitStage, TypeOK, NoDuplicate
    <2>2. \A y : Contains(staging', y) <=> Contains(staging, y) \/ y = j
      BY <1>3, <2>1, PushTail DEF SubmitStage, TypeOK, NoDuplicate
    <2> QED  BY <1>3, <2>2 DEF SubmitStage, Kept, Lost, TypeOK
  <1>4. ASSUME NEW j \in Job, SubmitCrash(j) PROVE CostsOne
    <2>1. Lost' \subseteq Lost \cup {j}
      BY <1>4 DEF SubmitCrash, Lost, TypeOK
    <2>2. budget["crash"] > 0 /\ budget'["crash"] = budget["crash"] - 1
      BY <1>4 DEF SubmitCrash, TypeOK, FaultKind
    <2> QED  BY <2>1, <2>2 DEF CostsOne
  <1>5. ASSUME NEW j \in Job, Repeat(j) PROVE Kept
    BY <1>5, KeptAside DEF Repeat, Kept, TypeOK, FaultKind
  <1>6. ASSUME NEW w \in Worker, NEW j \in Job, Take(w, j) PROVE Kept
    BY <1>6, KeptAside DEF Take, Kept, TypeOK
  <1>7. ASSUME NEW w \in Worker, Retry(w) PROVE Kept
    <2>1. \A j \in Job : place'[j] = "none" => place[j] = "none"
      BY <1>7, GoesMoves, RunKnown DEF Retry, Place
    <2> QED  BY <1>7, <2>1, KeptAside DEF Retry, Kept, TypeOK, FaultKind
  <1>8. ASSUME NEW w \in Worker, Finish(w) PROVE Kept
    BY <1>8, KeptAside DEF Finish, Kept, TypeOK
  <1>9. ASSUME NEW w \in Worker, Ack(w) PROVE Kept
    <2>1. \A j \in Job : place'[j] = "none" => place[j] = "none"
      BY <1>9, GoesMoves, RunKnown DEF Ack, Place
    <2> QED  BY <1>9, <2>1, KeptAside DEF Ack, Kept, TypeOK, FaultKind
  <1>10. ASSUME NEW w \in Worker, ReleaseDecr(w) PROVE Kept
    <2>1. \A j \in Job : place'[j] = "none" => place[j] = "none"
      BY <1>10, GoesMoves, RunKnown DEF ReleaseDecr, Place
    <2> QED  BY <1>10, <2>1, KeptAside DEF ReleaseDecr, Kept, TypeOK, FaultKind
  <1>11. ASSUME NEW w \in Worker, ReleaseReset(w) PROVE Kept
    BY <1>11, KeptAside DEF ReleaseReset, Kept, TypeOK
  <1>12. ASSUME NEW w \in Worker, DrainPop(w) PROVE Kept
    <2>1. CASE staging = << >>
      BY <1>12, <2>1, KeptAside DEF DrainPop, Kept, TypeOK
    <2>2. CASE staging # << >>
      <3>1. \A y : Contains(Tail(staging), y) <=> Contains(staging, y) /\ y # Head(staging)
        BY <2>2, PopHead DEF TypeOK, NoDuplicate
      <3>2. /\ wrk[w] = "lpop"
            /\ held' = [held EXCEPT ![w] = Head(staging)] /\ staging' = Tail(staging)
            /\ UNCHANGED <<sub, place, budget>>
        BY <1>12, <2>2 DEF DrainPop
      <3>3. held[w] = NoJob /\ held'[w] = Head(staging)
        BY <3>2 DEF TypeOK, Consistent
      <3>4. \A v \in Worker : v # w => held'[v] = held[v]
        BY <3>2 DEF TypeOK
      <3>5. \A v \in Worker, j \in Job : held[v] = j => held'[v] = j
        BY <3>3, <3>4
      <3>6. ASSUME NEW j \in Lost' PROVE j \in Lost
        <4>1. j \in Job /\ sub'[j] = sub[j] /\ place'[j] = place[j]
          BY <3>2 DEF Lost
        <4>2. CASE sub[j] = "dropped"
          BY <4>1, <4>2 DEF Lost
        <4>3. CASE sub[j] # "dropped"
          <5>1. /\ sub[j] = "staged" /\ place[j] = "none"
                /\ ~Contains(Tail(staging), j) /\ \A v \in Worker : held'[v] # j
            BY <3>2, <4>1, <4>3 DEF Lost
          <5>2. j # Head(staging)  BY <3>3, <5>1
          <5>3. ~Contains(staging, j) /\ \A v \in Worker : held[v] # j
            BY <3>1, <3>5, <4>1, <5>1, <5>2
          <5> QED  BY <4>1, <5>1, <5>3 DEF Lost
        <4> QED  BY <4>2, <4>3
      <3> QED  BY <3>2, <3>6 DEF Kept
    <2> QED  BY <2>1, <2>2
  <1>13. ASSUME NEW w \in Worker, DrainEnqueue(w) PROVE Kept
    <2>1. held[w] \in Job /\ place'[held[w]] = "waiting"
      BY <1>13 DEF DrainEnqueue, TypeOK, Consistent
    <2>2. ASSUME NEW j \in Lost' PROVE j \in Lost
      BY <1>13, <2>1, <2>2 DEF DrainEnqueue, Lost, TypeOK
    <2> QED  BY <1>13, <2>2 DEF DrainEnqueue, Kept
  <1>14. ASSUME NEW w \in Worker, DrainEnqueueThrows(w) PROVE Kept
    BY <1>14, KeptAside DEF DrainEnqueueThrows, Kept, TypeOK, FaultKind
  <1>15. ASSUME NEW w \in Worker, DrainIncr(w) PROVE Kept
    BY <1>15, KeptAside DEF DrainIncr, Kept, TypeOK
  <1>16. ASSUME NEW w \in Worker, DrainPutBack(w) PROVE Kept
    <2>1. held[w] \in Job /\ ~Contains(staging, held[w])
      BY <1>16 DEF DrainPutBack, TypeOK, Consistent, NoDuplicate
    <2>2. \A y : Contains(staging', y) <=> Contains(staging, y) \/ y = held[w]
      BY <1>16, <2>1, PushHead DEF DrainPutBack, TypeOK, NoDuplicate
    <2>3. ASSUME NEW j \in Lost' PROVE j \in Lost
      BY <1>16, <2>2, <2>3 DEF DrainPutBack, Lost, TypeOK
    <2> QED  BY <1>16, <2>3 DEF DrainPutBack, Kept
  <1>17. ASSUME NEW w \in Worker, WorkerCrash(w) PROVE CostsOne
    <2>1. PICK u \in Int : Stall(w, u)  BY <1>17 DEF WorkerCrash
    <2>2. \A j \in Job : place'[j] = "none" => place[j] = "none"
      BY <2>1, StallMoves, GoesMoves, RunKnown DEF Place
    <2>3. Lost' \subseteq Lost \cup {held[w]}
      <3> SUFFICES ASSUME NEW j \in Lost', j # held[w] PROVE j \in Lost
        OBVIOUS
      <3>1. sub' = sub /\ staging' = staging /\ held' = [held EXCEPT ![w] = NoJob]
        BY <1>17 DEF WorkerCrash
      <3> QED  BY <2>2, <3>1 DEF Lost, TypeOK
    <2>4. budget["crash"] > 0 /\ budget'["crash"] = budget["crash"] - 1
      BY <1>17 DEF WorkerCrash, TypeOK, FaultKind
    <2> QED  BY <2>3, <2>4 DEF CostsOne
  <1>18. CASE KeyExpires
    BY <1>18, KeptAside DEF KeyExpires, Kept, TypeOK, FaultKind
  <1>19. ASSUME NEW w \in Worker, Reject(w) PROVE Kept
    <2>1. \A j \in Job : place'[j] = "none" => place[j] = "none"
      BY <1>19, GoesMoves, RunKnown DEF Reject, Place
    <2> QED  BY <1>19, <2>1, KeptAside DEF Reject, Kept, TypeOK, FaultKind
  <1>20. ASSUME NEW w \in Worker, Rerun(w) PROVE Kept
    <2>1. \A j \in Job : place'[j] = "none" => place[j] = "none"
      BY <1>20, GoesMoves, RunKnown DEF Rerun, Place
    <2> QED  BY <1>20, <2>1, KeptAside DEF Rerun, Kept, TypeOK, FaultKind
  <1>21. ASSUME NEW w \in Worker, LoseLock(w) PROVE Kept
    <2>1. Stall(w, 0) /\ 0 \in Int  BY <1>21 DEF LoseLock
    <2>2. \A j \in Job : place'[j] = "none" => place[j] = "none"
      BY <2>1, StallMoves, GoesMoves, RunKnown DEF Place
    <2> QED  BY <1>21, <2>2, KeptAside DEF LoseLock, Kept, TypeOK, FaultKind
  <1>22. CASE UNCHANGED vars
    BY <1>22, KeptAside DEF vars, Kept
  <1> QED
    BY <1>1, <1>2, <1>3, <1>4, <1>5, <1>6, <1>7, <1>8, <1>9, <1>10, <1>11, <1>12,
       <1>13, <1>14, <1>15, <1>16, <1>17, <1>18, <1>19, <1>20, <1>21, <1>22
       DEF Next, SubmitStep, ReleaseStep

\* Each step keeps the losses within the crashes spent.
LEMMA LossBoundNext == Shape /\ Shape' /\ LossBound /\ [Next]_vars => LossBound'
  <1> SUFFICES ASSUME Shape, Shape', LossBound, [Next]_vars PROVE LossBound'
    OBVIOUS
  <1>1. IsFiniteSet(Lost) /\ IsFiniteSet(Lost') /\ Faults' = Faults
    BY JobAssumption, FS_Subset DEF Lost
  <1>2. /\ Cardinality(Lost) \in Nat /\ Cardinality(Lost') \in Nat
        /\ budget["crash"] \in Nat /\ Faults["crash"] \in Nat
    BY <1>1, FS_CardinalityType, FaultAssumption DEF Shape, TypeOK, FaultKind
  <1>3. Cardinality(Lost) <= Faults["crash"] - budget["crash"]
    BY DEF LossBound, LostOnlyByCrash
  <1>4. CASE Kept
    <2>1. Cardinality(Lost') <= Cardinality(Lost)
      BY <1>1, <1>4, FS_Subset DEF Kept
    <2> QED  BY <1>2, <1>3, <1>4, <2>1 DEF Kept, LossBound, LostOnlyByCrash
  <1>5. CASE CostsOne
    <2>1. PICK x : /\ Lost' \subseteq Lost \cup {x}
                   /\ budget["crash"] > 0 /\ budget'["crash"] = budget["crash"] - 1
      BY <1>5 DEF CostsOne
    <2>2. IsFiniteSet(Lost \cup {x}) /\ Cardinality(Lost \cup {x}) <= Cardinality(Lost) + 1
      <3>1. /\ IsFiniteSet(Lost \cup {x})
            /\ \/ Cardinality(Lost \cup {x}) = Cardinality(Lost)
               \/ Cardinality(Lost \cup {x}) = Cardinality(Lost) + 1
        BY <1>1, FS_AddElement
      <3> QED  BY <3>1, <1>2
    <2>3. Cardinality(Lost') <= Cardinality(Lost \cup {x})
      BY <2>1, <2>2, FS_Subset
    <2>4. Cardinality(Lost \cup {x}) \in Nat
      BY <2>2, FS_CardinalityType
    <2> QED  BY <1>2, <1>3, <2>1, <2>2, <2>3, <2>4 DEF LossBound, LostOnlyByCrash
  <1> QED  BY <1>4, <1>5, LossStep

\* Nothing is lost at first.
LEMMA LossBoundInit == Init => LossBound
  <1> SUFFICES ASSUME Init PROVE LossBound
    OBVIOUS
  <1>1. Lost = {} /\ budget = Faults /\ Faults["crash"] \in Nat
    BY FaultAssumption DEF Init, Lost, FaultKind
  <1>2. Cardinality({}) = 0
    BY FS_EmptySet
  <1> QED  BY <1>1, <1>2 DEF LossBound, LostOnlyByCrash

\* A payload over the cap disappears only when a process dies with it in hand,
\* and each death costs one payload at most.
THEOREM LossesAreCrashes == Spec => []LostOnlyByCrash
  <1>1. Init => LossBound  BY LossBoundInit
  <1>2. Shape /\ Shape' /\ LossBound /\ [Next]_vars => LossBound'  BY LossBoundNext
  <1>3. LossBound => LostOnlyByCrash  BY DEF LossBound
  <1> QED  BY <1>1, <1>2, <1>3, ShapeInvariant, PTL DEF Spec
-----------------------------------------------------------------------------
(* The atomic admission that the commands amount to *)

\* A job's stage depends on its own two entries.
LEMMA StageAside ==
    ASSUME NEW j \in Job,
           \A i \in Job \ {j} : sub'[i] = sub[i] /\ place'[i] = place[i]
    PROVE  stage' = [stage EXCEPT ![j] = stage'[j]]
  <1>1. \A i \in Job \ {j} : stage'[i] = stage[i]
    BY DEF stage
  <1>2. stage = [i \in Job |-> stage[i]] /\ stage' = [i \in Job |-> stage'[i]]
    BY DEF stage
  <1> QED  BY <1>1, <1>2

\* AdmissionControl counts with the same Cardinality.
LEMMA SameCount == \A S : AC!Cardinality(S) = Cardinality(S)
  BY DEF AC!Cardinality, Cardinality

\* The jobs AdmissionControl counts are those that hold a slot.
LEMMA AdmittedHold == AC!Admitted = Holding
  BY DEF AC!Admitted, Holding, Slot, stage

\* A step that puts j into BullMQ had room for it: the cap holds after the step,
\* when there is one job more.
LEMMA RoomForOne ==
    ASSUME Shape, NEW j \in Job, place[j] = "none", place' = [place EXCEPT ![j] = "waiting"],
           drift' = drift, CapSlack'
    PROVE  AC!Cardinality(AC!Admitted) < MaxConcurrent + Cardinality(Worker) + drift
  <1>1. Cardinality(Holding') = Cardinality(Holding) + Is("waiting", Slots) - Is("none", Slots)
    BY PlaceCount DEF Shape, Place
  <1>2. Cardinality(Holding') = Cardinality(Holding) + 1
    BY <1>1, Sizes DEF Is, Slots
  <1>3. Cardinality(Holding') <= MaxConcurrent + Cardinality(Worker) + drift
    BY DEF CapSlack
  <1> QED  BY <1>2, <1>3, Sizes, Facts, AdmittedHold, SameCount

\* When the counter is set to zero, its error is the slots in use and the
\* submissions under way, at most one for each job.
LEMMA WipeStep ==
    ASSUME Shape, SlotLedger, CapSlack', sub' = sub, place' = place, drift' = drift + inflight
    PROVE  AC!Wipe
  <1>1. stage' = stage  BY DEF stage
  <1>2. Counted \subseteq AC!Pending
    <2>1. \A j \in Counted : place[j] = "none"
      BY DEF Counted, Shape, TypeOK, Consistent
    <2> QED  BY <2>1 DEF Counted, AC!Pending, stage
  <1>3. IsFiniteSet(AC!Pending)
    BY JobAssumption, FS_Subset DEF AC!Pending
  <1>4. Cardinality(Counted) <= Cardinality(AC!Pending) /\ Cardinality(AC!Pending) \in Nat
    BY <1>2, <1>3, FS_Subset, FS_CardinalityType
  <1>5. drift' = Cardinality(Holding) + Cardinality(Counted) - Cardinality(Uncounted)
    BY Sizes, Facts DEF SlotLedger
  <1>6. drift' \in Int /\ drift' <= Cardinality(Holding) + Cardinality(AC!Pending)
    BY <1>4, <1>5, Sizes
  <1>7. Cardinality(Holding) <= MaxConcurrent + Cardinality(Worker) + drift'
    <2>1. Holding' = Holding  BY DEF Holding
    <2> QED  BY <2>1 DEF CapSlack
  <1> QED  BY <1>1, <1>6, <1>7, AdmittedHold, SameCount DEF AC!Wipe

\* A worker's job leaves BullMQ, or comes back to it, with the slot it takes or gives.
LEMMA GoesStep ==
    ASSUME Shape, NEW w \in Worker, NEW p \in {"waiting", "released", "done"},
           NEW u \in {0, 1}, Goes(w, p), sub' = sub, cur[w] # NoJob,
           \/ /\ place[cur[w]] = "active" /\ p = "waiting" /\ drift' = drift
           \/ /\ place[cur[w]] = "active" /\ p # "waiting" /\ drift' \in {drift, drift - 1}
           \/ /\ place[cur[w]] = "released" /\ p = "waiting" /\ drift' = drift + 1 + u
           \/ /\ place[cur[w]] = "released" /\ p # "waiting" /\ drift' = drift + u
    PROVE  [AC!Next]_<<stage, drift>>
  <1> DEFINE j == cur[w]
  <1>1. j \in Job  BY RunKnown
  <1>2. place'[j] = p /\ \A i \in Job \ {j} : sub'[i] = sub[i] /\ place'[i] = place[i]
    BY <1>1, GoesMoves DEF Place
  <1> HIDE DEF j
  <1>3. stage' = [stage EXCEPT ![j] = stage'[j]]
    BY <1>1, <1>2, StageAside
  <1>4. stage[j] = IF place[j] = "active" THEN "admitted" ELSE "finished"
    BY <1>1 DEF stage, j
  <1>5. stage'[j] = IF p = "waiting" THEN "admitted" ELSE "finished"
    BY <1>1, <1>2 DEF stage
  <1>6. drift \in Int  BY Facts
  <1>7. CASE place[j] = "active" /\ p = "waiting"
    <2>1. stage' = stage /\ drift' = drift
      BY <1>1, <1>3, <1>4, <1>5, <1>7 DEF j, stage
    <2> QED  BY <2>1
  <1>8. CASE place[j] = "active" /\ p # "waiting"
    <2>1. AC!Finish(j)
      BY <1>3, <1>4, <1>5, <1>8 DEF j, AC!Finish, AC!Move
    <2> QED  BY <1>1, <2>1 DEF AC!Next
  <1>9. CASE place[j] = "released" /\ p = "waiting"
    <2>1. drift' \in {drift + 1, drift + 2}  BY <1>6, <1>9 DEF j
    <2>2. AC!Again(j)
      BY <1>3, <1>4, <1>5, <1>9, <2>1 DEF AC!Again, AC!Move
    <2> QED  BY <1>1, <2>2 DEF AC!Next
  <1>10. CASE place[j] = "released" /\ p # "waiting"
    <2>1. stage' = stage
      BY <1>1, <1>3, <1>4, <1>5, <1>10 DEF stage
    <2>2. drift' = drift \/ drift' = drift + 1  BY <1>6, <1>10 DEF j
    <2> QED  BY <2>1, <2>2 DEF AC!Next, AC!Slip
  <1> QED  BY <1>7, <1>8, <1>9, <1>10 DEF j

\* A lost run leaves the jobs alone.
LEMMA LostRunStep ==
    ASSUME Shape, sub' = sub, place' = place, drift' \in {drift, drift + 1}
    PROVE  [AC!Next]_<<stage, drift>>
  <1>1. stage' = stage  BY DEF stage
  <1> QED  BY <1>1 DEF AC!Next, AC!Slip

\* Each command is one step of the atomic admission, or none.
LEMMA AdmissionStep ==
    ASSUME Shape, SlotLedger, CapSlack', [Next]_vars
    PROVE  [AC!Next]_<<stage, drift>>
  <1> USE DEF SubGo, WrkGo, redisVars, workerVars
  <1>1. ASSUME NEW j \in Job, SubmitIncr(j) \/ SubmitExpire(j) \/ SubmitUndo(j)
        PROVE  stage' = stage /\ drift' = drift
    <2>1. sub[j] \in {"new", "expire", "undo"} /\ place' = place /\ drift' = drift
      BY <1>1 DEF SubmitIncr, SubmitExpire, SubmitUndo
    <2>2. place[j] = "none"
      BY <2>1 DEF Shape, TypeOK, Consistent, Place
    <2>3. sub'[j] \in {"expire", "enqueue", "undo", "stage"}
          /\ \A i \in Job \ {j} : sub'[i] = sub[i]
      BY <1>1 DEF SubmitIncr, SubmitDecision, SubmitExpire, SubmitUndo, Shape, TypeOK
    <2>4. stage[j] = "new" /\ stage'[j] = "new"
      BY <2>1, <2>2, <2>3 DEF stage
    <2>5. stage' = [stage EXCEPT ![j] = "new"]
      BY <2>1, <2>3, <2>4, StageAside
    <2> QED  BY <2>1, <2>4, <2>5 DEF stage
  <1>2. ASSUME NEW j \in Job, SubmitEnqueue(j) PROVE AC!Next
    <2>1. sub[j] = "enqueue" /\ place[j] = "none" /\ place'[j] = "waiting" /\ drift' = drift
          /\ place' = [place EXCEPT ![j] = "waiting"]
          /\ \A i \in Job \ {j} : sub'[i] = sub[i] /\ place'[i] = place[i]
      BY <1>2 DEF SubmitEnqueue, Shape, TypeOK, Consistent
    <2>2. stage[j] = "new" /\ stage'[j] = "admitted"
      BY <2>1 DEF stage
    <2>3. stage' = [stage EXCEPT ![j] = "admitted"]
      BY <2>1, <2>2, StageAside
    <2>4. AC!Cardinality(AC!Admitted) < MaxConcurrent + Cardinality(Worker) + drift
      BY <2>1, RoomForOne
    <2>5. AC!Admit(j)
      BY <2>1, <2>2, <2>3, <2>4 DEF AC!Admit, AC!Move
    <2> QED  BY <2>5 DEF AC!Next
  <1>3. ASSUME NEW j \in Job, SubmitEnqueueThrows(j) \/ SubmitCrash(j) PROVE AC!Next
    <2>1. /\ sub[j] \in {"expire", "enqueue", "undo", "stage"} /\ place[j] = "none"
          /\ sub'[j] \in {"leaked", "stuck", "dropped"} /\ place'[j] = "none" /\ drift' = drift
          /\ \A i \in Job \ {j} : sub'[i] = sub[i] /\ place'[i] = place[i]
      BY <1>3 DEF SubmitEnqueueThrows, SubmitCrash, Shape, TypeOK, Consistent
    <2>2. stage[j] = "new" /\ stage'[j] = "refused"
      BY <2>1 DEF stage
    <2>3. stage' = [stage EXCEPT ![j] = "refused"]
      BY <2>1, <2>2, StageAside
    <2>4. AC!Refuse(j)
      BY <2>1, <2>2, <2>3 DEF AC!Refuse, AC!Move
    <2> QED  BY <2>4 DEF AC!Next
  <1>4. ASSUME NEW j \in Job, SubmitStage(j) PROVE AC!Next
    <2>1. sub[j] = "stage" /\ sub'[j] = "staged" /\ place[j] = "none" /\ place'[j] = "none"
          /\ drift' = drift /\ \A i \in Job \ {j} : sub'[i] = sub[i] /\ place'[i] = place[i]
      BY <1>4 DEF SubmitStage, Shape, TypeOK, Consistent
    <2>2. stage[j] = "new" /\ stage'[j] = "parked"
      BY <2>1 DEF stage
    <2>3. stage' = [stage EXCEPT ![j] = "parked"]
      BY <2>1, <2>2, StageAside
    <2>4. AC!Park(j)
      BY <2>1, <2>2, <2>3 DEF AC!Park, AC!Move
    <2> QED  BY <2>4 DEF AC!Next
  <1>5. ASSUME NEW j \in Job, Repeat(j) PROVE AC!Next
    <2>1. place[j] = "done" /\ place'[j] = "waiting" /\ drift' = drift + 1
          /\ \A i \in Job \ {j} : sub'[i] = sub[i] /\ place'[i] = place[i]
      BY <1>5 DEF Repeat, Shape, TypeOK
    <2>2. stage[j] = "finished" /\ stage'[j] = "admitted"
      BY <2>1 DEF stage
    <2>3. stage' = [stage EXCEPT ![j] = "admitted"]
      BY <2>1, <2>2, StageAside
    <2>4. AC!Again(j)
      BY <2>1, <2>2, <2>3 DEF AC!Again, AC!Move
    <2> QED  BY <2>4 DEF AC!Next
  <1>6. ASSUME NEW w \in Worker, NEW j \in Job, Take(w, j)
        PROVE  stage' = stage /\ drift' = drift
    <2>1. sub' = sub /\ place[j] = "waiting" /\ place'[j] = "active" /\ drift' = drift
          /\ \A i \in Job \ {j} : place'[i] = place[i]
      BY <1>6 DEF Take, Shape, TypeOK
    <2> QED  BY <2>1 DEF stage
  <1>7. ASSUME NEW w \in Worker,
               Retry(w) \/ Reject(w) \/ ReleaseDecr(w) \/ Ack(w) \/ Rerun(w)
        PROVE  [AC!Next]_<<stage, drift>>
    <2>1. PICK p \in {"waiting", "released", "done"} :
            /\ Goes(w, p) /\ sub' = sub
            /\ \/ wrk[w] \in {"process", "decr"} /\ p = "waiting" /\ drift' = drift
               \/ /\ wrk[w] \in {"process", "decr"} /\ p # "waiting"
                  /\ cur[w] # NoJob => drift' \in {drift, drift - 1}
                  /\ cur[w] = NoJob => drift' \in {drift, drift + 1}
               \/ wrk[w] = "ack" /\ p = "done" /\ drift' = drift
               \/ wrk[w] = "ack" /\ p = "waiting" /\ cur[w] # NoJob /\ drift' = drift + 1
      BY <1>7, Facts DEF Retry, Reject, ReleaseDecr, Ack, Rerun
    <2>2. CASE cur[w] = NoJob
      BY <2>1, <2>2, GoesMoves, LostRunStep DEF Place
    <2>3. CASE cur[w] # NoJob
      <3>1. place[cur[w]] = IF wrk[w] \in {"process", "decr"} THEN "active" ELSE "released"
        BY <2>3, RunKnown
      <3>2. 0 \in {0, 1} /\ drift + 0 = drift /\ drift + 1 + 0 = drift + 1  BY Facts
      <3> QED  BY <2>1, <2>3, <3>1, <3>2, GoesStep
    <2> QED  BY <2>2, <2>3
  <1>8. ASSUME NEW w \in Worker, DrainEnqueue(w) PROVE AC!Next
    <2>1. wrk[w] = "enqueue" /\ held[w] \in Job /\ sub[held[w]] = "staged"
          /\ place[held[w]] = "none" /\ place'[held[w]] = "waiting" /\ drift' = drift
          /\ place' = [place EXCEPT ![held[w]] = "waiting"]
          /\ \A i \in Job \ {held[w]} : sub'[i] = sub[i] /\ place'[i] = place[i]
      BY <1>8 DEF DrainEnqueue, Shape, TypeOK, Consistent, NoDuplicate
    <2>2. stage[held[w]] = "parked" /\ stage'[held[w]] = "admitted"
      BY <2>1 DEF stage
    <2>3. stage' = [stage EXCEPT ![held[w]] = "admitted"]
      BY <2>1, <2>2, StageAside
    <2>4. AC!Cardinality(AC!Admitted) < MaxConcurrent + Cardinality(Worker) + drift
      BY <2>1, RoomForOne
    <2>5. AC!Admit(held[w])
      BY <2>1, <2>2, <2>3, <2>4 DEF AC!Admit, AC!Move
    <2> QED  BY <2>1, <2>5 DEF AC!Next
  <1>9. ASSUME NEW w \in Worker,
               \/ Finish(w) \/ DrainPop(w) \/ DrainEnqueueThrows(w)
               \/ DrainIncr(w) \/ DrainPutBack(w)
        PROVE  stage' = stage /\ drift' = drift
    <2>1. sub' = sub /\ place' = place /\ drift' = drift
      BY <1>9 DEF Finish, DrainPop, DrainEnqueueThrows, DrainIncr, DrainPutBack
    <2> QED  BY <2>1 DEF stage
  <1>10. ASSUME NEW w \in Worker, ReleaseReset(w) PROVE AC!Next
    BY <1>10, WipeStep DEF ReleaseReset, AC!Next
  <1>11. ASSUME NEW w \in Worker, NEW u \in {0, 1}, Stall(w, u), sub' = sub,
                u = 0 \/ wrk[w] = "incr"
         PROVE  [AC!Next]_<<stage, drift>>
    <2>1. CASE cur[w] = NoJob
      <3>1. place' = place /\ drift' = drift + u  BY <2>1, <1>11, StallMoves
      <3>2. drift' \in {drift, drift + 1}  BY <3>1, Facts
      <3> QED  BY <1>11, <3>1, <3>2, LostRunStep
    <2>2. CASE cur[w] # NoJob
      <3>1. PICK p \in {"waiting", "done"} :
              Goes(w, p) /\ drift' = drift + Slot(p) - Slot(place[cur[w]]) + u
        BY <2>2, <1>11, StallMoves
      <3>2. place[cur[w]] \in {"active", "released"}  BY <2>2, RunKnown
      <3>3. CASE place[cur[w]] = "released"
        <4>1. drift' = (IF p = "waiting" THEN drift + 1 + u ELSE drift + u)
          BY <3>1, <3>3, Facts DEF Slot
        <4> QED  BY <1>11, <2>2, <3>1, <3>3, <4>1, GoesStep
      <3>4. CASE place[cur[w]] = "active"
        <4>1. u = 0  BY <1>11, <2>2, <3>4, RunKnown
        <4>2. drift' = (IF p = "waiting" THEN drift ELSE drift - 1)
          BY <3>1, <3>4, <4>1, Facts DEF Slot
        <4> QED  BY <1>11, <2>2, <3>1, <3>4, <4>2, GoesStep
      <3> QED  BY <3>2, <3>3, <3>4
    <2> QED  BY <2>1, <2>2
  <1>12. ASSUME NEW w \in Worker, WorkerCrash(w) PROVE [AC!Next]_<<stage, drift>>
    BY <1>11, <1>12 DEF WorkerCrash
  <1>13. ASSUME NEW w \in Worker, LoseLock(w) PROVE [AC!Next]_<<stage, drift>>
    BY <1>11, <1>13 DEF LoseLock
  <1>14. CASE KeyExpires
    BY <1>14, WipeStep DEF KeyExpires, AC!Next
  <1>15. CASE UNCHANGED vars
    BY <1>15 DEF vars, stage
  <1> QED
    BY <1>1, <1>2, <1>3, <1>4, <1>5, <1>6, <1>7, <1>8, <1>9, <1>10, <1>12, <1>13, <1>14, <1>15
       DEF Next, SubmitStep, ReleaseStep

\* The Redis commands of submitJob() and release(), of any number of processes and
\* through every fault, implement the atomic admission.
THEOREM AdmissionImplemented == Spec => ImplementsAdmission
  <1>1. Init => AC!Init
    BY DEF Init, AC!Init, stage
  <1>2. Shape /\ SlotLedger /\ CapSlack' /\ [Next]_vars => [AC!Next]_<<stage, drift>>
    BY AdmissionStep
  <1> QED
    BY <1>1, <1>2, ShapeInvariant, LedgerInvariant, CapHolds, PTL
       DEF Spec, ImplementsAdmission, AC!Spec
=============================================================================
