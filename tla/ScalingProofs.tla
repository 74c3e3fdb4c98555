---------------------------- MODULE ScalingProofs ----------------------------
(***************************************************************************)
(* Proofs about Scaling for every set of jobs, any number of ticks under   *)
(* way at once, and every minimum, maximum, cooldown and scan window.      *)
(***************************************************************************)
EXTENDS Scaling, FiniteSetTheorems, SequenceTheorems, TLAPS

-----------------------------------------------------------------------------
(* The registry's list: what push() and pop() do to it *)

\* spawnWorker() pushes a worker that is not in the list.
LEMMA Push ==
    ASSUME NEW S, NEW s \in Seq(S), NEW x \in S, IsInjective(s), x \notin ToSet(s)
    PROVE  /\ Append(s, x) \in Seq(S) /\ Len(Append(s, x)) = Len(s) + 1
           /\ ToSet(Append(s, x)) = ToSet(s) \cup {x}
           /\ IsInjective(Append(s, x))
  <1> DEFINE t == Append(s, x)
  <1>1. /\ t \in Seq(S) /\ Len(t) = Len(s) + 1 /\ Len(s) \in Nat
        /\ DOMAIN t = 1 .. Len(s) + 1 /\ DOMAIN s = 1 .. Len(s)
        /\ t[Len(s) + 1] = x /\ \A i \in 1 .. Len(s) : t[i] = s[i]
    OBVIOUS
  <1> HIDE DEF t
  <1>2. \A i \in DOMAIN t : i \in DOMAIN s \/ i = Len(s) + 1
    BY <1>1
  <1>3. ToSet(t) = ToSet(s) \cup {x}
    <2>1. ToSet(t) \subseteq ToSet(s) \cup {x}  BY <1>1, <1>2 DEF ToSet
    <2>2. ToSet(s) \subseteq ToSet(t)  BY <1>1 DEF ToSet
    <2>3. x \in ToSet(t)
      <3>1. Len(s) + 1 \in DOMAIN t  BY <1>1
      <3> QED  BY <3>1, <1>1 DEF ToSet
    <2> QED  BY <2>1, <2>2, <2>3
  <1>4. IsInjective(t)
    <2>1. \A i \in DOMAIN s : s[i] # x  BY DEF ToSet
    <2> QED  BY <1>1, <1>2, <2>1 DEF IsInjective
  <1> QED  BY <1>1, <1>3, <1>4 DEF t

\* terminateWorker() pops the last one.
LEMMA Pop ==
    ASSUME NEW S, NEW s \in Seq(S), Len(s) > 0, IsInjective(s)
    PROVE  /\ Front(s) \in Seq(S) /\ Len(Front(s)) = Len(s) - 1
           /\ Last(s) \in S /\ Last(s) \notin ToSet(Front(s))
           /\ ToSet(s) = ToSet(Front(s)) \cup {Last(s)}
           /\ IsInjective(Front(s))
  <1> DEFINE f == Front(s)
  <1>1. /\ f \in Seq(S) /\ Len(f) = Len(s) - 1 /\ Len(s) \in Nat
        /\ DOMAIN f = 1 .. Len(s) - 1 /\ DOMAIN s = 1 .. Len(s)
        /\ \A i \in 1 .. Len(s) - 1 : f[i] = s[i]
    <2>1. Len(s) \in Nat /\ DOMAIN s = 1 .. Len(s) /\ \A i \in 1 .. Len(s) : s[i] \in S
      OBVIOUS
    <2>2. f = SubSeq(s, 1, Len(s) - 1) /\ 1 \in Int /\ Len(s) - 1 \in Int
      BY <2>1 DEF Front
    <2>3. \A i \in 1 .. Len(s) - 1 : s[i] \in S
      BY <2>1
    <2>4. /\ f \in Seq(S)
          /\ Len(f) = IF 1 <= Len(s) - 1 THEN Len(s) - 1 - 1 + 1 ELSE 0
          /\ \A i \in 1 .. Len(s) - 1 - 1 + 1 : f[i] = s[1 + i - 1]
      BY ONLY <2>2, <2>3, SubSeqProperties
    <2> HIDE DEF f
    <2>5. Len(f) = Len(s) - 1 /\ DOMAIN f = 1 .. Len(f)
      <3>1. DOMAIN f = 1 .. Len(f)  BY ONLY <2>4, LenProperties
      <3>2. Len(s) - 1 - 1 + 1 = Len(s) - 1 /\ (~(1 <= Len(s) - 1) => Len(s) - 1 = 0)  BY <2>1
      <3> QED  BY <2>4, <3>1, <3>2
    <2>6. ASSUME NEW i \in 1 .. Len(s) - 1  PROVE f[i] = s[i]
      <3>1. i \in 1 .. Len(s) - 1 - 1 + 1 /\ 1 + i - 1 = i  BY <2>1
      <3> QED  BY <2>4, <3>1
    <2>7. DOMAIN f = 1 .. Len(s) - 1  BY <2>5
    <2> QED  BY <2>1, <2>4, <2>5, <2>6, <2>7
  <1>2. Last(s) = s[Len(s)] /\ Len(s) \in DOMAIN s /\ Last(s) \in S
    BY <1>1 DEF Last
  <1> HIDE DEF f
  <1>3. \A i \in DOMAIN s : i \in DOMAIN f \/ i = Len(s)
    BY <1>1
  <1>4. DOMAIN f \subseteq DOMAIN s /\ Len(s) \notin DOMAIN f
    BY <1>1
  <1>5. Last(s) \notin ToSet(f)
    BY <1>1, <1>2, <1>4 DEF ToSet, IsInjective
  <1>6. ToSet(s) = ToSet(f) \cup {Last(s)}
    <2>1. ToSet(s) \subseteq ToSet(f) \cup {Last(s)}  BY <1>1, <1>2, <1>3 DEF ToSet
    <2>2. ToSet(f) \subseteq ToSet(s)  BY <1>1, <1>4 DEF ToSet
    <2>3. Last(s) \in ToSet(s)  BY <1>2 DEF ToSet
    <2> QED  BY <2>1, <2>2, <2>3
  <1>7. IsInjective(f)
    BY <1>1, <1>4 DEF IsInjective
  <1> QED  BY <1>1, <1>2, <1>5, <1>6, <1>7 DEF f

\* A list has no more members than places.
LEMMA Members ==
    ASSUME NEW S, NEW s \in Seq(S)
    PROVE  IsFiniteSet(ToSet(s)) /\ Cardinality(ToSet(s)) <= Len(s)
  <1>1. DOMAIN s = 1 .. Len(s) /\ Len(s) \in Nat
    OBVIOUS
  <1>2. s \in Surjection(1 .. Len(s), ToSet(s))
    BY <1>1 DEF Surjection, ToSet
  <1>3. IsFiniteSet(1 .. Len(s)) /\ Cardinality(1 .. Len(s)) = Len(s)
    BY <1>1, FS_Interval
  <1> QED  BY <1>2, <1>3, FS_Surjection

-----------------------------------------------------------------------------
(* The inductive invariant *)

Chasing == {t \in Tick : pc[t] = "closing"}

\* Who is in the pool and who is on the way out: each closing worker has a tick of its
\* own that waits for it.
Roster ==
    /\ IsInjective(pool)
    /\ Pooled \cap closing = {}
    /\ \A t \in Chasing : victim[t] \in closing
    /\ \A w \in closing : \E t \in Chasing : victim[t] = w
    /\ \A t, u \in Chasing : victim[t] = victim[u] => t = u
    /\ Len(pool) <= MaxWorkers
    /\ Base >= MinWorkers => Len(pool) >= MinWorkers

\* Who holds which job, and how often a job was taken.
Hands ==
    /\ \A w \in Worker : hold[w] # None => w \in Pooled \cup closing /\ job[hold[w]] = "active"
    /\ \A v, w \in Worker : hold[v] = hold[w] /\ hold[v] # None => v = w
    /\ \A j \in Job : job[j] = "active" => \E w \in Worker : hold[w] = j
    /\ \A j \in Job : runs[j] <= crashes + 1 /\ (job[j] \in {"absent", "queued"} => runs[j] <= crashes)

\* lastScaleAt is no younger than the last scale event, unless a tick is still to write
\* it, and then the tick's "now" is the time of that event.
Pace ==
    ~overlap =>
        /\ \A t, u \in Tick : Acting(t) /\ Acting(u) => t = u
        /\ \A t \in Tick : Acting(t) => sinceNow[t] = sinceScale
        /\ (\A t \in Tick : ~Acting(t)) => sinceStamp <= sinceScale

IInv == TypeOK /\ Roster /\ Hands /\ Pace

\* One closing worker per tick at most.
LEMMA ClosingBound ==
    ASSUME TypeOK, Roster
    PROVE  /\ IsFiniteSet(closing) /\ IsFiniteSet(Chasing)
           /\ Cardinality(closing) <= Cardinality(Chasing)
           /\ Cardinality(Chasing) <= Cardinality(Tick)
  <1> DEFINE f == [t \in Chasing |-> victim[t]]
  <1>1. IsFiniteSet(Chasing) /\ Cardinality(Chasing) <= Cardinality(Tick)
    BY TickAssumption, FS_Subset DEF Chasing
  <1>2. f \in Surjection(Chasing, closing)
    BY DEF Surjection, Roster
  <1> QED  BY <1>1, <1>2, FS_Surjection

\* There is always a number for one more worker.
LEMMA Room ==
    ASSUME TypeOK, Roster, Len(pool) < MaxWorkers
    PROVE  \E w \in Worker : w \notin Pooled \cup closing
  <1> SUFFICES ASSUME Worker \subseteq Pooled \cup closing PROVE FALSE
    OBVIOUS
  <1>1. Len(pool) \in Nat /\ MaxWorkers \in Nat /\ Cardinality(Tick) \in Nat
    BY BoundAssumption, TickAssumption, FS_CardinalityType DEF TypeOK
  <1>2. IsFiniteSet(Pooled) /\ Cardinality(Pooled) <= Len(pool)
    BY Members DEF TypeOK, Pooled
  <1>3. IsFiniteSet(closing) /\ Cardinality(closing) <= Cardinality(Tick)
    <2>1. Cardinality(closing) \in Nat /\ Cardinality(Chasing) \in Nat
      BY ClosingBound, FS_CardinalityType
    <2> QED  BY <1>1, <2>1, ClosingBound
  <1>4. Cardinality(Pooled) \in Nat /\ Cardinality(closing) \in Nat
    BY <1>2, <1>3, FS_CardinalityType
  <1>5. /\ IsFiniteSet(Pooled \cup closing)
        /\ Cardinality(Pooled \cup closing) <= Cardinality(Pooled) + Cardinality(closing)
    <2>1. /\ IsFiniteSet(Pooled \cup closing)
          /\ Cardinality(Pooled \cup closing)
               = Cardinality(Pooled) + Cardinality(closing) - Cardinality(Pooled \cap closing)
      BY <1>2, <1>3, FS_Union
    <2>2. Cardinality(Pooled \cap closing) \in Nat
      BY <1>2, FS_Intersection, FS_CardinalityType
    <2> QED  BY <1>4, <2>1, <2>2
  <1>6. Cardinality(Worker) = MaxWorkers + Cardinality(Tick)
    BY <1>1, FS_Interval DEF Worker
  <1>7. Cardinality(Worker) <= Cardinality(Pooled \cup closing)
    BY <1>5, FS_Subset
  <1>8. Cardinality(Pooled \cup closing) \in Nat
    BY <1>5, FS_CardinalityType
  <1> QED  BY <1>1, <1>2, <1>3, <1>4, <1>5, <1>6, <1>7, <1>8

\* The workers of a process that has just started.
LEMMA Booted ==
    /\ Boot \in Seq(Worker) /\ Len(Boot) = Base /\ IsInjective(Boot)
    /\ \A x : x \in ToSet(Boot) => x \in Worker
  <1>1. Base \in Nat /\ 1 .. Base \subseteq Worker
    <2>1. Cardinality(Tick) \in Nat  BY TickAssumption, FS_CardinalityType
    <2> QED  BY <2>1, BoundAssumption DEF Worker
  <1>2. Boot \in [1 .. Base -> Worker] /\ \A i \in 1 .. Base : Boot[i] = i
    BY <1>1 DEF Boot
  <1>3. Boot \in Seq(Worker) /\ Len(Boot) = Base
    BY <1>1, <1>2, IsASeq
  <1> QED  BY <1>2, <1>3 DEF IsInjective, ToSet

\* The process's bound on crashes is a number.
LEMMA CrashBound ==
    ASSUME TypeOK
    PROVE  load.crashes \in Nat /\ crashes \in Nat
  BY LoadAssumption DEF TypeOK

-----------------------------------------------------------------------------
(* The steps preserve it, part by part *)

LEMMA InitInv == Init => IInv
  <1> SUFFICES ASSUME Init PROVE IInv
    OBVIOUS
  <1>1. TypeOK
    <2>1. load.crashes \in Nat  BY LoadAssumption DEF Init
    <2>2. /\ load \in Loads /\ crashes \in 0 .. load.crashes /\ timer \in 0 .. Poll
          /\ sinceStamp \in 0 .. Cooldown /\ sinceScale \in 0 .. Cooldown
          /\ sinceNow \in [Tick -> 0 .. Cooldown] /\ overlap \in BOOLEAN
      <3>1. 0 \in 0 .. Cooldown /\ Cooldown \in 0 .. Cooldown /\ Poll \in 0 .. Poll
            /\ 0 \in 0 .. load.crashes
        BY <2>1, BoundAssumption
      <3> QED  BY <3>1 DEF Init
    <2>3. /\ pool \in Seq(Worker) /\ closing \subseteq Worker
          /\ hold \in [Worker -> Job \cup {None}] /\ victim \in [Tick -> Worker \cup {0}]
      BY Booted DEF Init
    <2>4. /\ job \in [Job -> {"absent", "queued", "active", "done"}] /\ runs \in [Job -> Nat]
          /\ high \subseteq Job /\ old \subseteq Job /\ scan \subseteq Job
          /\ pc \in [Tick -> {"idle", "asking", "decide", "closing", "stamp"}]
          /\ counts \in [Tick -> [active : Nat, backlog : Nat]]
      BY DEF Init
    <2> QED  BY <2>2, <2>3, <2>4 DEF TypeOK
  <1>2. Roster
    BY Booted, BoundAssumption DEF Init, Roster, Pooled, Chasing
  <1>3. Hands
    BY DEF Init, Hands
  <1>4. Pace
    BY BoundAssumption DEF Init, Pace, Acting
  <1> QED  BY <1>1, <1>2, <1>3, <1>4 DEF IInv

\* What a decision does to the registry, whichever way it goes.
LEMMA Decided ==
    ASSUME TypeOK, Roster, NEW t \in Tick, Decide(t)
    PROVE  \/ /\ Len(pool) < MaxWorkers /\ sinceStamp >= Cooldown
              /\ pc' = [pc EXCEPT ![t] = "stamp"] /\ sinceScale' = 0
              /\ \E new \in Worker :
                    /\ new \notin Pooled \cup closing
                    /\ pool' \in Seq(Worker) /\ IsInjective(pool')
                    /\ Pooled' = Pooled \cup {new}
              /\ Len(pool') = Len(pool) + 1
              /\ UNCHANGED <<closing, hold, victim>>
           \/ /\ Len(pool) > MinWorkers /\ sinceStamp >= Cooldown
              /\ pc' = [pc EXCEPT ![t] = "closing"] /\ sinceScale' = 0
              /\ \E last \in Worker :
                    /\ pool' \in Seq(Worker) /\ IsInjective(pool')
                    /\ last \notin Pooled' /\ Pooled = Pooled' \cup {last}
                    /\ closing' = closing \cup {last}
                    /\ victim' = [victim EXCEPT ![t] = last]
              /\ Len(pool') = Len(pool) - 1
              /\ UNCHANGED hold
           \/ /\ pc' = [pc EXCEPT ![t] = "idle"]
              /\ UNCHANGED <<poolVars, victim, sinceScale>>
  <1>1. CASE WantsMore(t) /\ Go(t, "decide", "stamp") /\ Spawn /\ victim' = victim /\ sinceScale' = 0
    <2> DEFINE new == CHOOSE w \in Worker : w \notin Pooled \cup closing
    <2>1. Len(pool) < MaxWorkers /\ sinceStamp >= Cooldown
      BY <1>1 DEF WantsMore
    <2>2. new \in Worker /\ new \notin Pooled \cup closing
      BY <2>1, Room
    <2>3. pool' = Append(pool, new) /\ UNCHANGED <<closing, hold>>
      BY <1>1 DEF Spawn
    <2> HIDE DEF new
    <2>4. pool \in Seq(Worker) /\ IsInjective(pool) /\ new \notin ToSet(pool)
      BY <2>2 DEF TypeOK, Roster, Pooled
    <2>5. /\ pool' \in Seq(Worker) /\ IsInjective(pool') /\ Len(pool') = Len(pool) + 1
          /\ Pooled' = Pooled \cup {new}
      BY <2>2, <2>3, <2>4, Push DEF Pooled
    <2> QED  BY <1>1, <2>1, <2>2, <2>3, <2>5 DEF Go
  <1>2. CASE WantsFewer(t) /\ Go(t, "decide", "closing") /\ Terminate(t) /\ sinceScale' = 0
    <2>1. Len(pool) > MinWorkers /\ sinceStamp >= Cooldown
      BY <1>2 DEF WantsFewer
    <2>2. pool \in Seq(Worker) /\ IsInjective(pool) /\ Len(pool) > 0
      BY <2>1, BoundAssumption DEF TypeOK, Roster
    <2>3. /\ pool' = Front(pool) /\ closing' = closing \cup {Last(pool)} /\ hold' = hold
          /\ victim' = [victim EXCEPT ![t] = Last(pool)]
      BY <1>2 DEF Terminate
    <2>4. /\ pool' \in Seq(Worker) /\ IsInjective(pool') /\ Len(pool') = Len(pool) - 1
          /\ Last(pool) \in Worker /\ Last(pool) \notin Pooled'
          /\ Pooled = Pooled' \cup {Last(pool)}
      BY <2>2, <2>3, Pop DEF Pooled
    <2> QED  BY <1>2, <2>1, <2>3, <2>4 DEF Go
  <1>3. CASE Go(t, "decide", "idle") /\ UNCHANGED <<poolVars, victim, sinceScale>>
    BY <1>3 DEF Go
  <1> QED  BY <1>1, <1>2, <1>3 DEF Decide

LEMMA TypeStep ==
    ASSUME TypeOK, Roster, [Next]_vars
    PROVE  TypeOK'
  <1> USE DEF TypeOK, jobVars, poolVars, tickVars
  <1>1. ASSUME NEW j \in Job, Post(j)  PROVE TypeOK'
    BY <1>1 DEF Post
  <1>2. ASSUME NEW j \in Job, Age(j)  PROVE TypeOK'
    BY <1>2 DEF Age
  <1>3. ASSUME NEW j \in Job, Promote(j)  PROVE TypeOK'
    BY <1>3 DEF Promote
  <1>4. ASSUME NEW w \in Worker, Finish(w)  PROVE TypeOK'
    BY <1>4 DEF Finish
  <1>5. ASSUME NEW w \in Worker, NEW j \in Job, Take(w, j)  PROVE TypeOK'
    <2>1. runs' \in [Job -> Nat]
      BY <1>5 DEF Take
    <2>2. /\ job' \in [Job -> {"absent", "queued", "active", "done"}]
          /\ hold' \in [Worker -> Job \cup {None}]
      BY <1>5 DEF Take
    <2> QED  BY <1>5, <2>1, <2>2 DEF Take
  <1>6. ASSUME NEW t \in Tick, Count(t)  PROVE TypeOK'
    <2>1. Cardinality(Jobs("active")) \in Nat /\ Cardinality(Jobs("queued")) \in Nat
      <3>1. Jobs("active") \subseteq Job /\ Jobs("queued") \subseteq Job  BY DEF Jobs
      <3> QED  BY <3>1, JobAssumption, FS_Subset, FS_CardinalityType
    <2>2. counts' \in [Tick -> [active : Nat, backlog : Nat]]
      BY <1>6, <2>1 DEF Count
    <2> QED  BY <1>6, <2>2 DEF Count, Go
  <1>7. ASSUME NEW t \in Tick, Decide(t)  PROVE TypeOK'
    <2>1. /\ UNCHANGED <<load, job, high, old, runs, scan, sinceStamp, timer, crashes>>
          /\ sinceNow' = [sinceNow EXCEPT ![t] = 0]
          /\ counts' = [counts EXCEPT ![t] = [active |-> 0, backlog |-> 0]]
          /\ overlap' \in BOOLEAN
      BY <1>7 DEF Decide
    <2>2. /\ pool' \in Seq(Worker) /\ closing' \subseteq Worker
          /\ hold' = hold /\ victim' \in [Tick -> Worker \cup {0}]
          /\ pc' \in [Tick -> {"idle", "asking", "decide", "closing", "stamp"}]
          /\ sinceScale' \in 0 .. Cooldown
      <3>1. Pooled \subseteq Worker /\ 0 \in 0 .. Cooldown
        BY BoundAssumption DEF Pooled, ToSet
      <3> QED  BY <1>7, <3>1, Decided
    <2>3. sinceNow' \in [Tick -> 0 .. Cooldown] /\ counts' \in [Tick -> [active : Nat, backlog : Nat]]
      BY <2>1, BoundAssumption
    <2> QED  BY <2>1, <2>2, <2>3
  <1>8. ASSUME NEW t \in Tick, Close(t)  PROVE TypeOK'
    BY <1>8 DEF Close, Go
  <1>9. ASSUME NEW t \in Tick, Stamp(t)  PROVE TypeOK'
    BY <1>9 DEF Stamp, Go
  <1>10. CASE Advance
    <2>1. timer' \in 0 .. Poll /\ sinceStamp' \in 0 .. Cooldown /\ sinceScale' \in 0 .. Cooldown
      BY <1>10, BoundAssumption DEF Advance
    <2>2. sinceNow' \in [Tick -> 0 .. Cooldown]
      <3>1. ASSUME NEW t \in Tick  PROVE sinceNow'[t] \in 0 .. Cooldown
        BY <1>10, BoundAssumption DEF Advance
      <3> QED  BY <1>10, <3>1 DEF Advance
    <2> QED  BY <1>10, <2>1, <2>2 DEF Advance
  <1>11. CASE StartTick
    <2>1. timer' \in 0 .. Poll
      BY <1>11, BoundAssumption DEF StartTick
    <2> QED  BY <1>11, <2>1 DEF StartTick, Go
  <1>12. CASE Scan
    <2>1. scan' \subseteq Job
      BY <1>12 DEF Scan, Jobs
    <2> QED  BY <1>12, <2>1 DEF Scan
  <1>13. CASE Restart
    <2>1. /\ crashes' \in 0 .. load.crashes /\ timer' \in 0 .. Poll
          /\ sinceStamp' \in 0 .. Cooldown /\ sinceScale' \in 0 .. Cooldown
          /\ 0 \in 0 .. Cooldown
      BY <1>13, CrashBound, BoundAssumption DEF Restart
    <2>2. job' \in [Job -> {"absent", "queued", "active", "done"}]
      BY <1>13 DEF Restart
    <2>3. pool' \in Seq(Worker) /\ closing' \subseteq Worker
      BY <1>13, Booted DEF Restart
    <2>4. /\ hold' \in [Worker -> Job \cup {None}] /\ victim' \in [Tick -> Worker \cup {0}]
          /\ pc' \in [Tick -> {"idle", "asking", "decide", "closing", "stamp"}]
          /\ counts' \in [Tick -> [active : Nat, backlog : Nat]]
          /\ sinceNow' \in [Tick -> 0 .. Cooldown]
          /\ scan' \subseteq Job
      BY <1>13, <2>1 DEF Restart
    <2> QED  BY <1>13, <2>1, <2>2, <2>3, <2>4 DEF Restart
  <1>14. CASE UNCHANGED vars
    BY <1>14 DEF vars
  <1> QED  BY <1>1, <1>2, <1>3, <1>4, <1>5, <1>6, <1>7, <1>8, <1>9, <1>10, <1>11, <1>12, <1>13,
              <1>14 DEF Next, TickStep

\* Only a decision, the end of a close() and a restart touch the roster.
LEMMA RosterStep ==
    ASSUME TypeOK, Roster, [Next]_vars
    PROVE  Roster'
  <1>1. ASSUME UNCHANGED <<pool, closing, victim>>, Chasing' = Chasing  PROVE Roster'
    BY <1>1 DEF Roster, Pooled, Chasing
  <1>2. ASSUME UNCHANGED <<pool, closing, victim, pc>>  PROVE Roster'
    BY <1>1, <1>2 DEF Chasing
  <1>3. ASSUME NEW j \in Job, Post(j) \/ Age(j) \/ Promote(j)  PROVE Roster'
    BY <1>2, <1>3 DEF Post, Age, Promote, poolVars, tickVars
  <1>4. ASSUME NEW w \in Worker, Finish(w) \/ \E j \in Job : Take(w, j)  PROVE Roster'
    BY <1>2, <1>4 DEF Finish, Take, tickVars
  <1>5. ASSUME NEW t \in Tick, Count(t)  PROVE Roster'
    <2>1. Chasing' = Chasing
      BY <1>5 DEF Count, Go, Chasing, TypeOK
    <2> QED  BY <1>1, <1>5, <2>1 DEF Count, poolVars
  <1>6. ASSUME NEW t \in Tick, Stamp(t)  PROVE Roster'
    <2>1. Chasing' = Chasing
      BY <1>6 DEF Stamp, Go, Chasing, TypeOK
    <2> QED  BY <1>1, <1>6, <2>1 DEF Stamp, poolVars
  <1>7. CASE StartTick
    <2>1. Chasing' = Chasing
      BY <1>7 DEF StartTick, Go, Chasing, TypeOK
    <2> QED  BY <1>1, <1>7, <2>1 DEF StartTick, poolVars
  <1>8. CASE Advance \/ Scan \/ UNCHANGED vars
    BY <1>2, <1>8 DEF Advance, Scan, vars, poolVars, tickVars
  <1>9. ASSUME NEW t \in Tick, Close(t)  PROVE Roster'
    <2>1. /\ t \in Chasing /\ Chasing' = Chasing \ {t}
          /\ \A u \in Chasing' : victim'[u] = victim[u]
          /\ pool' = pool /\ closing' = closing \ {victim[t]}
      BY <1>9 DEF Close, Go, Chasing, TypeOK
    <2>2. \A u \in Chasing' : victim'[u] \in closing'
      BY <2>1 DEF Roster
    <2>3. \A w \in closing' : \E u \in Chasing' : victim'[u] = w
      BY <2>1 DEF Roster
    <2>4. \A u, v \in Chasing' : victim'[u] = victim'[v] => u = v
      BY <2>1 DEF Roster
    <2> QED  BY <2>1, <2>2, <2>3, <2>4 DEF Roster, Pooled
  <1>10. CASE Restart
    <2>1. pool' = Boot /\ closing' = {} /\ Chasing' = {}
      BY <1>10 DEF Restart, Chasing
    <2> QED  BY <2>1, Booted, BoundAssumption DEF Roster, Pooled
  <1>11. ASSUME NEW t \in Tick, Decide(t)  PROVE Roster'
    <2>0. /\ Len(pool) \in Nat /\ t \notin Chasing
          /\ pc \in [Tick -> {"idle", "asking", "decide", "closing", "stamp"}]
          /\ Len(pool) <= MaxWorkers /\ (Base >= MinWorkers => Len(pool) >= MinWorkers)
      <3>1. t \notin Chasing  BY <1>11 DEF Decide, Chasing
      <3> QED  BY <3>1 DEF TypeOK, Roster
    <2>1. CASE /\ Len(pool) < MaxWorkers /\ pc' = [pc EXCEPT ![t] = "stamp"]
               /\ \E new \in Worker : /\ new \notin Pooled \cup closing
                                      /\ IsInjective(pool') /\ Pooled' = Pooled \cup {new}
               /\ Len(pool') = Len(pool) + 1
               /\ UNCHANGED <<closing, hold, victim>>
      <3>1. Chasing' = Chasing
        BY <2>0, <2>1 DEF Chasing
      <3>2. Len(pool') <= MaxWorkers /\ (Base >= MinWorkers => Len(pool') >= MinWorkers)
        BY <2>0, <2>1, BoundAssumption
      <3>3. Pooled' \cap closing' = {}
        BY <2>1 DEF Roster
      <3> QED  BY <2>1, <3>1, <3>2, <3>3 DEF Roster
    <2>2. CASE /\ Len(pool) > MinWorkers /\ pc' = [pc EXCEPT ![t] = "closing"]
               /\ \E last \in Worker : /\ IsInjective(pool') /\ last \notin Pooled'
                                       /\ Pooled = Pooled' \cup {last}
                                       /\ closing' = closing \cup {last}
                                       /\ victim' = [victim EXCEPT ![t] = last]
               /\ Len(pool') = Len(pool) - 1
      <3>1. PICK last \in Worker : /\ IsInjective(pool') /\ last \notin Pooled'
                                   /\ Pooled = Pooled' \cup {last}
                                   /\ closing' = closing \cup {last}
                                   /\ victim' = [victim EXCEPT ![t] = last]
        BY <2>2
      <3>2. Chasing' = Chasing \cup {t}
        BY <2>0, <2>2 DEF Chasing
      <3>3. victim'[t] = last /\ \A u \in Chasing : victim'[u] = victim[u]
        BY <2>0, <3>1 DEF TypeOK, Chasing
      <3>4. last \notin closing /\ \A u \in Chasing : victim[u] # last
        BY <3>1 DEF Roster
      <3>5. Pooled' \cap closing' = {}
        BY <3>1 DEF Roster
      <3>6. \A u \in Chasing' : victim'[u] \in closing'
        BY <3>1, <3>2, <3>3 DEF Roster
      <3>7. \A w \in closing' : \E u \in Chasing' : victim'[u] = w
        BY <3>1, <3>2, <3>3 DEF Roster
      <3>8. \A u, v \in Chasing' : victim'[u] = victim'[v] => u = v
        BY <3>2, <3>3, <3>4 DEF Roster
      <3>9. Len(pool') <= MaxWorkers /\ (Base >= MinWorkers => Len(pool') >= MinWorkers)
        BY <2>0, <2>2, BoundAssumption
      <3> QED  BY <3>1, <3>5, <3>6, <3>7, <3>8, <3>9 DEF Roster
    <2>3. CASE pc' = [pc EXCEPT ![t] = "idle"] /\ UNCHANGED <<poolVars, victim, sinceScale>>
      <3>1. Chasing' = Chasing
        BY <2>0, <2>3 DEF Chasing
      <3> QED  BY <1>1, <2>3, <3>1 DEF poolVars
    <2> QED  BY <1>11, <2>1, <2>2, <2>3, Decided
  <1> QED  BY <1>3, <1>4, <1>5, <1>6, <1>7, <1>8, <1>9, <1>10, <1>11 DEF Next, TickStep

\* A worker takes a job nobody holds and gives it up once; a scale-down waits for it.
LEMMA HandsStep ==
    ASSUME TypeOK, Roster, Hands, [Next]_vars
    PROVE  Hands'
  <1>0. crashes \in Nat /\ None \notin Job
    BY CrashBound, JobAssumption
  <1>1. ASSUME UNCHANGED <<job, hold, runs, crashes>>, Pooled \cup closing \subseteq Pooled' \cup closing'
        PROVE  Hands'
    BY <1>1 DEF Hands
  <1>2. ASSUME UNCHANGED <<job, hold, runs, crashes, pool, closing>>  PROVE Hands'
    BY <1>1, <1>2 DEF Pooled
  <1>3. ASSUME NEW j \in Job, Post(j)  PROVE Hands'
    <2>1. /\ job[j] = "absent" /\ job' = [job EXCEPT ![j] = "queued"]
          /\ UNCHANGED <<hold, runs, crashes, pool, closing>>
      BY <1>3 DEF Post, poolVars
    <2>2. \A w \in Worker : hold'[w] # None => job'[hold'[w]] = "active"
      BY <2>1 DEF Hands, TypeOK
    <2>3. \A i \in Job : job'[i] = "active" => job[i] = "active"
      BY <2>1 DEF TypeOK
    <2>4. \A i \in Job : job'[i] \in {"absent", "queued"} => job[i] \in {"absent", "queued"}
      BY <2>1 DEF TypeOK
    <2> QED  BY <2>1, <2>2, <2>3, <2>4 DEF Hands, Pooled
  <1>4. ASSUME NEW j \in Job, Age(j) \/ Promote(j)  PROVE Hands'
    BY <1>2, <1>4 DEF Age, Promote, poolVars
  <1>5. ASSUME NEW w \in Worker, Finish(w)  PROVE Hands'
    <2>1. /\ hold[w] # None /\ hold[w] \in Job
          /\ job' = [job EXCEPT ![hold[w]] = "done"] /\ hold' = [hold EXCEPT ![w] = None]
          /\ UNCHANGED <<runs, crashes, pool, closing>>
      BY <1>5 DEF Finish, TypeOK
    <2>2. \A v \in Worker : hold'[v] # None => v # w /\ hold'[v] = hold[v] /\ hold[v] # hold[w]
      BY <2>1 DEF Hands, TypeOK
    <2>3. \A v \in Worker : hold'[v] # None => job'[hold'[v]] = "active" /\ v \in Pooled' \cup closing'
      BY <2>1, <2>2 DEF Hands, TypeOK, Pooled
    <2>4. \A u, v \in Worker : hold'[u] = hold'[v] /\ hold'[u] # None => u = v
      BY <2>2 DEF Hands
    <2>5. \A i \in Job : job'[i] = "active" => \E v \in Worker : hold'[v] = i
      <3>1. TAKE i \in Job
      <3>2. HAVE job'[i] = "active"
      <3>3. i # hold[w] /\ job[i] = "active"  BY <2>1, <3>2 DEF TypeOK
      <3>4. PICK v \in Worker : hold[v] = i  BY <3>3 DEF Hands
      <3>5. v # w  BY <3>3, <3>4
      <3> WITNESS v \in Worker
      <3> QED  BY <2>1, <3>4, <3>5 DEF TypeOK
    <2>6. \A i \in Job : /\ runs'[i] <= crashes' + 1
                         /\ job'[i] \in {"absent", "queued"} => runs'[i] <= crashes'
      BY <2>1 DEF Hands, TypeOK
    <2> QED  BY <2>3, <2>4, <2>5, <2>6 DEF Hands
  <1>6. ASSUME NEW w \in Worker, NEW j \in Job, Take(w, j)  PROVE Hands'
    <2>1. /\ w \in Pooled /\ hold[w] = None /\ job[j] = "queued"
          /\ job' = [job EXCEPT ![j] = "active"] /\ hold' = [hold EXCEPT ![w] = j]
          /\ runs' = [runs EXCEPT ![j] = @ + 1]
          /\ UNCHANGED <<crashes, pool, closing>>
      BY <1>6 DEF Take
    <2>2. \A v \in Worker : hold[v] # None => hold[v] # j
      BY <2>1 DEF Hands
    <2>3. hold'[w] = j /\ \A v \in Worker \ {w} : hold'[v] = hold[v]
      BY <2>1 DEF TypeOK
    <2>4. \A v \in Worker : hold'[v] # None => v \in Pooled' \cup closing' /\ job'[hold'[v]] = "active"
      BY <2>1, <2>2, <2>3 DEF Hands, TypeOK, Pooled
    <2>5. \A u, v \in Worker : hold'[u] = hold'[v] /\ hold'[u] # None => u = v
      <3>1. \A v \in Worker \ {w} : hold'[v] # j  BY <1>0, <2>2, <2>3
      <3> QED  BY <2>3, <3>1 DEF Hands
    <2>6. \A i \in Job : job'[i] = "active" => \E v \in Worker : hold'[v] = i
      <3>1. TAKE i \in Job
      <3>2. HAVE job'[i] = "active"
      <3>3. CASE i = j
        BY <2>3, <3>3
      <3>4. CASE i # j
        <4>1. job[i] = "active"  BY <2>1, <3>2, <3>4 DEF TypeOK
        <4>2. PICK v \in Worker : hold[v] = i  BY <4>1 DEF Hands
        <4>3. v # w  BY <1>0, <2>1, <4>2
        <4> QED  BY <2>3, <4>2, <4>3
      <3> QED  BY <3>3, <3>4
    <2>7. \A i \in Job : /\ runs'[i] <= crashes' + 1
                         /\ job'[i] \in {"absent", "queued"} => runs'[i] <= crashes'
      <3>1. runs[j] \in Nat /\ runs[j] <= crashes  BY <2>1 DEF Hands, TypeOK
      <3>2. runs'[j] = runs[j] + 1 /\ job'[j] = "active"  BY <2>1 DEF TypeOK
      <3>3. \A i \in Job \ {j} : runs'[i] = runs[i] /\ job'[i] = job[i]  BY <2>1 DEF TypeOK
      <3>4. runs'[j] <= crashes' + 1  BY <1>0, <2>1, <3>1, <3>2
      <3> QED  BY <2>1, <3>2, <3>3, <3>4 DEF Hands
    <2> QED  BY <2>4, <2>5, <2>6, <2>7 DEF Hands
  <1>7. ASSUME NEW t \in Tick, Count(t) \/ Stamp(t)  PROVE Hands'
    BY <1>2, <1>7 DEF Count, Stamp, jobVars, poolVars
  <1>8. CASE StartTick \/ Advance \/ Scan \/ UNCHANGED vars
    BY <1>2, <1>8 DEF StartTick, Advance, Scan, vars, jobVars, poolVars
  <1>9. ASSUME NEW t \in Tick, Decide(t)  PROVE Hands'
    <2>1. UNCHANGED <<job, runs, crashes>>
      BY <1>9 DEF Decide, jobVars
    <2>2. hold' = hold /\ Pooled \cup closing \subseteq Pooled' \cup closing'
      BY <1>9, Decided DEF poolVars, Pooled
    <2> QED  BY <1>1, <2>1, <2>2
  <1>10. ASSUME NEW t \in Tick, Close(t)  PROVE Hands'
    <2>1. /\ hold[victim[t]] = None /\ closing' = closing \ {victim[t]}
          /\ UNCHANGED <<job, hold, runs, crashes, pool>>
      BY <1>10 DEF Close, jobVars
    <2>2. \A w \in Worker : hold[w] # None => w \in Pooled' \cup closing'
      BY <2>1 DEF Hands, Pooled
    <2> QED  BY <2>1, <2>2 DEF Hands
  <1>11. CASE Restart
    <2>1. /\ crashes' = crashes + 1 /\ runs' = runs /\ hold' = [w \in Worker |-> None]
          /\ job' = [j \in Job |-> IF job[j] = "active" THEN "queued" ELSE job[j]]
      BY <1>11 DEF Restart
    <2>2. \A j \in Job : job'[j] # "active"
      BY <2>1
    <2>3. \A j \in Job : runs'[j] <= crashes'
      BY <1>0, <2>1 DEF Hands
    <2>4. \A j \in Job : runs'[j] <= crashes' + 1
      <3>1. TAKE j \in Job
      <3> QED  BY <1>0, <2>1, <2>3 DEF TypeOK
    <2> QED  BY <2>1, <2>2, <2>3, <2>4 DEF Hands
  <1> QED  BY <1>3, <1>4, <1>5, <1>6, <1>7, <1>8, <1>9, <1>10, <1>11 DEF Next, TickStep

\* The tick that scaled stamps the time it scaled, if it was the only one to.
LEMMA PaceStep ==
    ASSUME TypeOK, Roster, Pace, [Next]_vars
    PROVE  Pace'
  <1>1. ASSUME UNCHANGED <<sinceNow, sinceStamp, sinceScale, overlap>>,
               \A t \in Tick : Acting(t)' <=> Acting(t)
        PROVE  Pace'
    BY <1>1 DEF Pace
  <1>2. ASSUME UNCHANGED <<pc, sinceNow, sinceStamp, sinceScale, overlap>>  PROVE Pace'
    BY <1>1, <1>2 DEF Acting
  <1>3. ASSUME NEW j \in Job, Post(j) \/ Age(j) \/ Promote(j)  PROVE Pace'
    BY <1>2, <1>3 DEF Post, Age, Promote, tickVars
  <1>4. ASSUME NEW w \in Worker, Finish(w) \/ \E j \in Job : Take(w, j)  PROVE Pace'
    BY <1>2, <1>4 DEF Finish, Take, tickVars
  <1>5. CASE Scan \/ UNCHANGED vars
    BY <1>2, <1>5 DEF Scan, vars, tickVars
  <1>6. ASSUME NEW t \in Tick, Count(t) \/ Close(t)  PROVE Pace'
    <2>1. \A u \in Tick : Acting(u)' <=> Acting(u)
      BY <1>6 DEF Count, Close, Go, Acting, TypeOK
    <2> QED  BY <1>1, <1>6, <2>1 DEF Count, Close
  <1>7. CASE StartTick
    <2>1. \A u \in Tick : Acting(u)' <=> Acting(u)
      BY <1>7 DEF StartTick, Go, Acting, TypeOK
    <2> QED  BY <1>1, <1>7, <2>1 DEF StartTick
  <1>8. CASE Advance
    <2> SUFFICES ASSUME ~overlap'  PROVE Pace'
      BY DEF Pace
    <2>1. ~overlap /\ \A t \in Tick : Acting(t)' <=> Acting(t)
      BY <1>8 DEF Advance, Acting
    <2>2. \A t, u \in Tick : Acting(t)' /\ Acting(u)' => t = u
      BY <2>1 DEF Pace
    <2>3. ASSUME NEW t \in Tick, Acting(t)'  PROVE sinceNow'[t] = sinceScale'
      <3>1. sinceNow[t] = sinceScale /\ pc[t] \in {"closing", "stamp"}
        BY <2>1, <2>3 DEF Pace, Acting
      <3> QED  BY <1>8, <3>1 DEF Advance
    <2>4. (\A t \in Tick : ~Acting(t)') => sinceStamp' <= sinceScale'
      <3>1. HAVE \A t \in Tick : ~Acting(t)'
      <3>2. /\ sinceStamp <= sinceScale
            /\ sinceStamp \in Nat /\ sinceScale \in Nat /\ sinceStamp <= Cooldown
        BY <2>1, <3>1, BoundAssumption DEF Pace, TypeOK
      <3> QED  BY <1>8, <3>2, BoundAssumption DEF Advance
    <2> QED  BY <2>2, <2>3, <2>4 DEF Pace
  <1>9. ASSUME NEW t \in Tick, Decide(t)  PROVE Pace'
    <2> SUFFICES ASSUME ~overlap'  PROVE Pace'
      BY DEF Pace
    <2>1. /\ ~overlap /\ \A u \in Tick \ {t} : ~Acting(u)
          /\ pc[t] = "decide" /\ sinceNow' = [sinceNow EXCEPT ![t] = 0]
          /\ sinceStamp' = sinceStamp
      BY <1>9 DEF Decide
    <2>2. /\ \A u \in Tick \ {t} : pc'[u] = pc[u]
          /\ \/ pc'[t] \in {"closing", "stamp"} /\ sinceScale' = 0
             \/ pc'[t] = "idle" /\ sinceScale' = sinceScale
      BY <1>9, Decided DEF TypeOK
    <2>3. \A u \in Tick \ {t} : ~Acting(u)'
      BY <2>1, <2>2 DEF Acting
    <2>4. Acting(t)' => sinceNow'[t] = sinceScale'
      BY <2>1, <2>2 DEF Acting, TypeOK
    <2>5. ~Acting(t)' => sinceStamp' <= sinceScale'
      <3>1. ~Acting(t)  BY <2>1 DEF Acting
      <3> QED  BY <2>1, <2>2, <3>1 DEF Acting, Pace
    <2> QED  BY <2>3, <2>4, <2>5 DEF Pace
  <1>10. ASSUME NEW t \in Tick, Stamp(t)  PROVE Pace'
    <2> SUFFICES ASSUME ~overlap'  PROVE Pace'
      BY DEF Pace
    <2>1. /\ ~overlap /\ pc[t] = "stamp" /\ pc' = [pc EXCEPT ![t] = "idle"]
          /\ sinceStamp' = sinceNow[t] /\ UNCHANGED <<sinceNow, sinceScale>>
      BY <1>10 DEF Stamp, Go
    <2>2. \A u \in Tick : ~Acting(u)'
      BY <2>1 DEF Acting, Pace, TypeOK
    <2>3. sinceStamp' = sinceScale' /\ sinceScale' \in Int
      BY <2>1 DEF Acting, Pace, TypeOK
    <2> QED  BY <2>2, <2>3 DEF Pace
  <1>11. CASE Restart
    <2>1. (\A u \in Tick : ~Acting(u)') /\ sinceStamp' = Cooldown /\ sinceScale' = Cooldown
      BY <1>11 DEF Restart, Acting
    <2> QED  BY <2>1, BoundAssumption DEF Pace
  <1> QED  BY <1>3, <1>4, <1>5, <1>6, <1>7, <1>8, <1>9, <1>10, <1>11 DEF Next, TickStep

LEMMA NextInv == IInv /\ [Next]_vars => IInv'
  BY TypeStep, RosterStep, HandsStep, PaceStep DEF IInv

-----------------------------------------------------------------------------
(* The theorems *)

\* Every reachable state satisfies the inductive invariant.
THEOREM Inductive == Spec => []IInv
  <1> QED  BY InitInv, NextInv, PTL DEF Spec

\* Every variable of the autoscaler, the registry and the promoter stays in its domain.
THEOREM TypeCorrect == Spec => []TypeOK
  <1>1. IInv => TypeOK
    BY DEF IInv
  <1> QED  BY <1>1, Inductive, PTL

\* autoScaler.service.ts: the hard ceiling and the minimum hold for the registry's list
\* however many ticks decide on counts that are out of date, and each worker on its way
\* out has a tick of its own that waits for it.
THEOREM PoolBounded == Spec => []PoolInBounds
  <1>1. IInv => PoolInBounds
    <2> SUFFICES ASSUME IInv  PROVE PoolInBounds
      OBVIOUS
    <2>1. Cardinality(closing) <= Cardinality(Chasing)
      BY ClosingBound DEF IInv
    <2> QED  BY <2>1 DEF IInv, Roster, PoolInBounds, Chasing
  <1> QED  BY <1>1, Inductive, PTL

\* workerRegistry.service.ts: "no jobs are dropped".  A job that runs is in the hands of
\* exactly one worker that is in the list or is being waited for, a job that does not run
\* is in nobody's, and only a crash has a job taken again.
THEOREM NoJobDropped == Spec => []JobsKept
  <1>1. IInv => JobsKept
    <2> SUFFICES ASSUME IInv  PROVE JobsKept
      OBVIOUS
    <2>1. Hands /\ crashes \in Nat /\ runs \in [Job -> Nat] /\ None \notin Job
          /\ Pooled \subseteq Worker /\ closing \subseteq Worker
      BY CrashBound, JobAssumption DEF IInv, TypeOK, Pooled, ToSet
    <2>2. ASSUME NEW j \in Job
          PROVE  Cardinality({w \in Pooled \cup closing : hold[w] = j})
                   = (IF job[j] = "active" THEN 1 ELSE 0)
      <3> DEFINE H == {w \in Pooled \cup closing : hold[w] = j}
      <3>1. CASE job[j] = "active"
        <4>1. PICK w \in Worker : hold[w] = j  BY <2>1, <3>1 DEF Hands
        <4>2. H = {w}  BY <2>1, <4>1 DEF Hands
        <4> QED  BY <3>1, <4>2, FS_Singleton
      <3>2. CASE job[j] # "active"
        <4>1. H = {}  BY <2>1, <3>2 DEF Hands
        <4> QED  BY <3>2, <4>1, FS_EmptySet
      <3> QED  BY <3>1, <3>2
    <2>3. ASSUME NEW j \in Job  PROVE runs[j] <= 1 + crashes
      <3>1. runs[j] \in Nat /\ runs[j] <= crashes + 1  BY <2>1 DEF Hands
      <3> QED  BY <2>1, <3>1
    <2> QED  BY <2>2, <2>3 DEF JobsKept
  <1> QED  BY <1>1, Inductive, PTL

\* autoScaler.service.ts: as long as no tick decides while another waits for a worker to
\* close, MIN_COOLDOWN_MS lies between one change of the pool and the next.
THEOREM CooldownRespected == Spec => CooldownKept
  <1>1. IInv /\ [Next]_vars =>
          [pool' # pool /\ ~overlap' /\ crashes' = crashes => sinceScale >= Cooldown]_vars
    <2> SUFFICES ASSUME IInv, Next, pool' # pool, ~overlap', crashes' = crashes
                 PROVE  sinceScale >= Cooldown
      BY DEF vars
    <2>1. PICK t \in Tick : Decide(t)
      <3>1. crashes \in Nat  BY CrashBound DEF IInv
      <3>2. ~Restart  BY <3>1 DEF Restart
      <3> QED  BY <3>2 DEF Next, TickStep, Post, Age, Promote, Finish, Take, Count, Close, Stamp,
                          Advance, StartTick, Scan, poolVars
    <2>2. sinceStamp >= Cooldown
      BY <2>1, Decided DEF IInv, poolVars
    <2>3. ~overlap /\ \A u \in Tick : ~Acting(u)
      <3>1. ~overlap /\ (\A u \in Tick \ {t} : ~Acting(u)) /\ pc[t] = "decide"
        BY <2>1 DEF Decide
      <3> QED  BY <3>1 DEF Acting
    <2>4. sinceStamp <= sinceScale /\ sinceStamp \in Int /\ sinceScale \in Int
      BY <2>3, BoundAssumption DEF IInv, Pace, TypeOK
    <2> QED  BY <2>2, <2>4, BoundAssumption
  <1> QED  BY <1>1, Inductive, PTL DEF Spec, CooldownKept
=============================================================================
