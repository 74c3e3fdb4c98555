--------------------------- MODULE ReconcileProofs ---------------------------
(***************************************************************************)
(* Proofs about Reconcile for every set of payloads and workers and every  *)
(* number of throwing commands.                                            *)
(***************************************************************************)
EXTENDS Reconcile, FiniteSetTheorems, TLAPS

-----------------------------------------------------------------------------
(* Counting *)

Is(x, A) == IF x \in A THEN 1 ELSE 0

\* A set that gains or loses one element changes its size by that element.
LEMMA CardUpdate ==
    ASSUME NEW T, NEW U, NEW s, IsFiniteSet(T), U \ {s} = T \ {s}
    PROVE  /\ IsFiniteSet(U)
           /\ Cardinality(U) = Cardinality(T) + Is(s, U) - Is(s, T)
  <1>1. Cardinality(T) \in Nat
    BY FS_CardinalityType
  <1>2. CASE s \in U /\ s \notin T
    <2>1. U = T \cup {s}  BY <1>2
    <2>2. IsFiniteSet(T \cup {s}) /\ Cardinality(T \cup {s}) = Cardinality(T) + 1
      BY <1>2, FS_AddElement
    <2> QED  BY <1>1, <1>2, <2>1, <2>2 DEF Is
  <1>3. CASE s \notin U /\ s \in T
    <2>1. U = T \ {s}  BY <1>3
    <2>2. IsFiniteSet(T \ {s}) /\ Cardinality(T \ {s}) = Cardinality(T) - 1
      BY <1>3, FS_RemoveElement
    <2> QED  BY <1>1, <1>3, <2>1, <2>2 DEF Is
  <1>4. CASE s \in U /\ s \in T
    <2>1. U = T  BY <1>4
    <2> QED  BY <1>1, <1>4, <2>1 DEF Is
  <1>5. CASE s \notin U /\ s \notin T
    <2>1. U = T  BY <1>5
    <2> QED  BY <1>1, <1>5, <2>1 DEF Is
  <1> QED  BY <1>2, <1>3, <1>4, <1>5

\* The submissions and the workers that stand at one of the steps of P.
Subs(P) == {j \in Job : sub[j] \in P}
At(P) == {w \in Worker : wrk[w] \in P}

\* A step of submitJob(j) moves j alone.
LEMMA SubMove ==
    ASSUME NEW P, sub \in [Job -> SubPC], NEW j \in Job, NEW to,
           sub' = [sub EXCEPT ![j] = to]
    PROVE  /\ Cardinality(Subs(P)) \in Nat
           /\ Cardinality(Subs(P)') = Cardinality(Subs(P)) + Is(to, P) - Is(sub[j], P)
  <1>1. IsFiniteSet(Subs(P)) /\ Cardinality(Subs(P)) \in Nat
    BY JobAssumption, FS_Subset, FS_CardinalityType DEF Subs
  <1>2. Subs(P)' \ {j} = Subs(P) \ {j}
    BY DEF Subs
  <1>3. Is(j, Subs(P)') = Is(to, P) /\ Is(j, Subs(P)) = Is(sub[j], P)
    BY DEF Subs, Is
  <1>4. Cardinality(Subs(P)') = Cardinality(Subs(P)) + Is(j, Subs(P)') - Is(j, Subs(P))
    BY <1>1, <1>2, CardUpdate
  <1> QED  BY <1>1, <1>3, <1>4

\* A step of a worker moves that worker alone.
LEMMA WrkMove ==
    ASSUME NEW P, wrk \in [Worker -> WrkPC], NEW w \in Worker, NEW to,
           wrk' = [wrk EXCEPT ![w] = to]
    PROVE  /\ Cardinality(At(P)) \in Nat
           /\ Cardinality(At(P)') = Cardinality(At(P)) + Is(to, P) - Is(wrk[w], P)
  <1>1. IsFiniteSet(At(P)) /\ Cardinality(At(P)) \in Nat
    BY WorkerAssumption, FS_Subset, FS_CardinalityType DEF At
  <1>2. At(P)' \ {w} = At(P) \ {w}
    BY DEF At
  <1>3. Is(w, At(P)') = Is(to, P) /\ Is(w, At(P)) = Is(wrk[w], P)
    BY DEF At, Is
  <1>4. Cardinality(At(P)') = Cardinality(At(P)) + Is(w, At(P)') - Is(w, At(P))
    BY <1>1, <1>2, CardUpdate
  <1> QED  BY <1>1, <1>3, <1>4

\* One more copy of a payload is one more waiting job ...
LEMMA OneMore ==
    ASSUME NEW j \in Job, bull \in [Job -> Nat], IsFiniteSet(Waiting),
           bull' = [bull EXCEPT ![j] = @ + 1]
    PROVE  IsFiniteSet(Waiting') /\ Cardinality(Waiting') = Cardinality(Waiting) + 1
  <1> DEFINE new == <<j, bull[j] + 1>>
  <1>1. bull[j] \in Nat  OBVIOUS
  <1>2. \A i \in Job : \A n : <<i, n>> \in Waiting <=> n \in 1 .. bull[i]
    BY DEF Waiting
  <1>3. new \notin Waiting
    BY <1>1, <1>2
  <1>4. /\ 1 .. bull'[j] = (1 .. bull[j]) \cup {bull[j] + 1}
        /\ \A i \in Job \ {j} : bull'[i] = bull[i]
    <2>1. bull'[j] = bull[j] + 1 /\ \A i \in Job \ {j} : bull'[i] = bull[i]
      OBVIOUS
    <2>2. 1 .. bull[j] + 1 = (1 .. bull[j]) \cup {bull[j] + 1}
      BY <1>1
    <2> QED  BY <2>1, <2>2
  <1>5. Waiting' = Waiting \cup {new}
    <2>1. ASSUME NEW x \in Waiting' PROVE x \in Waiting \cup {new}
      BY <1>4, <2>1 DEF Waiting
    <2>2. Waiting \subseteq Waiting'
      BY <1>4 DEF Waiting
    <2>3. new \in Waiting'
      BY <1>4 DEF Waiting
    <2> QED  BY <2>1, <2>2, <2>3
  <1> HIDE DEF new
  <1>6. IsFiniteSet(Waiting \cup {new}) /\ Cardinality(Waiting \cup {new}) = Cardinality(Waiting) + 1
    BY <1>3, FS_AddElement
  <1> QED  BY <1>5, <1>6

\* ... and one less is one less.
LEMMA OneLess ==
    ASSUME NEW j \in Job, bull \in [Job -> Nat], bull[j] > 0, IsFiniteSet(Waiting),
           bull' = [bull EXCEPT ![j] = @ - 1]
    PROVE  IsFiniteSet(Waiting') /\ Cardinality(Waiting') = Cardinality(Waiting) - 1
  <1> DEFINE old == <<j, bull[j]>>
  <1>1. bull[j] \in Nat  OBVIOUS
  <1>3. old \in Waiting
    BY <1>1 DEF Waiting
  <1>4. /\ 1 .. bull'[j] = (1 .. bull[j]) \ {bull[j]}
        /\ \A i \in Job \ {j} : bull'[i] = bull[i]
    <2>1. bull'[j] = bull[j] - 1 /\ \A i \in Job \ {j} : bull'[i] = bull[i]
      OBVIOUS
    <2>2. 1 .. bull[j] - 1 = (1 .. bull[j]) \ {bull[j]}
      BY <1>1
    <2> QED  BY <2>1, <2>2
  <1>5. Waiting' = Waiting \ {old}
    <2>1. ASSUME NEW x \in Waiting' PROVE x \in Waiting \ {old}
      BY <1>4, <2>1 DEF Waiting
    <2>2. ASSUME NEW x \in Waiting \ {old} PROVE x \in Waiting'
      BY <1>4, <2>2 DEF Waiting
    <2> QED  BY <2>1, <2>2
  <1> HIDE DEF old
  <1>6. IsFiniteSet(Waiting \ {old}) /\ Cardinality(Waiting \ {old}) = Cardinality(Waiting) - 1
    BY <1>3, FS_RemoveElement
  <1> QED  BY <1>5, <1>6

-----------------------------------------------------------------------------
(* The inductive invariant *)

\* drainOne() has a payload in hand from its LPOP until it is placed.
HandOK ==
    \A w \in Worker :
        wrk[w] \in {"getStaged", "setStaged", "incPending", "enqueue",
                    "getPending", "setPending", "lpush"} => hand[w] \in Job

\* Without a throw nobody is in a catch block.
Clean ==
    Spent = 0 =>
        /\ \A j \in Job : sub[j] # "thrown"
        /\ \A w \in Worker : wrk[w] \notin {"lpush", "incStaged"} /\ ~back[w]

Shape == TypeOK /\ HandOK /\ Clean /\ IsFiniteSet(Waiting)

\* The calls of submitJob() that have begun, and those between RPUSH and HINCRBY.
Begun == Cardinality(Subs({"decide", "count", "done"}))
Uncounted == Cardinality(Subs({"count"}))

\* The drains between LPOP and the HSET of staged, and between the HINCRBY and the
\* HSET of release_pending.
Undecremented == Cardinality(At({"getStaged", "setStaged"}))
Draining == Cardinality(At({"enqueue", "getPending", "setPending"}))

\* The counter of staged payloads, the list, and what each side has still to write.
StagedExact == pre.staged + Uncounted = Len(staging) + Undecremented

PendingExact == pre.pending = Draining

TotalExact == totals = Begun

\* The counters, while nothing threw and no HSET overwrote another command.
Tallied == Spent = 0 => TotalExact /\ (~hazy => StagedExact /\ PendingExact)

\* The report keeps its place, and while it is undisturbed its answers stay true.
ReportOK ==
    /\ rep = "none" => DOMAIN seen = {}
    /\ rep \in {"dlq", "state", "done"} => {"waiting", "active"} \subseteq DOMAIN seen
    /\ rep \in {"state", "done"} => "dlq" \in DOMAIN seen
    /\ rep = "done" => {"pre", "terminal", "totals"} \subseteq DOMAIN seen
    /\ calm => /\ AtRest /\ ~hazy /\ Spent = 0
               /\ \A name \in DOMAIN seen : seen[name] = Value(name)

RInv == Shape /\ PayloadsKept /\ Tallied /\ ReportOK

-----------------------------------------------------------------------------
(* The counts after a step *)

InHand == Cardinality(Handing)
InRun == Cardinality(Running)

HandPC == {"getStaged", "setStaged", "incPending", "enqueue", "lpush"}
RunPC == {"run", "tally"}
LagPC == {"getStaged", "setStaged"}
DrainPC == {"enqueue", "getPending", "setPending"}
PlacedPC == {"count", "done"}
BegunPC == {"decide", "count", "done"}
CountPC == {"count"}

\* The types the arithmetic below needs.
LEMMA Types ==
    ASSUME Shape
    PROVE  /\ totals \in Nat /\ pre.staged \in Nat /\ pre.pending \in Nat
           /\ terminal.completed \in Nat /\ terminal.failed \in Nat
           /\ Len(staging) \in Nat /\ Spent \in Nat /\ Faults \in Nat
           /\ Placed \in Nat /\ Begun \in Nat /\ Uncounted \in Nat
           /\ InHand \in Nat /\ InRun \in Nat /\ Undecremented \in Nat /\ Draining \in Nat
           /\ Cardinality(Waiting) \in Nat
  <1>1. /\ totals \in Nat /\ pre.staged \in Nat /\ pre.pending \in Nat
        /\ terminal.completed \in Nat /\ terminal.failed \in Nat
        /\ Len(staging) \in Nat
    BY DEF Shape, TypeOK
  <1>2. Spent \in Nat /\ Faults \in Nat
    BY FaultAssumption DEF Shape, TypeOK, Spent
  <1>3. Placed \in Nat /\ Begun \in Nat /\ Uncounted \in Nat
    BY JobAssumption, FS_Subset, FS_CardinalityType DEF Placed, Begun, Uncounted, Subs
  <1>4. InHand \in Nat /\ InRun \in Nat /\ Undecremented \in Nat /\ Draining \in Nat
    BY WorkerAssumption, FS_Subset, FS_CardinalityType
       DEF InHand, InRun, Handing, Running, Undecremented, Draining, At
  <1>5. Cardinality(Waiting) \in Nat
    BY FS_CardinalityType DEF Shape
  <1> QED  BY <1>1, <1>2, <1>3, <1>4, <1>5

\* A step of submitJob(j) from one statement to the next ...
LEMMA SubCounts ==
    ASSUME Shape, NEW j \in Job, NEW from, NEW to, SubGo(j, from, to)
    PROVE  /\ Placed' = Placed + Is(to, PlacedPC) - Is(from, PlacedPC)
           /\ Begun' = Begun + Is(to, BegunPC) - Is(from, BegunPC)
           /\ Uncounted' = Uncounted + Is(to, CountPC) - Is(from, CountPC)
  <1>1. sub \in [Job -> SubPC] /\ sub[j] = from /\ sub' = [sub EXCEPT ![j] = to]
    BY DEF Shape, TypeOK, SubGo
  <1>2. \A P : Cardinality(Subs(P)') = Cardinality(Subs(P)) + Is(to, P) - Is(from, P)
    BY <1>1, SubMove
  <1> QED  BY <1>2 DEF Placed, Begun, Uncounted, Subs, PlacedPC, BegunPC, CountPC

\* ... and the steps of the others.
LEMMA SubStay ==
    ASSUME sub' = sub
    PROVE  Placed' = Placed /\ Begun' = Begun /\ Uncounted' = Uncounted
  BY DEF Placed, Begun, Uncounted, Subs

\* A step of worker w from one statement to the next ...
LEMMA WrkCounts ==
    ASSUME Shape, NEW w \in Worker, NEW from, NEW to, WrkGo(w, from, to)
    PROVE  /\ InHand' = InHand + Is(to, HandPC) - Is(from, HandPC)
           /\ InRun' = InRun + Is(to, RunPC) - Is(from, RunPC)
           /\ Undecremented' = Undecremented + Is(to, LagPC) - Is(from, LagPC)
           /\ Draining' = Draining + Is(to, DrainPC) - Is(from, DrainPC)
  <1>1. wrk \in [Worker -> WrkPC] /\ wrk[w] = from /\ wrk' = [wrk EXCEPT ![w] = to]
    BY DEF Shape, TypeOK, WrkGo
  <1>2. \A P : Cardinality(At(P)') = Cardinality(At(P)) + Is(to, P) - Is(from, P)
    BY <1>1, WrkMove
  <1> QED
    BY <1>2 DEF InHand, InRun, Handing, Running, Undecremented, Draining, At,
                HandPC, RunPC, LagPC, DrainPC

\* ... and the steps of the submitters.
LEMMA WrkStay ==
    ASSUME wrk' = wrk
    PROVE  /\ InHand' = InHand /\ InRun' = InRun
           /\ Undecremented' = Undecremented /\ Draining' = Draining
  BY DEF InHand, InRun, Handing, Running, Undecremented, Draining, At

\* The waiting jobs when no payload is enqueued or taken.
LEMMA WaitingStay ==
    ASSUME Shape, bull' = bull
    PROVE  IsFiniteSet(Waiting') /\ Cardinality(Waiting') = Cardinality(Waiting)
  BY DEF Shape, Waiting

\* A step that overtakes the report leaves it well typed.
LEMMA StirTypes ==
    ASSUME Stir
    PROVE  /\ rep' \in {"none", "poll", "dlq", "state", "done"} /\ DOMAIN seen' \subseteq Reads
           /\ calm' \in BOOLEAN
  <1>1. DOMAIN << >> = {}  OBVIOUS
  <1> QED  BY <1>1 DEF Stir

-----------------------------------------------------------------------------
(* One lemma per action *)

\* What the commands of the queue keep; the report only reads.
Core == Shape /\ PayloadsKept /\ Tallied

\* A step that throws nothing and overwrites nothing keeps the balance.
LEMMA Balanced ==
    ASSUME Core, Spent' = Spent,
           InPlay' - Placed' = InPlay - Placed,
           TotalExact => TotalExact',
           ~hazy' => /\ ~hazy
                     /\ StagedExact => StagedExact'
                     /\ PendingExact => PendingExact'
    PROVE  PayloadsKept' /\ Tallied'
  <1>1. Spent \in Nat
    BY Types DEF Core
  <1>2. PayloadsKept'
    BY <1>1 DEF Core, PayloadsKept
  <1> QED  BY <1>2 DEF Core, Tallied

\* submitted_total counts the call.
LEMMA IncrementSubmittedStep ==
    ASSUME Core, Stir, NEW j \in Job, IncrementSubmitted(j) PROVE Core'
  <1> USE DEF SubGo, counters, places, locals
  <1>0. Shape /\ SubGo(j, "new", "decide")
    BY DEF Core, IncrementSubmitted
  <1>t. /\ totals \in Nat /\ pre.staged \in Nat /\ pre.pending \in Nat
        /\ terminal.completed \in Nat /\ terminal.failed \in Nat /\ Len(staging) \in Nat
        /\ Placed \in Nat /\ Begun \in Nat /\ Uncounted \in Nat /\ Cardinality(Waiting) \in Nat
        /\ InHand \in Nat /\ InRun \in Nat /\ Undecremented \in Nat /\ Draining \in Nat
    BY <1>0, Types
  <1>1. TypeOK'
    BY <1>0, StirTypes DEF IncrementSubmitted, Shape, TypeOK, SubPC
  <1>2. HandOK' /\ Clean' /\ Spent' = Spent /\ hazy' = hazy
    BY <1>0 DEF IncrementSubmitted, Shape, TypeOK, HandOK, Clean, Spent
  <1>3. Placed' = Placed /\ Begun' = Begun + 1 /\ Uncounted' = Uncounted
    <2>1. /\ Placed' = Placed + Is("decide", PlacedPC) - Is("new", PlacedPC)
          /\ Begun' = Begun + Is("decide", BegunPC) - Is("new", BegunPC)
          /\ Uncounted' = Uncounted + Is("decide", CountPC) - Is("new", CountPC)
      BY <1>0, SubCounts
    <2> QED  BY <1>t, <2>1 DEF Is, PlacedPC, BegunPC, CountPC
  <1>4. /\ InHand' = InHand /\ InRun' = InRun
        /\ Undecremented' = Undecremented /\ Draining' = Draining
    BY WrkStay DEF IncrementSubmitted
  <1>5. IsFiniteSet(Waiting') /\ Cardinality(Waiting') = Cardinality(Waiting)
    BY <1>0, WaitingStay DEF IncrementSubmitted, Shape, TypeOK
  <1>6. /\ Len(staging') = Len(staging) /\ totals' = totals + 1
        /\ pre'.staged = pre.staged /\ pre'.pending = pre.pending
        /\ terminal'.completed + terminal'.failed = terminal.completed + terminal.failed
    BY <1>t DEF IncrementSubmitted, Shape, TypeOK
  <1>7. PayloadsKept' /\ Tallied'
    <2>1. InPlay = Len(staging) + Cardinality(Waiting) + InHand + InRun
                      + (terminal.completed + terminal.failed)
      BY DEF InPlay, InHand, InRun
    <2>2. InPlay' - Placed' = InPlay - Placed
      <3>1. InPlay' = Len(staging) + Cardinality(Waiting) + InHand + InRun
                      + (terminal.completed + terminal.failed)
        BY <1>4, <1>5, <1>6 DEF InPlay, InHand, InRun
      <3>2. Placed' = Placed
        BY <1>3
      <3> QED  BY SMTT(60), <1>t, <2>1, <3>1, <3>2
    <2>3. TotalExact => TotalExact'
      BY <1>t, <1>3, <1>6 DEF TotalExact
    <2>4. StagedExact => StagedExact'
      <3>1. /\ pre'.staged + Uncounted' = pre.staged + Uncounted
            /\ Len(staging') + Undecremented' = Len(staging) + Undecremented
        BY <1>3, <1>4, <1>6
      <3> QED  BY SMTT(60), <1>t, <3>1 DEF StagedExact
    <2>5. PendingExact => PendingExact'
      BY <1>t, <1>4, <1>6 DEF PendingExact
    <2> QED  BY <1>2, <2>2, <2>3, <2>4, <2>5, Balanced
  <1> QED  BY <1>1, <1>2, <1>5, <1>7 DEF Core, Shape

\* An admitted payload is placed and waits.
LEMMA AdmitStep ==
    ASSUME Core, Stir, NEW j \in Job, Admit(j) PROVE Core'
  <1> USE DEF SubGo, counters, places, locals
  <1>0. Shape /\ SubGo(j, "decide", "done")
    BY DEF Core, Admit
  <1>t. /\ totals \in Nat /\ pre.staged \in Nat /\ pre.pending \in Nat
        /\ terminal.completed \in Nat /\ terminal.failed \in Nat /\ Len(staging) \in Nat
        /\ Placed \in Nat /\ Begun \in Nat /\ Uncounted \in Nat /\ Cardinality(Waiting) \in Nat
        /\ InHand \in Nat /\ InRun \in Nat /\ Undecremented \in Nat /\ Draining \in Nat
    BY <1>0, Types
  <1>1. TypeOK'
    BY <1>0, StirTypes DEF Admit, Shape, TypeOK, SubPC
  <1>2. HandOK' /\ Clean' /\ Spent' = Spent /\ hazy' = hazy
    BY <1>0 DEF Admit, Shape, TypeOK, HandOK, Clean, Spent
  <1>3. Placed' = Placed + 1 /\ Begun' = Begun /\ Uncounted' = Uncounted
    <2>1. /\ Placed' = Placed + Is("done", PlacedPC) - Is("decide", PlacedPC)
          /\ Begun' = Begun + Is("done", BegunPC) - Is("decide", BegunPC)
          /\ Uncounted' = Uncounted + Is("done", CountPC) - Is("decide", CountPC)
      BY <1>0, SubCounts
    <2> QED  BY <1>t, <2>1 DEF Is, PlacedPC, BegunPC, CountPC
  <1>4. /\ InHand' = InHand /\ InRun' = InRun
        /\ Undecremented' = Undecremented /\ Draining' = Draining
    BY WrkStay DEF Admit
  <1>5. IsFiniteSet(Waiting') /\ Cardinality(Waiting') = Cardinality(Waiting) + 1
    BY <1>0, OneMore DEF Admit, Shape, TypeOK
  <1>6. /\ Len(staging') = Len(staging) /\ totals' = totals
        /\ pre'.staged = pre.staged /\ pre'.pending = pre.pending
        /\ terminal'.completed + terminal'.failed = terminal.completed + terminal.failed
    BY <1>t DEF Admit, Shape, TypeOK
  <1>7. PayloadsKept' /\ Tallied'
    <2>1. InPlay = Len(staging) + Cardinality(Waiting) + InHand + InRun
                      + (terminal.completed + terminal.failed)
      BY DEF InPlay, InHand, InRun
    <2>2. InPlay' - Placed' = InPlay - Placed
      <3>1. InPlay' = Len(staging) + (Cardinality(Waiting) + 1) + InHand + InRun
                      + (terminal.completed + terminal.failed)
        BY <1>4, <1>5, <1>6 DEF InPlay, InHand, InRun
      <3>2. Placed' = Placed + 1
        BY <1>3
      <3> QED  BY SMTT(60), <1>t, <2>1, <3>1, <3>2
    <2>3. TotalExact => TotalExact'
      BY <1>t, <1>3, <1>6 DEF TotalExact
    <2>4. StagedExact => StagedExact'
      <3>1. /\ pre'.staged + Uncounted' = pre.staged + Uncounted
            /\ Len(staging') + Undecremented' = Len(staging) + Undecremented
        BY <1>3, <1>4, <1>6
      <3> QED  BY SMTT(60), <1>t, <3>1 DEF StagedExact
    <2>5. PendingExact => PendingExact'
      BY <1>t, <1>4, <1>6 DEF PendingExact
    <2> QED  BY <1>2, <2>2, <2>3, <2>4, <2>5, Balanced
  <1> QED  BY <1>1, <1>2, <1>5, <1>7 DEF Core, Shape

\* A staged payload is placed; its counter lags.
LEMMA StageStep ==
    ASSUME Core, Stir, NEW j \in Job, Stage(j) PROVE Core'
  <1> USE DEF SubGo, counters, places, locals
  <1>0. Shape /\ SubGo(j, "decide", "count")
    BY DEF Core, Stage
  <1>t. /\ totals \in Nat /\ pre.staged \in Nat /\ pre.pending \in Nat
        /\ terminal.completed \in Nat /\ terminal.failed \in Nat /\ Len(staging) \in Nat
        /\ Placed \in Nat /\ Begun \in Nat /\ Uncounted \in Nat /\ Cardinality(Waiting) \in Nat
        /\ InHand \in Nat /\ InRun \in Nat /\ Undecremented \in Nat /\ Draining \in Nat
    BY <1>0, Types
  <1>1. TypeOK'
    BY <1>0, StirTypes DEF Stage, Shape, TypeOK, SubPC
  <1>2. HandOK' /\ Clean' /\ Spent' = Spent /\ hazy' = hazy
    BY <1>0 DEF Stage, Shape, TypeOK, HandOK, Clean, Spent
  <1>3. Placed' = Placed + 1 /\ Begun' = Begun /\ Uncounted' = Uncounted + 1
    <2>1. /\ Placed' = Placed + Is("count", PlacedPC) - Is("decide", PlacedPC)
          /\ Begun' = Begun + Is("count", BegunPC) - Is("decide", BegunPC)
          /\ Uncounted' = Uncounted + Is("count", CountPC) - Is("decide", CountPC)
      BY <1>0, SubCounts
    <2> QED  BY <1>t, <2>1 DEF Is, PlacedPC, BegunPC, CountPC
  <1>4. /\ InHand' = InHand /\ InRun' = InRun
        /\ Undecremented' = Undecremented /\ Draining' = Draining
    BY WrkStay DEF Stage
  <1>5. IsFiniteSet(Waiting') /\ Cardinality(Waiting') = Cardinality(Waiting)
    BY <1>0, WaitingStay DEF Stage, Shape, TypeOK
  <1>6. /\ Len(staging') = Len(staging) + 1 /\ totals' = totals
        /\ pre'.staged = pre.staged /\ pre'.pending = pre.pending
        /\ terminal'.completed + terminal'.failed = terminal.completed + terminal.failed
    BY <1>t DEF Stage, Shape, TypeOK
  <1>7. PayloadsKept' /\ Tallied'
    <2>1. InPlay = Len(staging) + Cardinality(Waiting) + InHand + InRun
                      + (terminal.completed + terminal.failed)
      BY DEF InPlay, InHand, InRun
    <2>2. InPlay' - Placed' = InPlay - Placed
      <3>1. InPlay' = (Len(staging) + 1) + Cardinality(Waiting) + InHand + InRun
                      + (terminal.completed + terminal.failed)
        BY <1>4, <1>5, <1>6 DEF InPlay, InHand, InRun
      <3>2. Placed' = Placed + 1
        BY <1>3
      <3>3. PICK l \in Nat : l = Len(staging)
        BY <1>t
      <3>4. /\ InPlay = l + Cardinality(Waiting) + InHand + InRun
                      + (terminal.completed + terminal.failed)
            /\ InPlay' = (l + 1) + Cardinality(Waiting) + InHand + InRun
                      + (terminal.completed + terminal.failed)
        BY <2>1, <3>1, <3>3
      <3> QED  BY SMTT(60), <1>t, <3>2, <3>4
    <2>3. TotalExact => TotalExact'
      BY <1>t, <1>3, <1>6 DEF TotalExact
    <2>4. StagedExact => StagedExact'
      <3>1. /\ pre'.staged + Uncounted' = pre.staged + (Uncounted + 1)
            /\ Len(staging') + Undecremented' = (Len(staging) + 1) + Undecremented
        BY <1>3, <1>4, <1>6
      <3> QED  BY SMTT(60), <1>t, <3>1 DEF StagedExact
    <2>5. PendingExact => PendingExact'
      BY <1>t, <1>4, <1>6 DEF PendingExact
    <2> QED  BY <1>2, <2>2, <2>3, <2>4, <2>5, Balanced
  <1> QED  BY <1>1, <1>2, <1>5, <1>7 DEF Core, Shape

\* The counter of staged payloads catches up.
LEMMA IncrementStagedStep ==
    ASSUME Core, Stir, NEW j \in Job, IncrementStaged(j) PROVE Core'
  <1> USE DEF SubGo, counters, places, locals
  <1>0. Shape /\ SubGo(j, "count", "done")
    BY DEF Core, IncrementStaged
  <1>t. /\ totals \in Nat /\ pre.staged \in Nat /\ pre.pending \in Nat
        /\ terminal.completed \in Nat /\ terminal.failed \in Nat /\ Len(staging) \in Nat
        /\ Placed \in Nat /\ Begun \in Nat /\ Uncounted \in Nat /\ Cardinality(Waiting) \in Nat
        /\ InHand \in Nat /\ InRun \in Nat /\ Undecremented \in Nat /\ Draining \in Nat
    BY <1>0, Types
  <1>1. TypeOK'
    <2>1. pre' = [pre EXCEPT !.staged = pre.staged + 1]
      BY DEF IncrementStaged
    <2>2. pre \in [staged : Nat, pending : Nat] /\ pre.staged + 1 \in Nat
      BY <1>0, <1>t DEF Shape, TypeOK
    <2>3. pre' \in [staged : Nat, pending : Nat]
      BY <2>1, <2>2
    <2> QED  BY <1>0, <2>3, StirTypes DEF IncrementStaged, Shape, TypeOK, SubPC
  <1>2. HandOK' /\ Clean' /\ Spent' = Spent /\ hazy' = hazy
    BY <1>0 DEF IncrementStaged, Shape, TypeOK, HandOK, Clean, Spent
  <1>3. Placed' = Placed /\ Begun' = Begun /\ Uncounted' = Uncounted - 1
    <2>1. /\ Placed' = Placed + Is("done", PlacedPC) - Is("count", PlacedPC)
          /\ Begun' = Begun + Is("done", BegunPC) - Is("count", BegunPC)
          /\ Uncounted' = Uncounted + Is("done", CountPC) - Is("count", CountPC)
      BY <1>0, SubCounts
    <2> QED  BY <1>t, <2>1 DEF Is, PlacedPC, BegunPC, CountPC
  <1>4. /\ InHand' = InHand /\ InRun' = InRun
        /\ Undecremented' = Undecremented /\ Draining' = Draining
    BY WrkStay DEF IncrementStaged
  <1>5. IsFiniteSet(Waiting') /\ Cardinality(Waiting') = Cardinality(Waiting)
    BY <1>0, WaitingStay DEF IncrementStaged, Shape, TypeOK
  <1>6. /\ Len(staging') = Len(staging) /\ totals' = totals
        /\ pre'.staged = pre.staged + 1 /\ pre'.pending = pre.pending
        /\ terminal'.completed + terminal'.failed = terminal.completed + terminal.failed
    BY <1>t DEF IncrementStaged, Shape, TypeOK
  <1>7. PayloadsKept' /\ Tallied'
    <2>1. InPlay = Len(staging) + Cardinality(Waiting) + InHand + InRun
                      + (terminal.completed + terminal.failed)
      BY DEF InPlay, InHand, InRun
    <2>2. InPlay' - Placed' = InPlay - Placed
      <3>1. InPlay' = Len(staging) + Cardinality(Waiting) + InHand + InRun
                      + (terminal.completed + terminal.failed)
        BY <1>4, <1>5, <1>6 DEF InPlay, InHand, InRun
      <3>2. Placed' = Placed
        BY <1>3
      <3> QED  BY SMTT(60), <1>t, <2>1, <3>1, <3>2
    <2>3. TotalExact => TotalExact'
      BY <1>t, <1>3, <1>6 DEF TotalExact
    <2>4. StagedExact => StagedExact'
      <3>1. /\ pre'.staged + Uncounted' = (pre.staged + 1) + (Uncounted - 1)
            /\ Len(staging') + Undecremented' = Len(staging) + Undecremented
        BY <1>3, <1>4, <1>6
      <3> QED  BY SMTT(60), <1>t, <3>1 DEF StagedExact
    <2>5. PendingExact => PendingExact'
      BY <1>t, <1>4, <1>6 DEF PendingExact
    <2> QED  BY <1>2, <2>2, <2>3, <2>4, <2>5, Balanced
  <1> QED  BY <1>1, <1>2, <1>5, <1>7 DEF Core, Shape

\* A waiting job becomes a running one.
LEMMA TakeStep ==
    ASSUME Core, Stir, NEW w \in Worker, NEW j \in Job, Take(w, j) PROVE Core'
  <1> USE DEF WrkGo, counters, places, locals
  <1>0. Shape /\ WrkGo(w, "idle", "run")
    BY DEF Core, Take
  <1>t. /\ totals \in Nat /\ pre.staged \in Nat /\ pre.pending \in Nat
        /\ terminal.completed \in Nat /\ terminal.failed \in Nat /\ Len(staging) \in Nat
        /\ Placed \in Nat /\ Begun \in Nat /\ Uncounted \in Nat /\ Cardinality(Waiting) \in Nat
        /\ InHand \in Nat /\ InRun \in Nat /\ Undecremented \in Nat /\ Draining \in Nat
    BY <1>0, Types
  <1>1. TypeOK'
    BY <1>0, StirTypes DEF Take, Shape, TypeOK, HandOK, WrkPC
  <1>2. HandOK' /\ Clean' /\ Spent' = Spent /\ hazy' = hazy
    BY <1>0 DEF Take, Shape, TypeOK, HandOK, Clean, Spent
  <1>3. Placed' = Placed /\ Begun' = Begun /\ Uncounted' = Uncounted
    BY SubStay DEF Take
  <1>4. /\ InHand' = InHand /\ InRun' = InRun + 1
        /\ Undecremented' = Undecremented /\ Draining' = Draining
    <2>1. /\ InHand' = InHand + Is("run", HandPC) - Is("idle", HandPC)
          /\ InRun' = InRun + Is("run", RunPC) - Is("idle", RunPC)
          /\ Undecremented' = Undecremented + Is("run", LagPC) - Is("idle", LagPC)
          /\ Draining' = Draining + Is("run", DrainPC) - Is("idle", DrainPC)
      BY <1>0, WrkCounts
    <2> QED  BY <1>t, <2>1 DEF Is, HandPC, RunPC, LagPC, DrainPC
  <1>5. IsFiniteSet(Waiting') /\ Cardinality(Waiting') = Cardinality(Waiting) - 1
    BY <1>0, OneLess DEF Take, Shape, TypeOK, HandOK
  <1>6. /\ Len(staging') = Len(staging) /\ totals' = totals
        /\ pre'.staged = pre.staged /\ pre'.pending = pre.pending
        /\ terminal'.completed + terminal'.failed = terminal.completed + terminal.failed
    BY <1>t DEF Take, Shape, TypeOK
  <1>7. PayloadsKept' /\ Tallied'
    <2>1. InPlay = Len(staging) + Cardinality(Waiting) + InHand + InRun
                      + (terminal.completed + terminal.failed)
      BY DEF InPlay, InHand, InRun
    <2>2. InPlay' - Placed' = InPlay - Placed
      <3>1. InPlay' = Len(staging) + (Cardinality(Waiting) - 1) + InHand + (InRun + 1)
                      + (terminal.completed + terminal.failed)
        BY <1>4, <1>5, <1>6 DEF InPlay, InHand, InRun
      <3>2. Placed' = Placed
        BY <1>3
      <3> QED  BY SMTT(60), <1>t, <2>1, <3>1, <3>2
    <2>3. TotalExact => TotalExact'
      BY <1>t, <1>3, <1>6 DEF TotalExact
    <2>4. StagedExact => StagedExact'
      <3>1. /\ pre'.staged + Uncounted' = pre.staged + Uncounted
            /\ Len(staging') + Undecremented' = Len(staging) + Undecremented
        BY <1>3, <1>4, <1>6
      <3> QED  BY SMTT(60), <1>t, <3>1 DEF StagedExact
    <2>5. PendingExact => PendingExact'
      BY <1>t, <1>4, <1>6 DEF PendingExact
    <2> QED  BY <1>2, <2>2, <2>3, <2>4, <2>5, Balanced
  <1> QED  BY <1>1, <1>2, <1>5, <1>7 DEF Core, Shape

\* The job is still counted as running.
LEMMA FinishStep ==
    ASSUME Core, Stir, NEW w \in Worker, Finish(w) PROVE Core'
  <1> USE DEF WrkGo, counters, places, locals
  <1>0. Shape /\ WrkGo(w, "run", "tally")
    BY DEF Core, Finish
  <1>t. /\ totals \in Nat /\ pre.staged \in Nat /\ pre.pending \in Nat
        /\ terminal.completed \in Nat /\ terminal.failed \in Nat /\ Len(staging) \in Nat
        /\ Placed \in Nat /\ Begun \in Nat /\ Uncounted \in Nat /\ Cardinality(Waiting) \in Nat
        /\ InHand \in Nat /\ InRun \in Nat /\ Undecremented \in Nat /\ Draining \in Nat
    BY <1>0, Types
  <1>1. TypeOK'
    BY <1>0, StirTypes DEF Finish, Shape, TypeOK, HandOK, WrkPC
  <1>2. HandOK' /\ Clean' /\ Spent' = Spent /\ hazy' = hazy
    BY <1>0 DEF Finish, Shape, TypeOK, HandOK, Clean, Spent
  <1>3. Placed' = Placed /\ Begun' = Begun /\ Uncounted' = Uncounted
    BY SubStay DEF Finish
  <1>4. /\ InHand' = InHand /\ InRun' = InRun
        /\ Undecremented' = Undecremented /\ Draining' = Draining
    <2>1. /\ InHand' = InHand + Is("tally", HandPC) - Is("run", HandPC)
          /\ InRun' = InRun + Is("tally", RunPC) - Is("run", RunPC)
          /\ Undecremented' = Undecremented + Is("tally", LagPC) - Is("run", LagPC)
          /\ Draining' = Draining + Is("tally", DrainPC) - Is("run", DrainPC)
      BY <1>0, WrkCounts
    <2> QED  BY <1>t, <2>1 DEF Is, HandPC, RunPC, LagPC, DrainPC
  <1>5. IsFiniteSet(Waiting') /\ Cardinality(Waiting') = Cardinality(Waiting)
    BY <1>0, WaitingStay DEF Finish, Shape, TypeOK, HandOK
  <1>6. /\ Len(staging') = Len(staging) /\ totals' = totals
        /\ pre'.staged = pre.staged /\ pre'.pending = pre.pending
        /\ terminal'.completed + terminal'.failed = terminal.completed + terminal.failed
    BY <1>t DEF Finish, Shape, TypeOK
  <1>7. PayloadsKept' /\ Tallied'
    <2>1. InPlay = Len(staging) + Cardinality(Waiting) + InHand + InRun
                      + (terminal.completed + terminal.failed)
      BY DEF InPlay, InHand, InRun
    <2>2. InPlay' - Placed' = InPlay - Placed
      <3>1. InPlay' = Len(staging) + Cardinality(Waiting) + InHand + InRun
                      + (terminal.completed + terminal.failed)
        BY <1>4, <1>5, <1>6 DEF InPlay, InHand, InRun
      <3>2. Placed' = Placed
        BY <1>3
      <3> QED  BY SMTT(60), <1>t, <2>1, <3>1, <3>2
    <2>3. TotalExact => TotalExact'
      BY <1>t, <1>3, <1>6 DEF TotalExact
    <2>4. StagedExact => StagedExact'
      <3>1. /\ pre'.staged + Uncounted' = pre.staged + Uncounted
            /\ Len(staging') + Undecremented' = Len(staging) + Undecremented
        BY <1>3, <1>4, <1>6
      <3> QED  BY SMTT(60), <1>t, <3>1 DEF StagedExact
    <2>5. PendingExact => PendingExact'
      BY <1>t, <1>4, <1>6 DEF PendingExact
    <2> QED  BY <1>2, <2>2, <2>3, <2>4, <2>5, Balanced
  <1> QED  BY <1>1, <1>2, <1>5, <1>7 DEF Core, Shape

\* A running job becomes a completed or a failed one.
LEMMA TallyStep ==
    ASSUME Core, Stir, NEW w \in Worker, Tally(w) PROVE Core'
  <1> USE DEF WrkGo, counters, places, locals
  <1>0. Shape /\ WrkGo(w, "tally", "lpop")
    BY DEF Core, Tally
  <1>t. /\ totals \in Nat /\ pre.staged \in Nat /\ pre.pending \in Nat
        /\ terminal.completed \in Nat /\ terminal.failed \in Nat /\ Len(staging) \in Nat
        /\ Placed \in Nat /\ Begun \in Nat /\ Uncounted \in Nat /\ Cardinality(Waiting) \in Nat
        /\ InHand \in Nat /\ InRun \in Nat /\ Undecremented \in Nat /\ Draining \in Nat
    BY <1>0, Types
  <1>1. TypeOK'
    BY <1>0, StirTypes DEF Tally, Shape, TypeOK, HandOK, WrkPC
  <1>2. HandOK' /\ Clean' /\ Spent' = Spent /\ hazy' = hazy
    BY <1>0 DEF Tally, Shape, TypeOK, HandOK, Clean, Spent
  <1>3. Placed' = Placed /\ Begun' = Begun /\ Uncounted' = Uncounted
    BY SubStay DEF Tally
  <1>4. /\ InHand' = InHand /\ InRun' = InRun - 1
        /\ Undecremented' = Undecremented /\ Draining' = Draining
    <2>1. /\ InHand' = InHand + Is("lpop", HandPC) - Is("tally", HandPC)
          /\ InRun' = InRun + Is("lpop", RunPC) - Is("tally", RunPC)
          /\ Undecremented' = Undecremented + Is("lpop", LagPC) - Is("tally", LagPC)
          /\ Draining' = Draining + Is("lpop", DrainPC) - Is("tally", DrainPC)
      BY <1>0, WrkCounts
    <2> QED  BY <1>t, <2>1 DEF Is, HandPC, RunPC, LagPC, DrainPC
  <1>5. IsFiniteSet(Waiting') /\ Cardinality(Waiting') = Cardinality(Waiting)
    BY <1>0, WaitingStay DEF Tally, Shape, TypeOK, HandOK
  <1>6. /\ Len(staging') = Len(staging) /\ totals' = totals
        /\ pre'.staged = pre.staged /\ pre'.pending = pre.pending
        /\ terminal'.completed + terminal'.failed = terminal.completed + terminal.failed + 1
    <2>1. terminal' = IF won[w] THEN [terminal EXCEPT !.completed = terminal.completed + 1]
                                ELSE [terminal EXCEPT !.failed = terminal.failed + 1]
      BY DEF Tally
    <2>2. terminal \in [completed : Nat, failed : Nat]
      BY <1>0 DEF Shape, TypeOK
    <2>3. CASE won[w]
      <3>1. terminal'.completed = terminal.completed + 1 /\ terminal'.failed = terminal.failed
        BY <2>1, <2>2, <2>3
      <3>2. terminal'.completed + terminal'.failed = terminal.completed + terminal.failed + 1
        BY SMTT(30), <1>t, <3>1
      <3> QED  BY <3>2 DEF Tally
    <2>4. CASE ~won[w]
      <3>1. terminal'.completed = terminal.completed /\ terminal'.failed = terminal.failed + 1
        BY <2>1, <2>2, <2>4
      <3>2. terminal'.completed + terminal'.failed = terminal.completed + terminal.failed + 1
        BY SMTT(30), <1>t, <3>1
      <3> QED  BY <3>2 DEF Tally
    <2> QED  BY <2>3, <2>4
  <1>7. PayloadsKept' /\ Tallied'
    <2>1. InPlay = Len(staging) + Cardinality(Waiting) + InHand + InRun
                      + (terminal.completed + terminal.failed)
      BY DEF InPlay, InHand, InRun
    <2>2. InPlay' - Placed' = InPlay - Placed
      <3>1. InPlay' = Len(staging) + Cardinality(Waiting) + InHand + (InRun - 1)
                      + (terminal.completed + terminal.failed + 1)
        BY <1>4, <1>5, <1>6 DEF InPlay, InHand, InRun
      <3>2. Placed' = Placed
        BY <1>3
      <3> QED  BY SMTT(60), <1>t, <2>1, <3>1, <3>2
    <2>3. TotalExact => TotalExact'
      BY <1>t, <1>3, <1>6 DEF TotalExact
    <2>4. StagedExact => StagedExact'
      <3>1. /\ pre'.staged + Uncounted' = pre.staged + Uncounted
            /\ Len(staging') + Undecremented' = Len(staging) + Undecremented
        BY <1>3, <1>4, <1>6
      <3> QED  BY SMTT(60), <1>t, <3>1 DEF StagedExact
    <2>5. PendingExact => PendingExact'
      BY <1>t, <1>4, <1>6 DEF PendingExact
    <2> QED  BY <1>2, <2>2, <2>3, <2>4, <2>5, Balanced
  <1> QED  BY <1>1, <1>2, <1>5, <1>7 DEF Core, Shape

\* The worker is free again.
LEMMA AckStep ==
    ASSUME Core, Stir, NEW w \in Worker, Ack(w) PROVE Core'
  <1> USE DEF WrkGo, counters, places, locals
  <1>0. Shape /\ WrkGo(w, "ack", "idle")
    BY DEF Core, Ack
  <1>t. /\ totals \in Nat /\ pre.staged \in Nat /\ pre.pending \in Nat
        /\ terminal.completed \in Nat /\ terminal.failed \in Nat /\ Len(staging) \in Nat
        /\ Placed \in Nat /\ Begun \in Nat /\ Uncounted \in Nat /\ Cardinality(Waiting) \in Nat
        /\ InHand \in Nat /\ InRun \in Nat /\ Undecremented \in Nat /\ Draining \in Nat
    BY <1>0, Types
  <1>1. TypeOK'
    BY <1>0, StirTypes DEF Ack, Shape, TypeOK, HandOK, WrkPC
  <1>2. HandOK' /\ Clean' /\ Spent' = Spent /\ hazy' = hazy
    BY <1>0 DEF Ack, Shape, TypeOK, HandOK, Clean, Spent
  <1>3. Placed' = Placed /\ Begun' = Begun /\ Uncounted' = Uncounted
    BY SubStay DEF Ack
  <1>4. /\ InHand' = InHand /\ InRun' = InRun
        /\ Undecremented' = Undecremented /\ Draining' = Draining
    <2>1. /\ InHand' = InHand + Is("idle", HandPC) - Is("ack", HandPC)
          /\ InRun' = InRun + Is("idle", RunPC) - Is("ack", RunPC)
          /\ Undecremented' = Undecremented + Is("idle", LagPC) - Is("ack", LagPC)
          /\ Draining' = Draining + Is("idle", DrainPC) - Is("ack", DrainPC)
      BY <1>0, WrkCounts
    <2> QED  BY <1>t, <2>1 DEF Is, HandPC, RunPC, LagPC, DrainPC
  <1>5. IsFiniteSet(Waiting') /\ Cardinality(Waiting') = Cardinality(Waiting)
    BY <1>0, WaitingStay DEF Ack, Shape, TypeOK, HandOK
  <1>6. /\ Len(staging') = Len(staging) /\ totals' = totals
        /\ pre'.staged = pre.staged /\ pre'.pending = pre.pending
        /\ terminal'.completed + terminal'.failed = terminal.completed + terminal.failed
    BY <1>t DEF Ack, Shape, TypeOK
  <1>7. PayloadsKept' /\ Tallied'
    <2>1. InPlay = Len(staging) + Cardinality(Waiting) + InHand + InRun
                      + (terminal.completed + terminal.failed)
      BY DEF InPlay, InHand, InRun
    <2>2. InPlay' - Placed' = InPlay - Placed
      <3>1. InPlay' = Len(staging) + Cardinality(Waiting) + InHand + InRun
                      + (terminal.completed + terminal.failed)
        BY <1>4, <1>5, <1>6 DEF InPlay, InHand, InRun
      <3>2. Placed' = Placed
        BY <1>3
      <3> QED  BY SMTT(60), <1>t, <2>1, <3>1, <3>2
    <2>3. TotalExact => TotalExact'
      BY <1>t, <1>3, <1>6 DEF TotalExact
    <2>4. StagedExact => StagedExact'
      <3>1. /\ pre'.staged + Uncounted' = pre.staged + Uncounted
            /\ Len(staging') + Undecremented' = Len(staging) + Undecremented
        BY <1>3, <1>4, <1>6
      <3> QED  BY SMTT(60), <1>t, <3>1 DEF StagedExact
    <2>5. PendingExact => PendingExact'
      BY <1>t, <1>4, <1>6 DEF PendingExact
    <2> QED  BY <1>2, <2>2, <2>3, <2>4, <2>5, Balanced
  <1> QED  BY <1>1, <1>2, <1>5, <1>7 DEF Core, Shape

\* The HGET of decrementStaged().
LEMMA GetStagedStep ==
    ASSUME Core, Stir, NEW w \in Worker, Get(w, "getStaged", "staged", "setStaged") PROVE Core'
  <1> USE DEF WrkGo, counters, places, locals
  <1>0. Shape /\ WrkGo(w, "getStaged", "setStaged")
    BY DEF Core, Get
  <1>t. /\ totals \in Nat /\ pre.staged \in Nat /\ pre.pending \in Nat
        /\ terminal.completed \in Nat /\ terminal.failed \in Nat /\ Len(staging) \in Nat
        /\ Placed \in Nat /\ Begun \in Nat /\ Uncounted \in Nat /\ Cardinality(Waiting) \in Nat
        /\ InHand \in Nat /\ InRun \in Nat /\ Undecremented \in Nat /\ Draining \in Nat
    BY <1>0, Types
  <1>1. TypeOK'
    BY <1>0, StirTypes DEF Get, Shape, TypeOK, HandOK, WrkPC
  <1>2. HandOK' /\ Clean' /\ Spent' = Spent /\ hazy' = hazy
    BY <1>0 DEF Get, Shape, TypeOK, HandOK, Clean, Spent
  <1>3. Placed' = Placed /\ Begun' = Begun /\ Uncounted' = Uncounted
    BY SubStay DEF Get
  <1>4. /\ InHand' = InHand /\ InRun' = InRun
        /\ Undecremented' = Undecremented /\ Draining' = Draining
    <2>1. /\ InHand' = InHand + Is("setStaged", HandPC) - Is("getStaged", HandPC)
          /\ InRun' = InRun + Is("setStaged", RunPC) - Is("getStaged", RunPC)
          /\ Undecremented' = Undecremented + Is("setStaged", LagPC) - Is("getStaged", LagPC)
          /\ Draining' = Draining + Is("setStaged", DrainPC) - Is("getStaged", DrainPC)
      BY <1>0, WrkCounts
    <2> QED  BY <1>t, <2>1 DEF Is, HandPC, RunPC, LagPC, DrainPC
  <1>5. IsFiniteSet(Waiting') /\ Cardinality(Waiting') = Cardinality(Waiting)
    BY <1>0, WaitingStay DEF Get, Shape, TypeOK, HandOK
  <1>6. /\ Len(staging') = Len(staging) /\ totals' = totals
        /\ pre'.staged = pre.staged /\ pre'.pending = pre.pending
        /\ terminal'.completed + terminal'.failed = terminal.completed + terminal.failed
    BY <1>t DEF Get, Shape, TypeOK
  <1>7. PayloadsKept' /\ Tallied'
    <2>1. InPlay = Len(staging) + Cardinality(Waiting) + InHand + InRun
                      + (terminal.completed + terminal.failed)
      BY DEF InPlay, InHand, InRun
    <2>2. InPlay' - Placed' = InPlay - Placed
      <3>1. InPlay' = Len(staging) + Cardinality(Waiting) + InHand + InRun
                      + (terminal.completed + terminal.failed)
        BY <1>4, <1>5, <1>6 DEF InPlay, InHand, InRun
      <3>2. Placed' = Placed
        BY <1>3
      <3> QED  BY SMTT(60), <1>t, <2>1, <3>1, <3>2
    <2>3. TotalExact => TotalExact'
      BY <1>t, <1>3, <1>6 DEF TotalExact
    <2>4. StagedExact => StagedExact'
      <3>1. /\ pre'.staged + Uncounted' = pre.staged + Uncounted
            /\ Len(staging') + Undecremented' = Len(staging) + Undecremented
        BY <1>3, <1>4, <1>6
      <3> QED  BY SMTT(60), <1>t, <3>1 DEF StagedExact
    <2>5. PendingExact => PendingExact'
      BY <1>t, <1>4, <1>6 DEF PendingExact
    <2> QED  BY <1>2, <2>2, <2>3, <2>4, <2>5, Balanced
  <1> QED  BY <1>1, <1>2, <1>5, <1>7 DEF Core, Shape

\* The HGET of decrementReleasePending().
LEMMA GetPendingStep ==
    ASSUME Core, Stir, NEW w \in Worker, Get(w, "getPending", "pending", "setPending") PROVE Core'
  <1> USE DEF WrkGo, counters, places, locals
  <1>0. Shape /\ WrkGo(w, "getPending", "setPending")
    BY DEF Core, Get
  <1>t. /\ totals \in Nat /\ pre.staged \in Nat /\ pre.pending \in Nat
        /\ terminal.completed \in Nat /\ terminal.failed \in Nat /\ Len(staging) \in Nat
        /\ Placed \in Nat /\ Begun \in Nat /\ Uncounted \in Nat /\ Cardinality(Waiting) \in Nat
        /\ InHand \in Nat /\ InRun \in Nat /\ Undecremented \in Nat /\ Draining \in Nat
    BY <1>0, Types
  <1>1. TypeOK'
    BY <1>0, StirTypes DEF Get, Shape, TypeOK, HandOK, WrkPC
  <1>2. HandOK' /\ Clean' /\ Spent' = Spent /\ hazy' = hazy
    BY <1>0 DEF Get, Shape, TypeOK, HandOK, Clean, Spent
  <1>3. Placed' = Placed /\ Begun' = Begun /\ Uncounted' = Uncounted
    BY SubStay DEF Get
  <1>4. /\ InHand' = InHand /\ InRun' = InRun
        /\ Undecremented' = Undecremented /\ Draining' = Draining
    <2>1. /\ InHand' = InHand + Is("setPending", HandPC) - Is("getPending", HandPC)
          /\ InRun' = InRun + Is("setPending", RunPC) - Is("getPending", RunPC)
          /\ Undecremented' = Undecremented + Is("setPending", LagPC) - Is("getPending", LagPC)
          /\ Draining' = Draining + Is("setPending", DrainPC) - Is("getPending", DrainPC)
      BY <1>0, WrkCounts
    <2> QED  BY <1>t, <2>1 DEF Is, HandPC, RunPC, LagPC, DrainPC
  <1>5. IsFiniteSet(Waiting') /\ Cardinality(Waiting') = Cardinality(Waiting)
    BY <1>0, WaitingStay DEF Get, Shape, TypeOK, HandOK
  <1>6. /\ Len(staging') = Len(staging) /\ totals' = totals
        /\ pre'.staged = pre.staged /\ pre'.pending = pre.pending
        /\ terminal'.completed + terminal'.failed = terminal.completed + terminal.failed
    BY <1>t DEF Get, Shape, TypeOK
  <1>7. PayloadsKept' /\ Tallied'
    <2>1. InPlay = Len(staging) + Cardinality(Waiting) + InHand + InRun
                      + (terminal.completed + terminal.failed)
      BY DEF InPlay, InHand, InRun
    <2>2. InPlay' - Placed' = InPlay - Placed
      <3>1. InPlay' = Len(staging) + Cardinality(Waiting) + InHand + InRun
                      + (terminal.completed + terminal.failed)
        BY <1>4, <1>5, <1>6 DEF InPlay, InHand, InRun
      <3>2. Placed' = Placed
        BY <1>3
      <3> QED  BY SMTT(60), <1>t, <2>1, <3>1, <3>2
    <2>3. TotalExact => TotalExact'
      BY <1>t, <1>3, <1>6 DEF TotalExact
    <2>4. StagedExact => StagedExact'
      <3>1. /\ pre'.staged + Uncounted' = pre.staged + Uncounted
            /\ Len(staging') + Undecremented' = Len(staging) + Undecremented
        BY <1>3, <1>4, <1>6
      <3> QED  BY SMTT(60), <1>t, <3>1 DEF StagedExact
    <2>5. PendingExact => PendingExact'
      BY <1>t, <1>4, <1>6 DEF PendingExact
    <2> QED  BY <1>2, <2>2, <2>3, <2>4, <2>5, Balanced
  <1> QED  BY <1>1, <1>2, <1>5, <1>7 DEF Core, Shape

\* The drain is counted before it enqueues.
LEMMA IncrementPendingStep ==
    ASSUME Core, Stir, NEW w \in Worker, IncrementPending(w) PROVE Core'
  <1> USE DEF WrkGo, counters, places, locals
  <1>0. Shape /\ WrkGo(w, "incPending", "enqueue")
    BY DEF Core, IncrementPending
  <1>t. /\ totals \in Nat /\ pre.staged \in Nat /\ pre.pending \in Nat
        /\ terminal.completed \in Nat /\ terminal.failed \in Nat /\ Len(staging) \in Nat
        /\ Placed \in Nat /\ Begun \in Nat /\ Uncounted \in Nat /\ Cardinality(Waiting) \in Nat
        /\ InHand \in Nat /\ InRun \in Nat /\ Undecremented \in Nat /\ Draining \in Nat
    BY <1>0, Types
  <1>1. TypeOK'
    <2>1. pre' = [pre EXCEPT !.pending = pre.pending + 1]
      BY DEF IncrementPending
    <2>2. pre \in [staged : Nat, pending : Nat] /\ pre.pending + 1 \in Nat
      BY <1>0, <1>t DEF Shape, TypeOK
    <2>3. pre' \in [staged : Nat, pending : Nat]
      BY <2>1, <2>2
    <2> QED  BY <1>0, <2>3, StirTypes DEF IncrementPending, Shape, TypeOK, HandOK, WrkPC
  <1>2. HandOK' /\ Clean' /\ Spent' = Spent /\ hazy' = hazy
    BY <1>0 DEF IncrementPending, Shape, TypeOK, HandOK, Clean, Spent
  <1>3. Placed' = Placed /\ Begun' = Begun /\ Uncounted' = Uncounted
    BY SubStay DEF IncrementPending
  <1>4. /\ InHand' = InHand /\ InRun' = InRun
        /\ Undecremented' = Undecremented /\ Draining' = Draining + 1
    <2>1. /\ InHand' = InHand + Is("enqueue", HandPC) - Is("incPending", HandPC)
          /\ InRun' = InRun + Is("enqueue", RunPC) - Is("incPending", RunPC)
          /\ Undecremented' = Undecremented + Is("enqueue", LagPC) - Is("incPending", LagPC)
          /\ Draining' = Draining + Is("enqueue", DrainPC) - Is("incPending", DrainPC)
      BY <1>0, WrkCounts
    <2> QED  BY <1>t, <2>1 DEF Is, HandPC, RunPC, LagPC, DrainPC
  <1>5. IsFiniteSet(Waiting') /\ Cardinality(Waiting') = Cardinality(Waiting)
    BY <1>0, WaitingStay DEF IncrementPending, Shape, TypeOK, HandOK
  <1>6. /\ Len(staging') = Len(staging) /\ totals' = totals
        /\ pre'.staged = pre.staged /\ pre'.pending = pre.pending + 1
        /\ terminal'.completed + terminal'.failed = terminal.completed + terminal.failed
    BY <1>t DEF IncrementPending, Shape, TypeOK
  <1>7. PayloadsKept' /\ Tallied'
    <2>1. InPlay = Len(staging) + Cardinality(Waiting) + InHand + InRun
                      + (terminal.completed + terminal.failed)
      BY DEF InPlay, InHand, InRun
    <2>2. InPlay' - Placed' = InPlay - Placed
      <3>1. InPlay' = Len(staging) + Cardinality(Waiting) + InHand + InRun
                      + (terminal.completed + terminal.failed)
        BY <1>4, <1>5, <1>6 DEF InPlay, InHand, InRun
      <3>2. Placed' = Placed
        BY <1>3
      <3> QED  BY SMTT(60), <1>t, <2>1, <3>1, <3>2
    <2>3. TotalExact => TotalExact'
      BY <1>t, <1>3, <1>6 DEF TotalExact
    <2>4. StagedExact => StagedExact'
      <3>1. /\ pre'.staged + Uncounted' = pre.staged + Uncounted
            /\ Len(staging') + Undecremented' = Len(staging) + Undecremented
        BY <1>3, <1>4, <1>6
      <3> QED  BY SMTT(60), <1>t, <3>1 DEF StagedExact
    <2>5. PendingExact => PendingExact'
      BY <1>t, <1>4, <1>6 DEF PendingExact
    <2> QED  BY <1>2, <2>2, <2>3, <2>4, <2>5, Balanced
  <1> QED  BY <1>1, <1>2, <1>5, <1>7 DEF Core, Shape

\* The payload in hand becomes a waiting job.
LEMMA EnqueueStep ==
    ASSUME Core, Stir, NEW w \in Worker, Enqueue(w) PROVE Core'
  <1> USE DEF WrkGo, counters, places, locals
  <1>0. Shape /\ WrkGo(w, "enqueue", "getPending")
    BY DEF Core, Enqueue
  <1>t. /\ totals \in Nat /\ pre.staged \in Nat /\ pre.pending \in Nat
        /\ terminal.completed \in Nat /\ terminal.failed \in Nat /\ Len(staging) \in Nat
        /\ Placed \in Nat /\ Begun \in Nat /\ Uncounted \in Nat /\ Cardinality(Waiting) \in Nat
        /\ InHand \in Nat /\ InRun \in Nat /\ Undecremented \in Nat /\ Draining \in Nat
    BY <1>0, Types
  <1>1. TypeOK'
    BY <1>0, StirTypes DEF Enqueue, Shape, TypeOK, HandOK, WrkPC
  <1>2. HandOK' /\ Clean' /\ Spent' = Spent /\ hazy' = hazy
    BY <1>0 DEF Enqueue, Shape, TypeOK, HandOK, Clean, Spent
  <1>3. Placed' = Placed /\ Begun' = Begun /\ Uncounted' = Uncounted
    BY SubStay DEF Enqueue
  <1>4. /\ InHand' = InHand - 1 /\ InRun' = InRun
        /\ Undecremented' = Undecremented /\ Draining' = Draining
    <2>1. /\ InHand' = InHand + Is("getPending", HandPC) - Is("enqueue", HandPC)
          /\ InRun' = InRun + Is("getPending", RunPC) - Is("enqueue", RunPC)
          /\ Undecremented' = Undecremented + Is("getPending", LagPC) - Is("enqueue", LagPC)
          /\ Draining' = Draining + Is("getPending", DrainPC) - Is("enqueue", DrainPC)
      BY <1>0, WrkCounts
    <2> QED  BY <1>t, <2>1 DEF Is, HandPC, RunPC, LagPC, DrainPC
  <1>5. IsFiniteSet(Waiting') /\ Cardinality(Waiting') = Cardinality(Waiting) + 1
    BY <1>0, OneMore DEF Enqueue, Shape, TypeOK, HandOK
  <1>6. /\ Len(staging') = Len(staging) /\ totals' = totals
        /\ pre'.staged = pre.staged /\ pre'.pending = pre.pending
        /\ terminal'.completed + terminal'.failed = terminal.completed + terminal.failed
    BY <1>t DEF Enqueue, Shape, TypeOK
  <1>7. PayloadsKept' /\ Tallied'
    <2>1. InPlay = Len(staging) + Cardinality(Waiting) + InHand + InRun
                      + (terminal.completed + terminal.failed)
      BY DEF InPlay, InHand, InRun
    <2>2. InPlay' - Placed' = InPlay - Placed
      <3>1. InPlay' = Len(staging) + (Cardinality(Waiting) + 1) + (InHand - 1) + InRun
                      + (terminal.completed + terminal.failed)
        BY <1>4, <1>5, <1>6 DEF InPlay, InHand, InRun
      <3>2. Placed' = Placed
        BY <1>3
      <3> QED  BY SMTT(60), <1>t, <2>1, <3>1, <3>2
    <2>3. TotalExact => TotalExact'
      BY <1>t, <1>3, <1>6 DEF TotalExact
    <2>4. StagedExact => StagedExact'
      <3>1. /\ pre'.staged + Uncounted' = pre.staged + Uncounted
            /\ Len(staging') + Undecremented' = Len(staging) + Undecremented
        BY <1>3, <1>4, <1>6
      <3> QED  BY SMTT(60), <1>t, <3>1 DEF StagedExact
    <2>5. PendingExact => PendingExact'
      BY <1>t, <1>4, <1>6 DEF PendingExact
    <2> QED  BY <1>2, <2>2, <2>3, <2>4, <2>5, Balanced
  <1> QED  BY <1>1, <1>2, <1>5, <1>7 DEF Core, Shape

\* A throw may cost or double one payload, and ends what the counters promise.
LEMMA Thrown ==
    ASSUME Core, Spent' = Spent + 1,
           InPlay' - Placed' \in {InPlay - Placed - 1, InPlay - Placed, InPlay - Placed + 1}
    PROVE  PayloadsKept' /\ Tallied'
  <1>1. Spent \in Nat /\ InPlay - Placed \in -Spent .. Spent
    BY Types DEF Core, PayloadsKept
  <1> DEFINE d == InPlay - Placed
             e == InPlay' - Placed'
  <1>2. d \in -Spent .. Spent /\ e \in {d - 1, d, d + 1}
    BY <1>1
  <1> HIDE DEF d, e
  <1>3. e \in -(Spent + 1) .. (Spent + 1)
    BY <1>1, <1>2
  <1>4. Spent' # 0
    BY <1>1
  <1> QED  BY <1>3, <1>4 DEF e, PayloadsKept, Tallied

\* In the catch block something has been thrown: the payload goes back to the list.
LEMMA PutBackStep ==
    ASSUME Core, Stir, NEW w \in Worker, PutBack(w) PROVE Core'
  <1> USE DEF WrkGo, counters, places, locals
  <1>0. Shape /\ WrkGo(w, "lpush", "getPending") /\ Spent # 0 /\ hand[w] \in Job
    BY DEF Core, PutBack, Shape, Clean, HandOK
  <1>1. staging' \in Seq(Job) /\ Len(staging') = Len(staging) + 1
    <2>1. staging \in Seq(Job) /\ <<hand[w]>> \in Seq(Job) /\ staging' = <<hand[w]>> \o staging
      BY <1>0 DEF PutBack, Shape, TypeOK
    <2> QED  BY <2>1
  <1>2. back' \in [Worker -> BOOLEAN]
    BY <1>0, Zenon DEF PutBack, Shape, TypeOK
  <1>3. TypeOK'
    BY <1>0, <1>1, <1>2, StirTypes DEF PutBack, Shape, TypeOK, WrkPC
  <1>4. HandOK' /\ Spent' = Spent
    BY <1>0 DEF PutBack, Shape, TypeOK, HandOK, Spent
  <1>5. Placed' = Placed /\ Placed \in Nat
    BY <1>0, SubStay, Types DEF PutBack
  <1>6. InHand' = InHand - 1 /\ InRun' = InRun
    <2>1. /\ InHand' = InHand + Is("getPending", HandPC) - Is("lpush", HandPC)
          /\ InRun' = InRun + Is("getPending", RunPC) - Is("lpush", RunPC)
      BY <1>0, WrkCounts
    <2>2. InHand \in Nat /\ InRun \in Nat
      BY <1>0, Types
    <2> QED  BY <2>1, <2>2 DEF Is, HandPC, RunPC
  <1>7. IsFiniteSet(Waiting') /\ Cardinality(Waiting') = Cardinality(Waiting) /\ terminal' = terminal
    BY <1>0, WaitingStay DEF PutBack
  <1>8. InPlay' = InPlay
    <2>1. PICK l \in Nat : l = Len(staging)
      BY <1>0, Types
    <2>2. PICK t \in Nat : t = terminal.completed + terminal.failed
      <3>1. terminal.completed \in Nat /\ terminal.failed \in Nat
        BY <1>0, Types
      <3> QED  BY <3>1
    <2>3. /\ InPlay = l + Cardinality(Waiting) + InHand + InRun + t
          /\ InPlay' = (l + 1) + Cardinality(Waiting) + (InHand - 1) + InRun + t
      BY <1>1, <1>6, <1>7, <2>1, <2>2 DEF InPlay, InHand, InRun
    <2>4. Cardinality(Waiting) \in Nat /\ InHand \in Nat /\ InRun \in Nat
      BY <1>0, Types
    <2> QED  BY SMTT(60), <2>3, <2>4
  <1>9. PayloadsKept' /\ Tallied' /\ Clean'
    BY <1>0, <1>4, <1>5, <1>8 DEF Core, PayloadsKept, Tallied, Clean
  <1> QED  BY <1>3, <1>4, <1>7, <1>9 DEF Core, Shape

\* Its counter follows.
LEMMA RestoreStagedStep ==
    ASSUME Core, Stir, NEW w \in Worker, RestoreStaged(w) PROVE Core'
  <1> USE DEF WrkGo, counters, places, locals
  <1>0. Shape /\ WrkGo(w, "incStaged", "ack") /\ Spent # 0
    BY DEF Core, RestoreStaged, Shape, Clean
  <1>1. pre' \in [staged : Nat, pending : Nat]
    <2>1. pre' = [pre EXCEPT !.staged = pre.staged + 1]
      BY DEF RestoreStaged
    <2>2. pre \in [staged : Nat, pending : Nat] /\ pre.staged + 1 \in Nat
      BY <1>0, Types DEF Shape, TypeOK
    <2> QED  BY <2>1, <2>2
  <1>2. TypeOK'
    BY <1>0, <1>1, StirTypes DEF RestoreStaged, Shape, TypeOK, WrkPC
  <1>3. HandOK' /\ Spent' = Spent
    BY <1>0 DEF RestoreStaged, Shape, TypeOK, HandOK, Spent
  <1>4. Placed' = Placed
    BY SubStay DEF RestoreStaged
  <1>5. InHand' = InHand /\ InRun' = InRun
    <2>1. /\ InHand' = InHand + Is("ack", HandPC) - Is("incStaged", HandPC)
          /\ InRun' = InRun + Is("ack", RunPC) - Is("incStaged", RunPC)
      BY <1>0, WrkCounts
    <2>2. InHand \in Nat /\ InRun \in Nat
      BY <1>0, Types
    <2> QED  BY <2>1, <2>2 DEF Is, HandPC, RunPC
  <1>6. IsFiniteSet(Waiting') /\ Cardinality(Waiting') = Cardinality(Waiting)
        /\ terminal' = terminal /\ staging' = staging
    BY <1>0, WaitingStay DEF RestoreStaged
  <1>7. InPlay' = InPlay
    BY <1>5, <1>6 DEF InPlay, InHand, InRun
  <1>8. PayloadsKept' /\ Tallied' /\ Clean'
    BY <1>0, <1>3, <1>4, <1>7 DEF Core, PayloadsKept, Tallied, Clean
  <1> QED  BY <1>2, <1>3, <1>6, <1>8 DEF Core, Shape

\* LPOP: the payload leaves the list for the worker's hand.
LEMMA PopStep ==
    ASSUME Core, Stir, NEW w \in Worker, Pop(w) PROVE Core'
  <1> USE DEF WrkGo, counters, places, locals
  <1>0. Shape
    BY DEF Core
  <1>t. /\ pre.staged \in Nat /\ Len(staging) \in Nat /\ Uncounted \in Nat /\ Cardinality(Waiting) \in Nat
        /\ InHand \in Nat /\ InRun \in Nat /\ Undecremented \in Nat /\ Draining \in Nat
        /\ terminal.completed \in Nat /\ terminal.failed \in Nat
    BY <1>0, Types
  <1>1. Placed' = Placed /\ Begun' = Begun /\ Uncounted' = Uncounted
    BY SubStay DEF Pop
  <1>2. IsFiniteSet(Waiting') /\ Cardinality(Waiting') = Cardinality(Waiting)
    BY <1>0, WaitingStay DEF Pop
  <1>3. /\ totals' = totals /\ pre' = pre /\ terminal' = terminal
        /\ hazy' = hazy /\ budget' = budget /\ Spent' = Spent
    BY DEF Pop, Spent
  <1>4. CASE staging = << >>
    <2>1. WrkGo(w, "lpop", "ack") /\ staging' = staging
      BY <1>4 DEF Pop
    <2>2. TypeOK' /\ HandOK' /\ Clean'
      <3>1. TypeOK'
        BY <1>0, <1>4, StirTypes DEF Pop, Shape, TypeOK, WrkPC
      <3>2. HandOK' /\ Clean'
        BY <1>0, <1>3, <1>4 DEF Pop, Shape, TypeOK, HandOK, Clean
      <3> QED  BY <3>1, <3>2
    <2>3. InHand' = InHand /\ InRun' = InRun /\ Undecremented' = Undecremented /\ Draining' = Draining
      <3>1. /\ InHand' = InHand + Is("ack", HandPC) - Is("lpop", HandPC)
            /\ InRun' = InRun + Is("ack", RunPC) - Is("lpop", RunPC)
            /\ Undecremented' = Undecremented + Is("ack", LagPC) - Is("lpop", LagPC)
            /\ Draining' = Draining + Is("ack", DrainPC) - Is("lpop", DrainPC)
        BY <1>0, <2>1, WrkCounts
      <3> QED  BY <1>t, <3>1 DEF Is, HandPC, RunPC, LagPC, DrainPC
    <2>4. InPlay' = InPlay
      BY <1>2, <1>3, <2>1, <2>3 DEF InPlay, InHand, InRun
    <2>5. PayloadsKept' /\ Tallied'
      BY <1>1, <1>3, <2>1, <2>3, <2>4
         DEF Core, PayloadsKept, Tallied, TotalExact, StagedExact, PendingExact
    <2> QED  BY <1>2, <2>2, <2>5 DEF Core, Shape
  <1>5. CASE staging # << >>
    <2>1. /\ WrkGo(w, "lpop", "getStaged")
          /\ hand' = [hand EXCEPT ![w] = Head(staging)] /\ staging' = Tail(staging)
      BY <1>5 DEF Pop
    <2>2. /\ Head(staging) \in Job /\ Tail(staging) \in Seq(Job)
          /\ Len(staging') = Len(staging) - 1
      BY <1>0, <1>5, <2>1 DEF Shape, TypeOK
    <2>3. TypeOK' /\ HandOK' /\ Clean'
      <3>1. TypeOK'
        BY <1>0, <2>1, <2>2, StirTypes DEF Pop, Shape, TypeOK, WrkPC
      <3>2. HandOK' /\ Clean'
        BY <1>0, <1>3, <2>1, <2>2 DEF Pop, Shape, TypeOK, HandOK, Clean
      <3> QED  BY <3>1, <3>2
    <2>4. /\ InHand' = InHand + 1 /\ InRun' = InRun
          /\ Undecremented' = Undecremented + 1 /\ Draining' = Draining
      <3>1. /\ InHand' = InHand + Is("getStaged", HandPC) - Is("lpop", HandPC)
            /\ InRun' = InRun + Is("getStaged", RunPC) - Is("lpop", RunPC)
            /\ Undecremented' = Undecremented + Is("getStaged", LagPC) - Is("lpop", LagPC)
            /\ Draining' = Draining + Is("getStaged", DrainPC) - Is("lpop", DrainPC)
        BY <1>0, <2>1, WrkCounts
      <3> QED  BY <1>t, <3>1 DEF Is, HandPC, RunPC, LagPC, DrainPC
    <2>5. PICK l \in Nat : l = Len(staging)
      BY <1>t
    <2>6. InPlay' = InPlay
      <3>1. PICK t \in Nat : t = terminal.completed + terminal.failed
        BY <1>t
      <3>2. /\ InPlay = l + Cardinality(Waiting) + InHand + InRun + t
            /\ InPlay' = (l - 1) + Cardinality(Waiting) + (InHand + 1) + InRun + t
        BY <1>2, <1>3, <2>2, <2>4, <2>5, <3>1 DEF InPlay, InHand, InRun
      <3> QED  BY SMTT(60), <1>t, <3>2
    <2>7. StagedExact => StagedExact'
      <3>1. /\ Len(staging') + Undecremented' = (l - 1) + (Undecremented + 1)
            /\ pre'.staged + Uncounted' = pre.staged + Uncounted
        BY <1>1, <1>3, <2>2, <2>4, <2>5
      <3>2. (l - 1) + (Undecremented + 1) = l + Undecremented
        BY <1>t
      <3> QED  BY <2>5, <3>1, <3>2 DEF StagedExact
    <2>8. PayloadsKept' /\ Tallied'
      BY <1>1, <1>3, <2>4, <2>6, <2>7 DEF Core, PayloadsKept, Tallied, TotalExact, PendingExact
    <2> QED  BY <1>2, <2>3, <2>8 DEF Core, Shape
  <1> QED  BY <1>4, <1>5

\* decrementFloorZero() leaves a counter that is one less, or hazy tells otherwise.
LEMMA SetPre ==
    ASSUME Shape, NEW w \in Worker, NEW from, NEW field \in {"staged", "pending"}, NEW to,
           Set(w, from, field, to)
    PROVE  /\ pre' \in [staged : Nat, pending : Nat] /\ hazy' \in BOOLEAN
           /\ ~hazy' => ~hazy /\ pre' = [pre EXCEPT ![field] = pre[field] - 1]
  <1>1. /\ pre \in [staged : Nat, pending : Nat] /\ reg[w] \in Nat
        /\ pre' = [pre EXCEPT ![field] = Floor(reg[w] - 1)]
        /\ hazy' = (hazy \/ pre'[field] # pre[field] - 1)
    BY DEF Shape, TypeOK, Set
  <1>2. Floor(reg[w] - 1) \in Nat
    BY <1>1 DEF Floor
  <1>3. pre' \in [staged : Nat, pending : Nat]
    <2>1. CASE field = "staged"   BY <1>1, <1>2, <2>1
    <2>2. CASE field = "pending"  BY <1>1, <1>2, <2>2
    <2> QED  BY <2>1, <2>2
  <1>4. hazy' \in BOOLEAN
    BY <1>1, Zenon
  <1>5. ~hazy' => ~hazy /\ pre'[field] = pre[field] - 1
    BY <1>1, Zenon
  <1>6. pre'[field] = Floor(reg[w] - 1)
    <2>1. CASE field = "staged"   BY <1>1, <2>1
    <2>2. CASE field = "pending"  BY <1>1, <2>2
    <2> QED  BY <2>1, <2>2
  <1> QED  BY <1>1, <1>3, <1>4, <1>5, <1>6, Zenon

\* The HSET of decrementStaged().
LEMMA SetStagedStep ==
    ASSUME Core, Stir, NEW w \in Worker, Set(w, "setStaged", "staged", "incPending")
    PROVE  Core'
  <1> USE DEF WrkGo, counters, places, locals
  <1>0. Shape /\ WrkGo(w, "setStaged", "incPending")
    BY DEF Core, Set
  <1>t. /\ pre.staged \in Nat /\ Len(staging) \in Nat /\ Uncounted \in Nat
        /\ InHand \in Nat /\ InRun \in Nat /\ Undecremented \in Nat /\ Draining \in Nat
    BY <1>0, Types
  <1>1. /\ pre' \in [staged : Nat, pending : Nat] /\ hazy' \in BOOLEAN
        /\ ~hazy' => ~hazy /\ pre' = [pre EXCEPT !["staged"] = pre["staged"] - 1]
    BY <1>0, SetPre
  <1>2. TypeOK'
    BY <1>0, <1>1, StirTypes DEF Set, Shape, TypeOK, WrkPC
  <1>3. HandOK' /\ Clean' /\ Spent' = Spent
    BY <1>0 DEF Set, Shape, TypeOK, HandOK, Clean, Spent
  <1>4. Placed' = Placed /\ Begun' = Begun /\ Uncounted' = Uncounted
    BY SubStay DEF Set
  <1>5. /\ InHand' = InHand /\ InRun' = InRun
        /\ Undecremented' = Undecremented - 1 /\ Draining' = Draining
    <2>1. /\ InHand' = InHand + Is("incPending", HandPC) - Is("setStaged", HandPC)
          /\ InRun' = InRun + Is("incPending", RunPC) - Is("setStaged", RunPC)
          /\ Undecremented' = Undecremented + Is("incPending", LagPC) - Is("setStaged", LagPC)
          /\ Draining' = Draining + Is("incPending", DrainPC) - Is("setStaged", DrainPC)
      BY <1>0, WrkCounts
    <2> QED  BY <1>t, <2>1 DEF Is, HandPC, RunPC, LagPC, DrainPC
  <1>6. /\ IsFiniteSet(Waiting') /\ Cardinality(Waiting') = Cardinality(Waiting)
        /\ staging' = staging /\ terminal' = terminal /\ totals' = totals
    BY <1>0, WaitingStay DEF Set
  <1>7. InPlay' = InPlay
    BY <1>5, <1>6 DEF InPlay, InHand, InRun
  <1>8. TotalExact => TotalExact'
    BY <1>4, <1>6 DEF TotalExact
  <1>9. ASSUME ~hazy'
        PROVE  ~hazy /\ (StagedExact => StagedExact') /\ (PendingExact => PendingExact')
    <2>1. ~hazy /\ pre'.staged = pre.staged - 1 /\ pre'.pending = pre.pending
      BY <1>0, <1>1, <1>9 DEF Shape, TypeOK
    <2>2. /\ pre'.staged + Uncounted' = (pre.staged - 1) + Uncounted
          /\ Len(staging') + Undecremented' = Len(staging) + (Undecremented - 1)
      BY <1>4, <1>5, <1>6, <2>1
    <2>3. StagedExact => StagedExact'
      BY SMTT(60), <1>t, <2>2 DEF StagedExact
    <2> QED  BY <1>5, <2>1, <2>3 DEF PendingExact
  <1>10. PayloadsKept' /\ Tallied'
    BY <1>3, <1>4, <1>7, <1>8, <1>9, Balanced
  <1> QED  BY <1>2, <1>3, <1>6, <1>10 DEF Core, Shape

\* The HSET of decrementReleasePending(), on the way out of the try or of the catch.
LEMMA SetPendingStep ==
    ASSUME Core, Stir, NEW w \in Worker,
           Set(w, "setPending", "pending", IF back[w] THEN "incStaged" ELSE "ack")
    PROVE  Core'
  <1> USE DEF WrkGo, counters, places, locals
  <1>0. PICK to \in {"incStaged", "ack"} :
           /\ WrkGo(w, "setPending", to) /\ (Spent = 0 => to = "ack")
           /\ Set(w, "setPending", "pending", to)
    BY DEF Core, Set, Shape, Clean
  <1>s. Shape
    BY DEF Core
  <1>t. /\ pre.pending \in Nat /\ InHand \in Nat /\ InRun \in Nat
        /\ Undecremented \in Nat /\ Draining \in Nat
    BY <1>s, Types
  <1>1. /\ pre' \in [staged : Nat, pending : Nat] /\ hazy' \in BOOLEAN
        /\ ~hazy' => ~hazy /\ pre' = [pre EXCEPT !["pending"] = pre["pending"] - 1]
    BY <1>0, <1>s, SetPre
  <1>2. TypeOK'
    BY <1>0, <1>1, <1>s, StirTypes DEF Set, Shape, TypeOK, WrkPC
  <1>3. HandOK' /\ Clean' /\ Spent' = Spent
    BY <1>0, <1>s DEF Set, Shape, TypeOK, HandOK, Clean, Spent
  <1>4. Placed' = Placed /\ Begun' = Begun /\ Uncounted' = Uncounted
    BY SubStay DEF Set
  <1>5. /\ InHand' = InHand /\ InRun' = InRun
        /\ Undecremented' = Undecremented /\ Draining' = Draining - 1
    <2>1. /\ InHand' = InHand + Is(to, HandPC) - Is("setPending", HandPC)
          /\ InRun' = InRun + Is(to, RunPC) - Is("setPending", RunPC)
          /\ Undecremented' = Undecremented + Is(to, LagPC) - Is("setPending", LagPC)
          /\ Draining' = Draining + Is(to, DrainPC) - Is("setPending", DrainPC)
      BY <1>0, <1>s, WrkCounts
    <2> QED  BY <1>t, <1>0, <2>1 DEF Is, HandPC, RunPC, LagPC, DrainPC
  <1>6. /\ IsFiniteSet(Waiting') /\ Cardinality(Waiting') = Cardinality(Waiting)
        /\ staging' = staging /\ terminal' = terminal /\ totals' = totals
    BY <1>s, WaitingStay DEF Set
  <1>7. InPlay' = InPlay
    BY <1>5, <1>6 DEF InPlay, InHand, InRun
  <1>8. TotalExact => TotalExact'
    BY <1>4, <1>6 DEF TotalExact
  <1>9. ASSUME ~hazy'
        PROVE  ~hazy /\ (StagedExact => StagedExact') /\ (PendingExact => PendingExact')
    <2>1. ~hazy /\ pre'.staged = pre.staged /\ pre'.pending = pre.pending - 1
      BY <1>1, <1>9, <1>s DEF Shape, TypeOK
    <2>2. StagedExact => StagedExact'
      BY <1>4, <1>5, <1>6, <2>1 DEF StagedExact
    <2> QED  BY <1>5, <2>1, <2>2 DEF PendingExact
  <1>10. PayloadsKept' /\ Tallied'
    BY <1>3, <1>4, <1>7, <1>8, <1>9, Balanced
  <1> QED  BY <1>2, <1>3, <1>6, <1>10 DEF Core, Shape

\* A command of submitJob() throws: a payload already in the list stays there.
LEMMA SubmitThrowsStep ==
    ASSUME Core, Stir, NEW j \in Job, SubmitThrows(j) PROVE Core'
  <1> USE DEF counters, places, locals
  <1>0. Shape /\ SubGo(j, sub[j], "thrown")
    BY DEF Core, SubmitThrows, SubGo
  <1>1. Spent' = Spent + 1 /\ budget' \in 0 .. Faults /\ Spent \in Nat
    BY <1>0, FaultAssumption DEF SubmitThrows, Shape, TypeOK, Spent
  <1>2. TypeOK'
    BY <1>0, <1>1, StirTypes DEF SubmitThrows, Shape, TypeOK, SubPC
  <1>3. HandOK' /\ Clean'
    BY <1>0, <1>1 DEF SubmitThrows, Shape, HandOK, Clean
  <1>4. IsFiniteSet(Waiting') /\ Cardinality(Waiting') = Cardinality(Waiting)
    BY <1>0, WaitingStay DEF SubmitThrows
  <1>5. InPlay' = InPlay
    <2>1. InHand' = InHand /\ InRun' = InRun /\ staging' = staging /\ terminal' = terminal
      BY WrkStay DEF SubmitThrows
    <2> QED  BY <1>4, <2>1 DEF InPlay, InHand, InRun
  <1>6. InPlay \in Int /\ Placed \in Int
    <2>1. /\ Len(staging) \in Nat /\ Cardinality(Waiting) \in Nat /\ InHand \in Nat /\ InRun \in Nat
          /\ terminal.completed \in Nat /\ terminal.failed \in Nat /\ Placed \in Nat
      BY <1>0, Types
    <2> QED  BY <2>1 DEF InPlay, InHand, InRun
  <1>7. Placed' \in {Placed - 1, Placed}
    <2>1. Placed' = Placed + Is("thrown", PlacedPC) - Is(sub[j], PlacedPC)
      BY <1>0, SubCounts
    <2>2. Is("thrown", PlacedPC) = 0 /\ Is(sub[j], PlacedPC) \in {0, 1}
      BY DEF Is, PlacedPC
    <2>3. Is(sub[j], PlacedPC) = 0 \/ Is(sub[j], PlacedPC) = 1
      BY <2>2
    <2> QED  BY <1>6, <2>1, <2>2, <2>3
  <1>8. InPlay' - Placed' \in {InPlay - Placed - 1, InPlay - Placed, InPlay - Placed + 1}
    <2>1. CASE Placed' = Placed      BY <1>5, <2>1
    <2>2. CASE Placed' = Placed - 1  BY <1>5, <1>6, <2>2
    <2> QED  BY <1>7, <2>1, <2>2
  <1>9. PayloadsKept' /\ Tallied'
    BY <1>1, <1>8, Thrown
  <1> QED  BY <1>2, <1>3, <1>4, <1>9 DEF Core, Shape

\* A command of drainOne() throws: the payload in hand is lost, or put back although
\* BullMQ has it, or nothing happens to it.
LEMMA DrainThrowsStep ==
    ASSUME Core, Stir, NEW w \in Worker, DrainThrows(w) PROVE Core'
  <1> USE DEF counters, places, locals
  <1>0. Shape
    BY DEF Core
  <1>1. PICK to \in {"lpush", "ack"} :
          /\ WrkGo(w, wrk[w], to)
          /\ to = "lpush" => wrk[w] \in {"enqueue", "getPending", "setPending"}
          /\ wrk[w] \notin {"idle", "run", "tally", "ack"}
    BY DEF DrainThrows, Caught, WrkGo
  <1>2. Spent' = Spent + 1 /\ budget' \in 0 .. Faults /\ Spent \in Nat
    BY <1>0, FaultAssumption DEF DrainThrows, Shape, TypeOK, Spent
  <1>3. TypeOK'
    BY <1>0, <1>1, <1>2, StirTypes DEF DrainThrows, Shape, TypeOK, WrkPC, WrkGo
  <1>4. HandOK' /\ Clean'
    BY <1>0, <1>1, <1>2 DEF DrainThrows, Shape, TypeOK, HandOK, Clean, WrkGo
  <1>5. IsFiniteSet(Waiting') /\ Cardinality(Waiting') = Cardinality(Waiting)
        /\ staging' = staging /\ terminal' = terminal
    BY <1>0, WaitingStay DEF DrainThrows
  <1>6. Placed' = Placed
    BY SubStay DEF DrainThrows
  <1>7. PICK d \in {-1, 0, 1} : InHand' = InHand + d /\ InRun' = InRun
    <2>1. /\ InHand' = InHand + Is(to, HandPC) - Is(wrk[w], HandPC)
          /\ InRun' = InRun + Is(to, RunPC) - Is(wrk[w], RunPC)
      BY <1>0, <1>1, WrkCounts
    <2>2. Is(to, RunPC) = 0 /\ Is(wrk[w], RunPC) = 0
      BY <1>1 DEF Is, RunPC
    <2>3. Is(to, HandPC) \in {0, 1} /\ Is(wrk[w], HandPC) \in {0, 1}
      BY DEF Is
    <2>4. InHand \in Nat /\ InRun \in Nat
      BY <1>0, Types
    <2> QED  BY <2>1, <2>2, <2>3, <2>4
  <1>8. InPlay' = InPlay + d /\ InPlay \in Int /\ Placed \in Int
    <2>1. /\ Len(staging) \in Nat /\ Cardinality(Waiting) \in Nat /\ InHand \in Nat /\ InRun \in Nat
          /\ terminal.completed \in Nat /\ terminal.failed \in Nat /\ Placed \in Nat
      BY <1>0, Types
    <2>2. PICK l \in Nat : l = Len(staging)
      BY <2>1
    <2>3. PICK t \in Nat : t = terminal.completed + terminal.failed
      BY <2>1
    <2>4. /\ InPlay = l + Cardinality(Waiting) + InHand + InRun + t
          /\ InPlay' = l + Cardinality(Waiting) + (InHand + d) + InRun + t
      BY <1>5, <1>7, <2>2, <2>3 DEF InPlay, InHand, InRun
    <2> QED  BY SMTT(60), <2>1, <2>4
  <1>9. PayloadsKept' /\ Tallied'
    <2>1. InPlay' - Placed' \in {InPlay - Placed - 1, InPlay - Placed, InPlay - Placed + 1}
      BY <1>6, <1>7, <1>8
    <2> QED  BY <1>2, <2>1, Thrown
  <1> QED  BY <1>3, <1>4, <1>5, <1>9 DEF Core, Shape

-----------------------------------------------------------------------------
(* The report *)

\* What overtakes the report, as one relation.
Moved ==
    \/ \E j \in Job : \/ IncrementSubmitted(j) \/ Admit(j) \/ Stage(j) \/ IncrementStaged(j)
                      \/ SubmitThrows(j)
    \/ \E w \in Worker : \/ \E j \in Job : Take(w, j)
                         \/ Finish(w) \/ Tally(w) \/ Ack(w) \/ DrainStep(w) \/ DrainThrows(w)

LEMMA MovedStep == ASSUME Core, Moved, Stir PROVE Core' /\ ReportOK'
  <1>1. Core'
    <2>1. ASSUME NEW j \in Job,
                 \/ IncrementSubmitted(j) \/ Admit(j) \/ Stage(j) \/ IncrementStaged(j)
                 \/ SubmitThrows(j)
          PROVE  Core'
      BY <2>1, IncrementSubmittedStep, AdmitStep, StageStep, IncrementStagedStep, SubmitThrowsStep
    <2>2. ASSUME NEW w \in Worker, NEW j \in Job, Take(w, j) PROVE Core'
      BY <2>2, TakeStep
    <2>3. ASSUME NEW w \in Worker, Finish(w) \/ Tally(w) \/ Ack(w) \/ DrainThrows(w) PROVE Core'
      BY <2>3, FinishStep, TallyStep, AckStep, DrainThrowsStep
    <2>4. ASSUME NEW w \in Worker, DrainStep(w) PROVE Core'
      BY <2>4, PopStep, IncrementPendingStep, EnqueueStep, PutBackStep, RestoreStagedStep,
         GetStagedStep, SetStagedStep, GetPendingStep, SetPendingStep DEF DrainStep
    <2> QED  BY <2>1, <2>2, <2>3, <2>4 DEF Moved
  <1>2. ReportOK'
    <2>1. DOMAIN << >> = {}  OBVIOUS
    <2> QED  BY <2>1 DEF Stir, ReportOK
  <1> QED  BY <1>1, <1>2

\* A query of the report changes nothing it could ask about.
LEMMA ReadStays ==
    ASSUME UNCHANGED <<counters, places, sub, wrk, locals, hazy, budget>>
    PROVE  /\ \A name : Value(name)' = Value(name)
           /\ AtRest' = AtRest /\ Spent' = Spent /\ hazy' = hazy
           /\ PayloadsKept' = PayloadsKept /\ Tallied' = Tallied
           /\ HandOK' = HandOK /\ Clean' = Clean /\ Waiting' = Waiting
  <1>1. /\ totals' = totals /\ pre' = pre /\ terminal' = terminal /\ staging' = staging
        /\ bull' = bull /\ dlq' = dlq /\ sub' = sub /\ wrk' = wrk /\ hand' = hand /\ back' = back
        /\ hazy' = hazy /\ budget' = budget
    BY DEF counters, places, locals
  <1>2. Waiting' = Waiting /\ Spent' = Spent
    BY <1>1 DEF Waiting, Spent
  <1>3. \A name : Value(name)' = Value(name)
    BY <1>1, <1>2 DEF Value
  <1>4. AtRest' = AtRest /\ HandOK' = HandOK /\ Clean' = Clean
    BY <1>1, <1>2 DEF AtRest, HandOK, Clean
  <1>5. PayloadsKept' = PayloadsKept
    BY <1>1, <1>2 DEF PayloadsKept, InPlay, Placed, Handing, Running
  <1>6. Tallied' = Tallied
    BY <1>1, <1>2 DEF Tallied, TotalExact, StagedExact, PendingExact, Begun, Uncounted,
                       Undecremented, Draining, Subs, At
  <1> QED  BY <1>1, <1>2, <1>3, <1>4, <1>5, <1>6

\* One answer more, at one of the three places of the report.
LEMMA ReadStep ==
    ASSUME RInv, NEW from, NEW names, NEW to, Read(from, names, to),
           \/ from = "poll" /\ names = {"waiting", "active"} /\ to = "dlq"
           \/ from = "dlq" /\ names = {"dlq"} /\ to = "state"
           \/ from = "state" /\ names = {"pre", "terminal", "totals"} /\ to = "done"
    PROVE  RInv'
  <1>1. PICK name \in names \ DOMAIN seen :
          /\ seen' = [n \in DOMAIN seen \cup {name} |-> IF n = name THEN Value(name) ELSE seen[n]]
          /\ rep' = IF names \subseteq DOMAIN seen' THEN to ELSE from
    BY DEF Read
  <1>2. UNCHANGED <<counters, places, sub, wrk, locals, calm, hazy, budget>> /\ rep = from
    BY DEF Read
  <1>3. DOMAIN seen' = DOMAIN seen \cup {name}
    BY <1>1
  <1>4. TypeOK'
    <2>1. DOMAIN seen' \subseteq Reads
      BY <1>1, <1>3 DEF RInv, Shape, TypeOK, Reads
    <2>2. rep' \in {"none", "poll", "dlq", "state", "done"}
      BY <1>1
    <2> QED  BY <1>2, <2>1, <2>2 DEF RInv, Shape, TypeOK, counters, places, locals
  <1>5. HandOK' /\ Clean' /\ IsFiniteSet(Waiting') /\ PayloadsKept' /\ Tallied'
    BY <1>2, ReadStays DEF RInv, Shape
  <1>6. ReportOK'
    <2>1. /\ rep' = "none" => DOMAIN seen' = {}
          /\ rep' \in {"dlq", "state", "done"} => {"waiting", "active"} \subseteq DOMAIN seen'
          /\ rep' \in {"state", "done"} => "dlq" \in DOMAIN seen'
          /\ rep' = "done" => {"pre", "terminal", "totals"} \subseteq DOMAIN seen'
      BY <1>1, <1>2, <1>3 DEF RInv, ReportOK
    <2>2. ASSUME calm'
          PROVE  AtRest' /\ ~hazy' /\ Spent' = 0 /\ \A n \in DOMAIN seen' : seen'[n] = Value(n)'
      <3>1. AtRest /\ ~hazy /\ Spent = 0 /\ \A n \in DOMAIN seen : seen[n] = Value(n)
        BY <1>2, <2>2 DEF RInv, ReportOK
      <3>2. ASSUME NEW n \in DOMAIN seen' PROVE seen'[n] = Value(n)
        BY <1>1, <1>3, <3>1, <3>2
      <3> QED  BY <1>2, <3>1, <3>2, ReadStays
    <2> QED  BY <2>1, <2>2 DEF ReportOK
  <1> QED  BY <1>4, <1>5, <1>6 DEF RInv, Shape

\* The report starts with nothing read, and knows whether it started at rest.
LEMMA BeginStep == ASSUME RInv, BeginReport PROVE RInv'
  <1>1. UNCHANGED <<counters, places, sub, wrk, locals, seen, hazy, budget>>
        /\ rep = "none" /\ rep' = "poll" /\ calm' = (AtRest /\ ~hazy /\ budget = Faults)
    BY DEF BeginReport
  <1>2. calm' \in BOOLEAN
    BY <1>1, Zenon
  <1>3. TypeOK'
    BY <1>1, <1>2 DEF RInv, Shape, TypeOK, counters, places, locals
  <1>4. HandOK' /\ Clean' /\ IsFiniteSet(Waiting') /\ PayloadsKept' /\ Tallied'
    BY <1>1, ReadStays DEF RInv, Shape
  <1>5. DOMAIN seen' = {}
    BY <1>1 DEF RInv, ReportOK
  <1>6. calm' => AtRest' /\ ~hazy' /\ Spent' = 0
    <2>1. ASSUME calm' PROVE AtRest /\ ~hazy /\ budget = Faults
      BY <1>1, <2>1, Zenon
    <2>2. budget = Faults => Spent = 0
      BY FaultAssumption DEF Spent
    <2> QED  BY <1>1, <2>1, <2>2, ReadStays
  <1>7. ReportOK'
    BY <1>1, <1>5, <1>6 DEF ReportOK
  <1> QED  BY <1>3, <1>4, <1>7 DEF RInv, Shape

-----------------------------------------------------------------------------
(* The theorems *)

\* Nothing is counted at first.
LEMMA InvInit == Init => RInv
  <1> SUFFICES ASSUME Init PROVE RInv
    OBVIOUS
  <1>1. Waiting = {} /\ IsFiniteSet({}) /\ Cardinality({}) = 0
    BY FS_EmptySet DEF Init, Waiting
  <1>2. TypeOK
    <2>1. /\ calm \in BOOLEAN /\ hazy \in BOOLEAN
          /\ won \in [Worker -> BOOLEAN] /\ back \in [Worker -> BOOLEAN]
      BY Zenon DEF Init
    <2>3. budget \in 0 .. Faults
      BY FaultAssumption DEF Init
    <2>2. /\ staging \in Seq(Job) /\ DOMAIN seen \subseteq Reads
      BY DEF Init
    <2> QED  BY <2>1, <2>2, <2>3 DEF Init, TypeOK, SubPC, WrkPC
  <1>3. HandOK /\ Clean
    BY DEF Init, HandOK, Clean
  <1>4. Subs({"decide", "count", "done"}) = {} /\ Subs({"count"}) = {}
        /\ At({"getStaged", "setStaged"}) = {} /\ At({"enqueue", "getPending", "setPending"}) = {}
        /\ Handing = {} /\ Running = {} /\ {j \in Job : sub[j] \in {"count", "done"}} = {}
    BY DEF Init, Subs, At, Handing, Running
  <1>5. /\ totals = 0 /\ pre.staged = 0 /\ pre.pending = 0 /\ Len(staging) = 0
        /\ terminal.completed = 0 /\ terminal.failed = 0 /\ Spent = 0
    BY FaultAssumption DEF Init, Spent
  <1>6. PayloadsKept
    <2>1. InPlay = 0 /\ Placed = 0
      <3>1. Placed = Cardinality({})
        BY <1>4, Zenon DEF Placed
      <3>2. InPlay = Len(staging) + Cardinality({}) + Cardinality({}) + Cardinality({})
                     + (terminal.completed + terminal.failed)
        BY <1>1, <1>4, Zenon DEF InPlay
      <3>3. InPlay = 0 + 0 + 0 + 0 + (0 + 0)
        BY <1>1, <1>5, <3>2
      <3> QED  BY <1>1, <3>1, <3>3
    <2>2. \A n \in Nat : 0 \in -n .. n
      OBVIOUS
    <2>3. Spent \in Nat /\ InPlay - Placed = 0
      BY <1>5, <2>1
    <2> QED  BY <2>2, <2>3 DEF PayloadsKept
  <1>7. Tallied
    BY <1>1, <1>4, <1>5 DEF Tallied, TotalExact, StagedExact, PendingExact, Begun, Uncounted,
                             Undecremented, Draining
  <1>8. ReportOK
    BY DEF Init, ReportOK
  <1> QED  BY <1>1, <1>2, <1>3, <1>6, <1>7, <1>8 DEF RInv, Shape

LEMMA InvNext == RInv /\ [Next]_vars => RInv'
  <1> SUFFICES ASSUME RInv, [Next]_vars PROVE RInv'
    OBVIOUS
  <1>1. CASE Moved /\ Stir
    BY <1>1, MovedStep DEF Core, RInv
  <1>2. CASE BeginReport
    BY <1>2, BeginStep
  <1>3. CASE Poll \/ GetQueueState
    <2>1. CASE Read("poll", {"waiting", "active"}, "dlq")
      BY <2>1, ReadStep
    <2>2. CASE Read("dlq", {"dlq"}, "state")
      BY <2>2, ReadStep
    <2>3. CASE Read("state", {"pre", "terminal", "totals"}, "done")
      BY <2>3, ReadStep
    <2> QED  BY <1>3, <2>1, <2>2, <2>3 DEF Poll, GetQueueState
  <1>4. CASE UNCHANGED vars
    <2>1. UNCHANGED <<counters, places, sub, wrk, locals, hazy, budget>>
          /\ rep' = rep /\ seen' = seen /\ calm' = calm
      BY <1>4 DEF vars, report
    <2>2. TypeOK'
      BY <2>1 DEF RInv, Shape, TypeOK, counters, places, locals
    <2>3. ReportOK'
      BY <2>1, ReadStays DEF RInv, ReportOK
    <2> QED  BY <2>1, <2>2, <2>3, ReadStays DEF RInv, Shape
  <1> QED  BY <1>1, <1>2, <1>3, <1>4 DEF Next, Moved

\* The counters, the places of the payloads and the report, all at once.
THEOREM ReconcileInductive == Spec => []RInv
  BY InvInit, InvNext, PTL DEF Spec

\* Every variable keeps its type; no counter goes below zero, whoever overwrites it.
THEOREM TypeCorrect == Spec => []TypeOK
  <1>1. RInv => TypeOK  BY DEF RInv, Shape
  <1> QED  BY <1>1, ReconcileInductive, PTL

\* No command but a throwing one costs or doubles a payload.
THEOREM PayloadsStay == Spec => []PayloadsKept
  <1>1. RInv => PayloadsKept  BY DEF RInv
  <1> QED  BY <1>1, ReconcileInductive, PTL

\* At rest every count of a process in between is zero.
LEMMA RestExact == RInv => LedgerExact
  <1> SUFFICES ASSUME RInv, AtRest, ~hazy, Spent = 0
               PROVE  /\ pre = [staged |-> Len(staging), pending |-> 0]
                      /\ totals = pre.staged + Cardinality(Waiting) + Cardinality(Running)
                                  + terminal.completed + terminal.failed
    BY DEF LedgerExact
  <1>1. Shape /\ PayloadsKept /\ TotalExact /\ StagedExact /\ PendingExact
    BY DEF RInv, Tallied
  <1>2. Uncounted = 0 /\ Undecremented = 0 /\ Draining = 0 /\ InHand = 0
    <2>1. Subs({"count"}) = {} /\ At({"getStaged", "setStaged"}) = {}
          /\ At({"enqueue", "getPending", "setPending"}) = {} /\ Handing = {}
      BY DEF AtRest, Subs, At, Handing
    <2> QED  BY <2>1, FS_EmptySet DEF Uncounted, Undecremented, Draining, InHand
  <1>3. Begun = Placed
    <2>1. Subs({"decide", "count", "done"}) = {j \in Job : sub[j] \in {"count", "done"}}
      BY DEF AtRest, Subs
    <2> QED  BY <2>1 DEF Begun, Placed
  <1>4. /\ totals \in Nat /\ pre.staged \in Nat /\ pre.pending \in Nat /\ Len(staging) \in Nat
        /\ terminal.completed \in Nat /\ terminal.failed \in Nat /\ Placed \in Nat
        /\ InRun \in Nat /\ Cardinality(Waiting) \in Nat
    BY <1>1, Types
  <1>5. pre.staged = Len(staging) /\ pre.pending = 0
    BY <1>1, <1>2, <1>4 DEF StagedExact, PendingExact
  <1>6. pre = [staged |-> Len(staging), pending |-> 0]
    BY <1>1, <1>5 DEF Shape, TypeOK
  <1>7. InPlay - Placed = 0
    BY <1>1 DEF PayloadsKept
  <1>8. InPlay = pre.staged + Cardinality(Waiting) + 0 + InRun + (terminal.completed + terminal.failed)
    BY <1>2, <1>5 DEF InPlay, InHand, InRun
  <1>9. totals = pre.staged + Cardinality(Waiting) + InRun + terminal.completed + terminal.failed
    <2>1. totals = InPlay
      BY <1>1, <1>3, <1>4, <1>7, <1>8 DEF TotalExact
    <2> QED  BY SMTT(60), <1>4, <1>8, <2>1
  <1> QED  BY <1>6, <1>9 DEF InRun

\* Undisturbed and without a throw, the counters are exact whenever every process is
\* between two jobs or inside one.
THEOREM LedgerCorrect == Spec => []LedgerExact
  BY RestExact, ReconcileInductive, PTL

\* What an undisturbed report read is what the ledger holds.
LEMMA ReportExact == RInv => ReportOffByDlq
  <1> SUFFICES ASSUME RInv, rep = "done", calm PROVE Delta = -seen["dlq"]
    BY DEF ReportOffByDlq
  <1>1. AtRest /\ ~hazy /\ Spent = 0 /\ DOMAIN seen = Reads
        /\ \A name \in DOMAIN seen : seen[name] = Value(name)
    <2>1. AtRest /\ ~hazy /\ Spent = 0 /\ \A name \in DOMAIN seen : seen[name] = Value(name)
      BY DEF RInv, ReportOK
    <2>2. Reads \subseteq DOMAIN seen
      BY DEF RInv, ReportOK, Reads
    <2>3. DOMAIN seen \subseteq Reads
      BY DEF RInv, Shape, TypeOK
    <2> QED  BY <2>1, <2>2, <2>3
  <1>2. /\ pre = [staged |-> Len(staging), pending |-> 0]
        /\ totals = pre.staged + Cardinality(Waiting) + Cardinality(Running)
                    + terminal.completed + terminal.failed
    BY <1>1, RestExact DEF LedgerExact
  <1>3. {w \in Worker : wrk[w] # "idle"} = Running
    BY <1>1 DEF AtRest, Running
  <1>4. /\ seen["waiting"] = Cardinality(Waiting) /\ seen["active"] = InRun
        /\ seen["dlq"] = dlq /\ seen["pre"] = pre.staged + pre.pending
        /\ seen["terminal"] = terminal.completed + terminal.failed /\ seen["totals"] = totals
    BY <1>1, <1>3 DEF Value, Reads, InRun
  <1>5. /\ pre.staged \in Nat /\ pre.pending = 0 /\ dlq \in Nat
        /\ terminal.completed \in Nat /\ terminal.failed \in Nat
        /\ InRun \in Nat /\ Cardinality(Waiting) \in Nat
    BY <1>2, Types DEF RInv, Shape, TypeOK
  <1>6. /\ totals = pre.staged + Cardinality(Waiting) + InRun
                    + terminal.completed + terminal.failed
        /\ Delta = totals - (pre.staged + 0 + Cardinality(Waiting) + InRun
                             + (terminal.completed + terminal.failed) + dlq)
    BY <1>2, <1>4, <1>5 DEF Delta, AccountedForTotal, InRun
  <1>7. Delta = -dlq
    BY SMTT(60), <1>5, <1>6
  <1> QED  BY <1>4, <1>7

\* A fresh report of a quiet queue is off by the jobs in the dead letter queue exactly.
THEOREM ReportCorrect == Spec => []ReportOffByDlq
  BY ReportExact, ReconcileInductive, PTL
=============================================================================
