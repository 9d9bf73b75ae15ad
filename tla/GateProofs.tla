----------------------------- MODULE GateProofs -----------------------------
(***************************************************************************)
(* The gate's invariants for every number of requests, every maxsize,      *)
(* every minimum budget and every deadline.                                *)
(*                                                                         *)
(* The inductive invariant is the conjunction of the checked invariants    *)
(* and of one fact TLC need not be told: the deque is finite, so that the  *)
(* cardinalities mean something.                                           *)
(***************************************************************************)
EXTENDS Gate, FiniteSetTheorems, TLAPS

Busy == Queued \cup Taken

GateInv ==
  /\ GateTypeOK
  /\ IsFiniteSet(Busy)
  /\ CapacityKept
  /\ AccountingExact
  /\ WorkerNotStranded

-----------------------------------------------------------------------------
\* What an eviction leaves: the kept are no more than the queued, and what the
\* worker owes falls by exactly the number of the evicted.
LEMMA EvictionCounts ==
  ASSUME GateInv
  PROVE  /\ IsFiniteSet(Kept)
         /\ Cardinality(Kept) \in Nat
         /\ Cardinality(Kept) <= MaxSize
         /\ IsFiniteSet(Busy \ Stale)
         /\ Cardinality(Stale) \in Nat
         /\ Cardinality(Busy \ Stale) \in Nat
         /\ Cardinality(Busy \ Stale) = unfinished - Cardinality(Stale)
         /\ Settled(unfinished - Cardinality(Stale)) = Cardinality(Busy \ Stale)
<1>1. IsFiniteSet(Busy) /\ Stale \subseteq Busy /\ Kept \subseteq Queued /\ Queued \subseteq Busy
  BY DEF GateInv, Busy, Stale, Kept
<1>2. IsFiniteSet(Stale) /\ IsFiniteSet(Queued)
  BY <1>1, FS_Subset
<1>3. IsFiniteSet(Kept) /\ Cardinality(Kept) <= Cardinality(Queued)
  BY <1>1, <1>2, FS_Subset
<1>4. /\ IsFiniteSet(Busy \ Stale)
      /\ Cardinality(Busy \ Stale) = Cardinality(Busy) - Cardinality(Busy \cap Stale)
  BY <1>1, FS_Difference
<1>5. Busy \cap Stale = Stale
  BY <1>1
<1>6. /\ Cardinality(Kept) \in Nat /\ Cardinality(Queued) \in Nat
      /\ Cardinality(Stale) \in Nat /\ Cardinality(Busy \ Stale) \in Nat
  BY <1>2, <1>3, <1>4, FS_CardinalityType
<1>7. unfinished = Cardinality(Busy) /\ Cardinality(Queued) <= MaxSize
  BY DEF GateInv, AccountingExact, CapacityKept, Busy
<1> QED
  BY <1>3, <1>4, <1>5, <1>6, <1>7, GateAssumption DEF Settled

\* The counters after an operation that only evicts agree with the sets after it.
LEMMA EvictionSettles ==
  ASSUME GateInv, Busy' = Busy \ Stale, Queued' \subseteq Kept,
         unfinished' = Settled(unfinished - Cardinality(Stale)),
         idle' = (idle \/ unfinished - Cardinality(Stale) <= 0)
  PROVE  IsFiniteSet(Busy)' /\ CapacityKept' /\ AccountingExact'
<1>1. Busy' = Busy \ Stale
  OBVIOUS
<1>2. Cardinality(Busy \ Stale) = 0 <=> Busy \ Stale = {}
  BY EvictionCounts, FS_EmptySet
<1>3. IsFiniteSet(Busy') /\ unfinished' = Cardinality(Busy')
  BY <1>1, EvictionCounts
<1>4. idle' <=> Busy' = {}
  <2>1. idle => Busy = {}
    BY DEF GateInv, AccountingExact, Busy
  <2>2. unfinished - Cardinality(Stale) <= 0 <=> Busy \ Stale = {}
    BY <1>2, EvictionCounts
  <2> QED
    BY <1>1, <2>1, <2>2
<1>5. Cardinality(Queued') <= MaxSize
  <2>1. IsFiniteSet(Queued') /\ Cardinality(Queued') <= Cardinality(Kept)
    BY EvictionCounts, FS_Subset
  <2>2. Cardinality(Queued') \in Nat
    BY <2>1, FS_CardinalityType
  <2> QED
    BY <2>1, <2>2, EvictionCounts, GateAssumption
<1> QED
  BY <1>3, <1>4, <1>5 DEF AccountingExact, CapacityKept, Busy

-----------------------------------------------------------------------------
(* One lemma for each way an operation ends: it keeps the gate's invariant *)

LEMMA PutKeeps ==
  ASSUME GateInv, NEW r \in Requests, stage[r] \in {"outside", "waiting"},
         Room, Put(r), left' \in [Requests -> Nat \cup {Overdue}]
  PROVE  GateInv'
<1>1. Queued' = Kept \cup {r} /\ Taken' = Taken
  BY DEF GateInv, GateTypeOK, Put, AfterEviction, Queued, Taken, Kept, Stale
<1>2. r \notin Kept /\ r \notin Busy \ Stale
  BY DEF Busy, Kept, Queued, Taken
<1>3. Busy' = (Busy \ Stale) \cup {r}
  BY <1>1 DEF Busy, Kept, Queued, Taken, Stale
<1>4. IsFiniteSet(Busy') /\ Cardinality(Busy') = Cardinality(Busy \ Stale) + 1
  BY <1>2, <1>3, EvictionCounts, FS_AddElement
<1>5. Cardinality(Queued') = Cardinality(Kept) + 1
  BY <1>1, <1>2, EvictionCounts, FS_AddElement
<1>6. CapacityKept'
  BY <1>5, EvictionCounts, GateAssumption DEF CapacityKept, Room
<1>7. AccountingExact'
  BY <1>3, <1>4, EvictionCounts DEF AccountingExact, Put, Busy
<1>8. GateTypeOK'
  <2>1. stage' \in [Requests -> Stages] /\ ahead' \in [Requests -> SUBSET Requests]
    BY DEF GateInv, GateTypeOK, Put, AfterEviction, Stages, Kept, Queued
  <2>2. unfinished' \in Nat /\ expired' \in Nat
    BY EvictionCounts DEF GateInv, GateTypeOK, Put
  <2> QED
    BY <2>1, <2>2 DEF GateInv, GateTypeOK, Put, NotifyAll
<1>9. WorkerNotStranded'
  BY DEF WorkerNotStranded, Put, NotifyAll
<1> QED
  BY <1>4, <1>6, <1>7, <1>8, <1>9 DEF GateInv, Busy

LEMMA RefuseLimitKeeps ==
  ASSUME GateInv, NEW r \in Requests, stage[r] = "outside",
         RefuseLimit(r), left' \in [Requests -> Nat \cup {Overdue}]
  PROVE  GateInv'
<1>1. Queued' = Kept /\ Busy' = Busy \ Stale
  BY DEF GateInv, GateTypeOK, RefuseLimit, AfterEviction, Busy, Queued, Taken, Kept, Stale
<1>2. IsFiniteSet(Busy)' /\ CapacityKept' /\ AccountingExact'
  BY <1>1, EvictionSettles DEF RefuseLimit, TakeStale
<1>3. Waiting' = Waiting
  BY DEF GateInv, GateTypeOK, RefuseLimit, AfterEviction, Waiting, Stale, Queued
<1>4. GateTypeOK'
  BY <1>3, EvictionCounts
     DEF GateInv, GateTypeOK, RefuseLimit, TakeStale, AfterEviction, Stages
<1>5. WorkerNotStranded'
  BY <1>1 DEF GateInv, WorkerNotStranded, RefuseLimit, Kept
<1> QED
  BY <1>2, <1>4, <1>5 DEF GateInv

LEMMA RefuseDeadlineKeeps ==
  ASSUME GateInv, NEW r \in Requests, stage[r] \in {"outside", "waiting"},
         RefuseDeadline(r), left' \in [Requests -> Nat \cup {Overdue}]
  PROVE  GateInv'
<1>1. Queued' = Kept /\ Busy' = Busy \ Stale
  BY DEF GateInv, GateTypeOK, RefuseDeadline, AfterEviction, Busy, Queued, Taken, Kept, Stale
<1>2. IsFiniteSet(Busy)' /\ CapacityKept' /\ AccountingExact'
  BY <1>1, EvictionSettles DEF RefuseDeadline
<1>3. Waiting' = Waiting \ {r}
  BY DEF GateInv, GateTypeOK, RefuseDeadline, AfterEviction, Waiting, Stale, Queued
<1>4. GateTypeOK'
  BY <1>3, EvictionCounts
     DEF GateInv, GateTypeOK, RefuseDeadline, AfterEviction, Stages
<1>5. WorkerNotStranded'
  BY <1>1 DEF GateInv, WorkerNotStranded, RefuseDeadline, Kept
<1> QED
  BY <1>2, <1>4, <1>5 DEF GateInv

LEMMA WaitForSlotKeeps ==
  ASSUME GateInv, NEW r \in Requests, stage[r] \in {"outside", "waiting"},
         WaitForSlot(r), left' \in [Requests -> Nat \cup {Overdue}]
  PROVE  GateInv'
<1>1. Queued' = Kept /\ Busy' = Busy \ Stale
  BY DEF GateInv, GateTypeOK, WaitForSlot, AfterEviction, Busy, Queued, Taken, Kept, Stale
<1>2. IsFiniteSet(Busy)' /\ CapacityKept' /\ AccountingExact'
  BY <1>1, EvictionSettles DEF WaitForSlot, TakeStale
<1>3. Waiting' = Waiting \cup {r}
  BY DEF GateInv, GateTypeOK, WaitForSlot, AfterEviction, Waiting, Stale, Queued
<1>4. GateTypeOK'
  BY <1>3, EvictionCounts
     DEF GateInv, GateTypeOK, WaitForSlot, TakeStale, AfterEviction, Stages
<1>5. WorkerNotStranded'
  BY <1>1, GateAssumption DEF GateInv, WorkerNotStranded, WaitForSlot, Kept
<1> QED
  BY <1>2, <1>4, <1>5 DEF GateInv

LEMMA TakeKeeps ==
  ASSUME GateInv, Take
  PROVE  GateInv'
<1>1. Queued' \subseteq Kept /\ Busy' = Busy \ Stale
  BY DEF GateInv, GateTypeOK, Take, AfterEviction, Busy, Queued, Taken, Kept, Stale
<1>2. IsFiniteSet(Busy)' /\ CapacityKept' /\ AccountingExact'
  BY <1>1, EvictionSettles DEF Take, TakeStale
<1>3. Waiting' = Waiting
  BY DEF GateInv, GateTypeOK, Take, AfterEviction, Waiting, Stale, Kept, Queued
<1>4. GateTypeOK'
  <2>1. AfterEviction \in [Requests -> Stages]
    BY DEF GateInv, GateTypeOK, AfterEviction, Stages
  <2>2. stage' \in [Requests -> Stages]
    BY <2>1 DEF Take, Stages, GateInv, GateTypeOK, TakeStale, Queued
  <2>3. asleep' \subseteq Waiting \cup {Worker}
    BY DEF GateInv, GateTypeOK, Take, NotifyAll
  <2>4. unfinished' \in Nat /\ idle' \in BOOLEAN /\ expired' \in Nat
    BY EvictionCounts DEF GateInv, GateTypeOK, Take, TakeStale
  <2> QED
    BY <1>3, <2>2, <2>3, <2>4 DEF GateInv, GateTypeOK, Take
<1>5. WorkerNotStranded'
  BY <1>1 DEF GateInv, WorkerNotStranded, Take, Kept, NotifyAll
<1> QED
  BY <1>2, <1>4, <1>5 DEF GateInv

LEMMA SweepKeeps ==
  ASSUME GateInv, Sweep
  PROVE  GateInv'
<1>1. Queued' = Kept /\ Busy' = Busy \ Stale
  BY DEF GateInv, GateTypeOK, Sweep, AfterEviction, Busy, Queued, Taken, Kept, Stale
<1>2. IsFiniteSet(Busy)' /\ CapacityKept' /\ AccountingExact'
  BY <1>1, EvictionSettles DEF Sweep, TakeStale
<1>3. GateTypeOK'
  BY EvictionCounts
     DEF GateInv, GateTypeOK, Sweep, TakeStale, AfterEviction, Stages, NotifyAll
<1>4. WorkerNotStranded'
  BY DEF WorkerNotStranded, Sweep, NotifyAll
<1> QED
  BY <1>2, <1>3, <1>4 DEF GateInv

LEMMA DoneKeeps ==
  ASSUME GateInv, NEW r \in Requests, Done(r)
  PROVE  GateInv'
<1>1. Queued' = Queued /\ Busy' = Busy \ {r} /\ r \in Busy
  BY DEF GateInv, GateTypeOK, Done, Busy, Queued, Taken
<1>2. /\ IsFiniteSet(Busy')
      /\ Cardinality(Busy') = Cardinality(Busy) - 1
  BY <1>1, FS_RemoveElement DEF GateInv
<1>3. Cardinality(Busy') \in Nat /\ (Cardinality(Busy') = 0 <=> Busy' = {})
  BY <1>2, FS_CardinalityType, FS_EmptySet
<1>4. unfinished = Cardinality(Busy) /\ unfinished \in Nat /\ (idle => Busy = {})
  BY DEF GateInv, GateTypeOK, AccountingExact, Busy
<1>5. AccountingExact'
  <2>1. unfinished' = Cardinality(Busy')
    BY <1>2, <1>3, <1>4 DEF Done, Settled
  <2>2. unfinished - 1 <= 0 <=> Busy' = {}
    BY <1>2, <1>3, <1>4
  <2>3. idle' <=> Busy' = {}
    BY <1>1, <1>4, <2>2 DEF Done
  <2> QED
    BY <2>1, <2>3 DEF AccountingExact, Busy
<1>6. GateTypeOK'
  BY <1>2, <1>3, <1>4 DEF GateInv, GateTypeOK, Done, Stages, Settled, Waiting
<1>7. CapacityKept' /\ WorkerNotStranded'
  BY <1>1 DEF GateInv, CapacityKept, WorkerNotStranded, Done
<1> QED
  BY <1>2, <1>5, <1>6, <1>7 DEF GateInv, Busy

\* Time passing moves no request and no counter.
LEMMA TickKeeps ==
  ASSUME GateInv, Tick
  PROVE  GateInv'
<1>1. left' \in [Requests -> Nat \cup {Overdue}]
  BY DEF GateInv, GateTypeOK, Tick, Overdue
<1> QED
  BY <1>1 DEF GateInv, GateTypeOK, CapacityKept, AccountingExact, WorkerNotStranded,
              Tick, Busy, Waiting, Queued, Taken

-----------------------------------------------------------------------------
LEMMA GateInit_Inv == GateInit => GateInv
<1> SUFFICES ASSUME GateInit PROVE GateInv
  OBVIOUS
<1>1. Queued = {} /\ Taken = {} /\ Waiting = {}
  BY DEF GateInit, Queued, Taken, Waiting
<1>2. IsFiniteSet({}) /\ Cardinality({}) = 0
  BY FS_EmptySet
<1>3. GateTypeOK
  BY <1>1 DEF GateInit, GateTypeOK, Stages, Overdue
<1> QED
  BY <1>1, <1>2, <1>3, GateAssumption
     DEF GateInit, GateInv, CapacityKept, AccountingExact, WorkerNotStranded, Busy

LEMMA SubmitKeeps ==
  ASSUME GateInv, NEW r \in Requests, NEW b \in Budgets \cup {0}, NEW full, Submit(r, b, full)
  PROVE  GateInv'
<1>1. stage[r] = "outside" /\ left' \in [Requests -> Nat \cup {Overdue}]
  BY GateAssumption DEF Submit, GateInv, GateTypeOK
<1>2. CASE Put(r) /\ Room
  BY <1>1, <1>2, PutKeeps
<1>3. CASE RefuseLimit(r)
  BY <1>1, <1>3, RefuseLimitKeeps
<1>4. CASE WaitForSlot(r)
  BY <1>1, <1>4, WaitForSlotKeeps
<1>5. CASE /\ stage' = [stage EXCEPT ![r] = "deadline"]
           /\ expired' = expired + 1
           /\ UNCHANGED <<ahead, asleep, unfinished, idle, shed>>
  <2>1. Queued' = Queued /\ Taken' = Taken /\ Waiting' = Waiting
    BY <1>1, <1>5 DEF GateInv, GateTypeOK, Queued, Taken, Waiting
  <2>2. GateTypeOK'
    BY <1>1, <1>5, <2>1 DEF GateInv, GateTypeOK, Stages
  <2> QED
    BY <1>5, <2>1, <2>2
       DEF GateInv, CapacityKept, AccountingExact, WorkerNotStranded, Busy
<1>6. CASE RefuseDeadline(r)
  BY <1>1, <1>6, RefuseDeadlineKeeps
<1> QED
  BY <1>2, <1>3, <1>4, <1>5, <1>6 DEF Submit

LEMMA WakeKeeps ==
  ASSUME GateInv, NEW r \in Requests, Wake(r)
  PROVE  GateInv'
<1>1. stage[r] = "waiting" /\ left' \in [Requests -> Nat \cup {Overdue}]
  BY DEF Wake, GateInv, GateTypeOK
<1>2. CASE Put(r) /\ Room
  BY <1>1, <1>2, PutKeeps
<1>3. CASE RefuseDeadline(r)
  BY <1>1, <1>3, RefuseDeadlineKeeps DEF Wake
<1>4. CASE WaitForSlot(r)
  BY <1>1, <1>4, WaitForSlotKeeps
<1> QED
  BY <1>2, <1>3, <1>4 DEF Wake

\* The invariant is inductive: one step per operation of the gate.
LEMMA GateNext_Inv ==
  ASSUME GateInv, [GateNext]_gateVars
  PROVE  GateInv'
<1>1. ASSUME NEW r \in Requests, NEW b \in Budgets \cup {0}, NEW full \in {"wait", "shed"},
             Submit(r, b, full)
      PROVE  GateInv'
  BY <1>1, SubmitKeeps
<1>2. ASSUME NEW r \in Requests, Wake(r) PROVE GateInv'
  BY <1>2, WakeKeeps
<1>3. ASSUME NEW r \in Requests, Timeout(r) PROVE GateInv'
  BY <1>3, RefuseDeadlineKeeps DEF Timeout, GateInv, GateTypeOK
<1>4. ASSUME NEW r \in Requests, Done(r) PROVE GateInv'
  BY <1>4, DoneKeeps
<1>5. CASE Take
  BY <1>5, TakeKeeps
<1>6. CASE Sweep
  BY <1>6, SweepKeeps
<1>7. CASE Tick
  BY <1>7, TickKeeps
<1>8. CASE UNCHANGED gateVars
  BY <1>8 DEF GateInv, GateTypeOK, CapacityKept, AccountingExact, WorkerNotStranded,
              gateVars, Busy, Waiting, Queued, Taken
<1> QED
  BY <1>1, <1>2, <1>3, <1>4, <1>5, <1>6, <1>7, <1>8 DEF GateNext

\* The inductive invariant holds in every state the gate reaches.
THEOREM GateInvariant == GateSpec => []GateInv
<1>1. GateInit => GateInv
  BY GateInit_Inv
<1>2. GateInv /\ [GateNext]_gateVars => GateInv'
  BY GateNext_Inv
<1> QED
  BY <1>1, <1>2, PTL DEF GateSpec

\* The variables keep their types under every operation of admission.py.
THEOREM GateTypeCorrect == GateSpec => []GateTypeOK
<1>1. GateInv => GateTypeOK
  BY DEF GateInv
<1> QED
  BY <1>1, GateInvariant, PTL

\* The deque stays within maxsize, whoever wakes for the same free slot.
THEOREM GateKeepsCapacity == GateSpec => []CapacityKept
<1>1. GateInv => CapacityKept
  BY DEF GateInv
<1> QED
  BY <1>1, GateInvariant, PTL

\* _unfinished and _idle tell join() exactly what is queued or with the worker.
THEOREM GateAccounting == GateSpec => []AccountingExact
<1>1. GateInv => AccountingExact
  BY DEF GateInv
<1> QED
  BY <1>1, GateInvariant, PTL

\* No path of the gate leaves the worker asleep beside a filled deque.
THEOREM GateWorkerNotStranded == GateSpec => []WorkerNotStranded
<1>1. GateInv => WorkerNotStranded
  BY DEF GateInv
<1> QED
  BY <1>1, GateInvariant, PTL

\* submit refuses for the limit only beside maxsize requests that can still be
\* served: it evicts before it counts.
THEOREM GateLimitHonest == GateSpec => LimitOnlyWhenFullOfLive
<1> DEFINE Live == {q \in Queued : left[q] >= MinBudget}
           Honest == \A r \in Requests : stage[r] # "limit" /\ stage'[r] = "limit" =>
                       Cardinality(Live) = MaxSize
<1>1. GateInv /\ [GateNext]_gateVars => [Honest]_gateVars
  <2> SUFFICES ASSUME GateInv, GateNext, NEW r \in Requests,
                      stage[r] # "limit", stage'[r] = "limit"
               PROVE  Cardinality(Live) = MaxSize
    BY DEF GateInv
  <2>1. ~Room
    <3>1. stage \in [Requests -> Stages]
      BY DEF GateInv, GateTypeOK
    <3>2. AfterEviction[r] # "limit"
      BY DEF AfterEviction
    <3>3. ASSUME NEW q \in Requests, NEW b \in Budgets \cup {0}, NEW full \in {"wait", "shed"},
                 Submit(q, b, full)
          PROVE  ~Room
      BY <3>1, <3>2, <3>3 DEF Submit, Put, WaitForSlot, AfterEviction
    <3>4. ASSUME NEW q \in Requests, Wake(q) \/ Timeout(q) \/ Done(q)
          PROVE  FALSE
      BY <3>1, <3>2, <3>4
         DEF Wake, Timeout, Done, Put, RefuseDeadline, WaitForSlot, AfterEviction
    <3>5. ~Take
      BY <3>1, <3>2 DEF Take, AfterEviction
    <3>6. ~Sweep /\ ~Tick
      BY <3>2 DEF Sweep, Tick
    <3> QED
      BY <3>3, <3>4, <3>5, <3>6 DEF GateNext
  <2>2. Live = Kept
    BY GateAssumption DEF GateInv, GateTypeOK, Kept, Stale, Queued, Overdue
  <2>3. Cardinality(Kept) \in Nat /\ Cardinality(Kept) <= MaxSize
    BY EvictionCounts
  <2> QED
    BY <2>1, <2>2, <2>3, GateAssumption DEF Room
<1> QED
  BY <1>1, GateInvariant, PTL DEF GateSpec, LimitOnlyWhenFullOfLive

-----------------------------------------------------------------------------
(* What the operations of the gate do to the stages, for the compositions *)

StageType == stage \in [Requests -> Stages]

\* All that happens to a request beside the one an operation is about.
EvictsAtMost(q) ==
  stage'[q] = stage[q] \/ (stage[q] = "queued" /\ stage'[q] = "stale")

LEMMA SubmitStage ==
  ASSUME StageType, NEW r \in Requests, NEW b, NEW full, Submit(r, b, full)
  PROVE  /\ StageType' /\ stage[r] = "outside"
         /\ stage'[r] \in {"waiting", "queued", "limit", "deadline"}
         /\ \A q \in Requests \ {r} : EvictsAtMost(q)
BY DEF StageType, Submit, Put, RefuseLimit, RefuseDeadline, WaitForSlot, AfterEviction,
       Stale, Queued, Stages, EvictsAtMost

LEMMA ResumeStage ==
  ASSUME StageType, NEW r \in Requests, Wake(r) \/ Timeout(r)
  PROVE  /\ StageType' /\ stage[r] = "waiting"
         /\ stage'[r] \in {"waiting", "queued", "deadline"}
         /\ \A q \in Requests \ {r} : EvictsAtMost(q)
BY DEF StageType, Wake, Timeout, Put, RefuseDeadline, WaitForSlot, AfterEviction, Stale,
       Queued, Stages, EvictsAtMost

LEMMA TakeStage ==
  ASSUME StageType, Take
  PROVE  /\ StageType' /\ Taken = {}
         /\ \A q \in Requests : EvictsAtMost(q) \/ (stage[q] = "queued" /\ stage'[q] = "taken")
         /\ \A q, r \in Taken' : q = r
<1>1. CASE stage' = stage
  BY <1>1 DEF StageType, Take, Taken, EvictsAtMost
<1>2. CASE stage' = AfterEviction
  BY <1>2 DEF StageType, Take, Taken, AfterEviction, Stale, Queued, Stages, EvictsAtMost
<1>3. ASSUME NEW p \in Kept, stage' = [AfterEviction EXCEPT ![p] = "taken"]
      PROVE  /\ StageType'
             /\ \A q \in Requests : EvictsAtMost(q) \/ (stage[q] = "queued" /\ stage'[q] = "taken")
             /\ \A q, r \in Taken' : q = r
  BY <1>3 DEF StageType, Take, Taken, AfterEviction, Stale, Kept, Queued, Stages, EvictsAtMost
<1> QED
  BY <1>1, <1>2, <1>3 DEF Take

LEMMA SweepStage ==
  ASSUME StageType, Sweep
  PROVE  StageType' /\ \A q \in Requests : EvictsAtMost(q)
BY DEF StageType, Sweep, AfterEviction, Stale, Queued, Stages, EvictsAtMost

LEMMA DoneStage ==
  ASSUME StageType, NEW r \in Requests, Done(r)
  PROVE  /\ StageType' /\ stage[r] = "taken" /\ stage'[r] = "finished"
         /\ \A q \in Requests \ {r} : stage'[q] = stage[q]
BY DEF StageType, Done, Stages
=============================================================================
