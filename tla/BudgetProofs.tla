---------------------------- MODULE BudgetProofs ----------------------------
(***************************************************************************)
(* The clocks of Budget only watch the gate: every step of the timed model *)
(* is a step of the gate or leaves the gate alone, so that what GateProofs *)
(* proves also holds when pending queue, directory and keeper take time.   *)
(***************************************************************************)
EXTENDS Budget, GateProofs, SequenceTheorems

\* What the step argument needs: requests in the pending queue and in the wait,
\* and deadlines of the kind the gate is given.
TimedCallsInv ==
  /\ inbox \in Seq(Requests)
  /\ deadline \in [Requests -> Budgets \cup {0}]
  /\ "step" \in DOMAIN callback
  /\ callback.step = "waiting" => callback.req \in Requests

LEMMA PutAwayDeadlines ==
  ASSUME TimedCallsInv, PutAway
  PROVE  deadline' \in [Requests -> Budgets \cup {0}]
BY DEF TimedCallsInv, PutAway

\* The callback waits only for a request it has just submitted.
LEMMA SubmittedCallback ==
  ASSUME NEW r \in Requests, Submitted(r)
  PROVE  /\ "step" \in DOMAIN callback'
         /\ callback'.step = "waiting" => callback'.req \in Requests
<1>1. PICK rows \in 0..(IF stage'[r] = "limit" THEN MaxRows ELSE 0) :
        callback' = CASE stage'[r] = "waiting" -> [step |-> "waiting", req |-> r]
                      [] stage'[r] = "limit" -> Expanding(rows)
                      [] OTHER -> Idle
  BY DEF Submitted
<1>2. CASE stage'[r] = "waiting"
  BY <1>1, <1>2
<1>3. CASE stage'[r] = "limit"
  BY <1>1, <1>3 DEF Expanding
<1>4. CASE stage'[r] \notin {"waiting", "limit"}
  BY <1>1, <1>4 DEF Idle
<1> QED
  BY <1>2, <1>3, <1>4

LEMMA TimedAdmitCalls ==
  ASSUME TimedCallsInv, Admit
  PROVE  [GateNext]_gateVars /\ TimedCallsInv'
<1> DEFINE r == Head(inbox)
<1>1. r \in Requests /\ inbox' \in Seq(Requests)
  BY HeadTailProperties DEF TimedCallsInv, Admit
<1>2. deadline[r] \in Budgets \cup {0}
  BY <1>1 DEF TimedCallsInv
<1>3. GateNext
  BY <1>1, <1>2 DEF Admit, GateNext
<1>4. deadline' \in [Requests -> Budgets \cup {0}]
  BY PutAwayDeadlines DEF Admit
<1>5. /\ "step" \in DOMAIN callback'
      /\ callback'.step = "waiting" => callback'.req \in Requests
  BY <1>1, SubmittedCallback DEF Admit
<1> QED
  BY <1>1, <1>3, <1>4, <1>5 DEF TimedCallsInv

LEMMA TimedResumeCalls ==
  ASSUME TimedCallsInv, AdmitResume
  PROVE  [GateNext]_gateVars /\ TimedCallsInv'
<1>1. callback.req \in Requests
  BY DEF TimedCallsInv, AdmitResume
<1>2. GateNext
  BY <1>1 DEF AdmitResume, GateNext
<1>3. deadline' \in [Requests -> Budgets \cup {0}]
  BY PutAwayDeadlines DEF AdmitResume
<1>4. /\ "step" \in DOMAIN callback'
      /\ callback'.step = "waiting" => callback'.req \in Requests
  BY <1>1, SubmittedCallback DEF AdmitResume
<1> QED
  BY <1>2, <1>3, <1>4 DEF TimedCallsInv, AdmitResume

\* A row leads to another row, to the writes or to the end, never into the wait.
LEMMA CallbackRowCalls ==
  ASSUME TimedCallsInv, CallbackRow
  PROVE  UNCHANGED gateVars /\ TimedCallsInv'
<1>1. CASE callback.step = "geo" /\ callback.rows = 0 /\ callback' = Writing(callback)
  BY <1>1 DEF TimedCallsInv, CallbackRow, clockVars, Writing
<1>2. CASE callback.step = "keeper" /\ callback.rows = 0 /\ callback' = Idle
  BY <1>2 DEF TimedCallsInv, CallbackRow, clockVars, Idle
<1>3. ASSUME NEW got \in 0..1, callback.step # "waiting", callback' = AfterRow(callback, got)
      PROVE  "step" \in DOMAIN callback' /\ callback'.step # "waiting"
  BY <1>3 DEF TimedCallsInv, AfterRow
<1> QED
  BY <1>1, <1>2, <1>3 DEF TimedCallsInv, CallbackRow, clockVars

\* A tick moves the clock of a coroutine and nothing else of it.
LEMMA TimedPassCalls ==
  ASSUME TimedCallsInv, Pass
  PROVE  [GateNext]_gateVars /\ TimedCallsInv'
<1>1. [GateNext]_gateVars
  BY DEF Pass, GateNext
<1>2. /\ "step" \in DOMAIN callback'
      /\ callback'.step = "waiting" => callback'.req \in Requests
  BY DEF TimedCallsInv, Pass, Later
<1> QED
  BY <1>1, <1>2 DEF TimedCallsInv, Pass

\* Each action calls one operation of the gate, or none.
LEMMA TimedNextCalls ==
  ASSUME TimedCallsInv, [Next]_vars
  PROVE  [GateNext]_gateVars /\ TimedCallsInv'
<1>1. ASSUME NEW r \in Requests, Arrive(r)
      PROVE  UNCHANGED gateVars /\ TimedCallsInv'
  <2>1. inbox' \in Seq(Requests)
    <3>1. inbox' = inbox \/ inbox' = Append(inbox, r)
      BY <1>1 DEF Arrive
    <3> QED
      BY <3>1, AppendProperties DEF TimedCallsInv
  <2>2. deadline' \in [Requests -> Budgets \cup {0}]
    BY <1>1 DEF TimedCallsInv, Arrive
  <2> QED
    BY <1>1, <2>1, <2>2 DEF TimedCallsInv, Arrive
<1>2. CASE Admit
  BY <1>2, TimedAdmitCalls
<1>3. CASE AdmitResume
  BY <1>3, TimedResumeCalls
<1>4. CASE CallbackRow
  BY <1>4, CallbackRowCalls
<1>5. CASE WorkerTake
  BY <1>5, PutAwayDeadlines DEF TimedCallsInv, WorkerTake, GateNext
<1>6. CASE Evaluated
  BY <1>6 DEF TimedCallsInv, Evaluated, clockVars
<1>7. CASE WorkerRow
  BY <1>7 DEF TimedCallsInv, WorkerRow, clockVars
<1>8. CASE Reply
  BY <1>8, PutAwayDeadlines DEF TimedCallsInv, Reply
<1>9. CASE Finish
  BY <1>9 DEF TimedCallsInv, Finish, clockVars, GateNext, Hand, Taken
<1>10. CASE SweeperSweep
  BY <1>10, PutAwayDeadlines DEF TimedCallsInv, SweeperSweep, GateNext
<1>11. CASE Pass
  BY <1>11, TimedPassCalls
<1>12. CASE UNCHANGED vars
  BY <1>12 DEF TimedCallsInv, vars, clockVars
<1> QED
  BY <1>1, <1>2, <1>3, <1>4, <1>5, <1>6, <1>7, <1>8, <1>9, <1>10, <1>11, <1>12
     DEF Next, CallbackNext, WorkerNext

\* The timed model implements the gate's specification on the gate's variables.
THEOREM BudgetUsesGate == Spec => GateSpec
<1>1. Init => GateInit /\ TimedCallsInv
  BY DEF Init, TimedCallsInv, Idle
<1>2. TimedCallsInv /\ [Next]_vars => [GateNext]_gateVars /\ TimedCallsInv'
  BY TimedNextCalls
<1> QED
  BY <1>1, <1>2, PTL DEF Spec, GateSpec

\* However long directory, keeper and evaluation take, the deque is bounded, its
\* accounting is exact and the worker never sleeps beside a filled deque.
THEOREM BudgetGateInvariant ==
  Spec => [](CapacityKept /\ AccountingExact /\ WorkerNotStranded)
<1>1. GateInv => CapacityKept /\ AccountingExact /\ WorkerNotStranded
  BY DEF GateInv
<1> QED
  BY <1>1, BudgetUsesGate, GateInvariant, PTL

-----------------------------------------------------------------------------
(* The waits of a coroutine over its rows *)

Longest == Max(Budgets \cup {MaxRows * (GeoTimeout + KeeperTimeout)})

\* What a coroutine has spent on its rows: full time-outs for those behind it, and
\* what the one before it has taken so far.
RowsInv(a) ==
  /\ a \in RowWork
  /\ a.rows = 0 => a.spent = 0
  /\ a.step = "geo" => /\ a.rows + a.kept <= MaxRows /\ a.spent <= GeoTimeout
                       /\ a.since <= (MaxRows - a.rows) * GeoTimeout + a.spent
  /\ a.step = "keeper" =>
       /\ a.spent <= KeeperTimeout
       /\ a.since <= MaxRows * GeoTimeout + (MaxRows - a.rows) * KeeperTimeout + a.spent

LEMMA ExpandingRows ==
  ASSUME NEW rows \in 0..MaxRows
  PROVE  RowsInv(Expanding(rows)) /\ Expanding(rows).since = 0
<1>1. Expanding(rows) = [step |-> "geo", rows |-> rows, kept |-> 0, spent |-> 0, since |-> 0]
  BY DEF Expanding
<1>2. MaxRows \in Nat /\ GeoTimeout \in Nat /\ rows \in Nat /\ rows <= MaxRows
  BY BudgetAssumption
<1>3. 0 <= (MaxRows - rows) * GeoTimeout
  <2> HIDE <1>1
  <2> QED BY <1>2
<1>4. Expanding(rows) \in RowWork
  BY <1>1, <1>2 DEF RowWork
<1> QED
  BY <1>1, <1>2, <1>3, <1>4 DEF RowsInv

\* Products with a time-out, apart from the records.
LEMMA OneRowMore ==
  ASSUME NEW m \in Nat, NEW n \in Nat, NEW t \in Nat, 0 < n, n <= m
  PROVE  /\ (m - (n - 1)) * t = (m - n) * t + t
         /\ (m - n) * t \in Nat /\ (m - (n - 1)) * t \in Nat
         /\ (m - n) * t + t <= m * t /\ m * t \in Nat
<1>1. PICK d \in Nat : d = m - n
  OBVIOUS
<1>2. m - (n - 1) = d + 1
  BY <1>1
<1>3. (d + 1) * t = d * t + t /\ d * t \in Nat /\ (d + 1) * t \in Nat
  OBVIOUS
<1>4. PICK e \in Nat : m = (d + 1) + e
  BY <1>1
<1>5. ((d + 1) + e) * t = (d + 1) * t + e * t /\ e * t \in Nat
  OBVIOUS
<1> QED
  BY <1>1, <1>2, <1>3, <1>4, <1>5

LEMMA SinceBounds ==
  ASSUME NEW a, RowsInv(a)
  PROVE  /\ a.step = "geo" => a.since <= MaxRows * GeoTimeout
         /\ a.since <= MaxRows * (GeoTimeout + KeeperTimeout)
         /\ a.since \in Nat
<1> DEFINE m == MaxRows  g == GeoTimeout  k == KeeperTimeout  n == a.rows  s == a.spent
           t == a.since
<1>1. /\ m \in Nat /\ g \in Nat /\ k \in Nat /\ n \in Nat /\ s \in Nat /\ t \in Nat
      /\ n <= m /\ (n = 0 => s = 0)
      /\ a.step \in {"geo", "keeper"}
  BY BudgetAssumption DEF RowsInv, RowWork
<1>2. a.step = "geo" => s <= g /\ t <= (m - n) * g + s
  BY DEF RowsInv
<1>3. a.step = "keeper" => s <= k /\ t <= m * g + (m - n) * k + s
  BY DEF RowsInv
<1>4. n > 0 => /\ (m - n) * g + g <= m * g /\ (m - n) * k + k <= m * k
               /\ (m - n) * g \in Nat /\ (m - n) * k \in Nat
  BY <1>1, OneRowMore
<1>5. m * g \in Nat /\ m * k \in Nat /\ m * (g + k) = m * g + m * k
  BY <1>1
<1>6. t \in Nat /\ MaxRows * (GeoTimeout + KeeperTimeout) = m * (g + k)
  BY <1>1
<1> HIDE DEF m, g, k, n, s, t
<1>7. n = 0 => (m - n) * g = m * g /\ (m - n) * k = m * k
  BY <1>1
<1>8. a.step = "geo" => t <= m * g
  BY <1>1, <1>2, <1>4, <1>5, <1>7
<1>9. a.step = "keeper" => t <= m * g + m * k
  BY <1>1, <1>3, <1>4, <1>5, <1>7
<1>10. t <= m * (g + k)
  BY <1>1, <1>5, <1>8, <1>9
<1> QED
  BY <1>6, <1>8, <1>10 DEF m, g, t

LEMMA AfterRowWork ==
  ASSUME NEW a, RowsInv(a), a.rows > 0, NEW got \in 0..1, a.step = "keeper" => got = 0
  PROVE  RowsInv(AfterRow(a, got)) /\ AfterRow(a, got).since = a.since
<1> DEFINE b == AfterRow(a, got)
           m == MaxRows  g == GeoTimeout  k == KeeperTimeout  n == a.rows  s == a.spent
           t == a.since
<1>1. /\ m \in Nat /\ g \in Nat /\ k \in Nat /\ n \in Nat /\ s \in Nat /\ t \in Nat
      /\ n <= m /\ n > 0 /\ a.kept \in Nat /\ a.kept <= m /\ got \in Nat /\ got <= 1
      /\ a.step \in {"geo", "keeper"}
  BY BudgetAssumption DEF RowsInv, RowWork
<1>2. a.step = "geo" => s <= g /\ t <= (m - n) * g + s /\ n + a.kept <= m
  BY DEF RowsInv
<1>3. a.step = "keeper" => s <= k /\ t <= m * g + (m - n) * k + s
  BY DEF RowsInv
<1>4. /\ b.step = a.step /\ b.rows = n - 1 /\ b.kept = a.kept + got
      /\ b.spent = 0 /\ b.since = t
      /\ b = [step |-> a.step, rows |-> n - 1, kept |-> a.kept + got, spent |-> 0, since |-> t]
  <2>1. a \in RowWork
    BY DEF RowsInv
  <2>2. b = [a EXCEPT !.rows = n - 1, !.kept = a.kept + got, !.spent = 0]
    BY DEF AfterRow
  <2>3. b = [step |-> a.step, rows |-> n - 1, kept |-> a.kept + got, spent |-> 0, since |-> t]
    BY <2>1, <2>2 DEF RowWork
  <2> QED
    BY <2>3
<1>5. /\ (m - (n - 1)) * g = (m - n) * g + g /\ (m - (n - 1)) * k = (m - n) * k + k
      /\ (m - n) * g \in Nat /\ (m - n) * k \in Nat /\ m * g \in Nat
  BY <1>1, OneRowMore
<1> HIDE DEF b, m, g, k, n, s, t
<1>6. a.step = "geo" => t <= (m - (n - 1)) * g + 0
  BY <1>1, <1>2, <1>5
<1>7. a.step = "keeper" => t <= m * g + (m - (n - 1)) * k + 0
  BY <1>1, <1>3, <1>5
<1>8. a.step = "geo" => (n - 1) + (a.kept + got) <= m
  BY <1>1, <1>2
<1>9. a.kept + got \in 0..m /\ n - 1 \in 0..m
  BY <1>1, <1>2
<1>10. b \in RowWork
  BY <1>1, <1>4, <1>9 DEF RowWork, m
<1>11. b.step = "geo" => /\ b.rows + b.kept <= m /\ b.spent <= g
                         /\ b.since <= (m - b.rows) * g + b.spent
  BY <1>1, <1>4, <1>6, <1>8
<1>12. b.step = "keeper" => /\ b.spent <= k
                            /\ b.since <= m * g + (m - b.rows) * k + b.spent
  BY <1>1, <1>4, <1>7
<1>13. RowsInv(b)
  BY <1>4, <1>10, <1>11, <1>12 DEF RowsInv, m, g, k
<1> QED
  BY <1>4, <1>13 DEF b, t

LEMMA WritingWork ==
  ASSUME NEW a, RowsInv(a), a.step = "geo", a.rows = 0
  PROVE  RowsInv(Writing(a)) /\ Writing(a).since = a.since /\ Writing(a).step = "keeper"
<1> DEFINE b == Writing(a)
           m == MaxRows  g == GeoTimeout  k == KeeperTimeout  t == a.since
<1>1. /\ m \in Nat /\ g \in Nat /\ k \in Nat /\ t \in Nat /\ a.kept \in 0..m
  BY BudgetAssumption DEF RowsInv, RowWork
<1>2. /\ b.step = "keeper" /\ b.rows = a.kept /\ b.spent = 0 /\ b.since = t
      /\ b = [step |-> "keeper", rows |-> a.kept, kept |-> a.kept, spent |-> 0, since |-> t]
  <2>1. a \in RowWork
    BY DEF RowsInv
  <2>2. b = [a EXCEPT !.step = "keeper", !.rows = a.kept, !.spent = 0]
    BY DEF Writing
  <2>3. b = [step |-> "keeper", rows |-> a.kept, kept |-> a.kept, spent |-> 0, since |-> t]
    BY <2>1, <2>2 DEF RowWork
  <2> QED
    BY <2>3
<1>3. t <= m * g
  BY SinceBounds
<1> HIDE DEF b, m, g, k, t
<1>4. m - a.kept \in Nat
  BY <1>1
<1>5. (m - a.kept) * k \in Nat /\ m * g \in Nat
  BY <1>1, <1>4
<1>6. t <= m * g + (m - a.kept) * k + 0
  BY <1>1, <1>3, <1>5
<1>7. b \in RowWork
  BY <1>1, <1>2 DEF RowWork, m
<1>8. RowsInv(b)
  BY <1>1, <1>2, <1>6, <1>7 DEF RowsInv, m, g, k
<1> QED
  BY <1>2, <1>8 DEF b, t

LEMMA LaterWork ==
  ASSUME NEW a, RowsInv(a), MayWait(a)
  PROVE  RowsInv(Later(a)) /\ Later(a).since = a.since + 1 /\ Later(a).step = a.step
<1> DEFINE b == Later(a)
           m == MaxRows  g == GeoTimeout  k == KeeperTimeout  n == a.rows  s == a.spent
           t == a.since
<1>1. /\ m \in Nat /\ g \in Nat /\ k \in Nat /\ n \in Nat /\ s \in Nat /\ t \in Nat
      /\ n <= m /\ n > 0 /\ a.step \in {"geo", "keeper"}
  BY BudgetAssumption DEF RowsInv, RowWork, MayWait
<1>2. a.step = "geo" => s + 1 <= g /\ t <= (m - n) * g + s /\ n + a.kept <= m
  BY <1>1 DEF RowsInv, MayWait
<1>3. a.step = "keeper" => s + 1 <= k /\ t <= m * g + (m - n) * k + s
  BY <1>1 DEF RowsInv, MayWait
<1>4. /\ b.step = a.step /\ b.rows = n /\ b.kept = a.kept /\ b.spent = s + 1 /\ b.since = t + 1
      /\ b = [step |-> a.step, rows |-> n, kept |-> a.kept, spent |-> s + 1, since |-> t + 1]
  BY <1>1 DEF Later, RowsInv, RowWork
<1>5. (m - n) * g \in Nat /\ (m - n) * k \in Nat /\ m * g \in Nat
  BY <1>1, OneRowMore
<1>6. a.rows \in 0..MaxRows /\ a.kept \in 0..MaxRows
  BY DEF RowsInv, RowWork
<1> HIDE DEF b, g, k, s, t
<1>7. b \in RowWork
  BY <1>1, <1>4, <1>6 DEF RowWork
<1> HIDE DEF m, n
<1>8. a.step = "geo" => t + 1 <= (m - n) * g + (s + 1)
  BY <1>1, <1>2, <1>5
<1>9. a.step = "keeper" => t + 1 <= m * g + (m - n) * k + (s + 1)
  BY <1>1, <1>3, <1>5
<1>10. RowsInv(b)
  BY <1>1, <1>2, <1>3, <1>4, <1>7, <1>8, <1>9 DEF RowsInv, m, g, k
<1> QED
  BY <1>4, <1>10 DEF b, t

-----------------------------------------------------------------------------
(* The clocks of a message beside the deadline the gate keeps for it *)

Codes == {"none", "lost", "verdict", "VLAI_DEADLINE", "VLAI_QUEUE_LIMIT"}

Waits(r) == [step |-> "waiting", req |-> r]

\* The callback waits for room exactly with the one request that does; worker and
\* callback are within the time-outs of their rows, and a worker that writes to
\* keeper has answered.
WorkInv ==
  /\ callback = Idle \/ RowsInv(callback)
       \/ \E r \in Requests : callback = Waits(r) /\ stage[r] = "waiting"
  /\ \A r \in Requests : stage[r] = "waiting" => callback = Waits(r)
  /\ worker = Idle \/ worker = [step |-> "evaluate"] \/ RowsInv(worker)
  /\ \A q, r \in Hand : q = r
  /\ worker.step = "keeper" => \A r \in Hand : code[r] # "none"

\* The pending queue holds unanswered requests the gate has not seen, each once.
BoxInv ==
  /\ \A i, j \in DOMAIN inbox : inbox[i] = inbox[j] => i = j
  /\ \A r \in InBuffer : stage[r] = "outside" /\ code[r] = "none"

\* What the gate counts down and what has passed since the callback add up to no
\* more than the deadline: both stand still until the callback begins, and a request
\* in the gate that is past min_budget is gone before the next tick.
ClockInv ==
  /\ code \in [Requests -> Codes]
  /\ inside \in [Requests -> 0..MaxTicks]
  /\ \A r \in Requests : stage[r] = "outside" => inside[r] = 0
  /\ \A r \in Requests : stage[r] \in {"waiting", "queued"} =>
       /\ code[r] = "none"
       /\ inside[r] + left[r] <= deadline[r]
       /\ stage[r] = "waiting" \/ MinBudget > 0 => left[r] >= 0

LEMMA BudgetsNatural == \A d \in Budgets \cup {0} : d \in Nat
BY GateAssumption

LEMMA RefusalCodes ==
  ASSUME code \in [Requests -> Codes], Refusals
  PROVE  /\ code' \in [Requests -> Codes]
         /\ \A r \in Requests : stage'[r] = stage[r] => code'[r] = code[r]
         /\ \A r \in Requests : stage'[r] \in {"waiting", "queued"} => code'[r] = code[r]
         /\ \A r \in Requests : code[r] # "none" => code'[r] # "none"
<1>1. code' = [r \in Requests |->
                 IF stage'[r] = stage[r] THEN code[r]
                 ELSE CASE stage'[r] \in {"stale", "deadline"} -> "VLAI_DEADLINE"
                        [] stage'[r] = "limit" -> "VLAI_QUEUE_LIMIT"
                        [] OTHER -> code[r]]
  BY DEF Refusals
<1>2. \A r \in Requests :
        /\ stage'[r] = stage[r] => code'[r] = code[r]
        /\ stage'[r] \in {"waiting", "queued"} => code'[r] = code[r]
        /\ code'[r] \in {code[r], "VLAI_DEADLINE", "VLAI_QUEUE_LIMIT"}
  BY <1>1
<1>3. code' \in [Requests -> Codes]
  BY <1>1 DEF Codes
<1> QED
  BY <1>2, <1>3

\* A request keeps its clock while it stands in the gate, and begins it at zero.
LEMMA OperationKeepsClocks ==
  ASSUME GateTypeOK, TimedCallsInv, BoxInv, ClockInv, Refusals, PutAway,
         \A q \in Requests : stage'[q] = "outside" => stage[q] = "outside",
         \A q \in Requests : stage'[q] \in {"waiting", "queued"} =>
           \/ /\ stage[q] \in {"waiting", "queued"} /\ left'[q] = left[q]
              /\ stage[q] = "waiting" \/ stage'[q] = "queued"
           \/ q \in InBuffer /\ left'[q] = deadline[q]
  PROVE  ClockInv'
<1>1. code' \in [Requests -> Codes]
  BY RefusalCodes DEF ClockInv
<1>2. \A q \in Requests : inside'[q] = IF code'[q] = "none" THEN inside[q] ELSE 0
  BY DEF PutAway
<1>3. inside' \in [Requests -> 0..MaxTicks]
  BY BudgetAssumption DEF PutAway, ClockInv
<1>4. \A q \in Requests : stage'[q] = "outside" => inside'[q] = 0
  BY <1>2 DEF ClockInv
<1>5. ASSUME NEW q \in Requests, stage'[q] \in {"waiting", "queued"}
      PROVE  /\ code'[q] = "none"
             /\ inside'[q] + left'[q] <= deadline'[q]
             /\ stage'[q] = "waiting" \/ MinBudget > 0 => left'[q] >= 0
  <2>1. code[q] = "none"
    BY <1>5 DEF ClockInv, BoxInv
  <2>2. code'[q] = "none" /\ inside'[q] = inside[q] /\ deadline'[q] = deadline[q]
    BY <1>5, <2>1, <1>2, RefusalCodes DEF ClockInv, PutAway
  <2>3. deadline[q] \in Nat /\ inside[q] \in Nat /\ left[q] \in Int
    <3>1. deadline[q] \in Nat
      <4>1. deadline[q] \in Budgets \cup {0}
        BY DEF TimedCallsInv
      <4> QED
        BY <4>1, BudgetsNatural
    <3>2. inside[q] \in Nat
      BY BudgetAssumption DEF ClockInv
    <3>3. left[q] \in Int
      BY DEF GateTypeOK, Overdue
    <3> QED
      BY <3>1, <3>2, <3>3
  <2>4. CASE stage[q] \in {"waiting", "queued"} /\ left'[q] = left[q]
               /\ (stage[q] = "waiting" \/ stage'[q] = "queued")
    <3>1. inside[q] + left[q] <= deadline[q]
      BY <2>4 DEF ClockInv
    <3>2. stage[q] = "waiting" \/ MinBudget > 0 => left[q] >= 0
      BY <2>4 DEF ClockInv
    <3>3. stage'[q] = "waiting" \/ MinBudget > 0 => left'[q] >= 0
      BY <1>5, <2>4, <3>2
    <3> QED
      BY <2>2, <2>4, <3>1, <3>3
  <2>5. CASE q \in InBuffer /\ left'[q] = deadline[q]
    <3>1. inside[q] = 0
      BY <2>5 DEF BoxInv, ClockInv
    <3> QED
      BY <2>2, <2>3, <2>5, <3>1
  <2> QED
    BY <1>5, <2>4, <2>5
<1> QED
  BY <1>1, <1>3, <1>4, <1>5 DEF ClockInv

LEMMA TailElements ==
  ASSUME NEW S, NEW s \in Seq(S), s # <<>>
  PROVE  /\ Head(s) = s[1] /\ Len(s) >= 1
         /\ Tail(s) \in Seq(S) /\ DOMAIN Tail(s) = 1..(Len(s) - 1)
         /\ \A i \in DOMAIN Tail(s) : Tail(s)[i] = s[i + 1]
<1>1. Len(s) \in Nat /\ Len(s) # 0
  BY EmptySeq, LenProperties
<1>2. Tail(s) \in Seq(S) /\ Len(Tail(s)) = Len(s) - 1
  BY HeadTailProperties
<1>3. DOMAIN Tail(s) = 1..(Len(s) - 1)
  BY <1>2, LenProperties
<1>4. \A i \in 1..Len(Tail(s)) : Tail(s)[i] = s[i + 1]
  BY HeadTailProperties
<1> QED
  BY <1>1, <1>2, <1>3, <1>4

\* The pending queue is as it was, or without its head.
LEMMA OperationKeepsBox ==
  ASSUME TimedCallsInv, BoxInv, ClockInv, Refusals,
         inbox' = inbox \/ (inbox # <<>> /\ inbox' = Tail(inbox)),
         \A q \in Requests : stage[q] = "outside" /\ stage'[q] # "outside" =>
           inbox # <<>> /\ inbox' = Tail(inbox) /\ q = Head(inbox)
  PROVE  BoxInv'
<1>1. inbox \in Seq(Requests) /\ DOMAIN inbox = 1..Len(inbox) /\ Len(inbox) \in Nat
  BY LenProperties DEF TimedCallsInv
<1>2. CASE inbox' = inbox
  <2>1. inbox # <<>> => inbox' # Tail(inbox)
    <3> SUFFICES ASSUME inbox # <<>>, inbox = Tail(inbox) PROVE FALSE
      BY <1>2
    <3>1. Len(Tail(inbox)) = Len(inbox) - 1
      BY <1>1, HeadTailProperties
    <3> QED
      BY <1>1, <3>1
  <2>2. \A i \in DOMAIN inbox : inbox[i] \in Requests
    BY <1>1, ElementOfSeq
  <2>3. \A r \in InBuffer : r \in Requests /\ stage'[r] = stage[r]
    BY <2>1, <2>2 DEF InBuffer, BoxInv
  <2>4. \A r \in InBuffer : code'[r] = code[r]
    BY <2>3, RefusalCodes DEF ClockInv
  <2> QED
    BY <1>2, <2>3, <2>4 DEF BoxInv, InBuffer
<1>3. CASE inbox # <<>> /\ inbox' = Tail(inbox)
  <2>1. /\ Head(inbox) = inbox[1] /\ Len(inbox) >= 1
        /\ inbox' \in Seq(Requests) /\ DOMAIN inbox' = 1..(Len(inbox) - 1)
        /\ \A i \in DOMAIN inbox' : inbox'[i] = inbox[i + 1]
    BY <1>1, <1>3, TailElements
  <2>2. ASSUME NEW i \in DOMAIN inbox'
        PROVE  /\ inbox'[i] \in Requests /\ inbox'[i] # Head(inbox)
               /\ stage[inbox'[i]] = "outside" /\ code[inbox'[i]] = "none"
    <3>1. i + 1 \in DOMAIN inbox /\ 1 \in DOMAIN inbox /\ i + 1 # 1
      BY <1>1, <2>1
    <3>2. inbox[i + 1] \in Requests /\ inbox[i + 1] # inbox[1]
      BY <1>1, <3>1, ElementOfSeq DEF BoxInv
    <3> QED
      BY <2>1, <3>1, <3>2 DEF BoxInv, InBuffer
  <2>3. \A i \in DOMAIN inbox' : stage'[inbox'[i]] = "outside"
    BY <2>2
  <2>4. \A i \in DOMAIN inbox' : code'[inbox'[i]] = "none"
    BY <2>2, <2>3, RefusalCodes DEF ClockInv
  <2>5. ASSUME NEW i \in DOMAIN inbox', NEW j \in DOMAIN inbox', inbox'[i] = inbox'[j]
        PROVE  i = j
    <3>1. i + 1 \in DOMAIN inbox /\ j + 1 \in DOMAIN inbox /\ i \in Int /\ j \in Int
      BY <1>1, <2>1
    <3>2. i + 1 = j + 1
      BY <2>1, <2>5, <3>1 DEF BoxInv
    <3> QED
      BY <3>1, <3>2
  <2> QED
    BY <2>3, <2>4, <2>5 DEF BoxInv, InBuffer
<1> QED
  BY <1>2, <1>3

-----------------------------------------------------------------------------
(* The actions *)

TimedInv == WorkInv /\ BoxInv /\ ClockInv

LEMMA WaitsIs ==
  ASSUME NEW r
  PROVE  Waits(r).step = "waiting" /\ Waits(r).req = r /\ Waits(r) # Idle /\ ~RowsInv(Waits(r))
<1>1. Waits(r).step = "waiting" /\ Waits(r).req = r
  BY DEF Waits
<1>2. Idle.step = "idle"
  BY DEF Idle
<1>3. \A a : RowsInv(a) => a.step \in {"geo", "keeper"}
  BY DEF RowsInv, RowWork
<1> QED
  BY <1>1, <1>2, <1>3

\* What a step of the callback says of where it stands.
LEMMA CallbackIs ==
  ASSUME WorkInv
  PROVE  /\ callback.step = "waiting" =>
              /\ callback.req \in Requests /\ callback = Waits(callback.req)
              /\ stage[callback.req] = "waiting"
         /\ callback.step \in {"geo", "keeper"} => RowsInv(callback)
         /\ callback.step \in {"idle", "waiting", "geo", "keeper"}
         /\ callback # Idle /\ callback.step # "waiting" => RowsInv(callback)
<1>1. Idle.step = "idle"
  BY DEF Idle
<1>2. \A a : RowsInv(a) => a.step \in {"geo", "keeper"}
  BY DEF RowsInv, RowWork
<1>3. CASE callback = Idle
  BY <1>1, <1>3
<1>4. CASE RowsInv(callback)
  BY <1>2, <1>4
<1>5. CASE \E r \in Requests : callback = Waits(r) /\ stage[r] = "waiting"
  BY <1>5, WaitsIs
<1> QED
  BY <1>3, <1>4, <1>5 DEF WorkInv

\* Where the callback goes next, told from the stage of its request.
LEMMA SubmittedWork ==
  ASSUME NEW r \in Requests, Submitted(r), stage'[r] \in Stages
  PROVE  /\ stage'[r] = "waiting" => callback' = Waits(r)
         /\ callback' = Idle \/ (RowsInv(callback') /\ callback'.since = 0)
              \/ (callback' = Waits(r) /\ stage'[r] = "waiting")
<1>1. PICK rows \in 0..(IF stage'[r] = "limit" THEN MaxRows ELSE 0) :
        callback' = CASE stage'[r] = "waiting" -> [step |-> "waiting", req |-> r]
                      [] stage'[r] = "limit" -> Expanding(rows)
                      [] OTHER -> Idle
  BY DEF Submitted
<1>2. CASE stage'[r] = "waiting"
  BY <1>1, <1>2 DEF Waits
<1>3. CASE stage'[r] = "limit"
  <2>1. rows \in 0..MaxRows /\ callback' = Expanding(rows)
    BY <1>1, <1>3
  <2> QED
    BY <1>3, <2>1, ExpandingRows
<1>4. CASE stage'[r] \notin {"waiting", "limit"}
  BY <1>1, <1>4
<1> QED
  BY <1>2, <1>3, <1>4

LEMMA StageTyped ==
  ASSUME GateTypeOK
  PROVE  StageType
BY DEF GateTypeOK, StageType

LEMMA AdmitKeeps ==
  ASSUME GateTypeOK, TimedCallsInv, TimedInv, Admit
  PROVE  TimedInv'
<1> DEFINE r == Head(inbox)
<1>1. r \in Requests /\ callback = Idle /\ inbox # <<>> /\ inbox' = Tail(inbox) /\ Refusals /\ PutAway
  BY HeadTailProperties DEF TimedCallsInv, Admit, Submitted
<1>2. PICK full \in {"wait", "shed"} : Submit(r, deadline[r], full)
  BY DEF Admit
<1>3. /\ StageType' /\ stage[r] = "outside"
      /\ stage'[r] \in {"waiting", "queued", "limit", "deadline"}
      /\ \A q \in Requests \ {r} : EvictsAtMost(q)
  BY <1>1, <1>2, StageTyped, SubmitStage
<1>4. r \in InBuffer
  <2>1. r = inbox[1] /\ 1 \in DOMAIN inbox
    BY <1>1, TailElements, LenProperties DEF TimedCallsInv
  <2> QED
    BY <2>1 DEF InBuffer
<1>5. left' = [left EXCEPT ![r] = deadline[r]] /\ left \in [Requests -> Nat \cup {Overdue}]
  BY <1>2 DEF Submit, GateTypeOK
<1>6. BoxInv'
  <2>1. \A q \in Requests : stage[q] = "outside" /\ stage'[q] # "outside" => q = r
    BY <1>3 DEF EvictsAtMost
  <2> HIDE DEF r
  <2> QED
    BY <1>1, <2>1, OperationKeepsBox DEF TimedInv, r
<1>7. ClockInv'
  <2>1. \A q \in Requests : stage'[q] = "outside" => stage[q] = "outside"
    BY <1>3 DEF EvictsAtMost
  <2>2. \A q \in Requests : stage'[q] \in {"waiting", "queued"} =>
           \/ /\ stage[q] \in {"waiting", "queued"} /\ left'[q] = left[q]
              /\ stage[q] = "waiting" \/ stage'[q] = "queued"
           \/ q \in InBuffer /\ left'[q] = deadline[q]
    <3> SUFFICES ASSUME NEW q \in Requests, stage'[q] \in {"waiting", "queued"}
                 PROVE  \/ /\ stage[q] \in {"waiting", "queued"} /\ left'[q] = left[q]
                           /\ stage[q] = "waiting" \/ stage'[q] = "queued"
                        \/ q \in InBuffer /\ left'[q] = deadline[q]
      OBVIOUS
    <3>1. CASE q = r
      BY <1>1, <1>4, <1>5, <3>1
    <3>2. CASE q # r
      BY <1>3, <1>5, <3>2 DEF EvictsAtMost
    <3> QED
      BY <3>1, <3>2
  <2> QED
    BY <1>1, <2>1, <2>2, OperationKeepsClocks DEF TimedInv
<1>8. WorkInv'
  <2>1. /\ stage'[r] = "waiting" => callback' = Waits(r)
        /\ callback' = Idle \/ RowsInv(callback') \/ (callback' = Waits(r) /\ stage'[r] = "waiting")
    BY <1>1, <1>3, SubmittedWork DEF Admit, StageType
  <2>2. \A q \in Requests : stage[q] # "waiting"
    BY <1>1, WaitsIs DEF TimedInv, WorkInv
  <2>3. \A q \in Requests : stage'[q] = "waiting" => q = r
    BY <1>3, <2>2 DEF EvictsAtMost
  <2>4. Hand' = Hand /\ worker' = worker
    BY <1>3 DEF Admit, Hand, Taken, EvictsAtMost
  <2>5. \A q \in Hand : code[q] # "none" => code'[q] # "none"
    BY <1>1, RefusalCodes DEF TimedInv, ClockInv, Hand, Taken
  <2>6. worker = Idle \/ worker = [step |-> "evaluate"] \/ RowsInv(worker)
    BY DEF TimedInv, WorkInv
  <2>7. /\ \A q, p \in Hand' : q = p
        /\ worker'.step = "keeper" => \A q \in Hand' : code'[q] # "none"
    BY <2>4, <2>5 DEF TimedInv, WorkInv
  <2> HIDE DEF r
  <2>8. callback' = Idle \/ RowsInv(callback')
          \/ \E q \in Requests : callback' = Waits(q) /\ stage'[q] = "waiting"
    BY <1>1, <2>1
  <2>9. \A q \in Requests : stage'[q] = "waiting" => callback' = Waits(q)
    BY <2>1, <2>3
  <2>10. (worker = Idle \/ worker = [step |-> "evaluate"] \/ RowsInv(worker))'
    BY <2>4, <2>6
  <2> QED
    BY <2>7, <2>8, <2>9, <2>10 DEF WorkInv
<1> QED
  BY <1>6, <1>7, <1>8 DEF TimedInv

\* A step of somebody else.
LEMMA WorkKept ==
  ASSUME WorkInv, UNCHANGED <<stage, callback, worker>>,
         \A q \in Requests : code[q] # "none" => code'[q] # "none"
  PROVE  WorkInv'
<1>1. worker = Idle \/ worker = [step |-> "evaluate"] \/ RowsInv(worker)
  BY DEF WorkInv
<1>2. (worker = Idle \/ worker = [step |-> "evaluate"] \/ RowsInv(worker))'
  BY <1>1
<1>3. callback = Idle \/ RowsInv(callback)
       \/ \E r \in Requests : callback = Waits(r) /\ stage[r] = "waiting"
  BY DEF WorkInv
<1>4. (callback = Idle \/ RowsInv(callback)
       \/ \E r \in Requests : callback = Waits(r) /\ stage[r] = "waiting")'
  BY <1>3
<1>5. \A r \in Requests : stage'[r] = "waiting" => callback' = Waits(r)
  BY DEF WorkInv
<1>6. /\ \A q, r \in Hand' : q = r
      /\ worker'.step = "keeper" => \A r \in Hand' : code'[r] # "none"
  BY DEF WorkInv, Hand, Taken
<1> QED
  BY <1>2, <1>4, <1>5, <1>6 DEF WorkInv

LEMMA ResumeKeeps ==
  ASSUME GateTypeOK, TimedCallsInv, TimedInv, AdmitResume
  PROVE  TimedInv'
<1> DEFINE r == callback.req
<1>1. r \in Requests /\ stage[r] = "waiting" /\ callback = Waits(r) /\ Refusals /\ PutAway
  BY CallbackIs DEF TimedInv, AdmitResume, Submitted
<1>2. /\ StageType' /\ stage'[r] \in {"waiting", "queued", "deadline"}
      /\ \A q \in Requests \ {r} : EvictsAtMost(q)
  BY <1>1, StageTyped, ResumeStage DEF AdmitResume
<1>3. left' = left /\ inbox' = inbox /\ worker' = worker
  BY DEF AdmitResume, Wake, Timeout
<1>4. \A q \in Requests : stage[q] = "waiting" => q = r
  BY <1>1, WaitsIs DEF TimedInv, WorkInv
<1>5. BoxInv'
  <2>1. \A q \in Requests : stage[q] = "outside" => stage'[q] = "outside"
    BY <1>1, <1>2 DEF EvictsAtMost
  <2> QED
    BY <1>1, <1>3, <2>1, OperationKeepsBox DEF TimedInv
<1>6. ClockInv'
  <2>1. \A q \in Requests : stage'[q] = "outside" => stage[q] = "outside"
    BY <1>1, <1>2 DEF EvictsAtMost
  <2>2. \A q \in Requests : stage'[q] \in {"waiting", "queued"} =>
           /\ stage[q] \in {"waiting", "queued"} /\ left'[q] = left[q]
           /\ stage[q] = "waiting" \/ stage'[q] = "queued"
    BY <1>1, <1>2, <1>3 DEF EvictsAtMost
  <2> QED
    BY <1>1, <2>1, <2>2, OperationKeepsClocks DEF TimedInv
<1>7. WorkInv'
  <2>1. /\ stage'[r] = "waiting" => callback' = Waits(r)
        /\ callback' = Idle \/ RowsInv(callback') \/ (callback' = Waits(r) /\ stage'[r] = "waiting")
    BY <1>1, <1>2, SubmittedWork DEF AdmitResume, StageType
  <2>2. \A q \in Requests : stage'[q] = "waiting" => q = r
    BY <1>2, <1>4 DEF EvictsAtMost
  <2>3. Hand' = Hand
    BY <1>1, <1>2 DEF Hand, Taken, EvictsAtMost
  <2>4. \A q \in Hand : code[q] # "none" => code'[q] # "none"
    BY <1>1, RefusalCodes DEF TimedInv, ClockInv, Hand, Taken
  <2>5. worker = Idle \/ worker = [step |-> "evaluate"] \/ RowsInv(worker)
    BY DEF TimedInv, WorkInv
  <2>6. /\ \A q, p \in Hand' : q = p
        /\ worker'.step = "keeper" => \A q \in Hand' : code'[q] # "none"
    BY <1>3, <2>3, <2>4 DEF TimedInv, WorkInv
  <2> HIDE DEF r
  <2>7. callback' = Idle \/ RowsInv(callback')
          \/ \E q \in Requests : callback' = Waits(q) /\ stage'[q] = "waiting"
    BY <1>1, <2>1
  <2>8. \A q \in Requests : stage'[q] = "waiting" => callback' = Waits(q)
    BY <2>1, <2>2
  <2>9. (worker = Idle \/ worker = [step |-> "evaluate"] \/ RowsInv(worker))'
    BY <1>3, <2>5
  <2> QED
    BY <2>6, <2>7, <2>8, <2>9 DEF WorkInv
<1> QED
  BY <1>5, <1>6, <1>7 DEF TimedInv

LEMMA CallbackRowKeeps ==
  ASSUME TimedInv, CallbackRow
  PROVE  TimedInv'
<1>1. UNCHANGED <<stage, left, clockVars, inbox, code, worker>>
  BY DEF CallbackRow, gateVars
<1>2. callback' = Idle \/ RowsInv(callback')
  <2>1. ASSUME NEW got \in 0..1, callback.step = "geo", callback.rows > 0,
               callback' = AfterRow(callback, got)
        PROVE  RowsInv(callback')
    BY <2>1, CallbackIs, AfterRowWork DEF TimedInv
  <2>2. CASE callback.step = "geo" /\ callback.rows = 0 /\ callback' = Writing(callback)
    BY <2>2, CallbackIs, WritingWork DEF TimedInv
  <2>3. CASE callback.step = "keeper" /\ callback.rows > 0 /\ callback' = AfterRow(callback, 0)
    BY <2>3, CallbackIs, AfterRowWork DEF TimedInv
  <2> QED
    BY <2>1, <2>2, <2>3 DEF CallbackRow
<1>3. callback.step \in {"geo", "keeper"}
  BY DEF CallbackRow
<1>4. \A q \in Requests : stage[q] # "waiting"
  BY <1>3, WaitsIs DEF TimedInv, WorkInv
<1>5. WorkInv'
  <2>1. worker = Idle \/ worker = [step |-> "evaluate"] \/ RowsInv(worker)
    BY DEF TimedInv, WorkInv
  <2>2. (worker = Idle \/ worker = [step |-> "evaluate"] \/ RowsInv(worker))'
    BY <1>1, <2>1
  <2>3. /\ \A q, p \in Hand' : q = p
        /\ worker'.step = "keeper" => \A q \in Hand' : code'[q] # "none"
    BY <1>1 DEF TimedInv, WorkInv, Hand, Taken
  <2> QED
    BY <1>1, <1>2, <1>4, <2>2, <2>3 DEF WorkInv
<1>6. BoxInv'
  BY <1>1 DEF TimedInv, BoxInv, InBuffer
<1>7. ClockInv'
  BY <1>1 DEF TimedInv, ClockInv, clockVars
<1> QED
  BY <1>5, <1>6, <1>7 DEF TimedInv

LEMMA ArriveKeeps ==
  ASSUME TimedCallsInv, TimedInv, NEW r \in Requests, Arrive(r)
  PROVE  TimedInv'
<1>1. UNCHANGED <<stage, left, inside, callback, worker>>
  BY DEF Arrive, gateVars
<1>2. stage[r] = "outside" /\ code[r] = "none" /\ r \notin InBuffer
  BY DEF Arrive, Delivered
<1>3. CASE inbox' = Append(inbox, r) /\ code' = code
  <2>1. /\ DOMAIN inbox = 1..Len(inbox) /\ Len(inbox) \in Nat
        /\ DOMAIN inbox' = 1..(Len(inbox) + 1)
        /\ \A i \in DOMAIN inbox : inbox'[i] = inbox[i]
        /\ inbox'[Len(inbox) + 1] = r
    BY <1>3, AppendProperties, LenProperties DEF TimedCallsInv
  <2>2. \A i \in DOMAIN inbox : inbox[i] # r
    BY <1>2 DEF InBuffer
  <2>3. \A i \in DOMAIN inbox' : i \in DOMAIN inbox \/ i = Len(inbox) + 1
    BY <2>1
  <2>4. \A i, j \in DOMAIN inbox' : inbox'[i] = inbox'[j] => i = j
    BY <2>1, <2>2, <2>3 DEF TimedInv, BoxInv
  <2>5. \A q \in InBuffer' : q \in InBuffer \/ q = r
    BY <2>1, <2>3 DEF InBuffer
  <2>6. BoxInv'
    BY <1>1, <1>2, <1>3, <2>4, <2>5 DEF TimedInv, BoxInv
  <2>7. \A q \in Requests : stage[q] \in {"waiting", "queued"} => deadline'[q] = deadline[q]
    BY <1>2 DEF Arrive, TimedCallsInv
  <2>8. ClockInv'
    BY <1>1, <1>3, <2>7 DEF TimedInv, ClockInv
  <2> QED
    BY <1>1, <1>3, <2>6, <2>8, WorkKept DEF TimedInv
<1>4. CASE code' = [code EXCEPT ![r] = "lost"] /\ inbox' = inbox /\ deadline' = deadline
  <2>1. code' \in [Requests -> Codes] /\ \A q \in Requests : q # r => code'[q] = code[q]
    BY <1>4 DEF TimedInv, ClockInv, Codes
  <2>2. \A q \in Requests : code[q] # "none" => code'[q] # "none"
    BY <1>4 DEF TimedInv, ClockInv
  <2>3. BoxInv'
    <3>1. \A q \in InBuffer : q \in Requests /\ q # r
      BY <1>2, ElementOfSeq, LenProperties DEF InBuffer, TimedCallsInv
    <3> QED
      BY <1>1, <1>4, <2>1, <3>1 DEF TimedInv, BoxInv, InBuffer
  <2>4. ClockInv'
    BY <1>1, <1>2, <1>4, <2>1 DEF TimedInv, ClockInv
  <2> QED
    BY <1>1, <2>2, <2>3, <2>4, WorkKept DEF TimedInv
<1> QED
  BY <1>3, <1>4 DEF Arrive

\* What the worker and the sweeper evict leaves the others where they stand.
LEMMA EvictionKeeps ==
  ASSUME GateTypeOK, TimedCallsInv, TimedInv, Refusals, PutAway, UNCHANGED <<left, inbox, callback>>,
         \A q \in Requests : EvictsAtMost(q) \/ (stage[q] = "queued" /\ stage'[q] = "taken"),
         \A q, r \in Hand' : q = r,
         (worker = Idle \/ worker = [step |-> "evaluate"] \/ RowsInv(worker))',
         worker'.step = "keeper" => Hand' = Hand /\ worker.step = "keeper"
  PROVE  TimedInv'
<1>1. \A q \in Requests : (stage[q] = "outside" <=> stage'[q] = "outside")
  BY DEF EvictsAtMost
<1>2. \A q \in Requests : (stage[q] = "waiting" <=> stage'[q] = "waiting")
  BY DEF EvictsAtMost
<1>3. BoxInv'
  BY <1>1, OperationKeepsBox DEF TimedInv
<1>4. \A q \in Requests : stage'[q] \in {"waiting", "queued"} => stage'[q] = stage[q]
  BY DEF EvictsAtMost
<1>5. \A q \in Requests : stage'[q] \in {"waiting", "queued"} =>
         /\ stage[q] \in {"waiting", "queued"} /\ left'[q] = left[q]
         /\ stage[q] = "waiting" \/ stage'[q] = "queued"
  BY <1>4
<1>6. ClockInv'
  BY <1>1, <1>5, OperationKeepsClocks DEF TimedInv
<1>7. WorkInv'
  <2>1. callback = Idle \/ RowsInv(callback)
          \/ \E r \in Requests : callback = Waits(r) /\ stage[r] = "waiting"
    BY DEF TimedInv, WorkInv
  <2>2. (callback = Idle \/ RowsInv(callback)
          \/ \E r \in Requests : callback = Waits(r) /\ stage[r] = "waiting")'
    BY <1>2, <2>1
  <2>3. \A q \in Requests : stage'[q] = "waiting" => callback' = Waits(q)
    BY <1>2 DEF TimedInv, WorkInv
  <2>4. \A q \in Hand : code[q] # "none" => code'[q] # "none"
    BY RefusalCodes DEF TimedInv, ClockInv, Hand, Taken
  <2>5. worker'.step = "keeper" => \A q \in Hand' : code'[q] # "none"
    BY <2>4 DEF TimedInv, WorkInv
  <2> QED
    BY <2>2, <2>3, <2>5 DEF WorkInv
<1> QED
  BY <1>3, <1>6, <1>7 DEF TimedInv

LEMMA WorkerTakeKeeps ==
  ASSUME GateTypeOK, TimedCallsInv, TimedInv, WorkerTake
  PROVE  TimedInv'
<1>1. Refusals /\ PutAway /\ UNCHANGED <<left, inbox, callback>>
  BY DEF WorkerTake, Take
<1>2. /\ \A q \in Requests : EvictsAtMost(q) \/ (stage[q] = "queued" /\ stage'[q] = "taken")
      /\ \A q, r \in Hand' : q = r
  BY StageTyped, TakeStage DEF WorkerTake, Hand
<1>3. worker' = Idle \/ worker' = [step |-> "evaluate"]
  BY DEF WorkerTake
<1>4. worker'.step # "keeper"
  BY <1>3 DEF Idle
<1>5. (worker = Idle \/ worker = [step |-> "evaluate"] \/ RowsInv(worker))'
  BY <1>3
<1> QED
  BY <1>1, <1>2, <1>4, <1>5, EvictionKeeps

LEMMA SweepKeepsTimed ==
  ASSUME GateTypeOK, TimedCallsInv, TimedInv, SweeperSweep
  PROVE  TimedInv'
<1>1. Refusals /\ PutAway /\ UNCHANGED <<left, inbox, callback, worker>>
  BY DEF SweeperSweep, Sweep
<1>2. \A q \in Requests : EvictsAtMost(q)
  BY StageTyped, SweepStage DEF SweeperSweep
<1>3. Hand' = Hand
  BY <1>2 DEF Hand, Taken, EvictsAtMost
<1>4. \A q, r \in Hand' : q = r
  BY <1>3 DEF TimedInv, WorkInv
<1>5. worker = Idle \/ worker = [step |-> "evaluate"] \/ RowsInv(worker)
  BY DEF TimedInv, WorkInv
<1>6. (worker = Idle \/ worker = [step |-> "evaluate"] \/ RowsInv(worker))'
  BY <1>1, <1>5
<1>7. worker'.step = "keeper" => Hand' = Hand /\ worker.step = "keeper"
  BY <1>1, <1>3
<1> QED
  BY <1>1, <1>2, <1>4, <1>6, <1>7, EvictionKeeps

\* What a step of the worker says of where it stands.
LEMMA WorkerIs ==
  ASSUME WorkInv
  PROVE  /\ worker.step \in {"geo", "keeper"} => RowsInv(worker)
         /\ worker.step \in {"idle", "evaluate", "geo", "keeper"}
<1>1. Idle.step = "idle"
  BY DEF Idle
<1>2. \A a : RowsInv(a) => a.step \in {"geo", "keeper"}
  BY DEF RowsInv, RowWork
<1>3. CASE worker = Idle
  BY <1>1, <1>3
<1>4. CASE worker = [step |-> "evaluate"]
  BY <1>4
<1>5. CASE RowsInv(worker)
  BY <1>2, <1>5
<1> QED
  BY <1>3, <1>4, <1>5 DEF WorkInv

\* A step of the worker alone.
LEMMA WorkerKeeps ==
  ASSUME TimedInv, UNCHANGED <<stage, left, clockVars, inbox, code, callback>>,
         worker' = Idle \/ RowsInv(worker'),
         worker'.step = "keeper" => \A r \in Hand : code[r] # "none"
  PROVE  TimedInv'
<1>1. callback = Idle \/ RowsInv(callback)
        \/ \E r \in Requests : callback = Waits(r) /\ stage[r] = "waiting"
  BY DEF TimedInv, WorkInv
<1>2. (callback = Idle \/ RowsInv(callback)
        \/ \E r \in Requests : callback = Waits(r) /\ stage[r] = "waiting")'
  BY <1>1
<1>3. /\ \A r \in Requests : stage'[r] = "waiting" => callback' = Waits(r)
      /\ \A q, r \in Hand' : q = r
      /\ worker'.step = "keeper" => \A r \in Hand' : code'[r] # "none"
  BY DEF TimedInv, WorkInv, Hand, Taken
<1>4. (worker = Idle \/ worker = [step |-> "evaluate"] \/ RowsInv(worker))'
  OBVIOUS
<1>5. WorkInv'
  BY <1>2, <1>3, <1>4 DEF WorkInv
<1>6. BoxInv'
  BY DEF TimedInv, BoxInv, InBuffer
<1>7. ClockInv'
  BY DEF TimedInv, ClockInv, clockVars
<1> QED
  BY <1>5, <1>6, <1>7 DEF TimedInv

LEMMA EvaluatedKeeps ==
  ASSUME TimedInv, Evaluated
  PROVE  TimedInv'
<1>1. PICK r \in Hand :
        \E rows \in IF Remaining(r) < MinBudget THEN {0} ELSE 0..MaxRows : worker' = Expanding(rows)
  BY DEF Evaluated
<1>2. PICK rows \in 0..MaxRows : worker' = Expanding(rows)
  BY <1>1, BudgetAssumption
<1>3. RowsInv(worker') /\ worker'.step = "geo"
  BY <1>2, ExpandingRows DEF Expanding
<1> QED
  BY <1>3, WorkerKeeps DEF Evaluated, gateVars

LEMMA WorkerRowKeeps ==
  ASSUME TimedInv, WorkerRow
  PROVE  TimedInv'
<1>1. PICK got \in 0..(IF worker.step = "geo" THEN 1 ELSE 0) : worker' = AfterRow(worker, got)
  BY DEF WorkerRow
<1>2. RowsInv(worker) /\ worker.rows > 0 /\ worker.step \in {"geo", "keeper"}
  BY WorkerIs DEF TimedInv, WorkerRow
<1>3. got \in 0..1 /\ (worker.step = "keeper" => got = 0)
  BY <1>1, <1>2
<1>4. RowsInv(worker')
  BY <1>1, <1>2, <1>3, AfterRowWork
<1>5. worker'.step = worker.step
  BY <1>1, <1>2 DEF AfterRow, RowsInv, RowWork
<1> QED
  BY <1>4, <1>5, WorkerKeeps DEF WorkerRow, TimedInv, WorkInv, gateVars

LEMMA FinishKeeps ==
  ASSUME GateTypeOK, TimedInv, Finish
  PROVE  TimedInv'
<1>1. PICK r \in Hand : Done(r)
  BY DEF Finish
<1>2. r \in Requests /\ stage[r] = "taken" /\ stage'[r] = "finished"
  BY <1>1, StageTyped, DoneStage DEF Hand, Taken
<1>3. \A q \in Requests \ {r} : stage'[q] = stage[q]
  BY <1>1, <1>2, StageTyped, DoneStage
<1>4. UNCHANGED <<left, clockVars, inbox, code, callback>> /\ worker' = Idle
  BY <1>1 DEF Finish, Done
<1>5. \A q \in Requests : stage'[q] \in {"outside", "waiting", "queued"}
                           \/ stage[q] \in {"outside", "waiting", "queued"} => stage'[q] = stage[q]
  BY <1>2, <1>3
<1>6. BoxInv'
  <2>1. \A q \in InBuffer : q \in Requests => stage'[q] = "outside"
    BY <1>5 DEF TimedInv, BoxInv
  <2>2. \A q \in InBuffer : stage[q] = "outside" => stage'[q] = "outside"
    BY <1>1, <1>2 DEF Done, GateTypeOK
  <2> QED
    BY <1>4, <2>2 DEF TimedInv, BoxInv, InBuffer
<1>7. ClockInv'
  BY <1>4, <1>5 DEF TimedInv, ClockInv, clockVars
<1>8. WorkInv'
  <2>1. callback = Idle \/ RowsInv(callback)
          \/ \E q \in Requests : callback = Waits(q) /\ stage[q] = "waiting"
    BY DEF TimedInv, WorkInv
  <2>2. (callback = Idle \/ RowsInv(callback)
          \/ \E q \in Requests : callback = Waits(q) /\ stage[q] = "waiting")'
    BY <1>4, <1>5, <2>1
  <2>3. \A q \in Requests : stage'[q] = "waiting" => callback' = Waits(q)
    BY <1>4, <1>5 DEF TimedInv, WorkInv
  <2>4. \A q, p \in Hand' : q = p
    BY <1>2, <1>3 DEF TimedInv, WorkInv, Hand, Taken
  <2>5. worker'.step # "keeper"
    BY <1>4 DEF Idle
  <2> QED
    BY <1>4, <2>2, <2>3, <2>4, <2>5 DEF WorkInv
<1> QED
  BY <1>6, <1>7, <1>8 DEF TimedInv

LEMMA ReplyKeeps ==
  ASSUME TimedCallsInv, TimedInv, Reply
  PROVE  TimedInv'
<1>1. PICK r \in Hand : code' = [code EXCEPT ![r] = "verdict"]
  BY DEF Reply
<1>2. r \in Requests /\ stage[r] = "taken" /\ Hand = {r}
  BY DEF TimedInv, WorkInv, Hand, Taken
<1>3. UNCHANGED <<stage, left, inbox, callback>> /\ worker' = Writing(worker) /\ PutAway
  BY DEF Reply, gateVars
<1>4. RowsInv(worker')
  BY <1>3, WorkerIs, WritingWork DEF TimedInv, Reply
<1>5. /\ code' \in [Requests -> Codes] /\ code'[r] = "verdict"
      /\ \A q \in Requests : q # r => code'[q] = code[q]
  BY <1>1, <1>2 DEF TimedInv, ClockInv, Codes
<1>6. BoxInv'
  <2>1. \A q \in InBuffer : q \in Requests /\ q # r
    BY <1>2, ElementOfSeq, LenProperties DEF InBuffer, TimedCallsInv, TimedInv, BoxInv
  <2> QED
    BY <1>3, <1>5, <2>1 DEF TimedInv, BoxInv, InBuffer
<1>7. ClockInv'
  <2>1. \A q \in Requests : q # r /\ code[q] = "none" =>
          inside'[q] = inside[q] /\ deadline'[q] = deadline[q]
    BY <1>3, <1>5 DEF PutAway
  <2>2. \A q \in Requests : inside'[q] = inside[q] \/ inside'[q] = 0
    BY <1>3 DEF PutAway
  <2>3. inside' \in [Requests -> 0..MaxTicks]
    BY <1>3, BudgetAssumption DEF PutAway, TimedInv, ClockInv
  <2>4. \A q \in Requests : stage'[q] = "outside" => inside'[q] = 0
    BY <1>3, <2>2 DEF TimedInv, ClockInv
  <2>5. ASSUME NEW q \in Requests, stage'[q] \in {"waiting", "queued"}
        PROVE  /\ code'[q] = "none"
               /\ inside'[q] + left'[q] <= deadline'[q]
               /\ stage'[q] = "waiting" \/ MinBudget > 0 => left'[q] >= 0
    <3>1. q # r /\ stage[q] \in {"waiting", "queued"} /\ left'[q] = left[q] /\ stage'[q] = stage[q]
      BY <1>2, <1>3, <2>5
    <3>2. code[q] = "none" /\ inside[q] + left[q] <= deadline[q]
      BY <3>1 DEF TimedInv, ClockInv
    <3>3. stage[q] = "waiting" \/ MinBudget > 0 => left[q] >= 0
      BY <3>1 DEF TimedInv, ClockInv
    <3>4. inside'[q] = inside[q] /\ deadline'[q] = deadline[q] /\ code'[q] = "none"
      BY <1>5, <2>1, <3>1, <3>2
    <3> QED
      BY <3>1, <3>2, <3>3, <3>4
  <2> QED
    BY <1>5, <2>3, <2>4, <2>5 DEF ClockInv
<1>8. WorkInv'
  <2>1. callback = Idle \/ RowsInv(callback)
          \/ \E q \in Requests : callback = Waits(q) /\ stage[q] = "waiting"
    BY DEF TimedInv, WorkInv
  <2>2. (callback = Idle \/ RowsInv(callback)
          \/ \E q \in Requests : callback = Waits(q) /\ stage[q] = "waiting")'
    BY <1>3, <2>1
  <2>3. \A q \in Requests : stage'[q] = "waiting" => callback' = Waits(q)
    BY <1>3 DEF TimedInv, WorkInv
  <2>4. Hand' = {r} /\ code'[r] # "none"
    BY <1>2, <1>3, <1>5 DEF Hand, Taken
  <2>5. (worker = Idle \/ worker = [step |-> "evaluate"] \/ RowsInv(worker))'
    BY <1>4
  <2> QED
    BY <2>2, <2>3, <2>4, <2>5 DEF WorkInv
<1> QED
  BY <1>6, <1>7, <1>8 DEF TimedInv

\* A tick: who waits for room has time left, who stands in the deque has min_budget.
LEMMA TickOfGate ==
  ASSUME GateTypeOK, TimedInv, Pass, NEW q \in Requests, stage[q] \in {"waiting", "queued"}
  PROVE  /\ left[q] \in Nat /\ left'[q] = left[q] - 1
         /\ stage[q] = "waiting" \/ MinBudget > 0 => left[q] > 0
<1>1. left[q] \in Nat \cup {-1}
  BY DEF GateTypeOK, Overdue
<1>2. stage[q] = "waiting" => left[q] > 0
  <2> SUFFICES ASSUME stage[q] = "waiting" PROVE left[q] > 0
    OBVIOUS
  <2>1. callback = Waits(q)
    BY DEF TimedInv, WorkInv
  <2>2. callback.step = "waiting" /\ callback.req = q
    BY <2>1, WaitsIs
  <2> QED
    BY <2>2 DEF Pass, Resting
<1>3. stage[q] = "queued" => left[q] >= MinBudget
  BY <1>1, GateAssumption DEF Pass, Resting, Stale, Queued
<1>4. left[q] > -1 /\ (stage[q] = "waiting" \/ MinBudget > 0 => left[q] > 0)
  BY <1>1, <1>2, <1>3, GateAssumption
<1>5. q \in Waiting \cup Queued
  BY DEF Waiting, Queued
<1>6. Tick
  BY <1>4, <1>5 DEF Pass, Overdue
<1>7. left'[q] = left[q] - 1
  BY <1>4, <1>5, <1>6 DEF Tick, Overdue
<1> QED
  BY <1>1, <1>4, <1>7

LEMMA TickOfRest ==
  ASSUME Pass
  PROVE  UNCHANGED <<stage, deadline, behind, inbox, code>>
BY DEF Pass, Tick, gateVars

LEMMA StepBounds ==
  ASSUME NEW clock \in [Requests -> 0..MaxTicks], NEW S
  PROVE  /\ Step(clock, S) \in [Requests -> 0..MaxTicks]
         /\ \A q \in Requests : /\ Step(clock, S)[q] <= clock[q] + 1
                                /\ q \notin S => Step(clock, S)[q] = clock[q]
<1>1. MaxTicks \in Nat
  BY BudgetAssumption
<1>2. ASSUME NEW q \in Requests
      PROVE  /\ Step(clock, S)[q] \in 0..MaxTicks /\ Step(clock, S)[q] <= clock[q] + 1
             /\ q \notin S => Step(clock, S)[q] = clock[q]
  <2>1. clock[q] \in 0..MaxTicks
    OBVIOUS
  <2>2. Step(clock, S)[q] = IF q \in S /\ clock[q] < MaxTicks THEN clock[q] + 1 ELSE clock[q]
    BY DEF Step
  <2> QED
    BY <1>1, <2>1, <2>2
<1>3. Step(clock, S) = [q \in Requests |-> Step(clock, S)[q]]
  BY DEF Step
<1> QED
  BY <1>2, <1>3

LEMMA LaterElse ==
  ASSUME NEW a, a.step \notin {"geo", "keeper"}
  PROVE  Later(a) = a
BY DEF Later

LEMMA PassKeeps ==
  ASSUME GateTypeOK, TimedCallsInv, TimedInv, Pass
  PROVE  TimedInv'
<1>1. UNCHANGED <<stage, deadline, behind, inbox, code>>
  BY TickOfRest
<1>2. BoxInv'
  BY <1>1 DEF TimedInv, BoxInv, InBuffer
<1>3. ClockInv'
  <2>1. inside' = Step(inside, Unanswered) /\ inside \in [Requests -> 0..MaxTicks]
    BY DEF Pass, TimedInv, ClockInv
  <2>2. /\ inside' \in [Requests -> 0..MaxTicks]
        /\ \A q \in Requests : /\ inside'[q] <= inside[q] + 1
                               /\ q \notin Unanswered => inside'[q] = inside[q]
    BY <2>1, StepBounds
  <2>3. \A q \in Requests : stage'[q] = "outside" => inside'[q] = 0
    BY <1>1, <2>2 DEF TimedInv, ClockInv, Unanswered
  <2>4. ASSUME NEW q \in Requests, stage'[q] \in {"waiting", "queued"}
        PROVE  /\ code'[q] = "none"
               /\ inside'[q] + left'[q] <= deadline'[q]
               /\ stage'[q] = "waiting" \/ MinBudget > 0 => left'[q] >= 0
    <3>1. /\ left[q] \in Nat /\ left'[q] = left[q] - 1
          /\ stage[q] = "waiting" \/ MinBudget > 0 => left[q] > 0
      BY <1>1, <2>4, TickOfGate
    <3>2. code[q] = "none" /\ inside[q] + left[q] <= deadline[q]
      BY <1>1, <2>4 DEF TimedInv, ClockInv
    <3>3. deadline[q] \in Nat
      BY BudgetsNatural DEF TimedCallsInv
    <3>4. inside[q] \in Int /\ inside'[q] \in Int /\ inside'[q] <= inside[q] + 1
      BY <2>1, <2>2
    <3>5. inside'[q] + left'[q] <= deadline[q]
      BY <3>1, <3>2, <3>3, <3>4
    <3>6. stage[q] = "waiting" \/ MinBudget > 0 => left'[q] >= 0
      BY <3>1
    <3> QED
      BY <1>1, <3>2, <3>5, <3>6
  <2>5. code' \in [Requests -> Codes]
    BY <1>1 DEF TimedInv, ClockInv
  <2> QED
    BY <2>2, <2>3, <2>4, <2>5 DEF ClockInv
<1>4. WorkInv'
  <2>1. (callback = Idle \/ RowsInv(callback)
          \/ \E r \in Requests : callback = Waits(r) /\ stage[r] = "waiting")'
    <3>1. CASE RowsInv(callback)
      <4>1. RowsInv(callback')
        <5>1. callback.step \in {"geo", "keeper"}
          BY <3>1 DEF RowsInv, RowWork
        <5>2. MayWait(callback) /\ callback' = Later(callback)
          BY <5>1 DEF Pass, Resting
        <5> QED
          BY <3>1, <5>2, LaterWork
      <4> QED
        BY <4>1
    <3>2. CASE callback = Idle \/ \E r \in Requests : callback = Waits(r) /\ stage[r] = "waiting"
      <4>1. callback.step \notin {"geo", "keeper"}
        BY <3>2, WaitsIs DEF Idle
      <4>2. callback' = callback
        BY <4>1, LaterElse DEF Pass
      <4> QED
        BY <1>1, <3>2, <4>2
    <3> QED
      BY <3>1, <3>2 DEF TimedInv, WorkInv
  <2>2. ASSUME NEW q \in Requests, stage'[q] = "waiting" PROVE callback' = Waits(q)
    <3>1. callback = Waits(q)
      BY <1>1, <2>2 DEF TimedInv, WorkInv
    <3>2. callback.step \notin {"geo", "keeper"}
      BY <3>1, WaitsIs
    <3> QED
      BY <3>1, <3>2, LaterElse DEF Pass
  <2>3. (worker = Idle \/ worker = [step |-> "evaluate"] \/ RowsInv(worker))' /\ worker'.step = worker.step
    <3>1. CASE RowsInv(worker)
      <4>1. worker.step \in {"geo", "keeper"}
        BY <3>1 DEF RowsInv, RowWork
      <4>2. MayWait(worker) /\ worker' = Later(worker)
        BY <4>1 DEF Pass, Resting
      <4>3. RowsInv(worker') /\ worker'.step = worker.step
        BY <3>1, <4>2, LaterWork
      <4> QED
        BY <4>3
    <3>2. CASE worker = Idle \/ worker = [step |-> "evaluate"]
      <4>1. worker.step \notin {"geo", "keeper"}
        BY <3>2 DEF Idle
      <4>2. worker' = worker
        BY <4>1, LaterElse DEF Pass
      <4> QED
        BY <3>2, <4>2
    <3> QED
      BY <3>1, <3>2 DEF TimedInv, WorkInv
  <2>4. Hand' = Hand
    BY <1>1 DEF Hand, Taken
  <2>5. /\ \A q, r \in Hand' : q = r
        /\ worker'.step = "keeper" => \A r \in Hand' : code'[r] # "none"
    BY <1>1, <2>3, <2>4 DEF TimedInv, WorkInv
  <2> QED
    BY <2>1, <2>2, <2>3, <2>5 DEF WorkInv
<1> QED
  BY <1>2, <1>3, <1>4 DEF TimedInv

LEMMA TimedNextKeeps ==
  ASSUME GateTypeOK, TimedCallsInv, TimedInv, [Next]_vars
  PROVE  TimedInv'
<1>1. CASE UNCHANGED vars
  <2>1. UNCHANGED <<stage, left, clockVars, inbox, code, callback, worker>>
    BY <1>1 DEF vars, gateVars
  <2>2. WorkInv'
    BY <2>1, WorkKept DEF TimedInv
  <2>3. BoxInv'
    BY <2>1 DEF TimedInv, BoxInv, InBuffer
  <2>4. ClockInv'
    BY <2>1 DEF TimedInv, ClockInv, clockVars
  <2> QED
    BY <2>2, <2>3, <2>4 DEF TimedInv
<1> QED
  BY <1>1, ArriveKeeps, AdmitKeeps, ResumeKeeps, CallbackRowKeeps, WorkerTakeKeeps,
     WorkerRowKeeps, ReplyKeeps, FinishKeeps, EvaluatedKeeps, SweepKeepsTimed, PassKeeps
     DEF Next, CallbackNext, WorkerNext

LEMMA TimedInitially ==
  ASSUME Init
  PROVE  TimedInv
<1>1. stage = [r \in Requests |-> "outside"] /\ code = [r \in Requests |-> "none"]
      /\ inside = [r \in Requests |-> 0] /\ inbox = <<>> /\ callback = Idle /\ worker = Idle
  BY DEF Init, GateInit
<1>2. Hand = {} /\ worker.step # "keeper"
  BY <1>1 DEF Hand, Taken, Idle
<1>3. WorkInv
  BY <1>1, <1>2 DEF WorkInv
<1>4. BoxInv
  <2>1. DOMAIN inbox = {}
    BY <1>1
  <2> QED
    BY <2>1 DEF BoxInv, InBuffer
<1>5. ClockInv
  BY <1>1, BudgetAssumption DEF ClockInv, Codes
<1> QED
  BY <1>3, <1>4, <1>5 DEF TimedInv

\* The clocks add up in every reachable state.
THEOREM TimedInvariant == Spec => [](GateTypeOK /\ TimedCallsInv /\ TimedInv)
<1>1. GateInv => GateTypeOK
  BY DEF GateInv
<1>2. Spec => []GateTypeOK
  BY <1>1, BudgetUsesGate, GateInvariant, PTL
<1>3. Init => TimedCallsInv /\ TimedInv
  <2>1. Init => TimedCallsInv
    BY DEF Init, TimedCallsInv, Idle
  <2> QED
    BY <2>1, TimedInitially
<1>4. GateTypeOK /\ TimedCallsInv /\ TimedInv /\ [Next]_vars => TimedCallsInv' /\ TimedInv'
  BY TimedNextCalls, TimedNextKeeps
<1> QED
  BY <1>2, <1>3, <1>4, PTL DEF Spec

-----------------------------------------------------------------------------
(* The pending queue *)

BufferInv ==
  /\ behind \in [Requests -> Nat]
  /\ buffered \in [Requests -> 0..MaxTicks]
  /\ \A r \in Requests : r \notin InBuffer => buffered[r] = 0

LEMMA PutAwayBuffer ==
  ASSUME BufferInv, PutAway
  PROVE  /\ BufferInv'
         /\ \A r \in InBuffer' : r \in Requests => behind'[r] = behind[r] /\ buffered'[r] = buffered[r]
<1>1. MaxTicks \in Nat
  BY BudgetAssumption
<1>2. /\ behind' = [r \in Requests |-> IF r \in InBuffer' THEN behind[r] ELSE 0]
      /\ buffered' = [r \in Requests |-> IF r \in InBuffer' THEN buffered[r] ELSE 0]
  BY DEF PutAway
<1>3. behind' \in [Requests -> Nat]
  BY <1>2 DEF BufferInv
<1>4. buffered' \in [Requests -> 0..MaxTicks]
  BY <1>1, <1>2 DEF BufferInv
<1> QED
  BY <1>2, <1>3, <1>4 DEF BufferInv

LEMMA ArriveBox ==
  ASSUME TimedCallsInv, NEW r \in Requests, Arrive(r)
  PROVE  \/ /\ inbox' = Append(inbox, r) /\ DOMAIN inbox = 1..Len(inbox) /\ Len(inbox) \in Nat
            /\ DOMAIN inbox' = 1..(Len(inbox) + 1)
            /\ \A i \in DOMAIN inbox : inbox'[i] = inbox[i] /\ inbox[i] # r
            /\ inbox'[Len(inbox) + 1] = r
            /\ behind' = [behind EXCEPT ![r] = Len(inbox) + IF callback = Idle THEN 0 ELSE 1]
         \/ UNCHANGED <<inbox, deadline, behind>>
<1>1. CASE inbox' = Append(inbox, r)
  <2>1. /\ DOMAIN inbox = 1..Len(inbox) /\ Len(inbox) \in Nat
        /\ DOMAIN inbox' = 1..(Len(inbox) + 1)
        /\ \A i \in DOMAIN inbox : inbox'[i] = inbox[i]
        /\ inbox'[Len(inbox) + 1] = r
    BY <1>1, AppendProperties, LenProperties DEF TimedCallsInv
  <2>2. \A i \in DOMAIN inbox : inbox[i] # r
    BY DEF Arrive, Delivered, InBuffer
  <2>3. inbox' # inbox
    BY <2>1
  <2>4. behind' = [behind EXCEPT ![r] = Len(inbox) + IF callback = Idle THEN 0 ELSE 1]
    BY <2>3 DEF Arrive
  <2> QED
    BY <1>1, <2>1, <2>2, <2>4
<1>2. CASE UNCHANGED <<inbox, deadline, behind>>
  BY <1>2
<1> QED
  BY <1>1, <1>2 DEF Arrive

LEMMA BufferKeeps ==
  ASSUME TimedCallsInv, BufferInv, [Next]_vars
  PROVE  BufferInv'
<1>1. ASSUME PutAway PROVE BufferInv'
  BY <1>1, PutAwayBuffer
<1>2. ASSUME UNCHANGED <<behind, buffered, inbox>> PROVE BufferInv'
  BY <1>2 DEF BufferInv, InBuffer
<1>3. ASSUME NEW r \in Requests, Arrive(r)
      PROVE  BufferInv'
  <2>1. buffered' = buffered
    BY <1>3 DEF Arrive
  <2>2. CASE UNCHANGED <<inbox, deadline, behind>>
    BY <1>2, <2>1, <2>2
  <2>3. CASE /\ inbox' = Append(inbox, r) /\ DOMAIN inbox = 1..Len(inbox) /\ Len(inbox) \in Nat
             /\ DOMAIN inbox' = 1..(Len(inbox) + 1)
             /\ \A i \in DOMAIN inbox : inbox'[i] = inbox[i] /\ inbox[i] # r
             /\ inbox'[Len(inbox) + 1] = r
             /\ behind' = [behind EXCEPT ![r] = Len(inbox) + IF callback = Idle THEN 0 ELSE 1]
    <3>1. InBuffer \subseteq InBuffer'
      BY <2>3 DEF InBuffer
    <3>2. \A q \in Requests : behind'[q] \in Nat
      BY <2>3 DEF BufferInv
    <3>3. behind' \in [Requests -> Nat]
      BY <2>3, <3>2 DEF BufferInv
    <3> QED
      BY <2>1, <3>1, <3>3 DEF BufferInv
  <2> QED
    BY <1>3, <2>2, <2>3, ArriveBox
<1>4. CASE Pass
  <2>1. buffered' = Step(buffered, InBuffer) /\ InBuffer' = InBuffer /\ behind' = behind
    BY <1>4 DEF Pass, InBuffer
  <2>2. /\ buffered' \in [Requests -> 0..MaxTicks]
        /\ \A q \in Requests : q \notin InBuffer => buffered'[q] = buffered[q]
    BY <2>1, StepBounds DEF BufferInv
  <2> QED
    BY <2>1, <2>2 DEF BufferInv
<1> QED
  BY <1>1, <1>2, <1>3, <1>4
     DEF Next, CallbackNext, WorkerNext, Admit, AdmitResume, CallbackRow, WorkerTake, Evaluated,
         WorkerRow, Reply, Finish, SweeperSweep, clockVars, vars

\* The time the callback in front has taken so far.
Elapsed ==
  IF callback.step = "waiting" THEN deadline[callback.req] - left[callback.req] ELSE callback.since

\* The message in place i stands behind k callbacks still to end, and so far for no
\* longer than the others may have taken, and the one that runs has.
StandsBehind(i, k, taken) ==
  LET r == inbox[i] IN k <= behind[r] /\ buffered[r] <= (behind[r] - k) * Longest + taken

HeadInv ==
  \A i \in DOMAIN inbox :
    IF callback = Idle THEN StandsBehind(i, i - 1, 0) ELSE StandsBehind(i, i, Elapsed)

\* The longest a callback may take exists: some deadline, or the rows of a message
\* dropped for the limit.
BudgetsBounded == \E b \in Nat : \A d \in Budgets : d <= b

LEMMA LargestOf ==
  ASSUME NEW S, S \subseteq Nat, S # {}, NEW b \in Nat, \A d \in S : d <= b
  PROVE  Max(S) \in S /\ \A d \in S : d <= Max(S)
<1> DEFINE T == {n \in Nat : \A d \in S : d <= n}
<1>1. PICK m \in T : \A n \in T : ~(<<n, m>> \in OpToRel(<, Nat))
  <2>1. T \subseteq Nat /\ T # {}
    OBVIOUS
  <2> HIDE DEF T
  <2> QED
    BY <2>1, NatLessThanWellFounded, WFMin
<1>2. m \in Nat /\ (\A d \in S : d <= m)
  OBVIOUS
<1>3. \A n \in T : m <= n
  <2>1. OpToRel(<, Nat) = {ss \in Nat \X Nat : ss[1] < ss[2]}
    BY DEF OpToRel
  <2>2. \A n \in T : ~(n < m)
    BY <1>1, <2>1
  <2> QED
    BY <1>2, <2>2
<1>4. m \in S
  <2> SUFFICES ASSUME m \notin S PROVE FALSE
    OBVIOUS
  <2>1. ASSUME NEW d \in S PROVE d <= m - 1 /\ m - 1 \in Nat
    <3>1. d \in Nat /\ d <= m /\ d # m
      BY <1>2
    <3> QED
      BY <1>2, <3>1
  <2>2. m - 1 \in T
    BY <2>1
  <2>3. m <= m - 1
    BY <1>3, <2>2
  <2> QED
    BY <1>2, <2>3
<1>5. \E x \in S : \A y \in S : x >= y
  <2>1. \A y \in S : m >= y
    BY <1>2
  <2> QED
    BY <1>4, <2>1
<1> QED
  BY <1>5 DEF Max

LEMMA LongestIs ==
  ASSUME BudgetsBounded
  PROVE  /\ Longest \in Nat
         /\ \A d \in Budgets \cup {0} : d <= Longest
         /\ MaxRows * (GeoTimeout + KeeperTimeout) <= Longest
<1> DEFINE rows == MaxRows * (GeoTimeout + KeeperTimeout)
           S == Budgets \cup {rows}
<1>1. rows \in Nat
  <2>1. MaxRows \in Nat /\ GeoTimeout + KeeperTimeout \in Nat
    BY BudgetAssumption
  <2> HIDE DEF rows
  <2> QED
    BY <2>1 DEF rows
<1> HIDE DEF rows
<1>2. PICK b \in Nat : \A d \in Budgets : d <= b
  BY DEF BudgetsBounded
<1>3. S \subseteq Nat /\ S # {}
  BY <1>1, GateAssumption
<1>4. PICK c \in Nat : \A d \in S : d <= c
  <2>1. b + rows \in Nat /\ \A d \in S : d <= b + rows
    BY <1>1, <1>2, <1>3
  <2> QED
    BY <2>1
<1> HIDE DEF S
<1>5. Max(S) \in S /\ \A d \in S : d <= Max(S)
  BY <1>3, <1>4, LargestOf
<1>6. Longest = Max(S)
  BY DEF Longest, S, rows
<1>7. Longest \in Nat /\ \A d \in S : d <= Longest
  BY <1>3, <1>5, <1>6
<1>8. \A d \in Budgets \cup {0} : d <= Longest
  BY <1>7 DEF S
<1>9. rows <= Longest
  BY <1>7 DEF S
<1> QED
  BY <1>7, <1>8, <1>9 DEF rows

\* The callback ends within the longest.
LEMMA ElapsedBounds ==
  ASSUME BudgetsBounded, GateTypeOK, TimedCallsInv, TimedInv, callback # Idle
  PROVE  Elapsed \in Nat /\ Elapsed <= Longest
<1>1. CASE callback.step = "waiting"
  <2> DEFINE r == callback.req
  <2>1. r \in Requests /\ stage[r] = "waiting"
    BY <1>1, CallbackIs DEF TimedInv
  <2>2. deadline[r] \in Budgets \cup {0}
    BY <2>1 DEF TimedCallsInv
  <2>3. deadline[r] \in Nat /\ deadline[r] <= Longest
    BY <2>2, BudgetsNatural, LongestIs
  <2>4. inside[r] + left[r] <= deadline[r] /\ left[r] >= 0
    BY <2>1 DEF TimedInv, ClockInv
  <2>5. inside[r] \in 0..MaxTicks
    BY <2>1 DEF TimedInv, ClockInv
  <2>6. left[r] \in Nat \cup {-1}
    BY <2>1 DEF GateTypeOK, Overdue
  <2>7. Elapsed = deadline[r] - left[r]
    BY <1>1 DEF Elapsed
  <2>8. MaxTicks \in Nat
    BY BudgetAssumption
  <2> HIDE DEF r
  <2> QED
    BY <2>3, <2>4, <2>5, <2>6, <2>7, <2>8, LongestIs
<1>2. CASE callback.step # "waiting"
  <2>1. RowsInv(callback)
    BY <1>2, CallbackIs DEF TimedInv
  <2>2. callback.since \in Nat /\ callback.since <= MaxRows * (GeoTimeout + KeeperTimeout)
    BY <2>1, SinceBounds
  <2>3. Elapsed = callback.since
    BY <1>2 DEF Elapsed
  <2>4. MaxRows * (GeoTimeout + KeeperTimeout) <= Longest /\ Longest \in Nat
    BY LongestIs
  <2>5. MaxRows * (GeoTimeout + KeeperTimeout) \in Nat
    <3>1. MaxRows \in Nat /\ GeoTimeout + KeeperTimeout \in Nat
      BY BudgetAssumption
    <3> QED
      BY <3>1
  <2> QED
    BY <2>2, <2>3, <2>4, <2>5
<1> QED
  BY <1>1, <1>2

\* One callback less in front is one more that has had its longest.
LEMMA OneCallbackLess ==
  ASSUME NEW b \in Nat, NEW k \in Int, NEW n \in Nat, NEW t \in Nat, NEW l \in Nat,
         k <= b, k >= 0, n <= (b - k) * l + t, t <= l
  PROVE  k - 1 <= b /\ n <= (b - (k - 1)) * l
<1>1. PICK d \in Nat : d = b - k
  OBVIOUS
<1>2. b - (k - 1) = d + 1 /\ (d + 1) * l = d * l + l /\ d * l \in Nat
  BY <1>1
<1>3. n <= d * l + t
  BY <1>1
<1>4. n <= (d + 1) * l
  BY <1>2, <1>3
<1> QED
  BY <1>2, <1>4

LEMMA BehindBounds ==
  ASSUME NEW b \in Nat, NEW i \in Nat, i >= 1, NEW n \in Nat, NEW l \in Nat,
         i - 1 <= b, n <= (b - (i - 1)) * l + 0
  PROVE  n <= b * l
<1>1. PICK d \in Nat : d = b - (i - 1)
  OBVIOUS
<1>2. PICK e \in Nat : b = d + e
  BY <1>1
<1>3. (d + e) * l = d * l + e * l /\ d * l \in Nat /\ e * l \in Nat
  OBVIOUS
<1> QED
  BY <1>1, <1>2, <1>3

LEMMA BoxTyped ==
  ASSUME TimedCallsInv, BufferInv, NEW i \in DOMAIN inbox
  PROVE  /\ i \in Nat /\ i >= 1 /\ inbox[i] \in Requests /\ inbox[i] \in InBuffer
         /\ behind[inbox[i]] \in Nat /\ buffered[inbox[i]] \in Nat
<1>1. inbox \in Seq(Requests) /\ DOMAIN inbox = 1..Len(inbox) /\ Len(inbox) \in Nat
  BY LenProperties DEF TimedCallsInv
<1>2. i \in Nat /\ i >= 1 /\ inbox[i] \in Requests /\ inbox[i] \in InBuffer
  BY <1>1, ElementOfSeq DEF InBuffer
<1>3. MaxTicks \in Nat
  BY BudgetAssumption
<1>4. behind[inbox[i]] \in Nat /\ buffered[inbox[i]] \in 0..MaxTicks
  BY <1>2 DEF BufferInv
<1> QED
  BY <1>2, <1>3, <1>4

\* A step that neither begins nor ends a callback, and takes no time.
LEMMA HeadKept ==
  ASSUME TimedCallsInv, BufferInv, HeadInv, inbox' = inbox, callback = Idle <=> callback' = Idle,
         callback # Idle => Elapsed' = Elapsed,
         \A r \in InBuffer : r \in Requests => behind'[r] = behind[r] /\ buffered'[r] = buffered[r]
  PROVE  HeadInv'
<1> SUFFICES ASSUME NEW i \in DOMAIN inbox
             PROVE  IF callback' = Idle THEN StandsBehind(i, i - 1, 0)'
                                        ELSE /\ i <= behind'[inbox'[i]]
                                             /\ buffered'[inbox'[i]]
                                                  <= (behind'[inbox'[i]] - i) * Longest + Elapsed'
  BY DEF HeadInv, StandsBehind
<1> DEFINE r == inbox[i]
<1>1. /\ inbox'[i] = r /\ behind'[r] = behind[r] /\ buffered'[r] = buffered[r]
  BY BoxTyped
<1>2. IF callback = Idle THEN i - 1 <= behind[r] /\ buffered[r] <= (behind[r] - (i - 1)) * Longest + 0
      ELSE i <= behind[r] /\ buffered[r] <= (behind[r] - i) * Longest + Elapsed
  BY DEF HeadInv, StandsBehind
<1> HIDE DEF r
<1>3. CASE callback' = Idle
  BY <1>1, <1>2, <1>3 DEF StandsBehind
<1>4. CASE callback' # Idle
  BY <1>1, <1>2, <1>4
<1> QED
  BY <1>3, <1>4

\* The callback ends.
LEMMA HeadEnds ==
  ASSUME BudgetsBounded, GateTypeOK, TimedCallsInv, TimedInv, BufferInv, HeadInv,
         inbox' = inbox, callback # Idle, callback' = Idle,
         \A r \in InBuffer : r \in Requests => behind'[r] = behind[r] /\ buffered'[r] = buffered[r]
  PROVE  HeadInv'
<1> SUFFICES ASSUME NEW i \in DOMAIN inbox
             PROVE  /\ i - 1 <= behind'[inbox'[i]]
                    /\ buffered'[inbox'[i]] <= (behind'[inbox'[i]] - (i - 1)) * Longest + 0
  BY DEF HeadInv, StandsBehind
<1> DEFINE r == inbox[i]
<1>1. inbox'[i] = r /\ behind'[r] = behind[r] /\ buffered'[r] = buffered[r]
  BY BoxTyped
<1>2. i <= behind[r] /\ buffered[r] <= (behind[r] - i) * Longest + Elapsed
  BY DEF HeadInv, StandsBehind
<1>3. i \in Nat /\ behind[r] \in Nat /\ buffered[r] \in Nat
  BY BoxTyped
<1>4. Elapsed \in Nat /\ Elapsed <= Longest /\ Longest \in Nat
  BY ElapsedBounds, LongestIs
<1> HIDE DEF r
<1>5. i - 1 <= behind[r] /\ buffered[r] <= (behind[r] - (i - 1)) * Longest
  BY <1>2, <1>3, <1>4, OneCallbackLess
<1>6. (behind[r] - (i - 1)) * Longest \in Int
  BY <1>3, <1>4
<1>7. (behind[r] - (i - 1)) * Longest + 0 = (behind[r] - (i - 1)) * Longest
  BY <1>6
<1> QED
  BY <1>1, <1>5, <1>7

\* A wait for room keeps its deadline.
LEMMA WaitingStays ==
  ASSUME TimedInv', NEW r \in Requests, callback' = Waits(r), PutAway
  PROVE  stage'[r] = "waiting" /\ code'[r] = "none" /\ deadline'[r] = deadline[r]
<1>1. callback' # Idle /\ ~RowsInv(callback') /\ callback'.req = r
  BY WaitsIs
<1>2. PICK q \in Requests : callback' = Waits(q) /\ stage'[q] = "waiting"
  BY <1>1 DEF TimedInv, WorkInv
<1>3. q = r
  BY <1>1, <1>2, WaitsIs
<1>4. code'[r] = "none"
  BY <1>2, <1>3 DEF TimedInv, ClockInv
<1> QED
  BY <1>2, <1>3, <1>4 DEF PutAway

\* The evictions and the answer of the worker, and the sweeper.
LEMMA OthersKeepHead ==
  ASSUME TimedCallsInv, TimedInv, TimedInv', BufferInv, HeadInv, PutAway,
         UNCHANGED <<left, inbox, callback>>
  PROVE  HeadInv'
<1>1. callback.step = "waiting" =>
        /\ callback.req \in Requests /\ deadline'[callback.req] = deadline[callback.req]
  <2> SUFFICES ASSUME callback.step = "waiting"
               PROVE  callback.req \in Requests /\ deadline'[callback.req] = deadline[callback.req]
    OBVIOUS
  <2>1. callback.req \in Requests /\ callback = Waits(callback.req)
    BY CallbackIs DEF TimedInv
  <2>2. callback' = Waits(callback.req)
    BY <2>1
  <2> QED
    BY <2>1, <2>2, WaitingStays
<1>2. Elapsed' = Elapsed
  BY <1>1 DEF Elapsed
<1>3. InBuffer' = InBuffer
  BY DEF InBuffer
<1> QED
  BY <1>2, <1>3, PutAwayBuffer, HeadKept

LEMMA ResumeKeepsHead ==
  ASSUME BudgetsBounded, GateTypeOK, TimedCallsInv, TimedInv, TimedInv', BufferInv, HeadInv, AdmitResume
  PROVE  HeadInv'
<1> DEFINE r == callback.req
<1>1. r \in Requests /\ stage[r] = "waiting" /\ callback = Waits(r) /\ PutAway
  BY CallbackIs DEF TimedInv, AdmitResume
<1>2. stage'[r] \in {"waiting", "queued", "deadline"}
  BY <1>1, StageTyped, ResumeStage DEF AdmitResume
<1>3. left' = left /\ inbox' = inbox
  BY DEF AdmitResume, Wake, Timeout
<1>4. \A q \in InBuffer : q \in Requests => behind'[q] = behind[q] /\ buffered'[q] = buffered[q]
  <2>1. InBuffer' = InBuffer
    BY <1>3 DEF InBuffer
  <2> QED
    BY <1>1, <2>1, PutAwayBuffer
<1>5. callback # Idle
  BY <1>1, WaitsIs
<1>6. callback' = IF stage'[r] = "waiting" THEN Waits(r) ELSE Idle
  <2>1. Submitted(r)
    BY DEF AdmitResume
  <2>2. CASE stage'[r] = "waiting"
    BY <2>1, <2>2 DEF Submitted, Waits
  <2>3. CASE stage'[r] \in {"queued", "deadline"}
    BY <2>1, <2>3 DEF Submitted
  <2> QED
    BY <1>2, <2>2, <2>3
<1>7. CASE callback' = Waits(r)
  <2>1. deadline'[r] = deadline[r]
    BY <1>1, <1>7, WaitingStays
  <2>2. callback' = callback
    BY <1>1, <1>7
  <2>3. Elapsed' = Elapsed
    BY <1>3, <2>1, <2>2 DEF Elapsed
  <2>4. callback = Idle <=> callback' = Idle
    BY <2>2
  <2> HIDE DEF r
  <2> QED
    BY <1>3, <1>4, <2>3, <2>4, HeadKept
<1>8. CASE callback' = Idle
  BY <1>3, <1>4, <1>5, <1>8, HeadEnds
<1> QED
  BY <1>6, <1>7, <1>8

LEMMA RowKeepsHead ==
  ASSUME BudgetsBounded, GateTypeOK, TimedCallsInv, TimedInv, BufferInv, HeadInv, CallbackRow
  PROVE  HeadInv'
<1>1. RowsInv(callback) /\ callback # Idle /\ callback.step # "waiting"
  BY CallbackIs DEF TimedInv, CallbackRow, Idle
<1>2. UNCHANGED <<inbox, behind, buffered>>
  BY DEF CallbackRow, clockVars
<1>3. ASSUME RowsInv(callback'), callback'.since = callback.since
      PROVE  HeadInv'
  <2>1. callback' # Idle /\ callback'.step # "waiting"
    BY <1>3 DEF RowsInv, RowWork, Idle
  <2>2. Elapsed' = Elapsed
    BY <1>1, <1>3, <2>1 DEF Elapsed
  <2> QED
    BY <1>1, <1>2, <2>1, <2>2, HeadKept
<1>4. CASE callback' = Idle
  BY <1>1, <1>2, <1>4, HeadEnds
<1>5. ASSUME NEW got \in 0..1, callback.step = "geo", callback.rows > 0,
             callback' = AfterRow(callback, got)
      PROVE  RowsInv(callback') /\ callback'.since = callback.since
  BY <1>1, <1>5, AfterRowWork
<1>6. CASE callback.step = "geo" /\ callback.rows = 0 /\ callback' = Writing(callback)
  BY <1>1, <1>3, <1>6, WritingWork
<1>7. CASE callback.step = "keeper" /\ callback.rows > 0 /\ callback' = AfterRow(callback, 0)
  BY <1>1, <1>3, <1>7, AfterRowWork
<1> QED
  BY <1>3, <1>4, <1>5, <1>6, <1>7 DEF CallbackRow

LEMMA ArriveKeepsHead ==
  ASSUME BudgetsBounded, GateTypeOK, TimedCallsInv, TimedInv, BufferInv, HeadInv,
         NEW r \in Requests, Arrive(r)
  PROVE  HeadInv'
<1>1. UNCHANGED <<left, buffered, callback>> /\ r \notin InBuffer /\ stage[r] = "outside"
  BY DEF Arrive, gateVars, Delivered
<1>2. Elapsed' = Elapsed
  <2>1. callback.step = "waiting" => callback.req # r /\ callback.req \in Requests
    BY <1>1, CallbackIs DEF TimedInv
  <2>2. callback.step = "waiting" => deadline'[callback.req] = deadline[callback.req]
    BY <2>1 DEF Arrive, TimedCallsInv
  <2> QED
    BY <1>1, <2>2 DEF Elapsed
<1>3. CASE UNCHANGED <<inbox, deadline, behind>>
  BY <1>1, <1>2, <1>3, HeadKept
<1>4. CASE /\ inbox' = Append(inbox, r) /\ DOMAIN inbox = 1..Len(inbox) /\ Len(inbox) \in Nat
           /\ DOMAIN inbox' = 1..(Len(inbox) + 1)
           /\ \A i \in DOMAIN inbox : inbox'[i] = inbox[i] /\ inbox[i] # r
           /\ inbox'[Len(inbox) + 1] = r
           /\ behind' = [behind EXCEPT ![r] = Len(inbox) + IF callback = Idle THEN 0 ELSE 1]
  <2>1. ASSUME NEW i \in DOMAIN inbox
        PROVE  (IF callback = Idle THEN StandsBehind(i, i - 1, 0) ELSE StandsBehind(i, i, Elapsed))'
    <3> DEFINE q == inbox[i]
    <3>1. inbox'[i] = q /\ q # r /\ q \in Requests
      BY <1>4, BoxTyped
    <3>2. behind'[q] = behind[q] /\ buffered'[q] = buffered[q]
      BY <1>1, <1>4, <3>1 DEF BufferInv
    <3>3. IF callback = Idle THEN i - 1 <= behind[q] /\ buffered[q] <= (behind[q] - (i - 1)) * Longest + 0
          ELSE i <= behind[q] /\ buffered[q] <= (behind[q] - i) * Longest + Elapsed
      BY DEF HeadInv, StandsBehind
    <3> HIDE DEF q
    <3> QED
      BY <1>1, <1>2, <3>1, <3>2, <3>3 DEF StandsBehind
  <2>2. ASSUME NEW i, i = Len(inbox) + 1
        PROVE  (IF callback = Idle THEN StandsBehind(i, i - 1, 0) ELSE StandsBehind(i, i, Elapsed))'
    <3> DEFINE b == behind'[r]  l == Longest  n == buffered'[r]
    <3>1. inbox'[i] = r /\ n = 0 /\ l \in Nat
      BY <1>1, <1>4, <2>2, LongestIs DEF BufferInv
    <3>2. i \in Nat /\ b = IF callback = Idle THEN i - 1 ELSE i
      BY <1>4, <2>2 DEF BufferInv
    <3> HIDE DEF b, l, n
    <3>3. CASE callback = Idle
      <4>1. b - (i - 1) = 0
        BY <3>2, <3>3
      <4>2. i - 1 <= b /\ n <= (b - (i - 1)) * l + 0
        BY <3>1, <3>2, <3>3, <4>1
      <4> QED
        BY <1>1, <3>1, <3>3, <4>2 DEF StandsBehind, b, l, n
    <3>4. CASE callback # Idle
      <4>1. Elapsed \in Nat
        BY <3>4, ElapsedBounds
      <4>2. b - i = 0
        BY <3>2, <3>4
      <4>3. i <= b /\ n <= (b - i) * l + Elapsed
        BY <3>1, <3>2, <3>4, <4>1, <4>2
      <4> QED
        BY <1>1, <1>2, <3>1, <3>4, <4>3 DEF StandsBehind, b, l, n
    <3> QED
      BY <3>3, <3>4
  <2>3. \A i \in DOMAIN inbox' : i \in DOMAIN inbox \/ i = Len(inbox) + 1
    BY <1>4
  <2> QED
    BY <2>1, <2>2, <2>3 DEF HeadInv
<1> QED
  BY <1>3, <1>4, ArriveBox

\* A callback begins, the others move up behind it.
LEMMA AdmitKeepsHead ==
  ASSUME BudgetsBounded, GateTypeOK, TimedCallsInv, TimedInv, TimedInv', BufferInv, HeadInv, Admit
  PROVE  HeadInv'
<1> DEFINE r == Head(inbox)
<1>1. /\ r \in Requests /\ callback = Idle /\ inbox # <<>> /\ inbox' = Tail(inbox) /\ PutAway
      /\ Submitted(r)
  BY HeadTailProperties DEF TimedCallsInv, Admit
<1>2. PICK full \in {"wait", "shed"} : Submit(r, deadline[r], full)
  BY DEF Admit
<1>3. stage'[r] \in {"waiting", "queued", "limit", "deadline"}
  BY <1>1, <1>2, StageTyped, SubmitStage
<1>4. left'[r] = deadline[r] /\ deadline[r] \in Nat
  BY <1>1, <1>2, BudgetsNatural DEF Submit, GateTypeOK, TimedCallsInv
<1>5. /\ DOMAIN inbox = 1..Len(inbox) /\ Len(inbox) \in Nat
      /\ DOMAIN inbox' = 1..(Len(inbox) - 1)
      /\ \A i \in DOMAIN inbox' : inbox'[i] = inbox[i + 1]
  BY <1>1, TailElements, LenProperties DEF TimedCallsInv
<1>6. callback' # Idle => Elapsed' = 0
  <2> SUFFICES ASSUME callback' # Idle PROVE Elapsed' = 0
    OBVIOUS
  <2>1. \/ RowsInv(callback') /\ callback'.since = 0
        \/ callback' = Waits(r) /\ stage'[r] = "waiting"
    BY <1>1, <1>3, SubmittedWork DEF Stages
  <2>2. CASE RowsInv(callback') /\ callback'.since = 0
    <3>1. callback'.step # "waiting"
      BY <2>2 DEF RowsInv, RowWork
    <3> QED
      BY <2>2, <3>1 DEF Elapsed
  <2>3. CASE callback' = Waits(r)
    <3>1. deadline'[r] = deadline[r]
      BY <1>1, <2>3, WaitingStays
    <3>2. callback'.step = "waiting" /\ callback'.req = r
      BY <2>3, WaitsIs
    <3>3. Elapsed' = deadline'[r] - left'[r]
      BY <3>2 DEF Elapsed
    <3> QED
      BY <1>4, <3>1, <3>3
  <2> QED
    BY <2>1, <2>2, <2>3
<1> SUFFICES ASSUME NEW i \in DOMAIN inbox'
             PROVE  IF callback' = Idle THEN StandsBehind(i, i - 1, 0)'
                                        ELSE /\ i <= behind'[inbox'[i]]
                                             /\ buffered'[inbox'[i]]
                                                  <= (behind'[inbox'[i]] - i) * Longest + Elapsed'
  BY DEF HeadInv, StandsBehind
<1> DEFINE q == inbox[i + 1]
<1>7. i \in Nat /\ i >= 1 /\ i + 1 \in DOMAIN inbox /\ inbox'[i] = q
  BY <1>5
<1>8. q \in Requests /\ behind[q] \in Nat /\ buffered[q] \in Nat
  BY <1>7, BoxTyped
<1>9. behind'[q] = behind[q] /\ buffered'[q] = buffered[q]
  <2>1. q \in InBuffer'
    BY <1>7 DEF InBuffer
  <2> QED
    BY <1>1, <1>8, <2>1, PutAwayBuffer
<1>10. (i + 1) - 1 <= behind[q] /\ buffered[q] <= (behind[q] - ((i + 1) - 1)) * Longest + 0
  BY <1>1, <1>7 DEF HeadInv, StandsBehind
<1>11. Longest \in Nat
  BY LongestIs
<1> HIDE DEF q, r
<1>12. (i + 1) - 1 = i
  BY <1>7
<1>13. i <= behind[q] /\ buffered[q] <= (behind[q] - i) * Longest + 0
  BY <1>10, <1>12
<1>14. i - 1 <= behind[q] /\ buffered[q] <= (behind[q] - (i - 1)) * Longest
  BY <1>7, <1>8, <1>11, <1>13, OneCallbackLess
<1>15. (behind[q] - (i - 1)) * Longest + 0 = (behind[q] - (i - 1)) * Longest
  <2>1. (behind[q] - (i - 1)) * Longest \in Int
    BY <1>7, <1>8, <1>11
  <2> QED
    BY <2>1
<1>16. CASE callback' = Idle
  BY <1>7, <1>9, <1>14, <1>15, <1>16 DEF StandsBehind
<1>17. CASE callback' # Idle
  BY <1>6, <1>7, <1>9, <1>13, <1>17
<1> QED
  BY <1>16, <1>17

\* A tick for who stands in the queue is one for the callback in front.
LEMMA PassKeepsHead ==
  ASSUME BudgetsBounded, GateTypeOK, TimedCallsInv, TimedInv, BufferInv, HeadInv, Pass
  PROVE  HeadInv'
<1>1. UNCHANGED <<stage, deadline, behind, inbox, code>>
  BY TickOfRest
<1> SUFFICES ASSUME NEW i \in DOMAIN inbox
             PROVE  /\ callback' # Idle
                    /\ i <= behind'[inbox'[i]]
                    /\ buffered'[inbox'[i]] <= (behind'[inbox'[i]] - i) * Longest + Elapsed'
  BY <1>1 DEF HeadInv, StandsBehind
<1> DEFINE q == inbox[i]
<1>2. callback # Idle
  <2>1. inbox # <<>>
    OBVIOUS
  <2> QED
    BY <2>1 DEF Pass, Resting
<1>3. callback' # Idle /\ Elapsed' = Elapsed + 1
  <2>1. CASE callback.step = "waiting"
    <3> DEFINE r == callback.req
    <3>1. r \in Requests /\ stage[r] = "waiting"
      BY <2>1, CallbackIs DEF TimedInv
    <3>2. left[r] \in Nat /\ left'[r] = left[r] - 1
      BY <3>1, TickOfGate
    <3>3. deadline'[r] = deadline[r] /\ deadline[r] \in Nat
      BY <1>1, <3>1, BudgetsNatural DEF TimedCallsInv
    <3>4. callback' = callback
      BY <2>1, LaterElse DEF Pass
    <3>5. Elapsed = deadline[r] - left[r]
      BY <2>1 DEF Elapsed
    <3>6. Elapsed' = deadline'[r] - left'[r]
      BY <2>1, <3>4 DEF Elapsed
    <3> HIDE DEF r
    <3>7. Elapsed' = Elapsed + 1
      BY <3>2, <3>3, <3>5, <3>6
    <3> QED
      BY <1>2, <3>4, <3>7
  <2>2. CASE callback.step # "waiting"
    <3>1. RowsInv(callback) /\ callback.step \in {"geo", "keeper"}
      BY <1>2, <2>2, CallbackIs DEF TimedInv, RowsInv, RowWork
    <3>2. MayWait(callback) /\ callback' = Later(callback)
      BY <3>1 DEF Pass, Resting
    <3>3. callback'.since = callback.since + 1 /\ callback'.step \in {"geo", "keeper"}
      BY <3>1, <3>2, LaterWork
    <3> QED
      BY <2>2, <3>3 DEF Elapsed, Idle
  <2> QED
    BY <2>1, <2>2
<1>4. i <= behind[q] /\ buffered[q] <= (behind[q] - i) * Longest + Elapsed
  BY <1>2 DEF HeadInv, StandsBehind
<1>5. i \in Nat /\ q \in Requests /\ behind[q] \in Nat /\ buffered[q] \in Nat
  BY BoxTyped
<1>6. buffered'[q] \in Int /\ buffered'[q] <= buffered[q] + 1
  <2>1. buffered' = Step(buffered, InBuffer) /\ buffered \in [Requests -> 0..MaxTicks]
    BY DEF Pass, BufferInv
  <2>2. buffered' \in [Requests -> 0..MaxTicks] /\ buffered'[q] <= buffered[q] + 1
    BY <1>5, <2>1, StepBounds
  <2> QED
    BY <1>5, <2>2
<1>7. Elapsed \in Nat /\ Longest \in Nat
  BY <1>2, ElapsedBounds, LongestIs
<1>8. inbox'[i] = q /\ behind'[q] = behind[q]
  BY <1>1
<1> HIDE DEF q
<1>9. (behind[q] - i) * Longest \in Int
  BY <1>5, <1>7
<1>10. buffered'[q] <= (behind[q] - i) * Longest + (Elapsed + 1)
  BY <1>4, <1>5, <1>6, <1>7, <1>9
<1> QED
  BY <1>3, <1>4, <1>8, <1>10

LEMMA HeadKeeps ==
  ASSUME BudgetsBounded, GateTypeOK, TimedCallsInv, TimedInv, TimedInv', BufferInv, HeadInv, [Next]_vars
  PROVE  HeadInv'
<1>1. ASSUME PutAway, UNCHANGED <<left, inbox, callback>>
      PROVE  HeadInv'
  BY <1>1, OthersKeepHead
<1>2. ASSUME UNCHANGED <<left, deadline, behind, buffered, inbox, callback>>
      PROVE  HeadInv'
  <2>1. Elapsed' = Elapsed
    BY <1>2 DEF Elapsed
  <2> QED
    BY <1>2, <2>1, HeadKept
<1>3. CASE WorkerTake \/ SweeperSweep \/ Reply
  BY <1>1, <1>3 DEF WorkerTake, Take, SweeperSweep, Sweep, Reply, gateVars
<1>4. CASE WorkerRow \/ Evaluated \/ Finish \/ UNCHANGED vars
  BY <1>2, <1>4 DEF WorkerRow, Evaluated, Finish, Done, gateVars, clockVars, vars
<1> QED
  BY <1>3, <1>4, ArriveKeepsHead, AdmitKeepsHead, ResumeKeepsHead, RowKeepsHead, PassKeepsHead
     DEF Next, CallbackNext, WorkerNext

-----------------------------------------------------------------------------
(* The theorems *)

LEMMA BufferInitially ==
  ASSUME Init
  PROVE  BufferInv /\ HeadInv
<1>1. inbox = <<>> /\ behind = [r \in Requests |-> 0] /\ buffered = [r \in Requests |-> 0]
  BY DEF Init
<1>2. DOMAIN inbox = {}
  BY <1>1
<1> QED
  BY <1>1, <1>2, BudgetAssumption DEF BufferInv, HeadInv

LEMMA BufferAlways == Spec => []BufferInv
<1>1. Init => BufferInv
  BY BufferInitially
<1>2. TimedCallsInv /\ BufferInv /\ [Next]_vars => BufferInv'
  BY BufferKeeps
<1> QED
  BY <1>1, <1>2, TimedInvariant, PTL DEF Spec

\* The variables keep to their values, the clocks to MaxTicks, and a coroutine at its
\* rows has no more of them than the profile.
THEOREM BudgetTypeCorrect == Spec => []BudgetTypeOK
<1>1. ASSUME TimedCallsInv, TimedInv, BufferInv
      PROVE  BudgetTypeOK
  <2>1. InBuffer \subseteq Requests
    BY <1>1, BoxTyped DEF InBuffer
  <2>2. code \in [Requests -> {"none", "lost", "verdict", "VLAI_DEADLINE", "VLAI_QUEUE_LIMIT"}]
    BY <1>1 DEF TimedInv, ClockInv, Codes
  <2>3. inside \in [Requests -> 0..MaxTicks]
    BY <1>1 DEF TimedInv, ClockInv
  <2>4. /\ \/ callback = Idle \/ callback \in RowWork
           \/ callback \in [step : {"waiting"}, req : Requests]
        /\ worker = Idle \/ worker = [step |-> "evaluate"] \/ worker \in RowWork
    BY <1>1 DEF TimedInv, WorkInv, RowsInv, Waits
  <2> QED
    BY <1>1, <2>1, <2>2, <2>3, <2>4 DEF BudgetTypeOK, TimedCallsInv, BufferInv
<1> QED
  BY <1>1, TimedInvariant, BufferAlways, PTL

\* Whatever is taken for evaluation has min_budget left, the wait for room and the
\* time in the deque taken off.
THEOREM BudgetTaken == Spec => TakenWithBudget
<1>1. ASSUME GateTypeOK, TimedCallsInv, TimedInv, [Next]_vars, NEW r \in Requests, r \notin Hand, r \in Hand'
      PROVE  deadline[r] - inside[r] >= MinBudget
  <2>1. WorkerTake
    <3>1. stage'[r] = "taken" /\ stage[r] # "taken"
      BY <1>1 DEF Hand, Taken
    <3>2. stage' # stage
      BY <3>1
    <3>3. ASSUME NEW q \in Requests, NEW b, NEW full, Submit(q, b, full) PROVE stage'[r] # "taken"
      BY <1>1, <3>1, <3>3, StageTyped, SubmitStage DEF EvictsAtMost
    <3>4. ~Admit
      <4> SUFFICES ASSUME Admit PROVE FALSE
        OBVIOUS
      <4>1. Head(inbox) \in Requests
        BY <1>1, HeadTailProperties DEF TimedCallsInv, Admit
      <4> QED
        BY <3>1, <3>3, <4>1 DEF Admit
    <3>5. ~AdmitResume
      <4> SUFFICES ASSUME AdmitResume PROVE FALSE
        OBVIOUS
      <4>1. callback.req \in Requests
        BY <1>1, CallbackIs DEF TimedInv, AdmitResume
      <4> QED
        BY <1>1, <3>1, <4>1, StageTyped, ResumeStage DEF AdmitResume, EvictsAtMost
    <3>6. ~SweeperSweep
      BY <1>1, <3>1, StageTyped, SweepStage DEF SweeperSweep, EvictsAtMost
    <3>7. ~Finish
      <4> SUFFICES ASSUME Finish PROVE FALSE
        OBVIOUS
      <4>1. PICK q \in Requests : Done(q)
        BY DEF Finish, Hand, Taken
      <4> QED
        BY <1>1, <3>1, <4>1, StageTyped, DoneStage
    <3>8. ~Pass
      BY <3>2, TickOfRest
    <3>9. \A q \in Requests : ~Arrive(q)
      BY <3>2 DEF Arrive, gateVars
    <3>10. ~CallbackRow /\ ~WorkerRow /\ ~Reply /\ ~Evaluated /\ vars' # vars
      BY <3>2 DEF CallbackRow, WorkerRow, Reply, Evaluated, vars, gateVars
    <3> QED
      BY <1>1, <3>4, <3>5, <3>6, <3>7, <3>8, <3>9, <3>10 DEF Next, CallbackNext, WorkerNext
  <2>2. stage[r] = "queued" /\ left[r] >= MinBudget
    <3>1. stage'[r] = "taken" /\ stage[r] # "taken"
      BY <1>1 DEF Hand, Taken
    <3>2. stage' # AfterEviction /\ stage' # stage
      BY <3>1 DEF AfterEviction
    <3>3. PICK p \in Kept : stage' = [AfterEviction EXCEPT ![p] = "taken"]
      BY <2>1, <3>2 DEF WorkerTake, Take
    <3>4. p = r
      BY <3>1, <3>3 DEF AfterEviction
    <3>5. left[r] \in Int
      BY <1>1 DEF GateTypeOK, Overdue
    <3> QED
      BY <3>3, <3>4, <3>5, GateAssumption DEF Kept, Stale, Queued
  <2>3. inside[r] + left[r] <= deadline[r]
    BY <1>1, <2>2 DEF TimedInv, ClockInv
  <2>4. deadline[r] \in Nat
    BY <1>1, BudgetsNatural DEF TimedCallsInv
  <2>5. left[r] \in Int
    BY <1>1 DEF GateTypeOK, Overdue
  <2>6. inside[r] \in Int
    BY <1>1 DEF TimedInv, ClockInv
  <2>7. MinBudget \in Nat
    BY GateAssumption
  <2> QED
    BY <2>2, <2>3, <2>4, <2>5, <2>6, <2>7
<1>2. GateTypeOK /\ TimedCallsInv /\ TimedInv /\ [Next]_vars =>
        [\A r \in Requests : r \notin Hand /\ r \in Hand' => deadline[r] - inside[r] >= MinBudget]_vars
  BY <1>1
<1> QED
  BY <1>2, TimedInvariant, PTL DEF Spec, TakenWithBudget

\* What stands in the pending queue waits for the callbacks before it, each no longer
\* than the longest deadline or the rows of one dropped message.
THEOREM BudgetHeadOfLine ==
  ASSUME BudgetsBounded
  PROVE  Spec => []HeadOfLineBounded
<1>1. Init => HeadInv
  BY BufferInitially
<1>2. /\ GateTypeOK /\ TimedCallsInv /\ TimedInv /\ TimedInv' /\ BufferInv /\ HeadInv /\ [Next]_vars
      => HeadInv'
  BY HeadKeeps
<1>3. ASSUME GateTypeOK, TimedCallsInv, TimedInv, BufferInv, HeadInv
      PROVE  HeadOfLineBounded
  <2> SUFFICES ASSUME NEW r \in Requests PROVE buffered[r] <= behind[r] * Longest
    BY DEF HeadOfLineBounded, Longest
  <2>1. behind[r] \in Nat /\ Longest \in Nat
    BY <1>3, LongestIs DEF BufferInv
  <2>2. behind[r] * Longest \in Nat
    BY <2>1
  <2>3. CASE r \notin InBuffer
    BY <1>3, <2>2, <2>3 DEF BufferInv
  <2>4. CASE r \in InBuffer
    <3>1. PICK i \in DOMAIN inbox : inbox[i] = r
      BY <2>4 DEF InBuffer
    <3>2. i \in Nat /\ i >= 1 /\ buffered[r] \in Nat
      BY <1>3, <3>1, BoxTyped
    <3>3. IF callback = Idle THEN i - 1 <= behind[r] /\ buffered[r] <= (behind[r] - (i - 1)) * Longest + 0
          ELSE i <= behind[r] /\ buffered[r] <= (behind[r] - i) * Longest + Elapsed
      BY <1>3, <3>1 DEF HeadInv, StandsBehind
    <3>4. CASE callback = Idle
      BY <2>1, <3>2, <3>3, <3>4, BehindBounds
    <3>5. CASE callback # Idle
      <4>1. Elapsed \in Nat /\ Elapsed <= Longest
        BY <1>3, <3>5, ElapsedBounds
      <4>2. i - 1 <= behind[r] /\ buffered[r] <= (behind[r] - (i - 1)) * Longest
        BY <2>1, <3>2, <3>3, <3>5, <4>1, OneCallbackLess
      <4>3. (behind[r] - (i - 1)) * Longest \in Int
        BY <2>1, <3>2
      <4>4. buffered[r] <= (behind[r] - (i - 1)) * Longest + 0
        BY <4>2, <4>3
      <4> QED
        BY <2>1, <3>2, <4>2, <4>4, BehindBounds
    <3> QED
      BY <3>4, <3>5
  <2> QED
    BY <2>3, <2>4
<1> QED
  BY <1>1, <1>2, <1>3, TimedInvariant, BufferAlways, PTL DEF Spec

LEMMA RefusedFrom ==
  ASSUME GateTypeOK, TimedCallsInv, TimedInv, Next, NEW r \in Requests,
         code[r] = "none", code'[r] \in {"VLAI_DEADLINE", "VLAI_QUEUE_LIMIT"}
  PROVE  stage[r] \in {"outside", "waiting", "queued"}
<1>1. ASSUME Refusals PROVE stage'[r] # stage[r]
  BY <1>1, RefusalCodes DEF TimedInv, ClockInv
<1>2. CASE Admit
  <2>1. Refusals /\ Head(inbox) \in Requests
    BY <1>2, HeadTailProperties DEF Admit, Submitted, TimedCallsInv
  <2>2. PICK full \in {"wait", "shed"} : Submit(Head(inbox), deadline[Head(inbox)], full)
    BY <1>2 DEF Admit
  <2>3. (r = Head(inbox) /\ stage[r] = "outside") \/ EvictsAtMost(r)
    BY <2>1, <2>2, StageTyped, SubmitStage
  <2> QED
    BY <1>1, <2>1, <2>3 DEF EvictsAtMost
<1>3. CASE AdmitResume
  <2>1. Refusals /\ callback.req \in Requests
    BY <1>3, CallbackIs DEF AdmitResume, Submitted, TimedInv
  <2>2. (r = callback.req /\ stage[r] = "waiting") \/ EvictsAtMost(r)
    BY <1>3, <2>1, StageTyped, ResumeStage DEF AdmitResume
  <2> QED
    BY <1>1, <2>1, <2>2 DEF EvictsAtMost
<1>4. CASE WorkerTake
  <2>1. Refusals /\ (EvictsAtMost(r) \/ stage[r] = "queued")
    BY <1>4, StageTyped, TakeStage DEF WorkerTake
  <2> QED
    BY <1>1, <2>1 DEF EvictsAtMost
<1>5. CASE SweeperSweep
  <2>1. Refusals /\ EvictsAtMost(r)
    BY <1>5, StageTyped, SweepStage DEF SweeperSweep
  <2> QED
    BY <1>1, <2>1 DEF EvictsAtMost
<1>6. code'[r] # code[r]
  OBVIOUS
<1>7. ~Reply
  <2> SUFFICES ASSUME Reply PROVE FALSE
    OBVIOUS
  <2>1. PICK q \in Hand : code' = [code EXCEPT ![q] = "verdict"]
    BY DEF Reply
  <2> QED
    BY <2>1 DEF TimedInv, ClockInv
<1>8. \A q \in Requests : ~Arrive(q)
  <2> SUFFICES ASSUME NEW q \in Requests, Arrive(q) PROVE FALSE
    OBVIOUS
  <2>1. code' = code \/ code' = [code EXCEPT ![q] = "lost"]
    BY DEF Arrive
  <2> QED
    BY <2>1 DEF TimedInv, ClockInv
<1>9. ~CallbackRow /\ ~WorkerRow /\ ~Evaluated /\ ~Finish /\ ~Pass
  BY <1>6 DEF CallbackRow, WorkerRow, Evaluated, Finish, Pass
<1> QED
  BY <1>2, <1>3, <1>4, <1>5, <1>7, <1>8, <1>9 DEF Next, CallbackNext, WorkerNext

\* Who is refused is refused within its deadline, whatever directory, keeper and
\* evaluation take: a min_budget of a tick or more leaves the sweeper its round.
THEOREM BudgetRefusesInTime ==
  ASSUME MinBudget > 0
  PROVE  Spec => RefusedByDeadline
<1>1. ASSUME GateTypeOK, TimedCallsInv, TimedInv, Next, NEW r \in Requests,
             code[r] = "none", code'[r] \in {"VLAI_DEADLINE", "VLAI_QUEUE_LIMIT"}
      PROVE  inside[r] <= deadline[r]
  <2>1. deadline[r] \in Nat
    BY <1>1, BudgetsNatural DEF TimedCallsInv
  <2>2. inside[r] \in 0..MaxTicks /\ MaxTicks \in Nat
    BY <1>1, BudgetAssumption DEF TimedInv, ClockInv
  <2>3. CASE stage[r] = "outside"
    BY <1>1, <2>1, <2>3 DEF TimedInv, ClockInv
  <2>4. CASE stage[r] \in {"waiting", "queued"}
    <3>1. inside[r] + left[r] <= deadline[r] /\ left[r] >= 0
      BY <1>1, <2>4 DEF TimedInv, ClockInv
    <3>2. left[r] \in Nat \cup {-1}
      BY <1>1 DEF GateTypeOK, Overdue
    <3> QED
      BY <2>1, <2>2, <3>1, <3>2
  <2> QED
    BY <1>1, <2>3, <2>4, RefusedFrom
<1>2. GateTypeOK /\ TimedCallsInv /\ TimedInv /\ [Next]_vars =>
        [\A r \in Requests :
           code[r] = "none" /\ code'[r] \in {"VLAI_DEADLINE", "VLAI_QUEUE_LIMIT"} =>
             inside[r] <= deadline[r]]_vars
  BY <1>1
<1> QED
  BY <1>2, TimedInvariant, PTL DEF Spec, RefusedByDeadline
=============================================================================
