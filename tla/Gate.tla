-------------------------------- MODULE Gate --------------------------------
(***************************************************************************)
(* The admission gate of src/src/admission.py: a bounded deque of requests *)
(* with deadlines, filled by admit callbacks (submit), drained by the one  *)
(* worker (take, done) and cleaned by the sweeper (sweep).                 *)
(*                                                                         *)
(* The coroutines share one event loop and hold the condition's lock only  *)
(* over code without a suspension, so an action is the stretch of code     *)
(* between two awaits that really suspend: the waits on `cond`.            *)
(*                                                                         *)
(* Time is relative: left[r] counts the ticks to the slot's deadline, so   *)
(* `deadline - now < min_budget_s` is left[r] < MinBudget and no absolute  *)
(* clock has to be bounded.                                                *)
(***************************************************************************)
EXTENDS Integers, FiniteSets

CONSTANTS Requests,   \* the messages that can reach the gate
          Worker,     \* the worker coroutine, as a sleeper on the condition
          MaxSize,    \* Gate.maxsize
          MinBudget,  \* Gate.min_budget_s, in ticks
          Budgets     \* the wait_s of messages with a deadline, in ticks; without one it is 0

ASSUME GateAssumption ==
  /\ Worker \notin Requests
  /\ MaxSize \in Nat \ {0}       \* max(1, maxsize)
  /\ MinBudget \in Nat
  /\ Budgets \subseteq Nat       \* submit takes max(wait_s, 0.0)

VARIABLES
  stage,      \* where each request stands with respect to the gate
  left,       \* ticks to its deadline, Overdue once that has passed
  ahead,      \* the order of the deque: who stood in it when r was appended
  asleep,     \* the coroutines in cond.wait() that nobody has notified yet
  unfinished, \* Gate._unfinished
  idle,       \* Gate._idle.is_set()
  shed,       \* Gate.shed
  expired     \* Gate.expired

gateVars == <<stage, left, ahead, asleep, unfinished, idle, shed, expired>>

Overdue == -1

\* "outside": not submitted. "waiting": in _wait_slot. "queued": in the deque.
\* "taken": with the worker, done() not called. "finished": done() called.
\* "stale": evicted by _take_stale. "limit", "deadline": refused by submit.
Stages == {"outside", "waiting", "queued", "taken", "finished",
           "stale", "limit", "deadline"}

Waiting == {r \in Requests : stage[r] = "waiting"}
Queued  == {r \in Requests : stage[r] = "queued"}
Taken   == {r \in Requests : stage[r] = "taken"}

-----------------------------------------------------------------------------
(* _take_stale, which every operation below calls first *)

\* Mutated form: a slot goes only when its deadline has passed.
StalePastDeadline == {r \in Queued : left[r] < 0}

Stale == {r \in Queued : left[r] < MinBudget}
Kept  == Queued \ Stale

\* Mutated forms: one place too many; a check made before the eviction.
RoomForOneMore == Cardinality(Kept) <= MaxSize
RoomBeforeEviction == Cardinality(Queued) < MaxSize

Room == Cardinality(Kept) < MaxSize

Settled(n) == IF n <= 0 THEN 0 ELSE n

AfterEviction == [r \in Requests |-> IF r \in Stale THEN "stale" ELSE stage[r]]

\* Mutated form: the evicted leave the deque but stay in the count.
TakeStaleUncounted ==
  expired' = expired + Cardinality(Stale) /\ UNCHANGED <<unfinished, idle>>

\* What becomes of the counters when nothing but the eviction touches them.
TakeStale ==
  /\ unfinished' = Settled(unfinished - Cardinality(Stale))
  /\ idle' = (idle \/ unfinished - Cardinality(Stale) <= 0)
  /\ expired' = expired + Cardinality(Stale)

\* Mutated form: notify instead of notify_all.
NotifyOne ==
  IF asleep = {} THEN UNCHANGED asleep ELSE \E c \in asleep : asleep' = asleep \ {c}

NotifyAll == asleep' = {}

-----------------------------------------------------------------------------
(* submit, from the lock on: the three ways it ends or suspends *)

\* _put: append the slot, count it, notify_all.
Put(r) ==
  /\ stage' = [AfterEviction EXCEPT ![r] = "queued"]
  /\ ahead' = [ahead EXCEPT ![r] = Kept]
  /\ unfinished' = Settled(unfinished - Cardinality(Stale)) + 1
  /\ idle' = FALSE
  /\ expired' = expired + Cardinality(Stale)
  /\ NotifyAll
  /\ UNCHANGED shed

RefuseLimit(r) ==
  /\ stage' = [AfterEviction EXCEPT ![r] = "limit"]
  /\ TakeStale
  /\ shed' = shed + 1
  /\ UNCHANGED <<ahead, asleep>>

\* Mutated form: a refused message is taken off the count it never was on.
RefuseDeadlineCounted(r) ==
  /\ stage' = [AfterEviction EXCEPT ![r] = "deadline"]
  /\ unfinished' = unfinished - Cardinality(Stale) - 1
  /\ idle' = (idle \/ unfinished - Cardinality(Stale) - 1 <= 0)
  /\ expired' = expired + Cardinality(Stale) + 1
  /\ asleep' = asleep \ {r}
  /\ UNCHANGED <<ahead, shed>>

RefuseDeadline(r) ==
  /\ stage' = [AfterEviction EXCEPT ![r] = "deadline"]
  /\ unfinished' = Settled(unfinished - Cardinality(Stale))
  /\ idle' = (idle \/ unfinished - Cardinality(Stale) <= 0)
  /\ expired' = expired + Cardinality(Stale) + 1
  /\ asleep' = asleep \ {r}
  /\ UNCHANGED <<ahead, shed>>

WaitForSlot(r) ==
  /\ stage' = [AfterEviction EXCEPT ![r] = "waiting"]
  /\ TakeStale
  /\ asleep' = asleep \cup {r}
  /\ UNCHANGED <<ahead, shed>>

\* A new call. Without the budget it returns before it takes the lock, and so
\* evicts nobody. The clock it reads a second time has moved since: of a budget that
\* just sufficed there may be too little left to wait with.
Submit(r, budget, full) ==
  /\ stage[r] = "outside"
  /\ left' = [left EXCEPT ![r] = budget]
  /\ \/ /\ budget < MinBudget
        /\ stage' = [stage EXCEPT ![r] = "deadline"]
        /\ expired' = expired + 1
        /\ UNCHANGED <<ahead, asleep, unfinished, idle, shed>>
     \/ budget >= MinBudget /\ Room /\ Put(r)
     \/ budget >= MinBudget /\ ~Room /\ full # "wait" /\ RefuseLimit(r)
     \/ budget >= MinBudget /\ ~Room /\ full = "wait" /\ WaitForSlot(r)
     \/ budget = MinBudget /\ ~Room /\ full = "wait" /\ RefuseDeadline(r)

\* A notified submitter resumes in _wait_slot. With room it joins whatever is
\* left of its own budget; only without room does it look at that.
Wake(r) ==
  /\ stage[r] = "waiting" /\ r \notin asleep
  /\ UNCHANGED left
  /\ \/ Room /\ Put(r)
     \/ ~Room /\ left[r] < MinBudget /\ RefuseDeadline(r)
     \/ ~Room /\ left[r] >= MinBudget /\ WaitForSlot(r)

\* Mutated form: a notified wait is no longer cancelled.
TimeoutAsleepOnly(r) ==
  /\ stage[r] = "waiting" /\ r \in asleep /\ left[r] <= 0
  /\ RefuseDeadline(r)
  /\ UNCHANGED left

\* wait_for's timer cancels the wait at the deadline, notified or not.
Timeout(r) ==
  /\ stage[r] = "waiting" /\ left[r] <= 0
  /\ RefuseDeadline(r)
  /\ UNCHANGED left

-----------------------------------------------------------------------------
(* the worker and the sweeper *)

\* One turn of take's loop: return the oldest kept slot (and notify_all), or
\* return the evicted alone (without a notify), or go to sleep.
Take ==
  /\ Taken = {} /\ Worker \notin asleep
  /\ TakeStale
  /\ \/ \E r \in Kept : /\ ahead[r] \cap Kept = {}
                        /\ stage' = [AfterEviction EXCEPT ![r] = "taken"]
                        /\ NotifyAll
     \/ /\ Kept = {} /\ Stale # {}
        /\ stage' = AfterEviction
        /\ UNCHANGED asleep
     \/ /\ Queued = {}
        /\ asleep' = asleep \cup {Worker}
        /\ UNCHANGED stage
  /\ UNCHANGED <<left, ahead, shed>>

Sweep ==
  /\ Stale # {}
  /\ stage' = AfterEviction
  /\ TakeStale
  /\ NotifyAll
  /\ UNCHANGED <<left, ahead, shed>>

Done(r) ==
  /\ stage[r] = "taken"
  /\ stage' = [stage EXCEPT ![r] = "finished"]
  /\ unfinished' = Settled(unfinished - 1)
  /\ idle' = (idle \/ unfinished - 1 <= 0)
  /\ UNCHANGED <<left, ahead, asleep, shed, expired>>

\* time.monotonic() advances. Only a waiting or queued request has a deadline
\* that is still read; the others' clocks are put away as Overdue.
Tick ==
  /\ \E r \in Waiting \cup Queued : left[r] > Overdue
  /\ left' = [r \in Requests |->
                IF r \in Waiting \cup Queued /\ left[r] > Overdue
                  THEN left[r] - 1 ELSE Overdue]
  /\ UNCHANGED <<stage, ahead, asleep, unfinished, idle, shed, expired>>

-----------------------------------------------------------------------------
GateInit ==
  /\ stage = [r \in Requests |-> "outside"]
  /\ left = [r \in Requests |-> Overdue]
  /\ ahead = [r \in Requests |-> {}]
  /\ asleep = {}
  /\ unfinished = 0
  /\ idle = TRUE
  /\ shed = 0
  /\ expired = 0

GateNext ==
  \/ \E r \in Requests :
       \/ \E b \in Budgets \cup {0}, full \in {"wait", "shed"} : Submit(r, b, full)
       \/ Wake(r)
       \/ Timeout(r)
       \/ Done(r)
  \/ Take
  \/ Sweep
  \/ Tick

GateSpec == GateInit /\ [][GateNext]_gateVars

(***************************************************************************)
(* The event loop runs: the clock advances, the sweeper comes round every  *)
(* 10 ms and a timer that is due is served. Nothing is asked of the worker *)
(* or of the condition's wake-ups: the model behind the worker may hang.   *)
(***************************************************************************)
GateFairness ==
  /\ WF_gateVars(Tick)
  /\ WF_gateVars(Sweep)
  /\ \A r \in Requests : WF_gateVars(Timeout(r))

FairGateSpec == GateSpec /\ GateFairness

-----------------------------------------------------------------------------
(* Properties *)

\* The values of the variables.
GateTypeOK ==
  /\ stage \in [Requests -> Stages]
  /\ left \in [Requests -> Nat \cup {Overdue}]
  /\ ahead \in [Requests -> SUBSET Requests]
  /\ asleep \subseteq Waiting \cup {Worker}
  /\ unfinished \in Nat
  /\ idle \in BOOLEAN
  /\ shed \in Nat
  /\ expired \in Nat

\* However many submitters wake for one free slot, the deque never holds more
\* than maxsize requests.
CapacityKept == Cardinality(Queued) <= MaxSize

\* _unfinished counts exactly the requests in the deque and with the worker,
\* and join() passes exactly when there are none: an eviction, a refusal or a
\* wake-up never counts a request twice or drops it from the count.
AccountingExact ==
  /\ unfinished = Cardinality(Queued \cup Taken)
  /\ idle <=> Queued \cup Taken = {}

\* The worker never sleeps on while a request stands in the deque: every path
\* that fills an empty deque also notifies.
WorkerNotStranded == Worker \in asleep => Queued = {}

\* A request is refused for the limit only when maxsize requests that can
\* still be served hold the places; slots past their deadline do not count.
LimitOnlyWhenFullOfLive ==
  [][\A r \in Requests : stage[r] # "limit" /\ stage'[r] = "limit" =>
       Cardinality({q \in Queued : left[q] >= MinBudget}) = MaxSize]_gateVars

\* Whoever is in the gate leaves it, by the sweeper or by its own timer, even
\* when the worker never comes back for the next request.
EveryoneLeaves ==
  \A r \in Requests : stage[r] \in {"waiting", "queued"}
                        ~> stage[r] \notin {"waiting", "queued"}

\* inspector.conf of queue_full wait: "wait for room until deadline_ms". Who
\* waits with budget to spare is therefore awake, or there is no room for it.
NoStrandedWaiter ==
  \A r \in Waiting \cap asleep :
    left[r] >= MinBudget => Cardinality(Queued) >= MaxSize
=============================================================================
