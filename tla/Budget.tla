------------------------------- MODULE Budget -------------------------------
(***************************************************************************)
(* Where the time of a message goes: the pending queue of the subscription *)
(* (src/src/main.py), the wait for room and the deque (admission.py), the  *)
(* evaluation, the network directory (geo.py) and keeper.                  *)
(*                                                                         *)
(* The loop's own work, sends included, takes no time: a tick passes only  *)
(* when every coroutine waits for something that takes time. A tick is at  *)
(* least the sweeper's period. The messages are numbered as they arrive,   *)
(* and the clocks of one are put away once it is answered.                 *)
(***************************************************************************)
EXTENDS Gate, Sequences, FiniteSetsExt

CONSTANTS Slack,         \* pending_msgs_limit - maxsize, 4 in main.py
          MaxRows,       \* list rows of a profile
          GeoTimeout,    \* what a lookup in the directory may take, in ticks
          KeeperTimeout, \* what a write to keeper may take, in ticks
          MaxTicks       \* a clock of a message stops there

ASSUME BudgetAssumption ==
  /\ Requests \subseteq Nat
  /\ Slack \in Nat /\ MaxRows \in Nat /\ MaxTicks \in Nat
  /\ GeoTimeout \in Nat /\ KeeperTimeout \in Nat

VARIABLES
  inbox,    \* the subscription's pending queue
  deadline, \* deadline_ms of each message, in ticks; 0 when it has none
  behind,   \* the callbacks to end before its own begins, when it arrived
  buffered, \* the ticks it stood in the pending queue
  inside,   \* the ticks from its callback's beginning to its answer
  code,     \* its answer, or "none" or "lost"
  callback, \* admit
  worker    \* worker and process

clockVars == <<deadline, behind, buffered, inside>>
vars == <<gateVars, clockVars, inbox, code, callback, worker>>

Idle == [step |-> "idle"]
Hand == Taken
InBuffer == {inbox[i] : i \in DOMAIN inbox}

-----------------------------------------------------------------------------
(* Answers of the gate: shed_many for the evicted, the refusal of admit *)

\* What an answered message has no further use for; the pending queue's part of it
\* is put away when its callback begins.
PutAway ==
  /\ deadline' = [r \in Requests |-> IF code'[r] = "none" THEN deadline[r] ELSE 0]
  /\ inside' = [r \in Requests |-> IF code'[r] = "none" THEN inside[r] ELSE 0]
  /\ behind' = [r \in Requests |-> IF r \in InBuffer' THEN behind[r] ELSE 0]
  /\ buffered' = [r \in Requests |-> IF r \in InBuffer' THEN buffered[r] ELSE 0]

\* Mutated form: the evicted are not answered.
RefusalsOfOwn ==
  code' = [r \in Requests |->
             IF stage'[r] = stage[r] THEN code[r]
             ELSE CASE stage'[r] = "deadline" -> "VLAI_DEADLINE"
                    [] stage'[r] = "limit" -> "VLAI_QUEUE_LIMIT"
                    [] OTHER -> code[r]]

Refusals ==
  code' = [r \in Requests |->
             IF stage'[r] = stage[r] THEN code[r]
             ELSE CASE stage'[r] \in {"stale", "deadline"} -> "VLAI_DEADLINE"
                    [] stage'[r] = "limit" -> "VLAI_QUEUE_LIMIT"
                    [] OTHER -> code[r]]

-----------------------------------------------------------------------------
(* List rows: expand_bans asks the directory for one after the other, then *)
(* publish_bans writes those it could expand, one after the other.         *)

Expanding(rows) == [step |-> "geo", rows |-> rows, kept |-> 0, spent |-> 0, since |-> 0]

\* Mutated form: a row that needs no lookup is expanded as well, and kept twice.
AfterRowTwice(a, got) == [a EXCEPT !.rows = @ - 1, !.kept = @ + 2 * got, !.spent = 0]

\* A row that needs no lookup, or finds its range cached, is kept at once.
AfterRow(a, got) == [a EXCEPT !.rows = @ - 1, !.kept = @ + got, !.spent = 0]

Writing(a) == [a EXCEPT !.step = "keeper", !.rows = a.kept, !.spent = 0]

\* Mutated form: a write to keeper is tried a second time.
MayWaitTwice(a) ==
  \/ a.step = "geo" /\ a.rows > 0 /\ a.spent < GeoTimeout
  \/ a.step = "keeper" /\ a.rows > 0 /\ a.spent < 2 * KeeperTimeout

\* A coroutine in one of the two waits may go on waiting.
MayWait(a) ==
  \/ a.step = "geo" /\ a.rows > 0 /\ a.spent < GeoTimeout
  \/ a.step = "keeper" /\ a.rows > 0 /\ a.spent < KeeperTimeout

Later(a) ==
  IF a.step \in {"geo", "keeper"} THEN [a EXCEPT !.spent = @ + 1, !.since = @ + 1] ELSE a

-----------------------------------------------------------------------------
(* admit *)

Delivered == {r \in Requests : stage[r] # "outside" \/ code[r] # "none"} \cup InBuffer

Arrive(r) ==
  /\ r \notin Delivered /\ {q \in Requests : q < r} \subseteq Delivered
  /\ IF Len(inbox) < MaxSize + Slack
       THEN /\ inbox' = Append(inbox, r)
            /\ \E d \in Budgets \cup {0} : deadline' = [deadline EXCEPT ![r] = d]
            /\ behind' = [behind EXCEPT ![r] = Len(inbox) + IF callback = Idle THEN 0 ELSE 1]
            /\ UNCHANGED code
       ELSE /\ code' = [code EXCEPT ![r] = "lost"]
            /\ UNCHANGED <<inbox, deadline, behind>>
  /\ UNCHANGED <<gateVars, buffered, inside, callback, worker>>

\* Where the callback goes from what submit did: back, into the wait, or on to the
\* rows of a message dropped for the limit.
Submitted(r) ==
  /\ Refusals
  /\ \E rows \in 0..(IF stage'[r] = "limit" THEN MaxRows ELSE 0) :
       callback' = CASE stage'[r] = "waiting" -> [step |-> "waiting", req |-> r]
                     [] stage'[r] = "limit" -> Expanding(rows)
                     [] OTHER -> Idle

\* The whole deadline_ms counts from here, whatever the pending queue took.
Admit ==
  /\ callback = Idle /\ inbox # <<>>
  /\ inbox' = Tail(inbox)
  /\ \E full \in {"wait", "shed"} : Submit(Head(inbox), deadline[Head(inbox)], full)
  /\ Submitted(Head(inbox))
  /\ UNCHANGED worker
  /\ PutAway

AdmitResume ==
  /\ callback.step = "waiting"
  /\ Wake(callback.req) \/ Timeout(callback.req)
  /\ Submitted(callback.req)
  /\ UNCHANGED <<inbox, worker>>
  /\ PutAway

CallbackRow ==
  /\ \/ /\ callback.step = "geo" /\ callback.rows > 0
        /\ \E got \in 0..1 : callback' = AfterRow(callback, got)
     \/ callback.step = "geo" /\ callback.rows = 0 /\ callback' = Writing(callback)
     \/ callback.step = "keeper" /\ callback.rows > 0 /\ callback' = AfterRow(callback, 0)
     \/ callback.step = "keeper" /\ callback.rows = 0 /\ callback' = Idle
  /\ UNCHANGED <<gateVars, clockVars, inbox, code, worker>>

-----------------------------------------------------------------------------
(* the worker and the sweeper *)

WorkerTake ==
  /\ worker = Idle
  /\ Take
  /\ Refusals
  /\ worker' = IF Hand' = {} THEN Idle ELSE [step |-> "evaluate"]
  /\ UNCHANGED <<inbox, callback>>
  /\ PutAway

\* _remaining in process: the whole deadline_ms less the time since process began.
Remaining(r) == deadline[r]

\* evaluate comes back, after any time; its own check of the budget comes first.
Evaluated ==
  /\ worker.step = "evaluate"
  /\ \E r \in Hand :
       \E rows \in IF Remaining(r) < MinBudget THEN {0} ELSE 0..MaxRows :
         worker' = Expanding(rows)
  /\ UNCHANGED <<gateVars, clockVars, inbox, code, callback>>

WorkerRow ==
  /\ worker.step \in {"geo", "keeper"} /\ worker.rows > 0
  /\ \E got \in 0..(IF worker.step = "geo" THEN 1 ELSE 0) : worker' = AfterRow(worker, got)
  /\ UNCHANGED <<gateVars, clockVars, inbox, code, callback>>

\* The answer, between the lookups and the writes.
Reply ==
  /\ worker.step = "geo" /\ worker.rows = 0
  /\ \E r \in Hand : code' = [code EXCEPT ![r] = "verdict"]
  /\ worker' = Writing(worker)
  /\ UNCHANGED <<gateVars, inbox, callback>>
  /\ PutAway

Finish ==
  /\ worker.step = "keeper" /\ worker.rows = 0
  /\ \E r \in Hand : Done(r)
  /\ worker' = Idle
  /\ UNCHANGED <<clockVars, inbox, code, callback>>

SweeperSweep ==
  /\ Sweep
  /\ Refusals
  /\ UNCHANGED <<inbox, callback, worker>>
  /\ PutAway

-----------------------------------------------------------------------------
(* Time *)

Resting ==
  /\ inbox # <<>> => callback # Idle
  /\ callback.step = "waiting" => callback.req \in asleep /\ left[callback.req] > 0
  /\ callback.step \in {"geo", "keeper"} => MayWait(callback)
  /\ worker = Idle => Worker \in asleep
  /\ worker.step \in {"geo", "keeper"} => MayWait(worker)
  /\ Stale = {}

Step(clock, running) ==
  [r \in Requests |-> IF r \in running /\ clock[r] < MaxTicks THEN clock[r] + 1 ELSE clock[r]]

Unanswered == {r \in Requests : stage[r] # "outside" /\ code[r] = "none"}

\* A tick for the gate and for every wait.
Pass ==
  /\ Resting
  /\ InBuffer \cup Unanswered # {} \/ callback # Idle \/ worker # Idle
  /\ IF \E r \in Waiting \cup Queued : left[r] > Overdue THEN Tick ELSE UNCHANGED gateVars
  /\ buffered' = Step(buffered, InBuffer)
  /\ inside' = Step(inside, Unanswered)
  /\ callback' = Later(callback) /\ worker' = Later(worker)
  /\ UNCHANGED <<deadline, behind, inbox, code>>

-----------------------------------------------------------------------------
Init ==
  /\ GateInit
  /\ inbox = <<>> /\ callback = Idle /\ worker = Idle
  /\ code = [r \in Requests |-> "none"]
  /\ deadline = [r \in Requests |-> 0] /\ behind = [r \in Requests |-> 0]
  /\ buffered = [r \in Requests |-> 0] /\ inside = [r \in Requests |-> 0]

CallbackNext == Admit \/ AdmitResume \/ CallbackRow
WorkerNext == WorkerTake \/ WorkerRow \/ Reply \/ Finish

Next ==
  \/ \E r \in Requests : Arrive(r)
  \/ CallbackNext \/ WorkerNext \/ Evaluated \/ SweeperSweep \/ Pass

Spec == Init /\ [][Next]_vars

\* The loop is fair to its coroutines and time passes. An evaluation need not end.
FairSpec ==
  /\ Spec
  /\ WF_vars(CallbackNext) /\ WF_vars(WorkerNext) /\ WF_vars(SweeperSweep) /\ WF_vars(Pass)

-----------------------------------------------------------------------------
(* Properties *)

\* A coroutine at its rows, of which it keeps no more than the profile has.
RowWork ==
  [step : {"geo", "keeper"}, rows : 0..MaxRows, kept : 0..MaxRows, spent : Nat, since : Nat]

\* The values of the variables.
BudgetTypeOK ==
  /\ InBuffer \subseteq Requests
  /\ deadline \in [Requests -> Budgets \cup {0}]
  /\ behind \in [Requests -> Nat]
  /\ buffered \in [Requests -> 0..MaxTicks] /\ inside \in [Requests -> 0..MaxTicks]
  /\ code \in [Requests -> {"none", "lost", "verdict", "VLAI_DEADLINE", "VLAI_QUEUE_LIMIT"}]
  /\ \/ callback = Idle \/ callback \in RowWork
     \/ callback \in [step : {"waiting"}, req : Requests]
  /\ worker = Idle \/ worker = [step |-> "evaluate"] \/ worker \in RowWork

\* A refusal is of use only while the module still waits for it. However long the
\* evaluation, the directory and keeper take, a message is refused within its
\* deadline, counted from its callback.
RefusedByDeadline ==
  [][\A r \in Requests :
       code[r] = "none" /\ code'[r] \in {"VLAI_DEADLINE", "VLAI_QUEUE_LIMIT"} =>
         inside[r] <= deadline[r]]_vars

\* The worker takes only messages with min_budget left, counted from their
\* callback: the time in the deque and the wait for room are taken off although
\* process looks at the whole deadline_ms again.
TakenWithBudget ==
  [][\A r \in Requests :
       r \notin Hand /\ r \in Hand' => deadline[r] - inside[r] >= MinBudget]_vars

\* What a message stands in the pending queue is bounded by what the callbacks
\* before it may take: a wait for room to the deadline, or the rows of a dropped one.
HeadOfLineBounded ==
  LET longest == Max(Budgets \cup {MaxRows * (GeoTimeout + KeeperTimeout)}) IN
    \A r \in Requests : buffered[r] <= behind[r] * longest

\* Also beside an evaluation that never ends, everything delivered is answered but
\* the message being evaluated.
OthersAnswered ==
  \A r \in Requests : r \in InBuffer ~> code[r] # "none" \/ r \in Hand

=============================================================================
