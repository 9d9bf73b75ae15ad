----------------------------- MODULE Inspector ------------------------------
(***************************************************************************)
(* src/src/main.py around the gate: the subscription and its admit         *)
(* callback, the worker with process and publish_bans, the sweeper,        *)
(* shed_many, the profile generation they read, and the shutdown of main.  *)
(*                                                                         *)
(* One event loop runs the coroutines; an action is the code between two   *)
(* awaits that may suspend. A send is an await of its own, as are the      *)
(* evaluation in its thread and the wait for a slot. nats-py runs the      *)
(* callback of a subscription serially and drops what does not fit its     *)
(* pending queue. Every request carries a reply subject.                   *)
(*                                                                         *)
(* Some messages raise by what they carry, on a sound connection: over     *)
(* their deadline, before submit (Unpeekable), when an answer repeats what *)
(* they carry (Unquotable), and in the log line behind it (Unloggable).    *)
(***************************************************************************)
EXTENDS Gate, Sequences, Verdicts

CONSTANTS Callback, Sweeper, \* the other two coroutines that shed
          Slack,             \* pending_msgs_limit - maxsize, 4 in main.py
          Unreadable,        \* requests that are no JSON, or name no deadline
          Malformed,         \* requests with a deadline and something else not served
          Unpeekable,        \* _peek or _remaining raises: deadline_ms 1e400, deep nesting
          Unquotable,        \* parse_request or the answer's encode raises: phase [],
                             \* v 1e400, a lone surrogate in the rid
          Unloggable,        \* the log line of the verdict may raise: a surrogate in the uri
          Profiles,          \* what the route's tag may resolve to
          Builtin,           \* the profile before the first generation
          EngineCodes,       \* how the extraction and the inference may end
          MaxFaults          \* bound on the failing sends and logs

NoFill == -1

ASSUME InspectorAssumption ==
  /\ Callback # Worker /\ Sweeper # Worker /\ Callback # Sweeper
  /\ Slack \in Nat
  /\ Unreadable \subseteq Requests /\ Malformed \subseteq Requests
  /\ Unpeekable \subseteq Requests /\ Unquotable \subseteq Requests
  /\ Unloggable \subseteq Requests
  /\ Profiles \subseteq ProfileType \cup {NoProfile}
  /\ Builtin \in ProfileType
  /\ EngineCodes \subseteq EvaluateCodes \cup {"VLAI_INTERNAL_ERROR"}
  /\ MaxFaults \in Nat

VARIABLES
  inbox,    \* the subscription's pending queue
  lost,     \* what it had no room for
  callback, \* admit: its request, where it stands, the profile it resolved
  worker,   \* worker and process: where it stands, profile, fill, reply, writes
  sweeper,  \* "run", or "dead": raised or cancelled
  toShed,   \* what each coroutine evicted and has not answered yet
  profile,  \* what registry.resolve gives for the route now
  fills,    \* the fills dict: percent of the queue by message
  answers,  \* the answers that went out, per request
  written,  \* the list writes that reached keeper, per request
  bus,      \* the connection
  main,     \* the progress of main()
  faults    \* sends and logs that have raised whatever the message was

\* What the code does not keep: the messages whose content ended admit over
\* themselves, and those whose content ended a shed_many.
VARIABLES raisedOwn, raisedMany

busVars == <<inbox, lost, bus, main>>
raised == <<raisedOwn, raisedMany>>
vars == <<gateVars, busVars, callback, worker, sweeper, toShed, profile, fills,
          answers, written, faults, raised>>

Actors == {Worker, Callback, Sweeper}
Hand == Taken          \* the worker's message
Idle == [step |-> "idle"]
Alive == main # "exited"

-----------------------------------------------------------------------------
(* Sending *)

ErrorReply(code) == [verdict |-> "error", code |-> code, asks |-> FALSE]

Respond(r, reply) ==
  /\ bus # "closed"
  /\ answers' = [answers EXCEPT ![r] = Append(@, reply)]
  /\ UNCHANGED faults

\* A send raises on a closed connection, and may raise while it reconnects.
Fault == faults < MaxFaults /\ faults' = faults + 1

Raises ==
  /\ \/ bus = "closed" /\ UNCHANGED faults
     \/ bus # "closed" /\ Fault
  /\ UNCHANGED answers

\* _reply_shed repeats the rid and the inspector of the message it answers.
Quote(r, reply) == r \notin Unquotable /\ Respond(r, reply) /\ UNCHANGED raised

\* It raises over an evicted message, or over admit's own.
ShedRaises(q) ==
  \/ Raises /\ UNCHANGED raised
  \/ /\ q \in Unquotable /\ raisedMany' = raisedMany \cup {q}
     /\ UNCHANGED <<answers, faults, raisedOwn>>

OwnRaises(r) ==
  \/ Raises /\ UNCHANGED raised
  \/ /\ r \in Unquotable /\ raisedOwn' = raisedOwn \cup {r}
     /\ UNCHANGED <<answers, faults, raisedMany>>

\* publish_bans: each write may fail by itself, none raises.
PublishBans(r, bans) ==
  \E sent \in SUBSET bans :
    /\ bus = "closed" => sent = {}
    /\ written' = [written EXCEPT ![r] = @ \cup sent]

-----------------------------------------------------------------------------
(* Profiles *)

\* Mutated form: the worker's hand counts as a place.
PercentOfAllPlaces(queued) ==
  IF queued >= MaxSize THEN 100 ELSE (queued * 100) \div (MaxSize + 1)

\* Mutated form: the request counts itself in.
PercentWithItself(queued) == ((queued + 1) * 100) \div MaxSize

Percent(queued) == IF queued >= MaxSize THEN 100 ELSE (queued * 100) \div MaxSize

\* What evaluate returns: reply and list writes.
Outcomes(r, p) ==
  UNION {EvaluateMay(kind, p, EngineCodes) :
           kind \in CASE r \in Unreadable             -> {"garbage"}
                      [] r \in Malformed \ Unreadable -> DOMAIN BrokenCodes
                      [] OTHER                       -> {"sound"}}

\* expand_bans: the directory may fail for some of the rows; the answer becomes an
\* error, the rows that did expand are still written. A kind stands for several
\* rows, so it may be written although one of its rows has failed.
WithGeo(out) ==
  {out} \cup {[reply |-> ErrorReply("VLAI_GEO_UNAVAILABLE"), bans |-> kept] :
                kept \in IF out.bans = {} THEN {} ELSE SUBSET out.bans}

-----------------------------------------------------------------------------
(* The subscription *)

Arrive(r) ==
  /\ main \in {"running", "stopping"} /\ stage[r] = "outside"
  /\ r \notin lost \cup raisedOwn /\ \A i \in DOMAIN inbox : inbox[i] # r
  /\ IF Len(inbox) < MaxSize + Slack
       THEN inbox' = Append(inbox, r) /\ UNCHANGED lost
       ELSE lost' = lost \cup {r} /\ UNCHANGED inbox
  /\ UNCHANGED <<gateVars, callback, worker, sweeper, toShed, profile, fills,
                 answers, written, bus, main, faults, raised>>

-----------------------------------------------------------------------------
(* admit *)

\* admit raises before it has looked at the queue; nats-py calls it for the next.
AdmitRaises ==
  /\ Alive /\ callback = Idle /\ inbox # <<>> /\ Head(inbox) \in Unpeekable
  /\ inbox' = Tail(inbox)
  /\ raisedOwn' = raisedOwn \cup {Head(inbox)}
  /\ UNCHANGED <<gateVars, lost, bus, main, callback, worker, sweeper, toShed,
                 profile, fills, answers, written, faults, raisedMany>>

\* Mutated form: every coroutine is handed all that was ever evicted.
EvictedEver == {q \in Requests : stage'[q] = "stale"}

\* What the last operation of the gate evicted, for its caller to answer.
Evicted == {q \in Queued : stage'[q] = "stale"}

\* Mutated form: an admitted message returns before the evicted are answered.
SubmittedReturnsEarly(r, p, fill) ==
  /\ toShed' = [toShed EXCEPT ![Callback] = @ \cup Evicted]
  /\ fills' = [fills EXCEPT ![r] =
                 IF stage'[r] \in {"limit", "deadline"} THEN NoFill ELSE fill]
  /\ callback' = IF stage'[r] = "queued" THEN Idle
                 ELSE [step |-> stage'[r], req |-> r, profile |-> p]
  /\ UNCHANGED <<worker, sweeper, profile, answers, written, faults, raised>>

\* admit from submit's return, or its suspension, to its next send: a refused
\* message gives up its fill, an admitted one leaves the callback only with the
\* evicted of submit.
Submitted(r, p, fill) ==
  /\ toShed' = [toShed EXCEPT ![Callback] = @ \cup Evicted]
  /\ fills' = [fills EXCEPT ![r] =
                 IF stage'[r] \in {"limit", "deadline"} THEN NoFill ELSE fill]
  /\ callback' = IF stage'[r] = "queued" /\ toShed'[Callback] = {} THEN Idle
                 ELSE [step |-> stage'[r], req |-> r, profile |-> p]
  /\ UNCHANGED <<worker, sweeper, profile, answers, written, faults, raised>>

\* The fill is the deque's before submit looks at it.
Admit ==
  /\ Alive /\ callback = Idle /\ inbox # <<>> /\ Head(inbox) \notin Unpeekable
  /\ LET r == Head(inbox) IN
       /\ \E budget \in IF r \in Unreadable THEN {0} ELSE Budgets :
            Submit(r, budget, IF profile = NoProfile THEN "shed" ELSE profile.overload)
       /\ Submitted(r, profile, Percent(Cardinality(Queued)))
  /\ inbox' = Tail(inbox)
  /\ UNCHANGED <<lost, bus, main>>

AdmitResume ==
  /\ Alive /\ callback.step = "waiting"
  /\ Wake(callback.req) \/ Timeout(callback.req)
  /\ Submitted(callback.req, callback.profile, fills[callback.req])
  /\ UNCHANGED busVars

\* shed_many in admit. When a send raises, or the message itself makes _reply_shed
\* raise, admit ends there: the evicted that are left go unanswered with their fills
\* in the dict, and so does its own message if that was refused.
AdmitShed ==
  /\ Alive /\ callback.step \in {"queued", "limit", "deadline"}
  /\ \E q \in toShed[Callback] :
       /\ fills' = [fills EXCEPT ![q] = NoFill]
       /\ \/ /\ Quote(q, ErrorReply("VLAI_DEADLINE"))
             /\ toShed' = [toShed EXCEPT ![Callback] = @ \ {q}]
             /\ callback' = IF callback.step = "queued" /\ toShed'[Callback] = {}
                              THEN Idle ELSE callback
          \/ /\ ShedRaises(q)
             /\ toShed' = [toShed EXCEPT ![Callback] = {}]
             /\ callback' = Idle
  /\ UNCHANGED <<gateVars, busVars, worker, sweeper, profile, written>>

\* Mutated form: every profile that enforces nothing lets the request through.
LimitReplyMuted(p) ==
  [verdict |-> IF p # NoProfile /\ p.mode # "enforce" THEN "allow" ELSE "error",
   code |-> "VLAI_QUEUE_LIMIT",
   asks |-> ~Muted(p) /\ "ask" \in p.rows]

LimitReply(p) ==
  [verdict |-> IF p # NoProfile /\ p.mode = "off" THEN "allow" ELSE "error",
   code |-> "VLAI_QUEUE_LIMIT",
   asks |-> ~Muted(p) /\ "ask" \in p.rows]

\* The refusal of admit's own message; a full queue also fires the list rows.
AdmitRefuse ==
  /\ Alive /\ callback.step \in {"limit", "deadline"} /\ toShed[Callback] = {}
  /\ LET p == callback.profile
         limit == callback.step = "limit" IN
       \/ /\ Quote(callback.req,
                   IF limit THEN LimitReply(p) ELSE ErrorReply("VLAI_DEADLINE"))
          /\ callback' = IF limit /\ ~Muted(p) /\ "list" \in p.rows
                           THEN [step |-> "write", req |-> callback.req] ELSE Idle
       \/ /\ OwnRaises(callback.req)
          /\ callback' = Idle
  /\ UNCHANGED <<gateVars, busVars, worker, sweeper, toShed, profile, fills, written>>

AdmitWrite ==
  /\ Alive /\ callback.step = "write"
  /\ PublishBans(callback.req, {"list"})
  /\ callback' = Idle
  /\ UNCHANGED <<gateVars, busVars, worker, sweeper, toShed, profile, fills,
                 answers, faults, raised>>

-----------------------------------------------------------------------------
(* worker and process *)

\* Mutated form: the fill is read and left in the dict.
StartProcessKeepsFill(r, held) ==
  /\ worker' = [step |-> "evaluate", profile |-> profile,
                fill |-> IF held[r] = NoFill THEN 0 ELSE held[r]]
  /\ fills' = held

\* process up to the evaluation's thread: it resolves the profile of now and
\* takes its fill out of what the dict holds.
StartProcess(r, held) ==
  /\ worker' = [step |-> "evaluate", profile |-> profile,
                fill |-> IF held[r] = NoFill THEN 0 ELSE held[r]]
  /\ fills' = [held EXCEPT ![r] = NoFill]

\* Mutated form: with a message in hand the evicted are forgotten.
WorkerTakeForgets ==
  /\ Alive /\ worker.step = "take"
  /\ Take
  /\ IF Hand' # {}
       THEN /\ \E r \in Hand' : StartProcess(r, fills)
            /\ UNCHANGED toShed
       ELSE /\ toShed' = [toShed EXCEPT ![Worker] = Evicted]
            /\ worker' = [step |-> IF Evicted = {} THEN "take" ELSE "shed"]
            /\ UNCHANGED fills
  /\ UNCHANGED <<busVars, callback, sweeper, profile, answers, written, faults, raised>>

WorkerTake ==
  /\ Alive /\ worker.step = "take"
  /\ Take
  /\ toShed' = [toShed EXCEPT ![Worker] = Evicted]
  /\ IF Evicted = {} /\ Hand' # {}
       THEN \E r \in Hand' : StartProcess(r, fills)
       ELSE /\ worker' = [step |-> IF Evicted = {} THEN "take" ELSE "shed"]
            /\ UNCHANGED fills
  /\ UNCHANGED <<busVars, callback, sweeper, profile, answers, written, faults, raised>>

\* When this raises the task ends without done() for its message.
WorkerShed ==
  /\ Alive /\ worker.step = "shed"
  /\ \E q \in toShed[Worker] :
       \/ /\ Quote(q, ErrorReply("VLAI_DEADLINE"))
          /\ toShed' = [toShed EXCEPT ![Worker] = @ \ {q}]
          /\ IF toShed'[Worker] = {} /\ Hand # {}
               THEN \E r \in Hand : StartProcess(r, [fills EXCEPT ![q] = NoFill])
               ELSE /\ worker' = [step |-> IF toShed'[Worker] = {} THEN "take" ELSE "shed"]
                    /\ fills' = [fills EXCEPT ![q] = NoFill]
       \/ /\ ShedRaises(q)
          /\ toShed' = [toShed EXCEPT ![Worker] = {}]
          /\ worker' = [step |-> "dead"]
          /\ fills' = [fills EXCEPT ![q] = NoFill]
  /\ UNCHANGED <<gateVars, busVars, callback, sweeper, profile, written>>

\* evaluate comes back, or raises: in the text of a sound message, or when it
\* parses one that cannot be quoted.
Evaluate ==
  /\ Alive /\ worker.step = "evaluate"
  /\ \E r \in Hand :
       \/ \E out \in Outcomes(r, worker.profile) :
            \E final \in WithGeo(WithOverload(out, worker.profile, worker.fill)) :
              worker' = [step |-> "respond", reply |-> final.reply, bans |-> final.bans]
       \/ /\ \/ /\ "VLAI_INTERNAL_ERROR" \in EngineCodes
                /\ ~Muted(worker.profile) /\ r \notin Unreadable \cup Malformed
             \/ r \in Unquotable
          /\ worker' = [step |-> "fallback"]
  /\ UNCHANGED <<gateVars, busVars, callback, sweeper, toShed, profile, fills,
                 answers, written, faults, raised>>

Reply ==
  /\ Alive /\ worker.step = "respond"
  /\ \E r \in Hand :
       \/ /\ Quote(r, worker.reply)
          /\ worker' = [step |-> "publish", bans |-> worker.bans]
       \/ /\ Raises \/ (r \in Unquotable /\ UNCHANGED <<answers, faults>>)
          /\ worker' = [step |-> "fallback"]
          /\ UNCHANGED raised
  /\ UNCHANGED <<gateVars, busVars, callback, sweeper, toShed, profile, fills, written>>

\* publish_bans, the audit event and the log line after the answer. The log may
\* raise, and process then answers again from its except branch.
Publish ==
  /\ Alive /\ worker.step = "publish"
  /\ \E r \in Hand :
       /\ PublishBans(r, worker.bans)
       /\ \/ Done(r) /\ worker' = [step |-> "take"] /\ UNCHANGED faults
          \/ /\ Fault \/ (r \in Unloggable /\ UNCHANGED faults)
             /\ worker' = [step |-> "fallback"] /\ UNCHANGED gateVars
  /\ UNCHANGED <<busVars, callback, sweeper, toShed, profile, fills, answers, raised>>

\* The except branch, which repeats nothing of the message but a rid of hex digits.
\* A second failure ends the task, but done() has run.
Fallback ==
  /\ Alive /\ worker.step = "fallback"
  /\ \E r \in Hand :
       /\ Done(r)
       /\ \/ Respond(r, ErrorReply("VLAI_INTERNAL_ERROR")) /\ worker' = [step |-> "take"]
          \/ Raises /\ worker' = [step |-> "dead"]
  /\ UNCHANGED <<busVars, callback, sweeper, toShed, profile, fills, written, raised>>

-----------------------------------------------------------------------------
(* sweeper *)

SweeperSweep ==
  /\ Alive /\ sweeper = "run" /\ toShed[Sweeper] = {}
  /\ Sweep
  /\ toShed' = [toShed EXCEPT ![Sweeper] = Evicted]
  /\ UNCHANGED <<busVars, callback, worker, sweeper, profile, fills, answers,
                 written, faults, raised>>

SweeperShed ==
  /\ Alive /\ sweeper = "run"
  /\ \E q \in toShed[Sweeper] :
       /\ fills' = [fills EXCEPT ![q] = NoFill]
       /\ \/ /\ Quote(q, ErrorReply("VLAI_DEADLINE"))
             /\ toShed' = [toShed EXCEPT ![Sweeper] = @ \ {q}]
             /\ UNCHANGED sweeper
          \/ /\ ShedRaises(q)
             /\ toShed' = [toShed EXCEPT ![Sweeper] = {}]
             /\ sweeper' = "dead"
  /\ UNCHANGED <<gateVars, busVars, callback, worker, profile, written>>

-----------------------------------------------------------------------------
(* main: a new generation, and the way out *)

\* desired.watch, while its task lives.
NewGeneration ==
  /\ main = "running"
  /\ profile' \in Profiles \ {profile}
  /\ UNCHANGED <<gateVars, busVars, callback, worker, sweeper, toShed, fills,
                 answers, written, faults, raised>>

\* The signal: sweep and watch are cancelled, whatever they were doing.
Stop ==
  /\ main = "running" /\ main' = "stopping"
  /\ sweeper' = "dead"
  /\ toShed' = [toShed EXCEPT ![Sweeper] = {}]
  /\ UNCHANGED <<gateVars, inbox, lost, bus, callback, worker, profile, fills,
                 answers, written, faults, raised>>

\* The wait for the shipper's last flush raises what ended it, and main ends there.
Abort ==
  /\ main = "stopping" /\ main' = "exited"
  /\ UNCHANGED <<gateVars, inbox, lost, bus, callback, worker, sweeper, toShed,
                 profile, fills, answers, written, faults, raised>>

\* nc.drain: no more deliveries; it ends when the callback has worked the
\* pending queue off, and closes the connection.
Drain ==
  /\ main = "stopping" /\ main' = "draining"
  /\ bus' = "draining"
  /\ UNCHANGED <<gateVars, inbox, lost, callback, worker, sweeper, toShed, profile,
                 fills, answers, written, faults, raised>>

Drained ==
  /\ main = "draining" /\ inbox = <<>> /\ callback = Idle
  /\ main' = "joining"
  /\ bus' = "closed"
  /\ UNCHANGED <<gateVars, inbox, lost, callback, worker, sweeper, toShed, profile,
                 fills, answers, written, faults, raised>>

\* gate.join passes, or its five seconds run out; work.cancel either way.
Exit ==
  /\ main = "joining" /\ main' = "exited"
  /\ UNCHANGED <<gateVars, inbox, lost, bus, callback, worker, sweeper, toShed,
                 profile, fills, answers, written, faults, raised>>

Pass ==
  /\ Alive /\ Tick
  /\ UNCHANGED <<busVars, callback, worker, sweeper, toShed, profile, fills,
                 answers, written, faults, raised>>

-----------------------------------------------------------------------------
Init ==
  /\ GateInit
  /\ inbox = <<>> /\ lost = {}
  /\ callback = Idle
  /\ worker = [step |-> "take"]
  /\ sweeper = "run"
  /\ toShed = [a \in Actors |-> {}]
  /\ profile = Builtin
  /\ fills = [r \in Requests |-> NoFill]
  /\ answers = [r \in Requests |-> <<>>]
  /\ written = [r \in Requests |-> {}]
  /\ bus = "open" /\ main = "running" /\ faults = 0
  /\ raisedOwn = {} /\ raisedMany = {}

CallbackNext == AdmitRaises \/ Admit \/ AdmitResume \/ AdmitShed \/ AdmitRefuse \/ AdmitWrite
WorkerNext == WorkerTake \/ WorkerShed \/ Evaluate \/ Reply \/ Publish \/ Fallback
SweeperNext == SweeperSweep \/ SweeperShed
MainNext == NewGeneration \/ Stop \/ Abort \/ Drain \/ Drained \/ Exit

Next ==
  \/ \E r \in Requests : Arrive(r)
  \/ CallbackNext \/ WorkerNext \/ SweeperNext \/ MainNext \/ Pass

Spec == Init /\ [][Next]_vars

(***************************************************************************)
(* Every coroutine that can go on does: the loop is fair to its tasks, the *)
(* evaluation ends, and time passes. Nobody is made to send a request, to  *)
(* publish a generation or to stop the process.                            *)
(***************************************************************************)
FairSpec ==
  /\ Spec
  /\ WF_vars(CallbackNext) /\ WF_vars(WorkerNext) /\ WF_vars(SweeperNext)
  /\ WF_vars(Pass)

-----------------------------------------------------------------------------
(* Properties *)

Asked == {r \in Requests : \/ stage[r] # "outside" \/ r \in raisedOwn
                           \/ \E i \in DOMAIN inbox : inbox[i] = r}

\* The messages whose content raises nowhere.
Fit == Requests \ (Unpeekable \cup Unquotable \cup Unloggable)

\* A send or a log has failed, a message has ended a shed_many, or main is stopping.
Impaired == faults > 0 \/ raisedMany # {} \/ main # "running"

\* Who has the answer to r still to give.
Holders(r) ==
  {a \in Actors : r \in toShed[a]}
  \cup {h \in {"inbox", "gate", "callback", "worker"} :
          CASE h = "inbox"    -> \E i \in DOMAIN inbox : inbox[i] = r
            [] h = "gate"     -> r \in Queued
            [] h = "callback" -> /\ callback.step \in {"waiting", "limit", "deadline"}
                                 /\ callback.req = r
            [] h = "worker"   -> /\ r \in Hand
                                 /\ worker.step \in {"shed", "evaluate", "respond", "fallback"}}

\* Unanswered, and in somebody's hands.
Owed == {r \in Requests : ~Impaired /\ Holders(r) # {} /\ answers[r] = <<>>}

Outside == INSTANCE Exchange WITH asked <- Asked, impaired <- Impaired, owed <- Owed

Replies == [verdict : DOMAIN Outside!CodesOf, asks : BOOLEAN,
            code : UNION {Outside!CodesOf[v] : v \in DOMAIN Outside!CodesOf}]

\* The shapes of the coroutines' state; the gate's own are GateTypeOK.
InspectorTypeOK ==
  /\ GateTypeOK
  /\ \A i \in DOMAIN inbox : inbox[i] \in Requests
  /\ lost \subseteq Requests
  /\ callback = Idle \/ /\ callback.step \in {"waiting", "queued", "limit", "deadline", "write"}
                        /\ callback.req \in Requests
  /\ worker.step \in {"take", "shed", "evaluate", "respond", "publish", "fallback", "dead"}
  /\ sweeper \in {"run", "dead"}
  /\ toShed \in [Actors -> SUBSET Requests]
  /\ profile \in Profiles \cup {Builtin}
  /\ fills \in [Requests -> 0..100 \cup {NoFill}]
  /\ \A r \in Requests : answers[r] \in Seq(Replies)
  /\ written \in [Requests -> SUBSET {"score", "list"}]
  /\ bus \in {"open", "draining", "closed"}
  /\ main \in {"running", "stopping", "draining", "joining", "exited"}
  /\ faults \in 0..MaxFaults
  /\ raisedOwn \subseteq Requests /\ raisedMany \subseteq Requests

\* A request the inspector has is owed by exactly one coroutine or queue until it
\* is answered, and by none afterwards: however evictions by three coroutines,
\* refusals and the worker interleave, no two answer it, and while nothing has
\* failed nobody drops it but admit over a message that makes admit itself raise.
SoleHolder ==
  /\ \A r \in Requests : Cardinality(Holders(r)) <= 1
  /\ ~Impaired => \A r \in Asked \ raisedOwn :
       /\ answers[r] = <<>> => Cardinality(Holders(r)) = 1
       /\ answers[r] # <<>> /\ r \notin Unloggable => Cardinality(Holders(r)) = 0

\* While nothing has failed the fills dict has an entry for exactly the messages
\* that are on their way through the gate: none starts its evaluation without the
\* fill admit noted, and no entry outlives its message.
FillsOfTheLive ==
  ~Impaired =>
    \A r \in Requests :
      fills[r] # NoFill <=> \/ stage[r] \in {"waiting", "queued"}
                            \/ r \in Hand /\ worker.step = "shed"
                            \/ \E a \in Actors : r \in toShed[a]

\* The list writes of a request belong to the answer that went out before them:
\* none for a request that was shed, broken, off or of an unknown profile, a score
\* row only for a score, muted by observe or spoilt by the directory, and the rows of
\* a full queue only beside an error, never beside the allow of an off profile.
WritesFollowAnswer ==
  \A r \in Requests : written[r] # {} =>
    /\ answers[r] # <<>>
    /\ answers[r][1].code \in
         {"VLAI_SCORE", "VLAI_OBSERVE", "VLAI_GEO_UNAVAILABLE"}
         \cup (IF "score" \in written[r] THEN {}
              ELSE {"VLAI_NO_TEXT", "VLAI_SKIPPED", "VLAI_QUEUE_LIMIT"})
    /\ answers[r][1].code = "VLAI_QUEUE_LIMIT" => answers[r][1].verdict = "error"

\* The inspector keeps the exchange's promise, step by step.
KeepsExchange == Outside!ExchangeSpec

\* Nothing asked of a sound inspector stays without an answer, unless its own
\* content keeps it from one.
EveryRequestReplied == Outside!Replied

\* inspector.conf: "Every path answers". What a running inspector on a sound
\* connection no longer holds, it has answered.
EveryPathAnswers ==
  main = "running" /\ faults = 0 =>
    \A r \in Asked : Holders(r) = {} => answers[r] # <<>>

\* inspector.conf: "Every path answers". When main has closed the bus, what it
\* had accepted is answered.
DrainLeavesNobody ==
  bus = "closed" /\ faults = 0 => \A r \in Asked : answers[r] # <<>>

\* The fill is read before submit evicts and before it waits for room, so it may be
\* that of a fuller queue, never that of an emptier one: no overload row is missed by
\* a request that joins a queue as full as its `at`.
FillNeverTooLow ==
  \A r \in Queued : fills[r] >= (100 * Cardinality(ahead[r])) \div MaxSize
=============================================================================
