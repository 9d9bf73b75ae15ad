-------------------------- MODULE InspectorProofs ---------------------------
(***************************************************************************)
(* main.py uses the gate as the gate is meant to be used: every step of    *)
(* the inspector is a step of the gate or leaves the gate alone. What is   *)
(* proved of the gate in GateProofs therefore holds inside the inspector.  *)
(*                                                                         *)
(* The inductive invariant OwedInv says who owes the answer to a request:  *)
(* it is read off the request's stage in the gate, and one coroutine or    *)
(* queue at a time can be found there. DroppedInv adds that nobody has a   *)
(* message that ended admit over itself. From the two follow the           *)
(* refinement of the abstract Exchange, and what is written to the lists   *)
(* and noted as the fill of a request.                                     *)
(***************************************************************************)
EXTENDS Inspector, GateProofs, SequenceTheorems

\* What the step argument needs of the callback and of the pending queue: they
\* hold requests, and the profile is one the registry can resolve.
CallsInv ==
  /\ inbox \in Seq(Requests)
  /\ callback.step = "waiting" => callback.req \in Requests
  /\ profile \in Profiles \cup {Builtin}

LEMMA OverloadType ==
  ASSUME CallsInv
  PROVE  profile # NoProfile => profile.overload \in {"wait", "shed"}
BY InspectorAssumption DEF CallsInv, ProfileType

LEMMA AdmitCalls ==
  ASSUME CallsInv, Admit
  PROVE  [GateNext]_gateVars /\ CallsInv'
<1> DEFINE r == Head(inbox)
           full == IF profile = NoProfile THEN "shed" ELSE profile.overload
<1>1. r \in Requests /\ inbox' \in Seq(Requests)
  BY HeadTailProperties DEF CallsInv, Admit
<1>2. full \in {"wait", "shed"}
  BY OverloadType
<1>3. PICK b \in Budgets \cup {0} : Submit(r, b, full)
  BY DEF Admit
<1>4. GateNext
  BY <1>1, <1>2, <1>3 DEF GateNext
<1>5. callback' = Idle \/ callback'.req = r
  BY DEF Admit, Submitted
<1> QED
  BY <1>1, <1>4, <1>5 DEF CallsInv, Admit, Submitted, Idle

LEMMA ResumeCalls ==
  ASSUME CallsInv, AdmitResume
  PROVE  [GateNext]_gateVars /\ CallsInv'
<1>1. callback.req \in Requests
  BY DEF CallsInv, AdmitResume
<1>2. GateNext
  BY <1>1 DEF AdmitResume, GateNext
<1>3. callback' = Idle \/ callback'.req = callback.req
  BY DEF AdmitResume, Submitted
<1> QED
  BY <1>1, <1>2, <1>3 DEF CallsInv, AdmitResume, Submitted, Idle, busVars

\* Each action of main.py calls one operation of the gate, or none.
LEMMA NextCalls ==
  ASSUME CallsInv, [Next]_vars
  PROVE  [GateNext]_gateVars /\ CallsInv'
<1>1. ASSUME NEW r \in Requests, Arrive(r)
      PROVE  UNCHANGED gateVars /\ CallsInv'
  <2>1. inbox' \in Seq(Requests)
    BY <1>1 DEF CallsInv, Arrive
  <2> QED
    BY <1>1, <2>1 DEF CallsInv, Arrive
<1>2. CASE Admit \/ AdmitRaises
  <2>1. CASE AdmitRaises
    BY <2>1, HeadTailProperties DEF CallsInv, AdmitRaises
  <2> QED
    BY <1>2, <2>1, AdmitCalls
<1>3. CASE AdmitResume
  BY <1>3, ResumeCalls
<1>4. CASE AdmitShed
  BY <1>4 DEF CallsInv, AdmitShed, busVars, Idle
<1>5. CASE AdmitRefuse
  BY <1>5 DEF CallsInv, AdmitRefuse, busVars, Idle
<1>6. CASE AdmitWrite
  BY <1>6 DEF CallsInv, AdmitWrite, busVars, Idle
<1>7. CASE WorkerTake
  BY <1>7 DEF CallsInv, WorkerTake, busVars, GateNext
<1>8. CASE WorkerShed
  BY <1>8 DEF CallsInv, WorkerShed, busVars
<1>9. CASE Evaluate
  BY <1>9 DEF CallsInv, Evaluate, busVars
<1>10. CASE Reply
  BY <1>10 DEF CallsInv, Reply, busVars
<1>11. CASE Publish
  BY <1>11 DEF CallsInv, Publish, busVars, GateNext, Hand, Taken
<1>12. CASE Fallback
  BY <1>12 DEF CallsInv, Fallback, busVars, GateNext, Hand, Taken
<1>13. CASE SweeperSweep
  BY <1>13 DEF CallsInv, SweeperSweep, busVars, GateNext
<1>14. CASE SweeperShed
  BY <1>14 DEF CallsInv, SweeperShed, busVars
<1>15. CASE MainNext
  BY <1>15 DEF CallsInv, MainNext, NewGeneration, Stop, Abort, Drain, Drained, Exit, busVars
<1>16. CASE Pass
  BY <1>16 DEF CallsInv, Pass, busVars, GateNext
<1>17. CASE UNCHANGED vars
  BY <1>17 DEF CallsInv, vars, busVars
<1> QED
  BY <1>1, <1>2, <1>3, <1>4, <1>5, <1>6, <1>7, <1>8, <1>9, <1>10, <1>11, <1>12,
     <1>13, <1>14, <1>15, <1>16, <1>17
     DEF Next, CallbackNext, WorkerNext, SweeperNext

\* The inspector implements the gate's specification on the gate's variables.
THEOREM InspectorUsesGate == Spec => GateSpec
<1>1. Init => GateInit /\ CallsInv
  BY DEF Init, CallsInv, Idle
<1>2. CallsInv /\ [Next]_vars => [GateNext]_gateVars /\ CallsInv'
  BY NextCalls
<1> QED
  BY <1>1, <1>2, PTL DEF Spec, GateSpec

\* Inside main.py too the deque is bounded, the accounting that join() waits on
\* is exact and the worker never sleeps beside a filled deque.
THEOREM InspectorGateInvariant ==
  Spec => [](CapacityKept /\ AccountingExact /\ WorkerNotStranded)
<1>1. GateInv => CapacityKept /\ AccountingExact /\ WorkerNotStranded
  BY DEF GateInv
<1> QED
  BY <1>1, InspectorUsesGate, GateInvariant, PTL

-----------------------------------------------------------------------------
(* Who owes the answer to a request *)

InInbox(r) == \E i \in DOMAIN inbox : inbox[i] = r

\* The pending queue holds requests the gate has not seen, each once.
InboxInv ==
  /\ \A i \in DOMAIN inbox : stage[inbox[i]] = "outside"
  /\ \A i, j \in DOMAIN inbox : inbox[i] = inbox[j] => i = j

\* An evicted request is in the hands of one coroutine, which stands where it
\* answers such requests, or waits for room before it comes to that.
EvictedInv ==
  /\ toShed \in [Actors -> SUBSET Requests]
  /\ \A a \in Actors : \A r \in toShed[a] : stage[r] = "stale"
  /\ \A a, b \in Actors : \A r \in toShed[a] : r \in toShed[b] => a = b
  /\ toShed[Worker] # {} => worker.step = "shed"
  /\ toShed[Callback] # {} => callback.step \in {"waiting", "queued", "limit", "deadline"}

Resolvable == Profiles \cup {Builtin}

\* The callback stands where its own request does, and nobody else waits for room.
CallbackInv ==
  /\ \/ callback = Idle
     \/ callback \in [step : {"waiting", "queued", "limit", "deadline"},
                      req : Requests, profile : Resolvable]
     \/ callback \in [step : {"write"}, req : Requests]
  /\ callback.step \in {"waiting", "limit", "deadline"} => stage[callback.req] = callback.step
  /\ \A r \in Waiting : callback.step = "waiting" /\ callback.req = r

\* The worker has at most one request, and has one exactly where its task needs it.
WorkerInv ==
  /\ worker.step \in {"take", "shed", "evaluate", "respond", "publish", "fallback", "dead"}
  /\ \A q, r \in Hand : q = r
  /\ worker.step = "take" => Hand = {}
  /\ worker.step \in {"evaluate", "respond", "publish", "fallback"} => Hand # {}
  /\ worker.step = "respond" => worker.reply \in Outside!ProperReplies

\* Whoever still owes an answer has given none; a late internal error is the one
\* exception, and happens only behind a fault or a log line that cannot be written.
AnswersInv ==
  /\ answers \in [Requests -> Seq(Outside!ProperReplies)]
  /\ \A r \in Requests :
       stage[r] \in {"outside", "waiting", "queued"} => answers[r] = <<>>
  /\ \A a \in Actors : \A r \in toShed[a] : answers[r] = <<>>
  /\ callback.step \in {"limit", "deadline"} => answers[callback.req] = <<>>
  /\ \A r \in Hand :
       /\ worker.step \in {"shed", "evaluate", "respond"} => answers[r] = <<>>
       /\ worker.step = "publish" => Len(answers[r]) = 1
       /\ worker.step = "fallback" =>
            answers[r] = <<>> \/ (Len(answers[r]) = 1 /\ (Impaired \/ r \in Unloggable))

\* While nothing has failed and nobody has asked to stop, what left the gate has been
\* answered, or has one who will, or has ended admit by what it carries.
SoundInv ==
  ~Impaired =>
    /\ worker.step # "dead"
    /\ \A r \in Requests :
         /\ stage[r] = "finished" => answers[r] # <<>>
         /\ stage[r] = "stale" => answers[r] # <<>> \/ \E a \in Actors : r \in toShed[a]
         /\ stage[r] \in {"limit", "deadline"} =>
              \/ answers[r] # <<>> \/ r \in raisedOwn
              \/ callback.step = stage[r] /\ callback.req = r

FaultsInv == faults \in Nat /\ (bus = "closed" => main # "running")

OwedInv ==
  /\ StageType /\ CallsInv /\ FaultsInv
  /\ InboxInv /\ EvictedInv /\ CallbackInv /\ WorkerInv /\ AnswersInv /\ SoundInv

-----------------------------------------------------------------------------
(* The evicted *)

\* What an operation evicts joins the evicted of one coroutine.
HandedTo(a) ==
  /\ toShed' \in [Actors -> SUBSET Requests]
  /\ \A b \in Actors : \A q \in toShed'[b] : stage'[q] = "stale"
  /\ \A b, c \in Actors : \A q \in toShed'[b] : q \in toShed'[c] => b = c
  /\ \A b \in Actors : toShed[b] \subseteq toShed'[b] /\ (b # a => toShed'[b] = toShed[b])
  /\ \A b \in Actors : \A q \in toShed'[b] :
       q \in toShed[b] \/ (b = a /\ stage[q] = "queued")
  /\ \A q \in Requests : stage'[q] = "stale" => stage[q] = "stale" \/ q \in toShed'[a]

\* An operation that hands what it evicts to one coroutine keeps the evicted apart,
\* and leaves nobody evicted without one.
LEMMA EvictionHanded ==
  ASSUME StageType, EvictedInv, NEW a \in Actors,
         toShed' = [toShed EXCEPT ![a] = @ \cup Evicted],
         \A q \in Requests : EvictsAtMost(q) \/ (stage[q] # "stale" /\ stage'[q] # "stale")
  PROVE  HandedTo(a)
<1>1. /\ Evicted \subseteq Requests
      /\ \A q \in Evicted : stage[q] = "queued" /\ stage'[q] = "stale"
      /\ \A q \in Requests : stage'[q] = "stale" => stage[q] = "stale" \/ q \in Evicted
  BY DEF Evicted, Queued, EvictsAtMost
<1>2. /\ toShed \in [Actors -> SUBSET Requests]
      /\ \A b \in Actors : \A q \in toShed[b] : stage[q] = "stale"
      /\ \A b, c \in Actors : \A q \in toShed[b] : q \in toShed[c] => b = c
  BY DEF EvictedInv
<1>3. \A b \in Actors : toShed'[b] = IF b = a THEN toShed[a] \cup Evicted ELSE toShed[b]
  BY <1>2
<1>4. toShed' \in [Actors -> SUBSET Requests]
  BY <1>1, <1>2
<1>5. \A b \in Actors : \A q \in toShed'[b] :
        \/ q \in toShed[b] /\ stage[q] = "stale"
        \/ b = a /\ stage[q] = "queued" /\ stage'[q] = "stale"
  BY <1>1, <1>2, <1>3
<1>6. \A q \in Requests : stage[q] = "stale" => stage'[q] = "stale"
  BY DEF EvictsAtMost
<1>7. \A b \in Actors : \A q \in toShed'[b] : stage'[q] = "stale"
  BY <1>4, <1>5, <1>6
<1>8. \A b, c \in Actors : \A q \in toShed'[b] : q \in toShed'[c] => b = c
  BY <1>2, <1>5
<1>9. \A q \in Requests : stage'[q] = "stale" => stage[q] = "stale" \/ q \in toShed'[a]
  BY <1>1, <1>3
<1>10. \A b \in Actors : toShed[b] \subseteq toShed'[b] /\ (b # a => toShed'[b] = toShed[b])
  BY <1>3
<1> QED
  BY <1>4, <1>5, <1>7, <1>8, <1>9, <1>10 DEF HandedTo

LEMMA AppendElements ==
  ASSUME NEW S, NEW s \in Seq(S), NEW e \in S
  PROVE  /\ DOMAIN s = 1..Len(s) /\ Len(s) \in Nat
         /\ DOMAIN Append(s, e) = 1..(Len(s) + 1)
         /\ \A i \in DOMAIN s : Append(s, e)[i] = s[i]
         /\ Append(s, e)[Len(s) + 1] = e
BY AppendProperties, LenProperties

-----------------------------------------------------------------------------
(* The replies *)

LEMMA ErrorReplyProper ==
  ASSUME NEW code \in Outside!CodesOf.error
  PROVE  ErrorReply(code) \in Outside!ProperReplies
BY DEF ErrorReply, Outside!ProperReplies, Outside!CodesOf

LEMMA LimitReplyProper ==
  ASSUME NEW p
  PROVE  LimitReply(p) \in Outside!ProperReplies
BY DEF LimitReply, Outside!ProperReplies, Outside!CodesOf

LEMMA ProperReply ==
  ASSUME NEW v \in {"score", "allow", "error"}, NEW c \in Outside!CodesOf[v], NEW asks \in BOOLEAN,
         asks /\ v = "error" => c = "VLAI_QUEUE_LIMIT"
  PROVE  [verdict |-> v, code |-> c, asks |-> asks] \in Outside!ProperReplies
<1> DEFINE reply == [verdict |-> v, code |-> c, asks |-> asks]
<1>1. v \in DOMAIN Outside!CodesOf
  BY DEF Outside!CodesOf
<1>2. reply \in [verdict : {v}, code : Outside!CodesOf[v], asks : BOOLEAN]
  OBVIOUS
<1> QED
  BY <1>1, <1>2 DEF Outside!ProperReplies

\* What an evaluation may come to, before the overload rows: a plain verdict, or a
\* score with the score rows it fires.
LEMMA EvaluateShape ==
  ASSUME NEW kind \in MessageKinds, NEW p, NEW codes,
         NEW out \in EvaluateMay(kind, p, codes)
  PROVE  \/ \E v \in {"allow", "error"} : \E c \in Outside!CodesOf[v] :
              /\ out = Plain(v, c)
              /\ v = "allow" /\ ~Muted(p) => c \in {"VLAI_NO_TEXT", "VLAI_SKIPPED"}
         \/ \E v \in {"score", "allow"} : \E c \in {"VLAI_SCORE", "VLAI_OBSERVE"} : \E bans \in SUBSET {"score"} :
              /\ c \in Outside!CodesOf[v]
              /\ out = [reply |-> [verdict |-> v, code |-> c, asks |-> FALSE], bans |-> bans]
<1> DEFINE Codes(v) == Outside!CodesOf[v]
<1>1. /\ Codes("score") = {"VLAI_SCORE"}
      /\ {"VLAI_NO_TEXT", "VLAI_SKIPPED", "VLAI_PROFILE_OFF", "VLAI_OBSERVE"} \subseteq Codes("allow")
      /\ {"VLAI_STORE_UNAVAILABLE", "VLAI_UNKNOWN_PROFILE", "VLAI_DEADLINE", "VLAI_UNPARSEABLE",
           "VLAI_UNSUPPORTED_VERSION", "VLAI_PHASE_NOT_SUPPORTED"} \subseteq Codes("error")
  BY DEF Outside!CodesOf
<1> HIDE DEF Codes
<1>2. CASE kind # "sound"
  <2>1. BrokenCodes[kind] \in Codes("error") /\ out = Plain("error", BrokenCodes[kind])
    BY <1>1, <1>2 DEF EvaluateMay, MessageKinds, BrokenCodes
  <2> QED
    BY <2>1 DEF Codes
<1>3. CASE kind = "sound" /\ p = NoProfile
  BY <1>1, <1>3 DEF EvaluateMay, Codes
<1>4. CASE kind = "sound" /\ p # NoProfile /\ p.mode = "off"
  BY <1>1, <1>4 DEF EvaluateMay, Codes, Muted
<1>5. CASE kind = "sound" /\ p # NoProfile /\ p.mode # "off"
  <2> DEFINE observed == p.mode = "observe"
             scored == [verdict |-> IF observed THEN "allow" ELSE "score",
                        code |-> IF observed THEN "VLAI_OBSERVE" ELSE "VLAI_SCORE",
                        asks |-> FALSE]
  <2>1. \/ \E c \in {"VLAI_NO_TEXT", "VLAI_SKIPPED"} : out = Plain("allow", c)
        \/ \E c \in {"VLAI_STORE_UNAVAILABLE", "VLAI_DEADLINE"} : out = Plain("error", c)
        \/ \E bans \in SUBSET {"score"} : out = [reply |-> scored, bans |-> bans]
    BY <1>5 DEF EvaluateMay
  <2> QED
    BY <1>1, <2>1 DEF Codes
<1> QED
  BY <1>2, <1>3, <1>4, <1>5

\* The overload rows and a failing directory leave a proper reply, too, and the rows
\* that are written belong to the reply.
RowsFit(reply, bans) ==
  bans # {} =>
    /\ reply.code \in {"VLAI_SCORE", "VLAI_OBSERVE", "VLAI_GEO_UNAVAILABLE"}
                      \cup (IF "score" \in bans THEN {}
                           ELSE {"VLAI_NO_TEXT", "VLAI_SKIPPED", "VLAI_QUEUE_LIMIT"})
    /\ reply.code = "VLAI_QUEUE_LIMIT" => reply.verdict = "error"

Proper(out) ==
  /\ out.reply \in Outside!ProperReplies
  /\ out.bans \subseteq {"score", "list"}
  /\ RowsFit(out.reply, out.bans)

LEMMA ProperMade ==
  ASSUME NEW v \in {"score", "allow", "error"}, NEW c \in Outside!CodesOf[v], NEW asks \in BOOLEAN,
         asks /\ v = "error" => c = "VLAI_QUEUE_LIMIT",
         NEW bans \in SUBSET {"score", "list"},
         RowsFit([verdict |-> v, code |-> c, asks |-> asks], bans)
  PROVE  Proper([reply |-> [verdict |-> v, code |-> c, asks |-> asks], bans |-> bans])
<1>1. [verdict |-> v, code |-> c, asks |-> asks] \in Outside!ProperReplies
  BY ProperReply
<1> QED
  BY <1>1 DEF Proper

LEMMA OverloadProper ==
  ASSUME NEW kind \in MessageKinds, NEW p, NEW codes, NEW fill,
         NEW out \in EvaluateMay(kind, p, codes)
  PROVE  Proper(WithOverload(out, p, fill))
<1> DEFINE asks == "ask" \in Firing(p, fill)
           fired == ~Muted(p) /\ out.reply.verdict # "error"
<1>0. asks \in BOOLEAN /\ FALSE \in BOOLEAN
  OBVIOUS
<1> HIDE DEF asks
<1>1. ASSUME NEW v \in {"allow", "error"}, NEW c \in Outside!CodesOf[v], out = Plain(v, c),
             v = "allow" /\ ~Muted(p) => c \in {"VLAI_NO_TEXT", "VLAI_SKIPPED"}
      PROVE  Proper(WithOverload(out, p, fill))
  <2>1. CASE ~fired
    <3>1. WithOverload(out, p, fill) = out
      BY <2>1 DEF WithOverload
    <3> QED
      BY <1>0, <1>1, <3>1, ProperMade DEF Plain, RowsFit
  <2>2. CASE fired
    <3>1. v = "allow" /\ c \in {"VLAI_NO_TEXT", "VLAI_SKIPPED"}
      BY <1>1, <2>2 DEF Plain
    <3>2. WithOverload(out, p, fill) = [reply |-> [verdict |-> v, code |-> c, asks |-> asks],
                                        bans |-> Firing(p, fill) \cap {"list"}]
      BY <1>1, <2>2 DEF WithOverload, Plain, asks
    <3>3. RowsFit([verdict |-> v, code |-> c, asks |-> asks], Firing(p, fill) \cap {"list"})
      BY <3>1 DEF RowsFit
    <3> QED
      BY <1>0, <3>1, <3>2, <3>3, ProperMade
  <2> QED
    BY <2>1, <2>2
<1>2. ASSUME NEW v \in {"score", "allow"}, NEW c \in {"VLAI_SCORE", "VLAI_OBSERVE"},
             NEW bans \in SUBSET {"score"}, c \in Outside!CodesOf[v],
             out = [reply |-> [verdict |-> v, code |-> c, asks |-> FALSE], bans |-> bans]
      PROVE  Proper(WithOverload(out, p, fill))
  <2>1. CASE ~fired
    <3>1. WithOverload(out, p, fill) = out
      BY <2>1 DEF WithOverload
    <3>2. RowsFit([verdict |-> v, code |-> c, asks |-> FALSE], bans)
      BY DEF RowsFit
    <3> QED
      BY <1>0, <1>2, <3>1, <3>2, ProperMade
  <2>2. CASE fired
    <3>1. WithOverload(out, p, fill) = [reply |-> [verdict |-> v, code |-> c, asks |-> asks],
                                        bans |-> bans \cup (Firing(p, fill) \cap {"list"})]
      BY <1>2, <2>2 DEF WithOverload, asks
    <3>2. RowsFit([verdict |-> v, code |-> c, asks |-> asks],
                  bans \cup (Firing(p, fill) \cap {"list"}))
      BY DEF RowsFit
    <3> QED
      BY <1>0, <1>2, <3>1, <3>2, ProperMade
  <2> QED
    BY <2>1, <2>2
<1> QED
  BY <1>1, <1>2, EvaluateShape

LEMMA GeoProper ==
  ASSUME NEW out, Proper(out), NEW final \in WithGeo(out)
  PROVE  Proper(final)
<1>1. ErrorReply("VLAI_GEO_UNAVAILABLE") \in Outside!ProperReplies
  BY ErrorReplyProper DEF Outside!CodesOf
<1>2. CASE final = out
  BY <1>2
<1>3. ASSUME NEW kept \in SUBSET out.bans,
             final = [reply |-> ErrorReply("VLAI_GEO_UNAVAILABLE"), bans |-> kept]
      PROVE  Proper(final)
  BY <1>1, <1>3 DEF Proper, RowsFit, ErrorReply
<1> QED
  BY <1>2, <1>3 DEF WithGeo

LEMMA EvaluatedProper ==
  ASSUME NEW r \in Requests, NEW p, NEW fill, NEW out \in Outcomes(r, p),
         NEW final \in WithGeo(WithOverload(out, p, fill))
  PROVE  Proper(final)
<1>1. PICK kind \in MessageKinds : out \in EvaluateMay(kind, p, EngineCodes)
  BY DEF Outcomes, MessageKinds, BrokenCodes
<1> QED
  BY <1>1, OverloadProper, GeoProper

LEMMA RespondedAnswers ==
  ASSUME answers \in [Requests -> Seq(Outside!ProperReplies)], NEW r \in Requests,
         NEW reply \in Outside!ProperReplies, Respond(r, reply)
  PROVE  /\ answers' \in [Requests -> Seq(Outside!ProperReplies)]
         /\ \A q \in Requests \ {r} : answers'[q] = answers[q]
         /\ answers'[r] = Append(answers[r], reply) /\ answers'[r] # <<>>
         /\ Len(answers'[r]) = Len(answers[r]) + 1
<1>1. answers[r] \in Seq(Outside!ProperReplies)
  OBVIOUS
<1> QED
  BY <1>1, AppendProperties DEF Respond

\* A coroutine that a send, a log or a message ends leaves the inspector impaired.
LEMMA RaisesImpairs ==
  ASSUME FaultsInv, Raises, UNCHANGED main
  PROVE  UNCHANGED answers /\ Impaired'
BY DEF FaultsInv, Raises, Fault, Impaired

LEMMA ShedRaisesImpairs ==
  ASSUME FaultsInv, NEW q, ShedRaises(q), UNCHANGED <<main, bus>>
  PROVE  UNCHANGED answers /\ UNCHANGED raisedOwn /\ Impaired' /\ FaultsInv'
<1>1. CASE Raises /\ UNCHANGED raised
  BY <1>1, RaisesImpairs DEF FaultsInv, Raises, Fault, raised
<1>2. CASE raisedMany' = raisedMany \cup {q} /\ UNCHANGED <<answers, faults, raisedOwn>>
  BY <1>2 DEF FaultsInv, Impaired
<1> QED
  BY <1>1, <1>2 DEF ShedRaises

LEMMA OwnRaisesDrops ==
  ASSUME FaultsInv, NEW r, OwnRaises(r), UNCHANGED <<main, bus>>
  PROVE  /\ UNCHANGED answers /\ FaultsInv' /\ (Impaired => Impaired')
         /\ \/ Impaired' /\ UNCHANGED raisedOwn
            \/ /\ r \in Unquotable /\ raisedOwn' = raisedOwn \cup {r}
               /\ Impaired' = Impaired
<1>1. CASE Raises /\ UNCHANGED raised
  BY <1>1, RaisesImpairs DEF FaultsInv, Raises, Fault, raised
<1>2. CASE /\ r \in Unquotable /\ raisedOwn' = raisedOwn \cup {r}
           /\ UNCHANGED <<answers, faults, raisedMany>>
  BY <1>2 DEF FaultsInv, Impaired
<1> QED
  BY <1>1, <1>2 DEF OwnRaises

-----------------------------------------------------------------------------
(* Each action keeps OwedInv *)

LEMMA ArriveOwed ==
  ASSUME OwedInv, NEW r \in Requests, Arrive(r)
  PROVE  OwedInv'
<1>1. StageType' /\ CallsInv' /\ FaultsInv' /\ CallbackInv' /\ WorkerInv'
  <2>1. CallsInv'
    BY NextCalls DEF OwedInv, Next
  <2> QED
    BY <2>1 DEF OwedInv, Arrive, gateVars, StageType, FaultsInv, CallbackInv, Waiting, WorkerInv,
                Hand, Taken
<1>2. InboxInv'
  <2>1. CASE inbox' = inbox
    BY <2>1 DEF OwedInv, Arrive, gateVars, InboxInv
  <2>2. CASE inbox' = Append(inbox, r)
    <3>1. /\ inbox \in Seq(Requests)
          /\ \A i \in DOMAIN inbox : inbox[i] # r /\ stage[inbox[i]] = "outside"
          /\ \A i, j \in DOMAIN inbox : inbox[i] = inbox[j] => i = j
      BY DEF OwedInv, InboxInv, CallsInv, Arrive
    <3>2. /\ DOMAIN inbox' = 1..(Len(inbox) + 1) /\ DOMAIN inbox = 1..Len(inbox)
          /\ Len(inbox) \in Nat /\ inbox'[Len(inbox) + 1] = r
          /\ \A i \in DOMAIN inbox : inbox'[i] = inbox[i]
      BY <2>2, <3>1, AppendElements
    <3>3. \A i \in DOMAIN inbox' : i \in DOMAIN inbox \/ i = Len(inbox) + 1
      <4> SUFFICES ASSUME NEW i \in 1..(Len(inbox) + 1) PROVE i \in 1..Len(inbox) \/ i = Len(inbox) + 1
        BY <3>2
      <4> QED
        BY <3>2
    <3> QED
      BY <3>1, <3>2, <3>3 DEF InboxInv, Arrive, gateVars
  <2> QED
    BY <2>1, <2>2 DEF Arrive
<1>3. EvictedInv' /\ AnswersInv' /\ SoundInv'
  BY DEF OwedInv, Arrive, gateVars, raised, EvictedInv, AnswersInv, SoundInv, Hand, Taken, Impaired
<1> QED
  BY <1>1, <1>2, <1>3 DEF OwedInv

\* The pending queue without its first.
LEMMA TailInbox ==
  ASSUME OwedInv, inbox # <<>>, inbox' = Tail(inbox)
  PROVE  /\ Head(inbox) \in Requests /\ inbox' \in Seq(Requests)
         /\ DOMAIN inbox' \subseteq Int
         /\ \A i \in DOMAIN inbox' : /\ i + 1 \in DOMAIN inbox /\ inbox'[i] = inbox[i + 1]
                                     /\ inbox[i + 1] \in Requests \ {Head(inbox)}
BY HeadTailProperties, LenProperties, ElementOfSeq DEF OwedInv, CallsInv, InboxInv

\* A message that ends admit before submit leaves the pending queue and nothing else.
LEMMA AdmitRaisesOwed ==
  ASSUME OwedInv, AdmitRaises
  PROVE  OwedInv'
<1>1. /\ UNCHANGED <<stage, callback, worker, answers, faults, main, bus, toShed, raisedMany>>
      /\ inbox # <<>> /\ inbox' = Tail(inbox) /\ raisedOwn \subseteq raisedOwn'
  BY DEF AdmitRaises, gateVars
<1>2. CallsInv'
  BY NextCalls DEF OwedInv, Next, CallbackNext
<1>3. InboxInv'
  <2>1. ASSUME NEW i \in DOMAIN inbox' PROVE stage'[inbox'[i]] = "outside"
    BY <1>1, <2>1, TailInbox DEF OwedInv, InboxInv
  <2>2. ASSUME NEW i \in DOMAIN inbox', NEW j \in DOMAIN inbox', inbox'[i] = inbox'[j] PROVE i = j
    BY <1>1, <2>2, TailInbox DEF OwedInv, InboxInv
  <2> QED
    BY <2>1, <2>2 DEF InboxInv
<1>4. StageType' /\ FaultsInv' /\ WorkerInv' /\ CallbackInv' /\ EvictedInv'
  BY <1>1 DEF OwedInv, StageType, FaultsInv, WorkerInv, CallbackInv, EvictedInv, Waiting, Hand, Taken
<1>5. AnswersInv' /\ SoundInv'
  BY <1>1 DEF OwedInv, AnswersInv, SoundInv, Impaired, Hand, Taken
<1> QED
  BY <1>2, <1>3, <1>4, <1>5 DEF OwedInv

LEMMA AdmitOwed ==
  ASSUME OwedInv, Admit
  PROVE  OwedInv'
<1> DEFINE r == Head(inbox)
<1>1. CallsInv'
  BY AdmitCalls DEF OwedInv
<1>2. r \in Requests /\ \E i \in DOMAIN inbox : inbox[i] = r
  BY HeadTailProperties, LenProperties DEF OwedInv, CallsInv, Admit
<1>3. /\ StageType' /\ stage[r] = "outside"
      /\ stage'[r] \in {"waiting", "queued", "limit", "deadline"}
      /\ \A q \in Requests \ {r} : EvictsAtMost(q)
  BY <1>2, SubmitStage DEF OwedInv, Admit
<1>4. FaultsInv' /\ WorkerInv'
  BY <1>2, <1>3 DEF OwedInv, Admit, Submitted, FaultsInv, WorkerInv, Hand, Taken, EvictsAtMost
<1>5. InboxInv'
  <2>1. /\ DOMAIN inbox' \subseteq Int
        /\ \A i \in DOMAIN inbox' : /\ i + 1 \in DOMAIN inbox /\ inbox'[i] = inbox[i + 1]
                                    /\ inbox[i + 1] \in Requests \ {r}
    BY HeadTailProperties, LenProperties, ElementOfSeq DEF OwedInv, CallsInv, InboxInv, Admit
  <2>2. ASSUME NEW i \in DOMAIN inbox' PROVE stage'[inbox'[i]] = "outside"
    BY <1>3, <2>1, <2>2 DEF OwedInv, InboxInv, EvictsAtMost
  <2>3. ASSUME NEW i \in DOMAIN inbox', NEW j \in DOMAIN inbox', inbox'[i] = inbox'[j] PROVE i = j
    BY <2>1, <2>3 DEF OwedInv, InboxInv
  <2> QED
    BY <2>2, <2>3 DEF InboxInv
<1>6. HandedTo(Callback)
  BY <1>2, <1>3, EvictionHanded DEF OwedInv, Admit, Submitted, Actors
<1>7. EvictedInv'
  BY <1>2, <1>3, <1>6, InspectorAssumption
     DEF OwedInv, EvictedInv, HandedTo, Admit, Submitted, Actors, Idle
<1>8. CallbackInv'
  <2>1. callback' = Idle \/ callback' = [step |-> stage'[r], req |-> r, profile |-> profile]
    BY DEF Admit, Submitted
  <2>2. stage'[r] # "queued" => callback' = [step |-> stage'[r], req |-> r, profile |-> profile]
    BY DEF Admit, Submitted
  <2>3. profile \in Resolvable
    BY DEF OwedInv, CallsInv, Resolvable
  <2>4. \/ callback' = Idle
        \/ callback' \in [step : {"waiting", "queued", "limit", "deadline"},
                          req : Requests, profile : Resolvable]
    BY <1>2, <1>3, <2>1, <2>3
  <2>5. callback'.step \in {"waiting", "limit", "deadline"} => stage'[callback'.req] = callback'.step
    BY <2>1 DEF Idle
  <2>6. \A q \in Requests \ {r} : stage'[q] # "waiting"
    <3>1. Waiting = {}
      BY DEF OwedInv, CallbackInv, Admit, Idle
    <3> QED
      BY <1>3, <3>1 DEF EvictsAtMost, Waiting
  <2>7. \A q \in Waiting' : callback'.step = "waiting" /\ callback'.req = q
    BY <2>2, <2>6 DEF Waiting
  <2> QED
    BY <2>4, <2>5, <2>7 DEF CallbackInv
<1>9. AnswersInv'
  <2>1. \A a \in Actors : \A q \in toShed'[a] : answers[q] = <<>>
    BY <1>6 DEF OwedInv, AnswersInv, HandedTo
  <2>2. \A q \in Hand' : q \in Hand
    BY <1>2, <1>3 DEF EvictsAtMost, Hand, Taken
  <2>3. callback'.step \in {"limit", "deadline"} => answers[callback'.req] = <<>>
    BY <1>2, <1>3 DEF OwedInv, AnswersInv, Admit, Submitted, Idle
  <2>4. \A q \in Requests :
          stage'[q] \in {"outside", "waiting", "queued"} => answers[q] = <<>>
    BY <1>2, <1>3 DEF OwedInv, AnswersInv, EvictsAtMost
  <2> QED
    BY <2>1, <2>2, <2>3, <2>4 DEF OwedInv, AnswersInv, Admit, Submitted, Impaired, raised
<1>10. SoundInv'
  BY <1>2, <1>3, <1>6
     DEF OwedInv, SoundInv, HandedTo, Admit, Submitted, EvictsAtMost, Impaired, Actors, Idle, raised
<1> QED
  BY <1>1, <1>3, <1>4, <1>5, <1>7, <1>8, <1>9, <1>10 DEF OwedInv

LEMMA ResumeOwed ==
  ASSUME OwedInv, AdmitResume
  PROVE  OwedInv'
<1> DEFINE r == callback.req
<1>1. CallsInv'
  BY ResumeCalls DEF OwedInv
<1>2. r \in Requests /\ callback.profile \in Resolvable
  BY DEF OwedInv, CallbackInv, Idle, AdmitResume
<1>3. /\ StageType' /\ stage[r] = "waiting"
      /\ stage'[r] \in {"waiting", "queued", "deadline"}
      /\ \A q \in Requests \ {r} : EvictsAtMost(q)
  BY <1>2, ResumeStage DEF OwedInv, AdmitResume
<1>4. FaultsInv' /\ WorkerInv'
  BY <1>2, <1>3
     DEF OwedInv, AdmitResume, Submitted, busVars, FaultsInv, WorkerInv, Hand, Taken, EvictsAtMost
<1>5. InboxInv'
  <2>1. \A i \in DOMAIN inbox : inbox[i] \in Requests
    BY LenProperties, ElementOfSeq DEF OwedInv, CallsInv
  <2> QED
    BY <1>3, <2>1 DEF OwedInv, InboxInv, AdmitResume, busVars, EvictsAtMost
<1>6. HandedTo(Callback)
  BY <1>2, <1>3, EvictionHanded DEF OwedInv, AdmitResume, Submitted, Actors
<1>7. EvictedInv'
  BY <1>2, <1>3, <1>6, InspectorAssumption
     DEF OwedInv, EvictedInv, HandedTo, AdmitResume, Submitted, Actors, Idle
<1>8. CallbackInv'
  BY <1>2, <1>3
     DEF OwedInv, CallbackInv, AdmitResume, Submitted, EvictsAtMost, Waiting, Idle
<1>9. AnswersInv'
  <2>1. \A a \in Actors : \A q \in toShed'[a] : answers[q] = <<>>
    BY <1>6 DEF OwedInv, AnswersInv, HandedTo
  <2>2. \A q \in Hand' : q \in Hand
    BY <1>2, <1>3 DEF EvictsAtMost, Hand, Taken
  <2>3. callback'.step \in {"limit", "deadline"} => answers[callback'.req] = <<>>
    BY <1>2, <1>3 DEF OwedInv, AnswersInv, AdmitResume, Submitted, Idle
  <2>4. \A q \in Requests :
          stage'[q] \in {"outside", "waiting", "queued"} => answers[q] = <<>>
    BY <1>2, <1>3 DEF OwedInv, AnswersInv, EvictsAtMost
  <2> QED
    BY <2>1, <2>2, <2>3, <2>4 DEF OwedInv, AnswersInv, AdmitResume, Submitted, busVars, Impaired, raised
<1>10. SoundInv'
  BY <1>2, <1>3, <1>6
     DEF OwedInv, SoundInv, HandedTo, AdmitResume, Submitted, busVars, EvictsAtMost, Impaired,
         Actors, Idle, raised
<1> QED
  BY <1>1, <1>3, <1>4, <1>5, <1>7, <1>8, <1>9, <1>10 DEF OwedInv

\* A coroutine answers one of its evicted, or gives them up when the send raises.
LEMMA AdmitShedOwed ==
  ASSUME OwedInv, AdmitShed
  PROVE  OwedInv'
<1>1. StageType' /\ CallsInv' /\ FaultsInv' /\ InboxInv' /\ WorkerInv'
  <2>1. CallsInv'
    BY NextCalls DEF OwedInv, Next, CallbackNext
  <2>2. FaultsInv'
    BY ShedRaisesImpairs DEF OwedInv, AdmitShed, Quote, Respond, busVars, FaultsInv
  <2>3. StageType' /\ InboxInv' /\ WorkerInv'
    BY DEF OwedInv, AdmitShed, gateVars, busVars, StageType, InboxInv, WorkerInv, Hand, Taken
  <2> QED
    BY <2>1, <2>2, <2>3
<1>2. PICK q \in toShed[Callback] :
        \/ /\ Quote(q, ErrorReply("VLAI_DEADLINE"))
           /\ toShed' = [toShed EXCEPT ![Callback] = @ \ {q}]
           /\ callback' = IF callback.step = "queued" /\ toShed'[Callback] = {}
                            THEN Idle ELSE callback
        \/ /\ ShedRaises(q)
           /\ toShed' = [toShed EXCEPT ![Callback] = {}]
           /\ callback' = Idle
  BY DEF AdmitShed
<1>3. q \in Requests /\ stage[q] = "stale"
  BY DEF OwedInv, EvictedInv, Actors
<1>4. ErrorReply("VLAI_DEADLINE") \in Outside!ProperReplies
  BY ErrorReplyProper DEF Outside!CodesOf
<1>5. UNCHANGED stage /\ UNCHANGED worker /\ callback.step \in {"queued", "limit", "deadline"}
      /\ UNCHANGED <<bus, main>>
  BY DEF AdmitShed, gateVars, busVars
<1>6. CallbackInv'
  BY <1>2, <1>5 DEF OwedInv, CallbackInv, Waiting, Idle
<1>7. CASE /\ Quote(q, ErrorReply("VLAI_DEADLINE"))
           /\ toShed' = [toShed EXCEPT ![Callback] = @ \ {q}]
           /\ callback' = IF callback.step = "queued" /\ toShed'[Callback] = {}
                            THEN Idle ELSE callback
  <2>0. Respond(q, ErrorReply("VLAI_DEADLINE")) /\ UNCHANGED <<raisedOwn, raisedMany>>
    BY <1>7 DEF Quote, raised
  <2>1. EvictedInv'
    BY <1>2, <1>5, <1>7, InspectorAssumption DEF OwedInv, EvictedInv, Actors, Idle
  <2>2. /\ answers' \in [Requests -> Seq(Outside!ProperReplies)] /\ answers'[q] # <<>>
        /\ \A p \in Requests \ {q} : answers'[p] = answers[p]
    BY <1>3, <1>4, <2>0, RespondedAnswers DEF OwedInv, AnswersInv
  <2>3. AnswersInv'
    BY <1>3, <1>5, <1>7, <2>0, <2>2
       DEF OwedInv, AnswersInv, EvictedInv, Actors, Hand, Taken, Impaired, Respond, Idle, CallbackInv
  <2>4. SoundInv'
    <3>1. (Impaired' <=> Impaired) /\ UNCHANGED raisedOwn
      BY <1>5, <2>0 DEF Impaired, Respond
    <3>2. \A p \in Requests : answers[p] # <<>> => answers'[p] # <<>>
      BY <2>2
    <3>3. \A a \in Actors : \A p \in toShed[a] : p \in toShed'[a] \/ p = q
      BY <1>7 DEF OwedInv, EvictedInv
    <3>4. callback.step \in {"limit", "deadline"} => callback' = callback
      BY <1>7
    <3> QED
      BY <1>5, <2>2, <3>1, <3>2, <3>3, <3>4 DEF OwedInv, SoundInv
  <2> QED
    BY <1>1, <1>6, <2>1, <2>3, <2>4 DEF OwedInv
<1>8. CASE ShedRaises(q) /\ toShed' = [toShed EXCEPT ![Callback] = {}] /\ callback' = Idle
  <2>1. EvictedInv'
    BY <1>5, <1>8, InspectorAssumption DEF OwedInv, EvictedInv, Actors, Idle
  <2>2. Impaired' /\ UNCHANGED answers
    BY <1>5, <1>8, ShedRaisesImpairs DEF OwedInv
  <2>3. AnswersInv'
    BY <1>5, <1>8, <2>2 DEF OwedInv, AnswersInv, EvictedInv, Actors, Hand, Taken, Idle
  <2> QED
    BY <1>1, <1>6, <2>1, <2>2, <2>3 DEF OwedInv, SoundInv
<1> QED
  BY <1>2, <1>7, <1>8

LEMMA AdmitRefuseOwed ==
  ASSUME OwedInv, AdmitRefuse
  PROVE  OwedInv'
<1> DEFINE r == callback.req
           reply == IF callback.step = "limit" THEN LimitReply(callback.profile)
                                               ELSE ErrorReply("VLAI_DEADLINE")
<1>1. StageType' /\ CallsInv' /\ FaultsInv' /\ InboxInv' /\ WorkerInv'
  <2>1. CallsInv'
    BY NextCalls DEF OwedInv, Next, CallbackNext
  <2>2. FaultsInv'
    BY OwnRaisesDrops DEF OwedInv, AdmitRefuse, Quote, Respond, busVars, FaultsInv
  <2>3. StageType' /\ InboxInv' /\ WorkerInv'
    BY DEF OwedInv, AdmitRefuse, gateVars, busVars, StageType, InboxInv, WorkerInv, Hand, Taken
  <2> QED
    BY <2>1, <2>2, <2>3
<1>2. /\ callback.step \in {"limit", "deadline"} /\ toShed[Callback] = {}
      /\ r \in Requests /\ stage[r] = callback.step
      /\ UNCHANGED <<stage, bus, main, worker, toShed>>
      /\ callback' = Idle \/ callback' = [step |-> "write", req |-> r]
  BY DEF OwedInv, CallbackInv, Idle, AdmitRefuse, gateVars, busVars
<1>3. EvictedInv' /\ CallbackInv'
  BY <1>2 DEF OwedInv, EvictedInv, CallbackInv, Waiting, Idle
<1>4. CASE Quote(r, reply)
  <2>0. Respond(r, reply) /\ UNCHANGED <<raisedOwn, raisedMany>>
    BY <1>4 DEF Quote, raised
  <2>1. reply \in Outside!ProperReplies
    <3>1. "VLAI_DEADLINE" \in Outside!CodesOf.error
      BY DEF Outside!CodesOf
    <3> QED
      BY <3>1, ErrorReplyProper, LimitReplyProper
  <2>2. /\ answers' \in [Requests -> Seq(Outside!ProperReplies)] /\ answers'[r] # <<>>
        /\ \A p \in Requests \ {r} : answers'[p] = answers[p]
    BY <1>2, <2>0, <2>1, RespondedAnswers DEF OwedInv, AnswersInv
  <2>3. AnswersInv'
    BY <1>2, <2>0, <2>2
       DEF OwedInv, AnswersInv, EvictedInv, Hand, Taken, Impaired, Respond, Idle
  <2>4. SoundInv'
    BY <1>2, <2>0, <2>2 DEF OwedInv, SoundInv, Impaired, Respond
  <2> QED
    BY <1>1, <1>3, <2>3, <2>4 DEF OwedInv
<1>5. CASE OwnRaises(r) /\ callback' = Idle
  <2>1. /\ UNCHANGED answers /\ (Impaired => Impaired')
        /\ \/ Impaired' /\ UNCHANGED raisedOwn
           \/ raisedOwn' = raisedOwn \cup {r} /\ Impaired' = Impaired
    BY <1>2, <1>5, OwnRaisesDrops DEF OwedInv
  <2>2. AnswersInv'
    BY <1>2, <1>5, <2>1 DEF OwedInv, AnswersInv, Hand, Taken, Idle
  <2>3. SoundInv'
    BY <1>2, <1>5, <2>1 DEF OwedInv, SoundInv
  <2> QED
    BY <1>1, <1>3, <2>2, <2>3 DEF OwedInv
<1> QED
  BY <1>4, <1>5 DEF AdmitRefuse

LEMMA AdmitWriteOwed ==
  ASSUME OwedInv, AdmitWrite
  PROVE  OwedInv'
<1>1. CallsInv'
  BY NextCalls DEF OwedInv, Next, CallbackNext
<1>2. /\ UNCHANGED <<stage, inbox, bus, main, worker, toShed, answers, faults, raisedOwn, raisedMany>>
      /\ callback' = Idle /\ callback.step = "write"
  BY DEF AdmitWrite, gateVars, busVars, raised
<1>3. EvictedInv' /\ CallbackInv' /\ AnswersInv' /\ SoundInv'
  BY <1>2 DEF OwedInv, EvictedInv, CallbackInv, AnswersInv, SoundInv, Waiting, Hand, Taken,
              Impaired, Idle
<1> QED
  BY <1>1, <1>2, <1>3 DEF OwedInv, StageType, FaultsInv, InboxInv, WorkerInv, Hand, Taken

LEMMA WorkerTakeOwed ==
  ASSUME OwedInv, WorkerTake
  PROVE  OwedInv'
<1>1. CallsInv'
  BY NextCalls DEF OwedInv, Next, WorkerNext
<1>2. /\ StageType' /\ Taken = {}
      /\ \A q \in Requests : EvictsAtMost(q) \/ (stage[q] = "queued" /\ stage'[q] = "taken")
      /\ \A q, r \in Taken' : q = r
  BY TakeStage DEF OwedInv, WorkerTake
<1>3. /\ worker.step = "take" /\ toShed[Worker] = {}
      /\ UNCHANGED <<inbox, bus, main, callback, answers, faults, raisedOwn, raisedMany>>
      /\ toShed' = [toShed EXCEPT ![Worker] = @ \cup Evicted]
      /\ \/ Evicted = {} /\ Hand' # {} /\ worker'.step = "evaluate"
         \/ Evicted = {} /\ Hand' = {} /\ worker'.step = "take"
         \/ Evicted # {} /\ worker'.step = "shed"
  <2>1. worker.step = "take" /\ toShed[Worker] = {} /\ toShed' = [toShed EXCEPT ![Worker] = Evicted]
    BY DEF OwedInv, EvictedInv, WorkerTake
  <2>2. \/ Evicted = {} /\ Hand' # {} /\ worker'.step = "evaluate"
        \/ Evicted = {} /\ Hand' = {} /\ worker'.step = "take"
        \/ Evicted # {} /\ worker'.step = "shed"
    BY DEF WorkerTake, StartProcess
  <2> QED
    BY <2>1, <2>2 DEF WorkerTake, busVars, raised
<1>4. HandedTo(Worker)
  BY <1>2, <1>3, EvictionHanded DEF OwedInv, Actors
<1>5. FaultsInv' /\ InboxInv' /\ WorkerInv' /\ CallbackInv'
  <2>1. \A i \in DOMAIN inbox : inbox[i] \in Requests
    BY LenProperties, ElementOfSeq DEF OwedInv, CallsInv
  <2>2. FaultsInv' /\ InboxInv'
    BY <1>2, <1>3, <2>1 DEF OwedInv, FaultsInv, InboxInv, EvictsAtMost
  <2>3. WorkerInv'
    BY <1>2, <1>3 DEF WorkerInv, Hand
  <2>4. CallbackInv'
    BY <1>2, <1>3 DEF OwedInv, CallbackInv, Waiting, EvictsAtMost, Idle
  <2> QED
    BY <2>2, <2>3, <2>4
<1>6. EvictedInv'
  <2>1. toShed'[Worker] # {} => worker'.step = "shed"
    BY <1>3 DEF OwedInv, EvictedInv, Actors
  <2> QED
    BY <1>3, <1>4, <2>1, InspectorAssumption DEF OwedInv, EvictedInv, HandedTo, Actors
<1>7. AnswersInv'
  <2>1. \A a \in Actors : \A q \in toShed'[a] : answers[q] = <<>>
    BY <1>4 DEF OwedInv, AnswersInv, HandedTo
  <2>2. \A q \in Hand' : answers[q] = <<>>
    BY <1>2 DEF OwedInv, AnswersInv, EvictsAtMost, Hand, Taken
  <2>3. \A q \in Requests :
          stage'[q] \in {"outside", "waiting", "queued"} => answers[q] = <<>>
    BY <1>2 DEF OwedInv, AnswersInv, EvictsAtMost
  <2> QED
    BY <1>3, <2>1, <2>2, <2>3 DEF OwedInv, AnswersInv
<1>8. SoundInv'
  BY <1>2, <1>3, <1>4 DEF OwedInv, SoundInv, HandedTo, EvictsAtMost, Impaired, Actors
<1> QED
  BY <1>1, <1>2, <1>5, <1>6, <1>7, <1>8 DEF OwedInv

LEMMA WorkerShedOwed ==
  ASSUME OwedInv, WorkerShed
  PROVE  OwedInv'
<1>1. CallsInv' /\ FaultsInv'
  <2>1. CallsInv'
    BY NextCalls DEF OwedInv, Next, WorkerNext
  <2>2. FaultsInv'
    BY ShedRaisesImpairs DEF OwedInv, WorkerShed, Quote, Respond, busVars, FaultsInv
  <2> QED
    BY <2>1, <2>2
<1>2. worker.step = "shed" /\ UNCHANGED <<stage, inbox, bus, main, callback>>
  BY DEF WorkerShed, gateVars, busVars
<1>3. PICK q \in toShed[Worker] :
        \/ /\ Quote(q, ErrorReply("VLAI_DEADLINE"))
           /\ toShed' = [toShed EXCEPT ![Worker] = @ \ {q}]
           /\ \/ toShed'[Worker] = {} /\ Hand # {} /\ worker'.step = "evaluate"
              \/ toShed'[Worker] = {} /\ Hand = {} /\ worker'.step = "take"
              \/ toShed'[Worker] # {} /\ worker'.step = "shed"
        \/ /\ ShedRaises(q)
           /\ toShed' = [toShed EXCEPT ![Worker] = {}]
           /\ worker'.step = "dead"
  BY DEF WorkerShed, StartProcess
<1>4. q \in Requests /\ stage[q] = "stale"
  BY DEF OwedInv, EvictedInv, Actors
<1>5. StageType' /\ InboxInv' /\ WorkerInv' /\ CallbackInv'
  BY <1>2, <1>3 DEF OwedInv, StageType, InboxInv, WorkerInv, CallbackInv, Waiting, Hand, Taken
<1>6. EvictedInv'
  BY <1>2, <1>3, InspectorAssumption DEF OwedInv, EvictedInv, Actors
<1>7. CASE /\ Quote(q, ErrorReply("VLAI_DEADLINE"))
           /\ toShed' = [toShed EXCEPT ![Worker] = @ \ {q}]
           /\ worker'.step \in {"evaluate", "take", "shed"}
  <2>0. Respond(q, ErrorReply("VLAI_DEADLINE")) /\ UNCHANGED <<raisedOwn, raisedMany>>
    BY <1>7 DEF Quote, raised
  <2>1. ErrorReply("VLAI_DEADLINE") \in Outside!ProperReplies
    BY ErrorReplyProper DEF Outside!CodesOf
  <2>2. /\ answers' \in [Requests -> Seq(Outside!ProperReplies)] /\ answers'[q] # <<>>
        /\ \A p \in Requests \ {q} : answers'[p] = answers[p]
    BY <1>4, <2>0, <2>1, RespondedAnswers DEF OwedInv, AnswersInv
  <2>3. worker'.step \in {"evaluate", "take", "shed"}
    BY <1>7
  <2>4. AnswersInv'
    <3>1. callback.step \in {"limit", "deadline"} =>
            callback.req \in Requests /\ callback.req # q
      BY <1>4 DEF OwedInv, CallbackInv, Idle
    <3>2. \A a \in Actors : \A p \in toShed'[a] : p \in toShed[a] /\ p # q
      BY <1>7 DEF OwedInv, EvictedInv, Actors
    <3>3. \A p \in Hand : p # q /\ p \in Requests /\ answers[p] = <<>>
      BY <1>2, <1>4 DEF OwedInv, AnswersInv, Hand, Taken
    <3>4. \A a \in Actors : \A p \in toShed'[a] : answers'[p] = <<>>
      BY <2>2, <3>2 DEF OwedInv, EvictedInv, AnswersInv
    <3>5. /\ \A p \in Hand' : answers'[p] = <<>>
          /\ callback'.step \in {"limit", "deadline"} => answers'[callback'.req] = <<>>
      BY <1>2, <2>2, <3>1, <3>3 DEF OwedInv, AnswersInv, Hand, Taken
    <3>6. \A p \in Requests :
            stage'[p] \in {"outside", "waiting", "queued"} => answers'[p] = <<>>
      BY <1>2, <1>4, <2>2 DEF OwedInv, AnswersInv
    <3> QED
      BY <2>2, <2>3, <3>4, <3>5, <3>6 DEF AnswersInv
  <2>5. SoundInv'
    <3>1. (Impaired' <=> Impaired) /\ UNCHANGED raisedOwn
      BY <1>2, <2>0 DEF Impaired, Respond
    <3>2. \A p \in Requests : answers[p] # <<>> => answers'[p] # <<>>
      BY <2>2
    <3>3. \A a \in Actors : \A p \in toShed[a] : p \in toShed'[a] \/ p = q
      BY <1>7 DEF OwedInv, EvictedInv
    <3> QED
      BY <1>2, <2>2, <2>3, <3>1, <3>2, <3>3 DEF OwedInv, SoundInv
  <2> QED
    BY <1>1, <1>5, <1>6, <2>4, <2>5 DEF OwedInv
<1>8. CASE ShedRaises(q) /\ toShed' = [toShed EXCEPT ![Worker] = {}] /\ worker'.step = "dead"
  <2>1. Impaired' /\ UNCHANGED answers
    BY <1>2, <1>8, ShedRaisesImpairs DEF OwedInv
  <2>2. AnswersInv'
    BY <1>2, <1>8, <2>1 DEF OwedInv, AnswersInv, EvictedInv, Actors, Hand, Taken
  <2> QED
    BY <1>1, <1>5, <1>6, <2>1, <2>2 DEF OwedInv, SoundInv
<1> QED
  BY <1>3, <1>7, <1>8

LEMMA EvaluateOwed ==
  ASSUME OwedInv, Evaluate
  PROVE  OwedInv'
<1>1. CallsInv'
  BY NextCalls DEF OwedInv, Next, WorkerNext
<1>2. /\ worker.step = "evaluate" /\ Hand # {}
      /\ UNCHANGED <<stage, inbox, bus, main, callback, toShed, answers, faults, raisedOwn,
                   raisedMany>>
  BY DEF Evaluate, gateVars, busVars, raised
<1>3. \/ worker'.step = "respond" /\ worker'.reply \in Outside!ProperReplies
      \/ worker'.step = "fallback"
  BY EvaluatedProper DEF Evaluate, Hand, Taken, Proper
<1>4. StageType' /\ FaultsInv' /\ InboxInv' /\ EvictedInv' /\ CallbackInv'
  BY <1>2, <1>3 DEF OwedInv, StageType, FaultsInv, InboxInv, EvictedInv, CallbackInv, Waiting
<1>5. WorkerInv'
  BY <1>2, <1>3 DEF OwedInv, WorkerInv, Hand, Taken
<1>6. AnswersInv' /\ SoundInv'
  BY <1>2, <1>3 DEF OwedInv, AnswersInv, SoundInv, Impaired, Hand, Taken
<1> QED
  BY <1>1, <1>4, <1>5, <1>6 DEF OwedInv

\* The one request in hand, when the worker's task is about one.
LEMMA InHand ==
  ASSUME OwedInv, NEW r \in Hand
  PROVE  /\ r \in Requests /\ stage[r] = "taken" /\ \A q \in Hand : q = r
         /\ \A a \in Actors : r \notin toShed[a]
         /\ callback.step \in {"limit", "deadline"} => callback.req \in Requests \ {r}
BY DEF OwedInv, WorkerInv, EvictedInv, CallbackInv, Hand, Taken, Idle

LEMMA ReplyOwed ==
  ASSUME OwedInv, Reply
  PROVE  OwedInv'
<1>1. CallsInv' /\ FaultsInv'
  <2>1. CallsInv'
    BY NextCalls DEF OwedInv, Next, WorkerNext
  <2>2. FaultsInv'
    BY DEF OwedInv, Reply, Quote, Respond, Raises, Fault, busVars, FaultsInv
  <2> QED
    BY <2>1, <2>2
<1>2. /\ worker.step = "respond"
      /\ UNCHANGED <<stage, inbox, bus, main, callback, toShed, raisedOwn, raisedMany>>
  BY DEF Reply, Quote, gateVars, busVars, raised
<1>3. PICK r \in Hand : \/ Respond(r, worker.reply) /\ worker'.step = "publish"
                        \/ UNCHANGED answers /\ worker'.step = "fallback" /\ (Impaired => Impaired')
  <2>1. PICK r \in Hand :
          \/ Quote(r, worker.reply) /\ worker'.step = "publish"
          \/ Raises /\ worker'.step = "fallback"
          \/ UNCHANGED <<answers, faults>> /\ worker'.step = "fallback"
    BY DEF Reply
  <2>2. CASE Raises /\ worker'.step = "fallback"
    BY <1>2, <2>2, RaisesImpairs DEF OwedInv
  <2> QED
    BY <1>2, <2>1, <2>2 DEF Quote, Impaired, Reply
<1>4. StageType' /\ InboxInv' /\ EvictedInv' /\ CallbackInv' /\ WorkerInv'
  BY <1>2, <1>3 DEF OwedInv, StageType, InboxInv, EvictedInv, CallbackInv, WorkerInv, Waiting,
                    Hand, Taken
<1>5. CASE Respond(r, worker.reply) /\ worker'.step = "publish"
  <2>1. answers[r] = <<>>
    BY <1>2 DEF OwedInv, AnswersInv
  <2>2. /\ answers' \in [Requests -> Seq(Outside!ProperReplies)] /\ answers'[r] # <<>>
        /\ Len(answers'[r]) = 1
        /\ \A p \in Requests \ {r} : answers'[p] = answers[p]
    <3>1. r \in Requests /\ worker.reply \in Outside!ProperReplies /\ Len(answers[r]) = 0
      BY <1>2, <2>1, InHand, EmptySeq DEF OwedInv, WorkerInv
    <3>2. answers \in [Requests -> Seq(Outside!ProperReplies)]
      BY DEF OwedInv, AnswersInv
    <3>3. /\ answers' \in [Requests -> Seq(Outside!ProperReplies)]
          /\ \A q \in Requests \ {r} : answers'[q] = answers[q]
          /\ answers'[r] # <<>> /\ Len(answers'[r]) = Len(answers[r]) + 1
      BY <1>5, <3>1, <3>2, RespondedAnswers
    <3> QED
      BY <3>1, <3>3
  <2>3. AnswersInv'
    BY <1>2, <1>5, <2>2, InHand DEF OwedInv, AnswersInv, EvictedInv, Hand, Taken
  <2>4. SoundInv'
    BY <1>2, <1>5, <2>2, InHand DEF OwedInv, SoundInv, Impaired, Respond
  <2> QED
    BY <1>1, <1>4, <2>3, <2>4 DEF OwedInv
<1>6. CASE UNCHANGED answers /\ worker'.step = "fallback" /\ (Impaired => Impaired')
  <2>1. AnswersInv' /\ SoundInv'
    BY <1>2, <1>6 DEF OwedInv, AnswersInv, SoundInv, Hand, Taken
  <2> QED
    BY <1>1, <1>4, <2>1 DEF OwedInv
<1> QED
  BY <1>3, <1>5, <1>6

LEMMA PublishOwed ==
  ASSUME OwedInv, Publish
  PROVE  OwedInv'
<1>1. CallsInv'
  BY NextCalls DEF OwedInv, Next, WorkerNext
<1>2. /\ worker.step = "publish"
      /\ UNCHANGED <<inbox, bus, main, callback, toShed, answers, raisedOwn, raisedMany>>
  BY DEF Publish, busVars, raised
<1>3. PICK r \in Hand : \/ Done(r) /\ worker'.step = "take" /\ UNCHANGED faults
                        \/ /\ Fault \/ (r \in Unloggable /\ UNCHANGED faults)
                           /\ worker'.step = "fallback" /\ UNCHANGED stage
  BY DEF Publish, gateVars
<1>4. r \in Requests /\ stage[r] = "taken" /\ Len(answers[r]) = 1 /\ answers[r] # <<>>
  <2>1. r \in Requests /\ stage[r] = "taken" /\ Len(answers[r]) = 1
    BY <1>2, InHand DEF OwedInv, AnswersInv
  <2> QED
    BY <2>1, EmptySeq
<1>5. FaultsInv'
  BY <1>2, <1>3 DEF OwedInv, FaultsInv, Fault
<1>6. CASE Done(r) /\ worker'.step = "take" /\ UNCHANGED faults
  <2>1. StageType' /\ stage'[r] = "finished" /\ \A q \in Requests \ {r} : stage'[q] = stage[q]
    BY <1>4, <1>6, DoneStage DEF OwedInv
  <2>2. \A i \in DOMAIN inbox : inbox[i] \in Requests
    BY LenProperties, ElementOfSeq DEF OwedInv, CallsInv
  <2>3. InboxInv' /\ EvictedInv'
    BY <1>2, <1>4, <1>6, <2>1, <2>2 DEF OwedInv, InboxInv, EvictedInv
  <2>4. CallbackInv'
    BY <1>2, <1>4, <2>1 DEF OwedInv, CallbackInv, Waiting, Idle
  <2>5. Hand' = {}
    BY <1>4, <2>1, InHand DEF Hand, Taken
  <2>6. WorkerInv' /\ AnswersInv' /\ SoundInv'
    BY <1>2, <1>4, <1>6, <2>1, <2>5
       DEF OwedInv, WorkerInv, AnswersInv, SoundInv, Impaired
  <2> QED
    BY <1>1, <1>5, <2>1, <2>3, <2>4, <2>6 DEF OwedInv
<1>7. CASE /\ Fault \/ (r \in Unloggable /\ UNCHANGED faults)
           /\ worker'.step = "fallback" /\ UNCHANGED stage
  <2>1. (Impaired' \/ r \in Unloggable) /\ (Impaired => Impaired')
    BY <1>2, <1>7 DEF OwedInv, FaultsInv, Impaired, Fault
  <2>2. StageType' /\ InboxInv' /\ EvictedInv' /\ CallbackInv' /\ WorkerInv'
    BY <1>2, <1>7 DEF OwedInv, StageType, InboxInv, EvictedInv, CallbackInv, WorkerInv, Waiting,
                      Hand, Taken
  <2>3. AnswersInv'
    BY <1>2, <1>4, <1>7, <2>1, InHand DEF OwedInv, AnswersInv, Hand, Taken
  <2>4. SoundInv'
    BY <1>2, <1>7, <2>1 DEF OwedInv, SoundInv
  <2> QED
    BY <1>1, <1>5, <2>2, <2>3, <2>4 DEF OwedInv
<1> QED
  BY <1>3, <1>6, <1>7

LEMMA FallbackOwed ==
  ASSUME OwedInv, Fallback
  PROVE  OwedInv'
<1>1. CallsInv' /\ FaultsInv'
  <2>1. CallsInv'
    BY NextCalls DEF OwedInv, Next, WorkerNext
  <2>2. FaultsInv'
    BY DEF OwedInv, Fallback, Respond, Raises, Fault, busVars, FaultsInv
  <2> QED
    BY <2>1, <2>2
<1>2. /\ worker.step = "fallback"
      /\ UNCHANGED <<inbox, bus, main, callback, toShed, raisedOwn, raisedMany>>
  BY DEF Fallback, busVars, raised
<1>3. PICK r \in Hand :
        /\ Done(r)
        /\ \/ Respond(r, ErrorReply("VLAI_INTERNAL_ERROR")) /\ worker'.step = "take"
           \/ Raises /\ worker'.step = "dead"
  BY DEF Fallback
<1>4. r \in Requests /\ stage[r] = "taken"
  BY InHand
<1>5. StageType' /\ stage'[r] = "finished" /\ \A q \in Requests \ {r} : stage'[q] = stage[q]
  BY <1>3, <1>4, DoneStage DEF OwedInv
<1>6. Hand' = {}
  BY <1>4, <1>5, InHand DEF Hand, Taken
<1>7. InboxInv' /\ EvictedInv' /\ CallbackInv' /\ WorkerInv'
  <2>1. \A i \in DOMAIN inbox : inbox[i] \in Requests
    BY LenProperties, ElementOfSeq DEF OwedInv, CallsInv
  <2>2. InboxInv'
    BY <1>2, <1>4, <1>5, <2>1 DEF OwedInv, InboxInv
  <2>3. EvictedInv'
    BY <1>2, <1>4, <1>5 DEF OwedInv, EvictedInv
  <2>4. CallbackInv'
    BY <1>2, <1>4, <1>5 DEF OwedInv, CallbackInv, Waiting, Idle
  <2> QED
    BY <1>3, <1>6, <2>2, <2>3, <2>4 DEF WorkerInv
<1>8. CASE Respond(r, ErrorReply("VLAI_INTERNAL_ERROR")) /\ worker'.step = "take"
  <2>1. ErrorReply("VLAI_INTERNAL_ERROR") \in Outside!ProperReplies
    BY ErrorReplyProper DEF Outside!CodesOf
  <2>2. /\ answers' \in [Requests -> Seq(Outside!ProperReplies)] /\ answers'[r] # <<>>
        /\ \A p \in Requests \ {r} : answers'[p] = answers[p]
    BY <1>4, <1>8, <2>1, RespondedAnswers DEF OwedInv, AnswersInv
  <2>3. AnswersInv'
    <3>1. callback.step \in {"limit", "deadline"} =>
            callback.req \in Requests /\ callback.req # r
      BY InHand
    <3>2. \A a \in Actors : \A p \in toShed[a] : p \in Requests /\ p # r
      BY InHand DEF OwedInv, EvictedInv
    <3>3. \A a \in Actors : \A p \in toShed'[a] : answers'[p] = <<>>
      BY <1>2, <2>2, <3>2 DEF OwedInv, AnswersInv
    <3>4. callback'.step \in {"limit", "deadline"} => answers'[callback'.req] = <<>>
      BY <1>2, <2>2, <3>1 DEF OwedInv, AnswersInv
    <3>5. \A p \in Requests :
            stage'[p] \in {"outside", "waiting", "queued"} => answers'[p] = <<>>
      BY <1>4, <1>5, <2>2 DEF OwedInv, AnswersInv
    <3> QED
      BY <1>6, <2>2, <3>3, <3>4, <3>5 DEF AnswersInv
  <2>4. SoundInv'
    BY <1>2, <1>4, <1>5, <1>8, <2>2 DEF OwedInv, SoundInv, Impaired, Respond
  <2> QED
    BY <1>1, <1>5, <1>7, <2>3, <2>4 DEF OwedInv
<1>9. CASE Raises /\ worker'.step = "dead"
  <2>1. Impaired'
    BY <1>2, <1>9 DEF OwedInv, FaultsInv, Impaired, Raises, Fault
  <2>2. AnswersInv'
    BY <1>2, <1>4, <1>5, <1>6, <1>9, <2>1 DEF OwedInv, AnswersInv, Raises
  <2> QED
    BY <1>1, <1>5, <1>7, <2>1, <2>2 DEF OwedInv, SoundInv
<1> QED
  BY <1>3, <1>8, <1>9

LEMMA SweeperSweepOwed ==
  ASSUME OwedInv, SweeperSweep
  PROVE  OwedInv'
<1>1. CallsInv'
  BY NextCalls DEF OwedInv, Next, SweeperNext
<1>2. StageType' /\ \A q \in Requests : EvictsAtMost(q)
  BY SweepStage DEF OwedInv, SweeperSweep
<1>3. /\ UNCHANGED <<inbox, bus, main, callback, worker, answers, faults, raisedOwn, raisedMany>>
      /\ toShed' = [toShed EXCEPT ![Sweeper] = @ \cup Evicted]
  BY DEF OwedInv, EvictedInv, SweeperSweep, busVars, raised
<1>4. HandedTo(Sweeper)
  BY <1>2, <1>3, EvictionHanded DEF OwedInv, Actors
<1>5. FaultsInv' /\ WorkerInv' /\ CallbackInv'
  BY <1>2, <1>3
     DEF OwedInv, FaultsInv, WorkerInv, CallbackInv, Waiting, Hand, Taken, EvictsAtMost, Idle
<1>6. InboxInv'
  <2>1. \A i \in DOMAIN inbox : inbox[i] \in Requests
    BY LenProperties, ElementOfSeq DEF OwedInv, CallsInv
  <2> QED
    BY <1>2, <1>3, <2>1 DEF OwedInv, InboxInv, EvictsAtMost
<1>7. EvictedInv'
  BY <1>3, <1>4, InspectorAssumption DEF OwedInv, EvictedInv, HandedTo, Actors
<1>8. AnswersInv'
  <2>1. \A a \in Actors : \A q \in toShed'[a] : answers[q] = <<>>
    BY <1>4 DEF OwedInv, AnswersInv, HandedTo
  <2>2. \A q \in Hand' : q \in Hand
    BY <1>2 DEF EvictsAtMost, Hand, Taken
  <2>3. \A q \in Requests :
          stage'[q] \in {"outside", "waiting", "queued"} => answers[q] = <<>>
    BY <1>2 DEF OwedInv, AnswersInv, EvictsAtMost
  <2> QED
    BY <1>3, <2>1, <2>2, <2>3 DEF OwedInv, AnswersInv, Impaired
<1>9. SoundInv'
  BY <1>2, <1>3, <1>4 DEF OwedInv, SoundInv, HandedTo, EvictsAtMost, Impaired, Actors
<1> QED
  BY <1>1, <1>2, <1>5, <1>6, <1>7, <1>8, <1>9 DEF OwedInv

LEMMA SweeperShedOwed ==
  ASSUME OwedInv, SweeperShed
  PROVE  OwedInv'
<1>1. CallsInv' /\ FaultsInv'
  <2>1. CallsInv'
    BY NextCalls DEF OwedInv, Next, SweeperNext
  <2>2. FaultsInv'
    BY ShedRaisesImpairs DEF OwedInv, SweeperShed, Quote, Respond, busVars, FaultsInv
  <2> QED
    BY <2>1, <2>2
<1>2. UNCHANGED <<stage, inbox, bus, main, callback, worker>>
  BY DEF SweeperShed, gateVars, busVars
<1>3. PICK q \in toShed[Sweeper] :
        \/ /\ Quote(q, ErrorReply("VLAI_DEADLINE"))
           /\ toShed' = [toShed EXCEPT ![Sweeper] = @ \ {q}]
        \/ /\ ShedRaises(q)
           /\ toShed' = [toShed EXCEPT ![Sweeper] = {}]
  BY DEF SweeperShed
<1>4. q \in Requests /\ stage[q] = "stale"
  BY DEF OwedInv, EvictedInv, Actors
<1>5. StageType' /\ InboxInv' /\ WorkerInv' /\ CallbackInv'
  BY <1>2 DEF OwedInv, StageType, InboxInv, WorkerInv, CallbackInv, Waiting, Hand, Taken
<1>6. EvictedInv'
  BY <1>2, <1>3, InspectorAssumption DEF OwedInv, EvictedInv, Actors
<1>7. CASE Quote(q, ErrorReply("VLAI_DEADLINE")) /\ toShed' = [toShed EXCEPT ![Sweeper] = @ \ {q}]
  <2>0. Respond(q, ErrorReply("VLAI_DEADLINE")) /\ UNCHANGED <<raisedOwn, raisedMany>>
    BY <1>7 DEF Quote, raised
  <2>1. ErrorReply("VLAI_DEADLINE") \in Outside!ProperReplies
    BY ErrorReplyProper DEF Outside!CodesOf
  <2>2. /\ answers' \in [Requests -> Seq(Outside!ProperReplies)] /\ answers'[q] # <<>>
        /\ \A p \in Requests \ {q} : answers'[p] = answers[p]
    BY <1>4, <2>0, <2>1, RespondedAnswers DEF OwedInv, AnswersInv
  <2>3. (Impaired' <=> Impaired) /\ UNCHANGED raisedOwn
    BY <1>2, <2>0 DEF Impaired, Respond
  <2>4. AnswersInv'
    <3>1. callback.step \in {"limit", "deadline"} =>
            callback.req \in Requests /\ callback.req # q
      BY <1>4 DEF OwedInv, CallbackInv, Idle
    <3>2. \A a \in Actors : \A p \in toShed'[a] : p \in toShed[a] /\ p # q
      BY <1>7 DEF OwedInv, EvictedInv, Actors
    <3>3. \A p \in Hand : p # q /\ p \in Requests
      BY <1>4 DEF Hand, Taken
    <3>4. \A a \in Actors : \A p \in toShed'[a] : answers'[p] = <<>>
      BY <2>2, <3>2 DEF OwedInv, EvictedInv, AnswersInv
    <3>5. Hand' = Hand /\ \A p \in Hand : answers'[p] = answers[p]
      BY <1>2, <2>2, <3>3 DEF Hand, Taken
    <3>6. callback'.step \in {"limit", "deadline"} => answers'[callback'.req] = <<>>
      BY <1>2, <2>2, <3>1 DEF OwedInv, AnswersInv
    <3>7. \A p \in Requests :
            stage'[p] \in {"outside", "waiting", "queued"} => answers'[p] = <<>>
      BY <1>2, <1>4, <2>2 DEF OwedInv, AnswersInv
    <3> QED
      BY <1>2, <2>2, <2>3, <3>4, <3>5, <3>6, <3>7 DEF OwedInv, AnswersInv
  <2>5. SoundInv'
    <3>1. \A p \in Requests : answers[p] # <<>> => answers'[p] # <<>>
      BY <2>2
    <3>2. \A a \in Actors : \A p \in toShed[a] : p \in toShed'[a] \/ p = q
      BY <1>7 DEF OwedInv, EvictedInv
    <3> QED
      BY <1>2, <2>2, <2>3, <3>1, <3>2 DEF OwedInv, SoundInv
  <2> QED
    BY <1>1, <1>5, <1>6, <2>4, <2>5 DEF OwedInv
<1>8. CASE ShedRaises(q) /\ toShed' = [toShed EXCEPT ![Sweeper] = {}]
  <2>1. Impaired' /\ UNCHANGED answers
    BY <1>2, <1>8, ShedRaisesImpairs DEF OwedInv
  <2>2. AnswersInv'
    BY <1>2, <1>8, <2>1 DEF OwedInv, AnswersInv, EvictedInv, Actors, Hand, Taken
  <2> QED
    BY <1>1, <1>5, <1>6, <2>1, <2>2 DEF OwedInv, SoundInv
<1> QED
  BY <1>3, <1>7, <1>8

\* Stopping gives up the sweeper's evicted, but the process is impaired from then on.
LEMMA MainOwed ==
  ASSUME OwedInv, MainNext
  PROVE  OwedInv'
<1>1. CallsInv'
  BY NextCalls DEF OwedInv, Next
<1>2. /\ UNCHANGED <<stage, inbox, callback, worker, answers, faults, raisedOwn, raisedMany>>
      /\ \/ UNCHANGED <<main, bus, toShed>>
         \/ /\ main = "running" /\ main' = "stopping" /\ UNCHANGED bus
            /\ toShed' = [toShed EXCEPT ![Sweeper] = {}]
         \/ main # "running" /\ main' # "running" /\ UNCHANGED toShed
  BY DEF MainNext, NewGeneration, Stop, Abort, Drain, Drained, Exit, gateVars, busVars, raised
<1>3. StageType' /\ FaultsInv' /\ InboxInv' /\ WorkerInv' /\ CallbackInv'
  BY <1>2 DEF OwedInv, StageType, FaultsInv, InboxInv, WorkerInv, CallbackInv, Waiting, Hand, Taken
<1>4. EvictedInv'
  BY <1>2, InspectorAssumption DEF OwedInv, EvictedInv, Actors
<1>5. (Impaired => Impaired') /\ (toShed' # toShed => Impaired')
  BY <1>2 DEF Impaired
<1>6. \A a \in Actors : toShed'[a] \subseteq toShed[a]
  BY <1>2 DEF OwedInv, EvictedInv
<1>7. AnswersInv'
  BY <1>2, <1>5, <1>6 DEF OwedInv, AnswersInv, Hand, Taken
<1>8. SoundInv'
  BY <1>2, <1>5 DEF OwedInv, SoundInv
<1> QED
  BY <1>1, <1>3, <1>4, <1>7, <1>8 DEF OwedInv

LEMMA StillOwed ==
  ASSUME OwedInv, CallsInv', UNCHANGED <<stage, inbox, callback, worker, answers, faults,
                                         main, bus, toShed, raisedOwn, raisedMany>>
  PROVE  OwedInv'
<1>1. StageType' /\ FaultsInv' /\ InboxInv' /\ WorkerInv' /\ CallbackInv' /\ EvictedInv'
  BY DEF OwedInv, StageType, FaultsInv, InboxInv, WorkerInv, CallbackInv, EvictedInv, Waiting,
         Hand, Taken
<1>2. AnswersInv' /\ SoundInv'
  BY DEF OwedInv, AnswersInv, SoundInv, Impaired, Hand, Taken
<1> QED
  BY <1>1, <1>2 DEF OwedInv

LEMMA NextOwed ==
  ASSUME OwedInv, [Next]_vars
  PROVE  OwedInv'
<1>1. CallsInv'
  BY NextCalls DEF OwedInv
<1>2. CASE \E r \in Requests : Arrive(r)
  BY <1>2, ArriveOwed
<1>3. CASE CallbackNext
  BY <1>3, AdmitRaisesOwed, AdmitOwed, ResumeOwed, AdmitShedOwed, AdmitRefuseOwed, AdmitWriteOwed
     DEF CallbackNext
<1>4. CASE WorkerNext
  BY <1>4, WorkerTakeOwed, WorkerShedOwed, EvaluateOwed, ReplyOwed, PublishOwed, FallbackOwed
     DEF WorkerNext
<1>5. CASE SweeperNext
  BY <1>5, SweeperSweepOwed, SweeperShedOwed DEF SweeperNext
<1>6. CASE MainNext
  BY <1>6, MainOwed
<1>7. CASE Pass
  BY <1>1, <1>7, StillOwed DEF Pass, Tick, busVars, raised
<1>8. CASE UNCHANGED vars
  BY <1>1, <1>8, StillOwed DEF vars, gateVars, busVars, raised
<1> QED
  BY <1>2, <1>3, <1>4, <1>5, <1>6, <1>7, <1>8 DEF Next

LEMMA InitOwed ==
  ASSUME Init
  PROVE  OwedInv
<1>1. /\ stage = [r \in Requests |-> "outside"] /\ inbox = <<>> /\ callback = Idle
      /\ worker = [step |-> "take"] /\ toShed = [a \in Actors |-> {}] /\ profile = Builtin
      /\ answers = [r \in Requests |-> <<>>] /\ bus = "open" /\ main = "running" /\ faults = 0
      /\ raisedOwn = {} /\ raisedMany = {}
  BY DEF Init, GateInit
<1>2. StageType /\ FaultsInv /\ CallsInv /\ EvictedInv
  <2>1. toShed \in [Actors -> SUBSET Requests] /\ \A a \in Actors : toShed[a] = {}
    BY <1>1
  <2>2. EvictedInv
    BY <2>1 DEF EvictedInv, Actors
  <2> QED
    BY <1>1, <2>2 DEF StageType, Stages, FaultsInv, CallsInv, Idle
<1>3. InboxInv
  BY <1>1 DEF InboxInv
<1>4. CallbackInv /\ WorkerInv /\ SoundInv
  BY <1>1 DEF CallbackInv, WorkerInv, SoundInv, Waiting, Hand, Taken, Idle
<1>5. AnswersInv
  <2>1. <<>> \in Seq(Outside!ProperReplies)
    OBVIOUS
  <2> QED
    BY <1>1, <2>1 DEF AnswersInv, Hand, Taken, Idle
<1> QED
  BY <1>2, <1>3, <1>4, <1>5 DEF OwedInv

\* The stage of a request says in which one place the answer to it is still owed.
\* Whoever it names has given no answer yet, at any time; that there is somebody, for
\* each request that has none, holds while nothing is impaired, but for the messages
\* that ended admit over themselves (SoundInv).
THEOREM OwedInvariant == Spec => []OwedInv
<1> QED
  BY InitOwed, NextOwed, PTL DEF Spec

-----------------------------------------------------------------------------
(* The sole holder of a request *)

AtCallback(r) == callback.step \in {"waiting", "limit", "deadline"} /\ callback.req = r
AtWorker(r) == r \in Hand /\ worker.step \in {"shed", "evaluate", "respond", "fallback"}

LEMMA HolderIs ==
  ASSUME NEW r \in Requests, NEW h
  PROVE  h \in Holders(r) <=> \/ h \in Actors /\ r \in toShed[h]
                              \/ h = "inbox" /\ InInbox(r)
                              \/ h = "gate" /\ r \in Queued
                              \/ h = "callback" /\ AtCallback(r)
                              \/ h = "worker" /\ AtWorker(r)
<1>1. h \in {a \in Actors : r \in toShed[a]} <=> h \in Actors /\ r \in toShed[h]
  OBVIOUS
<1>2. h \in {p \in {"inbox", "gate", "callback", "worker"} :
               CASE p = "inbox"    -> InInbox(r)
                 [] p = "gate"     -> r \in Queued
                 [] p = "callback" -> AtCallback(r)
                 [] p = "worker"   -> AtWorker(r)}
      <=> \/ h = "inbox" /\ InInbox(r)
          \/ h = "gate" /\ r \in Queued
          \/ h = "callback" /\ AtCallback(r)
          \/ h = "worker" /\ AtWorker(r)
  OBVIOUS
<1> QED
  BY <1>1, <1>2 DEF Holders, InInbox, AtCallback, AtWorker

\* Each place belongs to stages of its own.
LEMMA HolderStage ==
  ASSUME OwedInv, NEW r \in Requests
  PROVE  /\ \A a \in Actors : r \in toShed[a] => stage[r] = "stale"
         /\ InInbox(r) => stage[r] = "outside"
         /\ r \in Queued => stage[r] = "queued"
         /\ AtCallback(r) => stage[r] \in {"waiting", "limit", "deadline"}
         /\ AtWorker(r) => stage[r] = "taken"
BY DEF OwedInv, EvictedInv, InboxInv, InInbox, Queued, CallbackInv, AtCallback, AtWorker, Hand, Taken

LEMMA HolderIsSole ==
  ASSUME OwedInv, NEW r \in Requests
  PROVE  Cardinality(Holders(r)) = IF Holders(r) = {} THEN 0 ELSE 1
<1>1. \A g, h \in Holders(r) : g = h
  <2> SUFFICES ASSUME NEW g \in Holders(r), NEW h \in Holders(r) PROVE g = h
    OBVIOUS
  <2>1. \A a, b \in Actors : r \in toShed[a] /\ r \in toShed[b] => a = b
    BY DEF OwedInv, EvictedInv
  <2> QED
    BY <2>1, HolderIs, HolderStage
<1>2. CASE Holders(r) = {}
  BY <1>2, FS_EmptySet
<1>3. CASE Holders(r) # {}
  <2>1. PICK h : h \in Holders(r)
    BY <1>3
  <2>2. Holders(r) = {h}
    BY <1>1, <2>1
  <2> QED
    BY <2>2, <1>3, FS_Singleton
<1> QED
  BY <1>2, <1>3

LEMMA HoldersSome ==
  ASSUME NEW r \in Requests
  PROVE  Holders(r) # {} <=> \/ \E a \in Actors : r \in toShed[a]
                             \/ InInbox(r) \/ r \in Queued \/ AtCallback(r) \/ AtWorker(r)
<1>1. ASSUME NEW h \in Holders(r)
      PROVE  \/ \E a \in Actors : r \in toShed[a]
             \/ InInbox(r) \/ r \in Queued \/ AtCallback(r) \/ AtWorker(r)
  BY HolderIs
<1>2. /\ \A a \in Actors : r \in toShed[a] => a \in Holders(r)
      /\ InInbox(r) => "inbox" \in Holders(r)
      /\ r \in Queued => "gate" \in Holders(r)
      /\ AtCallback(r) => "callback" \in Holders(r)
      /\ AtWorker(r) => "worker" \in Holders(r)
  BY HolderIs
<1> QED
  BY <1>1, <1>2

LEMMA HolderOwes ==
  ASSUME OwedInv, ~Impaired, NEW r \in Asked, r \notin raisedOwn
  PROVE  /\ answers[r] = <<>> => Holders(r) # {}
         /\ answers[r] # <<>> /\ r \notin Unloggable => Holders(r) = {}
<1>0. r \in Requests /\ (stage[r] = "outside" => InInbox(r))
  BY DEF Asked, InInbox
<1>1. /\ \A a \in Actors : r \in toShed[a] => answers[r] = <<>>
      /\ InInbox(r) \/ r \in Queued \/ AtCallback(r) => answers[r] = <<>>
  <2>1. \A a \in Actors : r \in toShed[a] => answers[r] = <<>>
    BY DEF OwedInv, AnswersInv
  <2>2. InInbox(r) \/ r \in Queued => answers[r] = <<>>
    BY <1>0, HolderStage DEF OwedInv, AnswersInv
  <2>3. AtCallback(r) => answers[r] = <<>>
    BY <1>0 DEF OwedInv, AnswersInv, CallbackInv, AtCallback
  <2> QED
    BY <2>1, <2>2, <2>3
<1>2. AtWorker(r) => answers[r] = <<>> \/ r \in Unloggable
  BY DEF OwedInv, AnswersInv, AtWorker
<1>3. ASSUME answers[r] = <<>>
      PROVE  \/ \E a \in Actors : r \in toShed[a]
             \/ InInbox(r) \/ r \in Queued \/ AtCallback(r) \/ AtWorker(r)
  <2>1. stage[r] \in Stages
    BY <1>0 DEF OwedInv, StageType
  <2>2. CASE stage[r] = "outside"
    BY <1>0, <2>2
  <2>3. CASE stage[r] = "waiting"
    BY <1>0, <2>3 DEF OwedInv, CallbackInv, Waiting, AtCallback
  <2>4. CASE stage[r] = "queued"
    BY <1>0, <2>4 DEF Queued
  <2>5. CASE stage[r] = "taken"
    <3>1. r \in Hand
      BY <1>0, <2>5 DEF Hand, Taken
    <3>2. worker.step # "publish"
      <4>1. Len(answers[r]) = 0
        BY <1>3, EmptySeq
      <4>2. worker.step = "publish" => Len(answers[r]) = 1
        BY <3>1 DEF OwedInv, AnswersInv
      <4> QED
        BY <4>1, <4>2
    <3> QED
      BY <3>1, <3>2 DEF OwedInv, WorkerInv, SoundInv, AtWorker
  <2>6. CASE stage[r] \in {"finished", "stale", "limit", "deadline"}
    BY <1>0, <1>3, <2>6 DEF OwedInv, SoundInv, AtCallback
  <2> QED
    BY <2>1, <2>2, <2>3, <2>4, <2>5, <2>6 DEF Stages
<1> QED
  BY <1>0, <1>1, <1>2, <1>3, HoldersSome

\* While nothing has failed, a request the inspector has is owed by exactly one
\* coroutine or queue until its answer goes out, and by none afterwards, whoever
\* evicted, refused or took it. Left out are a request that ended admit over itself,
\* which nobody has, and one whose log line may bring its answer back to the worker.
THEOREM SoleHolderAlways == Spec => []SoleHolder
<1>1. OwedInv => SoleHolder
  <2> SUFFICES ASSUME OwedInv PROVE SoleHolder
    OBVIOUS
  <2>1. \A r \in Requests : Cardinality(Holders(r)) = IF Holders(r) = {} THEN 0 ELSE 1
    BY HolderIsSole
  <2>2. ~Impaired => \A r \in Asked \ raisedOwn :
          /\ answers[r] = <<>> => Holders(r) # {}
          /\ answers[r] # <<>> /\ r \notin Unloggable => Holders(r) = {}
    BY HolderOwes
  <2>3. Asked \subseteq Requests
    BY DEF Asked
  <2> QED
    BY <2>1, <2>2, <2>3 DEF SoleHolder
<1> QED
  BY <1>1, OwedInvariant, PTL

-----------------------------------------------------------------------------
(* The messages that ended admit over themselves *)

\* Nobody has such a message, and it has no answer.
Dropped(r) ==
  /\ r \in Requests \ Fit /\ answers[r] = <<>>
  /\ stage[r] \in {"outside", "limit", "deadline"}
  /\ ~InInbox(r) /\ ~AtCallback(r)

DroppedInv == \A r \in raisedOwn : Dropped(r)

LEMMA DroppedStays ==
  ASSUME DroppedInv, UNCHANGED raisedOwn,
         \A r \in raisedOwn : /\ stage'[r] = stage[r] /\ answers'[r] = answers[r]
                              /\ InInbox(r)' => InInbox(r)
                              /\ AtCallback(r)' => AtCallback(r)
  PROVE  DroppedInv'
BY DEF DroppedInv, Dropped

\* A request in somebody's hands has not been dropped.
LEMMA HeldIsNotDropped ==
  ASSUME OwedInv, DroppedInv, NEW r \in raisedOwn
  PROVE  /\ \A a \in Actors : r \notin toShed[a]
         /\ r \notin Queued /\ r \notin Hand /\ ~InInbox(r) /\ ~AtCallback(r)
         /\ r \in Requests /\ answers[r] = <<>>
BY HolderStage DEF DroppedInv, Dropped, Queued, Hand, Taken

LEMMA AdmitDropped ==
  ASSUME OwedInv, DroppedInv, Admit \/ AdmitRaises
  PROVE  DroppedInv'
<1>0. PICK r : r = Head(inbox)
  OBVIOUS
<1>1. /\ inbox # <<>> /\ inbox' = Tail(inbox) /\ UNCHANGED answers
      /\ raisedOwn' = raisedOwn \/ (raisedOwn' = raisedOwn \cup {r} /\ AdmitRaises)
  BY <1>0 DEF Admit, AdmitRaises, Submitted, raised
<1>2. /\ r \in Requests /\ InInbox(r)
      /\ \A q \in Requests : InInbox(q)' => InInbox(q) /\ q # r
  <2>1. r \in Requests /\ InInbox(r)
    BY <1>0, <1>1, HeadTailProperties, LenProperties DEF OwedInv, CallsInv, InInbox
  <2>2. \A i \in DOMAIN inbox' : /\ i + 1 \in DOMAIN inbox /\ inbox'[i] = inbox[i + 1]
                                 /\ inbox[i + 1] \in Requests \ {r}
    BY <1>0, <1>1, TailInbox
  <2> QED
    BY <2>1, <2>2 DEF InInbox
<1>3. stage[r] = "outside" /\ answers[r] = <<>>
  BY <1>2, HolderStage DEF OwedInv, AnswersInv
<1>4. CASE AdmitRaises
  <2>1. /\ UNCHANGED stage /\ r \in Unpeekable
        /\ \A q \in Requests : ~AtCallback(q)'
    BY <1>0, <1>4 DEF AdmitRaises, gateVars, AtCallback, Idle
  <2>2. Dropped(r)'
    BY <1>1, <1>2, <1>3, <2>1 DEF Dropped, Fit
  <2>3. \A q \in raisedOwn : Dropped(q)'
    BY <1>1, <1>2, <2>1 DEF DroppedInv, Dropped
  <2> QED
    BY <1>1, <2>2, <2>3 DEF DroppedInv
<1>5. CASE Admit
  <2>1. /\ \A q \in Requests \ {r} : EvictsAtMost(q)
        /\ callback' = Idle \/ callback'.req = r
    BY <1>0, <1>2, <1>5, SubmitStage DEF OwedInv, Admit, Submitted
  <2>2. ASSUME NEW q \in raisedOwn
        PROVE  /\ stage'[q] = stage[q] /\ (InInbox(q)' => InInbox(q))
               /\ AtCallback(q)' => AtCallback(q)
    <3>1. q \in Requests /\ q # r /\ q \notin Queued
      BY <1>2, HeldIsNotDropped
    <3> QED
      BY <1>2, <2>1, <3>1 DEF EvictsAtMost, Queued, AtCallback, Idle
  <2>3. UNCHANGED raisedOwn
    BY <1>5 DEF Admit, Submitted, raised
  <2> QED
    BY <1>1, <2>2, <2>3, DroppedStays
<1> QED
  BY <1>4, <1>5

LEMMA RefuseDropped ==
  ASSUME OwedInv, DroppedInv, AdmitRefuse
  PROVE  DroppedInv'
<1>0. PICK r : r = callback.req
  OBVIOUS
<1> DEFINE reply == IF callback.step = "limit" THEN LimitReply(callback.profile)
                                              ELSE ErrorReply("VLAI_DEADLINE")
<1>1. /\ AtCallback(r) /\ r \in Requests /\ UNCHANGED <<stage, inbox>>
      /\ stage[r] \in {"limit", "deadline"} /\ answers[r] = <<>>
      /\ \A q \in Requests : ~AtCallback(q)'
  BY <1>0 DEF OwedInv, CallbackInv, AnswersInv, AdmitRefuse, gateVars, busVars, AtCallback, Idle
<1>2. CASE Quote(r, reply)
  <2>1. UNCHANGED raisedOwn /\ \A q \in raisedOwn : answers'[q] = answers[q]
    BY <1>1, <1>2, HeldIsNotDropped DEF OwedInv, AnswersInv, Quote, Respond, raised
  <2> QED
    BY <1>1, <2>1, DroppedStays DEF InInbox, DroppedInv, Dropped
<1>3. CASE OwnRaises(r)
  <2>1. /\ UNCHANGED answers
        /\ \/ UNCHANGED raisedOwn
           \/ r \in Unquotable /\ raisedOwn' = raisedOwn \cup {r}
    BY <1>3 DEF OwnRaises, Raises, raised
  <2>2. r \in Unquotable => Dropped(r)'
    <3>1. ~InInbox(r)
      BY <1>1, HolderStage
    <3> QED
      BY <1>1, <2>1, <3>1 DEF Dropped, InInbox, Fit
  <2>3. \A q \in raisedOwn : Dropped(q)'
    BY <1>1, <2>1 DEF DroppedInv, Dropped, InInbox
  <2> QED
    BY <2>1, <2>2, <2>3 DEF DroppedInv
<1> QED
  BY <1>0, <1>2, <1>3 DEF AdmitRefuse

\* What is done to the requests in somebody's hands leaves the dropped alone.
LEMMA NextDropped ==
  ASSUME OwedInv, DroppedInv, [Next]_vars
  PROVE  DroppedInv'
<1>1. ASSUME NEW r \in Requests, Arrive(r)
      PROVE  DroppedInv'
  <2>1. /\ UNCHANGED <<stage, answers, callback, raisedOwn>> /\ r \notin raisedOwn
        /\ inbox \in Seq(Requests)
        /\ inbox' = Append(inbox, r) \/ UNCHANGED inbox
    BY <1>1 DEF Arrive, gateVars, raised, OwedInv, CallsInv
  <2>2. ASSUME NEW q \in raisedOwn, InInbox(q)' PROVE InInbox(q)
    <3>1. CASE inbox' = Append(inbox, r)
      <4>1. /\ DOMAIN inbox' = 1..(Len(inbox) + 1) /\ DOMAIN inbox = 1..Len(inbox)
            /\ Len(inbox) \in Nat /\ inbox'[Len(inbox) + 1] = r
            /\ \A i \in DOMAIN inbox : inbox'[i] = inbox[i]
        BY <2>1, <3>1, AppendElements
      <4>2. PICK i \in DOMAIN inbox' : inbox'[i] = q
        BY <2>2 DEF InInbox
      <4>3. i # Len(inbox) + 1
        BY <2>1, <4>1, <4>2
      <4>4. i \in DOMAIN inbox
        BY <4>1, <4>2, <4>3
      <4> QED
        BY <4>1, <4>2, <4>4 DEF InInbox
    <3>2. CASE UNCHANGED inbox
      BY <2>2, <3>2 DEF InInbox
    <3> QED
      BY <2>1, <3>1, <3>2
  <2> QED
    BY <2>1, <2>2, DroppedStays DEF AtCallback
<1>2. CASE AdmitRaises \/ Admit
  BY <1>2, AdmitDropped
<1>3. CASE AdmitRefuse
  BY <1>3, RefuseDropped
<1>4. CASE AdmitResume
  <2>1. callback.req \in Requests /\ AtCallback(callback.req)
    BY <1>4 DEF OwedInv, CallsInv, AdmitResume, AtCallback
  <2>2. /\ \A q \in Requests \ {callback.req} : EvictsAtMost(q)
        /\ callback' = Idle \/ callback'.req = callback.req
        /\ UNCHANGED <<inbox, answers, raisedOwn>>
    BY <1>4, <2>1, ResumeStage DEF OwedInv, AdmitResume, Submitted, busVars, raised
  <2>3. ASSUME NEW q \in raisedOwn
        PROVE  stage'[q] = stage[q] /\ (AtCallback(q)' => AtCallback(q))
    <3>1. q \in Requests /\ q # callback.req /\ q \notin Queued
      BY <2>1, HeldIsNotDropped
    <3> QED
      BY <2>2, <3>1 DEF EvictsAtMost, Queued, AtCallback, Idle
  <2> QED
    BY <2>2, <2>3, DroppedStays DEF InInbox
<1>5. CASE AdmitShed \/ WorkerShed \/ SweeperShed
  <2>1. /\ UNCHANGED <<stage, inbox, raisedOwn>>
        /\ callback' = Idle \/ UNCHANGED callback
    BY <1>5 DEF AdmitShed, WorkerShed, SweeperShed, Quote, ShedRaises, gateVars, busVars, raised
  <2>2. PICK q \in UNION {toShed[a] : a \in Actors} :
          Respond(q, ErrorReply("VLAI_DEADLINE")) \/ UNCHANGED answers
    BY <1>5 DEF AdmitShed, WorkerShed, SweeperShed, Quote, ShedRaises, Raises, Actors
  <2>3. \A p \in raisedOwn : answers'[p] = answers[p]
    BY <2>2, HeldIsNotDropped DEF OwedInv, AnswersInv, Respond
  <2> QED
    BY <2>1, <2>3, DroppedStays DEF InInbox, AtCallback, Idle
<1>6. CASE WorkerTake \/ SweeperSweep
  <2>1. \A q \in Requests : EvictsAtMost(q) \/ stage[q] = "queued"
    BY <1>6, TakeStage, SweepStage DEF OwedInv, WorkerTake, SweeperSweep
  <2>2. UNCHANGED <<inbox, callback, answers, raisedOwn>>
    BY <1>6 DEF WorkerTake, SweeperSweep, busVars, raised
  <2>3. \A q \in raisedOwn : stage'[q] = stage[q]
    BY <2>1, HeldIsNotDropped DEF EvictsAtMost, Queued
  <2> QED
    BY <2>2, <2>3, DroppedStays DEF InInbox, AtCallback
<1>7. CASE Reply \/ Publish \/ Fallback
  <2>1. UNCHANGED <<inbox, callback, raisedOwn>>
    BY <1>7 DEF Reply, Publish, Fallback, Quote, busVars, raised
  <2>2. PICK r \in Hand : /\ Done(r) \/ UNCHANGED stage
                          /\ (\E reply : Respond(r, reply)) \/ UNCHANGED answers
    BY <1>7 DEF Reply, Publish, Fallback, Quote, Raises, gateVars
  <2>3. \A q \in raisedOwn : q # r /\ q \in Requests
    BY <2>2, HeldIsNotDropped
  <2>4. \A q \in raisedOwn : stage'[q] = stage[q]
    <3>1. CASE Done(r)
      BY <2>2, <2>3, <3>1, InHand, DoneStage DEF OwedInv
    <3> QED
      BY <2>2, <3>1
  <2>5. \A q \in raisedOwn : answers'[q] = answers[q]
    BY <2>2, <2>3 DEF OwedInv, AnswersInv, Respond
  <2> QED
    BY <2>1, <2>4, <2>5, DroppedStays DEF InInbox, AtCallback
<1>8. CASE AdmitWrite
  BY <1>8, DroppedStays DEF AdmitWrite, gateVars, busVars, raised, InInbox, AtCallback, Idle
<1>9. CASE Evaluate \/ MainNext \/ Pass \/ UNCHANGED vars
  <2>1. UNCHANGED <<stage, inbox, callback, answers, raisedOwn>>
    BY <1>9 DEF Evaluate, MainNext, NewGeneration, Stop, Abort, Drain, Drained, Exit, Pass, Tick,
                vars, gateVars, busVars, raised
  <2> QED
    BY <2>1, DroppedStays DEF InInbox, AtCallback
<1> QED
  BY <1>1, <1>2, <1>3, <1>4, <1>5, <1>6, <1>7, <1>8, <1>9
     DEF Next, CallbackNext, WorkerNext, SweeperNext

LEMMA DroppedInvariant == Spec => []DroppedInv
<1>1. Init => DroppedInv
  BY DEF Init, DroppedInv
<1>2. OwedInv /\ DroppedInv /\ [Next]_vars => DroppedInv'
  BY NextDropped
<1> QED
  BY <1>1, <1>2, OwedInvariant, PTL DEF Spec

-----------------------------------------------------------------------------
(* The exchange: every step of the inspector is one of its steps, or none *)

\* What is owed: all that is asked, not dropped and not answered.
DueInv ==
  Owed = IF Impaired THEN {} ELSE {r \in Asked \ raisedOwn : answers[r] = <<>>}

LEMMA OwedIsDue ==
  ASSUME OwedInv, DroppedInv
  PROVE  DueInv
<1>1. ASSUME ~Impaired, NEW r \in Asked, r \notin raisedOwn, answers[r] = <<>>
      PROVE  r \in Owed
  BY <1>1, HolderOwes DEF Owed, Asked
<1>2. ASSUME NEW r \in Owed
      PROVE  ~Impaired /\ r \in Asked \ raisedOwn /\ answers[r] = <<>>
  <2>1. ~Impaired /\ r \in Requests /\ Holders(r) # {} /\ answers[r] = <<>>
    BY DEF Owed
  <2>2. \/ \E a \in Actors : r \in toShed[a]
        \/ InInbox(r) \/ r \in Queued \/ AtCallback(r) \/ AtWorker(r)
    BY <2>1, HoldersSome
  <2>3. r \in Asked
    <3>1. InInbox(r) \/ stage[r] # "outside"
      BY <2>1, <2>2, HolderStage
    <3> QED
      BY <2>1, <3>1 DEF Asked, InInbox
  <2>4. r \notin raisedOwn
    BY <2>2, HeldIsNotDropped DEF AtWorker
  <2> QED
    BY <2>1, <2>3, <2>4
<1> QED
  BY <1>1, <1>2 DEF DueInv

\* What a step of the exchange is read from: who owes what, before and after.
Traded == OwedInv /\ DroppedInv /\ DueInv /\ DueInv'

\* A step that only may impair: nothing is asked, answered, dropped or lost.
ExchangeStays ==
  Asked' = Asked /\ UNCHANGED <<lost, answers, raisedOwn>> /\ (Impaired => Impaired')

LEMMA StayIsExchange ==
  ASSUME Traded, ExchangeStays
  PROVE  [Outside!ExchangeNext]_(Outside!exchangeVars)
<1>1. CASE Impaired' = Impaired
  <2>1. Owed' = Owed
    BY <1>1 DEF Traded, ExchangeStays, DueInv
  <2> QED
    BY <1>1, <2>1 DEF ExchangeStays, Outside!exchangeVars
<1>2. CASE ~Impaired /\ Impaired'
  <2>1. Impaired' = TRUE /\ Owed' = {}
    BY <1>2 DEF Traded, DueInv
  <2> QED
    BY <1>2, <2>1 DEF ExchangeStays, Outside!ExchangeNext, Outside!Impair
<1>3. Impaired \in BOOLEAN /\ Impaired' \in BOOLEAN
  BY DEF Impaired
<1> QED
  BY <1>1, <1>2, <1>3 DEF ExchangeStays

\* An answer to a request that is asked and has none.
LEMMA RespondIsAnswer ==
  ASSUME Traded, NEW r \in Asked, r \notin raisedOwn, answers[r] = <<>>,
         NEW reply \in Outside!ProperReplies, Respond(r, reply), Asked' = Asked,
         UNCHANGED <<lost, main, raised>>
  PROVE  [Outside!ExchangeNext]_(Outside!exchangeVars)
<1>1. r \in Requests
  BY DEF Asked
<1>2. answers' = [answers EXCEPT ![r] = <<reply>>]
  <2>1. Append(answers[r], reply) = <<reply>>
    OBVIOUS
  <2> QED
    BY <2>1 DEF Respond
<1>3. Impaired' = Impaired /\ UNCHANGED raisedOwn
  BY DEF Impaired, Respond, raised
<1>4. Owed' = Owed \ {r}
  <2>1. Asked \subseteq Requests
    BY DEF Asked
  <2>2. \A q \in Requests : answers'[q] = IF q = r THEN <<reply>> ELSE answers[q]
    BY <1>2 DEF Traded, OwedInv, AnswersInv
  <2>3. <<reply>> # <<>>
    OBVIOUS
  <2> QED
    BY <1>3, <2>1, <2>2, <2>3 DEF Traded, DueInv
<1>5. Impaired \/ r \in Owed
  BY DEF Traded, DueInv
<1> QED
  BY <1>1, <1>2, <1>3, <1>4, <1>5 DEF Outside!ExchangeNext, Outside!Answer

\* The late internal error of process's except branch.
LEMMA RespondIsAgain ==
  ASSUME Traded, NEW r \in Requests, Len(answers[r]) = 1, Impaired \/ r \notin Fit,
         Respond(r, ErrorReply("VLAI_INTERNAL_ERROR")), Asked' = Asked,
         UNCHANGED <<lost, main, raised>>
  PROVE  [Outside!ExchangeNext]_(Outside!exchangeVars)
<1>1. answers' = [answers EXCEPT ![r] = Append(@, Outside!InternalError)]
  BY DEF Respond, ErrorReply, Outside!InternalError
<1>2. Impaired' = Impaired /\ UNCHANGED raisedOwn
  BY DEF Impaired, Respond, raised
<1>3. Owed' = Owed
  <2>1. "VLAI_INTERNAL_ERROR" \in Outside!CodesOf.error
    BY DEF Outside!CodesOf
  <2>2. answers'[r] # <<>> /\ \A q \in Requests \ {r} : answers'[q] = answers[q]
    BY <2>1, ErrorReplyProper, RespondedAnswers DEF Traded, OwedInv, AnswersInv
  <2>3. answers[r] # <<>>
    BY EmptySeq
  <2>4. Asked \subseteq Requests
    BY DEF Asked
  <2> QED
    BY <1>2, <2>2, <2>3, <2>4 DEF Traded, DueInv
<1> QED
  BY <1>1, <1>2, <1>3 DEF Outside!ExchangeNext, Outside!AnswerAgain

\* A message that ends admit over itself is given up.
LEMMA DropIsGivenUp ==
  ASSUME Traded, NEW r \in Asked, r \notin raisedOwn \cup Fit, answers[r] = <<>>,
         raisedOwn' = raisedOwn \cup {r}, Impaired' = Impaired, Asked' = Asked,
         UNCHANGED <<lost, answers>>
  PROVE  [Outside!ExchangeNext]_(Outside!exchangeVars)
<1>1. r \in Requests
  BY DEF Asked
<1>2. CASE Impaired
  <2>1. Owed' = Owed
    BY <1>2 DEF Traded, DueInv
  <2> QED
    BY <2>1 DEF Outside!exchangeVars
<1>3. CASE ~Impaired
  <2>1. r \in Owed /\ Owed' = Owed \ {r}
    BY <1>3 DEF Traded, DueInv
  <2> QED
    BY <1>1, <2>1 DEF Outside!ExchangeNext, Outside!GiveUp
<1> QED
  BY <1>2, <1>3

\* A request is asked when it enters the pending queue, and stays so.
LEMMA AskedStays ==
  ASSUME UNCHANGED <<inbox, raisedOwn>>,
         \A q \in Requests : stage'[q] = "outside" <=> stage[q] = "outside"
  PROVE  Asked' = Asked
BY DEF Asked

LEMMA TakenIsAsked ==
  ASSUME NEW r \in Requests, stage[r] # "outside"
  PROVE  r \in Asked
BY DEF Asked

LEMMA ArriveExchange ==
  ASSUME Traded, NEW r \in Requests, Arrive(r)
  PROVE  [Outside!ExchangeNext]_(Outside!exchangeVars)
<1>1. /\ r \notin Asked \cup lost /\ Impaired' = Impaired
      /\ UNCHANGED <<answers, raisedOwn>>
  BY DEF Arrive, Asked, Impaired, raised
<1>2. CASE inbox' = Append(inbox, r) /\ UNCHANGED lost
  <2>1. /\ DOMAIN inbox' = 1..(Len(inbox) + 1) /\ DOMAIN inbox = 1..Len(inbox)
        /\ Len(inbox) \in Nat /\ inbox'[Len(inbox) + 1] = r
        /\ \A i \in DOMAIN inbox : inbox'[i] = inbox[i]
    BY <1>2, AppendElements DEF Traded, OwedInv, CallsInv
  <2>2. /\ Len(inbox) + 1 \in DOMAIN inbox' /\ DOMAIN inbox \subseteq DOMAIN inbox'
        /\ \A i \in DOMAIN inbox' : i \in DOMAIN inbox \/ inbox'[i] = r
    BY <2>1
  <2>3. \A q \in Requests : (\E i \in DOMAIN inbox' : inbox'[i] = q)
                              <=> q = r \/ \E i \in DOMAIN inbox : inbox[i] = q
    BY <2>1, <2>2
  <2>4. Asked' = Asked \cup {r}
    BY <1>1, <2>3 DEF Asked, Arrive, gateVars
  <2>5. Owed' = IF Impaired THEN {} ELSE Owed \cup {r}
    <3>1. answers[r] = <<>>
      BY DEF Traded, OwedInv, AnswersInv, Arrive
    <3>2. r \notin raisedOwn
      BY DEF Arrive
    <3> QED
      BY <1>1, <2>4, <3>1, <3>2 DEF Traded, DueInv
  <2> QED
    BY <1>1, <1>2, <2>4, <2>5 DEF Outside!ExchangeNext, Outside!Ask
<1>3. CASE lost' = lost \cup {r} /\ UNCHANGED inbox
  <2>1. Asked' = Asked
    BY <1>1, <1>3 DEF Asked, Arrive, gateVars
  <2>2. Owed' = Owed
    BY <1>1, <2>1 DEF Traded, DueInv
  <2> QED
    BY <1>1, <1>3, <2>1, <2>2 DEF Outside!ExchangeNext, Outside!Overflow
<1> QED
  BY <1>2, <1>3 DEF Arrive

LEMMA InboxWithoutHead ==
  ASSUME OwedInv, inbox # <<>>, inbox' = Tail(inbox)
  PROVE  /\ Head(inbox) \in Requests
         /\ \A q \in Requests : (\E i \in DOMAIN inbox : inbox[i] = q)
                                  <=> q = Head(inbox) \/ \E i \in DOMAIN inbox' : inbox'[i] = q
<1> DEFINE r == Head(inbox)
<1>1. /\ Len(inbox) \in Nat \ {0} /\ DOMAIN inbox = 1..Len(inbox)
      /\ r = inbox[1] /\ r \in Requests
      /\ DOMAIN inbox' = 1..(Len(inbox) - 1)
      /\ \A i \in 1..(Len(inbox) - 1) : inbox'[i] = inbox[i + 1]
  BY HeadTailProperties, LenProperties, EmptySeq DEF OwedInv, CallsInv
<1>2. ASSUME NEW i \in DOMAIN inbox, inbox[i] # r
      PROVE  i - 1 \in DOMAIN inbox' /\ inbox'[i - 1] = inbox[i]
  BY <1>1, <1>2
<1>3. \A i \in DOMAIN inbox' : i + 1 \in DOMAIN inbox /\ inbox[i + 1] = inbox'[i]
  BY <1>1
<1>4. 1 \in DOMAIN inbox
  BY <1>1
<1> QED
  BY <1>1, <1>2, <1>3, <1>4

\* What the gate does to the stages of the others leaves them asked.
LEMMA AdmitExchange ==
  ASSUME Traded, Admit
  PROVE  ExchangeStays
<1>0. PICK r : r = Head(inbox)
  OBVIOUS
<1>1. /\ r \in Requests
      /\ \A q \in Requests : (\E i \in DOMAIN inbox : inbox[i] = q)
                               <=> q = r \/ \E i \in DOMAIN inbox' : inbox'[i] = q
  BY <1>0, InboxWithoutHead DEF Traded, Admit
<1>2. /\ stage[r] = "outside" /\ stage'[r] # "outside"
      /\ \A q \in Requests \ {r} : stage'[q] = "outside" <=> stage[q] = "outside"
  BY <1>0, <1>1, SubmitStage DEF Traded, OwedInv, Admit, EvictsAtMost
<1>3. UNCHANGED <<raisedOwn, raisedMany, lost, answers, faults, main>>
  BY DEF Admit, Submitted, raised
<1>4. Asked' = Asked
  BY <1>1, <1>2, <1>3 DEF Asked
<1> QED
  BY <1>3, <1>4 DEF ExchangeStays, Impaired

\* A message that admit raises over is asked, and given up.
LEMMA AdmitRaisesExchange ==
  ASSUME Traded, AdmitRaises
  PROVE  [Outside!ExchangeNext]_(Outside!exchangeVars)
<1>0. PICK r : r = Head(inbox)
  OBVIOUS
<1>1. /\ r \in Requests
      /\ \A q \in Requests : (\E i \in DOMAIN inbox : inbox[i] = q)
                               <=> q = r \/ \E i \in DOMAIN inbox' : inbox'[i] = q
  BY <1>0, InboxWithoutHead DEF Traded, AdmitRaises
<1>2. /\ UNCHANGED <<stage, lost, answers, faults, main, raisedMany>>
      /\ raisedOwn' = raisedOwn \cup {r} /\ r \in Unpeekable
  BY <1>0 DEF AdmitRaises, gateVars
<1>3. Asked' = Asked /\ r \in Asked
  BY <1>1, <1>2 DEF Asked
<1>4. InInbox(r)
  BY <1>1 DEF InInbox
<1>5. r \notin raisedOwn /\ answers[r] = <<>>
  BY <1>1, <1>4, HeldIsNotDropped, HolderStage DEF Traded, OwedInv, AnswersInv
<1>6. Impaired' = Impaired /\ r \notin Fit
  BY <1>2 DEF Impaired, Fit
<1> QED
  BY <1>2, <1>3, <1>5, <1>6, DropIsGivenUp

\* An evicted message is answered, or ends the coroutine that has it.
LEMMA ShedExchange ==
  ASSUME Traded, NEW a \in Actors, NEW q \in toShed[a],
         Quote(q, ErrorReply("VLAI_DEADLINE")) \/ ShedRaises(q),
         UNCHANGED <<stage, inbox, lost, main, bus>>
  PROVE  [Outside!ExchangeNext]_(Outside!exchangeVars)
<1>1. q \in Asked /\ answers[q] = <<>> /\ q \notin raisedOwn
  BY TakenIsAsked, HeldIsNotDropped DEF Traded, OwedInv, EvictedInv, AnswersInv
<1>2. CASE Quote(q, ErrorReply("VLAI_DEADLINE"))
  <2>1. ErrorReply("VLAI_DEADLINE") \in Outside!ProperReplies
    BY ErrorReplyProper DEF Outside!CodesOf
  <2>2. Respond(q, ErrorReply("VLAI_DEADLINE")) /\ UNCHANGED raised /\ Asked' = Asked
    BY <1>2, AskedStays DEF Quote, raised
  <2> QED
    BY <1>1, <2>1, <2>2, RespondIsAnswer
<1>3. CASE ShedRaises(q)
  <2>1. UNCHANGED answers /\ UNCHANGED raisedOwn /\ Impaired'
    BY <1>3, ShedRaisesImpairs DEF Traded, OwedInv
  <2>2. Asked' = Asked
    BY <2>1, AskedStays
  <2> QED
    BY <2>1, <2>2, StayIsExchange DEF ExchangeStays
<1> QED
  BY <1>2, <1>3

LEMMA RefuseExchange ==
  ASSUME Traded, AdmitRefuse
  PROVE  [Outside!ExchangeNext]_(Outside!exchangeVars)
<1>0. PICK r : r = callback.req
  OBVIOUS
<1> DEFINE reply == IF callback.step = "limit" THEN LimitReply(callback.profile)
                                              ELSE ErrorReply("VLAI_DEADLINE")
<1>1. UNCHANGED <<stage, inbox, lost, main, bus>>
  BY DEF AdmitRefuse, gateVars, busVars
<1>2. r \in Asked /\ answers[r] = <<>> /\ AtCallback(r)
  BY <1>0, TakenIsAsked DEF Traded, OwedInv, CallbackInv, AnswersInv, AdmitRefuse, Idle, AtCallback
<1>3. r \notin raisedOwn
  BY <1>2, HeldIsNotDropped DEF Traded
<1>4. CASE Quote(r, reply)
  <2>1. reply \in Outside!ProperReplies
    <3>1. "VLAI_DEADLINE" \in Outside!CodesOf.error
      BY DEF Outside!CodesOf
    <3> QED
      BY <3>1, ErrorReplyProper, LimitReplyProper
  <2>2. Respond(r, reply) /\ UNCHANGED raised /\ Asked' = Asked
    BY <1>1, <1>4, AskedStays DEF Quote, raised
  <2> QED
    BY <1>1, <1>2, <1>3, <2>1, <2>2, RespondIsAnswer
<1>5. CASE OwnRaises(r)
  <2>1. /\ UNCHANGED answers
        /\ \/ Impaired' /\ UNCHANGED raisedOwn
           \/ /\ r \in Unquotable /\ raisedOwn' = raisedOwn \cup {r}
              /\ Impaired' = Impaired
    BY <1>1, <1>5, OwnRaisesDrops DEF Traded, OwedInv
  <2>2. CASE Impaired' /\ UNCHANGED raisedOwn
    BY <1>1, <2>1, <2>2, AskedStays, StayIsExchange DEF ExchangeStays
  <2>3. CASE /\ r \in Unquotable /\ raisedOwn' = raisedOwn \cup {r}
             /\ Impaired' = Impaired
    <3>1. Asked' = Asked
      BY <1>1, <1>2, <2>3 DEF Asked
    <3>2. r \notin Fit
      BY <2>3 DEF Fit
    <3> QED
      BY <1>1, <1>2, <1>3, <2>1, <2>3, <3>1, <3>2, DropIsGivenUp
  <2> QED
    BY <2>1, <2>2, <2>3
<1> QED
  BY <1>0, <1>4, <1>5 DEF AdmitRefuse

LEMMA CallbackExchange ==
  ASSUME Traded, CallbackNext
  PROVE  [Outside!ExchangeNext]_(Outside!exchangeVars)
<1>1. CASE Admit
  BY <1>1, AdmitExchange, StayIsExchange
<1>2. CASE AdmitResume
  <2>1. callback.req \in Requests
    BY <1>2 DEF Traded, OwedInv, CallsInv, AdmitResume
  <2>2. \A q \in Requests : stage'[q] = "outside" <=> stage[q] = "outside"
    BY <1>2, <2>1, ResumeStage DEF Traded, OwedInv, AdmitResume, EvictsAtMost
  <2>3. ExchangeStays
    BY <1>2, <2>2, AskedStays DEF ExchangeStays, AdmitResume, Submitted, busVars, Impaired, raised
  <2> QED
    BY <2>3, StayIsExchange
<1>3. CASE AdmitShed
  <2>1. UNCHANGED <<stage, inbox, lost, main, bus>>
    BY <1>3 DEF AdmitShed, gateVars, busVars
  <2> QED
    BY <1>3, <2>1, ShedExchange DEF AdmitShed, Actors
<1>4. CASE AdmitWrite
  BY <1>4, AskedStays, StayIsExchange
     DEF AdmitWrite, ExchangeStays, gateVars, busVars, Impaired, raised
<1> QED
  BY <1>1, <1>2, <1>3, <1>4, AdmitRaisesExchange, RefuseExchange DEF CallbackNext

LEMMA WorkerExchange ==
  ASSUME Traded, WorkerNext
  PROVE  [Outside!ExchangeNext]_(Outside!exchangeVars)
<1>1. CASE WorkerTake
  <2>1. \A q \in Requests : stage'[q] = "outside" <=> stage[q] = "outside"
    BY <1>1, TakeStage DEF Traded, OwedInv, WorkerTake, EvictsAtMost
  <2> QED
    BY <1>1, <2>1, AskedStays, StayIsExchange DEF WorkerTake, ExchangeStays, busVars, Impaired, raised
<1>2. CASE WorkerShed
  <2>1. UNCHANGED <<stage, inbox, lost, main, bus>>
    BY <1>2 DEF WorkerShed, gateVars, busVars
  <2> QED
    BY <1>2, <2>1, ShedExchange DEF WorkerShed, Actors
<1>3. CASE Evaluate
  BY <1>3, AskedStays, StayIsExchange
     DEF Evaluate, ExchangeStays, gateVars, busVars, Impaired, raised
<1>4. CASE Reply
  <2>1. /\ UNCHANGED <<stage, inbox, lost, main, bus, raisedOwn, raisedMany>> /\ UNCHANGED raised
        /\ Asked' = Asked
    BY <1>4, AskedStays DEF Reply, Quote, gateVars, busVars, raised
  <2>2. PICK r \in Hand : \/ Respond(r, worker.reply) \/ Raises
                          \/ UNCHANGED <<answers, faults>>
    BY <1>4 DEF Reply, Quote
  <2>3. /\ r \in Asked /\ r \notin raisedOwn /\ answers[r] = <<>>
        /\ worker.reply \in Outside!ProperReplies
    BY <1>4, InHand, TakenIsAsked, HeldIsNotDropped DEF Traded, OwedInv, AnswersInv, WorkerInv, Reply
  <2>4. CASE Respond(r, worker.reply)
    BY <2>1, <2>3, <2>4, RespondIsAnswer
  <2>5. CASE Raises
    BY <2>1, <2>5, RaisesImpairs, StayIsExchange DEF Traded, OwedInv, ExchangeStays
  <2>6. CASE UNCHANGED <<answers, faults>>
    BY <2>1, <2>6, StayIsExchange DEF ExchangeStays, Impaired
  <2> QED
    BY <2>2, <2>4, <2>5, <2>6
<1>5. CASE Publish
  <2>1. PICK r \in Hand : Done(r) \/ UNCHANGED gateVars
    BY <1>5 DEF Publish
  <2>2. \A q \in Requests : stage'[q] = "outside" <=> stage[q] = "outside"
    BY <2>1, InHand, DoneStage DEF Traded, OwedInv, gateVars
  <2>3. Impaired => Impaired'
    BY <1>5 DEF Traded, OwedInv, FaultsInv, Publish, Fault, busVars, Impaired, raised
  <2> QED
    BY <1>5, <2>2, <2>3, AskedStays, StayIsExchange DEF Publish, ExchangeStays, busVars, raised
<1>6. CASE Fallback
  <2>1. PICK r \in Hand :
          Done(r) /\ (Respond(r, ErrorReply("VLAI_INTERNAL_ERROR")) \/ Raises)
    BY <1>6 DEF Fallback
  <2>2. /\ \A q \in Requests : stage'[q] = "outside" <=> stage[q] = "outside"
        /\ r \in Asked /\ r \in Requests /\ r \notin raisedOwn
    BY <2>1, InHand, DoneStage, TakenIsAsked, HeldIsNotDropped DEF Traded, OwedInv
  <2>3. UNCHANGED <<lost, main, raised>> /\ UNCHANGED raisedOwn /\ Asked' = Asked
    BY <1>6, <2>2, AskedStays DEF Fallback, busVars, raised
  <2>4. answers[r] = <<>> \/ (Len(answers[r]) = 1 /\ (Impaired \/ r \notin Fit))
    BY <1>6 DEF Traded, OwedInv, AnswersInv, Fallback, Fit
  <2>5. ErrorReply("VLAI_INTERNAL_ERROR") \in Outside!ProperReplies
    BY ErrorReplyProper DEF Outside!CodesOf
  <2>6. CASE Respond(r, ErrorReply("VLAI_INTERNAL_ERROR"))
    BY <2>2, <2>3, <2>4, <2>5, <2>6, RespondIsAnswer, RespondIsAgain
  <2>7. CASE Raises
    BY <2>3, <2>7, RaisesImpairs, StayIsExchange DEF Traded, OwedInv, ExchangeStays
  <2> QED
    BY <2>1, <2>6, <2>7
<1> QED
  BY <1>1, <1>2, <1>3, <1>4, <1>5, <1>6 DEF WorkerNext

LEMMA SweeperExchange ==
  ASSUME Traded, SweeperNext
  PROVE  [Outside!ExchangeNext]_(Outside!exchangeVars)
<1>1. CASE SweeperSweep
  <2>1. \A q \in Requests : stage'[q] = "outside" <=> stage[q] = "outside"
    BY <1>1, SweepStage DEF Traded, OwedInv, SweeperSweep, EvictsAtMost
  <2> QED
    BY <1>1, <2>1, AskedStays, StayIsExchange
       DEF SweeperSweep, ExchangeStays, busVars, Impaired, raised
<1>2. CASE SweeperShed
  <2>1. UNCHANGED <<stage, inbox, lost, main, bus>>
    BY <1>2 DEF SweeperShed, gateVars, busVars
  <2> QED
    BY <1>2, <2>1, ShedExchange DEF SweeperShed, Actors
<1> QED
  BY <1>1, <1>2 DEF SweeperNext

\* The inspector implements the exchange: what is asked of it is owed an answer
\* until it has one, by itself, with a verdict and a code that belong together. Only
\* a failure or the way out ends that for all, and only what raises by its own
\* content is given up, or answered twice, before.
THEOREM InspectorKeepsExchange == Spec => KeepsExchange
<1>1. Init => Outside!ExchangeInit
  <2> SUFFICES ASSUME Init PROVE Outside!ExchangeInit
    OBVIOUS
  <2>1. OwedInv /\ DroppedInv
    BY InitOwed DEF Init, DroppedInv
  <2>2. /\ Asked = {} /\ lost = {} /\ answers = [r \in Requests |-> <<>>]
        /\ Impaired = FALSE
    BY DEF Init, GateInit, Asked, Impaired
  <2>3. Owed = {}
    BY <2>1, <2>2, OwedIsDue DEF DueInv
  <2> QED
    BY <2>2, <2>3 DEF Outside!ExchangeInit
<1>2. Traded /\ [Next]_vars => [Outside!ExchangeNext]_(Outside!exchangeVars)
  <2> SUFFICES ASSUME Traded, [Next]_vars
               PROVE  [Outside!ExchangeNext]_(Outside!exchangeVars)
    OBVIOUS
  <2>1. CASE \E r \in Requests : Arrive(r)
    BY <2>1, ArriveExchange
  <2>2. CASE CallbackNext \/ WorkerNext \/ SweeperNext
    BY <2>2, CallbackExchange, WorkerExchange, SweeperExchange
  <2>3. CASE MainNext
    <3>1. /\ UNCHANGED <<stage, inbox, lost, answers, faults, raisedOwn, raisedMany>>
          /\ Impaired => Impaired'
      BY <2>3 DEF MainNext, NewGeneration, Stop, Abort, Drain, Drained, Exit, gateVars, busVars,
                  Impaired, raised
    <3> QED
      BY <3>1, AskedStays, StayIsExchange DEF ExchangeStays
  <2>4. CASE Pass
    BY <2>4, AskedStays, StayIsExchange DEF Pass, Tick, busVars, ExchangeStays, Impaired, raised
  <2>5. CASE UNCHANGED vars
    BY <2>5, AskedStays, StayIsExchange
       DEF vars, gateVars, busVars, ExchangeStays, Impaired, raised
  <2> QED
    BY <2>1, <2>2, <2>3, <2>4, <2>5 DEF Next
<1>3. OwedInv /\ DroppedInv => DueInv
  BY OwedIsDue
<1>4. OwedInv /\ DroppedInv /\ DueInv /\ DueInv' => Traded
  BY DEF Traded
<1> QED
  BY <1>1, <1>2, <1>3, <1>4, OwedInvariant, DroppedInvariant, PTL
     DEF Spec, KeepsExchange, Outside!ExchangeSpec

-----------------------------------------------------------------------------
(* The list writes and the answers *)

\* The error of a full queue, which the list rows are written behind.
RefusedOut(reply) == reply.code = "VLAI_QUEUE_LIMIT" /\ reply.verdict = "error"

\* What is written fits the first answer, and so does what is still to be written.
WritesInv ==
  /\ written \in [Requests -> SUBSET {"score", "list"}]
  /\ \A r \in Requests : written[r] # {} =>
       answers[r] # <<>> /\ RowsFit(answers[r][1], written[r])
  /\ worker.step = "respond" =>
       worker.bans \subseteq {"score", "list"} /\ RowsFit(worker.reply, worker.bans)
  /\ worker.step = "publish" =>
       /\ worker.bans \subseteq {"score", "list"}
       /\ \A r \in Hand : RowsFit(answers[r][1], worker.bans)
  /\ callback.step = "write" =>
       answers[callback.req] # <<>> /\ RefusedOut(answers[callback.req][1])

\* Rows that fit fit together, and so do some of them.
LEMMA RowsFitSome ==
  ASSUME NEW reply, NEW A, NEW B, RowsFit(reply, A), RowsFit(reply, B), NEW sent \in SUBSET B
  PROVE  RowsFit(reply, A \cup sent)
BY DEF RowsFit

\* An answer that has gone out stays the first.
LEMMA FirstAnswerStays ==
  ASSUME OwedInv, NEW r \in Requests, NEW reply \in Outside!ProperReplies, Respond(r, reply)
  PROVE  /\ \A q \in Requests : answers[q] # <<>> =>
                answers'[q] # <<>> /\ answers'[q][1] = answers[q][1]
         /\ \A q \in Requests \ {r} : answers'[q] = answers[q]
         /\ answers'[r] # <<>> /\ (answers[r] = <<>> => answers'[r][1] = reply)
<1>1. answers \in [Requests -> Seq(Outside!ProperReplies)]
  BY DEF OwedInv, AnswersInv
<1>2. /\ answers'[r] = Append(answers[r], reply) /\ answers'[r] # <<>>
      /\ \A q \in Requests \ {r} : answers'[q] = answers[q]
  BY <1>1, RespondedAnswers
<1>3. ASSUME answers[r] # <<>> PROVE answers'[r][1] = answers[r][1]
  <2>1. answers[r] \in Seq(Outside!ProperReplies) /\ 1 \in DOMAIN answers[r]
    BY <1>1, <1>3, EmptySeq, LenProperties
  <2> QED
    BY <1>2, <2>1, AppendElements
<1>4. ASSUME answers[r] = <<>> PROVE answers'[r][1] = reply
  BY <1>2, <1>4
<1> QED
  BY <1>2, <1>3, <1>4

\* A step that writes nothing, and answers at most one request that had no writes.
WritesKept ==
  /\ UNCHANGED written
  /\ \A q \in Requests : answers[q] # <<>> =>
       answers'[q] # <<>> /\ answers'[q][1] = answers[q][1]

LEMMA KeptFollows ==
  ASSUME WritesInv, WritesKept
  PROVE  /\ written' \in [Requests -> SUBSET {"score", "list"}]
         /\ \A r \in Requests : written'[r] # {} =>
              answers'[r] # <<>> /\ RowsFit(answers'[r][1], written'[r])
BY DEF WritesInv, WritesKept

LEMMA PublishFollows ==
  ASSUME WritesInv, NEW r \in Requests, NEW bans \in SUBSET {"score", "list"},
         PublishBans(r, bans), UNCHANGED answers, answers[r] # <<>>,
         RowsFit(answers[r][1], bans)
  PROVE  /\ written' \in [Requests -> SUBSET {"score", "list"}]
         /\ \A q \in Requests : written'[q] # {} =>
              answers'[q] # <<>> /\ RowsFit(answers'[q][1], written'[q])
<1>1. PICK sent \in SUBSET bans : written' = [written EXCEPT ![r] = @ \cup sent]
  BY DEF PublishBans
<1>2. written \in [Requests -> SUBSET {"score", "list"}]
  BY DEF WritesInv
<1>3. /\ written'[r] = written[r] \cup sent
      /\ \A q \in Requests \ {r} : written'[q] = written[q]
  BY <1>1, <1>2
<1>4. RowsFit(answers[r][1], written[r])
  BY DEF WritesInv, RowsFit
<1>5. RowsFit(answers[r][1], written'[r])
  <2>1. RowsFit(answers[r][1], written[r] \cup sent)
    BY <1>4, RowsFitSome
  <2> QED
    BY <1>3, <2>1
<1> QED
  BY <1>1, <1>2, <1>3, <1>5 DEF WritesInv

LEMMA WritesStep ==
  ASSUME OwedInv, WritesInv, [Next]_vars
  PROVE  WritesInv'
<1>0. OwedInv'
  BY NextOwed
<1>1. CASE AdmitShed \/ WorkerShed \/ SweeperShed
  <2>1. PICK q \in Requests : Respond(q, ErrorReply("VLAI_DEADLINE")) \/ UNCHANGED answers
    BY <1>1 DEF AdmitShed, WorkerShed, SweeperShed, Quote, ShedRaises, Raises, OwedInv, EvictedInv,
                Actors
  <2>2. ErrorReply("VLAI_DEADLINE") \in Outside!ProperReplies
    BY ErrorReplyProper DEF Outside!CodesOf
  <2>3. WritesKept
    BY <1>1, <2>1, <2>2, FirstAnswerStays
       DEF WritesKept, AdmitShed, WorkerShed, SweeperShed
  <2>4. /\ callback'.step = "write" => callback' = callback
        /\ worker'.step \in {"respond", "publish"} => UNCHANGED <<worker, stage>>
    BY <1>1 DEF AdmitShed, WorkerShed, SweeperShed, StartProcess, Idle, gateVars
  <2>5. callback.step = "write" => callback.req \in Requests
    BY DEF OwedInv, CallbackInv, Idle
  <2>6. worker.step = "publish" => \A r \in Hand : r \in Requests /\ answers[r] # <<>>
    <3>1. worker.step = "publish" => \A r \in Hand : Len(answers[r]) = 1
      BY DEF OwedInv, AnswersInv
    <3> QED
      BY <3>1, EmptySeq DEF Hand, Taken
  <2>7. /\ worker'.step = "publish" =>
             /\ worker'.bans \subseteq {"score", "list"}
             /\ \A r \in Hand' : RowsFit(answers'[r][1], worker'.bans)
        /\ worker'.step = "respond" =>
             worker'.bans \subseteq {"score", "list"} /\ RowsFit(worker'.reply, worker'.bans)
    BY <2>3, <2>4, <2>6 DEF WritesInv, WritesKept, Hand, Taken
  <2>8. callback'.step = "write" =>
          answers'[callback'.req] # <<>> /\ RefusedOut(answers'[callback'.req][1])
    BY <2>3, <2>4, <2>5 DEF WritesInv, WritesKept
  <2> QED
    BY <2>3, <2>7, <2>8, KeptFollows DEF WritesInv
<1>2. CASE AdmitRefuse
  <2> DEFINE r == callback.req
             reply == IF callback.step = "limit" THEN LimitReply(callback.profile)
                                                 ELSE ErrorReply("VLAI_DEADLINE")
  <2>1. r \in Requests /\ answers[r] = <<>> /\ r \notin Hand
    BY <1>2, InHand DEF OwedInv, CallbackInv, AnswersInv, AdmitRefuse, Idle
  <2>2. reply \in Outside!ProperReplies
    <3>1. "VLAI_DEADLINE" \in Outside!CodesOf.error
      BY DEF Outside!CodesOf
    <3> QED
      BY <3>1, ErrorReplyProper, LimitReplyProper
  <2>3. WritesKept /\ \A q \in Requests \ {r} : answers'[q] = answers[q]
    BY <1>2, <2>1, <2>2, FirstAnswerStays DEF WritesKept, AdmitRefuse, Quote, OwnRaises, Raises
  <2>4. callback'.step = "write" =>
          answers'[callback'.req] # <<>> /\ RefusedOut(answers'[callback'.req][1])
    <3>1. \/ callback' = Idle
          \/ /\ Respond(r, reply) /\ callback.step = "limit" /\ ~Muted(callback.profile)
             /\ callback' = [step |-> "write", req |-> r]
      BY <1>2 DEF AdmitRefuse, Quote
    <3>2. CASE /\ Respond(r, reply) /\ callback.step = "limit" /\ ~Muted(callback.profile)
               /\ callback' = [step |-> "write", req |-> r]
      <4>1. answers'[r] # <<>> /\ answers'[r][1] = reply
        BY <2>1, <2>2, <3>2, FirstAnswerStays
      <4> QED
        BY <3>2, <4>1 DEF LimitReply, RefusedOut, Muted
    <3>3. CASE callback' = Idle
      BY <3>3 DEF Idle
    <3> QED
      BY <3>1, <3>2, <3>3
  <2>5. UNCHANGED <<worker, stage>>
    BY <1>2 DEF AdmitRefuse, gateVars
  <2>6. \A q \in Hand : answers'[q] = answers[q]
    BY <2>1, <2>3 DEF Hand, Taken
  <2> QED
    BY <2>3, <2>4, <2>5, <2>6, KeptFollows DEF WritesInv, Hand, Taken
<1>3. CASE AdmitWrite
  <2>1. callback.req \in Requests /\ PublishBans(callback.req, {"list"})
    BY <1>3 DEF OwedInv, CallbackInv, AdmitWrite, Idle
  <2>2. RowsFit(answers[callback.req][1], {"list"}) /\ answers[callback.req] # <<>>
    BY <1>3 DEF WritesInv, AdmitWrite, RowsFit, RefusedOut
  <2>3. UNCHANGED <<answers, worker, stage>> /\ callback' = Idle
    BY <1>3 DEF AdmitWrite, gateVars
  <2> QED
    BY <2>1, <2>2, <2>3, PublishFollows DEF WritesInv, Hand, Taken, Idle
<1>4. CASE Evaluate
  <2>1. \/ worker'.step = "respond" /\ worker'.bans \subseteq {"score", "list"}
           /\ RowsFit(worker'.reply, worker'.bans)
        \/ worker'.step = "fallback"
    BY <1>4, EvaluatedProper DEF Evaluate, Hand, Taken, Proper
  <2>2. UNCHANGED <<answers, written, callback>>
    BY <1>4 DEF Evaluate
  <2> QED
    BY <2>1, <2>2 DEF WritesInv
<1>5. CASE Reply
  <2>1. PICK r \in Hand :
          \/ Respond(r, worker.reply) /\ worker' = [step |-> "publish", bans |-> worker.bans]
          \/ UNCHANGED answers /\ worker' = [step |-> "fallback"]
    BY <1>5 DEF Reply, Quote, Raises
  <2>2. /\ r \in Requests /\ answers[r] = <<>> /\ \A q \in Hand : q = r
        /\ worker.reply \in Outside!ProperReplies
    BY <1>5, InHand DEF OwedInv, AnswersInv, WorkerInv, Reply
  <2>3. WritesKept /\ \A q \in Requests \ {r} : answers'[q] = answers[q]
    BY <1>5, <2>1, <2>2, FirstAnswerStays DEF WritesKept, Reply
  <2>4. worker'.step = "publish" => worker'.bans = worker.bans /\ answers'[r][1] = worker.reply
    BY <2>1, <2>2, FirstAnswerStays
  <2>5. UNCHANGED <<stage, callback>> /\ worker'.step # "respond"
    BY <1>5, <2>1 DEF Reply, gateVars
  <2>6. worker'.step = "publish" =>
          /\ worker'.bans \subseteq {"score", "list"}
          /\ \A q \in Hand' : RowsFit(answers'[q][1], worker'.bans)
    BY <1>5, <2>2, <2>4, <2>5 DEF WritesInv, Reply, Hand, Taken
  <2>7. callback.step = "write" => callback.req \in Requests
    BY DEF OwedInv, CallbackInv, Idle
  <2>8. callback'.step = "write" =>
          answers'[callback'.req] # <<>> /\ RefusedOut(answers'[callback'.req][1])
    BY <2>3, <2>5, <2>7 DEF WritesInv, WritesKept
  <2> QED
    BY <2>3, <2>5, <2>6, <2>8, KeptFollows DEF WritesInv
<1>6. CASE Publish
  <2>1. PICK r \in Hand : PublishBans(r, worker.bans)
    BY <1>6 DEF Publish
  <2>2. r \in Requests /\ answers[r] # <<>>
    <3>1. r \in Requests /\ Len(answers[r]) = 1
      BY <1>6, InHand DEF OwedInv, AnswersInv, Publish
    <3> QED
      BY <3>1, EmptySeq
  <2>3. worker.bans \in SUBSET {"score", "list"} /\ RowsFit(answers[r][1], worker.bans)
    BY <1>6 DEF WritesInv, Publish
  <2>4. UNCHANGED <<answers, callback>> /\ worker'.step \in {"take", "fallback"}
    BY <1>6 DEF Publish
  <2> QED
    BY <2>1, <2>2, <2>3, <2>4, PublishFollows DEF WritesInv
<1>7. CASE Fallback
  <2>1. PICK r \in Hand : Respond(r, ErrorReply("VLAI_INTERNAL_ERROR")) \/ Raises
    BY <1>7 DEF Fallback
  <2>2. r \in Requests /\ ErrorReply("VLAI_INTERNAL_ERROR") \in Outside!ProperReplies
    BY InHand, ErrorReplyProper DEF Outside!CodesOf
  <2>3. WritesKept
    BY <1>7, <2>1, <2>2, FirstAnswerStays DEF WritesKept, Fallback, Raises
  <2>4. UNCHANGED callback /\ worker'.step \in {"take", "dead"}
    BY <1>7 DEF Fallback
  <2>5. callback.step = "write" => callback.req \in Requests
    BY DEF OwedInv, CallbackInv, Idle
  <2>6. callback'.step = "write" =>
          answers'[callback'.req] # <<>> /\ RefusedOut(answers'[callback'.req][1])
    BY <2>3, <2>4, <2>5 DEF WritesInv, WritesKept
  <2> QED
    BY <2>3, <2>4, <2>6, KeptFollows DEF WritesInv
<1>8. CASE Admit \/ AdmitResume
  <2>1. UNCHANGED <<answers, written, worker>>
    BY <1>8 DEF Admit, AdmitResume, Submitted
  <2>2. \A q \in Hand' : q \in Hand
    <3>1. \A q \in Requests : stage'[q] = "taken" => stage[q] = "taken"
      <4>1. CASE Admit
        <5>1. Head(inbox) \in Requests
          BY <4>1, HeadTailProperties DEF OwedInv, CallsInv, Admit
        <5> QED
          BY <4>1, <5>1, SubmitStage DEF OwedInv, Admit, EvictsAtMost
      <4>2. CASE AdmitResume
        BY <4>2, ResumeStage DEF OwedInv, CallsInv, AdmitResume, EvictsAtMost
      <4> QED
        BY <1>8, <4>1, <4>2
    <3> QED
      BY <3>1 DEF Hand, Taken
  <2>3. callback'.step # "write"
    <3>1. callback' = Idle \/ callback'.step \in Stages
      BY <1>0, <1>8 DEF OwedInv, CallbackInv, Admit, AdmitResume, Submitted, StageType, Stages
    <3> QED
      BY <3>1 DEF Idle, Stages
  <2> QED
    BY <2>1, <2>2, <2>3 DEF WritesInv
<1>9. CASE WorkerTake
  BY <1>9 DEF WritesInv, WorkerTake, StartProcess
<1>10. CASE SweeperSweep
  <2>1. \A q \in Hand' : q \in Hand
    BY <1>10, SweepStage DEF OwedInv, SweeperSweep, EvictsAtMost, Hand, Taken
  <2> QED
    BY <1>10, <2>1 DEF WritesInv, SweeperSweep
<1>11. CASE (\E r \in Requests : Arrive(r)) \/ AdmitRaises \/ MainNext \/ Pass \/ UNCHANGED vars
  <2>1. UNCHANGED <<answers, written, worker, callback, stage>>
    BY <1>11 DEF Arrive, AdmitRaises, MainNext, NewGeneration, Stop, Abort, Drain, Drained, Exit,
                 Pass, Tick, vars, gateVars
  <2> QED
    BY <2>1 DEF WritesInv, Hand, Taken
<1> QED
  BY <1>1, <1>2, <1>3, <1>4, <1>5, <1>6, <1>7, <1>8, <1>9, <1>10, <1>11
     DEF Next, CallbackNext, WorkerNext, SweeperNext

LEMMA WritesInvariant == Spec => []WritesInv
<1>1. Init => WritesInv
  BY DEF Init, WritesInv, Hand, Taken, Idle
<1>2. OwedInv /\ WritesInv /\ [Next]_vars => WritesInv'
  BY WritesStep
<1> QED
  BY <1>1, <1>2, OwedInvariant, PTL DEF Spec

\* publish_bans never writes a row for a request whose answer is of another kind, nor
\* before that answer has gone out.
THEOREM WritesAlwaysFollow == Spec => []WritesFollowAnswer
<1>1. WritesInv => WritesFollowAnswer
  BY DEF WritesInv, WritesFollowAnswer, RowsFit
<1> QED
  BY <1>1, WritesInvariant, PTL

-----------------------------------------------------------------------------
(* The fills *)

\* A fill is there for who is on the way through the gate, is that of a full queue
\* for who waits for room, and covers the places ahead of who joins.
OnTheWay(r) ==
  \/ stage[r] \in {"waiting", "queued"}
  \/ r \in Hand /\ worker.step = "shed"
  \/ \E a \in Actors : r \in toShed[a]

FillsInv ==
  /\ fills \in [Requests -> 0..100 \cup {NoFill}]
  /\ ~Impaired => \A r \in Requests : fills[r] # NoFill <=> OnTheWay(r)
  /\ \A r \in Waiting : fills[r] = 100
  /\ FillNeverTooLow

LEMMA DivisionMonotone ==
  ASSUME NEW a \in Nat, NEW b \in Nat, NEW m \in Nat \ {0}, a <= b
  PROVE  a \div m <= b \div m
OBVIOUS

LEMMA PercentBounds ==
  ASSUME NEW n \in Nat
  PROVE  /\ Percent(n) \in 0..100
         /\ n >= MaxSize => Percent(n) = 100
         /\ \A k \in Nat : k <= n /\ k < MaxSize => (100 * k) \div MaxSize <= Percent(n)
<1>1. MaxSize \in Nat \ {0}
  BY GateAssumption
<1>2. ASSUME NEW k \in Nat, k < MaxSize PROVE (100 * k) \div MaxSize \in 0..100
  BY <1>1, <1>2
<1>3. ASSUME n < MaxSize, NEW k \in Nat, k <= n
      PROVE  (100 * k) \div MaxSize <= (n * 100) \div MaxSize
  <2>1. 100 * k \in Nat /\ n * 100 \in Nat /\ 100 * k <= n * 100
    BY <1>3
  <2> QED
    BY <1>1, <2>1, DivisionMonotone
<1>4. n < MaxSize => (n * 100) \div MaxSize \in 0..100
  BY <1>1
<1> QED
  BY <1>1, <1>2, <1>3, <1>4 DEF Percent

LEMMA FiniteQueue ==
  ASSUME GateInv
  PROVE  /\ IsFiniteSet(Queued) /\ Cardinality(Queued) \in Nat
         /\ IsFiniteSet(Kept) /\ Cardinality(Kept) \in Nat
         /\ Cardinality(Kept) <= Cardinality(Queued)
<1>1. IsFiniteSet(Busy) /\ Kept \subseteq Queued /\ Queued \subseteq Busy
  BY DEF GateInv, Busy, Kept
<1>2. IsFiniteSet(Queued)
  BY <1>1, FS_Subset
<1> QED
  BY <1>1, <1>2, FS_Subset, FS_CardinalityType

LEMMA SubmitAhead ==
  ASSUME GateInv, NEW r \in Requests, NEW b, NEW full, Submit(r, b, full)
  PROVE  /\ stage'[r] = "waiting" => ~Room
         /\ stage'[r] = "queued" => Room /\ ahead'[r] = Kept
         /\ \A q \in Requests \ {r} : ahead'[q] = ahead[q]
BY DEF GateInv, GateTypeOK, Submit, Put, RefuseLimit, RefuseDeadline, WaitForSlot, AfterEviction

LEMMA ResumeAhead ==
  ASSUME GateInv, NEW r \in Requests, Wake(r) \/ Timeout(r)
  PROVE  /\ stage'[r] = "queued" => Room /\ ahead'[r] = Kept
         /\ \A q \in Requests \ {r} : ahead'[q] = ahead[q]
BY DEF GateInv, GateTypeOK, Wake, Timeout, Put, RefuseDeadline, WaitForSlot, AfterEviction

LEMMA TakeAhead ==
  ASSUME Take \/ Sweep
  PROVE  UNCHANGED ahead
BY DEF Take, Sweep

\* Who was evicted is still on the way, in other hands.
LEMMA WayKept ==
  ASSUME OwedInv, NEW a \in Actors, HandedTo(a), UNCHANGED worker,
         NEW q \in Requests, EvictsAtMost(q)
  PROVE  OnTheWay(q)' <=> OnTheWay(q)
<1>1. q \in Hand' <=> q \in Hand
  BY DEF EvictsAtMost, Hand, Taken
<1>2. CASE stage'[q] = stage[q]
  <2>1. (\E b \in Actors : q \in toShed'[b]) <=> \E b \in Actors : q \in toShed[b]
    BY <1>2 DEF HandedTo
  <2> QED
    BY <1>1, <1>2, <2>1 DEF OnTheWay
<1>3. CASE stage[q] = "queued" /\ stage'[q] = "stale"
  BY <1>3 DEF OnTheWay, HandedTo
<1> QED
  BY <1>2, <1>3 DEF EvictsAtMost

\* Whoever waits or is queued after a step that gives no fill did so before it.
LEMMA LowKept ==
  ASSUME FillsInv, NEW S \in SUBSET Requests,
         \A q \in Requests \ S : fills'[q] = fills[q] /\ ahead'[q] = ahead[q],
         \A q \in Requests : stage'[q] \in {"waiting", "queued"} =>
                               q \notin S /\ stage'[q] = stage[q]
  PROVE  (\A r \in Waiting' : fills'[r] = 100) /\ FillNeverTooLow'
BY DEF FillsInv, FillNeverTooLow, Waiting, Queued

LEMMA StillLow ==
  ASSUME FillsInv, UNCHANGED <<fills, ahead>>,
         \A q \in Requests : stage'[q] \in {"waiting", "queued"} => stage'[q] = stage[q]
  PROVE  (\A r \in Waiting' : fills'[r] = 100) /\ FillNeverTooLow'
BY DEF FillsInv, FillNeverTooLow, Waiting, Queued

LEMMA AdmitFills ==
  ASSUME OwedInv, GateInv, FillsInv, Admit
  PROVE  FillsInv'
<1> DEFINE fill == Percent(Cardinality(Queued))
<1>1. PICK r \in Requests : r = Head(inbox)
  BY HeadTailProperties DEF OwedInv, CallsInv, Admit
<1>2. PICK b, full : Submit(r, b, full)
  BY <1>1 DEF Admit
<1>3. /\ stage[r] = "outside" /\ stage'[r] \in {"waiting", "queued", "limit", "deadline"}
      /\ \A q \in Requests \ {r} : EvictsAtMost(q)
  BY <1>1, <1>2, SubmitStage DEF OwedInv
<1>4. /\ stage'[r] = "waiting" => ~Room
      /\ stage'[r] = "queued" => Room /\ ahead'[r] = Kept
      /\ \A q \in Requests \ {r} : ahead'[q] = ahead[q]
  BY <1>1, <1>2, SubmitAhead
<1>5. /\ fill \in 0..100
      /\ ~Room => fill = 100
      /\ Room => (100 * Cardinality(Kept)) \div MaxSize <= fill
  BY FiniteQueue, PercentBounds, GateAssumption DEF Room
<1>6. fills' = [fills EXCEPT ![r] = IF stage'[r] \in {"limit", "deadline"} THEN NoFill ELSE fill]
  BY <1>1 DEF Admit, Submitted
<1>7. HandedTo(Callback) /\ OwedInv'
  <2>1. StageType /\ EvictedInv /\ toShed' = [toShed EXCEPT ![Callback] = @ \cup Evicted]
    BY DEF OwedInv, Admit, Submitted
  <2> QED
    BY <1>1, <1>3, <2>1, EvictionHanded, AdmitOwed DEF Actors
<1>8. fills' \in [Requests -> 0..100 \cup {NoFill}]
  BY <1>5, <1>6 DEF FillsInv
<1>9. ~Impaired' => \A q \in Requests : fills'[q] # NoFill <=> OnTheWay(q)'
  <2>1. UNCHANGED worker /\ (Impaired' <=> Impaired)
    BY DEF Admit, Submitted, Impaired, raised
  <2>2. \A q \in Requests \ {r} : fills'[q] = fills[q] /\ (OnTheWay(q)' <=> OnTheWay(q))
    BY <1>3, <1>6, <1>7, <2>1, WayKept DEF FillsInv, Actors
  <2>3. OnTheWay(r)' <=> stage'[r] \in {"waiting", "queued"}
    <3>1. r \notin Hand'
      BY <1>3 DEF Hand, Taken
    <3>2. \A a \in Actors : r \notin toShed'[a]
      BY <1>3, <1>7 DEF HandedTo
    <3> QED
      BY <3>1, <3>2 DEF OnTheWay
  <2>4. fills'[r] # NoFill <=> stage'[r] \in {"waiting", "queued"}
    BY <1>1, <1>3, <1>5, <1>6 DEF FillsInv, NoFill
  <2> QED
    BY <2>1, <2>2, <2>3, <2>4 DEF FillsInv
<1>10. \A q \in Requests \ {r} :
         /\ fills'[q] = fills[q]
         /\ stage'[q] \in {"waiting", "queued"} => stage'[q] = stage[q]
  BY <1>3, <1>6 DEF FillsInv, EvictsAtMost
<1>11. \A q \in Waiting' : fills'[q] = 100
  BY <1>1, <1>4, <1>5, <1>6, <1>10 DEF FillsInv, Waiting
<1>12. FillNeverTooLow'
  <2>1. ASSUME NEW q \in Requests, stage'[q] = "queued"
        PROVE  fills'[q] >= (100 * Cardinality(ahead'[q])) \div MaxSize
    <3>1. CASE q = r
      <4>1. fills'[r] = fill
        BY <1>1, <1>6, <2>1, <3>1 DEF FillsInv
      <4> HIDE DEF fill
      <4>2. (100 * Cardinality(Kept)) \div MaxSize \in Int
        BY FiniteQueue, GateAssumption
      <4>3. fill \in Int /\ (100 * Cardinality(Kept)) \div MaxSize <= fill
        BY <1>4, <1>5, <2>1, <3>1
      <4> QED
        BY <1>4, <2>1, <3>1, <4>1, <4>2, <4>3
    <3>2. CASE q # r
      BY <1>4, <1>10, <2>1, <3>2 DEF FillsInv, FillNeverTooLow, Queued
    <3> QED
      BY <3>1, <3>2
  <2> QED
    BY <2>1 DEF FillNeverTooLow, Queued
<1> QED
  BY <1>8, <1>9, <1>11, <1>12 DEF FillsInv

LEMMA ResumeFills ==
  ASSUME OwedInv, GateInv, FillsInv, AdmitResume
  PROVE  FillsInv'
<1>1. PICK r \in Requests : r = callback.req /\ (Wake(r) \/ Timeout(r))
  BY DEF OwedInv, CallsInv, AdmitResume
<1>2. /\ stage[r] = "waiting" /\ stage'[r] \in {"waiting", "queued", "deadline"}
      /\ \A q \in Requests \ {r} : EvictsAtMost(q)
  BY <1>1, ResumeStage DEF OwedInv
<1>3. /\ stage'[r] = "queued" => Room /\ ahead'[r] = Kept
      /\ \A q \in Requests \ {r} : ahead'[q] = ahead[q]
  BY <1>1, ResumeAhead
<1>4. fills[r] = 100
  BY <1>1, <1>2 DEF FillsInv, Waiting
<1>5. fills' = [fills EXCEPT ![r] = IF stage'[r] \in {"limit", "deadline"} THEN NoFill ELSE 100]
  BY <1>1, <1>4 DEF AdmitResume, Submitted
<1>6. HandedTo(Callback)
  <2>1. StageType /\ EvictedInv /\ toShed' = [toShed EXCEPT ![Callback] = @ \cup Evicted]
    BY DEF OwedInv, AdmitResume, Submitted
  <2> QED
    BY <1>1, <1>2, <2>1, EvictionHanded DEF Actors
<1>7. fills' \in [Requests -> 0..100 \cup {NoFill}]
  <2>1. (IF stage'[r] \in {"limit", "deadline"} THEN NoFill ELSE 100) \in 0..100 \cup {NoFill}
    OBVIOUS
  <2> QED
    BY <1>5, <2>1 DEF FillsInv
<1>8. ~Impaired' => \A q \in Requests : fills'[q] # NoFill <=> OnTheWay(q)'
  <2>1. UNCHANGED worker /\ (Impaired' <=> Impaired)
    BY DEF AdmitResume, Submitted, busVars, Impaired, raised
  <2>2. \A q \in Requests \ {r} : fills'[q] = fills[q] /\ (OnTheWay(q)' <=> OnTheWay(q))
    BY <1>2, <1>5, <1>6, <2>1, WayKept DEF FillsInv, Actors
  <2>3. OnTheWay(r)' <=> stage'[r] \in {"waiting", "queued"}
    <3>1. r \notin Hand'
      BY <1>2 DEF Hand, Taken
    <3>2. \A a \in Actors : r \notin toShed'[a]
      BY <1>2, <1>6 DEF HandedTo
    <3> QED
      BY <3>1, <3>2 DEF OnTheWay
  <2>4. fills'[r] # NoFill <=> stage'[r] \in {"waiting", "queued"}
    BY <1>1, <1>2, <1>5 DEF FillsInv, NoFill
  <2> QED
    BY <2>1, <2>2, <2>3, <2>4 DEF FillsInv
<1>9. \A q \in Requests \ {r} :
        /\ fills'[q] = fills[q]
        /\ stage'[q] \in {"waiting", "queued"} => stage'[q] = stage[q]
  BY <1>2, <1>5 DEF FillsInv, EvictsAtMost
<1>10. \A q \in Waiting' : fills'[q] = 100
  BY <1>1, <1>5, <1>9 DEF FillsInv, Waiting
<1>11. FillNeverTooLow'
  <2>1. ASSUME NEW q \in Requests, stage'[q] = "queued"
        PROVE  fills'[q] >= (100 * Cardinality(ahead'[q])) \div MaxSize
    <3>1. CASE q = r
      <4>1. fills'[r] = 100 /\ ahead'[r] = Kept /\ Room
        BY <1>1, <1>3, <1>5, <2>1, <3>1 DEF FillsInv
      <4>2. /\ (100 * Cardinality(Kept)) \div MaxSize <= Percent(MaxSize)
            /\ Percent(MaxSize) = 100
        BY <4>1, FiniteQueue, PercentBounds, GateAssumption DEF Room
      <4>3. (100 * Cardinality(Kept)) \div MaxSize \in Int
        BY FiniteQueue, GateAssumption
      <4> QED
        BY <3>1, <4>1, <4>2, <4>3
    <3>2. CASE q # r
      BY <1>3, <1>9, <2>1, <3>2 DEF FillsInv, FillNeverTooLow, Queued
    <3> QED
      BY <3>1, <3>2
  <2> QED
    BY <2>1 DEF FillNeverTooLow, Queued
<1> QED
  BY <1>7, <1>8, <1>10, <1>11 DEF FillsInv

\* An evicted request that is answered is no longer on the way, and loses its fill.
LEMMA AnsweredLeaves ==
  ASSUME OwedInv, NEW a \in Actors, NEW q \in toShed[a],
         toShed' = [toShed EXCEPT ![a] = @ \ {q}], UNCHANGED stage
  PROVE  \A p \in Requests :
           (\E b \in Actors : p \in toShed'[b]) <=> p # q /\ \E b \in Actors : p \in toShed[b]
BY DEF OwedInv, EvictedInv

LEMMA ShedFills ==
  ASSUME OwedInv, FillsInv, AdmitShed \/ SweeperShed \/ WorkerShed
  PROVE  FillsInv'
<1>1. PICK a \in Actors, q \in Requests :
        /\ q \in toShed[a]
        /\ \/ /\ Quote(q, ErrorReply("VLAI_DEADLINE"))
              /\ toShed' = [toShed EXCEPT ![a] = @ \ {q}]
           \/ ShedRaises(q)
        /\ \/ fills' = [fills EXCEPT ![q] = NoFill] /\ UNCHANGED worker /\ a # Worker
           \/ /\ fills' = [fills EXCEPT ![q] = NoFill]
              /\ (worker.step = "shed" /\ worker'.step = "shed") \/ ShedRaises(q)
           \/ /\ fills' = [fills EXCEPT ![q] = NoFill]
              /\ worker.step = "shed" /\ worker'.step = "take" /\ Hand = {}
           \/ /\ \E r \in Hand : fills' = [[fills EXCEPT ![q] = NoFill] EXCEPT ![r] = NoFill]
              /\ worker.step = "shed" /\ worker'.step = "evaluate"
  <2>0. \A a \in Actors : toShed[a] \subseteq Requests
    BY DEF OwedInv, EvictedInv
  <2>1. CASE AdmitShed
    BY <2>0, <2>1, InspectorAssumption DEF AdmitShed, Actors
  <2>2. CASE SweeperShed
    BY <2>0, <2>2, InspectorAssumption DEF SweeperShed, Actors
  <2>3. CASE WorkerShed
    BY <2>0, <2>3 DEF WorkerShed, StartProcess, Actors, busVars
  <2> QED
    BY <2>1, <2>2, <2>3
<1>2. q \in Requests /\ stage[q] = "stale" /\ UNCHANGED <<stage, ahead, main, bus>>
  BY <1>1 DEF OwedInv, EvictedInv, AdmitShed, SweeperShed, WorkerShed, gateVars, busVars
<1>3. /\ \A r \in Hand : r \in Requests /\ stage[r] = "taken" /\ \A p \in Hand : p = r
      /\ Hand' = Hand
  BY <1>2, InHand DEF Hand, Taken
<1>4. /\ fills' \in [Requests -> 0..100 \cup {NoFill}]
      /\ fills'[q] = NoFill
      /\ \A p \in Requests \ ({q} \cup Hand) : fills'[p] = fills[p]
  BY <1>1, <1>2, <1>3 DEF FillsInv
<1>5. (\A p \in Waiting' : fills'[p] = 100) /\ FillNeverTooLow'
  <2>1. {q} \cup Hand \subseteq Requests
    BY <1>2, <1>3
  <2>2. \A p \in Requests : stage'[p] \in {"waiting", "queued"} => p \notin {q} \cup Hand
    BY <1>2, <1>3
  <2> QED
    BY <1>2, <1>4, <2>1, <2>2, LowKept
<1>6. ASSUME ~Impaired', NEW p \in Requests
      PROVE  fills'[p] # NoFill <=> OnTheWay(p)'
  <2>1. ~ShedRaises(q) /\ ~Impaired
    <3>1. ~ShedRaises(q)
      BY <1>2, <1>6, ShedRaisesImpairs DEF OwedInv
    <3>2. UNCHANGED <<faults, raisedMany>>
      BY <1>1, <3>1 DEF Quote, Respond, raised
    <3> QED
      BY <1>2, <1>6, <3>1, <3>2 DEF Impaired
  <2>2. (\E b \in Actors : p \in toShed'[b]) <=> p # q /\ \E b \in Actors : p \in toShed[b]
    BY <1>1, <1>2, <2>1, AnsweredLeaves
  <2>3. CASE p = q
    BY <1>2, <1>3, <1>4, <2>2, <2>3 DEF OnTheWay
  <2>4. CASE p # q /\ p \notin Hand
    BY <1>2, <1>3, <1>4, <1>6, <2>1, <2>2, <2>4 DEF OnTheWay, FillsInv
  <2>5. CASE p # q /\ p \in Hand
    <3>1. stage'[p] = "taken" /\ ~(\E b \in Actors : p \in toShed'[b])
      BY <1>2, <1>3, <2>2, <2>5, InHand
    <3>2. OnTheWay(p)' <=> worker'.step = "shed"
      BY <1>3, <2>5, <3>1 DEF OnTheWay
    <3>3. fills[p] # NoFill <=> worker.step = "shed"
      BY <1>2, <2>1, <2>5, <3>1, InHand DEF OnTheWay, FillsInv
    <3>4. CASE fills'[p] = fills[p] /\ (worker'.step = "shed" <=> worker.step = "shed")
      BY <3>2, <3>3, <3>4
    <3>5. CASE fills'[p] = NoFill /\ worker'.step # "shed"
      BY <3>2, <3>5
    <3> QED
      BY <1>1, <1>3, <2>1, <2>5, <3>4, <3>5 DEF FillsInv
  <2> QED
    BY <2>3, <2>4, <2>5
<1> QED
  BY <1>4, <1>5, <1>6 DEF FillsInv

LEMMA TakeFills ==
  ASSUME OwedInv, FillsInv, WorkerTake
  PROVE  FillsInv'
<1>1. /\ Taken = {} /\ Hand = {}
      /\ \A q \in Requests : EvictsAtMost(q) \/ (stage[q] = "queued" /\ stage'[q] = "taken")
      /\ \A q, r \in Taken' : q = r
  BY TakeStage DEF OwedInv, WorkerTake, Hand
<1>2. /\ worker.step = "take" /\ UNCHANGED <<ahead, main, faults, raisedMany>>
      /\ toShed' = [toShed EXCEPT ![Worker] = @ \cup Evicted]
  BY TakeAhead DEF OwedInv, EvictedInv, WorkerTake, busVars, raised
<1>3. HandedTo(Worker)
  BY <1>1, <1>2, EvictionHanded DEF OwedInv, Actors
<1>4. \A p \in Requests \ Hand' :
        EvictsAtMost(p) /\ (OnTheWay(p)' <=> OnTheWay(p))
  <2> SUFFICES ASSUME NEW p \in Requests, p \notin Hand'
               PROVE  EvictsAtMost(p) /\ (OnTheWay(p)' <=> OnTheWay(p))
    OBVIOUS
  <2>1. EvictsAtMost(p)
    BY <1>1 DEF Hand, Taken
  <2>2. p \notin Hand /\ p \notin Hand'
    BY <1>1
  <2>3. CASE stage'[p] = stage[p]
    <3>1. (\E b \in Actors : p \in toShed'[b]) <=> \E b \in Actors : p \in toShed[b]
      BY <1>3, <2>3 DEF HandedTo
    <3> QED
      BY <2>1, <2>2, <2>3, <3>1 DEF OnTheWay
  <2>4. CASE stage[p] = "queued" /\ stage'[p] = "stale"
    BY <1>3, <2>1, <2>2, <2>4 DEF OnTheWay, HandedTo, Actors
  <2> QED
    BY <2>1, <2>3, <2>4 DEF EvictsAtMost
<1>5. \A r \in Hand' : /\ r \in Requests /\ stage[r] = "queued" /\ stage'[r] = "taken"
                       /\ \A q \in Hand' : q = r
                       /\ \A b \in Actors : r \notin toShed'[b]
  BY <1>1, <1>3 DEF Hand, Taken, EvictsAtMost, HandedTo
<1>6. Impaired' <=> Impaired
  BY <1>2 DEF Impaired
<1>7. \/ /\ worker'.step = "evaluate"
         /\ \E r \in Hand' : fills' = [fills EXCEPT ![r] = NoFill]
      \/ worker'.step = "shed" /\ UNCHANGED fills
      \/ Hand' = {} /\ UNCHANGED fills
  BY DEF WorkerTake, StartProcess
<1>8. /\ fills' \in [Requests -> 0..100 \cup {NoFill}]
      /\ \A p \in Requests \ Hand' : fills'[p] = fills[p]
  BY <1>5, <1>7 DEF FillsInv
<1>9. (\A p \in Waiting' : fills'[p] = 100) /\ FillNeverTooLow'
  <2>1. Hand' \in SUBSET Requests
    BY <1>5
  <2>2. \A p \in Requests : stage'[p] \in {"waiting", "queued"} => p \notin Hand' /\ stage'[p] = stage[p]
    BY <1>1, <1>5 DEF EvictsAtMost
  <2> QED
    BY <1>2, <1>8, <2>1, <2>2, LowKept
<1>10. ASSUME ~Impaired', NEW r \in Hand' PROVE fills'[r] # NoFill <=> OnTheWay(r)'
  <2>1. OnTheWay(r)' <=> worker'.step = "shed"
    BY <1>5, <1>10 DEF OnTheWay
  <2>2. fills[r] # NoFill
    BY <1>5, <1>6, <1>10 DEF FillsInv, OnTheWay
  <2> QED
    BY <1>5, <1>7, <1>10, <2>1, <2>2 DEF FillsInv
<1>11. ~Impaired' => \A p \in Requests : fills'[p] # NoFill <=> OnTheWay(p)'
  BY <1>4, <1>6, <1>8, <1>10 DEF FillsInv
<1> QED
  BY <1>8, <1>9, <1>11 DEF FillsInv

\* The steps that leave the fills alone.
LEMMA OtherFills ==
  ASSUME OwedInv, FillsInv,
         \/ \E r \in Requests : Arrive(r)
         \/ AdmitRaises \/ AdmitRefuse \/ AdmitWrite \/ Evaluate \/ Reply \/ Publish \/ Fallback
         \/ SweeperSweep \/ MainNext \/ Pass \/ UNCHANGED vars
  PROVE  FillsInv'
<1>1. UNCHANGED <<fills, ahead>>
  BY TakeAhead
     DEF Arrive, AdmitRaises, AdmitRefuse, AdmitWrite, Evaluate, Reply, Publish, Fallback, SweeperSweep,
         MainNext, NewGeneration, Stop, Abort, Drain, Drained, Exit, Pass, Tick, Done, vars, gateVars
<1>2. ASSUME NEW r \in Hand, Done(r), worker.step # "shed", worker'.step # "shed", UNCHANGED toShed
      PROVE  /\ \A p \in Requests : stage'[p] \in {"waiting", "queued"} => stage'[p] = stage[p]
             /\ \A p \in Requests : OnTheWay(p)' <=> OnTheWay(p)
  BY <1>2, InHand, DoneStage DEF OwedInv, OnTheWay
<1>3. CASE SweeperSweep
  <2>1. \A p \in Requests : EvictsAtMost(p)
    BY <1>3, SweepStage DEF OwedInv, SweeperSweep
  <2>2. toShed' = [toShed EXCEPT ![Sweeper] = @ \cup Evicted] /\ UNCHANGED worker
    BY <1>3 DEF OwedInv, EvictedInv, SweeperSweep
  <2>3. HandedTo(Sweeper)
    BY <2>1, <2>2, EvictionHanded DEF OwedInv, Actors
  <2>4. \A p \in Requests : OnTheWay(p)' <=> OnTheWay(p)
    BY <2>1, <2>2, <2>3, WayKept DEF Actors
  <2>5. Impaired' <=> Impaired
    BY <1>3 DEF SweeperSweep, busVars, Impaired, raised
  <2>6. (\A p \in Waiting' : fills'[p] = 100) /\ FillNeverTooLow'
    BY <1>1, <2>1, StillLow DEF EvictsAtMost
  <2> QED
    BY <1>1, <2>4, <2>5, <2>6 DEF FillsInv
<1>4. CASE Stop
  <2>1. Impaired' /\ UNCHANGED stage
    BY <1>4 DEF Stop, Impaired, gateVars
  <2>2. (\A p \in Waiting' : fills'[p] = 100) /\ FillNeverTooLow'
    BY <1>1, <2>1, StillLow
  <2> QED
    BY <1>1, <2>1, <2>2 DEF FillsInv
<1>5. CASE ~SweeperSweep /\ ~Stop
  <2>1. Impaired => Impaired'
    BY <1>5
       DEF OwedInv, FaultsInv, Arrive, AdmitRaises, AdmitRefuse, AdmitWrite, Evaluate, Reply, Publish,
           Fallback, Quote, OwnRaises, Respond, Raises, Fault, MainNext, NewGeneration, Abort, Drain,
           Drained, Exit, Pass, vars, busVars, raised, Impaired
  <2>2. /\ \A p \in Requests : stage'[p] \in {"waiting", "queued"} => stage'[p] = stage[p]
        /\ \A p \in Requests : OnTheWay(p)' <=> OnTheWay(p)
    <3>1. CASE \E r \in Hand : /\ Done(r) /\ worker.step # "shed" /\ worker'.step # "shed"
                               /\ UNCHANGED toShed
      BY <1>2, <3>1
    <3>2. CASE /\ UNCHANGED <<stage, toShed>>
               /\ UNCHANGED worker \/ (worker.step # "shed" /\ worker'.step # "shed")
      BY <3>2 DEF OnTheWay, Hand, Taken
    <3> QED
      BY <1>5, <3>1, <3>2
         DEF Arrive, AdmitRaises, AdmitRefuse, AdmitWrite, Evaluate, Reply, Publish, Fallback, MainNext,
             NewGeneration, Abort, Drain, Drained, Exit, Pass, Tick, vars, gateVars
  <2>3. (\A p \in Waiting' : fills'[p] = 100) /\ FillNeverTooLow'
    BY <1>1, <2>2, StillLow
  <2> QED
    BY <1>1, <2>1, <2>2, <2>3 DEF FillsInv
<1> QED
  BY <1>3, <1>4, <1>5

LEMMA FillsInvariant == Spec => []FillsInv
<1>1. Init => FillsInv
  <2> SUFFICES ASSUME Init PROVE FillsInv
    OBVIOUS
  <2>1. /\ stage = [r \in Requests |-> "outside"] /\ worker = [step |-> "take"]
        /\ toShed = [a \in Actors |-> {}] /\ fills = [r \in Requests |-> NoFill]
    BY DEF Init, GateInit
  <2>2. \A r \in Requests : fills[r] = NoFill /\ ~OnTheWay(r)
    BY <2>1 DEF OnTheWay
  <2> QED
    BY <2>1, <2>2 DEF FillsInv, FillNeverTooLow, Waiting, Queued, NoFill
<1>2. OwedInv /\ GateInv /\ FillsInv /\ [Next]_vars => FillsInv'
  BY AdmitFills, ResumeFills, ShedFills, TakeFills, OtherFills
     DEF Next, CallbackNext, WorkerNext, SweeperNext
<1> QED
  BY <1>1, <1>2, OwedInvariant, InspectorUsesGate, GateInvariant, PTL DEF Spec

\* While nothing is impaired, that is before a send, a log or an evicted message has
\* ended a coroutine and main has begun to stop, the fills dict holds exactly the
\* messages on their way through the gate.
THEOREM FillsAreOfTheLive == Spec => []FillsOfTheLive
<1>1. FillsInv => FillsOfTheLive
  BY DEF FillsInv, FillsOfTheLive, OnTheWay
<1> QED
  BY <1>1, FillsInvariant, PTL

\* No request is taken for one of an emptier queue than the one it joined.
THEOREM FillsNeverTooLow == Spec => []FillNeverTooLow
<1>1. FillsInv => FillNeverTooLow
  BY DEF FillsInv
<1> QED
  BY <1>1, FillsInvariant, PTL

-----------------------------------------------------------------------------
(* The shapes of the coroutines' state *)

\* What the other invariants do not say of the types.
ScalarsInv ==
  /\ lost \subseteq Requests
  /\ sweeper \in {"run", "dead"}
  /\ bus \in {"open", "draining", "closed"}
  /\ main \in {"running", "stopping", "draining", "joining", "exited"}
  /\ faults \in 0..MaxFaults
  /\ raisedOwn \subseteq Requests /\ raisedMany \subseteq Requests

LEMMA FaultCounted ==
  ASSUME faults \in 0..MaxFaults, Fault
  PROVE  faults' \in 0..MaxFaults
BY InspectorAssumption DEF Fault

LEMMA ScalarsStep ==
  ASSUME OwedInv, ScalarsInv, [Next]_vars
  PROVE  ScalarsInv'
<1>0. /\ \A a \in Actors : toShed[a] \subseteq Requests
      /\ callback.step \in {"limit", "deadline"} => callback.req \in Requests
      /\ inbox # <<>> => Head(inbox) \in Requests
  BY HeadTailProperties DEF OwedInv, EvictedInv, CallbackInv, CallsInv, Idle
<1>1. CASE \E r \in Requests : Arrive(r)
  BY <1>1 DEF ScalarsInv, Arrive, raised
<1>2. CASE CallbackNext
  <2>1. CASE AdmitShed
    BY <1>0, <2>1, FaultCounted DEF ScalarsInv, AdmitShed, Quote, ShedRaises, Respond, Raises, busVars,
                                    raised, Actors
  <2>2. CASE AdmitRefuse
    BY <1>0, <2>2, FaultCounted DEF ScalarsInv, AdmitRefuse, Quote, OwnRaises, Respond, Raises, busVars,
                                    raised
  <2>3. CASE Admit \/ AdmitResume \/ AdmitWrite
    BY <2>3 DEF ScalarsInv, Admit, AdmitResume, Submitted, AdmitWrite, busVars, raised
  <2>4. CASE AdmitRaises
    BY <1>0, <2>4 DEF ScalarsInv, AdmitRaises
  <2> QED
    BY <1>2, <2>1, <2>2, <2>3, <2>4 DEF CallbackNext
<1>3. CASE WorkerNext
  <2>1. CASE WorkerShed
    BY <1>0, <2>1, FaultCounted DEF ScalarsInv, WorkerShed, Quote, ShedRaises, Respond, Raises, busVars,
                                    raised, Actors
  <2>2. CASE WorkerTake \/ Evaluate
    BY <2>2 DEF ScalarsInv, WorkerTake, Evaluate, busVars, raised
  <2>3. CASE Reply \/ Publish \/ Fallback
    BY <2>3, FaultCounted DEF ScalarsInv, Reply, Publish, Fallback, Quote, Respond, Raises, busVars, raised
  <2> QED
    BY <1>3, <2>1, <2>2, <2>3 DEF WorkerNext
<1>4. CASE SweeperNext
  BY <1>0, <1>4, FaultCounted
     DEF ScalarsInv, SweeperNext, SweeperSweep, SweeperShed, Quote, ShedRaises, Respond, Raises, busVars,
         raised, Actors
<1>5. CASE MainNext
  BY <1>5 DEF ScalarsInv, MainNext, NewGeneration, Stop, Abort, Drain, Drained, Exit, busVars, raised
<1>6. CASE Pass \/ UNCHANGED vars
  BY <1>6 DEF ScalarsInv, Pass, vars, busVars, raised
<1> QED
  BY <1>1, <1>2, <1>3, <1>4, <1>5, <1>6 DEF Next

LEMMA ProperIsReply == Outside!ProperReplies \subseteq Replies
BY DEF Outside!ProperReplies, Replies

\* The coroutines' state keeps its shape, the gate's inside it.
THEOREM InspectorTypeCorrect == Spec => []InspectorTypeOK
<1>1. Init => ScalarsInv
  BY InspectorAssumption DEF Init, ScalarsInv
<1>2. OwedInv /\ ScalarsInv /\ [Next]_vars => ScalarsInv'
  BY ScalarsStep
<1>3. OwedInv /\ GateInv /\ WritesInv /\ FillsInv /\ ScalarsInv => InspectorTypeOK
  <2> SUFFICES ASSUME OwedInv, GateInv, WritesInv, FillsInv, ScalarsInv PROVE InspectorTypeOK
    OBVIOUS
  <2>1. \A i \in DOMAIN inbox : inbox[i] \in Requests
    BY LenProperties, ElementOfSeq DEF OwedInv, CallsInv
  <2>2. callback = Idle \/ /\ callback.step \in {"waiting", "queued", "limit", "deadline", "write"}
                           /\ callback.req \in Requests
    BY DEF OwedInv, CallbackInv
  <2>3. \A r \in Requests : answers[r] \in Seq(Replies)
    <3>1. \A r \in Requests : answers[r] \in Seq(Outside!ProperReplies)
      BY DEF OwedInv, AnswersInv
    <3>2. Seq(Outside!ProperReplies) \subseteq Seq(Replies)
      BY ProperIsReply, SeqDef
    <3> QED
      BY <3>1, <3>2
  <2> QED
    BY <2>1, <2>2, <2>3
       DEF InspectorTypeOK, OwedInv, GateInv, WritesInv, FillsInv, ScalarsInv, WorkerInv,
           EvictedInv, CallsInv
<1> QED
  BY <1>1, <1>2, <1>3, OwedInvariant, WritesInvariant, FillsInvariant, InspectorUsesGate,
     GateInvariant, PTL DEF Spec
=============================================================================
