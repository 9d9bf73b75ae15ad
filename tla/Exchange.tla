------------------------------ MODULE Exchange ------------------------------
(***************************************************************************)
(* What the inspector promises the module that asks it: a request is       *)
(* answered by itself, once, with a verdict and a code that belongs to it; *)
(* only a request the subscription buffer had no room for is never looked  *)
(* at. What is asked is owed an answer until it has one. Two things end    *)
(* that: a request that is not fit, by what it carries, may be given up,   *)
(* or be answered a second time with VLAI_INTERNAL_ERROR; and once a       *)
(* coroutine has failed or the process is stopping ("impaired") nothing is *)
(* owed any more, and answers may be missing or repeated in the same way.  *)
(***************************************************************************)
EXTENDS Sequences

CONSTANTS Requests,
          Fit       \* those that no coroutine raises over

VARIABLES asked,    \* requests that reached the inspector
          lost,     \* requests the subscription buffer dropped
          answers,  \* the answers to each request, in the order they went out
          owed,     \* requests somebody has still to answer
          impaired  \* a coroutine has failed, or the process is stopping

exchangeVars == <<asked, lost, answers, owed, impaired>>

\* The codes evaluate, process and admit give with each verdict.
CodesOf ==
  [score |-> {"VLAI_SCORE"},
   allow |-> {"VLAI_NO_TEXT", "VLAI_SKIPPED", "VLAI_PROFILE_OFF", "VLAI_OBSERVE",
              "VLAI_QUEUE_LIMIT"},
   error |-> {"VLAI_STORE_UNAVAILABLE", "VLAI_UNKNOWN_PROFILE", "VLAI_DEADLINE",
              "VLAI_QUEUE_LIMIT", "VLAI_GEO_UNAVAILABLE", "VLAI_UNPARSEABLE",
              "VLAI_UNSUPPORTED_VERSION", "VLAI_PHASE_NOT_SUPPORTED",
              "VLAI_INTERNAL_ERROR"}]

InternalError == [verdict |-> "error", code |-> "VLAI_INTERNAL_ERROR", asks |-> FALSE]

\* An error carries requests to the neighbours only from a full queue.
ProperReplies ==
  UNION {{reply \in [verdict : {v}, code : CodesOf[v], asks : BOOLEAN] :
            reply.asks /\ v = "error" => reply.code = "VLAI_QUEUE_LIMIT"} :
         v \in DOMAIN CodesOf}

ExchangeInit ==
  /\ asked = {} /\ lost = {}
  /\ answers = [r \in Requests |-> <<>>]
  /\ owed = {}
  /\ impaired = FALSE

Ask(r) ==
  /\ r \notin asked \cup lost
  /\ asked' = asked \cup {r}
  /\ owed' = IF impaired THEN {} ELSE owed \cup {r}
  /\ UNCHANGED <<lost, answers, impaired>>

Overflow(r) ==
  /\ r \notin asked \cup lost
  /\ lost' = lost \cup {r}
  /\ UNCHANGED <<asked, answers, owed, impaired>>

Answer(r) ==
  /\ r \in asked /\ answers[r] = <<>>
  /\ impaired \/ r \in owed
  /\ \E reply \in ProperReplies : answers' = [answers EXCEPT ![r] = <<reply>>]
  /\ owed' = owed \ {r}
  /\ UNCHANGED <<asked, lost, impaired>>

AnswerAgain(r) ==
  /\ impaired \/ r \notin Fit
  /\ Len(answers[r]) = 1
  /\ answers' = [answers EXCEPT ![r] = Append(@, InternalError)]
  /\ UNCHANGED <<asked, lost, owed, impaired>>

\* The content of a request ends the coroutine that had to answer it.
GiveUp(r) ==
  /\ r \in owed \ Fit
  /\ owed' = owed \ {r}
  /\ UNCHANGED <<asked, lost, answers, impaired>>

Impair ==
  /\ ~impaired /\ impaired' = TRUE
  /\ owed' = {}
  /\ UNCHANGED <<asked, lost, answers>>

ExchangeNext ==
  \/ \E r \in Requests :
       Ask(r) \/ Overflow(r) \/ Answer(r) \/ AnswerAgain(r) \/ GiveUp(r)
  \/ Impair

ExchangeSpec == ExchangeInit /\ [][ExchangeNext]_exchangeVars

\* What is asked of a sound inspector, and fit to be answered, is answered.
Replied == \A r \in Fit : r \in asked ~> answers[r] # <<>> \/ impaired
=============================================================================
