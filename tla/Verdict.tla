------------------------------- MODULE Verdict --------------------------------
(***************************************************************************)
(* How one message is judged: decide.evaluate in its thread, with the      *)
(* extraction of the text from the exchange store and the score, and the   *)
(* overload rows that process adds (src/src/decide.py, text.py, store.py,  *)
(* score.py, profiles.py, main.py).                                        *)
(*                                                                         *)
(* The profile is read once and fixed for the message. What the message asks, what the   *)
(* store returns and how the model rates the text is chosen as the code    *)
(* comes to look at it.                                                    *)
(***************************************************************************)
EXTENDS Verdicts, Rows, Sequences, FiniteSets, FiniteSetsExt

CONSTANTS Profiles,    \* the profiles of the generation, as written, and NoProfile
          Acts,        \* the requests of neighbours a message may carry
          MaxActs,     \* bound on their number
          Severities,  \* the model's classes: their weights in quarters, 0 for an unknown one
          Confidences, \* its confidence, in percent
          Fills        \* how full the queue was, in percent

ASSUME VerdictAssumption ==
  /\ \A p \in Profiles \ {NoProfile} : p.outcomes \subseteq RawRow
  /\ \A act \in Acts : act.do \in {"threshold", "skip"} /\ act.delta \in Int
  /\ MaxActs \in Nat
  /\ Severities \subseteq 0..4 /\ Confidences \subseteq 0..100 /\ Fills \subseteq 0..100

VARIABLES
  written, \* the profile the route names, as written
  stage,   \* "load", "rejected", then where evaluate stands: "start", "prior", "body", "args", "engine",
           \* "returned", "raised", and "done" with process's rows
  message, \* whether it parses, its version and phase are served, it names a client;
           \* and whether the process has an exchange store
  profile, \* what the route's tag resolves to
  prior,   \* the neighbours' requests looked at
  percent, \* what they add up to
  skipped, \* one of them switches the check off
  body,    \* the body locator, and what the store gave for it
  args,    \* the same of the query string
  text,    \* the text found: Unset none, "short" or "long"
  score,   \* the score after scaling
  fill,    \* the fill process was given
  result   \* reply, asks and list writes

vars == <<written, stage, message, profile, prior, percent, skipped, body, args, text, score,
          fill, result>>

NoScore == -1
Unread == [locator |-> "unread", reply |-> "none"]
NoResult == [verdict |-> "none"]
Unseen == [parses |-> FALSE, served |-> FALSE, framed |-> FALSE, client |-> FALSE,
            store |-> FALSE]

-----------------------------------------------------------------------------
(* The rows *)

Fires(row, n) ==
  CASE row.compare = "exactly" -> n = row.at
    [] row.compare = "below"   -> n < row.at
    [] row.compare = "from"    -> n >= row.at

\* asks_on and bans_on for the score; a list row needs a client to write.
RowsOnScore(p, kind, n) ==
  {row \in p.outcomes : row.on = "score" /\ row.kind = kind /\ Fires(row, n)}

RowsOnOverload(p, kind, n) ==
  {row \in p.outcomes : row.on = "overload" /\ row.kind = kind /\ FiresOverload(row.at, n)}

WithClient(rows) == IF message.client THEN rows ELSE {}

Return(verdict, code) ==
  /\ stage' = "returned"
  /\ result' = [verdict |-> verdict, code |-> code, score |-> NoScore,
                asks |-> {}, bans |-> {}]

-----------------------------------------------------------------------------
(* evaluate *)

\* apply_manifest: the profile comes into force as a whole, or not at all.
Load ==
  /\ stage = "load"
  /\ IF ProfileReads(written) THEN stage' = "start" /\ profile' = Read(written)
                              ELSE stage' = "rejected" /\ UNCHANGED profile
  /\ UNCHANGED <<written, message, prior, percent, skipped, body, args, text, score, fill,
                 result>>

\* Up to the budget.
Start ==
  /\ stage = "start"
  /\ message' \in [DOMAIN Unseen -> BOOLEAN]
  /\ \/ ~message'.parses /\ Return("error", "VLAI_UNPARSEABLE")
     \/ /\ message'.parses /\ ~message'.served
        /\ Return("error", "VLAI_UNSUPPORTED_VERSION")
     \/ /\ message'.parses /\ message'.served /\ message'.framed
        /\ Return("error", "VLAI_PHASE_NOT_SUPPORTED")
     \/ /\ message'.parses /\ message'.served /\ ~message'.framed
        /\ \/ profile = NoProfile /\ Return("error", "VLAI_UNKNOWN_PROFILE")
           \/ /\ profile # NoProfile /\ profile.mode = "off"
              /\ Return("allow", "VLAI_PROFILE_OFF")
           \/ ~Muted(profile) /\ Return("error", "VLAI_DEADLINE")
           \/ ~Muted(profile) /\ stage' = "prior" /\ UNCHANGED result
  /\ UNCHANGED <<written, profile, prior, percent, skipped, body, args, text, score, fill>>

\* prior_match, and the test of the axis.
Applies(act) ==
  /\ act.apply = "request"
  /\ \E rule \in profile.prior : /\ act.from = rule.sender
                                 /\ act.do \in rule.accept
                                 /\ rule.codes = {} \/ act.code \in rule.codes

Clamp(n) == IF n < -100 THEN -100 ELSE IF n > 900 THEN 900 ELSE n

\* Mutated form: the sum is kept within its bounds at every step.
PriorClamped(act) ==
  /\ stage = "prior" /\ Len(prior) < MaxActs
  /\ prior' = Append(prior, act)
  /\ percent' = IF Applies(act) /\ act.do = "threshold" THEN Clamp(percent + act.delta)
                                                        ELSE percent
  /\ skipped' = (skipped \/ (Applies(act) /\ act.do = "skip"))
  /\ UNCHANGED <<written, stage, message, profile, body, args, text, score, fill, result>>

\* One turn of _prior_ask's loop. A threshold without a number adds nothing, as a
\* delta of 0. Without a rule no request has an effect, and none is looked at here.
Prior(act) ==
  /\ stage = "prior" /\ Len(prior) < MaxActs /\ profile.prior # {}
  /\ prior' = Append(prior, act)
  /\ percent' = IF Applies(act) /\ act.do = "threshold" THEN percent + act.delta ELSE percent
  /\ skipped' = (skipped \/ (Applies(act) /\ act.do = "skip"))
  /\ UNCHANGED <<written, stage, message, profile, body, args, text, score, fill, result>>

\* Mutated form: the skip counts only once the text has been looked for.
PriorsDoneLate ==
  /\ stage = "prior"
  /\ percent' = Clamp(percent)
  /\ stage' = "body" /\ UNCHANGED result
  /\ UNCHANGED <<written, message, profile, prior, skipped, body, args, text, score, fill>>

PriorsDone ==
  /\ stage = "prior"
  /\ percent' = Clamp(percent)
  /\ IF skipped THEN Return("allow", "VLAI_SKIPPED")
                ELSE stage' = "body" /\ UNCHANGED result
  /\ UNCHANGED <<written, message, profile, prior, skipped, body, args, text, score, fill>>

Texts == {"short", "long"}

Locators == {"absent", "unavailable", "unkeyed", "foreign", "redis"}

\* redis_get: no connection or a time-out, another reply than a bulk string, nil, an
\* end before the announced length; or the object, "blank" without a text in it.
RedisReplies == {"refused", "error", "nil", "cut", "blank"} \cup Texts

\* Where the store is asked for an object at all.
Asks(locator) == locator = "redis" /\ message.store

\* Mutated form: an object the store no longer has is taken for an empty one.
FetchNilIsBlank(locator, reply) ==
  CASE locator \in {"absent", "unavailable", "unkeyed"} -> "nothing"
    [] Asks(locator) /\ reply \in {"blank"} \cup Texts -> reply
    [] Asks(locator) /\ reply = "nil" -> "blank"
    [] OTHER -> "undelivered"

\* fetch: no object is asked for, it came, or it did not.
Fetch(locator, reply) ==
  CASE locator \in {"absent", "unavailable", "unkeyed"} -> "nothing"
    [] Asks(locator) /\ reply \in {"blank"} \cup Texts -> reply
    [] OTHER -> "undelivered"

Places ==
  {[locator |-> l, reply |-> "none"] : l \in {l \in Locators : ~Asks(l)}}
  \cup {[locator |-> l, reply |-> r] : l \in {l \in Locators : Asks(l)}, r \in RedisReplies}

\* MIN_CHARS; the text is cut at MAX_CHARS, which leaves it long.
Measured(found) ==
  /\ text' = found
  /\ IF found = "long" THEN stage' = "engine" /\ UNCHANGED result
                       ELSE Return("allow", "VLAI_NO_TEXT")

\* extract's first place. A JSON field and the raw body both make a text; an empty
\* or binary body is blank.
Body ==
  /\ stage = "body"
  /\ body' \in Places
  /\ LET got == Fetch(body'.locator, body'.reply) IN
       \/ got \in Texts /\ Measured(got)
       \/ got = "undelivered" /\ Return("error", "VLAI_STORE_UNAVAILABLE") /\ UNCHANGED text
       \/ got \in {"nothing", "blank"} /\ stage' = "args" /\ UNCHANGED <<text, result>>
  /\ UNCHANGED <<written, message, profile, prior, percent, skipped, args, score, fill>>

\* _from_args; "blank" has none of the fields.
Args ==
  /\ stage = "args"
  /\ args' \in Places
  /\ LET got == Fetch(args'.locator, args'.reply) IN
       \/ got \in Texts /\ Measured(got)
       \/ got = "undelivered" /\ Return("error", "VLAI_STORE_UNAVAILABLE") /\ UNCHANGED text
       \/ got \in {"nothing", "blank"} /\ Return("allow", "VLAI_NO_TEXT") /\ UNCHANGED text
  /\ UNCHANGED <<written, message, profile, prior, percent, skipped, body, score, fill>>

-----------------------------------------------------------------------------
(* The score *)

\* Python's round(n / 4): ties go to the even neighbour.
RoundQuarters(n) ==
  LET down == n \div 4 IN
    CASE n % 4 > 2 -> down + 1
      [] n % 4 < 2 -> down
      [] OTHER -> IF down % 2 = 0 THEN down ELSE down + 1

\* to_score: 100 * weight * confidence.
ToScore(severity, confidence) == RoundQuarters(severity * confidence)

\* Mutated form: the scaled score is not brought back to 100.
ScaleUncut(n, factor) ==
  IF factor = 0 \/ n <= 0 THEN (IF n < 0 THEN 0 ELSE n)
  ELSE (n * (100 + factor) + 50) \div 100

\* _scale, with the product exact: int(score * (1 + percent / 100) + 0.5).
Scale(n, factor) ==
  IF factor = 0 \/ n <= 0 THEN (IF n < 0 THEN 0 ELSE n)
  ELSE LET scaled == (n * (100 + factor) + 50) \div 100 IN
         IF scaled > 100 THEN 100 ELSE IF scaled < 0 THEN 0 ELSE scaled

\* deliver of a score.
Deliver(n) ==
  LET observed == profile.mode = "observe" IN
    /\ stage' = "returned" /\ score' = n
    /\ result' = [verdict |-> IF observed THEN "allow" ELSE "score",
                  code |-> IF observed THEN "VLAI_OBSERVE" ELSE "VLAI_SCORE",
                  score |-> IF observed THEN NoScore ELSE n,
                  asks |-> RowsOnScore(profile, "ask", n),
                  bans |-> WithClient(RowsOnScore(profile, "list", n))]

\* The inference returns, or raises out of evaluate. A score of 0 is no text.
Engine ==
  /\ stage = "engine"
  /\ \/ stage' = "raised" /\ UNCHANGED <<score, result>>
     \/ \E severity \in Severities, confidence \in Confidences :
          LET raw == ToScore(severity, confidence) IN
            IF raw <= 0 THEN Return("allow", "VLAI_NO_TEXT") /\ UNCHANGED score
                        ELSE Deliver(Scale(raw, percent))
  /\ UNCHANGED <<written, message, profile, prior, percent, skipped, body, args, text, fill>>

-----------------------------------------------------------------------------
(* process: the overload rows join whatever is no error and not muted *)

\* Mutated form: an error fires the rows too.
OverloadOnErrors ==
  /\ stage = "returned" /\ stage' = "done"
  /\ fill' \in Fills
  /\ result' =
       IF Muted(profile) THEN result
       ELSE [result EXCEPT !.asks = @ \cup RowsOnOverload(profile, "ask", fill'),
                           !.bans = @ \cup WithClient(RowsOnOverload(profile, "list", fill'))]
  /\ UNCHANGED <<written, message, profile, prior, percent, skipped, body, args, text, score>>

Overload ==
  /\ stage = "returned" /\ stage' = "done"
  /\ fill' \in Fills
  /\ result' =
       IF Muted(profile) \/ result.verdict = "error" THEN result
       ELSE [result EXCEPT !.asks = @ \cup RowsOnOverload(profile, "ask", fill'),
                           !.bans = @ \cup WithClient(RowsOnOverload(profile, "list", fill'))]
  /\ UNCHANGED <<written, message, profile, prior, percent, skipped, body, args, text, score>>

-----------------------------------------------------------------------------
Init ==
  /\ written \in Profiles
  /\ stage = IF written = NoProfile THEN "start" ELSE "load"
  /\ profile = NoProfile
  /\ message = Unseen
  /\ prior = <<>> /\ percent = 0 /\ skipped = FALSE
  /\ body = Unread /\ args = Unread /\ text = Unset
  /\ score = NoScore /\ fill = 0
  /\ result = NoResult

Next ==
  \/ Load \/ Start \/ (\E act \in Acts : Prior(act)) \/ PriorsDone
  \/ Body \/ Args \/ Engine \/ Overload

Spec == Init /\ [][Next]_vars

-----------------------------------------------------------------------------
(* Properties *)

\* The values of the variables.
VerdictTypeOK ==
  /\ stage \in {"load", "rejected", "start", "prior", "body", "args", "engine", "returned", "raised", "done"}
  /\ prior \in Seq(Acts) /\ Len(prior) <= MaxActs
  /\ stage \notin {"start", "prior"} => percent \in -100..900
  /\ skipped \in BOOLEAN
  /\ text \in {Unset} \cup Texts
  /\ score \in {NoScore} \cup 0..100
  /\ fill \in Fills \cup {0}

Ended == stage \in {"returned", "done"}

\* README.md: "the sum is kept within -100..900". The factor is the sum of what the
\* profile's rules accept, whatever the order of the requests, brought within its
\* bounds once.
FactorIsClampedSum ==
  stage \in {"body", "args", "engine"} \/ (Ended /\ score # NoScore) =>
    percent = Clamp(MapThenSumSet(LAMBDA i : prior[i].delta,
                                  {i \in DOMAIN prior : /\ prior[i].do = "threshold"
                                                        /\ Applies(prior[i])}))

\* README.md: "skip switches the check off before the buffer and the inference".
\* Wherever it stands among the requests, neither the store nor the model is asked
\* for a message that carries an accepted one, and its answer says so.
SkipSparesTheEngine ==
  (\E i \in DOMAIN prior : prior[i].do = "skip" /\ Applies(prior[i])) =>
    /\ body = Unread /\ args = Unread /\ score = NoScore
    /\ Ended => result.code = "VLAI_SKIPPED"

\* README.md: the text is taken "from the first place that has it". The query string
\* is read only behind a body without a text, and a store that fails is an error
\* there and then: no later place, and no missing text, stands in for it.
Fails(place) ==
  \/ place.locator = "foreign"
  \/ place.locator = "redis" /\ place.reply \notin {"blank"} \cup Texts

FirstPlaceDecides ==
  Ended =>
    /\ Fails(body) \/ Fails(args) <=> result.code = "VLAI_STORE_UNAVAILABLE"
    /\ args # Unread => body.reply \notin Texts
    /\ result.code \in {"VLAI_SCORE", "VLAI_OBSERVE"} =>
         "long" \in {body.reply, args.reply}

\* What Verdicts keeps of a profile, and of a result.
Kinds(rows) ==
  {kind \in {"score", "ask", "list"} :
     \E row \in rows : \/ kind = "score" /\ row.on = "score" /\ row.kind = "list"
                       \/ kind = row.kind /\ row.on = "overload"}

Abstract(p) ==
  IF p = NoProfile THEN NoProfile
  ELSE [mode |-> p.mode, overload |-> p.overload, rows |-> Kinds(p.outcomes),
        at |-> [kind \in {"ask", "list"} |->
                  Min({100} \cup {row.at : row \in {out \in p.outcomes :
                                             out.on = "overload" /\ out.kind = kind}})]]

Kind(m) ==
  CASE ~m.parses -> "garbage"
    [] m.parses /\ ~m.served -> "version"
    [] m.parses /\ m.served /\ m.framed -> "frame"
    [] OTHER -> "sound"

\* A message is judged as Verdicts, and so the model of the request handling,
\* allows: no other verdict and code, no asks of overload rows where it has none,
\* and no list write beyond those it expects.
WithinVerdicts ==
  stage = "done" =>
    \E out \in EvaluateMay(Kind(message), Abstract(profile), EvaluateCodes) :
      LET may == WithOverload(out, Abstract(profile), fill) IN
        /\ may.reply = [verdict |-> result.verdict, code |-> result.code,
                        asks |-> \E row \in result.asks : row.on = "overload"]
        /\ Kinds(result.bans) \subseteq may.bans

\* profiles.py refuses a field that its verb has no use for. What an accepted row of
\* an ask says is therefore in the ask, all of it: but for `write`, which the code
\* reads of list rows only, nothing written comes into force without effect.
NothingWrittenIsLost ==
  stage \notin {"load", "rejected"} /\ written # NoProfile =>
    \A raw \in {row \in written.outcomes : row.do # Unset} :
      \E ask \in {row.says : row \in {out \in profile.outcomes : out.kind = "ask"}} :
        /\ \A field \in DOMAIN ask \ {"apply", "ttl"} : ask[field] = raw[field]
        /\ raw.apply # Unset => ask.apply = raw.apply
        /\ Timed(raw) => ask.ttl = raw.ttl

\* The condition of a row in the words of README.md, "Outcome rows": "when the queue is
\* at least `at` percent full as the request joins it", where "without it only a dropped
\* request counts"; or the score that goes to the module.
HoldsAsWritten(raw) ==
  IF On(raw) = "overload" THEN raw.at # Absent /\ fill >= raw.at
  ELSE /\ score # NoScore
       /\ \/ raw.eq /\ score = raw.at
          \/ raw.below /\ score < raw.at
          \/ ~raw.eq /\ ~raw.below /\ score >= raw.at

\* The rows on which the code and README.md disagree: Outcome.fires_overload takes an
\* `at` of 100 for one that is not written.
FullOnly(raw) == On(raw) = "overload" /\ raw.at = 100

Answered == stage = "done" /\ ~Muted(profile) /\ result.verdict # "error"

AsksOf(raws) == {Ask(raw) : raw \in {w \in raws : w.do # Unset}}
WritesOf(raws) == WithClient({ListWrite(raw) : raw \in {w \in raws : w.do = Unset}})

\* What goes to the neighbours and to the lists is what the rows say whose condition
\* holds as README.md has it, no more, and no less but for the rows at 100, which the
\* code lets act for a dropped request only.
RowsActAsWritten ==
  Answered =>
    LET acting == {raw \in written.outcomes : HoldsAsWritten(raw)}
        beyond == {raw \in acting : ~FullOnly(raw)}
        asked == {row.says : row \in result.asks}
        listed == {row.says : row \in result.bans}
    IN  /\ AsksOf(beyond) \subseteq asked /\ asked \subseteq AsksOf(acting)
        /\ WritesOf(beyond) \subseteq listed /\ listed \subseteq WritesOf(acting)
=============================================================================
