---------------------------- MODULE VerdictProofs ----------------------------
(***************************************************************************)
(* What a message comes to, for every profile, every row in it and every   *)
(* sequence of requests: the places a text is taken from, the request that *)
(* switches the check off, the rows that act, the factor that scales the   *)
(* score, and that Verdicts allows what an evaluation comes to.            *)
(***************************************************************************)
EXTENDS Verdict, SumProofs, SequenceTheorems, TLAPS

Codes == {"VLAI_UNPARSEABLE", "VLAI_UNSUPPORTED_VERSION", "VLAI_PHASE_NOT_SUPPORTED",
          "VLAI_UNKNOWN_PROFILE", "VLAI_PROFILE_OFF", "VLAI_OBSERVE"} \cup EvaluateCodes

Early == {"load", "rejected", "start"}

\* The profile in force is the one written, read as a whole; the route may name none.
ProfileInv ==
  /\ written \in Profiles
  /\ written = NoProfile \/ stage \in {"load", "rejected"} => profile = NoProfile
  /\ written = NoProfile => stage \notin {"load", "rejected"}
  /\ written # NoProfile /\ stage \notin {"load", "rejected"} =>
       ProfileReads(written) /\ profile = Read(written)

\* What has not been looked at yet is as it was.
UntouchedInv ==
  /\ stage \in Early => prior = <<>> /\ percent = 0 /\ skipped = FALSE
  /\ stage \in Early \cup {"prior", "body"} => body = Unread
  /\ stage \in Early \cup {"prior", "body", "args"} => args = Unread
  /\ ~Ended => score = NoScore

ResultInv ==
  Ended => /\ DOMAIN result = {"verdict", "code", "score", "asks", "bans"}
           /\ result = [verdict |-> result.verdict, code |-> result.code,
                        score |-> result.score, asks |-> result.asks, bans |-> result.bans]
           /\ result.code \in Codes

\* An accepted skip is remembered, and no text is looked for behind it.
SkipInv ==
  /\ skipped <=> \E i \in DOMAIN prior : prior[i].do = "skip" /\ Applies(prior[i])
  /\ skipped => /\ stage \in {"prior", "returned", "done"}
                /\ body = Unread /\ args = Unread /\ score = NoScore
                /\ Ended => result.code = "VLAI_SKIPPED"

\* A place that fails ends the evaluation; one that has the text is the last.
PlaceInv ==
  /\ Fails(body) \/ Fails(args) => Ended /\ result.code = "VLAI_STORE_UNAVAILABLE"
  /\ Ended /\ result.code = "VLAI_STORE_UNAVAILABLE" => Fails(body) \/ Fails(args)
  /\ args # Unread \/ stage = "args" => body.reply \notin Texts
  /\ stage = "engine" \/ (Ended /\ result.code \in {"VLAI_SCORE", "VLAI_OBSERVE"}) =>
       "long" \in {body.reply, args.reply}

\* The rows in the result are those of the score, and once process is through with
\* it those of the fill of the queue.
OnScore(kind) == IF score = NoScore THEN {} ELSE RowsOnScore(profile, kind, score)

RowsInv ==
  /\ stage = "returned" =>
       /\ result.asks = OnScore("ask") /\ result.bans = WithClient(OnScore("list"))
       /\ score # NoScore =>
            result.verdict = IF profile.mode = "observe" THEN "allow" ELSE "score"
  /\ stage = "done" /\ ~Muted(profile) /\ result.verdict # "error" =>
       /\ result.asks = OnScore("ask") \cup RowsOnOverload(profile, "ask", fill)
       /\ result.bans =
            WithClient(OnScore("list")) \cup WithClient(RowsOnOverload(profile, "list", fill))

VerdictInv ==
  /\ VerdictTypeOK /\ percent \in Int
  /\ ProfileInv /\ UntouchedInv /\ ResultInv /\ SkipInv /\ PlaceInv /\ RowsInv

-----------------------------------------------------------------------------
(* The arithmetic of the score *)

LEMMA ClampBounds == ASSUME NEW n \in Int PROVE Clamp(n) \in -100..900
BY DEF Clamp

LEMMA ToScoreBounds ==
  ASSUME NEW severity \in 0..4, NEW confidence \in 0..100
  PROVE  ToScore(severity, confidence) \in 0..100
<1> DEFINE n == severity * confidence
<1>1. n \in 0..400
  <2>1. severity = 0 \/ severity = 1 \/ severity = 2 \/ severity = 3 \/ severity = 4
    OBVIOUS
  <2> QED
    BY <2>1
<1> HIDE DEF n
<1>2. /\ n \div 4 \in 0..100 /\ n % 4 \in 0..3 /\ n = 4 * (n \div 4) + (n % 4)
  <2>1. n \in Int /\ 0 <= n /\ n <= 400
    BY <1>1
  <2>2. n \div 4 \in Int /\ n % 4 \in 0..3 /\ n = 4 * (n \div 4) + (n % 4)
    BY <2>1
  <2> QED
    BY <2>1, <2>2
<1>3. n \div 4 + 1 <= 100 \/ n % 4 = 0
  BY <1>1, <1>2
<1>4. RoundQuarters(n) \in 0..100
  BY <1>2, <1>3 DEF RoundQuarters
<1> QED
  BY <1>4 DEF ToScore, n

LEMMA ScaleBounds ==
  ASSUME NEW n \in 0..100, NEW factor \in Int
  PROVE  Scale(n, factor) \in 0..100
<1> DEFINE scaled == (n * (100 + factor) + 50) \div 100
<1>1. scaled \in Int
  OBVIOUS
<1>2. Scale(n, factor) = IF factor = 0 \/ n <= 0 THEN (IF n < 0 THEN 0 ELSE n)
                         ELSE IF scaled > 100 THEN 100 ELSE IF scaled < 0 THEN 0 ELSE scaled
  BY DEF Scale
<1> HIDE DEF scaled
<1> QED
  BY <1>1, <1>2

-----------------------------------------------------------------------------
(* Up to the text *)

LEMMA LoadKeeps ==
  ASSUME VerdictInv, Load
  PROVE  VerdictInv'
<1>1. /\ stage = "load" /\ stage' \in {"start", "rejected"} /\ written' = written
      /\ UNCHANGED <<message, prior, percent, skipped, body, args, text, score, fill, result>>
      /\ stage' = "start" => ProfileReads(written) /\ profile' = Read(written)
      /\ stage' = "rejected" => profile' = profile
  BY DEF Load
<1>2. ProfileInv'
  BY <1>1 DEF VerdictInv, ProfileInv
<1>3. VerdictTypeOK' /\ percent' \in Int
  BY <1>1 DEF VerdictInv, VerdictTypeOK, UntouchedInv, Early
<1>4. UntouchedInv'
  BY <1>1 DEF VerdictInv, UntouchedInv, Early, Ended
<1>5. ResultInv' /\ RowsInv'
  BY <1>1 DEF ResultInv, RowsInv, Ended
<1>6. SkipInv'
  <2>1. prior' = <<>> /\ ~skipped'
    BY <1>1 DEF VerdictInv, UntouchedInv, Early
  <2>2. DOMAIN prior' = {}
    BY <2>1
  <2> QED
    BY <2>1, <2>2 DEF SkipInv
<1>7. PlaceInv'
  BY <1>1 DEF VerdictInv, PlaceInv, Ended, Fails, UntouchedInv, Early, Unread, Texts
<1> QED
  BY <1>2, <1>3, <1>4, <1>5, <1>6, <1>7 DEF VerdictInv

\* A result without a score has no rows yet.
LEMMA ReturnResult ==
  ASSUME VerdictInv, stage \notin {"returned", "done"}, NEW verdict, NEW code \in Codes,
         Return(verdict, code), UNCHANGED <<profile, message, score>>
  PROVE  /\ stage' = "returned" /\ ResultInv' /\ RowsInv' /\ Ended'
         /\ result'.code = code /\ score' = NoScore
<1>1. score' = NoScore
  BY DEF VerdictInv, UntouchedInv, Ended
<1>2. /\ stage' = "returned"
      /\ result' = [verdict |-> verdict, code |-> code, score |-> NoScore,
                    asks |-> {}, bans |-> {}]
  BY DEF Return
<1>3. ResultInv'
  BY <1>2 DEF ResultInv
<1>4. RowsInv'
  BY <1>1, <1>2 DEF RowsInv, OnScore, WithClient
<1> QED
  BY <1>1, <1>2, <1>3, <1>4 DEF Ended

\* The profile stays as it is from its load to the end.
LEMMA ProfileStays ==
  ASSUME ProfileInv, stage \notin {"load", "rejected"}, stage' \notin {"load", "rejected"},
         UNCHANGED <<written, profile>>
  PROVE  ProfileInv'
BY DEF ProfileInv

LEMMA StartKeeps ==
  ASSUME VerdictInv, Start
  PROVE  VerdictInv'
<1>1. /\ stage = "start" /\ prior = <<>> /\ percent = 0 /\ skipped = FALSE
      /\ body = Unread /\ args = Unread /\ score = NoScore
      /\ UNCHANGED <<written, profile, prior, percent, skipped, body, args, text, score, fill>>
  BY DEF VerdictInv, UntouchedInv, Early, Ended, Start
<1>2. \/ stage' = "prior"
      \/ \E verdict \in {"error", "allow"}, code \in Codes \ {"VLAI_STORE_UNAVAILABLE",
             "VLAI_SCORE", "VLAI_OBSERVE"} : Return(verdict, code)
  BY DEF Start, Codes, EvaluateCodes
<1>3. stage' \in {"prior", "returned"}
  BY <1>2 DEF Return
<1>4. ProfileInv'
  BY <1>1, <1>3, ProfileStays DEF VerdictInv
<1>5. VerdictTypeOK' /\ percent' \in Int /\ UntouchedInv'
  <2>1. VerdictTypeOK' /\ percent' \in Int
    <3>1. percent' \in Int /\ percent' \in -100..900
      BY <1>1
    <3>2. UNCHANGED <<prior, skipped, text, score, fill>>
      BY <1>1
    <3> QED
      BY <1>3, <3>1, <3>2 DEF VerdictInv, VerdictTypeOK
  <2>2. UntouchedInv'
    BY <1>1, <1>3 DEF UntouchedInv, Early, Ended
  <2> QED
    BY <2>1, <2>2
<1>6. DOMAIN prior' = {} /\ skipped' = FALSE
  BY <1>1
<1>7. SkipInv'
  BY <1>6 DEF SkipInv
<1>8. ~Fails(body)' /\ ~Fails(args)' /\ body.reply \notin Texts
  BY <1>1 DEF Fails, Unread, Texts
<1>9. CASE stage' = "prior"
  <2>1. ResultInv' /\ RowsInv'
    BY <1>9 DEF ResultInv, RowsInv, Ended
  <2>2. PlaceInv'
    BY <1>1, <1>8, <1>9 DEF PlaceInv, Ended
  <2> QED
    BY <1>4, <1>5, <1>7, <2>1, <2>2 DEF VerdictInv
<1>10. ASSUME NEW verdict \in {"error", "allow"},
              NEW code \in Codes \ {"VLAI_STORE_UNAVAILABLE", "VLAI_SCORE", "VLAI_OBSERVE"},
              Return(verdict, code)
       PROVE  VerdictInv'
  <2>1. /\ stage' = "returned" /\ ResultInv' /\ result'.code = code
    BY <1>10 DEF Return, ResultInv
  <2>2. RowsInv'
    BY <1>1, <1>10 DEF Return, RowsInv, OnScore, WithClient
  <2>3. PlaceInv'
    BY <1>1, <1>8, <2>1 DEF PlaceInv, Ended
  <2> QED
    BY <1>4, <1>5, <1>7, <2>1, <2>2, <2>3 DEF VerdictInv
<1> QED
  BY <1>2, <1>9, <1>10

-----------------------------------------------------------------------------
(* The neighbours' requests *)

LEMMA PriorKeeps ==
  ASSUME VerdictInv, NEW act \in Acts, Prior(act)
  PROVE  VerdictInv'
<1>1. /\ stage = "prior" /\ stage' = "prior" /\ prior' = Append(prior, act)
      /\ Len(prior) < MaxActs
      /\ skipped' = (skipped \/ (Applies(act) /\ act.do = "skip"))
      /\ UNCHANGED <<written, message, profile, body, args, text, score, fill, result>>
  BY DEF Prior
<1>2. /\ prior \in Seq(Acts) /\ prior' \in Seq(Acts) /\ Len(prior) \in Nat
      /\ DOMAIN prior = 1..Len(prior) /\ DOMAIN prior' = 1..(Len(prior) + 1)
      /\ Len(prior') = Len(prior) + 1
      /\ \A i \in 1..Len(prior) : prior'[i] = prior[i]
      /\ prior'[Len(prior) + 1] = act
  <2>1. prior \in Seq(Acts)
    BY DEF VerdictInv, VerdictTypeOK
  <2> QED
    BY <1>1, <2>1, AppendProperties, LenProperties
<1>3. percent' \in Int
  BY VerdictAssumption DEF VerdictInv, Prior
<1>4. VerdictTypeOK'
  <2>1. Len(prior') <= MaxActs
    BY <1>1, <1>2, VerdictAssumption
  <2> QED
    BY <1>1, <1>2, <2>1 DEF VerdictInv, VerdictTypeOK
<1>5. ProfileInv'
  BY <1>1, ProfileStays DEF VerdictInv
<1>6. UntouchedInv' /\ ResultInv' /\ RowsInv'
  BY <1>1 DEF VerdictInv, UntouchedInv, ResultInv, RowsInv, Early, Ended
<1>7. (skipped <=> \E i \in DOMAIN prior : prior[i].do = "skip" /\ Applies(prior[i]))'
  <2>1. \A i \in DOMAIN prior' : i \in DOMAIN prior \/ i = Len(prior) + 1
    BY <1>2
  <2>2. Len(prior) + 1 \in DOMAIN prior' /\ DOMAIN prior \subseteq DOMAIN prior'
    BY <1>2
  <2>3. skipped <=> \E i \in DOMAIN prior : prior[i].do = "skip" /\ Applies(prior[i])
    BY DEF VerdictInv, SkipInv
  <2>4. \A i \in DOMAIN prior : prior'[i] = prior[i] /\ (Applies(prior[i])' <=> Applies(prior[i]))
    BY <1>1, <1>2 DEF Applies
  <2>5. \A i : prior'[i] = act => (Applies(prior[i])' <=> Applies(act))
    BY <1>1 DEF Applies
  <2> QED
    BY <1>1, <1>2, <2>1, <2>2, <2>3, <2>4, <2>5
<1>8. SkipInv'
  <2>1. /\ stage' = "prior" /\ body' = Unread /\ args' = Unread /\ score' = NoScore
    BY <1>1 DEF VerdictInv, UntouchedInv, Early, Ended
  <2> QED
    BY <1>7, <2>1 DEF SkipInv, Ended
<1>9. PlaceInv'
  BY <1>1 DEF VerdictInv, PlaceInv, Fails, Ended
<1> QED
  BY <1>3, <1>4, <1>5, <1>6, <1>8, <1>9 DEF VerdictInv

\* The sum is brought within its bounds once; a skip ends the evaluation there.
LEMMA PriorsDoneKeeps ==
  ASSUME VerdictInv, PriorsDone
  PROVE  VerdictInv'
<1>1. /\ stage = "prior" /\ percent' = Clamp(percent)
      /\ UNCHANGED <<written, message, profile, prior, skipped, body, args, text, score, fill>>
      /\ body = Unread /\ args = Unread /\ score = NoScore
  BY DEF VerdictInv, UntouchedInv, Ended, PriorsDone
<1>2. \/ skipped /\ Return("allow", "VLAI_SKIPPED")
      \/ ~skipped /\ stage' = "body"
  BY DEF PriorsDone
<1>3. stage' \in {"returned", "body"}
  BY <1>2 DEF Return
<1>4. percent' \in Int /\ percent' \in -100..900
  <2>1. percent' \in -100..900
    BY <1>1, ClampBounds DEF VerdictInv
  <2> QED
    BY <2>1
<1>5. ProfileInv'
  BY <1>1, <1>3, ProfileStays DEF VerdictInv
<1>6. VerdictTypeOK'
  <2>1. UNCHANGED <<prior, skipped, text, score, fill>>
    BY <1>1
  <2> QED
    BY <1>3, <1>4, <2>1 DEF VerdictInv, VerdictTypeOK
<1>7. UntouchedInv'
  BY <1>1, <1>3 DEF UntouchedInv, Early, Ended
<1>8. (skipped <=> \E i \in DOMAIN prior : prior[i].do = "skip" /\ Applies(prior[i]))'
  BY <1>1 DEF VerdictInv, SkipInv, Applies
<1>9. ~Fails(body)' /\ ~Fails(args)' /\ body'.reply \notin Texts /\ args' = Unread
  BY <1>1 DEF Fails, Unread, Texts
<1>10. CASE ~skipped /\ stage' = "body"
  <2>1. ResultInv' /\ RowsInv'
    BY <1>10 DEF ResultInv, RowsInv, Ended
  <2>2. PlaceInv'
    BY <1>9, <1>10 DEF PlaceInv, Ended
  <2>3. SkipInv'
    BY <1>1, <1>8, <1>10 DEF SkipInv
  <2> QED
    BY <1>4, <1>5, <1>6, <1>7, <2>1, <2>2, <2>3 DEF VerdictInv
<1>11. CASE Return("allow", "VLAI_SKIPPED")
  <2>1. "VLAI_SKIPPED" \in Codes
    BY DEF Codes, EvaluateCodes
  <2>2. /\ stage' = "returned" /\ ResultInv' /\ RowsInv'
        /\ result'.code = "VLAI_SKIPPED"
    BY <1>1, <1>11, <2>1, ReturnResult
  <2>3. PlaceInv'
    BY <1>9, <2>2 DEF PlaceInv, Ended
  <2>4. SkipInv'
    BY <1>1, <1>8, <2>2 DEF SkipInv
  <2> QED
    BY <1>4, <1>5, <1>6, <1>7, <2>2, <2>3, <2>4 DEF VerdictInv
<1> QED
  BY <1>2, <1>10, <1>11

-----------------------------------------------------------------------------
(* The places of the text *)

\* What a place gives: its own text, and only a store that was asked has one.
LEMMA PlaceGives ==
  ASSUME NEW place \in Places
  PROVE  LET got == Fetch(place.locator, place.reply) IN
           /\ got = "undelivered" <=> Fails(place)
           /\ got \in Texts => place.reply = got
           /\ got \in {"nothing", "blank"} => place.reply \notin Texts
           /\ got \in Texts \cup {"undelivered", "nothing", "blank"}
<1> DEFINE got == Fetch(place.locator, place.reply)
<1>1. /\ place.locator \in Locators
      /\ Asks(place.locator) => place.reply \in RedisReplies
      /\ ~Asks(place.locator) => place.reply = "none"
  BY DEF Places
<1>2. CASE place.locator \in {"absent", "unavailable", "unkeyed"}
  BY <1>1, <1>2 DEF Fetch, Fails, Asks, Texts
<1>3. CASE place.locator = "foreign"
  BY <1>1, <1>3 DEF Fetch, Fails, Asks, Texts
<1>4. CASE place.locator = "redis" /\ ~message.store
  BY <1>1, <1>4 DEF Fetch, Fails, Asks, Texts
<1>5. CASE place.locator = "redis" /\ message.store
  BY <1>1, <1>5 DEF Fetch, Fails, Asks, Texts, RedisReplies
<1> QED
  BY <1>1, <1>2, <1>3, <1>4, <1>5 DEF Locators

\* A text that is found is measured, and ends the search.
LEMMA MeasuredResult ==
  ASSUME VerdictInv, stage \notin {"returned", "done"}, NEW found \in Texts, Measured(found),
         UNCHANGED <<profile, message, score>>
  PROVE  /\ stage' \in {"engine", "returned"} /\ text' \in Texts
         /\ stage' = "engine" => found = "long"
         /\ ResultInv' /\ RowsInv'
         /\ stage' = "returned" => result'.code = "VLAI_NO_TEXT"
<1>1. CASE found = "long"
  <2>1. stage' = "engine" /\ text' = found
    BY <1>1 DEF Measured
  <2> QED
    BY <1>1, <2>1 DEF ResultInv, RowsInv, Ended
<1>2. CASE found # "long"
  <2>1. Return("allow", "VLAI_NO_TEXT") /\ text' = found /\ "VLAI_NO_TEXT" \in Codes
    BY <1>2 DEF Measured, Codes, EvaluateCodes
  <2> QED
    BY <2>1, ReturnResult
<1> QED
  BY <1>1, <1>2

\* A step behind the requests, which were not switched off.
LEMMA BehindPriors ==
  ASSUME VerdictInv, stage \in {"body", "args", "engine"},
         stage' \in {"args", "engine", "returned", "raised"}, text' \in {Unset} \cup Texts,
         score' \in {NoScore} \cup 0..100,
         UNCHANGED <<written, message, profile, prior, percent, skipped, fill>>
  PROVE  VerdictTypeOK' /\ percent' \in Int /\ ProfileInv' /\ SkipInv' /\ ~skipped
<1>1. ~skipped /\ ~skipped'
  <2>1. ~skipped
    BY DEF VerdictInv, SkipInv
  <2> QED
    BY <2>1
<1>2. (skipped <=> \E i \in DOMAIN prior : prior[i].do = "skip" /\ Applies(prior[i]))'
  BY DEF VerdictInv, SkipInv, Applies
<1>3. SkipInv'
  BY <1>1, <1>2 DEF SkipInv
<1>4. ProfileInv'
  BY ProfileStays DEF VerdictInv
<1>5. VerdictTypeOK' /\ percent' \in Int
  <2>1. /\ prior \in Seq(Acts) /\ Len(prior) <= MaxActs
        /\ skipped \in BOOLEAN /\ fill \in Fills \cup {0}
    BY DEF VerdictInv, VerdictTypeOK
  <2>2. percent \in -100..900 /\ percent \in Int
    <3>1. stage \notin {"start", "prior"} => percent \in -100..900
      BY DEF VerdictInv, VerdictTypeOK
    <3>2. stage \notin {"start", "prior"}
      OBVIOUS
    <3>3. percent \in -100..900
      BY <3>1, <3>2
    <3> QED
      BY <3>3
  <2> QED
    BY <2>1, <2>2 DEF VerdictTypeOK
<1> QED
  BY <1>1, <1>3, <1>4, <1>5

LEMMA BodyKeeps ==
  ASSUME VerdictInv, Body
  PROVE  VerdictInv'
<1> DEFINE got == Fetch(body'.locator, body'.reply)
<1>1. /\ stage = "body" /\ body' \in Places /\ args' = args
      /\ UNCHANGED <<written, message, profile, prior, percent, skipped, args, score, fill>>
      /\ score = NoScore /\ args = Unread
  BY DEF VerdictInv, UntouchedInv, Ended, Body
<1>2. /\ got = "undelivered" <=> Fails(body)'
      /\ got \in Texts => body'.reply = got
      /\ got \in {"nothing", "blank"} => body'.reply \notin Texts
  <2>1. got = "undelivered" <=> (body'.locator = "foreign"
          \/ (body'.locator = "redis" /\ body'.reply \notin {"blank"} \cup Texts))
    BY <1>1, PlaceGives DEF Fails
  <2> QED
    BY <1>1, <2>1, PlaceGives DEF Fails
<1>3. ~Fails(args)' /\ args' = Unread
  BY <1>1 DEF Fails, Unread
<1>4. text \in {Unset} \cup Texts /\ score' = NoScore /\ score' \in {NoScore} \cup 0..100
  BY <1>1 DEF VerdictInv, VerdictTypeOK
<1>5. CASE got \in Texts /\ Measured(got)
  <2>1. /\ stage' \in {"engine", "returned"} /\ text' \in Texts
        /\ stage' = "engine" => got = "long"
        /\ ResultInv' /\ RowsInv'
        /\ stage' = "returned" => result'.code = "VLAI_NO_TEXT"
    BY <1>1, <1>5, MeasuredResult
  <2>2. VerdictTypeOK' /\ percent' \in Int /\ ProfileInv' /\ SkipInv'
    BY <1>1, <1>4, <2>1, BehindPriors
  <2>3. UntouchedInv'
    BY <1>3, <1>4, <2>1 DEF UntouchedInv, Early
  <2>4. "undelivered" \notin Texts
    BY DEF Texts
  <2>5. PlaceInv'
    BY <1>2, <1>3, <1>5, <2>1, <2>4 DEF PlaceInv, Ended
  <2> QED
    BY <2>1, <2>2, <2>3, <2>5 DEF VerdictInv
<1>6. CASE got = "undelivered" /\ Return("error", "VLAI_STORE_UNAVAILABLE") /\ text' = text
  <2>1. "VLAI_STORE_UNAVAILABLE" \in Codes
    BY DEF Codes, EvaluateCodes
  <2>2. /\ stage' = "returned" /\ ResultInv' /\ RowsInv' /\ Ended'
        /\ result'.code = "VLAI_STORE_UNAVAILABLE"
    BY <1>1, <1>6, <2>1, ReturnResult
  <2>3. VerdictTypeOK' /\ percent' \in Int /\ ProfileInv' /\ SkipInv'
    BY <1>1, <1>4, <1>6, <2>2, BehindPriors
  <2>4. UntouchedInv'
    BY <1>3, <1>4, <2>2 DEF UntouchedInv, Early
  <2>5. PlaceInv'
    BY <1>2, <1>3, <1>6, <2>2 DEF PlaceInv
  <2> QED
    BY <2>2, <2>3, <2>4, <2>5 DEF VerdictInv
<1>7. CASE got \in {"nothing", "blank"} /\ stage' = "args" /\ UNCHANGED <<text, result>>
  <2>1. VerdictTypeOK' /\ percent' \in Int /\ ProfileInv' /\ SkipInv'
    BY <1>1, <1>4, <1>7, BehindPriors
  <2>2. UntouchedInv' /\ ResultInv' /\ RowsInv'
    BY <1>3, <1>4, <1>7 DEF UntouchedInv, Early, ResultInv, RowsInv, Ended
  <2>3. PlaceInv'
    BY <1>2, <1>3, <1>7 DEF PlaceInv, Ended
  <2> QED
    BY <2>1, <2>2, <2>3 DEF VerdictInv
<1> QED
  BY <1>5, <1>6, <1>7 DEF Body

LEMMA ArgsKeeps ==
  ASSUME VerdictInv, Args
  PROVE  VerdictInv'
<1> DEFINE got == Fetch(args'.locator, args'.reply)
<1>1. /\ stage = "args" /\ args' \in Places /\ body' = body
      /\ UNCHANGED <<written, message, profile, prior, percent, skipped, score, fill>>
      /\ score = NoScore /\ body.reply \notin Texts
  BY DEF VerdictInv, UntouchedInv, PlaceInv, Ended, Args
<1>2. /\ got = "undelivered" <=> Fails(args)'
      /\ got \in Texts => args'.reply = got
  <2>1. got = "undelivered" <=> (args'.locator = "foreign"
          \/ (args'.locator = "redis" /\ args'.reply \notin {"blank"} \cup Texts))
    BY <1>1, PlaceGives DEF Fails
  <2> QED
    BY <1>1, <2>1, PlaceGives DEF Fails
<1>3. ~Fails(body)' /\ body'.reply \notin Texts
  <2>1. ~Fails(body)
    BY <1>1 DEF VerdictInv, PlaceInv, Ended
  <2> QED
    BY <1>1, <2>1 DEF Fails
<1>4. text \in {Unset} \cup Texts /\ score' = NoScore /\ score' \in {NoScore} \cup 0..100
  BY <1>1 DEF VerdictInv, VerdictTypeOK
<1>5. CASE got \in Texts /\ Measured(got)
  <2>1. /\ stage' \in {"engine", "returned"} /\ text' \in Texts
        /\ stage' = "engine" => got = "long"
        /\ ResultInv' /\ RowsInv'
        /\ stage' = "returned" => result'.code = "VLAI_NO_TEXT"
    BY <1>1, <1>5, MeasuredResult
  <2>2. VerdictTypeOK' /\ percent' \in Int /\ ProfileInv' /\ SkipInv'
    BY <1>1, <1>4, <2>1, BehindPriors
  <2>3. UntouchedInv'
    BY <1>4, <2>1 DEF UntouchedInv, Early
  <2>4. "undelivered" \notin Texts
    BY DEF Texts
  <2>5. PlaceInv'
    BY <1>2, <1>3, <1>5, <2>1, <2>4 DEF PlaceInv, Ended
  <2> QED
    BY <2>1, <2>2, <2>3, <2>5 DEF VerdictInv
<1>6. CASE \E verdict \in {"error", "allow"}, code \in {"VLAI_STORE_UNAVAILABLE", "VLAI_NO_TEXT"} :
             /\ got = "undelivered" <=> code = "VLAI_STORE_UNAVAILABLE"
             /\ Return(verdict, code) /\ text' = text
  <2>1. PICK verdict \in {"error", "allow"}, code \in {"VLAI_STORE_UNAVAILABLE", "VLAI_NO_TEXT"} :
             /\ got = "undelivered" <=> code = "VLAI_STORE_UNAVAILABLE"
             /\ Return(verdict, code) /\ text' = text
    BY <1>6
  <2>2. code \in Codes
    BY DEF Codes, EvaluateCodes
  <2>3. /\ stage' = "returned" /\ ResultInv' /\ RowsInv' /\ Ended' /\ result'.code = code
    BY <1>1, <2>1, <2>2, ReturnResult
  <2>4. VerdictTypeOK' /\ percent' \in Int /\ ProfileInv' /\ SkipInv'
    BY <1>1, <1>4, <2>1, <2>3, BehindPriors
  <2>5. UntouchedInv'
    BY <1>4, <2>3 DEF UntouchedInv, Early
  <2>6. PlaceInv'
    BY <1>2, <1>3, <2>1, <2>3 DEF PlaceInv
  <2> QED
    BY <2>3, <2>4, <2>5, <2>6 DEF VerdictInv
<1> QED
  BY <1>5, <1>6 DEF Args

-----------------------------------------------------------------------------
(* The score and the rows *)

LEMMA EngineKeeps ==
  ASSUME VerdictInv, Engine
  PROVE  VerdictInv'
<1>1. /\ stage = "engine"
      /\ UNCHANGED <<written, message, profile, prior, percent, skipped, body, args, text, fill>>
      /\ score = NoScore /\ percent \in Int /\ text \in {Unset} \cup Texts
  BY DEF VerdictInv, VerdictTypeOK, UntouchedInv, Ended, Engine
<1>2. /\ ~Fails(body)' /\ ~Fails(args)' /\ "long" \in {body'.reply, args'.reply}
      /\ args' # Unread => body'.reply \notin Texts
  <2>1. /\ ~Fails(body) /\ ~Fails(args) /\ "long" \in {body.reply, args.reply}
        /\ args # Unread => body.reply \notin Texts
    BY <1>1 DEF VerdictInv, PlaceInv, Ended
  <2> QED
    BY <1>1, <2>1 DEF Fails
<1>3. CASE stage' = "raised" /\ UNCHANGED <<score, result>>
  <2>1. VerdictTypeOK' /\ percent' \in Int /\ ProfileInv' /\ SkipInv'
    BY <1>1, <1>3, BehindPriors
  <2>2. UntouchedInv' /\ ResultInv' /\ RowsInv'
    BY <1>1, <1>3 DEF UntouchedInv, Early, ResultInv, RowsInv, Ended
  <2>3. PlaceInv'
    BY <1>2, <1>3 DEF PlaceInv, Ended
  <2> QED
    BY <2>1, <2>2, <2>3 DEF VerdictInv
<1>4. CASE Return("allow", "VLAI_NO_TEXT") /\ UNCHANGED score
  <2>1. "VLAI_NO_TEXT" \in Codes
    BY DEF Codes, EvaluateCodes
  <2>2. /\ stage' = "returned" /\ ResultInv' /\ RowsInv' /\ Ended'
        /\ result'.code = "VLAI_NO_TEXT"
    BY <1>1, <1>4, <2>1, ReturnResult
  <2>3. VerdictTypeOK' /\ percent' \in Int /\ ProfileInv' /\ SkipInv'
    BY <1>1, <1>4, <2>2, BehindPriors
  <2>4. UntouchedInv'
    BY <2>2 DEF UntouchedInv, Early
  <2>5. PlaceInv'
    BY <1>2, <2>2 DEF PlaceInv
  <2> QED
    BY <2>2, <2>3, <2>4, <2>5 DEF VerdictInv
<1>5. ASSUME NEW n \in 0..100, Deliver(n)
      PROVE  VerdictInv'
  <2>1. /\ stage' = "returned" /\ score' = n /\ n # NoScore
        /\ result'.verdict = IF profile.mode = "observe" THEN "allow" ELSE "score"
        /\ result'.code \in {"VLAI_SCORE", "VLAI_OBSERVE"}
        /\ result'.asks = RowsOnScore(profile, "ask", n)
        /\ result'.bans = WithClient(RowsOnScore(profile, "list", n))
    BY <1>5 DEF Deliver, NoScore
  <2>2. ResultInv'
    BY <1>5 DEF Deliver, ResultInv, Codes, EvaluateCodes
  <2>3. RowsInv'
    BY <1>1, <2>1 DEF RowsInv, OnScore, RowsOnScore, WithClient, Fires
  <2>4. VerdictTypeOK' /\ percent' \in Int /\ ProfileInv' /\ SkipInv'
    BY <1>1, <2>1, BehindPriors
  <2>5. UntouchedInv'
    BY <2>1 DEF UntouchedInv, Early, Ended
  <2>6. PlaceInv'
    BY <1>2, <2>1 DEF PlaceInv, Ended
  <2> QED
    BY <2>2, <2>3, <2>4, <2>5, <2>6 DEF VerdictInv
<1>6. ASSUME NEW severity \in Severities, NEW confidence \in Confidences
      PROVE  Scale(ToScore(severity, confidence), percent) \in 0..100
  <2>1. ToScore(severity, confidence) \in 0..100
    BY VerdictAssumption, ToScoreBounds
  <2> QED
    BY <1>1, <2>1, ScaleBounds
<1> QED
  BY <1>3, <1>4, <1>5, <1>6 DEF Engine

LEMMA OverloadKeeps ==
  ASSUME VerdictInv, Overload
  PROVE  VerdictInv'
<1> DEFINE asks == RowsOnOverload(profile, "ask", fill')
           bans == WithClient(RowsOnOverload(profile, "list", fill'))
<1>1. /\ stage = "returned" /\ stage' = "done" /\ fill' \in Fills
      /\ UNCHANGED <<written, message, profile, prior, percent, skipped, body, args, text, score>>
      /\ Ended /\ Ended'
  BY DEF Overload, Ended
<1>2. /\ DOMAIN result = {"verdict", "code", "score", "asks", "bans"}
      /\ result = [verdict |-> result.verdict, code |-> result.code,
                   score |-> result.score, asks |-> result.asks, bans |-> result.bans]
      /\ result.code \in Codes
  BY <1>1 DEF VerdictInv, ResultInv
<1>3. \/ /\ Muted(profile) \/ result.verdict = "error"
         /\ result' = result
      \/ /\ ~Muted(profile) /\ result.verdict # "error"
         /\ result' = [result EXCEPT !.asks = @ \cup asks, !.bans = @ \cup bans]
  BY DEF Overload
<1> HIDE DEF asks, bans
<1>4. /\ result'.code = result.code /\ result'.verdict = result.verdict /\ ResultInv'
      /\ ~Muted(profile) /\ result.verdict # "error" =>
           result'.asks = result.asks \cup asks /\ result'.bans = result.bans \cup bans
  BY <1>2, <1>3 DEF ResultInv
<1>5. RowsInv'
  <2>1. ~Muted(profile) /\ result.verdict # "error" =>
          /\ result'.asks = OnScore("ask") \cup asks
          /\ result'.bans = WithClient(OnScore("list")) \cup bans
    BY <1>1, <1>4 DEF VerdictInv, RowsInv
  <2>2. /\ Muted(profile)' <=> Muted(profile)
        /\ OnScore("ask")' = OnScore("ask")
        /\ WithClient(OnScore("list"))' = WithClient(OnScore("list"))
        /\ RowsOnOverload(profile, "ask", fill)' = asks
        /\ WithClient(RowsOnOverload(profile, "list", fill))' = bans
    BY <1>1 DEF Muted, OnScore, RowsOnScore, RowsOnOverload, WithClient, Fires, asks, bans
  <2> QED
    BY <1>1, <1>4, <2>1, <2>2 DEF RowsInv
<1>6. VerdictTypeOK' /\ percent' \in Int
  BY <1>1 DEF VerdictInv, VerdictTypeOK
<1>7. ProfileInv'
  BY <1>1, ProfileStays DEF VerdictInv
<1>8. UntouchedInv'
  BY <1>1 DEF UntouchedInv, Early
<1>9. SkipInv'
  <2>1. (skipped <=> \E i \in DOMAIN prior : prior[i].do = "skip" /\ Applies(prior[i]))'
    BY <1>1 DEF VerdictInv, SkipInv, Applies
  <2> QED
    BY <1>1, <1>4, <2>1 DEF VerdictInv, SkipInv
<1>10. PlaceInv'
  BY <1>1, <1>4 DEF VerdictInv, PlaceInv, Fails
<1> QED
  BY <1>4, <1>5, <1>6, <1>7, <1>8, <1>9, <1>10 DEF VerdictInv

LEMMA VerdictStep ==
  ASSUME VerdictInv, [Next]_vars
  PROVE  VerdictInv'
<1>1. CASE UNCHANGED vars
  <2>1. VerdictTypeOK' /\ percent' \in Int
    <3>1. UNCHANGED <<stage, prior, percent, skipped, text, score, fill>>
      BY <1>1 DEF vars
    <3>2. VerdictTypeOK /\ percent \in Int
      BY DEF VerdictInv
    <3> QED
      BY <3>1, <3>2 DEF VerdictTypeOK
  <2>2. ProfileInv' /\ UntouchedInv' /\ ResultInv'
    BY <1>1 DEF vars, VerdictInv, ProfileInv, UntouchedInv, ResultInv, Ended
  <2>3. SkipInv'
    BY <1>1 DEF vars, VerdictInv, SkipInv, Applies, Ended
  <2>4. PlaceInv'
    BY <1>1 DEF vars, VerdictInv, PlaceInv, Fails, Ended
  <2>5. RowsInv'
    BY <1>1 DEF vars, VerdictInv, RowsInv, OnScore, RowsOnScore, RowsOnOverload, WithClient,
         Fires
  <2> QED
    BY <2>1, <2>2, <2>3, <2>4, <2>5 DEF VerdictInv
<1> QED
  BY <1>1, LoadKeeps, StartKeeps, PriorKeeps, PriorsDoneKeeps, BodyKeeps, ArgsKeeps,
     EngineKeeps, OverloadKeeps DEF Next

LEMMA VerdictStart == Init => VerdictInv
<1> SUFFICES ASSUME Init PROVE VerdictInv
  OBVIOUS
<1>1. /\ stage \in {"start", "load"} /\ prior = <<>> /\ percent = 0 /\ skipped = FALSE
      /\ stage = "load" <=> written # NoProfile
      /\ body = Unread /\ args = Unread /\ score = NoScore /\ text = Unset /\ fill = 0
      /\ written \in Profiles /\ profile = NoProfile
  BY DEF Init
<1>2. prior \in Seq(Acts) /\ Len(prior) = 0 /\ DOMAIN prior = {}
  <2>1. <<>> \in Seq(Acts) /\ Len(<<>>) = 0 /\ DOMAIN <<>> = {}
    BY EmptySeq
  <2> QED
    BY <1>1, <2>1
<1>3. VerdictTypeOK /\ percent \in Int
  <2>1. percent \in Int /\ percent \in -100..900 /\ Len(prior) <= MaxActs
    <3>1. percent = 0 /\ Len(prior) = 0 /\ MaxActs \in Nat
      BY <1>1, <1>2, VerdictAssumption
    <3> QED
      BY <3>1
  <2> QED
    BY <1>1, <1>2, <2>1 DEF VerdictTypeOK
<1>4. ProfileInv /\ UntouchedInv /\ ResultInv /\ RowsInv
  BY <1>1 DEF ProfileInv, UntouchedInv, ResultInv, RowsInv, Ended
<1>5. SkipInv
  BY <1>1, <1>2 DEF SkipInv
<1>6. PlaceInv
  BY <1>1 DEF PlaceInv, Fails, Unread, Ended
<1> QED
  BY <1>3, <1>4, <1>5, <1>6 DEF VerdictInv

-----------------------------------------------------------------------------
\* What evaluate has looked at, and its result, agree at each of its steps.
THEOREM VerdictInvariant == Spec => []VerdictInv
BY VerdictStart, VerdictStep, PTL DEF Spec

\* The variables keep to their values: the factor and the score to their bounds,
\* whatever the requests add up to.
THEOREM VerdictTypeCorrect == Spec => []VerdictTypeOK
<1>1. VerdictInv => VerdictTypeOK
  BY DEF VerdictInv
<1> QED
  BY <1>1, VerdictInvariant, PTL

\* Wherever an accepted skip stands among the requests, neither the store nor the
\* model is asked, and the answer says so.
THEOREM VerdictSkipSpares == Spec => []SkipSparesTheEngine
<1>1. VerdictInv => SkipSparesTheEngine
  BY DEF VerdictInv, SkipInv, SkipSparesTheEngine
<1> QED
  BY <1>1, VerdictInvariant, PTL

\* The text is taken from the first place that has it, and a store that fails is an
\* error there and then.
THEOREM VerdictFirstPlace == Spec => []FirstPlaceDecides
<1>1. VerdictInv => FirstPlaceDecides
  BY DEF VerdictInv, PlaceInv, FirstPlaceDecides
<1> QED
  BY <1>1, VerdictInvariant, PTL

-----------------------------------------------------------------------------
(* What is written, and what it does *)

\* What the ask of a row says is what the row says, field by field.
LEMMA AskSaysAll ==
  ASSUME NEW raw, AskReads(raw)
  PROVE  LET ask == Ask(raw) IN
           /\ \A field \in DOMAIN ask \ {"apply", "ttl"} : ask[field] = raw[field]
           /\ raw.apply # Unset => ask.apply = raw.apply
           /\ Timed(raw) => ask.ttl = raw.ttl
<1> DEFINE ask == Ask(raw)
           on == raw.do \in AuditVerbs /\ raw.set = "on"
<1>1. /\ ask.do = raw.do /\ ask.to = raw.to /\ ask.delta = raw.delta /\ ask.value = raw.value
      /\ ask.counter = raw.counter /\ ask.marker = raw.marker /\ ask.group = raw.group
      /\ ask.phase = raw.phase /\ ask.set = raw.set /\ ask.code = raw.code
      /\ ask.apply = Axis(raw)
      /\ ask.ttl = IF on /\ raw.do = "archive" /\ Timed(raw) THEN raw.ttl ELSE Absent
      /\ ask.when = IF on /\ raw.do = "archive" THEN raw.when ELSE {}
      /\ ask.objects = IF on THEN raw.objects ELSE {}
      /\ DOMAIN ask = {"do", "apply", "to", "delta", "value", "counter", "marker", "group",
                       "phase", "set", "code", "ttl", "when", "objects"}
  BY DEF Ask
<1>2. /\ ~on => raw.objects = {} /\ ~Timed(raw) /\ raw.when = {}
      /\ raw.do # "archive" => ~Timed(raw) /\ raw.when = {}
  BY DEF AskReads, RecordReads, AuditVerbs
<1>3. raw.apply # Unset => Axis(raw) = raw.apply
  BY DEF Axis
<1> HIDE DEF ask, on
<1>4. ask.when = raw.when /\ ask.objects = raw.objects /\ (Timed(raw) => ask.ttl = raw.ttl)
  BY <1>1, <1>2
<1>5. \A field \in DOMAIN ask \ {"apply", "ttl"} : ask[field] = raw[field]
  BY <1>1, <1>4
<1> QED
  BY <1>1, <1>3, <1>4, <1>5 DEF ask

LEMMA OutcomeShape ==
  ASSUME NEW raw
  PROVE  /\ Outcome(raw).on = On(raw)
         /\ Outcome(raw).kind = IF raw.do # Unset THEN "ask" ELSE "list"
         /\ Outcome(raw).says = IF raw.do # Unset THEN Ask(raw) ELSE ListWrite(raw)
         /\ Outcome(raw).at = IF raw.at = Absent THEN 100 ELSE raw.at
         /\ Outcome(raw).compare =
              IF raw.eq THEN "exactly" ELSE IF raw.below THEN "below" ELSE "from"
BY DEF Outcome

\* The profile in force has a row for each one written, and no other.
LEMMA RowsOfProfile ==
  ASSUME VerdictInv, written # NoProfile, stage \notin {"load", "rejected"}
  PROVE  /\ profile.outcomes = {Outcome(raw) : raw \in written.outcomes}
         /\ profile # NoProfile
         /\ \A raw \in written.outcomes : raw \in RawRow /\ RowReads(raw)
<1>1. ProfileReads(written) /\ profile = Read(written) /\ written \in Profiles
  BY DEF VerdictInv, ProfileInv
<1>2. profile.outcomes = {Outcome(raw) : raw \in written.outcomes}
  BY <1>1 DEF Read
<1>3. profile # NoProfile
  BY <1>1 DEF Read, NoProfile
<1>4. \A raw \in written.outcomes : raw \in RawRow /\ RowReads(raw)
  BY <1>1, VerdictAssumption DEF ProfileReads
<1> QED
  BY <1>2, <1>3, <1>4

\* Nothing an accepted row of an ask says comes into force without effect.
THEOREM VerdictLosesNothing == Spec => []NothingWrittenIsLost
<1>1. ASSUME VerdictInv, stage \notin {"load", "rejected"}, written # NoProfile,
             NEW raw \in written.outcomes, raw.do # Unset
      PROVE  \E ask \in {row.says : row \in {out \in profile.outcomes : out.kind = "ask"}} :
               /\ \A field \in DOMAIN ask \ {"apply", "ttl"} : ask[field] = raw[field]
               /\ raw.apply # Unset => ask.apply = raw.apply
               /\ Timed(raw) => ask.ttl = raw.ttl
  <2>1. Outcome(raw) \in profile.outcomes /\ RowReads(raw)
    BY <1>1, RowsOfProfile
  <2>2. Outcome(raw).kind = "ask" /\ Outcome(raw).says = Ask(raw)
    BY <1>1, OutcomeShape
  <2>3. AskReads(raw)
    BY <1>1, <2>1 DEF RowReads, ListReads
  <2>4. Ask(raw) \in {row.says : row \in {out \in profile.outcomes : out.kind = "ask"}}
    BY <2>1, <2>2
  <2> QED
    BY <2>3, <2>4, AskSaysAll
<1>2. VerdictInv => NothingWrittenIsLost
  BY <1>1 DEF NothingWrittenIsLost
<1> QED
  BY <1>2, VerdictInvariant, PTL

\* A row that has been read acts only where its condition holds as written, and there
\* it does, but for one at 100.
LEMMA ActsAsWritten ==
  ASSUME VerdictInv, NEW raw \in RawRow, RowReads(raw)
  PROVE  \/ On(raw) = "score" /\ score # NoScore /\ Fires(Outcome(raw), score)
         \/ On(raw) = "overload" /\ FiresOverload(Outcome(raw).at, fill)
         <=> HoldsAsWritten(raw) /\ ~FullOnly(raw)
<1> DEFINE row == Outcome(raw)
<1>1. score \in Int /\ fill \in Int /\ raw.at \in Int
  BY VerdictAssumption DEF VerdictInv, VerdictTypeOK, NoScore, RawRow
<1>2. /\ row.at = IF raw.at = Absent THEN 100 ELSE raw.at
      /\ row.compare = IF raw.eq THEN "exactly" ELSE IF raw.below THEN "below" ELSE "from"
  BY OutcomeShape
<1> HIDE DEF row
<1>3. CASE On(raw) = "score"
  <2>1. raw.at # Absent /\ ~(raw.below /\ raw.eq) /\ ~FullOnly(raw)
    BY <1>3 DEF RowReads, ConditionReads, Absent, FullOnly
  <2>2. Fires(row, score) <=> \/ raw.eq /\ score = raw.at
                              \/ raw.below /\ score < raw.at
                              \/ ~raw.eq /\ ~raw.below /\ score >= raw.at
    BY <1>2, <2>1 DEF Fires
  <2> QED
    BY <1>3, <2>1, <2>2 DEF HoldsAsWritten, row
<1>4. CASE On(raw) = "overload"
  <2>1. raw.at = Absent \/ raw.at \in 25..100
    BY <1>4 DEF RowReads, ConditionReads
  <2>2. FiresOverload(row.at, fill) <=> raw.at # Absent /\ raw.at # 100 /\ fill >= raw.at
    BY <1>1, <1>2, <2>1 DEF FiresOverload
  <2> QED
    BY <1>4, <2>2 DEF HoldsAsWritten, FullOnly, row
<1> QED
  BY <1>3, <1>4 DEF RowReads, ConditionReads

\* What goes to the neighbours and to the lists is what the rows say whose condition
\* holds as README.md has it; only rows at 100 may be wanting.
THEOREM VerdictRowsAct == Spec => []RowsActAsWritten
<1>1. ASSUME VerdictInv, Answered
      PROVE  LET beyond == {raw \in written.outcomes : HoldsAsWritten(raw) /\ ~FullOnly(raw)} IN
        /\ {row.says : row \in result.asks} = AsksOf(beyond)
        /\ {row.says : row \in result.bans} = WritesOf(beyond)
  <2> DEFINE Acting(row) == \/ row.on = "score" /\ score # NoScore /\ Fires(row, score)
                            \/ row.on = "overload" /\ FiresOverload(row.at, fill)
             OfKind(kind) == {row \in profile.outcomes : row.kind = kind /\ Acting(row)}
             beyond == {raw \in written.outcomes : HoldsAsWritten(raw) /\ ~FullOnly(raw)}
  <2>1. written # NoProfile
    BY <1>1 DEF VerdictInv, ProfileInv, Muted, Answered
  <2>2. /\ profile.outcomes = {Outcome(raw) : raw \in written.outcomes}
        /\ \A raw \in written.outcomes : raw \in RawRow /\ RowReads(raw)
    BY <1>1, <2>1, RowsOfProfile DEF Answered
  <2>3. /\ result.asks = OfKind("ask")
        /\ result.bans = WithClient(OfKind("list"))
    <3>1. /\ result.asks = OnScore("ask") \cup RowsOnOverload(profile, "ask", fill)
          /\ result.bans = WithClient(OnScore("list"))
                             \cup WithClient(RowsOnOverload(profile, "list", fill))
      BY <1>1 DEF VerdictInv, RowsInv, Answered
    <3>2. \A kind : OnScore(kind) \cup RowsOnOverload(profile, kind, fill) = OfKind(kind)
      BY DEF OnScore, RowsOnScore, RowsOnOverload
    <3>3. OnScore("ask") \cup RowsOnOverload(profile, "ask", fill) = OfKind("ask")
      BY <3>2
    <3>4. OnScore("list") \cup RowsOnOverload(profile, "list", fill) = OfKind("list")
      BY <3>2
    <3> QED
      BY <3>1, <3>3, <3>4 DEF WithClient
  <2>4. \A raw \in written.outcomes :
          Acting(Outcome(raw)) <=> HoldsAsWritten(raw) /\ ~FullOnly(raw)
    BY <1>1, <2>2, OutcomeShape, ActsAsWritten
  <2> HIDE DEF Acting
  <2>5. {row.says : row \in OfKind("ask")} = {Ask(raw) : raw \in {w \in beyond : w.do # Unset}}
    BY <2>2, <2>4, OutcomeShape
  <2>6. {row.says : row \in OfKind("list")} =
          {ListWrite(raw) : raw \in {w \in beyond : w.do = Unset}}
    BY <2>2, <2>4, OutcomeShape
  <2> HIDE DEF OfKind, beyond
  <2>7. {row.says : row \in result.bans} = WritesOf(beyond)
    BY <2>3, <2>6 DEF WithClient, WritesOf
  <2>8. {row.says : row \in result.asks} = AsksOf(beyond)
    BY <2>3, <2>5 DEF AsksOf
  <2> QED
    BY <2>7, <2>8 DEF beyond
<1>2. ASSUME VerdictInv, Answered PROVE RowsActAsWritten
  <2> DEFINE acting == {raw \in written.outcomes : HoldsAsWritten(raw)}
             beyond == {raw \in written.outcomes : HoldsAsWritten(raw) /\ ~FullOnly(raw)}
  <2>1. beyond = {raw \in acting : ~FullOnly(raw)} /\ beyond \subseteq acting
    OBVIOUS
  <2>2. AsksOf(beyond) \subseteq AsksOf(acting) /\ WritesOf(beyond) \subseteq WritesOf(acting)
    BY <2>1 DEF AsksOf, WritesOf, WithClient
  <2> QED
    BY <1>1, <1>2, <2>1, <2>2 DEF RowsActAsWritten
<1>3. VerdictInv => RowsActAsWritten
  BY <1>2 DEF RowsActAsWritten
<1> QED
  BY <1>3, VerdictInvariant, PTL

-----------------------------------------------------------------------------
(* Nothing but what Verdicts allows *)

\* A verdict and its code come from what the message and the profile are; one without
\* a score writes no list.
Sound == Kind(message) = "sound" /\ ~Muted(profile)

Judged(verdict, code) ==
  \/ Kind(message) # "sound" /\ score = NoScore
     /\ verdict = "error" /\ code = BrokenCodes[Kind(message)]
  \/ Kind(message) = "sound" /\ profile = NoProfile /\ score = NoScore
     /\ verdict = "error" /\ code = "VLAI_UNKNOWN_PROFILE"
  \/ Kind(message) = "sound" /\ profile # NoProfile /\ profile.mode = "off"
     /\ score = NoScore /\ verdict = "allow" /\ code = "VLAI_PROFILE_OFF"
  \/ Sound /\ score = NoScore /\ verdict = "allow" /\ code \in {"VLAI_NO_TEXT", "VLAI_SKIPPED"}
  \/ Sound /\ score = NoScore /\ verdict = "error"
     /\ code \in {"VLAI_STORE_UNAVAILABLE", "VLAI_DEADLINE"}
  \/ Sound /\ score # NoScore
     /\ IF profile.mode = "observe" THEN verdict = "allow" /\ code = "VLAI_OBSERVE"
                                    ELSE verdict = "score" /\ code = "VLAI_SCORE"

JudgedInv ==
  /\ stage \in {"prior", "body", "args", "engine", "raised"} => Sound
  /\ Ended => Judged(result.verdict, result.code)
  /\ stage = "done" /\ (Muted(profile) \/ result.verdict = "error") =>
       result.asks = {} /\ result.bans = {}

LEMMA StartJudges ==
  ASSUME VerdictInv, JudgedInv, Start
  PROVE  JudgedInv'
<1>1. UNCHANGED <<profile, score>> /\ score = NoScore
  BY DEF VerdictInv, UntouchedInv, Ended, Start
<1>2. ASSUME NEW verdict, NEW code, Return(verdict, code)
      PROVE  /\ stage' = "returned" /\ Ended'
             /\ result'.verdict = verdict /\ result'.code = code
  BY <1>2 DEF Return, Ended
<1>3. /\ ~message'.parses => Kind(message)' = "garbage"
      /\ message'.parses /\ ~message'.served => Kind(message)' = "version"
      /\ message'.parses /\ message'.served /\ message'.framed => Kind(message)' = "frame"
      /\ message'.parses /\ message'.served /\ ~message'.framed => Kind(message)' = "sound"
  BY DEF Kind
<1>4. /\ BrokenCodes["garbage"] = "VLAI_UNPARSEABLE"
      /\ BrokenCodes["version"] = "VLAI_UNSUPPORTED_VERSION"
      /\ BrokenCodes["frame"] = "VLAI_PHASE_NOT_SUPPORTED"
  BY DEF BrokenCodes
<1>5. CASE stage' = "returned" /\ Judged(result.verdict, result.code)'
  BY <1>5 DEF JudgedInv, Ended
<1>6. CASE stage' = "prior" /\ Sound'
  BY <1>6 DEF JudgedInv, Ended
<1>7. CASE ~message'.parses /\ Return("error", "VLAI_UNPARSEABLE")
  BY <1>1, <1>2, <1>3, <1>4, <1>5, <1>7 DEF Judged
<1>8. CASE message'.parses /\ ~message'.served /\ Return("error", "VLAI_UNSUPPORTED_VERSION")
  BY <1>1, <1>2, <1>3, <1>4, <1>5, <1>8 DEF Judged
<1>9. CASE /\ message'.parses /\ message'.served /\ message'.framed
           /\ Return("error", "VLAI_PHASE_NOT_SUPPORTED")
  BY <1>1, <1>2, <1>3, <1>4, <1>5, <1>9 DEF Judged
<1>10. CASE /\ message'.parses /\ message'.served /\ ~message'.framed
            /\ \/ profile = NoProfile /\ Return("error", "VLAI_UNKNOWN_PROFILE")
               \/ /\ profile # NoProfile /\ profile.mode = "off"
                  /\ Return("allow", "VLAI_PROFILE_OFF")
               \/ ~Muted(profile) /\ Return("error", "VLAI_DEADLINE")
               \/ ~Muted(profile) /\ stage' = "prior" /\ UNCHANGED result
  <2>1. Kind(message)' = "sound"
    BY <1>3, <1>10
  <2>2. CASE profile = NoProfile /\ Return("error", "VLAI_UNKNOWN_PROFILE")
    BY <1>1, <1>2, <1>5, <2>1, <2>2 DEF Judged
  <2>3. CASE /\ profile # NoProfile /\ profile.mode = "off"
             /\ Return("allow", "VLAI_PROFILE_OFF")
    BY <1>1, <1>2, <1>5, <2>1, <2>3 DEF Judged
  <2>4. CASE ~Muted(profile) /\ Return("error", "VLAI_DEADLINE")
    BY <1>1, <1>2, <1>5, <2>1, <2>4 DEF Judged, Sound, Muted
  <2>5. CASE ~Muted(profile) /\ stage' = "prior" /\ UNCHANGED result
    BY <1>1, <1>6, <2>1, <2>5 DEF Sound, Muted
  <2> QED
    BY <1>10, <2>2, <2>3, <2>4, <2>5
<1> QED
  BY <1>7, <1>8, <1>9, <1>10 DEF Start

\* Behind the start the message and the profile are judged; what is left is the text.
LEMMA ReturnJudges ==
  ASSUME JudgedInv, stage \in {"prior", "body", "args", "engine"}, score = NoScore,
         UNCHANGED <<message, profile, score>>, NEW verdict, NEW code, Return(verdict, code),
         \/ verdict = "allow" /\ code \in {"VLAI_NO_TEXT", "VLAI_SKIPPED"}
         \/ verdict = "error" /\ code = "VLAI_STORE_UNAVAILABLE"
  PROVE  JudgedInv'
<1>1. Sound' /\ score' = NoScore
  BY DEF JudgedInv, Sound, Kind, Muted
<1>2. stage' = "returned" /\ result'.verdict = verdict /\ result'.code = code
  BY DEF Return
<1>3. Judged(result.verdict, result.code)'
  BY <1>1, <1>2 DEF Judged
<1> QED
  BY <1>2, <1>3 DEF JudgedInv, Ended

LEMMA StillSound ==
  ASSUME JudgedInv, stage \in {"prior", "body", "args", "engine"},
         stage' \in {"prior", "body", "args", "engine", "raised"}, UNCHANGED <<message, profile>>
  PROVE  JudgedInv'
BY DEF JudgedInv, Sound, Kind, Muted, Ended

LEMMA TextJudges ==
  ASSUME VerdictInv, JudgedInv, (\E act \in Acts : Prior(act)) \/ PriorsDone \/ Body \/ Args
  PROVE  JudgedInv'
<1>1. /\ stage \in {"prior", "body", "args", "engine"} /\ score = NoScore
      /\ UNCHANGED <<message, profile, score>>
  BY DEF VerdictInv, UntouchedInv, Ended, Prior, PriorsDone, Body, Args
<1>2. \/ stage' \in {"prior", "body", "args", "engine"}
      \/ Return("allow", "VLAI_NO_TEXT") \/ Return("allow", "VLAI_SKIPPED")
      \/ Return("error", "VLAI_STORE_UNAVAILABLE")
  <2>1. CASE \E act \in Acts : Prior(act)
    BY <2>1 DEF Prior
  <2>2. CASE PriorsDone
    BY <2>2 DEF PriorsDone
  <2>3. CASE Body
    BY <2>3 DEF Body, Measured
  <2>4. CASE Args
    BY <2>4 DEF Args, Measured
  <2> QED
    BY <2>1, <2>2, <2>3, <2>4
<1> QED
  BY <1>1, <1>2, ReturnJudges, StillSound

LEMMA EngineJudges ==
  ASSUME VerdictInv, JudgedInv, Engine
  PROVE  JudgedInv'
<1>1. /\ stage = "engine" /\ score = NoScore /\ percent \in Int /\ UNCHANGED <<message, profile>>
  BY DEF VerdictInv, UntouchedInv, Ended, Engine
<1>2. ASSUME NEW n \in 0..100, Deliver(n)
      PROVE  JudgedInv'
  <2>1. /\ stage' = "returned" /\ score' # NoScore
        /\ result'.verdict = IF profile.mode = "observe" THEN "allow" ELSE "score"
        /\ result'.code = IF profile.mode = "observe" THEN "VLAI_OBSERVE" ELSE "VLAI_SCORE"
    BY <1>2 DEF Deliver, NoScore
  <2>2. Sound'
    BY <1>1 DEF JudgedInv, Sound, Kind, Muted
  <2>3. Judged(result.verdict, result.code)'
    BY <1>1, <2>1, <2>2 DEF Judged
  <2> QED
    BY <2>1, <2>3 DEF JudgedInv, Ended
<1>3. ASSUME NEW severity \in Severities, NEW confidence \in Confidences
      PROVE  Scale(ToScore(severity, confidence), percent) \in 0..100
  BY <1>1, VerdictAssumption, ToScoreBounds, ScaleBounds
<1>4. CASE stage' = "raised"
  BY <1>1, <1>4, StillSound
<1>5. CASE Return("allow", "VLAI_NO_TEXT") /\ UNCHANGED score
  BY <1>1, <1>5, ReturnJudges
<1> QED
  BY <1>2, <1>3, <1>4, <1>5 DEF Engine

LEMMA OverloadJudges ==
  ASSUME VerdictInv, JudgedInv, Overload
  PROVE  JudgedInv'
<1>1. /\ stage = "returned" /\ stage' = "done" /\ Ended
      /\ UNCHANGED <<message, profile, score>>
  BY DEF Overload, Ended
<1>2. DOMAIN result = {"verdict", "code", "score", "asks", "bans"}
  BY <1>1 DEF VerdictInv, ResultInv
<1>3. result'.verdict = result.verdict /\ result'.code = result.code
  BY <1>2 DEF Overload
<1>4. Judged(result.verdict, result.code)'
  <2>1. Judged(result.verdict, result.code)
    BY <1>1 DEF JudgedInv
  <2>2. Sound' <=> Sound
    BY <1>1 DEF Sound, Kind, Muted
  <2>3. Kind(message)' = Kind(message)
    BY <1>1 DEF Kind
  <2> QED
    BY <1>1, <1>3, <2>1, <2>2, <2>3 DEF Judged
<1>5. ASSUME Muted(profile)' \/ result'.verdict = "error"
      PROVE  result'.asks = {} /\ result'.bans = {}
  <2>1. Muted(profile) \/ result.verdict = "error"
    BY <1>1, <1>3, <1>5 DEF Muted
  <2>2. result' = result
    BY <2>1 DEF Overload
  <2>3. score = NoScore
    BY <1>1, <2>1 DEF JudgedInv, Judged, Sound
  <2>4. result.asks = {} /\ result.bans = {}
    BY <1>1, <2>3 DEF VerdictInv, RowsInv, OnScore, WithClient
  <2> QED
    BY <2>2, <2>4
<1> QED
  BY <1>1, <1>4, <1>5 DEF JudgedInv, Ended

LEMMA JudgedStart == Init => JudgedInv
BY DEF Init, JudgedInv, Ended

LEMMA JudgedStep ==
  ASSUME VerdictInv, JudgedInv, [Next]_vars
  PROVE  JudgedInv'
<1>1. CASE UNCHANGED vars
  BY <1>1 DEF vars, JudgedInv, Judged, Sound, Kind, Muted, Ended
<1>2. CASE Load
  BY <1>2 DEF Load, JudgedInv, Ended
<1> QED
  BY <1>1, <1>2, StartJudges, TextJudges, EngineJudges, OverloadJudges DEF Next

\* The verdict and its code are those of the message and the profile.
THEOREM JudgedInvariant == Spec => []JudgedInv
BY JudgedStart, JudgedStep, VerdictInvariant, PTL DEF Spec

\* The `at` that Verdicts keeps for a kind of overload rows is the least of theirs.
OverloadOf(kind) == {out \in profile.outcomes : out.on = "overload" /\ out.kind = kind}
Ats(kind) == {100} \cup {row.at : row \in OverloadOf(kind)}

LEMMA LeastOf ==
  ASSUME NEW S, S \subseteq Nat, S # {}
  PROVE  Min(S) \in S /\ \A n \in S : Min(S) <= n
<1>1. \E m \in S : \A n \in S : m <= n
  BY LeastNumber
<1>2. Min(S) = CHOOSE x \in S : \A y \in S : x <= y
  BY DEF Min
<1> QED
  BY <1>1, <1>2

\* So a row of a kind fires by the fill exactly when Verdicts says that one does.
LEMMA FiringOfKind ==
  ASSUME VerdictInv, stage = "done", ~Muted(profile), NEW kind \in {"ask", "list"}
  PROVE  kind \in Firing(Abstract(profile), fill) <=>
           \E row \in OverloadOf(kind) : FiresOverload(row.at, fill)
<1>1. written # NoProfile
  BY DEF VerdictInv, ProfileInv, Muted
<1>2. /\ profile.outcomes = {Outcome(raw) : raw \in written.outcomes} /\ profile # NoProfile
      /\ \A raw \in written.outcomes : raw \in RawRow /\ RowReads(raw)
  BY <1>1, RowsOfProfile
<1>3. \A row \in OverloadOf(kind) : row.at \in Nat
  <2> SUFFICES ASSUME NEW raw \in written.outcomes, On(raw) = "overload"
               PROVE  Outcome(raw).at \in Nat
    BY <1>2, OutcomeShape DEF OverloadOf
  <2>1. raw.at \in {Absent} \cup 25..100
    BY <1>2 DEF RowReads, ConditionReads
  <2> QED
    BY <2>1, OutcomeShape
<1>4. fill \in Nat
  BY VerdictAssumption DEF VerdictInv, VerdictTypeOK
<1> DEFINE least == Min(Ats(kind))
<1>5. least \in Ats(kind) /\ \A n \in Ats(kind) : least <= n
  <2>1. Ats(kind) \subseteq Nat /\ Ats(kind) # {}
    BY <1>3 DEF Ats
  <2> QED
    BY <2>1, LeastOf
<1>6. Abstract(profile).at[kind] = least /\ Abstract(profile).rows = Kinds(profile.outcomes)
  BY <1>2 DEF Abstract, Ats, OverloadOf
<1>7. kind \in Kinds(profile.outcomes) <=> OverloadOf(kind) # {}
  BY DEF Kinds, OverloadOf
<1>8. kind \in Firing(Abstract(profile), fill) <=>
        OverloadOf(kind) # {} /\ FiresOverload(least, fill)
  BY <1>6, <1>7 DEF Firing
<1> HIDE DEF least
<1>9. ASSUME FiresOverload(least, fill)
      PROVE  \E row \in OverloadOf(kind) : FiresOverload(row.at, fill)
  <2>1. least < 100
    BY <1>9 DEF FiresOverload
  <2>2. PICK row \in OverloadOf(kind) : row.at = least
    BY <1>5, <2>1 DEF Ats
  <2> QED
    BY <1>9, <2>2
<1>10. ASSUME NEW row \in OverloadOf(kind), FiresOverload(row.at, fill)
       PROVE  FiresOverload(least, fill)
  <2>1. row.at \in Nat /\ least \in Nat /\ least <= row.at
    BY <1>3, <1>5 DEF Ats
  <2> QED
    BY <1>4, <1>10, <2>1 DEF FiresOverload
<1> QED
  BY <1>8, <1>9, <1>10

\* The rows that act, by the kinds Verdicts keeps.
LEMMA KindsActing ==
  ASSUME VerdictInv, stage = "done", ~Muted(profile), result.verdict # "error"
  PROVE  LET firing == Firing(Abstract(profile), fill) IN
           /\ (\E row \in result.asks : row.on = "overload") <=> "ask" \in firing
           /\ Kinds(result.bans) \subseteq
                (IF score = NoScore THEN {} ELSE Kinds(profile.outcomes) \cap {"score"})
                \cup (firing \cap {"list"})
<1> DEFINE firing == Firing(Abstract(profile), fill)
<1>1. /\ result.asks = OnScore("ask") \cup RowsOnOverload(profile, "ask", fill)
      /\ result.bans =
           WithClient(OnScore("list")) \cup WithClient(RowsOnOverload(profile, "list", fill))
  BY DEF VerdictInv, RowsInv
<1>2. \A kind : \A row \in OnScore(kind) :
        score # NoScore /\ row \in profile.outcomes /\ row.on = "score" /\ row.kind = kind
  BY DEF OnScore, RowsOnScore
<1>3. \A kind, row : row \in RowsOnOverload(profile, kind, fill) <=>
        /\ row \in OverloadOf(kind) /\ row \in profile.outcomes
        /\ row.on = "overload" /\ row.kind = kind /\ FiresOverload(row.at, fill)
  BY DEF RowsOnOverload, OverloadOf
<1>4. \A kind \in {"ask", "list"} :
        kind \in firing <=> \E row \in OverloadOf(kind) : FiresOverload(row.at, fill)
  BY FiringOfKind
<1> HIDE DEF firing
<1>5. (\E row \in result.asks : row.on = "overload") <=> "ask" \in firing
  <2>1. \A row \in OverloadOf("ask") : FiresOverload(row.at, fill) =>
          row \in RowsOnOverload(profile, "ask", fill)
    BY DEF RowsOnOverload, OverloadOf
  <2> QED
    BY <1>1, <1>2, <1>3, <1>4, <2>1
<1>6. \A row \in result.bans :
        /\ row \in profile.outcomes /\ row.kind = "list"
        /\ \/ row.on = "score" /\ score # NoScore
           \/ row.on = "overload" /\ "list" \in firing
  <2>1. result.bans \subseteq OnScore("list") \cup RowsOnOverload(profile, "list", fill)
    BY <1>1 DEF WithClient
  <2>2. \A row \in RowsOnOverload(profile, "list", fill) : "list" \in firing
    BY <1>3, <1>4
  <2> QED
    BY <1>2, <1>3, <2>1, <2>2
<1>7. ASSUME NEW kind \in Kinds(result.bans)
      PROVE  /\ kind \in Kinds(profile.outcomes)
             /\ \/ kind = "score" /\ score # NoScore
                \/ kind = "list" /\ "list" \in firing
  <2>1. PICK row \in result.bans : \/ kind = "score" /\ row.on = "score" /\ row.kind = "list"
                                   \/ kind = row.kind /\ row.on = "overload"
    BY <1>7 DEF Kinds
  <2>2. kind \in {"score", "ask", "list"}
    BY DEF Kinds
  <2> QED
    BY <1>6, <2>1, <2>2 DEF Kinds
<1> QED
  BY <1>5, <1>7 DEF firing

LEMMA WithinAtEnd ==
  ASSUME VerdictInv, JudgedInv, stage = "done"
  PROVE  \E out \in EvaluateMay(Kind(message), Abstract(profile), EvaluateCodes) :
           LET may == WithOverload(out, Abstract(profile), fill) IN
             /\ may.reply = [verdict |-> result.verdict, code |-> result.code,
                             asks |-> \E row \in result.asks : row.on = "overload"]
             /\ Kinds(result.bans) \subseteq may.bans
<1> DEFINE asked == \E row \in result.asks : row.on = "overload"
           May(out) == WithOverload(out, Abstract(profile), fill)
           firing == Firing(Abstract(profile), fill)
<1>1. Judged(result.verdict, result.code)
  BY DEF JudgedInv, Ended
<1>2. /\ Abstract(profile) = NoProfile <=> profile = NoProfile
      /\ profile # NoProfile => /\ Abstract(profile).mode = profile.mode
                                /\ Abstract(profile).rows = Kinds(profile.outcomes)
      /\ Muted(Abstract(profile)) <=> Muted(profile)
  BY DEF Abstract, NoProfile, Muted
<1>3. Kinds({}) = {}
  BY DEF Kinds
<1>4. CASE Muted(profile) \/ result.verdict = "error"
  <2>1. result.asks = {} /\ result.bans = {} /\ asked = FALSE
    BY <1>4 DEF JudgedInv
  <2>2. \A out : out.reply.verdict = result.verdict => May(out) = out
    BY <1>2, <1>4 DEF WithOverload
  <2>3. \E out \in EvaluateMay(Kind(message), Abstract(profile), EvaluateCodes) :
          out = Plain(result.verdict, result.code)
    BY <1>1, <1>2, <1>4 DEF Judged, Sound, EvaluateMay, EvaluateCodes, Muted, BrokenCodes
  <2>4. /\ Plain(result.verdict, result.code).reply =
             [verdict |-> result.verdict, code |-> result.code, asks |-> FALSE]
        /\ Plain(result.verdict, result.code).bans = {}
    BY DEF Plain
  <2> HIDE DEF asked, May
  <2>5. /\ May(Plain(result.verdict, result.code)) = Plain(result.verdict, result.code)
    BY <2>2, <2>4
  <2> QED
    BY <1>3, <2>1, <2>3, <2>4, <2>5 DEF May, asked
<1>5. CASE ~Muted(profile) /\ result.verdict # "error"
  <2>1. Sound
    BY <1>1, <1>5 DEF Judged, Muted
  <2>2. /\ asked <=> "ask" \in firing
        /\ Kinds(result.bans) \subseteq
             (IF score = NoScore THEN {} ELSE Kinds(profile.outcomes) \cap {"score"})
             \cup (firing \cap {"list"})
    BY <1>5, KindsActing
  <2> DEFINE out == [reply |-> [verdict |-> result.verdict, code |-> result.code,
                                asks |-> FALSE],
                     bans |-> IF score = NoScore THEN {}
                              ELSE Kinds(profile.outcomes) \cap {"score"}]
  <2>3. out \in EvaluateMay(Kind(message), Abstract(profile), EvaluateCodes)
    <3>1. /\ Kind(message) = "sound" /\ Abstract(profile) # NoProfile
          /\ Abstract(profile).mode = profile.mode /\ profile.mode # "off"
          /\ Abstract(profile).rows = Kinds(profile.outcomes)
      BY <1>2, <2>1 DEF Sound, Muted
    <3>2. CASE score = NoScore
      <4>1. result.verdict = "allow" /\ result.code \in {"VLAI_NO_TEXT", "VLAI_SKIPPED"}
        BY <1>1, <1>5, <2>1, <3>2 DEF Judged, Sound, Muted
      <4>2. out = Plain("allow", result.code)
        BY <3>2, <4>1 DEF Plain
      <4> QED
        BY <3>1, <4>1, <4>2 DEF EvaluateMay, EvaluateCodes
    <3>3. CASE score # NoScore
      <4>1. /\ result.verdict = IF profile.mode = "observe" THEN "allow" ELSE "score"
            /\ result.code = IF profile.mode = "observe" THEN "VLAI_OBSERVE" ELSE "VLAI_SCORE"
        BY <1>1, <3>3 DEF Judged
      <4>2. "VLAI_SCORE" \in EvaluateCodes
        BY DEF EvaluateCodes
      <4> QED
        BY <3>1, <3>3, <4>1, <4>2 DEF EvaluateMay
    <3> QED
      BY <3>2, <3>3
  <2>4. asked \in BOOLEAN
    OBVIOUS
  <2> HIDE DEF asked, firing
  <2>5. /\ May(out).reply = [verdict |-> result.verdict, code |-> result.code, asks |-> asked]
        /\ Kinds(result.bans) \subseteq May(out).bans
    <3>1. ~Muted(Abstract(profile)) /\ out.reply.verdict # "error"
      BY <1>2, <1>5 DEF Muted
    <3>2. May(out) = [reply |-> [out.reply EXCEPT !.asks = "ask" \in firing],
                      bans |-> out.bans \cup (firing \cap {"list"})]
      BY <3>1 DEF WithOverload, firing
    <3>3. asked = ("ask" \in firing)
      <4>1. asked <=> "ask" \in firing
        BY <2>2
      <4> QED
        BY <2>4, <4>1, Zenon
    <3>4. May(out).reply = [verdict |-> result.verdict, code |-> result.code,
                            asks |-> "ask" \in firing]
      BY <3>2
    <3>5. May(out).reply = [verdict |-> result.verdict, code |-> result.code, asks |-> asked]
      BY <3>3, <3>4
    <3>6. Kinds(result.bans) \subseteq May(out).bans
      BY <2>2, <3>2
    <3> QED
      BY <3>5, <3>6
  <2> QED
    BY <2>3, <2>5 DEF asked
<1> QED
  BY <1>4, <1>5

\* A message is judged as Verdicts, and so the model of the request handling, allows,
\* whatever it asks, the store returns and the model finds.
THEOREM VerdictWithin == Spec => []WithinVerdicts
<1>1. VerdictInv /\ JudgedInv => WithinVerdicts
  BY WithinAtEnd DEF WithinVerdicts
<1> QED
  BY <1>1, VerdictInvariant, JudgedInvariant, PTL

-----------------------------------------------------------------------------
(* The factor *)

\* What the rules accept of the requests looked at, and what each request adds.
Accepted == {i \in DOMAIN prior : prior[i].do = "threshold" /\ Applies(prior[i])}
Deltas == [i \in DOMAIN prior |-> prior[i].delta]

\* The sum is complete at every turn of the loop, and brought within its bounds
\* behind it.
Behind == stage \in {"body", "args", "engine"} \/ (Ended /\ score # NoScore)

SumInv ==
  /\ stage = "prior" => percent = SumOf(Deltas, Accepted)
  /\ Behind => percent = Clamp(SumOf(Deltas, Accepted))

LEMMA PriorSums ==
  ASSUME VerdictInv, SumInv, NEW act \in Acts, Prior(act)
  PROVE  SumInv'
<1> DEFINE n == Len(prior) + 1
<1>1. /\ stage = "prior" /\ stage' = "prior" /\ prior' = Append(prior, act)
      /\ profile' = profile
      /\ percent' = IF Applies(act) /\ act.do = "threshold" THEN percent + act.delta
                                                            ELSE percent
  BY DEF Prior
<1>2. /\ DOMAIN prior = 1..Len(prior) /\ DOMAIN prior' = 1..n /\ Len(prior) \in Nat
      /\ \A i \in 1..Len(prior) : prior'[i] = prior[i] /\ prior[i] \in Acts
      /\ prior'[n] = act
  <2>1. prior \in Seq(Acts)
    BY DEF VerdictInv, VerdictTypeOK
  <2> QED
    BY <1>1, <2>1, AppendProperties, LenProperties
<1> HIDE DEF n
<1>3. DOMAIN prior' = DOMAIN prior \cup {n} /\ n \notin DOMAIN prior
  BY <1>2 DEF n
<1>4. \A other : Applies(other)' <=> Applies(other)
  BY <1>1 DEF Applies
<1>5. /\ Accepted' = IF Applies(act) /\ act.do = "threshold" THEN Accepted \cup {n}
                                                             ELSE Accepted
      /\ n \notin Accepted /\ Accepted \subseteq DOMAIN prior
  BY <1>1, <1>2, <1>3, <1>4 DEF Accepted
<1>6. IsFiniteSet(Accepted)
  <2>1. IsFiniteSet(DOMAIN prior)
    BY <1>2, FS_Interval
  <2> QED
    BY <1>5, <2>1, FS_Subset
<1>7. /\ \A i \in Accepted : Deltas'[i] = Deltas[i] /\ Deltas'[i] \in Int
      /\ Deltas'[n] = act.delta /\ act.delta \in Int
  BY <1>2, <1>3, <1>5, VerdictAssumption DEF Deltas
<1>8. SumOf(Deltas', Accepted) = SumOf(Deltas, Accepted)
  BY <1>6, <1>7, SumEqual
<1>9. SumOf(Deltas', Accepted \cup {n}) = act.delta + SumOf(Deltas', Accepted)
  BY <1>5, <1>6, <1>7, SumAdd
<1>10. percent = SumOf(Deltas, Accepted) /\ percent \in Int
  BY <1>1 DEF SumInv, VerdictInv
<1>11. percent' = SumOf(Deltas, Accepted)'
  BY <1>1, <1>5, <1>7, <1>8, <1>9, <1>10
<1> QED
  BY <1>1, <1>11 DEF SumInv, Behind, Ended

LEMMA SumStep ==
  ASSUME VerdictInv, SumInv, [Next]_vars
  PROVE  SumInv'
<1>1. ASSUME UNCHANGED <<prior, profile>>
      PROVE  SumOf(Deltas, Accepted)' = SumOf(Deltas, Accepted)
  BY <1>1 DEF Deltas, Accepted, Applies
<1>2. CASE UNCHANGED vars
  BY <1>1, <1>2 DEF vars, SumInv, Behind, Ended
<1>3. CASE Load
  <2>1. stage' \in {"start", "rejected"}
    BY <1>3 DEF Load
  <2> QED
    BY <2>1 DEF SumInv, Behind, Ended
<1>4. CASE Start
  <2>1. /\ prior' = <<>> /\ percent' = 0 /\ score' = NoScore
        /\ stage' \in {"prior", "returned"}
    BY <1>4 DEF VerdictInv, UntouchedInv, Early, Ended, Start, Return
  <2>2. Accepted' = {}
    <3>1. DOMAIN prior' = {}
      BY <2>1
    <3> QED
      BY <3>1 DEF Accepted
  <2>3. SumOf(Deltas, Accepted)' = 0
    BY <2>2, SumEmpty
  <2> QED
    BY <2>1, <2>3 DEF SumInv, Behind, Ended
<1>5. ASSUME NEW act \in Acts, Prior(act) PROVE SumInv'
  BY <1>5, PriorSums
<1>6. CASE PriorsDone
  <2>1. /\ stage = "prior" /\ percent' = Clamp(percent) /\ UNCHANGED <<prior, profile>>
        /\ stage' \in {"body", "returned"}
    BY <1>6 DEF PriorsDone, Return
  <2> QED
    BY <1>1, <2>1 DEF SumInv, Behind, Ended
<1>7. CASE Body \/ Args
  <2>1. /\ stage \in {"body", "args"} /\ UNCHANGED <<prior, profile, percent>>
        /\ stage' # "prior"
    BY <1>7 DEF Body, Args, Measured, Return
  <2> QED
    BY <1>1, <2>1 DEF SumInv, Behind
<1>8. CASE Engine
  <2>1. stage = "engine" /\ UNCHANGED <<prior, profile, percent>> /\ stage' # "prior"
    BY <1>8 DEF Engine, Return, Deliver
  <2> QED
    BY <1>1, <2>1 DEF SumInv, Behind
<1>9. CASE Overload
  <2>1. stage = "returned" /\ stage' = "done" /\ UNCHANGED <<prior, profile, percent, score>>
    BY <1>9 DEF Overload
  <2> QED
    BY <1>1, <2>1 DEF SumInv, Behind, Ended
<1> QED
  BY <1>2, <1>3, <1>4, <1>5, <1>6, <1>7, <1>8, <1>9 DEF Next

LEMMA SumStart == Init => SumInv
BY DEF Init, SumInv, Behind, Ended

LEMMA SumInvariant == Spec => []SumInv
BY SumStart, SumStep, VerdictInvariant, PTL DEF Spec

\* The property adds the deltas up where they stand.
LEMMA SumOfDeltas ==
  ASSUME VerdictInv
  PROVE  MapThenSumSet(LAMBDA i : prior[i].delta, Accepted) = SumOf(Deltas, Accepted)
<1>1. IsFiniteSet(Accepted) /\ Accepted \subseteq DOMAIN prior
  <2>1. prior \in Seq(Acts)
    BY DEF VerdictInv, VerdictTypeOK
  <2>2. IsFiniteSet(DOMAIN prior)
    BY <2>1, LenProperties, FS_Interval
  <2> QED
    BY <2>2, FS_Subset DEF Accepted
<1>2. PICK F : IsSum(F, Deltas, Accepted) /\ SumOf(Deltas, Accepted) = F[Accepted]
  BY <1>1, SumIs
<1> DEFINE Recursion(G) ==
      G = [s \in SUBSET Accepted |->
             IF s = {} THEN 0
             ELSE prior[CHOOSE x \in s : TRUE].delta + G[s \ {CHOOSE x \in s : TRUE}]]
<1>3. \A s \in SUBSET Accepted : s # {} => Deltas[Pick(s)] = prior[Pick(s)].delta
  BY <1>1 DEF Deltas, Pick
<1>4. \A G : Recursion(G) <=> IsSum(G, Deltas, Accepted)
  BY <1>3 DEF IsSum, Pick
<1>5. MapThenSumSet(LAMBDA i : prior[i].delta, Accepted)
        = (CHOOSE G : Recursion(G))[Accepted]
  BY DEF MapThenSumSet, MapThenFoldSet
<1> HIDE DEF Recursion
<1>6. Recursion(CHOOSE G : Recursion(G))
  BY <1>2, <1>4
<1> DEFINE H == CHOOSE G : Recursion(G)
<1>7. IsSum(H, Deltas, Accepted) /\ Same(Deltas, Deltas, Accepted)
      /\ Accepted \subseteq Accepted
  BY <1>4, <1>6 DEF Same
<1> HIDE DEF H
<1>8. H[Accepted] = F[Accepted]
  BY <1>1, <1>2, <1>7, SumAgrees
<1> QED
  BY <1>2, <1>5, <1>8 DEF H

\* The factor is the sum of what the rules accept, brought within its bounds once,
\* however many requests there are and in whatever order.
THEOREM VerdictFactorSums == Spec => []FactorIsClampedSum
<1>1. VerdictInv /\ SumInv => FactorIsClampedSum
  BY SumOfDeltas DEF SumInv, Behind, FactorIsClampedSum, Accepted
<1> QED
  BY <1>1, VerdictInvariant, SumInvariant, PTL
=============================================================================
