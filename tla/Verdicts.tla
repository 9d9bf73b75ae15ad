------------------------------ MODULE Verdicts ------------------------------
(***************************************************************************)
(* What an evaluation may come to, for a profile, as far as the handling   *)
(* of requests depends on it: Inspector takes it from here, and Verdict    *)
(* shows that decide.evaluate and process come to nothing else.            *)
(*                                                                         *)
(* Of a profile only the mode, the overload behaviour, the kinds of its    *)
(* rows (a list row on the score, an ask and a list row on overload) and   *)
(* the least `at` of the overload rows of each kind count (100: no row of  *)
(* it fires by the fill). `asks` of a reply says that asks of overload     *)
(* rows travel in it.                                                      *)
(***************************************************************************)
EXTENDS Integers

NoProfile == [mode |-> "none"]

ProfileType ==
  [mode : {"enforce", "observe", "off"}, overload : {"wait", "shed"},
   at : [{"ask", "list"} -> 25..100], rows : SUBSET {"score", "ask", "list"}]

EvaluateCodes == {"VLAI_SCORE", "VLAI_NO_TEXT", "VLAI_SKIPPED",
                  "VLAI_STORE_UNAVAILABLE", "VLAI_DEADLINE"}

Muted(p) == p = NoProfile \/ p.mode = "off"

\* Outcome.fires_overload for a request that was not dropped.
FiresOverload(at, fill) == at < 100 /\ fill >= at

Plain(v, c) == [reply |-> [verdict |-> v, code |-> c, asks |-> FALSE], bans |-> {}]

\* A message does not parse, has a version or a phase that is not served, or is sound.
BrokenCodes == [garbage |-> "VLAI_UNPARSEABLE", version |-> "VLAI_UNSUPPORTED_VERSION",
                frame |-> "VLAI_PHASE_NOT_SUPPORTED"]
MessageKinds == DOMAIN BrokenCodes \cup {"sound"}

\* What evaluate may return when it can end with the codes given.
EvaluateMay(kind, p, codes) ==
  LET scored == [verdict |-> IF p.mode = "observe" THEN "allow" ELSE "score",
                 code |-> IF p.mode = "observe" THEN "VLAI_OBSERVE" ELSE "VLAI_SCORE",
                 asks |-> FALSE]
  IN  IF kind # "sound" THEN {Plain("error", BrokenCodes[kind])}
      ELSE IF p = NoProfile THEN {Plain("error", "VLAI_UNKNOWN_PROFILE")}
      ELSE IF p.mode = "off" THEN {Plain("allow", "VLAI_PROFILE_OFF")}
      ELSE {Plain("allow", c) : c \in codes \cap {"VLAI_NO_TEXT", "VLAI_SKIPPED"}}
           \cup {Plain("error", c) : c \in codes \cap {"VLAI_STORE_UNAVAILABLE",
                                                       "VLAI_DEADLINE"}}
           \cup {[reply |-> scored, bans |-> bans] :
                   bans \in IF "VLAI_SCORE" \in codes
                              THEN SUBSET (p.rows \cap {"score"}) ELSE {}}

\* The kinds of overload rows of which one fires.
Firing(p, fill) == {kind \in p.rows \cap {"ask", "list"} : FiresOverload(p.at[kind], fill)}

\* Mutated form: an error is given the rows too.
WithOverloadAlways(out, p, fill) ==
  IF Muted(p) THEN out
  ELSE [reply |-> [out.reply EXCEPT !.asks = "ask" \in Firing(p, fill)],
        bans |-> out.bans \cup (Firing(p, fill) \cap {"list"})]

\* The overload rows process adds to what evaluate returned.
WithOverload(out, p, fill) ==
  IF Muted(p) \/ out.reply.verdict = "error" THEN out
  ELSE [reply |-> [out.reply EXCEPT !.asks = "ask" \in Firing(p, fill)],
        bans |-> out.bans \cup (Firing(p, fill) \cap {"list"})]
=============================================================================
