----------------------------- MODULE MCVerdict ------------------------------
(* The values of Verdict's constants for TLC. The rows are those a profile   *)
(* may have of each verb, and each of them with one field written otherwise. *)
EXTENDS Verdict

NoRow == [on |-> "score", at |-> 60, below |-> FALSE, eq |-> FALSE, code |-> "",
          list |-> "", write |-> "", ttl |-> Absent, to |-> "", do |-> "", apply |-> "",
          delta |-> Absent, value |-> Absent, counter |-> "", marker |-> "", group |-> "",
          set |-> "", phase |-> "", objects |-> {}, when |-> {}]

To(do) == [NoRow EXCEPT !.to = "captcha", !.do = do]
Record(do, set) == [NoRow EXCEPT !.do = do, !.set = set]

\* A legal row of every verb, of both sides of a record, and of a list.
BaseRows ==
  {To("challenge"), To("skip"), To("reauth"), [To("threshold") EXCEPT !.delta = -50],
   [To("mutate") EXCEPT !.group = "fine", !.set = "on"],
   [To("note") EXCEPT !.apply = "ip", !.value = 20, !.counter = "fine"],
   [To("active") EXCEPT !.apply = "request"], [To("passive") EXCEPT !.apply = "conn"],
   [To("vote") EXCEPT !.apply = "conn", !.phase = "frame"],
   [To("off") EXCEPT !.apply = "request", !.phase = "response"],
   [Record("audit", "on") EXCEPT !.apply = "response", !.objects = {"body"}],
   [Record("archive", "on") EXCEPT !.ttl = 60, !.when = {"deny"}, !.objects = {"args"}],
   Record("audit", "off"), Record("archive", "off"),
   [Record("mark", "") EXCEPT !.marker = "fine"], [Record("score", "") EXCEPT !.value = 20],
   [NoRow EXCEPT !.list = "fine", !.ttl = 600],
   [To("challenge") EXCEPT !.on = "overload", !.at = Absent],
   [NoRow EXCEPT !.on = "overload", !.list = "fine", !.ttl = 600]}

OtherValues ==
  [on |-> {"", "overload", "other"}, at |-> {Absent, NoNumber, -1, 0, 24, 25, 100, 101},
   below |-> {TRUE}, eq |-> {TRUE}, code |-> {"fine", "odd"}, list |-> {"", "fine", "odd"},
   write |-> {"asn", "other"}, ttl |-> {Absent, NoNumber, 0, 30}, to |-> {"", "*", "captcha"},
   do |-> {"", "note", "audit", "other"}, apply |-> {"", "session", "response", "conn", "other"},
   delta |-> {Absent, NoNumber, -101, 0, 900, 901}, value |-> {Absent, NoNumber, 0, 100, 101},
   counter |-> {"fine", "odd"}, marker |-> {"", "fine", "odd"}, group |-> {"", "fine", "odd"},
   set |-> {"", "off", "other"}, phase |-> {"request", "frame", "other"},
   objects |-> {{"args"}, {"odd"}}, when |-> {{"allow", "deny"}, {"odd"}}]

RowProfile(row) ==
  [mode |-> "", overload |-> "", prior |-> {}, outcomes |-> {row}]

RowProfiles ==
  {RowProfile(row) : row \in
     BaseRows \cup UNION {{[row EXCEPT ![field] = value] : value \in OtherValues[field]} :
                            row \in BaseRows, field \in DOMAIN OtherValues}}

Trusting == [sender |-> "ip", accept |-> {"threshold", "skip"}, codes |-> {"TRUSTED"}]
Anyhow == [sender |-> "ip", accept |-> {"threshold"}, codes |-> {}]

ScoreRows == {To("challenge"), [NoRow EXCEPT !.list = "fine", !.ttl = 600, !.below = TRUE],
              [To("skip") EXCEPT !.at = 0, !.eq = TRUE]}
OverloadRows(at) == {[To("challenge") EXCEPT !.on = "overload", !.at = at],
                     [NoRow EXCEPT !.on = "overload", !.at = at, !.list = "fine", !.ttl = 30]}

SpreadRows == {[To("challenge") EXCEPT !.on = "overload", !.at = 50],
               [To("challenge") EXCEPT !.on = "overload", !.at = 100],
               [NoRow EXCEPT !.on = "overload", !.at = 40, !.list = "fine", !.ttl = 30]}

Whole(mode, overload, rules, rows) ==
  [mode |-> mode, overload |-> overload, prior |-> rules, outcomes |-> rows]

\* Rows on both sides of a score, an exact one, overload rows with and without a
\* share of the queue, and with several; and profiles that do not read for something else than a row.
WholeProfiles ==
  {Whole("enforce", "wait", {Anyhow}, {}),
   Whole("enforce", "shed", {Trusting}, ScoreRows \cup SpreadRows),
   Whole("observe", "", {Trusting}, ScoreRows \cup OverloadRows(100)),
   Whole("off", "shed", {Trusting}, OverloadRows(50)),
   Whole("other", "shed", {}, {}), Whole("", "other", {}, {}),
   Whole("", "", {[Trusting EXCEPT !.sender = "*"]}, {}),
   Whole("", "", {[Trusting EXCEPT !.accept = {"note"}]}, {}),
   Whole("", "", {Trusting, [Anyhow EXCEPT !.codes = {"odd"}]}, {})}

AllProfiles == RowProfiles \cup WholeProfiles \cup {NoProfile}

Act(from, do, apply, code, delta) ==
  [from |-> from, do |-> do, apply |-> apply, code |-> code, delta |-> delta]

FewActs ==
  {Act("ip", "threshold", "request", "TRUSTED", -150),
   Act("ip", "threshold", "request", "TRUSTED", 60),
   Act("ip", "threshold", "ip", "TRUSTED", 60),
   Act("ip", "skip", "request", "TRUSTED", 0),
   Act("ip", "skip", "request", "", 0),
   Act("bot", "skip", "request", "TRUSTED", 0)}
=============================================================================
