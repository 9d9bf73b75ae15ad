-------------------------------- MODULE Rows --------------------------------
(***************************************************************************)
(* How src/src/profiles.py reads the rows of a profile.yaml: which it      *)
(* takes, and what it makes of them.                                       *)
(*                                                                         *)
(* A written row gives every field a value. A text the code compares with  *)
(* words is one of them or "other"; a name, a code, a marker is "fine" or  *)
(* "odd", by its alphabet and length; Unset is one that is not there, and  *)
(* Absent a number that is not. `below` and `eq` are what bool() makes of  *)
(* the value, `ttl` is in seconds, and an "odd" among `objects` or `when`  *)
(* is an entry that does not read.                                         *)
(***************************************************************************)
EXTENDS Integers, FiniteSets

Unset == ""
Absent == -1001
NoNumber == -1000 \* something else where a number should be

RawRow ==
  [on : {Unset, "score", "overload", "other"}, at : Int, below : BOOLEAN, eq : BOOLEAN,
   code : {Unset, "fine", "odd"}, list : {Unset, "fine", "odd"}, write : STRING, ttl : Int,
   to : STRING, do : STRING, apply : STRING, delta : Int, value : Int,
   counter : {Unset, "fine", "odd"}, marker : {Unset, "fine", "odd"},
   group : {Unset, "fine", "odd"}, set : STRING, phase : STRING,
   objects : SUBSET {"headers", "args", "body", "odd"}, when : SUBSET {"allow", "deny", "odd"}]

Axes ==
  [challenge |-> {"request"}, threshold |-> {"request"}, skip |-> {"request"},
   mutate |-> {"request"}, reauth |-> {"session"},
   note |-> {"request", "ip", "asn", "session"},
   active |-> {"request", "conn"}, passive |-> {"request", "conn"},
   vote |-> {"request", "conn"}, off |-> {"request", "conn"},
   audit |-> {"request", "response"}, archive |-> {"request", "response"},
   mark |-> {"request"}, score |-> {"request"}]

Verbs == DOMAIN Axes
AuditVerbs == {"audit", "archive"}
ControlVerbs == {"active", "passive", "vote", "off"}
RecordVerbs == AuditVerbs \cup {"mark", "score"}
Writes == {"addr", "net", "net_all", "asn"}

-----------------------------------------------------------------------------
(* What _outcome takes *)

On(raw) == IF raw.on = Unset THEN "score" ELSE raw.on

\* A verb with one axis, or one of the record, need not name it.
Axis(raw) ==
  IF raw.apply = Unset /\ (Cardinality(Axes[raw.do]) = 1 \/ raw.do \in RecordVerbs)
    THEN IF raw.do = "reauth" THEN "session" ELSE "request"
    ELSE raw.apply

ConditionReads(raw) ==
  \/ On(raw) = "score" /\ raw.at \in 0..100 /\ ~(raw.below /\ raw.eq)
  \/ On(raw) = "overload" /\ raw.at \in {Absent} \cup 25..100 /\ ~raw.below /\ ~raw.eq

ListReads(raw) ==
  /\ raw.list = "fine" /\ raw.do = Unset
  /\ raw.write \in Writes \cup {Unset}
  /\ raw.ttl > 0

\* threshold, note and score have a number of their own, and no other has one.
NumbersRead(raw) ==
  /\ IF raw.do = "threshold" THEN raw.delta \in (-100..900) \ {0} ELSE raw.delta = Absent
  /\ IF raw.do \in {"note", "score"} THEN raw.value \in (-100..100) \ {0}
                                     ELSE raw.value = Absent

NamesRead(raw) ==
  /\ raw.counter \in IF raw.do = "note" THEN {Unset, "fine"} ELSE {Unset}
  /\ raw.marker = IF raw.do = "mark" THEN "fine" ELSE Unset
  /\ raw.group = IF raw.do = "mutate" THEN "fine" ELSE Unset
  /\ raw.do = "mutate" => raw.set \in {"on", "off"}

PhaseReads(raw) ==
  raw.phase # Unset =>
    /\ raw.do \in ControlVerbs /\ raw.phase \in {"request", "response", "frame"}
    /\ Axis(raw) = "conn" => raw.phase = "frame"

Timed(raw) == raw.ttl > 0

\* Mutated form: a record switched off keeps what it says of objects.
RecordReadsLoose(raw) ==
  /\ raw.ttl \in {Absent} \cup Nat /\ "odd" \notin raw.objects \cup raw.when
  /\ IF raw.do \in AuditVerbs THEN raw.set \in {"on", "off"}
     ELSE /\ raw.objects = {} /\ ~Timed(raw) /\ raw.when = {}
          /\ raw.set # Unset => raw.do = "mutate"

\* ttl, when, the objects and set. A ttl of nothing counts as none.
RecordReads(raw) ==
  /\ raw.ttl \in {Absent} \cup Nat /\ "odd" \notin raw.objects \cup raw.when
  /\ IF raw.do \in AuditVerbs
       THEN /\ raw.set \in {"on", "off"}
            /\ raw.set = "off" => raw.objects = {} /\ ~Timed(raw) /\ raw.when = {}
            /\ raw.do = "audit" => ~Timed(raw) /\ raw.when = {}
            /\ Axis(raw) = "response" => "args" \notin raw.objects
       ELSE /\ raw.objects = {} /\ ~Timed(raw) /\ raw.when = {}
            /\ raw.set # Unset => raw.do = "mutate"

AskReads(raw) ==
  /\ raw.do \in Verbs /\ raw.list = Unset
  /\ raw.to \in {Unset, "*"} <=> raw.do \in RecordVerbs
  /\ Axis(raw) \in Axes[raw.do]
  /\ NumbersRead(raw) /\ NamesRead(raw) /\ PhaseReads(raw) /\ RecordReads(raw)

RowReads(raw) ==
  /\ ConditionReads(raw)
  /\ raw.code # "odd"
  /\ ListReads(raw) \/ AskReads(raw)

-----------------------------------------------------------------------------
(* What a row that reads becomes *)

\* Outcome.ask: the objects, the ttl and `when` travel only with a record that is on.
Ask(raw) ==
  LET on == raw.do \in AuditVerbs /\ raw.set = "on" IN
    [do |-> raw.do, apply |-> Axis(raw), to |-> raw.to, delta |-> raw.delta,
     value |-> raw.value, counter |-> raw.counter, marker |-> raw.marker,
     group |-> raw.group, phase |-> raw.phase, set |-> raw.set, code |-> raw.code,
     ttl |-> IF on /\ raw.do = "archive" /\ Timed(raw) THEN raw.ttl ELSE Absent,
     when |-> IF on /\ raw.do = "archive" THEN raw.when ELSE {},
     objects |-> IF on THEN raw.objects ELSE {}]

ListWrite(raw) ==
  [list |-> raw.list, write |-> IF raw.write = Unset THEN "addr" ELSE raw.write,
   ttl |-> raw.ttl, code |-> raw.code]

\* Mutated form: an overload row without `at` counts from an empty queue.
OutcomeFromZero(raw) ==
  [on |-> On(raw), at |-> IF raw.at = Absent THEN 0 ELSE raw.at,
   compare |-> IF raw.eq THEN "exactly" ELSE IF raw.below THEN "below" ELSE "from",
   kind |-> IF raw.do # Unset THEN "ask" ELSE "list",
   says |-> IF raw.do # Unset THEN Ask(raw) ELSE ListWrite(raw)]

\* An overload row without an `at` has 100, which never fires by the fill.
Outcome(raw) ==
  [on |-> On(raw), at |-> IF raw.at = Absent THEN 100 ELSE raw.at,
   compare |-> IF raw.eq THEN "exactly" ELSE IF raw.below THEN "below" ELSE "from",
   kind |-> IF raw.do # Unset THEN "ask" ELSE "list",
   says |-> IF raw.do # Unset THEN Ask(raw) ELSE ListWrite(raw)]

-----------------------------------------------------------------------------
(* The rules of trigger.prior, and the profile *)

RuleReads(rule) ==
  /\ rule.sender \notin {Unset, "*"}
  /\ rule.accept # {} /\ rule.accept \subseteq {"threshold", "skip"}
  /\ "odd" \notin rule.codes

ProfileReads(raw) ==
  /\ raw.mode \in {Unset, "enforce", "observe", "off"}
  /\ raw.overload \in {Unset, "wait", "shed"}
  /\ \A rule \in raw.prior : RuleReads(rule)
  /\ \A row \in raw.outcomes : RowReads(row)

Read(raw) ==
  [mode |-> IF raw.mode = Unset THEN "enforce" ELSE raw.mode,
   overload |-> IF raw.overload = Unset THEN "shed" ELSE raw.overload,
   prior |-> raw.prior,
   outcomes |-> {Outcome(row) : row \in raw.outcomes}]
=============================================================================
