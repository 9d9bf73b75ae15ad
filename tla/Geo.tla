-------------------------------- MODULE Geo ---------------------------------
(***************************************************************************)
(* The cache of network announcements in src/src/geo.py, and the lookups   *)
(* of the admit callback and of the worker that share it. The worker       *)
(* thread of a fetch is suspended time: the directory may change, and the  *)
(* other coroutine may look up, fill or reset the cache meanwhile.         *)
(*                                                                         *)
(* Addresses are numbers of one family. The composition of an AS is known  *)
(* by the edition of the directory it was read from.                       *)
(***************************************************************************)
EXTENDS Integers, Sequences, FiniteSets, SequencesExt

CONSTANTS Callers,   \* the coroutines that expand list writes
          Addrs,     \* the addresses looked up
          Directory  \* its editions: for each, its disjoint ranges

NoNet == [asns |-> {}]
NoComp == 0

\* The cache's own gen before the first reply, 0, is no edition's. The directory's
\* "effective" range around an address is one: the ranges of an edition are apart.
ASSUME GeoAssumption ==
  /\ Addrs \subseteq Nat
  /\ 1 \in DOMAIN Directory /\ 0 \notin DOMAIN Directory
  /\ \A e \in DOMAIN Directory : \A net \in Directory[e] :
       net.lo \in Nat /\ net.hi \in Nat /\ net.lo <= net.hi /\ net.asns # {}
  /\ \A e \in DOMAIN Directory : \A m, n \in Directory[e] :
       m = n \/ m.hi < n.lo \/ n.hi < m.lo

Editions == DOMAIN Directory
Asns == UNION {net.asns : net \in UNION {Directory[e] : e \in Editions}}

VARIABLES
  edition, \* the directory's edition now
  calls,   \* each caller's lookup: idle, asked of the directory, or replied
  gen,     \* Geo.gen
  spans,   \* Geo._spans, and _starts with them
  comps,   \* Geo._comps: the edition an AS's composition is of, or NoComp
  neg,     \* Geo._neg: the addresses known to have no range
  answers  \* the last result each caller got

vars == <<edition, calls, gen, spans, comps, neg, answers>>

\* The directory's range around an address.
NetOf(e, a) ==
  IF \E net \in Directory[e] : net.lo <= a /\ a <= net.hi
    THEN CHOOSE net \in Directory[e] : net.lo <= a /\ a <= net.hi
    ELSE NoNet

Idle == [step |-> "idle"]
NoAnswer == [kind |-> "none"]
Unavailable == [kind |-> "unavailable"]
Rows(a, net, compositions) ==
  [kind |-> "rows", addr |-> a, net |-> net, comps |-> compositions]

-----------------------------------------------------------------------------
(* the cache *)

\* bisect_right(starts, a) - 1, in positions from 1; 0 is none.
At(a) == Cardinality({i \in DOMAIN spans : spans[i].lo <= a})

\* Mutated form: the range before the address answers for it.
CachedPastEnd(a, expand) ==
  LET i == At(a) IN
    /\ i > 0
    /\ expand => \A n \in spans[i].asns : comps[n] # NoComp

\* _cached: the range around a, with the compositions of all its networks when
\* they are asked for.
Cached(a, expand) ==
  LET i == At(a) IN
    /\ i > 0 /\ a <= spans[i].hi
    /\ expand => \A n \in spans[i].asns : comps[n] # NoComp

CachedRows(a, expand) ==
  Rows(a, spans[At(a)], IF expand THEN {comps[n] : n \in spans[At(a)].asns} ELSE {})

\* Mutated form: the ends of the range are taken the wrong way round.
InsertReversed(held, net) ==
  LET i == Cardinality({j \in DOMAIN held : held[j].lo < net.lo}) + 1 IN
    InsertAt(held, i, [net EXCEPT !.lo = net.hi, !.hi = net.lo])

\* Mutated form: the range is put in beside whatever it overlaps.
InsertAnyway(held, net) ==
  LET i == Cardinality({j \in DOMAIN held : held[j].lo < net.lo}) + 1 IN
    InsertAt(held, i, net)

\* _insert: not over the range that starts next, nor under the one before.
Insert(held, net) ==
  LET i == Cardinality({j \in DOMAIN held : held[j].lo < net.lo}) + 1 IN
    IF \/ i <= Len(held) /\ held[i].lo <= net.hi
       \/ i > 1 /\ net.lo <= held[i - 1].hi
      THEN held ELSE InsertAt(held, i, net)

-----------------------------------------------------------------------------
(* _lookup *)

\* write up to the fetch: the cache, or the negative cache, may answer at once.
Write(c, a, expand) ==
  /\ calls[c] = Idle
  /\ \/ /\ Cached(a, expand)
        /\ answers' = [answers EXCEPT ![c] = CachedRows(a, expand)]
        /\ UNCHANGED calls
     \/ /\ ~Cached(a, expand) /\ a \in neg
        /\ answers' = [answers EXCEPT ![c] = Rows(a, NoNet, {})]
        /\ UNCHANGED calls
     \/ /\ ~Cached(a, expand) /\ a \notin neg
        /\ calls' = [calls EXCEPT ![c] = [step |-> "asked", addr |-> a, expand |-> expand]]
        /\ UNCHANGED answers
  /\ UNCHANGED <<edition, gen, spans, comps, neg>>

\* The directory answers from the edition it has at that moment.
Serve(c) ==
  /\ calls[c].step = "asked"
  /\ calls' = [calls EXCEPT ![c] =
                 [step |-> "replied", addr |-> @.addr, expand |-> @.expand, gen |-> edition]]
  /\ UNCHANGED <<edition, gen, spans, comps, neg, answers>>

\* Mutated form: the compositions outlive their edition.
ResetKeepsComps(e) ==
  IF e # gen THEN [spans |-> <<>>, comps |-> comps, neg |-> {}]
             ELSE [spans |-> spans, comps |-> comps, neg |-> neg]

\* _reset, when the reply is of another edition than the cache.
Reset(e) ==
  IF e # gen THEN [spans |-> <<>>, comps |-> [n \in Asns |-> NoComp], neg |-> {}]
             ELSE [spans |-> spans, comps |-> comps, neg |-> neg]

\* The rest of _lookup when the fetch comes back.
Receive(c) ==
  /\ calls[c].step = "replied"
  /\ LET call == calls[c]
         e == call.gen
         net == NetOf(e, call.addr)
         cache == Reset(e) IN
       /\ gen' = e
       /\ IF net = NoNet
            THEN /\ spans' = cache.spans /\ comps' = cache.comps
                 /\ neg' = cache.neg \cup {call.addr}
            ELSE /\ spans' = Insert(cache.spans, net)
                 /\ comps' = [n \in Asns |-> IF call.expand /\ n \in net.asns THEN e
                                             ELSE cache.comps[n]]
                 /\ neg' = cache.neg
       /\ answers' = [answers EXCEPT ![c] =
                        Rows(call.addr, net, IF call.expand /\ net # NoNet THEN {e} ELSE {})]
  /\ calls' = [calls EXCEPT ![c] = Idle]
  /\ UNCHANGED edition

\* The time-out of wait_for, an HTTP error, or a reply that is no object: the
\* cache stays. A reply whose range does not parse has already reset it.
Fail(c) ==
  /\ calls[c] # Idle
  /\ calls' = [calls EXCEPT ![c] = Idle]
  /\ answers' = [answers EXCEPT ![c] = Unavailable]
  /\ \/ UNCHANGED <<gen, spans, comps, neg>>
     \/ /\ calls[c].step = "replied"
        /\ LET cache == Reset(calls[c].gen) IN
             /\ gen' = calls[c].gen
             /\ spans' = cache.spans /\ comps' = cache.comps /\ neg' = cache.neg
  /\ UNCHANGED edition

\* An entry of the negative cache runs out after NEG_TTL_S, or is cut at NEG_MAX.
Forget(a) ==
  /\ a \in neg /\ neg' = neg \ {a}
  /\ UNCHANGED <<edition, calls, gen, spans, comps, answers>>

NewEdition ==
  /\ edition + 1 \in Editions /\ edition' = edition + 1
  /\ UNCHANGED <<calls, gen, spans, comps, neg, answers>>

-----------------------------------------------------------------------------
Init ==
  /\ edition = 1
  /\ calls = [c \in Callers |-> Idle]
  /\ gen = 0
  /\ spans = <<>>
  /\ comps = [n \in Asns |-> NoComp]
  /\ neg = {}
  /\ answers = [c \in Callers |-> NoAnswer]

Next ==
  \/ \E c \in Callers :
       \/ \E a \in Addrs, expand \in BOOLEAN : Write(c, a, expand)
       \/ Serve(c) \/ Receive(c) \/ Fail(c)
  \/ \E a \in Addrs : Forget(a)
  \/ NewEdition

Spec == Init /\ [][Next]_vars

-----------------------------------------------------------------------------
(* Properties *)

\* The values of the variables.
GeoTypeOK ==
  /\ edition \in Editions
  /\ \A c \in Callers : calls[c].step \in {"idle", "asked", "replied"}
  /\ gen \in Editions \cup {0}
  /\ \A i \in DOMAIN spans : spans[i].lo <= spans[i].hi
  /\ comps \in [Asns -> Editions \cup {NoComp}]
  /\ neg \subseteq Addrs
  /\ \A c \in Callers : answers[c].kind \in {"none", "unavailable", "rows"}

\* The ranges stand in order and apart, as the bisections need: also when both
\* coroutines fetched the same range, or ranges of two editions, at once.
SpansApart ==
  \A i, j \in DOMAIN spans : i < j => spans[i].hi < spans[j].lo

\* Everything the cache holds is of the edition it names.
CacheOfOneEdition ==
  /\ \A i \in DOMAIN spans : gen # 0 /\ spans[i] \in Directory[gen]
  /\ \A n \in Asns : comps[n] \in {NoComp, gen}
  /\ \A a \in neg : gen # 0 /\ NetOf(gen, a) = NoNet

\* What a caller gets is what one edition of the directory says of the address:
\* ranges of one are never expanded with the compositions of another.
AnswersOfOneEdition ==
  \A c \in Callers : answers[c].kind = "rows" =>
    \E e \in Editions : /\ answers[c].net = NetOf(e, answers[c].addr)
                        /\ answers[c].comps \subseteq {e}
=============================================================================
