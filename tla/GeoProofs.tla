----------------------------- MODULE GeoProofs ------------------------------
(***************************************************************************)
(* The announcement cache, for every directory and every number of         *)
(* coroutines that share it: the bisections find what they look for, the   *)
(* ranges stay apart, and no answer mixes two editions.                    *)
(***************************************************************************)
EXTENDS Geo, SequenceTheorems, FiniteSetTheorems, TLAPS

Nets == UNION {Directory[e] : e \in Editions}

\* What the bisections rely on.
Sorted(held) == \A i, j \in DOMAIN held : i < j => held[i].hi < held[j].lo

Calls == {Idle} \cup [step : {"asked"}, addr : Addrs, expand : BOOLEAN]
                \cup [step : {"replied"}, addr : Addrs, expand : BOOLEAN, gen : Editions]

GeoInv ==
  /\ edition \in Editions /\ gen \in Editions \cup {0}
  /\ calls \in [Callers -> Calls]
  /\ DOMAIN answers = Callers
  /\ \A c \in Callers : answers[c].kind \in {"none", "unavailable", "rows"}
  /\ spans \in Seq(Nets)
  /\ comps \in [Asns -> Editions \cup {NoComp}]
  /\ neg \subseteq Addrs
  /\ SpansApart
  /\ CacheOfOneEdition
  /\ AnswersOfOneEdition

-----------------------------------------------------------------------------
(* The bisections *)

\* A set of positions that goes down to the first is known by its size.
LEMMA InitialSegment ==
  ASSUME NEW n \in Nat, NEW J \in SUBSET (1..n),
         \A i \in 1..n : \A j \in J : i <= j => i \in J
  PROVE  Cardinality(J) \in 0..n /\ J = 1..Cardinality(J)
<1> DEFINE k == Cardinality(J)
<1>1. IsFiniteSet(1..n) /\ Cardinality(1..n) = n
  BY FS_Interval
<1>2. IsFiniteSet(J) /\ k \in Nat /\ k <= n
  BY <1>1, FS_Subset, FS_CardinalityType
<1>3. IsFiniteSet(1..k) /\ Cardinality(1..k) = k
  BY <1>2, FS_Interval
<1>4. 1..k \subseteq J
  <2> SUFFICES ASSUME NEW m \in 1..k, m \notin J PROVE FALSE
    OBVIOUS
  <2>0. m \in Nat \ {0} /\ m <= k /\ m \in 1..n
    BY <1>2
  <2>1. J \subseteq 1..(m - 1)
    BY <2>0
  <2>2. /\ IsFiniteSet(1..(m - 1))
        /\ Cardinality(1..(m - 1)) = IF 1 > m - 1 THEN 0 ELSE (m - 1) - 1 + 1
    <3>1. 1 \in Int /\ m - 1 \in Int
      BY <2>0
    <3> QED
      BY <3>1, FS_Interval
  <2>3. Cardinality(J) <= Cardinality(1..(m - 1))
    BY <2>1, <2>2, FS_Subset
  <2>4. k <= m - 1
    BY <2>0, <2>2, <2>3
  <2> QED
    BY <1>2, <2>0, <2>4
<1>5. J = 1..k
  BY <1>2, <1>3, <1>4, FS_Subset
<1> QED
  BY <1>2, <1>5

LEMMA NetBounds ==
  \A net \in Nets : /\ net.lo \in Nat /\ net.hi \in Nat /\ net.lo <= net.hi
                    /\ net.asns # {} /\ net.asns \subseteq Asns
BY GeoAssumption DEF Nets, Editions, Asns

\* bisect_left over the starts splits the ranges at a value: those that start below
\* it come first.
LEMMA Bisect ==
  ASSUME NEW held \in Seq(Nets), Sorted(held), NEW J \in SUBSET DOMAIN held,
         \A i \in DOMAIN held : \A j \in J : held[i].lo <= held[j].lo => i \in J
  PROVE  /\ Cardinality(J) \in 0..Len(held)
         /\ \A i \in DOMAIN held : i \in J <=> i <= Cardinality(J)
<1>1. DOMAIN held = 1..Len(held) /\ Len(held) \in Nat /\ \A i \in DOMAIN held : held[i] \in Nets
  BY LenProperties, ElementOfSeq
<1>2. \A i, j \in DOMAIN held : i <= j => held[i].lo <= held[j].lo
  <2> SUFFICES ASSUME NEW i \in DOMAIN held, NEW j \in DOMAIN held, i < j
               PROVE  held[i].lo <= held[j].lo
    BY <1>1, NetBounds
  <2>1. held[i].hi < held[j].lo
    BY DEF Sorted
  <2> QED
    BY <1>1, <2>1, NetBounds
<1>3. \A i \in 1..Len(held) : \A j \in J : i <= j => i \in J
  BY <1>1, <1>2
<1>4. Cardinality(J) \in 0..Len(held) /\ J = 1..Cardinality(J)
  BY <1>1, <1>3, InitialSegment
<1> QED
  BY <1>1, <1>4

\* list.insert: what stands before the place stays, what follows moves up by one.
LEMMA InsertAtElements ==
  ASSUME NEW S, NEW s \in Seq(S), NEW k \in 0..Len(s), NEW e \in S
  PROVE  /\ InsertAt(s, k + 1, e) \in Seq(S)
         /\ DOMAIN InsertAt(s, k + 1, e) = 1..(Len(s) + 1)
         /\ \A i \in 1..k : InsertAt(s, k + 1, e)[i] = s[i]
         /\ InsertAt(s, k + 1, e)[k + 1] = e
         /\ \A i \in (k + 2)..(Len(s) + 1) : InsertAt(s, k + 1, e)[i] = s[i - 1]
<1> DEFINE front == SubSeq(s, 1, k)
           back == SubSeq(s, k + 1, Len(s))
           whole == (front \o <<e>>) \o back
<1>1. Len(s) \in Nat /\ DOMAIN s = 1..Len(s) /\ \A i \in 1..Len(s) : s[i] \in S
  BY LenProperties, ElementOfSeq
<1>2. front \in Seq(S) /\ Len(front) = k /\ \A i \in 1..k : front[i] = s[i]
  <2>1. \A i \in 1..k : s[i] \in S
    BY <1>1
  <2> QED
    BY <1>1, <2>1, SubSeqProperties
<1>3. back \in Seq(S) /\ Len(back) = Len(s) - k /\ \A i \in 1..(Len(s) - k) : back[i] = s[k + i]
  <2>1. \A i \in (k + 1)..Len(s) : s[i] \in S
    BY <1>1
  <2>2. /\ back \in Seq(S)
        /\ Len(back) = IF k + 1 <= Len(s) THEN Len(s) - (k + 1) + 1 ELSE 0
        /\ \A i \in 1..(Len(s) - (k + 1) + 1) : back[i] = s[(k + 1) + i - 1]
    <3>1. k + 1 \in Int /\ Len(s) \in Int
      BY <1>1
    <3> QED
      BY <2>1, <3>1, SubSeqProperties
  <2> HIDE DEF back
  <2>3. Len(s) - (k + 1) + 1 = Len(s) - k /\ (k + 1 <= Len(s) \/ Len(s) - k = 0)
    <3>1. ASSUME NEW n \in Nat, NEW m \in 0..n
          PROVE  n - (m + 1) + 1 = n - m /\ (m + 1 <= n \/ n - m = 0)
      OBVIOUS
    <3>2. Len(s) \in Nat
      BY <1>1
    <3> QED
      BY <3>1, <3>2
  <2>5. Len(back) = Len(s) - k
    <3>1. Len(back) = IF k + 1 <= Len(s) THEN Len(s) - (k + 1) + 1 ELSE 0
      BY <2>2
    <3>2. CASE k + 1 <= Len(s)
      BY <2>3, <3>1, <3>2
    <3>3. CASE ~(k + 1 <= Len(s))
      BY <2>3, <3>1, <3>3
    <3> QED
      BY <3>2, <3>3
  <2>4. \A i \in 1..(Len(s) - k) : (k + 1) + i - 1 = k + i
    BY <1>1
  <2> QED
    BY <2>2, <2>3, <2>4, <2>5
<1> HIDE DEF front, back
<1>4. <<e>> \in Seq(S) /\ Len(<<e>>) = 1 /\ <<e>>[1] = e
  OBVIOUS
<1>5. /\ front \o <<e>> \in Seq(S) /\ Len(front \o <<e>>) = k + 1
      /\ \A i \in 1..k : (front \o <<e>>)[i] = s[i]
      /\ (front \o <<e>>)[k + 1] = e
  <2>1. /\ front \o <<e>> \in Seq(S) /\ Len(front \o <<e>>) = k + 1
        /\ \A i \in 1..(k + 1) :
             (front \o <<e>>)[i] = IF i <= k THEN front[i] ELSE <<e>>[i - k]
    BY <1>1, <1>2, <1>4, ConcatProperties
  <2>2. /\ k + 1 \in 1..(k + 1) /\ ~(k + 1 <= k) /\ (k + 1) - k = 1
        /\ \A i \in 1..k : i \in 1..(k + 1) /\ i <= k
    BY <1>1
  <2> QED
    BY <1>2, <1>4, <2>1, <2>2
<1>6. /\ whole \in Seq(S) /\ Len(whole) = Len(s) + 1
      /\ \A i \in 1..(Len(s) + 1) :
           whole[i] = IF i <= k + 1 THEN (front \o <<e>>)[i] ELSE back[i - (k + 1)]
  BY <1>1, <1>3, <1>5, ConcatProperties
<1>7. \A i \in (k + 2)..(Len(s) + 1) : whole[i] = s[i - 1]
  <2> SUFFICES ASSUME NEW i \in (k + 2)..(Len(s) + 1) PROVE whole[i] = s[i - 1]
    OBVIOUS
  <2>1. /\ i \in 1..(Len(s) + 1) /\ ~(i <= k + 1)
        /\ i - (k + 1) \in 1..(Len(s) - k) /\ k + (i - (k + 1)) = i - 1
    BY <1>1
  <2> QED
    BY <1>3, <1>6, <2>1
<1>8. \A i \in 1..k : whole[i] = s[i]
  BY <1>1, <1>5, <1>6
<1>9. whole[k + 1] = e
  BY <1>1, <1>5, <1>6
<1>10. InsertAt(s, k + 1, e) = whole
  <2>1. (k + 1) - 1 = k
    BY <1>1
  <2> QED
    BY <2>1 DEF InsertAt, front, back
<1>11. DOMAIN whole = 1..(Len(s) + 1)
  BY <1>6, LenProperties
<1> QED
  BY <1>6, <1>7, <1>8, <1>9, <1>10, <1>11

\* _insert keeps the ranges sorted and apart, whatever it is given.
LEMMA InsertKeepsApart ==
  ASSUME NEW held \in Seq(Nets), Sorted(held), NEW net \in Nets
  PROVE  /\ Insert(held, net) \in Seq(Nets)
         /\ Sorted(Insert(held, net))
         /\ \A i \in DOMAIN Insert(held, net) :
              Insert(held, net)[i] = net \/ \E j \in DOMAIN held : Insert(held, net)[i] = held[j]
<1> DEFINE J == {j \in DOMAIN held : held[j].lo < net.lo}
           k == Cardinality(J)
           new == InsertAt(held, k + 1, net)
<1>1. DOMAIN held = 1..Len(held) /\ Len(held) \in Nat /\ \A i \in DOMAIN held : held[i] \in Nets
  BY LenProperties, ElementOfSeq
<1>2. \A i \in DOMAIN held : \A j \in J : held[i].lo <= held[j].lo => i \in J
  BY <1>1, NetBounds
<1>3. k \in 0..Len(held) /\ \A i \in DOMAIN held : held[i].lo < net.lo <=> i <= k
  <2>1. k \in 0..Len(held) /\ \A i \in DOMAIN held : i \in J <=> i <= k
    BY <1>2, Bisect
  <2> QED
    BY <2>1
<1> HIDE DEF k
<1>4. /\ new \in Seq(Nets) /\ DOMAIN new = 1..(Len(held) + 1)
      /\ \A i \in 1..k : new[i] = held[i]
      /\ new[k + 1] = net
      /\ \A i \in (k + 2)..(Len(held) + 1) : new[i] = held[i - 1]
  BY <1>3, InsertAtElements
<1>5. CASE Insert(held, net) = held
  BY <1>5
<1>6. CASE /\ Insert(held, net) = new
           /\ k + 1 <= Len(held) => held[k + 1].lo > net.hi
           /\ k + 1 > 1 => net.lo > held[k].hi
  <2> HIDE DEF new
  <2>1. \A i \in 1..k : held[i].hi < net.lo
    <3> SUFFICES ASSUME NEW i \in 1..k PROVE held[i].hi < net.lo
      OBVIOUS
    <3>1. i \in DOMAIN held /\ k \in DOMAIN held /\ held[k].hi < net.lo
      BY <1>1, <1>3, <1>6, NetBounds
    <3>2. i < k => held[i].hi < held[k].lo
      BY <3>1 DEF Sorted
    <3> QED
      BY <1>1, <1>3, <3>1, <3>2, NetBounds
  <2>2. \A i \in (k + 1)..Len(held) : net.hi < held[i].lo
    <3> SUFFICES ASSUME NEW i \in (k + 1)..Len(held) PROVE net.hi < held[i].lo
      OBVIOUS
    <3>1. i \in DOMAIN held /\ k + 1 \in DOMAIN held /\ net.hi < held[k + 1].lo
      BY <1>1, <1>3, <1>6, NetBounds
    <3>2. k + 1 < i => held[k + 1].hi < held[i].lo
      BY <3>1 DEF Sorted
    <3> QED
      BY <1>1, <1>3, <3>1, <3>2, NetBounds
  <2>3. Sorted(new)
    <3> SUFFICES ASSUME NEW i \in DOMAIN new, NEW j \in DOMAIN new, i < j
                 PROVE  new[i].hi < new[j].lo
      BY DEF Sorted
    <3>1. CASE j <= k
      BY <1>1, <1>3, <1>4, <3>1 DEF Sorted
    <3>2. CASE j = k + 1
      BY <1>3, <1>4, <2>1, <3>2
    <3>3. CASE i = k + 1 /\ j > k + 1
      <4>1. j - 1 \in (k + 1)..Len(held) /\ new[j] = held[j - 1] /\ new[i] = net
        BY <1>1, <1>3, <1>4, <3>3
      <4> QED
        BY <2>2, <4>1
    <3>4. CASE i <= k /\ j > k + 1
      <4>1. j - 1 \in DOMAIN held /\ i \in DOMAIN held /\ i < j - 1
            /\ new[j] = held[j - 1] /\ new[i] = held[i]
        BY <1>1, <1>3, <1>4, <3>4
      <4> QED
        BY <4>1 DEF Sorted
    <3>5. CASE i > k + 1
      <4>1. j - 1 \in DOMAIN held /\ i - 1 \in DOMAIN held /\ i - 1 < j - 1
            /\ new[j] = held[j - 1] /\ new[i] = held[i - 1]
        BY <1>1, <1>3, <1>4, <3>5
      <4> QED
        BY <4>1 DEF Sorted
    <3> QED
      BY <1>1, <1>3, <1>4, <3>1, <3>2, <3>3, <3>4, <3>5
  <2>4. \A i \in DOMAIN new : new[i] = net \/ \E j \in DOMAIN held : new[i] = held[j]
    <3> SUFFICES ASSUME NEW i \in 1..(Len(held) + 1)
                 PROVE  new[i] = net \/ \E j \in DOMAIN held : new[i] = held[j]
      BY <1>4
    <3>1. \/ i \in 1..k /\ i \in DOMAIN held
          \/ i = k + 1
          \/ i \in (k + 2)..(Len(held) + 1) /\ i - 1 \in DOMAIN held
      BY <1>1, <1>3
    <3> QED
      BY <1>4, <3>1
  <2> QED
    BY <1>4, <1>6, <2>3, <2>4
<1>7. \/ Insert(held, net) = held
      \/ /\ Insert(held, net) = new
         /\ k + 1 <= Len(held) => ~(held[k + 1].lo <= net.hi)
         /\ k + 1 > 1 => ~(net.lo <= held[k].hi)
  <2>1. (k + 1) - 1 = k
    BY <1>3
  <2> QED
    BY <2>1 DEF Insert, k
<1>8. /\ k + 1 <= Len(held) => held[k + 1] \in Nets
      /\ k + 1 > 1 => held[k] \in Nets
  BY <1>1, <1>3
<1> QED
  BY <1>5, <1>6, <1>7, <1>8, NetBounds

-----------------------------------------------------------------------------
(* The cache and the answers *)

LEMMA NetOfIs ==
  ASSUME NEW e \in Editions, NEW a
  PROVE  \/ NetOf(e, a) = NoNet /\ \A net \in Directory[e] : ~(net.lo <= a /\ a <= net.hi)
         \/ /\ NetOf(e, a) # NoNet /\ NetOf(e, a) \in Directory[e]
            /\ NetOf(e, a).lo <= a /\ a <= NetOf(e, a).hi
<1>1. CASE \E net \in Directory[e] : net.lo <= a /\ a <= net.hi
  <2>1. NetOf(e, a) \in Directory[e] /\ NetOf(e, a).lo <= a /\ a <= NetOf(e, a).hi
    BY <1>1 DEF NetOf
  <2>2. NetOf(e, a).asns # {}
    BY <2>1, GeoAssumption DEF Editions
  <2> QED
    BY <2>1, <2>2 DEF NoNet
<1>2. CASE ~\E net \in Directory[e] : net.lo <= a /\ a <= net.hi
  BY <1>2 DEF NetOf
<1> QED
  BY <1>1, <1>2

\* A cached range that holds an address is what the directory says of it.
LEMMA NetOfUnique ==
  ASSUME NEW e \in Editions, NEW a \in Nat, NEW net \in Directory[e],
         net.lo <= a, a <= net.hi
  PROVE  NetOf(e, a) = net
<1>1. NetOf(e, a) \in Directory[e] /\ NetOf(e, a).lo <= a /\ a <= NetOf(e, a).hi
  BY NetOfIs
<1>2. /\ NetOf(e, a).lo \in Nat /\ NetOf(e, a).hi \in Nat /\ net.lo \in Nat /\ net.hi \in Nat
      /\ NetOf(e, a) = net \/ NetOf(e, a).hi < net.lo \/ net.hi < NetOf(e, a).lo
  BY <1>1, GeoAssumption DEF Editions
<1> QED
  BY <1>1, <1>2

\* bisect_right finds the only range that can hold the address.
LEMMA CachedHolds ==
  ASSUME GeoInv, NEW a \in Addrs, NEW expand \in BOOLEAN, Cached(a, expand)
  PROVE  /\ At(a) \in DOMAIN spans /\ gen \in Editions
         /\ spans[At(a)] = NetOf(gen, a)
<1> DEFINE J == {i \in DOMAIN spans : spans[i].lo <= a}
<1>0. a \in Nat
  BY GeoAssumption
<1>1. DOMAIN spans = 1..Len(spans) /\ Len(spans) \in Nat /\ \A i \in DOMAIN spans : spans[i] \in Nets
  BY LenProperties, ElementOfSeq DEF GeoInv
<1>2. Cardinality(J) \in 0..Len(spans) /\ \A i \in DOMAIN spans : i \in J <=> i <= Cardinality(J)
  <2>1. \A i \in DOMAIN spans : \A j \in J : spans[i].lo <= spans[j].lo => i \in J
    BY <1>0, <1>1, NetBounds
  <2>2. Sorted(spans)
    BY DEF GeoInv, SpansApart, Sorted
  <2> QED
    BY <2>1, <2>2, Bisect DEF GeoInv
<1>3. At(a) = Cardinality(J) /\ At(a) > 0 /\ a <= spans[At(a)].hi
  BY DEF At, Cached
<1> HIDE DEF J
<1>4. At(a) \in DOMAIN spans /\ At(a) \in J
  BY <1>1, <1>2, <1>3
<1>5. gen \in Editions /\ spans[At(a)] \in Directory[gen] /\ spans[At(a)].lo <= a
  BY <1>4 DEF J, GeoInv, CacheOfOneEdition
<1> QED
  BY <1>0, <1>3, <1>4, <1>5, NetOfUnique

\* What an answer is: the ranges of one edition with its compositions, or none.
Fine(answer) ==
  /\ answer.kind \in {"none", "unavailable", "rows"}
  /\ answer.kind = "rows" => \E e \in Editions : /\ answer.net = NetOf(e, answer.addr)
                                                 /\ answer.comps \subseteq {e}

LEMMA AnswersFine ==
  ASSUME GeoInv, NEW c \in Callers, NEW answer, Fine(answer),
         answers' = [answers EXCEPT ![c] = answer]
  PROVE  /\ DOMAIN answers' = Callers
         /\ \A d \in Callers : answers'[d].kind \in {"none", "unavailable", "rows"}
         /\ AnswersOfOneEdition'
<1>1. \A d \in Callers : answers'[d] = IF d = c THEN answer ELSE answers[d]
  BY DEF GeoInv
<1>2. \A d \in Callers : Fine(answers[d])
  BY DEF GeoInv, AnswersOfOneEdition, Fine
<1>3. \A d \in Callers : Fine(answers'[d])
  BY <1>1, <1>2
<1> QED
  BY <1>3 DEF GeoInv, AnswersOfOneEdition, Fine

LEMMA WriteKeeps ==
  ASSUME GeoInv, NEW c \in Callers, NEW a \in Addrs, NEW expand \in BOOLEAN, Write(c, a, expand)
  PROVE  GeoInv'
<1>1. UNCHANGED <<edition, gen, spans, comps, neg>>
  BY DEF Write
<1>2. SpansApart' /\ CacheOfOneEdition'
  BY <1>1 DEF GeoInv, SpansApart, CacheOfOneEdition
<1>3. CASE Cached(a, expand) /\ answers' = [answers EXCEPT ![c] = CachedRows(a, expand)]
           /\ UNCHANGED calls
  <2>1. /\ At(a) \in DOMAIN spans /\ gen \in Editions
        /\ spans[At(a)] = NetOf(gen, a)
    BY <1>3, CachedHolds
  <2>2. spans[At(a)].asns \subseteq Asns
    BY <2>1, ElementOfSeq, LenProperties, NetBounds DEF GeoInv
  <2>3. (IF expand THEN {comps[n] : n \in spans[At(a)].asns} ELSE {}) \subseteq {gen}
    BY <1>3, <2>2 DEF Cached, GeoInv, CacheOfOneEdition
  <2>4. Fine(CachedRows(a, expand))
    BY <2>1, <2>3 DEF Fine, CachedRows, Rows
  <2> QED
    BY <1>1, <1>2, <1>3, <2>4, AnswersFine DEF GeoInv
<1>4. CASE a \in neg /\ answers' = [answers EXCEPT ![c] = Rows(a, NoNet, {})] /\ UNCHANGED calls
  <2>1. gen \in Editions /\ NetOf(gen, a) = NoNet
    BY <1>4 DEF GeoInv, CacheOfOneEdition
  <2>2. Fine(Rows(a, NoNet, {}))
    BY <2>1 DEF Fine, Rows
  <2> QED
    BY <1>1, <1>2, <1>4, <2>2, AnswersFine DEF GeoInv
<1>5. CASE /\ calls' = [calls EXCEPT ![c] = [step |-> "asked", addr |-> a, expand |-> expand]]
           /\ UNCHANGED answers
  <2>1. calls' \in [Callers -> Calls]
    BY <1>5 DEF GeoInv, Calls
  <2> QED
    BY <1>1, <1>2, <1>5, <2>1 DEF GeoInv, AnswersOfOneEdition
<1> QED
  BY <1>3, <1>4, <1>5 DEF Write

LEMMA ServeKeeps ==
  ASSUME GeoInv, NEW c \in Callers, Serve(c)
  PROVE  GeoInv'
<1>1. calls[c] \in [step : {"asked"}, addr : Addrs, expand : BOOLEAN]
  BY DEF GeoInv, Serve, Calls, Idle
<1>2. calls' \in [Callers -> Calls]
  BY <1>1 DEF GeoInv, Serve, Calls
<1> QED
  BY <1>2 DEF GeoInv, Serve, SpansApart, CacheOfOneEdition, AnswersOfOneEdition

\* After a reset the cache holds nothing, or what it held of the reply's edition.
LEMMA ResetKeeps ==
  ASSUME GeoInv, NEW e \in Editions
  PROVE  /\ Reset(e).spans \in Seq(Nets) /\ Sorted(Reset(e).spans)
         /\ \A i \in DOMAIN Reset(e).spans : Reset(e).spans[i] \in Directory[e]
         /\ Reset(e).comps \in [Asns -> {NoComp, e}]
         /\ Reset(e).neg \subseteq Addrs /\ \A a \in Reset(e).neg : NetOf(e, a) = NoNet
<1>1. CASE e # gen
  <2>1. <<>> \in Seq(Nets) /\ Sorted(<<>>)
    BY DEF Sorted
  <2> QED
    BY <1>1, <2>1 DEF Reset
<1>2. CASE e = gen
  BY <1>2 DEF GeoInv, Reset, SpansApart, Sorted, CacheOfOneEdition
<1> QED
  BY <1>1, <1>2

LEMMA ReceiveKeeps ==
  ASSUME GeoInv, NEW c \in Callers, Receive(c)
  PROVE  GeoInv'
<1>1. calls[c] \in [step : {"replied"}, addr : Addrs, expand : BOOLEAN, gen : Editions]
  BY DEF GeoInv, Receive, Calls, Idle
<1> DEFINE e == calls[c].gen
           a == calls[c].addr
           expand == calls[c].expand
           net == NetOf(e, a)
           cache == Reset(e)
<1>2. e \in Editions /\ a \in Addrs /\ expand \in BOOLEAN /\ e # 0
  BY <1>1, GeoAssumption DEF Editions
<1>3. /\ gen' = e /\ UNCHANGED edition
      /\ calls' = [calls EXCEPT ![c] = Idle]
      /\ answers' = [answers EXCEPT ![c] = Rows(a, net, IF expand /\ net # NoNet THEN {e} ELSE {})]
      /\ \/ /\ net = NoNet
            /\ spans' = cache.spans /\ comps' = cache.comps /\ neg' = cache.neg \cup {a}
         \/ /\ net # NoNet
            /\ spans' = Insert(cache.spans, net)
            /\ comps' = [n \in Asns |-> IF expand /\ n \in net.asns THEN e ELSE cache.comps[n]]
            /\ neg' = cache.neg
  BY DEF Receive
<1>4. calls' \in [Callers -> Calls]
  BY <1>3 DEF GeoInv, Calls
<1>5. Fine(Rows(a, net, IF expand /\ net # NoNet THEN {e} ELSE {}))
  BY <1>2 DEF Fine, Rows
<1>6. /\ DOMAIN answers' = Callers
      /\ \A d \in Callers : answers'[d].kind \in {"none", "unavailable", "rows"}
      /\ AnswersOfOneEdition'
  BY <1>3, <1>5, AnswersFine
<1>7. /\ spans' \in Seq(Nets) /\ Sorted(spans')
      /\ \A i \in DOMAIN spans' : spans'[i] \in Directory[e]
  <2>1. CASE net = NoNet
    BY <1>2, <1>3, <2>1, ResetKeeps
  <2>2. CASE net # NoNet
    <3>1. net \in Directory[e] /\ net \in Nets
      BY <1>2, <2>2, NetOfIs DEF Nets
    <3>2. cache.spans \in Seq(Nets) /\ Sorted(cache.spans)
          /\ \A i \in DOMAIN cache.spans : cache.spans[i] \in Directory[e]
      BY <1>2, ResetKeeps
    <3>3. spans' = Insert(cache.spans, net)
      BY <1>3, <2>2
    <3> HIDE DEF cache, net
    <3> QED
      BY <3>1, <3>2, <3>3, InsertKeepsApart
  <2> QED
    BY <2>1, <2>2
<1>8. comps' \in [Asns -> {NoComp, e}]
  <2>1. cache.comps \in [Asns -> {NoComp, e}]
    BY <1>2, ResetKeeps
  <2> HIDE DEF cache, net, e, expand
  <2> QED
    BY <1>3, <2>1
<1>9. neg' \subseteq Addrs /\ \A b \in neg' : NetOf(e, b) = NoNet
  <2>1. cache.neg \subseteq Addrs /\ \A b \in cache.neg : NetOf(e, b) = NoNet
    BY <1>2, ResetKeeps
  <2> QED
    BY <1>2, <1>3, <2>1
<1>10. SpansApart' /\ CacheOfOneEdition'
  BY <1>2, <1>3, <1>7, <1>8, <1>9 DEF SpansApart, Sorted, CacheOfOneEdition
<1> QED
  BY <1>2, <1>3, <1>4, <1>6, <1>7, <1>8, <1>9, <1>10 DEF GeoInv, NoComp

LEMMA FailKeeps ==
  ASSUME GeoInv, NEW c \in Callers, Fail(c)
  PROVE  GeoInv'
<1>1. /\ calls' \in [Callers -> Calls] /\ UNCHANGED edition
      /\ answers' = [answers EXCEPT ![c] = Unavailable]
  BY DEF GeoInv, Fail, Calls
<1>2. Fine(Unavailable)
  BY DEF Fine, Unavailable
<1>3. /\ DOMAIN answers' = Callers
      /\ \A d \in Callers : answers'[d].kind \in {"none", "unavailable", "rows"}
      /\ AnswersOfOneEdition'
  BY <1>1, <1>2, AnswersFine
<1>4. CASE UNCHANGED <<gen, spans, comps, neg>>
  BY <1>1, <1>3, <1>4 DEF GeoInv, SpansApart, CacheOfOneEdition
<1>5. CASE /\ calls[c].step = "replied"
           /\ gen' = calls[c].gen
           /\ spans' = Reset(calls[c].gen).spans /\ comps' = Reset(calls[c].gen).comps
           /\ neg' = Reset(calls[c].gen).neg
  <2>1. PICK e \in Editions : e = calls[c].gen /\ e # 0
    BY <1>5, GeoAssumption DEF GeoInv, Calls, Idle, Editions
  <2>2. /\ spans' \in Seq(Nets) /\ Sorted(spans')
        /\ \A i \in DOMAIN spans' : spans'[i] \in Directory[e]
        /\ comps' \in [Asns -> {NoComp, e}]
        /\ neg' \subseteq Addrs /\ \A a \in neg' : NetOf(e, a) = NoNet
    BY <1>5, <2>1, ResetKeeps
  <2>3. SpansApart' /\ CacheOfOneEdition'
    BY <1>5, <2>1, <2>2 DEF SpansApart, Sorted, CacheOfOneEdition
  <2> QED
    BY <1>1, <1>3, <1>5, <2>1, <2>2, <2>3 DEF GeoInv, NoComp
<1> QED
  BY <1>4, <1>5 DEF Fail

LEMMA GeoStep ==
  ASSUME GeoInv, [Next]_vars
  PROVE  GeoInv'
<1>1. CASE \E a \in Addrs : Forget(a)
  BY <1>1 DEF GeoInv, Forget, SpansApart, CacheOfOneEdition, AnswersOfOneEdition
<1>2. CASE NewEdition
  BY <1>2 DEF GeoInv, NewEdition, SpansApart, CacheOfOneEdition, AnswersOfOneEdition
<1>3. CASE UNCHANGED vars
  BY <1>3 DEF GeoInv, vars, SpansApart, CacheOfOneEdition, AnswersOfOneEdition
<1> QED
  BY <1>1, <1>2, <1>3, WriteKeeps, ServeKeeps, ReceiveKeeps, FailKeeps DEF Next

\* Lookups of any number of callers, handled in any order, keep the cache in shape.
THEOREM GeoInvariant == Spec => []GeoInv
<1>1. Init => GeoInv
  <2> SUFFICES ASSUME Init PROVE GeoInv
    OBVIOUS
  <2>1. 1 \in Editions
    BY GeoAssumption DEF Editions
  <2>2. /\ calls \in [Callers -> Calls] /\ DOMAIN answers = Callers
        /\ \A c \in Callers : answers[c] = NoAnswer
    BY DEF Init, Calls
  <2>3. spans \in Seq(Nets) /\ SpansApart /\ DOMAIN spans = {}
    BY DEF Init, SpansApart
  <2>4. CacheOfOneEdition
    BY <2>3 DEF Init, CacheOfOneEdition
  <2> QED
    BY <2>1, <2>2, <2>3, <2>4 DEF Init, GeoInv, AnswersOfOneEdition, NoAnswer
<1>2. GeoInv /\ [Next]_vars => GeoInv'
  BY GeoStep
<1> QED
  BY <1>1, <1>2, PTL DEF Spec

\* The cache's variables keep their types, and every range its right way round.
THEOREM GeoTypeCorrect == Spec => []GeoTypeOK
<1>1. GeoInv => GeoTypeOK
  <2> SUFFICES ASSUME GeoInv PROVE GeoTypeOK
    OBVIOUS
  <2>1. \A i \in DOMAIN spans : spans[i].lo <= spans[i].hi
    BY NetBounds, ElementOfSeq, LenProperties DEF GeoInv
  <2>2. \A c \in Callers : calls[c].step \in {"idle", "asked", "replied"}
    BY DEF GeoInv, Calls, Idle
  <2> QED
    BY <2>1, <2>2 DEF GeoInv, GeoTypeOK
<1> QED
  BY <1>1, GeoInvariant, PTL

\* The bisections always find the ranges in order and apart.
THEOREM GeoSpansApart == Spec => []SpansApart
<1>1. GeoInv => SpansApart
  BY DEF GeoInv
<1> QED
  BY <1>1, GeoInvariant, PTL

\* No reply that comes late leaves something of its edition in another's cache.
THEOREM GeoCacheOfOneEdition == Spec => []CacheOfOneEdition
<1>1. GeoInv => CacheOfOneEdition
  BY DEF GeoInv
<1> QED
  BY <1>1, GeoInvariant, PTL

\* Every answer, cached or fetched, is what one edition says of the address.
THEOREM GeoAnswersOfOneEdition == Spec => []AnswersOfOneEdition
<1>1. GeoInv => AnswersOfOneEdition
  BY DEF GeoInv
<1> QED
  BY <1>1, GeoInvariant, PTL
=============================================================================
