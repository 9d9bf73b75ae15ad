---------------------------- MODULE LogShipProofs ----------------------------
(***************************************************************************)
(* No line of the log is sent twice or out of order, and none is lost from *)
(* the books but a batch cut off and one that does not encode, for every   *)
(* size of list and batch, every run of failures and every moment of the   *)
(* cancellation.                                                           *)
(*                                                                         *)
(* A snapshot of the counter is what was counted in its window: CountsInv  *)
(* says of each slot of the ring what it holds, and the sums by slot are   *)
(* then the sums by event.                                                 *)
(***************************************************************************)
EXTENDS LogShip, SumProofs, SequenceTheorems, TLAPS

Rising(s) == \A i, j \in DOMAIN s : i < j => s[i] < s[j]

\* What waits is the newest of what was logged, without a gap.
Newest(list) == \A i \in DOMAIN list : list[i] = lines - Len(list) + i

\* Whatever has left the list is older than all of it, and what is in publish is
\* newer than all that went out; nothing is in publish but while it runs.
OrderInv ==
  /\ shipper # "sending" => sending = <<>>
  /\ lines = Len(pending) + Len(sending) + Len(shipped) + dropped + failed + cutOff + spoilt
  /\ Newest(pending) /\ Rising(sending) /\ Rising(shipped)
  /\ \A i \in DOMAIN sending : sending[i] <= lines - Len(pending)
  /\ \A i \in DOMAIN shipped : shipped[i] <= lines - Len(pending)
  /\ \A i \in DOMAIN shipped : \A j \in DOMAIN sending : shipped[i] < sending[j]

\* What no counter knows of: a batch at the cancellation, and the one that ended the task.
LossInv ==
  /\ cutOff <= MaxLines /\ (cutOff > 0 => cancelled)
  /\ spoilt <= MaxLines /\ (spoilt > 0 => shipper = "ended")

ShipInv == LogShipTypeOK /\ OrderInv /\ LossInv

-----------------------------------------------------------------------------
(* The ring *)

LEMMA BucketIsOne ==
  ASSUME NEW ms \in Nat
  PROVE  BucketOf(ms) \in BucketIds
<1> DEFINE reached == {k \in 0..(Buckets - 2) : 2^k <= ms}
<1>1. Buckets \in Nat \ {0}
  BY FlowAssumption
<1>2. IsFiniteSet(0..(Buckets - 2)) /\ Cardinality(0..(Buckets - 2)) = Buckets - 1
  <2>1. Buckets - 2 \in Int /\ (Buckets - 2 < 0 => Buckets - 1 = 0)
    BY <1>1
  <2> QED
    BY <1>1, <2>1, FS_Interval
<1>3. reached \subseteq 0..(Buckets - 2)
  OBVIOUS
<1>4. Cardinality(reached) \in Nat /\ Cardinality(reached) <= Buckets - 1
  <2> HIDE DEF reached
  <2> QED
    BY <1>2, <1>3, FS_Subset, FS_CardinalityType
<1> QED
  BY <1>1, <1>4 DEF BucketOf, BucketIds

LEMMA AdvanceKeepsRing ==
  ASSUME NEW r \in Rings, NEW now \in Nat
  PROVE  Advance(r, now) \in Rings
<1>1. Blank \in [ops : Nat, errs : Nat, hist : [BucketIds -> Nat], max : Nat, sum : Nat]
  BY DEF Blank
<1> QED
  BY <1>1 DEF Advance, Rings

SlotValues == [ops : Nat, errs : Nat, hist : [BucketIds -> Nat], max : Nat, sum : Nat]

LEMMA CountedKeepsSlot ==
  ASSUME NEW slot \in SlotValues, NEW n \in Nat, NEW err \in BOOLEAN, NEW ms \in Nat
  PROVE  Counted(slot, n, err, ms) \in SlotValues
<1>1. BucketOf(ms) \in BucketIds /\ ms * n \in Nat
  BY BucketIsOne
<1>2. /\ slot.ops \in Nat /\ slot.errs \in Nat /\ slot.max \in Nat /\ slot.sum \in Nat
      /\ slot.hist \in [BucketIds -> Nat]
  BY DEF SlotValues
<1>3. [slot.hist EXCEPT ![BucketOf(ms)] = @ + n] \in [BucketIds -> Nat]
  BY <1>1, <1>2
<1>4. /\ slot.ops + n \in Nat /\ slot.sum + ms * n \in Nat
      /\ (IF err THEN slot.errs + n ELSE slot.errs) \in Nat
      /\ (IF ms > slot.max THEN ms ELSE slot.max) \in Nat
  BY <1>1, <1>2
<1> QED
  BY <1>3, <1>4 DEF Counted, SlotValues

\* Lines counted at a time fall into a slot and a bucket of the ring.
LEMMA AddNKeepsRing ==
  ASSUME NEW r \in Rings, NEW now \in Nat, NEW n \in Nat, NEW err \in BOOLEAN, NEW ms \in Nat
  PROVE  AddN(r, now, n, err, ms) \in Rings
<1> DEFINE a == Advance(r, now)
           k == now % Window
<1>1. Rings = [epoch : Nat, slots : [Slots -> SlotValues]]
  BY DEF Rings, SlotValues
<1>2. a \in Rings /\ k \in Slots
  BY AdvanceKeepsRing, FlowAssumption DEF Slots
<1> HIDE DEF a, k
<1>3. Counted(a.slots[k], n, err, ms) \in SlotValues
  BY <1>1, <1>2, CountedKeepsSlot
<1>4. [a EXCEPT !.slots[k] = Counted(a.slots[k], n, err, ms)] \in Rings
  BY <1>1, <1>2, <1>3
<1> QED
  BY <1>4 DEF AddN, a, k

LEMMA CountKeepsRing ==
  ASSUME ring \in Rings, events \in [Events -> Nat], clock \in 1..MaxClock,
         NEW n \in Nat, NEW err \in BOOLEAN, NEW ms \in Latencies \cup {0},
         Count(n, err, ms)
  PROVE  ring' \in Rings /\ events' \in [Events -> Nat]
<1>1. ms \in Nat /\ clock \in Nat
  BY LogShipAssumption
<1>2. ring' \in Rings
  BY <1>1, AddNKeepsRing DEF Count
<1>3. [at |-> clock, err |-> err, ms |-> ms] \in Events
  BY DEF Events
<1>4. events' \in [Events -> Nat]
  BY <1>3 DEF Count
<1> QED
  BY <1>2, <1>4

-----------------------------------------------------------------------------
(* The list *)

LEMMA Joined ==
  ASSUME NEW S \in SUBSET Int, NEW s \in Seq(S), NEW t \in Seq(S), Rising(s), Rising(t),
         \A i \in DOMAIN s : \A j \in DOMAIN t : s[i] < t[j]
  PROVE  /\ s \o t \in Seq(S) /\ Len(s \o t) = Len(s) + Len(t) /\ Rising(s \o t)
         /\ \A i \in DOMAIN (s \o t) : \/ \E j \in DOMAIN s : (s \o t)[i] = s[j]
                                       \/ \E j \in DOMAIN t : (s \o t)[i] = t[j]
<1> DEFINE u == s \o t
<1>1. /\ Len(s) \in Nat /\ DOMAIN s = 1..Len(s)
      /\ Len(t) \in Nat /\ DOMAIN t = 1..Len(t)
  BY LenProperties
<1>2. /\ u \in Seq(S) /\ Len(u) = Len(s) + Len(t)
      /\ \A i \in 1..(Len(s) + Len(t)) : u[i] = IF i <= Len(s) THEN s[i] ELSE t[i - Len(s)]
  BY ConcatProperties
<1>3. DOMAIN u = 1..(Len(s) + Len(t))
  BY <1>2, LenProperties
<1> HIDE DEF u
<1>4. \A i \in DOMAIN u : \/ i \in DOMAIN s /\ u[i] = s[i]
                          \/ i > Len(s) /\ i - Len(s) \in DOMAIN t /\ u[i] = t[i - Len(s)]
  BY <1>1, <1>2, <1>3
<1>5. \A i \in DOMAIN u : i \in Int
  BY <1>3
<1>6. Rising(u)
  <2> SUFFICES ASSUME NEW i \in DOMAIN u, NEW j \in DOMAIN u, i < j
               PROVE  u[i] < u[j]
    BY DEF Rising
  <2>1. CASE i \in DOMAIN s /\ u[i] = s[i] /\ j \in DOMAIN s /\ u[j] = s[j]
    BY <2>1 DEF Rising
  <2>2. CASE i \in DOMAIN s /\ u[i] = s[i] /\ j - Len(s) \in DOMAIN t /\ u[j] = t[j - Len(s)]
    BY <2>2
  <2>3. CASE /\ i - Len(s) \in DOMAIN t /\ u[i] = t[i - Len(s)]
             /\ j - Len(s) \in DOMAIN t /\ u[j] = t[j - Len(s)]
    <3>1. i - Len(s) < j - Len(s)
      BY <1>1, <1>5
    <3> QED
      BY <2>3, <3>1 DEF Rising
  <2>4. ~(i > Len(s) /\ j \in DOMAIN s)
    BY <1>1, <1>5
  <2> QED
    BY <1>4, <2>1, <2>2, <2>3, <2>4
<1> QED
  BY <1>2, <1>4, <1>6 DEF u

\* A part of the list, from one place to another.
LEMMA PartOfList ==
  ASSUME NEW S, NEW s \in Seq(S), NEW from \in 1..(Len(s) + 1), NEW to \in (from - 1)..Len(s)
  PROVE  /\ SubSeq(s, from, to) \in Seq(S) /\ Len(SubSeq(s, from, to)) = to - from + 1
         /\ DOMAIN SubSeq(s, from, to) = 1..(to - from + 1)
         /\ \A i \in 1..(to - from + 1) : SubSeq(s, from, to)[i] = s[from + i - 1]
<1> DEFINE part == SubSeq(s, from, to)
<1>1. Len(s) \in Nat /\ \A i \in 1..Len(s) : s[i] \in S
  BY LenProperties, ElementOfSeq
<1>2. from \in Int /\ to \in Int /\ from >= 1 /\ from - 1 <= to /\ to <= Len(s)
  BY <1>1
<1>3. \A i \in from..to : s[i] \in S
  BY <1>1, <1>2
<1>4. /\ part \in Seq(S)
      /\ Len(part) = IF from <= to THEN to - from + 1 ELSE 0
      /\ \A i \in 1..(to - from + 1) : part[i] = s[from + i - 1]
  BY <1>2, <1>3, SubSeqProperties
<1> HIDE DEF part
<1>5. Len(part) = to - from + 1
  <2>1. Len(part) = IF from <= to THEN to - from + 1 ELSE 0
    BY <1>4
  <2>2. from <= to \/ to - from + 1 = 0
    BY <1>2
  <2> QED
    BY <2>1, <2>2
<1>6. DOMAIN part = 1..(to - from + 1)
  BY <1>4, <1>5, LenProperties
<1> QED
  BY <1>4, <1>5, <1>6 DEF part

\* The same of a list of lines.
LEMMA PartOfLines ==
  ASSUME NEW m, NEW s \in Seq(1..m), NEW from \in 1..(Len(s) + 1), NEW to \in (from - 1)..Len(s)
  PROVE  /\ SubSeq(s, from, to) \in Seq(1..m) /\ Len(SubSeq(s, from, to)) = to - from + 1
         /\ DOMAIN SubSeq(s, from, to) = 1..(to - from + 1)
         /\ \A i \in 1..(to - from + 1) : SubSeq(s, from, to)[i] = s[from + i - 1]
<1> DEFINE Lines == 1..m
<1>1. s \in Seq(Lines)
  OBVIOUS
<1> HIDE DEF Lines
<1>2. /\ SubSeq(s, from, to) \in Seq(Lines) /\ Len(SubSeq(s, from, to)) = to - from + 1
      /\ DOMAIN SubSeq(s, from, to) = 1..(to - from + 1)
      /\ \A i \in 1..(to - from + 1) : SubSeq(s, from, to)[i] = s[from + i - 1]
  BY <1>1, PartOfList
<1> QED
  BY <1>2 DEF Lines

LEMMA Numbers ==
  ASSUME ShipInv
  PROVE  /\ lines \in Nat /\ dropped \in Nat /\ failed \in Nat /\ cutOff \in Nat /\ spoilt \in Nat
         /\ Len(pending) \in Nat /\ DOMAIN pending = 1..Len(pending)
         /\ Len(sending) \in Nat /\ DOMAIN sending = 1..Len(sending)
         /\ Len(shipped) \in Nat /\ DOMAIN shipped = 1..Len(shipped)
         /\ MaxPending \in Nat /\ MaxLines \in Nat /\ MaxLines > 0 /\ MaxPending > 0
<1>1. lines \in Nat /\ dropped \in Nat /\ failed \in Nat /\ cutOff \in Nat /\ spoilt \in Nat
  BY LogShipAssumption DEF ShipInv, LogShipTypeOK
<1> QED
  BY <1>1, LenProperties, LogShipAssumption DEF ShipInv, LogShipTypeOK

\* The books balance when a batch moves from one of its places to another.
LEMMA Balance ==
  ASSUME NEW p \in Nat, NEW s \in Nat, NEW out \in Nat, NEW d \in Nat, NEW f \in Nat,
         NEW c \in Nat, NEW u \in Nat, NEW p2 \in Nat, NEW s2 \in Nat, NEW u2 \in Nat,
         p2 + s2 + u2 = p + u
  PROVE  LET before == p + s + out + d + f + c + u IN
           /\ before = p2 + s2 + (out + s) + d + f + c + u2
           /\ before = p2 + s2 + out + d + (f + s) + c + u2
           /\ before = p2 + s2 + out + d + f + (c + s) + u2
OBVIOUS

\* flush takes the oldest of what waits, as many as a batch holds.
LEMMA FlushSplits ==
  ASSUME ShipInv, NEW last \in BOOLEAN, FlushOn(last), lines' = lines
  PROVE  /\ pending' \in Seq(1..lines) /\ sending' \in Seq(1..lines)
         /\ Len(pending') \in Nat /\ Len(sending') \in Nat
         /\ Len(pending') + Len(sending') + spoilt' = Len(pending) + spoilt
         /\ Len(pending') <= Len(pending) /\ Len(sending') <= MaxLines
         /\ Newest(pending)' /\ Rising(sending')
         /\ \A i \in DOMAIN sending' : /\ lines - Len(pending) < sending'[i]
                                       /\ sending'[i] <= lines - Len(pending')
         /\ shipper' \in {"asleep", "sending", "ended"}
         /\ shipper' # "sending" => sending' = <<>>
         /\ spoilt' \in Nat
         /\ spoilt' = spoilt \/ (shipper' = "ended" /\ spoilt' <= spoilt + MaxLines)
<1>1. CASE pending = <<>>
  <2>1. /\ pending' = <<>> /\ sending' = <<>> /\ shipper' \in {"asleep", "ended"}
        /\ spoilt' = spoilt
    BY <1>1 DEF FlushOn
  <2>2. /\ <<>> \in Seq(1..lines) /\ Len(<<>>) = 0 /\ DOMAIN <<>> = {}
    BY EmptySeq
  <2>3. Newest(pending)' /\ Rising(sending')
    BY <2>1, <2>2 DEF Newest, Rising
  <2> QED
    BY <1>1, <2>1, <2>2, <2>3, Numbers
<1>2. CASE pending # <<>>
  <2> DEFINE size == IF Len(pending) < MaxLines THEN Len(pending) ELSE MaxLines
             n == Len(pending)
  <2>1. size \in 0..n /\ n \in Nat /\ n \in size..n /\ size <= MaxLines
    BY Numbers
  <2> DEFINE batch == SubSeq(pending, 1, size)
  <2>2. /\ pending' = SubSeq(pending, size + 1, n)
        /\ \/ shipper' = "sending" /\ sending' = batch /\ spoilt' = spoilt
           \/ shipper' = "ended" /\ sending' = <<>> /\ spoilt' = spoilt + size
    BY <1>2, <2>1 DEF FlushOn
  <2>3. pending \in Seq(1..lines) /\ \A i \in 1..n : pending[i] = lines - n + i
    BY Numbers DEF ShipInv, LogShipTypeOK, OrderInv, Newest
  <2>14. pending \in Seq(1..lines)
    BY DEF ShipInv, LogShipTypeOK
  <2> HIDE DEF size, n, batch
  <2>4. /\ pending' \in Seq(1..lines) /\ Len(pending') = n - size
        /\ DOMAIN pending' = 1..(n - size)
        /\ \A i \in 1..(n - size) : pending'[i] = pending[size + i]
    <3>1. size + 1 \in 1..(Len(pending) + 1) /\ n \in ((size + 1) - 1)..Len(pending)
      BY <2>1 DEF n
    <3> DEFINE from == size + 1
    <3> HIDE DEF from
    <3>4. from \in 1..(Len(pending) + 1) /\ n \in (from - 1)..Len(pending)
      BY <3>1 DEF from
    <3>5. /\ SubSeq(pending, from, n) \in Seq(1..lines)
          /\ Len(SubSeq(pending, from, n)) = n - from + 1
          /\ DOMAIN SubSeq(pending, from, n) = 1..(n - from + 1)
          /\ \A i \in 1..(n - from + 1) : SubSeq(pending, from, n)[i] = pending[from + i - 1]
      BY <2>14, <3>4, PartOfLines
    <3>2. /\ pending' \in Seq(1..lines) /\ Len(pending') = n - (size + 1) + 1
          /\ DOMAIN pending' = 1..(n - (size + 1) + 1)
          /\ \A i \in 1..(n - (size + 1) + 1) : pending'[i] = pending[(size + 1) + i - 1]
      BY <2>2, <3>5 DEF from
    <3>3. /\ n - (size + 1) + 1 = n - size
          /\ \A i \in 1..(n - size) : (size + 1) + i - 1 = size + i
      BY <2>1
    <3> QED
      BY <3>2, <3>3
  <2>5. /\ batch \in Seq(1..lines) /\ Len(batch) = size
        /\ DOMAIN batch = 1..size
        /\ \A i \in 1..size : batch[i] = pending[i]
    <3>1. 1 \in 1..(Len(pending) + 1) /\ size \in (1 - 1)..Len(pending)
      BY <2>1 DEF n
    <3>2. /\ SubSeq(pending, 1, size) \in Seq(1..lines)
          /\ Len(SubSeq(pending, 1, size)) = size - 1 + 1
          /\ DOMAIN SubSeq(pending, 1, size) = 1..(size - 1 + 1)
          /\ \A i \in 1..(size - 1 + 1) : SubSeq(pending, 1, size)[i] = pending[1 + i - 1]
      BY <2>14, <3>1, PartOfLines
    <3>3. size - 1 + 1 = size /\ \A i \in 1..size : 1 + i - 1 = i
      BY <2>1
    <3> QED
      BY <3>2, <3>3 DEF batch
  <2>6. lines \in Nat /\ Len(pending) = n
    BY Numbers DEF n
  <2>7. \A i \in 1..(n - size) : pending'[i] = lines' - (n - size) + i
    <3> SUFFICES ASSUME NEW i \in 1..(n - size) PROVE pending'[i] = lines - (n - size) + i
      OBVIOUS
    <3>1. size + i \in 1..n /\ lines - n + (size + i) = lines - (n - size) + i
      BY <2>1, <2>6
    <3> QED
      BY <2>3, <2>4, <3>1
  <2>8. \A i \in 1..size : i \in 1..n /\ batch[i] = lines - n + i /\ i \in Int /\ i <= size /\ i >= 1
    <3>1. \A i \in 1..size : i \in 1..n /\ i \in Int /\ i <= size /\ i >= 1
      BY <2>1
    <3> QED
      BY <2>3, <2>5, <3>1
  <2>9. Newest(pending)' /\ Rising(batch)
    <3>1. Newest(pending)'
      BY <2>4, <2>7 DEF Newest
    <3>2. Rising(batch)
      BY <2>1, <2>5, <2>6, <2>8 DEF Rising
    <3> QED
      BY <3>1, <3>2
  <2>10. \A i \in 1..size : lines - n < lines - n + i /\ lines - n + i <= lines - (n - size)
    BY <2>1, <2>6
  <2>11. /\ (n - size) + size = n /\ n - size \in Nat /\ size \in Nat /\ n - size <= n
         /\ spoilt \in Nat
    BY <2>1, Numbers
  <2>12. \A i \in DOMAIN batch : /\ lines - Len(pending) < batch[i]
                                 /\ batch[i] <= lines - Len(pending')
    <3> SUFFICES ASSUME NEW i \in 1..size
                 PROVE  lines - n < batch[i] /\ batch[i] <= lines - (n - size)
      BY <2>4, <2>5, <2>6
    <3> QED
      BY <2>8, <2>10
  <2>13. CASE shipper' = "sending" /\ sending' = batch /\ spoilt' = spoilt
    <3>1. /\ Len(pending') \in Nat /\ Len(sending') \in Nat /\ spoilt' \in Nat
          /\ Len(pending') + Len(sending') + spoilt' = Len(pending) + spoilt
          /\ Len(pending') <= Len(pending) /\ Len(sending') <= MaxLines
      BY <2>1, <2>4, <2>5, <2>6, <2>11, <2>13
    <3> QED
      BY <2>4, <2>5, <2>9, <2>12, <2>13, <3>1
  <2>15. CASE shipper' = "ended" /\ sending' = <<>> /\ spoilt' = spoilt + size
    <3>1. <<>> \in Seq(1..lines) /\ Len(<<>>) = 0 /\ DOMAIN <<>> = {}
      BY EmptySeq
    <3>2. Rising(sending') /\ DOMAIN sending' = {}
      BY <2>15, <3>1 DEF Rising
    <3>3. /\ Len(pending') \in Nat /\ Len(sending') = 0 /\ spoilt' \in Nat
          /\ Len(pending') + Len(sending') + spoilt' = Len(pending) + spoilt
          /\ Len(pending') <= Len(pending) /\ 0 <= MaxLines
          /\ spoilt' <= spoilt + MaxLines
      BY <2>1, <2>4, <2>6, <2>11, <2>15, <3>1, Numbers
    <3> QED
      BY <2>4, <2>9, <2>15, <3>1, <3>2, <3>3
  <2> QED
    BY <2>2, <2>13, <2>15
<1> QED
  BY <1>1, <1>2

\* The batch in publish comes to its end, shipped or given up, and flush goes on.
LEMMA FlushKeeps ==
  ASSUME ShipInv, NEW last \in BOOLEAN, FlushOn(last), shipper # "ended",
         UNCHANGED <<lines, dropped, clock>>,
         failed' \in Nat, cutOff' \in Nat, cancelled' \in BOOLEAN,
         cutOff' <= MaxLines, cutOff' > 0 => cancelled',
         ring' \in Rings, events' \in [Events -> Nat],
         \/ shipped' = shipped \o sending /\ failed' = failed /\ cutOff' = cutOff
         \/ shipped' = shipped /\ failed' = failed + Len(sending) /\ cutOff' = cutOff
         \/ shipped' = shipped /\ failed' = failed /\ cutOff' = cutOff + Len(sending)
  PROVE  ShipInv'
<1>1. /\ pending' \in Seq(1..lines) /\ sending' \in Seq(1..lines)
      /\ Len(pending') \in Nat /\ Len(sending') \in Nat
      /\ Len(pending') + Len(sending') + spoilt' = Len(pending) + spoilt
      /\ Len(pending') <= Len(pending) /\ Len(sending') <= MaxLines
      /\ Newest(pending)' /\ Rising(sending')
      /\ \A i \in DOMAIN sending' : /\ lines - Len(pending) < sending'[i]
                                    /\ sending'[i] <= lines - Len(pending')
      /\ shipper' \in {"asleep", "sending", "ended"}
      /\ shipper' # "sending" => sending' = <<>>
      /\ spoilt' \in Nat
      /\ spoilt' = spoilt \/ (shipper' = "ended" /\ spoilt' <= spoilt + MaxLines)
  BY FlushSplits
<1>2. /\ shipped' \in Seq(1..lines) /\ Rising(shipped')
      /\ \A i \in DOMAIN shipped' : shipped'[i] <= lines - Len(pending)
      /\ \/ Len(shipped') = Len(shipped) + Len(sending) /\ failed' = failed /\ cutOff' = cutOff
         \/ Len(shipped') = Len(shipped) /\ failed' = failed + Len(sending) /\ cutOff' = cutOff
         \/ Len(shipped') = Len(shipped) /\ failed' = failed /\ cutOff' = cutOff + Len(sending)
  <2>1. CASE shipped' = shipped
    BY <2>1 DEF ShipInv, LogShipTypeOK, OrderInv
  <2>2. CASE shipped' = shipped \o sending /\ failed' = failed /\ cutOff' = cutOff
    <3>1. /\ 1..lines \in SUBSET Int /\ shipped \in Seq(1..lines) /\ sending \in Seq(1..lines)
          /\ Rising(shipped) /\ Rising(sending)
          /\ \A i \in DOMAIN shipped : \A j \in DOMAIN sending : shipped[i] < sending[j]
          /\ \A i \in DOMAIN sending : sending[i] <= lines - Len(pending)
          /\ \A i \in DOMAIN shipped : shipped[i] <= lines - Len(pending)
      BY Numbers DEF ShipInv, LogShipTypeOK, OrderInv
    <3>2. /\ shipped' \in Seq(1..lines) /\ Len(shipped') = Len(shipped) + Len(sending)
          /\ Rising(shipped')
          /\ \A i \in DOMAIN shipped' : \/ \E j \in DOMAIN shipped : shipped'[i] = shipped[j]
                                        \/ \E j \in DOMAIN sending : shipped'[i] = sending[j]
      BY <2>2, <3>1, Joined
    <3>3. \A i \in DOMAIN shipped' : shipped'[i] <= lines - Len(pending)
      BY <3>1, <3>2
    <3> QED
      BY <2>2, <3>2, <3>3
  <2> QED
    BY <2>1, <2>2
<1>3. /\ Len(shipped') \in Nat /\ DOMAIN shipped' = 1..Len(shipped')
      /\ DOMAIN sending' = 1..Len(sending')
      /\ \A i \in DOMAIN shipped' : shipped'[i] \in Int
      /\ \A i \in DOMAIN sending' : sending'[i] \in Int
  <2>1. /\ Len(shipped') \in Nat /\ DOMAIN shipped' = 1..Len(shipped')
        /\ DOMAIN sending' = 1..Len(sending')
    BY <1>1, <1>2, LenProperties
  <2>2. /\ \A i \in DOMAIN shipped' : shipped'[i] \in 1..lines
        /\ \A i \in DOMAIN sending' : sending'[i] \in 1..lines
    BY <1>1, <1>2, <2>1, ElementOfSeq
  <2>3. 1..lines \subseteq Int
    OBVIOUS
  <2> QED
    BY <2>1, <2>2, <2>3
<1> DEFINE left == lines - Len(pending)
           left2 == lines - Len(pending')
<1>9. lines \in Nat /\ Len(pending) \in Nat /\ left \in Int /\ left2 \in Int /\ left <= left2
  <2>1. lines \in Nat /\ Len(pending) \in Nat
    BY Numbers
  <2> QED
    BY <1>1, <2>1
<1> HIDE DEF left, left2
<1>4. \A i \in DOMAIN shipped' : \A j \in DOMAIN sending' : shipped'[i] < sending'[j]
  <2> SUFFICES ASSUME NEW i \in DOMAIN shipped', NEW j \in DOMAIN sending'
               PROVE  shipped'[i] < sending'[j]
    OBVIOUS
  <2>1. shipped'[i] <= left /\ left < sending'[j] /\ shipped'[i] \in Int /\ sending'[j] \in Int
    BY <1>1, <1>2, <1>3 DEF left
  <2> QED
    BY <1>9, <2>1
<1>5. \A i \in DOMAIN shipped' : shipped'[i] <= lines - Len(pending')
  <2> SUFFICES ASSUME NEW i \in DOMAIN shipped' PROVE shipped'[i] <= left2
    BY DEF left2
  <2>1. shipped'[i] <= left /\ shipped'[i] \in Int
    BY <1>2, <1>3 DEF left
  <2> QED
    BY <1>9, <2>1
<1>6. lines = Len(pending') + Len(sending') + Len(shipped') + dropped + failed' + cutOff' + spoilt'
  <2>1. /\ Len(shipped) \in Nat /\ Len(sending) \in Nat /\ dropped \in Nat
        /\ failed \in Nat /\ cutOff \in Nat /\ spoilt \in Nat /\ Len(pending) \in Nat
        /\ lines = Len(pending) + Len(sending) + Len(shipped) + dropped + failed + cutOff + spoilt
    BY Numbers DEF ShipInv, OrderInv
  <2>2. /\ Len(pending') \in Nat /\ Len(sending') \in Nat /\ spoilt' \in Nat
        /\ Len(pending') + Len(sending') + spoilt' = Len(pending) + spoilt
    BY <1>1
  <2>6. /\ lines = Len(pending') + Len(sending') + (Len(shipped) + Len(sending)) + dropped
                    + failed + cutOff + spoilt'
        /\ lines = Len(pending') + Len(sending') + Len(shipped) + dropped
                    + (failed + Len(sending)) + cutOff + spoilt'
        /\ lines = Len(pending') + Len(sending') + Len(shipped) + dropped
                    + failed + (cutOff + Len(sending)) + spoilt'
    <3> DEFINE p == Len(pending)
               t == Len(sending)
               o == Len(shipped)
               p2 == Len(pending')
               t2 == Len(sending')
               u2 == spoilt'
    <3>1. /\ p \in Nat /\ t \in Nat /\ o \in Nat /\ p2 \in Nat /\ t2 \in Nat /\ u2 \in Nat
          /\ dropped \in Nat /\ failed \in Nat /\ cutOff \in Nat /\ spoilt \in Nat
          /\ p2 + t2 + u2 = p + spoilt
          /\ lines = p + t + o + dropped + failed + cutOff + spoilt
      BY <2>1, <2>2
    <3> HIDE DEF p, t, o, p2, t2, u2
    <3>2. /\ lines = p2 + t2 + (o + t) + dropped + failed + cutOff + u2
          /\ lines = p2 + t2 + o + dropped + (failed + t) + cutOff + u2
          /\ lines = p2 + t2 + o + dropped + failed + (cutOff + t) + u2
      BY <3>1, Balance
    <3> QED
      BY <3>2 DEF p, t, o, p2, t2, u2
  <2>3. CASE /\ Len(shipped') = Len(shipped) + Len(sending)
             /\ failed' = failed /\ cutOff' = cutOff
    BY <2>1, <2>3, <2>6
  <2>4. CASE /\ Len(shipped') = Len(shipped) /\ failed' = failed + Len(sending)
             /\ cutOff' = cutOff
    BY <2>1, <2>4, <2>6
  <2>5. CASE /\ Len(shipped') = Len(shipped) /\ failed' = failed
             /\ cutOff' = cutOff + Len(sending)
    BY <2>1, <2>5, <2>6
  <2> QED
    BY <1>2, <2>3, <2>4, <2>5
<1>7. OrderInv'
  BY <1>1, <1>2, <1>4, <1>5, <1>6 DEF OrderInv
<1>8. LogShipTypeOK'
  <2>1. Len(pending) <= MaxPending
    BY DEF ShipInv, LogShipTypeOK
  <2>2. Len(pending') \in Nat /\ Len(pending') <= Len(pending)
    BY <1>1
  <2>3. Len(pending) \in Nat /\ MaxPending \in Nat
    BY Numbers
  <2>4. Len(pending') <= MaxPending
    BY <2>1, <2>2, <2>3
  <2> QED
    BY <1>1, <1>2, <2>4 DEF ShipInv, LogShipTypeOK
<1>10. LossInv'
  <2>1. spoilt = 0 /\ MaxLines \in Nat
    BY Numbers DEF ShipInv, LossInv
  <2> QED
    BY <1>1, <2>1 DEF LossInv
<1> QED
  BY <1>7, <1>8, <1>10 DEF ShipInv

\* A line joins the list at its end; the oldest makes room for it.
LEMMA LogKeeps ==
  ASSUME ShipInv, Log
  PROVE  ShipInv'
<1> DEFINE n == Len(pending)
           longer == Append(pending, lines + 1)
           cut == Overflow(longer)
<1>1. /\ lines \in Nat /\ n \in Nat /\ DOMAIN pending = 1..n /\ n <= MaxPending
      /\ MaxPending \in Nat /\ MaxPending > 0 /\ lines' = lines + 1
      /\ \A i \in 1..n : pending[i] = lines - n + i
  BY Numbers DEF ShipInv, LogShipTypeOK, OrderInv, Newest, Log
<1>2. 1..lines \subseteq 1..lines'
  BY <1>1
<1>3. pending \in Seq(1..lines') /\ sending \in Seq(1..lines') /\ shipped \in Seq(1..lines')
  BY <1>2, SeqMonotonic DEF ShipInv, LogShipTypeOK
<1>4. /\ longer \in Seq(1..lines') /\ Len(longer) = n + 1
      /\ \A i \in 1..n : longer[i] = pending[i]
      /\ longer[n + 1] = lines + 1
  <2>1. lines + 1 \in 1..lines'
    BY <1>1
  <2> QED
    BY <1>3, <2>1, AppendProperties
<1>5. /\ cut \in 0..1 /\ n + 1 - cut <= MaxPending
      /\ pending' = SubSeq(longer, cut + 1, Len(longer))
      /\ dropped' = dropped + cut /\ Count(cut, TRUE, 0)
  <2>1. cut \in 0..1 /\ n + 1 - cut <= MaxPending
    BY <1>1, <1>4 DEF Overflow
  <2> QED
    BY <2>1 DEF Log
<1> HIDE DEF cut, longer, n
<1>6. /\ pending' \in Seq(1..lines') /\ Len(pending') = n + 1 - cut
      /\ DOMAIN pending' = 1..(n + 1 - cut)
      /\ \A i \in 1..(n + 1 - cut) : pending'[i] = longer[cut + i]
  <2> DEFINE from == cut + 1
             to == n + 1
  <2>1. from \in 1..(Len(longer) + 1) /\ to \in (from - 1)..Len(longer)
    BY <1>1, <1>4, <1>5
  <2>2. /\ to - from + 1 = n + 1 - cut
        /\ \A i \in 1..(n + 1 - cut) : from + i - 1 = cut + i
    BY <1>1, <1>5
  <2>3. pending' = SubSeq(longer, from, to)
    BY <1>4, <1>5
  <2> HIDE DEF from, to
  <2>4. /\ SubSeq(longer, from, to) \in Seq(1..lines')
        /\ Len(SubSeq(longer, from, to)) = to - from + 1
        /\ DOMAIN SubSeq(longer, from, to) = 1..(to - from + 1)
        /\ \A i \in 1..(to - from + 1) : SubSeq(longer, from, to)[i] = longer[from + i - 1]
    BY <1>4, <2>1, PartOfLines
  <2> QED
    BY <2>2, <2>3, <2>4
<1>7. \A i \in 1..(n + 1 - cut) : pending'[i] = lines' - (n + 1 - cut) + i
  <2> SUFFICES ASSUME NEW i \in 1..(n + 1 - cut)
               PROVE  longer[cut + i] = lines' - (n + 1 - cut) + i
    BY <1>6
  <2>1. lines' - (n + 1 - cut) + i = lines - n + (cut + i) /\ cut + i \in 1..(n + 1)
    BY <1>1, <1>5
  <2>2. CASE cut + i \in 1..n
    BY <1>1, <1>4, <2>1, <2>2
  <2>3. CASE cut + i = n + 1
    BY <1>1, <1>4, <2>1, <2>3
  <2> QED
    BY <1>1, <2>1, <2>2, <2>3
<1>8. Newest(pending)'
  BY <1>6, <1>7 DEF Newest
<1>9. UNCHANGED <<sending, shipped, failed, cutOff, spoilt, shipper, cancelled, clock>>
  BY DEF Log
<1>10. lines - n <= lines' - Len(pending') /\ n = Len(pending)
  BY <1>1, <1>5, <1>6 DEF n
<1>11. /\ \A i \in DOMAIN sending : sending[i] \in Int /\ sending[i] <= lines - n
       /\ \A i \in DOMAIN shipped : shipped[i] \in Int /\ shipped[i] <= lines - n
  <2>1. /\ \A i \in DOMAIN sending : sending[i] \in 1..lines
        /\ \A i \in DOMAIN shipped : shipped[i] \in 1..lines
    BY Numbers, ElementOfSeq DEF ShipInv, LogShipTypeOK
  <2>2. 1..lines \subseteq Int
    OBVIOUS
  <2> QED
    BY <1>10, <2>1, <2>2 DEF ShipInv, OrderInv
<1>12. lines - n \in Int /\ lines' - Len(pending') \in Int
  BY <1>1, <1>5, <1>6
<1>13. /\ \A i \in DOMAIN sending : sending[i] <= lines' - Len(pending')
       /\ \A i \in DOMAIN shipped : shipped[i] <= lines' - Len(pending')
  BY <1>10, <1>11, <1>12
<1>14. lines' = Len(pending') + Len(sending) + Len(shipped) + dropped' + failed + cutOff + spoilt
  <2>1. /\ Len(sending) \in Nat /\ Len(shipped) \in Nat /\ dropped \in Nat
        /\ failed \in Nat /\ cutOff \in Nat /\ spoilt \in Nat
    BY Numbers
  <2>2. lines = n + Len(sending) + Len(shipped) + dropped + failed + cutOff + spoilt
    BY <1>10 DEF ShipInv, OrderInv
  <2>3. CASE cut = 0
    <3>1. Len(pending') = n + 1 /\ dropped' = dropped
      BY <1>1, <1>5, <1>6, <2>1, <2>3
    <3>2. lines' = lines + 1 /\ lines \in Nat /\ n \in Nat
      BY <1>1
    <3> QED
      BY <2>1, <2>2, <3>1, <3>2
  <2>4. CASE cut = 1
    <3>1. Len(pending') = n /\ dropped' = dropped + 1
      BY <1>1, <1>5, <1>6, <2>4
    <3>2. lines' = lines + 1 /\ lines \in Nat /\ n \in Nat
      BY <1>1
    <3> QED
      BY <2>1, <2>2, <3>1, <3>2
  <2> QED
    BY <1>5, <2>3, <2>4
<1>15. OrderInv'
  BY <1>8, <1>9, <1>13, <1>14 DEF ShipInv, OrderInv
<1>16. ring' \in Rings /\ events' \in [Events -> Nat]
  <2>1. cut \in Nat
    BY <1>5
  <2> QED
    BY <1>5, <2>1, CountKeepsRing DEF ShipInv, LogShipTypeOK
<1>17. LogShipTypeOK'
  <2>1. lines' \in 0..MaxLogged
    BY <1>1, LogShipAssumption DEF Log
  <2>2. dropped' \in Nat
    BY <1>5, Numbers
  <2> QED
    BY <1>3, <1>5, <1>6, <1>9, <1>16, <2>1, <2>2 DEF ShipInv, LogShipTypeOK
<1>18. LossInv'
  BY <1>9 DEF ShipInv, LossInv
<1> QED
  BY <1>15, <1>17, <1>18 DEF ShipInv

\* A publish that ends, one way or the other, is counted.
LEMMA PublishKeeps ==
  ASSUME ShipInv, Failed \/ Published
  PROVE  ShipInv'
<1>1. /\ cancelled \in BOOLEAN /\ FlushOn(cancelled) /\ UNCHANGED <<lines, dropped, clock>>
      /\ cutOff' = cutOff /\ cancelled' = cancelled /\ shipper # "ended"
      /\ cutOff <= MaxLines /\ (cutOff > 0 => cancelled)
  BY DEF ShipInv, LogShipTypeOK, LossInv, Failed, Published
<1>2. Len(sending) \in Nat /\ failed \in Nat /\ cutOff \in Nat
  BY Numbers
<1>3. PICK err \in BOOLEAN, ms \in Latencies : Count(Len(sending), err, ms)
  BY DEF Failed, Published
<1>4. ring' \in Rings /\ events' \in [Events -> Nat]
  BY <1>2, <1>3, CountKeepsRing DEF ShipInv, LogShipTypeOK
<1>5. \/ shipped' = shipped \o sending /\ failed' = failed
      \/ shipped' = shipped /\ failed' = failed + Len(sending)
  BY DEF Failed, Published
<1>6. failed' \in Nat
  BY <1>2, <1>5
<1> QED
  BY <1>1, <1>2, <1>4, <1>5, <1>6, FlushKeeps

\* The cancellation takes the batch in publish away, sent or not, and flushes on.
LEMMA CancelKeeps ==
  ASSUME ShipInv, Cancel
  PROVE  ShipInv'
<1>1. /\ FlushOn(TRUE) /\ cancelled' = TRUE
      /\ UNCHANGED <<lines, dropped, clock>> /\ failed' = failed
      /\ ring' = ring /\ events' = events
      /\ \/ shipped' = shipped \o sending /\ cutOff' = cutOff
         \/ shipped' = shipped /\ cutOff' = cutOff + Len(sending)
      /\ shipper # "ended" /\ ~cancelled
  BY DEF Cancel
<1>2. /\ Len(sending) \in Nat /\ failed \in Nat /\ cutOff \in Nat /\ Len(sending) <= MaxLines
      /\ cutOff = 0 /\ MaxLines \in Nat
  BY <1>1, Numbers DEF ShipInv, LossInv, LogShipTypeOK
<1>3. /\ ring' \in Rings /\ events' \in [Events -> Nat] /\ failed' \in Nat /\ cutOff' \in Nat
      /\ cutOff' <= MaxLines /\ (cutOff' > 0 => cancelled')
  BY <1>1, <1>2 DEF ShipInv, LogShipTypeOK
<1> QED
  BY <1>1, <1>3, FlushKeeps

\* While the task sleeps nothing is in publish that a new batch could replace.
LEMMA WakeKeeps ==
  ASSUME ShipInv, Wake
  PROVE  ShipInv'
<1>1. /\ FlushOn(FALSE) /\ UNCHANGED <<lines, dropped, clock>>
      /\ UNCHANGED <<shipped, failed, cutOff, cancelled, ring, events>>
      /\ shipper # "ended" /\ cutOff <= MaxLines /\ (cutOff > 0 => cancelled)
  BY DEF Wake, ShipInv, LossInv
<1>2. Len(sending) = 0
  <2>1. sending = <<>>
    BY DEF ShipInv, OrderInv, Wake
  <2> QED
    BY <2>1, EmptySeq
<1>3. failed \in Nat /\ cutOff \in Nat /\ failed + Len(sending) = failed
  BY <1>2, Numbers
<1>4. ring' \in Rings /\ events' \in [Events -> Nat] /\ cancelled' \in BOOLEAN
  BY <1>1 DEF ShipInv, LogShipTypeOK
<1> QED
  BY <1>1, <1>3, <1>4, FlushKeeps

LEMMA ShipStep ==
  ASSUME ShipInv, [Next]_vars
  PROVE  ShipInv'
<1>1. CASE Log
  BY <1>1, LogKeeps
<1>2. CASE Failed \/ Published
  BY <1>2, PublishKeeps
<1>3. CASE Cancel
  BY <1>3, CancelKeeps
<1>4. CASE Wake
  BY <1>4, WakeKeeps
<1>5. CASE Attach
  BY <1>5 DEF ShipInv, LogShipTypeOK, OrderInv, LossInv, Newest, Attach
<1>6. CASE Heartbeat
  <2>1. clock \in Nat
    BY LogShipAssumption DEF ShipInv, LogShipTypeOK
  <2>2. ring' \in Rings
    BY <1>6, <2>1, AdvanceKeepsRing DEF ShipInv, LogShipTypeOK, Heartbeat
  <2> QED
    BY <1>6, <2>2 DEF ShipInv, LogShipTypeOK, OrderInv, LossInv, Newest, Heartbeat
<1>7. CASE SetClock
  BY <1>7 DEF ShipInv, LogShipTypeOK, OrderInv, LossInv, Newest, SetClock
<1>8. CASE UNCHANGED vars
  BY <1>8 DEF ShipInv, LogShipTypeOK, OrderInv, LossInv, Newest, vars
<1> QED
  BY <1>1, <1>2, <1>3, <1>4, <1>5, <1>6, <1>7, <1>8 DEF Next

LEMMA ShipStart == Init => ShipInv
<1> SUFFICES ASSUME Init PROVE ShipInv
  OBVIOUS
<1>1. <<>> \in Seq(1..lines) /\ Len(<<>>) = 0 /\ DOMAIN <<>> = {}
  BY EmptySeq
<1>2. NewRing \in Rings /\ [e \in Events |-> 0] \in [Events -> Nat]
  BY DEF NewRing, Rings, Blank
<1>3. LogShipTypeOK
  <2>1. /\ lines \in 0..MaxLogged /\ clock \in 1..MaxClock
        /\ 0 <= MaxPending /\ 0 <= MaxLines
    BY LogShipAssumption DEF Init
  <2>2. pending = <<>> /\ sending = <<>> /\ shipped = <<>>
    BY DEF Init
  <2>3. /\ pending \in Seq(1..lines) /\ Len(pending) <= MaxPending
        /\ sending \in Seq(1..lines) /\ Len(sending) <= MaxLines
        /\ shipped \in Seq(1..lines)
    BY <1>1, <2>1, <2>2
  <2> QED
    BY <1>2, <2>1, <2>3 DEF Init, LogShipTypeOK
<1>4. OrderInv /\ LossInv
  BY <1>1, LogShipAssumption DEF Init, OrderInv, LossInv, Newest, Rising
<1> QED
  BY <1>3, <1>4 DEF ShipInv

-----------------------------------------------------------------------------
\* Cuts, failures and cancellations keep the lines in order and their counts exact.
THEOREM ShipInvariant == Spec => []ShipInv
BY ShipStart, ShipStep, PTL DEF Spec

\* The variables keep to their values, the ring of the counter among them, and the
\* list to MaxPending.
THEOREM LogShipTypeCorrect == Spec => []LogShipTypeOK
<1>1. ShipInv => LogShipTypeOK
  BY DEF ShipInv
<1> QED
  BY <1>1, ShipInvariant, PTL

\* What leaves the list and what is in it make one rising sequence.
LEMMA OneOrder ==
  ASSUME ShipInv
  PROVE  Rising((shipped \o sending) \o pending)
<1>1. /\ 1..lines \in SUBSET Int /\ shipped \in Seq(1..lines) /\ sending \in Seq(1..lines)
      /\ pending \in Seq(1..lines)
      /\ Rising(shipped) /\ Rising(sending)
      /\ \A i \in DOMAIN shipped : \A j \in DOMAIN sending : shipped[i] < sending[j]
  BY DEF ShipInv, LogShipTypeOK, OrderInv
<1>2. /\ shipped \o sending \in Seq(1..lines) /\ Rising(shipped \o sending)
      /\ \A i \in DOMAIN (shipped \o sending) :
           \/ \E j \in DOMAIN shipped : (shipped \o sending)[i] = shipped[j]
           \/ \E j \in DOMAIN sending : (shipped \o sending)[i] = sending[j]
  BY <1>1, Joined
<1> DEFINE left == lines - Len(pending)
           out == shipped \o sending
<1>3. left \in Int /\ Len(pending) \in Nat /\ DOMAIN pending = 1..Len(pending)
  BY Numbers
<1>4. \A i \in DOMAIN out : out[i] <= left
  BY <1>2 DEF ShipInv, OrderInv
<1>5. \A i \in DOMAIN pending : pending[i] = left + i
  BY DEF ShipInv, OrderInv, Newest
<1> HIDE DEF left, out
<1>6. Rising(pending) /\ \A i \in DOMAIN pending : left < pending[i]
  BY <1>3, <1>5 DEF Rising
<1>7. \A i \in DOMAIN out : out[i] \in Int
  BY <1>1, <1>2, LenProperties, ElementOfSeq DEF out
<1>8. \A i \in DOMAIN out : \A j \in DOMAIN pending : out[i] < pending[j]
  BY <1>3, <1>4, <1>5, <1>6, <1>7
<1> QED
  BY <1>1, <1>2, <1>6, <1>8, Joined DEF out

\* Every line is shipped once, counted once as dropped or failed, or still on its way,
\* but for one batch the cancellation cut off and one that did not encode, with which
\* the task ends; and the lines go out in the order they were logged.
THEOREM LogShipAccounts == Spec => []EveryLineAccounted
<1>1. ShipInv => EveryLineAccounted
  <2> SUFFICES ASSUME ShipInv PROVE EveryLineAccounted
    OBVIOUS
  <2>1. Rising((shipped \o sending) \o pending)
    BY OneOrder
  <2>2. /\ Newest(pending)
        /\ lines = Len(pending) + Len(sending) + Len(shipped) + dropped + failed + cutOff + spoilt
    BY DEF ShipInv, OrderInv
  <2>3. shipped \o sending \o pending = (shipped \o sending) \o pending
    OBVIOUS
  <2> QED
    BY <2>1, <2>2, <2>3 DEF ShipInv, LossInv, EveryLineAccounted, Rising, Newest
<1> QED
  BY <1>1, ShipInvariant, PTL

-----------------------------------------------------------------------------
(* The ring of seconds, and what was counted in it *)

\* Numbers less than a window apart fall into different slots.
LEMMA SlotOnce ==
  ASSUME NEW a \in Int, NEW b \in Int, a % Window = b % Window, a < b
  PROVE  b >= a + Window
<1>1. Window \in Nat \ {0}
  BY FlowAssumption
<1>2. /\ a = Window * (a \div Window) + (a % Window)
      /\ b = Window * (b \div Window) + (b % Window)
      /\ a \div Window \in Int /\ b \div Window \in Int /\ a % Window \in Int
  BY <1>1
<1> DEFINE p == a \div Window
           q == b \div Window
<1>3. p \in Int /\ q \in Int /\ b - a = Window * (q - p)
  BY <1>1, <1>2
<1> HIDE DEF p, q
<1>4. q - p >= 1
  BY <1>1, <1>3
<1> QED
  BY <1>1, <1>3, <1>4

\* A window later the slot comes round again.
LEMMA SlotAgain ==
  ASSUME NEW a \in Int
  PROVE  (a + Window) % Window = a % Window
<1> DEFINE b == a + Window
           p == a \div Window
           q == b \div Window
<1>1. Window \in Nat \ {0}
  BY FlowAssumption
<1>2. b \in Int
  BY <1>1
<1>3. /\ a = Window * p + (a % Window) /\ a % Window \in 0..(Window - 1) /\ p \in Int
      /\ b = Window * q + (b % Window) /\ b % Window \in 0..(Window - 1) /\ q \in Int
  <2> HIDE DEF b
  <2> QED
    BY <1>1, <1>2
<1> DEFINE x == a % Window
           y == b % Window
<1>4. /\ x \in 0..(Window - 1) /\ y \in 0..(Window - 1) /\ p \in Int /\ q \in Int
      /\ x - y = Window * (q - p - 1)
  BY <1>1, <1>3
<1> HIDE DEF p, q, x, y
<1> DEFINE k == q - p - 1
<1>5. k \in Int /\ x - y = Window * k /\ x - y < Window /\ x - y > 0 - Window
  BY <1>1, <1>4
<1> HIDE DEF k
<1>6. ~(k >= 1) /\ ~(k <= -1)
  BY <1>1, <1>5
<1>7. k = 0
  BY <1>5, <1>6
<1>8. x = y
  BY <1>1, <1>4, <1>5, <1>7
<1> QED
  BY <1>8 DEF x, y, b

\* What was counted altogether, so many times and so many milliseconds.
Spent(count) == [e \in Events |-> count[e] * e.ms]

\* A slot holds the counts of the events of its second.
SlotHolds(slot, count, E) ==
  /\ slot.ops = SumOf(count, E)
  /\ slot.errs = SumOf(count, {e \in E : e.err})
  /\ \A b \in BucketIds : slot.hist[b] = SumOf(count, {e \in E : BucketOf(e.ms) = b})
  /\ slot.sum = SumOf(Spent(count), E)
  /\ \A e \in E : e.ms <= slot.max
  /\ slot.max # 0 => \E e \in E : e.ms = slot.max

\* Of the events those that the slot stands for, in the window that ends at the epoch.
InSlot(H, epoch, s) == {e \in H : e.at > epoch - Window /\ e.at % Window = s}

\* A ring holds what happened, up to its epoch and back to a window before.
RingHolds(r, count, H) ==
  /\ r \in Rings /\ count \in [Events -> Nat]
  /\ IsFiniteSet(H) /\ H \subseteq Events
  /\ \A e \in H : e.at <= r.epoch
  /\ \A s \in Slots : SlotHolds(r.slots[s], count, InSlot(H, r.epoch, s))

LEMMA EventParts ==
  ASSUME NEW e \in Events
  PROVE  /\ e.at \in Nat /\ e.at >= 1 /\ e.err \in BOOLEAN /\ e.ms \in Nat
         /\ e.ms \in Latencies \cup {0}
<1>1. /\ e.at \in 1..MaxClock /\ e.err \in BOOLEAN /\ e.ms \in Latencies \cup {0}
  BY DEF Events
<1>2. e.at \in Nat /\ e.at >= 1
  BY <1>1, LogShipAssumption
<1>3. e.ms \in Nat
  <2>1. Latencies \cup {0} \subseteq Nat
    BY LogShipAssumption
  <2>2. e.ms \in Latencies \cup {0}
    BY <1>1
  <2> QED
    BY <2>1, <2>2, Zenon
<1> QED
  BY <1>1, <1>2, <1>3

LEMMA SpentType ==
  ASSUME NEW count \in [Events -> Nat], NEW e \in Events
  PROVE  Spent(count)[e] = count[e] * e.ms /\ Spent(count)[e] \in Nat
BY EventParts DEF Spent

LEMMA BlankHolds == ASSUME NEW count PROVE SlotHolds(Blank, count, {})
<1>1. \A b \in BucketIds : {e \in {} : BucketOf(e.ms) = b} = {}
  OBVIOUS
<1>2. {e \in {} : e.err} = {}
  OBVIOUS
<1>3. SumOf(count, {}) = 0 /\ SumOf(Spent(count), {}) = 0
  BY SumEmpty
<1> QED
  BY <1>1, <1>2, <1>3 DEF SlotHolds, Blank

\* Seconds begin: their slots are cleared, the others still stand for their second.
LEMMA AdvanceHolds ==
  ASSUME NEW r, NEW count, NEW H, RingHolds(r, count, H), NEW now \in Nat \ {0}
  PROVE  /\ RingHolds(Advance(r, now), count, H)
         /\ Advance(r, now).epoch = IF now > r.epoch THEN now ELSE r.epoch
<1> DEFINE a == Advance(r, now)
<1>1. /\ r \in Rings /\ r.epoch \in Nat /\ a \in Rings /\ Window \in Nat \ {0}
      /\ r.slots = [s \in Slots |-> r.slots[s]]
  BY AdvanceKeepsRing, FlowAssumption DEF RingHolds, Rings
<1>2. \A e \in H : e \in Events /\ e.at \in Nat /\ e.at >= 1 /\ e.at <= r.epoch
  BY EventParts DEF RingHolds
<1>3. CASE r.epoch = 0
  <2>1. H = {}
    BY <1>2, <1>3
  <2>2. a.epoch = now /\ a.slots = r.slots
    BY <1>1, <1>3 DEF Advance, Rings
  <2>3. \A s \in Slots : InSlot(H, r.epoch, s) = {} /\ InSlot(H, a.epoch, s) = {}
    BY <2>1 DEF InSlot
  <2>4. \A s \in Slots : SlotHolds(a.slots[s], count, InSlot(H, a.epoch, s))
    BY <2>2, <2>3 DEF RingHolds
  <2> HIDE DEF a
  <2>5. RingHolds(a, count, H)
    BY <1>1, <2>1, <2>4 DEF RingHolds
  <2> QED
    BY <1>3, <2>2, <2>5 DEF a
<1>4. CASE r.epoch # 0 /\ now <= r.epoch
  BY <1>1, <1>4 DEF Advance
<1>5. CASE r.epoch # 0 /\ now > r.epoch
  <2> DEFINE passed == {second % Window : second \in (r.epoch + 1)..now}
  <2>1. /\ a.epoch = now
        /\ \A s \in Slots : a.slots[s] = IF s \in passed THEN Blank ELSE r.slots[s]
    BY <1>1, <1>5 DEF Advance
  <2>2. ASSUME NEW s \in Slots, s \in passed
        PROVE  InSlot(H, now, s) = {}
    <3> SUFFICES ASSUME NEW e \in InSlot(H, now, s) PROVE FALSE
      OBVIOUS
    <3>1. PICK second \in (r.epoch + 1)..now : s = second % Window
      BY <2>2
    <3>2. /\ e.at \in Int /\ second \in Int /\ e.at < second /\ second <= now
          /\ e.at % Window = second % Window /\ e.at > now - Window
      BY <1>1, <1>2, <3>1 DEF InSlot
    <3>3. second >= e.at + Window
      BY <3>2, SlotOnce
    <3> QED
      BY <1>1, <3>2, <3>3
  <2>3. ASSUME NEW s \in Slots, s \notin passed
        PROVE  InSlot(H, now, s) = InSlot(H, r.epoch, s)
    <3>1. ASSUME NEW e \in InSlot(H, now, s) PROVE e \in InSlot(H, r.epoch, s)
      BY <1>1, <1>2, <1>5, <3>1 DEF InSlot
    <3>2. ASSUME NEW e \in InSlot(H, r.epoch, s) PROVE e.at > now - Window
      <4>1. /\ e.at \in Int /\ e.at > r.epoch - Window /\ e.at % Window = s
        BY <1>2 DEF InSlot
      <4>2. (e.at + Window) % Window = s
        BY <4>1, SlotAgain
      <4>3. ASSUME e.at <= now - Window PROVE FALSE
        <5>1. e.at + Window \in (r.epoch + 1)..now
          BY <1>1, <4>1, <4>3
        <5> QED
          BY <2>3, <4>2, <5>1
      <4> QED
        BY <1>1, <4>1, <4>3
    <3> QED
      BY <3>1, <3>2 DEF InSlot
  <2>4. ASSUME NEW s \in Slots
        PROVE  SlotHolds(a.slots[s], count, InSlot(H, a.epoch, s))
    <3>1. CASE s \in passed
      BY <2>1, <2>2, <3>1, BlankHolds
    <3>2. CASE s \notin passed
      BY <2>1, <2>3, <3>2 DEF RingHolds
    <3> QED
      BY <3>1, <3>2
  <2>5. \A e \in H : e.at <= a.epoch
    BY <1>1, <1>2, <1>5, <2>1
  <2> HIDE DEF a, passed
  <2>6. RingHolds(a, count, H)
    BY <1>1, <2>4, <2>5 DEF RingHolds
  <2> QED
    BY <1>5, <2>1, <2>6 DEF a
<1> QED
  BY <1>1, <1>3, <1>4, <1>5

\* Lines are counted into the slot of their second.
LEMMA CountedHolds ==
  ASSUME NEW slot \in SlotValues, NEW count \in [Events -> Nat], NEW E, IsFiniteSet(E),
         E \subseteq Events, SlotHolds(slot, count, E), NEW e \in Events, NEW n \in Nat,
         e \notin E => count[e] = 0
  PROVE  SlotHolds(Counted(slot, n, e.err, e.ms), [count EXCEPT ![e] = @ + n], E \cup {e})
<1> DEFINE other == [count EXCEPT ![e] = @ + n]
           grown == E \cup {e}
           new == Counted(slot, n, e.err, e.ms)
           Bucket(S, b) == {x \in S : BucketOf(x.ms) = b}
           Errors(S) == {x \in S : x.err}
<1>1. /\ other \in [Events -> Nat] /\ other[e] = count[e] + n
      /\ \A x \in Events \ {e} : other[x] = count[x]
      /\ \A x \in Events : count[x] \in Nat
      /\ e.err \in BOOLEAN /\ e.ms \in Nat
  BY EventParts
<1>2. /\ new.ops = slot.ops + n /\ slot.ops \in Nat
      /\ new.errs = (IF e.err THEN slot.errs + n ELSE slot.errs)
      /\ new.sum = slot.sum + e.ms * n
      /\ new.max = (IF e.ms > slot.max THEN e.ms ELSE slot.max) /\ slot.max \in Nat
      /\ \A b \in BucketIds :
           new.hist[b] = (IF b = BucketOf(e.ms) THEN slot.hist[b] + n ELSE slot.hist[b])
  BY <1>1, BucketIsOne DEF Counted, SlotValues
<1> HIDE DEF other, new
<1>3. ASSUME NEW S \in SUBSET E
      PROVE  /\ (e \notin S => count[e] = 0) => SumOf(other, S \cup {e}) = SumOf(count, S) + n
             /\ e \notin S => SumOf(other, S) = SumOf(count, S)
  <2>1. IsFiniteSet(S) /\ S \subseteq Events
    BY <1>3, FS_Subset
  <2>2. ASSUME e \notin S => count[e] = 0
        PROVE  SumOf(other, S \cup {e}) = SumOf(count, S) + n
    <3>1. /\ \A x \in S \cup {e} : count[x] \in Int
          /\ \A x \in S \ {e} : other[x] = count[x]
      BY <1>1, <2>1
    <3>2. Grows(count, other, S, e, n)
      BY <1>1, <2>2, <3>1 DEF Grows
    <3> QED
      BY <2>1, <3>2, SumGrows
  <2>3. ASSUME e \notin S PROVE SumOf(other, S) = SumOf(count, S)
    <3>1. \A x \in S : other[x] = count[x]
      BY <1>1, <2>1, <2>3
    <3> QED
      BY <2>1, <3>1, SumEqual
  <2> QED
    BY <2>2, <2>3
<1>4. new.ops = SumOf(other, grown)
  <2>1. E \in SUBSET E
    OBVIOUS
  <2> QED
    BY <1>2, <1>3, <2>1 DEF SlotHolds
<1>5. new.errs = SumOf(other, Errors(grown))
  <2>1. Errors(E) \in SUBSET E /\ slot.errs = SumOf(count, Errors(E))
    BY DEF SlotHolds
  <2>2. CASE e.err
    <3>1. Errors(grown) = Errors(E) \cup {e} /\ (e \notin Errors(E) => e \notin E)
      BY <2>2
    <3> HIDE DEF Errors, grown
    <3> QED
      BY <1>2, <1>3, <2>1, <2>2, <3>1
  <2>3. CASE ~e.err
    <3>1. Errors(grown) = Errors(E) /\ e \notin Errors(E)
      BY <2>3
    <3> HIDE DEF Errors, grown
    <3> QED
      BY <1>2, <1>3, <2>1, <2>3, <3>1
  <2> QED
    BY <2>2, <2>3
<1>6. ASSUME NEW b \in BucketIds
      PROVE  new.hist[b] = SumOf(other, Bucket(grown, b))
  <2>1. Bucket(E, b) \in SUBSET E /\ slot.hist[b] = SumOf(count, Bucket(E, b))
    BY DEF SlotHolds
  <2>2. CASE b = BucketOf(e.ms)
    <3>1. Bucket(grown, b) = Bucket(E, b) \cup {e} /\ (e \notin Bucket(E, b) => e \notin E)
      BY <2>2
    <3> HIDE DEF Bucket, grown
    <3> QED
      BY <1>2, <1>3, <2>1, <2>2, <3>1
  <2>3. CASE b # BucketOf(e.ms)
    <3>1. Bucket(grown, b) = Bucket(E, b) /\ e \notin Bucket(E, b)
      BY <2>3
    <3> HIDE DEF Bucket, grown
    <3> QED
      BY <1>2, <1>3, <2>1, <2>3, <3>1
  <2> QED
    BY <2>2, <2>3
<1>7. new.sum = SumOf(Spent(other), grown)
  <2>1. /\ \A x \in Events : /\ Spent(other)[x] = other[x] * x.ms
                             /\ Spent(count)[x] = count[x] * x.ms
                             /\ Spent(count)[x] \in Int
    BY <1>1, SpentType
  <2>2. Spent(other)[e] = Spent(count)[e] + e.ms * n
    <3>1. Spent(other)[e] = (count[e] + n) * e.ms
      BY <1>1, <2>1
    <3>2. (count[e] + n) * e.ms = count[e] * e.ms + e.ms * n
      BY <1>1
    <3> QED
      BY <2>1, <3>1, <3>2
  <2>3. /\ \A x \in E \cup {e} : Spent(count)[x] \in Int
        /\ \A x \in E \ {e} : Spent(other)[x] = Spent(count)[x]
    BY <1>1, <2>1
  <2>4. e \notin E => Spent(count)[e] = 0
    BY <1>1, <2>1
  <2> DEFINE more == e.ms * n
             was == Spent(count)
             is == Spent(other)
  <2>5. more \in Int /\ is[e] = was[e] + more
    BY <1>1, <2>2
  <2>6. /\ \A x \in E \cup {e} : was[x] \in Int
        /\ \A x \in E \ {e} : is[x] = was[x]
        /\ e \notin E => was[e] = 0
    BY <2>3, <2>4
  <2> HIDE DEF more, was, is
  <2>7. SumOf(is, E \cup {e}) = SumOf(was, E) + more
    <3>1. Grows(was, is, E, e, more)
      BY <2>5, <2>6 DEF Grows
    <3> QED
      BY <3>1, SumGrows
  <2> QED
    BY <1>2, <2>7 DEF SlotHolds, more, was, is
<1>8. \A x \in E : x.ms \in Nat /\ x.ms <= slot.max
  BY EventParts DEF SlotHolds
<1>9. \A x \in grown : x.ms <= new.max
  BY <1>1, <1>2, <1>8
<1>10. new.max # 0 => \E x \in grown : x.ms = new.max
  BY <1>1, <1>2 DEF SlotHolds
<1> HIDE DEF grown
<1>11. SlotHolds(new, other, grown)
  BY <1>4, <1>5, <1>6, <1>7, <1>9, <1>10 DEF SlotHolds
<1> QED
  BY <1>11 DEF new, other, grown

\* The other slots have nothing to do with it.
LEMMA OthersHold ==
  ASSUME NEW slot, NEW count \in [Events -> Nat], NEW E, IsFiniteSet(E), E \subseteq Events,
         SlotHolds(slot, count, E), NEW other \in [Events -> Nat],
         \A x \in E : other[x] = count[x]
  PROVE  SlotHolds(slot, other, E)
<1>1. ASSUME NEW S \in SUBSET E
      PROVE  SumOf(other, S) = SumOf(count, S)
  <2>1. IsFiniteSet(S) /\ \A x \in S : other[x] = count[x]
    BY FS_Subset
  <2> QED
    BY <2>1, SumEqual
<1>2. SumOf(Spent(other), E) = SumOf(Spent(count), E)
  <2>1. \A x \in E : Spent(other)[x] = Spent(count)[x]
    BY DEF Spent
  <2> QED
    BY <2>1, SumEqual
<1>3. /\ E \in SUBSET E /\ {e \in E : e.err} \in SUBSET E
      /\ \A b \in BucketIds : {e \in E : BucketOf(e.ms) = b} \in SUBSET E
  OBVIOUS
<1> QED
  BY <1>1, <1>2, <1>3 DEF SlotHolds

Positive(count) == {x \in Events : count[x] > 0}

LEMMA AddNHolds ==
  ASSUME NEW r, NEW count, RingHolds(r, count, Positive(count)), NEW e \in Events,
         e.at > r.epoch - Window, NEW n \in Nat \ {0},
         NEW other, other = [count EXCEPT ![e] = @ + n]
  PROVE  /\ RingHolds(AddN(r, e.at, n, e.err, e.ms), other, Positive(other))
         /\ e.at > AddN(r, e.at, n, e.err, e.ms).epoch - Window
<1> DEFINE H == Positive(count)
           a == Advance(r, e.at)
           k == e.at % Window
           new == Counted(a.slots[k], n, e.err, e.ms)
           added == AddN(r, e.at, n, e.err, e.ms)
           grown == H \cup {e}
<1>1. /\ e.at \in Nat \ {0} /\ e.err \in BOOLEAN /\ e.ms \in Nat
      /\ Window \in Nat \ {0} /\ k \in Slots
  BY EventParts, FlowAssumption DEF Slots
<1>2. RingHolds(a, count, H) /\ a.epoch = IF e.at > r.epoch THEN e.at ELSE r.epoch
  BY <1>1, AdvanceHolds
<1>3. /\ a \in Rings /\ a.epoch \in Nat /\ count \in [Events -> Nat] /\ r.epoch \in Nat
      /\ IsFiniteSet(H) /\ a.slots \in [Slots -> SlotValues] /\ DOMAIN a = {"epoch", "slots"}
  BY <1>2 DEF RingHolds, Rings, SlotValues
<1>4. added = [a EXCEPT !.slots[k] = new]
  BY DEF AddN
<1> HIDE DEF a, k, new, added, H
<1>5. /\ added.epoch = a.epoch
      /\ \A s \in Slots : added.slots[s] = IF s = k THEN new ELSE a.slots[s]
  BY <1>1, <1>3, <1>4
<1>6. added \in Rings
  <2>1. added = AddN(r, e.at, n, e.err, e.ms) /\ e.at \in Nat /\ n \in Nat /\ r \in Rings
    BY <1>1 DEF added, RingHolds
  <2> QED
    BY <1>1, <2>1, AddNKeepsRing
<1>7. /\ other \in [Events -> Nat] /\ other[e] = count[e] + n
      /\ \A x \in Events \ {e} : other[x] = count[x]
  BY <1>3
<1>8. Positive(other) = grown
  BY <1>3, <1>7 DEF Positive, H
<1>9. /\ IsFiniteSet(grown) /\ grown \subseteq Events
      /\ \A x \in grown : x.at <= added.epoch
      /\ e.at > added.epoch - Window
  <2>1. IsFiniteSet(grown)
    BY <1>3, FS_AddElement
  <2>2. e.at <= added.epoch /\ e.at > added.epoch - Window
    BY <1>1, <1>2, <1>3, <1>5
  <2>3. \A x \in H : x.at <= added.epoch
    BY <1>2, <1>5 DEF RingHolds
  <2>4. H \subseteq Events
    BY <1>2 DEF RingHolds
  <2> QED
    BY <2>1, <2>2, <2>3, <2>4
<1>10. ASSUME NEW s \in Slots
       PROVE  SlotHolds(added.slots[s], other, InSlot(grown, added.epoch, s))
  <2> DEFINE E == InSlot(H, a.epoch, s)
  <2>1. /\ SlotHolds(a.slots[s], count, E) /\ E \subseteq Events /\ IsFiniteSet(E)
    <3>1. E \in SUBSET H
      BY DEF InSlot
    <3>2. IsFiniteSet(E)
      BY <1>3, <3>1, FS_Subset
    <3> QED
      BY <1>2, <3>1, <3>2 DEF RingHolds
  <2>2. CASE s = k
    <3>1. InSlot(grown, added.epoch, s) = E \cup {e}
      BY <1>5, <1>9, <2>2 DEF InSlot, k
    <3>2. e \notin E => count[e] = 0
      <4>1. e \in H => e \in E
        BY <1>5, <1>9, <2>2 DEF InSlot, k
      <4> QED
        BY <1>3, <4>1 DEF Positive, H
    <3> HIDE DEF E
    <3>3. SlotHolds(Counted(a.slots[s], n, e.err, e.ms), other, E \cup {e})
      BY <1>3, <2>1, <3>2, CountedHolds
    <3> QED
      BY <1>5, <2>2, <3>1, <3>3 DEF new
  <2>3. CASE s # k
    <3>1. InSlot(grown, added.epoch, s) = E /\ e \notin E
      BY <1>5, <2>3 DEF InSlot, k
    <3>2. \A x \in E : other[x] = count[x]
      BY <1>7, <2>1, <3>1
    <3> HIDE DEF E
    <3>3. SlotHolds(a.slots[s], other, E)
      BY <1>3, <1>7, <2>1, <3>2, OthersHold
    <3> QED
      BY <1>5, <2>3, <3>1, <3>3
  <2> QED
    BY <2>2, <2>3
<1> HIDE DEF grown
<1>11. RingHolds(added, other, grown)
  BY <1>6, <1>7, <1>9, <1>10 DEF RingHolds
<1> QED
  BY <1>8, <1>9, <1>11 DEF added

-----------------------------------------------------------------------------
(* What a snapshot makes of the ring *)

Recent(H, epoch) == {e \in H : e.at > epoch - Window}

\* What the slots sum up, of the events kept.
SlotSums(of, term, H, epoch, K) ==
  /\ \A e \in Events : term[e] \in Int
  /\ \A s \in Slots : of[s] = SumOf(term, InSlot(H, epoch, s) \cap K)

\* A sum over the slots is a sum over the events of the window.
LEMMA BySlot ==
  ASSUME NEW r, NEW count, NEW H, RingHolds(r, count, H), NEW term, NEW K, NEW of,
         SlotSums(of, term, H, r.epoch, K)
  PROVE  SumOf(of, Slots) = SumOf(term, Recent(H, r.epoch) \cap K)
<1> USE DEF SlotSums
<1> DEFINE part == [s \in Slots |-> InSlot(H, r.epoch, s) \cap K]
<1>1. IsFiniteSet(Slots) /\ Window \in Nat \ {0}
  <2>1. Window \in Nat \ {0}
    BY FlowAssumption
  <2>2. 0 \in Int /\ Window - 1 \in Int
    BY <2>1
  <2> QED
    BY <2>1, <2>2, FS_Interval DEF Slots
<1>2. H \subseteq Events /\ IsFiniteSet(H)
  BY DEF RingHolds
<1>3. ASSUME NEW s \in Slots
      PROVE  /\ IsFiniteSet(part[s]) /\ of[s] = SumOf(term, part[s])
             /\ \A x \in part[s] : term[x] \in Int /\ x.at % Window = s
  <2>1. part[s] \in SUBSET H /\ \A x \in part[s] : x.at % Window = s
    BY DEF InSlot
  <2>2. IsFiniteSet(part[s])
    BY <1>2, <2>1, FS_Subset
  <2> QED
    BY <1>2, <2>1, <2>2
<1>4. \A s, t \in Slots : s # t => part[s] \cap part[t] = {}
  BY <1>3
<1>5. Whole(part, Slots) = Recent(H, r.epoch) \cap K
  <2>1. ASSUME NEW e \in Recent(H, r.epoch) \cap K
        PROVE  \E s \in Slots : e \in part[s]
    <3>1. e.at \in Nat
      BY <1>2, EventParts DEF Recent
    <3>2. e.at % Window \in Slots
      BY <1>1, <3>1 DEF Slots
    <3> QED
      BY <3>2 DEF Recent, InSlot
  <2>2. \A s \in Slots : part[s] \subseteq Recent(H, r.epoch) \cap K
    BY DEF Recent, InSlot
  <2> HIDE DEF part
  <2> QED
    BY <2>1, <2>2 DEF Whole
<1> HIDE DEF part
<1>6. /\ \A s \in Slots : IsFiniteSet(part[s]) /\ of[s] = SumOf(term, part[s])
      /\ \A s \in Slots : \A x \in part[s] : term[x] \in Int
  BY <1>3
<1>7. SumOf(of, Slots) = SumOf(term, Whole(part, Slots))
  <2>1. SumsOfParts(of, term, part, Slots)
    BY <1>4, <1>6 DEF SumsOfParts
  <2> QED
    BY <1>1, <2>1, SumParts
<1> QED
  BY <1>5, <1>7

\* The sums over all the slots, as a snapshot takes them.
RingSums(r, count, R) ==
  /\ SumOf([s \in Slots |-> r.slots[s].ops], Slots) = SumOf(count, R)
  /\ SumOf([s \in Slots |-> r.slots[s].errs], Slots) = SumOf(count, {e \in R : e.err})
  /\ \A b \in BucketIds :
       SumOf([s \in Slots |-> r.slots[s].hist[b]], Slots)
         = SumOf(count, {e \in R : BucketOf(e.ms) = b})
  /\ SumOf([s \in Slots |-> r.slots[s].sum], Slots) = SumOf(Spent(count), R)

LEMMA RingTotals ==
  ASSUME NEW r, NEW count, NEW H, RingHolds(r, count, H)
  PROVE  RingSums(r, count, Recent(H, r.epoch))
<1> DEFINE R == Recent(H, r.epoch)
           E(s) == InSlot(H, r.epoch, s)
<1>1. /\ \A e \in Events : count[e] \in Int /\ Spent(count)[e] \in Int
      /\ H \subseteq Events
      /\ \A s \in Slots : SlotHolds(r.slots[s], count, E(s)) /\ E(s) \subseteq Events
      /\ R \subseteq Events
  <2>1. count \in [Events -> Nat]
    BY DEF RingHolds
  <2>2. \A e \in Events : count[e] \in Int
    BY <2>1
  <2>3. \A e \in Events : Spent(count)[e] \in Int
    BY <2>1, SpentType
  <2>4. /\ H \subseteq Events
        /\ \A s \in Slots : SlotHolds(r.slots[s], count, E(s))
    BY DEF RingHolds
  <2>5. R \subseteq Events /\ \A s \in Slots : E(s) \subseteq Events
    BY <2>4 DEF InSlot, Recent
  <2> QED
    BY <2>2, <2>3, <2>4, <2>5
<1>2. SumOf([s \in Slots |-> r.slots[s].ops], Slots) = SumOf(count, R)
  <2> DEFINE of == [s \in Slots |-> r.slots[s].ops]
             K == Events
  <2>1. \A s \in Slots : of[s] = SumOf(count, E(s) \cap K)
    <3>1. \A s \in Slots : E(s) \cap K = E(s)
      BY <1>1
    <3> QED
      BY <1>1, <3>1 DEF SlotHolds
  <2>2. R \cap K = R
    BY <1>1
  <2> HIDE DEF of, K
  <2>3. SumOf(of, Slots) = SumOf(count, R \cap K)
    <3>1. SlotSums(of, count, H, r.epoch, K)
      BY <1>1, <2>1 DEF SlotSums
    <3> QED
      BY <3>1, BySlot
  <2> QED
    BY <2>2, <2>3 DEF of
<1>3. SumOf([s \in Slots |-> r.slots[s].errs], Slots) = SumOf(count, {e \in R : e.err})
  <2> DEFINE of == [s \in Slots |-> r.slots[s].errs]
             K == {e \in Events : e.err}
  <2>1. \A s \in Slots : of[s] = SumOf(count, E(s) \cap K)
    <3>1. \A s \in Slots : E(s) \cap K = {e \in E(s) : e.err}
      BY <1>1
    <3> QED
      BY <1>1, <3>1 DEF SlotHolds
  <2>2. R \cap K = {e \in R : e.err}
    BY <1>1
  <2> HIDE DEF of, K
  <2>3. SumOf(of, Slots) = SumOf(count, R \cap K)
    <3>1. SlotSums(of, count, H, r.epoch, K)
      BY <1>1, <2>1 DEF SlotSums
    <3> QED
      BY <3>1, BySlot
  <2> QED
    BY <2>2, <2>3 DEF of
<1>4. ASSUME NEW b \in BucketIds
      PROVE  SumOf([s \in Slots |-> r.slots[s].hist[b]], Slots)
               = SumOf(count, {e \in R : BucketOf(e.ms) = b})
  <2> DEFINE of == [s \in Slots |-> r.slots[s].hist[b]]
             K == {e \in Events : BucketOf(e.ms) = b}
  <2>1. \A s \in Slots : of[s] = SumOf(count, E(s) \cap K)
    <3>1. \A s \in Slots : E(s) \cap K = {e \in E(s) : BucketOf(e.ms) = b}
      BY <1>1
    <3> QED
      BY <1>1, <3>1 DEF SlotHolds
  <2>2. R \cap K = {e \in R : BucketOf(e.ms) = b}
    BY <1>1
  <2> HIDE DEF of, K
  <2>3. SumOf(of, Slots) = SumOf(count, R \cap K)
    <3>1. SlotSums(of, count, H, r.epoch, K)
      BY <1>1, <2>1 DEF SlotSums
    <3> QED
      BY <3>1, BySlot
  <2> QED
    BY <2>2, <2>3 DEF of
<1>5. SumOf([s \in Slots |-> r.slots[s].sum], Slots) = SumOf(Spent(count), R)
  <2> DEFINE of == [s \in Slots |-> r.slots[s].sum]
             spent == Spent(count)
             K == Events
  <2>1. \A s \in Slots : of[s] = SumOf(spent, E(s) \cap K)
    <3>1. \A s \in Slots : E(s) \cap K = E(s)
      BY <1>1
    <3> QED
      BY <1>1, <3>1 DEF SlotHolds
  <2>2. R \cap K = R
    BY <1>1
  <2>3. \A e \in Events : spent[e] \in Int
    BY <1>1
  <2> HIDE DEF of, spent, K
  <2>4. SumOf(of, Slots) = SumOf(spent, R \cap K)
    <3>1. SlotSums(of, spent, H, r.epoch, K)
      BY <2>1, <2>3 DEF SlotSums
    <3> QED
      BY <3>1, BySlot
  <2> QED
    BY <2>2, <2>4 DEF of, spent
<1> QED
  BY <1>2, <1>3, <1>4, <1>5 DEF RingSums

\* A longer time never falls into a lower bucket.
LEMMA BucketRises ==
  ASSUME NEW m \in Nat, NEW n \in Nat, m <= n
  PROVE  BucketOf(m) <= BucketOf(n)
<1> DEFINE Reached(ms) == {k \in 0..(Buckets - 2) : 2^k <= ms}
<1>1. Buckets \in Nat \ {0}
  BY FlowAssumption
<1>2. Reached(m) \in SUBSET Reached(n)
  <2>1. \A k \in 0..(Buckets - 2) : 2^k \in Int
    BY <1>1
  <2> QED
    BY <2>1
<1>3. IsFiniteSet(Reached(n))
  <2>1. 0 \in Int /\ Buckets - 2 \in Int
    BY <1>1
  <2>2. IsFiniteSet(0..(Buckets - 2))
    BY <2>1, FS_Interval
  <2>3. Reached(n) \in SUBSET (0..(Buckets - 2))
    OBVIOUS
  <2> HIDE DEF Reached
  <2> QED
    BY <2>2, <2>3, FS_Subset
<1> HIDE DEF Reached
<1>4. Cardinality(Reached(m)) <= Cardinality(Reached(n))
  BY <1>2, <1>3, FS_Subset
<1> QED
  BY <1>4 DEF BucketOf, Reached

\* The rank of a percentile is that of one of the lines.
LEMMA RankBounds ==
  ASSUME NEW ops \in Nat \ {0}, NEW percent \in {50, 95}
  PROVE  Rank(ops, percent) \in 1..ops
<1> DEFINE x == (percent * ops + 99) \div 100
           chosen == IF x > 1 THEN x ELSE 1
<1>1. x \in Int /\ x <= ops
  <2>1. CASE percent = 50
    BY <2>1
  <2>2. CASE percent = 95
    BY <2>2
  <2> QED
    BY <2>1, <2>2
<1> HIDE DEF x
<1>2. chosen \in {1, x} /\ \A y \in {1, x} : chosen >= y
  BY <1>1
<1>3. \A z \in {1, x} : (\A y \in {1, x} : z >= y) => z = chosen
  BY <1>1
<1>4. Max({1, x}) = chosen
  BY <1>2, <1>3 DEF Max
<1> QED
  BY <1>1, <1>4 DEF Rank, x

\* So a latency has that rank.
HasRank(R, count, rank, ms) ==
  /\ SumOf(count, {e \in R : e.ms <= ms}) >= rank
  /\ SumOf(count, {e \in R : e.ms < ms}) < rank

LEMMA RankedExists ==
  ASSUME NEW R, IsFiniteSet(R), R \subseteq Events, R # {}, NEW count \in [Events -> Nat],
         NEW rank \in 1..SumOf(count, R)
  PROVE  \E ms \in {e.ms : e \in R} : HasRank(R, count, rank, ms)
<1> DEFINE Times == {e.ms : e \in R}
           UpTo(ms) == {e \in R : e.ms <= ms}
           Under(ms) == {e \in R : e.ms < ms}
           Enough == {ms \in Times : SumOf(count, UpTo(ms)) >= rank}
           time == [e \in R |-> e.ms]
<1>1. /\ \A e \in R : e.ms \in Nat /\ time[e] = e.ms /\ time[e] \in Int /\ count[e] \in Nat
      /\ Times \subseteq Nat
  BY EventParts
<1>2. SumOf(count, R) \in Nat
  BY <1>1, SumNatural
<1>3. Enough # {}
  <2>1. \A x \in R : time[x] \in Int
    BY <1>1
  <2> HIDE DEF time
  <2>2. PICK m \in R : \A e \in R : time[e] <= time[m]
    BY <2>1, GreatestTerm
  <2>3. UpTo(m.ms) = R
    BY <1>1, <2>2
  <2>4. SumOf(count, UpTo(m.ms)) >= rank
    BY <1>2, <2>3
  <2> QED
    BY <2>4
<1>4. PICK ms \in Enough : \A n \in Enough : ms <= n
  <2>1. Enough \subseteq Nat
    BY <1>1
  <2> HIDE DEF Enough
  <2> QED
    BY <1>3, <2>1, LeastNumber
<1>5. SumOf(count, Under(ms)) < rank
  <2>1. IsFiniteSet(Under(ms)) /\ SumOf(count, Under(ms)) \in Nat
    <3>1. Under(ms) \in SUBSET R
      OBVIOUS
    <3> HIDE DEF Under
    <3>2. IsFiniteSet(Under(ms)) /\ \A e \in Under(ms) : count[e] \in Nat
      BY <1>1, <3>1, FS_Subset
    <3> QED
      BY <3>2, SumNatural
  <2>2. CASE Under(ms) = {}
    <3>1. SumOf(count, Under(ms)) = 0
      BY <2>2, SumEmpty
    <3>2. rank \in Nat /\ rank > 0
      BY <1>2
    <3> HIDE DEF Under
    <3> QED
      BY <3>1, <3>2
  <2>3. CASE Under(ms) # {}
    <3>1. \A x \in Under(ms) : time[x] \in Int
      BY <1>1
    <3> HIDE DEF Under, time
    <3>2. PICK m \in Under(ms) : \A e \in Under(ms) : time[e] <= time[m]
      BY <2>1, <2>3, <3>1, GreatestTerm
    <3>3. m \in R /\ m.ms < ms /\ UpTo(m.ms) = Under(ms)
      BY <1>1, <3>2 DEF Under
    <3>4. m.ms \notin Enough
      BY <1>1, <1>4, <3>3
    <3>5. ~(SumOf(count, UpTo(m.ms)) >= rank)
      BY <3>3, <3>4
    <3> QED
      BY <1>2, <2>1, <3>3, <3>5
  <2> QED
    BY <2>2, <2>3
<1> QED
  BY <1>4, <1>5 DEF HasRank

\* The percentile is the bucket of that latency.
BucketSums(hist, count, R) ==
  \A b \in BucketIds : hist[b] = SumOf(count, {e \in R : BucketOf(e.ms) = b})

LEMMA PercentileIs ==
  ASSUME NEW R, IsFiniteSet(R), R \subseteq Events, NEW count \in [Events -> Nat], NEW hist,
         BucketSums(hist, count, R), NEW ops \in Nat, NEW percent \in {50, 95}, NEW ms \in {e.ms : e \in R},
         Rank(ops, percent) \in Nat, HasRank(R, count, Rank(ops, percent), ms)
  PROVE  Percentile(hist, ops, percent) = BucketOf(ms)
<1> DEFINE rank == Rank(ops, percent)
           Within(b) == {e \in R : BucketOf(e.ms) <= b}
           One(b) == {e \in R : BucketOf(e.ms) = b}
           Enough == {b \in BucketIds : SumOf(hist, 0..b) >= rank} \cup {Buckets - 1}
<1>1. /\ \A e \in R : /\ e.ms \in Nat /\ BucketOf(e.ms) \in BucketIds
                      /\ count[e] \in Nat
      /\ ms \in Nat /\ BucketOf(ms) \in BucketIds
      /\ Buckets \in Nat \ {0} /\ BucketIds \subseteq Nat
  BY EventParts, BucketIsOne, FlowAssumption DEF BucketIds
<1>2. ASSUME NEW S \in SUBSET R
      PROVE  /\ IsFiniteSet(S) /\ SumOf(count, S) \in Nat
             /\ \A T \in SUBSET S : SumOf(count, T) <= SumOf(count, S)
  <2>1. IsFiniteSet(S) /\ \A e \in S : count[e] \in Nat
    BY <1>1, FS_Subset
  <2>2. SumOf(count, S) \in Nat
    BY <2>1, SumNatural
  <2>3. ASSUME NEW T \in SUBSET S PROVE SumOf(count, T) <= SumOf(count, S)
    BY <2>1, SumMonotone
  <2> QED
    BY <2>1, <2>2, <2>3
<1>3. ASSUME NEW b \in BucketIds
      PROVE  SumOf(hist, 0..b) = SumOf(count, Within(b))
  <2> DEFINE part == [k \in 0..b |-> One(k)]
  <2>1. b \in Nat /\ 0..b \subseteq BucketIds /\ IsFiniteSet(0..b)
    <3>1. b \in Nat /\ 0..b \subseteq BucketIds
      BY <1>1 DEF BucketIds
    <3> QED
      BY <3>1, FS_Interval
  <2>2. ASSUME NEW k \in 0..b
        PROVE  /\ IsFiniteSet(part[k]) /\ hist[k] = SumOf(count, part[k])
               /\ \A x \in part[k] : count[x] \in Int
    <3>1. part[k] = One(k) /\ One(k) \in SUBSET R /\ k \in BucketIds
      BY <2>1
    <3>2. hist[k] = SumOf(count, One(k))
      BY <3>1 DEF BucketSums
    <3> HIDE DEF One, part
    <3> QED
      BY <1>1, <1>2, <3>1, <3>2
  <2>3. \A j, k \in 0..b : j # k => part[j] \cap part[k] = {}
    OBVIOUS
  <2>4. Whole(part, 0..b) = Within(b)
    <3>1. \A e \in R : BucketOf(e.ms) <= b <=> BucketOf(e.ms) \in 0..b
      <4>1. \A e \in R : BucketOf(e.ms) \in Nat
        BY <1>1
      <4> QED
        BY <2>1, <4>1
    <3>2. ASSUME NEW e \in Within(b) PROVE \E k \in 0..b : e \in part[k]
      BY <3>1
    <3>3. \A k \in 0..b : part[k] \subseteq Within(b)
      BY <1>1, <2>1
    <3> HIDE DEF part, Within
    <3> QED
      BY <3>2, <3>3 DEF Whole
  <2> HIDE DEF part, Within
  <2>5. /\ \A k \in 0..b : IsFiniteSet(part[k]) /\ hist[k] = SumOf(count, part[k])
        /\ \A k \in 0..b : \A x \in part[k] : count[x] \in Int
    BY <2>2
  <2>6. SumOf(hist, 0..b) = SumOf(count, Whole(part, 0..b))
    <3>1. SumsOfParts(hist, count, part, 0..b)
      BY <2>3, <2>5 DEF SumsOfParts
    <3> QED
      BY <2>1, <3>1, SumParts
  <2> QED
    BY <2>4, <2>6
<1>4. /\ SumOf(count, {e \in R : e.ms <= ms}) >= rank
      /\ SumOf(count, {e \in R : e.ms < ms}) < rank
      /\ rank \in Nat
  BY DEF HasRank
<1> HIDE DEF rank
<1>5. BucketOf(ms) \in Enough
  <2>1. {e \in R : e.ms <= ms} \in SUBSET Within(BucketOf(ms)) /\ Within(BucketOf(ms)) \in SUBSET R
    BY <1>1, BucketRises
  <2>2. SumOf(count, {e \in R : e.ms <= ms}) <= SumOf(count, Within(BucketOf(ms)))
    BY <1>2, <2>1
  <2>3. {e \in R : e.ms <= ms} \in SUBSET R
    OBVIOUS
  <2>4. SumOf(count, {e \in R : e.ms <= ms}) \in Nat /\ SumOf(count, Within(BucketOf(ms))) \in Nat
    BY <1>2, <2>1, <2>3
  <2>5. SumOf(count, Within(BucketOf(ms))) >= rank
    BY <1>4, <2>2, <2>4
  <2> HIDE DEF Within
  <2> QED
    BY <1>1, <1>3, <2>5
<1>6. ASSUME NEW b \in Enough PROVE BucketOf(ms) <= b
  <2>1. CASE b = Buckets - 1
    BY <1>1, <2>1 DEF BucketIds
  <2>2. CASE b \in BucketIds /\ SumOf(hist, 0..b) >= rank /\ ~(BucketOf(ms) <= b)
    <3>1. Within(b) \in SUBSET {e \in R : e.ms < ms}
      <4> SUFFICES ASSUME NEW e \in R, BucketOf(e.ms) <= b, ~(e.ms < ms) PROVE FALSE
        OBVIOUS
      <4>1. BucketOf(ms) <= BucketOf(e.ms)
        BY <1>1, BucketRises
      <4>2. BucketIds \subseteq Nat /\ b \in BucketIds
        BY <1>1, <2>2
      <4>3. BucketOf(ms) \in BucketIds /\ BucketOf(e.ms) \in BucketIds
        BY <1>1
      <4>4. BucketOf(ms) \in Nat /\ BucketOf(e.ms) \in Nat /\ b \in Nat
        BY <4>2, <4>3, Zenon
      <4> QED
        BY <2>2, <4>1, <4>4
    <3>2. {e \in R : e.ms < ms} \in SUBSET R
      OBVIOUS
    <3>3. SumOf(count, Within(b)) <= SumOf(count, {e \in R : e.ms < ms})
      BY <1>2, <3>1, <3>2
    <3>4. SumOf(count, Within(b)) \in Nat /\ SumOf(count, {e \in R : e.ms < ms}) \in Nat
      BY <1>2, <3>1, <3>2
    <3> HIDE DEF Within
    <3> QED
      BY <1>3, <1>4, <2>2, <3>3, <3>4
  <2> QED
    BY <2>1, <2>2
<1>7. Enough \subseteq Nat
  <2>1. Buckets - 1 \in Nat
    BY <1>1
  <2> QED
    BY <1>1, <2>1
<1>8. Percentile(hist, ops, percent) = Min(Enough)
  BY DEF Percentile, SumOf, rank
<1> HIDE DEF Enough
<1>9. \A z \in Enough : (\A y \in Enough : z <= y) => z = BucketOf(ms)
  <2> SUFFICES ASSUME NEW z \in Enough, \A y \in Enough : z <= y PROVE z = BucketOf(ms)
    OBVIOUS
  <2>1. z <= BucketOf(ms) /\ BucketOf(ms) <= z
    BY <1>5, <1>6
  <2>2. z \in Nat /\ BucketOf(ms) \in Nat
    BY <1>5, <1>7
  <2> QED
    BY <2>1, <2>2
<1> QED
  BY <1>5, <1>6, <1>8, <1>9 DEF Min

LEMMA MaxIs ==
  ASSUME NEW S, S \subseteq Nat, NEW v \in S, \A y \in S : y <= v
  PROVE  Max(S) = v
<1>1. \A y \in S : v >= y
  OBVIOUS
<1>2. \A z \in S : (\A y \in S : z >= y) => z = v
  OBVIOUS
<1> QED
  BY <1>1, <1>2 DEF Max

\* The largest latency is that of the slots.
LEMMA LargestIs ==
  ASSUME NEW r, NEW count, NEW H, RingHolds(r, count, H), Recent(H, r.epoch) # {}
  PROVE  Max({r.slots[s].max : s \in Slots}) = Max({e.ms : e \in Recent(H, r.epoch)})
<1> DEFINE R == Recent(H, r.epoch)
           most == [s \in Slots |-> r.slots[s].max]
           Mosts == {r.slots[s].max : s \in Slots}
           Times == {e.ms : e \in R}
<1>1. Window \in Nat \ {0} /\ Slots # {} /\ IsFiniteSet(Slots)
  <2>1. Window \in Nat \ {0}
    BY FlowAssumption
  <2>2. 0 \in Slots /\ 0 \in Int /\ Window - 1 \in Int
    BY <2>1 DEF Slots
  <2> QED
    BY <2>1, <2>2, FS_Interval DEF Slots
<1>2. \A s \in Slots : most[s] = r.slots[s].max /\ most[s] \in Nat
  BY DEF RingHolds, Rings
<1>3. \A e \in R : e \in Events /\ e.ms \in Nat
  BY EventParts DEF RingHolds, Recent
<1>4. PICK top \in Slots : \A s \in Slots : most[s] <= most[top]
  <2>1. \A s \in Slots : most[s] \in Int
    BY <1>2
  <2> HIDE DEF most
  <2> QED
    BY <1>1, <2>1, GreatestTerm
<1>5. \A s \in Slots : /\ \A e \in InSlot(H, r.epoch, s) : e.ms <= most[s]
                       /\ most[s] # 0 => \E e \in InSlot(H, r.epoch, s) : e.ms = most[s]
  BY <1>2 DEF RingHolds, SlotHolds
<1> HIDE DEF most
<1>6. \A e \in R : e.ms <= most[top]
  <2> SUFFICES ASSUME NEW e \in R PROVE e.ms <= most[top]
    OBVIOUS
  <2>1. e.at \in Nat
    BY <1>3, EventParts
  <2>2. e.at % Window \in Slots
    BY <1>1, <2>1 DEF Slots
  <2>3. e \in InSlot(H, r.epoch, e.at % Window)
    BY DEF Recent, InSlot
  <2>4. e.ms <= most[e.at % Window]
    BY <1>5, <2>2, <2>3
  <2> QED
    BY <1>2, <1>3, <1>4, <2>2, <2>4
<1>7. most[top] \in Times
  <2>1. CASE most[top] = 0
    <3>1. PICK e \in R : TRUE
      OBVIOUS
    <3>2. e.ms = most[top]
      BY <1>3, <1>6, <2>1
    <3> QED
      BY <3>2
  <2>2. CASE most[top] # 0
    <3>1. PICK e \in InSlot(H, r.epoch, top) : e.ms = most[top]
      BY <1>5, <2>2
    <3>2. e \in R
      BY DEF InSlot, Recent
    <3> QED
      BY <3>1, <3>2
  <2> QED
    BY <2>1, <2>2
<1>8. Max(Times) = most[top]
  <2>1. Times \subseteq Nat /\ \A y \in Times : y <= most[top]
    BY <1>3, <1>6
  <2> HIDE DEF Times
  <2> QED
    BY <1>7, <2>1, MaxIs
<1>9. Max(Mosts) = most[top]
  <2>1. Mosts \subseteq Nat /\ most[top] \in Mosts /\ \A y \in Mosts : y <= most[top]
    BY <1>2, <1>4
  <2> HIDE DEF Mosts
  <2> QED
    BY <2>1, MaxIs
<1> QED
  BY <1>8, <1>9

\* The ring holds what was counted, and the clock stays in its window.
Happened == Positive(events)

CountsInv ==
  /\ RingHolds(ring, events, Happened)
  /\ clock > ring.epoch - Window

LEMMA CountCounts ==
  ASSUME ShipInv, CountsInv, NEW n \in Nat, NEW err \in BOOLEAN, NEW ms \in Latencies \cup {0},
         Count(n, err, ms), clock' = clock
  PROVE  CountsInv'
<1> DEFINE e == [at |-> clock, err |-> err, ms |-> ms]
<1>1. e \in Events /\ e.at = clock /\ e.err = err /\ e.ms = ms
  BY DEF ShipInv, LogShipTypeOK, Events
<1>2. /\ ring' = AddN(ring, e.at, n, e.err, e.ms)
      /\ events' = [events EXCEPT ![e] = @ + n]
  BY <1>1 DEF Count
<1>3. events \in [Events -> Nat]
  BY DEF ShipInv, LogShipTypeOK
<1> HIDE DEF e
<1>4. CASE n = 0
  <2>1. ring' = ring
    BY <1>2, <1>4 DEF AddN
  <2>2. events' = events
    <3>1. events[e] + n = events[e]
      BY <1>1, <1>3, <1>4
    <3> QED
      BY <1>1, <1>2, <1>3, <3>1
  <2> QED
    BY <2>1, <2>2 DEF CountsInv, Happened
<1>5. CASE n # 0
  <2>1. /\ RingHolds(ring', events', Positive(events'))
        /\ e.at > ring'.epoch - Window
    <3>1. n \in Nat \ {0} /\ e.at > ring.epoch - Window
      BY <1>1, <1>5 DEF CountsInv
    <3>2. RingHolds(ring, events, Positive(events))
      BY DEF CountsInv, Happened
    <3> QED
      BY <1>1, <1>2, <3>1, <3>2, AddNHolds
  <2> QED
    BY <1>1, <2>1 DEF CountsInv, Happened
<1> QED
  BY <1>4, <1>5

LEMMA CountsStep ==
  ASSUME ShipInv, CountsInv, [Next]_vars
  PROVE  CountsInv'
<1>1. /\ clock \in Nat \ {0} /\ ring \in Rings /\ pending \in Seq(1..lines)
      /\ Len(sending) \in Nat
  BY LogShipAssumption, LenProperties DEF ShipInv, LogShipTypeOK
<1>2. CASE UNCHANGED <<clock, ring, events>>
  BY <1>2 DEF CountsInv, Happened
<1>3. CASE Log
  <2> DEFINE cut == Overflow(Append(pending, lines + 1))
  <2>1. Count(cut, TRUE, 0) /\ clock' = clock
    BY <1>3 DEF Log
  <2>2. cut \in Nat
    <3>1. Len(Append(pending, lines + 1)) \in Nat
      BY <1>1, LogShipAssumption, AppendProperties, LenProperties DEF ShipInv, LogShipTypeOK
    <3> QED
      BY <3>1, LogShipAssumption DEF Overflow
  <2> HIDE DEF cut
  <2> QED
    BY <2>1, <2>2, CountCounts
<1>4. CASE Failed \/ Published
  <2>1. PICK ms \in Latencies, err \in BOOLEAN : Count(Len(sending), err, ms) /\ clock' = clock
    BY <1>4 DEF Failed, Published
  <2> QED
    BY <1>1, <2>1, CountCounts
<1>5. CASE Heartbeat
  <2>1. ring' = Advance(ring, clock) /\ UNCHANGED <<clock, events>>
    BY <1>5 DEF Heartbeat
  <2>2. /\ RingHolds(ring', events, Happened)
        /\ ring'.epoch = IF clock > ring.epoch THEN clock ELSE ring.epoch
    BY <1>1, <2>1, AdvanceHolds DEF CountsInv
  <2>3. ring.epoch \in Nat /\ Window \in Nat \ {0}
    BY <1>1, FlowAssumption DEF Rings
  <2> QED
    BY <1>1, <2>1, <2>2, <2>3 DEF CountsInv, Happened
<1>6. CASE SetClock
  BY <1>6 DEF SetClock, CountsInv, Happened
<1>7. CASE Attach \/ Wake \/ Cancel
  BY <1>2, <1>7 DEF Attach, Wake, Cancel
<1> QED
  BY <1>2, <1>3, <1>4, <1>5, <1>6, <1>7 DEF Next, vars

LEMMA CountsStart == Init => CountsInv
<1> SUFFICES ASSUME Init PROVE CountsInv
  OBVIOUS
<1>1. clock = 1 /\ ring = NewRing /\ events = [e \in Events |-> 0]
  BY DEF Init
<1>2. Happened = {} /\ events \in [Events -> Nat]
  BY <1>1 DEF Happened, Positive
<1>3. ring \in Rings /\ ring.epoch = 0 /\ \A s \in Slots : ring.slots[s] = Blank
  BY <1>1, ShipStart DEF NewRing, ShipInv, LogShipTypeOK
<1>4. \A s \in Slots : InSlot(Happened, ring.epoch, s) = {}
  BY <1>2 DEF InSlot
<1>5. \A s \in Slots : SlotHolds(ring.slots[s], events, InSlot(Happened, ring.epoch, s))
  BY <1>3, <1>4, BlankHolds
<1>6. RingHolds(ring, events, Happened)
  BY <1>2, <1>3, <1>5, FS_EmptySet DEF RingHolds
<1> QED
  BY <1>1, <1>3, <1>6, FlowAssumption DEF CountsInv

LEMMA CountsInvariant == Spec => []CountsInv
BY CountsStart, CountsStep, ShipInvariant, PTL DEF Spec

LEMMA SnapshotIsHonest ==
  ASSUME ShipInv, CountsInv
  PROVE  SnapshotHonest
<1> DEFINE a == Advance(ring, clock)
           latest == IF ring.epoch > clock THEN ring.epoch ELSE clock
           R == Recent(Happened, latest)
           opsOf == [s \in Slots |-> a.slots[s].ops]
           errsOf == [s \in Slots |-> a.slots[s].errs]
           sumOf == [s \in Slots |-> a.slots[s].sum]
           hist == [b \in BucketIds |-> SumOf([s \in Slots |-> a.slots[s].hist[b]], Slots)]
           ops == SumOf(events, R)
           errs == SumOf(events, {e \in R : e.err})
           Ranked(percent) ==
             CHOOSE ms \in {e.ms : e \in R} : HasRank(R, events, Rank(ops, percent), ms)
<1>1. clock \in Nat \ {0} /\ ring.epoch \in Nat /\ events \in [Events -> Nat]
  BY LogShipAssumption DEF ShipInv, LogShipTypeOK, Rings
<1>2. RingHolds(a, events, Happened) /\ a.epoch = latest
  <2>1. /\ RingHolds(a, events, Happened)
        /\ a.epoch = IF clock > ring.epoch THEN clock ELSE ring.epoch
    BY <1>1, AdvanceHolds DEF CountsInv
  <2> HIDE DEF a
  <2> QED
    BY <1>1, <2>1
<1> HIDE DEF a, latest
<1>3. R = {e \in Events : events[e] > 0 /\ e.at > latest - Window}
  BY DEF Recent, Happened, Positive
<1>4. IsFiniteSet(R) /\ R \subseteq Events /\ \A e \in R : events[e] \in Nat /\ events[e] > 0
  <2>1. IsFiniteSet(Happened) /\ R \in SUBSET Happened
    BY <1>2 DEF RingHolds, Recent
  <2>2. IsFiniteSet(R)
    BY <2>1, FS_Subset
  <2> QED
    BY <1>1, <1>3, <2>2
<1>5. /\ SumOf(opsOf, Slots) = ops
      /\ SumOf(errsOf, Slots) = errs
      /\ SumOf(sumOf, Slots) = SumOf(Spent(events), R)
      /\ BucketSums(hist, events, R)
  <2>1. RingSums(a, events, R)
    <3>1. RingSums(a, events, Recent(Happened, a.epoch))
      BY <1>2, RingTotals
    <3> QED
      BY <1>2, <3>1
  <2> HIDE DEF R
  <2> QED
    BY <2>1 DEF RingSums, BucketSums
<1>6. Snapshot(ring, clock) =
        IF SumOf(opsOf, Slots) = 0 THEN [ops |-> SumOf(opsOf, Slots), errs |-> SumOf(errsOf, Slots)]
        ELSE [ops |-> SumOf(opsOf, Slots), errs |-> SumOf(errsOf, Slots),
              p50 |-> Percentile(hist, SumOf(opsOf, Slots), 50),
              p95 |-> Percentile(hist, SumOf(opsOf, Slots), 95),
              max |-> Max({a.slots[s].max : s \in Slots}),
              sum |-> SumOf(sumOf, Slots)]
  BY DEF Snapshot, SumOf, a
<1>7. SnapshotHonest <=>
        Snapshot(ring, clock) =
          IF R = {} THEN [ops |-> 0, errs |-> 0]
          ELSE [ops |-> ops, errs |-> errs,
                p50 |-> BucketOf(Ranked(50)), p95 |-> BucketOf(Ranked(95)),
                max |-> Max({e.ms : e \in R}), sum |-> SumOf(Spent(events), R)]
  BY <1>3 DEF SnapshotHonest, SumOf, Spent, HasRank, latest
<1>8. CASE R = {}
  <2>1. {e \in R : e.err} = {}
    BY <1>8
  <2>2. ops = 0 /\ errs = 0
    BY <1>8, <2>1, SumEmpty
  <2> HIDE DEF ops, errs, opsOf, errsOf, sumOf, hist, Ranked
  <2> QED
    BY <1>5, <1>6, <1>7, <1>8, <2>2
<1>9. CASE R # {}
  <2>1. ops \in Nat \ {0}
    <3>1. PICK e \in R : TRUE
      BY <1>9
    <3>2. \A x \in R : events[x] \in Nat
      BY <1>4
    <3> HIDE DEF R
    <3>3. SumOf(events, R) \in Nat /\ events[e] <= SumOf(events, R)
      BY <1>4, <3>2, SumNatural, SumAtLeast
    <3> QED
      BY <1>4, <3>3
  <2> HIDE DEF R, ops, errs, opsOf, errsOf, sumOf, hist
  <2>2. ASSUME NEW percent \in {50, 95}
        PROVE  Percentile(hist, ops, percent) = BucketOf(Ranked(percent))
    <3> DEFINE rank == Rank(ops, percent)
               ms == Ranked(percent)
    <3>1. rank \in 1..ops /\ rank \in Nat
      <4>1. rank \in 1..ops
        BY <2>1, RankBounds
      <4> HIDE DEF rank
      <4> QED
        BY <2>1, <4>1
    <3>2. \E n \in {e.ms : e \in R} : HasRank(R, events, rank, n)
      <4>1. rank \in 1..SumOf(events, R)
        BY <3>1 DEF ops
      <4> HIDE DEF rank
      <4> QED
        BY <1>1, <1>4, <1>9, <4>1, RankedExists
    <3>3. ms \in {e.ms : e \in R} /\ HasRank(R, events, rank, ms)
      BY <3>2
    <3> HIDE DEF ms
    <3>4. Percentile(hist, ops, percent) = BucketOf(ms)
      BY <1>1, <1>4, <1>5, <2>1, <3>1, <3>3, PercentileIs
    <3> QED
      BY <3>4 DEF ms
  <2>3. Max({a.slots[s].max : s \in Slots}) = Max({e.ms : e \in R})
    BY <1>2, <1>9, LargestIs DEF R
  <2>4. /\ Percentile(hist, ops, 50) = BucketOf(Ranked(50))
        /\ Percentile(hist, ops, 95) = BucketOf(Ranked(95))
    BY <2>2
  <2> HIDE DEF Ranked
  <2> QED
    BY <1>5, <1>6, <1>7, <1>9, <2>1, <2>3, <2>4
<1> QED
  BY <1>8, <1>9

\* What a snapshot reports is what was counted in the window, for every window and
\* number of buckets, and every way the clock moves, back by less than a window too.
THEOREM LogShipSnapshot == Spec => []SnapshotHonest
BY SnapshotIsHonest, ShipInvariant, CountsInvariant, PTL
=============================================================================
