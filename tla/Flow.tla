-------------------------------- MODULE Flow --------------------------------
(***************************************************************************)
(* src/src/flow.py: a Counter keeps the operations, the errors and the     *)
(* latencies of the last Window seconds in a ring of one slot per second.  *)
(* A latency is a whole number of milliseconds, and counts in a bucket per *)
(* power of two.                                                           *)
(***************************************************************************)
EXTENDS Integers, FiniteSets, FiniteSetsExt

CONSTANTS Window,  \* WINDOW, in seconds
          Buckets  \* BUCKETS

ASSUME FlowAssumption == Window \in Nat \ {0} /\ Buckets \in Nat \ {0}

Slots == 0..(Window - 1)
BucketIds == 0..(Buckets - 1)

Blank == [ops |-> 0, errs |-> 0, hist |-> [b \in BucketIds |-> 0], max |-> 0, sum |-> 0]

\* An epoch of 0 says that the counter was never touched.
NewRing == [epoch |-> 0, slots |-> [s \in Slots |-> Blank]]

Rings ==
  [epoch : Nat,
   slots : [Slots -> [ops : Nat, errs : Nat, hist : [BucketIds -> Nat], max : Nat, sum : Nat]]]

\* Mutated form: the second just left is cleared instead of the one just begun.
AdvanceShort(ring, now) ==
  IF ring.epoch = 0 THEN [ring EXCEPT !.epoch = now]
  ELSE IF now <= ring.epoch THEN ring
  ELSE LET passed == {second % Window : second \in ring.epoch..(now - 1)}
       IN  [epoch |-> now,
            slots |-> [s \in Slots |-> IF s \in passed THEN Blank ELSE ring.slots[s]]]

\* _advance clears the slots of the seconds that began since the last call, which
\* are all of them after a whole window. A clock that steps back clears nothing.
Advance(ring, now) ==
  IF ring.epoch = 0 THEN [ring EXCEPT !.epoch = now]
  ELSE IF now <= ring.epoch THEN ring
  ELSE LET passed == {second % Window : second \in (ring.epoch + 1)..now}
       IN  [epoch |-> now,
            slots |-> [s \in Slots |-> IF s \in passed THEN Blank ELSE ring.slots[s]]]

\* _bucket_of: bucket 0 is under a millisecond, bucket b from 2^(b-1) to under 2^b,
\* the last one has no end.
BucketOf(ms) == Cardinality({k \in 0..(Buckets - 2) : 2^k <= ms})

\* So many operations of one outcome and latency, in the slot of their second.
Counted(slot, n, err, ms) ==
  [ops  |-> slot.ops + n,
   errs |-> IF err THEN slot.errs + n ELSE slot.errs,
   hist |-> [slot.hist EXCEPT ![BucketOf(ms)] = @ + n],
   max  |-> IF ms > slot.max THEN ms ELSE slot.max,
   sum  |-> slot.sum + ms * n]

AddN(ring, now, n, err, ms) ==
  IF n <= 0 THEN ring
  ELSE [Advance(ring, now) EXCEPT !.slots[now % Window] = Counted(@, n, err, ms)]

\* The rank that a share of so many per cent stands for.
Rank(total, percent) == Max({1, (percent * total + 99) \div 100})

\* _percentile: the first bucket at which the counts from below reach the rank.
Percentile(hist, total, percent) ==
  LET UpTo(b) == MapThenSumSet(LAMBDA k : hist[k], 0..b)
  IN  Min({b \in BucketIds : UpTo(b) >= Rank(total, percent)} \cup {Buckets - 1})

\* A snapshot taken now: its counts and its sum, before they are divided by Window
\* or by ops, and the buckets whose middle it gives as percentiles.
Snapshot(ring, now) ==
  LET slots == Advance(ring, now).slots
      Total(of) == MapThenSumSet(LAMBDA s : of[s], Slots)
      ops == Total([s \in Slots |-> slots[s].ops])
      errs == Total([s \in Slots |-> slots[s].errs])
      hist == [b \in BucketIds |-> Total([s \in Slots |-> slots[s].hist[b]])]
  IN  IF ops = 0 THEN [ops |-> 0, errs |-> errs]
      ELSE [ops |-> ops, errs |-> errs,
            p50 |-> Percentile(hist, ops, 50), p95 |-> Percentile(hist, ops, 95),
            max |-> Max({slots[s].max : s \in Slots}),
            sum |-> Total([s \in Slots |-> slots[s].sum])]
=============================================================================
