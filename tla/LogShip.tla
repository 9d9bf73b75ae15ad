------------------------------ MODULE LogShip -------------------------------
(***************************************************************************)
(* How the process log reaches the bus: log() of src/src/log.py, the       *)
(* LogSink of src/src/logsink.py with its list of pending lines, the task  *)
(* that ships them in batches, its cancellation by main, and the Counter   *)
(* that reports the traffic in the presence frame.                         *)
(*                                                                         *)
(* A line is its number in the order of logging. Everything runs on the    *)
(* event loop; the shipping task suspends in its sleep and in publish.     *)
(* Whether the lines of a batch encode is chosen as the batch is encoded:  *)
(* a line may hold what a message or a setting brought, and UTF-8 has no   *)
(* form for half of a surrogate pair.                                      *)
(***************************************************************************)
EXTENDS Sequences, Flow

CONSTANTS MaxPending, \* MAX_PENDING
          MaxLines,   \* MAX_LINES of a batch
          Latencies,  \* the latencies of a publish, in milliseconds
          MaxLogged,  \* bound on the lines logged
          MaxClock    \* bound on the clock, in seconds

ASSUME LogShipAssumption ==
  /\ MaxPending \in Nat \ {0} /\ MaxLines \in Nat \ {0} /\ Latencies \subseteq Nat
  /\ MaxLogged \in Nat /\ MaxClock \in Nat \ {0}

VARIABLES
  lines,     \* how many lines log() has let through
  pending,   \* LogSink._pending
  sending,   \* the batch inside publish
  shipped,   \* the lines that went out
  dropped,   \* LogSink._dropped
  failed,    \* LogSink._failed
  cutOff,    \* lines whose publish was cancelled before they went out
  spoilt,    \* lines of the batch that did not encode
  shipper,   \* the task: "off" before attach, "asleep", "sending", "ended"
  cancelled, \* main has cancelled it
  clock,     \* time.time(), in seconds
  ring,      \* _io_log
  events     \* how many lines were counted in it of each second, outcome and latency

vars == <<lines, pending, sending, shipped, dropped, failed, cutOff, spoilt, shipper,
          cancelled, clock, ring, events>>

-----------------------------------------------------------------------------
Events == [at : 1..MaxClock, err : BOOLEAN, ms : Latencies \cup {0}]

Count(n, err, ms) ==
  /\ ring' = AddN(ring, clock, n, err, ms)
  /\ events' = [events EXCEPT ![[at |-> clock, err |-> err, ms |-> ms]] = @ + n]

\* Mutated form: one line more than MaxPending is kept.
OverflowLate(list) == IF Len(list) > MaxPending + 1 THEN Len(list) - MaxPending ELSE 0

Overflow(list) == IF Len(list) > MaxPending THEN Len(list) - MaxPending ELSE 0

\* log() with a level at or over the threshold, and add: the oldest lines are cut
\* when the list is too long.
Log ==
  /\ lines < MaxLogged /\ lines' = lines + 1
  /\ LET longer == Append(pending, lines + 1)
         cut == Overflow(longer) IN
       /\ pending' = SubSeq(longer, cut + 1, Len(longer))
       /\ dropped' = dropped + cut
       /\ Count(cut, TRUE, 0)
  /\ UNCHANGED <<sending, shipped, failed, cutOff, spoilt, shipper, cancelled, clock>>

\* flush up to its next suspension: the next batch goes into publish; without one
\* the task sleeps again, or ends when this is the flush of its cancellation. The
\* batch is encoded outside the try of _publish, and a batch that does not encode
\* is lost to every count and ends the task, in run and in its last flush alike.
FlushOn(last) ==
  LET size == IF Len(pending) < MaxLines THEN Len(pending) ELSE MaxLines IN
  \/ /\ pending = <<>>
     /\ shipper' = IF last THEN "ended" ELSE "asleep"
     /\ sending' = <<>>
     /\ UNCHANGED <<pending, spoilt>>
  \/ /\ pending # <<>>
     /\ pending' = SubSeq(pending, size + 1, Len(pending))
     /\ \/ /\ shipper' = "sending"
           /\ sending' = SubSeq(pending, 1, size)
           /\ UNCHANGED spoilt
        \/ /\ shipper' = "ended"
           /\ sending' = <<>>
           /\ spoilt' = spoilt + size

\* sink.attach and the start of the task, once the bus is connected.
Attach ==
  /\ shipper = "off" /\ shipper' = "asleep"
  /\ UNCHANGED <<lines, pending, sending, shipped, dropped, failed, cutOff, spoilt,
                 cancelled, clock, ring, events>>

Wake ==
  /\ shipper = "asleep"
  /\ FlushOn(FALSE)
  /\ UNCHANGED <<lines, shipped, dropped, failed, cutOff, cancelled, clock, ring, events>>

\* Mutated form: a batch that failed is counted and put back.
FailedPutsBack ==
  /\ shipper = "sending" /\ shipper' = "asleep"
  /\ failed' = failed + Len(sending)
  /\ \E ms \in Latencies : Count(Len(sending), TRUE, ms)
  /\ pending' = sending \o pending /\ sending' = <<>>
  /\ UNCHANGED <<lines, shipped, dropped, cutOff, spoilt, cancelled, clock>>

\* publish raises: the batch is given up.
Failed ==
  /\ shipper = "sending"
  /\ failed' = failed + Len(sending)
  /\ \E ms \in Latencies : Count(Len(sending), TRUE, ms)
  /\ FlushOn(cancelled)
  /\ UNCHANGED <<lines, shipped, dropped, cutOff, cancelled, clock>>

Published ==
  /\ shipper = "sending"
  /\ shipped' = shipped \o sending
  /\ \E ms \in Latencies : Count(Len(sending), FALSE, ms)
  /\ FlushOn(cancelled)
  /\ UNCHANGED <<lines, dropped, failed, cutOff, cancelled, clock>>

\* Mutated form: the task ends without a last flush.
CancelAtOnce ==
  /\ shipper \in {"asleep", "sending"} /\ ~cancelled
  /\ cancelled' = TRUE
  /\ shipper' = "ended" /\ sending' = <<>>
  /\ cutOff' = cutOff + Len(sending)
  /\ UNCHANGED <<lines, pending, shipped, dropped, failed, spoilt, clock, ring, events>>

\* ship.cancel(): the sleep or the publish ends with CancelledError, which run
\* answers with a last flush. The batch inside publish may have gone out; nothing
\* counts it.
Cancel ==
  /\ shipper \in {"asleep", "sending"} /\ ~cancelled
  /\ cancelled' = TRUE
  /\ \/ shipped' = shipped \o sending /\ UNCHANGED cutOff
     \/ cutOff' = cutOff + Len(sending) /\ UNCHANGED shipped
  /\ FlushOn(TRUE)
  /\ UNCHANGED <<lines, dropped, failed, clock, ring, events>>

\* The presence frame takes a snapshot, which advances the ring.
Heartbeat ==
  /\ ring' = Advance(ring, clock)
  /\ UNCHANGED <<lines, pending, sending, shipped, dropped, failed, cutOff, spoilt, shipper,
                 cancelled, clock, events>>

\* The wall clock moves. It may be set back, by less than a window.
SetClock ==
  /\ clock' \in (1..MaxClock) \ {clock}
  /\ clock' > ring.epoch - Window
  /\ UNCHANGED <<lines, pending, sending, shipped, dropped, failed, cutOff, spoilt, shipper,
                 cancelled, ring, events>>

-----------------------------------------------------------------------------
Init ==
  /\ lines = 0 /\ dropped = 0 /\ failed = 0 /\ cutOff = 0 /\ spoilt = 0
  /\ pending = <<>> /\ sending = <<>> /\ shipped = <<>>
  /\ shipper = "off" /\ cancelled = FALSE
  /\ clock = 1 /\ ring = NewRing /\ events = [e \in Events |-> 0]

Next ==
  Log \/ Attach \/ Wake \/ Failed \/ Published \/ Cancel \/ Heartbeat \/ SetClock

Spec == Init /\ [][Next]_vars

\* The task's sleep ends, and so does each publish, one way or the other.
FairSpec == Spec /\ WF_vars(Wake) /\ WF_vars(Failed \/ Published)

-----------------------------------------------------------------------------
(* Properties *)

\* The values of the variables; the list keeps to MaxPending.
LogShipTypeOK ==
  /\ lines \in 0..MaxLogged
  /\ pending \in Seq(1..lines) /\ Len(pending) <= MaxPending
  /\ sending \in Seq(1..lines) /\ Len(sending) <= MaxLines
  /\ shipped \in Seq(1..lines)
  /\ dropped \in Nat /\ failed \in Nat /\ cutOff \in Nat /\ spoilt \in Nat
  /\ shipper \in {"off", "asleep", "sending", "ended"} /\ cancelled \in BOOLEAN
  /\ clock \in 1..MaxClock /\ ring \in Rings
  /\ events \in [Events -> Nat]

\* Every line is shipped once, or counted once as dropped or failed, or still on its
\* way, but for a batch the cancellation cut off and one that did not encode, which
\* was the last of the task. The lines go out in the order they were logged, and what
\* waits is always the latest: a cut takes the oldest, and no batch returns.
EveryLineAccounted ==
  /\ lines = Len(pending) + Len(sending) + Len(shipped) + dropped + failed + cutOff + spoilt
  /\ cutOff <= MaxLines /\ (cutOff > 0 => cancelled)
  /\ spoilt <= MaxLines /\ (spoilt > 0 => shipper = "ended")
  /\ \A i \in DOMAIN pending : pending[i] = lines - Len(pending) + i
  /\ LET order == shipped \o sending \o pending IN
       \A i, j \in DOMAIN order : i < j => order[i] < order[j]

\* What a snapshot reports is what was counted in the last Window seconds before the
\* latest second it knows, also after the clock was set back: the counts, the largest
\* latency and the sum are exact, and each percentile is the bucket of the latency that
\* has its rank among the lines.
SnapshotHonest ==
  LET latest == IF ring.epoch > clock THEN ring.epoch ELSE clock
      recent == {e \in Events : events[e] > 0 /\ e.at > latest - Window}
      Total(chosen) == MapThenSumSet(LAMBDA e : events[e], chosen)
      spent == [e \in Events |-> events[e] * e.ms]
      ops == Total(recent)
      errs == Total({e \in recent : e.err})
      Ranked(percent) == CHOOSE ms \in {e.ms : e \in recent} :
        /\ Total({e \in recent : e.ms <= ms}) >= Rank(ops, percent)
        /\ Total({e \in recent : e.ms < ms}) < Rank(ops, percent)
  IN  Snapshot(ring, clock) =
        IF recent = {} THEN [ops |-> 0, errs |-> 0]
        ELSE [ops |-> ops, errs |-> errs,
              p50 |-> BucketOf(Ranked(50)), p95 |-> BucketOf(Ranked(95)),
              max |-> Max({e.ms : e \in recent}),
              sum |-> MapThenSumSet(LAMBDA e : spent[e], recent)]

\* A line logged before the task has ended does not stay in the list, failures of the
\* bus or not: the flush of the cancellation takes what is left. Only a batch that does
\* not encode, which ends the task, leaves the lines behind it where they are.
EveryLineLeaves ==
  \A i \in 1..MaxLogged :
    i <= lines /\ shipper \notin {"off", "ended"}
      ~> spoilt > 0 \/ \A k \in DOMAIN pending : pending[k] # i
=============================================================================
