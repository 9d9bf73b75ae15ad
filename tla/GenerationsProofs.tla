-------------------------- MODULE GenerationsProofs --------------------------
(***************************************************************************)
(* What the profiles in force and the presence frame owe to the key's      *)
(* history, for every number of entries, levels and failed watches.        *)
(***************************************************************************)
EXTENDS Generations, SequenceTheorems, TLAPS

\* The entries handed over and not handled come in the order of the history, and
\* none is older than the generation in force.
PendingInv ==
  /\ pending \in Seq(1..Last)
  /\ \A i, j \in DOMAIN pending : i < j => pending[i] < pending[j]
  /\ \A i \in DOMAIN pending : registry.gen <= pending[i]

GenerationsInv == GenerationsTypeOK /\ PendingInv /\ VerdictTrue

\* The numbers among the values.
LEMMA Numbers ==
  ASSUME GenerationsTypeOK
  PROVE  /\ Last \in Nat /\ MaxGenerations \in Nat /\ MaxFailures \in Nat
         /\ registry.gen \in Nat /\ registry.gen <= Last
         /\ presence.gen \in Nat /\ presence.gen <= Last
<1>1. Last \in Nat
  BY LenProperties DEF GenerationsTypeOK, Last
<1> QED
  BY <1>1, GenerationsAssumption DEF GenerationsTypeOK

-----------------------------------------------------------------------------
\* An entry written to the key changes none before it.
LEMMA PutKeeps ==
  ASSUME GenerationsInv, NEW entry \in Entries, Put(entry)
  PROVE  GenerationsInv'
<1>1. /\ Last \in Nat /\ Last' = Last + 1 /\ history' \in Seq(Entries)
      /\ \A i \in 1..Last : history'[i] = history[i]
  <2>1. history \in Seq(Entries) /\ history' = Append(history, entry)
    BY DEF GenerationsInv, GenerationsTypeOK, Put
  <2> QED
    BY <2>1, AppendProperties, LenProperties DEF Last
<1>2. DOMAIN pending = 1..Len(pending) /\ Len(pending) \in Nat /\ pending \in Seq(1..Last')
  <2>1. 1..Last \subseteq 1..Last'
    BY <1>1
  <2> QED
    BY <2>1, LenProperties, SeqMonotonic DEF GenerationsInv, PendingInv
<1>3. \A i \in DOMAIN pending : pending[i] \in 1..Last
  BY DEF GenerationsInv, GenerationsTypeOK
<1>4. registry' = registry /\ presence' = presence /\ level' = level
  BY DEF Put
<1>5. registry.gen \in 0..Last /\ presence.gen \in 0..Last
  BY Numbers DEF GenerationsInv
<1>6. PendingInv' /\ \A i \in DOMAIN pending' : pending'[i] \in 1..Last'
  <2>1. CASE watch = "watching"
    <3>1. pending' = Append(pending, Last + 1)
      BY <2>1 DEF Put
    <3>2. /\ pending' \in Seq(1..Last') /\ DOMAIN pending' = 1..(Len(pending) + 1)
          /\ \A i \in 1..Len(pending) : pending'[i] = pending[i]
          /\ pending'[Len(pending) + 1] = Last + 1
      BY <1>1, <1>2, <3>1, AppendProperties, LenProperties
    <3>3. \A i \in DOMAIN pending' : i \in DOMAIN pending \/ i = Len(pending) + 1
      BY <1>2, <3>2
    <3>4. \A i, j \in DOMAIN pending' : i < j => pending'[i] < pending'[j]
      <4> SUFFICES ASSUME NEW i \in DOMAIN pending', NEW j \in DOMAIN pending', i < j
                   PROVE  pending'[i] < pending'[j]
        OBVIOUS
      <4>1. i \in DOMAIN pending
        BY <1>2, <3>2
      <4>2. CASE j \in DOMAIN pending
        BY <1>2, <3>2, <4>1, <4>2 DEF GenerationsInv, PendingInv
      <4>3. CASE j = Len(pending) + 1
        BY <1>1, <1>2, <1>3, <3>2, <4>1, <4>3
      <4> QED
        BY <3>3, <4>2, <4>3
    <3>5. \A i \in DOMAIN pending' : registry.gen <= pending'[i] /\ pending'[i] \in 1..Last'
      <4> SUFFICES ASSUME NEW i \in DOMAIN pending'
                   PROVE  registry.gen <= pending'[i] /\ pending'[i] \in 1..Last'
        OBVIOUS
      <4>1. CASE i \in DOMAIN pending
        BY <1>1, <1>2, <1>3, <3>2, <4>1 DEF GenerationsInv, PendingInv
      <4>2. CASE i = Len(pending) + 1
        BY <1>1, <1>5, <3>2, <4>2
      <4> QED
        BY <3>3, <4>1, <4>2
    <3> QED
      BY <1>4, <3>2, <3>4, <3>5 DEF PendingInv
  <2>2. CASE watch # "watching"
    <3>1. pending' = pending
      BY <2>2 DEF Put
    <3> QED
      BY <1>1, <1>2, <1>3, <1>4, <3>1 DEF GenerationsInv, PendingInv
  <2> QED
    BY <2>1, <2>2
<1>7. GenerationsTypeOK'
  <2>1. Last' <= MaxGenerations
    BY <1>1, GenerationsAssumption DEF Put
  <2>2. /\ registry' \in [gen : 0..Last', apply : {NoApply, "ok", "apply_failed"}]
        /\ presence' \in [gen : 0..Last', apply : {NoApply, "ok", "apply_failed"}]
    BY <1>1, <1>4 DEF GenerationsInv, GenerationsTypeOK
  <2> QED
    BY <1>1, <1>4, <1>6, <2>1, <2>2 DEF GenerationsInv, GenerationsTypeOK, Put
<1>8. VerdictTrue'
  <2>1. registry'.gen # 0 => history'[registry'.gen].kind = "good"
    BY <1>1, <1>4, <1>5 DEF GenerationsInv, VerdictTrue
  <2>2. level' = StartLevel \/ \E i \in 1..registry'.gen :
          history'[i].kind = "good" /\ history'[i].level = level'
    BY <1>1, <1>4, <1>5 DEF GenerationsInv, VerdictTrue
  <2>3. \A shown \in {registry, presence} : shown.apply = "apply_failed" =>
          \E i \in (shown.gen + 1)..Last' : history'[i].kind = "broken"
    <3> SUFFICES ASSUME NEW shown \in {registry, presence}, shown.apply = "apply_failed"
                 PROVE  \E i \in (shown.gen + 1)..Last' : history'[i].kind = "broken"
      OBVIOUS
    <3>1. PICK i \in (shown.gen + 1)..Last : history[i].kind = "broken"
      BY DEF GenerationsInv, VerdictTrue
    <3>2. i \in 1..Last /\ i \in (shown.gen + 1)..Last'
      BY <1>1, <1>5
    <3> QED
      BY <1>1, <3>1, <3>2
  <2> QED
    BY <1>4, <2>1, <2>2, <2>3 DEF VerdictTrue
<1> QED
  BY <1>6, <1>7, <1>8 DEF GenerationsInv

\* A step that leaves history, registry, frame and level alone keeps what they show.
LEMMA RestKeepsVerdict ==
  ASSUME VerdictTrue, UNCHANGED <<history, registry, level, presence>>
  PROVE  VerdictTrue'
BY DEF VerdictTrue, Last

\* Whatever the watch starts with stands at or behind the generation in force.
LEMMA WatchKeeps ==
  ASSUME GenerationsInv, Open \/ Fail \/ End \/ Retry
  PROVE  GenerationsInv'
<1>1. Last \in Nat /\ Last' = Last /\ registry' = registry
  BY LenProperties DEF GenerationsInv, GenerationsTypeOK, Last, Open, Fail, End, Retry
<1>2. registry.gen \in 0..Last
  BY Numbers DEF GenerationsInv
<1>3. pending' = pending \/ pending' = <<>> \/ (Last # 0 /\ pending' = <<Last>>)
  BY DEF Open, Fail, End, Retry
<1>4. PendingInv' /\ \A i \in DOMAIN pending' : pending'[i] \in 1..Last'
  <2>1. CASE pending' = pending
    BY <1>1, <2>1 DEF GenerationsInv, GenerationsTypeOK, PendingInv
  <2>2. CASE pending' = <<>>
    <3>1. pending' \in Seq(1..Last') /\ DOMAIN pending' = {}
      BY <2>2
    <3> QED
      BY <3>1 DEF PendingInv
  <2>3. CASE Last # 0 /\ pending' = <<Last>>
    <3>1. pending' \in Seq(1..Last') /\ DOMAIN pending' = {1} /\ pending'[1] = Last
      BY <1>1, <2>3
    <3> QED
      BY <1>1, <1>2, <2>3, <3>1 DEF PendingInv
  <2> QED
    BY <1>3, <2>1, <2>2, <2>3
<1>5. GenerationsTypeOK'
  <2>1. failures' \in 0..MaxFailures
    <3>1. CASE Fail
      BY <3>1, GenerationsAssumption DEF GenerationsInv, GenerationsTypeOK, Fail
    <3>2. CASE Open \/ End \/ Retry
      BY <3>2 DEF GenerationsInv, GenerationsTypeOK, Open, End, Retry
    <3> QED
      BY <3>1, <3>2
  <2> QED
    BY <1>1, <1>4, <2>1 DEF GenerationsInv, GenerationsTypeOK, Open, Fail, End, Retry, Last
<1>6. VerdictTrue'
  BY RestKeepsVerdict DEF GenerationsInv, Open, Fail, End, Retry
<1> QED
  BY <1>4, <1>5, <1>6 DEF GenerationsInv

-----------------------------------------------------------------------------
\* What follows the next entry is newer than it.
LEMMA TailIsNewer ==
  ASSUME GenerationsInv, pending # <<>>
  PROVE  /\ Head(pending) \in 1..Last /\ registry.gen <= Head(pending)
         /\ Tail(pending) \in Seq(1..Last)
         /\ \A i, j \in DOMAIN Tail(pending) : i < j => Tail(pending)[i] < Tail(pending)[j]
         /\ \A i \in DOMAIN Tail(pending) : Head(pending) < Tail(pending)[i]
                                            /\ Tail(pending)[i] \in 1..Last
<1>1. Len(pending) \in Nat /\ DOMAIN pending = 1..Len(pending) /\ Len(pending) # 0
  BY LenProperties, EmptySeq DEF GenerationsInv, PendingInv
<1>2. /\ Head(pending) = pending[1] /\ Tail(pending) \in Seq(1..Last)
      /\ Len(Tail(pending)) = Len(pending) - 1
      /\ \A i \in 1..Len(Tail(pending)) : Tail(pending)[i] = pending[i + 1]
  BY HeadTailProperties DEF GenerationsInv, PendingInv
<1>3. DOMAIN Tail(pending) = 1..(Len(pending) - 1)
  BY <1>2, LenProperties
<1>4. /\ 1 \in DOMAIN pending
      /\ \A i \in DOMAIN Tail(pending) : i + 1 \in DOMAIN pending /\ 1 < i + 1 /\ i \in Int
  BY <1>1, <1>3
<1>5. \A i \in DOMAIN Tail(pending) : Tail(pending)[i] = pending[i + 1]
  BY <1>2, <1>3
<1>6. \A i, j \in DOMAIN Tail(pending) : i < j => Tail(pending)[i] < Tail(pending)[j]
  <2> SUFFICES ASSUME NEW i \in DOMAIN Tail(pending), NEW j \in DOMAIN Tail(pending), i < j
               PROVE  pending[i + 1] < pending[j + 1]
    BY <1>5
  <2>1. i + 1 < j + 1
    BY <1>4
  <2> QED
    BY <1>4, <2>1 DEF GenerationsInv, PendingInv
<1>7. \A i \in DOMAIN Tail(pending) : Head(pending) < Tail(pending)[i]
  BY <1>2, <1>4, <1>5 DEF GenerationsInv, PendingInv
<1>8. \A i \in DOMAIN pending : pending[i] \in 1..Last
  BY DEF GenerationsInv, GenerationsTypeOK
<1> QED
  BY <1>2, <1>4, <1>5, <1>6, <1>7, <1>8 DEF GenerationsInv, PendingInv

\* A good generation replaces an older one, as a whole; a broken one nothing.
LEMMA ApplyKeeps ==
  ASSUME GenerationsInv, Apply
  PROVE  GenerationsInv' /\ registry'.gen >= registry.gen
<1>1. PICK i \in 1..Last : /\ i = Head(pending) /\ registry.gen <= i
                           /\ \A k \in DOMAIN Tail(pending) : i < Tail(pending)[k]
  BY TailIsNewer DEF Apply
<1>2. /\ Tail(pending) \in Seq(1..Last)
      /\ \A k, j \in DOMAIN Tail(pending) : k < j => Tail(pending)[k] < Tail(pending)[j]
      /\ \A k \in DOMAIN Tail(pending) : Tail(pending)[k] \in 1..Last
  BY TailIsNewer DEF Apply
<1>3. /\ Last \in Nat /\ history' = history /\ Last' = Last /\ presence' = presence
      /\ history[i] \in Entries
      /\ registry \in [gen : 0..Last, apply : {NoApply, "ok", "apply_failed"}]
      /\ registry.gen \in Nat /\ registry.gen <= Last
  <2>1. history' = history /\ Last' = Last /\ presence' = presence
    BY DEF Apply, Last
  <2>2. history \in Seq(Entries) /\ DOMAIN history = 1..Last
    BY LenProperties DEF GenerationsInv, GenerationsTypeOK, Last
  <2>3. history[i] \in Entries
    BY <2>2, ElementOfSeq DEF Last
  <2> QED
    BY <2>1, <2>3, Numbers DEF GenerationsInv, GenerationsTypeOK
<1>4. CASE history[i].kind = "good" /\ Accept(i) /\ pending' = Tail(pending) /\ watch' = watch
  <2>1. registry' = [gen |-> i, apply |-> "ok"]
    BY <1>4 DEF Accept
  <2>2. /\ registry' \in [gen : 0..Last, apply : {NoApply, "ok", "apply_failed"}]
        /\ registry'.gen = i /\ registry'.apply = "ok" /\ i >= registry.gen
    BY <1>1, <1>3, <2>1
  <2>3. level' \in Levels /\ (level' = level \/ level' = history[i].level)
    BY <1>3, <1>4 DEF Accept, Entries, GenerationsInv, GenerationsTypeOK
  <2>4. PendingInv'
    <3>1. \A k \in DOMAIN Tail(pending) : i <= Tail(pending)[k]
      BY <1>1, <1>2
    <3> QED
      BY <1>2, <1>3, <1>4, <2>2, <3>1 DEF PendingInv
  <2>5. GenerationsTypeOK'
    BY <1>2, <1>3, <1>4, <2>2, <2>3 DEF GenerationsInv, GenerationsTypeOK, Apply
  <2>6. level' = StartLevel \/ \E k \in 1..registry'.gen :
          history'[k].kind = "good" /\ history'[k].level = level'
    <3>1. CASE level' = history[i].level
      BY <1>1, <1>3, <1>4, <2>2, <3>1
    <3>2. CASE level' = level
      <4>1. \A k \in 1..registry.gen : k \in 1..registry'.gen
        BY <1>3, <2>2
      <4> QED
        BY <1>3, <3>2, <4>1 DEF GenerationsInv, VerdictTrue
    <3> QED
      BY <2>3, <3>1, <3>2
  <2>7. VerdictTrue'
    BY <1>3, <1>4, <2>2, <2>6 DEF GenerationsInv, VerdictTrue
  <2> QED
    BY <1>1, <2>2, <2>4, <2>5, <2>7 DEF GenerationsInv
<1>5. CASE history[i].kind = "broken" /\ Reject(i) /\ pending' = Tail(pending) /\ watch' = watch
  <2>1. /\ registry' \in [gen : 0..Last, apply : {NoApply, "ok", "apply_failed"}]
        /\ registry'.gen = registry.gen /\ level' = level
    BY <1>3, <1>5 DEF Reject
  <2>2. i \in (registry.gen + 1)..Last
    <3>1. registry.gen # i
      BY <1>1, <1>5 DEF GenerationsInv, VerdictTrue
    <3> QED
      BY <1>1, <1>3, <3>1
  <2>3. PendingInv'
    <3>1. \A k \in DOMAIN Tail(pending) : registry.gen <= Tail(pending)[k]
      BY <1>1, <1>2, <1>3
    <3> QED
      BY <1>2, <1>3, <1>5, <2>1, <3>1 DEF PendingInv
  <2>4. GenerationsTypeOK'
    BY <1>2, <1>3, <1>5, <2>1 DEF GenerationsInv, GenerationsTypeOK, Apply
  <2>5. VerdictTrue'
    BY <1>3, <1>5, <2>1, <2>2 DEF GenerationsInv, VerdictTrue
  <2> QED
    BY <1>3, <2>1, <2>3, <2>4, <2>5 DEF GenerationsInv
<1>6. CASE /\ registry' = registry /\ level' = level
           /\ pending' = Tail(pending) \/ pending' = <<>>
           /\ watch' = watch \/ watch' = "asleep"
  <2>1. /\ pending' \in Seq(1..Last)
        /\ \A k, j \in DOMAIN pending' : k < j => pending'[k] < pending'[j]
        /\ \A k \in DOMAIN pending' : registry.gen <= pending'[k] /\ pending'[k] \in 1..Last
    <3>1. CASE pending' = Tail(pending)
      BY <1>1, <1>2, <1>3, <3>1
    <3>2. CASE pending' = <<>>
      <4>1. pending' \in Seq(1..Last) /\ DOMAIN pending' = {}
        BY <3>2
      <4> QED
        BY <4>1
    <3> QED
      BY <1>6, <3>1, <3>2
  <2>2. PendingInv'
    BY <1>3, <1>6, <2>1 DEF PendingInv
  <2>3. GenerationsTypeOK'
    BY <1>3, <1>6, <2>1 DEF GenerationsInv, GenerationsTypeOK, Apply
  <2>4. VerdictTrue'
    BY <1>3, <1>6, RestKeepsVerdict DEF GenerationsInv
  <2> QED
    BY <1>3, <1>6, <2>2, <2>3, <2>4 DEF GenerationsInv
<1> QED
  BY <1>1, <1>4, <1>5, <1>6 DEF Apply

\* The frame repeats what holds of the registry.
LEMMA BeatKeeps ==
  ASSUME GenerationsInv, Beat
  PROVE  GenerationsInv'
<1>1. PendingInv'
  BY DEF GenerationsInv, PendingInv, Beat, Last
<1>2. GenerationsTypeOK'
  BY DEF GenerationsInv, GenerationsTypeOK, Beat, Last
<1>3. VerdictTrue'
  BY DEF GenerationsInv, VerdictTrue, Beat, Last
<1> QED
  BY <1>1, <1>2, <1>3 DEF GenerationsInv

LEMMA GenerationsStep ==
  ASSUME GenerationsInv, [Next]_vars
  PROVE  GenerationsInv' /\ registry'.gen >= registry.gen
<1>1. registry.gen \in Int
  BY Numbers DEF GenerationsInv
<1>2. CASE Apply
  BY <1>2, ApplyKeeps
<1>3. CASE Open \/ Fail \/ End \/ Retry
  <2>1. registry' = registry
    BY <1>3 DEF Open, Fail, End, Retry
  <2> QED
    BY <1>1, <1>3, <2>1, WatchKeeps
<1>4. CASE \E entry \in Entries : Put(entry)
  <2>1. registry' = registry
    BY <1>4 DEF Put
  <2> QED
    BY <1>1, <1>4, <2>1, PutKeeps
<1>5. CASE Beat
  <2>1. registry' = registry
    BY <1>5 DEF Beat
  <2> QED
    BY <1>1, <1>5, <2>1, BeatKeeps
<1>6. CASE UNCHANGED vars
  <2>1. PendingInv'
    BY <1>6 DEF vars, GenerationsInv, PendingInv, Last
  <2>2. GenerationsTypeOK'
    BY <1>6 DEF vars, GenerationsInv, GenerationsTypeOK, Last
  <2>3. VerdictTrue'
    BY <1>6, RestKeepsVerdict DEF vars, GenerationsInv
  <2>4. registry' = registry
    BY <1>6 DEF vars
  <2> QED
    BY <1>1, <2>1, <2>2, <2>3, <2>4 DEF GenerationsInv
<1> QED
  BY <1>2, <1>3, <1>4, <1>5, <1>6 DEF Next

LEMMA GenerationsStart == Init => GenerationsInv
<1> SUFFICES ASSUME Init PROVE GenerationsInv
  OBVIOUS
<1>1. /\ history \in Seq(Entries) /\ Last = 0 /\ pending \in Seq(1..Last)
      /\ DOMAIN pending = {}
  <2>1. <<>> \in Seq(Entries) /\ <<>> \in Seq(1..Last) /\ DOMAIN <<>> = {}
    OBVIOUS
  <2>2. history = <<>> /\ pending = <<>>
    BY DEF Init
  <2>3. Len(history) = 0
    BY <2>1, <2>2, EmptySeq
  <2> QED
    BY <2>1, <2>2, <2>3 DEF Last
<1>2. GenerationsTypeOK
  BY <1>1, GenerationsAssumption DEF Init, GenerationsTypeOK
<1>3. PendingInv
  BY <1>1 DEF Init, PendingInv
<1>4. VerdictTrue
  <2>1. NoApply # "apply_failed"
    BY DEF NoApply
  <2> QED
    BY <2>1 DEF Init, VerdictTrue
<1> QED
  BY <1>2, <1>3, <1>4 DEF GenerationsInv

-----------------------------------------------------------------------------
\* Whatever is delivered again, the entries to be handled stay ahead of the registry.
THEOREM GenerationsInvariant == Spec => []GenerationsInv
<1>1. GenerationsInv /\ [Next]_vars => GenerationsInv'
  BY GenerationsStep
<1> QED
  BY <1>1, GenerationsStart, PTL DEF Spec

\* The variables keep to their values.
THEOREM GenerationsTypeCorrect == Spec => []GenerationsTypeOK
<1>1. GenerationsInv => GenerationsTypeOK
  BY DEF GenerationsInv
<1> QED
  BY <1>1, GenerationsInvariant, PTL

\* What is in force was accepted whole, and what the frame calls failed is a broken
\* generation newer than the one it names.
THEOREM GenerationsVerdictTrue == Spec => []VerdictTrue
<1>1. GenerationsInv => VerdictTrue
  BY DEF GenerationsInv
<1> QED
  BY <1>1, GenerationsInvariant, PTL

\* No generation comes back in place of a newer one, however often the watch starts
\* again.
THEOREM GenerationsNeverBack == Spec => NeverBack
<1>1. GenerationsInv /\ [Next]_vars => [registry'.gen >= registry.gen]_vars
  BY GenerationsStep
<1> QED
  BY <1>1, GenerationsInvariant, PTL DEF Spec, NeverBack
=============================================================================
