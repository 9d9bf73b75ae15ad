---------------------------- MODULE Generations -----------------------------
(***************************************************************************)
(* How a generation of profiles reaches the process and what the presence  *)
(* frame says of it: desired.watch over the key of the WAF_DESIRED bucket, *)
(* apply_manifest, the Registry of profiles.py and the heartbeat.          *)
(*                                                                         *)
(* A generation is its place in the key's history: what the code reads of  *)
(* it is whether it parses, and the log level in its settings.             *)
(***************************************************************************)
EXTENDS Integers, Sequences

CONSTANTS Levels,         \* the log levels a generation may set
          StartLevel,     \* the level of the configuration
          MaxGenerations, \* bound on the entries written to the key
          MaxFailures     \* bound on the watches that fail

NoLevel == "none"
NoApply == "" \* before the first generation

ASSUME GenerationsAssumption ==
  /\ NoLevel \notin Levels /\ StartLevel \in Levels
  /\ MaxGenerations \in Nat /\ MaxFailures \in Nat

VARIABLES
  history,  \* the entries of the key, by the controller
  watch,    \* "opening", "watching" or "asleep" (for RETRY_S)
  pending,  \* entries delivered to the watch and not handled
  registry, \* the Registry: the generation in force (0: none), apply
  level,    \* the log threshold
  presence, \* the registry part of the last presence frame
  failures  \* watches that have failed

vars == <<history, watch, pending, registry, level, presence, failures>>

\* "good" applies. "broken" makes parse_manifest or parse_profile raise a
\* ProfileError. "odd" makes them, or canon_hash, raise anything else.
Kinds == {"good", "broken", "odd", "deleted"}

Entries == [kind : Kinds, level : Levels \cup {NoLevel}]
Last == Len(history)

-----------------------------------------------------------------------------
(* the controller and the bucket *)

Put(entry) ==
  /\ Last < MaxGenerations
  /\ history' = Append(history, entry)
  /\ pending' = IF watch = "watching" THEN Append(pending, Last + 1) ELSE pending
  /\ UNCHANGED <<watch, registry, level, presence, failures>>

-----------------------------------------------------------------------------
(* watch *)

\* Mutated form: a watch that replays the history of the key.
OpenWithHistory ==
  /\ watch = "opening"
  /\ watch' = "watching"
  /\ pending' = [i \in 1..Last |-> i]
  /\ UNCHANGED <<history, registry, level, presence, failures>>

\* Mutated form: the key is taken to have an entry.
OpenUnchecked ==
  /\ watch = "opening"
  /\ watch' = "watching"
  /\ pending' = <<Last>>
  /\ UNCHANGED <<history, registry, level, presence, failures>>

\* Mutated form: a watch that delivers only what is written after it has begun.
OpenForUpdates ==
  /\ watch = "opening"
  /\ watch' = "watching"
  /\ pending' = <<>>
  /\ UNCHANGED <<history, registry, level, presence, failures>>

\* kv.watch with include_history=False starts with the last entry of the key.
Open ==
  /\ watch = "opening"
  /\ watch' = "watching"
  /\ pending' = IF Last = 0 THEN <<>> ELSE <<Last>>
  /\ UNCHANGED <<history, registry, level, presence, failures>>

\* The bucket is missing, the watch is refused, or it breaks with entries pending.
Fail ==
  /\ watch \in {"opening", "watching"} /\ failures < MaxFailures
  /\ watch' = "asleep" /\ pending' = <<>>
  /\ failures' = failures + 1
  /\ UNCHANGED <<history, registry, level, presence>>

\* The iteration may end by itself once nothing is pending: the client closes it
\* behind the marker that follows the initial entries.
End ==
  /\ watch = "watching" /\ pending = <<>>
  /\ watch' = "asleep"
  /\ UNCHANGED <<history, pending, registry, level, presence, failures>>

Retry ==
  /\ watch = "asleep" /\ watch' = "opening"
  /\ UNCHANGED <<history, pending, registry, level, presence, failures>>

-----------------------------------------------------------------------------
(* apply_manifest on the next entry *)

\* Registry.apply_generation, then the level of the settings.
Accept(i) ==
  /\ registry' = [gen |-> i, apply |-> "ok"]
  /\ level' = IF history[i].level = NoLevel THEN level ELSE history[i].level

\* Mutated form: the settings are taken before the profiles are parsed.
RejectAfterLevel(i) ==
  /\ registry' = [registry EXCEPT !.apply = "apply_failed"]
  /\ level' = IF history[i].level = NoLevel THEN level ELSE history[i].level

\* Registry.reject_generation: what was in force stays.
Reject(i) ==
  /\ registry' = [registry EXCEPT !.apply = "apply_failed"]
  /\ UNCHANGED level

Apply ==
  /\ watch = "watching" /\ pending # <<>>
  /\ LET i == Head(pending)
         kind == history[i].kind IN
       \/ /\ kind \in {"good", "broken"}
          /\ IF kind = "good" THEN Accept(i) ELSE Reject(i)
          /\ pending' = Tail(pending) /\ UNCHANGED watch
       \/ /\ kind = "deleted"
          /\ pending' = Tail(pending) /\ UNCHANGED <<watch, registry, level>>
       \/ /\ kind = "odd"
          /\ watch' = "asleep" /\ pending' = <<>>
          /\ UNCHANGED <<registry, level>>
  /\ UNCHANGED <<history, presence, failures>>

-----------------------------------------------------------------------------
(* heartbeat: build_pulse from the registry as it is *)

Beat ==
  /\ presence' = registry
  /\ UNCHANGED <<history, watch, pending, registry, level, failures>>

-----------------------------------------------------------------------------
Init ==
  /\ history = <<>> /\ pending = <<>>
  /\ watch = "opening"
  /\ registry = [gen |-> 0, apply |-> NoApply]
  /\ presence = [gen |-> 0, apply |-> NoApply]
  /\ level = StartLevel
  /\ failures = 0

Next ==
  \/ \E entry \in Entries : Put(entry)
  \/ Open \/ Fail \/ End \/ Retry \/ Apply \/ Beat

Spec == Init /\ [][Next]_vars

\* The watch's task and the heartbeat go on; failures are not forced, and the
\* controller writes when it likes.
FairSpec ==
  Spec /\ WF_vars(Open) /\ WF_vars(Retry) /\ WF_vars(Apply) /\ WF_vars(Beat)

-----------------------------------------------------------------------------
(* Properties *)

\* The values of the variables.
GenerationsTypeOK ==
  /\ history \in Seq(Entries) /\ Last <= MaxGenerations
  /\ watch \in {"opening", "watching", "asleep"}
  /\ \A i \in DOMAIN pending : pending[i] \in 1..Last
  /\ registry \in [gen : 0..Last, apply : {NoApply, "ok", "apply_failed"}]
  /\ presence \in [gen : 0..Last, apply : {NoApply, "ok", "apply_failed"}]
  /\ level \in Levels
  /\ failures \in 0..MaxFailures

\* What is in force was accepted whole, and what the frame calls failed is a
\* broken generation newer than the one it names: a rejected one replaces
\* neither the profiles nor, through its settings, the log level.
VerdictTrue ==
  /\ registry.gen # 0 => history[registry.gen].kind = "good"
  /\ level = StartLevel \/ \E i \in 1..registry.gen : history[i].kind = "good"
                                                      /\ history[i].level = level
  /\ \A shown \in {registry, presence} :
       shown.apply = "apply_failed" =>
         \E i \in (shown.gen + 1)..Last : history[i].kind = "broken"

\* However often the watch breaks and starts again, an older generation never
\* comes back in place of a newer one.
NeverBack == [][registry'.gen >= registry.gen]_vars

\* A good generation that stays the last comes into force and shows in the
\* presence frame, across failed watches.
GoodArrives ==
  \A i \in 1..MaxGenerations :
    Last = i /\ history[Last].kind = "good" ~> presence.gen = i \/ Last > i

\* README.md: "A broken generation does not replace the current one and shows as
\* apply_failed in the presence frame."
BrokenShows ==
  \A i \in 1..MaxGenerations :
    Last = i /\ history[Last].kind \in {"broken", "odd"}
      ~> presence.apply = "apply_failed" \/ Last > i
=============================================================================
