# Specifications of the vlai inspector

This directory holds TLA+ models of the inspector in `src/src/`: a process that
receives inspection requests over NATS, decides each with a text classifier and
a profile of rules, answers, and asks its neighbours (`keeper`, the network
directory) for what the profile says. The models are checked with TLC on small
instances; the safety properties of every component and the refinement of the abstract
specification are proved with TLAPS for every instance.

Contents: [1 The system](#1-the-system), [2 The modules](#2-the-modules),
[3 The runs](#3-the-runs), [4 What the violations show](#4-what-the-violations-show),
[5 Fairness](#5-fairness), [6 What is proved](#6-what-is-proved),
[7 What is left out](#7-what-is-left-out), [8 Plan](#8-plan).

## 1 The system

One asyncio event loop runs everything; the evaluation of a request, a lookup in
the network directory and the start of the model run in threads that the loop
waits for. Nothing is persisted by the process itself.

| Part | Source | State it keeps | Operations |
|---|---|---|---|
| admission gate | `admission.py` | deque of slots, condition, `shed`, `expired`, `_unfinished`, `_idle` | `submit`, `take`, `sweep`, `done`, `join` |
| request handling | `main.py` | the subscription's pending queue, `fills`, the tasks and what each has in hand | `admit`, `worker`, `process`, `shed_many`, `publish_bans`, `expand_bans`, `sweeper`, shutdown |
| verdict | `decide.py`, `score.py`, `protocol.py` | none | `evaluate`, `parse_request`, `reply`, score scaling |
| text and exchange store | `text.py`, `store.py` | the address of the exchange Redis | which part of the message is judged, and its fetch |
| profile generations | `desired.py`, `profiles.py`, `pulse.py` | `Registry`: profiles, generation, `apply` | `watch`, `apply_manifest`, `apply_generation`, `reject_generation`, `resolve`, the presence frame |
| geo cache | `geo.py` | `_spans`/`_starts`, `_comps`, `_neg`, `gen` | `write`, `_cached`, `_lookup`, `_insert`, `_reset`, `_remember` |
| log shipping | `log.py`, `logsink.py` | threshold, pending lines, `_dropped`, `_failed` | `log`, `add`, `flush`, `_take`, `_publish`, `run` |
| flow counters | `flow.py` | rings of ten seconds: counts, latency buckets, maximum, sum | `add_n`, `snapshot`, `_advance` |
| configuration | `conf.py`, `config.py` | none after start | read once |
| model and its server | `classify.py` | the model | `classify`, an HTTP server |
| audit, host facts, probe | `audit.py`, `host.py`, `probe.py` | none | formatting; a command-line client |

How they interact:

* nats-py delivers a request to `admit`, one at a time. `admit` resolves the
  profile, computes how full the queue is, and submits the message to the gate.
  `submit` may suspend for room; while it does, no other message is delivered and
  the subscription's pending queue (`maxsize + 4`) fills and then drops.
* Every operation of the gate first evicts what is past its deadline and hands
  that to its caller, so three coroutines (`admit`, `worker`, `sweeper`) answer
  evicted requests in `shed_many`, with an await per answer.
* The one worker takes a message, evaluates it in a thread with the profile *of
  that moment*, adds the overload rows by the fill `admit` noted, expands list
  writes through the geo cache, answers, writes the lists to `keeper`, emits the
  audit event and calls `done`. An exception answers `VLAI_INTERNAL_ERROR`.
* `desired.watch` puts new profiles into the `Registry` under the feet of both.
  The presence frame reports the generation and whether the last one applied.
* The shutdown cancels sweeper and watch, drains the connection, waits up to five
  seconds for the gate's `join` and cancels the worker.

What is hard here, and hardly reached by tests: the interleavings of submitters,
worker, sweeper and timers over one condition; a count (`_unfinished`) moved by
five operations; requests handed from one coroutine to another by value (the
evicted lists) and answered across awaits; values read before a suspension and
used after it (the profile, the fill); a send that raises in the middle; a
shutdown in the middle; a watch that restarts and delivers again; replies of two
editions of the directory out of order; messages over which a coroutine that
others depend on raises; waits of up to five seconds in the one
worker and in the serial callback, beside deadlines of milliseconds; a grammar of
profiles whose fields mean something for some verbs only. `PROJECT.json` lists each at its line,
with the properties that would catch it going wrong.

What makes each part correct, in words:

* *gate*: never more than `maxsize`; `_unfinished`/`_idle` exact; no one sleeps
  beside something it could do; nobody refused for a limit while places are held
  by the dead; everybody leaves by its deadline.
* *request handling*: one answer per request, of a code that belongs to its
  verdict; one place or coroutine owes it, never two; list writes only behind an
  answer that allows them; an answer for everything while sends succeed, one request's
  content notwithstanding (where the code falls short of this is in section 4).
* *time*: a refusal goes out while it is of use; the worker takes nothing that has no
  budget left; one message delays the others by what its waits may take and no more.
* *generations*: only whole good generations in force; never back to an older
  one; a good one arrives; a failed one shows.
* *geo cache*: sorted disjoint ranges, all of one edition; answers of one edition.
* *verdict*: the neighbours' requests add up whatever their order and are clamped
  once; what a profile says takes effect or is refused, under observe too; a skip spares
  the store and the model; the first place with a text decides; an error fires no row.
* *log shipping*: every line shipped once in order, or counted once as lost, but for
  the one batch a cancellation may cut off and the one that may end the task; the snapshot is what
  happened in its window; the shutdown leaves nothing in the list.

## 2 The modules

| Module | What it is |
|---|---|
| `Gate` | the admission gate alone, with any number of concurrent submitters |
| `Inspector` | `main.py` around the gate; extends `Gate`, so every step that touches the gate is one of the gate's own actions |
| `Verdicts` | what an evaluation may come to, shared by `Inspector` and `Verdict` |
| `Exchange` | the abstract specification: what the module that asks is promised. `Inspector` implements it (`KeepsExchange`) |
| `Budget` | where the time of a message goes: buffer, wait, deque, evaluation, directory, keeper; extends `Gate` |
| `Generations` | the watch on the desired state, the registry, the presence frame |
| `Geo` | the cache of announcements under two concurrent lookups |
| `Rows` | which rows of a `profile.yaml` are taken and what becomes of them, as operators |
| `Verdict` | a profile read and one message judged by it, from parsing to the rows of the overload; extends `Rows` |
| `LogShip` | the process log on its way to the bus; extends `Flow` |
| `Flow` | the ring of seconds of `flow.Counter`, as operators |
| `GateProofs`, `InspectorProofs`, `BudgetProofs`, `GenerationsProofs`, `GeoProofs`, `VerdictProofs`, `LogShipProofs` | the theorems about the module each is named for (section 6) |
| `SumProofs` | lemmas about sums over finite sets, for `VerdictProofs` and `LogShipProofs` |
| `MCGate`, `MCInspector`, `MCBudget`, `MCGenerations`, `MCGeo`, `MCVerdict`, `MCLogShip` | values of the constants for TLC |

Each module also defines, just before the definition it varies, mutated forms of
a few operators ("Mutated form: ..."): the bug a property is able to find. They
are used by no specification; `PROJECT.json` "mutants" pairs them with properties.

### Gate

An action is the stretch of code between two awaits that really suspend, and in
`admission.py` those are the two `cond.wait()`: the lock is never held across
another suspension, so `async with self.cond` orders the stretches and nothing
else. `stage[r]` says where a request is, which covers the deque (`"queued"`,
its order in `ahead`), the submitters inside `_wait_slot` (`"waiting"`), the
worker's message (`"taken"`) and the ways out. `asleep` are the coroutines in
`cond.wait()` that nobody has notified yet. Time is relative: `left[r]` counts
the ticks to the deadline, so `deadline - now < min_budget_s` is
`left[r] < MinBudget` and no absolute clock needs a bound; it stops at `Overdue`.

| Code | Action or operator |
|---|---|
| `_take_stale` | `Stale`, `Kept`, `Settled`, `AfterEviction`, `TakeStale`, part of every action below |
| `submit` up to its return or first wait | `Submit`, with `Put`, `RefuseLimit`, `RefuseDeadline`, `WaitForSlot` |
| `_wait_slot` resumed by a notification, and the rest of `submit` | `Wake` |
| `wait_for`'s timer | `Timeout` (cancels a notified wait too) |
| one turn of `take`'s loop | `Take`: returns a slot, returns only evicted, or sleeps |
| `sweep`, `done` | `Sweep`, `Done` |
| `join` | passes when `idle`; it changes nothing |
| `time.monotonic()` | `Tick` |

### Inspector and Exchange

The coroutines are records with a `step`; between two steps lies an await that
may suspend: each send in `shed_many`, the answer, the wait for room, the
evaluation's thread. `toShed[a]` is what coroutine `a` was handed by the gate
and has not answered. `Raises` is a send that raises: always on a closed
connection, and at most `MaxFaults` times on an open one (NATS reconnecting with
its buffer full). Beside these there are messages that raise by what they carry, on
a connection with nothing wrong:

| Constant | A request that carries | Where it raises | What becomes of it |
|---|---|---|---|
| `Unpeekable` | a `deadline_ms` of `1e400`, deep nesting, an integer of too many digits | `_peek` or `_remaining`, before `submit` (`main.py:294`) | `AdmitRaises`: nobody has it any more |
| `Unquotable` | an unhashable `phase`, a `v` of `1e400`, a lone surrogate in its `rid` | `parse_request`, or the encode of an answer that repeats what it carries | in `evaluate` or `Reply`: the fallback, which quotes nothing; in `_reply_shed` over admit's own message: no answer (`OwnRaises`); in `shed_many`: the rest of the evicted go too, and the coroutine with them (`ShedRaises`) |
| `Unloggable` | a surrogate in what the log line of the verdict names | behind the answer, in `Publish` | a second answer |

`raisedOwn` and `raisedMany` remember the requests over which `admit` has ended itself
and those that have ended a `shed_many`: the code keeps neither, the properties need
both. A request that harms only itself leaves the inspector sound; one that ends a
`shed_many` *impairs* it, like a failed send, since it takes others' answers along. A raise ends `admit` or the sweeper where they stand, ends the worker in
`shed_many` *without* `done()` for its message, and inside `process` leads to the
`except` branch, whose own failure ends the worker after `done()`.

The data are abstracted to what the answers depend on: `Outcomes` is what
`evaluate` may return for a profile and a kind of message, as `Verdicts` has it; `Unreadable`
(not JSON, or without a deadline) and `Malformed` (a deadline, and something else that does
not parse or is not served: the version, the frame phase) are the two kinds of broken
message, which the code treats differently. A kind of list rows stands for several rows, so
`WithGeo` may spoil the answer and keep any of the kinds, all of them included.

`Exchange` says: a request is asked or dropped by the buffer, and from then on it is
*owed* an answer, which it gets once, out of `ProperReplies`. Only a request that is not
`Fit` (one of the three kinds above) may be given up, or be answered a second time with
`VLAI_INTERNAL_ERROR`; once the inspector is *impaired* (a send or a log has failed, a
message has ended a `shed_many`, it is stopping) nothing is owed any more and answers may be missing or
doubled in the same way. The refinement maps `asked` to the requests in the pending queue or
beyond, `owed` to those unanswered that a place or coroutine holds while the inspector
is not impaired, and leaves `answers` and `lost` as they are. A request dropped on the
way is thus a step the abstract specification does not have; that the owed answer
comes at last is its liveness property `Replied`.

### Budget

`Inspector` says *whether* a message is answered and lets every wait end;
`Budget` says *when*, with the same coroutines reduced to their waits. Time is
relative here too: `buffered[r]` counts the ticks in the subscription's pending
queue, `inside[r]` those from the beginning of the callback to the answer, and a
wait counts its own ticks (`spent`) against its time-out. `Pass` is a tick for
all of them at once, and happens only when every coroutine rests in a wait
(`Resting`), so the loop's own work takes no time. An evaluation has no
time-out: it may take any number of ticks, or never end. The list rows are the
other waits: `expand_bans` asks the directory for one row after the other, each
for up to `geo_timeout_ms`, *before* the answer; `publish_bans` asks keeper, five
seconds a row, *behind* it, in the worker and, for a message dropped at the limit,
in the callback, where everything delivered later stands behind it.

The three clocks the code does not have are what the properties compare:
`RefusedByDeadline` and `TakenWithBudget` compare the gate's deadline, counted
from the beginning of the callback, with `inside`; `HeadOfLineBounded` bounds
`buffered` by the number of callbacks in front (`behind`) times the longest
callback. A clock is put back to 0 once its message is answered, or out of the
buffer, which keeps the state space finite.

### Generations

A generation is its place in the key's history; of its content the code
distinguishes whether it applies (`good`), makes the parsers raise
`ProfileError` (`broken`), raises anything else (`odd`) or is a delete marker,
and the log level of its settings. `Open` delivers the last entry of the key,
as `include_history=False` does; `Fail` and `End` are the two ways a watch stops.

### Geo

`calls[c]` is the fetch in its thread: the directory answers (`Serve`) from the
edition it has then, and the answer is handled (`Receive`) whenever the loop gets
to it, after anything the other caller did. `spans` is `_spans` with `_starts`;
`comps[n]` is the edition the composition of an AS was read from, which is all
that can go wrong with it.

### Rows, Verdicts and Verdict

`Rows` is the grammar of `profiles.py`. A written row (`RawRow`) gives each field
one of the classes the parser tells apart: a number, no number, something that
is none; a word of the grammar or "other"; a name that is well formed or "odd".
`RowReads` is the conjunction of what `_outcome` asks (`ConditionReads`,
`ListReads`, `NumbersRead`, `NamesRead`, `PhaseReads`, `RecordReads`), each a few
lines for one block of its checks, and `Outcome` with `Ask` and `ListWrite` is
what comes out, in the form in which it leaves the process. The order of the
checks only decides which message a refusal carries, so it is not kept; rows
and rules are sets, since their order only orders the lists they end in.

`Verdict` is `decide.evaluate` and what `process` does with its result, one action
per stretch: `Load` (the profile, as written, comes into force or is refused),
`Start` (parse, version, phase, profile, mode, budget), `Prior` (a turn of
`_prior_ask`), `PriorsDone` (the clamp, the skip), `Body` and `Args` (the two
places of `text.extract`), `Engine` (the inference, `to_score`, `_scale`,
`deliver`), `Overload`. Nothing interleaves with it, since
the profile is passed in; the steps are there so that what the message asks, what
the store gives and how the model rates is chosen only where the code looks, and
the variables record what it looked at. A place is a locator (absent, marked
unavailable, without a key, of another driver, of Redis) and, when the store is
asked, what it replied (nothing, an error, nil, a reply cut short, an object with
or without a text); `Fetch` is what `store.fetch` makes of the two. `body = Unread`
at the end says that the store was never asked. Scores are integers: a severity is a
weight in quarters, a confidence is in percent, `RoundQuarters` is Python's rounding
to even and `Scale` is `_scale`'s `int(x + 0.5)`.

`NothingWrittenIsLost` and `RowsActAsWritten` speak of both ends at once: the
first says that each field of an accepted ask row is in the ask that goes out, the
second that what goes to the neighbours and lists at the end of an evaluation
is what the written rows say whose condition holds. The condition is `README.md`'s, not the
code's: an overload row with an `at` acts when the fill is at least that. For rows of
`at: 100` the code does otherwise, so the property is a sandwich: all rows
that hold, except those of 100, act, and nothing acts that does not hold. What became of the rest of
the sentence is in section 4.

`Verdicts.EvaluateMay` is what is left of all that for the handling of requests:
the verdict, the code, whether the asks of overload rows travel in the reply, and
which list writes there may be. `Abstract` forgets the rest of a profile but for the
least `at` of each kind of overload rows, and
`WithinVerdicts` says that each ended evaluation is one that `EvaluateMay` and
`WithOverload` allow; `Inspector` chooses from exactly these.

### Flow and LogShip

A line is its number, so the list, the batch and the bus are sequences of numbers
and `EveryLineAccounted` can speak of their order. The task that ships is
`shipper`: asleep, inside `publish`, or ended; `FlushOn` is `flush` from one
suspension to the next, and keeps going through `Failed` and `Published` until the
list is empty. A cancellation hits the sleep or the publish; in the publish the
batch may have gone out (`shipped`) or not (`cutOff`), and the code counts
neither. A batch that does not encode (a line with a lone surrogate, `logsink.py:112`) raises
outside the `try`: `FlushOn` may lose it (`spoilt`), uncounted, and the task is over with
the rest of the list in place. `Flow` has `_advance`, `add_n` and `snapshot` over a ring indexed by
`second % Window`, with the buckets of the latencies and the percentile that is read
off them; in `LogShip` it counts the lines shipped and lost, at a clock
that may be set back, with a latency per publish (a line cut from the list counts
with none). `events` is the reference it is compared with: a percentile must be the
bucket of the latency that has its rank when the lines are ordered by latency.

## 3 The runs

`tlc -config X.cfg M` for each; bounds are in the `.cfg` files.

| Run | Instance | What it shows |
|---|---|---|
| `gate` (`MCGate.cfg`) | 4 requests, `MaxSize` 2, `MinBudget` 2, budgets 2 and 3 | capacity, accounting, no stranded worker, refusals for the limit only beside live requests; everyone leaves even if the worker hangs |
| `inspector` | 3 requests, one `Malformed` and `Unloggable`, one `Unpeekable`, `MaxSize` 1, no slack in the buffer, all kinds of profile, shutdown | the inspector implements `Exchange`; list writes follow the answer; everything asked of a sound inspector is answered |
| `inspector_crowd` | 3 requests, one `Unquotable` and two interchangeable, `MaxSize` 2, budgets 1 and 3, one fault | with evictions by three coroutines nobody shares a request, and while not impaired nobody drops one; `fills` has an entry exactly for what is on its way, never one too low for what it joined; still an `Exchange` |
| `budget` | 3 messages, `MaxSize` 1, slack 1, budget 2 over a minimum of 1, up to 2 list rows, time-outs of 1 (directory) and 2 ticks (keeper) | refusals are in time, nothing is taken without budget, the waits in the buffer are bounded, a hanging evaluation costs only its own message |
| `generations` | 3 entries of every kind and level, one failed watch | only good generations in force, never an older one, the presence frame truthful, a good last one arrives |
| `geo` | 2 callers, 4 addresses, 2 editions | ranges sorted and apart, cache of one edition, answers of one edition |
| `verdict` | 1069 profiles of one row, 9 whole ones and none; up to 3 of 6 neighbours' requests, 5 locators by 7 replies twice, 3 severities by 3 confidences, 4 fills | rows act as written (those at 100 set aside) and nothing accepted is lost; the sum of requests, the skip, the place of the text, and that what is judged is within `Verdicts` |
| `logship` | 5 lines, a list of 3, batches of 2, a ring of 2 seconds with 4 buckets, a clock to 3, a publish takes 9 ms | every line accounted for and in order, honest snapshots, nothing stays in the list unless a batch did not encode |
| `gate_stranded`, `inspector_drain`, `inspector_content`, `generations_odd` | as small as shows it | violations, section 4 |

Why these bounds are enough to be interesting:

* *gate*: two places and four requests give two simultaneous waiters beside a full
  queue (who can both be woken for one place), or one being served, two queued
  and one waiting; a budget of 3 over a minimum of 2 is one tick in which a slot
  is live and then two stages of being late: stale, and past its timer. A budget
  of 2 is refused if it has run down when `submit` looks again behind the lock, or just enough.
* *inspector*: one place and no slack make the second request the full queue, the
  waiter, and the one the buffer drops, in different behaviours; the third, over which `admit` raises, comes
  before, between or behind them. Liveness and every profile at once cost a third request that is
  admitted, and a failing send: `inspector_crowd` has both, with a fixed profile and symmetry (there is no
  liveness in that run). There two budgets make the younger of two requests expire first, so an eviction
  leaves a slot behind it, and the third request ends whichever `shed_many` meets it. One
  fault is enough to be in every send. A request that is `Unreadable` is in
  `inspector_content` only; its way through the gate is the deadline of 0 of `budget`.
* *budget*: one place makes the second message wait or be dropped while the first is
  evaluated, and the third stand in the buffer behind it; two rows are one after the
  other; keeper takes longer than the directory, and its two rows longer than any
  deadline. `MaxTicks` only stops the clock of a message whose evaluation hangs and
  is past every bound the properties compare with: two callbacks of two rows of three ticks.
* *generations*: three entries are one in force, one broken after it and one more;
  one failed watch makes redelivery happen in each of those positions, and `End`
  as often as it likes.
* *geo*: the second edition splits a range, moves a network and drops an address,
  so that ranges of the two editions overlap, contain one another and are absent.
* *verdict*: the rows are a legal one of each verb, axis kind and list, and each of them
  with one field written otherwise, at and beyond each limit of the grammar; a check
  that one field's value switches on or off is thus passed and failed. Three requests
  are enough for the order to matter if the sum were clamped early (+60 after -150 and
  before another); the confidences give a text rated 0 by rounding, a score in the
  middle and one that scales over 100; 49, 50 and 100 percent stand on both sides of
  the rows' 50 and at the 100 of a full queue.
* *logship*: five lines over a list of three overflow while a batch of two is out;
  a window of two seconds on a clock of three is passed wholly, in part, and stepped
  back in; latencies of 0 (a cut line) and 9 ms fall into the first bucket and over the
  lower end of the last. A second latency of a publish multiplies the states and was
  checked on four lines.

`CHECK_DEADLOCK FALSE` where the system may stop: in `Gate` each request is used
once, so behaviours end; in `Inspector` the process exits; in `Budget` nothing is left to
arrive; in `Verdict` an evaluation ends. `Generations`, `Geo` and `LogShip` are checked for deadlock.

## 4 What the violations show

Each of these runs checks one sentence of the repository and TLC finds a
behaviour of the code against it.

* `NoStrandedWaiter` (`gate_stranded`): `take` returns evicted slots without
  `notify_all` (`admission.py:115`). The queue is empty, the submitter in
  `_wait_slot` sleeps on beside it until its own deadline and is refused, unless
  another message arrives; `inspector.conf:9` promises to "wait for room until
  deadline_ms". `sweep` does notify, but finds nothing stale any more.
* `DrainLeavesNobody` (`inspector_drain`): `main` closes the connection
  (`nc.drain`, `main.py:416`) before it waits for the gate, so what is still queued or
  evaluated can no longer be answered; `inspector.conf:1` says "Every path answers".
* `EveryPathAnswers` (`inspector_content`): on a sound connection a running inspector
  holds a request no longer and has not answered it. The message itself made `admit` raise before
  the gate had it (`main.py:465`: `int` of an infinite deadline), or `_reply_shed` while it was refused
  or, with others, shed (`main.py:434`, `protocol.py:37` and `63`, the encode in `main.py:450`).
  In the last case the worker or the sweeper is gone too. `inspector.conf:1` says "Every path answers".
* `BrokenShows` (`generations_odd`): a generation that makes the parser raise
  something other than `ProfileError` never shows as `apply_failed`
  (`README.md:63`); the watch fetches it and fails again every five seconds.

Met on the way, modelled as the code does it, and without a run of their own:

* an overload row with `at: 100` fires for a dropped request only, as if no `at` were written
  (`fires_overload` asks for an `at` below 100, `profiles.py:113`), where `README.md:85` gives "25..100;
  without it only a dropped request counts" and `README.md:117` has a row fire "when the queue is
  at least `at` percent full". It is why `RowsActAsWritten` leaves these rows open;
* the directory's time-out is one of its own per row (`main.py:113`, `geo.py:143`), not "within the message
  budget" (`INSTALL.md:58`, `README.md:123`): the answer may be late by the time-outs of its rows;
* a message that is no JSON has no deadline, which `admit` makes a budget of zero, and is refused with
  `VLAI_DEADLINE` before anything could call it `VLAI_UNPARSEABLE`, the code `README.md:54` has for "a broken message";
* the fill is taken before `submit` evicts and waits, where `README.md:118` says "as the
  request joins": it may be too high, and so fire a row (`FillNeverTooLow` is the half that holds);
* `below` and `eq` are read with `bool`, so that the text "no" counts as true;
* `apply: conn` needs `phase: frame` only if there is a `phase` at all;
* a list row ignores the fields of asks, and an ask row ignores `write`, where other
  fields without effect are refused;
* the pending queue's time is not part of the budget, and `remaining_ms` starts again
  from the whole deadline, so that an inference may start with less of the budget left
  than `VLAI_MIN_BUDGET_MS` (`INSTALL.md:53`); `TakenWithBudget` is what the gate ensures;
* one log line that does not encode loses its whole batch, counted nowhere, and ends the shipping
  task; lines logged later only fill the list (`logsink.py:112`; the `spoilt` of
  `EveryLineAccounted` and `EveryLineLeaves`). A shutdown then ends at `await ship` with that
  exception, without draining (`main.py:413`, `Abort`).

## 5 Fairness

* `Gate` (`FairGateSpec`): the clock, the sweeper and the timers are weakly fair:
  the event loop runs, the sweeper comes round every 10 ms, a due timer is served.
  *Nothing* is asked of the worker, of `done` or of notified waiters: the model
  behind the worker may hang, and `EveryoneLeaves` holds all the same.
* `Inspector` (`FairSpec`): weak fairness of the callback, the worker, the sweeper
  and time, one formula per coroutine. It says that the loop is fair to its tasks
  and that an evaluation ends. Arrivals, generations, faults and the shutdown are not forced.
* `Generations` (`FairSpec`): `Open`, `Retry`, `Apply` and `Beat`, the steps of the
  watch task and of the heartbeat task. Failures are bounded by `MaxFailures`
  and not forced; entries are written when the controller likes.
* `LogShip` (`FairSpec`): the task's sleep of `FLUSH_EVERY` ends (`Wake`), and each publish
  ends, well or badly (`Failed \/ Published`, one formula: neither outcome is
  forced). The cancellation is not forced.
* `Budget` (`FairSpec`): the callback, the worker, the sweeper and time. Time passes
  when everyone rests, so a directory or keeper that is silent ends in its time-out.
  The evaluation is the one step nothing forces: `OthersAnswered` holds beside an
  inference that hangs.
* `Geo` and `Verdict` have only safety properties.

## 6 What is proved

Each theorem holds for every value of the constants its module's assumptions allow:
any set of requests, infinite ones included, any `maxsize`, any profiles, any
directory. `PROJECT.json` lists them with the properties they state. Each proof
module has one inductive invariant per question, a lemma per action, and theorems
that pick the properties out of the invariant.

### The gate (`GateProofs`)

`GateTypeCorrect`, `GateKeepsCapacity`, `GateAccounting`, `GateWorkerNotStranded` and
the action property `GateLimitHonest`, from `GateAssumption`: the worker is not a
request, `MaxSize >= 1` as the constructor makes it, `MinBudget` and the budgets natural.

The inductive invariant is `GateInv`: the four invariants and that the deque and
the worker's hand together are finite. Finiteness is needed because `Requests`
may be infinite and `_unfinished` is a cardinality. The four parts need each
other: that `_unfinished` never has to be clamped at zero (`Settled`) needs the
accounting before the step, the accounting of an eviction needs types, and
`CapacityKept` after a wake-up needs nothing of who was woken, because every woken
submitter looks at the room again; that is the heart of the argument.
The proof first shows how an eviction changes the sets and the count
(lemmas about `AfterEviction` and `TakeStale`), then each action from those.
The module ends with what an operation does to the stage of *one* request
(`SubmitStage`, `ResumeStage`, `TakeStage`, `SweepStage`, `DoneStage`): it is evicted
from the deque, or is the one the operation is about, or stays. The two modules
that extend `Gate` argue from these and never open the gate's actions again.

### The request handling (`InspectorProofs`)

From `GateAssumption` and `InspectorAssumption`.

* `InspectorUsesGate`, `Spec => GateSpec`, by one step per action: the composition uses
  the gate only through its actions, so the gate's theorems hold inside it
  (`InspectorGateInvariant`).
* `OwedInvariant`: the inductive invariant `OwedInv`. It says for each request who
  owes its answer, in terms of where it is (`InboxInv`, `EvictedInv`, `CallbackInv`,
  `WorkerInv`), that whoever still owes has given none (`AnswersInv`), and that, while
  no send has failed and nobody has asked to stop, what left the gate has been answered
  or has one who will (`SoundInv`), but for a request over which `admit` itself raised. Beside it
  `DroppedInv` says that nobody owes such a request and nobody comes to owe it again, and
  the two give `DueInv`: the requests `Exchange` calls owed are those that were asked, are
  not answered and were not dropped in this way. The parts cannot be had apart: that a
  coroutine answers a request for the first time needs that no other has it
  (the evicted of two coroutines are disjoint), which needs where the coroutines stand,
  since each operation of the gate hands out evicted requests while the others are
  between two sends.
* `SoleHolderAlways`: nobody ever shares a request; while the inspector is not impaired nobody drops
  one, but `admit` one over which it raises.
* `InspectorKeepsExchange`: the refinement. Initial states map to initial states, and
  every step under `OwedInv` is a step of `Exchange` under the mapping or a stutter: an
  arrival asks, a drop loses, a first answer is given by one who owes it, a raise over content gives
  up a request that is not fit, and a second answer (`InternalError` behind a log line that raised) goes to a
  request that is not fit, or comes from an inspector that is impaired. The theorem is about safety: it says
  who may be without an answer, and `EveryRequestReplied` that the others get theirs.
* `WritesAlwaysFollow`: with `WritesInv` on top, which adds what the rows still to be
  written have to do with the answer already given (`RowsFit` its code).
* `FillsAreOfTheLive`, `FillsNeverTooLow`: with `FillsInv` on top. While the inspector is not
  impaired, an entry of `fills` is there exactly while its request is on its way (a `shed_many` that
  raises leaves those of the rest behind); one that waits for room was noted
  at a full queue, which is why the later eviction can only have lowered the truth.
* `InspectorTypeCorrect` from all of these.

### Time (`BudgetProofs`)

From `GateAssumption` and `BudgetAssumption`, and so for time-outs, deadlines and
numbers of rows of any size.

* `BudgetUsesGate`, `BudgetGateInvariant`: the clocks only watch the gate. The step
  argument needs that the pending queue holds requests, that a deadline is one the
  gate may be given and that a callback waits only for a request (`TimedCallsInv`).
* `TimedInvariant`: `TimedInv` is where the coroutines stand and how long (`WorkInv`,
  with `RowsInv`: rows done and ticks spent stay within their time-outs), the pending
  queue (`BoxInv`) and the clocks (`ClockInv`): what the gate still counts down and
  what has passed since the callback began add up to no more than the deadline.
* `BudgetTaken` (`TakenWithBudget`) follows.
* `BudgetRefusesInTime` (`RefusedByDeadline`) assumes `MinBudget > 0`. The code allows
  `VLAI_MIN_BUDGET_MS = 0` (`config.py`), and with it the sweeper may come round one tick,
  its own period, behind a deadline that nothing has evicted before; the runs
  use a minimum of 1.
* `BudgetHeadOfLine` (`HeadOfLineBounded`) assumes `BudgetsBounded`, that some number is above
  every deadline: without it there is no longest callback to compare with. Its
  invariant, `HeadInv`, is the count itself: the `i`-th of the pending queue has seen `i - 1`
  callbacks of those in front of it still ahead, so all the others have ended, each within
  `Longest`, and the one that runs has taken `Elapsed`.
* `BudgetTypeCorrect`.

### Generations (`GenerationsProofs`)

`GenerationsTypeCorrect`, `GenerationsVerdictTrue` (`VerdictTrue`) and the action property
`GenerationsNeverBack` (`NeverBack`), from `GenerationsAssumption`. Neither is inductive
alone: what an entry does to the registry depends on the entries still in the watch's
hands, and `PendingInv` says that they come in the order of the history and that none is
older than the generation in force. It is the reason why a restarted watch, which
delivers the last entry again, cannot take the registry back.

### The geo cache (`GeoProofs`)

`GeoTypeCorrect`, `GeoSpansApart`, `GeoCacheOfOneEdition`, `GeoAnswersOfOneEdition`, for any
number of callers, addresses and editions. `GeoAssumption` asks of the directory that a
range does not end before it begins, names an AS, and that the ranges of one edition
do not overlap: what `/lookup` is relied on for. `GeoInv` is inductive as the
conjunction of the properties and types. The work is in `_insert`: the bisections
as operators over a sorted list, and that a range that overlaps none of the list's own
edition goes between its neighbours (an insertion at another place, or beside an
overlapping range of an older edition, is what `_reset` must rule out).

### The verdict (`VerdictProofs`)

From `VerdictAssumption`; profiles are any sets of rows of `RawRow`, requests of
neighbours any sequences, scores any of their ranges.

* `VerdictInv` says at each step what has and has not been looked at (`UntouchedInv`),
  that the profile in force is the one written (`ProfileInv`), that an accepted skip is remembered
  (`SkipInv`), which place failed or had the text (`PlaceInv`), and which rows the result
  has (`RowsInv`). From it: `VerdictTypeCorrect` (the clamp and the scaled score stay
  in bounds), `VerdictSkipSpares`, `VerdictFirstPlace`.
* `VerdictLosesNothing` and `VerdictRowsAct` are statements about `Rows`: for every row that
  `RowReads` accepts, the ask that leaves has each of its fields (`AskSaysAll`), and what
  was made of its condition fires when the condition holds as `README.md` has it and
  only then, except that one of `at: 100` may not (`ActsAsWritten`). TLC has 1069 rows of this; the theorems have them all.
* `VerdictWithin` (`WithinVerdicts`): with `JudgedInv`, the verdict and code that belong to a
  message and a profile, each evaluation is one that `Verdicts` allows. It is what lets
  `Inspector` stand on `Verdicts` alone: of the overload rows of a kind only the least `at`
  is kept there, and `FiringOfKind` shows that this decides whether one of them fires.
* `VerdictFactorSums` (`FactorIsClampedSum`): `SumInv` says that in the loop over the requests
  `percent` is the sum of what was accepted so far, unclamped, and behind it the clamp of
  that sum. `PriorSums` is the one turn that adds to it; all other steps leave the sum alone.

### The log (`LogShipProofs`)

`LogShipTypeCorrect`, `LogShipAccounts` (`EveryLineAccounted`) and `LogShipSnapshot`
(`SnapshotHonest`), from `LogShipAssumption` and `FlowAssumption`, so for a ring and buckets
of any number and latencies of any kind. `OrderInv` adds to the types what makes the sum and the order
survive a cut of the list while a batch is out: the list is the newest lines without a gap,
what is in publish lies before it, and what went out lies before that. `LossInv` says when lines go
uncounted: at most one batch by the cancellation, at most one that did not encode, and the task has ended in the
second case.

`SnapshotHonest` compares two ways of counting, and `CountsInv` is what ties them together:

* *Each slot is exact* (`RingHolds`): the slot of a second holds the counts, the buckets, the
  sum and the largest latency of exactly the events of the `Window` seconds up to the epoch that
  fall into it. That those are the events of one second is `SlotOnce`: two numbers less than a
  window apart never share a slot. `AdvanceHolds` shows that clearing the slots of the
  seconds just begun is the same as moving the window, `AddNHolds` that a count in a second
  before the epoch still finds its slot; for that the invariant keeps the clock
  less than a window behind the epoch. It also keeps that only finitely many events
  have happened, because the latencies of the model may be infinitely many.
* *The sums agree* (`RingTotals`): a sum over slots of sums over their events is the sum over all
  the events, `BySlot`.
* *The percentile is the ranked latency's bucket* (`PercentileIs`): some latency has the rank
  (`RankedExists`), buckets rise with latencies (`BucketRises`), so the counts of the buckets
  from below reach the rank at its bucket and not before.

### Sums (`SumProofs`)

The community modules define a sum over a set by taking elements out of it in whatever
order `CHOOSE` gives. What the proofs need of it (it adds up, over a set with one
element more, over a union, over a partition, term by term) is induction on the size of a set.
The library's induction theorems take the claim as an operator, so `SubsetInduction` states it
for a *set* of subsets instead: one that has each subset whose proper subsets it has, has
them all. It is proved from a counterexample of least cardinality (`LeastNumber`). Terms are functions for the same reason: `SumOf(term, S)`.

### What stays with TLC

* Liveness under fairness: `EveryoneLeaves`, `EveryRequestReplied`, `GoodArrives`, `OthersAnswered`,
  `EveryLineLeaves`. The temporal prover used here has no `ENABLED` and no fairness rules.
* The four runs that expect a violation, which refute a sentence by a behaviour.

## 7 What is left out

* *The loop's own work*: in `Budget` sends and the steps between two waits take no time,
  and the time-outs are ticks of the size of the sweeper's period or more; the
  five seconds of `join` at the shutdown are not counted.
* *Draining while reconnecting*: `Drained` waits for the callback; a drain that times out
  is not modelled.
* *The order of `shed_many`*: the evicted of one coroutine are a set; the code
  answers them in queue order. No property depends on it.
* *The log raising inside `shed_many` or before the answer*: a log line that raises is modelled
  behind the answer in `process` only, where it leads to a second answer. The lines of
  `shed_many` name no field of the message.
* *Content in `Budget`*: no message raises there by what it carries; it is about time.
* *The byte limit* of the pending queue; only its message limit.
* *Serial callbacks*: that nats-py runs the callback of one subscription serially
  and drops what its pending queue cannot hold is taken from how `main.py` relies on
  it. `Gate` itself does not assume it.
* *The clock of `_neg`* in `geo.py`: entries may run out at any time.
* *Cancelling a publish*: that nats-py lets `CancelledError` out of `publish` is
  assumed in `LogShip`; lines logged after the task has ended stay in the list.
* *`flow.Counter`*: latencies are whole milliseconds, and neither the middle of a bucket
  nor the rounding of the report is computed. Only the log's counter is composed with
  its caller; the one of `process` is the same class.
  A clock set back by a whole window or more is excluded by `SetClock`: the ring
  then goes on counting into old slots and a snapshot no longer means its window.
* *Float arithmetic* in `to_score` and `_scale`: products are exact in `Verdict`. The
  characters of a text, its normalisation and its cut at `MAX_CHARS` are one of
  "short" and "long". A text rated 0 answers `VLAI_NO_TEXT`, as in the code,
  although there was a text.
* *YAML, JSON and alphabets*: which text is a well-formed name, code, marker or
  time, and the parsers of YAML and JSON. Hashes of generations: a mismatch is only logged.
* *Configuration* (`conf.py`, `config.py`): read once, before anything runs; what comes
  out are the constants of the modules, and a bad file ends the process at start.
* *The model and its HTTP server* (`classify.py`): the inference is a choice in `Engine`;
  the server is not part of the inspector. The lock around it is never contended by
  the one worker.
* *Audit events and host facts* (`audit.py`, `host.py`): formatting of what others
  decided; their failure is one of the faults of `Publish`.
* *The probe* (`probe.py`): a client of the inspector.

## 8 Plan

Done, in this order: `Gate`, `GateProofs`; `Exchange`, `Inspector`,
`InspectorProofs`; `Generations`; `Geo`; `Verdicts`, `Verdict`; `Flow`, `LogShip`;
`Rows`; `Budget`, `BudgetProofs`; then the proofs of the other modules, with `SumProofs`
for the two that add up. Left:

* Action properties that follow from the invariants already proved and that no run
  states yet: the registry changes only by a good generation; a cached edition only goes forward.
