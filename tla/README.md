# satan-attrd in TLA+

satan-attrd is the daemon that owns SATAN's eight global attributes. It consumes
source events from the broker (an Emacs process), turns each into attribute
deltas, appends them to an event log, updates the projection of current values
and reports every delta back to the broker. A scheduler in the same process
lowers the negative-pole attributes once a day. This directory models that
daemon, checks it with TLC and proves the core of it with TLAPS. Paths below
are relative to the repository.

## The system

| Part | State | Operations | Modelled in |
|---|---|---|---|
| tuning tables (`src/tuning.rs`) | none | reason to delta row, weights | `Tuning` |
| dispatcher (`src/dispatcher.rs`) | none | first emission, revision, hippocampus, sensor, maintenance; caps | `Dispatcher`, `Decay`; in f64 `Precision` |
| per-run counters (`src/run_loop.rs`, `src/store.rs`) | LRU map of `run_id` to `Counter` | `get_or_create`, `next` | `Counters`; in i32 `Precision` |
| store (`src/store.rs`, migration 0007) | `satan_attributes`, `satan_attribute_events` | insert, upsert, lookups, rebuild | `Store`, `Attrd` |
| queues (`src/rpc.rs`, migrations 0008-0010) | outcome inbox, audit inbox, replies | enqueue, claim, delete | `Store`, `RunLoop` |
| run loop (`src/run_loop.rs`) | listeners, counters, the row in hand | `run`, drains, notify handlers, `process_outcome_row`, `process_reply_row` | `RunLoop`, its contract `Inbox` |
| decay scheduler (`src/decay.rs`, migrations 0011, 0012) | interval timer, day counter, `last_decay_at`, switch | `run`, `tick` | `Decay` |
| process (`src/main.rs`) | both futures on one thread | `run`, `rebuild` | `Attrd` |
| broker | outside this repository | INSERT and NOTIFY, reject, toggle the switch | environment actions |

How they interact. The broker inserts a row into `satan_outcome_inbox` and
notifies. The loop LISTENs, drains the backlog once, then serves notifications
one at a time: claim the row, check and parse it, read the projection, build the
events, and for each event INSERT, UPSERT, audit INSERT, `pg_notify`; finally
DELETE the row. The scheduler does the same for each due row and stamps
`last_decay_at`. The two share no memory, only tables, and either runs while the
other awaits a statement. `satan-attrd rebuild` is a second process that rewrites
the projection from the log in one transaction.

What is hard here: every statement is its own transaction, so a failure, a crash
or the other future can fall between any two; notifications may be lost or
doubled; seqs come from memory while their uniqueness is checked by the database;
events carry the broker's time, not the time they were applied; values are f64
and compared with zero, one and `EPSILON`; the wall clock may be set back.
`PROJECT.json`
lists these hazards at their lines. What makes each part correct:

- delivery: no row is overlooked, none is dispatched twice, each is deleted;
- writing: log, projection and audit queue agree up to what failed;
- counters: a seq is never given twice within a run;
- revisions: only the last classification of an intervention counts;
- decay: at most one step per row and 24h, at least one once due, never a rise;
- numbers: rounding never changes what is stored beyond rounding, and never
  loses an event;
- composition: a value is still current when it is written back, and the
  projection is the replay of the log.

## The modules

- **`Tuning`** holds the constants and tables. All of them, times a weight of
  1/2, 1 or 3/2, are multiples of 1/400, so values are integers in `0..400` and
  arithmetic is exact. An attribute is its position in `ATTR_ORDER`.
- **`Dispatcher`** is the pure arithmetic. A dispatcher returns a function from
  affected attributes to events; the seqs follow `ATTR_ORDER`.
- **`Counters`** is `LruCounterMap`: recency queue plus counters. The capacity
  is a constant (64 in the code).
- **`Store`** declares the shared tables and what each statement computes.
  `insert_accepts` is the range check plus the two unique keys.
- **`RunLoop`** has one action per awaited statement; `pc` names the statement to
  execute next and `phase` the loop of `run()` it belongs to. Reading the
  projection and building a first emission are one step because no await lies
  between. The lookups of a revision are one step because they read only rows of
  the intervention at hand, which nobody else writes. A payload is a record
  that keeps what the control depends on (schema major, whether it parses,
  source, reason, confidence, intervention, revision flag, switch).
- **`Decay`** is the scheduler in the same style. `DAY` is both 24h and the
  length of a UTC day; `maintenance_run_id` maps a day to a run id above every
  broker run id. That is the collation order if broker run ids start with
  a digit, and only the replay order depends on it.
- **`Attrd`** composes the two as `main.rs` does: they start and die together, and
  each step of one leaves the other's memory alone. A rebuild takes the row
  locks and reads the log in one step and commits in another; in between, other
  writers of the rows wait. Locking before the read would only delay upserts that
  happen after it here. `overlapped` records whether two writers have ever been
  at work at the same time.
- **`Inbox`** is the abstract contract of `satan_outcome_inbox`: rows are taken one
  at a time, planned once, applied attribute by attribute in order, and then
  finished or, at any point, abandoned. It knows nothing of listeners, backlogs,
  program counters or restarts. `RunLoop` implements it under the mapping `row` to
  `inbox`, `busy` to the row claimed, `due` to the events not yet inserted and
  `applied` to the attributes written (`InboxContract`).
- **`Binary64`** is IEEE 754 double arithmetic on the numbers that occur here, in two
  limbs of integers: rounded sums, products with a weight, decimal literals.
- **`Precision`** follows one attribute through any sequence of events in f64, with
  the exact units beside it, of each intervention what the log says it did (`prior`,
  what `gather_prior_actuals` sums), so that an older one can be revised after newer
  ones have moved the attribute, and one run's `Counter` in an integer of `SEQ_BITS`
  bits, with the wrap of `fetch_add`, `saturating_add` and the panic. Planning, seq,
  INSERT and UPSERT are one step here, because only the arithmetic is of interest.
- **`MCRunLoop`**, **`MCAttrd`** give the payload sets of the runs, **`MCPrecision`** the
  attributes; `Decay` needs none and is checked as it is.
- The theorems are in **`RunLoopProofs`** (delivery and the snapshot), **`InboxProofs`**
  (the refinement), **`LedgerProofs`** (log, audit queue, projection, friction),
  **`SeqProofs`** (counters, stranded rows, replay, revisions), **`DecayProofs`**, **`AttrdProofs`** (the
  composition; it uses the lemmas of the four before it) and **`PrecisionProofs`**.
  **`Sums`** has the lemmas about what the store computes from a set of events.

Definitions that start with the comment `Mutant:` are faulty variants of the
definition that follows; no specification uses them. Each shows that a property
fails when the code is wrong in that way.

Failures. `StatementFails` and `TickFails` make the current statement fail without
effect; a statement that took effect and then reported an error is the same as a
success followed by a failure of the next. `Crash` clears everything in
memory, the listeners' buffers included. `ClockSetBack` is a wall clock stepped back
(by NTP or by hand) while the scheduler sleeps or is down; the interval timer is
monotonic and keeps its distance. It is part of `Decay` only, not of `Attrd`. A fatal error of `run()` (LISTEN, the
backlog SELECT, a listener) ends the process and is a crash too.

## The runs

Passing:

| Run | Shows |
|---|---|
| `loop_delivery` | two rows with a lost and a stray notification, a failing statement and a crash anywhere: types, coverage of unclaimed rows, dispatch at most once, a coherent snapshot, the audit queue and the projection behind the log only by what failed, one row stranded per failure while the process lives, and the contract `Inbox` implemented |
| `loop_liveness` | every row is claimed, every row is deleted unless the daemon crashes, every reply is consumed |
| `loop_revision` | revision chains of up to three rows among rows of as many runs as the map holds, with a failing statement: the last classification alone counts, friction stays zero, the replay is the projection, every insert is accepted and seqs grow, and a failing statement strands one row, whichever runs the rows belong to |
| `decay` | types, fresh seqs, double decay only by failure, never a rise, and a due row does decay: two targets across a day boundary, with a toggle or a clock set back, a failure and a crash |
| `attrd` | loop and tick interleaved, with a rebuild and a crash: stale writes need an overlap, early decays a failure or a rebuild, other attributes stay coherent, the two seq allocators never meet |
| `numeric` | f64 beside exact units, two interventions revised in any order: stored values differ by rounding only, an `EPSILON` per event at most, the same caps fire but at the edges, only a plan exactly at zero or one is ever refused, decay never is, and seqs grow until `next` panics |

Disagreements between the code and what its comments say, each with a TLC
counterexample:

| Run | Property | What happens |
|---|---|---|
| `loop_restart` | `StrandedOnlyByFailure` | counters restart at 1 with the process; later rows of an active run are claimed, refused and never deleted |
| `loop_neutral` | `StrandedOnlyByFailure` | a neutral outcome leaves no event, so its revision fails and its row stays claimed |
| `loop_disabled_revision` | `RevisionIgnoresDisabled` | a disabled revision becomes the prior classification of the next, which then skips attributes it should take back |
| `attrd_snapshot` | `SnapshotCoherent` | a tick writes between the loop's read and its UPSERT; the decay is lost |
| `attrd_replay` | `ReplayIsProjectionAtRest` | an event waits in the inbox while a decay is applied; the replay order swaps them |
| `numeric_range` | `PlannedIsInRange` | doubt raised by `contradicted` at low confidence and taken back by `worked` at high ends a rounding error below zero; `plan_for` does not clamp less than `EPSILON`, `insert_event` refuses the event, and the row stays claimed and half written |

Consequences of the same code without a run of their own:

- An eviction from the counter map resets a counter as a restart does:
  `loop_revision` has as many runs as the map holds, and the mutant that evicts one
  run too early refutes `InsertIsAccepted` in the same way.
- A failure between a decay's INSERT and its stamp decays the row again an hour
  later: `DoubleDecayOnlyByFailure` allows one such decay per failure or crash, and the
  bound is attained, although `src/decay.rs:80-82` says that the guard prevents double
  fires. If the clock is ever set back the bound is two per failure, however often it
  is set back; without a failure a set-back makes no row decay twice.
- Replay is the projection only while nothing failed, the process has not restarted
  (a row whose wake-up was lost is applied after a restart, late), no notification
  was made up (a stray one can overtake the queue), and no two runs wrote at the same
  timestamp, which replays in the order of the run ids. A lost notification alone does
  no harm: its row is not applied before a restart. For the same reasons
  `RevisionSupersedes` asks that every row of the intervention was finished and none
  was missed: an abandoned revision is taken for an applied one.
- `Counter::next` hands out the largest seq twice and panics on the call after
  (`src/store.rs:45-46` says that wrapping panics). The second event is refused as a
  duplicate, or is the first logged with that seq if the one before was refused.

Bounds. Two rows are enough for one to be in hand while another arrives, is
notified or drained; three for a revision of a revision, and for as many runs as a
map of capacity two holds plus one more row. One
failure and one crash can each fall at any statement; the invariants that count
failures are stated as `<= faults + crashes`, so one of each exercises the bound.
A day has one or two units; in `decay` the clock passes a midnight, and two units
per day separate "24h have passed" from "a new UTC day has begun". The restart run needs a fourth
row. Deadlock checking is off because
a daemon with no input waits, and bounded environments run out of input.
In `attrd_*` and `attrd` only one target decays, which suffices for an attribute that
both writers touch, one that only the loop touches, and the others. Toggles and
set-backs share the bound `MaxChanges` of one: each is examined with every failure
and crash, not with the other.

Some bounds are as tight as the time of a run allows. In `decay` the timer's
interval is a day, so that two targets fit beside all disturbances: rows are tried
again within a day after a restart or a set-back, not by the timer alone. In `attrd`
the switch stays on: what it does to a tick is examined in `decay`, and to a row in
`loop_delivery` and `loop_revision`. The theorems hold without these bounds.

`numeric` has two interventions: a revision depends on the value and on what its own
intervention did, and a second one moves the value in between; the theorems hold for
any number. `Interventions` are places, which a new intervention may take over,
and alike (`SYMMETRY`). Each attribute has a bound of its own (`MaxEvents`): doubt,
the attribute with the most deltas, has four events, which reach both edges of the
range with every reason and confidence; brooding has three and four decays, which
take it from 0.05 through sums that end below zero; hunger, with the fewest, goes on
through the seven seqs of four bits, the repeated one and the panic. The width of a
seq is a parameter of the model and 32 in the code.

Fairness. `Start` together with the loop's own steps is weakly fair: the loop is a
single thread that executes the statement it is at, and systemd restarts the unit
(`Restart = "on-failure"` in `nix/module.nix`). Choosing between the two listeners
needs no fairness because each backlog is finite. The broker sends the NOTIFY
that belongs to each of its INSERTs. For decay, the scheduler's steps and time are
weakly fair; the interval timer fires once its time has come.

## The proofs

Every theorem holds for all values of the constants: any number of rows, payloads,
runs, restarts and failures, any counter capacity, any targets, interval and day
length, any width of a seq. The assumptions are the named ones of the modules
(`StoreAssumption`, `LruCapAssumption`, `RunLoopAssumption`, `DecayAssumption`,
`AttrdAssumption`, `PrecisionAssumption`): bounds are naturals, the capacity is
positive, `Precision` has an event and a decay bound for each attribute and leaves the
interventions open, payloads have their record type and bear
an intervention exactly when they are outcomes (`src/dispatcher.rs:312`), targets are attributes, maintenance run
ids lie above the broker's. Three more are hypotheses of the theorems that need them:

- `EveryRunIsTracked`: no more broker runs than `COUNTER_LRU_CAP`. With more, an
  evicted run starts again at seq 1 and its next INSERT is refused, as after a restart.
- `MaxCrashes = 0`, or `crashes = 0` in the property: the counters of the run loop are
  memory. After a crash `InsertIsAccepted` and `SeqMonotone` are false, which is what
  the run `loop_restart` shows.
- `Lifetime`: a seq has at most 32 bits, as `Counter` has, and an attribute decays at
  most 2^32 times, which at one decay in 24 hours is beyond any deployment. The error
  of a sum grows with its history; this keeps it far below one unit of 1/400.

Delivery and the contract of the inbox:

| Theorem | Property | Argument |
|---|---|---|
| `LoopTypeCorrect` | `LoopTypeOK` | inductive as it stands, in four parts (store, broker, process, pending events), one lemma each. It already says that the loop owns the row it works on and that what it writes after the INSERT is in the log; without these the next row state and the type of the UPSERT would not follow |
| `RowsAreCovered` | `UnclaimedRowIsCovered` | inductive with `LoopTypeOK`; the facts needed about queues are `RangeAppend` and `RangeTail` |
| `SnapshotStaysCoherent` | `SnapshotCoherent` | inductive with `LoopTypeOK`; the emitted events record the projection they were built from (`EmitFaithful`) |
| `RowsAreDispatchedOnce` | `DispatchedAtMostOnce` | strengthened by `OwnerWrites`: a row that was never claimed has written nothing, and the row in hand has written nothing for the attributes still pending |
| `LoopImplementsInbox` | `InboxContract` | the initial states map to the contract's, and each action of the loop maps to one of the contract's or to a stutter, under `LoopTypeOK` (the loop owns the row in hand, and what it writes next is in the log) and `OwnerWrites` (a row is planned before anything is written for it, and the write loop is past what it has written) |
| `RowsAreStrandedByFailure` | `FailureStrandsOneRow` | needs `EveryRunIsTracked`. The invariant counts the rows left behind: claimed, not in hand, and not a revision that found no prior event. Only a failing statement adds one; an INSERT is never refused (`NoInsertIsRefused`), and a revision that returns at its lookup has written nothing (`OwnerWrites`) |

The tables the loop writes (`LedgerProofs`, `SeqProofs`). All rest on a lemma that
sorts the steps of the loop by what they do to the tables (`LedgerSteps`):

| Theorem | Property | Argument |
|---|---|---|
| `AuditStaysBehindLog` | `AuditFollowsLog` | strengthened by: the event being written has no audit row yet. The log is keyed and finite (`LogOK`), so that an INSERT makes it larger by one |
| `ProjectionIsTheSum` | `DriftOnlyByFailure` | an attribute plus what the event in hand still owes it is the sum of the enabled deltas of the log, except for one attribute per failure. That the sum over a finite set is well defined and grows by the delta of an added event is proved in `Sums`, by a smallest counterexample instead of an induction |
| `FrictionNeverMoves` | `FrictionStaysZero` | no outcome raises friction and the other sources do not touch it; so every logged friction event is from zero to zero, the prior actual a revision takes back is zero, and the revision again can only lower it |
| `NoInsertIsRefused` | `InsertIsAccepted` | needs `EveryRunIsTracked`; states `crashes = 0 => InsertIsAccepted`. `CountersCover`: each run with an event is in the map, and its counter is past every seq of the run, logged or pending. `PendingAhead`: the pending seqs ascend and lie above everything their run has logged, and their values are in range |
| `SeqsOnlyGrow` | `SeqMonotone` | from the same invariant; needs `EveryRunIsTracked` and `MaxCrashes = 0` |
| `RebuildChangesNothing` | `ReplayIsProjection` | needs `EveryRunIsTracked`. While the process is `Undisturbed`, what is queued, to be drained or in hand is in the order of the ids, which is the order of the timestamps, and the row in hand is the last one taken (`OrderInv`); every logged event bears what the broker wrote in a row that was taken (`EventRows`). With `SeqInv` each event is then the last of its attribute in replay order when it is written, and `latest` finds it (`LastIsLatest`) |
| `LastClassificationCounts` | `RevisionSupersedes` | needs `EveryRunIsTracked`; the invariant `RevisionInv` is explained below |

`RevisionInv` says of each intervention whose rows were all dispatched in full, in
their turn: while row `p` is in hand with events still to insert, an attribute without
a cap stands where `p` wants it once its pending event is added (`Settling`); when
`p` is done, every attribute stands there (`Met`); and between two rows every
attribute that the last logged classification does not concern is back at zero
(`NoneLeft`). The last is what makes the next revision complete: it visits only the
union of its own row and that of the last logged classification
(`build_revision_events`), and takes that classification from the latest event. That the latest event is
the last one inserted needs the order of the rows (`OrderInv`), that of the seqs
(`SeqInv`) and the row behind each event (`EventRows`); that a first emission finds
an empty log needs `BrokerOrder` (the broker revises only what it has classified)
and `OwnerWrites`. The steps of the argument about sums are constant-level lemmas
about the set `R` of events an intervention has logged (`FirstSettles`,
`RevisionSettles`, `InsertSettles`, `NothingDue`).

The scheduler:

| Theorem | Property | Argument |
|---|---|---|
| `DecayTypeCorrect` | `DecayTypeOK` | strengthened by `TickTypeOK`: while a tick writes, the counter's day is the tick's day |
| `DecaySeqsAreFresh` | `DecayNeverCollides` | strengthened by `CounterAhead`: the day counter is at least every seq logged for its day. So the collision branch of `tick()` is unreachable, and the comment above `is_run_seq_collision` describes a situation that counter resumption has removed |
| `DecayLowersByOneStep` | `DecayOnlyLowers` | strengthened by `TickCoherent`: what the tick read is still the projection for the rows it has yet to write |
| `RowsDecayOnceADay` | `DoubleDecayOnlyByFailure` | there is a set `U` of decays, at most one per failure or crash, such that a decay outside `U` is followed by the next one of its row a day later or more (`Apart`), its stamp is set or on its way (`Marked`), and a row still due has its last stamped decay a day behind (`Ripe`). A failing step moves the event in flight into `U`. Without a set-back each double decay closely follows a member of `U` of its own; with one it does so or is in `U` itself, hence the factor of two |

The daemon as a whole (`AttrdProofs`). Each step is the loop's, the scheduler's, both
at once (the process starts or dies) or a rebuild's (`AttrdSteps`); the lemmas about
one part are reused for its own steps, and what is new is that its invariant
survives the steps of the others:

| Theorem | Property | Argument |
|---|---|---|
| `AttrdTypeCorrect` | `AttrdTypeOK` | the invariants `LoopTypeOK` and `TickTypeOK` together; a rebuild writes values that some event holds or zero |
| `WritersAreNeverRefused` | `NoWriterIsRefused` | `SeqInv` and `CounterAhead` together; maintenance runs are never broker runs, so neither allocator sees the events of the other. Needs `EveryRunIsTracked` for the loop's half |
| `CoherentUntilOverlap` | `CoherentUnlessOverlapped` | as long as two writers have never been at work together, whoever writes finds no snapshot of another that it could make stale |
| `NonTargetsStayCoherent` | `NonTargetsCoherent` | attribute by attribute: the scheduler writes only targets, so for the others the snapshot and the sum of the deltas are the loop's alone (`Kept`) |
| `EarlyDecaysAreRebuilt` | `EarlyDecayNeedsRebuild` | the invariant of `RowsDecayOnceADay`; when a rebuild clears the stamps, the last decay of each target joins `U` and the ones before it need no stamp any more, being a day behind that one already |

Machine numbers (`PrecisionProofs`). A double is an integral number of places of
2^-59 (`places`), sums are exact sums rounded to nearest, and rounding is monotone and
keeps whatever is a double already (`RoundedIs`):

| Theorem | Property | Argument |
|---|---|---|
| `PrecisionTypeCorrect` | `PrecisionTypeOK` | a stored value passed `validate`, so it is in range; what an intervention has added up starts as a move between two such values, and each revision moves it towards the weighted delta of the new row, a number of at most a half, and past it by a rounding at most, wherever other interventions have moved the attribute in between (`ActualStep`) |
| `DecaysAreAccepted` | `DecayIsNeverRefused` | the rounded sum of a value in range and a decay step is at most the value, and below zero the clamp is exact, not by `EPSILON` |
| `UnitsStayFaithful` | `UnitsAreFaithful` | needs `Lifetime`. `FaithInv`, explained below. As the error is far below a unit, f64 and units choose the same clamp and cap unless the exact sum stands at an edge (`PlanOff`) |
| `RefusedAtTheEdge` | `RefusedOnlyAtTheEdge` | needs `Lifetime`; from `FaithInv`: a sum that is off by far less than a unit is out of range only where it stands for exactly 0 or 1 |
| `SeqsGrow` | `SeqsGrowUntilPanic` | the counter is never below the last logged seq, saturates at the largest, and the UNIQUE key refuses the repetition |

`FaithInv` bounds the rounding errors of all histories. The error of the value alone
is not inductive: a revision takes back what the log says its intervention did, and
with it the errors in that sum, which may be as old as the intervention. So the errors
are added up: by how much the value is too high and by how much the interventions
are too low, and the other way round, each sum at most `Slack(k)` = 96 k places after
`k` events (`Faithful`). An event moves the value and its own intervention by the same
amount, which cancels, but for three roundings: 32 places for a delta, 32 for the sum
that `plan_for` takes and 32 for the log (`AimedArith`, in 400ths of a place); at an
edge the value has no error and the intervention takes it all. A decay or an
event of no intervention moves the value alone (`PlainArith`). From the two sums
follows a bound on the value, on each intervention and on their difference
(`FaithfulOff`), which is what the next revision starts from. The sum over the
interventions, however many, is a number of marks (`Marks`, `Within`), because a
recursive sum is out of the prover's reach; one event changes one row of them
(`WithinChange`). 96 places are less than the 128 of an `EPSILON`, which is
the bound `UnitsAreFaithful` states; the literal of the exact units adds at most 32.

Every safety property of a passing run is stated by one of these theorems. Only
model-checked:

- liveness, which is reasoning under fairness and out of the prover's reach;
- the runs that expect a violation, of course.

The day, clock, restart and set-back bounds of the runs do not limit the proofs:
`DecaySeqsAreFresh` holds with any number of set-backs, `RowsDecayOnceADay` with any
number of failures.

## Not modelled

- f64 and i32 in the composed modules: they compute in exact units and unbounded
  seqs. `UnitsStayFaithful` justifies that for one attribute at a time, and
  `numeric` shows where it ends: at the edges of the range and at the largest seq.
- `notify-stream`, pool, migrations runner, error type: no state of their own, or
  pure I/O. `FakeClock` is a test double.
- an NTP step while a tick runs: a tick reads the clock once, when it begins.
- evidence and audit payload contents, apart from the intervention id and the
  event id; string conversions of the enumerations.
- scopes other than `global`, which do not exist in this version.
- the broker's side of the audit queue beyond rejecting an event.

## Plan

1. Core, done: `Tuning`, `Dispatcher`, `Counters`, `Store`, `RunLoop`, `Decay`,
   `Attrd`, the runs above and the theorems above.
2. Extensions, done: the contract `Inbox` with `RunLoop` as its refinement, proved;
   `Binary64` and `Precision` for rounding, the `EPSILON` comparison and the
   overflow of `Counter::next`; a clock that is set back.
3. Prove, done: all safety properties of the passing runs: delivery and its contract,
   the sums over the log, seqs, replay, revisions, the bound on early decays, the
   composition, the range of the machine numbers and the bound on their error.
