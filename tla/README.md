# Volengine: a TLA+ development

Volengine turns the option quotes of one or several markets into implied-volatility
surfaces and the risk of a small book, in real time.  It is one Python process: an asyncio
event loop, and one worker thread per calibrating producer.  This directory holds TLA+
modules of the parts of it whose correctness depends on order, interleaving, interruption
or memory, the TLC runs that check them on small instances, and TLAPS proofs of what
matters most for every instance.

Paths below are relative to `src/src/volengine/` unless they start with `src/`.

## 1. The system

Quotes flow one way, and each arrow is a crossing between two parts of the program:

    provider --stream--> IngestStream --> QuoteChain --> BuildSnapshot
        --(SnapshotReady, bus)--> calibration runner --(worker thread)--> CalibrateOnSnapshot
        --(SurfaceCalibrated, bus)--> risk runner --> surface cache --> report --> sinks

| part (code) | state | operations | who calls it |
|---|---|---|---|
| Event bus, runners (`platform/bus.py`, `runner.py`) | per subscription a slot and an `asyncio.Event`; counters | `publish`, `put`, `receive`, the runner's loop | ingestion, heartbeat, handlers |
| Quote chain (`market_data/domain/quote_chain.py`) | last observation per contract, live set, forwards, baseline mids | `apply`, `set_live_instruments`, `reset_move_baseline`, `stats`, `view` | IngestStream, BuildSnapshot |
| Snapshot policy (`market_data/domain/snapshot_policy.py`) | none | `is_due`, `should_emit`, `assess` | BuildSnapshot |
| Ingestion (`market_data/application/ingest_stream.py`, `build_snapshot.py`) | its own live set, last emission, sequence | `run`, `rediscover`, `build` | stream task, rediscovery task, heartbeat task -- all three on one chain |
| Translation (`market_data/application/acl.py`) | none | `reconcile_exchange_instant`, `to_market_snapshot` | BuildSnapshot |
| Calibration cycle (`parametric_pricing/application/`) | warm start per expiry, last good surface | `handle` | a calibration runner, on the producer's worker thread |
| Neural surface (`neural_surface/`) | replay buffer, network, last published surface | `handle` | the same |
| Risk desk (`risk/`) | last surface per producer | `accept`, `latest`, `compute` | a risk runner |
| Pipeline (`entrypoints/pipeline.py`, `platform/executors.py`) | tasks, in-flight count, idle and goal events, pools | `run`, `_settle`, `_tracked`, `_ingest_all`, `shutdown` | the command line |
| Deribit session (`market_data/adapters/deribit_ws.py`, `deribit_rest.py`) | universe, socket, request table, backoff | `discover`, `stream`, `close` | the stream task and the rediscovery task, on one socket |
| Recording and replay (`market_data/adapters/recorder.py`, `recorded.py`) | the lines of a file, the replay clock | `discover`, `stream`, `close` around another feed; `open_recording` | ingestion, in two processes one after the other |
| Synthetic and constant feeds (`market_data/adapters/synthetic.py`, `constant.py`) | the invented chain | `discover`, `stream` | ingestion |
| Calibrators (`parametric_pricing/adapters/scipy_calibrator.py`, `jax_calibrator.py`) | none: warm starts are handed to them | `calibrate` | the calibration cycle |
| Learner, pricing, slice laws (`neural_surface/adapters/`, `shared_kernel/`) | network weights, or none | `update`, closed forms | the cycles |
| Admissibility, forwards, quotes (`market_data/domain/`) and the two translations (`*/application/acl.py`) | none | `flag_quote`, `flag_slice`, `forward_from_parity`, `to_calibration_task`, `to_training_samples` | snapshot, cycles |
| Producer comparison (`risk/application/compare_producers.py`, `risk/domain/comparison.py`) | none | `surface_distance`, `pair_lines` | the risk handler |
| Configuration and command line (`entrypoints/config.py`, `cli.py`) | what has been opened so far | `run`, `report`, `record`, `replay` | the user |
| Report writers, metrics | files | formatting | the risk handler |

Where it is hard:

* **Interleaving without threads.**  Every await of the event loop is a point at which the
  stream, a poll, a heartbeat, a cancellation or another market's handler may run.  The
  bus's flag and slot, the two copies of the live universe, and the idle event of
  `_settle` each hold across such points or do not.
* **Conflation.**  A mailbox keeps one event.  Losing the older one is the design; losing
  the newest, losing one uncounted, or reordering two would look like a quiet market.
* **Memory across cycles.**  Warm starts, the last good surface, the cache, and the report's
  verdict all survive cycles that are refused, raise, or are cancelled half-way, and a
  refusal republishes an *old* surface into all that.
* **Two clocks.**  Snapshots carry the venue's instant when it is near ours and ours when
  it is not; ages, refusals and expiries are compared across the two.
* **A venue.**  A socket breaks, freezes or refuses; requests are numbered in one step and leave
  in another, from two tasks; the universe changes while the session is being reopened.
* **A file.**  A recorder may be killed inside a line; what it wrote must be what was seen.
* **Ending.**  A run ends by exhaustion (and must drain), by a goal or a duration (and
  must not), by an exception or by a cancellation, with fits running on threads that
  cannot be interrupted; the same pipeline may then run again.

What makes each part correct, in a sentence: the *bus* never loses a wake-up nor an event
uncounted, and delivers only the newest; *ingestion* keeps its copies of the universe equal,
forgets dead contracts, and publishes neither too often, nor too rarely, nor blind to a
drift; the *cycle* keeps a whole memory, its order, and is silent for no longer than the clocks'
tolerance; the *desk*
never goes back to an older surface and never mistakes a republication for news; the
*pipeline* drains exactly what it should, and never waits for what an earlier run left; the *neural* cycle
learns from each snapshot once and never keeps a diverged network; a *session* ends up
subscribed to what was discovered; a *replay* publishes what was recorded, in order.

`PROJECT.json` lists every component with its status, and every hazard with its line and
the properties aimed at it.

## 2. The modules

    LatestValue  <-- refined by --  ConflatingBus
    SnapshotPolicy <- QuoteChain <- MarketIngestion
    ProducerContract  <-- refined by --  CalibrationCycle <- RiskDesk
    ProducerContract  <-- refined by --  Training -> ReplayBuffer
    Pipeline    DeribitSession    Recording    Startup    Fitting
    QuoteRules <- FittedQuotes <- SyntheticFeed <- Rules -> SurfaceComparison
    Selection <- SurfaceComparison    Selection <- Startup

(`X <- Y` and `Y -> X`: Y EXTENDS X.)  The proofs about `X` are in `X_proofs`; `MCX` holds the
instance of `X` where a configuration alone cannot.  Definitions named *mutants* in
`PROJECT.json` (`Peek`, `NeverPruned`, `LatestId`, ...) are plausible wrong versions of the
definition that follows them, and are used by nothing else: a property is only worth having if
it tells the two apart.

### ConflatingBus, LatestValue

One `_Mailbox` per subscriber (`slot`, `ready`), one runner (`pc`, `held`), the counters of
the bus and the runner.  A step is what one task does between two awaits: `Publish` is the
whole `publish()`, which puts into every mailbox of the topic; `Park` and `Take` are the two
sides of the await in `receive()`; raising the flag moves a parked runner to `woken`, and
other steps -- more publications, a cancellation -- may come before it resumes.  `Cancel`
reaches a runner in each of those places, and `Restart` is the next `run()` on the same
mailbox.  Events of a topic are represented by their rank, which is all that newest,
oldest and dropped need.

`LatestValue` is the promise (ADR-003): one event owed at most, always the newest.
`ConflatingBus!Conflates` says the bus implements it with `owed <- slot`.

### SnapshotPolicy, QuoteChain, MarketIngestion

The chain's four maps; the timing rules; and the three tasks that share them.  A mid is an
integer, 0 meaning the observation has no usable one, and a threshold is a fraction, so that
`max_relative_move_since_baseline` is exact.  `Build` is the whole of `build()`: timing,
statistics (whose `ValueError` nobody catches, hence `phase = "failed"`), coverage, and only
then the state.  `Adopt` is what `run()` and `rediscover()` share: their own live set, then
the chain's (which may raise in between), then the announcement.  `rediscover()` awaits the
venue *before* it compares, so comparing and adopting are one step, and it may come at any
moment.  `sent` is a history variable, the mids consumers last received, from which
`DriftIsSeen` is stated without mentioning the baseline that implements it.

### DeribitSession

The feed in front of ingestion.  Two tasks share a socket and a request table: the stream
(`Connect`, `Sent`, `Receive`, `LeaveSession`, `Wake`: opening, subscribing in batches, relaying,
backing off) and the rediscovery (`AskInventory`, `InventoryAnswered`, `Applied`, `ApplyLost`).
`_send()` numbers a request and remembers it *before* it waits for the send lock, so numbering
and leaving are separate steps and frames may leave out of order; `Number` is the first half,
`Sent` and `Applied` the second, each with everything its task does up to the next await.  The
table is renumbered on every socket, while `discover()` may hold a request numbered on the one
before: hence `frame[t].socket`.  A socket is `up`, `half` (open, passing nothing, until the
silence timeout) or `down`.  The venue -- what it lists, what it sends on, its refusals -- and the
network are external.  What is inside a ticker is left out.

### Recording

Two processes, one after the other, and the file between them.  `Tap` writes an update and yields
it, `Take` is the loop taking it, and `KillWriting` a kill inside a write, which leaves a
torn last line; `Stop` ends the session anywhere else.  `Open` is `open_recording()`, `ReadLine` and
`ReadEnd` the replaying stream with its clock.  The chain at either end is reduced to its live
set and latest quotes, which is what a replay promises to reproduce.

### CalibrationCycle

One producer: the venue stamp and our clock, the snapshot mailbox, the worker (`task`), the
two halves of `CalibrationState` (`warm`, `lastGood`), and the mailbox towards Risk.  A
slice is its expiry.  What happens to a slice numerically is abstracted to three nested
choices: which ones invert (`attempted`), which fits are accepted (`accepted`), which
evaluate on the grid (`rows`); `accepted = {}` is also a `CalibrationError`.  `FinishFit` is
the rest of `handle()` -- status, memory, what is published or refused -- and the publication
of its result; `FinishUnheard` is the same cycle when its run was cancelled, for
`shutdown()` waits for the thread, and the memory moves although nobody publishes.  A warm
start is represented by the snapshot it was fitted on.  `data`, `quoted` and `slices` are
ghosts.  A surface calibrated before the instant it describes is refused by its own contract, out
of `handle()`: `Say` then says nothing, and `Remember` leaves the memory as it was.

### Fitting

What `CalibrationCycle` leaves to a choice: the inside of `calibrate()`, for both calibrators.
A search is any answer its bounds allow, and of the five SVI parameters only the two a thin slice
may not move (`m`, `sigma`) are kept, as a shape.  `ScipyFirst` and `ScipyRetry` go slice by slice;
`JaxHot`, `JaxAllHealthy`, `JaxRetry` and `JaxCold` search the whole padded surface at once, so
that one slice's bad warm fit sends every slice to a second search, of which `Kept` says what
each slice keeps.  `Judge` is the acceptance rule and the pruning of warm starts, and closes the
loop: the next cycle starts from what this one left.

### QuoteRules, FittedQuotes, SyntheticFeed, SurfaceComparison, Rules

The pure rules, as functions.  `QuoteRules`: the flags of a slice and the parity forward with its
cross-check.  `FittedQuotes`: from the book of an expiry to the quotes a snapshot carries, and
through the two translations each producing context has its own copy of.  `SyntheticFeed`: the
sessions the synthetic and constant feeds invent -- chain, order, stamps, sizes, and each kind of junk;
a draw of the generator is any its range allows (`SizesDrawn`: from half the configured size to one and
a half, on each side).  `SurfaceComparison`: how a surface is read between
its nodes, the distance of two surfaces, and the pairing of two reports.  `Rules` draws one input
of some rule and never changes it, so each invariant is a statement about every input of `Inputs`,
a constant of which it assumes the types alone (`RulesAssumption`); the references it compares with
are written without looking at neighbours, sorting or axes.  `MCRules` gives `Inputs` every input of a
few shapes.

So that they can be reasoned about, what the code does by sorting is said of the sorted order, not of a
way to it: two strikes are `Neighbours` when no third lies between, the value at a rank is the one that
so many lie below (`Ranked`), and `InOrder` is the increasing sequence of a set.  The loops over a
sequence, `PairLines` and `Where` (in `Selection`), are recursive functions on how much of it was read.

### RiskDesk

Risk behind that producer.  `TakeSurface` is the whole report handler -- translation, cache,
freshness, valuation -- which contains no await.  What a position is worth is abstracted to
whether it is valued.

### ProducerContract, Training, ReplayBuffer

Two producers of surfaces run side by side so as to be compared, which only means something
if they react to everything but numbers in the same way.  `ProducerContract` is that way: a
snapshot waiting, one at work, each answered by its own surface or refused with the last good
one behind, in order; or raised upon, and then nothing is said and nothing has changed; or abandoned by
the end of a run, which may leave in the producer's memory a surface nobody was sent.  Both producers
are shown to implement it.

`ReplayBuffer` holds the buffer's operations as functions of a buffer: `Add` and its
eviction by venue instant, `Extend` one sample after the other, `Prune` to what is `Recent`, and,
for `sample`, the set of draws that its docstring promises (`Draws`) rather than one shuffle.  `Training` is the neural producer:
`Begin` is `handle()` up to the call of the learner -- prune, decide on a restart, draw,
extend, in that order -- and `FinishStep` everything after it, with one outcome per exit:
the learner raises, the network does not evaluate on the gate's mesh, it does but the gate's own
formula overflows and raises out of `handle()`, it fails the gate, it does not evaluate on the
published axes (or there is none), or it is clean -- and then a surface calibrated before its instant
raises too (`Raises`).  A network is
the cycle that last trained it and the instant it was last trained from scratch (`root`);
`Update` and `TrainedNet` say which one a step continues from.
The engine's clock is monotone here, as `prune` demands.

### Pipeline

`run()` to `run()`.  The event loop's ready queue is modelled as it is, a FIFO, because
`_settle` counts on it: three sleeps are enough for a publication to reach the next handler
only because whatever was ready before runs first.  What the outside resumes (a source, a
fit's end) may run between any two queued tasks.  A mailbox is reduced to full or empty
(ConflatingBus has the details), `_published` and `_handled` to whether they moved since
`_settle` read them.  `pool` is the executor of each producer, one worker with a queue.
The end of a calibration handler and its runner's next `receive()` contain no await, so
`FitEnds` is one step.  `Finally` cancels every task, `Unwind` is one cancelled handler uncounting
itself, `Gathered` the end of the `gather()` that awaits them, `Return` that of `shutdown()`; the
mailboxes keep what they hold.  A thread cannot be cancelled: a fit whose handler is gone is a `stray`
on its producer's worker until `WorkerEnds`.  `Interrupt` may come wherever `run()` awaits.  In the
`gather()` of the `finally` itself it makes `run()` raise past `shutdown()`: the pools then stay up, a stray
runs on after `run()` is over, and the next run's fits queue behind it.

### Startup

What precedes `run()`: one of the four commands, a file, an environment, the flags that narrow
the file, and each refusal on the way, in the code's order (`StartupNext`) -- `CheckLimit`,
`OpenRecording`, `Configure`, `CheckMarkets`, `OpenSink`, `MakeWriter`, `BuildMarket`,
`BuildProducer`, `FinishMarket`, `Start`, `EndRun`.  A table of the file is absent, good or bad; an
adapter is its name; a position is its underlying.  Its proofs are in `Recording_proofs`, beside
those of the files it opens.

## 3. The runs

| run | instance | shows |
|---|---|---|
| `bus` | 2 topics, 3 subscribers, 2 events per topic | `NoLostWakeup`, `Conflates` (refinement), `Delivered` (liveness) |
| `ingestion` | 2 contracts + 1 of another underlying, mids 0, 4, 5, 6, clock to 7 | `ChainForgetsTheDead`, `OneUniverse`, `StatsAlwaysConstructible`, `BoundedSilence`, `DriftIsSeen` |
| `session` | 2 symbols + 1 of another underlying, batches of 1, 1 rediscovery, 2 faults | `UniverseIsSubscribed`, `SettledByItsOwnReply`, `SessionRecovers` and `CloseEndsTheStream` (liveness) |
| `recording` | 2 contracts, 5 lines, clock to 3 | `WrittenBeforeSeen`, `ReplayedChainIsTheSessions`, `EveryWholeLineReplays` (liveness) |
| `rules` | slices on strikes 1, 2, 4, 5 with prices 0..4; snapshots of two expiries; invented sessions of 1 to 3 expiries and up to 2 cycles with one spoiled quote and sizes drawn at both ends of their range; pairs of grids; books of up to 4 positions | `FlagsTellWhatIsWrong`, `CrosscheckIgnoresAMinority`, `SameQuotesForEveryProducer`, `SameSurfaceSameNumbers`, `PairsAreTheCommonBook` |
| `calibration` | 2 expiries, clock to 2, venue up to 2 ahead against a tolerance of 1, cancellations | `MemoryIsWhole`, `CyclesInOrder`, `SilenceIsBounded`, `KeepsContract` (refinement) |
| `fitting` | 2 expiries, surfaces of 2 slices, errors of 1 or 2 against a limit of 1, both calibrators | `CalmSliceKeepsItsOptimum`, `ShapeNeedsQuotes` |
| `training` | 2 cells of capacity 1, ages 0 and 2 against a horizon of 1, up to 2 quotes, draws of 1, restarts after 1, clock to 2, venue up to 1 ahead, cancellations | `ReplayIsHistory`, `ScheduleIsHonest`, `NothingBrokenIsKept`, `KeepsContract` (refinement) |
| `risk_desk` | 1 expiry, clock to 3, venue up to 1 ahead, 2 positions | `RecoveryNeedsNewSurface`, `CacheMovesForward`, `EverySnapshotAnswered` (liveness) |
| `pipeline` | three wirings: 1 market, 2 producers, goal of 2; 2 markets on 1 producer under a duration; 1 market with timers, a goal of 1 and a duration | `GoalIsExact`, `SettleWaitsForItsOwn`, `SettledMeansDrained`, `ExhaustedRunEnds` (liveness) |
| `startup` | the 4 commands over two good files and every file one table or value away from them, with each flag | `EveryPositionIsValued`, `RecordingIsOneMarket`, `ComparedIsWhatRuns` |
| `orphan_feed` | 2 markets, one of which fails | the disagreement of section 5 |

Bounds, and why they are enough:

* `MaxEvents` (bus).  A mailbox distinguishes no event, one event, and one replaced by
  another.  Two events per topic reach a drop, a drop while a handler runs, and a
  cancellation between.  Runners only interact through topics, and two topics with one and two
  subscribers show both sharing and independence.
* `MaxTime` (ingestion).  Cadence 2, heartbeat 3, so 7 ticks contain two full heartbeat
  periods and a snapshot between.  One contract expires at 3, inside the bound, one outside
  it.  With a threshold of one half, 4 to 5 and 5 to 6 are no moves and 4 to 6 is one: the
  drift that only a baseline sees takes two updates.
* `BatchSize` 1 (session) makes a universe of two take two requests, so a rediscovery, a refusal
  or a break may fall between two batches.  `MaxFaults` 2 loses a second socket while the first is
  being replaced; `MaxPolls` 1 is one universe changed under a session.  `MaxId` 9 and `MaxInbox` 1
  only keep the space finite, `MaxId` beyond what those faults and that poll can use: every request
  follows a connection, a poll, a batch or a test, and tests are faults.  `FloatExponent` 9 lies beyond
  `MaxFaults` as 1023 lies beyond any ordinary outage; section 5 says what happens at the limit.
* `MaxLines` 5 (recording) holds a header, three quotes of two contracts and a second header or
  a torn line; `MaxTime` 3 distinguishes a quote from its predecessor and its successor.
* The rules are local: a flag looks at two or three strikes, so four of them, unevenly spaced,
  contain every pattern of neighbours and one strike apart; a median is of one, two, three or four
  strikes; a grid has one to three nodes per axis, and a point of it lies at, between and beyond those of
  the other.
* `MaxTime` (calibration, risk).  The clock is what separates snapshots -- at most one per
  instant, the cadence being positive -- so 2 gives three snapshots, one remembered, one fitting and
  one waiting, and 3 (`risk_desk`) a fourth, rejected by conflation.  `MaxSkew`, `Warn` and `Reject` lie
  inside the bound, each with values on both sides.
* `MaxAhead` 2 (calibration) is on both sides of `MaxSkew` 1: a venue ahead by the tolerance is believed,
  and its surface refused if the fit takes no time; one ahead by twice that is not believed.  A venue
  behind by either also occurs.  `MaxAhead` 1 (training, risk) is the first of these.
* Two slices (fitting) are a failing one and its neighbour; an expiry may leave and come back over
  any number of cycles, which nothing bounds.
* `Capacity` 1 with two quotes in one snapshot (training) evicts within a snapshot and
  between snapshots, and a quote of age 2 that arrives after one of age 0 is the oldest
  though it came last.  `ReplaySize` 1 makes a draw choose between two cells.  Three
  instants see a first training, a restart that fails, and the same one, still due, that succeeds.
* A goal of 2 with two producers reaches a goal met with another report queued behind it; one
  report at a time, one goal of 1 would not.  Two markets on one worker make fits queue.  The
  heartbeats and rediscoveries of the markets are one `timers`: only whether one of them raised
  matters to `run()`.  Nothing else bounds `Pipeline`: its state space is finite, and its runs follow each
  other for ever.
* A file of `startup` differs from a good one in one place: the checks are made in sequence and the
  first that fails refuses, so two defects show what the first does.

Deadlock is checked on the bus and the pipeline, where some step is always possible.  The other
configurations say `CHECK_DEADLOCK FALSE`: those with a clock stop when it reaches its bound, an
ingestion that failed, a stream that ended, a recording replayed, and a command that exited really are
over, and a slice's search ends when there is no surface to start from.

Fairness, and why the code justifies it:

* asyncio runs every ready task, so the steps of a runner, of `_settle`, of `run()` and of the
  session's stream are weakly fair;
* the connector, a send, the backoff's sleeper and a REST call return or raise (each has a timeout
  or a bound in the code), so `StreamStep`, `Sent(FALSE)`, `Applied(FALSE)`, `ApplyLost` and the
  inventory's answer are weakly fair;
* a replay reads a file, so it reads on;
* a fit is an optimisation with a bounded number of iterations on a thread nobody kills, so
  its end is weakly fair, and so is `shutdown(wait=True)` behind it;
* nothing else is fair.  No quote has to come, no contract to be listed, no fault to occur or
  stop, no stream to end, no run to start, nobody to close or cancel.  `EverySnapshotAnswered`
  therefore says *answered, or replaced by a fresher one that is*, `SessionRecovers` *replaced, or the
  stream is over*, and `ExhaustedRunEnds` starts from streams that have ended by themselves -- those of
  an earlier run included, for an orphan (`orphan_feed`) that keeps publishing keeps `_settle` from
  ever settling.

## 4. The proofs

For every value of the constants, under the assumptions named in the modules
(`BusAssumption`, `PolicyAssumption`, `ChainAssumption`, `CycleAssumption`,
`BufferAssumption`, `TrainingAssumption`, `DeskAssumption`, `FittingAssumption`,
`SessionAssumption`, `RecordingAssumption`, `StartupAssumption`, `PipelineAssumption`,
`RulesAssumption`), which restate what the code's `__post_init__` validations demand and the types its
parsing gives -- a market of a file is a table with its keys, a recording names its market, the nodes of
a grid increase, what a feed draws lies in its range -- and that the markets, producers and symbols are
finitely many.

| module | proved | along |
|---|---|---|
| `ConflatingBus_proofs` | `NeverCrashes`, `NoLostWakeup`, `NothingUncounted`, and that the bus implements `LatestValue` | `BusInv`: the flag is up exactly when the slot is full, the slot is the newest of its topic, the runner holds an event exactly while its handler runs.  `NoLostWakeup` alone is not inductive: a publication to a calling runner relies on the flag. |
| `MarketIngestion_proofs` | type correctness, `ChainForgetsTheDead`, `OneUniverse`, `StatsAlwaysConstructible`, `BoundedSilence`, `DriftIsSeen` | `IngestInv`: adds that what consumers hold of a contract is its baseline, and that the last heartbeat came too soon after the last emission to emit.  `StatsAlwaysConstructible` is an argument on cardinalities from `ChainForgetsTheDead`. |
| `RiskDesk_proofs` | of the calibration cycle: type correctness, `MemoryIsWhole`, `CyclesInOrder`, `SilenceIsBounded`, `KeepsContract` | `CycleInv`: adds that nothing waits that was not published, and that no snapshot describes an instant more than `MaxSkew` after it was taken (`AheadByTolerance`), nor, with a venue never ahead, an instant to come.  The first bounds the silences; by the second, a cycle only raises when a venue may be ahead, as the contract is told (`MayRaise`). |
| | of the desk behind it: type correctness, `CacheMovesForward`, `RecoveryNeedsNewSurface` | `DeskInv`: adds that two surfaces of one fit describe one instant, wherever each of them waits, and that a rejected surface stays rejected, its age only growing. |
| `Training_proofs` | `ScheduleIsHonest`, `NothingBrokenIsKept`, `KeepsContract` | `WorkInv`: adds the types of everything but the buffer, and that network, work and mailbox are ordered by the snapshots they come from.  It mentions no buffer, so these hold whatever the buffer remembers. |
| | type correctness, `ReplayIsHistory`, `BufferBounded` | `BufferInv`: each cell holds well-formed samples of its own, at most `Capacity` of them, and what is remembered was published before the snapshot that still waits to be learned from.  `Extend` adds a snapshot's samples one after the other; that it keeps this is an induction over them, carried by the set of the prefixes that do (`PrefixInduction`). |
| `Rules_proofs` | of `Rules`: `FlagsTellWhatIsWrong` | of the arbitrages there are, one spans the least, and it lies on neighbours: a spread or a butterfly over strikes with another between them splits into two, one of which is as wrong.  A stream has exactly the legs of every cycle, and of each leg one of the code's cases spoils the book in one way, which the thresholds tell: an honest side is at least half the configured size, so a minimum of no more than that half never takes it for junk. |
| | `CrosscheckIgnoresAMinority` | fewer than half the strikes lie below what most agree on and fewer than half above, so both middle ranks fall on it. |
| | `SameQuotesForEveryProducer` | both translations of a slice choose the same legs (`BothChoose`) and weigh them alike (`BothWeigh`); a weight is a product, positive when its factors are. |
| | `SameSurfaceSameNumbers` | inside a grid, the mean of the nodes that `Bracket` weights is the value asked for (`BracketReads`), and a bilinear law passes through such means, first along a row and then between two (`TotalVarianceReads`); so the tenor, the forward and the moneyness a view reads are those of the law over its unit of time, whatever the nodes (`TenorReads`, `ForwardReads`, `PlaceReads`); the tenor before the first node too.  Equality is of fractions, by cancelling. |
| | `PairsAreTheCommonBook` | by induction on how much of the book was read: what is left of the challenger's lines is a suffix that begins after the last pair, and a line that both value is still in it, for equal positions are both or neither in a report. |
| | of `Fitting`: `CalmSliceKeepsItsOptimum`, `ShapeNeedsQuotes` | every attempt, answer and warm start is a fit that the pinning of its slice allows from the start it was given; at each stage of each calibrator, what is still to be decided leaves a healthy warm fit alone. |
| `DeribitSession_proofs` | type correctness, `SettledByItsOwnReply` | `RepliesInv`: the number on every reply received, and on every request either task has still to send on the *live* socket, was given out by this socket and stands for that request or, once settled, for none.  The property alone is not inductive: it says nothing of a frame that has not left. |
| | `UniverseIsSubscribed` | `CoverageInv`: on a session that is open or opening, unless a refusal is among what came in, what the venue does not send is still owed: by the batch the opening sends and those it has left, or by the births discover() has on the *live* socket.  And every reply not yet read answers a request still pending and no other has its number, so that a refusal is never dropped unread. |
| `Recording_proofs` | type correctness, `WrittenBeforeSeen`, `ReplayedChainIsTheSessions` | `RecordInv`: the quotes of the file are those consumed and then the one held, if any; until a rediscovery moves the universe the session's chain is what the first header and the quotes taken make of it; and the replayed chain is the same of the header and the lines read. |
| | of `Startup`, before the session: `EveryPositionIsValued`, `RecordingIsOneMarket`, `ComparedIsWhatRuns`, `SinkIsReleased` | `StartupInv`: the flags narrow the file and nothing else, and a replay keeps the market of its header; the loops built are those of the first markets, each of another id; the producers are theirs, those of the market under way the first few names in order; and the comparisons are those of the markets done.  `RecordingIsOneMarket` needs that two markets never share an id, `ComparedIsWhatRuns` that no producer of a market exists before the market is built.  `SinkIsReleased` has an invariant of its own, `SinkInv`: what has an exit status is over. |
| `Pipeline_proofs` | `GoalIsExact` | `RunInv`: whatever says that the goal is met -- its flag, its task in the queue, its task done, a run ended by it -- says so truly; and from the `finally` on the queue is empty, no runner is resumed and every source is silent, so that only an orphaned stream publishes, and it wakes nobody. |
| | `SettledMeansDrained`, `SettleWaitsForItsOwn` | `DrainInv`: a runner with something to do is in the queue and a parked one has an empty mailbox; the jobs of the pools are exactly the fits the flag counts; `run()` is in the queue once, or not at all while it waits for somebody; and while nothing has moved since `_settle` read its counters, no runner is queued behind `run()`, so that its next turn comes after everything that could have moved. |

Each theorem of the form `Spec => []Inv` is `Init => IInv`, one lemma per action for
`IInv /\ [Next]_vars => IInv'`, and `IInv => Inv`; action properties follow from the
invariant and one step.  TLC evaluates the properties these theorems are about, and the
inductive invariants were evaluated on the same bounds, so each has been seen to hold, and each
property to fail on a mutant, before it was proved.

Only model-checked:

* liveness, for fairness and ENABLED are beyond the prover: `Delivered`, `EverySnapshotAnswered`,
  `ExhaustedRunEnds`, `SessionRecovers`, `CloseEndsTheStream` and `EveryWholeLineReplays`.

Every other property of a passing run, safety, action property or refinement, is stated by a theorem.

What is proved by induction over data needed a detour, for the library's induction theorems take an
operator as a parameter, which no installed prover instantiates.  The recursion is a function
(`Extend`, `Recent`, `QuotesAlong`, `Where`, `PairLines`), and its facts hold of a set of prefixes, or of
numbers, that a least counterexample would have to leave (`PrefixInduction`); that such a function
exists is `RecursionExists` of `Rules_proofs`, by the same induction.  What a theorem about a rule says
is bounded by what it assumes of its input: prices and times are integers, `TellJunkApart` is a
condition on thresholds that the code leaves to configuration, and what happens beyond the nodes,
where a forward and a variance are extrapolated flat and so depend on the grid, is outside
`SameSurfaceSameNumbers`, but for the tenor before the first.

Stated in the modules and proved, but not among the runs' properties:
`NeverCrashes`, `NothingUncounted`, `CadenceRespected`, `BufferBounded`, `SinkIsReleased` and the
type invariants.

## 5. Where code and documentation disagree

One has a run, `orphan_feed`: when one market's stream raises, the others' outlive `run()`
(`pipeline.py:1056`), against the comment at `pipeline.py:1007`.

The others are stated in the modules under the name given, each refuted by TLC on the instance given,
or were met while reading:

* `NeverSilent` in `CalibrationCycle`, on the instance of `calibration` itself -- a venue ahead by at most
  `max_skew_seconds` and by more than the fit took makes `CalibratedSurface` refuse the fit,
  `handle()` raises, and the cycle says nothing, against `calibrate_on_snapshot.py:146`, "Never an
  empty tuple".  What is left of that promise is `SilenceIsBounded`.  `TrainOnSnapshot.handle` does
  the same (`train_on_snapshot.py:243`, "Never empty").
* A second cancellation of `run()`, in the `gather()` of its `finally` (`pipeline.py:1013`), skips
  `shutdown()` at 1014: a fit under way outlives `run()` and may write its producer's memory afterwards,
  against `pipeline.py:1141`, "`run` shuts every pool down on its way out, as it must -- a thread left
  alive outlives the session that owned it".  In `Pipeline` that is a state with `main = "over"`
  and a `stray`.
* `OkMeansComplete` in `CalibrationCycle`, on any instance of two expiries -- slices that do not
  invert or do not evaluate are in neither count of `_status`, so a surface can be `OK` without
  every slice, against `calibrate_on_snapshot.py:221`.
* `NormalMeansRecentData` in `RiskDesk`, once a feed can be silent for longer than `MaxSkew` -- a
  snapshot of it is stamped with the local instant, republished by the heartbeat, and reported
  `NORMAL`, against `freshness_policy.py:13` and `:32`.
* `EverySurfaceReported` in `RiskDesk`, on an instance whose first expiry the clock reaches (`Expiries = {2}`) -- the
  surface cannot be translated and nothing turns that into a report, against
  `risk/application/acl.py:54`.
* `OutageIsSurvived` in `DeribitSession`, with more faults than `FloatExponent + 1` -- `_backoff()`
  doubles an integer without bound and multiplies it into a float, so the 1025th failure in a row raises
  `OverflowError` out of the stream, against `_stream`'s docstring (`deribit_ws.py:521`), "on loss,
  back off and do it again until closed".
* `RefusedMeansTwo` in `Startup`, with `--calibrators x,x` -- the narrowing re-runs
  `CalibrationConfig.__post_init__`, whose `ValueError` nobody turns into a refusal: exit status 1,
  against `cli.py:62`.
* `durrleman_g` may raise `ValueError` on a network's smile (`invariants.py:440`), and
  `TrainOnSnapshot.handle` does not catch it, against `train_on_snapshot.py:236`, "never left to escape
  `handle`"; in `Training` that is the outcome `"overflowed"`.
* The comment at `synthetic.py:679` says that the junk decision costs the same draw whether or not it
  fires, or raising the rate would reshuffle the stream after it; when it fires, `rng.choice` of the
  kind of junk draws once more, so it does.
* Replaying a recording whose last line is torn ends in `ValueError`, after every whole line; headers
  in the middle of a file, which a rediscovery writes, are passed over, so a replayed universe is the first
  one; `record` empties an existing file before the feed behind it is built; a subscription the venue
  refused in part is not asked again until a reconnection.  None of these is promised otherwise
  anywhere; the properties are stated around them.

## 6. Plan

Modelled so far: everything of section 2.  Left, most important first:

1. The composite `latest()` of the surface cache, and `SnapshotPolicy.assess` with its
   `LOW_COVERAGE`.
2. A restart in `MarketIngestion`, and `DeribitSession` in front of it: what a second run finds in the
   chain, the mailboxes and the memories.
3. The arithmetic of the gate, on a lattice.

## 7. Not modelled, and why

Numerical work -- the optimisers' paths, gradient descent, Black-76, Durrleman's conditions, the
random paths of the synthetic feed and the Heston law -- is real arithmetic out of TLC's reach; to the
modules it is a choice among outcomes, each of which the code can produce.  Report writers,
formatting and metrics are observation.  The flags of admissibility are left open in
`QuoteChain`, where any published quote may or may not carry one, which is weaker than the code
and enough for what is claimed there; `FittedQuotes` has them.
