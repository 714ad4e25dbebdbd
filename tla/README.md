# Verification of gtfs-urbi

gtfs-urbi follows a bus fleet. A worker polls the Cittati positions, matches
them to the trips of a GTFS feed, measures how long the segments between stops
take, predicts arrivals, and prescribes exchanges of vehicles between delayed
trips; operators decide on the prescribed exchange groups in a console. This
directory holds TLA+ models of the parts of that system whose correctness
depends on order, interleaving, failure and time, the TLC configurations that
check them on small instances, and proofs checked by TLAPS.

Paths below are relative to `src/backend/app` unless they start otherwise.

## 1. The system

| Component | State | Operations | Talks to |
|---|---|---|---|
| Ingestion worker (`cli/run_cittati_worker.py`, `services/cittati_cycle.py`, `integrations/cittati/client.py`) | back-off, cached trip index and its date, token and its age, `audit.ingestion_runs` | loop, warm-up, cycle, authentication, shutdown | Cittati API, every table below |
| Vehicle state (`services/cittati_ingestion.py`, `temporal_map_matching.py`, `segment_crossing.py`) | one row per vehicle in `realtime.vehicle_current_states` | upsert, projection, three-sample match, boundary crossing, completed segments | GTFS tables, segment metrics |
| Segment metrics (`cittati_ingestion.py`, `segment_aggregation.py`, `historical_profile_refresh.py`) | observations (1 h), live rows, daily rows (7 days), profiles, refresh claim | expire, purge, insert, refresh, recover, daily profiles | vehicle state, estimates |
| ETA snapshots (`vehicle_eta_snapshot.py`, `planned_eta_snapshot.py`, `vehicle_eta.py`) | `vehicle_eta_snapshots`, enriched and planned | refresh once per five-minute window, fill in planned ones | estimates, prescription |
| Segment sample validation (`segment_sample_validation.py`) | none of its own: the accepted observations of the last hour | accept, or reject as too fast or as an outlier | segment metrics |
| Segment estimates (`segment_estimate_catalog.py`, `segment_estimate_query.py`, `segment_aggregation.py`) | none | choose live, historical or planned value, from a catalog (worker) or by query (API) | metrics, GTFS tables |
| Prescription and optimiser (`vehicle_swap_prescription.py`, `vehicle_swap_optimizer.py`) | none: computed from the newest snapshots | choose exchanges, cut them into groups with a content hash as key | ETA snapshots |
| Exchange decisions (`vehicle_swap_execution.py`, `api/v1/prescriptions.py`) | `audit.vehicle_swap_decisions`, `..._events` | open, claim, execute, reject, list | prescription, console |
| GTFS static ingestion (`gtfs_static_ingestion.py`, `monotonic_stop_projection.py`) | versioned feeds, trips, stop times, shape segments | download, deduplicate by hash, project stops | trip index |
| Active trip index (`active_trip_index.py`, `trip_correlation.py`) | in memory, per service date | load, correlate | worker |
| Schedule contexts (`vehicle_schedule_context.py`, `api/v1/vehicles.py`) | cached answer, its service date and time, an `asyncio.Lock` | ask the source, answer from the cache, answer stale after an error | Cittati API, console |
| Health, read API, console (`operational_health.py`, `api/`, `src/frontend`) | none kept | read | all |

A cycle of the worker is two transactions: the first records the run, the
vehicle rows, the observations, metrics and profiles; the second the ETA
snapshots. The API serves requests concurrently with the worker and with each
other, one transaction each, at READ COMMITTED and without row locks on reads.

**Hard behaviours, and what makes each component right.**

- *Decisions*: handlers load a row, await a long query and write; the row, the
  audit trail and the answers must agree for every interleaving, and only legal
  transitions may be audited.
- *Vehicle state*: the source repeats, delays and loses samples, positions
  jitter, trips and feeds change under a moving vehicle. The window a match
  uses must be contiguous, and segments must be measured once, in order, and
  never across a reset.
- *Segment metrics*: rows are recomputed from observations that expire, purged,
  recovered, and combined once a day; nothing counted may be lost and no day
  may be missed.
- *Worker*: any step may fail; tokens die early; midnight, crashes and SIGTERM
  come at any point. Retries back off, the index fits the date, and the
  system recovers by itself once its environment does.
- *ETA snapshots*: two writers of one table in one transaction, one of them once
  per window; a matched vehicle must get an ETA of the trip it runs whatever
  trips it changes and whichever cycles fail, and neither writer may undo the
  other.
- *Feeds*: runs of the CLI overlap, fail and crash; identical content is not
  stored twice, the feed downloaded last wins even if it is not committed last,
  and an index read by two statements is of it, or at least never falls behind.
- *Schedule contexts*: requests wait for one another across midnight, the age
  limit and failures of the source.
- *Validation*: what is accepted decides what will be accepted; a lasting change
  of traffic must not lock a segment to its old pace.
- *Algorithms* (optimiser, stop projection, validation, estimates): optimal or
  equal to a reference definition on bounded inputs.

`PROJECT.json` lists each hazard at its line with the properties aimed at it.

## 2. Modules

| Module | Models | Checked by | Proved in |
|---|---|---|---|
| `SwapDecisionLog` | what the decisions promise: an append-only log per group | as a PROPERTY of `SwapDecision` | `SwapDecisionProofs` (`Refinement`) |
| `SwapDecision` | `update_exchange_group_decision` and both endpoints | `swap_decision`, `final_decision`, `actor_of_decision` | `SwapDecisionProofs` |
| `VehicleWindow` (+ `MCVehicleWindow`) | one vehicle's row under ingestion cycles | `vehicle_window`, `feed_change` | `VehicleWindowProofs` |
| `SegmentMetrics` (+ `MCSegmentMetrics`) | observations, live and daily rows, profiles | `segment_metrics` | `SegmentMetricsProofs` |
| `SampleValidation` | which measurements of a segment count | `segment_metrics`, by `Judge` of `MCSegmentMetrics` | `SegmentMetricsProofs` |
| `SegmentEstimates` | an estimate by the catalog and by the query | `segment_metrics`, by `Try` of `MCSegmentMetrics` | `SegmentMetricsProofs` |
| `CittatiWorker` | worker loop, cycle, token session | `cittati_worker` | `CittatiWorkerProofs` |
| `EtaSnapshots` (+ `MCEtaSnapshots`) | a cycle, its clock, and both writers of the snapshots | `eta_snapshots` | `EtaSnapshotsProofs` |
| `GtfsFeeds` (+ `MCGtfsFeeds`) | runs of the feed CLI, the stored feeds, the load of the trip index | `gtfs_feeds`, `gtfs_failed_run` | `GtfsFeedsProofs` |
| `StopProjection` | where the stops of a pattern lie on its shape; used by `GtfsFeeds` | `gtfs_feeds`, by `Try` of `MCGtfsFeeds` | `GtfsFeedsProofs` |
| `ScheduleCache` | requests for schedule contexts in one API process | `schedule_cache` | `ScheduleCacheProofs` |
| `SwapOptimizer` | the exchanges chosen at one terminal and their groups | `swap_optimizer` | `SwapOptimizerProofs` |

### SwapDecision

A request is one HTTP call: `Receive` (validated body, `datetime.now()` taken
before the first await), `Load` (`session.get` and the two early exits),
`Prescribe` (the await of `query_vehicle_swap_prescriptions`), then
`InsertDecision`, `UpdateDecision` or `InsertCollides` at the commit. `Fail` is
a lost connection or a restart, at any point before the commit; a connection
lost after it is the "error" answer of `Record`. The prescription is computed
anew from the snapshots, the positions and the time of day at each query;
`RefreshPrescription` is a change of any of them. An execution key is a content
hash, so a group is the same object as long as its key is current: the
prescription is the set of current keys and a `generation`, how often what it
is computed from has changed. The ORM writes
only columns that differ from the loaded ones; `Flushed` models exactly that,
per column, because two of the results hang on it. Terminal, group id and
wording are left out. `basis` and the positions in `events` are history: they
say which state a request had seen.

`SwapDecisionLog` allows `Open` (the first status of a key) and `Follow`
(append a status reachable from *some earlier* one). It does not demand that
each status follows from the last one: the code does not guarantee that, see
finding 1.

### VehicleWindow

State: the last three samples (`previous_state_2`, `previous_state_1`, the
current columns), the `last_boundary_*` columns as one crossing, `low_speed_since`,
and the segments completed since the window opened (`completed`, `opened`:
history). A `Cycle` does what a cycle does to one row, in one step, because a
cycle is one transaction, its upsert locks the row to the end, and rows do not
read one another. Which samples exist is left to the source: any time, trip or
no trip, any position set and speed. A position is the set of shape progresses
it is close to, empty when there is none within 50 m, more than one where the
shape passes twice. `match_three_samples` resolves to some path that runs back
by at most the jitter, or to none; bearings, distances and the 15 m minimum
decide which, and are left nondeterministic, so the properties hold for every
outcome they may have. Crossing times are interpolated in the code; within one
leg they are ordered as the progress, which is how `Earlier` compares them.
`ReloadIndex` is a worker restart or midnight after a feed was published.

### SegmentMetrics

A row of statistics is represented by the set of observations it was computed
from, accepted or not; what the formulas make of that set is not modelled, and
which observations are accepted is `SampleValidation`. `Cycle` is the
body of one transaction in the code's order: expire observations, purge daily
rows, insert the new ones, refresh the target window of each key (or recover
the latest missing windows when nothing was observed), upsert live and daily
rows, and claim and compute the profiles once a day. Time passes between cycles
by any amount: a failed or crashed cycle is one that does not happen.
`MetricsAssumption` states what the properties need from the source: a segment
is delivered at most `Life - WindowTicks` after its completion (55 minutes in
the code's numbers). Without it a recomputed daily row could lose expired
samples.

### SampleValidation and SegmentEstimates

Both are tried from the initial state of `MCSegmentMetrics`, where nothing else
happens: a run for each would ask questions of the same component.
`SampleValidation` is `assess_segment_sample` and the loop that calls it, for
one metric key: a batch is assessed in the order of completion, each accepted
duration is a reference for the next, and references leave after an hour. The
medians are kept as integers by doubling, so the comparisons with 3.5 deviations,
five seconds, a tenth of the median and 80 km/h are exact; the code's are
floating point. A median is found by counting (`Nth`): the value in the middle
place is the one with few enough values below it and enough not above. `pace` is
history.

`SegmentEstimates` writes down both ways an estimate is found. The API queries
the rows at one instant (`QueryEstimate`); the worker loads a catalog once and
resolves it at the instants a vehicle will reach its segments
(`CatalogEstimate`). A mean is represented by the trips it averages, so that
equal estimates are estimates of the same departures. `Try` takes any choice of
rows and of trips around midnight, and every later instant of the service date.
Two differences of the code are outside of it: the catalog joins a stop with
`stop_sequence + 1` and the query with the next stop of the trip, which differ
in feeds with gaps in the numbering; and a trip that departs some 47 hours after
its service date began would be known to one of them only.

### EtaSnapshots

Time passes by `Tick`, and times are kept as ages: what the code compares are
differences, and an age stops growing where no comparison tells it apart any
more, so the state space is finite without a bound on the clock. `Start` reads
`evaluated_at`, `Ingest` is the commit of the positions, `Refresh` the
transaction of the snapshots, with both statements in the order of
`run_cittati_cycle`: the planned one sees what the enriched one wrote. `lag` is
how far the cycle is behind its own clock. A position is on a known segment of
its trip, matched without one, or lost; a position on a segment is resolved,
because the columns of a segment are computed from resolved matches only.
`Measurable` and `Indexed` say of which trips the remaining segments and the
index entry are complete. `Abandon` is a failure or a crash in either
transaction. The deployed system runs one cycle at a time; a cycle by
`cli/ingest_cittati_vehicles.py` next to the worker's is not modelled.

### GtfsFeeds and StopProjection

A run (`Run(j)`) is one transaction: `Begin`, `Download` (its end is
`received_at`), `LookUp` of the hash, then `FinishDuplicate`, or `InsertFeed`
and `Store`. Until it commits nothing of it is visible, except that the unique
index on `content_hash` makes a second insert of the same content wait, and fail
if the first commits. `Store` includes the projection of the stops and is
enabled only if every pattern has a path: one pattern refuses the feed. A
failed run is recorded by a transaction of its own (`RecordFailure`).
`ReadTrips` and `ReadStops` are the two statements of `load_active_trip_index`;
a READ COMMITTED transaction lets each see its own newest feed. `overtaken` is
history: it is what excuses an index from being current. An overtaken load may
pair the trips of one feed with the stop times of another, and the code does
nothing against it; `IndexNeverGoesBack` says how far that goes: the stop times
are those of the newer feed, and the next load does not return to an older one.
`ReloadIndex` of
`VehicleWindow` and `Head` of `CittatiWorker` are the moments at which an index
is loaded.

`StopProjection` keeps, for each stop, the places on the shape with their
distance, and chooses the cheapest path along which no stop lies behind the one
before, first among near places and then among all. `PathsTo` is the outer loop
of `select_monotonic_stop_path`: a function from each window to the cheapest way
to each of its places. `MonotonePaths` and `Cost` define what the path should be
without it. The geometry that yields the places is an input.

### ScheduleCache

asyncio runs one request at a time between awaits, so every step is one stretch
between two awaits: `Ask` (the look without the lock), `Enter` (the lock is
held: the second look), `Fetched` or `FetchFails`. `lock` is the lock's queue,
the holder first. A request keeps the clock it read when it came; the cache
keeps that of the request that filled it, which is older than `received_at`.

### CittatiWorker

`pc` is where the loop stands; every await of a cycle that can fail is a step of
its own: warm-up, opening the run, the session token, the fetch, the first
commit, the second commit, the wait. `RecordFailure` commits a failed run before
the error travels on. Only whether the waits were short or long matters, not
their length, except for `delay`, which `BackoffFollowsStreak` is about;
`Doubled` is the initial delay doubled once for every failure. The environment
may stop the source or the database, revoke the token, cross midnight, crash or
send SIGTERM at any step. A commit that meets a database gone may stand with its
answer lost. `unrefreshed` is history: positions this process has committed and
no second transaction since has looked at. Looking does not mean replacing: the
enriched refresh returns early when its window has been served, the planned one
fills in rows that are missing, of another trip or older than ten minutes, so
after most good cycles the snapshots are older than the positions. That is
`EtaSnapshots`. A cycle takes no time here: that the loop ends after SIGTERM is
checked (`StopsWhenAsked`), that it does so within `stop_grace_period` is not.

### SwapOptimizer

A behaviour is one call of `optimize_terminal_assignments` followed by
`build_exchange_groups`: `Refuse` or `Start` (threshold, protected trips, cost
matrix, arrays), `NextRow`, `Search` and `Augment` (one turn of each loop of
`_hungarian`, with its arrays as variables), `Decide` (the plan or None) and
`TakeGroup` (one cycle of the permutation). Times are integers, so the rounding
to seconds is left out; so are labels and the hash of a group. The commitments
are an input: any arrival and departure for each vehicle. That a group may
raise the greatest delay of its trips, or help only trips below the threshold,
is what the code does and contradicts no document; neither is claimed.
`Weighed` is the one integer `_assignment_cost` makes of four goals.
`InfinityAssumption` says that twice the largest of them is below the `infinity`
a search starts from, which is 10 ** 100 in the code.

## 3. What the runs show

| Run | Instance | Shows |
|---|---|---|
| `swap_decision` | one key, three requests, one operator, one refresh | answers and trail agree, and the row has the status and time of the last event; audited changes are legal from what was seen; snapshot columns ordered; trail implements the log |
| `final_decision` | one key, three requests | **violated**: a final decision is overwritten |
| `actor_of_decision` | one key, three requests, two operators | **violated**: the row names the wrong person |
| `vehicle_window` | a trip of three stops and a second trip, two feeds, six ticks | window contiguous, segments ordered, disjoint and inside their window, boundary never recedes, slow runs unbroken |
| `feed_change` | the same instance | **violated**: a measurement the table refuses rolls back the cycle |
| `segment_metrics` | two symmetric keys, windows of two ticks, one slot a day, a look-back of two days; 24 thousand choices of rows and trips; batches of three among three durations (an outlier by the absolute and by the relative rule; none over the speed limit, which no reference decides), an hour of three cycles | no observation is left behind but older ones, live equals daily, daily rows never shrink, profiles count every day; catalog and query agree; after an hour of identical durations they are no outliers |
| `cittati_worker` | two midnights, four troubles, back-off 1, 2, 3 | back-off follows the streak, index fits its date, good cycles commit both transactions, recovery, shutdown |
| `swap_optimizer` | four vehicles, three arrivals, three departures | potentials feasible and tight, plan best by its four goals, groups closed and each worth its while, every loop ends |
| `eta_snapshots` | two vehicles, two trips of which one can be measured, a window of two units, a limit of three | one refresh per window, every commit serves the matched vehicles and keeps what a due refresh computed, a matched vehicle is shown again and again |
| `gtfs_feeds` | three symmetric runs, two contents that can be stored and one that cannot; every pattern of three stops with up to two places each | one run stores a content, an index that was not overtaken is of the feed downloaded last, one that was never falls behind, the path is the cheapest |
| `gtfs_failed_run` | the same instance | **violated**: a failed run breaks a CHECK and is not recorded |
| `schedule_cache` | three requests, a time-to-live of two, days of three | answers are of their service date and age, every request ends |

**Bounds.** Three requests are one more than any of the races needs (one to
create the row, two to race on it); keys do not interact, so one is enough.
A match reads three samples and a boundary pair spans two matches, so six ticks
let a window fill, complete segments, be reset and fill again, with both
feeds; jitter 1 lets a boundary be crossed twice, and the position set {1, 4} is
the ambiguous street. `MaxTime` 6 in the metrics is three days of two ticks: a
daily row is written, its observations partly expire, profiles are claimed
and rows fall out of the look-back; FirstDay 3 puts Friday and Saturday into
it, so day types change. A segment may be delivered one tick late, so that its
window is over and the next one may have a row; four observations are all a
cycle can complete then, so `MaxPending` excludes nothing; and `Life` 3 is the
least that `MetricsAssumption` allows. Four troubles let an outage, a revocation and a crash
meet in one streak, and three failures reach the cap of the back-off. Four
vehicles are the least with two groups in one plan; one departure is past, one
protected when it is met in time; two arrivals coincide with departures, so
equal total delays with different numbers of delayed trips occur, and one idle
time exceeds `MaxIdle`.

For the snapshots, a window of two units, positions fresh for one and rows for
three keep the order of the code's 60 seconds, five and ten minutes, with a
cycle that may end in the window after the one it read; one vehicle changes
between a trip that is measured and one that only has planned times, the other
comes and goes. There is no bound on the length of a behaviour. Three runs of
the feed CLI let one store, one collide and one commit late, and four units of
the clock let each of them download at another time. Three requests are a
holder, one that finds the cache filled and one that does not, over a midnight
and two expiries. Three measurements a cycle for an hour of three cycles make
the hour a sharp bound: after two cycles of a new pace it is still rejected.
Slots of two ticks and days of three let every offset cross midnight.

**Fairness.** `CittatiWorker`: weak fairness of the worker's own steps (the
event loop runs, every await has a timeout or ends with its connection), of
`Start` (`restart: unless-stopped` in `src/compose.yaml:93`), and of
`TokenAges` (23 hours pass). Nothing is assumed of the environment: `Recovers`
speaks only of behaviours in which source and database are down or the worker
is stopped finitely often. A worker with a revoked token recovers
because its token expires, at the latest after 23 hours; no faster recovery is
claimed, and the mutant of that run (a token used for ever) never recovers.
`EtaSnapshots` assumes that `Refresh` happens again and again, and nothing else:
that is `Recovers` of `CittatiWorker`, under the fairness stated there; any
number of cycles may fail in between. Weak fairness of `Refresh` would not do,
since `Abandon` competes with it. `ScheduleCache` assumes weak fairness of
`Enter` (the event loop wakes the next in the queue of the lock) and of the end
of a call, good or bad (the client's time-out). `SwapOptimizer` assumes only that a call that can go on does.
`SwapDecision`'s `FairSpec` only serves the counterexample of
`final_decision`: handlers that have been started finish.
Deadlock is not checked where a model really may stop: all requests
answered, the clock at its bound, the worker stopped, the call returned.

**Mutants.** Next to the definition a plausible mistake would change stands the
mistaken form, marked "Mutant of"; each property fails under one of them.

## 4. Findings

1. *A final decision can be replaced* (`final_decision`). The row is read
   without a lock and tested before an await
   (`services/vehicle_swap_execution.py:58`). The API and a test say a final
   decision cannot change. A `with_for_update` on the load, or a status in the
   WHERE of the UPDATE, would make the property hold.
2. *The row can name the wrong operator* (`actor_of_decision`), since an
   unchanged `updated_by` is not part of the UPDATE. The audit trail is right.
3. *A renumbered stop can stop ingestion* (`feed_change`): a zero-length
   segment after a change of feed breaks a CHECK and rolls back the cycle of
   all vehicles. `feed_id` is not among the reasons to reset the window.

4. *A failed feed run is not recorded* (`gtfs_failed_run`): the handler reads the
   clock for `finished_at` (`services/gtfs_static_ingestion.py:573`) before the
   transaction begins whose `now()` is the default of `started_at`
   (`models/ingestion.py:77`). `finished_at >= started_at`
   (`models/ingestion.py:43`) fails, and the IntegrityError hides the exception
   that caused it. Setting `started_at` from the clock of the run's begin would
   make the property hold.

## 5. What is proved

TLAPS checks these for every value of the constants that satisfies the named
assumptions of the modules. Every proof module states its lemmas first, then the
inductive invariant with `Init => IInv` and `IInv /\ [Next]_vars => IInv'`, then
the theorems. `SegmentMetricsProofs` and `GtfsFeedsProofs` extend the MC module of
their component, because validation, estimates and projection are run by it
(`Judge`, `Try`). What these read is a constant there, with an assumption: the
theorems hold for every value, `MCMeasurements`, `MCTraversals`, `MCPatterns` and
the like are the values of the run.

- `SwapDecisionProofs`: `TypeCorrect`, `TrailLegal`, `RowAndTrailAgree`, and
  `Refinement` (`Spec => ImplementsLog`), for any number of keys, requests and
  operators. None is inductive alone. The invariant `IInv` adds: a
  request past `Load` holds a row whose status is the one audited at its
  `basis` (so the transition it tested was legal from an audited state), rows
  never vanish (so a loaded row means an audited key), events belong to
  requests that are done, and time stamps of requests are distinct (so
  `updated_at` always differs from the loaded one and is always in the UPDATE;
  this is what keeps `RowMirrorsLastEvent` true in spite of the partial
  UPDATE). The refinement maps `history` to the statuses of the trail: every
  step but `Record` stutters, and `Record` is `Open` or `Follow` by `IInv`.
  `AnswersAudited` (`AuditAgreesWithAnswers`) and `SnapshotsOrdered`
  (`SnapshotColumnsOrdered`) have invariants of their own: a request is answered
  exactly when it is done; and a handler about to update a row found its group in
  a generation no earlier than the one the row was first written from.
- `VehicleWindowProofs`: `RowTypes` (`TypeOK`), `Contiguous`
  (`WindowContiguous`), `SlowRun` (`SlowRunUnbroken`), `MeasuredInside`
  (`SegmentsInsideWindow`), `MeasuredInOrder` (`SegmentsInOrder`) and
  `BoundaryAdvances` (`BoundaryNeverRecedes`), for any finite set of stops, any
  positions, jitter and clock. The slow run needs that the window's first
  sample is not older than the one that opened it. The segments need
  `MeasureInv`: the remembered boundary was crossed inside the window, and no
  completed segment ends further along or later than it. Since the segments a
  cycle completes begin there, and their boundaries ascend (`SegmentFacts`),
  they follow every earlier one.
- `SwapOptimizerProofs`: `OptimizerTypes`, `PotentialsCertify`
  (`PotentialsFeasible`), `PlanIsOptimal` (`PlanIsBest`), `GroupsPartition`
  (`GroupsClosed`) and `GroupsPay` (`EveryGroupPays`), for any number of
  vehicles, any hours and thresholds that satisfy `InfinityAssumption`. In this
  order, each from the one before:
  - `IInv` is the invariant of `_hungarian` (`Invariance`). Before, during and
    after a search no reduced cost is negative and matched pairs are tight
    (`Certified`); during a search `minimum[j]` is the least reduced cost from
    the tree to column j, and the column before j on the way back joined the
    tree earlier (`Searching`, `Descending`: a rank that falls along the way,
    so that `Augment` walks each column once and loses no row). Infinity
    enters at one place: the first scan reaches every column.
  - When all rows are assigned, the potentials bound every assignment from
    below and the plan meets the bound (weak duality), so no assignment is
    cheaper. `available` lists each unprotected vehicle once (`Listing`), and
    protected trips cost nothing an assignment could save.
  - The weights are wide enough to order assignments as the four goals do: at
    each weight the goals below it cannot add up to one unit. Hence cheapest is
    best (`PlanInv` keeps it until the call returns). Assignments of equal cost
    are equally good; where None is returned, the code has looked at one of
    them only, and `PlanIsBest` claims no more than that.
  - The walk along a permutation comes back to where it began before it meets
    another vehicle again, so what it lists is closed; `GroupInv` adds up the
    groups until nothing is left to visit.
  - Undoing a group gives an assignment, which is not better than the plan;
    sums over the group and the rest (`SumFunctionOnSet`, by induction over
    finite sets) turn that into `EveryGroupPays`.
- `SegmentMetricsProofs`: `MetricsTypes`, `MissingAreOlder`
  (`MissingRowsAreOlder`), `LiveAndDailyAgree` (`LiveMirrorsDaily`),
  `RowsNeverShrink` (`DailyRowsNeverShrink`) and `ProfilesComplete`
  (`ProfilesCountEveryDay`), for any keys, lengths of windows and days,
  look-back, life and delay that satisfy `MetricsAssumption`. The invariant adds
  that the samples of a daily row are of its window and still stored unless
  expired (`RowsHoldTheirOwn`: so a row computed again contains them), that
  nothing within the look-back was purged (`NothingPurgedEarly`: so the profiles
  miss nothing) and that there are no profiles before the first claim. The
  arithmetic is in the first lemmas: division by a window and by a day is
  monotone, and going back by whole days goes back by as many quotients, so
  what has not expired is in a window that is kept (`UnexpiredIsKept`). This is
  where the two lengths of `MetricsAssumption` are used: `MaxLag + WindowTicks
  <= Life` for `RowsNeverShrink`, and `Life` within the look-back for
  `MissingAreOlder`.
- Also in `SegmentMetricsProofs`, `PaceIsLearned` (`NewPaceIsLearned` of
  `SampleValidation`), for any measurements and any length of the hour
  (`ValidationSettings`). The invariant is `PaceInv`: as far back as one pace
  alone was measured, only its durations have been accepted. After an hour
  of identical durations there are no other references; their median is that
  duration and their deviation 0. `CatalogAgrees` (`CatalogAgreesWithQuery` of
  `SegmentEstimates`) holds for any slots, rows and schedules within
  `EstimatesAssumption`. `EstimateSettings`
  says that offsets are whole slots of at most a day, and `Timetable` that no trip
  departs after the second midnight of its service date, less the offset looked
  back by: the trips left out are those of the difference named in section 2. The
  argument is one lemma, `SlotAgrees`: the departures the query selects for a slot
  of today, and of yesterday after midnight, are the group the catalog keeps for
  that date and slot.
- `CittatiWorkerProofs`: `WorkerTypes`, `WorkerCorrelatesWithItsDate`
  (`CorrelatesWithItsDate`), `CyclesAreWhole` (`GoodCyclesAreWhole`) and
  `WaitFollowsStreak` (`BackoffFollowsStreak`), for any back-off, midnights
  and troubles. The invariant adds that from opening the run to applying the
  positions the index is the one of the cycle's date; and `BackoffInv`, that the
  next back-off is the doubled one of the streak, capped. `WorkerAssumption` says
  that the cap is reached before failures stop being counted.
- `EtaSnapshotsProofs`: `SnapshotTypes`, `EnrichedOncePerWindow`
  (`OneRefreshPerWindow`, inductive with the types) and `CommitsServeMatched`
  (`CommitServesMatched`), for any fleet and trips. `SnapshotAssumption` says
  what they need of the lengths: a cycle ends within a window of its clock
  reading, planned positions are not fresher than enriched ones need to be, and
  rows are served for at least two windows.
- `GtfsFeedsProofs`: `FeedTypes`, `RunsAndFeedsAgree` (`OneRunStoresAContent`),
  `IndexOfLastDownload` (`IndexIsCurrentUnlessOvertaken`) and `IndexOnlyAdvances`
  (`IndexNeverGoesBack`), for any finite set of runs and any contents. The
  invariant adds: a run that is loading is alone with its content and the content is not stored yet (what the unique index gives);
  a stored feed has its one run; and an index, or the first half of one, that was
  not overtaken is of the newest feed. `ReadInOrder` says of any load, overtaken
  or not, that what it has read is stored, each feed downloaded no later than the
  next; stored feeds keep their time (`StoredForGood`).
- Also in `GtfsFeedsProofs`, `PathsAreCheapest` (`PathIsCheapest` of
  `StopProjection`), for any places with natural progress and distance and any
  number of stops, and `RefusedOnlyWithoutPath`: `ProjectPattern` gives no path
  only if there is none, so `Store` refuses a feed only for a pattern that cannot
  be monotone. The invariant of the loop is `AreCheapest`: what is kept for a
  window are paths with their costs, and each path there is to one of its places
  costs at least as much as one that is kept to the same place.
- `ScheduleCacheProofs`: `CacheTypes` and `AnswersOfTheirTime`
  (`AnswersAreOfTheirTime`), for any requests, time-to-live and day. The invariant
  adds that the cache is of the service date of its own `_cached_at`, which is
  not after `received_at`, and that no request is from the future.

The library's induction theorems take an operator as a parameter, which the
provers cannot instantiate. Where a proof needs induction it is over a set of
numbers (`Induction`: a set of naturals that has 0 and every successor is all of
them, from the well-foundedness of `<`), and a recursive function is shown to be
what its definition says by constructing it (`Recursion`). That is how the
powers of two, the paths and the sums of delays (a fold over a finite set, which
is such a function inside) are reasoned about, and why no module with a theorem
has a `RECURSIVE` operator; medians are found by counting.

Only model-checked: the liveness properties (`Recovers`, `StopsWhenAsked`,
`MatchedVehiclesAreShown`, `EveryRequestEnds`, `Terminates`), because fairness and
ENABLED are out of the prover's reach. Every other property of a passing run is a
theorem. A theorem holds under the named assumptions; that the numbers of the code
satisfy them is read off the code, and TLC evaluates them for each instance.

## 6. Not modelled, and the plan

Not modelled, because they keep no state or only present it: the read API and
its queries, the operational health (it derives a status from the run of a
cycle's first transaction), the console's presentation, migrations and one-shot
scripts. Represented by what they can yield: the geometry of matching and
projection (a set of places), the parsing of the GTFS archive and of the
positions (content that can be stored or not; samples with a trip or without),
the choice of an index's trips by calendar (`Indexed`), statistics and ETA values
inside a row (the observations or departures behind them).

What a next step would add, in this order:

1. The variants behind `Terminates` and `EveryRequestEnds` as theorems: an action
   property for each loop of the optimiser, that its measure falls with every step.
2. A second cycle by the CLI next to the worker's, in `EtaSnapshots`: the row
   locks of the upserts order them, but both may find a refresh due.
3. `OperatorConsole`: polls answered out of order against a decision just sent.
4. The weighted moments of a window and their combination into profiles, against
   a reference definition; planned ends of trips after midnight.
