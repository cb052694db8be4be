# Formal models of the NSX collector

TLA+ models of the Go collector in `src/`, the TLC configurations that check
them on small instances, and the TLAPS proofs of their main properties for
every instance. File and line references are relative to `src/`.

- [The system](#the-system): components, state, interactions, what is hard
- [Modules](#modules): what each one models and how it maps to the code
- [Runs](#runs): what each configuration checks, its bounds and its fairness
- [Proofs](#proofs): theorems, their assumptions and their inductive invariants
- [Disagreements with the documentation](#disagreements-with-the-documentation)
- [Not modelled](#not-modelled) and the [Plan](#plan)

To check a module: `tlc -config X.cfg M`, to prove one: `tlapm MProofs.tla`.

## The system

One process per collector host (`cmd/main.go`) polls one or more NSX managers
and writes to InfluxDB; systemd restarts it whenever it ends
(`scripts/nsx-collector.service`).

| component | state it keeps | operations | correct when |
|---|---|---|---|
| Scheduler and main (`internal/collector/scheduler.go`, `cmd/main.go`) | the context, the channel of a round, a timer | start a round of worker goroutines, wait for it, sleep, stop on a signal | no worker runs twice at once, a round ends, a signal ends the process, no manager is left out |
| Worker (`internal/collector/worker.go`) | last slow pass, last HA pass | `Collect`: HA, cluster, nodes, interfaces, routers, on the slow path alarms and capacity, then the writes | a section, node or bucket that fails costs the others nothing, cadences are met |
| HA collector (`internal/collector/ha.go`) | `prevActive` in memory, the watchlist in a file | list the routers, refresh the watchlist, fetch the status of each watched T1 in parallel, diff with the cycle before, save | the watchlist stays full and current, changes are real and none is missed |
| Capacity collector (`internal/collector/capacity.go`) | none of its own | list T0s, T1s, routers; aggregates; run the T1 watcher; NAT fetch pool | aggregates agree with the listings |
| T1 watcher (`internal/t1watch/`) | a snapshot file per site | load, diff, save, post new T1s to Slack, hand event points to the worker | each creation and deletion is told once, none is made up or lost |
| Rate calculator (`internal/collector/rate.go`) | the previous reading per counter, shared by all workers | turn two readings into a rate | rates are real traffic |
| Alert evaluator (`internal/alerting/evaluator.go`) | the cooldown map, shared by all workers | check the cooldown, query the averages, check again, post | one alert per cooldown, no saturated interface is silenced |
| NSX client (`internal/nsx/`) | none | GET with retries on 429, cursor pagination | a listing is whole or an error |
| InfluxDB writer and reader (`internal/influxdb/`) | none | write a batch, query averages | |
| Configuration (`internal/config/`) | none after start | parse, apply defaults | |
| Scripts (`scripts/`) | InfluxDB, checkmk and backup files | local checks, MRPE lines, install, upgrade with rollback | |

How they interact: `Scheduler.runAll` starts a goroutine per worker and waits
for one message of each or for the cancellation. Within its goroutine a worker
calls everything else one after the other, except that the HA collector and
the NAT fetch start goroutines of their own. Workers of different sites share
the rate calculator and the alert evaluator, both behind a mutex. The snapshot
and inventory files outlive the process; the HA baseline, the previous readings
and the cooldowns do not.

What is hard:

- **order and failure across stores.** The T1 watcher saves its snapshot, then
  posts, then (at the end of the worker's cycle) writes the event points. Each
  step may fail and the process may die between any two.
- **listings that never existed.** T0s, T1s and routers are listed by separate
  calls while operators change them.
- **healing under partial failure.** The watchlist is refreshed from a listing,
  miss counts are bumped by failed status calls, and the file may be lost,
  unsaved, or written under another mode.
- **baselines.** A T1 that did not answer, a T0 that disappeared and a restart
  each treat `prevActive` differently.
- **abandoned rounds.** On a signal `runAll` leaves goroutines behind, and
  nothing else keeps a worker from being run twice at once.
- **throttling**: a 429 is waited out inside a pool slot, for as long as the
  server asks, under a context that may be cancelled at any moment.
- **joins by path** of listings taken at different times, and series that are
  shown for a while after nothing writes to them any more.
- **check, unlock, query, check again** in the evaluator, with a clock reading
  from before the query.
- **counters** that wrap, restart, are cached, or do not decode.

`PROJECT.json` lists every hazard at its line with the properties that cover
it, and says why where none does.

## Modules

| module | models | composed of |
|---|---|---|
| `T1Watch` | a pass of the T1 watcher within `CapacityCollector.Collect`, to the write in `Worker.Collect`, with NSX changing under it | listing, diff, save, Slack, InfluxDB |
| `T1Journal` | what the watcher promises, without its steps | implemented by `T1Watch` |
| `NATFetch` | `doGet`, a paged listing and `fetchNATPerT1` | client, listing, pool, one inventory |
| `Panels` | what slow passes store of the inventory and what the panels show | alarms, aggregates, writes, time range |
| `HACollector` | `CollectHA` for one T0 edge cluster, with NSX, its faults and restarts | refresh, fetch, diff, file |
| `HAFeed` | what the store's readers learn of the failovers of a cluster | `HACollector`, the write of `Worker.Collect`, a reader |
| `Scheduler` | `Scheduler.Start`, `runAll`, the signal handler, the exit | |
| `Worker` | `Worker.Collect` and the sections of `CapacityCollector.Collect` on the clock | gates, sections, node loop, writes, rounds, HA check |
| `Evaluator` | `Evaluator.Evaluate` called by several workers | cooldown, query, post |
| `RateCalculator` | `Calculate` on one interface, with its counter and the manager's cache | |
| `MC...` | small constant sets for TLC | |
| `...Proofs` | theorems | |

**T1Watch.** `pc` follows the pass: `ListTier0s`, `ListTier1s`, `ListRouters`
(one atomic read of the inventory each), `LoadAndDetect` (LoadSnapshot and
Detect, two steps with no other actor in between), `SaveSnapshot`, one `Post`
per Slack message, `WritePoints` (which stands for the rest of the cycle and
the batch write). `file` and `fileExists` are the snapshot file, `snap` its
in-memory copy, `outbox` the detected events per channel. Each failure is an
action (`ListFails`, `RoutersFail`, `LoadFails`, `SaveFails`, `PostFails`,
`WriteFails`) with what the code does then: a failed T0 or T1 listing ends the
pass, a failed router listing blanks the edge clusters, an unreadable snapshot
is an empty one without a baseline, a failed save goes on. `Crash` drops all
but the file. Views keep the three fields `Detect` treats differently: the
parent's name (compared and refreshed), the edge cluster (compared and
refreshed), the parent kind (refreshed but not compared). Histories count what
happened, what was recorded, reported and dropped.

**T1Journal.** An observer looks at the inventory, commits the view it saw and
owes each channel the differences from the view it had committed before; what
is owed is told once, or dropped. `T1Watch` implements it (`KeepsJournal`)
with the obvious mapping: the file is the committed view, `live` and `snap` are
the view being looked at, `outbox` is what is owed. In particular two passes never
mix: a pass begins with nothing owed, events go only to the channels
`Addressee` names, and whatever the order of faults, all that is told is the
difference of two views that really existed. The parent's name and kind and the edge
cluster are not part of the journal.

**NATFetch.** `calls` holds one `doGet` per caller: the listing first, then a
goroutine per listed T1. `Throttled`, `Refused`, `LeaveWait` are the exits of
`doGet` (429 with attempts left, any other failure, the select after a 429);
`PageAnswered` is a turn of the listing loop, which all paged calls of
`internal/nsx/api.go` share word for word; `Start`, `EndLoop`, `Acquire`,
`CountAnswered`, `Finish` and `Return` are the pool. A waiting caller keeps its
slot, as the deferred release does. Time passes in `Tick`, only when nothing
the program would do at once is enabled, so `lateness` counts exactly the time
a cancelled fetch spends waiting. NSX serves a page of what lies after the
cursor, possibly shorter than asked and possibly empty (external).

**Panels.** A pass is `ListAlarms`, `ListTier0s`, `ListTier1s`, `ListSegments`,
`ListPolicies`, `FetchNATPerT1`, `WriteCapacityPoints`, `WritePoints`, each
listing an atomic read at its own time. A point is a series and a count;
`ParentSeries`, `ClassifyConnectivityPath` and `NATSeries` are the three ways
the code names a parent. Each of them falls back differently when the gateway was
not listed. `AlarmPoints` applies `OperationalSeverity`. `store` is what
InfluxDB returns for the last point of each series within the time range: at
the start of a pass every point grows one pass older and leaves the range at
`Window` (`range(start: -10m)` over a slow interval of five minutes: two). The
failures are `AlarmsFail`, `InventoryFails` (T0 or T1 listing: the capacity
collector returns), `SectionFails`, `NATFails` and the two writes.

**HACollector.** One cluster is enough: clusters share nothing but the file,
which is saved as a whole (`OtherT0s` decides whether a cluster without T0 is
dropped from it). A cycle is `StartCycle` (listing, load, `refreshWatchlist`),
one `Fetch`, `NotFound` or `FetchFails` per watched T1 in any order, then
`Save` or `SaveFails` (diff, new baseline, bumped miss counts, file).
`Kept`, `MissAfter`, `Room`, `Pins` and `Picks` are the phases of
`refreshWatchlist` in order; the shuffle is a nondeterministic subset of the
right size. The iteration order of a Go map decides which T1's nodes a change
event names: `ChangeEvents` is the set of events it may produce.
`Crash` may restart the process with another mode, as an edit of the
configuration does.

**HAFeed** extends `HACollector` with what comes after it. `CollectHA` only
returns points; the worker writes them at the end of its round
(`worker.go:309`) and forgets them when the write fails. By then `prevActive`
has moved on (`ha.go:295`), so the event of a failed write (`WriteFails`), or
of a process that dies before it (`Die`), is lost for good. No other cycle
starts before the write (`CollectStep`, `FinishCycle`, `Write`). NSX makes
whole-cluster failovers, more than a cycle apart (`UpToDate`). A reader takes
the first summary point stored for a start and follows the change events from
then on (`told`); it outlives the process. Two things may leave it behind, and
`lapse` records them: an event lost in the way above, and a cycle in which an
answer contradicts the reader while the watchlist cannot be compared as a whole
with the last one (`Blind`): a T1 that did not answer, answered without an
ACTIVE node, was substituted, or the first cycle after a restart, which by
design compares nothing (`docs/HA-COLLECTION.md`, "Limitações conhecidas"). The
lapse ends when an event, or a summary that agrees with the reader, is stored.

**Scheduler.** `pc` is the main goroutine (`await` in the select of `runAll`,
`arm` and `sleep` around the timer of `Start`); `running` and `sent` are the
goroutines and the buffered channel. `ArmTimer` needs the context alive since
a fresh timer is never ready in the select; `TimerFires` and the cancellation
race for a sleeping loop.

**Worker.** One action per section of `Collect`, in the order of the code
(`CollectHA`, `ClusterStatus`, `Managers`, `TransportNodes`, the loop
`NodeStatus`, `NodeInterfaces`, `InterfaceStats`, `LogicalRouters`, then behind
the slow gate `Alarms`, `CapacityUsage`, the capacity sections and
`NSServices`), then the two writes. A section delivers its points or fails;
what comes after a failure is what the code does: the next section, the next
node, or the return from the capacity collector. `slowAge` and `haAge` are the
gates, `timer` the time since the round or the pause began. Instead of the age
of every series there is one reader with a `panel`, any kind of point, chosen
in the initial state: `shownAge` is what it shows, `calm` the time since
anything its points depend on (`Chain`) failed. This keeps the model small and
says as much, since no property relates two panels. `Check` is the HA check of
checkmk with its window, `CheckFails` one whose query fails: the script
discards the error and takes the empty answer for "no event"
(`checkmk-nsx-ha.sh:51-59`, `73-77`). Of the change events the reader may follow
any, so that `ChangeAlerted` is about each of them. Other workers appear as the time a round may last
beyond this worker's own cycle.

**Evaluator.** A worker goes through the keys of its site. Times are ages,
capped where the comparisons no longer tell them apart, so that time may go on
without end and liveness can be checked. The query takes at most `QueryLimit`
ticks, the timeout of its context. The key is the node and interface name, so
two sites may share one: the case the second check in the code is for.

**RateCalculator.** The counters of both directions, the previous reading and
the time since. `Poll` decodes into an `int64` field (`internal/nsx/models.go`
207), so values in the upper half of the unsigned range fail and no call of
`Calculate` is made; `PollCached` is the repeated answer `rate.go:62` describes;
a failed poll is just time that passes. Comparisons of rates are comparisons of
products, so nothing is rounded.

## Runs

| run | module | question | result |
|---|---|---|---|
| `t1watch` | T1Watch | with every fault and crash: does the watcher implement the journal, is anything reported twice, made up, or lost without a counted cause, and does the snapshot settle? | holds |
| `nat_fetch` | NATFetch | is a listing whole, the pool bounded, every T1 accounted for, a cancellation obeyed at once, and does the fetch end? | holds |
| `panels` | MCPanels | do the panels show the inventory, all of it and nothing else, once it is left alone? | holds |
| `ha_watchlist` | MCHACollector | is the watchlist full, healed in time but never before two misses in a row, exact on a pinned site, and no failover made up, whatever fails? | holds |
| `ha_failover` | MCHAFeed | does a reader of the stored change events learn of every failover of the whole cluster, over outages, partial answers, failed writes and restarts, and what exactly leaves it behind? | holds |
| `ha_hybrid_starved` | MCHACollector | is a pinned T1 that left and came back for good watched again in hybrid mode? | violated |
| `ha_broken_kept` | MCHACollector | is a T1 whose calls keep failing substituted? | violated |
| `scheduler` | Scheduler | overlap, lost messages, late rounds, shutdown, starvation of a manager | holds |
| `scheduler_drain` | Scheduler | does shutdown wait for the goroutines? | violated |
| `worker` | MCWorker | how stale may a panel get, whatever else fails, and when does the HA check miss a stored change event? | holds |
| `evaluator` | MCEvaluator | are alerts a cooldown apart, and is a saturated interface alerted on for ever? | holds |
| `rate_calculator` | RateCalculator | is every rate real traffic, and when can it exceed the line rate? | holds |

Bounds, and why they are enough:

- `t1watch`: two T1s, a VRF and a plain T0, two faults of any kind, three
  inventory changes: a T1 can come, go and come back while a save, a post or a
  crash fails in the same or another pass. Losses are counted per channel, kind
  and T1, so `LossesAccounted` says that a failed post or write loses the events
  it carried and no other: a `Send` that stopped at its first failed post would
  violate it (that is one of its mutants). The proofs cover all bounds for
  everything but `SnapshotConverges`.
- `nat_fetch`: three T1s with pages of two and two slots, so that a listing has
  several pages and a goroutine has to queue; three attempts, with and without
  a Retry-After longer than the client timeout and the backoff; two inventory
  changes. The proofs cover all bounds for everything but `FetchReturns`.
- `panels`: a T0 and a VRF with one spare display name, two T1s, a segment, a
  policy, an alarm and a window of two; two inventory changes and two faults,
  enough for a rename or a move to fall between two listings while both passes
  of a window fail. The fault of one pass can only meet those of one
  window, so more changes would repeat the same. The proofs cover all bounds.
- `ha_watchlist`: three T1s for a watchlist of two, so there is always one to
  substitute; two moves and a fault of any kind, and all three modes with a
  change at a restart. `HealedInTime` needs a T1 absent for two refreshes,
  `SubstitutedAfterTwo` one that is missed, answers again and is missed once
  more, both within the bounds. The latter is about histories in one mode: a
  name dropped as pinned keeps its count in the file, so after a switch to auto
  it may come back as a random pick and be substituted at its first miss.
  `ha_failover` has four T1s for a list of three, so that substitutions happen
  and a majority is not all, two nodes, unlimited failovers and two faults of
  any of the eight kinds; the proof of `SeenIsTold` covers all bounds.
- `worker`: an edge node and a host, two of the four optional sections, ticks of
  20 s with the documented intervals (the slow one scaled down from 300 s to
  five ticks, no divisor of the round), any number of failures and restarts.
  `Bound` is tight: with one tick less `Fresh` is violated, for slow and for HA
  points. A cycle of two ticks (`MaxCycle`) may store an event with too little
  of the window left, so both excuses of `ChangeAlerted` occur: without either of
  them TLC finds it violated.
- `scheduler`: four workers. `evaluator`: two sites, one shared and one own
  key, a cooldown of three ticks and a query of one, two faults, two changes
  of load, endless time. `rate_calculator`: counters of ten values, a sanity
  limit of twice the line rate, gaps of up to two ticks and up to nine bytes
  between fresh readings, unbounded polls: counters wrap, pass the decodable
  half and restart.

A deadlock is an error in all runs but those of the scheduler, where an exited
process takes no step, and `nat_fetch`, where the fetch has returned
(`CHECK_DEADLOCK FALSE`).

Fairness, and why the code justifies it:

- `T1Watch` and `HACollector`: weak fairness of the steps of a pass or cycle.
  The scheduler starts rounds without end and every call has a timeout (NSX
  15 s, Slack 60 s, InfluxDB 20 s); faults are bounded, which reads "as long
  as they stop". `HAFeed` likewise: weak fairness of the worker's goroutine,
  write included, none of the failovers.
- `Scheduler`: weak fairness of the main goroutine only. Workers may hang;
  `EveryWorkerRuns` assumes in its premise that they do not.
- `Evaluator`: time passes and each worker goes on.
- `NATFetch`: weak fairness of all steps of the program, NSX's answers and
  time together: the model has no endless loop to starve anybody in, since
  every caller asks a bounded number of times and a request that is not
  answered runs into the 15 s of the client. No answer in particular is
  assumed: every request may be refused.

`NothingStale` and `FaultsUnseen` are safety properties: they speak of the
states in which a whole window has passed since the last change.
`NothingStale` has no premise about faults: a failed call makes a panel show
less, never something else, which is what the early return of
`capacity.go:92-98` is for. `FaultsUnseen` needs one good pass per window.
`ListingFaithful` rests on the contract of NSX's cursor, which names the last
object served.

`SeenIsTold` says that once the collector remembers no answer from before the
last failover and no points wait for the write, a reader that was not left
behind believes in the node the cluster is on. `FailoverTold` is its liveness
form. What leaves a reader behind is stated by the model in `lapse`, and each
cause is real: a T1 that did not answer loses its baseline (`ha.go:283-296`), so
if most of the watchlist did not answer in the cycle after a failover there is
nothing to compare with; a restart forgets every baseline; a failed write is not
repeated.

`ChangeAlerted` has no premise about the length of a cycle: a stored event that
left the window unseen was met by a failed check, or was stored with less than a
check period of the window left.

## Proofs

All theorems are checked by `tlapm` to the last leaf, without assumptions other
than the named ones on the constants, which TLC evaluates in the runs.

| module | theorem | shows |
|---|---|---|
| T1WatchProofs | `TypeCorrect`, `AtMostOnce`, `NoPhantom`, `LossesCounted` | the four invariants of `t1watch` |
| T1WatchProofs | `JournalKept` | `KeepsJournal`: `T1Watch` implements `T1Journal` |
| NATFetchProofs | `TypeCorrect`, `InFlight`, `Accounted`, `Faithful`, `Prompt`, `Quiet` | every property of `nat_fetch` but `FetchReturns` |
| HACollectorProofs | `TypeCorrect`, `Faithful`, `Healed`, `TwoMisses`, `Filled`, `Exact` | every property of `ha_watchlist`: `TypeOK`, `NoFalseFailover`, `HealedInTime`, `SubstitutedAfterTwo`, `WatchlistFilled`, `PinnedExact` |
| HACollectorProofs | `FeedTypeCorrect`, `Followed` | `FeedTypeOK` and `SeenIsTold` of `ha_failover` |
| SchedulerProofs | `TypeCorrect`, `Exclusive`, `Accounted`, `OneLateRound` | `TypeOK`, `NoOverlap`, `RoundAccounted`, `AtMostOneLateRound` |
| WorkerProofs | `TypeCorrect`, `Alerted`, `KeptFresh` | every property of `worker`: `TypeOK`, `ChangeAlerted`, `Fresh` |
| PanelsProofs | `TypeCorrect`, `ShowsNothingStale`, `ShowsEverything` | every property of `panels`: `TypeOK`, `NothingStale`, `FaultsUnseen` |
| EvaluatorProofs | `TypeCorrect`, `Spaced` | `TypeOK`, `AlertsSpaced` |
| RateCalculatorProofs | `TypeCorrect`, `Truthful`, `SpikesExplained` | `TypeOK`, `RateTruthful`, `SpikesOnlyAfterStale` |

The inductive invariants:

- *T1Watch.* `PassInv` says what a pass knows at each `pc` (the events in the
  outbox are those by which `snap` differs from the file it was loaded from).
  `CountInv` is a balance per channel, kind and T1: reports, plus the one in
  hand, plus what the file has still to learn are bounded by what happened and
  by the failed saves; creation and deletion alternate, so the balance needs
  the inventory, the live view and the file in one inequality. `PhantomInv`
  says of a change that never happened that every view on the way agrees with
  the beginning. `SettledInv` is the dual of `CountInv` for what is recorded: per
  channel, kind and T1, what the file has taken in is told, in the outbox, or a
  loss of this very event.
- *T1Watch implements T1Journal.* Initial states map to initial states, and
  each action to a step of the journal or to none; `PassInv` is what makes the
  events of `Detect` the differences of the two mapped views.
- *NATFetch.* The slots taken are the callers that hold one, and the wait group
  counts the started callers without an outcome: both are cardinalities, kept
  step by step. For the listing, what existed throughout is listed or lies
  after the cursor. For the cancellation, a tick needs every caller to be
  blocked, and in a cancelled fetch nobody is.
- *HACollector.* `MemoryInv`: what `prevActive` and the answers say of a T1
  that has not moved since the start is where it is, or nothing. This is why a
  T0 that comes back with an old baseline makes nothing up. `HealInv`: the
  number of refreshes in a row that kept a missing T1 is bounded by its miss
  count on disk or in memory, plus the cycles that were not saved. The pins are
  bounded by the room because the last of them in name order has all the others
  before it (`PinsFit`); with the size of the random picks this gives
  `WatchlistFilled` (`RefreshFills`). `PinnedInv`: as long as every mode used
  was `pinned`, file and memory hold pinned names only.
  `MissInv`, for `SubstitutedAfterTwo`: in a history of one mode a watched T1
  that is not pinned has a count only if it was missed in the last saved cycle or
  is not listed in this one, and (`Counted`) no T1 that is not watched has one
  unless it was dropped as pinned.
  `FollowInv`, for failovers of the whole cluster: the collector remembers at
  most two nodes, the present one and the last (`Memory`), and whatever node the
  reader believes in, or will when the points that wait are written
  (`Credible`), stands in one of four relations to the present one (`Follows`).
  The reader is right (`Done`); the collector remembers nothing to compare with
  (`Blank`); no answer from after the failover has been compared yet (`Ahead`);
  or the failover fell into a cycle, and the T1s still to be seen changing are a
  majority of those that can be compared (`Half`). The last one is where the
  `(observed+1)/2` of `ha.go:300-304` is needed: fewer changed answers than the
  threshold leave at least the threshold still to change (`OneIsMajority`), so
  the next cycle tells or is `Blind`.
- *Scheduler.* `RoundInv`: between rounds nobody is in `Collect`, unless the
  context is cancelled and only the exit is left. It is what lets the workers do
  without a lock. `LateInv` does the same for the count of late rounds.
- *Worker.* `AlertInv`: unless a check has failed since, or it was stored too
  late, an event no check has seen is no older than it was when it was stored
  plus the time since the last check.
  `FreshInv` says how old the panel's point may be at each place of a cycle: in
  a cycle the gate lets through (`Pending`) it is that of the cycle before, and
  its successor is held or its section still ahead unless something failed; in a
  cycle behind a closed gate, and between cycles (`Quiet`, `Idle`), it is as old
  as the gate, which is bounded by its interval plus the time since the last
  cycle began. TLC checked the invariant on the instance of `worker` first.
- *Panels.* The properties speak of settled states only, which is too late to
  be inductive: what will be right then has to be right from the moment
  nothing has changed since a pass began (`Current`). `PassInv`: such a pass has
  listed what there is and collected a part of what panels should show.
  `StoreInv`: what such passes stored is what there is, whatever older
  points say. `FlawlessInv`: while none of its calls has failed, the pass has
  collected all that its sections have dealt with. `CleanInv`: what a finished
  pass without a fault stored is still there, no older than the pass. Under
  these lie lemmas on the operators: from up-to-date listings each of the code's
  aggregates is the expected one (`T1sCounted`, `TotalsCounted`,
  `SegmentsCounted`, `PoliciesCounted`, `NATCounted`), which is where parents
  that exist and display names that differ are needed, and the parts do not overlap
  (`Parts`). The assumption that sets of T1s, gateways, segments and policies
  are finite (`FiniteAssumption`) is what makes counts numbers. TLC checked the
  invariant on the instance of `panels` first.
- *Evaluator.* `StampInv`: the stamp of a key is at most one query older than
  its last alert.
- *RateCalculator.* `RegisterInv`: the register is ahead of the previous
  reading by the bytes carried since, modulo its width, or shows at most these
  after a restart. Since readings above the signed half do not decode, a
  counter that went backwards is always discarded (`BackwardsDiscarded`): the
  wrap arithmetic of `counterRate` never produces a rate.

Only model-checked: the liveness properties (`SnapshotConverges`,
`FailoverTold`, `ShutdownReturns`, `EveryWorkerRuns`, `SaturationAlerted`,
`FetchReturns`), which are beyond the prover. Every safety property of every
passing run is proved.

## Disagreements with the documentation

Each is a run whose property TLC violates; `PROJECT.json` quotes both sides.

- *Hybrid mode* (`ha_hybrid_starved`): a pinned T1 that was watched, left and
  came back for good finds its slot taken by a random pick that is never evicted.
- *Persistent failure* (`ha_broken_kept`): a listed T1 whose status call always
  fails is never substituted; the listing resets its miss count first.
- *Draining* (`scheduler_drain`): the shutdown does not wait for workers.

Met while modelling and not given a run: the snapshot is saved before the event
points are written (`capacity.go:226`, `worker.go:309`) and a failed write is
not retried, so an `nsx_t1_event` may be missing for good, although
`configs/config.yaml:46` has another program rely on them (`LossesAccounted`
counts these losses); `nsx_t1_totals` is handed to the default bucket
(`capacity.go:197`) while every panel that shows it reads `nsx_capacity`
(`dashboards/Capacity-NSX/dashboard.json`), so these panels are empty when the
two buckets differ; the capacity alarm panel counts points over ten minutes
without taking the last of each series, so an alarm counts once per pass; the
refresh of a known T1 does not compare the kind and id of its parent
(`detector.go:137-140`), so a T1 seen once without its VRF may keep the kind
`t0` and its deletion event the count and limit of the wrong map, against the
comment above it ("keeps the snapshot accurate for future delete payloads");
T1s are counted by the display name of their gateway (`capacity.go:184`),
which NSX does not keep unique; of a gateway that was not listed
`nsx_t1_per_t0` and `nsx_segments_per_parent` keep the last path segment and
`nsx_nat_per_t1` nothing; a change event's nodes are those of
whichever changed T1 the map iteration met last (`ha.go:277`), not the move of
the majority the comment of `HAChangeEventPoint` speaks of; an HA change event
is stamped when its cycle begins and stored when it ends, so a cycle of more
than 30 s (a NAT pass alone takes 68 s on the largest site, `config.go:185`)
may store an event that is out of the 90 s window of `checkmk-nsx-ha.sh` before
any check runs, and that script takes a failed `curl` for "no event"
(`checkmk-nsx-ha.sh:51-59`, `73-77`), although `docs/HA-COLLECTION.md:143` has it
turn CRIT "na 1ª leitura pós-evento" (these are the two excuses in
`ChangeAlerted`, and TLC reaches both); a failed Slack post is never repeated
(`internal/t1watch/notifier.go:92`; `LossesAccounted` counts it); a
switch from auto to pinned mode keeps the random picks of the file
(`ha.go:361`; hence the premise of `PinnedExact`); after a cached reading the
next rate is computed over too short a time and may be a multiple of the line
rate (`rate.go:51`; the premise of `SpikesOnlyAfterStale`).

## Not modelled

- *Worker*: the T1-to-T0 name map and the interface classification, which decide
  labels and what is an uplink.
- *Capacity collector*: limits, percentages and availability, LB credits and
  usage, group counts: arithmetic on one answer. Two gateways of one display
  name, which `Panels` excludes.
- *NSX client*: outside `NATFetch` a call is one atomic read, also a paged
  one; there `ListingFaithful` shows what a paged one may return. `Panels`
  lets every section fail as a whole and the NAT requests of a pass one at a time.
- *InfluxDB points*: those that copy an answer field by field; the reader's
  query, whose answer `Evaluator` chooses.
- *Configuration, telemetry*: parsing and defaults at start-up, counters
  nobody reads back.
- *Scripts, dashboards*: programs of other hosts, except for the 90 s window of
  the HA check.

## Plan

Done, in the order of importance: T1Watch and the journal it implements,
HACollector, Scheduler, Evaluator, RateCalculator, Worker, NATFetch and Panels,
all with their proofs. What is left:

1. `SecondsPerRound`: `NATFetch`, the HA fetches and the sections composed on one
   clock, to bound the longest cycle, and with it how late `ChangeAlerted` lets
   an event be stored.
2. `Upgrade`: the upgrade script with its backup and rollback.
