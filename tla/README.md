# Kubervisor in TLA+

Kubervisor watches the pods behind a Kubernetes Service and works as a circuit
breaker per pod: a **breaker** takes pods that an anomaly detector reports out
of traffic, by rewriting a label the Service selects on, and an **activator**
brings each of them back later, or pauses or deletes it when that has been tried
too often. This directory holds a model of that program in TLA+, the TLC
configurations that check it on small instances, and TLAPS proofs about it for
every size. It describes the code under `pkg/` and `cmd/`.

## 1. Inventory

| Component | State it keeps | Operations | Modelled in |
|---|---|---|---|
| Pod control, labels (`pkg/pod`, `pkg/labeling`) | none: the labels `kubervisor/name`, `/traffic`, `/strategy` and the annotations `breakAt`, `retryCount` of the pods | init, cut, activate, pause, remove, kill; selections over lists of pods | `PodControl`, `GarbageCollector` |
| Breaker (`pkg/breaker`), one per strategy | the list of pods it is cutting | tick: detect, list, compute, cut one by one | `Breaker` |
| Activator (`pkg/activate`), one default and one per strategy that has one | the list of pods it is treating | tick: list, then retry, pause, kill or wait for each | `Activator` |
| Anomaly detectors (`pkg/anomalydetector`) | none | pods out of bounds from Prometheus values or from an external service | `Detection` (the analyses), `Breaker` (which pods they may return) |
| Item (`pkg/controller/item`) | the workers of one KubervisorService, a context and a wait group | New, Start, Stop, CompareWithSpec, GetStatus | `TrafficControl` (running workers), `ServiceController` (its life), `Configuration` (its content) |
| Controller (`pkg/controller`) | work queue, item store | event handlers, sync, podsCleaner, initializePods, status updates | `ServiceController`, `Configuration`; `PodControl` and `GarbageCollector` (what it does to pods) |
| Garbage collector (`pkg/controller/gc.go`), one per replica | a counter per pod | updateCounters, cleanPods | `GarbageCollector` |
| Leader election (`pkg/leaderelection`), one per replica | observed record and time | acquire, renew, tryAcquireOrRenew | `LeaderElection`, `Lease` |
| API types (`pkg/api/kubervisor/v1alpha1`) | none | defaulting, the test for it, validation | `StrategySpec` |
| Status conditions (`controller/utils.go`) | none | update of the condition list | `Configuration` (the list), `ServiceController` (which one is True) |
| Signal handling (`pkg/signal`) | the stop channel | close it | `LeaderElection` (`Stop`) |
| Surroundings: API server, watch, informer cache, pods | stored objects, events in flight, cached objects | update with a resourceVersion, delete by name, deliver, relist | `PodControl`, external |
| HTTP server, configuration, kubectl plugin, generated code | | | not modelled (section 5) |

How they interact. The controller's queue worker builds an *item* per
KubervisorService and starts its workers, each a goroutine with its own ticker.
From then on the workers share nothing in memory: they read pods from one
informer cache, which trails the API server, and write them with one API request
each. An update carries the resourceVersion of the copy it was computed from and
is refused if the pod has changed since; a deletion carries no such condition.
Every write returns to the cache as a watch event, and wakes the controller too.
The replicas of the controller elect a leader, the only one to sync; the garbage
collector runs on all of them, beside the leader's workers.

What is hard here: several loops act on the same pods from copies of different
ages; a request may be refused or fail and is then only logged; the memory that
makes the circuit breaker a circuit breaker (when was this pod cut, how often)
lives in annotations that all loops rewrite; the process may die between any two
requests; the clock is compared with a stamp of second precision. The controller
restarts whole sets of workers from a cached copy of a KubervisorService that users
and its own status updates outdate. The election relies on local clocks and on
requests whose answers may be late or lost.

What each component owes:

* **Pod control**: a write from an old copy never corrupts a pod's history;
  `retryCount` counts the cuts, `breakAt` is the second of the last one.
* **Breaker**: never below `minPodsAvailableCount` or `minPodsAvailableRatio`.
* **Activator**: no retry before its back-off (`retryCount * period`), at most
  `maxRetryCount` of them, then pause for ever or deletion; deletes exhausted
  pods only; every cut pod is resolved in the end.
* **Detectors**: a pod is reported for its own bad share only, and an offender
  that is listed is reported.
* **Item and controller**: exactly one set of workers per service, with the
  current configuration, that really gets to run; none after the service is gone.
* **Garbage collector**: strips only pods whose KubervisorService is gone.
* **Leader election**: the record of the leader changes hands only after a lease
  without renewal, a healthy leader keeps it, and a replica that lost it stops.
* **Defaulting and validation**: one defaulting is enough and overrides nobody's
  choice; what is accepted can be built and run.
* **Status**: says whether there are workers, and if not, why.

## 2. Modules

| Module | What it is |
|---|---|
| `PodControl` | Pods at the server, in the cache and in the watch; the requests of `control.go`; the selections of `tools.go` and `labeling`; informer, clock, adoption, and what happens to pods from outside. |
| `Breaker` | EXTENDS `PodControl`: the `Run` loop of every breaker. |
| `Activator` | EXTENDS `PodControl`: the `Run` loop of every activator. |
| `TrafficControl` | EXTENDS both: the workers of one started item, a restart of the process, the properties, and the refinement mapping. |
| `PodLifecycle` | The abstract specification of a pod's life, with no API server, cache or loop. |
| `GarbageCollector` | EXTENDS `PodControl`: adoption, podsCleaner, the workers' relabelling and the garbage collectors of all replicas, on the same pods. |
| `ServiceController` | The controller and one KubervisorService: informer callbacks, queue, sync, the item in the store, tickers. |
| `StrategySpec` | The specification of a KubervisorService: its fields, defaults and validation, as operators. |
| `Detection` | EXTENDS `StrategySpec`: what the detectors find in a listing and the answer to a query, as operators. |
| `Configuration` | EXTENDS `Detection`: what becomes of a specification: defaulted, refused, built, told in the status, evaluated. |
| `LeaderElection` | The election among replicas, request by request. |
| `Lease` | The abstract specification of the leader's record. |
| `MC...` | Constants for TLC. |
| `PodControlProofs` | Lemmas on pods and requests, for the two modules that use them. |
| `TrafficControlProofs` | Types and inductive invariant of `TrafficControl`. |
| `LifecycleProofs` | The refinement of `PodLifecycle`, what follows from it about deletions, and the floor of an evaluation. |
| `DetectionProofs` | What the detectors compute, for answers of any length; used by `ConfigurationProofs`. |
| `ServiceControllerProofs`, `GarbageCollectorProofs`, `LeaderElectionProofs`, `ConfigurationProofs` | Theorems of these modules. |

`TrafficControl`, `ServiceController`, `Configuration` and `GarbageCollector` are
four views that meet in the item. The first opens it and shows the workers, for a
fixed configuration; the second opens the controller around it, keeps of the
workers their tickers only and of a specification its name only; the third looks
into the specification and takes a sync for one step; the fourth keeps of the
workers that they relabel and looks at how pods come under Kubervisor and leave it.

### How state corresponds to code

**Pods.** `server[p]`, `cache[p]` and the members of `events`, `suspects`, `todo` are pod
objects: `exists`; `managed` (label `kubervisor/name` is set); `ready` (running
and ready: `KeepRunningPods` removes nothing `PurgeNotReadyPods` would keep);
`traffic`, `strategy`, `breakAt`, `retry` (the labels and annotations, parsed);
`rv`, a counter per name that stands for both UID and resourceVersion.

`suspects[b]` are the detector's copies (`podsToCut`), `listed[b]` and
`budget[b]` the length of `withTraffic` and what is left of
`podsToCut[:removeCount]`. `todo[a]` are the pods an activator listed and has
not treated yet. `cuts`, `cutAt` and `killed` are history variables: no action
reads them, only properties do.

An evaluation of a breaker is three kinds of steps because the code reads the
cache twice: `DetectAnomalies` (the detector's listing; a Prometheus query
follows), `DecideRemoveCount` (the breaker's own listing) and one `CutPod` per
request. A tick of an activator is a `ListCutPods` and one
`ApplyActivatorStrategy` per pod. Between any two steps anything else may happen.
Each request is one atomic step at the API server: it is applied, refused
because the copy is stale, or fails (`Mishap`). An answer that is lost after
the request was applied looks to the code like a failure and to the pods like a
success; since a loop does the same after both, it is covered by the success.

**Garbage collector.** `counters[c]` is the map of a replica's collector, and
`sweep[c]` its tick under way: `found` is whether the KubervisorService was in the
list the tick began with, `todo` what `cleanPods` has still to do. A tick is
`BeginSweep` (the services are listed), `UpdateCounters` (the pods are), one
`CleanPod` per request, `EndSweep`. `selected` are the pods under the selector of
the Service. `failedOnce` is a history variable.

**Controller.** In `ServiceController`, `ks` is the object at the API server, `ksCache` the copy
`breakerLister` returns, and `fresh` says whether the two are the same revision;
`sync` is the sync under way, with its deep copy `bc` and whether the server
would still accept it (the object an update returns is dropped by the code, so
after the first status update of a sync its copy is old). A sync is three steps,
`TakeKey`, `SyncItem` and `SyncPods`; users, caches and workers act between
them. `TakeKey` has one disjunct per way `sync` ends early (object gone, not
defaulted, invalid, waiting for its finalizers, no StartTime) and one for going on. `item` is the record in `ctrl.items`, `orphans` counts sets of workers
that run without being in it, and the history variable `deletions` how often the
KubervisorService was deleted since the process started. `age` is the time on the tickers, which start anew
with an item. `condition` is the condition that is True, `counts` the pod counts.

**Specifications.** Every optional field of the API type is a field of a record,
`Nil` when it is not set. In `Configuration`, `stored` is the specification at the
API server, `pending` that its key is or will be in the queue, `conditions` the
list in the status, and `item` what the workers were built from. `kubervisorName` is
the name of the KubervisorService, which its pods carry as a label; `LabelValues`
are the names that fit into one. `evaluation` is
what the last step's evaluation read and found, for the properties.
A sample's amount is in tenths, so that the truncation of `uint(sample.Value)` is seen.

**Election.** `holder` is `HolderIdentity` of the stored record. `seen[r]` and
`age[r]` stand for `observedRecord` and `observedTime`: whether what the replica
observed is still the stored record, and for how long. `attempt[r]` is the call of
`tryAcquireOrRenew` under way: the Get, then the Create or Update; the time is taken
before the Get, and an update is accepted only if nothing was written since.
`rest[r]` is the time until the next attempt, `polled[r]` the time since
`wait.Poll` began. `idle` and `trouble` are history variables: for how long the
record was not written, and how much went wrong since.

### Abstractions, and what they leave out

* A deletion is immediate: the termination period of a pod, during which it
  still exists, is not modelled.
* One clock in `TrafficControl`; `Second` ticks make a second, so that
  `BreakAtStamp` really rounds. The comparison `retrytime.Before(now)` is strict,
  as in the code. The clocks of the replicas run at the same rate.
* The mode of an activator is one of the three, or "other" for any other string.
* In `TrafficControl` detectors return any subset of what their filters let
  through. A built-in analyser fails, and so returns nothing, when a ready pod has
  no traffic label.
* The sort order of the listed pods and the order of a Go map are arbitrary.
* A lister over the informer store returns no errors; those branches are left out.
* Readiness and loss of a pod, creation of a pod, failed requests and restarts
  share one budget, `MaxMishaps`. A new pod may carry `traffic=yes` already, as
  docs/README.md asks of the pod template.
* In `TrafficControl` the KubervisorService and the selector of its Service do not
  change; they do in `GarbageCollector`, where time does not pass and the replicas
  share one cache. The item's restarts at a sync wait for the workers to finish their
  tick; `Restart`, which does not, allows more.
* `ServiceController` has one KubervisorService; a queue hands a key to one sync
  worker at a time, so the number of sync workers does not matter. A
  specification is a model value there, and three sets say which ones the
  validation refuses, the test for defaults never accepts, and item.New fails on
  (`Configuration` opens them). The Service's
  selector does not change, the pod counts are an arbitrary value, and
  `podsCleaner` and `initializePods` may only fail. The rate limiter delays a key by
  any time. Starting an item starts all of its workers at once. Stop waits until the
  evaluation ends, and evaluations end.
* `Configuration` has no failing requests and no late caches, and leaves the
  item's selector to `ServiceController`. Times, reasons and messages of a condition
  are left out. Samples are numbers that are not negative: what `uint` makes of a
  negative value or of NaN depends on the platform.
* In `LeaderElection` the pause of a candidate is any of `JitteredRetry`, in whole
  ticks. The callbacks of `Run` only start and stop the workers.

## 3. What is checked

| Run | Instance | Distinct states | Shows |
|---|---|---|---|
| `many_workers` | 1 pod, 2 breakers, a retryAndPause and a retryAndKill activator, `maxRetryCount` 2, 1 mishap, 7 ticks of half a second, fairness | 225,000 | `TypeOK`, `RetryCountsCuts`, `CopiesNotAhead`, `LabelsTellHistory` (the inductive invariant), `ImplementsLifecycle` when four loops race for a pod, with a second back-off twice as long as the first, `SparesServingPods` and `CutPodsAreResolved` |
| `floor` | 3 pods, 1 breaker with a floor of 1 and 75 %, a retryAndKill activator, 1 mishap, 6 ticks, `SteadySpec`, cache in step with evaluations | 510,000 | `FloorOfEvaluation`, `KillsOnlyCutPods` |
| `service` | 5 specifications, one invalid, one never defaulted and one item.New refuses; 3 mishaps; anything may be late by any time; evaluation period 1, resync period 2; fairness | 560,000 | `TypeOK`, `OrphansComeFromDeletions`, `NoServiceNoItem`, `WorkersFollowSpec`, `EvaluationsGoOn` |
| `garbage` | 1 pod, 2 collectors, `MissCountBeforeGC` 2, 3 mishaps, names come back, fairness | 320,000 | `TypeOK`, `ServedPodsKept`, `LabelsFollowService` |
| `election` | 2 replicas, lease 5, renewal within 3, retry every 2, 2 mishaps, fairness | 115,000 | `TypeOK`, `ImplementsLease`, `NoSpuriousTakeover`, `LeadershipSettles` |
| `configuration` | 24 specifications, 2 names, answers of up to 2 samples about 2 pods, 2 edits | 960,000 | `TypeOK`, `DefaultingSettles`, `ValidatedBuilds`, `WorkersComplete`, `StatusTellsItem`, `ItemMatchesSpec`, `SparesHealthyPods`, `FindsOffenders`, `FindsDeviations` |

In the runs of `TrafficControl` deadlock is not checked because a service really
may become quiet: at the bound of the clock, with no event in flight and nothing
to cut, there is no step left. In all others something can always happen.

Runs that find a disagreement between the code and what its documents say, each
with one property (the findings of `PROJECT.json` quote both sides):

| Run | The code... |
|---|---|
| `stale_pause` | counts a pod that is already paused against its own pause and deletes it (`PausedForEver`) |
| `strategies_mixed` | lets the activator of one strategy treat the pods cut by another (`OwnCutsOnly`) |
| `two_strategies` | lets two breakers cut at the same time, each down to its own `minPodsAvailableCount`, and both together below it (`MinCountKept`) |
| `two_sets` | leaves the workers of a deleted KubervisorService running beside those of the next one of that name (`OneSetOfWorkers`) |
| `leads_on` | lets a leader that lost its lease go on leading beside the new one (`DeposedLeaderGivesUp`) |
| `left_out` | leaves `traffic=no` on a pod it releases, for good (`ReleasedPodsServe`) |

### The bounds

`TrafficControl`: six ticks (three seconds) with `Period = 2` and `maxRetryCount = 1`
are enough for cut, back-off, retry, second cut and exhaustion, and seven for a second
retry; one mishap is enough for each single disturbance at every possible moment.
`many_workers` has one pod, because its loops meet in one pod, and the pods of a
listing are independent but for two counts: `maxPauseCount`, the subject of
`stale_pause`, and the floor. For the floor, three pods are the fewest for which 75 % asks for
more than the count of 1, and rounds. `rv`, `retry` and `cuts` are not bounded
themselves: each write of them is paid for with a tick or a mishap, since a
retry needs time to pass. Pods are symmetric except in the liveness run.

`ServiceController`: time is cyclic (seconds since the last tick and since the
last resync), so that liveness is about behaviours without end. The periods matter
by their order only. Three mishaps let a KubervisorService and its Service
appear and one thing go wrong after that: a change, a deletion, a refused request,
a restart.

`GarbageCollector`: two collectors, because their updates of one pod refuse each
other; a count of two, so that a service may come back between two sweeps; three
mishaps, for a service that goes and comes back and a request that fails
meanwhile. `MaxCuts` bounds how often the workers relabel.

`LeaderElection`: the durations keep the order of the code's own (15, 5 and 3
seconds) and `NewLeaderElector`'s conditions; a leader has `Patience` = 2 attempts
to renew within a lease, so two mishaps are what it takes to lose it. `leads_on`
allows a third.

`Configuration`: the specifications of `MCConfiguration` leave out every optional
field at least once, and break every rule of the validation that the others do
not imply; two strategies in both orders distinguish lists from sets. Two edits are
a change and another one, or a restart, on the way. The amounts are below, at and
far above the minimum activity, one of them not whole; one lies exactly on the
bound of the continuous strategy that allows 80 %, the others beyond it. One of
the two names is no label value.

### Fairness

`CutPodsAreResolved` assumes weak fairness of `DeliverEvent`, since the
informer's reflector goes on delivering what the server sent, and of each
activator's step, since its `select` waits on nothing but a ticker and its requests
have no lock or queue in front of them. Breakers get no fairness: whether an
anomaly is found is up to the metrics. Mishaps and ticks get none either, and
`MaxMishaps` bounds the failed requests, so that the property says "if requests
fail only finitely often".

`ServiceController` assumes weak fairness of the rate limiter, the informers,
the clock and the workers, each a goroutine of its own. The sync has strong
fairness: when it waits in `Stop`, the workers' context is cancelled, and a
worker that finds both its ticker and the context ready picks one at random, so
that it leaves in the end. `EvaluationsGoOn` assumes in its statement that, from some
time on, what is due in a second is done in that second: requests are fast
compared with the periods, while the rate limiter may still hold the key for
any time.

`GarbageCollector` assumes weak fairness of the informers, of each collector, and
of adoption and podsCleaner: the resync of the informers brings the key to the sync
every 30 seconds, whatever events were missed. `LeaderElection` assumes that
time passes and that each replica's loop goes on: a request is answered, with
success or not, and a container that died is started again by the kubelet.
Users and failures have no fairness anywhere, and `MaxMishaps` bounds them.

### Known limits of the code, kept out of the passing runs

Several have a run of their own above; the others can be seen by changing the
constants of a run as indicated.

* **The floor holds for one evaluation of one strategy.** `floor` has one breaker;
  `two_strategies` shows what two do. It also has `SyncedEvaluation = TRUE`, that is,
  no watch event outlives an evaluation period: an evaluation over a cache that does
  not show the previous cut yet takes the pod that was cut for one in traffic, and
  cuts another. And it has `SteadySpec`, in which a ready pod stays ready unless an
  activator deletes it: a pod that dies between the listing and the cut lowers the
  count in a way no listing could see. Requests may fail, pods appear or become
  ready, and the process may restart. `FloorOfEvaluation` speaks of the share of the
  pods listed: the code takes the ratio of the pods still in traffic, not of those
  under the selector, so each evaluation starts from what the last one left, and
  the share of all pods is not kept.
* **An activator with an unknown mode does nothing.** The mode is not validated; with
  `Mode` "other" no cut pod comes back, and none is owed anything (`Owed`).
* **Activators with different limits delete what another has retried.** Each treats
  all cut pods of the service, and one that stops at fewer retries gives up from its
  older list on a pod that another has just put back. `SparesServingPods` has one
  limit in `many_workers` and fails with two.
* **A long evaluation period never ends.** `labels.Selector.Add` returns the
  extended selector and `newKubervisorServiceItem` drops it, so every sync takes the
  selector for changed and restarts the workers, at the latest with every resync
  of 30 seconds. `EvaluationsGoOn` holds for `EvaluationPeriod` below
  `ResyncPeriod`, and fails above.
* **What the controller does not act on keeps the workers it has.** A
  KubervisorService that is invalid, never defaulted or waiting for its finalizers
  is left alone, and so are the workers started for it before. `WorkersFollowSpec`
  and `NoServiceNoItem` speak of the others (`Followed`).
* **An incomplete activator of a continuous strategy is started.** With a continuous
  detector the test for defaults does not ask for the activator, and the workers
  dereference what is not set; `WorkersComplete` excepts it.
* **A strategy with an incomplete activator of its own is never served**:
  `DefaultBreakerStrategy` does not fill it in and the test for defaults asks for it.
  `DefaultingSettles` and `StatusTellsItem` except it (`OwnActivatorForgotten`), and
  `ServiceController` has it as `Undefaultable`.
* **`minimumActivityCount: 0` divides by zero** on a pod whose samples add up to
  nothing after truncation (`DividesByZero`): the evaluation panics, and the
  properties of the detectors speak of those that return.
* **A collector's counter is never reset when the service reappears**; if its
  last update failed, the next sweep strips the pod although the service is there
  again. `ServedPodsKept` names exactly this exception.

## 4. What is proved

The proofs hold for every finite set of pods, any breakers, activators,
collectors and replicas, any modes, periods, durations, limits and specifications.
Every type invariant, safety invariant and action property of the passing runs
is the conclusion of a theorem; what is assumed beyond the constants' own
assumptions is named here and in the statement.

### Traffic control

* `TypeCorrect`: `Spec => []TypeOK`, without further assumption.
* `InvCorrect`: `Spec => []Inv`, and from it `RetryCountIsExact`,
  `CopiesNotAheadCorrect` and `LabelsTellHistoryCorrect`.
* `LoopsImplementLifecycle`: `Spec => Lifecycle!Spec`.
* `SparesServingPodsCorrect`, and `KillsOnlyCutPodsCorrect` where no activator pauses.
* `FloorOfEvaluationCorrect`, from `SteadySpec`.

`InvCorrect` and the theorems that follow from it assume `CustomDetector = {}` and
`~NamesReused`. Both are needed. A CustomService may name a paused pod, or one
that is cut already, and is obeyed. A deletion goes by name: with a StatefulSet, whose
pods come back under their old names, a copy of an exhausted pod may delete its
fresh successor.

The argument. `RetryCountsCuts` alone is not inductive: a breaker writes
`copy.retry + 1` from whatever copy it holds. It holds because the server accepts
the write only from a current copy, and `CopiesNotAhead` says that a copy with the
stored revision *is* the stored object, wherever it is held: in the cache, in the
watch, or in a loop. `CopiesNotAhead` is kept because each accepted write moves
the stored revision past all existing copies (`StoreNotAhead`). It also records
the label a loop selected its copies by, which a current copy then shares with
the stored pod: so a cut really takes a pod out of traffic, and a retry really
brings one back. `LabelsTellHistory` adds that `breakAt` is within a second of
the last cut and that a lost or killed pod leaves nothing behind.

The refinement reads the phase of a pod off its stored labels. A step of a loop
that writes is one step of `PodLifecycle` and every other step stutters. The only
case that is not about a current copy is the deletion: the copy may be old, but
its retry count is at most the pod's (`NotAhead`), so if the copy was exhausted
the pod is: `KillIsKill`. With reused names this is what fails.

What activators delete follows from the lifecycle alone. `RetriesLeft` says that a
pod in traffic has not been cut more often than there are retries, since each
retry was allowed by the same limit that now condemns it; so a pod that is
exhausted is cut or paused at the moment its deletion arrives, however old the
list (`KilledWasCut`). That needs `OneLimit`: all activators that give up on pods
do so after as many retries, and a periodic one, which never gives up, does not
run beside them. Where some activator pauses, an old list may hold a pod that was
paused since, and deletes it (the finding of `stale_pause`); hence the condition of
`KillsOnlyCutPodsCorrect`.

The floor relates three sets that are read at different times: the detector's
copies, the breaker's listing, and what is in traffic when a request arrives.
`RoomForCuts` states that the stored pods in traffic outnumber the cuts still allowed
by at least the minimum the listing set. A cut that is accepted takes one from both
sides (`OneLeaves`); an activator's deletion takes nothing, because a deleted pod is
not in traffic; everything else adds. The room is there to begin with because
`SyncedEvaluation` makes the listing current for every pod the breaker may have cut
before: no event is in flight, and then the cache equals the server, by
`WatchReachesServer` (for each pod the last event in the watch, or the cache if
there is none, is what the server holds). The assumptions beyond those of
`InvCorrect` are the ones of the run: one strategy, since two really go below; a
watch delivered between evaluations; `Steady`; and `OneLimit`, without which an
activator deletes pods in traffic between listing and cut. The ratio is that of the
listing, `MinAvailablePods(listed)`, which is at least `MinCount` and short of
`MinRatio` by less than a pod.

### Controller

* `ControllerTypes`: `Spec => []TypeOK`.
* `OrphansComeFromDeletionsCorrect`: `Spec => []OrphansComeFromDeletions`, without
  further assumption.

`OrphansComeFromDeletions` is not inductive: `clearItem`, on a copy that does not
exist, drops whatever item there is, long after the deletion was counted. So
`OrphansPaid` lets a deletion pay when it happens. As long as the controller holds an
item, a sync or a cached copy while the object is gone, or is back but the cache
says it is gone (`Unsettled`), one set of workers may still be dropped, and the
inequality counts it already. Only a deletion unsettles anything: the object a sync
writes back exists, and nothing is built while the cache shows no KubervisorService
unless that sync began before.

### Garbage collector

* `Types` and `ServedPodsKeptCorrect`: `Spec => []TypeOK`, `Spec => ServedPodsKept`.

The inductive part is `FullCountersExplained`: a counter that has reached the count
belongs to a pod the collector failed to clean, or to one that the sweep under way
has just missed and has still to clean. The second kind is never about a sweep that
found the service; only a failure makes a full counter outlive its sweep.

### Leader election

* `Types`: `Spec => []TypeOK`, with the fact that a leader's next attempt always
  falls within its poll.
* `ElectionImplementsLease`: `Spec => LeaseOf!Spec`, from the assumptions of
  `NewLeaderElector` alone.
* `NoSpuriousTakeoverCorrect`: `Spec => NoSpuriousTakeover`, from the same.

The record is a lease because three ages agree. What a replica observed began after
the record was written (`ObservedSince`): so if it finds its observation as old as
a lease, the record is (`ExpiredWhenAsked`); and if nothing was written between the
Get and the Update, it still is when the update is accepted (`ExpiredWhenTaken`),
since time only makes it older. A write by the holder is a renewal, one by
another replica a take-over, and every other step stutters or lets time pass.

That a leader is not robbed of its record is a matter of counting. `Tries(t)` is
how often a poll on schedule, begun anew whenever it times out, tries within `t`
ticks. `Paid` says, of a leader that holds the record: whatever time `s` is still
to pass, if every try in it fails then as much will have gone wrong as a poll begun
with the lease would have tried by then. It has to look ahead because a lease
does not begin with a poll: when the answer to an accepted update is lost, the
record is renewed and the poll goes on in its middle. Two facts about `Tries`,
proved for any durations, make up for that: it repeats with every poll
(`TriesOfNextPoll`), and no part of a schedule as long as its beginning has fewer
tries (`TriesAddUp`). `Undisturbed` says that nothing spoils the leader's own
update, and `Paced` that its next try is on schedule; `PaidSoFar` is what `Paid`
has come to when the lease ends, and bounds `trouble` by `Patience` from below.

### Configuration

* `DefaultingSettlesCorrect`, `ValidatedBuildsCorrect`: for every specification and
  every name of the KubervisorService.
* `Types`, `WorkersCompleteCorrect`, `StatusTellsItemCorrect`,
  `ItemMatchesSpecCorrect`: invariants of every behaviour.
* `EvaluationFollowsCorrect`, `SparesHealthyPodsCorrect`, `FindsOffendersCorrect`,
  `FindsDeviationsCorrect`: what evaluations find, for every
  strategy, listing and answer.

The invariant adds that the strategies of the item were found defaulted, and that
Running is true as long as there is an item. `ItemMatchesSpec` rests on
`SameStrategies`: CompareWithSpec looks each strategy of the specification up in
the item by name and compares the lengths; because the validation made the names
unique, as many strategies as the item has are found there, so there is no other.

The detectors are folds over the samples of an answer. What such a fold yields is an
induction over the samples, and the library's induction theorems cannot be
instantiated here, so `DetectionProofs` argues by the least prefix of the answer
for which a claim fails (`LeastNumber`, from the well-foundedness of the order of the
naturals). The counters of `buildCounters` are then compared with the exact sums the
properties speak of: each sample loses less than one unit to `uint`, which is
the tolerance `SparesHealthyPods` grants and `FindsOffenders` excludes.
`EvaluationFollows` ties them to behaviours: what the last evaluation found is what
the detector makes of a listing and an answer, under a strategy that passed
defaulting and validation (`ItemUsable`), so that no parameter it reads is unset.

### Only model-checked

Liveness under fairness is out of the prover's reach. `CutPodsAreResolved`,
`NoServiceNoItem`, `WorkersFollowSpec`, `EvaluationsGoOn`, `LabelsFollowService`
and `LeadershipSettles` are checked by TLC on the instances above, and by nothing
else. The findings are counterexamples of TLC.

## 5. Not modelled, and what is left

* **Several KubervisorServices.** `podAction` and `serviceAction` return at the first
  KubervisorService whose Service is missing or that matches, so that others wait
  for the resync. `ServiceController` has one; a second one would multiply its
  state by itself.
* **The wait group of an item.** `waitGroup.Add` runs inside the goroutine, so that
  a Stop right after Start may not wait for a worker; and a detector without a
  deadline can block Stop. The model starts the workers with the item and lets
  evaluations end.
* **HTTP server, health checks, metrics**: no state that the other parts read.
* **Configuration and clients, registration of the CRD**: start-up, sequential, read once.
* **kubectl plugin**: prints a table. **Generated clients, listers, informers**:
  what the controller needs of them, a cache that trails the server, is in
  `PodControl` and `ServiceController`.
