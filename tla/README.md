# A verification of promeproxy in TLA+

promeproxy is a cut-down Prometheus server: it discovers targets without scraping
them, and answers queries from remote storages and from other Prometheus servers. It
also has the queues that forward samples to remote storages and reconfigures them,
though at this commit nothing calls their `Append`. This directory models the
program in TLA+, checks the models with TLC on small instances, and proves every
safety property that holds with TLAPS for every instance.

Paths of source files are relative to the root of the repository.

## 1. The system

| component | state | operations | talks to |
|---|---|---|---|
| remote write queue, `storage/remote/queue_manager.go` | generations of shards (channels, batches, goroutines), `numShards`, counters, the `queue_length` gauge | `Append`, `Start`, `Stop`, `calculateDesiredShards`, `reshard`, `runShard`, `sendSamplesWithBackoff` | `Client.Store`; called by `Writer` |
| rates, `storage/remote/ewma.go` and `calculateDesiredShards` | three moving averages, `integralAccumulator`, `numShards` | `incr`, `tick`, the decision | fed by `enqueue` and `sendSamples` |
| writer, `storage/remote/write.go` | the queue managers of the current configuration, an `RWMutex` | `ApplyConfig`, `Append`, `Stop` | several queue managers |
| remote read and fan-in, `storage/remote/read.go`, `client.go`, `iterator.go`, `storage/fanin/fanin.go` | the list of clients, the URL of each, and for each query a map from fingerprints to merged iterators | `Reader.ApplyConfig`, `Queriers`, `querier.query` with a goroutine per remote, `Client.Read`; external labels; the merge of samples | remote storages |
| target manager, `retrieval/targetmanager.go`, and scrape pools, `retrieval/scrape.go` | `scrapeConfigs`, a context, the map of target sets; in each pool the configuration and the targets | `Run`, `Stop`, `ApplyConfig`, `reload`, `Targets`; `Sync`, `sync`, `reload` | the vendored `discovery.TargetSet` and its providers |
| targets, `retrieval/target.go` | labels of a target | `populateLabels`, `targetsFromGroup`, `Labels`, `URL` | called by `Sync` and by the API |
| main program, `cmd/main.go`, `cmd/config.go` | the reloadables, signals | start-up, `reloadConfig`, exit | all of the above |
| web handler and API, `web/web.go`, `web/api/v1/api.go`, `utils/httputil.go` | the listener, the reload channel; the slice of answers of a proxied request | handlers, `proxyReq` and the merging of answers | query engine, target manager, other servers |

How they interact. `main` applies a configuration to the writer, the reader, the
target manager and the web handler in turn, starts the target manager and the web
server in goroutines, and applies the configuration again at every SIGHUP, from one
goroutine. Queries and syncs run concurrently with that, and so would appends, which
the models let come at any time. `Writer.Append` passes a sample to every queue
manager; the goroutines of a queue manager share its `shards` object under
`shardsMtx` and its rates through atomic operations; a query shares its map with its
own goroutines, and the URL of a client with all other queries.

What is hard:

* *order across generations*: resharding, and applying a configuration, replace the
  goroutines that send while samples of the same series are still being retried;
* *everyone waits for everyone*: `Stop` waits for loops that wait for flushes that
  need the mutex; `ApplyConfig` flushes with the lock of all appenders held;
  `reload` waits, holding the mutex of `Stop`, for loops that may have returned;
* *partial failure*: a request that times out may have been taken;
* *feedback*: the number of shards follows from averages whose inputs are updated
  one after the other, and nothing keeps it above zero;
* *unsynchronised sharing*: the map of a query, the URL of a client, the
  configuration of a scrape pool, the slice to which the goroutines of a proxied
  request append;
* *goroutines that outlive their purpose*: those of replaced providers of targets
  may still deliver what they have in hand;
* *edges of numbers*: rounding a query's window to seconds, the length of a range in
  nanoseconds, the order of equal timestamps.

What makes each part correct:

* queue: per-series order, one generation at a time, nothing lost or counted twice,
  `Stop` flushes and returns;
* rates: no event lost, no drift, at least one shard;
* writer: order and running queues across configurations, calls return;
* read: a result holds what the remotes answered to this query, and only that;
* target manager: the sets follow the configuration, none is forgotten, the targets
  settle, `Stop` returns;
* targets: what is left of a group can be dialled and has the configured URL;
* main program: a reload reaches every component that can take it;
* API: a response is made of bodies that targets sent, and every request is
  answered; a range query is refused only for a reason.

`PROJECT.json` lists the hazards line by line, each with the properties that would
catch it, and with a note where they catch only a part of it or nothing.

## 2. Modules

| module | models | state and actions |
|---|---|---|
| `QueueManager` | a queue manager with all its goroutines | generations `shards`, `size`, `closed`; per shard `queue`, `goroutine`, `pending`, `retries`; `mgr`, `updater`, `resharder` are the program counters of the caller of `Start`/`Stop` and the two loops. One action per critical section: `Append` is `AppendSample` and `IncQueueLength` (the gauge is updated after the unlock), a reshard is `ReshardSwap`, `ReshardClose`, `ReshardStart` |
| `OrderedDelivery` | what a queue manager promises, without shards, batches or goroutines | samples on their way, samples the remote has, counters |
| `ShardCalculator` | `ewmaRate` and `calculateDesiredShards`, in exact arithmetic: a rate is a numerator `lastRate` over a denominator `scale` that each tick multiplies by 5 | `tick` is `TickLoad` and `TickSubtract`, its two atomic operations; `sendSamples` ends with `SamplesOutIncr` and `SamplesOutDurationIncr` |
| `BatchDeadline` | the clock of `runShard` | size and age of the batch, the running timer |
| `EndpointDelivery` | what a writer promises to its endpoints, without configurations, queues or locks | samples on their way to each endpoint, samples it has |
| `Writer` | `remote.Writer` over the queues of successive configurations; a queue is what `OrderedDelivery` describes | `ApplyConfig` is `ApplyConfig`, `MakeQueues` or `ApplyConfigFails`, the stops, `SwapQueues`, `StartQueue`, `Applied`; two stoppers, as `Stop` takes no lock |
| `RemoteRead` | `Reader`, `querier.query`, `Client.Read` | a goroutine per remote: write the URL, request, reply, then for each series `Lookup`, then `Insert` and `Store`, or `ReadRemote` and `Assign`; every access to shared memory is a step of its own, and what inserts that overlap may do to the map is `StoreElsewhere` and `Lose` |
| `TargetManager` | `TargetManager` and `scrapePool` with the loop of the vendored `TargetSet` | program counters of `main`, `Run` and the SIGHUP goroutine, `reload` job by job under `mtx`, a loop per target set, `Sync` group by group, groups that arrive late (`LateGroup`) and those of replaced providers (`StaleGroup`) |
| `SampleMerge` | `sampleStreamIterator`, `mergeIterator`, `mergeSamples` | operators |
| `ReadQuery` | what one remote is asked: external labels, the window in seconds | operators |
| `TargetLabels` | `populateLabels`, `targetsFromGroup`, `Target.URL`, `getPromTargets`, and the vendored `relabel.Process` | operators |
| `RangeQuery` | `parseTime`, `parseDuration`, the checks of `queryRange`, in integers that wrap, and the steps of the vendored engine | operators |
| `Operators` | no code of its own: what `ReadQuery`, `RangeQuery`, `SampleMerge` and `TargetLabels` promise for one input | `kind` and `input` |
| `API` | the handlers of `web/api/v1` and `proxyReq` | a record per connection, a goroutine per connection and target; the append to `bodys` is a step per word (`Load`, `Grow` or `InPlace`, `StoreCap`, `StorePtr`, `ReloadPtr`, `StoreLen`, `StoreElem`) |
| `Server` | `Main`, `reloadConfig`, the web handler, over `API` (`EXTENDS`) | program counters of `Main` and `Handler.Run`, who runs `reloadConfig` and what it has `todo`, the configuration each reloadable has `applied` |
| `MC*` | the instances that TLC checks; `MCOperators` enumerates the inputs of `Operators`, and `MCCalculations` puts them beside `ShardCalculator` in one run | values of the constants, inputs, constraints |
| `*Proofs` | the proofs | |

How they fit together. `Writer` uses a queue as `OrderedDelivery` describes it, and
`QueueManager` is shown to implement that; `Writer` in turn is shown to implement
`EndpointDelivery`. `Server` composes `API` with the program around it; what
`ApplyConfig` does in each reloadable is in `Writer`, `RemoteRead` and
`TargetManager`, and `Server` keeps only which configuration it was and whether it
failed. `SampleMerge` takes the order of the remotes from `RemoteRead`, where the
order of arrival decides it. `TargetLabels` is what `TargetManager` calls
`FromGroup`, and `PromTargets` gives the addresses that `ProxyReq` asks;
`RangeQuery` tells which queries end in bad data.

The append in `proxyReq` works on a captured slice, so Go does it in place, word by
word: it loads pointer, length and capacity; without room, `growslice` copies to a
new array, and capacity and pointer are stored; then the length is stored, and the
element last. The model has each of these as a step, the loads in any order. So a
goroutine may hold words that do not belong together, two may write one element, and
one may copy an element that nobody has written. Such an element is `Nil`; an index
outside the array ends the process (`Faults`). The element itself has three words,
which the model writes at once, but for two writers of one element, who may leave a
mixture. The variable `raced` remembers which requests had appends that overlapped.

An insert into the map of a query, which no lock protects, takes two steps: a slot,
and its value. If two inserts overlap, Go's map promises nothing. The model lets the
value go elsewhere, and lets any entry get lost or be left without a value (`Void`);
a lookup during an insert may see the entry, none, or one without a value; and the
runtime may notice and end the process. A key that gets two slots is modelled as
overwritten. The variable `overlapped` remembers the queries for which an access has
overlapped with an insert.

When a target set gets new providers, the old ones are cancelled and nobody waits
for their goroutines. One that has received a group can enter it into the map that
was cleared in between. It may take the place of the new group of the same key
(`Source`), and as nobody updates it any more, it stays.

`relabel.Process` is modelled with all its actions. A rule carries what its regular
expression does: the values it matches, or what it makes of each of them. If
`labelmap` gives two labels one name, the code keeps the one that `range` visits
last; the model has an arbitrary one of them (`CHOOSE`), of which the proofs assume
nothing.

Data is abstract: a metric is a value that `Relabel` and `Hash` map; a version
stands for the contents of a scrape configuration, and `FromGroup` for the targets
that a group yields under it. An operator that a comment calls a mutant is a
plausible bug in the operator that follows it. It is no part of any specification;
put in the place of that operator, it violates the property that `PROJECT.json`
names, so that property depends on the code.

External parts. A remote storage takes a request whole, in part, or not at all, and
a failure may come after it was taken. A provider of targets delivers its group
within the five seconds that the loop waits, or later. `sync.WaitGroup` panics when
it is reused before `Wait` has returned. A server behind the API's proxy answers any
body, or cannot be reached; the status of its answer is not looked at. The query
engine returns a result or any of its errors.

## 3. What the runs check

| run | instance | shows |
|---|---|---|
| `queue_safety` | 2 appenders, 3 metrics (one is dropped by relabelling) in 2 series, 2 shards, capacity 2, batches of 2, 2 tries, 2 reshards, 3 samples | `InOrder`, `OneGenerationRuns`, `Accounted`, `StopFlushes`, `GaugeTracksQueues`, and that the queue implements `OrderedDelivery` |
| `queue_liveness` | 1 appender, 1 reshard | a sample is settled, `Stop` returns, a reshard completes |
| `calculations` | rates: 2 senders, 4 ticks, 2 samples; algorithms: all inputs of section 3.1 | `EventsConserved`, `RateWithinHistory`, `IntegralIsBacklog`; `RangeIsReference`, `PointAsDocumented`, `ReadKeepsSeriesApart`, `WindowIsSampled`, `TargetsAsConfigured`, `ShortRangesAccepted` |
| `drained_backlog` (violated) | 1 sender, 7 ticks | `SomeShard` fails: see finding 1 |
| `batch_wait` (violated) | batches of 5, deadline 4 | `WaitsWithinDeadline` fails: finding 4 |
| `range_cut` (violated) | all samples of section 3.1 | `RangeAsDocumented` fails: finding 5 |
| `read_merge` | 2 remotes, 1 query, 2 series, 1 reload that adds a remote | what survives the race for the map: `MetricIsDefined`, `ResultsWereAnswered`, `LocalStays`, `UncontestedMerged`; and `QueryReturns` |
| `read_map_race` (violated) | 2 remotes, 1 series | `EveryAnswerMerged` fails: finding 2 |
| `read_url_race` (violated) | 1 remote, 2 queries | `AnswersOwnQuestion` fails: finding 3 |
| `writer` | 1 appender with 2 samples, 2 endpoints, 2 configurations | `EndpointOrder`, `OnlyStopPanics`, `AppendFindsRunning`, `CallsReturn`, and that the writer implements `EndpointDelivery` |
| `targets` | 1 job in 2 versions or absent, 3 groups, two of one key, 2 targets, 2 SIGHUPs | `SetsMatchConfig`, `NoSetLeaks`, `PanicsNeedOverlap`, `Converges`, `StopReturns` |
| `server` | 2 connections, one with any request to the API and one with `POST /-/reload`; 2 targets, 2 bodies, 1 SIGHUP | `ReloadApplies`, `BodysSurvive`, `ResponseMerged`, `RequestAnswered` |

Why the bounds are enough.

* Two samples of one series and two generations are what an overtaking takes; the
  third sample makes one batch full and another partial, and capacity 2 lets a
  channel overflow. `Desired` asks for more, fewer and no shards.
* The rates can go wrong in the first tick, which bypasses the average, and in the
  ones after it; four ticks have both. In `drained_backlog`, seven are the fewest
  that show the violation from one sample.
* With two remotes, every pair of steps of two goroutines meets on the map; the two
  series let an insert lose the entry of another.
* In `writer`, two configurations are what it takes to replace queues that hold
  samples; the second endpoint lets a configuration add, drop and keep one. Several
  appenders meet only at the lock; the proofs cover any number.
* In `targets`, two SIGHUPs can drop a job and bring it back, or change it twice;
  jobs share only the mutex, and the proofs cover any number of them. The versions
  have a group with the same key and one without, so that a stale group can replace
  a group or stand beside it.
* In `server`, two targets are two goroutines that race for one slice, from the
  empty one on; a third would meet a slice with room left, which the proofs cover
  with any number. The bodies are one that is not JSON, and a list that is not in
  order, of which two have duplicates. The constraint `MCApart` keeps the words of
  an append apart from the steps of a reload, of the listener and of the exit, which
  share nothing with them; it bounds the run only, not the proofs. The handlers of
  `targets` and `alertmanagers` do what that of `series` does, so the instance
  leaves them out. A second connection that hangs is what `RequestAnswered` has to
  survive; one SIGHUP gives two configurations.

The violated runs check one property each. `drained_backlog` has the constraint
`MCAtomicIncr`, which sets aside the ticks between the two `incr` calls of
`sendSamples`, to show that the violation does not need that race; it has shorter
ways with it. In `read_map_race` and `read_url_race` the instance is the smallest
that has the race.

Deadlock is checked in every run. A process that has panicked, stopped, exited or
done all that its bounds allow stutters explicitly.

### 3.1 The pure algorithms

`calculations` has one initial state per input, beside the rates, and a property
compares what the operators compute with a reference.

* Samples: times 2 to 4, a local stream and up to three remotes with any of them,
  every interval within 1 to 5. Each stream has its own value, so that a result
  tells whose sample it is. `RangeIsReference` says what `RangeValues` does, with
  the cut at the first local sample *of the interval*; `PointAsDocumented` and
  `RangeAsDocumented` hold both reads against the comment on `mergeIterator`, which
  speaks of the first local sample *of the series* (`Considered`). The point read
  keeps to it, the range read does not (finding 5).
* External labels: two names, two values each or absent, all external label sets and
  all pairs of matchers, against a remote that has every label set.
* Windows: from two to five seconds long, with ends at, just before and just after
  the half seconds from -4.5 s to 4.5 s. A window shorter than the step of two
  seconds can have no instant in it; the staleness delta is far longer.
* Targets: a group of a target that is always fine and another one: addresses with a
  port, without one, with a slash, and that no port makes valid; schemes, jobs,
  instances, parameters and meta labels that are there or not, also invalid ones;
  labels of the group; ten sequences of up to two relabelling rules, with every
  action, some of which drop one of the two targets, and three sets of parameters.
* Ranges: integers of 5 bits instead of 64, two nanoseconds to a tick, a limit of 3
  steps; parameters on both sides of the overflow, NaN, text and garbage.
  `ShortRangesAccepted` says that the test of `queryRange` refuses no range which
  the engine would go through in few enough steps. The other direction does not
  hold: see the end of section 5.

### Fairness

Liveness is checked under weak fairness of each goroutine's steps: the Go scheduler
runs a goroutine that can run, timers fire, requests have a timeout
(`remote_timeout`), and the number of retries is bounded. New work is never assumed:
no `Append`, query, SIGHUP, reload or `Stop` is fair. Two assumptions are stronger.
In `Writer`, `RLock` is strongly fair, because an `RWMutex` lets the readers that
wait go before the next writer. In `TargetManager`, a goroutine that waits for the
mutex gets it, because a `Mutex` hands itself to a waiter that has starved, and
providers deliver in the end unless they are cancelled; what a replaced provider has
in hand may come or not. In `RemoteRead`, the loss of an entry and the end of the
process are never assumed to happen. In `Server`, the goroutines of `proxyReq` go on
because the connections they use have a deadline of three seconds
(`NewDeadlineRoundTripper`), and `reloadConfig` goes on because `ApplyConfig`
returns, which `Writer` and `TargetManager` show under their own assumptions; no
request and no signal is assumed.

## 4. What is proved

TLAPS checks the following for all values of the constants that satisfy the
assumptions of the modules (`ConfigAssumption`, `CalculatorAssumption`,
`WriterAssumption`, `ReadAssumption`, `TargetAssumption`, `ServerAssumption`,
`ApiAssumption`, `LabelAssumption`, `WidthAssumption`, `TimeAssumption`,
`NameAssumption`: sizes are positive, functions have their types, `None`, `Void` and
`Nil` are nothing else, `Earliest` is before `Latest`, no two parameters have one
label, the names of meta labels and of the labels that `populateLabels` sets differ,
and a valid host with a port added is valid). `BoundedWait` assumes `Configured`: a
positive deadline and batch size.

**`QueueManagerProofs`.** `Invariance`: the conjunction `IInv` of `TypeOK`,
`Structure`, `Order` and `InOrder` is inductive. `InOrder` alone is not, as it says
nothing of where samples are. `Structure` says who may own samples: only the current
generation and, while it is flushed, the one before, and the current one does not
run meanwhile. `Order` says that samples are sorted within a shard, that a series
has one shard per generation, and that a younger generation holds younger samples.
From it: `TypeCorrect`, `DeliveredInOrder`, `GenerationsExclude`,
`StopLeavesNothing`. `NothingLost` adds that every number below `nextId` is in
exactly one place. `Refinement`: every step of the queue is a step of
`OrderedDelivery` or leaves it unchanged. `GaugeIsExact` is about the sizes of sets.
`GaugeInv` adds to the equation that both sets are finite, without which a
cardinality says nothing; there may be infinitely many appenders. A received sample
leaves the union of all channels only because no other channel has it (`OneShard`,
from `Order`), and the appended one is new to it.

**`ShardCalculatorProofs`.** `NoEventLost`: the invariant `ConservedInv` says that
what `tick` has read is still in the counter when it subtracts it. `RatesBounded`:
the average of two rates below the peak is below it; `RateTypes` adds that a rate
has not counted anything before its first tick. `NoDrift`: `IntegralIsBacklog`
speaks of the moments between two calculations only, and in the middle of one the
three rates have different denominators. `IntegralInv` says which rates have ticked
(`Ticked`), what all ticks of a rate have put into the accumulator (`Share`), and
what they had put in at the last decision (`Settled`). All three hold for any number
of ticks; the model's bound on ticks is a bound of the runs.

**`BatchDeadlineProofs`.** `BoundedWait` says how long the wait that finding 4 is
about can get (`WaitsAtMost`): one deadline per sample of the batch. The invariant
`AgeBound` is one deadline per sample before the last and the turn that is being
waited.

**`WriterProofs`.** `OrderAcrossConfigs`, `NoPanicWithoutStop` and
`AppendsReachRunningQueues`. The invariant: `LockHeld` (an `Append` in its loop has
the current queues, and `ApplyConfig` has not got the lock), `Flushed` (only current
queues hold samples, and not once they have stopped), `Numbered`, and `Undisturbed`
(without `Stop`, `ApplyConfig` alone stops queues, each once, and finds it open).
The order follows as at most one queue has samples for an endpoint, and it sends the
oldest of a series first. `OneQueuePerEndpoint`: the writer implements
`EndpointDelivery`. The refinement maps what is on its way to an endpoint to the
union of the samples of all its queues; by `Flushed` one queue has all of them, so
the oldest of that queue is the oldest of the union. It needs one more invariant,
`Fresh`: while an `Append` has yet to reach the queue of an endpoint, that endpoint
has not had the sample, and none of its queues has it.

**`RemoteReadProofs`.** All safety properties of the runs that hold, for any number
of queries, remotes, series and reloads: `TypeCorrect`, `MetricAlwaysDefined`,
`OnlyAnswersInResult`, `UncontestedSurvives` and the action property
`LocalNeverReplaced`. Two are about all results, also when inserts overlap: what a
result holds was answered, and a `mergeIterator` has an iterator. That nothing local
and nothing uncontested is lost is said, and true, only of queries without such an
overlap. None is inductive alone, as a goroutine acts on what it has read of the map
before. `ReadInv` says what it can still count on: without an overlap no entry is
taken out, an entry without a value is the one that is being made, and a goroutine
that found none does not meet a local one (`MapEntries`); an overlap takes two
goroutines of the query (`Overlaps`); the slice it is about to write back holds only
remotes that answered (`BaseWasAnswered`); a series that it alone has answered is
still to be merged, being merged, or merged (`AloneKept`), because nobody else
writes that entry. `Started` and `Pending` tie goroutines to their query and to its
configuration.

Two more theorems say how far the violated properties are wrong.
`SingleRemoteLosesNothing`: if no configuration has more than one remote,
`EveryAnswerMerged` holds, with any number of queries and reloads.
`MixUpsShareAClient`: a request carries the parameters of *some* query of the same
generation that asks the same remote, so a reload never mixes up configurations; the
invariant `UrlInv` says the same of the URL of each client.

**`TargetManagerProofs`.** `MapFollowsConfig`, `EverySetIsKnown` and
`StopPanicsOnlyInOverlap`. The invariant: `ReloadInOrder` (a reload has given every
job that is not in `todo` its set and its configuration) and `Registered` (the set
of a job was made for that job, so that no two jobs share a pool). `StopInOrder`
ties `Stop` to `Run`: the context is there from the moment `Run` has the mutex, and
until a SIGHUP comes no set starts after the last one has returned.

**`ServerProofs`.** `ReloadsReachAll`, from `ReloadInv`: the reloadables that the
loop has passed (`Passed`) have the newest configuration or have failed, and `Main`
gets past its own reload only if none failed. `AppendsSurvive`, from `BodysInv`,
which says of every request that its state is `Consistent`: in whatever array, a
body is at one place only, the one after the length that its goroutine had loaded
(`Written`), so none is there twice, however the words mix; and no length is zero
once a goroutine has stored one (`Stored`), as each stores one more than it has
loaded, so that what is returned is not empty. As long as no appends have overlapped
(`Lone`), at most one goroutine is in its append, its words belong together
(`Phase`), and the slice holds the bodies of exactly those that are done (`Holds`,
`DoneOf`). This takes no bound on the number of targets. `ResponsesMerged`, from
`MergedInv` (a response that was answered is `MergedData` of the bodies that were
returned) and `BodysInv` (after the answer no goroutine writes a body), and from
what the loops over the bodies compute: `NumDeletedIs` and its neighbours, by the
induction described below.

**`OperatorsProofs`.** The properties that `calculations` checks for small inputs,
for all inputs. Their hypothesis is that the input is one:

* `SeriesStayApart`, for any names, values, external labels and matchers (`Reads`):
  the added labels have one value in all series that match, so removing them keeps
  the others apart;
* `EveryWindowSampled`, for every window of two seconds or more (`Windows`), by
  cases on the signs of its ends, as division rounds towards zero;
* `NoShortRangeRefused`, for every width of the integers, tick and limit
  (`RangeParams`): a length that wraps becomes smaller, and the engine's step is not
  above the real one;
* `RangesAreReference` and `PointsAreDocumented`, for any number of remotes with any
  streams and any interval (`MergeReads`). A stream has strictly increasing times
  between `Earliest` and `Latest`, which the code reserves for "no sample", and an
  interval does not end before it begins. The loop of `mergeSamples` is shown to
  keep the merged part sorted and to hold, of each time, the sample that came first;
  the loop over the remotes then adds one stream at a time (`FirstSamples`);
* `TargetsDialable`, for any number of targets with any labels, any labels of the
  group and any parameters (`TargetReads`), and any sequence of rules: which targets
  they drop is a part of the statement. The label set is followed through every step
  of `populateLabels`: no step after the address was completed and checked changes
  it or the scheme, and of a configured parameter with several values only the first
  goes through the labels, so that `URL` has to put the others back.

Loops. The code's loops are recursive functions over numbers, not recursive
operators. The library's induction theorems take an operator as a parameter, which
the provers cannot instantiate; here induction goes over *sets* of numbers instead.
`Least`: a set of naturals that is not empty has a least element. `UpTo`: a set that
has 0 and with `i - 1` also `i` has all numbers up to `N`. `Iterate` builds, turn by
turn, the function that a loop computes, and `SameLoop` shows that the recursive
function is that one. From then on a lemma about a loop says what one turn keeps.
`ServerProofs` and `OperatorsProofs` both need these four lemmas, and neither
extends the other.

Only model-checked: the liveness properties (`Settles`, `ReshardCompletes`,
`StopReturns`, `QueryReturns`, `CallsReturn`, `Converges`, `RequestAnswered`),
because they need fairness. Every invariant, action property and refinement that a
passing run checks is also proved.

## 5. Findings

1. **No shards** (`drained_backlog`). `samplesIn + samplesPending +
   integralAccumulator` is `2*in - out + accumulator`. When samples are sent well
   after the last one was received, `out` outweighs the rest, the sum is negative,
   and as nothing bounds `numShards` from below it becomes 0. The next `Append`
   divides by the number of shards; a number below zero makes `newShards` panic.
   `QueueManager` has both outcomes (`AppendPanics`, `ReshardPanics`).
2. **The map of a query** (`read_map_race`). Two goroutines that look up the same
   fingerprint lose one remote's series, or the runtime ends the process for the
   concurrent access to a map. `UncontestedMerged` bounds the damage as long as no
   inserts overlap: a series that one remote alone answered is kept. Inserts that do
   overlap can lose any entry, or leave one that is nil.
3. **The URL of a client** (`read_url_race`). Two concurrent queries write their
   parameters to one URL, and one may send those of the other.
4. **The deadline of a batch** (`batch_wait`). Every turn of `runShard` makes a new
   timer, so that each sample restarts the deadline of those before it, where the
   comment on `BatchSendDeadline` says "Maximum time sample will wait in buffer."
   `BoundedWait` proves how long it can get.
5. **The cut of a range** (`range_cut`). A local sample at 2 and a remote one at 3:
   a read of the range from 3 to 3 returns the remote one, although remote samples
   are "only considered before the first local sample of a series".

More outcomes of the models are no findings of a run. Some contradict a text
loosely:

* `main` logs "exiting gracefully", and may then panic in `TargetManager.Stop`: if
  it is called before `Run` has set `tm.cancel`, or if a reload reuses `tm.wg` while
  `Run` or `Stop` wakes up from waiting for it. `PanicsNeedOverlap` and
  `StopReturns` say that it takes one of these overlaps;
* `discovery.go` makes a new map of groups "to not keep stale targets around", and a
  goroutine of a replaced provider can put a stale group into it. `Converges` says
  that nothing else keeps the targets from what is configured;
* "exceeded maximum resolution of 11,000 points": 11,000 is the number of steps, and
  the points are one more. It is no bound either: the engine's step drops the part
  below a millisecond, so it takes more steps than were counted, and a length in
  nanoseconds that wraps makes any range short (with a negative number of steps, for
  which the engine then allocates, and panics).

Others contradict none:

* panics: `Append` or `ApplyConfig` after `Writer.Stop` (which `main` does not
  call); a target of the proxy that cannot be reached ends the process (`DoFails`),
  and a body that is not JSON ends a request for label values;
* appends of `proxyReq` that overlap may lose all bodies but one, or leave an
  element that is no body, and `numDeleted` counts earlier bodies again for every
  later one; `BodysSurvive` and `ResponseMerged` say what is left;
* `POST /-/reload` never returns, and keeps its slot of `MaxConnections`;
* signals are sent on channels without a buffer, and are lost while a reload runs; a
  reload at SIGHUP reads `./prometheus.yml` whatever `-config.file` was; `Main`
  returns 0 also when the web server could not listen.

## 6. What is not modelled

* The rounding of `float64` in the rates, and the lengths of backoffs and timeouts.
* The encoding of requests, HTTP, logging.
* `storage/metric`, a copy of a vendored package that nothing imports; generated
  code; the definitions of the flags.
* Code that nothing calls: scraping (`Target.report`, the wrappers of appenders, the
  HTTP client of a pool), `getTargets`, `exprTest`, `POST /-/quit` (no flag sets
  `EnableQuit`), the conversions of `client.go` from and to the protocol of reads.
* The redirects of the web handler, and the limit on connections.
* The query engine, the storages and the providers of targets, which are vendored;
  of the last, `TargetSet` is modelled because `reload` waits for its loop, and of
  the first, the steps of a range.

## 7. Plan

Done: every component of the program's own that runs, and a proof of every safety
property of the passing runs. What is left would widen the models rather than the
proofs: the rounding of `float64` in the rates, and Go's map bucket by bucket, in
the place of the losses that the model allows to every overlap.
