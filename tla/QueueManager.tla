---------------------------- MODULE QueueManager ----------------------------
(***************************************************************************)
(* The remote-write queue of promeproxy (storage/remote/queue_manager.go). *)
(*                                                                         *)
(* Samples handed to Append are relabelled, hashed on their metric to one  *)
(* shard of the current `shards' object and buffered in that shard's       *)
(* bounded channel.  One goroutine per shard (runShard) collects samples   *)
(* into batches and sends each batch with retries.  Two more goroutines    *)
(* decide on a new number of shards (updateShardsLoop) and replace the     *)
(* `shards' object by one of that size (reshardLoop).  Start and Stop are  *)
(* called by remote.Writer.                                                *)
(*                                                                         *)
(* Successive `shards' objects are numbered: generation g+1 replaces       *)
(* generation g.  A sample is a record of the order in which Append took   *)
(* shardsMtx (id) and of its metric after relabelling (series).            *)
(*                                                                         *)
(* An operator marked as a mutant is a plausible bug in the operator after *)
(* it; Next does not use it.  Each shows that some property can fail.      *)
(***************************************************************************)
EXTENDS Integers, Sequences, FiniteSets

CONSTANTS
  Appenders,         \* goroutines that call Append
  Metrics,           \* metrics handed to Append
  Series,            \* metrics after external labels and relabelling
  NoSeries,          \* relabel.Process returned nil: the sample is dropped
  Relabel,           \* external labels + relabel.Process, as a function
  Hash,              \* FastFingerprint of a series
  QueueCapacity,     \* cfg.QueueCapacity
  MaxShards,         \* cfg.MaxShards
  MaxSamplesPerSend, \* cfg.MaxSamplesPerSend
  MaxRetries,        \* cfg.MaxRetries
  Desired,           \* what the rates may ask for, in tenths of a shard
  MaxReshards,       \* bound: how often the shards object is replaced
  MaxSamples         \* bound: how many samples reach enqueue

ASSUME ConfigAssumption ==
  /\ NoSeries \notin Series
  /\ Relabel \in [Metrics -> Series \cup {NoSeries}]
  /\ Hash \in [Series -> Nat]
  /\ QueueCapacity \in Nat \ {0}
  /\ MaxShards \in Nat \ {0}
  /\ MaxSamplesPerSend \in Nat \ {0}
  /\ MaxRetries \in Nat \ {0}
  /\ Desired \subseteq Int
  /\ MaxReshards \in Nat
  /\ MaxSamples \in Nat

VARIABLES
  mgr,          \* how far the caller of Start and Stop has come
  updater,      \* updateShardsLoop goroutine
  resharder,    \* reshardLoop goroutine
  numShards,    \* t.numShards; also the n that reshard(n) is working on
  shards,       \* t.shards, the current generation
  size,         \* len(s.queues) of each generation
  closed,       \* the generation's channels are closed
  queue,        \* the channel of each shard
  goroutine,    \* runShard of each shard
  pending,      \* its pendingSamples; the batch while it is sending
  retries,      \* retries left in sendSamplesWithBackoff
  appender,     \* Append calls between Unlock and the queueLength gauge
  nextId,       \* id of the next sample that reaches enqueue
  queueLength,  \* the queue_length gauge
  dropped,      \* samples counted by dropped_samples_total
  succeeded,    \* samples counted by succeeded_samples_total
  failed,       \* samples counted by failed_samples_total
  stored,       \* samples the remote storage holds
  panic         \* why the process died, or "none"

control  == <<mgr, updater, resharder, numShards>>
layout   == <<shards, size, closed>>
senders  == <<goroutine, pending, retries>>
outcomes == <<succeeded, failed, stored>>
vars == <<control, layout, queue, senders, appender, nextId, queueLength,
          dropped, outcomes, panic>>

Gens     == 0 .. MaxReshards
ShardIds == 0 .. MaxShards - 1
Shards   == Gens \X ShardIds
Sample   == [id : Nat, series : Series]

\* The samples of a channel, or of a batch.
Elems(s) == {s[i] : i \in 1 .. Len(s)}

\* The goroutines that shards.start() launches for generation g.
ShardsOf(g) == {sh \in Shards : sh[1] = g /\ sh[2] < size[g]}

\* Mutant: round robin instead of hashing.
RoundRobin(s) == <<shards, nextId % size[shards]>>

\* shard := uint64(fp) % uint64(len(s.queues)), in the current generation.
ShardFor(s) == <<shards, Hash[s] % size[shards]>>

\* shardsMtx is held across steps only by Stop, while it waits for the flush.
MutexFree == mgr # "draining"

\* Mutant: Stop closes t.quit only after t.wg.Wait().
QuitAfterWait == mgr \in {"draining", "stopped"}

Quit == mgr \in {"quitting", "draining", "stopped"}

-----------------------------------------------------------------------------
\* NewQueueManager: one shard, nothing running yet.
Init ==
  /\ mgr = "new"
  /\ updater = "off"
  /\ resharder = "off"
  /\ numShards = 1
  /\ shards = 0
  /\ size = [g \in Gens |-> IF g = 0 THEN 1 ELSE 0]
  /\ closed = [g \in Gens |-> FALSE]
  /\ queue = [sh \in Shards |-> << >>]
  /\ goroutine = [sh \in Shards |-> "off"]
  /\ pending = [sh \in Shards |-> << >>]
  /\ retries = [sh \in Shards |-> 0]
  /\ appender = [a \in Appenders |-> "idle"]
  /\ nextId = 1
  /\ queueLength = 0
  /\ dropped = {}
  /\ succeeded = {}
  /\ failed = {}
  /\ stored = {}
  /\ panic = "none"

-----------------------------------------------------------------------------
(***************************************************************************)
(* Append.  The critical section under shardsMtx never blocks, so it is    *)
(* one step; the queueLength gauge is incremented after the unlock, in a   *)
(* second one.  A metric that relabelling drops changes nothing.           *)
(***************************************************************************)

\* select { case s.queues[shard] <- sample: return true ... }
EnqueueAccepted(a, sample) ==
  LET sh == ShardFor(sample.series) IN
  /\ Len(queue[sh]) < QueueCapacity
  /\ queue' = [queue EXCEPT ![sh] = Append(@, sample)]
  /\ appender' = [appender EXCEPT ![a] = "inc"]
  /\ UNCHANGED dropped

\* Mutant: the gauge is incremented whether or not the sample was enqueued.
EnqueueFullCounts(a, sample) ==
  /\ Len(queue[ShardFor(sample.series)]) >= QueueCapacity
  /\ dropped' = dropped \cup {sample}
  /\ appender' = [appender EXCEPT ![a] = "inc"]
  /\ UNCHANGED queue

\* select { ... default: return false }, then droppedSamplesTotal.Inc()
EnqueueFull(a, sample) ==
  /\ Len(queue[ShardFor(sample.series)]) >= QueueCapacity
  /\ dropped' = dropped \cup {sample}
  /\ UNCHANGED <<queue, appender>>

AppendSample(a, m) ==
  LET sample == [id |-> nextId, series |-> Relabel[m]] IN
  /\ appender[a] = "idle"
  /\ Relabel[m] # NoSeries
  /\ MutexFree
  /\ nextId <= MaxSamples
  /\ size[shards] > 0
  /\ ~closed[shards]
  /\ EnqueueAccepted(a, sample) \/ EnqueueFull(a, sample)
  /\ nextId' = nextId + 1
  /\ UNCHANGED <<control, layout, senders, queueLength, outcomes, panic>>

\* queueLength.WithLabelValues(t.queueName).Inc()
IncQueueLength(a) ==
  /\ appender[a] = "inc"
  /\ appender' = [appender EXCEPT ![a] = "idle"]
  /\ queueLength' = queueLength + 1
  /\ UNCHANGED <<control, layout, queue, senders, nextId, dropped, outcomes,
                 panic>>

\* enqueue divides by len(s.queues), and sends on a channel Stop has closed.
AppendPanics(a, m) ==
  /\ appender[a] = "idle"
  /\ Relabel[m] # NoSeries
  /\ MutexFree
  /\ \/ size[shards] = 0 /\ panic' = "division by zero"
     \/ size[shards] > 0 /\ closed[shards] /\ panic' = "send on closed channel"
  /\ UNCHANGED <<control, layout, queue, senders, appender, nextId,
                 queueLength, dropped, outcomes>>

-----------------------------------------------------------------------------
(***************************************************************************)
(* Start and Stop, called in this order by remote.Writer.                  *)
(***************************************************************************)

\* shards.start(): one runShard goroutine per channel of generation g.
Launch(g) ==
  goroutine' = [sh \in Shards |->
                  IF sh \in ShardsOf(g) THEN "select" ELSE goroutine[sh]]

\* s.wg.Wait() in shards.stop() returns.
AllDone(g) == \A sh \in ShardsOf(g) : goroutine[sh] = "done"

\* go t.updateShardsLoop(); go t.reshardLoop()
Start ==
  /\ mgr = "new"
  /\ mgr' = "starting"
  /\ updater' = "loop"
  /\ resharder' = "select"
  /\ UNCHANGED <<numShards, layout, queue, senders, appender, nextId,
                 queueLength, dropped, outcomes, panic>>

\* shardsMtx.Lock(); t.shards.start(), on whatever t.shards is by then.
StartShards ==
  /\ mgr = "starting"
  /\ mgr' = "running"
  /\ Launch(shards)
  /\ UNCHANGED <<updater, resharder, numShards, layout, queue, pending,
                 retries, appender, nextId, queueLength, dropped, outcomes,
                 panic>>

\* close(t.quit)
Stop ==
  /\ mgr = "running"
  /\ mgr' = "quitting"
  /\ UNCHANGED <<updater, resharder, numShards, layout, queue, senders,
                 appender, nextId, queueLength, dropped, outcomes, panic>>

\* t.wg.Wait() returns; shardsMtx.Lock(); t.shards.stop() closes the channels.
StopShards ==
  /\ mgr = "quitting"
  /\ updater = "done"
  /\ resharder = "done"
  /\ mgr' = "draining"
  /\ closed' = [closed EXCEPT ![shards] = TRUE]
  /\ UNCHANGED <<updater, resharder, numShards, shards, size, queue, senders,
                 appender, nextId, queueLength, dropped, outcomes, panic>>

\* t.shards.stop() returns; shardsMtx.Unlock()
Stopped ==
  /\ mgr = "draining"
  /\ AllDone(shards)
  /\ mgr' = "stopped"
  /\ UNCHANGED <<updater, resharder, numShards, layout, queue, senders,
                 appender, nextId, queueLength, dropped, outcomes, panic>>

-----------------------------------------------------------------------------
(***************************************************************************)
(* Resharding.  desiredShards = d/10 comes out of the rates kept by        *)
(* ewmaRate, and is only computed once samplesOut is positive, that is,    *)
(* once some batch has been dealt with.                                    *)
(***************************************************************************)

\* int(math.Ceil(d / 10))
Ceil10(d) == -((-d) \div 10)

\* Mutant: no early return while samplesOut is zero.
SamplesOutAny == TRUE

SamplesOutPositive == succeeded \cup failed # {}

\* lowerBound <= desiredShards && desiredShards <= upperBound
WithinTolerance(d) == 7 * numShards <= d /\ d <= 13 * numShards

\* Capped from above by MaxShards, and not from below.
TargetShards(d) == IF Ceil10(d) > MaxShards THEN MaxShards ELSE Ceil10(d)

\* A tick of updateShardsLoop that hands numShards to a waiting reshardLoop.
\* (A tick that finds the reshardLoop busy changes nothing.)
CalculateDesiredShards(d) ==
  /\ updater = "loop"
  /\ shards < MaxReshards
  /\ SamplesOutPositive
  /\ ~WithinTolerance(d)
  /\ TargetShards(d) # numShards
  /\ resharder = "select"
  /\ numShards' = TargetShards(d)
  /\ resharder' = "swap"
  /\ UNCHANGED <<mgr, updater, layout, queue, senders, appender, nextId,
                 queueLength, dropped, outcomes, panic>>

\* case <-t.quit in updateShardsLoop
UpdaterQuits ==
  /\ updater = "loop"
  /\ Quit
  /\ updater' = "done"
  /\ UNCHANGED <<mgr, resharder, numShards, layout, queue, senders, appender,
                 nextId, queueLength, dropped, outcomes, panic>>

\* reshard(n), under shardsMtx: t.newShards(n) replaces t.shards.
ReshardSwap ==
  /\ resharder = "swap"
  /\ MutexFree
  /\ numShards >= 0
  /\ shards' = shards + 1
  /\ size' = [size EXCEPT ![shards + 1] = numShards]
  /\ resharder' = "close"
  /\ UNCHANGED <<mgr, updater, numShards, closed, queue, senders, appender,
                 nextId, queueLength, dropped, outcomes, panic>>

\* make([]chan *model.Sample, numShards) with a negative length
ReshardPanics ==
  /\ resharder = "swap"
  /\ MutexFree
  /\ numShards < 0
  /\ panic' = "makeslice: len out of range"
  /\ UNCHANGED <<control, layout, queue, senders, appender, nextId,
                 queueLength, dropped, outcomes>>

\* oldShards.stop() closes the channels of the replaced generation ...
ReshardClose ==
  /\ resharder = "close"
  /\ closed' = [closed EXCEPT ![shards - 1] = TRUE]
  /\ resharder' = "wait"
  /\ UNCHANGED <<mgr, updater, numShards, shards, size, queue, senders,
                 appender, nextId, queueLength, dropped, outcomes, panic>>

\* Mutant: newShards.start() before the old shards are flushed.
ReshardStartEarly ==
  /\ resharder = "wait"
  /\ Launch(shards)
  /\ resharder' = "select"
  /\ UNCHANGED <<mgr, updater, numShards, layout, queue, pending, retries,
                 appender, nextId, queueLength, dropped, outcomes, panic>>

\* ... and waits for its goroutines; newShards.start() comes after that.
ReshardStart ==
  /\ resharder = "wait"
  /\ AllDone(shards - 1)
  /\ Launch(shards)
  /\ resharder' = "select"
  /\ UNCHANGED <<mgr, updater, numShards, layout, queue, pending, retries,
                 appender, nextId, queueLength, dropped, outcomes, panic>>

\* case <-t.quit in reshardLoop
ResharderQuits ==
  /\ resharder = "select"
  /\ Quit
  /\ resharder' = "done"
  /\ UNCHANGED <<mgr, updater, numShards, layout, queue, senders, appender,
                 nextId, queueLength, dropped, outcomes, panic>>

-----------------------------------------------------------------------------
(***************************************************************************)
(* runShard.  In "send" and "flush" the goroutine is inside sendSamples    *)
(* with all of pendingSamples as the batch: samples arrive one at a time,  *)
(* so pendingSamples[:MaxSamplesPerSend] is all of it as well.             *)
(***************************************************************************)

\* Mutant: > instead of >= in the comparison with MaxSamplesPerSend.
ReceiveOffByOne(sh) ==
  LET samples == Append(pending[sh], Head(queue[sh]))
      full    == Len(samples) > MaxSamplesPerSend IN
  /\ goroutine[sh] = "select"
  /\ queue[sh] # << >>
  /\ queue' = [queue EXCEPT ![sh] = Tail(@)]
  /\ queueLength' = queueLength - 1
  /\ pending' = [pending EXCEPT ![sh] = samples]
  /\ goroutine' = [goroutine EXCEPT ![sh] = IF full THEN "send" ELSE "select"]
  /\ retries' = [retries EXCEPT ![sh] = IF full THEN MaxRetries ELSE 0]
  /\ UNCHANGED <<control, layout, appender, nextId, dropped, outcomes, panic>>

\* case sample, ok := <-queue, with ok
Receive(sh) ==
  LET samples == Append(pending[sh], Head(queue[sh]))
      full    == Len(samples) >= MaxSamplesPerSend IN
  /\ goroutine[sh] = "select"
  /\ queue[sh] # << >>
  /\ queue' = [queue EXCEPT ![sh] = Tail(@)]
  /\ queueLength' = queueLength - 1
  /\ pending' = [pending EXCEPT ![sh] = samples]
  /\ goroutine' = [goroutine EXCEPT ![sh] = IF full THEN "send" ELSE "select"]
  /\ retries' = [retries EXCEPT ![sh] = IF full THEN MaxRetries ELSE 0]
  /\ UNCHANGED <<control, layout, appender, nextId, dropped, outcomes, panic>>

\* Mutant: the deadline sends full batches only.
DeadlineFullOnly(sh) ==
  /\ goroutine[sh] = "select"
  /\ Len(pending[sh]) >= MaxSamplesPerSend
  /\ goroutine' = [goroutine EXCEPT ![sh] = "send"]
  /\ retries' = [retries EXCEPT ![sh] = MaxRetries]
  /\ UNCHANGED <<control, layout, queue, pending, appender, nextId,
                 queueLength, dropped, outcomes, panic>>

\* case <-time.After(s.qm.cfg.BatchSendDeadline)
Deadline(sh) ==
  /\ goroutine[sh] = "select"
  /\ pending[sh] # << >>
  /\ goroutine' = [goroutine EXCEPT ![sh] = "send"]
  /\ retries' = [retries EXCEPT ![sh] = MaxRetries]
  /\ UNCHANGED <<control, layout, queue, pending, appender, nextId,
                 queueLength, dropped, outcomes, panic>>

\* Mutant: return on a closed channel without flushing pendingSamples.
QueueClosedNoFlush(sh) ==
  /\ goroutine[sh] = "select"
  /\ queue[sh] = << >>
  /\ closed[sh[1]]
  /\ goroutine' = [goroutine EXCEPT ![sh] = "done"]
  /\ UNCHANGED <<control, layout, queue, pending, retries, appender, nextId,
                 queueLength, dropped, outcomes, panic>>

\* case sample, ok := <-queue, with !ok: flush what is left and return
QueueClosed(sh) ==
  /\ goroutine[sh] = "select"
  /\ queue[sh] = << >>
  /\ closed[sh[1]]
  /\ goroutine' = [goroutine EXCEPT
                     ![sh] = IF pending[sh] = << >> THEN "done" ELSE "flush"]
  /\ retries' = [retries EXCEPT
                   ![sh] = IF pending[sh] = << >> THEN 0 ELSE MaxRetries]
  /\ UNCHANGED <<control, layout, queue, pending, appender, nextId,
                 queueLength, dropped, outcomes, panic>>

Sending(sh) == goroutine[sh] \in {"send", "flush"}

\* sendSamples returns: the batch is gone, whatever became of it.
SendReturns(sh) ==
  /\ pending' = [pending EXCEPT ![sh] = << >>]
  /\ retries' = [retries EXCEPT ![sh] = 0]
  /\ goroutine' = [goroutine EXCEPT
                     ![sh] = IF @ = "flush" THEN "done" ELSE "select"]

\* client.Store returns nil
StoreSucceeds(sh) ==
  /\ Sending(sh)
  /\ stored' = stored \cup Elems(pending[sh])
  /\ succeeded' = succeeded \cup Elems(pending[sh])
  /\ SendReturns(sh)
  /\ UNCHANGED <<control, layout, queue, appender, nextId, queueLength,
                 dropped, failed, panic>>

\* The remote side takes a request's samples in order, and an error reply or
\* a timeout leaves open how many of them it took.
Taken(sh, k) == {pending[sh][i] : i \in 1 .. k}
RemoteTakes(sh, k) == stored' = stored \cup Taken(sh, k)

\* Mutant: failedSamplesTotal counts every failed attempt.
StoreRetriesCounts(sh, k) ==
  /\ Sending(sh)
  /\ retries[sh] > 1
  /\ RemoteTakes(sh, k)
  /\ failed' = failed \cup Elems(pending[sh])
  /\ retries' = [retries EXCEPT ![sh] = @ - 1]
  /\ UNCHANGED <<control, layout, queue, goroutine, pending, appender, nextId,
                 queueLength, dropped, succeeded, panic>>

\* client.Store returns a recoverableError, and a retry is left
StoreRetries(sh, k) ==
  /\ Sending(sh)
  /\ retries[sh] > 1
  /\ RemoteTakes(sh, k)
  /\ retries' = [retries EXCEPT ![sh] = @ - 1]
  /\ UNCHANGED <<control, layout, queue, goroutine, pending, appender, nextId,
                 queueLength, dropped, succeeded, failed, panic>>

\* client.Store returns an unrecoverable error, or the retries are used up
StoreGivesUp(sh, k) ==
  /\ Sending(sh)
  /\ RemoteTakes(sh, k)
  /\ failed' = failed \cup Elems(pending[sh])
  /\ SendReturns(sh)
  /\ UNCHANGED <<control, layout, queue, appender, nextId, queueLength,
                 dropped, succeeded, panic>>

ShardStep(sh) ==
  \/ Receive(sh)
  \/ Deadline(sh)
  \/ QueueClosed(sh)
  \/ StoreSucceeds(sh)
  \/ \E k \in 0 .. Len(pending[sh]) : StoreRetries(sh, k) \/ StoreGivesUp(sh, k)

-----------------------------------------------------------------------------
Lifecycle == Start \/ StartShards \/ Stop \/ StopShards \/ Stopped

Resharding ==
  \/ \E d \in Desired : CalculateDesiredShards(d)
  \/ UpdaterQuits
  \/ ReshardSwap
  \/ ReshardPanics
  \/ ReshardClose
  \/ ReshardStart
  \/ ResharderQuits

Appending ==
  \/ \E a \in Appenders : IncQueueLength(a)
  \/ \E a \in Appenders, m \in Metrics : AppendSample(a, m) \/ AppendPanics(a, m)

\* The process is dead, or has nothing left to do once Stop has returned.
Terminated == (panic # "none" \/ mgr = "stopped") /\ UNCHANGED vars

Next ==
  \/ /\ panic = "none"
     /\ \/ Lifecycle
        \/ Resharding
        \/ Appending
        \/ \E sh \in Shards : ShardStep(sh)
  \/ Terminated

Alive(A) == panic = "none" /\ A

\* A runnable goroutine is scheduled, time.After fires, and client.Store
\* returns because its request carries a timeout.  Nobody is obliged to call
\* Append or Stop, nor the rates to ask for other shards; remote.Writer calls
\* Start on every queue it installs.
Fairness ==
  /\ WF_vars(Alive(Start \/ StartShards))
  /\ WF_vars(Alive(StopShards \/ Stopped))
  /\ WF_vars(Alive(UpdaterQuits))
  /\ WF_vars(Alive(ReshardSwap \/ ReshardPanics \/ ReshardClose
                     \/ ReshardStart \/ ResharderQuits))
  /\ \A a \in Appenders : WF_vars(Alive(IncQueueLength(a)))
  /\ \A sh \in Shards : WF_vars(Alive(ShardStep(sh)))

Spec == Init /\ [][Next]_vars
FairSpec == Spec /\ Fairness

-----------------------------------------------------------------------------
(***************************************************************************)
(* Properties.                                                             *)
(***************************************************************************)

ControlOK ==
  /\ mgr \in {"new", "starting", "running", "quitting", "draining", "stopped"}
  /\ updater \in {"off", "loop", "done"}
  /\ resharder \in {"off", "select", "swap", "close", "wait", "done"}
  /\ numShards \in Int /\ numShards <= MaxShards
  /\ panic \in {"none", "division by zero", "send on closed channel",
                "makeslice: len out of range"}

LayoutOK ==
  /\ shards \in Gens
  /\ size \in [Gens -> 0 .. MaxShards]
  /\ closed \in [Gens -> BOOLEAN]

QueuesOK ==
  /\ queue \in [Shards -> Seq(Sample)]
  /\ \A sh \in Shards : Len(queue[sh]) <= QueueCapacity

SendersOK ==
  /\ goroutine \in [Shards -> {"off", "select", "send", "flush", "done"}]
  /\ pending \in [Shards -> Seq(Sample)]
  /\ retries \in [Shards -> 0 .. MaxRetries]
  /\ \A sh \in Shards : Len(pending[sh]) <= MaxSamplesPerSend

AppendersOK ==
  /\ appender \in [Appenders -> {"idle", "inc"}]
  /\ nextId \in Nat \ {0}
  /\ queueLength \in Int
  /\ dropped \subseteq Sample

OutcomesOK ==
  /\ succeeded \subseteq Sample
  /\ failed \subseteq Sample
  /\ stored \subseteq Sample

\* Types of the variables, with the bounds runShard and the channels keep:
\* a batch never exceeds MaxSamplesPerSend, a channel never its capacity.
TypeOK ==
  ControlOK /\ LayoutOK /\ QueuesOK /\ SendersOK /\ AppendersOK /\ OutcomesOK

Waiting(sh) == Elems(pending[sh]) \cup Elems(queue[sh])
InFlight    == UNION {Waiting(sh) : sh \in Shards}

\* Per series, samples reach the remote storage for the first time in the
\* order Append enqueued them: a sample still on its way that the remote has
\* not seen is younger than everything the remote has seen of its series.
\* This is what reshard() stops the old shards before starting the new for.
InOrder ==
  \A x \in InFlight : \A d \in stored :
     x \notin stored /\ d.series = x.series => d.id < x.id

\* Only one generation of runShard goroutines is ever consuming or sending:
\* reshard() starts newShards after oldShards.stop() has waited for all of it.
OneGenerationRuns ==
  \A s, t \in Shards :
     /\ goroutine[s] \notin {"off", "done"}
     /\ goroutine[t] \notin {"off", "done"}
     => s[1] = t[1]

\* Nothing vanishes and nothing is counted twice: every sample that reached
\* enqueue is on its way or in exactly one of the dropped, succeeded and
\* failed counters, through every reshard, retry and Stop.
Accounted ==
  /\ {x.id : x \in InFlight \cup dropped \cup succeeded \cup failed}
       = 1 .. nextId - 1
  /\ InFlight \cap (dropped \cup succeeded \cup failed) = {}
  /\ dropped \cap (succeeded \cup failed) = {}
  /\ succeeded \cap failed = {}

\* "Stop ... waits for pending sends to complete": when it has returned, no
\* sample of any generation is left in a channel or in a batch.
StopFlushes == mgr = "stopped" => InFlight = {}

\* The queue_length gauge, which Append increments after releasing shardsMtx
\* and runShard decrements, is the number of buffered samples less the Append
\* calls that have not got to their increment.
GaugeTracksQueues ==
  queueLength + Cardinality({a \in Appenders : appender[a] = "inc"})
    = Cardinality(UNION {Elems(queue[sh]) : sh \in Shards})

\* Every sample that was enqueued is eventually sent or given up: a partial
\* batch by its deadline, the samples of a replaced generation by the flush.
Settles ==
  \A n \in 1 .. MaxSamples :
     (\E x \in InFlight : x.id = n)
       ~> (panic # "none" \/ \E x \in succeeded \cup failed : x.id = n)

\* Stop returns, also when it is called in the middle of a reshard.
StopReturns == (mgr = "quitting") ~> (mgr = "stopped" \/ panic # "none")

\* A reshard that has begun finishes: it waits only for goroutines that run.
ReshardCompletes ==
  (resharder = "swap") ~> (resharder = "select" \/ panic # "none")

\* The queue with its shards, batches and goroutines implements the ordered,
\* at-least-once delivery of module OrderedDelivery: each step of the code is
\* one abstract step or none.
Delivery == INSTANCE OrderedDelivery WITH inflight <- InFlight
ImplementsOrderedDelivery == Delivery!Spec

-----------------------------------------------------------------------------
(***************************************************************************)
(* The inductive invariant behind InOrder and OneGenerationRuns.           *)
(***************************************************************************)

\* The current generation waits for the flush of the one it replaces.
Flushing == resharder \in {"close", "wait"}

\* Who may own samples: a goroutine that is not running has no batch, one
\* that saw its channel closed has left it empty, a channel that was never
\* made is empty, and every generation before the one being flushed is over.
ShardStructure(sh) ==
  /\ goroutine[sh] \in {"off", "done"} => pending[sh] = << >>
  /\ goroutine[sh] = "select" => Len(pending[sh]) < MaxSamplesPerSend
  /\ goroutine[sh] \in {"flush", "done"} => queue[sh] = << >> /\ closed[sh[1]]
  /\ sh[1] > shards \/ sh[2] >= size[sh[1]]
       => queue[sh] = << >> /\ goroutine[sh] = "off"
  /\ sh[1] < shards - 1 \/ (sh[1] = shards - 1 /\ ~Flushing)
       => queue[sh] = << >> /\ goroutine[sh] \in {"off", "done"}
  /\ Flushing /\ sh[1] = shards => goroutine[sh] = "off"
  /\ mgr \in {"new", "starting"} => goroutine[sh] = "off"
  /\ mgr = "stopped" /\ sh[1] = shards
       => queue[sh] = << >> /\ goroutine[sh] \in {"off", "done"}

\* Which reshard, Start and Stop may overlap.
ControlStructure ==
  /\ resharder = "swap" => shards < MaxReshards
  /\ Flushing => shards > 0
  /\ resharder = "swap" \/ Flushing => mgr \in {"running", "quitting"}
  /\ mgr \in {"new", "starting"} => shards = 0 /\ succeeded \cup failed = {}
  /\ mgr \in {"draining", "stopped"} => resharder = "done" /\ closed[shards]
  /\ \A g \in Gens : closed[g] /\ g >= shards => mgr \in {"draining", "stopped"}

Structure == ControlStructure /\ \A sh \in Shards : ShardStructure(sh)

Sorted(s) == \A i, j \in 1 .. Len(s) : i < j => s[i].id < s[j].id

\* Where samples of one series can be relative to each other: in increasing
\* order within a shard, in one shard per generation, and younger in a
\* younger generation.
ShardOrder(sh) ==
  /\ Sorted(pending[sh])
  /\ Sorted(queue[sh])
  /\ \A x \in Elems(pending[sh]), y \in Elems(queue[sh]) : x.id < y.id
  /\ \A x \in Waiting(sh) : /\ x.id < nextId
                           /\ sh[2] = Hash[x.series] % size[sh[1]]

GenerationOrder ==
  \A s, t \in Shards :
     s[1] < t[1] => \A x \in Waiting(s), y \in Waiting(t) : x.id < y.id

StoredOld == \A d \in stored : d.id < nextId

Order == (\A sh \in Shards : ShardOrder(sh)) /\ GenerationOrder /\ StoredOld

IInv == TypeOK /\ Structure /\ Order /\ InOrder

=============================================================================
