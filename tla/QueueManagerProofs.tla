------------------------- MODULE QueueManagerProofs -------------------------
(***************************************************************************)
(* Proofs about module QueueManager, for every number of appenders,        *)
(* series, shards and retries, every queue capacity and batch size.        *)
(***************************************************************************)
EXTENDS QueueManager, FiniteSetTheorems, TLAPS

-----------------------------------------------------------------------------
(***************************************************************************)
(* Sequences of samples.                                                   *)
(***************************************************************************)

\* Append, the channel send: the elements gain the new sample.
LEMMA ElemsAppend ==
  ASSUME NEW S, NEW s \in Seq(S), NEW e \in S
  PROVE  Elems(Append(s, e)) = Elems(s) \cup {e}
<1>1. Len(Append(s, e)) = Len(s) + 1 /\ Len(s) \in Nat
  OBVIOUS
<1>2. /\ Append(s, e)[Len(s) + 1] = e
      /\ \A i \in 1 .. Len(s) : Append(s, e)[i] = s[i]
  OBVIOUS
<1>3. 1 .. Len(s) + 1 = (1 .. Len(s)) \cup {Len(s) + 1}
  BY <1>1
<1> QED
  BY <1>1, <1>2, <1>3 DEF Elems

\* Tail, the channel receive: the elements lose at most the head.
LEMMA ElemsTail ==
  ASSUME NEW S, NEW s \in Seq(S), s # << >>
  PROVE  /\ Head(s) \in S
         /\ Tail(s) \in Seq(S)
         /\ Elems(s) = {Head(s)} \cup Elems(Tail(s))
<1>1. /\ Len(s) \in Nat \ {0}
      /\ Len(Tail(s)) = Len(s) - 1
      /\ Head(s) = s[1]
      /\ Tail(s) \in Seq(S)
      /\ Head(s) \in S
  OBVIOUS
<1>2. \A i \in 1 .. Len(s) - 1 : Tail(s)[i] = s[i + 1]
  BY <1>1
<1>3. \A x \in Elems(s) : x \in {Head(s)} \cup Elems(Tail(s))
  <2> SUFFICES ASSUME NEW i \in 1 .. Len(s), i # 1
               PROVE  s[i] \in Elems(Tail(s))
    BY <1>1 DEF Elems
  <2>1. i - 1 \in 1 .. Len(s) - 1 /\ Tail(s)[i - 1] = s[i]
    BY <1>1, <1>2
  <2> QED
    BY <1>1, <2>1 DEF Elems
<1>4. \A x \in {Head(s)} \cup Elems(Tail(s)) : x \in Elems(s)
  <2>1. Head(s) \in Elems(s)
    BY <1>1 DEF Elems
  <2>2. ASSUME NEW i \in 1 .. Len(s) - 1
        PROVE  Tail(s)[i] \in Elems(s)
    BY <1>1, <1>2 DEF Elems
  <2> QED
    BY <1>1, <2>1, <2>2 DEF Elems
<1> QED
  BY <1>1, <1>3, <1>4

\* The elements of a sequence over S are in S.
LEMMA ElemsType ==
  ASSUME NEW S, NEW s \in Seq(S)
  PROVE  Elems(s) \subseteq S
BY DEF Elems

LEMMA ElemsEmpty == Elems(<< >>) = {}
BY DEF Elems

\* A sample younger than all of a sorted channel keeps it sorted.
LEMMA SortedAppend ==
  ASSUME NEW s \in Seq(Sample), NEW e \in Sample, Sorted(s),
         \A x \in Elems(s) : x.id < e.id
  PROVE  Sorted(Append(s, e))
<1>1. Len(Append(s, e)) = Len(s) + 1 /\ Len(s) \in Nat
  OBVIOUS
<1>2. /\ Append(s, e)[Len(s) + 1] = e
      /\ \A i \in 1 .. Len(s) : Append(s, e)[i] = s[i]
  OBVIOUS
<1>3. SUFFICES ASSUME NEW i \in 1 .. Len(s) + 1, NEW j \in 1 .. Len(s) + 1, i < j
               PROVE  Append(s, e)[i].id < Append(s, e)[j].id
  BY <1>1 DEF Sorted
<1>4. i \in 1 .. Len(s) /\ s[i] \in Elems(s)
  BY <1>1, <1>3 DEF Elems
<1>5. CASE j = Len(s) + 1
  BY <1>2, <1>4, <1>5
<1>6. CASE j # Len(s) + 1
  <2>1. j \in 1 .. Len(s)
    BY <1>1, <1>6
  <2> QED
    BY <1>2, <1>3, <1>4, <2>1 DEF Sorted
<1> QED
  BY <1>5, <1>6

\* The head of a sorted channel is its oldest sample.
LEMMA SortedTail ==
  ASSUME NEW s \in Seq(Sample), s # << >>, Sorted(s)
  PROVE  /\ Sorted(Tail(s))
         /\ \A x \in Elems(Tail(s)) : Head(s).id < x.id
<1>1. /\ Len(s) \in Nat \ {0}
      /\ Len(Tail(s)) = Len(s) - 1
      /\ Head(s) = s[1]
  OBVIOUS
<1>2. \A i \in 1 .. Len(s) - 1 : Tail(s)[i] = s[i + 1] /\ i + 1 \in 1 .. Len(s)
  BY <1>1
<1>3. ASSUME NEW i \in 1 .. Len(s) - 1, NEW j \in 1 .. Len(s) - 1, i < j
      PROVE  Tail(s)[i].id < Tail(s)[j].id
  BY <1>1, <1>2, <1>3, i + 1 < j + 1 DEF Sorted
<1>4. ASSUME NEW i \in 1 .. Len(s) - 1
      PROVE  Head(s).id < Tail(s)[i].id
  BY <1>1, <1>2, 1 < i + 1, 1 \in 1 .. Len(s) DEF Sorted
<1> QED
  BY <1>1, <1>3, <1>4 DEF Sorted, Elems

-----------------------------------------------------------------------------
(***************************************************************************)
(* Shards and the actions of runShard.                                     *)
(***************************************************************************)

LEMMA ShardType ==
  ASSUME NEW sh \in Shards
  PROVE  /\ sh[1] \in Gens /\ sh[2] \in ShardIds
         /\ sh = <<sh[1], sh[2]>>
BY DEF Shards

\* The shard a sample is routed to exists in the current generation.
LEMMA Routed ==
  ASSUME TypeOK, NEW s \in Series, size[shards] > 0
  PROVE  /\ ShardFor(s) \in Shards
         /\ ShardFor(s)[1] = shards
         /\ ShardFor(s)[2] = Hash[s] % size[shards]
         /\ ShardFor(s)[2] < size[shards]
<1>1. shards \in Gens /\ size[shards] \in 0 .. MaxShards
  BY DEF TypeOK, LayoutOK
<1>2. Hash[s] \in Nat /\ MaxShards \in Nat
  BY ConfigAssumption
<1>3. Hash[s] % size[shards] \in 0 .. size[shards] - 1
  BY <1>1, <1>2, SMT
<1>4. Hash[s] % size[shards] \in ShardIds
  BY <1>1, <1>2, <1>3 DEF ShardIds
<1> QED
  BY <1>1, <1>3, <1>4, <1>2 DEF ShardFor, Shards

-----------------------------------------------------------------------------
(***************************************************************************)
(* Types.  One lemma per group of variables; an action leaves most of the  *)
(* groups alone.                                                           *)
(***************************************************************************)

LEMMA FrameTypes ==
  ASSUME TypeOK
  PROVE  /\ UNCHANGED <<control, panic>> => ControlOK'
         /\ UNCHANGED layout => LayoutOK'
         /\ UNCHANGED queue => QueuesOK'
         /\ UNCHANGED senders => SendersOK'
         /\ UNCHANGED <<appender, nextId, queueLength, dropped>> => AppendersOK'
         /\ UNCHANGED outcomes => OutcomesOK'
BY DEF TypeOK, ControlOK, LayoutOK, QueuesOK, SendersOK, AppendersOK,
       OutcomesOK, control, layout, senders, outcomes

\* Every step keeps the types; ReshardSwap and Receive need Structure for
\* the room they have left.
LEMMA TypeStep ==
  ASSUME TypeOK, Structure, [Next]_vars
  PROVE  TypeOK'
<1> USE ConfigAssumption, FrameTypes
<1> USE DEF TypeOK, control, layout, senders, outcomes
<1>1. CASE Lifecycle
  <2>1. CASE Start
    BY <2>1 DEF Start, ControlOK
  <2>2. CASE StartShards
    <3>1. SendersOK'
      BY <2>2 DEF StartShards, Launch, SendersOK
    <3> QED
      BY <2>2, <3>1 DEF StartShards, ControlOK
  <2>3. CASE Stop
    BY <2>3 DEF Stop, ControlOK
  <2>4. CASE StopShards
    <3>1. LayoutOK'
      BY <2>4 DEF StopShards, LayoutOK
    <3> QED
      BY <2>4, <3>1 DEF StopShards, ControlOK
  <2>5. CASE Stopped
    BY <2>5 DEF Stopped, ControlOK
  <2> QED
    BY <1>1, <2>1, <2>2, <2>3, <2>4, <2>5 DEF Lifecycle
<1>2. CASE Resharding
  <2>1. CASE \E d \in Desired : CalculateDesiredShards(d)
    <3> PICK d \in Desired : CalculateDesiredShards(d)
      BY <2>1
    <3>1. d \in Int
      OBVIOUS
    <3>2. TargetShards(d) \in Int /\ TargetShards(d) <= MaxShards
      BY <3>1 DEF TargetShards, Ceil10
    <3> QED
      BY <3>2 DEF CalculateDesiredShards, ControlOK
  <2>2. CASE UpdaterQuits
    BY <2>2 DEF UpdaterQuits, ControlOK
  <2>3. CASE ReshardSwap
    <3>1. shards + 1 \in Gens /\ numShards \in 0 .. MaxShards
      <4>1. shards < MaxReshards /\ numShards >= 0
        BY <2>3 DEF ReshardSwap, Structure, ControlStructure
      <4>2. shards \in 0 .. MaxReshards /\ numShards \in Int /\ numShards <= MaxShards
        BY DEF ControlOK, LayoutOK, Gens
      <4> QED
        BY <4>1, <4>2 DEF Gens
    <3>2. LayoutOK'
      BY <2>3, <3>1 DEF ReshardSwap, LayoutOK
    <3> QED
      BY <2>3, <3>2 DEF ReshardSwap, ControlOK
  <2>4. CASE ReshardPanics
    BY <2>4 DEF ReshardPanics, ControlOK
  <2>5. CASE ReshardClose
    <3>1. LayoutOK'
      BY <2>5 DEF ReshardClose, LayoutOK
    <3> QED
      BY <2>5, <3>1 DEF ReshardClose, ControlOK
  <2>6. CASE ReshardStart
    <3>1. SendersOK'
      BY <2>6 DEF ReshardStart, Launch, SendersOK
    <3> QED
      BY <2>6, <3>1 DEF ReshardStart, ControlOK
  <2>7. CASE ResharderQuits
    BY <2>7 DEF ResharderQuits, ControlOK
  <2> QED
    BY <1>2, <2>1, <2>2, <2>3, <2>4, <2>5, <2>6, <2>7 DEF Resharding
<1>3. CASE Appending
  <2>1. ASSUME NEW a \in Appenders, IncQueueLength(a)
        PROVE  TypeOK'
    <3>1. AppendersOK'
      BY <2>1 DEF IncQueueLength, AppendersOK
    <3> QED
      BY <2>1, <3>1 DEF IncQueueLength
  <2>2. ASSUME NEW a \in Appenders, NEW m \in Metrics, AppendSample(a, m)
        PROVE  TypeOK'
    <3> DEFINE s == [id |-> nextId, series |-> Relabel[m]]
               sh == ShardFor(s.series)
    <3>1. s \in Sample /\ s.series \in Series
      BY <2>2 DEF AppendSample, AppendersOK, Sample
    <3>2. sh \in Shards
      BY <2>2, <3>1, Routed DEF AppendSample
    <3>3. EnqueueAccepted(a, s) \/ EnqueueFull(a, s)
      BY <2>2 DEF AppendSample
    <3> HIDE DEF s
    <3>4. CASE EnqueueAccepted(a, s)
      <4> HIDE DEF sh
      <4>1. /\ queue' = [queue EXCEPT ![sh] = Append(queue[sh], s)]
            /\ Len(queue[sh]) < QueueCapacity
            /\ appender' = [appender EXCEPT ![a] = "inc"]
            /\ dropped' = dropped
        BY <3>4 DEF EnqueueAccepted, sh
      <4>2. queue[sh] \in Seq(Sample)
        BY <3>2 DEF QueuesOK
      <4>3. /\ Append(queue[sh], s) \in Seq(Sample)
            /\ Len(Append(queue[sh], s)) <= QueueCapacity
        BY <4>1, <4>2, <3>1
      <4>4. QueuesOK'
        BY <3>2, <4>1, <4>3 DEF QueuesOK
      <4>5. AppendersOK'
        BY <2>2, <4>1 DEF AppendSample, AppendersOK
      <4> QED
        BY <2>2, <4>4, <4>5 DEF AppendSample
    <3>5. CASE EnqueueFull(a, s)
      <4>1. AppendersOK'
        BY <2>2, <3>1, <3>5 DEF AppendSample, EnqueueFull, AppendersOK
      <4> QED
        BY <2>2, <3>5, <4>1 DEF AppendSample, EnqueueFull
    <3> QED
      BY <3>3, <3>4, <3>5
  <2>3. ASSUME NEW a \in Appenders, NEW m \in Metrics, AppendPanics(a, m)
        PROVE  TypeOK'
    <3>1. ControlOK'
      BY <2>3 DEF AppendPanics, ControlOK
    <3> QED
      BY <2>3, <3>1 DEF AppendPanics
  <2> QED
    BY <1>3, <2>1, <2>2, <2>3 DEF Appending
<1>4. ASSUME NEW sh \in Shards, ShardStep(sh)
      PROVE  TypeOK'
  <2>0. /\ queue[sh] \in Seq(Sample)
        /\ pending[sh] \in Seq(Sample)
        /\ Elems(pending[sh]) \subseteq Sample
        /\ Len(queue[sh]) <= QueueCapacity
    BY ElemsType DEF QueuesOK, SendersOK
  <2>1. CASE Receive(sh)
    <3> DEFINE p == Append(pending[sh], Head(queue[sh]))
               q == Tail(queue[sh])
    <3>1. /\ queue[sh] # << >>
          /\ Len(pending[sh]) < MaxSamplesPerSend
      BY <2>1 DEF Receive, Structure, ShardStructure
    <3>2. q \in Seq(Sample) /\ Len(q) <= QueueCapacity
      BY <2>0, <3>1
    <3>3. p \in Seq(Sample) /\ Len(p) <= MaxSamplesPerSend
      BY <2>0, <3>1, ElemsTail
    <3>4. /\ queue' = [queue EXCEPT ![sh] = q]
          /\ pending' = [pending EXCEPT ![sh] = p]
      BY <2>1 DEF Receive
    <3> HIDE DEF p, q
    <3>5. QueuesOK'
      BY <3>2, <3>4 DEF QueuesOK
    <3>6. SendersOK'
      BY <2>1, <3>3, <3>4 DEF Receive, SendersOK
    <3>7. AppendersOK'
      BY <2>1 DEF Receive, AppendersOK
    <3> QED
      BY <2>1, <3>5, <3>6, <3>7 DEF Receive
  <2>2. CASE Deadline(sh)
    <3>1. SendersOK'
      BY <2>2 DEF Deadline, SendersOK
    <3> QED
      BY <2>2, <3>1 DEF Deadline
  <2>3. CASE QueueClosed(sh)
    <3>1. SendersOK'
      BY <2>3 DEF QueueClosed, SendersOK
    <3> QED
      BY <2>3, <3>1 DEF QueueClosed
  <2>4. ASSUME SendReturns(sh)
        PROVE  SendersOK'
    <3>1. << >> \in Seq(Sample) /\ Len(<< >>) = 0
      OBVIOUS
    <3> QED
      BY <2>4, <3>1 DEF SendReturns, SendersOK
  <2>5. CASE StoreSucceeds(sh)
    <3>1. OutcomesOK'
      BY <2>0, <2>5 DEF StoreSucceeds, OutcomesOK
    <3> QED
      BY <2>5, <2>4, <3>1 DEF StoreSucceeds
  <2>6. ASSUME NEW k \in 0 .. Len(pending[sh]),
               StoreRetries(sh, k) \/ StoreGivesUp(sh, k)
        PROVE  TypeOK'
    <3>1. Taken(sh, k) \subseteq Sample
      BY <2>0 DEF Taken
    <3>2. OutcomesOK'
      BY <2>0, <2>6, <3>1
      DEF StoreRetries, StoreGivesUp, RemoteTakes, OutcomesOK
    <3>3. CASE StoreRetries(sh, k)
      <4>1. SendersOK'
        BY <3>3 DEF StoreRetries, SendersOK
      <4> QED
        BY <3>2, <3>3, <4>1 DEF StoreRetries
    <3>4. CASE StoreGivesUp(sh, k)
      BY <2>4, <3>2, <3>4 DEF StoreGivesUp
    <3> QED
      BY <2>6, <3>3, <3>4
  <2> QED
    BY <1>4, <2>1, <2>2, <2>3, <2>5, <2>6 DEF ShardStep
<1>5. CASE UNCHANGED vars
  BY <1>5 DEF vars
<1> QED
  BY <1>1, <1>2, <1>3, <1>4, <1>5 DEF Next, Terminated

-----------------------------------------------------------------------------
(***************************************************************************)
(* Structure.                                                              *)
(***************************************************************************)

LEMMA FrameStructure ==
  ASSUME Structure, UNCHANGED <<mgr, resharder, layout, queue, goroutine,
                                pending, succeeded, failed>>
  PROVE  Structure'
<1>1. ControlStructure'
  BY DEF Structure, ControlStructure, Flushing, layout
<1>2. ASSUME NEW t \in Shards
      PROVE  ShardStructure(t)'
  BY DEF Structure, ShardStructure, Flushing, layout
<1> QED
  BY <1>1, <1>2 DEF Structure

\* A generation whose wg.Wait() has returned holds no sample.
LEMMA DoneIsEmpty ==
  ASSUME TypeOK, Structure, NEW g \in Gens, AllDone(g),
         NEW sh \in Shards, sh[1] = g
  PROVE  queue[sh] = << >> /\ goroutine[sh] \in {"off", "done"}
<1>1. sh[2] \in Int /\ size[g] \in Int
  BY ShardType, ConfigAssumption DEF TypeOK, LayoutOK, ShardIds
<1>2. CASE sh[2] < size[g]
  BY <1>2 DEF AllDone, ShardsOf, Structure, ShardStructure
<1>3. CASE ~(sh[2] < size[g])
  BY <1>1, <1>3 DEF Structure, ShardStructure
<1> QED
  BY <1>2, <1>3

LEMMA LifecycleStructure ==
  ASSUME TypeOK, Structure, Lifecycle
  PROVE  Structure'
<1> USE DEF Structure, Flushing, layout, senders, outcomes
<1>1. CASE Start
  <2>1. ControlStructure'
    BY <1>1 DEF Start, ControlStructure
  <2>2. ASSUME NEW t \in Shards PROVE ShardStructure(t)'
    <3>1. ~Flushing
      BY <1>1 DEF Start, ControlStructure
    <3> QED
      BY <1>1, <3>1 DEF Start, ShardStructure
  <2> QED
    BY <2>1, <2>2
<1>2. CASE StartShards
  <2>1. shards = 0 /\ ~Flushing
    BY <1>2 DEF StartShards, ControlStructure
  <2>2. ControlStructure'
    BY <1>2 DEF StartShards, ControlStructure
  <2>3. ASSUME NEW t \in Shards PROVE ShardStructure(t)'
    <3>1. /\ goroutine[t] = "off" /\ pending[t] = << >>
          /\ t[1] > shards \/ t[2] >= size[t[1]] => queue[t] = << >>
      BY <1>2 DEF StartShards, ShardStructure
    <3>2. /\ t[1] \in Nat /\ t[2] \in Nat /\ size[t[1]] \in Nat
      BY ShardType, ConfigAssumption DEF TypeOK, LayoutOK, Gens, ShardIds
    <3>3. CASE t \in ShardsOf(shards)
      <4>1. goroutine'[t] = "select" /\ t[1] = shards /\ t[2] < size[t[1]]
        BY <1>2, <3>3 DEF StartShards, Launch, ShardsOf
      <4>2. Len(pending[t]) < MaxSamplesPerSend
        BY <3>1, ConfigAssumption
      <4> QED
        BY <1>2, <2>1, <3>1, <3>2, <4>1, <4>2 DEF StartShards, ShardStructure
    <3>4. CASE t \notin ShardsOf(shards)
      <4>1. goroutine'[t] = "off"
        BY <1>2, <3>1, <3>4 DEF StartShards, Launch
      <4> QED
        BY <1>2, <2>1, <3>1, <3>2, <4>1 DEF StartShards, ShardStructure
    <3> QED
      BY <3>3, <3>4
  <2> QED
    BY <2>2, <2>3
<1>3. CASE Stop
  <2>1. ControlStructure'
    BY <1>3 DEF Stop, ControlStructure
  <2>2. ASSUME NEW t \in Shards PROVE ShardStructure(t)'
    BY <1>3 DEF Stop, ShardStructure
  <2> QED
    BY <2>1, <2>2
<1>4. CASE StopShards
  <2>1. /\ closed'[shards] = TRUE
        /\ \A g \in Gens : closed[g] => closed'[g]
    BY <1>4 DEF StopShards, TypeOK, LayoutOK
  <2>2. ControlStructure'
    BY <1>4, <2>1 DEF StopShards, ControlStructure
  <2>3. ASSUME NEW t \in Shards PROVE ShardStructure(t)'
    BY <1>4, <2>1, ShardType DEF StopShards, ShardStructure
  <2> QED
    BY <2>2, <2>3
<1>5. CASE Stopped
  <2>1. ControlStructure'
    BY <1>5 DEF Stopped, ControlStructure
  <2>2. ASSUME NEW t \in Shards PROVE ShardStructure(t)'
    <3>1. t[1] = shards => queue[t] = << >> /\ goroutine[t] \in {"off", "done"}
      BY <1>5, DoneIsEmpty DEF Stopped, TypeOK, LayoutOK
    <3> QED
      BY <1>5, <3>1 DEF Stopped, ShardStructure
  <2> QED
    BY <2>1, <2>2
<1> QED
  BY <1>1, <1>2, <1>3, <1>4, <1>5 DEF Lifecycle

LEMMA ReshardingStructure ==
  ASSUME TypeOK, Structure, Resharding
  PROVE  Structure'
<1> USE DEF Structure, Flushing, layout, senders, outcomes
<1>0. shards \in Int /\ \A t \in Shards : t[1] \in Int /\ t[2] \in Int
  BY ShardType, ConfigAssumption DEF TypeOK, LayoutOK, Gens, ShardIds
<1>1. CASE \E d \in Desired : CalculateDesiredShards(d)
  <2> PICK d \in Desired : CalculateDesiredShards(d)
    BY <1>1
  <2>1. ControlStructure'
    BY DEF CalculateDesiredShards, SamplesOutPositive, ControlStructure,
           TypeOK, ControlOK
  <2>2. ASSUME NEW t \in Shards PROVE ShardStructure(t)'
    BY DEF CalculateDesiredShards, ShardStructure
  <2> QED
    BY <2>1, <2>2
<1>2. CASE UpdaterQuits
  BY <1>2, FrameStructure DEF UpdaterQuits
<1>3. CASE ReshardSwap
  <2>1. /\ shards' = shards + 1
        /\ size' = [size EXCEPT ![shards + 1] = numShards]
        /\ resharder = "swap" /\ resharder' = "close"
        /\ UNCHANGED <<mgr, closed, queue, goroutine, pending, succeeded, failed>>
    BY <1>3 DEF ReshardSwap
  <2>2. ControlStructure'
    BY <1>0, <2>1 DEF ControlStructure, TypeOK, LayoutOK, Gens
  <2>3. ASSUME NEW t \in Shards PROVE ShardStructure(t)'
    <3>1. t[1] = shards + 1 => queue[t] = << >> /\ goroutine[t] = "off"
      BY <1>0 DEF ShardStructure
    <3>2. t[1] # shards + 1 => size'[t[1]] = size[t[1]]
      BY <2>1, ShardType DEF TypeOK, LayoutOK
    <3>3. mgr # "stopped"
      BY <2>1 DEF ControlStructure
    <3> QED
      BY <1>0, <2>1, <3>1, <3>2, <3>3 DEF ShardStructure
  <2> QED
    BY <2>2, <2>3
<1>4. CASE ReshardPanics
  BY <1>4, FrameStructure DEF ReshardPanics, control
<1>5. CASE ReshardClose
  <2>1. \A g \in Gens : /\ closed[g] => closed'[g]
                        /\ g >= shards => closed'[g] = closed[g]
    <3> SUFFICES ASSUME NEW g \in Gens
                 PROVE  /\ closed[g] => closed'[g]
                        /\ g >= shards => closed'[g] = closed[g]
      OBVIOUS
    <3>1. closed' = [closed EXCEPT ![shards - 1] = TRUE]
      BY <1>5 DEF ReshardClose
    <3>2. DOMAIN closed = Gens /\ g \in Int
      BY ConfigAssumption DEF TypeOK, LayoutOK, Gens
    <3>3. CASE g = shards - 1
      <4>1. closed'[g] = TRUE
        BY <3>1, <3>2, <3>3
      <4>2. ~(g >= shards)
        BY <1>0, <3>3
      <4> QED
        BY <4>1, <4>2
    <3>4. CASE g # shards - 1
      BY <3>1, <3>2, <3>4
    <3> QED
      BY <3>3, <3>4
  <2>2. ControlStructure'
    BY <1>5, <2>1 DEF ReshardClose, ControlStructure, TypeOK, LayoutOK
  <2>3. ASSUME NEW t \in Shards PROVE ShardStructure(t)'
    BY <1>5, <2>1, ShardType DEF ReshardClose, ShardStructure
  <2> QED
    BY <2>2, <2>3
<1>6. CASE ReshardStart
  <2>0. /\ resharder = "wait" /\ resharder' = "select"
        /\ AllDone(shards - 1)
        /\ Launch(shards)
        /\ UNCHANGED <<mgr, layout, queue, pending, succeeded, failed>>
    BY <1>6 DEF ReshardStart
  <2>1. shards - 1 \in Gens
    BY <2>0, <1>0, ConfigAssumption
    DEF ControlStructure, TypeOK, LayoutOK, Gens
  <2>2. ControlStructure'
    BY <2>0 DEF ControlStructure
  <2>3. ASSUME NEW t \in Shards PROVE ShardStructure(t)'
    <3>1. t[1] = shards - 1
            => queue[t] = << >> /\ goroutine[t] \in {"off", "done"}
      BY <2>0, <2>1, DoneIsEmpty
    <3>2. mgr \notin {"new", "starting", "stopped"}
      BY <2>0 DEF ControlStructure
    <3>3. CASE t \in ShardsOf(shards)
      <4>1. goroutine'[t] = "select" /\ t[1] = shards /\ t[2] < size[t[1]]
        BY <2>0, <3>3 DEF Launch, ShardsOf
      <4>2. goroutine[t] = "off" /\ pending[t] = << >>
        BY <2>0, <4>1 DEF ShardStructure
      <4>3. Len(pending[t]) < MaxSamplesPerSend
        BY <4>2, ConfigAssumption
      <4>4. size[t[1]] \in Int
        BY ShardType, ConfigAssumption DEF TypeOK, LayoutOK
      <4> QED
        BY <1>0, <2>0, <3>2, <4>1, <4>3, <4>4 DEF ShardStructure
    <3>4. CASE t \notin ShardsOf(shards)
      <4>1. goroutine'[t] = goroutine[t]
        BY <2>0, <3>4 DEF Launch
      <4> QED
        BY <1>0, <2>0, <3>1, <3>2, <4>1 DEF ShardStructure
    <3> QED
      BY <3>3, <3>4
  <2> QED
    BY <2>2, <2>3
<1>7. CASE ResharderQuits
  <2>1. ControlStructure'
    BY <1>7 DEF ResharderQuits, ControlStructure
  <2>2. ASSUME NEW t \in Shards PROVE ShardStructure(t)'
    BY <1>7 DEF ResharderQuits, ShardStructure
  <2> QED
    BY <2>1, <2>2
<1> QED
  BY <1>1, <1>2, <1>3, <1>4, <1>5, <1>6, <1>7 DEF Resharding

LEMMA AppendingStructure ==
  ASSUME TypeOK, Structure, Appending
  PROVE  Structure'
<1> USE DEF layout, senders, outcomes, control
<1>1. ASSUME NEW a \in Appenders, IncQueueLength(a)
      PROVE  Structure'
  BY <1>1, FrameStructure DEF IncQueueLength
<1>2. ASSUME NEW a \in Appenders, NEW m \in Metrics, AppendPanics(a, m)
      PROVE  Structure'
  BY <1>2, FrameStructure DEF AppendPanics
<1>3. ASSUME NEW a \in Appenders, NEW m \in Metrics, AppendSample(a, m)
      PROVE  Structure'
  <2> DEFINE s == [id |-> nextId, series |-> Relabel[m]]
             sh == ShardFor(s.series)
  <2>1. s.series \in Series
    BY <1>3, ConfigAssumption DEF AppendSample
  <2>2. /\ sh \in Shards
        /\ sh[1] = shards
        /\ sh[2] < size[shards]
    BY <1>3, <2>1, Routed DEF AppendSample
  <2>3. EnqueueAccepted(a, s) \/ EnqueueFull(a, s)
    BY <1>3 DEF AppendSample
  <2> HIDE DEF s
  <2>4. CASE EnqueueAccepted(a, s)
    <3> HIDE DEF sh
    <3>1. queue' = [queue EXCEPT ![sh] = Append(queue[sh], s)]
      BY <2>4 DEF EnqueueAccepted, sh
    <3>2. UNCHANGED <<mgr, resharder, shards, size, closed, goroutine, pending,
                      succeeded, failed>>
      BY <1>3 DEF AppendSample
    <3>3. ~closed[shards]
      BY <1>3 DEF AppendSample
    <3>4. ControlStructure'
      BY <3>2 DEF Structure, ControlStructure, Flushing
    <3>5. ASSUME NEW t \in Shards PROVE ShardStructure(t)'
      <4>1. CASE t # sh
        <5>1. queue'[t] = queue[t]
          BY <3>1, <4>1 DEF TypeOK, QueuesOK
        <5> QED
          BY <3>2, <5>1 DEF Structure, ShardStructure, Flushing
      <4>2. CASE t = sh
        <5>1. goroutine[t] \notin {"flush", "done"} /\ mgr # "stopped"
          BY <2>2, <3>3, <4>2 DEF Structure, ShardStructure, ControlStructure
        <5>2. /\ ~(t[1] > shards \/ t[2] >= size[t[1]])
              /\ ~(t[1] < shards - 1 \/ (t[1] = shards - 1 /\ ~Flushing))
          BY <2>2, <4>2, ShardType, ConfigAssumption
          DEF TypeOK, LayoutOK, Gens, ShardIds
        <5> QED
          BY <3>2, <5>1, <5>2 DEF Structure, ShardStructure, Flushing
      <4> QED
        BY <4>1, <4>2
    <3> QED
      BY <3>4, <3>5 DEF Structure
  <2>5. CASE EnqueueFull(a, s)
    BY <1>3, <2>5, FrameStructure DEF AppendSample, EnqueueFull
  <2> QED
    BY <2>3, <2>4, <2>5
<1> QED
  BY <1>1, <1>2, <1>3 DEF Appending

LEMMA ShardStepStructure ==
  ASSUME TypeOK, Structure, NEW sh \in Shards, ShardStep(sh)
  PROVE  Structure'
<1> USE DEF layout, senders, outcomes, control
<1>0. /\ goroutine \in [Shards -> {"off", "select", "send", "flush", "done"}]
      /\ pending \in [Shards -> Seq(Sample)]
      /\ queue \in [Shards -> Seq(Sample)]
  BY DEF TypeOK, QueuesOK, SendersOK
\* A goroutine that takes a step is one of the generation that runs.
<1>1. goroutine[sh] \in {"select", "send", "flush"}
  BY <1>0 DEF ShardStep, Receive, Deadline, QueueClosed, StoreSucceeds,
              StoreRetries, StoreGivesUp, Sending
<1>2. /\ ~(sh[1] > shards \/ sh[2] >= size[sh[1]])
      /\ ~(sh[1] < shards - 1 \/ (sh[1] = shards - 1 /\ ~Flushing))
      /\ ~(Flushing /\ sh[1] = shards)
      /\ mgr \notin {"new", "starting"}
      /\ ~(mgr = "stopped" /\ sh[1] = shards)
  BY <1>1 DEF Structure, ShardStructure
<1>3. UNCHANGED <<mgr, resharder, shards, size, closed>>
  BY DEF ShardStep, Receive, Deadline, QueueClosed, StoreSucceeds,
         StoreRetries, StoreGivesUp
<1>4. ControlStructure'
  BY <1>2, <1>3 DEF Structure, ControlStructure, Flushing
\* What is left to show of a step that touches only shard sh.
<1>5. ASSUME \A t \in Shards \ {sh} : /\ goroutine'[t] = goroutine[t]
                                     /\ pending'[t] = pending[t]
                                     /\ queue'[t] = queue[t],
             goroutine'[sh] \in {"off", "done"} => pending'[sh] = << >>,
             goroutine'[sh] = "select" => Len(pending'[sh]) < MaxSamplesPerSend,
             goroutine'[sh] \in {"flush", "done"}
               => queue'[sh] = << >> /\ closed[sh[1]]
      PROVE  Structure'
  <2>1. ASSUME NEW t \in Shards PROVE ShardStructure(t)'
    <3>1. CASE t = sh
      BY <1>2, <1>3, <1>5, <3>1 DEF ShardStructure, Flushing
    <3>2. CASE t # sh
      BY <1>3, <1>5, <3>2 DEF Structure, ShardStructure, Flushing
    <3> QED
      BY <3>1, <3>2
  <2> QED
    BY <1>4, <2>1 DEF Structure
<1>6. CASE Receive(sh)
  <2> DEFINE p == Append(pending[sh], Head(queue[sh]))
  <2>1. /\ pending' = [pending EXCEPT ![sh] = p]
        /\ queue' = [queue EXCEPT ![sh] = Tail(queue[sh])]
        /\ goroutine' = [goroutine EXCEPT ![sh] =
                            IF Len(p) >= MaxSamplesPerSend THEN "send" ELSE "select"]
    BY <1>6 DEF Receive
  <2>2. Len(p) \in Nat
    BY <1>0, <1>6, ElemsTail DEF Receive
  <2> HIDE DEF p
  <2>3. Len(p) \in Nat /\ MaxSamplesPerSend \in Nat
    BY <2>2, ConfigAssumption
  <2> QED
    BY <1>0, <1>5, <2>1, <2>3
<1>7. CASE Deadline(sh)
  BY <1>0, <1>5, <1>7 DEF Deadline
<1>8. CASE QueueClosed(sh)
  BY <1>0, <1>5, <1>8 DEF QueueClosed
<1>9. ASSUME SendReturns(sh), UNCHANGED queue, Sending(sh)
      PROVE  Structure'
  <2>1. /\ pending'[sh] = << >>
        /\ goroutine'[sh] = IF goroutine[sh] = "flush" THEN "done" ELSE "select"
        /\ \A t \in Shards \ {sh} : /\ goroutine'[t] = goroutine[t]
                                    /\ pending'[t] = pending[t]
    BY <1>0, <1>9 DEF SendReturns
  <2>2. goroutine[sh] = "flush" => queue[sh] = << >> /\ closed[sh[1]]
    BY DEF Structure, ShardStructure
  <2>3. Len(<< >>) < MaxSamplesPerSend
    BY ConfigAssumption
  <2> QED
    BY <1>5, <1>9, <2>1, <2>2, <2>3
<1>10. CASE StoreSucceeds(sh)
  BY <1>9, <1>10 DEF StoreSucceeds
<1>11. ASSUME NEW k \in 0 .. Len(pending[sh]), StoreRetries(sh, k)
       PROVE  Structure'
  BY <1>11, FrameStructure DEF StoreRetries
<1>12. ASSUME NEW k \in 0 .. Len(pending[sh]), StoreGivesUp(sh, k)
       PROVE  Structure'
  BY <1>9, <1>12 DEF StoreGivesUp
<1> QED
  BY <1>6, <1>7, <1>8, <1>10, <1>11, <1>12 DEF ShardStep

\* Every step keeps Structure.
LEMMA StructureStep ==
  ASSUME TypeOK, Structure, [Next]_vars
  PROVE  Structure'
<1>1. CASE UNCHANGED vars
  BY <1>1, FrameStructure DEF vars, control, senders, outcomes
<1> QED
  BY <1>1, LifecycleStructure, ReshardingStructure, AppendingStructure,
     ShardStepStructure DEF Next, Terminated

-----------------------------------------------------------------------------
(***************************************************************************)
(* Order.                                                                  *)
(***************************************************************************)

LEMMA WaitingType ==
  ASSUME TypeOK, NEW t \in Shards, NEW x \in Waiting(t)
  PROVE  x \in Sample /\ x.id \in Int /\ x.series \in Series
<1>1. queue[t] \in Seq(Sample) /\ pending[t] \in Seq(Sample)
  BY DEF TypeOK, QueuesOK, SendersOK
<1>2. x \in Sample
  BY <1>1, ElemsType DEF Waiting
<1> QED
  BY <1>2 DEF Sample

LEMMA FrameOrder ==
  ASSUME Order, UNCHANGED <<size, queue, pending, nextId, stored>>
  PROVE  Order'
BY DEF Order, ShardOrder, GenerationOrder, StoredOld, Waiting, Elems, Sorted

\* Order survives when every shard keeps a part of what it had, in order, and
\* the ids that have been given out only grow.
LEMMA ShrinkingOrder ==
  ASSUME TypeOK, TypeOK', Order, UNCHANGED size,
         nextId' >= nextId,
         \A t \in Shards : /\ Waiting(t)' \subseteq Waiting(t)
                          /\ Sorted(pending'[t])
                          /\ Sorted(queue'[t])
                          /\ \A x \in Elems(pending'[t]), y \in Elems(queue'[t]) :
                                x.id < y.id,
         \A d \in stored' : d.id < nextId'
  PROVE  Order'
<1>1. nextId \in Int /\ nextId' \in Int
  BY DEF TypeOK, AppendersOK
<1>2. ASSUME NEW t \in Shards PROVE ShardOrder(t)'
  <2>1. ASSUME NEW x \in Waiting(t)'
        PROVE  x.id < nextId' /\ t[2] = Hash[x.series] % size'[t[1]]
    <3>1. x \in Waiting(t)
      OBVIOUS
    <3>3. x.id \in Int
      BY <3>1, WaitingType
    <3>4. x.id < nextId /\ t[2] = Hash[x.series] % size[t[1]]
      BY <3>1 DEF Order, ShardOrder
    <3> QED
      BY <1>1, <3>3, <3>4
  <2> QED
    BY <2>1 DEF ShardOrder
<1>3. GenerationOrder'
  BY DEF Order, GenerationOrder
<1>4. StoredOld'
  BY DEF StoredOld
<1> QED
  BY <1>2, <1>3, <1>4 DEF Order

\* A sample is in the shard its series hashes to, so samples of one series
\* that wait in one generation wait in one shard; and no sample waits in a
\* generation before that of a goroutine that is running.
LEMMA SameSeries ==
  ASSUME TypeOK, Structure, Order,
         NEW sh \in Shards, goroutine[sh] \notin {"off", "done"},
         NEW t \in Shards, t # sh,
         NEW x \in Waiting(sh), NEW y \in Waiting(t), x.series = y.series
  PROVE  sh[1] < t[1] /\ x.id < y.id
<1>0. /\ shards \in Int
      /\ sh[1] \in Int /\ t[1] \in Int
  BY ShardType, ConfigAssumption DEF TypeOK, LayoutOK, Gens
<1>1. CASE sh[1] = t[1]
  <2>1. /\ sh[2] = Hash[x.series] % size[sh[1]]
        /\ t[2] = Hash[y.series] % size[t[1]]
    BY DEF Order, ShardOrder
  <2>2. sh[2] = t[2]
    BY <1>1, <2>1
  <2> QED
    BY <1>1, <2>2, ShardType
<1>2. CASE t[1] < sh[1]
  <2>1. (sh[1] = shards /\ ~Flushing) \/ sh[1] = shards - 1
    BY <1>0 DEF Structure, ShardStructure
  <2>2. t[1] < shards - 1 \/ (t[1] = shards - 1 /\ ~Flushing)
    BY <1>0, <1>2, <2>1
  <2>3. queue[t] = << >> /\ pending[t] = << >>
    BY <2>2 DEF Structure, ShardStructure
  <2> QED
    BY <2>3, ElemsEmpty DEF Waiting
<1>3. CASE sh[1] < t[1]
  BY <1>3 DEF Order, GenerationOrder
<1> QED
  BY <1>0, <1>1, <1>2, <1>3

\* Append puts a sample that is younger than all others into a generation
\* that no younger one follows.
LEMMA AppendOrder ==
  ASSUME TypeOK, TypeOK', Structure, Order,
         NEW a \in Appenders, NEW m \in Metrics, AppendSample(a, m)
  PROVE  Order'
<1> PICK s \in Sample : s = [id |-> nextId, series |-> Relabel[m]]
  BY ConfigAssumption DEF AppendSample, TypeOK, AppendersOK, Sample
<1>1. s.series \in Series /\ s.id = nextId
  BY DEF Sample
<1> PICK sh \in Shards : sh = ShardFor(s.series)
  BY <1>1, Routed DEF AppendSample
<1>2. /\ sh[1] = shards
      /\ sh[2] = Hash[s.series] % size[shards]
  BY <1>1, Routed DEF AppendSample
<1>3. EnqueueAccepted(a, s) \/ EnqueueFull(a, s)
  BY DEF AppendSample
<1>4. /\ UNCHANGED <<size, shards, pending, stored>>
      /\ nextId' = nextId + 1
  BY DEF AppendSample, layout, senders, outcomes
<1>5. nextId \in Int
  BY DEF TypeOK, AppendersOK
<1>6. \A d \in stored : d.id \in Int /\ d.id < nextId
  BY DEF TypeOK, OutcomesOK, Sample, Order, StoredOld
<1>7. CASE EnqueueFull(a, s)
  <2>1. UNCHANGED queue
    BY <1>7 DEF EnqueueFull
  <2>2. \A t \in Shards : /\ Waiting(t)' \subseteq Waiting(t)
                         /\ ShardOrder(t)
    BY <1>4, <2>1 DEF Waiting, Elems, Order
  <2>3. \A d \in stored' : d.id < nextId'
    BY <1>4, <1>5, <1>6
  <2> QED
    BY <1>4, <1>5, <2>1, <2>2, <2>3, ShrinkingOrder DEF ShardOrder
<1>8. CASE EnqueueAccepted(a, s)
  <2>1. queue' = [queue EXCEPT ![sh] = Append(queue[sh], s)]
    BY <1>8 DEF EnqueueAccepted
  <2>2. /\ queue[sh] \in Seq(Sample)
        /\ queue'[sh] = Append(queue[sh], s)
        /\ \A t \in Shards \ {sh} : queue'[t] = queue[t]
    BY <1>2, <2>1 DEF TypeOK, QueuesOK
  <2>3. \A t \in Shards : \A x \in Waiting(t) : x.id \in Int /\ x.id < nextId
    BY WaitingType DEF Order, ShardOrder
  <2>4. Elems(queue'[sh]) = Elems(queue[sh]) \cup {s}
    BY <1>1, <2>2, ElemsAppend
  <2>5. /\ Waiting(sh)' = Waiting(sh) \cup {s}
        /\ \A t \in Shards \ {sh} : Waiting(t)' = Waiting(t)
    BY <1>4, <2>2, <2>4 DEF Waiting
  <2>6. ASSUME NEW t \in Shards PROVE ShardOrder(t)'
    <3>0. \A x \in Waiting(t) : x.id < nextId + 1
      BY <1>5, <2>3
    <3>1. CASE t # sh
      BY <1>4, <2>2, <2>5, <3>0, <3>1 DEF Order, ShardOrder
    <3>2. CASE t = sh
      <4>1. Sorted(queue'[t])
        <5>1. \A x \in Elems(queue[sh]) : x.id < s.id
          BY <1>1, <1>2, <2>3 DEF Waiting
        <5>2. Sorted(queue[sh])
          BY <1>2 DEF Order, ShardOrder
        <5> QED
          BY <1>1, <2>2, <3>2, <5>1, <5>2, SortedAppend
      <4>2. \A x \in Elems(pending[t]), y \in Elems(queue'[t]) : x.id < y.id
        <5>1. \A x \in Elems(pending[t]) : x.id < s.id
          BY <1>1, <2>3 DEF Waiting
        <5> QED
          BY <2>4, <3>2, <5>1 DEF Order, ShardOrder
      <4>3. \A x \in Waiting(t)' : /\ x.id < nextId'
                                  /\ t[2] = Hash[x.series] % size'[t[1]]
        <5>1. \A x \in Waiting(t) : t[2] = Hash[x.series] % size[t[1]]
          BY DEF Order, ShardOrder
        <5>2. s.id < nextId + 1
          BY <1>1, <1>5
        <5>3. t[2] = Hash[s.series] % size[t[1]]
          BY <1>2, <3>2
        <5>4. \A x \in Waiting(t)' : x \in Waiting(t) \/ x = s
          BY <2>5, <3>2
        <5> QED
          BY <1>4, <3>0, <5>1, <5>2, <5>3, <5>4
      <4> QED
        BY <1>4, <4>1, <4>2, <4>3 DEF Order, ShardOrder
    <3> QED
      BY <3>1, <3>2
  <2>7. GenerationOrder'
    <3> SUFFICES ASSUME NEW u \in Shards, NEW t \in Shards, u[1] < t[1],
                        NEW x \in Waiting(u)', NEW y \in Waiting(t)'
                 PROVE  x.id < y.id
      BY DEF GenerationOrder
    <3>1. CASE u = sh
      <4>1. t[1] > shards
        BY <1>2, <3>1, ShardType, ConfigAssumption DEF TypeOK, LayoutOK, Gens
      <4>2. queue[t] = << >> /\ pending[t] = << >>
        BY <4>1 DEF Structure, ShardStructure
      <4>3. t # sh
        BY <3>1, ShardType, ConfigAssumption DEF Gens
      <4> QED
        BY <2>5, <4>2, <4>3, ElemsEmpty DEF Waiting
    <3>2. CASE u # sh /\ y = s /\ t = sh
      BY <1>1, <2>3, <2>5, <3>2
    <3>3. CASE u # sh /\ ~(y = s /\ t = sh)
      <4>1. x \in Waiting(u) /\ y \in Waiting(t)
        BY <2>5, <3>3
      <4> QED
        BY <4>1 DEF Order, GenerationOrder
    <3> QED
      BY <3>1, <3>2, <3>3
  <2>8. StoredOld'
    BY <1>4, <1>5, <1>6 DEF StoredOld
  <2> QED
    BY <2>6, <2>7, <2>8 DEF Order
<1> QED
  BY <1>3, <1>7, <1>8

\* The new generation is still empty, so it does not matter how it is hashed.
LEMMA SwapOrder ==
  ASSUME TypeOK, Structure, Order, ReshardSwap
  PROVE  Order'
<1>1. /\ size' = [size EXCEPT ![shards + 1] = numShards]
      /\ UNCHANGED <<queue, pending, nextId, stored>>
  BY DEF ReshardSwap, senders, outcomes
<1>2. \A t \in Shards : Waiting(t)' = Waiting(t)
  BY <1>1 DEF Waiting
<1>3. ASSUME NEW t \in Shards PROVE ShardOrder(t)'
  <2>0. t[1] \in Gens /\ shards \in Int /\ DOMAIN size = Gens
    BY ShardType, ConfigAssumption DEF TypeOK, LayoutOK, Gens
  <2>1. CASE t[1] = shards + 1
    <3>1. Waiting(t) = {}
      <4>1. queue[t] = << >> /\ pending[t] = << >>
        BY <2>0, <2>1 DEF Structure, ShardStructure
      <4> QED
        BY <4>1, ElemsEmpty DEF Waiting
    <3> QED
      BY <1>1, <1>2, <3>1 DEF Order, ShardOrder
  <2>2. CASE t[1] # shards + 1
    <3>1. size'[t[1]] = size[t[1]]
      BY <1>1, <2>0, <2>2
    <3> QED
      BY <1>1, <1>2, <3>1 DEF Order, ShardOrder
  <2> QED
    BY <2>1, <2>2
<1>4. GenerationOrder' /\ StoredOld'
  BY <1>1, <1>2 DEF Order, GenerationOrder, StoredOld
<1> QED
  BY <1>3, <1>4 DEF Order

\* What runShard takes off the channel is younger than what it has taken.
LEMMA ReceiveKeeps ==
  ASSUME TypeOK, Order, NEW sh \in Shards, Receive(sh)
  PROVE  \A t \in Shards : /\ Waiting(t)' = Waiting(t)
                          /\ Sorted(pending'[t])
                          /\ Sorted(queue'[t])
                          /\ \A x \in Elems(pending'[t]), y \in Elems(queue'[t]) :
                                x.id < y.id
<1> SUFFICES ASSUME NEW t \in Shards
             PROVE  /\ Waiting(t)' = Waiting(t)
                    /\ Sorted(pending'[t])
                    /\ Sorted(queue'[t])
                    /\ \A x \in Elems(pending'[t]), y \in Elems(queue'[t]) :
                          x.id < y.id
  OBVIOUS
<1>0. /\ pending[sh] \in Seq(Sample)
      /\ queue[sh] \in Seq(Sample)
      /\ queue[sh] # << >>
      /\ ShardOrder(sh) /\ ShardOrder(t)
  BY DEF Receive, TypeOK, QueuesOK, SendersOK, Order
<1>1. /\ t # sh => pending'[t] = pending[t] /\ queue'[t] = queue[t]
      /\ pending'[sh] = Append(pending[sh], Head(queue[sh]))
      /\ queue'[sh] = Tail(queue[sh])
  BY DEF Receive, TypeOK, QueuesOK, SendersOK
<1>2. CASE t # sh
  BY <1>0, <1>1, <1>2 DEF ShardOrder, Waiting
<1>3. CASE t = sh
  <2>1. /\ Head(queue[sh]) \in Sample
        /\ Elems(queue[sh]) = {Head(queue[sh])} \cup Elems(queue'[sh])
    BY <1>0, <1>1, ElemsTail
  <2>2. Elems(pending'[sh]) = Elems(pending[sh]) \cup {Head(queue[sh])}
    BY <1>0, <1>1, <2>1, ElemsAppend
  <2>3. Waiting(sh)' = Waiting(sh)
    BY <2>1, <2>2 DEF Waiting
  <2>4. /\ Sorted(queue'[sh])
        /\ \A y \in Elems(queue'[sh]) : Head(queue[sh]).id < y.id
    BY <1>0, <1>1, SortedTail DEF ShardOrder
  <2>5. Sorted(pending'[sh])
    <3>1. \A x \in Elems(pending[sh]) : x.id < Head(queue[sh]).id
      BY <1>0, <2>1 DEF ShardOrder
    <3> QED
      BY <1>0, <1>1, <2>1, <3>1, SortedAppend DEF ShardOrder
  <2>6. \A x \in Elems(pending'[sh]), y \in Elems(queue'[sh]) : x.id < y.id
    BY <1>0, <2>1, <2>2, <2>4 DEF ShardOrder
  <2> QED
    BY <1>3, <2>3, <2>4, <2>5, <2>6
<1> QED
  BY <1>2, <1>3

\* sendSamples returns: only its own shard changes, and only its batch goes.
LEMMA SendReturnsKeeps ==
  ASSUME TypeOK, Order, NEW sh \in Shards, SendReturns(sh), UNCHANGED queue
  PROVE  /\ \A t \in Shards : /\ Waiting(t)' \subseteq Waiting(t)
                             /\ Sorted(pending'[t])
                             /\ Sorted(queue'[t])
                             /\ \A x \in Elems(pending'[t]),
                                   y \in Elems(queue'[t]) : x.id < y.id
         /\ Waiting(sh)' = Elems(queue[sh])
         /\ \A t \in Shards \ {sh} : Waiting(t)' = Waiting(t)
<1>1. /\ pending'[sh] = << >>
      /\ \A t \in Shards \ {sh} : pending'[t] = pending[t]
  BY DEF SendReturns, TypeOK, SendersOK
<1>2. Sorted(<< >>)
  BY DEF Sorted
<1>3. /\ Waiting(sh)' = Elems(queue[sh])
      /\ \A t \in Shards \ {sh} : Waiting(t)' = Waiting(t)
  BY <1>1, ElemsEmpty DEF Waiting
<1>4. ASSUME NEW t \in Shards
      PROVE  /\ Waiting(t)' \subseteq Waiting(t)
             /\ Sorted(pending'[t])
             /\ Sorted(queue'[t])
             /\ \A x \in Elems(pending'[t]), y \in Elems(queue'[t]) : x.id < y.id
  <2>1. ShardOrder(t)
    BY DEF Order
  <2>2. CASE t = sh
    BY <1>1, <1>2, <1>3, <2>1, <2>2, ElemsEmpty DEF ShardOrder, Waiting
  <2>3. CASE t # sh
    BY <1>1, <1>3, <2>1, <2>3 DEF ShardOrder
  <2> QED
    BY <2>2, <2>3
<1> QED
  BY <1>3, <1>4

LEMMA ShardStepOrder ==
  ASSUME TypeOK, TypeOK', Order, NEW sh \in Shards, ShardStep(sh)
  PROVE  Order'
<1> USE DEF layout, outcomes, control
<1>0. UNCHANGED <<size, nextId>> /\ nextId \in Int
  BY DEF ShardStep, Receive, Deadline, QueueClosed, StoreSucceeds,
         StoreRetries, StoreGivesUp, TypeOK, AppendersOK
\* Only samples of the batch are added to what the remote storage holds.
<1>1. stored' \subseteq stored \cup Elems(pending[sh])
  <2>1. ASSUME NEW k \in 0 .. Len(pending[sh])
        PROVE  Taken(sh, k) \subseteq Elems(pending[sh])
    <3>1. Len(pending[sh]) \in Nat
      BY DEF TypeOK, SendersOK
    <3> QED
      BY <3>1 DEF Elems, Taken
  <2> QED
    BY <2>1 DEF ShardStep, Receive, Deadline, QueueClosed, StoreSucceeds,
                StoreRetries, StoreGivesUp, RemoteTakes
<1>2. \A d \in stored' : d.id < nextId'
  <2>1. \A d \in Elems(pending[sh]) : d.id < nextId
    BY DEF Order, ShardOrder, Waiting
  <2>2. \A d \in stored : d.id < nextId
    BY DEF Order, StoredOld
  <2> QED
    BY <1>0, <1>1, <2>1, <2>2
<1>3. nextId' >= nextId
  BY <1>0
<1>4. ASSUME UNCHANGED <<queue, pending>>
      PROVE  Order'
  <2>1. \A t \in Shards : Waiting(t)' = Waiting(t) /\ ShardOrder(t)
    BY <1>4 DEF Waiting, Order
  <2> QED
    BY <1>0, <1>2, <1>3, <1>4, <2>1, ShrinkingOrder DEF ShardOrder
<1>5. ASSUME SendReturns(sh), UNCHANGED queue
      PROVE  Order'
  BY <1>0, <1>2, <1>3, <1>5, SendReturnsKeeps, ShrinkingOrder
<1>6. CASE Receive(sh)
  BY <1>0, <1>2, <1>3, <1>6, ReceiveKeeps, ShrinkingOrder
<1>7. CASE Deadline(sh) \/ QueueClosed(sh)
  BY <1>4, <1>7 DEF Deadline, QueueClosed
<1>8. CASE StoreSucceeds(sh)
  BY <1>5, <1>8 DEF StoreSucceeds
<1>9. ASSUME NEW k \in 0 .. Len(pending[sh]),
             StoreRetries(sh, k) \/ StoreGivesUp(sh, k)
      PROVE  Order'
  BY <1>4, <1>5, <1>9 DEF StoreRetries, StoreGivesUp
<1> QED
  BY <1>6, <1>7, <1>8, <1>9 DEF ShardStep

\* Every step keeps Order.
LEMMA OrderStep ==
  ASSUME TypeOK, TypeOK', Structure, Order, [Next]_vars
  PROVE  Order'
<1> USE DEF layout, senders, outcomes, control
<1>1. CASE Lifecycle
  BY <1>1, FrameOrder DEF Lifecycle, Start, StartShards, Stop, StopShards, Stopped
<1>2. CASE Resharding
  BY <1>2, FrameOrder, SwapOrder
  DEF Resharding, CalculateDesiredShards, UpdaterQuits, ReshardPanics,
      ReshardClose, ReshardStart, ResharderQuits
<1>3. CASE Appending
  BY <1>3, FrameOrder, AppendOrder DEF Appending, IncQueueLength, AppendPanics
<1>4. CASE UNCHANGED vars
  BY <1>4, FrameOrder DEF vars
<1> QED
  BY <1>1, <1>2, <1>3, <1>4, ShardStepOrder DEF Next, Terminated

-----------------------------------------------------------------------------
(***************************************************************************)
(* InOrder.                                                                *)
(***************************************************************************)

\* A prefix of a batch being sent comes, series by series, before all else
\* that is on its way: the rest of the batch and of the shard by Sorted, the
\* other shards by SameSeries.
LEMMA PrefixFirst ==
  ASSUME TypeOK, Structure, Order, NEW sh \in Shards, Sending(sh),
         NEW k \in 0 .. Len(pending[sh]),
         NEW x \in Taken(sh, k),
         NEW y \in InFlight, y \notin Taken(sh, k),
         x.series = y.series
  PROVE  x.id < y.id
<1>1. PICK i \in 1 .. k : x = pending[sh][i]
  BY DEF Taken
<1>2. PICK t \in Shards : y \in Waiting(t)
  BY DEF InFlight
<1>3. Len(pending[sh]) \in Nat
  BY DEF TypeOK, SendersOK
<1>4. x \in Elems(pending[sh]) /\ i \in 1 .. Len(pending[sh])
  BY <1>1, <1>3 DEF Elems
<1>5. ShardOrder(sh)
  BY DEF Order
<1>6. CASE t = sh /\ y \in Elems(queue[sh])
  BY <1>4, <1>5, <1>6 DEF ShardOrder
<1>7. CASE t = sh /\ y \in Elems(pending[sh])
  <2>1. PICK j \in 1 .. Len(pending[sh]) : y = pending[sh][j]
    BY <1>7 DEF Elems
  <2>2. i < j
    <3>1. ~(j \in 1 .. k)
      BY <2>1 DEF Taken
    <3> QED
      BY <1>3, <1>4, <2>1, <3>1
  <2> QED
    BY <1>1, <1>4, <1>5, <2>1, <2>2 DEF ShardOrder, Sorted
<1>8. CASE t # sh
  <2>1. goroutine[sh] \notin {"off", "done"}
    BY DEF Sending
  <2>2. x \in Waiting(sh)
    BY <1>4 DEF Waiting
  <2> QED
    BY <1>2, <1>8, <2>1, <2>2, SameSeries
<1> QED
  BY <1>2, <1>6, <1>7, <1>8 DEF Waiting

\* The whole batch is the prefix of full length.
LEMMA WholeBatch ==
  ASSUME TypeOK, NEW sh \in Shards
  PROVE  /\ Len(pending[sh]) \in 0 .. Len(pending[sh])
         /\ Elems(pending[sh]) = Taken(sh, Len(pending[sh]))
<1>1. Len(pending[sh]) \in Nat
  BY DEF TypeOK, SendersOK
<1> QED
  BY <1>1 DEF Elems, Taken

LEMMA FrameInOrder ==
  ASSUME InOrder, InFlight' \subseteq InFlight, UNCHANGED stored
  PROVE  InOrder'
BY DEF InOrder

\* The remote storage takes a prefix of a batch.
LEMMA TakeInOrder ==
  ASSUME TypeOK, Structure, Order, InOrder, InFlight' \subseteq InFlight,
         NEW sh \in Shards, Sending(sh), NEW k \in 0 .. Len(pending[sh]),
         RemoteTakes(sh, k)
  PROVE  InOrder'
<1> SUFFICES ASSUME NEW x \in InFlight', NEW d \in stored',
                    x \notin stored', d.series = x.series
             PROVE  d.id < x.id
  BY DEF InOrder
<1>1. stored' = stored \cup Taken(sh, k)
  BY DEF RemoteTakes
<1>2. x \in InFlight /\ x \notin stored /\ x \notin Taken(sh, k)
  BY <1>1
<1>3. CASE d \in stored
  BY <1>2, <1>3 DEF InOrder
<1>4. CASE d \in Taken(sh, k)
  BY <1>2, <1>4, PrefixFirst
<1> QED
  BY <1>1, <1>3, <1>4

\* What a step of runShard does to the samples on their way.
LEMMA ReturnsInFlight ==
  ASSUME TypeOK, Structure, Order, NEW sh \in Shards,
         SendReturns(sh), UNCHANGED queue, Sending(sh)
  PROVE  InFlight' = InFlight \ Elems(pending[sh])
<1>1. /\ Waiting(sh)' = Elems(queue[sh])
      /\ \A t \in Shards \ {sh} : Waiting(t)' = Waiting(t)
  BY SendReturnsKeeps
<1>2. goroutine[sh] \notin {"off", "done"}
  BY DEF Sending
<1>3. ASSUME NEW x \in Elems(pending[sh]) PROVE x \notin InFlight'
  <2>0. x \in Waiting(sh) /\ x.id \in Int
    BY WaitingType DEF Waiting
  <2>1. x \notin Elems(queue[sh])
    BY <2>0 DEF Order, ShardOrder
  <2>2. ASSUME NEW t \in Shards, t # sh PROVE x \notin Waiting(t)
    BY <1>2, <2>0, <2>2, SameSeries
  <2> QED
    BY <1>1, <2>1, <2>2 DEF InFlight
<1>4. ASSUME NEW x \in InFlight, x \notin Elems(pending[sh])
      PROVE  x \in InFlight'
  <2>1. PICK t \in Shards : x \in Waiting(t)
    BY DEF InFlight
  <2>2. x \in Waiting(t)'
    BY <1>1, <1>4, <2>1 DEF Waiting
  <2> QED
    BY <2>2 DEF InFlight
<1>5. ASSUME NEW x \in InFlight' PROVE x \in InFlight
  BY <1>1 DEF InFlight, Waiting
<1> QED
  BY <1>3, <1>4, <1>5

LEMMA ReceiveInFlight ==
  ASSUME TypeOK, Order, NEW sh \in Shards, Receive(sh)
  PROVE  InFlight' = InFlight
BY ReceiveKeeps DEF InFlight

LEMMA FrameInFlight ==
  ASSUME UNCHANGED <<queue, pending>>
  PROVE  InFlight' = InFlight
BY DEF InFlight, Waiting

\* An accepted sample joins the ones on their way.
LEMMA AcceptedInFlight ==
  ASSUME TypeOK, NEW a \in Appenders, NEW m \in Metrics, AppendSample(a, m),
         EnqueueAccepted(a, [id |-> nextId, series |-> Relabel[m]])
  PROVE  InFlight' = InFlight \cup {[id |-> nextId, series |-> Relabel[m]]}
<1> PICK s \in Sample : s = [id |-> nextId, series |-> Relabel[m]]
  BY ConfigAssumption DEF AppendSample, TypeOK, AppendersOK, Sample
<1>1. s.series \in Series
  BY DEF Sample
<1> PICK sh \in Shards : sh = ShardFor(s.series)
  BY <1>1, Routed DEF AppendSample
<1>2. /\ queue' = [queue EXCEPT ![sh] = Append(queue[sh], s)]
      /\ UNCHANGED pending
  BY DEF EnqueueAccepted, AppendSample, senders
<1>3. /\ queue[sh] \in Seq(Sample)
      /\ queue'[sh] = Append(queue[sh], s)
      /\ \A t \in Shards \ {sh} : queue'[t] = queue[t]
  BY <1>2 DEF TypeOK, QueuesOK
<1>4. Elems(queue'[sh]) = Elems(queue[sh]) \cup {s}
  BY <1>3, ElemsAppend
<1>5. /\ Waiting(sh)' = Waiting(sh) \cup {s}
      /\ \A t \in Shards \ {sh} : Waiting(t)' = Waiting(t)
  BY <1>2, <1>3, <1>4 DEF Waiting
<1>6. InFlight' = InFlight \cup {s}
  BY <1>5 DEF InFlight
<1> QED
  BY <1>6

\* Every step keeps InOrder.
LEMMA InOrderStep ==
  ASSUME TypeOK, Structure, Order, InOrder, [Next]_vars
  PROVE  InOrder'
<1> USE DEF layout, senders, outcomes, control
<1>0. ASSUME UNCHANGED <<queue, pending, stored>> PROVE InOrder'
  BY <1>0, FrameInFlight, FrameInOrder
<1>1. CASE Lifecycle
  BY <1>0, <1>1 DEF Lifecycle, Start, StartShards, Stop, StopShards, Stopped
<1>2. CASE Resharding
  BY <1>0, <1>2
  DEF Resharding, CalculateDesiredShards, UpdaterQuits, ReshardSwap,
      ReshardPanics, ReshardClose, ReshardStart, ResharderQuits
<1>3. CASE Appending
  <2>1. ASSUME NEW a \in Appenders, NEW m \in Metrics, AppendSample(a, m)
        PROVE  InOrder'
    <3> DEFINE s == [id |-> nextId, series |-> Relabel[m]]
    <3>1. CASE EnqueueAccepted(a, s)
      <4>1. InFlight' = InFlight \cup {s} /\ s.id = nextId
        BY <2>1, <3>1, AcceptedInFlight
      <4>2. stored' = stored /\ \A d \in stored : d.id < nextId
        BY <2>1 DEF AppendSample, Order, StoredOld
      <4> QED
        BY <4>1, <4>2 DEF InOrder
    <3>2. CASE EnqueueFull(a, s)
      BY <1>0, <2>1, <3>2 DEF AppendSample, EnqueueFull
    <3> QED
      BY <2>1, <3>1, <3>2 DEF AppendSample
  <2> QED
    BY <1>0, <1>3, <2>1 DEF Appending, IncQueueLength, AppendPanics
<1>4. ASSUME NEW sh \in Shards, ShardStep(sh)
      PROVE  InOrder'
  <2>1. CASE Receive(sh)
    BY <2>1, ReceiveInFlight, FrameInOrder DEF Receive
  <2>2. CASE Deadline(sh) \/ QueueClosed(sh)
    BY <1>0, <2>2 DEF Deadline, QueueClosed
  <2>3. CASE StoreSucceeds(sh)
    <3>1. RemoteTakes(sh, Len(pending[sh]))
      BY <2>3, WholeBatch DEF StoreSucceeds, RemoteTakes
    <3>2. Sending(sh) /\ InFlight' \subseteq InFlight
      BY <2>3, ReturnsInFlight DEF StoreSucceeds
    <3> QED
      BY <3>1, <3>2, WholeBatch, TakeInOrder
  <2>4. ASSUME NEW k \in 0 .. Len(pending[sh]), StoreRetries(sh, k)
        PROVE  InOrder'
    BY <2>4, FrameInFlight, TakeInOrder DEF StoreRetries
  <2>5. ASSUME NEW k \in 0 .. Len(pending[sh]), StoreGivesUp(sh, k)
        PROVE  InOrder'
    <3>1. InFlight' \subseteq InFlight
      BY <2>5, ReturnsInFlight DEF StoreGivesUp
    <3> QED
      BY <2>5, <3>1, TakeInOrder DEF StoreGivesUp
  <2> QED
    BY <1>4, <2>1, <2>2, <2>3, <2>4, <2>5 DEF ShardStep
<1>5. CASE UNCHANGED vars
  BY <1>0, <1>5 DEF vars
<1> QED
  BY <1>1, <1>2, <1>3, <1>4, <1>5 DEF Next, Terminated

-----------------------------------------------------------------------------
(***************************************************************************)
(* The inductive invariant and what follows from it.                       *)
(***************************************************************************)

LEMMA InitIInv ==
  ASSUME Init
  PROVE  IInv
<1> USE ConfigAssumption
<1>1. TypeOK
  <2>1. ControlOK /\ AppendersOK /\ OutcomesOK
    BY DEF Init, ControlOK, AppendersOK, OutcomesOK
  <2>2. LayoutOK
    BY DEF Init, LayoutOK, Gens
  <2>3. << >> \in Seq(Sample) /\ Len(<< >>) = 0
    OBVIOUS
  <2>4. QueuesOK /\ SendersOK
    BY <2>3 DEF Init, QueuesOK, SendersOK
  <2> QED
    BY <2>1, <2>2, <2>4 DEF TypeOK
<1>2. Structure
  <2>1. ControlStructure
    BY DEF Init, ControlStructure, Flushing
  <2>2. ASSUME NEW sh \in Shards PROVE ShardStructure(sh)
    BY DEF Init, ShardStructure, Flushing
  <2> QED
    BY <2>1, <2>2 DEF Structure
<1>3. \A sh \in Shards : Waiting(sh) = {}
  BY ElemsEmpty DEF Init, Waiting
<1>4. Order
  <2>1. ASSUME NEW sh \in Shards PROVE ShardOrder(sh)
    <3>1. pending[sh] = << >> /\ queue[sh] = << >> /\ Sorted(<< >>)
      BY DEF Init, Sorted
    <3> QED
      BY <1>3, <3>1, ElemsEmpty DEF ShardOrder
  <2>2. GenerationOrder /\ StoredOld
    BY <1>3 DEF Init, GenerationOrder, StoredOld
  <2> QED
    BY <2>1, <2>2 DEF Order
<1>5. InOrder
  BY DEF Init, InOrder
<1> QED
  BY <1>1, <1>2, <1>4, <1>5 DEF IInv

\* IInv is inductive, so it holds in every state of the queue manager.
THEOREM Invariance == Spec => []IInv
<1>1. IInv /\ [Next]_vars => IInv'
  <2> SUFFICES ASSUME IInv, [Next]_vars PROVE IInv'
    OBVIOUS
  <2>1. TypeOK'
    BY TypeStep DEF IInv
  <2> QED
    BY <2>1, StructureStep, OrderStep, InOrderStep DEF IInv
<1> QED
  BY <1>1, InitIInv, PTL DEF Spec

\* The variables of the queue manager keep their types, no channel exceeds
\* QueueCapacity and no batch MaxSamplesPerSend.
THEOREM TypeCorrect == Spec => []TypeOK
<1>1. IInv => TypeOK
  BY DEF IInv
<1> QED
  BY <1>1, Invariance, PTL

\* reshard(), Stop() and the retries never let a sample overtake an older one
\* of its series on the way to the remote storage.
THEOREM DeliveredInOrder == Spec => []InOrder
<1>1. IInv => InOrder
  BY DEF IInv
<1> QED
  BY <1>1, Invariance, PTL

\* The runShard goroutines of two generations never run at the same time.
THEOREM GenerationsExclude == Spec => []OneGenerationRuns
<1>1. IInv => OneGenerationRuns
  <2> SUFFICES ASSUME IInv, NEW s \in Shards, NEW t \in Shards,
                      goroutine[s] \notin {"off", "done"},
                      goroutine[t] \notin {"off", "done"}
               PROVE  s[1] = t[1]
    BY DEF OneGenerationRuns
  <2>1. shards \in Int /\ s[1] \in Int /\ t[1] \in Int
    BY ShardType, ConfigAssumption DEF IInv, TypeOK, LayoutOK, Gens
  <2>2. s[1] = IF Flushing THEN shards - 1 ELSE shards
    BY <2>1 DEF IInv, Structure, ShardStructure
  <2>3. t[1] = IF Flushing THEN shards - 1 ELSE shards
    BY <2>1 DEF IInv, Structure, ShardStructure
  <2> QED
    BY <2>2, <2>3
<1> QED
  BY <1>1, Invariance, PTL

\* When Stop() has returned, no sample of any generation is left behind.
THEOREM StopLeavesNothing == Spec => []StopFlushes
<1>1. IInv => StopFlushes
  <2> SUFFICES ASSUME IInv, mgr = "stopped", NEW sh \in Shards
               PROVE  Waiting(sh) = {}
    BY DEF StopFlushes, InFlight
  <2>1. ~Flushing
    BY DEF IInv, Structure, ControlStructure, Flushing
  <2>2. shards \in Int /\ sh[1] \in Int
    BY ShardType, ConfigAssumption DEF IInv, TypeOK, LayoutOK, Gens
  <2>3. queue[sh] = << >> /\ goroutine[sh] \in {"off", "done"}
    BY <2>1, <2>2 DEF IInv, Structure, ShardStructure
  <2>4. pending[sh] = << >>
    BY <2>3 DEF IInv, Structure, ShardStructure
  <2> QED
    BY <2>3, <2>4, ElemsEmpty DEF Waiting
<1> QED
  BY <1>1, Invariance, PTL

-----------------------------------------------------------------------------
(***************************************************************************)
(* Refinement.                                                             *)
(***************************************************************************)

\* A batch that is settled comes before all else of its series, and the part
\* of it that the remote storage had not seen before all that it has not.
LEMMA BatchPrecedes ==
  ASSUME TypeOK, Structure, Order, NEW sh \in Shards, Sending(sh),
         NEW k \in 0 .. Len(pending[sh]), RemoteTakes(sh, k)
  PROVE  /\ Delivery!Deliver(Taken(sh, k))
         /\ Delivery!Precedes(Elems(pending[sh]),
                              InFlight \ Elems(pending[sh]))
         /\ Taken(sh, k) \subseteq Elems(pending[sh])
         /\ Elems(pending[sh]) \subseteq InFlight
<1>1. stored' = stored \cup Taken(sh, k)
  BY DEF RemoteTakes
<1>2. Delivery!Precedes(Taken(sh, k) \ stored, InFlight \ (Taken(sh, k) \cup stored))
  BY PrefixFirst DEF Delivery!Precedes
<1>3. Delivery!Precedes(Elems(pending[sh]), InFlight \ Elems(pending[sh]))
  BY PrefixFirst, WholeBatch DEF Delivery!Precedes
<1>4. Taken(sh, k) \subseteq Elems(pending[sh])
  BY WholeBatch DEF TypeOK, SendersOK, Elems, Taken
<1>5. Elems(pending[sh]) \subseteq InFlight
  BY DEF InFlight, Waiting
<1> QED
  BY <1>1, <1>2, <1>3, <1>4, <1>5 DEF Delivery!Deliver

LEMMA RefineShardStep ==
  ASSUME TypeOK, Structure, Order, NEW sh \in Shards, ShardStep(sh)
  PROVE  [Delivery!Next]_(Delivery!vars)
<1> USE DEF layout, senders, outcomes, control
<1>1. CASE Receive(sh)
  BY <1>1, ReceiveInFlight DEF Receive, Delivery!vars
<1>2. CASE Deadline(sh) \/ QueueClosed(sh)
  BY <1>2, FrameInFlight DEF Deadline, QueueClosed, Delivery!vars
<1>3. CASE StoreSucceeds(sh)
  <2>1. RemoteTakes(sh, Len(pending[sh])) /\ Sending(sh)
    BY <1>3, WholeBatch DEF StoreSucceeds, RemoteTakes
  <2>2. InFlight' = InFlight \ Elems(pending[sh])
    BY <1>3, ReturnsInFlight DEF StoreSucceeds
  <2>3. Delivery!Succeed(Elems(pending[sh]))
    BY <1>3, <2>1, <2>2, WholeBatch, BatchPrecedes
    DEF StoreSucceeds, Delivery!Succeed
  <2>4. Elems(pending[sh]) \subseteq InFlight
    BY <2>1, WholeBatch, BatchPrecedes
  <2> QED
    BY <2>3, <2>4 DEF Delivery!Next
<1>4. ASSUME NEW k \in 0 .. Len(pending[sh]), StoreRetries(sh, k)
      PROVE  Delivery!Next
  <2> DEFINE S == Taken(sh, k)
  <2>1. RemoteTakes(sh, k) /\ Sending(sh) /\ InFlight' = InFlight
    BY <1>4, FrameInFlight DEF StoreRetries
  <2>2. Delivery!Deliver(S) /\ S \subseteq InFlight
    BY <2>1, BatchPrecedes
  <2>3. Delivery!Attempt(S)
    BY <1>4, <2>1, <2>2 DEF StoreRetries, Delivery!Attempt
  <2> QED
    BY <2>2, <2>3 DEF Delivery!Next
<1>5. ASSUME NEW k \in 0 .. Len(pending[sh]), StoreGivesUp(sh, k)
      PROVE  Delivery!Next
  <2> DEFINE S == Taken(sh, k)
             B == Elems(pending[sh])
  <2>1. RemoteTakes(sh, k) /\ Sending(sh)
    BY <1>5 DEF StoreGivesUp
  <2>2. InFlight' = InFlight \ B
    BY <1>5, ReturnsInFlight DEF StoreGivesUp
  <2>3. /\ Delivery!Deliver(S) /\ S \subseteq B /\ B \subseteq InFlight
        /\ Delivery!Precedes(B, InFlight \ B)
    BY <2>1, BatchPrecedes
  <2>4. failed' = failed \cup B /\ UNCHANGED <<nextId, dropped, succeeded>>
    BY <1>5 DEF StoreGivesUp
  <2> HIDE DEF S, B
  <2>5. Delivery!GiveUp(B, S)
    BY <2>2, <2>3, <2>4 DEF Delivery!GiveUp
  <2> QED
    BY <2>3, <2>5 DEF Delivery!Next
<1> QED
  BY <1>1, <1>2, <1>3, <1>4, <1>5 DEF ShardStep

LEMMA RefineStep ==
  ASSUME TypeOK, Structure, Order, [Next]_vars
  PROVE  [Delivery!Next]_(Delivery!vars)
<1> USE DEF layout, senders, outcomes, control
<1>0. ASSUME UNCHANGED <<queue, pending, nextId, dropped, succeeded, failed,
                         stored>>
      PROVE  UNCHANGED Delivery!vars
  BY <1>0, FrameInFlight DEF Delivery!vars
<1>1. CASE Lifecycle
  BY <1>0, <1>1 DEF Lifecycle, Start, StartShards, Stop, StopShards, Stopped
<1>2. CASE Resharding
  BY <1>0, <1>2
  DEF Resharding, CalculateDesiredShards, UpdaterQuits, ReshardSwap,
      ReshardPanics, ReshardClose, ReshardStart, ResharderQuits
<1>3. CASE Appending
  <2>1. ASSUME NEW a \in Appenders, NEW m \in Metrics, AppendSample(a, m)
        PROVE  Delivery!Next
    <3> DEFINE s == [id |-> nextId, series |-> Relabel[m]]
    <3>1. Relabel[m] \in Series
      BY <2>1, ConfigAssumption DEF AppendSample
    <3>2. CASE EnqueueAccepted(a, s)
      <4>1. InFlight' = InFlight \cup {s}
        BY <2>1, <3>2, AcceptedInFlight
      <4>2. Delivery!Accept(Relabel[m])
        BY <2>1, <3>2, <4>1 DEF AppendSample, EnqueueAccepted, Delivery!Accept
      <4> QED
        BY <3>1, <4>2 DEF Delivery!Next
    <3>3. CASE EnqueueFull(a, s)
      <4>1. Delivery!Drop(Relabel[m])
        BY <2>1, <3>3, FrameInFlight DEF AppendSample, EnqueueFull, Delivery!Drop
      <4> QED
        BY <3>1, <4>1 DEF Delivery!Next
    <3> QED
      BY <2>1, <3>2, <3>3 DEF AppendSample
  <2> QED
    BY <1>0, <1>3, <2>1 DEF Appending, IncQueueLength, AppendPanics
<1>4. CASE UNCHANGED vars
  BY <1>0, <1>4 DEF vars
<1> QED
  BY <1>1, <1>2, <1>3, <1>4, RefineShardStep DEF Next, Terminated

\* The queue manager implements ordered at-least-once delivery: nothing that
\* resharding, batching, retrying or stopping does shows at that level.
THEOREM Refinement == Spec => ImplementsOrderedDelivery
<1>1. Init => Delivery!Init
  <2> SUFFICES ASSUME Init PROVE Delivery!Init
    OBVIOUS
  <2>1. \A sh \in Shards : Waiting(sh) = {}
    BY ElemsEmpty DEF Init, Waiting
  <2>2. InFlight = {}
    BY <2>1 DEF InFlight
  <2> QED
    BY <2>2 DEF Init, Delivery!Init
<1>2. IInv /\ [Next]_vars => [Delivery!Next]_(Delivery!vars)
  BY RefineStep DEF IInv
<1> QED
  BY <1>1, <1>2, Invariance, PTL DEF Spec, ImplementsOrderedDelivery, Delivery!Spec

-----------------------------------------------------------------------------
(***************************************************************************)
(* Accounting, from the abstract steps: Accept and Drop add a sample with  *)
(* a new id, and the others move samples from one set to another.          *)
(***************************************************************************)

LEMMA AccountedStep ==
  ASSUME Accounted, nextId \in Nat \ {0}, [Delivery!Next]_(Delivery!vars)
  PROVE  Accounted'
<1> DEFINE All == InFlight \cup dropped \cup succeeded \cup failed
           Ids == {x.id : x \in All}
<1>0. Ids = 1 .. nextId - 1
  BY DEF Accounted
<1>1. ASSUME NEW s \in Series, Delivery!Accept(s) \/ Delivery!Drop(s)
      PROVE  Accounted'
  <2> PICK new : new = [id |-> nextId, series |-> s]
    OBVIOUS
  <2>1. new.id = nextId /\ nextId' = nextId + 1
    BY <1>1 DEF Delivery!Accept, Delivery!Drop
  <2>2. new \notin All
    <3>1. nextId \notin 1 .. nextId - 1
      OBVIOUS
    <3> QED
      BY <1>0, <2>1, <3>1
  <2>3. All' = All \cup {new}
    BY <1>1 DEF Delivery!Accept, Delivery!Drop
  <2>4. Ids' = Ids \cup {nextId}
    BY <2>1, <2>3
  <2>5. 1 .. nextId' - 1 = (1 .. nextId - 1) \cup {nextId}
    BY <2>1
  <2>6. \/ /\ InFlight' = InFlight \cup {new}
           /\ UNCHANGED <<dropped, succeeded, failed>>
        \/ /\ dropped' = dropped \cup {new}
           /\ UNCHANGED <<succeeded, failed>> /\ InFlight' = InFlight
    BY <1>1 DEF Delivery!Accept, Delivery!Drop
  <2>7. /\ InFlight' \cap (dropped' \cup succeeded' \cup failed') = {}
        /\ dropped' \cap (succeeded' \cup failed') = {}
        /\ succeeded' \cap failed' = {}
    BY <2>2, <2>6 DEF Accounted
  <2> QED
    BY <1>0, <2>4, <2>5, <2>7 DEF Accounted
<1>2. ASSUME NEW B \in SUBSET InFlight,
             \/ Delivery!Attempt(B) \/ Delivery!Succeed(B)
             \/ \E S \in SUBSET B : Delivery!GiveUp(B, S)
      PROVE  Accounted'
  <2>1. /\ UNCHANGED <<nextId, dropped>>
        /\ \/ InFlight' = InFlight /\ UNCHANGED <<succeeded, failed>>
           \/ InFlight' = InFlight \ B /\ succeeded' = succeeded \cup B
              /\ UNCHANGED failed
           \/ InFlight' = InFlight \ B /\ failed' = failed \cup B
              /\ UNCHANGED succeeded
    BY <1>2 DEF Delivery!Attempt, Delivery!Succeed, Delivery!GiveUp
  <2>2. All' = All
    BY <2>1
  <2>3. /\ InFlight' \cap (dropped' \cup succeeded' \cup failed') = {}
        /\ dropped' \cap (succeeded' \cup failed') = {}
        /\ succeeded' \cap failed' = {}
    BY <2>1 DEF Accounted
  <2>4. Ids' = Ids
    BY <2>2
  <2> QED
    BY <1>0, <2>1, <2>3, <2>4 DEF Accounted
<1>3. CASE UNCHANGED Delivery!vars
  BY <1>3 DEF Delivery!vars, Accounted
<1> QED
  BY <1>1, <1>2, <1>3 DEF Delivery!Next

\* Every sample that reached enqueue is on its way or in exactly one of the
\* dropped, succeeded and failed counters, in every state.
THEOREM NothingLost == Spec => []Accounted
<1>1. Init => Accounted
  <2> SUFFICES ASSUME Init PROVE Accounted
    OBVIOUS
  <2>1. InFlight = {}
    BY ElemsEmpty DEF Init, InFlight, Waiting
  <2> QED
    BY <2>1 DEF Init, Accounted
<1>2. IInv /\ Accounted /\ [Next]_vars => Accounted'
  BY RefineStep, AccountedStep DEF IInv, TypeOK, AppendersOK
<1> QED
  BY <1>1, <1>2, Invariance, PTL DEF Spec

-----------------------------------------------------------------------------
(***************************************************************************)
(* The queue_length gauge.                                                 *)
(***************************************************************************)

\* The samples in the channels, and the Append calls that are between the
\* unlock and their increment of the gauge.
Buffered     == UNION {Elems(queue[sh]) : sh \in Shards}
Incrementing == {a \in Appenders : appender[a] = "inc"}

\* The inductive form of GaugeTracksQueues.
GaugeInv ==
  /\ IsFiniteSet(Buffered)
  /\ IsFiniteSet(Incrementing)
  /\ queueLength + Cardinality(Incrementing) = Cardinality(Buffered)

\* A sample is in one shard only: another shard of its generation takes other
\* series, and another generation older or younger samples.
LEMMA OneShard ==
  ASSUME TypeOK, Order, NEW s \in Shards, NEW t \in Shards,
         NEW x, x \in Waiting(s), x \in Waiting(t)
  PROVE  s = t
<1>1. /\ s[1] \in Int /\ t[1] \in Int
      /\ s = <<s[1], s[2]>> /\ t = <<t[1], t[2]>>
  BY ShardType, ConfigAssumption DEF Gens
<1>2. x.id \in Int
  BY WaitingType DEF Sample
<1>3. s[1] = t[1]
  BY <1>1, <1>2 DEF Order, GenerationOrder
<1>4. s[2] = t[2]
  BY <1>3 DEF Order, ShardOrder
<1> QED
  BY <1>1, <1>3, <1>4

LEMMA FrameGauge ==
  ASSUME GaugeInv, UNCHANGED <<queue, appender, queueLength>>
  PROVE  GaugeInv'
<1>1. Buffered' = Buffered /\ Incrementing' = Incrementing
  BY DEF Buffered, Incrementing
<1> QED
  BY <1>1 DEF GaugeInv

\* A channel send and the increment it owes go together.
LEMMA AcceptedGauge ==
  ASSUME TypeOK, Order, GaugeInv, NEW a \in Appenders, NEW m \in Metrics,
         AppendSample(a, m), EnqueueAccepted(a, [id |-> nextId, series |-> Relabel[m]])
  PROVE  GaugeInv'
<1> PICK s \in Sample : s = [id |-> nextId, series |-> Relabel[m]]
  BY ConfigAssumption DEF AppendSample, TypeOK, AppendersOK, Sample
<1>1. s.series \in Series /\ s.id = nextId
  BY DEF Sample
<1> PICK sh \in Shards : sh = ShardFor(s.series)
  BY <1>1, Routed DEF AppendSample
<1>2. /\ queue' = [queue EXCEPT ![sh] = Append(queue[sh], s)]
      /\ appender' = [appender EXCEPT ![a] = "inc"]
      /\ appender[a] = "idle"
      /\ UNCHANGED queueLength
  BY DEF EnqueueAccepted, AppendSample
<1>3. /\ Elems(queue'[sh]) = Elems(queue[sh]) \cup {s}
      /\ \A t \in Shards : t # sh => queue'[t] = queue[t]
  BY <1>2, ElemsAppend DEF TypeOK, QueuesOK
<1>4. Buffered' = Buffered \cup {s}
  BY <1>3 DEF Buffered
<1>5. s \notin Buffered
  <2> SUFFICES ASSUME NEW t \in Shards, s \in Elems(queue[t]) PROVE FALSE
    BY DEF Buffered
  <2>1. s.id < nextId
    BY DEF Order, ShardOrder, Waiting
  <2> QED
    BY <1>1, <2>1 DEF TypeOK, AppendersOK
<1>6. Incrementing' = Incrementing \cup {a} /\ a \notin Incrementing
  BY <1>2 DEF Incrementing, TypeOK, AppendersOK
<1>7. /\ IsFiniteSet(Buffered') /\ Cardinality(Buffered') = Cardinality(Buffered) + 1
      /\ IsFiniteSet(Incrementing')
      /\ Cardinality(Incrementing') = Cardinality(Incrementing) + 1
  BY <1>4, <1>5, <1>6, FS_AddElement DEF GaugeInv
<1>8. Cardinality(Buffered) \in Nat /\ Cardinality(Incrementing) \in Nat
  BY FS_CardinalityType DEF GaugeInv
<1> QED
  BY <1>2, <1>7, <1>8 DEF GaugeInv, TypeOK, AppendersOK

LEMMA IncGauge ==
  ASSUME TypeOK, GaugeInv, NEW a \in Appenders, IncQueueLength(a)
  PROVE  GaugeInv'
<1>1. Incrementing' = Incrementing \ {a} /\ a \in Incrementing
  BY DEF IncQueueLength, Incrementing, TypeOK, AppendersOK
<1>2. Buffered' = Buffered /\ queueLength' = queueLength + 1
  BY DEF IncQueueLength, Buffered
<1>3. /\ IsFiniteSet(Incrementing')
      /\ Cardinality(Incrementing') = Cardinality(Incrementing) - 1
  BY <1>1, FS_RemoveElement DEF GaugeInv
<1>4. Cardinality(Buffered) \in Nat /\ Cardinality(Incrementing) \in Nat
  BY FS_CardinalityType DEF GaugeInv
<1> QED
  BY <1>2, <1>3, <1>4 DEF GaugeInv, TypeOK, AppendersOK

\* The head of a channel is nowhere else in the channels.
LEMMA ReceiveGauge ==
  ASSUME TypeOK, Order, GaugeInv, NEW sh \in Shards, Receive(sh)
  PROVE  GaugeInv'
<1> DEFINE h == Head(queue[sh])
<1>1. /\ queue[sh] # << >> /\ queue[sh] \in Seq(Sample) /\ Sorted(queue[sh])
      /\ queue' = [queue EXCEPT ![sh] = Tail(queue[sh])]
      /\ queueLength' = queueLength - 1
      /\ UNCHANGED appender
  BY DEF Receive, TypeOK, QueuesOK, Order, ShardOrder
<1>2. /\ Elems(queue[sh]) = {h} \cup Elems(Tail(queue[sh]))
      /\ h \in Sample
  BY <1>1, ElemsTail
<1>3. h \notin Elems(Tail(queue[sh]))
  <2>1. \A x \in Elems(Tail(queue[sh])) : h.id < x.id
    BY <1>1, SortedTail
  <2>2. h.id \in Nat
    BY <1>2 DEF Sample
  <2> QED
    BY <2>1, <2>2
<1>4. \A t \in Shards : t # sh => h \notin Elems(queue[t])
  BY <1>2, OneShard DEF Waiting
<1>5. /\ queue'[sh] = Tail(queue[sh])
      /\ \A t \in Shards : t # sh => queue'[t] = queue[t]
  BY <1>1 DEF TypeOK, QueuesOK
<1> HIDE DEF h
<1>6. Buffered' = Buffered \ {h} /\ h \in Buffered
  BY <1>2, <1>3, <1>4, <1>5 DEF Buffered
<1>7. Incrementing' = Incrementing
  BY <1>1 DEF Incrementing
<1>8. IsFiniteSet(Buffered') /\ Cardinality(Buffered') = Cardinality(Buffered) - 1
  BY <1>6, FS_RemoveElement DEF GaugeInv
<1>9. Cardinality(Buffered) \in Nat /\ Cardinality(Incrementing) \in Nat
  BY FS_CardinalityType DEF GaugeInv
<1> QED
  BY <1>1, <1>7, <1>8, <1>9 DEF GaugeInv, TypeOK, AppendersOK

LEMMA GaugeStep ==
  ASSUME TypeOK, Order, GaugeInv, [Next]_vars
  PROVE  GaugeInv'
<1> USE FrameGauge
<1>1. CASE Lifecycle
  BY <1>1 DEF Lifecycle, Start, StartShards, Stop, StopShards, Stopped
<1>2. CASE Resharding
  BY <1>2
  DEF Resharding, CalculateDesiredShards, UpdaterQuits, ReshardSwap,
      ReshardPanics, ReshardClose, ReshardStart, ResharderQuits
<1>3. CASE Appending
  <2>1. ASSUME NEW a \in Appenders, NEW m \in Metrics, AppendSample(a, m)
        PROVE  GaugeInv'
    <3> DEFINE s == [id |-> nextId, series |-> Relabel[m]]
    <3>1. CASE EnqueueAccepted(a, s)
      BY <2>1, <3>1, AcceptedGauge
    <3>2. CASE EnqueueFull(a, s)
      BY <2>1, <3>2 DEF AppendSample, EnqueueFull
    <3> QED
      BY <2>1, <3>1, <3>2 DEF AppendSample
  <2> QED
    BY <1>3, <2>1, IncGauge DEF Appending, AppendPanics
<1>4. ASSUME NEW sh \in Shards, ShardStep(sh)
      PROVE  GaugeInv'
  <2>1. CASE Receive(sh)
    BY <2>1, ReceiveGauge
  <2> QED
    BY <1>4, <2>1 DEF ShardStep, Deadline, QueueClosed, StoreSucceeds, StoreRetries,
       StoreGivesUp
<1>5. CASE UNCHANGED vars
  BY <1>5 DEF vars
<1> QED
  BY <1>1, <1>2, <1>3, <1>4, <1>5 DEF Next, Terminated

\* The gauge never loses track of the channels, however the increments that
\* Append makes after the unlock interleave with the decrements of runShard.
THEOREM GaugeIsExact == Spec => []GaugeTracksQueues
<1>1. Init => GaugeInv
  <2> SUFFICES ASSUME Init PROVE GaugeInv
    OBVIOUS
  <2>1. Buffered = {} /\ Incrementing = {} /\ queueLength = 0
    BY ElemsEmpty DEF Init, Buffered, Incrementing
  <2> QED
    BY <2>1, FS_EmptySet DEF GaugeInv
<1>2. IInv /\ GaugeInv /\ [Next]_vars => GaugeInv'
  BY GaugeStep DEF IInv
<1>3. GaugeInv => GaugeTracksQueues
  BY DEF GaugeInv, GaugeTracksQueues, Buffered, Incrementing
<1> QED
  BY <1>1, <1>2, <1>3, Invariance, PTL DEF Spec
=============================================================================
