--------------------------- MODULE ShardCalculator --------------------------
(***************************************************************************)
(* How the remote-write queue decides on its number of shards: the three   *)
(* moving averages of ewma.go, fed by enqueue and sendSamples while        *)
(* updateShardsLoop ticks them, and calculateDesiredShards on top of them  *)
(* (storage/remote/ewma.go, storage/remote/queue_manager.go).              *)
(*                                                                         *)
(* Module QueueManager lets Desired be any set of numbers; this one says   *)
(* which numbers the rates ask for.                                        *)
(*                                                                         *)
(* Time is counted in update intervals, and numbers are exact: a rate is   *)
(* the fraction lastRate / scale, whose denominator a tick multiplies by 5 *)
(* (ewmaWeight = 1/5), and the integral accumulator is kept as the integer *)
(* 10 * scale * integralAccumulator.  The float64 rounding of the code is  *)
(* left out.                                                               *)
(*                                                                         *)
(* An operator marked as a mutant is a plausible bug in the operator after *)
(* it; Next does not use it.                                               *)
(***************************************************************************)
EXTENDS Integers

CONSTANTS
  Senders,            \* runShard goroutines
  Durations,          \* what one sendSamples may take, in update intervals
  MaxSamplesPerSend,  \* cfg.MaxSamplesPerSend
  MaxShards,          \* cfg.MaxShards
  MaxSamples,         \* bound: samples that reach enqueue
  MaxTicks            \* bound: ticks of updateShardsLoop

ASSUME CalculatorAssumption ==
  /\ Durations \subseteq Nat \ {0}
  /\ MaxSamplesPerSend \in Nat \ {0}
  /\ MaxShards \in Nat \ {0}
  /\ MaxSamples \in Nat
  /\ MaxTicks \in Nat

VARIABLES
  newEvents,    \* r.newEvents of each ewmaRate
  lastRate,     \* r.lastRate, the numerator
  scale,        \* and the denominator
  ticks,        \* how often each rate has ticked; r.init is ticks > 0
  pc,           \* where updateShardsLoop is
  cur,          \* the rate whose tick() it is in
  loaded,       \* newEvents in that tick()
  accumulator,  \* t.integralAccumulator, scaled
  numShards,    \* t.numShards
  backlog,      \* samples in channels and batches
  sender,       \* sendSamples between its two incr calls: the duration, or 0
  total,        \* history: events that incr has seen
  counted,      \* history: events that tick has taken into lastRate
  first,        \* history: events of the first tick
  peak          \* history: the most events of one tick

rates   == <<newEvents, lastRate, scale, ticks>>
history == <<total, counted, first, peak>>
vars == <<rates, pc, cur, loaded, accumulator, numShards, backlog, sender,
          history>>

Rates == {"in", "out", "dur"}

\* The order of the three tick() calls in calculateDesiredShards.
Following(r) == IF r = "in" THEN "out" ELSE "dur"

Larger(a, b) == IF a > b THEN a ELSE b

\* NewQueueManager
Init ==
  /\ newEvents = [r \in Rates |-> 0]
  /\ lastRate = [r \in Rates |-> 0]
  /\ scale = [r \in Rates |-> 1]
  /\ ticks = [r \in Rates |-> 0]
  /\ pc = "idle"
  /\ cur = "in"
  /\ loaded = 0
  /\ accumulator = 0
  /\ numShards = 1
  /\ backlog = 0
  /\ sender = [s \in Senders |-> 0]
  /\ total = [r \in Rates |-> 0]
  /\ counted = [r \in Rates |-> 0]
  /\ first = [r \in Rates |-> 0]
  /\ peak = [r \in Rates |-> 0]

-----------------------------------------------------------------------------
\* atomic.AddInt64(&r.newEvents, n)
Incr(r, n) ==
  /\ newEvents' = [newEvents EXCEPT ![r] = @ + n]
  /\ total' = [total EXCEPT ![r] = @ + n]
  /\ UNCHANGED <<lastRate, scale, ticks, counted, first, peak>>

\* enqueue counts a sample whether or not the channel then takes it.
Enqueue(accepted) ==
  /\ total["in"] < MaxSamples
  /\ Incr("in", 1)
  /\ backlog' = backlog + accepted
  /\ UNCHANGED <<pc, cur, loaded, accumulator, numShards, sender>>

\* sendSamples, the batch of n samples dealt with: samplesOut.incr ...
SamplesOutIncr(s, n, d) ==
  /\ sender[s] = 0
  /\ n <= backlog
  /\ Incr("out", n)
  /\ backlog' = backlog - n
  /\ sender' = [sender EXCEPT ![s] = d]
  /\ UNCHANGED <<pc, cur, loaded, accumulator, numShards>>

\* ... and then samplesOutDuration.incr.
SamplesOutDurationIncr(s) ==
  /\ sender[s] > 0
  /\ Incr("dur", sender[s])
  /\ sender' = [sender EXCEPT ![s] = 0]
  /\ UNCHANGED <<pc, cur, loaded, accumulator, numShards, backlog>>

-----------------------------------------------------------------------------
\* case <-ticker in updateShardsLoop
Ticker ==
  /\ pc = "idle"
  /\ ticks["dur"] < MaxTicks
  /\ pc' = "load"
  /\ cur' = "in"
  /\ UNCHANGED <<rates, loaded, accumulator, numShards, backlog, sender, history>>

\* newEvents := atomic.LoadInt64(&r.newEvents)
TickLoad ==
  /\ pc = "load"
  /\ loaded' = newEvents[cur]
  /\ pc' = "sub"
  /\ UNCHANGED <<rates, cur, accumulator, numShards, backlog, sender, history>>

\* Mutant: the old rate is added, not subtracted.
AveragePlus(r, x) ==
  IF ticks[r] > 0 THEN 6 * lastRate[r] + scale[r] * x ELSE 5 * x

\* r.lastRate += r.alpha * (instantRate - r.lastRate), or the first rate
Average(r, x) ==
  IF ticks[r] > 0 THEN 4 * lastRate[r] + scale[r] * x ELSE 5 * x

\* Mutant: the counter is stored back as 0.
Forget(n) == 0

\* atomic.AddInt64(&r.newEvents, -newEvents)
Subtract(n) == n - loaded

TickSubtract ==
  /\ pc = "sub"
  /\ newEvents' = [newEvents EXCEPT ![cur] = Subtract(@)]
  /\ lastRate' = [lastRate EXCEPT ![cur] = Average(cur, loaded)]
  /\ scale' = [scale EXCEPT ![cur] = 5 * @]
  /\ ticks' = [ticks EXCEPT ![cur] = @ + 1]
  /\ counted' = [counted EXCEPT ![cur] = @ + loaded]
  /\ first' = [first EXCEPT ![cur] = IF ticks[cur] = 0 THEN loaded ELSE @]
  /\ peak' = [peak EXCEPT ![cur] = Larger(@, loaded)]
  /\ pc' = IF cur = "dur" THEN "decide" ELSE "load"
  /\ cur' = Following(cur)
  /\ UNCHANGED <<loaded, accumulator, numShards, backlog, sender, total>>

-----------------------------------------------------------------------------
Scale == scale["dur"]

\* Mutant: nothing is accumulated before the first batch has been sent.
AccumulateLate(acc) ==
  IF lastRate["out"] <= 0
    THEN 5 * acc
    ELSE 5 * acc + lastRate["in"] - lastRate["out"]

\* t.integralAccumulator + (samplesPending * 0.1)
Accumulate(acc) == 5 * acc + lastRate["in"] - lastRate["out"]

\* samplesIn + samplesPending + integralAccumulator, scaled like accumulator'
Work == 10 * (2 * lastRate["in"] - lastRate["out"]) + Accumulate(accumulator)

\* desiredShards = timePerSample * Work, as numerator and denominator; the
\* two cases are equal, and the first keeps the numbers small.
DesiredShards ==
  LET D == lastRate["dur"]
      O == lastRate["out"] IN
  IF D % O = 0 THEN <<(D \div O) * Work, 10 * Scale>>
               ELSE <<D * Work, O * 10 * Scale>>

WithinTolerance(d) ==
  7 * numShards * d[2] <= 10 * d[1] /\ 10 * d[1] <= 13 * numShards * d[2]

\* int(math.Ceil(desiredShards)), capped by MaxShards
TargetShards(d) ==
  LET n == -((-d[1]) \div d[2]) IN IF n > MaxShards THEN MaxShards ELSE n

\* The rest of calculateDesiredShards; the reshardLoop may be busy.
Decide ==
  /\ pc = "decide"
  /\ accumulator' = Accumulate(accumulator)
  /\ pc' = "idle"
  /\ \/ UNCHANGED numShards
     \/ /\ lastRate["out"] > 0
        /\ ~WithinTolerance(DesiredShards)
        /\ numShards' = TargetShards(DesiredShards)
  /\ UNCHANGED <<rates, cur, loaded, backlog, sender, history>>

\* All ticks that are modelled have been taken.
Finished == pc = "idle" /\ ticks["dur"] = MaxTicks /\ UNCHANGED vars

Next ==
  \/ \E accepted \in {0, 1} : Enqueue(accepted)
  \/ \E s \in Senders :
       \/ \E n \in 1 .. MaxSamplesPerSend, d \in Durations : SamplesOutIncr(s, n, d)
       \/ SamplesOutDurationIncr(s)
  \/ Ticker
  \/ TickLoad
  \/ TickSubtract
  \/ Decide
  \/ Finished

Spec == Init /\ [][Next]_vars

-----------------------------------------------------------------------------
(***************************************************************************)
(* Properties.                                                             *)
(***************************************************************************)

\* tick() reads newEvents and subtracts what it read in two atomic steps: an
\* event that arrives between them is neither lost nor counted twice.
EventsConserved ==
  \A r \in Rates : total[r] = counted[r] + newEvents[r]

\* A moving average is never negative and never above the largest rate that
\* any one tick has seen.
RateWithinHistory ==
  \A r \in Rates : /\ 0 <= lastRate[r]
                   /\ lastRate[r] <= scale[r] * peak[r]

\* The integral accumulator does not drift: between ticks it is a tenth of
\* the samples received and not sent, less the lag of the two averages (their
\* weight is 1/5, so a lag of 4 ticks), plus what the first tick, which
\* bypasses the average, has put in.
IntegralIsBacklog ==
  pc = "idle" =>
    accumulator =
         Scale * (counted["in"] - counted["out"])
         - 4 * (lastRate["in"] - lastRate["out"])
         + 4 * Scale * (first["in"] - first["out"])

\* "Append ... Always returns nil" (queue_manager.go, on Append): enqueue
\* divides by the number of shards, so Append can only return if there is one.
SomeShard == numShards >= 1

\* The inductive form of EventsConserved: what tick() has read is still in
\* the counter when it subtracts it, so the counter never goes below zero.
ConservedInv ==
  /\ newEvents \in [Rates -> Nat]
  /\ total \in [Rates -> Nat]
  /\ counted \in [Rates -> Nat]
  /\ sender \in [Senders -> Nat]
  /\ loaded \in Nat
  /\ cur \in Rates
  /\ pc = "sub" => loaded <= newEvents[cur]
  /\ EventsConserved
=============================================================================
