------------------------ MODULE ShardCalculatorProofs -----------------------
(***************************************************************************)
(* Proofs about module ShardCalculator, for any number of senders and any  *)
(* number of ticks.                                                        *)
(***************************************************************************)
EXTENDS ShardCalculator, TLAPS

\* incr() keeps the books, also between the two steps of a tick().
LEMMA IncrConserves ==
  ASSUME ConservedInv, NEW r \in Rates, NEW n \in Nat, Incr(r, n),
         UNCHANGED <<loaded, cur, pc>>, sender' \in [Senders -> Nat]
  PROVE  ConservedInv'
<1>1. /\ newEvents' \in [Rates -> Nat]
      /\ total' \in [Rates -> Nat]
      /\ UNCHANGED counted
  BY DEF Incr, ConservedInv
<1>2. \A q \in Rates : newEvents'[q] >= newEvents[q]
  BY DEF Incr, ConservedInv
<1>3. EventsConserved'
  BY DEF Incr, ConservedInv, EventsConserved
<1>4. pc' = "sub" => loaded' <= newEvents'[cur']
  BY <1>1, <1>2 DEF ConservedInv
<1> QED
  BY <1>1, <1>3, <1>4 DEF ConservedInv

\* tick() moves what it has read from the counter to the average.
LEMMA TickConserves ==
  ASSUME ConservedInv, TickSubtract
  PROVE  ConservedInv'
<1>1. /\ pc = "sub" /\ pc' # "sub"
      /\ newEvents' = [newEvents EXCEPT ![cur] = newEvents[cur] - loaded]
      /\ counted' = [counted EXCEPT ![cur] = counted[cur] + loaded]
      /\ UNCHANGED <<loaded, total, sender>>
      /\ cur' \in Rates
  BY DEF TickSubtract, Subtract, Following, Rates
<1>2. newEvents[cur] - loaded \in Nat /\ counted[cur] + loaded \in Nat
  BY <1>1 DEF ConservedInv
<1>3. newEvents' \in [Rates -> Nat] /\ counted' \in [Rates -> Nat]
  BY <1>1, <1>2 DEF ConservedInv
<1>4. EventsConserved'
  <2> SUFFICES ASSUME NEW r \in Rates
               PROVE  total[r] = counted'[r] + newEvents'[r]
    BY <1>1 DEF EventsConserved
  <2>1. /\ total[r] = counted[r] + newEvents[r]
        /\ counted[r] \in Nat /\ newEvents[r] \in Nat /\ loaded \in Nat
    BY DEF ConservedInv, EventsConserved
  <2>2. CASE r = cur
    BY <1>1, <2>1, <2>2 DEF ConservedInv
  <2>3. CASE r # cur
    BY <1>1, <2>1, <2>3 DEF ConservedInv
  <2> QED
    BY <2>2, <2>3
<1> QED
  BY <1>1, <1>3, <1>4 DEF ConservedInv

LEMMA ConservedStep ==
  ASSUME ConservedInv, [Next]_vars
  PROVE  ConservedInv'
<1> USE DEF rates, history
<1>0. "in" \in Rates /\ "out" \in Rates /\ "dur" \in Rates
  BY DEF Rates
<1>1. ASSUME NEW accepted \in {0, 1}, Enqueue(accepted)
      PROVE  ConservedInv'
  BY <1>0, <1>1, IncrConserves DEF Enqueue, ConservedInv
<1>2. ASSUME NEW s \in Senders, NEW n \in 1 .. MaxSamplesPerSend,
             NEW d \in Durations, SamplesOutIncr(s, n, d)
      PROVE  ConservedInv'
  <2>1. n \in Nat /\ d \in Nat
    BY CalculatorAssumption
  <2>2. sender' \in [Senders -> Nat]
    BY <1>2, <2>1 DEF SamplesOutIncr, ConservedInv
  <2> QED
    BY <1>0, <1>2, <2>1, <2>2, IncrConserves DEF SamplesOutIncr
<1>3. ASSUME NEW s \in Senders, SamplesOutDurationIncr(s)
      PROVE  ConservedInv'
  <2>1. sender[s] \in Nat
    BY DEF ConservedInv
  <2>2. sender' \in [Senders -> Nat]
    BY <1>3 DEF SamplesOutDurationIncr, ConservedInv
  <2> QED
    BY <1>0, <1>3, <2>1, <2>2, IncrConserves DEF SamplesOutDurationIncr
<1>4. CASE Ticker
  BY <1>0, <1>4 DEF Ticker, ConservedInv, EventsConserved
<1>5. CASE TickLoad
  BY <1>5 DEF TickLoad, ConservedInv, EventsConserved
<1>6. CASE TickSubtract
  BY <1>6, TickConserves
<1>7. CASE Decide
  BY <1>7 DEF Decide, ConservedInv, EventsConserved
<1>8. CASE UNCHANGED vars
  BY <1>8 DEF vars, ConservedInv, EventsConserved
<1> QED
  BY <1>1, <1>2, <1>3, <1>4, <1>5, <1>6, <1>7, <1>8 DEF Next, Finished

\* No interleaving of incr() with the two atomic operations of tick() loses an
\* event or counts one twice.
THEOREM NoEventLost == Spec => []EventsConserved
<1>1. Init => ConservedInv
  BY DEF Init, ConservedInv, EventsConserved, Rates
<1>2. ConservedInv /\ [Next]_vars => ConservedInv'
  BY ConservedStep
<1>3. ConservedInv => EventsConserved
  BY DEF ConservedInv
<1> QED
  BY <1>1, <1>2, <1>3, PTL DEF Spec

-----------------------------------------------------------------------------
(***************************************************************************)
(* The moving averages.                                                    *)
(***************************************************************************)

\* Types of the rates, and what a rate looks like before its first tick.
RateTypes ==
  /\ lastRate \in [Rates -> Nat]
  /\ scale \in [Rates -> Nat]
  /\ ticks \in [Rates -> Nat]
  /\ first \in [Rates -> Nat]
  /\ peak \in [Rates -> Nat]
  /\ \A r \in Rates : ticks[r] = 0 =>
        scale[r] = 1 /\ lastRate[r] = 0 /\ counted[r] = 0 /\ first[r] = 0

\* The inductive form of RateWithinHistory.
RateInv == ConservedInv /\ RateTypes /\ RateWithinHistory

LEMMA ProductMonotone ==
  ASSUME NEW a \in Nat, NEW b \in Nat, NEW c \in Nat, a <= b
  PROVE  c * a <= c * b /\ c * a \in Nat /\ c * b \in Nat
OBVIOUS

\* One tick of a rate, from the load x on, with what it leaves alone.
LEMMA TickFacts ==
  ASSUME ConservedInv, RateTypes, TickSubtract
  PROVE  /\ cur \in Rates /\ loaded \in Nat /\ pc = "sub"
         /\ ticks[cur] = 0 => lastRate'[cur] = 5 * loaded
         /\ ticks[cur] # 0 => lastRate'[cur] = 4 * lastRate[cur] + scale[cur] * loaded
         /\ scale'[cur] = 5 * scale[cur]
         /\ ticks'[cur] = ticks[cur] + 1
         /\ counted'[cur] = counted[cur] + loaded
         /\ first'[cur] = IF ticks[cur] = 0 THEN loaded ELSE first[cur]
         /\ peak'[cur] = IF peak[cur] > loaded THEN peak[cur] ELSE loaded
         /\ \A r \in Rates : r # cur =>
               /\ lastRate'[r] = lastRate[r] /\ scale'[r] = scale[r]
               /\ ticks'[r] = ticks[r] /\ counted'[r] = counted[r]
               /\ first'[r] = first[r] /\ peak'[r] = peak[r]
<1>1. cur \in Rates /\ loaded \in Nat /\ pc = "sub" /\ ticks[cur] \in Nat
  BY DEF TickSubtract, ConservedInv, RateTypes
<1>2. lastRate' = [lastRate EXCEPT ![cur] = Average(cur, loaded)]
  BY DEF TickSubtract
<1>3. lastRate'[cur] = Average(cur, loaded)
  BY <1>1, <1>2 DEF RateTypes
<1>4. /\ ticks[cur] = 0 => lastRate'[cur] = 5 * loaded
      /\ ticks[cur] # 0 => lastRate'[cur] = 4 * lastRate[cur] + scale[cur] * loaded
  BY <1>1, <1>3 DEF Average
<1>5. /\ scale'[cur] = 5 * scale[cur]
      /\ ticks'[cur] = ticks[cur] + 1
      /\ counted'[cur] = counted[cur] + loaded
      /\ first'[cur] = IF ticks[cur] = 0 THEN loaded ELSE first[cur]
      /\ peak'[cur] = IF peak[cur] > loaded THEN peak[cur] ELSE loaded
  BY <1>1 DEF TickSubtract, Larger, ConservedInv, RateTypes
<1>6. \A r \in Rates : r # cur =>
         /\ lastRate'[r] = lastRate[r] /\ scale'[r] = scale[r]
         /\ ticks'[r] = ticks[r] /\ counted'[r] = counted[r]
         /\ first'[r] = first[r] /\ peak'[r] = peak[r]
  BY <1>1 DEF TickSubtract, ConservedInv, RateTypes
<1> QED
  BY <1>1, <1>4, <1>5, <1>6

LEMMA TickRate ==
  ASSUME RateInv, TickSubtract
  PROVE  RateTypes' /\ RateWithinHistory'
<1> USE DEF RateInv
<1> DEFINE x == loaded  lr == lastRate[cur]  sc == scale[cur]  pk == peak[cur]
           px == peak'[cur]
<1>0. x \in Nat /\ lr \in Nat /\ sc \in Nat /\ pk \in Nat /\ ticks[cur] \in Nat
  BY DEF ConservedInv, RateTypes
<1>1. px \in Nat /\ x <= px /\ pk <= px
  BY <1>0, TickFacts
<1>2. /\ sc * x \in Nat /\ sc * pk \in Nat /\ sc * px \in Nat
      /\ sc * x <= sc * px /\ sc * pk <= sc * px
  BY <1>0, <1>1, ProductMonotone
<1>3. lr <= sc * pk
  BY TickFacts DEF RateWithinHistory
<1>4. scale'[cur] * px = 5 * (sc * px) /\ scale'[cur] \in Nat
  <2>1. scale'[cur] = 5 * sc
    BY TickFacts
  <2> HIDE DEF sc, px
  <2> QED
    BY <1>0, <1>1, <2>1
<1>5. lastRate'[cur] \in Nat /\ lastRate'[cur] <= scale'[cur] * px
  <2>1. CASE ticks[cur] = 0
    <3>1. sc = 1 /\ lastRate'[cur] = 5 * x
      BY <2>1, TickFacts DEF RateTypes
    <3>2. sc * px = px
      BY <1>1, <3>1
    <3> HIDE DEF sc, px, x, lr, pk
    <3> QED
      BY <1>0, <1>1, <1>2, <1>3, <1>4, <3>1, <3>2
  <2>2. CASE ticks[cur] # 0
    <3>1. lastRate'[cur] = 4 * lr + sc * x
      BY <2>2, TickFacts
    <3> HIDE DEF sc, px, x, lr, pk
    <3> QED
      BY <1>0, <1>1, <1>2, <1>3, <1>4, <3>1
  <2> QED
    BY <2>1, <2>2
<1>6. RateWithinHistory'
  BY <1>5, TickFacts DEF RateWithinHistory, RateTypes
<1>7. RateTypes'
  <2>1. /\ lastRate' = [lastRate EXCEPT ![cur] = lastRate'[cur]]
        /\ scale' = [scale EXCEPT ![cur] = scale'[cur]]
        /\ ticks' = [ticks EXCEPT ![cur] = ticks'[cur]]
        /\ first' = [first EXCEPT ![cur] = first'[cur]]
        /\ peak' = [peak EXCEPT ![cur] = px]
    BY DEF TickSubtract, ConservedInv, RateTypes
  <2>2. ticks'[cur] \in Nat /\ ticks'[cur] # 0 /\ first'[cur] \in Nat
    BY <1>0, TickFacts DEF RateTypes
  <2>3. lastRate' \in [Rates -> Nat] /\ scale' \in [Rates -> Nat]
    BY <1>4, <1>5, <2>1 DEF RateTypes
  <2>4. ticks' \in [Rates -> Nat] /\ first' \in [Rates -> Nat] /\ peak' \in [Rates -> Nat]
    BY <1>1, <2>1, <2>2 DEF RateTypes
  <2>5. \A r \in Rates : ticks'[r] = 0 =>
           scale'[r] = 1 /\ lastRate'[r] = 0 /\ counted'[r] = 0 /\ first'[r] = 0
    BY <2>2, TickFacts DEF RateTypes
  <2> QED
    BY <2>3, <2>4, <2>5 DEF RateTypes
<1> QED
  BY <1>6, <1>7

\* The other steps leave the averages alone.
LEMMA OthersKeepRates ==
  ASSUME [Next]_vars, ~TickSubtract
  PROVE  UNCHANGED <<lastRate, scale, ticks, counted, first, peak>>
BY DEF Next, vars, rates, history, Enqueue, SamplesOutIncr, SamplesOutDurationIncr,
   Incr, Ticker, TickLoad, Decide, Finished

LEMMA RateStep == RateInv /\ [Next]_vars => RateInv'
<1> SUFFICES ASSUME RateInv, [Next]_vars PROVE RateInv'
  OBVIOUS
<1>1. ConservedInv'
  BY ConservedStep DEF RateInv
<1>2. CASE TickSubtract
  BY <1>1, <1>2, TickRate DEF RateInv
<1>3. CASE ~TickSubtract
  BY <1>1, <1>3, OthersKeepRates DEF RateInv, RateTypes, RateWithinHistory
<1> QED
  BY <1>2, <1>3

LEMMA InitRate == Init => RateInv
<1> SUFFICES ASSUME Init PROVE RateInv
  OBVIOUS
<1>1. ConservedInv
  BY DEF Init, ConservedInv, EventsConserved, Rates
<1>2. RateTypes /\ RateWithinHistory
  BY DEF Init, RateTypes, RateWithinHistory
<1> QED
  BY <1>1, <1>2 DEF RateInv

\* However many ticks it has seen, a moving average stays between zero and the
\* largest number of events that one tick has taken.
THEOREM RatesBounded == Spec => []RateWithinHistory
<1>1. RateInv => RateWithinHistory
  BY DEF RateInv
<1> QED
  BY <1>1, InitRate, RateStep, PTL DEF Spec

-----------------------------------------------------------------------------
(***************************************************************************)
(* The integral accumulator.                                               *)
(*                                                                         *)
(* A round of calculateDesiredShards ticks the three rates one after the   *)
(* other and adds to the accumulator only at its end, so between the ticks *)
(* a rate is either still where the accumulator is, or one tick ahead.     *)
(***************************************************************************)

\* The rates that have ticked in the round that is under way.
Ticked ==
  CASE pc = "decide"                         -> Rates
    [] pc \in {"load", "sub"} /\ cur = "out" -> {"in"}
    [] pc \in {"load", "sub"} /\ cur = "dur" -> {"in", "out"}
    [] OTHER                                 -> {}

\* What all ticks of rate r together have put into the accumulator.
Share(r) == scale[r] * counted[r] - 4 * lastRate[r] + 4 * (scale[r] * first[r])

\* Five times what they had put in at the last Decide.
Settled(r) == IF r \in Ticked THEN Share(r) - lastRate[r] ELSE 5 * Share(r)

\* The inductive form of IntegralIsBacklog.
IntegralInv ==
  /\ accumulator \in Int
  /\ pc \in {"idle", "load", "sub", "decide"}
  /\ \A r \in Rates : scale[r] = IF r \in Ticked /\ "dur" \notin Ticked
                                   THEN 5 * scale["dur"] ELSE scale["dur"]
  /\ 5 * accumulator = Settled("in") - Settled("out")

LEMMA ShareArithmetic ==
  ASSUME NEW sc \in Nat, NEW c \in Nat, NEW lr \in Nat, NEW f \in Nat, NEW x \in Nat
  PROVE  (5 * sc) * (c + x) - 4 * (4 * lr + sc * x) + 4 * ((5 * sc) * f)
            = 5 * (sc * c - 4 * lr + 4 * (sc * f)) + (4 * lr + sc * x)
<1>1. /\ (5 * sc) * (c + x) = 5 * (sc * c) + 5 * (sc * x)
      /\ (5 * sc) * f = 5 * (sc * f)
      /\ sc * c \in Int /\ sc * x \in Int /\ sc * f \in Int
  OBVIOUS
<1> QED
  BY <1>1

\* A tick multiplies the share by five and adds the new average.
LEMMA TickShare ==
  ASSUME RateInv, TickSubtract
  PROVE  /\ \A r \in Rates : r = cur =>
               Share(r)' = 5 * Share(r) + lastRate'[r] /\ lastRate'[r] \in Nat
         /\ \A r \in Rates : r # cur => Share(r)' = Share(r)
         /\ \A r \in Rates : Share(r) \in Int /\ lastRate[r] \in Nat
<1> USE DEF RateInv
<1>1. \A r \in Rates :
         /\ lastRate[r] \in Nat /\ scale[r] \in Nat /\ counted[r] \in Nat /\ first[r] \in Nat
         /\ scale[r] * counted[r] \in Int /\ scale[r] * first[r] \in Int
  BY DEF ConservedInv, RateTypes
<1>2. \A r \in Rates : Share(r) \in Int
  BY <1>1 DEF Share
<1>3. \A r \in Rates : r # cur => Share(r)' = Share(r)
  BY TickFacts DEF Share
<1>4. lastRate'[cur] \in Nat /\ cur \in Rates
  BY TickRate DEF RateTypes, ConservedInv
<1>5. ASSUME NEW r \in Rates, r = cur PROVE Share(r)' = 5 * Share(r) + lastRate'[r]
  <2> DEFINE x == loaded  sc == scale[r]  c == counted[r]  lr == lastRate[r]
             f == first[r]  y == lastRate'[r]
  <2>1. x \in Nat /\ sc \in Nat /\ c \in Nat /\ lr \in Nat /\ f \in Nat /\ y \in Nat
    BY <1>1, <1>4, <1>5, TickFacts
  <2>2. Share(r) = sc * c - 4 * lr + 4 * (sc * f)
    BY DEF Share
  <2>3. Share(r)' = scale'[r] * (c + x) - 4 * y + 4 * (scale'[r] * first'[r])
    BY <1>5, TickFacts DEF Share
  <2>4. scale'[r] = 5 * sc
    BY <1>5, TickFacts
  <2>5. CASE ticks[r] = 0
    <3>1. sc = 1 /\ c = 0 /\ lr = 0 /\ f = 0 /\ y = 5 * x /\ first'[r] = x
      BY <1>5, <2>5, TickFacts DEF RateTypes
    <3>2. Share(r) = 0 /\ Share(r)' = 5 * x - 4 * (5 * x) + 4 * (5 * x)
      BY <2>1, <2>2, <2>3, <2>4, <3>1
    <3> QED
      BY <2>1, <3>1, <3>2
  <2>6. CASE ticks[r] # 0
    <3>1. y = 4 * lr + sc * x /\ first'[r] = f
      BY <1>5, <2>6, TickFacts
    <3>2. Share(r)' = (5 * sc) * (c + x) - 4 * (4 * lr + sc * x) + 4 * ((5 * sc) * f)
      BY <2>3, <2>4, <3>1
    <3>3. (5 * sc) * (c + x) - 4 * (4 * lr + sc * x) + 4 * ((5 * sc) * f)
             = 5 * (sc * c - 4 * lr + 4 * (sc * f)) + (4 * lr + sc * x)
      <4> HIDE DEF x, sc, c, lr, f
      <4> QED
        BY <2>1, ShareArithmetic
    <3> DEFINE before == sc * c - 4 * lr + 4 * (sc * f)
               new    == 4 * lr + sc * x
    <3>4. Share(r)' = 5 * before + new /\ Share(r) = before /\ lastRate'[r] = new
      BY <2>2, <3>1, <3>2, <3>3
    <3> HIDE DEF before, new
    <3> QED
      BY <3>4
  <2> QED
    BY <2>5, <2>6
<1> QED
  BY <1>1, <1>2, <1>3, <1>4, <1>5

LEMMA TickIntegral ==
  ASSUME RateInv, IntegralInv, TickSubtract
  PROVE  IntegralInv'
<1>0. /\ pc = "sub" /\ pc' \in {"load", "decide"} /\ cur \in Rates
      /\ UNCHANGED accumulator
      /\ cur = "in" => cur' = "out" /\ pc' = "load"
      /\ cur = "out" => cur' = "dur" /\ pc' = "load"
      /\ cur = "dur" => cur' = "dur" /\ pc' = "decide"
  BY DEF TickSubtract, Following, RateInv, ConservedInv
<1>1. cur \notin Ticked /\ Ticked' = Ticked \cup {cur}
  <2>1. CASE cur = "in"
    BY <1>0, <2>1 DEF Ticked
  <2>2. CASE cur = "out"
    BY <1>0, <2>2 DEF Ticked
  <2>3. CASE cur = "dur"
    BY <1>0, <2>3 DEF Ticked, Rates
  <2> QED
    BY <1>0, <2>1, <2>2, <2>3 DEF Rates
<1>2. \A r \in Rates : Settled(r)' = Settled(r)
  <2> SUFFICES ASSUME NEW r \in Rates PROVE Settled(r)' = Settled(r)
    OBVIOUS
  <2>1. CASE r = cur
    <3>1. Settled(r)' = Share(r)' - lastRate'[r] /\ Settled(r) = 5 * Share(r)
      BY <1>1, <2>1 DEF Settled
    <3>2. /\ Share(r)' = 5 * Share(r) + lastRate'[r]
          /\ Share(r) \in Int /\ lastRate'[r] \in Nat
      BY <2>1, TickShare
    <3> QED
      BY <3>1, <3>2
  <2>2. CASE r # cur
    <3>1. Share(r)' = Share(r) /\ lastRate'[r] = lastRate[r]
      BY <2>2, TickShare, TickFacts DEF RateInv
    <3> QED
      BY <1>1, <2>2, <3>1 DEF Settled
  <2> QED
    BY <2>1, <2>2
<1>3. 5 * accumulator' = Settled("in")' - Settled("out")'
  BY <1>0, <1>2 DEF IntegralInv, Rates
<1>4. \A r \in Rates : scale'[r] = IF r \in Ticked' /\ "dur" \notin Ticked'
                                     THEN 5 * scale'["dur"] ELSE scale'["dur"]
  <2>1. \A r \in Rates : scale[r] \in Nat
    BY DEF RateInv, RateTypes
  <2>2. \A r \in Rates : scale'[r] = IF r = cur THEN 5 * scale[r] ELSE scale[r]
    BY TickFacts DEF RateInv
  <2>3. CASE cur = "in"
    BY <1>0, <1>1, <2>1, <2>2, <2>3 DEF IntegralInv, Ticked, Rates
  <2>4. CASE cur = "out"
    BY <1>0, <1>1, <2>1, <2>2, <2>4 DEF IntegralInv, Ticked, Rates
  <2>5. CASE cur = "dur"
    BY <1>0, <1>1, <2>1, <2>2, <2>5 DEF IntegralInv, Ticked, Rates
  <2> QED
    BY <1>0, <2>3, <2>4, <2>5 DEF Rates
<1> QED
  BY <1>0, <1>3, <1>4 DEF IntegralInv

LEMMA DecideIntegral ==
  ASSUME RateInv, IntegralInv, Decide
  PROVE  IntegralInv'
<1>1. /\ pc = "decide" /\ pc' = "idle" /\ accumulator \in Int
      /\ UNCHANGED <<lastRate, scale, counted, first>>
      /\ accumulator' = 5 * accumulator + lastRate["in"] - lastRate["out"]
  BY DEF Decide, Accumulate, rates, history, IntegralInv
<1>2. Ticked = Rates /\ Ticked' = {}
  BY <1>1 DEF Ticked
<1>3. /\ "in" \in Rates /\ "out" \in Rates
      /\ \A r \in Rates : lastRate[r] \in Nat /\ Share(r) \in Int /\ Share(r)' = Share(r)
  <2>1. \A r \in Rates :
           /\ lastRate[r] \in Nat
           /\ scale[r] * counted[r] \in Int /\ scale[r] * first[r] \in Int
    BY DEF RateInv, ConservedInv, RateTypes
  <2> QED
    BY <1>1, <2>1 DEF Share, Rates
<1>4. accumulator' = Share("in") - Share("out") /\ accumulator' \in Int
  BY <1>1, <1>2, <1>3 DEF IntegralInv, Settled
<1>5. 5 * accumulator' = Settled("in")' - Settled("out")'
  BY <1>2, <1>3, <1>4 DEF Settled
<1>6. \A r \in Rates : scale[r] = scale["dur"]
  BY <1>2 DEF IntegralInv, Rates
<1> QED
  BY <1>1, <1>2, <1>4, <1>5, <1>6 DEF IntegralInv

\* The remaining steps move no rate in or out of Ticked.
LEMMA OthersKeepIntegral ==
  ASSUME RateInv, IntegralInv, [Next]_vars, ~TickSubtract, ~Decide
  PROVE  IntegralInv'
<1>1. UNCHANGED <<lastRate, scale, counted, first>>
  BY OthersKeepRates
<1>2. UNCHANGED accumulator /\ pc' \in {"idle", "load", "sub", "decide"} /\ Ticked' = Ticked
  <2>1. CASE UNCHANGED <<pc, cur, accumulator>>
    BY <2>1 DEF IntegralInv, Ticked
  <2>2. CASE Ticker
    BY <2>2 DEF Ticker, Ticked
  <2>3. CASE TickLoad
    BY <2>3 DEF TickLoad, Ticked
  <2> QED
    BY <2>1, <2>2, <2>3 DEF Next, vars, Enqueue, SamplesOutIncr,
       SamplesOutDurationIncr, Finished
<1> QED
  BY <1>1, <1>2 DEF IntegralInv, Settled, Share

LEMMA IntegralStep == RateInv /\ IntegralInv /\ [Next]_vars => IntegralInv'
BY TickIntegral, DecideIntegral, OthersKeepIntegral

LEMMA InitIntegral == Init => IntegralInv
<1> SUFFICES ASSUME Init PROVE IntegralInv
  OBVIOUS
<1>1. Ticked = {} /\ "in" \in Rates /\ "out" \in Rates /\ "dur" \in Rates
  BY DEF Init, Ticked, Rates
<1>2. Share("in") = 0 /\ Share("out") = 0
  BY <1>1 DEF Init, Share
<1> QED
  BY <1>1, <1>2 DEF Init, IntegralInv, Settled

\* Between two rounds the accumulator is a function of what was received and
\* sent: it does not drift, however long the queue has been running and
\* whatever arrived between the ticks of a round.
THEOREM NoDrift == Spec => []IntegralIsBacklog
<1>1. RateInv /\ IntegralInv => IntegralIsBacklog
  <2> SUFFICES ASSUME RateInv, IntegralInv, pc = "idle"
               PROVE  accumulator =
                           Scale * (counted["in"] - counted["out"])
                           - 4 * (lastRate["in"] - lastRate["out"])
                           + 4 * Scale * (first["in"] - first["out"])
    BY DEF IntegralIsBacklog
  <2> DEFINE ci == counted["in"]  co == counted["out"]  li == lastRate["in"]
             lo == lastRate["out"]  fi == first["in"]  fo == first["out"]
             sc == scale["dur"]
  <2>1. "in" \in Rates /\ "out" \in Rates /\ "dur" \in Rates
    BY DEF Rates
  <2>2. /\ ci \in Nat /\ co \in Nat /\ li \in Nat /\ lo \in Nat
        /\ fi \in Nat /\ fo \in Nat /\ sc \in Nat /\ accumulator \in Int
    BY <2>1 DEF RateInv, ConservedInv, RateTypes, IntegralInv
  <2>3. Ticked = {}
    BY DEF Ticked
  <2>4. scale["in"] = sc /\ scale["out"] = sc
    BY <2>1, <2>3 DEF IntegralInv
  <2>5. 5 * accumulator = 5 * (sc * ci - 4 * li + 4 * (sc * fi))
                          - 5 * (sc * co - 4 * lo + 4 * (sc * fo))
    BY <2>3, <2>4 DEF IntegralInv, Settled, Share
  <2> SUFFICES accumulator = sc * (ci - co) - 4 * (li - lo) + 4 * sc * (fi - fo)
    BY DEF Scale
  <2> HIDE DEF ci, co, li, lo, fi, fo, sc
  <2>6. /\ sc * (ci - co) = sc * ci - sc * co
        /\ 4 * sc * (fi - fo) = 4 * (sc * fi) - 4 * (sc * fo)
        /\ sc * ci \in Int /\ sc * co \in Int /\ sc * fi \in Int /\ sc * fo \in Int
    BY <2>2
  <2> QED
    BY <2>2, <2>5, <2>6
<1> QED
  BY <1>1, InitRate, RateStep, InitIntegral, IntegralStep, PTL DEF Spec
=============================================================================
