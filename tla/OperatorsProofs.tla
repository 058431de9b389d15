-------------------------- MODULE OperatorsProofs ---------------------------
(***************************************************************************)
(* Proofs about module Operators: for every set of labels, every query,    *)
(* every window, all streams of any number of remotes, every width of the  *)
(* integers and all targets of a group.                                    *)
(***************************************************************************)
EXTENDS Operators, FiniteSetTheorems, WellFoundedInduction, TLAPS

-----------------------------------------------------------------------------
(***************************************************************************)
(* External labels.                                                        *)
(***************************************************************************)

\* A label that is added has no matcher of the user.
LEMMA AddedIsNew ==
  ASSUME NEW external \in LabelSets, NEW matchers \in SUBSET Matchers,
         NEW m \in matchers
  PROVE  m.name \in LabelNames /\ External(external, matchers)[m.name] = Absent
BY DEF External, Matchers

\* Series that match what is sent have the same value for an added label.
LEMMA AddedIsFixed ==
  ASSUME NEW external \in LabelSets, NEW matchers \in SUBSET Matchers,
         NEW s \in LabelSets, Matches(s, AddExternalLabels(external, matchers)),
         NEW n \in LabelNames, External(external, matchers)[n] # Absent
  PROVE  s[n] = External(external, matchers)[n]
<1> DEFINE m == [name |-> n, type |-> "Equal", value |-> External(external, matchers)[n]]
<1>1. m \in AddExternalLabels(external, matchers)
  BY DEF AddExternalLabels
<1>2. m.name = n /\ m.type = "Equal" /\ m.value = External(external, matchers)[n]
  OBVIOUS
<1> HIDE DEF m
<1> QED
  BY <1>1, <1>2 DEF Matches

\* Whatever the labels, the external labels and the matchers: a remote read
\* answers what was asked, and merges no two series of the remote.
THEOREM SeriesStayApart ==
  ASSUME kind = "read" => input \in Reads
  PROVE  ReadKeepsSeriesApart
<1> SUFFICES ASSUME kind = "read", input \in Reads
             PROVE  ReadKeepsSeriesApart
  BY DEF ReadKeepsSeriesApart
<1> DEFINE external == input.external
           matchers == input.matchers
           sent     == AddExternalLabels(external, matchers)
           added    == External(external, matchers)
<1>0. external \in LabelSets /\ matchers \in SUBSET Matchers
  BY DEF Reads
<1>1. ASSUME NEW metric \in Read(LabelSets, external, matchers)
      PROVE  Matches(metric, matchers)
  <2> PICK s \in LabelSets : Matches(s, sent) /\ metric = RemoveLabels(s, added)
    BY <1>1 DEF Read
  <2>1. Matches(s, matchers)
    BY DEF Matches, AddExternalLabels
  <2>2. ASSUME NEW m \in matchers PROVE metric[m.name] = s[m.name]
    <3> HIDE DEF external, matchers, added
    <3>1. m.name \in LabelNames /\ added[m.name] = Absent
      BY <1>0, AddedIsNew DEF added
    <3> QED
      BY <3>1 DEF RemoveLabels
  <2> QED
    BY <2>1, <2>2 DEF Matches
<1>2. ASSUME NEW s \in LabelSets, NEW t \in LabelSets, Matches(s, sent), Matches(t, sent),
             RemoveLabels(s, added) = RemoveLabels(t, added)
      PROVE  s = t
  <2>1. ASSUME NEW n \in LabelNames PROVE s[n] = t[n]
    <3>1. CASE added[n] # Absent
      <4> HIDE DEF external, matchers
      <4> QED
        BY <1>0, <1>2, <3>1, AddedIsFixed
    <3>2. CASE added[n] = Absent
      <4>1. RemoveLabels(s, added)[n] = s[n] /\ RemoveLabels(t, added)[n] = t[n]
        BY <3>2 DEF RemoveLabels
      <4> QED
        BY <1>2, <4>1
    <3> QED
      BY <3>1, <3>2
  <2> QED
    BY <2>1 DEF LabelSets
<1> QED
  BY <1>1, <1>2 DEF ReadKeepsSeriesApart

-----------------------------------------------------------------------------
(***************************************************************************)
(* The window of a remote read.                                            *)
(***************************************************************************)

\* Seconds rounds down from 1970 on, and up before.
LEMMA SecondsRounds ==
  ASSUME NEW t \in Int
  PROVE  /\ Seconds(t) \in Int
         /\ t >= 0 => 1000 * Seconds(t) <= t /\ t < 1000 * Seconds(t) + 1000
         /\ t < 0  => t <= 1000 * Seconds(t) /\ 1000 * Seconds(t) < t + 1000
BY DEF Seconds, Quotient, TicksPerSecond

\* Every window of two seconds or more, before, around and after 1970, has an
\* instant for which the remote is asked.
THEOREM EveryWindowSampled ==
  ASSUME kind = "window" => input \in Windows
  PROVE  WindowIsSampled
<1> SUFFICES ASSUME kind = "window", input \in Windows
             PROVE  WindowIsSampled
  BY DEF WindowIsSampled
<1> DEFINE from    == input.from
           through == input.through
           w       == InstantWindow(through, through - from)
           start   == Seconds(from)
           end     == Seconds(through)
<1>1. from \in Int /\ through \in Int /\ from + 2000 <= through
  BY DEF Windows, TicksPerSecond, Step
<1>2. w.from = from /\ w.through = through
  BY <1>1 DEF InstantWindow
<1>3. Instants(w) = {1000 * (start + 2 * k) : k \in 0 .. (end - start) \div 2}
  BY <1>2 DEF Instants, TicksPerSecond, Step
<1>4. /\ start \in Int /\ end \in Int
      /\ from >= 0 => 1000 * start <= from /\ from < 1000 * start + 1000
      /\ from < 0  => from <= 1000 * start /\ 1000 * start < from + 1000
      /\ through >= 0 => 1000 * end <= through /\ through < 1000 * end + 1000
      /\ through < 0  => through <= 1000 * end /\ 1000 * end < through + 1000
  BY <1>1, SecondsRounds
<1> SUFFICES \E t \in Instants(w) : from <= t /\ t <= through
  BY <1>2 DEF WindowIsSampled
<1> HIDE DEF from, through, w, start, end
<1>5. CASE from < 0
  <2>1. start <= end
    BY <1>1, <1>4, <1>5
  <2>2. 0 \in 0 .. (end - start) \div 2
    BY <1>4, <2>1
  <2>3. 1000 * (start + 2 * 0) \in Instants(w)
    BY <1>3, <2>2
  <2> QED
    BY <1>1, <1>4, <1>5, <2>3
<1>6. CASE from >= 0
  <2>1. start + 2 <= end
    BY <1>1, <1>4, <1>6
  <2>2. 0 \in 0 .. (end - start) \div 2 /\ 1 \in 0 .. (end - start) \div 2
    BY <1>4, <2>1
  <2>3. 1000 * (start + 2 * 0) \in Instants(w) /\ 1000 * (start + 2 * 1) \in Instants(w)
    BY <1>3, <2>2
  <2> QED
    BY <1>1, <1>4, <1>6, <2>3
<1> QED
  BY <1>1, <1>5, <1>6

-----------------------------------------------------------------------------
(***************************************************************************)
(* Range queries.                                                          *)
(***************************************************************************)

\* Multiplication and division by a positive number keep the order.
LEMMA ProductMonotone ==
  ASSUME NEW a \in Int, NEW b \in Int, NEW c \in Nat, a <= b
  PROVE  c * a <= c * b
OBVIOUS

LEMMA QuotientMonotone ==
  ASSUME NEW a \in Nat, NEW b \in Nat, NEW c \in Nat \ {0}, a <= b
  PROVE  a \div c <= b \div c
<1> DEFINE q == a \div c
           p == b \div c
<1>1. /\ q \in Int /\ p \in Int
      /\ c * q <= a /\ b < c * (p + 1)
  OBVIOUS
<1> HIDE DEF q, p
<1> SUFFICES ASSUME p + 1 <= q PROVE FALSE
  BY <1>1 DEF q, p
<1>2. c * (p + 1) <= c * q
  BY <1>1, ProductMonotone
<1> QED
  BY <1>1, <1>2

\* Subtraction of two times wraps to a smaller number, or not at all.
LEMMA WrapSmaller ==
  ASSUME NEW n \in Nat
  PROVE  /\ Wrap(n) \in Int
         /\ Wrap(n) <= n
         /\ n < Half => Wrap(n) = n
<1>1. Half \in Nat \ {0}
  BY WidthAssumption
<1> DEFINE a == n + Half
           m == 2 * Half
<1>2. a \in Nat /\ m \in Nat \ {0} /\ (n < Half => a < m)
  BY <1>1
<1>3. Wrap(n) = (a % m) - Half
  BY DEF Wrap
<1> HIDE DEF a, m
<1>4. a % m \in Int /\ a % m <= a /\ (a < m => a % m = a)
  BY <1>2
<1> QED
  BY <1>1, <1>2, <1>3, <1>4 DEF a

\* What the parameters are parsed to are integers.
LEMMA ParsedType ==
  ASSUME NEW param \in Params, ~ Unparsable(param)
  PROVE  ParseDuration(param) \subseteq Int /\ ParseTime(param) \subseteq Int
<1>1. Half \in Nat \ {0} /\ NanosPerTick \in Nat \ {0}
  BY WidthAssumption
<1>2. Int64(param) \subseteq Int
  BY <1>1 DEF Int64
<1>3. param.form = "text" => Wrap(param.value) \in Int
  <2>1. param.form = "text" => param.value \in Int
    <3>1. CASE param \in [form: {"float", "text"}, value: Int]
      BY <3>1
    <3>2. CASE param \in [form: {"nan", "bad", ""}]
      BY <3>2
    <3> QED
      BY <3>1, <3>2 DEF Params
  <2>2. \A n \in Int : (n + Half) % (2 * Half) \in Int
    <3> SUFFICES ASSUME NEW a \in Int, NEW m \in Nat \ {0} PROVE a % m \in Int
      BY <1>1
    <3> QED
      OBVIOUS
  <2> QED
    BY <1>1, <2>1, <2>2 DEF Wrap
<1>4. ParseDuration(param) \subseteq Int
  BY <1>2, <1>3 DEF ParseDuration
<1>5. \A n \in Int : Div(n, NanosPerTick) \in Int
  BY <1>1 DEF Div
<1> QED
  BY <1>4, <1>5 DEF ParseTime

\* Dropping a part of a millisecond from the step makes no range shorter.
LEMMA StepsAtLeast ==
  ASSUME NEW n \in Nat, NEW step \in Nat \ {0}, NEW q \in Int, NEW d \in Nat,
         d = step \div NanosPerTick, d # 0, q = n \div d
  PROVE  n * NanosPerTick \in Nat /\ (n * NanosPerTick) \div step <= q
<1> DEFINE x == n * NanosPerTick
           p == x \div step
<1>1. NanosPerTick \in Nat \ {0}
  BY WidthAssumption
<1>2. x \in Nat
  BY <1>1
<1>3. q \in Nat /\ n + 1 <= d * (q + 1)
  BY <1>1
<1>4. NanosPerTick * d <= step
  BY <1>1
<1> DEFINE m == NanosPerTick * d
<1>5. m \in Nat
  BY <1>1
<1>6. NanosPerTick * (n + 1) <= NanosPerTick * (d * (q + 1))
  BY <1>1, <1>3, ProductMonotone
<1>7. NanosPerTick * (d * (q + 1)) = (q + 1) * m
  <2> DEFINE c == q + 1
  <2>1. c \in Int /\ d \in Int /\ NanosPerTick \in Int
    BY <1>1, <1>3
  <2> HIDE DEF c
  <2>2. NanosPerTick * (d * c) = c * (NanosPerTick * d)
    BY <2>1
  <2> QED
    BY <2>2 DEF c, m
<1>8. (q + 1) * m <= (q + 1) * step
  BY <1>3, <1>4, <1>5, ProductMonotone
<1>9. NanosPerTick * (n + 1) = x + NanosPerTick
  BY <1>1
<1> HIDE DEF m, x
<1>10. (q + 1) * m \in Int /\ (q + 1) * step \in Int
  BY <1>3, <1>5
<1>11. x < (q + 1) * step
  BY <1>1, <1>2, <1>6, <1>7, <1>8, <1>9, <1>10
<1>12. p \in Nat /\ step * p <= x
  BY <1>2
<1> HIDE DEF p
<1>13. ~ (q + 1 <= p)
  <2> SUFFICES ASSUME q + 1 <= p PROVE FALSE
    OBVIOUS
  <2>1. step * (q + 1) <= step * p
    BY <1>3, <1>12, ProductMonotone
  <2>2. step * (q + 1) = (q + 1) * step /\ step * p \in Int
    BY <1>3, <1>12
  <2> QED
    BY <1>2, <1>10, <1>11, <1>12, <2>1, <2>2
<1> QED
  BY <1>2, <1>3, <1>12, <1>13 DEF p, x

\* The test of the resolution does not refuse what takes few steps.
LEMMA ShortRangePasses ==
  ASSUME NEW start \in Int, NEW end \in Int, NEW step \in Int, start <= end,
         step >= NanosPerTick, (end - start) \div Tick(step) <= MaxPoints
  PROVE  step > 0 /\ ~ ExceedsResolution(start, end, step)
<1> DEFINE n == end - start
           x == n * NanosPerTick
           d == Tick(step)
           q == n \div d
<1>1. NanosPerTick \in Nat \ {0} /\ MaxPoints \in Nat /\ step \in Nat \ {0} /\ n \in Nat
  BY WidthAssumption
<1>2. d = step \div NanosPerTick /\ d \in Nat /\ d # 0
  BY <1>1 DEF Tick, Div
<1> HIDE DEF n, d
<1>3. q \in Int /\ q <= MaxPoints
  BY <1>1, <1>2 DEF n, d
<1> HIDE DEF q
<1>4. x \in Nat /\ x \div step <= q
  BY <1>1, <1>2, <1>3, StepsAtLeast DEF q
<1>5. ExceedsResolution(start, end, step) <=> Div(Wrap(x), step) > MaxPoints
  BY DEF ExceedsResolution, Sub, n
<1> HIDE DEF x
<1>6. Wrap(x) \in Int /\ Wrap(x) <= x
  BY <1>4, WrapSmaller
<1>7. Div(Wrap(x), step) <= x \div step /\ Div(Wrap(x), step) \in Int /\ x \div step \in Int
  <2>1. CASE Wrap(x) >= 0
    BY <1>1, <1>4, <1>6, <2>1, QuotientMonotone DEF Div
  <2>2. CASE Wrap(x) < 0
    <3> DEFINE y == - Wrap(x)
    <3>1. y \in Nat /\ Div(Wrap(x), step) = -(y \div step)
      BY <1>6, <2>2 DEF Div
    <3> HIDE DEF y
    <3>2. y \div step \in Nat /\ x \div step \in Nat
      BY <1>1, <1>4, <3>1
    <3> QED
      BY <3>1, <3>2
  <2> QED
    BY <1>6, <2>1, <2>2
<1>8. ~ (Div(Wrap(x), step) > MaxPoints)
  BY <1>1, <1>3, <1>4, <1>7
<1> QED
  BY <1>1, <1>5, <1>8

\* For every width of the integers, every unit of time and every request:
\* queryRange refuses no range of at most 11,000 steps for its resolution.
THEOREM NoShortRangeRefused ==
  ASSUME kind = "range" => input \in RangeParams
  PROVE  ShortRangesAccepted
<1> DEFINE Parsed == [start: ParseTime(input.start), end: ParseTime(input.end),
                      step: ParseDuration(input.step)]
           Readable == \A p \in {input.start, input.end, input.step} : ~ Unparsable(p)
           accepted == EngineRanges(input.start, input.end, input.step, input.timeout)
<1>1. ASSUME input \in RangeParams, Readable, input.timeout.form = "", NEW r \in Parsed,
             r.start <= r.end, r.step >= NanosPerTick, Steps(r) <= MaxPoints
      PROVE  r \in accepted
  <2>1. /\ input.start \in Params /\ input.end \in Params /\ input.step \in Params
        /\ ~ Unparsable(input.start) /\ ~ Unparsable(input.end) /\ ~ Unparsable(input.step)
    BY <1>1 DEF RangeParams
  <2>2. AcceptsRange(r.start, r.end, r.step) => r \in accepted
    BY <1>1, <2>1 DEF EngineRanges
  <2>3. r.start \in Int /\ r.end \in Int /\ r.step \in Int
    BY <1>1, <2>1, ParsedType
  <2>4. r.step > 0 /\ ~ ExceedsResolution(r.start, r.end, r.step)
    BY <1>1, <2>3, ShortRangePasses DEF Steps
  <2> QED
    BY <1>1, <2>2, <2>3, <2>4 DEF AcceptsRange
<1> QED
  BY <1>1 DEF ShortRangesAccepted

-----------------------------------------------------------------------------
(***************************************************************************)
(* Induction over the turns of a loop, with sets of numbers in the place of *)
(* predicates.  ServerProofs has the same lemmas for its loops.            *)
(***************************************************************************)
\* A set of numbers that is not empty has a least one.
LEMMA Least ==
  ASSUME NEW S \in SUBSET Nat, S # {}
  PROVE \E n \in S : \A m \in S : n <= m
<1> DEFINE R == OpToRel(<, Nat)
<1>1. IsWellFoundedOn(R, Nat)
  BY NatLessThanWellFounded
<1>2. PICK x \in S : \A y \in S : ~ (<<y, x>> \in R)
  <2> HIDE DEF R
  <2> QED BY <1>1, WFMin
<1>3. \A y \in S : ~ (y < x)
  BY <1>2 DEF OpToRel
<1> QED BY <1>3

\* Induction up to N, for a set of numbers.
LEMMA UpTo ==
  ASSUME NEW N \in Nat, NEW G, 0 \in G, \A i \in 1 .. N : i - 1 \in G => i \in G
  PROVE  N \in G /\ \A i \in 0 .. N : i \in G
<1> SUFFICES ASSUME (0 .. N) \ G # {} PROVE FALSE
  OBVIOUS
<1> DEFINE Bad == (0 .. N) \ G
<1>1. PICK n \in Bad : \A m \in Bad : n <= m
  <2>1. Bad \in SUBSET Nat /\ Bad # {}
    OBVIOUS
  <2> HIDE DEF Bad
  <2> QED
    BY <2>1, Least
<1>2. n \in 1 .. N /\ n - 1 \in 0 .. N
  BY <1>1
<1>3. n - 1 \in G
  BY <1>1, <1>2
<1> QED
  BY <1>1, <1>2, <1>3

\* f has the values of a loop that starts with a, after each of its n turns.
Computes(f, n, X, a, turn) == /\ f \in [0 .. n -> X]
                              /\ f[0] = a
                              /\ \A i \in 1 .. n : f[i] = turn[i][f[i - 1]]

\* There is such an f.
LEMMA Iterate ==
  ASSUME NEW N \in Nat, NEW X, NEW a \in X, NEW turn \in [1 .. N -> [X -> X]]
  PROVE  \E f : Computes(f, N, X, a, turn)
<1> DEFINE G == {n \in 0 .. N : \E f : Computes(f, n, X, a, turn)}
<1>1. 0 \in G
  <2>1. Computes([i \in 0 .. 0 |-> a], 0, X, a, turn)
    BY DEF Computes
  <2>2. 0 \in 0 .. N
    OBVIOUS
  <2> QED
    BY <2>1, <2>2
<1>2. ASSUME NEW n \in 1 .. N, n - 1 \in G PROVE n \in G
  <2>1. PICK f : Computes(f, n - 1, X, a, turn)
    BY <1>2
  <2> DEFINE g == [i \in 0 .. n |-> IF i = n THEN turn[n][f[n - 1]] ELSE f[i]]
  <2>2. turn[n][f[n - 1]] \in X
    BY <2>1 DEF Computes
  <2>3. \A i \in 0 .. n : i # n => i \in 0 .. n - 1
    OBVIOUS
  <2>4. g \in [0 .. n -> X] /\ g[0] = a
    BY <2>1, <2>2, <2>3 DEF Computes
  <2>5. ASSUME NEW i \in 1 .. n PROVE g[i] = turn[i][g[i - 1]]
    BY <2>1 DEF Computes
  <2>6. Computes(g, n, X, a, turn)
    BY <2>4, <2>5 DEF Computes
  <2> HIDE DEF g
  <2> QED
    BY <2>6
<1>3. N \in G
  <2>1. N \in 0 .. N
    OBVIOUS
  <2> HIDE DEF G
  <2> QED
    BY <1>1, <1>2, <2>1, UpTo
<1>4. PICK f : Computes(f, N, X, a, turn)
  BY <1>3
<1> QED
  BY <1>4

\* Two loops with the same turns compute the same.
LEMMA SameLoop ==
  ASSUME NEW N \in Nat, NEW f, NEW g,
         f[0] = g[0],
         \A i \in 1 .. N : f[i - 1] = g[i - 1] => f[i] = g[i]
  PROVE  f[N] = g[N]
<1> DEFINE G == {i \in 0 .. N : f[i] = g[i]}
<1>1. 0 \in G
  OBVIOUS
<1>2. ASSUME NEW i \in 1 .. N, i - 1 \in G PROVE i \in G
  BY <1>2
<1>3. \A i \in 0 .. N : i \in G
  <2> HIDE DEF G
  <2> QED
    BY <1>1, <1>2, UpTo
<1> QED
  BY <1>3

-----------------------------------------------------------------------------
(***************************************************************************)
(* Streams: what the iterators read of one, and what mergeSamples makes of *)
(* two.                                                                    *)
(***************************************************************************)
\* What it is to be a stream.
LEMMA StreamType ==
  ASSUME NEW s \in Streams
  PROVE  /\ s \in Seq(Samples)
         /\ Len(s) \in Nat /\ DOMAIN s = 1 .. Len(s)
         /\ \A i \in 1 .. Len(s) : s[i] \in Samples /\ s[i].Timestamp \in Int
         /\ \A i, j \in 1 .. Len(s) : i < j => s[i].Timestamp < s[j].Timestamp
<1>1. s \in Seq(Samples)
  BY DEF Streams
<1>2. \A x \in Samples : x.Timestamp \in Int
  BY TimeAssumption DEF Samples
<1> HIDE DEF Samples
<1>3. Len(s) \in Nat /\ DOMAIN s = 1 .. Len(s) /\ \A i \in 1 .. Len(s) : s[i] \in Samples
  BY <1>1
<1> QED
  BY <1>1, <1>2, <1>3 DEF Streams, Increasing

\* What sort.Search finds in a stream.
LEMMA SearchIs ==
  ASSUME NEW s \in Streams, NEW t \in Int
  PROVE  /\ Search(s, t) \in 0 .. Len(s)
         /\ \A k \in 1 .. Len(s) : k <= Search(s, t) <=> s[k].Timestamp < t
<1> DEFINE N == Len(s)
           P(n) == /\ \A k \in 1 .. n : s[k].Timestamp < t
                   /\ n < Len(s) => s[n + 1].Timestamp >= t
           Late == {k \in 1 .. N : s[k].Timestamp >= t} \cup {N + 1}
<1>1. N \in Nat /\ \A k \in 1 .. N : s[k].Timestamp \in Int
  BY StreamType
<1>2. PICK m \in Late : \A k \in Late : m <= k
  <2>1. Late \in SUBSET Nat /\ Late # {}
    BY <1>1
  <2> HIDE DEF Late
  <2> QED
    BY <2>1, Least
<1>3. m - 1 \in 0 .. N
  BY <1>1, <1>2
<1>4. P(m - 1)
  <2>1. ASSUME NEW k \in 1 .. m - 1 PROVE s[k].Timestamp < t
    <3>1. k \in 1 .. N /\ ~ (m <= k)
      BY <1>1, <1>3
    <3>2. k \notin Late
      BY <1>2, <3>1
    <3>3. ~ (s[k].Timestamp >= t)
      BY <3>1, <3>2
    <3> QED
      BY <1>1, <3>1, <3>3
  <2>2. m - 1 < Len(s) => s[m - 1 + 1].Timestamp >= t
    BY <1>1, <1>2
  <2> QED
    BY <2>1, <2>2
<1>5. Search(s, t) = CHOOSE n \in 0 .. N : P(n)
  BY DEF Search
<1> DEFINE r == Search(s, t)
<1> HIDE DEF Late
<1>6. r \in 0 .. N /\ P(r)
  <2> HIDE DEF P, N
  <2> QED
    BY <1>3, <1>4, <1>5
<1> HIDE DEF r
<1>7. ASSUME NEW k \in 1 .. N, k > r PROVE ~ (s[k].Timestamp < t)
  <2>1. r + 1 \in 1 .. N /\ r < N
    BY <1>1, <1>6, <1>7
  <2>2. s[r + 1].Timestamp >= t
    BY <1>6, <2>1
  <2>3. r + 1 < k \/ r + 1 = k
    BY <1>1, <1>6, <1>7
  <2>4. r + 1 < k => s[r + 1].Timestamp < s[k].Timestamp
    BY <2>1, StreamType
  <2>5. s[r + 1].Timestamp \in Int /\ s[k].Timestamp \in Int
    BY <1>1, <2>1
  <2> QED
    BY <2>2, <2>3, <2>4, <2>5
<1>8. ASSUME NEW k \in 1 .. N, k <= r PROVE s[k].Timestamp < t
  BY <1>1, <1>6, <1>8
<1>9. \A k \in 1 .. N : k > r \/ k <= r
  BY <1>1, <1>6
<1>10. \A k \in 1 .. N : k <= r <=> s[k].Timestamp < t
  <2> HIDE DEF P, N
  <2> QED
    BY <1>7, <1>8, <1>9
<1> QED
  BY <1>6, <1>10 DEF r

\* A part of a stream.
LEMMA SubStream ==
  ASSUME NEW s \in Streams, NEW m \in 0 .. Len(s), NEW n \in 0 .. Len(s)
  PROVE  /\ SubSeq(s, m + 1, n) \in Streams
         /\ Elems(SubSeq(s, m + 1, n)) = {s[k] : k \in m + 1 .. n}
<1> DEFINE u == SubSeq(s, m + 1, n)
           N == IF m + 1 <= n THEN n - m ELSE 0
<1>1. /\ s \in Seq(Samples) /\ Len(s) \in Nat
      /\ \A i \in 1 .. Len(s) : s[i] \in Samples
      /\ \A i, j \in 1 .. Len(s) : i < j => s[i].Timestamp < s[j].Timestamp
  BY StreamType
<1>2. N \in Nat /\ \A k \in 1 .. N : m + k \in 1 .. Len(s) /\ m + k \in m + 1 .. n
  BY <1>1
<1>3. u = [k \in 1 .. N |-> s[m + k]]
  <2> HIDE DEF Samples
  <2> QED
    BY <1>1
<1> HIDE DEF u, Samples
<1>4. u \in Seq(Samples) /\ Len(u) = N /\ \A k \in 1 .. N : u[k] = s[m + k]
  BY <1>1, <1>2, <1>3
<1>5. Increasing(u)
  <2> HIDE DEF N
  <2>1. ASSUME NEW i \in 1 .. N, NEW j \in 1 .. N, i < j
        PROVE  u[i].Timestamp < u[j].Timestamp
    <3>1. m + i \in 1 .. Len(s) /\ m + j \in 1 .. Len(s) /\ m + i < m + j
      BY <1>1, <1>2, <2>1
    <3> QED
      BY <1>1, <1>4, <3>1
  <2> QED
    BY <1>4, <2>1 DEF Increasing
<1>6. ASSUME NEW k \in m + 1 .. n PROVE k - m \in 1 .. N /\ u[k - m] = s[k]
  BY <1>1, <1>4
<1> HIDE DEF N
<1>7. {s[k] : k \in m + 1 .. n} \subseteq Elems(u)
  BY <1>4, <1>6 DEF Elems
<1>8. Elems(u) \subseteq {s[k] : k \in m + 1 .. n}
  BY <1>2, <1>4 DEF Elems
<1> QED
  BY <1>4, <1>5, <1>7, <1>8 DEF u, Streams

\* A stream after an older one.
LEMMA CatStreams ==
  ASSUME NEW s \in Streams, NEW t \in Streams,
         \A x \in Elems(s), y \in Elems(t) : x.Timestamp < y.Timestamp
  PROVE  s \o t \in Streams /\ Elems(s \o t) = Elems(s) \cup Elems(t)
<1> DEFINE u == s \o t
           m == Len(s)
           n == Len(t)
<1>1. /\ s \in Seq(Samples) /\ m \in Nat
      /\ \A i, j \in 1 .. m : i < j => s[i].Timestamp < s[j].Timestamp
      /\ t \in Seq(Samples) /\ n \in Nat
      /\ \A i, j \in 1 .. n : i < j => t[i].Timestamp < t[j].Timestamp
  BY StreamType
<1>2. /\ u \in Seq(Samples) /\ Len(u) = m + n
      /\ \A i \in 1 .. m : u[i] = s[i]
      /\ \A i \in 1 .. n : u[m + i] = t[i]
  <2> HIDE DEF Samples
  <2> QED
    BY <1>1
<1>3. \A i \in 1 .. m, j \in 1 .. n : s[i].Timestamp < t[j].Timestamp
  BY DEF Elems
<1> HIDE DEF u, m, n
<1>4. ASSUME NEW i \in 1 .. m + n
      PROVE  i \in 1 .. m \/ (i - m \in 1 .. n /\ u[i] = t[i - m] /\ ~ (i <= m))
  <2>1. i \notin 1 .. m => i - m \in 1 .. n /\ m + (i - m) = i /\ ~ (i <= m)
    BY <1>1
  <2> QED
    BY <1>2, <2>1
<1>5. ASSUME NEW i \in 1 .. m + n, NEW j \in 1 .. m + n, i < j
      PROVE  u[i].Timestamp < u[j].Timestamp
  <2>1. CASE i \in 1 .. m /\ j \in 1 .. m
    BY <1>1, <1>2, <1>5, <2>1
  <2>2. CASE i \in 1 .. m /\ j - m \in 1 .. n /\ u[j] = t[j - m]
    BY <1>2, <1>3, <2>2
  <2>3. CASE i - m \in 1 .. n /\ u[i] = t[i - m] /\ j - m \in 1 .. n /\ u[j] = t[j - m]
    <3>1. i - m < j - m
      BY <1>1, <1>5
    <3> QED
      BY <1>1, <2>3, <3>1
  <2>4. ~ (i <= m) => ~ (j \in 1 .. m)
    BY <1>1, <1>5
  <2> QED
    BY <1>4, <2>1, <2>2, <2>3, <2>4
<1>6. Increasing(u)
  BY <1>2, <1>5 DEF Increasing
<1>7. Elems(u) \subseteq Elems(s) \cup Elems(t)
  BY <1>2, <1>4 DEF Elems, m, n
<1>8. \A i \in 1 .. m : i \in 1 .. Len(u)
  BY <1>1, <1>2
<1>9. \A i \in 1 .. n : m + i \in 1 .. Len(u)
  BY <1>1, <1>2
<1>10. Elems(s) \subseteq Elems(u) /\ Elems(t) \subseteq Elems(u)
  BY <1>2, <1>8, <1>9 DEF Elems, m, n
<1> QED
  BY <1>2, <1>6, <1>7, <1>10 DEF u, Streams

-----------------------------------------------------------------------------
\* The states of the loop of mergeSamples.
MergeStates(a, b) == [i: 0 .. Len(a), j: 0 .. Len(b), result: Seq(Samples)]

\* Of the first j samples of b, those for whose time a has none.
OnlyIn(b, a, j) == {b[k] : k \in {m \in 1 .. j : \A l \in 1 .. Len(a) :
                                                     a[l].Timestamp # b[m].Timestamp}}

\* The invariant of the loop, after n turns.
MergeInv(a, b, n, s) ==
  /\ s \in MergeStates(a, b)
  /\ s.result \in Streams
  /\ Elems(s.result) = {a[k] : k \in 1 .. s.i} \cup OnlyIn(b, a, s.j)
  /\ s.i < Len(a) => \A x \in Elems(s.result) : x.Timestamp < a[s.i + 1].Timestamp
  /\ s.j < Len(b) => \A x \in Elems(s.result) : x.Timestamp < b[s.j + 1].Timestamp
  /\ s.i + s.j >= n \/ s.i = Len(a) \/ s.j = Len(b)

\* A newer sample behind a stream.
LEMMA AppendStream ==
  ASSUME NEW s \in Streams, NEW x \in Samples, \A y \in Elems(s) : y.Timestamp < x.Timestamp
  PROVE  Append(s, x) \in Streams /\ Elems(Append(s, x)) = Elems(s) \cup {x}
<1> DEFINE t == <<x>>
<1>1. t \in Seq(Samples) /\ Len(t) = 1 /\ t[1] = x
  <2> HIDE DEF Samples
  <2> QED
    OBVIOUS
<1>2. Elems(t) = {x}
  BY <1>1 DEF Elems
<1>3. t \in Streams
  BY <1>1 DEF Streams, Increasing
<1>4. Append(s, x) = s \o t
  <2>1. s \in Seq(Samples)
    BY DEF Streams
  <2> HIDE DEF Samples
  <2> QED
    BY <2>1
<1> HIDE DEF t
<1> QED
  BY <1>2, <1>3, <1>4, CatStreams

\* What mergeSamples returns when the loop ends in s.
Rest(a, b, s) == s.result \o SubSeq(a, s.i + 1, Len(a)) \o SubSeq(b, s.j + 1, Len(b))

\* The types of the loop's state.
LEMMA MergeTurnType ==
  ASSUME NEW a \in Streams, NEW b \in Streams, NEW s \in MergeStates(a, b)
  PROVE  MergeTurn(a, b, s) \in MergeStates(a, b)
<1>1. s.i \in 0 .. Len(a) /\ s.j \in 0 .. Len(b) /\ s.result \in Seq(Samples)
  BY DEF MergeStates
<1>2. /\ Len(a) \in Nat /\ Len(b) \in Nat
      /\ \A i \in 1 .. Len(a) : a[i] \in Samples
      /\ \A i \in 1 .. Len(b) : b[i] \in Samples
  BY StreamType
<1>3. CASE s.i = Len(a) \/ s.j = Len(b)
  BY <1>3 DEF MergeTurn
<1>4. CASE ~ (s.i = Len(a) \/ s.j = Len(b))
  <2> DEFINE x == a[s.i + 1]
             y == b[s.j + 1]
             p == IF x.Timestamp <= y.Timestamp THEN s.i + 1 ELSE s.i
             q == IF y.Timestamp <= x.Timestamp THEN s.j + 1 ELSE s.j
             z == IF x.Timestamp <= y.Timestamp THEN x ELSE y
  <2>1. s.i + 1 \in 1 .. Len(a) /\ s.j + 1 \in 1 .. Len(b)
    BY <1>1, <1>2, <1>4
  <2>2. p \in 0 .. Len(a) /\ q \in 0 .. Len(b)
    BY <1>1, <1>2, <2>1
  <2>3. z \in Samples
    <3> HIDE DEF Samples
    <3> QED
      BY <1>2, <2>1
  <2>4. Append(s.result, z) \in Seq(Samples)
    <3> HIDE DEF Samples, z
    <3> QED
      BY <1>1, <2>3
  <2>5. MergeTurn(a, b, s) = [i |-> p, j |-> q, result |-> Append(s.result, z)]
    BY <1>4 DEF MergeTurn
  <2> HIDE DEF p, q, z
  <2> QED
    BY <2>2, <2>4, <2>5 DEF MergeStates
<1> QED
  BY <1>3, <1>4

\* One more of b, which a has no sample for, or has one.
LEMMA OnlyInMore ==
  ASSUME NEW a \in Streams, NEW b \in Streams, NEW j \in 0 .. Len(b) - 1
  PROVE  /\ (\A l \in 1 .. Len(a) : a[l].Timestamp # b[j + 1].Timestamp) =>
              OnlyIn(b, a, j + 1) = OnlyIn(b, a, j) \cup {b[j + 1]}
         /\ (\E l \in 1 .. Len(a) : a[l].Timestamp = b[j + 1].Timestamp) =>
              OnlyIn(b, a, j + 1) = OnlyIn(b, a, j)
<1> DEFINE Q(k) == \A l \in 1 .. Len(a) : a[l].Timestamp # b[k].Timestamp
<1>1. 1 .. j + 1 = (1 .. j) \cup {j + 1}
  BY StreamType
<1>2. \A n : OnlyIn(b, a, n) = {b[k] : k \in {m \in 1 .. n : Q(m)}}
  BY DEF OnlyIn
<1>3. (\A l \in 1 .. Len(a) : a[l].Timestamp # b[j + 1].Timestamp) <=> Q(j + 1)
  OBVIOUS
<1> HIDE DEF Q
<1>4. Q(j + 1) => {m \in 1 .. j + 1 : Q(m)} = {m \in 1 .. j : Q(m)} \cup {j + 1}
  BY <1>1
<1>5. ~ Q(j + 1) => {m \in 1 .. j + 1 : Q(m)} = {m \in 1 .. j : Q(m)}
  BY <1>1
<1>6. ASSUME Q(j + 1) PROVE OnlyIn(b, a, j + 1) = OnlyIn(b, a, j) \cup {b[j + 1]}
  BY <1>2, <1>4, <1>6
<1>7. ASSUME ~ Q(j + 1) PROVE OnlyIn(b, a, j + 1) = OnlyIn(b, a, j)
  BY <1>2, <1>5, <1>7
<1> QED
  BY <1>3, <1>6, <1>7

\* The turn keeps the invariant of the loop.
LEMMA MergeTurnKeeps ==
  ASSUME NEW a \in Streams, NEW b \in Streams, NEW n \in Nat, NEW s, MergeInv(a, b, n, s)
  PROVE  MergeInv(a, b, n + 1, MergeTurn(a, b, s))
<1> DEFINE u == MergeTurn(a, b, s)
           x == a[s.i + 1]
           y == b[s.j + 1]
<1>1. s \in MergeStates(a, b) /\ u \in MergeStates(a, b)
  BY MergeTurnType DEF MergeInv
<1>2. s.i \in 0 .. Len(a) /\ s.j \in 0 .. Len(b) /\ s.result \in Streams
  BY DEF MergeInv, MergeStates
<1>3. /\ Len(a) \in Nat /\ Len(b) \in Nat
      /\ \A i \in 1 .. Len(a) : a[i] \in Samples /\ a[i].Timestamp \in Int
      /\ \A i \in 1 .. Len(b) : b[i] \in Samples /\ b[i].Timestamp \in Int
      /\ \A i, j \in 1 .. Len(a) : i < j => a[i].Timestamp < a[j].Timestamp
      /\ \A i, j \in 1 .. Len(b) : i < j => b[i].Timestamp < b[j].Timestamp
  BY StreamType
<1>4. CASE s.i = Len(a) \/ s.j = Len(b)
  <2>1. u = s
    BY <1>4 DEF MergeTurn
  <2> QED
    BY <1>4, <2>1 DEF MergeInv
<1>5. CASE ~ (s.i = Len(a) \/ s.j = Len(b))
  <2>1. /\ s.i < Len(a) /\ s.j < Len(b) /\ s.i + s.j >= n
        /\ s.i + 1 \in 1 .. Len(a) /\ s.j + 1 \in 1 .. Len(b)
        /\ s.j \in 0 .. Len(b) - 1
    BY <1>2, <1>3, <1>5 DEF MergeInv
  <2>2. x \in Samples /\ y \in Samples /\ x.Timestamp \in Int /\ y.Timestamp \in Int
    BY <1>3, <2>1
  <2>3. /\ \A z \in Elems(s.result) : z.Timestamp < x.Timestamp /\ z.Timestamp < y.Timestamp
        /\ Elems(s.result) = {a[k] : k \in 1 .. s.i} \cup OnlyIn(b, a, s.j)
        /\ \A z \in Elems(s.result) : z.Timestamp \in Int
    <3>1. \A k \in 1 .. Len(s.result) : s.result[k].Timestamp \in Int
      BY <1>2, StreamType
    <3> QED
      BY <2>1, <3>1 DEF MergeInv, Elems
  <2>4. u = [i |-> IF x.Timestamp <= y.Timestamp THEN s.i + 1 ELSE s.i,
             j |-> IF y.Timestamp <= x.Timestamp THEN s.j + 1 ELSE s.j,
             result |-> Append(s.result, IF x.Timestamp <= y.Timestamp THEN x ELSE y)]
    BY <1>5 DEF MergeTurn
  <2>5. {a[k] : k \in 1 .. s.i + 1} = {a[k] : k \in 1 .. s.i} \cup {x}
    <3>1. 1 .. s.i + 1 = (1 .. s.i) \cup {s.i + 1}
      BY <1>2
    <3> QED
      BY <3>1
  <2>6. /\ s.i + 1 < Len(a) => x.Timestamp < a[s.i + 1 + 1].Timestamp
                                /\ a[s.i + 1 + 1].Timestamp \in Int
        /\ s.j + 1 < Len(b) => y.Timestamp < b[s.j + 1 + 1].Timestamp
                                /\ b[s.j + 1 + 1].Timestamp \in Int
    <3>1. s.i + 1 < Len(a) => s.i + 1 + 1 \in 1 .. Len(a) /\ s.i + 1 < s.i + 1 + 1
      BY <1>2, <1>3
    <3>2. s.j + 1 < Len(b) => s.j + 1 + 1 \in 1 .. Len(b) /\ s.j + 1 < s.j + 1 + 1
      BY <1>2, <1>3
    <3> QED
      BY <1>3, <2>1, <3>1, <3>2
  <2> HIDE DEF x, y, u
  <2>7. CASE x.Timestamp < y.Timestamp
    <3>1. u = [i |-> s.i + 1, j |-> s.j, result |-> Append(s.result, x)]
      <4>1. x.Timestamp <= y.Timestamp /\ ~ (y.Timestamp <= x.Timestamp)
        BY <2>2, <2>7
      <4> QED
        BY <2>4, <4>1
    <3>2. u.i = s.i + 1 /\ u.j = s.j /\ u.result = Append(s.result, x)
      BY <3>1
    <3>3. u.result \in Streams /\ Elems(u.result) = Elems(s.result) \cup {x}
      BY <1>2, <2>2, <2>3, <3>2, AppendStream
    <3>4. Elems(u.result) = {a[k] : k \in 1 .. u.i} \cup OnlyIn(b, a, u.j)
      BY <2>3, <2>5, <3>2, <3>3
    <3>5. u.i < Len(a) => \A z \in Elems(u.result) : z.Timestamp < a[u.i + 1].Timestamp
      BY <2>2, <2>3, <2>6, <3>2, <3>3
    <3>6. u.j < Len(b) => \A z \in Elems(u.result) : z.Timestamp < b[u.j + 1].Timestamp
      BY <2>3, <2>7, <3>2, <3>3 DEF y
    <3>7. u.i + u.j >= n + 1
      BY <1>2, <2>1, <3>2
    <3> QED
      BY <1>1, <3>3, <3>4, <3>5, <3>6, <3>7 DEF MergeInv, u
  <2>8. CASE y.Timestamp < x.Timestamp
    <3>1. u = [i |-> s.i, j |-> s.j + 1, result |-> Append(s.result, y)]
      <4>1. y.Timestamp <= x.Timestamp /\ ~ (x.Timestamp <= y.Timestamp)
        BY <2>2, <2>8
      <4> QED
        BY <2>4, <4>1
    <3>2. u.i = s.i /\ u.j = s.j + 1 /\ u.result = Append(s.result, y)
      BY <3>1
    <3>3. u.result \in Streams /\ Elems(u.result) = Elems(s.result) \cup {y}
      BY <1>2, <2>2, <2>3, <3>2, AppendStream
    <3>4. ASSUME NEW l \in 1 .. Len(a) PROVE a[l].Timestamp # y.Timestamp
      <4>1. CASE l \in 1 .. s.i
        BY <2>2, <2>3, <4>1
      <4>2. CASE l = s.i + 1
        BY <2>2, <2>8, <4>2 DEF x
      <4>3. CASE s.i + 1 < l
        BY <1>3, <2>1, <2>2, <2>8, <4>3 DEF x
      <4> QED
        BY <1>2, <4>1, <4>2, <4>3
    <3>5. OnlyIn(b, a, s.j + 1) = OnlyIn(b, a, s.j) \cup {y}
      BY <2>1, <3>4, OnlyInMore DEF y
    <3>6. Elems(u.result) = {a[k] : k \in 1 .. u.i} \cup OnlyIn(b, a, u.j)
      BY <2>3, <3>2, <3>3, <3>5
    <3>7. u.i < Len(a) => \A z \in Elems(u.result) : z.Timestamp < a[u.i + 1].Timestamp
      BY <2>3, <2>8, <3>2, <3>3 DEF x
    <3>8. u.j < Len(b) => \A z \in Elems(u.result) : z.Timestamp < b[u.j + 1].Timestamp
      BY <2>2, <2>3, <2>6, <3>2, <3>3
    <3>9. u.i + u.j >= n + 1
      BY <1>2, <2>1, <3>2
    <3> QED
      BY <1>1, <3>3, <3>6, <3>7, <3>8, <3>9 DEF MergeInv, u
  <2>9. CASE x.Timestamp = y.Timestamp
    <3>1. u = [i |-> s.i + 1, j |-> s.j + 1, result |-> Append(s.result, x)]
      <4>1. x.Timestamp <= y.Timestamp /\ y.Timestamp <= x.Timestamp
        BY <2>2, <2>9
      <4> QED
        BY <2>4, <4>1
    <3>2. u.i = s.i + 1 /\ u.j = s.j + 1 /\ u.result = Append(s.result, x)
      BY <3>1
    <3>3. u.result \in Streams /\ Elems(u.result) = Elems(s.result) \cup {x}
      BY <1>2, <2>2, <2>3, <3>2, AppendStream
    <3>4. OnlyIn(b, a, s.j + 1) = OnlyIn(b, a, s.j)
      <4>1. \E l \in 1 .. Len(a) : a[l].Timestamp = b[s.j + 1].Timestamp
        BY <2>1, <2>9 DEF x, y
      <4> QED
        BY <2>1, <4>1, OnlyInMore
    <3>5. Elems(u.result) = {a[k] : k \in 1 .. u.i} \cup OnlyIn(b, a, u.j)
      BY <2>3, <2>5, <3>2, <3>3, <3>4
    <3>6. u.i < Len(a) => \A z \in Elems(u.result) : z.Timestamp < a[u.i + 1].Timestamp
      BY <2>2, <2>3, <2>6, <3>2, <3>3
    <3>7. u.j < Len(b) => \A z \in Elems(u.result) : z.Timestamp < b[u.j + 1].Timestamp
      BY <2>2, <2>3, <2>6, <2>9, <3>2, <3>3
    <3>8. u.i + u.j >= n + 1
      BY <1>2, <2>1, <3>2
    <3> QED
      BY <1>1, <3>3, <3>5, <3>6, <3>7, <3>8 DEF MergeInv, u
  <2> QED
    BY <2>2, <2>7, <2>8, <2>9 DEF u
<1> QED
  BY <1>4, <1>5

\* The loop of mergeSamples.
LEMMA MergeLoop ==
  ASSUME NEW a \in Streams, NEW b \in Streams
  PROVE  \E f \in [0 .. Len(a) + Len(b) -> MergeStates(a, b)] :
            /\ f[0] = [i |-> 0, j |-> 0, result |-> <<>>]
            /\ \A n \in 1 .. Len(a) + Len(b) : f[n] = MergeTurn(a, b, f[n - 1])
            /\ MergeSamples(a, b) = Rest(a, b, f[Len(a) + Len(b)])
<1> DEFINE N == Len(a) + Len(b)
           X == MergeStates(a, b)
           e == [i |-> 0, j |-> 0, result |-> <<>>]
           T(n, s) == MergeTurn(a, b, s)
           F(f) == [n \in 0 .. N |-> IF n = 0 THEN e ELSE T(n, f[n - 1])]
           turn == [n \in 1 .. N |-> [s \in X |-> T(n, s)]]
           g == CHOOSE h : h = F(h)
<1>1. N \in Nat /\ e \in X
  <2>1. Len(a) \in Nat /\ Len(b) \in Nat
    BY StreamType
  <2>2. <<>> \in Seq(Samples)
    OBVIOUS
  <2> HIDE DEF Samples
  <2> QED
    BY <2>1, <2>2 DEF MergeStates
<1>2. \A n \in 1 .. N : \A s \in X : T(n, s) \in X
  BY MergeTurnType
<1>3. MergeSamples(a, b) = Rest(a, b, g[N])
  BY DEF MergeSamples, Rest
<1> HIDE DEF N, X, e, T
<1>4. turn \in [1 .. N -> [X -> X]]
  BY <1>2
<1>5. PICK f : Computes(f, N, X, e, turn)
  <2> HIDE DEF turn, g, F
  <2> QED
    BY <1>1, <1>4, Iterate
<1>6. ASSUME NEW n \in 1 .. N PROVE f[n] = T(n, f[n - 1])
  <2>1. n - 1 \in 0 .. N
    BY <1>1
  <2>2. f[n - 1] \in X
    BY <1>5, <2>1 DEF Computes
  <2> QED
    BY <1>5, <2>2 DEF Computes
<1>7. f = F(f)
  <2> HIDE DEF turn, g
  <2> QED
    BY <1>1, <1>5, <1>6 DEF Computes
<1>8. g = F(g)
  <2> HIDE DEF F
  <2> QED
    BY <1>7
<1> HIDE DEF g, turn
<1>9. f[N] = g[N]
  <2>1. g[0] = e
    BY <1>1, <1>8
  <2>2. ASSUME NEW n \in 1 .. N PROVE g[n] = T(n, g[n - 1])
    BY <1>1, <1>8
  <2>3. f[0] = g[0]
    BY <1>5, <2>1 DEF Computes
  <2>4. \A n \in 1 .. N : f[n - 1] = g[n - 1] => f[n] = g[n]
    BY <1>6, <2>2
  <2> HIDE DEF F
  <2> QED
    BY <1>1, <2>3, <2>4, SameLoop
<1>10. f \in [0 .. N -> X] /\ f[0] = e
  BY <1>5 DEF Computes
<1> HIDE DEF F
<1> QED
  BY <1>3, <1>6, <1>9, <1>10 DEF N, X, e, T


\* mergeSamples: a stream of the samples of a, and of those of b for whose
\* time a has none.
LEMMA MergeSamplesIs ==
  ASSUME NEW a \in Streams, NEW b \in Streams
  PROVE  /\ MergeSamples(a, b) \in Streams
         /\ Elems(MergeSamples(a, b)) =
              Elems(a) \cup {y \in Elems(b) : \A x \in Elems(a) : x.Timestamp # y.Timestamp}
<1> DEFINE N == Len(a) + Len(b)
<1>0. /\ Len(a) \in Nat /\ Len(b) \in Nat
      /\ \A k \in 1 .. Len(a) : a[k].Timestamp \in Int
      /\ \A k \in 1 .. Len(b) : b[k].Timestamp \in Int
      /\ \A k, l \in 1 .. Len(a) : k < l => a[k].Timestamp < a[l].Timestamp
      /\ \A k, l \in 1 .. Len(b) : k < l => b[k].Timestamp < b[l].Timestamp
  BY StreamType
<1>1. PICK f \in [0 .. N -> MergeStates(a, b)] :
         /\ f[0] = [i |-> 0, j |-> 0, result |-> <<>>]
         /\ \A n \in 1 .. N : f[n] = MergeTurn(a, b, f[n - 1])
         /\ MergeSamples(a, b) = Rest(a, b, f[N])
  BY MergeLoop
<1> DEFINE G == {n \in 0 .. N : MergeInv(a, b, n, f[n])}
<1>2. N \in G
  <2>1. 0 \in G
    <3>1. f[0].i = 0 /\ f[0].j = 0 /\ f[0].result = <<>> /\ 0 \in 0 .. N
      BY <1>0, <1>1
    <3>2. f[0] \in MergeStates(a, b)
      BY <1>0, <1>1
    <3>3. Elems(<<>>) = {}
      BY DEF Elems
    <3>4. <<>> \in Streams
      BY DEF Streams, Increasing
    <3>5. {a[k] : k \in 1 .. 0} = {} /\ OnlyIn(b, a, 0) = {}
      BY DEF OnlyIn
    <3>6. MergeInv(a, b, 0, f[0])
      BY <3>1, <3>2, <3>3, <3>4, <3>5 DEF MergeInv
    <3> QED
      BY <3>1, <3>6
  <2>2. ASSUME NEW n \in 1 .. N, n - 1 \in G PROVE n \in G
    <3>1. n - 1 \in Nat /\ n - 1 + 1 = n /\ n \in 0 .. N
      BY <1>0
    <3>2. MergeInv(a, b, n - 1, f[n - 1])
      BY <2>2
    <3>3. MergeInv(a, b, n - 1 + 1, MergeTurn(a, b, f[n - 1]))
      BY <3>1, <3>2, MergeTurnKeeps
    <3>4. MergeInv(a, b, n, f[n])
      BY <1>1, <3>1, <3>3
    <3> QED
      BY <3>1, <3>4
  <2>3. N \in Nat
    BY <1>0
  <2> HIDE DEF G, N
  <2> QED
    BY <2>1, <2>2, <2>3, UpTo
<1> DEFINE s == f[N]
<1>3. MergeInv(a, b, N, s)
  BY <1>2
<1>4. MergeSamples(a, b) = Rest(a, b, s)
  BY <1>1
<1> HIDE DEF s
<1>5. /\ s.i \in 0 .. Len(a) /\ s.j \in 0 .. Len(b) /\ s.result \in Streams
      /\ Elems(s.result) = {a[k] : k \in 1 .. s.i} \cup OnlyIn(b, a, s.j)
      /\ s.i < Len(a) => \A x \in Elems(s.result) : x.Timestamp < a[s.i + 1].Timestamp
      /\ s.j < Len(b) => \A x \in Elems(s.result) : x.Timestamp < b[s.j + 1].Timestamp
  BY <1>3 DEF MergeInv, MergeStates
<1>6. s.i = Len(a) \/ s.j = Len(b)
  BY <1>0, <1>3, <1>5 DEF MergeInv
<1> DEFINE ra == SubSeq(a, s.i + 1, Len(a))
           rb == SubSeq(b, s.j + 1, Len(b))
<1>7. /\ ra \in Streams /\ Elems(ra) = {a[k] : k \in s.i + 1 .. Len(a)}
      /\ rb \in Streams /\ Elems(rb) = {b[k] : k \in s.j + 1 .. Len(b)}
  <2>1. Len(a) \in 0 .. Len(a) /\ Len(b) \in 0 .. Len(b)
    BY <1>0
  <2> QED
    BY <1>5, <2>1, SubStream
<1>8. \A x \in Elems(s.result) : x.Timestamp \in Int
  <2>1. \A k \in 1 .. Len(s.result) : s.result[k].Timestamp \in Int
    BY <1>5, StreamType
  <2> QED
    BY <2>1 DEF Elems
<1>9. MergeSamples(a, b) = (s.result \o ra) \o rb
  BY <1>4 DEF Rest
<1>10. \A x \in Elems(s.result), y \in Elems(ra) : x.Timestamp < y.Timestamp
  <2> SUFFICES ASSUME NEW x \in Elems(s.result), NEW k \in s.i + 1 .. Len(a)
               PROVE  x.Timestamp < a[k].Timestamp
    BY <1>7
  <2>1. s.i < Len(a) /\ s.i + 1 \in 1 .. Len(a) /\ k \in 1 .. Len(a) /\ (s.i + 1 < k \/ s.i + 1 = k)
    BY <1>0, <1>5
  <2>2. x.Timestamp < a[s.i + 1].Timestamp
    BY <1>5, <2>1
  <2> QED
    BY <1>0, <1>8, <2>1, <2>2
<1>11. \A x \in Elems(s.result), y \in Elems(rb) : x.Timestamp < y.Timestamp
  <2> SUFFICES ASSUME NEW x \in Elems(s.result), NEW k \in s.j + 1 .. Len(b)
               PROVE  x.Timestamp < b[k].Timestamp
    BY <1>7
  <2>1. s.j < Len(b) /\ s.j + 1 \in 1 .. Len(b) /\ k \in 1 .. Len(b) /\ (s.j + 1 < k \/ s.j + 1 = k)
    BY <1>0, <1>5
  <2>2. x.Timestamp < b[s.j + 1].Timestamp
    BY <1>5, <2>1
  <2> QED
    BY <1>0, <1>8, <2>1, <2>2
<1>12. Elems(ra) = {} \/ Elems(rb) = {}
  <2>1. \A k \in Nat : k + 1 .. k = {}
    OBVIOUS
  <2> QED
    BY <1>0, <1>6, <1>7, <2>1
<1> HIDE DEF ra, rb
<1> DEFINE c == s.result \o ra
<1>13. c \in Streams /\ Elems(c) = Elems(s.result) \cup Elems(ra)
  BY <1>5, <1>7, <1>10, CatStreams
<1>22. MergeSamples(a, b) = c \o rb
  BY <1>9
<1> HIDE DEF c
<1>14. \A x \in Elems(c), y \in Elems(rb) : x.Timestamp < y.Timestamp
  BY <1>11, <1>12, <1>13
<1>15. /\ MergeSamples(a, b) \in Streams
       /\ Elems(MergeSamples(a, b)) = Elems(s.result) \cup Elems(ra) \cup Elems(rb)
  <2>1. c \o rb \in Streams /\ Elems(c \o rb) = Elems(c) \cup Elems(rb)
    <3>1. c \in Streams /\ rb \in Streams
      BY <1>7, <1>13
    <3> QED
      BY <1>14, <3>1, CatStreams
  <2> QED
    BY <1>13, <1>22, <2>1
<1>16. Elems(a) = {a[k] : k \in 1 .. s.i} \cup Elems(ra)
  <2>1. 1 .. Len(a) = (1 .. s.i) \cup (s.i + 1 .. Len(a))
    BY <1>0, <1>5
  <2> QED
    BY <1>7, <2>1 DEF Elems
<1> DEFINE new == {y \in Elems(b) : \A x \in Elems(a) : x.Timestamp # y.Timestamp}
           Free(k) == \A l \in 1 .. Len(a) : a[l].Timestamp # b[k].Timestamp
<1>17. new = {b[k] : k \in {m \in 1 .. Len(b) : Free(m)}}
  BY DEF Elems
<1>18. OnlyIn(b, a, s.j) = {b[k] : k \in {m \in 1 .. s.j : Free(m)}}
  BY DEF OnlyIn
<1>19. ASSUME NEW k \in s.j + 1 .. Len(b) PROVE k \in 1 .. Len(b) /\ Free(k)
  <2>1. k \in 1 .. Len(b) /\ s.j < Len(b) /\ b[k] \in Elems(rb)
    BY <1>0, <1>5, <1>7
  <2>2. s.i = Len(a)
    BY <1>0, <1>5, <1>6, <2>1
  <2>3. \A l \in 1 .. Len(a) : a[l] \in Elems(s.result)
    BY <1>5, <2>2
  <2>4. \A l \in 1 .. Len(a) : a[l].Timestamp < b[k].Timestamp
    BY <1>11, <2>1, <2>3
  <2> QED
    BY <1>0, <2>1, <2>4
<1> HIDE DEF Free, new
<1>20. {m \in 1 .. Len(b) : Free(m)} = {m \in 1 .. s.j : Free(m)} \cup (s.j + 1 .. Len(b))
  <2>1. 1 .. Len(b) = (1 .. s.j) \cup (s.j + 1 .. Len(b))
    BY <1>0, <1>5
  <2> QED
    BY <1>19, <2>1
<1>21. new = OnlyIn(b, a, s.j) \cup Elems(rb)
  BY <1>7, <1>17, <1>18, <1>20
<1> QED
  BY <1>5, <1>15, <1>16, <1>21 DEF new

-----------------------------------------------------------------------------
(***************************************************************************)
(* The mergeIterator.                                                      *)
(***************************************************************************)
\* The times of samples are between the ends of time.
LEMMA SampleType ==
  ASSUME NEW s \in Streams, NEW x \in Elems(s)
  PROVE  /\ x \in Samples /\ x.Timestamp \in Int
         /\ Earliest < x.Timestamp /\ x.Timestamp < Latest /\ x # ZeroSamplePair
<1>1. x \in Samples
  BY StreamType DEF Elems
<1>2. x.Timestamp \in (Earliest + 1) .. (Latest - 1)
  BY <1>1 DEF Samples
<1>3. x.Timestamp \in Int /\ Earliest < x.Timestamp /\ x.Timestamp < Latest
  BY <1>2, TimeAssumption
<1>4. ZeroSamplePair.Timestamp = Earliest
  BY DEF ZeroSamplePair
<1> QED
  BY <1>1, <1>3, <1>4, TimeAssumption

\* sampleStreamIterator.RangeValues
LEMMA StreamRangeIs ==
  ASSUME NEW s \in Streams, NEW from \in Int, NEW through \in Int, NEW in, from <= through,
         in.OldestInclusive = from, in.NewestInclusive = through
  PROVE  /\ StreamRangeValues(s, in) \in Streams
         /\ Elems(StreamRangeValues(s, in)) =
              {x \in Elems(s) : from <= x.Timestamp /\ x.Timestamp <= through}
<1> DEFINE start == Search(s, from)
           end   == Search(s, through + 1)
           u     == SubSeq(s, start + 1, end)
           Within(x) == from <= x.Timestamp /\ x.Timestamp <= through
<1>0. Len(s) \in Nat /\ \A k \in 1 .. Len(s) : s[k].Timestamp \in Int
  BY StreamType
<1>1. /\ start \in 0 .. Len(s) /\ end \in 0 .. Len(s)
      /\ \A k \in 1 .. Len(s) : k <= start <=> s[k].Timestamp < from
      /\ \A k \in 1 .. Len(s) : k <= end <=> s[k].Timestamp < through + 1
  <2>1. \A b \in Int : /\ Search(s, b) \in 0 .. Len(s)
                       /\ \A k \in 1 .. Len(s) : k <= Search(s, b) <=> s[k].Timestamp < b
    BY SearchIs
  <2>2. through + 1 \in Int
    OBVIOUS
  <2> QED
    BY <2>1, <2>2
<1>2. StreamRangeValues(s, in) = IF start = Len(s) THEN <<>> ELSE u
  BY DEF StreamRangeValues
<1> HIDE DEF start, end
<1>3. u \in Streams /\ Elems(u) = {s[k] : k \in start + 1 .. end}
  BY <1>1, SubStream
<1>4. \A k \in 1 .. Len(s) : k \in start + 1 .. end <=> Within(s[k])
  BY <1>0, <1>1
<1>5. \A k \in start + 1 .. end : k \in 1 .. Len(s)
  BY <1>0, <1>1
<1> HIDE DEF u, Within
<1>6. {s[k] : k \in start + 1 .. end} = {x \in Elems(s) : Within(x)}
  BY <1>4, <1>5 DEF Elems
<1>7. CASE start = Len(s)
  <2>1. start + 1 .. end = {}
    BY <1>0, <1>1, <1>7
  <2>2. Elems(<<>>) = {} /\ <<>> \in Streams
    BY DEF Elems, Streams, Increasing
  <2> QED
    BY <1>2, <1>6, <1>7, <2>1, <2>2 DEF Within
<1>8. CASE start # Len(s)
  BY <1>2, <1>3, <1>6, <1>8 DEF Within
<1> QED
  BY <1>7, <1>8

\* ... and the part of it before the cutoff.
LEMMA OldRangeIs ==
  ASSUME NEW s \in Streams, NEW from \in Int, NEW through \in Int, NEW in, from <= through,
         in.OldestInclusive = from, in.NewestInclusive = through, NEW cutoff \in Int
  PROVE  /\ OldRangeValues(s, in, cutoff) \in Streams
         /\ Elems(OldRangeValues(s, in, cutoff)) =
              {x \in Elems(s) : /\ from <= x.Timestamp /\ x.Timestamp <= through
                                /\ x.Timestamp < cutoff}
<1> DEFINE vs == StreamRangeValues(s, in)
           n  == Search(vs, cutoff)
           u  == SubSeq(vs, 1, n)
<1>1. /\ vs \in Streams
      /\ Elems(vs) = {x \in Elems(s) : from <= x.Timestamp /\ x.Timestamp <= through}
  BY StreamRangeIs
<1>2. OldRangeValues(s, in, cutoff) = u
  BY DEF OldRangeValues
<1> HIDE DEF vs
<1>3. /\ n \in 0 .. Len(vs)
      /\ \A k \in 1 .. Len(vs) : k <= n <=> vs[k].Timestamp < cutoff
  BY <1>1, SearchIs
<1>4. Len(vs) \in Nat
  BY <1>1, StreamType
<1> HIDE DEF n
<1>5. u \in Streams /\ Elems(u) = {vs[k] : k \in 1 .. n}
  <2>1. 0 \in 0 .. Len(vs) /\ 0 + 1 = 1
    BY <1>4
  <2>2. SubSeq(vs, 0 + 1, n) \in Streams /\ Elems(SubSeq(vs, 0 + 1, n)) = {vs[k] : k \in 0 + 1 .. n}
    BY <1>1, <1>3, <2>1, SubStream
  <2> QED
    BY <2>1, <2>2
<1>6. \A k \in 1 .. Len(vs) : k \in 1 .. n <=> vs[k].Timestamp < cutoff
  BY <1>3, <1>4
<1>7. \A k \in 1 .. n : k \in 1 .. Len(vs)
  BY <1>3, <1>4
<1>8. Elems(u) = {x \in Elems(vs) : x.Timestamp < cutoff}
  BY <1>5, <1>6, <1>7 DEF Elems
<1> HIDE DEF u
<1> QED
  BY <1>1, <1>2, <1>5, <1>8

\* sampleStreamIterator.ValueAtOrBeforeTime
LEMMA StreamValueIs ==
  ASSUME NEW s \in Streams, NEW t \in Int
  PROVE  LET v == StreamValueAtOrBeforeTime(s, t) IN
         /\ v = ZeroSamplePair \/ (v \in Elems(s) /\ v.Timestamp <= t)
         /\ \A x \in Elems(s) : x.Timestamp <= t => v # ZeroSamplePair /\ x.Timestamp <= v.Timestamp
<1> DEFINE i == Search(s, t + 1)
           v == StreamValueAtOrBeforeTime(s, t)
<1>0. /\ Len(s) \in Nat /\ \A k \in 1 .. Len(s) : s[k].Timestamp \in Int
      /\ \A k, l \in 1 .. Len(s) : k < l => s[k].Timestamp < s[l].Timestamp
  BY StreamType
<1>1. /\ i \in 0 .. Len(s)
      /\ \A k \in 1 .. Len(s) : k <= i <=> s[k].Timestamp < t + 1
  <2>1. \A b \in Int : /\ Search(s, b) \in 0 .. Len(s)
                       /\ \A k \in 1 .. Len(s) : k <= Search(s, b) <=> s[k].Timestamp < b
    BY SearchIs
  <2>2. t + 1 \in Int
    OBVIOUS
  <2> QED
    BY <2>1, <2>2
<1>2. v = IF i = 0 THEN ZeroSamplePair ELSE s[i]
  BY DEF StreamValueAtOrBeforeTime
<1> HIDE DEF i, v
<1>3. CASE i = 0
  <2>1. ASSUME NEW k \in 1 .. Len(s) PROVE ~ (s[k].Timestamp <= t)
    BY <1>0, <1>1, <1>3
  <2> QED
    BY <1>2, <1>3, <2>1 DEF Elems, v
<1>4. CASE i # 0
  <2>1. i \in 1 .. Len(s) /\ s[i].Timestamp <= t
    BY <1>0, <1>1, <1>4
  <2>2. v = s[i] /\ v \in Elems(s)
    BY <1>2, <1>4, <2>1 DEF Elems
  <2>3. v # ZeroSamplePair
    BY <2>2, SampleType
  <2>4. ASSUME NEW k \in 1 .. Len(s), s[k].Timestamp <= t PROVE s[k].Timestamp <= s[i].Timestamp
    <3>1. k <= i
      BY <1>0, <1>1, <2>4
    <3>2. k < i \/ k = i
      BY <1>0, <2>1, <3>1
    <3> QED
      BY <1>0, <2>1, <3>2
  <2> QED
    BY <2>1, <2>2, <2>3, <2>4 DEF Elems, v
<1> QED
  BY <1>3, <1>4

\* The loop of mergeIterator.RangeValues.
LEMMA RangeLoop ==
  ASSUME NEW mit, mit.local \in Streams, mit.remote \in Seq(Streams),
         NEW from \in Int, NEW through \in Int, NEW in, from <= through,
         in.OldestInclusive = from, in.NewestInclusive = through,
         NEW cutoff \in Int,
         cutoff = IF StreamRangeValues(mit.local, in) = <<>> THEN Latest
                  ELSE StreamRangeValues(mit.local, in)[1].Timestamp
  PROVE  \E f \in [0 .. Len(mit.remote) -> Streams] :
            /\ f[0] = StreamRangeValues(mit.local, in)
            /\ \A n \in 1 .. Len(mit.remote) : f[n] = MergeSamples(f[n - 1], OldRangeValues(mit.remote[n], in, cutoff))
            /\ RangeValues(mit, in) = f[Len(mit.remote)]
<1> DEFINE N == Len(mit.remote)
           X == Streams
           e == StreamRangeValues(mit.local, in)
           T(n, s) == MergeSamples(s, OldRangeValues(mit.remote[n], in, cutoff))
           F(f) == [n \in 0 .. N |-> IF n = 0 THEN e ELSE T(n, f[n - 1])]
           turn == [n \in 1 .. N |-> [s \in X |-> T(n, s)]]
           g == CHOOSE h : h = F(h)
<1>1. N \in Nat /\ e \in X
  <2>1. N \in Nat
    <3> HIDE DEF Streams
    <3> QED
      OBVIOUS
  <2>2. e \in X
    BY StreamRangeIs
  <2> QED
    BY <2>1, <2>2
<1>2. \A n \in 1 .. N : \A s \in X : T(n, s) \in X
  <2>1. \A n \in 1 .. N : mit.remote[n] \in Streams
    <3> HIDE DEF Streams
    <3> QED
      OBVIOUS
  <2> QED
    BY <2>1, OldRangeIs, MergeSamplesIs
<1>3. RangeValues(mit, in) = g[N]
  BY DEF RangeValues
<1> HIDE DEF N, X, e, T
<1>4. turn \in [1 .. N -> [X -> X]]
  BY <1>2
<1>5. PICK f : Computes(f, N, X, e, turn)
  <2> HIDE DEF turn, g, F
  <2> QED
    BY <1>1, <1>4, Iterate
<1>6. ASSUME NEW n \in 1 .. N PROVE f[n] = T(n, f[n - 1])
  <2>1. n - 1 \in 0 .. N
    BY <1>1
  <2>2. f[n - 1] \in X
    BY <1>5, <2>1 DEF Computes
  <2> QED
    BY <1>5, <2>2 DEF Computes
<1>7. f = F(f)
  <2> HIDE DEF turn, g
  <2> QED
    BY <1>1, <1>5, <1>6 DEF Computes
<1>8. g = F(g)
  <2> HIDE DEF F
  <2> QED
    BY <1>7
<1> HIDE DEF g, turn
<1>9. f[N] = g[N]
  <2>1. g[0] = e
    BY <1>1, <1>8
  <2>2. ASSUME NEW n \in 1 .. N PROVE g[n] = T(n, g[n - 1])
    BY <1>1, <1>8
  <2>3. f[0] = g[0]
    BY <1>5, <2>1 DEF Computes
  <2>4. \A n \in 1 .. N : f[n - 1] = g[n - 1] => f[n] = g[n]
    BY <1>6, <2>2
  <2> HIDE DEF F
  <2> QED
    BY <1>1, <2>3, <2>4, SameLoop
<1>10. f \in [0 .. N -> X] /\ f[0] = e
  BY <1>5 DEF Computes
<1> HIDE DEF F
<1> QED
  BY <1>3, <1>6, <1>9, <1>10 DEF N, X, e, T

\* The loop of mergeIterator.ValueAtOrBeforeTime.
LEMMA ValueLoop ==
  ASSUME NEW mit, mit.local \in Streams, mit.remote \in Seq(Streams), NEW t \in Int,
         StreamValueAtOrBeforeTime(mit.local, t) = ZeroSamplePair
  PROVE  \E f \in [0 .. Len(mit.remote) -> Samples \cup {ZeroSamplePair}] :
            /\ f[0] = ZeroSamplePair
            /\ \A n \in 1 .. Len(mit.remote) : f[n] = Newer(f[n - 1], StreamValueAtOrBeforeTime(mit.remote[n], t))
            /\ ValueAtOrBeforeTime(mit, t) = f[Len(mit.remote)]
<1> DEFINE N == Len(mit.remote)
           X == Samples \cup {ZeroSamplePair}
           e == ZeroSamplePair
           T(n, s) == Newer(s, StreamValueAtOrBeforeTime(mit.remote[n], t))
           F(f) == [n \in 0 .. N |-> IF n = 0 THEN e ELSE T(n, f[n - 1])]
           turn == [n \in 1 .. N |-> [s \in X |-> T(n, s)]]
           g == CHOOSE h : h = F(h)
<1>1. N \in Nat /\ e \in X
  OBVIOUS
<1>2. \A n \in 1 .. N : \A s \in X : T(n, s) \in X
  <2>1. ASSUME NEW n \in 1 .. N PROVE StreamValueAtOrBeforeTime(mit.remote[n], t) \in X
    <3>1. mit.remote[n] \in Streams
      <4> HIDE DEF Streams
      <4> QED
        OBVIOUS
    <3> QED
      BY <3>1, StreamValueIs, SampleType
  <2> QED
    BY <2>1 DEF Newer
<1>3. ValueAtOrBeforeTime(mit, t) = g[N]
  BY DEF ValueAtOrBeforeTime
<1> HIDE DEF N, X, e, T
<1>4. turn \in [1 .. N -> [X -> X]]
  BY <1>2
<1>5. PICK f : Computes(f, N, X, e, turn)
  <2> HIDE DEF turn, g, F
  <2> QED
    BY <1>1, <1>4, Iterate
<1>6. ASSUME NEW n \in 1 .. N PROVE f[n] = T(n, f[n - 1])
  <2>1. n - 1 \in 0 .. N
    BY <1>1
  <2>2. f[n - 1] \in X
    BY <1>5, <2>1 DEF Computes
  <2> QED
    BY <1>5, <2>2 DEF Computes
<1>7. f = F(f)
  <2> HIDE DEF turn, g
  <2> QED
    BY <1>1, <1>5, <1>6 DEF Computes
<1>8. g = F(g)
  <2> HIDE DEF F
  <2> QED
    BY <1>7
<1> HIDE DEF g, turn
<1>9. f[N] = g[N]
  <2>1. g[0] = e
    BY <1>1, <1>8
  <2>2. ASSUME NEW n \in 1 .. N PROVE g[n] = T(n, g[n - 1])
    BY <1>1, <1>8
  <2>3. f[0] = g[0]
    BY <1>5, <2>1 DEF Computes
  <2>4. \A n \in 1 .. N : f[n - 1] = g[n - 1] => f[n] = g[n]
    BY <1>6, <2>2
  <2> HIDE DEF F
  <2> QED
    BY <1>1, <2>3, <2>4, SameLoop
<1>10. f \in [0 .. N -> X] /\ f[0] = e
  BY <1>5 DEF Computes
<1> HIDE DEF F
<1> QED
  BY <1>3, <1>6, <1>9, <1>10 DEF N, X, e, T


\* mergeIterator.RangeValues: the local samples of the interval, and those of
\* the remotes that are older than all of them and the first for their time.
LEMMA RangeValuesIs ==
  ASSUME NEW mit, mit.local \in Streams, mit.remote \in Seq(Streams),
         NEW from \in Int, NEW through \in Int, NEW in, from <= through,
         in.OldestInclusive = from, in.NewestInclusive = through
  PROVE  LET Within(s) == from <= s.Timestamp /\ s.Timestamp <= through
             own       == {s \in Elems(mit.local) : Within(s)}
         IN /\ RangeValues(mit, in) \in Streams
            /\ Elems(RangeValues(mit, in)) =
                 own \cup {s \in FirstSamples(mit.remote, Len(mit.remote)) :
                             Within(s) /\ \A l \in own : s.Timestamp < l.Timestamp}
<1> DEFINE Within(s) == from <= s.Timestamp /\ s.Timestamp <= through
           own    == {s \in Elems(mit.local) : Within(s)}
           Old(s) == Within(s) /\ \A l \in own : s.Timestamp < l.Timestamp
           remote == mit.remote
           N      == Len(remote)
           vs     == StreamRangeValues(mit.local, in)
           cutoff == IF vs = <<>> THEN Latest ELSE vs[1].Timestamp
           E(n)   == own \cup {s \in FirstSamples(remote, n) : Old(s)}
<1>1. N \in Nat /\ \A n \in 1 .. N : remote[n] \in Streams
  OBVIOUS
<1>2. vs \in Streams /\ Elems(vs) = own
  BY StreamRangeIs
<1>3. cutoff \in Int /\ \A s : s.Timestamp \in Int /\ s.Timestamp < Latest =>
        (s.Timestamp < cutoff <=> \A l \in own : s.Timestamp < l.Timestamp)
  <2> HIDE DEF vs, own
  <2>0. /\ Len(vs) \in Nat /\ \A k \in 1 .. Len(vs) : vs[k].Timestamp \in Int
        /\ \A k, l \in 1 .. Len(vs) : k < l => vs[k].Timestamp < vs[l].Timestamp
        /\ vs \in Seq(Samples)
    BY <1>2, StreamType
  <2>1. CASE vs = <<>>
    <3>1. own = {}
      BY <1>2, <2>1 DEF Elems
    <3> QED
      BY <2>1, <3>1, TimeAssumption
  <2>2. CASE vs # <<>>
    <3>1. 1 \in 1 .. Len(vs) /\ \A k \in 1 .. Len(vs) : 1 < k \/ k = 1
      <4>1. Len(vs) # 0
        <5> HIDE DEF Samples
        <5> QED
          BY <2>0, <2>2
      <4> QED
        BY <2>0, <4>1
    <3>2. vs[1] \in own /\ vs[1].Timestamp \in Int
      BY <1>2, <2>0, <3>1 DEF Elems
    <3>3. \A k \in 1 .. Len(vs) : vs[1].Timestamp <= vs[k].Timestamp
      BY <2>0, <3>1
    <3>4. \A l \in own : l.Timestamp \in Int /\ vs[1].Timestamp <= l.Timestamp
      BY <1>2, <2>0, <3>3 DEF Elems
    <3>5. cutoff = vs[1].Timestamp
      BY <2>2
    <3> HIDE DEF cutoff
    <3> QED
      BY <3>2, <3>4, <3>5
  <2> QED
    BY <2>1, <2>2
<1>4. PICK f \in [0 .. N -> Streams] :
         /\ f[0] = vs
         /\ \A n \in 1 .. N : f[n] = MergeSamples(f[n - 1], OldRangeValues(remote[n], in, cutoff))
         /\ RangeValues(mit, in) = f[N]
  BY <1>3, RangeLoop
<1> HIDE DEF cutoff, vs, N, own, remote
<1>5. ASSUME NEW n \in 1 .. N
      PROVE  /\ OldRangeValues(remote[n], in, cutoff) \in Streams
             /\ Elems(OldRangeValues(remote[n], in, cutoff)) = {x \in Elems(remote[n]) : Old(x)}
  <2>1. /\ OldRangeValues(remote[n], in, cutoff) \in Streams
        /\ Elems(OldRangeValues(remote[n], in, cutoff)) =
              {x \in Elems(remote[n]) : /\ from <= x.Timestamp /\ x.Timestamp <= through
                                        /\ x.Timestamp < cutoff}
    <3>1. remote[n] \in Streams /\ cutoff \in Int
      BY <1>1, <1>3
    <3>3. \A s \in Streams, c \in Int :
            /\ OldRangeValues(s, in, c) \in Streams
            /\ Elems(OldRangeValues(s, in, c)) =
                 {x \in Elems(s) : /\ from <= x.Timestamp /\ x.Timestamp <= through
                                   /\ x.Timestamp < c}
      BY OldRangeIs
    <3> QED
      BY <3>1, <3>3
  <2>2. \A x \in Elems(remote[n]) : x.Timestamp \in Int /\ x.Timestamp < Latest
    BY <1>1, SampleType
  <2>3. \A x \in Elems(remote[n]) : x.Timestamp < cutoff <=> \A l \in own : x.Timestamp < l.Timestamp
    BY <1>3, <2>2
  <2> QED
    BY <2>1, <2>3
<1> DEFINE New(i) == {s \in Elems(remote[i]) :
                        \A j \in 1 .. i - 1 : \A x \in Elems(remote[j]) : x.Timestamp # s.Timestamp}
<1>6. \A n : FirstSamples(remote, n) = UNION {New(i) : i \in 1 .. n}
  BY DEF FirstSamples
<1> DEFINE G == {n \in 0 .. N : Elems(f[n]) = E(n)}
<1>7. 0 \in G
  <2>1. FirstSamples(remote, 0) = {}
    BY <1>6
  <2> QED
    BY <1>1, <1>2, <1>4, <2>1
<1>8. ASSUME NEW n \in 1 .. N, n - 1 \in G PROVE n \in G
  <2> DEFINE cand == {x \in Elems(remote[n]) : Old(x)}
  <2>1. n \in 0 .. N /\ n - 1 \in 0 .. N
    BY <1>1
  <2>2. f[n - 1] \in Streams /\ Elems(f[n - 1]) = E(n - 1)
    BY <1>4, <1>8, <2>1
  <2>3. Elems(f[n]) = E(n - 1) \cup {y \in cand : \A x \in E(n - 1) : x.Timestamp # y.Timestamp}
    <3> HIDE DEF E, Old
    <3> QED
      BY <1>4, <1>5, <2>2, MergeSamplesIs
  <2>4. FirstSamples(remote, n) = FirstSamples(remote, n - 1) \cup New(n)
    <3>1. 1 .. n = (1 .. n - 1) \cup {n}
      BY <1>1
    <3> HIDE DEF New
    <3> QED
      BY <1>6, <3>1
  <2>5. ASSUME NEW y \in cand, NEW x \in E(n - 1), x.Timestamp = y.Timestamp
        PROVE  y \notin New(n)
    <3>1. x \notin own
      <4>1. y.Timestamp \in Int
        BY <1>1, SampleType
      <4> QED
        BY <2>5, <4>1
    <3>2. x \in FirstSamples(remote, n - 1)
      BY <3>1
    <3>3. PICK j \in 1 .. n - 1 : x \in New(j)
      <4> HIDE DEF New
      <4> QED
        BY <1>6, <3>2
    <3>4. x \in Elems(remote[j])
      BY <3>3
    <3> QED
      BY <2>5, <3>4
  <2>6. ASSUME NEW y \in cand, y \notin New(n)
        PROVE  \E x \in E(n - 1) : x.Timestamp = y.Timestamp
    <3> DEFINE Have == {j \in 1 .. n - 1 : \E x \in Elems(remote[j]) : x.Timestamp = y.Timestamp}
    <3>1. Have \in SUBSET Nat /\ Have # {}
      BY <2>6
    <3>2. PICK j \in Have : \A k \in Have : j <= k
      <4> HIDE DEF Have
      <4> QED
        BY <3>1, Least
    <3>3. PICK x \in Elems(remote[j]) : x.Timestamp = y.Timestamp
      BY <3>2
    <3>4. j \in 1 .. n - 1
      BY <3>2
    <3>5. ASSUME NEW k \in 1 .. j - 1, NEW z \in Elems(remote[k]) PROVE z.Timestamp # x.Timestamp
      <4>1. k \in 1 .. n - 1 /\ ~ (j <= k)
        BY <1>1, <3>4
      <4>2. k \notin Have
        BY <3>2, <4>1
      <4> QED
        BY <3>3, <4>1, <4>2
    <3>6. x \in New(j)
      BY <3>5
    <3>7. x \in FirstSamples(remote, n - 1)
      <4> HIDE DEF New
      <4> QED
        BY <1>6, <3>4, <3>6
    <3>8. Old(x)
      BY <3>3
    <3> QED
      BY <3>3, <3>7, <3>8
  <2>7. New(n) \subseteq Elems(remote[n])
    OBVIOUS
  <2> HIDE DEF New, Old
  <2>8. {y \in cand : \A x \in E(n - 1) : x.Timestamp # y.Timestamp} = {y \in New(n) : Old(y)}
    <3> HIDE DEF E
    <3> QED
      BY <2>5, <2>6, <2>7
  <2>9. E(n) = E(n - 1) \cup {y \in New(n) : Old(y)}
    BY <2>4
  <2> HIDE DEF E, cand
  <2> QED
    BY <2>1, <2>3, <2>8, <2>9
<1>9. N \in G
  <2> HIDE DEF G
  <2> QED
    BY <1>1, <1>7, <1>8, UpTo
<1>10. f[N] \in Streams
  BY <1>1, <1>4
<1>11. Elems(f[N]) = E(N)
  BY <1>9
<1> HIDE DEF E
<1> QED
  BY <1>4, <1>10, <1>11 DEF E, own, N, remote

\* mergeIterator.ValueAtOrBeforeTime, without a local sample: the newest of
\* the remotes', and of those the first.
LEMMA RemoteValueIs ==
  ASSUME NEW mit, mit.local \in Streams, mit.remote \in Seq(Streams), NEW t \in Int,
         StreamValueAtOrBeforeTime(mit.local, t) = ZeroSamplePair
  PROVE  LET v == ValueAtOrBeforeTime(mit, t) IN
         /\ v = ZeroSamplePair \/ (v \in FirstSamples(mit.remote, Len(mit.remote)) /\ v.Timestamp <= t)
         /\ \A i \in 1 .. Len(mit.remote) : \A x \in Elems(mit.remote[i]) :
               x.Timestamp <= t => v # ZeroSamplePair /\ x.Timestamp <= v.Timestamp
<1> DEFINE remote == mit.remote
           N == Len(remote)
           zero == ZeroSamplePair
           X == Samples \cup {ZeroSamplePair}
           New(i) == {s \in Elems(remote[i]) :
                        \A j \in 1 .. i - 1 : \A x \in Elems(remote[j]) : x.Timestamp # s.Timestamp}
           Best(n, v) ==
             /\ v = zero \/ (v.Timestamp <= t /\ \E i \in 1 .. n : v \in New(i))
             /\ \A i \in 1 .. n : \A x \in Elems(remote[i]) :
                   x.Timestamp <= t => v # zero /\ x.Timestamp <= v.Timestamp
<1>1. N \in Nat /\ \A n \in 1 .. N : remote[n] \in Streams
  OBVIOUS
<1>2. PICK f \in [0 .. N -> X] :
         /\ f[0] = zero
         /\ \A n \in 1 .. N : f[n] = Newer(f[n - 1], StreamValueAtOrBeforeTime(remote[n], t))
         /\ ValueAtOrBeforeTime(mit, t) = f[N]
  BY ValueLoop
<1>3. zero.Timestamp = Earliest /\ Earliest \in Int
  BY TimeAssumption DEF ZeroSamplePair
<1>4. \A x \in Samples : x.Timestamp \in Int /\ Earliest < x.Timestamp
  <2>1. \A x \in Samples : x.Timestamp \in (Earliest + 1) .. (Latest - 1)
    BY DEF Samples
  <2> QED
    BY <2>1, TimeAssumption
<1> DEFINE G == {n \in 0 .. N : Best(n, f[n])}
<1> HIDE DEF N, remote, zero
<1>5. 0 \in G
  BY <1>1, <1>2
<1>6. ASSUME NEW n \in 1 .. N, n - 1 \in G PROVE n \in G
  <2> DEFINE b == f[n - 1]
             v == StreamValueAtOrBeforeTime(remote[n], t)
             u == f[n]
  <2>1. n \in 0 .. N /\ n - 1 \in 0 .. N
    BY <1>1
  <2>2. b \in X /\ Best(n - 1, b) /\ u = IF v.Timestamp > b.Timestamp THEN v ELSE b
    BY <1>2, <1>6, <2>1 DEF Newer
  <2>3. /\ v = zero \/ (v \in Elems(remote[n]) /\ v.Timestamp <= t)
        /\ \A x \in Elems(remote[n]) : x.Timestamp <= t => v # zero /\ x.Timestamp <= v.Timestamp
    BY <1>1, StreamValueIs DEF zero
  <2>4. v = zero \/ v \in Samples
    BY <1>1, <2>3, SampleType
  <2>5. /\ v.Timestamp \in Int /\ b.Timestamp \in Int
        /\ (v = zero <=> v.Timestamp = Earliest) /\ Earliest <= v.Timestamp
        /\ (b = zero <=> b.Timestamp = Earliest) /\ Earliest <= b.Timestamp
    BY <1>3, <1>4, <2>2, <2>4 DEF zero
  <2>6. \A i \in 1 .. N : \A x \in Elems(remote[i]) : x.Timestamp \in Int
    BY <1>1, SampleType
  <2>7. \A i \in 1 .. n : i \in 1 .. n - 1 \/ i = n
    BY <1>1
  <2>8. \A i \in 1 .. n : i \in 1 .. N
    BY <1>1
  <2> HIDE DEF b, v, u
  <2>9. CASE v.Timestamp > b.Timestamp
    <3>1. u = v /\ v # zero /\ v \in Elems(remote[n]) /\ v.Timestamp <= t
      BY <1>3, <2>2, <2>3, <2>5, <2>9
    <3>2. ASSUME NEW j \in 1 .. n - 1, NEW x \in Elems(remote[j])
          PROVE  x.Timestamp <= t => x.Timestamp < v.Timestamp
      <4>1. x.Timestamp \in Int /\ (x.Timestamp <= t => x.Timestamp <= b.Timestamp)
        BY <1>1, <2>2, <2>6
      <4> QED
        BY <2>5, <2>9, <4>1
    <3>3. v \in New(n)
      <4>1. ASSUME NEW j \in 1 .. n - 1, NEW x \in Elems(remote[j]) PROVE x.Timestamp # v.Timestamp
        <5>1. x.Timestamp \in Int
          BY <1>1, <2>6
        <5> QED
          BY <2>5, <3>1, <3>2, <5>1
      <4> QED
        BY <3>1, <4>1
    <3>4. ASSUME NEW i \in 1 .. n, NEW x \in Elems(remote[i]), x.Timestamp <= t
          PROVE  x.Timestamp <= v.Timestamp
      <4>1. CASE i = n
        BY <2>3, <3>4, <4>1
      <4>2. CASE i \in 1 .. n - 1
        BY <2>5, <2>6, <2>8, <3>2, <3>4, <4>2
      <4> QED
        BY <2>7, <4>1, <4>2
    <3>5. n \in 1 .. n
      BY <1>1
    <3> HIDE DEF New
    <3>6. Best(n, u)
      BY <3>1, <3>3, <3>4, <3>5
    <3> HIDE DEF Best
    <3> QED
      BY <2>1, <3>6 DEF u
  <2>10. CASE ~ (v.Timestamp > b.Timestamp)
    <3>1. u = b
      BY <2>2, <2>10
    <3>2. ASSUME NEW i \in 1 .. n, NEW x \in Elems(remote[i]), x.Timestamp <= t
          PROVE  b # zero /\ x.Timestamp <= b.Timestamp
      <4>1. CASE i \in 1 .. n - 1
        BY <2>2, <3>2, <4>1
      <4>2. CASE i = n
        <5>1. v # zero /\ x.Timestamp <= v.Timestamp /\ x.Timestamp \in Int
          BY <2>3, <2>6, <2>8, <3>2, <4>2
        <5> QED
          BY <1>3, <2>5, <2>10, <5>1
      <4> QED
        BY <2>7, <4>1, <4>2
    <3>3. \A i \in 1 .. n - 1 : i \in 1 .. n
      BY <1>1
    <3> HIDE DEF New
    <3>4. Best(n, b)
      BY <2>2, <3>2, <3>3
    <3> HIDE DEF Best
    <3> QED
      BY <2>1, <3>1, <3>4 DEF u
  <2> QED
    BY <2>9, <2>10
<1>7. N \in G
  <2> HIDE DEF G
  <2> QED
    BY <1>1, <1>5, <1>6, UpTo
<1> DEFINE w == ValueAtOrBeforeTime(mit, t)
<1>8. Best(N, w)
  BY <1>2, <1>7
<1> HIDE DEF w
<1>9. (\E i \in 1 .. N : w \in New(i)) => w \in FirstSamples(remote, N)
  BY DEF FirstSamples
<1> HIDE DEF New
<1>10. w = zero \/ (w.Timestamp <= t /\ w \in FirstSamples(remote, N))
  BY <1>8, <1>9
<1>11. \A i \in 1 .. N : \A x \in Elems(remote[i]) :
          x.Timestamp <= t => w # zero /\ x.Timestamp <= w.Timestamp
  BY <1>8
<1> HIDE DEF Best
<1> QED
  BY <1>10, <1>11 DEF w, N, remote, zero

-----------------------------------------------------------------------------
\* Any number of remotes with any samples: mergeIterator.RangeValues.
THEOREM RangesAreReference ==
  ASSUME kind = "merge" => input \in MergeReads
  PROVE  RangeIsReference
<1> SUFFICES ASSUME kind = "merge", input \in MergeReads
             PROVE  RangeIsReference
  BY DEF RangeIsReference
<1> DEFINE values == RangeValues(input, Interval(input))
           Within(s) == input.from <= s.Timestamp /\ s.Timestamp <= input.through
           own == {s \in Elems(input.local) : Within(s)}
           old == {s \in FirstSamples(input.remote, Len(input.remote)) :
                     Within(s) /\ \A l \in own : s.Timestamp < l.Timestamp}
<1>1. /\ input.local \in Streams /\ input.remote \in Seq(Streams)
      /\ input.from \in Int /\ input.through \in Int /\ input.from <= input.through
  BY DEF MergeReads
<1>2. /\ Interval(input).OldestInclusive = input.from
      /\ Interval(input).NewestInclusive = input.through
  BY DEF Interval
<1>3. values \in Streams /\ Elems(values) = own \cup old
  BY <1>1, <1>2, RangeValuesIs
<1> HIDE DEF values
<1>4. Len(values) \in Nat /\ \A i, j \in 1 .. Len(values) : i < j => values[i].Timestamp < values[j].Timestamp
  BY <1>3, StreamType
<1>5. ASSUME NEW i \in 1 .. Len(values) - 1 PROVE values[i].Timestamp < values[i + 1].Timestamp
  <2>1. i \in 1 .. Len(values) /\ i + 1 \in 1 .. Len(values) /\ i < i + 1
    BY <1>4
  <2> QED
    BY <1>4, <2>1
<1> HIDE DEF own, old
<1> QED
  BY <1>3, <1>5 DEF RangeIsReference, values, own, old

\* The value at or before a time is that of the comment on mergeIterator, for
\* any number of remotes with any samples.
THEOREM PointsAreDocumented ==
  ASSUME kind = "merge" => input \in MergeReads
  PROVE  PointAsDocumented
<1> SUFFICES ASSUME kind = "merge", input \in MergeReads
             PROVE  PointAsDocumented
  BY DEF PointAsDocumented
<1> DEFINE local   == input.local
           remote  == input.remote
           N       == Len(remote)
           through == input.through
           v       == ValueAtOrBeforeTime(input, through)
           lv      == StreamValueAtOrBeforeTime(local, through)
           before  == {s \in Considered : s.Timestamp <= through}
           Goal    == IF before = {} THEN v = ZeroSamplePair
                      ELSE v \in before /\ \A s \in before : s.Timestamp <= v.Timestamp
<1>1. local \in Streams /\ remote \in Seq(Streams) /\ through \in Int
  BY DEF MergeReads
<1>2. \A i \in 1 .. N : remote[i] \in Streams
  BY <1>1
<1>3. Considered = Elems(local) \cup {s \in FirstSamples(remote, N) :
                                         \A l \in Elems(local) : s.Timestamp < l.Timestamp}
  BY DEF Considered
<1>4. PointAsDocumented <=> Goal
  BY DEF PointAsDocumented
<1>5. \A s \in FirstSamples(remote, N) : \E i \in 1 .. N : s \in Elems(remote[i])
  BY DEF FirstSamples
<1>6. /\ lv = ZeroSamplePair \/ (lv \in Elems(local) /\ lv.Timestamp <= through)
      /\ \A x \in Elems(local) :
           x.Timestamp <= through => lv # ZeroSamplePair /\ x.Timestamp <= lv.Timestamp
  BY <1>1, StreamValueIs
<1>7. lv # ZeroSamplePair => v = lv
  BY DEF ValueAtOrBeforeTime
<1>8. lv = ZeroSamplePair =>
         /\ v = ZeroSamplePair \/ (v \in FirstSamples(remote, N) /\ v.Timestamp <= through)
         /\ \A i \in 1 .. N : \A x \in Elems(remote[i]) :
               x.Timestamp <= through => v # ZeroSamplePair /\ x.Timestamp <= v.Timestamp
  BY <1>1, RemoteValueIs
<1>9. \A x \in Elems(local) : x.Timestamp \in Int
  BY <1>1, SampleType
<1>10. \A s \in FirstSamples(remote, N) : s.Timestamp \in Int
  BY <1>2, <1>5, SampleType
<1> HIDE DEF v, lv, local, remote, N, through
<1>11. CASE lv # ZeroSamplePair
  <2>1. v = lv /\ v \in Elems(local) /\ v.Timestamp <= through
    BY <1>6, <1>7, <1>11
  <2>2. v \in before
    BY <1>3, <2>1
  <2>3. ASSUME NEW s \in before PROVE s.Timestamp <= v.Timestamp
    <3>1. CASE s \in Elems(local)
      BY <1>6, <2>1, <3>1
    <3>2. CASE s \notin Elems(local)
      <4>1. s \in FirstSamples(remote, N) /\ s.Timestamp < v.Timestamp
        BY <1>3, <2>1, <3>2
      <4> QED
        BY <1>9, <1>10, <2>1, <4>1
    <3> QED
      BY <3>1, <3>2
  <2> QED
    BY <1>4, <2>2, <2>3
<1>12. CASE lv = ZeroSamplePair
  <2>1. \A l \in Elems(local) : ~ (l.Timestamp <= through)
    BY <1>6, <1>12
  <2>2. ASSUME NEW s \in FirstSamples(remote, N), s.Timestamp <= through,
               NEW l \in Elems(local)
        PROVE  s.Timestamp < l.Timestamp
    BY <1>1, <1>9, <1>10, <2>1, <2>2
  <2>3. before = {s \in FirstSamples(remote, N) : s.Timestamp <= through}
    BY <1>3, <2>1, <2>2
  <2>4. \A s \in before : v # ZeroSamplePair /\ s.Timestamp <= v.Timestamp
    BY <1>5, <1>8, <1>12, <2>3
  <2>5. v = ZeroSamplePair \/ v \in before
    BY <1>8, <1>12, <2>3
  <2> HIDE DEF before
  <2> QED
    BY <1>4, <2>4, <2>5
<1> QED
  BY <1>11, <1>12

-----------------------------------------------------------------------------
(***************************************************************************)
(* Targets and their labels.                                               *)
(***************************************************************************)
\* What the operations on label sets do to the labels.
LEMMA FillInIs ==
  ASSUME NEW f, NEW g, NEW n
  PROVE  /\ Has(FillIn(f, g), n) <=> Has(f, n) \/ Has(g, n)
         /\ Has(f, n) => FillIn(f, g)[n] = f[n]
         /\ Has(g, n) /\ ~ Has(f, n) => FillIn(f, g)[n] = g[n]
BY DEF FillIn, Has

LEMMA WithoutIs ==
  ASSUME NEW f, NEW S, NEW n
  PROVE  /\ Has(Without(f, S), n) <=> Has(f, n) /\ n \notin S
         /\ Has(f, n) /\ n \notin S => Without(f, S)[n] = f[n]
BY DEF Without, Has

LEMMA LabelIs ==
  ASSUME NEW name, NEW v, NEW n
  PROVE  /\ Has(Label(name, v), n) <=> n = name
         /\ Label(name, v)[name] = v
BY DEF Label, Has

\* A rule leaves the labels alone that it does not touch.
LEMMA RelabelIs ==
  ASSUME NEW f, NEW rule, NEW n, ~ Touches(rule, n)
  PROVE  LET g == Relabel(f, rule) IN
         (Has(g, n) <=> Has(f, n)) /\ (Has(f, n) => g[n] = f[n])
<1> DEFINE g == Relabel(f, rule)
           Same(h) == (Has(h, n) <=> Has(f, n)) /\ (Has(f, n) => h[n] = f[n])
<1>1. ASSUME NEW name, NEW v, n # name PROVE Same(FillIn(Label(name, v), f))
  <2>1. ~ Has(Label(name, v), n)
    BY <1>1, LabelIs
  <2> QED
    BY <2>1, FillInIs
<1>2. CASE rule.Action = "replace"
  <2> DEFINE val == Source(f, rule)
             to  == rule.Expand[val]
  <2>1. g = IF val \notin DOMAIN rule.Expand THEN f
            ELSE IF to.Target = "" \/ to.Replacement = "" THEN Without(f, {rule.TargetLabel})
            ELSE FillIn(Label(to.Target, to.Replacement), f)
    BY <1>2 DEF Relabel, Replace
  <2>2. n # rule.TargetLabel /\ (val \in DOMAIN rule.Expand => n # to.Target)
    BY <1>2 DEF Touches
  <2> HIDE DEF g, val, to
  <2>3. Same(Without(f, {rule.TargetLabel}))
    BY <2>2, WithoutIs
  <2>4. val \in DOMAIN rule.Expand => Same(FillIn(Label(to.Target, to.Replacement), f))
    BY <1>1, <2>2
  <2>5. Same(f)
    OBVIOUS
  <2> HIDE DEF Same
  <2>6. Same(g)
    BY <2>1, <2>3, <2>4, <2>5
  <2> QED
    BY <2>6 DEF g, Same
<1>3. CASE rule.Action = "hashmod"
  <2>1. g = FillIn(Label(rule.TargetLabel, At(rule.Hash, Source(f, rule))), f)
    BY <1>3 DEF Relabel
  <2>2. n # rule.TargetLabel
    BY <1>3 DEF Touches
  <2> HIDE DEF g
  <2> QED
    BY <1>1, <2>1, <2>2 DEF g
<1>4. CASE rule.Action = "labelmap"
  <2> DEFINE matching == DOMAIN f \cap DOMAIN rule.Renamed
             From(k)  == CHOOSE m \in matching : rule.Renamed[m] = k
             copies   == [k \in {rule.Renamed[m] : m \in matching} |-> f[From(k)]]
  <2>1. g = FillIn(copies, f)
    BY <1>4 DEF Relabel, LabelMap
  <2>2. ~ Has(copies, n)
    BY <1>4 DEF Touches, Has
  <2> HIDE DEF g, copies
  <2> QED
    BY <2>1, <2>2, FillInIs DEF g
<1>5. CASE rule.Action = "labeldrop"
  <2>1. g = Without(f, rule.Regex) /\ n \notin rule.Regex
    BY <1>5 DEF Relabel, Touches
  <2> HIDE DEF g
  <2> QED
    BY <2>1, WithoutIs DEF g
<1>6. CASE rule.Action = "labelkeep"
  <2>1. g = Without(f, DOMAIN f \ rule.Regex) /\ n \notin DOMAIN f \ rule.Regex
    BY <1>6 DEF Relabel, Touches
  <2> HIDE DEF g
  <2> QED
    BY <2>1, WithoutIs DEF g
<1>7. CASE rule.Action \notin {"replace", "hashmod", "labelmap", "labeldrop", "labelkeep"}
  <2>1. g = f
    BY <1>7 DEF Relabel
  <2> QED
    BY <2>1
<1> QED
  BY <1>2, <1>3, <1>4, <1>5, <1>6, <1>7

\* The loop of relabel.Process.
LEMMA ProcessIs ==
  ASSUME NEW lset, NEW rules, Len(rules) \in Nat
  PROVE  LET f == Process(lset, rules) IN
         f[0] = lset /\ \A n \in 1 .. Len(rules) : f[n] = Relabel(f[n - 1], rules[n])
<1> DEFINE N == Len(rules)
           T(n, l) == Relabel(l, rules[n])
           F(f, n) == [i \in 0 .. n |-> IF i = 0 THEN lset ELSE T(i, f[i - 1])]
           G == {n \in 0 .. N : \E f : f = F(f, n)}
           g == CHOOSE f : f = F(f, N)
<1>1. Process(lset, rules) = g
  BY DEF Process
<1>2. N \in Nat
  OBVIOUS
<1> HIDE DEF N, T
<1>3. 0 \in G
  <2> DEFINE f == [i \in 0 .. 0 |-> lset]
  <2>1. f = F(f, 0)
    OBVIOUS
  <2>2. 0 \in 0 .. N
    BY <1>2
  <2> HIDE DEF f
  <2> QED
    BY <2>1, <2>2
<1>4. ASSUME NEW n \in 1 .. N, n - 1 \in G PROVE n \in G
  <2>1. PICK f : f = F(f, n - 1)
    BY <1>4
  <2> DEFINE h == [i \in 0 .. n |-> IF i = n THEN T(n, f[n - 1]) ELSE f[i]]
  <2>2. n \in 0 .. N /\ n - 1 \in 0 .. n /\ n # 0
    BY <1>2
  <2>3. ASSUME NEW i \in 0 .. n PROVE h[i] = IF i = 0 THEN lset ELSE T(i, h[i - 1])
    <3>1. i # n => i \in 0 .. n - 1 /\ f[i] = IF i = 0 THEN lset ELSE T(i, f[i - 1])
      BY <1>2, <2>1
    <3>2. i # 0 => i - 1 \in 0 .. n /\ i - 1 # n
      BY <1>2
    <3>3. i # 0 => h[i - 1] = f[i - 1]
      BY <3>2
    <3>4. h[i] = IF i = n THEN T(n, f[n - 1]) ELSE f[i]
      OBVIOUS
    <3> HIDE DEF h
    <3> QED
      BY <2>2, <3>1, <3>3, <3>4
  <2>4. h = F(h, n)
    <3>1. h = [i \in 0 .. n |-> h[i]]
      OBVIOUS
    <3> HIDE DEF h
    <3> QED
      BY <2>3, <3>1
  <2> HIDE DEF h
  <2> QED
    BY <2>2, <2>4
<1>5. N \in G
  <2> HIDE DEF G
  <2> QED
    BY <1>2, <1>3, <1>4, UpTo
<1>6. g = F(g, N)
  BY <1>5
<1> HIDE DEF g
<1>7. g[0] = lset /\ \A n \in 1 .. N : g[n] = T(n, g[n - 1])
  BY <1>2, <1>6
<1> QED
  BY <1>1, <1>7 DEF N, T

\* What no rule touches is left alone by all of them.
LEMMA UntouchedKept ==
  ASSUME NEW lset, NEW rules \in Seq(Rules), NEW n,
         \A r \in Elems(rules) : ~ Touches(r, n)
  PROVE  LET g == Relabelled(lset, rules) IN
         (Has(g, n) <=> Has(lset, n)) /\ (Has(lset, n) => g[n] = lset[n])
<1> DEFINE N == Len(rules)
           f == Process(lset, rules)
           G == {k \in 0 .. N : (Has(f[k], n) <=> Has(lset, n)) /\ (Has(lset, n) => f[k][n] = lset[n])}
<1>1. N \in Nat /\ \A k \in 1 .. N : ~ Touches(rules[k], n)
  BY DEF Elems
<1>2. f[0] = lset /\ \A k \in 1 .. N : f[k] = Relabel(f[k - 1], rules[k])
  BY <1>1, ProcessIs
<1>3. Relabelled(lset, rules) = f[N]
  BY DEF Relabelled
<1> HIDE DEF N, f
<1>4. 0 \in G
  BY <1>1, <1>2
<1>5. ASSUME NEW k \in 1 .. N, k - 1 \in G PROVE k \in G
  <2>1. (Has(f[k], n) <=> Has(f[k - 1], n)) /\ (Has(f[k - 1], n) => f[k][n] = f[k - 1][n])
    <3>1. ~ Touches(rules[k], n) /\ f[k] = Relabel(f[k - 1], rules[k])
      BY <1>1, <1>2
    <3> QED
      BY <3>1, RelabelIs
  <2>2. k \in 0 .. N
    BY <1>1
  <2> QED
    BY <1>5, <2>1, <2>2
<1>6. N \in G
  <2> HIDE DEF G
  <2> QED
    BY <1>1, <1>4, <1>5, UpTo
<1> QED
  BY <1>3, <1>6

\* One turn of the loop in Picked.
PickTurn(d, s, n, I) == IF n \in I THEN Append(d, s[n]) ELSE d

\* The loop of append calls that Picked stands for.
LEMMA PickedLoop ==
  ASSUME NEW S, NEW s \in Seq(S), NEW I
  PROVE  \E f \in [0 .. Len(s) -> Seq(S)] :
            /\ f[0] = <<>>
            /\ \A n \in 1 .. Len(s) : f[n] = PickTurn(f[n - 1], s, n, I)
            /\ Picked(s, I) = f[Len(s)]
<1> DEFINE N == Len(s)
           X == Seq(S)
           e == <<>>
           T(n, d) == IF n \in I THEN Append(d, s[n]) ELSE d
           F(f) == [n \in 0 .. N |-> IF n = 0 THEN e ELSE IF n \in I THEN Append(f[n - 1], s[n]) ELSE f[n - 1]]
           turn == [n \in 1 .. N |-> [d \in X |-> T(n, d)]]
           g == CHOOSE h : h = F(h)
<1>1. N \in Nat /\ e \in X
  OBVIOUS
<1>2. \A n \in 1 .. N : \A d \in X : T(n, d) \in X
  OBVIOUS
<1>3. Picked(s, I) = g[N]
  BY DEF Picked
<1>0. \A f : F(f) = [n \in 0 .. N |-> IF n = 0 THEN e ELSE T(n, f[n - 1])]
  OBVIOUS
<1> HIDE DEF N, X, e, T, F
<1>4. turn \in [1 .. N -> [X -> X]]
  BY <1>2
<1>5. PICK f : Computes(f, N, X, e, turn)
  <2> HIDE DEF turn, g
  <2> QED
    BY <1>1, <1>4, Iterate
<1>6. ASSUME NEW n \in 1 .. N PROVE f[n] = T(n, f[n - 1])
  <2>1. n - 1 \in 0 .. N
    BY <1>1
  <2>2. f[n - 1] \in X
    BY <1>5, <2>1 DEF Computes
  <2> QED
    BY <1>5, <2>2 DEF Computes
<1>7. f = F(f)
  <2>1. f = [n \in 0 .. N |-> IF n = 0 THEN e ELSE T(n, f[n - 1])]
    <3> HIDE DEF turn, g
    <3> QED
      BY <1>1, <1>5, <1>6 DEF Computes
  <2> QED
    BY <2>1, <1>0
<1>8. g = F(g)
  BY <1>7
<1> HIDE DEF g, turn
<1>9. f[N] = g[N]
  <2>0. g = [n \in 0 .. N |-> IF n = 0 THEN e ELSE T(n, g[n - 1])]
    BY <1>0, <1>8
  <2>1. g[0] = e
    BY <1>1, <2>0
  <2>2. ASSUME NEW n \in 1 .. N PROVE g[n] = T(n, g[n - 1])
    BY <1>1, <2>0
  <2>3. f[0] = g[0]
    BY <1>5, <2>1 DEF Computes
  <2>4. \A n \in 1 .. N : f[n - 1] = g[n - 1] => f[n] = g[n]
    BY <1>6, <2>2
  <2> QED
    BY <1>1, <2>3, <2>4, SameLoop
<1>10. f \in [0 .. N -> X] /\ f[0] = e
  BY <1>5 DEF Computes
<1> QED
  BY <1>3, <1>6, <1>9, <1>10 DEF N, X, e, T, PickTurn

\* The elements that are picked.
LEMMA PickedIs ==
  ASSUME NEW S, NEW s \in Seq(S), NEW I
  PROVE  /\ Picked(s, I) \in Seq(S)
         /\ Elems(Picked(s, I)) = {s[n] : n \in {m \in 1 .. Len(s) : m \in I}}
<1> DEFINE N == Len(s)
<1>0. N \in Nat /\ \A n \in 1 .. N : s[n] \in S
  OBVIOUS
<1>a. PICK f \in [0 .. Len(s) -> Seq(S)] :
         /\ f[0] = <<>>
         /\ \A n \in 1 .. Len(s) : f[n] = PickTurn(f[n - 1], s, n, I)
         /\ Picked(s, I) = f[Len(s)]
  BY PickedLoop
<1>1. /\ f \in [0 .. N -> Seq(S)] /\ f[0] = <<>>
      /\ \A n \in 1 .. N : f[n] = IF n \in I THEN Append(f[n - 1], s[n]) ELSE f[n - 1]
      /\ Picked(s, I) = f[N]
  BY <1>a DEF PickTurn
<1> HIDE DEF N
<1>2. N \in 0 .. N /\ Picked(s, I) \in Seq(S)
  BY <1>0, <1>1
<1> DEFINE At1(n) == {s[k] : k \in {m \in 1 .. n : m \in I}}
           G == {n \in 0 .. N : Elems(f[n]) = At1(n)}
<1>3. Elems(Picked(s, I)) = At1(N)
  <2>1. 0 \in G
    BY <1>0, <1>1 DEF Elems
  <2>2. ASSUME NEW n \in 1 .. N, n - 1 \in G PROVE n \in G
    <3>1. n \in 0 .. N /\ n - 1 \in 0 .. N /\ f[n - 1] \in Seq(S) /\ s[n] \in S
      BY <1>0, <1>1
    <3>2. 1 .. n = (1 .. n - 1) \cup {n}
      BY <1>0
    <3>3. CASE n \in I
      <4>1. At1(n) = At1(n - 1) \cup {s[n]}
        BY <3>2, <3>3
      <4>2. Elems(Append(f[n - 1], s[n])) = Elems(f[n - 1]) \cup {s[n]}
        <5> DEFINE d == f[n - 1]  a == Append(d, s[n])
        <5>1. /\ Len(d) \in Nat /\ Len(a) = Len(d) + 1 /\ a[Len(d) + 1] = s[n]
              /\ \A k \in 1 .. Len(d) : a[k] = d[k]
          BY <3>1
        <5>2. 1 .. Len(a) = (1 .. Len(d)) \cup {Len(d) + 1}
          BY <5>1
        <5> HIDE DEF d, a
        <5>3. Elems(a) = Elems(d) \cup {s[n]}
          BY <5>1, <5>2 DEF Elems
        <5> QED
          BY <5>3 DEF a, d
      <4>3. f[n] = Append(f[n - 1], s[n])
        BY <1>1, <3>3
      <4> QED
        BY <2>2, <3>1, <4>1, <4>2, <4>3
    <3>4. CASE n \notin I
      <4>1. At1(n) = At1(n - 1)
        BY <3>2, <3>4
      <4>2. f[n] = f[n - 1]
        BY <1>1, <3>4
      <4> QED
        BY <2>2, <3>1, <4>1, <4>2
    <3> QED
      BY <3>3, <3>4
  <2>3. N \in G
    <3> HIDE DEF G
    <3> QED
      BY <1>0, <2>1, <2>2, UpTo
  <2> QED
    BY <1>1, <2>3
<1> QED
  BY <1>2, <1>3 DEF N

\* The indices of a sequence at which n elements d have been picked.
PickedFrom(d, s, n, I, at) ==
  /\ at \in [1 .. Len(d) -> {m \in 1 .. n : m \in I}]
  /\ \A k \in {m \in 1 .. n : m \in I} : \E i \in 1 .. Len(d) : at[i] = k
  /\ \A i, j \in 1 .. Len(d) : i < j => at[i] < at[j]
  /\ \A i \in 1 .. Len(d) : d[i] = s[at[i]]

\* Picked keeps the order.
LEMMA PickedInOrder ==
  ASSUME NEW S, NEW s \in Seq(S), NEW I
  PROVE  \E at : PickedFrom(Picked(s, I), s, Len(s), I, at)
<1> DEFINE N == Len(s)
<1>0. N \in Nat /\ \A n \in 1 .. N : s[n] \in S
  OBVIOUS
<1>1. PICK f \in [0 .. Len(s) -> Seq(S)] :
         /\ f[0] = <<>>
         /\ \A n \in 1 .. Len(s) : f[n] = PickTurn(f[n - 1], s, n, I)
         /\ Picked(s, I) = f[Len(s)]
  BY PickedLoop
<1>2. /\ f \in [0 .. N -> Seq(S)] /\ f[0] = <<>>
      /\ \A n \in 1 .. N : f[n] = IF n \in I THEN Append(f[n - 1], s[n]) ELSE f[n - 1]
      /\ Picked(s, I) = f[N]
  BY <1>1 DEF PickTurn
<1> HIDE DEF N
<1> DEFINE G == {n \in 0 .. N : \E at : PickedFrom(f[n], s, n, I, at)}
<1>3. 0 \in G
  <2> DEFINE at == [i \in 1 .. 0 |-> 0]
  <2>1. PickedFrom(f[0], s, 0, I, at)
    <3>1. 1 .. Len(f[0]) = 1 .. 0
      BY <1>2
    <3> QED
      BY <3>1 DEF PickedFrom
  <2>2. 0 \in 0 .. N
    BY <1>0
  <2> HIDE DEF at
  <2> QED
    BY <2>1, <2>2
<1>4. ASSUME NEW n \in 1 .. N, n - 1 \in G PROVE n \in G
  <2> DEFINE d == f[n - 1]
  <2>1. PICK at : PickedFrom(d, s, n - 1, I, at)
    BY <1>4
  <2>2. n \in 0 .. N /\ n - 1 \in 0 .. N /\ d \in Seq(S) /\ s[n] \in S /\ n \in Int
    BY <1>0, <1>2
  <2>3. f[n] = IF n \in I THEN Append(d, s[n]) ELSE d
    BY <1>2
  <2> HIDE DEF d
  <2>4. CASE n \notin I
    <3>1. {m \in 1 .. n : m \in I} = {m \in 1 .. n - 1 : m \in I}
      BY <2>2, <2>4
    <3>2. PickedFrom(f[n], s, n, I, at)
      BY <2>1, <2>3, <2>4, <3>1 DEF PickedFrom
    <3> QED
      BY <2>2, <3>2
  <2>5. CASE n \in I
    <3> DEFINE a == Append(d, s[n])
               M == Len(d)
               new == [i \in 1 .. M + 1 |-> IF i = M + 1 THEN n ELSE at[i]]
    <3>1. M \in Nat /\ Len(a) = M + 1 /\ a[M + 1] = s[n] /\ \A i \in 1 .. M : a[i] = d[i]
      BY <2>2
    <3>2. f[n] = a
      BY <2>3, <2>5
    <3>3. /\ at \in [1 .. M -> {m \in 1 .. n - 1 : m \in I}]
          /\ \A k \in {m \in 1 .. n - 1 : m \in I} : \E i \in 1 .. M : at[i] = k
          /\ \A i, j \in 1 .. M : i < j => at[i] < at[j]
          /\ \A i \in 1 .. M : d[i] = s[at[i]]
      BY <2>1 DEF PickedFrom
    <3> HIDE DEF a, M
    <3>4. \A i \in 1 .. M + 1 : i = M + 1 \/ i \in 1 .. M
      BY <3>1
    <3>5. \A i \in 1 .. M : new[i] = at[i] /\ i \in 1 .. M + 1
      BY <3>1
    <3>6. new[M + 1] = n /\ M + 1 \in 1 .. M + 1
      BY <3>1
    <3>7. \A i \in 1 .. M : at[i] \in 1 .. n - 1 /\ at[i] \in I
      BY <3>3
    <3>8. new \in [1 .. M + 1 -> {m \in 1 .. n : m \in I}]
      <4>1. \A i \in 1 .. M + 1 : new[i] \in {m \in 1 .. n : m \in I}
        BY <2>2, <2>5, <3>4, <3>5, <3>6, <3>7
      <4> QED
        BY <4>1
    <3> HIDE DEF new
    <3>9. ASSUME NEW k \in {m \in 1 .. n : m \in I} PROVE \E i \in 1 .. M + 1 : new[i] = k
      <4>1. CASE k = n
        BY <3>6, <4>1
      <4>2. CASE k # n
        <5>1. k \in {m \in 1 .. n - 1 : m \in I}
          BY <2>2, <4>2
        <5> QED
          BY <3>3, <3>5, <5>1
      <4> QED
        BY <4>1, <4>2
    <3>10. ASSUME NEW i \in 1 .. M + 1, NEW j \in 1 .. M + 1, i < j PROVE new[i] < new[j]
      <4>1. i \in 1 .. M
        BY <3>1, <3>10
      <4>2. CASE j = M + 1
        BY <2>2, <3>5, <3>6, <3>7, <4>1, <4>2
      <4>3. CASE j \in 1 .. M
        BY <3>3, <3>5, <3>10, <4>1, <4>3
      <4> QED
        BY <3>4, <4>2, <4>3
    <3>11. \A i \in 1 .. M + 1 : a[i] = s[new[i]]
      BY <3>1, <3>3, <3>4, <3>5, <3>6
    <3>12. PickedFrom(a, s, n, I, new)
      BY <3>1, <3>8, <3>9, <3>10, <3>11 DEF PickedFrom
    <3> QED
      BY <2>2, <3>2, <3>12
  <2> QED
    BY <2>4, <2>5
<1>5. N \in G
  <2> HIDE DEF G
  <2> QED
    BY <1>0, <1>3, <1>4, UpTo
<1> QED
  BY <1>2, <1>5 DEF N

\* Every parameter of the configuration has a label, and values.
ParamsOf(cfg) ==
  /\ \A k \in DOMAIN cfg.Params : \E m \in DOMAIN ParamOf : ParamOf[m] = k
  /\ \A k \in DOMAIN cfg.Params : cfg.Params[k] \in Seq(STRING)

\* The labels that the parameters of the configuration become.
Asked(cfg) ==
  [name \in {ParamLabel(k) : k \in {j \in DOMAIN cfg.Params : cfg.Params[j] # <<>>}} |->
     cfg.Params[ParamOf[name]][1]]

LEMMA ParamLabelIs ==
  ASSUME NEW m \in DOMAIN ParamOf
  PROVE  ParamLabel(ParamOf[m]) = m
BY NameAssumption DEF ParamLabel

LEMMA AskedIs ==
  ASSUME NEW cfg, ParamsOf(cfg), NEW n
  PROVE  /\ Has(Asked(cfg), n) <=>
              /\ n \in DOMAIN ParamOf /\ ParamOf[n] \in DOMAIN cfg.Params
              /\ cfg.Params[ParamOf[n]] # <<>>
         /\ Has(Asked(cfg), n) => Asked(cfg)[n] = cfg.Params[ParamOf[n]][1]
<1>1. ASSUME NEW k \in DOMAIN cfg.Params
      PROVE  ParamLabel(k) \in DOMAIN ParamOf /\ ParamOf[ParamLabel(k)] = k
  <2>1. PICK m \in DOMAIN ParamOf : ParamOf[m] = k
    BY DEF ParamsOf
  <2> QED
    BY <2>1, ParamLabelIs
<1> QED
  BY <1>1, ParamLabelIs DEF Asked, Has

LEMMA PreRelabelIs ==
  ASSUME NEW own, NEW cfg
  PROVE  PreRelabelLabels(own, cfg) =
           FillIn(Asked(cfg), FillIn(own, [__scheme__ |-> cfg.Scheme,
                                           __metrics_path__ |-> cfg.MetricsPath,
                                           job |-> cfg.JobName]))
BY DEF PreRelabelLabels, Asked

\* The labels a target keeps.
LEMMA FinalIs ==
  ASSUME NEW lset, NEW addr, NEW n
  PROVE  LET f == FinalLabels(lset, addr) IN
         /\ Has(f, n) <=> n \in {"__address__", "instance"} \/ (Has(lset, n) /\ n \notin MetaLabels)
         /\ n = "__address__" => f[n] = addr
         /\ n = "instance" => f[n] = IF Has(lset, n) THEN lset[n] ELSE addr
         /\ n \notin {"__address__", "instance"} /\ Has(f, n) => f[n] = lset[n]
<1> DEFINE a == Label("__address__", addr)
           i == Label("instance", addr)
           w == Without(lset, MetaLabels)
           g == FillIn(w, i)
           f == FinalLabels(lset, addr)
<1>1. (Has(a, n) <=> n = "__address__") /\ a["__address__"] = addr
  BY LabelIs
<1>2. (Has(i, n) <=> n = "instance") /\ i["instance"] = addr
  BY LabelIs
<1>3. /\ Has(w, n) <=> Has(lset, n) /\ n \notin MetaLabels
      /\ Has(lset, n) /\ n \notin MetaLabels => w[n] = lset[n]
  BY WithoutIs
<1>4. "instance" \notin MetaLabels
  BY NameAssumption
<1> HIDE DEF a, i, w
<1>5. /\ Has(g, n) <=> Has(w, n) \/ Has(i, n)
      /\ Has(w, n) => g[n] = w[n]
      /\ Has(i, n) /\ ~ Has(w, n) => g[n] = i[n]
  BY FillInIs
<1> HIDE DEF g
<1>6. /\ Has(f, n) <=> Has(a, n) \/ Has(g, n)
      /\ Has(a, n) => f[n] = a[n]
      /\ Has(g, n) /\ ~ Has(a, n) => f[n] = g[n]
  BY FillInIs DEF FinalLabels, g, a, w, i
<1> HIDE DEF f
<1> QED
  BY <1>1, <1>2, <1>3, <1>4, <1>5, <1>6 DEF f

\* The labels that relabelling leaves, and whether it drops the target.
SaidOf(own, cfg) == Relabelled(PreRelabelLabels(own, cfg), cfg.RelabelConfigs)
DropsOf(own, cfg) == Dropped(PreRelabelLabels(own, cfg), cfg.RelabelConfigs)

\* What populateLabels returns, and why.
LEMMA PopulatedIs ==
  ASSUME NEW own, NEW cfg
  PROVE  LET lset == SaidOf(own, cfg)
             addr == lset["__address__"]
             t    == PopulateLabels(own, cfg)
         IN /\ t.result = IF DropsOf(own, cfg) THEN "dropped"
                          ELSE IF Erroneous(lset) THEN "error" ELSE "target"
            /\ t.result = "target" =>
                 /\ t.labels = FinalLabels(lset, IF AddPort(addr) THEN addr \o DefaultPort(lset) ELSE addr)
                 /\ t.params = cfg.Params
BY DEF PopulateLabels, SaidOf, DropsOf

\* A target that populateLabels returns can be dialled.
LEMMA TargetDialable ==
  ASSUME NEW own, NEW cfg, PopulateLabels(own, cfg).result = "target"
  PROVE  LET said == SaidOf(own, cfg)
             t    == PopulateLabels(own, cfg)
         IN /\ Dialable(said, t.labels)
            /\ At(Labels(t), "job") = At(said, "job")
            /\ At(Labels(t), "instance") = t.labels["instance"]
<1> DEFINE said == SaidOf(own, cfg)
           t    == PopulateLabels(own, cfg)
           addr == said["__address__"]
           host == IF AddPort(addr) THEN addr \o DefaultPort(said) ELSE addr
           final == t.labels
<1>1. ~ Erroneous(said) /\ final = FinalLabels(said, host)
  BY PopulatedIs
<1> HIDE DEF said, t, final, host
<1>2. /\ Has(said, "__address__") /\ addr \notin Slashed
      /\ AddPort(addr) => DefaultPort(said) # ""
      /\ \A n \in DOMAIN said \ MetaLabels : said[n] \notin InvalidValues
  BY <1>1 DEF Erroneous
<1>3. \A n :
         /\ Has(final, n) <=> n \in {"__address__", "instance"} \/ (Has(said, n) /\ n \notin MetaLabels)
         /\ n = "__address__" => final[n] = host
         /\ n = "instance" => final[n] = IF Has(said, n) THEN said[n] ELSE host
         /\ n \notin {"__address__", "instance"} /\ Has(final, n) => final[n] = said[n]
  BY <1>1, FinalIs
<1>4. /\ "__address__" \notin MetaLabels /\ "instance" \notin MetaLabels
      /\ "job" \notin MetaLabels /\ "job" \notin Reserved /\ "instance" \notin Reserved
  BY NameAssumption DEF Reserved
<1>5. AddPort(addr) => DefaultPort(said) \in {":80", ":443"}
  BY <1>2 DEF DefaultPort
<1>6. host \notin InvalidValues
  <2>1. addr \notin InvalidValues
    BY <1>2, <1>4 DEF Has
  <2>2. CASE AddPort(addr)
    <3>1. addr \in BareHosts \ InvalidValues
      BY <2>1, <2>2 DEF AddPort
    <3>2. host = addr \o DefaultPort(said)
      BY <2>2 DEF host
    <3> QED
      BY <1>5, <2>2, <3>1, <3>2, NameAssumption
  <2> QED
    BY <2>1, <2>2 DEF host
<1>7. \A n \in DOMAIN final : n \notin MetaLabels /\ final[n] \notin InvalidValues
  BY <1>2, <1>3, <1>4, <1>6 DEF Has
<1>8. host = IF addr \in BareHosts \ HostPorts
                THEN addr \o (CASE At(said, "__scheme__") \in {"", "http"} -> ":80"
                                [] At(said, "__scheme__") = "https"        -> ":443")
                ELSE addr
  BY <1>2, <1>5 DEF host, AddPort, DefaultPort
<1>9. final["instance"] = At(FillIn(said, Label("instance", host)), "instance")
  <2> DEFINE one == Label("instance", host)
  <2>1. Has(one, "instance") /\ one["instance"] = host
    BY LabelIs
  <2> HIDE DEF one
  <2>2. Has(FillIn(said, one), "instance") /\ FillIn(said, one)["instance"] =
           IF Has(said, "instance") THEN said["instance"] ELSE host
    BY <2>1, FillInIs
  <2>3. At(FillIn(said, one), "instance") = IF Has(said, "instance") THEN said["instance"] ELSE host
    BY <2>2 DEF At
  <2> QED
    BY <1>3, <2>3 DEF one
<1>10. final["__address__"] = host
  BY <1>3
<1>11. Dialable(said, final)
  BY <1>2, <1>7, <1>8, <1>9, <1>10 DEF Dialable
<1>12. /\ At(Labels(t), "job") = At(final, "job")
       /\ At(Labels(t), "instance") = At(final, "instance")
  <2>1. Labels(t) = Without(final, Reserved)
    BY DEF Labels, final
  <2> QED
    <3>1. ASSUME NEW n, n \notin Reserved
          PROVE  At(Labels(t), n) = At(final, n)
      <4>1. (Has(Labels(t), n) <=> Has(final, n)) /\ (Has(final, n) => Labels(t)[n] = final[n])
        BY <2>1, <3>1, WithoutIs
      <4> QED
        BY <4>1 DEF At
    <3> QED
      BY <1>4, <3>1
<1>13. Has(final, "instance") /\ At(final, "job") = At(said, "job")
  BY <1>3, <1>4 DEF At
<1> QED
  BY <1>11, <1>12, <1>13 DEF At, said, t, final

\* ... and its URL has the parameters of the configuration.
LEMMA TargetParams ==
  ASSUME NEW own, NEW cfg, ParamsOf(cfg), cfg.RelabelConfigs \in Seq(Rules),
         PopulateLabels(own, cfg).result = "target"
  PROVE  ParamsKept(own, SaidOf(own, cfg), cfg, URL(PopulateLabels(own, cfg)).Params)
<1> DEFINE said == SaidOf(own, cfg)
           t    == PopulateLabels(own, cfg)
           pre  == PreRelabelLabels(own, cfg)
           addr == said["__address__"]
           host == IF AddPort(addr) THEN addr \o DefaultPort(said) ELSE addr
           final == t.labels
           params == URL(t).Params
           Of(ps, k)   == IF k \in DOMAIN ps THEN ps[k] ELSE <<>>
           Touched(n)  == \E r \in Elems(cfg.RelabelConfigs) : Touches(r, n)
<1> SUFFICES ASSUME NEW n \in DOMAIN ParamOf
             PROVE  LET vs == Of(cfg.Params, ParamOf[n]) IN
                    Of(params, ParamOf[n]) =
                      IF ~ Touched(n)
                        THEN IF vs # <<>> THEN vs ELSE IF Has(own, n) THEN <<own[n]>> ELSE <<>>
                      ELSE IF Has(said, n) THEN <<said[n]>> \o SubSeq(vs, 2, Len(vs))
                      ELSE vs
  BY DEF ParamsKept
<1> DEFINE k == ParamOf[n]
           vs == Of(cfg.Params, k)
<1>1. ParamLabel(k) = n
  BY ParamLabelIs
<1>2. final = FinalLabels(said, host) /\ t.params = cfg.Params
  BY PopulatedIs
<1>3. vs \in Seq(STRING)
  <2>1. \A j \in DOMAIN cfg.Params : cfg.Params[j] \in Seq(STRING)
    BY DEF ParamsOf
  <2>2. <<>> \in Seq(STRING)
    OBVIOUS
  <2> QED
    BY <2>1, <2>2
<1>4. n \notin MetaLabels /\ n \notin {"__address__", "instance", "__scheme__", "__metrics_path__", "job"}
  BY NameAssumption
<1>5. (Has(final, n) <=> Has(said, n)) /\ (Has(said, n) => final[n] = said[n])
  <2> HIDE DEF final, said, host
  <2> QED
    BY <1>2, <1>4, FinalIs
<1>6. Of(params, k) = IF Has(said, n) THEN <<said[n]>> \o SubSeq(vs, 2, Len(vs)) ELSE vs
  <2> DEFINE names == DOMAIN ParamOf \cap DOMAIN final
             D     == DOMAIN t.params \cup {ParamOf[m] : m \in names}
  <2>1. params = [j \in D |->
                    LET us == IF j \in DOMAIN t.params THEN t.params[j] ELSE <<>>
                    IN IF ParamLabel(j) \in names THEN <<final[ParamLabel(j)]>> \o SubSeq(us, 2, Len(us))
                       ELSE us]
    BY DEF URL, UrlParams
  <2> HIDE DEF params, final, t, said
  <2>2. k \in D => params[k] = IF n \in names THEN <<final[n]>> \o SubSeq(vs, 2, Len(vs)) ELSE vs
    BY <1>1, <1>2, <2>1
  <2>3. DOMAIN params = D
    BY <2>1
  <2>4. n \in names <=> Has(said, n)
    BY <1>5 DEF Has
  <2>5. n \in names => k \in D
    OBVIOUS
  <2>6. k \notin D => vs = <<>>
    BY <1>2
  <2> HIDE DEF D, names, vs, k
  <2> QED
    BY <1>5, <2>2, <2>3, <2>4, <2>5, <2>6
<1>7. /\ Has(pre, n) <=> vs # <<>> \/ Has(own, n)
      /\ vs # <<>> => pre[n] = vs[1]
      /\ vs = <<>> /\ Has(own, n) => pre[n] = own[n]
  <2> DEFINE scrape == [__scheme__ |-> cfg.Scheme, __metrics_path__ |-> cfg.MetricsPath,
                        job |-> cfg.JobName]
             inner == FillIn(own, scrape)
  <2>1. ~ Has(scrape, n)
    BY <1>4 DEF Has
  <2> HIDE DEF scrape
  <2>2. (Has(inner, n) <=> Has(own, n)) /\ (Has(own, n) => inner[n] = own[n])
    BY <2>1, FillInIs
  <2> HIDE DEF inner
  <2>3. (Has(Asked(cfg), n) <=> vs # <<>>) /\ (vs # <<>> => Asked(cfg)[n] = vs[1])
    BY AskedIs
  <2>4. pre = FillIn(Asked(cfg), inner)
    BY PreRelabelIs DEF inner, scrape
  <2> HIDE DEF pre, vs
  <2> QED
    BY <2>2, <2>3, <2>4, FillInIs
<1>8. ~ Touched(n) => (Has(said, n) <=> Has(pre, n)) /\ (Has(pre, n) => said[n] = pre[n])
  <2> HIDE DEF pre
  <2> QED
    BY UntouchedKept DEF SaidOf, pre
<1>9. vs # <<>> => <<vs[1]>> \o SubSeq(vs, 2, Len(vs)) = vs
  <2> HIDE DEF vs
  <2> QED
    BY <1>3
<1>10. SubSeq(<<>>, 2, Len(<<>>)) = <<>>
  OBVIOUS
<1>11. \A x : <<x>> \o <<>> = <<x>>
  OBVIOUS
<1> HIDE DEF vs, k, pre, said, params
<1>12. CASE ~ Touched(n)
  <2>1. CASE vs # <<>>
    <3>1. Of(params, k) = vs
      BY <1>6, <1>7, <1>8, <1>9, <1>12, <2>1
    <3> QED
      BY <1>12, <2>1, <3>1 DEF k, vs
  <2>2. CASE vs = <<>> /\ Has(own, n)
    <3>1. Of(params, k) = <<own[n]>>
      BY <1>6, <1>7, <1>8, <1>10, <1>11, <1>12, <2>2
    <3> QED
      BY <1>12, <2>2, <3>1 DEF k, vs
  <2>3. CASE vs = <<>> /\ ~ Has(own, n)
    <3>1. Of(params, k) = <<>>
      BY <1>6, <1>7, <1>8, <1>12, <2>3
    <3> QED
      BY <1>12, <2>3, <3>1 DEF k, vs
  <2> QED
    BY <2>1, <2>2, <2>3
<1>13. CASE Touched(n)
  BY <1>6, <1>13 DEF k, vs
<1> QED
  BY <1>12, <1>13

\* The parameters of a configuration have labels and values.
LEMMA ConfigParams ==
  ASSUME NEW cfg \in ScrapeConfigs
  PROVE  ParamsOf(cfg) /\ cfg.RelabelConfigs \in Seq(Rules)
<1> DEFINE R == {ParamOf[n] : n \in DOMAIN ParamOf}
           C(P) == [Scheme: STRING, MetricsPath: STRING, JobName: STRING,
                    RelabelConfigs: Seq(Rules), Params: [P -> Seq(STRING)]]
<1>1. PICK P \in SUBSET R : /\ cfg.Params \in [P -> Seq(STRING)]
                            /\ cfg.RelabelConfigs \in Seq(Rules)
  <2>1. ScrapeConfigs = UNION {C(P) : P \in SUBSET R}
    BY DEF ScrapeConfigs
  <2>2. PICK P \in SUBSET R : cfg \in C(P)
    <3> HIDE DEF C, R
    <3> QED
      BY <2>1
  <2> QED
    BY <2>2
<1>2. DOMAIN cfg.Params = P /\ \A k \in P : cfg.Params[k] \in Seq(STRING)
  BY <1>1
<1> QED
  BY <1>1, <1>2 DEF ParamsOf

\* targetsFromGroup returns nothing, because of an error or because all are
\* dropped, or what populateLabels made of the label sets that are not.
LEMMA KeptInOrder ==
  ASSUME NEW group, group.Targets \in Seq(LabelSet), NEW cfg
  PROVE  LET targets == TargetsFromGroup(group, cfg)
             Own(i)  == FillIn(group.Targets[i], group.Labels)
             kept    == {i \in 1 .. Len(group.Targets) : ~ DropsOf(Own(i), cfg)}
         IN \/ targets = <<>> /\ \E i \in kept : Erroneous(SaidOf(Own(i), cfg))
            \/ /\ targets \in Seq(Elems(targets))
               /\ \E at \in [1 .. Len(targets) -> kept] :
                    /\ \A k \in kept : \E i \in 1 .. Len(targets) : at[i] = k
                    /\ \A i, j \in 1 .. Len(targets) : i < j => at[i] < at[j]
                    /\ \A i \in 1 .. Len(targets) :
                         /\ targets[i] = PopulateLabels(Own(at[i]), cfg)
                         /\ targets[i].result = "target"
<1> DEFINE N == Len(group.Targets)
           Own(i) == FillIn(group.Targets[i], group.Labels)
           P(i) == PopulateLabels(Own(i), cfg)
           Q == {P(i) : i \in 1 .. N}
           built == [i \in 1 .. N |-> P(i)]
           I == {i \in DOMAIN built : built[i].result = "target"}
           targets == TargetsFromGroup(group, cfg)
           kept == {i \in 1 .. N : ~ DropsOf(Own(i), cfg)}
<1>1. N \in Nat
  OBVIOUS
<1>2. \A i \in 1 .. N :
         P(i).result = IF DropsOf(Own(i), cfg) THEN "dropped"
                       ELSE IF Erroneous(SaidOf(Own(i), cfg)) THEN "error" ELSE "target"
  <2> HIDE DEF Own
  <2> QED
    BY PopulatedIs
<1>3. targets = IF \E i \in DOMAIN built : built[i].result = "error" THEN <<>> ELSE Picked(built, I)
  BY DEF TargetsFromGroup
<1> HIDE DEF N, P, targets, Own
<1>4. built \in Seq(Q) /\ Len(built) = N /\ DOMAIN built = 1 .. N
  <2>1. \A i \in 1 .. N : P(i) \in Q
    OBVIOUS
  <2> HIDE DEF Q
  <2>2. built \in [1 .. N -> Q]
    BY <2>1
  <2> HIDE DEF built
  <2> QED
    BY <1>1, <2>2
<1>5. \A i \in 1 .. N : built[i] = P(i)
  OBVIOUS
<1> HIDE DEF built
<1>6. CASE \E i \in DOMAIN built : built[i].result = "error"
  <2>1. PICK i \in 1 .. N : P(i).result = "error"
    BY <1>4, <1>5, <1>6
  <2>2. i \in kept /\ Erroneous(SaidOf(Own(i), cfg))
    BY <1>2, <2>1
  <2>3. targets = <<>> /\ \E j \in kept : Erroneous(SaidOf(Own(j), cfg))
    BY <1>3, <1>6, <2>2
  <2> QED
    BY <2>3 DEF targets, Own, N
<1>7. CASE ~ \E i \in DOMAIN built : built[i].result = "error"
  <2>1. \A i \in 1 .. N : built[i].result = "target" <=> i \in kept
    BY <1>2, <1>4, <1>5, <1>7
  <2>2. {m \in 1 .. Len(built) : m \in I} = kept
    BY <1>4, <2>1
  <2>3. targets = Picked(built, I)
    BY <1>3, <1>7
  <2> HIDE DEF I, kept, Q
  <2>4. targets \in Seq(Q)
    BY <1>4, <2>3, PickedIs
  <2>5. PICK at : PickedFrom(targets, built, Len(built), I, at)
    BY <1>4, <2>3, PickedInOrder
  <2>6. /\ at \in [1 .. Len(targets) -> kept]
        /\ \A k \in kept : \E i \in 1 .. Len(targets) : at[i] = k
        /\ \A i, j \in 1 .. Len(targets) : i < j => at[i] < at[j]
        /\ \A i \in 1 .. Len(targets) : targets[i] = built[at[i]]
    BY <2>2, <2>5 DEF PickedFrom
  <2>7. \A i \in 1 .. Len(targets) : at[i] \in 1 .. N /\ at[i] \in kept
    BY <2>6 DEF kept
  <2>8. \A i \in 1 .. Len(targets) : targets[i] = P(at[i]) /\ targets[i].result = "target"
    BY <1>5, <2>1, <2>6, <2>7
  <2>9. targets \in Seq(Elems(targets))
    BY <2>4 DEF Elems
  <2> QED
    BY <2>6, <2>8, <2>9 DEF targets, Own, N, P, kept
<1> QED
  BY <1>6, <1>7

\* getPromTargets.
LEMMA PromTargetsAre ==
  ASSUME NEW S, NEW targets \in Seq(S)
  PROVE  Elems(PromTargets(targets)) =
           {At(Labels(targets[i]), "instance") :
              i \in {j \in 1 .. Len(targets) : At(Labels(targets[j]), "job") = "allprometheus"}}
<1> DEFINE I == {i \in DOMAIN targets : At(Labels(targets[i]), "job") = "allprometheus"}
           J == {i \in 1 .. Len(targets) : At(Labels(targets[i]), "job") = "allprometheus"}
           proms == Picked(targets, I)
           A(t) == At(Labels(t), "instance")
           hosts == PromTargets(targets)
<1>1. hosts = [i \in DOMAIN proms |-> A(proms[i])]
  BY DEF PromTargets
<1>2. I = J /\ Len(targets) \in Nat
  OBVIOUS
<1>3. {m \in 1 .. Len(targets) : m \in I} = J
  BY <1>2
<1> HIDE DEF I, A, hosts
<1>4. proms \in Seq(S) /\ Elems(proms) = {targets[n] : n \in {m \in 1 .. Len(targets) : m \in I}}
  BY PickedIs
<1> HIDE DEF proms, J
<1>5. Elems(proms) = {targets[n] : n \in J}
  BY <1>3, <1>4
<1>6. DOMAIN proms = 1 .. Len(proms) /\ Len(proms) \in Nat
  BY <1>4
<1>7. Len(hosts) = Len(proms) /\ \A i \in 1 .. Len(proms) : hosts[i] = A(proms[i])
  BY <1>1, <1>6
<1>8. Elems(hosts) = {A(x) : x \in Elems(proms)}
  BY <1>7 DEF Elems
<1>9. Elems(hosts) = {A(targets[n]) : n \in J}
  BY <1>5, <1>8
<1> QED
  BY <1>9 DEF A, J, hosts

\* Any number of targets with any labels, any group labels, parameters and
\* rules: what targetsFromGroup leaves can be dialled and is asked as
\* configured.
THEOREM TargetsDialable ==
  ASSUME kind = "target" => input \in TargetReads
  PROVE  TargetsAsConfigured
<1> SUFFICES ASSUME kind = "target", input \in TargetReads
             PROVE  TargetsAsConfigured
  BY DEF TargetsAsConfigured
<1> DEFINE group == input.group
           cfg   == input.cfg
           targets == TargetsFromGroup(group, cfg)
           Own(i) == FillIn(group.Targets[i], group.Labels)
           Said(i) == SaidOf(Own(i), cfg)
           kept == {i \in 1 .. Len(group.Targets) : ~ DropsOf(Own(i), cfg)}
           Right(at) ==
             /\ \A k \in kept : \E i \in 1 .. Len(targets) : at[i] = k
             /\ \A i, j \in 1 .. Len(targets) : i < j => at[i] < at[j]
             /\ \A i \in 1 .. Len(targets) :
                  /\ Dialable(Said(at[i]), targets[i].labels)
                  /\ ParamsKept(Own(at[i]), Said(at[i]), cfg, URL(targets[i]).Params)
             /\ Elems(PromTargets(targets)) =
                  {targets[i].labels["instance"] :
                     i \in {j \in 1 .. Len(targets) : At(Said(at[j]), "job") = "allprometheus"}}
<1>1. group.Targets \in Seq(LabelSet) /\ cfg \in ScrapeConfigs
  <2> HIDE DEF LabelSet, ScrapeConfigs
  <2> QED
    BY DEF TargetReads, Groups
<1>2. ParamsOf(cfg) /\ cfg.RelabelConfigs \in Seq(Rules)
  BY <1>1, ConfigParams
<1>3. \/ targets = <<>> /\ \E i \in kept : Erroneous(Said(i))
      \/ /\ targets \in Seq(Elems(targets))
         /\ \E at \in [1 .. Len(targets) -> kept] :
              /\ \A k \in kept : \E i \in 1 .. Len(targets) : at[i] = k
              /\ \A i, j \in 1 .. Len(targets) : i < j => at[i] < at[j]
              /\ \A i \in 1 .. Len(targets) :
                   targets[i] = PopulateLabels(Own(at[i]), cfg) /\ targets[i].result = "target"
  <2> HIDE DEF group, cfg
  <2> QED
    BY <1>1, KeptInOrder
<1>4. (targets = <<>> /\ \E i \in kept : Erroneous(Said(i))) => TargetsAsConfigured
  BY DEF TargetsAsConfigured, SaidOf, DropsOf
<1>5. (\E at \in [1 .. Len(targets) -> kept] : Right(at)) => TargetsAsConfigured
  BY DEF TargetsAsConfigured, SaidOf, DropsOf
<1> HIDE DEF group, cfg, targets, kept, Own
<1>6. ASSUME targets \in Seq(Elems(targets)),
             NEW at \in [1 .. Len(targets) -> kept],
             \A k \in kept : \E i \in 1 .. Len(targets) : at[i] = k,
             \A i, j \in 1 .. Len(targets) : i < j => at[i] < at[j],
             \A i \in 1 .. Len(targets) :
               targets[i] = PopulateLabels(Own(at[i]), cfg) /\ targets[i].result = "target"
      PROVE  Right(at)
  <2>1. ASSUME NEW i \in 1 .. Len(targets)
        PROVE  /\ Dialable(Said(at[i]), targets[i].labels)
               /\ ParamsKept(Own(at[i]), Said(at[i]), cfg, URL(targets[i]).Params)
               /\ At(Labels(targets[i]), "job") = At(Said(at[i]), "job")
               /\ At(Labels(targets[i]), "instance") = targets[i].labels["instance"]
    <3>1. /\ targets[i] = PopulateLabels(Own(at[i]), cfg)
          /\ PopulateLabels(Own(at[i]), cfg).result = "target"
      BY <1>6
    <3> QED
      BY <1>2, <3>1, TargetDialable, TargetParams
  <2>2. Elems(PromTargets(targets)) =
          {At(Labels(targets[i]), "instance") :
             i \in {j \in 1 .. Len(targets) : At(Labels(targets[j]), "job") = "allprometheus"}}
    BY <1>6, PromTargetsAre
  <2> HIDE DEF Said
  <2>3. Elems(PromTargets(targets)) =
          {targets[i].labels["instance"] :
             i \in {j \in 1 .. Len(targets) : At(Said(at[j]), "job") = "allprometheus"}}
    BY <2>1, <2>2
  <2> QED
    BY <1>6, <2>1, <2>3
<1> HIDE DEF Right, Said
<1> QED
  BY <1>3, <1>4, <1>5, <1>6
=============================================================================
