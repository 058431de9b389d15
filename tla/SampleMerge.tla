----------------------------- MODULE SampleMerge ----------------------------
(***************************************************************************)
(* Reading the samples of one series that the local storage and several    *)
(* remotes hold: sampleStreamIterator (storage/remote/iterator.go),        *)
(* mergeIterator and mergeSamples (storage/fanin/fanin.go).                *)
(*                                                                         *)
(* A sample is a record of a Timestamp and a Value; a stream is a sequence *)
(* of samples in the order of their timestamps.  A mergeIterator is a      *)
(* record of the stream `local', empty also when mit.local is nil, and the *)
(* sequence `remote' of streams in the order in which the goroutines of    *)
(* RemoteRead appended them.  The iterator of the local storage is not     *)
(* part of this repository and is taken to read a stream in the same way.  *)
(***************************************************************************)
EXTENDS Integers, Sequences

CONSTANTS
  Earliest,   \* model.Earliest
  Latest      \* model.Latest

ASSUME TimeAssumption == Earliest \in Int /\ Latest \in Int /\ Earliest < Latest

\* The elements of a sequence.
Elems(s) == {s[i] : i \in 1 .. Len(s)}

ZeroSamplePair == [Timestamp |-> Earliest, Value |-> 0]

\* sort.Search for the first sample that is not before t: how many are.  A
\* sample is after t when it is not before t + 1.
Search(values, t) ==
  CHOOSE n \in 0 .. Len(values) : /\ \A k \in 1 .. n : values[k].Timestamp < t
                                  /\ n < Len(values) => values[n + 1].Timestamp >= t

-----------------------------------------------------------------------------
\* sampleStreamIterator.ValueAtOrBeforeTime
StreamValueAtOrBeforeTime(values, ts) ==
  LET i == Search(values, ts + 1)
  IN IF i = 0 THEN ZeroSamplePair ELSE values[i]

\* sampleStreamIterator.RangeValues
StreamRangeValues(values, in) ==
  LET start == Search(values, in.OldestInclusive)
      end   == Search(values, in.NewestInclusive + 1)
  IN IF start = Len(values) THEN <<>> ELSE SubSeq(values, start + 1, end)

-----------------------------------------------------------------------------
\* Mutant: at equal timestamps only a advances.
MergeTurnTwice(a, b, s) ==
  IF s.i = Len(a) \/ s.j = Len(b) THEN s
  ELSE LET first == a[s.i + 1].Timestamp <= b[s.j + 1].Timestamp
       IN [i      |-> IF first THEN s.i + 1 ELSE s.i,
           j      |-> IF first THEN s.j ELSE s.j + 1,
           result |-> Append(s.result, IF first THEN a[s.i + 1] ELSE b[s.j + 1])]

\* A turn of the loop of mergeSamples, with i and j samples of a and b done: at
\* equal timestamps the sample of a stays, that of b goes.  The loop has ended
\* where a turn changes nothing.
MergeTurn(a, b, s) ==
  IF s.i = Len(a) \/ s.j = Len(b) THEN s
  ELSE LET x == a[s.i + 1]
           y == b[s.j + 1]
       IN [i      |-> IF x.Timestamp <= y.Timestamp THEN s.i + 1 ELSE s.i,
           j      |-> IF y.Timestamp <= x.Timestamp THEN s.j + 1 ELSE s.j,
           result |-> Append(s.result, IF x.Timestamp <= y.Timestamp THEN x ELSE y)]

\* mergeSamples: the loop ends within Len(a) + Len(b) turns, and what is left
\* of a and b follows.
MergeSamples(a, b) ==
  LET after[n \in 0 .. Len(a) + Len(b)] ==
        IF n = 0 THEN [i |-> 0, j |-> 0, result |-> <<>>] ELSE MergeTurn(a, b, after[n - 1])
      end == after[Len(a) + Len(b)]
  IN end.result \o SubSeq(a, end.i + 1, Len(a)) \o SubSeq(b, end.j + 1, Len(b))

\* Mutant: of several remotes the last with the newest sample wins.
NewerOrEqual(best, v) == IF v.Timestamp >= best.Timestamp THEN v ELSE best

\* What a remote's value makes of the newest so far.
Newer(best, v) == IF v.Timestamp > best.Timestamp THEN v ELSE best

\* mergeIterator.ValueAtOrBeforeTime
ValueAtOrBeforeTime(mit, t) ==
  LET own == StreamValueAtOrBeforeTime(mit.local, t)
      latest[n \in 0 .. Len(mit.remote)] ==
        IF n = 0 THEN own
        ELSE Newer(latest[n - 1], StreamValueAtOrBeforeTime(mit.remote[n], t))
  IN IF own # ZeroSamplePair THEN own ELSE latest[Len(mit.remote)]

\* The samples of a remote before the cutoff.
OldRangeValues(stream, in, cutoff) ==
  LET vs == StreamRangeValues(stream, in)
  IN SubSeq(vs, 1, Search(vs, cutoff))

\* mergeIterator.RangeValues: of the remotes, only the samples older than the
\* oldest local one in the interval.
RangeValues(mit, in) ==
  LET own    == StreamRangeValues(mit.local, in)
      cutoff == IF own = <<>> THEN Latest ELSE own[1].Timestamp
      values[n \in 0 .. Len(mit.remote)] ==
        IF n = 0 THEN own
        ELSE MergeSamples(values[n - 1], OldRangeValues(mit.remote[n], in, cutoff))
  IN values[Len(mit.remote)]

-----------------------------------------------------------------------------
\* The samples and streams that a series can have: at most one sample for a
\* time, and none at the ends of time, of which Earliest marks ZeroSamplePair
\* and Latest stands for no cutoff.
Samples == [Timestamp: (Earliest + 1) .. (Latest - 1), Value: Int]
Increasing(s) == \A i, j \in 1 .. Len(s) : i < j => s[i].Timestamp < s[j].Timestamp
Streams == {s \in Seq(Samples) : Increasing(s)}
=============================================================================
