------------------------------ MODULE ReadQuery -----------------------------
(***************************************************************************)
(* What one remote is asked and what is made of its answer: querier.read,  *)
(* addExternalLabels and removeLabels (storage/remote/read.go), and the    *)
(* time parameters of Client.Read (storage/remote/client.go).              *)
(*                                                                         *)
(* A label set is a function from all label names to their values, Absent  *)
(* for a label it lacks, which to a matcher is the empty value.  A matcher *)
(* is a record of a name, a type, Equal or NotEqual, and a value: what the *)
(* code does to matchers does not look at regular expressions.  Times are  *)
(* in milliseconds, as in model.Time.                                      *)
(***************************************************************************)
EXTENDS Integers

CONSTANTS
  LabelNames,    \* names of labels
  LabelValues,   \* their values
  Absent         \* no such label; the empty value

ASSUME LabelAssumption == Absent \notin LabelValues

LabelSets == [LabelNames -> LabelValues \cup {Absent}]

Matchers == [name: LabelNames, type: {"Equal", "NotEqual"},
             value: LabelValues \cup {Absent}]

\* How the remote matches a series.
Matches(metric, matchers) ==
  \A m \in matchers : (metric[m.name] = m.value) <=> (m.type = "Equal")

-----------------------------------------------------------------------------
\* Mutant: the external labels are added whatever the user asks for.
ExternalAll(externalLabels, matchers) == externalLabels

\* addExternalLabels: the external labels without a matcher of the user.
External(externalLabels, matchers) ==
  [n \in LabelNames |->
     IF \E m \in matchers : m.name = n THEN Absent ELSE externalLabels[n]]

\* addExternalLabels: the matchers that are sent.
AddExternalLabels(externalLabels, matchers) ==
  LET el == External(externalLabels, matchers)
  IN matchers \cup {[name |-> n, type |-> "Equal", value |-> el[n]] :
                      n \in {n \in LabelNames : el[n] # Absent}}

\* removeLabels, for one series.
RemoveLabels(metric, labels) ==
  [n \in LabelNames |-> IF labels[n] # Absent THEN Absent ELSE metric[n]]

\* querier.read: the series of the remote that match, with the added labels
\* removed.  MatrixToIterators makes one iterator of each.
Read(store, externalLabels, matchers) ==
  LET m     == AddExternalLabels(externalLabels, matchers)
      added == External(externalLabels, matchers)
  IN {RemoveLabels(metric, added) : metric \in {s \in store : Matches(s, m)}}

-----------------------------------------------------------------------------
TicksPerSecond == 1000   \* nanosPerTick, whose value is used for this
Step           == 2      \* q.Set("step", "2"), in seconds

\* Division in Go rounds towards zero.
Quotient(a, b) == IF a >= 0 THEN a \div b ELSE -((-a) \div b)

\* QueryInstant reads the staleness delta before the instant.
InstantWindow(ts, stalenessDelta) == [from |-> ts - stalenessDelta, through |-> ts]

\* Mutant: the constant of the same name in web/api/v1/api.go.
SecondsByOtherTick(t) == Quotient(t, 1000 * TicksPerSecond)

\* strconv.Itoa(int(t) / int(nanosPerTick))
Seconds(t) == Quotient(t, TicksPerSecond)

\* The instants for which the remote evaluates the query, in milliseconds:
\* from the start in steps up to the end.
Instants(window) ==
  LET start == Seconds(window.from)
      end   == Seconds(window.through)
  IN {TicksPerSecond * (start + Step * k) : k \in 0 .. (end - start) \div Step}
=============================================================================
