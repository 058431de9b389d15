----------------------------- MODULE RangeQuery -----------------------------
(***************************************************************************)
(* The parameters of the API's query handlers: parseTime, parseDuration,   *)
(* and what query and queryRange accept (web/api/v1/api.go).               *)
(*                                                                         *)
(* A parameter is a record of its form and its value in nanoseconds:       *)
(* "float", a number of seconds; "nan", the number NaN; "text", an         *)
(* RFC 3339 time or a duration like 5m; "bad", anything else; and "",      *)
(* none.  Integers are 64 bits wide in the code and wrap; here they range  *)
(* over -Half .. Half - 1.                                                 *)
(***************************************************************************)
EXTENDS Integers

CONSTANTS
  Half,           \* 2^63
  NanosPerTick,   \* nanoseconds in a millisecond, the unit of model.Time
  MaxPoints       \* 11000

ASSUME WidthAssumption ==
  /\ Half \in Nat \ {0}
  /\ NanosPerTick \in Nat \ {0}
  /\ MaxPoints \in Nat

\* Integers wrap; division rounds towards zero.
Wrap(n) == ((n + Half) % (2 * Half)) - Half
Div(a, b) == IF a >= 0 THEN a \div b ELSE -((-a) \div b)

\* The conversion of a float64 to int64: implementation-specific when the
\* number is out of range.  float64(math.MaxInt64) is 2^63, so that the
\* number 2^63 itself passes the tests of parseTime and parseDuration.
Int64(param) ==
  IF param.form = "float" /\ param.value \in -Half .. Half - 1 THEN {param.value}
  ELSE {-Half, 0, Half - 1}

\* Whether a parameter is refused by parseTime and parseDuration.
Unparsable(param) ==
  \/ param.form \in {"", "bad"}
  \/ param.form = "float" /\ (param.value > Half \/ param.value < -Half)

\* parseDuration, of a parameter that can be parsed.
ParseDuration(param) ==
  IF param.form = "text" THEN {Wrap(param.value)} ELSE Int64(param)

\* parseTime, of a parameter that can be parsed: in milliseconds.
ParseTime(param) == {Div(n, NanosPerTick) : n \in ParseDuration(param)}

-----------------------------------------------------------------------------
\* Time.Sub: the difference of two times is in nanoseconds and wraps.
Sub(end, start) == Wrap((end - start) * NanosPerTick)

\* Mutant: a step that is not complete counts as well.
TooManyPoints(start, end, step) == Sub(end, start) > MaxPoints * step

\* end.Sub(start)/step > 11000
ExceedsResolution(start, end, step) == Div(Sub(end, start), step) > MaxPoints

\* queryRange: whether these times and this step get as far as the engine.
AcceptsRange(start, end, step) ==
  /\ end >= start
  /\ step > 0
  /\ ~ ExceedsResolution(start, end, step)

\* The ranges that the engine may be asked for; none if the parameters are
\* bad data.  The timeout is optional, here and in query.
EngineRanges(start, end, step, timeout) ==
  IF Unparsable(start) \/ Unparsable(end) \/ Unparsable(step)
     \/ (timeout.form # "" /\ Unparsable(timeout))
    THEN {}
    ELSE {r \in [start: ParseTime(start), end: ParseTime(end), step: ParseDuration(step)] :
            AcceptsRange(r.start, r.end, r.step)}

\* How often the engine goes on from one point to the next, starting with one
\* at r.start: ts.Add(s.Interval) drops what is less than a millisecond of the
\* step.  It gets nowhere with a step of less than that.
Tick(step) == Div(step, NanosPerTick)
Steps(r) == (r.end - r.start) \div Tick(r.step)
=============================================================================
