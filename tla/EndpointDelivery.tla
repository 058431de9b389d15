-------------------------- MODULE EndpointDelivery --------------------------
(***************************************************************************)
(* What a remote.Writer promises, without configurations, queues or locks: *)
(* each endpoint has one queue for good.  A sample enters it at most once  *)
(* and after the older ones of its series, the endpoint sees it for the    *)
(* first time in that order, and it is settled in that order.  Sample      *)
(* <<a, n>> is the n-th one that appender a appended.                      *)
(***************************************************************************)
EXTENDS Integers

CONSTANTS
  Appenders,   \* goroutines that call Append
  Endpoints    \* remote write endpoints

VARIABLES
  count,       \* samples appended by each appender
  inflight,    \* the samples on their way to each endpoint
  stored       \* the samples that each endpoint holds

vars == <<count, inflight, stored>>

Init ==
  /\ count = [a \in Appenders |-> 0]
  /\ inflight = [e \in Endpoints |-> {}]
  /\ stored = [e \in Endpoints |-> {}]

\* x is the oldest sample of its series in S.
Oldest(x, S) == x \in S /\ \A y \in S : y[1] = x[1] => x[2] <= y[2]

Append(a) ==
  /\ count' = [count EXCEPT ![a] = @ + 1]
  /\ UNCHANGED <<inflight, stored>>

\* The endpoint's queue takes the newest sample of a, which it has not had.
Accept(a, e) ==
  /\ \A y \in inflight[e] \cup stored[e] : y[1] = a => y[2] < count[a]
  /\ inflight' = [inflight EXCEPT ![e] = @ \cup {<<a, count[a]>>}]
  /\ UNCHANGED <<count, stored>>

\* The endpoint takes a sample for the first time.
Deliver(e, x) ==
  /\ Oldest(x, inflight[e] \ stored[e])
  /\ stored' = [stored EXCEPT ![e] = @ \cup {x}]
  /\ UNCHANGED <<count, inflight>>

\* A sample is reported as sent, or given up.
Settle(e, x) ==
  /\ Oldest(x, inflight[e])
  /\ inflight' = [inflight EXCEPT ![e] = @ \ {x}]
  /\ UNCHANGED <<count, stored>>

Next ==
  \/ \E a \in Appenders : Append(a) \/ \E e \in Endpoints : Accept(a, e)
  \/ \E e \in Endpoints : \E x \in inflight[e] : Deliver(e, x) \/ Settle(e, x)

Spec == Init /\ [][Next]_vars
=============================================================================
