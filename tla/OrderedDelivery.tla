--------------------------- MODULE OrderedDelivery --------------------------
(***************************************************************************)
(* What the remote-write queue promises, without shards, batches or        *)
(* goroutines: a set of samples on their way to a remote storage that sees *)
(* the samples of one series for the first time in the order they were     *)
(* appended, and that settles each of them once, again in that order.      *)
(* A sample may reach the remote storage several times (a retry after a    *)
(* lost reply) and may be given up.                                        *)
(***************************************************************************)
EXTENDS Naturals

CONSTANT Series

VARIABLES
  nextId,     \* id of the next sample
  inflight,   \* samples on their way
  dropped,    \* samples refused because a buffer was full
  succeeded,  \* samples reported as sent
  failed,     \* samples reported as given up
  stored      \* samples the remote storage holds

vars == <<nextId, inflight, dropped, succeeded, failed, stored>>

\* Nothing of S's series that was appended before a member of S is left in R.
Precedes(S, R) == \A x \in S, y \in R : x.series = y.series => x.id < y.id

Init ==
  /\ nextId = 1
  /\ inflight = {}
  /\ dropped = {}
  /\ succeeded = {}
  /\ failed = {}
  /\ stored = {}

Accept(s) ==
  /\ nextId' = nextId + 1
  /\ inflight' = inflight \cup {[id |-> nextId, series |-> s]}
  /\ UNCHANGED <<dropped, succeeded, failed, stored>>

Drop(s) ==
  /\ nextId' = nextId + 1
  /\ dropped' = dropped \cup {[id |-> nextId, series |-> s]}
  /\ UNCHANGED <<inflight, succeeded, failed, stored>>

\* The remote storage takes S.
Deliver(S) ==
  /\ Precedes(S \ stored, inflight \ (S \cup stored))
  /\ stored' = stored \cup S

\* The remote storage takes S, and the sender will try again.
Attempt(S) ==
  /\ Deliver(S)
  /\ UNCHANGED <<nextId, inflight, dropped, succeeded, failed>>

Succeed(B) ==
  /\ Precedes(B, inflight \ B)
  /\ Deliver(B)
  /\ inflight' = inflight \ B
  /\ succeeded' = succeeded \cup B
  /\ UNCHANGED <<nextId, dropped, failed>>

\* B is given up; the remote storage has taken S of it in the attempt.
GiveUp(B, S) ==
  /\ Precedes(B, inflight \ B)
  /\ Deliver(S)
  /\ inflight' = inflight \ B
  /\ failed' = failed \cup B
  /\ UNCHANGED <<nextId, dropped, succeeded>>

Next ==
  \/ \E s \in Series : Accept(s) \/ Drop(s)
  \/ \E B \in SUBSET inflight :
        \/ Attempt(B)
        \/ Succeed(B)
        \/ \E S \in SUBSET B : GiveUp(B, S)

Spec == Init /\ [][Next]_vars
=============================================================================
