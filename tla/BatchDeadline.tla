---------------------------- MODULE BatchDeadline ---------------------------
(***************************************************************************)
(* The clock of runShard (storage/remote/queue_manager.go): how long a     *)
(* sample can sit in pendingSamples.  Module QueueManager has the same     *)
(* loop without time; here the samples are only counted, and the channel   *)
(* delivers one whenever it likes.                                         *)
(*                                                                         *)
(* time.After is called anew by every turn of the loop, so that each       *)
(* sample that arrives restarts the deadline of the ones before it.        *)
(***************************************************************************)
EXTENDS Integers

CONSTANTS
  MaxSamplesPerSend,  \* cfg.MaxSamplesPerSend
  BatchSendDeadline   \* cfg.BatchSendDeadline, in ticks of the clock

\* What the proof assumes of them; the default is 100 samples and 5 seconds.
Configured ==
  /\ MaxSamplesPerSend \in Nat \ {0}
  /\ BatchSendDeadline \in Nat \ {0}

VARIABLES
  loop,   \* "select", "send", "flush" or "done"
  count,  \* len(pendingSamples)
  age,    \* how long the oldest of them has been there
  timer   \* how long this turn of the loop has been waiting

vars == <<loop, count, age, timer>>

Init ==
  /\ loop = "select"
  /\ count = 0
  /\ age = 0
  /\ timer = 0

\* The clock moves; a deadline that is due fires before it moves on.
Wait ==
  /\ loop = "select"
  /\ timer < BatchSendDeadline
  /\ timer' = timer + 1
  /\ age' = IF count > 0 THEN age + 1 ELSE 0
  /\ UNCHANGED <<loop, count>>

\* case sample, ok := <-queue, with ok
Receive ==
  /\ loop = "select"
  /\ count' = count + 1
  /\ timer' = 0
  /\ loop' = IF count + 1 >= MaxSamplesPerSend THEN "send" ELSE "select"
  /\ UNCHANGED age

\* case <-time.After(s.qm.cfg.BatchSendDeadline)
Deadline ==
  /\ loop = "select"
  /\ timer = BatchSendDeadline
  /\ timer' = 0
  /\ loop' = IF count > 0 THEN "send" ELSE "select"
  /\ UNCHANGED <<count, age>>

\* case sample, ok := <-queue, with !ok
Closed ==
  /\ loop = "select"
  /\ timer' = 0
  /\ loop' = IF count > 0 THEN "flush" ELSE "done"
  /\ UNCHANGED <<count, age>>

\* sendSamples returns
Sent ==
  /\ loop \in {"send", "flush"}
  /\ loop' = IF loop = "send" THEN "select" ELSE "done"
  /\ count' = 0
  /\ age' = 0
  /\ UNCHANGED timer

Returned == loop = "done" /\ UNCHANGED vars

Next == Wait \/ Receive \/ Deadline \/ Closed \/ Sent \/ Returned

Spec == Init /\ [][Next]_vars

-----------------------------------------------------------------------------
\* Types of the variables, for the proof; a batch never exceeds
\* MaxSamplesPerSend.
TypeOK ==
  /\ loop \in {"select", "send", "flush", "done"}
  /\ count \in 0 .. MaxSamplesPerSend
  /\ age \in Nat
  /\ timer \in 0 .. BatchSendDeadline

\* "Maximum time sample will wait in buffer." (queue_manager.go, on
\* BatchSendDeadline): no sample of the batch is older than that.
WaitsWithinDeadline == age <= BatchSendDeadline

\* What holds instead: every sample of the batch restarts the deadline once, so
\* the oldest waits for at most one deadline per sample.
WaitsAtMost == age <= count * BatchSendDeadline

\* The inductive form of WaitsAtMost: one deadline per sample before the last
\* one, and the turn that is being waited.
AgeBound ==
  /\ loop = "select" /\ count = 0 => age = 0
  /\ loop = "select" /\ count > 0 => age <= (count - 1) * BatchSendDeadline + timer
  /\ loop = "select" => count < MaxSamplesPerSend
  /\ loop = "done" => count = 0 /\ age = 0

IInv == TypeOK /\ AgeBound /\ WaitsAtMost
=============================================================================
