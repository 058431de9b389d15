------------------------------- MODULE Writer -------------------------------
(***************************************************************************)
(* remote.Writer (storage/remote/write.go): the remote-write queues of a   *)
(* configuration, replaced as a whole when a configuration is applied,     *)
(* while samples are being appended.                                       *)
(*                                                                         *)
(* A queue manager appears here as module OrderedDelivery describes it:    *)
(* samples on their way, of which the oldest of a series is sent or given  *)
(* up first (QueueManager implements this).  The queues of the g-th        *)
(* configuration are the pairs <<g, e>> with e an endpoint of it; g = 0    *)
(* is the zero Writer, without queues.                                     *)
(*                                                                         *)
(* Each appender writes its own series: sample <<a, n>> is the n-th sample *)
(* that appender a appended.                                               *)
(*                                                                         *)
(* An operator marked as a mutant is a plausible bug in the operator after *)
(* it; Next does not use it.                                               *)
(***************************************************************************)
EXTENDS Integers, FiniteSets

CONSTANTS
  Appenders,   \* goroutines that call Append
  Endpoints,   \* remote write endpoints
  None,        \* no queue
  MaxReloads,  \* bound: configurations applied with success
  MaxSamples   \* bound: samples of each appender

ASSUME WriterAssumption ==
  /\ None \notin (0 .. MaxReloads) \X Endpoints
  /\ MaxReloads \in Nat
  /\ MaxSamples \in Nat

Gens    == 0 .. MaxReloads
Queues  == Gens \X Endpoints
Samples == Appenders \X (1 .. MaxSamples)

\* The goroutines that stop queues: the caller of ApplyConfig, and that of
\* Stop.
Stoppers == {"apply", "stop"}

VARIABLES
  queues,    \* w.queues, the configuration whose queues it holds
  conf,      \* the endpoints of each configuration
  apply,     \* how far ApplyConfig has come
  toStart,   \* the queues that it has still to start
  stop,      \* Writer.Stop has been called
  toStop,    \* the queues that each stopper's loop has still to stop
  stopping,  \* the queue whose Stop it is waiting for
  phase,     \* how far Stop of each queue manager has come
  started,   \* Start of the queue manager has been called
  sending,   \* the samples on their way in each queue
  stored,    \* the samples that each endpoint holds
  pc,        \* where each appender is
  from,      \* the configuration whose queues it iterates over
  left,      \* the queues it has still to hand its sample to
  count,     \* samples appended by each appender
  panic      \* why the process died, or "none"

config   == <<queues, conf, apply, toStart>>
stoppers == <<stop, toStop, stopping>>
managers == <<phase, started>>
appends  == <<pc, from, left, count>>
vars == <<config, stoppers, managers, sending, stored, appends, panic>>

QueuesOf(g) == {q \in Queues : q[1] = g /\ q[2] \in conf[g]}

Init ==
  /\ queues = 0
  /\ conf = [g \in Gens |-> {}]
  /\ apply = "idle"
  /\ toStart = {}
  /\ stop = FALSE
  /\ toStop = [p \in Stoppers |-> {}]
  /\ stopping = [p \in Stoppers |-> None]
  /\ phase = [q \in Queues |-> "none"]
  /\ started = [q \in Queues |-> FALSE]
  /\ sending = [q \in Queues |-> {}]
  /\ stored = [e \in Endpoints |-> {}]
  /\ pc = [a \in Appenders |-> "idle"]
  /\ from = [a \in Appenders |-> 0]
  /\ left = [a \in Appenders |-> {}]
  /\ count = [a \in Appenders |-> 0]
  /\ panic = "none"

-----------------------------------------------------------------------------
(***************************************************************************)
(* ApplyConfig, by one goroutine at a time: main before it starts the      *)
(* others, and then the one that waits for SIGHUP.                         *)
(***************************************************************************)

\* The call.  It waits for the write lock, and while it does no Append gets
\* the read lock.
ApplyConfig ==
  /\ apply = "idle"
  /\ queues < MaxReloads
  /\ apply' = "lock"
  /\ UNCHANGED <<queues, conf, toStart, stoppers, managers, sending, stored,
                 appends, panic>>

\* Mutant: no w.mtx.Lock().
NoLock == TRUE

\* w.mtx.Lock() returns: no Append holds the read lock.
Locked == \A a \in Appenders : pc[a] # "append"

\* NewClient fails for one of the endpoints: nothing has changed.
ApplyConfigFails ==
  /\ apply = "lock"
  /\ Locked
  /\ apply' = "idle"
  /\ UNCHANGED <<queues, conf, toStart, stoppers, managers, sending, stored,
                 appends, panic>>

\* The queues for endpoints E are made, and the old ones are to be stopped.
MakeQueues(E) ==
  /\ apply = "lock"
  /\ Locked
  /\ conf' = [conf EXCEPT ![queues + 1] = E]
  /\ phase' = [q \in Queues |->
                 IF q[1] = queues + 1 /\ q[2] \in E THEN "open" ELSE phase[q]]
  /\ toStop' = [toStop EXCEPT !["apply"] = QueuesOf(queues)]
  /\ apply' = "stop"
  /\ UNCHANGED <<queues, toStart, stop, stopping, started, sending, stored,
                 appends, panic>>

\* Mutant: the last q.Stop() is not waited for.
SwapQueuesEarly ==
  /\ apply = "stop"
  /\ toStop["apply"] = {}
  /\ queues' = queues + 1
  /\ toStart' = QueuesOf(queues + 1)
  /\ apply' = "start"
  /\ UNCHANGED <<conf, stoppers, managers, sending, stored, appends, panic>>

\* w.queues = newQueues, after the loop that stops the old ones
SwapQueues ==
  /\ apply = "stop"
  /\ toStop["apply"] = {}
  /\ stopping["apply"] = None
  /\ queues' = queues + 1
  /\ toStart' = QueuesOf(queues + 1)
  /\ apply' = "start"
  /\ UNCHANGED <<conf, stoppers, managers, sending, stored, appends, panic>>

\* q.Start(); it takes a mutex that a Stop of this queue holds while it drains.
StartQueue(q) ==
  /\ apply = "start"
  /\ q \in toStart
  /\ phase[q] # "draining"
  /\ toStart' = toStart \ {q}
  /\ started' = [started EXCEPT ![q] = TRUE]
  /\ UNCHANGED <<queues, conf, apply, stoppers, phase, sending, stored, appends,
                 panic>>

\* Mutant: ApplyConfig returns without having started the queues.
AppliedEarly ==
  /\ apply = "start"
  /\ apply' = "idle"
  /\ toStart' = {}
  /\ UNCHANGED <<queues, conf, stoppers, managers, sending, stored, appends,
                 panic>>

\* ApplyConfig returns, and the lock is released.
Applied ==
  /\ apply = "start"
  /\ toStart = {}
  /\ apply' = "idle"
  /\ UNCHANGED <<queues, conf, toStart, stoppers, managers, sending, stored,
                 appends, panic>>

-----------------------------------------------------------------------------
(***************************************************************************)
(* Stopping queues.                                                        *)
(***************************************************************************)

\* Writer.Stop; it takes no lock.
Stop ==
  /\ ~stop
  /\ stop' = TRUE
  /\ toStop' = [toStop EXCEPT !["stop"] = QueuesOf(queues)]
  /\ UNCHANGED <<config, stopping, managers, sending, stored, appends, panic>>

\* The next q.Stop() in the loop of stopper p: close(t.quit).
StopQueue(p, q) ==
  /\ stopping[p] = None
  /\ q \in toStop[p]
  /\ phase[q] = "open"
  /\ toStop' = [toStop EXCEPT ![p] = @ \ {q}]
  /\ stopping' = [stopping EXCEPT ![p] = q]
  /\ phase' = [phase EXCEPT ![q] = "quitting"]
  /\ UNCHANGED <<config, stop, started, sending, stored, appends, panic>>

\* Another stopper has been here: close of a closed channel.
StopQueuePanics(p, q) ==
  /\ stopping[p] = None
  /\ q \in toStop[p]
  /\ phase[q] # "open"
  /\ panic' = "close of closed channel"
  /\ UNCHANGED <<config, stoppers, managers, sending, stored, appends>>

\* q.Stop() has the mutex of the shards and closes their channels.
CloseQueue(q) ==
  /\ phase[q] = "quitting"
  /\ phase' = [phase EXCEPT ![q] = "draining"]
  /\ UNCHANGED <<config, stoppers, started, sending, stored, appends, panic>>

\* q.Stop() returns: the shards, if anyone ever started them, are done.
QueueStopped(p) ==
  LET q == stopping[p] IN
  /\ q # None
  /\ phase[q] = "draining"
  /\ started[q]
  /\ sending[q] = {}
  /\ phase' = [phase EXCEPT ![q] = "stopped"]
  /\ stopping' = [stopping EXCEPT ![p] = None]
  /\ UNCHANGED <<config, stop, toStop, started, sending, stored, appends, panic>>

-----------------------------------------------------------------------------
(***************************************************************************)
(* Append, by appender a.                                                  *)
(***************************************************************************)

\* The call.
Append(a) ==
  /\ pc[a] = "idle"
  /\ count[a] < MaxSamples
  /\ pc' = [pc EXCEPT ![a] = "rlock"]
  /\ count' = [count EXCEPT ![a] = @ + 1]
  /\ UNCHANGED <<config, stoppers, managers, sending, stored, from, left, panic>>

\* w.mtx.RLock() returns.
RLock(a) ==
  /\ pc[a] = "rlock"
  /\ apply = "idle"
  /\ pc' = [pc EXCEPT ![a] = "append"]
  /\ from' = [from EXCEPT ![a] = queues]
  /\ left' = [left EXCEPT ![a] = QueuesOf(queues)]
  /\ UNCHANGED <<config, stoppers, managers, sending, stored, count, panic>>

\* Mutant: the loop comes back to a queue that has taken the sample.
AppendToAgain(a, q, accepted) ==
  /\ pc[a] = "append"
  /\ q \in left[a]
  /\ phase[q] \in {"open", "quitting"}
  /\ left' = [left EXCEPT ![a] = IF accepted THEN @ ELSE @ \ {q}]
  /\ sending' = [sending EXCEPT ![q] =
                   IF accepted THEN @ \cup {<<a, count[a]>>} ELSE @]
  /\ UNCHANGED <<config, stoppers, managers, stored, pc, from, count, panic>>

\* q.Append(smpl); the queue drops the sample if it is full, and blocks while
\* a Stop of the queue holds its mutex.
AppendTo(a, q, accepted) ==
  /\ pc[a] = "append"
  /\ q \in left[a]
  /\ phase[q] \in {"open", "quitting"}
  /\ left' = [left EXCEPT ![a] = @ \ {q}]
  /\ sending' = [sending EXCEPT ![q] =
                   IF accepted THEN @ \cup {<<a, count[a]>>} ELSE @]
  /\ UNCHANGED <<config, stoppers, managers, stored, pc, from, count, panic>>

AppendPanics(a, q) ==
  /\ pc[a] = "append"
  /\ q \in left[a]
  /\ phase[q] = "stopped"
  /\ panic' = "send on closed channel"
  /\ UNCHANGED <<config, stoppers, managers, sending, stored, appends>>

\* Mutant: Append returns without w.mtx.RUnlock().
AppendedLocked(a) ==
  /\ pc[a] = "append"
  /\ left[a] = {}
  /\ UNCHANGED vars

\* Append returns, and the read lock is released.
Appended(a) ==
  /\ pc[a] = "append"
  /\ left[a] = {}
  /\ pc' = [pc EXCEPT ![a] = "idle"]
  /\ UNCHANGED <<config, stoppers, managers, sending, stored, from, left, count,
                 panic>>

-----------------------------------------------------------------------------
(***************************************************************************)
(* A queue manager at work, as OrderedDelivery has it.                     *)
(***************************************************************************)

\* x is the oldest sample of its series in S.
Oldest(x, S) == x \in S /\ \A y \in S : y[1] = x[1] => x[2] <= y[2]

\* The endpoint takes a sample for the first time.
Send(q, x) ==
  /\ started[q]
  /\ Oldest(x, sending[q] \ stored[q[2]])
  /\ stored' = [stored EXCEPT ![q[2]] = @ \cup {x}]
  /\ UNCHANGED <<config, stoppers, managers, sending, appends, panic>>

\* A sample is reported as sent, or given up.
Settle(q, x) ==
  /\ started[q]
  /\ Oldest(x, sending[q])
  /\ sending' = [sending EXCEPT ![q] = @ \ {x}]
  /\ UNCHANGED <<config, stoppers, managers, stored, appends, panic>>

-----------------------------------------------------------------------------
ApplyStep ==
  \/ ApplyConfigFails
  \/ \E E \in SUBSET Endpoints : MakeQueues(E)
  \/ SwapQueues
  \/ \E q \in Queues : StartQueue(q)
  \/ Applied

StopStep(p) ==
  \/ \E q \in Queues : StopQueue(p, q) \/ StopQueuePanics(p, q)
  \/ QueueStopped(p)

AppendStep(a) ==
  \/ \E q \in Queues :
       \/ \E accepted \in BOOLEAN : AppendTo(a, q, accepted)
       \/ AppendPanics(a, q)
  \/ Appended(a)

Alive(A) == panic = "none" /\ A

\* The process is dead, Stop has been called (which may block ApplyConfig for
\* good), or all calls that are modelled have returned.
Terminated ==
  /\ \/ panic # "none"
     \/ stop
     \/ queues = MaxReloads /\ apply = "idle" /\ \A a \in Appenders : pc[a] = "idle"
  /\ UNCHANGED vars

Next ==
  \/ Alive(ApplyConfig)
  \/ Alive(ApplyStep)
  \/ Alive(Stop)
  \/ \E p \in Stoppers : Alive(StopStep(p))
  \/ \E q \in Queues : Alive(CloseQueue(q))
  \/ \E a \in Appenders :
       Alive(Append(a)) \/ Alive(RLock(a)) \/ Alive(AppendStep(a))
  \/ \E q \in Queues, x \in Samples : Alive(Send(q, x)) \/ Alive(Settle(q, x))
  \/ Terminated

Spec == Init /\ [][Next]_vars

\* Goroutines are scheduled, a queue settles its samples after a bounded
\* number of retries, and a reader that waits for the lock gets it before the
\* next writer (sync.RWMutex), so that it cannot be passed over for ever.
Fairness ==
  /\ WF_vars(Alive(ApplyStep))
  /\ \A p \in Stoppers : WF_vars(Alive(StopStep(p)))
  /\ \A q \in Queues : WF_vars(Alive(CloseQueue(q)))
  /\ \A q \in Queues : WF_vars(\E x \in Samples : Alive(Settle(q, x)))
  /\ \A a \in Appenders : SF_vars(Alive(RLock(a))) /\ WF_vars(Alive(AppendStep(a)))

FairSpec == Spec /\ Fairness

-----------------------------------------------------------------------------
(***************************************************************************)
(* Properties.                                                             *)
(***************************************************************************)

Types ==
  /\ queues \in Gens
  /\ conf \in [Gens -> SUBSET Endpoints]
  /\ apply \in {"idle", "lock", "stop", "start"}
  /\ toStart \subseteq Queues
  /\ stop \in BOOLEAN
  /\ toStop \in [Stoppers -> SUBSET Queues]
  /\ stopping \in [Stoppers -> Queues \cup {None}]
  /\ phase \in [Queues -> {"none", "open", "quitting", "draining", "stopped"}]
  /\ started \in [Queues -> BOOLEAN]
  /\ sending \in [Queues -> SUBSET Samples]
  /\ stored \in [Endpoints -> SUBSET Samples]
  /\ pc \in [Appenders -> {"idle", "rlock", "append"}]
  /\ from \in [Appenders -> Gens]
  /\ left \in [Appenders -> SUBSET Queues]
  /\ count \in [Appenders -> 0 .. MaxSamples]
  /\ panic \in {"none", "close of closed channel", "send on closed channel"}

LoopsInSlices ==
  /\ \A a \in Appenders : left[a] \subseteq QueuesOf(from[a])
  /\ toStart \subseteq QueuesOf(queues)

\* Types of the variables; a loop over queues stays within the slice that it
\* began with.
TypeOK == Types /\ LoopsInSlices

\* Replacing the queues keeps the order: a sample that an endpoint has not
\* seen yet is newer than every sample of its series that the endpoint has,
\* even if a queue of an earlier configuration sent that one.
EndpointOrder ==
  \A q \in Queues : \A x \in sending[q] \ stored[q[2]], y \in stored[q[2]] :
     x[1] = y[1] => y[2] < x[2]

\* However Append and ApplyConfig interleave, neither of them panics: that
\* takes a call of Stop.
OnlyStopPanics == panic # "none" => stop

\* A queue that an Append has yet to reach runs, also if the configuration is
\* applied meanwhile or has failed to apply; and outside ApplyConfig, every
\* queue of the Writer does.
AppendFindsRunning ==
  ~stop =>
     /\ \A a \in Appenders : \A q \in left[a] : phase[q] = "open" /\ started[q]
     /\ apply = "idle" => \A q \in QueuesOf(queues) : phase[q] = "open" /\ started[q]

\* ApplyConfig returns although it flushes the old queues under the lock, and
\* so does every Append that waits for it.
CallsReturn ==
  /\ (apply = "lock") ~> (apply = "idle" \/ stop)
  /\ \A a \in Appenders : (pc[a] = "rlock") ~> (pc[a] = "idle" \/ stop)

-----------------------------------------------------------------------------
\* The samples on their way to each endpoint, in whichever queue.
OnTheWay == [e \in Endpoints |-> UNION {sending[q] : q \in {r \in Queues : r[2] = e}}]

Delivery == INSTANCE EndpointDelivery WITH inflight <- OnTheWay

\* To an endpoint, ApplyConfig is invisible: the queues of all configurations
\* are to it one queue that never changes.  A sample enters it at most once,
\* also when the configuration is applied in the middle of an Append or
\* between two, and samples leave it in their order.
ImplementsEndpointDelivery == Delivery!Spec

-----------------------------------------------------------------------------
(***************************************************************************)
(* The inductive invariant behind EndpointOrder, OnlyStopPanics and        *)
(* AppendFindsRunning.                                                     *)
(***************************************************************************)

\* An Append that holds the lock iterates over the current queues, and
\* ApplyConfig has not got the lock.
LockHeld ==
  /\ \A a \in Appenders :
       /\ from[a] <= queues
       /\ pc[a] = "append" => from[a] = queues /\ apply \in {"idle", "lock"}
       /\ pc[a] # "append" => left[a] = {}
       /\ pc[a] # "idle" => count[a] > 0
  /\ apply \in {"lock", "stop"} => queues < MaxReloads
  /\ apply # "start" => toStart = {}

\* Only the current queues hold samples, and not after they have stopped;
\* while ApplyConfig stops them, each is ahead, being stopped or stopped.
Flushed ==
  /\ \A q \in Queues :
       sending[q] # {} => q \in QueuesOf(queues) /\ phase[q] # "stopped"
  /\ apply = "stop" =>
       \A q \in QueuesOf(queues) :
          q \in toStop["apply"] \/ stopping["apply"] = q \/ phase[q] = "stopped"

\* A sample's number is not larger than its appender's count.
Numbered ==
  /\ \A q \in Queues : \A x \in sending[q] : x[2] <= count[x[1]]
  /\ \A e \in Endpoints : \A x \in stored[e] : x[2] <= count[x[1]]

\* Without a call of Stop, ApplyConfig is the only one to stop queues: it
\* finds each of the current ones open, and leaves the next ones open.
Undisturbed ==
  ~stop =>
    /\ panic = "none"
    /\ toStop["stop"] = {} /\ stopping["stop"] = None
    /\ toStop["apply"] \subseteq QueuesOf(queues)
    /\ \A q \in toStop["apply"] : phase[q] = "open" /\ stopping["apply"] # q
    /\ apply # "stop" =>
         /\ toStop["apply"] = {} /\ stopping["apply"] = None
         /\ \A q \in QueuesOf(queues) : phase[q] = "open" /\ (started[q] \/ q \in toStart)
    /\ apply = "stop" =>
         /\ stopping["apply"] \in QueuesOf(queues) \cup {None}
         /\ \A q \in QueuesOf(queues + 1) : phase[q] = "open"
    /\ \A q \in Queues : phase[q] \in {"quitting", "draining"} => stopping["apply"] = q

\* What an Append has still to hand over is new to the endpoint; this is what
\* ImplementsEndpointDelivery needs besides IInv.
Fresh ==
  \A a \in Appenders, e \in Endpoints :
     pc[a] = "rlock" \/ (pc[a] = "append" /\ \E q \in left[a] : q[2] = e) =>
       \A y \in OnTheWay[e] \cup stored[e] : y[1] = a => y[2] < count[a]

IInv ==
  TypeOK /\ LockHeld /\ Flushed /\ Numbered /\ EndpointOrder /\ Undisturbed
=============================================================================
