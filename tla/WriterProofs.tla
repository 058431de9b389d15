---------------------------- MODULE WriterProofs ----------------------------
(***************************************************************************)
(* Proofs about Writer, for any number of appenders, endpoints, samples    *)
(* and configurations: replacing the queues keeps the order of samples and *)
(* disturbs no Append, and to an endpoint it is invisible.                 *)
(***************************************************************************)
EXTENDS Writer, TLAPS

LEMMA Bounds == MaxReloads \in Nat /\ MaxSamples \in Nat
  BY WriterAssumption

\* The queues of a configuration are queues.
LEMMA QueuesOfType == \A g : QueuesOf(g) \subseteq Queues
  BY DEF QueuesOf

\* There is a next configuration for ApplyConfig to install.
LEMMA NextGen ==
  ASSUME Types, LockHeld, apply \in {"lock", "stop"}
  PROVE  queues \in Nat /\ queues + 1 \in Gens
<1>1. queues \in 0 .. MaxReloads
  BY DEF Types, Gens
<1>2. queues < MaxReloads
  BY DEF LockHeld
<1> QED
  BY <1>1, <1>2, Bounds DEF Gens

\* Configurations and samples are numbered by naturals.
LEMMA Numbers ==
  ASSUME Types
  PROVE  /\ queues \in Gens /\ queues \in Nat
         /\ \A a \in Appenders : from[a] \in Nat /\ count[a] \in Nat
<1>1. /\ queues \in 0 .. MaxReloads
      /\ \A a \in Appenders : from[a] \in 0 .. MaxReloads /\ count[a] \in 0 .. MaxSamples
  BY DEF Types, Gens
<1> QED
  BY <1>1, Bounds DEF Gens

\* What an Append hands on is a sample.
LEMMA NewSample ==
  ASSUME Types, LockHeld, NEW a \in Appenders, pc[a] = "append"
  PROVE  <<a, count[a]>> \in Samples
<1>1. count[a] \in 0 .. MaxSamples
  BY DEF Types
<1>2. count[a] > 0
  BY DEF LockHeld
<1>3. count[a] \in 1 .. MaxSamples
  BY <1>1, <1>2, Bounds
<1> QED
  BY <1>3 DEF Samples

\* Every step keeps the types.
LEMMA TypesStep == Types /\ LockHeld /\ [Next]_vars => Types'
<1> SUFFICES ASSUME Types, LockHeld, [Next]_vars PROVE Types'
  OBVIOUS
<1>1. CASE UNCHANGED vars
  BY <1>1 DEF vars, config, stoppers, managers, appends, Types
<1>2. CASE ApplyConfig \/ ApplyConfigFails \/ Applied
  BY <1>2 DEF ApplyConfig, ApplyConfigFails, Applied, stoppers, managers, appends, Types
<1>3. ASSUME NEW E \in SUBSET Endpoints, MakeQueues(E) PROVE Types'
  <2>1. conf' \in [Gens -> SUBSET Endpoints]
    BY <1>3, NextGen DEF MakeQueues, Types
  <2>2. toStop' \in [Stoppers -> SUBSET Queues]
    BY <1>3, QueuesOfType DEF MakeQueues, Types
  <2>3. phase' \in [Queues -> {"none", "open", "quitting", "draining", "stopped"}]
    BY <1>3 DEF MakeQueues, Types
  <2> QED
    BY <1>3, <2>1, <2>2, <2>3 DEF MakeQueues, appends, Types
<1>4. CASE SwapQueues
  <2>1. queues' \in Gens /\ toStart' \subseteq Queues
    BY <1>4, NextGen, QueuesOfType DEF SwapQueues
  <2> QED
    BY <1>4, <2>1 DEF SwapQueues, stoppers, managers, appends, Types
<1>5. ASSUME NEW q \in Queues, StartQueue(q) PROVE Types'
  BY <1>5 DEF StartQueue, stoppers, appends, Types
<1>6. CASE Stop
  <2>1. toStop' \in [Stoppers -> SUBSET Queues]
    BY <1>6, QueuesOfType DEF Stop, Types
  <2> QED
    BY <1>6, <2>1 DEF Stop, config, managers, appends, Types
<1>7. ASSUME NEW p \in Stoppers, NEW q \in Queues, StopQueue(p, q) PROVE Types'
  <2>1. toStop' \in [Stoppers -> SUBSET Queues]
    BY <1>7 DEF StopQueue, Types
  <2>2. stopping' \in [Stoppers -> Queues \cup {None}]
    BY <1>7 DEF StopQueue, Types
  <2>3. phase' \in [Queues -> {"none", "open", "quitting", "draining", "stopped"}]
    BY <1>7 DEF StopQueue, Types
  <2> QED
    BY <1>7, <2>1, <2>2, <2>3 DEF StopQueue, config, appends, Types
<1>8. ASSUME NEW p \in Stoppers, NEW q \in Queues, StopQueuePanics(p, q) PROVE Types'
  BY <1>8 DEF StopQueuePanics, config, stoppers, managers, appends, Types
<1>9. ASSUME NEW p \in Stoppers, QueueStopped(p) PROVE Types'
  <2>1. stopping' \in [Stoppers -> Queues \cup {None}]
    BY <1>9 DEF QueueStopped, Types
  <2>2. phase' \in [Queues -> {"none", "open", "quitting", "draining", "stopped"}]
    BY <1>9 DEF QueueStopped, Types
  <2> QED
    BY <1>9, <2>1, <2>2 DEF QueueStopped, config, appends, Types
<1>10. ASSUME NEW q \in Queues, CloseQueue(q) PROVE Types'
  BY <1>10 DEF CloseQueue, config, stoppers, appends, Types
<1>11. ASSUME NEW a \in Appenders, Append(a) PROVE Types'
  <2>1. count' \in [Appenders -> 0 .. MaxSamples]
    <3>1. count[a] \in 0 .. MaxSamples /\ count[a] < MaxSamples
      BY <1>11 DEF Append, Types
    <3>2. count[a] + 1 \in 0 .. MaxSamples
      BY <3>1, Bounds
    <3> QED
      BY <1>11, <3>2 DEF Append, Types
  <2>2. pc' \in [Appenders -> {"idle", "rlock", "append"}]
    BY <1>11 DEF Append, Types
  <2> QED
    BY <1>11, <2>1, <2>2 DEF Append, config, stoppers, managers, Types
<1>12. ASSUME NEW a \in Appenders, RLock(a) PROVE Types'
  <2>1. from' \in [Appenders -> Gens] /\ left' \in [Appenders -> SUBSET Queues]
    BY <1>12, QueuesOfType DEF RLock, Types
  <2>2. pc' \in [Appenders -> {"idle", "rlock", "append"}]
    BY <1>12 DEF RLock, Types
  <2> QED
    BY <1>12, <2>1, <2>2 DEF RLock, config, stoppers, managers, Types
<1>13. ASSUME NEW a \in Appenders, NEW q \in Queues, NEW accepted \in BOOLEAN,
              AppendTo(a, q, accepted)
       PROVE  Types'
  <2>1. left' \in [Appenders -> SUBSET Queues]
    BY <1>13 DEF AppendTo, Types
  <2>2. PICK S \in SUBSET Samples : sending' = [sending EXCEPT ![q] = S]
    <3>0. <<a, count[a]>> \in Samples
      BY <1>13, NewSample DEF AppendTo
    <3>1. CASE accepted
      BY <1>13, <3>0, <3>1 DEF AppendTo, Types
    <3>2. CASE ~accepted
      BY <1>13, <3>2 DEF AppendTo, Types
    <3> QED
      BY <3>1, <3>2
  <2> QED
    BY <1>13, <2>1, <2>2 DEF AppendTo, config, stoppers, managers, Types
<1>14. ASSUME NEW a \in Appenders, NEW q \in Queues, AppendPanics(a, q) PROVE Types'
  BY <1>14 DEF AppendPanics, config, stoppers, managers, appends, Types
<1>15. ASSUME NEW a \in Appenders, Appended(a) PROVE Types'
  BY <1>15 DEF Appended, config, stoppers, managers, Types
<1>16. ASSUME NEW q \in Queues, NEW x \in Samples, Send(q, x) PROVE Types'
  <2>1. q[2] \in Endpoints
    BY DEF Queues
  <2>2. stored' \in [Endpoints -> SUBSET Samples]
    BY <1>16, <2>1 DEF Send, Types
  <2> QED
    BY <1>16, <2>2 DEF Send, config, stoppers, managers, appends, Types
<1>17. ASSUME NEW q \in Queues, NEW x \in Samples, Settle(q, x) PROVE Types'
  <2>1. sending' \in [Queues -> SUBSET Samples]
    BY <1>17 DEF Settle, Types
  <2> QED
    BY <1>17, <2>1 DEF Settle, config, stoppers, managers, appends, Types
<1> QED
  BY <1>1, <1>2, <1>3, <1>4, <1>5, <1>6, <1>7, <1>8, <1>9, <1>10, <1>11, <1>12,
     <1>13, <1>14, <1>15, <1>16, <1>17
     DEF Next, Alive, ApplyStep, StopStep, AppendStep, Terminated

\* Every step keeps LockHeld: ApplyConfig gets the lock only when no Append
\* has it, and an Append begins only when ApplyConfig neither has the lock
\* nor waits for it.
LEMMA LockStep == Types /\ LockHeld /\ [Next]_vars => LockHeld'
<1> SUFFICES ASSUME Types, LockHeld, [Next]_vars PROVE LockHeld'
  OBVIOUS
<1>1. CASE UNCHANGED <<from, queues, pc, apply, left, toStart, count>>
  BY <1>1 DEF LockHeld
<1>2. CASE ApplyConfig \/ ApplyConfigFails \/ Applied
  BY <1>2 DEF ApplyConfig, ApplyConfigFails, Applied, Locked, appends, LockHeld
<1>3. ASSUME NEW E \in SUBSET Endpoints, MakeQueues(E) PROVE LockHeld'
  BY <1>3 DEF MakeQueues, Locked, appends, LockHeld
<1>4. CASE SwapQueues
  <2>1. \A a \in Appenders : from[a] <= queues + 1
    <3>1. \A a \in Appenders : from[a] <= queues
      BY DEF LockHeld
    <3> QED
      BY <3>1, Numbers
  <2> QED
    BY <1>4, <2>1 DEF SwapQueues, appends, LockHeld
<1>5. ASSUME NEW q \in Queues, StartQueue(q) PROVE LockHeld'
  BY <1>5 DEF StartQueue, appends, LockHeld
<1>6. ASSUME NEW a \in Appenders, Append(a) PROVE LockHeld'
  <2>1. count'[a] = count[a] + 1 /\ pc[a] = "idle" /\ pc'[a] = "rlock"
    BY <1>6 DEF Append, Types
  <2>2. \A b \in Appenders : b # a => count'[b] = count[b] /\ pc'[b] = pc[b]
    BY <1>6 DEF Append, Types
  <2>3. count'[a] > 0
    BY <2>1, Numbers
  <2>4. UNCHANGED <<from, queues, apply, left, toStart>>
    BY <1>6 DEF Append, config
  <2> QED
    BY <2>1, <2>2, <2>3, <2>4 DEF LockHeld
<1>7. ASSUME NEW a \in Appenders, RLock(a) PROVE LockHeld'
  <2>1. queues <= queues
    BY Numbers
  <2> QED
    BY <1>7, <2>1 DEF RLock, config, LockHeld, Types
<1>8. ASSUME NEW a \in Appenders, NEW q \in Queues, NEW accepted \in BOOLEAN,
             AppendTo(a, q, accepted)
      PROVE  LockHeld'
  BY <1>8 DEF AppendTo, config, LockHeld, Types
<1>9. ASSUME NEW a \in Appenders, Appended(a) PROVE LockHeld'
  BY <1>9 DEF Appended, config, LockHeld, Types
<1> QED
  BY <1>1, <1>2, <1>3, <1>4, <1>5, <1>6, <1>7, <1>8, <1>9
     DEF Next, Alive, ApplyStep, StopStep, AppendStep, Terminated, vars, config,
         appends, Stop, StopQueue, StopQueuePanics, QueueStopped, CloseQueue,
         AppendPanics, Send, Settle

\* Every step keeps LoopsInSlices.
LEMMA LoopsStep == TypeOK /\ LockHeld /\ [Next]_vars => LoopsInSlices'
<1> SUFFICES ASSUME Types, LoopsInSlices, LockHeld, [Next]_vars PROVE LoopsInSlices'
  BY DEF TypeOK
<1>1. CASE UNCHANGED <<conf, from, left, queues, toStart>>
  BY <1>1 DEF LoopsInSlices, QueuesOf
<1>2. ASSUME NEW E \in SUBSET Endpoints, MakeQueues(E) PROVE LoopsInSlices'
  <2>1. \A g \in Gens : g <= queues => conf'[g] = conf[g]
    <3>1. queues \in Nat /\ \A g \in Gens : g \in Nat
      BY <1>2, NextGen, Bounds DEF MakeQueues, Gens
    <3>2. \A g \in Gens : g <= queues => g # queues + 1
      BY <3>1
    <3> QED
      BY <1>2, <3>2 DEF MakeQueues, Types
  <2>2. queues \in Gens /\ queues <= queues
    BY Numbers
  <2>3. \A a \in Appenders : conf'[from[a]] = conf[from[a]]
    BY <2>1 DEF Types, LockHeld
  <2> QED
    BY <1>2, <2>1, <2>2, <2>3 DEF MakeQueues, appends, LoopsInSlices, QueuesOf
<1>3. CASE SwapQueues
  BY <1>3 DEF SwapQueues, appends, LoopsInSlices, QueuesOf
<1>4. ASSUME NEW q \in Queues, StartQueue(q) PROVE LoopsInSlices'
  BY <1>4 DEF StartQueue, appends, LoopsInSlices, QueuesOf
<1>5. ASSUME NEW a \in Appenders, RLock(a) PROVE LoopsInSlices'
  <2>1. from'[a] = queues /\ left'[a] = QueuesOf(queues)
    BY <1>5 DEF RLock, Types
  <2>2. \A b \in Appenders : b # a => from'[b] = from[b] /\ left'[b] = left[b]
    BY <1>5 DEF RLock, Types
  <2> QED
    BY <1>5, <2>1, <2>2 DEF RLock, config, LoopsInSlices, QueuesOf
<1>6. ASSUME NEW a \in Appenders, NEW q \in Queues, NEW accepted \in BOOLEAN,
             AppendTo(a, q, accepted)
      PROVE  LoopsInSlices'
  <2>1. \A b \in Appenders : left'[b] \subseteq left[b]
    BY <1>6 DEF AppendTo, Types
  <2> QED
    BY <1>6, <2>1 DEF AppendTo, config, LoopsInSlices, QueuesOf
<1> QED
  BY <1>1, <1>2, <1>3, <1>4, <1>5, <1>6
     DEF Next, Alive, ApplyStep, StopStep, AppendStep, Terminated, vars, config,
         appends, ApplyConfig, ApplyConfigFails, Applied, Stop, StopQueue,
         StopQueuePanics, QueueStopped, CloseQueue, Append, AppendPanics,
         Appended, Send, Settle

\* Every step keeps Numbered: what Append hands on has the latest number.
LEMMA NumberStep == Types /\ LockHeld /\ Numbered /\ [Next]_vars => Numbered'
<1> SUFFICES ASSUME Types, LockHeld, Numbered, [Next]_vars PROVE Numbered'
  OBVIOUS
<1>1. CASE UNCHANGED <<sending, stored, count>>
  BY <1>1 DEF Numbered
<1>2. ASSUME NEW a \in Appenders, Append(a) PROVE Numbered'
  <2>1. \A b \in Appenders : count[b] \in Nat /\ count'[b] \in Nat /\ count[b] <= count'[b]
    <3>1. count' = [count EXCEPT ![a] = count[a] + 1] /\ DOMAIN count = Appenders
      BY <1>2 DEF Append, Types
    <3> QED
      BY <3>1, Numbers
  <2>2. \A x \in Samples : x[1] \in Appenders /\ x[2] \in Nat
    BY Bounds DEF Samples
  <2>3. \A x \in Samples : x[2] <= count[x[1]] => x[2] <= count'[x[1]]
    BY <2>1, <2>2
  <2>4. /\ \A q \in Queues : sending[q] \subseteq Samples
        /\ \A e \in Endpoints : stored[e] \subseteq Samples
    BY DEF Types
  <2> QED
    BY <1>2, <2>3, <2>4 DEF Append, Numbered
<1>3. ASSUME NEW a \in Appenders, NEW q \in Queues, NEW accepted \in BOOLEAN,
             AppendTo(a, q, accepted)
      PROVE  Numbered'
  <2>1. \A r \in Queues : sending'[r] \subseteq sending[r] \cup {<<a, count[a]>>}
    BY <1>3 DEF AppendTo, Types
  <2>2. count[a] <= count[a]
    BY Numbers
  <2> QED
    BY <1>3, <2>1, <2>2 DEF AppendTo, Numbered
<1>4. ASSUME NEW q \in Queues, NEW x \in Samples, Send(q, x) PROVE Numbered'
  <2>1. \A e \in Endpoints : stored'[e] \subseteq stored[e] \cup {x}
    BY <1>4 DEF Send, Types
  <2>2. x \in sending[q]
    BY <1>4 DEF Send, Oldest
  <2> QED
    BY <1>4, <2>1, <2>2 DEF Send, appends, Numbered
<1>5. ASSUME NEW q \in Queues, NEW x \in Samples, Settle(q, x) PROVE Numbered'
  <2>1. \A r \in Queues : sending'[r] \subseteq sending[r]
    BY <1>5 DEF Settle, Types
  <2> QED
    BY <1>5, <2>1 DEF Settle, appends, Numbered
<1> QED
  BY <1>1, <1>2, <1>3, <1>4, <1>5
     DEF Next, Alive, ApplyStep, StopStep, AppendStep, Terminated, vars, config,
         appends, ApplyConfig, ApplyConfigFails, MakeQueues, SwapQueues,
         StartQueue, Applied, Stop, StopQueue, StopQueuePanics, QueueStopped,
         CloseQueue, RLock, AppendPanics, Appended

\* No queue is None.
LEMMA NoneIsNoQueue == None \notin Queues
  BY WriterAssumption DEF Queues, Gens

\* Making queues leaves the current ones alone.
LEMMA CurrentStays ==
  ASSUME Types, LockHeld, NEW E \in SUBSET Endpoints, MakeQueues(E)
  PROVE  /\ QueuesOf(queues)' = QueuesOf(queues)
         /\ \A q \in QueuesOf(queues) : phase'[q] = phase[q]
         /\ \A q \in QueuesOf(queues + 1)' : phase'[q] = "open"
<1>1. queues \in Nat /\ queues # queues + 1 /\ queues + 1 \in Gens
  BY NextGen DEF MakeQueues
<1>2. conf'[queues] = conf[queues] /\ queues' = queues /\ conf'[queues + 1] = E
  BY <1>1 DEF MakeQueues, Types
<1>3. QueuesOf(queues)' = QueuesOf(queues)
  BY <1>2 DEF QueuesOf
<1>4. \A q \in Queues : q[1] # queues + 1 => phase'[q] = phase[q]
  BY DEF MakeQueues
<1>5. \A q \in QueuesOf(queues) : q \in Queues /\ q[1] # queues + 1
  BY <1>1 DEF QueuesOf
<1>6. \A q \in Queues : q[1] = queues + 1 /\ q[2] \in E => phase'[q] = "open"
  BY DEF MakeQueues
<1>7. \A q \in QueuesOf(queues + 1)' : q \in Queues /\ q[1] = queues + 1 /\ q[2] \in E
  BY <1>2 DEF QueuesOf
<1> QED
  BY <1>3, <1>4, <1>5, <1>6, <1>7

\* What an Append still has to reach are queues of the Writer.
LEMMA AppendsToCurrent ==
  ASSUME TypeOK, LockHeld, NEW a \in Appenders, pc[a] = "append"
  PROVE  left[a] \subseteq QueuesOf(queues)
  BY DEF TypeOK, LoopsInSlices, LockHeld

\* Every step keeps Flushed: when the queues are replaced, each of them has
\* been stopped, and a queue stops only when it is empty.
LEMMA FlushStep == TypeOK /\ LockHeld /\ Flushed /\ [Next]_vars => Flushed'
<1> SUFFICES ASSUME TypeOK, Types, LockHeld, Flushed, [Next]_vars PROVE Flushed'
  BY DEF TypeOK
<1>1. CASE UNCHANGED <<sending, conf, queues, phase, apply, toStop, stopping>>
  BY <1>1 DEF Flushed, QueuesOf
<1>2. CASE ApplyConfig \/ ApplyConfigFails \/ Applied
  BY <1>2 DEF ApplyConfig, ApplyConfigFails, Applied, managers, Flushed, QueuesOf
<1>3. ASSUME NEW E \in SUBSET Endpoints, MakeQueues(E) PROVE Flushed'
  <2>1. toStop'["apply"] = QueuesOf(queues) /\ sending' = sending
    BY <1>3 DEF MakeQueues, Types, Stoppers
  <2> QED
    BY <1>3, <2>1, CurrentStays DEF Flushed
<1>4. CASE SwapQueues
  <2>1. \A q \in QueuesOf(queues) : phase[q] = "stopped"
    BY <1>4, NoneIsNoQueue, QueuesOfType DEF SwapQueues, Flushed
  <2>2. (\A q \in Queues : sending'[q] = {}) /\ apply' = "start"
    BY <1>4, <2>1 DEF SwapQueues, Flushed
  <2> QED
    BY <2>2 DEF Flushed
<1>5. CASE Stop
  <2>1. toStop'["apply"] = toStop["apply"]
    BY <1>5 DEF Stop, Types, Stoppers
  <2> QED
    BY <1>5, <2>1 DEF Stop, config, managers, Flushed, QueuesOf
<1>6. ASSUME NEW p \in Stoppers, NEW q \in Queues, StopQueue(p, q) PROVE Flushed'
  <2>1. phase[q] = "open" /\ phase'[q] = "quitting"
    BY <1>6 DEF StopQueue, Types
  <2>2. \A r \in Queues : r # q => phase'[r] = phase[r]
    BY <1>6 DEF StopQueue, Types
  <2>3. UNCHANGED <<sending, apply>> /\ QueuesOf(queues)' = QueuesOf(queues)
    BY <1>6 DEF StopQueue, config, QueuesOf
  <2>4. CASE p = "apply"
    <3>1. /\ stopping["apply"] = None /\ stopping'["apply"] = q
          /\ toStop'["apply"] = toStop["apply"] \ {q}
      BY <1>6, <2>4 DEF StopQueue, Types
    <3> QED
      BY <2>1, <2>2, <2>3, <3>1, NoneIsNoQueue, QueuesOfType DEF Flushed
  <2>5. CASE p # "apply"
    <3>1. stopping'["apply"] = stopping["apply"] /\ toStop'["apply"] = toStop["apply"]
      BY <1>6, <2>5 DEF StopQueue, Types, Stoppers
    <3> QED
      BY <2>1, <2>2, <2>3, <3>1, QueuesOfType DEF Flushed
  <2> QED
    BY <2>4, <2>5
<1>7. ASSUME NEW q \in Queues, CloseQueue(q) PROVE Flushed'
  <2>1. /\ phase[q] = "quitting" /\ phase'[q] = "draining"
        /\ \A r \in Queues : r # q => phase'[r] = phase[r]
    BY <1>7 DEF CloseQueue, Types
  <2>2. UNCHANGED <<sending, apply, toStop, stopping>> /\ QueuesOf(queues)' = QueuesOf(queues)
    BY <1>7 DEF CloseQueue, config, stoppers, QueuesOf
  <2> QED
    BY <2>1, <2>2, QueuesOfType DEF Flushed
<1>8. ASSUME NEW p \in Stoppers, QueueStopped(p) PROVE Flushed'
  <2> DEFINE q == stopping[p]
  <2>1. q \in Queues /\ sending[q] = {} /\ phase'[q] = "stopped"
    BY <1>8 DEF QueueStopped, Types
  <2>2. \A r \in Queues : r # q => phase'[r] = phase[r]
    BY <1>8 DEF QueueStopped, Types
  <2>3. UNCHANGED <<sending, apply, toStop>> /\ QueuesOf(queues)' = QueuesOf(queues)
    BY <1>8 DEF QueueStopped, config, QueuesOf
  <2>4. stopping'["apply"] = stopping["apply"] \/ stopping["apply"] = q
    BY <1>8 DEF QueueStopped, Types, Stoppers
  <2> HIDE DEF q
  <2> QED
    BY <2>1, <2>2, <2>3, <2>4, QueuesOfType DEF Flushed
<1>9. ASSUME NEW a \in Appenders, NEW q \in Queues, NEW accepted \in BOOLEAN,
             AppendTo(a, q, accepted)
      PROVE  Flushed'
  <2>1. q \in QueuesOf(queues) /\ phase[q] # "stopped"
    BY <1>9, AppendsToCurrent DEF AppendTo
  <2>2. \A r \in Queues : r # q => sending'[r] = sending[r]
    BY <1>9 DEF AppendTo, Types
  <2>3. UNCHANGED <<phase, apply, toStop, stopping>> /\ QueuesOf(queues)' = QueuesOf(queues)
    BY <1>9 DEF AppendTo, config, managers, stoppers, QueuesOf
  <2> QED
    BY <2>1, <2>2, <2>3 DEF Flushed
<1>10. ASSUME NEW q \in Queues, NEW x \in Samples, Settle(q, x) PROVE Flushed'
  <2>1. \A r \in Queues : sending'[r] \subseteq sending[r]
    BY <1>10 DEF Settle, Types
  <2>2. UNCHANGED <<phase, apply, toStop, stopping>> /\ QueuesOf(queues)' = QueuesOf(queues)
    BY <1>10 DEF Settle, config, managers, stoppers, QueuesOf
  <2>3. \A r \in Queues : sending'[r] # {} => sending[r] # {}
    BY <2>1
  <2> QED
    BY <2>2, <2>3 DEF Flushed
<1> QED
  BY <1>1, <1>2, <1>3, <1>4, <1>5, <1>6, <1>7, <1>8, <1>9, <1>10
     DEF Next, Alive, ApplyStep, StopStep, AppendStep, Terminated, vars, config,
         stoppers, managers, appends, StartQueue, StopQueuePanics, Append, RLock,
         AppendPanics, Appended, Send

\* Two samples of a series with the same number are the same sample.
LEMMA SameSample ==
  /\ \A x, y \in Samples : x[1] = y[1] /\ x[2] = y[2] => x = y
  /\ \A x \in Samples : x[2] \in Int
<1>1. \A x \in Samples : x[2] \in 1 .. MaxSamples /\ x = <<x[1], x[2]>>
  BY DEF Samples
<1> QED
  BY <1>1, Bounds

\* Two queues with samples for one endpoint are the same queue.
LEMMA OneQueue ==
  ASSUME Flushed, NEW q \in Queues, NEW r \in Queues, q[2] = r[2],
         sending[q] # {}, sending[r] # {}
  PROVE  q = r
<1>1. q[1] = queues /\ r[1] = queues
  BY DEF Flushed, QueuesOf
<1>2. q = <<q[1], q[2]>> /\ r = <<r[1], r[2]>>
  BY DEF Queues
<1> QED
  BY <1>1, <1>2

\* Every step keeps the order: one queue at most has samples for an endpoint,
\* and it sends the oldest of a series first.
LEMMA OrderStep ==
  TypeOK /\ LockHeld /\ Flushed /\ Numbered /\ EndpointOrder /\ [Next]_vars => EndpointOrder'
<1> SUFFICES ASSUME TypeOK, Types, LockHeld, Flushed, Numbered, EndpointOrder, [Next]_vars
             PROVE  EndpointOrder'
  BY DEF TypeOK
<1>0. /\ \A q \in Queues : sending[q] \subseteq Samples /\ q[2] \in Endpoints
      /\ \A e \in Endpoints : stored[e] \subseteq Samples
  BY DEF Types, Queues
<1>1. CASE UNCHANGED <<sending, stored>>
  BY <1>1 DEF EndpointOrder
<1>2. ASSUME NEW a \in Appenders, NEW q \in Queues, NEW accepted \in BOOLEAN,
             AppendTo(a, q, accepted)
      PROVE  EndpointOrder'
  <2> DEFINE x == <<a, count[a]>>
  <2>1. x \in Samples /\ x[1] = a /\ x[2] = count[a]
    BY <1>2, NewSample DEF AppendTo
  <2>2. \A r \in Queues : sending'[r] \subseteq sending[r] \cup {x}
    BY <1>2 DEF AppendTo, Types
  <2> HIDE DEF x
  <2>3. stored' = stored
    BY <1>2 DEF AppendTo
  <2>4. ASSUME NEW e \in Endpoints, NEW y \in stored[e], x \notin stored[e], y[1] = a
        PROVE  y[2] < x[2]
    <3>1. y \in Samples /\ y # x
      BY <1>0, <2>4
    <3>2. y[2] <= x[2]
      BY <2>1, <2>4 DEF Numbered
    <3>3. y[2] # x[2]
      BY <2>1, <2>4, <3>1, SameSample
    <3> QED
      BY <2>1, <3>1, <3>2, <3>3, SameSample
  <2> QED
    BY <1>0, <2>1, <2>2, <2>3, <2>4 DEF EndpointOrder
<1>3. ASSUME NEW q \in Queues, NEW x \in Samples, Send(q, x) PROVE EndpointOrder'
  <2>1. /\ x \in sending[q] /\ x \notin stored[q[2]]
        /\ \A y \in sending[q] \ stored[q[2]] : y[1] = x[1] => x[2] <= y[2]
    BY <1>3 DEF Send, Oldest
  <2>2. /\ stored'[q[2]] = stored[q[2]] \cup {x}
        /\ \A e \in Endpoints : e # q[2] => stored'[e] = stored[e]
        /\ sending' = sending
    BY <1>0, <1>3 DEF Send, Types
  <2>3. ASSUME NEW r \in Queues, NEW z \in sending'[r] \ stored'[r[2]],
               NEW y \in stored'[r[2]], z[1] = y[1]
        PROVE  y[2] < z[2]
    <3>1. z \in sending[r] \ stored[r[2]]
      BY <1>0, <2>2
    <3>2. CASE y \in stored[r[2]]
      BY <2>3, <3>1, <3>2 DEF EndpointOrder
    <3>3. CASE y \notin stored[r[2]]
      <4>1. y = x /\ r[2] = q[2]
        BY <1>0, <2>2, <3>3
      <4>2. r = q
        BY <2>1, <3>1, <4>1, OneQueue
      <4>3. z # x /\ z \in Samples
        BY <1>0, <2>2, <3>1, <4>2
      <4>4. x[2] <= z[2]
        BY <2>1, <2>3, <3>1, <4>1, <4>2
      <4>5. x[2] # z[2]
        BY <2>3, <4>1, <4>3, SameSample
      <4> QED
        BY <4>1, <4>3, <4>4, <4>5, SameSample
    <3> QED
      BY <3>2, <3>3
  <2> QED
    BY <2>3 DEF EndpointOrder
<1>4. ASSUME NEW q \in Queues, NEW x \in Samples, Settle(q, x) PROVE EndpointOrder'
  <2>1. \A r \in Queues : sending'[r] \subseteq sending[r]
    BY <1>4 DEF Settle, Types
  <2> QED
    BY <1>4, <2>1 DEF Settle, EndpointOrder
<1> QED
  BY <1>1, <1>2, <1>3, <1>4
     DEF Next, Alive, ApplyStep, StopStep, AppendStep, Terminated, vars, config,
         appends, ApplyConfig, ApplyConfigFails, MakeQueues, SwapQueues,
         StartQueue, Applied, Stop, StopQueue, StopQueuePanics, QueueStopped,
         CloseQueue, Append, RLock, AppendPanics, Appended

\* Every step keeps Undisturbed.
LEMMA UndisturbedStep ==
  TypeOK /\ LockHeld /\ Undisturbed /\ [Next]_vars => Undisturbed'
<1> SUFFICES ASSUME TypeOK, Types, LockHeld, Undisturbed, [Next]_vars, ~stop'
             PROVE  Undisturbed'
  BY DEF TypeOK, Undisturbed
<1>0. None \notin Queues /\ \A g : QueuesOf(g) \subseteq Queues
  BY NoneIsNoQueue, QueuesOfType
<1>1. CASE UNCHANGED <<panic, toStop, stopping, queues, conf, phase, apply, started,
                       toStart, stop>>
  BY <1>1 DEF Undisturbed, QueuesOf
<1>2. CASE ApplyConfig \/ ApplyConfigFails \/ Applied
  <2>1. apply # "stop" /\ apply' # "stop" /\ toStart' = toStart
    BY <1>2 DEF ApplyConfig, ApplyConfigFails, Applied
  <2>2. UNCHANGED <<panic, toStop, stopping, queues, conf, phase, started, stop>>
    BY <1>2 DEF ApplyConfig, ApplyConfigFails, Applied, stoppers, managers
  <2> QED
    BY <2>1, <2>2 DEF Undisturbed, QueuesOf
<1>3. ASSUME NEW E \in SUBSET Endpoints, MakeQueues(E) PROVE Undisturbed'
  <2>1. /\ toStop'["apply"] = QueuesOf(queues) /\ toStop'["stop"] = toStop["stop"]
        /\ apply = "lock" /\ apply' = "stop"
        /\ UNCHANGED <<panic, stop, stopping, queues>>
    BY <1>3 DEF MakeQueues, Types, Stoppers
  <2>2. \A q \in Queues : phase'[q] \in {"quitting", "draining"} => phase'[q] = phase[q]
    BY <1>3 DEF MakeQueues
  <2> QED
    BY <1>0, <1>3, <2>1, <2>2, CurrentStays DEF Undisturbed
<1>4. CASE SwapQueues
  <2>1. QueuesOf(queues)' = QueuesOf(queues + 1) /\ toStart' = QueuesOf(queues + 1)
    BY <1>4 DEF SwapQueues, QueuesOf
  <2>2. /\ apply = "stop" /\ apply' = "start"
        /\ toStop["apply"] = {} /\ stopping["apply"] = None
        /\ UNCHANGED <<panic, stop, toStop, stopping, phase, started>>
    BY <1>4 DEF SwapQueues, stoppers, managers
  <2> QED
    BY <1>0, <2>1, <2>2 DEF Undisturbed
<1>5. ASSUME NEW q \in Queues, StartQueue(q) PROVE Undisturbed'
  <2>1. /\ apply = "start" /\ UNCHANGED <<panic, stop, toStop, stopping, phase, apply>>
        /\ QueuesOf(queues)' = QueuesOf(queues)
    BY <1>5 DEF StartQueue, stoppers, QueuesOf
  <2>2. \A r \in Queues : started[r] \/ r \in toStart => started'[r] \/ r \in toStart'
    BY <1>5 DEF StartQueue, Types
  <2> QED
    BY <1>0, <2>1, <2>2 DEF Undisturbed
<1>6. CASE Stop
  BY <1>6 DEF Stop
<1>7. ASSUME NEW p \in Stoppers, NEW q \in Queues, StopQueue(p, q) PROVE Undisturbed'
  <2>1. ~stop /\ UNCHANGED <<panic, stop, apply, queues, conf, started, toStart>>
    BY <1>7 DEF StopQueue, config
  <2>2. p = "apply"
    BY <1>7, <2>1 DEF StopQueue, Undisturbed, Stoppers
  <2>3. /\ stopping["apply"] = None /\ q \in toStop["apply"]
        /\ stopping'["apply"] = q /\ stopping'["stop"] = stopping["stop"]
        /\ toStop'["apply"] = toStop["apply"] \ {q} /\ toStop'["stop"] = toStop["stop"]
    BY <1>7, <2>2 DEF StopQueue, Types, Stoppers
  <2>4. phase'[q] = "quitting" /\ \A r \in Queues : r # q => phase'[r] = phase[r]
    BY <1>7 DEF StopQueue, Types
  <2>5. QueuesOf(queues)' = QueuesOf(queues) /\ QueuesOf(queues + 1)' = QueuesOf(queues + 1)
    BY <2>1 DEF QueuesOf
  <2>6. apply = "stop" /\ q \in QueuesOf(queues)
    BY <2>1, <2>3 DEF Undisturbed
  <2>7. q \notin QueuesOf(queues + 1)
    BY <2>6, Numbers DEF QueuesOf
  <2> QED
    BY <1>0, <2>1, <2>3, <2>4, <2>5, <2>6, <2>7 DEF Undisturbed
<1>8. ASSUME NEW p \in Stoppers, NEW q \in Queues, StopQueuePanics(p, q) PROVE Undisturbed'
  <2>1. ~stop /\ q \in toStop[p] /\ phase[q] # "open"
    BY <1>8 DEF StopQueuePanics, stoppers
  <2> QED
    BY <2>1 DEF Undisturbed, Stoppers
<1>9. ASSUME NEW q \in Queues, CloseQueue(q) PROVE Undisturbed'
  <2>1. /\ ~stop
        /\ UNCHANGED <<panic, stop, toStop, stopping, apply, queues, conf, started, toStart>>
    BY <1>9 DEF CloseQueue, config, stoppers
  <2>2. /\ phase[q] = "quitting" /\ phase'[q] = "draining"
        /\ \A r \in Queues : r # q => phase'[r] = phase[r]
    BY <1>9 DEF CloseQueue, Types
  <2>3. QueuesOf(queues)' = QueuesOf(queues) /\ QueuesOf(queues + 1)' = QueuesOf(queues + 1)
    BY <2>1 DEF QueuesOf
  <2>4. stopping["apply"] = q /\ apply = "stop"
    BY <1>0, <2>1, <2>2 DEF Undisturbed
  <2> QED
    BY <1>0, <2>1, <2>2, <2>3, <2>4 DEF Undisturbed
<1>10. ASSUME NEW p \in Stoppers, QueueStopped(p) PROVE Undisturbed'
  <2>1. ~stop /\ stopping[p] # None
        /\ UNCHANGED <<panic, stop, toStop, apply, queues, conf, started, toStart>>
    BY <1>10 DEF QueueStopped, config
  <2>2. p = "apply"
    BY <2>1 DEF Undisturbed, Stoppers
  <2> DEFINE q == stopping["apply"]
  <2>3. q \in Queues /\ phase[q] = "draining"
    BY <1>10, <2>2 DEF QueueStopped, Types
  <2>4. \A r \in Queues : r # q => phase'[r] = phase[r]
    BY <1>10, <2>2 DEF QueueStopped, Types
  <2>5. phase'[q] = "stopped"
    BY <1>10, <2>2, <2>3 DEF QueueStopped, Types
  <2>6. stopping'["apply"] = None /\ stopping'["stop"] = stopping["stop"]
    BY <1>10, <2>2 DEF QueueStopped, Types, Stoppers
  <2>7. QueuesOf(queues)' = QueuesOf(queues) /\ QueuesOf(queues + 1)' = QueuesOf(queues + 1)
    BY <2>1 DEF QueuesOf
  <2>8. apply = "stop"
    BY <1>0, <2>1, <2>3 DEF Undisturbed
  <2> QED
    BY <1>0, <2>1, <2>3, <2>4, <2>5, <2>6, <2>7, <2>8 DEF Undisturbed
<1>11. ASSUME NEW a \in Appenders, NEW q \in Queues, AppendPanics(a, q) PROVE Undisturbed'
  <2>1. ~stop /\ q \in left[a] /\ pc[a] = "append" /\ phase[q] = "stopped"
    BY <1>11 DEF AppendPanics, stoppers
  <2>2. q \in QueuesOf(queues) /\ apply # "stop"
    BY <2>1, AppendsToCurrent DEF LockHeld
  <2> QED
    BY <2>1, <2>2 DEF Undisturbed
<1> QED
  BY <1>1, <1>2, <1>3, <1>4, <1>5, <1>6, <1>7, <1>8, <1>9, <1>10, <1>11
     DEF Next, Alive, ApplyStep, StopStep, AppendStep, Terminated, vars, config,
         stoppers, managers, appends, Append, RLock, AppendTo, Appended, Send, Settle

LEMMA InitIInv == Init => IInv
<1> SUFFICES ASSUME Init PROVE IInv
  OBVIOUS
<1>1. 0 \in Gens /\ 0 \in 0 .. MaxSamples
  BY Bounds DEF Gens
<1>2. Types
  BY <1>1 DEF Init, Types
<1>3. QueuesOf(0) = {}
  BY <1>1 DEF Init, QueuesOf
<1>4. LoopsInSlices /\ LockHeld /\ Flushed
  BY <1>3 DEF Init, LoopsInSlices, LockHeld, Flushed
<1>5. Numbered /\ EndpointOrder
  BY DEF Init, Numbered, EndpointOrder, Queues
<1>6. Undisturbed
  BY <1>3 DEF Init, Undisturbed, Stoppers
<1> QED
  BY <1>2, <1>4, <1>5, <1>6 DEF IInv, TypeOK

\* IInv, from which the others follow, holds in every reachable state.
THEOREM Invariance == Spec => []IInv
<1>1. IInv /\ [Next]_vars => IInv'
  BY TypesStep, LoopsStep, LockStep, FlushStep, NumberStep, OrderStep,
     UndisturbedStep DEF IInv, TypeOK
<1> QED
  BY InitIInv, <1>1, PTL DEF Spec

\* The types, and that a loop over queues stays within the slice that it began
\* with although ApplyConfig replaces w.queues.
THEOREM TypeCorrect == Spec => []TypeOK
<1>1. IInv => TypeOK
  BY DEF IInv
<1> QED
  BY Invariance, <1>1, PTL

\* ApplyConfig, which replaces all queues, never lets an endpoint have a sample
\* before an older one of its series that is still to come.
THEOREM OrderAcrossConfigs == Spec => []EndpointOrder
<1>1. IInv => EndpointOrder
  BY DEF IInv
<1> QED
  BY Invariance, <1>1, PTL

\* Append and ApplyConfig alone never panic, however they interleave.
THEOREM NoPanicWithoutStop == Spec => []OnlyStopPanics
<1>1. IInv => OnlyStopPanics
  BY DEF IInv, Undisturbed, OnlyStopPanics
<1> QED
  BY Invariance, <1>1, PTL

\* Without a call of Stop, an Append finds each queue of its loop running.
THEOREM AppendsReachRunningQueues == Spec => []AppendFindsRunning
<1>1. ASSUME IInv, ~stop PROVE AppendFindsRunning
  <2>1. apply # "start" => \A q \in QueuesOf(queues) : started[q] \/ apply = "stop"
    BY <1>1 DEF IInv, LockHeld, Undisturbed
  <2>2. ASSUME NEW a \in Appenders, NEW q \in left[a] PROVE phase[q] = "open" /\ started[q]
    <3>1. pc[a] = "append" /\ apply \in {"idle", "lock"}
      BY <1>1, <2>2 DEF IInv, LockHeld
    <3>2. q \in QueuesOf(queues)
      BY <1>1, <3>1, AppendsToCurrent DEF IInv
    <3> QED
      BY <1>1, <2>1, <3>1, <3>2 DEF IInv, Undisturbed
  <2>3. apply = "idle" => \A q \in QueuesOf(queues) : phase[q] = "open" /\ started[q]
    BY <1>1, <2>1 DEF IInv, Undisturbed
  <2> QED
    BY <2>2, <2>3 DEF AppendFindsRunning
<1>2. IInv => AppendFindsRunning
  BY <1>1 DEF AppendFindsRunning
<1> QED
  BY Invariance, <1>2, PTL

-----------------------------------------------------------------------------
(***************************************************************************)
(* The refinement of EndpointDelivery.                                     *)
(***************************************************************************)

\* Where a sample on its way is.
LEMMA WayIs ==
  ASSUME NEW e \in Endpoints
  PROVE  /\ \A x : x \in OnTheWay[e] <=> \E q \in Queues : q[2] = e /\ x \in sending[q]
         /\ DOMAIN OnTheWay = Endpoints
BY DEF OnTheWay

\* A queue that holds a sample for an endpoint holds all of them.
LEMMA WayIsOneQueue ==
  ASSUME Flushed, NEW q \in Queues, sending[q] # {}
  PROVE  q[2] \in Endpoints /\ OnTheWay[q[2]] = sending[q]
<1>1. q[2] \in Endpoints
  BY DEF Queues
<1>2. ASSUME NEW x \in OnTheWay[q[2]] PROVE x \in sending[q]
  <2>1. PICK r \in Queues : r[2] = q[2] /\ x \in sending[r]
    BY <1>1, <1>2, WayIs
  <2> QED
    BY <2>1, OneQueue
<1>3. ASSUME NEW x \in sending[q] PROVE x \in OnTheWay[q[2]]
  BY <1>1, <1>3, WayIs
<1> QED
  BY <1>1, <1>2, <1>3

\* The queues change one of them: what that does to the samples on their way.
LEMMA WayAdds ==
  ASSUME Types, NEW q \in Queues, NEW x, sending' = [sending EXCEPT ![q] = @ \cup {x}]
  PROVE  OnTheWay' = [OnTheWay EXCEPT ![q[2]] = @ \cup {x}]
<1>0. q[2] \in Endpoints /\ DOMAIN sending = Queues
  BY DEF Queues, Types
<1>1. \A r \in Queues : sending'[r] = IF r = q THEN sending[q] \cup {x} ELSE sending[r]
  BY <1>0
<1>2. ASSUME NEW e \in Endpoints
      PROVE  OnTheWay'[e] = IF e = q[2] THEN OnTheWay[e] \cup {x} ELSE OnTheWay[e]
  <2>1. \A y : y \in OnTheWay[e] <=> \E r \in Queues : r[2] = e /\ y \in sending[r]
    BY WayIs
  <2>2. \A y : y \in OnTheWay'[e] <=> \E r \in Queues : r[2] = e /\ y \in sending'[r]
    BY DEF OnTheWay
  <2>3. CASE e = q[2]
    <3>1. ASSUME NEW y PROVE y \in OnTheWay'[e] <=> y \in OnTheWay[e] \/ y = x
      <4>1. ASSUME NEW r \in Queues, r[2] = e, y \in sending'[r] PROVE y \in OnTheWay[e] \/ y = x
        BY <1>1, <2>1, <4>1
      <4>2. ASSUME NEW r \in Queues, r[2] = e, y \in sending[r] PROVE y \in OnTheWay'[e]
        <5>1. y \in sending'[r]
          BY <1>1, <4>2
        <5> QED
          BY <2>2, <4>2, <5>1
      <4>3. ASSUME y = x PROVE y \in OnTheWay'[e]
        <5>1. y \in sending'[q]
          BY <1>1, <4>3
        <5> QED
          BY <2>2, <2>3, <5>1
      <4> QED
        BY <2>1, <2>2, <4>1, <4>2, <4>3, Zenon
    <3>2. OnTheWay'[e] = OnTheWay[e] \cup {x}
      BY <3>1, Zenon
    <3> QED
      BY <2>3, <3>2
  <2>4. CASE e # q[2]
    <3>1. \A r \in Queues : r[2] = e => sending'[r] = sending[r]
      BY <1>1, <2>4
    <3>2. \A y : y \in OnTheWay'[e] <=> y \in OnTheWay[e]
      BY <2>1, <2>2, <3>1, Zenon
    <3>3. OnTheWay'[e] = OnTheWay[e]
      BY <3>2, Zenon
    <3> QED
      BY <2>4, <3>3
  <2> QED
    BY <2>3, <2>4
<1>3. OnTheWay' = [e \in Endpoints |-> OnTheWay'[e]] /\ OnTheWay = [e \in Endpoints |-> OnTheWay[e]]
  BY DEF OnTheWay
<1> QED
  BY <1>0, <1>2, <1>3

\* A settled sample is on its way in no other queue.
LEMMA WayLoses ==
  ASSUME Types, Flushed, NEW q \in Queues, NEW x \in sending[q],
         sending' = [sending EXCEPT ![q] = @ \ {x}]
  PROVE  OnTheWay' = [OnTheWay EXCEPT ![q[2]] = @ \ {x}]
<1>0. q[2] \in Endpoints /\ DOMAIN sending = Queues
  BY DEF Queues, Types
<1>1. \A r \in Queues : sending'[r] = IF r = q THEN sending[q] \ {x} ELSE sending[r]
  BY <1>0
<1>2. ASSUME NEW e \in Endpoints
      PROVE  OnTheWay'[e] = IF e = q[2] THEN OnTheWay[e] \ {x} ELSE OnTheWay[e]
  <2>1. \A y : y \in OnTheWay[e] <=> \E r \in Queues : r[2] = e /\ y \in sending[r]
    BY WayIs
  <2>2. \A y : y \in OnTheWay'[e] <=> \E r \in Queues : r[2] = e /\ y \in sending'[r]
    BY DEF OnTheWay
  <2>3. \A r \in Queues : r[2] = q[2] /\ x \in sending[r] => r = q
    BY OneQueue
  <2>4. CASE e = q[2]
    <3>1. ASSUME NEW y PROVE y \in OnTheWay'[e] <=> y \in OnTheWay[e] /\ y # x
      <4>1. ASSUME NEW r \in Queues, r[2] = e, y \in sending'[r] PROVE y \in OnTheWay[e] /\ y # x
        <5>1. y \in sending[r]
          BY <1>1, <4>1
        <5>2. y # x
          BY <1>1, <2>3, <2>4, <4>1, <5>1
        <5> QED
          BY <2>1, <4>1, <5>1, <5>2
      <4>2. ASSUME NEW r \in Queues, r[2] = e, y \in sending[r], y # x PROVE y \in OnTheWay'[e]
        <5>1. y \in sending'[r]
          BY <1>1, <4>2
        <5> QED
          BY <2>2, <4>2, <5>1
      <4> QED
        BY <2>1, <2>2, <4>1, <4>2, Zenon
    <3>2. OnTheWay'[e] = OnTheWay[e] \ {x}
      BY <3>1, Zenon
    <3> QED
      BY <2>4, <3>2
  <2>5. CASE e # q[2]
    <3>1. \A r \in Queues : r[2] = e => sending'[r] = sending[r]
      BY <1>1, <2>5
    <3>2. \A y : y \in OnTheWay'[e] <=> y \in OnTheWay[e]
      BY <2>1, <2>2, <3>1, Zenon
    <3>3. OnTheWay'[e] = OnTheWay[e]
      BY <3>2, Zenon
    <3> QED
      BY <2>5, <3>3
  <2> QED
    BY <2>4, <2>5
<1>3. OnTheWay' = [e \in Endpoints |-> OnTheWay'[e]] /\ OnTheWay = [e \in Endpoints |-> OnTheWay[e]]
  BY DEF OnTheWay
<1> QED
  BY <1>0, <1>2, <1>3

\* A step that changes no queue's samples.
LEMMA WayStays == ASSUME UNCHANGED sending PROVE OnTheWay' = OnTheWay
BY DEF OnTheWay

\* What an endpoint has had: numbered by its appender.
LEMMA WayNumbered ==
  ASSUME Types, Numbered, NEW e \in Endpoints, NEW y \in OnTheWay[e] \cup stored[e]
  PROVE  y \in Samples /\ y[1] \in Appenders /\ y[2] \in Nat /\ y[2] <= count[y[1]]
<1>1. y \in Samples /\ y[2] <= count[y[1]]
  <2>1. CASE y \in stored[e]
    BY <2>1 DEF Types, Numbered
  <2>2. CASE y \in OnTheWay[e]
    <3>1. PICK q \in Queues : y \in sending[q]
      BY <2>2, WayIs
    <3> QED
      BY <3>1 DEF Types, Numbered
  <2> QED
    BY <2>1, <2>2
<1> QED
  BY <1>1, Bounds DEF Samples

\* A sample is handed over to an endpoint once: Fresh.
LEMMA FreshStep ==
  ASSUME TypeOK, LockHeld, Flushed, Numbered, Fresh, [Next]_vars
  PROVE  Fresh'
<1>0. Types
  BY DEF TypeOK
<1> DEFINE Due(a, e) == pc[a] = "rlock" \/ (pc[a] = "append" /\ \E q \in left[a] : q[2] = e)
           Had(e) == OnTheWay[e] \cup stored[e]
<1>a. \A a \in Appenders, e \in Endpoints : Due(a, e) => \A y \in Had(e) : y[1] = a => y[2] < count[a]
  BY DEF Fresh
<1>b. SUFFICES ASSUME NEW b \in Appenders, NEW e \in Endpoints, Due(b, e)',
                      NEW y \in Had(e)', y[1] = b
               PROVE  y[2] < count'[b]
  BY DEF Fresh
<1>1. CASE UNCHANGED <<pc, left, count, sending, stored>>
  BY <1>1, <1>a, <1>b, WayStays
<1>2. ASSUME NEW a \in Appenders, Append(a) PROVE y[2] < count'[b]
  <2>1. y \in Had(e) /\ y[2] \in Nat /\ y[2] <= count[b] /\ count[b] \in Nat
    BY <1>0, <1>2, <1>b, WayStays, WayNumbered, Numbers DEF Append
  <2>2. CASE b = a
    <3>1. count'[b] = count[b] + 1
      BY <1>0, <1>2, <2>2 DEF Append, Types
    <3> QED
      BY <2>1, <3>1
  <2>3. CASE b # a
    <3>1. count'[b] = count[b] /\ pc'[b] = pc[b] /\ left' = left
      BY <1>0, <1>2, <2>3 DEF Append, Types
    <3> QED
      BY <1>a, <1>b, <2>1, <3>1
  <2> QED
    BY <2>2, <2>3
<1>3. ASSUME NEW a \in Appenders, RLock(a) PROVE y[2] < count'[b]
  <2>1. y \in Had(e) /\ count' = count
    BY <1>3, <1>b, WayStays DEF RLock
  <2>2. Due(b, e)
    <3>1. CASE b = a
      BY <3>1, <1>3 DEF RLock
    <3>2. CASE b # a
      <4>1. pc'[b] = pc[b] /\ left'[b] = left[b]
        BY <1>0, <1>3, <3>2 DEF RLock, Types
      <4> QED
        BY <1>b, <4>1
    <3> QED
      BY <3>1, <3>2
  <2> QED
    BY <1>a, <1>b, <2>1, <2>2
<1>4. ASSUME NEW a \in Appenders, NEW q \in Queues, NEW accepted \in BOOLEAN, AppendTo(a, q, accepted)
      PROVE  y[2] < count'[b]
  <2> DEFINE x == <<a, count[a]>>
  <2>0. q[2] \in Endpoints /\ q \in left[a] /\ pc' = pc /\ count' = count /\ stored' = stored /\ pc[a] = "append"
    BY <1>4 DEF AppendTo, Queues
  <2>1. \A r \in left[a] : r[2] = q[2] => r = q
    <3>1. \A r \in left[a] : r \in Queues /\ r[1] = from[a]
      BY DEF TypeOK, LoopsInSlices, QueuesOf
    <3>2. \A r \in Queues : r = <<r[1], r[2]>>
      BY DEF Queues
    <3> QED
      BY <2>0, <3>1, <3>2
  <2>2. left'[a] = left[a] \ {q} /\ \A c \in Appenders : c # a => left'[c] = left[c]
    BY <1>0, <1>4 DEF AppendTo, Types
  <2>3. Due(b, e)
    BY <1>b, <2>0, <2>2
  <2>4. CASE y \in Had(e)
    BY <1>a, <1>b, <2>0, <2>3, <2>4
  <2>5. CASE y \notin Had(e)
    <3>1. accepted /\ sending' = [sending EXCEPT ![q] = @ \cup {x}]
      <4>1. CASE accepted
        BY <1>4, <4>1 DEF AppendTo
      <4>2. CASE ~ accepted
        <5>1. sending' = sending
          BY <1>0, <1>4, <4>2 DEF AppendTo, Types
        <5> QED
          BY <1>b, <2>0, <2>5, <5>1, WayStays
      <4> QED
        BY <4>1, <4>2
    <3> HIDE DEF x
    <3>2. OnTheWay' = [OnTheWay EXCEPT ![q[2]] = @ \cup {x}]
      BY <1>0, <3>1, WayAdds
    <3>3. DOMAIN OnTheWay = Endpoints
      BY DEF OnTheWay
    <3>4. e = q[2] /\ y = x
      BY <1>b, <2>0, <2>5, <3>2, <3>3
    <3>5. b = a
      BY <1>b, <3>4 DEF x
    <3>6. PICK r \in left'[a] : r[2] = e
      BY <1>b, <2>0, <3>5
    <3> QED
      BY <2>1, <2>2, <3>4, <3>6
  <2> QED
    BY <2>4, <2>5
<1>5. ASSUME NEW a \in Appenders, Appended(a) PROVE y[2] < count'[b]
  <2>1. y \in Had(e) /\ count' = count /\ left' = left
    BY <1>5, <1>b, WayStays DEF Appended
  <2>2. pc'[a] = "idle" /\ \A c \in Appenders : c # a => pc'[c] = pc[c]
    BY <1>0, <1>5 DEF Appended, Types
  <2>3. Due(b, e)
    BY <1>b, <2>1, <2>2
  <2> QED
    BY <1>a, <1>b, <2>1, <2>3
<1>6. ASSUME NEW q \in Queues, NEW x \in Samples, Send(q, x) PROVE y[2] < count'[b]
  <2>1. pc' = pc /\ left' = left /\ count' = count /\ sending' = sending /\ x \in sending[q] /\ q[2] \in Endpoints
    BY <1>6 DEF Send, Oldest, appends, Queues
  <2>2. \A d \in Endpoints : stored'[d] = IF d = q[2] THEN stored[d] \cup {x} ELSE stored[d]
    BY <1>0, <1>6 DEF Send, Types
  <2>3. OnTheWay' = OnTheWay /\ x \in OnTheWay[q[2]]
    BY <2>1, WayIs, WayStays
  <2>4. y \in Had(e)
    BY <1>b, <2>2, <2>3
  <2> QED
    BY <1>a, <1>b, <2>1, <2>4
<1>7. ASSUME NEW q \in Queues, NEW x \in Samples, Settle(q, x) PROVE y[2] < count'[b]
  <2>1. pc' = pc /\ left' = left /\ count' = count /\ stored' = stored
    BY <1>7 DEF Settle, appends
  <2>2. \A r \in Queues : sending'[r] \subseteq sending[r]
    BY <1>0, <1>7 DEF Settle, Types
  <2>3. OnTheWay'[e] \subseteq OnTheWay[e]
    BY <2>2 DEF OnTheWay
  <2> QED
    BY <1>a, <1>b, <2>1, <2>3
<1> QED
  BY <1>1, <1>2, <1>3, <1>4, <1>5, <1>6, <1>7
     DEF Next, Alive, ApplyStep, StopStep, AppendStep, Terminated, vars, config,
         appends, ApplyConfig, ApplyConfigFails, MakeQueues, SwapQueues,
         StartQueue, Applied, Stop, StopQueue, StopQueuePanics, QueueStopped,
         CloseQueue, AppendPanics

\* Each step of the Writer is one of EndpointDelivery, or none.
LEMMA DeliveryStep ==
  ASSUME TypeOK, LockHeld, Flushed, Fresh, [Next]_vars
  PROVE  [Delivery!Next]_(Delivery!vars)
<1>0. Types
  BY DEF TypeOK
<1>1. CASE UNCHANGED <<count, sending, stored>>
  BY <1>1, WayStays DEF Delivery!vars
<1>2. ASSUME NEW a \in Appenders, Append(a) PROVE Delivery!Next
  <2>1. Delivery!Append(a)
    BY <1>2, WayStays DEF Append, Delivery!Append
  <2> QED
    BY <2>1 DEF Delivery!Next
<1>3. ASSUME NEW a \in Appenders, NEW q \in Queues, NEW accepted \in BOOLEAN, AppendTo(a, q, accepted)
      PROVE  [Delivery!Next]_(Delivery!vars)
  <2>1. CASE accepted
    <3>1. q[2] \in Endpoints /\ pc[a] = "append" /\ q \in left[a]
      BY <1>3 DEF AppendTo, Queues
    <3>2. \A y \in OnTheWay[q[2]] \cup stored[q[2]] : y[1] = a => y[2] < count[a]
      BY <3>1 DEF Fresh
    <3>3. OnTheWay' = [OnTheWay EXCEPT ![q[2]] = @ \cup {<<a, count[a]>>}]
      BY <1>0, <1>3, <2>1, WayAdds DEF AppendTo
    <3>4. Delivery!Accept(a, q[2])
      BY <1>3, <3>2, <3>3 DEF AppendTo, Delivery!Accept
    <3> QED
      BY <3>1, <3>4 DEF Delivery!Next
  <2>2. CASE ~ accepted
    <3>1. sending' = sending /\ stored' = stored /\ count' = count
      BY <1>0, <1>3, <2>2 DEF AppendTo, Types
    <3> QED
      BY <3>1, WayStays DEF Delivery!vars
  <2> QED
    BY <2>1, <2>2
<1>4. ASSUME NEW q \in Queues, NEW x \in Samples, Send(q, x) PROVE Delivery!Next
  <2>1. x \in sending[q]
    BY <1>4 DEF Send, Oldest
  <2>2. q[2] \in Endpoints /\ OnTheWay[q[2]] = sending[q]
    BY <2>1, WayIsOneQueue
  <2>3. Delivery!Deliver(q[2], x)
    BY <1>4, <2>2, WayStays DEF Send, Oldest, appends, Delivery!Deliver, Delivery!Oldest
  <2> QED
    BY <2>1, <2>2, <2>3 DEF Delivery!Next
<1>5. ASSUME NEW q \in Queues, NEW x \in Samples, Settle(q, x) PROVE Delivery!Next
  <2>1. x \in sending[q]
    BY <1>5 DEF Settle, Oldest
  <2>2. q[2] \in Endpoints /\ OnTheWay[q[2]] = sending[q]
    BY <2>1, WayIsOneQueue
  <2>3. OnTheWay' = [OnTheWay EXCEPT ![q[2]] = @ \ {x}]
    BY <1>0, <1>5, <2>1, WayLoses DEF Settle
  <2>4. Delivery!Settle(q[2], x)
    BY <1>5, <2>2, <2>3 DEF Settle, Oldest, appends, Delivery!Settle, Delivery!Oldest
  <2> QED
    BY <2>1, <2>2, <2>4 DEF Delivery!Next
<1> QED
  BY <1>1, <1>2, <1>3, <1>4, <1>5
     DEF Next, Alive, ApplyStep, StopStep, AppendStep, Terminated, vars, config,
         appends, ApplyConfig, ApplyConfigFails, MakeQueues, SwapQueues,
         StartQueue, Applied, Stop, StopQueue, StopQueuePanics, QueueStopped,
         CloseQueue, RLock, AppendPanics, Appended

\* The Writer, with all its configurations, is to each endpoint one queue.
THEOREM OneQueuePerEndpoint == Spec => ImplementsEndpointDelivery
<1>1. Init => Delivery!Init /\ Fresh
  <2> SUFFICES ASSUME Init PROVE Delivery!Init /\ Fresh
    OBVIOUS
  <2>1. OnTheWay = [e \in Endpoints |-> {}]
    BY DEF OnTheWay, Init
  <2> QED
    BY <2>1 DEF Init, Delivery!Init, Fresh
<1>2. IInv /\ Fresh /\ [Next]_vars => Fresh' /\ [Delivery!Next]_(Delivery!vars)
  BY FreshStep, DeliveryStep DEF IInv
<1> QED
  BY <1>1, <1>2, Invariance, PTL DEF Spec, ImplementsEndpointDelivery, Delivery!Spec
=============================================================================
