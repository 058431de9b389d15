------------------------- MODULE BatchDeadlineProofs ------------------------
(***************************************************************************)
(* Proofs about module BatchDeadline, for every batch size and deadline.   *)
(***************************************************************************)
EXTENDS BatchDeadline, TLAPS

\* Multiples of the deadline, stated for the linear arithmetic of the steps.
LEMMA Multiples ==
  ASSUME Configured, NEW c \in Nat
  PROVE  /\ c * BatchSendDeadline \in Nat
         /\ (c + 1) * BatchSendDeadline = c * BatchSendDeadline + BatchSendDeadline
         /\ (c + 1) - 1 = c
BY DEF Configured

LEMMA Step ==
  ASSUME Configured, IInv, [Next]_vars
  PROVE  IInv'
<1> USE DEF Configured
<1>0. /\ count \in Nat /\ age \in Nat /\ timer \in 0 .. BatchSendDeadline
      /\ BatchSendDeadline \in Nat
  BY DEF IInv, TypeOK
<1>1. /\ count * BatchSendDeadline \in Nat
      /\ (count + 1) * BatchSendDeadline
           = count * BatchSendDeadline + BatchSendDeadline
  BY <1>0, Multiples
<1>2. count > 0 => /\ (count - 1) * BatchSendDeadline \in Nat
                   /\ count * BatchSendDeadline
                        = (count - 1) * BatchSendDeadline + BatchSendDeadline
  <2> SUFFICES ASSUME count > 0
               PROVE  /\ (count - 1) * BatchSendDeadline \in Nat
                      /\ count * BatchSendDeadline
                           = (count - 1) * BatchSendDeadline + BatchSendDeadline
    OBVIOUS
  <2>1. count - 1 \in Nat /\ (count - 1) + 1 = count
    BY <1>0
  <2> QED
    BY <2>1, Multiples
<1>3. CASE Wait
  BY <1>0, <1>1, <1>2, <1>3 DEF Wait, IInv, TypeOK, AgeBound, WaitsAtMost
<1>4. CASE Receive
  <2>1. /\ loop = "select" /\ count' = count + 1 /\ timer' = 0 /\ age' = age
        /\ loop' = IF count + 1 >= MaxSamplesPerSend THEN "send" ELSE "select"
    BY <1>4 DEF Receive
  <2>2. age <= count * BatchSendDeadline
    BY DEF IInv, WaitsAtMost
  <2>3. count < MaxSamplesPerSend
    BY <2>1 DEF IInv, AgeBound
  <2>4. TypeOK'
    BY <1>0, <2>1, <2>3 DEF TypeOK
  <2>5. WaitsAtMost'
    BY <1>0, <1>1, <2>1, <2>2 DEF WaitsAtMost
  <2>6. AgeBound'
    <3>1. (count' - 1) * BatchSendDeadline = count * BatchSendDeadline
      BY <1>0, <2>1
    <3> QED
      BY <1>0, <1>1, <2>1, <2>2, <2>3, <3>1 DEF AgeBound
  <2> QED
    BY <2>4, <2>5, <2>6 DEF IInv
<1>5. CASE Deadline
  BY <1>0, <1>1, <1>2, <1>5 DEF Deadline, IInv, TypeOK, AgeBound, WaitsAtMost
<1>6. CASE Closed
  BY <1>0, <1>1, <1>2, <1>6 DEF Closed, IInv, TypeOK, AgeBound, WaitsAtMost
<1>7. CASE Sent
  <2>1. 0 * BatchSendDeadline = 0
    BY <1>0
  <2> QED
    BY <1>0, <1>7, <2>1 DEF Sent, IInv, TypeOK, AgeBound, WaitsAtMost
<1>8. CASE UNCHANGED vars
  BY <1>8 DEF vars, IInv, TypeOK, AgeBound, WaitsAtMost
<1> QED
  BY <1>3, <1>4, <1>5, <1>6, <1>7, <1>8 DEF Next, Returned

\* runShard keeps a sample in pendingSamples for at most one BatchSendDeadline
\* per sample of its batch: the comment on BatchSendDeadline is right for a
\* batch of one.
THEOREM BoundedWait ==
  ASSUME Configured
  PROVE  Spec => []WaitsAtMost
<1>1. Init => IInv
  BY DEF Configured, Init, IInv, TypeOK, AgeBound, WaitsAtMost
<1>2. IInv /\ [Next]_vars => IInv'
  BY Step
<1>3. IInv => WaitsAtMost
  BY DEF IInv
<1> QED
  BY <1>1, <1>2, <1>3, PTL DEF Spec
=============================================================================
