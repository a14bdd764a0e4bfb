-------------------------- MODULE EnzianFpiProofs --------------------------
(***************************************************************************)
(* Theorems of EnzianFpi, for any set of readers and of cores and any      *)
(* number of interrupts and signals.                                       *)
(***************************************************************************)
EXTENDS EnzianFpi, TLAPS

(* The action definitions that every case analysis of a step expands. *)
USE DEF vars, wait, reader, irq, history

(***************************************************************************)
(* Every reachable state is well typed; wq_flag stays in {0, 1} although   *)
(* readers and cores write it without a lock.                              *)
(***************************************************************************)
THEOREM TypeCorrect == Spec => []TypeOK
<1>1. Init => TypeOK
  BY BoundsAssumption DEF Init, TypeOK, RPC
<1>2. TypeOK /\ [Next]_vars => TypeOK'
  <2> SUFFICES ASSUME TypeOK, [Next]_vars
               PROVE  TypeOK'
    OBVIOUS
  <2> USE BoundsAssumption DEF TypeOK, RPC, InWait, Leaving
  <2>1. ASSUME NEW r \in Readers, Read(r)
        PROVE  TypeOK'
    BY <2>1 DEF Read, Goto
  <2>2. ASSUME NEW r \in Readers, Test(r)
        PROVE  TypeOK'
    BY <2>2 DEF Test, Goto
  <2>3. ASSUME NEW r \in Readers, Prepare(r)
        PROVE  TypeOK'
    BY <2>3 DEF Prepare, Goto
  <2>4. ASSUME NEW r \in Readers, Recheck(r)
        PROVE  TypeOK'
    BY <2>4 DEF Recheck, Goto
  <2>5. ASSUME NEW r \in Readers, Scheduled(r)
        PROVE  TypeOK'
    BY <2>5 DEF Scheduled, Goto
  <2>6. ASSUME NEW r \in Readers, Finish(r)
        PROVE  TypeOK'
    BY <2>6 DEF Finish, Goto
  <2>7. ASSUME NEW r \in Readers, Return(r)
        PROVE  TypeOK'
    BY <2>7 DEF Return, ToUser, Goto
  <2>8. ASSUME NEW r \in Readers, Signal(r)
        PROVE  TypeOK'
    BY <2>8 DEF Signal
  <2>9. ASSUME NEW c \in Cpus, Raise(c)
        PROVE  TypeOK'
    BY <2>9 DEF Raise
  <2>10. ASSUME NEW c \in Cpus, Take(c)
         PROVE  TypeOK'
    BY <2>10 DEF Take, Handler
  <2>11. ASSUME NEW c \in Cpus, SetFlag(c)
         PROVE  TypeOK'
    BY <2>11 DEF SetFlag, Handler
  <2>12. ASSUME NEW c \in Cpus, WakeUp(c)
         PROVE  TypeOK'
    BY <2>12 DEF WakeUp, Handler
  <2>13. CASE UNCHANGED vars
    BY <2>13
  <2>14. QED
    BY <2>1, <2>2, <2>3, <2>4, <2>5, <2>6, <2>7, <2>8, <2>9, <2>10, <2>11,
       <2>12, <2>13 DEF Next, InRead, InHandler
<1>3. QED
  BY <1>1, <1>2, PTL DEF Spec

-----------------------------------------------------------------------------
(***************************************************************************)
(* What a reader that may be blocked looks like: it is in the middle of    *)
(* ___wait_event and on the queue.  NoMissedWakeup alone is not inductive: *)
(* wake_up_interruptible reaches a reader only through the queue.          *)
(***************************************************************************)
QueueInv ==
  \A r \in Readers :
    state[r] = "INTERRUPTIBLE" =>
      /\ r \in wq
      /\ rpc[r] \in {"recheck", "sleep", "finish"}

WakeInv == TypeOK /\ QueueInv /\ NoMissedWakeup

(* A queued reader keeps its place, and a blocked one its handler, in every *)
(* step of the driver, of the cores and of the kernel.                      *)
LEMMA WakeInvStep == WakeInv /\ TypeOK' /\ [Next]_vars => WakeInv'
<1> SUFFICES ASSUME WakeInv, TypeOK', [Next]_vars
             PROVE  QueueInv' /\ NoMissedWakeup'
  BY DEF WakeInv
<1> USE DEF WakeInv, TypeOK, QueueInv, NoMissedWakeup, Blocked
<1>1. ASSUME NEW r \in Readers, Read(r)
      PROVE  QueueInv' /\ NoMissedWakeup'
  BY <1>1 DEF Read, Goto
<1>2. ASSUME NEW r \in Readers, Test(r)
      PROVE  QueueInv' /\ NoMissedWakeup'
  BY <1>2 DEF Test, Goto
<1>3. ASSUME NEW r \in Readers, Prepare(r)
      PROVE  QueueInv' /\ NoMissedWakeup'
  BY <1>3 DEF Prepare, Goto
<1>4. ASSUME NEW r \in Readers, Recheck(r)
      PROVE  QueueInv' /\ NoMissedWakeup'
  BY <1>4 DEF Recheck, Goto
<1>5. ASSUME NEW r \in Readers, Scheduled(r)
      PROVE  QueueInv' /\ NoMissedWakeup'
  BY <1>5 DEF Scheduled, Goto
<1>6. ASSUME NEW r \in Readers, Finish(r)
      PROVE  QueueInv' /\ NoMissedWakeup'
  BY <1>6 DEF Finish, Goto
<1>7. ASSUME NEW r \in Readers, Return(r)
      PROVE  QueueInv' /\ NoMissedWakeup'
  BY <1>7 DEF Return, ToUser, Goto
<1>8. ASSUME NEW r \in Readers, Signal(r)
      PROVE  QueueInv' /\ NoMissedWakeup'
  BY <1>8 DEF Signal
<1>9. ASSUME NEW c \in Cpus, Raise(c)
      PROVE  QueueInv' /\ NoMissedWakeup'
  BY <1>9 DEF Raise
<1>10. ASSUME NEW c \in Cpus, Take(c)
       PROVE  QueueInv' /\ NoMissedWakeup'
  BY <1>10 DEF Take, Handler
<1>11. ASSUME NEW c \in Cpus, SetFlag(c)
       PROVE  QueueInv' /\ NoMissedWakeup'
  BY <1>11 DEF SetFlag, Handler
<1>12. ASSUME NEW c \in Cpus, WakeUp(c)
       PROVE  QueueInv' /\ NoMissedWakeup'
  <2>1. Sleepers = {r \in Readers : state[r] = "INTERRUPTIBLE"}
    BY DEF Sleepers
  <2>2. \A r \in Readers : state'[r] = "RUNNING"
    BY <1>12, <2>1 DEF WakeUp
  <2>3. QED
    BY <2>2
<1>13. CASE UNCHANGED vars
  BY <1>13
<1>14. QED
  BY <1>1, <1>2, <1>3, <1>4, <1>5, <1>6, <1>7, <1>8, <1>9, <1>10, <1>11,
     <1>12, <1>13 DEF Next, InRead, InHandler

(***************************************************************************)
(* A reader is never left blocked with the flag set, unless a handler is   *)
(* about to wake the queue: no interrupt is lost between the reader's test *)
(* and its sleep, for any number of readers and cores.                     *)
(***************************************************************************)
THEOREM NoLostWakeup == Spec => []NoMissedWakeup
<1>1. Init => WakeInv
  BY BoundsAssumption
     DEF Init, WakeInv, TypeOK, RPC, QueueInv, NoMissedWakeup, Blocked
<1>2. WakeInv /\ TypeOK' /\ [Next]_vars => WakeInv'
  BY WakeInvStep
<1>3. WakeInv => NoMissedWakeup
  BY DEF WakeInv
<1>4. QED
  BY <1>1, <1>2, <1>3, TypeCorrect, PTL DEF Spec

-----------------------------------------------------------------------------
(***************************************************************************)
(* A set flag, and a reader that has seen one, stand for an interrupt that *)
(* this reader has not returned for yet.                                   *)
(***************************************************************************)
Returned(r) == reads[r] - interrupted[r]

CreditInv ==
  \A r \in Readers :
    /\ Returned(r) =< posts
    /\ wq_flag = 1 => Returned(r) < posts
    /\ rpc[r] \in {"finish", "clear"} => Returned(r) < posts

(* Only the handler grants a credit, and only a return spends one. *)
LEMMA CreditInvStep ==
  CreditInv /\ TypeOK /\ TypeOK' /\ [Next]_vars => CreditInv'
<1> SUFFICES ASSUME CreditInv, TypeOK, TypeOK', [Next]_vars
             PROVE  CreditInv'
  OBVIOUS
<1> USE DEF CreditInv, Returned, TypeOK
<1>1. ASSUME NEW r \in Readers, Read(r)
      PROVE  CreditInv'
  BY <1>1 DEF Read, Goto
<1>2. ASSUME NEW r \in Readers, Test(r)
      PROVE  CreditInv'
  BY <1>2 DEF Test, Goto
<1>3. ASSUME NEW r \in Readers, Prepare(r)
      PROVE  CreditInv'
  BY <1>3 DEF Prepare, Goto
<1>4. ASSUME NEW r \in Readers, Recheck(r)
      PROVE  CreditInv'
  BY <1>4 DEF Recheck, Goto
<1>5. ASSUME NEW r \in Readers, Scheduled(r)
      PROVE  CreditInv'
  BY <1>5 DEF Scheduled, Goto
<1>6. ASSUME NEW r \in Readers, Finish(r)
      PROVE  CreditInv'
  BY <1>6 DEF Finish, Goto
<1>7. ASSUME NEW r \in Readers, Return(r)
      PROVE  CreditInv'
  BY <1>7 DEF Return, ToUser, Goto
<1>8. ASSUME NEW r \in Readers, Signal(r)
      PROVE  CreditInv'
  BY <1>8 DEF Signal
<1>9. ASSUME NEW c \in Cpus, Raise(c)
      PROVE  CreditInv'
  BY <1>9 DEF Raise
<1>10. ASSUME NEW c \in Cpus, Take(c)
       PROVE  CreditInv'
  BY <1>10 DEF Take, Handler
<1>11. ASSUME NEW c \in Cpus, SetFlag(c)
       PROVE  CreditInv'
  BY <1>11 DEF SetFlag, Handler
<1>12. ASSUME NEW c \in Cpus, WakeUp(c)
       PROVE  CreditInv'
  BY <1>12 DEF WakeUp, Handler
<1>13. CASE UNCHANGED vars
  BY <1>13
<1>14. QED
  BY <1>1, <1>2, <1>3, <1>4, <1>5, <1>6, <1>7, <1>8, <1>9, <1>10, <1>11,
     <1>12, <1>13 DEF Next, InRead, InHandler

(***************************************************************************)
(* No reader returns twice for one interrupt, signals apart, for any       *)
(* number of readers that share the flag and clear it for each other.      *)
(***************************************************************************)
THEOREM NoDoubleReturn == Spec => []OneReturnPerInterrupt
<1>1. Init => CreditInv
  BY DEF Init, CreditInv, Returned
<1>2. CreditInv => OneReturnPerInterrupt
  BY DEF CreditInv, Returned, OneReturnPerInterrupt
<1>3. QED
  BY <1>1, <1>2, CreditInvStep, TypeCorrect, PTL DEF Spec

-----------------------------------------------------------------------------
(* A reader takes the way out of a signal only while it has one pending.   *)
SignalInv ==
  \A r \in Readers : rpc[r] \in {"recheckInt", "clearInt"} => sig[r]

(* A signal stays pending until the reader returns to user mode. *)
LEMMA SignalInvStep ==
  SignalInv /\ TypeOK /\ [Next]_vars => SignalInv'
<1> SUFFICES ASSUME SignalInv, TypeOK, [Next]_vars
             PROVE  SignalInv'
  OBVIOUS
<1> USE DEF SignalInv, TypeOK
<1>1. ASSUME NEW r \in Readers, Read(r)
      PROVE  SignalInv'
  BY <1>1 DEF Read, Goto
<1>2. ASSUME NEW r \in Readers, Test(r)
      PROVE  SignalInv'
  BY <1>2 DEF Test, Goto
<1>3. ASSUME NEW r \in Readers, Prepare(r)
      PROVE  SignalInv'
  BY <1>3 DEF Prepare, Goto
<1>4. ASSUME NEW r \in Readers, Recheck(r)
      PROVE  SignalInv'
  BY <1>4 DEF Recheck, Goto
<1>5. ASSUME NEW r \in Readers, Scheduled(r)
      PROVE  SignalInv'
  BY <1>5 DEF Scheduled, Goto
<1>6. ASSUME NEW r \in Readers, Finish(r)
      PROVE  SignalInv'
  BY <1>6 DEF Finish, Goto
<1>7. ASSUME NEW r \in Readers, Return(r)
      PROVE  SignalInv'
  BY <1>7 DEF Return, ToUser, Goto
<1>8. ASSUME NEW r \in Readers, Signal(r)
      PROVE  SignalInv'
  BY <1>8 DEF Signal
<1>9. ASSUME NEW c \in Cpus, Raise(c)
      PROVE  SignalInv'
  BY <1>9 DEF Raise
<1>10. ASSUME NEW c \in Cpus, Take(c)
       PROVE  SignalInv'
  BY <1>10 DEF Take, Handler
<1>11. ASSUME NEW c \in Cpus, SetFlag(c)
       PROVE  SignalInv'
  BY <1>11 DEF SetFlag, Handler
<1>12. ASSUME NEW c \in Cpus, WakeUp(c)
       PROVE  SignalInv'
  BY <1>12 DEF WakeUp, Handler
<1>13. CASE UNCHANGED vars
  BY <1>13
<1>14. QED
  BY <1>1, <1>2, <1>3, <1>4, <1>5, <1>6, <1>7, <1>8, <1>9, <1>10, <1>11,
     <1>12, <1>13 DEF Next, InRead, InHandler

(***************************************************************************)
(* The queue, the task states and the handler implement the safety part of *)
(* FpiEvent: every step of the driver is a step of the event or a stutter. *)
(***************************************************************************)
THEOREM EventRefinement == Spec => EventSafety
<1> USE DEF Event!vars, InWait
<1>1. Init => Event!Init
  BY DEF Init, Event!Init
<1>2. TypeOK /\ SignalInv /\ [Next]_vars => [Event!Next]_(Event!vars)
  <2> SUFFICES ASSUME TypeOK, SignalInv, [Next]_vars
               PROVE  [Event!Next]_(Event!vars)
    OBVIOUS
  <2> USE DEF TypeOK, RPC, Leaving
  <2>1. ASSUME NEW r \in Readers, Read(r)
        PROVE  Event!Call(r)
    BY <2>1 DEF Read, Goto, Event!Call
  <2>2. ASSUME NEW r \in Readers, Test(r)
        PROVE  Event!Notice(r) \/ UNCHANGED Event!vars
    BY <2>2 DEF Test, Goto, Event!Notice
  <2>3. ASSUME NEW r \in Readers, Prepare(r)
        PROVE  UNCHANGED Event!vars
    BY <2>3 DEF Prepare, Goto
  <2>4. ASSUME NEW r \in Readers, Recheck(r)
        PROVE  Event!Notice(r) \/ Event!Abandon(r) \/ UNCHANGED Event!vars
    <3> USE <2>4 DEF Recheck, Goto
    <3>1. CASE rpc[r] = "recheck" /\ wq_flag # 0
      BY <3>1 DEF Event!Notice
    <3>2. CASE rpc[r] = "recheck" /\ wq_flag = 0
      BY <3>2
    <3>3. CASE rpc[r] = "recheckInt" /\ wq_flag # 0
      <4>1. rpc' = [rpc EXCEPT ![r] = "finish"] /\ UNCHANGED <<wq_flag, sig>>
        BY <3>3
      <4>2. wq_flag = 1
        BY <3>3
      <4> QED
        BY ONLY <3>3, <4>1, <4>2, TypeOK DEF Event!Notice, TypeOK, RPC, Leaving
    <3>4. CASE rpc[r] = "recheckInt" /\ wq_flag = 0
      <4>1. rpc' = [rpc EXCEPT ![r] = "clearInt"] /\ UNCHANGED <<wq_flag, sig>>
        BY <3>4
      <4>2. sig[r]
        BY <3>4 DEF SignalInv
      <4> QED
        BY ONLY <3>4, <4>1, <4>2, TypeOK DEF Event!Abandon, TypeOK, RPC, Leaving
    <3>5. QED
      BY <3>1, <3>2, <3>3, <3>4
  <2>5. ASSUME NEW r \in Readers, Scheduled(r)
        PROVE  UNCHANGED Event!vars
    BY <2>5 DEF Scheduled, Goto
  <2>6. ASSUME NEW r \in Readers, Finish(r)
        PROVE  UNCHANGED Event!vars
    BY <2>6 DEF Finish, Goto
  <2>7. ASSUME NEW r \in Readers, Return(r)
        PROVE  Event!Return(r)
    <3> USE <2>7 DEF Return, ToUser, Goto
    <3>1. rpc[r] \in {"clear", "clearInt"} /\ rpc' = [rpc EXCEPT ![r] = "user"]
      OBVIOUS
    <3>2. (wq_flag = 1)' = FALSE
      OBVIOUS
    <3>3. {q \in Readers : sig[q]}' = {q \in Readers : sig[q]} \ {r}
      OBVIOUS
    <3>4. QED
      BY <3>1, <3>2, <3>3 DEF Event!Return
  <2>8. ASSUME NEW r \in Readers, Signal(r)
        PROVE  Event!Signal(r)
    BY <2>8 DEF Signal, Event!Signal
  <2>9. ASSUME NEW c \in Cpus, Raise(c)
        PROVE  UNCHANGED Event!vars
    BY <2>9 DEF Raise
  <2>10. ASSUME NEW c \in Cpus, Take(c)
         PROVE  UNCHANGED Event!vars
    BY <2>10 DEF Take, Handler
  <2>11. ASSUME NEW c \in Cpus, SetFlag(c)
         PROVE  Event!Post
    BY <2>11 DEF SetFlag, Handler, Event!Post
  <2>12. ASSUME NEW c \in Cpus, WakeUp(c)
         PROVE  UNCHANGED Event!vars
    BY <2>12 DEF WakeUp, Handler
  <2>13. CASE UNCHANGED vars
    BY <2>13
  <2>14. QED
    BY <2>1, <2>2, <2>3, <2>4, <2>5, <2>6, <2>7, <2>8, <2>9, <2>10, <2>11,
       <2>12, <2>13 DEF Next, InRead, InHandler, Event!Next
<1>3. Init => SignalInv
  BY DEF Init, SignalInv
<1>4. QED
  BY <1>1, <1>2, <1>3, SignalInvStep, TypeCorrect, PTL
     DEF Spec, EventSafety, Event!Safety
=============================================================================
