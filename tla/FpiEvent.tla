------------------------------ MODULE FpiEvent ------------------------------
(***************************************************************************)
(* What /dev/fpi promises its readers, with no wait queue and no handler:  *)
(* an interrupt makes an event pending, a blocked read may leave once it   *)
(* has noticed a pending event (or a signal), and the return of the read   *)
(* clears the event.  Noticing and clearing are two steps, because the     *)
(* driver tests wq_flag and clears it without a lock in between; so two    *)
(* readers may share one interrupt, and a clear may swallow an interrupt   *)
(* that came after the test.                                               *)
(***************************************************************************)
CONSTANT Readers

VARIABLES
  pending,    \* an interrupt was handled and no read has cleared it since
  signalled,  \* the readers with a signal pending
  phase       \* where each reader is

vars == <<pending, signalled, phase>>

Init ==
  /\ pending = FALSE
  /\ signalled = {}
  /\ phase = [r \in Readers |-> "idle"]

Call(r) ==
  /\ phase[r] = "idle"
  /\ phase' = [phase EXCEPT ![r] = "waiting"]
  /\ UNCHANGED <<pending, signalled>>

Post ==
  /\ pending' = TRUE
  /\ UNCHANGED <<signalled, phase>>

Signal(r) ==
  /\ signalled' = signalled \union {r}
  /\ UNCHANGED <<pending, phase>>

Notice(r) ==
  /\ phase[r] = "waiting"
  /\ pending
  /\ phase' = [phase EXCEPT ![r] = "leaving"]
  /\ UNCHANGED <<pending, signalled>>

Abandon(r) ==
  /\ phase[r] = "waiting"
  /\ r \in signalled
  /\ phase' = [phase EXCEPT ![r] = "leaving"]
  /\ UNCHANGED <<pending, signalled>>

Return(r) ==
  /\ phase[r] = "leaving"
  /\ pending' = FALSE
  /\ signalled' = signalled \ {r}
  /\ phase' = [phase EXCEPT ![r] = "idle"]

Next ==
  \/ Post
  \/ \E r \in Readers :
       Call(r) \/ Signal(r) \/ Notice(r) \/ Abandon(r) \/ Return(r)

(***************************************************************************)
(* A reader that has something to leave for leaves, and one that is        *)
(* leaving returns.                                                        *)
(***************************************************************************)
Fairness ==
  \A r \in Readers : WF_vars(Notice(r) \/ Abandon(r)) /\ WF_vars(Return(r))

Safety == Init /\ [][Next]_vars

Spec == Safety /\ Fairness
=============================================================================
