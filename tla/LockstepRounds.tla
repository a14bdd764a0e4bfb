--------------------------- MODULE LockstepRounds ---------------------------
(***************************************************************************)
(* What start_threads promises the benchmarks, with no barrier, no create  *)
(* and no join: all workers measure the same number of rounds, nobody      *)
(* begins a round before everybody has finished the one before, and the    *)
(* result is reported when the last round of the last worker is over.      *)
(* That is so if all the workers could be created; if not, nothing is      *)
(* measured and nothing reported.                                          *)
(***************************************************************************)
EXTENDS Integers

CONSTANTS Workers, Rounds

VARIABLES
  complete,  \* every worker can be created
  done,      \* rounds that each worker has finished
  working,   \* workers that are measuring
  reported   \* the result has been handed to the caller

vars == <<complete, done, working, reported>>

Init ==
  /\ complete \in BOOLEAN
  /\ done = [w \in Workers |-> 0]
  /\ working = {}
  /\ reported = TRUE

(* The next measurement; nothing of the last one is left over. *)
Start ==
  /\ reported
  /\ reported' = FALSE
  /\ done' = [w \in Workers |-> 0]
  /\ UNCHANGED <<complete, working>>

Begin(w) ==
  /\ complete /\ ~reported
  /\ w \notin working
  /\ done[w] < Rounds
  /\ \A v \in Workers : done[v] >= done[w]
  /\ working' = working \union {w}
  /\ UNCHANGED <<complete, done, reported>>

End(w) ==
  /\ w \in working
  /\ done' = [done EXCEPT ![w] = @ + 1]
  /\ working' = working \ {w}
  /\ UNCHANGED <<complete, reported>>

Report ==
  /\ ~reported
  /\ \A w \in Workers : done[w] = Rounds
  /\ reported' = TRUE
  /\ UNCHANGED <<complete, done, working>>

Next == Start \/ Report \/ \E w \in Workers : Begin(w) \/ End(w)

(* What was started is finished; nobody has to start. *)
Fairness ==
  /\ WF_vars(Report)
  /\ \A w \in Workers : WF_vars(Begin(w) \/ End(w))

Safety == Init /\ [][Next]_vars

Spec == Safety /\ Fairness
=============================================================================
