--------------------------- MODULE PthreadBarrier ---------------------------
(***************************************************************************)
(* A pthread barrier as mb_enzian.c uses it: a record that a caller of     *)
(* pthread_barrier_wait changes in one atomic step.  The caller remembers  *)
(* the round it arrived in and goes on once that round is over; so a fast  *)
(* thread may be in the next round before a slow one has left the last.    *)
(***************************************************************************)
EXTENDS Integers

(* pthread_barrier_init(b, NULL, n) *)
NewBarrier(n) == [count |-> n, arrived |-> 0, round |-> 0]

(* Before pthread_barrier_init and after pthread_barrier_destroy. *)
NoBarrier == NewBarrier(0)

(* The last one to arrive ends the round. *)
Arrive(b) ==
  IF b.arrived + 1 = b.count
  THEN [b EXCEPT !.arrived = 0, !.round = @ + 1]
  ELSE [b EXCEPT !.arrived = @ + 1]

Released(b, ticket) == b.round > ticket

BarrierType == [count : Nat, arrived : Nat, round : Nat]
=============================================================================
