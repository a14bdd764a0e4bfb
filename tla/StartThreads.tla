---------------------------- MODULE StartThreads ----------------------------
(***************************************************************************)
(* start_threads of mb_enzian.c with its worker threads: the main thread   *)
(* creates one worker for each core, they meet at one global barrier       *)
(* before every round of the measurement, and the main thread joins the    *)
(* workers and averages their best times.  The three workers (write,       *)
(* clear, read) differ in what they do to their part of the area and are   *)
(* one here; a measurement is a number of cycles out of Cycles.            *)
(***************************************************************************)
EXTENDS PthreadBarrier

CONSTANTS
  First,     \* first_cpu
  Last,      \* last_cpu
  Cycles,    \* how long one round may take
  Unmeasured, \* UINT64_MAX, where every minimum starts
  MaxCalls,  \* bound: how often start_threads is called
  Main       \* the calling thread

ASSUME CpuAssumption == First \in Nat /\ Last \in Nat /\ First =< Last
ASSUME CyclesAssumption ==
  /\ Cycles \subseteq Nat
  /\ Unmeasured \in Nat
  /\ \A c \in Cycles : c < Unmeasured
ASSUME CallsAssumption == MaxCalls \in Nat
ASSUME MainAssumption == Main \notin Nat

Workers == First .. Last
Parties == Workers \union {Main}

WorkerRounds == 4

(* Mutant: the main thread meets the workers once more than they come. *)
MainRoundsOneMore == 1 + 4

(* One wait to launch, and one for each turn of the loop. *)
MainRounds == 1 + 3

(* Mutant: the main thread is not counted. *)
PartiesButMain == Last - First + 1

(* The count that the barrier is initialised with. *)
BarrierCount == Last - First + 2

VARIABLES
  online,    \* the workers' cores that a thread can be bound to
  barrier,   \* the global barrier
  ticket,    \* the barrier round in which each party last arrived
  pc,        \* where each party is
  rounds,    \* barrier rounds that each party has finished
  best,      \* min of each worker
  index,     \* i of the create and the join loop
  min,       \* min of start_threads, the sum of the best times
  result,    \* what the last call returned
  calls      \* calls so far

locals == <<barrier, ticket, pc, rounds, best, index, min, result, calls>>
vars == <<online, locals>>

WorkerPCs == {"none", "arrive", "wait", "work", "ended"}
MainPCs == {"caller", "create", "arrive", "wait", "join"}

Init ==
  /\ online \in SUBSET Workers
  /\ barrier = NoBarrier
  /\ ticket = [p \in Parties |-> 0]
  /\ pc = [p \in Parties |-> IF p = Main THEN "caller" ELSE "none"]
  /\ rounds = [p \in Parties |-> 0]
  /\ best = [w \in Workers |-> Unmeasured]
  /\ index = First
  /\ min = Unmeasured
  /\ result = 0
  /\ calls = 0

-----------------------------------------------------------------------------
Goto(p, from, to) ==
  /\ pc[p] = from
  /\ pc' = [pc EXCEPT ![p] = to]

(* The call, up to the create loop: the threads of the last call are gone. *)
Call ==
  /\ pc[Main] = "caller"
  /\ calls < MaxCalls
  /\ calls' = calls + 1
  /\ barrier' = NewBarrier(BarrierCount)
  /\ pc' = [p \in Parties |-> IF p = Main THEN "create" ELSE "none"]
  /\ rounds' = [p \in Parties |-> 0]
  /\ best' = [w \in Workers |-> Unmeasured]
  /\ index' = First
  /\ min' = Unmeasured
  /\ UNCHANGED <<ticket, result>>

(* Mutant: the loop creates one thread more. *)
CreateOneMore ==
  /\ pc[Main] = "create"
  /\ index =< Last + 1
  /\ index' = index + 1
  /\ pc' = [pc EXCEPT ![index] = IF index \in online THEN "arrive" ELSE "none"]
  /\ UNCHANGED <<barrier, ticket, rounds, best, min, result, calls>>

(* pthread_create fails, unnoticed, for a core the thread cannot be bound   *)
(* to; otherwise the worker runs at once.                                  *)
Create ==
  /\ pc[Main] = "create"
  /\ index =< Last
  /\ index' = index + 1
  /\ pc' = [pc EXCEPT ![index] = IF index \in online THEN "arrive" ELSE "none"]
  /\ UNCHANGED <<barrier, ticket, rounds, best, min, result, calls>>

AllCreated ==
  /\ index > Last
  /\ Goto(Main, "create", "arrive")
  /\ UNCHANGED <<barrier, ticket, rounds, best, index, min, result, calls>>

(* pthread_barrier_wait, first half. *)
ArriveAt(p) ==
  /\ Goto(p, "arrive", "wait")
  /\ ticket' = [ticket EXCEPT ![p] = barrier.round]
  /\ barrier' = Arrive(barrier)
  /\ UNCHANGED <<rounds, best, index, min, result, calls>>

(* pthread_barrier_wait, second half, in a worker: the round begins. *)
Pass(w) ==
  /\ Released(barrier, ticket[w])
  /\ Goto(w, "wait", "work")
  /\ UNCHANGED <<barrier, ticket, rounds, best, index, min, result, calls>>

(* The end of a round; after the last one the worker returns its minimum. *)
Work(w) ==
  /\ rounds' = [rounds EXCEPT ![w] = @ + 1]
  /\ Goto(w, "work", IF rounds'[w] < WorkerRounds THEN "arrive" ELSE "ended")
  /\ \E cycles \in Cycles :
       best' = [best EXCEPT ![w] = IF cycles < @ THEN cycles ELSE @]
  /\ UNCHANGED <<barrier, ticket, index, min, result, calls>>

(* Mutant: min still holds UINT64_MAX when the best times are added. *)
MainPassKeepsMin ==
  /\ Released(barrier, ticket[Main])
  /\ rounds' = [rounds EXCEPT ![Main] = @ + 1]
  /\ index' = First
  /\ Goto(Main, "wait", IF rounds'[Main] < MainRounds THEN "arrive" ELSE "join")
  /\ UNCHANGED <<barrier, ticket, best, min, result, calls>>

(* pthread_barrier_wait, second half, in the main thread. *)
MainPass ==
  /\ Released(barrier, ticket[Main])
  /\ rounds' = [rounds EXCEPT ![Main] = @ + 1]
  /\ index' = First
  /\ min' = IF rounds'[Main] < MainRounds THEN min ELSE 0
  /\ Goto(Main, "wait", IF rounds'[Main] < MainRounds THEN "arrive" ELSE "join")
  /\ UNCHANGED <<barrier, ticket, best, result, calls>>

(* Mutant: the main thread does not wait for the workers to end. *)
JoinRunning ==
  /\ pc[Main] = "join"
  /\ index =< Last
  /\ index' = index + 1
  /\ min' = min + best[index]
  /\ UNCHANGED <<barrier, ticket, pc, rounds, best, result, calls>>

Join ==
  /\ pc[Main] = "join"
  /\ index =< Last
  /\ pc[index] = "ended"
  /\ index' = index + 1
  /\ min' = min + best[index]
  /\ UNCHANGED <<barrier, ticket, pc, rounds, best, result, calls>>

(* pthread_barrier_destroy and the return. *)
Return ==
  /\ index > Last
  /\ Goto(Main, "join", "caller")
  /\ barrier' = NoBarrier
  /\ result' = min \div (Last - First + 1)
  /\ UNCHANGED <<ticket, rounds, best, index, min, calls>>

MainStep ==
  Create \/ AllCreated \/ ArriveAt(Main) \/ MainPass \/ Join \/ Return

WorkerStep(w) == ArriveAt(w) \/ Pass(w) \/ Work(w)

Next ==
  /\ Call \/ MainStep \/ \E w \in Workers : WorkerStep(w)
  /\ UNCHANGED online

(* Every thread gets to run on its core; nobody has to call. *)
Fairness ==
  /\ WF_locals(MainStep)
  /\ \A w \in Workers : WF_locals(WorkerStep(w))

Spec == Init /\ [][Next]_vars /\ Fairness

-----------------------------------------------------------------------------
(* Every variable has its type; nobody arrives twice in one barrier round, *)
(* so the count of the arrived stays below the barrier's.                  *)
TypeOK ==
  /\ online \subseteq Workers
  /\ barrier \in BarrierType
  /\ barrier.count \in {0, BarrierCount}
  /\ barrier.arrived < Last - First + 2
  /\ ticket \in [Parties -> Nat]
  /\ pc \in [Parties -> WorkerPCs \union MainPCs]
  /\ \A w \in Workers : pc[w] \in WorkerPCs
  /\ pc[Main] \in MainPCs
  /\ rounds \in [Parties -> Nat]
  /\ best \in [Workers -> Cycles \union {Unmeasured}]
  /\ index \in First .. (Last + 1)
  /\ min \in Nat
  /\ result \in Nat
  /\ calls \in 0 .. MaxCalls

(***************************************************************************)
(* "Barrier to launch threads simultaneously": while a worker measures,    *)
(* every other one has finished the rounds before that one and nobody is   *)
(* a round ahead of it, however late it left the barrier.                  *)
(***************************************************************************)
LaunchedTogether ==
  \A w, v \in Workers :
    pc[w] = "work" =>
      /\ rounds[v] \in {rounds[w], rounds[w] + 1}
      /\ rounds[v] = rounds[w] + 1 => pc[v] # "work"

(* Between two calls the barrier is gone, so nobody is at it any more. *)
NobodyLeftBehind ==
  pc[Main] = "caller" =>
    \A w \in Workers : pc[w] = IF calls = 0 THEN "none" ELSE "ended"

(***************************************************************************)
(* The result is an average: it lies between the best times of the fastest *)
(* and the slowest worker, whose every round was measured.                 *)
(***************************************************************************)
ResultIsAnAverage ==
  pc[Main] = "caller" /\ calls > 0 =>
    /\ \E w \in Workers : best[w] =< result
    /\ \E w \in Workers : best[w] >= result
    /\ \A w \in Workers : best[w] # Unmeasured /\ rounds[w] = WorkerRounds

(***************************************************************************)
(* Barrier, create and join implement rounds in lockstep, and every call   *)
(* gets through them and returns; unless a core is not online: then no     *)
(* worker begins a round, and the call never returns.                      *)
(***************************************************************************)
Lockstep == INSTANCE LockstepRounds WITH
  Rounds <- 4,
  complete <- online = Workers,
  done <- [w \in Workers |-> rounds[w]],
  working <- {w \in Workers : pc[w] = "work"},
  reported <- pc[Main] = "caller"

LockstepSafety == Lockstep!Safety

ImplementsRounds == Lockstep!Spec
=============================================================================
