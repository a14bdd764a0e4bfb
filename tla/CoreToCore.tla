----------------------------- MODULE CoreToCore -----------------------------
(***************************************************************************)
(* The core-to-core test of mb_enzian.c: thread_c2c_1 writes a value to    *)
(* one cache line ("ping", c2c_data[0]) and waits until it appears in      *)
(* another one ("pong", c2c_data[16]); thread_c2c_2, or the FPGA, copies   *)
(* it there.  do_c2c_test creates the threads, meets them at the barrier   *)
(* and joins them.  It does not look at the result of pthread_create,      *)
(* which fails for a core that the thread cannot be bound to: such a       *)
(* thread is missing in its test.                                          *)
(*                                                                         *)
(* Each core has a store buffer with a slot for each line, drained in any  *)
(* order; __sync_synchronize and pthread_barrier_wait wait until it is     *)
(* empty.  The lines keep what an earlier test has left in them.           *)
(***************************************************************************)
EXTENDS PthreadBarrier

CONSTANTS
  Top,       \* the first value sent, 1000 in the code
  MaxCalls   \* bound: how often do_c2c_test is called

(* With Top = 1 the value that the lines start with would pass for an echo; *)
(* with Top = 2 the FPGA, which may still be copying that value after its   *)
(* excepted first trip, would pass it for the echo of the second.           *)
ASSUME TopAssumption == Top \in Nat /\ Top >= 3
ASSUME CallsAssumption == MaxCalls \in Nat

Lines == {"ping", "pong"}
Threads == {"c2c_1", "c2c_2"}
Parties == Threads \union {"main"}
Values == 0 .. Top
Empty == -2

VARIABLES
  fpga,      \* second_cpu = -1: the FPGA answers and not thread_c2c_2
  mem,       \* the two lines as the coherence protocol shows them
  buffer,    \* stores that a core has not yet made visible
  barrier,
  pc,
  i,         \* i of thread_c2c_1
  v,         \* v of thread_c2c_2, or the value the FPGA is copying
  seen,      \* history: the other side has loaded i since it was sent
  calls      \* calls so far

vars == <<fpga, mem, buffer, barrier, pc, i, v, seen, calls>>

PCs == {"none", "caller", "create", "init", "arrive", "wait", "send", "spin",
        "load", "copy", "sync", "join1", "join2", "ended"}

Init ==
  /\ fpga \in BOOLEAN
  /\ mem \in [Lines -> Values]
  /\ buffer = [t \in Threads |-> [l \in Lines |-> Empty]]
  /\ barrier = NoBarrier
  /\ pc = [main |-> "caller", c2c_1 |-> "none",
           c2c_2 |-> IF fpga THEN "load" ELSE "none"]
  /\ i = Top
  /\ v = 0
  /\ seen = FALSE
  /\ calls = 0

-----------------------------------------------------------------------------
Goto(p, from, to) ==
  /\ pc[p] = from
  /\ pc' = [pc EXCEPT ![p] = to]

Drained(t) == \A l \in Lines : buffer[t][l] = Empty

(* A store leaves the core whenever the hardware likes. *)
Drain(t, l) ==
  /\ buffer[t][l] # Empty
  /\ mem' = [mem EXCEPT ![l] = buffer[t][l]]
  /\ buffer' = [buffer EXCEPT ![t][l] = Empty]
  /\ UNCHANGED <<fpga, barrier, pc, i, v, seen, calls>>

(* pthread_barrier_wait; all rounds of this barrier are the first one. *)
ArriveAt(p) ==
  /\ p \in Threads => Drained(p)
  /\ Goto(p, "arrive", "wait")
  /\ barrier' = Arrive(barrier)
  /\ UNCHANGED <<fpga, mem, buffer, i, v, seen, calls>>

Pass(p) ==
  /\ Released(barrier, 0)
  /\ Goto(p, "wait", CASE p = "main" -> "join1"
                       [] p = "c2c_1" -> "send"
                       [] p = "c2c_2" -> "load")
  /\ UNCHANGED <<fpga, mem, buffer, barrier, i, v, seen, calls>>

-----------------------------------------------------------------------------
(* do_c2c_test *)

(* Mutant: the barrier counts one thread, whatever is on the other side. *)
CallForTwo ==
  /\ pc["main"] = "caller"
  /\ calls < MaxCalls
  /\ calls' = calls + 1
  /\ barrier' = NewBarrier(2)
  /\ \E first \in {"init", "none"} :
       pc' = [main |-> IF fpga THEN "arrive" ELSE "create", c2c_1 |-> first,
              c2c_2 |-> IF fpga THEN pc["c2c_2"] ELSE "none"]
  /\ i' = Top
  /\ UNCHANGED <<fpga, mem, buffer, v, seen>>

(* Up to the creation of thread_c2c_1, which starts to run or is missing. *)
Call ==
  /\ pc["main"] = "caller"
  /\ calls < MaxCalls
  /\ calls' = calls + 1
  /\ barrier' = NewBarrier(IF fpga THEN 2 ELSE 3)
  /\ \E first \in {"init", "none"} :
       pc' = [main |-> IF fpga THEN "arrive" ELSE "create", c2c_1 |-> first,
              c2c_2 |-> IF fpga THEN pc["c2c_2"] ELSE "none"]
  /\ i' = Top
  /\ UNCHANGED <<fpga, mem, buffer, v, seen>>

CreateSecond ==
  /\ pc["main"] = "create"
  /\ \E second \in {"arrive", "none"} :
       pc' = [pc EXCEPT !["main"] = "arrive", !["c2c_2"] = second]
  /\ UNCHANGED <<fpga, mem, buffer, barrier, i, v, seen, calls>>

Join1 ==
  /\ pc["c2c_1"] = "ended"
  /\ Goto("main", "join1", "join2")
  /\ UNCHANGED <<fpga, mem, buffer, barrier, i, v, seen, calls>>

(* The second join, if there is a second thread; destroy and return. *)
Return ==
  /\ fpga \/ pc["c2c_2"] = "ended"
  /\ Goto("main", "join2", "caller")
  /\ barrier' = NoBarrier
  /\ UNCHANGED <<fpga, mem, buffer, i, v, seen, calls>>

-----------------------------------------------------------------------------
(* thread_c2c_1 *)

Store(t, l, x) == buffer' = [buffer EXCEPT ![t][l] = x]

(* Mutant: the line that is read by the other side is not reset. *)
ResetPongOnly ==
  /\ Goto("c2c_1", "init", "arrive")
  /\ Store("c2c_1", "pong", 1)
  /\ UNCHANGED <<fpga, mem, barrier, i, v, seen, calls>>

(* Mutant: the lines are reset to the first value that is sent. *)
ResetToTop ==
  /\ Goto("c2c_1", "init", "arrive")
  /\ buffer' = [buffer EXCEPT !["c2c_1"] = [l \in Lines |-> Top]]
  /\ UNCHANGED <<fpga, mem, barrier, i, v, seen, calls>>

(* Both lines get 1: neither the 0 that ends the test nor the first value. *)
Reset ==
  /\ Goto("c2c_1", "init", "arrive")
  /\ buffer' = [buffer EXCEPT !["c2c_1"] = [l \in Lines |-> 1]]
  /\ UNCHANGED <<fpga, mem, barrier, i, v, seen, calls>>

Send ==
  /\ Goto("c2c_1", "send", "spin")
  /\ Store("c2c_1", "ping", i)
  /\ seen' = FALSE
  /\ UNCHANGED <<fpga, mem, barrier, i, v, calls>>

(* Mutant: the loop goes on below 0. *)
SpinOn ==
  /\ Drained("c2c_1")
  /\ mem["pong"] = i
  /\ Goto("c2c_1", "spin", IF i > -1 THEN "send" ELSE "ended")
  /\ i' = i - 1
  /\ UNCHANGED <<fpga, mem, buffer, barrier, v, seen, calls>>

(* __sync_synchronize, and the last turn of the inner loop. *)
Spin ==
  /\ Drained("c2c_1")
  /\ mem["pong"] = i
  /\ Goto("c2c_1", "spin", IF i > 0 THEN "send" ELSE "ended")
  /\ i' = i - 1
  /\ UNCHANGED <<fpga, mem, buffer, barrier, v, seen, calls>>

-----------------------------------------------------------------------------
(* thread_c2c_2; the FPGA runs the same loop without end or store buffer. *)

Load ==
  /\ Goto("c2c_2", "load", "copy")
  /\ v' = mem["ping"]
  /\ seen' = (seen \/ mem["ping"] = i)
  /\ UNCHANGED <<fpga, mem, buffer, barrier, i, calls>>

Copy ==
  /\ ~fpga
  /\ Goto("c2c_2", "copy", "sync")
  /\ Store("c2c_2", "pong", v)
  /\ UNCHANGED <<fpga, mem, barrier, i, v, seen, calls>>

(* Mutant: the thread ends without copying the last value. *)
StopAtOne ==
  /\ Drained("c2c_2")
  /\ Goto("c2c_2", "sync", IF v =< 1 THEN "ended" ELSE "load")
  /\ UNCHANGED <<fpga, mem, buffer, barrier, i, v, seen, calls>>

Sync ==
  /\ Drained("c2c_2")
  /\ Goto("c2c_2", "sync", IF v = 0 THEN "ended" ELSE "load")
  /\ UNCHANGED <<fpga, mem, buffer, barrier, i, v, seen, calls>>

FpgaCopy ==
  /\ fpga
  /\ Goto("c2c_2", "copy", "load")
  /\ mem' = [mem EXCEPT !["pong"] = v]
  /\ UNCHANGED <<fpga, buffer, barrier, i, v, seen, calls>>

-----------------------------------------------------------------------------
MainStep ==
  CreateSecond \/ ArriveAt("main") \/ Pass("main") \/ Join1 \/ Return

FirstStep ==
  Reset \/ ArriveAt("c2c_1") \/ Pass("c2c_1") \/ Send \/ Spin

SecondStep ==
  ArriveAt("c2c_2") \/ Pass("c2c_2") \/ Load \/ Copy \/ Sync \/ FpgaCopy

Next ==
  \/ Call \/ MainStep \/ FirstStep \/ SecondStep
  \/ \E t \in Threads, l \in Lines : Drain(t, l)

(* Threads run, stores become visible, and the FPGA does copy. *)
Fairness ==
  /\ WF_vars(MainStep) /\ WF_vars(FirstStep) /\ WF_vars(SecondStep)
  /\ \A t \in Threads, l \in Lines : WF_vars(Drain(t, l))

Spec == Init /\ [][Next]_vars /\ Fairness

-----------------------------------------------------------------------------
(* Every variable has its type, and i does not go below the value at which *)
(* thread_c2c_1 leaves its loop.                                           *)
TypeOK ==
  /\ fpga \in BOOLEAN
  /\ mem \in [Lines -> Values]
  /\ buffer \in [Threads -> [Lines -> Values \union {Empty}]]
  /\ barrier \in BarrierType
  /\ pc \in [Parties -> PCs]
  /\ i \in -1 .. Top
  /\ v \in Values
  /\ seen \in BOOLEAN
  /\ calls \in 0 .. MaxCalls

(***************************************************************************)
(* "Write a value to the first cacheline and wait till it appears in the   *)
(* second one": each trip that is timed went through the other side, which *)
(* has loaded the value after it was sent.  Leftovers of an earlier test   *)
(* and the values the lines were reset to never count as an echo.  The one *)
(* exception is the first trip to the FPGA: nothing waits for the FPGA to  *)
(* see the reset, and it may still be copying a Top that an interrupted    *)
(* test left behind.                                                       *)
(***************************************************************************)
EveryTripIsReal == [][i' < i /\ (fpga => i < Top) => seen]_vars

(***************************************************************************)
(* thread_c2c_2 ends only for the 0 of this test, so that thread_c2c_1 is  *)
(* never left alone with a value to be copied.                             *)
(***************************************************************************)
EchoOutlastsTheTest ==
  ~fpga /\ pc["c2c_2"] = "ended" /\ pc["main"] # "caller" /\ barrier.round > 0 =>
    i =< 0

(***************************************************************************)
(* No thread is joined that pthread_create has not made: tids holds        *)
(* nothing for it.  The code relies on the barrier for this, which does    *)
(* not open for main when a thread is missing.                             *)
(***************************************************************************)
JoinsOnlyCreated ==
  pc["main"] \in {"join1", "join2"} => \A t \in Threads : pc[t] # "none"

(***************************************************************************)
(* "wait till it appears": every test whose threads are there comes to an  *)
(* end and is reported, also after any number of tests before it.  With a  *)
(* thread missing the barrier waits for ever.                              *)
(***************************************************************************)
TestReturns ==
  (pc["main"] = "arrive" /\ \A t \in Threads : pc[t] # "none")
    ~> (pc["main"] = "caller")
=============================================================================
