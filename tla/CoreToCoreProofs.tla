-------------------------- MODULE CoreToCoreProofs --------------------------
(***************************************************************************)
(* Proofs about the core-to-core test of mb_enzian.c, for any first value  *)
(* and any number of tests, with a core or the FPGA on the other side, and *)
(* with any of the threads missing in any of the tests.                    *)
(***************************************************************************)
EXTENDS CoreToCore, TLAPS

First == pc["c2c_1"]
Second == pc["c2c_2"]
Main == pc["main"]

At(p, here) == IF pc[p] = here THEN 1 ELSE 0

(* Where the parties are before and after the only round of the barrier.   *)
PartyInv ==
  /\ First \in {"none", "init", "arrive", "wait", "send", "spin", "ended"}
  /\ Second \in IF fpga THEN {"load", "copy"}
                ELSE {"none", "arrive", "wait", "load", "copy", "sync", "ended"}
  /\ Main \in {"caller", "create", "arrive", "wait", "join1", "join2"}
  /\ Main = "caller" =>
       /\ First \in {"none", "ended"}
       /\ ~fpga => Second \in {"none", "ended"}
       /\ barrier = NoBarrier

BarrierInv ==
  Main # "caller" =>
    \/ /\ barrier.round = 0
       /\ barrier.count = IF fpga THEN 2 ELSE 3
       /\ barrier.arrived =
            At("main", "wait") + At("c2c_1", "wait") + At("c2c_2", "wait")
       /\ First \in {"none", "init", "arrive", "wait"}
       /\ Main \in {"create", "arrive", "wait"}
       /\ fpga => Main # "create"
       /\ ~fpga => Second \in IF Main = "create" THEN {"none"}
                              ELSE {"none", "arrive", "wait"}
    \/ /\ barrier.round = 1
       /\ First \in {"wait", "send", "spin", "ended"}
       /\ ~fpga => Second \in {"wait", "load", "copy", "sync", "ended"}
       /\ Main \in {"wait", "join1", "join2"}
       /\ Main = "join2" => First = "ended"

(* The turn of the loop that thread_c2c_1 is in.                           *)
TurnInv ==
  /\ First \in {"init", "arrive", "wait"} => i = Top
  /\ First \in {"send", "spin"} => i >= 0
  /\ First = "ended" => i = -1

(* What a store buffer may hold.                                           *)
BufferInv ==
  /\ buffer["c2c_1"]["ping"] # Empty =>
       \/ First = "arrive" /\ buffer["c2c_1"]["ping"] = 1
       \/ First = "spin" /\ buffer["c2c_1"]["ping"] = i
  /\ buffer["c2c_1"]["pong"] # Empty =>
       First = "arrive" /\ buffer["c2c_1"]["pong"] = 1
  /\ buffer["c2c_2"]["ping"] = Empty
  /\ buffer["c2c_2"]["pong"] # Empty =>
       Second = "sync" /\ buffer["c2c_2"]["pong"] = v
  /\ Second = "sync" /\ buffer["c2c_2"]["pong"] = Empty => mem["pong"] = v

(* What is underway from an earlier turn, or from the reset.               *)
Former == IF i = Top THEN 1 ELSE i + 1
Formers == IF fpga /\ i = Top - 1 THEN {1, Top} ELSE {Former}

Underway == Second \in {"copy", "sync"}

(* The first line holds the value of this turn or that of the last one.    *)
PingInv ==
  First \in {"wait", "send", "spin", "ended"} =>
    /\ mem["ping"] = Former \/ (First = "spin" /\ mem["ping"] = i)
    /\ First = "spin" /\ buffer["c2c_1"]["ping"] = Empty => mem["ping"] = i

(***************************************************************************)
(* The value of this turn goes from the first line to v and from there to  *)
(* the second; where it has come, everything before it has it too, and it  *)
(* has been seen.                                                          *)
(***************************************************************************)
FlowInv ==
  First \in {"wait", "send", "spin", "ended"} /\ (fpga => i < Top) =>
    /\ mem["pong"] \in Formers \/ (First = "spin" /\ mem["pong"] = i)
    /\ Underway => v \in Formers \/ (First = "spin" /\ v = i)
    /\ First = "spin" /\ Underway /\ v = i => seen /\ mem["ping"] = i
    /\ First = "spin" /\ mem["pong"] = i =>
         seen /\ mem["ping"] = i /\ (Underway => v = i)
    /\ Second = "ended" /\ barrier.round = 1 => i =< 0 /\ mem["pong"] = 0

(* The reset between two cores: both lines hold 1 when the barrier opens.  *)
ResetInv ==
  ~fpga /\ First = "arrive" =>
    \A l \in Lines : buffer["c2c_1"][l] = Empty => mem[l] = 1

(***************************************************************************)
(* The reset with the FPGA, which has at most one value underway, the one  *)
(* that was left in the first line: when it has put a Top into the second  *)
(* line, it next copies a 1 or a Top.                                      *)
(***************************************************************************)
FpgaInv ==
  fpga =>
    /\ First \in {"none", "init"} => (Underway => v = mem["ping"])
    /\ First = "arrive" =>
         IF buffer["c2c_1"]["ping"] = Empty
         THEN /\ mem["ping"] = 1
              /\ buffer["c2c_1"]["pong"] = Empty =>
                   (Underway /\ mem["pong"] = Top => v \in {1, Top})
         ELSE /\ Underway => v = mem["ping"]
              /\ buffer["c2c_1"]["pong"] = Empty =>
                   mem["pong"] \in {1, mem["ping"]}
    /\ First \in {"wait", "send", "spin"} /\ i = Top =>
         (Underway /\ mem["pong"] = Top => v \in {1, Top})

IInv ==
  /\ TypeOK /\ PartyInv /\ BarrierInv /\ TurnInv /\ BufferInv
  /\ PingInv /\ FlowInv /\ ResetInv /\ FpgaInv
-----------------------------------------------------------------------------

(* A step of one party leaves the others where they are.                   *)
LEMMA GotoFacts ==
  ASSUME TypeOK, NEW p \in Parties, NEW from, NEW to \in PCs, Goto(p, from, to)
  PROVE  /\ pc[p] = from /\ pc'[p] = to
         /\ pc' \in [Parties -> PCs]
         /\ \A q \in Parties : q # p => pc'[q] = pc[q]
  BY DEF TypeOK, Goto

(* The three parties.                                                      *)
LEMMA Cast ==
  /\ "main" \in Parties /\ "c2c_1" \in Parties /\ "c2c_2" \in Parties
  /\ "c2c_1" \in Threads /\ "c2c_2" \in Threads
  /\ "ping" \in Lines /\ "pong" \in Lines
  /\ \A p \in Parties : p \in {"main", "c2c_1", "c2c_2"}
  /\ \A t \in Threads : t \in {"c2c_1", "c2c_2"}
  /\ \A l \in Lines : l \in {"ping", "pong"}
  BY DEF Parties, Threads, Lines

(* The types that the proofs need most.                                    *)
LEMMA Types ==
  ASSUME TypeOK
  PROVE  /\ Top \in Nat /\ Top >= 3 /\ Empty = -2
         /\ i \in Int /\ -1 =< i /\ i =< Top
         /\ v \in Nat /\ v =< Top
         /\ fpga \in BOOLEAN
         /\ \A l \in Lines : mem[l] \in Nat /\ mem[l] =< Top
         /\ barrier.count \in Nat /\ barrier.arrived \in Nat /\ barrier.round \in Nat
  BY TopAssumption DEF TypeOK, Empty, Values, BarrierType

(* A new barrier has counted nobody.                                       *)
LEMMA FreshBarrier ==
  ASSUME NEW n \in Nat
  PROVE  /\ NewBarrier(n) \in BarrierType
         /\ NewBarrier(n).count = n /\ NewBarrier(n).arrived = 0
         /\ NewBarrier(n).round = 0
  BY DEF NewBarrier, BarrierType

(* Nothing is underway at first, whatever the lines hold.                  *)
LEMMA InitIInv == Init => IInv
<1> SUFFICES ASSUME Init PROVE IInv
  OBVIOUS
<1>1. /\ pc \in [Parties -> PCs]
      /\ Main = "caller" /\ First = "none"
      /\ Second = IF fpga THEN "load" ELSE "none"
  BY DEF Init, Parties, Threads, PCs, Main, First, Second
<1>2. NoBarrier \in BarrierType
  BY FreshBarrier DEF NoBarrier
<1>3. TypeOK
  <2>1. buffer \in [Threads -> [Lines -> Values \union {Empty}]]
    BY DEF Init
  <2>2. i \in -1 .. Top /\ v \in Values /\ calls \in 0 .. MaxCalls
    BY TopAssumption, CallsAssumption DEF Init, Values
  <2> QED
    BY <1>1, <1>2, <2>1, <2>2 DEF Init, TypeOK
<1>4. \A t \in Threads, l \in Lines : buffer[t][l] = Empty
  BY DEF Init
<1>5. PartyInv /\ BarrierInv /\ TurnInv /\ BufferInv
  BY <1>1, <1>4, Cast DEF Init, PartyInv, BarrierInv, TurnInv, BufferInv
<1>6. PingInv /\ FlowInv /\ ResetInv /\ FpgaInv
  BY <1>1 DEF PingInv, FlowInv, ResetInv, FpgaInv, Underway
<1> QED
  BY <1>3, <1>5, <1>6 DEF IInv

(* A new test finds no thread and nothing in the store buffers.            *)
LEMMA CallStep == IInv /\ Call => IInv'
<1> SUFFICES ASSUME IInv, Call PROVE IInv'
  OBVIOUS
<1>1. /\ pc' \in [Parties -> PCs]
      /\ Main = "caller" /\ Main' = IF fpga THEN "arrive" ELSE "create"
      /\ First \in {"none", "ended"} /\ First' \in {"init", "none"}
      /\ Second' = IF fpga THEN Second ELSE "none"
  BY DEF Call, IInv, TypeOK, Parties, Threads, PCs, Main, First, Second, PartyInv
<1>2. /\ barrier' \in BarrierType /\ barrier'.arrived = 0 /\ barrier'.round = 0
      /\ barrier'.count = IF fpga THEN 2 ELSE 3
  BY FreshBarrier DEF Call
<1>3. UNCHANGED <<fpga, mem, buffer, v, seen>> /\ i' = Top
  BY DEF Call
<1>4. TypeOK'
  BY <1>1, <1>2, <1>3, Types, TopAssumption, CallsAssumption
  DEF Call, IInv, TypeOK, Values
<1>5. PartyInv' /\ TurnInv'
  BY <1>1, <1>3 DEF IInv, PartyInv, TurnInv
<1>6. BarrierInv'
  BY <1>1, <1>2, <1>3 DEF IInv, PartyInv, BarrierInv, At, First, Second, Main
<1>7. BufferInv'
  BY <1>1, <1>3 DEF IInv, PartyInv, BufferInv
<1>8. PingInv' /\ FlowInv' /\ ResetInv'
  BY <1>1 DEF PingInv, FlowInv, ResetInv
<1>9. FpgaInv'
  <2>1. CASE First = "none"
    BY <1>1, <1>3, <2>1 DEF IInv, FpgaInv, Underway
  <2>2. CASE First = "ended"
    <3>1. ASSUME fpga, Underway PROVE v = mem["ping"]
      BY <2>2, <3>1, Types
      DEF IInv, TurnInv, PingInv, FlowInv, Former, Formers
    <3> QED
      BY <1>1, <1>3, <3>1 DEF FpgaInv, Underway
  <2> QED
    BY <1>1, <2>1, <2>2
<1> QED
  BY <1>4, <1>5, <1>6, <1>7, <1>8, <1>9 DEF IInv

(* The second thread comes to the barrier, or is missing; nothing of the   *)
(* last test is in its store buffer.                                       *)
LEMMA CreateSecondStep == IInv /\ CreateSecond => IInv'
<1> SUFFICES ASSUME IInv, CreateSecond PROVE IInv'
  OBVIOUS
<1>1. /\ pc' \in [Parties -> PCs]
      /\ Main = "create" /\ Main' = "arrive"
      /\ First' = First /\ Second' \in {"arrive", "none"}
  BY DEF CreateSecond, IInv, TypeOK, Parties, Threads, PCs, Main, First, Second
<1>2. /\ barrier.round = 0 /\ First \in {"none", "init", "arrive", "wait"}
      /\ ~fpga
      /\ barrier.arrived = At("c2c_1", "wait") /\ barrier.count = 3
      /\ Second = "none"
  BY <1>1 DEF IInv, PartyInv, BarrierInv, At, Main, First, Second
<1>3. UNCHANGED <<fpga, mem, buffer, barrier, i, v, seen, calls>>
  BY DEF CreateSecond
<1>4. TypeOK'
  BY <1>1, <1>3 DEF IInv, TypeOK
<1>5. PartyInv' /\ TurnInv'
  BY <1>1, <1>2, <1>3 DEF IInv, PartyInv, TurnInv
<1>6. BarrierInv'
  BY <1>1, <1>2, <1>3 DEF BarrierInv, At, First, Second, Main
<1>7. BufferInv' /\ PingInv' /\ ResetInv'
  BY <1>1, <1>2, <1>3 DEF IInv, BufferInv, PingInv, ResetInv, Former
<1>8. FlowInv' /\ FpgaInv'
  BY <1>1, <1>2, <1>3 DEF IInv, FlowInv, FpgaInv, Formers, Former, Underway
<1> QED
  BY <1>4, <1>5, <1>6, <1>7, <1>8 DEF IInv

(* An arrival opens the barrier when all the others wait.                  *)
LEMMA Arrival ==
  ASSUME TypeOK
  PROVE  /\ Arrive(barrier) \in BarrierType
         /\ Arrive(barrier).count = barrier.count
         /\ barrier.arrived + 1 = barrier.count =>
              /\ Arrive(barrier).arrived = 0
              /\ Arrive(barrier).round = barrier.round + 1
         /\ barrier.arrived + 1 # barrier.count =>
              /\ Arrive(barrier).arrived = barrier.arrived + 1
              /\ Arrive(barrier).round = barrier.round
<1>1. barrier \in BarrierType
  BY DEF TypeOK
<1>2. CASE barrier.arrived + 1 = barrier.count
  <2> DEFINE b == [barrier EXCEPT !.arrived = 0]
             n == barrier.round + 1
  <2>1. /\ b \in BarrierType /\ b.count = barrier.count /\ b.arrived = 0
        /\ n \in Nat
    BY <1>1 DEF BarrierType
  <2>2. Arrive(barrier) = [b EXCEPT !.round = n]
    BY <1>2 DEF Arrive
  <2> HIDE DEF b, n
  <2>3. /\ Arrive(barrier) \in BarrierType
        /\ Arrive(barrier).count = b.count
        /\ Arrive(barrier).arrived = b.arrived /\ Arrive(barrier).round = n
    BY <2>1, <2>2 DEF BarrierType
  <2> QED
    BY <1>2, <2>1, <2>3 DEF n
<1>3. CASE barrier.arrived + 1 # barrier.count
  <2>1. Arrive(barrier) = [barrier EXCEPT !.arrived = barrier.arrived + 1]
    BY <1>3 DEF Arrive
  <2>2. /\ Arrive(barrier) \in BarrierType
        /\ Arrive(barrier).count = barrier.count
        /\ Arrive(barrier).arrived = barrier.arrived + 1
        /\ Arrive(barrier).round = barrier.round
    BY <1>1, <2>1 DEF BarrierType
  <2> QED
    BY <1>3, <2>2
<1> QED
  BY <1>2, <1>3

(***************************************************************************)
(* pthread_barrier_wait: when thread_c2c_1 waits, its reset is in memory.  *)
(***************************************************************************)
LEMMA ArriveStep == \A p \in Parties : IInv /\ ArriveAt(p) => IInv'
<1> SUFFICES ASSUME NEW p \in Parties, IInv, ArriveAt(p) PROVE IInv'
  OBVIOUS
<1>1. /\ pc[p] = "arrive" /\ pc'[p] = "wait" /\ pc' \in [Parties -> PCs]
      /\ \A q \in Parties : q # p => pc'[q] = pc[q]
  BY GotoFacts DEF ArriveAt, IInv, PCs
<1>2. /\ UNCHANGED <<fpga, mem, buffer, i, v, seen, calls>>
      /\ barrier' = Arrive(barrier)
      /\ p \in Threads => Drained(p)
  BY DEF ArriveAt
<1>3. Main # "caller" /\ barrier.round = 0
  BY <1>1, Cast DEF IInv, PartyInv, BarrierInv, Main, First, Second
<1>4. /\ barrier'.count = barrier.count /\ barrier' \in BarrierType
      /\ barrier.arrived + 1 = barrier.count =>
           barrier'.arrived = 0 /\ barrier'.round = 1
      /\ barrier.arrived + 1 # barrier.count =>
           barrier'.arrived = barrier.arrived + 1 /\ barrier'.round = 0
  BY <1>2, <1>3, Arrival DEF IInv
<1>5. TypeOK'
  BY <1>1, <1>2, <1>4 DEF IInv, TypeOK
<1>6. PartyInv'
  BY <1>1, <1>2, <1>3, Cast DEF IInv, PartyInv, Main, First, Second
<1>7. BarrierInv'
  BY <1>1, <1>2, <1>3, <1>4, Cast
  DEF IInv, PartyInv, BarrierInv, At, Main, First, Second
<1>8. TurnInv'
  BY <1>1, <1>2, Cast DEF IInv, TurnInv, First
<1>9. BufferInv'
  BY <1>1, <1>2, Cast DEF IInv, BufferInv, First, Second, Drained
<1>10. CASE p = "c2c_1"
  <2>1. /\ First = "arrive" /\ First' = "wait" /\ Second' = Second /\ i = Top
        /\ \A l \in Lines : buffer["c2c_1"][l] = Empty
    BY <1>1, <1>2, <1>10, Cast DEF IInv, TurnInv, First, Second, Drained
  <2>2. ~fpga => mem["ping"] = 1 /\ mem["pong"] = 1 /\ ~Underway
    BY <1>3, <2>1, Cast
    DEF IInv, ResetInv, PartyInv, BarrierInv, Underway
  <2>3. fpga => /\ mem["ping"] = 1
                /\ Underway /\ mem["pong"] = Top => v \in {1, Top}
    BY <2>1, Cast DEF IInv, FpgaInv
  <2>4. Second = "ended" => barrier'.round # 1
    BY <1>3, <1>4, <2>1
    DEF IInv, PartyInv, BarrierInv, At, Main, First, Second
  <2>5. PingInv' /\ ResetInv'
    BY <1>2, <2>1, <2>2, <2>3 DEF PingInv, ResetInv, Former
  <2>6. FlowInv'
    BY <1>2, <2>1, <2>2, <2>4, Types DEF IInv, FlowInv, Former, Formers, Underway
  <2>7. FpgaInv'
    BY <1>2, <2>1, <2>3, Types DEF IInv, FpgaInv, Underway
  <2> QED
    BY <1>5, <1>6, <1>7, <1>8, <1>9, <2>5, <2>6, <2>7 DEF IInv
<1>11. CASE p # "c2c_1"
  <2>1. First' = First
    BY <1>1, <1>11, Cast DEF First
  <2>2. Underway' <=> Underway
    BY <1>1, Cast DEF Underway, Second
  <2>3. Second' # "ended" \/ (Second = "ended" /\ barrier'.round # 1)
    BY <1>1, <1>3, <1>4, <1>6, <1>7, Cast
    DEF IInv, PartyInv, BarrierInv, At, Main, First, Second
  <2>4. PingInv' /\ ResetInv' /\ FlowInv' /\ FpgaInv'
    BY <1>2, <2>1, <2>2, <2>3
    DEF IInv, PingInv, ResetInv, FlowInv, FpgaInv, Former, Formers
  <2> QED
    BY <1>5, <1>6, <1>7, <1>8, <1>9, <2>4 DEF IInv
<1> QED
  BY <1>10, <1>11

(* The barrier is open: the threads begin, the main thread goes to join.   *)
LEMMA PassStep == \A p \in Parties : IInv /\ Pass(p) => IInv'
<1> SUFFICES ASSUME NEW p \in Parties, IInv, Pass(p) PROVE IInv'
  OBVIOUS
<1> DEFINE to == CASE p = "main" -> "join1"
                   [] p = "c2c_1" -> "send"
                   [] p = "c2c_2" -> "load"
<1>1. /\ to = IF p = "main" THEN "join1" ELSE IF p = "c2c_1" THEN "send" ELSE "load"
      /\ to \in PCs
  BY Cast DEF PCs
<1>2. Goto(p, "wait", to) /\ barrier.round > 0
  BY DEF Pass, Released
<1> HIDE DEF to
<1>3. /\ pc[p] = "wait" /\ pc'[p] = to /\ pc' \in [Parties -> PCs]
      /\ \A q \in Parties : q # p => pc'[q] = pc[q]
  BY <1>1, <1>2, GotoFacts DEF IInv
<1>4. UNCHANGED <<fpga, mem, buffer, barrier, i, v, seen, calls>>
  BY DEF Pass
<1>5. Main # "caller" /\ barrier.round = 1
  BY <1>2, <1>3, Cast, Types
  DEF IInv, PartyInv, BarrierInv, Main, First, Second
<1>6. TypeOK'
  BY <1>3, <1>4 DEF IInv, TypeOK
<1>7. PartyInv'
  BY <1>1, <1>3, <1>4, <1>5, Cast DEF IInv, PartyInv, Main, First, Second
<1>8. BarrierInv'
  BY <1>1, <1>3, <1>4, <1>5, Cast
  DEF IInv, PartyInv, BarrierInv, Main, First, Second
<1>9. TurnInv'
  BY <1>1, <1>3, <1>4, Cast, Types DEF IInv, TurnInv, First
<1>10. BufferInv'
  BY <1>1, <1>3, <1>4, Cast DEF IInv, BufferInv, First, Second
<1>11. /\ First' = First \/ (First = "wait" /\ First' = "send")
       /\ Second' = Second \/ (Second = "wait" /\ Second' = "load")
  BY <1>1, <1>3, Cast DEF First, Second
<1>12. PingInv' /\ ResetInv'
  BY <1>4, <1>11 DEF IInv, PingInv, ResetInv, Former
<1>13. FlowInv'
  BY <1>4, <1>11 DEF IInv, FlowInv, Former, Formers, Underway
<1>14. FpgaInv'
  BY <1>4, <1>11 DEF IInv, FpgaInv, Underway
<1> QED
  BY <1>6, <1>7, <1>8, <1>9, <1>10, <1>12, <1>13, <1>14 DEF IInv

(* The joins and the return.                                               *)
LEMMA JoinSteps == IInv /\ (Join1 \/ Return) => IInv'
<1> SUFFICES ASSUME IInv, Join1 \/ Return PROVE IInv'
  OBVIOUS
<1>1. /\ pc' \in [Parties -> PCs] /\ First' = First /\ Second' = Second
      /\ UNCHANGED <<fpga, mem, buffer, i, v, seen, calls>>
      /\ \/ /\ Main = "join1" /\ Main' = "join2" /\ First = "ended"
            /\ barrier' = barrier
         \/ /\ Main = "join2" /\ Main' = "caller" /\ barrier' = NoBarrier
            /\ fpga \/ Second = "ended"
  BY GotoFacts, Cast DEF Join1, Return, IInv, PCs, Main, First, Second
<1>2. /\ NoBarrier \in BarrierType /\ NoBarrier.round = 0
      /\ Main = "join2" => First = "ended"
      /\ barrier.round = 1
  BY <1>1, FreshBarrier DEF NoBarrier, IInv, PartyInv, BarrierInv
<1>3. TypeOK'
  BY <1>1, <1>2 DEF IInv, TypeOK
<1>4. PartyInv' /\ TurnInv' /\ BufferInv'
  BY <1>1, <1>2 DEF IInv, PartyInv, TurnInv, BufferInv
<1>5. BarrierInv'
  BY <1>1, <1>2 DEF IInv, BarrierInv
<1>6. PingInv' /\ ResetInv' /\ FlowInv' /\ FpgaInv'
  BY <1>1, <1>2
  DEF IInv, PingInv, ResetInv, FlowInv, FpgaInv, Former, Formers, Underway
<1> QED
  BY <1>3, <1>4, <1>5, <1>6 DEF IInv

(* The reset is in the store buffer only.                                  *)
LEMMA ResetStep == IInv /\ Reset => IInv'
<1> SUFFICES ASSUME IInv, Reset PROVE IInv'
  OBVIOUS
<1>1. /\ pc' \in [Parties -> PCs] /\ First = "init" /\ First' = "arrive"
      /\ Main' = Main /\ Second' = Second
  BY GotoFacts, Cast DEF Reset, IInv, PCs, Main, First, Second
<1>2. UNCHANGED <<fpga, mem, barrier, i, v, seen, calls>>
  BY DEF Reset
<1>3. /\ buffer' \in [Threads -> [Lines -> Values \union {Empty}]]
      /\ buffer'["c2c_1"]["ping"] = 1 /\ buffer'["c2c_1"]["pong"] = 1
      /\ buffer'["c2c_2"] = buffer["c2c_2"]
  <2>1. 1 \in Values
    BY TopAssumption DEF Values
  <2>2. [l \in Lines |-> 1] \in [Lines -> Values \union {Empty}]
    BY <2>1
  <2>3. buffer' = [buffer EXCEPT !["c2c_1"] = [l \in Lines |-> 1]]
    BY DEF Reset
  <2>4. buffer \in [Threads -> [Lines -> Values \union {Empty}]]
    BY DEF IInv, TypeOK
  <2>5. buffer' \in [Threads -> [Lines -> Values \union {Empty}]]
    BY <2>2, <2>3, <2>4
  <2>6. buffer'["c2c_1"] = [l \in Lines |-> 1] /\ buffer'["c2c_2"] = buffer["c2c_2"]
    BY <2>3, <2>4, Cast
  <2> QED
    BY <2>5, <2>6, Cast
<1>4. TypeOK'
  BY <1>1, <1>2, <1>3 DEF IInv, TypeOK
<1>5. PartyInv' /\ TurnInv'
  BY <1>1, <1>2 DEF IInv, PartyInv, TurnInv
<1>6. BarrierInv'
  BY <1>1, <1>2 DEF IInv, BarrierInv, At, Main, First, Second
<1>7. BufferInv'
  BY <1>1, <1>2, <1>3 DEF IInv, BufferInv
<1>8. PingInv' /\ FlowInv' /\ ResetInv'
  BY <1>1, <1>3, Cast, Types DEF IInv, PingInv, FlowInv, ResetInv
<1>9. FpgaInv'
  <2>1. 1 # Empty
    BY Types DEF IInv
  <2> QED
    BY <1>1, <1>2, <1>3, <2>1 DEF IInv, FpgaInv, Underway
<1> QED
  BY <1>4, <1>5, <1>6, <1>7, <1>8, <1>9 DEF IInv

(* A value of a new turn: it is none of those that are underway.           *)
LEMMA SendStep == IInv /\ Send => IInv'
<1> SUFFICES ASSUME IInv, Send PROVE IInv'
  OBVIOUS
<1>1. /\ pc' \in [Parties -> PCs] /\ First = "send" /\ First' = "spin"
      /\ Main' = Main /\ Second' = Second
  BY GotoFacts, Cast DEF Send, IInv, PCs, Main, First, Second
<1>2. UNCHANGED <<fpga, mem, barrier, i, v, calls>> /\ seen' = FALSE
  BY DEF Send
<1>3. i \in Values /\ i >= 0 /\ i # Empty
  BY <1>1, Types DEF IInv, TurnInv, Values
<1>4. /\ buffer' \in [Threads -> [Lines -> Values \union {Empty}]]
      /\ buffer'["c2c_1"]["ping"] = i
      /\ buffer'["c2c_1"]["pong"] = buffer["c2c_1"]["pong"]
      /\ buffer'["c2c_2"] = buffer["c2c_2"]
  <2>1. buffer' = [buffer EXCEPT !["c2c_1"]["ping"] = i]
    BY DEF Send, Store
  <2>2. buffer \in [Threads -> [Lines -> Values \union {Empty}]]
    BY DEF IInv, TypeOK
  <2> QED
    BY <1>3, <2>1, <2>2, Cast
<1>5. TypeOK'
  BY <1>1, <1>2, <1>4 DEF IInv, TypeOK
<1>6. PartyInv' /\ TurnInv'
  BY <1>1, <1>2 DEF IInv, PartyInv, TurnInv
<1>7. BarrierInv'
  BY <1>1, <1>2 DEF IInv, BarrierInv
<1>8. BufferInv'
  BY <1>1, <1>2, <1>4 DEF IInv, BufferInv
<1>9. PingInv' /\ ResetInv'
  BY <1>1, <1>2, <1>3, <1>4 DEF IInv, PingInv, ResetInv, Former
<1>10. FlowInv'
  <2>1. (fpga => i < Top) => i \notin Formers
    BY <1>3, Types DEF IInv, Formers, Former
  <2> QED
    BY <1>1, <1>2, <2>1 DEF IInv, FlowInv, Former, Formers, Underway
<1>11. FpgaInv'
  BY <1>1, <1>2 DEF IInv, FpgaInv, Underway
<1> QED
  BY <1>5, <1>6, <1>7, <1>8, <1>9, <1>10, <1>11 DEF IInv

(***************************************************************************)
(* The end of a turn: all that is underway has become the value of this    *)
(* turn; but for a 1 that the FPGA may still copy after the first one.     *)
(***************************************************************************)
LEMMA SpinStep == IInv /\ Spin => IInv'
<1> SUFFICES ASSUME IInv, Spin PROVE IInv'
  OBVIOUS
<1>1. /\ pc' \in [Parties -> PCs] /\ First = "spin"
      /\ First' = IF i > 0 THEN "send" ELSE "ended"
      /\ Main' = Main /\ Second' = Second
  <2>1. (IF i > 0 THEN "send" ELSE "ended") \in PCs
    BY DEF PCs
  <2> QED
    BY <2>1, GotoFacts, Cast DEF Spin, IInv, Main, First, Second
<1>2. /\ UNCHANGED <<fpga, mem, buffer, barrier, v, seen, calls>>
      /\ i' = i - 1
  BY DEF Spin
<1>3. /\ i >= 0 /\ i \in Int /\ i =< Top /\ mem["pong"] = i /\ mem["ping"] = i
      /\ buffer["c2c_1"]["ping"] = Empty
  BY <1>1, Cast, Types DEF Spin, Drained, IInv, TurnInv, PingInv
<1>4. TypeOK'
  BY <1>1, <1>2, <1>3, Types DEF IInv, TypeOK
<1>5. PartyInv' /\ TurnInv'
  BY <1>1, <1>2, <1>3 DEF IInv, PartyInv, TurnInv
<1>6. BarrierInv'
  BY <1>1, <1>2 DEF IInv, BarrierInv
<1>7. BufferInv'
  BY <1>1, <1>2, <1>3 DEF IInv, BufferInv
<1>8. PingInv' /\ ResetInv'
  BY <1>1, <1>2, <1>3, Types DEF IInv, PingInv, ResetInv, Former
<1>9. FlowInv'
  <2>1. CASE fpga => i < Top
    <3>1. Underway => v = i
      BY <1>1, <1>3, <2>1 DEF IInv, FlowInv
    <3>2. i' < Top /\ Former' = i /\ i \in Formers'
      BY <1>2, <1>3, Types DEF IInv, Former, Formers
    <3>3. Second = "ended" /\ barrier.round = 1 => i' =< 0 /\ mem["pong"] = 0
      BY <1>1, <1>2, <1>3, <2>1 DEF IInv, FlowInv
    <3> QED
      BY <1>1, <1>2, <1>3, <3>1, <3>2, <3>3 DEF FlowInv, Underway
  <2>2. CASE fpga /\ i = Top
    <3>1. Underway => v \in {1, Top}
      BY <1>1, <1>3, <2>2 DEF IInv, FpgaInv
    <3>2. Formers' = {1, Top}
      BY <1>2, <2>2 DEF Formers
    <3>3. Second # "ended"
      BY <2>2 DEF IInv, PartyInv
    <3> QED
      BY <1>1, <1>2, <1>3, <2>2, <3>1, <3>2, <3>3 DEF FlowInv, Underway
  <2> QED
    BY <1>3, <2>1, <2>2, Types DEF IInv
<1>10. FpgaInv'
  BY <1>1, <1>2, <1>3, Types DEF IInv, FpgaInv
<1> QED
  BY <1>4, <1>5, <1>6, <1>7, <1>8, <1>9, <1>10 DEF IInv

(* The other side loads the first line, whenever it likes.                 *)
LEMMA LoadStep == IInv /\ Load => IInv'
<1> SUFFICES ASSUME IInv, Load PROVE IInv'
  OBVIOUS
<1>1. /\ pc' \in [Parties -> PCs] /\ Second = "load" /\ Second' = "copy"
      /\ Main' = Main /\ First' = First
  BY GotoFacts, Cast DEF Load, IInv, PCs, Main, First, Second
<1>2. /\ UNCHANGED <<fpga, mem, buffer, barrier, i, calls>>
      /\ v' = mem["ping"] /\ seen' = (seen \/ mem["ping"] = i)
  BY DEF Load
<1>3. TypeOK'
  <2>1. v' \in Values /\ seen' \in BOOLEAN
    BY <1>2, Cast DEF IInv, TypeOK
  <2> QED
    BY <1>1, <1>2, <2>1 DEF IInv, TypeOK
<1>4. PartyInv' /\ TurnInv'
  BY <1>1, <1>2 DEF IInv, PartyInv, TurnInv
<1>5. BarrierInv'
  BY <1>1, <1>2 DEF IInv, BarrierInv, At, Main, First, Second
<1>6. BufferInv'
  BY <1>1, <1>2 DEF IInv, BufferInv
<1>7. PingInv' /\ ResetInv'
  BY <1>1, <1>2 DEF IInv, PingInv, ResetInv, Former
<1>8. FlowInv'
  <2>1. Former \in Formers
    BY Types DEF IInv, Former, Formers
  <2> QED
    BY <1>1, <1>2, <2>1
    DEF IInv, PingInv, FlowInv, Former, Formers, Underway
<1>9. FpgaInv'
  BY <1>1, <1>2 DEF IInv, PingInv, FpgaInv, Underway, Former
<1> QED
  BY <1>3, <1>4, <1>5, <1>6, <1>7, <1>8, <1>9 DEF IInv

(* thread_c2c_2 stores what it has loaded.                                 *)
LEMMA CopyStep == IInv /\ Copy => IInv'
<1> SUFFICES ASSUME IInv, Copy PROVE IInv'
  OBVIOUS
<1>1. /\ pc' \in [Parties -> PCs] /\ Second = "copy" /\ Second' = "sync"
      /\ Main' = Main /\ First' = First /\ ~fpga
  BY GotoFacts, Cast DEF Copy, IInv, PCs, Main, First, Second
<1>2. UNCHANGED <<fpga, mem, barrier, i, v, seen, calls>>
  BY DEF Copy
<1>3. /\ buffer' \in [Threads -> [Lines -> Values \union {Empty}]]
      /\ buffer'["c2c_2"]["pong"] = v
      /\ buffer'["c2c_2"]["ping"] = buffer["c2c_2"]["ping"]
      /\ buffer'["c2c_1"] = buffer["c2c_1"]
      /\ v # Empty
  <2>1. buffer' = [buffer EXCEPT !["c2c_2"]["pong"] = v]
    BY DEF Copy, Store
  <2>2. buffer \in [Threads -> [Lines -> Values \union {Empty}]] /\ v \in Values
    BY DEF IInv, TypeOK
  <2> QED
    BY <2>1, <2>2, Cast, Types DEF IInv
<1>4. TypeOK'
  BY <1>1, <1>2, <1>3 DEF IInv, TypeOK
<1>5. PartyInv' /\ TurnInv'
  BY <1>1, <1>2 DEF IInv, PartyInv, TurnInv
<1>6. BarrierInv'
  BY <1>1, <1>2 DEF IInv, BarrierInv, At, Main, First, Second
<1>7. BufferInv'
  BY <1>1, <1>2, <1>3 DEF IInv, BufferInv
<1>8. PingInv' /\ ResetInv' /\ FpgaInv'
  BY <1>1, <1>2, <1>3 DEF IInv, PingInv, ResetInv, FpgaInv, Former
<1>9. FlowInv'
  BY <1>1, <1>2 DEF IInv, FlowInv, Former, Formers, Underway
<1> QED
  BY <1>4, <1>5, <1>6, <1>7, <1>8, <1>9 DEF IInv

(* thread_c2c_2 goes on, or ends for the 0 of the last turn.               *)
LEMMA SyncStep == IInv /\ Sync => IInv'
<1> SUFFICES ASSUME IInv, Sync PROVE IInv'
  OBVIOUS
<1>1. /\ pc' \in [Parties -> PCs] /\ Second = "sync"
      /\ Second' = IF v = 0 THEN "ended" ELSE "load"
      /\ Main' = Main /\ First' = First
  <2>1. (IF v = 0 THEN "ended" ELSE "load") \in PCs
    BY DEF PCs
  <2> QED
    BY <2>1, GotoFacts, Cast DEF Sync, IInv, Main, First, Second
<1>2. UNCHANGED <<fpga, mem, buffer, barrier, i, v, seen, calls>>
  BY DEF Sync
<1>3. ~fpga /\ mem["pong"] = v /\ buffer["c2c_2"]["pong"] = Empty
  BY <1>1, Cast DEF Sync, Drained, IInv, PartyInv, BufferInv
<1>4. TypeOK'
  BY <1>1, <1>2 DEF IInv, TypeOK
<1>5. PartyInv' /\ TurnInv'
  BY <1>1, <1>2, <1>3 DEF IInv, PartyInv, TurnInv
<1>6. BarrierInv'
  BY <1>1, <1>2, <1>3 DEF IInv, BarrierInv
<1>7. BufferInv'
  BY <1>1, <1>2, <1>3 DEF IInv, BufferInv
<1>8. PingInv' /\ ResetInv' /\ FpgaInv'
  BY <1>1, <1>2, <1>3 DEF IInv, PingInv, ResetInv, FpgaInv, Former
<1>9. FlowInv'
  <2>1. First \in {"wait", "send", "spin", "ended"} /\ v = 0 => i =< 0
    BY <1>1, <1>3, Types DEF IInv, FlowInv, Underway, Formers, Former
  <2> QED
    BY <1>1, <1>2, <1>3, <2>1
    DEF IInv, FlowInv, Former, Formers, Underway
<1> QED
  BY <1>4, <1>5, <1>6, <1>7, <1>8, <1>9 DEF IInv

(* The FPGA stores what it has loaded.                                     *)
LEMMA FpgaCopyStep == IInv /\ FpgaCopy => IInv'
<1> SUFFICES ASSUME IInv, FpgaCopy PROVE IInv'
  OBVIOUS
<1>1. /\ pc' \in [Parties -> PCs] /\ Second = "copy" /\ Second' = "load"
      /\ Main' = Main /\ First' = First /\ fpga
  BY GotoFacts, Cast DEF FpgaCopy, IInv, PCs, Main, First, Second
<1>2. UNCHANGED <<fpga, buffer, barrier, i, v, seen, calls>>
  BY DEF FpgaCopy
<1>3. /\ mem' \in [Lines -> Values]
      /\ mem'["pong"] = v /\ mem'["ping"] = mem["ping"]
  BY Cast DEF FpgaCopy, IInv, TypeOK
<1>4. TypeOK'
  BY <1>1, <1>2, <1>3 DEF IInv, TypeOK
<1>5. PartyInv' /\ TurnInv'
  BY <1>1, <1>2 DEF IInv, PartyInv, TurnInv
<1>6. BarrierInv'
  BY <1>1, <1>2 DEF IInv, BarrierInv, At, Main, First, Second
<1>7. BufferInv'
  BY <1>1, <1>2 DEF IInv, BufferInv
<1>8. PingInv' /\ ResetInv'
  BY <1>1, <1>2, <1>3 DEF IInv, PingInv, ResetInv, Former
<1>9. FlowInv'
  BY <1>1, <1>2, <1>3 DEF IInv, FlowInv, Former, Formers, Underway
<1>10. FpgaInv'
  BY <1>1, <1>2, <1>3 DEF IInv, FpgaInv, Underway
<1> QED
  BY <1>4, <1>5, <1>6, <1>7, <1>8, <1>9, <1>10 DEF IInv

(* A store becomes visible.                                                *)
LEMMA DrainFacts ==
  ASSUME TypeOK, NEW t \in Threads, NEW l \in Lines, Drain(t, l)
  PROVE  /\ buffer[t][l] # Empty
         /\ mem' \in [Lines -> Values] /\ mem'[l] = buffer[t][l]
         /\ \A k \in Lines : k # l => mem'[k] = mem[k]
         /\ buffer' \in [Threads -> [Lines -> Values \union {Empty}]]
         /\ buffer'[t][l] = Empty
         /\ \A u \in Threads, k \in Lines :
              u # t \/ k # l => buffer'[u][k] = buffer[u][k]
         /\ UNCHANGED <<fpga, barrier, pc, i, v, seen, calls>>
<1>1. /\ buffer \in [Threads -> [Lines -> Values \union {Empty}]]
      /\ mem \in [Lines -> Values]
  BY DEF TypeOK
<1>2. /\ buffer' = [buffer EXCEPT ![t][l] = Empty] /\ buffer[t][l] # Empty
      /\ mem' = [mem EXCEPT ![l] = buffer[t][l]]
      /\ UNCHANGED <<fpga, barrier, pc, i, v, seen, calls>>
  BY DEF Drain
<1>3. buffer[t][l] \in Values
  BY <1>1, <1>2
<1> QED
  BY <1>1, <1>2, <1>3

(***************************************************************************)
(* Store buffers empty in any order: the reset of either line first, and   *)
(* the value of a turn whenever the hardware likes.                        *)
(***************************************************************************)
LEMMA DrainStep == \A t \in Threads, l \in Lines : IInv /\ Drain(t, l) => IInv'
<1> SUFFICES ASSUME NEW t \in Threads, NEW l \in Lines, IInv, Drain(t, l)
             PROVE  IInv'
  OBVIOUS
<1>1. /\ buffer[t][l] # Empty
      /\ mem' \in [Lines -> Values] /\ mem'[l] = buffer[t][l]
      /\ \A k \in Lines : k # l => mem'[k] = mem[k]
      /\ buffer' \in [Threads -> [Lines -> Values \union {Empty}]]
      /\ buffer'[t][l] = Empty
      /\ \A u \in Threads, k \in Lines :
           u # t \/ k # l => buffer'[u][k] = buffer[u][k]
      /\ UNCHANGED <<fpga, barrier, pc, i, v, seen, calls>>
  BY DrainFacts DEF IInv
<1>2. First' = First /\ Second' = Second /\ Main' = Main
  BY <1>1 DEF First, Second, Main
<1>3. TypeOK'
  BY <1>1 DEF IInv, TypeOK
<1>4. PartyInv' /\ TurnInv'
  BY <1>1, <1>2 DEF IInv, PartyInv, TurnInv
<1>5. BarrierInv'
  BY <1>1, <1>2 DEF IInv, BarrierInv, At
<1>6. BufferInv'
  <2>1. Second = "sync" => First # "arrive"
    BY DEF IInv, PartyInv, BarrierInv
  <2>2. \A k \in Lines :
          /\ buffer'["c2c_1"][k] \in {Empty, buffer["c2c_1"][k]}
          /\ buffer'["c2c_2"][k] \in {Empty, buffer["c2c_2"][k]}
    BY <1>1, Cast
  <2>3. Second = "sync" /\ buffer'["c2c_2"]["pong"] = Empty => mem'["pong"] = v
    <3>1. CASE l = "ping"
      BY <1>1, <3>1, Cast DEF IInv, BufferInv
    <3>2. CASE l = "pong" /\ t = "c2c_1"
      BY <1>1, <2>1, <3>2, Cast DEF IInv, BufferInv
    <3>3. CASE l = "pong" /\ t = "c2c_2"
      BY <1>1, <3>3, Cast DEF IInv, BufferInv
    <3> QED
      BY <3>1, <3>2, <3>3, Cast
  <2> QED
    BY <1>1, <1>2, <2>2, <2>3, Cast DEF IInv, BufferInv
<1>7. CASE t = "c2c_1" /\ l = "ping"
  <2>1. /\ mem'["pong"] = mem["pong"]
        /\ buffer'["c2c_1"]["ping"] = Empty
        /\ buffer'["c2c_1"]["pong"] = buffer["c2c_1"]["pong"]
        /\ buffer["c2c_1"]["ping"] # Empty
        /\ \/ First = "arrive" /\ mem'["ping"] = 1
           \/ First = "spin" /\ mem'["ping"] = i
    BY <1>1, <1>7, Cast DEF IInv, BufferInv
  <2>2. PingInv'
    BY <1>1, <1>2, <2>1 DEF IInv, PingInv, Former
  <2>3. FlowInv'
    BY <1>1, <1>2, <2>1 DEF IInv, FlowInv, Former, Formers, Underway
  <2>4. ResetInv'
    BY <1>1, <1>2, <2>1, Cast DEF IInv, ResetInv
  <2>5. FpgaInv'
    BY <1>1, <1>2, <2>1, Types DEF IInv, FpgaInv, Underway
  <2> QED
    BY <1>3, <1>4, <1>5, <1>6, <2>2, <2>3, <2>4, <2>5 DEF IInv
<1>8. CASE t = "c2c_1" /\ l = "pong"
  <2>1. /\ mem'["ping"] = mem["ping"] /\ mem'["pong"] = 1 /\ First = "arrive"
        /\ buffer'["c2c_1"]["pong"] = Empty
        /\ buffer'["c2c_1"]["ping"] = buffer["c2c_1"]["ping"]
    BY <1>1, <1>8, Cast DEF IInv, BufferInv
  <2>2. PingInv' /\ FlowInv'
    BY <1>2, <2>1 DEF PingInv, FlowInv
  <2>3. ResetInv'
    BY <1>1, <1>2, <2>1, Cast DEF IInv, ResetInv
  <2>4. FpgaInv'
    BY <1>1, <1>2, <2>1, Types DEF IInv, FpgaInv, Underway
  <2> QED
    BY <1>3, <1>4, <1>5, <1>6, <2>2, <2>3, <2>4 DEF IInv
<1>9. CASE t = "c2c_2"
  <2>1. /\ l = "pong" /\ Second = "sync" /\ mem'["pong"] = v
        /\ mem'["ping"] = mem["ping"]
        /\ \A k \in Lines : buffer'["c2c_1"][k] = buffer["c2c_1"][k]
    BY <1>1, <1>9, Cast DEF IInv, BufferInv
  <2>2. ~fpga /\ First # "arrive"
    BY <2>1 DEF IInv, PartyInv, BarrierInv
  <2>3. PingInv' /\ ResetInv' /\ FpgaInv'
    BY <1>1, <1>2, <2>1, <2>2, Cast
    DEF IInv, PingInv, ResetInv, FpgaInv, Former
  <2>4. FlowInv'
    BY <1>1, <1>2, <2>1, <2>2
    DEF IInv, FlowInv, Former, Formers, Underway
  <2> QED
    BY <1>3, <1>4, <1>5, <1>6, <2>3, <2>4 DEF IInv
<1> QED
  BY <1>7, <1>8, <1>9, Cast

(* Every step keeps the invariant.                                         *)
LEMMA NextIInv == IInv /\ [Next]_vars => IInv'
<1> SUFFICES ASSUME IInv, [Next]_vars PROVE IInv'
  OBVIOUS
<1>1. CASE UNCHANGED vars
  BY <1>1
  DEF vars, IInv, TypeOK, PartyInv, BarrierInv, TurnInv, BufferInv, PingInv,
      FlowInv, ResetInv, FpgaInv, At, First, Second, Main, Former, Formers,
      Underway
<1>2. CASE Next
  BY <1>2, Cast, CallStep, CreateSecondStep, ArriveStep, PassStep, JoinSteps,
     ResetStep, SendStep, SpinStep, LoadStep, CopyStep, SyncStep, FpgaCopyStep,
     DrainStep
  DEF Next, MainStep, FirstStep, SecondStep
<1> QED
  BY <1>1, <1>2

(* In every reachable state of the test the invariant holds.               *)
LEMMA Invariance == Spec => []IInv
  BY InitIInv, NextIInv, PTL DEF Spec
-----------------------------------------------------------------------------
(* The lines, buffers and counters of the test have their types.           *)
THEOREM TypeCorrect == Spec => []TypeOK
<1>1. IInv => TypeOK
  BY DEF IInv
<1> QED
  BY <1>1, Invariance, PTL

(* thread_c2c_2 never ends before the last value is sent.                  *)
THEOREM EchoOutlasts == Spec => []EchoOutlastsTheTest
<1>1. IInv => EchoOutlastsTheTest
  <2> SUFFICES ASSUME IInv, ~fpga, Second = "ended", Main # "caller",
                      barrier.round > 0
               PROVE  i =< 0
    BY DEF EchoOutlastsTheTest, Main, Second
  <2>1. barrier.round = 1 /\ First \in {"wait", "send", "spin", "ended"}
    BY Types DEF IInv, BarrierInv
  <2> QED
    BY <2>1 DEF IInv, FlowInv
<1> QED
  BY <1>1, Invariance, PTL

(***************************************************************************)
(* Whichever threads pthread_create could not make, in whichever test, the *)
(* main thread joins none of them: it has not passed the barrier.          *)
(***************************************************************************)
THEOREM JoinsOnlyThreads == Spec => []JoinsOnlyCreated
<1>1. IInv => JoinsOnlyCreated
  <2> SUFFICES ASSUME IInv, Main \in {"join1", "join2"}
               PROVE  First # "none" /\ Second # "none"
    BY Cast DEF JoinsOnlyCreated, Main, First, Second
  <2> QED
    BY DEF IInv, PartyInv, BarrierInv
<1> QED
  BY <1>1, Invariance, PTL

(* Only Call and Spin change the turn, and Spin only after an echo.        *)
LEMMA TripIsReal ==
  IInv /\ [Next]_vars => [i' < i /\ (fpga => i < Top) => seen]_vars
<1> SUFFICES ASSUME IInv, Next, i' < i, fpga => i < Top PROVE seen
  BY DEF vars
<1>1. CASE Spin
  <2>1. First = "spin" /\ mem["pong"] = i
    BY <1>1 DEF Spin, Goto, First
  <2> QED
    BY <2>1 DEF IInv, FlowInv
<1>2. CASE Call
  BY <1>2, Types DEF Call, IInv
<1>3. i' = i \/ Call \/ Spin
  BY DEF Next, MainStep, FirstStep, SecondStep, CreateSecond, ArriveAt, Pass,
         Join1, Return, Reset, Send, Load, Copy, Sync, FpgaCopy, Drain
<1> QED
  BY <1>1, <1>2, <1>3, Types DEF IInv

(* Each trip that is timed is one through the other side, whatever the     *)
(* lines and the FPGA still held, in whatever order stores become visible. *)
THEOREM TripsAreReal == Spec => EveryTripIsReal
  BY Invariance, TripIsReal, PTL DEF Spec, EveryTripIsReal
=============================================================================
