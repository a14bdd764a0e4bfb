------------------------- MODULE StartThreadsProofs -------------------------
(***************************************************************************)
(* Proofs about start_threads of mb_enzian.c, for any cores, measurements  *)
(* and number of calls.                                                    *)
(***************************************************************************)
EXTENDS StartThreads, FiniteSets, FiniteSetTheorems, TLAPS

-----------------------------------------------------------------------------
(* Quotients and remainders *)

(* Quotient and remainder, as the provers know them. *)
LEMMA QuotientAndRemainder ==
  ASSUME NEW B \in Nat \ {0}, NEW x \in Int
  PROVE  /\ x \div B \in Int /\ x % B \in 0 .. (B - 1)
         /\ x = (x \div B) * B + (x % B)
  OBVIOUS

(* Multiples of B are at least B apart. *)
LEMMA MultiplesApart ==
  ASSUME NEW B \in Nat \ {0}, NEW p \in Int, NEW q \in Int, p < q
  PROVE  p * B + B =< q * B
<1>1. q - p - 1 \in Nat
  OBVIOUS
<1>2. (q - p - 1) * B >= 0
  BY <1>1
<1>3. (q - p - 1) * B = q * B - p * B - B
  OBVIOUS
<1>4. p * B \in Int /\ q * B \in Int
  OBVIOUS
<1> QED
  BY <1>2, <1>3, <1>4

-----------------------------------------------------------------------------
(* The inductive invariant *)

(* Those that the barrier has counted in its present round.                *)
Waiting == {p \in Parties : pc[p] = "wait" /\ ticket[p] = barrier.round}

(* During a call the barrier counts exactly those who wait at it.          *)
CountInv ==
  pc[Main] # "caller" =>
    /\ barrier.count = BarrierCount
    /\ barrier.arrived = Cardinality(Waiting)
    /\ barrier.round =< 4

(***************************************************************************)
(* How many rounds a party has finished follows from where it is: all that *)
(* the barrier has closed, but for the one that it has not left yet.       *)
(***************************************************************************)
PhaseInv ==
  pc[Main] # "caller" =>
    \A p \in Parties :
      /\ pc[p] \in {"none", "create"} => rounds[p] = 0 /\ barrier.round = 0
      /\ pc[p] = "arrive" => rounds[p] = barrier.round /\ rounds[p] < 4
      /\ pc[p] = "wait" =>
           /\ ticket[p] = rounds[p]
           /\ rounds[p] \in {barrier.round, barrier.round - 1}
           /\ rounds[p] < 4
      /\ pc[p] = "work" => rounds[p] = barrier.round - 1
      /\ pc[p] \in {"ended", "join"} => rounds[p] = 4 /\ barrier.round = 4

(* What the create and the join loop have done up to index.                *)
LoopInv ==
  /\ pc[Main] = "create" => \A w \in Workers : w >= index => pc[w] = "none"
  /\ pc[Main] = "join" => \A w \in Workers : w < index => pc[w] = "ended"
  /\ \A w \in Workers : pc[w] # "none" => w \in online

(* Between two calls there is no barrier and no thread.                    *)
CallerInv ==
  IF pc[Main] = "caller"
  THEN /\ barrier = NoBarrier
       /\ calls = 0 => \A w \in Workers : pc[w] = "none"
       /\ calls # 0 => \A w \in Workers : pc[w] = "ended" /\ rounds[w] = 4
  ELSE calls # 0

(* A worker that has finished a round has measured it.                     *)
BestInv == \A w \in Workers : rounds[w] > 0 => best[w] \in Cycles

(* The workers that are joined, and a bound of their sum.                  *)
Joined == First .. (index - 1)

SumInv ==
  pc[Main] = "join" =>
    \A k \in Nat :
      /\ (\A w \in Joined : k =< best[w]) => k * (index - First) =< min
      /\ (\A w \in Joined : best[w] =< k) => min =< k * (index - First)

IInv ==
  /\ TypeOK /\ CountInv /\ PhaseInv /\ LoopInv /\ CallerInv /\ BestInv
  /\ SumInv /\ ResultIsAnAverage
-----------------------------------------------------------------------------
(* The barrier is initialised with the number of those who come to it.     *)
LEMMA PartiesCounted ==
  /\ Main \notin Workers
  /\ IsFiniteSet(Parties) /\ Cardinality(Parties) = BarrierCount
<1>1. First \in Int /\ Last \in Int /\ First =< Last
  BY CpuAssumption
<1>2. Main \notin Workers
  BY CpuAssumption, MainAssumption DEF Workers
<1>3. IsFiniteSet(Workers) /\ Cardinality(Workers) = Last - First + 1
  BY <1>1, FS_Interval DEF Workers
<1>4. IsFiniteSet(Parties) /\ Cardinality(Parties) = Cardinality(Workers) + 1
  BY <1>2, <1>3, FS_AddElement DEF Parties
<1> QED
  BY <1>1, <1>2, <1>3, <1>4 DEF BarrierCount

(***************************************************************************)
(* An arrival: the one who comes is not counted yet, and it ends the round *)
(* if and only if all the others wait.                                     *)
(***************************************************************************)
LEMMA Arrival ==
  ASSUME IInv, NEW p \in Parties, pc[p] = "arrive"
  PROVE  /\ pc[Main] # "caller"
         /\ p \notin Waiting
         /\ barrier.arrived + 1 =< barrier.count
         /\ Cardinality(Waiting \union {p}) = barrier.arrived + 1
         /\ barrier.arrived + 1 = barrier.count =>
              \A q \in Parties \ {p} : q \in Waiting
<1>1. pc[Main] # "caller"
  BY PartiesCounted DEF IInv, CallerInv, Parties
<1>2. p \notin Waiting /\ Waiting \in SUBSET (Parties \ {p})
  BY DEF Waiting
<1>3. IsFiniteSet(Parties \ {p}) /\ Cardinality(Parties \ {p}) = BarrierCount - 1
  BY PartiesCounted, FS_RemoveElement
<1>4. /\ IsFiniteSet(Waiting)
      /\ Cardinality(Waiting) =< BarrierCount - 1
      /\ Cardinality(Waiting) = BarrierCount - 1 => Waiting = Parties \ {p}
  BY <1>2, <1>3, FS_Subset
<1>5. Cardinality(Waiting \union {p}) = Cardinality(Waiting) + 1
  BY <1>2, <1>4, FS_AddElement
<1>6. barrier.count = BarrierCount /\ barrier.arrived = Cardinality(Waiting)
  BY <1>1 DEF IInv, CountInv
<1>7. BarrierCount \in Int /\ Cardinality(Waiting) \in Nat
  BY <1>6, CpuAssumption DEF BarrierCount, IInv, TypeOK, BarrierType
<1>8. barrier.arrived + 1 = barrier.count => Waiting = Parties \ {p}
  BY <1>4, <1>6, <1>7
<1> QED
  BY <1>1, <1>2, <1>4, <1>5, <1>6, <1>7, <1>8

(* No thread is created, measured or lost at first.                        *)
LEMMA InitIInv == Init => IInv
<1> SUFFICES ASSUME Init PROVE IInv
  OBVIOUS
<1>1. pc[Main] = "caller" /\ \A w \in Workers : pc[w] = "none"
  BY PartiesCounted DEF Init, Parties
<1>2. TypeOK
  <2>1. NoBarrier \in BarrierType /\ NoBarrier.count = 0 /\ NoBarrier.arrived = 0
    BY DEF NoBarrier, NewBarrier, BarrierType
  <2>2. Main \in Parties /\ Workers \subseteq Parties
    BY DEF Parties
  <2> QED
    BY <1>1, <2>1, <2>2, CpuAssumption, CyclesAssumption, CallsAssumption
    DEF Init, TypeOK, WorkerPCs, MainPCs
<1>3. CountInv /\ PhaseInv /\ SumInv /\ ResultIsAnAverage
  BY <1>1 DEF Init, CountInv, PhaseInv, SumInv, ResultIsAnAverage
<1>4. LoopInv /\ CallerInv /\ BestInv
  BY <1>1 DEF Init, LoopInv, CallerInv, BestInv, Parties
<1> QED
  BY <1>2, <1>3, <1>4 DEF IInv

(* The parties are the main thread and the workers.                        *)
LEMMA Cast ==
  /\ Main \in Parties /\ Workers \subseteq Parties /\ Main \notin Workers
  /\ \A p \in Parties : p = Main \/ p \in Workers
  BY PartiesCounted DEF Parties

(* The workers are the natural numbers from First to Last.                 *)
LEMMA Numbers ==
  /\ First \in Nat /\ Last \in Nat /\ First =< Last
  /\ BarrierCount \in Nat /\ BarrierCount = Last - First + 2
  /\ \A w : w \in Workers <=> w \in Nat /\ First =< w /\ w =< Last
  BY CpuAssumption DEF Workers, BarrierCount

(* A new barrier has counted nobody.                                       *)
LEMMA FreshBarrier ==
  ASSUME NEW n \in Nat
  PROVE  /\ NewBarrier(n) \in BarrierType
         /\ NewBarrier(n).count = n /\ NewBarrier(n).arrived = 0
         /\ NewBarrier(n).round = 0
  BY DEF NewBarrier, BarrierType

(* A new call finds the threads of the last one gone.                      *)
LEMMA CallStep ==
  ASSUME IInv, Call, UNCHANGED online
  PROVE  IInv'
<1>1. pc'[Main] = "create" /\ \A w \in Workers : pc'[w] = "none"
  BY Cast DEF Call
<1>2. /\ barrier' \in BarrierType /\ barrier'.count = BarrierCount
      /\ barrier'.arrived = 0 /\ barrier'.round = 0
  BY Numbers, FreshBarrier DEF Call
<1>3. TypeOK'
  BY <1>1, <1>2, Cast, Numbers, CyclesAssumption, CallsAssumption
  DEF IInv, TypeOK, Call, WorkerPCs, MainPCs
<1>4. CountInv'
  <2>1. Waiting' = {}
    BY <1>1, Cast DEF Waiting
  <2> QED
    BY <1>2, <2>1, FS_EmptySet DEF CountInv
<1>5. PhaseInv'
  BY <1>1, <1>2, Cast DEF PhaseInv, Call
<1>6. LoopInv' /\ SumInv' /\ ResultIsAnAverage'
  BY <1>1 DEF LoopInv, SumInv, ResultIsAnAverage
<1>7. CallerInv' /\ BestInv'
  BY <1>1, Cast DEF IInv, TypeOK, Call, CallerInv, BestInv
<1> QED
  BY <1>3, <1>4, <1>5, <1>6, <1>7 DEF IInv

(* A thread that is created comes to the barrier of round 0.               *)
LEMMA CreateStep ==
  ASSUME IInv, Create, UNCHANGED online
  PROVE  IInv'
<1>1. /\ pc[Main] = "create" /\ index \in Workers /\ index' = index + 1
      /\ pc[index] = "none"
  BY Numbers DEF Create, IInv, TypeOK, LoopInv
<1>2. /\ pc'[index] \in {"none", "arrive"}
      /\ pc'[index] = "arrive" => index \in online
      /\ \A p \in Parties : p # index => pc'[p] = pc[p]
      /\ pc'[Main] = "create"
  BY <1>1, Cast DEF Create, IInv, TypeOK
<1>3. rounds[index] = 0 /\ barrier.round = 0
  BY <1>1, Cast DEF IInv, PhaseInv
<1>4. TypeOK'
  <2>1. pc' \in [Parties -> WorkerPCs \union MainPCs]
    BY <1>1, Cast DEF Create, IInv, TypeOK, WorkerPCs, MainPCs
  <2>2. /\ \A w \in Workers : pc'[w] \in WorkerPCs
        /\ pc'[Main] \in MainPCs
    BY <1>2, Cast DEF IInv, TypeOK, WorkerPCs, MainPCs
  <2>3. index' \in First .. (Last + 1)
    BY <1>1, Numbers
  <2> QED
    BY <2>1, <2>2, <2>3 DEF IInv, TypeOK, Create
<1>5. CountInv'
  <2>1. Waiting' = Waiting
    BY <1>1, <1>2 DEF Waiting, Create
  <2> QED
    BY <1>1, <2>1 DEF IInv, CountInv, Create
<1>6. PhaseInv'
  BY <1>1, <1>2, <1>3 DEF IInv, PhaseInv, Create
<1>7. LoopInv'
  <2>1. \A w \in Workers : w >= index' => pc'[w] = "none"
    BY <1>1, <1>2, Cast, Numbers DEF IInv, LoopInv
  <2>2. \A w \in Workers : pc'[w] # "none" => w \in online'
    BY <1>2, Cast DEF IInv, LoopInv
  <2> QED
    BY <1>2, <2>1, <2>2 DEF LoopInv
<1>8. CallerInv' /\ BestInv' /\ SumInv' /\ ResultIsAnAverage'
  BY <1>1, <1>2
  DEF IInv, Create, CallerInv, BestInv, SumInv, ResultIsAnAverage
<1> QED
  BY <1>4, <1>5, <1>6, <1>7, <1>8 DEF IInv

(* The main thread goes to the barrier too.                                *)
LEMMA AllCreatedStep ==
  ASSUME IInv, AllCreated, UNCHANGED online
  PROVE  IInv'
<1>1. /\ pc[Main] = "create" /\ pc'[Main] = "arrive"
      /\ \A p \in Parties : p # Main => pc'[p] = pc[p]
      /\ \A w \in Workers : pc'[w] = pc[w]
  BY Cast DEF AllCreated, Goto, IInv, TypeOK
<1>2. rounds[Main] = 0 /\ barrier.round = 0
  BY <1>1, Cast DEF IInv, PhaseInv
<1>3. TypeOK'
  <2>1. pc' \in [Parties -> WorkerPCs \union MainPCs]
    BY DEF AllCreated, Goto, IInv, TypeOK, MainPCs
  <2>2. /\ \A w \in Workers : pc'[w] \in WorkerPCs
        /\ pc'[Main] \in MainPCs
    BY <1>1 DEF IInv, TypeOK, MainPCs
  <2> QED
    BY <2>1, <2>2 DEF IInv, TypeOK, AllCreated
<1>4. CountInv'
  <2>1. Waiting' = Waiting
    BY <1>1 DEF Waiting, AllCreated
  <2> QED
    BY <1>1, <2>1 DEF IInv, CountInv, AllCreated
<1>5. PhaseInv'
  BY <1>1, <1>2 DEF IInv, PhaseInv, AllCreated
<1>6. LoopInv' /\ CallerInv' /\ BestInv' /\ SumInv' /\ ResultIsAnAverage'
  BY <1>1
  DEF IInv, AllCreated, LoopInv, CallerInv, BestInv, SumInv, ResultIsAnAverage
<1> QED
  BY <1>3, <1>4, <1>5, <1>6 DEF IInv

(***************************************************************************)
(* An arrival is counted, or it ends the round; then everybody waits for   *)
(* the end of just that round.                                             *)
(***************************************************************************)
LEMMA ArriveStep ==
  ASSUME IInv, NEW p \in Parties, ArriveAt(p), UNCHANGED online
  PROVE  IInv'
<1>1. /\ pc[p] = "arrive" /\ pc'[p] = "wait"
      /\ \A q \in Parties : q # p => pc'[q] = pc[q] /\ ticket'[q] = ticket[q]
      /\ ticket'[p] = barrier.round
  BY DEF ArriveAt, Goto, IInv, TypeOK
<1>2. /\ pc[Main] # "caller" /\ pc'[Main] # "caller"
      /\ pc'[Main] \in {"create", "join"} => pc[Main] = pc'[Main]
  BY <1>1, Arrival, Cast
<1>3. rounds[p] = barrier.round /\ rounds[p] < 4
  BY <1>1, <1>2 DEF IInv, PhaseInv
<1>4. /\ barrier \in BarrierType /\ barrier.count = BarrierCount
      /\ barrier' = Arrive(barrier)
  BY <1>2 DEF IInv, TypeOK, CountInv, ArriveAt
<1>5. /\ barrier' \in BarrierType /\ barrier'.count = BarrierCount
      /\ barrier.arrived + 1 = BarrierCount =>
           barrier'.arrived = 0 /\ barrier'.round = barrier.round + 1
      /\ barrier.arrived + 1 # BarrierCount =>
           /\ barrier'.arrived = barrier.arrived + 1
           /\ barrier'.round = barrier.round
  <2>1. CASE barrier.arrived + 1 = BarrierCount
    <3>1. barrier' = [barrier EXCEPT !.arrived = 0, !.round = barrier.round + 1]
      BY <1>4, <2>1 DEF Arrive
    <3>2. /\ barrier' \in BarrierType /\ barrier'.count = barrier.count
          /\ barrier'.arrived = 0 /\ barrier'.round = barrier.round + 1
      <4> DEFINE b == [barrier EXCEPT !.arrived = 0]
                 n == barrier.round + 1
      <4>1. /\ b \in BarrierType /\ b.count = barrier.count /\ b.arrived = 0
            /\ n \in Nat
        BY <1>4 DEF BarrierType
      <4>2. barrier' = [b EXCEPT !.round = n]
        BY <3>1
      <4> HIDE DEF b, n
      <4>3. /\ barrier' \in BarrierType /\ barrier'.count = b.count
            /\ barrier'.arrived = b.arrived /\ barrier'.round = n
        BY <4>1, <4>2 DEF BarrierType
      <4> QED
        BY <4>1, <4>3 DEF n
    <3> QED
      BY <1>4, <2>1, <3>2
  <2>2. CASE barrier.arrived + 1 # BarrierCount
    <3>1. barrier' = [barrier EXCEPT !.arrived = barrier.arrived + 1]
      BY <1>4, <2>2 DEF Arrive
    <3>2. /\ barrier' \in BarrierType /\ barrier'.count = barrier.count
          /\ barrier'.arrived = barrier.arrived + 1 /\ barrier'.round = barrier.round
      BY <1>4, <3>1 DEF BarrierType
    <3> QED
      BY <1>4, <2>2, <3>2
  <2> QED
    BY <2>1, <2>2
<1>6. /\ barrier.arrived + 1 =< BarrierCount
      /\ Cardinality(Waiting \union {p}) = barrier.arrived + 1
      /\ barrier.arrived + 1 = BarrierCount =>
           \A q \in Parties \ {p} : pc[q] = "wait" /\ ticket[q] = barrier.round
  BY <1>1, <1>4, Arrival DEF Waiting
<1>7. barrier.arrived \in Nat /\ barrier.round \in Nat
  BY <1>4 DEF BarrierType
<1>8. TypeOK'
  <2>1. pc' \in [Parties -> WorkerPCs \union MainPCs] /\ ticket' \in [Parties -> Nat]
    BY <1>7 DEF ArriveAt, Goto, IInv, TypeOK, WorkerPCs
  <2>2. /\ \A w \in Workers : pc'[w] \in WorkerPCs
        /\ pc'[Main] \in MainPCs
    BY <1>1, Cast DEF IInv, TypeOK, WorkerPCs, MainPCs
  <2>3. barrier'.arrived < Last - First + 2
    BY <1>5, <1>6, <1>7, Numbers
  <2> QED
    BY <1>5, <2>1, <2>2, <2>3 DEF IInv, TypeOK, ArriveAt
<1>9. ASSUME barrier.arrived + 1 = BarrierCount PROVE CountInv' /\ PhaseInv'
  <2>1. \A q \in Parties : pc'[q] = "wait" /\ ticket'[q] = barrier.round
    BY <1>1, <1>6, <1>9
  <2>2. \A q \in Parties : rounds'[q] = barrier.round
    BY <1>2, <1>3, <1>6, <1>9 DEF IInv, PhaseInv, ArriveAt
  <2>3. CountInv'
    <3>1. Waiting' = {}
      BY <1>5, <1>7, <1>9, <2>1 DEF Waiting
    <3> QED
      BY <1>3, <1>5, <1>7, <1>9, <3>1, FS_EmptySet DEF CountInv
  <2>4. PhaseInv'
    BY <1>3, <1>5, <1>7, <1>9, <2>1, <2>2 DEF PhaseInv
  <2> QED
    BY <2>3, <2>4
<1>10. ASSUME barrier.arrived + 1 # BarrierCount PROVE CountInv' /\ PhaseInv'
  <2>1. CountInv'
    <3>1. Waiting' = Waiting \union {p}
      BY <1>1, <1>5, <1>10 DEF Waiting
    <3> QED
      BY <1>2, <1>5, <1>6, <1>10, <3>1 DEF IInv, CountInv
  <2>2. PhaseInv'
    BY <1>1, <1>2, <1>3, <1>5, <1>10 DEF IInv, PhaseInv, ArriveAt
  <2> QED
    BY <2>1, <2>2
<1>11. LoopInv'
  <2>1. \A w \in Workers : pc'[w] \in {"none", "ended"} <=> pc[w] \in {"none", "ended"}
    BY <1>1, Cast
  <2>2. \A w \in Workers : pc'[w] = "none" <=> pc[w] = "none"
    BY <1>1, Cast
  <2>3. index' = index /\ online' = online
    BY DEF ArriveAt
  <2> QED
    BY <1>2, <2>1, <2>2, <2>3 DEF IInv, LoopInv
<1>12. CallerInv' /\ BestInv' /\ SumInv' /\ ResultIsAnAverage'
  BY <1>2
  DEF IInv, ArriveAt, CallerInv, BestInv, SumInv, Joined, ResultIsAnAverage
<1> QED
  BY <1>8, <1>9, <1>10, <1>11, <1>12 DEF IInv

(* A worker leaves a barrier round that is over.                           *)
LEMMA PassStep ==
  ASSUME IInv, NEW w \in Workers, Pass(w), UNCHANGED online
  PROVE  IInv'
<1>1. /\ pc[w] = "wait" /\ pc'[w] = "work" /\ w # Main /\ w \in Parties
      /\ \A q \in Parties : q # w => pc'[q] = pc[q]
      /\ pc'[Main] = pc[Main]
  BY Cast DEF Pass, Goto, IInv, TypeOK
<1>2. pc[Main] # "caller"
  BY <1>1 DEF IInv, CallerInv
<1>3. ticket[w] < barrier.round /\ rounds[w] = barrier.round - 1
  BY <1>1, <1>2
  DEF Pass, Released, IInv, PhaseInv, TypeOK, BarrierType
<1>4. TypeOK'
  <2>1. pc' \in [Parties -> WorkerPCs \union MainPCs]
    BY DEF Pass, Goto, IInv, TypeOK, WorkerPCs
  <2>2. \A v \in Workers : pc'[v] \in WorkerPCs
    BY <1>1, Cast DEF IInv, TypeOK, WorkerPCs
  <2> QED
    BY <1>1, <2>1, <2>2 DEF IInv, TypeOK, Pass
<1>5. CountInv'
  <2>1. Waiting' = Waiting
    BY <1>1, <1>3 DEF Waiting, Pass, IInv, TypeOK, BarrierType
  <2> QED
    BY <1>2, <2>1 DEF IInv, CountInv, Pass
<1>6. PhaseInv'
  BY <1>1, <1>2, <1>3 DEF IInv, PhaseInv, Pass
<1>7. LoopInv'
  <2>1. \A v \in Workers : pc'[v] \in {"none", "ended"} => pc'[v] = pc[v]
    BY <1>1, Cast
  <2>2. \A v \in Workers : pc[v] \in {"none", "ended"} => pc'[v] = pc[v]
    BY <1>1, Cast
  <2> QED
    BY <1>1, <2>1, <2>2 DEF IInv, LoopInv, Pass
<1>8. CallerInv' /\ BestInv' /\ SumInv' /\ ResultIsAnAverage'
  BY <1>1, <1>2
  DEF IInv, Pass, CallerInv, BestInv, SumInv, Joined, ResultIsAnAverage
<1> QED
  BY <1>4, <1>5, <1>6, <1>7, <1>8 DEF IInv

(***************************************************************************)
(* A round of a worker ends: it has caught up with the barrier, which      *)
(* therefore is at its fourth round when the worker ends.                  *)
(***************************************************************************)
LEMMA WorkStep ==
  ASSUME IInv, NEW w \in Workers, Work(w), UNCHANGED online
  PROVE  IInv'
<1>1. /\ pc[w] = "work" /\ w # Main /\ w \in Parties
      /\ \A q \in Parties : q # w => pc'[q] = pc[q] /\ rounds'[q] = rounds[q]
      /\ pc'[Main] = pc[Main]
      /\ rounds'[w] = rounds[w] + 1
      /\ pc'[w] = IF rounds'[w] < 4 THEN "arrive" ELSE "ended"
      /\ \A v \in Workers : v # w => best'[v] = best[v]
  BY Cast DEF Work, Goto, IInv, TypeOK, WorkerRounds
<1>2. pc[Main] # "caller"
  BY <1>1 DEF IInv, CallerInv
<1>3. /\ rounds[w] = barrier.round - 1
      /\ rounds[w] \in Nat /\ barrier.round \in Nat /\ barrier.round =< 4
  BY <1>1, <1>2 DEF IInv, PhaseInv, CountInv, TypeOK, BarrierType
<1>4. best'[w] \in Cycles
  <2>1. PICK cycles \in Cycles :
          best' = [best EXCEPT ![w] = IF cycles < @ THEN cycles ELSE @]
    BY DEF Work
  <2>2. best'[w] = IF cycles < best[w] THEN cycles ELSE best[w]
    BY <2>1 DEF IInv, TypeOK
  <2>3. best[w] \in Cycles \union {Unmeasured} /\ cycles < Unmeasured
    BY CyclesAssumption DEF IInv, TypeOK
  <2> QED
    BY <2>2, <2>3
<1>5. TypeOK'
  <2>1. /\ pc' \in [Parties -> WorkerPCs \union MainPCs]
        /\ rounds' \in [Parties -> Nat]
    <3>1. pc' = [pc EXCEPT ![w] = IF rounds'[w] < 4 THEN "arrive" ELSE "ended"]
      BY DEF Work, Goto, WorkerRounds
    <3>2. (IF rounds'[w] < 4 THEN "arrive" ELSE "ended") \in WorkerPCs
      BY DEF WorkerPCs
    <3>3. pc' \in [Parties -> WorkerPCs \union MainPCs]
      BY <3>1, <3>2 DEF IInv, TypeOK
    <3>4. rounds' = [rounds EXCEPT ![w] = rounds[w] + 1] /\ rounds[w] + 1 \in Nat
      BY <1>3 DEF Work
    <3>5. rounds' \in [Parties -> Nat]
      BY <3>4 DEF IInv, TypeOK
    <3> QED
      BY <3>3, <3>5
  <2>2. \A v \in Workers : pc'[v] \in WorkerPCs
    BY <1>1, Cast DEF IInv, TypeOK, WorkerPCs
  <2>3. best' \in [Workers -> Cycles \union {Unmeasured}]
    <3>1. DOMAIN best' = Workers /\ best' = [v \in Workers |-> best'[v]]
      BY DEF Work, IInv, TypeOK
    <3>2. \A v \in Workers : best'[v] \in Cycles \union {Unmeasured}
      BY <1>1, <1>4 DEF IInv, TypeOK
    <3> QED
      BY <3>1, <3>2
  <2> QED
    BY <1>1, <2>1, <2>2, <2>3 DEF IInv, TypeOK, Work
<1>6. CountInv'
  <2>1. Waiting' = Waiting
    BY <1>1 DEF Waiting, Work
  <2> QED
    BY <1>2, <2>1 DEF IInv, CountInv, Work
<1>7. PhaseInv'
  BY <1>1, <1>2, <1>3 DEF IInv, PhaseInv, Work
<1>8. LoopInv'
  <2>1. \A v \in Workers : pc'[v] # "none" => pc[v] # "none"
    BY <1>1, Cast
  <2>2. \A v \in Workers : pc[v] \in {"none", "ended"} => pc'[v] = pc[v]
    BY <1>1, Cast
  <2> QED
    BY <1>1, <2>1, <2>2 DEF IInv, LoopInv, Work
<1>9. BestInv'
  BY <1>1, <1>4, Cast DEF IInv, BestInv
<1>10. SumInv'
  <2>1. SUFFICES ASSUME pc[Main] = "join"
                 PROVE  \A v \in Joined : best'[v] = best[v]
    BY <1>1 DEF IInv, SumInv, Joined, Work
  <2>2. \A v \in Joined : v \in Workers /\ v < index
    BY Numbers DEF Joined, IInv, TypeOK
  <2>3. w \notin Joined
    BY <1>1, <2>1, <2>2 DEF IInv, LoopInv
  <2> QED
    BY <1>1, <2>2, <2>3
<1>11. CallerInv' /\ ResultIsAnAverage'
  BY <1>1, <1>2 DEF IInv, Work, CallerInv, ResultIsAnAverage
<1> QED
  BY <1>5, <1>6, <1>7, <1>8, <1>9, <1>10, <1>11 DEF IInv

(* The main thread leaves a barrier round; the fourth is the last.         *)
LEMMA MainPassStep ==
  ASSUME IInv, MainPass, UNCHANGED online
  PROVE  IInv'
<1>1. /\ pc[Main] = "wait" /\ ticket[Main] < barrier.round
      /\ rounds' = [rounds EXCEPT ![Main] = rounds[Main] + 1]
      /\ pc' = [pc EXCEPT ![Main] =
                  IF rounds'[Main] < 4 THEN "arrive" ELSE "join"]
      /\ index' = First
      /\ min' = IF rounds'[Main] < 4 THEN min ELSE 0
      /\ UNCHANGED <<barrier, ticket, best, result, calls>>
  BY DEF MainPass, Goto, MainRounds, Released, IInv, TypeOK, BarrierType
<1>2. /\ rounds[Main] = barrier.round - 1
      /\ rounds[Main] \in Nat /\ barrier.round \in Nat /\ barrier.round =< 4
  BY <1>1, Cast DEF IInv, PhaseInv, CountInv, TypeOK, BarrierType
<1>3. /\ rounds'[Main] = rounds[Main] + 1
      /\ pc'[Main] = IF rounds'[Main] < 4 THEN "arrive" ELSE "join"
      /\ \A q \in Parties : q # Main => pc'[q] = pc[q] /\ rounds'[q] = rounds[q]
      /\ \A v \in Workers : pc'[v] = pc[v] /\ rounds'[v] = rounds[v]
  BY <1>1, Cast DEF IInv, TypeOK
<1>4. TypeOK'
  <2>1. pc' \in [Parties -> WorkerPCs \union MainPCs]
    <3>1. (IF rounds'[Main] < 4 THEN "arrive" ELSE "join") \in MainPCs
      BY DEF MainPCs
    <3> QED
      BY <1>1, <3>1 DEF IInv, TypeOK
  <2>2. rounds' \in [Parties -> Nat]
    <3>1. rounds[Main] + 1 \in Nat
      BY <1>2
    <3> QED
      BY <1>1, <3>1 DEF IInv, TypeOK
  <2>3. /\ \A v \in Workers : pc'[v] \in WorkerPCs
        /\ pc'[Main] \in MainPCs
    BY <1>3 DEF IInv, TypeOK, MainPCs
  <2>4. index' \in First .. (Last + 1) /\ min' \in Nat
    BY <1>1, Numbers DEF IInv, TypeOK
  <2> QED
    BY <1>1, <2>1, <2>2, <2>3, <2>4 DEF IInv, TypeOK
<1>5. CountInv'
  <2>1. \A q \in Parties : pc'[q] = "wait" /\ ticket'[q] = barrier'.round
                       <=> pc[q] = "wait" /\ ticket[q] = barrier.round
    BY <1>1, <1>2, <1>3 DEF IInv, TypeOK
  <2>2. Waiting' = Waiting
    BY <2>1 DEF Waiting
  <2> QED
    BY <1>1, <2>2 DEF IInv, CountInv
<1>6. PhaseInv'
  BY <1>1, <1>2, <1>3 DEF IInv, PhaseInv
<1>7. LoopInv' /\ CallerInv' /\ BestInv' /\ ResultIsAnAverage'
  BY <1>1, <1>3, Numbers
  DEF IInv, LoopInv, CallerInv, BestInv, ResultIsAnAverage
<1>8. SumInv'
  <2>1. SUFFICES ASSUME pc'[Main] = "join", NEW k \in Nat
                 PROVE  k * (index' - First) = 0 /\ min' = 0
    BY DEF SumInv
  <2>2. index' - First = 0 /\ min' = 0
    BY <1>1, <1>3, <2>1, Numbers
  <2> QED
    BY <2>2
<1> QED
  BY <1>4, <1>5, <1>6, <1>7, <1>8 DEF IInv

(* One factor more.                                                        *)
LEMMA OneMore ==
  ASSUME NEW k \in Int, NEW n \in Int
  PROVE  k * (n + 1) = k * n + k /\ k * n \in Int
  OBVIOUS

(* A worker is joined and its best time is added.                          *)
LEMMA JoinStep ==
  ASSUME IInv, Join, UNCHANGED online
  PROVE  IInv'
<1>1. /\ pc[Main] = "join" /\ index \in Workers /\ pc[index] = "ended"
      /\ index' = index + 1 /\ min' = min + best[index]
      /\ UNCHANGED <<barrier, ticket, pc, rounds, best, result, calls>>
  BY Numbers DEF Join, IInv, TypeOK
<1>2. best[index] \in Nat /\ min \in Nat
  BY <1>1, CyclesAssumption DEF IInv, TypeOK
<1>3. TypeOK'
  <2>1. index' \in First .. (Last + 1) /\ min' \in Nat
    BY <1>1, <1>2, Numbers
  <2> QED
    BY <1>1, <2>1 DEF IInv, TypeOK
<1>4. CountInv'
  <2>1. Waiting' = Waiting
    BY <1>1 DEF Waiting
  <2> QED
    BY <1>1, <2>1 DEF IInv, CountInv
<1>5. PhaseInv'
  BY <1>1 DEF IInv, PhaseInv
<1>6. LoopInv'
  <2>1. \A w \in Workers : w < index + 1 => w < index \/ w = index
    BY <1>1, Numbers
  <2> QED
    BY <1>1, <2>1 DEF IInv, LoopInv
<1>7. CallerInv' /\ BestInv' /\ ResultIsAnAverage'
  BY <1>1 DEF IInv, CallerInv, BestInv, ResultIsAnAverage
<1>8. SumInv'
  <2> SUFFICES ASSUME NEW k \in Nat
               PROVE  /\ (\A w \in Joined' : k =< best[w]) =>
                           k * (index' - First) =< min'
                      /\ (\A w \in Joined' : best[w] =< k) =>
                           min' =< k * (index' - First)
    BY <1>1 DEF SumInv
  <2>1. index \in Joined' /\ Joined \subseteq Joined'
    BY <1>1, Numbers DEF Joined
  <2>2. /\ k * (index' - First) = k * (index - First) + k
        /\ k * (index - First) \in Int
    <3>1. index - First \in Int /\ index' - First = (index - First) + 1
      BY <1>1, Numbers
    <3> QED
      BY <3>1, OneMore
  <2>3. /\ (\A w \in Joined : k =< best[w]) => k * (index - First) =< min
        /\ (\A w \in Joined : best[w] =< k) => min =< k * (index - First)
    BY <1>1 DEF IInv, SumInv
  <2>4. ASSUME \A w \in Joined' : k =< best[w]
        PROVE  k * (index' - First) =< min'
    <3>1. k =< best[index] /\ k * (index - First) =< min
      BY <2>1, <2>3, <2>4
    <3> QED
      BY <1>1, <1>2, <2>2, <3>1
  <2>5. ASSUME \A w \in Joined' : best[w] =< k
        PROVE  min' =< k * (index' - First)
    <3>1. best[index] =< k /\ min =< k * (index - First)
      BY <2>1, <2>3, <2>5
    <3> QED
      BY <1>1, <1>2, <2>2, <3>1
  <2> QED
    BY <2>4, <2>5
<1> QED
  BY <1>3, <1>4, <1>5, <1>6, <1>7, <1>8 DEF IInv

(***************************************************************************)
(* The quotient of a sum of n numbers is between the least and the         *)
(* greatest of them: it has a number at or below it and one at or above.   *)
(***************************************************************************)
LEMMA BetweenTheBest ==
  ASSUME IInv, pc[Main] = "join", index > Last
  PROVE  LET average == min \div (Last - First + 1)
         IN /\ average \in Nat
            /\ \E w \in Workers : best[w] =< average
            /\ \E w \in Workers : best[w] >= average
<1> DEFINE n == Last - First + 1
           average == min \div n
<1>1. n \in Nat \ {0} /\ index - First = n /\ min \in Nat
  BY Numbers DEF IInv, TypeOK
<1>2. Joined = Workers
  BY Numbers DEF Joined, Workers, IInv, TypeOK
<1>3. \A w \in Workers : best[w] \in Nat
  BY CyclesAssumption DEF IInv, TypeOK
<1>4. \A k \in Nat :
        /\ (\A w \in Workers : k =< best[w]) => k * n =< min
        /\ (\A w \in Workers : best[w] =< k) => min =< k * n
  BY <1>1, <1>2 DEF IInv, SumInv
<1> HIDE DEF n
<1>5. /\ average \in Int /\ min % n \in 0 .. (n - 1)
      /\ min = average * n + (min % n)
  BY <1>1, QuotientAndRemainder
<1>6. average * n \in Int /\ average * n =< min /\ min < average * n + n
  BY <1>1, <1>5
<1>7. average \in Nat
  <2>1. ASSUME average < 0 PROVE FALSE
    <3>1. average * n + n =< 0 * n
      BY <1>1, <1>5, <2>1, MultiplesApart
    <3> QED
      BY <1>1, <1>6, <3>1
  <2> QED
    BY <1>5, <2>1
<1> HIDE DEF average
<1>8. ASSUME \A w \in Workers : ~(best[w] =< average) PROVE FALSE
  <2>1. \A w \in Workers : average + 1 =< best[w]
    BY <1>3, <1>7, <1>8
  <2>2. (average + 1) * n =< min
    BY <1>4, <1>7, <2>1
  <2>3. average * n + n =< (average + 1) * n
    BY <1>1, <1>7, MultiplesApart
  <2>4. (average + 1) * n \in Int
    BY <1>1, <1>7
  <2> QED
    BY <1>1, <1>6, <2>2, <2>3, <2>4
<1>9. ASSUME \A w \in Workers : ~(best[w] >= average) PROVE FALSE
  <2>1. First \in Workers
    BY Numbers
  <2>2. average - 1 \in Nat /\ \A w \in Workers : best[w] =< average - 1
    BY <1>3, <1>7, <1>9, <2>1
  <2>3. min =< (average - 1) * n
    BY <1>4, <2>2
  <2>4. (average - 1) * n + n =< average * n /\ (average - 1) * n \in Int
    BY <1>1, <1>7, MultiplesApart
  <2> QED
    BY <1>1, <1>6, <2>3, <2>4
<1> QED
  BY <1>7, <1>8, <1>9 DEF average, n

(* The call returns when all workers have ended.                           *)
LEMMA ReturnStep ==
  ASSUME IInv, Return, UNCHANGED online
  PROVE  IInv'
<1>1. /\ pc[Main] = "join" /\ pc'[Main] = "caller" /\ index > Last
      /\ \A v \in Workers : pc'[v] = pc[v]
      /\ pc' \in [Parties -> WorkerPCs \union MainPCs]
  BY Cast DEF Return, Goto, IInv, TypeOK, MainPCs
<1>2. \A w \in Workers : pc[w] = "ended" /\ rounds[w] = 4
  <2>1. \A w \in Workers : w < index
    BY <1>1, Numbers DEF IInv, TypeOK
  <2>2. \A w \in Workers : pc[w] = "ended"
    BY <1>1, <2>1 DEF IInv, LoopInv
  <2> QED
    BY <1>1, <2>2, Cast DEF IInv, PhaseInv
<1>3. /\ result' \in Nat
      /\ \E w \in Workers : best[w] =< result'
      /\ \E w \in Workers : best[w] >= result'
  BY <1>1, BetweenTheBest DEF Return
<1>4. /\ barrier' = NoBarrier /\ NoBarrier \in BarrierType
      /\ NoBarrier.count = 0 /\ NoBarrier.arrived = 0
  BY FreshBarrier DEF Return, NoBarrier
<1>5. TypeOK'
  <2>1. /\ \A v \in Workers : pc'[v] \in WorkerPCs
        /\ pc'[Main] \in MainPCs
    BY <1>1 DEF IInv, TypeOK, MainPCs
  <2> QED
    BY <1>1, <1>3, <1>4, <2>1, Numbers DEF IInv, TypeOK, Return
<1>6. CountInv' /\ PhaseInv' /\ SumInv'
  BY <1>1 DEF CountInv, PhaseInv, SumInv
<1>7. LoopInv' /\ CallerInv' /\ BestInv'
  BY <1>1, <1>2, <1>4 DEF IInv, LoopInv, CallerInv, BestInv, Return
<1>8. ResultIsAnAverage'
  <2>1. \A w \in Workers : best[w] # Unmeasured
    <3>1. \A w \in Workers : best[w] \in Cycles
      BY <1>2 DEF IInv, BestInv
    <3> QED
      BY <3>1, CyclesAssumption
  <2>2. best' = best /\ rounds' = rounds
    BY DEF Return
  <2> QED
    BY <1>2, <1>3, <2>1, <2>2 DEF ResultIsAnAverage, WorkerRounds
<1> QED
  BY <1>5, <1>6, <1>7, <1>8 DEF IInv

(* Every step keeps the invariant.                                         *)
LEMMA NextIInv == IInv /\ [Next]_vars => IInv'
<1> SUFFICES ASSUME IInv, [Next]_vars PROVE IInv'
  OBVIOUS
<1>1. CASE UNCHANGED vars
  <2>1. Waiting' = Waiting
    BY <1>1 DEF vars, locals, Waiting
  <2> QED
    BY <1>1, <2>1
    DEF vars, locals, IInv, TypeOK, CountInv, PhaseInv, LoopInv, CallerInv,
        BestInv, Joined, SumInv, ResultIsAnAverage
<1>2. CASE Next
  BY <1>2, Cast, CallStep, CreateStep, AllCreatedStep, ArriveStep, PassStep,
     WorkStep, MainPassStep, JoinStep, ReturnStep
  DEF Next, MainStep, WorkerStep
<1> QED
  BY <1>1, <1>2
-----------------------------------------------------------------------------
(* In every reachable state of start_threads the invariant holds.          *)
LEMMA Invariance == Spec => []IInv
  BY InitIInv, NextIInv, PTL DEF Spec

(* Nobody is counted twice in a barrier round, for any number of cores.    *)
THEOREM TypeCorrect == Spec => []TypeOK
<1>1. IInv => TypeOK
  BY DEF IInv
<1> QED
  BY <1>1, Invariance, PTL

(* While a worker measures, the rounds of all others differ by at most the *)
(* one that they have just finished: the threads run simultaneously.       *)
THEOREM Together == Spec => []LaunchedTogether
<1>1. IInv => LaunchedTogether
  <2> SUFFICES ASSUME IInv, NEW w \in Workers, NEW v \in Workers, pc[w] = "work"
               PROVE  /\ rounds[v] \in {rounds[w], rounds[w] + 1}
                      /\ rounds[v] = rounds[w] + 1 => pc[v] # "work"
    BY DEF LaunchedTogether
  <2>1. pc[Main] # "caller"
    BY DEF IInv, CallerInv
  <2>2. rounds[w] = barrier.round - 1 /\ rounds[w] \in Nat /\ barrier.round \in Nat
    BY <2>1, Cast DEF IInv, PhaseInv, TypeOK, BarrierType
  <2>3. pc[v] \in WorkerPCs
    BY DEF IInv, TypeOK
  <2>4. CASE pc[v] = "work"
    BY <2>1, <2>2, <2>4, Cast DEF IInv, PhaseInv
  <2>5. CASE pc[v] # "work"
    BY <2>1, <2>2, <2>3, <2>5, Cast DEF IInv, PhaseInv, WorkerPCs
  <2> QED
    BY <2>4, <2>5
<1> QED
  BY <1>1, Invariance, PTL

(* The barrier is destroyed, and the call returns, when nobody is at it.   *)
THEOREM NobodyLeft == Spec => []NobodyLeftBehind
<1>1. IInv => NobodyLeftBehind
  BY DEF IInv, CallerInv, NobodyLeftBehind
<1> QED
  BY <1>1, Invariance, PTL

(* The result is between the best times of the fastest and the slowest     *)
(* worker, for any number of them and any times.                           *)
THEOREM Average == Spec => []ResultIsAnAverage
<1>1. IInv => ResultIsAnAverage
  BY DEF IInv
<1> QED
  BY <1>1, Invariance, PTL
-----------------------------------------------------------------------------
(* The refinement mapping.                                                 *)
Done == [w \in Workers |-> rounds[w]]
Working == {w \in Workers : pc[w] = "work"}
Reported == pc[Main] = "caller"
Complete == online = Workers

(* A call begins a measurement that nothing of the last one is left of.    *)
LEMMA CallStarts ==
  ASSUME IInv, Call, UNCHANGED online
  PROVE  Lockstep!Start
<1>1. pc'[Main] = "create" /\ \A w \in Workers : pc'[w] = "none"
  BY Cast DEF Call
<1>2. Reported /\ Reported' = FALSE
  BY <1>1 DEF Reported, Call
<1>3. \A w \in Workers : pc[w] \in {"none", "ended"}
  BY <1>2 DEF IInv, CallerInv, Reported
<1>4. Working = {} /\ Working' = {}
  BY <1>1, <1>3 DEF Working
<1>5. Done' = [w \in Workers |-> 0]
  BY Cast DEF Done, Call
<1>6. Complete' = Complete
  BY DEF Complete
<1> QED
  BY <1>2, <1>4, <1>5, <1>6
  DEF Lockstep!Start, Reported, Working, Done, Complete

(* A worker that leaves the barrier begins a round that all may begin.     *)
LEMMA PassBegins ==
  ASSUME IInv, NEW w \in Workers, Pass(w), UNCHANGED online
  PROVE  Lockstep!Begin(w)
<1>1. /\ pc[w] = "wait" /\ pc'[w] = "work" /\ w \in Parties
      /\ \A q \in Parties : q # w => pc'[q] = pc[q]
      /\ pc'[Main] = pc[Main]
  BY Cast DEF Pass, Goto, IInv, TypeOK
<1>2. pc[Main] # "caller"
  BY <1>1 DEF IInv, CallerInv
<1>3. /\ rounds[w] = barrier.round - 1 /\ rounds[w] < 4
      /\ rounds[w] \in Nat /\ barrier.round \in Nat
  BY <1>1, <1>2 DEF Pass, Released, IInv, PhaseInv, TypeOK, BarrierType
<1>4. \A v \in Workers : pc[v] # "none" /\ rounds[v] >= rounds[w]
  <2> SUFFICES ASSUME NEW v \in Workers
               PROVE  pc[v] # "none" /\ rounds[v] >= rounds[w]
    OBVIOUS
  <2>1. pc[v] \in WorkerPCs /\ rounds[v] \in Nat /\ v \in Parties
    BY Cast DEF IInv, TypeOK
  <2> QED
    BY <1>2, <1>3, <2>1 DEF IInv, PhaseInv, WorkerPCs
<1>5. Complete
  BY <1>4 DEF Complete, IInv, LoopInv, TypeOK
<1>6. Working' = Working \union {w} /\ w \notin Working
  BY <1>1, Cast DEF Working
<1>7. /\ Done' = Done /\ Complete' = Complete
      /\ ~Reported /\ Reported' = Reported
  BY <1>1, <1>2 DEF Pass, Done, Complete, Reported
<1>8. Done[w] < 4 /\ \A v \in Workers : Done[v] >= Done[w]
  BY <1>3, <1>4 DEF Done
<1> QED
  BY <1>5, <1>6, <1>7, <1>8
  DEF Lockstep!Begin, Reported, Working, Done, Complete

(* The end of a round of a worker.                                         *)
LEMMA WorkEnds ==
  ASSUME IInv, NEW w \in Workers, Work(w), UNCHANGED online
  PROVE  Lockstep!End(w)
<1>1. /\ pc[w] = "work" /\ pc'[w] \in {"arrive", "ended"}
      /\ \A q \in Parties : q # w => pc'[q] = pc[q]
      /\ pc'[Main] = pc[Main]
      /\ rounds' = [rounds EXCEPT ![w] = rounds[w] + 1]
  BY Cast DEF Work, Goto, IInv, TypeOK
<1>2. Working' = Working \ {w} /\ w \in Working
  BY <1>1, Cast DEF Working
<1>3. Done' = [Done EXCEPT ![w] = Done[w] + 1]
  BY <1>1, Cast DEF Done, IInv, TypeOK
<1>4. Complete' = Complete /\ Reported' = Reported
  BY <1>1 DEF Complete, Reported
<1> QED
  BY <1>2, <1>3, <1>4 DEF Lockstep!End, Reported, Working, Done, Complete

(* The call returns when all rounds are over.                              *)
LEMMA ReturnReports ==
  ASSUME IInv, Return, UNCHANGED online
  PROVE  Lockstep!Report
<1>1. /\ pc[Main] = "join" /\ pc'[Main] = "caller" /\ index > Last
      /\ \A v \in Workers : pc'[v] = pc[v]
  BY Cast DEF Return, Goto, IInv, TypeOK
<1>2. \A w \in Workers : rounds[w] = 4
  <2>1. \A w \in Workers : w < index
    BY <1>1, Numbers DEF IInv, TypeOK
  <2>2. \A w \in Workers : pc[w] = "ended"
    BY <1>1, <2>1 DEF IInv, LoopInv
  <2> QED
    BY <1>1, <2>2, Cast DEF IInv, PhaseInv
<1>3. ~Reported /\ Reported' = TRUE /\ Complete' = Complete
  BY <1>1 DEF Reported, Complete
<1>4. Working' = Working /\ Done' = Done
  BY <1>1 DEF Working, Done, Return
<1>5. \A w \in Workers : Done[w] = 4
  BY <1>2 DEF Done
<1> QED
  BY <1>3, <1>4, <1>5 DEF Lockstep!Report, Reported, Working, Done, Complete

(* What changes neither rounds nor who measures cannot be seen.            *)
LEMMA Unseen ==
  ASSUME UNCHANGED <<online, rounds>>,
         \A w \in Workers : pc'[w] = "work" <=> pc[w] = "work",
         pc'[Main] = "caller" <=> pc[Main] = "caller"
  PROVE  UNCHANGED Lockstep!vars
<1>1. /\ Done' = Done /\ Working' = Working
      /\ Complete' = Complete /\ Reported' = Reported
  BY DEF Done, Working, Complete, Reported
<1> QED
  BY <1>1 DEF Lockstep!vars, Done, Working, Complete, Reported

(* The main thread's rounds are not among those of the workers.            *)
LEMMA MainUnseen ==
  ASSUME IInv, MainPass, UNCHANGED online
  PROVE  UNCHANGED Lockstep!vars
<1>1. /\ \A w \in Workers : pc'[w] = pc[w] /\ rounds'[w] = rounds[w]
      /\ pc[Main] = "wait" /\ pc'[Main] \in {"arrive", "join"}
  BY Cast DEF MainPass, Goto, IInv, TypeOK
<1>2. /\ Done' = Done /\ Working' = Working
      /\ Complete' = Complete /\ Reported' = Reported
  BY <1>1 DEF Done, Working, Complete, Reported
<1> QED
  BY <1>2 DEF Lockstep!vars, Done, Working, Complete, Reported

(* The steps of the loops and the arrivals.                                *)
LEMMA LoopsUnseen ==
  ASSUME IInv, UNCHANGED online,
         Create \/ AllCreated \/ Join \/ \E p \in Parties : ArriveAt(p)
  PROVE  UNCHANGED Lockstep!vars
<1>1. CASE Create
  <2>1. index \in Workers /\ pc[index] = "none" /\ pc[Main] = "create"
    BY <1>1, Numbers DEF Create, IInv, TypeOK, LoopInv
  <2>2. /\ pc'[index] \in {"none", "arrive"} /\ pc'[Main] = pc[Main]
        /\ \A w \in Workers : w # index => pc'[w] = pc[w]
    BY <1>1, <2>1, Cast DEF Create, IInv, TypeOK
  <2> QED
    BY <1>1, <2>1, <2>2, Unseen DEF Create
<1>2. CASE AllCreated
  <2>1. /\ \A w \in Workers : pc'[w] = pc[w]
        /\ pc[Main] = "create" /\ pc'[Main] = "arrive"
    BY <1>2, Cast DEF AllCreated, Goto, IInv, TypeOK
  <2> QED
    BY <1>2, <2>1, Unseen DEF AllCreated
<1>3. CASE Join
  BY <1>3, Unseen DEF Join
<1>4. ASSUME NEW p \in Parties, ArriveAt(p) PROVE UNCHANGED Lockstep!vars
  <2>1. /\ pc[p] = "arrive" /\ pc'[p] = "wait"
        /\ \A q \in Parties : q # p => pc'[q] = pc[q]
    BY <1>4 DEF ArriveAt, Goto, IInv, TypeOK
  <2> QED
    BY <1>4, <2>1, Cast, Unseen DEF ArriveAt
<1> QED
  BY <1>1, <1>2, <1>3, <1>4

(***************************************************************************)
(* start_threads implements rounds in lockstep, for any number of cores,   *)
(* of which any may be offline: each step is one of LockstepRounds or      *)
(* cannot be seen.                                                         *)
(***************************************************************************)
THEOREM RoundsRefinement == Spec => LockstepSafety
<1>1. Init => Lockstep!Init
  <2> SUFFICES ASSUME Init PROVE Lockstep!Init
    OBVIOUS
  <2>1. Reported /\ Working = {} /\ Complete \in BOOLEAN
    BY PartiesCounted DEF Init, Parties, Reported, Working, Complete
  <2>2. Done = [w \in Workers |-> 0]
    BY Cast DEF Init, Done
  <2> QED
    BY <2>1, <2>2 DEF Lockstep!Init, Reported, Working, Complete, Done
<1>2. IInv /\ [Next]_vars => [Lockstep!Next]_Lockstep!vars
  <2> SUFFICES ASSUME IInv, [Next]_vars
               PROVE  Lockstep!Next \/ UNCHANGED Lockstep!vars
    OBVIOUS
  <2>1. CASE UNCHANGED vars
    BY <2>1, Unseen DEF vars, locals
  <2>2. CASE Next
    <3>1. UNCHANGED online
      BY <2>2 DEF Next
    <3>2. CASE Call
      BY <3>1, <3>2, CallStarts DEF Lockstep!Next
    <3>3. CASE Return
      BY <3>1, <3>3, ReturnReports DEF Lockstep!Next
    <3>4. CASE MainPass
      BY <3>1, <3>4, MainUnseen
    <3>5. CASE Create \/ AllCreated \/ Join \/ \E p \in Parties : ArriveAt(p)
      BY <3>1, <3>5, LoopsUnseen
    <3>6. ASSUME NEW w \in Workers, Pass(w) PROVE Lockstep!Next
      BY <3>1, <3>6, PassBegins DEF Lockstep!Next
    <3>7. ASSUME NEW w \in Workers, Work(w) PROVE Lockstep!Next
      BY <3>1, <3>7, WorkEnds DEF Lockstep!Next
    <3> QED
      BY <2>2, <3>2, <3>3, <3>4, <3>5, <3>6, <3>7, Cast
      DEF Next, MainStep, WorkerStep
  <2> QED
    BY <2>1, <2>2
<1> QED
  BY <1>1, <1>2, Invariance, PTL DEF Spec, LockstepSafety, Lockstep!Safety
=============================================================================
