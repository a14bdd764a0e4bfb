----------------------------- MODULE LatencyTest -----------------------------
(***************************************************************************)
(* The memory latency tests of mb_enzian.c: do_latency_test and            *)
(* do_seq_latency_test, as actions for MbEnzian, the program that calls    *)
(* them.  All of them use the same area, so a test finds what the tests    *)
(* before it have left there.  The loops of nops that measure the base,    *)
(* and the clock, are left out.                                            *)
(***************************************************************************)
EXTENDS Integers

CONSTANTS
  MinExp, MaxExp,  \* bound: log2 of the number of cache lines of a test
  Garbage          \* a word that is not a pointer

(* The inner loops are unrolled: a test has a multiple of 8 lines.  The    *)
(* largest that main asks for has 2^26 bytes.                              *)
ASSUME ExpAssumption ==
  MinExp \in Nat /\ MaxExp \in Nat /\ 3 =< MinExp /\ MinExp =< MaxExp /\ MaxExp =< 19
ASSUME GarbageAssumption == Garbage \notin Nat

Passes == 5

Area == 0 .. (2^MaxExp - 1)

VARIABLES
  exp,      \* log2(l); size is exp + 7, as a line has 128 bytes
  line,     \* c[..][0][0], the first word of each cache line
  stage,    \* which loop runs, or "main" when no test does
  i,        \* accesses of this loop so far
  o,        \* o of do_latency_test
  p,        \* passes finished
  endless,  \* do_seq_latency_test(0)
  visited   \* history: lines read in this pass

latencyVars == <<exp, line, stage, i, o, p, endless, visited>>

l == 2^exp
Tested == 0 .. (l - 1)

NoLatencyTest ==
  /\ endless = FALSE
  /\ exp = MinExp
  /\ line = [x \in Area |-> Garbage]
  /\ stage = "main"
  /\ i = 0
  /\ o = 0
  /\ p = 0
  /\ visited = {}

(* The call of a test of 2^e lines. *)
Call(loop, e, forever) ==
  /\ stage = "main"
  /\ stage' = loop
  /\ exp' = e
  /\ endless' = forever
  /\ UNCHANGED <<line, i, o, p, visited>>

DoLatencyTest(e) == Call("fill", e, FALSE)
(* Mutant: the test of size is the wrong way round. *)
DoSeqForever(e, forever) == Call("seq", e, TRUE)

DoSeqLatencyTest(e, forever) == Call("seq", e, forever)

-----------------------------------------------------------------------------
(* do_latency_test *)

(* Mutant: a multiplier with which the generator skips lines. *)
FollowerEven(x) == (x * 14 + 7) % l

(* Mutant: the pointer is not masked. *)
FollowerUnmasked(x) == x * 13 + 7

(* (o * 13 + 7) & (l - 1) *)
Follower(x) == (x * 13 + 7) % l

(* ITS * l; ITS is 1 for every size that main asks for. *)
Fills == l

Fill ==
  /\ stage = "fill"
  /\ i < Fills
  /\ i' = i + 1
  /\ line' = [line EXCEPT ![o] = Follower(o)]
  /\ o' = Follower(o)
  /\ UNCHANGED <<exp, stage, p, endless, visited>>

Filled ==
  /\ stage = "fill"
  /\ i >= Fills
  /\ stage' = "chase"
  /\ i' = 0
  /\ o' = 0
  /\ UNCHANGED <<exp, line, p, endless, visited>>

(* o = c[o][0][0] *)
Chase ==
  /\ stage = "chase"
  /\ i < l
  /\ i' = i + 1
  /\ visited' = visited \union {o}
  /\ o' = line[o]
  /\ UNCHANGED <<exp, line, stage, p, endless>>

-----------------------------------------------------------------------------
(* do_seq_latency_test *)

(* The eight loads of the unrolled body. *)
Seq ==
  /\ stage = "seq"
  /\ i < l
  /\ i' = i + 8
  /\ visited' = visited \union (i .. (i + 7))
  /\ UNCHANGED <<exp, line, stage, o, p, endless>>

-----------------------------------------------------------------------------
(* The end of a pass; five passes are a test, unless it is endless. *)
PassOver ==
  /\ stage \in {"chase", "seq"}
  /\ i >= l
  /\ i' = 0
  /\ o' = 0
  /\ visited' = {}
  /\ \/ /\ p + 1 < Passes
        /\ p' = p + 1
        /\ UNCHANGED stage
     \/ /\ p + 1 = Passes
        /\ p' = 0
        /\ stage' = IF endless THEN "seq" ELSE "main"
  /\ UNCHANGED <<exp, line, endless>>

LatencyStep == Fill \/ Filled \/ Chase \/ Seq \/ PassOver

-----------------------------------------------------------------------------
(* Every variable has its type: each access is to a line of the area.      *)
LatencyTypeOK ==
  /\ exp \in MinExp .. MaxExp
  /\ line \in [Area -> Area \union {Garbage}]
  /\ stage \in {"main", "fill", "chase", "seq"}
  /\ i \in 0 .. 2^MaxExp
  /\ o \in Area
  /\ p \in 0 .. Passes
  /\ endless \in BOOLEAN
  /\ visited \subseteq Area

(***************************************************************************)
(* Every pass reads each cache line of the size under test, and no other   *)
(* one; with the number of accesses this means that it reads each once, so *)
(* the data is as large as the size printed with the latency.              *)
(***************************************************************************)
EveryLineOnce ==
  stage \in {"chase", "seq"} /\ i >= l => visited = Tested /\ i = l
=============================================================================
