------------------------------ MODULE MbEnzian ------------------------------
(***************************************************************************)
(* main of mb_enzian.c: the options, the set-up that depends on them, and  *)
(* the tests in their order.  The latency tests run in full (LatencyTest); *)
(* a call of start_threads (StartThreads) or do_c2c_test (CoreToCore) is   *)
(* one step here, with what it reads and writes and whether it returns.    *)
(*                                                                         *)
(* Units: a size is its log2, as in the code.  A latency test of 2^26      *)
(* bytes, the largest, is the one of 2^MaxExp lines in the model; other    *)
(* sizes keep their ratio to it.                                           *)
(***************************************************************************)
EXTENDS LatencyTest

CONSTANTS
  NCpus,   \* cores of the machine; all of them are online
  Options  \* command lines: [selected, stress, cpuMemory, first, last]

(* The workers' parts of 2^25 bytes fit the 3 GB that main touches. *)
ASSUME NCpusAssumption == NCpus \in 1 .. 96
ASSUME OptionsAssumption ==
  \A cmd \in Options :
    /\ cmd.first \in Nat /\ cmd.last \in Nat
    /\ cmd.cpuMemory \in BOOLEAN
    /\ cmd.stress \in {"none", "w", "c", "r", "l"}
    /\ cmd.selected \subseteq {"overall", "throughput", "c2c", "latency", "seq"}

VARIABLES
  opt,            \* the command line
  phase,          \* the test of main that runs or is to be run
  turn,           \* turns of its loop so far
  first_cpu, last_cpu,
  l2_cache_size,
  touched,        \* blocks of 1 GB that have been accessed
  pinned,         \* the core that main is bound to, -1 before that
  disturbed,      \* history: a timed access was the first one to its block
  ran             \* history: tests that have come to their end

cores == <<first_cpu, last_cpu>>
setup == <<opt, l2_cache_size>>
vars == <<setup, cores, phase, turn, touched, pinned, disturbed, ran,
          latencyVars>>

L2Size == 16777216
FpgaLine == 512  \* the block of area + 0x8000000080

After == [overall |-> "throughput", throughput |-> "stress", stress |-> "c2c",
          c2c |-> "latency", latency |-> "seq", seq |-> "end"]

Asked(test) ==
  IF test = "stress" THEN opt.stress # "none" ELSE test \in opt.selected

Threads == last_cpu - first_cpu + 1

Init ==
  /\ opt \in Options
  /\ first_cpu = opt.first /\ last_cpu = opt.last
  /\ phase = "setup" /\ turn = 0
  /\ l2_cache_size = 0
  /\ touched = {} /\ pinned = -1
  /\ disturbed = FALSE /\ ran = {}
  /\ NoLatencyTest
-----------------------------------------------------------------------------
(* Set-up *)

(* The count is unsigned: what is negative here is beyond 2^31 there, and  *)
(* a division by zero traps or has any result.                             *)
L2Share ==
  IF Threads > 0 THEN {L2Size \div Threads}
  ELSE IF Threads < 0 THEN {0} ELSE {0, L2Size}

(* Mutant: only the first block. *)
TouchesOne == {0}

(* The first accesses map the blocks: their first byte is written. *)
Touches == {0, 1, 2}

SetUp ==
  /\ phase = "setup"
  /\ phase' = "overall"
  /\ l2_cache_size' \in L2Share
  /\ touched' = Touches
  /\ UNCHANGED <<opt, cores, turn, pinned, disturbed, ran, latencyVars>>

(* The area cannot be mapped, or the division traps. *)
SetUpFails ==
  /\ phase = "setup"
  /\ phase' = "failed"
  /\ UNCHANGED <<setup, cores, turn, touched, pinned, disturbed, ran,
                 latencyVars>>
-----------------------------------------------------------------------------
(* Steps of the tests *)

(* What a call of start_threads comes to: with a core that is not there it *)
(* waits at the barrier for ever.  With no thread at all the barrier is    *)
(* for main alone, and the average divides by zero; or the barrier is not  *)
(* initialised, as the count is not one.                                   *)
StartThreadsEnds ==
  IF Threads > 0 THEN {IF last_cpu < NCpus THEN "returns" ELSE "hung"}
  ELSE {"returns", "killed", "hung"}

(* The parts of the workers are of less than 1 GB; 2^14 bytes are a unit.  *)
BlocksOf(size) ==
  LET part == 2^(size - 14)
  IN {x \div 65536 : x \in {w * part : w \in first_cpu .. last_cpu}
                      \union {(w + 1) * part - 1 : w \in first_cpu .. last_cpu}}

(* The lines of the workers' parts, adjacent to each other.                *)
LinesOf(size) ==
  LET part == IF size + MaxExp < 26 THEN 0 ELSE 2^(size + MaxExp - 26)
  IN {x \in Area : first_cpu * part =< x /\ x < (last_cpu + 1) * part}

Left(kind, old) == CASE kind = "write" -> Garbage [] kind = "clear" -> 0
                     [] kind = "read" -> old

StartThreads(kind, size) ==
  /\ stage = "main"
  /\ \E end \in StartThreadsEnds :
       phase' = IF end = "returns" THEN phase ELSE end
  /\ touched' = touched \union BlocksOf(size)
  /\ disturbed' = (disturbed \/ touched' # touched)
  /\ LET lines == LinesOf(size)
     IN line' = [x \in Area |-> IF x \in lines THEN Left(kind, line[x]) ELSE line[x]]
  /\ UNCHANGED <<setup, pinned, ran, exp, stage, i, o, p, endless, visited>>

(* The first thread writes both lines before it meets the barrier and      *)
(* reads the clock; the second thread runs on last_cpu when the FPGA is    *)
(* not the other side.                                                     *)
C2cBlock == IF opt.cpuMemory THEN 0 ELSE FpgaLine

DoC2cTest ==
  /\ stage = "main"
  /\ LET returns == first_cpu < NCpus /\ (opt.cpuMemory => last_cpu < NCpus)
     IN phase' = IF returns THEN phase ELSE "hung"
  /\ touched' = touched \union {C2cBlock}
  /\ line' = IF opt.cpuMemory THEN [line EXCEPT ![0] = 0, ![1] = 0] ELSE line
  /\ UNCHANGED <<setup, pinned, disturbed, ran, exp, stage, i, o, p, endless, visited>>

(* assert(sched_setaffinity(...) == 0), and then the latency test.         *)
Pinned(Test) ==
  /\ stage = "main"
  /\ \/ first_cpu < NCpus /\ Test /\ pinned' = first_cpu /\ UNCHANGED phase
     \/ /\ first_cpu >= NCpus /\ phase' = "killed"
        /\ UNCHANGED <<pinned, latencyVars>>
  /\ UNCHANGED <<setup, touched, disturbed, ran>>
-----------------------------------------------------------------------------
(* The tests of main *)

Kinds == <<"write", "clear", "read">>

Turn == turn' = turn + 1

(* -b: throughput of cores 0 and 1, core to core, sequential latency.      *)
Overall ==
  /\ phase = "overall" /\ Asked("overall")
  /\ Turn
  /\ \/ /\ turn = 0
        /\ first_cpu' = 0 /\ last_cpu' = 1
        /\ UNCHANGED <<setup, phase, touched, pinned, disturbed, ran, latencyVars>>
     \/ turn \in 1 .. 3 /\ StartThreads(Kinds[turn], 25) /\ UNCHANGED cores
     \/ turn = 4 /\ DoC2cTest /\ UNCHANGED cores
     \/ turn = 5 /\ Pinned(DoSeqLatencyTest(MaxExp, FALSE)) /\ UNCHANGED cores

ThroughputSize == 14 + (turn \div 3)

Throughput ==
  /\ phase = "throughput" /\ Asked("throughput")
  /\ ThroughputSize =< 25
  /\ StartThreads(Kinds[(turn % 3) + 1], ThroughputSize)
  /\ Turn
  /\ UNCHANGED cores

Modes == [w |-> "write", c |-> "clear", r |-> "read"]

(* -r: for ever. *)
Stress ==
  /\ phase = "stress" /\ Asked("stress")
  /\ \/ opt.stress # "l" /\ StartThreads(Modes[opt.stress], 25)
     \/ opt.stress = "l" /\ Pinned(DoSeqLatencyTest(MaxExp, TRUE))
  /\ UNCHANGED <<turn, cores>>

CoreToCore ==
  /\ phase = "c2c" /\ Asked("c2c")
  /\ turn = 0 /\ Turn
  /\ DoC2cTest
  /\ UNCHANGED cores

(* -t and -s: for a growing size. *)
Latency ==
  /\ phase \in {"latency", "seq"} /\ Asked(phase)
  /\ MinExp + turn =< MaxExp /\ Turn
  /\ \/ phase = "latency" /\ Pinned(DoLatencyTest(MinExp + turn))
     \/ phase = "seq" /\ Pinned(DoSeqLatencyTest(MinExp + turn, FALSE))
  /\ UNCHANGED cores

Turns == [overall |-> 6, throughput |-> 36, c2c |-> 1,
          latency |-> MaxExp - MinExp + 1, seq |-> MaxExp - MinExp + 1]

(* On to the next test: this one is over, or was not asked for.            *)
NextPhase ==
  /\ phase \in DOMAIN After
  /\ stage = "main"
  /\ ~Asked(phase) \/ (phase \in DOMAIN Turns /\ turn = Turns[phase])
  /\ phase' = After[phase]
  /\ ran' = IF Asked(phase) THEN ran \union {phase} ELSE ran
  /\ turn' = 0
  /\ UNCHANGED <<setup, cores, touched, pinned, disturbed, latencyVars>>

InLatencyTest ==
  /\ phase \in DOMAIN After
  /\ LatencyStep
  /\ UNCHANGED <<setup, cores, phase, turn, touched, pinned, disturbed, ran>>

Next ==
  \/ SetUp \/ SetUpFails \/ NextPhase
  \/ Overall \/ Throughput \/ Stress \/ CoreToCore \/ Latency
  \/ InLatencyTest

(* One program that runs as long as it can; that its threads come back is  *)
(* what StartThreads and CoreToCore show.                                  *)
Spec == Init /\ [][Next]_vars /\ WF_vars(Next)
-----------------------------------------------------------------------------
TypeOK ==
  /\ LatencyTypeOK
  /\ opt \in Options
  /\ phase \in {"setup", "end", "failed", "hung", "killed"} \union DOMAIN After
  /\ turn \in 0 .. 36
  /\ first_cpu \in Nat /\ last_cpu \in Nat
  /\ l2_cache_size \in 0 .. L2Size
  /\ touched \subseteq Nat
  /\ pinned \in -1 .. (NCpus - 1)
  /\ disturbed \in BOOLEAN
  /\ ran \subseteq DOMAIN After

(***************************************************************************)
(* What is timed is not disturbed: no timed loop, of main or of a worker   *)
(* on any core of the machine, is the first to access a block of 1 GB (the *)
(* page fault in the driver would be timed too), and main reads the clock  *)
(* of a latency test on one core, although a test before it may have left  *)
(* main bound to another or to none.  The blocks are those of a kernel     *)
(* with huge entries of 1 GB; with entries of 2 MB main would have to      *)
(* touch many more.                                                        *)
(***************************************************************************)
NothingDisturbs ==
  /\ last_cpu < NCpus => ~disturbed
  /\ stage \in {"chase", "seq"} => pinned = first_cpu /\ 0 \in touched

(***************************************************************************)
(* Without a stress mode, every test that was asked for comes to its end,  *)
(* one after the other, and the program ends, unless the set-up failed.    *)
(* This takes cores that are there, in their order; but with -b any two    *)
(* numbers do, as it goes on with cores 0 and 1 for all tests, whatever    *)
(* the L2 was divided by before.                                           *)
(***************************************************************************)
SelectedTestsRun ==
  (/\ opt.stress = "none"
   /\ IF "overall" \in opt.selected THEN NCpus >= 2
      ELSE opt.first =< opt.last /\ opt.last < NCpus)
  => <>(phase = "failed" \/ (phase = "end" /\ ran = opt.selected))
=============================================================================
