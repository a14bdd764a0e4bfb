# Formal model of the Enzian FPGA drivers and tools

This directory holds TLA+ modules for the programs in `src/`: two Linux kernel modules for the Enzian machine
(an ARM server whose second socket is an FPGA) and the user programs that use them. Every definition is
translated from the C source; `PROJECT.json` ("map") names the lines.

## The system

| component | source | state it keeps | operations |
|---|---|---|---|
| FPI driver | `enzian_fpi.c` | `wq_flag`, wait queue `wq` | `read` waits for SGI 8; `fpi_handler` on every core; `ioctl` raises an SGI at the FPGA; module init and exit |
| FPGA memory driver | `enzian_memory.c` | `enzian_memory_mmap_mutex`, the inode's `S_DAX`, and through the kernel the page tables | `open`, `mmap`, huge page faults, `ioctl` with the L2 cache instructions; module init and exit |
| `receive_fpi`, `send_fpi` | same names | none | one `read`; one `ioctl` |
| `mem` | `mem.c` | none | maps 1 TB, reads a word, or stores one and writes its cache line back |
| `mb_enzian` | `mb_enzian.c` | the mapped `area`, a global `barrier`, `c2c_data` | options and set-up, then tests in a fixed order: threads in barrier rounds (throughput), core-to-core ping-pong, pointer chase, sequential reads |
| `redis_fpga` | `redis_fpga.c` | an arena in mapped FPGA memory, the parsed schema; the Redis server keeps the rows | set the server's persistence, load a CSV file, four queries |
| `redis_loader` | `redis_loader.c` | as above, without the arena | as above |

How they interact:

* The FPGA raises SGI 8; `fpi_handler` runs on the core that takes it, sets `wq_flag` and wakes the queue; readers
  in `enzian_fpi_read` wake, clear the flag and return. Flag and queue are shared by all cores and all readers.
* `mem`, `mb_enzian` and `redis_fpga` open `/dev/fpgamem` and map it; their first touches are page faults that call
  `enzian_memory_huge_fault` under one mutex for the whole machine.
* `mem` stores through the CPU's store buffer and L2 cache and uses the driver's `ioctl` 5 to get the line into the
  FPGA memory. Any process may use any of the cache instructions.
* The threads of `mb_enzian` share one barrier and two cache lines; the FPGA may be the second party.
* `redis_fpga` reads a file into its arena, parses it there and sends one command at a time to a Redis server
  that outlives it.

What is hard here: interrupts and wake-ups against sleeping readers without a lock; a flag that is tested and cleared
in two steps; concurrent faults on one gigabyte; frames computed from the page touched first; a barrier that is
used again, destroyed and initialised again at once; store buffers and stale cache lines; a shared arena with no
owner; rows and settings that earlier runs left on the server; devices that are opened while their modules come and go; cores
that do so while an interrupt is enabled on all of them; tests that share one area and two global core numbers. `PROJECT.json` ("hazards") lists each at its line with
the properties that cover it.

## Modules

Order of writing, most important first. Modules in italics state what a component promises; the others are translations.

### EnzianFpi, *FpiEvent*

`EnzianFpi` is the running FPI driver. `wq_flag` is the driver's variable; `wq` and `state` are the wait queue and the
task states of the kernel, since the correctness of the driver is a matter of how `wait_event_interruptible` interleaves
with `wake_up_interruptible`. The reader's steps are `Test`, `Prepare`, `Recheck`, `Scheduled`, `Finish`
(`___wait_event`) and `Return` (`wq_flag = 0; return 0`). The handler's are `Take` (by the GIC), `SetFlag`, `WakeUp`.
`Raise` sets a pending bit, so two SGIs at one core may merge. `Signal` makes a sleeper runnable; a reader that sees
it leaves through `recheckInt` and `clearInt`, which clears the flag as the C code does.

Memory order: the wait queue's lock and `set_current_state` order the reader's enqueueing against its test, and
`smp_wmb` orders the flag before the wake-up, so the steps are sequentially consistent.

`FpiEvent` has no queue and no handler: an event is pending or not, a waiting read notices it (or a signal) and leaves,
and its return clears the event. `ImplementsEvent` states that the driver implements it, fairness included.

Properties: `NoMissedWakeup` (a reader blocked with the flag set has a handler at its wake-up), `OneReturnPerInterrupt`
(no reader returns more often than interrupts were handled, signals apart; false if the clear is dropped),
`FlagIsAnswered` (the flag does not stay set while a read is in progress), `ImplementsEvent`. `ReturnsOnlyOnInterrupt` is
what `receive_fpi` expects and a signal refutes.

### DriverModules

Insertion and removal of both kernel modules, again and again, with user programs and CPU hotplug. `step[d]` is the next
call of `insmod` or `rmmod` in module `d`; `FpiNext` and `FpgamemNext` are the orders of the calls in the source, and each
call is an action (`AllocChrdevRegion`, `CdevAdd`, `DeviceCreate`, `InitWaitqueueHead`, `RequestPercpuIrq`,
`EnableOnCores` one core at a time; `Rmmod`, `DisableOnCores`, `FreePercpuIrq`, `DeviceDestroy`, `UnregisterChrdevRegion`).
Opening a device has two steps, as in the kernel: the path gives a device number (`Lookup`), the number gives a cdev and a use of
its module (`ChrdevOpen`). Three properties of the source decide what can happen and are kept: the device is created before the
wait queue is initialised, there is no `cdev_del`, and the region is unregistered with a count it was not allocated with,
so it stays. `Offline` and `Online` may happen at any step, in the middle of the walks over the cores too; a core that comes
online has the interrupt disabled.

Properties: `NobodyInsideAGoneDriver` (no open, blocked or returning call is in a module on its way out or under another
number; false without `cdev.owner`), `CrashNeedsARace` (only a program that met an insertion or a removal can crash the kernel;
false without `init_waitqueue_head`), `WalksReachSteadyCores` (the interrupt is enabled, and at the removal disabled, on each core
that stays online, whatever the others do). That a program which does meet the insertion or the removal may crash is in the
model (`Read`, `ChrdevOpen`) and listed under the findings.

### EnzianMemory, MCEnzianMemory

Processes (`Mms`) with threads open the device, map a range and touch pages; a fault is `Touch`, `Lock`, `PmdFault` or
`PudFault`, `Insert`, `Unlock`. The unit is a base page; `BlockPages` of them make a block (1 GB or 2 MB, by the kernel
configuration `order`). `pt` holds the frame in the block entry of each address space. Two details of the
C code are kept because everything hangs on them: the frame is computed from the faulting page, not from the block
(`Frame`), and the hardware drops the low bits (`Translate`); and the kernel refuses a block that begins before its mapping.
Without `S_DAX` the fault is for a base page and `enzian_memory_fault` answers SIGBUS.
`mmap_lock` is modelled by `Quiet`: no mapping changes during a fault of its process.

Properties: `InsertOnce` (an entry found empty is still empty at the insertion), `TranslationIsLinear` (each accessible page
shows its own offset of the FPGA memory), `NeverKilled` (no SIGBUS inside a mapping), `FaultReturns`.

### PthreadBarrier, StartThreads, *LockstepRounds*

`PthreadBarrier` is a barrier as a record with an atomic arrival; leaving is a step of its own, so a fast thread
arrives again before a slow one has left. `StartThreads` is `start_threads` with its workers; the three worker functions
have the same control and differ in what they do to their own part of the area, so they are one here, and a measurement
is any value of `Cycles`. `Create` fails silently for a core that is not `online`; any set of cores may be.
`ticket`, `rounds` are the barrier round a party waits for and the rounds it has done. `LockstepRounds` knows neither barrier nor
joins: nobody begins a round before everybody has finished the one before, and the result is reported after the last; if a
thread is missing (`complete` is false) nothing begins and nothing is reported.

Properties: `LaunchedTogether` ("Barrier to launch threads simultaneously"), `NobodyLeftBehind` (no thread at a destroyed
barrier), `ResultIsAnAverage`, `ImplementsRounds` (with the liveness of `LockstepRounds`: a call returns if all its threads exist).

### CoreToCore

`do_c2c_test`, `thread_c2c_1` and `thread_c2c_2`, or the FPGA in its place, over store buffers with one slot for each line
that drain in any order. `Init` allows any content of the lines, and a second call finds that of the first. Either `pthread_create`
may fail without being noticed (`Call`, `CreateSecond`); the thread is then missing and the barrier waits for it for ever.
`EveryTripIsReal` says that a timed trip went through the other side; its one exception (the FPGA copying a leftover of
an interrupted test during the first trip) is stated in it. `EchoOutlastsTheTest` says that the second thread does not stop on a
stale 0; `JoinsOnlyCreated` that `main` never joins a thread that does not exist, which it is kept from by the count of the barrier
and by nothing else; `TestReturns` that every test whose threads exist ends.

### LatencyTest, MbEnzian, MCMbEnzian

`MbEnzian` is `main` of `mb_enzian.c` from the parsed options to its end: the L2 divided among the threads (`L2Share`), the first
touches, and the tests in their order with their loops over sizes and kinds. `phase` is the test, `turn` the turn of its
loops. The latency tests run in full: `LatencyTest` holds their actions (the pointer fill, the chase, the sequential
read, five passes, the endless variant), which all use the one area `line`. A call of `start_threads` or `do_c2c_test` is one
step, with what it writes, which gigabytes it accesses and whether it comes back; how it works inside is the
matter of `StartThreads` and `CoreToCore`. A size of 2^26 bytes is a chase of `2^MaxExp` lines in the model and the other
sizes of latency tests end there; sizes of throughput tests, cores and gigabytes are those of the code.

`EveryLineOnce`: each pass of a latency test reads each line of its size exactly once (the period of `13*o + 7` modulo a power
of two), whatever the tests before it left in the area. `NothingDisturbs`: no timed loop is the first to
access a gigabyte, so that no page fault is timed, and `main` runs on `first_cpu` when it reads the clock, whichever test bound it
before. `SelectedTestsRun`: with cores that exist every test that was asked for comes to its end.
Cores that do not exist, `-b`, which changes the cores of all later tests, and `-f` above `-l` are among the options: with a core that
does not exist a call hangs or an assertion ends the program, and the division by the number of threads may trap (`SetUpFails`).

### L2Control

`mem.c` over a model of store buffer, L2 cache and FPGA memory, with the `ioctl` of `enzian_memory.c`; each command does what
its comment names, atomically, on any line and at any time. The content of a line is the number of stores that made it,
so "older" is "smaller". Command 3 stores a tag; it is modelled as the invalidation that storing an invalid tag is.
`WrittenIsInMemory`: when "Written" is printed the word is in the FPGA memory, unless somebody
invalidated the line without a write-back while it was only in the cache (`lost`). `NoOldWordIsRead`: a tool that starts
after "Written" never reads an older word, apart from one that was lost in this way. That the invalidations without a write-back are there for
every process is a hazard of the driver that these two do not remove; they say that nothing else loses a word.

### FpgaArena

The arena of `redis_fpga.c` in several processes: `Setup` with its touch loop, `fpga_alloc` as `Aligned`, `Fits` and the three
outcomes (`Read`, `OutOfSpace`, `ReadToHeap`), a short `fread`, and `Parsed`. `owner` is who last wrote each byte of the
FPGA memory that all mappings show. `BlocksAreDisjoint` and `TextStaysInItsBlock` (the NUL included) concern one process;
`TextIsIntact` is about two, and is refuted.

### RedisLoad, MCRedisLoad

`redisConnect` and `set_persistence` come first, one `CONFIG SET` after the other, on a server that its own file or an earlier run
has set in any way. `ModeIsAsPrinted`: from then on the server persists as the mode printed says, unless a command failed.

`load_dataset_generic` and the queries, one Redis command at a time; the definitions of the state machine are named `Redis...`, since one module
proves about it and `FpgaArena` together. Files are sequences of lines of fields, a field is a
number, `Word` or `Empty`; `Tokens` drops empty fields as `strtok_r` does; the first row's missing tokens are
uninitialised in the code and any text, or a crash, here (`FieldText`, `TokenCrash`). Any command may fail on its own, by an error reply or because the
connection is broken (then all that follow fail too, which is one choice among the others); the client looks at no reply
of the load, and leaves out a row for which the projection or the aggregation gets no array. What failed is kept
in three history variables: `refused` (the `DEL`, columns of the schema, rows of which an `HSET` failed), `answered` (the rows each query was given)
and `missed` (the rows a select found empty). `main` loads one file. The CSV text itself, the limit of 63 characters of a name and the timing are left out.

The properties compare the queries and the server with the file, for well-formed files, and say that the damage of a failed command stays
where it is. `SumIsOfTheFile`: the aggregation prints the sum of the file's int columns over the rows it was given, and the projection
divides such a sum by the number of just those rows, unless one of them has lost a field. `EveryRowIsFound`: each counted row that lost no field is there
with all columns, and no select misses one. `SchemaIsOfTheFile`: the stored schema has the file's columns and types but for those
that were refused, and nothing of an earlier one unless the `DEL` was.

## Runs

| run | bounds | what it shows |
|---|---|---|
| `fpi` | 2 readers, 2 cores, 3 interrupts, 1 signal | all properties of the driver |
| `fpi_signal` (violation) | 1 reader, 1 core | a signal returns 0 from `read`, and `receive_fpi` prints "FPI received" |
| `fpgamem` | 2 processes, 3 threads, 2 blocks of 2 pages | all properties with block-aligned mappings |
| `fpgamem_unaligned` (violation) | a mapping from page 1 | SIGBUS for a mapping placed by the kernel, as in `redis_fpga.c` |
| `start_threads` | 3 workers on cores 1 to 3, any of them offline, 2 calls, 2 durations | all properties of a call; without a thread nothing is measured |
| `c2c` | values 6 to 0, 2 calls, threads or FPGA, any leftovers, any thread missing | all properties |
| `mb` | all sets of tests with few, all, missing or swapped cores of 48; latency tests of 8 to 64 lines | order and effects of all tests |
| `modules` | 2 drivers, 2 programs, 2 cores, 3 device numbers | every interleaving of insertions, removals, opens and hotplug |
| `l2` | 3 tools, 2 lines | any order of stores, evictions and commands |
| `arena` | 2 processes, 12 bytes, alignment 4, sizes 2 to 4, 3 reads | all properties, with an arena that fills up |
| `arena_shared` (violation) | 2 processes, 1 read each | one process overwrites the text another parses |
| `redis_load` | 8 files, at most 2 of up to 3 columns, 6 settings of the server, any commands failing | well-formed and other files, empty and used server, both modes |

Why the bounds are enough. `fpi`: two readers and two cores give every pair (two readers for one interrupt, two handlers
for one reader), and three interrupts let one come before, during and after a read. `fpgamem`: two threads of
one process race for one entry and a third, of another process, for the mutex; blocks of two pages have a first page and
another one; mappings begin at different blocks and offsets. `start_threads`: with three workers one can
be behind, one ahead and one in between; the second call finds what the first one left. `c2c`: a value below 1000 only
removes repetitions; six trips have the leftovers, the reset value 1, and the 0. `mb`: the smallest latency test has one
unrolled body, and all others are larger than the one before; the parts of cores 0 to 47 end at 1.5 GB, so the second gigabyte is used
(the third is touched and left alone), and the core-to-core test with the FPGA has a gigabyte of its own. `modules`: three device
numbers let one module be inserted twice while the other comes and goes, and one program holds a stale number while the
other is inside a driver; a walk over two cores can lose either one. `l2`: two writers of one line and a reader. `arena`: sizes below, at and
just above what the alignment leaves. The bounds (`MaxRaised`, `MaxSignals`, `MaxCalls`, `MaxReads`, `MaxExp`, `Majors`) are constants
used in guards; the theorems below hold for all their values (`MaxExp` up to 19, the largest test of the code).

Deadlock is checked in `fpgamem` and `modules`, where somebody can always do something. It is off elsewhere because the systems do stop: programs
end, and interrupts and calls are bounded.

Fairness. `EnzianFpi`: a runnable reader and a core with an interrupt go on (the scheduler, the interrupt flow); nobody has to read,
raise or signal. `EnzianMemory`: a fault handler runs on, and a thread waiting for the mutex gets it (strong fairness of `Lock`, because
the kernel hands a contended mutex to its oldest waiter); no thread has to touch anything. `StartThreads` and
`CoreToCore`: each thread that exists has a core of its own, stores leave the store buffer, and the FPGA copies. Calls are never forced. `MbEnzian` is one program that
runs on as long as it can (`WF_vars(Next)`); a call that does not come back is a state without a step, so that threads do return is not
assumed here but shown in `StartThreads` and `CoreToCore`.
The other modules have safety properties only, and no fairness.

## Proofs

| theorem | for all | argument |
|---|---|---|
| `EnzianFpiProofs!TypeCorrect` | readers, cores, bounds | `TypeOK` is inductive |
| `EnzianFpiProofs!NoLostWakeup` | same | `NoMissedWakeup` alone is not inductive, since a wake-up reaches a reader only through the queue; `QueueInv` adds that a reader that is not runnable is on the queue, between `Prepare` and `Finish` |
| `EnzianFpiProofs!NoDoubleReturn` | same | `CreditInv`: when the flag is set, or a reader has seen it set and not yet returned, more interrupts were handled than that reader has returned for |
| `EnzianFpiProofs!EventRefinement` | same | each step maps to a step or a stutter of `FpiEvent`, with the invariant that a reader leaving by `recheckInt` has its signal |
| `EnzianMemoryProofs!TypeCorrect` | processes, threads, block size, mappings | `IInv`: type, mutual exclusion of the critical section, and each faulting thread inside a mapping that cannot change |
| `EnzianMemoryProofs!NoDoubleInsert` | same | from `IInv`; mutual exclusion is why an entry found empty stays empty, and `Quiet` why `munmap` does not interfere |
| `EnzianMemoryProofs!NoSigbus` | mappings of whole blocks | `DaxInv`: `S_DAX` is set before the first mapping; a block-aligned start is never behind the block of one of its pages |
| `EnzianMemoryProofs!LinearTranslation` | mappings of whole blocks | `EntryInv`: each entry is the frame of some page of the block; shifts by whole blocks commute with taking the block (`ShiftByBlocks`) |
| `L2ControlProofs!TypeCorrect` | tools, lines | from `IInv` below |
| `L2ControlProofs!WordIsInMemory` | same | `IInv`: the cache is between memory and stores (`VersionInv`), and what a tool stored is in memory, lost, or dirty in the cache (`StoreInv`); after the write-back the third is impossible |
| `L2ControlProofs!NoOldWord` | same | `PrintInv`: what was printed is in the FPGA memory, and by `VersionInv` the cache is never behind it |
| `DriverModulesProofs!TypeCorrect` | cores, device numbers, programs | with `NumberInv` (a module has a number exactly while it is there, and its own region) and `NodeInv` (a node only while there is a number) |
| `DriverModulesProofs!NobodyInside` | same | inductive with `NumberInv`: a driver in use has a number, so neither its insertion nor, by the use count, its removal can begin |
| `DriverModulesProofs!CrashOnlyInARace` | same | `CalmInv`: a calm program's driver is between insertion and removal and still has the number that was found; numbers are distinct, so that number leads to no other driver; `QueueInv`: there the queue is initialised |
| `DriverModulesProofs!WalksReach` | same | `WalkInv`: all steady cores up to the cursor are done; they are online, so the lowest core ahead is never beyond one of them |
| `StartThreadsProofs!TypeCorrect` | cores (any offline), times, calls | from `IInv` below, which bounds the count of the barrier |
| `StartThreadsProofs!Together` | same | `CountInv`: the barrier has counted exactly those that wait in its present round, so the last arrival finds all others there (`Arrival`, by cardinality); `PhaseInv`: how many rounds a party has finished follows from where it is and the barrier's round |
| `StartThreadsProofs!NobodyLeft` | same | `LoopInv`: those before `index` are joined |
| `StartThreadsProofs!Average` | same | `SumInv`: every bound of the best times of the joined workers, times their number, bounds their sum; no induction over the workers is needed since the loop is the induction |
| `StartThreadsProofs!RoundsRefinement` | same | one lemma for each step: `Call` maps to `Start`, `Pass` to `Begin`, `Work` to `End`, `Return` to `Report`, all others to a stutter; a worker gets past the barrier only if all were created, so all cores are online |
| `RedisFpgaProofs!TypeCorrect` | processes, sizes, alignments, files | from `IInv` (arena) below; rounding up to the alignment is the lemma `RoundedUp` |
| `RedisFpgaProofs!DisjointBlocks` | same | `BlockInv`: all blocks lie between the base and `gArenaCur`, so a new one is behind them all |
| `RedisFpgaProofs!TextInBlock` | same | `TextInv`: a text begins at a block that was allocated for it and its NUL |
| `RedisFpgaProofs!AloneTextIsIntact` | same, one process | a text once read is in memory, and by `DisjointBlocks` nothing the same process does later reaches it; `arena_shared` shows that the hypothesis is needed |
| `RedisFpgaProofs!RedisTypeCorrect` | files, leftovers on the server, `MAX_COLS`, commands that fail | `PlaceInv`: how line, row, column and count relate in each place of the program, such as that a row is numbered below its line |
| `RedisFpgaProofs!ModeCorrect` | same, settings before | `ModeInv`: what the commands sent so far have set |
| `RedisFpgaProofs!SchemaCorrect` | same | `SchemaInv`: unless the `DEL` failed, the stored schema is that of the columns before `col` that were not refused; for a well-formed file the parsed schema is the file's (`SchemaParsed`, with `strtok_r` as a scan that drops nothing) |
| `RedisFpgaProofs!RowsFound` | same | `RowsInv`: row numbers are those of `RowOf` (data lines counted up to a line), each earlier line whose row lost no field has its fields in a row of its own, and the present one has those before `col`; `QueryInv` is what is left of it in the queries |
| `RedisFpgaProofs!SumCorrect` | same | `SumInv`: a query has added up, and counted, those rows before `row` that it was given; over all rows that is the file's sum of them (`SumOfRows`, an induction over the lines in which a line's row, if it lost no field, has the line's sum) |
| `MbEnzianProofs!TypeCorrect` | command lines, up to 96 cores, latency tests of up to 2^19 lines | from `IInv` below |
| `MbEnzianProofs!PassesAreComplete` | same | the period of `13*o + 7` is doubled from 2^e to 2^(e+1) lines (`PeriodDoubles`: after N steps a number has moved by an odd multiple of N, so the next N numbers are the other remainders); `FillInv`: the lines the generator has run through point to their followers; `ChaseInv`: the chase reads them in that order |
| `MbEnzianProofs!NoTestIsDisturbed` | same | `TouchInv`: from the set-up on all blocks that the parts of the machine's cores lie in are touched (`PartsOfWorkers`); `RunInv`: a latency test in progress runs on `first_cpu` |
| `CoreToCoreProofs!TypeCorrect` | first value from 3 on, number of tests, a core or the FPGA | from `IInv` below |
| `CoreToCoreProofs!EchoOutlasts` | same | `BarrierInv`: the second thread runs only when the reset is in memory (`ResetInv`), so a 0 it loads is the last value of this test |
| `CoreToCoreProofs!JoinsOnlyThreads` | same | `BarrierInv`: the barrier has counted exactly those that wait at it, so it opens only when all its parties were created |
| `CoreToCoreProofs!TripsAreReal` | same | `FlowInv`: the value of a turn moves from the first line to `v` and on to the second, and what is still underway from before (`Formers`) is never equal to it; `FpgaInv` bounds what the FPGA, which nothing stops, still carries after its first trip to a 1 or a `Top` |

The assumptions are the named `ASSUME`s of the modules: bounds are natural numbers, each thread has an address space, the FPGA memory
begins at a block boundary, layouts are made of page numbers, `Nothing` is no page, thread, layout or device number, there is at least one core, and the core-to-core test starts at 3 or more (with 2, the
1 that the FPGA may still carry would be taken for the echo of the second trip; the code has 1000). In `MbEnzian` the machine has at most 96 cores,
so that the parts of their workers (32 MB each) are in the three gigabytes that the set-up touches (Enzian has 48), a latency test
has at most 2^19 lines (the 2^26 bytes of the code) and at least those of one unrolled body, and core numbers are natural numbers. In `RedisLoad` the files are lines of at least one field, data fields are numbers, words or
empty, and each value on the server is a number or a word. TLC evaluates them in each run. `WholeBlocks` is a hypothesis of `NoSigbus` and `LinearTranslation` only: `fpgamem_unaligned` shows that it is needed.

Induction over numbers is proved where it is needed from the well-foundedness of `<` (`SetInduction`, for a set of numbers); the recursive
functions `Tokens` and `Sum` are shown to exist and to be unique before anything else is said of them (`ScanExists`, `SumExists`,
`SumUnique`). Finding the inductive invariant of `MbEnzian` showed that the model had let a test begin although the affinity of `main`
could not be set; the assertion that ends the program now comes first (`Pinned`).

Only model-checked: liveness (`FlagIsAnswered`, `FaultReturns`, `TestReturns`, `SelectedTestsRun`, the fairness part of
`ImplementsEvent` and `ImplementsRounds`), which the prover does not handle. Every other invariant and action property of a passing run is
stated by a theorem. The findings that rest on a violation are runs, not theorems.

## Assumptions about what is not in `src/`

* `wait_event_interruptible`, `wake_up_interruptible`, the mutex, `mmap_lock` and `vmf_insert_pfn_pud/pmd` do what their kernel
  sources say; the steps are those named in the comments of the modules.
* A mapping is neither split nor copied at `fork`, and a process has one mapping of the device at a time.
* An L2 command is atomic with respect to other accesses of its line, and does what its comment in the driver says.
* Every core has a store buffer that keeps one value for each line; loads of other cores see the line only after the drain.
* The FPGA's side of the core-to-core test copies the first line to the second for ever.
* A device number is free if no region has it, the highest one is given out; `cdev.owner` counts the opens of a module, and `rmmod` waits for
  none of them but fails while there is one; an SGI is disabled at a core that comes online, and its bit in the kernel's mask of
  a per-CPU interrupt stays.
* Each Redis command is atomic: it is carried out or fails as a whole, and a failed one changes nothing.
* L2 command 3 is used with an invalid tag, as an invalidation.
* `NothingDisturbs` counts gigabytes, the entries of the kernel configuration with 1 GB pages that `src/README.md` describes; with
  2 MB entries (`pmd` in `EnzianMemory`) most first accesses would be page faults within timed loops.

## Findings

* A signal makes `enzian_fpi_read` return 0 and clear the flag (`fpi_signal`).
* A mapping that the kernel places is not aligned to a block, and touching it is a SIGBUS (`fpgamem_unaligned`).
* `start_threads` waits for ever when a thread could not be created (run `start_threads`, where a missing core is the excepted case); so does
  `do_c2c_test` (run `c2c`, likewise).
* "Loaded %d rows" counts rows that the server has refused (`redis_load`, where such rows are excepted).
* Two `redis_fpga` processes overwrite each other's text (`arena_shared`).
* The drivers leak their device number at each removal, leave a cdev behind, and create the device before the wait queue.
* `irq_create_fwspec_mapping` fails with 0, which the driver's test takes for success.
* `-f 1` without `-l` divides by zero in `mb_enzian`; `-b` changes the cores of the tests after it.
* "active the interrupt on all cores": on those that are online at the insertion.
* Comments that differ from the code: 1001 trips and not 1000; an address that is not "the same as the physical"; the default
  device name.

## Not modelled

* The TSC calibration, the base loops and the arithmetic of latencies and rates in `mb_enzian`: no module has a clock. So the
  unsigned difference `avg - base` (lines 359 and 420) is a hazard without a property.
* The instructions inside a timed loop of a worker, such as the choice of what to prefetch by the size of the area (lines 240 to 256 of
  `mb_enzian.c`): they change no state.
* `print_memory` and all other printing: no state.
* The register that `enzian_fpi_ioctl` writes, and what the FPGA does with it.
* An insertion that finds no free device number (after 149 of them), in which the drivers go on with an uninitialised `dev`.
* `redis_loader.c`, an earlier version of `redis_fpga.c` that does not compile (line 167); the parts it shares with
  `redis_fpga.c` are modelled there.
* `90-fpgamem.rules` and `dd.txt`: no behaviour.

## Plan

1. A refinement of an abstract load by `RedisLoad` (the server's rows as a function of the file), from `RowsInv`.
2. `EnzianMemory` with several mappings in a process, and `EnzianFpi` composed with `DriverModules` (an interrupt during the removal).
