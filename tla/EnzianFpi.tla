------------------------------ MODULE EnzianFpi ------------------------------
(***************************************************************************)
(* The running FPI driver, enzian_fpi.c: readers blocked in                *)
(* enzian_fpi_read, and fpi_handler on every core that takes SGI 8.  They  *)
(* share wq_flag and the wait queue wq and hold no lock of the driver.     *)
(*                                                                         *)
(* wait_event_interruptible is the kernel's; its steps are those of        *)
(* ___wait_event in include/linux/wait.h: test, then (enqueue, retest,     *)
(* schedule) until the condition holds or a signal is pending.  Stores are *)
(* seen in program order: the wait queue's spin lock and set_current_state *)
(* order them against the test, as smp_wmb() before the wake-up asks.      *)
(***************************************************************************)
EXTENDS Integers, FiniteSets

CONSTANTS
  Readers,      \* threads that read /dev/fpi
  Cpus,         \* cores with the interrupt enabled
  MaxRaised,    \* bound: how often the FPGA raises SGI 8
  MaxSignals    \* bound: how many signals are sent to readers

ASSUME BoundsAssumption == MaxRaised \in Nat /\ MaxSignals \in Nat

VARIABLES
  wq_flag,      \* the driver's flag
  wq,           \* readers on the wait queue
  state,        \* task state of each reader
  rpc,          \* where each reader is
  sig,          \* signal pending for each reader
  sgi,          \* SGI 8 pending at each core: one bit, as in the GIC
  hpc,          \* where fpi_handler is on each core
  raised,       \* number of SGIs the FPGA raised
  signals,      \* number of signals sent
  posts,        \* history: interrupts handled
  reads,        \* history: reads that returned, for each reader
  interrupted   \* history: those that a signal and not the flag released

wait == <<wq, state>>
reader == <<rpc, sig>>
irq == <<sgi, hpc, raised>>
history == <<posts, reads, interrupted>>
vars == <<wq_flag, wait, reader, irq, signals, history>>

(***************************************************************************)
(* "recheckInt" and "clearInt" are "recheck" and "clear" of a reader for   *)
(* which prepare_to_wait_event has returned -ERESTARTSYS.                  *)
(***************************************************************************)
InWait == {"test", "prepare", "recheck", "recheckInt", "sleep"}
Leaving == {"finish", "clear", "clearInt"}
RPC == {"user"} \union InWait \union Leaving

Init ==
  /\ wq_flag = 0
  /\ wq = {}
  /\ state = [r \in Readers |-> "RUNNING"]
  /\ rpc = [r \in Readers |-> "user"]
  /\ sig = [r \in Readers |-> FALSE]
  /\ sgi = [c \in Cpus |-> FALSE]
  /\ hpc = [c \in Cpus |-> "idle"]
  /\ raised = 0
  /\ signals = 0
  /\ posts = 0
  /\ reads = [r \in Readers |-> 0]
  /\ interrupted = [r \in Readers |-> 0]

-----------------------------------------------------------------------------
(* enzian_fpi_read *)

Goto(r, from, to) ==
  /\ rpc[r] = from
  /\ rpc' = [rpc EXCEPT ![r] = to]

(* read(2) enters the driver. *)
Read(r) ==
  /\ Goto(r, "user", "test")
  /\ UNCHANGED <<wq_flag, wait, sig, irq, signals, history>>

(* wait_event's first look at the condition, before any queueing. *)
Test(r) ==
  /\ Goto(r, "test", IF wq_flag # 0 THEN "clear" ELSE "prepare")
  /\ UNCHANGED <<wq_flag, wait, sig, irq, signals, history>>

(* prepare_to_wait_event, under the queue's lock. *)
Prepare(r) ==
  /\ \/ /\ sig[r]
        /\ Goto(r, "prepare", "recheckInt")
        /\ wq' = wq \ {r}
        /\ UNCHANGED state
     \/ /\ ~sig[r]
        /\ Goto(r, "prepare", "recheck")
        /\ wq' = wq \union {r}
        /\ state' = [state EXCEPT ![r] = "INTERRUPTIBLE"]
  /\ UNCHANGED <<wq_flag, sig, irq, signals, history>>

(* Mutant: the condition is not looked at again once queued. *)
RecheckBlindly(r) ==
  /\ Goto(r, "recheck", "sleep")
  /\ UNCHANGED <<wq_flag, wait, sig, irq, signals, history>>

(* The condition again, now that a wake-up cannot be missed. *)
Recheck(r) ==
  /\ \/ Goto(r, "recheck", IF wq_flag # 0 THEN "finish" ELSE "sleep")
     \/ Goto(r, "recheckInt", IF wq_flag # 0 THEN "finish" ELSE "clearInt")
  /\ UNCHANGED <<wq_flag, wait, sig, irq, signals, history>>

(* schedule() comes back once somebody has made the task runnable. *)
Scheduled(r) ==
  /\ state[r] = "RUNNING"
  /\ Goto(r, "sleep", "prepare")
  /\ UNCHANGED <<wq_flag, wait, sig, irq, signals, history>>

Finish(r) ==
  /\ Goto(r, "finish", "clear")
  /\ wq' = wq \ {r}
  /\ state' = [state EXCEPT ![r] = "RUNNING"]
  /\ UNCHANGED <<wq_flag, sig, irq, signals, history>>

(* What the return to user mode does besides: the signal is delivered. *)
ToUser(r) ==
  /\ reads' = [reads EXCEPT ![r] = @ + 1]
  /\ sig' = [sig EXCEPT ![r] = FALSE]
  /\ \/ /\ Goto(r, "clear", "user")
        /\ UNCHANGED interrupted
     \/ /\ Goto(r, "clearInt", "user")
        /\ interrupted' = [interrupted EXCEPT ![r] = @ + 1]
  /\ UNCHANGED <<wait, irq, signals, posts>>

(* Mutant: read returns and leaves the flag set. *)
ReturnWithoutClear(r) == ToUser(r) /\ UNCHANGED wq_flag

(***************************************************************************)
(* wq_flag = 0; return 0.  The value of wait_event_interruptible is not    *)
(* looked at: a signal takes the same way out as an interrupt.             *)
(***************************************************************************)
Return(r) == ToUser(r) /\ wq_flag' = 0

-----------------------------------------------------------------------------
(* fpi_handler *)

Handler(c, from, to) ==
  /\ hpc[c] = from
  /\ hpc' = [hpc EXCEPT ![c] = to]

(* The FPGA raises SGI 8 at a core; a second one before the first is taken *)
(* finds the bit set.                                                      *)
Raise(c) ==
  /\ raised < MaxRaised
  /\ raised' = raised + 1
  /\ sgi' = [sgi EXCEPT ![c] = TRUE]
  /\ UNCHANGED <<wq_flag, wait, reader, hpc, signals, history>>

(* The core takes the interrupt; the handler does not nest on a core. *)
Take(c) ==
  /\ sgi[c]
  /\ Handler(c, "idle", "set")
  /\ sgi' = [sgi EXCEPT ![c] = FALSE]
  /\ UNCHANGED <<wq_flag, wait, reader, raised, signals, history>>

(* Mutant: interrupts are counted in the flag. *)
CountInFlag(c) ==
  /\ Handler(c, "set", "wake")
  /\ wq_flag' = wq_flag + 1
  /\ posts' = posts + 1
  /\ UNCHANGED <<wait, reader, sgi, raised, signals, reads, interrupted>>

SetFlag(c) ==
  /\ Handler(c, "set", "wake")
  /\ wq_flag' = 1
  /\ posts' = posts + 1
  /\ UNCHANGED <<wait, reader, sgi, raised, signals, reads, interrupted>>

(* Mutant: the flag is set and nobody is woken. *)
WakeNobody(c) ==
  /\ Handler(c, "wake", "idle")
  /\ UNCHANGED <<wq_flag, wait, reader, sgi, raised, signals, history>>

Sleepers == {r \in wq : state[r] = "INTERRUPTIBLE"}

(* wake_up_interruptible: the entries are not exclusive, so it makes every *)
(* sleeper runnable, and autoremove_wake_function takes it off the queue.  *)
WakeUp(c) ==
  /\ Handler(c, "wake", "idle")
  /\ wq' = wq \ Sleepers
  /\ state' = [r \in Readers |-> IF r \in Sleepers THEN "RUNNING" ELSE state[r]]
  /\ UNCHANGED <<wq_flag, reader, sgi, raised, signals, history>>

-----------------------------------------------------------------------------
(* A signal for a reader inside read; it makes a sleeper runnable, which   *)
(* stays on the queue until it runs.                                       *)
Signal(r) ==
  /\ signals < MaxSignals
  /\ rpc[r] # "user"
  /\ ~sig[r]
  /\ signals' = signals + 1
  /\ sig' = [sig EXCEPT ![r] = TRUE]
  /\ state' = [state EXCEPT ![r] = "RUNNING"]
  /\ UNCHANGED <<wq_flag, wq, rpc, irq, history>>

InRead(r) ==
  Test(r) \/ Prepare(r) \/ Recheck(r) \/ Scheduled(r) \/ Finish(r) \/ Return(r)

InHandler(c) == Take(c) \/ SetFlag(c) \/ WakeUp(c)

Next ==
  \/ \E r \in Readers : Read(r) \/ InRead(r) \/ Signal(r)
  \/ \E c \in Cpus : Raise(c) \/ InHandler(c)

(***************************************************************************)
(* A runnable thread gets a core, and a core takes a pending interrupt and *)
(* runs its handler to the end.  Nobody has to read, raise or signal.      *)
(***************************************************************************)
Fairness ==
  /\ \A r \in Readers : WF_vars(InRead(r))
  /\ \A c \in Cpus : WF_vars(InHandler(c))

Spec == Init /\ [][Next]_vars /\ Fairness

-----------------------------------------------------------------------------
(* Every variable has its type: in particular wq_flag, an int written by   *)
(* every core and every reader without a lock, is never more than 1.       *)
TypeOK ==
  /\ wq_flag \in {0, 1}
  /\ wq \in SUBSET Readers
  /\ state \in [Readers -> {"RUNNING", "INTERRUPTIBLE"}]
  /\ rpc \in [Readers -> RPC]
  /\ sig \in [Readers -> BOOLEAN]
  /\ sgi \in [Cpus -> BOOLEAN]
  /\ hpc \in [Cpus -> {"idle", "set", "wake"}]
  /\ raised \in 0 .. MaxRaised
  /\ signals \in 0 .. MaxSignals
  /\ posts \in Nat
  /\ reads \in [Readers -> Nat]
  /\ interrupted \in [Readers -> Nat]

Blocked(r) == rpc[r] = "sleep" /\ state[r] = "INTERRUPTIBLE"

(***************************************************************************)
(* No lost wake-up: when a reader is blocked although the flag is set,     *)
(* some handler is still on its way to wake_up_interruptible.              *)
(***************************************************************************)
NoMissedWakeup ==
  \A r \in Readers :
    Blocked(r) /\ wq_flag = 1 => \E c \in Cpus : hpc[c] = "wake"

(***************************************************************************)
(* Apart from the reads that a signal ended, a reader returns at most once *)
(* for each interrupt handled, whatever the other readers clear meanwhile. *)
(***************************************************************************)
OneReturnPerInterrupt ==
  \A r \in Readers : reads[r] - interrupted[r] =< posts

(***************************************************************************)
(* receive_fpi.c waits for an interrupt: its read never returns more often *)
(* than an interrupt was handled.                                          *)
(***************************************************************************)
ReturnsOnlyOnInterrupt == \A r \in Readers : reads[r] =< posts

(***************************************************************************)
(* The flag does not stay set while a read is in progress: that read, or   *)
(* another one, sees it and returns.                                       *)
(***************************************************************************)
FlagIsAnswered ==
  (wq_flag = 1 /\ \E r \in Readers : rpc[r] # "user") ~> (wq_flag = 0)

(***************************************************************************)
(* The wait queue, the task states and the handler implement FpiEvent: a   *)
(* read leaves only for a flag it saw or a signal it has, and does leave.  *)
(***************************************************************************)
Event == INSTANCE FpiEvent WITH
  pending <- wq_flag = 1,
  signalled <- {r \in Readers : sig[r]},
  phase <- [r \in Readers |->
             IF rpc[r] = "user" THEN "idle"
             ELSE IF rpc[r] \in InWait THEN "waiting" ELSE "leaving"]

EventSafety == Event!Safety

ImplementsEvent == Event!Spec
=============================================================================
