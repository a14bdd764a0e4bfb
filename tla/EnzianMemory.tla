---------------------------- MODULE EnzianMemory ----------------------------
(***************************************************************************)
(* The FPGA memory driver, enzian_memory.c: processes open /dev/fpgamem,   *)
(* map a range of FPGA memory and touch it; the page faults of all their   *)
(* threads run enzian_memory_huge_fault under one mutex, which installs a  *)
(* block entry (1 GB, or 2 MB in a kernel without huge PUDs).              *)
(*                                                                         *)
(* The unit of addresses is the base page.  The driver computes the frame  *)
(* of the faulting page (vmf->pgoff is not rounded down to a block), and   *)
(* the hardware ignores the low bits of the frame in a block entry.        *)
(***************************************************************************)
EXTENDS Integers

CONSTANTS
  Mms,          \* address spaces, one for each process
  Threads,
  MmOf,         \* the address space of each thread
  BlockPages,   \* base pages that one block entry maps
  Blocks,       \* the block-sized slots of a virtual address space
  FpgaBase,     \* FPGA_MEMORY_ADDRESS, in base pages
  Layouts,      \* the [start, len, pgoff] that mmap may be called with
  Orders,       \* the block entries the kernel may support: "PUD", "PMD"
  Nothing       \* no entry, no mapping, no holder

BlockOf(v) == v \div BlockPages
PagesOf(l) == l.start .. (l.start + l.len - 1)

ASSUME ThreadAssumption == MmOf \in [Threads -> Mms]
ASSUME BlockAssumption ==
  /\ BlockPages \in Nat \ {0}
  /\ FpgaBase \in Nat
  /\ FpgaBase % BlockPages = 0
ASSUME LayoutAssumption ==
  \A l \in Layouts :
    /\ l.start \in Nat /\ l.len \in Nat /\ l.pgoff \in Nat
    /\ \A v \in PagesOf(l) : BlockOf(v) \in Blocks
ASSUME NothingAssumption ==
  Nothing \notin Nat /\ Nothing \notin Threads /\ Nothing \notin Layouts

VARIABLES
  order,    \* the kernel configuration, fixed from the start
  dax,      \* S_DAX in the device inode's i_flags
  opened,   \* address spaces whose process holds the device open
  vma,      \* the mapping of each address space
  pt,       \* block entries: a frame number for an address space and a slot
  mutex,    \* holder of enzian_memory_mmap_mutex
  pc,       \* where each thread is
  addr      \* the page each thread faulted on, 0 once the fault is over

vars == <<order, dax, opened, vma, pt, mutex, pc, addr>>

InFault == {"fault", "locked", "insert", "unlock", "unlockBus"}
PCs == {"user", "killed"} \union InFault

Init ==
  /\ order \in Orders
  /\ dax = FALSE
  /\ opened = {}
  /\ vma = [m \in Mms |-> Nothing]
  /\ pt = [e \in Mms \X Blocks |-> Nothing]
  /\ mutex = Nothing
  /\ pc = [t \in Threads |-> "user"]
  /\ addr = [t \in Threads |-> 0]

-----------------------------------------------------------------------------
(* System calls *)

(* Some thread of m runs user code and none is in a page fault: a fault    *)
(* holds mmap_lock for reading, mmap and munmap take it for writing.       *)
Quiet(m) ==
  /\ \E t \in Threads : MmOf[t] = m /\ pc[t] = "user"
  /\ \A t \in Threads : MmOf[t] = m => pc[t] \notin InFault

(* Mutant: the inode's flags are left alone. *)
OpenWithoutDax(m) ==
  /\ Quiet(m)
  /\ opened' = opened \union {m}
  /\ UNCHANGED <<order, dax, vma, pt, mutex, pc, addr>>

Open(m) ==
  /\ Quiet(m)
  /\ opened' = opened \union {m}
  /\ dax' = TRUE
  /\ UNCHANGED <<order, vma, pt, mutex, pc, addr>>

(* The mapping keeps working after the close, as in redis_fpga.c. *)
Release(m) ==
  /\ Quiet(m)
  /\ opened' = opened \ {m}
  /\ UNCHANGED <<order, dax, vma, pt, mutex, pc, addr>>

(* Any range and any offset: the driver checks neither. *)
Mmap(m, l) ==
  /\ Quiet(m)
  /\ m \in opened
  /\ vma[m] = Nothing
  /\ vma' = [vma EXCEPT ![m] = l]
  /\ UNCHANGED <<order, dax, opened, pt, mutex, pc, addr>>

Munmap(m) ==
  /\ Quiet(m)
  /\ vma[m] # Nothing
  /\ vma' = [vma EXCEPT ![m] = Nothing]
  /\ pt' = [e \in Mms \X Blocks |-> IF e[1] = m THEN Nothing ELSE pt[e]]
  /\ UNCHANGED <<order, dax, opened, mutex, pc, addr>>

-----------------------------------------------------------------------------
(* Page faults *)

Vma(t) == vma[MmOf[t]]
Slot(t) == <<MmOf[t], BlockOf(addr[t])>>

(* The offset of page v in the device: linear_page_index, vmf->pgoff. *)
Pgoff(l, v) == l.pgoff + (v - l.start)

(* Mutant: the frame is counted from the start of main memory. *)
FrameInMainMemory(l, v) == Pgoff(l, v)

(* Mutant: the offset given to mmap is ignored. *)
FrameWithoutOffset(l, v) == FpgaBase + (v - l.start)

(* phys_to_pfn_t(FPGA_MEMORY_ADDRESS + (vmf->pgoff << PAGE_SHIFT)) *)
Frame(l, v) == FpgaBase + Pgoff(l, v)

(***************************************************************************)
(* A thread touches a page without an entry.  Without S_DAX the kernel     *)
(* asks for a base page, and enzian_memory_fault answers SIGBUS.           *)
(***************************************************************************)
Touch(t, v) ==
  /\ pc[t] = "user"
  /\ Vma(t) # Nothing
  /\ v \in PagesOf(Vma(t))
  /\ pt[<<MmOf[t], BlockOf(v)>>] = Nothing
  /\ addr' = [addr EXCEPT ![t] = v]
  /\ pc' = [pc EXCEPT ![t] = IF dax THEN "fault" ELSE "killed"]
  /\ UNCHANGED <<order, dax, opened, vma, pt, mutex>>

Goto(t, from, to) ==
  /\ pc[t] = from
  /\ pc' = [pc EXCEPT ![t] = to]

(* Mutant: the fault handler takes no mutex. *)
LockNothing(t) ==
  /\ Goto(t, "fault", "locked")
  /\ UNCHANGED <<order, dax, opened, vma, pt, mutex, addr>>

Lock(t) ==
  /\ mutex = Nothing
  /\ mutex' = t
  /\ Goto(t, "fault", "locked")
  /\ UNCHANGED <<order, dax, opened, vma, pt, addr>>

(* enzian_memory_pmd_fault inserts without a look at the entry. *)
PmdFault(t) ==
  /\ order = "PMD"
  /\ Goto(t, "locked", "insert")
  /\ UNCHANGED <<order, dax, opened, vma, pt, mutex, addr>>

(* enzian_memory_pud_fault: another thread may have been here first. *)
PudFault(t) ==
  /\ order = "PUD"
  /\ Goto(t, "locked", IF pt[Slot(t)] = Nothing THEN "insert" ELSE "unlock")
  /\ UNCHANGED <<order, dax, opened, vma, pt, mutex, addr>>

(***************************************************************************)
(* vmf_insert_pfn_pud and _pmd: SIGBUS when the block begins before the    *)
(* mapping; a valid entry is left as it is (with a warning if it differs). *)
(***************************************************************************)
Insert(t) ==
  /\ \/ /\ Goto(t, "insert", "unlockBus")
        /\ BlockOf(addr[t]) * BlockPages < Vma(t).start
        /\ UNCHANGED pt
     \/ /\ Goto(t, "insert", "unlock")
        /\ BlockOf(addr[t]) * BlockPages >= Vma(t).start
        /\ pt' = [pt EXCEPT ![Slot(t)] =
                    IF @ = Nothing THEN Frame(Vma(t), addr[t]) ELSE @]
  /\ UNCHANGED <<order, dax, opened, vma, mutex, addr>>

(* Mutant: the handler leaves with the mutex held. *)
LeaveLocked(t) ==
  /\ Goto(t, "unlock", "user") \/ Goto(t, "unlockBus", "killed")
  /\ addr' = [addr EXCEPT ![t] = 0]
  /\ UNCHANGED <<order, dax, opened, vma, pt, mutex>>

(* Back to the instruction, which is tried again, or to a SIGBUS. *)
Unlock(t) ==
  /\ Goto(t, "unlock", "user") \/ Goto(t, "unlockBus", "killed")
  /\ mutex' = Nothing
  /\ addr' = [addr EXCEPT ![t] = 0]
  /\ UNCHANGED <<order, dax, opened, vma, pt>>

InHandler(t) == PmdFault(t) \/ PudFault(t) \/ Insert(t) \/ Unlock(t)

Next ==
  \/ \E m \in Mms : Open(m) \/ Release(m) \/ Munmap(m)
  \/ \E m \in Mms, l \in Layouts : Mmap(m, l)
  \/ \E t \in Threads : Lock(t) \/ InHandler(t)
  \/ \E t \in Threads : Vma(t) # Nothing /\ \E v \in PagesOf(Vma(t)) : Touch(t, v)

(***************************************************************************)
(* The handler runs on, and a thread that waits for the mutex gets it in   *)
(* the end: the kernel hands a contended mutex to its oldest waiter.       *)
(***************************************************************************)
Fairness == \A t \in Threads : WF_vars(InHandler(t)) /\ SF_vars(Lock(t))

Spec == Init /\ [][Next]_vars /\ Fairness

-----------------------------------------------------------------------------
(* What the hardware makes of page v: the block's base and v's place in it. *)
Translate(m, v) ==
  BlockOf(pt[<<m, BlockOf(v)>>]) * BlockPages + (v % BlockPages)

(* Every variable has its type; an entry holds a frame of FPGA memory and  *)
(* never one of main memory.                                               *)
TypeOK ==
  /\ order \in Orders
  /\ dax \in BOOLEAN
  /\ opened \in SUBSET Mms
  /\ vma \in [Mms -> Layouts \union {Nothing}]
  /\ pt \in [Mms \X Blocks -> {f \in Nat : f >= FpgaBase} \union {Nothing}]
  /\ mutex \in Threads \union {Nothing}
  /\ pc \in [Threads -> PCs]
  /\ addr \in [Threads -> Nat]

(***************************************************************************)
(* With 1 GB entries, the entry that a handler found empty is still empty  *)
(* when it inserts, however many threads fault on the same gigabyte at     *)
(* different pages: the kernel never sees two frames for one entry.        *)
(***************************************************************************)
InsertOnce ==
  \A t \in Threads : pc[t] = "insert" /\ order = "PUD" => pt[Slot(t)] = Nothing

(***************************************************************************)
(* A page that can be accessed shows the FPGA memory at its offset in the  *)
(* mapping, whichever page of the block was touched first.                 *)
(***************************************************************************)
TranslationIsLinear ==
  \A m \in Mms : vma[m] # Nothing =>
    \A v \in PagesOf(vma[m]) :
      pt[<<m, BlockOf(v)>>] # Nothing =>
        Translate(m, v) = FpgaBase + Pgoff(vma[m], v)

(* Touching a page of a mapping never ends in SIGBUS. *)
NeverKilled == \A t \in Threads : pc[t] # "killed"

(***************************************************************************)
(* Every page fault is answered, although all processes share one mutex.   *)
(***************************************************************************)
FaultReturns ==
  \A t \in Threads : (pc[t] = "fault") ~> (pc[t] \in {"user", "killed"})
=============================================================================
