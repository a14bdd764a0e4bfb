------------------------- MODULE EnzianMemoryProofs -------------------------
(***************************************************************************)
(* Proofs about the FPGA memory driver, for any processes, threads, block  *)
(* size and layouts.                                                       *)
(***************************************************************************)
EXTENDS EnzianMemory, TLAPS

-----------------------------------------------------------------------------
(* Quotients and remainders of a block size *)

(* Quotient and remainder, as the provers know them. *)
LEMMA QuotientAndRemainder ==
  ASSUME NEW B \in Nat \ {0}, NEW x \in Int
  PROVE  /\ x \div B \in Int /\ x % B \in 0 .. (B - 1)
         /\ x = (x \div B) * B + (x % B)
  OBVIOUS

(* Multiples of B are at least B apart. *)
LEMMA MultiplesApart ==
  ASSUME NEW B \in Nat \ {0}, NEW p \in Int, NEW q \in Int, p < q
  PROVE  p * B + B =< q * B
<1>1. q - p - 1 \in Nat
  OBVIOUS
<1>2. (q - p - 1) * B >= 0
  BY <1>1
<1>3. (q - p - 1) * B = q * B - p * B - B
  OBVIOUS
<1>4. p * B \in Int /\ q * B \in Int
  OBVIOUS
<1> QED
  BY <1>2, <1>3, <1>4

(* The quotient of a multiple of B and a remainder is what was multiplied. *)
LEMMA QuotientOf ==
  ASSUME NEW B \in Nat \ {0}, NEW q \in Int, NEW r \in 0 .. (B - 1)
  PROVE  (q * B + r) \div B = q
<1> DEFINE p == (q * B + r) \div B
<1>1. q * B + r \in Int
  OBVIOUS
<1>2. /\ p \in Int /\ (q * B + r) % B \in 0 .. (B - 1)
      /\ q * B + r = p * B + ((q * B + r) % B)
  BY <1>1, QuotientAndRemainder
<1>3. CASE p < q
  <2>1. p * B + B =< q * B
    BY <1>3, <1>2, MultiplesApart
  <2> QED
    BY <2>1, <1>2
<1>4. CASE q < p
  <2>1. q * B + B =< p * B
    BY <1>4, <1>2, MultiplesApart
  <2> QED
    BY <2>1, <1>2
<1> QED
  BY <1>2, <1>3, <1>4

(* A block-aligned start is not behind the block of a page after it. *)
LEMMA BlockNotBeforeStart ==
  ASSUME NEW B \in Nat \ {0}, NEW s \in Nat, s % B = 0, NEW v \in Nat, v >= s
  PROVE  (v \div B) * B >= s
<1>1. s = (s \div B) * B /\ s \div B \in Int
  BY QuotientAndRemainder
<1>2. v = (v \div B) * B + (v % B) /\ v % B \in 0 .. (B - 1) /\ v \div B \in Int
  BY QuotientAndRemainder
<1>3. CASE v \div B < s \div B
  <2>1. (v \div B) * B + B =< (s \div B) * B
    BY <1>1, <1>2, <1>3, MultiplesApart
  <2> QED
    BY <2>1, <1>1, <1>2
<1>4. CASE v \div B > s \div B
  <2>1. (s \div B) * B + B =< (v \div B) * B
    BY <1>1, <1>2, <1>4, MultiplesApart
  <2> QED
    BY <2>1, <1>1, <1>2
<1>5. CASE v \div B = s \div B
  BY <1>1, <1>5
<1> QED
  BY <1>1, <1>2, <1>3, <1>4, <1>5

(* What leaves no remainder is a multiple. *)
LEMMA NoRemainder ==
  ASSUME NEW B \in Nat \ {0}, NEW x \in Nat, x % B = 0
  PROVE  x \div B \in Int /\ x = (x \div B) * B
<1>1. x \div B \in Int /\ x = (x \div B) * B + (x % B)
  BY QuotientAndRemainder
<1>2. (x \div B) * B \in Int
  BY <1>1
<1> QED
  BY <1>1, <1>2

LEMMA Distribute ==
  ASSUME NEW a \in Int, NEW b \in Int, NEW c \in Int, NEW B \in Int
  PROVE  a * B + b * B - c * B = (a + b - c) * B
  OBVIOUS

(***************************************************************************)
(* A shift k by whole blocks commutes with taking the block of an address: *)
(* the block of w + k with the remainder of v is v + k, when v and w are   *)
(* in the same block.                                                      *)
(***************************************************************************)
LEMMA ShiftByBlocks ==
  ASSUME NEW B \in Nat \ {0}, NEW n \in Int, NEW v \in Nat, NEW w \in Nat,
         v \div B = w \div B
  PROVE  ((n * B + w) \div B) * B + (v % B) = n * B + v
<1> DEFINE q == w \div B
<1>1. q \in Int /\ w % B \in 0 .. (B - 1) /\ w = q * B + (w % B)
  BY QuotientAndRemainder
<1>2. v % B \in 0 .. (B - 1) /\ v = q * B + (v % B)
  <2>1. v % B \in 0 .. (B - 1) /\ v = (v \div B) * B + (v % B)
    BY QuotientAndRemainder
  <2> QED
    BY <2>1
<1>3. n * B + w = (n + q) * B + (w % B)
  BY <1>1
<1>4. (n * B + w) \div B = n + q
  BY <1>1, <1>3, QuotientOf
<1>5. (n + q) * B + (v % B) = n * B + v
  BY <1>1, <1>2
<1> QED
  BY <1>4, <1>5

-----------------------------------------------------------------------------
(* The inductive invariant *)

(* The steps of the handler that run between mutex_lock and mutex_unlock. *)
Critical == {"locked", "insert", "unlock", "unlockBus"}

(* The mutex works: a thread inside the critical section holds it. *)
MutexInv == \A t \in Threads : pc[t] \in Critical => mutex = t

(* A page fault is on a page of a mapping that stays until it is over. *)
FaultInv ==
  \A t \in Threads : pc[t] \in InFault =>
    Vma(t) # Nothing /\ addr[t] \in PagesOf(Vma(t))

IInv == TypeOK /\ MutexInv /\ FaultInv /\ InsertOnce

-----------------------------------------------------------------------------
(* The pages of a layout are natural numbers whose slots have an entry. *)
LEMMA PagesAreAddresses ==
  ASSUME NEW l \in Layouts, NEW v \in PagesOf(l)
  PROVE  /\ l.start \in Nat /\ l.pgoff \in Nat /\ l.len \in Nat
         /\ v \in Nat /\ v >= l.start
         /\ BlockOf(v) \in Blocks
<1>1. l.start \in Nat /\ l.pgoff \in Nat /\ l.len \in Nat /\ BlockOf(v) \in Blocks
  BY LayoutAssumption
<1>2. v \in l.start .. (l.start + l.len - 1)
  BY DEF PagesOf
<1> QED
  BY <1>1, <1>2

(* The frame that the driver computes lies in FPGA memory. *)
LEMMA FrameInFpga ==
  ASSUME NEW l \in Layouts, NEW v \in PagesOf(l)
  PROVE  Frame(l, v) \in Nat /\ Frame(l, v) >= FpgaBase
  BY PagesAreAddresses, BlockAssumption DEF Frame, Pgoff

(* A thread in a page fault has a mapping, and its slot has an entry. *)
LEMMA FaultTypes ==
  ASSUME TypeOK, FaultInv, NEW t \in Threads, pc[t] \in InFault
  PROVE  /\ MmOf[t] \in Mms
         /\ Vma(t) \in Layouts
         /\ addr[t] \in PagesOf(Vma(t))
         /\ Slot(t) \in Mms \X Blocks
<1>1. MmOf[t] \in Mms
  BY ThreadAssumption
<1>2. Vma(t) \in Layouts /\ addr[t] \in PagesOf(Vma(t))
  BY <1>1 DEF TypeOK, FaultInv, Vma
<1>3. BlockOf(addr[t]) \in Blocks
  BY <1>2, PagesAreAddresses
<1> QED
  BY <1>1, <1>2, <1>3 DEF Slot

LEMMA InitIInv == Init => IInv
<1> SUFFICES ASSUME Init PROVE IInv
  OBVIOUS
<1>1. TypeOK
  <2>1. pt \in [Mms \X Blocks -> {f \in Nat : f >= FpgaBase} \union {Nothing}]
    BY DEF Init
  <2>2. pc \in [Threads -> PCs]
    BY DEF Init, PCs
  <2> QED
    BY <2>1, <2>2 DEF Init, TypeOK
<1>2. \A t \in Threads : pc[t] = "user"
  BY DEF Init
<1>3. MutexInv /\ FaultInv /\ InsertOnce
  BY <1>2 DEF MutexInv, FaultInv, InsertOnce, InFault, Critical
<1> QED
  BY <1>1, <1>3 DEF IInv

(***************************************************************************)
(* What a system call leaves alone: no thread of the process is in a page  *)
(* fault, so the mapping that a fault works on is not the one it changes.  *)
(***************************************************************************)
LEMMA QuietStep ==
  ASSUME IInv, NEW m \in Mms, Quiet(m),
         UNCHANGED <<order, mutex, pc, addr>>,
         \A k \in Mms \ {m} : vma'[k] = vma[k],
         \A e \in Mms \X Blocks : pt'[e] = pt[e] \/ pt'[e] = Nothing,
         TypeOK'
  PROVE  IInv'
<1>1. MutexInv'
  BY DEF IInv, MutexInv
<1>2. ASSUME NEW t \in Threads, pc'[t] \in InFault
      PROVE  MmOf[t] \in Mms \ {m}
  BY <1>2, ThreadAssumption DEF Quiet
<1>3. FaultInv'
  <2> SUFFICES ASSUME NEW t \in Threads, pc'[t] \in InFault
               PROVE  Vma(t)' # Nothing /\ addr'[t] \in PagesOf(Vma(t)')
    BY DEF FaultInv
  <2>1. Vma(t)' = Vma(t)
    BY <1>2 DEF Vma
  <2> QED
    BY <2>1 DEF IInv, FaultInv
<1>4. InsertOnce'
  <2> SUFFICES ASSUME NEW t \in Threads, pc'[t] = "insert", order' = "PUD"
               PROVE  pt'[Slot(t)'] = Nothing
    BY DEF InsertOnce
  <2>1. Slot(t)' = Slot(t)
    BY DEF Slot
  <2>2. Slot(t) \in Mms \X Blocks
    BY FaultTypes DEF IInv, InFault
  <2>3. pt[Slot(t)] = Nothing
    BY DEF IInv, InsertOnce
  <2> QED
    BY <2>1, <2>2, <2>3
<1> QED
  BY <1>1, <1>3, <1>4 DEF IInv

(***************************************************************************)
(* What a step of the page fault of thread t leaves alone: with the mutex  *)
(* held, nobody else is about to insert, and the mappings stay.            *)
(***************************************************************************)
LEMMA FaultStep ==
  ASSUME IInv, NEW t \in Threads,
         UNCHANGED <<order, vma>>,
         \A u \in Threads \ {t} : pc'[u] = pc[u] /\ addr'[u] = addr[u],
         pc'[t] \in Critical => mutex' = t,
         \A u \in Threads \ {t} : mutex = u => mutex' = u,
         pc'[t] \in InFault => Vma(t) # Nothing /\ addr'[t] \in PagesOf(Vma(t)),
         pc'[t] = "insert" /\ order = "PUD" => pt'[Slot(t)'] = Nothing,
         pt' = pt \/ mutex = t,
         TypeOK'
  PROVE  IInv'
<1>1. MutexInv'
  BY DEF IInv, MutexInv
<1>2. FaultInv'
  <2> SUFFICES ASSUME NEW u \in Threads, pc'[u] \in InFault
               PROVE  Vma(u)' # Nothing /\ addr'[u] \in PagesOf(Vma(u)')
    BY DEF FaultInv
  <2>1. Vma(u)' = Vma(u)
    BY DEF Vma
  <2>2. CASE u = t
    BY <2>1, <2>2
  <2>3. CASE u # t
    BY <2>1, <2>3 DEF IInv, FaultInv
  <2> QED
    BY <2>2, <2>3
<1>3. InsertOnce'
  <2> SUFFICES ASSUME NEW u \in Threads, pc'[u] = "insert", order' = "PUD"
               PROVE  pt'[Slot(u)'] = Nothing
    BY DEF InsertOnce
  <2>1. CASE u = t
    BY <2>1
  <2>2. CASE u # t
    <3>1. pc[u] = "insert" /\ Slot(u)' = Slot(u)
      BY <2>2 DEF Slot
    <3>2. mutex = u
      BY <3>1 DEF IInv, MutexInv, Critical
    <3>3. pt' = pt
      BY <3>2, <2>2
    <3> QED
      BY <3>1, <3>3 DEF IInv, InsertOnce
  <2> QED
    BY <2>1, <2>2
<1> QED
  BY <1>1, <1>2, <1>3 DEF IInv

-----------------------------------------------------------------------------
LEMMA NextIInv == IInv /\ [Next]_vars => IInv'
<1> SUFFICES ASSUME IInv, [Next]_vars PROVE IInv'
  OBVIOUS
<1>t. TypeOK
  BY DEF IInv
<1> USE <1>t
<1>1. ASSUME NEW m \in Mms, Open(m) \/ Release(m) PROVE IInv'
  <2>1. TypeOK'
    BY <1>1 DEF TypeOK, Open, Release
  <2> QED
    BY <1>1, <2>1, QuietStep DEF Open, Release
<1>2. ASSUME NEW m \in Mms, NEW l \in Layouts, Mmap(m, l) PROVE IInv'
  <2>1. TypeOK'
    BY <1>2 DEF TypeOK, Mmap
  <2>2. \A k \in Mms \ {m} : vma'[k] = vma[k]
    BY <1>2 DEF Mmap, TypeOK
  <2> QED
    BY <1>2, <2>1, <2>2, QuietStep DEF Mmap
<1>3. ASSUME NEW m \in Mms, Munmap(m) PROVE IInv'
  <2>1. TypeOK'
    BY <1>3 DEF TypeOK, Munmap
  <2>2. \A k \in Mms \ {m} : vma'[k] = vma[k]
    BY <1>3 DEF Munmap, TypeOK
  <2>3. \A e \in Mms \X Blocks : pt'[e] = pt[e] \/ pt'[e] = Nothing
    BY <1>3 DEF Munmap
  <2> QED
    BY <1>3, <2>1, <2>2, <2>3, QuietStep DEF Munmap
<1>4. ASSUME NEW t \in Threads, Vma(t) # Nothing, NEW v \in PagesOf(Vma(t)),
             Touch(t, v)
      PROVE  IInv'
  <2>1. v \in Nat
    <3>1. Vma(t) \in Layouts
      BY <1>4, ThreadAssumption DEF TypeOK, Vma
    <3> QED
      BY <3>1, PagesAreAddresses
  <2>2. TypeOK'
    BY <1>4, <2>1 DEF TypeOK, Touch, PCs, InFault
  <2>3. pc'[t] \notin Critical /\ addr'[t] = v
    BY <1>4 DEF Touch, TypeOK, Critical
  <2>4. \A u \in Threads \ {t} : pc'[u] = pc[u] /\ addr'[u] = addr[u]
    BY <1>4 DEF Touch, TypeOK
  <2> QED
    BY <1>4, <2>2, <2>3, <2>4, FaultStep DEF Touch, Critical
<1>5. ASSUME NEW t \in Threads, Lock(t) PROVE IInv'
  <2>1. TypeOK' /\ pc'[t] = "locked" /\ pc[t] = "fault"
    BY <1>5 DEF TypeOK, Lock, Goto, PCs, InFault
  <2>2. \A u \in Threads \ {t} : pc'[u] = pc[u] /\ addr'[u] = addr[u]
    BY <1>5 DEF Lock, Goto, TypeOK
  <2>3. Vma(t) # Nothing /\ addr'[t] \in PagesOf(Vma(t))
    BY <1>5, <2>1 DEF IInv, FaultInv, InFault, Lock
  <2>4. \A u \in Threads \ {t} : mutex # u
    BY <1>5, NothingAssumption DEF Lock
  <2> QED
    BY <1>5, <2>1, <2>2, <2>3, <2>4, FaultStep DEF Lock
<1>6. ASSUME NEW t \in Threads, PmdFault(t) PROVE IInv'
  <2>1. TypeOK' /\ pc'[t] = "insert" /\ pc[t] = "locked"
    BY <1>6 DEF TypeOK, PmdFault, Goto, PCs, InFault
  <2>2. \A u \in Threads \ {t} : pc'[u] = pc[u] /\ addr'[u] = addr[u]
    BY <1>6 DEF PmdFault, Goto, TypeOK
  <2>3. Vma(t) # Nothing /\ addr'[t] \in PagesOf(Vma(t)) /\ mutex = t
    BY <1>6, <2>1 DEF IInv, FaultInv, MutexInv, InFault, Critical, PmdFault
  <2> QED
    BY <1>6, <2>1, <2>2, <2>3, FaultStep DEF PmdFault
<1>7. ASSUME NEW t \in Threads, PudFault(t) PROVE IInv'
  <2>1. TypeOK' /\ pc'[t] \in {"insert", "unlock"} /\ pc[t] = "locked"
    BY <1>7 DEF TypeOK, PudFault, Goto, PCs, InFault
  <2>2. \A u \in Threads \ {t} : pc'[u] = pc[u] /\ addr'[u] = addr[u]
    BY <1>7 DEF PudFault, Goto, TypeOK
  <2>3. Vma(t) # Nothing /\ addr'[t] \in PagesOf(Vma(t)) /\ mutex = t
    BY <1>7, <2>1 DEF IInv, FaultInv, MutexInv, InFault, Critical, PudFault
  <2>4. pc'[t] = "insert" => pt'[Slot(t)'] = Nothing
    BY <1>7 DEF PudFault, Goto, Slot, TypeOK
  <2> QED
    BY <1>7, <2>1, <2>2, <2>3, <2>4, FaultStep DEF PudFault
<1>8. ASSUME NEW t \in Threads, Insert(t) PROVE IInv'
  <2>0. pc[t] = "insert"
    BY <1>8 DEF Insert, Goto
  <2>1. /\ Vma(t) \in Layouts /\ addr[t] \in PagesOf(Vma(t))
        /\ Slot(t) \in Mms \X Blocks
    BY <2>0, FaultTypes DEF IInv, InFault
  <2>2. pt' \in [Mms \X Blocks -> {f \in Nat : f >= FpgaBase} \union {Nothing}]
    BY <1>8, <2>1, FrameInFpga DEF Insert, TypeOK
  <2>3. TypeOK' /\ pc'[t] \in {"unlock", "unlockBus"}
    BY <1>8, <2>2 DEF TypeOK, Insert, Goto, PCs, InFault
  <2>4. \A u \in Threads \ {t} : pc'[u] = pc[u] /\ addr'[u] = addr[u]
    BY <1>8 DEF Insert, Goto, TypeOK
  <2>5. Vma(t) # Nothing /\ addr'[t] \in PagesOf(Vma(t)) /\ mutex = t
    BY <1>8, <2>0 DEF IInv, FaultInv, MutexInv, InFault, Critical, Insert
  <2> QED
    BY <1>8, <2>3, <2>4, <2>5, FaultStep DEF Insert
<1>9. ASSUME NEW t \in Threads, Unlock(t) PROVE IInv'
  <2>1. TypeOK' /\ pc'[t] \in {"user", "killed"} /\ pc[t] \in Critical
    BY <1>9 DEF TypeOK, Unlock, Goto, PCs, InFault, Critical
  <2>2. \A u \in Threads \ {t} : pc'[u] = pc[u] /\ addr'[u] = addr[u]
    BY <1>9 DEF Unlock, Goto, TypeOK
  <2>3. mutex = t
    BY <2>1 DEF IInv, MutexInv
  <2>4. pc'[t] \notin Critical \union InFault
    BY <2>1 DEF Critical, InFault
  <2> QED
    BY <1>9, <2>1, <2>2, <2>3, <2>4, FaultStep DEF Unlock
<1>10. CASE UNCHANGED vars
  <2>1. TypeOK'
    BY <1>10 DEF TypeOK, vars
  <2>2. MutexInv' /\ FaultInv' /\ InsertOnce'
    BY <1>10 DEF IInv, MutexInv, FaultInv, InsertOnce, vars, Vma, Slot
  <2> QED
    BY <2>1, <2>2 DEF IInv
<1> QED
  BY <1>1, <1>2, <1>3, <1>4, <1>5, <1>6, <1>7, <1>8, <1>9, <1>10
  DEF Next, InHandler

(***************************************************************************)
(* Every variable keeps its type; in particular an entry that is installed *)
(* shows FPGA memory, whatever ranges and offsets are mapped.              *)
(***************************************************************************)
THEOREM TypeCorrect == Spec => []TypeOK
<1>1. IInv => TypeOK
  BY DEF IInv
<1> QED
  BY <1>1, InitIInv, NextIInv, PTL DEF Spec

(***************************************************************************)
(* With 1 GB entries, what a handler saw empty is empty when it inserts:   *)
(* the look and the insertion are one step for everybody else.             *)
(***************************************************************************)
THEOREM NoDoubleInsert == Spec => []InsertOnce
<1>1. IInv => InsertOnce
  BY DEF IInv
<1> QED
  BY <1>1, InitIInv, NextIInv, PTL DEF Spec

-----------------------------------------------------------------------------
(* Mappings of whole blocks *)

(* mem.c and mb_enzian.c map whole blocks at block-aligned addresses. *)
WholeBlocks ==
  \A l \in Layouts : l.start % BlockPages = 0 /\ l.pgoff % BlockPages = 0

(* An entry was made for a page of the mapping and of the block. *)
EntryInv ==
  \A m \in Mms, b \in Blocks : pt[<<m, b>>] # Nothing =>
    /\ vma[m] # Nothing
    /\ \E w \in PagesOf(vma[m]) :
         BlockOf(w) = b /\ pt[<<m, b>>] = Frame(vma[m], w)

(* With whole blocks the two ways to a SIGBUS are closed. *)
DaxInv ==
  /\ \A m \in Mms : m \in opened \/ vma[m] # Nothing => dax
  /\ \A t \in Threads : pc[t] \notin {"unlockBus", "killed"}

LEMMA InitEntryInv == Init => EntryInv /\ DaxInv
  BY DEF Init, EntryInv, DaxInv

LEMMA NextEntryInv == IInv /\ EntryInv /\ [Next]_vars => EntryInv'
<1> SUFFICES ASSUME IInv, EntryInv, [Next]_vars PROVE EntryInv'
  OBVIOUS
<1>t. TypeOK
  BY DEF IInv
<1>1. CASE UNCHANGED <<vma, pt>>
  BY <1>1 DEF EntryInv
<1>2. ASSUME NEW m \in Mms, NEW l \in Layouts, Mmap(m, l) PROVE EntryInv'
  <2> SUFFICES ASSUME NEW k \in Mms, NEW b \in Blocks, pt'[<<k, b>>] # Nothing
               PROVE  /\ vma'[k] # Nothing
                      /\ \E w \in PagesOf(vma'[k]) :
                           BlockOf(w) = b /\ pt'[<<k, b>>] = Frame(vma'[k], w)
    BY DEF EntryInv
  <2>1. pt' = pt /\ vma[m] = Nothing /\ vma' = [vma EXCEPT ![m] = l]
    BY <1>2 DEF Mmap
  <2>2. vma[k] # Nothing
    BY <2>1 DEF EntryInv
  <2>3. vma'[k] = vma[k]
    BY <2>1, <2>2, <1>t DEF TypeOK
  <2> QED
    BY <2>1, <2>3 DEF EntryInv
<1>3. ASSUME NEW m \in Mms, Munmap(m) PROVE EntryInv'
  <2> SUFFICES ASSUME NEW k \in Mms, NEW b \in Blocks, pt'[<<k, b>>] # Nothing
               PROVE  /\ vma'[k] # Nothing
                      /\ \E w \in PagesOf(vma'[k]) :
                           BlockOf(w) = b /\ pt'[<<k, b>>] = Frame(vma'[k], w)
    BY DEF EntryInv
  <2>1. k # m /\ pt'[<<k, b>>] = pt[<<k, b>>]
    BY <1>3 DEF Munmap
  <2>2. vma'[k] = vma[k]
    BY <1>3, <2>1, <1>t DEF Munmap, TypeOK
  <2> QED
    BY <2>1, <2>2 DEF EntryInv
<1>4. ASSUME NEW t \in Threads, Insert(t) PROVE EntryInv'
  <2>0. pc[t] = "insert" /\ vma' = vma
    BY <1>4 DEF Insert, Goto
  <2>1. MmOf[t] \in Mms /\ addr[t] \in PagesOf(Vma(t)) /\ Slot(t) \in Mms \X Blocks
    BY <2>0, FaultTypes DEF IInv, InFault
  <2>2. Vma(t) # Nothing
    BY <2>0 DEF IInv, FaultInv, InFault
  <2> SUFFICES ASSUME NEW k \in Mms, NEW b \in Blocks, pt'[<<k, b>>] # Nothing
               PROVE  /\ vma[k] # Nothing
                      /\ \E w \in PagesOf(vma[k]) :
                           BlockOf(w) = b /\ pt'[<<k, b>>] = Frame(vma[k], w)
    BY <2>0 DEF EntryInv
  <2>3. CASE pt'[<<k, b>>] = pt[<<k, b>>]
    BY <2>3 DEF EntryInv
  <2>4. CASE pt'[<<k, b>>] # pt[<<k, b>>]
    <3>1. <<k, b>> = Slot(t) /\ pt'[<<k, b>>] = Frame(Vma(t), addr[t])
      BY <1>4, <1>t, <2>1, <2>4 DEF Insert, TypeOK
    <3>2. k = MmOf[t] /\ b = BlockOf(addr[t])
      BY <3>1 DEF Slot
    <3> QED
      BY <3>1, <3>2, <2>1, <2>2 DEF Vma
  <2> QED
    BY <2>3, <2>4
<1> QED
  BY <1>1, <1>2, <1>3, <1>4
  DEF Next, InHandler, Open, Release, Touch, Lock, PmdFault, PudFault, Unlock, vars

LEMMA NextDaxInv ==
  ASSUME WholeBlocks
  PROVE  IInv /\ DaxInv /\ [Next]_vars => DaxInv'
<1> SUFFICES ASSUME IInv, DaxInv, [Next]_vars PROVE DaxInv'
  OBVIOUS
<1>t. TypeOK
  BY DEF IInv
<1>1. CASE UNCHANGED vars
  BY <1>1 DEF DaxInv, vars
<1>2. ASSUME NEW m \in Mms, Open(m) \/ Release(m) \/ Munmap(m) PROVE DaxInv'
  BY <1>2, <1>t DEF DaxInv, Open, Release, Munmap, TypeOK
<1>3. ASSUME NEW m \in Mms, NEW l \in Layouts, Mmap(m, l) PROVE DaxInv'
  BY <1>3, <1>t DEF DaxInv, Mmap, TypeOK
<1>4. ASSUME NEW t \in Threads, Vma(t) # Nothing, NEW v \in PagesOf(Vma(t)),
             Touch(t, v)
      PROVE  DaxInv'
  <2>1. dax
    BY <1>4, ThreadAssumption DEF DaxInv, Vma
  <2> QED
    BY <1>4, <2>1, <1>t DEF DaxInv, Touch, TypeOK
<1>5. ASSUME NEW t \in Threads, Lock(t) \/ PmdFault(t) \/ PudFault(t) \/ Unlock(t)
      PROVE  DaxInv'
  BY <1>5, <1>t DEF DaxInv, Lock, PmdFault, PudFault, Unlock, Goto, TypeOK
<1>6. ASSUME NEW t \in Threads, Insert(t) PROVE DaxInv'
  <2>1. Vma(t) \in Layouts /\ addr[t] \in PagesOf(Vma(t))
    BY <1>6, FaultTypes DEF IInv, InFault, Insert, Goto
  <2>2. BlockOf(addr[t]) * BlockPages >= Vma(t).start
    BY <2>1, PagesAreAddresses, BlockAssumption, BlockNotBeforeStart
    DEF WholeBlocks, BlockOf
  <2>3. BlockOf(addr[t]) * BlockPages \in Int /\ Vma(t).start \in Int
    <3>1. addr[t] \in Int /\ Vma(t).start \in Int
      BY <2>1, PagesAreAddresses
    <3>2. BlockOf(addr[t]) \in Int
      BY <3>1, BlockAssumption DEF BlockOf
    <3> QED
      BY <3>1, <3>2, BlockAssumption
  <2>4. ~(BlockOf(addr[t]) * BlockPages < Vma(t).start)
    BY <2>2, <2>3
  <2> QED
    BY <1>6, <1>t, <2>4 DEF DaxInv, Insert, Goto, TypeOK
<1> QED
  BY <1>1, <1>2, <1>3, <1>4, <1>5, <1>6 DEF Next, InHandler

(***************************************************************************)
(* With whole blocks no access to a mapping ends in a SIGBUS: S_DAX is set *)
(* before the first mapping, and no block begins before its mapping.       *)
(***************************************************************************)
THEOREM NoSigbus ==
  ASSUME WholeBlocks
  PROVE  Spec => []NeverKilled
<1>1. DaxInv => NeverKilled
  BY DEF DaxInv, NeverKilled
<1>2. IInv /\ DaxInv /\ [Next]_vars => DaxInv'
  BY NextDaxInv
<1> QED
  BY <1>1, <1>2, InitIInv, NextIInv, InitEntryInv, PTL DEF Spec

(***************************************************************************)
(* With whole blocks every page that can be accessed shows the FPGA memory *)
(* at its own offset, although the driver computes the entry of a block    *)
(* from whichever of its pages was touched first.                          *)
(***************************************************************************)
LEMMA EntriesTranslate ==
  ASSUME WholeBlocks, IInv, EntryInv
  PROVE  TranslationIsLinear
<1> SUFFICES ASSUME NEW m \in Mms, vma[m] # Nothing, NEW v \in PagesOf(vma[m]),
                    pt[<<m, BlockOf(v)>>] # Nothing
             PROVE  Translate(m, v) = FpgaBase + Pgoff(vma[m], v)
  BY DEF TranslationIsLinear
<1> DEFINE l == vma[m]
           B == BlockPages
<1>1. l \in Layouts
  BY DEF IInv, TypeOK
<1>2. v \in Nat /\ BlockOf(v) \in Blocks
      /\ l.start \in Nat /\ l.pgoff \in Nat
  BY <1>1, PagesAreAddresses
<1>3. PICK w \in PagesOf(l) :
        BlockOf(w) = BlockOf(v) /\ pt[<<m, BlockOf(v)>>] = Frame(l, w)
  BY <1>2 DEF EntryInv
<1>4. w \in Nat
  BY <1>1, PagesAreAddresses
<1>5. PICK n \in Int : FpgaBase + l.pgoff - l.start = n * B
  <2>1. FpgaBase = (FpgaBase \div B) * B /\ FpgaBase \div B \in Int
    BY BlockAssumption, NoRemainder
  <2>2. l.pgoff = (l.pgoff \div B) * B /\ l.pgoff \div B \in Int
    <3>1. l.pgoff % B = 0
      BY <1>1 DEF WholeBlocks
    <3> QED
      BY <3>1, <1>2, BlockAssumption, NoRemainder
  <2>3. l.start = (l.start \div B) * B /\ l.start \div B \in Int
    <3>1. l.start % B = 0
      BY <1>1 DEF WholeBlocks
    <3> QED
      BY <3>1, <1>2, BlockAssumption, NoRemainder
  <2> DEFINE n == (FpgaBase \div B) + (l.pgoff \div B) - (l.start \div B)
  <2>4. n \in Int /\ FpgaBase + l.pgoff - l.start = n * B
    <3>1. n \in Int /\ B \in Int
      BY <2>1, <2>2, <2>3, BlockAssumption
    <3>2. (FpgaBase \div B) * B + (l.pgoff \div B) * B - (l.start \div B) * B
            = n * B
      BY <2>1, <2>2, <2>3, <3>1, Distribute
    <3> HIDE DEF n, l, B
    <3> QED
      BY <3>1, <3>2, <2>1, <2>2, <2>3
  <2> QED
    BY <2>4
<1>6. Frame(l, w) = n * B + w /\ FpgaBase + Pgoff(l, v) = n * B + v
  BY <1>2, <1>4, <1>5, BlockAssumption DEF Frame, Pgoff
<1>7. ((n * B + w) \div B) * B + (v % B) = n * B + v
  <2>1. v \div B = w \div B
    BY <1>3 DEF BlockOf
  <2>2. B \in Nat \ {0} /\ n \in Int /\ v \in Nat /\ w \in Nat
    BY <1>2, <1>4, <1>5, BlockAssumption
  <2> HIDE DEF B, l
  <2> QED
    BY <2>1, <2>2, ShiftByBlocks, Zenon
<1> QED
  BY <1>3, <1>6, <1>7 DEF Translate, BlockOf

THEOREM LinearTranslation ==
  ASSUME WholeBlocks
  PROVE  Spec => []TranslationIsLinear
<1>1. IInv /\ EntryInv => TranslationIsLinear
  BY EntriesTranslate
<1> QED
  BY <1>1, InitIInv, NextIInv, InitEntryInv, NextEntryInv, PTL DEF Spec
=============================================================================
