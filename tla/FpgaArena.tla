------------------------------ MODULE FpgaArena ------------------------------
(***************************************************************************)
(* The arena of redis_fpga.c: a process maps the device from offset 0,     *)
(* fpga_alloc hands out 64-byte aligned blocks of the mapping (or of the   *)
(* heap, when there is no mapping), and read_file_into_buffer fills a      *)
(* block with a file that load_dataset_generic then parses in place.       *)
(*                                                                         *)
(* The mapping is linear (TranslationIsLinear of EnzianMemory): address    *)
(* base + k is byte k of the FPGA memory for every process.                *)
(***************************************************************************)
EXTENDS Integers

CONSTANTS
  Procs,      \* processes that run redis_fpga
  Align,      \* ALIGN, 64 in the code
  Stride,     \* page * 1024, the distance of the bytes that are touched
  MapBytes,   \* size of the mapping
  Bases,      \* addresses that mmap may return
  FileSizes,  \* sizes of the files
  MaxReads,   \* bound: files that one process reads
  Null        \* no mapping; also the owner of a byte nobody has written

ASSUME SizeAssumption ==
  /\ Align \in Nat \ {0}
  /\ Stride \in Nat \ {0}
  /\ MapBytes \in Nat
  /\ FileSizes \subseteq Nat
  /\ MaxReads \in Nat
ASSUME BaseAssumption == Bases \subseteq Nat /\ Null \notin Nat
ASSUME NullAssumption == Null \notin Procs

VARIABLES
  gArenaBase, gArenaCur, gArenaEnd,
  phase,   \* where each process is
  text,    \* the block with the file that is being parsed: [addr, size]
  blocks,  \* history: blocks that fpga_alloc took from the arena
  reads,   \* history: files read
  owner    \* the process that wrote a byte of the FPGA memory last

arena == <<gArenaBase, gArenaCur, gArenaEnd>>
vars == <<arena, phase, text, blocks, reads, owner>>

NoText == [addr |-> Null, size |-> 0]

Init ==
  /\ gArenaBase = [q \in Procs |-> Null]
  /\ gArenaCur = [q \in Procs |-> Null]
  /\ gArenaEnd = [q \in Procs |-> Null]
  /\ phase = [q \in Procs |-> "start"]
  /\ text = [q \in Procs |-> NoText]
  /\ blocks = [q \in Procs |-> {}]
  /\ reads = [q \in Procs |-> 0]
  /\ owner = [k \in 0 .. (MapBytes - 1) |-> Null]

-----------------------------------------------------------------------------
(* SetupEnzianMemoryMapping *)

(* Bytes that the touch loop zeroes. *)
Touched == {k \in 0 .. (MapBytes - 1) : k % Stride = 0}

Setup(q) ==
  /\ phase[q] = "start"
  /\ phase' = [phase EXCEPT ![q] = "ready"]
  /\ \E b \in Bases :
       /\ gArenaBase' = [gArenaBase EXCEPT ![q] = b]
       /\ gArenaCur' = [gArenaCur EXCEPT ![q] = b]
       /\ gArenaEnd' = [gArenaEnd EXCEPT ![q] = b + MapBytes]
  /\ owner' = [k \in DOMAIN owner |-> IF k \in Touched THEN q ELSE owner[k]]
  /\ UNCHANGED <<text, blocks, reads>>

(* open or mmap fails, or map_gb is 0: go on with the normal heap. *)
SetupFails(q) ==
  /\ phase[q] = "start"
  /\ phase' = [phase EXCEPT ![q] = "ready"]
  /\ UNCHANGED <<arena, text, blocks, reads, owner>>

-----------------------------------------------------------------------------
(* read_file_into_buffer, with fpga_alloc *)

(* Mutant: the address is rounded down. *)
AlignedDown(cur) == (cur \div Align) * Align

(* (cur + (ALIGN - 1)) & ~(ALIGN - 1) *)
Aligned(cur) == ((cur + (Align - 1)) \div Align) * Align

(* Mutant: there is no byte for the NUL. *)
NeededWithoutNul(size) == size

(* sz + 1 *)
Needed(size) == size + 1

(* Mutant: only the start of the block is compared with the end. *)
StartFits(q, n) == Aligned(gArenaCur[q]) =< gArenaEnd[q]

Fits(q, n) == Aligned(gArenaCur[q]) + n =< gArenaEnd[q]

CanRead(q, size) ==
  /\ phase[q] = "ready"
  /\ reads[q] < MaxReads
  /\ reads' = [reads EXCEPT ![q] = @ + 1]

(* Bytes of the FPGA memory that fread and the NUL write. *)
Written(q, addr, size) ==
  {k \in DOMAIN owner : gArenaBase[q] + k \in addr .. (addr + size)}

Read(q, size) ==
  LET n == Needed(size)
      addr == Aligned(gArenaCur[q])
  IN /\ CanRead(q, size)
     /\ gArenaBase[q] # Null
     /\ Fits(q, n)
     /\ gArenaCur' = [gArenaCur EXCEPT ![q] = addr + n]
     /\ blocks' = [blocks EXCEPT ![q] = @ \union {[addr |-> addr, n |-> n]}]
     /\ text' = [text EXCEPT ![q] = [addr |-> addr, size |-> size]]
     /\ owner' = [k \in DOMAIN owner |->
                    IF k \in Written(q, addr, size) THEN q ELSE owner[k]]
     /\ phase' = [phase EXCEPT ![q] = "parse"]
     /\ UNCHANGED <<gArenaBase, gArenaEnd>>

(* fread comes up short: NULL is returned, and the block stays allocated. *)
ReadShort(q, size) ==
  LET n == Needed(size)
      addr == Aligned(gArenaCur[q])
  IN /\ CanRead(q, size)
     /\ gArenaBase[q] # Null
     /\ Fits(q, n)
     /\ gArenaCur' = [gArenaCur EXCEPT ![q] = addr + n]
     /\ blocks' = [blocks EXCEPT ![q] = @ \union {[addr |-> addr, n |-> n]}]
     /\ \E got \in 0 .. (size - 1) :
          owner' = [k \in DOMAIN owner |->
                      IF got > 0 /\ k \in Written(q, addr, got - 1) THEN q ELSE owner[k]]
     /\ UNCHANGED <<gArenaBase, gArenaEnd, phase, text>>

(* "FPGA arena out of space": the process exits. *)
OutOfSpace(q, size) ==
  /\ CanRead(q, size)
  /\ gArenaBase[q] # Null
  /\ ~Fits(q, Needed(size))
  /\ phase' = [phase EXCEPT ![q] = "exit"]
  /\ UNCHANGED <<arena, text, blocks, owner>>

(* No mapping: the block is malloc's, and nobody else's. *)
ReadToHeap(q, size) ==
  /\ CanRead(q, size)
  /\ gArenaBase[q] = Null
  /\ phase' = [phase EXCEPT ![q] = "parse"]
  /\ UNCHANGED <<arena, text, blocks, owner>>

(* load_dataset_generic is through; nothing refers to the text any more. *)
Parsed(q) ==
  /\ phase[q] = "parse"
  /\ phase' = [phase EXCEPT ![q] = "ready"]
  /\ text' = [text EXCEPT ![q] = NoText]
  /\ UNCHANGED <<arena, blocks, reads, owner>>

Next ==
  \E q \in Procs :
    \/ Setup(q) \/ SetupFails(q) \/ Parsed(q)
    \/ \E size \in FileSizes :
         \/ Read(q, size) \/ ReadShort(q, size)
         \/ OutOfSpace(q, size) \/ ReadToHeap(q, size)

Spec == Init /\ [][Next]_vars

-----------------------------------------------------------------------------
Bytes(b) == b.addr .. (b.addr + b.n - 1)

TextBytes(q) == text[q].addr .. (text[q].addr + text[q].size)

(* Every variable has its type; the arena pointers are set together and    *)
(* gArenaCur never leaves the mapping.                                     *)
TypeOK ==
  /\ phase \in [Procs -> {"start", "ready", "parse", "exit"}]
  /\ gArenaBase \in [Procs -> Nat \union {Null}]
  /\ gArenaCur \in [Procs -> Nat \union {Null}]
  /\ gArenaEnd \in [Procs -> Nat \union {Null}]
  /\ \A q \in Procs :
       gArenaBase[q] # Null =>
         /\ gArenaEnd[q] = gArenaBase[q] + MapBytes
         /\ gArenaCur[q] \in gArenaBase[q] .. gArenaEnd[q]
  /\ text \in [Procs -> [addr : Nat \union {Null}, size : Nat]]
  /\ blocks \in [Procs -> SUBSET [addr : Nat, n : Nat]]
  /\ reads \in [Procs -> 0 .. MaxReads]
  /\ owner \in [0 .. (MapBytes - 1) -> Procs \union {Null}]

(* No byte is handed out twice, whatever sizes are asked for in whichever  *)
(* order; and every block begins at an aligned address.                    *)
BlocksAreDisjoint ==
  \A q \in Procs : \A a, b \in blocks[q] :
    /\ a.addr % Align = 0
    /\ a # b => Bytes(a) \intersect Bytes(b) = {}

(* The file and the NUL after it are written into a block of the process   *)
(* that lies in its mapping: the parser finds an end before the block's.   *)
TextStaysInItsBlock ==
  \A q \in Procs : text[q] # NoText =>
    /\ \E b \in blocks[q] : TextBytes(q) \subseteq Bytes(b)
    /\ TextBytes(q) \subseteq gArenaBase[q] .. (gArenaEnd[q] - 1)

(***************************************************************************)
(* "Read entire file into a buffer (FPGA-mapped if available) and parse    *)
(* CSV from that buffer": while a process parses, the buffer holds what    *)
(* this process has read into it.                                          *)
(***************************************************************************)
TextIsIntact ==
  \A q \in Procs : text[q] # NoText =>
    \A a \in TextBytes(q) : owner[a - gArenaBase[q]] = q
=============================================================================
