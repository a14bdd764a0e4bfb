------------------------------ MODULE L2Control ------------------------------
(***************************************************************************)
(* The store path of mem.c and the L2 instructions of enzian_memory_ioctl: *)
(* a tool stores a word into mapped FPGA memory, waits for its store       *)
(* buffer and has the line written back, so that the FPGA finds it in its  *)
(* memory.  Other processes use the same device and the same lines, the    *)
(* cache evicts what it likes, and every process may issue any command.    *)
(*                                                                         *)
(* The content of a line is its version: how many stores have made it.     *)
(***************************************************************************)
EXTENDS Integers

CONSTANTS
  Tools,  \* processes that run mem.c
  Lines   \* cache lines of the FPGA memory

VARIABLES
  dram,     \* FPGA memory: a version for each line
  cache,    \* the L2 cache, an entry for each line
  buffer,   \* the lines a tool has stored to and not yet made visible
  pc,
  target,   \* phys_addr + offset, the line of each tool
  val,      \* val of a tool that reads
  stores,   \* history: stores to each line that have reached the L2 cache
  mine,     \* history: the version that a tool's store became
  lost,     \* history: versions of each line that a command has discarded
  printed,  \* history: the last version that "Written" was printed for
  floor     \* history: what was printed for its line when a tool started

hardware == <<dram, cache, buffer>>
history == <<stores, mine, lost, printed, floor>>
vars == <<hardware, pc, target, val, history>>

Absent == [valid |-> FALSE, version |-> 0, dirty |-> FALSE]
Clean(n) == [valid |-> TRUE, version |-> n, dirty |-> FALSE]
Dirty(n) == [valid |-> TRUE, version |-> n, dirty |-> TRUE]

Init ==
  /\ dram = [x \in Lines |-> 0]
  /\ cache = [x \in Lines |-> Absent]
  /\ buffer = [t \in Tools |-> {}]
  /\ pc = [t \in Tools |-> "start"]
  /\ target \in [Tools -> Lines]
  /\ val = [t \in Tools |-> 0]
  /\ stores = [x \in Lines |-> 0]
  /\ mine = [t \in Tools |-> 0]
  /\ lost = [x \in Lines |-> {}]
  /\ printed = [x \in Lines |-> 0]
  /\ floor = [t \in Tools |-> 0]

-----------------------------------------------------------------------------
(* enzian_memory_ioctl; the effects are those its comments name. *)

(* 0 to 3 take a line by its index, 4 to 7 by its address; 2, 8, 9 and 10  *)
(* read a tag or a TLB or load a TLB, and the rest is -EINVAL.             *)
Commands == {0, 1, 3, 4, 5, 6, 7}

WritesBack(cmd) == cmd \in {0, 1, 5, 6}

(* An overwritten tag (3) is taken to forget the line just as an           *)
(* invalidation does: no tag that names another line is stored.            *)
Drops(cmd) == cmd \in {0, 3, 4, 5}

Fetches(cmd) == cmd = 7

(* Mutant: a dropped line keeps its dirty bit. *)
CommandKeepsDirty(cmd, x) ==
  LET e == cache[x] IN
  /\ dram' = IF WritesBack(cmd) /\ e.dirty
             THEN [dram EXCEPT ![x] = e.version] ELSE dram
  /\ cache' = [cache EXCEPT ![x] =
       IF Drops(cmd) THEN [e EXCEPT !.valid = FALSE]
       ELSE IF WritesBack(cmd) THEN [e EXCEPT !.dirty = FALSE]
       ELSE IF Fetches(cmd) /\ ~e.valid THEN Clean(dram[x]) ELSE e]
  /\ lost' = lost

Command(cmd, x) ==
  LET e == cache[x] IN
  /\ dram' = IF WritesBack(cmd) /\ e.dirty
             THEN [dram EXCEPT ![x] = e.version] ELSE dram
  /\ cache' = [cache EXCEPT ![x] =
       IF Drops(cmd) THEN Absent
       ELSE IF WritesBack(cmd) THEN [e EXCEPT !.dirty = FALSE]
       ELSE IF Fetches(cmd) /\ ~e.valid THEN Clean(dram[x]) ELSE e]
  /\ lost' = IF Drops(cmd) /\ ~WritesBack(cmd) /\ e.dirty
             THEN [lost EXCEPT ![x] = @ \union ((dram[x] + 1) .. e.version)]
             ELSE lost

(* Some process issues a command for a line. *)
Ioctl(cmd, x) ==
  /\ Command(cmd, x)
  /\ UNCHANGED <<buffer, pc, target, val, stores, mine, printed, floor>>

-----------------------------------------------------------------------------
(* The hardware *)

(* A line that makes room for another one is written back if it is dirty. *)
Evict(x) ==
  /\ cache[x].valid
  /\ dram' = [dram EXCEPT ![x] = IF cache[x].dirty THEN cache[x].version ELSE @]
  /\ cache' = [cache EXCEPT ![x] = Absent]
  /\ UNCHANGED <<buffer, pc, target, val, history>>

(* A store reaches the L2 cache and makes the line dirty. *)
Drain(t) ==
  \E x \in buffer[t] :
    /\ cache' = [cache EXCEPT ![x] = Dirty(stores[x] + 1)]
    /\ stores' = [stores EXCEPT ![x] = @ + 1]
    /\ mine' = [mine EXCEPT ![t] = stores[x] + 1]
    /\ buffer' = [buffer EXCEPT ![t] = {}]
    /\ UNCHANGED <<dram, pc, target, val, lost, printed, floor>>

-----------------------------------------------------------------------------
(* mem.c *)

Goto(t, from, to) ==
  /\ pc[t] = from
  /\ pc' = [pc EXCEPT ![t] = to]

(* open, mmap, and the choice by the number of arguments. *)
Start(t) ==
  /\ Goto(t, "start", "load") \/ Goto(t, "start", "store")
  /\ floor' = [floor EXCEPT ![t] = printed[target[t]]]
  /\ UNCHANGED <<hardware, target, val, stores, mine, lost, printed>>

(* val = ptr[offset / 8]; a miss brings the line into the cache. *)
Load(t) ==
  LET x == target[t]
      e == IF cache[x].valid THEN cache[x] ELSE Clean(dram[x])
  IN /\ Goto(t, "load", "read")
     /\ val' = [val EXCEPT ![t] = e.version]
     /\ cache' = [cache EXCEPT ![x] = e]
     /\ UNCHANGED <<dram, buffer, target, history>>

(* ptr[offset / 8] = val *)
Store(t) ==
  /\ Goto(t, "store", "sync")
  /\ buffer' = [buffer EXCEPT ![t] = {target[t]}]
  /\ UNCHANGED <<dram, cache, target, val, history>>

(* Mutant: nothing waits for the store buffer. *)
NoSync(t) ==
  /\ Goto(t, "sync", "flush")
  /\ UNCHANGED <<hardware, target, val, history>>

(* __sync_synchronize() *)
Sync(t) ==
  /\ buffer[t] = {}
  /\ Goto(t, "sync", "flush")
  /\ UNCHANGED <<hardware, target, val, history>>

(* Mutant: "Written" is printed without the ioctl. *)
FlushNothing(t) ==
  LET x == target[t] IN
  /\ Goto(t, "flush", "written")
  /\ printed' = [printed EXCEPT ![x] =
                   IF mine[t] > @ /\ mine[t] \notin lost[x] THEN mine[t] ELSE @]
  /\ UNCHANGED <<hardware, target, val, stores, mine, lost, floor>>

(* ioctl(fd, 5, phys_addr + offset), and then "Written" is printed. *)
Flush(t) ==
  LET x == target[t] IN
  /\ Goto(t, "flush", "written")
  /\ Command(5, x)
  /\ printed' = [printed EXCEPT ![x] =
                   IF mine[t] > @ /\ mine[t] \notin lost[x] THEN mine[t] ELSE @]
  /\ UNCHANGED <<buffer, target, val, stores, mine, floor>>

Next ==
  \/ \E t \in Tools :
       Start(t) \/ Load(t) \/ Store(t) \/ Sync(t) \/ Flush(t) \/ Drain(t)
  \/ \E x \in Lines : Evict(x)
  \/ \E cmd \in Commands, x \in Lines : Ioctl(cmd, x)

Spec == Init /\ [][Next]_vars

-----------------------------------------------------------------------------
(* Every variable has its type, and what is not valid is not dirty.        *)
TypeOK ==
  /\ dram \in [Lines -> Nat]
  /\ cache \in [Lines -> [valid : BOOLEAN, version : Nat, dirty : BOOLEAN]]
  /\ \A x \in Lines : cache[x].dirty => cache[x].valid
  /\ buffer \in [Tools -> SUBSET Lines]
  /\ pc \in [Tools -> {"start", "load", "read", "store", "sync", "flush", "written"}]
  /\ target \in [Tools -> Lines]
  /\ val \in [Tools -> Nat]
  /\ stores \in [Lines -> Nat]
  /\ mine \in [Tools -> Nat]
  /\ lost \in [Lines -> SUBSET Nat]
  /\ printed \in [Lines -> Nat]
  /\ floor \in [Tools -> Nat]

(***************************************************************************)
(* When mem.c prints "Written", the FPGA finds the word in its memory, or  *)
(* a later one that was stored over it; unless some process had the line   *)
(* invalidated, without a write-back, while it was only in the cache.      *)
(***************************************************************************)
WrittenIsInMemory ==
  \A t \in Tools :
    pc[t] = "written" =>
      \/ dram[target[t]] >= mine[t]
      \/ mine[t] \in lost[target[t]]

(***************************************************************************)
(* A tool that reads gets no older word than the one "Written" had been    *)
(* printed for when the tool started, whatever commands are issued for the *)
(* line in between: after the write-back no invalidation can hurt it.      *)
(***************************************************************************)
NoOldWordIsRead ==
  \A t \in Tools : pc[t] = "read" => val[t] >= floor[t]
=============================================================================
