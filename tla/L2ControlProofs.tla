-------------------------- MODULE L2ControlProofs --------------------------
(***************************************************************************)
(* The properties of L2Control for any number of tools and lines.  One     *)
(* invariant carries all of them: versions are ordered along the way from  *)
(* the FPGA memory over the cache to the stores (VersionInv), what was     *)
(* stored is still somewhere or was discarded by a command (StoreInv), and *)
(* what was printed is in the FPGA memory (PrintInv).                      *)
(***************************************************************************)
EXTENDS L2Control, TLAPS

USE DEF vars, hardware, history

(* The cache is never behind the FPGA memory nor ahead of the stores. *)
VersionInv ==
  \A x \in Lines :
    /\ dram[x] =< stores[x]
    /\ cache[x].valid => dram[x] =< cache[x].version /\ cache[x].version =< stores[x]

(* Version n of line x is in memory or lost, or it waits in the cache. *)
Reached(x, n) == dram[x] >= n \/ n \in lost[x]
Waiting(x, n) == cache[x].dirty /\ cache[x].version >= n

StoreInv ==
  \A t \in Tools :
    /\ buffer[t] \subseteq {target[t]}
    /\ buffer[t] # {} => pc[t] = "sync"
    /\ Reached(target[t], mine[t]) \/ Waiting(target[t], mine[t])
    /\ pc[t] = "written" => Reached(target[t], mine[t])

PrintInv ==
  /\ \A x \in Lines : printed[x] =< dram[x]
  /\ \A t \in Tools : floor[t] =< printed[target[t]]
  /\ \A t \in Tools : pc[t] = "read" => floor[t] =< val[t]

IInv == TypeOK /\ VersionInv /\ StoreInv /\ PrintInv

Entry == [valid : BOOLEAN, version : Nat, dirty : BOOLEAN]

(* The three kinds of cache entries. *)
LEMMA Entries ==
  /\ Absent \in Entry /\ ~Absent.valid /\ ~Absent.dirty
  /\ \A n \in Nat :
       /\ Clean(n) \in Entry /\ Clean(n).valid
       /\ ~Clean(n).dirty /\ Clean(n).version = n
       /\ Dirty(n) \in Entry /\ Dirty(n).valid
       /\ Dirty(n).dirty /\ Dirty(n).version = n
  BY DEF Absent, Clean, Dirty, Entry

-----------------------------------------------------------------------------
(* Steps of the memory *)

(***************************************************************************)
(* What StoreInv and PrintInv need to know of a step that changes memory   *)
(* and cache: memory never goes back, and no version that was in memory or *)
(* on its way there is forgotten unless it is recorded as lost.            *)
(***************************************************************************)
Keeps ==
  \A x \in Lines :
    /\ dram'[x] >= dram[x]
    /\ lost[x] \subseteq lost'[x]
    /\ \A n \in Nat : Waiting(x, n) => Reached(x, n)' \/ Waiting(x, n)'

MemoryType ==
  /\ dram \in [Lines -> Nat]
  /\ cache \in [Lines -> Entry]
  /\ \A x \in Lines : cache[x].dirty => cache[x].valid
  /\ lost \in [Lines -> SUBSET Nat]

(* A step of the memory alone preserves the invariant. *)
LEMMA MemoryStep ==
  ASSUME IInv, Keeps, MemoryType', VersionInv',
         UNCHANGED <<buffer, pc, target, val, stores, mine, printed, floor>>
  PROVE  IInv'
<1> USE DEF IInv, TypeOK
<1>1. TypeOK'
  BY DEF MemoryType, Entry
<1>2. \A x \in Lines, n \in Nat : Reached(x, n) => Reached(x, n)'
  <2> SUFFICES ASSUME NEW x \in Lines, NEW n \in Nat, Reached(x, n)
               PROVE  Reached(x, n)'
    OBVIOUS
  <2>1. dram[x] \in Nat /\ dram'[x] \in Nat
    BY DEF MemoryType
  <2> QED
    BY <2>1 DEF Keeps, Reached
<1>3. StoreInv'
  <2> SUFFICES ASSUME NEW t \in Tools
               PROVE  /\ Reached(target[t], mine[t])' \/ Waiting(target[t], mine[t])'
                      /\ pc[t] = "written" => Reached(target[t], mine[t])'
    BY DEF StoreInv
  <2>1. target[t] \in Lines /\ mine[t] \in Nat
    OBVIOUS
  <2> QED
    BY <2>1, <1>2 DEF StoreInv, Keeps
<1>4. PrintInv'
  <2>1. \A x \in Lines : printed[x] =< dram'[x]
    BY DEF PrintInv, Keeps, MemoryType
  <2> QED
    BY <2>1 DEF PrintInv
<1> QED
  BY <1>1, <1>3, <1>4

(***************************************************************************)
(* What every command does to its line: the memory takes the cached        *)
(* version if it is written back, and a dirty version that is dropped      *)
(* without that is recorded as lost.                                       *)
(***************************************************************************)
LEMMA CommandEffect ==
  ASSUME TypeOK, VersionInv, NEW cmd \in Commands, NEW x \in Lines, Command(cmd, x)
  PROVE  /\ MemoryType'
         /\ Keeps
         /\ \A y \in Lines :
              /\ dram'[y] =< stores[y]
              /\ cache'[y].valid =>
                   dram'[y] =< cache'[y].version /\ cache'[y].version =< stores[y]
         /\ cmd = 5 => ~cache'[x].dirty
<1> DEFINE e == cache[x]
           d == IF WritesBack(cmd) /\ e.dirty THEN e.version ELSE dram[x]
           f == IF Drops(cmd) THEN Absent
                ELSE IF WritesBack(cmd) THEN [e EXCEPT !.dirty = FALSE]
                ELSE IF Fetches(cmd) /\ ~e.valid THEN Clean(dram[x]) ELSE e
           g == IF Drops(cmd) /\ ~WritesBack(cmd) /\ e.dirty
                THEN lost[x] \union ((dram[x] + 1) .. e.version) ELSE lost[x]
<1>1. /\ dram' = [dram EXCEPT ![x] = d]
      /\ cache' = [cache EXCEPT ![x] = f]
      /\ lost' = [lost EXCEPT ![x] = g]
  BY DEF Command, TypeOK
<1>2. /\ e \in Entry /\ e.version \in Nat /\ e.valid \in BOOLEAN /\ e.dirty \in BOOLEAN
      /\ e.dirty => e.valid
      /\ dram[x] \in Nat /\ stores[x] \in Nat /\ dram[x] =< stores[x]
      /\ e.valid => dram[x] =< e.version /\ e.version =< stores[x]
  BY DEF TypeOK, VersionInv, Entry
<1>3. f \in Entry /\ (f.dirty => f.valid)
  <2>1. [e EXCEPT !.dirty = FALSE] \in Entry /\ ~[e EXCEPT !.dirty = FALSE].dirty
    BY <1>2 DEF Entry
  <2> QED
    BY <2>1, <1>2, Entries
<1>4. d \in Nat /\ d >= dram[x] /\ d =< stores[x]
  BY <1>2
<1>5. f.valid => d =< f.version /\ f.version =< stores[x]
  <2>1. CASE Drops(cmd)
    BY <2>1, Entries
  <2>2. CASE ~Drops(cmd) /\ WritesBack(cmd)
    <3>1. f.valid = e.valid /\ f.version = e.version
      BY <2>2, <1>2 DEF Entry
    <3> QED
      BY <3>1, <1>2
  <2>3. CASE ~Drops(cmd) /\ ~WritesBack(cmd)
    BY <2>3, <1>2, Entries
  <2> QED
    BY <2>1, <2>2, <2>3
<1>6. \A n \in Nat : e.dirty /\ e.version >= n =>
                       d >= n \/ n \in g \/ (f.dirty /\ f.version >= n)
  <2> SUFFICES ASSUME NEW n \in Nat, e.dirty, e.version >= n
               PROVE  d >= n \/ n \in g \/ (f.dirty /\ f.version >= n)
    OBVIOUS
  <2>1. CASE WritesBack(cmd)
    BY <2>1
  <2>2. CASE ~WritesBack(cmd) /\ Drops(cmd)
    BY <2>2, <1>2
  <2>3. CASE ~WritesBack(cmd) /\ ~Drops(cmd)
    BY <2>3, <1>2
  <2> QED
    BY <2>1, <2>2, <2>3
<1>7. g \in SUBSET Nat /\ lost[x] \subseteq g
  BY <1>2 DEF TypeOK
<1>8. cmd = 5 => ~f.dirty
  BY Entries DEF Drops
<1> HIDE DEF d, f, g
<1>9. MemoryType'
  BY <1>1, <1>3, <1>4, <1>7 DEF MemoryType, TypeOK, Entry
<1>10. Keeps
  <2> SUFFICES ASSUME NEW y \in Lines
               PROVE  /\ dram'[y] >= dram[y]
                      /\ lost[y] \subseteq lost'[y]
                      /\ \A n \in Nat : Waiting(y, n) => Reached(y, n)' \/ Waiting(y, n)'
    BY DEF Keeps
  <2>1. CASE y = x
    <3>1. dram'[x] = d /\ cache'[x] = f /\ lost'[x] = g
      BY <1>1 DEF TypeOK
    <3> QED
      BY <2>1, <3>1, <1>4, <1>6, <1>7 DEF Reached, Waiting
  <2>2. CASE y # x
    <3>1. dram'[y] = dram[y] /\ cache'[y] = cache[y] /\ lost'[y] = lost[y]
      BY <2>2, <1>1 DEF TypeOK
    <3>2. dram[y] \in Nat
      BY DEF TypeOK
    <3> QED
      BY <3>1, <3>2 DEF Reached, Waiting
  <2> QED
    BY <2>1, <2>2
<1>11. ASSUME NEW y \in Lines
       PROVE  /\ dram'[y] =< stores[y]
              /\ cache'[y].valid =>
                   dram'[y] =< cache'[y].version /\ cache'[y].version =< stores[y]
  <2>1. CASE y = x
    <3>1. dram'[x] = d /\ cache'[x] = f
      BY <1>1 DEF TypeOK
    <3> QED
      BY <2>1, <3>1, <1>4, <1>5
  <2>2. CASE y # x
    <3>1. dram'[y] = dram[y] /\ cache'[y] = cache[y]
      BY <2>2, <1>1 DEF TypeOK
    <3> QED
      BY <3>1 DEF VersionInv
  <2> QED
    BY <2>1, <2>2
<1>12. cmd = 5 => ~cache'[x].dirty
  BY <1>1, <1>8 DEF TypeOK
<1> QED
  BY <1>9, <1>10, <1>11, <1>12

(* An eviction keeps the version of a dirty line in memory. *)
LEMMA EvictStep == ASSUME IInv, NEW x \in Lines, Evict(x) PROVE IInv' /\ Keeps
<1> DEFINE e == cache[x]
           d == IF e.dirty THEN e.version ELSE dram[x]
<1>1. /\ dram' = [dram EXCEPT ![x] = d]
      /\ cache' = [cache EXCEPT ![x] = Absent]
      /\ UNCHANGED <<buffer, pc, target, val, history>>
  BY DEF Evict, IInv, TypeOK
<1>2. e.valid /\ e.version \in Nat /\ dram[x] \in Nat /\ stores[x] \in Nat
      /\ dram[x] =< e.version /\ e.version =< stores[x]
  BY DEF Evict, IInv, TypeOK, VersionInv, Entry
<1>3. d \in Nat /\ d >= dram[x] /\ d =< stores[x] /\ (e.dirty => d = e.version)
  BY <1>2
<1> HIDE DEF d
<1>4. MemoryType'
  BY <1>1, <1>3, Entries DEF MemoryType, IInv, TypeOK, Entry
<1>5. \A y \in Lines \ {x} : dram'[y] = dram[y] /\ cache'[y] = cache[y]
  BY <1>1 DEF IInv, TypeOK
<1>6. dram'[x] = d /\ cache'[x] = Absent
  BY <1>1 DEF IInv, TypeOK
<1>7. VersionInv'
  BY <1>1, <1>3, <1>5, <1>6, Entries DEF IInv, VersionInv
<1>8. Keeps
  <2> SUFFICES ASSUME NEW y \in Lines
               PROVE  /\ dram'[y] >= dram[y]
                      /\ lost[y] \subseteq lost'[y]
                      /\ \A n \in Nat : Waiting(y, n) => Reached(y, n)' \/ Waiting(y, n)'
    BY DEF Keeps
  <2>1. dram[y] \in Nat /\ lost' = lost
    BY <1>1 DEF IInv, TypeOK
  <2>2. CASE y = x
    BY <2>1, <2>2, <1>3, <1>6 DEF Reached, Waiting
  <2>3. CASE y # x
    BY <2>1, <2>3, <1>5 DEF Reached, Waiting
  <2> QED
    BY <2>2, <2>3
<1> QED
  BY <1>1, <1>4, <1>7, <1>8, MemoryStep

LEMMA IoctlStep ==
  ASSUME IInv, NEW cmd \in Commands, NEW x \in Lines, Ioctl(cmd, x)
  PROVE  IInv' /\ Keeps
<1>1. /\ Command(cmd, x)
      /\ UNCHANGED <<buffer, pc, target, val, stores, mine, printed, floor>>
  BY DEF Ioctl
<1>2. MemoryType' /\ Keeps /\ VersionInv'
  BY <1>1, CommandEffect DEF IInv, VersionInv
<1> QED
  BY <1>1, <1>2, MemoryStep

(* A store that reaches the cache is newer than all that is there. *)
LEMMA DrainStep == ASSUME IInv, NEW t \in Tools, Drain(t) PROVE IInv' /\ Keeps
<1>1. PICK x \in buffer[t] :
        /\ cache' = [cache EXCEPT ![x] = Dirty(stores[x] + 1)]
        /\ stores' = [stores EXCEPT ![x] = @ + 1]
        /\ mine' = [mine EXCEPT ![t] = stores[x] + 1]
        /\ buffer' = [buffer EXCEPT ![t] = {}]
        /\ UNCHANGED <<dram, pc, target, val, lost, printed, floor>>
  BY DEF Drain
<1>2. x = target[t] /\ x \in Lines /\ stores[x] \in Nat /\ pc[t] = "sync"
  BY DEF IInv, TypeOK, StoreInv
<1>3. \A y \in Lines :
        /\ dram[y] \in Nat /\ cache[y].version \in Nat /\ stores[y] \in Nat
        /\ cache[y].dirty => cache[y].valid
        /\ y # x => cache'[y] = cache[y] /\ stores'[y] = stores[y]
  BY <1>1 DEF IInv, TypeOK
<1>4. /\ cache'[x] = Dirty(stores[x] + 1)
      /\ stores'[x] = stores[x] + 1
      /\ cache'[x] \in Entry /\ cache'[x].valid
      /\ cache'[x].dirty /\ cache'[x].version = stores[x] + 1
  BY <1>1, <1>2, Entries DEF IInv, TypeOK
<1>5. TypeOK'
  <2>1. cache' \in [Lines -> Entry] /\ \A y \in Lines : cache'[y].dirty => cache'[y].valid
    BY <1>1, <1>3, <1>4 DEF IInv, TypeOK, Entry
  <2> QED
    BY <1>1, <1>2, <2>1 DEF IInv, TypeOK, Entry
<1>6. VersionInv'
  BY <1>1, <1>2, <1>3, <1>4 DEF IInv, VersionInv
<1>7. Keeps
  <2> SUFFICES ASSUME NEW y \in Lines, NEW n \in Nat, Waiting(y, n)
               PROVE  Waiting(y, n)'
    BY <1>1, <1>3 DEF Keeps
  <2>1. CASE y = x
    BY <2>1, <1>2, <1>3, <1>4 DEF Waiting, IInv, VersionInv
  <2>2. CASE y # x
    BY <2>2, <1>3 DEF Waiting
  <2> QED
    BY <2>1, <2>2
<1>8. StoreInv'
  <2> SUFFICES ASSUME NEW u \in Tools
               PROVE  /\ buffer'[u] \subseteq {target[u]}
                      /\ buffer'[u] # {} => pc[u] = "sync"
                      /\ Reached(target[u], mine[u])' \/ Waiting(target[u], mine[u])'
                      /\ pc[u] = "written" => Reached(target[u], mine[u])'
    BY <1>1 DEF StoreInv
  <2>1. CASE u = t
    <3>1. buffer'[t] = {} /\ mine'[t] = stores[x] + 1 /\ target' = target
      BY <1>1, <1>2 DEF IInv, TypeOK
    <3>2. Waiting(target[t], mine[t])'
      BY <1>2, <1>4, <3>1 DEF Waiting
    <3> QED
      BY <2>1, <1>2, <3>1, <3>2
  <2>2. CASE u # t
    <3>1. /\ buffer'[u] = buffer[u] /\ mine'[u] = mine[u] /\ target' = target
          /\ target[u] \in Lines /\ mine[u] \in Nat
      BY <2>2, <1>1 DEF IInv, TypeOK
    <3>2. Reached(target[u], mine[u]) => Reached(target[u], mine[u])'
      BY <1>1, <3>1 DEF Reached
    <3> QED
      BY <3>1, <3>2, <1>7 DEF IInv, StoreInv, Keeps
  <2> QED
    BY <2>1, <2>2
<1>9. PrintInv'
  BY <1>1 DEF IInv, PrintInv
<1> QED
  BY <1>5, <1>6, <1>7, <1>8, <1>9 DEF IInv

-----------------------------------------------------------------------------
(* Steps of a tool *)

(* A tool starts with what has been printed for its line. *)
LEMMA StartStep == ASSUME IInv, NEW t \in Tools, Start(t) PROVE IInv' /\ Keeps
<1>1. PICK to \in {"load", "store"} :
        /\ pc[t] = "start"
        /\ pc' = [pc EXCEPT ![t] = to]
        /\ floor' = [floor EXCEPT ![t] = printed[target[t]]]
        /\ UNCHANGED <<hardware, target, val, stores, mine, lost, printed>>
  BY DEF Start, Goto
<1>2. target[t] \in Lines /\ printed[target[t]] \in Nat
  BY DEF IInv, TypeOK
<1>3. TypeOK'
  BY <1>1, <1>2 DEF IInv, TypeOK
<1>4. VersionInv'
  BY <1>1 DEF IInv, VersionInv
<1>5. StoreInv'
  BY <1>1 DEF IInv, TypeOK, StoreInv, Reached, Waiting
<1>6. PrintInv'
  BY <1>1, <1>2 DEF IInv, TypeOK, PrintInv
<1>7. Keeps
  BY <1>1 DEF IInv, TypeOK, Keeps, Waiting
<1> QED
  BY <1>3, <1>4, <1>5, <1>6, <1>7 DEF IInv

(* What is loaded comes from the cache or from the FPGA memory, and neither *)
(* is older than what has been printed.                                     *)
LEMMA LoadStep == ASSUME IInv, NEW t \in Tools, Load(t) PROVE IInv' /\ Keeps
<1> DEFINE x == target[t]
           e == IF cache[x].valid THEN cache[x] ELSE Clean(dram[x])
<1>1. /\ pc[t] = "load"
      /\ pc' = [pc EXCEPT ![t] = "read"]
      /\ val' = [val EXCEPT ![t] = e.version]
      /\ cache' = [cache EXCEPT ![x] = e]
      /\ UNCHANGED <<dram, buffer, target, history>>
  BY DEF Load, Goto
<1>2. /\ x \in Lines /\ dram[x] \in Nat /\ stores[x] \in Nat
      /\ cache[x] \in Entry /\ dram[x] =< stores[x]
      /\ cache[x].dirty => cache[x].valid
      /\ cache[x].valid => dram[x] =< cache[x].version /\ cache[x].version =< stores[x]
  BY DEF IInv, TypeOK, VersionInv, Entry
<1>3. /\ e \in Entry /\ e.valid /\ e.version \in Nat
      /\ dram[x] =< e.version /\ e.version =< stores[x]
      /\ cache[x].dirty => e = cache[x]
  <2>1. CASE cache[x].valid
    BY <2>1, <1>2 DEF Entry
  <2>2. CASE ~cache[x].valid
    BY <2>2, <1>2, Entries
  <2> QED
    BY <2>1, <2>2
<1> HIDE DEF e
<1>4. cache'[x] = e /\ \A y \in Lines \ {x} : cache'[y] = cache[y]
  BY <1>1, <1>2 DEF IInv, TypeOK
<1>5. TypeOK'
  <2>1. cache' \in [Lines -> Entry] /\ \A y \in Lines : cache'[y].dirty => cache'[y].valid
    BY <1>1, <1>3, <1>4 DEF IInv, TypeOK, Entry
  <2> QED
    BY <1>1, <1>3, <2>1 DEF IInv, TypeOK, Entry
<1>6. VersionInv'
  BY <1>1, <1>2, <1>3, <1>4 DEF IInv, VersionInv
<1>7. Keeps
  BY <1>1, <1>3, <1>4 DEF IInv, TypeOK, Keeps, Waiting
<1>8. StoreInv'
  <2>1. \A u \in Tools : target[u] \in Lines /\ mine[u] \in Nat /\ pc'[u] \in {pc[u], "read"}
    BY <1>1 DEF IInv, TypeOK
  <2>2. \A y \in Lines, n \in Nat : Reached(y, n)' <=> Reached(y, n)
    BY <1>1 DEF Reached
  <2>3. \A u \in Tools : u # t => pc'[u] = pc[u]
    BY <1>1 DEF IInv, TypeOK
  <2>4. buffer[t] = {} /\ pc'[t] = "read"
    BY <1>1 DEF IInv, TypeOK, StoreInv
  <2> QED
    BY <1>1, <1>7, <2>1, <2>2, <2>3, <2>4 DEF IInv, StoreInv, Keeps
<1>9. PrintInv'
  <2>1. val'[t] = e.version /\ floor[t] =< printed[x] /\ printed[x] =< dram[x]
        /\ floor[t] \in Nat /\ printed[x] \in Nat
    BY <1>1, <1>2 DEF IInv, TypeOK, PrintInv
  <2>2. floor[t] =< val'[t]
    BY <1>2, <1>3, <2>1
  <2>3. \A u \in Tools : u # t => val'[u] = val[u] /\ pc'[u] = pc[u]
    BY <1>1 DEF IInv, TypeOK
  <2> QED
    BY <1>1, <2>2, <2>3 DEF IInv, PrintInv
<1> QED
  BY <1>5, <1>6, <1>7, <1>8, <1>9 DEF IInv

LEMMA StoreStep == ASSUME IInv, NEW t \in Tools, Store(t) PROVE IInv' /\ Keeps
<1>1. /\ pc[t] = "store"
      /\ pc' = [pc EXCEPT ![t] = "sync"]
      /\ buffer' = [buffer EXCEPT ![t] = {target[t]}]
      /\ UNCHANGED <<dram, cache, target, val, history>>
  BY DEF Store, Goto
<1>2. TypeOK'
  BY <1>1 DEF IInv, TypeOK
<1>3. VersionInv'
  BY <1>1 DEF IInv, VersionInv
<1>4. StoreInv'
  BY <1>1 DEF IInv, TypeOK, StoreInv, Reached, Waiting
<1>5. PrintInv'
  BY <1>1 DEF IInv, TypeOK, PrintInv
<1>6. Keeps
  BY <1>1 DEF IInv, TypeOK, Keeps, Waiting
<1> QED
  BY <1>2, <1>3, <1>4, <1>5, <1>6 DEF IInv

(* The barrier lets a tool go on when its store buffer is empty. *)
LEMMA SyncStep == ASSUME IInv, NEW t \in Tools, Sync(t) PROVE IInv' /\ Keeps
<1>1. /\ buffer[t] = {}
      /\ pc[t] = "sync"
      /\ pc' = [pc EXCEPT ![t] = "flush"]
      /\ UNCHANGED <<hardware, target, val, history>>
  BY DEF Sync, Goto
<1>2. TypeOK'
  BY <1>1 DEF IInv, TypeOK
<1>3. VersionInv'
  BY <1>1 DEF IInv, VersionInv
<1>4. StoreInv'
  BY <1>1 DEF IInv, TypeOK, StoreInv, Reached, Waiting
<1>5. PrintInv'
  BY <1>1 DEF IInv, TypeOK, PrintInv
<1>6. Keeps
  BY <1>1 DEF IInv, TypeOK, Keeps, Waiting
<1> QED
  BY <1>2, <1>3, <1>4, <1>5, <1>6 DEF IInv

(***************************************************************************)
(* After the write-back the line is not dirty, so what the tool has stored *)
(* is in memory or lost, and what is printed has reached the memory.       *)
(***************************************************************************)
LEMMA FlushStep == ASSUME IInv, NEW t \in Tools, Flush(t) PROVE IInv' /\ Keeps
<1> DEFINE x == target[t]
           p == IF mine[t] > printed[x] /\ mine[t] \notin lost[x]
                THEN mine[t] ELSE printed[x]
<1>1. /\ pc[t] = "flush"
      /\ pc' = [pc EXCEPT ![t] = "written"]
      /\ Command(5, x)
      /\ printed' = [printed EXCEPT ![x] = p]
      /\ UNCHANGED <<buffer, target, val, stores, mine, floor>>
  BY DEF Flush, Goto, IInv, TypeOK
<1>2. x \in Lines /\ mine[t] \in Nat /\ printed[x] \in Nat /\ printed[x] =< dram[x]
  BY DEF IInv, TypeOK, PrintInv
<1>3. MemoryType' /\ Keeps /\ VersionInv' /\ ~cache'[x].dirty
  BY <1>1, <1>2, CommandEffect DEF IInv, VersionInv, Commands
<1>4. lost' = lost
  BY <1>1 DEF Command, Drops, WritesBack
<1>5. \A y \in Lines : dram[y] \in Nat /\ dram'[y] \in Nat /\ dram'[y] >= dram[y]
  BY <1>3 DEF IInv, TypeOK, MemoryType, Keeps
<1>6. \A y \in Lines, n \in Nat : Reached(y, n) => Reached(y, n)'
  BY <1>4, <1>5 DEF Reached
<1>7. \A y \in Lines, n \in Nat :
        Reached(y, n) \/ Waiting(y, n) => Reached(y, n)' \/ Waiting(y, n)'
  BY <1>3, <1>6 DEF Keeps
<1>8. Reached(x, mine[t])'
  <2>1. Reached(x, mine[t]) \/ Waiting(x, mine[t])
    BY DEF IInv, StoreInv
  <2>2. ~Waiting(x, mine[t])'
    BY <1>3, <1>1 DEF Waiting
  <2>3. mine'[t] = mine[t] /\ target' = target
    BY <1>1
  <2> QED
    BY <1>2, <1>7, <2>1, <2>2, <2>3 DEF Reached, Waiting
<1>9. p \in Nat /\ p >= printed[x] /\ p =< dram'[x]
  BY <1>1, <1>2, <1>4, <1>5, <1>8 DEF Reached
<1> HIDE DEF p
<1>10. TypeOK'
  BY <1>1, <1>3, <1>9 DEF IInv, TypeOK, MemoryType, Entry
<1>11. StoreInv'
  <2> SUFFICES ASSUME NEW u \in Tools
               PROVE  /\ buffer[u] \subseteq {target[u]}
                      /\ buffer[u] # {} => pc'[u] = "sync"
                      /\ Reached(target[u], mine[u])' \/ Waiting(target[u], mine[u])'
                      /\ pc'[u] = "written" => Reached(target[u], mine[u])'
    BY <1>1 DEF StoreInv
  <2>1. CASE u = t
    <3>1. buffer[t] = {}
      BY <1>1 DEF IInv, StoreInv
    <3> QED
      BY <2>1, <3>1, <1>8
  <2>2. CASE u # t
    <3>1. /\ pc'[u] = pc[u] /\ target[u] \in Lines /\ mine[u] \in Nat
          /\ target' = target /\ mine' = mine
      BY <2>2, <1>1 DEF IInv, TypeOK
    <3>2. /\ Reached(target[u], mine[u]) => Reached(target[u], mine[u])'
          /\ Waiting(target[u], mine[u]) =>
               Reached(target[u], mine[u])' \/ Waiting(target[u], mine[u])'
      BY <3>1, <1>6, <1>7 DEF Reached, Waiting
    <3> QED
      BY <3>1, <3>2 DEF IInv, StoreInv
  <2> QED
    BY <2>1, <2>2
<1>12. PrintInv'
  <2>1. \A y \in Lines : /\ printed'[y] = IF y = x THEN p ELSE printed[y]
                         /\ printed[y] \in Nat
    BY <1>1 DEF IInv, TypeOK
  <2>2. \A y \in Lines : printed'[y] =< dram'[y] /\ printed[y] =< printed'[y]
                         /\ printed'[y] \in Nat
    BY <1>5, <1>9, <2>1 DEF IInv, PrintInv
  <2>3. \A u \in Tools : target[u] \in Lines /\ floor[u] \in Nat
    BY DEF IInv, TypeOK
  <2>4. \A u \in Tools : floor[u] =< printed'[target[u]]
    BY <2>1, <2>2, <2>3 DEF IInv, PrintInv
  <2>5. \A u \in Tools : pc'[u] = "read" => pc[u] = "read"
    BY <1>1 DEF IInv, TypeOK
  <2> QED
    BY <1>1, <2>2, <2>4, <2>5 DEF IInv, PrintInv
<1> QED
  BY <1>3, <1>10, <1>11, <1>12 DEF IInv

-----------------------------------------------------------------------------
(* The invariant and what follows from it *)

LEMMA InitInv == Init => IInv
<1> SUFFICES ASSUME Init PROVE IInv
  OBVIOUS
<1>1. TypeOK
  BY Entries DEF Init, TypeOK, Entry
<1>2. VersionInv
  BY Entries DEF Init, VersionInv
<1>3. StoreInv
  <2> SUFFICES ASSUME NEW t \in Tools
               PROVE  /\ buffer[t] = {} /\ pc[t] = "start"
                      /\ Reached(target[t], mine[t])
    BY DEF StoreInv
  <2>1. target[t] \in Lines
    BY DEF Init
  <2> QED
    BY <2>1 DEF Init, Reached
<1>4. PrintInv
  BY DEF Init, PrintInv
<1> QED
  BY <1>1, <1>2, <1>3, <1>4 DEF IInv

LEMMA NextStep == IInv /\ Next => IInv' /\ Keeps
<1> SUFFICES ASSUME IInv, Next PROVE IInv' /\ Keeps
  OBVIOUS
<1>1. ASSUME NEW t \in Tools, Start(t) PROVE IInv' /\ Keeps
  BY <1>1, StartStep
<1>2. ASSUME NEW t \in Tools, Load(t) PROVE IInv' /\ Keeps
  BY <1>2, LoadStep
<1>3. ASSUME NEW t \in Tools, Store(t) PROVE IInv' /\ Keeps
  BY <1>3, StoreStep
<1>4. ASSUME NEW t \in Tools, Sync(t) PROVE IInv' /\ Keeps
  BY <1>4, SyncStep
<1>5. ASSUME NEW t \in Tools, Flush(t) PROVE IInv' /\ Keeps
  BY <1>5, FlushStep
<1>6. ASSUME NEW t \in Tools, Drain(t) PROVE IInv' /\ Keeps
  BY <1>6, DrainStep
<1>7. ASSUME NEW x \in Lines, Evict(x) PROVE IInv' /\ Keeps
  BY <1>7, EvictStep
<1>8. ASSUME NEW cmd \in Commands, NEW x \in Lines, Ioctl(cmd, x) PROVE IInv' /\ Keeps
  BY <1>8, IoctlStep
<1> QED
  BY <1>1, <1>2, <1>3, <1>4, <1>5, <1>6, <1>7, <1>8 DEF Next

LEMMA Stutter == IInv /\ UNCHANGED vars => IInv'
  BY DEF IInv, TypeOK, VersionInv, StoreInv, PrintInv, Reached, Waiting

LEMMA Invariance == Spec => []IInv
<1>1. IInv /\ [Next]_vars => IInv'
  BY NextStep, Stutter
<1> QED
  BY InitInv, <1>1, PTL DEF Spec

(* Every variable has its type and what is not in the cache is not dirty,  *)
(* for any number of tools and lines, whatever commands are issued.        *)
THEOREM TypeCorrect == Spec => []TypeOK
<1>1. IInv => TypeOK
  BY DEF IInv
<1> QED
  BY Invariance, <1>1, PTL

(* When mem.c prints "Written", its word or a later one is in the FPGA     *)
(* memory, or some process has discarded it: for any number of tools that  *)
(* store to the same line, with evictions and commands at any moment.      *)
THEOREM WordIsInMemory == Spec => []WrittenIsInMemory
<1>1. IInv => WrittenIsInMemory
  BY DEF IInv, StoreInv, Reached, WrittenIsInMemory
<1> QED
  BY Invariance, <1>1, PTL

(* A tool never reads an older word than the one that "Written" had been   *)
(* printed for when it started.                                            *)
THEOREM NoOldWord == Spec => []NoOldWordIsRead
<1>1. IInv => NoOldWordIsRead
  BY DEF IInv, TypeOK, PrintInv, NoOldWordIsRead
<1> QED
  BY Invariance, <1>1, PTL
=============================================================================
