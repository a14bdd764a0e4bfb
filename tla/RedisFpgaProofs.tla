-------------------------- MODULE RedisFpgaProofs --------------------------
(***************************************************************************)
(* Proofs about redis_fpga.c: its arena, for any alignment, size of the    *)
(* mapping, file sizes and number of processes; and its load and queries,  *)
(* for any files, rows left on the server and number of columns, whichever *)
(* of the commands fail.                                                   *)
(***************************************************************************)
EXTENDS FpgaArena, RedisLoad, WellFoundedInduction, SequenceTheorems,
        FiniteSetTheorems, TLAPS

-----------------------------------------------------------------------------
(* Rounding up to an alignment *)

(* Quotient and remainder, as the provers know them. *)
LEMMA QuotientAndRemainder ==
  ASSUME NEW B \in Nat \ {0}, NEW x \in Int
  PROVE  /\ x \div B \in Int /\ x % B \in 0 .. (B - 1)
         /\ x = (x \div B) * B + (x % B)
  OBVIOUS

(* Multiples of B are at least B apart. *)
LEMMA MultiplesApart ==
  ASSUME NEW B \in Nat \ {0}, NEW p \in Int, NEW q \in Int, p < q
  PROVE  p * B + B =< q * B
<1>1. q - p - 1 \in Nat
  OBVIOUS
<1>2. (q - p - 1) * B >= 0
  BY <1>1
<1>3. (q - p - 1) * B = q * B - p * B - B
  OBVIOUS
<1>4. p * B \in Int /\ q * B \in Int
  OBVIOUS
<1> QED
  BY <1>2, <1>3, <1>4

(* The quotient of a multiple of B and a remainder is what was multiplied. *)
LEMMA QuotientOf ==
  ASSUME NEW B \in Nat \ {0}, NEW q \in Int, NEW r \in 0 .. (B - 1)
  PROVE  (q * B + r) \div B = q
<1> DEFINE p == (q * B + r) \div B
<1>1. q * B + r \in Int
  OBVIOUS
<1>2. /\ p \in Int /\ (q * B + r) % B \in 0 .. (B - 1)
      /\ q * B + r = p * B + ((q * B + r) % B)
  BY <1>1, QuotientAndRemainder
<1>3. CASE p < q
  <2>1. p * B + B =< q * B
    BY <1>3, <1>2, MultiplesApart
  <2> QED
    BY <2>1, <1>2
<1>4. CASE q < p
  <2>1. q * B + B =< p * B
    BY <1>4, <1>2, MultiplesApart
  <2> QED
    BY <2>1, <1>2
<1> QED
  BY <1>2, <1>3, <1>4

(* The next multiple of B: not before x, and less than B behind it.        *)
LEMMA RoundedUp ==
  ASSUME NEW B \in Nat \ {0}, NEW x \in Nat
  PROVE  LET up == ((x + (B - 1)) \div B) * B
         IN up \in Nat /\ up >= x /\ up < x + B /\ up % B = 0
<1> DEFINE q == (x + (B - 1)) \div B
           up == q * B
<1>1. /\ q \in Int /\ (x + (B - 1)) % B \in 0 .. (B - 1)
      /\ x + (B - 1) = up + ((x + (B - 1)) % B)
  BY QuotientAndRemainder
<1>2. up \in Int
  BY <1>1
<1>3. up >= x /\ up < x + B
  BY <1>1, <1>2
<1>4. up % B = 0
  <2>1. (q * B + 0) \div B = q
    BY <1>1, QuotientOf
  <2>2. up \div B = q
    BY <1>2, <2>1
  <2>3. up = (up \div B) * B + (up % B) /\ up % B \in 0 .. (B - 1)
    BY <1>2, QuotientAndRemainder
  <2> QED
    BY <1>2, <2>2, <2>3
<1> QED
  BY <1>2, <1>3, <1>4

-----------------------------------------------------------------------------
(* The inductive invariant *)

(* Nothing is allocated before the mapping.                                *)
StartInv ==
  \A q \in Procs : phase[q] = "start" => blocks[q] = {} /\ text[q] = NoText

(* Blocks lie between the start of the mapping and gArenaCur.              *)
BlockInv ==
  \A q \in Procs : \A b \in blocks[q] :
    /\ gArenaBase[q] # Null
    /\ gArenaBase[q] =< b.addr /\ b.addr + b.n =< gArenaCur[q]

(* The text that is parsed fills a block but for its NUL.                  *)
TextInv ==
  \A q \in Procs : text[q] # NoText =>
    \E b \in blocks[q] : b.addr = text[q].addr /\ b.n = Needed(text[q].size)

IInv == TypeOK /\ StartInv /\ BlockInv /\ BlocksAreDisjoint /\ TextInv
-----------------------------------------------------------------------------
(* A process with a mapping has its pointers in it.                        *)
LEMMA PointerTypes ==
  ASSUME TypeOK, NEW q \in Procs, gArenaBase[q] # Null
  PROVE  /\ gArenaBase[q] \in Nat /\ gArenaCur[q] \in Nat /\ gArenaEnd[q] \in Nat
         /\ gArenaBase[q] =< gArenaCur[q] /\ gArenaCur[q] =< gArenaEnd[q]
         /\ gArenaEnd[q] = gArenaBase[q] + MapBytes
<1>1. gArenaBase[q] \in Nat
  BY DEF TypeOK
<1>2. gArenaEnd[q] = gArenaBase[q] + MapBytes
      /\ gArenaCur[q] \in gArenaBase[q] .. gArenaEnd[q]
  BY DEF TypeOK
<1> QED
  BY <1>1, <1>2, SizeAssumption

(* The address that fpga_alloc returns is aligned and not before gArenaCur. *)
LEMMA AlignedUp ==
  ASSUME NEW cur \in Nat
  PROVE  /\ Aligned(cur) \in Nat /\ Aligned(cur) >= cur
         /\ Aligned(cur) % Align = 0
  BY SizeAssumption, RoundedUp DEF Aligned

(* What fpga_alloc does, when the block fits: the new block is behind all  *)
(* others and before the end of the mapping.                               *)
LEMMA Allocation ==
  ASSUME IInv, NEW q \in Procs, NEW size \in FileSizes, gArenaBase[q] # Null,
         Fits(q, Needed(size)), UNCHANGED <<gArenaBase, gArenaEnd>>,
         gArenaCur' = [gArenaCur EXCEPT ![q] =
                         Aligned(gArenaCur[q]) + Needed(size)],
         blocks' = [blocks EXCEPT ![q] = @ \union
                      {[addr |-> Aligned(gArenaCur[q]), n |-> Needed(size)]}]
  PROVE  /\ BlockInv' /\ BlocksAreDisjoint'
         /\ gArenaCur' \in [Procs -> Nat \union {Null}]
         /\ \A k \in Procs : gArenaBase'[k] # Null =>
              gArenaCur'[k] \in gArenaBase'[k] .. gArenaEnd'[k]
         /\ blocks' \in [Procs -> SUBSET [addr : Nat, n : Nat]]
<1> DEFINE new == [addr |-> Aligned(gArenaCur[q]), n |-> Needed(size)]
<1>1. /\ size \in Nat /\ Needed(size) \in Nat /\ Needed(size) = size + 1
  BY SizeAssumption DEF Needed
<1>2. /\ gArenaBase[q] \in Nat /\ gArenaCur[q] \in Nat /\ gArenaEnd[q] \in Nat
      /\ gArenaBase[q] =< gArenaCur[q] /\ gArenaCur[q] =< gArenaEnd[q]
  BY PointerTypes DEF IInv
<1>3. /\ new.addr \in Nat /\ new.addr >= gArenaCur[q] /\ new.addr % Align = 0
      /\ new.n = size + 1 /\ new.addr + new.n =< gArenaEnd[q]
  BY <1>1, <1>2, AlignedUp DEF Fits
<1>4. gArenaCur'[q] = new.addr + new.n /\ blocks'[q] = blocks[q] \union {new}
  BY DEF IInv, TypeOK
<1>5. \A k \in Procs \ {q} : gArenaCur'[k] = gArenaCur[k] /\ blocks'[k] = blocks[k]
  BY DEF IInv, TypeOK
<1>6. \A b \in blocks[q] : b.addr \in Nat /\ b.n \in Nat
  BY DEF IInv, TypeOK
<1>7. \A b \in blocks[q] : gArenaBase[q] =< b.addr /\ b.addr + b.n =< gArenaCur[q]
  BY DEF IInv, BlockInv
<1>8. BlockInv'
  <2> SUFFICES ASSUME NEW k \in Procs, NEW b \in blocks'[k]
               PROVE  /\ gArenaBase[k] # Null
                      /\ gArenaBase[k] =< b.addr /\ b.addr + b.n =< gArenaCur'[k]
    BY DEF BlockInv
  <2>1. CASE k # q
    BY <1>5, <2>1 DEF IInv, BlockInv
  <2>2. CASE k = q /\ b = new
    <3>1. gArenaBase[q] =< new.addr /\ new.addr + new.n =< gArenaCur'[q]
      <4> HIDE DEF new
      <4> QED
        BY <1>1, <1>2, <1>3, <1>4
    <3> QED
      BY <2>2, <3>1
  <2>3. CASE k = q /\ b # new
    <3>1. b \in blocks[q]
      BY <1>4, <2>3
    <3> QED
      BY <1>1, <1>2, <1>3, <1>4, <1>6, <1>7, <2>3, <3>1
  <2> QED
    BY <2>1, <2>2, <2>3
<1>9. BlocksAreDisjoint'
  <2>1. \A b \in blocks[q] : Bytes(b) \intersect Bytes(new) = {}
    BY <1>2, <1>3, <1>6, <1>7 DEF Bytes
  <2>2. \A a, b \in blocks[q] : a.addr % Align = 0
                                /\ (a # b => Bytes(a) \intersect Bytes(b) = {})
    BY DEF IInv, BlocksAreDisjoint
  <2>3. \A a, b \in blocks'[q] : a.addr % Align = 0
                                 /\ (a # b => Bytes(a) \intersect Bytes(b) = {})
    BY <1>3, <1>4, <2>1, <2>2
  <2>4. \A k \in Procs \ {q} : \A a, b \in blocks'[k] :
          a.addr % Align = 0 /\ (a # b => Bytes(a) \intersect Bytes(b) = {})
    BY <1>5 DEF IInv, BlocksAreDisjoint
  <2> QED
    BY <2>3, <2>4 DEF BlocksAreDisjoint, Bytes
<1>10. \A k \in Procs : gArenaBase[k] # Null =>
         gArenaCur'[k] \in gArenaBase[k] .. gArenaEnd[k]
  <2>1. gArenaCur'[q] \in gArenaBase[q] .. gArenaEnd[q]
    BY <1>1, <1>2, <1>3, <1>4
  <2> QED
    BY <1>5, <2>1 DEF IInv, TypeOK
<1>11. new \in [addr : Nat, n : Nat] /\ gArenaCur'[q] \in Nat
  BY <1>1, <1>3, <1>4
<1>12. blocks' \in [Procs -> SUBSET [addr : Nat, n : Nat]]
  BY <1>4, <1>11 DEF IInv, TypeOK
<1>13. gArenaCur' \in [Procs -> Nat \union {Null}]
  BY <1>1, <1>3, <1>11 DEF IInv, TypeOK
<1> QED
  BY <1>8, <1>9, <1>10, <1>12, <1>13

(* Nothing is mapped, allocated or read at first.                          *)
LEMMA InitIInv == Init => IInv
  BY SizeAssumption
  DEF Init, IInv, TypeOK, StartInv, BlockInv, BlocksAreDisjoint, TextInv, NoText

(* Every step keeps the invariant: only an allocation adds a block, and    *)
(* only a read adds a text, to a block that was allocated for it.          *)
LEMMA NextIInv == IInv /\ [Next]_vars => IInv'
<1> SUFFICES ASSUME IInv, [Next]_vars PROVE IInv'
  OBVIOUS
<1> USE DEF arena
<1>1. ASSUME NEW q \in Procs, Setup(q) PROVE IInv'
  <2>1. PICK b \in Bases :
          /\ gArenaBase' = [gArenaBase EXCEPT ![q] = b]
          /\ gArenaCur' = [gArenaCur EXCEPT ![q] = b]
          /\ gArenaEnd' = [gArenaEnd EXCEPT ![q] = b + MapBytes]
    BY <1>1 DEF Setup
  <2>2. b \in Nat /\ b + MapBytes \in Nat /\ b \in b .. (b + MapBytes)
    BY SizeAssumption, BaseAssumption
  <2>3. blocks[q] = {} /\ text[q] = NoText /\ UNCHANGED <<text, blocks, reads>>
    BY <1>1 DEF Setup, IInv, StartInv
  <2>4. phase' \in [Procs -> {"start", "ready", "parse", "exit"}]
        /\ owner' \in [0 .. (MapBytes - 1) -> Procs \union {Null}]
    BY <1>1 DEF Setup, IInv, TypeOK
  <2>5. \A k \in Procs \ {q} : /\ gArenaBase'[k] = gArenaBase[k]
                               /\ gArenaCur'[k] = gArenaCur[k]
                               /\ gArenaEnd'[k] = gArenaEnd[k]
                               /\ phase'[k] = phase[k]
    BY <1>1, <2>1 DEF Setup, IInv, TypeOK
  <2>6. /\ gArenaBase'[q] = b /\ gArenaCur'[q] = b
        /\ gArenaEnd'[q] = b + MapBytes /\ phase'[q] = "ready"
    BY <1>1, <2>1 DEF Setup, IInv, TypeOK
  <2>7. /\ gArenaBase' \in [Procs -> Nat \union {Null}]
        /\ gArenaCur' \in [Procs -> Nat \union {Null}]
        /\ gArenaEnd' \in [Procs -> Nat \union {Null}]
    BY <2>1, <2>2 DEF IInv, TypeOK
  <2>8. \A k \in Procs : gArenaBase'[k] # Null =>
          /\ gArenaEnd'[k] = gArenaBase'[k] + MapBytes
          /\ gArenaCur'[k] \in gArenaBase'[k] .. gArenaEnd'[k]
    BY <2>2, <2>5, <2>6 DEF IInv, TypeOK
  <2>9. TypeOK'
    BY <2>3, <2>4, <2>7, <2>8 DEF IInv, TypeOK
  <2>10. StartInv' /\ BlockInv'
    BY <2>3, <2>5, <2>6 DEF IInv, StartInv, BlockInv
  <2>11. BlocksAreDisjoint' /\ TextInv'
    BY <2>3 DEF IInv, BlocksAreDisjoint, TextInv, Bytes
  <2> QED
    BY <2>9, <2>10, <2>11 DEF IInv
<1>2. ASSUME NEW q \in Procs, SetupFails(q) PROVE IInv'
  BY <1>2 DEF SetupFails, IInv, TypeOK, StartInv, BlockInv, BlocksAreDisjoint,
     TextInv, Bytes
<1>3. ASSUME NEW q \in Procs, NEW size \in FileSizes, Read(q, size) PROVE IInv'
  <2>1. /\ phase[q] = "ready" /\ phase' = [phase EXCEPT ![q] = "parse"]
        /\ reads' = [reads EXCEPT ![q] = @ + 1] /\ reads[q] < MaxReads
        /\ UNCHANGED <<gArenaBase, gArenaEnd>>
        /\ gArenaBase[q] # Null /\ Fits(q, Needed(size))
        /\ gArenaCur' = [gArenaCur EXCEPT ![q] =
                           Aligned(gArenaCur[q]) + Needed(size)]
        /\ blocks' = [blocks EXCEPT ![q] = @ \union
                        {[addr |-> Aligned(gArenaCur[q]), n |-> Needed(size)]}]
        /\ text' = [text EXCEPT ![q] =
                      [addr |-> Aligned(gArenaCur[q]), size |-> size]]
    BY <1>3 DEF Read, CanRead
  <2>2. /\ BlockInv' /\ BlocksAreDisjoint'
        /\ gArenaCur' \in [Procs -> Nat \union {Null}]
        /\ \A k \in Procs : gArenaBase'[k] # Null =>
             gArenaCur'[k] \in gArenaBase'[k] .. gArenaEnd'[k]
        /\ blocks' \in [Procs -> SUBSET [addr : Nat, n : Nat]]
    BY <2>1, Allocation
  <2>3. Aligned(gArenaCur[q]) \in Nat /\ size \in Nat
    BY <2>1, PointerTypes, AlignedUp, SizeAssumption DEF IInv
  <2>4. owner' \in [0 .. (MapBytes - 1) -> Procs \union {Null}]
    BY <1>3 DEF Read, IInv, TypeOK
  <2>5. reads' \in [Procs -> 0 .. MaxReads]
    BY <2>1, SizeAssumption DEF IInv, TypeOK
  <2>6. text' \in [Procs -> [addr : Nat \union {Null}, size : Nat]]
    BY <2>1, <2>3 DEF IInv, TypeOK
  <2>7. TypeOK'
    BY <2>1, <2>2, <2>4, <2>5, <2>6 DEF IInv, TypeOK
  <2>8. StartInv'
    BY <2>1 DEF IInv, StartInv, TypeOK
  <2>9. TextInv'
    <3>1. ASSUME NEW k \in Procs \ {q} PROVE text'[k] = text[k] /\ blocks'[k] = blocks[k]
      BY <2>1 DEF IInv, TypeOK
    <3>2. /\ [addr |-> Aligned(gArenaCur[q]), n |-> Needed(size)] \in blocks'[q]
          /\ text'[q] = [addr |-> Aligned(gArenaCur[q]), size |-> size]
      BY <2>1 DEF IInv, TypeOK
    <3> QED
      BY <3>1, <3>2 DEF IInv, TextInv, Needed
  <2> QED
    BY <2>2, <2>7, <2>8, <2>9 DEF IInv
<1>4. ASSUME NEW q \in Procs, NEW size \in FileSizes, ReadShort(q, size)
      PROVE  IInv'
  <2>1. /\ phase[q] = "ready" /\ UNCHANGED <<gArenaBase, gArenaEnd, phase, text>>
        /\ reads' = [reads EXCEPT ![q] = @ + 1] /\ reads[q] < MaxReads
        /\ gArenaBase[q] # Null /\ Fits(q, Needed(size))
        /\ gArenaCur' = [gArenaCur EXCEPT ![q] =
                           Aligned(gArenaCur[q]) + Needed(size)]
        /\ blocks' = [blocks EXCEPT ![q] = @ \union
                        {[addr |-> Aligned(gArenaCur[q]), n |-> Needed(size)]}]
    BY <1>4 DEF ReadShort, CanRead
  <2>2. /\ BlockInv' /\ BlocksAreDisjoint'
        /\ gArenaCur' \in [Procs -> Nat \union {Null}]
        /\ \A k \in Procs : gArenaBase'[k] # Null =>
             gArenaCur'[k] \in gArenaBase'[k] .. gArenaEnd'[k]
        /\ blocks' \in [Procs -> SUBSET [addr : Nat, n : Nat]]
    BY <2>1, Allocation
  <2>3. owner' \in [0 .. (MapBytes - 1) -> Procs \union {Null}]
    BY <1>4 DEF ReadShort, IInv, TypeOK
  <2>4. reads' \in [Procs -> 0 .. MaxReads]
    BY <2>1, SizeAssumption DEF IInv, TypeOK
  <2>5. TypeOK'
    BY <2>1, <2>2, <2>3, <2>4 DEF IInv, TypeOK
  <2>6. \A k \in Procs : blocks[k] \subseteq blocks'[k]
                         /\ (k # q => blocks'[k] = blocks[k])
    BY <2>1 DEF IInv, TypeOK
  <2>7. StartInv' /\ TextInv'
    BY <2>1, <2>6 DEF IInv, StartInv, TextInv, Needed
  <2> QED
    BY <2>2, <2>5, <2>7 DEF IInv
<1>5. ASSUME NEW q \in Procs, NEW size \in FileSizes,
             OutOfSpace(q, size) \/ ReadToHeap(q, size)
      PROVE  IInv'
  <2>1. /\ UNCHANGED <<arena, text, blocks, owner>>
        /\ phase' \in [Procs -> {"start", "ready", "parse", "exit"}]
        /\ \A k \in Procs : phase'[k] = "start" => phase[k] = "start"
    BY <1>5 DEF OutOfSpace, ReadToHeap, CanRead, IInv, TypeOK
  <2>2. reads' \in [Procs -> 0 .. MaxReads]
    BY <1>5, SizeAssumption DEF OutOfSpace, ReadToHeap, CanRead, IInv, TypeOK
  <2> QED
    BY <2>1, <2>2 DEF IInv, TypeOK, StartInv, BlockInv, BlocksAreDisjoint, TextInv,
       Bytes, Needed
<1>6. ASSUME NEW q \in Procs, Parsed(q) PROVE IInv'
  <2>1. /\ UNCHANGED <<arena, blocks, reads, owner>>
        /\ phase' \in [Procs -> {"start", "ready", "parse", "exit"}]
        /\ \A k \in Procs : phase'[k] = "start" => phase[k] = "start"
        /\ text' = [text EXCEPT ![q] = NoText]
    BY <1>6 DEF Parsed, IInv, TypeOK
  <2>2. text' \in [Procs -> [addr : Nat \union {Null}, size : Nat]]
    BY <2>1 DEF IInv, TypeOK, NoText
  <2>3. \A k \in Procs : text'[k] = NoText \/ text'[k] = text[k]
    BY <2>1 DEF IInv, TypeOK
  <2> QED
    BY <2>1, <2>2, <2>3 DEF IInv, TypeOK, StartInv, BlockInv, BlocksAreDisjoint,
       TextInv, Bytes, Needed
<1>7. CASE UNCHANGED vars
  BY <1>7 DEF vars, IInv, TypeOK, StartInv, BlockInv, BlocksAreDisjoint, TextInv,
     Bytes, Needed
<1> QED
  BY <1>1, <1>2, <1>3, <1>4, <1>5, <1>6, <1>7 DEF Next

(* The pointers of each arena stay in its mapping, however often it is     *)
(* asked for whatever sizes.                                               *)
THEOREM TypeCorrect == Spec => []TypeOK
<1>1. IInv => TypeOK
  BY DEF IInv
<1> QED
  BY <1>1, InitIInv, NextIInv, PTL DEF Spec

(* No byte of a mapping is handed out twice, and all blocks are aligned.   *)
THEOREM DisjointBlocks == Spec => []BlocksAreDisjoint
<1>1. IInv => BlocksAreDisjoint
  BY DEF IInv
<1> QED
  BY <1>1, InitIInv, NextIInv, PTL DEF Spec

(* A text ends with its block, and the block ends before the mapping.      *)
LEMMA TextInMapping == IInv => TextStaysInItsBlock
<1> SUFFICES ASSUME IInv, NEW q \in Procs, text[q] # NoText
             PROVE  /\ \E b \in blocks[q] : TextBytes(q) \subseteq Bytes(b)
                    /\ TextBytes(q) \subseteq gArenaBase[q] .. (gArenaEnd[q] - 1)
  BY DEF TextStaysInItsBlock
<1>1. PICK b \in blocks[q] : b.addr = text[q].addr /\ b.n = text[q].size + 1
  BY DEF IInv, TextInv, Needed
<1>2. b.addr \in Nat /\ text[q].size \in Nat
  BY DEF IInv, TypeOK
<1>3. /\ gArenaBase[q] # Null
      /\ gArenaBase[q] =< b.addr /\ b.addr + b.n =< gArenaCur[q]
  BY DEF IInv, BlockInv
<1>4. TextBytes(q) = Bytes(b)
  BY <1>1, <1>2 DEF TextBytes, Bytes
<1>5. /\ gArenaBase[q] \in Nat /\ gArenaCur[q] \in Nat /\ gArenaEnd[q] \in Nat
      /\ gArenaCur[q] =< gArenaEnd[q]
  BY <1>3, PointerTypes DEF IInv
<1>6. Bytes(b) \subseteq gArenaBase[q] .. (gArenaEnd[q] - 1)
  BY <1>1, <1>2, <1>3, <1>5 DEF Bytes
<1> QED
  BY <1>4, <1>6

(* A text and its NUL lie in a block of the process and in its mapping.    *)
THEOREM TextInBlock == Spec => []TextStaysInItsBlock
BY InitIInv, NextIInv, TextInMapping, PTL DEF Spec

-----------------------------------------------------------------------------
(* One process alone *)

(* Only one process uses the FPGA memory.                                  *)
Alone == \A q, r \in Procs : q = r

(* The same of the state after a step.                                     *)
LEMMA TextInMappingNext == IInv' => TextStaysInItsBlock'
BY TextInMapping, PTL

(* A process that is alone never takes a byte from anybody.                *)
LEMMA NextIntact ==
  ASSUME Alone
  PROVE  IInv /\ TextIsIntact /\ [Next]_vars => TextIsIntact'
<1> SUFFICES ASSUME IInv, TextIsIntact, [Next]_vars,
                    NEW q \in Procs, text'[q] # NoText, NEW a \in TextBytes(q)'
             PROVE  owner'[a - gArenaBase'[q]] = q
  BY DEF TextIsIntact
<1> USE DEF arena
<1>1. TextStaysInItsBlock /\ TextStaysInItsBlock'
  BY NextIInv, TextInMapping, TextInMappingNext
<1>2. TypeOK /\ TypeOK'
  BY NextIInv DEF IInv
<1>3. a \in gArenaBase'[q] .. (gArenaEnd'[q] - 1)
  BY <1>1 DEF TextStaysInItsBlock
<1>4. gArenaBase'[q] # Null
  <2>1. \E b \in blocks'[q] : TRUE
    BY <1>1 DEF TextStaysInItsBlock
  <2>2. BlockInv'
    BY NextIInv DEF IInv
  <2> QED
    BY <2>1, <2>2 DEF BlockInv
<1>5. a - gArenaBase'[q] \in 0 .. (MapBytes - 1) /\ a \in Int
  <2>1. gArenaBase'[q] \in Nat /\ gArenaEnd'[q] = gArenaBase'[q] + MapBytes
    BY <1>2, <1>4 DEF TypeOK
  <2> QED
    BY <1>3, <2>1, SizeAssumption
<1>6. DOMAIN owner = 0 .. (MapBytes - 1)
  BY <1>2 DEF TypeOK
<1>7. CASE UNCHANGED <<text, owner, gArenaBase>>
  BY <1>7 DEF TextIsIntact, TextBytes
<1>8. ASSUME NEW r \in Procs,
             (\E size \in FileSizes : ReadShort(r, size)) \/ Parsed(r)
      PROVE  owner'[a - gArenaBase'[q]] = q
  <2>1. r = q
    BY DEF Alone
  <2>2. text'[q] = text[q] /\ gArenaBase'[q] = gArenaBase[q]
    BY <1>2, <1>8, <2>1 DEF ReadShort, Parsed, TypeOK
  <2>3. owner[a - gArenaBase[q]] = q
    BY <2>2 DEF TextIsIntact, TextBytes
  <2>4. \A k \in DOMAIN owner : owner'[k] \in {owner[k], r}
    BY <1>8 DEF ReadShort, Parsed
  <2> QED
    BY <1>5, <1>6, <2>1, <2>2, <2>3, <2>4
<1>9. ASSUME NEW r \in Procs, Setup(r)
      PROVE  owner'[a - gArenaBase'[q]] = q
  BY <1>9 DEF Setup, IInv, StartInv, Alone
<1>10. ASSUME NEW r \in Procs, NEW size \in FileSizes, Read(r, size)
       PROVE  owner'[a - gArenaBase'[q]] = q
  <2>1. r = q
    BY DEF Alone
  <2>2. text'[q] = [addr |-> Aligned(gArenaCur[q]), size |-> size]
        /\ gArenaBase'[q] = gArenaBase[q]
    BY <1>2, <1>10, <2>1 DEF Read, TypeOK
  <2>3. a \in Aligned(gArenaCur[q]) .. (Aligned(gArenaCur[q]) + size)
    BY <2>2 DEF TextBytes
  <2>4. gArenaBase[q] + (a - gArenaBase[q]) = a
    BY <1>2, <1>4, <1>5, <2>2 DEF TypeOK
  <2>5. a - gArenaBase[q] \in Written(q, Aligned(gArenaCur[q]), size)
    BY <1>5, <1>6, <2>2, <2>3, <2>4 DEF Written
  <2> QED
    BY <1>5, <1>6, <1>10, <2>1, <2>2, <2>5 DEF Read
<1> QED
  BY <1>7, <1>8, <1>9, <1>10 DEF Next, SetupFails, OutOfSpace, ReadToHeap, vars

(* A process that has the FPGA memory for itself parses what it has read:  *)
(* only a second process can overwrite the text.                           *)
THEOREM AloneTextIsIntact ==
  ASSUME Alone
  PROVE  Spec => []TextIsIntact
<1>1. Init => TextIsIntact
  BY DEF Init, TextIsIntact
<1>2. IInv /\ TextIsIntact /\ [Next]_vars => TextIsIntact'
  BY NextIntact
<1> QED
  BY <1>1, <1>2, InitIInv, NextIInv, PTL DEF Spec

-----------------------------------------------------------------------------
(* Induction over the numbers, for a set *)

(* A set of numbers has a least one. *)
LEMMA LeastNumber ==
  ASSUME NEW T, T \subseteq Nat, T # {}
  PROVE  \E x \in T : \A y \in T : x =< y
<1> DEFINE R == OpToRel(<, Nat)
<1>1. \A x, y \in Nat : <<y, x>> \in R <=> y < x
  BY DEF OpToRel
<1>2. \E x \in T : \A y \in T : ~(<<y, x>> \in R)
  BY NatLessThanWellFounded, WFMin
<1> HIDE DEF R
<1>3. PICK x \in T : \A y \in T : ~(<<y, x>> \in R)
  BY <1>2
<1>4. x \in Nat
  OBVIOUS
<1>5. ASSUME NEW y \in T
      PROVE  x =< y
  <2>1. y \in Nat /\ ~(<<y, x>> \in R)
    BY <1>3
  <2>2. ~(y < x)
    BY <2>1, <1>1, <1>4
  <2> QED
    BY <2>1, <2>2, <1>4
<1> QED
  BY <1>5

(* A set with 0 and with the successors of its numbers has all numbers.    *)
LEMMA SetInduction ==
  ASSUME NEW S, 0 \in S, \A n \in Nat : n \in S => n + 1 \in S
  PROVE  Nat \subseteq S
<1> SUFFICES ASSUME ~(Nat \subseteq S) PROVE FALSE
  OBVIOUS
<1> DEFINE T == Nat \ S
<1>1. PICK x \in T : \A y \in T : x =< y
  <2>1. T # {} /\ T \subseteq Nat
    OBVIOUS
  <2> QED
    BY <2>1, LeastNumber
<1>2. x # 0 /\ x \in Nat
  OBVIOUS
<1>3. x - 1 \in Nat /\ x - 1 \in S
  BY <1>1, <1>2
<1> QED
  BY <1>3, <1>1

-----------------------------------------------------------------------------
(* Sums *)

(* The running sums of g. *)
IsSum(s, g, n) == s = [k \in 0 .. n |-> IF k = 0 THEN 0 ELSE s[k - 1] + g[k]]

(* There are running sums as long as g. *)
LEMMA SumExists ==
  ASSUME NEW N \in Nat, NEW g \in [1 .. N -> Int]
  PROVE  \A n \in 0 .. N : \E s \in [0 .. n -> Int] : IsSum(s, g, n)
<1> DEFINE S == {n \in Nat : n =< N => \E s \in [0 .. n -> Int] : IsSum(s, g, n)}
<1>1. 0 \in S
  <2> DEFINE s == [k \in 0 .. 0 |-> 0]
  <2>1. s \in [0 .. 0 -> Int] /\ IsSum(s, g, 0)
    BY DEF IsSum
  <2> QED
    BY <2>1
<1>2. ASSUME NEW n \in Nat, n \in S
      PROVE  n + 1 \in S
  <2> SUFFICES ASSUME n + 1 =< N
               PROVE  \E s \in [0 .. (n + 1) -> Int] : IsSum(s, g, n + 1)
    OBVIOUS
  <2>1. PICK s \in [0 .. n -> Int] : IsSum(s, g, n)
    BY <1>2
  <2>2. \A k \in 0 .. n : s[k] = IF k = 0 THEN 0 ELSE s[k - 1] + g[k]
    BY <2>1 DEF IsSum
  <2> DEFINE t == [k \in 0 .. (n + 1) |-> IF k =< n THEN s[k] ELSE s[n] + g[n + 1]]
  <2>3. g[n + 1] \in Int /\ s[n] \in Int
    OBVIOUS
  <2>4. t \in [0 .. (n + 1) -> Int]
    BY <2>3
  <2>5. ASSUME NEW k \in 0 .. (n + 1)
        PROVE  t[k] = IF k = 0 THEN 0 ELSE t[k - 1] + g[k]
    <3>1. CASE k =< n /\ k # 0
      BY <3>1, <2>2
    <3>2. CASE k = 0
      BY <3>2, <2>2
    <3>3. CASE k = n + 1
      BY <3>3
    <3> QED
      BY <3>1, <3>2, <3>3
  <2>6. IsSum(t, g, n + 1)
    BY <2>4, <2>5 DEF IsSum
  <2> HIDE DEF t
  <2> QED
    BY <2>4, <2>6
<1>3. Nat \subseteq S
  <2> HIDE DEF S
  <2> QED
    BY <1>1, <1>2, SetInduction
<1> QED
  BY <1>3

(* They do not depend on how far they are continued. *)
LEMMA SumUnique ==
  ASSUME NEW g, NEW m \in Nat, NEW n \in 0 .. m, NEW s, NEW t,
         IsSum(s, g, n), IsSum(t, g, m)
  PROVE  \A k \in 0 .. n : s[k] = t[k]
<1> DEFINE S == {k \in Nat : k =< n => s[k] = t[k]}
<1>1. \A k \in 0 .. n : s[k] = IF k = 0 THEN 0 ELSE s[k - 1] + g[k]
  BY DEF IsSum
<1>2. \A k \in 0 .. m : t[k] = IF k = 0 THEN 0 ELSE t[k - 1] + g[k]
  BY DEF IsSum
<1>3. 0 \in S
  BY <1>1, <1>2
<1>4. ASSUME NEW k \in Nat, k \in S
      PROVE  k + 1 \in S
  <2> SUFFICES ASSUME k + 1 =< n PROVE s[k + 1] = t[k + 1]
    OBVIOUS
  <2>1. s[k + 1] = s[k] + g[k + 1]
    <3>1. k + 1 \in 0 .. n /\ k + 1 # 0 /\ (k + 1) - 1 = k
      OBVIOUS
    <3> QED
      BY <1>1, <3>1
  <2>2. t[k + 1] = t[k] + g[k + 1]
    <3>1. k + 1 \in 0 .. m /\ k + 1 # 0 /\ (k + 1) - 1 = k
      OBVIOUS
    <3> QED
      BY <1>2, <3>1
  <2> QED
    BY <2>1, <2>2, <1>4
<1>5. Nat \subseteq S
  <2> HIDE DEF S
  <2> QED
    BY <1>3, <1>4, SetInduction
<1> QED
  BY <1>5

(* A sum, one term after the other. *)
LEMMA SumStep ==
  ASSUME NEW N \in Nat, NEW g \in [1 .. N -> Int]
  PROVE  /\ Sum(g, 0) = 0
         /\ \A n \in 0 .. N : Sum(g, n) \in Int
         /\ \A n \in 1 .. N : Sum(g, n) = Sum(g, n - 1) + g[n]
<1>1. PICK t \in [0 .. N -> Int] : IsSum(t, g, N)
  BY SumExists
<1>2. ASSUME NEW n \in 0 .. N
      PROVE  Sum(g, n) = t[n]
  <2>1. ASSUME NEW r, IsSum(r, g, n)
        PROVE  r[n] = t[n]
    <3>1. \A m \in Nat : \A h, a, b : \A k \in 0 .. m :
            IsSum(a, h, k) /\ IsSum(b, h, m) => \A x \in 0 .. k : a[x] = b[x]
      BY SumUnique
    <3>2. IsSum(t, g, N) /\ IsSum(r, g, n)
      BY <1>1, <2>1
    <3>3. \A k \in 0 .. n : r[k] = t[k]
      BY <3>1, <3>2
    <3> QED
      BY <3>3
  <2>2. IsSum(CHOOSE s : IsSum(s, g, n), g, n)
    BY SumExists
  <2> QED
    BY <2>1, <2>2 DEF Sum, IsSum
<1>3. \A k \in 0 .. N : t[k] = IF k = 0 THEN 0 ELSE t[k - 1] + g[k]
  BY <1>1 DEF IsSum
<1>4. \A n \in 1 .. N : Sum(g, n) = Sum(g, n - 1) + g[n]
  BY <1>2, <1>3
<1> QED
  BY <1>2, <1>3, <1>4

(* A sum of nothing. *)
LEMMA SumOfZeros ==
  ASSUME NEW N \in Nat, NEW g \in [1 .. N -> Int], \A n \in 1 .. N : g[n] = 0
  PROVE  Sum(g, N) = 0
<1> DEFINE S == {n \in Nat : n =< N => Sum(g, n) = 0}
<1>1. /\ Sum(g, 0) = 0
      /\ \A n \in 1 .. N : Sum(g, n) = Sum(g, n - 1) + g[n]
  BY SumStep
<1>2. 0 \in S
  BY <1>1
<1>3. ASSUME NEW n \in Nat, n \in S
      PROVE  n + 1 \in S
  <2> SUFFICES ASSUME n + 1 =< N PROVE Sum(g, n + 1) = 0
    OBVIOUS
  <2>1. n + 1 \in 1 .. N /\ (n + 1) - 1 = n
    OBVIOUS
  <2> QED
    BY <1>1, <1>3, <2>1
<1>4. Nat \subseteq S
  <2> HIDE DEF S
  <2> QED
    BY <1>2, <1>3, SetInduction
<1> QED
  BY <1>4

-----------------------------------------------------------------------------
(* The fields of a line *)

(* The scan of a line: the tokens up to each of its fields. *)
IsScan(t, s, n) ==
  t = [j \in 0 .. n |-> IF j = 0 THEN <<>>
                        ELSE IF s[j] = Empty THEN t[j - 1] ELSE Append(t[j - 1], s[j])]

(* There is such a scan. *)
LEMMA ScanExists ==
  ASSUME NEW S, NEW s \in Seq(S \union {Empty})
  PROVE  \E t \in [0 .. Len(s) -> Seq(S)] : IsScan(t, s, Len(s))
<1> DEFINE P == {n \in Nat : n =< Len(s) => \E t \in [0 .. n -> Seq(S)] : IsScan(t, s, n)}
<1>1. 0 \in P
  <2> DEFINE t == [j \in 0 .. 0 |-> <<>>]
  <2>1. t \in [0 .. 0 -> Seq(S)] /\ IsScan(t, s, 0)
    BY DEF IsScan
  <2> QED
    BY <2>1
<1>2. ASSUME NEW n \in Nat, n \in P
      PROVE  n + 1 \in P
  <2> SUFFICES ASSUME n + 1 =< Len(s)
               PROVE  \E t \in [0 .. (n + 1) -> Seq(S)] : IsScan(t, s, n + 1)
    OBVIOUS
  <2>1. PICK t \in [0 .. n -> Seq(S)] : IsScan(t, s, n)
    BY <1>2
  <2>2. \A j \in 0 .. n : t[j] = IF j = 0 THEN <<>>
                                 ELSE IF s[j] = Empty THEN t[j - 1]
                                 ELSE Append(t[j - 1], s[j])
    BY <2>1 DEF IsScan
  <2> DEFINE next == IF s[n + 1] = Empty THEN t[n] ELSE Append(t[n], s[n + 1])
             u == [j \in 0 .. (n + 1) |-> IF j =< n THEN t[j] ELSE next]
  <2>3. next \in Seq(S)
    <3>1. t[n] \in Seq(S) /\ s[n + 1] \in S \union {Empty}
      OBVIOUS
    <3> QED
      BY <3>1
  <2> HIDE DEF next
  <2>4. u \in [0 .. (n + 1) -> Seq(S)]
    BY <2>3
  <2>5. ASSUME NEW j \in 0 .. (n + 1)
        PROVE  u[j] = IF j = 0 THEN <<>>
                      ELSE IF s[j] = Empty THEN u[j - 1] ELSE Append(u[j - 1], s[j])
    <3>1. CASE j =< n /\ j # 0
      <4>1. u[j] = t[j] /\ u[j - 1] = t[j - 1] /\ j \in 0 .. n
        BY <3>1
      <4> HIDE DEF u
      <4> QED
        BY <3>1, <4>1, <2>2
    <3>2. CASE j = 0
      BY <3>2, <2>2
    <3>3. CASE j = n + 1
      <4>1. u[n + 1] = next /\ u[n] = t[n] /\ n + 1 # 0 /\ (n + 1) - 1 = n
        OBVIOUS
      <4> HIDE DEF u
      <4> QED
        BY <3>3, <4>1 DEF next
    <3> QED
      BY <3>1, <3>2, <3>3
  <2> HIDE DEF u
  <2>6. u = [j \in 0 .. (n + 1) |->
               IF j = 0 THEN <<>>
               ELSE IF s[j] = Empty THEN u[j - 1] ELSE Append(u[j - 1], s[j])]
    BY <2>4, <2>5
  <2> QED
    BY <2>4, <2>6 DEF IsScan
<1>3. Nat \subseteq P
  <2> HIDE DEF P
  <2> QED
    BY <1>1, <1>2, SetInduction
<1>4. Len(s) \in Nat
  OBVIOUS
<1> QED
  BY <1>3, <1>4

(* The tokens of a line are fields of it, and all of them when none is     *)
(* empty.                                                                  *)
LEMMA TokensOfLine ==
  ASSUME NEW n, NEW S, file[n] \in Seq(S \union {Empty})
  PROVE  /\ Tokens(n) \in Seq(S)
         /\ (\A k \in 1 .. Len(file[n]) : file[n][k] # Empty) => Tokens(n) = file[n]
<1> DEFINE s == file[n]
           t == CHOOSE t : IsScan(t, s, Len(s))
<1>1. PICK u \in [0 .. Len(s) -> Seq(S)] : IsScan(u, s, Len(s))
  BY ScanExists
<1>2. IsScan(t, s, Len(s)) /\ Tokens(n) = t[Len(s)]
  BY <1>1 DEF IsScan, Tokens
<1>3. s \in Seq(S \union {Empty}) /\ Len(s) \in Nat
  OBVIOUS
<1> HIDE DEF s, t
<1> DEFINE P == {j \in Nat : j =< Len(s) => t[j] \in Seq(S)}
           Q == {j \in Nat : j =< Len(s) =>
                   Len(t[j]) = j /\ \A i \in 1 .. j : t[j][i] = s[i]}
<1>4. t[0] = <<>>
  BY <1>2, <1>3 DEF IsScan
<1>5. ASSUME NEW j \in Nat, j + 1 =< Len(s)
      PROVE  t[j + 1] = IF s[j + 1] = Empty THEN t[j] ELSE Append(t[j], s[j + 1])
  <2>1. j + 1 \in 0 .. Len(s) /\ j + 1 # 0 /\ (j + 1) - 1 = j
    BY <1>3, <1>5
  <2>2. \A m \in 0 .. Len(s) :
          t[m] = IF m = 0 THEN <<>>
                 ELSE IF s[m] = Empty THEN t[m - 1] ELSE Append(t[m - 1], s[m])
    BY <1>2 DEF IsScan
  <2> QED
    BY <2>1, <2>2
<1>6. Nat \subseteq P
  <2>1. 0 \in P
    <3>1. <<>> \in Seq(S)
      OBVIOUS
    <3> QED
      BY <1>4, <3>1
  <2>2. ASSUME NEW j \in Nat, j \in P
        PROVE  j + 1 \in P
    <3> SUFFICES ASSUME j + 1 =< Len(s) PROVE t[j + 1] \in Seq(S)
      OBVIOUS
    <3>1. t[j] \in Seq(S) /\ s[j + 1] \in S \union {Empty}
      BY <1>3, <2>2
    <3>2. t[j + 1] = IF s[j + 1] = Empty THEN t[j] ELSE Append(t[j], s[j + 1])
      BY <1>5
    <3>3. s[j + 1] \in S => Append(t[j], s[j + 1]) \in Seq(S)
      BY <3>1
    <3> QED
      BY <3>1, <3>2, <3>3
  <2> HIDE DEF P
  <2> QED
    BY <2>1, <2>2, SetInduction
<1>7. ASSUME \A k \in 1 .. Len(s) : s[k] # Empty
      PROVE  t[Len(s)] = s
  <2>1. 0 \in Q
    BY <1>4
  <2>2. ASSUME NEW j \in Nat, j \in Q
        PROVE  j + 1 \in Q
    <3> SUFFICES ASSUME j + 1 =< Len(s)
                 PROVE  Len(t[j + 1]) = j + 1 /\ \A i \in 1 .. (j + 1) : t[j + 1][i] = s[i]
      OBVIOUS
    <3>1. t[j] \in Seq(S) /\ Len(t[j]) = j /\ \A i \in 1 .. j : t[j][i] = s[i]
      BY <1>3, <1>6, <2>2
    <3>2. s[j + 1] # Empty /\ s[j + 1] \in S
      BY <1>3, <1>7
    <3>3. t[j + 1] = Append(t[j], s[j + 1])
      BY <1>5, <3>2
    <3> QED
      BY <3>1, <3>2, <3>3
  <2>3. Nat \subseteq Q
    <3> HIDE DEF Q
    <3> QED
      BY <2>1, <2>2, SetInduction
  <2>4. Len(t[Len(s)]) = Len(s) /\ \A i \in 1 .. Len(s) : t[Len(s)][i] = s[i]
    BY <2>3, <1>3
  <2>5. t[Len(s)] \in Seq(S \union {Empty})
    BY <1>3, <1>6
  <2> HIDE DEF Q, P
  <2> QED
    BY <2>4, <2>5, <1>3
<1>8. t[Len(s)] \in Seq(S)
  BY <1>3, <1>6
<1> QED
  BY <1>2, <1>7, <1>8 DEF s

-----------------------------------------------------------------------------
(* The inductive invariant of the load and the queries *)

Value == Int \union {Word}
Header == Names \union Int \union {Word}

Column == [name : Header, isInt : BOOLEAN]
FileSchema ==
  [k \in 1 .. Len(file[1]) |-> [name |-> file[1][k], isInt |-> IsInt(file[2][k])]]

Width == Len(file[1])
ColumnsBefore(n) == {file[1][k] : k \in 1 .. (n - 1)}

(* What may have failed, and what may have been answered of n rows.        *)
Failures ==
  [del : BOOLEAN, cols : SUBSET (1 .. MaxCols), rows : SUBSET (1 .. Len(file))]
Answers(n) == [{"project", "aggregate"} -> SUBSET (1 .. n)]

(* The sum of some of the rows that are on the server, up to the n-th.     *)
RowsSum(rows, n) ==
  Sum([r \in 1 .. rowCount |-> IF r \in rows THEN RowSum(Hash(r)) ELSE 0], n)

Parsing == pc \in {"del", "schema", "row"}
Querying == pc \in DOMAIN QueryOrder

(* How far the load and the queries are. *)
PlaceInv ==
  /\ IsServer(redis) /\ schema \in Seq(Column)
  /\ results \in [sum : Int, total : Int, count : Nat]
  /\ pc = "config" => col =< Len(Commands) + 1
  /\ pc \in {"connect", "open", "del"} => col = 1
  /\ Parsing => Len(file) >= 2
  /\ pc = "row" => line \in 2 .. Len(file) /\ row \in 1 .. (line - 1)
  /\ pc \in {"schema", "row"} => col =< Len(schema) + 1
  /\ Querying => row \in 1 .. (rowCount + 1)
  /\ pc = "project" => count =< row - 1
  /\ pc \in {"connect", "config", "open", "gauss", "all"} \/ Parsing =>
       sum = 0 /\ count = 0 /\ results = NoResults /\ answered = NoneAnswered
  /\ pc \in {"connect", "config", "open", "del"} => refused.cols = {}
  /\ pc = "schema" => refused.cols \subseteq 1 .. (col - 1)
  /\ pc \in {"connect", "config", "open"} \/ Parsing => missed = {}
  /\ pc \in {"project", "aggregate"} => answered[pc] \subseteq 1 .. (row - 1)
  /\ pc = "project" => answered["aggregate"] = {}

(* The commands of the mode that have been sent. *)
ModeInv ==
  pc = "config" /\ ~ignored =>
    /\ persistent =>
         /\ col > 1 => conf.appendonly = "yes"
         /\ col > 3 => conf.save = "60 1"
    /\ ~persistent =>
         /\ col > 1 => conf.save = ""
         /\ col > 2 => conf.appendonly = "no"

(* The stored schema with the columns before the n-th, but for some.       *)
StoredSchema(n, but) ==
  [name \in {file[1][k] : k \in (1 .. (n - 1)) \ but} |->
     \E k \in IntColumns : file[1][k] = name]

SchemaInv ==
  WellFormed =>
    /\ Parsing \/ Querying => schema = FileSchema
    /\ pc = "schema" /\ ~refused.del =>
         redis.schema = StoredSchema(col, refused.cols)
    /\ (pc = "row" \/ Querying) /\ ~refused.del =>
         redis.schema = StoredSchema(Width + 1, refused.cols)

(* The first n fields of a line are in its row. *)
Holds(line_, n) ==
  \A k \in 1 .. n : /\ file[1][k] \in DOMAIN Hash(RowOf(line_))
                    /\ Hash(RowOf(line_))[file[1][k]] = file[line_][k]

(* Each data line so far has a row of its own, with its fields in it.      *)
RowsInv ==
  WellFormed /\ pc = "row" =>
    /\ row = RowOf(line)
    /\ line \notin DataLines => col = Width + 1
    /\ \A n \in 1 .. (line - 1) :
         RowOf(n) =< row /\ (line \in DataLines => RowOf(n) < row)
    /\ \A n \in DataLines :
         n < line /\ RowOf(n) \notin refused.rows => Holds(n, Width)
    /\ line \in DataLines /\ row \notin refused.rows => Holds(line, col - 1)
    /\ \A r \in (1 .. (row - 1)) \ refused.rows :
         ColumnsBefore(Width + 1) \subseteq DOMAIN Hash(r)
    /\ row \notin refused.rows => ColumnsBefore(col) \subseteq DOMAIN Hash(row)

(* So it is in the queries. *)
QueryInv ==
  WellFormed /\ Querying =>
    /\ rowCount = RowOf(Len(file))
    /\ \A n \in 1 .. Len(file) : RowOf(n) =< rowCount
    /\ \A n \in DataLines : RowOf(n) \notin refused.rows => Holds(n, Width)
    /\ \A r \in (1 .. rowCount) \ refused.rows :
         ColumnsBefore(Width + 1) \subseteq DOMAIN Hash(r)

(* A result is what the file says of the rows that have been answered.     *)
SumOf(result, rows) ==
  rows \intersect refused.rows = {} => result = FileSum(rows)

(* A query adds up the rows it is answered, in their order. *)
SumInv ==
  WellFormed =>
    /\ missed \subseteq refused.rows
    /\ pc \in {"project", "aggregate"} => sum = RowsSum(answered[pc], row - 1)
    /\ pc = "project" => count = Cardinality(answered["project"])
    /\ pc \in {"aggregate", "end"} =>
         /\ results.count = Cardinality(answered["project"])
         /\ SumOf(results.total, answered["project"])
    /\ pc = "end" => SumOf(results.sum, answered["aggregate"])

TypeInv == RedisTypeOK /\ PlaceInv

LoadInv ==
  /\ TypeInv /\ ModeInv /\ ModeIsAsPrinted
  /\ SchemaInv /\ RowsInv /\ QueryInv /\ SumInv

-----------------------------------------------------------------------------
(* The file *)

(* A file is a sequence of lines, which are sequences of fields.           *)
LEMMA FileTypes ==
  ASSUME file \in Files
  PROVE  /\ Len(file) \in Nat
         /\ \A n \in 1 .. Len(file) :
              /\ file[n] \in Seq(Header) /\ file[n] # <<>>
              /\ Len(file[n]) \in Nat \ {0} /\ DOMAIN file[n] = 1 .. Len(file[n])
         /\ \A n \in 2 .. Len(file) : file[n] \in Seq(Int \union {Word, Empty})
<1>1. /\ file \in Seq(Seq(Header) \ {<<>>})
      /\ \A n \in 2 .. Len(file) : file[n] \in Seq(Int \union {Word, Empty})
  BY FilesAssumption DEF Header
<1>2. Len(file) \in Nat /\ \A n \in 1 .. Len(file) : file[n] \in Seq(Header) \ {<<>>}
  BY <1>1
<1>3. \A s \in Seq(Header) : s # <<>> => Len(s) \in Nat \ {0} /\ DOMAIN s = 1 .. Len(s)
  BY EmptySeq, LenProperties
<1> QED
  BY <1>1, <1>2, <1>3

(* The tokens of a data line are numbers and words, those of the header    *)
(* may be names.                                                           *)
LEMMA TokenTypes ==
  ASSUME file \in Files
  PROVE  /\ \A n \in 2 .. Len(file) : Tokens(n) \in Seq(Value)
         /\ 1 =< Len(file) => Tokens(1) \in Seq(Header)
<1>1. ASSUME NEW n \in 2 .. Len(file)
      PROVE  Tokens(n) \in Seq(Value)
  <2>1. file[n] \in Seq(Int \union {Word, Empty})
    BY FileTypes
  <2>2. Int \union {Word, Empty} = Value \union {Empty}
    BY DEF Value
  <2>3. file[n] \in Seq(Value \union {Empty})
    BY <2>1, <2>2
  <2> QED
    BY <2>3, TokensOfLine
<1>2. ASSUME 1 =< Len(file)
      PROVE  Tokens(1) \in Seq(Header)
  <2>1. file[1] \in Seq(Header)
    BY <1>2, FileTypes
  <2>2. file[1] \in Seq(Header \union {Empty})
    BY <2>1, SeqMonotonic
  <2> QED
    BY <2>2, TokensOfLine
<1> QED
  BY <1>1, <1>2

(* A well-formed file has no field that strtok_r skips. *)
LEMMA WellFormedTokens ==
  ASSUME file \in Files, WellFormed, NEW n \in DataLines \union {1}
  PROVE  /\ Tokens(n) = file[n] /\ Len(file[n]) = Width
         /\ n \in 1 .. Len(file)
         /\ n \in DataLines => n \in 2 .. Len(file)
<1>1. Len(file) \in Nat /\ Len(file) >= 2
  BY FileTypes DEF WellFormed
<1>2. n \in 1 .. Len(file) /\ (n \in DataLines => n \in 2 .. Len(file))
  BY <1>1 DEF DataLines
<1>3. /\ Len(file[n]) = Width
      /\ \A k \in 1 .. Len(file[n]) : file[n][k] # Empty
  <2>1. DOMAIN file[n] = 1 .. Len(file[n])
    BY <1>2, FileTypes
  <2> QED
    BY <2>1 DEF WellFormed, Width
<1>4. file[n] \in Seq(Header \union {Empty})
  <2>1. file[n] \in Seq(Header)
    BY <1>2, FileTypes
  <2> QED
    BY <2>1, SeqMonotonic
<1>5. Tokens(n) = file[n]
  BY <1>3, <1>4, TokensOfLine
<1> QED
  BY <1>2, <1>3, <1>5

(* The names of the columns, at most MaxCols. *)
LEMMA HeaderNames ==
  ASSUME file \in Files, 1 =< Len(file)
  PROVE  /\ AtMost(MaxCols, Tokens(1)) \in Seq(Header)
         /\ Len(AtMost(MaxCols, Tokens(1))) =< MaxCols
<1> DEFINE names == AtMost(MaxCols, Tokens(1))
<1>1. Tokens(1) \in Seq(Header)
  BY TokenTypes
<1>2. Len(Tokens(1)) \in Nat /\ MaxCols \in Nat
  BY <1>1, MaxColsAssumption
<1>3. CASE Len(Tokens(1)) =< MaxCols
  BY <1>1, <1>2, <1>3 DEF AtMost
<1>4. CASE Len(Tokens(1)) > MaxCols
  <2>1. names = SubSeq(Tokens(1), 1, MaxCols)
    BY <1>2, <1>4 DEF AtMost
  <2>2. \A k \in 1 .. MaxCols : Tokens(1)[k] \in Header
    BY <1>1, <1>2, <1>4
  <2>3. MaxCols \in Int /\ 1 \in Int /\ 1 =< MaxCols
    BY MaxColsAssumption
  <2>4. /\ SubSeq(Tokens(1), 1, MaxCols) \in Seq(Header)
        /\ Len(SubSeq(Tokens(1), 1, MaxCols)) = IF 1 =< MaxCols THEN MaxCols - 1 + 1 ELSE 0
    BY <2>2, <2>3, SubSeqProperties
  <2> QED
    BY <2>1, <2>3, <2>4
<1> QED
  BY <1>2, <1>3, <1>4

(* A column for each name. *)
LEMMA ColumnTypes ==
  ASSUME NEW names \in Seq(Header), Len(names) =< MaxCols,
         NEW isInt \in [1 .. Len(names) -> BOOLEAN],
         NEW s, s = [k \in DOMAIN names |-> [name |-> names[k], isInt |-> isInt[k]]]
  PROVE  s \in Seq(Column) /\ Len(s) =< MaxCols
<1>1. Len(names) \in Nat /\ DOMAIN names = 1 .. Len(names)
      /\ \A k \in 1 .. Len(names) : names[k] \in Header
  BY LenProperties
<1>2. s \in [1 .. Len(names) -> Column]
  BY <1>1 DEF Column
<1>3. s \in Seq(Column) /\ Len(s) = Len(names)
  BY <1>1, <1>2
<1> QED
  BY <1>1, <1>3

(* What comes of the header and of the first row. *)
LEMMA SchemaTypes ==
  ASSUME file \in Files, Len(file) >= 2
  PROVE  ParsedSchema \in Seq(Column) /\ Len(ParsedSchema) =< MaxCols
<1> DEFINE names == AtMost(MaxCols, Tokens(1))
           first == Tokens(2)
           isInt == [k \in 1 .. Len(names) |-> k \in DOMAIN first => IsInt(first[k])]
<1>1. names \in Seq(Header) /\ Len(names) =< MaxCols
  BY FileTypes, HeaderNames
<1>2. DOMAIN names = 1 .. Len(names)
  BY <1>1, LenProperties
<1>3. ParsedSchema = [k \in DOMAIN names |->
                        [name |-> names[k], isInt |-> k \in DOMAIN first => IsInt(first[k])]]
  BY DEF ParsedSchema
<1> HIDE DEF names, first
<1>4. isInt \in [1 .. Len(names) -> BOOLEAN]
  OBVIOUS
<1>5. ParsedSchema = [k \in DOMAIN names |-> [name |-> names[k], isInt |-> isInt[k]]]
  BY <1>2, <1>3
<1> HIDE DEF isInt
<1> QED
  BY <1>1, <1>4, <1>5, ColumnTypes

(* What comes of a header without a row. *)
LEMMA HeaderTypes ==
  ASSUME file \in Files, ParseFails
  PROVE  schema' \in Seq(Column) /\ Len(schema') =< MaxCols
<1>1. CASE file = <<>>
  <2>1. schema' = <<>>
    BY <1>1 DEF ParseFails
  <2> QED
    BY <2>1, MaxColsAssumption
<1>2. CASE file # <<>>
  <2> DEFINE names == AtMost(MaxCols, Tokens(1))
             isInt == [k \in 1 .. Len(names) |-> TRUE]
  <2>1. schema' = [k \in DOMAIN names |-> [name |-> names[k], isInt |-> TRUE]]
    BY <1>2 DEF ParseFails
  <2>2. 1 =< Len(file)
    <3>1. file \in Seq(Seq(Header) \ {<<>>})
      BY FilesAssumption DEF Header
    <3> QED
      BY <1>2, <3>1, EmptySeq
  <2>3. names \in Seq(Header) /\ Len(names) =< MaxCols
    BY <2>2, HeaderNames
  <2>4. DOMAIN names = 1 .. Len(names)
    BY <2>3, LenProperties
  <2> HIDE DEF names
  <2>5. isInt \in [1 .. Len(names) -> BOOLEAN]
    OBVIOUS
  <2>6. schema' = [k \in DOMAIN names |-> [name |-> names[k], isInt |-> isInt[k]]]
    BY <2>1, <2>4
  <2> HIDE DEF isInt
  <2> QED
    BY <2>3, <2>5, <2>6, ColumnTypes
<1> QED
  BY <1>1, <1>2

(* For a well-formed file that is the file's schema. *)
LEMMA SchemaParsed ==
  ASSUME file \in Files, WellFormed
  PROVE  ParsedSchema = FileSchema
<1>1. 2 \in DataLines /\ Len(file[1]) =< MaxCols
  BY DEF WellFormed
<1>2. /\ Tokens(1) = file[1] /\ Tokens(2) = file[2]
      /\ Len(file[2]) = Len(file[1]) /\ 1 \in 1 .. Len(file) /\ 2 \in 1 .. Len(file)
  <2>1. 1 \in DataLines \union {1} /\ 2 \in DataLines \union {1}
    BY <1>1
  <2>2. Tokens(1) = file[1] /\ 1 \in 1 .. Len(file)
    BY <2>1, WellFormedTokens
  <2>3. Tokens(2) = file[2] /\ Len(file[2]) = Width /\ 2 \in 1 .. Len(file)
    BY <2>1, WellFormedTokens
  <2> QED
    BY <2>2, <2>3 DEF Width
<1>3. DOMAIN file[1] = 1 .. Len(file[1]) /\ DOMAIN file[2] = 1 .. Len(file[1])
  BY <1>2, FileTypes
<1>4. AtMost(MaxCols, Tokens(1)) = file[1]
  BY <1>1, <1>2 DEF AtMost
<1>5. ParsedSchema =
        [k \in 1 .. Len(file[1]) |->
           [name |-> file[1][k], isInt |-> k \in 1 .. Len(file[1]) => IsInt(file[2][k])]]
  BY <1>2, <1>3, <1>4 DEF ParsedSchema
<1>6. \A k \in 1 .. Len(file[1]) :
        (k \in 1 .. Len(file[1]) => IsInt(file[2][k])) = IsInt(file[2][k])
  BY DEF IsInt
<1> QED
  BY <1>5, <1>6 DEF FileSchema

(* Data lines are counted one after the other. *)
LEMMA RowOfLine ==
  ASSUME file \in Files
  PROVE  /\ RowOf(0) = 0
         /\ \A n \in 0 .. Len(file) : RowOf(n) \in Int
         /\ \A n \in 1 .. Len(file) :
              RowOf(n) = RowOf(n - 1) + (IF n \in DataLines THEN 1 ELSE 0)
         /\ 1 =< Len(file) => RowOf(1) = 0
<1> DEFINE g == [m \in 1 .. Len(file) |-> IF m \in DataLines THEN 1 ELSE 0]
<1>1. Len(file) \in Nat /\ g \in [1 .. Len(file) -> Int]
  BY FileTypes
<1>2. \A n \in 1 .. Len(file) : g[n] = IF n \in DataLines THEN 1 ELSE 0
  OBVIOUS
<1>3. \A n : RowOf(n) = Sum(g, n)
  BY DEF RowOf
<1> HIDE DEF g
<1>4. /\ Sum(g, 0) = 0
      /\ \A n \in 0 .. Len(file) : Sum(g, n) \in Int
      /\ \A n \in 1 .. Len(file) : Sum(g, n) = Sum(g, n - 1) + g[n]
  BY <1>1, SumStep
<1>5. \A n \in 1 .. Len(file) :
        RowOf(n) = RowOf(n - 1) + (IF n \in DataLines THEN 1 ELSE 0)
  BY <1>2, <1>3, <1>4
<1>6. 1 =< Len(file) => RowOf(1) = 0
  <2>1. 1 \notin DataLines
    BY DEF DataLines
  <2> QED
    BY <1>1, <1>3, <1>4, <1>5, <2>1
<1> QED
  BY <1>3, <1>4, <1>5, <1>6

(* All of this depends on the file alone, and that does not change.        *)
LEMMA SameFile ==
  ASSUME file' = file
  PROVE  /\ WellFormed' <=> WellFormed
         /\ DataLines' = DataLines /\ IntColumns' = IntColumns
         /\ FileSchema' = FileSchema /\ Width' = Width
         /\ \A rows : FileSum(rows)' = FileSum(rows)
         /\ \A n : RowOf(n)' = RowOf(n)
         /\ \A n : ColumnsBefore(n)' = ColumnsBefore(n)
         /\ \A n, but : StoredSchema(n, but)' = StoredSchema(n, but)
<1>1. DataLines' = DataLines /\ IntColumns' = IntColumns /\ Width' = Width
      /\ FileSchema' = FileSchema
  BY DEF DataLines, IntColumns, Width, FileSchema, IsInt
<1>2. WellFormed' <=> WellFormed
  BY <1>1 DEF WellFormed
<1>3. \A n : LineSum(n)' = LineSum(n)
  BY <1>1 DEF LineSum, Atoll
<1>4. \A n : RowOf(n)' = RowOf(n)
  BY <1>1 DEF RowOf
<1>5. \A rows : FileSum(rows)' = FileSum(rows)
  BY <1>1, <1>3, <1>4 DEF FileSum
<1>6. \A n : ColumnsBefore(n)' = ColumnsBefore(n)
  BY DEF ColumnsBefore
<1>7. \A n, but : StoredSchema(n, but)' = StoredSchema(n, but)
  BY <1>1 DEF StoredSchema
<1> QED
  BY <1>1, <1>2, <1>4, <1>5, <1>6, <1>7

-----------------------------------------------------------------------------
(* Rows and their sums *)

(* What the types say of the numbers. *)
LEMMA Numbers ==
  ASSUME TypeInv
  PROVE  /\ Len(file) \in Nat /\ MaxCols \in Nat /\ Len(schema) \in Nat
         /\ line \in Nat /\ row \in Nat /\ col \in Nat /\ rowCount \in Nat
         /\ count \in Nat /\ sum \in Int
         /\ rowCount =< Len(file) /\ count =< rowCount
         /\ Len(schema) =< MaxCols
<1>1. Len(file) \in Nat /\ MaxCols \in Nat /\ Len(schema) \in Nat
  BY FileTypes, MaxColsAssumption DEF TypeInv, RedisTypeOK, PlaceInv
<1>2. /\ line \in 1 .. (Len(file) + 1) /\ row \in 0 .. (Len(file) + 1)
      /\ col \in 1 .. (IF pc = "config" THEN 4 ELSE MaxCols + 1)
      /\ rowCount \in 0 .. Len(file) /\ sum \in Int /\ count \in 0 .. rowCount
      /\ Len(schema) =< MaxCols
  BY DEF TypeInv, RedisTypeOK
<1>3. col \in Nat
  <2>1. CASE pc = "config"
    BY <1>2, <2>1
  <2>2. CASE pc # "config"
    BY <1>1, <1>2, <2>2
  <2> QED
    BY <2>1, <2>2
<1>4. rowCount \in Nat
  BY <1>1, <1>2
<1> QED
  BY <1>1, <1>2, <1>3, <1>4

(* What is found in a hash is a number or a word. *)
LEMMA HashTypes ==
  ASSUME IsServer(redis), NEW r
  PROVE  \A x \in DOMAIN Hash(r) : Hash(r)[x] \in Value
<1>1. DOMAIN NoHash = {}
  BY DEF NoHash
<1> QED
  BY <1>1 DEF IsServer, Hash, Value

(* So a row has a sum. *)
LEMMA RowSumType ==
  ASSUME TypeInv, NEW r
  PROVE  RowSum(Hash(r)) \in Int
<1> DEFINE hash == Hash(r)
           N == Len(schema)
           g == [k \in 1 .. N |-> IF schema[k].isInt /\ schema[k].name \in DOMAIN hash
                                  THEN Atoll(hash[schema[k].name]) ELSE 0]
<1>1. N \in Nat /\ \A x \in DOMAIN hash : hash[x] \in Value
  BY HashTypes DEF TypeInv, PlaceInv
<1>2. \A v \in Value : Atoll(v) \in Int
  BY DEF Value, Atoll
<1>3. RowSum(hash) = Sum(g, N)
  BY DEF RowSum
<1> HIDE DEF hash, N
<1>4. g \in [1 .. N -> Int]
  BY <1>1, <1>2
<1> HIDE DEF g
<1>5. N \in 0 .. N
  BY <1>1
<1>6. Sum(g, N) \in Int
  BY <1>1, <1>4, <1>5, SumStep
<1> QED
  BY <1>3, <1>6 DEF hash

(* The rows are added up in their order. *)
LEMMA RowsSumStep ==
  ASSUME TypeInv, NEW rows
  PROVE  /\ RowsSum(rows, 0) = 0
         /\ \A n \in 0 .. rowCount : RowsSum(rows, n) \in Int
         /\ \A n \in 1 .. rowCount :
              RowsSum(rows, n) = RowsSum(rows, n - 1) +
                                   (IF n \in rows THEN RowSum(Hash(n)) ELSE 0)
<1> DEFINE g == [r \in 1 .. rowCount |-> IF r \in rows THEN RowSum(Hash(r)) ELSE 0]
<1>1. rowCount \in Nat
  BY FileTypes DEF TypeInv, RedisTypeOK
<1>2. /\ g \in [1 .. rowCount -> Int]
      /\ \A n \in 1 .. rowCount : g[n] = IF n \in rows THEN RowSum(Hash(n)) ELSE 0
  BY RowSumType
<1>3. \A n : RowsSum(rows, n) = Sum(g, n)
  BY DEF RowsSum
<1> HIDE DEF g
<1>4. /\ Sum(g, 0) = 0
      /\ \A n \in 0 .. rowCount : Sum(g, n) \in Int
      /\ \A n \in 1 .. rowCount : Sum(g, n) = Sum(g, n - 1) + g[n]
  BY <1>1, <1>2, SumStep
<1> QED
  BY <1>2, <1>3, <1>4

(* Up to a row, the sum depends on no later row. *)
LEMMA RowsSumSame ==
  ASSUME TypeInv, NEW rows, NEW others, NEW m \in 0 .. rowCount,
         \A r \in 1 .. m : r \in rows <=> r \in others
  PROVE  RowsSum(rows, m) = RowsSum(others, m)
<1> DEFINE S == {n \in Nat : n =< m => RowsSum(rows, n) = RowsSum(others, n)}
<1>1. rowCount \in Nat /\ m \in Nat /\ m =< rowCount
  BY Numbers
<1>2. 0 \in S
  BY RowsSumStep
<1>3. /\ \A n \in 1 .. rowCount :
           RowsSum(rows, n) = RowsSum(rows, n - 1) +
                                (IF n \in rows THEN RowSum(Hash(n)) ELSE 0)
      /\ \A n \in 1 .. rowCount :
           RowsSum(others, n) = RowsSum(others, n - 1) +
                                  (IF n \in others THEN RowSum(Hash(n)) ELSE 0)
  BY RowsSumStep
<1>4. ASSUME NEW n \in Nat, n \in S
      PROVE  n + 1 \in S
  <2> SUFFICES ASSUME n + 1 =< m
               PROVE  RowsSum(rows, n + 1) = RowsSum(others, n + 1)
    OBVIOUS
  <2>1. /\ n + 1 \in 1 .. rowCount /\ n + 1 \in 1 .. m /\ (n + 1) - 1 = n
        /\ RowsSum(rows, n) = RowsSum(others, n)
    BY <1>1, <1>4
  <2> DEFINE x == IF n + 1 \in rows THEN RowSum(Hash(n + 1)) ELSE 0
             y == IF n + 1 \in others THEN RowSum(Hash(n + 1)) ELSE 0
  <2>2. RowsSum(rows, n + 1) = RowsSum(rows, n) + x
    BY <1>3, <2>1
  <2>3. RowsSum(others, n + 1) = RowsSum(others, n) + y
    BY <1>3, <2>1
  <2>4. x = y
    BY <2>1
  <2> HIDE DEF x, y
  <2> QED
    BY <2>1, <2>2, <2>3, <2>4
<1>5. Nat \subseteq S
  <2> HIDE DEF S
  <2> QED
    BY <1>2, <1>4, SetInduction
<1> QED
  BY <1>1, <1>5

(* The schema of a well-formed file has its columns. *)
LEMMA SchemaColumns ==
  ASSUME file \in Files, WellFormed
  PROVE  /\ Width \in Nat \ {0} /\ DOMAIN file[1] = 1 .. Width
         /\ Len(FileSchema) = Width
         /\ \A k \in 1 .. Width : FileSchema[k].name = file[1][k]
                                  /\ FileSchema[k].isInt = (k \in IntColumns)
<1> DEFINE N == Len(file[1])
           s == FileSchema
<1>1. N \in Nat \ {0} /\ DOMAIN file[1] = 1 .. N
  BY FileTypes DEF WellFormed
<1>2. /\ DOMAIN s = 1 .. N
      /\ \A k \in 1 .. N : s[k].name = file[1][k] /\ s[k].isInt = IsInt(file[2][k])
  BY DEF FileSchema
<1>3. s \in [1 .. N -> {s[k] : k \in 1 .. N}]
  BY DEF FileSchema
<1> HIDE DEF s
<1>4. s \in Seq({s[k] : k \in 1 .. N})
  BY <1>1, <1>3
<1>5. Len(s) = N
  BY <1>1, <1>2, <1>4, LenProperties
<1>6. \A k \in 1 .. N : IsInt(file[2][k]) = (k \in IntColumns)
  BY <1>1 DEF IntColumns, IsInt
<1> QED
  BY <1>1, <1>2, <1>5, <1>6 DEF Width, s

(* The row of a data line has the sum of the line. *)
LEMMA RowSumOfLine ==
  ASSUME file \in Files, WellFormed, schema = FileSchema,
         NEW n \in DataLines, Holds(n, Width)
  PROVE  RowSum(Hash(RowOf(n))) = LineSum(n)
<1> DEFINE hash == Hash(RowOf(n))
           N == Len(file[1])
<1>1. N \in Nat /\ DOMAIN file[1] = 1 .. N
  BY FileTypes DEF WellFormed
<1>2. \A k \in 1 .. N : file[1][k] \in DOMAIN hash /\ hash[file[1][k]] = file[n][k]
  BY DEF Holds, Width
<1>3. RowSum(hash) =
        Sum([k \in 1 .. Len(schema) |->
               IF schema[k].isInt /\ schema[k].name \in DOMAIN hash
               THEN Atoll(hash[schema[k].name]) ELSE 0], Len(schema))
  BY DEF RowSum
<1>4. /\ Len(schema) = N
      /\ \A k \in 1 .. N : schema[k].name = file[1][k]
                           /\ schema[k].isInt = (k \in IntColumns)
  BY SchemaColumns DEF Width
<1> HIDE DEF hash
<1>5. \A k \in 1 .. N :
        (IF schema[k].isInt /\ schema[k].name \in DOMAIN hash
         THEN Atoll(hash[schema[k].name]) ELSE 0) =
        (IF k \in IntColumns THEN Atoll(file[n][k]) ELSE 0)
  BY <1>2, <1>4
<1> HIDE DEF N
<1>6. [k \in 1 .. Len(schema) |->
         IF schema[k].isInt /\ schema[k].name \in DOMAIN hash
         THEN Atoll(hash[schema[k].name]) ELSE 0] =
      [k \in 1 .. N |-> IF k \in IntColumns THEN Atoll(file[n][k]) ELSE 0]
  BY <1>4, <1>5
<1>7. LineSum(n) =
        Sum([k \in 1 .. N |-> IF k \in IntColumns THEN Atoll(file[n][k]) ELSE 0], N)
  BY DEF LineSum, N
<1>8. RowSum(hash) = LineSum(n)
  BY <1>3, <1>4, <1>6, <1>7
<1> QED
  BY <1>8 DEF hash

(***************************************************************************)
(* With its data lines in them, the sum of some of the rows is the file's: *)
(* by induction over the lines, for the rows that the lines so far have.   *)
(***************************************************************************)
LEMMA SumOfRows ==
  ASSUME TypeInv, WellFormed, schema = FileSchema, NEW rows,
         rowCount = RowOf(Len(file)),
         \A n \in 1 .. Len(file) : RowOf(n) =< rowCount,
         \A n \in DataLines : RowOf(n) \in rows => Holds(n, Width)
  PROVE  RowsSum(rows, rowCount) = FileSum(rows)
<1>1. file \in Files /\ Len(file) \in Nat /\ Len(file) >= 2
  BY FileTypes DEF TypeInv, RedisTypeOK, WellFormed
<1>2. \A n \in DataLines : RowOf(n) \in rows =>
        RowSum(Hash(RowOf(n))) = LineSum(n) /\ LineSum(n) \in Int
  BY <1>1, RowSumOfLine, RowSumType
<1> DEFINE h == [n \in 1 .. Len(file) |->
                   IF n \in DataLines /\ RowOf(n) \in rows THEN LineSum(n) ELSE 0]
           S == {n \in Nat : n =< Len(file) =>
                   RowOf(n) \in Nat /\ Sum(h, n) = RowsSum(rows, RowOf(n))}
<1>3. /\ h \in [1 .. Len(file) -> Int]
      /\ \A n \in 1 .. Len(file) :
           h[n] = IF n \in DataLines /\ RowOf(n) \in rows THEN LineSum(n) ELSE 0
  BY <1>2
<1>4. FileSum(rows) = Sum(h, Len(file))
  BY DEF FileSum
<1> HIDE DEF h
<1>5. /\ Sum(h, 0) = 0
      /\ \A n \in 0 .. Len(file) : Sum(h, n) \in Int
      /\ \A n \in 1 .. Len(file) : Sum(h, n) = Sum(h, n - 1) + h[n]
  BY <1>1, <1>3, SumStep
<1>6. 0 \in S
  BY <1>1, <1>5, RowOfLine, RowsSumStep
<1>7. ASSUME NEW n \in Nat, n \in S
      PROVE  n + 1 \in S
  <2> SUFFICES ASSUME n + 1 =< Len(file)
               PROVE  /\ RowOf(n + 1) \in Nat
                      /\ Sum(h, n + 1) = RowsSum(rows, RowOf(n + 1))
    OBVIOUS
  <2>1. n + 1 \in 1 .. Len(file) /\ (n + 1) - 1 = n
    BY <1>1
  <2>2. RowOf(n) \in Nat /\ Sum(h, n) = RowsSum(rows, RowOf(n)) /\ Sum(h, n) \in Int
    BY <1>1, <1>5, <1>7, <2>1
  <2>3. /\ RowOf(n + 1) = RowOf(n) + (IF n + 1 \in DataLines THEN 1 ELSE 0)
        /\ Sum(h, n + 1) = Sum(h, n) + h[n + 1]
        /\ RowOf(n + 1) =< rowCount
    BY <1>1, <1>5, <2>1, RowOfLine
  <2>4. CASE n + 1 \notin DataLines
    <3>1. h[n + 1] = 0
      BY <1>3, <2>1, <2>4
    <3> QED
      BY <2>2, <2>3, <2>4, <3>1
  <2>5. CASE n + 1 \in DataLines
    <3> DEFINE x == IF RowOf(n + 1) \in rows THEN RowSum(Hash(RowOf(n + 1))) ELSE 0
    <3>1. h[n + 1] = x
      BY <1>2, <1>3, <2>1, <2>5
    <3>2. rowCount \in Int
      BY <1>1 DEF TypeInv, RedisTypeOK
    <3>3. RowOf(n + 1) = RowOf(n) + 1 /\ RowOf(n + 1) \in 1 .. rowCount
          /\ RowOf(n + 1) - 1 = RowOf(n)
      BY <2>2, <2>3, <2>5, <3>2
    <3>4. RowsSum(rows, RowOf(n + 1)) = RowsSum(rows, RowOf(n + 1) - 1) + x
      BY <3>3, RowsSumStep
    <3> HIDE DEF x
    <3> QED
      BY <2>2, <2>3, <3>1, <3>3, <3>4
  <2> QED
    BY <2>4, <2>5
<1>8. Nat \subseteq S
  <2> HIDE DEF S
  <2> QED
    BY <1>6, <1>7, SetInduction
<1>9. Sum(h, Len(file)) = RowsSum(rows, RowOf(Len(file)))
  BY <1>1, <1>8
<1> QED
  BY <1>4, <1>9

(* The sum over no rows. *)
LEMMA NoFileSum ==
  ASSUME file \in Files
  PROVE  FileSum({}) = 0
<1> DEFINE h == [n \in 1 .. Len(file) |->
                   IF n \in DataLines /\ RowOf(n) \in {} THEN LineSum(n) ELSE 0]
<1>1. Len(file) \in Nat
  BY FileTypes
<1>2. h \in [1 .. Len(file) -> Int] /\ \A n \in 1 .. Len(file) : h[n] = 0
  OBVIOUS
<1>3. FileSum({}) = Sum(h, Len(file))
  BY DEF FileSum
<1> HIDE DEF h
<1> QED
  BY <1>1, <1>2, <1>3, SumOfZeros

(* What is on the server, while no command changes it. *)
LEMMA SameRows ==
  ASSUME file' = file, redis' = redis
  PROVE  /\ \A r : Hash(r)' = Hash(r)
         /\ \A n, m : Holds(n, m)' <=> Holds(n, m)
<1>1. \A r : Hash(r)' = Hash(r)
  BY DEF Hash
<1>2. \A n : RowOf(n)' = RowOf(n)
  BY SameFile
<1> QED
  BY <1>1, <1>2 DEF Holds

(* Nor do their sums change. *)
LEMMA SameSums ==
  ASSUME redis' = redis, schema' = schema, rowCount' = rowCount
  PROVE  \A rows, n : RowsSum(rows, n)' = RowsSum(rows, n)
<1>1. \A r : Hash(r)' = Hash(r)
  BY DEF Hash
<1>2. \A r : RowSum(Hash(r))' = RowSum(Hash(r))
  BY <1>1 DEF RowSum, Atoll
<1> QED
  BY <1>2 DEF RowsSum

-----------------------------------------------------------------------------
(* Types, and how far the load and the queries are *)

(* The queries come one after the other. *)
LEMMA Queries ==
  /\ DOMAIN QueryOrder = {"gauss", "all", "project", "aggregate"}
  /\ QueryOrder["gauss"] = "all" /\ QueryOrder["all"] = "project"
  /\ QueryOrder["project"] = "aggregate" /\ QueryOrder["aggregate"] = "end"
  BY DEF QueryOrder

(* A setting of the server is replaced. *)
LEMMA SettingReplaced ==
  ASSUME NEW s \in Settings, NEW key, NEW value,
         \/ key = "save" /\ value \in {"", "60 1"}
         \/ key = "appendonly" /\ value \in {"yes", "no"}
         \/ key = "appendfsync" /\ value = "everysec"
  PROVE  /\ [s EXCEPT ![key] = value] \in Settings
         /\ [s EXCEPT ![key] = value].save = IF key = "save" THEN value ELSE s.save
         /\ [s EXCEPT ![key] = value].appendonly =
              IF key = "appendonly" THEN value ELSE s.appendonly
<1>1. CASE key = "save" /\ value \in {"", "60 1"}
  BY <1>1 DEF Settings
<1>2. CASE key = "appendonly" /\ value \in {"yes", "no"}
  BY <1>2 DEF Settings
<1>3. CASE key = "appendfsync" /\ value = "everysec"
  BY <1>3 DEF Settings
<1> QED
  BY <1>1, <1>2, <1>3

(* The commands of the two modes. *)
LEMMA ModeCommands ==
  /\ persistent =>
       /\ Len(Commands) = 3
       /\ Commands[1][1] = "appendonly" /\ Commands[1][2] = "yes"
       /\ Commands[2][1] = "appendfsync" /\ Commands[2][2] = "everysec"
       /\ Commands[3][1] = "save" /\ Commands[3][2] = "60 1"
  /\ ~persistent =>
       /\ Len(Commands) = 2
       /\ Commands[1][1] = "save" /\ Commands[1][2] = ""
       /\ Commands[2][1] = "appendonly" /\ Commands[2][2] = "no"
  BY DEF Commands

(* Each of them sets what a server has. *)
LEMMA ModeSettings ==
  ASSUME NEW k \in 1 .. Len(Commands)
  PROVE  \/ Commands[k][1] = "save" /\ Commands[k][2] \in {"", "60 1"}
         \/ Commands[k][1] = "appendonly" /\ Commands[k][2] \in {"yes", "no"}
         \/ Commands[k][1] = "appendfsync" /\ Commands[k][2] = "everysec"
<1>1. CASE persistent
  <2>1. Len(Commands) = 3
    BY <1>1, ModeCommands
  <2>2. k = 1 \/ k = 2 \/ k = 3
    BY <2>1
  <2> QED
    BY <1>1, <2>2, ModeCommands
<1>2. CASE ~persistent
  <2>1. Len(Commands) = 2
    BY <1>2, ModeCommands
  <2>2. k = 1 \/ k = 2
    BY <2>1
  <2> QED
    BY <1>2, <2>2, ModeCommands
<1> QED
  BY <1>1, <1>2

(* A value is put under a key. *)
LEMMA PutProperties ==
  ASSUME NEW hash, NEW key, NEW value
  PROVE  /\ DOMAIN Put(hash, key, value) = DOMAIN hash \union {key}
         /\ Put(hash, key, value)[key] = value
         /\ \A x \in DOMAIN hash : x # key => Put(hash, key, value)[x] = hash[x]
  BY DEF Put

(* HSET stores one value in one row. *)
LEMMA HsetStores ==
  ASSUME IsServer(redis), NEW r, NEW name, NEW value \in Value, Hset(r, name, value)
  PROVE  /\ IsServer(redis') /\ redis'.schema = redis.schema
         /\ Hash(r)' = Put(Hash(r), name, value)
         /\ \A q : q # r => Hash(q)' = Hash(q)
<1> DEFINE new == Put(Hash(r), name, value)
           rows == Put(redis.rows, r, new)
<1>1. redis' = [schema |-> redis.schema, rows |-> rows]
  BY DEF Hset, IsServer
<1>2. \A x \in DOMAIN new : new[x] \in Value
  <2>1. \A x \in DOMAIN Hash(r) : Hash(r)[x] \in Value
    BY HashTypes
  <2> QED
    BY <2>1 DEF Put
<1> HIDE DEF new
<1>3. /\ DOMAIN rows = DOMAIN redis.rows \union {r} /\ rows[r] = new
      /\ \A q \in DOMAIN redis.rows : q # r => rows[q] = redis.rows[q]
  BY DEF Put
<1> HIDE DEF rows
<1>4. redis'.schema = redis.schema /\ redis'.rows = rows
  BY <1>1
<1>5. IsServer(redis')
  BY <1>1, <1>2, <1>3, <1>4 DEF IsServer, Value
<1>6. Hash(r)' = new /\ \A q : q # r => Hash(q)' = Hash(q)
  BY <1>3, <1>4 DEF Hash
<1> QED
  BY <1>4, <1>5, <1>6 DEF new

(* Nothing has failed and nothing has been answered before the first       *)
(* command; a command that fails is noted.                                 *)
LEMMA HistoryStart ==
  /\ NoneRefused \in Failures
  /\ \A n : NoneAnswered \in Answers(n)
  /\ NoneAnswered["project"] = {} /\ NoneAnswered["aggregate"] = {}
  BY DEF NoneRefused, NoneAnswered, Failures, Answers

LEMMA FailureNoted ==
  ASSUME NEW f \in Failures, NEW n
  PROVE  /\ [f EXCEPT !.del = TRUE] \in Failures
         /\ [f EXCEPT !.del = TRUE].del
         /\ [f EXCEPT !.del = TRUE].cols = f.cols
         /\ n \in 1 .. MaxCols => [f EXCEPT !.cols = @ \union {n}] \in Failures
         /\ [f EXCEPT !.cols = @ \union {n}].cols = f.cols \union {n}
         /\ [f EXCEPT !.cols = @ \union {n}].del = f.del
         /\ n \in 1 .. Len(file) => [f EXCEPT !.rows = @ \union {n}] \in Failures
         /\ [f EXCEPT !.rows = @ \union {n}].rows = f.rows \union {n}
         /\ [f EXCEPT !.rows = @ \union {n}].cols = f.cols
         /\ [f EXCEPT !.rows = @ \union {n}].del = f.del
  BY DEF Failures

(* The program starts within its types. *)
LEMMA TypeInit == RedisInit => TypeInv
<1> SUFFICES ASSUME RedisInit PROVE TypeInv
  OBVIOUS
<1>1. Len(file) \in Nat /\ MaxCols \in Nat \ {0}
  BY FileTypes, MaxColsAssumption DEF RedisInit
<1>2. RedisTypeOK
  <2>1. /\ 1 \in 1 .. (Len(file) + 1) /\ 0 \in 0 .. (Len(file) + 1)
        /\ 1 \in 1 .. (MaxCols + 1) /\ 0 \in 0 .. Len(file) /\ 0 \in 0 .. 0
    BY <1>1
  <2>2. Len(schema) =< MaxCols
    BY <1>1 DEF RedisInit
  <2>3. /\ line \in 1 .. (Len(file) + 1) /\ row \in 0 .. (Len(file) + 1)
        /\ col \in 1 .. (IF pc = "config" THEN 4 ELSE MaxCols + 1)
        /\ rowCount \in 0 .. Len(file) /\ count \in 0 .. rowCount /\ sum \in Int
    BY <2>1 DEF RedisInit
  <2>4. /\ file \in Files /\ pc = "connect" /\ conf \in Settings /\ ignored \in BOOLEAN
    BY DEF RedisInit
  <2>5. refused \in Failures /\ answered \in Answers(rowCount) /\ missed \subseteq 1 .. rowCount
    BY HistoryStart DEF RedisInit
  <2> QED
    BY <2>2, <2>3, <2>4, <2>5 DEF RedisTypeOK, Failures, Answers
<1>3. PlaceInv
  <2>1. IsServer(redis) /\ schema \in Seq(Column)
    BY LeftoversAssumption DEF RedisInit
  <2>2. results \in [sum : Int, total : Int, count : Nat] /\ refused.cols = {}
    BY DEF RedisInit, NoResults, NoneRefused
  <2> QED
    BY <2>1, <2>2, Queries DEF RedisInit, PlaceInv, Parsing, Querying
<1> QED
  BY <1>2, <1>3 DEF TypeInv

(* The field that is stored is a number or a word, unless it is refused.   *)
LEMMA FieldStored ==
  ASSUME TypeInv, HsetField
  PROVE  \/ /\ redis' = redis
            /\ refused' = [refused EXCEPT !.rows = @ \union {row}]
         \/ /\ refused' = refused
            /\ \E value \in Value :
                 /\ Hset(row, schema[col].name, value)
                 /\ col \in DOMAIN Tokens(line) => value = Tokens(line)[col]
<1>1. line \in 2 .. Len(file) /\ file \in Files
  BY DEF HsetField, TypeInv, RedisTypeOK, PlaceInv
<1>2. \A k \in DOMAIN Tokens(line) : Tokens(line)[k] \in Value
  BY <1>1, TokenTypes, LenProperties
<1>3. \A s \in FieldText : /\ s \in Value
                           /\ col \in DOMAIN Tokens(line) => s = Tokens(line)[col]
  <2>1. {0, Word} \subseteq Value
    BY DEF Value
  <2>2. CASE col \in DOMAIN Tokens(line)
    BY <1>2, <2>2 DEF FieldText
  <2>3. CASE col \notin DOMAIN Tokens(line)
    BY <2>1, <2>3 DEF FieldText
  <2> QED
    BY <2>2, <2>3
<1>4. PICK given \in FieldText :
        \/ Hset(row, schema[col].name, given) /\ refused' = refused
        \/ refused' = [refused EXCEPT !.rows = @ \union {row}] /\ redis' = redis
  BY DEF HsetField
<1>5. given \in Value /\ (col \in DOMAIN Tokens(line) => given = Tokens(line)[col])
  BY <1>3
<1> QED
  BY <1>4, <1>5

(* main before the load. *)
LEMMA ServerTypes ==
  ASSUME TypeInv, Connect \/ SetPersistence \/ PersistenceSet
  PROVE  TypeInv'
<1>1. UNCHANGED <<file, redis, schema, line, row, rowCount, sum, count, results,
                  refused, answered, missed>>
  BY DEF Connect, SetPersistence, PersistenceSet, Data, history
<1>2. MaxCols \in Nat \ {0} /\ RedisTypeOK /\ PlaceInv
  BY MaxColsAssumption DEF TypeInv
<1>3. CASE Connect
  <2>1. /\ pc = "connect" /\ pc' \in {"config", "noServer"}
        /\ UNCHANGED <<col, persistent, conf, ignored>>
    BY <1>3 DEF Connect, server
  <2>2. col' = 1 /\ Len(Commands') \in Nat
    <3>1. Commands' = Commands /\ (Len(Commands) = 2 \/ Len(Commands) = 3)
      BY <2>1, ModeCommands DEF Commands
    <3> QED
      BY <1>2, <2>1, <3>1 DEF PlaceInv
  <2>3. RedisTypeOK'
    BY <1>1, <1>2, <2>1, <2>2 DEF RedisTypeOK
  <2>4. PlaceInv'
    BY <1>1, <1>2, <2>1, <2>2, Queries DEF PlaceInv, Parsing, Querying
  <2> QED
    BY <2>3, <2>4 DEF TypeInv
<1>4. CASE SetPersistence
  <2>1. /\ pc = "config" /\ pc' = "config" /\ col =< Len(Commands) /\ col' = col + 1
        /\ persistent' = persistent
        /\ \/ conf' = [conf EXCEPT ![Commands[col][1]] = Commands[col][2]] /\ ignored' = ignored
           \/ conf' = conf /\ ignored' = TRUE
    BY <1>4 DEF SetPersistence
  <2>2. Len(Commands) \in {2, 3} /\ Commands' = Commands
    BY <2>1, ModeCommands DEF Commands
  <2>3. col \in 1 .. Len(Commands)
    BY <1>2, <2>1, <2>2 DEF RedisTypeOK
  <2>4. conf' \in Settings
    <3> DEFINE key == Commands[col][1]
               value == Commands[col][2]
    <3>1. \/ key = "save" /\ value \in {"", "60 1"}
          \/ key = "appendonly" /\ value \in {"yes", "no"}
          \/ key = "appendfsync" /\ value = "everysec"
      BY <2>3, ModeSettings
    <3>2. conf \in Settings
      BY <1>2 DEF RedisTypeOK
    <3>3. conf' = [conf EXCEPT ![key] = value] \/ conf' = conf
      BY <2>1
    <3> HIDE DEF key, value
    <3>4. [conf EXCEPT ![key] = value] \in Settings
      BY <3>1, <3>2, SettingReplaced
    <3> QED
      BY <3>2, <3>3, <3>4
  <2>5. col' \in 1 .. 4 /\ col' =< Len(Commands) + 1
    BY <2>1, <2>2, <2>3
  <2>6. RedisTypeOK'
    BY <1>1, <1>2, <2>1, <2>4, <2>5 DEF RedisTypeOK
  <2>7. PlaceInv'
    BY <1>1, <1>2, <2>1, <2>2, <2>5, Queries DEF PlaceInv, Parsing, Querying
  <2> QED
    BY <2>6, <2>7 DEF TypeInv
<1>5. CASE PersistenceSet
  <2>1. pc = "config" /\ pc' = "open" /\ col' = 1 /\ UNCHANGED <<conf, ignored>>
    BY <1>5 DEF PersistenceSet, server
  <2>2. RedisTypeOK'
    BY <1>1, <1>2, <2>1 DEF RedisTypeOK
  <2>3. PlaceInv'
    BY <1>1, <1>2, <2>1, Queries DEF PlaceInv, Parsing, Querying
  <2> QED
    BY <2>2, <2>3 DEF TypeInv
<1> QED
  BY <1>3, <1>4, <1>5

(* The load. *)
LEMMA LoadTypes ==
  ASSUME TypeInv, UNCHANGED server,
         Parse \/ ParseFails \/ DelSchema \/ HsetSchema \/ SchemaStored
           \/ HsetField \/ TokenCrash \/ NextLine \/ Loaded
  PROVE  TypeInv'
<1>1. UNCHANGED <<file, sum, count, results, answered, missed, conf, ignored>>
  BY DEF Parse, ParseFails, DelSchema, HsetSchema, SchemaStored, HsetField, TokenCrash,
         NextLine, Loaded, server, history
<1>2. /\ RedisTypeOK /\ PlaceInv /\ file \in Files /\ refused \in Failures
      /\ Len(file) \in Nat /\ MaxCols \in Nat \ {0} /\ Len(schema) \in Nat
      /\ line \in Nat /\ row \in Nat /\ col \in Nat /\ rowCount \in Nat
      /\ rowCount =< Len(file) /\ Len(schema) =< MaxCols
  BY Numbers, MaxColsAssumption DEF TypeInv, RedisTypeOK, Failures
<1>3. CASE Parse
  <2>1. /\ pc = "open" /\ pc' = "del" /\ Len(file) >= 2 /\ schema' = ParsedSchema
        /\ UNCHANGED <<redis, line, row, col, rowCount, refused>>
    BY <1>3 DEF Parse, history
  <2>2. schema' \in Seq(Column) /\ Len(schema') =< MaxCols
    BY <1>2, <2>1, SchemaTypes
  <2>3. RedisTypeOK'
    BY <1>1, <1>2, <2>1, <2>2 DEF RedisTypeOK
  <2>4. PlaceInv'
    BY <1>1, <1>2, <2>1, <2>2, Queries DEF PlaceInv, Parsing, Querying
  <2> QED
    BY <2>3, <2>4 DEF TypeInv
<1>4. CASE ParseFails
  <2>1. /\ pc = "open" /\ pc' \in {"gauss", "end"} /\ row' = 1
        /\ UNCHANGED <<redis, line, col, rowCount, refused>>
    BY <1>4 DEF ParseFails, history
  <2>2. schema' \in Seq(Column) /\ Len(schema') =< MaxCols
    BY <1>2, <1>4, HeaderTypes DEF ParseFails
  <2>3. RedisTypeOK'
    BY <1>1, <1>2, <2>1, <2>2, Queries DEF RedisTypeOK
  <2>4. PlaceInv'
    BY <1>1, <1>2, <2>1, <2>2, Queries DEF PlaceInv, Parsing, Querying
  <2> QED
    BY <2>3, <2>4 DEF TypeInv
<1>5. CASE DelSchema
  <2>1. /\ pc = "del" /\ pc' = "schema" /\ UNCHANGED <<schema, line, row, rowCount, col>>
        /\ \/ redis' = [redis EXCEPT !.schema = NoHash] /\ refused' = refused
           \/ refused' = [refused EXCEPT !.del = TRUE] /\ redis' = redis
    BY <1>5 DEF DelSchema
  <2>2. IsServer(redis')
    BY <1>2, <2>1 DEF IsServer, PlaceInv
  <2>3. col = 1 /\ 1 \in 1 .. (MaxCols + 1) /\ 1 =< Len(schema) + 1
    BY <1>2, <2>1 DEF PlaceInv
  <2>4. refused' \in Failures /\ refused'.cols = {}
    <3>1. refused.cols = {}
      BY <1>2, <2>1 DEF PlaceInv
    <3> QED
      BY <1>2, <2>1, <3>1, FailureNoted
  <2>5. RedisTypeOK'
    BY <1>1, <1>2, <2>1, <2>3, <2>4 DEF RedisTypeOK, Failures
  <2>6. PlaceInv'
    BY <1>1, <1>2, <2>1, <2>2, <2>3, <2>4, Queries DEF PlaceInv, Parsing, Querying
  <2> QED
    BY <2>5, <2>6 DEF TypeInv
<1>11. CASE HsetSchema
  <2>1. /\ pc = "schema" /\ pc' = "schema" /\ UNCHANGED <<schema, line, row, rowCount>>
        /\ col =< Len(schema) /\ col' = col + 1
        /\ \/ /\ \E s : redis' = [redis EXCEPT !.schema = s]
              /\ refused' = refused
           \/ refused' = [refused EXCEPT !.cols = @ \union {col}] /\ redis' = redis
    BY <1>11 DEF HsetSchema
  <2>2. IsServer(redis')
    BY <1>2, <2>1 DEF IsServer, PlaceInv
  <2>3. /\ col \in 1 .. MaxCols /\ col' \in 1 .. (MaxCols + 1) /\ col' =< Len(schema) + 1
        /\ col' - 1 = col
    <3>1. col >= 1
      BY <2>1, <1>2 DEF RedisTypeOK
    <3> QED
      BY <1>2, <2>1, <3>1
  <2>4. refused' \in Failures /\ refused'.cols \subseteq 1 .. (col' - 1)
    <3>1. refused.cols \subseteq 1 .. (col - 1)
      BY <1>2, <2>1 DEF PlaceInv
    <3>2. refused'.cols \subseteq refused.cols \union {col} /\ refused' \in Failures
      <4>1. refused \in Failures
        BY <1>2
      <4>2. CASE refused' = refused
        BY <4>1, <4>2
      <4>3. CASE refused' = [refused EXCEPT !.cols = @ \union {col}]
        BY <2>3, <4>1, <4>3, FailureNoted
      <4> QED
        BY <2>1, <4>2, <4>3
    <3>3. 1 .. (col - 1) \subseteq 1 .. col /\ col \in 1 .. col
      BY <2>3
    <3> QED
      BY <2>3, <3>1, <3>2, <3>3
  <2>5. RedisTypeOK'
    BY <1>1, <1>2, <2>1, <2>3, <2>4 DEF RedisTypeOK, Failures
  <2>6. PlaceInv'
    BY <1>1, <1>2, <2>1, <2>2, <2>3, <2>4, Queries DEF PlaceInv, Parsing, Querying
  <2> QED
    BY <2>5, <2>6 DEF TypeInv
<1>6. CASE SchemaStored
  <2>1. /\ pc = "schema" /\ pc' = "row" /\ line' = 2 /\ row' = 1 /\ col' = 1
        /\ UNCHANGED <<redis, schema, rowCount, refused>>
    BY <1>6 DEF SchemaStored, history
  <2>2. Len(file) >= 2
    BY <1>2, <2>1 DEF PlaceInv, Parsing
  <2>3. RedisTypeOK'
    BY <1>1, <1>2, <2>1, <2>2 DEF RedisTypeOK
  <2>4. PlaceInv'
    BY <1>1, <1>2, <2>1, <2>2, Queries DEF PlaceInv, Parsing, Querying
  <2> QED
    BY <2>3, <2>4 DEF TypeInv
<1>7. CASE HsetField
  <2>1. /\ pc = "row" /\ pc' = "row" /\ col =< Len(schema) /\ col' = col + 1
        /\ UNCHANGED <<schema, line, row, rowCount>>
    BY <1>7 DEF HsetField
  <2>2. IsServer(redis') /\ refused' \in Failures
    <3>1. IsServer(redis) /\ row \in 1 .. Len(file)
      BY <1>2, <2>1 DEF PlaceInv
    <3>2. CASE redis' = redis /\ refused' = [refused EXCEPT !.rows = @ \union {row}]
      BY <1>2, <3>1, <3>2, FailureNoted
    <3>3. CASE /\ refused' = refused
               /\ \E value \in Value : Hset(row, schema[col].name, value)
      BY <1>2, <3>1, <3>3, HsetStores
    <3> QED
      BY <1>7, <3>2, <3>3, FieldStored
  <2>3. col' \in 1 .. (MaxCols + 1) /\ col' =< Len(schema) + 1
    BY <1>2, <2>1
  <2>4. RedisTypeOK'
    BY <1>1, <1>2, <2>1, <2>2, <2>3 DEF RedisTypeOK, Failures
  <2>5. PlaceInv'
    BY <1>1, <1>2, <2>1, <2>2, <2>3, Queries DEF PlaceInv, Parsing, Querying
  <2> QED
    BY <2>4, <2>5 DEF TypeInv
<1>8. CASE TokenCrash
  <2>1. pc = "row" /\ pc' = "crashed"
        /\ UNCHANGED <<redis, schema, line, row, col, rowCount, refused>>
    BY <1>8 DEF TokenCrash, history
  <2>2. RedisTypeOK'
    BY <1>1, <1>2, <2>1 DEF RedisTypeOK
  <2>3. PlaceInv'
    BY <1>1, <1>2, <2>1, Queries DEF PlaceInv, Parsing, Querying
  <2> QED
    BY <2>2, <2>3 DEF TypeInv
<1>9. CASE NextLine
  <2>1. /\ pc = "row" /\ pc' = "row" /\ line < Len(file) /\ line' = line + 1
        /\ row' \in {row, row + 1} /\ col' \in {1, Len(schema) + 1}
        /\ UNCHANGED <<redis, schema, rowCount, refused>>
    BY <1>9 DEF NextLine, history
  <2>2. line \in 2 .. Len(file) /\ row \in 1 .. (line - 1)
    BY <1>2, <2>1 DEF PlaceInv
  <2>3. /\ line' \in 2 .. Len(file) /\ row' \in 1 .. (line' - 1)
        /\ col' \in 1 .. (MaxCols + 1) /\ col' =< Len(schema) + 1
    BY <1>2, <2>1, <2>2
  <2>4. RedisTypeOK'
    BY <1>1, <1>2, <2>1, <2>3 DEF RedisTypeOK
  <2>5. PlaceInv'
    BY <1>1, <1>2, <2>1, <2>3, Queries DEF PlaceInv, Parsing, Querying
  <2> QED
    BY <2>4, <2>5 DEF TypeInv
<1>10. CASE Loaded
  <2>1. /\ pc = "row" /\ pc' \in {"gauss", "end"} /\ line = Len(file)
        /\ rowCount' = row /\ row' = 1 /\ UNCHANGED <<redis, schema, line, col, refused>>
    BY <1>10 DEF Loaded, history
  <2>2. row \in 1 .. (line - 1) /\ count = 0 /\ missed = {} /\ answered = NoneAnswered
    BY <1>2, <2>1 DEF PlaceInv, Parsing
  <2>3. RedisTypeOK'
    <3>1. answered' \in Answers(rowCount')
      BY <1>1, <2>2, HistoryStart
    <3> QED
      BY <1>1, <1>2, <2>1, <2>2, <3>1, Queries DEF RedisTypeOK, Answers
  <2>4. PlaceInv'
    BY <1>1, <1>2, <2>1, <2>2, Queries DEF PlaceInv, Parsing, Querying
  <2> QED
    BY <2>3, <2>4 DEF TypeInv
<1> QED
  BY <1>3, <1>4, <1>5, <1>6, <1>7, <1>8, <1>9, <1>10, <1>11

(* A select asks for a row that there is, and may miss it.                 *)
LEMMA Selected ==
  ASSUME TypeInv, Select, row \in 1 .. rowCount
  PROVE  \E r \in 1 .. rowCount :
           \/ missed' = missed
           \/ Hash(r) = NoHash /\ missed' = missed \union {r}
<1>1. PICK z \in 0 .. (rowCount + 1) :
        LET r == IF pc = "gauss" THEN GaussianKey(z) ELSE row
        IN missed' \in {missed, IF Hash(r) = NoHash THEN missed \union {r} ELSE missed}
  BY DEF Select
<1> DEFINE r == IF pc = "gauss" THEN GaussianKey(z) ELSE row
<1>2. r \in 1 .. rowCount
  BY Numbers DEF GaussianKey
<1>3. missed' \in {missed, IF Hash(r) = NoHash THEN missed \union {r} ELSE missed}
  BY <1>1
<1> HIDE DEF r
<1> QED
  BY <1>2, <1>3

(* The queries. *)
LEMMA QueryTypes ==
  ASSUME TypeInv, UNCHANGED server, Select \/ Add \/ QueryOver
  PROVE  TypeInv'
<1>1. UNCHANGED <<file, redis, schema, line, col, rowCount, conf, ignored, refused>>
  BY DEF Select, Add, QueryOver, server, history
<1>2. /\ RedisTypeOK /\ PlaceInv /\ answered \in Answers(rowCount)
      /\ Len(file) \in Nat /\ MaxCols \in Nat \ {0} /\ Len(schema) \in Nat
      /\ line \in Nat /\ row \in Nat /\ col \in Nat /\ rowCount \in Nat
      /\ count \in Nat /\ sum \in Int /\ count =< rowCount
      /\ rowCount =< Len(file) /\ Len(schema) =< MaxCols
  BY Numbers, MaxColsAssumption DEF TypeInv, RedisTypeOK, Answers
<1>3. CASE Select
  <2>1. /\ pc \in {"gauss", "all"} /\ pc' = pc /\ row =< rowCount /\ row' = row + 1
        /\ UNCHANGED <<sum, count, results, answered>>
    BY <1>3 DEF Select
  <2>2. row \in 1 .. rowCount
    BY <1>2, <2>1, Queries DEF PlaceInv, Querying
  <2>3. missed' \subseteq 1 .. rowCount
    <3>1. missed \subseteq 1 .. rowCount
      BY <1>2 DEF RedisTypeOK
    <3> QED
      BY <1>3, <2>2, <3>1, Selected
  <2>4. RedisTypeOK'
    BY <1>1, <1>2, <2>1, <2>2, <2>3, Queries DEF RedisTypeOK
  <2>5. PlaceInv'
    BY <1>1, <1>2, <2>1, <2>2, Queries DEF PlaceInv, Parsing, Querying
  <2> QED
    BY <2>4, <2>5 DEF TypeInv
<1>4. CASE Add
  <2>1. /\ pc \in {"project", "aggregate"} /\ pc' = pc /\ row =< rowCount /\ row' = row + 1
        /\ UNCHANGED <<results, missed>>
        /\ count' \in {count, IF pc = "project" THEN count + 1 ELSE count}
    BY <1>4 DEF Add
  <2>2. row \in 1 .. rowCount /\ (pc = "project" => count =< row - 1)
    BY <1>2, <2>1, Queries DEF PlaceInv, Querying
  <2>3. sum' \in Int
    <3>1. RowSum(Hash(row)) \in Int
      BY RowSumType
    <3>2. sum' \in {sum, sum + RowSum(Hash(row))}
      BY <1>4 DEF Add
    <3> QED
      BY <1>2, <3>1, <3>2
  <2>4. count' \in 0 .. rowCount /\ (pc = "project" => count' =< row' - 1)
    BY <1>2, <2>1, <2>2
  <2>5. /\ answered' \in Answers(rowCount)
        /\ answered'[pc] \subseteq 1 .. (row' - 1)
        /\ pc = "project" => answered'["aggregate"] = {}
    <3>1. answered[pc] \subseteq 1 .. (row - 1) /\ (pc = "project" => answered["aggregate"] = {})
      BY <1>2, <2>1 DEF PlaceInv
    <3>2. row' - 1 = row /\ 1 .. (row - 1) \subseteq 1 .. row /\ row \in 1 .. row
      BY <1>2, <2>1, <2>2
    <3>3. \/ answered' = answered
          \/ answered' = [answered EXCEPT ![pc] = @ \union {row}]
      BY <1>4 DEF Add
    <3>4. CASE answered' = answered
      BY <1>2, <3>1, <3>2, <3>4
    <3>5. CASE answered' = [answered EXCEPT ![pc] = @ \union {row}]
      <4>1. answered' \in Answers(rowCount) /\ answered'[pc] = answered[pc] \union {row}
            /\ (pc = "project" => answered'["aggregate"] = answered["aggregate"])
        BY <1>2, <2>1, <2>2, <3>5 DEF Answers
      <4> QED
        BY <3>1, <3>2, <4>1
    <3> QED
      BY <3>3, <3>4, <3>5
  <2>6. RedisTypeOK'
    BY <1>1, <1>2, <2>1, <2>2, <2>3, <2>4, <2>5, Queries DEF RedisTypeOK, Answers
  <2>7. PlaceInv'
    BY <1>1, <1>2, <2>1, <2>2, <2>4, <2>5, Queries DEF PlaceInv, Parsing, Querying
  <2> QED
    BY <2>6, <2>7 DEF TypeInv
<1>5. CASE QueryOver
  <2>1. /\ pc \in DOMAIN QueryOrder /\ pc' = QueryOrder[pc] /\ row' = 1 /\ sum' = 0
        /\ UNCHANGED <<count, answered, missed>>
    BY <1>5 DEF QueryOver, history
  <2>2. /\ results' \in [sum : Int, total : Int, count : Nat]
        /\ pc \in {"gauss", "all"} => results' = results
    <3>1. CASE pc = "project"
      BY <1>2, <1>5, <3>1 DEF QueryOver, PlaceInv
    <3>2. CASE pc = "aggregate"
      BY <1>2, <1>5, <3>2 DEF QueryOver, PlaceInv
    <3>3. CASE pc \notin {"project", "aggregate"}
      BY <1>2, <1>5, <3>3 DEF QueryOver, PlaceInv
    <3> QED
      BY <3>1, <3>2, <3>3
  <2>3. RedisTypeOK'
    BY <1>1, <1>2, <2>1, Queries DEF RedisTypeOK
  <2>4. PlaceInv'
    <3>1. /\ pc = "all" => answered = NoneAnswered
          /\ pc = "project" => answered["aggregate"] = {}
      BY <1>2 DEF PlaceInv
    <3> QED
      BY <1>1, <1>2, <2>1, <2>2, <3>1, Queries, HistoryStart DEF PlaceInv, Parsing, Querying
  <2> QED
    BY <2>3, <2>4 DEF TypeInv
<1> QED
  BY <1>3, <1>4, <1>5

(* Every step keeps the types. *)
LEMMA TypeNext == TypeInv /\ [RedisNext]_redisVars => TypeInv'
<1> SUFFICES ASSUME TypeInv, [RedisNext]_redisVars PROVE TypeInv'
  OBVIOUS
<1>1. CASE RedisNext
  BY <1>1, ServerTypes, LoadTypes, QueryTypes DEF RedisNext, Load
<1>2. CASE UNCHANGED redisVars
  <2>1. UNCHANGED <<file, redis, pc, schema, line, row, col, rowCount, sum, count,
                    results, refused, answered, missed, persistent, conf, ignored>>
    BY <1>2 DEF redisVars, server, history
  <2>2. Commands' = Commands
    BY <2>1 DEF Commands
  <2>3. RedisTypeOK'
    BY <2>1 DEF TypeInv, RedisTypeOK
  <2>4. PlaceInv'
    BY <2>1, <2>2 DEF TypeInv, PlaceInv, Parsing, Querying
  <2> QED
    BY <2>3, <2>4 DEF TypeInv
<1> QED
  BY <1>1, <1>2

-----------------------------------------------------------------------------
(* The mode *)

(* The load does not change the settings. *)
LEMMA LoadPhases ==
  ASSUME Load
  PROVE  \/ pc' = pc /\ col' = col
         \/ /\ pc \notin {"connect", "noServer", "config"}
            /\ pc' \notin {"connect", "noServer", "config"}
  BY Queries DEF Load, Parse, ParseFails, DelSchema, HsetSchema, SchemaStored,
     HsetField, TokenCrash, NextLine, Loaded, Select, Add, QueryOver

(* A command has set what the mode asks for, or it has failed. *)
LEMMA ModeNext ==
  ASSUME TypeInv, ModeInv, ModeIsAsPrinted, [RedisNext]_redisVars
  PROVE  ModeInv' /\ ModeIsAsPrinted'
<1>1. conf \in Settings /\ col \in Nat
  BY Numbers DEF TypeInv, RedisTypeOK
<1>2. CASE Connect
  <2>1. pc' \in {"config", "noServer"} /\ pc = "connect"
        /\ UNCHANGED <<col, persistent, conf, ignored>>
    BY <1>2 DEF Connect, server
  <2>2. col = 1
    BY <2>1 DEF TypeInv, PlaceInv
  <2>3. ~(col' > 1) /\ ~(col' > 2) /\ ~(col' > 3)
    BY <2>1, <2>2
  <2> QED
    BY <2>1, <2>3 DEF ModeInv, ModeIsAsPrinted
<1>3. CASE SetPersistence
  <2>1. /\ pc = "config" /\ pc' = "config" /\ col' = col + 1 /\ col =< Len(Commands)
        /\ persistent' = persistent
        /\ ~ignored' =>
             ~ignored /\ conf' = [conf EXCEPT ![Commands[col][1]] = Commands[col][2]]
    BY <1>3 DEF SetPersistence
  <2>2. col \in 1 .. Len(Commands)
    <3>1. col >= 1
      BY <2>1 DEF TypeInv, RedisTypeOK
    <3>2. Len(Commands) = 3 \/ Len(Commands) = 2
      BY ModeCommands
    <3> QED
      BY <1>1, <2>1, <3>1, <3>2
  <2> DEFINE key == Commands[col][1]
             value == Commands[col][2]
  <2>3. \/ key = "save" /\ value \in {"", "60 1"}
        \/ key = "appendonly" /\ value \in {"yes", "no"}
        \/ key = "appendfsync" /\ value = "everysec"
    BY <2>2, ModeSettings
  <2> HIDE DEF key, value
  <2>4. ~ignored' =>
          /\ conf'.save = IF key = "save" THEN value ELSE conf.save
          /\ conf'.appendonly = IF key = "appendonly" THEN value ELSE conf.appendonly
    <3>1. /\ [conf EXCEPT ![key] = value].save = IF key = "save" THEN value ELSE conf.save
          /\ [conf EXCEPT ![key] = value].appendonly =
               IF key = "appendonly" THEN value ELSE conf.appendonly
      BY <1>1, <2>3, SettingReplaced
    <3> QED
      BY <2>1, <3>1 DEF key, value
  <2>5. CASE persistent
    <3>1. Len(Commands) = 3
      BY <2>5, ModeCommands
    <3>2. col = 1 \/ col = 2 \/ col = 3
      BY <2>2, <3>1
    <3>3. /\ col = 1 => key = "appendonly" /\ value = "yes"
          /\ col = 2 => key = "appendfsync"
          /\ col = 3 => key = "save" /\ value = "60 1"
      BY <2>5, ModeCommands DEF key, value
    <3>4. /\ col = 1 => col' = 2
          /\ col = 2 => col' = 3 /\ col > 1
          /\ col = 3 => col' = 4 /\ col > 1
      BY <2>1
    <3>5. ~ignored' =>
            /\ col' > 1 => conf'.appendonly = "yes"
            /\ col' > 3 => conf'.save = "60 1"
      <4>1. ~ignored' /\ col > 1 => conf.appendonly = "yes"
        BY <2>1, <2>5 DEF ModeInv
      <4>2. CASE col = 1
        <5>1. ~(col' > 3)
          BY <3>4, <4>2
        <5> QED
          BY <2>4, <3>3, <4>2, <5>1
      <4>3. CASE col = 2
        <5>1. ~(col' > 3) /\ col > 1
          BY <3>4, <4>3
        <5>2. key = "appendfsync"
          BY <3>3, <4>3
        <5> QED
          BY <2>4, <4>1, <5>1, <5>2
      <4>4. CASE col = 3
        <5>1. key = "save" /\ value = "60 1" /\ col > 1
          BY <3>3, <3>4, <4>4
        <5> QED
          BY <2>4, <4>1, <5>1
      <4> QED
        BY <3>2, <4>2, <4>3, <4>4
    <3> QED
      BY <2>1, <2>5, <3>5 DEF ModeInv, ModeIsAsPrinted
  <2>6. CASE ~persistent
    <3>1. Len(Commands) = 2
      BY <2>6, ModeCommands
    <3>2. col = 1 \/ col = 2
      BY <2>2, <3>1
    <3>3. /\ col = 1 => key = "save" /\ value = ""
          /\ col = 2 => key = "appendonly" /\ value = "no"
      BY <2>6, ModeCommands DEF key, value
    <3>4. /\ col = 1 => col' = 2
          /\ col = 2 => col' = 3 /\ col > 1
      BY <2>1
    <3>5. ~ignored' =>
            /\ col' > 1 => conf'.save = ""
            /\ col' > 2 => conf'.appendonly = "no"
      <4>1. ~ignored' /\ col > 1 => conf.save = ""
        BY <2>1, <2>6 DEF ModeInv
      <4>2. CASE col = 1
        <5>1. ~(col' > 2)
          BY <3>4, <4>2
        <5>2. key = "save" /\ value = ""
          BY <3>3, <4>2
        <5> QED
          BY <2>4, <5>1, <5>2
      <4>3. CASE col = 2
        <5>1. key = "appendonly" /\ value = "no" /\ col > 1
          BY <3>3, <3>4, <4>3
        <5> QED
          BY <2>4, <4>1, <5>1
      <4> QED
        BY <3>2, <4>2, <4>3
    <3> QED
      BY <2>1, <2>6, <3>5 DEF ModeInv, ModeIsAsPrinted
  <2> QED
    BY <2>5, <2>6
<1>4. CASE PersistenceSet
  <2>1. /\ pc = "config" /\ pc' = "open" /\ col > Len(Commands)
        /\ UNCHANGED <<persistent, conf, ignored>>
    BY <1>4 DEF PersistenceSet, server
  <2>2. CASE persistent
    <3>1. Len(Commands) = 3
      BY <2>2, ModeCommands
    <3>2. col > 3 /\ col > 1
      BY <1>1, <2>1, <3>1
    <3> QED
      BY <2>1, <2>2, <3>2 DEF ModeInv, ModeIsAsPrinted
  <2>3. CASE ~persistent
    <3>1. Len(Commands) = 2
      BY <2>3, ModeCommands
    <3>2. col > 2 /\ col > 1
      BY <1>1, <2>1, <3>1
    <3> QED
      BY <2>1, <2>3, <3>2 DEF ModeInv, ModeIsAsPrinted
  <2> QED
    BY <2>2, <2>3
<1>5. CASE Load /\ UNCHANGED server
  <2>1. UNCHANGED <<persistent, conf, ignored>>
    BY <1>5 DEF server
  <2> QED
    BY <1>5, <2>1, LoadPhases DEF ModeInv, ModeIsAsPrinted
<1>6. CASE UNCHANGED redisVars
  BY <1>6 DEF redisVars, server, ModeInv, ModeIsAsPrinted
<1> QED
  BY <1>2, <1>3, <1>4, <1>5, <1>6 DEF RedisNext

-----------------------------------------------------------------------------
(* The stored schema *)

(* The file stays. *)
LEMMA Frame ==
  ASSUME [RedisNext]_redisVars
  PROVE  file' = file
<1>1. CASE Connect \/ SetPersistence \/ PersistenceSet
  BY <1>1 DEF Connect, SetPersistence, PersistenceSet, Data
<1>2. CASE Parse \/ ParseFails \/ DelSchema \/ HsetSchema \/ SchemaStored
             \/ HsetField \/ TokenCrash \/ NextLine \/ Loaded
  BY <1>2 DEF Parse, ParseFails, DelSchema, HsetSchema, SchemaStored, HsetField,
     TokenCrash, NextLine, Loaded
<1>3. CASE Select \/ Add \/ QueryOver
  BY <1>3 DEF Select, Add, QueryOver
<1>4. CASE UNCHANGED redisVars
  BY <1>4 DEF redisVars
<1> QED
  BY <1>1, <1>2, <1>3, <1>4 DEF RedisNext, Load

(* The stored schema grows by a column at a time, or leaves it out.        *)
LEMMA StoredSchemaStep ==
  ASSUME file \in Files, WellFormed, NEW but
  PROVE  /\ StoredSchema(1, but) = NoHash
         /\ \A k \in (1 .. Width) \ but :
              StoredSchema(k + 1, but) =
                Put(StoredSchema(k, but), file[1][k], k \in IntColumns)
         /\ \A k \in 1 .. Width : StoredSchema(k + 1, but \union {k}) = StoredSchema(k, but)
<1> DEFINE Cols(n) == {file[1][k] : k \in (1 .. (n - 1)) \ but}
<1>1. Width \in Nat \ {0} /\ DOMAIN file[1] = 1 .. Width
  BY SchemaColumns
<1>2. StoredSchema(1, but) = NoHash
  <2>1. Cols(1) = {}
    OBVIOUS
  <2>2. StoredSchema(1, but) = [name \in {} |-> \E k \in IntColumns : file[1][k] = name]
    BY <2>1 DEF StoredSchema
  <2> QED
    BY <2>2 DEF NoHash
<1>3. ASSUME NEW k \in (1 .. Width) \ but
      PROVE  StoredSchema(k + 1, but) =
               Put(StoredSchema(k, but), file[1][k], k \in IntColumns)
  <2>1. Cols(k + 1) = Cols(k) \union {file[1][k]}
    BY <1>1
  <2>2. (\E j \in IntColumns : file[1][j] = file[1][k]) <=> k \in IntColumns
    <3>1. \A j \in IntColumns : j \in DOMAIN file[1]
      BY DEF IntColumns
    <3>2. k \in DOMAIN file[1]
      BY <1>1
    <3>3. \A j \in IntColumns : file[1][j] = file[1][k] => j = k
      BY <3>1, <3>2 DEF WellFormed
    <3> QED
      BY <3>3
  <2>3. /\ DOMAIN StoredSchema(k, but) = Cols(k)
        /\ \A name \in Cols(k) :
             StoredSchema(k, but)[name] = \E j \in IntColumns : file[1][j] = name
    BY DEF StoredSchema
  <2>4. StoredSchema(k + 1, but) =
          [name \in Cols(k + 1) |-> \E j \in IntColumns : file[1][j] = name]
    BY DEF StoredSchema
  <2> HIDE DEF Cols
  <2>5. Put(StoredSchema(k, but), file[1][k], k \in IntColumns) =
          [name \in Cols(k) \union {file[1][k]} |->
             \E j \in IntColumns : file[1][j] = name]
    <3>1. ASSUME NEW name \in Cols(k) \union {file[1][k]}
          PROVE  (IF name = file[1][k] THEN k \in IntColumns
                  ELSE StoredSchema(k, but)[name]) =
                   \E j \in IntColumns : file[1][j] = name
      <4> DEFINE Intc(x) == \E j \in IntColumns : file[1][j] = x
      <4>1. Intc(file[1][k]) = (k \in IntColumns)
        <5>1. Intc(file[1][k]) <=> k \in IntColumns
          BY <2>2
        <5>2. Intc(file[1][k]) \in BOOLEAN /\ (k \in IntColumns) \in BOOLEAN
          OBVIOUS
        <5> HIDE DEF Intc
        <5> QED
          BY <5>1, <5>2
      <4> HIDE DEF Intc
      <4>2. CASE name = file[1][k]
        <5>1. Intc(name) = (k \in IntColumns)
          BY <4>1, <4>2
        <5> QED
          BY <4>2, <5>1 DEF Intc
      <4>3. CASE name # file[1][k]
        BY <2>3, <4>3
      <4> QED
        BY <4>2, <4>3
    <3> QED
      BY <2>3, <3>1 DEF Put
  <2> QED
    BY <2>1, <2>4, <2>5
<1>4. ASSUME NEW k \in 1 .. Width
      PROVE  StoredSchema(k + 1, but \union {k}) = StoredSchema(k, but)
  <2>1. (1 .. ((k + 1) - 1)) \ (but \union {k}) = (1 .. (k - 1)) \ but
    BY <1>1
  <2> QED
    BY <2>1 DEF StoredSchema
<1> QED
  BY <1>2, <1>3, <1>4

(* The schema is the file's, in the client and on the server. *)
LEMMA SchemaNext ==
  ASSUME TypeInv, SchemaInv, [RedisNext]_redisVars
  PROVE  SchemaInv'
<1>1. file' = file
  BY Frame
<1>2. file \in Files
  BY DEF TypeInv, RedisTypeOK
<1> SUFFICES ASSUME WellFormed
             PROVE  /\ Parsing' \/ Querying' => schema' = FileSchema
                    /\ pc' = "schema" /\ ~refused'.del =>
                         redis'.schema = StoredSchema(col', refused'.cols)
                    /\ (pc' = "row" \/ Querying') /\ ~refused'.del =>
                         redis'.schema = StoredSchema(Width + 1, refused'.cols)
  <2>1. /\ WellFormed' <=> WellFormed
        /\ FileSchema' = FileSchema /\ Width' = Width
        /\ \A n, but : StoredSchema(n, but)' = StoredSchema(n, but)
    BY <1>1, SameFile
  <2>2. /\ StoredSchema(col, refused.cols)' = StoredSchema(col', refused'.cols)
        /\ StoredSchema(Width + 1, refused.cols)' = StoredSchema(Width + 1, refused'.cols)
    BY <2>1
  <2> QED
    BY <2>1, <2>2 DEF SchemaInv
<1>3. /\ Width \in Nat \ {0} /\ Len(FileSchema) = Width /\ col \in Nat /\ Len(file) >= 2
      /\ refused \in Failures
  BY <1>2, SchemaColumns, Numbers DEF WellFormed, TypeInv, RedisTypeOK, Failures
<1>4. CASE Connect \/ SetPersistence \/ PersistenceSet \/ ParseFails \/ TokenCrash
  <2>1. ~ParseFails
    BY <1>3 DEF ParseFails
  <2>2. pc' \in {"config", "noServer", "open", "crashed"}
    BY <1>4, <2>1 DEF Connect, SetPersistence, PersistenceSet, TokenCrash
  <2> QED
    BY <2>2, Queries DEF Parsing, Querying
<1>5. CASE Parse
  <2>1. pc' = "del" /\ schema' = ParsedSchema
    BY <1>5 DEF Parse
  <2> QED
    BY <1>2, <2>1, SchemaParsed, Queries DEF Querying
<1>6. CASE DelSchema
  <2>1. /\ pc = "del" /\ pc' = "schema" /\ col' = col /\ schema' = schema
        /\ \/ redis' = [redis EXCEPT !.schema = NoHash] /\ refused' = refused
           \/ refused' = [refused EXCEPT !.del = TRUE]
    BY <1>6 DEF DelSchema
  <2>2. col = 1 /\ IsServer(redis)
    BY <2>1 DEF TypeInv, PlaceInv
  <2>3. ~refused'.del => redis'.schema = StoredSchema(1, refused'.cols)
    <3>1. redis = [schema |-> redis.schema, rows |-> redis.rows]
      BY <2>2 DEF IsServer
    <3>2. [redis EXCEPT !.schema = NoHash].schema = NoHash
      BY <3>1
    <3>3. [refused EXCEPT !.del = TRUE].del
      BY <1>3, FailureNoted
    <3>4. StoredSchema(1, refused'.cols) = NoHash
      BY <1>2, StoredSchemaStep
    <3> QED
      BY <2>1, <3>2, <3>3, <3>4
  <2>4. schema' = FileSchema
    BY <2>1 DEF SchemaInv, Parsing
  <2> QED
    BY <1>1, <2>1, <2>2, <2>3, <2>4, Queries DEF Querying
<1>7. CASE HsetSchema
  <2> DEFINE new == Put(redis.schema, schema[col].name, schema[col].isInt)
  <2>1. /\ pc = "schema" /\ pc' = "schema" /\ col' = col + 1 /\ schema' = schema
        /\ col =< Len(schema)
        /\ \/ redis' = [redis EXCEPT !.schema = new] /\ refused' = refused
           \/ refused' = [refused EXCEPT !.cols = @ \union {col}] /\ redis' = redis
    BY <1>7 DEF HsetSchema
  <2>2. /\ IsServer(redis) /\ schema = FileSchema
        /\ ~refused.del => redis.schema = StoredSchema(col, refused.cols)
        /\ refused.cols \subseteq 1 .. (col - 1)
    BY <2>1 DEF TypeInv, PlaceInv, SchemaInv, Parsing
  <2>3. col \in 1 .. Width
    <3>1. col >= 1
      BY <2>1 DEF TypeInv, RedisTypeOK
    <3> QED
      BY <1>3, <2>1, <2>2, <3>1
  <2>4. schema[col].name = file[1][col] /\ schema[col].isInt = (col \in IntColumns)
    BY <1>2, <2>2, <2>3, SchemaColumns
  <2>5. CASE redis' = [redis EXCEPT !.schema = new] /\ refused' = refused
    <3>1. redis = [schema |-> redis.schema, rows |-> redis.rows]
      BY <2>2 DEF IsServer
    <3>2. [redis EXCEPT !.schema = new].schema = new
      <4> HIDE DEF new
      <4> QED
        BY <3>1
    <3>3. ~refused.del => redis'.schema =
            Put(StoredSchema(col, refused.cols), file[1][col], col \in IntColumns)
      BY <2>2, <2>4, <2>5, <3>2
    <3>4. col \in (1 .. Width) \ refused.cols
      BY <1>3, <2>2, <2>3
    <3>5. StoredSchema(col + 1, refused.cols) =
            Put(StoredSchema(col, refused.cols), file[1][col], col \in IntColumns)
      BY <1>2, <3>4, StoredSchemaStep
    <3>6. ~refused.del => redis'.schema = StoredSchema(col + 1, refused.cols)
      BY <3>3, <3>5
    <3> QED
      BY <2>1, <2>2, <2>5, <3>6, Queries DEF Querying
  <2>6. CASE refused' = [refused EXCEPT !.cols = @ \union {col}] /\ redis' = redis
    <3>1. refused'.cols = refused.cols \union {col} /\ refused'.del = refused.del
      BY <1>3, <2>6, FailureNoted
    <3>2. StoredSchema(col + 1, refused.cols \union {col}) = StoredSchema(col, refused.cols)
      BY <1>2, <2>3, StoredSchemaStep
    <3>3. ~refused'.del => redis'.schema = StoredSchema(col + 1, refused'.cols)
      BY <2>2, <2>6, <3>1, <3>2
    <3> QED
      BY <2>1, <2>2, <3>3, Queries DEF Querying
  <2> QED
    BY <2>1, <2>5, <2>6
<1>8. CASE SchemaStored
  <2>1. /\ pc = "schema" /\ pc' = "row" /\ col > Len(schema)
        /\ UNCHANGED <<schema, redis, refused>>
    BY <1>8 DEF SchemaStored, history
  <2>2. /\ col =< Len(schema) + 1 /\ schema = FileSchema
        /\ ~refused.del => redis.schema = StoredSchema(col, refused.cols)
    BY <2>1 DEF TypeInv, PlaceInv, SchemaInv, Parsing
  <2>3. col = Width + 1
    BY <1>3, <2>1, <2>2
  <2> QED
    BY <1>1, <2>1, <2>2, <2>3, Queries DEF Querying
<1>9. CASE HsetField
  <2>1. pc = "row" /\ pc' = "row" /\ schema' = schema
    BY <1>9 DEF HsetField
  <2>2. /\ redis'.schema = redis.schema
        /\ refused'.del = refused.del /\ refused'.cols = refused.cols
    <3>1. IsServer(redis)
      BY DEF TypeInv, PlaceInv
    <3>2. CASE /\ redis' = redis
               /\ refused' = [refused EXCEPT !.rows = @ \union {row}]
      BY <1>3, <3>2, FailureNoted
    <3>3. CASE /\ refused' = refused
               /\ \E value \in Value : Hset(row, schema[col].name, value)
      BY <3>1, <3>3, HsetStores
    <3> QED
      BY <1>9, <3>2, <3>3, FieldStored
  <2> QED
    BY <1>1, <2>1, <2>2, Queries DEF SchemaInv, Parsing, Querying
<1>10. CASE NextLine \/ Loaded \/ Select \/ Add \/ QueryOver
  <2>1. /\ pc = "row" \/ pc \in DOMAIN QueryOrder
        /\ pc' = "row" => pc = "row"
        /\ pc' \notin {"del", "schema"}
        /\ UNCHANGED <<schema, redis, refused>>
    BY <1>10, Queries DEF NextLine, Loaded, Select, Add, QueryOver, history
  <2> QED
    BY <1>1, <2>1 DEF SchemaInv, Parsing, Querying
<1>11. CASE UNCHANGED redisVars
  BY <1>11 DEF redisVars, history, SchemaInv, Parsing, Querying
<1> QED
  BY <1>4, <1>5, <1>6, <1>7, <1>8, <1>9, <1>10, <1>11 DEF RedisNext, Load

-----------------------------------------------------------------------------
(* The rows *)

(* The columns of a file, one after the other. *)
LEMMA ColumnsStep ==
  ASSUME file \in Files, WellFormed
  PROVE  /\ ColumnsBefore(1) = {}
         /\ \A k \in 1 .. Width :
              ColumnsBefore(k + 1) = ColumnsBefore(k) \union {file[1][k]}
         /\ ColumnsBefore(Width + 1) = {file[1][k] : k \in DOMAIN file[1]}
         /\ ColumnsBefore(Width + 1) # {}
<1>1. Width \in Nat \ {0} /\ DOMAIN file[1] = 1 .. Width
  BY SchemaColumns
<1>2. ColumnsBefore(1) = {}
  BY DEF ColumnsBefore
<1>3. \A k \in 1 .. Width : ColumnsBefore(k + 1) = ColumnsBefore(k) \union {file[1][k]}
  BY <1>1 DEF ColumnsBefore
<1>4. ColumnsBefore(Width + 1) = {file[1][k] : k \in DOMAIN file[1]}
  <2>1. (Width + 1) - 1 = Width
    BY <1>1
  <2> QED
    BY <1>1, <2>1 DEF ColumnsBefore
<1>5. ColumnsBefore(Width + 1) # {}
  <2>1. 1 \in DOMAIN file[1]
    BY <1>1
  <2> QED
    BY <1>4, <2>1
<1> QED
  BY <1>2, <1>3, <1>4, <1>5

(* A line is left when all of its fields are stored. *)
LEMMA LineDone ==
  ASSUME TypeInv, SchemaInv, RowsInv, WellFormed, pc = "row", RowStored
  PROVE  col = Width + 1
<1>1. file \in Files /\ line \in 2 .. Len(file) /\ schema = FileSchema /\ col =< Len(schema) + 1
      /\ (line \notin DataLines => col = Width + 1)
  BY DEF TypeInv, RedisTypeOK, PlaceInv, SchemaInv, Parsing, RowsInv
<1>2. Width \in Nat \ {0} /\ Len(schema) = Width /\ col \in Nat
  BY <1>1, SchemaColumns, Numbers
<1>3. CASE col > Len(schema)
  BY <1>1, <1>2, <1>3
<1>4. CASE col \notin DOMAIN Tokens(line) /\ line \in DataLines
  <2>1. Tokens(line) = file[line] /\ Len(file[line]) = Width
    BY <1>1, <1>4, WellFormedTokens
  <2>2. DOMAIN file[line] = 1 .. Width
    BY <1>1, <2>1, FileTypes
  <2>3. col >= 1
    BY DEF TypeInv, RedisTypeOK
  <2> QED
    BY <1>1, <1>2, <1>4, <2>1, <2>2, <2>3
<1> QED
  BY <1>1, <1>3, <1>4 DEF RowStored

(* The field of a column is stored under its name, or refused.             *)
LEMMA FieldOfLine ==
  ASSUME TypeInv, SchemaInv, RowsInv, WellFormed, HsetField
  PROVE  /\ col \in 1 .. Width /\ line \in DataLines
         /\ \/ redis' = redis /\ refused'.rows = refused.rows \union {row}
            \/ /\ refused' = refused
               /\ Hash(row)' = Put(Hash(row), file[1][col], file[line][col])
               /\ \A q : q # row => Hash(q)' = Hash(q)
<1>1. /\ file \in Files /\ pc = "row" /\ schema = FileSchema /\ col =< Len(schema)
      /\ (line \notin DataLines => col = Width + 1) /\ IsServer(redis) /\ row' = row
  BY DEF HsetField, TypeInv, RedisTypeOK, PlaceInv, SchemaInv, Parsing, RowsInv
<1>2. Width \in Nat \ {0} /\ Len(schema) = Width /\ col \in Nat /\ col >= 1
  <2>1. col >= 1
    BY <1>1 DEF TypeInv, RedisTypeOK
  <2> QED
    BY <1>1, <2>1, SchemaColumns, Numbers
<1>3. col \in 1 .. Width /\ line \in DataLines
  BY <1>1, <1>2
<1>4. Tokens(line) = file[line] /\ DOMAIN file[line] = 1 .. Width
  <2>1. Tokens(line) = file[line] /\ Len(file[line]) = Width /\ line \in 1 .. Len(file)
    BY <1>1, <1>3, WellFormedTokens
  <2> QED
    BY <1>1, <2>1, FileTypes
<1>5. schema[col].name = file[1][col]
  BY <1>1, <1>3, SchemaColumns
<1>6. CASE redis' = redis /\ refused' = [refused EXCEPT !.rows = @ \union {row}]
  <2>1. refused \in Failures
    BY DEF TypeInv, RedisTypeOK, Failures
  <2>2. refused'.rows = refused.rows \union {row}
    BY <1>6, <2>1, FailureNoted
  <2> QED
    BY <1>3, <1>6, <2>2
<1>7. ASSUME refused' = refused, NEW value \in Value, Hset(row, schema[col].name, value),
             col \in DOMAIN Tokens(line) => value = Tokens(line)[col]
      PROVE  /\ Hash(row)' = Put(Hash(row), file[1][col], file[line][col])
             /\ \A q : q # row => Hash(q)' = Hash(q)
  <2>1. value = file[line][col]
    BY <1>3, <1>4, <1>7
  <2>2. /\ Hash(row)' = Put(Hash(row), schema[col].name, value)
        /\ \A q : q # row => Hash(q)' = Hash(q)
    BY <1>1, <1>7, HsetStores
  <2> QED
    BY <1>5, <2>1, <2>2
<1> QED
  BY <1>3, <1>6, <1>7, FieldStored

(* Line after line, each data line comes into a row of its own. *)
LEMMA RowsNext ==
  ASSUME TypeInv, SchemaInv, RowsInv, [RedisNext]_redisVars
  PROVE  RowsInv'
<1>1. file' = file /\ file \in Files
  BY Frame DEF TypeInv, RedisTypeOK
<1>2. /\ WellFormed' <=> WellFormed
      /\ DataLines' = DataLines /\ Width' = Width
      /\ \A n : RowOf(n)' = RowOf(n)
      /\ \A n : ColumnsBefore(n)' = ColumnsBefore(n)
  BY <1>1, SameFile
<1> SUFFICES ASSUME WellFormed, pc' = "row"
             PROVE  /\ row' = RowOf(line')
                    /\ line' \notin DataLines => col' = Width + 1
                    /\ \A n \in 1 .. (line' - 1) :
                         RowOf(n) =< row' /\ (line' \in DataLines => RowOf(n) < row')
                    /\ \A n \in DataLines :
                         n < line' /\ RowOf(n) \notin refused'.rows => Holds(n, Width)'
                    /\ line' \in DataLines /\ row' \notin refused'.rows =>
                         Holds(line, col - 1)'
                    /\ \A r \in (1 .. (row' - 1)) \ refused'.rows :
                         ColumnsBefore(Width + 1) \subseteq DOMAIN Hash(r)'
                    /\ row' \notin refused'.rows =>
                         ColumnsBefore(col') \subseteq DOMAIN Hash(row)'
  <2>1. RowOf(line)' = RowOf(line') /\ ColumnsBefore(col)' = ColumnsBefore(col')
        /\ ColumnsBefore(Width + 1)' = ColumnsBefore(Width + 1)
    BY <1>2
  <2> QED
    BY <1>1, <1>2, <2>1 DEF RowsInv
<1>3. /\ Width \in Nat \ {0} /\ Len(file) \in Nat /\ Len(file) >= 2
      /\ line \in Nat /\ row \in Nat /\ col \in Nat /\ 2 \in DataLines
      /\ DataLines \subseteq 2 .. Len(file)
  BY <1>1, SchemaColumns, Numbers DEF WellFormed, DataLines
<1>4. /\ RowOf(1) = 0
      /\ \A n \in 1 .. Len(file) : RowOf(n) \in Int
      /\ \A n \in 1 .. Len(file) :
           RowOf(n) = RowOf(n - 1) + (IF n \in DataLines THEN 1 ELSE 0)
  BY <1>1, <1>3, RowOfLine
<1>5. CASE SchemaStored
  <2>1. line' = 2 /\ row' = 1 /\ col' = 1
    BY <1>5 DEF SchemaStored
  <2>2. RowOf(2) = 1
    BY <1>3, <1>4
  <2>3. Holds(line, col - 1)'
    BY <2>1 DEF Holds
  <2>4. ColumnsBefore(1) = {}
    BY <1>1, ColumnsStep
  <2> QED
    BY <1>3, <1>4, <2>1, <2>2, <2>3, <2>4
<1>6. CASE HsetField
  <2>1. pc = "row" /\ line' = line /\ row' = row /\ col' = col + 1
    BY <1>6 DEF HsetField
  <2>2. /\ col \in 1 .. Width /\ line \in DataLines
        /\ \/ redis' = redis /\ refused'.rows = refused.rows \union {row}
           \/ /\ refused' = refused
              /\ Hash(row)' = Put(Hash(row), file[1][col], file[line][col])
              /\ \A q : q # row => Hash(q)' = Hash(q)
    BY <1>6, FieldOfLine
  <2>3. /\ row = RowOf(line)
        /\ \A n \in 1 .. (line - 1) : RowOf(n) =< row /\ RowOf(n) < row
        /\ \A n \in DataLines :
             n < line /\ RowOf(n) \notin refused.rows => Holds(n, Width)
        /\ row \notin refused.rows => Holds(line, col - 1)
        /\ \A r \in (1 .. (row - 1)) \ refused.rows :
             ColumnsBefore(Width + 1) \subseteq DOMAIN Hash(r)
        /\ row \notin refused.rows => ColumnsBefore(col) \subseteq DOMAIN Hash(row)
    BY <2>1, <2>2 DEF RowsInv
  <2>4. CASE redis' = redis /\ refused'.rows = refused.rows \union {row}
    <3>1. /\ \A r : Hash(r)' = Hash(r)
          /\ \A n, m : Holds(n, m)' <=> Holds(n, m)
      BY <1>1, <2>4, SameRows
    <3>2. \A n \in DataLines :
            n < line' /\ RowOf(n) \notin refused'.rows => Holds(n, Width)'
      BY <1>2, <2>1, <2>3, <2>4, <3>1
    <3>3. \A r \in (1 .. (row' - 1)) \ refused'.rows :
            ColumnsBefore(Width + 1) \subseteq DOMAIN Hash(r)'
      BY <2>1, <2>3, <2>4, <3>1
    <3>4. row' \in refused'.rows
      BY <2>1, <2>4
    <3> QED
      BY <2>1, <2>2, <2>3, <3>2, <3>3, <3>4
  <2>5. CASE /\ refused' = refused
             /\ Hash(row)' = Put(Hash(row), file[1][col], file[line][col])
             /\ \A q : q # row => Hash(q)' = Hash(q)
    <3> DEFINE hash == Hash(row)
               new == Put(hash, file[1][col], file[line][col])
    <3>1. /\ DOMAIN new = DOMAIN hash \union {file[1][col]}
          /\ new[file[1][col]] = file[line][col]
          /\ \A x \in DOMAIN hash : x # file[1][col] => new[x] = hash[x]
      <4> DEFINE name == file[1][col]
                 value == file[line][col]
      <4> HIDE DEF hash, name, value
      <4>1. /\ DOMAIN Put(hash, name, value) = DOMAIN hash \union {name}
            /\ Put(hash, name, value)[name] = value
            /\ \A x \in DOMAIN hash : x # name => Put(hash, name, value)[x] = hash[x]
        BY DEF Put
      <4> QED
        BY <4>1 DEF name, value, new
    <3>2. Hash(row)' = new /\ Hash(row') = hash
      BY <2>1, <2>5
    <3> HIDE DEF new
    <3>3. ASSUME NEW n \in DataLines, n < line, RowOf(n) \notin refused.rows
          PROVE  Holds(n, Width)'
      <4>1. n \in 1 .. (line - 1)
        BY <1>3, <3>3
      <4>2. RowOf(n) # row
        <5>1. RowOf(n) < row /\ RowOf(n) \in Int
          BY <1>3, <1>4, <2>3, <4>1
        <5> QED
          BY <1>3, <5>1
      <4>3. Hash(RowOf(n))' = Hash(RowOf(n))
        BY <1>2, <2>5, <4>2
      <4>4. Holds(n, Width)
        BY <2>3, <3>3
      <4> QED
        BY <1>1, <1>2, <4>3, <4>4 DEF Holds
    <3>4. ASSUME row \notin refused.rows
          PROVE  Holds(line, col - 1)'
      <4>1. \A k \in 1 .. (col - 1) :
              file[1][k] \in DOMAIN hash /\ hash[file[1][k]] = file[line][k]
        BY <2>3, <3>4 DEF Holds
      <4>2. \A k \in 1 .. (col - 1) : file[1][k] # file[1][col]
        <5>1. DOMAIN file[1] = 1 .. Width
          BY <1>1, SchemaColumns
        <5>2. \A k \in 1 .. (col - 1) : k \in 1 .. Width /\ k # col
          BY <1>3, <2>2
        <5> QED
          BY <2>2, <5>1, <5>2 DEF WellFormed
      <4>3. ASSUME NEW k \in 1 .. col
            PROVE  file[1][k] \in DOMAIN new /\ new[file[1][k]] = file[line][k]
        <5>1. CASE k = col
          BY <3>1, <5>1
        <5>2. CASE k # col
          <6>1. k \in 1 .. (col - 1)
            BY <1>3, <5>2
          <6> QED
            BY <3>1, <4>1, <4>2, <6>1
        <5> QED
          BY <5>1, <5>2
      <4>4. Hash(RowOf(line))' = new
        <5>1. RowOf(line)' = row'
          BY <1>2, <2>1, <2>3
        <5> QED
          BY <3>2, <5>1
      <4>5. (col - 1)' = col
        BY <1>3, <2>1
      <4> QED
        BY <1>1, <2>1, <4>3, <4>4, <4>5 DEF Holds
    <3>5. ASSUME NEW r \in (1 .. (row' - 1)) \ refused.rows
          PROVE  ColumnsBefore(Width + 1) \subseteq DOMAIN Hash(r)'
      <4>1. r # row /\ r \in (1 .. (row - 1)) \ refused.rows
        BY <1>3, <2>1
      <4> QED
        BY <2>3, <2>5, <4>1
    <3>6. row \notin refused.rows => ColumnsBefore(col') \subseteq DOMAIN Hash(row)'
      <4>1. ColumnsBefore(col + 1) = ColumnsBefore(col) \union {file[1][col]}
        BY <1>1, <2>2, ColumnsStep
      <4> QED
        BY <2>1, <2>3, <3>1, <3>2, <4>1
    <3> QED
      BY <2>1, <2>2, <2>3, <2>5, <3>3, <3>4, <3>5, <3>6
  <2> QED
    BY <2>2, <2>4, <2>5
<1>7. CASE NextLine
  <2>1. /\ pc = "row" /\ line < Len(file) /\ line' = line + 1
        /\ UNCHANGED <<redis, refused>>
        /\ row' = IF file[line + 1] = <<Empty>> THEN row ELSE row + 1
        /\ col' = IF file[line + 1] = <<Empty>> THEN Len(schema) + 1 ELSE 1
        /\ RowStored
    BY <1>7 DEF NextLine, history
  <2>2. col = Width + 1 /\ Len(schema) = Width
    <3>1. schema = FileSchema
      BY <2>1 DEF SchemaInv, Parsing
    <3> QED
      BY <1>1, <2>1, <3>1, LineDone, SchemaColumns
  <2>3. line \in 2 .. Len(file) /\ line + 1 \in 2 .. Len(file) /\ col - 1 = Width
        /\ (line + 1) - 1 = line
    BY <1>3, <2>1, <2>2 DEF TypeInv, PlaceInv
  <2>4. /\ row = RowOf(line)
        /\ \A n \in 1 .. (line - 1) : RowOf(n) =< row
        /\ \A n \in DataLines :
             n < line /\ RowOf(n) \notin refused.rows => Holds(n, Width)
        /\ line \in DataLines /\ row \notin refused.rows => Holds(line, Width)
        /\ \A r \in (1 .. (row - 1)) \ refused.rows :
             ColumnsBefore(Width + 1) \subseteq DOMAIN Hash(r)
        /\ row \notin refused.rows => ColumnsBefore(Width + 1) \subseteq DOMAIN Hash(row)
    BY <2>1, <2>2, <2>3 DEF RowsInv
  <2>5. /\ \A r : Hash(r)' = Hash(r)
        /\ \A n, m : Holds(n, m)' <=> Holds(n, m)
    BY <1>1, <2>1, SameRows
  <2>6. RowOf(line + 1) = RowOf(line) + (IF line + 1 \in DataLines THEN 1 ELSE 0)
    BY <1>3, <1>4, <2>3
  <2>7. \A n \in 1 .. line : RowOf(n) =< row
    <3>1. \A n \in 1 .. line : n \in 1 .. (line - 1) \/ n = line
      BY <1>3
    <3> QED
      BY <1>3, <2>4, <3>1
  <2>8. \A n \in DataLines :
          n < line' /\ RowOf(n) \notin refused'.rows => Holds(n, Width)'
    <3>1. \A n \in DataLines : n < line' => n < line \/ n = line
      BY <1>3, <2>1
    <3>2. \A n \in DataLines :
            n < line' /\ RowOf(n) \notin refused.rows => Holds(n, Width)
      BY <2>4, <3>1
    <3> QED
      BY <1>2, <2>1, <2>5, <3>2
  <2>9. CASE line + 1 \in DataLines
    <3>1. row' = row + 1 /\ col' = 1
      BY <2>1, <2>9 DEF DataLines
    <3>2. Holds(line, col - 1)'
      BY <3>1 DEF Holds
    <3>3. \A r \in 1 .. (row' - 1) : r \in 1 .. (row - 1) \/ r = row
      BY <1>3, <3>1
    <3>4. ColumnsBefore(1) = {}
      BY <1>1, ColumnsStep
    <3>5. row' = RowOf(line')
      BY <2>1, <2>4, <2>6, <2>9, <3>1
    <3>6. \A n \in 1 .. (line' - 1) : RowOf(n) =< row' /\ RowOf(n) < row'
      <4>1. \A n \in 1 .. line : RowOf(n) \in Int
        BY <1>4, <2>3
      <4>2. row \in Int /\ row' = row + 1 /\ 1 .. (line' - 1) = 1 .. line
        BY <1>3, <2>1, <2>3, <3>1
      <4>3. ASSUME NEW n \in 1 .. line
            PROVE  RowOf(n) =< row' /\ RowOf(n) < row'
        <5>1. RowOf(n) \in Int /\ RowOf(n) =< row
          BY <2>7, <4>1
        <5> QED
          BY <4>2, <5>1
      <4> QED
        BY <4>2, <4>3
    <3>7. \A r \in (1 .. (row' - 1)) \ refused'.rows :
            ColumnsBefore(Width + 1) \subseteq DOMAIN Hash(r)'
      BY <2>1, <2>4, <2>5, <3>3
    <3> QED
      BY <2>1, <2>8, <2>9, <3>1, <3>2, <3>4, <3>5, <3>6, <3>7
  <2>10. CASE line + 1 \notin DataLines
    <3>1. row' = row /\ col' = Width + 1
      BY <2>1, <2>2, <2>3, <2>10 DEF DataLines
    <3>2. row' = RowOf(line')
      BY <1>3, <2>1, <2>4, <2>6, <2>10, <3>1
    <3>3. \A n \in 1 .. (line' - 1) : RowOf(n) =< row'
      BY <2>1, <2>3, <2>7, <3>1
    <3>4. row' \notin refused'.rows => ColumnsBefore(col') \subseteq DOMAIN Hash(row)'
      BY <2>1, <2>4, <2>5, <3>1
    <3>5. \A r \in (1 .. (row' - 1)) \ refused'.rows :
            ColumnsBefore(Width + 1) \subseteq DOMAIN Hash(r)'
      BY <2>1, <2>4, <2>5, <3>1
    <3> QED
      BY <2>1, <2>8, <2>10, <3>1, <3>2, <3>3, <3>4, <3>5
  <2> QED
    BY <2>9, <2>10
<1>8. CASE UNCHANGED redisVars
  <2>1. UNCHANGED <<redis, refused, pc, line, row, col>>
    BY <1>8 DEF redisVars, history
  <2>2. /\ \A r : Hash(r)' = Hash(r)
        /\ \A n, m : Holds(n, m)' <=> Holds(n, m)
    BY <1>1, <2>1, SameRows
  <2>3. Hash(row)' = Hash(row) /\ (Holds(line, col - 1)' <=> Holds(line, col - 1))
    BY <2>1, <2>2
  <2>4. \A n : Holds(n, Width)' <=> Holds(n, Width)
    BY <1>2, <2>2
  <2> QED
    BY <2>1, <2>2, <2>3, <2>4 DEF RowsInv
<1>9. RedisNext => SchemaStored \/ HsetField \/ NextLine
  <2>1. CASE Connect \/ SetPersistence \/ PersistenceSet
    BY <2>1 DEF Connect, SetPersistence, PersistenceSet
  <2>2. ~(Parse \/ ParseFails \/ DelSchema \/ HsetSchema \/ TokenCrash \/ Loaded)
    BY DEF Parse, ParseFails, DelSchema, HsetSchema, TokenCrash, Loaded
  <2>3. ~(Select \/ Add \/ QueryOver)
    BY Queries DEF Select, Add, QueryOver
  <2> QED
    BY <2>1, <2>2, <2>3 DEF RedisNext, Load
<1> QED
  BY <1>5, <1>6, <1>7, <1>8, <1>9

-----------------------------------------------------------------------------
(* The queries *)

(* The rows stay as the load has left them. *)
LEMMA QueryNext ==
  ASSUME TypeInv, SchemaInv, RowsInv, QueryInv, [RedisNext]_redisVars
  PROVE  QueryInv'
<1>1. file' = file /\ file \in Files
  BY Frame DEF TypeInv, RedisTypeOK
<1>2. /\ WellFormed' <=> WellFormed
      /\ DataLines' = DataLines /\ Width' = Width
      /\ \A n : RowOf(n)' = RowOf(n)
      /\ \A n : ColumnsBefore(n)' = ColumnsBefore(n)
  BY <1>1, SameFile
<1> SUFFICES ASSUME WellFormed, Querying'
             PROVE  /\ rowCount' = RowOf(Len(file))
                    /\ \A n \in 1 .. Len(file) : RowOf(n) =< rowCount'
                    /\ \A n \in DataLines :
                         RowOf(n) \notin refused'.rows => Holds(n, Width)'
                    /\ \A r \in (1 .. rowCount') \ refused'.rows :
                         ColumnsBefore(Width + 1) \subseteq DOMAIN Hash(r)'
  <2>1. RowOf(Len(file))' = RowOf(Len(file))
        /\ ColumnsBefore(Width + 1)' = ColumnsBefore(Width + 1)
    BY <1>1, <1>2
  <2> QED
    BY <1>1, <1>2, <2>1 DEF QueryInv
<1>3. /\ Width \in Nat \ {0} /\ Len(file) \in Nat /\ Len(file) >= 2
      /\ line \in Nat /\ row \in Nat /\ DataLines \subseteq 2 .. Len(file)
  BY <1>1, SchemaColumns, Numbers DEF WellFormed, DataLines
<1>4. \A n \in 1 .. Len(file) : RowOf(n) \in Int
  BY <1>1, <1>3, RowOfLine
<1>5. CASE Loaded
  <2>1. /\ pc = "row" /\ line = Len(file) /\ rowCount' = row /\ RowStored
        /\ UNCHANGED <<redis, refused>>
    BY <1>5 DEF Loaded, history
  <2>2. col = Width + 1 /\ col - 1 = Width
    BY <1>3, <2>1, LineDone
  <2>3. /\ row = RowOf(line)
        /\ \A n \in 1 .. (line - 1) : RowOf(n) =< row
        /\ \A n \in DataLines :
             n < line /\ RowOf(n) \notin refused.rows => Holds(n, Width)
        /\ line \in DataLines /\ row \notin refused.rows => Holds(line, Width)
        /\ \A r \in (1 .. (row - 1)) \ refused.rows :
             ColumnsBefore(Width + 1) \subseteq DOMAIN Hash(r)
        /\ row \notin refused.rows => ColumnsBefore(Width + 1) \subseteq DOMAIN Hash(row)
    BY <2>1, <2>2 DEF RowsInv
  <2>4. /\ \A r : Hash(r)' = Hash(r)
        /\ \A n, m : Holds(n, m)' <=> Holds(n, m)
    BY <1>1, <2>1, SameRows
  <2>5. \A n \in 1 .. Len(file) : RowOf(n) =< rowCount'
    <3>1. \A n \in 1 .. Len(file) : n \in 1 .. (line - 1) \/ n = line
      BY <1>3, <2>1
    <3> QED
      BY <1>3, <2>1, <2>3, <3>1
  <2>6. \A n \in DataLines : RowOf(n) \notin refused'.rows => Holds(n, Width)'
    <3>1. \A n \in DataLines : n < line \/ n = line
      BY <1>3, <2>1
    <3>2. \A n \in DataLines : RowOf(n) \notin refused.rows => Holds(n, Width)
      BY <2>3, <3>1
    <3> QED
      BY <1>2, <2>1, <2>4, <3>2
  <2>7. \A r \in (1 .. rowCount') \ refused'.rows :
          ColumnsBefore(Width + 1) \subseteq DOMAIN Hash(r)'
    <3>1. \A r \in 1 .. rowCount' : r \in 1 .. (row - 1) \/ r = row
      BY <1>3, <2>1
    <3> QED
      BY <2>1, <2>3, <2>4, <3>1
  <2> QED
    BY <2>1, <2>3, <2>5, <2>6, <2>7
<1>6. CASE Select \/ Add \/ QueryOver \/ UNCHANGED redisVars
  <2>1. UNCHANGED <<redis, rowCount, refused>> /\ Querying
    BY <1>6, Queries DEF Select, Add, QueryOver, redisVars, history, Querying
  <2>2. /\ \A r : Hash(r)' = Hash(r)
        /\ \A n, m : Holds(n, m)' <=> Holds(n, m)
    BY <1>1, <2>1, SameRows
  <2>3. \A n : Holds(n, Width)' <=> Holds(n, Width)
    BY <1>2, <2>2
  <2> QED
    BY <2>1, <2>2, <2>3 DEF QueryInv
<1>7. RedisNext => Loaded \/ Select \/ Add \/ QueryOver
  <2>1. ~(Connect \/ SetPersistence \/ PersistenceSet)
    BY Queries DEF Connect, SetPersistence, PersistenceSet, Querying
  <2>2. ~(Parse \/ DelSchema \/ HsetSchema \/ SchemaStored \/ HsetField \/ TokenCrash \/ NextLine)
    BY Queries DEF Parse, DelSchema, HsetSchema, SchemaStored, HsetField, TokenCrash,
       NextLine, Querying
  <2>3. ~ParseFails
    BY <1>3 DEF ParseFails
  <2> QED
    BY <2>1, <2>2, <2>3 DEF RedisNext, Load
<1> QED
  BY <1>5, <1>6, <1>7

(* A query adds up the rows that it is answered, which are the file's.     *)
LEMMA SumNext ==
  ASSUME TypeInv, SchemaInv, RowsInv, QueryInv, SumInv, [RedisNext]_redisVars
  PROVE  SumInv'
<1>1. file' = file /\ file \in Files
  BY Frame DEF TypeInv, RedisTypeOK
<1>2. (WellFormed' <=> WellFormed) /\ \A rows : FileSum(rows)' = FileSum(rows)
  BY <1>1, SameFile
<1> SUFFICES ASSUME WellFormed
             PROVE  /\ missed' \subseteq refused'.rows
                    /\ pc' \in {"project", "aggregate"} =>
                         sum' = RowsSum(answered[pc], row - 1)'
                    /\ pc' = "project" => count' = Cardinality(answered'["project"])
                    /\ pc' \in {"aggregate", "end"} =>
                         /\ results'.count = Cardinality(answered'["project"])
                         /\ SumOf(results.total, answered["project"])'
                    /\ pc' = "end" => SumOf(results.sum, answered["aggregate"])'
  BY <1>1, <1>2 DEF SumInv
<1>3. /\ row \in Nat /\ rowCount \in Nat /\ count \in Nat /\ sum \in Int
      /\ results \in [sum : Int, total : Int, count : Nat]
      /\ answered \in Answers(rowCount)
  BY Numbers DEF TypeInv, RedisTypeOK, PlaceInv, Answers
<1>4. missed \subseteq refused.rows
  BY DEF SumInv
<1>5. /\ FileSum({}) = 0 /\ Cardinality({}) = 0
      /\ NoneAnswered["project"] = {} /\ NoneAnswered["aggregate"] = {}
  BY <1>1, NoFileSum, FS_EmptySet, HistoryStart
<1>6. CASE Connect \/ SetPersistence \/ PersistenceSet \/ Parse \/ ParseFails \/ DelSchema
           \/ HsetSchema \/ SchemaStored \/ HsetField \/ TokenCrash \/ NextLine
  <2>1. ~ParseFails
    BY DEF ParseFails, WellFormed
  <2>2. /\ missed' = missed
        /\ pc \in {"connect", "config", "open", "del", "schema", "row"}
        /\ pc' \in {"config", "noServer", "open", "del", "schema", "row", "crashed"}
    BY <1>6, <2>1 DEF Connect, SetPersistence, PersistenceSet, Data, Parse, DelSchema,
       HsetSchema, SchemaStored, HsetField, TokenCrash, NextLine, history
  <2>3. missed = {}
    BY <2>2 DEF TypeInv, PlaceInv, Parsing
  <2> QED
    BY <2>2, <2>3
<1>7. CASE Loaded
  <2>1. /\ pc = "row" /\ pc' \in {"gauss", "end"}
        /\ UNCHANGED <<results, refused, answered, missed>>
    BY <1>7 DEF Loaded, history
  <2>2. answered = NoneAnswered /\ results = NoResults
    BY <2>1 DEF TypeInv, PlaceInv, Parsing
  <2>3. SumOf(results.total, answered["project"])' /\ SumOf(results.sum, answered["aggregate"])'
    BY <1>2, <1>5, <2>1, <2>2 DEF SumOf, NoResults
  <2> QED
    BY <1>4, <1>5, <2>1, <2>2, <2>3 DEF NoResults
<1>8. CASE Select
  <2>1. /\ pc \in {"gauss", "all"} /\ pc' = pc /\ row =< rowCount /\ refused' = refused
    BY <1>8 DEF Select
  <2>2. ASSUME NEW r \in 1 .. rowCount, Hash(r) = NoHash
        PROVE  r \in refused.rows
    <3>1. ColumnsBefore(Width + 1) # {}
      BY <1>1, ColumnsStep
    <3>2. r \notin refused.rows => ColumnsBefore(Width + 1) \subseteq DOMAIN Hash(r)
      BY <2>1, Queries DEF QueryInv, Querying
    <3>3. DOMAIN NoHash = {}
      BY DEF NoHash
    <3> QED
      BY <2>2, <3>1, <3>2, <3>3
  <2>3. row \in 1 .. rowCount
    BY <1>3, <2>1, Queries DEF TypeInv, PlaceInv, Querying
  <2>4. missed' \subseteq refused.rows
    BY <1>4, <1>8, <2>2, <2>3, Selected
  <2> QED
    BY <2>1, <2>4
<1>9. CASE Add
  <2> DEFINE S == answered[pc]
  <2>1. /\ pc \in {"project", "aggregate"} /\ pc' = pc /\ row =< rowCount /\ row' = row + 1
        /\ UNCHANGED <<redis, schema, rowCount, missed, results, refused>>
        /\ \/ /\ sum' = sum + RowSum(Hash(row))
              /\ count' = IF pc = "project" THEN count + 1 ELSE count
              /\ answered' = [answered EXCEPT ![pc] = @ \union {row}]
           \/ UNCHANGED <<sum, count, answered>>
    BY <1>9 DEF Add
  <2>2. /\ row \in 1 .. rowCount /\ row - 1 \in 0 .. rowCount
        /\ S \subseteq 1 .. (row - 1) /\ row \notin S
    <3>1. row \in 1 .. rowCount /\ S \subseteq 1 .. (row - 1)
      BY <1>3, <2>1, Queries DEF TypeInv, PlaceInv, Querying
    <3>2. row \notin 1 .. (row - 1) /\ row - 1 \in 0 .. rowCount
      BY <1>3, <3>1
    <3> QED
      BY <3>1, <3>2
  <2>3. /\ sum = RowsSum(S, row - 1)
        /\ pc = "project" => count = Cardinality(S)
        /\ pc = "aggregate" => /\ results.count = Cardinality(answered["project"])
                               /\ SumOf(results.total, answered["project"])
    BY <2>1 DEF SumInv
  <2>4. \A rows : RowsSum(rows, row - 1)' = RowsSum(rows, row)
    <3>1. (row - 1)' = row
      BY <1>3, <2>1
    <3>2. \A rows, n : RowsSum(rows, n)' = RowsSum(rows, n)
      BY <2>1, SameSums
    <3> QED
      BY <3>1, <3>2
  <2>5. CASE UNCHANGED <<sum, count, answered>>
    <3>1. RowsSum(S, row) = RowsSum(S, row - 1) + 0 /\ RowsSum(S, row - 1) \in Int
      <4>1. RowsSum(S, row) =
              RowsSum(S, row - 1) + (IF row \in S THEN RowSum(Hash(row)) ELSE 0)
        BY <2>2, RowsSumStep
      <4>2. RowsSum(S, row - 1) \in Int
        BY <2>2, RowsSumStep
      <4> QED
        BY <2>2, <4>1, <4>2
    <3>2. sum' = RowsSum(answered[pc], row - 1)'
      <4>1. sum' = RowsSum(S, row)
        BY <2>3, <2>5, <3>1
      <4>2. answered'[pc'] = S
        BY <2>1, <2>5
      <4> QED
        BY <2>4, <4>1, <4>2
    <3>3. pc = "aggregate" => SumOf(results.total, answered["project"])'
      BY <1>2, <2>1, <2>3, <2>5 DEF SumOf
    <3> QED
      BY <1>4, <2>1, <2>3, <2>5, <3>2, <3>3
  <2>6. CASE /\ sum' = sum + RowSum(Hash(row))
             /\ count' = IF pc = "project" THEN count + 1 ELSE count
             /\ answered' = [answered EXCEPT ![pc] = @ \union {row}]
    <3> DEFINE T == S \union {row}
    <3>1. /\ answered'[pc] = T
          /\ pc = "aggregate" => answered'["project"] = answered["project"]
      BY <1>3, <2>1, <2>6 DEF Answers
    <3>2. sum' = RowsSum(T, row)
      <4>1. row \in T
        OBVIOUS
      <4>2. \A r \in 1 .. (row - 1) : r \in S <=> r \in T
        BY <1>3, <2>2
      <4> HIDE DEF S, T
      <4>3. RowsSum(T, row) = RowsSum(T, row - 1) + RowSum(Hash(row))
        <5>1. RowsSum(T, row) =
                RowsSum(T, row - 1) + (IF row \in T THEN RowSum(Hash(row)) ELSE 0)
          BY <2>2, RowsSumStep
        <5> QED
          BY <4>1, <5>1
      <4>4. RowsSum(S, row - 1) = RowsSum(T, row - 1)
        BY <2>2, <4>2, RowsSumSame
      <4> QED
        BY <2>3, <2>6, <4>3, <4>4
    <3>3. sum' = RowsSum(answered[pc], row - 1)'
      <4>1. answered'[pc'] = T
        BY <2>1, <3>1
      <4> HIDE DEF T
      <4> QED
        BY <2>4, <3>2, <4>1
    <3>4. pc = "project" => count' = Cardinality(answered'["project"])
      <4>1. IsFiniteSet(S)
        <5>1. IsFiniteSet(1 .. (row - 1))
          BY <1>3, FS_Interval
        <5> QED
          BY <2>2, <5>1, FS_Subset
      <4>2. Cardinality(T) = Cardinality(S) + 1
        BY <2>2, <4>1, FS_AddElement
      <4> QED
        BY <2>3, <2>6, <3>1, <4>2
    <3>5. pc = "aggregate" => SumOf(results.total, answered["project"])'
      BY <1>2, <2>1, <2>3, <3>1 DEF SumOf
    <3> QED
      BY <1>4, <2>1, <2>3, <3>1, <3>3, <3>4, <3>5
  <2> QED
    BY <2>1, <2>5, <2>6
<1>10. CASE QueryOver
  <2>1. /\ pc \in DOMAIN QueryOrder /\ pc' = QueryOrder[pc] /\ row > rowCount
        /\ row' = 1 /\ sum' = 0 /\ count' = count
        /\ UNCHANGED <<redis, schema, rowCount, refused, answered, missed>>
        /\ results' = CASE pc = "project" ->
                             [results EXCEPT !.total = sum, !.count = count]
                        [] pc = "aggregate" -> [results EXCEPT !.sum = sum]
                        [] OTHER -> results
    BY <1>10 DEF QueryOver, history
  <2>2. row = rowCount + 1 /\ row - 1 = rowCount
    BY <1>3, <2>1 DEF TypeInv, PlaceInv, Querying
  <2>3. ASSUME NEW rows, rows \intersect refused.rows = {}
        PROVE  RowsSum(rows, rowCount) = FileSum(rows)
    <3>1. schema = FileSchema /\ rowCount = RowOf(Len(file))
          /\ (\A n \in 1 .. Len(file) : RowOf(n) =< rowCount)
          /\ (\A n \in DataLines : RowOf(n) \in rows => Holds(n, Width))
      BY <2>1, <2>3 DEF SchemaInv, QueryInv, Querying
    <3> QED
      BY <3>1, SumOfRows
  <2>4. \A rows : RowsSum(rows, row - 1)' = 0
    <3>1. (row - 1)' = 0
      BY <2>1
    <3>2. \A rows, n : RowsSum(rows, n)' = RowsSum(rows, n)
      BY <2>1, SameSums
    <3>3. \A rows : RowsSum(rows, 0) = 0
      BY RowsSumStep
    <3> QED
      BY <3>1, <3>2, <3>3
  <2>5. CASE pc = "gauss"
    BY <1>4, <2>1, <2>5, Queries
  <2>6. CASE pc = "all"
    <3>1. count = 0 /\ answered = NoneAnswered
      BY <2>6 DEF TypeInv, PlaceInv
    <3>2. sum' = RowsSum(answered[pc], row - 1)'
      BY <2>1, <2>4
    <3> QED
      BY <1>4, <1>5, <2>1, <2>6, <3>1, <3>2, Queries
  <2>7. CASE pc = "project"
    <3>1. sum = RowsSum(answered["project"], rowCount)
          /\ count = Cardinality(answered["project"])
      BY <2>2, <2>7 DEF SumInv
    <3>2. results'.total = sum /\ results'.count = count /\ pc' = "aggregate"
      BY <1>3, <2>1, <2>7, Queries
    <3>3. SumOf(results.total, answered["project"])'
      BY <1>2, <2>1, <2>3, <3>1, <3>2 DEF SumOf
    <3>4. sum' = RowsSum(answered[pc], row - 1)'
      BY <2>1, <2>4
    <3> QED
      BY <1>4, <2>1, <3>1, <3>2, <3>3, <3>4
  <2>8. CASE pc = "aggregate"
    <3>1. /\ sum = RowsSum(answered["aggregate"], rowCount)
          /\ results.count = Cardinality(answered["project"])
          /\ SumOf(results.total, answered["project"])
      BY <2>2, <2>8 DEF SumInv
    <3>2. results'.sum = sum /\ results'.total = results.total
          /\ results'.count = results.count /\ pc' = "end"
      BY <1>3, <2>1, <2>8, Queries
    <3>3. SumOf(results.total, answered["project"])' /\ SumOf(results.sum, answered["aggregate"])'
      BY <1>2, <2>1, <2>3, <3>1, <3>2 DEF SumOf
    <3> QED
      BY <1>4, <2>1, <3>1, <3>2, <3>3
  <2> QED
    BY <2>1, <2>5, <2>6, <2>7, <2>8, Queries
<1>11. CASE UNCHANGED redisVars
  <2>1. UNCHANGED <<redis, schema, rowCount, refused, answered, missed, pc, sum, row, count,
                    results>>
    BY <1>11 DEF redisVars, history
  <2>2. RowsSum(answered[pc], row - 1)' = RowsSum(answered[pc], row - 1)
    <3>1. (row - 1)' = row - 1 /\ answered'[pc'] = answered[pc]
      BY <2>1
    <3>2. \A rows, n : RowsSum(rows, n)' = RowsSum(rows, n)
      BY <2>1, SameSums
    <3> QED
      BY <3>1, <3>2
  <2>3. /\ SumOf(results.total, answered["project"])' <=>
             SumOf(results.total, answered["project"])
        /\ SumOf(results.sum, answered["aggregate"])' <=>
             SumOf(results.sum, answered["aggregate"])
    BY <1>2, <2>1 DEF SumOf
  <2> QED
    BY <2>1, <2>2, <2>3 DEF SumInv
<1> QED
  BY <1>6, <1>7, <1>8, <1>9, <1>10, <1>11 DEF RedisNext, Load

-----------------------------------------------------------------------------
(* What holds of the load and of the queries *)

(* Before the load nothing is parsed, stored or queried. *)
LEMMA LoadInit == RedisInit => LoadInv
<1> SUFFICES ASSUME RedisInit PROVE LoadInv
  OBVIOUS
<1>1. pc = "connect" /\ missed = {}
  BY DEF RedisInit
<1>2. ~Parsing /\ ~Querying
  BY <1>1, Queries DEF Parsing, Querying
<1> QED
  BY <1>1, <1>2, TypeInit DEF LoadInv, ModeInv, ModeIsAsPrinted, SchemaInv, RowsInv,
     QueryInv, SumInv

(* Every step keeps what has been established. *)
LEMMA LoadNext == LoadInv /\ [RedisNext]_redisVars => LoadInv'
<1> SUFFICES ASSUME LoadInv, [RedisNext]_redisVars PROVE LoadInv'
  OBVIOUS
<1>1. TypeInv /\ ModeInv /\ ModeIsAsPrinted /\ SchemaInv /\ RowsInv /\ QueryInv /\ SumInv
  BY DEF LoadInv
<1>2. TypeInv'
  BY <1>1, TypeNext
<1>3. ModeInv' /\ ModeIsAsPrinted'
  BY <1>1, ModeNext
<1>4. SchemaInv'
  BY <1>1, SchemaNext
<1>5. RowsInv' /\ QueryInv'
  BY <1>1, RowsNext, QueryNext
<1>6. SumInv'
  BY <1>1, SumNext
<1> QED
  BY <1>2, <1>3, <1>4, <1>5, <1>6 DEF LoadInv

(***************************************************************************)
(* Whatever the file, what is on the server and the commands that fail:    *)
(* the indices stay within the file, its columns and its rows.             *)
(***************************************************************************)
THEOREM RedisTypeCorrect == RedisSpec => []RedisTypeOK
<1>1. LoadInv => RedisTypeOK
  BY DEF LoadInv, TypeInv
<1> QED
  BY <1>1, LoadInit, LoadNext, PTL DEF RedisSpec

(* The server persists as the mode that is printed says. *)
THEOREM ModeCorrect == RedisSpec => []ModeIsAsPrinted
<1>1. LoadInv => ModeIsAsPrinted
  BY DEF LoadInv
<1> QED
  BY <1>1, LoadInit, LoadNext, PTL DEF RedisSpec

(***************************************************************************)
(* The stored schema has the columns of the file that the server took; an  *)
(* earlier load leaves nothing in it unless the server refused to delete   *)
(* what there was.                                                         *)
(***************************************************************************)
THEOREM SchemaCorrect == RedisSpec => []SchemaIsOfTheFile
<1>1. LoadInv => SchemaIsOfTheFile
  <2> SUFFICES ASSUME LoadInv, pc \in DOMAIN QueryOrder, WellFormed, ~refused.del
               PROVE  redis.schema =
                        [c \in {file[1][k] : k \in DOMAIN file[1] \ refused.cols} |->
                           \E k \in IntColumns : file[1][k] = c]
    BY DEF SchemaIsOfTheFile
  <2>1. redis.schema = StoredSchema(Width + 1, refused.cols)
    BY DEF LoadInv, SchemaInv, Querying
  <2>2. 1 .. ((Width + 1) - 1) = DOMAIN file[1]
    BY SchemaColumns DEF LoadInv, TypeInv, RedisTypeOK
  <2> QED
    BY <2>1, <2>2 DEF StoredSchema
<1> QED
  BY <1>1, LoadInit, LoadNext, PTL DEF RedisSpec

(***************************************************************************)
(* A row that was counted is there with all its columns, and found by      *)
(* every select, unless the server refused a field of it.                  *)
(***************************************************************************)
THEOREM RowsFound == RedisSpec => []EveryRowIsFound
<1>1. LoadInv => EveryRowIsFound
  <2> SUFFICES ASSUME LoadInv, WellFormed
               PROVE  /\ missed \subseteq refused.rows
                      /\ pc \in DOMAIN QueryOrder =>
                           \A r \in (1 .. rowCount) \ refused.rows :
                             {file[1][k] : k \in DOMAIN file[1]} \subseteq DOMAIN Hash(r)
    BY DEF EveryRowIsFound
  <2>1. ColumnsBefore(Width + 1) = {file[1][k] : k \in DOMAIN file[1]}
    BY ColumnsStep DEF LoadInv, TypeInv, RedisTypeOK
  <2>2. missed \subseteq refused.rows
    BY DEF LoadInv, SumInv
  <2>3. pc \in DOMAIN QueryOrder =>
          \A r \in (1 .. rowCount) \ refused.rows :
            ColumnsBefore(Width + 1) \subseteq DOMAIN Hash(r)
    BY DEF LoadInv, QueryInv, Querying
  <2> QED
    BY <2>1, <2>2, <2>3
<1> QED
  BY <1>1, LoadInit, LoadNext, PTL DEF RedisSpec

(***************************************************************************)
(* The aggregation prints the sum of the file's int columns over the rows  *)
(* it was answered, the projection that sum over the number of the rows it *)
(* was answered, for every well-formed file and whichever commands fail,   *)
(* unless one of these rows has lost a field.                              *)
(***************************************************************************)
THEOREM SumCorrect == RedisSpec => []SumIsOfTheFile
<1>1. LoadInv => SumIsOfTheFile
  BY DEF LoadInv, SumInv, SumOf, SumIsOfTheFile
<1> QED
  BY <1>1, LoadInit, LoadNext, PTL DEF RedisSpec
=============================================================================
