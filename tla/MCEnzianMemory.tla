--------------------------- MODULE MCEnzianMemory ---------------------------
(***************************************************************************)
(* Two processes, one of them with two threads, and blocks of two pages.   *)
(***************************************************************************)
EXTENDS EnzianMemory, TLC

CONSTANTS m1, m2, t1, t2, t3

MCMms == {m1, m2}
MCThreads == {t1, t2, t3}
MCMmOf == (t1 :> m1) @@ (t2 :> m1) @@ (t3 :> m2)

(* mem.c and mb_enzian.c: block-aligned ranges, whole blocks. *)
AlignedLayouts ==
  {[start |-> 0, len |-> 4, pgoff |-> 2], [start |-> 2, len |-> 2, pgoff |-> 0]}

(* redis_fpga.c: mmap(NULL, ...), any page the kernel chooses. *)
KernelChosenLayouts == {[start |-> 1, len |-> 3, pgoff |-> 0]}
=============================================================================
