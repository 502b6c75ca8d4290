------------------------------- MODULE MATInit -------------------------------
(***************************************************************************)
(* pmem_init of kern/pmm/MATInit: which physical pages the allocator may   *)
(* hand out, computed from the boot loader's memory map.  A map is a       *)
(* sequence of ranges <<start, length, usable>>.  Addresses are machine    *)
(* words, and sums and products wrap at WORD.                              *)
(***************************************************************************)
EXTENDS Integers, Sequences, FiniteSetsExt

CONSTANTS WORD,
          PAGESIZE,
          USERLO_PI, USERHI_PI  \* user pages are USERLO_PI .. USERHI_PI - 1

End(r) == (r[1] + r[2]) % WORD

(* NUM_PAGES is one more than the last page that any range touches.         *)
Nps(map) ==
  Max({0} \cup {End(map[j]) \div PAGESIZE + 1 : j \in DOMAIN map})

Covers(r, i) ==
  /\ r[1] <= (i * PAGESIZE) % WORD
  /\ End(r) >= ((i + 1) * PAGESIZE) % WORD

(* Mutant: the pages above the user's are not kept for the kernel.          *)
AtIsNormHigh(map, i) ==
  /\ USERLO_PI <= i
  /\ LET C == {j \in DOMAIN map : Covers(map[j], i)}
     IN  C # {} /\ map[Min(C)][3]

(* A user page is normal if the first range that contains all of it is      *)
(* usable.                                                                  *)
AtIsNorm(map, i) ==
  /\ USERLO_PI <= i /\ i < USERHI_PI
  /\ LET C == {j \in DOMAIN map : Covers(map[j], i)}
     IN  C # {} /\ map[Min(C)][3]

NormalPages(map) == {i \in 0 .. Nps(map) - 1 : AtIsNorm(map, i)}
=============================================================================
