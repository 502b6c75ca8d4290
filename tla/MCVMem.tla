------------------------------- MODULE MCVMem --------------------------------
(***************************************************************************)
(* Instances of VMem for TLC: process 1 is the shell, 3 and 4 its children.*)
(***************************************************************************)
EXTENDS VMem

(* With pages of two bytes: kernel memory, seven whole user pages and half  *)
(* a page, a reserved page, two more pages, and the ROM at the end.         *)
MCMemMap == << <<0, 4, TRUE>>, <<4, 15, TRUE>>, <<20, 2, FALSE>>,
               <<22, 4, TRUE>>, <<30, 2, FALSE>> >>

MCImage == << <<0, 0>> >>

-----------------------------------------------------------------------------
(* pmem_init on every memory map of up to two ranges that end at the end of *)
(* memory at most: 16 bytes in pages of two, so that ranges begin and end   *)
(* anywhere in a page.                                                      *)
LO == 2
HI == 7
SIZE == 16

M == INSTANCE MATInit WITH WORD <- SIZE, PAGESIZE <- 2,
                           USERLO_PI <- LO, USERHI_PI <- HI

Ranges == {r \in (0 .. SIZE - 1) \X (1 .. SIZE - 1) \X BOOLEAN :
             r[1] + r[2] <= SIZE}

Maps == {<<r>> : r \in Ranges} \cup {<<r, s>> : r, s \in Ranges}

(* The bytes of a range and of a page, as they are in memory.               *)
Bytes(r) == r[1] .. r[1] + r[2] - 1
PageBytes(i) == 2 * i .. 2 * i + 1

Disjoint(m) == Len(m) = 2 => Bytes(m[1]) \cap Bytes(m[2]) = {}

(* "The permission should be set to 2 only if there is a range containing   *)
(* the entire page that is marked as available in the memory map table",    *)
(* and, where ranges do not overlap, exactly for the user pages of such a   *)
(* range, short of one that ends where addresses wrap.                      *)
NormalIsUsable ==
  mem = ProcCreate(PagingInit, 0, ShellQuota) => \A m \in Maps :
    LET In(i, j) == m[j][3] /\ PageBytes(i) \subseteq Bytes(m[j])
    IN  /\ \A i \in M!NormalPages(m) : \E j \in DOMAIN m : In(i, j)
        /\ Disjoint(m) =>
             \A i \in LO .. HI - 1, j \in DOMAIN m :
               In(i, j) /\ m[j][1] + m[j][2] < SIZE => i \in M!NormalPages(m)
=============================================================================
