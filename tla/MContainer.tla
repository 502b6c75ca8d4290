----------------------------- MODULE MContainer ------------------------------
(***************************************************************************)
(* The resource containers of kern/pmm/MContainer: a tree of page quotas.  *)
(* A container table is a record of functions from container id, one per   *)
(* field of struct SContainer; the operations are operators on tables.     *)
(* Page counts are machine words: every comparison and addition below      *)
(* mixes an int field with an unsigned argument, so C performs it on       *)
(* unsigned words, and an addition wraps at WORD (2^32).                   *)
(***************************************************************************)
EXTENDS Params

CONSTANTS MAX_CHILDREN, WORD

ASSUME ContainerAssumption ==
  /\ MAX_CHILDREN \in Nat /\ MAX_CHILDREN > 1
  /\ WORD \in Nat \ {0}

Word == 0 .. WORD - 1

ContainerType == [quota : [Ids -> Word], usage : [Ids -> Word],
                  parent : [Ids -> Ids],
                  nchildren : [Ids -> 0 .. MAX_CHILDREN],
                  used : [Ids -> BOOLEAN]]

WordAdd(a, b) == IF a + b < WORD THEN a + b ELSE a + b - WORD

-----------------------------------------------------------------------------

ContainerInit(realQuota) ==
  [quota     |-> [i \in Ids |-> IF i = 0 THEN realQuota ELSE 0],
   usage     |-> [i \in Ids |-> 0],
   parent    |-> [i \in Ids |-> 0],
   nchildren |-> [i \in Ids |-> 0],
   used      |-> [i \in Ids |-> i = 0]]

CanConsume(c, id, n) == WordAdd(c.usage[id], n) <= c.quota[id]

(* Mutant of NextChild: the ranges of two parents overlap by one. *)
NextChildOverlap(c, id) == id * (MAX_CHILDREN - 1) + 1 + c.nchildren[id]

(* The container a split of id hands out next. *)
NextChild(c, id) == id * MAX_CHILDREN + 1 + c.nchildren[id]

(* Mutant of ContainerSplit: the parent is not charged. *)
SplitUncharged(c, id, n) ==
  LET child == NextChild(c, id)
  IN  [quota     |-> [c.quota EXCEPT ![child] = n],
       usage     |-> [c.usage EXCEPT ![child] = 0],
       parent    |-> [c.parent EXCEPT ![child] = id],
       nchildren |-> [c.nchildren EXCEPT ![child] = 0,
                                         ![id] = c.nchildren[id] + 1],
       used      |-> [c.used EXCEPT ![child] = TRUE]]

ContainerSplit(c, id, n) ==
  LET child == NextChild(c, id)
  IN  [quota     |-> [c.quota EXCEPT ![child] = n],
       usage     |-> [c.usage EXCEPT ![child] = 0,
                                     ![id] = WordAdd(c.usage[id], n)],
       parent    |-> [c.parent EXCEPT ![child] = id],
       nchildren |-> [c.nchildren EXCEPT ![child] = 0,
                                         ![id] = c.nchildren[id] + 1],
       used      |-> [c.used EXCEPT ![child] = TRUE]]

(* container_alloc counts the page before palloc finds one, and does not    *)
(* count it back when palloc fails.                                         *)
AtQuota(c, id) == c.usage[id] = c.quota[id]

ContainerAlloc(c, id) ==
  IF AtQuota(c, id)
  THEN c
  ELSE [c EXCEPT !.usage[id] = WordAdd(c.usage[id], 1)]

Refund(c, id, n) ==
  [c EXCEPT !.usage[id] = IF c.usage[id] >= n THEN c.usage[id] - n ELSE 0]

-----------------------------------------------------------------------------

(* f[0] + ... + f[n - 1].                                                   *)
SumBelow(f, n) ==
  LET sum[k \in 0 .. n] == IF k = 0 THEN 0 ELSE sum[k - 1] + f[k - 1]
  IN  sum[n]

(* The quotas of the children of id among the containers L.                 *)
ChildQuotas(c, L, id) ==
  [k \in Ids |-> IF k \in L /\ c.parent[k] = id THEN c.quota[k] ELSE 0]

ChildSum(c, L, id) == SumBelow(ChildQuotas(c, L, id), NUM_IDS)
=============================================================================
