----------------------------- MODULE VMemProofs ------------------------------
(***************************************************************************)
(* Proof that address spaces are disjoint, for every memory map, every     *)
(* program image, every tree of quotas and every number of processes.      *)
(***************************************************************************)
EXTENDS VMem, FiniteSetTheorems, TLAPS

-----------------------------------------------------------------------------
(* Extreme elements.                                                        *)

(* Min of a set of numbers that is not empty is one of them.                *)
LEMMA MinIn ==
  ASSUME NEW S, S \subseteq Nat, S # {}
  PROVE  Min(S) \in S /\ \A y \in S : Min(S) <= y
<1>1. PICK x \in S : \A y \in S : ~(<<y, x>> \in OpToRel(<, Nat))
  BY NatLessThanWellFounded, WFMin
<1>2. ASSUME NEW y \in S PROVE x <= y
  <2>1. ~(y < x)
    BY Zenon, <1>1 DEF OpToRel
  <2> QED
    BY <2>1
<1> QED
  BY Zenon, <1>2 DEF Min

(* Max of a bounded set of numbers that is not empty is one of them.        *)
LEMMA MaxIn ==
  ASSUME NEW S, S \subseteq Nat, S # {}, NEW b \in Nat, \A x \in S : x <= b
  PROVE  Max(S) \in S /\ \A y \in S : y <= Max(S)
<1> DEFINE U == {n \in Nat : \A x \in S : x <= n}
<1>1. U \subseteq Nat /\ b \in U
  OBVIOUS
<1>2. Min(U) \in U /\ \A y \in U : Min(U) <= y
  BY <1>1, MinIn
<1>3. Min(U) \in S
  <2>1. SUFFICES ASSUME Min(U) \notin S PROVE FALSE
    OBVIOUS
  <2>2. PICK x \in S : TRUE
    BY Zenon
  <2>3. \A y \in S : y < Min(U)
    BY <1>2, <2>1
  <2>4. Min(U) - 1 \in Nat /\ \A y \in S : y <= Min(U) - 1
    BY <1>2, <2>2, <2>3
  <2>5. Min(U) - 1 \in U
    BY <2>4
  <2> HIDE DEF U
  <2>6. Min(U) \in Nat
    BY Zenon, <1>1, <1>2
  <2>7. QED
    BY <1>2, <2>5, <2>6
<1>4. \E x \in S : \A y \in S : y <= x
  BY <1>2, <1>3
<1>5. QED
  BY Zenon, <1>4 DEF Max

LEMMA DivMod ==
  ASSUME NEW m \in Nat \ {0}, NEW a \in Int
  PROVE  a \div m \in Int /\ a % m \in 0 .. m - 1 /\ a = (a \div m) * m + (a % m)
  BY SMTT(30)

-----------------------------------------------------------------------------
(* The pages.                                                               *)

(* pmem_init finds at least one page.                                       *)
LEMMA NpsType == NPS \in Nat \ {0}
<1> DEFINE E(j) == P!End(MemMap[j]) \div PAGESIZE + 1
           S == {0} \cup {E(j) : j \in DOMAIN MemMap}
<1>1. \A j \in DOMAIN MemMap : MemMap[j][1] \in Nat /\ MemMap[j][2] \in Nat
  BY MemAssumption, ContainerAssumption DEF Word
<1>2. \A j \in DOMAIN MemMap : P!End(MemMap[j]) \in 0 .. WORD - 1
  BY <1>1, ContainerAssumption DEF P!End
<1>3. ASSUME NEW e \in 0 .. WORD - 1
      PROVE  e \div PAGESIZE + 1 \in Nat \ {0} /\ e \div PAGESIZE + 1 <= WORD + 1
  <2> DEFINE q == e \div PAGESIZE
  <2>1. PAGESIZE \in Nat \ {0} /\ e \in Nat
    BY MemAssumption
  <2>2. q \in Int /\ e % PAGESIZE \in 0 .. PAGESIZE - 1 /\ e = q * PAGESIZE + (e % PAGESIZE)
    BY <2>1, DivMod
  <2> HIDE DEF q
  <2>3. q >= 0
    BY <2>1, <2>2, SMTT(30)
  <2>4. q <= q * PAGESIZE
    BY <2>1, <2>2, <2>3, SMTT(30)
  <2>5. q + 1 \in Nat \ {0} /\ q + 1 <= WORD + 1
    BY <2>1, <2>2, <2>3, <2>4, ContainerAssumption
  <2> QED
    BY <2>5 DEF q
<1>4. \A j \in DOMAIN MemMap : E(j) \in Nat \ {0} /\ E(j) <= WORD + 1
  BY <1>2, <1>3
<1>5. 1 \in DOMAIN MemMap
  BY MemAssumption
<1> HIDE DEF E
<1>6. S \subseteq Nat /\ 0 \in S /\ WORD + 1 \in Nat /\ \A x \in S : x <= WORD + 1
  BY <1>4, ContainerAssumption
<1>7. E(1) \in S /\ E(1) \in Nat \ {0}
  BY <1>4, <1>5
<1> HIDE DEF S
<1>8. Max(S) \in S /\ \A y \in S : y <= Max(S)
  BY Zenon, <1>6, MaxIn
<1>9. Max(S) \in Nat \ {0}
  <2>1. Max(S) \in Nat /\ E(1) <= Max(S)
    BY Zenon, <1>6, <1>7, <1>8
  <2> HIDE DEF S
  <2> QED
    BY <1>7, <2>1
<1>10. NPS = Max(S)
  BY DEF NPS, P!Nps, P!Max, Max, S, E
<1>11. QED
  BY <1>9, <1>10

(* The pages that may be allocated: user pages of the memory map.           *)
LEMMA NormalType ==
  /\ Normal \subseteq Pages \ {0} /\ 0 \in Pages
  /\ Cardinality(Normal) \in Word
<1>1. NPS \in Nat \ {0} /\ USERLO_PI \in Nat \ {0} /\ USERHI_PI \in Word
  BY NpsType, MemAssumption
<1>2. \A i \in Normal : i \in 0 .. NPS - 1 /\ USERLO_PI <= i /\ i < USERHI_PI
  BY DEF Normal, P!NormalPages, NPS, P!AtIsNorm
<1>3. Normal \subseteq Pages \ {0} /\ 0 \in Pages
  BY <1>1, <1>2 DEF Pages
<1>4. Normal \subseteq 1 .. USERHI_PI
  BY <1>1, <1>2 DEF Word
<1>5. IsFiniteSet(1 .. USERHI_PI) /\ Cardinality(1 .. USERHI_PI) = USERHI_PI
  <2>1. 1 \in Int /\ USERHI_PI \in Nat
    BY <1>1 DEF Word
  <2>2. QED
    BY <2>1, FS_Interval
<1>6. Cardinality(Normal) \in Nat /\ Cardinality(Normal) <= USERHI_PI
  <2>1. IsFiniteSet(Normal) /\ Cardinality(Normal) <= Cardinality(1 .. USERHI_PI)
    BY Zenon, <1>4, <1>5, FS_Subset
  <2> QED
    BY Zenon, <1>5, <2>1, FS_CardinalityType
<1>7. QED
  BY <1>1, <1>3, <1>6, ContainerAssumption DEF Word

(* pmem_init, on a memory map without ranges that wrap: a page that may be  *)
(* allocated lies as a whole in a range that the boot loader calls usable.  *)
THEOREM NormalUsable ==
  ASSUME USERHI_PI * PAGESIZE < WORD,
         \A j \in DOMAIN MemMap : MemMap[j][1] + MemMap[j][2] < WORD
  PROVE  \A i \in Normal : \E j \in DOMAIN MemMap :
           /\ MemMap[j][3]
           /\ MemMap[j][1] <= i * PAGESIZE
           /\ (i + 1) * PAGESIZE <= MemMap[j][1] + MemMap[j][2]
<1> SUFFICES ASSUME NEW i \in Normal
             PROVE  \E j \in DOMAIN MemMap :
                      /\ MemMap[j][3]
                      /\ MemMap[j][1] <= i * PAGESIZE
                      /\ (i + 1) * PAGESIZE <= MemMap[j][1] + MemMap[j][2]
  OBVIOUS
<1> DEFINE C == {j \in DOMAIN MemMap : P!Covers(MemMap[j], i)}
<1>1. i \in Nat /\ i < USERHI_PI /\ C # {} /\ MemMap[Min(C)][3]
  <2>1. i \in 0 .. NPS - 1 /\ P!AtIsNorm(MemMap, i)
    BY DEF Normal, P!NormalPages, NPS
  <2>2. i < USERHI_PI /\ C # {} /\ MemMap[Min(C)][3]
    BY <2>1 DEF P!AtIsNorm, P!Min, Min
  <2> QED
    BY <2>1, <2>2, NpsType
<1>2. C \subseteq Nat
  BY MemAssumption
<1>3. PICK j \in C : MemMap[j][3]
  BY Zenon, <1>1, <1>2, MinIn
<1>4. /\ MemMap[j][1] <= (i * PAGESIZE) % WORD
      /\ (MemMap[j][1] + MemMap[j][2]) % WORD >= ((i + 1) * PAGESIZE) % WORD
  BY <1>3 DEF P!Covers, P!End
<1>5. PAGESIZE \in Nat /\ USERHI_PI \in Nat /\ WORD \in Nat \ {0}
  BY MemAssumption, ContainerAssumption DEF Word
<1>6. i * PAGESIZE \in Nat /\ (i + 1) * PAGESIZE \in Nat
  BY <1>1, <1>5
<1>7. i * PAGESIZE < WORD /\ (i + 1) * PAGESIZE < WORD
  <2>1. i + 1 \in Nat /\ i + 1 <= USERHI_PI
    BY <1>1, <1>5
  <2>2. \A a, b, c \in Nat : a <= b => a * c <= b * c
    BY SMTT(30)
  <2>3. (i + 1) * PAGESIZE <= USERHI_PI * PAGESIZE /\ i * PAGESIZE <= (i + 1) * PAGESIZE
    BY <1>1, <1>5, <2>1, <2>2
  <2>4. USERHI_PI * PAGESIZE \in Nat
    BY <1>5
  <2> QED
    BY <1>5, <1>6, <2>3, <2>4
<1>8. ASSUME NEW a \in Nat, a < WORD PROVE a % WORD = a
  BY <1>5, <1>8
<1>9. MemMap[j][1] + MemMap[j][2] \in Nat /\ MemMap[j][1] + MemMap[j][2] < WORD
  <2>1. MemMap[j][1] \in Nat /\ MemMap[j][2] \in Nat
    BY <1>3, MemAssumption, ContainerAssumption DEF Word
  <2> QED
    BY <1>3, <2>1
<1> QED
  BY <1>3, <1>4, <1>6, <1>7, <1>8, <1>9

-----------------------------------------------------------------------------
(* The invariant, of a memory.                                              *)

(* Every page table and every mapped page is an allocated page, and no page *)
(* is in two places.                                                        *)
Apart(m) ==
  /\ \A p \in Ids, d \in Pdes : m.pdir[p][d] # 0 => m.pdir[p][d] \in Normal \cap m.at
  /\ \A p \in Ids, va \in VAddrs : Pte(m, p, va) # 0 => Pte(m, p, va) \in Normal \cap m.at
  /\ \A p, q \in Ids, d, e \in Pdes :
       m.pdir[p][d] # 0 /\ m.pdir[p][d] = m.pdir[q][e] => p = q /\ d = e
  /\ \A p, q \in Ids, va, wa \in VAddrs :
       Pte(m, p, va) # 0 /\ Pte(m, p, va) = Pte(m, q, wa) => p = q /\ va = wa
  /\ \A p, q \in Ids, d \in Pdes, wa \in VAddrs :
       m.pdir[p][d] # 0 => m.pdir[p][d] # Pte(m, q, wa)

MInv(m) == m \in MemType /\ Apart(m)

(* Page i has been allocated and is not used yet.                           *)
Fresh(m, i) ==
  /\ i \in Normal \cap m.at
  /\ \A p \in Ids, d \in Pdes : m.pdir[p][d] # i
  /\ \A p \in Ids, va \in VAddrs : Pte(m, p, va) # i

(* The steps a mapping is made of: a page is taken, ...                     *)
Taken(m, n, i) ==
  /\ n \in MemType /\ n.pdir = m.pdir /\ n.ptbl = m.ptbl /\ m.at \subseteq n.at
  /\ i \in Pages /\ (i # 0 => i \in Normal /\ i \notin m.at /\ i \in n.at)

(* ... page j becomes a page table, ...                                     *)
TableAdded(m, n, p, d, j) ==
  /\ n \in MemType /\ m.at \subseteq n.at
  /\ \A q \in Ids, e \in Pdes :
       n.pdir[q][e] = IF q = p /\ e = d THEN j ELSE m.pdir[q][e]
  /\ \A q \in Ids, wa \in VAddrs : Pte(n, q, wa) = Pte(m, q, wa)

(* ... and page i is mapped.                                                *)
PageMapped(m, n, p, va, i) ==
  /\ n \in MemType /\ n.pdir = m.pdir /\ n.at = m.at
  /\ \A q \in Ids, wa \in VAddrs :
       Pte(n, q, wa) = IF q = p /\ wa = va THEN i ELSE Pte(m, q, wa)

LEMMA TakenFresh ==
  ASSUME NEW m, MInv(m), NEW n, NEW i, Taken(m, n, i)
  PROVE  MInv(n) /\ (i # 0 => Fresh(n, i))
<1>1. \A p, va : Pte(n, p, va) = Pte(m, p, va)
  BY DEF Taken, Pte
<1>2. Apart(n)
  BY <1>1 DEF MInv, Apart, Taken
<1>3. ASSUME i # 0 PROVE Fresh(n, i)
  <2>1. i \in Normal \cap n.at /\ i \notin m.at
    BY <1>3 DEF Taken
  <2>2. \A p \in Ids, d \in Pdes : n.pdir[p][d] # i
    BY <1>3, <2>1 DEF MInv, Apart, Taken
  <2>3. \A p \in Ids, va \in VAddrs : Pte(n, p, va) # i
    BY <1>1, <1>3, <2>1 DEF MInv, Apart
  <2> QED
    BY Zenon, <2>1, <2>2, <2>3 DEF Fresh
<1> QED
  BY Zenon, <1>2, <1>3 DEF MInv, Taken

LEMMA TableApart ==
  ASSUME NEW m, MInv(m), NEW n, NEW p \in Ids, NEW d \in Pdes, NEW j,
         Fresh(m, j), TableAdded(m, n, p, d, j)
  PROVE  MInv(n) /\ \A i : Fresh(m, i) /\ i # j => Fresh(n, i)
<1>1. j # 0 /\ j \in Normal /\ j \in n.at /\ m.at \subseteq n.at
  BY NormalType DEF Fresh, TableAdded
<1>2. \A q \in Ids, wa \in VAddrs : Pte(n, q, wa) = Pte(m, q, wa) /\ Pte(m, q, wa) # j
  BY DEF Fresh, TableAdded
<1>3. \A q \in Ids, e \in Pdes :
        /\ n.pdir[q][e] = IF q = p /\ e = d THEN j ELSE m.pdir[q][e]
        /\ m.pdir[q][e] # j
  BY DEF Fresh, TableAdded
<1>4. Apart(m)
  BY DEF MInv
<1>5. Apart(n)
  <2>1. \A q \in Ids, e \in Pdes : n.pdir[q][e] # 0 => n.pdir[q][e] \in Normal \cap n.at
    BY <1>1, <1>3, <1>4 DEF Apart
  <2>2. \A q \in Ids, wa \in VAddrs : Pte(n, q, wa) # 0 => Pte(n, q, wa) \in Normal \cap n.at
    BY <1>1, <1>2, <1>4 DEF Apart
  <2>3. \A a, b \in Ids, e, f \in Pdes :
          n.pdir[a][e] # 0 /\ n.pdir[a][e] = n.pdir[b][f] => a = b /\ e = f
    BY <1>3, <1>4 DEF Apart
  <2>4. \A a, b \in Ids, va, wa \in VAddrs :
          Pte(n, a, va) # 0 /\ Pte(n, a, va) = Pte(n, b, wa) => a = b /\ va = wa
    BY <1>2, <1>4 DEF Apart
  <2>5. \A a, b \in Ids, e \in Pdes, wa \in VAddrs :
          n.pdir[a][e] # 0 => n.pdir[a][e] # Pte(n, b, wa)
    BY <1>2, <1>3, <1>4 DEF Apart
  <2> QED
    BY Zenon, <2>1, <2>2, <2>3, <2>4, <2>5 DEF Apart
<1>6. ASSUME NEW i, Fresh(m, i), i # j PROVE Fresh(n, i)
  BY <1>1, <1>2, <1>3, <1>6 DEF Fresh
<1> QED
  BY Zenon, <1>5, <1>6 DEF MInv, TableAdded

LEMMA MappedApart ==
  ASSUME NEW m, MInv(m), NEW n, NEW p \in Ids, NEW va \in VAddrs, NEW i,
         Fresh(m, i), PageMapped(m, n, p, va, i)
  PROVE  MInv(n)
<1>1. i # 0 /\ i \in Normal \cap n.at /\ n.at = m.at /\ n.pdir = m.pdir
  BY NormalType DEF Fresh, PageMapped
<1>2. \A q \in Ids, wa \in VAddrs :
        /\ Pte(n, q, wa) = IF q = p /\ wa = va THEN i ELSE Pte(m, q, wa)
        /\ Pte(m, q, wa) # i
  BY DEF Fresh, PageMapped
<1>3. \A q \in Ids, e \in Pdes : n.pdir[q][e] = m.pdir[q][e] /\ n.pdir[q][e] # i
  BY <1>1 DEF Fresh
<1>4. Apart(m)
  BY DEF MInv
<1>5. \A q \in Ids, wa \in VAddrs : Pte(n, q, wa) # 0 => Pte(n, q, wa) \in Normal \cap n.at
  BY <1>1, <1>2, <1>4 DEF Apart
<1>6. \A a, b \in Ids, xa, wa \in VAddrs :
        Pte(n, a, xa) # 0 /\ Pte(n, a, xa) = Pte(n, b, wa) => a = b /\ xa = wa
  BY <1>2, <1>4 DEF Apart
<1>7. \A a, b \in Ids, e \in Pdes, wa \in VAddrs :
        n.pdir[a][e] # 0 => n.pdir[a][e] # Pte(n, b, wa)
  BY <1>2, <1>3, <1>4 DEF Apart
<1>8. Apart(n)
  BY <1>1, <1>4, <1>5, <1>6, <1>7 DEF Apart
<1> QED
  BY Zenon, <1>8 DEF MInv, PageMapped

-----------------------------------------------------------------------------
(* The operations on a memory.                                              *)

LEMMA PallocFresh ==
  ASSUME NEW m \in MemType
  PROVE  Palloc(m) = 0 \/ Palloc(m) \in Normal \ m.at
<1> DEFINE F == {i \in Free(m) : i > m.last}
<1>1. F \subseteq Nat /\ F \subseteq Normal \ m.at
  <2>1. Normal \subseteq Nat
    BY NormalType, NpsType DEF Pages
  <2> QED
    BY Zenon, <2>1 DEF Free
<1>2. F # {} => Min(F) \in F
  BY Zenon, <1>1, MinIn
<1> QED
  BY Zenon, <1>1, <1>2 DEF Palloc

LEMMA WordAddType ==
  ASSUME NEW a \in Word, NEW b \in Word PROVE WordAdd(a, b) \in Word
  BY ContainerAssumption DEF Word, WordAdd

LEMMA AllocPhysTaken ==
  ASSUME NEW m \in MemType, NEW p \in Ids
  PROVE  Taken(m, AllocPhys(m, p).mem, AllocPhys(m, p).page)
<1> DEFINE i == Palloc(m)
           c == ContainerAlloc(m.cont, p)
           n == [m EXCEPT !.cont = c, !.at = @ \cup ({i} \ {0}), !.last = i % NPS]
<1>1. CASE AtQuota(m.cont, p)
  <2>1. AllocPhys(m, p) = [mem |-> m, page |-> 0]
    BY Zenon, <1>1 DEF AllocPhys
  <2> QED
    BY <2>1, NormalType DEF Taken
<1>2. CASE ~AtQuota(m.cont, p)
  <2>1. AllocPhys(m, p) = [mem |-> n, page |-> i]
    BY Zenon, <1>2 DEF AllocPhys
  <2>2. i = 0 \/ i \in Normal \ m.at
    BY Zenon, PallocFresh
  <2>3. i \in Pages
    BY Zenon, <2>2, NormalType
  <2>4. i % NPS \in Nat
    BY <2>3, NpsType DEF Pages
  <2>5. c \in ContainerType
    <3>1. m.cont \in ContainerType /\ m.cont.usage[p] \in Word
      BY DEF MemType, ContainerType
    <3>2. CASE 1 \in Word
      <4>1. WordAdd(m.cont.usage[p], 1) \in Word
        BY Zenon, <3>1, <3>2, WordAddType
      <4> QED
        BY SMTT(30), <1>2, <3>1, <4>1 DEF ContainerAlloc, ContainerType
    <3>3. CASE 1 \notin Word
      <4>1. WORD = 1 /\ m.cont.usage[p] = 0 /\ m.cont.quota[p] = 0
        BY <3>1, <3>3, ContainerAssumption DEF Word, ContainerType
      <4> QED
        BY <1>2, <4>1 DEF AtQuota
    <3> QED
      BY <3>2, <3>3
  <2> HIDE DEF i, c
  <2>6. /\ n \in MemType /\ n.pdir = m.pdir /\ n.ptbl = m.ptbl
        /\ n.at = m.at \cup ({i} \ {0})
    BY Zenon, <2>3, <2>4, <2>5 DEF MemType
  <2> HIDE DEF n
  <2> QED
    BY <2>1, <2>2, <2>3, <2>6 DEF Taken
<1> QED
  BY Zenon, <1>1, <1>2

(* A page table for the addresses of directory entry va[1].                 *)
LEMMA AllocPtblAdds ==
  ASSUME NEW m, MInv(m), NEW p \in Ids, NEW va \in VAddrs, m.pdir[p][va[1]] = 0,
         NEW i, Fresh(m, i), NEW r, r = AllocPtbl(m, p, va)
  PROVE  /\ MInv(r.mem)
         /\ r.page # 0 => r.mem.pdir[p][va[1]] # 0 /\ Fresh(r.mem, i)
<1> DEFINE a == AllocPhys(m, p)
           j == a.page
<1>1. m \in MemType /\ Apart(m)
  BY Zenon DEF MInv
<1>2. Taken(m, a.mem, j)
  BY Zenon, <1>1, AllocPhysTaken
<1> HIDE DEF a
<1>3. MInv(a.mem) /\ (j # 0 => Fresh(a.mem, j))
  BY <1>2, TakenFresh, SMTT(20)
<1>4. CASE j = 0
  BY Zenon, <1>3, <1>4 DEF AllocPtbl, a
<1>5. CASE j # 0
  <2> DEFINE b == a.mem
             n == [b EXCEPT !.pdir[p][va[1]] = j, !.ptbl[j] = [t \in Ptes |-> 0]]
  <2>1. a = [mem |-> b, page |-> j]
    BY DEF a, AllocPhys
  <2>2. r.mem = n /\ r.page = j
    BY Zenon, <1>5, <2>1 DEF AllocPtbl, a
  <2>3. b \in MemType /\ Apart(b) /\ j \in Pages \ {0} /\ 0 \in Pages
    BY <1>2, <1>3, <1>5, NormalType DEF MInv, Taken
  <2>4. va[1] \in Pdes /\ va[2] \in Ptes
    BY DEF VAddrs
  <2>5. /\ n \in MemType /\ n.at = b.at
        /\ n.pdir = [b.pdir EXCEPT ![p][va[1]] = j]
        /\ n.ptbl = [b.ptbl EXCEPT ![j] = [t \in Ptes |-> 0]]
    BY Zenon, <2>3, <2>4 DEF MemType
  <2>6. b.pdir \in [Ids -> [Pdes -> Pages]] /\ b.ptbl \in [Pages -> [Ptes -> Pages]]
    BY <2>3 DEF MemType
  <2>7. b.pdir = m.pdir /\ b.ptbl = m.ptbl /\ m.at \subseteq b.at
    BY <1>2 DEF Taken
  <2> HIDE DEF n, b, j
  <2>8. \A q \in Ids, e \in Pdes :
          n.pdir[q][e] = IF q = p /\ e = va[1] THEN j ELSE b.pdir[q][e]
    BY <2>4, <2>5, <2>6
  <2>9. \A q \in Ids, e \in Pdes : b.pdir[q][e] # j /\ b.pdir[q][e] \in Pages
    BY <1>3, <1>5, <2>6 DEF Fresh, b
  <2>10. ASSUME NEW q \in Ids, NEW wa \in VAddrs PROVE Pte(n, q, wa) = Pte(b, q, wa)
    <3>1. wa[1] \in Pdes /\ wa[2] \in Ptes
      BY DEF VAddrs
    <3>2. CASE q = p /\ wa[1] = va[1]
      <4>1. b.pdir[q][wa[1]] = 0 /\ n.pdir[q][wa[1]] = j
        BY Zenon, <2>4, <2>7, <2>8, <3>2
      <4>2. n.ptbl[j][wa[2]] = 0
        <5>1. n.ptbl[j] = [t \in Ptes |-> 0]
          BY <2>3, <2>5, <2>6
        <5> QED
          BY Zenon, <3>1, <5>1
      <4> QED
        BY Zenon, <1>5, <4>1, <4>2 DEF Pte, j
    <3>3. CASE ~(q = p /\ wa[1] = va[1])
      <4>1. n.pdir[q][wa[1]] = b.pdir[q][wa[1]] /\ b.pdir[q][wa[1]] # j
        BY <2>8, <2>9, <3>1, <3>3
      <4>2. \A k \in Pages : k # j => n.ptbl[k] = b.ptbl[k]
        BY <2>5, <2>6
      <4> QED
        BY SMTT(30), <2>9, <3>1, <4>1, <4>2 DEF Pte
    <3> QED
      BY <3>2, <3>3
  <2>11. TableAdded(b, n, p, va[1], j)
    BY <2>5, <2>8, <2>10 DEF TableAdded
  <2>12. Fresh(b, j) /\ MInv(b)
    BY Zenon, <1>3, <1>5 DEF b, j
  <2>13. MInv(n) /\ \A k : Fresh(b, k) /\ k # j => Fresh(n, k)
    BY Zenon, <2>4, <2>11, <2>12, TableApart
  <2>14. Fresh(b, i) /\ i # j
    <3>1. \A q, wa : Pte(b, q, wa) = Pte(m, q, wa)
      BY <2>7 DEF Pte
    <3>2. i # j
      BY <1>2, <1>5 DEF Fresh, Taken, j
    <3> QED
      BY <2>7, <3>1, <3>2 DEF Fresh
  <2>15. n.pdir[p][va[1]] # 0
    BY <2>3, <2>4, <2>8
  <2> QED
    BY Zenon, <2>2, <2>13, <2>14, <2>15
<1> QED
  BY Zenon, <1>4, <1>5

(* Writing an entry of a page table maps one address of one process: no     *)
(* other process, and no other part of its address space, has that table.   *)
LEMMA SetPteMaps ==
  ASSUME NEW m, MInv(m), NEW p \in Ids, NEW va \in VAddrs, m.pdir[p][va[1]] # 0,
         NEW i, Fresh(m, i)
  PROVE  MInv(SetPte(m, p, va, i))
<1> DEFINE k == m.pdir[p][va[1]]
           n == SetPte(m, p, va, i)
<1>1. va[1] \in Pdes /\ va[2] \in Ptes /\ va = <<va[1], va[2]>>
  BY DEF VAddrs
<1>2. m.pdir \in [Ids -> [Pdes -> Pages]] /\ m.ptbl \in [Pages -> [Ptes -> Pages]]
  BY DEF MInv, MemType
<1>3. k \in Pages \ {0} /\ i \in Pages
  <2>1. k \in Pages
    BY <1>1, <1>2
  <2>2. i \in Pages
    BY Zenon, NormalType DEF Fresh
  <2> QED
    BY Zenon, <2>1, <2>2
<1>4. /\ n \in MemType /\ n.pdir = m.pdir /\ n.at = m.at
      /\ n.ptbl = [m.ptbl EXCEPT ![k][va[2]] = i]
  <2> DEFINE T == [m.ptbl EXCEPT ![k][va[2]] = i]
  <2>1. n = [m EXCEPT !.ptbl = T]
    BY Zenon DEF SetPte
  <2>2. T \in [Pages -> [Ptes -> Pages]]
    BY <1>1, <1>2, <1>3
  <2> HIDE DEF T, n
  <2>3. m \in MemType
    BY Zenon DEF MInv
  <2> QED
    BY Zenon, <2>1, <2>2, <2>3 DEF MemType, T
<1> HIDE DEF n
<1>5. ASSUME NEW q \in Ids, NEW wa \in VAddrs
      PROVE  Pte(n, q, wa) = IF q = p /\ wa = va THEN i ELSE Pte(m, q, wa)
  <2>1. wa[1] \in Pdes /\ wa[2] \in Ptes /\ wa = <<wa[1], wa[2]>>
    BY DEF VAddrs
  <2>2. m.pdir[q][wa[1]] = k => q = p /\ wa[1] = va[1]
    <3>1. \A a, b \in Ids, d, e \in Pdes :
            m.pdir[a][d] # 0 /\ m.pdir[a][d] = m.pdir[b][e] => a = b /\ d = e
      BY Zenon DEF MInv, Apart
    <3> QED
      BY <1>1, <2>1, <3>1
  <2>3. m.pdir[q][wa[1]] \in Pages
    BY <1>2, <2>1
  <2> HIDE DEF k
  <2>4. \A j \in Pages : j # k => n.ptbl[j] = m.ptbl[j]
    BY <1>2, <1>4
  <2>5. \A t \in Ptes : n.ptbl[k][t] = IF t = va[2] THEN i ELSE m.ptbl[k][t]
    <3>1. n.ptbl[k] = [m.ptbl[k] EXCEPT ![va[2]] = i] /\ m.ptbl[k] \in [Ptes -> Pages]
      BY <1>2, <1>3, <1>4
    <3> QED
      BY <1>1, <3>1
  <2>6. CASE m.pdir[q][wa[1]] = k
    <3>1. q = p /\ wa[1] = va[1]
      BY Zenon, <2>2, <2>6
    <3>2. wa = va <=> wa[2] = va[2]
      BY Zenon, <1>1, <2>1, <3>1
    <3> QED
      BY Zenon, <1>4, <2>1, <2>5, <3>1, <3>2 DEF Pte, k
  <2>7. CASE m.pdir[q][wa[1]] # k
    <3>1. ~(q = p /\ wa = va)
      BY Zenon, <2>7 DEF k
    <3> QED
      BY Zenon, <1>4, <2>3, <2>4, <2>7, <3>1 DEF Pte
  <2> QED
    BY Zenon, <2>6, <2>7
<1>6. PageMapped(m, n, p, va, i)
  BY Zenon, <1>4, <1>5 DEF PageMapped
<1>7. MInv(n)
  BY Zenon, <1>6, MappedApart
<1> QED
  BY Zenon, <1>7 DEF n

LEMMA MapPageKept ==
  ASSUME NEW m, MInv(m), NEW p \in Ids, NEW va \in VAddrs, NEW i, Fresh(m, i)
  PROVE  MInv(MapPage(m, p, va, i).mem)
<1>1. CASE m.pdir[p][va[1]] # 0
  <2>1. MInv(SetPte(m, p, va, i))
    BY Zenon, <1>1, SetPteMaps
  <2>2. MapPage(m, p, va, i).mem = SetPte(m, p, va, i)
    BY <1>1 DEF MapPage
  <2> QED
    BY Zenon, <2>1, <2>2
<1>2. CASE m.pdir[p][va[1]] = 0
  <2> DEFINE r == AllocPtbl(m, p, va)
  <2>1. /\ MInv(r.mem)
        /\ r.page # 0 => r.mem.pdir[p][va[1]] # 0 /\ Fresh(r.mem, i)
    BY Zenon, <1>2, AllocPtblAdds
  <2> HIDE DEF r
  <2>2. CASE r.page = 0
    <3>1. MapPage(m, p, va, i).mem = r.mem
      BY <1>2, <2>2 DEF MapPage, r
    <3> QED
      BY Zenon, <2>1, <3>1
  <2>3. CASE r.page # 0
    <3>1. MapPage(m, p, va, i).mem = SetPte(r.mem, p, va, i)
      BY <1>2, <2>3 DEF MapPage, r
    <3>2. MInv(SetPte(r.mem, p, va, i))
      BY Zenon, <2>1, <2>3, SetPteMaps
    <3> QED
      BY Zenon, <3>1, <3>2
  <2> QED
    BY Zenon, <2>2, <2>3
<1> QED
  BY Zenon, <1>1, <1>2

LEMMA AllocPageKept ==
  ASSUME NEW m, MInv(m), NEW p \in Ids, NEW va \in VAddrs
  PROVE  MInv(AllocPage(m, p, va).mem)
<1> DEFINE r == AllocPhys(m, p)
<1>1. Taken(m, r.mem, r.page)
  BY Zenon, AllocPhysTaken DEF MInv
<1> HIDE DEF r
<1>2. MInv(r.mem) /\ (r.page # 0 => Fresh(r.mem, r.page))
  BY <1>1, TakenFresh, SMTT(20)
<1>3. CASE r.page = 0
  <2>1. AllocPage(m, p, va).mem = r.mem
    BY <1>3 DEF AllocPage, r
  <2> QED
    BY Zenon, <1>2, <2>1
<1>4. CASE r.page # 0
  <2>1. AllocPage(m, p, va).mem = MapPage(r.mem, p, va, r.page).mem
    BY Zenon, <1>4 DEF AllocPage, r
  <2>2. MInv(MapPage(r.mem, p, va, r.page).mem)
    BY Zenon, <1>2, <1>4, MapPageKept
  <2> QED
    BY Zenon, <2>1, <2>2
<1> QED
  BY Zenon, <1>3, <1>4

LEMMA CopyPageKept ==
  ASSUME NEW m, MInv(m), NEW p \in Ids, NEW va \in VAddrs
  PROVE  MInv(CopyPage(m, p, va))
  BY Zenon, AllocPageKept DEF CopyPage

-----------------------------------------------------------------------------
(* elf_load, page after page.                                               *)

LEMMA NatSetInduction ==
  ASSUME NEW S, 0 \in S, \A n \in Nat : n \in S => n + 1 \in S
  PROVE  Nat \subseteq S
<1> DEFINE B == Nat \ S
<1>1. SUFFICES ASSUME B # {} PROVE FALSE
  BY Zenon
<1>2. Min(B) \in B /\ \A y \in B : Min(B) <= y
  BY Zenon, <1>1, MinIn
<1>3. Min(B) \in Nat /\ Min(B) # 0
  BY Zenon, <1>2
<1>4. PICK x \in Nat : x = Min(B)
  BY Zenon, <1>3
<1>5. x - 1 \in Nat /\ ~(x <= x - 1) /\ x = (x - 1) + 1
  BY <1>3, <1>4
<1>6. x - 1 \in S
  BY Zenon, <1>2, <1>4, <1>5
<1> QED
  BY Zenon, <1>2, <1>4, <1>5, <1>6

(* One turn of elf_load's loop.                                             *)
LoadPage(m, p, k) == CopyPage(AllocPage(m, p, Image[k]).mem, p, Image[k])

(* f[k] is the memory after k turns, for the first n of them.               *)
Loads(f, m, p, n) ==
  f = [k \in 0 .. n |-> IF k = 0 THEN m ELSE LoadPage(f[k - 1], p, k)]

LEMMA LoadsExist ==
  ASSUME NEW m, NEW p, NEW n \in Nat
  PROVE  \E f : Loads(f, m, p, n)
<1> DEFINE S == {k \in Nat : \E f : Loads(f, m, p, k)}
<1>1. 0 \in S
  <2>1. Loads([k \in 0 .. 0 |-> m], m, p, 0)
    BY DEF Loads
  <2> QED
    BY Zenon, <2>1
<1>2. ASSUME NEW k \in Nat, k \in S PROVE k + 1 \in S
  <2>1. PICK g : Loads(g, m, p, k)
    BY Zenon, <1>2
  <2> DEFINE f == [j \in 0 .. k + 1 |-> IF j = k + 1 THEN LoadPage(g[k], p, k + 1) ELSE g[j]]
             h == [j \in 0 .. k + 1 |-> IF j = 0 THEN m ELSE LoadPage(f[j - 1], p, j)]
  <2>2. ASSUME NEW j \in 0 .. k + 1 PROVE f[j] = h[j]
    <3>1. CASE j = k + 1
      <4>1. f[j] = LoadPage(g[k], p, k + 1) /\ f[j - 1] = g[k] /\ j # 0
        BY <3>1
      <4>2. h[j] = LoadPage(f[j - 1], p, j)
        BY Zenon, <4>1
      <4> QED
        BY Zenon, <3>1, <4>1, <4>2
    <3>2. CASE j # k + 1 /\ j = 0
      <4>1. g[0] = m
        BY <2>1 DEF Loads
      <4> QED
        BY <3>2, <4>1
    <3>3. CASE j # k + 1 /\ j # 0
      <4>1. j \in 0 .. k /\ j - 1 \in 0 .. k + 1 /\ j - 1 # k + 1
        BY <3>3
      <4>2. g[j] = LoadPage(g[j - 1], p, j)
        BY Zenon, <2>1, <3>3, <4>1 DEF Loads
      <4>3. f[j] = g[j] /\ f[j - 1] = g[j - 1]
        BY Zenon, <3>3, <4>1
      <4>4. h[j] = LoadPage(f[j - 1], p, j)
        BY Zenon, <3>3
      <4> QED
        BY Zenon, <4>2, <4>3, <4>4
    <3> QED
      BY Zenon, <3>1, <3>2, <3>3
  <2>3. f = h
    BY Zenon, <2>2
  <2>4. Loads(f, m, p, k + 1)
    BY Zenon, <2>3 DEF Loads
  <2>5. k + 1 \in Nat
    OBVIOUS
  <2> QED
    BY Zenon, <2>4, <2>5
<1> HIDE DEF S
<1>3. Nat \subseteq S
  BY Zenon, <1>1, <1>2, NatSetInduction
<1> QED
  BY Zenon, <1>3 DEF S

LEMMA ElfLoadKept ==
  ASSUME NEW m, MInv(m), NEW p \in Ids
  PROVE  MInv(ElfLoad(m, p))
<1> DEFINE L == Len(Image)
           load == CHOOSE f : Loads(f, m, p, L)
           S == {k \in Nat : k \in 0 .. L => MInv(load[k])}
<1>1. L \in Nat /\ \A k \in 1 .. L : Image[k] \in VAddrs
  BY MemAssumption DEF VAddrs
<1>2. Loads(load, m, p, L)
  BY Zenon, <1>1, LoadsExist
<1>3. ElfLoad(m, p) = load[L]
  BY Zenon DEF ElfLoad, Loads, LoadPage
<1> HIDE DEF load, L
<1>4. 0 \in S
  <2>1. load[0] = m
    BY <1>1, <1>2 DEF Loads
  <2> QED
    BY Zenon, <2>1
<1>5. ASSUME NEW k \in Nat, k \in S PROVE k + 1 \in S
  <2>1. k + 1 \in Nat
    OBVIOUS
  <2>2. CASE k + 1 \in 0 .. L
    <3>1. k \in 0 .. L /\ k + 1 # 0 /\ (k + 1) - 1 = k /\ k + 1 \in 1 .. L
      BY <1>1, <2>2
    <3>2. load[k + 1] = LoadPage(load[k], p, k + 1)
      BY Zenon, <1>2, <2>2, <3>1 DEF Loads
    <3>3. MInv(load[k]) /\ Image[k + 1] \in VAddrs
      BY Zenon, <1>1, <1>5, <3>1
    <3>4. MInv(LoadPage(load[k], p, k + 1))
      BY Zenon, <3>3, AllocPageKept, CopyPageKept DEF LoadPage
    <3> QED
      BY Zenon, <2>1, <3>2, <3>4
  <2> QED
    BY Zenon, <2>1, <2>2
<1>6. L \in S /\ L \in 0 .. L
  <2> HIDE DEF S
  <2>1. Nat \subseteq S
    BY Zenon, <1>4, <1>5, NatSetInduction
  <2> QED
    BY <1>1, <2>1
<1> QED
  BY Zenon, <1>3, <1>6

-----------------------------------------------------------------------------
(* The steps.                                                               *)

(* Only the containers change: what is mapped stays.                        *)
LEMMA ContKept ==
  ASSUME NEW m, MInv(m), NEW c \in ContainerType
  PROVE  MInv([m EXCEPT !.cont = c])
<1> DEFINE n == [m EXCEPT !.cont = c]
<1>1. n \in MemType /\ n.pdir = m.pdir /\ n.ptbl = m.ptbl /\ n.at = m.at
  BY Zenon DEF MInv, MemType
<1> HIDE DEF n
<1>2. Taken(m, n, 0)
  BY <1>1, NormalType DEF Taken
<1>3. MInv(n)
  BY <1>2, TakenFresh, SMTT(20)
<1> QED
  BY Zenon, <1>3 DEF n

(* A container that may have another child has an identifier for it.        *)
LEMMA ProcCreateKept ==
  ASSUME NEW m, MInv(m), NEW id \in Ids, NEW n \in Word,
         NextChild(m.cont, id) \in Ids, m.cont.nchildren[id] < MAX_CHILDREN
  PROVE  MInv(ProcCreate(m, id, n))
<1> DEFINE c == m.cont
           child == NextChild(c, id)
<1>1. c \in ContainerType /\ child \in Ids
  BY DEF MInv, MemType
<1>2. WordAdd(c.usage[id], n) \in Word /\ 0 \in Word
  <2>1. c.usage[id] \in Word
    BY <1>1 DEF ContainerType
  <2>2. WordAdd(c.usage[id], n) \in Word
    BY Zenon, <2>1, WordAddType
  <2> QED
    BY <2>2, ContainerAssumption DEF Word
<1>3. c.nchildren[id] + 1 \in 0 .. MAX_CHILDREN /\ 0 \in 0 .. MAX_CHILDREN
  <2>1. c.nchildren[id] \in 0 .. MAX_CHILDREN
    BY <1>1 DEF ContainerType
  <2> QED
    BY <2>1, ContainerAssumption
<1> HIDE DEF c, child
<1>4. ContainerSplit(c, id, n) \in ContainerType
  BY <1>1, <1>2, <1>3 DEF ContainerSplit, ContainerType, child
<1>5. MInv([m EXCEPT !.cont = ContainerSplit(c, id, n)])
  BY Zenon, <1>4, ContKept
<1> QED
  BY Zenon, <1>1, <1>5, ElfLoadKept DEF ProcCreate, c, child

Inv == MInv(mem) /\ dead \subseteq Ids /\ panicked \in BOOLEAN

LEMMA InitInv == Init => Inv
<1> SUFFICES ASSUME Init PROVE Inv
  OBVIOUS
<1> DEFINE m == PagingInit
<1>1. 0 \in Pages /\ Cardinality(Normal) \in Word /\ 0 \in Word /\ USERLO_PI \in Nat
  BY NormalType, MemAssumption, ContainerAssumption DEF Word
<1>2. 0 \in Ids /\ 1 \in Ids
  BY NumIdsAssumption DEF Ids
<1>3. m.cont \in ContainerType
  BY <1>1, <1>2, ContainerAssumption DEF PagingInit, ContainerInit, ContainerType
<1>4. m \in MemType
  BY <1>1, <1>3 DEF PagingInit, MemType
<1>5. \A p \in Ids, d \in Pdes : m.pdir[p][d] = 0
  BY DEF PagingInit
<1>6. \A p \in Ids, va \in VAddrs : Pte(m, p, va) = 0
  BY <1>5 DEF Pte, VAddrs
<1>7. MInv(m)
  BY <1>4, <1>5, <1>6 DEF MInv, Apart
<1>8. m.cont.nchildren[0] = 0
  BY <1>2 DEF PagingInit, ContainerInit
<1>9. NextChild(m.cont, 0) \in Ids /\ m.cont.nchildren[0] < MAX_CHILDREN
  BY <1>2, <1>8, ContainerAssumption DEF NextChild
<1>10. ShellQuota \in Word
  BY MemAssumption
<1> HIDE DEF m
<1>11. MInv(ProcCreate(m, 0, ShellQuota))
  BY Zenon, <1>2, <1>7, <1>9, <1>10, ProcCreateKept
<1> QED
  BY Zenon, <1>11 DEF Init, Inv, m

LEMMA NextInv == Inv /\ [Next]_vars => Inv'
<1> SUFFICES ASSUME Inv, [Next]_vars PROVE Inv'
  OBVIOUS
<1>1. CASE UNCHANGED vars
  BY <1>1 DEF Inv, vars
<1>2. ASSUME NEW p \in Ids, NEW va \in VAddrs, PageFault(p, va) PROVE Inv'
  <2>1. MInv(AllocPage(mem, p, va).mem)
    BY Zenon, AllocPageKept DEF Inv
  <2>2. /\ mem' = AllocPage(mem, p, va).mem /\ panicked' = ~AllocPage(mem, p, va).ok
        /\ dead' = dead
    BY Zenon, <1>2 DEF PageFault
  <2> QED
    BY Zenon, <2>1, <2>2 DEF Inv
<1>3. ASSUME NEW p \in Ids, NEW va \in VAddrs, Copy(p, va) PROVE Inv'
  BY Zenon, <1>3, CopyPageKept DEF Inv, Copy
<1>4. ASSUME NEW p \in Ids, NEW n \in Quotas, SysSpawn(p, n) PROVE Inv'
  <2>1. /\ n \in Word /\ p \in Nat /\ NUM_IDS \in Nat /\ MAX_CHILDREN \in Nat
        /\ mem.cont.nchildren[p] \in 0 .. MAX_CHILDREN
    BY MemAssumption, NumIdsAssumption, ContainerAssumption
       DEF Ids, Inv, MInv, MemType, ContainerType
  <2>2. NUM_IDS >= p * MAX_CHILDREN + 1 + MAX_CHILDREN /\ mem.cont.nchildren[p] # MAX_CHILDREN
    BY Zenon, <1>4 DEF SysSpawn
  <2>3. p * MAX_CHILDREN \in Nat
    BY <2>1
  <2>4. NextChild(mem.cont, p) \in Ids /\ mem.cont.nchildren[p] < MAX_CHILDREN
    BY <2>1, <2>2, <2>3 DEF NextChild, Ids
  <2>5. MInv(ProcCreate(mem, p, n))
    BY Zenon, <2>1, <2>4, ProcCreateKept DEF Inv
  <2> QED
    BY Zenon, <1>4, <2>5 DEF Inv, SysSpawn
<1>5. ASSUME NEW p \in Ids, SysExit(p) PROVE Inv'
  <2> DEFINE c == mem.cont
             d == Refund(c, c.parent[p], c.quota[p])
  <2>1. /\ c \in ContainerType /\ c.parent[p] \in Ids /\ c.quota[p] \in Word
        /\ c.usage[c.parent[p]] \in Word
    BY DEF Inv, MInv, MemType, ContainerType
  <2>2. \A a, b \in Word : (IF a >= b THEN a - b ELSE 0) \in Word
    BY ContainerAssumption DEF Word
  <2> HIDE DEF c
  <2>3. d \in ContainerType
    BY SMTT(30), <2>1, <2>2 DEF Refund, ContainerType
  <2> HIDE DEF d
  <2>4. MInv([mem EXCEPT !.cont = d])
    BY Zenon, <2>3, ContKept DEF Inv
  <2>5. /\ mem' = [mem EXCEPT !.cont = d] /\ dead' = dead \cup {p} /\ panicked' = panicked
    BY Zenon, <1>5 DEF SysExit, c, d
  <2> QED
    BY Zenon, <2>4, <2>5 DEF Inv
<1> QED
  BY Zenon, <1>1, <1>2, <1>3, <1>4, <1>5 DEF Next

(* No page is in two places, by the count of its places.                    *)
LEMMA InvIsolated == Inv => Isolated
<1> SUFFICES ASSUME Inv PROVE Isolated
  OBVIOUS
<1>1. mem \in MemType /\ Apart(mem)
  BY Zenon DEF Inv, MInv
<1>2. ASSUME NEW i \in Pages \ {0}
      PROVE  Uses(i) > 0 => Uses(i) = 1 /\ i \in Normal /\ i \in mem.at
  <2>1. \A x \in Tables(i) : /\ i \in Normal \cap mem.at
                             /\ Tables(i) = {x} /\ Mapped(i) = {}
    <3> SUFFICES ASSUME NEW x \in Tables(i)
                 PROVE  /\ i \in Normal \cap mem.at
                        /\ Tables(i) = {x} /\ Mapped(i) = {}
      BY Zenon
    <3>1. x \in Ids \X Pdes /\ mem.pdir[x[1]][x[2]] = i
      BY Zenon DEF Tables
    <3>2. x[1] \in Ids /\ x[2] \in Pdes /\ x = <<x[1], x[2]>>
      BY <3>1
    <3>3. i \in Normal \cap mem.at
      BY <1>1, <3>1, <3>2 DEF Apart
    <3>4. ASSUME NEW y \in Tables(i) PROVE y = x
      <4>1. y[1] \in Ids /\ y[2] \in Pdes /\ y = <<y[1], y[2]>> /\ mem.pdir[y[1]][y[2]] = i
        BY DEF Tables
      <4> QED
        BY <1>1, <3>1, <3>2, <4>1 DEF Apart
    <3>5. ASSUME NEW y \in Mapped(i) PROVE FALSE
      <4>1. y[1] \in Ids /\ y[2] \in VAddrs /\ Pte(mem, y[1], y[2]) = i
        BY DEF Mapped
      <4> QED
        BY <1>1, <3>1, <3>2, <4>1 DEF Apart
    <3> QED
      BY Zenon, <3>3, <3>4, <3>5
  <2>2. \A x \in Mapped(i) : /\ i \in Normal \cap mem.at
                             /\ Mapped(i) = {x} /\ Tables(i) = {}
    <3> SUFFICES ASSUME NEW x \in Mapped(i)
                 PROVE  i \in Normal \cap mem.at /\ Mapped(i) = {x} /\ Tables(i) = {}
      BY Zenon
    <3>1. /\ x[1] \in Ids /\ x[2] \in VAddrs /\ x = <<x[1], x[2]>>
          /\ Pte(mem, x[1], x[2]) = i
      BY DEF Mapped
    <3>2. i \in Normal \cap mem.at
      BY <1>1, <3>1 DEF Apart
    <3>3. ASSUME NEW y \in Mapped(i) PROVE y = x
      <4>1. /\ y[1] \in Ids /\ y[2] \in VAddrs /\ y = <<y[1], y[2]>>
            /\ Pte(mem, y[1], y[2]) = i
        BY DEF Mapped
      <4> QED
        BY <1>1, <3>1, <4>1 DEF Apart
    <3> QED
      BY Zenon, <2>1, <3>2, <3>3
  <2>3. Cardinality({}) = 0 /\ \A x : Cardinality({x}) = 1
    BY Zenon, FS_EmptySet, FS_Singleton
  <2>4. CASE Tables(i) = {} /\ Mapped(i) = {}
    <3>1. Uses(i) = 0
      BY <2>3, <2>4 DEF Uses
    <3> QED
      BY <3>1
  <2>5. ASSUME NEW x \in Tables(i) PROVE Uses(i) = 1 /\ i \in Normal /\ i \in mem.at
    <3>1. Cardinality(Tables(i)) = 1 /\ Cardinality(Mapped(i)) = 0
      BY Zenon, <2>1, <2>3, <2>5
    <3>2. Uses(i) = 1
      BY <3>1 DEF Uses
    <3> QED
      BY Zenon, <2>1, <2>5, <3>2
  <2>6. ASSUME NEW x \in Mapped(i) PROVE Uses(i) = 1 /\ i \in Normal /\ i \in mem.at
    <3>1. Cardinality(Mapped(i)) = 1 /\ Cardinality(Tables(i)) = 0
      BY Zenon, <2>2, <2>3, <2>6
    <3>2. Uses(i) = 1
      BY <3>1 DEF Uses
    <3> QED
      BY Zenon, <2>2, <2>6, <3>2
  <2> QED
    BY Zenon, <2>4, <2>5, <2>6
<1> QED
  BY Zenon, <1>1, <1>2 DEF Isolated, TypeOK, Inv

(* Whatever page faults, copies, spawns and exits come in whatever order,   *)
(* no page that alloc_page or alloc_ptbl of kern/vmm hands out is used by   *)
(* two address spaces, nor twice in one, nor as page table and as memory.   *)
THEOREM IsolationSafe == Spec => []Isolated
<1>1. Init => Inv
  BY InitInv
<1>2. Inv /\ [Next]_vars => Inv'
  BY NextInv
<1>3. Inv => Isolated
  BY InvIsolated
<1> QED
  BY <1>1, <1>2, <1>3, PTL DEF Spec
=============================================================================
