----------------------------- MODULE InodeProofs -----------------------------
(***************************************************************************)
(* Proofs about Inode, for any finite set of processes, any tree, any      *)
(* system calls and any size of the disk and the cache: every slot of the  *)
(* inode cache counts the pointers to it, and no inode has two slots.      *)
(***************************************************************************)
EXTENDS Inode, FiniteSetTheorems, TLAPS

(* The places of a call, and the pointers that are held there.              *)
DpPcs == {"remove_begin", "unlink", "find", "refuse", "create", "lookup", "new",
          "fill", "target", "remove", "linkto", "enter"}
IpPcs == {"open", "opened", "chdir", "chdired", "exists", "existing", "new",
          "fill", "made", "target", "remove", "removed", "link_begin", "link",
          "count", "counted", "linkto", "enter", "entered", "undo", "uncount",
          "close_begin", "close"}
WalkPcs == {"walk", "look"}
FreePcs == {"free", "put busy"}
Places == DpPcs \cup IpPcs \cup WalkPcs \cup {"idle", "begin", "commit"}
CreatePcs == {"begin", "create", "lookup", "exists", "existing", "new", "fill"}
ParRets == {"create", "remove_begin", "linkto"}
Rets == ParRets \cup {"open", "chdir", "link_begin"}

Ptrs == Slots \cup {0}
Types == {"free", "dir", "file"}
SlotRec == [inum : 0 .. NINUM, ref : Nat, busy : BOOLEAN, valid : BOOLEAN,
            type : Types, nlink : Int]
Words == Seq(Names \cup {"/"})
ProcRec == [pc : Places \cup FreePcs,
            call : {"none", "open", "chdir", "unlink", "link", "creat", "mkdir", "close"},
            path : Words, to : Words, par : BOOLEAN, ret : Rets \cup {"none"},
            name : Names \cup {"none"}, cur : Ptrs, ip : Ptrs, dp : Ptrs,
            victim : Ptrs, then : Places \cup {"none"}, cwd : Slots, file : Ptrs]

(* inode_put sleeps between two places of a call.                           *)
Where(r) == IF r.pc \in FreePcs THEN r.then ELSE r.pc

FitsAt(r, at) ==
  /\ at \in Places
  /\ r.cur # 0 <=> at \in WalkPcs
  /\ r.dp # 0 <=> at \in DpPcs
  /\ at \in DpPcs => r.name \in Names
  /\ at \in IpPcs => r.ip # 0
  /\ r.ip # 0 => \/ at \in IpPcs
                 \/ at \in WalkPcs /\ r.ret = "linkto"
                 \/ at = "commit" /\ r.call = "creat"
  /\ at \in WalkPcs => /\ r.path \in Seq(Names) /\ r.ret \in Rets
                       /\ r.par <=> r.ret \in ParRets
                       /\ r.ret = "linkto" => r.ip # 0
                       /\ r.ret = "create" => r.call \in {"creat", "mkdir"}
  /\ at = "look" => r.path # <<>>
  /\ at = "begin" => IsPath(r.path)
  /\ at \in CreatePcs => r.call \in {"creat", "mkdir"}
  /\ IsPath(r.to)

Fits(r) == /\ r \in ProcRec
           /\ r.victim # 0 <=> r.pc \in FreePcs
           /\ FitsAt(r, Where(r))

(* No inode has two slots in use.                                           *)
SlotsOK(sl) ==
  /\ sl \in [Slots -> SlotRec]
  /\ \A s \in Slots : sl[s].ref > 0 => sl[s].inum # 0
  /\ \A s, u \in Slots :
       sl[s].ref > 0 /\ sl[u].ref > 0 /\ sl[s].inum = sl[u].inum => s = u

(* The pointers of the processes P to slot s, and those of all but p.       *)
Ptr(r) == <<r.cwd, r.file, r.cur, r.ip, r.dp, r.victim>>
PairsOf(P, s) == {x \in Procs \X (1 .. 6) : Ptr(P[x[1]])[x[2]] = s}
OthersOf(P, p, s) == {x \in PairsOf(P, s) : x[1] # p}

(* The pointers of one process.                                             *)
B(x, s) == IF x = s THEN 1 ELSE 0
Own(r, s) == B(r.cwd, s) + B(r.file, s) + B(r.cur, s) + B(r.ip, s) + B(r.dp, s)
             + B(r.victim, s)

RefsOK(sl, P) == \A s \in Slots : sl[s].ref = Cardinality(PairsOf(P, s))

(* The slots sl count the others' pointers and those of r, and one to s.    *)
Owns(sl, p, r) ==
  \A u \in Slots : sl[u].ref = Cardinality(OthersOf(proc, p, u)) + Own(r, u)
OwnsAnd(sl, p, r, s) ==
  \A u \in Slots :
    sl[u].ref = Cardinality(OthersOf(proc, p, u)) + Own(r, u) + B(s, u)

StateOK(sl, P) ==
  /\ SlotsOK(sl)
  /\ P \in [Procs -> ProcRec]
  /\ \A p \in Procs : Fits(P[p])
  /\ RefsOK(sl, P)

DiskOK ==
  /\ disk \in [Inums -> [type : Types, nlink : Int]]
  /\ ents \in [Inums -> [Names -> 0 .. NINUM]]

IInv == panic = "none" => StateOK(slot, proc) /\ DiskOK

-----------------------------------------------------------------------------
(* Counting pointers.                                                       *)

LEMMA AddIf ==
  ASSUME NEW A, IsFiniteSet(A), NEW x, x \notin A, NEW c
  PROVE  LET T == A \cup (IF c THEN {x} ELSE {})
         IN  /\ IsFiniteSet(T)
             /\ Cardinality(T) = Cardinality(A) + (IF c THEN 1 ELSE 0)
<1>1. CASE c
  BY Zenon, <1>1, FS_AddElement
<1>2. CASE ~c
  <2>1. A \cup {} = A /\ Cardinality(A) \in Nat
    BY Zenon, FS_CardinalityType
  <2>2. Cardinality(A) + 0 = Cardinality(A)
    BY <2>1
  <2> QED BY Zenon, <1>2, <2>1, <2>2
<1> QED BY Zenon, <1>1, <1>2

LEMMA PtrIs ==
  ASSUME NEW r
  PROVE  /\ Ptr(r)[1] = r.cwd /\ Ptr(r)[2] = r.file /\ Ptr(r)[3] = r.cur
         /\ Ptr(r)[4] = r.ip /\ Ptr(r)[5] = r.dp /\ Ptr(r)[6] = r.victim
  BY DEF Ptr

LEMMA PairsFinite ==
  ASSUME NEW P, NEW s
  PROVE  IsFiniteSet(PairsOf(P, s))
<1>1. IsFiniteSet(1 .. 6)
  <2>1. 1 \in Int /\ 6 \in Int
    OBVIOUS
  <2> QED BY Zenon, <2>1, FS_Interval
<1>2. IsFiniteSet(Procs \X (1 .. 6))
  BY Zenon, <1>1, FS_Product, InodeAssumption
<1>3. PairsOf(P, s) \in SUBSET (Procs \X (1 .. 6))
  BY Zenon DEF PairsOf
<1> QED BY Zenon, <1>2, <1>3, FS_Subset

LEMMA PairsSplit ==
  ASSUME NEW P, NEW s, NEW p \in Procs
  PROVE  /\ Cardinality(OthersOf(P, p, s)) \in Nat
         /\ Cardinality(PairsOf(P, s)) = Cardinality(OthersOf(P, p, s)) + Own(P[p], s)
<1> DEFINE r == P[p]
           M(k) == IF Ptr(r)[k] = s THEN {<<p, k>>} ELSE {}
           A0 == OthersOf(P, p, s)
           A1 == A0 \cup M(1)
           A2 == A1 \cup M(2)
           A3 == A2 \cup M(3)
           A4 == A3 \cup M(4)
           A5 == A4 \cup M(5)
           A6 == A5 \cup M(6)
           D(k) == IF Ptr(r)[k] = s THEN 1 ELSE 0
<1>0. IsFiniteSet(A0)
  <2>1. A0 \in SUBSET PairsOf(P, s)
    BY Zenon DEF OthersOf
  <2> QED BY Zenon, <2>1, PairsFinite, FS_Subset
<1>p. \A k : <<p, k>> \notin A0
  BY Zenon DEF OthersOf
<1>m. \A j, k \in 1 .. 6 : j # k => <<p, k>> \notin M(j)
  BY Zenon
<1> HIDE DEF A0
<1>1. IsFiniteSet(A1) /\ Cardinality(A1) = Cardinality(A0) + D(1)
  BY Zenon, <1>0, <1>p, AddIf
<1>2. IsFiniteSet(A2) /\ Cardinality(A2) = Cardinality(A1) + D(2)
  <2>1. <<p, 2>> \notin A1
    BY <1>p, <1>m
  <2> HIDE DEF A1
  <2> QED BY Zenon, <1>1, <2>1, AddIf
<1>3. IsFiniteSet(A3) /\ Cardinality(A3) = Cardinality(A2) + D(3)
  <2>1. <<p, 3>> \notin A2
    BY <1>p, <1>m
  <2> HIDE DEF A2
  <2> QED BY Zenon, <1>2, <2>1, AddIf
<1>4. IsFiniteSet(A4) /\ Cardinality(A4) = Cardinality(A3) + D(4)
  <2>1. <<p, 4>> \notin A3
    BY <1>p, <1>m
  <2> HIDE DEF A3
  <2> QED BY Zenon, <1>3, <2>1, AddIf
<1>5. IsFiniteSet(A5) /\ Cardinality(A5) = Cardinality(A4) + D(5)
  <2>1. <<p, 5>> \notin A4
    BY <1>p, <1>m
  <2> HIDE DEF A4
  <2> QED BY Zenon, <1>4, <2>1, AddIf
<1>6. IsFiniteSet(A6) /\ Cardinality(A6) = Cardinality(A5) + D(6)
  <2>1. <<p, 6>> \notin A5
    BY <1>p, <1>m
  <2> HIDE DEF A5
  <2> QED BY Zenon, <1>5, <2>1, AddIf
<1>7. PairsOf(P, s) = A6
  <2>1. ASSUME NEW q \in Procs, NEW k \in 1 .. 6
        PROVE  <<q, k>> \in PairsOf(P, s) <=> <<q, k>> \in A6
    <3>1. <<q, k>> \in A0 <=> q # p /\ Ptr(P[q])[k] = s
      BY DEF A0, OthersOf, PairsOf
    <3>2. <<q, k>> \in PairsOf(P, s) <=> Ptr(P[q])[k] = s
      BY DEF PairsOf
    <3> HIDE DEF r
    <3>3. \A j \in 1 .. 6 : <<q, k>> \in M(j) <=> q = p /\ k = j /\ Ptr(r)[j] = s
      BY Zenon
    <3>4. k = 1 \/ k = 2 \/ k = 3 \/ k = 4 \/ k = 5 \/ k = 6
      OBVIOUS
    <3>5. <<q, k>> \in A6 <=> <<q, k>> \in A0 \/ (q = p /\ Ptr(r)[k] = s)
      <4> HIDE DEF M
      <4> QED BY <3>3, <3>4
    <3> QED BY Zenon, <3>1, <3>2, <3>5 DEF r
  <2>2. A0 \subseteq Procs \X (1 .. 6)
    BY Zenon DEF A0, OthersOf, PairsOf
  <2>3. \A j \in 1 .. 6 : M(j) \subseteq Procs \X (1 .. 6)
    OBVIOUS
  <2>4. PairsOf(P, s) \subseteq Procs \X (1 .. 6)
    BY Zenon DEF PairsOf
  <2> HIDE DEF M
  <2>5. A6 \subseteq Procs \X (1 .. 6)
    BY <2>2, <2>3
  <2> HIDE DEF A6
  <2>6. ASSUME NEW x \in Procs \X (1 .. 6)
        PROVE  x \in PairsOf(P, s) <=> x \in A6
    <3>1. PICK q \in Procs, k \in 1 .. 6 : x = <<q, k>>
      OBVIOUS
    <3> QED BY Zenon, <2>1, <3>1
  <2> QED BY Zenon, <2>4, <2>5, <2>6
<1>8. Cardinality(A0) \in Nat
  BY Zenon, <1>0, FS_CardinalityType
<1>9. Own(r, s) = D(1) + D(2) + D(3) + D(4) + D(5) + D(6)
  <2> HIDE DEF r
  <2> QED BY Zenon, PtrIs DEF Own, B
<1> HIDE DEF A1, A2, A3, A4, A5, A6, r
<1>10. Cardinality(A6) = Cardinality(A0) + Own(r, s)
  BY <1>1, <1>2, <1>3, <1>4, <1>5, <1>6, <1>8, <1>9
<1> QED BY Zenon, <1>7, <1>8, <1>10 DEF A0, r

LEMMA OwnsNow ==
  ASSUME StateOK(slot, proc), NEW p \in Procs
  PROVE  Owns(slot, p, proc[p]) /\ Fits(proc[p]) /\ SlotsOK(slot)
<1>1. \A u \in Slots : slot[u].ref = Cardinality(PairsOf(proc, u))
  BY Zenon DEF StateOK, RefsOK
<1>2. \A u \in Slots : slot[u].ref = Cardinality(OthersOf(proc, p, u)) + Own(proc[p], u)
  BY Zenon, <1>1, PairsSplit
<1> QED BY Zenon, <1>2 DEF Owns, StateOK

LEMMA OthersNat ==
  ASSUME NEW p \in Procs
  PROVE  \A u : Cardinality(OthersOf(proc, p, u)) \in Nat
BY Zenon, PairsSplit

(* A process that moves to r, with slots that count what it then holds.     *)
LEMMA MoveOK ==
  ASSUME StateOK(slot, proc), NEW p \in Procs, NEW r, Fits(r),
         NEW sl, SlotsOK(sl), Owns(sl, p, r)
  PROVE  StateOK(sl, [proc EXCEPT ![p] = r])
<1> DEFINE P == [proc EXCEPT ![p] = r]
<1>1. proc \in [Procs -> ProcRec] /\ \A q \in Procs : Fits(proc[q])
  BY Zenon DEF StateOK
<1>2. r \in ProcRec
  BY Zenon DEF Fits
<1>3. /\ P \in [Procs -> ProcRec] /\ P[p] = r
      /\ \A q \in Procs : q # p => P[q] = proc[q]
  BY Zenon, <1>1, <1>2
<1> HIDE DEF P
<1>4. ASSUME NEW u PROVE OthersOf(P, p, u) = OthersOf(proc, p, u)
  <2>1. ASSUME NEW x \in Procs \X (1 .. 6), x[1] # p
        PROVE  Ptr(P[x[1]]) = Ptr(proc[x[1]])
    <3>1. x[1] \in Procs
      OBVIOUS
    <3> QED BY Zenon, <1>3, <2>1, <3>1
  <2> QED BY Zenon, <2>1 DEF OthersOf, PairsOf
<1>5. \A u : Cardinality(PairsOf(P, u)) = Cardinality(OthersOf(proc, p, u)) + Own(r, u)
  BY Zenon, <1>3, <1>4, PairsSplit
<1>6. RefsOK(sl, P)
  BY Zenon, <1>5 DEF RefsOK, Owns
<1>7. \A q \in Procs : Fits(P[q])
  BY Zenon, <1>1, <1>3
<1> QED BY Zenon, <1>3, <1>6, <1>7 DEF StateOK, P

LEMMA PointsInUse ==
  ASSUME NEW sl, SlotsOK(sl), NEW p \in Procs, NEW r, NEW s \in Slots,
         \/ Owns(sl, p, r) /\ s \in {r.cwd, r.file, r.cur, r.ip, r.dp, r.victim}
         \/ OwnsAnd(sl, p, r, s)
  PROVE  sl[s].ref > 0 /\ sl[s].inum \in Inums /\ sl[s] \in SlotRec
<1>1. sl[s] \in SlotRec
  BY Zenon DEF SlotsOK
<1>2. Cardinality(OthersOf(proc, p, s)) \in Nat
  BY Zenon, OthersNat
<1>3. \A x : B(x, s) \in {0, 1} /\ (x = s => B(x, s) = 1)
  BY DEF B
<1>4. sl[s].ref > 0
  <2>1. CASE Owns(sl, p, r) /\ s \in {r.cwd, r.file, r.cur, r.ip, r.dp, r.victim}
    <3>1. sl[s].ref = Cardinality(OthersOf(proc, p, s)) + Own(r, s)
      BY Zenon, <2>1 DEF Owns
    <3> QED BY <1>2, <1>3, <2>1, <3>1 DEF Own
  <2>2. CASE OwnsAnd(sl, p, r, s)
    <3>1. sl[s].ref = Cardinality(OthersOf(proc, p, s)) + Own(r, s) + B(s, s)
      BY Zenon, <2>2 DEF OwnsAnd
    <3> QED BY <1>2, <1>3, <3>1 DEF Own
  <2> QED BY Zenon, <2>1, <2>2
<1>5. sl[s].inum # 0
  BY Zenon, <1>4 DEF SlotsOK
<1> QED BY <1>1, <1>4, <1>5 DEF SlotRec, Inums

-----------------------------------------------------------------------------
(* The slots.                                                               *)

LEMMA PlacesApart == Places \cap FreePcs = {}
BY DEF Places, DpPcs, IpPcs, WalkPcs, FreePcs

LEMMA Sizes ==
  /\ NINUM \in Nat /\ NINODE \in Nat /\ NINUM # 0 /\ NINODE >= NINUM
  /\ Slots \subseteq Nat /\ 0 \notin Slots /\ Inums \subseteq Nat /\ 0 \notin Inums
<1>1. NINUM \in Nat \ {0} /\ NINODE \in Nat /\ NINODE >= NINUM
  BY Zenon, InodeAssumption
<1> QED BY <1>1 DEF Slots, Inums

(* A change of one slot that is in use, and stays what it is.               *)
Keeps(sl, s, r) == /\ r \in SlotRec /\ r.inum = sl[s].inum
                   /\ r.ref > 0 => sl[s].ref > 0
SetTo(sl, t, s, r) == /\ SlotsOK(t)
                      /\ \A u \in Slots : t[u] = IF u = s THEN r ELSE sl[u]

LEMMA SlotSet ==
  ASSUME NEW sl, SlotsOK(sl), NEW s \in Slots, NEW r, Keeps(sl, s, r)
  PROVE  SetTo(sl, [sl EXCEPT ![s] = r], s, r)
<1> DEFINE t == [sl EXCEPT ![s] = r]
<1>1. sl \in [Slots -> SlotRec] /\ r \in SlotRec
  BY Zenon DEF SlotsOK, Keeps
<1>2. \A u \in Slots : t[u] = IF u = s THEN r ELSE sl[u]
  BY Zenon, <1>1
<1>3. t \in [Slots -> SlotRec]
  BY Zenon, <1>1
<1> HIDE DEF t
<1>4. \A u \in Slots : t[u].inum = sl[u].inum /\ (t[u].ref > 0 => sl[u].ref > 0)
  BY Zenon, <1>2 DEF Keeps
<1>5. SlotsOK(t)
  BY Zenon, <1>3, <1>4 DEF SlotsOK
<1> QED BY Zenon, <1>2, <1>5 DEF SetTo, t

SameRefs(sl, t) == SlotsOK(t) /\ \A u \in Slots : t[u].ref = sl[u].ref
OneMore(sl, t, s) == SlotsOK(t) /\ \A u \in Slots : t[u].ref = sl[u].ref + B(s, u)

LEMMA SetSame ==
  ASSUME NEW sl, SlotsOK(sl), NEW s \in Slots, NEW r \in SlotRec,
         r.ref = sl[s].ref, r.inum = sl[s].inum
  PROVE  SameRefs(sl, [sl EXCEPT ![s] = r])
<1> DEFINE t == [sl EXCEPT ![s] = r]
<1>0. Keeps(sl, s, r)
  BY Zenon DEF Keeps
<1>1. SetTo(sl, t, s, r)
  BY Zenon, <1>0, SlotSet
<1> HIDE DEF t
<1>2. \A u \in Slots : t[u].ref = sl[u].ref
  BY Zenon, <1>1 DEF SetTo
<1> QED BY Zenon, <1>1, <1>2 DEF SameRefs, SetTo, t

LEMMA UnlockedSame ==
  ASSUME NEW sl, SlotsOK(sl), NEW s \in Slots
  PROVE  SameRefs(sl, Unlocked(sl, s)) /\ SameRefs(sl, [sl EXCEPT ![s].busy = TRUE])
<1>1. sl[s] \in SlotRec
  BY Zenon DEF SlotsOK
<1>2. ASSUME NEW b \in BOOLEAN PROVE SameRefs(sl, [sl EXCEPT ![s].busy = b])
  <2> DEFINE r == [sl[s] EXCEPT !.busy = b]
  <2>1. r \in SlotRec /\ r.ref = sl[s].ref /\ r.inum = sl[s].inum
    BY <1>1 DEF SlotRec
  <2>2. [sl EXCEPT ![s].busy = b] = [sl EXCEPT ![s] = r]
    OBVIOUS
  <2> HIDE DEF r
  <2> QED BY Zenon, <2>1, <2>2, SetSame
<1> QED BY Zenon, <1>2 DEF Unlocked

LEMMA NlinkSame ==
  ASSUME NEW sl, SlotsOK(sl), NEW s \in Slots, NEW n \in Int
  PROVE  SameRefs(sl, SlotNlink(sl, s, n))
<1>1. sl[s] \in SlotRec
  BY Zenon DEF SlotsOK
<1> DEFINE r == [sl[s] EXCEPT !.nlink = @ + n]
<1>2. r \in SlotRec /\ r.ref = sl[s].ref /\ r.inum = sl[s].inum
  BY <1>1 DEF SlotRec
<1>3. SlotNlink(sl, s, n) = [sl EXCEPT ![s] = r]
  BY DEF SlotNlink
<1> HIDE DEF r
<1> QED BY ZenonT(30), <1>2, <1>3, SetSame

LEMMA LockedSame ==
  ASSUME SlotsOK(slot), DiskOK, NEW s \in Slots, slot[s].inum \in Inums
  PROVE  SameRefs(slot, Locked(s))
<1>1. slot[s] \in SlotRec
  BY Zenon DEF SlotsOK
<1>2. CASE slot[s].valid
  BY Zenon, <1>2, UnlockedSame DEF Locked
<1>3. CASE ~slot[s].valid
  <2> DEFINE i == slot[s].inum
             r == [slot[s] EXCEPT !.busy = TRUE, !.valid = TRUE,
                                  !.type = disk[i].type, !.nlink = disk[i].nlink]
  <2>1. disk[i] \in [type : Types, nlink : Int]
    BY Zenon DEF DiskOK
  <2>2. r \in SlotRec /\ r.ref = slot[s].ref /\ r.inum = slot[s].inum
    BY Zenon, <1>1, <2>1 DEF SlotRec
  <2>3. Locked(s) = [slot EXCEPT ![s] = r]
    <3>1. slot \in [Slots -> SlotRec]
      BY Zenon DEF SlotsOK
    <3> QED BY Zenon, <1>3, <3>1 DEF Locked
  <2> HIDE DEF r
  <2> QED BY ZenonT(30), <2>2, <2>3, SetSame
<1> QED BY Zenon, <1>2, <1>3

LEMMA SameSame ==
  ASSUME NEW a, NEW b, NEW c, SameRefs(a, b), SameRefs(b, c)
  PROVE  SameRefs(a, c)
BY Zenon DEF SameRefs

LEMMA MinIn ==
  ASSUME NEW S \in SUBSET Nat, S # {}
  PROVE  Min(S) \in S
<1>1. PICK x \in S : \A y \in S : ~(<<y, x>> \in OpToRel(<, Nat))
  BY Zenon, WFMin, NatLessThanWellFounded
<1>2. ASSUME NEW y \in S PROVE x <= y
  <2>1. ~(y < x)
    BY Zenon, <1>1 DEF OpToRel
  <2> QED BY <2>1
<1>3. \E i \in S : \A j \in S : i <= j
  BY Zenon, <1>2
<1> QED BY Zenon, <1>3 DEF Min

(* As long as an inode has no slot, there is a slot for it.                 *)
LEMMA FreeSlot ==
  ASSUME NEW sl, SlotsOK(sl), NEW i \in Inums,
         \A s \in Slots : ~(sl[s].ref > 0 /\ sl[s].inum = i)
  PROVE  \E s \in Slots : sl[s].ref = 0
<1> SUFFICES ASSUME \A s \in Slots : sl[s].ref # 0
             PROVE  FALSE
  BY Zenon
<1>1. \A s \in Slots : sl[s] \in SlotRec /\ sl[s].ref > 0
  <2>1. ASSUME NEW s \in Slots PROVE sl[s] \in SlotRec /\ sl[s].ref > 0
    <3>1. sl[s] \in SlotRec /\ sl[s].ref # 0
      BY Zenon DEF SlotsOK
    <3> QED BY <3>1 DEF SlotRec
  <2> QED BY Zenon, <2>1
<1> DEFINE f == [s \in Slots |-> sl[s].inum]
           T == Inums \ {i}
<1>2. f \in [Slots -> T]
  <2>1. ASSUME NEW s \in Slots PROVE sl[s].inum \in T
    <3>1. sl[s].inum # 0 /\ sl[s].inum # i /\ sl[s].inum \in 0 .. NINUM
      BY Zenon, <1>1 DEF SlotsOK, SlotRec
    <3> QED BY <3>1 DEF Inums
  <2> QED BY Zenon, <2>1
<1>3. \A s, u \in Slots : f[s] = f[u] => s = u
  BY Zenon, <1>1 DEF SlotsOK
<1>4. IsFiniteSet(Slots) /\ Cardinality(Slots) = NINODE
  BY FS_Interval, Sizes DEF Slots
<1>5. IsFiniteSet(Inums) /\ Cardinality(Inums) = NINUM
  BY FS_Interval, Sizes DEF Inums
<1>6. IsFiniteSet(T) /\ Cardinality(T) = NINUM - 1
  BY Zenon, <1>5, FS_RemoveElement
<1>7. Cardinality(T) < Cardinality(Slots)
  BY <1>4, <1>6, Sizes
<1> HIDE DEF f, T
<1>8. \E s, u \in Slots : s # u /\ f[s] = f[u]
  BY Zenon, <1>2, <1>4, <1>6, <1>7, FS_PigeonHole
<1> QED BY Zenon, <1>3, <1>8

(* inode_get adds one reference to a slot of the inode.                     *)
LEMMA GetMore ==
  ASSUME NEW sl, SlotsOK(sl), NEW i \in Inums
  PROVE  SlotOf(sl, i) \in Slots /\ OneMore(sl, Get(sl, i), SlotOf(sl, i))
<1> DEFINE cached == {s \in Slots : sl[s].ref > 0 /\ sl[s].inum = i}
           unused == {s \in Slots : sl[s].ref = 0}
           s == SlotOf(sl, i)
<1>0. Slots \subseteq Nat /\ sl \in [Slots -> SlotRec] /\ i # 0 /\ i \in 0 .. NINUM
  <2>1. i # 0 /\ i \in 0 .. NINUM
    BY Sizes DEF Inums
  <2> QED BY Zenon, <2>1, Sizes DEF SlotsOK
<1>1. CASE cached # {}
  <2>1. s \in cached
    BY Zenon, <1>0, <1>1, MinIn DEF SlotOf
  <2> HIDE DEF s
  <2> DEFINE r == [sl[s] EXCEPT !.ref = @ + 1]
  <2>2. r \in SlotRec /\ r.ref = sl[s].ref + 1 /\ r.inum = sl[s].inum
    BY <1>0, <2>1 DEF SlotRec
  <2>3. Get(sl, i) = [sl EXCEPT ![s] = r]
    BY Zenon, <2>1 DEF Get, s
  <2> HIDE DEF r
  <2>3a. Keeps(sl, s, r)
    BY Zenon, <2>1, <2>2 DEF Keeps
  <2>3b. s \in Slots
    BY Zenon, <2>1
  <2>4. SetTo(sl, Get(sl, i), s, r)
    BY ZenonT(30), <2>3, <2>3a, <2>3b, SlotSet
  <2>5. \A u \in Slots : Get(sl, i)[u].ref = sl[u].ref + B(s, u)
    <3>1. \A u \in Slots : sl[u].ref \in Nat
      BY Zenon, <1>0 DEF SlotRec
    <3>2. \A u \in Slots : Get(sl, i)[u].ref = IF u = s THEN sl[s].ref + 1 ELSE sl[u].ref
      BY Zenon, <2>2, <2>4 DEF SetTo
    <3> QED BY <3>1, <3>2 DEF B
  <2> QED BY Zenon, <2>1, <2>4, <2>5 DEF OneMore, SetTo, s
<1>2. CASE cached = {}
  <2>1. unused # {}
    BY Zenon, <1>2, FreeSlot
  <2>2. s \in unused
    BY Zenon, <1>0, <1>2, <2>1, MinIn DEF SlotOf
  <2> HIDE DEF s
  <2> DEFINE r == [EmptySlot EXCEPT !.inum = i, !.ref = 1]
             t == [sl EXCEPT ![s] = r]
  <2>3. r \in SlotRec /\ r.ref = 1 /\ r.inum = i
    <3>1. EmptySlot \in SlotRec
      BY Sizes DEF EmptySlot, SlotRec, Types
    <3> QED BY Zenon, <1>0, <3>1 DEF SlotRec
  <2>4. Get(sl, i) = t
    <3>1. ~(sl[s].ref > 0)
      BY <2>2
    <3> QED BY Zenon, <3>1 DEF Get, s
  <2> HIDE DEF r
  <2>5. /\ t \in [Slots -> SlotRec] /\ s \in Slots
        /\ \A u \in Slots : t[u] = IF u = s THEN r ELSE sl[u]
    BY Zenon, <1>0, <2>2, <2>3
  <2> HIDE DEF t
  <2>6. \A u \in Slots : sl[u].ref > 0 => sl[u].inum # i
    BY Zenon, <1>2
  <2>7. SlotsOK(t)
    BY Zenon, <1>0, <2>3, <2>5, <2>6 DEF SlotsOK
  <2>8. \A u \in Slots : t[u].ref = sl[u].ref + B(s, u)
    <3>1. \A u \in Slots : sl[u].ref \in Nat
      BY Zenon, <1>0 DEF SlotRec
    <3>2. sl[s].ref = 0
      BY Zenon, <2>2
    <3> QED BY <2>3, <2>5, <3>1, <3>2 DEF B
  <2> QED BY Zenon, <2>4, <2>5, <2>7, <2>8 DEF OneMore, s
<1> QED BY Zenon, <1>1, <1>2

LEMMA DupMore ==
  ASSUME NEW sl, SlotsOK(sl), NEW s \in Slots, sl[s].ref > 0
  PROVE  OneMore(sl, Dup(sl, s), s)
<1>0. sl \in [Slots -> SlotRec]
  BY Zenon DEF SlotsOK
<1> DEFINE r == [sl[s] EXCEPT !.ref = @ + 1]
<1>1. r \in SlotRec /\ r.ref = sl[s].ref + 1 /\ r.inum = sl[s].inum
  BY <1>0 DEF SlotRec
<1>2. Dup(sl, s) = [sl EXCEPT ![s] = r]
  BY DEF Dup
<1> HIDE DEF r
<1>2a. Keeps(sl, s, r)
  BY Zenon, <1>1 DEF Keeps
<1>3. SetTo(sl, Dup(sl, s), s, r)
  BY Zenon, <1>2, <1>2a, SlotSet
<1>4. \A u \in Slots : Dup(sl, s)[u].ref = sl[u].ref + B(s, u)
  <2>1. \A u \in Slots : sl[u].ref \in Nat
    BY Zenon, <1>0 DEF SlotRec
  <2>2. \A u \in Slots : Dup(sl, s)[u].ref = IF u = s THEN sl[s].ref + 1 ELSE sl[u].ref
    BY Zenon, <1>1, <1>3 DEF SetTo
  <2> QED BY <2>1, <2>2 DEF B
<1> QED BY Zenon, <1>3, <1>4 DEF OneMore, SetTo

(* inode_put, whether it frees the inode first or not.                      *)
LEMMA PutOK ==
  ASSUME StateOK(slot, proc), NEW p \in Procs, NEW sl, SlotsOK(sl),
         NEW s \in Slots, NEW r, Fits(r), r.pc \in Places, OwnsAnd(sl, p, r, s),
         Put(p, sl, s, r)
  PROVE  StateOK(slot', proc')
<1>0. sl[s].ref > 0 /\ sl[s] \in SlotRec /\ r \in ProcRec
  BY Zenon, PointsInUse DEF Fits
<1>n. \A u \in Slots : sl[u].ref \in Nat
  BY Zenon DEF SlotsOK, SlotRec
<1>o. \A u \in Slots : Cardinality(OthersOf(proc, p, u)) \in Nat /\ Own(r, u) \in Nat
  <2>1. \A x, u : B(x, u) \in {0, 1}
    BY DEF B
  <2>2. \A u : Own(r, u) \in Nat
    BY <2>1 DEF Own
  <2> QED BY Zenon, <2>2, OthersNat
<1>1. CASE ~LastPut(sl, s)
  <2> DEFINE c == [sl[s] EXCEPT !.ref = @ - 1]
             t == [sl EXCEPT ![s] = c]
  <2>1. c \in SlotRec /\ c.ref = sl[s].ref - 1 /\ c.inum = sl[s].inum
    BY <1>0 DEF SlotRec
  <2>2. [sl EXCEPT ![s].ref = @ - 1] = t
    OBVIOUS
  <2>2a. slot' = t /\ proc' = [proc EXCEPT ![p] = r]
    BY Zenon, <1>1, <2>2 DEF Put
  <2> HIDE DEF c
  <2>3. Keeps(sl, s, c)
    BY Zenon, <1>0, <2>1 DEF Keeps
  <2>4. SetTo(sl, t, s, c)
    BY Zenon, <2>3, SlotSet
  <2> HIDE DEF t
  <2>5. \A u \in Slots : t[u].ref = IF u = s THEN sl[s].ref - 1 ELSE sl[u].ref
    BY Zenon, <2>1, <2>4 DEF SetTo
  <2>6. Owns(t, p, r)
    BY <1>n, <1>o, <2>5 DEF OwnsAnd, Owns, B
  <2> QED BY Zenon, <2>2a, <2>4, <2>6, MoveOK DEF SetTo
<1>2. CASE LastPut(sl, s)
  <2> DEFINE t == [sl EXCEPT ![s].busy = TRUE]
             at == IF sl[s].busy THEN "put busy" ELSE "free"
             v == [r EXCEPT !.pc = at, !.then = r.pc, !.victim = s]
  <2>1. slot' = t /\ proc' = [proc EXCEPT ![p] = v]
    BY Zenon, <1>2 DEF Put
  <2>2. SlotsOK(t) /\ \A u \in Slots : t[u].ref = sl[u].ref
    BY Zenon, UnlockedSame DEF SameRefs
  <2>3. at \in FreePcs
    BY Zenon DEF FreePcs
  <2> HIDE DEF t, at
  <2>4. /\ v \in ProcRec
        /\ v.pc = at /\ v.then = r.pc /\ v.victim = s
        /\ v.call = r.call /\ v.path = r.path /\ v.to = r.to /\ v.par = r.par
        /\ v.ret = r.ret /\ v.name = r.name /\ v.cur = r.cur /\ v.ip = r.ip
        /\ v.dp = r.dp /\ v.cwd = r.cwd /\ v.file = r.file
    <3>1. s \in Ptrs
      BY Zenon DEF Ptrs
    <3> QED BY Zenon, <1>0, <2>3, <3>1 DEF ProcRec
  <2> HIDE DEF v
  <2>5. r.pc \notin FreePcs /\ s # 0
    <3>1. r.pc \notin FreePcs
      BY PlacesApart
    <3> QED BY Zenon, <3>1, Sizes
  <2>6. r.victim = 0 /\ FitsAt(r, r.pc)
    BY Zenon, <2>5 DEF Fits, Where
  <2>7. FitsAt(v, r.pc)
    BY Zenon, <2>4, <2>6 DEF FitsAt
  <2>8. Fits(v)
    BY Zenon, <2>3, <2>4, <2>5, <2>7 DEF Fits, Where
  <2>9. Owns(t, p, v)
    <3>1. \A u \in Slots : B(r.victim, u) = 0
      BY Zenon, <2>6, Sizes DEF B
    <3>2. \A x, u : B(x, u) \in {0, 1}
      BY DEF B
    <3>3. ASSUME NEW u \in Slots PROVE Own(v, u) = Own(r, u) + B(s, u)
      BY <2>4, <3>1, <3>2 DEF Own
    <3> QED BY <1>o, <2>2, <3>2, <3>3 DEF OwnsAnd, Owns
  <2> QED BY Zenon, <2>1, <2>2, <2>8, <2>9, MoveOK
<1> QED BY Zenon, <1>1, <1>2

-----------------------------------------------------------------------------
(* Steps: a process that holds the pointers of me goes on with those of r.  *)

Equal(me, r) == \A u \in Slots : Own(me, u) = Own(r, u)
Takes(me, r, s) == \A u \in Slots : Own(r, u) = Own(me, u) + B(s, u)
Drops(me, r, s) == \A u \in Slots : Own(me, u) = Own(r, u) + B(s, u)
Swaps(me, r, g, s) == \A u \in Slots : Own(me, u) + B(g, u) = Own(r, u) + B(s, u)

LEMMA OwnNat ==
  ASSUME NEW r, NEW u
  PROVE  Own(r, u) \in Nat /\ \A x : B(x, u) \in Nat
<1>1. \A x : B(x, u) \in {0, 1}
  BY DEF B
<1> QED BY <1>1 DEF Own

LEMMA MoveSame ==
  ASSUME StateOK(slot, proc), NEW p \in Procs, NEW r, Fits(r), Equal(proc[p], r),
         NEW sl, SameRefs(slot, sl)
  PROVE  StateOK(sl, [proc EXCEPT ![p] = r])
<1>1. Owns(slot, p, proc[p])
  BY Zenon, OwnsNow
<1>2. Owns(sl, p, r) /\ SlotsOK(sl)
  BY Zenon, <1>1 DEF Owns, Equal, SameRefs
<1> QED BY Zenon, <1>2, MoveOK

LEMMA MoveGet ==
  ASSUME StateOK(slot, proc), NEW p \in Procs, NEW r, Fits(r), NEW s,
         Takes(proc[p], r, s), NEW sl, OneMore(slot, sl, s)
  PROVE  StateOK(sl, [proc EXCEPT ![p] = r])
<1>1. Owns(slot, p, proc[p])
  BY Zenon, OwnsNow
<1>2. ASSUME NEW u \in Slots
      PROVE  sl[u].ref = Cardinality(OthersOf(proc, p, u)) + Own(r, u)
  <2>1. /\ sl[u].ref = slot[u].ref + B(s, u)
        /\ slot[u].ref = Cardinality(OthersOf(proc, p, u)) + Own(proc[p], u)
        /\ Own(r, u) = Own(proc[p], u) + B(s, u)
    BY Zenon, <1>1 DEF Owns, Takes, OneMore
  <2>2. /\ Cardinality(OthersOf(proc, p, u)) \in Nat /\ Own(proc[p], u) \in Nat
        /\ B(s, u) \in Nat
    BY Zenon, OthersNat, OwnNat
  <2> QED BY <2>1, <2>2
<1>3. Owns(sl, p, r) /\ SlotsOK(sl)
  BY Zenon, <1>2 DEF Owns, OneMore
<1> QED BY Zenon, <1>3, MoveOK

LEMMA PutSame ==
  ASSUME StateOK(slot, proc), NEW p \in Procs, NEW r, Fits(r), r.pc \in Places,
         NEW s \in Slots, Drops(proc[p], r, s), NEW sl, SameRefs(slot, sl),
         Put(p, sl, s, r)
  PROVE  StateOK(slot', proc')
<1>1. Owns(slot, p, proc[p])
  BY Zenon, OwnsNow
<1>2. ASSUME NEW u \in Slots
      PROVE  sl[u].ref = Cardinality(OthersOf(proc, p, u)) + Own(r, u) + B(s, u)
  <2>1. /\ sl[u].ref = slot[u].ref
        /\ slot[u].ref = Cardinality(OthersOf(proc, p, u)) + Own(proc[p], u)
        /\ Own(proc[p], u) = Own(r, u) + B(s, u)
    BY Zenon, <1>1 DEF Owns, Drops, SameRefs
  <2>2. /\ Cardinality(OthersOf(proc, p, u)) \in Nat /\ Own(r, u) \in Nat
        /\ B(s, u) \in Nat
    BY Zenon, OthersNat, OwnNat
  <2> QED BY <2>1, <2>2
<1>3. OwnsAnd(sl, p, r, s) /\ SlotsOK(sl)
  BY Zenon, <1>2 DEF OwnsAnd, SameRefs
<1> QED BY Zenon, <1>3, PutOK

LEMMA PutGet ==
  ASSUME StateOK(slot, proc), NEW p \in Procs, NEW r, Fits(r), r.pc \in Places,
         NEW s \in Slots, NEW g, Swaps(proc[p], r, g, s),
         NEW t, OneMore(slot, t, g), NEW sl, SameRefs(t, sl), Put(p, sl, s, r)
  PROVE  StateOK(slot', proc')
<1>1. Owns(slot, p, proc[p])
  BY Zenon, OwnsNow
<1>2. ASSUME NEW u \in Slots
      PROVE  sl[u].ref = Cardinality(OthersOf(proc, p, u)) + Own(r, u) + B(s, u)
  <2>1. /\ sl[u].ref = slot[u].ref + B(g, u)
        /\ slot[u].ref = Cardinality(OthersOf(proc, p, u)) + Own(proc[p], u)
        /\ Own(proc[p], u) + B(g, u) = Own(r, u) + B(s, u)
    BY Zenon, <1>1 DEF Owns, Swaps, SameRefs, OneMore
  <2>2. /\ Cardinality(OthersOf(proc, p, u)) \in Nat /\ Own(r, u) \in Nat
        /\ B(s, u) \in Nat /\ B(g, u) \in Nat /\ Own(proc[p], u) \in Nat
    BY Zenon, OthersNat, OwnNat
  <2> QED BY <2>1, <2>2
<1>3. OwnsAnd(sl, p, r, s) /\ SlotsOK(sl)
  BY Zenon, <1>2 DEF OwnsAnd, SameRefs
<1> QED BY Zenon, <1>3, PutOK

(* A process that runs is not inside inode_put.                             *)
LEMMA Here ==
  ASSUME NEW r, Fits(r), r.pc \in Places
  PROVE  r \in ProcRec /\ r.victim = 0 /\ FitsAt(r, r.pc)
<1>1. r.pc \notin FreePcs
  BY Zenon, PlacesApart
<1> QED BY Zenon, <1>1 DEF Fits, Where

LEMMA FitsIf ==
  ASSUME NEW r \in ProcRec, r.victim = 0, r.pc \in Places, FitsAt(r, r.pc)
  PROVE  Fits(r)
<1>1. r.pc \notin FreePcs
  BY Zenon, PlacesApart
<1> QED BY Zenon, <1>1 DEF Fits, Where

LEMMA NullPtr == \A u \in Slots : B(0, u) = 0
BY Zenon, Sizes DEF B

(* A call that drops ip and ends its transaction.                           *)
LEMMA DropIp ==
  ASSUME StateOK(slot, proc), NEW p \in Procs, NEW me, me = proc[p],
         me.pc \in Places, me.ip # 0, me.cur = 0, me.dp = 0,
         NEW sl, SameRefs(slot, sl),
         Put(p, sl, me.ip, [me EXCEPT !.pc = "commit", !.ip = 0])
  PROVE  StateOK(slot', proc')
<1> DEFINE r == [me EXCEPT !.pc = "commit", !.ip = 0]
<1>1. Fits(me) /\ me \in ProcRec /\ me.victim = 0 /\ FitsAt(me, me.pc)
  BY Zenon, OwnsNow, Here
<1>2. me.ip \in Slots
  BY Zenon, <1>1 DEF ProcRec, Ptrs
<1>3. /\ r \in ProcRec /\ r.pc = "commit" /\ r.victim = 0 /\ r.cur = 0 /\ r.ip = 0
      /\ r.dp = 0 /\ r.cwd = me.cwd /\ r.file = me.file /\ r.to = me.to
  <2> DEFINE v == [me EXCEPT !.pc = "commit"]
  <2>1. r = [v EXCEPT !.ip = 0]
    BY Zenon
  <2>2. "commit" \in Places /\ 0 \in Ptrs
    BY Zenon DEF Places, Ptrs
  <2>3. /\ v \in ProcRec /\ v.pc = "commit" /\ v.victim = 0 /\ v.cur = 0
        /\ v.dp = 0 /\ v.cwd = me.cwd /\ v.file = me.file /\ v.to = me.to
    BY Zenon, <1>1, <2>2 DEF ProcRec
  <2> HIDE DEF v, r
  <2> QED BY Zenon, <2>1, <2>2, <2>3 DEF ProcRec
<1> HIDE DEF r
<1>4. FitsAt(r, "commit")
  <2>1. IsPath(r.to)
    BY Zenon, <1>1, <1>3 DEF FitsAt
  <2> QED BY <1>3, <2>1 DEF FitsAt, Places, DpPcs, IpPcs, WalkPcs, CreatePcs
<1>5. r.pc \in Places
  BY Zenon, <1>3 DEF Places
<1>6. Fits(r)
  BY Zenon, <1>3, <1>4, <1>5, FitsIf
<1>7. Drops(me, r, me.ip)
  BY <1>1, <1>3, NullPtr DEF Drops, Own, B
<1> QED BY Zenon, <1>2, <1>5, <1>6, <1>7, PutSame DEF r

(* A call that drops dp.                                                    *)
LEMMA DropDp ==
  ASSUME StateOK(slot, proc), NEW p \in Procs, NEW me, me = proc[p],
         me.pc \in Places, me.dp # 0, me.cur = 0,
         NEW at \in {"commit", "removed", "made", "undo", "entered"},
         IF at = "commit" THEN me.ip = 0 \/ me.call = "creat" ELSE me.ip # 0,
         NEW sl, SameRefs(slot, sl),
         Put(p, sl, me.dp, [me EXCEPT !.pc = at, !.dp = 0])
  PROVE  StateOK(slot', proc')
<1> DEFINE r == [me EXCEPT !.pc = at, !.dp = 0]
<1>1. Fits(me) /\ me \in ProcRec /\ me.victim = 0 /\ FitsAt(me, me.pc)
  BY Zenon, OwnsNow, Here
<1>2. me.dp \in Slots
  BY Zenon, <1>1 DEF ProcRec, Ptrs
<1>p. at \in Places
  BY DEF Places, IpPcs
<1>3. /\ r \in ProcRec /\ r.pc = at /\ r.victim = 0 /\ r.cur = 0 /\ r.dp = 0
      /\ r.ip = me.ip /\ r.call = me.call
      /\ r.cwd = me.cwd /\ r.file = me.file /\ r.to = me.to
  BY Zenon, <1>1, <1>p DEF ProcRec, Ptrs
<1> HIDE DEF r
<1>4. FitsAt(r, at)
  <2>1. IsPath(r.to)
    BY Zenon, <1>1, <1>3 DEF FitsAt
  <2> QED BY <1>3, <2>1 DEF FitsAt, Places, DpPcs, IpPcs, WalkPcs, CreatePcs
<1>6. Fits(r)
  BY Zenon, <1>p, <1>3, <1>4, FitsIf
<1>7. Drops(me, r, me.dp)
  BY <1>1, <1>3, NullPtr DEF Drops, Own, B
<1> QED BY Zenon, <1>2, <1>p, <1>3, <1>6, <1>7, PutSame DEF r

(* The end of a call.                                                       *)
Idle(r, c, f) ==
  /\ Fits(r) /\ r.pc \in Places /\ r.cwd = c /\ r.file = f
  /\ r.cur = 0 /\ r.ip = 0 /\ r.dp = 0 /\ r.victim = 0

LEMMA QuietIs ==
  ASSUME NEW c \in Slots, NEW f \in Ptrs
  PROVE  Idle(Between(c, f), c, f)
<1> DEFINE r == Between(c, f)
           Loose == [pc : Places \cup FreePcs, call : {"none"}, path : Words, to : Words,
                     par : BOOLEAN, ret : {"none"}, name : {"none"}, cur : {0},
                     ip : {0}, dp : {0}, victim : {0}, then : {"none"}, cwd : Ptrs, file : Ptrs]
<1>0. "idle" \in Places /\ 0 \in Ptrs /\ <<>> \in Words /\ <<>> \in Seq(Names)
  <2>1. <<>> \in Seq(Names) /\ <<>> \in Seq(Names \cup {"/"})
    OBVIOUS
  <2> QED BY Zenon, <2>1 DEF Places, Ptrs, Words
<1>1. Quiet \in Loose /\ Quiet.pc = "idle" /\ Quiet.to = <<>>
  BY <1>0 DEF Quiet
<1>2. /\ r \in Loose /\ r.pc = "idle" /\ r.to = <<>> /\ r.cwd = c /\ r.file = f
  <2>1. c \in Ptrs
    BY Zenon DEF Ptrs
  <2> QED BY Zenon, <1>1, <2>1 DEF Between
<1> HIDE DEF r
<1>3. /\ r \in ProcRec /\ r.cur = 0 /\ r.ip = 0 /\ r.dp = 0 /\ r.victim = 0
  BY <1>0, <1>2 DEF ProcRec
<1>4. FitsAt(r, "idle")
  <2>1. IsPath(r.to)
    BY <1>0, <1>2 DEF IsPath, Words
  <2> QED BY <1>2, <1>3, <2>1 DEF FitsAt, Places, DpPcs, IpPcs, WalkPcs, CreatePcs
<1>5. Fits(r)
  BY Zenon, <1>0, <1>2, <1>3, <1>4, FitsIf
<1> QED BY Zenon, <1>0, <1>2, <1>3, <1>5 DEF Idle, r

LEMMA Facts ==
  ASSUME StateOK(slot, proc), NEW p \in Procs, proc[p].pc \in Places
  PROVE  /\ Fits(proc[p]) /\ proc[p] \in ProcRec /\ proc[p].victim = 0
         /\ FitsAt(proc[p], proc[p].pc) /\ SlotsOK(slot)
BY Zenon, OwnsNow, Here

LEMMA InUse ==
  ASSUME StateOK(slot, proc), NEW p \in Procs, NEW s \in Slots,
         \/ s = proc[p].cwd \/ s = proc[p].cur \/ s = proc[p].ip \/ s = proc[p].dp
         \/ s = proc[p].victim
  PROVE  slot[s].ref > 0 /\ slot[s].inum \in Inums /\ slot[s] \in SlotRec
BY Zenon, OwnsNow, PointsInUse

(* Two places where the same pointers are held.                             *)
Like(a, b) ==
  /\ a \in DpPcs <=> b \in DpPcs
  /\ a \in IpPcs <=> b \in IpPcs
  /\ a \in WalkPcs <=> b \in WalkPcs
  /\ b \in CreatePcs => a \in CreatePcs
  /\ a # "commit" /\ b \in Places /\ b # "begin"

LEMMA Onward ==
  ASSUME NEW me, Fits(me), me.pc \in Places, NEW b, Like(me.pc, b),
         b = "look" => me.path # <<>>, NEW r, r = [me EXCEPT !.pc = b]
  PROVE  Fits(r) /\ Equal(me, r) /\ r.pc = b
<1>1. me \in ProcRec /\ me.victim = 0 /\ FitsAt(me, me.pc)
  BY Zenon, Here
<1>2. b \in Places
  BY Zenon DEF Like
<1>3. /\ r \in ProcRec /\ r.pc = b /\ r.victim = me.victim /\ r.cur = me.cur
      /\ r.ip = me.ip /\ r.dp = me.dp /\ r.cwd = me.cwd /\ r.file = me.file
      /\ r.call = me.call /\ r.path = me.path /\ r.to = me.to /\ r.ret = me.ret
      /\ r.par = me.par /\ r.name = me.name
  BY <1>1, <1>2 DEF ProcRec
<1>4. FitsAt(r, b)
  BY Zenon, <1>1, <1>3 DEF FitsAt, Like
<1>5. Fits(r)
  BY Zenon, <1>1, <1>2, <1>3, <1>4, FitsIf
<1>6. Equal(me, r)
  BY Zenon, <1>3 DEF Equal, Own
<1> QED BY Zenon, <1>3, <1>5, <1>6

LEMMA LockOK ==
  ASSUME StateOK(slot, proc), DiskOK, NEW p \in Procs, InodeLock(p)
  PROVE  StateOK(slot', proc') /\ DiskOK'
<1> DEFINE me == proc[p]
           s == LockTarget(me)
           b == LockNext[me.pc]
<1>1. /\ slot' = Locked(s) /\ proc' = [proc EXCEPT ![p] = [me EXCEPT !.pc = b]]
      /\ me.pc \in DOMAIN LockNext /\ (me.pc = "walk" => me.path # <<>>)
      /\ UNCHANGED <<disk, ents>>
  BY Zenon DEF InodeLock, Goto
<1>2. me.pc \in {"walk", "open", "chdir", "create", "exists", "new", "unlink", "target",
                "link", "linkto", "undo"}
  BY <1>1 DEF LockNext
<1> HIDE DEF me
<1>3. Like(me.pc, b) /\ (b = "look" => me.pc = "walk") /\ me.pc \in Places
  <2>1. CASE me.pc = "walk"
    BY <2>1 DEF LockNext, Like, DpPcs, IpPcs, WalkPcs, CreatePcs, Places
  <2>2. CASE me.pc = "open"
    BY <2>2 DEF LockNext, Like, DpPcs, IpPcs, WalkPcs, CreatePcs, Places
  <2>3. CASE me.pc = "chdir"
    BY <2>3 DEF LockNext, Like, DpPcs, IpPcs, WalkPcs, CreatePcs, Places
  <2>4. CASE me.pc = "create"
    BY <2>4 DEF LockNext, Like, DpPcs, IpPcs, WalkPcs, CreatePcs, Places
  <2>5. CASE me.pc = "exists"
    BY <2>5 DEF LockNext, Like, DpPcs, IpPcs, WalkPcs, CreatePcs, Places
  <2>6. CASE me.pc = "new"
    BY <2>6 DEF LockNext, Like, DpPcs, IpPcs, WalkPcs, CreatePcs, Places
  <2>7. CASE me.pc = "unlink"
    BY <2>7 DEF LockNext, Like, DpPcs, IpPcs, WalkPcs, CreatePcs, Places
  <2>8. CASE me.pc = "target"
    BY <2>8 DEF LockNext, Like, DpPcs, IpPcs, WalkPcs, CreatePcs, Places
  <2>9. CASE me.pc = "link"
    BY <2>9 DEF LockNext, Like, DpPcs, IpPcs, WalkPcs, CreatePcs, Places
  <2>10. CASE me.pc = "linkto"
    BY <2>10 DEF LockNext, Like, DpPcs, IpPcs, WalkPcs, CreatePcs, Places
  <2>11. CASE me.pc = "undo"
    BY <2>11 DEF LockNext, Like, DpPcs, IpPcs, WalkPcs, CreatePcs, Places
  <2> QED BY Zenon, <1>2, <2>1, <2>2, <2>3, <2>4, <2>5, <2>6, <2>7, <2>8, <2>9, <2>10, <2>11
<1>4. Fits(me) /\ me \in ProcRec /\ FitsAt(me, me.pc) /\ SlotsOK(slot)
  BY Zenon, <1>3, Facts DEF me
<1>5. s \in Slots /\ (s = me.cur \/ s = me.dp \/ s = me.ip)
  <2>1. CASE me.pc = "walk"
    <3>1. s = me.cur /\ me.cur # 0
      BY <1>4, <2>1 DEF LockTarget, FitsAt, WalkPcs
    <3> QED BY Zenon, <1>4, <3>1 DEF ProcRec, Ptrs
  <2>2. CASE me.pc \in {"create", "unlink", "linkto"}
    <3>1. s = me.dp /\ me.dp # 0
      BY <1>4, <2>2 DEF LockTarget, FitsAt, DpPcs
    <3> QED BY Zenon, <1>4, <3>1 DEF ProcRec, Ptrs
  <2>3. CASE me.pc # "walk" /\ me.pc \notin {"create", "unlink", "linkto"}
    <3>1. me.pc \in IpPcs
      BY <1>2, <2>3 DEF IpPcs
    <3>2. s = me.ip /\ me.ip # 0
      BY Zenon, <1>4, <2>3, <3>1 DEF LockTarget, FitsAt
    <3> QED BY Zenon, <1>4, <3>2 DEF ProcRec, Ptrs
  <2> QED BY Zenon, <2>1, <2>2, <2>3
<1> HIDE DEF s, b
<1>6. slot[s].inum \in Inums
  BY Zenon, <1>5, InUse DEF me
<1>7. SameRefs(slot, slot')
  BY Zenon, <1>1, <1>4, <1>5, <1>6, LockedSame
<1>8. Fits([me EXCEPT !.pc = b]) /\ Equal(me, [me EXCEPT !.pc = b])
  BY Zenon, <1>1, <1>3, <1>4, Onward
<1>9. StateOK(slot', proc')
  BY Zenon, <1>1, <1>7, <1>8, MoveSame DEF me
<1> QED BY Zenon, <1>1, <1>9 DEF DiskOK

LEMMA FreeOK ==
  ASSUME StateOK(slot, proc), DiskOK, NEW p \in Procs, InodeFree(p), panic' = "none"
  PROVE  StateOK(slot', proc') /\ DiskOK'
<1> DEFINE me == proc[p]
           s == me.victim
           c == [EmptySlot EXCEPT !.inum = Inum(s), !.ref = slot[s].ref - 1]
           r == [me EXCEPT !.pc = me.then, !.then = "none", !.victim = 0]
<1>1. /\ me.pc \in FreePcs
      /\ disk' = [disk EXCEPT ![Inum(s)] = Free]
      /\ ents' = [ents EXCEPT ![Inum(s)] = NoEntries]
      /\ slot' = [slot EXCEPT ![s] = c] /\ proc' = [proc EXCEPT ![p] = r]
  <2>1. me.pc \in FreePcs
    BY Zenon DEF InodeFree, FreePcs
  <2>2. trans # NoProc /\ me.pc = "free"
    <3> SUFFICES ASSUME ~(trans # NoProc /\ me.pc = "free") PROVE FALSE
      BY Zenon
    <3>1. panic' = IF me.pc = "free" THEN "outside" ELSE me.pc
      BY Zenon DEF InodeFree
    <3> HIDE DEF me
    <3> QED BY <2>1, <3>1 DEF FreePcs
  <2> QED BY Zenon, <2>1, <2>2 DEF InodeFree, Goto
<1>2. Fits(me) /\ Owns(slot, p, me) /\ SlotsOK(slot)
  BY Zenon, OwnsNow
<1> HIDE DEF me
<1>3. me \in ProcRec /\ s # 0 /\ FitsAt(me, me.then)
  BY Zenon, <1>1, <1>2 DEF Fits, Where
<1>4. s \in Slots
  BY Zenon, <1>3 DEF ProcRec, Ptrs
<1>5. slot[s].ref > 0 /\ slot[s].inum \in Inums /\ slot[s] \in SlotRec
  BY Zenon, <1>4, InUse DEF me
<1>6. c \in SlotRec /\ c.ref = slot[s].ref - 1 /\ c.inum = slot[s].inum
  <2>1. EmptySlot \in SlotRec
    BY Sizes DEF EmptySlot, SlotRec, Types
  <2> DEFINE i == slot[s].inum
             n == slot[s].ref - 1
  <2>2. n \in Nat /\ i \in 0 .. NINUM
    BY <1>5 DEF SlotRec, Inums
  <2>3. c = [EmptySlot EXCEPT !.inum = i, !.ref = n]
    BY Zenon DEF Inum
  <2> HIDE DEF i, n, c
  <2>4. c \in SlotRec /\ c.ref = n /\ c.inum = i
    BY Zenon, <2>1, <2>2, <2>3 DEF SlotRec
  <2> QED BY Zenon, <2>4 DEF i, n
<1>7. me.then \in Places
  BY Zenon, <1>3 DEF FitsAt
<1>8. /\ r \in ProcRec /\ r.pc = me.then /\ r.victim = 0 /\ r.cur = me.cur
      /\ r.ip = me.ip /\ r.dp = me.dp /\ r.cwd = me.cwd /\ r.file = me.file
      /\ r.call = me.call /\ r.path = me.path /\ r.to = me.to /\ r.ret = me.ret
      /\ r.par = me.par /\ r.name = me.name
  <2> DEFINE v == [me EXCEPT !.pc = me.then]
             w == [v EXCEPT !.then = "none"]
  <2>1. r = [w EXCEPT !.victim = 0]
    BY Zenon
  <2>2. /\ v \in ProcRec /\ v.pc = me.then
        /\ v.cur = me.cur /\ v.ip = me.ip /\ v.dp = me.dp
        /\ v.cwd = me.cwd /\ v.file = me.file /\ v.call = me.call
        /\ v.path = me.path /\ v.to = me.to /\ v.ret = me.ret
        /\ v.par = me.par /\ v.name = me.name
    BY Zenon, <1>3, <1>7 DEF ProcRec
  <2> HIDE DEF v, r
  <2>3. /\ w \in ProcRec /\ w.pc = v.pc
        /\ w.cur = v.cur /\ w.ip = v.ip /\ w.dp = v.dp
        /\ w.cwd = v.cwd /\ w.file = v.file /\ w.call = v.call
        /\ w.path = v.path /\ w.to = v.to /\ w.ret = v.ret
        /\ w.par = v.par /\ w.name = v.name
    BY Zenon, <2>2 DEF ProcRec
  <2> HIDE DEF w
  <2>4. 0 \in Ptrs
    BY Zenon DEF Ptrs
  <2>5. /\ r \in ProcRec /\ r.pc = w.pc /\ r.victim = 0
        /\ r.cur = w.cur /\ r.ip = w.ip /\ r.dp = w.dp
        /\ r.cwd = w.cwd /\ r.file = w.file /\ r.call = w.call
        /\ r.path = w.path /\ r.to = w.to /\ r.ret = w.ret
        /\ r.par = w.par /\ r.name = w.name
    BY Zenon, <2>1, <2>3, <2>4 DEF ProcRec
  <2> QED BY Zenon, <2>2, <2>3, <2>5
<1> HIDE DEF r, c, s
<1>9. Fits(r)
  <2>1. FitsAt(r, me.then)
    BY Zenon, <1>3, <1>8 DEF FitsAt
  <2> QED BY Zenon, <1>7, <1>8, <2>1, FitsIf
<1>10. SetTo(slot, slot', s, c)
  <2>1. Keeps(slot, s, c)
    BY Zenon, <1>5, <1>6 DEF Keeps
  <2> QED BY Zenon, <1>1, <1>2, <1>4, <2>1, SlotSet
<1>11. Owns(slot', p, r)
  <2>1. ASSUME NEW u \in Slots
        PROVE  slot'[u].ref = Cardinality(OthersOf(proc, p, u)) + Own(r, u)
    <3>1. slot'[u].ref = IF u = s THEN slot[s].ref - 1 ELSE slot[u].ref
      BY Zenon, <1>6, <1>10 DEF SetTo
    <3>2. slot[u].ref = Cardinality(OthersOf(proc, p, u)) + Own(me, u)
      BY Zenon, <1>2 DEF Owns
    <3>3. Own(me, u) = Own(r, u) + B(s, u)
      <4>1. B(0, u) = 0 /\ \A x : B(x, u) \in Nat
        BY Zenon, NullPtr, OwnNat
      <4> QED BY <1>8, <4>1 DEF Own, s
    <3>4. Cardinality(OthersOf(proc, p, u)) \in Nat /\ Own(r, u) \in Nat
      BY Zenon, OthersNat, OwnNat
    <3> QED BY <3>1, <3>2, <3>3, <3>4 DEF B
  <2> QED BY Zenon, <2>1 DEF Owns
<1>12. StateOK(slot', proc')
  BY Zenon, <1>1, <1>9, <1>10, <1>11, MoveOK DEF SetTo, me
<1>13. Free \in [type : Types, nlink : Int] /\ NoEntries \in [Names -> 0 .. NINUM]
  BY Sizes DEF Free, NoEntries, Types
<1>14. DiskOK'
  BY Zenon, <1>1, <1>13 DEF DiskOK
<1> QED BY Zenon, <1>12, <1>14

(* namex, called by a process that holds the pointers of me.                *)
WalksFrom(me, path, par, ret) ==
  /\ me \in ProcRec /\ me.cur = 0 /\ me.dp = 0 /\ me.victim = 0
  /\ me.ip # 0 <=> ret = "linkto"
  /\ IsPath(me.to) /\ IsPath(path)
  /\ ret \in Rets /\ par \in BOOLEAN /\ (par <=> ret \in ParRets)
  /\ ret = "create" => me.call \in {"creat", "mkdir"}

LEMMA WalkFromOK ==
  ASSUME StateOK(slot, proc), NEW p \in Procs, NEW me, me.cwd = proc[p].cwd,
         Equal(proc[p], me), NEW path, NEW par, NEW ret,
         WalksFrom(me, path, par, ret), WalkFrom(p, me, path, par, ret)
  PROVE  StateOK(slot', proc')
<1> DEFINE abs == path # <<>> /\ Head(path) = "/"
           q == IF abs THEN Tail(path) ELSE path
           g == IF abs THEN SlotOf(slot, ROOTINO) ELSE me.cwd
           r == [me EXCEPT !.pc = "walk", !.par = par, !.ret = ret, !.path = q, !.cur = g]
<1>1. /\ slot' = IF abs THEN Get(slot, ROOTINO) ELSE Dup(slot, me.cwd)
      /\ proc' = [proc EXCEPT ![p] = r]
  BY Zenon DEF WalkFrom, Goto
<1>0. SlotsOK(slot) /\ me \in ProcRec
  BY Zenon, OwnsNow DEF WalksFrom
<1>2. g \in Slots /\ OneMore(slot, slot', g)
  <2>1. CASE abs
    <3>1. ROOTINO \in Inums
      BY Sizes DEF ROOTINO, Inums
    <3> QED BY Zenon, <1>0, <1>1, <2>1, <3>1, GetMore
  <2>2. CASE ~abs
    <3>1. me.cwd \in Slots
      BY Zenon, <1>0 DEF ProcRec
    <3>2. slot[me.cwd].ref > 0
      BY Zenon, <3>1, InUse
    <3> QED BY Zenon, <1>0, <1>1, <2>2, <3>1, <3>2, DupMore
  <2> QED BY Zenon, <2>1, <2>2
<1>3. q \in Seq(Names)
  BY Zenon DEF WalksFrom, IsPath
<1>w. q \in Words
  BY <1>3 DEF Words
<1> HIDE DEF q, g, abs
<1>4. g \in Ptrs /\ g # 0 /\ "walk" \in Places /\ ret \in Rets /\ par \in BOOLEAN
  BY Zenon, <1>2, Sizes DEF Ptrs, Places, WalkPcs, WalksFrom
<1>5. /\ r \in ProcRec /\ r.pc = "walk" /\ r.victim = me.victim /\ r.cur = g
      /\ r.ip = me.ip /\ r.dp = me.dp /\ r.cwd = me.cwd /\ r.file = me.file
      /\ r.call = me.call /\ r.path = q /\ r.to = me.to /\ r.ret = ret /\ r.par = par
  BY Zenon, <1>0, <1>w, <1>4 DEF ProcRec
<1> HIDE DEF r
<1>6. FitsAt(r, "walk")
  <2>1. "walk" \notin DpPcs /\ "walk" \notin IpPcs /\ "walk" \in WalkPcs
        /\ "walk" \notin CreatePcs /\ "walk" # "look" /\ "walk" # "begin"
        /\ "walk" # "commit"
    BY DEF DpPcs, IpPcs, WalkPcs, CreatePcs
  <2> QED BY Zenon, <1>3, <1>4, <1>5, <2>1 DEF FitsAt, WalksFrom
<1>7. Fits(r)
  BY Zenon, <1>4, <1>5, <1>6, FitsIf DEF WalksFrom
<1>8. Takes(proc[p], r, g)
  <2>1. ASSUME NEW u \in Slots PROVE Own(r, u) = Own(proc[p], u) + B(g, u)
    <3>1. B(0, u) = 0 /\ \A x : B(x, u) \in Nat
      BY Zenon, NullPtr, OwnNat
    <3>2. me.cur = 0
      BY Zenon DEF WalksFrom
    <3>3. Own(r, u) = Own(me, u) + B(g, u)
      BY <1>5, <3>1, <3>2 DEF Own
    <3> QED BY Zenon, <3>3 DEF Equal
  <2> QED BY Zenon, <2>1 DEF Takes
<1> QED BY Zenon, <1>1, <1>2, <1>7, <1>8, MoveGet

(* A walk that ended.                                                       *)
LEMMA WalkIs ==
  ASSUME NEW me, Fits(me), me.pc \in WalkPcs
  PROVE  /\ me \in ProcRec /\ me.pc \in Places
         /\ me.cur \in Slots /\ me.dp = 0 /\ me.victim = 0
         /\ me.ip # 0 <=> me.ret = "linkto"
         /\ me.path \in Seq(Names) /\ IsPath(me.to)
         /\ me.ret \in Rets /\ (me.par <=> me.ret \in ParRets)
         /\ me.ret = "create" => me.call \in {"creat", "mkdir"}
<1>1. me.pc \in Places
  BY Zenon DEF Places
<1>2. me \in ProcRec /\ me.victim = 0 /\ FitsAt(me, me.pc)
  BY Zenon, <1>1, Here
<1>3. me.pc \notin DpPcs /\ me.pc \notin IpPcs /\ me.pc # "commit"
  BY DEF WalkPcs, DpPcs, IpPcs
<1>4. me.cur \in Slots
  BY Zenon, <1>2 DEF FitsAt, ProcRec, Ptrs
<1> QED BY Zenon, <1>1, <1>2, <1>3, <1>4 DEF FitsAt

LEMMA NotFoundIs ==
  ASSUME NEW me, Fits(me), me.pc \in WalkPcs, NEW r, r = NotFound(me)
  PROVE  Fits(r) /\ r.pc \in Places /\ Drops(me, r, me.cur)
<1>1. /\ me \in ProcRec /\ me.pc \in Places
      /\ me.cur \in Slots /\ me.dp = 0 /\ me.victim = 0
      /\ me.ip # 0 <=> me.ret = "linkto"
      /\ IsPath(me.to)
  BY Zenon, WalkIs
<1>n. <<>> \in Words /\ FALSE \in BOOLEAN /\ 0 \in Ptrs
  <2>1. <<>> \in Seq(Names \cup {"/"})
    OBVIOUS
  <2> QED BY Zenon, <2>1 DEF Words, Ptrs
<1> DEFINE b == IF me.ret = "create" THEN "commit" ELSE "undo"
           v == [me EXCEPT !.cur = 0, !.path = <<>>, !.par = FALSE, !.ret = "none"]
           w == [v EXCEPT !.pc = b]
<1>2. CASE me.ret \in {"create", "linkto"}
  <2>1. r = w
    <3>1. "create" # "linkto"
      OBVIOUS
    <3> QED BY Zenon, <1>2, <3>1 DEF NotFound
  <2>2. b \in Places
    BY DEF Places, IpPcs
  <2> HIDE DEF b
  <2>3. /\ v \in ProcRec /\ v.cur = 0 /\ v.dp = me.dp /\ v.ip = me.ip /\ v.cwd = me.cwd
        /\ v.file = me.file /\ v.victim = me.victim /\ v.to = me.to
    BY Zenon, <1>1, <1>n DEF ProcRec
  <2> HIDE DEF v
  <2>4. /\ w \in ProcRec /\ w.cur = 0 /\ w.dp = 0 /\ w.ip = me.ip /\ w.cwd = me.cwd
        /\ w.file = me.file /\ w.victim = 0 /\ w.to = me.to /\ w.pc = b
    BY <1>1, <2>2, <2>3 DEF ProcRec
  <2> HIDE DEF w
  <2>5. FitsAt(w, b)
    BY <1>1, <1>2, <2>4 DEF FitsAt, b, Places, DpPcs, IpPcs, WalkPcs, CreatePcs
  <2>6. Fits(w)
    BY Zenon, <2>2, <2>4, <2>5, FitsIf
  <2>7. Drops(me, w, me.cur)
    BY <1>1, <2>4, NullPtr DEF Drops, Own, B
  <2> QED BY Zenon, <2>1, <2>2, <2>4, <2>6, <2>7
<1>3. CASE me.ret \notin {"create", "linkto"}
  <2>1. r = Between(me.cwd, me.file)
    BY Zenon, <1>3 DEF NotFound, Done
  <2>2. me.cwd \in Slots /\ me.file \in Ptrs
    BY Zenon, <1>1 DEF ProcRec
  <2>3. /\ Fits(r) /\ r.pc \in Places /\ r.cwd = me.cwd /\ r.file = me.file
        /\ r.cur = 0 /\ r.ip = 0 /\ r.dp = 0 /\ r.victim = 0
    <3>1. Idle(r, me.cwd, me.file)
      BY Zenon, <2>1, <2>2, QuietIs
    <3> QED BY Zenon, <3>1 DEF Idle
  <2>4. me.ip = 0
    BY Zenon, <1>1, <1>3
  <2>5. Drops(me, r, me.cur)
    BY <1>1, <2>3, <2>4, NullPtr DEF Drops, Own, B
  <2> QED BY Zenon, <2>3, <2>5
<1> QED BY Zenon, <1>2, <1>3

LEMMA FoundIs ==
  ASSUME NEW me, Fits(me), me.pc \in WalkPcs, me.par => me.path # <<>>,
         NEW r, r = Found(me)
  PROVE  Fits(r) /\ Equal(me, r)
<1>1. /\ me \in ProcRec /\ me.pc \in Places
      /\ me.cur \in Slots /\ me.dp = 0 /\ me.victim = 0
      /\ me.ip # 0 <=> me.ret = "linkto"
      /\ me.path \in Seq(Names) /\ IsPath(me.to)
      /\ me.ret \in Rets /\ (me.par <=> me.ret \in ParRets)
      /\ me.ret = "create" => me.call \in {"creat", "mkdir"}
  BY Zenon, WalkIs
<1>n. <<>> \in Words /\ FALSE \in BOOLEAN /\ 0 \in Ptrs /\ me.cur \in Ptrs /\ me.cur # 0
  <2>1. <<>> \in Seq(Names \cup {"/"})
    OBVIOUS
  <2> QED BY Zenon, <1>1, <2>1, Sizes DEF Words, Ptrs
<1> DEFINE v == [me EXCEPT !.pc = me.ret, !.ret = "none", !.cur = 0, !.path = <<>>,
                           !.par = FALSE]
<1>p. me.ret \in Places
  BY <1>1 DEF Rets, ParRets, Places, DpPcs, IpPcs
<1>2. /\ v \in ProcRec /\ v.cur = 0 /\ v.dp = 0 /\ v.ip = me.ip /\ v.cwd = me.cwd
      /\ v.file = me.file /\ v.victim = 0 /\ v.to = me.to /\ v.pc = me.ret
      /\ v.call = me.call
  BY Zenon, <1>1, <1>n, <1>p DEF ProcRec
<1>3. CASE me.par
  <2> DEFINE name == Head(me.path)
             w == [v EXCEPT !.dp = me.cur, !.name = name]
  <2>1. r = w
    BY Zenon, <1>3 DEF Found
  <2>2. name \in Names
    BY <1>1, <1>3
  <2> HIDE DEF v, name
  <2>3. /\ w \in ProcRec /\ w.cur = 0 /\ w.dp = me.cur /\ w.ip = me.ip /\ w.cwd = me.cwd
        /\ w.file = me.file /\ w.victim = 0 /\ w.to = me.to /\ w.pc = me.ret
        /\ w.call = me.call /\ w.name = name
    BY Zenon, <1>n, <1>2, <2>2 DEF ProcRec
  <2> HIDE DEF w
  <2>4. FitsAt(w, me.ret)
    <3>1. me.ret \in ParRets
      BY Zenon, <1>1, <1>3
    <3>2. /\ me.ret \in DpPcs /\ (me.ret \in IpPcs <=> me.ret = "linkto")
          /\ me.ret \notin WalkPcs /\ me.ret # "look" /\ me.ret # "begin"
          /\ (me.ret \in CreatePcs => me.ret = "create")
      BY <3>1 DEF ParRets, DpPcs, IpPcs, WalkPcs, CreatePcs
    <3> QED BY Zenon, <1>1, <1>n, <1>p, <2>2, <2>3, <3>2 DEF FitsAt
  <2>5. Fits(w)
    BY Zenon, <1>p, <2>3, <2>4, FitsIf
  <2>6. Equal(me, w)
    BY <1>1, <2>3, NullPtr DEF Equal, Own, B
  <2> QED BY Zenon, <2>1, <2>5, <2>6
<1>4. CASE ~me.par
  <2> DEFINE w == [v EXCEPT !.ip = me.cur]
  <2>1. r = w
    BY Zenon, <1>4 DEF Found
  <2> HIDE DEF v
  <2>3. /\ w \in ProcRec /\ w.cur = 0 /\ w.dp = 0 /\ w.ip = me.cur /\ w.cwd = me.cwd
        /\ w.file = me.file /\ w.victim = 0 /\ w.to = me.to /\ w.pc = me.ret
        /\ w.call = me.call
    BY <1>n, <1>2 DEF ProcRec
  <2> HIDE DEF w
  <2>r. me.ret \in {"open", "chdir", "link_begin"}
    BY Zenon, <1>1, <1>4 DEF Rets
  <2>4. FitsAt(w, me.ret)
    <3>2. /\ me.ret \notin DpPcs /\ me.ret \in IpPcs
          /\ me.ret \notin WalkPcs /\ me.ret # "look" /\ me.ret # "begin"
          /\ me.ret \notin CreatePcs
      BY <2>r DEF DpPcs, IpPcs, WalkPcs, CreatePcs
    <3> QED BY Zenon, <1>1, <1>n, <1>p, <2>3, <3>2 DEF FitsAt
  <2>5. Fits(w)
    BY Zenon, <1>p, <2>3, <2>4, FitsIf
  <2>6. Equal(me, w)
    <3>1. me.ip = 0
      BY <1>1, <2>r
    <3> QED BY <1>1, <2>3, <3>1, NullPtr DEF Equal, Own, B
  <2> QED BY Zenon, <2>1, <2>5, <2>6
<1> QED BY Zenon, <1>3, <1>4

-----------------------------------------------------------------------------
(* The steps of a call.                                                     *)

LEMMA WalkEndOK ==
  ASSUME StateOK(slot, proc), DiskOK, NEW p \in Procs, WalkEnd(p)
  PROVE  StateOK(slot', proc') /\ DiskOK'
<1> DEFINE me == proc[p]
<1>1. /\ me.pc = "walk" /\ me.path = <<>> /\ UNCHANGED <<disk, ents>>
      /\ IF me.par THEN Put(p, slot, me.cur, NotFound(me))
         ELSE Goto(p, Found(me)) /\ UNCHANGED slot
  BY Zenon DEF WalkEnd, At
<1>2. Fits(me) /\ SlotsOK(slot) /\ SameRefs(slot, slot)
  BY Zenon, OwnsNow DEF SameRefs
<1>3. me.pc \in WalkPcs
  BY Zenon, <1>1 DEF WalkPcs
<1>4. CASE me.par
  <2>1. me.cur \in Slots
    BY Zenon, <1>2, <1>3, WalkIs
  <2>2. /\ Fits(NotFound(me)) /\ NotFound(me).pc \in Places
        /\ Drops(me, NotFound(me), me.cur)
    BY Zenon, <1>2, <1>3, NotFoundIs
  <2>3. StateOK(slot', proc')
    BY Zenon, <1>1, <1>2, <1>4, <2>1, <2>2, PutSame
  <2> QED BY Zenon, <1>1, <2>3 DEF DiskOK
<1>5. CASE ~me.par
  <2>1. Fits(Found(me)) /\ Equal(me, Found(me))
    BY Zenon, <1>2, <1>3, <1>5, FoundIs
  <2>2. slot' = slot /\ proc' = [proc EXCEPT ![p] = Found(me)]
    BY Zenon, <1>1, <1>5 DEF Goto
  <2>3. StateOK(slot', proc')
    BY Zenon, <1>2, <2>1, <2>2, MoveSame
  <2> QED BY Zenon, <1>1, <2>3 DEF DiskOK
<1> QED BY Zenon, <1>4, <1>5

LEMMA LookupIs ==
  ASSUME StateOK(slot, proc), DiskOK, NEW p \in Procs, NEW s \in Slots,
         s = proc[p].cur \/ s = proc[p].dp \/ s = proc[p].ip, NEW name \in Names
  PROVE  Inum(s) \in Inums /\ Lookup(s, name) \in 0 .. NINUM
<1>1. Inum(s) \in Inums
  BY Zenon, InUse DEF Inum
<1> QED BY Zenon, <1>1 DEF DiskOK, Lookup

LEMMA InumIs ==
  ASSUME NEW i \in 0 .. NINUM, i # 0
  PROVE  i \in Inums
BY Sizes DEF Inums

LEMMA WalkStepOK ==
  ASSUME StateOK(slot, proc), DiskOK, NEW p \in Procs, WalkStep(p)
  PROVE  StateOK(slot', proc') /\ DiskOK'
<1> DEFINE me == proc[p]
           i == Lookup(me.cur, Head(me.path))
           off == Unlocked(slot, me.cur)
           g == SlotOf(slot, i)
           r == [me EXCEPT !.pc = "walk", !.cur = g, !.path = Tail(@)]
<1>1. /\ me.pc = "look" /\ UNCHANGED <<disk, ents>>
      /\ IF ~IsDir(me.cur) THEN Put(p, off, me.cur, NotFound(me))
         ELSE IF me.par /\ Len(me.path) = 1 THEN slot' = off /\ Goto(p, Found(me))
         ELSE IF i = 0 THEN Put(p, off, me.cur, NotFound(me))
         ELSE Put(p, Unlocked(Get(slot, i), me.cur), me.cur, r)
  BY Zenon DEF WalkStep, At
<1>2. Fits(me) /\ SlotsOK(slot)
  BY Zenon, OwnsNow
<1>3. me.pc \in WalkPcs
  BY Zenon, <1>1 DEF WalkPcs
<1> HIDE DEF me
<1>4. /\ me \in ProcRec /\ me.pc \in Places
      /\ me.cur \in Slots /\ me.dp = 0 /\ me.victim = 0
      /\ me.ip # 0 <=> me.ret = "linkto"
      /\ me.path \in Seq(Names) /\ IsPath(me.to)
      /\ me.ret \in Rets /\ (me.par <=> me.ret \in ParRets)
      /\ me.ret = "create" => me.call \in {"creat", "mkdir"}
  BY Zenon, <1>2, <1>3, WalkIs
<1>5. me.path # <<>>
  <2>1. FitsAt(me, "look")
    BY Zenon, <1>1, <1>2, <1>4, Here
  <2> QED BY Zenon, <2>1 DEF FitsAt
<1>6. SameRefs(slot, off)
  BY Zenon, <1>2, <1>4, UnlockedSame
<1>7. Head(me.path) \in Names /\ Tail(me.path) \in Seq(Names)
  BY <1>4, <1>5
<1>8. i \in 0 .. NINUM
  BY Zenon, <1>4, <1>7, LookupIs DEF me
<1>9. ASSUME Put(p, off, me.cur, NotFound(me)) PROVE StateOK(slot', proc')
  <2>1. /\ Fits(NotFound(me)) /\ NotFound(me).pc \in Places
        /\ Drops(me, NotFound(me), me.cur)
    BY Zenon, <1>2, <1>3, NotFoundIs
  <2> QED BY Zenon, <1>4, <1>6, <1>9, <2>1, PutSame DEF me
<1>10. ASSUME slot' = off, proc' = [proc EXCEPT ![p] = Found(me)]
       PROVE  StateOK(slot', proc')
  <2>1. Fits(Found(me)) /\ Equal(me, Found(me))
    BY Zenon, <1>2, <1>3, <1>5, FoundIs
  <2> QED BY Zenon, <1>6, <1>10, <2>1, MoveSame DEF me
<1>11. ASSUME i # 0, Put(p, Unlocked(Get(slot, i), me.cur), me.cur, r)
       PROVE  StateOK(slot', proc')
  <2>1. i \in Inums
    BY Zenon, <1>8, <1>11, InumIs
  <2>2. g \in Slots /\ OneMore(slot, Get(slot, i), g)
    BY Zenon, <1>2, <2>1, GetMore
  <2>3. SameRefs(Get(slot, i), Unlocked(Get(slot, i), me.cur))
    BY Zenon, <1>4, <2>2, UnlockedSame DEF OneMore
  <2> HIDE DEF g, i
  <2>4. "walk" \in Places /\ g \in Ptrs /\ Tail(me.path) \in Words /\ g # 0
    <3>1. Tail(me.path) \in Seq(Names \cup {"/"})
      BY <1>7
    <3> QED BY Zenon, <2>2, <3>1, Sizes DEF Places, WalkPcs, Ptrs, Words
  <2>5. /\ r \in ProcRec /\ r.pc = "walk" /\ r.victim = 0 /\ r.cur = g
        /\ r.ip = me.ip /\ r.dp = 0 /\ r.cwd = me.cwd /\ r.file = me.file
        /\ r.call = me.call /\ r.path = Tail(me.path) /\ r.to = me.to
        /\ r.ret = me.ret /\ r.par = me.par
    BY Zenon, <1>4, <2>4 DEF ProcRec
  <2> HIDE DEF r
  <2>6. FitsAt(r, "walk")
    <3>1. "walk" \notin DpPcs /\ "walk" \notin IpPcs /\ "walk" \in WalkPcs
          /\ "walk" \notin CreatePcs /\ "walk" # "look" /\ "walk" # "begin"
          /\ "walk" # "commit"
      BY DEF DpPcs, IpPcs, WalkPcs, CreatePcs
    <3> QED BY Zenon, <1>4, <1>7, <2>4, <2>5, <3>1 DEF FitsAt
  <2>7. Fits(r)
    BY Zenon, <2>4, <2>5, <2>6, FitsIf
  <2>8. Swaps(me, r, g, me.cur)
    <3>1. \A x, u : B(x, u) \in Nat
      BY Zenon, OwnNat
    <3> QED BY <1>4, <2>5, <3>1 DEF Swaps, Own
  <2>9. r.pc \in Places
    BY Zenon, <2>4, <2>5
  <2> QED BY Zenon, <1>4, <1>11, <2>2, <2>3, <2>7, <2>8, <2>9, PutGet DEF me
<1>12. StateOK(slot', proc')
  BY Zenon, <1>1, <1>9, <1>10, <1>11 DEF Goto, me
<1> QED BY Zenon, <1>1, <1>12 DEF DiskOK

-----------------------------------------------------------------------------
(* What a process outside of a walk holds at a place.                       *)
HasAt(me, at) ==
  /\ me \in ProcRec /\ Fits(me) /\ me.pc = at /\ at \in Places
  /\ me.victim = 0 /\ me.cur = 0 /\ IsPath(me.to)
  /\ me.cwd \in Slots /\ me.file \in Ptrs /\ me.ip \in Ptrs
  /\ IF at \in DpPcs THEN me.dp \in Slots /\ me.dp # 0 /\ me.name \in Names
     ELSE me.dp = 0
  /\ IF at \in IpPcs THEN me.ip \in Slots /\ me.ip # 0
     ELSE me.ip = 0 \/ (at = "commit" /\ me.call = "creat")
  /\ at \in CreatePcs => me.call \in {"creat", "mkdir"}
  /\ at = "begin" => IsPath(me.path)

LEMMA PlaceIs ==
  ASSUME StateOK(slot, proc), NEW p \in Procs, NEW at \in Places \ WalkPcs,
         proc[p].pc = at
  PROVE  HasAt(proc[p], at) /\ SlotsOK(slot)
<1> DEFINE me == proc[p]
<1>0. at \in Places /\ at \notin WalkPcs
  OBVIOUS
<1>1. /\ Fits(me) /\ me \in ProcRec /\ me.victim = 0
      /\ FitsAt(me, at) /\ SlotsOK(slot)
  BY Zenon, <1>0, Facts
<1> HIDE DEF me
<1>2. /\ me.cwd \in Slots /\ me.file \in Ptrs /\ me.ip \in Ptrs /\ me.dp \in Ptrs
  BY <1>1 DEF ProcRec
<1>3. /\ me.ip # 0 => me.ip \in Slots
      /\ me.dp # 0 => me.dp \in Slots
  BY Zenon, <1>2 DEF Ptrs
<1>4. /\ me.cur = 0 /\ (me.dp # 0 <=> at \in DpPcs)
      /\ (at \in DpPcs => me.name \in Names)
      /\ (at \in IpPcs => me.ip # 0)
      /\ (me.ip # 0 => at \in IpPcs \/ (at = "commit" /\ me.call = "creat"))
      /\ (at = "begin" => IsPath(me.path)) /\ IsPath(me.to)
      /\ (at \in CreatePcs => me.call \in {"creat", "mkdir"})
  BY Zenon, <1>0, <1>1 DEF FitsAt
<1>5. me.pc = at
  BY DEF me
<1>6. HasAt(me, at)
  BY Zenon, <1>0, <1>1, <1>2, <1>3, <1>4, <1>5 DEF HasAt
<1> QED BY Zenon, <1>1, <1>6 DEF me

-----------------------------------------------------------------------------

LEMMA BeginOK ==
  ASSUME StateOK(slot, proc), DiskOK, NEW p \in Procs, BeginTrans(p)
  PROVE  StateOK(slot', proc') /\ DiskOK'
<1> DEFINE me == proc[p]
<1>1. /\ me.pc \in DOMAIN BeginNext /\ UNCHANGED <<disk, ents>>
      /\ IF me.pc = "begin" THEN WalkFrom(p, me, me.path, TRUE, "create")
         ELSE Goto(p, [me EXCEPT !.pc = BeginNext[me.pc]]) /\ UNCHANGED slot
  BY Zenon DEF BeginTrans
<1>2. me.pc = "begin" \/ me.pc = "remove_begin" \/ me.pc = "link_begin"
      \/ me.pc = "close_begin"
  BY <1>1 DEF BeginNext
<1>3. me.pc \in Places \ WalkPcs
  BY <1>2 DEF Places, WalkPcs, DpPcs, IpPcs
<1>4. HasAt(me, me.pc) /\ SlotsOK(slot)
  BY Zenon, <1>3, PlaceIs
<1>5. CASE me.pc = "begin"
  <2>1. HasAt(me, "begin")
    BY Zenon, <1>4, <1>5
  <2>2. WalksFrom(me, me.path, TRUE, "create")
    BY <2>1 DEF HasAt, WalksFrom, DpPcs, IpPcs, CreatePcs, Rets, ParRets
  <2>3. Equal(me, me)
    BY Zenon DEF Equal
  <2>4. StateOK(slot', proc')
    BY Zenon, <1>1, <1>5, <2>2, <2>3, WalkFromOK
  <2> QED BY Zenon, <1>1, <2>4 DEF DiskOK
<1>6. CASE me.pc # "begin"
  <2> DEFINE b == BeginNext[me.pc]
             r == [me EXCEPT !.pc = b]
  <2>1. Like(me.pc, b) /\ b # "look"
    BY SMTT(30), <1>2, <1>6 DEF Like, BeginNext, DpPcs, IpPcs, WalkPcs, CreatePcs, Places
  <2> HIDE DEF b
  <2>2. Fits(r) /\ Equal(me, r)
    <3>1. Fits(me) /\ me.pc \in Places
      BY Zenon, <1>4 DEF HasAt
    <3> HIDE DEF me
    <3>2. b = "look" => me.path # <<>>
      BY Zenon, <2>1
    <3>3. Like(me.pc, b)
      BY Zenon, <2>1
    <3> QED BY Zenon, <3>1, <3>2, <3>3, Onward
  <2>3. SameRefs(slot, slot)
    BY Zenon, <1>4 DEF SameRefs
  <2>4. slot' = slot /\ proc' = [proc EXCEPT ![p] = r]
    BY Zenon, <1>1, <1>6 DEF Goto, b
  <2>5. StateOK(slot', proc')
    BY Zenon, <2>2, <2>3, <2>4, MoveSame
  <2> QED BY Zenon, <1>1, <2>5 DEF DiskOK
<1> QED BY Zenon, <1>5, <1>6

LEMMA CommitOK ==
  ASSUME StateOK(slot, proc), DiskOK, NEW p \in Procs, CommitTrans(p)
  PROVE  StateOK(slot', proc') /\ DiskOK'
<1> DEFINE me == proc[p]
           r == IF me.call = "creat" /\ me.ip # 0
                THEN [me EXCEPT !.pc = "opened"] ELSE Between(me.cwd, me.file)
<1>1. /\ me.pc = "commit" /\ UNCHANGED <<disk, ents>> /\ slot' = slot
      /\ proc' = [proc EXCEPT ![p] = r]
  BY Zenon DEF CommitTrans, At, Goto, Done
<1>2. "commit" \in Places \ WalkPcs
  BY DEF Places, WalkPcs
<1>3. HasAt(me, "commit") /\ SlotsOK(slot)
  BY Zenon, <1>1, <1>2, PlaceIs
<1>4. SameRefs(slot, slot)
  BY Zenon, <1>3 DEF SameRefs
<1> HIDE DEF me
<1>5. /\ me \in ProcRec /\ me.victim = 0 /\ me.cur = 0 /\ me.dp = 0
      /\ me.cwd \in Slots /\ me.file \in Ptrs /\ IsPath(me.to)
      /\ me.ip # 0 => me.call = "creat"
  BY <1>3 DEF HasAt, DpPcs, IpPcs
<1>6. Fits(r) /\ Equal(me, r)
  <2>1. CASE me.call = "creat" /\ me.ip # 0
    <3>1. "opened" \in Places /\ "opened" \in IpPcs /\ "opened" \notin DpPcs
          /\ "opened" \notin WalkPcs /\ "opened" \notin CreatePcs
      BY DEF Places, IpPcs, DpPcs, WalkPcs, CreatePcs
    <3>2. /\ r \in ProcRec /\ r.pc = "opened" /\ r.victim = 0 /\ r.cur = 0
          /\ r.dp = 0 /\ r.ip = me.ip /\ r.cwd = me.cwd /\ r.file = me.file
          /\ r.to = me.to
      BY <1>5, <2>1, <3>1 DEF ProcRec
    <3> HIDE DEF r
    <3>3. FitsAt(r, "opened")
      BY Zenon, <1>5, <2>1, <3>1, <3>2 DEF FitsAt
    <3>4. Fits(r)
      BY Zenon, <3>1, <3>2, <3>3, FitsIf
    <3>5. Equal(me, r)
      BY <1>5, <3>2 DEF Equal, Own
    <3> QED BY Zenon, <3>4, <3>5
  <2>2. CASE ~(me.call = "creat" /\ me.ip # 0)
    <3>1. me.ip = 0 /\ r = Between(me.cwd, me.file)
      BY Zenon, <1>5, <2>2
    <3> HIDE DEF r
    <3>2. Idle(r, me.cwd, me.file)
      BY Zenon, <1>5, <3>1, QuietIs
    <3>3. Equal(me, r)
      BY <1>5, <3>1, <3>2 DEF Equal, Own, Idle
    <3> QED BY Zenon, <3>2, <3>3 DEF Idle
  <2> QED BY Zenon, <2>1, <2>2
<1>7. StateOK(slot', proc')
  <2> HIDE DEF r
  <2> QED BY Zenon, <1>1, <1>4, <1>6, MoveSame DEF me
<1> QED BY Zenon, <1>1, <1>7 DEF DiskOK

LEMMA CallOK ==
  ASSUME StateOK(slot, proc), DiskOK, NEW p \in Procs, NEW c \in Calls,
         Call(p, c[1], c[2], c[3])
  PROVE  StateOK(slot', proc') /\ DiskOK'
<1> DEFINE call == c[1]
           path == c[2]
           old == proc[p]
           me == [old EXCEPT !.call = call]
           to == [me EXCEPT !.to = c[3]]
           r == [me EXCEPT !.pc = "begin", !.path = path]
<1>1. /\ old.pc = "idle" /\ UNCHANGED <<disk, ents>>
      /\ CASE call \in {"open", "chdir"} -> WalkFrom(p, me, path, FALSE, call)
           [] call = "unlink" -> WalkFrom(p, me, path, TRUE, "remove_begin")
           [] call = "link" -> WalkFrom(p, to, path, FALSE, "link_begin")
           [] OTHER -> Goto(p, r) /\ UNCHANGED slot
  BY Zenon DEF Call, At
<1>2. /\ call \in {"open", "chdir", "unlink", "link", "creat", "mkdir"}
      /\ IsPath(path) /\ IsPath(c[3])
  BY Zenon, InodeAssumption
<1>3. "idle" \in Places \ WalkPcs
  BY DEF Places, WalkPcs
<1>4. HasAt(old, "idle") /\ SlotsOK(slot)
  BY Zenon, <1>1, <1>3, PlaceIs
<1> HIDE DEF call, path, old
<1>5. /\ old \in ProcRec /\ old.victim = 0 /\ old.cur = 0 /\ old.dp = 0 /\ old.ip = 0
      /\ IsPath(old.to)
  BY <1>4 DEF HasAt, DpPcs, IpPcs
<1>6. path \in Words /\ c[3] \in Words
  BY Zenon, <1>2 DEF IsPath, Words
<1>7. /\ me \in ProcRec /\ me.call = call /\ me.victim = 0 /\ me.cur = 0
      /\ me.dp = 0 /\ me.ip = 0 /\ me.to = old.to /\ me.cwd = old.cwd
      /\ me.file = old.file
  BY <1>2, <1>5 DEF ProcRec
<1> HIDE DEF me
<1>8. /\ to \in ProcRec /\ to.call = call /\ to.victim = 0 /\ to.cur = 0
      /\ to.dp = 0 /\ to.ip = 0 /\ to.to = c[3] /\ to.cwd = old.cwd
      /\ to.file = old.file
  BY <1>6, <1>7 DEF ProcRec
<1> HIDE DEF to
<1>9. Equal(old, me) /\ Equal(old, to)
  BY <1>5, <1>7, <1>8 DEF Equal, Own
<1>10. ASSUME call \in {"open", "chdir"} PROVE StateOK(slot', proc')
  <2>1. WalksFrom(me, path, FALSE, call)
    BY <1>2, <1>5, <1>7, <1>10 DEF WalksFrom, Rets, ParRets
  <2>2. WalkFrom(p, me, path, FALSE, call)
    BY Zenon, <1>1, <1>10
  <2> QED BY Zenon, <1>7, <1>9, <2>1, <2>2, WalkFromOK DEF old
<1>11. ASSUME call = "unlink" PROVE StateOK(slot', proc')
  <2>1. WalksFrom(me, path, TRUE, "remove_begin")
    BY <1>2, <1>5, <1>7 DEF WalksFrom, Rets, ParRets
  <2>2. WalkFrom(p, me, path, TRUE, "remove_begin")
    BY Zenon, <1>1, <1>11
  <2> QED BY Zenon, <1>7, <1>9, <2>1, <2>2, WalkFromOK DEF old
<1>12. ASSUME call = "link" PROVE StateOK(slot', proc')
  <2>1. WalksFrom(to, path, FALSE, "link_begin")
    BY <1>2, <1>5, <1>8 DEF WalksFrom, Rets, ParRets
  <2>2. WalkFrom(p, to, path, FALSE, "link_begin")
    BY Zenon, <1>1, <1>12
  <2> QED BY Zenon, <1>8, <1>9, <2>1, <2>2, WalkFromOK DEF old
<1>13. ASSUME call \in {"creat", "mkdir"} PROVE StateOK(slot', proc')
  <2>1. slot' = slot /\ proc' = [proc EXCEPT ![p] = r]
    BY Zenon, <1>1, <1>13 DEF Goto
  <2>2. "begin" \in Places /\ "begin" \notin IpPcs /\ "begin" \notin DpPcs
        /\ "begin" \notin WalkPcs
    BY DEF Places, IpPcs, DpPcs, WalkPcs
  <2>3. /\ r \in ProcRec /\ r.pc = "begin" /\ r.victim = 0 /\ r.cur = 0
        /\ r.dp = 0 /\ r.ip = 0 /\ r.cwd = old.cwd /\ r.file = old.file
        /\ r.to = old.to /\ r.path = path /\ r.call = call
    BY Zenon, <1>6, <1>7, <2>2 DEF ProcRec
  <2> HIDE DEF r
  <2>4. FitsAt(r, "begin")
    BY Zenon, <1>2, <1>5, <1>13, <2>2, <2>3 DEF FitsAt
  <2>5. Fits(r)
    BY Zenon, <2>2, <2>3, <2>4, FitsIf
  <2>6. Equal(old, r)
    BY <1>5, <2>3 DEF Equal, Own
  <2>7. SameRefs(slot, slot)
    BY Zenon, <1>4 DEF SameRefs
  <2> QED BY Zenon, <2>1, <2>5, <2>6, <2>7, MoveSame DEF old
<1>14. StateOK(slot', proc')
  BY Zenon, <1>2, <1>10, <1>11, <1>12, <1>13
<1> QED BY Zenon, <1>1, <1>14 DEF DiskOK

LEMMA CallCloseOK ==
  ASSUME StateOK(slot, proc), DiskOK, NEW p \in Procs, CallClose(p)
  PROVE  StateOK(slot', proc') /\ DiskOK'
<1> DEFINE me == proc[p]
           at == "close_begin"
           r == [me EXCEPT !.pc = at, !.call = "close", !.ip = me.file, !.file = 0]
<1>1. /\ me.pc = "idle" /\ me.file # 0 /\ UNCHANGED <<disk, ents>> /\ slot' = slot
      /\ proc' = [proc EXCEPT ![p] = r]
  BY Zenon DEF CallClose, At, Goto
<1>2. "idle" \in Places \ WalkPcs
  BY DEF Places, WalkPcs
<1>3. HasAt(me, "idle") /\ SlotsOK(slot)
  BY Zenon, <1>1, <1>2, PlaceIs
<1> HIDE DEF me
<1>4. /\ me \in ProcRec /\ me.victim = 0 /\ me.cur = 0 /\ me.dp = 0 /\ me.ip = 0
      /\ IsPath(me.to) /\ me.file \in Ptrs
  BY <1>3 DEF HasAt, DpPcs, IpPcs
<1>5. /\ at \in Places /\ at \in IpPcs /\ at \notin DpPcs /\ at \notin WalkPcs
      /\ at \notin CreatePcs /\ at # "look" /\ at # "begin" /\ at # "commit"
  BY DEF Places, IpPcs, DpPcs, WalkPcs, CreatePcs
<1>6. 0 \in Ptrs
  BY Zenon DEF Ptrs
<1> HIDE DEF at
<1>7. /\ r \in ProcRec /\ r.pc = at /\ r.victim = 0 /\ r.cur = 0
      /\ r.dp = 0 /\ r.ip = me.file /\ r.cwd = me.cwd /\ r.file = 0 /\ r.to = me.to
  BY Zenon, <1>4, <1>5, <1>6 DEF ProcRec
<1> HIDE DEF r
<1>8. FitsAt(r, at)
  BY Zenon, <1>1, <1>4, <1>5, <1>7 DEF FitsAt
<1>9. Fits(r)
  BY Zenon, <1>5, <1>7, <1>8, FitsIf
<1>10. Equal(me, r)
  <2>1. \A u : B(me.file, u) \in Nat /\ B(me.cwd, u) \in Nat
    BY Zenon, OwnNat
  <2> QED BY <1>4, <1>7, <2>1, NullPtr DEF Equal, Own
<1>11. SameRefs(slot, slot)
  BY Zenon, <1>3 DEF SameRefs
<1>12. StateOK(slot', proc')
  BY Zenon, <1>1, <1>9, <1>10, <1>11, MoveSame DEF me
<1> QED BY Zenon, <1>1, <1>12 DEF DiskOK

-----------------------------------------------------------------------------
(* A transaction step that puts ip, or dp.                                  *)

LEMMA FileCloseOK ==
  ASSUME StateOK(slot, proc), DiskOK, NEW p \in Procs, FileClose(p) \/ Entered(p)
  PROVE  StateOK(slot', proc') /\ DiskOK'
<1> DEFINE me == proc[p]
<1>1. /\ me.pc = "close" \/ me.pc = "entered"
      /\ UNCHANGED <<disk, ents>>
      /\ Put(p, slot, me.ip, [me EXCEPT !.pc = "commit", !.ip = 0])
  BY Zenon DEF FileClose, Entered, At
<1>2. me.pc \in Places \ WalkPcs /\ me.pc \in IpPcs /\ me.pc \notin DpPcs
  BY <1>1 DEF Places, WalkPcs, IpPcs, DpPcs
<1>3. HasAt(me, me.pc) /\ SlotsOK(slot)
  BY Zenon, <1>2, PlaceIs
<1>4. me.pc \in Places /\ me.ip # 0 /\ me.cur = 0 /\ me.dp = 0
  BY Zenon, <1>2, <1>3 DEF HasAt
<1>5. SameRefs(slot, slot)
  BY Zenon, <1>3 DEF SameRefs
<1>6. StateOK(slot', proc')
  BY Zenon, <1>1, <1>4, <1>5, DropIp
<1> QED BY Zenon, <1>1, <1>6 DEF DiskOK

LEMMA MadeOK ==
  ASSUME StateOK(slot, proc), DiskOK, NEW p \in Procs, Made(p)
  PROVE  StateOK(slot', proc') /\ DiskOK'
<1> DEFINE me == proc[p]
<1>1. /\ me.pc = "made" /\ UNCHANGED <<disk, ents>>
      /\ Put(p, Unlocked(slot, me.ip), me.ip, [me EXCEPT !.pc = "commit", !.ip = 0])
  BY Zenon DEF Made, At
<1>2. me.pc \in Places \ WalkPcs /\ me.pc \in IpPcs /\ me.pc \notin DpPcs
  BY <1>1 DEF Places, WalkPcs, IpPcs, DpPcs
<1>3. HasAt(me, me.pc) /\ SlotsOK(slot)
  BY Zenon, <1>2, PlaceIs
<1>4. me.pc \in Places /\ me.ip # 0 /\ me.ip \in Slots /\ me.cur = 0 /\ me.dp = 0
  BY Zenon, <1>2, <1>3 DEF HasAt
<1>5. SameRefs(slot, Unlocked(slot, me.ip))
  BY Zenon, <1>3, <1>4, UnlockedSame
<1>6. StateOK(slot', proc')
  BY Zenon, <1>1, <1>4, <1>5, DropIp
<1> QED BY Zenon, <1>1, <1>6 DEF DiskOK

LEMMA ExistingOK ==
  ASSUME StateOK(slot, proc), DiskOK, NEW p \in Procs, Existing(p)
  PROVE  StateOK(slot', proc') /\ DiskOK'
<1> DEFINE me == proc[p]
           keep == me.call = "creat" /\ slot[me.ip].type = "file"
           r == [me EXCEPT !.pc = "commit"]
<1>1. /\ me.pc = "existing" /\ UNCHANGED <<disk, ents>>
      /\ IF keep THEN proc' = [proc EXCEPT ![p] = r] /\ slot' = slot
         ELSE Put(p, Unlocked(slot, me.ip), me.ip, [me EXCEPT !.pc = "commit", !.ip = 0])
  BY Zenon DEF Existing, At, Goto
<1>2. me.pc \in Places \ WalkPcs /\ me.pc \in IpPcs /\ me.pc \notin DpPcs
  BY <1>1 DEF Places, WalkPcs, IpPcs, DpPcs
<1>3. HasAt(me, me.pc) /\ SlotsOK(slot)
  BY Zenon, <1>2, PlaceIs
<1> HIDE DEF me
<1>4. /\ me.pc \in Places /\ me.ip # 0 /\ me.ip \in Slots /\ me.cur = 0 /\ me.dp = 0
      /\ me \in ProcRec /\ me.victim = 0 /\ IsPath(me.to)
  BY Zenon, <1>2, <1>3 DEF HasAt
<1>5. ASSUME keep PROVE StateOK(slot', proc')
  <2>1. /\ "commit" \in Places /\ "commit" \notin IpPcs /\ "commit" \notin DpPcs
        /\ "commit" \notin WalkPcs /\ "commit" \notin CreatePcs
    BY DEF Places, IpPcs, DpPcs, WalkPcs, CreatePcs
  <2>2. /\ r \in ProcRec /\ r.pc = "commit" /\ r.victim = 0 /\ r.cur = 0
        /\ r.dp = 0 /\ r.ip = me.ip /\ r.cwd = me.cwd /\ r.file = me.file
        /\ r.to = me.to /\ r.call = me.call
    BY <1>4, <2>1 DEF ProcRec
  <2> HIDE DEF r
  <2>3. FitsAt(r, "commit")
    BY Zenon, <1>4, <1>5, <2>1, <2>2 DEF FitsAt
  <2>4. Fits(r)
    BY Zenon, <2>1, <2>2, <2>3, FitsIf
  <2>5. Equal(me, r)
    BY <1>4, <2>2 DEF Equal, Own
  <2>6. SameRefs(slot, slot)
    BY Zenon, <1>3 DEF SameRefs
  <2> QED BY Zenon, <1>1, <1>5, <2>4, <2>5, <2>6, MoveSame DEF me
<1>6. ASSUME ~keep PROVE StateOK(slot', proc')
  <2>1. SameRefs(slot, Unlocked(slot, me.ip))
    BY Zenon, <1>3, <1>4, UnlockedSame
  <2> QED BY Zenon, <1>1, <1>4, <1>6, <2>1, DropIp DEF me
<1>7. StateOK(slot', proc')
  BY Zenon, <1>5, <1>6
<1> QED BY Zenon, <1>1, <1>7 DEF DiskOK

LEMMA RefuseOK ==
  ASSUME StateOK(slot, proc), DiskOK, NEW p \in Procs, Refuse(p)
  PROVE  StateOK(slot', proc') /\ DiskOK'
<1> DEFINE me == proc[p]
<1>1. /\ me.pc = "refuse" /\ UNCHANGED <<disk, ents>>
      /\ Put(p, Unlocked(slot, me.dp), me.dp, [me EXCEPT !.pc = "commit", !.dp = 0])
  BY Zenon DEF Refuse, At
<1>2. /\ me.pc \in Places \ WalkPcs /\ me.pc \notin IpPcs /\ me.pc \in DpPcs
      /\ me.pc # "commit"
  BY <1>1 DEF Places, WalkPcs, IpPcs, DpPcs
<1>3. HasAt(me, me.pc) /\ SlotsOK(slot)
  BY Zenon, <1>2, PlaceIs
<1>4. me.pc \in Places /\ me.ip = 0 /\ me.dp # 0 /\ me.dp \in Slots /\ me.cur = 0
  BY Zenon, <1>2, <1>3 DEF HasAt
<1>5. SameRefs(slot, Unlocked(slot, me.dp))
  BY Zenon, <1>3, <1>4, UnlockedSame
<1>6. StateOK(slot', proc')
  BY Zenon, <1>1, <1>4, <1>5, DropDp
<1> QED BY Zenon, <1>1, <1>6 DEF DiskOK

LEMMA OpenOK ==
  ASSUME StateOK(slot, proc), DiskOK, NEW p \in Procs, Open(p)
  PROVE  StateOK(slot', proc') /\ DiskOK'
<1> DEFINE me == proc[p]
           off == Unlocked(slot, me.ip)
<1>1. /\ me.pc = "opened" /\ UNCHANGED <<disk, ents>>
      /\ IF me.file # 0 THEN Put(p, off, me.ip, Between(me.cwd, me.file))
         ELSE slot' = off /\ proc' = [proc EXCEPT ![p] = Between(me.cwd, me.ip)]
  BY Zenon DEF Open, At, Goto, Done
<1>2. me.pc \in Places \ WalkPcs /\ me.pc \in IpPcs /\ me.pc \notin DpPcs
  BY <1>1 DEF Places, WalkPcs, IpPcs, DpPcs
<1>3. HasAt(me, me.pc) /\ SlotsOK(slot)
  BY Zenon, <1>2, PlaceIs
<1>4. /\ me.ip # 0 /\ me.ip \in Slots /\ me.ip \in Ptrs /\ me.cur = 0 /\ me.dp = 0
      /\ me.victim = 0 /\ me.cwd \in Slots /\ me.file \in Ptrs
  BY Zenon, <1>2, <1>3 DEF HasAt
<1>5. SameRefs(slot, off)
  BY Zenon, <1>3, <1>4, UnlockedSame
<1>6. \A x, u : B(x, u) \in Nat
  BY Zenon, OwnNat
<1> HIDE DEF me, off
<1>7. ASSUME me.file # 0 PROVE StateOK(slot', proc')
  <2> DEFINE r == Between(me.cwd, me.file)
  <2>1. Idle(r, me.cwd, me.file)
    BY Zenon, <1>4, QuietIs
  <2>2. Put(p, off, me.ip, r)
    BY Zenon, <1>1, <1>7
  <2> HIDE DEF r
  <2>3. Drops(me, r, me.ip)
    BY <1>4, <1>6, <2>1, NullPtr DEF Drops, Own, Idle
  <2>4. Fits(r) /\ r.pc \in Places
    BY Zenon, <2>1 DEF Idle
  <2> QED BY Zenon, <1>4, <1>5, <2>2, <2>3, <2>4, PutSame DEF me
<1>8. ASSUME me.file = 0 PROVE StateOK(slot', proc')
  <2> DEFINE r == Between(me.cwd, me.ip)
  <2>1. Idle(r, me.cwd, me.ip)
    BY Zenon, <1>4, QuietIs
  <2>2. slot' = off /\ proc' = [proc EXCEPT ![p] = r]
    BY Zenon, <1>1, <1>8
  <2> HIDE DEF r
  <2>3. Equal(me, r)
    BY <1>4, <1>6, <1>8, <2>1, NullPtr DEF Equal, Own, Idle
  <2>4. Fits(r)
    BY Zenon, <2>1 DEF Idle
  <2> QED BY Zenon, <1>5, <2>2, <2>3, <2>4, MoveSame DEF me
<1>9. StateOK(slot', proc')
  BY Zenon, <1>7, <1>8
<1> QED BY Zenon, <1>1, <1>9 DEF DiskOK

LEMMA ChdirOK ==
  ASSUME StateOK(slot, proc), DiskOK, NEW p \in Procs, Chdir(p)
  PROVE  StateOK(slot', proc') /\ DiskOK'
<1> DEFINE me == proc[p]
           off == Unlocked(slot, me.ip)
<1>1. /\ me.pc = "chdired" /\ UNCHANGED <<disk, ents>>
      /\ IF ~IsDir(me.ip) THEN Put(p, off, me.ip, Between(me.cwd, me.file))
         ELSE Put(p, off, me.cwd, Between(me.ip, me.file))
  BY Zenon DEF Chdir, At, Done
<1>2. me.pc \in Places \ WalkPcs /\ me.pc \in IpPcs /\ me.pc \notin DpPcs
  BY <1>1 DEF Places, WalkPcs, IpPcs, DpPcs
<1>3. HasAt(me, me.pc) /\ SlotsOK(slot)
  BY Zenon, <1>2, PlaceIs
<1>4. /\ me.ip # 0 /\ me.ip \in Slots /\ me.cur = 0 /\ me.dp = 0
      /\ me.victim = 0 /\ me.cwd \in Slots /\ me.file \in Ptrs
  BY Zenon, <1>2, <1>3 DEF HasAt
<1>5. SameRefs(slot, off)
  BY Zenon, <1>3, <1>4, UnlockedSame
<1>6. \A x, u : B(x, u) \in Nat
  BY Zenon, OwnNat
<1> HIDE DEF me, off
<1>7. ASSUME NEW c \in Slots, NEW s \in Slots,
             (c = me.cwd /\ s = me.ip) \/ (c = me.ip /\ s = me.cwd),
             Put(p, off, s, Between(c, me.file))
      PROVE  StateOK(slot', proc')
  <2> DEFINE r == Between(c, me.file)
  <2>1. Idle(r, c, me.file)
    BY Zenon, <1>4, QuietIs
  <2>2. Put(p, off, s, r)
    BY Zenon, <1>7
  <2> HIDE DEF r
  <2>3. Drops(me, r, s)
    BY <1>4, <1>6, <1>7, <2>1, NullPtr DEF Drops, Own, Idle
  <2>4. Fits(r) /\ r.pc \in Places
    BY Zenon, <2>1 DEF Idle
  <2> QED BY Zenon, <1>5, <2>2, <2>3, <2>4, PutSame DEF me
<1>8. StateOK(slot', proc')
  BY Zenon, <1>1, <1>4, <1>7
<1> QED BY Zenon, <1>1, <1>8 DEF DiskOK

LEMMA CountedOK ==
  ASSUME StateOK(slot, proc), DiskOK, NEW p \in Procs, Counted(p)
  PROVE  StateOK(slot', proc') /\ DiskOK'
<1> DEFINE me == proc[p]
<1>1. /\ me.pc = "counted" /\ UNCHANGED <<disk, ents>>
      /\ WalkFrom(p, me, me.to, TRUE, "linkto")
  BY Zenon DEF Counted, At
<1>2. me.pc \in Places \ WalkPcs /\ me.pc \in IpPcs /\ me.pc \notin DpPcs
  BY <1>1 DEF Places, WalkPcs, IpPcs, DpPcs
<1>3. HasAt(me, me.pc)
  BY Zenon, <1>2, PlaceIs
<1>4. /\ me.ip # 0 /\ me.cur = 0 /\ me.dp = 0 /\ me.victim = 0
      /\ IsPath(me.to) /\ me \in ProcRec
  BY Zenon, <1>2, <1>3 DEF HasAt
<1>5. WalksFrom(me, me.to, TRUE, "linkto")
  <2> HIDE DEF me
  <2> QED BY <1>4 DEF WalksFrom, Rets, ParRets
<1>6. Equal(me, me)
  BY Zenon DEF Equal
<1>7. StateOK(slot', proc')
  BY Zenon, <1>1, <1>5, <1>6, WalkFromOK
<1> QED BY Zenon, <1>1, <1>7 DEF DiskOK

-----------------------------------------------------------------------------
(* The steps that write link counts and entries.                            *)

Disks == [Inums -> [type : Types, nlink : Int]]
Dirs == [Inums -> [Names -> 0 .. NINUM]]

LEMMA DiskNlinkIs ==
  ASSUME SlotsOK(slot), NEW d \in Disks, NEW s \in Slots, NEW n \in Int
  PROVE  DiskNlink(d, s, n) \in Disks
<1> DEFINE i == slot[s].inum
           v == slot[s].nlink + n
<1>1. slot[s] \in SlotRec
  BY Zenon DEF SlotsOK
<1>2. v \in Int
  BY <1>1 DEF SlotRec
<1>3. DiskNlink(d, s, n) = [d EXCEPT ![i].nlink = v]
  BY Zenon DEF DiskNlink
<1> HIDE DEF i, v
<1> QED BY Zenon, <1>2, <1>3 DEF Disks

LEMMA EntIs ==
  ASSUME NEW e \in Dirs, NEW i, NEW name, NEW v \in 0 .. NINUM
  PROVE  [e EXCEPT ![i][name] = v] \in Dirs
BY Zenon DEF Dirs

LEMMA UnlinkedOK ==
  ASSUME StateOK(slot, proc), DiskOK, NEW p \in Procs, Unlinked(p)
  PROVE  StateOK(slot', proc') /\ DiskOK'
<1> DEFINE me == proc[p]
           less == SlotNlink(slot, me.ip, -1)
<1>1. /\ me.pc = "removed" \/ me.pc = "uncount"
      /\ disk' = DiskNlink(disk, me.ip, -1) /\ UNCHANGED ents
      /\ Put(p, Unlocked(less, me.ip), me.ip, [me EXCEPT !.pc = "commit", !.ip = 0])
  BY Zenon DEF Unlinked
<1>2. me.pc \in Places \ WalkPcs /\ me.pc \in IpPcs /\ me.pc \notin DpPcs
  BY <1>1 DEF Places, WalkPcs, IpPcs, DpPcs
<1>3. HasAt(me, me.pc) /\ SlotsOK(slot)
  BY Zenon, <1>2, PlaceIs
<1>4. me.pc \in Places /\ me.ip # 0 /\ me.ip \in Slots /\ me.cur = 0 /\ me.dp = 0
  BY Zenon, <1>2, <1>3 DEF HasAt
<1>5. -1 \in Int
  OBVIOUS
<1>6. SameRefs(slot, less)
  BY Zenon, <1>3, <1>4, <1>5, NlinkSame
<1>7. SameRefs(slot, Unlocked(less, me.ip))
  <2> HIDE DEF less
  <2>1. SlotsOK(less)
    BY Zenon, <1>6 DEF SameRefs
  <2>2. SameRefs(less, Unlocked(less, me.ip))
    BY Zenon, <1>4, <2>1, UnlockedSame
  <2> QED BY Zenon, <1>6, <2>2, SameSame
<1>8. StateOK(slot', proc')
  BY Zenon, <1>1, <1>4, <1>7, DropIp
<1>9. disk' \in Disks
  BY Zenon, <1>1, <1>3, <1>4, <1>5, DiskNlinkIs DEF DiskOK, Disks
<1> QED BY Zenon, <1>1, <1>8, <1>9 DEF DiskOK, Disks

LEMMA CountOK ==
  ASSUME StateOK(slot, proc), DiskOK, NEW p \in Procs, Count(p)
  PROVE  StateOK(slot', proc') /\ DiskOK'
<1> DEFINE me == proc[p]
           more == SlotNlink(slot, me.ip, 1)
           r == [me EXCEPT !.pc = "counted"]
<1>1. /\ me.pc = "count" /\ UNCHANGED ents
      /\ IF IsDir(me.ip)
         THEN /\ Put(p, Unlocked(slot, me.ip), me.ip,
                     [me EXCEPT !.pc = "commit", !.ip = 0])
              /\ disk' = disk
         ELSE /\ disk' = DiskNlink(disk, me.ip, 1)
              /\ slot' = Unlocked(more, me.ip)
              /\ proc' = [proc EXCEPT ![p] = r]
  BY Zenon DEF Count, At, Goto
<1>2. /\ me.pc \in Places \ WalkPcs /\ me.pc \in IpPcs /\ me.pc \notin DpPcs
      /\ Like(me.pc, "counted")
  BY <1>1 DEF Places, WalkPcs, IpPcs, DpPcs, CreatePcs, Like
<1>3. HasAt(me, me.pc) /\ SlotsOK(slot)
  BY Zenon, <1>2, PlaceIs
<1>4. /\ me.pc \in Places /\ me.ip # 0 /\ me.ip \in Slots /\ me.cur = 0 /\ me.dp = 0
      /\ Fits(me)
  BY Zenon, <1>2, <1>3 DEF HasAt
<1>5. 1 \in Int
  OBVIOUS
<1>6. CASE IsDir(me.ip)
  <2>1. SameRefs(slot, Unlocked(slot, me.ip))
    BY Zenon, <1>3, <1>4, UnlockedSame
  <2>2. StateOK(slot', proc')
    BY Zenon, <1>1, <1>4, <1>6, <2>1, DropIp
  <2> QED BY Zenon, <1>1, <1>6, <2>2 DEF DiskOK
<1>7. CASE ~IsDir(me.ip)
  <2>0. /\ disk' = DiskNlink(disk, me.ip, 1) /\ slot' = Unlocked(more, me.ip)
        /\ proc' = [proc EXCEPT ![p] = r]
    BY Zenon, <1>1, <1>7
  <2>1. SameRefs(slot, more)
    BY Zenon, <1>3, <1>4, <1>5, NlinkSame
  <2>2. SameRefs(slot, Unlocked(more, me.ip))
    <3> HIDE DEF more
    <3>1. SlotsOK(more)
      BY Zenon, <2>1 DEF SameRefs
    <3>2. SameRefs(more, Unlocked(more, me.ip))
      BY Zenon, <1>4, <3>1, UnlockedSame
    <3> QED BY Zenon, <2>1, <3>2, SameSame
  <2>3. "counted" # "look"
    OBVIOUS
  <2>4. Fits(r) /\ Equal(me, r)
    BY Zenon, <1>2, <1>4, <2>3, Onward
  <2>5. StateOK(slot', proc')
    BY Zenon, <2>0, <2>2, <2>4, MoveSame
  <2>6. disk' \in Disks
    BY Zenon, <1>3, <1>4, <1>5, <2>0, DiskNlinkIs DEF DiskOK, Disks
  <2> QED BY Zenon, <1>1, <2>5, <2>6 DEF DiskOK, Disks
<1> QED BY Zenon, <1>6, <1>7

LEMMA EnterOK ==
  ASSUME StateOK(slot, proc), DiskOK, NEW p \in Procs, Enter(p)
  PROVE  StateOK(slot', proc') /\ DiskOK'
<1> DEFINE me == proc[p]
           taken == Lookup(me.dp, me.name) # 0
           at == IF taken THEN "undo" ELSE "entered"
<1>1. /\ me.pc = "enter" /\ UNCHANGED disk
      /\ ents' = IF taken THEN ents
                 ELSE [ents EXCEPT ![Inum(me.dp)][me.name] = Inum(me.ip)]
      /\ Put(p, Unlocked(slot, me.dp), me.dp, [me EXCEPT !.pc = at, !.dp = 0])
  BY Zenon DEF Enter, At
<1>2. /\ me.pc \in Places \ WalkPcs /\ me.pc \in IpPcs /\ me.pc \in DpPcs
  BY <1>1 DEF Places, WalkPcs, IpPcs, DpPcs
<1>3. HasAt(me, me.pc) /\ SlotsOK(slot)
  BY Zenon, <1>2, PlaceIs
<1>4. /\ me.pc \in Places /\ me.ip # 0 /\ me.ip \in Slots /\ me.cur = 0
      /\ me.dp # 0 /\ me.dp \in Slots
  BY Zenon, <1>2, <1>3 DEF HasAt
<1>5. SameRefs(slot, Unlocked(slot, me.dp))
  BY Zenon, <1>3, <1>4, UnlockedSame
<1>6. at \in {"commit", "removed", "made", "undo", "entered"} /\ at # "commit"
  OBVIOUS
<1>7. StateOK(slot', proc')
  <2> HIDE DEF at
  <2> QED BY Zenon, <1>1, <1>4, <1>5, <1>6, DropDp
<1>8. Inum(me.ip) \in 0 .. NINUM
  <2>1. Inum(me.ip) \in Inums
    BY Zenon, <1>4, InUse DEF Inum
  <2> QED BY <2>1, Sizes DEF Inums
<1>9. ents' \in Dirs
  <2> HIDE DEF me
  <2> QED BY Zenon, <1>1, <1>8, EntIs DEF DiskOK, Dirs
<1> QED BY Zenon, <1>1, <1>7, <1>9 DEF DiskOK, Dirs

(* A process that has found the inode of a name takes a pointer to it.      *)
LEMMA TakeIp ==
  ASSUME NEW me, NEW a, HasAt(me, a), a \in DpPcs, a \notin IpPcs, a # "commit",
         NEW at, at \in DpPcs, at \in IpPcs, at \in CreatePcs => a \in CreatePcs,
         NEW g \in Slots, NEW r, r = [me EXCEPT !.pc = at, !.ip = g]
  PROVE  Fits(r) /\ Takes(me, r, g)
<1>1. /\ at \in Places /\ at \notin WalkPcs /\ at # "look" /\ at # "begin"
      /\ at # "commit"
  BY DEF DpPcs, Places, WalkPcs
<1>2. /\ me \in ProcRec /\ me.cur = 0 /\ me.dp # 0 /\ me.name \in Names
      /\ me.ip = 0 /\ me.victim = 0 /\ IsPath(me.to)
      /\ at \in CreatePcs => me.call \in {"creat", "mkdir"}
  BY Zenon DEF HasAt
<1>3. g # 0 /\ g \in Ptrs
  BY Zenon, Sizes DEF Ptrs
<1>4. /\ r \in ProcRec /\ r.pc = at /\ r.victim = 0 /\ r.cur = 0
      /\ r.dp = me.dp /\ r.ip = g /\ r.cwd = me.cwd /\ r.file = me.file
      /\ r.to = me.to /\ r.call = me.call /\ r.name = me.name
  BY Zenon, <1>1, <1>2, <1>3 DEF ProcRec
<1>5. FitsAt(r, at)
  BY Zenon, <1>1, <1>2, <1>3, <1>4 DEF FitsAt
<1>6. Fits(r)
  BY Zenon, <1>1, <1>4, <1>5, FitsIf
<1>7. Takes(me, r, g)
  <2>1. \A x, u : B(x, u) \in Nat
    BY Zenon, OwnNat
  <2> QED BY <1>2, <1>4, <2>1, NullPtr DEF Takes, Own
<1> QED BY Zenon, <1>6, <1>7

LEMMA FindOK ==
  ASSUME StateOK(slot, proc), DiskOK, NEW p \in Procs, Find(p)
  PROVE  StateOK(slot', proc') /\ DiskOK'
<1> DEFINE me == proc[p]
           i == Lookup(me.dp, me.name)
           g == SlotOf(slot, i)
           r == [me EXCEPT !.pc = "target", !.ip = g]
           none == me.name = ".." \/ i = 0
<1>1. /\ me.pc = "find" /\ UNCHANGED <<disk, ents>>
      /\ IF none
         THEN Put(p, Unlocked(slot, me.dp), me.dp, [me EXCEPT !.pc = "commit", !.dp = 0])
         ELSE slot' = Get(slot, i) /\ proc' = [proc EXCEPT ![p] = r]
  BY Zenon DEF Find, At, Goto
<1>2. /\ "find" \in Places \ WalkPcs /\ "find" \notin IpPcs /\ "find" \in DpPcs
      /\ "find" # "commit" /\ "target" \in DpPcs /\ "target" \in IpPcs
      /\ "target" \notin CreatePcs
  BY DEF Places, WalkPcs, IpPcs, DpPcs, CreatePcs
<1>3. HasAt(me, "find") /\ SlotsOK(slot)
  BY Zenon, <1>1, <1>2, PlaceIs
<1>4. /\ me.pc \in Places /\ me.ip = 0 /\ me.dp # 0 /\ me.dp \in Slots /\ me.cur = 0
      /\ me.name \in Names
  BY Zenon, <1>2, <1>3 DEF HasAt
<1>5. ASSUME none PROVE StateOK(slot', proc')
  <2>1. SameRefs(slot, Unlocked(slot, me.dp))
    BY Zenon, <1>3, <1>4, UnlockedSame
  <2> QED BY Zenon, <1>1, <1>4, <1>5, <2>1, DropDp
<1>6. ASSUME ~none PROVE StateOK(slot', proc')
  <2>1. i \in 0 .. NINUM
    BY Zenon, <1>4, LookupIs
  <2>2. i \in Inums
    BY Zenon, <1>6, <2>1, InumIs
  <2>3. g \in Slots /\ OneMore(slot, Get(slot, i), g)
    BY Zenon, <1>3, <2>2, GetMore
  <2>4. slot' = Get(slot, i) /\ proc' = [proc EXCEPT ![p] = r]
    BY Zenon, <1>1, <1>6
  <2> HIDE DEF g, i, me
  <2>5. Fits(r) /\ Takes(me, r, g)
    BY Zenon, <1>2, <1>3, <2>3, TakeIp
  <2> QED BY Zenon, <2>3, <2>4, <2>5, MoveGet DEF me
<1>7. StateOK(slot', proc')
  BY Zenon, <1>5, <1>6
<1> QED BY Zenon, <1>1, <1>7 DEF DiskOK

LEMMA CreateOK ==
  ASSUME StateOK(slot, proc), DiskOK, NEW p \in Procs, Create(p), panic' = "none"
  PROVE  StateOK(slot', proc') /\ DiskOK'
<1> DEFINE me == proc[p]
           i == Lookup(me.dp, me.name)
           g == SlotOf(slot, i)
           old == [me EXCEPT !.pc = "exists", !.ip = g, !.dp = 0]
           free == {k \in Inums : disk[k].type = "free"}
           new == Min(free)
           h == SlotOf(slot, new)
           r == [me EXCEPT !.pc = "new", !.ip = h]
           inode == [type |-> IF me.call = "mkdir" THEN "dir" ELSE "file", nlink |-> 0]
<1>1. /\ me.pc = "lookup" /\ ents' = ents
      /\ IF i # 0
         THEN Put(p, Unlocked(Get(slot, i), me.dp), me.dp, old) /\ disk' = disk
         ELSE IF free = {} THEN panic' = "no inodes"
         ELSE /\ disk' = [disk EXCEPT ![new] = inode]
              /\ slot' = Get(slot, new) /\ proc' = [proc EXCEPT ![p] = r]
  BY Zenon DEF Create, At, Goto
<1>2. /\ "lookup" \in Places \ WalkPcs /\ "lookup" \notin IpPcs /\ "lookup" \in DpPcs
      /\ "lookup" # "commit" /\ "lookup" \in CreatePcs
      /\ "new" \in DpPcs /\ "new" \in IpPcs
  BY DEF Places, WalkPcs, IpPcs, DpPcs, CreatePcs
<1>3. HasAt(me, "lookup") /\ SlotsOK(slot)
  BY Zenon, <1>1, <1>2, PlaceIs
<1>4. /\ me \in ProcRec /\ me.ip = 0 /\ me.dp # 0 /\ me.dp \in Slots /\ me.cur = 0
      /\ me.name \in Names /\ me.victim = 0 /\ IsPath(me.to)
      /\ me.call \in {"creat", "mkdir"}
  BY Zenon, <1>2, <1>3 DEF HasAt
<1>5. CASE i # 0
  <2>0. Put(p, Unlocked(Get(slot, i), me.dp), me.dp, old) /\ disk' = disk
    BY Zenon, <1>1, <1>5
  <2>1. i \in 0 .. NINUM
    BY Zenon, <1>4, LookupIs
  <2>2. i \in Inums
    BY Zenon, <1>5, <2>1, InumIs
  <2>3. g \in Slots /\ OneMore(slot, Get(slot, i), g)
    BY Zenon, <1>3, <2>2, GetMore
  <2>4. SameRefs(Get(slot, i), Unlocked(Get(slot, i), me.dp))
    BY Zenon, <1>4, <2>3, UnlockedSame DEF OneMore
  <2> HIDE DEF g, i, me
  <2>5. /\ "exists" \in Places /\ "exists" \in IpPcs /\ "exists" \notin DpPcs
        /\ "exists" \notin WalkPcs /\ "exists" # "look" /\ "exists" # "begin"
        /\ "exists" # "commit"
    BY DEF Places, IpPcs, DpPcs, WalkPcs
  <2>6. g # 0 /\ g \in Ptrs /\ 0 \in Ptrs
    BY Zenon, <2>3, Sizes DEF Ptrs
  <2>7. /\ old \in ProcRec /\ old.pc = "exists" /\ old.victim = 0 /\ old.cur = 0
        /\ old.dp = 0 /\ old.ip = g /\ old.cwd = me.cwd /\ old.file = me.file
        /\ old.to = me.to /\ old.call = me.call
    BY Zenon, <1>4, <2>5, <2>6 DEF ProcRec
  <2> HIDE DEF old
  <2>8. FitsAt(old, "exists")
    BY Zenon, <1>4, <2>5, <2>6, <2>7 DEF FitsAt
  <2>9. Fits(old) /\ old.pc \in Places
    BY Zenon, <2>5, <2>7, <2>8, FitsIf
  <2>10. Swaps(me, old, g, me.dp)
    <3>1. \A x, u : B(x, u) \in Nat
      BY Zenon, OwnNat
    <3> QED BY <1>4, <2>7, <3>1, NullPtr DEF Swaps, Own
  <2>11. StateOK(slot', proc')
    BY Zenon, <1>4, <2>0, <2>3, <2>4, <2>9, <2>10, PutGet DEF me
  <2> QED BY Zenon, <1>1, <2>0, <2>11 DEF DiskOK
<1>6. CASE i = 0
  <2>0. "none" # "no inodes"
    OBVIOUS
  <2>1. /\ free # {} /\ disk' = [disk EXCEPT ![new] = inode]
        /\ slot' = Get(slot, new) /\ proc' = [proc EXCEPT ![p] = r]
    BY Zenon, <1>1, <1>6, <2>0
  <2>2. free \in SUBSET Nat
    BY Zenon, Sizes
  <2>3. new \in free
    BY Zenon, <2>1, <2>2, MinIn
  <2>4. new \in Inums
    BY Zenon, <2>3
  <2>5. h \in Slots /\ OneMore(slot, Get(slot, new), h)
    BY Zenon, <1>3, <2>4, GetMore
  <2>6. inode \in [type : Types, nlink : Int]
    BY DEF Types
  <2> HIDE DEF h, me, new, inode
  <2>7. disk' \in Disks
    BY Zenon, <2>1, <2>6 DEF DiskOK, Disks
  <2>8. Fits(r) /\ Takes(me, r, h)
    BY Zenon, <1>2, <1>3, <2>5, TakeIp
  <2>9. StateOK(slot', proc')
    BY Zenon, <2>1, <2>5, <2>8, MoveGet DEF me
  <2> QED BY Zenon, <1>1, <2>7, <2>9 DEF DiskOK, Disks
<1> QED BY Zenon, <1>5, <1>6

LEMMA FillOK ==
  ASSUME StateOK(slot, proc), DiskOK, NEW p \in Procs, Fill(p)
  PROVE  StateOK(slot', proc') /\ DiskOK'
<1> DEFINE me == proc[p]
           dir == me.call = "mkdir"
           n == IF dir THEN 1 ELSE 0
           i == Inum(me.ip)
           d == Inum(me.dp)
           one == SlotNlink(slot, me.ip, 1)
           two == SlotNlink(one, me.dp, n)
           at == IF dir THEN "made" ELSE "commit"
<1>1. /\ me.pc = "fill" /\ disk' = DiskNlink(DiskNlink(disk, me.ip, 1), me.dp, n)
      /\ ents' = [ents EXCEPT
           ![i] = IF dir THEN [@ EXCEPT ![".."] = d] ELSE @,
           ![d] = [@ EXCEPT ![me.name] = i]]
      /\ Put(p, Unlocked(two, me.dp), me.dp, [me EXCEPT !.pc = at, !.dp = 0])
  BY Zenon DEF Fill, At
<1>2. /\ me.pc \in Places \ WalkPcs /\ me.pc \in IpPcs /\ me.pc \in DpPcs
      /\ me.pc \in CreatePcs
  BY <1>1 DEF Places, WalkPcs, IpPcs, DpPcs, CreatePcs
<1>3. HasAt(me, me.pc) /\ SlotsOK(slot)
  BY Zenon, <1>2, PlaceIs
<1>4. /\ me.pc \in Places /\ me.ip # 0 /\ me.ip \in Slots /\ me.cur = 0
      /\ me.dp # 0 /\ me.dp \in Slots /\ me.call \in {"creat", "mkdir"}
  BY Zenon, <1>2, <1>3 DEF HasAt
<1>5. 1 \in Int /\ n \in Int
  OBVIOUS
<1>6. SameRefs(slot, one)
  BY Zenon, <1>3, <1>4, <1>5, NlinkSame
<1>7. SameRefs(slot, two)
  <2> HIDE DEF n, one
  <2> QED BY ZenonT(30), <1>4, <1>5, <1>6, NlinkSame, SameSame DEF SameRefs
<1>8. SameRefs(slot, Unlocked(two, me.dp))
  <2> HIDE DEF two
  <2>1. SlotsOK(two)
    BY Zenon, <1>7 DEF SameRefs
  <2>2. SameRefs(two, Unlocked(two, me.dp))
    BY Zenon, <1>4, <2>1, UnlockedSame
  <2> QED BY Zenon, <1>7, <2>2, SameSame
<1>9. /\ at \in {"commit", "removed", "made", "undo", "entered"}
      /\ at = "commit" => me.call = "creat"
  BY <1>4
<1>10. StateOK(slot', proc')
  <2> HIDE DEF at, two
  <2> QED BY Zenon, <1>1, <1>4, <1>8, <1>9, DropDp
<1>11. disk' \in Disks
  <2>1. DiskNlink(disk, me.ip, 1) \in Disks
    BY Zenon, <1>3, <1>4, <1>5, DiskNlinkIs DEF DiskOK, Disks
  <2> HIDE DEF n
  <2> QED BY Zenon, <1>1, <1>3, <1>4, <1>5, <2>1, DiskNlinkIs
<1>12. i \in 0 .. NINUM /\ d \in 0 .. NINUM
  <2>1. i \in Inums /\ d \in Inums
    BY Zenon, <1>4, InUse DEF Inum
  <2> QED BY <2>1, Sizes DEF Inums
<1>13. ents' \in Dirs
  <2>1. ents \in Dirs
    BY Zenon DEF DiskOK, Dirs
  <2> HIDE DEF me, i, d, dir
  <2> QED BY Zenon, <1>1, <1>12, <2>1 DEF Dirs
<1> QED BY Zenon, <1>10, <1>11, <1>13 DEF DiskOK, Disks, Dirs

LEMMA RemoveOK ==
  ASSUME StateOK(slot, proc), DiskOK, NEW p \in Procs, Remove(p), panic' = "none"
  PROVE  StateOK(slot', proc') /\ DiskOK'
<1> DEFINE me == proc[p]
           n == IF IsDir(me.ip) THEN -1 ELSE 0
           full == IsDir(me.ip) /\ ~IsDirEmpty(me.ip)
           r == [me EXCEPT !.pc = "refuse", !.ip = 0]
           less == SlotNlink(slot, me.dp, n)
<1>0. "none" # "nlink"
  OBVIOUS
<1>1. /\ me.pc = "remove"
      /\ IF full
         THEN /\ Put(p, Unlocked(slot, me.ip), me.ip, r)
              /\ disk' = disk /\ ents' = ents
         ELSE /\ ents' = [ents EXCEPT ![Inum(me.dp)][me.name] = 0]
              /\ disk' = DiskNlink(disk, me.dp, n)
              /\ Put(p, Unlocked(less, me.dp), me.dp, [me EXCEPT !.pc = "removed", !.dp = 0])
  BY Zenon, <1>0 DEF Remove, At
<1>2. me.pc \in Places \ WalkPcs /\ me.pc \in IpPcs /\ me.pc \in DpPcs
  BY <1>1 DEF Places, WalkPcs, IpPcs, DpPcs
<1>3. HasAt(me, me.pc) /\ SlotsOK(slot)
  BY Zenon, <1>2, PlaceIs
<1>4. /\ me.pc \in Places /\ me.ip # 0 /\ me.ip \in Slots /\ me.cur = 0
      /\ me.dp # 0 /\ me.dp \in Slots /\ me \in ProcRec /\ me.victim = 0
      /\ me.name \in Names /\ IsPath(me.to)
  BY Zenon, <1>2, <1>3 DEF HasAt
<1>5. CASE full
  <2>1. SameRefs(slot, Unlocked(slot, me.ip))
    BY Zenon, <1>3, <1>4, UnlockedSame
  <2>2. Put(p, Unlocked(slot, me.ip), me.ip, r) /\ disk' = disk /\ ents' = ents
    BY Zenon, <1>1, <1>5
  <2> HIDE DEF me
  <2>3. /\ "refuse" \in Places /\ "refuse" \notin IpPcs /\ "refuse" \in DpPcs
        /\ "refuse" \notin WalkPcs /\ "refuse" \notin CreatePcs
        /\ "refuse" # "look" /\ "refuse" # "begin"
    BY DEF Places, IpPcs, DpPcs, WalkPcs, CreatePcs
  <2>4. 0 \in Ptrs
    BY Zenon DEF Ptrs
  <2>5. /\ r \in ProcRec /\ r.pc = "refuse" /\ r.victim = 0 /\ r.cur = 0
        /\ r.dp = me.dp /\ r.ip = 0 /\ r.cwd = me.cwd /\ r.file = me.file
        /\ r.to = me.to /\ r.name = me.name
    BY Zenon, <1>4, <2>3, <2>4 DEF ProcRec
  <2> HIDE DEF r
  <2>6. FitsAt(r, "refuse")
    BY Zenon, <1>4, <2>3, <2>5 DEF FitsAt
  <2>7. Fits(r) /\ r.pc \in Places
    BY Zenon, <2>3, <2>5, <2>6, FitsIf
  <2>8. Drops(me, r, me.ip)
    <3>1. \A x, u : B(x, u) \in Nat
      BY Zenon, OwnNat
    <3> QED BY <1>4, <2>5, <3>1, NullPtr DEF Drops, Own
  <2>9. StateOK(slot', proc')
    BY Zenon, <1>4, <2>1, <2>2, <2>7, <2>8, PutSame DEF me
  <2> QED BY Zenon, <2>2, <2>9 DEF DiskOK
<1>6. CASE ~full
  <2>0. /\ ents' = [ents EXCEPT ![Inum(me.dp)][me.name] = 0]
        /\ disk' = DiskNlink(disk, me.dp, n)
        /\ Put(p, Unlocked(less, me.dp), me.dp, [me EXCEPT !.pc = "removed", !.dp = 0])
    BY Zenon, <1>1, <1>6
  <2>1. n \in Int /\ 0 \in 0 .. NINUM
    BY Sizes
  <2> HIDE DEF n
  <2>2. SameRefs(slot, less)
    BY Zenon, <1>3, <1>4, <2>1, NlinkSame
  <2> HIDE DEF less
  <2>3. SlotsOK(less)
    BY Zenon, <2>2 DEF SameRefs
  <2>4. SameRefs(less, Unlocked(less, me.dp))
    BY Zenon, <1>4, <2>3, UnlockedSame
  <2>5. SameRefs(slot, Unlocked(less, me.dp))
    BY Zenon, <2>2, <2>4, SameSame
  <2>6. "removed" \in {"commit", "removed", "made", "undo", "entered"}
        /\ "removed" # "commit"
    OBVIOUS
  <2>7. StateOK(slot', proc')
    BY Zenon, <1>4, <2>0, <2>5, <2>6, DropDp
  <2>8. disk' \in Disks
    BY Zenon, <1>3, <1>4, <2>0, <2>1, DiskNlinkIs DEF DiskOK, Disks
  <2>9. ents' \in Dirs
    <3> HIDE DEF me
    <3> QED BY Zenon, <2>0, <2>1, EntIs DEF DiskOK, Dirs
  <2> QED BY Zenon, <2>7, <2>8, <2>9 DEF DiskOK, Disks, Dirs
<1> QED BY Zenon, <1>5, <1>6

-----------------------------------------------------------------------------

LEMMA InitOK ==
  ASSUME Init
  PROVE  StateOK(slot, proc) /\ DiskOK
<1>1. /\ disk = [i \in Inums |->
           IF Entries(i) = 0 THEN Free
           ELSE [type |-> IF i \in DOMAIN Tree THEN "dir" ELSE "file",
                 nlink |-> Entries(i)]]
      /\ ents = [i \in Inums |-> IF i \in DOMAIN Tree THEN Tree[i] ELSE NoEntries]
      /\ slot = [s \in Slots |->
           IF s = 1 THEN [EmptySlot EXCEPT !.inum = ROOTINO, !.ref = Cardinality(Procs)]
           ELSE EmptySlot]
      /\ proc = [p \in Procs |-> Between(1, 0)]
  BY Zenon DEF Init
<1>2. 1 \in Slots /\ 0 \in 0 .. NINUM /\ 1 \in 0 .. NINUM /\ 0 \in Ptrs
  BY Sizes DEF Slots, Ptrs
<1>3. IsFiniteSet(Procs) /\ Cardinality(Procs) \in Nat
  BY Zenon, InodeAssumption, FS_CardinalityType
<1>4. SlotsOK(slot)
  <2>1. EmptySlot \in SlotRec /\ EmptySlot.ref = 0
    BY <1>2 DEF EmptySlot, SlotRec, Types
  <2> DEFINE root == [EmptySlot EXCEPT !.inum = ROOTINO, !.ref = Cardinality(Procs)]
  <2>2. root \in SlotRec /\ root.inum # 0
    <3> DEFINE n == Cardinality(Procs)
               i == ROOTINO
               e == EmptySlot
    <3>1. /\ n \in Nat /\ i \in 0 .. NINUM /\ e \in SlotRec
          /\ root = [e EXCEPT !.inum = i, !.ref = n]
      BY Zenon, <1>2, <1>3, <2>1 DEF ROOTINO
    <3>2. i # 0
      BY DEF ROOTINO
    <3> HIDE DEF n, i, e, root
    <3> DEFINE f == [e EXCEPT !.inum = i]
    <3>3. f \in SlotRec /\ f.inum = i
      BY <3>1 DEF SlotRec
    <3>4. root = [f EXCEPT !.ref = n]
      BY Zenon, <3>1
    <3> HIDE DEF f
    <3>5. root \in SlotRec /\ root.inum = f.inum
      BY <3>1, <3>3, <3>4 DEF SlotRec
    <3> QED BY Zenon, <3>2, <3>3, <3>5
  <2>3. \A s \in Slots : slot[s] = IF s = 1 THEN root ELSE EmptySlot
    BY Zenon, <1>1
  <2>4. slot \in [Slots -> SlotRec]
    <3> HIDE DEF root
    <3> QED BY Zenon, <1>1, <2>1, <2>2 DEF root
  <2> HIDE DEF root
  <2>5. \A s \in Slots : slot[s].ref > 0 => s = 1
    BY <2>1, <2>3
  <2> QED BY Zenon, <2>2, <2>3, <2>4, <2>5 DEF SlotsOK
<1>5. \A p \in Procs : Idle(proc[p], 1, 0)
  BY Zenon, <1>1, <1>2, QuietIs
<1>6. \A p \in Procs : Fits(proc[p]) /\ proc[p] \in ProcRec
  BY Zenon, <1>5 DEF Idle, Fits
<1>7. proc \in [Procs -> ProcRec]
  <2>1. proc = [p \in Procs |-> proc[p]]
    BY Zenon, <1>1
  <2> QED BY Zenon, <1>6, <2>1
<1>8. RefsOK(slot, proc)
  <2> SUFFICES ASSUME NEW s \in Slots
               PROVE  slot[s].ref = Cardinality(PairsOf(proc, s))
    BY Zenon DEF RefsOK
  <2>1. s # 0 /\ Slots \subseteq Nat
    BY Zenon, Sizes
  <2>2. \A q \in Procs : \A k \in 1 .. 6 :
          Ptr(proc[q])[k] = IF k = 1 THEN 1 ELSE 0
    <3> SUFFICES ASSUME NEW q \in Procs, NEW k \in 1 .. 6
                 PROVE  Ptr(proc[q])[k] = IF k = 1 THEN 1 ELSE 0
      BY Zenon
    <3>1. /\ proc[q].cwd = 1 /\ proc[q].file = 0 /\ proc[q].cur = 0
          /\ proc[q].ip = 0 /\ proc[q].dp = 0 /\ proc[q].victim = 0
      BY Zenon, <1>5 DEF Idle
    <3> QED BY <3>1, PtrIs
  <2>3. CASE s = 1
    <3>1. PairsOf(proc, s) = Procs \X {1}
      BY <2>2, <2>3 DEF PairsOf
    <3>2. IsFiniteSet({1}) /\ Cardinality({1}) = 1
      BY Zenon, FS_Singleton
    <3>3. Cardinality(Procs \X {1}) = Cardinality(Procs) * Cardinality({1})
      BY Zenon, <1>3, <3>2, FS_Product
    <3>4. slot[s].ref = Cardinality(Procs)
      BY Zenon, <1>1, <2>3 DEF EmptySlot
    <3> QED BY <1>3, <3>1, <3>2, <3>3, <3>4
  <2>4. CASE s # 1
    <3>1. PairsOf(proc, s) = {}
      BY <2>1, <2>2, <2>4 DEF PairsOf
    <3>2. slot[s].ref = 0
      BY <1>1, <2>4 DEF EmptySlot
    <3> QED BY Zenon, <3>1, <3>2, FS_EmptySet
  <2> QED BY Zenon, <2>3, <2>4
<1>9. DiskOK
  <2>1. \A i : Entries(i) \in Nat
    <3>1. IsFiniteSet(1 .. NINUM)
      <4>1. 1 \in Int /\ NINUM \in Int
        BY Sizes
      <4> QED BY Zenon, <4>1, FS_Interval
    <3>2. IsFiniteSet(DOMAIN Tree) /\ IsFiniteSet(Names)
      BY Zenon, <3>1, FS_Subset, InodeAssumption
    <3>3. IsFiniteSet((DOMAIN Tree) \X Names)
      BY Zenon, <3>2, FS_Product
    <3> QED BY Zenon, <3>3, FS_Subset, FS_CardinalityType DEF Entries
  <2>2. disk \in Disks
    BY <1>1, <2>1 DEF Disks, Types, Free
  <2>3. ents \in Dirs
    <3>1. NoEntries \in [Names -> 0 .. NINUM]
      BY Zenon, <1>2 DEF NoEntries
    <3>2. \A i \in DOMAIN Tree : Tree[i] \in [Names -> 0 .. NINUM]
      BY Zenon, InodeAssumption
    <3> QED BY Zenon, <1>1, <3>1, <3>2 DEF Dirs
  <2> QED BY Zenon, <2>2, <2>3 DEF DiskOK, Disks, Dirs
<1> QED BY Zenon, <1>4, <1>6, <1>7, <1>8, <1>9 DEF StateOK

LEMMA StepOK ==
  ASSUME StateOK(slot, proc), DiskOK, Next, panic' = "none"
  PROVE  StateOK(slot', proc') /\ DiskOK'
<1>1. ASSUME NEW p \in Procs, Step(p) PROVE StateOK(slot', proc') /\ DiskOK'
  <2>1. CASE InodeLock(p)
    BY Zenon, <2>1, LockOK
  <2>2. CASE InodeFree(p)
    BY Zenon, <2>2, FreeOK
  <2>3. CASE BeginTrans(p)
    BY Zenon, <2>3, BeginOK
  <2>4. CASE CommitTrans(p)
    BY Zenon, <2>4, CommitOK
  <2>5. CASE WalkEnd(p)
    BY Zenon, <2>5, WalkEndOK
  <2>6. CASE WalkStep(p)
    BY Zenon, <2>6, WalkStepOK
  <2>7. CASE FileClose(p) \/ Entered(p)
    BY Zenon, <2>7, FileCloseOK
  <2>8. CASE Open(p)
    BY Zenon, <2>8, OpenOK
  <2>9. CASE Chdir(p)
    BY Zenon, <2>9, ChdirOK
  <2>10. CASE Create(p)
    BY Zenon, <2>10, CreateOK
  <2>11. CASE Existing(p)
    BY Zenon, <2>11, ExistingOK
  <2>12. CASE Fill(p)
    BY Zenon, <2>12, FillOK
  <2>13. CASE Made(p)
    BY Zenon, <2>13, MadeOK
  <2>14. CASE Find(p)
    BY Zenon, <2>14, FindOK
  <2>15. CASE Remove(p)
    BY Zenon, <2>15, RemoveOK
  <2>16. CASE Refuse(p)
    BY Zenon, <2>16, RefuseOK
  <2>17. CASE Unlinked(p)
    BY Zenon, <2>17, UnlinkedOK
  <2>18. CASE Count(p)
    BY Zenon, <2>18, CountOK
  <2>19. CASE Counted(p)
    BY Zenon, <2>19, CountedOK
  <2>20. CASE Enter(p)
    BY Zenon, <2>20, EnterOK
  <2> QED
    BY Zenon, <1>1, <2>1, <2>2, <2>3, <2>4, <2>5, <2>6, <2>7, <2>8, <2>9, <2>10,
       <2>11, <2>12, <2>13, <2>14, <2>15, <2>16, <2>17, <2>18, <2>19, <2>20 DEF Step
<1>2. ASSUME NEW p \in Procs, \E c \in Calls : Call(p, c[1], c[2], c[3])
      PROVE  StateOK(slot', proc') /\ DiskOK'
  BY Zenon, <1>2, CallOK
<1>3. ASSUME NEW p \in Procs, CallClose(p) PROVE StateOK(slot', proc') /\ DiskOK'
  BY Zenon, <1>3, CallCloseOK
<1>4. CASE Stopped
  BY Zenon, <1>4 DEF Stopped, vars, DiskOK
<1> QED BY Zenon, <1>1, <1>2, <1>3, <1>4 DEF Next

(* The kernel does not start again.                                         *)
LEMMA StillRunning ==
  ASSUME Next
  PROVE  panic' = "none" => panic = "none"
<1>1. \/ \E p \in Procs : Step(p) \/ CallClose(p) \/ \E c \in Calls : Call(p, c[1], c[2], c[3])
      \/ Stopped
  BY Zenon DEF Next
<1>2. ASSUME NEW p \in Procs, Step(p) PROVE panic = "none"
  BY Zenon, <1>2 DEF Step, At, InodeLock, InodeFree, BeginTrans, CommitTrans,
     WalkEnd, WalkStep, FileClose, Open, Chdir, Create, Existing, Fill, Made, Find,
     Remove, Refuse, Unlinked, Count, Counted, Enter, Entered
<1> QED BY Zenon, <1>1, <1>2 DEF CallClose, Call, At, Stopped, vars

LEMMA IInvHolds == Spec => []IInv
<1>1. Init => IInv
  BY Zenon, InitOK DEF IInv
<1>2. IInv /\ [Next]_vars => IInv'
  <2> SUFFICES ASSUME IInv, [Next]_vars, panic' = "none"
               PROVE  StateOK(slot', proc') /\ DiskOK'
    BY Zenon DEF IInv, StateOK, SlotsOK, RefsOK
  <2>1. CASE Next
    <3>1. StateOK(slot, proc) /\ DiskOK
      BY Zenon, <2>1, StillRunning DEF IInv
    <3> QED BY Zenon, <2>1, <3>1, StepOK
  <2>2. CASE UNCHANGED vars
    BY Zenon, <2>2 DEF vars, IInv, DiskOK
  <2> QED BY Zenon, <2>1, <2>2
<1> QED BY <1>1, <1>2, PTL DEF Spec

(* Every slot of the inode cache counts exactly the pointers to it that     *)
(* working directories, open files and calls in progress hold, and no inode *)
(* has two slots in use, on every path of open, creat, chdir, mkdir, link,  *)
(* unlink and close, with the walk of path.c and the freeing in inode_put,  *)
(* for any number of processes and any tree.                                *)
THEOREM ReferencesHeld == Spec => []RefsHeld
<1>1. IInv => RefsHeld
  <2> SUFFICES ASSUME IInv, panic = "none"
               PROVE  /\ \A s \in Slots : slot[s].ref =
                           Cardinality({x \in Procs \X (1 .. 6) : Pointers(x[1])[x[2]] = s})
                      /\ \A s, u \in Slots :
                           slot[s].ref > 0 /\ slot[u].ref > 0 /\ slot[s].inum = slot[u].inum
                             => s = u
    BY Zenon DEF RefsHeld
  <2>1. SlotsOK(slot) /\ RefsOK(slot, proc)
    BY Zenon DEF IInv, StateOK
  <2>2. \A s : PairsOf(proc, s) = {x \in Procs \X (1 .. 6) : Pointers(x[1])[x[2]] = s}
    BY Zenon DEF PairsOf, Ptr, Pointers
  <2> QED BY Zenon, <2>1, <2>2 DEF SlotsOK, RefsOK
<1> QED BY <1>1, IInvHolds, PTL
=============================================================================
