--------------------------- MODULE FileTableProofs ---------------------------
(***************************************************************************)
(* Proofs about FileTable, for any finite set of processes and any sizes   *)
(* of the descriptor tables, the file table and the pipe cache.            *)
(***************************************************************************)
EXTENDS FileTable, FiniteSetTheorems, TLAPS

(* Refs and EndFiles, of tables that an operation has not yet finished.     *)
RefsOf(fd, cl, f) == {x \in Procs \X Fds : fd[x[1]][x[2]] = f /\ cl[x[1]] # x[2]}

IsEnd(r, i, w) == /\ r.ref > 0 /\ r.type = "PIPE"
                  /\ r.pipe = i /\ r.writable = w

EndsOf(ft, i, w) == {f \in Files : IsEnd(ft[f], i, w)}

PipeRec == [ref : {0, 2}, readopen : BOOLEAN, writeopen : BOOLEAN]

(* A file in use has a type that file_read, file_write and file_close know, *)
(* and a pipe's file has a pipe.                                            *)
RecOK(r) ==
  r.ref > 0 =>
    /\ r.type # "NONE"
    /\ r.type = "PIPE" => r.pipe \in Pipes
    /\ r.readable => r.type \in {"PIPE", "CONSOLE_IN", "INODE"}
    /\ r.writable => r.type \in {"PIPE", "CONSOLE_OUT", "INODE"}

Tables == [Procs -> [Fds -> Files \cup {NoFile}]]

Counted(ft, fd, cl) ==
  /\ ft \in [Files -> FileRec]
  /\ fd \in Tables
  /\ \A f \in Files : RecOK(ft[f]) /\ ft[f].ref = Cardinality(RefsOf(fd, cl, f))

(* PipeEnds without its cardinalities.                                      *)
EndsOK(ft, ps) ==
  \A i \in Pipes :
    /\ ps[i].readopen <=> EndsOf(ft, i, FALSE) # {}
    /\ ps[i].writeopen <=> EndsOf(ft, i, TRUE) # {}
    /\ \A w \in BOOLEAN : \A f, g \in EndsOf(ft, i, w) : f = g
    /\ ps[i].ref = 0 <=> ~ps[i].readopen /\ ~ps[i].writeopen

(* Only a process inside file_close, or one killed there, has a descriptor  *)
(* whose reference is gone; one that was never started has none at all.     *)
PlacesOK ==
  \A p \in Procs :
    /\ pc[p] \in {"unborn", "user", "exit"} => closing[p] = NoFd
    /\ pc[p] = "unborn" => \A d \in Fds : fds[p][d] = NoFile

Pcs == {"unborn", "user", "closing", "exit", "exitclosing", "dead"}

(* TypeOK is here too: Counted has the types of the two tables.             *)
FInv ==
  /\ Counted(ftable, fds, closing)
  /\ EndsOK(ftable, pipes)
  /\ pipes \in [Pipes -> PipeRec]
  /\ pc \in [Procs -> Pcs]
  /\ closing \in [Procs -> Fds \cup {NoFd}]
  /\ panicked = FALSE
  /\ PlacesOK

-----------------------------------------------------------------------------
(* The tables.                                                              *)

LEMMA Slots ==
  /\ NOFILE \in Nat /\ NFILE \in Nat /\ NPIPE \in Nat
  /\ NoFile \notin Files /\ NoFd \notin Fds /\ NoPipe \notin Pipes
  /\ Files \subseteq Nat /\ Fds \subseteq Nat /\ Pipes \subseteq Nat
  BY FileAssumption DEF NoFile, NoFd, NoPipe, Files, Fds, Pipes

(* The scans of file_alloc, fd_alloc and pipe_alloc find a slot of the set  *)
(* they look for, unless there is none.                                     *)
LEMMA FirstFound ==
  ASSUME NEW S \in SUBSET Nat, NEW none
  PROVE  IF S = {} THEN First(S, none) = none ELSE First(S, none) \in S
<1>1. CASE S = {}
  BY Zenon, <1>1 DEF First
<1>2. CASE S # {}
  <2>1. PICK x \in S : \A y \in S : ~(<<y, x>> \in OpToRel(<, Nat))
    BY Zenon, <1>2, WFMin, NatLessThanWellFounded
  <2>2. ASSUME NEW y \in S PROVE x <= y
    <3>1. ~(y < x)
      BY Zenon, <2>1 DEF OpToRel
    <3> QED
      BY <3>1
  <2>3. \E i \in S : \A j \in S : i <= j
    BY Zenon, <2>2
  <2> QED
    BY Zenon, <1>2, <2>3 DEF First
<1> QED
  BY Zenon, <1>1, <1>2

LEMMA FreeFileFound ==
  ASSUME NEW ft, NEW f, f = FreeFile(ft), f # NoFile
  PROVE  f \in Files /\ ft[f].ref = 0
<1> DEFINE S == {g \in Files : ft[g].ref = 0}
<1>1. S \in SUBSET Nat
  BY Zenon, Slots
<1>2. f \in S
  BY Zenon, <1>1, FirstFound DEF FreeFile
<1> QED
  BY Zenon, <1>2

LEMMA FreeFdFound ==
  ASSUME NEW fs, NEW d, d = FreeFd(fs), d # NoFd
  PROVE  d \in Fds /\ fs[d] = NoFile
<1> DEFINE S == {e \in Fds : fs[e] = NoFile}
<1>1. S \in SUBSET Nat
  BY Zenon, Slots
<1>2. d \in S
  BY Zenon, <1>1, FirstFound DEF FreeFd
<1> QED
  BY Zenon, <1>2

LEMMA FreePipeFound ==
  ASSUME NEW i, i = FreePipe, i # NoPipe
  PROVE  i \in Pipes /\ pipes[i].ref = 0
<1> DEFINE S == {j \in Pipes : pipes[j].ref = 0}
<1>1. S \in SUBSET Nat
  BY Zenon, Slots
<1>2. i \in S
  BY Zenon, <1>1, FirstFound DEF FreePipe
<1> QED
  BY Zenon, <1>2

LEMMA SlotSet ==
  ASSUME NEW fd \in Tables, NEW p \in Procs, NEW d, NEW v \in Files \cup {NoFile}
  PROVE  /\ [fd EXCEPT ![p][d] = v] \in Tables
         /\ \A q \in Procs, e \in Fds :
              [fd EXCEPT ![p][d] = v][q][e]
                = IF q = p /\ e = d THEN v ELSE fd[q][e]
  BY Zenon DEF Tables

LEMMA RefsFinite ==
  ASSUME NEW fd, NEW cl, NEW f
  PROVE  IsFiniteSet(RefsOf(fd, cl, f))
<1>1. IsFiniteSet(Fds)
  BY FS_Interval, FileAssumption DEF Fds
<1>2. IsFiniteSet(Procs \X Fds)
  BY Zenon, <1>1, FS_Product, FileAssumption
<1>3. RefsOf(fd, cl, f) \in SUBSET (Procs \X Fds)
  BY Zenon DEF RefsOf
<1> QED
  BY Zenon, <1>2, <1>3, FS_Subset

(* A descriptor that counts holds its file in use.                          *)
LEMMA HeldInUse ==
  ASSUME NEW ft, NEW fd, NEW cl, Counted(ft, fd, cl),
         NEW p \in Procs, NEW d \in Fds, cl[p] # d, fd[p][d] \in Files
  PROVE  ft[fd[p][d]].ref > 0
<1> DEFINE f == fd[p][d]
<1>1. <<p, d>> \in RefsOf(fd, cl, f)
  BY Zenon DEF RefsOf
<1>2. Cardinality(RefsOf(fd, cl, f)) # 0
  BY Zenon, <1>1, RefsFinite, FS_EmptySet
<1>3. ft[f].ref = Cardinality(RefsOf(fd, cl, f)) /\ ft[f].ref \in Nat
  BY Zenon DEF Counted, FileRec
<1> QED
  BY <1>2, <1>3

(* A new file in a free slot, or file_dup, and the descriptor that counts.  *)
LEMMA GiveFile ==
  ASSUME NEW ft, NEW fd, NEW cl, Counted(ft, fd, cl),
         NEW p \in Procs, NEW d \in Fds, fd[p][d] = NoFile, cl[p] # d,
         NEW f \in Files, NEW r \in FileRec, RecOK(r), r.ref = ft[f].ref + 1
  PROVE  Counted([ft EXCEPT ![f] = r], [fd EXCEPT ![p][d] = f], cl)
<1> DEFINE ft2 == [ft EXCEPT ![f] = r]
           fd2 == [fd EXCEPT ![p][d] = f]
<1>t. ft \in [Files -> FileRec] /\ fd \in Tables
  BY Zenon DEF Counted
<1>1. ft2 \in [Files -> FileRec] /\ fd2 \in Tables
  BY Zenon, <1>t, SlotSet
<1>2. \A q \in Procs, e \in Fds :
        fd2[q][e] = IF q = p /\ e = d THEN f ELSE fd[q][e]
  BY Zenon, <1>t DEF Tables
<1> HIDE DEF fd2
<1>3. ASSUME NEW g \in Files
      PROVE  RecOK(ft2[g]) /\ ft2[g].ref = Cardinality(RefsOf(fd2, cl, g))
  <2>0. RecOK(ft[g]) /\ ft[g].ref = Cardinality(RefsOf(fd, cl, g))
    BY Zenon DEF Counted
  <2>1. CASE g = f
    <3>1. <<p, d>> \notin RefsOf(fd, cl, f)
      BY Zenon, Slots DEF RefsOf
    <3>2. RefsOf(fd2, cl, f) = RefsOf(fd, cl, f) \cup {<<p, d>>}
      <4>1. ASSUME NEW q \in Procs, NEW e \in Fds
            PROVE  <<q, e>> \in RefsOf(fd2, cl, f)
                     <=> <<q, e>> \in RefsOf(fd, cl, f) \/ (q = p /\ e = d)
        BY Zenon, <1>2 DEF RefsOf
      <4> QED
        BY SMTT(30), <4>1 DEF RefsOf
    <3>3. Cardinality(RefsOf(fd2, cl, f)) = Cardinality(RefsOf(fd, cl, f)) + 1
      BY Zenon, <3>1, <3>2, RefsFinite, FS_AddElement
    <3>4. ft2[g] = r
      BY Zenon, <2>1, <1>t
    <3> QED
      BY Zenon, <2>0, <2>1, <3>3, <3>4
  <2>2. CASE g # f
    <3>1. RefsOf(fd2, cl, g) = RefsOf(fd, cl, g)
      <4>1. ASSUME NEW q \in Procs, NEW e \in Fds
            PROVE  fd2[q][e] = g <=> fd[q][e] = g
        BY Zenon, <1>2, <2>2, Slots
      <4> QED
        BY SMTT(30), <4>1 DEF RefsOf
    <3>2. ft2[g] = ft[g]
      BY Zenon, <2>2, <1>t
    <3> QED
      BY Zenon, <2>0, <3>1, <3>2
  <2> QED
    BY Zenon, <2>1, <2>2
<1> QED
  BY Zenon, <1>1, <1>3 DEF Counted, fd2

(* file_close: the descriptor is cleared, or counts no more while its       *)
(* process sleeps in the transaction.                                       *)
LEMMA DropFile ==
  ASSUME NEW ft, NEW fd, NEW cl, Counted(ft, fd, cl),
         NEW p \in Procs, NEW d \in Fds, cl[p] # d,
         NEW f \in Files, fd[p][d] = f,
         NEW fd2 \in Tables, NEW cl2,
         \A q \in Procs, e \in Fds : q # p \/ e # d =>
           fd2[q][e] = fd[q][e] /\ (cl2[q] = e <=> cl[q] = e),
         fd2[p][d] = NoFile \/ cl2[p] = d
  PROVE  Counted(Unref(ft, f), fd2, cl2)
<1> DEFINE ft2 == Unref(ft, f)
<1>t. /\ ft \in [Files -> FileRec]
      /\ ft[f].ref \in Nat /\ ft[f].ref > 0
      /\ ft[f].ref = Cardinality(RefsOf(fd, cl, f))
  <2>1. ft[fd[p][d]].ref > 0
    BY Zenon, HeldInUse
  <2> QED
    BY Zenon, <2>1 DEF Counted, FileRec
<1>n. NoRec \in FileRec /\ NoRec.ref = 0
  BY Slots DEF NoRec, FileRec, Types
<1>1. /\ ft2 \in [Files -> FileRec]
      /\ ft2[f].ref = ft[f].ref - 1
      /\ \A g \in Files \ {f} : ft2[g] = ft[g]
      /\ RecOK(ft[f]) => RecOK(ft2[f])
  <2>1. CASE ft[f].ref > 1
    <3> DEFINE r == [ft[f] EXCEPT !.ref = @ - 1]
    <3>1. ft2 = [ft EXCEPT ![f] = r]
      BY Zenon, <2>1 DEF Unref
    <3>2. r \in FileRec /\ r.ref = ft[f].ref - 1
          /\ r.type = ft[f].type /\ r.pipe = ft[f].pipe
          /\ r.readable = ft[f].readable /\ r.writable = ft[f].writable
      BY SMTT(30), <2>1, <1>t DEF FileRec
    <3>3. RecOK(ft[f]) => RecOK(r)
      BY Zenon, <3>2, <1>t DEF RecOK
    <3> HIDE DEF ft2, r
    <3> QED
      BY Zenon, <3>1, <3>2, <3>3, <1>t
  <2>2. CASE ~(ft[f].ref > 1)
    <3>1. ft2 = [ft EXCEPT ![f] = NoRec]
      BY Zenon, <2>2 DEF Unref
    <3>2. ft[f].ref - 1 = 0
      BY <2>2, <1>t
    <3>3. RecOK(NoRec)
      BY <1>n DEF RecOK
    <3> HIDE DEF ft2
    <3> QED
      BY Zenon, <3>1, <3>2, <3>3, <1>n, <1>t
  <2> QED
    BY Zenon, <2>1, <2>2
<1> HIDE DEF ft2
<1>2. ASSUME NEW g \in Files
      PROVE  RecOK(ft2[g]) /\ ft2[g].ref = Cardinality(RefsOf(fd2, cl2, g))
  <2>0. RecOK(ft[g]) /\ ft[g].ref = Cardinality(RefsOf(fd, cl, g))
    BY Zenon DEF Counted
  <2>1. CASE g = f
    <3>1. <<p, d>> \in RefsOf(fd, cl, f)
      BY Zenon DEF RefsOf
    <3>2. RefsOf(fd2, cl2, f) = RefsOf(fd, cl, f) \ {<<p, d>>}
      <4>1. ASSUME NEW q \in Procs, NEW e \in Fds
            PROVE  <<q, e>> \in RefsOf(fd2, cl2, f)
                     <=> <<q, e>> \in RefsOf(fd, cl, f) /\ ~(q = p /\ e = d)
        <5>1. CASE q = p /\ e = d
          BY Zenon, <5>1, Slots DEF RefsOf
        <5>2. CASE q # p \/ e # d
          BY ZenonT(30), <5>2 DEF RefsOf
        <5> QED
          BY Zenon, <5>1, <5>2
      <4> QED
        BY SMTT(30), <4>1 DEF RefsOf
    <3>3. Cardinality(RefsOf(fd2, cl2, f)) = Cardinality(RefsOf(fd, cl, f)) - 1
      <4> DEFINE S == RefsOf(fd, cl, f)
      <4>1. IsFiniteSet(S) /\ <<p, d>> \in S
        BY Zenon, <3>1, RefsFinite
      <4> HIDE DEF S
      <4>2. Cardinality(S \ {<<p, d>>}) = Cardinality(S) - 1
        BY Zenon, <4>1, FS_RemoveElement
      <4> QED
        BY Zenon, <3>2, <4>2 DEF S
    <3> QED
      BY Zenon, <2>0, <2>1, <3>3, <1>1, <1>t
  <2>2. CASE g # f
    <3>1. RefsOf(fd2, cl2, g) = RefsOf(fd, cl, g)
      <4>1. ASSUME NEW q \in Procs, NEW e \in Fds
            PROVE  fd2[q][e] = g /\ cl2[q] # e <=> fd[q][e] = g /\ cl[q] # e
        <5>0. fd[p][d] # g /\ (fd2[p][d] # g \/ cl2[p] = d)
          BY SMT, <2>2, Slots
        <5>1. CASE q = p /\ e = d
          BY Zenon, <5>0, <5>1
        <5>2. CASE q # p \/ e # d
          BY Zenon, <5>2
        <5> QED
          BY Zenon, <5>1, <5>2
      <4> QED
        BY SMTT(30), <4>1 DEF RefsOf
    <3> QED
      BY Zenon, <2>0, <2>2, <3>1, <1>1
  <2> QED
    BY Zenon, <2>1, <2>2
<1> QED
  BY Zenon, <1>1, <1>2 DEF Counted, ft2
-----------------------------------------------------------------------------
(* The ends of the pipes.                                                   *)

LEMMA EndsFrame ==
  ASSUME NEW ft, NEW ft2, NEW ps, EndsOK(ft, ps),
         \A f \in Files, i \in Pipes, w \in BOOLEAN :
           IsEnd(ft2[f], i, w) <=> IsEnd(ft[f], i, w)
  PROVE  EndsOK(ft2, ps)
<1>1. ASSUME NEW i \in Pipes, NEW w \in BOOLEAN
      PROVE  EndsOf(ft2, i, w) = EndsOf(ft, i, w)
  BY Zenon DEF EndsOf
<1>2. ASSUME NEW i \in Pipes
      PROVE  /\ EndsOf(ft2, i, TRUE) = EndsOf(ft, i, TRUE)
             /\ EndsOf(ft2, i, FALSE) = EndsOf(ft, i, FALSE)
  BY Zenon, <1>1
<1>3. ASSUME NEW i \in Pipes
      PROVE  /\ ps[i].readopen <=> EndsOf(ft2, i, FALSE) # {}
             /\ ps[i].writeopen <=> EndsOf(ft2, i, TRUE) # {}
             /\ \A w \in BOOLEAN : \A f, g \in EndsOf(ft2, i, w) : f = g
             /\ ps[i].ref = 0 <=> ~ps[i].readopen /\ ~ps[i].writeopen
  <2>0. /\ ps[i].readopen <=> EndsOf(ft, i, FALSE) # {}
        /\ ps[i].writeopen <=> EndsOf(ft, i, TRUE) # {}
        /\ \A w \in BOOLEAN : \A f, g \in EndsOf(ft, i, w) : f = g
        /\ ps[i].ref = 0 <=> ~ps[i].readopen /\ ~ps[i].writeopen
    BY Zenon DEF EndsOK
  <2> QED
    BY Zenon, <2>0, <1>1, <1>2
<1> QED
  BY Zenon, <1>3 DEF EndsOK

(* The last reference of an end goes, and the end with it.                  *)
LEMMA EndsClose ==
  ASSUME NEW ft \in [Files -> FileRec], NEW ps \in [Pipes -> PipeRec],
         EndsOK(ft, ps),
         NEW f \in Files, ft[f].ref = 1, ft[f].type = "PIPE",
         NEW i \in Pipes, i = ft[f].pipe, NEW w \in BOOLEAN, w = ft[f].writable
  PROVE  /\ PipeClose(ps, i, w) \in [Pipes -> PipeRec]
         /\ EndsOK([ft EXCEPT ![f] = NoRec], PipeClose(ps, i, w))
<1> DEFINE ft2 == [ft EXCEPT ![f] = NoRec]
           q == IF w THEN [ps[i] EXCEPT !.writeopen = FALSE]
                     ELSE [ps[i] EXCEPT !.readopen = FALSE]
           r == IF q.readopen \/ q.writeopen THEN q ELSE [q EXCEPT !.ref = 0]
           ps2 == [ps EXCEPT ![i] = r]
<1>1. PipeClose(ps, i, w) = ps2
  BY Zenon DEF PipeClose
<1>2. ps[i] \in PipeRec
  OBVIOUS
<1>3. /\ r \in PipeRec
      /\ r.writeopen = (~w /\ ps[i].writeopen)
      /\ r.readopen = (w /\ ps[i].readopen)
      /\ r.ref = IF r.readopen \/ r.writeopen THEN ps[i].ref ELSE 0
  <2> DEFINE x == ps[i]
  <2>1. /\ x = [ref |-> x.ref, readopen |-> x.readopen, writeopen |-> x.writeopen]
        /\ x.ref \in {0, 2} /\ x.readopen \in BOOLEAN /\ x.writeopen \in BOOLEAN
    BY Zenon, <1>2 DEF PipeRec
  <2>2. /\ q = [ref |-> x.ref, readopen |-> w /\ x.readopen,
                writeopen |-> ~w /\ x.writeopen]
    <3>1. CASE w = TRUE
      BY Zenon, <2>1, <3>1
    <3>2. CASE w = FALSE
      BY Zenon, <2>1, <3>2
    <3> QED
      BY Zenon, <3>1, <3>2
  <2> HIDE DEF q, x
  <2>3. r = [ref |-> IF q.readopen \/ q.writeopen THEN x.ref ELSE 0,
             readopen |-> q.readopen, writeopen |-> q.writeopen]
    BY Zenon, <2>2
  <2>4. /\ q.readopen = (w /\ x.readopen) /\ q.writeopen = (~w /\ x.writeopen)
    BY Zenon, <2>2
  <2>5. (IF q.readopen \/ q.writeopen THEN x.ref ELSE 0) \in {0, 2}
    BY Zenon, <2>1
  <2>6. q.readopen \in BOOLEAN /\ q.writeopen \in BOOLEAN
    BY Zenon, <2>4
  <2> HIDE DEF r
  <2>7. r \in PipeRec
    BY Zenon, <2>3, <2>5, <2>6 DEF PipeRec
  <2>8. r.readopen = q.readopen /\ r.writeopen = q.writeopen
        /\ r.ref = IF q.readopen \/ q.writeopen THEN x.ref ELSE 0
    BY Zenon, <2>3
  <2> QED
    BY Zenon, <2>4, <2>7, <2>8 DEF x
<1>4. ps2 \in [Pipes -> PipeRec] /\ ps2[i] = r /\ \A j \in Pipes \ {i} : ps2[j] = ps[j]
  BY Zenon, <1>3
<1>5. ~(NoRec.ref > 0) /\ ft[f].ref > 0
  BY DEF NoRec
<1>6. ASSUME NEW j \in Pipes, NEW v \in BOOLEAN
      PROVE  EndsOf(ft2, j, v) = EndsOf(ft, j, v) \ {f}
  <2>1. ASSUME NEW g \in Files PROVE g \in EndsOf(ft2, j, v) <=> g \in EndsOf(ft, j, v) /\ g # f
    BY Zenon, <1>5 DEF EndsOf, IsEnd
  <2> QED
    BY Zenon, <2>1 DEF EndsOf
<1>7. f \in EndsOf(ft, i, w) /\ \A j \in Pipes, v \in BOOLEAN :
         j # i \/ v # w => f \notin EndsOf(ft, j, v)
  BY Zenon, <1>5 DEF EndsOf, IsEnd
<1>8. EndsOf(ft2, i, w) = {}
  <2>1. \A g, h \in EndsOf(ft, i, w) : g = h
    BY Zenon DEF EndsOK
  <2>2. EndsOf(ft2, i, w) = EndsOf(ft, i, w) \ {f} /\ f \in EndsOf(ft, i, w)
    BY Zenon, <1>6, <1>7
  <2> HIDE DEF ft2
  <2> QED
    BY Zenon, <2>1, <2>2
<1>9. ASSUME NEW j \in Pipes, NEW v \in BOOLEAN, j # i \/ v # w
      PROVE  EndsOf(ft2, j, v) = EndsOf(ft, j, v)
  <2>1. EndsOf(ft2, j, v) = EndsOf(ft, j, v) \ {f} /\ f \notin EndsOf(ft, j, v)
    BY Zenon, <1>6, <1>7, <1>9
  <2> HIDE DEF ft2
  <2> QED
    BY Zenon, <2>1
<1> HIDE DEF ft2, ps2, r, q
<1>10. ASSUME NEW j \in Pipes
       PROVE  /\ ps2[j].readopen <=> EndsOf(ft2, j, FALSE) # {}
              /\ ps2[j].writeopen <=> EndsOf(ft2, j, TRUE) # {}
              /\ \A v \in BOOLEAN : \A g, h \in EndsOf(ft2, j, v) : g = h
              /\ ps2[j].ref = 0 <=> ~ps2[j].readopen /\ ~ps2[j].writeopen
  <2>0. /\ ps[j].readopen <=> EndsOf(ft, j, FALSE) # {}
        /\ ps[j].writeopen <=> EndsOf(ft, j, TRUE) # {}
        /\ \A v \in BOOLEAN : \A g, h \in EndsOf(ft, j, v) : g = h
        /\ ps[j].ref = 0 <=> ~ps[j].readopen /\ ~ps[j].writeopen
    BY Zenon DEF EndsOK
  <2>1. CASE j # i
    BY Zenon, <2>0, <2>1, <1>4, <1>9
  <2>2. CASE j = i
    <3>1. \A v \in BOOLEAN : \A g, h \in EndsOf(ft2, j, v) : g = h
      <4> SUFFICES ASSUME NEW v \in BOOLEAN
                   PROVE  \A g, h \in EndsOf(ft2, i, v) : g = h
        BY Zenon, <2>2
      <4>1. CASE v = w
        BY Zenon, <4>1, <1>8
      <4>2. CASE v # w
        BY ZenonT(30), <4>2, <2>0, <2>2, <1>9
      <4> QED
        BY Zenon, <4>1, <4>2
    <3>2. CASE w = TRUE
      BY Zenon, <2>0, <2>2, <3>1, <3>2, <1>3, <1>4, <1>8, <1>9
    <3>3. CASE w = FALSE
      BY Zenon, <2>0, <2>2, <3>1, <3>3, <1>3, <1>4, <1>8, <1>9
    <3> QED
      BY Zenon, <3>2, <3>3
  <2> QED
    BY Zenon, <2>1, <2>2
<1>11. EndsOK(ft2, ps2)
  BY Zenon, <1>10 DEF EndsOK
<1> QED
  BY Zenon, <1>1, <1>4, <1>11 DEF ft2

TwoEnds(a, b, i) ==
  \A j \in Pipes, v \in BOOLEAN : /\ IsEnd(a, j, v) <=> j = i /\ v = FALSE
                                  /\ IsEnd(b, j, v) <=> j = i /\ v = TRUE

Unopened(ft, ps, i, f, g) ==
  /\ ft \in [Files -> FileRec] /\ ps \in [Pipes -> PipeRec] /\ EndsOK(ft, ps)
  /\ i \in Pipes /\ ps[i].ref = 0
  /\ f \in Files /\ g \in Files /\ f # g /\ ft[f].ref = 0 /\ ft[g].ref = 0

(* sys_pipe: two free files become the ends of a free pipe.                 *)
LEMMA EndsOpen ==
  ASSUME NEW ft, NEW ps, NEW i, NEW f, NEW g, NEW a, NEW b,
         Unopened(ft, ps, i, f, g), TwoEnds(a, b, i)
  PROVE  EndsOK([[ft EXCEPT ![f] = a] EXCEPT ![g] = b],
                [ps EXCEPT ![i] = [ref |-> 2, readopen |-> TRUE,
                                   writeopen |-> TRUE]])
<1> USE DEF TwoEnds, Unopened
<1> DEFINE ft2 == [[ft EXCEPT ![f] = a] EXCEPT ![g] = b]
           r == [ref |-> 2, readopen |-> TRUE, writeopen |-> TRUE]
           ps2 == [ps EXCEPT ![i] = r]
<1>1. /\ ft2[f] = a /\ ft2[g] = b
      /\ \A h \in Files : h # f /\ h # g => ft2[h] = ft[h]
      /\ ps2[i] = r /\ \A j \in Pipes : j # i => ps2[j] = ps[j]
  BY Zenon
<1>r. r.ref # 0 /\ r.readopen /\ r.writeopen
  OBVIOUS
<1>2. ~(ft[f].ref > 0) /\ ~(ft[g].ref > 0)
  OBVIOUS
<1> HIDE DEF ft2, ps2, r
<1>3. ASSUME NEW v \in BOOLEAN PROVE EndsOf(ft, i, v) = {}
  <2>1. EndsOf(ft, i, TRUE) = {} /\ EndsOf(ft, i, FALSE) = {}
    BY Zenon DEF EndsOK
  <2> QED
    BY Zenon, <2>1
<1>4. EndsOf(ft2, i, FALSE) = {f} /\ EndsOf(ft2, i, TRUE) = {g}
  <2>1. ASSUME NEW h \in Files
        PROVE  /\ h \in EndsOf(ft2, i, FALSE) <=> h = f
               /\ h \in EndsOf(ft2, i, TRUE) <=> h = g
    <3>1. CASE h = f
      BY Zenon, <3>1, <1>1 DEF EndsOf
    <3>2. CASE h = g
      BY Zenon, <3>2, <1>1 DEF EndsOf
    <3>3. CASE h # f /\ h # g
      BY Zenon, <3>3, <1>1, <1>3 DEF EndsOf
    <3> QED
      BY Zenon, <3>1, <3>2, <3>3
  <2> QED
    BY Zenon, <2>1 DEF EndsOf
<1>5. ASSUME NEW j \in Pipes, j # i, NEW v \in BOOLEAN
      PROVE  EndsOf(ft2, j, v) = EndsOf(ft, j, v)
  <2>1. ASSUME NEW h \in Files
        PROVE  IsEnd(ft2[h], j, v) <=> IsEnd(ft[h], j, v)
    <3>1. CASE h = f \/ h = g
      BY ZenonT(30), <3>1, <1>1, <1>2, <1>5 DEF IsEnd
    <3>2. CASE h # f /\ h # g
      BY Zenon, <3>2, <1>1
    <3> QED
      BY Zenon, <3>1, <3>2
  <2> QED
    BY Zenon, <2>1 DEF EndsOf
<1>6. ASSUME NEW j \in Pipes
      PROVE  /\ ps2[j].readopen <=> EndsOf(ft2, j, FALSE) # {}
             /\ ps2[j].writeopen <=> EndsOf(ft2, j, TRUE) # {}
             /\ \A v \in BOOLEAN : \A h, k \in EndsOf(ft2, j, v) : h = k
             /\ ps2[j].ref = 0 <=> ~ps2[j].readopen /\ ~ps2[j].writeopen
  <2>1. CASE j = i
    <3>1. \A v \in BOOLEAN : \A h, k \in EndsOf(ft2, j, v) : h = k
      <4> SUFFICES ASSUME NEW v \in BOOLEAN
                   PROVE  \A h, k \in EndsOf(ft2, i, v) : h = k
        BY Zenon, <2>1
      <4>1. CASE v = TRUE
        BY Zenon, <4>1, <1>4
      <4>2. CASE v = FALSE
        BY Zenon, <4>2, <1>4
      <4> QED
        BY Zenon, <4>1, <4>2
    <3> QED
      BY Zenon, <2>1, <3>1, <1>1, <1>4, <1>r
  <2>2. CASE j # i
    <3>1. EndsOf(ft2, j, TRUE) = EndsOf(ft, j, TRUE)
          /\ EndsOf(ft2, j, FALSE) = EndsOf(ft, j, FALSE)
      BY Zenon, <2>2, <1>5
    <3>2. /\ ps[j].readopen <=> EndsOf(ft, j, FALSE) # {}
          /\ ps[j].writeopen <=> EndsOf(ft, j, TRUE) # {}
          /\ \A v \in BOOLEAN : \A h, k \in EndsOf(ft, j, v) : h = k
          /\ ps[j].ref = 0 <=> ~ps[j].readopen /\ ~ps[j].writeopen
      BY Zenon DEF EndsOK
    <3>3. ps2[j] = ps[j]
      BY Zenon, <2>2, <1>1
    <3> QED
      BY Zenon, <2>2, <3>1, <3>2, <3>3, <1>5
  <2> QED
    BY Zenon, <2>1, <2>2
<1> QED
  BY Zenon, <1>6 DEF EndsOK, ft2, ps2, r

LEMMA EndsCounted ==
  ASSUME EndsOK(ftable, pipes) PROVE PipeEnds
<1>1. ASSUME NEW i \in Pipes, NEW w \in BOOLEAN
      PROVE  /\ EndFiles(i, w) = EndsOf(ftable, i, w)
             /\ Cardinality(EndFiles(i, w)) = IF EndsOf(ftable, i, w) # {} THEN 1 ELSE 0
  <2>1. EndFiles(i, w) = EndsOf(ftable, i, w)
    BY Zenon DEF EndFiles, EndsOf, IsEnd
  <2>2. CASE EndsOf(ftable, i, w) = {}
    BY Zenon, <2>1, <2>2, FS_EmptySet
  <2>3. CASE EndsOf(ftable, i, w) # {}
    <3>0. \A g, h \in EndsOf(ftable, i, w) : g = h
      BY Zenon DEF EndsOK
    <3>1. PICK f : EndsOf(ftable, i, w) = {f}
      BY Zenon, <2>3, <3>0
    <3> QED
      BY Zenon, <2>1, <2>3, <3>1, FS_Singleton
  <2> QED
    BY Zenon, <2>1, <2>2, <2>3
<1>2. ASSUME NEW i \in Pipes
      PROVE  /\ Cardinality(EndFiles(i, FALSE)) = IF pipes[i].readopen THEN 1 ELSE 0
             /\ Cardinality(EndFiles(i, TRUE)) = IF pipes[i].writeopen THEN 1 ELSE 0
             /\ pipes[i].ref = 0 <=> ~pipes[i].readopen /\ ~pipes[i].writeopen
  BY Zenon, <1>1 DEF EndsOK
<1> QED
  BY Zenon, <1>2 DEF PipeEnds
-----------------------------------------------------------------------------
(* The operations.                                                          *)

(* Slot f of the file table and descriptor d of process p are free, and the *)
(* fields are ones that file_alloc's callers set.                           *)
Free(ft, fd, cl, p, d, f) ==
  /\ Counted(ft, fd, cl)
  /\ p \in Procs /\ d \in Fds /\ fd[p][d] = NoFile /\ cl[p] # d
  /\ f \in Files /\ ft[f].ref = 0

Fields(type, r, w, i) ==
  /\ type \in Types /\ type # "NONE"
  /\ r \in BOOLEAN /\ w \in BOOLEAN /\ i \in Pipes \cup {NoPipe}
  /\ type = "PIPE" => i \in Pipes
  /\ r => type \in {"PIPE", "CONSOLE_IN", "INODE"}
  /\ w => type \in {"PIPE", "CONSOLE_OUT", "INODE"}

(* file_alloc takes a free slot: no descriptor and no pipe end sees it.     *)
LEMMA AllocNew ==
  ASSUME NEW ft, NEW fd, NEW cl, NEW p, NEW d, NEW f,
         NEW type, NEW r, NEW w, NEW i,
         Free(ft, fd, cl, p, d, f), Fields(type, r, w, i)
  PROVE  Counted(Alloc(ft, f, type, r, w, i), [fd EXCEPT ![p][d] = f], cl)
<1> USE DEF Free, Fields
<1> DEFINE rec == [type |-> type, ref |-> 1, readable |-> r, writable |-> w,
                   pipe |-> i]
<1>1. rec \in FileRec /\ RecOK(rec)
  BY Zenon DEF FileRec, RecOK
<1>2. rec.ref = ft[f].ref + 1
  OBVIOUS
<1>3. Alloc(ft, f, type, r, w, i) = [ft EXCEPT ![f] = rec]
  BY Zenon, Slots DEF Alloc
<1> HIDE DEF rec
<1>4. Counted([ft EXCEPT ![f] = rec], [fd EXCEPT ![p][d] = f], cl)
  BY SMTT(20), <1>1, <1>2, GiveFile
<1> QED
  BY Zenon, <1>3, <1>4

(* ... and one that is no pipe's leaves the ends alone.                     *)
LEMMA AllocEnds ==
  ASSUME NEW ft \in [Files -> FileRec], NEW ps, EndsOK(ft, ps),
         NEW f \in Files, ft[f].ref = 0,
         NEW type, type # "PIPE", NEW r, NEW w, NEW i
  PROVE  EndsOK(Alloc(ft, f, type, r, w, i), ps)
<1> DEFINE rec == [type |-> type, ref |-> 1, readable |-> r, writable |-> w,
                   pipe |-> i]
           ft2 == Alloc(ft, f, type, r, w, i)
<1>1. ft2 = [ft EXCEPT ![f] = rec] /\ rec.type = type
  BY Zenon, Slots DEF Alloc
<1>2. ~(ft[f].ref > 0)
  OBVIOUS
<1> HIDE DEF rec, ft2
<1>3. ASSUME NEW g \in Files, NEW j \in Pipes, NEW v \in BOOLEAN
      PROVE  IsEnd(ft2[g], j, v) <=> IsEnd(ft[g], j, v)
  <2>1. CASE g = f
    BY Zenon, <2>1, <1>1, <1>2 DEF IsEnd
  <2>2. CASE g # f
    BY Zenon, <2>2, <1>1
  <2> QED
    BY Zenon, <2>1, <2>2
<1> QED
  BY SMTT(20), <1>3, EndsFrame DEF ft2

(* What the steps of console_init_fds and sys_spawn keep: the tables count, *)
(* and only descriptor d of process p has changed.                          *)
Kept(s, t, cl, ps, p, d) ==
  /\ Counted(t.ft, t.fd, cl)
  /\ EndsOK(t.ft, ps)
  /\ \A q \in Procs, e \in Fds : q # p \/ e # d => t.fd[q][e] = s.fd[q][e]

LEMMA ConsoleKept ==
  ASSUME NEW s, NEW cl, NEW ps, Counted(s.ft, s.fd, cl), EndsOK(s.ft, ps),
         NEW p \in Procs, NEW d \in Fds, s.fd[p][d] = NoFile, cl[p] # d,
         NEW type \in {"CONSOLE_IN", "CONSOLE_OUT"}
  PROVE  Kept(s, ConsoleFd(s, p, d, type), cl, ps, p, d)
<1> DEFINE f == FreeFile(s.ft)
           t == ConsoleFd(s, p, d, type)
           in == type = "CONSOLE_IN"
           out == type = "CONSOLE_OUT"
<1>0. s.ft \in [Files -> FileRec] /\ s.fd \in Tables
  BY Zenon DEF Counted
<1>1. CASE f = NoFile
  <2>1. t = s
    BY Zenon, <1>1 DEF ConsoleFd
  <2> HIDE DEF t
  <2>2. Kept(s, t, cl, ps, p, d)
    BY Zenon, <2>1 DEF Kept
  <2> QED
    BY Zenon, <2>2 DEF t
<1>2. CASE f # NoFile
  <2>1. t = [ft |-> Alloc(s.ft, f, type, in, out, NoPipe),
             fd |-> [s.fd EXCEPT ![p][d] = f]]
    BY Zenon, <1>2 DEF ConsoleFd
  <2>2. f \in Files /\ s.ft[f].ref = 0
    BY Zenon, <1>2, FreeFileFound
  <2>3. type \in Types /\ type # "NONE" /\ type # "PIPE"
        /\ Fields(type, in, out, NoPipe)
    BY Zenon DEF Types, Fields
  <2> HIDE DEF t, in, out, f
  <2>4. t.ft = Alloc(s.ft, f, type, in, out, NoPipe) /\ t.fd = [s.fd EXCEPT ![p][d] = f]
    BY Zenon, <2>1
  <2>5. Counted(t.ft, t.fd, cl)
    <3>1. Free(s.ft, s.fd, cl, p, d, f)
      BY Zenon, <2>2 DEF Free
    <3>2. Counted(Alloc(s.ft, f, type, in, out, NoPipe),
                  [s.fd EXCEPT ![p][d] = f], cl)
      BY Zenon, <3>1, <2>3, AllocNew
    <3> QED
      BY Zenon, <3>2, <2>4
  <2>6. EndsOK(t.ft, ps)
    BY SMTT(20), <2>2, <2>3, <2>4, <1>0, AllocEnds
  <2>7. \A q \in Procs, e \in Fds : q # p \/ e # d => t.fd[q][e] = s.fd[q][e]
    BY SMTT(20), <2>2, <2>4, <1>0 DEF Tables
  <2> QED
    BY Zenon, <2>5, <2>6, <2>7 DEF Kept, t
<1> QED
  BY Zenon, <1>1, <1>2

(* Descriptors 0, 1 and 2 exist.                                            *)
LEMMA StdFds == {0, 1, 2} \subseteq Fds
  BY FileAssumption DEF Fds

LEMMA ConsoleInitKept ==
  ASSUME NEW s, NEW cl, NEW ps, Counted(s.ft, s.fd, cl), EndsOK(s.ft, ps),
         NEW p \in Procs, cl[p] = NoFd, \A d \in Fds : s.fd[p][d] = NoFile
  PROVE  LET t == ConsoleInitFds(s, p)
         IN  /\ Counted(t.ft, t.fd, cl) /\ EndsOK(t.ft, ps)
             /\ \A q \in Procs, e \in Fds : q # p => t.fd[q][e] = s.fd[q][e]
<1> DEFINE s1 == ConsoleFd(s, p, 0, "CONSOLE_IN")
           s2 == ConsoleFd(s1, p, 1, "CONSOLE_OUT")
           s3 == ConsoleFd(s2, p, 2, "CONSOLE_OUT")
<1>0. 0 \in Fds /\ 1 \in Fds /\ 2 \in Fds /\ \A d \in Fds : cl[p] # d
  BY Zenon, StdFds, Slots
<1>d. 0 # 1 /\ 0 # 2 /\ 1 # 2
  OBVIOUS
<1>1. Kept(s, s1, cl, ps, p, 0)
  BY Zenon, <1>0, ConsoleKept
<1> HIDE DEF s1
<1>2. Kept(s1, s2, cl, ps, p, 1)
  <2>1. Counted(s1.ft, s1.fd, cl) /\ EndsOK(s1.ft, ps) /\ s1.fd[p][1] = NoFile
    BY Zenon, <1>0, <1>d, <1>1 DEF Kept
  <2> QED
    BY Zenon, <2>1, <1>0, ConsoleKept
<1> HIDE DEF s2
<1>3. Kept(s2, s3, cl, ps, p, 2)
  <2>1. Counted(s2.ft, s2.fd, cl) /\ EndsOK(s2.ft, ps) /\ s2.fd[p][2] = NoFile
    BY SMTT(20), <1>0, <1>d, <1>1, <1>2 DEF Kept
  <2> QED
    BY Zenon, <2>1, <1>0, ConsoleKept
<1> HIDE DEF s3
<1>4. /\ Counted(s3.ft, s3.fd, cl) /\ EndsOK(s3.ft, ps)
      /\ \A q \in Procs, e \in Fds : q # p => s3.fd[q][e] = s.fd[q][e]
  BY SMTT(20), <1>1, <1>2, <1>3 DEF Kept
<1> QED
  BY Zenon, <1>4 DEF ConsoleInitFds, s1, s2, s3

(* file_dup of a file in use.                                               *)
LEMMA DupKept ==
  ASSUME NEW ft, NEW fd, NEW cl, NEW ps, Counted(ft, fd, cl), EndsOK(ft, ps),
         NEW p \in Procs, NEW d \in Fds, fd[p][d] = NoFile, cl[p] # d,
         NEW f \in Files, ft[f].ref > 0
  PROVE  /\ Counted(FileDup(ft, f), [fd EXCEPT ![p][d] = f], cl)
         /\ EndsOK(FileDup(ft, f), ps)
<1> DEFINE rec == [ft[f] EXCEPT !.ref = @ + 1]
           ft2 == FileDup(ft, f)
<1>1. ft2 = [ft EXCEPT ![f] = rec]
  BY Zenon DEF FileDup
<1>2. ft \in [Files -> FileRec] /\ ft[f] \in FileRec /\ RecOK(ft[f])
  BY Zenon DEF Counted
<1>3. /\ rec \in FileRec /\ rec.ref = ft[f].ref + 1 /\ rec.ref > 0
      /\ rec.type = ft[f].type /\ rec.pipe = ft[f].pipe
      /\ rec.readable = ft[f].readable /\ rec.writable = ft[f].writable
  BY SMTT(30), <1>2 DEF FileRec
<1> HIDE DEF rec, ft2
<1>4. RecOK(rec)
  BY Zenon, <1>2, <1>3 DEF RecOK
<1>5. Counted(ft2, [fd EXCEPT ![p][d] = f], cl)
  BY Zenon, <1>1, <1>3, <1>4, GiveFile
<1>6. ASSUME NEW g \in Files, NEW j \in Pipes, NEW v \in BOOLEAN
      PROVE  IsEnd(ft2[g], j, v) <=> IsEnd(ft[g], j, v)
  <2>1. CASE g = f
    BY Zenon, <2>1, <1>1, <1>2, <1>3 DEF IsEnd
  <2>2. CASE g # f
    BY Zenon, <2>2, <1>1, <1>2
  <2> QED
    BY Zenon, <2>1, <2>2
<1> QED
  BY SMTT(20), <1>5, <1>6, EndsFrame DEF ft2

(* One descriptor that sys_spawn hands the child.                           *)
LEMMA InheritKept ==
  ASSUME NEW s, NEW cl, NEW ps, Counted(s.ft, s.fd, cl), EndsOK(s.ft, ps),
         NEW p \in Procs, NEW child \in Procs, child # p, NEW d \in Fds,
         s.fd[child][d] = NoFile, cl[child] = NoFd, cl[p] = NoFd,
         \A e \in Fds : s.fd[p][e] = fds[p][e],
         NEW given \in Fds \cup {NoFd}, NEW type \in {"CONSOLE_IN", "CONSOLE_OUT"}
  PROVE  Kept(s, Inherit(s, p, child, d, given, type), cl, ps, child, d)
<1> DEFINE t == Inherit(s, p, child, d, given, type)
           f == fds[p][given]
<1>0. cl[child] # d /\ \A e \in Fds : cl[p] # e
  BY Zenon, Slots
<1>1. CASE given = NoFd
  BY Zenon, <1>0, <1>1, ConsoleKept DEF Inherit
<1>2. CASE given # NoFd /\ f = NoFile
  <2>1. t = s
    BY Zenon, <1>2 DEF Inherit
  <2> HIDE DEF t
  <2>2. Kept(s, t, cl, ps, child, d)
    BY Zenon, <2>1 DEF Kept
  <2> QED
    BY Zenon, <2>2 DEF t
<1>3. CASE given # NoFd /\ f # NoFile
  <2>1. t = [ft |-> FileDup(s.ft, f), fd |-> [s.fd EXCEPT ![child][d] = f]]
    BY Zenon, <1>3 DEF Inherit
  <2>2. s.fd \in Tables /\ given \in Fds /\ s.fd[p][given] = f
    BY Zenon, <1>3 DEF Counted
  <2>3. f \in Files
    BY SMTT(20), <2>2, <1>3 DEF Tables
  <2> HIDE DEF f, t
  <2>4. s.ft[f].ref > 0
    BY SMTT(20), <2>2, <2>3, <1>0, HeldInUse
  <2>5. t.ft = FileDup(s.ft, f) /\ t.fd = [s.fd EXCEPT ![child][d] = f]
    BY Zenon, <2>1
  <2>6. Counted(t.ft, t.fd, cl) /\ EndsOK(t.ft, ps)
    BY SMTT(20), <2>3, <2>4, <2>5, <1>0, DupKept
  <2>7. \A q \in Procs, e \in Fds : q # child \/ e # d => t.fd[q][e] = s.fd[q][e]
    BY SMTT(20), <2>2, <2>5 DEF Tables
  <2> QED
    BY Zenon, <2>6, <2>7 DEF Kept, t
<1> QED
  BY Zenon, <1>1, <1>2, <1>3
-----------------------------------------------------------------------------
(* The invariant, action by action.                                         *)

LEMMA InitFInv == Init => FInv
<1> SUFFICES ASSUME Init PROVE FInv
  BY Zenon
<1> DEFINE s0 == [ft |-> [f \in Files |-> NoRec],
                  fd |-> [p \in Procs |-> [d \in Fds |-> NoFile]]]
           s == ConsoleInitFds(s0, Shell)
           cl == [p \in Procs |-> NoFd]
           ps == [i \in Pipes |-> [ref |-> 0, readopen |-> FALSE,
                                   writeopen |-> FALSE]]
<1>1. /\ ftable = s.ft /\ fds = s.fd /\ closing = cl /\ pipes = ps
      /\ pc = [p \in Procs |-> IF p = Shell THEN "user" ELSE "unborn"]
      /\ panicked = FALSE
  BY Zenon DEF Init
<1>2. s0.ft = [f \in Files |-> NoRec] /\ s0.fd = [p \in Procs |-> [d \in Fds |-> NoFile]]
  BY Zenon
<1>3. NoRec \in FileRec /\ NoRec.ref = 0 /\ ~(NoRec.ref > 0)
  BY Slots DEF NoRec, FileRec, Types
<1> HIDE DEF s0
<1>4. Counted(s0.ft, s0.fd, cl)
  <2>1. s0.ft \in [Files -> FileRec] /\ s0.fd \in Tables
    BY Zenon, <1>2, <1>3 DEF Tables
  <2>2. ASSUME NEW f \in Files
        PROVE  RecOK(s0.ft[f]) /\ s0.ft[f].ref = Cardinality(RefsOf(s0.fd, cl, f))
    <3>1. s0.ft[f] = NoRec
      BY Zenon, <1>2
    <3>2. RefsOf(s0.fd, cl, f) = {}
      <4>1. ASSUME NEW x \in Procs \X Fds PROVE s0.fd[x[1]][x[2]] # f
        <5>1. x[1] \in Procs /\ x[2] \in Fds
          BY Zenon
        <5> QED
          BY <5>1, <1>2, Slots
      <4> QED
        BY Zenon, <4>1 DEF RefsOf
    <3> QED
      BY Zenon, <3>1, <3>2, <1>3, FS_EmptySet DEF RecOK
  <2> QED
    BY Zenon, <2>1, <2>2 DEF Counted
<1>5. EndsOK(s0.ft, ps)
  <2>1. ASSUME NEW i \in Pipes, NEW w \in BOOLEAN PROVE EndsOf(s0.ft, i, w) = {}
    BY Zenon, <1>2, <1>3 DEF EndsOf, IsEnd
  <2>2. ASSUME NEW i \in Pipes
        PROVE  ps[i].ref = 0 /\ ~ps[i].readopen /\ ~ps[i].writeopen
    BY Zenon
  <2> HIDE DEF ps
  <2>3. ASSUME NEW i \in Pipes
        PROVE  EndsOf(s0.ft, i, TRUE) = {} /\ EndsOf(s0.ft, i, FALSE) = {}
    BY Zenon, <2>1
  <2> QED
    BY Zenon, <2>1, <2>2, <2>3 DEF EndsOK
<1>6. /\ Shell \in Procs /\ cl[Shell] = NoFd
      /\ \A p \in Procs, d \in Fds : s0.fd[p][d] = NoFile
  BY <1>2, FileAssumption DEF cl
<1>7. ps \in [Pipes -> PipeRec]
  BY DEF PipeRec
<1> HIDE DEF cl, ps
<1>8. /\ Counted(s.ft, s.fd, cl) /\ EndsOK(s.ft, ps)
      /\ \A q \in Procs, e \in Fds : q # Shell => s.fd[q][e] = s0.fd[q][e]
  BY SMTT(20), <1>4, <1>5, <1>6, ConsoleInitKept
<1> HIDE DEF s
<1>9. pc \in [Procs -> Pcs] /\ closing \in [Procs -> Fds \cup {NoFd}]
  BY Zenon, <1>1 DEF Pcs, cl
<1>10. PlacesOK
  BY Zenon, <1>1, <1>6, <1>8 DEF PlacesOK, cl
<1> QED
  BY Zenon, <1>1, <1>7, <1>8, <1>9, <1>10 DEF FInv

(* Steps that leave the tables alone.                                       *)
LEMMA QuietStep ==
  ASSUME FInv, NEW p \in Procs, SysExit(p) \/ ExitDone(p) \/ Kill(p)
  PROVE  FInv'
<1>1. pc \in [Procs -> Pcs] /\ PlacesOK
  BY Zenon DEF FInv
<1>2. UNCHANGED <<ftable, pipes, fds, closing, panicked>>
  BY Zenon DEF SysExit, ExitDone, Kill
<1>3. PICK l \in {"exit", "dead"} :
        pc' = [pc EXCEPT ![p] = l] /\ (l = "exit" => pc[p] = "user")
  BY Zenon DEF SysExit, ExitDone, Kill
<1>4. pc' \in [Procs -> Pcs]
  BY Zenon, <1>1, <1>3 DEF Pcs
<1>5. PlacesOK'
  <2> SUFFICES ASSUME NEW q \in Procs
               PROVE  /\ pc'[q] \in {"unborn", "user", "exit"} => closing[q] = NoFd
                      /\ pc'[q] = "unborn" => \A d \in Fds : fds[q][d] = NoFile
    BY Zenon, <1>2 DEF PlacesOK
  <2>1. CASE q = p
    BY Zenon, <2>1, <1>1, <1>3 DEF PlacesOK
  <2>2. CASE q # p
    BY Zenon, <2>2, <1>1, <1>3 DEF PlacesOK
  <2> QED
    BY Zenon, <2>1, <2>2
<1> QED
  BY Zenon, <1>2, <1>4, <1>5 DEF FInv
(* file_read and file_write never meet a type they do not know.             *)
LEMMA TransferStep ==
  ASSUME FInv, NEW p \in Procs, NEW d \in Fds, SysRead(p, d) \/ SysWrite(p, d)
  PROVE  FInv'
<1> DEFINE f == fds[p][d]
<1>1. pc[p] = "user" /\ f # NoFile /\ UNCHANGED <<ftable, pipes, fds, pc, closing>>
  BY Zenon DEF SysRead, SysWrite
<1>2. closing[p] # d /\ f \in Files
  BY <1>1, Slots DEF FInv, PlacesOK, Counted, Tables
<1>3. ftable[f].ref > 0
  BY Zenon, <1>2, HeldInUse DEF FInv
<1>4. RecOK(ftable[f])
  BY Zenon, <1>2 DEF FInv, Counted
<1>5. panicked' = FALSE
  <2>1. CASE SysRead(p, d)
    <3>1. ~(/\ ftable[f].readable
            /\ ftable[f].type \notin {"PIPE", "CONSOLE_IN", "INODE"})
      BY Zenon, <1>3, <1>4 DEF RecOK
    <3> QED
      BY Zenon, <2>1, <3>1 DEF SysRead
  <2>2. CASE SysWrite(p, d)
    <3>1. ~(/\ ftable[f].writable
            /\ ftable[f].type \notin {"PIPE", "CONSOLE_OUT", "INODE"})
      BY Zenon, <1>3, <1>4 DEF RecOK
    <3> QED
      BY Zenon, <2>2, <3>1 DEF SysWrite
  <2> QED
    BY Zenon, <2>1, <2>2
<1> QED
  BY Zenon, <1>1, <1>5 DEF FInv, PlacesOK

LEMMA OpenStep ==
  ASSUME FInv, NEW p \in Procs, NEW mode \in Modes, SysOpen(p, mode)
  PROVE  FInv'
<1> DEFINE f == FreeFile(ftable)
           d == FreeFd(fds[p])
           r == mode # "WRONLY"
           w == mode # "RDONLY"
<1>1. pc[p] = "user" /\ UNCHANGED <<pipes, pc, closing, panicked>>
  BY Zenon DEF SysOpen
<1>2. CASE f # NoFile /\ d # NoFd
  <2>1. /\ ftable' = Alloc(ftable, f, "INODE", r, w, NoPipe)
        /\ fds' = [fds EXCEPT ![p][d] = f]
    BY Zenon, <1>2 DEF SysOpen
  <2>2. f \in Files /\ ftable[f].ref = 0
    BY Zenon, <1>2, FreeFileFound
  <2>3. d \in Fds /\ fds[p][d] = NoFile
    BY Zenon, <1>2, FreeFdFound
  <2>4. closing[p] # d
    BY Zenon, <1>1, <2>3, Slots DEF FInv, PlacesOK
  <2>5. Fields("INODE", r, w, NoPipe) /\ "INODE" # "PIPE"
    BY Zenon DEF Types, Fields
  <2>t. ftable \in [Files -> FileRec] /\ fds \in Tables
    BY Zenon DEF FInv, Counted
  <2> HIDE DEF f, d, r, w
  <2>6. Counted(ftable', fds', closing')
    <3>1. Counted(Alloc(ftable, f, "INODE", r, w, NoPipe),
                  [fds EXCEPT ![p][d] = f], closing)
      <4>1. Free(ftable, fds, closing, p, d, f)
        BY Zenon, <2>2, <2>3, <2>4 DEF FInv, Free
      <4> QED
        BY Zenon, <4>1, <2>5, AllocNew
    <3> QED
      BY Zenon, <2>1, <3>1, <1>1
  <2>7. EndsOK(ftable', pipes')
    <3>1. EndsOK(Alloc(ftable, f, "INODE", r, w, NoPipe), pipes)
      BY SMTT(20), <2>2, <2>5, <2>t, AllocEnds DEF FInv
    <3> QED
      BY Zenon, <2>1, <3>1, <1>1
  <2>8. \A q \in Procs, e \in Fds : q # p => fds'[q][e] = fds[q][e]
    BY Zenon, <2>1, <2>2, <2>t DEF Tables
  <2>9. PlacesOK'
    BY Zenon, <1>1, <2>8 DEF FInv, PlacesOK
  <2> QED
    BY Zenon, <1>1, <2>6, <2>7, <2>9 DEF FInv
<1>3. CASE ~(f # NoFile /\ d # NoFd)
  <2>1. UNCHANGED <<ftable, fds>>
    BY Zenon, <1>3 DEF SysOpen
  <2> QED
    BY Zenon, <1>1, <2>1 DEF FInv, PlacesOK
<1> QED
  BY Zenon, <1>2, <1>3

LEMMA PipeStep ==
  ASSUME FInv, NEW p \in Procs, SysPipe(p)
  PROVE  FInv'
<1> DEFINE rf == FreeFile(ftable)
           ft0 == Alloc(ftable, rf, "NONE", FALSE, FALSE, NoPipe)
           wf == FreeFile(ft0)
           i  == FreePipe
           d0 == FreeFd(fds[p])
           fs == [fds[p] EXCEPT ![d0] = rf]
           d1 == FreeFd(fs)
           a == [type |-> "PIPE", ref |-> 1, readable |-> TRUE,
                 writable |-> FALSE, pipe |-> i]
           b == [type |-> "PIPE", ref |-> 1, readable |-> FALSE,
                 writable |-> TRUE, pipe |-> i]
           ft1 == Alloc(ftable, rf, "PIPE", TRUE, FALSE, i)
           fd1 == [fds EXCEPT ![p][d0] = rf]
           open == [ref |-> 2, readopen |-> TRUE, writeopen |-> TRUE]
<1>1. pc[p] = "user" /\ UNCHANGED <<pc, closing, panicked>>
  BY Zenon DEF SysPipe
<1>2. CASE rf # NoFile /\ wf # NoFile /\ i # NoPipe /\ d0 # NoFd /\ d1 # NoFd
  <2>1. /\ ftable' = Alloc(ft1, wf, "PIPE", FALSE, TRUE, i)
        /\ pipes' = [pipes EXCEPT ![i] = open]
        /\ fds' = [fds EXCEPT ![p][d0] = rf, ![p][d1] = wf]
    BY Zenon, <1>2 DEF SysPipe
  <2>t. /\ ftable \in [Files -> FileRec] /\ fds \in Tables
        /\ pipes \in [Pipes -> PipeRec] /\ EndsOK(ftable, pipes)
        /\ Counted(ftable, fds, closing)
    BY Zenon DEF FInv, Counted
  <2>2. rf \in Files /\ ftable[rf].ref = 0
    BY Zenon, <1>2, FreeFileFound
  <2>3. i \in Pipes /\ pipes[i].ref = 0
    BY Zenon, <1>2, FreePipeFound
  <2>4. d0 \in Fds /\ fds[p][d0] = NoFile
    BY Zenon, <1>2, FreeFdFound
  <2>5. wf \in Files /\ ft0[wf].ref = 0
    BY Zenon, <1>2, FreeFileFound
  <2>6. d1 \in Fds /\ fs[d1] = NoFile
    BY Zenon, <1>2, FreeFdFound
  <2>7. ft1 = [ftable EXCEPT ![rf] = a]
    BY Zenon, <1>2 DEF Alloc
  <2>8. ftable' = [ft1 EXCEPT ![wf] = b]
    BY Zenon, <1>2, <2>1 DEF Alloc
  <2>9. wf # rf /\ ftable[wf].ref = 0 /\ ft1[wf].ref = 0
    <3>1. ft0[rf].ref = 1
      BY <1>2, <2>2, <2>t DEF Alloc
    <3>2. wf # rf
      <4> HIDE DEF rf, wf, ft0
      <4> QED
        BY SMT, <3>1, <2>5
    <3>3. ft0[wf] = ftable[wf] /\ ft1[wf] = ftable[wf]
      BY Zenon, <3>2, <2>2, <2>5, <2>7, <2>t DEF Alloc
    <3> QED
      BY Zenon, <3>2, <3>3, <2>5
  <2>10. d1 # d0 /\ fds[p][d1] = NoFile
    <3>1. fs[d0] = rf /\ \A e \in Fds : e # d0 => fs[e] = fds[p][e]
      BY Zenon, <2>4, <2>t DEF Tables
    <3> QED
      BY Zenon, <3>1, <2>2, <2>6, Slots
  <2>11. closing[p] # d0 /\ closing[p] # d1
    BY Zenon, <1>1, <2>4, <2>6, Slots DEF FInv, PlacesOK
  <2>12. fds' = [fd1 EXCEPT ![p][d1] = wf]
    BY Zenon, <2>1
  <2>13. fd1[p][d1] = NoFile
    BY Zenon, <2>4, <2>6, <2>10, <2>t DEF Tables
  <2>14. /\ Fields("PIPE", TRUE, FALSE, i) /\ Fields("PIPE", FALSE, TRUE, i)
         /\ TwoEnds(a, b, i)
    <3>1. a.ref > 0 /\ b.ref > 0
      OBVIOUS
    <3> QED
      BY Zenon, <3>1, <2>3 DEF Types, IsEnd, Fields, TwoEnds
  <2>15. open \in PipeRec
    BY DEF PipeRec
  <2> HIDE DEF rf, wf, ft0, i, d0, d1, fs, a, b, ft1, fd1, open
  <2>16. Counted(ft1, fd1, closing)
    <3>1. Free(ftable, fds, closing, p, d0, rf)
      BY Zenon, <2>2, <2>4, <2>11, <2>t DEF Free
    <3> QED
      BY Zenon, <3>1, <2>14, AllocNew DEF ft1, fd1
  <2>17. Counted(ftable', fds', closing')
    <3>1. Counted(Alloc(ft1, wf, "PIPE", FALSE, TRUE, i),
                  [fd1 EXCEPT ![p][d1] = wf], closing)
      <4>1. Free(ft1, fd1, closing, p, d1, wf)
        BY Zenon, <2>16, <2>5, <2>6, <2>9, <2>11, <2>13 DEF Free
      <4> QED
        BY Zenon, <4>1, <2>14, AllocNew
    <3> QED
      BY Zenon, <3>1, <2>1, <2>12, <1>1
  <2>18. EndsOK(ftable', pipes')
    <3>1. EndsOK([[ftable EXCEPT ![rf] = a] EXCEPT ![wf] = b],
                 [pipes EXCEPT ![i] = [ref |-> 2, readopen |-> TRUE,
                                       writeopen |-> TRUE]])
      <4>1. Unopened(ftable, pipes, i, rf, wf)
        BY Zenon, <2>2, <2>3, <2>5, <2>9, <2>t DEF Unopened
      <4> QED
        BY Zenon, <4>1, <2>14, EndsOpen
    <3> QED
      BY Zenon, <3>1, <2>1, <2>7, <2>8 DEF open
  <2>19. pipes' \in [Pipes -> PipeRec]
    BY Zenon, <2>1, <2>15, <2>t
  <2>20. \A q \in Procs, e \in Fds : q # p => fds'[q][e] = fds[q][e]
    BY Zenon, <2>1, <2>t DEF Tables
  <2>21. PlacesOK'
    BY Zenon, <1>1, <2>20 DEF FInv, PlacesOK
  <2> QED
    BY Zenon, <1>1, <2>17, <2>18, <2>19, <2>21 DEF FInv
<1>3. CASE ~(rf # NoFile /\ wf # NoFile /\ i # NoPipe /\ d0 # NoFd /\ d1 # NoFd)
  <2>1. UNCHANGED <<ftable, pipes, fds>>
    BY Zenon, <1>3 DEF SysPipe
  <2> QED
    BY Zenon, <1>1, <2>1 DEF FInv, PlacesOK
<1> QED
  BY Zenon, <1>2, <1>3
(* sys_close and the loop of sys_exit: file_close of a descriptor that      *)
(* counts, which is cleared now, or when the transaction is done.           *)
CloseFd(p, d, asleep) ==
  /\ FileClose(fds[p][d])
  /\ IF Transaction(fds[p][d])
     THEN /\ pc' = [pc EXCEPT ![p] = asleep]
          /\ closing' = [closing EXCEPT ![p] = d]
          /\ UNCHANGED fds
     ELSE /\ fds' = [fds EXCEPT ![p][d] = NoFile]
          /\ UNCHANGED <<pc, closing>>

LEMMA CloseFdStep ==
  ASSUME FInv, NEW p \in Procs, NEW d \in Fds, pc[p] \in {"user", "exit"},
         fds[p][d] # NoFile, NEW asleep \in {"closing", "exitclosing"},
         CloseFd(p, d, asleep)
  PROVE  FInv'
<1> DEFINE f == fds[p][d]
<1>t. /\ ftable \in [Files -> FileRec] /\ fds \in Tables
      /\ pipes \in [Pipes -> PipeRec] /\ EndsOK(ftable, pipes)
      /\ Counted(ftable, fds, closing)
      /\ pc \in [Procs -> Pcs] /\ closing \in [Procs -> Fds \cup {NoFd}]
  BY Zenon DEF FInv, Counted
<1>1. closing[p] = NoFd /\ \A e \in Fds : closing[p] # e
  BY Zenon, Slots DEF FInv, PlacesOK
<1>2. f \in Files
  BY SMT, <1>t DEF Tables
<1>3. FileClose(f)
  BY Zenon DEF CloseFd
<1>4. ftable[f].ref > 0 /\ ftable[f] \in FileRec /\ RecOK(ftable[f])
  BY Zenon, <1>1, <1>2, <1>t, HeldInUse DEF Counted
<1>5. panicked' = FALSE /\ ftable' = Unref(ftable, f)
  <2>1. (ftable[f].ref < 1) = FALSE
    BY <1>4 DEF FileRec
  <2>2. panicked' = (ftable[f].ref < 1) /\ ftable' = Unref(ftable, f)
    BY Zenon, <1>3 DEF FileClose
  <2> HIDE DEF f
  <2> QED
    BY Zenon, <2>1, <2>2
<1>6. /\ pc' \in [Procs -> Pcs] /\ closing' \in [Procs -> Fds \cup {NoFd}]
      /\ fds' \in Tables
      /\ fds'[p][d] = NoFile \/ closing'[p] = d
      /\ pc'[p] # "unborn"
      /\ pc'[p] \in {"user", "exit"} => closing'[p] = NoFd
      /\ \A q \in Procs : q # p => pc'[q] = pc[q] /\ closing'[q] = closing[q]
      /\ \A q \in Procs, e \in Fds : q # p \/ e # d =>
           fds'[q][e] = fds[q][e] /\ (closing'[q] = e <=> closing[q] = e)
  <2>1. CASE Transaction(f)
    <3>1. /\ pc' = [pc EXCEPT ![p] = asleep]
          /\ closing' = [closing EXCEPT ![p] = d]
          /\ fds' = fds
      BY Zenon, <2>1 DEF CloseFd
    <3>2. asleep \in Pcs
      BY Zenon DEF Pcs
    <3>3. pc'[p] \notin {"unborn", "user", "exit"}
      BY Zenon, <3>1, <1>t
    <3> HIDE DEF f
    <3>4. \A q \in Procs, e \in Fds : q # p \/ e # d =>
            (closing'[q] = e <=> closing[q] = e)
      BY Zenon, <3>1, <1>1, <1>t
    <3> QED
      BY Zenon, <3>1, <3>2, <3>3, <3>4, <1>t
  <2>2. CASE ~Transaction(f)
    <3>1. fds' = [fds EXCEPT ![p][d] = NoFile] /\ pc' = pc /\ closing' = closing
      BY Zenon, <2>2 DEF CloseFd
    <3>2. /\ fds' \in Tables
          /\ \A q \in Procs, e \in Fds :
               fds'[q][e] = IF q = p /\ e = d THEN NoFile ELSE fds[q][e]
      BY Zenon, <3>1, <1>t DEF Tables
    <3> HIDE DEF f
    <3>3. \A q \in Procs, e \in Fds : q # p \/ e # d => fds'[q][e] = fds[q][e]
      BY Zenon, <3>2
    <3>4. fds'[p][d] = NoFile
      BY Zenon, <3>2
    <3>5. pc'[p] # "unborn"
      BY Zenon, <3>1
    <3> QED
      BY Zenon, <3>1, <3>2, <3>3, <3>4, <3>5, <1>t, <1>1
  <2> QED
    BY Zenon, <2>1, <2>2
<1>7. Counted(ftable', fds', closing')
  <2> HIDE DEF f
  <2>1. f = fds[p][d]
    BY Zenon DEF f
  <2>2. closing[p] # d
    BY Zenon, <1>1
  <2>3. Counted(Unref(ftable, f), fds', closing')
    BY SMTT(20), <2>1, <2>2, <1>2, <1>6, <1>t, DropFile
  <2> QED
    BY Zenon, <2>3, <1>5
<1>8. pipes' \in [Pipes -> PipeRec] /\ EndsOK(ftable', pipes')
  <2> HIDE DEF f
  <2>1. CASE Last(f) /\ ftable[f].type = "PIPE"
    <3> DEFINE i == ftable[f].pipe
               w == ftable[f].writable
    <3>1. pipes' = PipeClose(pipes, i, w)
      BY Zenon, <2>1, <1>3 DEF FileClose
    <3>2. ftable' = [ftable EXCEPT ![f] = NoRec]
      <4>1. ~(ftable[f].ref > 1)
        BY <2>1 DEF Last
      <4> QED
        BY Zenon, <4>1, <1>5 DEF Unref
    <3>3. ftable[f].ref = 1 /\ i \in Pipes /\ w \in BOOLEAN
      BY Zenon, <2>1, <1>4 DEF Last, RecOK, FileRec
    <3> HIDE DEF i, w
    <3>4. /\ PipeClose(pipes, i, w) \in [Pipes -> PipeRec]
          /\ EndsOK([ftable EXCEPT ![f] = NoRec], PipeClose(pipes, i, w))
      BY Zenon, <2>1, <3>3, <1>2, <1>t, EndsClose DEF i, w
    <3> QED
      BY Zenon, <3>1, <3>2, <3>4
  <2>2. CASE ~(Last(f) /\ ftable[f].type = "PIPE")
    <3>1. pipes' = pipes
      BY Zenon, <2>2, <1>3 DEF FileClose
    <3>2. ASSUME NEW g \in Files, NEW j \in Pipes, NEW v \in BOOLEAN
          PROVE  IsEnd(ftable'[g], j, v) <=> IsEnd(ftable[g], j, v)
      <4>1. CASE g # f
        BY Zenon, <4>1, <1>5, <1>t DEF Unref
      <4>2. CASE g = f /\ ftable[f].ref > 1
        <5> DEFINE r == [ftable[f] EXCEPT !.ref = @ - 1]
        <5>1. ftable'[f] = r
          BY Zenon, <4>2, <1>2, <1>5, <1>t DEF Unref
        <5>2. /\ r.ref > 0 /\ r.type = ftable[f].type /\ r.pipe = ftable[f].pipe
              /\ r.writable = ftable[f].writable
          BY SMTT(20), <4>2, <1>4 DEF FileRec
        <5> HIDE DEF r
        <5> QED
          BY Zenon, <4>2, <5>1, <5>2, <1>4 DEF IsEnd
      <4>3. CASE g = f /\ ~(ftable[f].ref > 1)
        <5>1. ftable'[f] = NoRec
          BY Zenon, <4>3, <1>2, <1>5, <1>t DEF Unref
        <5>2. ~(NoRec.ref > 0)
          BY DEF NoRec
        <5>3. Last(f)
          BY <4>3, <1>4 DEF Last, FileRec
        <5> QED
          BY Zenon, <2>2, <4>3, <5>1, <5>2, <5>3 DEF IsEnd
      <4> QED
        BY Zenon, <4>1, <4>2, <4>3
    <3>3. EndsOK(ftable', pipes)
      BY SMTT(20), <3>2, <1>t, EndsFrame
    <3> QED
      BY Zenon, <3>1, <3>3, <1>t
  <2> QED
    BY Zenon, <2>1, <2>2
<1>9. PlacesOK'
  <2> SUFFICES ASSUME NEW q \in Procs
               PROVE  /\ pc'[q] \in {"unborn", "user", "exit"} => closing'[q] = NoFd
                      /\ pc'[q] = "unborn" => \A e \in Fds : fds'[q][e] = NoFile
    BY Zenon DEF PlacesOK
  <2>1. CASE q = p
    BY Zenon, <2>1, <1>6
  <2>2. CASE q # p
    <3>1. /\ pc'[q] = pc[q] /\ closing'[q] = closing[q]
          /\ \A e \in Fds : fds'[q][e] = fds[q][e]
      BY Zenon, <2>2, <1>6
    <3> QED
      BY Zenon, <3>1 DEF FInv, PlacesOK
  <2> QED
    BY Zenon, <2>1, <2>2
<1> QED
  BY Zenon, <1>5, <1>6, <1>7, <1>8, <1>9 DEF FInv

LEMMA CloseStep ==
  ASSUME FInv, NEW p \in Procs,
         (\E d \in Fds : SysClose(p, d)) \/ ExitClose(p)
  PROVE  FInv'
<1>1. ASSUME NEW d \in Fds, SysClose(p, d) PROVE FInv'
  <2>1. pc[p] = "user" /\ fds[p][d] # NoFile /\ CloseFd(p, d, "closing")
    BY Zenon, <1>1 DEF SysClose, CloseFd
  <2> QED
    BY Zenon, <2>1, CloseFdStep
<1>2. CASE ExitClose(p)
  <2> DEFINE S == {e \in Fds : fds[p][e] # NoFile}
             d == First(S, NoFd)
  <2>1. pc[p] = "exit" /\ d # NoFd /\ CloseFd(p, d, "exitclosing")
    BY Zenon, <1>2 DEF ExitClose, CloseFd
  <2>2. S \in SUBSET Nat
    BY Zenon, Slots
  <2>3. d \in S
    BY Zenon, <2>1, <2>2, FirstFound
  <2>4. d \in Fds /\ fds[p][d] # NoFile
    BY Zenon, <2>3
  <2> HIDE DEF d
  <2> QED
    BY Zenon, <2>1, <2>4, CloseFdStep
<1> QED
  BY Zenon, <1>1, <1>2
(* The transaction of file_close is done: the descriptor counted no more.   *)
LEMMA ClosedStep ==
  ASSUME FInv, NEW p \in Procs, Closed(p)
  PROVE  FInv'
<1> DEFINE d == closing[p]
<1>t. /\ ftable \in [Files -> FileRec] /\ fds \in Tables
      /\ Counted(ftable, fds, closing)
      /\ pc \in [Procs -> Pcs] /\ closing \in [Procs -> Fds \cup {NoFd}]
  BY Zenon DEF FInv, Counted
<1>1. /\ fds' = [fds EXCEPT ![p][d] = NoFile]
      /\ closing' = [closing EXCEPT ![p] = NoFd]
      /\ UNCHANGED <<ftable, pipes, panicked>>
  BY Zenon DEF Closed
<1>2. PICK l \in {"user", "exit"} : pc' = [pc EXCEPT ![p] = l]
  BY Zenon DEF Closed
<1>3. /\ fds' \in Tables
      /\ \A q \in Procs, e \in Fds :
           fds'[q][e] = IF q = p /\ e = d THEN NoFile ELSE fds[q][e]
  BY Zenon, <1>1, <1>t DEF Tables
<1>4. /\ pc' \in [Procs -> Pcs] /\ closing' \in [Procs -> Fds \cup {NoFd}]
      /\ pc'[p] # "unborn" /\ closing'[p] = NoFd
      /\ \A q \in Procs : q # p => pc'[q] = pc[q] /\ closing'[q] = closing[q]
  BY Zenon, <1>1, <1>2, <1>t DEF Pcs
<1>5. ASSUME NEW f \in Files
      PROVE  RefsOf(fds', closing', f) = RefsOf(fds, closing, f)
  <2>1. ASSUME NEW q \in Procs, NEW e \in Fds
        PROVE  fds'[q][e] = f /\ closing'[q] # e <=> fds[q][e] = f /\ closing[q] # e
    <3>1. CASE q # p
      BY Zenon, <3>1, <1>3, <1>4
    <3>2. CASE q = p /\ e = d
      <4>1. fds'[q][e] # f /\ closing[q] = e
        BY ZenonT(30), <3>2, <1>3, Slots
      <4> QED
        BY Zenon, <4>1
    <3>3. CASE q = p /\ e # d
      <4>1. fds'[q][e] = fds[q][e] /\ closing'[q] # e /\ closing[q] # e
        BY Zenon, <3>3, <1>3, <1>4, Slots
      <4> QED
        BY Zenon, <4>1
    <3> QED
      BY Zenon, <3>1, <3>2, <3>3
  <2> QED
    BY SMTT(20), <2>1 DEF RefsOf
<1>6. Counted(ftable', fds', closing')
  BY Zenon, <1>t, <1>1, <1>3, <1>5 DEF Counted
<1>7. PlacesOK'
  <2> SUFFICES ASSUME NEW q \in Procs
               PROVE  /\ pc'[q] \in {"unborn", "user", "exit"} => closing'[q] = NoFd
                      /\ pc'[q] = "unborn" => \A e \in Fds : fds'[q][e] = NoFile
    BY Zenon DEF PlacesOK
  <2>1. CASE q = p
    BY Zenon, <2>1, <1>4
  <2>2. CASE q # p
    <3>1. /\ pc'[q] = pc[q] /\ closing'[q] = closing[q]
          /\ \A e \in Fds : fds'[q][e] = fds[q][e]
      BY Zenon, <2>2, <1>3, <1>4
    <3> QED
      BY Zenon, <3>1 DEF FInv, PlacesOK
  <2> QED
    BY Zenon, <2>1, <2>2
<1> QED
  BY Zenon, <1>1, <1>4, <1>6, <1>7 DEF FInv

LEMMA SpawnStep ==
  ASSUME FInv, NEW p \in Procs, NEW child \in Procs,
         NEW in \in Fds \cup {NoFd}, NEW out \in Fds \cup {NoFd},
         SysSpawn(p, child, in, out)
  PROVE  FInv'
<1> DEFINE s0 == [ft |-> ftable, fd |-> fds]
           s1 == Inherit(s0, p, child, 0, in, "CONSOLE_IN")
           s2 == Inherit(s1, p, child, 1, out, "CONSOLE_OUT")
           s  == IF in = NoFd /\ out = NoFd THEN ConsoleInitFds(s0, child) ELSE s2
<1>1. /\ pc[p] = "user" /\ pc[child] = "unborn"
      /\ ftable' = s.ft /\ fds' = s.fd
      /\ pc' = [pc EXCEPT ![child] = "user"]
      /\ UNCHANGED <<pipes, closing>>
  BY Zenon DEF SysSpawn
<1>2. /\ closing[p] = NoFd /\ closing[child] = NoFd /\ child # p
      /\ \A d \in Fds : fds[child][d] = NoFile
      /\ \A d \in Fds : closing[p] # d
  BY Zenon, <1>1, Slots DEF FInv, PlacesOK
<1>t. /\ Counted(ftable, fds, closing) /\ EndsOK(ftable, pipes) /\ fds \in Tables
      /\ pc \in [Procs -> Pcs]
  BY Zenon DEF FInv, Counted
<1>0. s0.ft = ftable /\ s0.fd = fds
  BY Zenon
<1> HIDE DEF s0
<1>f. 0 \in Fds /\ 1 \in Fds /\ 0 # 1
  BY StdFds
<1>3. /\ Counted(s.ft, s.fd, closing) /\ EndsOK(s.ft, pipes)
      /\ \A q \in Procs, e \in Fds : q # child => s.fd[q][e] = fds[q][e]
  <2>1. CASE in = NoFd /\ out = NoFd
    <3> DEFINE t == ConsoleInitFds(s0, child)
    <3>1. /\ Counted(t.ft, t.fd, closing) /\ EndsOK(t.ft, pipes)
          /\ \A q \in Procs, e \in Fds : q # child => t.fd[q][e] = s0.fd[q][e]
      BY SMTT(20), <1>0, <1>2, <1>t, ConsoleInitKept
    <3>2. s = t
      BY Zenon, <2>1
    <3> HIDE DEF t, s
    <3> QED
      BY Zenon, <3>1, <3>2, <1>0
  <2>2. CASE ~(in = NoFd /\ out = NoFd)
    <3>1. Kept(s0, s1, closing, pipes, child, 0)
      BY SMTT(20), <1>0, <1>2, <1>f, <1>t, InheritKept
    <3> HIDE DEF s1
    <3>2. /\ Counted(s1.ft, s1.fd, closing) /\ EndsOK(s1.ft, pipes)
          /\ s1.fd[child][1] = NoFile
          /\ \A e \in Fds : s1.fd[p][e] = fds[p][e]
      BY ZenonT(30), <3>1, <1>0, <1>2, <1>f DEF Kept
    <3>3. Kept(s1, s2, closing, pipes, child, 1)
      BY SMTT(20), <3>2, <1>2, <1>f, InheritKept
    <3>4. s = s2
      BY Zenon, <2>2
    <3> HIDE DEF s2, s
    <3>5. /\ Counted(s2.ft, s2.fd, closing) /\ EndsOK(s2.ft, pipes)
          /\ \A q \in Procs, e \in Fds : q # child => s2.fd[q][e] = fds[q][e]
      <4>1. ASSUME NEW q \in Procs, NEW e \in Fds, q # child
            PROVE  s2.fd[q][e] = fds[q][e]
        BY Zenon, <4>1, <3>1, <3>3, <1>0 DEF Kept
      <4> QED
        BY Zenon, <4>1, <3>3 DEF Kept
    <3> QED
      BY Zenon, <3>4, <3>5
  <2> QED
    BY Zenon, <2>1, <2>2
<1> HIDE DEF s
<1>4. ASSUME NEW d \in Fds, fds[p][d] # NoFile
      PROVE  ~(ftable[fds[p][d]].ref < 1)
  <2>1. fds[p][d] \in Files
    BY SMT, <1>4, <1>t DEF Tables
  <2>2. ftable[fds[p][d]].ref > 0
    BY Zenon, <2>1, <1>2, <1>t, HeldInUse
  <2>3. ftable[fds[p][d]].ref \in Nat
    BY Zenon, <2>1 DEF FInv, Counted, FileRec
  <2> QED
    BY <2>2, <2>3
<1>5. panicked' = FALSE
  <2>1. panicked' = \E d \in {in, out} \ {NoFd} :
                      fds[p][d] # NoFile /\ ftable[fds[p][d]].ref < 1
    BY Zenon DEF SysSpawn
  <2>2. ~(\E d \in {in, out} \ {NoFd} :
            fds[p][d] # NoFile /\ ftable[fds[p][d]].ref < 1)
    BY Zenon, <1>4
  <2> QED
    BY Zenon, <2>1, <2>2
<1>6. pc' \in [Procs -> Pcs]
  BY Zenon, <1>1, <1>t DEF Pcs
<1>7. PlacesOK'
  <2> SUFFICES ASSUME NEW q \in Procs
               PROVE  /\ pc'[q] \in {"unborn", "user", "exit"} => closing[q] = NoFd
                      /\ pc'[q] = "unborn" => \A e \in Fds : fds'[q][e] = NoFile
    BY Zenon, <1>1 DEF PlacesOK
  <2>1. CASE q = child
    BY Zenon, <2>1, <1>1, <1>2, <1>t
  <2>2. CASE q # child
    <3>1. pc'[q] = pc[q] /\ \A e \in Fds : fds'[q][e] = fds[q][e]
      BY Zenon, <2>2, <1>1, <1>3, <1>t
    <3> QED
      BY Zenon, <3>1 DEF FInv, PlacesOK
  <2> QED
    BY Zenon, <2>1, <2>2
<1> QED
  BY Zenon, <1>1, <1>3, <1>5, <1>6, <1>7 DEF FInv

LEMMA NextFInv == FInv /\ [Next]_vars => FInv'
<1> SUFFICES ASSUME FInv, [Next]_vars PROVE FInv'
  BY Zenon
<1>1. CASE UNCHANGED vars
  BY Zenon, <1>1 DEF vars, FInv, PlacesOK
<1>2. CASE Next
  BY Zenon, <1>2, OpenStep, PipeStep, CloseStep, TransferStep, ClosedStep,
     SpawnStep, QuietStep DEF Next
<1> QED
  BY Zenon, <1>1, <1>2

LEMMA FInvImplies == FInv => RefsCounted
<1> SUFFICES ASSUME FInv PROVE RefsCounted
  BY Zenon
<1>1. TypeOK
  BY Zenon DEF FInv, TypeOK, Counted, Tables, PipeRec, Pcs
<1>2. \A f \in Files : ftable[f].ref = Cardinality(Refs(f))
  BY Zenon DEF FInv, Counted, Refs, RefsOf
<1> QED
  BY Zenon, <1>1, <1>2, EndsCounted DEF FInv, RefsCounted

(* A file's count is the number of descriptors that refer to it, through    *)
(* sys_open, sys_pipe, sys_close with its sleep, sys_spawn, sys_exit and    *)
(* kills; pipe ends follow their files; and no KERN_PANIC of file_dup,      *)
(* file_close, file_read or file_write is ever reached.                     *)
THEOREM CountsSafe == Spec => []RefsCounted
  BY InitFInv, NextFInv, FInvImplies, PTL DEF Spec
==============================================================================
