------------------------------ MODULE LogProofs ------------------------------
(***************************************************************************)
(* Proofs about Log: for any number of processes, sectors and log blocks,  *)
(* crashes and kills included, transactions are exclusive and atomic, as   *)
(* long as no system call runs before the recovery has ended (Early = {}). *)
(***************************************************************************)
EXTENDS Log, TLAPS

(* No sector is logged twice, so that the order of installing does not      *)
(* matter.                                                                  *)
Distinct(q) == \A i, j \in 1 .. Len(q) : q[i] = q[j] => i = j

(* The blocks of the on-disk log before position n are at home.             *)
Installed(n) == \A i \in 1 .. Len(hdr) : i < n => disk[hdr[i]] = lblk[i]

(* The cache shows the logged blocks over the disk.                         *)
Buffered ==
  /\ \A i \in 1 .. Len(lh) : mem[lh[i]] = lblk[i]
  /\ \A s \in Sectors : ~Logged(s) => mem[s] = disk[s]

Booting ==
  first => /\ init = {} /\ ~busy /\ lh = <<>> /\ size = 0 /\ mem = disk
           /\ \A p \in Procs : pc[p] = "idle"

Recovering ==
  \A p \in init :
    /\ ~first /\ ~busy /\ mem = disk
    /\ \A q \in Procs : q # p => q \notin init /\ pc[q] = "idle"
    /\ pc[p] \in {"superblock", "readhead", "install", "erase"}
    /\ pc[p] \in {"superblock", "readhead"} => lh = <<>>
    /\ pc[p] # "superblock" => size = NLOG
    /\ pc[p] = "install" => lh = hdr /\ Installed(at[p])
    /\ pc[p] = "erase" => lh = <<>> /\ Installed(Len(hdr) + 1)

Exclusive ==
  /\ \A p, q \in Procs : InTrans(p) /\ InTrans(q) => p = q
  /\ \A p \in Procs : InTrans(p) \/ pc[p] = "sleep" => busy

Running ==
  Recovered =>
    /\ size = NLOG
    /\ \A p \in Procs : pc[p] \notin {"superblock", "readhead"}
    /\ ~busy => hdr = <<>> /\ lh = <<>> /\ mem = disk

TransOK(p) ==
  /\ pc[p] \in {"trans", "commit"} =>
       hdr = <<>> /\ Len(lh) <= MaxBlocks /\ Buffered
  /\ pc[p] = "install" => hdr = lh /\ Installed(at[p]) /\ Buffered
  /\ pc[p] = "erase" => lh = <<>> /\ Installed(Len(hdr) + 1) /\ mem = disk
  /\ pc[p] = "release" => hdr = <<>> /\ lh = <<>> /\ mem = disk

Transacting == Recovered => \A p \in Procs : TransOK(p)

IInv == /\ TypeOK /\ ~panicked /\ Distinct(hdr) /\ Distinct(lh)
        /\ Booting /\ Recovering /\ Exclusive /\ Running /\ Transacting

-----------------------------------------------------------------------------

(* Who is in the kernel: a process that recovers is alone.                  *)
LEMMA Phases ==
  ASSUME IInv, NEW p \in Procs, pc[p] # "idle"
  PROVE  \/ Recovered
         \/ ~first /\ init = {p}
BY Zenon DEF IInv, TypeOK, Booting, Recovering, Recovered

(* In a transaction a process is alone, too.                                *)
LEMMA Alone ==
  ASSUME IInv, Recovered, NEW p \in Procs, NEW q \in Procs, q # p,
         pc[p] \in {"trans", "commit", "install", "erase", "release"}
  PROVE  busy /\ pc[q] \notin {"trans", "commit", "install", "erase", "release"}
BY Zenon DEF IInv, Exclusive, InTrans, Recovered

LEMMA TransKept ==
  ASSUME NEW q \in Procs, TransOK(q), pc'[q] = pc[q],
         UNCHANGED <<disk, hdr, lblk, mem, lh, at>>
  PROVE  TransOK(q)'
BY Zenon DEF TransOK, Installed, Buffered, Logged

LEMMA InitInv == Init => IInv
<1> SUFFICES ASSUME Init PROVE IInv
  BY Zenon
<1>1. TypeOK
  <2>1. <<>> \in Seq(Sectors) /\ Len(<<>>) = 0
    OBVIOUS
  <2>2. pc \in [Procs -> Pcs] /\ at \in [Procs -> 1 .. LOGSIZE + 1]
    BY LogAssumption DEF Init, Pcs
  <2>3. disk \in [Sectors -> Blocks] /\ mem \in [Sectors -> Blocks]
        /\ lblk \in [Slots -> Blocks]
    BY Zenon DEF Init
  <2>4. /\ hdr \in Seq(Sectors) /\ Len(hdr) <= LOGSIZE
        /\ lh \in Seq(Sectors) /\ Len(lh) <= LOGSIZE
    BY <2>1, LogAssumption DEF Init
  <2>5. /\ busy \in BOOLEAN /\ first \in BOOLEAN /\ panicked \in BOOLEAN
        /\ size \in {0, NLOG} /\ init \subseteq Procs
    BY Zenon DEF Init
  <2> QED BY Zenon, <2>2, <2>3, <2>4, <2>5 DEF TypeOK
<1>2. Distinct(hdr) /\ Distinct(lh) /\ ~panicked /\ Booting
  BY DEF Init, Distinct, Booting
<1>3. Recovering /\ Exclusive /\ Running /\ Transacting
  BY Zenon
     DEF Init, Recovering, Exclusive, Running, Transacting, Recovered, InTrans
<1> QED BY Zenon, <1>1, <1>2, <1>3 DEF IInv

LEMMA FirstOpenInv ==
  ASSUME IInv, Early = {}, NEW p \in Procs, FirstOpen(p)
  PROVE  IInv'
<1> USE DEF FirstOpen, Goto
<1>1. TypeOK' /\ ~panicked'
  BY Zenon, LogAssumption DEF IInv, TypeOK, Slots, Pcs
<1>2. Distinct(hdr)' /\ Distinct(lh)'
  BY DEF IInv, TypeOK, Distinct
<1>3. Booting'
  BY Zenon, Phases DEF IInv, TypeOK, Booting, Recovering, Recovered, MayCall
<1>4. Recovering'
  BY Phases DEF IInv, TypeOK, Booting, Recovering, Recovered, MayCall, Installed
<1>5. Exclusive'
  BY Phases
     DEF IInv, TypeOK, Booting, Recovering, Running, Exclusive, InTrans,
         Recovered, MayCall
<1>6. Running'
  BY Zenon, Phases
     DEF IInv, TypeOK, Booting, Recovering, Exclusive, Running, Transacting,
         InTrans, Recovered, MayCall, Installed
<1>7. Transacting'
  BY Zenon, Phases
     DEF IInv, TypeOK, Booting, Recovering, Exclusive, Running, Transacting,
         InTrans, Recovered, MayCall, Installed, Buffered, Logged
<1> QED BY Zenon, <1>1, <1>2, <1>3, <1>4, <1>5, <1>6, <1>7 DEF IInv

LEMMA ReadSuperblockInv ==
  ASSUME IInv, Early = {}, NEW p \in Procs, ReadSuperblock(p)
  PROVE  IInv'
<1> USE DEF ReadSuperblock, Goto
<1>1. TypeOK' /\ ~panicked'
  BY Zenon, LogAssumption DEF IInv, TypeOK, Slots, Pcs
<1>2. Distinct(hdr)' /\ Distinct(lh)'
  BY DEF IInv, TypeOK, Distinct
<1>3. Booting'
  BY Zenon, Phases DEF IInv, TypeOK, Booting, Recovering, Recovered, MayCall
<1>4. Recovering'
  BY Phases DEF IInv, TypeOK, Booting, Recovering, Recovered, MayCall, Installed
<1>5. Exclusive'
  BY Phases
     DEF IInv, TypeOK, Booting, Recovering, Running, Exclusive, InTrans,
         Recovered, MayCall
<1>6. Running'
  BY Zenon, Phases
     DEF IInv, TypeOK, Booting, Recovering, Exclusive, Running, Transacting,
         InTrans, Recovered, MayCall, Installed
<1>7. Transacting'
  BY Zenon, Phases
     DEF IInv, TypeOK, Booting, Recovering, Exclusive, Running, Transacting,
         InTrans, Recovered, MayCall, Installed, Buffered, Logged
<1> QED BY Zenon, <1>1, <1>2, <1>3, <1>4, <1>5, <1>6, <1>7 DEF IInv

LEMMA ReadHeadInv ==
  ASSUME IInv, Early = {}, NEW p \in Procs, ReadHead(p)
  PROVE  IInv'
<1> USE DEF ReadHead, Goto
<1>1. TypeOK' /\ ~panicked'
  BY LogAssumption DEF IInv, TypeOK, Slots, Pcs
<1>2. Distinct(hdr)' /\ Distinct(lh)'
  BY Zenon DEF IInv, TypeOK, Distinct
<1>3. Booting'
  BY Zenon, Phases DEF IInv, TypeOK, Booting, Recovering, Recovered, MayCall
<1>4. Recovering'
  BY Phases DEF IInv, TypeOK, Booting, Recovering, Recovered, MayCall, Installed
<1>5. Exclusive'
  BY Phases
     DEF IInv, TypeOK, Booting, Recovering, Running, Exclusive, InTrans,
         Recovered, MayCall
<1>6. Running'
  BY Zenon, Phases
     DEF IInv, TypeOK, Booting, Recovering, Exclusive, Running, Transacting,
         InTrans, Recovered, MayCall, Installed
<1>7. Transacting'
  BY Zenon, Phases
     DEF IInv, TypeOK, Booting, Recovering, Exclusive, Running, Transacting,
         InTrans, Recovered, MayCall, Installed, Buffered, Logged
<1> QED BY Zenon, <1>1, <1>2, <1>3, <1>4, <1>5, <1>6, <1>7 DEF IInv

LEMMA BeginTransInv ==
  ASSUME IInv, Early = {}, NEW p \in Procs, BeginTrans(p)
  PROVE  IInv'
<1> USE DEF BeginTrans, Goto
<1>1. TypeOK' /\ ~panicked'
  BY Zenon, LogAssumption DEF IInv, TypeOK, Slots, Pcs
<1>2. Distinct(hdr)' /\ Distinct(lh)'
  BY DEF IInv, TypeOK, Distinct
<1>3. Booting'
  BY Zenon, Phases DEF IInv, TypeOK, Booting, Recovering, Recovered, MayCall
<1>4. Recovering'
  BY Zenon, Phases
     DEF IInv, TypeOK, Booting, Recovering, Recovered, MayCall, Installed
<1>5. Exclusive'
  BY SMTT(30), Phases
     DEF IInv, TypeOK, Booting, Recovering, Running, Exclusive, InTrans,
         Recovered, MayCall
<1>6. Running'
  BY Zenon, Phases
     DEF IInv, TypeOK, Booting, Recovering, Exclusive, Running, Transacting,
         InTrans, Recovered, MayCall, Installed
<1>7. Transacting'
  <2> SUFFICES ASSUME Recovered, NEW q \in Procs PROVE TransOK(q)'
    BY Zenon DEF Transacting, Recovered
  <2>1. TransOK(q)
    BY Zenon DEF IInv, Transacting
  <2>2. CASE pc'[q] = pc[q]
    BY Zenon, <2>1, <2>2, TransKept
  <2>3. CASE q = p /\ pc'[q] = "sleep"
    BY Zenon, <2>3 DEF TransOK
  <2>4. CASE q = p /\ pc'[q] = "trans" /\ ~busy
    <3>1. hdr = <<>> /\ lh = <<>> /\ mem = disk
      BY Zenon, <2>4 DEF IInv, Running
    <3> QED BY <2>4, <3>1, LogAssumption DEF TransOK, Buffered, Logged
  <2> QED BY Zenon, <2>2, <2>3, <2>4 DEF IInv, TypeOK
<1> QED BY Zenon, <1>1, <1>2, <1>3, <1>4, <1>5, <1>6, <1>7 DEF IInv

LEMMA CommitTransInv ==
  ASSUME IInv, Early = {}, NEW p \in Procs, CommitTrans(p)
  PROVE  IInv'
<1> USE DEF CommitTrans, Goto
<1>1. TypeOK' /\ ~panicked'
  BY Zenon, LogAssumption DEF IInv, TypeOK, Slots, Pcs
<1>2. Distinct(hdr)' /\ Distinct(lh)'
  BY Zenon DEF IInv, TypeOK, Distinct
<1>3. Booting'
  BY Zenon, Phases DEF IInv, TypeOK, Booting, Recovering, Recovered, MayCall
<1>4. Recovering'
  BY Zenon, Phases
     DEF IInv, TypeOK, Booting, Recovering, Recovered, MayCall, Installed
<1>5. Exclusive'
  BY Phases
     DEF IInv, TypeOK, Booting, Recovering, Running, Exclusive, InTrans,
         Recovered, MayCall
<1>6. Running'
  BY Zenon, Phases
     DEF IInv, TypeOK, Booting, Recovering, Exclusive, Running, Transacting,
         InTrans, Recovered, MayCall, Installed
<1>7. Transacting'
  <2> SUFFICES ASSUME Recovered, NEW q \in Procs PROVE TransOK(q)'
    BY Zenon DEF Transacting, Recovered
  <2>1. TransOK(q)
    BY Zenon DEF IInv, Transacting
  <2>2. CASE q # p
    BY Zenon, <2>1, <2>2, TransKept DEF IInv, TypeOK
  <2>3. CASE q = p /\ lh # <<>>
    BY Zenon, <2>1, <2>3 DEF TransOK, Buffered, Logged, IInv, TypeOK
  <2>4. CASE q = p /\ lh = <<>>
    <3>1. mem = disk
      BY <2>1, <2>4 DEF TransOK, Buffered, Logged, IInv, TypeOK
    <3> QED BY Zenon, <2>1, <2>4, <3>1 DEF TransOK, IInv, TypeOK
  <2> QED BY Zenon, <2>2, <2>3, <2>4
<1> QED BY Zenon, <1>1, <1>2, <1>3, <1>4, <1>5, <1>6, <1>7 DEF IInv

LEMMA WriteHeadInv ==
  ASSUME IInv, Early = {}, NEW p \in Procs, WriteHead(p)
  PROVE  IInv'
<1> USE DEF WriteHead, Goto
<1>1. TypeOK' /\ ~panicked'
  BY LogAssumption DEF IInv, TypeOK, Slots, Pcs
<1>2. Distinct(hdr)' /\ Distinct(lh)'
  BY Zenon DEF IInv, TypeOK, Distinct
<1>3. Booting'
  BY Zenon, Phases DEF IInv, TypeOK, Booting, Recovering, Recovered, MayCall
<1>4. Recovering'
  BY Zenon, Phases
     DEF IInv, TypeOK, Booting, Recovering, Recovered, MayCall, Installed
<1>5. Exclusive'
  BY Phases
     DEF IInv, TypeOK, Booting, Recovering, Running, Exclusive, InTrans,
         Recovered, MayCall
<1>6. Running'
  BY Zenon, Phases
     DEF IInv, TypeOK, Booting, Recovering, Exclusive, Running, Transacting,
         InTrans, Recovered, MayCall, Installed
<1>7. Transacting'
  <2> SUFFICES ASSUME Recovered, NEW q \in Procs PROVE TransOK(q)'
    BY Zenon DEF Transacting, Recovered
  <2>1. TransOK(p)
    BY Zenon DEF IInv, Transacting
  <2>2. CASE q # p
    BY Zenon, <2>2, Alone DEF TransOK, IInv, TypeOK
  <2>3. CASE q = p
    <3>1. Buffered'
      BY Zenon, <2>1 DEF TransOK, Buffered, Logged
    <3>2. Installed(at[p])'
      BY LogAssumption DEF Installed, IInv, TypeOK
    <3> QED BY Zenon, <2>3, <3>1, <3>2 DEF TransOK, IInv, TypeOK
  <2> QED BY Zenon, <2>2, <2>3
<1> QED BY Zenon, <1>1, <1>2, <1>3, <1>4, <1>5, <1>6, <1>7 DEF IInv

LEMMA InstallInv ==
  ASSUME IInv, Early = {}, NEW p \in Procs, Install(p)
  PROVE  IInv'
<1> USE DEF Install, Goto
<1>0. /\ at[p] \in 1 .. Len(lh) /\ lh[at[p]] \in Sectors
      /\ lblk[at[p]] \in Blocks /\ Len(lh) <= LOGSIZE /\ at[p] + 1 \in 1 .. LOGSIZE + 1
  BY LogAssumption DEF IInv, TypeOK, Slots
<1>1. TypeOK' /\ ~panicked'
  BY Zenon, <1>0 DEF IInv, TypeOK
<1>2. Distinct(hdr)' /\ Distinct(lh)'
  BY Zenon DEF IInv, TypeOK, Distinct
<1>3. Booting'
  BY Zenon, Phases DEF IInv, TypeOK, Booting, Recovering, Recovered, MayCall
<1>8. ASSUME hdr = lh, Installed(at[p]) PROVE Installed(at[p])'
  <2> SUFFICES ASSUME NEW i \in 1 .. Len(hdr), i < at[p] + 1
               PROVE  disk'[hdr[i]] = lblk[i]
    BY Zenon, <1>0 DEF Installed, IInv, TypeOK
  <2>1. CASE i = at[p]
    BY Zenon, <1>0, <1>8, <2>1 DEF IInv, TypeOK
  <2>2. CASE i < at[p]
    <3>1. hdr[i] # hdr[at[p]]
      BY <1>0, <1>8, <2>2 DEF IInv, Distinct
    <3> QED BY <1>0, <1>8, <2>2, <3>1 DEF Installed, IInv, TypeOK
  <2> QED BY <1>0, <2>1, <2>2
<1>4. Recovering'
  <2> SUFFICES ASSUME NEW r \in init PROVE r = p /\ Recovering'
    BY Zenon DEF Recovering
  <2>1. r = p
    BY Zenon DEF IInv, Recovering
  <2>2. hdr = lh /\ Installed(at[p]) /\ mem = disk
    BY Zenon, <2>1 DEF IInv, Recovering
  <2>3. Installed(at[p])' /\ mem' = disk'
    BY Zenon, <1>8, <2>2
  <2> QED BY Zenon, <2>1, <2>2, <2>3 DEF IInv, Recovering
<1>5. Exclusive'
  BY Zenon, Phases
     DEF IInv, TypeOK, Booting, Recovering, Running, Exclusive, InTrans,
         Recovered, MayCall
<1>6. Running'
  BY Zenon, Phases
     DEF IInv, TypeOK, Booting, Recovering, Exclusive, Running, Transacting,
         InTrans, Recovered, MayCall, Installed
<1>7. Transacting'
  <2> SUFFICES ASSUME Recovered, NEW q \in Procs PROVE TransOK(q)'
    BY Zenon DEF Transacting, Recovered
  <2>1. hdr = lh /\ Installed(at[p]) /\ Buffered
    BY Zenon DEF IInv, Transacting, TransOK
  <2>2. CASE q # p
    BY Zenon, <2>2, Alone DEF TransOK
  <2>3. CASE q = p
    <3>1. \A i \in 1 .. Len(lh) : mem'[lh[i]] = lblk[i]
      BY <1>0, <2>1 DEF Buffered, IInv, TypeOK, Distinct
    <3>2. \A s \in Sectors : ~Logged(s) => mem'[s] = disk'[s]
      BY Zenon, <1>0, <2>1 DEF Buffered, Logged, IInv, TypeOK
    <3>3. Buffered'
      BY <3>1, <3>2 DEF Buffered, Logged
    <3> QED BY Zenon, <1>8, <2>1, <2>3, <3>3 DEF TransOK
  <2> QED BY Zenon, <2>2, <2>3
<1> QED BY Zenon, <1>1, <1>2, <1>3, <1>4, <1>5, <1>6, <1>7 DEF IInv

LEMMA InstallDoneInv ==
  ASSUME IInv, Early = {}, NEW p \in Procs, InstallDone(p)
  PROVE  IInv'
<1> USE DEF InstallDone, Goto
<1>0. Distinct(<<>>) /\ <<>> \in Seq(Sectors) /\ Len(<<>>) = 0
  BY DEF Distinct
<1>1. TypeOK' /\ ~panicked'
  BY <1>0, LogAssumption DEF IInv, TypeOK, Pcs
<1>2. Distinct(hdr)' /\ Distinct(lh)'
  BY <1>0 DEF IInv, Distinct
<1>3. Booting'
  BY Zenon, Phases DEF IInv, TypeOK, Booting, Recovering, Recovered, MayCall
<1>8. ASSUME hdr = lh, Installed(at[p]) PROVE Installed(Len(hdr) + 1)'
  BY <1>8 DEF Installed, IInv, TypeOK
<1>4. Recovering'
  <2> SUFFICES ASSUME NEW r \in init PROVE r = p /\ Recovering'
    BY Zenon DEF Recovering
  <2>1. r = p
    BY Zenon DEF IInv, Recovering
  <2>2. Installed(Len(hdr) + 1)'
    BY Zenon, <1>8, <2>1 DEF IInv, Recovering
  <2> QED BY Zenon, <2>1, <2>2 DEF IInv, TypeOK, Recovering
<1>5. Exclusive'
  BY Phases
     DEF IInv, TypeOK, Booting, Recovering, Running, Exclusive, InTrans,
         Recovered, MayCall
<1>6. Running'
  BY Zenon, Phases
     DEF IInv, TypeOK, Booting, Recovering, Exclusive, Running, Transacting,
         InTrans, Recovered, MayCall, Installed
<1>7. Transacting'
  <2> SUFFICES ASSUME Recovered, NEW q \in Procs PROVE TransOK(q)'
    BY Zenon DEF Transacting, Recovered
  <2>1. hdr = lh /\ Installed(at[p]) /\ Buffered
    BY Zenon DEF IInv, Transacting, TransOK
  <2>2. CASE q # p
    BY Zenon, <2>2, Alone DEF TransOK, IInv, TypeOK
  <2>3. CASE q = p
    <3>1. \A s \in Sectors : mem[s] = disk[s]
      BY <2>1 DEF Buffered, Installed, Logged, IInv, TypeOK
    <3>2. mem = disk
      BY <3>1 DEF IInv, TypeOK
    <3> QED BY Zenon, <1>8, <2>1, <2>3, <3>2 DEF TransOK, IInv, TypeOK
  <2> QED BY Zenon, <2>2, <2>3
<1> QED BY Zenon, <1>1, <1>2, <1>3, <1>4, <1>5, <1>6, <1>7 DEF IInv

LEMMA EraseHeadInv ==
  ASSUME IInv, Early = {}, NEW p \in Procs, EraseHead(p)
  PROVE  IInv'
<1> USE DEF EraseHead, Goto
<1>1. TypeOK' /\ ~panicked'
  BY Zenon, LogAssumption DEF IInv, TypeOK, Slots, Pcs
<1>2. Distinct(hdr)' /\ Distinct(lh)'
  BY Zenon DEF IInv, TypeOK, Distinct
<1>3. Booting'
  BY Zenon, Phases DEF IInv, TypeOK, Booting, Recovering, Recovered, MayCall
<1>4. Recovering'
  BY Zenon, Phases
     DEF IInv, TypeOK, Booting, Recovering, Recovered, MayCall, Installed
<1>5. Exclusive'
  BY Phases
     DEF IInv, TypeOK, Booting, Recovering, Running, Exclusive, InTrans,
         Recovered, MayCall
<1>6. Running'
  <2>1. CASE p \in init
    BY Zenon, <2>1 DEF IInv, TypeOK, Recovering, Running, Recovered
  <2>2. CASE p \notin init
    <3>1. Recovered /\ busy /\ init' = init
      BY Zenon, <2>2, Phases DEF IInv, Exclusive, InTrans, TypeOK
    <3> QED BY Zenon, <3>1 DEF IInv, TypeOK, Running, Recovered
  <2> QED BY Zenon, <2>1, <2>2
<1>7. Transacting'
  <2> SUFFICES ASSUME Recovered', NEW q \in Procs PROVE TransOK(q)'
    BY Zenon DEF Transacting
  <2>1. CASE p \in init
    BY Zenon, <2>1 DEF IInv, TypeOK, Recovering, TransOK
  <2>2. CASE p \notin init
    <3>1. Recovered
      BY Zenon, <2>2, Phases DEF IInv
    <3>2. TransOK(p)
      BY Zenon, <3>1 DEF IInv, Transacting
    <3>3. CASE q # p
      BY Zenon, <3>1, <3>3, Alone DEF TransOK, IInv, TypeOK
    <3>4. CASE q = p
      BY Zenon, <2>2, <3>2, <3>4 DEF TransOK, IInv, TypeOK
    <3> QED BY Zenon, <3>3, <3>4
  <2> QED BY Zenon, <2>1, <2>2
<1> QED BY Zenon, <1>1, <1>2, <1>3, <1>4, <1>5, <1>6, <1>7 DEF IInv

LEMMA ReleaseInv ==
  ASSUME IInv, Early = {}, NEW p \in Procs, Release(p)
  PROVE  IInv'
<1> USE DEF Release, Goto
<1>1. TypeOK' /\ ~panicked'
  BY Zenon, LogAssumption DEF IInv, TypeOK, Slots, Pcs
<1>2. Distinct(hdr)' /\ Distinct(lh)'
  BY Zenon DEF IInv, TypeOK, Distinct
<1>3. Booting'
  BY Zenon, Phases DEF IInv, TypeOK, Booting, Recovering, Recovered, MayCall
<1>4. Recovering'
  BY Zenon, Phases
     DEF IInv, TypeOK, Booting, Recovering, Recovered, MayCall, Installed
<1>5. Exclusive'
  BY Zenon, Phases
     DEF IInv, TypeOK, Booting, Recovering, Running, Exclusive, InTrans,
         Recovered, MayCall
<1>0. Recovered /\ hdr = <<>> /\ lh = <<>> /\ mem = disk
  BY Zenon, Phases DEF IInv, Recovering, Transacting, TransOK
<1>6. Running'
  BY Zenon, <1>0 DEF IInv, TypeOK, Running, Recovered
<1>7. Transacting'
  <2> SUFFICES ASSUME NEW q \in Procs PROVE TransOK(q)'
    BY Zenon DEF Transacting
  <2>1. pc'[q] \notin {"trans", "commit", "install", "erase", "release"}
    BY Zenon, <1>0, Alone DEF IInv, TypeOK
  <2> QED BY Zenon, <2>1 DEF TransOK
<1> QED BY Zenon, <1>1, <1>2, <1>3, <1>4, <1>5, <1>6, <1>7 DEF IInv

LEMMA KillInv ==
  ASSUME IInv, Early = {}, NEW p \in Procs, Kill(p)
  PROVE  IInv'
<1> USE DEF Kill, Goto
<1>1. TypeOK' /\ ~panicked'
  BY Zenon, LogAssumption DEF IInv, TypeOK, Slots, Pcs
<1>2. Distinct(hdr)' /\ Distinct(lh)'
  BY DEF IInv, TypeOK, Distinct
<1>3. Booting'
  BY Zenon, Phases DEF IInv, TypeOK, Booting, Recovering, Recovered, MayCall
<1>4. Recovering'
  BY Zenon, Phases
     DEF IInv, TypeOK, Booting, Recovering, Recovered, MayCall, Installed
<1>5. Exclusive'
  BY Phases
     DEF IInv, TypeOK, Booting, Recovering, Running, Exclusive, InTrans,
         Recovered, MayCall
<1>6. Running'
  BY Phases
     DEF IInv, TypeOK, Booting, Recovering, Exclusive, Running, Transacting,
         InTrans, Recovered, MayCall, Installed
<1>7. Transacting'
  <2> SUFFICES ASSUME Recovered, NEW q \in Procs PROVE TransOK(q)'
    BY Zenon DEF Transacting, Recovered
  <2>1. CASE q # p
    BY Zenon, <2>1, TransKept DEF IInv, TypeOK, Transacting
  <2>2. CASE q = p
    BY Zenon, <2>2 DEF TransOK, IInv, TypeOK
  <2> QED BY Zenon, <2>1, <2>2
<1> QED BY Zenon, <1>1, <1>2, <1>3, <1>4, <1>5, <1>6, <1>7 DEF IInv

LEMMA SlotFact ==
  ASSUME NEW s \in Sectors, lh \in Seq(Sectors), Len(lh) < LOGSIZE
  PROVE  /\ Slot(s) \in 1 .. LOGSIZE
         /\ Logged(s) => Slot(s) \in 1 .. Len(lh) /\ lh[Slot(s)] = s
         /\ ~Logged(s) => Slot(s) = Len(lh) + 1
<1>1. CASE Logged(s)
  <2>1. Slot(s) \in 1 .. Len(lh) /\ lh[Slot(s)] = s
    BY Zenon, <1>1 DEF Slot, Logged
  <2> QED BY <1>1, <2>1, LogAssumption
<1>2. CASE ~Logged(s)
  BY <1>2, LogAssumption DEF Slot
<1> QED BY Zenon, <1>1, <1>2

(* What a log_write finds and does.                                         *)
LEMMA LogWriteFact ==
  ASSUME IInv, NEW p \in Procs, NEW s \in Sectors, NEW b \in Blocks, LogWrite(p, s, b)
  PROVE  /\ Recovered /\ busy /\ hdr = <<>> /\ Len(lh) <= MaxBlocks /\ Buffered
         /\ Slot(s) \in Slots
         /\ lblk' = [lblk EXCEPT ![Slot(s)] = b] /\ panicked' = panicked
         /\ lh' = IF Logged(s) THEN lh ELSE Append(lh, s)
         /\ Len(lh') <= MaxBlocks /\ lh' \in Seq(Sectors)
         /\ ~Logged(s) => Len(lh') = Len(lh) + 1
<1>1. Recovered
  BY Zenon, Phases DEF LogWrite, IInv, Recovering
<1>2. busy /\ hdr = <<>> /\ Len(lh) <= MaxBlocks /\ Buffered /\ size = NLOG
  BY Zenon, <1>1
     DEF LogWrite, IInv, Transacting, TransOK, Exclusive, InTrans, Running
<1>3. ~TooBig
  BY <1>2, LogAssumption DEF TooBig, IInv, TypeOK
<1>4. lh \in Seq(Sectors) /\ Len(lh) < LOGSIZE
  BY <1>2, LogAssumption DEF IInv, TypeOK
<1>5. Slot(s) \in Slots
  BY Zenon, <1>4, SlotFact DEF Slots
<1>6. /\ lblk' = [lblk EXCEPT ![Slot(s)] = b]
      /\ lh' = IF Logged(s) THEN lh ELSE Append(lh, s)
      /\ panicked' = panicked
  BY Zenon, <1>2, <1>3 DEF LogWrite
<1>7. Logged(s) \/ Len(lh) < MaxBlocks
  BY Zenon DEF LogWrite
<1>8. /\ Len(lh') <= MaxBlocks /\ lh' \in Seq(Sectors)
      /\ ~Logged(s) => Len(lh') = Len(lh) + 1
  BY <1>2, <1>4, <1>6, <1>7, LogAssumption
<1> QED BY Zenon, <1>1, <1>2, <1>5, <1>6, <1>8

LEMMA LogWriteInv ==
  ASSUME IInv, Early = {}, NEW p \in Procs, NEW s \in Sectors, NEW b \in Blocks,
         LogWrite(p, s, b)
  PROVE  IInv'
<1>0. /\ UNCHANGED <<disk, hdr, busy, size, first, pc, init, at>>
      /\ pc[p] = "trans" /\ mem' = [mem EXCEPT ![s] = b]
  BY Zenon DEF LogWrite
<1>a. lh \in Seq(Sectors) /\ Len(lh) < LOGSIZE /\ Len(lh') < LOGSIZE
  BY LogWriteFact, LogAssumption DEF IInv, TypeOK
<1>1. TypeOK' /\ ~panicked'
  <2>0. lblk' = [lblk EXCEPT ![Slot(s)] = b] /\ Slot(s) \in Slots
    BY Zenon, LogWriteFact
  <2>1. lblk' \in [Slots -> Blocks] /\ mem' \in [Sectors -> Blocks]
    BY Zenon, <1>0, <2>0 DEF IInv, TypeOK
  <2>2. lh' \in Seq(Sectors) /\ Len(lh') <= LOGSIZE /\ panicked' = panicked
    BY <1>a, LogWriteFact, LogAssumption
  <2> QED BY Zenon, <1>0, <2>1, <2>2 DEF IInv, TypeOK
<1>2. Distinct(hdr)' /\ Distinct(lh)'
  <2>1. CASE Logged(s)
    BY <1>0, <2>1, LogWriteFact DEF IInv, Distinct
  <2>2. CASE ~Logged(s)
    <3>1. lh' = Append(lh, s) /\ Len(lh') = Len(lh) + 1
      BY Zenon, <2>2, LogWriteFact
    <3>2. \A i \in 1 .. Len(lh) : lh'[i] = lh[i] /\ lh[i] # s
      BY <1>a, <2>2, <3>1 DEF Logged
    <3>3. lh'[Len(lh) + 1] = s
      BY <1>a, <3>1
    <3>4. Distinct(lh)'
      BY <1>a, <3>1, <3>2, <3>3 DEF IInv, Distinct
    <3> QED BY Zenon, <1>0, <3>4 DEF IInv, Distinct
  <2> QED BY Zenon, <2>1, <2>2
<1>3. Booting' /\ Recovering'
  BY Zenon, <1>0, LogWriteFact DEF Booting, Recovering, Recovered
<1>4. Exclusive'
  BY Zenon, <1>0 DEF IInv, Exclusive, InTrans
<1>5. Running'
  BY Zenon, <1>0, LogWriteFact DEF IInv, Running, Recovered
<1>6. Buffered'
  <2>1. \A i \in 1 .. Len(lh') : mem'[lh'[i]] = lblk'[i]
    <3> SUFFICES ASSUME NEW i \in 1 .. Len(lh') PROVE mem'[lh'[i]] = lblk'[i]
      BY Zenon
    <3>0. i \in Slots /\ lh'[i] \in Sectors
      BY <1>a, LogWriteFact, LogAssumption DEF Slots
    <3>1. CASE lh'[i] = s
      <4>1. i = Slot(s)
        <5>1. CASE Logged(s)
          BY SMTT(30), <1>a, <3>1, <5>1, LogWriteFact, SlotFact DEF IInv, Distinct
        <5>2. CASE ~Logged(s)
          <6>1. lh' = Append(lh, s) /\ Len(lh') = Len(lh) + 1 /\ Slot(s) = Len(lh) + 1
            BY Zenon, <1>a, <5>2, LogWriteFact, SlotFact
          <6>2. \A j \in 1 .. Len(lh) : lh'[j] = lh[j] /\ lh[j] # s
            BY <1>a, <5>2, <6>1 DEF Logged
          <6> QED BY <1>a, <3>1, <6>1, <6>2
        <5> QED BY Zenon, <5>1, <5>2
      <4> QED BY <1>0, <3>0, <3>1, <4>1, LogWriteFact DEF IInv, TypeOK
    <3>2. CASE lh'[i] # s
      <4>1. i \in 1 .. Len(lh) /\ lh'[i] = lh[i]
        BY SMTT(30), <1>a, <3>2, LogWriteFact
      <4>2. i # Slot(s)
        BY <1>a, <3>2, <4>1, LogWriteFact, SlotFact
      <4>3. mem[lh[i]] = lblk[i]
        BY Zenon, <4>1, LogWriteFact DEF Buffered
      <4> QED BY <1>0, <3>0, <3>2, <4>1, <4>2, <4>3, LogWriteFact
                 DEF IInv, TypeOK
    <3> QED BY Zenon, <3>1, <3>2
  <2>2. ASSUME NEW u \in Sectors, ~Logged(u)' PROVE mem'[u] = disk'[u]
    <3>1. ~Logged(u) /\ u # s
      BY SMTT(30), <1>a, <2>2, LogWriteFact DEF Logged
    <3> QED BY Zenon, <1>0, <3>1, LogWriteFact DEF Buffered, IInv, TypeOK
  <2> QED BY Zenon, <2>1, <2>2 DEF Buffered
<1>7. Transacting'
  <2> SUFFICES ASSUME NEW q \in Procs PROVE TransOK(q)'
    BY Zenon DEF Transacting
  <2>1. CASE q = p
    BY Zenon, <1>0, <1>6, <2>1, LogWriteFact DEF TransOK
  <2>2. CASE q # p
    BY Zenon, <1>0, <2>2, LogWriteFact, Alone DEF TransOK
  <2> QED BY Zenon, <2>1, <2>2
<1> QED BY Zenon, <1>1, <1>2, <1>3, <1>4, <1>5, <1>7 DEF IInv

LEMMA CrashInv ==
  ASSUME IInv, Crash
  PROVE  IInv'
<1>1. TypeOK' /\ ~panicked'
  <2>1. <<>> \in Seq(Sectors) /\ Len(<<>>) = 0
    OBVIOUS
  <2>2. pc' \in [Procs -> Pcs] /\ at' \in [Procs -> 1 .. LOGSIZE + 1]
    BY LogAssumption DEF Crash, Pcs
  <2>3. /\ hdr' \in Seq(Sectors) /\ Len(hdr') <= LOGSIZE
        /\ lh' \in Seq(Sectors) /\ Len(lh') <= LOGSIZE
    BY <2>1, LogAssumption DEF Crash, IInv, TypeOK
  <2>4. /\ busy' \in BOOLEAN /\ first' \in BOOLEAN /\ panicked' \in BOOLEAN /\ ~panicked'
        /\ size' \in {0, NLOG} /\ init' \subseteq Procs
        /\ disk' \in [Sectors -> Blocks] /\ mem' \in [Sectors -> Blocks]
        /\ lblk' \in [Slots -> Blocks]
    BY Zenon DEF Crash, IInv, TypeOK
  <2> QED BY Zenon, <2>2, <2>3, <2>4 DEF TypeOK
<1>2. Distinct(hdr)' /\ Distinct(lh)'
  BY DEF IInv, Crash, Distinct
<1>3. Booting' /\ Recovering' /\ Exclusive' /\ Running' /\ Transacting'
  BY Zenon
     DEF Crash, Booting, Recovering, Exclusive, InTrans, Running, Transacting,
         Recovered
<1> QED BY Zenon, <1>1, <1>2, <1>3 DEF IInv

LEMMA StepInv ==
  ASSUME Early = {}
  PROVE  IInv /\ [Next]_vars => IInv'
<1> SUFFICES ASSUME IInv, [Next]_vars PROVE IInv'
  BY Zenon
<1>1. CASE UNCHANGED vars
  BY <1>1
     DEF vars, IInv, TypeOK, Distinct, Booting, Recovering, Exclusive,
         InTrans, Running, Transacting, TransOK, Recovered, Installed,
         Buffered, Logged
<1>2. CASE Crash
  BY Zenon, <1>2, CrashInv
<1>3. ASSUME NEW p \in Procs, Step(p) PROVE IInv'
  BY Zenon, <1>3, FirstOpenInv, ReadSuperblockInv, ReadHeadInv, BeginTransInv,
     LogWriteInv, CommitTransInv, WriteHeadInv, InstallInv, InstallDoneInv,
     EraseHeadInv, ReleaseInv, KillInv
     DEF Step
<1> QED BY Zenon, <1>1, <1>2, <1>3 DEF Next

LEMMA Invariance ==
  ASSUME Early = {}
  PROVE  Spec => []IInv
<1>1. IInv /\ [Next]_vars => IInv'
  BY Zenon, StepInv
<1> QED BY <1>1, InitInv, PTL DEF Spec

-----------------------------------------------------------------------------

(* "begin_trans() ensures that only one system call can be in a             *)
(* transaction": transactions are exclusive, nobody sleeps in begin_trans   *)
(* while the log is free, what is read between transactions is durable, and *)
(* log_write never panics, for every number of processes and sectors, with  *)
(* crashes and kills anywhere.                                              *)
THEOREM Consistent ==
  ASSUME Early = {}
  PROVE  Spec => []ReadsConsistent
<1>1. IInv => ReadsConsistent
  <2> SUFFICES ASSUME IInv PROVE ReadsConsistent
    BY Zenon
  <2>1. ASSUME NEW p \in Procs, MayCall(p), ~busy PROVE mem = Durable
    <3>1. Recovered
      BY Zenon, <2>1 DEF MayCall
    <3>2. hdr = <<>> /\ mem = disk
      BY Zenon, <2>1, <3>1 DEF IInv, Running
    <3> QED BY <3>2 DEF Durable, IInv, TypeOK
  <2> QED BY Zenon, <2>1 DEF IInv, ReadsConsistent, Exclusive
<1> QED BY <1>1, Invariance, PTL

LEMMA DurableSame ==
  ASSUME UNCHANGED <<disk, hdr, lblk>>
  PROVE  Durable' = Durable
BY Zenon DEF Durable

LEMMA PendingSame ==
  ASSUME UNCHANGED <<hdr, lblk, lh>>
  PROVE  Pending' = Pending
BY Zenon DEF Pending, Open, Logged, Slot

(* Without an open transaction there is nothing pending.                    *)
LEMMA NothingPending == ~Open => Pending = J!NoWrites
BY Zenon DEF Pending, J!NoWrites

LEMMA NothingPendingNext == ~Open' => Pending' = J!NoWrites
BY Zenon DEF Pending, J!NoWrites

(* A step that keeps the durable contents and starts and ends without an    *)
(* open transaction is invisible.                                           *)
LEMMA Invisible ==
  ASSUME Durable' = Durable, ~Open, ~Open'
  PROVE  UNCHANGED J!jVars
BY Zenon, NothingPending, NothingPendingNext DEF J!jVars

LEMMA InitRefines == Init => J!JInit
<1> SUFFICES ASSUME Init PROVE J!JInit
  BY Zenon
<1>1. ~Open
  BY Zenon DEF Init, Open
<1>2. Durable \in [Sectors -> Blocks]
  BY DEF Init, Durable
<1> QED BY Zenon, <1>1, <1>2, NothingPending DEF J!JInit

(* log_write adds to the open transaction.                                  *)
LEMMA LogWriteRefines ==
  ASSUME IInv, Early = {}, NEW p \in Procs, NEW s \in Sectors, NEW b \in Blocks,
         LogWrite(p, s, b)
  PROVE  J!JWrite(s, b)
<1>1. hdr = <<>> /\ hdr' = hdr /\ disk' = disk
  BY Zenon, LogWriteFact DEF LogWrite
<1>2. /\ lh \in Seq(Sectors) /\ lh' \in Seq(Sectors)
      /\ Len(lh) < LOGSIZE /\ Len(lh') < LOGSIZE
  BY LogWriteFact, LogAssumption DEF IInv, TypeOK
<1>3. /\ Slot(s) \in Slots /\ lblk' = [lblk EXCEPT ![Slot(s)] = b]
      /\ lh' = IF Logged(s) THEN lh ELSE Append(lh, s)
  BY Zenon, LogWriteFact
<1>4. Distinct(lh)'
  BY Zenon, LogWriteInv DEF IInv
<1>5. Durable' = Durable
  BY <1>1 DEF Durable
<1>6. \A t \in Sectors : Logged(t)' <=> Logged(t) \/ t = s
  BY <1>2, <1>3 DEF Logged
<1>7. Open'
  BY <1>1, <1>2, <1>3 DEF Open, Logged
<1>8. DOMAIN Pending = {t \in Sectors : Logged(t)}
  BY <1>1, <1>2 DEF Pending, Open, Logged
<1>9. Pending' = [t \in DOMAIN Pending \cup {s} |-> lblk'[Slot(t)']]
  BY Zenon, <1>6, <1>7, <1>8 DEF Pending
<1>10. ASSUME NEW t \in DOMAIN Pending \cup {s}
       PROVE  lblk'[Slot(t)'] = IF t = s THEN b ELSE Pending[t]
  <2>1. t \in Sectors /\ Logged(t)'
    BY Zenon, <1>6, <1>8
  <2>2. Slot(t)' \in 1 .. Len(lh') /\ lh'[Slot(t)'] = t
    BY Zenon, <2>1 DEF Slot, Logged
  <2>3. Slot(s) \in 1 .. Len(lh') /\ lh'[Slot(s)] = s
    BY <1>2, <1>3, SlotFact
  <2>4. CASE t = s
    <3>1. Slot(t)' = Slot(s)
      BY Zenon, <1>4, <2>2, <2>3, <2>4 DEF Distinct
    <3> QED BY Zenon, <1>3, <2>4, <3>1 DEF IInv, TypeOK
  <2>5. CASE t # s
    <3>1. Logged(t)
      BY Zenon, <1>6, <2>1, <2>5
    <3>2. Slot(t) \in 1 .. Len(lh) /\ lh[Slot(t)] = t
      BY Zenon, <1>2, <2>1, <3>1, SlotFact
    <3>3. Slot(t) \in 1 .. Len(lh') /\ lh'[Slot(t)] = t
      BY <1>2, <1>3, <3>2
    <3>4. Slot(t)' = Slot(t) /\ Slot(t) # Slot(s)
      BY Zenon, <1>4, <2>2, <2>3, <2>5, <3>3 DEF Distinct
    <3>5. Slot(t) \in Slots
      BY <1>2, <3>2, LogAssumption DEF Slots
    <3>6. Pending[t] = lblk[Slot(t)]
      BY Zenon, <1>8, <2>1, <3>1 DEF Pending
    <3> QED BY Zenon, <1>3, <2>5, <3>4, <3>5, <3>6 DEF IInv, TypeOK
  <2> QED BY Zenon, <2>4, <2>5
<1>11. Pending' = [t \in DOMAIN Pending \cup {s} |-> IF t = s THEN b ELSE Pending[t]]
  BY Zenon, <1>9, <1>10
<1> QED BY Zenon, <1>5, <1>11 DEF J!JWrite

(* write_head commits it.                                                   *)
LEMMA WriteHeadRefines ==
  ASSUME IInv, NEW p \in Procs, WriteHead(p)
  PROVE  J!JCommit \/ UNCHANGED J!jVars
<1>1. hdr = <<>> /\ hdr' = lh /\ UNCHANGED <<disk, lblk, lh>>
  <2>1. Recovered
    BY Zenon, Phases DEF WriteHead, IInv, Recovering
  <2> QED BY Zenon, <2>1 DEF WriteHead, IInv, Transacting, TransOK
<1>2. CASE lh = <<>>
  BY Zenon, <1>1, <1>2, DurableSame, PendingSame DEF J!jVars
<1>3. CASE lh # <<>>
  <2>1. Open /\ ~Open'
    BY Zenon, <1>1, <1>3 DEF Open
  <2>2. Pending' = J!NoWrites
    BY Zenon, <2>1, NothingPendingNext
  <2>3. Durable = [s \in Sectors |-> disk[s]]
    BY <1>1 DEF Durable
  <2>4. Pending = [s \in {t \in Sectors : Logged(t)} |-> lblk[Slot(s)]]
    BY Zenon, <2>1 DEF Pending
  <2>5. Durable' = [s \in Sectors |-> IF Logged(s) THEN lblk[Slot(s)] ELSE disk[s]]
    BY Zenon, <1>1 DEF Durable, Logged, Slot
  <2>6. Durable' = [s \in Sectors |-> IF s \in DOMAIN Pending THEN Pending[s]
                                                            ELSE Durable[s]]
    BY Zenon, <2>3, <2>4, <2>5
  <2> QED BY Zenon, <2>2, <2>6 DEF J!JCommit
<1> QED BY Zenon, <1>2, <1>3

LEMMA DurableAt ==
  ASSUME NEW s \in Sectors, hdr \in Seq(Sectors), Distinct(hdr),
         NEW i \in 1 .. Len(hdr), hdr[i] = s
  PROVE  Durable[s] = lblk[i]
BY Zenon DEF Durable, Distinct

(* install_trans changes nothing durable.                                   *)
LEMMA InstallRefines ==
  ASSUME IInv, NEW p \in Procs, Install(p)
  PROVE  UNCHANGED J!jVars
<1>1. hdr = lh /\ hdr' = hdr /\ lblk' = lblk /\ lh' = lh
  BY Zenon, Phases DEF Install, IInv, Recovering, Transacting, TransOK
<1>2. at[p] \in 1 .. Len(hdr) /\ disk' = [disk EXCEPT ![hdr[at[p]]] = lblk[at[p]]]
  BY <1>1 DEF Install, IInv, TypeOK
<1>3. ASSUME NEW s \in Sectors, ~ \E i \in 1 .. Len(hdr) : hdr[i] = s
      PROVE  disk'[s] = disk[s]
  BY Zenon, <1>2, <1>3 DEF IInv, TypeOK
<1>4. Durable' = Durable
  BY Zenon, <1>1, <1>3 DEF Durable
<1> QED BY Zenon, <1>1, <1>4, PendingSame DEF J!jVars

LEMMA InstallDoneRefines ==
  ASSUME IInv, NEW p \in Procs, InstallDone(p)
  PROVE  UNCHANGED J!jVars
<1>1. hdr = lh /\ lh' = <<>> /\ UNCHANGED <<disk, hdr, lblk>>
  BY Zenon, Phases DEF InstallDone, IInv, Recovering, Transacting, TransOK
<1>2. ~Open /\ ~Open'
  BY Zenon, <1>1 DEF Open
<1> QED BY Zenon, <1>1, <1>2, DurableSame, Invisible

(* Erasing the header comes when every block is at home.                    *)
LEMMA EraseHeadRefines ==
  ASSUME IInv, NEW p \in Procs, EraseHead(p)
  PROVE  UNCHANGED J!jVars
<1>1. /\ lh = <<>> /\ lh' = <<>> /\ hdr' = <<>> /\ disk' = disk /\ lblk' = lblk
      /\ Installed(Len(hdr) + 1)
  BY Zenon, Phases DEF EraseHead, IInv, Recovering, Transacting, TransOK
<1>2. ~Open /\ ~Open'
  BY Zenon, <1>1 DEF Open
<1>3. ASSUME NEW s \in Sectors PROVE Durable[s] = disk[s]
  <2>1. CASE \E i \in 1 .. Len(hdr) : hdr[i] = s
    <3>1. PICK i \in 1 .. Len(hdr) : hdr[i] = s
      BY Zenon, <2>1
    <3>2. Durable[s] = lblk[i]
      BY Zenon, <3>1, DurableAt DEF IInv, TypeOK
    <3> QED BY <1>1, <3>1, <3>2 DEF Installed, IInv, TypeOK
  <2>2. CASE ~ \E i \in 1 .. Len(hdr) : hdr[i] = s
    BY Zenon, <2>2 DEF Durable
  <2> QED BY Zenon, <2>1, <2>2
<1>4. Durable' = [s \in Sectors |-> disk[s]]
  <2>1. ~ \E i \in 1 .. Len(hdr') : TRUE
    BY <1>1
  <2> QED BY Zenon, <1>1, <2>1 DEF Durable
<1>5. Durable = [s \in Sectors |-> Durable[s]]
  BY Zenon DEF Durable
<1>6. Durable' = Durable
  BY Zenon, <1>3, <1>4, <1>5
<1> QED BY Zenon, <1>2, <1>6, Invisible

LEMMA ReadHeadRefines ==
  ASSUME IInv, NEW p \in Procs, ReadHead(p)
  PROVE  UNCHANGED J!jVars
<1>1. lh = <<>> /\ lh' = hdr /\ UNCHANGED <<disk, hdr, lblk>>
  BY Zenon, Phases DEF ReadHead, IInv, Recovering, Running
<1>2. ~Open /\ ~Open'
  BY Zenon, <1>1 DEF Open
<1> QED BY Zenon, <1>1, <1>2, DurableSame, Invisible

LEMMA CrashRefines ==
  ASSUME Crash
  PROVE  J!JCrash
<1>1. ~Open' /\ UNCHANGED <<disk, hdr, lblk>>
  BY Zenon DEF Crash, Open
<1> QED BY Zenon, <1>1, DurableSame, NothingPendingNext DEF J!JCrash

LEMMA StepRefines ==
  ASSUME IInv, Early = {}, [Next]_vars
  PROVE  [J!JNext]_(J!jVars)
<1>1. CASE UNCHANGED vars
  BY Zenon, <1>1, DurableSame, PendingSame DEF vars, J!jVars
<1>2. CASE Crash
  BY Zenon, <1>2, CrashRefines DEF J!JNext
<1>3. ASSUME NEW p \in Procs, Step(p) PROVE [J!JNext]_(J!jVars)
  <2>1. CASE \/ FirstOpen(p) \/ ReadSuperblock(p) \/ BeginTrans(p) \/ CommitTrans(p)
             \/ Release(p) \/ Kill(p)
    <3>1. UNCHANGED <<disk, hdr, lblk, lh>>
      BY Zenon, <2>1
         DEF FirstOpen, ReadSuperblock, BeginTrans, CommitTrans, Release, Kill
    <3> QED BY Zenon, <3>1, DurableSame, PendingSame DEF J!jVars
  <2>2. CASE ReadHead(p) \/ Install(p) \/ InstallDone(p) \/ EraseHead(p)
    BY Zenon, <2>2, ReadHeadRefines, InstallRefines, InstallDoneRefines,
       EraseHeadRefines
  <2>3. CASE WriteHead(p)
    BY Zenon, <2>3, WriteHeadRefines DEF J!JNext
  <2>4. CASE \E s \in Sectors, b \in Blocks : LogWrite(p, s, b)
    BY Zenon, <2>4, LogWriteRefines DEF J!JNext
  <2> QED BY Zenon, <1>3, <2>1, <2>2, <2>3, <2>4 DEF Step
<1> QED BY Zenon, <1>1, <1>2, <1>3 DEF Next

(* The log implements the journal: whatever the number of processes and the *)
(* size of transactions, a crash at any point leaves all or none of a       *)
(* transaction's writes durable, and commit, recovery and a crash during    *)
(* recovery change nothing durable but at the write of the header.          *)
THEOREM Atomic ==
  ASSUME Early = {}
  PROVE  Spec => AtomicTransactions
<1>1. IInv /\ [Next]_vars => [J!JNext]_(J!jVars)
  BY Zenon, StepRefines
<1> QED BY <1>1, Invariance, InitRefines, PTL
           DEF Spec, AtomicTransactions, J!JSpec
==============================================================================
