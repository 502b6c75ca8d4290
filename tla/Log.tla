--------------------------------- MODULE Log ---------------------------------
(***************************************************************************)
(* The write-ahead log of kern/fs/log.c: transactions of several           *)
(* processes, crashes between any two disk writes, and the recovery that   *)
(* the first sys_open after a boot runs.                                   *)
(*                                                                         *)
(* A step ends at the point where the process sleeps for the disk, so a    *)
(* disk write and the memory updates that follow it are one step; a sector *)
(* is written whole or not at all.  The buffer cache appears as mem: what  *)
(* a reader of a sector gets, be it from a cached buffer or from the disk. *)
(* pc[p] is "idle" outside the log,                                        *)
(*   "sleep", "woken"   in the loop of begin_trans                         *)
(*   "trans"            between begin_trans and commit_trans               *)
(*   "commit", "install", "erase", "release"     inside commit_trans       *)
(*   "superblock", "readhead", "install", "erase"  inside log_init         *)
(*   "dead"             killed                                             *)
(***************************************************************************)
EXTENDS Integers, Sequences

CONSTANTS Procs,
          Sectors,      \* home sectors of the file system
          Blocks,       \* contents of a sector
          LOGSIZE,
          NLOG,         \* sb.nlog: sectors of the on-disk log, with header
          MaxBlocks,    \* most sectors one system call writes
          Early,        \* processes that use the file system, or are
                        \* killed, before log_init has finished
          Victims       \* processes somebody sends SIGKILL

ASSUME LogAssumption ==
  /\ LOGSIZE \in Nat /\ NLOG \in Nat
  /\ MaxBlocks \in Nat /\ MaxBlocks < LOGSIZE /\ MaxBlocks < NLOG - 1
  /\ Early \subseteq Procs /\ Victims \subseteq Procs

VARIABLES
  disk,         \* the home sectors on disk
  hdr,          \* the header block on disk: the logged sectors
  lblk,         \* the log blocks on disk
  mem,          \* the home sectors as the buffer cache shows them
  lh,           \* log.lh
  busy,         \* log.busy
  size,         \* log.size
  first,        \* the static flag of sys_open
  pc,
  init,         \* the processes inside log_init
  at,           \* the loop variable of install_trans
  panicked

vars == <<disk, hdr, lblk, mem, lh, busy, size, first, pc, init, at, panicked>>

Slots == 1 .. LOGSIZE

Pcs == {"idle", "sleep", "woken", "trans", "commit", "install", "erase",
        "release", "superblock", "readhead", "dead"}

TypeOK ==
  /\ disk \in [Sectors -> Blocks] /\ mem \in [Sectors -> Blocks]
  /\ hdr \in Seq(Sectors) /\ Len(hdr) <= LOGSIZE
  /\ lh \in Seq(Sectors) /\ Len(lh) <= LOGSIZE
  /\ lblk \in [Slots -> Blocks]
  /\ busy \in BOOLEAN /\ first \in BOOLEAN /\ panicked \in BOOLEAN
  /\ size \in {0, NLOG}
  /\ pc \in [Procs -> Pcs]
  /\ init \subseteq Procs
  /\ at \in [Procs -> 1 .. LOGSIZE + 1]

-----------------------------------------------------------------------------

Init ==
  /\ disk \in [Sectors -> Blocks] /\ hdr = <<>>
  /\ lblk \in [Slots -> Blocks]
  /\ mem = disk
  /\ lh = <<>> /\ busy = FALSE /\ size = 0 /\ first = TRUE
  /\ pc = [p \in Procs |-> "idle"] /\ init = {}
  /\ at = [p \in Procs |-> 1]
  /\ panicked = FALSE

(* The machine stops and boots again: the disk is all that is left.         *)
Crash ==
  /\ mem' = disk
  /\ lh' = <<>> /\ busy' = FALSE /\ size' = 0 /\ first' = TRUE
  /\ pc' = [p \in Procs |-> "idle"] /\ init' = {}
  /\ at' = [p \in Procs |-> 1]
  /\ panicked' = FALSE
  /\ UNCHANGED <<disk, hdr, lblk>>

Goto(p, l) == pc' = [pc EXCEPT ![p] = l]

(* log_init has run.  Only a process in Early calls the kernel before.      *)
Recovered == ~first /\ init = {}
MayCall(p) == pc[p] = "idle" /\ (Recovered \/ p \in Early)

-----------------------------------------------------------------------------

(* sys_open: the first call since the boot runs log_init, after it has      *)
(* cleared the flag.                                                        *)
FirstOpen(p) ==
  /\ pc[p] = "idle" /\ first
  /\ first' = FALSE
  /\ init' = init \cup {p}
  /\ Goto(p, "superblock")
  /\ UNCHANGED <<disk, hdr, lblk, mem, lh, busy, size, at, panicked>>

ReadSuperblock(p) ==
  /\ pc[p] = "superblock"
  /\ size' = NLOG
  /\ Goto(p, "readhead")
  /\ UNCHANGED <<disk, hdr, lblk, mem, lh, busy, first, init, at, panicked>>

ReadHead(p) ==
  /\ pc[p] = "readhead"
  /\ lh' = hdr
  /\ at' = [at EXCEPT ![p] = 1]
  /\ Goto(p, "install")
  /\ UNCHANGED <<disk, hdr, lblk, mem, busy, size, first, init, panicked>>

-----------------------------------------------------------------------------

(* begin_trans.                                                             *)
BeginTrans(p) ==
  /\ MayCall(p) \/ pc[p] = "woken"
  /\ IF busy THEN Goto(p, "sleep") /\ UNCHANGED busy
             ELSE Goto(p, "trans") /\ busy' = TRUE
  /\ UNCHANGED <<disk, hdr, lblk, mem, lh, size, first, init, at, panicked>>

(* A system call changes sector s to b and calls log_write.                 *)
TooBig == Len(lh) >= LOGSIZE \/ Len(lh) >= size - 1

Logged(s) == \E i \in 1 .. Len(lh) : lh[i] = s

Slot(s) == IF Logged(s) THEN CHOOSE i \in 1 .. Len(lh) : lh[i] = s
           ELSE Len(lh) + 1

LogWrite(p, s, b) ==
  /\ pc[p] = "trans"
  /\ Logged(s) \/ Len(lh) < MaxBlocks
  /\ mem' = [mem EXCEPT ![s] = b]
  /\ IF TooBig \/ ~busy
     THEN panicked' = TRUE /\ UNCHANGED <<lblk, lh>>
     ELSE /\ lblk' = [lblk EXCEPT ![Slot(s)] = b]
          /\ lh' = IF Logged(s) THEN lh ELSE Append(lh, s)
          /\ UNCHANGED panicked
  /\ UNCHANGED <<disk, hdr, busy, size, first, pc, init, at>>

(* Mutant: the blocks are installed before the header is written.           *)
CommitTransInstall(p) ==
  /\ pc[p] = "trans"
  /\ Goto(p, IF lh = <<>> THEN "release" ELSE "install")
  /\ at' = [at EXCEPT ![p] = 1]
  /\ UNCHANGED <<disk, hdr, lblk, mem, lh, busy, size, first, init, panicked>>

(* Mutant: a transaction of one block is not committed.                     *)
CommitTransMany(p) ==
  /\ pc[p] = "trans"
  /\ Goto(p, IF Len(lh) <= 1 THEN "release" ELSE "commit")
  /\ UNCHANGED <<disk, hdr, lblk, mem, lh, busy, size, first, init, at, panicked>>

(* commit_trans: write_head, "the true point at which the current           *)
(* transaction commits", ...                                                *)
CommitTrans(p) ==
  /\ pc[p] = "trans"
  /\ Goto(p, IF lh = <<>> THEN "release" ELSE "commit")
  /\ UNCHANGED <<disk, hdr, lblk, mem, lh, busy, size, first, init, at, panicked>>

WriteHead(p) ==
  /\ pc[p] = "commit"
  /\ hdr' = lh
  /\ at' = [at EXCEPT ![p] = 1]
  /\ Goto(p, "install")
  /\ UNCHANGED <<disk, lblk, mem, lh, busy, size, first, init, panicked>>

(* ... install_trans, block by block, ...                                   *)
Install(p) ==
  /\ pc[p] = "install"
  /\ at[p] <= Len(lh)
  /\ disk' = [disk EXCEPT ![lh[at[p]]] = lblk[at[p]]]
  /\ mem' = [mem EXCEPT ![lh[at[p]]] = lblk[at[p]]]
  /\ at' = [at EXCEPT ![p] = @ + 1]
  /\ UNCHANGED <<hdr, lblk, lh, busy, size, first, pc, init, panicked>>

InstallDone(p) ==
  /\ pc[p] = "install"
  /\ at[p] > Len(lh)
  /\ lh' = <<>>
  /\ Goto(p, "erase")
  /\ UNCHANGED <<disk, hdr, lblk, mem, busy, size, first, init, at, panicked>>

(* ... and write_head again, which erases the log.  Recovery ends here.     *)
EraseHead(p) ==
  /\ pc[p] = "erase"
  /\ hdr' = lh
  /\ Goto(p, IF p \in init THEN "idle" ELSE "release")
  /\ init' = init \ {p}
  /\ UNCHANGED <<disk, lblk, mem, lh, busy, size, first, at, panicked>>

(* Mutant: commit_trans does not wake the waiting processes.                *)
ReleaseSilent(p) ==
  /\ pc[p] = "release"
  /\ busy' = FALSE
  /\ Goto(p, "idle")
  /\ UNCHANGED <<disk, hdr, lblk, mem, lh, size, first, init, at, panicked>>

Release(p) ==
  /\ pc[p] = "release"
  /\ busy' = FALSE
  /\ pc' = [q \in Procs |-> IF q = p THEN "idle"
                            ELSE IF pc[q] = "sleep" THEN "woken" ELSE pc[q]]
  /\ UNCHANGED <<disk, hdr, lblk, mem, lh, size, first, init, at, panicked>>

(* SIGKILL from another process finds p asleep; nothing it holds is         *)
(* released: log.busy stays set.                                            *)
Kill(p) ==
  /\ p \in Victims /\ pc[p] # "dead"
  /\ Recovered \/ p \in Early
  /\ Goto(p, "dead")
  /\ init' = init \ {p}
  /\ UNCHANGED <<disk, hdr, lblk, mem, lh, busy, size, first, at, panicked>>

-----------------------------------------------------------------------------

Step(p) ==
  \/ FirstOpen(p) \/ ReadSuperblock(p) \/ ReadHead(p)
  \/ BeginTrans(p)
  \/ \E s \in Sectors, b \in Blocks : LogWrite(p, s, b)
  \/ CommitTrans(p) \/ WriteHead(p) \/ Install(p) \/ InstallDone(p)
  \/ EraseHead(p) \/ Release(p)
  \/ Kill(p)

Next == (~panicked /\ \E p \in Procs : Step(p)) \/ Crash

Spec == Init /\ [][Next]_vars

(* A process inside the log runs on: the disk answers, the scheduler comes  *)
(* round to everyone who is READY, and a system call makes finitely many    *)
(* log_writes.  Nothing forces a process to start a call.                   *)
Proceed(p) ==
  \/ ReadSuperblock(p) \/ ReadHead(p)
  \/ pc[p] = "woken" /\ BeginTrans(p)
  \/ CommitTrans(p) \/ WriteHead(p) \/ Install(p) \/ InstallDone(p)
  \/ EraseHead(p) \/ Release(p)

Fairness == \A p \in Procs : WF_vars(~panicked /\ Proceed(p))

FairSpec == Spec /\ Fairness
-----------------------------------------------------------------------------

(* What recovery would make of the disk now: the home sectors, but for the  *)
(* ones the on-disk header lists, whose contents are in the log.            *)
Durable ==
  [s \in Sectors |->
     IF \E i \in 1 .. Len(hdr) : hdr[i] = s
     THEN lblk[CHOOSE i \in 1 .. Len(hdr) : hdr[i] = s]
     ELSE disk[s]]

(* The blocks logged by a transaction that has not committed yet.           *)
Open == hdr = <<>> /\ lh # <<>>

Pending ==
  [s \in {t \in Sectors : Open /\ Logged(t)} |-> lblk[Slot(s)]]

J == INSTANCE Journal WITH store <- Durable, pending <- Pending

(* The log implements the journal: a crash at any point leaves all or none  *)
(* of a transaction's writes durable, and installing, erasing, recovering   *)
(* and crashing again while recovering change nothing durable.              *)
AtomicTransactions == J!JSpec

InTrans(p) == \/ pc[p] \in {"trans", "commit", "release"}
              \/ pc[p] \in {"install", "erase"} /\ p \notin init

(* "begin_trans() ensures that only one system call can be in a             *)
(* transaction", until it has left commit_trans, and nobody sleeps for one  *)
(* that has ended.  "I-node and buffer locks prevent read-only calls from   *)
(* seeing inconsistent data": a call made while no transaction is open      *)
(* reads the durable contents of every sector.  No transaction of at most   *)
(* MaxBlocks sectors meets KERN_PANIC.                                      *)
ReadsConsistent ==
  /\ TypeOK /\ ~panicked
  /\ \A p, q \in Procs : InTrans(p) /\ InTrans(q) => p = q
  /\ \A p \in Procs : InTrans(p) \/ pc[p] = "sleep" => busy
  /\ \A p \in Procs : MayCall(p) /\ ~busy => mem = Durable

(* A process that waits in begin_trans is woken by the commit_trans of      *)
(* whoever is in a transaction, unless a kill has left log.busy set.        *)
WaitersWoken ==
  \A p \in Procs :
    pc[p] = "sleep" ~> (pc[p] # "sleep" \/ \E q \in Procs : pc[q] = "dead")
=============================================================================
