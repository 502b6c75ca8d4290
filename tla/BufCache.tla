------------------------------ MODULE BufCache ------------------------------
(***************************************************************************)
(* The buffer cache (kern/fs/bufcache.c) over the IDE driver               *)
(* (kern/dev/disk/ide.c).  A call runs without interruption up to the next *)
(* thread_sleep; the disk interrupt comes when some process, idle at       *)
(* least, runs in user mode.                                               *)
(*                                                                         *)
(* There is one disk, so dev is left out.  Its users change a buffer only  *)
(* to write it (bufcache_write) or to log it (log_write, which marks it    *)
(* dirty, so that it stays cached until it is installed).                  *)
(* pc[p] is "idle"  outside the cache,                                     *)
(*   "getsleep", "getwoken"   in the loop of bufcache_get                  *)
(*   "rwsleep", "rwwoken"     in the loop of ide_rw                        *)
(*   "dead"                   killed                                       *)
(***************************************************************************)
EXTENDS Integers, Sequences, FiniteSets, Functions

CONSTANTS Procs, Sectors, Blocks,
          NoSector,     \* the sector of a buffer never used
          NBUF,
          Writers,      \* processes that use several buffers, and dirty them
          MaxHeld,      \* most buffers a writer holds at a time
          MaxPinned,    \* most dirty buffers that nobody holds
          Victims,      \* processes somebody sends SIGKILL
          Faulty        \* whether the disk may fail to read a sector

ASSUME BufAssumption ==
  /\ Blocks # {} /\ NBUF \in Nat /\ MaxHeld \in Nat /\ MaxPinned \in Nat
  /\ NoSector \notin Sectors
  /\ Writers \subseteq Procs /\ Victims \subseteq Procs
  /\ Faulty \in BOOLEAN

Bufs == 1 .. NBUF
NoBuf == 0
Zero == CHOOSE d \in Blocks : TRUE

VARIABLES
  buf,          \* struct buf of each buffer, but for the links
  mru,          \* bcache.head's list, from head.next on
  queue,        \* idequeue
  sent,         \* the data ide_start has sent to the disk (Zero at rest)
  disk,         \* the sectors
  pc,
  want,         \* the sector a process has called bufcache_read with
  on,           \* the buffer it sleeps on or waits for
  held,         \* the buffers it has got and not released
  panicked

vars == <<buf, mru, queue, sent, disk, pc, want, on, held, panicked>>

BufRec == [sector : Sectors \cup {NoSector}, busy : BOOLEAN, valid : BOOLEAN,
           dirty : BOOLEAN, data : Blocks]

TypeOK ==
  /\ buf \in [Bufs -> BufRec]
  /\ mru \in [Bufs -> Bufs] /\ Range(mru) = Bufs
  /\ queue \in Seq(Bufs) /\ IsInjective(queue)
  /\ sent \in Blocks
  /\ disk \in [Sectors -> Blocks]
  /\ pc \in [Procs -> {"idle", "getsleep", "getwoken", "rwsleep", "rwwoken",
                       "dead"}]
  /\ want \in [Procs -> Sectors \cup {NoSector}]
  /\ on \in [Procs -> Bufs \cup {NoBuf}]
  /\ held \in [Procs -> SUBSET Bufs]
  /\ panicked \in BOOLEAN

Init ==
  /\ disk \in [Sectors -> Blocks]
  /\ buf = [b \in Bufs |-> [sector |-> NoSector, busy |-> FALSE,
                            valid |-> FALSE, dirty |-> FALSE,
                            data |-> Zero]]
  /\ mru = [i \in Bufs |-> NBUF + 1 - i]
  /\ queue = <<>> /\ sent = Zero
  /\ pc = [p \in Procs |-> "idle"]
  /\ want = [p \in Procs |-> NoSector] /\ on = [p \in Procs |-> NoBuf]
  /\ held = [p \in Procs |-> {}]
  /\ panicked = FALSE

-----------------------------------------------------------------------------

(* Mutant: only whoever waits for the disk is woken.                        *)
AwakeOne(f, b) ==
  [p \in Procs |-> IF f[p] = "rwsleep" /\ on[p] = b THEN "rwwoken" ELSE f[p]]

(* thread_wakeup(b): bufcache_get and ide_rw sleep on the same channel.     *)
Awake(f, b) ==
  [p \in Procs |-> CASE f[p] = "getsleep" /\ on[p] = b -> "getwoken"
                     [] f[p] = "rwsleep" /\ on[p] = b -> "rwwoken"
                     [] OTHER -> f[p]]

(* The end of bufcache_read or bufcache_write.                              *)
Return(p) ==
  /\ pc' = [pc EXCEPT ![p] = "idle"]
  /\ want' = [want EXCEPT ![p] = NoSector]
  /\ on' = [on EXCEPT ![p] = NoBuf]

Panic == panicked' = TRUE /\ UNCHANGED <<buf, mru, queue, sent, disk, pc, want,
                                         on, held>>

(* ide_rw(b), called with b in the state c[b].                              *)
IdeRw(p, c, b) ==
  /\ queue' = Append(queue, b)
  /\ sent' = IF queue = <<>> THEN c[b].data ELSE sent
  /\ pc' = [pc EXCEPT ![p] = "rwsleep"]
  /\ on' = [on EXCEPT ![p] = b]
  /\ buf' = c
  /\ panicked' = (~c[b].busy \/ (c[b].valid /\ ~c[b].dirty))

(* bufcache_get and the rest of bufcache_read.                              *)
Cached(s) == {b \in Bufs : buf[b].sector = s}

(* Mutant: a dirty buffer is recycled.                                      *)
RecyclableDirty == {i \in Bufs : ~buf[mru[i]].busy}

(* The places in the list of the buffers that can be recycled; the last is  *)
(* taken.                                                                   *)
Recyclable == {i \in Bufs : ~buf[mru[i]].busy /\ ~buf[mru[i]].dirty}

LeastRecent(b) == \E i \in Recyclable : mru[i] = b /\ \A j \in Recyclable : j <= i

Take(p, b, c) ==
  /\ held' = [held EXCEPT ![p] = @ \cup {b}]
  /\ IF c[b].valid
     THEN Return(p) /\ buf' = c /\ UNCHANGED <<queue, sent, panicked>>
     ELSE IdeRw(p, c, b) /\ UNCHANGED want
  /\ UNCHANGED <<mru, disk>>

GetCached(p, s) ==
  \E b \in Cached(s) :
    IF buf[b].busy
    THEN /\ pc' = [pc EXCEPT ![p] = "getsleep"]
         /\ on' = [on EXCEPT ![p] = b]
         /\ want' = [want EXCEPT ![p] = s]
         /\ UNCHANGED <<buf, mru, queue, sent, disk, held, panicked>>
    ELSE Take(p, b, [buf EXCEPT ![b].busy = TRUE])

(* Mutant: the flags of the recycled buffer are kept.                       *)
GetFreshValid(p, s) ==
  /\ Cached(s) = {}
  /\ \/ Recyclable = {} /\ Panic
     \/ \E b \in Bufs :
          /\ LeastRecent(b)
          /\ Take(p, b, [buf EXCEPT ![b].sector = s, ![b].busy = TRUE])

GetFresh(p, s) ==
  /\ Cached(s) = {}
  /\ \/ Recyclable = {} /\ Panic
     \/ \E b \in Bufs :
          /\ LeastRecent(b)
          /\ Take(p, b, [buf EXCEPT ![b].sector = s, ![b].busy = TRUE,
                                    ![b].valid = FALSE, ![b].dirty = FALSE])

Get(p, s) == GetCached(p, s) \/ GetFresh(p, s)

(* A process holds one buffer at a time; one in a transaction several.      *)
MayHold(p) == Cardinality(held[p]) < IF p \in Writers THEN MaxHeld ELSE 1

BufRead(p, s) ==
  /\ pc[p] = "idle" /\ MayHold(p)
  /\ \A b \in held[p] : buf[b].sector # s
  /\ Get(p, s)

BufReadAgain(p) == pc[p] = "getwoken" /\ Get(p, want[p])

(* ide_rw's loop goes on after a wake-up.                                   *)
IdeWait(p) ==
  /\ pc[p] = "rwwoken"
  /\ IF buf[on[p]].valid /\ ~buf[on[p]].dirty
     THEN Return(p)
     ELSE pc' = [pc EXCEPT ![p] = "rwsleep"] /\ UNCHANGED <<want, on>>
  /\ UNCHANGED <<buf, mru, queue, sent, disk, held, panicked>>

(* A writer changes the data and calls bufcache_write.                      *)
BufWrite(p, b, d) ==
  /\ pc[p] = "idle" /\ p \in Writers /\ b \in held[p]
  /\ IF ~buf[b].busy THEN Panic
     ELSE /\ IdeRw(p, [buf EXCEPT ![b].data = d, ![b].dirty = TRUE], b)
          /\ UNCHANGED <<mru, disk, want, held>>

(* ... or logs it, which marks it dirty.                                    *)
Pinned == {b \in Bufs : buf[b].dirty}

BufLog(p, b, d) ==
  /\ pc[p] = "idle" /\ p \in Writers /\ b \in held[p]
  /\ Cardinality(Pinned \cup {b}) <= MaxPinned
  /\ buf' = [buf EXCEPT ![b].data = d, ![b].dirty = TRUE]
  /\ UNCHANGED <<mru, queue, sent, disk, pc, want, on, held, panicked>>

(* b moves to the front of the list.                                        *)
ToFront(b) ==
  LET i == CHOOSE i \in Bufs : mru[i] = b
  IN  [j \in Bufs |-> IF j = 1 THEN b ELSE IF j <= i THEN mru[j - 1] ELSE mru[j]]

BufRelease(p, b) ==
  /\ pc[p] = "idle" /\ b \in held[p]
  /\ IF ~buf[b].busy THEN Panic
     ELSE /\ mru' = ToFront(b)
          /\ buf' = [buf EXCEPT ![b].busy = FALSE]
          /\ pc' = Awake(pc, b)
          /\ held' = [held EXCEPT ![p] = @ \ {b}]
          /\ UNCHANGED <<queue, sent, disk, want, on, panicked>>

(* The disk has finished the request at the head of the queue: ide_intr.    *)
(* A read that fails leaves the data as they were.                          *)
IdeIntr(failed) ==
  /\ queue # <<>>
  /\ LET b == Head(queue) s == buf[b].sector IN
       /\ failed => Faulty /\ ~buf[b].dirty
       /\ disk' = IF buf[b].dirty THEN [disk EXCEPT ![s] = sent] ELSE disk
       /\ buf' = [buf EXCEPT ![b].valid = TRUE, ![b].dirty = FALSE,
                    ![b].data = IF buf[b].dirty \/ failed THEN @ ELSE disk[s]]
       /\ pc' = Awake(pc, b)
  /\ queue' = Tail(queue)
  /\ sent' = IF queue' = <<>> THEN Zero ELSE buf[Head(queue')].data
  /\ UNCHANGED <<mru, want, on, held, panicked>>

(* A signal other than SIGKILL wakes whoever sleeps.                        *)
Signal(p) ==
  /\ pc[p] \in {"getsleep", "rwsleep"}
  /\ pc' = [pc EXCEPT ![p] = IF @ = "getsleep" THEN "getwoken" ELSE "rwwoken"]
  /\ UNCHANGED <<buf, mru, queue, sent, disk, want, on, held, panicked>>

(* SIGKILL releases nothing.  It reaches a process in the kernel only while *)
(* it sleeps or is about to go on.  What it waited for matters no more,     *)
(* unless its request is still in the queue.                                *)
Kill(p) ==
  /\ p \in Victims /\ pc[p] \notin {"idle", "dead"}
  /\ pc' = [pc EXCEPT ![p] = "dead"]
  /\ want' = [want EXCEPT ![p] = NoSector]
  /\ on' = [on EXCEPT ![p] = IF pc[p] \in {"rwsleep", "rwwoken"} THEN @ ELSE NoBuf]
  /\ UNCHANGED <<buf, mru, queue, sent, disk, held, panicked>>

-----------------------------------------------------------------------------

Call(p) ==
  \/ \E s \in Sectors : BufRead(p, s)
  \/ \E b \in Bufs, d \in Blocks : BufWrite(p, b, d) \/ BufLog(p, b, d)
  \/ \E b \in Bufs : BufRelease(p, b)

Next ==
  /\ ~panicked
  /\ \/ \E p \in Procs : Call(p) \/ BufReadAgain(p) \/ IdeWait(p)
                         \/ Signal(p) \/ Kill(p)
     \/ \E failed \in BOOLEAN : IdeIntr(failed)

Spec == Init /\ [][Next]_vars

-----------------------------------------------------------------------------

(* The contents of a sector for its users: the buffer's, once it has been   *)
(* read or changed, or the disk's.                                          *)
View(s) ==
  LET S == {b \in Bufs : buf[b].sector = s /\ (buf[b].valid \/ buf[b].dirty)}
  IN IF S = {} THEN disk[s] ELSE buf[CHOOSE b \in S : TRUE].data

Owner(s) == {p \in Procs : \E b \in held[p] : buf[b].sector = s}

B == INSTANCE BlockStore WITH value <- [s \in Sectors |-> View(s)],
                              owner <- [s \in Sectors |-> Owner(s)]

(* The cache with its recycling, its two sleep loops on one channel and the *)
(* request queue implements locked registers: bufcache_read returns what    *)
(* the last user of the sector left, and "only one process at a time can    *)
(* use a buffer".                                                           *)
LockedBlocks == B!BSpec

(* "B_VALID: the buffer data has been read from the disk": a valid buffer   *)
(* that needs no write is a copy of its sector.  A request in the queue is  *)
(* for a busy buffer, whose holder waits for it or was killed, and the disk *)
(* has been sent the data of the first.  bufcache_get finds a buffer to     *)
(* recycle, as there are more than can be held and dirty at a time.         *)
CacheConsistent ==
  /\ TypeOK /\ ~panicked
  /\ \A b \in Bufs : buf[b].valid /\ ~buf[b].dirty =>
                      buf[b].data = disk[buf[b].sector]
  /\ \A b \in Range(queue) :
       /\ buf[b].busy
       /\ \E p \in Procs : /\ b \in held[p] /\ on[p] = b
                           /\ pc[p] \in {"rwsleep", "rwwoken", "dead"}
  /\ queue # <<>> => sent = buf[Head(queue)].data

(* Nobody sleeps in bufcache_get for a buffer that is free or was recycled, *)
(* nor in ide_rw for a request that is done.                                *)
NoLostWakeup ==
  \A p \in Procs :
    /\ pc[p] = "getsleep" => buf[on[p]].busy /\ buf[on[p]].sector = want[p]
    /\ pc[p] = "rwsleep" => on[p] \in Range(queue)
=============================================================================
