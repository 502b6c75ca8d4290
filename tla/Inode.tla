-------------------------------- MODULE Inode --------------------------------
(***************************************************************************)
(* The inode cache of kern/fs/inode.c under the system calls of several    *)
(* processes: reference counts, the BUSY flag as a sleeping lock, loading  *)
(* from disk, freeing the last reference to an unlinked inode, and the     *)
(* path walk of path.c.  A step ends where the code may sleep: waiting for *)
(* a lock, for the log, or for the disk.  The contents of files, and what  *)
(* a transaction does on disk (module Log), are left out.                  *)
(***************************************************************************)
EXTENDS Integers, Sequences, FiniteSets, FiniteSetsExt

CONSTANTS Procs, NoProc,
          NINUM,      \* inodes of the disk; number 1 is the root
          NINODE,     \* slots of the cache
          Names,      \* names of directory entries, ".." among them
          Tree,       \* the directories at the start: inum -> name -> inum
          Calls,      \* the system calls that processes make: a name, a path
                      \* and a second path; a path is a sequence of names,
                      \* with "/" first when it is absolute
          MaxCalls    \* bound: system calls made

IsPath(q) ==
  /\ q \in Seq(Names \cup {"/"})
  /\ IF q # <<>> /\ Head(q) = "/" THEN Tail(q) \in Seq(Names) ELSE q \in Seq(Names)

ASSUME InodeAssumption ==
  /\ NINUM \in Nat \ {0} /\ NINODE \in Nat /\ NINODE >= NINUM
  /\ NoProc \notin Procs /\ IsFiniteSet(Procs)
  /\ IsFiniteSet(Names) /\ ".." \in Names
  /\ 1 \in DOMAIN Tree /\ DOMAIN Tree \subseteq 1 .. NINUM
  /\ \A i \in DOMAIN Tree : Tree[i] \in [Names -> 0 .. NINUM]
  /\ \A c \in Calls : /\ c[1] \in {"open", "chdir", "unlink", "link", "creat", "mkdir"}
                       /\ IsPath(c[2]) /\ IsPath(c[3])

VARIABLES slot,   \* the cache
          disk,   \* type and link count of the inodes on disk
          ents,   \* the directories on disk: name -> inum, 0 for none
          trans,  \* the process that holds the log
          proc,   \* the processes
          panic,  \* why the kernel stopped
          made    \* the number of system calls made

vars == <<slot, disk, ents, trans, proc, panic, made>>

ROOTINO == 1
Inums == 1 .. NINUM
Slots == 1 .. NINODE
Free == [type |-> "free", nlink |-> 0]
EmptySlot == [inum |-> 0, ref |-> 0, busy |-> FALSE, valid |-> FALSE,
              type |-> "free", nlink |-> 0]
NoEntries == [name \in Names |-> 0]

(* What a process is doing: the call, where it is in it, and the inodes it  *)
(* holds a reference to: cwd and file between calls, cur while it walks, ip *)
(* and dp as in the code; 0 is the null pointer.                            *)
Quiet == [pc |-> "idle", call |-> "none", path |-> <<>>, to |-> <<>>,
          par |-> FALSE, ret |-> "none", name |-> "none", cur |-> 0, ip |-> 0,
          dp |-> 0, victim |-> 0, then |-> "none", cwd |-> 0, file |-> 0]

-----------------------------------------------------------------------------

(* Mutant: a slot that is locked is not found.                              *)
SlotOfIdle(sl, i) ==
  LET cached == {s \in Slots : sl[s].ref > 0 /\ sl[s].inum = i /\ ~sl[s].busy}
  IN  IF cached # {} THEN Min(cached) ELSE Min({s \in Slots : sl[s].ref = 0})

(* inode_get: the slot of inode i, or the first one that is not in use.     *)
SlotOf(sl, i) ==
  LET cached == {s \in Slots : sl[s].ref > 0 /\ sl[s].inum = i}
  IN  IF cached # {} THEN Min(cached) ELSE Min({s \in Slots : sl[s].ref = 0})

Get(sl, i) ==
  LET s == SlotOf(sl, i)
  IN  IF sl[s].ref > 0 THEN [sl EXCEPT ![s].ref = @ + 1]
      ELSE [sl EXCEPT ![s] = [EmptySlot EXCEPT !.inum = i, !.ref = 1]]

Dup(sl, s) == [sl EXCEPT ![s].ref = @ + 1]

(* inode_lock, for a slot that is not BUSY: nobody else writes the inode    *)
(* while it is read from disk.                                              *)
Locked(s) ==
  LET i == slot[s].inum
  IN  IF slot[s].valid THEN [slot EXCEPT ![s].busy = TRUE]
      ELSE [slot EXCEPT ![s].busy = TRUE, ![s].valid = TRUE,
                        ![s].type = disk[i].type, ![s].nlink = disk[i].nlink]

Unlocked(sl, s) == [sl EXCEPT ![s].busy = FALSE]

(* inode_update after the link count changed by n.                          *)
SlotNlink(sl, s, n) == [sl EXCEPT ![s].nlink = @ + n]
DiskNlink(d, s, n) == [d EXCEPT ![slot[s].inum].nlink = slot[s].nlink + n]

Inum(s) == slot[s].inum
IsDir(s) == slot[s].type = "dir"
Lookup(s, name) == ents[Inum(s)][name]

(* Mutant: any put of an inode without links frees it.                      *)
LastPutEarly(sl, s) == sl[s].valid /\ sl[s].nlink = 0

(* inode_put of slot s among the slots sl, after which process p goes on as *)
(* r says; the last reference to an inode without links frees it first.     *)
LastPut(sl, s) == sl[s].ref = 1 /\ sl[s].valid /\ sl[s].nlink = 0

Put(p, sl, s, r) ==
  IF LastPut(sl, s)
  THEN /\ slot' = [sl EXCEPT ![s].busy = TRUE]
       /\ proc' = [proc EXCEPT ![p] = [r EXCEPT
            !.pc = IF sl[s].busy THEN "put busy" ELSE "free",
            !.then = r.pc, !.victim = s]]
  ELSE /\ slot' = [sl EXCEPT ![s].ref = @ - 1]
       /\ proc' = [proc EXCEPT ![p] = r]

Goto(p, r) == proc' = [proc EXCEPT ![p] = r]
Between(cwd, file) == [Quiet EXCEPT !.cwd = cwd, !.file = file]
Done(me) == Between(me.cwd, me.file)
At(p, pc) == panic = "none" /\ proc[p].pc = pc

(* mkfs: a link for every entry, ".." included and "." not.                 *)
Entries(i) == Cardinality({e \in (DOMAIN Tree) \X Names : Tree[e[1]][e[2]] = i})

Init ==
  /\ disk = [i \in Inums |->
       IF Entries(i) = 0 THEN Free
       ELSE [type |-> IF i \in DOMAIN Tree THEN "dir" ELSE "file",
             nlink |-> Entries(i)]]
  /\ ents = [i \in Inums |-> IF i \in DOMAIN Tree THEN Tree[i] ELSE NoEntries]
  /\ slot = [s \in Slots |->
       IF s = 1 THEN [EmptySlot EXCEPT !.inum = ROOTINO, !.ref = Cardinality(Procs)]
       ELSE EmptySlot]
  /\ proc = [p \in Procs |-> Between(1, 0)]
  /\ trans = NoProc /\ panic = "none" /\ made = 0

-----------------------------------------------------------------------------

(* Locks: what a process at a place locks, and where it goes on.            *)
LockNext ==
  [walk |-> "look", open |-> "opened", chdir |-> "chdired",
   create |-> "lookup", exists |-> "existing", new |-> "fill",
   unlink |-> "find", target |-> "remove",
   link |-> "count", linkto |-> "enter", undo |-> "uncount"]

LockTarget(me) ==
  IF me.pc = "walk" THEN me.cur
  ELSE IF me.pc \in {"create", "unlink", "linkto"} THEN me.dp
  ELSE me.ip

InodeLock(p) ==
  LET me == proc[p]
      s == LockTarget(me)
  IN  /\ panic = "none" /\ me.pc \in DOMAIN LockNext
      /\ me.pc = "walk" => me.path # <<>>
      /\ ~slot[s].busy
      /\ slot' = Locked(s)
      /\ Goto(p, [me EXCEPT !.pc = LockNext[me.pc]])
      /\ panic' = IF slot'[s].type = "free" THEN "no type" ELSE "none"
      /\ UNCHANGED <<disk, ents, trans, made>>

(* The end of inode_put: the inode is freed on disk, which writes to the    *)
(* log; log_write is content with a transaction of any process.             *)
InodeFree(p) ==
  LET me == proc[p]
      s == me.victim
  IN  /\ panic = "none" /\ me.pc \in {"free", "put busy"}
      /\ IF trans # NoProc /\ me.pc = "free"
         THEN /\ disk' = [disk EXCEPT ![Inum(s)] = Free]
              /\ ents' = [ents EXCEPT ![Inum(s)] = NoEntries]
              /\ slot' = [slot EXCEPT ![s] = [EmptySlot EXCEPT !.inum = Inum(s),
                                                              !.ref = slot[s].ref - 1]]
              /\ Goto(p, [me EXCEPT !.pc = me.then, !.then = "none", !.victim = 0])
              /\ UNCHANGED panic
         ELSE /\ panic' = IF me.pc = "free" THEN "outside" ELSE me.pc
              /\ UNCHANGED <<disk, ents, slot, proc>>
      /\ UNCHANGED <<trans, made>>

BeginNext == [begin |-> "walk", remove_begin |-> "unlink", link_begin |-> "link",
              close_begin |-> "close"]

(* namex: it starts at the root or at the working directory.                *)
WalkFrom(p, me, path, par, ret) ==
  LET abs == path # <<>> /\ Head(path) = "/"
      r == [me EXCEPT !.pc = "walk", !.par = par, !.ret = ret,
                      !.path = IF abs THEN Tail(path) ELSE path,
                      !.cur = IF abs THEN SlotOf(slot, ROOTINO) ELSE me.cwd]
  IN  /\ slot' = IF abs THEN Get(slot, ROOTINO) ELSE Dup(slot, me.cwd)
      /\ Goto(p, r)

(* begin_trans; create walks inside the transaction.                        *)
BeginTrans(p) ==
  LET me == proc[p]
  IN  /\ panic = "none" /\ me.pc \in DOMAIN BeginNext /\ trans = NoProc
      /\ trans' = p
      /\ IF me.pc = "begin" THEN WalkFrom(p, me, me.path, TRUE, "create")
         ELSE Goto(p, [me EXCEPT !.pc = BeginNext[me.pc]]) /\ UNCHANGED slot
      /\ UNCHANGED <<disk, ents, panic, made>>

(* commit_trans; an open that created its file still holds it locked.       *)
CommitTrans(p) ==
  LET me == proc[p]
  IN  /\ At(p, "commit")
      /\ trans' = NoProc
      /\ Goto(p, IF me.call = "creat" /\ me.ip # 0
                 THEN [me EXCEPT !.pc = "opened"] ELSE Done(me))
      /\ UNCHANGED <<slot, disk, ents, panic, made>>

-----------------------------------------------------------------------------

(* Where a call goes on when its walk found nothing.                        *)
NotFound(me) ==
  LET r == [me EXCEPT !.cur = 0, !.path = <<>>, !.par = FALSE, !.ret = "none"]
  IN  IF me.ret = "create" THEN [r EXCEPT !.pc = "commit"]
      ELSE IF me.ret = "linkto" THEN [r EXCEPT !.pc = "undo"]
      ELSE Done(me)

Found(me) ==
  LET r == [me EXCEPT !.pc = me.ret, !.ret = "none", !.cur = 0, !.path = <<>>,
                      !.par = FALSE]
  IN  IF me.par THEN [r EXCEPT !.dp = me.cur, !.name = Head(me.path)]
      ELSE [r EXCEPT !.ip = me.cur]

WalkEnd(p) ==
  LET me == proc[p]
  IN  /\ At(p, "walk") /\ me.path = <<>>
      /\ IF me.par THEN Put(p, slot, me.cur, NotFound(me))
         ELSE Goto(p, Found(me)) /\ UNCHANGED slot
      /\ UNCHANGED <<disk, ents, trans, panic, made>>

(* One name of the path, in the locked directory cur.                       *)
WalkStep(p) ==
  LET me == proc[p]
      i == Lookup(me.cur, Head(me.path))
      off == Unlocked(slot, me.cur)
  IN  /\ At(p, "look")
      /\ IF ~IsDir(me.cur) THEN Put(p, off, me.cur, NotFound(me))
         ELSE IF me.par /\ Len(me.path) = 1 THEN slot' = off /\ Goto(p, Found(me))
         ELSE IF i = 0 THEN Put(p, off, me.cur, NotFound(me))
         ELSE Put(p, Unlocked(Get(slot, i), me.cur), me.cur,
                  [me EXCEPT !.pc = "walk", !.cur = SlotOf(slot, i),
                             !.path = Tail(@)])
      /\ UNCHANGED <<disk, ents, trans, panic, made>>

-----------------------------------------------------------------------------

(* The start of a system call.                                              *)
Call(p, call, path, to) ==
  LET me == [proc[p] EXCEPT !.call = call]
  IN  /\ At(p, "idle") /\ made < MaxCalls
      /\ made' = made + 1
      /\ CASE call \in {"open", "chdir"} -> WalkFrom(p, me, path, FALSE, call)
           [] call = "unlink" -> WalkFrom(p, me, path, TRUE, "remove_begin")
           [] call = "link" -> WalkFrom(p, [me EXCEPT !.to = to], path, FALSE, "link_begin")
           [] OTHER -> /\ Goto(p, [me EXCEPT !.pc = "begin", !.path = path])
                       /\ UNCHANGED slot
      /\ UNCHANGED <<disk, ents, trans, panic>>

(* file_close for the last descriptor of an inode.                          *)
CallClose(p) ==
  LET me == proc[p]
  IN  /\ At(p, "idle") /\ me.file # 0
      /\ Goto(p, [me EXCEPT !.pc = "close_begin", !.call = "close", !.ip = me.file,
                            !.file = 0])
      /\ UNCHANGED <<slot, disk, ents, trans, panic, made>>

FileClose(p) ==
  LET me == proc[p]
  IN  /\ At(p, "close")
      /\ Put(p, slot, me.ip, [me EXCEPT !.pc = "commit", !.ip = 0])
      /\ UNCHANGED <<disk, ents, trans, panic, made>>

(* sys_open with the inode locked: a process here has one descriptor.  A    *)
(* directory is opened for writing by none of the calls.                    *)
Open(p) ==
  LET me == proc[p]
  IN  /\ At(p, "opened")
      /\ IF me.file # 0 THEN Put(p, Unlocked(slot, me.ip), me.ip, Done(me))
         ELSE /\ slot' = Unlocked(slot, me.ip)
              /\ Goto(p, Between(me.cwd, me.ip))
      /\ UNCHANGED <<disk, ents, trans, panic, made>>

Chdir(p) ==
  LET me == proc[p]
      off == Unlocked(slot, me.ip)
  IN  /\ At(p, "chdired")
      /\ IF ~IsDir(me.ip) THEN Put(p, off, me.ip, Done(me))
         ELSE Put(p, off, me.cwd, Between(me.ip, me.file))
      /\ UNCHANGED <<disk, ents, trans, panic, made>>

(* create, with the directory dp locked: the name exists, or an inode is    *)
(* allocated.                                                               *)
Create(p) ==
  LET me == proc[p]
      i == Lookup(me.dp, me.name)
      free == {k \in Inums : disk[k].type = "free"}
      new == Min(free)
  IN  /\ At(p, "lookup")
      /\ IF i # 0
         THEN /\ Put(p, Unlocked(Get(slot, i), me.dp), me.dp,
                     [me EXCEPT !.pc = "exists", !.ip = SlotOf(slot, i), !.dp = 0])
              /\ UNCHANGED <<disk, panic>>
         ELSE IF free = {}
         THEN panic' = "no inodes" /\ UNCHANGED <<slot, disk, proc>>
         ELSE /\ disk' = [disk EXCEPT ![new] =
                  [type |-> IF me.call = "mkdir" THEN "dir" ELSE "file", nlink |-> 0]]
              /\ slot' = Get(slot, new)
              /\ Goto(p, [me EXCEPT !.pc = "new", !.ip = SlotOf(slot, new)])
              /\ UNCHANGED panic
      /\ UNCHANGED <<ents, trans, made>>

(* sys_open keeps an existing file, locked; sys_mkdir fails.                *)
Existing(p) ==
  LET me == proc[p]
  IN  /\ At(p, "existing")
      /\ IF me.call = "creat" /\ slot[me.ip].type = "file"
         THEN Goto(p, [me EXCEPT !.pc = "commit"]) /\ UNCHANGED slot
         ELSE Put(p, Unlocked(slot, me.ip), me.ip, [me EXCEPT !.pc = "commit", !.ip = 0])
      /\ UNCHANGED <<disk, ents, trans, panic, made>>

(* The new inode gets its link, a directory its entries, and the name.      *)
Fill(p) ==
  LET me == proc[p]
      dir == me.call = "mkdir"
      n == IF dir THEN 1 ELSE 0
  IN  /\ At(p, "fill")
      /\ disk' = DiskNlink(DiskNlink(disk, me.ip, 1), me.dp, n)
      /\ ents' = [ents EXCEPT
           ![Inum(me.ip)] = IF dir THEN [@ EXCEPT ![".."] = Inum(me.dp)] ELSE @,
           ![Inum(me.dp)] = [@ EXCEPT ![me.name] = Inum(me.ip)]]
      /\ Put(p, Unlocked(SlotNlink(SlotNlink(slot, me.ip, 1), me.dp, n), me.dp), me.dp,
             [me EXCEPT !.pc = IF dir THEN "made" ELSE "commit", !.dp = 0])
      /\ UNCHANGED <<trans, panic, made>>

Made(p) ==
  LET me == proc[p]
  IN  /\ At(p, "made")
      /\ Put(p, Unlocked(slot, me.ip), me.ip, [me EXCEPT !.pc = "commit", !.ip = 0])
      /\ UNCHANGED <<disk, ents, trans, panic, made>>

-----------------------------------------------------------------------------

(* sys_unlink, with dp locked, and then with the inode of the name too.     *)
Find(p) ==
  LET me == proc[p]
      i == Lookup(me.dp, me.name)
  IN  /\ At(p, "find")
      /\ IF me.name = ".." \/ i = 0
         THEN Put(p, Unlocked(slot, me.dp), me.dp, [me EXCEPT !.pc = "commit", !.dp = 0])
         ELSE /\ slot' = Get(slot, i)
              /\ Goto(p, [me EXCEPT !.pc = "target", !.ip = SlotOf(slot, i)])
      /\ UNCHANGED <<disk, ents, trans, panic, made>>

IsDirEmpty(s) == \A name \in Names \ {".."} : Lookup(s, name) = 0

Remove(p) ==
  LET me == proc[p]
      n == IF IsDir(me.ip) THEN -1 ELSE 0
  IN  /\ At(p, "remove")
      /\ IF slot[me.ip].nlink < 1
         THEN panic' = "nlink" /\ UNCHANGED <<slot, disk, ents, proc>>
         ELSE IF IsDir(me.ip) /\ ~IsDirEmpty(me.ip)
         THEN /\ Put(p, Unlocked(slot, me.ip), me.ip, [me EXCEPT !.pc = "refuse", !.ip = 0])
              /\ UNCHANGED <<disk, ents, panic>>
         ELSE /\ ents' = [ents EXCEPT ![Inum(me.dp)][me.name] = 0]
              /\ disk' = DiskNlink(disk, me.dp, n)
              /\ Put(p, Unlocked(SlotNlink(slot, me.dp, n), me.dp), me.dp,
                     [me EXCEPT !.pc = "removed", !.dp = 0])
              /\ UNCHANGED panic
      /\ UNCHANGED <<trans, made>>

Refuse(p) ==
  LET me == proc[p]
  IN  /\ At(p, "refuse")
      /\ Put(p, Unlocked(slot, me.dp), me.dp, [me EXCEPT !.pc = "commit", !.dp = 0])
      /\ UNCHANGED <<disk, ents, trans, panic, made>>

(* The link is dropped, by unlink and by a link that failed.                *)
Unlinked(p) ==
  LET me == proc[p]
  IN  /\ panic = "none" /\ me.pc \in {"removed", "uncount"}
      /\ disk' = DiskNlink(disk, me.ip, -1)
      /\ Put(p, Unlocked(SlotNlink(slot, me.ip, -1), me.ip), me.ip,
             [me EXCEPT !.pc = "commit", !.ip = 0])
      /\ UNCHANGED <<ents, trans, panic, made>>

-----------------------------------------------------------------------------

(* Mutant: a link that is not counted.                                      *)
CountNot(p) ==
  LET me == proc[p]
  IN  /\ At(p, "count")
      /\ IF IsDir(me.ip)
         THEN Put(p, Unlocked(slot, me.ip), me.ip, [me EXCEPT !.pc = "commit", !.ip = 0])
         ELSE /\ slot' = Unlocked(slot, me.ip)
              /\ Goto(p, [me EXCEPT !.pc = "counted"])
      /\ UNCHANGED <<disk, ents, trans, panic, made>>

(* sys_link: it counts the link first and then looks for the directory.     *)
Count(p) ==
  LET me == proc[p]
  IN  /\ At(p, "count")
      /\ IF IsDir(me.ip)
         THEN /\ Put(p, Unlocked(slot, me.ip), me.ip, [me EXCEPT !.pc = "commit", !.ip = 0])
              /\ UNCHANGED disk
         ELSE /\ disk' = DiskNlink(disk, me.ip, 1)
              /\ slot' = Unlocked(SlotNlink(slot, me.ip, 1), me.ip)
              /\ Goto(p, [me EXCEPT !.pc = "counted"])
      /\ UNCHANGED <<ents, trans, panic, made>>

Counted(p) ==
  LET me == proc[p]
  IN  /\ At(p, "counted")
      /\ WalkFrom(p, me, me.to, TRUE, "linkto")
      /\ UNCHANGED <<disk, ents, trans, panic, made>>

Enter(p) ==
  LET me == proc[p]
      taken == Lookup(me.dp, me.name) # 0
  IN  /\ At(p, "enter")
      /\ ents' = IF taken THEN ents
                 ELSE [ents EXCEPT ![Inum(me.dp)][me.name] = Inum(me.ip)]
      /\ Put(p, Unlocked(slot, me.dp), me.dp,
             [me EXCEPT !.pc = IF taken THEN "undo" ELSE "entered", !.dp = 0])
      /\ UNCHANGED <<disk, trans, panic, made>>

Entered(p) ==
  LET me == proc[p]
  IN  /\ At(p, "entered")
      /\ Put(p, slot, me.ip, [me EXCEPT !.pc = "commit", !.ip = 0])
      /\ UNCHANGED <<disk, ents, trans, panic, made>>

-----------------------------------------------------------------------------

Step(p) ==
  \/ InodeLock(p) \/ InodeFree(p) \/ BeginTrans(p) \/ CommitTrans(p)
  \/ WalkEnd(p) \/ WalkStep(p) \/ FileClose(p) \/ Open(p) \/ Chdir(p)
  \/ Create(p) \/ Existing(p) \/ Fill(p) \/ Made(p)
  \/ Find(p) \/ Remove(p) \/ Refuse(p) \/ Unlinked(p)
  \/ Count(p) \/ Counted(p) \/ Enter(p) \/ Entered(p)

(* Nothing more happens once the kernel has stopped, or all calls are made. *)
Stopped ==
  /\ panic # "none" \/ (made = MaxCalls /\ \A p \in Procs : proc[p].pc = "idle")
  /\ UNCHANGED vars

Next ==
  \/ \E p \in Procs :
       \/ \E c \in Calls : Call(p, c[1], c[2], c[3])
       \/ CallClose(p)
       \/ Step(p)
  \/ Stopped

Spec == Init /\ [][Next]_vars

-----------------------------------------------------------------------------

(* The inodes that are reached from the root.                               *)
InTree ==
  LET reached[n \in 0 .. NINUM] ==
        IF n = 0 THEN {ROOTINO}
        ELSE LET near == reached[n - 1]
             IN  near \cup {i \in Inums : \E d \in near, name \in Names : ents[d][name] = i}
  IN  reached[NINUM]

(* A slot counts exactly the pointers to it that working directories, open  *)
(* files and calls in progress hold, and no inode has two slots in use:     *)
(* inode_get, inode_dup and inode_put balance on every path of every call.  *)
Pointers(p) == <<proc[p].cwd, proc[p].file, proc[p].cur, proc[p].ip, proc[p].dp,
                 proc[p].victim>>
RefsHeld ==
  panic = "none" =>
  /\ \A s \in Slots :
       slot[s].ref = Cardinality({x \in Procs \X (1 .. 6) : Pointers(x[1])[x[2]] = s})
  /\ \A s, u \in Slots :
       slot[s].ref > 0 /\ slot[u].ref > 0 /\ slot[s].inum = slot[u].inum => s = u

(* An inode of the tree, and one that somebody has locked, opened or made   *)
(* their working directory, stays allocated, and what an unlocked slot says *)
(* of it is what the disk says; so the kernel's checks of types and counts  *)
(* do not fail in the tree.  What stops the kernel is a write to the log    *)
(* when there is no transaction, a full disk, or a walk to ".." out of a    *)
(* directory that was removed while it was held: the parent that is named   *)
(* there may have been removed and freed as well.                           *)
HeldAllocated ==
  /\ \A i \in InTree : disk[i].type # "free"
  /\ panic \in {"none", "outside", "no inodes", "no type"}
  /\ panic = "none" =>
       \A s \in Slots : slot[s].ref > 0 /\ slot[s].valid =>
         /\ disk[slot[s].inum].type # "free"
         /\ ~slot[s].busy =>
              disk[slot[s].inum] = [type |-> slot[s].type, nlink |-> slot[s].nlink]
  /\ panic = "no type" =>
       \E s \in Slots : slot[s].busy /\ slot[s].type = "free" /\ slot[s].inum \notin InTree

(* Between transactions an inode has a link for each of its names (and some *)
(* to spare if a directory was removed under a process that then created it *)
(* there), and one without links is one that somebody still holds: the last *)
(* holder frees it, whoever that is.                                        *)
LinksMatch ==
  panic = "none" /\ trans = NoProc =>
    LET entries == InTree \X Names
    IN  \A i \in Inums : disk[i].type # "free" =>
      /\ disk[i].nlink >= Cardinality({e \in entries : ents[e[1]][e[2]] = i})
      /\ disk[i].nlink = 0 => \E s \in Slots : slot[s].ref > 0 /\ slot[s].inum = i
=============================================================================
