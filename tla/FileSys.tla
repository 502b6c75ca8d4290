------------------------------- MODULE FileSys -------------------------------
(***************************************************************************)
(* The file system as one process sees it: the blocks and the bitmap of    *)
(* kern/fs/block.c, the inodes of inode.c, the directories of dir.c, the   *)
(* path walk of path.c, and the system calls of sysfile.c and TSyscall.c   *)
(* above them, as operators from a state to a state and a result.  MkFs is *)
(* the image that mkfs.c writes.  How processes interleave inside these    *)
(* calls is in Inode; transactions are in Log.                             *)
(*                                                                         *)
(* A block is BSIZE cells, and a cell is a pair: a byte <<b, "">>, a block *)
(* address <<a, "">> of an indirect block, or a directory entry            *)
(* <<inum, name>>; sizes and offsets count cells.  A path is a sequence of *)
(* names and slashes.  A state s has the fields                            *)
(*   ino, used, blk   the dinodes, the bitmap and the blocks of the disk,  *)
(*   sb               its superblock,                                      *)
(*   cwd, ofile       the process's directory (0: null) and descriptors,   *)
(*   leaked           inodes that sys_pwd keeps a reference to,            *)
(*   halt             "no", "panic" (KERN_PANIC), "outside" (the panic of  *)
(*                    log_write outside a transaction), or "undefined" (a  *)
(*                    value never set was used, or a loop does not end).   *)
(***************************************************************************)
EXTENDS UserCalls, SequencesExt, FiniteSets, FiniteSetsExt

CONSTANTS BSIZE,        \* cells of a block
          NDIRECT,      \* direct block addresses of an inode
          NOFILE,       \* descriptors of a process
          WCHUNK,       \* cells file_write puts into one transaction
          Truncated     \* names longer than DIRSIZ - 1, and what they become

ASSUME FileSysAssumption ==
  /\ BSIZE \in Nat \ {0} /\ NDIRECT \in Nat \ {0}
  /\ NOFILE \in Nat /\ WCHUNK \in Nat \ {0}

NINDIRECT == BSIZE
MAXFILE == NDIRECT + NINDIRECT
ROOTINO == 1
Fds == 0 .. NOFILE - 1

ZeroCell == <<0, "">>
ZeroBlock == [k \in 0 .. BSIZE - 1 |-> ZeroCell]
FreeInode == [type |-> "free", nlink |-> 0, size |-> 0,
              addrs |-> [k \in 0 .. NDIRECT |-> 0]]
NoOpen == [ip |-> 0, off |-> 0, readable |-> FALSE, writable |-> FALSE]

Halt(s, why) == IF s.halt = "no" THEN [s EXCEPT !.halt = why] ELSE s

-----------------------------------------------------------------------------

(* block_alloc: the first block the bitmap calls free, zeroed.  A full disk *)
(* makes it return whatever is in the register.                             *)
BlockAlloc(s) ==
  LET free == (0 .. s.sb.size - 1) \ s.used
      b == Min(free)
  IN  IF free = {} THEN <<Halt(s, "undefined"), 0>>
      ELSE <<[s EXCEPT !.used = @ \cup {b}, !.blk[b] = ZeroBlock], b>>

BlockFree(s, b) ==
  IF b \notin s.used THEN Halt(s, "panic")
  ELSE [s EXCEPT !.used = @ \ {b}]

(* bmap: the address of block bn of inode i, allocated when it has none.    *)
Bmap(s, i, bn) ==
  LET direct == s.ino[i].addrs[bn]
      a == BlockAlloc(s)
      ind == s.ino[i].addrs[NDIRECT]
      s1 == IF ind # 0 THEN s ELSE [a[1] EXCEPT !.ino[i].addrs[NDIRECT] = a[2]]
      at == s1.ino[i].addrs[NDIRECT]
      addr == s1.blk[at][bn - NDIRECT][1]
      b == BlockAlloc(s1)
  IN  IF bn < NDIRECT
      THEN IF direct # 0 THEN <<s, direct>>
           ELSE <<[a[1] EXCEPT !.ino[i].addrs[bn] = a[2]], a[2]>>
      ELSE IF bn >= MAXFILE THEN <<Halt(s, "panic"), 0>>
      ELSE IF addr # 0 THEN <<s1, addr>>
      ELSE <<[b[1] EXCEPT !.blk[at][bn - NDIRECT] = <<b[2], "">>], b[2]>>

(* The blocks of inode i, the indirect block among them.                    *)
InodeBlocks(s, i) ==
  LET n == s.ino[i]
      ind == n.addrs[NDIRECT]
  IN  ({n.addrs[k] : k \in 0 .. NDIRECT}
        \cup (IF ind = 0 THEN {}
              ELSE {s.blk[ind][k][1] : k \in 0 .. NINDIRECT - 1})) \ {0}

(* A mutant: the block of addresses itself is not freed.                    *)
InodeTrunc_KeepsIndirect(s, i) ==
  LET s1 == FoldSet(LAMBDA b, t : BlockFree(t, b), s,
                    InodeBlocks(s, i) \ {s.ino[i].addrs[NDIRECT]})
  IN  [s1 EXCEPT !.ino[i].addrs = [k \in 0 .. NDIRECT |-> 0],
                 !.ino[i].size = 0]

InodeTrunc(s, i) ==
  LET s1 == FoldSet(LAMBDA b, t : BlockFree(t, b), s, InodeBlocks(s, i))
  IN  [s1 EXCEPT !.ino[i].addrs = [k \in 0 .. NDIRECT |-> 0],
                 !.ino[i].size = 0]

(* inode_read: a cell past the last allocated block makes bmap allocate,    *)
(* and log_write panics when no transaction is open (tx = FALSE).           *)
RECURSIVE ReadCells(_, _, _, _, _)
ReadCells(s, i, off, n, tx) ==
  LET m == Bmap(s, i, off \div BSIZE)
      s1 == IF m[1].used = s.used \/ tx THEN m[1] ELSE Halt(s, "outside")
      rest == ReadCells(s1, i, off + 1, n - 1, tx)
  IN  IF n = 0 \/ s.halt # "no" THEN <<s, <<>>>>
      ELSE IF s1.halt # "no" THEN <<s1, <<>>>>
      ELSE <<rest[1], <<s1.blk[m[2]][off % BSIZE]>> \o rest[2]>>

InodeRead(s, i, off, n, tx) ==
  LET size == s.ino[i].size
  IN  IF off > size THEN <<s, <<>>>>
      ELSE ReadCells(s, i, off, Min({n, size - off}), tx)

RECURSIVE WriteCells(_, _, _, _)
WriteCells(s, i, off, cells) ==
  LET m == Bmap(s, i, off \div BSIZE)
  IN  IF cells = <<>> \/ s.halt # "no" THEN s
      ELSE IF m[1].halt # "no" THEN m[1]
      ELSE WriteCells([m[1] EXCEPT !.blk[m[2]][off % BSIZE] = Head(cells)],
                      i, off + 1, Tail(cells))

InodeWrite(s, i, off, cells) ==
  LET end == off + Len(cells)
      s1 == WriteCells(s, i, off, cells)
  IN  IF off > s.ino[i].size \/ end > MAXFILE * BSIZE THEN <<s, None>>
      ELSE <<[s1 EXCEPT !.ino[i].size = Max({@, end})], Len(cells)>>

(* inode_alloc: the first free dinode.                                      *)
InodeAlloc(s, type) ==
  LET free == {i \in DOMAIN s.ino : s.ino[i].type = "free"}
      i == Min(free)
  IN  IF free = {} THEN <<Halt(s, "panic"), 0>>
      ELSE <<[s EXCEPT !.ino[i] = [FreeInode EXCEPT !.type = type]], i>>

(* inode_put by the last holder: what holds an inode is a descriptor, the   *)
(* current directory, or sys_pwd.  Freeing writes to the log.               *)
Held(s, i) == s.cwd = i \/ i \in s.leaked \/ \E fd \in Fds : s.ofile[fd].ip = i

InodePut(s, i, tx) ==
  IF i = 0 \/ Held(s, i) \/ s.ino[i].nlink # 0 \/ s.ino[i].type = "free" THEN s
  ELSE IF ~tx THEN Halt(s, "outside")
  ELSE [InodeTrunc(s, i) EXCEPT !.ino[i].type = "free"]

(* inode_lock panics on an inode that was freed.                            *)
InodeLock(s, i) == IF s.ino[i].type = "free" THEN Halt(s, "panic") ELSE s

-----------------------------------------------------------------------------

(* The entries of directory dp, by offset; a free entry has inum 0.  Where  *)
(* the directory has no block, reading allocates a zeroed one.              *)
Dirents(s, dp) ==
  [off \in 0 .. s.ino[dp].size - 1 |->
     LET m == Bmap(s, dp, off \div BSIZE)
     IN  m[1].blk[m[2]][off % BSIZE]]

(* dir_lookup: the state, the offset and the inode of the entry name; None  *)
(* and 0 when the whole directory was read in vain.                         *)
DirLookup(s, dp, name, tx) ==
  LET e == Dirents(s, dp)
      hits == {off \in DOMAIN e : e[off][1] # 0 /\ e[off][2] = name}
  IN  IF s.ino[dp].type # "dir" THEN <<Halt(s, "panic"), None, 0>>
      ELSE IF hits # {} THEN <<s, Min(hits), e[Min(hits)][1]>>
      ELSE <<InodeRead(s, dp, 0, s.ino[dp].size, tx)[1], None, 0>>

(* dir_link: the first free entry, or a new one at the end.                 *)
DirLink(s, dp, name, inum) ==
  LET l == DirLookup(s, dp, name, TRUE)
      e == Dirents(l[1], dp)
      free == {off \in DOMAIN e : e[off][1] = 0} \cup {s.ino[dp].size}
      w == InodeWrite(l[1], dp, Min(free), <<<<inum, name>>>>)
  IN  IF l[2] # None THEN <<s, None>>
      ELSE IF w[2] = None THEN <<Halt(s, "panic"), None>>
      ELSE <<w[1], 0>>

IsDirEmpty(s, dp) ==
  LET e == Dirents(s, dp)
  IN  \A off \in DOMAIN e : off >= 2 => e[off][1] = 0

-----------------------------------------------------------------------------

(* skipelem: the next name of a path, cut to what a directory entry holds,  *)
(* and the path after it and its slashes.                                   *)
RECURSIVE DropSlashes(_)
DropSlashes(path) ==
  IF path # <<>> /\ Head(path) = "/" THEN DropSlashes(Tail(path)) ELSE path

(* A mutant: names are compared in full length.                             *)
StoredName_Whole(n) == n

StoredName(n) == IF n \in DOMAIN Truncated THEN Truncated[n] ELSE n

SkipElem(path) ==
  LET p == DropSlashes(path)
  IN  IF p = <<>> THEN [more |-> FALSE, name |-> "", path |-> <<>>]
      ELSE [more |-> TRUE, name |-> StoredName(Head(p)),
            path |-> DropSlashes(Tail(p))]

(* The loop of namex from inode ip on; parent asks for the directory of the *)
(* last element.  The result has ip = 0 where the code returns null.        *)
RECURSIVE Walk(_, _, _, _, _, _)
Walk(s, ip, path, parent, name, tx) ==
  LET e == SkipElem(path)
      s1 == InodeLock(s, ip)
      sub == DirLookup(s1, ip, e.name, tx)
      at(t, i) == [s |-> t, ip |-> i, name |-> e.name]
  IN  IF ~e.more THEN [s |-> s, ip |-> IF parent THEN 0 ELSE ip, name |-> name]
      ELSE IF s1.halt # "no" \/ s1.ino[ip].type # "dir" THEN at(s1, 0)
      ELSE IF parent /\ e.path = <<>> THEN at(s1, ip)
      ELSE IF sub[1].halt # "no" \/ sub[3] = 0 THEN at(sub[1], 0)
      ELSE Walk(sub[1], sub[3], e.path, parent, e.name, tx)

(* namex: a null current directory becomes the root.                        *)
Namex(s, path, parent, tx) ==
  LET abs == path # <<>> /\ path[1] = "/"
      s1 == IF ~abs /\ s.cwd = 0 THEN [s EXCEPT !.cwd = ROOTINO] ELSE s
  IN  Walk(s1, IF abs THEN ROOTINO ELSE s1.cwd, path, parent, "", tx)

Namei(s, path) == Namex(s, path, FALSE, FALSE)

-----------------------------------------------------------------------------

(* fdalloc and the rest of sys_open once the inode is found and locked.     *)
FileOpen(s, ip, omode) ==
  LET free == {fd \in Fds : s.ofile[fd].ip = 0}
      fd == Min(free)
  IN  IF free = {} THEN <<InodePut(s, ip, FALSE), None>>
      ELSE <<[s EXCEPT !.ofile[fd] =
                [ip |-> ip, off |-> 0, readable |-> "WRONLY" \notin omode,
                 writable |-> omode \cap {"WRONLY", "RDWR"} # {}]], fd>>

(* create: an existing file is returned as it is, for a file.               *)
Create(s, path, type) ==
  LET w == Namex(s, path, TRUE, TRUE)
      dp == w.ip
      s1 == InodeLock(w.s, dp)
      old == DirLookup(s1, dp, w.name, TRUE)
      locked == InodeLock(old[1], old[3])
      new == InodeAlloc(old[1], type)
      i == new[2]
      s2 == [new[1] EXCEPT !.ino[i].nlink = 1]
      s3 == DirLink([s2 EXCEPT !.ino[dp].nlink = @ + 1], i, ".", i)
      s4 == DirLink(s3[1], i, "..", dp)
      s5 == DirLink(IF type = "dir" THEN s4[1] ELSE s2, dp, w.name, i)
  IN  IF dp = 0 \/ w.s.halt # "no" THEN <<w.s, 0>>
      ELSE IF s1.halt # "no" THEN <<s1, 0>>
      ELSE IF old[1].halt # "no" THEN <<old[1], 0>>
      ELSE IF old[2] # None
      THEN <<locked, IF type = "file" /\ locked.ino[old[3]].type = "file"
                     THEN old[3] ELSE 0>>
      ELSE IF new[1].halt # "no" THEN <<new[1], 0>>
      ELSE <<s5[1], i>>

(* A mutant: creating a file that exists empties it.                        *)
SysOpen_Truncates(s, path, omode) ==
  LET c == Create(s, path, "file")
      w == Namei(s, path)
      s1 == InodeLock(w.s, w.ip)
  IN  IF "CREATE" \in omode
      THEN IF c[2] = 0 THEN <<c[1], None>>
           ELSE FileOpen(InodeTrunc(c[1], c[2]), c[2], omode)
      ELSE IF w.ip = 0 \/ w.s.halt # "no" THEN <<w.s, None>>
      ELSE IF s1.halt # "no" \/ (s1.ino[w.ip].type = "dir" /\ omode # {})
      THEN <<s1, None>>
      ELSE FileOpen(s1, w.ip, omode)

SysOpen(s, path, omode) ==
  LET c == Create(s, path, "file")
      w == Namei(s, path)
      s1 == InodeLock(w.s, w.ip)
  IN  IF "CREATE" \in omode
      THEN IF c[2] = 0 THEN <<c[1], None>> ELSE FileOpen(c[1], c[2], omode)
      ELSE IF w.ip = 0 \/ w.s.halt # "no" THEN <<w.s, None>>
      ELSE IF s1.halt # "no" \/ (s1.ino[w.ip].type = "dir" /\ omode # {})
      THEN <<s1, None>>
      ELSE FileOpen(s1, w.ip, omode)

SysMkdir(s, path) ==
  LET c == Create(s, path, "dir")
  IN  <<c[1], IF c[2] = 0 THEN None ELSE 0>>

BadFd(s, fd) == fd \notin Fds \/ s.ofile[fd].ip = 0

SysClose(s, fd) ==
  IF BadFd(s, fd) THEN <<s, None>>
  ELSE <<InodePut([s EXCEPT !.ofile[fd] = NoOpen], s.ofile[fd].ip, TRUE), 0>>

(* sys_read: the result is the cells read, or None.                         *)
SysRead(s, fd, n) ==
  LET f == s.ofile[fd]
      r == InodeRead(s, f.ip, f.off, n, FALSE)
  IN  IF BadFd(s, fd) THEN <<s, None, <<>>>>
      ELSE IF ~f.readable THEN <<s, None, <<>>>>
      ELSE <<[r[1] EXCEPT !.ofile[fd].off = @ + Len(r[2])], Len(r[2]), r[2]>>

(* file_write: one transaction for each WCHUNK cells, as far as they go.    *)
RECURSIVE FileWrite(_, _, _)
FileWrite(s, fd, cells) ==
  LET f == s.ofile[fd]
      n1 == Min({WCHUNK, Len(cells)})
      w == InodeWrite(s, f.ip, f.off, SubSeq(cells, 1, n1))
      s1 == [w[1] EXCEPT !.ofile[fd].off = @ + n1]
  IN  IF cells = <<>> THEN <<s, TRUE>>
      ELSE IF w[2] = None \/ w[1].halt # "no" THEN <<w[1], FALSE>>
      ELSE FileWrite(s1, fd, SubSeq(cells, n1 + 1, Len(cells)))

SysWrite(s, fd, cells) ==
  LET w == FileWrite(s, fd, cells)
  IN  IF BadFd(s, fd) THEN <<s, None>>
      ELSE IF ~s.ofile[fd].writable THEN <<s, None>>
      ELSE <<w[1], IF w[2] THEN Len(cells) ELSE None>>

(* sys_link: the count goes up first, and down again when the new name      *)
(* cannot be entered.                                                       *)
SysLink(s, old, new) ==
  LET w == Namei(s, old)
      ip == w.ip
      s1 == InodeLock(w.s, ip)
      s2 == [s1 EXCEPT !.ino[ip].nlink = @ + 1]
      d == Namex(s2, new, TRUE, TRUE)
      s3 == InodeLock(d.s, d.ip)
      l == DirLink(s3, d.ip, d.name, ip)
      bad(t) == <<InodePut([t EXCEPT !.ino[ip].nlink = @ - 1], ip, TRUE), None>>
  IN  IF ip = 0 \/ w.s.halt # "no" THEN <<w.s, None>>
      ELSE IF s1.halt # "no" \/ s1.ino[ip].type = "dir" THEN <<s1, None>>
      ELSE IF d.s.halt # "no" THEN <<d.s, None>>
      ELSE IF d.ip = 0 THEN bad(d.s)
      ELSE IF s3.halt # "no" THEN <<s3, None>>
      ELSE IF l[2] = None THEN bad(l[1])
      ELSE <<l[1], 0>>

(* A mutant: the directory keeps the link of a removed subdirectory.        *)
SysUnlink_KeepsParentLink(s, path) ==
  LET w == Namex(s, path, TRUE, FALSE)
      dp == w.ip
      s1 == InodeLock(w.s, dp)
      l == DirLookup(s1, dp, w.name, TRUE)
      ip == l[3]
      s2 == InodeLock(l[1], ip)
      s3 == InodeWrite(s2, dp, l[2], <<ZeroCell>>)[1]
      s4 == [s3 EXCEPT !.ino[ip].nlink = @ - 1]
  IN  IF dp = 0 \/ w.s.halt # "no" THEN <<w.s, None>>
      ELSE IF s1.halt # "no" \/ w.name \in {".", ".."} THEN <<s1, None>>
      ELSE IF ip = 0 \/ l[1].halt # "no" THEN <<l[1], None>>
      ELSE IF s2.ino[ip].type = "dir" /\ ~IsDirEmpty(s2, ip) THEN <<s2, None>>
      ELSE <<InodePut(s4, ip, TRUE), 0>>

(* sys_unlink: the entry is cleared, the counts of the directory (for a     *)
(* subdirectory) and of the inode go down, and the last one frees it.       *)
SysUnlink(s, path) ==
  LET w == Namex(s, path, TRUE, FALSE)
      dp == w.ip
      s1 == InodeLock(w.s, dp)
      l == DirLookup(s1, dp, w.name, TRUE)
      ip == l[3]
      s2 == InodeLock(l[1], ip)
      isdir == s2.ino[ip].type = "dir"
      s3 == InodeWrite(s2, dp, l[2], <<ZeroCell>>)[1]
      s4 == IF isdir THEN [s3 EXCEPT !.ino[dp].nlink = @ - 1] ELSE s3
      s5 == [s4 EXCEPT !.ino[ip].nlink = @ - 1]
  IN  IF dp = 0 \/ w.s.halt # "no" THEN <<w.s, None>>
      ELSE IF s1.halt # "no" \/ w.name \in {".", ".."} THEN <<s1, None>>
      ELSE IF ip = 0 \/ l[1].halt # "no" THEN <<l[1], None>>
      ELSE IF s2.halt # "no" THEN <<s2, None>>
      ELSE IF s2.ino[ip].nlink < 1 THEN <<Halt(s2, "panic"), None>>
      ELSE IF isdir /\ ~IsDirEmpty(s2, ip) THEN <<s2, None>>
      ELSE <<InodePut(s5, ip, TRUE), 0>>

(* sys_chdir: the old directory is given up outside any transaction.        *)
SysChdir(s, path) ==
  LET w == Namei(s, path)
      s1 == InodeLock(w.s, w.ip)
  IN  IF w.ip = 0 \/ w.s.halt # "no" THEN <<w.s, None>>
      ELSE IF s1.halt # "no" \/ s1.ino[w.ip].type # "dir" THEN <<s1, None>>
      ELSE <<InodePut([s1 EXCEPT !.cwd = w.ip], s1.cwd, FALSE), 0>>

(* sys_fstat fills a kernel record; the user's record keeps what it held.   *)
SysFstat(s, fd) == <<s, IF BadFd(s, fd) THEN None ELSE 0>>

SysIsDir(s, fd) ==
  <<s, IF BadFd(s, fd) THEN None
       ELSE IF s.ino[s.ofile[fd].ip].type = "dir" THEN 1 ELSE 0>>

(* sys_ls: the names of the current directory, in the order of its entries. *)
SysLs(s) ==
  LET s1 == IF s.cwd = 0 THEN [s EXCEPT !.cwd = ROOTINO] ELSE s
      s2 == InodeLock(s1, s1.cwd)
      r == InodeRead(s2, s2.cwd, 0, s2.ino[s2.cwd].size, FALSE)
      names == SelectSeq(r[2], LAMBDA e : e[1] # 0)
  IN  IF s2.halt # "no" THEN <<s2, <<>>>>
      ELSE <<r[1], [k \in 1 .. Len(names) |-> names[k][2]]>>

(* sys_pwd climbs from directory to directory without locking one and       *)
(* without giving one back.  An inode nobody had locked before is read from *)
(* a slot with the fields of its last user (stale), which dir_lookup may    *)
(* take for no directory.  The string is then copied to the address in the  *)
(* register of the call number, which is below user memory: the caller's    *)
(* buffer keeps what it held, and the caller takes the number for an error. *)
RECURSIVE Climb(_, _, _)
Climb(s, i, up) ==
  LET parent == DirLookup(s, i, "..", TRUE)[3]
  IN  IF parent \in up \cup {0, i} THEN [up |-> up \cup {parent}, end |-> parent = i]
      ELSE Climb(s, parent, up \cup {parent})

SysPwd(s, stale) ==
  LET s1 == IF s.cwd = 0 THEN [s EXCEPT !.cwd = ROOTINO] ELSE s
      c == Climb(s1, s1.cwd, {})
      locked == {s.cwd} \cup {s.ofile[fd].ip : fd \in Fds}
  IN  <<IF stale /\ ~(c.up \cup {s1.cwd} \subseteq locked) THEN Halt(s1, "panic")
        ELSE IF ~c.end THEN Halt(s1, "undefined")
        ELSE [s1 EXCEPT !.leaked = @ \cup c.up], None>>

(* syscall_dispatch, for the calls on files: the state, the number and what *)
(* the caller's buffer receives.                                            *)
Syscall(s, c) ==
  LET three(r) == <<r[1], r[2], <<>>>>
      l == SysLs(s)
  IN  CASE c.do = "open" -> three(SysOpen(s, c.path, c.mode))
        [] c.do = "close" -> three(SysClose(s, c.fd))
        [] c.do = "read" -> SysRead(s, c.fd, c.n)
        [] c.do = "write" -> three(SysWrite(s, c.fd, c.cells))
        [] c.do = "mkdir" -> three(SysMkdir(s, c.path))
        [] c.do = "chdir" -> three(SysChdir(s, c.path))
        [] c.do = "link" -> three(SysLink(s, c.path, c.to))
        [] c.do = "unlink" -> three(SysUnlink(s, c.path))
        [] c.do = "fstat" -> three(SysFstat(s, c.fd))
        [] c.do = "is_dir" -> three(SysIsDir(s, c.fd))
        [] c.do = "ls" -> <<l[1], Len(l[2]), l[2]>>
        [] c.do = "pwd" -> three(SysPwd(s, c.stale))

-----------------------------------------------------------------------------

(* mkfs.c: the metadata blocks, the root directory with "." and "..", one   *)
(* file for each of a sequence of names and contents, the root's size       *)
(* rounded up past its last entry, and the bitmap of what was handed out.   *)
IAppend(s, i, cells) == InodeWrite(s, i, s.ino[i].size, cells)[1]

IAlloc(s, type) ==
  LET a == InodeAlloc(s, type)
  IN  <<[a[1] EXCEPT !.ino[a[2]].nlink = 1], a[2]>>

MkFile(s, f) ==
  LET a == IAlloc(s, "file")
  IN  IAppend(IAppend(a[1], ROOTINO, <<<<a[2], f.name>>>>), a[2], f.cells)

MkFs(size, ninodes, meta, nlog, files) ==
  LET s0 == [sb |-> [size |-> size, nlog |-> nlog, meta |-> meta],
             ino |-> [i \in 1 .. ninodes - 1 |-> FreeInode],
             used |-> 0 .. meta - 1,
             blk |-> [b \in 0 .. size - 1 |-> ZeroBlock],
             cwd |-> 0, leaked |-> {}, halt |-> "no",
             ofile |-> [fd \in Fds |-> NoOpen]]
      root == IAppend(IAlloc(s0, "dir")[1], ROOTINO,
                      <<<<ROOTINO, ".">>, <<ROOTINO, "..">>>>)
      s1 == FoldLeft(MkFile, root, files)
  IN  [s1 EXCEPT !.ino[ROOTINO].size = ((@ \div BSIZE) + 1) * BSIZE]
=============================================================================
