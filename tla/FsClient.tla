------------------------------ MODULE FsClient ------------------------------
(***************************************************************************)
(* A process that uses the file system: it makes the system calls of       *)
(* sysfile.c one after the other, as a test program does, and runs the     *)
(* built-in commands of the shell.  It stops when the kernel has panicked. *)
(***************************************************************************)
EXTENDS FileSys, ShellCommands, FsTest

CONSTANTS Image,     \* the file system at the start
          Paths,     \* the paths the process names
          Text,      \* what it writes
          Garbage,   \* what uninitialised variables of the shell may hold
          MaxSteps   \* bound: calls and commands of a behaviour

VARIABLES fs,    \* the file system and the process's descriptors
          by,      \* who made the last step: a "call" or a "command"
          steps

vars == <<fs, by, steps>>

ASSUME ClientAssumption ==
  /\ Image.halt = "no" /\ MaxSteps \in Nat
  /\ Garbage \subseteq [tail : Seq(Int \X STRING), junk : Seq(STRING),
                        clean : BOOLEAN, stale : BOOLEAN]

-----------------------------------------------------------------------------

Init == fs = Image /\ by = "boot" /\ steps = 0

Step(who) ==
  /\ fs.halt = "no" /\ steps < MaxSteps
  /\ by' = who /\ steps' = steps + 1

DoOpen(p, omode) == Step("call") /\ fs' = open(fs, p, omode)[1]
DoClose(fd) == Step("call") /\ fs' = close(fs, fd)[1]
DoRead(fd) == Step("call") /\ fs' = read(fs, fd, CPBUF)[1]
DoWrite(fd) == Step("call") /\ fs' = write(fs, fd, Text)[1]
DoMkdir(p) == Step("call") /\ fs' = mkdir(fs, p)[1]
DoLink(p, q) == Step("call") /\ fs' = link(fs, p, q)[1]
DoUnlink(p) == Step("call") /\ fs' = unlink(fs, p)[1]
DoChdir(p) == Step("call") /\ fs' = chdir(fs, p)[1]

CmdLs(p, g) == Step("command") /\ fs' = ShellLs(fs, p, g)
CmdPwd(g) == Step("command") /\ fs' = ShellPwd(fs, g)
CmdCat(p) == Step("command") /\ fs' = ShellCat(fs, p)
CmdTouch(p) == Step("command") /\ fs' = ShellTouch(fs, p)
CmdWrite(p) == Step("command") /\ fs' = ShellWrite(fs, Text, p)
CmdAppend(p, g) == Step("command") /\ fs' = ShellAppend(fs, Text, p, g)
CmdCp(p, q, rec, g) == Step("command") /\ fs' = ShellCopy(fs, q, p, rec, g)
CmdMv(p, q, g) == Step("command") /\ fs' = ShellMv(fs, p, q, g)
CmdRm(p, rec) == Step("command") /\ fs' = ShellRm(fs, p, rec)

Next ==
  \/ \E p \in Paths, omode \in {{}, {"CREATE", "RDWR"}} : DoOpen(p, omode)
  \/ \E fd \in Fds : DoClose(fd) \/ DoRead(fd) \/ DoWrite(fd)
  \/ \E p \in Paths : DoMkdir(p) \/ DoUnlink(p) \/ DoChdir(p)
  \/ \E p, q \in Paths : DoLink(p, q)
  \/ \E p \in Paths : CmdCat(p) \/ CmdTouch(p) \/ CmdWrite(p)
  \/ \E p \in Paths \cup {<<>>}, g \in Garbage : CmdLs(p, g)
  \/ \E g \in Garbage : CmdPwd(g)
  \/ \E p \in Paths, g \in Garbage : CmdAppend(p, g)
  \/ \E p, q \in Paths, rec \in BOOLEAN, g \in Garbage : CmdCp(p, q, rec, g)
  \/ \E p, q \in Paths, g \in Garbage : CmdMv(p, q, g)
  \/ \E p \in Paths, rec \in BOOLEAN : CmdRm(p, rec)

Spec == Init /\ [][Next]_vars

-----------------------------------------------------------------------------

Inums == DOMAIN fs.ino
Live == {i \in Inums : fs.ino[i].type # "free"}
Entries(i) == {e \in {Dirents(fs, i)[off] : off \in DOMAIN Dirents(fs, i)} : e[1] # 0}

RECURSIVE Below(_)
Below(tree) ==
  LET dirs == {i \in tree : i \in Live /\ fs.ino[i].type = "dir"}
      more == tree \cup UNION {{e[1] : e \in Entries(i)} : i \in dirs}
  IN  IF more = tree THEN tree ELSE Below(more)

Tree == Below({ROOTINO})
TreeDirs == {i \in Tree \cap Live : fs.ino[i].type = "dir"}
NamesOf(i) ==
  UNION {{<<d, off>> : off \in {o \in DOMAIN Dirents(fs, d) :
            Dirents(fs, d)[o][1] = i /\ Dirents(fs, d)[o][2] # "."}} : d \in TreeDirs}

(* No name below the root, no descriptor and no current directory denotes a *)
(* freed inode; the link count of a directory is the number of its names    *)
(* (its own and the ".." of its subdirectories), and that of a file is at   *)
(* least its names.  A directory that was removed while it was somebody's   *)
(* current directory may hold further names of a file.                      *)
LinksCounted ==
  fs.halt = "no" =>
    /\ Tree \subseteq Live
    /\ \A fd \in Fds : fs.ofile[fd].ip \in Live \cup {0}
    /\ fs.cwd \in Live \cup {0}
    /\ \A i \in Tree :
         IF fs.ino[i].type = "dir"
         THEN fs.ino[i].nlink = Cardinality(NamesOf(i))
         ELSE fs.ino[i].nlink >= Cardinality(NamesOf(i))

(* The bitmap marks the metadata and the blocks of the live inodes, direct, *)
(* indirect and the blocks of addresses, and nothing else; no block belongs *)
(* to two inodes and a free inode has none.                                 *)
BlocksOwned ==
  fs.halt = "no" =>
    /\ fs.used = (0 .. fs.sb.meta - 1)
                   \cup UNION {InodeBlocks(fs, i) : i \in Inums}
    /\ \A i, j \in Inums : i # j => InodeBlocks(fs, i) \cap InodeBlocks(fs, j) = {}
    /\ \A i \in Inums \ Live : InodeBlocks(fs, i) = {}

(* Every test of fstest.c reports success on a fresh image: the calls and   *)
(* the path walk give the results the test program demands, up to the       *)
(* largest file, the longest name and a directory with indirect blocks.     *)
FsTestsPass ==
  by = "boot" =>
    LET v == Verdicts(TestImage, FsTests) IN \A k \in DOMAIN v : v[k]

(* A command of the shell leaves the descriptors as it found them, whatever *)
(* fails on the way: a shell that runs for long never runs out of them.     *)
CommandsCloseFiles ==
  [][by' = "command" /\ fs'.halt = "no" => fs'.ofile = fs.ofile]_vars

(* A call changes what is stored in a file only through a descriptor that   *)
(* was open on this file for writing.                                       *)
Stored(s, i) ==
  [off \in 0 .. s.ino[i].size - 1 |->
     s.blk[Bmap(s, i, off \div BSIZE)[2]][off % BSIZE]]

ContentsKept ==
  [][by' = "call" /\ fs'.halt = "no" =>
       \A i \in Inums :
         fs.ino[i].type = "file" /\ fs'.ino[i].type = "file"
           => \/ Stored(fs', i) = Stored(fs, i)
              \/ \E fd \in Fds : fs.ofile[fd].ip = i /\ fs.ofile[fd].writable]_vars

=============================================================================
