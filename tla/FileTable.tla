------------------------------ MODULE FileTable ------------------------------
(***************************************************************************)
(* The file table of kern/fs/file.c with its pipe cache, and the           *)
(* descriptor tables of the processes: sys_open, sys_pipe, sys_close,      *)
(* sys_read and sys_write, the descriptors sys_spawn hands a child, and    *)
(* the closing of files in sys_exit.                                       *)
(*                                                                         *)
(* These functions do not sleep, and so are atomic, with one exception:    *)
(* closing the last descriptor of an inode runs a transaction, which       *)
(* sleeps after the file was freed and before the descriptor is cleared.   *)
(* The bytes in a pipe are in Pipe, the inodes in other modules.           *)
(***************************************************************************)
EXTENDS Integers, FiniteSets

CONSTANTS Procs, Shell, NOFILE, NFILE, NPIPE,
          Modes         \* open modes in use: among "RDONLY", "WRONLY", "RDWR"

ASSUME FileAssumption ==
  /\ Shell \in Procs /\ IsFiniteSet(Procs)
  /\ NOFILE \in Nat /\ NOFILE > 2
  /\ NFILE \in Nat /\ NFILE > 2
  /\ NPIPE \in Nat

Fds == 0 .. NOFILE - 1
Files == 0 .. NFILE - 1
Pipes == 0 .. NPIPE - 1

NoFd == NOFILE          \* -1
NoFile == NFILE         \* the null pointer
NoPipe == NPIPE

VARIABLES
  ftable,       \* struct file of each slot
  pipes,        \* which ends of each slot of the pipe cache are open
  fds,          \* openfiles of each process
  pc,           \* "unborn", "user", "closing" (asleep in the transaction of
                \* file_close, called by sys_close), "exit" (in the loop of
                \* sys_exit), "exitclosing" (the same, from sys_exit), "dead"
  closing,      \* the descriptor file_close is closing
  panicked      \* a KERN_PANIC was reached

vars == <<ftable, pipes, fds, pc, closing, panicked>>

Types == {"NONE", "PIPE", "INODE", "CONSOLE_IN", "CONSOLE_OUT"}

(* A free slot.  Its other fields keep old values in the code, but nobody   *)
(* reads them before they are set again.                                    *)
NoRec == [type |-> "NONE", ref |-> 0, readable |-> FALSE, writable |-> FALSE,
          pipe |-> NoPipe]

FileRec == [type : Types, ref : Nat, readable : BOOLEAN, writable : BOOLEAN,
            pipe : Pipes \cup {NoPipe}]

TypeOK ==
  /\ ftable \in [Files -> FileRec]
  /\ pipes \in [Pipes -> [ref : {0, 2}, readopen : BOOLEAN, writeopen : BOOLEAN]]
  /\ fds \in [Procs -> [Fds -> Files \cup {NoFile}]]
  /\ pc \in [Procs -> {"unborn", "user", "closing", "exit", "exitclosing",
                       "dead"}]
  /\ closing \in [Procs -> Fds \cup {NoFd}]
  /\ panicked \in BOOLEAN

-----------------------------------------------------------------------------

(* The first member of a set of slots, or none when the set is empty.       *)
First(S, none) ==
  IF S = {} THEN none ELSE CHOOSE i \in S : \A j \in S : i <= j

FreeFile(ft) == First({f \in Files : ft[f].ref = 0}, NoFile)
FreeFd(fs) == First({d \in Fds : fs[d] = NoFile}, NoFd)
FreePipe == First({i \in Pipes : pipes[i].ref = 0}, NoPipe)

(* file_alloc of slot f, and the fields its callers then set.               *)
Alloc(ft, f, type, r, w, i) ==
  IF f = NoFile THEN ft
  ELSE [ft EXCEPT ![f] = [type |-> type, ref |-> 1, readable |-> r,
                          writable |-> w, pipe |-> i]]

FileDup(ft, f) == [ft EXCEPT ![f].ref = @ + 1]

(* file_close of f: whether it panics, and the two tables after it; a       *)
(* console file that was the last leaves nothing else to do, a pipe is      *)
(* closed, for an inode the caller's transaction follows.                   *)
Unref(ft, f) ==
  IF ft[f].ref > 1
  THEN [ft EXCEPT ![f].ref = @ - 1]
  ELSE [ft EXCEPT ![f] = NoRec]

PipeClose(ps, i, writable) ==
  LET q == IF writable THEN [ps[i] EXCEPT !.writeopen = FALSE]
                       ELSE [ps[i] EXCEPT !.readopen = FALSE]
  IN  [ps EXCEPT ![i] = IF q.readopen \/ q.writeopen THEN q
                        ELSE [q EXCEPT !.ref = 0]]

Last(f) == ftable[f].ref = 1

FileClose(f) ==
  /\ panicked' = (ftable[f].ref < 1)
  /\ ftable' = Unref(ftable, f)
  /\ pipes' = IF Last(f) /\ ftable[f].type = "PIPE"
              THEN PipeClose(pipes, ftable[f].pipe, ftable[f].writable)
              ELSE pipes

(* The transaction of file_close follows.                                   *)
Transaction(f) == Last(f) /\ ftable[f].type = "INODE"

-----------------------------------------------------------------------------

(* console_init_fds: stdin, stdout and stderr as far as there are slots.    *)
ConsoleFd(s, p, d, type) ==
  LET f == FreeFile(s.ft)
  IN  IF f = NoFile THEN s
      ELSE [ft |-> Alloc(s.ft, f, type, type = "CONSOLE_IN",
                         type = "CONSOLE_OUT", NoPipe),
            fd |-> [s.fd EXCEPT ![p][d] = f]]

ConsoleInitFds(s, p) ==
  ConsoleFd(ConsoleFd(ConsoleFd(s, p, 0, "CONSOLE_IN"), p, 1, "CONSOLE_OUT"),
            p, 2, "CONSOLE_OUT")

Init ==
  LET s == ConsoleInitFds([ft |-> [f \in Files |-> NoRec],
                           fd |-> [p \in Procs |-> [d \in Fds |-> NoFile]]],
                          Shell)
  IN  /\ ftable = s.ft /\ fds = s.fd
      /\ pipes = [i \in Pipes |-> [ref |-> 0, readopen |-> FALSE,
                                   writeopen |-> FALSE]]
      /\ pc = [p \in Procs |-> IF p = Shell THEN "user" ELSE "unborn"]
      /\ closing = [p \in Procs |-> NoFd]
      /\ panicked = FALSE

-----------------------------------------------------------------------------

(* sys_open from file_alloc on: the inode was found.                        *)
SysOpen(p, mode) ==
  LET f == FreeFile(ftable)
      d == FreeFd(fds[p])
  IN  /\ pc[p] = "user"
      /\ IF f # NoFile /\ d # NoFd
         THEN /\ ftable' = Alloc(ftable, f, "INODE", mode # "WRONLY",
                                 mode # "RDONLY", NoPipe)
              /\ fds' = [fds EXCEPT ![p][d] = f]
         ELSE UNCHANGED <<ftable, fds>>
      /\ UNCHANGED <<pipes, pc, closing, panicked>>

(* sys_pipe: two files, a pipe and two descriptors, or nothing at all.      *)
SysPipe(p) ==
  LET rf == FreeFile(ftable)
      wf == FreeFile(Alloc(ftable, rf, "NONE", FALSE, FALSE, NoPipe))
      i  == FreePipe
      d0 == FreeFd(fds[p])
      d1 == FreeFd([fds[p] EXCEPT ![d0] = rf])
  IN  /\ pc[p] = "user"
      /\ IF rf # NoFile /\ wf # NoFile /\ i # NoPipe /\ d0 # NoFd /\ d1 # NoFd
         THEN /\ ftable' = Alloc(Alloc(ftable, rf, "PIPE", TRUE, FALSE, i),
                                 wf, "PIPE", FALSE, TRUE, i)
              /\ pipes' = [pipes EXCEPT ![i] = [ref |-> 2, readopen |-> TRUE,
                                                writeopen |-> TRUE]]
              /\ fds' = [fds EXCEPT ![p][d0] = rf, ![p][d1] = wf]
         ELSE UNCHANGED <<ftable, pipes, fds>>
      /\ UNCHANGED <<pc, closing, panicked>>

(* sys_close: the descriptor is cleared after file_close, which may sleep.  *)
SysClose(p, d) ==
  LET f == fds[p][d]
  IN  /\ pc[p] = "user"
      /\ f # NoFile
      /\ FileClose(f)
      /\ IF Transaction(f)
         THEN /\ pc' = [pc EXCEPT ![p] = "closing"]
              /\ closing' = [closing EXCEPT ![p] = d]
              /\ UNCHANGED fds
         ELSE /\ fds' = [fds EXCEPT ![p][d] = NoFile]
              /\ UNCHANGED <<pc, closing>>

(* The transaction is done: clear the descriptor and go on.                 *)
Closed(p) ==
  /\ pc[p] \in {"closing", "exitclosing"}
  /\ fds' = [fds EXCEPT ![p][closing[p]] = NoFile]
  /\ closing' = [closing EXCEPT ![p] = NoFd]
  /\ pc' = [pc EXCEPT ![p] = IF @ = "closing" THEN "user" ELSE "exit"]
  /\ UNCHANGED <<ftable, pipes, panicked>>

(* file_read and file_write stop the kernel when the file they may use has  *)
(* a type they do not know.                                                 *)
SysRead(p, d) ==
  LET f == fds[p][d]
  IN  /\ pc[p] = "user" /\ f # NoFile
      /\ panicked' = /\ ftable[f].readable
                     /\ ftable[f].type \notin {"PIPE", "CONSOLE_IN", "INODE"}
      /\ UNCHANGED <<ftable, pipes, fds, pc, closing>>

SysWrite(p, d) ==
  LET f == fds[p][d]
  IN  /\ pc[p] = "user" /\ f # NoFile
      /\ panicked' = /\ ftable[f].writable
                     /\ ftable[f].type \notin {"PIPE", "CONSOLE_OUT", "INODE"}
      /\ UNCHANGED <<ftable, pipes, fds, pc, closing>>

-----------------------------------------------------------------------------

(* Mutant of Inherit: the descriptor is copied without file_dup. *)
InheritShared(s, p, child, d, given, type) ==
  IF given = NoFd THEN ConsoleFd(s, child, d, type)
  ELSE IF fds[p][given] = NoFile THEN s
  ELSE [ft |-> s.ft, fd |-> [s.fd EXCEPT ![child][d] = fds[p][given]]]

(* sys_spawn: the child's descriptor d (0 or 1) is the parent's descriptor  *)
(* given, a new console file when -1 was given, and nothing otherwise.      *)
Inherit(s, p, child, d, given, type) ==
  IF given = NoFd THEN ConsoleFd(s, child, d, type)
  ELSE IF fds[p][given] = NoFile THEN s
  ELSE [ft |-> FileDup(s.ft, fds[p][given]),
        fd |-> [s.fd EXCEPT ![child][d] = fds[p][given]]]

SysSpawn(p, child, in, out) ==
  LET s0 == [ft |-> ftable, fd |-> fds]
      s  == IF in = NoFd /\ out = NoFd THEN ConsoleInitFds(s0, child)
            ELSE Inherit(Inherit(s0, p, child, 0, in, "CONSOLE_IN"),
                         p, child, 1, out, "CONSOLE_OUT")
  IN  /\ pc[p] = "user" /\ pc[child] = "unborn"
      /\ ftable' = s.ft
      /\ fds' = s.fd
      /\ pc' = [pc EXCEPT ![child] = "user"]
      /\ panicked' = \E d \in {in, out} \ {NoFd} :
                       fds[p][d] # NoFile /\ ftable[fds[p][d]].ref < 1
      /\ UNCHANGED <<pipes, closing>>

(* sys_exit closes the open descriptors one by one.                         *)
SysExit(p) ==
  /\ pc[p] = "user"
  /\ pc' = [pc EXCEPT ![p] = "exit"]
  /\ UNCHANGED <<ftable, pipes, fds, closing, panicked>>

ExitClose(p) ==
  LET d == First({e \in Fds : fds[p][e] # NoFile}, NoFd)
      f == fds[p][d]
  IN  /\ pc[p] = "exit"
      /\ d # NoFd
      /\ FileClose(f)
      /\ IF Transaction(f)
         THEN /\ pc' = [pc EXCEPT ![p] = "exitclosing"]
              /\ closing' = [closing EXCEPT ![p] = d]
              /\ UNCHANGED fds
         ELSE /\ fds' = [fds EXCEPT ![p][d] = NoFile]
              /\ UNCHANGED <<pc, closing>>

ExitDone(p) ==
  /\ pc[p] = "exit"
  /\ \A d \in Fds : fds[p][d] = NoFile
  /\ pc' = [pc EXCEPT ![p] = "dead"]
  /\ UNCHANGED <<ftable, pipes, fds, closing, panicked>>

(* SIGKILL from another process: the descriptors stay as they are.          *)
Kill(p) ==
  /\ pc[p] \notin {"unborn", "dead"}
  /\ pc' = [pc EXCEPT ![p] = "dead"]
  /\ UNCHANGED <<ftable, pipes, fds, closing, panicked>>

Next ==
  /\ ~panicked
  /\ \E p \in Procs :
       \/ \E mode \in Modes : SysOpen(p, mode)
       \/ SysPipe(p)
       \/ \E d \in Fds : SysClose(p, d) \/ SysRead(p, d) \/ SysWrite(p, d)
       \/ Closed(p)
       \/ \E child \in Procs, in, out \in Fds \cup {NoFd} :
            SysSpawn(p, child, in, out)
       \/ SysExit(p) \/ ExitClose(p) \/ ExitDone(p) \/ Kill(p)

Spec == Init /\ [][Next]_vars
-----------------------------------------------------------------------------

(* The descriptors that refer to file f: all but the one whose reference    *)
(* file_close has already dropped while its caller sleeps.                  *)
Refs(f) == {x \in Procs \X Fds : fds[x[1]][x[2]] = f /\ closing[x[1]] # x[2]}

(* An end of a pipe is open exactly when a file in use stands for it, and   *)
(* then one file does; a slot of the pipe cache is taken while an end is    *)
(* open.                                                                    *)
EndFiles(i, w) == {f \in Files : /\ ftable[f].ref > 0 /\ ftable[f].type = "PIPE"
                                 /\ ftable[f].pipe = i /\ ftable[f].writable = w}

PipeEnds ==
  \A i \in Pipes :
    /\ Cardinality(EndFiles(i, FALSE)) = IF pipes[i].readopen THEN 1 ELSE 0
    /\ Cardinality(EndFiles(i, TRUE)) = IF pipes[i].writeopen THEN 1 ELSE 0
    /\ pipes[i].ref = 0 <=> ~pipes[i].readopen /\ ~pipes[i].writeopen

(* The state has its type and a file's count is the number of descriptors   *)
(* that refer to it, those of killed processes included: no file is freed   *)
(* while in use, none leaks while nobody is killed, and pipe ends follow    *)
(* their files.  So nobody reaches a KERN_PANIC of file_dup, file_close,    *)
(* file_read or file_write.                                                 *)
RefsCounted ==
  /\ TypeOK /\ ~panicked
  /\ \A f \in Files : ftable[f].ref = Cardinality(Refs(f))
  /\ PipeEnds
=============================================================================
