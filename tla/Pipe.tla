-------------------------------- MODULE Pipe ---------------------------------
(***************************************************************************)
(* One pipe of kern/fs/file.c, shared by the processes that hold a         *)
(* descriptor of its read end or of its write end: the shell that made it  *)
(* and the commands it spawned.                                            *)
(*                                                                         *)
(* pipe_read and pipe_write hold pipe_cache.lock except while they sleep;  *)
(* here each iteration of their loops is a step of the holder of the lock. *)
(* pc[p] says where process p is:                                          *)
(*   "unborn", "user", "exit" (closing its files), "dead"                  *)
(*   "write"           in the loop of pipe_write, holding the lock         *)
(*   "wsleep", "wwake" asleep on &p->nwrite; woken, without the lock yet   *)
(*   "wait"            in the first loop of pipe_read, holding the lock    *)
(*   "rsleep", "rwake" asleep on &p->nread; woken, without the lock yet    *)
(*   "read"            in the second loop of pipe_read, holding the lock   *)
(* That a file is closed when the last descriptor of it goes is in         *)
(* FileTable; here an end is open as long as some process holds it.        *)
(***************************************************************************)
EXTENDS Integers, Sequences

CONSTANTS Procs, Shell,
          PIPESIZE,
          WORD,         \* 2^32: nread and nwrite wrap
          Bytes,
          MaxIO,        \* the largest count passed to read or write
          Free          \* nobody holds the lock

ASSUME PipeAssumption ==
  /\ Shell \in Procs /\ Free \notin Procs
  /\ PIPESIZE \in Nat \ {0}
  /\ WORD \in Nat /\ WORD > PIPESIZE
  /\ MaxIO \in Nat

ASSUME WrapAssumption == WORD % PIPESIZE = 0

VARIABLES
  pipe,         \* struct pipe
  lock,         \* the holder of pipe_cache.lock
  rd, wr,       \* the processes with a descriptor of the read, write end
  pc,
  io            \* per process: bytes asked for, bytes transferred

vars == <<pipe, lock, rd, wr, pc, io>>

Pcs == {"unborn", "user", "exit", "dead",
        "write", "wsleep", "wwake", "wait", "rsleep", "rwake", "read"}

TypeOK ==
  /\ pipe \in [nread : 0 .. WORD - 1, nwrite : 0 .. WORD - 1,
               data : [0 .. PIPESIZE - 1 -> Bytes],
               readopen : BOOLEAN, writeopen : BOOLEAN]
  /\ lock \in Procs \cup {Free}
  /\ rd \subseteq Procs /\ wr \subseteq Procs
  /\ pc \in [Procs -> Pcs]
  /\ io \in [Procs -> [n : 0 .. MaxIO, done : 0 .. MaxIO]]

(* Mutant of Full: one byte too many fits. *)
FullLate == pipe.nwrite = (pipe.nread + PIPESIZE + 1) % WORD

Full == pipe.nwrite = (pipe.nread + PIPESIZE) % WORD
Empty == pipe.nread = pipe.nwrite

-----------------------------------------------------------------------------

(* The count and the loop variable, outside a call. *)
NoIO == [n |-> 0, done |-> 0]

(* pipe_alloc, called by sys_pipe in the shell. *)
Init ==
  /\ \E d \in [0 .. PIPESIZE - 1 -> Bytes] :
       pipe = [nread |-> 0, nwrite |-> 0, data |-> d,
               readopen |-> TRUE, writeopen |-> TRUE]
  /\ lock = Free
  /\ rd = {Shell} /\ wr = {Shell}
  /\ pc = [p \in Procs |-> IF p = Shell THEN "user" ELSE "unborn"]
  /\ io = [p \in Procs |-> NoIO]

(* thread_wakeup: everybody asleep on the channel is ready again. *)
Awake(f, sleep, wake) == [p \in Procs |-> IF f[p] = sleep THEN wake ELSE f[p]]
WakeReaders(f) == Awake(f, "rsleep", "rwake")
WakeWriters(f) == Awake(f, "wsleep", "wwake")

(* sys_spawn: the shell hands the new process r, w: whether its stdin is    *)
(* the read end and its stdout the write end.                               *)
Spawn(p, r, w) ==
  /\ lock = Free
  /\ pc[Shell] = "user" /\ pc[p] = "unborn"
  /\ r => Shell \in rd
  /\ w => Shell \in wr
  /\ rd' = IF r THEN rd \cup {p} ELSE rd
  /\ wr' = IF w THEN wr \cup {p} ELSE wr
  /\ pc' = [pc EXCEPT ![p] = "user"]
  /\ UNCHANGED <<pipe, lock, io>>

-----------------------------------------------------------------------------

SysWrite(p, n) ==
  /\ pc[p] = "user" /\ p \in wr
  /\ lock = Free
  /\ lock' = p
  /\ pc' = [pc EXCEPT ![p] = "write"]
  /\ io' = [io EXCEPT ![p] = [n |-> n, done |-> 0]]
  /\ UNCHANGED <<pipe, rd, wr>>

WriteByte(p, b) ==
  /\ pc[p] = "write"
  /\ io[p].done < io[p].n
  /\ ~Full
  /\ pipe' = [pipe EXCEPT !.data[pipe.nwrite % PIPESIZE] = b,
                          !.nwrite = (@ + 1) % WORD]
  /\ io' = [io EXCEPT ![p].done = @ + 1]
  /\ UNCHANGED <<lock, rd, wr, pc>>

(* The pipe is full: fail if nobody can read, else wake the readers, sleep. *)
WriteBroken(p) ==
  /\ pc[p] = "write"
  /\ io[p].done < io[p].n
  /\ Full /\ ~pipe.readopen
  /\ lock' = Free
  /\ pc' = [pc EXCEPT ![p] = "user"]
  /\ io' = [io EXCEPT ![p] = NoIO]
  /\ UNCHANGED <<pipe, rd, wr>>

WriteSleep(p) ==
  /\ pc[p] = "write"
  /\ io[p].done < io[p].n
  /\ Full /\ pipe.readopen
  /\ lock' = Free
  /\ pc' = WakeReaders([pc EXCEPT ![p] = "wsleep"])
  /\ UNCHANGED <<pipe, rd, wr, io>>

WriteResume(p) ==
  /\ pc[p] = "wwake"
  /\ lock = Free
  /\ lock' = p
  /\ pc' = [pc EXCEPT ![p] = "write"]
  /\ UNCHANGED <<pipe, rd, wr, io>>

(* Mutant of WriteDone: the readers are not woken. *)
WriteDoneSilent(p) ==
  /\ pc[p] = "write"
  /\ io[p].done = io[p].n
  /\ lock' = Free
  /\ pc' = [pc EXCEPT ![p] = "user"]
  /\ io' = [io EXCEPT ![p] = NoIO]
  /\ UNCHANGED <<pipe, rd, wr>>

WriteDone(p) ==
  /\ pc[p] = "write"
  /\ io[p].done = io[p].n
  /\ lock' = Free
  /\ pc' = WakeReaders([pc EXCEPT ![p] = "user"])
  /\ io' = [io EXCEPT ![p] = NoIO]
  /\ UNCHANGED <<pipe, rd, wr>>

-----------------------------------------------------------------------------

SysRead(p, n) ==
  /\ pc[p] = "user" /\ p \in rd
  /\ lock = Free
  /\ lock' = p
  /\ pc' = [pc EXCEPT ![p] = "wait"]
  /\ io' = [io EXCEPT ![p] = [n |-> n, done |-> 0]]
  /\ UNCHANGED <<pipe, rd, wr>>

ReadSleep(p) ==
  /\ pc[p] = "wait"
  /\ Empty /\ pipe.writeopen
  /\ lock' = Free
  /\ pc' = [pc EXCEPT ![p] = "rsleep"]
  /\ UNCHANGED <<pipe, rd, wr, io>>

(* Mutant of ReadResume: "if" instead of "while". *)
ReadResumeOnce(p) ==
  /\ pc[p] = "rwake"
  /\ lock = Free
  /\ lock' = p
  /\ pc' = [pc EXCEPT ![p] = "read"]
  /\ UNCHANGED <<pipe, rd, wr, io>>

ReadResume(p) ==
  /\ pc[p] = "rwake"
  /\ lock = Free
  /\ lock' = p
  /\ pc' = [pc EXCEPT ![p] = "wait"]
  /\ UNCHANGED <<pipe, rd, wr, io>>

ReadStart(p) ==
  /\ pc[p] = "wait"
  /\ ~(Empty /\ pipe.writeopen)
  /\ pc' = [pc EXCEPT ![p] = "read"]
  /\ UNCHANGED <<pipe, lock, rd, wr, io>>

ReadByte(p) ==
  /\ pc[p] = "read"
  /\ io[p].done < io[p].n
  /\ ~Empty
  /\ pipe' = [pipe EXCEPT !.nread = (@ + 1) % WORD]
  /\ io' = [io EXCEPT ![p].done = @ + 1]
  /\ UNCHANGED <<lock, rd, wr, pc>>

ReadDone(p) ==
  /\ pc[p] = "read"
  /\ io[p].done = io[p].n \/ Empty
  /\ lock' = Free
  /\ pc' = WakeWriters([pc EXCEPT ![p] = "user"])
  /\ io' = [io EXCEPT ![p] = NoIO]
  /\ UNCHANGED <<pipe, rd, wr>>

-----------------------------------------------------------------------------

(* Mutant of CloseWrite: every close closes the end. *)
CloseWriteEarly(p) ==
  /\ lock = Free
  /\ pc[p] \in {"user", "exit"} /\ p \in wr
  /\ wr' = wr \ {p}
  /\ IF p \in wr
     THEN /\ pipe' = [pipe EXCEPT !.writeopen = FALSE]
          /\ pc' = WakeReaders(pc)
     ELSE UNCHANGED <<pipe, pc>>
  /\ UNCHANGED <<lock, rd, io>>

(* file_close of a descriptor; pipe_close when it was the last of its end.  *)
CloseWrite(p) ==
  /\ lock = Free
  /\ pc[p] \in {"user", "exit"} /\ p \in wr
  /\ wr' = wr \ {p}
  /\ IF wr' = {}
     THEN /\ pipe' = [pipe EXCEPT !.writeopen = FALSE]
          /\ pc' = WakeReaders(pc)
     ELSE UNCHANGED <<pipe, pc>>
  /\ UNCHANGED <<lock, rd, io>>

CloseRead(p) ==
  /\ lock = Free
  /\ pc[p] \in {"user", "exit"} /\ p \in rd
  /\ rd' = rd \ {p}
  /\ IF rd' = {}
     THEN /\ pipe' = [pipe EXCEPT !.readopen = FALSE]
          /\ pc' = WakeWriters(pc)
     ELSE UNCHANGED <<pipe, pc>>
  /\ UNCHANGED <<lock, wr, io>>

(* sys_exit closes every descriptor before the process is DEAD ...          *)
Exit(p) ==
  /\ lock = Free
  /\ pc[p] = "user"
  /\ pc' = [pc EXCEPT ![p] = "exit"]
  /\ UNCHANGED <<pipe, lock, rd, wr, io>>

ExitDone(p) ==
  /\ lock = Free
  /\ pc[p] = "exit" /\ p \notin rd \cup wr
  /\ pc' = [pc EXCEPT ![p] = "dead"]
  /\ UNCHANGED <<pipe, lock, rd, wr, io>>

(* ... but sys_kill with SIGKILL, from a running process, closes nothing.   *)
Kill(p) ==
  /\ lock = Free
  /\ pc[p] \notin {"unborn", "dead"}
  /\ pc' = [pc EXCEPT ![p] = "dead"]
  /\ io' = [io EXCEPT ![p] = NoIO]
  /\ UNCHANGED <<pipe, lock, rd, wr>>

(* sys_kill with another signal wakes all sleepers on the target's channel. *)
Signal(p) ==
  /\ lock = Free
  /\ \/ pc[p] = "rsleep" /\ pc' = WakeReaders(pc)
     \/ pc[p] = "wsleep" /\ pc' = WakeWriters(pc)
  /\ UNCHANGED <<pipe, lock, rd, wr, io>>

-----------------------------------------------------------------------------

InKernel(p) ==
  \/ \E b \in Bytes : WriteByte(p, b)
  \/ WriteBroken(p) \/ WriteSleep(p) \/ WriteDone(p)
  \/ ReadSleep(p) \/ ReadStart(p) \/ ReadByte(p) \/ ReadDone(p)

Next == \E p \in Procs :
  \/ \E r, w \in BOOLEAN : Spawn(p, r, w)
  \/ \E n \in 0 .. MaxIO : SysWrite(p, n) \/ SysRead(p, n)
  \/ InKernel(p)
  \/ WriteResume(p) \/ ReadResume(p)
  \/ CloseWrite(p) \/ CloseRead(p)
  \/ Exit(p) \/ ExitDone(p) \/ Kill(p) \/ Signal(p)

Spec == Init /\ [][Next]_vars

-----------------------------------------------------------------------------

(* An end is open exactly as long as some process holds it, dead or alive,  *)
(* and a process inside pipe_read or pipe_write holds its end.              *)
EndsHeld ==
  /\ pipe.readopen <=> rd # {}
  /\ pipe.writeopen <=> wr # {}
  /\ \A p \in Procs :
       /\ pc[p] \in {"wait", "rsleep", "rwake", "read"} => p \in rd
       /\ pc[p] \in {"write", "wsleep", "wwake"} => p \in wr

(* No wake-up is lost: whenever the lock is free, a sleeping reader has     *)
(* nothing to read and a writer to wait for, and a sleeping writer has no   *)
(* room and a reader to wait for.  So readers and writers never all sleep   *)
(* on each other.                                                           *)
NoLostWakeup ==
  lock = Free =>
    \A p \in Procs :
      /\ pc[p] = "rsleep" => Empty /\ pipe.writeopen
      /\ pc[p] = "wsleep" => Full /\ pipe.readopen

(* pipe_read returns nothing to a caller that asked for something only at   *)
(* the end of file: the pipe is empty and no write end is open.             *)
EndOfFile ==
  [][\A p \in Procs : ReadDone(p) /\ io[p].n > 0 /\ io[p].done = 0
                         => Empty /\ ~pipe.writeopen]_vars

(* The bytes between the two running counters, oldest first. *)
Contents ==
  [i \in 1 .. (pipe.nwrite - pipe.nread) % WORD |->
     pipe.data[(pipe.nread + i - 1) % PIPESIZE]]

Chan == INSTANCE Channel WITH Capacity <- PIPESIZE, buf <- Contents,
                              wopen <- pipe.writeopen, ropen <- pipe.readopen

(* The ring buffer with wrapping counters implements the bounded channel:   *)
(* bytes come out once each, in order, and an end stays closed.             *)
FifoChannel == Chan!ChSpec
==============================================================================
