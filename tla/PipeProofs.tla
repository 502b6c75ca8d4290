----------------------------- MODULE PipeProofs ------------------------------
(***************************************************************************)
(* Proofs about Pipe, for any number of processes, any pipe size and any   *)
(* wrapping word size.                                                     *)
(***************************************************************************)
EXTENDS Pipe, TLAPS

(* The program points at which a process holds pipe_cache.lock. *)
Critical == {"write", "wait", "read"}

LockHeld == \A p \in Procs : pc[p] \in Critical <=> lock = p

(* NoLostWakeup, strengthened to the states in which somebody is inside a   *)
(* loop and has not yet woken the other side.                               *)
Sleepers ==
  \A p \in Procs :
    /\ pc[p] = "rsleep" =>
         /\ pipe.writeopen
         /\ Empty \/ \E q \in Procs : lock = q /\ pc[q] = "write"
    /\ pc[p] = "wsleep" =>
         /\ pipe.readopen
         /\ Full \/ \E q \in Procs : lock = q /\ pc[q] = "read"

IInv == TypeOK /\ LockHeld /\ EndsHeld /\ Sleepers

(* The lock makes the sleepers' weaker condition the stronger one. *)
LEMMA SleepersWeaken == IInv => NoLostWakeup
  BY Zenon, PipeAssumption DEF IInv, Sleepers, NoLostWakeup

LEMMA WordStep ==
  \A x \in 0 .. WORD - 1 : (x + 1) % WORD \in 0 .. WORD - 1
  BY PipeAssumption

LEMMA DataIndex ==
  \A x \in 0 .. WORD - 1 : x % PIPESIZE \in 0 .. PIPESIZE - 1
  BY PipeAssumption

LEMMA InitIInv == Init => IInv
<1> SUFFICES ASSUME Init PROVE IInv
  BY Zenon
<1> USE PipeAssumption DEF Init
<1>1. TypeOK
  BY DEF TypeOK, Pcs, NoIO
<1>2. LockHeld
  BY Zenon DEF LockHeld, Critical
<1>3. EndsHeld
  BY DEF EndsHeld
<1>4. Sleepers
  BY Zenon DEF Sleepers
<1> QED
  BY Zenon, <1>1, <1>2, <1>3, <1>4 DEF IInv

(* What thread_wakeup does to the program points. *)
LEMMA AwakeType ==
  ASSUME NEW f \in [Procs -> Pcs], NEW g, g = WakeReaders(f) \/ g = WakeWriters(f)
  PROVE  g \in [Procs -> Pcs]
  BY Zenon DEF WakeReaders, WakeWriters, Awake, Pcs

LEMMA TypeStep == TypeOK /\ [Next]_vars => TypeOK'
<1> SUFFICES ASSUME TypeOK, [Next]_vars PROVE TypeOK'
  BY Zenon
<1> DEFINE PipeType(x) == x \in [nread : 0 .. WORD - 1, nwrite : 0 .. WORD - 1,
                                 data : [0 .. PIPESIZE - 1 -> Bytes],
                                 readopen : BOOLEAN, writeopen : BOOLEAN]
           IOs == [n : 0 .. MaxIO, done : 0 .. MaxIO]
<1>t. /\ PipeType(pipe)
      /\ lock \in Procs \cup {Free}
      /\ rd \subseteq Procs /\ wr \subseteq Procs
      /\ pc \in [Procs -> Pcs]
      /\ io \in [Procs -> IOs]
  BY Zenon DEF TypeOK
<1> DEFINE Typed == /\ PipeType(pipe')
                    /\ lock' \in Procs \cup {Free}
                    /\ rd' \subseteq Procs /\ wr' \subseteq Procs
                    /\ pc' \in [Procs -> Pcs]
                    /\ io' \in [Procs -> IOs]
<1> SUFFICES Typed
  BY Zenon DEF TypeOK
<1>n. NoIO \in IOs
  BY PipeAssumption DEF NoIO
<1>p. \A p \in Procs, l \in Pcs : [pc EXCEPT ![p] = l] \in [Procs -> Pcs]
  BY Zenon, <1>t
<1>i. \A p \in Procs, x \in IOs : [io EXCEPT ![p] = x] \in [Procs -> IOs]
  BY Zenon, <1>t
<1>l. {"user", "exit", "dead", "write", "wsleep", "wwake",
       "wait", "rsleep", "rwake", "read"} \subseteq Pcs
  BY Zenon DEF Pcs
<1> HIDE DEF IOs, PipeType
<1>1. CASE UNCHANGED vars
  BY Zenon, <1>1, <1>t DEF vars
<1>2. ASSUME NEW p \in Procs, NEW r \in BOOLEAN, NEW w \in BOOLEAN, Spawn(p, r, w)
      PROVE  Typed
  <2>1. pc' \in [Procs -> Pcs]
    BY Zenon, <1>2, <1>p, <1>l DEF Spawn
  <2> QED
    BY Zenon, <1>2, <1>t, <2>1 DEF Spawn
<1>3. ASSUME NEW p \in Procs, NEW n \in 0 .. MaxIO, SysWrite(p, n) \/ SysRead(p, n)
      PROVE  Typed
  <2>1. [n |-> n, done |-> 0] \in IOs
    BY PipeAssumption DEF IOs
  <2>2. io' \in [Procs -> IOs] /\ pc' \in [Procs -> Pcs]
    BY <1>3, <2>1, <1>p, <1>i, <1>l DEF SysWrite, SysRead
  <2> QED
    BY Zenon, <1>3, <1>t, <2>2 DEF SysWrite, SysRead
<1>4. ASSUME NEW p \in Procs,
             \/ \E b \in Bytes : WriteByte(p, b)
             \/ ReadByte(p)
      PROVE  Typed
  <2>1. PipeType(pipe')
    <3>1. CASE ReadByte(p)
      BY Zenon, <3>1, <1>t, WordStep DEF ReadByte, PipeType
    <3>2. ASSUME NEW b \in Bytes, WriteByte(p, b) PROVE PipeType(pipe')
      <4>1. pipe.nwrite % PIPESIZE \in 0 .. PIPESIZE - 1
        BY Zenon, <1>t, DataIndex DEF PipeType
      <4>2. (pipe.nwrite + 1) % WORD \in 0 .. WORD - 1
        BY Zenon, <1>t, WordStep DEF PipeType
      <4>3. pipe' = [pipe EXCEPT !.data = [@ EXCEPT ![pipe.nwrite % PIPESIZE] = b],
                                 !.nwrite = (pipe.nwrite + 1) % WORD]
        BY Zenon, <3>2 DEF WriteByte
      <4> QED
        BY Zenon, <4>1, <4>2, <4>3, <1>t DEF PipeType
    <3> QED
      BY Zenon, <3>1, <3>2, <1>4
  <2>2. io[p] \in IOs /\ io[p].done < io[p].n
    BY Zenon, <1>4, <1>t DEF WriteByte, ReadByte
  <2>3. [io[p] EXCEPT !.done = @ + 1] \in IOs
    BY SMTT(30), <2>2, PipeAssumption DEF IOs
  <2>4. io' = [io EXCEPT ![p] = [io[p] EXCEPT !.done = @ + 1]]
    BY Zenon, <1>4 DEF WriteByte, ReadByte
  <2>5. io' \in [Procs -> IOs]
    BY Zenon, <2>3, <2>4, <1>i
  <2> QED
    BY Zenon, <1>4, <1>t, <2>1, <2>5 DEF WriteByte, ReadByte
<1>5. ASSUME NEW p \in Procs, \/ WriteBroken(p) \/ WriteSleep(p) \/ WriteDone(p)
                              \/ ReadSleep(p) \/ ReadDone(p) \/ Kill(p)
      PROVE  Typed
  <2>1. pc' \in [Procs -> Pcs]
    BY ZenonT(30), <1>5, <1>p, <1>l, AwakeType
       DEF WriteBroken, WriteSleep, WriteDone, ReadSleep, ReadDone, Kill
  <2>2. io' \in [Procs -> IOs]
    BY Zenon, <1>5, <1>t, <1>i, <1>n
       DEF WriteBroken, WriteSleep, WriteDone, ReadSleep, ReadDone, Kill
  <2> QED
    BY Zenon, <1>5, <1>t, <2>1, <2>2
       DEF WriteBroken, WriteSleep, WriteDone, ReadSleep, ReadDone, Kill
<1>6. ASSUME NEW p \in Procs, WriteResume(p) \/ ReadResume(p) \/ ReadStart(p)
                              \/ Exit(p) \/ ExitDone(p)
      PROVE  Typed
  <2>1. pc' \in [Procs -> Pcs]
    BY Zenon, <1>6, <1>p, <1>l
       DEF WriteResume, ReadResume, ReadStart, Exit, ExitDone
  <2> QED
    BY Zenon, <1>6, <1>t, <2>1
       DEF WriteResume, ReadResume, ReadStart, Exit, ExitDone
<1>7. ASSUME NEW p \in Procs, CloseWrite(p) \/ CloseRead(p) \/ Signal(p)
      PROVE  Typed
  <2>1. pc' \in [Procs -> Pcs]
    BY Zenon, <1>7, <1>t, AwakeType DEF CloseWrite, CloseRead, Signal
  <2>2. PipeType(pipe')
    BY Zenon, <1>7, <1>t DEF CloseWrite, CloseRead, Signal, PipeType
  <2> QED
    BY Zenon, <1>7, <1>t, <2>1, <2>2 DEF CloseWrite, CloseRead, Signal
<1> HIDE DEF Typed
<1> QED
  BY Zenon, <1>1, <1>2, <1>3, <1>4, <1>5, <1>6, <1>7 DEF Next, InKernel

-----------------------------------------------------------------------------

(* Only pipe_read and pipe_write move the counters. *)
LEMMA CountersFrame ==
  ASSUME pipe'.nread = pipe.nread, pipe'.nwrite = pipe.nwrite
  PROVE  (Empty' <=> Empty) /\ (Full' <=> Full)
  BY Zenon DEF Empty, Full

LEMMA LockStep == TypeOK /\ LockHeld /\ [Next]_vars => LockHeld'
<1> SUFFICES ASSUME TypeOK, LockHeld, [Next]_vars, NEW q \in Procs
             PROVE  pc'[q] \in Critical <=> lock' = q
  BY Zenon DEF LockHeld
<1>t. pc \in [Procs -> Pcs] /\ (pc[q] \in Critical <=> lock = q) /\ Free # q
  BY Zenon, PipeAssumption DEF TypeOK, LockHeld
<1> USE DEF Critical
<1>1. CASE UNCHANGED vars
  BY Zenon, <1>1, <1>t DEF vars
<1>2. ASSUME NEW p \in Procs, NEW r \in BOOLEAN, NEW w \in BOOLEAN, Spawn(p, r, w)
      PROVE  pc'[q] \in Critical <=> lock' = q
  BY Zenon, <1>2, <1>t DEF Spawn
<1>3. ASSUME NEW p \in Procs, NEW n \in 0 .. MaxIO, SysWrite(p, n) \/ SysRead(p, n)
      PROVE  pc'[q] \in Critical <=> lock' = q
  BY Zenon, <1>3, <1>t DEF SysWrite, SysRead
<1>4. ASSUME NEW p \in Procs, \/ \E b \in Bytes : WriteByte(p, b)
                              \/ ReadByte(p)
      PROVE  pc'[q] \in Critical <=> lock' = q
  BY Zenon, <1>4, <1>t DEF WriteByte, ReadByte
<1>5. ASSUME NEW p \in Procs, \/ WriteBroken(p) \/ WriteSleep(p) \/ WriteDone(p)
                              \/ ReadSleep(p) \/ ReadDone(p)
      PROVE  pc'[q] \in Critical <=> lock' = q
  <2>1. lock = p
    BY Zenon, <1>5
       DEF LockHeld, WriteBroken, WriteSleep, WriteDone, ReadSleep, ReadDone
  <2> QED
    BY Zenon, <2>1, <1>5, <1>t
       DEF WriteBroken, WriteSleep, WriteDone, ReadSleep, ReadDone,
           WakeReaders, WakeWriters, Awake
<1>6. ASSUME NEW p \in Procs, WriteResume(p) \/ ReadResume(p) \/ ReadStart(p)
                              \/ Exit(p) \/ ExitDone(p) \/ Kill(p)
      PROVE  pc'[q] \in Critical <=> lock' = q
  BY Zenon, <1>6, <1>t
     DEF WriteResume, ReadResume, ReadStart, Exit, ExitDone, Kill
<1>7. ASSUME NEW p \in Procs, CloseWrite(p) \/ CloseRead(p) \/ Signal(p)
      PROVE  pc'[q] \in Critical <=> lock' = q
  BY Zenon, <1>7, <1>t
     DEF CloseWrite, CloseRead, Signal, WakeReaders, WakeWriters, Awake
<1> HIDE DEF Critical
<1> QED
  BY Zenon, <1>1, <1>2, <1>3, <1>4, <1>5, <1>6, <1>7 DEF Next, InKernel

(* A process inside a call keeps its end, and pipe_close comes with the     *)
(* last holder.                                                             *)
LEMMA EndsStep == TypeOK /\ EndsHeld /\ [Next]_vars => EndsHeld'
<1> SUFFICES ASSUME TypeOK, EndsHeld, [Next]_vars PROVE EndsHeld'
  BY Zenon
<1> DEFINE Reading == {"wait", "rsleep", "rwake", "read"}
           Writing == {"write", "wsleep", "wwake"}
           Held == \A q \in Procs :
                     /\ pc'[q] \in Reading => q \in rd'
                     /\ pc'[q] \in Writing => q \in wr'
<1>t. /\ pc \in [Procs -> Pcs]
      /\ \A q \in Procs :
           /\ pc[q] \in Reading => q \in rd
           /\ pc[q] \in Writing => q \in wr
  BY Zenon DEF TypeOK, EndsHeld
<1>o. (pipe.readopen <=> rd # {}) /\ (pipe.writeopen <=> wr # {})
  BY Zenon DEF EndsHeld
<1>r. /\ pipe.readopen \in BOOLEAN /\ pipe.writeopen \in BOOLEAN
      /\ pipe = [nread |-> pipe.nread, nwrite |-> pipe.nwrite, data |-> pipe.data,
                 readopen |-> pipe.readopen, writeopen |-> pipe.writeopen]
  BY Zenon DEF TypeOK
<1>1. CASE UNCHANGED vars
  BY Zenon, <1>1, <1>t, <1>o DEF vars, EndsHeld
<1>2. ASSUME NEW p \in Procs, NEW r \in BOOLEAN, NEW w \in BOOLEAN, Spawn(p, r, w)
      PROVE  EndsHeld'
  <2>1. Held
    <3> SUFFICES ASSUME NEW q \in Procs
                 PROVE  /\ pc'[q] \in Reading => q \in rd'
                        /\ pc'[q] \in Writing => q \in wr'
      BY Zenon
    <3>1. q \in rd => q \in rd'
      BY Zenon, <1>2 DEF Spawn
    <3>2. q \in wr => q \in wr'
      BY Zenon, <1>2 DEF Spawn
    <3>3. pc'[q] = IF q = p THEN "user" ELSE pc[q]
      BY Zenon, <1>2, <1>t DEF Spawn
    <3> QED
      BY Zenon, <3>1, <3>2, <3>3, <1>t
  <2>2. (rd' # {} <=> rd # {}) /\ (wr' # {} <=> wr # {}) /\ pipe' = pipe
    BY Zenon, <1>2 DEF Spawn
  <2> QED
    BY Zenon, <2>1, <2>2, <1>o DEF EndsHeld
<1>3. ASSUME NEW p \in Procs,
             \/ \E n \in 0 .. MaxIO : SysWrite(p, n) \/ SysRead(p, n)
             \/ WriteBroken(p) \/ WriteSleep(p) \/ WriteDone(p)
             \/ ReadSleep(p) \/ ReadDone(p)
             \/ WriteResume(p) \/ ReadResume(p) \/ ReadStart(p)
             \/ Exit(p) \/ ExitDone(p) \/ Kill(p) \/ Signal(p)
      PROVE  EndsHeld'
  <2>1. UNCHANGED <<pipe, rd, wr>>
    BY Zenon, <1>3
       DEF SysWrite, SysRead, WriteBroken, WriteSleep, WriteDone, ReadSleep,
           ReadDone, WriteResume, ReadResume, ReadStart, Exit, ExitDone, Kill,
           Signal
  <2>2. CASE \E n \in 0 .. MaxIO : SysWrite(p, n) \/ SysRead(p, n)
    BY <2>1, <2>2, <1>t, <1>o DEF SysWrite, SysRead, EndsHeld
  <2>3. CASE \/ WriteBroken(p) \/ WriteSleep(p) \/ WriteDone(p)
             \/ ReadSleep(p) \/ ReadDone(p) \/ Signal(p)
    <3>1. Held
      <4> SUFFICES ASSUME NEW q \in Procs
                   PROVE  /\ pc'[q] \in Reading => q \in rd
                          /\ pc'[q] \in Writing => q \in wr
        BY Zenon, <2>1
      <4>1. /\ pc'[q] \in Reading => pc[q] \in Reading
            /\ pc'[q] \in Writing => pc[q] \in Writing
        BY <2>3, <1>t
           DEF WriteBroken, WriteSleep, WriteDone, ReadSleep, ReadDone, Signal,
               WakeReaders, WakeWriters, Awake
      <4> QED
        BY Zenon, <4>1, <1>t
    <3> QED
      BY Zenon, <3>1, <2>1, <1>o DEF EndsHeld
  <2>4. CASE \/ WriteResume(p) \/ ReadResume(p) \/ ReadStart(p)
             \/ Exit(p) \/ ExitDone(p) \/ Kill(p)
    <3>1. Held
      <4> SUFFICES ASSUME NEW q \in Procs
                   PROVE  /\ pc'[q] \in Reading => q \in rd
                          /\ pc'[q] \in Writing => q \in wr
        BY Zenon, <2>1
      <4>1. /\ pc'[q] \in Reading => pc[q] \in Reading
            /\ pc'[q] \in Writing => pc[q] \in Writing
        BY Zenon, <2>4, <1>t
           DEF WriteResume, ReadResume, ReadStart, Exit, ExitDone, Kill
      <4> QED
        BY Zenon, <4>1, <1>t
    <3> QED
      BY Zenon, <3>1, <2>1, <1>o DEF EndsHeld
  <2> QED
    BY Zenon, <2>2, <2>3, <2>4, <1>3
<1>4. ASSUME NEW p \in Procs, \/ \E b \in Bytes : WriteByte(p, b)
                              \/ ReadByte(p)
      PROVE  EndsHeld'
  <2>1. /\ UNCHANGED <<rd, wr, pc>>
        /\ pipe'.readopen = pipe.readopen /\ pipe'.writeopen = pipe.writeopen
    BY Zenon, <1>4, <1>r DEF WriteByte, ReadByte
  <2> QED
    BY Zenon, <2>1, <1>t, <1>o DEF EndsHeld
<1>5. ASSUME NEW p \in Procs, CloseWrite(p) PROVE EndsHeld'
  <2>1. Held
    <3> SUFFICES ASSUME NEW q \in Procs
                 PROVE  /\ pc'[q] \in Reading => q \in rd'
                        /\ pc'[q] \in Writing => q \in wr'
      BY Zenon
    <3>1. /\ pc'[q] \in Reading => pc[q] \in Reading
          /\ pc'[q] \in Writing => pc[q] \in Writing
      BY Zenon, <1>5, <1>t DEF CloseWrite, WakeReaders, Awake
    <3>2. pc[p] \in {"user", "exit"} /\ wr' = wr \ {p} /\ rd' = rd
      BY Zenon, <1>5 DEF CloseWrite
    <3>3. q = p => pc[q] \notin Reading /\ pc[q] \notin Writing
      BY Zenon, <3>2
    <3> QED
      BY Zenon, <3>1, <3>2, <3>3, <1>t
  <2>2. /\ pipe'.readopen = pipe.readopen /\ rd' = rd
        /\ pipe'.writeopen <=> wr' # {}
    BY Zenon, <1>5, <1>r, <1>o DEF CloseWrite
  <2> QED
    BY Zenon, <2>1, <2>2, <1>o DEF EndsHeld
<1>6. ASSUME NEW p \in Procs, CloseRead(p) PROVE EndsHeld'
  <2>1. Held
    <3> SUFFICES ASSUME NEW q \in Procs
                 PROVE  /\ pc'[q] \in Reading => q \in rd'
                        /\ pc'[q] \in Writing => q \in wr'
      BY Zenon
    <3>1. /\ pc'[q] \in Reading => pc[q] \in Reading
          /\ pc'[q] \in Writing => pc[q] \in Writing
      BY Zenon, <1>6, <1>t DEF CloseRead, WakeWriters, Awake
    <3>2. pc[p] \in {"user", "exit"} /\ rd' = rd \ {p} /\ wr' = wr
      BY Zenon, <1>6 DEF CloseRead
    <3>3. q = p => pc[q] \notin Reading /\ pc[q] \notin Writing
      BY Zenon, <3>2
    <3> QED
      BY Zenon, <3>1, <3>2, <3>3, <1>t
  <2>2. /\ pipe'.writeopen = pipe.writeopen /\ wr' = wr
        /\ pipe'.readopen <=> rd' # {}
    BY Zenon, <1>6, <1>r, <1>o DEF CloseRead
  <2> QED
    BY Zenon, <2>1, <2>2, <1>o DEF EndsHeld
<1> QED
  BY Zenon, <1>1, <1>2, <1>3, <1>4, <1>5, <1>6 DEF Next, InKernel

-----------------------------------------------------------------------------

(* The argument: the process that fills or empties the pipe holds the lock  *)
(* until it has woken the other side; it leaves without waking anybody only *)
(* when the other side has no holder, hence no sleeper.                     *)
LEMMA SleepersStep == IInv /\ [Next]_vars => Sleepers'
<1> SUFFICES ASSUME IInv, [Next]_vars PROVE Sleepers'
  BY Zenon
<1> DEFINE InWrite == \E q \in Procs : lock = q /\ pc[q] = "write"
           InRead  == \E q \in Procs : lock = q /\ pc[q] = "read"
           RSleep(q) == pc[q] = "rsleep" => pipe.writeopen /\ (Empty \/ InWrite)
           WSleep(q) == pc[q] = "wsleep" => pipe.readopen /\ (Full \/ InRead)
<1>t. pc \in [Procs -> Pcs] /\ Free \notin Procs
  BY Zenon, PipeAssumption DEF IInv, TypeOK
<1>r. /\ pipe.readopen \in BOOLEAN /\ pipe.writeopen \in BOOLEAN
      /\ pipe = [nread |-> pipe.nread, nwrite |-> pipe.nwrite, data |-> pipe.data,
                 readopen |-> pipe.readopen, writeopen |-> pipe.writeopen]
  BY Zenon DEF IInv, TypeOK
<1>i. \A q \in Procs : RSleep(q) /\ WSleep(q)
  BY Zenon DEF IInv, Sleepers
<1>l. \A q \in Procs : pc[q] \in {"write", "wait", "read"} => lock = q
  BY Zenon DEF IInv, LockHeld, Critical
<1>c. pipe' = pipe => (Empty' <=> Empty) /\ (Full' <=> Full)
  BY Zenon, CountersFrame
<1>e. /\ \A q \in Procs : pc[q] = "rsleep" => q \in rd
      /\ pipe.readopen <=> rd # {}
  BY Zenon DEF IInv, EndsHeld
<1>s. SUFFICES ASSUME NEW q \in Procs PROVE RSleep(q)' /\ WSleep(q)'
  BY Zenon DEF Sleepers
<1>1. CASE UNCHANGED vars
  BY Zenon, <1>1, <1>i, <1>c DEF vars
<1>2. ASSUME NEW p \in Procs, lock = Free, lock' = Free, pipe' = pipe,
             \A k \in Procs : pc'[k] \in {"rsleep", "wsleep"} => pc'[k] = pc[k]
      PROVE  RSleep(q)' /\ WSleep(q)'
  BY Zenon, <1>2, <1>i, <1>c, <1>t
<1>3. ASSUME NEW p \in Procs,
             \/ \E r, w \in BOOLEAN : Spawn(p, r, w)
             \/ Exit(p) \/ ExitDone(p) \/ Kill(p) \/ Signal(p)
      PROVE  RSleep(q)' /\ WSleep(q)'
  <2>1. /\ lock = Free /\ lock' = Free /\ pipe' = pipe
        /\ \A k \in Procs : pc'[k] \in {"rsleep", "wsleep"} => pc'[k] = pc[k]
    BY Zenon, <1>3, <1>t DEF Spawn, Exit, ExitDone, Kill, Signal,
                      WakeReaders, WakeWriters, Awake
  <2> QED
    BY Zenon, <1>2, <2>1
<1>4. ASSUME NEW p \in Procs,
             \/ \E n \in 0 .. MaxIO : SysWrite(p, n) \/ SysRead(p, n)
             \/ WriteResume(p) \/ ReadResume(p)
      PROVE  RSleep(q)' /\ WSleep(q)'
  <2>1. /\ lock = Free /\ pipe' = pipe
        /\ pc'[q] \in {"rsleep", "wsleep"} => pc'[q] = pc[q]
    BY Zenon, <1>4, <1>t DEF SysWrite, SysRead, WriteResume, ReadResume
  <2> QED
    BY Zenon, <2>1, <1>i, <1>c, <1>t
<1>5. ASSUME NEW p \in Procs, ReadStart(p) PROVE RSleep(q)' /\ WSleep(q)'
  <2>1. /\ lock = p /\ lock' = p /\ pc[p] = "wait" /\ pipe' = pipe
        /\ pc'[q] \in {"rsleep", "wsleep"} => pc'[q] = pc[q]
    BY Zenon, <1>5, <1>t, <1>l DEF ReadStart
  <2>2. ~InWrite /\ ~InRead
    BY Zenon, <2>1
  <2> QED
    BY Zenon, <2>1, <2>2, <1>i, <1>c
<1>6. ASSUME NEW p \in Procs, NEW b \in Bytes, WriteByte(p, b)
      PROVE  RSleep(q)' /\ WSleep(q)'
  <2>1. lock = p /\ lock' = p /\ pc[p] = "write" /\ ~Full /\ pc' = pc
    BY Zenon, <1>6, <1>l DEF WriteByte
  <2>2. ~InRead /\ InWrite'
    BY Zenon, <2>1
  <2>3. pipe'.writeopen = pipe.writeopen
    BY Zenon, <1>6, <1>r DEF WriteByte
  <2> QED
    BY Zenon, <2>1, <2>2, <2>3, <1>i
<1>7. ASSUME NEW p \in Procs, ReadByte(p) PROVE RSleep(q)' /\ WSleep(q)'
  <2>1. lock = p /\ lock' = p /\ pc[p] = "read" /\ ~Empty /\ pc' = pc
    BY Zenon, <1>7, <1>l DEF ReadByte
  <2>2. ~InWrite /\ InRead'
    BY Zenon, <2>1
  <2>3. pipe'.readopen = pipe.readopen
    BY Zenon, <1>7, <1>r DEF ReadByte
  <2> QED
    BY Zenon, <2>1, <2>2, <2>3, <1>i
<1>8. ASSUME NEW p \in Procs, WriteBroken(p) PROVE RSleep(q)' /\ WSleep(q)'
  <2>1. /\ ~pipe.readopen /\ pc[p] = "write" /\ lock = p
        /\ pc'[q] \in {"rsleep", "wsleep"} => pc'[q] = pc[q]
    BY Zenon, <1>8, <1>t, <1>l DEF WriteBroken
  <2>2. pc[q] # "rsleep"
    BY Zenon, <2>1, <1>e
  <2>3. pc[q] # "wsleep"
    BY Zenon, <2>1, <1>i
  <2> QED
    BY Zenon, <2>1, <2>2, <2>3
<1>9. ASSUME NEW p \in Procs, WriteSleep(p) PROVE RSleep(q)' /\ WSleep(q)'
  <2>1. /\ Full /\ pipe.readopen /\ pipe' = pipe
        /\ pc'[q] # "rsleep"
    BY Zenon, <1>9, <1>t DEF WriteSleep, WakeReaders, Awake
  <2> QED
    BY Zenon, <2>1, <1>c
<1>10. ASSUME NEW p \in Procs, WriteDone(p) PROVE RSleep(q)' /\ WSleep(q)'
  <2>1. /\ pc[p] = "write" /\ lock = p /\ pipe' = pipe
        /\ pc'[q] # "rsleep"
        /\ pc'[q] = "wsleep" => pc[q] = "wsleep"
    BY Zenon, <1>10, <1>t, <1>l DEF WriteDone, WakeReaders, Awake
  <2>2. ~InRead
    BY Zenon, <2>1
  <2> QED
    BY Zenon, <2>1, <2>2, <1>i, <1>c
<1>11. ASSUME NEW p \in Procs, ReadSleep(p) PROVE RSleep(q)' /\ WSleep(q)'
  <2>1. /\ pc[p] = "wait" /\ lock = p /\ pipe' = pipe /\ Empty /\ pipe.writeopen
        /\ pc'[q] = "wsleep" => pc[q] = "wsleep"
    BY Zenon, <1>11, <1>t, <1>l DEF ReadSleep
  <2>2. ~InRead
    BY Zenon, <2>1
  <2> QED
    BY Zenon, <2>1, <2>2, <1>i, <1>c
<1>12. ASSUME NEW p \in Procs, ReadDone(p) PROVE RSleep(q)' /\ WSleep(q)'
  <2>1. /\ pc[p] = "read" /\ lock = p /\ pipe' = pipe
        /\ pc'[q] # "wsleep"
        /\ pc'[q] = "rsleep" => pc[q] = "rsleep"
    BY Zenon, <1>12, <1>t, <1>l DEF ReadDone, WakeWriters, Awake
  <2>2. ~InWrite
    BY Zenon, <2>1
  <2> QED
    BY Zenon, <2>1, <2>2, <1>i, <1>c
<1>13. ASSUME NEW p \in Procs, CloseWrite(p) PROVE RSleep(q)' /\ WSleep(q)'
  <2>1. /\ lock = Free /\ pipe'.readopen = pipe.readopen
        /\ pipe'.nread = pipe.nread /\ pipe'.nwrite = pipe.nwrite
    BY Zenon, <1>13, <1>r DEF CloseWrite
  <2>2. (Empty' <=> Empty) /\ (Full' <=> Full)
    BY Zenon, <2>1, CountersFrame
  <2>3. /\ pc'[q] = "wsleep" => pc[q] = "wsleep"
        /\ pc'[q] = "rsleep" => pc[q] = "rsleep" /\ pipe' = pipe
    BY Zenon, <1>13, <1>t DEF CloseWrite, WakeReaders, Awake
  <2> QED
    BY Zenon, <2>1, <2>2, <2>3, <1>i, <1>t
<1>14. ASSUME NEW p \in Procs, CloseRead(p) PROVE RSleep(q)' /\ WSleep(q)'
  <2>1. /\ lock = Free /\ pipe'.writeopen = pipe.writeopen
        /\ pipe'.nread = pipe.nread /\ pipe'.nwrite = pipe.nwrite
    BY Zenon, <1>14, <1>r DEF CloseRead
  <2>2. (Empty' <=> Empty) /\ (Full' <=> Full)
    BY Zenon, <2>1, CountersFrame
  <2>3. /\ pc'[q] = "rsleep" => pc[q] = "rsleep"
        /\ pc'[q] = "wsleep" => pc[q] = "wsleep" /\ pipe' = pipe
    BY Zenon, <1>14, <1>t DEF CloseRead, WakeWriters, Awake
  <2> QED
    BY Zenon, <2>1, <2>2, <2>3, <1>i, <1>t
<1> HIDE DEF RSleep, WSleep
<1> QED
  BY Zenon, <1>1, <1>3, <1>4, <1>5, <1>6, <1>7, <1>8, <1>9, <1>10, <1>11, <1>12,
     <1>13, <1>14 DEF Next, InKernel

LEMMA Invariance == Spec => []IInv
<1>1. IInv /\ [Next]_vars => IInv'
  BY Zenon, TypeStep, LockStep, EndsStep, SleepersStep DEF IInv
<1> QED
  BY InitIInv, <1>1, PTL DEF Spec

(* The counters of a pipe stay machine words and index its ring, for every  *)
(* pipe size and every interleaving of pipe_read, pipe_write and closes.    *)
THEOREM TypeCorrect == Spec => []TypeOK
  BY Invariance, PTL DEF IInv

(* An end of a pipe is open exactly as long as somebody holds it.           *)
THEOREM EndsSafe == Spec => []EndsHeld
  BY Invariance, PTL DEF IInv

(* pipe_read, pipe_write and pipe_close lose no wake-up, with any number of *)
(* readers and writers, signals and kills.                                  *)
THEOREM WakeupsSafe == Spec => []NoLostWakeup
  BY Invariance, SleepersWeaken, PTL
-----------------------------------------------------------------------------
(* Arithmetic of the ring: the counters run modulo WORD, the slots modulo   *)
(* PIPESIZE, and PIPESIZE divides WORD.                                     *)

LEMMA DivMod ==
  ASSUME NEW m \in Nat \ {0}, NEW a \in Int
  PROVE  a \div m \in Int /\ a % m \in 0 .. m - 1 /\ a = (a \div m) * m + (a % m)
  BY SMTT(30)

LEMMA ModUnique ==
  ASSUME NEW m \in Nat \ {0}, NEW q \in Int, NEW r \in 0 .. m - 1
  PROVE  (q * m + r) % m = r
  BY SMTT(30)

LEMMA ModWord ==
  ASSUME NEW a \in Int PROVE (a + WORD) % PIPESIZE = a % PIPESIZE
<1> DEFINE m == PIPESIZE
           q == a \div m
           k == WORD \div m
           r == a % m
<1>1. q \in Int /\ r \in 0 .. m - 1 /\ a = q * m + r
  BY DivMod, PipeAssumption
<1>2. k \in Int /\ WORD = k * m
  BY DivMod, PipeAssumption, WrapAssumption
<1>3. m \in Nat \ {0}
  BY PipeAssumption
<1> HIDE DEF m, q, k, r
<1>4. a + WORD = (q + k) * m + r
  BY <1>1, <1>2, <1>3
<1>5. (a + WORD) % m = r
  BY <1>1, <1>2, <1>3, <1>4, ModUnique
<1> QED
  BY <1>5 DEF m, r

LEMMA ModApart ==
  ASSUME NEW a \in Int, NEW d \in 1 .. PIPESIZE - 1
  PROVE  (a + d) % PIPESIZE # a % PIPESIZE
<1> DEFINE m == PIPESIZE
           q == a \div m
           r == a % m
<1>1. q \in Int /\ r \in 0 .. m - 1 /\ a = q * m + r
  BY DivMod, PipeAssumption
<1>2. m \in Nat \ {0} /\ d \in 1 .. m - 1
  BY PipeAssumption
<1>d. r = a % m
  OBVIOUS
<1> HIDE DEF m, q, r
<1>3. CASE r + d < m
  <2>1. a + d = q * m + (r + d) /\ r + d \in 0 .. m - 1
    BY <1>1, <1>2, <1>3
  <2>2. (a + d) % m = r + d
    BY <1>1, <1>2, <2>1, ModUnique
  <2> QED
    BY <2>2, <1>1, <1>2, <1>d DEF m
<1>4. CASE r + d >= m
  <2>1. a + d = (q + 1) * m + (r + d - m) /\ r + d - m \in 0 .. m - 1
    BY <1>1, <1>2, <1>4
  <2>2. q + 1 \in Int
    BY <1>1
  <2>3. ((q + 1) * m + (r + d - m)) % m = r + d - m
    BY Zenon, <1>2, <2>1, <2>2, ModUnique
  <2>4. (a + d) % m = r + d - m
    BY Zenon, <2>1, <2>3
  <2> QED
    BY <2>4, <1>1, <1>2, <1>d DEF m
<1> QED
  BY <1>1, <1>2, <1>3, <1>4

LEMMA WordSub ==
  ASSUME NEW x \in 0 .. WORD - 1, NEW y \in 0 .. WORD - 1
  PROVE  (y - x) % WORD = IF y >= x THEN y - x ELSE (y - x) + WORD
<1>1. CASE y >= x
  <2>1. y - x = 0 * WORD + (y - x) /\ y - x \in 0 .. WORD - 1
    BY <1>1, PipeAssumption
  <2>2. (0 * WORD + (y - x)) % WORD = y - x
    BY <2>1, ModUnique, PipeAssumption
  <2> QED
    BY <1>1, <2>1, <2>2
<1>2. CASE y < x
  <2>1. y - x = (-1) * WORD + (y - x + WORD) /\ y - x + WORD \in 0 .. WORD - 1
    BY <1>2, PipeAssumption
  <2>2. ((-1) * WORD + (y - x + WORD)) % WORD = y - x + WORD
    BY <2>1, ModUnique, PipeAssumption
  <2> QED
    BY <1>2, <2>1, <2>2
<1> QED
  BY <1>1, <1>2, PipeAssumption

LEMMA WordAdd ==
  ASSUME NEW x \in 0 .. WORD - 1, NEW d \in 0 .. WORD
  PROVE  (x + d) % WORD = IF x + d < WORD THEN x + d ELSE x + d - WORD
<1>1. CASE x + d < WORD
  <2>1. x + d = 0 * WORD + (x + d) /\ x + d \in 0 .. WORD - 1
    BY <1>1, PipeAssumption
  <2>2. (0 * WORD + (x + d)) % WORD = x + d
    BY <2>1, ModUnique, PipeAssumption
  <2> QED
    BY <1>1, <2>1, <2>2
<1>2. CASE x + d >= WORD
  <2>1. x + d = 1 * WORD + (x + d - WORD) /\ x + d - WORD \in 0 .. WORD - 1
    BY <1>2, PipeAssumption
  <2>2. (1 * WORD + (x + d - WORD)) % WORD = x + d - WORD
    BY <2>1, ModUnique, PipeAssumption
  <2> QED
    BY <1>2, <2>1, <2>2, PipeAssumption
<1> QED
  BY <1>1, <1>2, PipeAssumption
(* pipe_write stores byte y of a pipe that holds the bytes x .. y - 1 of    *)
(* the running count: it lands behind them, on none of their slots.         *)
LEMMA RingWrite ==
  ASSUME NEW x \in 0 .. WORD - 1, NEW y \in 0 .. WORD - 1,
         NEW n, n = (y - x) % WORD, n <= PIPESIZE, y # (x + PIPESIZE) % WORD
  PROVE  /\ n \in Nat /\ n < PIPESIZE
         /\ (((y + 1) % WORD) - x) % WORD = n + 1
         /\ (x + n) % PIPESIZE = y % PIPESIZE
         /\ \A i \in 1 .. n : (x + i - 1) % PIPESIZE # y % PIPESIZE
<1> USE PipeAssumption
<1>1. n = IF y >= x THEN y - x ELSE (y - x) + WORD
  BY Zenon, WordSub
<1>2. (x + PIPESIZE) % WORD = IF x + PIPESIZE < WORD THEN x + PIPESIZE
                              ELSE x + PIPESIZE - WORD
  BY WordAdd
<1>3. n \in Nat /\ n < PIPESIZE
  BY <1>1, <1>2
<1>4. (y + 1) % WORD = IF y + 1 < WORD THEN y + 1 ELSE 0
  <2>1. 1 \in 0 .. WORD
    OBVIOUS
  <2>2. (y + 1) % WORD = IF y + 1 < WORD THEN y + 1 ELSE y + 1 - WORD
    BY Zenon, <2>1, WordAdd
  <2> QED
    BY <2>2
<1>5. (((y + 1) % WORD) - x) % WORD = n + 1
  <2> DEFINE z == (y + 1) % WORD
  <2>1. z \in 0 .. WORD - 1
    BY <1>4
  <2>2. (z - x) % WORD = IF z >= x THEN z - x ELSE (z - x) + WORD
    BY Zenon, <2>1, WordSub
  <2> QED
    BY <2>2, <1>1, <1>3, <1>4
<1>6. (x + n) % PIPESIZE = y % PIPESIZE
  <2>1. CASE y >= x
    <3>1. x + n = y
      BY <2>1, <1>1
    <3> QED
      BY Zenon, <3>1
  <2>2. CASE y < x
    <3>1. x + n = y + WORD
      BY <2>2, <1>1
    <3>2. (y + WORD) % PIPESIZE = y % PIPESIZE
      <4>1. y \in Int
        OBVIOUS
      <4> QED
        BY Zenon, <4>1, ModWord
    <3> QED
      BY Zenon, <3>1, <3>2
  <2> QED
    BY <2>1, <2>2
<1>7. ASSUME NEW i \in 1 .. n
      PROVE  (x + i - 1) % PIPESIZE # y % PIPESIZE
  <2> DEFINE a == x + i - 1
             d == n - i + 1
  <2>1. a \in Int /\ d \in 1 .. PIPESIZE - 1 /\ a + d = x + n
    BY <1>3
  <2>2. (a + d) % PIPESIZE # a % PIPESIZE
    BY Zenon, <2>1, ModApart
  <2> QED
    BY Zenon, <2>1, <2>2, <1>6
<1> QED
  BY Zenon, <1>3, <1>5, <1>6, <1>7

(* pipe_read takes byte x, and the others keep their slots.                 *)
LEMMA RingRead ==
  ASSUME NEW x \in 0 .. WORD - 1, NEW y \in 0 .. WORD - 1,
         NEW n, n = (y - x) % WORD, x # y
  PROVE  /\ n \in Nat \ {0}
         /\ (y - ((x + 1) % WORD)) % WORD = n - 1
         /\ \A i \in Nat : (((x + 1) % WORD) + i - 1) % PIPESIZE
                             = (x + (i + 1) - 1) % PIPESIZE
<1> USE PipeAssumption
<1>1. n = IF y >= x THEN y - x ELSE (y - x) + WORD
  BY Zenon, WordSub
<1>2. (x + 1) % WORD = IF x + 1 < WORD THEN x + 1 ELSE 0
  <2>1. 1 \in 0 .. WORD
    OBVIOUS
  <2>2. (x + 1) % WORD = IF x + 1 < WORD THEN x + 1 ELSE x + 1 - WORD
    BY Zenon, <2>1, WordAdd
  <2> QED
    BY <2>2
<1>3. n \in Nat \ {0}
  BY <1>1
<1>4. (y - ((x + 1) % WORD)) % WORD = n - 1
  <2> DEFINE z == (x + 1) % WORD
  <2>1. z \in 0 .. WORD - 1
    BY <1>2
  <2>2. (y - z) % WORD = IF y >= z THEN y - z ELSE (y - z) + WORD
    BY Zenon, <2>1, WordSub
  <2> QED
    BY <2>2, <1>1, <1>2
<1>5. ASSUME NEW i \in Nat
      PROVE  (((x + 1) % WORD) + i - 1) % PIPESIZE = (x + (i + 1) - 1) % PIPESIZE
  <2>1. CASE x + 1 < WORD
    <3>1. ((x + 1) % WORD) + i - 1 = x + (i + 1) - 1
      BY <2>1, <1>2
    <3> QED
      BY Zenon, <3>1
  <2>2. CASE ~(x + 1 < WORD)
    <3> DEFINE a == ((x + 1) % WORD) + i - 1
    <3>1. a \in Int /\ a + WORD = x + (i + 1) - 1
      BY <2>2, <1>2
    <3> QED
      BY Zenon, <3>1, ModWord
  <2> QED
    BY Zenon, <2>1, <2>2
<1> QED
  BY Zenon, <1>3, <1>4, <1>5

LEMMA SeqAppend ==
  ASSUME NEW S, NEW n \in Nat, NEW f \in [1 .. n -> S], NEW b \in S,
         NEW g \in [1 .. n + 1 -> S],
         \A i \in 1 .. n : g[i] = f[i], g[n + 1] = b
  PROVE  Len(f) = n /\ g = Append(f, b)
  BY SMTT(30)

LEMMA SeqTail ==
  ASSUME NEW S, NEW n \in Nat \ {0}, NEW f \in [1 .. n -> S],
         NEW g \in [1 .. n - 1 -> S], \A i \in 1 .. n - 1 : g[i] = f[i + 1]
  PROVE  f # <<>> /\ g = Tail(f)
  BY SMTT(30)

-----------------------------------------------------------------------------

(* The number of bytes in the pipe, as the counters give it. *)
Used == (pipe.nwrite - pipe.nread) % WORD

LEMMA ModRange ==
  ASSUME NEW a \in Int PROVE a % PIPESIZE \in 0 .. PIPESIZE - 1
  BY Zenon, DivMod, PipeAssumption

(* The bytes are bytes, as many as the counters are apart. *)
LEMMA RingType ==
  ASSUME NEW x \in 0 .. WORD - 1, NEW n \in Nat,
         NEW data \in [0 .. PIPESIZE - 1 -> Bytes]
  PROVE  [i \in 1 .. n |-> data[(x + i - 1) % PIPESIZE]] \in [1 .. n -> Bytes]
<1> SUFFICES ASSUME NEW i \in 1 .. n PROVE data[(x + i - 1) % PIPESIZE] \in Bytes
  BY Zenon
<1>1. x + i - 1 \in Int
  BY PipeAssumption
<1> QED
  BY Zenon, <1>1, ModRange

(* Storing a byte sends it, and there was room for it.                      *)
LEMMA WriteSends ==
  ASSUME TypeOK, TypeOK', Used <= PIPESIZE,
         NEW p \in Procs, NEW b \in Bytes, WriteByte(p, b)
  PROVE  /\ Used' <= PIPESIZE
         /\ Len(Contents) < PIPESIZE /\ Contents' = Append(Contents, b)
<1> DEFINE x == pipe.nread
           y == pipe.nwrite
           s == y % PIPESIZE
<1>1. /\ x \in 0 .. WORD - 1 /\ y \in 0 .. WORD - 1
      /\ pipe.data \in [0 .. PIPESIZE - 1 -> Bytes]
      /\ pipe = [nread |-> x, nwrite |-> y, data |-> pipe.data,
                 readopen |-> pipe.readopen, writeopen |-> pipe.writeopen]
  BY Zenon DEF TypeOK
<1>2. /\ pipe'.nread = x /\ pipe'.nwrite = (y + 1) % WORD
      /\ pipe'.data = [pipe.data EXCEPT ![s] = b]
      /\ y # (x + PIPESIZE) % WORD
  BY Zenon, <1>1 DEF WriteByte, Full
<1>3. Used = (y - x) % WORD /\ Used' = (((y + 1) % WORD) - x) % WORD
  BY Zenon, <1>2 DEF Used
<1> DEFINE n == Used
<1>4. /\ n \in Nat /\ n < PIPESIZE
      /\ Used' = n + 1
      /\ (x + n) % PIPESIZE = s
      /\ \A i \in 1 .. n : (x + i - 1) % PIPESIZE # s
  <2> HIDE DEF x, y, n
  <2> QED
    BY SMTT(30), <1>1, <1>2, <1>3, RingWrite DEF n
<1>5. Contents \in [1 .. n -> Bytes] /\ Contents' \in [1 .. n + 1 -> Bytes]
  <2>1. n + 1 \in Nat
    BY <1>4
  <2>2. Contents' = [i \in 1 .. n + 1 |-> pipe'.data[(x + i - 1) % PIPESIZE]]
    BY Zenon, <1>2, <1>3, <1>4 DEF Contents
  <2>3. pipe'.data \in [0 .. PIPESIZE - 1 -> Bytes]
    BY Zenon DEF TypeOK
  <2>4. Contents = [i \in 1 .. n |-> pipe.data[(x + i - 1) % PIPESIZE]]
    BY Zenon DEF Contents, Used
  <2>5. n \in Nat
    BY Zenon, <1>4
  <2> HIDE DEF x, n
  <2>6. Contents \in [1 .. n -> Bytes]
    BY Zenon, <2>4, <2>5, <1>1, RingType
  <2>7. Contents' \in [1 .. n + 1 -> Bytes]
    BY Zenon, <2>1, <2>2, <2>3, <1>1, RingType
  <2> QED
    BY Zenon, <2>6, <2>7
<1>6. ASSUME NEW i \in 1 .. n PROVE Contents'[i] = Contents[i]
  <2>1. Contents'[i] = pipe'.data[(x + i - 1) % PIPESIZE]
    <3>1. i \in 1 .. n + 1
      BY <1>4
    <3> QED
      BY Zenon, <3>1, <1>2, <1>3, <1>4 DEF Contents
  <2>2. Contents[i] = pipe.data[(x + i - 1) % PIPESIZE]
    BY Zenon DEF Contents, Used
  <2>3. (x + i - 1) % PIPESIZE \in 0 .. PIPESIZE - 1
    <3>1. x + i - 1 \in Int
      BY <1>1, <1>4, PipeAssumption
    <3> QED
      BY Zenon, <3>1, ModRange
  <2>4. (x + i - 1) % PIPESIZE # s
    BY Zenon, <1>4
  <2> HIDE DEF x, s, n
  <2> QED
    BY Zenon, <2>1, <2>2, <2>3, <2>4, <1>1, <1>2
<1>7. Contents'[n + 1] = b
  <2>1. Contents'[n + 1] = pipe'.data[(x + (n + 1) - 1) % PIPESIZE]
    <3>1. n + 1 \in 1 .. n + 1
      BY <1>4
    <3> QED
      BY Zenon, <3>1, <1>2, <1>3, <1>4 DEF Contents
  <2>2. x + (n + 1) - 1 = x + n
    BY <1>1, <1>4
  <2>3. s \in 0 .. PIPESIZE - 1
    BY Zenon, <1>1, DataIndex
  <2> HIDE DEF x, s, n
  <2> QED
    BY Zenon, <2>1, <2>2, <2>3, <1>1, <1>2, <1>4
<1> HIDE DEF n
<1>8. Len(Contents) = n /\ Contents' = Append(Contents, b)
  BY SMTT(30), <1>4, <1>5, <1>6, <1>7, SeqAppend
<1> QED
  BY <1>4, <1>8, PipeAssumption

(* Taking a byte receives the oldest.                                       *)
LEMMA ReadReceives ==
  ASSUME TypeOK, TypeOK', Used <= PIPESIZE,
         NEW p \in Procs, ReadByte(p)
  PROVE  /\ Used' <= PIPESIZE
         /\ Contents # <<>> /\ Contents' = Tail(Contents)
<1> DEFINE x == pipe.nread
           y == pipe.nwrite
<1>1. /\ x \in 0 .. WORD - 1 /\ y \in 0 .. WORD - 1
      /\ pipe = [nread |-> x, nwrite |-> y, data |-> pipe.data,
                 readopen |-> pipe.readopen, writeopen |-> pipe.writeopen]
  BY Zenon DEF TypeOK
<1>2. /\ pipe'.nread = (x + 1) % WORD /\ pipe'.nwrite = y
      /\ pipe'.data = pipe.data
      /\ x # y
  BY Zenon, <1>1 DEF ReadByte, Empty
<1>3. Used = (y - x) % WORD /\ Used' = (y - ((x + 1) % WORD)) % WORD
  BY Zenon, <1>2 DEF Used
<1> DEFINE n == Used
<1>4. /\ n \in Nat \ {0}
      /\ Used' = n - 1
      /\ \A i \in Nat : (((x + 1) % WORD) + i - 1) % PIPESIZE
                          = (x + (i + 1) - 1) % PIPESIZE
  <2> HIDE DEF x, y, n
  <2> QED
    BY SMTT(30), <1>1, <1>2, <1>3, RingRead DEF n
<1>5. Contents \in [1 .. n -> Bytes] /\ Contents' \in [1 .. n - 1 -> Bytes]
  <2>1. n - 1 \in Nat /\ n \in Nat
    BY <1>4
  <2>2. Contents' = [i \in 1 .. n - 1 |->
                       pipe.data[(((x + 1) % WORD) + i - 1) % PIPESIZE]]
    BY Zenon, <1>2, <1>3, <1>4 DEF Contents
  <2>3. /\ pipe.data \in [0 .. PIPESIZE - 1 -> Bytes]
        /\ (x + 1) % WORD \in 0 .. WORD - 1
    BY Zenon, <1>1, WordStep DEF TypeOK
  <2>4. Contents = [i \in 1 .. n |-> pipe.data[(x + i - 1) % PIPESIZE]]
    BY Zenon DEF Contents, Used
  <2> HIDE DEF x, n
  <2>5. Contents \in [1 .. n -> Bytes]
    BY Zenon, <2>1, <2>3, <2>4, <1>1, RingType
  <2>6. Contents' \in [1 .. n - 1 -> Bytes]
    BY Zenon, <2>1, <2>2, <2>3, RingType
  <2> QED
    BY Zenon, <2>5, <2>6
<1>6. ASSUME NEW i \in 1 .. n - 1 PROVE Contents'[i] = Contents[i + 1]
  <2>1. Contents'[i] = pipe.data[(((x + 1) % WORD) + i - 1) % PIPESIZE]
    BY Zenon, <1>2, <1>3, <1>4 DEF Contents
  <2>2. i \in Nat /\ i + 1 \in 1 .. n
    BY <1>4
  <2>3. Contents[i + 1] = pipe.data[(x + (i + 1) - 1) % PIPESIZE]
    BY Zenon, <2>2 DEF Contents, Used
  <2> QED
    BY Zenon, <2>1, <2>2, <2>3, <1>4
<1> HIDE DEF n
<1>7. Contents # <<>> /\ Contents' = Tail(Contents)
  BY Zenon, <1>4, <1>5, <1>6, SeqTail
<1>8. Used' <= PIPESIZE
  BY <1>4, PipeAssumption DEF n
<1> QED
  BY Zenon, <1>7, <1>8

-----------------------------------------------------------------------------

(* A reader in the second loop of pipe_read that has no byte yet came there *)
(* past the test of the first: the pipe has bytes or no write end is open.  *)
Started == \A p \in Procs : pc[p] = "read" /\ io[p].done = 0
                              => ~(Empty /\ pipe.writeopen)

(* What a step does to the pipe: nothing, a byte in or out, or an end       *)
(* closes for good.                                                         *)
LEMMA PipeSteps ==
  ASSUME IInv, [Next]_vars
  PROVE  \/ \E p \in Procs, b \in Bytes : WriteByte(p, b)
         \/ \E p \in Procs : ReadByte(p)
         \/ \E p \in Procs : CloseWrite(p) /\ wr' = {}
         \/ \E p \in Procs : CloseRead(p) /\ rd' = {}
         \/ pipe' = pipe
  BY Zenon DEF Next, InKernel, vars, Spawn, SysWrite, SysRead, WriteBroken,
     WriteSleep, WriteDone, ReadSleep, ReadStart, ReadDone, WriteResume,
     ReadResume, CloseWrite, CloseRead, Exit, ExitDone, Kill, Signal

LEMMA StartedStep == IInv /\ Started /\ [Next]_vars => Started'
<1> SUFFICES ASSUME IInv, Started, [Next]_vars,
                    NEW q \in Procs, pc'[q] = "read", io'[q].done = 0
             PROVE  ~(Empty' /\ pipe'.writeopen)
  BY Zenon DEF Started
<1>t. /\ pc \in [Procs -> Pcs] /\ Free \notin Procs
      /\ io \in [Procs -> [n : 0 .. MaxIO, done : 0 .. MaxIO]]
  BY Zenon, PipeAssumption DEF IInv, TypeOK
<1>i. pc[q] = "read" /\ io[q].done = 0 => ~(Empty /\ pipe.writeopen)
  BY Zenon DEF Started
<1>l. \A p \in Procs : pc[p] \in {"write", "wait", "read"} <=> lock = p
  BY Zenon DEF IInv, LockHeld, Critical
<1>c. pipe' = pipe => (Empty' <=> Empty)
  BY Zenon, CountersFrame
<1>1. CASE UNCHANGED vars
  BY Zenon, <1>1, <1>i, <1>c DEF vars
<1>2. ASSUME NEW p \in Procs, ReadStart(p) PROVE ~(Empty' /\ pipe'.writeopen)
  <2>1. p = q
    BY Zenon, <1>2, <1>t, <1>l DEF ReadStart
  <2> QED
    BY Zenon, <1>2, <2>1, <1>c DEF ReadStart
<1>3. ASSUME NEW p \in Procs, ReadByte(p) \/ \E b \in Bytes : WriteByte(p, b)
      PROVE  FALSE
  <2>1. pc[p] \in {"write", "read"} /\ pc' = pc
    BY Zenon, <1>3 DEF ReadByte, WriteByte
  <2>2. p = q
    BY Zenon, <2>1, <1>l
  <2>3. io' = [io EXCEPT ![q].done = @ + 1]
    BY Zenon, <2>2, <1>3 DEF ReadByte, WriteByte
  <2>4. io'[q].done = io[q].done + 1 /\ io[q].done \in 0 .. MaxIO
    BY <2>3, <1>t
  <2> QED
    BY <2>4, PipeAssumption
<1>4. ASSUME NEW p \in Procs,
             \/ WriteBroken(p) \/ WriteSleep(p) \/ WriteDone(p)
             \/ ReadSleep(p) \/ ReadDone(p)
      PROVE  FALSE
  <2>1. pc[p] \in {"write", "wait", "read"}
    BY Zenon, <1>4 DEF WriteBroken, WriteSleep, WriteDone, ReadSleep, ReadDone
  <2>2. pc'[q] = "read" => q # p /\ pc[q] = "read"
    BY Zenon, <1>4, <1>t DEF WriteBroken, WriteSleep, WriteDone, ReadSleep,
       ReadDone, WakeReaders, WakeWriters, Awake
  <2> QED
    BY Zenon, <2>1, <2>2, <1>l
<1>5. ASSUME NEW p \in Procs, lock = Free,
             pc'[q] = "read" => pc[q] = "read"
      PROVE  FALSE
  BY Zenon, <1>5, <1>l, <1>t
<1>6. ASSUME NEW p \in Procs,
             \/ \E r, w \in BOOLEAN : Spawn(p, r, w)
             \/ \E n \in 0 .. MaxIO : SysWrite(p, n) \/ SysRead(p, n)
             \/ WriteResume(p) \/ ReadResume(p)
             \/ CloseWrite(p) \/ CloseRead(p)
             \/ Exit(p) \/ ExitDone(p) \/ Kill(p) \/ Signal(p)
      PROVE  FALSE
  <2>1. lock = Free /\ (pc'[q] = "read" => pc[q] = "read")
    BY Zenon, <1>6, <1>t DEF Spawn, SysWrite, SysRead, WriteResume, ReadResume,
       CloseWrite, CloseRead, Exit, ExitDone, Kill, Signal, WakeReaders,
       WakeWriters, Awake
  <2> QED
    BY Zenon, <2>1, <1>5
<1> QED
  BY Zenon, <1>1, <1>2, <1>3, <1>4, <1>6 DEF Next, InKernel

(* The counters never say that more bytes are in the ring than fit.         *)
RInv == IInv /\ Started /\ Used <= PIPESIZE

LEMMA UsedStep == IInv /\ Used <= PIPESIZE /\ IInv' /\ [Next]_vars
                    => Used' <= PIPESIZE
<1> SUFFICES ASSUME IInv, Used <= PIPESIZE, IInv', [Next]_vars
             PROVE  Used' <= PIPESIZE
  BY Zenon
<1>r. TypeOK /\ TypeOK'
      /\ pipe = [nread |-> pipe.nread, nwrite |-> pipe.nwrite, data |-> pipe.data,
                 readopen |-> pipe.readopen, writeopen |-> pipe.writeopen]
  BY Zenon DEF IInv, TypeOK
<1>1. ASSUME NEW p \in Procs, NEW b \in Bytes, WriteByte(p, b)
      PROVE  Used' <= PIPESIZE
  BY Zenon, <1>1, <1>r, WriteSends
<1>2. ASSUME NEW p \in Procs, ReadByte(p) PROVE Used' <= PIPESIZE
  BY Zenon, <1>2, <1>r, ReadReceives
<1>3. ASSUME NEW p \in Procs, CloseWrite(p) \/ CloseRead(p)
      PROVE  Used' = Used
  BY Zenon, <1>3, <1>r DEF CloseWrite, CloseRead, Used
<1>4. CASE pipe' = pipe
  BY Zenon, <1>4 DEF Used
<1> QED
  BY Zenon, <1>1, <1>2, <1>3, <1>4, PipeSteps

LEMMA RingInvariance == Spec => []RInv
<1>1. Init => Started /\ Used <= PIPESIZE
  <2> SUFFICES ASSUME Init PROVE Started /\ Used <= PIPESIZE
    BY Zenon
  <2>1. Started
    BY Zenon DEF Init, Started
  <2>2. pipe.nread = 0 /\ pipe.nwrite = 0
    BY DEF Init
  <2>3. Used = 0
    BY <2>2, PipeAssumption DEF Used
  <2> QED
    BY <2>1, <2>3, PipeAssumption
<1>2. RInv /\ [Next]_vars => RInv'
  BY Zenon, TypeStep, LockStep, EndsStep, SleepersStep, StartedStep, UsedStep
     DEF IInv, RInv
<1> QED
  BY InitIInv, <1>1, <1>2, PTL DEF Spec, RInv

(* pipe_read answers nothing to a caller that wanted bytes only when the    *)
(* pipe is drained and nobody holds the write end: a command sees the end   *)
(* of its input exactly once the last writer is gone.                       *)
THEOREM EndOfFileSafe == Spec => EndOfFile
<1>1. RInv => (\A p \in Procs : ReadDone(p) /\ io[p].n > 0 /\ io[p].done = 0
                                  => Empty /\ ~pipe.writeopen)
  <2> SUFFICES ASSUME RInv, NEW p \in Procs, ReadDone(p), io[p].n > 0,
                      io[p].done = 0
               PROVE  Empty /\ ~pipe.writeopen
    BY Zenon
  <2>1. io[p].done # io[p].n
    BY PipeAssumption DEF RInv, IInv, TypeOK
  <2> QED
    BY Zenon, <2>1 DEF RInv, Started, ReadDone
<1> QED
  BY <1>1, RingInvariance, PTL DEF EndOfFile

(* The ring buffer of struct pipe, with its counters that wrap, implements  *)
(* a bounded first-in first-out channel whose ends close once and for all:  *)
(* for every size that divides the word, every number of readers and        *)
(* writers and every interleaving, bytes come out once each and in order.   *)
THEOREM ChannelRefined == Spec => FifoChannel
<1>1. Init => Chan!ChInit
  <2> SUFFICES ASSUME Init PROVE Chan!ChInit
    BY Zenon
  <2>1. /\ pipe.nread = 0 /\ pipe.nwrite = 0
        /\ pipe.readopen = TRUE /\ pipe.writeopen = TRUE
    BY DEF Init
  <2>2. (pipe.nwrite - pipe.nread) % WORD = 0
    BY <2>1, PipeAssumption
  <2>3. Contents = <<>>
    BY <2>2 DEF Contents
  <2> QED
    BY Zenon, <2>1, <2>3 DEF Chan!ChInit
<1>2. RInv /\ RInv' /\ [Next]_vars => [Chan!ChNext]_(Chan!chVars)
  <2> SUFFICES ASSUME RInv, RInv', [Next]_vars
               PROVE  [Chan!ChNext]_(Chan!chVars)
    BY Zenon
  <2>r. /\ IInv /\ TypeOK /\ TypeOK' /\ Used <= PIPESIZE /\ EndsHeld
        /\ pipe = [nread |-> pipe.nread, nwrite |-> pipe.nwrite,
                   data |-> pipe.data, readopen |-> pipe.readopen,
                   writeopen |-> pipe.writeopen]
        /\ pipe.readopen \in BOOLEAN /\ pipe.writeopen \in BOOLEAN
    BY Zenon DEF RInv, IInv, TypeOK
  <2>1. ASSUME NEW p \in Procs, NEW b \in Bytes, WriteByte(p, b)
        PROVE  Chan!Send(b)
    <3>1. Len(Contents) < PIPESIZE /\ Contents' = Append(Contents, b)
      BY Zenon, <2>1, <2>r, WriteSends
    <3>2. pipe.writeopen
      BY Zenon, <2>1, <2>r DEF EndsHeld, WriteByte
    <3>3. pipe'.readopen = pipe.readopen /\ pipe'.writeopen = pipe.writeopen
      BY Zenon, <2>1, <2>r DEF WriteByte
    <3> QED
      BY Zenon, <3>1, <3>2, <3>3 DEF Chan!Send
  <2>2. ASSUME NEW p \in Procs, ReadByte(p) PROVE Chan!Receive
    <3>1. Contents # <<>> /\ Contents' = Tail(Contents)
      BY Zenon, <2>2, <2>r, ReadReceives
    <3>2. pipe.readopen
      BY Zenon, <2>2, <2>r DEF EndsHeld, ReadByte
    <3>3. pipe'.readopen = pipe.readopen /\ pipe'.writeopen = pipe.writeopen
      BY Zenon, <2>2, <2>r DEF ReadByte
    <3> QED
      BY Zenon, <3>1, <3>2, <3>3 DEF Chan!Receive
  <2>3. ASSUME NEW p \in Procs, CloseWrite(p), wr' = {}
        PROVE  Chan!CloseWrite
    <3>1. pipe' = [pipe EXCEPT !.writeopen = FALSE] /\ p \in wr
      BY Zenon, <2>3 DEF CloseWrite
    <3>2. pipe.writeopen /\ pipe'.writeopen = FALSE
          /\ pipe'.readopen = pipe.readopen
      BY Zenon, <3>1, <2>r DEF EndsHeld
    <3>3. Contents' = Contents
      BY Zenon, <3>1, <2>r DEF Contents
    <3> QED
      BY Zenon, <3>2, <3>3 DEF Chan!CloseWrite
  <2>4. ASSUME NEW p \in Procs, CloseRead(p), rd' = {}
        PROVE  Chan!CloseRead
    <3>1. pipe' = [pipe EXCEPT !.readopen = FALSE] /\ p \in rd
      BY Zenon, <2>4 DEF CloseRead
    <3>2. pipe.readopen /\ pipe'.readopen = FALSE
          /\ pipe'.writeopen = pipe.writeopen
      BY Zenon, <3>1, <2>r DEF EndsHeld
    <3>3. Contents' = Contents
      BY Zenon, <3>1, <2>r DEF Contents
    <3> QED
      BY Zenon, <3>2, <3>3 DEF Chan!CloseRead
  <2>5. CASE pipe' = pipe
    BY Zenon, <2>5 DEF Chan!chVars, Contents
  <2> QED
    BY Zenon, <2>1, <2>2, <2>3, <2>4, <2>5, <2>r, PipeSteps DEF Chan!ChNext
<1> QED
  BY <1>1, <1>2, RingInvariance, PTL DEF Spec, FifoChannel, Chan!ChSpec
=============================================================================
