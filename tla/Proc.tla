-------------------------------- MODULE Proc ---------------------------------
(***************************************************************************)
(* Processes: creation, scheduling, sleeping, signals, exit and waiting.   *)
(* Composes the scheduler (PThread) and the containers (MContainer) through*)
(* the system calls and interrupts of kern/trap.                           *)
(*                                                                         *)
(* The kernel runs with interrupts disabled, on one processor: only the    *)
(* running thread sched.cur takes steps, and its code between two context  *)
(* switches is atomic.  pc[p] says where p is:                             *)
(*   "user"    in user mode (only there is it interrupted)                 *)
(*   "kernel"  inside a file, pipe or ipc system call, or in sys_exit's    *)
(*             closing of files: it may sleep and wake others              *)
(*   "asleep"  inside thread_sleep                                         *)
(*   "wait"    inside the loop of sys_waitpid                              *)
(*   "ret"     at the end of trap(), before handle_pending_signals         *)
(* What files, pipes and ipc compute is the subject of other modules; here *)
(* they sleep on a channel and wake a channel.                             *)
(***************************************************************************)
EXTENDS PThread, MContainer

CONSTANTS NSIG, SIGKILL,
          Sigs,                 \* the signal numbers user programs pass
          SCHED_SLICE, TICK_MS, \* ms per slice, ms per timer interrupt
          REAL_QUOTA,           \* free pages at boot
          IdleQuota, ShellQuota,\* quotas kern_main gives its two processes
          Quotas,               \* quotas user programs pass to sys_spawn
          IMAGE_PAGES,          \* pages elf_load allocates for a program
          Kills,                \* the pairs <<killer, victim>> that may occur
          Waits                 \* the pairs <<waiter, target>> that may occur

ASSUME ProcAssumption ==
  /\ NSIG \in Nat /\ SIGKILL \in 1 .. NSIG - 1
  /\ Sigs \subseteq Nat
  /\ SCHED_SLICE \in Nat /\ TICK_MS \in Nat \ {0}
  /\ REAL_QUOTA \in Word /\ IdleQuota \in Word /\ ShellQuota \in Word
  /\ IdleQuota + ShellQuota <= REAL_QUOTA
  /\ Quotas \subseteq Word
  /\ IMAGE_PAGES \in Nat
  /\ Kills \subseteq Ids \X Ids /\ Waits \subseteq Ids \X Ids

VARIABLES
  sched,        \* the scheduler: ready queue, thread states, running thread
  ticks,        \* sched_ticks of the processor, in ms
  waking,       \* the loop of thread_wakeup: its channel and next pid
  cont,         \* the containers
  pending,      \* pending signals of each process
  pc,           \* where each process is
  exiting,      \* the processes inside sys_exit
  target,       \* the process a process in "wait" waits for
  panicked      \* the kernel has stopped in KERN_PANIC

vars == <<sched, ticks, waking, cont, pending, pc, exiting, target, panicked>>

SHELL == 2

(* The processes created so far: the used containers, but for 0, which is   *)
(* the boot context and no process.                                         *)
Procs == {p \in Ids \ {0} : cont.used[p]}

NotWaking == [chan |-> NoChan, at |-> NUM_IDS]
Waking(c) == [chan |-> c, at |-> 1]

Pcs == {"user", "kernel", "asleep", "wait", "ret"}

TypeOK ==
  /\ sched \in SchedType
  /\ ticks \in 0 .. SCHED_SLICE
  /\ waking \in [chan : Chans \cup {NoChan}, at : 1 .. NUM_IDS]
  /\ cont \in ContainerType
  /\ pending \in [Ids -> SUBSET (1 .. NSIG - 1)]
  /\ pc \in [Ids -> Pcs]
  /\ exiting \subseteq Ids
  /\ target \in [Ids -> Ids \cup {NULL}]
  /\ panicked \in BOOLEAN

-----------------------------------------------------------------------------

(* elf_load: one container_alloc per page of the program; pages beyond the  *)
(* quota are silently not allocated.                                        *)
ElfLoad(c, p) ==
  [c EXCEPT !.usage[p] = IF IMAGE_PAGES < c.quota[p]
                         THEN IMAGE_PAGES ELSE c.quota[p]]

(* kern_main: create idle and the shell, then run the shell.                *)
Init ==
  /\ \E g \in Ids \cup {NULL} :
       LET s == ThreadSpawn(ThreadSpawn(ThreadInit(g), IDLE), SHELL)
       IN  sched = SwitchTo([s EXCEPT !.q = Remove(s.q, SHELL)], SHELL)
  /\ cont = LET c1 == ElfLoad(ContainerSplit(ContainerInit(REAL_QUOTA), 0,
                                             IdleQuota), IDLE)
            IN  ElfLoad(ContainerSplit(c1, 0, ShellQuota), SHELL)
  /\ ticks = 0
  /\ waking = NotWaking
  /\ pending = [p \in Ids |-> {}]
  /\ pc = [p \in Ids |-> "user"]
  /\ exiting = {}
  /\ target = [p \in Ids |-> NULL]
  /\ panicked = FALSE

-----------------------------------------------------------------------------

(* p runs, at l, and no loop of thread_wakeup is under way.                 *)
Runs(p, l) ==
  /\ ~panicked
  /\ sched.cur = p
  /\ pc[p] = l
  /\ waking = NotWaking

Goto(p, l) == pc' = [pc EXCEPT ![p] = l]

(* System calls are made by every program but idle, which only loops.       *)
Calls(p) == p # IDLE /\ Runs(p, "user")

(* The timer interrupt: sched_update.                                       *)
Timer(p) ==
  /\ Runs(p, "user")
  /\ Goto(p, "ret")
  /\ IF ticks + TICK_MS > SCHED_SLICE
     THEN ticks' = 0 /\ sched' = ThreadYield(sched)
     ELSE ticks' = ticks + TICK_MS /\ UNCHANGED sched
  /\ UNCHANGED <<waking, cont, pending, exiting, target, panicked>>

(* The disk interrupt: ide_intr wakes the threads waiting for a buffer.     *)
IdeIntr(p, c) ==
  /\ Runs(p, "user")
  /\ Goto(p, "ret")
  /\ waking' = Waking(c)
  /\ UNCHANGED <<sched, ticks, cont, pending, exiting, target, panicked>>

(* Every other interrupt is only acknowledged.                              *)
OtherIntr(p) ==
  /\ Runs(p, "user")
  /\ Goto(p, "ret")
  /\ UNCHANGED <<sched, ticks, waking, cont, pending, exiting, target,
                 panicked>>

(* Every exception but a page fault on an unmapped page stops the kernel.   *)
Exception(p) ==
  /\ Runs(p, "user")
  /\ panicked' = TRUE
  /\ UNCHANGED <<sched, ticks, waking, cont, pending, pc, exiting, target>>

(* A page fault: alloc_page takes a page, and another for the page table    *)
(* when that is missing too (need = 2); palloc finds the first found of     *)
(* them.  A failed allocation stops the kernel.                             *)
PageFault(p, need, found) ==
  LET c1 == ContainerAlloc(cont, p)
      more == need = 2 /\ found > 0
  IN  /\ Runs(p, "user")
      /\ cont' = IF more THEN ContainerAlloc(c1, p) ELSE c1
      /\ panicked' = \/ found < need
                     \/ AtQuota(cont, p)
                     \/ more /\ AtQuota(c1, p)
      /\ Goto(p, "ret")
      /\ UNCHANGED <<sched, ticks, waking, pending, exiting, target>>

(* Mutant of WakeStep: the loop ends one thread early. *)
WakeStepShort ==
  /\ waking # NotWaking
  /\ sched' = WakeOne(sched, waking.chan, waking.at)
  /\ waking' = IF waking.at + 2 < NUM_IDS
               THEN [waking EXCEPT !.at = @ + 1] ELSE NotWaking
  /\ UNCHANGED <<ticks, cont, pending, pc, exiting, target, panicked>>

(* One iteration of the loop of thread_wakeup, which runs to its end before *)
(* anything else happens.                                                   *)
WakeStep ==
  /\ waking # NotWaking
  /\ sched' = WakeOne(sched, waking.chan, waking.at)
  /\ waking' = IF waking.at + 1 < NUM_IDS
               THEN [waking EXCEPT !.at = @ + 1] ELSE NotWaking
  /\ UNCHANGED <<ticks, cont, pending, pc, exiting, target, panicked>>

-----------------------------------------------------------------------------

(* sys_spawn: quota, pid space, number of children and whether elf_id names *)
(* a program are checked in turn.  The child's files are in FileTable.      *)
CanSpawn(p, n) ==
  /\ CanConsume(cont, p, n)
  /\ NUM_IDS >= p * MAX_CHILDREN + 1 + MAX_CHILDREN
  /\ cont.nchildren[p] # MAX_CHILDREN

SysSpawn(p, n, known) ==
  /\ Calls(p)
  /\ Goto(p, "ret")
  /\ IF CanSpawn(p, n) /\ known
     THEN LET child == NextChild(cont, p)
          IN  /\ cont' = ElfLoad(ContainerSplit(cont, p, n), child)
              /\ sched' = ThreadSpawn(sched, child)
     ELSE UNCHANGED <<cont, sched>>
  /\ UNCHANGED <<ticks, waking, pending, exiting, target, panicked>>

SysYield(p) ==
  /\ Calls(p)
  /\ Goto(p, "ret")
  /\ sched' = ThreadYield(sched)
  /\ UNCHANGED <<ticks, waking, cont, pending, exiting, target, panicked>>

(* sys_kill.  SIGKILL takes effect at once, and releases nothing the victim *)
(* holds but its quota; another signal is made pending, and a sleeping      *)
(* target is woken through its channel.                                     *)
SysKill(p, v, sig) ==
  /\ Calls(p)
  /\ <<p, v>> \in Kills
  /\ Goto(p, "ret")
  /\ IF sig \notin 1 .. NSIG - 1 \/ sched.state[v] = "DEAD"
     THEN UNCHANGED <<sched, pending, cont, waking>>
     ELSE IF sig = SIGKILL
     THEN /\ sched' = Terminate(sched, v)
          /\ pending' = [pending EXCEPT ![v] = {}]
          /\ cont' = Refund(cont, cont.parent[v], cont.quota[v])
          /\ UNCHANGED waking
     ELSE /\ pending' = [pending EXCEPT ![v] = @ \cup {sig}]
          /\ waking' = IF sched.state[v] = "SLEEP" /\ sched.chan[v] # NoChan
                       THEN Waking(sched.chan[v]) ELSE waking
          /\ UNCHANGED <<sched, cont>>
  /\ UNCHANGED <<ticks, exiting, target, panicked>>

(* sys_pause: the state SLEEP it sets is overwritten by thread_yield.       *)
SysPause(p) ==
  /\ Calls(p)
  /\ Goto(p, "ret")
  /\ sched' = IF pending[p] # {} THEN sched
              ELSE ThreadYield([sched EXCEPT !.state[p] = "SLEEP"])
  /\ UNCHANGED <<ticks, waking, cont, pending, exiting, target, panicked>>

(* sys_waitpid yields until it finds the target DEAD.                       *)
SysWaitpid(p, t) ==
  /\ Calls(p)
  /\ <<p, t>> \in Waits
  /\ Goto(p, "wait")
  /\ target' = [target EXCEPT ![p] = t]
  /\ UNCHANGED <<sched, ticks, waking, cont, pending, exiting, panicked>>

(* Mutant of WaitLoop: the loop may go on with a state read before. *)
WaitLoopStale(p) ==
  /\ Runs(p, "wait")
  /\ sched' = ThreadYield(sched)
  /\ UNCHANGED <<ticks, waking, cont, pending, pc, exiting, target, panicked>>

WaitLoop(p) ==
  /\ Runs(p, "wait")
  /\ sched.state[target[p]] # "DEAD"
  /\ sched' = ThreadYield(sched)
  /\ UNCHANGED <<ticks, waking, cont, pending, pc, exiting, target, panicked>>

WaitDone(p) ==
  /\ Runs(p, "wait")
  /\ sched.state[target[p]] = "DEAD"
  /\ Goto(p, "ret")
  /\ target' = [target EXCEPT ![p] = NULL]
  /\ UNCHANGED <<sched, ticks, waking, cont, pending, exiting, panicked>>

-----------------------------------------------------------------------------

(* A file, pipe or ipc system call, and sys_exit, which first closes the    *)
(* open files: both sleep and wake on channels before they finish.          *)
EnterKernel(p) ==
  /\ Calls(p)
  /\ Goto(p, "kernel")
  /\ UNCHANGED <<sched, ticks, waking, cont, pending, exiting, target,
                 panicked>>

SysExit(p) ==
  /\ Calls(p)
  /\ Goto(p, "kernel")
  /\ exiting' = exiting \cup {p}
  /\ UNCHANGED <<sched, ticks, waking, cont, pending, target, panicked>>

Sleep(p, c) ==
  /\ Runs(p, "kernel")
  /\ Goto(p, "asleep")
  /\ sched' = ThreadSleep(sched, c)
  /\ UNCHANGED <<ticks, waking, cont, pending, exiting, target, panicked>>

Resume(p) ==
  /\ Runs(p, "asleep")
  /\ Goto(p, "kernel")
  /\ sched' = TidyUp(sched)
  /\ UNCHANGED <<ticks, waking, cont, pending, exiting, target, panicked>>

Wakeup(p, c) ==
  /\ Runs(p, "kernel")
  /\ waking' = Waking(c)
  /\ UNCHANGED <<sched, ticks, cont, pending, pc, exiting, target, panicked>>

LeaveKernel(p) ==
  /\ Runs(p, "kernel")
  /\ p \notin exiting
  /\ Goto(p, "ret")
  /\ UNCHANGED <<sched, ticks, waking, cont, pending, exiting, target,
                 panicked>>

(* The rest of sys_exit, once the files are closed; thread_exit does not    *)
(* return, and a thread that were scheduled again would do so here.         *)
ExitDone(p) ==
  /\ Runs(p, "kernel")
  /\ p \in exiting
  /\ sched' = ThreadExit(Terminate(sched, p))
  /\ pending' = [pending EXCEPT ![p] = {}]
  /\ cont' = Refund(cont, cont.parent[p], cont.quota[p])
  /\ Goto(p, "ret")
  /\ exiting' = exiting \ {p}
  /\ UNCHANGED <<ticks, waking, target, panicked>>

(* The end of trap(): handle_pending_signals takes the lowest pending       *)
(* signal.  What deliver_signal does to the user context is in Signals.     *)
TrapReturn(p) ==
  /\ Runs(p, "ret")
  /\ Goto(p, "user")
  /\ \/ pending[p] = {} /\ UNCHANGED <<sched, pending>>
     \/ \E sig \in pending[p] :
          /\ \A j \in pending[p] : sig <= j
          /\ IF sig = SIGKILL
             THEN /\ sched' = ThreadExit(Terminate(sched, p))
                  /\ pending' = [pending EXCEPT ![p] = {}]
             ELSE /\ pending' = [pending EXCEPT ![p] = @ \ {sig}]
                  /\ UNCHANGED sched
  /\ UNCHANGED <<ticks, waking, cont, exiting, target, panicked>>

(* After KERN_PANIC nothing happens any more.                               *)
Halted == panicked /\ UNCHANGED vars

-----------------------------------------------------------------------------

Interrupt(p) ==
  \/ Timer(p) \/ OtherIntr(p) \/ Exception(p)
  \/ \E c \in Chans : IdeIntr(p, c)
  \/ \E need \in 1 .. 2, found \in 0 .. 2 : PageFault(p, need, found)

Syscall(p) ==
  \/ \E n \in Quotas, known \in BOOLEAN : SysSpawn(p, n, known)
  \/ SysYield(p)
  \/ \E v \in Ids, sig \in Sigs : SysKill(p, v, sig)
  \/ SysPause(p)
  \/ \E t \in Ids : SysWaitpid(p, t)
  \/ EnterKernel(p)
  \/ SysExit(p)

Kernel(p) ==
  \/ WaitLoop(p) \/ WaitDone(p)
  \/ \E c \in Chans : Sleep(p, c) \/ Wakeup(p, c)
  \/ Resume(p) \/ LeaveKernel(p) \/ ExitDone(p)
  \/ TrapReturn(p)

Next ==
  \/ \E p \in Ids : Interrupt(p) \/ Syscall(p) \/ Kernel(p)
  \/ WakeStep
  \/ Halted

Spec == Init /\ [][Next]_vars
-----------------------------------------------------------------------------

(* No program sends a signal to idle; none sends one to itself.             *)
NoIdleKill == \A p \in Ids : <<p, IDLE>> \notin Kills
NoSelfKill == \A p \in Ids : <<p, p>> \notin Kills

(* No program asks sys_spawn for a quota that makes the addition of         *)
(* container_can_consume wrap.                                              *)
NoWrap == \A n \in Quotas : REAL_QUOTA + n < WORD

(* The ready queue and the thread states agree: the queue is a well-formed  *)
(* list of exactly the READY processes, at most the running process is RUN, *)
(* and a SLEEPing process has the channel thread_wakeup will find it by.    *)
SchedOK == SchedConsistent(sched, Procs)

(* thread_sleep assumes that "a new ready process always exists"            *)
(* (PThread.c:159): the kernel never switches to thread NULL.               *)
AlwaysSomeoneToRun == sched.cur # NULL

(* The idle process is always alive, as thread_exit's fall back assumes.    *)
IdleAlive == sched.state[IDLE] \in {"READY", "RUN"}

(* A process that was killed or has exited is never scheduled again: DEAD   *)
(* is for ever.  sys_waitpid and the quota refund rely on it.               *)
DeadForever ==
  [][\A p \in Procs : sched.state[p] = "DEAD" => sched'.state[p] = "DEAD"]_vars

(* When thread_wakeup's loop ends, no thread sleeps on its channel any      *)
(* more, whatever the loop enqueued on the way.                             *)
WakeupComplete ==
  [][waking # NotWaking /\ waking' = NotWaking
       => \A p \in Procs : ~ /\ sched'.state[p] = "SLEEP"
                             /\ sched'.chan[p] = waking.chan]_vars

(* SIGKILL is never left pending (the SIGKILL branch of                     *)
(* handle_pending_signals is dead code), and a DEAD process has no pending  *)
(* signal.                                                                  *)
SignalsOK ==
  /\ \A p \in Ids : SIGKILL \notin pending[p]
  /\ \A p \in Procs : sched.state[p] = "DEAD" => pending[p] = {}

(* container_split never hands out the container of an existing process:    *)
(* when sys_spawn's checks pass, the next child is unused.                  *)
NextChildFresh ==
  \A p \in Procs :
    /\ NUM_IDS >= p * MAX_CHILDREN + 1 + MAX_CHILDREN
    /\ cont.nchildren[p] # MAX_CHILDREN
    => NextChild(cont, p) \in Ids /\ ~cont.used[NextChild(cont, p)]

(* No process is charged for more pages than its quota.                     *)
UsageWithinQuota == \A p \in Procs : cont.usage[p] <= cont.quota[p]

(* The processes that are not DEAD.                                         *)
Living == {p \in Procs : sched.state[p] # "DEAD"}

(* A parent stays charged for the quotas of all its children that are not   *)
(* DEAD: a refund never returns pages that a living child may still use.    *)
(* And no process is charged for more pages than its quota.                 *)
ChildrenCharged ==
  \A p \in Procs : /\ cont.usage[p] <= cont.quota[p]
                   /\ ChildSum(cont, Living, p) <= cont.usage[p]
=============================================================================
