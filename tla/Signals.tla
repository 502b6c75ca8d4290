------------------------------- MODULE Signals -------------------------------
(***************************************************************************)
(* Signal delivery (TTrapHandler.c, TSyscall.c, PTCBIntro.c): trap return  *)
(* pushes a frame on the user stack and enters the handler, the handler    *)
(* returns to a trampoline on that stack, the trampoline calls             *)
(* sys_sigreturn, which reloads what the frame saved.                      *)
(*                                                                         *)
(* A word of user memory is an address: positive for a word of the stack,  *)
(* negative for a place in the program.  One processor runs: whoever sends *)
(* a signal runs, so its target is inside a trap, or is new.               *)
(***************************************************************************)
EXTENDS Integers, Sequences, FiniteSets, TLC

CONSTANTS
  Procs,      \* processes
  First,      \* the process that runs first
  Sigs,       \* the signals sent, SIGKILL apart
  Catchers,   \* the processes that install handlers
  Killable,   \* the processes that SIGKILL may be sent to, by others
  Nested,     \* whether signals are sent to a process with one to handle
  MaxFrames   \* bound: signals in progress in one process

ASSUME SignalsAssumption ==
  /\ First \in Procs /\ Catchers \cup Killable \subseteq Procs
  /\ Sigs \subseteq Nat /\ Nested \in BOOLEAN
  /\ MaxFrames \in Nat \ {0}

VARIABLES
  cur,      \* the process that runs
  mode,     \* new, in user mode, inside a trap, or dead
  act,      \* sigactions: the signals with a handler
  pending,  \* pending_signals
  context,  \* saved_esp_addr and saved_eip_addr
  regs,     \* eip, esp and eax of the trap frame
  stack,    \* the words of the user stack
  frames    \* history: the registers interrupted by the handlers in progress

vars == <<cur, mode, act, pending, context, regs, stack, frames>>

MAIN == -1
FUNC == -2
HANDLER == -3
Code == {MAIN, FUNC, HANDLER}

MOV == -4     \* the trampoline: mov eax, SYS_sigreturn
INT == -5     \* int 0x30
JMP == -6     \* jmp to itself
Trampoline == <<MOV, INT, JMP>>

E_SUCC == 0
E_FAIL == 1
SYS_sigreturn == 2

FrameWords == 7
Top == FrameWords * MaxFrames + 3
Words == 1 .. Top
NoContext == [esp |-> 0, eip |-> 0]
Least(S) == CHOOSE i \in S : \A j \in S : i <= j

TypeOK ==
  /\ cur \in Procs
  /\ mode \in [Procs -> {"new", "user", "trap", "dead"}]
  /\ act \in [Procs -> SUBSET Sigs]
  /\ pending \in [Procs -> SUBSET Sigs]
  /\ context \in [Procs -> [esp : {0} \cup Words, eip : {0} \cup Words]]
  /\ regs \in [Procs -> [eip : Code \cup Words, esp : Words,
                         eax : {E_SUCC, E_FAIL, SYS_sigreturn}]]
  /\ stack \in [Procs -> [Words -> Code \cup {MOV, INT, JMP, 0} \cup Words \cup Sigs]]
  /\ \A p \in Procs : Len(frames[p]) <= MaxFrames

Init ==
  /\ cur = First
  /\ mode = [p \in Procs |-> IF p = First THEN "user" ELSE "new"]
  /\ act = [p \in Procs |-> {}]
  /\ pending = [p \in Procs |-> {}]
  /\ context = [p \in Procs |-> NoContext]
  /\ regs = [p \in Procs |-> [eip |-> MAIN, esp |-> Top, eax |-> E_SUCC]]
  /\ stack = [p \in Procs |-> [a \in Words |-> 0]]
  /\ frames = [p \in Procs |-> <<>>]

InUser(p) == cur = p /\ mode[p] = "user"

-----------------------------------------------------------------------------
(* The program: it calls a function that returns, and so does the handler. *)

Call(p) ==
  /\ InUser(p) /\ regs[p].eip = MAIN
  /\ regs' = [regs EXCEPT ![p].eip = FUNC, ![p].esp = @ - 1]
  /\ stack' = [stack EXCEPT ![p][regs[p].esp - 1] = MAIN]
  /\ UNCHANGED <<cur, mode, act, pending, context, frames>>

Ret(p) ==
  /\ InUser(p) /\ regs[p].eip \in {FUNC, HANDLER}
  /\ regs' = [regs EXCEPT ![p].eip = stack[p][regs[p].esp], ![p].esp = @ + 1]
  /\ UNCHANGED <<cur, mode, act, pending, context, stack, frames>>

(* The instruction of a trampoline that p is about to execute. *)
At(p, instr) == InUser(p) /\ regs[p].eip \in Words /\ stack[p][regs[p].eip] = instr

Mov(p) ==
  /\ At(p, MOV)
  /\ regs' = [regs EXCEPT ![p].eip = @ + 1, ![p].eax = SYS_sigreturn]
  /\ UNCHANGED <<cur, mode, act, pending, context, stack, frames>>

-----------------------------------------------------------------------------
(* Traps.  The body of a trap handler may give up the processor: the       *)
(* process then stays inside its trap until it is scheduled again.         *)

Switch == cur' \in {q \in Procs : mode'[q] \in {"trap", "new"}}

Timer(p) ==
  /\ InUser(p)
  /\ mode' = [mode EXCEPT ![p] = "trap"]
  /\ Switch
  /\ UNCHANGED <<act, pending, context, regs, stack, frames>>

(* Where a program makes system calls: its own code, or an int 0x30 of the  *)
(* trampoline with a number in eax that is not SYS_sigreturn's.             *)
Calls(p) ==
  \/ InUser(p) /\ regs[p].eip \in Code
  \/ At(p, INT) /\ regs[p].eax # SYS_sigreturn

NextEip(p) == IF regs[p].eip \in Code THEN regs[p].eip ELSE regs[p].eip + 1

(* Enter the kernel with a call that stores error e in eax. *)
Syscall(p, e) ==
  /\ regs' = [regs EXCEPT ![p].eip = NextEip(p), ![p].eax = e]
  /\ UNCHANGED <<stack, frames>>

(* A system call that has nothing to do with signals. *)
SysOther(p) ==
  /\ Calls(p)
  /\ mode' = [mode EXCEPT ![p] = "trap"]
  /\ \E e \in {E_SUCC, E_FAIL} : Syscall(p, e)
  /\ Switch
  /\ UNCHANGED <<act, pending, context>>

(* sys_sigaction: a handler, or NULL for none. *)
SysSigaction(p, s) ==
  /\ Calls(p) /\ p \in Catchers
  /\ mode' = [mode EXCEPT ![p] = "trap"]
  /\ \E h \in BOOLEAN :
       act' = [act EXCEPT ![p] = IF h THEN @ \cup {s} ELSE @ \ {s}]
  /\ Syscall(p, E_SUCC)
  /\ UNCHANGED <<cur, pending, context>>

(* What senders wait for where signals do not nest. *)
MaySend(q) ==
  /\ Nested \/ (frames[q] = <<>> /\ pending[q] = {})
  /\ Len(frames[q]) + Cardinality(pending[q]) < MaxFrames

SysKill(p, q, s) ==
  /\ Calls(p)
  /\ mode' = [mode EXCEPT ![p] = "trap"]
  /\ \/ /\ mode[q] = "dead"
        /\ Syscall(p, E_FAIL)
        /\ UNCHANGED pending
     \/ /\ mode[q] # "dead" /\ MaySend(q)
        /\ Syscall(p, E_SUCC)
        /\ pending' = [pending EXCEPT ![q] = @ \cup {s}]
  /\ UNCHANGED <<cur, act, context>>

SysKillKill(p, q) ==
  /\ Calls(p) /\ q # p /\ mode[q] # "dead"
  /\ mode' = [mode EXCEPT ![p] = "trap", ![q] = "dead"]
  /\ pending' = [pending EXCEPT ![q] = {}]
  /\ Syscall(p, E_SUCC)
  /\ UNCHANGED <<cur, act, context>>

(* sys_sigreturn, which fails if fails, and otherwise resumes at eip.       *)
SigreturnWith(p, fails, eip) ==
  /\ At(p, INT) /\ regs[p].eax = SYS_sigreturn
  /\ mode' = [mode EXCEPT ![p] = "trap"]
  /\ \/ fails /\ Syscall(p, E_FAIL) /\ UNCHANGED context
     \/ /\ ~fails
        /\ context' = [context EXCEPT ![p] = NoContext]
        /\ regs' = [regs EXCEPT ![p] = [eip |-> eip, eax |-> E_SUCC,
                                        esp |-> stack[p][context[p].esp]]]
        /\ frames' = [frames EXCEPT ![p] = SubSeq(@, 1, Len(@) - 1)]
        /\ UNCHANGED stack
  /\ UNCHANGED <<cur, act, pending>>

SysSigreturnInverted(p) ==
  SigreturnWith(p, context[p] # NoContext, stack[p][context[p].eip])

SysSigreturn(p) ==
  SigreturnWith(p, context[p].esp = 0 \/ context[p].eip = 0,
                stack[p][context[p].eip])

-----------------------------------------------------------------------------
(* Trap return. *)

(* deliver_signal pushes its frame below address e.  From the top: the      *)
(* saved eip and esp, the trampoline, the signal number, the trampoline's   *)
(* address as return address.                                               *)
Pushed(p, s, e) ==
  [a \in {e - 1} |-> regs[p].eip] @@ [a \in {e - 2} |-> regs[p].esp]
    @@ [a \in e - 5 .. e - 3 |-> Trampoline[a - e + 6]]
    @@ [a \in {e - 6} |-> s] @@ [a \in {e - 7} |-> e - 5]

EnterHandler(p, s, e, saved) ==
  /\ stack' = [stack EXCEPT ![p] = Pushed(p, s, e) @@ @]
  /\ regs' = [regs EXCEPT ![p].esp = e - FrameWords, ![p].eip = HANDLER]
  /\ context' = [context EXCEPT ![p] = saved]
  /\ frames' = [frames EXCEPT ![p] = Append(@, regs[p])]

DeliverSwapped(p, s) ==
  LET e == regs[p].esp
  IN  EnterHandler(p, s, e, [esp |-> e - 1, eip |-> e - 2])

DeliverSignal(p, s) ==
  LET e == regs[p].esp
  IN  EnterHandler(p, s, e, [esp |-> e - 2, eip |-> e - 1])

HandleWith(p, next) ==
  IF pending[p] = {}
  THEN UNCHANGED <<pending, context, regs, stack, frames>>
  ELSE LET s == Least(pending[p])
       IN  /\ pending' = [pending EXCEPT ![p] = next[s]]
           /\ IF s \in act[p]
              THEN DeliverSignal(p, s)
              ELSE UNCHANGED <<context, regs, stack, frames>>

HandleCaught(p) ==
  HandleWith(p, [s \in Sigs |-> pending[p] \ ({s} \cap act[p])])

(* The lowest pending signal, and no other, is cleared and delivered.       *)
HandlePendingSignals(p) == HandleWith(p, [s \in Sigs |-> pending[p] \ {s}])

TrapReturn(p) ==
  /\ cur = p /\ mode[p] = "trap"
  /\ mode' = [mode EXCEPT ![p] = "user"]
  /\ HandlePendingSignals(p)
  /\ UNCHANGED <<cur, act>>

(* proc_start_user: the first return to user mode handles no signals. *)
Start(p) ==
  /\ cur = p /\ mode[p] = "new"
  /\ mode' = [mode EXCEPT ![p] = "user"]
  /\ UNCHANGED <<cur, act, pending, context, regs, stack, frames>>

-----------------------------------------------------------------------------

Next ==
  \E p \in Procs :
    \/ Call(p) \/ Ret(p) \/ Mov(p)
    \/ Timer(p) \/ SysOther(p) \/ SysSigreturn(p)
    \/ \E s \in Sigs : SysSigaction(p, s) \/ \E q \in Procs : SysKill(p, q, s)
    \/ \E q \in Killable : SysKillKill(p, q)
    \/ TrapReturn(p) \/ Start(p)

Spec == Init /\ [][Next]_vars

(* Handlers end, trampolines run, kernel code runs to its end, and round    *)
(* robin on timer ticks gives everybody the processor.                      *)
Fairness ==
  \A p \in Procs :
    /\ WF_vars(TrapReturn(p) \/ Start(p))
    /\ SF_vars(\E q \in Procs : Timer(q) /\ cur' = p)
    /\ SF_vars(\/ regs[p].eip = HANDLER /\ Ret(p)
               \/ Mov(p) \/ SysSigreturn(p))

FairSpec == Spec /\ Fairness

-----------------------------------------------------------------------------

(* A handler or function that is about to return finds its return address   *)
(* on the stack: frames are pushed below everything in use, and a           *)
(* trampoline stays whole as long as something returns to it.  While a      *)
(* handler is in progress, the TCB says where on the stack the context it   *)
(* interrupted is, and it is there: "sys_sigreturn() restores saved         *)
(* register context after returning from a user-space signal handler"       *)
(* (README.md:153).                                                         *)
ContextKept ==
  /\ TypeOK
  /\ \A p \in Procs :
       LET top == stack[p][regs[p].esp]
       IN  /\ regs[p].eip = FUNC => top = MAIN
           /\ regs[p].eip = HANDLER =>
                /\ top \in Words
                /\ SubSeq(stack[p], top, top + 2) = Trampoline
  /\ \A p \in Procs : frames[p] # <<>> =>
       LET f == frames[p][Len(frames[p])]
       IN  /\ context[p] # NoContext
           /\ stack[p][context[p].eip] = f.eip
           /\ stack[p][context[p].esp] = f.esp

(* A handler returns to the program it interrupted, unless its process is   *)
(* killed.                                                                  *)
HandlersReturn ==
  \A p \in Procs :
    regs[p].eip = HANDLER ~> (regs[p].eip \in {MAIN, FUNC} \/ mode[p] = "dead")

(* A pending signal is handled once no lower-numbered one keeps coming: it  *)
(* waits for nothing but the next traps of its process.                     *)
PendingHandled ==
  \A p \in Procs, s \in Sigs :
    <>[](\A r \in pending[p] : r >= s)
      => (s \in pending[p] ~> s \notin pending[p])
=============================================================================
