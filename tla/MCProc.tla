------------------------------- MODULE MCProc --------------------------------
(***************************************************************************)
(* Proc for TLC: pids 0 .. 6 with two children per process, so the shell,  *)
(* 2, has room for the children 5 and 6, and 3 and 4 are never created.    *)
(***************************************************************************)
EXTENDS ReadyQueue

(* Nobody kills idle or itself. *)
MCKills == {<<2, 5>>, <<5, 2>>}

(* The shell waits for its first child.                                     *)
MCWaitChild == {<<2, 5>>}

(* The fairness of the hardware and of the code.  The timer is periodic: it *)
(* interrupts user mode again and again if user mode is entered again and   *)
(* again.  The body of a system call ends or sleeps after finitely many     *)
(* wake-ups.  All other kernel code runs to its end.  Nobody need make a    *)
(* system call, and no sleeper need be woken.                               *)
Fairness ==
  /\ SF_vars(\E p \in Ids : Timer(p))
  /\ SF_vars(\E p \in Ids : LeaveKernel(p) \/ ExitDone(p))
  /\ WF_vars(\/ WakeStep
             \/ \E p \in Ids : WaitLoop(p) \/ WaitDone(p) \/ Resume(p)
                               \/ TrapReturn(p))

FairSpec == Spec /\ Fairness

(* thread_yield's round robin starves nobody: a READY process runs again,   *)
(* or is killed, unless the kernel panics.                                  *)
ReadyRuns ==
  \A p \in Ids \ {0} :
    (p \in Procs /\ sched.state[p] = "READY")
      ~> (sched.state[p] \in {"RUN", "DEAD"} \/ panicked)

(* The busy wait of sys_waitpid notices the death of its target: it ends,   *)
(* unless the waiter is killed or the kernel panics.                        *)
WaitReturns ==
  \A w \in Waits :
    (pc[w[1]] = "wait" /\ target[w[1]] = w[2] /\ sched.state[w[2]] = "DEAD")
      ~> (pc[w[1]] # "wait" \/ sched.state[w[1]] = "DEAD" \/ panicked)

=============================================================================
