------------------------------- MODULE PThread -------------------------------
(***************************************************************************)
(* The scheduler of kern/thread/PThread on the one processor the kernel    *)
(* boots.  Its state is a record                                           *)
(*                                                                         *)
(*   [q : the ready queue, state, chan : per thread, cur : running thread] *)
(*                                                                         *)
(* and each scheduler function is an operator from record to record.       *)
(* sched_lk is taken and released inside one function, with interrupts     *)
(* disabled, so a function is one atomic step.                             *)
(***************************************************************************)
EXTENDS PTQueue

CONSTANTS Chans,        \* sleep channels: addresses of kernel objects
          NoChan        \* the null channel

ASSUME ChanAssumption == NoChan \notin Chans

States == {"READY", "RUN", "SLEEP", "DEAD"}

IDLE == 1               \* user/idle, the first process kern_main creates

SchedType == [q : QueueType, state : [Ids -> States],
              chan : [Ids -> Chans \cup {NoChan}], cur : Ids \cup {NULL}]

-----------------------------------------------------------------------------

(* tcb_init, tqueue_init and thread_init.  tcb_init calls tcb_init_at_id    *)
(* with one argument where the function takes (cpu_idx, pid), so the pid    *)
(* initialised is whatever the stack holds, the same slot for every call:   *)
(* g, or NULL when it is no thread.  All other control blocks keep the      *)
(* zeroes of the BSS: state 0 (READY), links 0.                             *)
ThreadInit(g) ==
  [q     |-> [head |-> NULL, tail |-> NULL,
              prev |-> [p \in Ids |-> IF p = g THEN NULL ELSE 0],
              next |-> [p \in Ids |-> IF p = g THEN NULL ELSE 0]],
   state |-> [p \in Ids |-> IF p = 0 THEN "RUN"
                            ELSE IF p = g THEN "DEAD" ELSE "READY"],
   chan  |-> [p \in Ids |-> NoChan],
   cur   |-> 0]

ThreadSpawn(s, p) ==
  [q     |-> Enqueue(s.q, p),
   state |-> [s.state EXCEPT ![p] = "READY"],
   chan  |-> s.chan,
   cur   |-> s.cur]

(* Make n the running thread.  When n is NULL the code writes beyond the    *)
(* TCB pool and switches to a context that does not exist.                  *)
SwitchTo(s, n) ==
  [q     |-> s.q,
   state |-> [s.state EXCEPT ![n] = "RUN"],
   chan  |-> s.chan,
   cur   |-> n]

Dequeued(s) ==
  [q |-> Dequeue(s.q), state |-> s.state, chan |-> s.chan, cur |-> s.cur]

ThreadYield(s) ==
  LET t == ThreadSpawn(s, s.cur)
  IN  SwitchTo(Dequeued(t), t.q.head)

ThreadExit(s) ==
  SwitchTo(Dequeued(s), IF s.q.head = NULL THEN IDLE ELSE s.q.head)

(* thread_sleep up to its context switch ...                                *)
ThreadSleep(s, c) ==
  LET t == [q     |-> s.q,
            state |-> [s.state EXCEPT ![s.cur] = "SLEEP"],
            chan  |-> [s.chan EXCEPT ![s.cur] = c],
            cur   |-> s.cur]
  IN  SwitchTo(Dequeued(t), t.q.head)

(* ... and its tail, once the sleeper runs again.                           *)
TidyUp(s) ==
  [q |-> s.q, state |-> s.state, chan |-> [s.chan EXCEPT ![s.cur] = NoChan],
   cur |-> s.cur]

(* One iteration of the loop of thread_wakeup, and the whole loop.          *)
WakeOne(s, c, p) ==
  IF s.chan[p] = c /\ s.state[p] = "SLEEP"
  THEN [q     |-> Enqueue(s.q, p),
        state |-> [s.state EXCEPT ![p] = "READY"],
        chan  |-> [s.chan EXCEPT ![p] = NoChan],
        cur   |-> s.cur]
  ELSE s

ThreadWakeup(s, c) ==
  LET woken[p \in Ids] ==        \* after the iterations 1 .. p
        IF p = 0 THEN s ELSE WakeOne(woken[p - 1], c, p)
  IN  woken[NUM_IDS - 1]

(* Mutant of Terminate: p stays in the ready queue. *)
TerminateInQueue(s, p) ==
  [q     |-> s.q,
   state |-> [s.state EXCEPT ![p] = "DEAD"],
   chan  |-> s.chan,
   cur   |-> s.cur]

(* tcb_set_state(p, DEAD) and tqueue_remove, as sys_exit, sys_kill and      *)
(* terminate_process perform them.                                          *)
Terminate(s, p) ==
  [q     |-> Remove(s.q, p),
   state |-> [s.state EXCEPT ![p] = "DEAD"],
   chan  |-> s.chan,
   cur   |-> s.cur]

-----------------------------------------------------------------------------

(* What the queue and the thread states of the processes S say together.    *)
SchedConsistent(s, S) ==
  /\ WellLinked(s.q, S)
  /\ \A p \in S : InQueue(s.q, p) <=> s.state[p] = "READY"
  /\ \A p \in S : s.state[p] = "RUN" => p = s.cur
  /\ s.cur # NULL => s.cur \in S /\ s.state[s.cur] \in {"RUN", "DEAD"}
  /\ \A p \in S : s.state[p] = "SLEEP" => s.chan[p] # NoChan
=============================================================================
