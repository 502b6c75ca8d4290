----------------------------- MODULE ReadyQueue ------------------------------
(***************************************************************************)
(* The linked ready queue of PThread seen as a sequence, and the run queue *)
(* it implements.                                                          *)
(***************************************************************************)
EXTENDS Proc, Sequences

(* The thread after p, and the threads of the queue in that order.          *)
After(q, p) == IF p = NULL THEN NULL ELSE q.next[p]

Links(q) ==
  LET at[i \in 1 .. NUM_IDS] == IF i = 1 THEN q.head ELSE After(q, at[i - 1])
  IN  at

Ends(at, n) == (n = 0 \/ at[n] # NULL) /\ (n = NUM_IDS \/ at[n + 1] = NULL)

QueueList(q) ==
  LET at == Links(q)
      n == CHOOSE k \in 0 .. NUM_IDS : Ends(at, k)
  IN  [i \in 1 .. n |-> at[i]]

RQ == INSTANCE RunQueue WITH Threads <- Ids \ {0}, First <- SHELL,
                             Idle <- IDLE, ready <- QueueList(sched.q),
                             running <- sched.cur

(* The linked ready queue and the scheduler functions implement the         *)
(* first-in first-out run queue.                                            *)
FifoScheduling == RQ!RQSpec
=============================================================================
