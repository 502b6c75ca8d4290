------------------------------- MODULE PTQueue -------------------------------
(***************************************************************************)
(* The thread queue of kern/thread/PTQueueInit: an index-based doubly      *)
(* linked list threaded through the prev/next fields of the thread control *)
(* blocks.  The scheduler uses one queue, TQueuePool[cpu][NUM_IDS], the    *)
(* ready queue; a queue is a record                                        *)
(*                                                                         *)
(*   [head, tail : Ids \cup {NULL}, prev, next : [Ids -> Ids \cup {NULL}]] *)
(*                                                                         *)
(* The operations are operators from queue to queue, so that a scheduler   *)
(* function that performs several of them is one action.                   *)
(***************************************************************************)
EXTENDS Params

QueueType == [head : Ids \cup {NULL}, tail : Ids \cup {NULL},
              prev : [Ids -> Ids \cup {NULL}],
              next : [Ids -> Ids \cup {NULL}]]

-----------------------------------------------------------------------------

(* Mutant of Enqueue: p is put in front of the head. *)
EnqueueAtHead(q, p) ==
  IF q.head = NULL
  THEN [head |-> p, tail |-> p,
        prev |-> [q.prev EXCEPT ![p] = NULL],
        next |-> [q.next EXCEPT ![p] = NULL]]
  ELSE [head |-> p, tail |-> q.tail,
        prev |-> [q.prev EXCEPT ![q.head] = p, ![p] = NULL],
        next |-> [q.next EXCEPT ![p] = q.head]]

(* tqueue_enqueue: append p at the tail. *)
Enqueue(q, p) ==
  IF q.tail = NULL
  THEN [head |-> p, tail |-> p,
        prev |-> [q.prev EXCEPT ![p] = NULL],
        next |-> [q.next EXCEPT ![p] = NULL]]
  ELSE [head |-> q.head, tail |-> p,
        prev |-> [q.prev EXCEPT ![p] = q.tail],
        next |-> [q.next EXCEPT ![q.tail] = p, ![p] = NULL]]

(* Mutant of Dequeue: the rest of the queue is dropped with its head. *)
DequeueAll(q) == [q EXCEPT !.head = NULL, !.tail = NULL]

(* tqueue_dequeue returns the thread at the head, NULL when the queue is    *)
(* empty (then it changes nothing).                                         *)
Dequeue(q) ==
  IF q.head = NULL
  THEN q
  ELSE IF q.next[q.head] = NULL
  THEN [head |-> NULL, tail |-> NULL,
        prev |-> [q.prev EXCEPT ![q.head] = NULL],
        next |-> [q.next EXCEPT ![q.head] = NULL]]
  ELSE [head |-> q.next[q.head], tail |-> q.tail,
        prev |-> [q.prev EXCEPT ![q.next[q.head]] = NULL, ![q.head] = NULL],
        next |-> [q.next EXCEPT ![q.head] = NULL]]

(* tqueue_remove: unlink p.  A thread with no links that is not the head is *)
(* taken to be in no queue; every other combination of links is unlinked    *)
(* whether or not p really is in this queue.                                *)
Detached(q, p) == q.prev[p] = NULL /\ q.next[p] = NULL /\ q.head # p

(* Mutant of Remove: p keeps its own links. *)
RemoveKeepingLinks(q, p) ==
  LET pv == q.prev[p]
      nx == q.next[p]
  IN  IF Detached(q, p)
      THEN q
      ELSE [head |-> IF pv = NULL THEN nx ELSE q.head,
            tail |-> IF pv = NULL
                     THEN IF nx = NULL THEN NULL ELSE q.tail
                     ELSE IF nx = NULL THEN pv ELSE q.tail,
            prev |-> [i \in Ids |-> IF i = nx THEN pv ELSE q.prev[i]],
            next |-> [i \in Ids |-> IF i = pv THEN nx ELSE q.next[i]]]

Remove(q, p) ==
  LET pv == q.prev[p]
      nx == q.next[p]
  IN  IF Detached(q, p)
      THEN q
      ELSE [head |-> IF pv = NULL THEN nx ELSE q.head,
            tail |-> IF pv = NULL
                     THEN IF nx = NULL THEN NULL ELSE q.tail
                     ELSE IF nx = NULL THEN pv ELSE q.tail,
            prev |-> [i \in Ids |-> IF i = p THEN NULL
                                    ELSE IF i = nx THEN pv ELSE q.prev[i]],
            next |-> [i \in Ids |-> IF i = p THEN NULL
                                    ELSE IF i = pv THEN nx ELSE q.next[i]]]

-----------------------------------------------------------------------------

(* p is linked into the queue. *)
InQueue(q, p) == q.head = p \/ q.prev[p] # NULL

(* The list structure the operations rely on, for the threads S whose       *)
(* control blocks are in use: links stay inside S, next and prev mirror     *)
(* each other, and only the head has no predecessor and only the tail has   *)
(* no successor.                                                            *)
WellLinked(q, S) ==
  /\ q.head \in S \cup {NULL}
  /\ q.tail \in S \cup {NULL}
  /\ q.head = NULL <=> q.tail = NULL
  /\ q.head # NULL => q.prev[q.head] = NULL
  /\ q.tail # NULL => q.next[q.tail] = NULL /\ InQueue(q, q.tail)
  /\ \A p \in S :
       /\ q.prev[p] \in S \cup {NULL}
       /\ q.next[p] \in S \cup {NULL}
       /\ q.prev[p] # NULL => q.next[q.prev[p]] = p
       /\ q.next[p] # NULL => q.prev[q.next[p]] = p /\ InQueue(q, p)
       /\ InQueue(q, p) /\ q.next[p] = NULL => q.tail = p
=============================================================================
