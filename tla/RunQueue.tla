------------------------------ MODULE RunQueue -------------------------------
(***************************************************************************)
(* What the scheduler promises: a running thread and a first-in first-out  *)
(* sequence of distinct ready threads.  PThread's linked list implements   *)
(* the sequence.                                                           *)
(***************************************************************************)
EXTENDS Naturals, Sequences

CONSTANTS Threads, First, Idle

VARIABLES ready, running

rqVars == <<ready, running>>

InReady(t) == \E i \in 1 .. Len(ready) : ready[i] = t

RQInit == ready = <<Idle>> /\ running = First

(* A new or a woken thread joins at the end. *)
Arrive(t) ==
  /\ UNCHANGED running
  /\ ~InReady(t) /\ t # running
  /\ ready' = Append(ready, t)

(* The running thread goes to the end, the longest-waiting thread runs. *)
Rotate ==
  /\ running' = Head(Append(ready, running))
  /\ ready' = Tail(Append(ready, running))

(* The running thread sleeps or exits: the longest-waiting thread runs. *)
Leave ==
  /\ ready # <<>>
  /\ running' = Head(ready)
  /\ ready' = Tail(ready)

(* A ready thread is killed; the others keep their order. *)
Drop(t) ==
  /\ UNCHANGED running
  /\ \E i \in 1 .. Len(ready) :
       /\ ready[i] = t
       /\ ready' = [k \in 1 .. Len(ready) - 1 |-> IF k < i THEN ready[k] ELSE ready[k + 1]]

RQNext ==
  \/ \E t \in Threads : Arrive(t) \/ Drop(t)
  \/ Rotate
  \/ Leave

RQSpec == RQInit /\ [][RQNext]_rqVars
=============================================================================
