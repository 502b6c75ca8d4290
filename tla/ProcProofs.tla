----------------------------- MODULE ProcProofs ------------------------------
(***************************************************************************)
(* The inductive invariant IInv of Proc, for every number of processes,    *)
(* channels and signals and every quota.  First what the operators Proc is *)
(* built from preserve: the queue operations keep the queue a list, the    *)
(* scheduler functions keep the queue and the thread states consistent,    *)
(* and the container functions keep the tree of quotas.  Then one lemma    *)
(* per action, and the theorems that follow from IInv alone.               *)
(***************************************************************************)
EXTENDS Proc, Integers, WellFoundedInduction, TLAPS

(* r numbers the threads of the queue one by one from the head to the tail; *)
(* in particular the links form no ring the head does not reach.            *)
Numbers(r, q, S) ==
  \A p \in S : InQueue(q, p) =>
    /\ q.head # NULL
    /\ r[q.head] <= r[p] /\ r[p] <= r[q.tail]
    /\ q.next[p] # NULL => r[q.next[p]] = r[p] + 1
    /\ \A x \in S : InQueue(q, x) /\ r[x] = r[p] => x = p

Ranked(q, S) == \E r \in [Ids -> Int] : Numbers(r, q, S)

ListOK(q, S) == q \in QueueType /\ WellLinked(q, S) /\ Ranked(q, S)

LEMMA NullNotId == NULL \notin Ids
BY NumIdsAssumption DEF NULL, Ids

LEMMA EnqueueType ==
  ASSUME NEW q \in QueueType, NEW p \in Ids
  PROVE  Enqueue(q, p) \in QueueType
BY Zenon DEF Enqueue, QueueType

LEMMA DequeueType ==
  ASSUME NEW q \in QueueType
  PROVE  Dequeue(q) \in QueueType
BY Zenon, NullNotId DEF Dequeue, QueueType

LEMMA RemoveType ==
  ASSUME NEW q \in QueueType, NEW p \in Ids
  PROVE  Remove(q, p) \in QueueType
BY Zenon DEF Remove, QueueType

(* tqueue_enqueue of a thread that is in no queue appends it: the queue     *)
(* stays well linked and holds one thread more.                             *)
LEMMA EnqueueLinks ==
  ASSUME NEW S \in SUBSET Ids, NEW q \in QueueType, WellLinked(q, S),
         NEW p \in Ids, p \in S => ~InQueue(q, p)
  PROVE  /\ WellLinked(Enqueue(q, p), S \cup {p})
         /\ \A x \in S \cup {p} :
              InQueue(Enqueue(q, p), x) <=> x = p \/ (x \in S /\ InQueue(q, x))
<1>1. CASE q.tail = NULL
  BY <1>1, NullNotId DEF Enqueue, QueueType, WellLinked, InQueue
<1>2. CASE q.tail # NULL
  BY <1>2, NullNotId DEF Enqueue, QueueType, WellLinked, InQueue
<1> QED BY Zenon, <1>1, <1>2

(* tqueue_dequeue of a non-empty queue unlinks its head, and only that.     *)
LEMMA DequeueLinks ==
  ASSUME NEW S \in SUBSET Ids, NEW q \in QueueType, WellLinked(q, S),
         q.head # NULL
  PROVE  /\ WellLinked(Dequeue(q), S)
         /\ \A x \in S : InQueue(Dequeue(q), x) <=> InQueue(q, x) /\ x # q.head
<1>1. CASE q.next[q.head] = NULL
  BY SMTT(30), <1>1, NullNotId DEF Dequeue, QueueType, WellLinked, InQueue
<1>2. CASE q.next[q.head] # NULL
  BY SMTT(30), <1>2, NullNotId DEF Dequeue, QueueType, WellLinked, InQueue
<1> QED BY Zenon, <1>1, <1>2

(* tqueue_remove of a thread of S unlinks it, and only that; it does        *)
(* nothing when the thread is in no queue.                                  *)
LEMMA RemoveLinks ==
  ASSUME NEW S \in SUBSET Ids, NEW q \in QueueType, WellLinked(q, S),
         NEW p \in S
  PROVE  /\ WellLinked(Remove(q, p), S)
         /\ \A x \in S : InQueue(Remove(q, p), x) <=> InQueue(q, x) /\ x # p
<1> DEFINE r == Remove(q, p)
<1> SUFFICES /\ WellLinked(r, S)
             /\ \A x \in S : InQueue(r, x) <=> InQueue(q, x) /\ x # p
  BY Zenon
<1>1. CASE Detached(q, p)
  <2>1. r = q
    BY Zenon, <1>1 DEF Remove
  <2>2. ~InQueue(q, p)
    BY Zenon, <1>1 DEF Detached, InQueue
  <2> QED BY Zenon, <2>1, <2>2
<1>2. CASE ~Detached(q, p)
  <2>1. InQueue(q, p)
    BY Zenon, <1>2 DEF Detached, WellLinked, InQueue
  <2>2. /\ r.head = IF q.prev[p] = NULL THEN q.next[p] ELSE q.head
        /\ r.tail = IF q.prev[p] = NULL
                    THEN IF q.next[p] = NULL THEN NULL ELSE q.tail
                    ELSE IF q.next[p] = NULL THEN q.prev[p] ELSE q.tail
        /\ \A x \in Ids :
             /\ r.prev[x] = IF x = p THEN NULL
                            ELSE IF x = q.next[p] THEN q.prev[p] ELSE q.prev[x]
             /\ r.next[x] = IF x = p THEN NULL
                            ELSE IF x = q.prev[p] THEN q.next[p] ELSE q.next[x]
    BY Zenon, <1>2 DEF Remove
  <2> HIDE DEF r
  <2>3. CASE q.prev[p] = NULL
    <3>1. q.head = p
      BY Zenon, <2>1, <2>3 DEF InQueue
    <3>2. CASE q.next[p] = NULL
      BY SMTT(30), <2>1, <2>2, <2>3, <3>1, <3>2, NullNotId
         DEF WellLinked, InQueue
    <3>3. CASE q.next[p] # NULL
      BY SMTT(30), <2>1, <2>2, <2>3, <3>1, <3>3, NullNotId DEF WellLinked, InQueue
    <3> QED BY Zenon, <3>2, <3>3
  <2>4. CASE q.prev[p] # NULL
    <3>1. q.head # p
      BY Zenon, <2>4, NullNotId DEF WellLinked
    <3>2. CASE q.next[p] = NULL
      BY SMTT(30), <2>1, <2>2, <2>4, <3>1, <3>2, NullNotId
         DEF WellLinked, InQueue
    <3>3. CASE q.next[p] # NULL
      BY SMTT(30), <2>1, <2>2, <2>4, <3>1, <3>3, NullNotId
         DEF WellLinked, InQueue
    <3> QED BY Zenon, <3>2, <3>3
  <2> QED BY Zenon, <2>3, <2>4
<1> QED BY Zenon, <1>1, <1>2

(* A control block outside S has either no links, or the zero links of the  *)
(* BSS, which lead to thread 0, itself outside S.                           *)
StrayLinks(q, p) ==
  \/ q.prev[p] = NULL /\ q.next[p] = NULL
  \/ q.prev[p] = 0 /\ q.next[p] = 0

(* tqueue_remove of a thread that was never created leaves the queue of the *)
(* processes S alone.                                                       *)
LEMMA RemoveStray ==
  ASSUME NEW S \in SUBSET (Ids \ {0}), NEW q \in QueueType, WellLinked(q, S),
         NEW p \in Ids \ S, StrayLinks(q, p)
  PROVE  /\ WellLinked(Remove(q, p), S)
         /\ \A x \in S : InQueue(Remove(q, p), x) <=> InQueue(q, x)
         /\ \A x \in S : Remove(q, p).next[x] = q.next[x]
         /\ Remove(q, p).head = q.head /\ Remove(q, p).tail = q.tail
         /\ \A x \in Ids \ S : StrayLinks(q, x) => StrayLinks(Remove(q, p), x)
<1> DEFINE r == Remove(q, p)
<1>1. CASE Detached(q, p)
  BY Zenon, <1>1, NullNotId DEF Remove
<1>2. CASE ~Detached(q, p)
  <2>1. q.prev[p] = 0 /\ q.next[p] = 0
    BY Zenon, <1>2, NullNotId DEF Detached, StrayLinks, WellLinked
  <2>2. 0 # NULL /\ 0 \in Ids
    BY SMTT(30), NumIdsAssumption DEF NULL, Ids
  <2>3. /\ r.head = q.head /\ r.tail = q.tail
        /\ \A x \in Ids :
             /\ r.prev[x] = IF x = p THEN NULL
                            ELSE IF x = 0 THEN 0 ELSE q.prev[x]
             /\ r.next[x] = IF x = p THEN NULL
                            ELSE IF x = 0 THEN 0 ELSE q.next[x]
    BY Zenon, <1>2, <2>1, <2>2 DEF Remove
  <2> HIDE DEF r
  <2>4. \A x \in S : r.prev[x] = q.prev[x] /\ r.next[x] = q.next[x]
    BY Zenon, <2>3
  <2>5. \A x \in S : InQueue(r, x) <=> InQueue(q, x)
    BY Zenon, <2>3, <2>4 DEF InQueue
  <2>6. WellLinked(r, S)
    BY <2>3, <2>4, <2>5, NullNotId DEF WellLinked
  <2>7. \A x \in Ids \ S : StrayLinks(q, x) => StrayLinks(r, x)
    BY Zenon, <2>3 DEF StrayLinks
  <2> QED BY Zenon, <2>3, <2>4, <2>5, <2>6, <2>7 DEF r
<1> QED BY Zenon, <1>1, <1>2

-----------------------------------------------------------------------------

(* The numbering survives the three operations.                             *)
LEMMA EnqueueRanked ==
  ASSUME NEW S \in SUBSET Ids, NEW q \in QueueType, WellLinked(q, S),
         Ranked(q, S), NEW p \in Ids, p \in S => ~InQueue(q, p)
  PROVE  Ranked(Enqueue(q, p), S \cup {p})
<1> DEFINE e == Enqueue(q, p)
           T == S \cup {p}
<1>1. PICK r \in [Ids -> Int] : Numbers(r, q, S)
  BY Zenon DEF Ranked
<1>2. \A x \in T : InQueue(e, x) <=> x = p \/ (x \in S /\ InQueue(q, x))
  BY Zenon, EnqueueLinks
<1>3. CASE q.tail = NULL
  <2>1. e.head = p /\ e.tail = p /\ e.next[p] = NULL
    BY Zenon, <1>3 DEF Enqueue, QueueType
  <2>2. \A x \in S : ~InQueue(q, x)
    BY Zenon, <1>1, <1>3 DEF Numbers, WellLinked
  <2> HIDE DEF e
  <2>3. Numbers(r, e, T)
    BY <1>2, <2>1, <2>2, NullNotId DEF Numbers
  <2> QED BY Zenon, <2>3 DEF Ranked, e
<1>4. CASE q.tail # NULL
  <2>1. /\ e.head = q.head /\ e.tail = p
        /\ \A x \in Ids : e.next[x] = IF x = p THEN NULL
                                      ELSE IF x = q.tail THEN p ELSE q.next[x]
    BY Zenon, <1>4 DEF Enqueue, QueueType
  <2>2. /\ q.tail \in S /\ q.tail # p /\ InQueue(q, q.tail)
        /\ q.head \in S /\ q.head # p /\ InQueue(q, q.head)
    BY Zenon, <1>4 DEF WellLinked, InQueue
  <2>3. \A x \in S : InQueue(q, x) /\ q.next[x] # NULL
                     => q.next[x] \in S /\ q.next[x] # p
    BY NullNotId DEF WellLinked, InQueue
  <2> DEFINE rr == [r EXCEPT ![p] = r[q.tail] + 1]
  <2>4. /\ rr \in [Ids -> Int] /\ rr[p] = r[q.tail] + 1
        /\ \A x \in Ids : x # p => rr[x] = r[x]
    BY <2>2
  <2> HIDE DEF e, rr
  <2>5. Numbers(rr, e, T)
    <3> SUFFICES ASSUME NEW x \in T, InQueue(e, x)
                 PROVE  /\ rr[e.head] <= rr[x] /\ rr[x] <= rr[e.tail]
                        /\ e.next[x] # NULL => rr[e.next[x]] = rr[x] + 1
                        /\ \A y \in T : InQueue(e, y) /\ rr[y] = rr[x] => y = x
      BY Zenon, <2>1, <2>2, NullNotId DEF Numbers
    <3>1. \A y \in T : InQueue(e, y) /\ y # p
            => /\ y \in S /\ InQueue(q, y) /\ rr[y] = r[y]
               /\ r[q.head] <= r[y] /\ r[y] <= r[q.tail]
               /\ r[y] \in Int /\ r[q.tail] \in Int
      BY Zenon, <1>1, <1>2, <2>2, <2>4 DEF Numbers
    <3>2. rr[e.head] <= rr[x] /\ rr[x] <= rr[e.tail]
      BY <1>1, <2>1, <2>2, <2>4, <3>1 DEF Numbers
    <3>3. e.next[x] # NULL => rr[e.next[x]] = rr[x] + 1
      BY <1>1, <2>1, <2>2, <2>3, <2>4, <3>1 DEF Numbers
    <3>4. \A y \in T : InQueue(e, y) /\ rr[y] = rr[x] => y = x
      BY <1>1, <2>4, <3>1 DEF Numbers
    <3> QED BY Zenon, <3>2, <3>3, <3>4
  <2> QED BY Zenon, <2>4, <2>5 DEF Ranked, e
<1> QED BY Zenon, <1>3, <1>4

LEMMA DequeueRanked ==
  ASSUME NEW S \in SUBSET Ids, NEW q \in QueueType, WellLinked(q, S),
         Ranked(q, S), q.head # NULL
  PROVE  Ranked(Dequeue(q), S)
<1> DEFINE d == Dequeue(q)
<1>1. PICK r \in [Ids -> Int] : Numbers(r, q, S)
  BY Zenon DEF Ranked
<1>2. \A x \in S : InQueue(d, x) <=> InQueue(q, x) /\ x # q.head
  BY Zenon, DequeueLinks
<1>3. /\ d.head = q.next[q.head]
      /\ q.next[q.head] # NULL => d.tail = q.tail
      /\ \A x \in Ids : x # q.head => d.next[x] = q.next[x]
  BY Zenon, NullNotId DEF Dequeue, QueueType
<1> HIDE DEF d
<1>4. /\ q.head \in S /\ InQueue(q, q.head)
      /\ q.next[q.head] = NULL => q.tail = q.head
  BY Zenon DEF WellLinked, InQueue
<1>5. ASSUME NEW x \in S, InQueue(d, x)
      PROVE  /\ d.head # NULL
             /\ r[d.head] <= r[x] /\ r[x] <= r[d.tail]
             /\ d.next[x] # NULL => r[d.next[x]] = r[x] + 1
             /\ \A y \in S : InQueue(d, y) /\ r[y] = r[x] => y = x
  BY <1>1, <1>2, <1>3, <1>4, <1>5 DEF Numbers
<1>6. Numbers(r, d, S)
  BY Zenon, <1>5 DEF Numbers
<1> QED BY Zenon, <1>6 DEF Ranked, d

LEMMA RemoveRanked ==
  ASSUME NEW S \in SUBSET Ids, NEW q \in QueueType, WellLinked(q, S),
         Ranked(q, S), NEW p \in S
  PROVE  Ranked(Remove(q, p), S)
<1> DEFINE d == Remove(q, p)
<1>1. PICK r \in [Ids -> Int] : Numbers(r, q, S)
  BY Zenon DEF Ranked
<1>2. CASE Detached(q, p)
  BY Zenon, <1>2 DEF Remove
<1>3. CASE ~Detached(q, p)
  <2>1. InQueue(q, p)
    BY Zenon, <1>3 DEF Detached, WellLinked, InQueue
  <2>2. \A x \in S : InQueue(d, x) <=> InQueue(q, x) /\ x # p
    BY Zenon, RemoveLinks
  <2>3. /\ d.head = IF q.prev[p] = NULL THEN q.next[p] ELSE q.head
        /\ d.tail = IF q.next[p] = NULL THEN q.prev[p] ELSE q.tail
        /\ \A x \in Ids : x # p =>
             d.next[x] = IF x = q.prev[p] THEN q.next[p] ELSE q.next[x]
    BY Zenon, <1>3 DEF Remove
  <2>4. /\ q.prev[p] = NULL => q.head = p
        /\ q.next[p] = NULL => q.tail = p
        /\ q.head \in S /\ InQueue(q, q.head)
        /\ q.tail \in S /\ InQueue(q, q.tail)
    BY Zenon, <1>1, <2>1 DEF WellLinked, InQueue, Numbers
  <2>5. q.prev[p] # NULL => /\ q.prev[p] \in S /\ InQueue(q, q.prev[p])
                            /\ q.next[q.prev[p]] = p
    BY SMTT(30), <2>1, NullNotId DEF WellLinked
  <2>6. q.next[p] # NULL => q.next[p] \in S /\ InQueue(q, q.next[p])
    BY Zenon, <2>1, NullNotId DEF WellLinked, InQueue
  <2> DEFINE rr == [x \in Ids |-> IF r[x] > r[p] THEN r[x] - 1 ELSE r[x]]
  <2>7. rr \in [Ids -> Int]
    OBVIOUS
  <2>8. \A x \in Ids : rr[x] = IF r[x] > r[p] THEN r[x] - 1 ELSE r[x]
    BY Zenon
  <2>9. \A x \in S : InQueue(q, x) /\ x # p
          => /\ r[x] # r[p] /\ r[q.head] <= r[x] /\ r[x] <= r[q.tail]
             /\ r[x] \in Int /\ q.head # NULL
    BY Zenon, <1>1, <2>1 DEF Numbers
  <2> HIDE DEF d, rr
  <2>10. ASSUME NEW x \in S, InQueue(d, x)
         PROVE  /\ d.head # NULL
                /\ rr[d.head] <= rr[x] /\ rr[x] <= rr[d.tail]
                /\ d.next[x] # NULL => rr[d.next[x]] = rr[x] + 1
                /\ \A y \in S : InQueue(d, y) /\ rr[y] = rr[x] => y = x
    <3>1. InQueue(q, x) /\ x # p
      BY Zenon, <2>2, <2>10
    <3>2. d.head # NULL /\ rr[d.head] <= rr[x]
      BY SMTT(30), <1>1, <2>1, <2>3, <2>4, <2>6, <2>8, <2>9, <3>1 DEF Numbers
    <3>3. rr[x] <= rr[d.tail]
      <4>1. CASE q.next[p] = NULL
        <5>1. q.prev[p] # NULL
          BY <2>4, <2>9, <3>1, <4>1
        <5>2. r[p] = r[q.prev[p]] + 1
          BY Zenon, <1>1, <2>5, <5>1, NullNotId DEF Numbers
        <5> QED BY <2>3, <2>4, <2>5, <2>8, <2>9, <3>1, <4>1, <5>1, <5>2
      <4>2. CASE q.next[p] # NULL
        BY <2>3, <2>4, <2>8, <2>9, <3>1, <4>2
      <4> QED BY Zenon, <4>1, <4>2
    <3>4. d.next[x] # NULL => rr[d.next[x]] = rr[x] + 1
      <4>1. CASE x = q.prev[p]
        <5>1. r[p] = r[x] + 1 /\ r[x] \in Int /\ r[p] \in Int
          BY Zenon, <1>1, <2>5, <3>1, <4>1, NullNotId DEF Numbers
        <5>2. q.next[p] # NULL => r[q.next[p]] = r[p] + 1
          BY Zenon, <1>1, <2>1 DEF Numbers
        <5> QED BY <2>3, <2>6, <2>8, <3>1, <4>1, <5>1, <5>2
      <4>2. CASE x # q.prev[p]
        <5>1. d.next[x] = q.next[x]
          BY Zenon, <2>3, <3>1, <4>2
        <5>2. q.next[x] # NULL => /\ q.next[x] \in S /\ q.next[x] # p
                                  /\ InQueue(q, q.next[x])
          BY <3>1, <4>2, NullNotId DEF WellLinked, InQueue
        <5>3. q.next[x] # NULL => r[q.next[x]] = r[x] + 1
          BY Zenon, <1>1, <3>1 DEF Numbers
        <5> QED BY <2>8, <2>9, <3>1, <5>1, <5>2, <5>3
      <4> QED BY Zenon, <4>1, <4>2
    <3>5. \A y \in S : InQueue(d, y) /\ rr[y] = rr[x] => y = x
      <4> SUFFICES ASSUME NEW y \in S, InQueue(d, y), rr[y] = rr[x]
                   PROVE  y = x
        BY Zenon
      <4>1. InQueue(q, y) /\ y # p
        BY Zenon, <2>2
      <4>2. r[y] = r[x]
        BY <2>8, <2>9, <3>1, <4>1
      <4> QED BY Zenon, <1>1, <3>1, <4>1, <4>2 DEF Numbers
    <3> QED BY Zenon, <3>2, <3>3, <3>4, <3>5
  <2>11. Numbers(rr, d, S)
    BY Zenon, <2>10 DEF Numbers
  <2> QED BY Zenon, <2>7, <2>11 DEF Ranked, d
<1> QED BY Zenon, <1>1, <1>2, <1>3

(* A queue that some thread is in has a head: links cannot form a ring that *)
(* the head does not reach.                                                 *)
LEMMA NonEmpty ==
  ASSUME NEW S \in SUBSET Ids, NEW q, Ranked(q, S), NEW p \in S, InQueue(q, p)
  PROVE  q.head # NULL
BY Zenon DEF Ranked, Numbers

-----------------------------------------------------------------------------

(* The inductive strengthening of SchedConsistent: the queue has no ring,   *)
(* and control blocks that are not in use are in no queue and not asleep.   *)
SchedInv(s, S) ==
  /\ S \subseteq Ids \ {0} /\ IDLE \in S
  /\ s \in SchedType
  /\ SchedConsistent(s, S)
  /\ Ranked(s.q, S)
  /\ \A p \in Ids \ S : StrayLinks(s.q, p) /\ s.state[p] # "SLEEP"

LEMMA TypeFacts ==
  ASSUME NEW s \in SchedType
  PROVE  /\ s.q \in QueueType
         /\ s.state \in [Ids -> States]
         /\ s.chan \in [Ids -> Chans \cup {NoChan}]
         /\ s.cur \in Ids \cup {NULL}
BY Zenon DEF SchedType

(* Operations on the queue leave the control blocks outside S alone.        *)
LEMMA EnqueueStray ==
  ASSUME NEW S \in SUBSET Ids, NEW q \in QueueType, WellLinked(q, S),
         NEW p \in Ids, NEW x \in Ids \ (S \cup {p}), StrayLinks(q, x)
  PROVE  StrayLinks(Enqueue(q, p), x)
BY Zenon, NullNotId DEF StrayLinks, Enqueue, QueueType, WellLinked

LEMMA DequeueStray ==
  ASSUME NEW S \in SUBSET Ids, NEW q \in QueueType, WellLinked(q, S),
         NEW x \in Ids \ S, StrayLinks(q, x)
  PROVE  StrayLinks(Dequeue(q), x)
<1>1. q.head # NULL => x # q.head /\ x # q.next[q.head]
  BY Zenon, NullNotId DEF WellLinked
<1>2. Dequeue(q).prev[x] = q.prev[x] /\ Dequeue(q).next[x] = q.next[x]
  <2>1. q.prev \in [Ids -> Ids \cup {NULL}] /\ q.next \in [Ids -> Ids \cup {NULL}]
    BY Zenon DEF QueueType
  <2> QED BY Zenon, <1>1, <2>1 DEF Dequeue
<1> QED BY Zenon, <1>2 DEF StrayLinks

LEMMA RemoveKeepsStray ==
  ASSUME NEW S \in SUBSET Ids, NEW q \in QueueType, WellLinked(q, S),
         NEW p \in S, NEW x \in Ids \ S, StrayLinks(q, x)
  PROVE  StrayLinks(Remove(q, p), x)
<1>1. x # p /\ x # q.prev[p] /\ x # q.next[p]
  BY ZenonT(30), NullNotId DEF WellLinked
<1>2. Remove(q, p).prev[x] = q.prev[x] /\ Remove(q, p).next[x] = q.next[x]
  BY Zenon, <1>1 DEF Remove
<1> QED BY Zenon, <1>2 DEF StrayLinks

-----------------------------------------------------------------------------

(* A thread that is not in the queue and not running joins the queue and    *)
(* becomes READY: thread_spawn and an iteration of thread_wakeup.           *)
LEMMA JoinInv ==
  ASSUME NEW s, NEW S, SchedInv(s, S), NEW p \in Ids \ {0},
         p \in S => ~InQueue(s.q, p), p # s.cur,
         NEW t \in SchedType,
         t.q = Enqueue(s.q, p), t.cur = s.cur,
         \A x \in Ids : t.state[x] = IF x = p THEN "READY" ELSE s.state[x],
         \A x \in Ids : x # p => t.chan[x] = s.chan[x]
  PROVE  SchedInv(t, S \cup {p})
<1> DEFINE S2 == S \cup {p}
<1>1. /\ s.q \in QueueType /\ S \in SUBSET Ids /\ WellLinked(s.q, S)
      /\ Ranked(s.q, S) /\ p \in Ids
  BY Zenon, TypeFacts DEF SchedInv, SchedConsistent
<1>2. /\ WellLinked(t.q, S2)
      /\ \A x \in S2 : InQueue(t.q, x) <=> x = p \/ (x \in S /\ InQueue(s.q, x))
  <2>1. LET e == Enqueue(s.q, p)
        IN  /\ WellLinked(e, S2)
            /\ \A x \in S2 : InQueue(e, x) <=> x = p \/ (x \in S /\ InQueue(s.q, x))
    BY Zenon, <1>1, EnqueueLinks
  <2> QED BY Zenon, <2>1
<1>3. Ranked(t.q, S2)
  BY Zenon, <1>1, EnqueueRanked
<1>4. \A x \in Ids \ S2 : StrayLinks(t.q, x)
  BY <1>1, EnqueueStray DEF SchedInv
<1>5. SchedConsistent(t, S2)
  BY <1>1, <1>2 DEF SchedInv, SchedConsistent
<1> QED BY Zenon, <1>1, <1>3, <1>4, <1>5 DEF SchedInv

LEMMA SpawnInv ==
  ASSUME NEW s, NEW S, SchedInv(s, S), NEW p \in Ids \ {0},
         p \in S => ~InQueue(s.q, p), p # s.cur
  PROVE  SchedInv(ThreadSpawn(s, p), S \cup {p})
<1> DEFINE t == ThreadSpawn(s, p)
<1>1. s \in SchedType
  BY Zenon DEF SchedInv
<1>2. /\ t \in SchedType
      /\ t.q = Enqueue(s.q, p) /\ t.cur = s.cur /\ t.chan = s.chan
      /\ \A x \in Ids : t.state[x] = IF x = p THEN "READY" ELSE s.state[x]
  BY Zenon, <1>1, TypeFacts, EnqueueType DEF ThreadSpawn, SchedType, States
<1> HIDE DEF t
<1>3. SchedInv(t, S \cup {p})
  BY Zenon, <1>2, JoinInv
<1> QED BY Zenon, <1>3 DEF t

(* One iteration of thread_wakeup; no other thread changes.                 *)
LEMMA WakeOneInv ==
  ASSUME NEW s, NEW S, SchedInv(s, S), NEW c \in Chans, NEW p \in Ids \ {0}
  PROVE  /\ SchedInv(WakeOne(s, c, p), S)
         /\ WakeOne(s, c, p).cur = s.cur
         /\ \A x \in Ids :
              /\ x # p => /\ WakeOne(s, c, p).state[x] = s.state[x]
                          /\ WakeOne(s, c, p).chan[x] = s.chan[x]
              /\ WakeOne(s, c, p).state[x] = s.state[x]
                   \/ (s.state[x] = "SLEEP"
                        /\ WakeOne(s, c, p).state[x] = "READY")
         /\ ~(WakeOne(s, c, p).state[p] = "SLEEP"
               /\ WakeOne(s, c, p).chan[p] = c)
<1> DEFINE t == WakeOne(s, c, p)
<1>1. CASE s.chan[p] = c /\ s.state[p] = "SLEEP"
  <2>1. s \in SchedType
    BY Zenon DEF SchedInv
  <2>2. p \in S /\ ~InQueue(s.q, p) /\ p # s.cur
    BY Zenon, <1>1, NullNotId DEF SchedInv, SchedConsistent
  <2>3. /\ t \in SchedType
        /\ t.q = Enqueue(s.q, p) /\ t.cur = s.cur
        /\ \A x \in Ids : /\ t.state[x] = IF x = p THEN "READY" ELSE s.state[x]
                          /\ x # p => t.chan[x] = s.chan[x]
    BY Zenon, <1>1, <2>1, TypeFacts, EnqueueType DEF WakeOne, SchedType, States
  <2> HIDE DEF t
  <2>4. SchedInv(t, S \cup {p})
    BY <2>2, <2>3, JoinInv
  <2>5. S \cup {p} = S
    BY Zenon, <2>2
  <2> QED BY Zenon, <1>1, <2>3, <2>4, <2>5 DEF t
<1>2. CASE ~(s.chan[p] = c /\ s.state[p] = "SLEEP")
  BY Zenon, <1>2 DEF WakeOne
<1> QED BY Zenon, <1>1, <1>2

(* Terminating a thread, created or not: sys_exit and SIGKILL.              *)
LEMMA TerminateInv ==
  ASSUME NEW s, NEW S, SchedInv(s, S), NEW p \in Ids
  PROVE  /\ SchedInv(Terminate(s, p), S)
         /\ Terminate(s, p).cur = s.cur
         /\ Terminate(s, p).chan = s.chan
         /\ \A x \in Ids :
              Terminate(s, p).state[x] = IF x = p THEN "DEAD" ELSE s.state[x]
<1> DEFINE t == Terminate(s, p)
<1>1. /\ s.q \in QueueType /\ S \in SUBSET Ids /\ WellLinked(s.q, S)
      /\ Ranked(s.q, S) /\ s \in SchedType
  BY Zenon, TypeFacts DEF SchedInv, SchedConsistent
<1>2. /\ t \in SchedType
      /\ t.q = Remove(s.q, p) /\ t.cur = s.cur /\ t.chan = s.chan
      /\ \A x \in Ids : t.state[x] = IF x = p THEN "DEAD" ELSE s.state[x]
  BY Zenon, <1>1, TypeFacts, RemoveType DEF Terminate, SchedType, States
<1> HIDE DEF t
<1>3. CASE p \in S
  <2>1. /\ WellLinked(t.q, S)
        /\ \A x \in S : InQueue(t.q, x) <=> InQueue(s.q, x) /\ x # p
    BY <1>1, <1>2, <1>3, RemoveLinks
  <2>2. Ranked(t.q, S)
    BY Zenon, <1>1, <1>2, <1>3, RemoveRanked
  <2>3. \A x \in Ids \ S : StrayLinks(t.q, x)
    BY <1>1, <1>2, <1>3, RemoveKeepsStray DEF SchedInv
  <2>4. SchedConsistent(t, S)
    BY Zenon, <1>2, <2>1 DEF SchedInv, SchedConsistent
  <2>5. SchedInv(t, S)
    BY Zenon, <1>2, <1>3, <2>2, <2>3, <2>4 DEF SchedInv
  <2> QED BY Zenon, <1>2, <2>5 DEF t
<1>4. CASE p \notin S
  <2>1. /\ S \in SUBSET (Ids \ {0}) /\ p \in Ids \ S
        /\ \A x \in Ids \ S : StrayLinks(s.q, x)
    BY Zenon, <1>4 DEF SchedInv
  <2>2. StrayLinks(s.q, p)
    BY Zenon, <2>1
  <2>3. LET r == Remove(s.q, p)
        IN  /\ WellLinked(r, S)
            /\ \A x \in S : InQueue(r, x) <=> InQueue(s.q, x)
            /\ \A x \in S : r.next[x] = s.q.next[x]
            /\ r.head = s.q.head /\ r.tail = s.q.tail
            /\ \A x \in Ids \ S : StrayLinks(s.q, x) => StrayLinks(r, x)
    BY Zenon, <1>1, <2>1, <2>2, RemoveStray
  <2>4. Ranked(t.q, S)
    BY <1>1, <1>2, <2>3 DEF Ranked, Numbers
  <2>5. SchedConsistent(t, S)
    BY <1>2, <1>4, <2>3 DEF SchedInv, SchedConsistent
  <2>6. SchedInv(t, S)
    BY Zenon, <1>2, <2>1, <2>3, <2>4, <2>5 DEF SchedInv
  <2> QED BY Zenon, <1>2, <2>6 DEF t
<1> QED BY Zenon, <1>3, <1>4

-----------------------------------------------------------------------------

(* Taking the head of the queue to run: the end of thread_yield, of         *)
(* thread_sleep and of thread_exit.  u is the state of the scheduler just   *)
(* before, in which the running thread has already been given its new state *)
(* (READY and in the queue, SLEEP or DEAD).                                 *)
LEMMA DispatchInv ==
  ASSUME NEW S, S \subseteq Ids \ {0}, IDLE \in S,
         NEW u \in SchedType, WellLinked(u.q, S), Ranked(u.q, S),
         \A p \in Ids \ S : StrayLinks(u.q, p) /\ u.state[p] # "SLEEP",
         \A p \in S : InQueue(u.q, p) <=> u.state[p] = "READY",
         \A p \in S : u.state[p] # "RUN",
         \A p \in S : u.state[p] = "SLEEP" => u.chan[p] # NoChan,
         u.q.head # NULL
  PROVE  /\ SchedInv(SwitchTo(Dequeued(u), u.q.head), S)
         /\ u.q.head \in S /\ u.state[u.q.head] = "READY"
<1> DEFINE n == u.q.head
           t == SwitchTo(Dequeued(u), n)
<1>1. u.q \in QueueType /\ S \in SUBSET Ids
  BY Zenon, TypeFacts
<1>2. n \in S /\ InQueue(u.q, n) /\ u.state[n] = "READY" /\ n \in Ids
  BY Zenon DEF WellLinked, InQueue
<1>3. /\ t.q = Dequeue(u.q) /\ t.cur = n /\ t.chan = u.chan
      /\ \A x \in Ids : t.state[x] = IF x = n THEN "RUN" ELSE u.state[x]
      /\ t \in SchedType
  BY Zenon, <1>1, <1>2, TypeFacts, DequeueType
     DEF SwitchTo, Dequeued, SchedType, States
<1>4. /\ WellLinked(t.q, S)
      /\ \A x \in S : InQueue(t.q, x) <=> InQueue(u.q, x) /\ x # n
      /\ Ranked(t.q, S)
      /\ \A x \in Ids \ S : StrayLinks(t.q, x)
  BY SMTT(30), <1>1, <1>3, DequeueLinks, DequeueRanked, DequeueStray
<1> HIDE DEF t, n
<1>5. SchedConsistent(t, S)
  BY Zenon, <1>2, <1>3, <1>4 DEF SchedConsistent
<1>6. SchedInv(t, S)
  BY Zenon, <1>2, <1>3, <1>4, <1>5 DEF SchedInv
<1> QED BY Zenon, <1>2, <1>6 DEF t, n

(* thread_yield: some READY thread, or the yielding thread itself, runs.    *)
LEMMA YieldInv ==
  ASSUME NEW s, NEW S, SchedInv(s, S), s.cur # NULL
  PROVE  /\ SchedInv(ThreadYield(s), S)
         /\ ThreadYield(s).cur \in S
         /\ ThreadYield(s).state[ThreadYield(s).cur] = "RUN"
         /\ \A x \in S : x # s.cur /\ s.state[x] \in {"DEAD", "SLEEP"}
              => ThreadYield(s).state[x] = s.state[x]
         /\ \A x \in S : s.state[x] \in {"READY", "RUN"}
              => ThreadYield(s).state[x] \in {"READY", "RUN"}
         /\ \A x \in S : ThreadYield(s).state[x] = "DEAD" => s.state[x] = "DEAD"
         /\ ThreadYield(s).chan = s.chan
<1> DEFINE u == ThreadSpawn(s, s.cur)
           n == u.q.head
           t == ThreadYield(s)
<1>1. /\ s.q \in QueueType /\ S \in SUBSET Ids /\ WellLinked(s.q, S)
      /\ Ranked(s.q, S) /\ s \in SchedType /\ s.cur \in S /\ s.cur \in Ids
      /\ ~InQueue(s.q, s.cur)
  BY Zenon, TypeFacts DEF SchedInv, SchedConsistent
<1>2. /\ u \in SchedType
      /\ u.q = Enqueue(s.q, s.cur) /\ u.cur = s.cur /\ u.chan = s.chan
      /\ \A x \in Ids : u.state[x] = IF x = s.cur THEN "READY" ELSE s.state[x]
  BY Zenon, <1>1, TypeFacts, EnqueueType DEF ThreadSpawn, SchedType, States
<1>3. S \cup {s.cur} = S
  BY Zenon, <1>1
<1>4. /\ WellLinked(u.q, S)
      /\ \A x \in S : InQueue(u.q, x) <=> x = s.cur \/ InQueue(s.q, x)
  <2>1. /\ WellLinked(u.q, S \cup {s.cur})
        /\ \A x \in S \cup {s.cur} :
             InQueue(u.q, x) <=> x = s.cur \/ (x \in S /\ InQueue(s.q, x))
    BY <1>1, <1>2, EnqueueLinks
  <2> QED BY Zenon, <1>3, <2>1
<1>5. Ranked(u.q, S)
  BY Zenon, <1>1, <1>2, <1>3, EnqueueRanked
<1>6. \A x \in Ids \ S : StrayLinks(u.q, x) /\ u.state[x] # "SLEEP"
  BY <1>1, <1>2, <1>3, EnqueueStray DEF SchedInv
<1>7. n # NULL
  BY Zenon, <1>1, <1>2, <1>4, <1>5, TypeFacts, NonEmpty
<1>8. t = SwitchTo(Dequeued(u), n)
  BY Zenon DEF ThreadYield
<1> HIDE DEF u, t
<1>9. SchedInv(t, S) /\ n \in S
  <2>1. S \subseteq Ids \ {0} /\ IDLE \in S
    BY Zenon DEF SchedInv
  <2>2. /\ \A x \in S : InQueue(u.q, x) <=> u.state[x] = "READY"
        /\ \A x \in S : u.state[x] # "RUN"
        /\ \A x \in S : u.state[x] = "SLEEP" => u.chan[x] # NoChan
    BY Zenon, <1>1, <1>2, <1>4 DEF SchedInv, SchedConsistent
  <2> QED BY Zenon, <1>2, <1>4, <1>5, <1>6, <1>7, <1>8, <2>1, <2>2, DispatchInv
<1>10. /\ t.cur = n /\ t.chan = s.chan
       /\ \A x \in Ids : t.state[x] = IF x = n THEN "RUN"
                                      ELSE IF x = s.cur THEN "READY"
                                      ELSE s.state[x]
  BY Zenon, <1>1, <1>2, <1>8, <1>9, TypeFacts DEF SwitchTo, Dequeued, SchedType
<1>11. n # s.cur => s.state[n] = "READY"
  BY Zenon, <1>1, <1>2, <1>4, <1>9
     DEF SchedInv, SchedConsistent, WellLinked, InQueue
<1> QED BY Zenon, <1>1, <1>9, <1>10, <1>11 DEF t

(* thread_sleep: the running thread sleeps and a READY thread runs; when no *)
(* thread is READY the kernel is lost (cur is NULL).                        *)
LEMMA SleepInv ==
  ASSUME NEW s, NEW S, SchedInv(s, S), s.cur # NULL, NEW c \in Chans
  PROVE  /\ SchedInv(ThreadSleep(s, c), S)
         /\ (\E x \in S : s.state[x] = "READY") =>
              /\ ThreadSleep(s, c).cur \in S
              /\ ThreadSleep(s, c).state[ThreadSleep(s, c).cur] = "RUN"
         /\ \A x \in S : x # s.cur /\ s.state[x] = "DEAD"
              => ThreadSleep(s, c).state[x] = "DEAD"
         /\ \A x \in S : x # s.cur /\ s.state[x] \in {"READY", "RUN"}
              => ThreadSleep(s, c).state[x] \in {"READY", "RUN"}
         /\ \A x \in S : ThreadSleep(s, c).state[x] = "DEAD"
              => s.state[x] = "DEAD"
<1> DEFINE u == [q     |-> s.q,
                 state |-> [s.state EXCEPT ![s.cur] = "SLEEP"],
                 chan  |-> [s.chan EXCEPT ![s.cur] = c],
                 cur   |-> s.cur]
           n == s.q.head
           t == ThreadSleep(s, c)
<1>1. /\ s.q \in QueueType /\ S \in SUBSET Ids /\ WellLinked(s.q, S)
      /\ Ranked(s.q, S) /\ s \in SchedType /\ s.cur \in S /\ s.cur \in Ids
      /\ ~InQueue(s.q, s.cur)
  BY Zenon, TypeFacts DEF SchedInv, SchedConsistent
<1>2. /\ u \in SchedType
      /\ u.q = s.q /\ u.cur = s.cur
      /\ \A x \in Ids : /\ u.state[x] = IF x = s.cur THEN "SLEEP" ELSE s.state[x]
                        /\ u.chan[x] = IF x = s.cur THEN c ELSE s.chan[x]
  BY Zenon, <1>1, TypeFacts DEF SchedType, States
<1>3. t = SwitchTo(Dequeued(u), n)
  BY Zenon DEF ThreadSleep
<1> HIDE DEF u, t
<1>4. /\ \A x \in S : InQueue(u.q, x) <=> u.state[x] = "READY"
      /\ \A x \in S : u.state[x] # "RUN"
      /\ \A x \in S : u.state[x] = "SLEEP" => u.chan[x] # NoChan
      /\ \A x \in Ids \ S : StrayLinks(u.q, x) /\ u.state[x] # "SLEEP"
  BY <1>1, <1>2, ChanAssumption DEF SchedInv, SchedConsistent
<1>5. S \subseteq Ids \ {0} /\ IDLE \in S
  BY Zenon DEF SchedInv
<1>6. CASE n # NULL
  <2>1. SchedInv(t, S) /\ n \in S /\ u.state[n] = "READY"
    BY <1>1, <1>2, <1>3, <1>4, <1>5, <1>6, DispatchInv
  <2>2. /\ t.cur = n
        /\ \A x \in Ids : t.state[x] = IF x = n THEN "RUN" ELSE u.state[x]
    BY Zenon, <1>1, <1>2, <1>3, <2>1, TypeFacts DEF SwitchTo, Dequeued
  <2> QED BY SMTT(30), <1>1, <1>2, <2>1, <2>2 DEF t
<1>7. CASE n = NULL
  <2>1. /\ t.cur = NULL /\ t.q = s.q /\ t.chan = u.chan
        /\ \A x \in Ids : t.state[x] = u.state[x]
        /\ t \in SchedType
    <3>1. u.state \in [Ids -> States] /\ u.chan \in [Ids -> Chans \cup {NoChan}]
      BY Zenon, <1>2, TypeFacts
    <3>2. [u.state EXCEPT ![NULL] = "RUN"] = u.state
      BY <3>1, NullNotId
    <3>3. Dequeue(s.q) = s.q
      BY Zenon, <1>7 DEF Dequeue
    <3>4. t = [q |-> s.q, state |-> u.state, chan |-> u.chan, cur |-> NULL]
      BY Zenon, <1>2, <1>3, <1>7, <3>2, <3>3 DEF SwitchTo, Dequeued
    <3> QED BY Zenon, <1>1, <3>1, <3>4 DEF SchedType
  <2>2. \A x \in S : s.state[x] # "READY"
    BY Zenon, <1>1, <1>7, NonEmpty DEF SchedInv, SchedConsistent
  <2>3. SchedConsistent(t, S)
    BY <1>1, <1>2, <1>4, <2>1 DEF SchedConsistent
  <2>4. SchedInv(t, S)
    BY Zenon, <1>1, <1>2, <1>4, <1>5, <2>1, <2>3 DEF SchedInv
  <2> QED BY Zenon, <1>1, <1>2, <2>1, <2>2, <2>4 DEF t
<1> QED BY Zenon, <1>6, <1>7

(* thread_exit after the running thread was terminated: a READY thread runs *)
(* or, when there is none, idle.                                            *)
LEMMA ExitInv ==
  ASSUME NEW s, NEW S, SchedInv(s, S), s.cur # NULL, s.state[s.cur] = "DEAD"
  PROVE  /\ SchedInv(ThreadExit(s), S)
         /\ ThreadExit(s).cur \in S
         /\ ThreadExit(s).state[ThreadExit(s).cur] = "RUN"
         /\ \A x \in S : s.state[x] = "DEAD" /\ x # IDLE
              => ThreadExit(s).state[x] = "DEAD"
         /\ s.state[IDLE] \in {"READY", "RUN"}
              => ThreadExit(s).state[IDLE] \in {"READY", "RUN"}
         /\ \A x \in S : ThreadExit(s).state[x] = "DEAD" => s.state[x] = "DEAD"
<1> DEFINE n == s.q.head
           t == ThreadExit(s)
<1>1. /\ s.q \in QueueType /\ S \in SUBSET Ids /\ WellLinked(s.q, S)
      /\ Ranked(s.q, S) /\ s \in SchedType /\ s.cur \in S /\ s.cur \in Ids
      /\ S \subseteq Ids \ {0} /\ IDLE \in S /\ IDLE \in Ids
  BY Zenon, TypeFacts DEF SchedInv, SchedConsistent
<1>2. /\ \A x \in S : InQueue(s.q, x) <=> s.state[x] = "READY"
      /\ \A x \in S : s.state[x] # "RUN"
      /\ \A x \in S : s.state[x] = "SLEEP" => s.chan[x] # NoChan
      /\ \A x \in Ids \ S : StrayLinks(s.q, x) /\ s.state[x] # "SLEEP"
  BY Zenon DEF SchedInv, SchedConsistent
<1>3. CASE n # NULL
  <2>1. t = SwitchTo(Dequeued(s), n)
    BY Zenon, <1>3 DEF ThreadExit
  <2> HIDE DEF t
  <2>2. SchedInv(t, S) /\ n \in S /\ s.state[n] = "READY"
    BY Zenon, <1>1, <1>2, <1>3, <2>1, DispatchInv
  <2>3. /\ t.cur = n
        /\ \A x \in Ids : t.state[x] = IF x = n THEN "RUN" ELSE s.state[x]
    BY Zenon, <1>1, <2>1, <2>2, TypeFacts DEF SwitchTo, Dequeued
  <2> QED BY Zenon, <1>1, <2>2, <2>3 DEF t
<1>4. CASE n = NULL
  <2>1. /\ t.cur = IDLE /\ t.q = s.q /\ t.chan = s.chan
        /\ \A x \in Ids : t.state[x] = IF x = IDLE THEN "RUN" ELSE s.state[x]
        /\ t \in SchedType
    <3>1. s.state \in [Ids -> States] /\ s.chan \in [Ids -> Chans \cup {NoChan}]
      BY Zenon, <1>1, TypeFacts
    <3>2. Dequeue(s.q) = s.q
      BY Zenon, <1>4 DEF Dequeue
    <3>3. t = [q |-> s.q, state |-> [s.state EXCEPT ![IDLE] = "RUN"], chan |-> s.chan, cur |-> IDLE]
      BY Zenon, <1>4, <3>2 DEF ThreadExit, SwitchTo, Dequeued
    <3> DEFINE f == [s.state EXCEPT ![IDLE] = "RUN"]
    <3>4. f \in [Ids -> States] /\ \A x \in Ids : f[x] = IF x = IDLE THEN "RUN" ELSE s.state[x]
      BY Zenon, <1>1, <3>1 DEF States
    <3> HIDE DEF f, t
    <3>5. t = [q |-> s.q, state |-> f, chan |-> s.chan, cur |-> IDLE]
      BY Zenon, <3>3 DEF f
    <3> QED BY Zenon, <1>1, <3>1, <3>4, <3>5 DEF SchedType
  <2> HIDE DEF t
  <2>2. \A x \in S : ~InQueue(s.q, x)
    BY Zenon, <1>1, <1>4, NonEmpty
  <2>3. SchedConsistent(t, S)
    BY Zenon, <1>1, <1>2, <2>1, <2>2 DEF SchedConsistent
  <2>4. SchedInv(t, S)
    BY Zenon, <1>1, <1>2, <2>1, <2>3 DEF SchedInv
  <2> QED BY Zenon, <1>1, <2>1, <2>4 DEF t
<1> QED BY Zenon, <1>3, <1>4

(* The tail of thread_sleep, run by the woken thread.                       *)
LEMMA TidyUpInv ==
  ASSUME NEW s, NEW S, SchedInv(s, S), s.cur # NULL
  PROVE  /\ SchedInv(TidyUp(s), S)
         /\ TidyUp(s).cur = s.cur /\ TidyUp(s).state = s.state
<1> DEFINE t == TidyUp(s)
<1>1. s \in SchedType /\ s.cur \in Ids
  BY Zenon DEF SchedInv, SchedConsistent
<1>2. /\ t \in SchedType /\ t.q = s.q /\ t.state = s.state /\ t.cur = s.cur
      /\ \A x \in Ids : x # s.cur => t.chan[x] = s.chan[x]
  BY Zenon, <1>1, TypeFacts DEF TidyUp, SchedType
<1> HIDE DEF t
<1>3. SchedConsistent(t, S)
  BY Zenon, <1>1, <1>2 DEF SchedInv, SchedConsistent
<1>4. SchedInv(t, S)
  BY Zenon, <1>2, <1>3 DEF SchedInv
<1> QED BY Zenon, <1>2, <1>4 DEF t

-----------------------------------------------------------------------------

(* Containers form a tree numbered like a heap: a used container other than *)
(* the root is one of the first nchildren children of its used parent.      *)
ContInv(c) ==
  /\ c \in ContainerType
  /\ c.used[0]
  /\ \A p \in Ids : c.usage[p] <= c.quota[p]
  /\ \A p \in Ids \ {0} : c.used[p] =>
       /\ c.used[c.parent[p]]
       /\ \E k \in Nat : /\ k < c.nchildren[c.parent[p]]
                         /\ p = c.parent[p] * MAX_CHILDREN + 1 + k

LEMMA ContTypeFacts ==
  ASSUME NEW c \in ContainerType
  PROVE  /\ c.quota \in [Ids -> Word] /\ c.usage \in [Ids -> Word]
         /\ c.parent \in [Ids -> Ids]
         /\ c.nchildren \in [Ids -> 0 .. MAX_CHILDREN]
         /\ c.used \in [Ids -> BOOLEAN]
BY Zenon DEF ContainerType

(* The numbering of children is injective.                                  *)
LEMMA ChildNumbering ==
  ASSUME NEW m \in Nat, NEW a \in Nat, NEW b \in Nat, NEW i \in Nat,
         NEW j \in Nat, i < m, j < m, a * m + i = b * m + j
  PROVE  a = b /\ i = j
<1>1. ASSUME NEW x \in Nat, NEW y \in Nat, NEW k \in Nat, NEW l \in Nat,
             k < m, x * m + k = y * m + l, x < y
      PROVE  FALSE
  <2>1. PICK d \in Nat : y = x + 1 + d
    <3>1. y - x - 1 \in Nat /\ y = x + 1 + (y - x - 1)
      BY <1>1
    <3> QED BY Zenon, <3>1
  <2>2. y * m = x * m + m + d * m
    BY <2>1
  <2>3. d * m \in Nat /\ x * m \in Nat
    OBVIOUS
  <2> QED BY <1>1, <2>2, <2>3
<1>2. ~(a < b) /\ ~(b < a)
  BY Zenon, <1>1
<1>3. a = b
  BY <1>2
<1>4. a * m \in Nat
  OBVIOUS
<1> QED BY <1>3, <1>4

LEMMA WordAddType ==
  ASSUME NEW a \in Word, NEW b \in Word
  PROVE  WordAdd(a, b) \in Word
BY ContainerAssumption DEF WordAdd, Word

(* When sys_spawn's checks pass, the next child is in range and unused.     *)
LEMMA NextChildUnused ==
  ASSUME NEW c, ContInv(c), NEW id \in Ids, c.used[id],
         NUM_IDS >= id * MAX_CHILDREN + 1 + MAX_CHILDREN,
         c.nchildren[id] # MAX_CHILDREN
  PROVE  /\ NextChild(c, id) \in Ids \ {0}
         /\ ~c.used[NextChild(c, id)]
         /\ NextChild(c, id) # id
<1> DEFINE n == NextChild(c, id)
           m == MAX_CHILDREN
<1>1. /\ c \in ContainerType
      /\ id \in Nat /\ m \in Nat /\ id * m \in Nat /\ NUM_IDS \in Nat
  BY ContainerAssumption, NumIdsAssumption DEF ContInv, Ids
<1>2. c.nchildren[id] \in Nat /\ c.nchildren[id] < m
  BY <1>1, ContTypeFacts, ContainerAssumption
<1>3. n = id * m + 1 + c.nchildren[id]
  BY Zenon DEF NextChild
<1>4. n \in Ids \ {0}
  <2> HIDE DEF n, m
  <2>1. n \in Nat /\ n < NUM_IDS /\ n > 0
    BY <1>1, <1>2, <1>3 DEF m
  <2> QED BY <1>1, <2>1 DEF Ids
<1>5. ASSUME c.used[n] PROVE FALSE
  <2> DEFINE q == c.parent[n]
  <2>1. PICK k \in Nat : k < c.nchildren[q] /\ n = q * m + 1 + k
    BY Zenon, <1>4, <1>5 DEF ContInv
  <2>2. q \in Nat /\ c.nchildren[q] \in Nat /\ c.nchildren[q] <= m
    <3>1. q \in Ids /\ c.nchildren[q] \in 0 .. m
      BY Zenon, <1>1, <1>4, ContTypeFacts
    <3> QED BY <1>1, <3>1 DEF Ids
  <2>3. q * m \in Nat
    BY <1>1, <2>2
  <2> HIDE DEF q, n, m
  <2>4. k < m /\ id * m + c.nchildren[id] = q * m + k
    BY <1>1, <1>2, <1>3, <2>1, <2>2, <2>3
  <2>5. id = q /\ c.nchildren[id] = k
    BY Zenon, <1>1, <1>2, <2>2, <2>4, ChildNumbering
  <2> QED BY <1>2, <2>1, <2>5
<1> QED BY Zenon, <1>4, <1>5

-----------------------------------------------------------------------------

(* d is the container table c after container_split gave child to id.       *)
IsSplit(c, id, n, child, d) ==
  /\ d \in ContainerType
  /\ \A p \in Ids :
       /\ d.quota[p] = IF p = child THEN n ELSE c.quota[p]
       /\ d.usage[p] = IF p = id THEN WordAdd(c.usage[id], n)
                       ELSE IF p = child THEN 0 ELSE c.usage[p]
       /\ d.parent[p] = IF p = child THEN id ELSE c.parent[p]
       /\ d.nchildren[p] = IF p = id THEN c.nchildren[id] + 1
                           ELSE IF p = child THEN 0 ELSE c.nchildren[p]
       /\ d.used[p] = IF p = child THEN TRUE ELSE c.used[p]

LEMMA SplitFields ==
  ASSUME NEW c, ContInv(c), NEW id \in Ids, NEW n \in Word,
         NextChild(c, id) \in Ids, NextChild(c, id) # id,
         c.nchildren[id] # MAX_CHILDREN
  PROVE  IsSplit(c, id, n, NextChild(c, id), ContainerSplit(c, id, n))
<1> DEFINE child == NextChild(c, id)
           d == ContainerSplit(c, id, n)
<1>1. c \in ContainerType
  BY Zenon DEF ContInv
<1>2. WordAdd(c.usage[id], n) \in Word /\ 0 \in Word
  <2>1. c.usage[id] \in Word
    BY Zenon, <1>1, ContTypeFacts
  <2>2. 0 \in Word
    BY ContainerAssumption DEF Word
  <2> QED BY Zenon, <2>1, <2>2, WordAddType
<1>3. c.nchildren[id] + 1 \in 0 .. MAX_CHILDREN /\ 0 \in 0 .. MAX_CHILDREN
  BY <1>1, ContTypeFacts, ContainerAssumption
<1>4. IsSplit(c, id, n, child, d)
  <2> DEFINE qu == [c.quota EXCEPT ![child] = n]
             us == [c.usage EXCEPT ![child] = 0,
                                   ![id] = WordAdd(c.usage[id], n)]
             pa == [c.parent EXCEPT ![child] = id]
             nc == [c.nchildren EXCEPT ![child] = 0,
                                       ![id] = c.nchildren[id] + 1]
             ud == [c.used EXCEPT ![child] = TRUE]
  <2>1. d = [quota |-> qu, usage |-> us, parent |-> pa, nchildren |-> nc,
             used |-> ud]
    BY Zenon DEF ContainerSplit
  <2>2. qu \in [Ids -> Word] /\ us \in [Ids -> Word] /\ pa \in [Ids -> Ids]
    BY Zenon, <1>1, <1>2, ContTypeFacts
  <2>3. nc \in [Ids -> 0 .. MAX_CHILDREN] /\ ud \in [Ids -> BOOLEAN]
    BY Zenon, <1>1, <1>3, ContTypeFacts
  <2>4. d \in ContainerType
    BY SMTT(30), <2>1, <2>2, <2>3 DEF ContainerType
  <2>5. \A p \in Ids :
          /\ qu[p] = IF p = child THEN n ELSE c.quota[p]
          /\ us[p] = IF p = id THEN WordAdd(c.usage[id], n)
                     ELSE IF p = child THEN 0 ELSE c.usage[p]
          /\ pa[p] = IF p = child THEN id ELSE c.parent[p]
          /\ nc[p] = IF p = id THEN c.nchildren[id] + 1
                     ELSE IF p = child THEN 0 ELSE c.nchildren[p]
          /\ ud[p] = IF p = child THEN TRUE ELSE c.used[p]
    BY Zenon, <1>1, ContTypeFacts
  <2> HIDE DEF qu, us, pa, nc, ud
  <2>6. /\ d.quota = qu /\ d.usage = us /\ d.parent = pa
        /\ d.nchildren = nc /\ d.used = ud
    BY <2>1
  <2> HIDE DEF d
  <2> QED BY Zenon, <2>4, <2>5, <2>6 DEF IsSplit
<1> QED BY Zenon, <1>4

(* container_split after the checks.                                        *)
LEMMA SplitInv ==
  ASSUME NEW c, ContInv(c), NEW id \in Ids, c.used[id], NEW n \in Word,
         CanConsume(c, id, n), NEW child \in Ids \ {0},
         child = NextChild(c, id), ~c.used[child], child # id,
         c.nchildren[id] # MAX_CHILDREN
  PROVE  /\ ContInv(ContainerSplit(c, id, n))
         /\ \A p \in Ids : ContainerSplit(c, id, n).used[p]
                             <=> c.used[p] \/ p = child
<1> DEFINE d == ContainerSplit(c, id, n)
<1>1. c \in ContainerType
  BY Zenon DEF ContInv
<1>2. IsSplit(c, id, n, child, d)
  BY Zenon, SplitFields
<1> HIDE DEF d
<1>4. /\ \A p \in Ids :
           /\ d.quota[p] = IF p = child THEN n ELSE c.quota[p]
           /\ d.usage[p] = IF p = id THEN WordAdd(c.usage[id], n)
                           ELSE IF p = child THEN 0 ELSE c.usage[p]
           /\ d.parent[p] = IF p = child THEN id ELSE c.parent[p]
           /\ d.nchildren[p] = IF p = id THEN c.nchildren[id] + 1
                               ELSE IF p = child THEN 0 ELSE c.nchildren[p]
           /\ d.used[p] = IF p = child THEN TRUE ELSE c.used[p]
      /\ d \in ContainerType
  BY Zenon, <1>2 DEF IsSplit
<1>5. \A p \in Ids : d.used[p] <=> c.used[p] \/ p = child
  BY Zenon, <1>4
<1>6. d.used[0]
  BY <1>5, NumIdsAssumption DEF ContInv, Ids
<1>7. \A p \in Ids : d.usage[p] <= d.quota[p]
  <2>1. 0 <= n
    BY DEF Word
  <2> SUFFICES ASSUME NEW p \in Ids PROVE d.usage[p] <= d.quota[p]
    BY Zenon
  <2>2. CASE p = id
    BY Zenon, <1>4, <2>2 DEF CanConsume
  <2>3. CASE p = child
    <3>1. d.usage[p] = 0 /\ d.quota[p] = n
      BY Zenon, <1>4, <2>3
    <3> QED BY Zenon, <2>1, <3>1
  <2>4. CASE p # id /\ p # child
    BY Zenon, <1>4, <2>4 DEF ContInv
  <2> QED BY Zenon, <2>2, <2>3, <2>4
<1>8. ASSUME NEW p \in Ids \ {0}, d.used[p]
      PROVE  /\ d.used[d.parent[p]]
             /\ \E k \in Nat : /\ k < d.nchildren[d.parent[p]]
                               /\ p = d.parent[p] * MAX_CHILDREN + 1 + k
  <2>1. CASE p = child
    <3>1. d.parent[p] = id /\ d.nchildren[id] = c.nchildren[id] + 1
      BY Zenon, <1>4, <2>1
    <3>2. c.nchildren[id] \in Nat
      BY <1>1, ContTypeFacts, ContainerAssumption
    <3>3. /\ c.nchildren[id] < d.nchildren[d.parent[p]]
          /\ p = d.parent[p] * MAX_CHILDREN + 1 + c.nchildren[id]
      BY <2>1, <3>1, <3>2 DEF NextChild
    <3> QED BY Zenon, <1>5, <3>1, <3>2, <3>3
  <2>2. CASE p # child
    <3>1. c.used[p] /\ d.parent[p] = c.parent[p]
      BY Zenon, <1>4, <1>5, <1>8, <2>2
    <3>2. c.parent[p] \in Ids /\ c.used[c.parent[p]] /\ c.parent[p] # child
      BY <1>1, <3>1, ContTypeFacts DEF ContInv
    <3>3. PICK k \in Nat : /\ k < c.nchildren[c.parent[p]]
                           /\ p = c.parent[p] * MAX_CHILDREN + 1 + k
      BY Zenon, <3>1 DEF ContInv
    <3>4. k < d.nchildren[d.parent[p]]
      <4>1. c.nchildren[c.parent[p]] \in Nat
        BY <1>1, <3>2, ContTypeFacts, ContainerAssumption
      <4>2. \/ d.nchildren[d.parent[p]] = c.nchildren[c.parent[p]]
            \/ d.nchildren[d.parent[p]] = c.nchildren[c.parent[p]] + 1
        BY ZenonT(60), <1>4, <3>1, <3>2
      <4> QED BY <3>3, <4>1, <4>2
    <3> QED BY Zenon, <1>5, <3>1, <3>2, <3>3, <3>4
  <2> QED BY Zenon, <2>1, <2>2
<1>9. ContInv(d)
  BY Zenon, <1>4, <1>6, <1>7, <1>8 DEF ContInv
<1> QED BY Zenon, <1>5, <1>9 DEF d

(* An operation that only changes one usage field, within the quota.        *)
LEMMA UsageInv ==
  ASSUME NEW c, ContInv(c), NEW id \in Ids, NEW u \in Word, u <= c.quota[id]
  PROVE  /\ ContInv([c EXCEPT !.usage[id] = u])
         /\ [c EXCEPT !.usage[id] = u].used = c.used
<1> DEFINE d == [c EXCEPT !.usage[id] = u]
<1>1. c \in ContainerType
  BY Zenon DEF ContInv
<1>2. /\ d.quota = c.quota /\ d.parent = c.parent
      /\ d.nchildren = c.nchildren /\ d.used = c.used
      /\ \A p \in Ids : d.usage[p] = IF p = id THEN u ELSE c.usage[p]
      /\ d \in ContainerType
  BY Zenon, <1>1, ContTypeFacts DEF ContainerType
<1> HIDE DEF d
<1>3. ContInv(d)
  BY <1>2 DEF ContInv
<1> QED BY Zenon, <1>2, <1>3 DEF d

LEMMA AllocInv ==
  ASSUME NEW c, ContInv(c), NEW id \in Ids
  PROVE  ContInv(ContainerAlloc(c, id)) /\ ContainerAlloc(c, id).used = c.used
<1>1. CASE AtQuota(c, id)
  BY Zenon, <1>1 DEF ContainerAlloc
<1>2. CASE ~AtQuota(c, id)
  <2>1. c.usage[id] \in Word /\ c.quota[id] \in Word
    BY Zenon, ContTypeFacts DEF ContInv
  <2>2. c.usage[id] <= c.quota[id] /\ c.usage[id] # c.quota[id]
    BY Zenon, <1>2 DEF ContInv, AtQuota
  <2>3. /\ WordAdd(c.usage[id], 1) \in Word
        /\ WordAdd(c.usage[id], 1) <= c.quota[id]
    BY <2>1, <2>2, ContainerAssumption DEF Word, WordAdd
  <2> QED BY Zenon, <1>2, <2>3, UsageInv DEF ContainerAlloc
<1> QED BY Zenon, <1>1, <1>2

LEMMA RefundInv ==
  ASSUME NEW c, ContInv(c), NEW id \in Ids, NEW n \in Word
  PROVE  ContInv(Refund(c, id, n)) /\ Refund(c, id, n).used = c.used
<1> DEFINE u == IF c.usage[id] >= n THEN c.usage[id] - n ELSE 0
<1>1. c.usage[id] \in Word /\ c.quota[id] \in Word
  BY Zenon, ContTypeFacts DEF ContInv
<1>2. c.usage[id] <= c.quota[id]
  BY Zenon DEF ContInv
<1>3. u \in Word /\ u <= c.quota[id]
  BY <1>1, <1>2, ContainerAssumption DEF Word
<1> QED BY Zenon, <1>3, UsageInv DEF Refund

-----------------------------------------------------------------------------

(* While thread_wakeup's loop runs, the threads it has passed do not sleep  *)
(* on its channel.                                                          *)
WakeInv ==
  waking # NotWaking =>
    /\ waking.chan \in Chans /\ waking.at < NUM_IDS
    /\ \A p \in Ids : p < waking.at
         => ~(sched.state[p] = "SLEEP" /\ sched.chan[p] = waking.chan)

IInv ==
  /\ TypeOK
  /\ SchedInv(sched, Procs)
  /\ ContInv(cont)
  /\ WakeInv
  /\ SignalsOK

(* The signal handle_pending_signals finds first is not SIGKILL, so the end *)
(* of trap() leaves the scheduler alone.                                    *)
LEMMA TrapReturnEffect ==
  ASSUME IInv, NEW p \in Ids, TrapReturn(p)
  PROVE  /\ UNCHANGED <<sched, ticks, waking, cont, exiting, target, panicked>>
         /\ \/ pending' = pending
            \/ \E sig \in pending[p] : pending' = [pending EXCEPT ![p] = @ \ {sig}]
<1>1. SIGKILL \notin pending[p]
  BY Zenon DEF IInv, SignalsOK
<1> QED BY Zenon, <1>1 DEF TrapReturn

(* A step that leaves the containers alone, and no thread_wakeup running,   *)
(* preserves the invariant when it preserves its parts on the rest.         *)
LEMMA Assemble ==
  ASSUME IInv, cont' = cont, TypeOK', SchedInv(sched', Procs),
         waking' = NotWaking \/ \E c \in Chans : waking' = Waking(c),
         SignalsOK'
  PROVE  IInv'
<1>1. Procs' = Procs
  BY Zenon DEF Procs
<1>2. SchedInv(sched, Procs)'
  BY Zenon, <1>1
<1>3. ContInv(cont')
  BY Zenon DEF IInv
<1>4. sched'.state[0] # "SLEEP" /\ 0 \in Ids
  BY NumIdsAssumption DEF SchedInv, Ids
<1>5. WakeInv'
  <2>1. ASSUME NEW c \in Chans, waking' = Waking(c) PROVE WakeInv'
    <3>1. waking'.chan = c /\ waking'.at = 1
      BY Zenon, <2>1 DEF Waking
    <3>2. \A p \in Ids : p < 1 => p = 0
      BY DEF Ids
    <3> QED BY <1>4, <3>1, <3>2, NumIdsAssumption DEF WakeInv
  <2> QED BY Zenon, <2>1 DEF WakeInv
<1> QED BY Zenon, <1>2, <1>3, <1>5 DEF IInv

-----------------------------------------------------------------------------

(* elf_load into a container keeps the container invariant.                 *)
LEMMA ElfLoadInv ==
  ASSUME NEW c, ContInv(c), NEW p \in Ids
  PROVE  ContInv(ElfLoad(c, p)) /\ ElfLoad(c, p).used = c.used
<1> DEFINE u == IF IMAGE_PAGES < c.quota[p] THEN IMAGE_PAGES ELSE c.quota[p]
<1>1. c.quota[p] \in Word
  BY Zenon, ContTypeFacts DEF ContInv
<1>2. u \in Word /\ u <= c.quota[p]
  BY <1>1, ProcAssumption, ContainerAssumption DEF Word
<1> QED BY <1>2, UsageInv DEF ElfLoad

LEMMA GotoType ==
  ASSUME IInv, NEW p \in Ids, NEW l \in Pcs, Goto(p, l)
  PROVE  pc' \in [Ids -> Pcs]
BY Zenon DEF IInv, TypeOK, Goto

(* A step in which no process dies keeps the signal invariant when it       *)
(* leaves the pending signals alone.                                        *)
LEMMA SignalsStep ==
  ASSUME SignalsOK, cont' = cont, pending' = pending,
         \A x \in Procs : sched'.state[x] = "DEAD" => sched.state[x] = "DEAD"
  PROVE  SignalsOK'
<1>1. Procs' = Procs
  BY Zenon DEF Procs
<1> QED BY Zenon, <1>1 DEF SignalsOK

LEMMA RunsFacts ==
  ASSUME IInv, NEW p \in Ids, NEW l, Runs(p, l)
  PROVE  /\ sched.cur = p /\ sched.cur # NULL /\ p \in Procs
         /\ waking = NotWaking /\ ~panicked /\ pc[p] = l
         /\ NotWaking \in [chan : Chans \cup {NoChan}, at : 1 .. NUM_IDS]
<1>1. p # NULL
  BY Zenon, NullNotId
<1>2. NotWaking \in [chan : Chans \cup {NoChan}, at : 1 .. NUM_IDS]
  BY NumIdsAssumption DEF NotWaking
<1> QED BY Zenon, <1>1, <1>2 DEF IInv, Runs, SchedInv, SchedConsistent

LEMMA WakingType ==
  ASSUME NEW c \in Chans
  PROVE  Waking(c) \in [chan : Chans \cup {NoChan}, at : 1 .. NUM_IDS]
BY NumIdsAssumption DEF Waking

(* A step whose only effect on the scheduler is thread_yield.               *)
LEMMA YieldStep ==
  ASSUME IInv, NEW p \in Ids, sched.cur = p, sched' = ThreadYield(sched),
         waking' = NotWaking, ticks' \in 0 .. SCHED_SLICE, pc' \in [Ids -> Pcs],
         UNCHANGED <<cont, pending, exiting, target, panicked>>
  PROVE  IInv'
<1>1. SchedInv(sched, Procs) /\ sched.cur # NULL
  BY Zenon, NullNotId DEF IInv
<1>2. /\ SchedInv(sched', Procs)
      /\ \A x \in Procs : sched'.state[x] = "DEAD" => sched.state[x] = "DEAD"
  BY Zenon, <1>1, YieldInv
<1>3. SignalsOK'
  BY Zenon, <1>2, SignalsStep DEF IInv
<1>4. TypeOK'
  <2>1. sched' \in SchedType
    BY Zenon, <1>2 DEF SchedInv
  <2>2. waking' \in [chan : Chans \cup {NoChan}, at : 1 .. NUM_IDS]
    BY NumIdsAssumption DEF NotWaking
  <2> QED BY Zenon, <2>1, <2>2 DEF IInv, TypeOK
<1> QED BY Zenon, <1>2, <1>3, <1>4, Assemble

(* A step that leaves the scheduler, the containers and the signals alone.  *)
LEMMA QuietStep ==
  ASSUME IInv, waking' = NotWaking \/ \E c \in Chans : waking' = Waking(c),
         ticks' \in 0 .. SCHED_SLICE, pc' \in [Ids -> Pcs],
         exiting' \subseteq Ids, target' \in [Ids -> Ids \cup {NULL}],
         UNCHANGED <<sched, cont, pending, panicked>>
  PROVE  IInv'
<1>1. SchedInv(sched', Procs)
  BY Zenon DEF IInv
<1>2. SignalsOK'
  BY Zenon, SignalsStep DEF IInv
<1>3. waking' \in [chan : Chans \cup {NoChan}, at : 1 .. NUM_IDS]
  <2>1. NotWaking \in [chan : Chans \cup {NoChan}, at : 1 .. NUM_IDS]
    BY NumIdsAssumption DEF NotWaking
  <2> QED BY Zenon, <2>1, WakingType
<1>4. TypeOK'
  BY Zenon, <1>3 DEF IInv, TypeOK
<1> QED BY Zenon, <1>1, <1>2, <1>4, Assemble

(* sys_exit and the refund of SIGKILL change the containers' usage only:    *)
(* the set of processes stays.                                              *)
LEMMA RefundStep ==
  ASSUME IInv, NEW v \in Ids, cont' = Refund(cont, cont.parent[v], cont.quota[v])
  PROVE  ContInv(cont') /\ cont'.used = cont.used /\ Procs' = Procs
<1>1. ContInv(cont) /\ cont.parent[v] \in Ids /\ cont.quota[v] \in Word
  BY Zenon, ContTypeFacts DEF IInv, ContInv
<1>2. ContInv(cont') /\ cont'.used = cont.used
  BY Zenon, <1>1, RefundInv
<1> QED BY Zenon, <1>2 DEF Procs

(* What the type invariant says of the variables no operator is about.      *)
LEMMA TypeParts ==
  ASSUME IInv
  PROVE  /\ ticks \in 0 .. SCHED_SLICE /\ pc \in [Ids -> Pcs] /\ exiting \subseteq Ids
         /\ target \in [Ids -> Ids \cup {NULL}] /\ panicked \in BOOLEAN
  BY Zenon DEF IInv, TypeOK

(* The invariant is inductive: one lemma per action.                        *)
LEMMA TimerInv ==
  ASSUME IInv, NEW p \in Ids, Timer(p)
  PROVE  IInv'
<1> USE DEF IInv
<1>1. sched.cur = p /\ waking' = NotWaking /\ pc' \in [Ids -> Pcs]
  BY Zenon, RunsFacts, GotoType DEF Timer, Pcs
<1>2. ticks' \in 0 .. SCHED_SLICE
  BY ProcAssumption DEF Timer, TypeOK
<1>3. CASE ticks + TICK_MS > SCHED_SLICE
  BY Zenon, <1>1, <1>2, <1>3, YieldStep DEF Timer
<1>4. CASE ~(ticks + TICK_MS > SCHED_SLICE)
  BY Zenon, TypeParts, <1>1, <1>2, <1>4, QuietStep DEF Timer
<1> QED BY Zenon, <1>3, <1>4

LEMMA IdeIntrInv ==
  ASSUME IInv, NEW p \in Ids, NEW c \in Chans, IdeIntr(p, c)
  PROVE  IInv'
<1> USE DEF IInv
<1>1. pc' \in [Ids -> Pcs]
  BY Zenon, GotoType DEF IdeIntr, Pcs
<1> QED BY Zenon, TypeParts, <1>1, QuietStep DEF IdeIntr

LEMMA OtherIntrInv ==
  ASSUME IInv, NEW p \in Ids, OtherIntr(p)
  PROVE  IInv'
<1> USE DEF IInv
<1>1. waking' = NotWaking /\ pc' \in [Ids -> Pcs]
  BY Zenon, RunsFacts, GotoType DEF OtherIntr, Pcs
<1> QED BY Zenon, TypeParts, <1>1, QuietStep DEF OtherIntr

LEMMA ExceptionInv ==
  ASSUME IInv, NEW p \in Ids, Exception(p)
  PROVE  IInv'
<1> USE DEF IInv
<1>1. /\ UNCHANGED <<sched, ticks, waking, cont, pending, pc, exiting, target>>
      /\ panicked' \in BOOLEAN
  BY Zenon DEF Exception
<1>2. Procs' = Procs
  BY Zenon, <1>1 DEF Procs
<1>3. TypeOK' /\ SignalsOK'
  BY Zenon, <1>1, <1>2 DEF TypeOK, SignalsOK
<1> QED BY Zenon, <1>1, <1>2, <1>3 DEF WakeInv

LEMMA PageFaultInv ==
  ASSUME IInv, NEW p \in Ids, NEW need \in 1 .. 2, NEW found \in 0 .. 2, PageFault(p, need, found)
  PROVE  IInv'
<1> USE DEF IInv
<1> DEFINE c1 == ContainerAlloc(cont, p)
<1>1. waking' = waking /\ waking = NotWaking /\ pc' \in [Ids -> Pcs]
  BY Zenon, RunsFacts, GotoType DEF PageFault, Pcs
<1>2. ContInv(c1) /\ c1.used = cont.used
  BY Zenon, AllocInv
<1>3. cont' = c1 \/ cont' = ContainerAlloc(c1, p)
  BY Zenon DEF PageFault
<1> HIDE DEF c1
<1>4. ContInv(cont') /\ cont'.used = cont.used
  BY Zenon, <1>2, <1>3, AllocInv
<1>5. Procs' = Procs
  BY Zenon, <1>4 DEF Procs
<1>6. panicked' \in BOOLEAN
  BY Zenon DEF PageFault
<1>7. UNCHANGED <<sched, ticks, pending, exiting, target>>
  BY Zenon DEF PageFault
<1>8. TypeOK'
  BY Zenon, <1>1, <1>4, <1>6, <1>7 DEF TypeOK, ContInv
<1>9. SignalsOK'
  BY Zenon, <1>5, <1>7 DEF SignalsOK
<1> QED BY Zenon, <1>1, <1>4, <1>5, <1>7, <1>8, <1>9 DEF WakeInv

LEMMA WakeStepInv ==
  ASSUME IInv, WakeStep
  PROVE  IInv'
<1> USE DEF IInv
<1> DEFINE c == waking.chan
           k == waking.at
<1>1. /\ waking # NotWaking /\ c \in Chans /\ k \in Nat /\ k < NUM_IDS
      /\ k \in Ids \ {0} /\ k >= 1
  BY NumIdsAssumption DEF WakeStep, WakeInv, TypeOK, Ids
<1>2. sched' = WakeOne(sched, c, k)
  BY Zenon DEF WakeStep
<1> HIDE DEF c, k
<1>3. /\ SchedInv(sched', Procs)
      /\ \A x \in Ids : x # k => /\ sched'.state[x] = sched.state[x]
                                 /\ sched'.chan[x] = sched.chan[x]
      /\ \A x \in Ids : \/ sched'.state[x] = sched.state[x]
                        \/ /\ sched.state[x] = "SLEEP"
                           /\ sched'.state[x] = "READY"
      /\ ~(sched'.state[k] = "SLEEP" /\ sched'.chan[k] = c)
  BY SMTT(30), <1>1, <1>2, WakeOneInv
<1>4. UNCHANGED <<ticks, cont, pending, pc, exiting, target, panicked>>
  BY Zenon DEF WakeStep
<1>5. Procs' = Procs /\ Procs \subseteq Ids
  BY Zenon, <1>4 DEF Procs
<1>6. SignalsOK'
  BY Zenon, <1>3, <1>4, <1>5, SignalsStep
<1>7. waking' = IF k + 1 < NUM_IDS THEN [waking EXCEPT !.at = k + 1]
                ELSE NotWaking
  BY Zenon DEF WakeStep, k
<1>8. waking' \in [chan : Chans \cup {NoChan}, at : 1 .. NUM_IDS]
  <2>1. NotWaking \in [chan : Chans \cup {NoChan}, at : 1 .. NUM_IDS]
    BY NumIdsAssumption DEF NotWaking
  <2>2. waking \in [chan : Chans \cup {NoChan}, at : 1 .. NUM_IDS]
    BY Zenon DEF TypeOK
  <2> QED BY <1>1, <1>7, <2>1, <2>2, NumIdsAssumption
<1>9. TypeOK'
  <2>1. sched' \in SchedType
    BY Zenon, <1>3 DEF SchedInv
  <2> QED BY Zenon, <1>4, <1>8, <2>1 DEF TypeOK
<1>10. WakeInv'
  <2>1. CASE k + 1 < NUM_IDS
    <3>1. waking'.chan = c /\ waking'.at = k + 1
      BY Zenon, <1>7, <2>1 DEF TypeOK, c
    <3>2. \A x \in Ids : x < k
            => ~(sched.state[x] = "SLEEP" /\ sched.chan[x] = c)
      BY Zenon, <1>1 DEF WakeInv, c, k
    <3>3. \A x \in Ids : x < k + 1 => x < k \/ x = k
      BY <1>1 DEF Ids
    <3>4. \A x \in Ids : x < k => x # k
      BY SMTT(30), <1>1
    <3>5. \A x \in Ids : x < k + 1
            => ~(sched'.state[x] = "SLEEP" /\ sched'.chan[x] = c)
      BY Zenon, <1>3, <3>2, <3>3, <3>4
    <3> QED BY Zenon, <1>1, <2>1, <3>1, <3>5 DEF WakeInv
  <2>2. CASE ~(k + 1 < NUM_IDS)
    BY Zenon, <1>7, <2>2 DEF WakeInv
  <2> QED BY Zenon, <2>1, <2>2
<1>11. ContInv(cont')
  BY Zenon, <1>4
<1> QED BY Zenon, <1>3, <1>5, <1>6, <1>9, <1>10, <1>11

LEMMA SysSpawnInv ==
  ASSUME IInv, NEW p \in Ids, NEW n \in Quotas, NEW known \in BOOLEAN, SysSpawn(p, n, known)
  PROVE  IInv'
<1> USE DEF IInv
<1>1. /\ sched.cur = p /\ p \in Procs /\ waking = NotWaking
      /\ pc' \in [Ids -> Pcs]
  BY Zenon, RunsFacts, GotoType DEF SysSpawn, Calls, Pcs
<1>2. CASE CanSpawn(p, n) /\ known
  <2> DEFINE child == NextChild(cont, p)
             c1 == ContainerSplit(cont, p, n)
  <2>1. n \in Word /\ cont.used[p]
    BY Zenon, <1>1, ProcAssumption DEF Procs
  <2>2. child \in Ids \ {0} /\ ~cont.used[child] /\ child # p
    BY Zenon, <1>2, <2>1, NextChildUnused DEF CanSpawn
  <2>3. /\ cont' = ElfLoad(c1, child)
        /\ sched' = ThreadSpawn(sched, child)
        /\ UNCHANGED <<ticks, waking, pending, exiting, target, panicked>>
    BY Zenon, <1>2 DEF SysSpawn
  <2>4. /\ ContInv(c1)
        /\ \A x \in Ids : c1.used[x] <=> cont.used[x] \/ x = child
    BY Zenon, <1>2, <2>1, <2>2, SplitInv DEF CanSpawn
  <2> HIDE DEF child, c1
  <2>5. ContInv(cont') /\ cont'.used = c1.used
    BY Zenon, <2>2, <2>3, <2>4, ElfLoadInv
  <2>6. Procs' = Procs \cup {child} /\ child \notin Procs
    BY Zenon, <2>2, <2>4, <2>5 DEF Procs
  <2>7. SchedInv(sched', Procs \cup {child})
    BY Zenon, <1>1, <2>2, <2>3, <2>6, SpawnInv
  <2>8. \A x \in Ids : sched'.state[x] = IF x = child THEN "READY"
                                         ELSE sched.state[x]
    BY Zenon, <2>2, <2>3, TypeFacts DEF ThreadSpawn, TypeOK
  <2>9. SignalsOK'
    BY Zenon, <2>3, <2>6, <2>8 DEF SignalsOK, Procs
  <2>10. TypeOK'
    <3>1. sched' \in SchedType /\ cont' \in ContainerType
      BY Zenon, <2>5, <2>7 DEF SchedInv, ContInv
    <3> QED BY Zenon, <1>1, <2>3, <3>1 DEF TypeOK
  <2> QED BY Zenon, <1>1, <2>3, <2>5, <2>6, <2>7, <2>9, <2>10 DEF WakeInv
<1>3. CASE ~(CanSpawn(p, n) /\ known)
  BY Zenon, TypeParts, <1>1, <1>3, QuietStep DEF SysSpawn
<1> QED BY Zenon, <1>2, <1>3

LEMMA SysYieldInv ==
  ASSUME IInv, NEW p \in Ids, SysYield(p)
  PROVE  IInv'
<1> USE DEF IInv
<1>1. sched.cur = p /\ waking' = NotWaking /\ pc' \in [Ids -> Pcs]
  BY Zenon, RunsFacts, GotoType DEF SysYield, Calls, Pcs
<1> QED BY Zenon, TypeParts, <1>1, YieldStep DEF SysYield

LEMMA SysKillInv ==
  ASSUME IInv, NEW p \in Ids, NEW v \in Ids, NEW sig \in Sigs, SysKill(p, v, sig)
  PROVE  IInv'
<1> USE DEF IInv
<1>1. /\ sched.cur = p /\ p \in Procs /\ waking = NotWaking
      /\ pc' \in [Ids -> Pcs]
  BY Zenon, RunsFacts, GotoType DEF SysKill, Calls, Pcs
<1>2. UNCHANGED <<ticks, exiting, target, panicked>>
  BY Zenon DEF SysKill
<1>3. CASE sig \notin 1 .. NSIG - 1 \/ sched.state[v] = "DEAD"
  <2>1. UNCHANGED <<sched, pending, cont, waking>>
    BY Zenon, <1>3 DEF SysKill
  <2> QED BY Zenon, TypeParts, <1>1, <1>2, <2>1, QuietStep
<1>4. CASE /\ ~(sig \notin 1 .. NSIG - 1 \/ sched.state[v] = "DEAD")
           /\ sig = SIGKILL
  <2>1. /\ sched' = Terminate(sched, v)
        /\ pending' = [pending EXCEPT ![v] = {}]
        /\ cont' = Refund(cont, cont.parent[v], cont.quota[v])
        /\ waking' = NotWaking
    BY Zenon, <1>1, <1>4 DEF SysKill
  <2>2. /\ SchedInv(sched', Procs)
        /\ \A x \in Ids : sched'.state[x] = IF x = v THEN "DEAD"
                                            ELSE sched.state[x]
    BY Zenon, <2>1, TerminateInv
  <2>3. ContInv(cont') /\ Procs' = Procs
    BY Zenon, <2>1, RefundStep
  <2>4. /\ pending' \in [Ids -> SUBSET (1 .. NSIG - 1)]
        /\ \A x \in Ids : pending'[x] = IF x = v THEN {} ELSE pending[x]
    BY Zenon, <2>1 DEF TypeOK
  <2>5. SignalsOK'
    BY Zenon, <2>2, <2>3, <2>4 DEF SignalsOK, Procs
  <2>6. TypeOK'
    <3>1. sched' \in SchedType /\ cont' \in ContainerType
      BY Zenon, <2>2, <2>3 DEF SchedInv, ContInv
    <3> QED BY Zenon, <1>1, <1>2, <2>1, <2>4, <3>1 DEF TypeOK
  <2> QED BY Zenon, <2>1, <2>2, <2>3, <2>5, <2>6 DEF WakeInv
<1>5. CASE /\ ~(sig \notin 1 .. NSIG - 1 \/ sched.state[v] = "DEAD")
           /\ sig # SIGKILL
  <2>1. /\ pending' = [pending EXCEPT ![v] = @ \cup {sig}]
        /\ waking' = IF sched.state[v] = "SLEEP" /\ sched.chan[v] # NoChan
                     THEN Waking(sched.chan[v]) ELSE waking
        /\ UNCHANGED <<sched, cont>>
    BY Zenon, <1>5 DEF SysKill
  <2>2. waking' = NotWaking \/ \E c \in Chans : waking' = Waking(c)
    <3>1. sched.chan[v] \in Chans \cup {NoChan}
      BY Zenon, TypeFacts DEF TypeOK
    <3> QED BY Zenon, <1>1, <2>1, <3>1
  <2>3. waking' \in [chan : Chans \cup {NoChan}, at : 1 .. NUM_IDS]
    <3>1. NotWaking \in [chan : Chans \cup {NoChan}, at : 1 .. NUM_IDS]
      BY NumIdsAssumption DEF NotWaking
    <3> QED BY Zenon, <2>2, <3>1, WakingType
  <2>4. /\ pending' \in [Ids -> SUBSET (1 .. NSIG - 1)]
        /\ \A x \in Ids : pending'[x] = IF x = v THEN pending[x] \cup {sig}
                                        ELSE pending[x]
    BY Zenon, <1>5, <2>1 DEF TypeOK
  <2>5. Procs' = Procs /\ Procs \subseteq Ids
    BY Zenon, <2>1 DEF Procs
  <2>6. SignalsOK'
    BY Zenon, <1>5, <2>1, <2>4, <2>5 DEF SignalsOK
  <2>7. TypeOK'
    BY Zenon, <1>1, <1>2, <2>1, <2>3, <2>4 DEF TypeOK
  <2>8. SchedInv(sched', Procs)
    BY Zenon, <2>1
  <2> QED BY Zenon, <2>1, <2>2, <2>6, <2>7, <2>8, Assemble
<1> QED BY Zenon, <1>3, <1>4, <1>5

LEMMA SysPauseInv ==
  ASSUME IInv, NEW p \in Ids, SysPause(p)
  PROVE  IInv'
<1> USE DEF IInv
<1>1. sched.cur = p /\ waking' = NotWaking /\ pc' \in [Ids -> Pcs]
  BY Zenon, RunsFacts, GotoType DEF SysPause, Calls, Pcs
<1>2. CASE pending[p] # {}
  BY Zenon, TypeParts, <1>1, <1>2, QuietStep DEF SysPause
<1>3. CASE pending[p] = {}
  <2> DEFINE w == [sched EXCEPT !.state[p] = "SLEEP"]
  <2>1. /\ w.q = sched.q /\ w.chan = sched.chan /\ w.cur = p
        /\ [w.state EXCEPT ![p] = "READY"] = [sched.state EXCEPT ![p] = "READY"]
    BY Zenon, <1>1, TypeFacts DEF TypeOK, SchedType
  <2>2. sched' = ThreadYield(w)
    BY Zenon, <1>3 DEF SysPause
  <2> HIDE DEF w
  <2>3. ThreadYield(w) = ThreadYield(sched)
    BY Zenon, <1>1, <2>1 DEF ThreadYield, ThreadSpawn, Dequeued, SwitchTo
  <2> QED BY Zenon, TypeParts, <1>1, <2>2, <2>3, YieldStep DEF SysPause
<1> QED BY Zenon, <1>2, <1>3

LEMMA SysWaitpidInv ==
  ASSUME IInv, NEW p \in Ids, NEW t \in Ids, SysWaitpid(p, t)
  PROVE  IInv'
<1> USE DEF IInv
<1>1. waking' = NotWaking /\ pc' \in [Ids -> Pcs]
  BY Zenon, RunsFacts, GotoType DEF SysWaitpid, Calls, Pcs
<1>2. target' \in [Ids -> Ids \cup {NULL}]
  BY Zenon DEF SysWaitpid, TypeOK
<1> QED BY Zenon, TypeParts, <1>1, <1>2, QuietStep DEF SysWaitpid

LEMMA WaitLoopInv ==
  ASSUME IInv, NEW p \in Ids, WaitLoop(p)
  PROVE  IInv'
<1> USE DEF IInv
<1>1. sched.cur = p /\ waking' = NotWaking
  BY Zenon, RunsFacts DEF WaitLoop
<1> QED BY Zenon, TypeParts, <1>1, YieldStep DEF WaitLoop

LEMMA WaitDoneInv ==
  ASSUME IInv, NEW p \in Ids, WaitDone(p)
  PROVE  IInv'
<1> USE DEF IInv
<1>1. waking' = NotWaking /\ pc' \in [Ids -> Pcs]
  BY Zenon, RunsFacts, GotoType DEF WaitDone, Pcs
<1>2. target' \in [Ids -> Ids \cup {NULL}]
  BY Zenon DEF WaitDone, TypeOK
<1> QED BY Zenon, TypeParts, <1>1, <1>2, QuietStep DEF WaitDone

LEMMA EnterKernelInv ==
  ASSUME IInv, NEW p \in Ids, EnterKernel(p)
  PROVE  IInv'
<1> USE DEF IInv
<1>1. waking' = NotWaking /\ pc' \in [Ids -> Pcs]
  BY Zenon, RunsFacts, GotoType DEF EnterKernel, Calls, Pcs
<1> QED BY Zenon, TypeParts, <1>1, QuietStep DEF EnterKernel

LEMMA SysExitInv ==
  ASSUME IInv, NEW p \in Ids, SysExit(p)
  PROVE  IInv'
<1> USE DEF IInv
<1>1. waking' = NotWaking /\ pc' \in [Ids -> Pcs]
  BY Zenon, RunsFacts, GotoType DEF SysExit, Calls, Pcs
<1>2. exiting' \subseteq Ids
  BY Zenon DEF SysExit, TypeOK
<1> QED BY Zenon, TypeParts, <1>1, <1>2, QuietStep DEF SysExit

LEMMA SleepStepInv ==
  ASSUME IInv, NEW p \in Ids, NEW c \in Chans, Sleep(p, c)
  PROVE  IInv'
<1> USE DEF IInv
<1>1. /\ sched.cur = p /\ sched.cur # NULL /\ waking' = NotWaking
      /\ pc' \in [Ids -> Pcs]
  BY Zenon, RunsFacts, GotoType DEF Sleep, Pcs
<1>2. /\ sched' = ThreadSleep(sched, c)
      /\ UNCHANGED <<ticks, waking, cont, pending, exiting, target, panicked>>
  BY Zenon DEF Sleep
<1>3. /\ SchedInv(sched', Procs)
      /\ \A x \in Procs : sched'.state[x] = "DEAD" => sched.state[x] = "DEAD"
  BY Zenon, <1>1, <1>2, SleepInv
<1>4. SignalsOK'
  BY Zenon, <1>2, <1>3, SignalsStep
<1>5. TypeOK'
  <2>1. sched' \in SchedType
    BY Zenon, <1>3 DEF SchedInv
  <2> QED BY Zenon, <1>1, <1>2, <2>1 DEF TypeOK
<1> QED BY Zenon, <1>1, <1>2, <1>3, <1>4, <1>5, Assemble

LEMMA ResumeInv ==
  ASSUME IInv, NEW p \in Ids, Resume(p)
  PROVE  IInv'
<1> USE DEF IInv
<1>1. /\ sched.cur = p /\ sched.cur # NULL /\ waking' = NotWaking
      /\ pc' \in [Ids -> Pcs]
  BY Zenon, RunsFacts, GotoType DEF Resume, Pcs
<1>2. /\ sched' = TidyUp(sched)
      /\ UNCHANGED <<ticks, waking, cont, pending, exiting, target, panicked>>
  BY Zenon DEF Resume
<1>3. SchedInv(sched', Procs) /\ sched'.state = sched.state
  BY Zenon, <1>1, <1>2, TidyUpInv
<1>4. SignalsOK'
  BY Zenon, <1>2, <1>3, SignalsStep
<1>5. TypeOK'
  <2>1. sched' \in SchedType
    BY Zenon, <1>3 DEF SchedInv
  <2> QED BY Zenon, <1>1, <1>2, <2>1 DEF TypeOK
<1> QED BY Zenon, <1>1, <1>2, <1>3, <1>4, <1>5, Assemble

LEMMA WakeupInv ==
  ASSUME IInv, NEW p \in Ids, NEW c \in Chans, Wakeup(p, c)
  PROVE  IInv'
BY Zenon, TypeParts, QuietStep DEF Wakeup

LEMMA LeaveKernelInv ==
  ASSUME IInv, NEW p \in Ids, LeaveKernel(p)
  PROVE  IInv'
<1> USE DEF IInv
<1>1. waking' = NotWaking /\ pc' \in [Ids -> Pcs]
  BY Zenon, RunsFacts, GotoType DEF LeaveKernel, Pcs
<1> QED BY Zenon, TypeParts, <1>1, QuietStep DEF LeaveKernel

LEMMA ExitDoneInv ==
  ASSUME IInv, NEW p \in Ids, ExitDone(p)
  PROVE  IInv'
<1> USE DEF IInv
<1> DEFINE w == Terminate(sched, p)
<1>1. /\ sched.cur = p /\ sched.cur # NULL /\ waking' = NotWaking
      /\ pc' \in [Ids -> Pcs] /\ p \in Procs
  BY Zenon, RunsFacts, GotoType DEF ExitDone, Pcs
<1>2. /\ sched' = ThreadExit(w)
      /\ pending' = [pending EXCEPT ![p] = {}]
      /\ cont' = Refund(cont, cont.parent[p], cont.quota[p])
      /\ exiting' = exiting \ {p}
      /\ UNCHANGED <<ticks, waking, target, panicked>>
  BY Zenon DEF ExitDone
<1>3. /\ SchedInv(w, Procs) /\ w.cur = p
      /\ \A x \in Ids : w.state[x] = IF x = p THEN "DEAD" ELSE sched.state[x]
  BY Zenon, <1>1, TerminateInv
<1> HIDE DEF w
<1>4. /\ SchedInv(sched', Procs)
      /\ \A x \in Procs : sched'.state[x] = "DEAD" => w.state[x] = "DEAD"
  BY SMTT(30), <1>1, <1>2, <1>3, ExitInv
<1>5. ContInv(cont') /\ Procs' = Procs
  BY Zenon, <1>2, RefundStep
<1>6. /\ pending' \in [Ids -> SUBSET (1 .. NSIG - 1)]
      /\ \A x \in Ids : pending'[x] = IF x = p THEN {} ELSE pending[x]
  BY Zenon, <1>2 DEF TypeOK
<1>7. SignalsOK'
  BY Zenon, <1>3, <1>4, <1>5, <1>6 DEF SignalsOK, Procs
<1>8. TypeOK'
  <2>1. sched' \in SchedType /\ cont' \in ContainerType
    BY Zenon, <1>4, <1>5 DEF SchedInv, ContInv
  <2> QED BY Zenon, <1>1, <1>2, <1>6, <2>1 DEF TypeOK
<1> QED BY Zenon, <1>1, <1>4, <1>5, <1>7, <1>8 DEF WakeInv

LEMMA TrapReturnInv ==
  ASSUME IInv, NEW p \in Ids, TrapReturn(p)
  PROVE  IInv'
<1> USE DEF IInv
<1>1. waking' = NotWaking /\ pc' \in [Ids -> Pcs]
  BY Zenon, RunsFacts, GotoType DEF TrapReturn, Pcs
<1>2. CASE pending' = pending
  BY Zenon, TypeParts, TrapReturnEffect, <1>1, <1>2, QuietStep
<1>3. CASE \E sig \in pending[p] : pending' = [pending EXCEPT ![p] = @ \ {sig}]
  <2>2. /\ \E sig \in pending[p] : pending' = [pending EXCEPT ![p] = @ \ {sig}]
        /\ UNCHANGED <<sched, ticks, waking, cont, exiting, target, panicked>>
    BY Zenon, <1>3, TrapReturnEffect
  <2>3. /\ pending' \in [Ids -> SUBSET (1 .. NSIG - 1)]
        /\ \A x \in Ids : pending'[x] \subseteq pending[x]
    BY Zenon, <2>2 DEF TypeOK
  <2>4. Procs' = Procs /\ Procs \subseteq Ids
    BY Zenon, <2>2 DEF Procs
  <2>5. SignalsOK'
    <3>1. \A x \in Ids : SIGKILL \notin pending'[x]
      BY Zenon, <2>3 DEF SignalsOK
    <3>2. \A x \in Procs : sched.state[x] = "DEAD" => pending'[x] = {}
      BY Zenon, <2>3, <2>4 DEF SignalsOK
    <3> QED BY Zenon, <2>2, <2>4, <3>1, <3>2 DEF SignalsOK
  <2>6. TypeOK'
    BY Zenon, <1>1, <2>2, <2>3 DEF TypeOK
  <2>7. SchedInv(sched', Procs)
    BY Zenon, <2>2
  <2> QED BY Zenon, <1>1, <2>2, <2>5, <2>6, <2>7, Assemble
<1> QED BY Zenon, TrapReturnEffect, <1>2, <1>3

(* The invariant is inductive: every step keeps it.                         *)
LEMMA NextInv == IInv /\ [Next]_vars => IInv'
<1> SUFFICES ASSUME IInv, [Next]_vars PROVE IInv'
  BY Zenon
<1>1. CASE UNCHANGED vars
  <2>1. Procs' = Procs
    BY Zenon, <1>1 DEF vars, Procs
  <2> QED BY Zenon, <1>1, <2>1 DEF vars, IInv, TypeOK, WakeInv, SignalsOK
<1> QED
  BY Zenon, <1>1, TimerInv, IdeIntrInv, OtherIntrInv, ExceptionInv,
     PageFaultInv, WakeStepInv, SysSpawnInv, SysYieldInv, SysKillInv,
     SysPauseInv, SysWaitpidInv, WaitLoopInv, WaitDoneInv, EnterKernelInv,
     SysExitInv, SleepStepInv, ResumeInv, WakeupInv, LeaveKernelInv,
     ExitDoneInv, TrapReturnInv
  DEF Next, Interrupt, Syscall, Kernel, Halted


(* The scheduler as kern_main leaves it: idle READY, the shell running.     *)
LEMMA BootSched ==
  ASSUME NEW g \in Ids \cup {NULL}, NEW b,
         b = LET s == ThreadSpawn(ThreadSpawn(ThreadInit(g), IDLE), SHELL)
             IN  SwitchTo([s EXCEPT !.q = Remove(s.q, SHELL)], SHELL)
  PROVE  /\ SchedInv(b, {IDLE, SHELL})
         /\ b.cur = SHELL /\ b.state[SHELL] = "RUN" /\ b.state[IDLE] = "READY"
<1> DEFINE s1 == ThreadSpawn(ThreadInit(g), IDLE)
           s2 == ThreadSpawn(s1, SHELL)
<1>1. /\ 0 \in Ids /\ 1 \in Ids /\ 2 \in Ids /\ NULL \notin Ids
      /\ 0 # NULL /\ 1 # NULL /\ 2 # NULL /\ IDLE = 1 /\ SHELL = 2
  BY NumIdsAssumption DEF Ids, NULL, IDLE, SHELL
<1> DEFINE s0 == ThreadInit(g)
<1>2. /\ s0 \in SchedType /\ s0.q.tail = NULL /\ s0.cur = 0
      /\ \A x \in Ids :
           /\ s0.q.prev[x] = IF x = g THEN NULL ELSE 0
           /\ s0.q.next[x] = IF x = g THEN NULL ELSE 0
           /\ s0.state[x] = IF x = 0 THEN "RUN"
                            ELSE IF x = g THEN "DEAD" ELSE "READY"
           /\ s0.chan[x] = NoChan
  BY Zenon, <1>1 DEF ThreadInit, SchedType, QueueType, States
<1> HIDE DEF s0
<1>3. /\ s1 \in SchedType /\ s1.q.head = 1 /\ s1.q.tail = 1
      /\ \A x \in Ids :
           /\ s1.q.prev[x] = IF x = 1 \/ x = g THEN NULL ELSE 0
           /\ s1.q.next[x] = IF x = 1 \/ x = g THEN NULL ELSE 0
           /\ s1.state[x] = IF x = 0 THEN "RUN"
                            ELSE IF x # 1 /\ x = g THEN "DEAD" ELSE "READY"
           /\ s1.chan[x] = NoChan
  <2>1. s1 = ThreadSpawn(s0, 1)
    BY Zenon, <1>1 DEF s0
  <2>2. s1 \in SchedType
    BY Zenon, <1>1, <1>2, <2>1, TypeFacts, EnqueueType
       DEF ThreadSpawn, SchedType, States
  <2>3. /\ s1.q = Enqueue(s0.q, 1) /\ s1.chan = s0.chan
        /\ s1.state = [s0.state EXCEPT ![1] = "READY"]
    BY Zenon, <2>1 DEF ThreadSpawn
  <2>4. s0.q \in QueueType /\ s0.state \in [Ids -> States]
    BY Zenon, <1>2, TypeFacts
  <2> HIDE DEF s1
  <2>5. /\ s1.q.head = 1 /\ s1.q.tail = 1
        /\ \A x \in Ids :
             /\ s1.q.prev[x] = IF x = 1 THEN NULL ELSE s0.q.prev[x]
             /\ s1.q.next[x] = IF x = 1 THEN NULL ELSE s0.q.next[x]
    BY <1>1, <1>2, <2>3, <2>4 DEF Enqueue, QueueType
  <2> QED BY <1>1, <1>2, <2>2, <2>3, <2>4, <2>5
<1> HIDE DEF s1
<1>4. /\ s2 \in SchedType /\ s2.q.head = 1 /\ s2.q.tail = 2
      /\ \A x \in Ids :
           /\ s2.q.prev[x] = IF x = 2 THEN 1
                             ELSE IF x = 1 \/ x = g THEN NULL ELSE 0
           /\ s2.q.next[x] = IF x = 1 THEN 2
                             ELSE IF x = 2 \/ x = g THEN NULL ELSE 0
           /\ s2.state[x] = IF x = 0 THEN "RUN"
                            ELSE IF x \notin {1, 2} /\ x = g THEN "DEAD"
                            ELSE "READY"
           /\ s2.chan[x] = NoChan
  <2>1. s2 = ThreadSpawn(s1, 2)
    BY Zenon, <1>1
  <2>2. s2 \in SchedType
    BY Zenon, <1>1, <1>3, <2>1, TypeFacts, EnqueueType
       DEF ThreadSpawn, SchedType, States
  <2>3. /\ s2.q = Enqueue(s1.q, 2) /\ s2.chan = s1.chan
        /\ s2.state = [s1.state EXCEPT ![2] = "READY"]
    BY Zenon, <2>1 DEF ThreadSpawn
  <2>4. s1.q \in QueueType /\ s1.state \in [Ids -> States]
    BY Zenon, <1>3, TypeFacts
  <2> HIDE DEF s2
  <2>5. /\ s2.q.head = 1 /\ s2.q.tail = 2
        /\ \A x \in Ids :
             /\ s2.q.prev[x] = IF x = 2 THEN 1 ELSE s1.q.prev[x]
             /\ s2.q.next[x] = IF x = 2 THEN NULL ELSE IF x = 1 THEN 2 ELSE s1.q.next[x]
    <3>1. s1.q.head = 1 /\ s1.q.tail = 1 /\ s1.q.tail # NULL
      BY Zenon, <1>1, <1>3
    <3>2. s2.q = [head |-> s1.q.head, tail |-> 2,
                  prev |-> [s1.q.prev EXCEPT ![2] = s1.q.tail],
                  next |-> [s1.q.next EXCEPT ![s1.q.tail] = 2, ![2] = NULL]]
      BY SMTT(30), <2>3, <3>1 DEF Enqueue
    <3> QED BY <1>1, <2>4, <3>1, <3>2 DEF QueueType
  <2> QED BY <1>1, <1>3, <2>2, <2>3, <2>4, <2>5
<1> DEFINE q3 == Remove(s2.q, 2)
<1>5. /\ q3.head = 1 /\ q3.tail = 1
      /\ \A x \in Ids :
           /\ q3.prev[x] = IF x \in {1, 2} \/ x = g THEN NULL ELSE 0
           /\ q3.next[x] = IF x \in {1, 2} \/ x = g THEN NULL ELSE 0
  <2> HIDE DEF s2
  <2>1. /\ s2.q.head = 1 /\ s2.q.prev[2] = 1 /\ s2.q.next[2] = NULL /\ 1 # 2
        /\ \A x \in Ids : x # NULL
    BY <1>1, <1>4
  <2>2. /\ q3.head = 1 /\ q3.tail = 1
        /\ \A x \in Ids :
             /\ q3.prev[x] = IF x = 2 THEN NULL ELSE s2.q.prev[x]
             /\ q3.next[x] = IF x = 2 THEN NULL ELSE IF x = 1 THEN NULL ELSE s2.q.next[x]
    BY Zenon, <1>1, <2>1 DEF Remove, Detached
  <2> HIDE DEF q3
  <2>3. ASSUME NEW x \in Ids
        PROVE  /\ q3.prev[x] = IF x \in {1, 2} \/ x = g THEN NULL ELSE 0
               /\ q3.next[x] = IF x \in {1, 2} \/ x = g THEN NULL ELSE 0
    <3>1. CASE x = 1 \/ x = 2
      BY ZenonT(30), <1>4, <2>1, <2>2, <3>1
    <3>2. CASE x # 1 /\ x # 2
      <4>1. /\ s2.q.prev[x] = IF x = g THEN NULL ELSE 0
            /\ s2.q.next[x] = IF x = g THEN NULL ELSE 0
        BY Zenon, <1>4, <3>2
      <4>2. q3.prev[x] = s2.q.prev[x] /\ q3.next[x] = s2.q.next[x]
        BY Zenon, <2>2, <3>2
      <4> QED BY Zenon, <3>2, <4>1, <4>2
    <3> QED BY Zenon, <3>1, <3>2
  <2> QED BY Zenon, <2>2, <2>3
<1>6. q3 \in QueueType
  <2> HIDE DEF s2
  <2> QED BY Zenon, <1>1, <1>4, RemoveType, TypeFacts
<1>7. /\ b \in SchedType /\ b.q = q3 /\ b.cur = 2
      /\ \A x \in Ids : b.state[x] = IF x = 0 \/ x = 2 THEN "RUN"
                                     ELSE IF x # 1 /\ x = g THEN "DEAD"
                                     ELSE "READY"
  <2> DEFINE w == [s2 EXCEPT !.q = q3]
  <2>1. b = SwitchTo(w, 2)
    BY Zenon, <1>1 DEF s1, s0
  <2> HIDE DEF s2, q3
  <2>2. w \in SchedType /\ w.q = q3 /\ w.state = s2.state /\ w.chan = s2.chan
    BY Zenon, <1>4, <1>6 DEF SchedType
  <2> HIDE DEF w
  <2>3. /\ b = [q |-> q3, state |-> [s2.state EXCEPT ![2] = "RUN"],
               chan |-> s2.chan, cur |-> 2]
        /\ s2.state \in [Ids -> States]
        /\ s2.chan \in [Ids -> Chans \cup {NoChan}]
    BY Zenon, <1>4, <2>1, <2>2, TypeFacts DEF SwitchTo
  <2>4. b.q = q3 /\ b.cur = 2 /\ b.state = [s2.state EXCEPT ![2] = "RUN"]
    BY <2>3
  <2>5. b \in SchedType
    BY <1>1, <1>6, <2>3 DEF SchedType, States
  <2> QED BY <1>1, <1>4, <2>3, <2>4, <2>5
<1> HIDE DEF s2, q3
<1>8. WellLinked(q3, {1, 2})
  BY Zenon, <1>1, <1>5 DEF WellLinked, InQueue
<1>9. SchedConsistent(b, {1, 2})
  BY <1>1, <1>5, <1>7, <1>8 DEF SchedConsistent, InQueue
<1>10. Ranked(q3, {1, 2})
  <2>1. [x \in Ids |-> 0] \in [Ids -> Int]
    OBVIOUS
  <2>2. /\ q3.next[1] = NULL /\ q3.head = 1 /\ q3.tail = 1
        /\ ~InQueue(q3, 2)
    BY <1>1, <1>5 DEF InQueue
  <2>3. Numbers([x \in Ids |-> 0], q3, {1, 2})
    BY <1>1, <2>2 DEF Numbers
  <2> QED BY Zenon, <2>1, <2>3 DEF Ranked
<1>11. \A x \in Ids \ {1, 2} : StrayLinks(q3, x) /\ b.state[x] # "SLEEP"
  BY <1>1, <1>5, <1>7 DEF StrayLinks
<1> QED BY <1>1, <1>7, <1>9, <1>10, <1>11 DEF SchedInv

(* The containers as kern_main leaves them.                                 *)
LEMMA BootCont ==
  ASSUME NEW d,
         d = LET c1 == ElfLoad(ContainerSplit(ContainerInit(REAL_QUOTA), 0,
                                              IdleQuota), IDLE)
             IN  ElfLoad(ContainerSplit(c1, 0, ShellQuota), SHELL)
  PROVE  ContInv(d) /\ \A p \in Ids : d.used[p] <=> p \in {0, IDLE, SHELL}
<1> DEFINE c0 == ContainerInit(REAL_QUOTA)
           b1 == ContainerSplit(c0, 0, IdleQuota)
           c1 == ElfLoad(b1, IDLE)
           b2 == ContainerSplit(c1, 0, ShellQuota)
<1>1. 0 \in Ids /\ 1 \in Ids /\ 2 \in Ids /\ IDLE = 1 /\ SHELL = 2
  BY NumIdsAssumption DEF Ids, IDLE, SHELL
<1>2. /\ 0 \in Word /\ REAL_QUOTA \in Nat /\ IdleQuota \in Nat
      /\ ShellQuota \in Nat /\ REAL_QUOTA < WORD /\ 0 \in 0 .. MAX_CHILDREN
  BY ProcAssumption, ContainerAssumption DEF Word
<1>3. /\ c0 \in ContainerType
      /\ \A p \in Ids : /\ c0.used[p] <=> p = 0
                        /\ c0.usage[p] = 0 /\ c0.nchildren[p] = 0
                        /\ c0.quota[p] = IF p = 0 THEN REAL_QUOTA ELSE 0
  BY Zenon, <1>1, <1>2, ProcAssumption DEF ContainerInit, ContainerType
<1> HIDE DEF c0
<1>4. ContInv(c0)
  BY <1>1, <1>2, <1>3 DEF ContInv
<1>5. NextChild(c0, 0) = 1 /\ CanConsume(c0, 0, IdleQuota)
  BY <1>1, <1>2, <1>3, ProcAssumption, ContainerAssumption
     DEF NextChild, CanConsume, WordAdd
<1>6. ContInv(b1) /\ \A p \in Ids : b1.used[p] <=> c0.used[p] \/ p = 1
  BY SMTT(30), <1>1, <1>3, <1>4, <1>5, SplitInv, ProcAssumption, ContainerAssumption
<1>7. /\ b1.nchildren[0] = 1 /\ b1.usage[0] = IdleQuota
      /\ b1.quota[0] = REAL_QUOTA
  <2>1. /\ b1.nchildren[0] = c0.nchildren[0] + 1
        /\ b1.usage[0] = WordAdd(c0.usage[0], IdleQuota)
        /\ b1.quota[0] = c0.quota[0]
    <3>1. c0.nchildren[0] # MAX_CHILDREN
      BY <1>1, <1>3, ContainerAssumption
    <3>2. IsSplit(c0, 0, IdleQuota, 1, b1)
      BY <1>1, <1>4, <1>5, <3>1, SplitFields, ProcAssumption
    <3> HIDE DEF b1
    <3>3. /\ \A p \in Ids : b1.quota[p] = IF p = 1 THEN IdleQuota ELSE c0.quota[p]
          /\ \A p \in Ids : b1.usage[p] = IF p = 0
                                          THEN WordAdd(c0.usage[0], IdleQuota)
                                          ELSE IF p = 1 THEN 0 ELSE c0.usage[p]
          /\ \A p \in Ids : b1.nchildren[p] = IF p = 0 THEN c0.nchildren[0] + 1
                                              ELSE IF p = 1 THEN 0
                                              ELSE c0.nchildren[p]
      BY Zenon, <3>2 DEF IsSplit
    <3> QED BY <1>1, <3>3
  <2>2. WordAdd(0, IdleQuota) = IdleQuota
    BY <1>2, ProcAssumption, ContainerAssumption DEF WordAdd
  <2> HIDE DEF b1
  <2> QED BY <1>1, <1>3, <2>1, <2>2
<1> HIDE DEF b1
<1>8. ContInv(c1) /\ c1.used = b1.used
  BY Zenon, <1>1, <1>6, ElfLoadInv
<1>9. /\ c1.nchildren[0] = 1 /\ c1.usage[0] = IdleQuota
      /\ c1.quota[0] = REAL_QUOTA
  BY <1>1, <1>6, <1>7, ContTypeFacts DEF ElfLoad, ContInv, ContainerType
<1> HIDE DEF c1
<1>10. NextChild(c1, 0) = 2 /\ CanConsume(c1, 0, ShellQuota)
  BY <1>1, <1>2, <1>9, ProcAssumption, ContainerAssumption
     DEF NextChild, CanConsume, WordAdd
<1>11. ContInv(b2) /\ \A p \in Ids : b2.used[p] <=> c1.used[p] \/ p = 2
  BY SMTT(30), <1>1, <1>3, <1>6, <1>8, <1>9, <1>10, SplitInv, ProcAssumption,
     ContainerAssumption
<1>12. d = ElfLoad(b2, 2)
  BY Zenon, <1>1 DEF c1, b1, c0
<1> HIDE DEF b2
<1>13. ContInv(d) /\ d.used = b2.used
  BY SMTT(30), <1>1, <1>11, <1>12, ElfLoadInv
<1>14. \A p \in Ids : b2.used[p] <=> p \in {0, 1, 2}
  BY Zenon, <1>3, <1>6, <1>8, <1>11
<1> QED BY Zenon, <1>1, <1>13, <1>14

LEMMA InitInv == Init => IInv
<1> SUFFICES ASSUME Init PROVE IInv
  BY Zenon
<1>1. /\ SchedInv(sched, {IDLE, SHELL})
      /\ sched.state[SHELL] = "RUN" /\ sched.state[IDLE] = "READY"
  BY Zenon, BootSched DEF Init
<1>2. ContInv(cont) /\ \A p \in Ids : cont.used[p] <=> p \in {0, IDLE, SHELL}
  BY Zenon, BootCont DEF Init
<1>3. Procs = {IDLE, SHELL}
  BY <1>2, NumIdsAssumption DEF Procs, Ids, IDLE, SHELL
<1>4. TypeOK
  <2>1. sched \in SchedType /\ cont \in ContainerType
    BY Zenon, <1>1, <1>2 DEF SchedInv, ContInv
  <2>2. waking \in [chan : Chans \cup {NoChan}, at : 1 .. NUM_IDS]
    BY NumIdsAssumption DEF Init, NotWaking
  <2>3. ticks \in 0 .. SCHED_SLICE
    BY ProcAssumption DEF Init
  <2> QED BY Zenon, <2>1, <2>2, <2>3 DEF Init, TypeOK, Pcs
<1>5. WakeInv
  BY Zenon DEF Init, WakeInv
<1>6. SignalsOK
  BY Zenon DEF Init, SignalsOK, Procs
<1> QED BY Zenon, <1>1, <1>2, <1>3, <1>4, <1>5, <1>6 DEF IInv

-----------------------------------------------------------------------------

(* sys_spawn takes one container into use.                                  *)
LEMMA SpawnUsed ==
  ASSUME IInv, NEW p \in Procs, NEW n \in Quotas, NEW known \in BOOLEAN,
         SysSpawn(p, n, known), CanSpawn(p, n), known
  PROVE  \A x \in Ids : cont'.used[x] <=> cont.used[x] \/ x = NextChild(cont, p)
<1> DEFINE child == NextChild(cont, p)
           c1 == ContainerSplit(cont, p, n)
<1>1. n \in Word /\ cont.used[p] /\ p \in Ids /\ ContInv(cont)
  BY Zenon, ProcAssumption DEF Procs, IInv
<1>2. child \in Ids \ {0} /\ ~cont.used[child] /\ child # p
  BY Zenon, <1>1, NextChildUnused DEF CanSpawn
<1>3. ContInv(c1) /\ \A x \in Ids : c1.used[x] <=> cont.used[x] \/ x = child
  BY Zenon, <1>1, <1>2, SplitInv DEF CanSpawn
<1>4. cont' = ElfLoad(c1, child)
  BY Zenon DEF SysSpawn
<1> HIDE DEF child, c1
<1>5. cont'.used = c1.used
  BY Zenon, <1>2, <1>3, <1>4, ElfLoadInv
<1> QED BY Zenon, <1>3, <1>5 DEF child

(* A process joins the ready queue: a new one, or one that slept.           *)
Joins(t) ==
  /\ sched'.q = Enqueue(sched.q, t)
  /\ Procs' = Procs \cup {t}
  /\ t # sched.cur /\ (t \in Procs => ~InQueue(sched.q, t))

(* The five ways a step moves the scheduler: it wakes or adds a thread, or  *)
(* the running thread yields, kills, sleeps or exits.                       *)
SchedMove ==
  \/ /\ sched'.cur = sched.cur
     /\ \A x \in Procs : sched.state[x] # "SLEEP"
                           => sched'.state[x] = sched.state[x]
     /\ \/ sched'.q = sched.q /\ Procs' = Procs
        \/ \E t \in Ids \ {0} : Joins(t)
  \/ /\ sched.cur # NULL /\ Procs' = Procs
     /\ \/ sched' = ThreadYield(sched)
        \/ \E v \in Ids : /\ <<sched.cur, v>> \in Kills
                          /\ sched' = Terminate(sched, v)
        \/ \E c \in Chans : /\ pc[sched.cur] = "kernel"
                            /\ sched' = ThreadSleep(sched, c)
        \/ /\ pc[sched.cur] = "kernel"
           /\ sched' = ThreadExit(Terminate(sched, sched.cur))

LEMMA Moves == IInv /\ [Next]_vars => SchedMove
<1> SUFFICES ASSUME IInv, [Next]_vars PROVE SchedMove
  BY Zenon
<1>T. TypeOK /\ SchedInv(sched, Procs) /\ Procs \subseteq Ids
  BY Zenon DEF IInv, Procs
<1>P. ASSUME cont'.used = cont.used PROVE Procs' = Procs
  BY Zenon, <1>P DEF Procs
<1>1. ASSUME sched' = sched, cont'.used = cont.used PROVE SchedMove
  BY Zenon, <1>1, <1>P DEF SchedMove
<1>2. ASSUME NEW p \in Ids, Interrupt(p) PROVE SchedMove
  <2>1. CASE Timer(p)
    <3>1. sched.cur # NULL
      BY Zenon, <2>1, RunsFacts DEF Timer
    <3>2. cont' = cont /\ (sched' = sched \/ sched' = ThreadYield(sched))
      BY Zenon, <2>1 DEF Timer
    <3> QED BY Zenon, <1>1, <1>P, <3>1, <3>2 DEF SchedMove
  <2>2. ASSUME \/ OtherIntr(p) \/ Exception(p) \/ \E c \in Chans : IdeIntr(p, c)
        PROVE  SchedMove
    BY Zenon, <1>1, <2>2 DEF OtherIntr, Exception, IdeIntr
  <2>3. ASSUME NEW need \in 1 .. 2, NEW found \in 0 .. 2,
               PageFault(p, need, found)
        PROVE  SchedMove
    <3>1. ASSUME NEW c, ContInv(c) PROVE ContainerAlloc(c, p).used = c.used
      BY Zenon, <3>1, AllocInv
    <3>2. /\ sched' = sched
          /\ \/ cont' = ContainerAlloc(cont, p)
             \/ cont' = ContainerAlloc(ContainerAlloc(cont, p), p)
      BY Zenon, <2>3 DEF PageFault
    <3>3. ContInv(cont) /\ ContInv(ContainerAlloc(cont, p))
      BY Zenon, AllocInv DEF IInv
    <3>4. cont'.used = cont.used
      BY Zenon, <3>1, <3>2, <3>3
    <3> QED BY Zenon, <1>1, <3>2, <3>4
  <2> QED BY Zenon, <1>2, <2>1, <2>2, <2>3 DEF Interrupt
<1>3. ASSUME WakeStep PROVE SchedMove
  <2>1. /\ waking.chan \in Chans /\ waking.at \in Ids \ {0}
    BY <1>3, <1>T, NumIdsAssumption DEF WakeStep, IInv, WakeInv, TypeOK, Ids
  <2>2. sched' = WakeOne(sched, waking.chan, waking.at)
    BY Zenon, <1>3 DEF WakeStep
  <2>3. /\ sched'.cur = sched.cur
        /\ \A x \in Ids : \/ sched'.state[x] = sched.state[x]
                          \/ sched.state[x] = "SLEEP"
    BY SMTT(30), <1>T, <2>1, <2>2, WakeOneInv
  <2>4. cont' = cont
    BY Zenon, <1>3 DEF WakeStep
  <2>5. \/ sched'.q = sched.q
        \/ /\ sched'.q = Enqueue(sched.q, waking.at)
           /\ sched.state[waking.at] = "SLEEP"
    BY Zenon, <2>2 DEF WakeOne
  <2>6. CASE sched'.q = sched.q
    BY Zenon, <1>P, <1>T, <2>3, <2>4, <2>6 DEF SchedMove
  <2>7. CASE sched'.q = Enqueue(sched.q, waking.at) /\ sched.state[waking.at] = "SLEEP"
    <3>1. waking.at \in Procs /\ ~InQueue(sched.q, waking.at) /\ waking.at # sched.cur
      BY Zenon, <1>T, <2>1, <2>7, NullNotId DEF SchedInv, SchedConsistent
    <3>2. Procs' = Procs \cup {waking.at}
      BY Zenon, <1>P, <2>4, <3>1
    <3>3. Joins(waking.at)
      BY Zenon, <2>7, <3>1, <3>2 DEF Joins
    <3> QED BY Zenon, <1>T, <2>1, <2>3, <3>3 DEF SchedMove
  <2> QED BY Zenon, <2>5, <2>6, <2>7
<1>4. ASSUME NEW p \in Ids, NEW n \in Quotas, NEW known \in BOOLEAN,
             SysSpawn(p, n, known)
      PROVE  SchedMove
  <2>1. CASE CanSpawn(p, n) /\ known
    <3>1. p \in Procs /\ cont.used[p] /\ n \in Word
      BY Zenon, <1>4, RunsFacts, ProcAssumption DEF SysSpawn, Calls, Procs
    <3>2. ~cont.used[NextChild(cont, p)]
      BY Zenon, <2>1, <3>1, NextChildUnused DEF CanSpawn, IInv
    <3>3. NextChild(cont, p) \notin Procs
      BY Zenon, <3>2 DEF Procs
    <3>4. sched' = ThreadSpawn(sched, NextChild(cont, p))
      BY Zenon, <1>4, <2>1 DEF SysSpawn
    <3>5. sched.state \in [Ids -> States]
      BY Zenon, <1>T, TypeFacts DEF TypeOK
    <3>6. /\ sched'.cur = sched.cur
          /\ \A x \in Procs : sched'.state[x] = sched.state[x]
      BY Zenon, <1>T, <3>3, <3>4, <3>5 DEF ThreadSpawn
    <3> DEFINE child == NextChild(cont, p)
    <3>7. child \in Ids \ {0} /\ ContInv(cont)
      BY Zenon, <2>1, <3>1, NextChildUnused DEF CanSpawn, IInv
    <3>8. \A x \in Ids : cont'.used[x] <=> cont.used[x] \/ x = child
      BY Zenon, <1>4, <2>1, <3>1, <3>7, SpawnUsed
    <3> HIDE DEF child
    <3>9. Procs' = Procs \cup {child}
      BY Zenon, <3>7, <3>8 DEF Procs
    <3>10. Joins(child)
      <4>1. child \notin Procs /\ sched.cur \in Procs
        BY Zenon, <1>4, <3>3, RunsFacts DEF SysSpawn, Calls, child
      <4>2. sched'.q = Enqueue(sched.q, child)
        BY Zenon, <3>4 DEF ThreadSpawn, child
      <4> QED BY Zenon, <3>9, <4>1, <4>2 DEF Joins
    <3> QED BY Zenon, <3>6, <3>7, <3>10 DEF SchedMove
  <2>2. CASE ~(CanSpawn(p, n) /\ known)
    BY Zenon, <1>1, <1>4, <2>2 DEF SysSpawn
  <2> QED BY Zenon, <2>1, <2>2
<1>5. ASSUME NEW p \in Ids, SysYield(p) PROVE SchedMove
  BY Zenon, <1>5, <1>P, RunsFacts DEF SysYield, Calls, SchedMove
<1>6. ASSUME NEW p \in Ids, NEW v \in Ids, NEW sig \in Sigs, SysKill(p, v, sig)
      PROVE  SchedMove
  <2>1. sched.cur = p /\ sched.cur # NULL /\ <<p, v>> \in Kills
    BY Zenon, <1>6, RunsFacts DEF SysKill, Calls
  <2>2. sched' = sched \/ sched' = Terminate(sched, v)
    BY Zenon, <1>6 DEF SysKill
  <2>3. cont' = cont \/ cont' = Refund(cont, cont.parent[v], cont.quota[v])
    BY Zenon, <1>6 DEF SysKill
  <2>4. Procs' = Procs
    BY Zenon, <1>P, <2>3, RefundStep
  <2> QED BY Zenon, <2>1, <2>2, <2>4 DEF SchedMove
<1>7. ASSUME NEW p \in Ids, SysPause(p) PROVE SchedMove
  <2>1. sched.cur = p /\ sched.cur # NULL
    BY Zenon, <1>7, RunsFacts DEF SysPause, Calls
  <2>2. CASE pending[p] # {}
    BY Zenon, <1>1, <1>7, <2>2 DEF SysPause
  <2>4. Procs' = Procs
    BY Zenon, <1>7, <1>P DEF SysPause
  <2>3. CASE pending[p] = {}
    <3> DEFINE w == [sched EXCEPT !.state[p] = "SLEEP"]
    <3>1. /\ w.q = sched.q /\ w.chan = sched.chan /\ w.cur = p
          /\ [w.state EXCEPT ![p] = "READY"] = [sched.state EXCEPT ![p] = "READY"]
      BY Zenon, <1>T, <2>1, TypeFacts DEF TypeOK, SchedType
    <3>2. sched' = ThreadYield(w)
      BY Zenon, <1>7, <2>3 DEF SysPause
    <3> HIDE DEF w
    <3>3. ThreadYield(w) = ThreadYield(sched)
      BY Zenon, <2>1, <3>1 DEF ThreadYield, ThreadSpawn, Dequeued, SwitchTo
    <3> QED BY Zenon, <2>1, <2>4, <3>2, <3>3 DEF SchedMove
  <2> QED BY Zenon, <2>2, <2>3
<1>8. ASSUME NEW p \in Ids, NEW c \in Chans, Sleep(p, c) PROVE SchedMove
  BY Zenon, <1>8, <1>P, RunsFacts DEF Sleep, SchedMove
<1>9. ASSUME NEW p \in Ids, Resume(p) PROVE SchedMove
  BY Zenon, <1>9, <1>P DEF Resume, TidyUp, SchedMove
<1>10. ASSUME NEW p \in Ids, ExitDone(p) PROVE SchedMove
  <2>1. Procs' = Procs
    BY Zenon, <1>10, RefundStep DEF ExitDone
  <2> QED BY Zenon, <1>10, <2>1, RunsFacts DEF ExitDone, SchedMove
<1>11. ASSUME NEW p \in Ids, TrapReturn(p) PROVE SchedMove
  <2>1. sched' = sched /\ cont' = cont
    BY Zenon, <1>11, TrapReturnEffect
  <2> QED BY Zenon, <1>1, <2>1
<1>12. ASSUME NEW p \in Ids, WaitLoop(p) PROVE SchedMove
  BY Zenon, <1>12, <1>P, RunsFacts DEF WaitLoop, SchedMove
<1>13. ASSUME NEW p \in Ids,
              \/ \E t \in Ids : SysWaitpid(p, t)
              \/ EnterKernel(p) \/ SysExit(p) \/ WaitDone(p) \/ LeaveKernel(p)
              \/ \E c \in Chans : Wakeup(p, c)
       PROVE  SchedMove
  <2>1. sched' = sched /\ cont' = cont
    BY Zenon, <1>13
       DEF SysWaitpid, EnterKernel, SysExit, WaitDone, LeaveKernel, Wakeup
  <2> QED BY Zenon, <1>1, <2>1
<1>14. CASE UNCHANGED vars
  BY Zenon, <1>1, <1>14 DEF vars
<1> QED BY Zenon, <1>2, <1>3, <1>4, <1>5, <1>6, <1>7, <1>8, <1>9, <1>10,
           <1>11, <1>12, 
           <1>13, <1>14
    DEF Next, Syscall, Kernel, Halted

(* idle never leaves its loop: it is in user mode or in an interrupt.       *)
IdleLoops == pc[IDLE] \in {"user", "ret"}

LEMMA IdleLoopsStep == TypeOK /\ IdleLoops /\ [Next]_vars => IdleLoops'
<1> SUFFICES ASSUME TypeOK, IdleLoops, [Next]_vars PROVE IdleLoops'
  BY Zenon
<1>1. IDLE \in Ids /\ pc \in [Ids -> Pcs]
  BY NumIdsAssumption DEF Ids, IDLE, TypeOK
<1>2. ASSUME NEW p \in Ids, NEW l, Goto(p, l), p = IDLE => l \in {"user", "ret"}
      PROVE  IdleLoops'
  BY Zenon, <1>1, <1>2 DEF Goto, IdleLoops
<1>3. ASSUME NEW p \in Ids, Interrupt(p) PROVE IdleLoops'
  <2>1. Goto(p, "ret") \/ pc' = pc
    <3>1. ASSUME NEW need \in 1 .. 2, NEW found \in 0 .. 2,
                 PageFault(p, need, found)
          PROVE  Goto(p, "ret")
      BY Zenon, <3>1 DEF PageFault
    <3> QED BY Zenon, <1>3, <3>1
               DEF Interrupt, Timer, IdeIntr, OtherIntr, Exception
  <2> QED BY Zenon, <1>2, <2>1 DEF IdleLoops
<1>4. ASSUME NEW p \in Ids, Syscall(p) PROVE IdleLoops'
  <2>1. p # IDLE /\ \E l : Goto(p, l)
    <3>1. ASSUME NEW v \in Ids, NEW sig \in Sigs, SysKill(p, v, sig)
          PROVE  Calls(p) /\ Goto(p, "ret")
      BY Zenon, <3>1 DEF SysKill
    <3>2. ASSUME NEW n \in Quotas, NEW known \in BOOLEAN, SysSpawn(p, n, known)
          PROVE  Calls(p) /\ Goto(p, "ret")
      BY Zenon, <3>2 DEF SysSpawn
    <3>3. CASE SysYield(p) \/ SysPause(p) \/ EnterKernel(p) \/ SysExit(p)
                \/ \E t \in Ids : SysWaitpid(p, t)
      BY Zenon, <3>3
         DEF SysYield, SysPause, EnterKernel, SysExit, SysWaitpid, Calls
    <3> QED BY Zenon, <1>4, <3>1, <3>2, <3>3 DEF Syscall, Calls
  <2> QED BY Zenon, <1>2, <2>1
<1>5. ASSUME NEW p \in Ids, Kernel(p) PROVE IdleLoops'
  <2>1. CASE \/ WaitDone(p) \/ LeaveKernel(p) \/ ExitDone(p) \/ TrapReturn(p)
             \/ Resume(p) \/ \E c \in Chans : Sleep(p, c)
    BY Zenon, <1>2, <2>1
       DEF WaitDone, LeaveKernel, ExitDone, TrapReturn, Resume, Sleep, Runs,
           IdleLoops
  <2>2. CASE WaitLoop(p) \/ \E c \in Chans : Wakeup(p, c)
    BY Zenon, <2>2 DEF WaitLoop, Wakeup, IdleLoops
  <2> QED BY Zenon, <1>5, <2>1, <2>2 DEF Kernel
<1>6. CASE WakeStep \/ UNCHANGED vars
  BY Zenon, <1>6 DEF WakeStep, vars, IdleLoops
<1> QED BY Zenon, <1>3, <1>4, <1>5, <1>6 DEF Next, Halted

(* idle is alive, and the processor runs a thread: where no program kills   *)
(* idle, each kind of step keeps both, because a sleeper is never idle and  *)
(* so idle is READY when it looks for a thread to run.                      *)
LiveInv == IdleLoops /\ IdleAlive /\ AlwaysSomeoneToRun

LEMMA LiveStep ==
  ASSUME IInv, [Next]_vars, NoIdleKill, LiveInv
  PROVE  LiveInv'
<1>1. /\ SchedInv(sched, Procs) /\ TypeOK /\ IDLE \in Procs /\ IDLE \in Ids
      /\ sched.cur # NULL /\ sched.cur \in Procs /\ sched.cur \in Ids
      /\ sched.state[IDLE] \in {"READY", "RUN"}
  BY Zenon
     DEF IInv, LiveInv, AlwaysSomeoneToRun, IdleAlive, SchedInv,
         SchedConsistent
<1>2. IdleLoops'
  BY Zenon, <1>1, IdleLoopsStep DEF LiveInv
<1>3. SchedMove
  BY Zenon, Moves
<1>4. IdleAlive' /\ AlwaysSomeoneToRun'
  <2>1. CASE /\ sched'.cur = sched.cur
             /\ \A x \in Procs : sched.state[x] # "SLEEP"
                                   => sched'.state[x] = sched.state[x]
    BY Zenon, <1>1, <2>1 DEF IdleAlive, AlwaysSomeoneToRun
  <2>2. CASE sched' = ThreadYield(sched)
    <3>1. ThreadYield(sched).cur \in Procs
      BY Zenon, <1>1, YieldInv
    <3>2. ThreadYield(sched).state[IDLE] \in {"READY", "RUN"}
      BY Zenon, <1>1, YieldInv
    <3> QED BY Zenon, <2>2, <3>1, <3>2, NullNotId
            DEF IdleAlive, AlwaysSomeoneToRun, Procs
  <2>3. ASSUME NEW v \in Ids, <<sched.cur, v>> \in Kills,
               sched' = Terminate(sched, v)
        PROVE  IdleAlive' /\ AlwaysSomeoneToRun'
    <3>1. v # IDLE
      BY Zenon, <1>1, <2>3 DEF NoIdleKill
    <3>2. sched'.cur = sched.cur /\ sched'.state[IDLE] = sched.state[IDLE]
      BY SMTT(30), <1>1, <2>3, <3>1, TerminateInv
    <3> QED BY Zenon, <1>1, <3>2 DEF IdleAlive, AlwaysSomeoneToRun
  <2>4. ASSUME NEW c \in Chans, pc[sched.cur] = "kernel",
               sched' = ThreadSleep(sched, c)
        PROVE  IdleAlive' /\ AlwaysSomeoneToRun'
    <3>1. sched.cur # IDLE
      BY Zenon, <2>4 DEF LiveInv, IdleLoops
    <3>2. sched.state[IDLE] = "READY"
      BY Zenon, <1>1, <3>1 DEF SchedInv, SchedConsistent
    <3>3. /\ sched'.cur \in Procs
          /\ sched'.state[IDLE] \in {"READY", "RUN"}
      BY SMTT(30), <1>1, <2>4, <3>1, <3>2, SleepInv
    <3> QED BY Zenon, <3>3, NullNotId DEF IdleAlive, AlwaysSomeoneToRun, Procs
  <2>5. CASE /\ pc[sched.cur] = "kernel"
             /\ sched' = ThreadExit(Terminate(sched, sched.cur))
    <3> DEFINE w == Terminate(sched, sched.cur)
    <3>1. sched.cur # IDLE
      BY Zenon, <2>5 DEF LiveInv, IdleLoops
    <3>2. /\ SchedInv(w, Procs) /\ w.cur = sched.cur
          /\ w.state[w.cur] = "DEAD" /\ w.state[IDLE] \in {"READY", "RUN"}
      BY SMTT(30), <1>1, <3>1, TerminateInv
    <3> HIDE DEF w
    <3>3. ThreadExit(w).cur \in Procs /\ ThreadExit(w).state[IDLE] \in {"READY", "RUN"}
      BY Zenon, <1>1, <3>2, ExitInv
    <3>4. sched' = ThreadExit(w)
      BY Zenon, <2>5 DEF w
    <3> QED BY Zenon, <3>3, <3>4, NullNotId
               DEF IdleAlive, AlwaysSomeoneToRun, Procs
  <2> QED BY Zenon, <1>3, <2>1, <2>2, <2>3, <2>4, <2>5 DEF SchedMove
<1> QED BY Zenon, <1>2, <1>4 DEF LiveInv

(* Where moreover no program kills itself, the running thread is in state   *)
(* RUN, and no step revives a DEAD one.                                     *)
CurRuns == sched.state[sched.cur] = "RUN"

NoRevival ==
  \A p \in Procs : sched.state[p] = "DEAD" => sched'.state[p] = "DEAD"

LEMMA RevivalStep ==
  ASSUME IInv, [Next]_vars, NoIdleKill, NoSelfKill, LiveInv, CurRuns
  PROVE  CurRuns' /\ NoRevival
<1>1. /\ SchedInv(sched, Procs) /\ IDLE \in Procs /\ IDLE \in Ids
      /\ sched.cur # NULL /\ sched.cur \in Procs /\ sched.cur \in Ids
      /\ sched.state[IDLE] \in {"READY", "RUN"} /\ Procs \subseteq Ids
      /\ sched.state[sched.cur] = "RUN"
  BY Zenon
     DEF IInv, LiveInv, AlwaysSomeoneToRun, IdleAlive, SchedInv,
         SchedConsistent, CurRuns, Procs
<1>2. SchedMove
  BY Zenon, Moves
<1>3. CASE /\ sched'.cur = sched.cur
           /\ \A x \in Procs : sched.state[x] # "SLEEP"
                                 => sched'.state[x] = sched.state[x]
  BY Zenon, <1>1, <1>3 DEF CurRuns, NoRevival
<1>4. CASE sched' = ThreadYield(sched)
  <2>1. ThreadYield(sched).state[ThreadYield(sched).cur] = "RUN"
    BY Zenon, <1>1, YieldInv
  <2>2. \A x \in Procs : x # sched.cur /\ sched.state[x] \in {"DEAD", "SLEEP"}
          => ThreadYield(sched).state[x] = sched.state[x]
    BY Zenon, <1>1, YieldInv
  <2>3. CurRuns'
    BY Zenon, <1>4, <2>1 DEF CurRuns
  <2>4. NoRevival
    BY Zenon, <1>1, <1>4, <2>2 DEF NoRevival
  <2> QED BY Zenon, <2>3, <2>4
<1>5. ASSUME NEW v \in Ids, <<sched.cur, v>> \in Kills,
             sched' = Terminate(sched, v)
      PROVE  CurRuns' /\ NoRevival
  <2>1. v # sched.cur
    BY Zenon, <1>1, <1>5 DEF NoSelfKill
  <2>2. /\ sched'.cur = sched.cur
        /\ \A x \in Ids : sched'.state[x] = IF x = v THEN "DEAD" ELSE sched.state[x]
    BY SMTT(30), <1>1, <1>5, TerminateInv
  <2> QED BY Zenon, <1>1, <2>1, <2>2 DEF CurRuns, NoRevival
<1>6. ASSUME NEW c \in Chans, pc[sched.cur] = "kernel",
             sched' = ThreadSleep(sched, c)
      PROVE  CurRuns' /\ NoRevival
  <2>1. sched.cur # IDLE
    BY Zenon, <1>6 DEF LiveInv, IdleLoops
  <2>2. sched.state[IDLE] = "READY"
    BY Zenon, <1>1, <2>1 DEF SchedInv, SchedConsistent
  <2>3. /\ sched'.state[sched'.cur] = "RUN"
        /\ \A x \in Procs : x # sched.cur /\ sched.state[x] = "DEAD"
             => sched'.state[x] = "DEAD"
    <3>1. ThreadSleep(sched, c).state[ThreadSleep(sched, c).cur] = "RUN"
      BY SMTT(30), <1>1, <2>2, SleepInv
    <3>2. \A x \in Procs : x # sched.cur /\ sched.state[x] = "DEAD"
            => ThreadSleep(sched, c).state[x] = "DEAD"
      BY SMTT(30), <1>1, SleepInv
    <3> QED BY Zenon, <1>6, <3>1, <3>2
  <2> QED BY Zenon, <1>1, <2>3 DEF CurRuns, NoRevival
<1>7. CASE /\ pc[sched.cur] = "kernel"
           /\ sched' = ThreadExit(Terminate(sched, sched.cur))
  <2> DEFINE w == Terminate(sched, sched.cur)
  <2>1. sched.cur # IDLE
    BY Zenon, <1>7 DEF LiveInv, IdleLoops
  <2>2. /\ SchedInv(w, Procs) /\ w.cur = sched.cur /\ w.state[w.cur] = "DEAD"
        /\ w.state[IDLE] \in {"READY", "RUN"}
        /\ \A x \in Procs : sched.state[x] = "DEAD" => w.state[x] = "DEAD"
    <3>1. /\ SchedInv(w, Procs) /\ w.cur = sched.cur
          /\ \A x \in Ids : w.state[x] = IF x = sched.cur THEN "DEAD"
                                         ELSE sched.state[x]
      BY Zenon, <1>1, TerminateInv
    <3> QED BY Zenon, <1>1, <2>1, <3>1
  <2> HIDE DEF w
  <2>3. /\ ThreadExit(w).state[ThreadExit(w).cur] = "RUN"
        /\ \A x \in Procs : w.state[x] = "DEAD" => ThreadExit(w).state[x] = "DEAD"
    BY SMTT(30), <1>1, <2>2, ExitInv
  <2>4. sched' = ThreadExit(w)
    BY Zenon, <1>7 DEF w
  <2> QED BY Zenon, <2>2, <2>3, <2>4 DEF CurRuns, NoRevival
<1> QED BY Zenon, <1>2, <1>3, <1>4, <1>5, <1>6, <1>7 DEF SchedMove

LEMMA LiveInit == Init => LiveInv /\ CurRuns
<1> SUFFICES ASSUME Init PROVE LiveInv /\ CurRuns
  BY Zenon
<1>1. /\ sched.cur = SHELL /\ sched.state[SHELL] = "RUN"
      /\ sched.state[IDLE] = "READY"
  BY Zenon, BootSched DEF Init
<1>2. IDLE \in Ids /\ SHELL \in Ids
  BY NumIdsAssumption DEF Ids, IDLE, SHELL
<1> QED BY Zenon, <1>1, <1>2, NullNotId
    DEF LiveInv, CurRuns, IdleLoops, IdleAlive, AlwaysSomeoneToRun, Init

-----------------------------------------------------------------------------

(* Induction over the natural numbers, for a set.                           *)
LEMMA NatSetInduction ==
  ASSUME NEW S, 0 \in S, \A n \in Nat : n \in S => n + 1 \in S
  PROVE  Nat \subseteq S
<1> DEFINE B == Nat \ S
<1> SUFFICES ASSUME B # {} PROVE FALSE
  BY Zenon
<1>1. PICK x \in B : \A y \in B : ~(<<y, x>> \in OpToRel(<, Nat))
  BY Zenon, NatLessThanWellFounded, WFMin
<1>2. x \in Nat /\ x # 0 /\ x - 1 \in Nat /\ x - 1 < x /\ x = (x - 1) + 1
  <2>1. x \in Nat /\ x # 0
    BY Zenon
  <2> QED BY <2>1
<1>3. x - 1 \in S
  BY Zenon, <1>1, <1>2 DEF OpToRel
<1> QED BY Zenon, <1>1, <1>2, <1>3

(* s[k] is the sum of the first k values of f, for k up to n.               *)
Sums(s, f, n) == s = [k \in 0 .. n |-> IF k = 0 THEN 0 ELSE s[k - 1] + f[k - 1]]

(* The recursive function that SumBelow chooses exists.                     *)
LEMMA SumsExist ==
  ASSUME NEW f, NEW n \in Nat
  PROVE  \E s : Sums(s, f, n)
<1> DEFINE S == {k \in Nat : \E s : Sums(s, f, k)}
<1>1. 0 \in S
  <2>1. Sums([k \in 0 .. 0 |-> 0], f, 0)
    BY DEF Sums
  <2> QED BY Zenon, <2>1
<1>2. ASSUME NEW k \in Nat, k \in S PROVE k + 1 \in S
  <2>1. PICK g : Sums(g, f, k)
    BY Zenon, <1>2
  <2> DEFINE s == [j \in 0 .. k + 1 |-> IF j = k + 1 THEN g[k] + f[k] ELSE g[j]]
             h == [j \in 0 .. k + 1 |-> IF j = 0 THEN 0 ELSE s[j - 1] + f[j - 1]]
  <2>2. ASSUME NEW j \in 0 .. k + 1 PROVE s[j] = h[j]
    <3>1. CASE j = k + 1
      BY <3>1
    <3>2. CASE j # k + 1 /\ j = 0
      <4>1. g[0] = 0
        BY <2>1 DEF Sums
      <4> QED BY <3>2, <4>1
    <3>3. CASE j # k + 1 /\ j # 0
      <4>1. j \in 0 .. k /\ j - 1 \in 0 .. k + 1 /\ j - 1 # k + 1
        BY <3>3
      <4>2. g[j] = g[j - 1] + f[j - 1]
        BY Zenon, <2>1, <3>3, <4>1 DEF Sums
      <4>3. s[j] = g[j] /\ s[j - 1] = g[j - 1]
        BY Zenon, <3>3, <4>1
      <4> QED BY Zenon, <3>3, <4>2, <4>3
    <3> QED BY Zenon, <3>1, <3>2, <3>3
  <2>3. s = h
    BY Zenon, <2>2
  <2>4. Sums(s, f, k + 1)
    BY Zenon, <2>3 DEF Sums
  <2>5. k + 1 \in Nat
    OBVIOUS
  <2> QED BY Zenon, <2>4, <2>5
<1> HIDE DEF S
<1>3. Nat \subseteq S
  BY Zenon, <1>1, <1>2, NatSetInduction
<1> QED BY Zenon, <1>3 DEF S

(* So SumBelow is its last value.                                           *)
LEMMA SumBelowIs ==
  ASSUME NEW f, NEW n \in Nat
  PROVE  \E s : Sums(s, f, n) /\ SumBelow(f, n) = s[n]
<1>1. Sums(CHOOSE s : Sums(s, f, n), f, n)
  BY Zenon, SumsExist
<1>2. SumBelow(f, n) = (CHOOSE s : Sums(s, f, n))[n]
  BY Zenon DEF SumBelow, Sums
<1> QED BY Zenon, <1>1, <1>2

(* g is f but for its value at k.                                           *)
DiffersAt(f, g, k, n) ==
  /\ k \in 0 .. n - 1
  /\ \A j \in 0 .. n - 1 : f[j] \in Nat /\ g[j] \in Nat
  /\ \A j \in 0 .. n - 1 : j # k => g[j] = f[j]

(* The sum with one value changed.                                          *)
LEMMA SumChange ==
  ASSUME NEW n \in Nat, NEW f, NEW g, NEW k, DiffersAt(f, g, k, n)
  PROVE  /\ SumBelow(f, n) \in Nat /\ SumBelow(g, n) \in Nat
         /\ SumBelow(g, n) = SumBelow(f, n) - f[k] + g[k]
<1>1. PICK s : Sums(s, f, n) /\ SumBelow(f, n) = s[n]
  BY Zenon, SumBelowIs
<1>2. PICK t : Sums(t, g, n) /\ SumBelow(g, n) = t[n]
  BY Zenon, SumBelowIs
<1> DEFINE Good(j) == /\ s[j] \in Nat /\ t[j] \in Nat
                      /\ t[j] = IF j <= k THEN s[j] ELSE s[j] - f[k] + g[k]
           S == {j \in Nat : j <= n => Good(j)}
<1>3. 0 \in S
  <2>1. s[0] = 0 /\ t[0] = 0
    BY <1>1, <1>2 DEF Sums
  <2> QED BY <2>1 DEF DiffersAt
<1>4. ASSUME NEW j \in Nat, j \in S PROVE j + 1 \in S
  <2>1. CASE j + 1 <= n
    <3>1. /\ k \in Nat /\ j + 1 \in 0 .. n /\ j + 1 # 0 /\ (j + 1) - 1 = j
          /\ j <= n /\ j \in 0 .. n - 1
      BY <2>1 DEF DiffersAt
    <3>2. s[j + 1] = s[j] + f[j]
      BY Zenon, <1>1, <3>1 DEF Sums
    <3>3. t[j + 1] = t[j] + g[j]
      BY Zenon, <1>2, <3>1 DEF Sums
    <3>4. Good(j)
      BY Zenon, <1>4, <3>1
    <3>5. f[j] \in Nat /\ g[j] \in Nat /\ f[k] \in Nat /\ g[k] \in Nat
      BY Zenon, <3>1 DEF DiffersAt
    <3>6. j # k => g[j] = f[j]
      BY Zenon, <3>1 DEF DiffersAt
    <3>7. CASE j = k
      BY <3>1, <3>2, <3>3, <3>4, <3>5, <3>7
    <3>8. CASE j # k
      BY <3>1, <3>2, <3>3, <3>4, <3>5, <3>6, <3>8
    <3> QED BY Zenon, <3>7, <3>8
  <2>2. CASE ~(j + 1 <= n)
    BY <2>2
  <2> QED BY Zenon, <2>1, <2>2
<1> HIDE DEF S
<1>5. Nat \subseteq S
  BY Zenon, <1>3, <1>4, NatSetInduction
<1>6. n \in S
  BY Zenon, <1>5
<1> QED BY <1>1, <1>2, <1>6 DEF S, DiffersAt

(* Smaller values have a smaller sum.                                       *)
LEMMA SumLess ==
  ASSUME NEW n \in Nat, NEW f, NEW g,
         \A j \in 0 .. n - 1 : f[j] \in Nat /\ g[j] \in Nat /\ g[j] <= f[j]
  PROVE  /\ SumBelow(f, n) \in Nat /\ SumBelow(g, n) \in Nat
         /\ SumBelow(g, n) <= SumBelow(f, n)
<1>1. PICK s : Sums(s, f, n) /\ SumBelow(f, n) = s[n]
  BY Zenon, SumBelowIs
<1>2. PICK t : Sums(t, g, n) /\ SumBelow(g, n) = t[n]
  BY Zenon, SumBelowIs
<1> DEFINE S == {j \in Nat : j <= n => s[j] \in Nat /\ t[j] \in Nat /\ t[j] <= s[j]}
<1>3. 0 \in S
  <2>1. s[0] = 0 /\ t[0] = 0
    BY <1>1, <1>2 DEF Sums
  <2> QED BY <2>1
<1>4. ASSUME NEW j \in Nat, j \in S PROVE j + 1 \in S
  <2>1. CASE j + 1 <= n
    <3>1. /\ j + 1 \in 0 .. n /\ j + 1 # 0 /\ (j + 1) - 1 = j /\ j <= n /\ j \in 0 .. n - 1
      BY <2>1
    <3>2. s[j + 1] = s[j] + f[j]
      BY Zenon, <1>1, <3>1 DEF Sums
    <3>3. t[j + 1] = t[j] + g[j]
      BY Zenon, <1>2, <3>1 DEF Sums
    <3>4. s[j] \in Nat /\ t[j] \in Nat /\ t[j] <= s[j]
      BY Zenon, <1>4, <3>1
    <3>5. f[j] \in Nat /\ g[j] \in Nat /\ g[j] <= f[j]
      BY Zenon, <3>1
    <3> QED BY <3>2, <3>3, <3>4, <3>5
  <2>2. CASE ~(j + 1 <= n)
    BY <2>2
  <2> QED BY Zenon, <2>1, <2>2
<1> HIDE DEF S
<1>5. Nat \subseteq S
  BY Zenon, <1>3, <1>4, NatSetInduction
<1>6. n \in S
  BY Zenon, <1>5
<1> QED BY <1>1, <1>2, <1>6 DEF S

(* Nothing sums up to nothing.                                              *)
LEMMA SumZero ==
  ASSUME NEW n \in Nat, NEW f, \A j \in 0 .. n - 1 : f[j] = 0
  PROVE  SumBelow(f, n) = 0
<1>1. PICK s : Sums(s, f, n) /\ SumBelow(f, n) = s[n]
  BY Zenon, SumBelowIs
<1> DEFINE S == {j \in Nat : j <= n => s[j] = 0}
<1>2. 0 \in S
  BY <1>1 DEF Sums
<1>3. ASSUME NEW j \in Nat, j \in S PROVE j + 1 \in S
  <2>1. CASE j + 1 <= n
    <3>1. /\ j + 1 \in 0 .. n /\ j + 1 # 0 /\ (j + 1) - 1 = j /\ j <= n /\ j \in 0 .. n - 1
      BY <2>1
    <3>2. s[j + 1] = s[j] + f[j]
      BY Zenon, <1>1, <3>1 DEF Sums
    <3>3. s[j] = 0 /\ f[j] = 0
      BY Zenon, <1>3, <3>1
    <3> QED BY <3>2, <3>3
  <2>2. CASE ~(j + 1 <= n)
    BY <2>2
  <2> QED BY Zenon, <2>1, <2>2
<1> HIDE DEF S
<1>4. n \in S
  BY Zenon, <1>2, <1>3, NatSetInduction
<1> QED BY <1>1, <1>4 DEF S

-----------------------------------------------------------------------------
(* What the containers S owe to their children among L.                     *)

Covered(c, L, S) == \A p \in S : ChildSum(c, L, p) <= c.usage[p]

(* The quotas and their sum are natural numbers.                            *)
LEMMA ChildQuotasType ==
  ASSUME NEW c \in ContainerType, NEW L, NEW id
  PROVE  /\ \A k \in Ids : ChildQuotas(c, L, id)[k] \in Nat
         /\ ChildSum(c, L, id) \in Nat
<1> DEFINE f == ChildQuotas(c, L, id)
<1>1. \A k \in Ids : f[k] \in Nat
  <2>1. \A k \in Ids : c.quota[k] \in Nat
    BY ContainerAssumption DEF ContainerType, Word
  <2> QED BY <2>1 DEF ChildQuotas
<1> HIDE DEF f
<1>2. SumBelow(f, NUM_IDS) \in Nat
  <2>2. \A k \in 0 .. NUM_IDS - 1 : f[k] \in Nat
    BY Zenon, <1>1 DEF Ids
  <2>1. \A k \in 0 .. NUM_IDS - 1 : f[k] <= f[k] /\ NUM_IDS \in Nat
    BY <2>2, NumIdsAssumption
  <2> QED BY <2>2, <2>1, NumIdsAssumption, SumLess, SMTT(20)
<1> QED BY Zenon, <1>1, <1>2 DEF f, ChildSum

(* Fewer children, or a greater usage.                                      *)
LEMMA CoveredLess ==
  ASSUME NEW c \in ContainerType, NEW d \in ContainerType, NEW L, NEW M, M \subseteq L, NEW S,
         Covered(c, L, S), S \subseteq Ids,
         d.quota = c.quota, d.parent = c.parent, \A p \in S : c.usage[p] <= d.usage[p]
  PROVE  Covered(d, M, S)
<1> SUFFICES ASSUME NEW p \in S PROVE ChildSum(d, M, p) <= d.usage[p]
  BY Zenon DEF Covered
<1> DEFINE f == ChildQuotas(c, L, p)
           g == ChildQuotas(d, M, p)
<1>1. \A k \in 0 .. NUM_IDS - 1 : f[k] \in Nat /\ g[k] \in Nat /\ (g[k] = f[k] \/ g[k] = 0)
  <2>1. \A k \in Ids : g[k] = f[k] \/ g[k] = 0
    BY Zenon DEF ChildQuotas
  <2> QED BY Zenon, <2>1, ChildQuotasType DEF Ids
<1>2. \A k \in 0 .. NUM_IDS - 1 : f[k] \in Nat /\ g[k] \in Nat /\ g[k] <= f[k]
  <2> HIDE DEF f, g
  <2> QED BY <1>1
<1>3. SumBelow(g, NUM_IDS) <= SumBelow(f, NUM_IDS)
  <2> HIDE DEF f, g
  <2>1. NUM_IDS \in Nat
    BY NumIdsAssumption
  <2> QED BY Zenon, <1>2, <2>1, SumLess
<1>4. ChildSum(d, M, p) <= ChildSum(c, L, p)
  BY Zenon, <1>3 DEF ChildSum
<1>5. ChildSum(d, M, p) \in Nat /\ ChildSum(c, L, p) \in Nat
  BY Zenon, ChildQuotasType
<1>6. c.usage[p] \in Nat /\ d.usage[p] \in Nat /\ ChildSum(c, L, p) <= c.usage[p]
  BY DEF Covered, ContainerType, Word
<1> QED BY SMTT(30), <1>4, <1>5, <1>6

(* A usage a that covers b, less a charge q, covers b less q.               *)
LEMMA RefundCovers ==
  ASSUME NEW a \in Nat, NEW b \in Nat, NEW q \in Nat, NEW s \in Nat,
         b <= a, s = b - q + 0
  PROVE  s <= IF a >= q THEN a - q ELSE 0
OBVIOUS

(* A child dies, and its quota goes back to its parent.                     *)
LEMMA CoveredRefund ==
  ASSUME NEW c \in ContainerType, NEW L, NEW S, S \subseteq Ids, Covered(c, L, S),
         NEW v \in Ids, v \in L, NEW d \in ContainerType,
         d = Refund(c, c.parent[v], c.quota[v])
  PROVE  Covered(d, L \ {v}, S)
<1> DEFINE id == c.parent[v]
           M == L \ {v}
<1>1. id \in Ids /\ c.quota[v] \in Nat
  <2>1. c.parent[v] \in Ids /\ c.quota[v] \in Word
    BY Zenon, ContTypeFacts
  <2> QED BY <2>1, ContainerAssumption DEF Word
<1>2. /\ d.quota = c.quota /\ d.parent = c.parent
      /\ \A p \in Ids : p # id => d.usage[p] = c.usage[p]
      /\ d.usage[id] = IF c.usage[id] >= c.quota[v] THEN c.usage[id] - c.quota[v] ELSE 0
  <2> DEFINE u == IF c.usage[id] >= c.quota[v] THEN c.usage[id] - c.quota[v] ELSE 0
  <2>1. d = [c EXCEPT !.usage = [c.usage EXCEPT ![id] = u]]
    BY Zenon DEF Refund
  <2>2. c.usage \in [Ids -> Word]
    BY Zenon, ContTypeFacts
  <2> HIDE DEF u, id
  <2>3. d.quota = c.quota /\ d.parent = c.parent /\ d.usage = [c.usage EXCEPT ![id] = u]
    BY Zenon, <2>1 DEF ContainerType
  <2>4. d.usage[id] = u /\ \A p \in Ids : p # id => d.usage[p] = c.usage[p]
    BY Zenon, <1>1, <2>2, <2>3
  <2> QED BY Zenon, <2>3, <2>4 DEF u
<1> SUFFICES ASSUME NEW p \in S PROVE ChildSum(d, M, p) <= d.usage[p]
  BY Zenon DEF Covered
<1> DEFINE f == ChildQuotas(c, L, p)
           g == ChildQuotas(d, M, p)
<1>3. /\ \A k \in Ids : f[k] \in Nat /\ g[k] \in Nat
      /\ ChildSum(c, L, p) \in Nat /\ ChildSum(d, M, p) \in Nat
  BY Zenon, ChildQuotasType
<1>4. \A k \in Ids : k # v => g[k] = f[k]
  BY Zenon, <1>2 DEF ChildQuotas, Ids
<1>5. g[v] = 0 /\ f[v] = IF p = id THEN c.quota[v] ELSE 0
  BY Zenon DEF ChildQuotas
<1>6. ChildSum(d, M, p) = ChildSum(c, L, p) - f[v] + g[v]
  <2> HIDE DEF f, g
  <2>2. SumBelow(g, NUM_IDS) = SumBelow(f, NUM_IDS) - f[v] + g[v]
    <3>1. DiffersAt(f, g, v, NUM_IDS) /\ NUM_IDS \in Nat
      BY Zenon, <1>3, <1>4, NumIdsAssumption DEF DiffersAt, Ids
    <3> QED BY <3>1, SumChange
  <2> QED BY Zenon, <2>2 DEF ChildSum, f, g
<1>7. c.usage[p] \in Nat /\ ChildSum(c, L, p) <= c.usage[p]
  BY DEF Covered, ContainerType, Word
<1> HIDE DEF f, g, M, id
<1>8. CASE p = id
  <2>1. d.usage[p] = IF c.usage[p] >= c.quota[v] THEN c.usage[p] - c.quota[v] ELSE 0
    BY Zenon, <1>2, <1>8
  <2>2. f[v] = c.quota[v] /\ g[v] = 0
    BY Zenon, <1>5, <1>8
  <2>3. ChildSum(d, M, p) = ChildSum(c, L, p) - c.quota[v] + 0
    BY Zenon, <1>6, <2>2
  <2>4. ChildSum(d, M, p) <= IF c.usage[p] >= c.quota[v] THEN c.usage[p] - c.quota[v] ELSE 0
    BY Zenon, <1>1, <1>3, <1>7, <2>3, RefundCovers
  <2> QED BY Zenon, <2>1, <2>4
<1>9. CASE p # id
  <2>1. d.usage[p] = c.usage[p]
    BY Zenon, <1>2, <1>9
  <2>2. f[v] = 0 /\ g[v] = 0
    BY Zenon, <1>5, <1>9
  <2>3. ChildSum(d, M, p) = ChildSum(c, L, p)
    BY SMTT(30), <1>3, <1>6, <2>2
  <2> QED BY Zenon, <1>7, <2>1, <2>3
<1> QED BY Zenon, <1>8, <1>9

(* A child is born with quota n, which its parent id is charged.           *)
Charges(c, d, S, id, n, child) ==
  /\ \A k \in Ids : /\ d.quota[k] = IF k = child THEN n ELSE c.quota[k]
                    /\ d.parent[k] = IF k = child THEN id ELSE c.parent[k]
  /\ \A k \in S : d.usage[k] = IF k = id THEN c.usage[k] + n ELSE c.usage[k]

LEMMA CoveredSplit ==
  ASSUME NEW c \in ContainerType, NEW L, NEW S, S \subseteq Ids, Covered(c, L, S),
         NEW id \in S, NEW n \in Word, NEW child \in Ids, child \notin L, child \notin S,
         \A k \in L : c.parent[k] # child,
         NEW d \in ContainerType, Charges(c, d, S, id, n, child)
  PROVE  Covered(d, L \cup {child}, S \cup {child})
<1>0. /\ \A k \in Ids : /\ d.quota[k] = IF k = child THEN n ELSE c.quota[k]
                        /\ d.parent[k] = IF k = child THEN id ELSE c.parent[k]
      /\ \A k \in S : d.usage[k] = IF k = id THEN c.usage[k] + n ELSE c.usage[k]
  BY Zenon DEF Charges
<1> DEFINE M == L \cup {child}
<1>1. ASSUME NEW p \in S PROVE ChildSum(d, M, p) <= d.usage[p]
  <2> DEFINE f == ChildQuotas(c, L, p)
             g == ChildQuotas(d, M, p)
  <2>1. /\ \A k \in Ids : f[k] \in Nat /\ g[k] \in Nat
        /\ ChildSum(c, L, p) \in Nat /\ ChildSum(d, M, p) \in Nat
    BY Zenon, ChildQuotasType
  <2>2. \A k \in Ids : k # child => g[k] = f[k]
    BY Zenon, <1>0 DEF ChildQuotas, Ids
  <2>3. f[child] = 0 /\ g[child] = IF p = id THEN n ELSE 0
    BY Zenon, <1>0 DEF ChildQuotas
  <2>4. ChildSum(d, M, p) = ChildSum(c, L, p) - f[child] + g[child]
    <3> HIDE DEF f, g
    <3>2. SumBelow(g, NUM_IDS) = SumBelow(f, NUM_IDS) - f[child] + g[child]
      <4>1. DiffersAt(f, g, child, NUM_IDS) /\ NUM_IDS \in Nat
        BY Zenon, <2>1, <2>2, NumIdsAssumption DEF DiffersAt, Ids
      <4> QED BY <4>1, SumChange
    <3> QED BY Zenon, <3>2 DEF ChildSum, f, g
  <2>5. c.usage[p] \in Nat /\ ChildSum(c, L, p) <= c.usage[p]
    BY DEF Covered, ContainerType, Word
  <2>6. n \in Nat
    BY DEF Word
  <2>7. d.usage[p] = IF p = id THEN c.usage[p] + n ELSE c.usage[p]
    BY Zenon, <1>0
  <2> HIDE DEF f, g, M
  <2>8. CASE p = id
    <3>1. f[child] = 0 /\ g[child] = n /\ d.usage[p] = c.usage[p] + n
      BY Zenon, <2>3, <2>7, <2>8
    <3> QED BY SMTT(30), <2>1, <2>4, <2>5, <2>6, <3>1
  <2>9. CASE p # id
    <3>1. f[child] = 0 /\ g[child] = 0 /\ d.usage[p] = c.usage[p]
      BY Zenon, <2>3, <2>7, <2>9
    <3> QED BY <2>1, <2>4, <2>5, <3>1
  <2> QED BY Zenon, <2>8, <2>9
<1>2. ChildSum(d, M, child) <= d.usage[child]
  <2> DEFINE g == ChildQuotas(d, M, child)
  <2>1. \A k \in 0 .. NUM_IDS - 1 : g[k] = 0
    BY Zenon, <1>0 DEF ChildQuotas, Ids
  <2> HIDE DEF g
  <2>2. SumBelow(g, NUM_IDS) = 0
    <3>1. NUM_IDS \in Nat
      BY NumIdsAssumption
    <3> QED BY Zenon, <2>1, <3>1, SumZero
  <2>3. d.usage[child] \in Nat
    BY DEF ContainerType, Word
  <2>4. ChildSum(d, M, child) = 0
    BY Zenon, <2>2 DEF g, ChildSum
  <2> QED BY <2>3, <2>4
<1> QED BY Zenon, <1>1, <1>2 DEF Covered

(* What ChildrenCharged needs to know of the container table: container 0   *)
(* has no parent, an unused container no quota, and none has more than all. *)
TreeInv(c) ==
  /\ c.parent[0] = 0
  /\ \A p \in Ids : c.quota[p] <= REAL_QUOTA /\ (c.used[p] \/ c.quota[p] = 0)

ChargeInv == TreeInv(cont) /\ Covered(cont, Living, Procs)

(* Steps that move no container.                                            *)
LEMMA ChargeKept ==
  ASSUME IInv, IInv', ChargeInv, NoRevival,
         cont'.quota = cont.quota, cont'.parent = cont.parent, cont'.used = cont.used,
         \A p \in Procs : cont.usage[p] <= cont'.usage[p]
  PROVE  ChargeInv'
<1>1. Procs' = Procs /\ Procs \subseteq Ids
  BY Zenon DEF Procs
<1>2. Living' \subseteq Living
  BY Zenon, <1>1 DEF Living, NoRevival
<1>3. cont \in ContainerType /\ cont' \in ContainerType
  BY Zenon DEF IInv, ContInv
<1>4. Covered(cont', Living', Procs)
  BY Zenon, <1>1, <1>2, <1>3, CoveredLess DEF ChargeInv
<1> QED BY Zenon, <1>1, <1>4 DEF ChargeInv, TreeInv

(* The death of v, whose quota goes back to its parent.                     *)
LEMMA ChargeRefunded ==
  ASSUME IInv, IInv', ChargeInv, NoRevival, NEW v \in Ids,
         cont' = Refund(cont, cont.parent[v], cont.quota[v]),
         sched.state[v] # "DEAD", sched'.state[v] = "DEAD"
  PROVE  ChargeInv'
<1>1. Procs' = Procs /\ Procs \subseteq Ids /\ cont'.used = cont.used
  BY Zenon, RefundStep DEF Procs
<1>2. cont \in ContainerType /\ cont' \in ContainerType
  BY Zenon DEF IInv, ContInv
<1>3. cont.parent[v] \in Ids /\ cont.quota[v] \in Word
  BY Zenon, <1>2, ContTypeFacts
<1>4. /\ cont'.quota = cont.quota /\ cont'.parent = cont.parent
      /\ \A p \in Ids : p # cont.parent[v] => cont'.usage[p] = cont.usage[p]
      /\ cont'.usage[cont.parent[v]] =
           IF cont.usage[cont.parent[v]] >= cont.quota[v]
           THEN cont.usage[cont.parent[v]] - cont.quota[v] ELSE 0
  BY Zenon, <1>2, <1>3 DEF Refund, ContainerType
<1>5. Living' \subseteq Living \ {v}
  BY Zenon, <1>1 DEF Living, NoRevival
<1>6. CASE v \in Procs
  <2>1. Covered(cont', Living \ {v}, Procs)
    BY Zenon, <1>1, <1>2, <1>6, CoveredRefund DEF ChargeInv, Living
  <2>2. \A p \in Procs : cont'.usage[p] <= cont'.usage[p]
    BY SMTT(30), <1>1, <1>2 DEF ContainerType, Word
  <2>3. Covered(cont', Living', Procs)
    BY Zenon, <1>1, <1>2, <1>5, <2>1, <2>2, CoveredLess
  <2> QED BY Zenon, <1>1, <1>4, <2>3 DEF ChargeInv, TreeInv
<1>7. CASE v \notin Procs
  <2>1. v = 0 \/ cont.quota[v] = 0
    BY Zenon, <1>7 DEF Procs, ChargeInv, TreeInv
  <2>2. \A p \in Procs : cont.usage[p] \in Nat /\ cont'.usage[p] \in Nat
    BY <1>1, <1>2 DEF ContainerType, Word
  <2>3. \A p \in Procs : cont.usage[p] <= cont'.usage[p]
    <3>1. CASE v = 0
      <4>1. cont.parent[v] \notin Procs
        BY Zenon, <3>1 DEF ChargeInv, TreeInv, Procs
      <4>2. \A p \in Procs : cont'.usage[p] = cont.usage[p]
        BY Zenon, <1>1, <1>4, <4>1
      <4> QED BY <2>2, <4>2
    <3>2. CASE cont.quota[v] = 0
      BY SMTT(30), <1>1, <1>4, <2>2, <3>2
    <3> QED BY Zenon, <2>1, <3>1, <3>2
  <2> QED BY Zenon, <1>1, <1>4, <2>3, ChargeKept
<1> QED BY Zenon, <1>6, <1>7

(* The birth of a child.                                                    *)
LEMMA ChargeSplit ==
  ASSUME IInv, IInv', ChargeInv, NoWrap, NEW p \in Ids, NEW n \in Quotas, NEW known \in BOOLEAN,
         SysSpawn(p, n, known), CanSpawn(p, n) /\ known
  PROVE  ChargeInv'
<1> DEFINE child == NextChild(cont, p)
           c1 == ContainerSplit(cont, p, n)
<1>1. /\ p \in Procs /\ cont.used[p] /\ n \in Word /\ ContInv(cont) /\ Procs \subseteq Ids
      /\ cont \in ContainerType /\ cont' \in ContainerType
  BY Zenon, RunsFacts, ProcAssumption DEF SysSpawn, Calls, Procs, IInv, ContInv
<1>2. child \in Ids \ {0} /\ ~cont.used[child] /\ child # p
  BY Zenon, <1>1, NextChildUnused DEF CanSpawn
<1>3. /\ cont' = ElfLoad(c1, child)
      /\ sched' = ThreadSpawn(sched, child)
  BY Zenon DEF SysSpawn
<1>4. IsSplit(cont, p, n, child, c1)
  BY Zenon, <1>1, <1>2, SplitFields DEF CanSpawn
<1>5. cont.usage[p] + n <= cont.quota[p] /\ WordAdd(cont.usage[p], n) = cont.usage[p] + n
  <2>1. /\ cont.usage[p] \in Nat /\ cont.quota[p] \in Nat /\ n \in Nat /\ REAL_QUOTA \in Nat
        /\ WORD \in Nat
    BY <1>1, ContainerAssumption, ProcAssumption DEF ContainerType, Word
  <2>2. cont.usage[p] <= cont.quota[p] /\ cont.quota[p] <= REAL_QUOTA /\ REAL_QUOTA + n < WORD
    BY Zenon, <1>1 DEF ContInv, ChargeInv, TreeInv, NoWrap
  <2>3. WordAdd(cont.usage[p], n) <= cont.quota[p]
    BY Zenon DEF CanSpawn, CanConsume
  <2> QED BY <2>1, <2>2, <2>3 DEF WordAdd
<1> HIDE DEF c1, child
<1>6. /\ c1 \in ContainerType
      /\ \A k \in Ids : /\ c1.quota[k] = IF k = child THEN n ELSE cont.quota[k]
                        /\ c1.parent[k] = IF k = child THEN p ELSE cont.parent[k]
      /\ \A k \in Ids : c1.used[k] <=> cont.used[k] \/ k = child
      /\ \A k \in Procs : c1.usage[k] = IF k = p THEN cont.usage[k] + n ELSE cont.usage[k]
      /\ c1.usage[child] = 0
  <2>1. \A k \in Ids : c1.used[k] <=> cont.used[k] \/ k = child
    BY Zenon, <1>1, <1>2, SplitInv DEF CanSpawn, c1, child
  <2> QED BY Zenon, <1>1, <1>2, <1>4, <1>5, <2>1 DEF IsSplit, Procs
<1>7. /\ cont'.quota = c1.quota /\ cont'.parent = c1.parent /\ cont'.used = c1.used
      /\ \A k \in Ids : k # child => cont'.usage[k] = c1.usage[k]
  BY Zenon, <1>2, <1>3, <1>6 DEF ElfLoad, ContainerType
<1>8. Procs' = Procs \cup {child} /\ child \notin Procs
  BY Zenon, <1>2, <1>6, <1>7 DEF Procs
<1>9. \A x \in Ids : sched'.state[x] = IF x = child THEN "READY" ELSE sched.state[x]
  BY Zenon, <1>2, <1>3, TypeFacts DEF ThreadSpawn, TypeOK, IInv
<1>10. Living' = Living \cup {child}
  BY Zenon, <1>1, <1>2, <1>8, <1>9 DEF Living
<1>11. \A k \in Living : cont.parent[k] # child
  BY Zenon, <1>1, <1>2 DEF Living, Procs, ContInv
<1>12. Covered(c1, Living \cup {child}, Procs \cup {child})
  <2>1. Covered(cont, Living, Procs) /\ child \notin Living
    BY Zenon, <1>8 DEF ChargeInv, Living
  <2>2. Charges(cont, c1, Procs, p, n, child)
    BY Zenon, <1>6 DEF Charges
  <2> QED BY Zenon, <1>1, <1>2, <1>6, <1>8, <1>11, <2>1, <2>2, CoveredSplit
<1>13. \A k \in Procs' : c1.usage[k] <= cont'.usage[k]
  <2>1. \A k \in Ids : c1.usage[k] \in Nat /\ cont'.usage[k] \in Nat
    BY <1>1, <1>6 DEF ContainerType, Word
  <2>2. \A k \in Ids : cont'.usage[k] = c1.usage[k] \/ c1.usage[k] = 0
    BY Zenon, <1>6, <1>7
  <2>3. Procs' \subseteq Ids
    BY Zenon DEF Procs
  <2> QED BY <2>1, <2>2, <2>3
<1>14. Covered(cont', Living', Procs')
  <2>1. Procs' \subseteq Ids
    BY Zenon DEF Procs
  <2> QED BY Zenon, <1>1, <1>6, <1>7, <1>8, <1>10, <1>12, <1>13, <2>1,
             CoveredLess
<1>15. TreeInv(cont')
  <2>1. n <= REAL_QUOTA
    <3>1. /\ cont.usage[p] \in Nat /\ cont.quota[p] \in Nat /\ n \in Nat /\ REAL_QUOTA \in Nat
      BY SMTT(30), <1>1, ProcAssumption DEF ContainerType, Word
    <3>2. cont.quota[p] <= REAL_QUOTA
      BY Zenon DEF ChargeInv, TreeInv
    <3> QED BY SMTT(30), <1>5, <3>1, <3>2
  <2>2. 0 \in Ids
    BY NumIdsAssumption DEF Ids
  <2>3. cont'.parent[0] = 0
    BY ZenonT(30), <1>2, <1>6, <1>7, <2>2 DEF ChargeInv, TreeInv
  <2>4. ASSUME NEW k \in Ids
        PROVE  cont'.quota[k] <= REAL_QUOTA /\ (cont'.used[k] \/ cont'.quota[k] = 0)
    <3>1. CASE k = child
      BY Zenon, <1>6, <1>7, <2>1, <3>1
    <3>2. CASE k # child
      <4>1. cont'.quota[k] = cont.quota[k] /\ (cont'.used[k] <=> cont.used[k])
        BY Zenon, <1>6, <1>7, <3>2
      <4>2. cont.quota[k] <= REAL_QUOTA /\ (cont.used[k] \/ cont.quota[k] = 0)
        BY Zenon DEF ChargeInv, TreeInv
      <4> QED BY Zenon, <4>1, <4>2
    <3> QED BY Zenon, <3>1, <3>2
  <2> QED BY Zenon, <2>3, <2>4 DEF TreeInv
<1> QED BY Zenon, <1>14, <1>15 DEF ChargeInv

(* A page fault raises the usage of one container.                          *)
LEMMA ChargeFault ==
  ASSUME IInv, NEW p \in Ids, NEW need \in 1 .. 2, NEW found \in 0 .. 2, PageFault(p, need, found)
  PROVE  /\ cont'.quota = cont.quota /\ cont'.parent = cont.parent /\ cont'.used = cont.used
         /\ \A k \in Procs : cont.usage[k] <= cont'.usage[k]
<1>1. ASSUME NEW c, ContInv(c)
      PROVE  /\ ContainerAlloc(c, p).quota = c.quota /\ ContainerAlloc(c, p).parent = c.parent
             /\ ContainerAlloc(c, p).used = c.used
             /\ \A k \in Ids : c.usage[k] <= ContainerAlloc(c, p).usage[k]
             /\ ContInv(ContainerAlloc(c, p))
  <2>1. ContInv(ContainerAlloc(c, p))
    BY Zenon, <1>1, AllocInv
  <2>2. /\ \A k \in Ids : c.usage[k] \in Nat /\ c.quota[k] \in Nat /\ c.quota[k] < WORD
        /\ \A k \in Ids : c.usage[k] <= c.quota[k]
    BY <1>1, ContainerAssumption DEF ContInv, ContainerType, Word
  <2>3. CASE AtQuota(c, p)
    BY <2>1, <2>2, <2>3 DEF ContainerAlloc
  <2>4. CASE ~AtQuota(c, p)
    <3>1. /\ ContainerAlloc(c, p).quota = c.quota /\ ContainerAlloc(c, p).parent = c.parent
          /\ ContainerAlloc(c, p).used = c.used
          /\ \A k \in Ids : ContainerAlloc(c, p).usage[k] =
                              IF k = p THEN WordAdd(c.usage[p], 1) ELSE c.usage[k]
      BY Zenon, <1>1, <2>4 DEF ContainerAlloc, ContInv, ContainerType
    <3>2. WordAdd(c.usage[p], 1) = c.usage[p] + 1
      BY <2>2, <2>4, ContainerAssumption DEF AtQuota, WordAdd
    <3> QED BY SMTT(30), <2>1, <2>2, <3>1, <3>2
  <2> QED BY Zenon, <2>3, <2>4
<1> DEFINE c1 == ContainerAlloc(cont, p)
<1>2. ContInv(cont) /\ ContInv(c1)
  BY Zenon, <1>1 DEF IInv
<1>3. cont' = c1 \/ cont' = ContainerAlloc(c1, p)
  BY Zenon DEF PageFault
<1>4. /\ c1.quota = cont.quota /\ c1.parent = cont.parent /\ c1.used = cont.used
      /\ \A k \in Ids : cont.usage[k] <= c1.usage[k]
  BY Zenon, <1>1, <1>2
<1> HIDE DEF c1
<1>5. /\ cont'.quota = cont.quota /\ cont'.parent = cont.parent /\ cont'.used = cont.used
      /\ ContInv(cont')
      /\ cont' = c1 \/ \A k \in Ids : c1.usage[k] <= cont'.usage[k]
  BY Zenon, <1>1, <1>2, <1>3, <1>4
<1>6. \A k \in Ids : cont.usage[k] \in Nat /\ c1.usage[k] \in Nat /\ cont'.usage[k] \in Nat
  BY SMTT(30), <1>2, <1>5 DEF ContInv, ContainerType, Word
<1>7. Procs \subseteq Ids
  BY Zenon DEF Procs
<1> QED BY SMTT(30), <1>4, <1>5, <1>6, <1>7

LEMMA ChargeStep ==
  ASSUME IInv, IInv', [Next]_vars, NoIdleKill, NoSelfKill, NoWrap, LiveInv, CurRuns, ChargeInv
  PROVE  ChargeInv'
<1>1. NoRevival
  BY Zenon, RevivalStep
<1>2. ASSUME cont' = cont PROVE ChargeInv'
  <2>1. \A p \in Procs : cont.usage[p] <= cont'.usage[p]
    BY SMTT(30), <1>2 DEF IInv, ContInv, ContainerType, Word, Procs
  <2> QED BY Zenon, <1>1, <1>2, <2>1, ChargeKept
<1>3. ASSUME NEW p \in Ids, Interrupt(p) PROVE ChargeInv'
  <2>1. ASSUME NEW need \in 1 .. 2, NEW found \in 0 .. 2, PageFault(p, need, found)
        PROVE  ChargeInv'
    BY Zenon, <1>1, <2>1, ChargeFault, ChargeKept
  <2> QED BY Zenon, <1>2, <1>3, <2>1
             DEF Interrupt, Timer, OtherIntr, Exception, IdeIntr
<1>4. ASSUME NEW p \in Ids, NEW v \in Ids, NEW sig \in Sigs, SysKill(p, v, sig)
      PROVE  ChargeInv'
  <2>1. CASE cont' = cont
    BY Zenon, <1>2, <2>1
  <2>2. CASE cont' # cont
    <3>1. /\ sched' = Terminate(sched, v) /\ sched.state[v] # "DEAD"
          /\ cont' = Refund(cont, cont.parent[v], cont.quota[v])
      BY Zenon, <1>4, <2>2 DEF SysKill
    <3>2. sched'.state[v] = "DEAD"
      BY Zenon, <3>1, TerminateInv DEF IInv
    <3> QED BY Zenon, <1>1, <3>1, <3>2, ChargeRefunded
  <2> QED BY Zenon, <2>1, <2>2
<1>5. ASSUME NEW p \in Ids, Syscall(p) PROVE ChargeInv'
  <2>1. ASSUME NEW n \in Quotas, NEW known \in BOOLEAN, SysSpawn(p, n, known)
        PROVE  ChargeInv'
    <3>1. CASE CanSpawn(p, n) /\ known
      BY Zenon, <2>1, <3>1, ChargeSplit
    <3>2. CASE ~(CanSpawn(p, n) /\ known)
      BY Zenon, <1>2, <2>1, <3>2 DEF SysSpawn
    <3> QED BY Zenon, <3>1, <3>2
  <2> QED BY Zenon, <1>2, <1>4, <1>5, <2>1
      DEF Syscall, SysYield, SysPause, SysWaitpid, EnterKernel, SysExit
<1>6. ASSUME NEW p \in Ids, ExitDone(p) PROVE ChargeInv'
  <2> DEFINE w == Terminate(sched, p)
  <2>1. /\ sched.cur = p /\ p \in Procs /\ sched.state[p] = "RUN" /\ p # IDLE
    BY Zenon, <1>6, RunsFacts DEF ExitDone, CurRuns, LiveInv, IdleLoops, Runs
  <2>2. sched' = ThreadExit(w) /\ cont' = Refund(cont, cont.parent[p], cont.quota[p])
    BY Zenon, <1>6 DEF ExitDone
  <2>3. /\ SchedInv(w, Procs) /\ w.cur = sched.cur
        /\ \A x \in Ids : w.state[x] = IF x = p THEN "DEAD" ELSE sched.state[x]
    BY Zenon, TerminateInv DEF IInv
  <2>5. w.cur # NULL /\ w.state[w.cur] = "DEAD" /\ w.state[p] = "DEAD"
    BY Zenon, <2>1, <2>3, NullNotId
  <2> HIDE DEF w
  <2>4. sched'.state[p] = "DEAD"
    <3>1. \A x \in Procs : w.state[x] = "DEAD" /\ x # IDLE => ThreadExit(w).state[x] = "DEAD"
      BY SMTT(30), <2>3, <2>5, ExitInv
    <3> QED BY Zenon, <2>1, <2>2, <2>5, <3>1
  <2> QED BY Zenon, <1>1, <2>1, <2>2, <2>4, ChargeRefunded
<1>7. ASSUME NEW p \in Ids, Kernel(p) PROVE ChargeInv'
  BY Zenon, <1>2, <1>6, <1>7
     DEF Kernel, WaitLoop, WaitDone, Sleep, Wakeup, Resume, LeaveKernel, TrapReturn
<1> QED BY Zenon, <1>2, <1>3, <1>5, <1>7 DEF Next, WakeStep, Halted, vars

(* kern_main's containers: idle and the shell have no children.            *)
LEMMA ChargeInit == Init => ChargeInv
<1> SUFFICES ASSUME Init PROVE ChargeInv
  BY Zenon
<1> DEFINE c0 == ContainerInit(REAL_QUOTA)
           b1 == ContainerSplit(c0, 0, IdleQuota)
           c1 == ElfLoad(b1, IDLE)
           b2 == ContainerSplit(c1, 0, ShellQuota)
<1>1. 0 \in Ids /\ 1 \in Ids /\ 2 \in Ids /\ IDLE = 1 /\ SHELL = 2
  BY NumIdsAssumption DEF Ids, IDLE, SHELL
<1>2. /\ c0.quota = [i \in Ids |-> IF i = 0 THEN REAL_QUOTA ELSE 0]
      /\ c0.parent = [i \in Ids |-> 0] /\ c0.nchildren = [i \in Ids |-> 0]
  BY Zenon DEF ContainerInit
<1>3. NextChild(c0, 0) = 1
  BY <1>1, <1>2, ContainerAssumption DEF NextChild
<1> HIDE DEF c0
<1>4. /\ b1.quota = [c0.quota EXCEPT ![1] = IdleQuota] /\ b1.parent = [c0.parent EXCEPT ![1] = 0]
      /\ b1.nchildren = [c0.nchildren EXCEPT ![1] = 0, ![0] = c0.nchildren[0] + 1]
  BY Zenon, <1>3 DEF ContainerSplit
<1>5. c1.quota = b1.quota /\ c1.parent = b1.parent /\ c1.nchildren = b1.nchildren
  BY Zenon DEF ElfLoad, ContainerSplit
<1> HIDE DEF b1, c1
<1>6. NextChild(c1, 0) = 2
  <2>1. c1.nchildren[0] = 1
    BY SMTT(30), <1>1, <1>2, <1>4, <1>5
  <2> QED BY <2>1, ContainerAssumption DEF NextChild
<1>7. b2.quota = [c1.quota EXCEPT ![2] = ShellQuota] /\ b2.parent = [c1.parent EXCEPT ![2] = 0]
  BY Zenon, <1>6 DEF ContainerSplit
<1>8. cont.quota = b2.quota /\ cont.parent = b2.parent
  <2>1. cont = ElfLoad(b2, SHELL)
    BY Zenon DEF Init, c0, b1, c1
  <2> QED BY Zenon, <2>1 DEF ElfLoad, ContainerSplit
<1> HIDE DEF b2
<1>9. \A k \in Ids : cont.parent[k] = 0
  BY <1>1, <1>2, <1>4, <1>5, <1>7, <1>8
<1>10. \A k \in Ids : cont.quota[k] = IF k = 2 THEN ShellQuota
                                      ELSE IF k = 1 THEN IdleQuota
                                      ELSE IF k = 0 THEN REAL_QUOTA ELSE 0
  BY SMTT(30), <1>1, <1>2, <1>4, <1>5, <1>7, <1>8
<1>11. \A k \in Ids : cont.used[k] <=> k \in {0, 1, 2}
  BY Zenon, <1>1, BootCont DEF Init
<1>12. TreeInv(cont)
  <2>1. /\ ShellQuota <= REAL_QUOTA /\ IdleQuota <= REAL_QUOTA /\ 0 <= REAL_QUOTA
        /\ REAL_QUOTA <= REAL_QUOTA
    BY ProcAssumption DEF Word
  <2> QED BY <1>1, <1>9, <1>10, <1>11, <2>1 DEF TreeInv
<1>13. ASSUME NEW p \in Procs PROVE ChildSum(cont, Living, p) <= cont.usage[p]
  <2>1. \A k \in 0 .. NUM_IDS - 1 : ChildQuotas(cont, Living, p)[k] = 0
    BY Zenon, <1>9, <1>13 DEF ChildQuotas, Procs, Ids
  <2>2. NUM_IDS \in Nat
    BY NumIdsAssumption
  <2>3. ChildSum(cont, Living, p) = 0
    BY Zenon, <2>1, <2>2, SumZero DEF ChildSum
  <2>4. cont.usage[p] \in Nat
    BY SMTT(30), <1>13, InitInv DEF IInv, ContInv, ContainerType, Word, Procs
  <2> QED BY <2>3, <2>4
<1> QED BY Zenon, <1>12, <1>13 DEF ChargeInv, Covered

-----------------------------------------------------------------------------

(* Every state of every behaviour satisfies the inductive invariant.        *)
THEOREM Invariance == Spec => []IInv
BY InitInv, NextInv, PTL DEF Spec

(* Type correctness, for any number of threads: in particular the queue     *)
(* operations of PTQueueInit.c never index outside the thread table, and    *)
(* container arithmetic stays inside a machine word.                        *)
THEOREM TypeCorrect == Spec => []TypeOK
<1>1. IInv => TypeOK
  BY Zenon DEF IInv
<1> QED BY <1>1, Invariance, PTL

(* The ready queue is a well-formed list of exactly the READY processes and *)
(* every sleeper can be found by its channel, through any sequence of       *)
(* yields, sleeps, wake-ups, spawns, kills and exits.                       *)
THEOREM SchedulerSafe == Spec => []SchedOK
<1>1. IInv => SchedOK
  BY Zenon DEF IInv, SchedInv, SchedOK
<1> QED BY <1>1, Invariance, PTL

(* No SIGKILL is ever pending and the dead have no pending signals.         *)
THEOREM SignalsSafe == Spec => []SignalsOK
<1>1. IInv => SignalsOK
  BY Zenon DEF IInv
<1> QED BY <1>1, Invariance, PTL

(* container_split hands every spawned process a container, and so a pid,   *)
(* that no process has or had.                                              *)
THEOREM FreshChildren == Spec => []NextChildFresh
<1>1. IInv => NextChildFresh
  BY Zenon, NextChildUnused DEF IInv, NextChildFresh, Procs
<1> QED BY <1>1, Invariance, PTL

(* No process is ever charged more than its quota, whatever the quotas      *)
(* passed to sys_spawn, kills and double refunds included.                  *)
THEOREM QuotaSafe == Spec => []UsageWithinQuota
<1>1. IInv => UsageWithinQuota
  BY Zenon DEF IInv, ContInv, UsageWithinQuota, Procs
<1> QED BY <1>1, Invariance, PTL

(* thread_wakeup wakes every sleeper of its channel.                        *)
THEOREM WakeupsComplete == Spec => WakeupComplete
<1> DEFINE Complete == waking # NotWaking /\ waking' = NotWaking
                       => \A p \in Procs : ~ /\ sched'.state[p] = "SLEEP"
                                             /\ sched'.chan[p] = waking.chan
<1>1. IInv /\ [Next]_vars => [Complete]_vars
  <2> SUFFICES ASSUME IInv, [Next]_vars, waking # NotWaking, waking' = NotWaking
               PROVE  \A p \in Procs : ~ /\ sched'.state[p] = "SLEEP"
                                         /\ sched'.chan[p] = waking.chan
    BY Zenon DEF vars
  <2> DEFINE c == waking.chan
             k == waking.at
  <2>1. WakeStep
    <3>1. \A p \in Ids : \A l : ~Runs(p, l)
      BY Zenon DEF Runs
    <3>2. \A p \in Ids : ~Interrupt(p)
      <4>1. ASSUME NEW p \in Ids, NEW need \in 1 .. 2, NEW found \in 0 .. 2
            PROVE  ~PageFault(p, need, found)
        BY Zenon, <3>1 DEF PageFault
      <4> QED BY Zenon, <3>1, <4>1
                 DEF Interrupt, Timer, IdeIntr, OtherIntr, Exception
    <3>3. \A p \in Ids : ~Syscall(p)
      <4>1. \A p \in Ids : ~Calls(p)
        BY Zenon, <3>1 DEF Calls
      <4> QED BY ZenonT(30), <4>1
                 DEF Syscall, SysSpawn, SysYield, SysKill, SysPause,
                     SysWaitpid, EnterKernel, SysExit
    <3>4. \A p \in Ids : ~Kernel(p)
      BY Zenon, <3>1
         DEF Kernel, WaitLoop, WaitDone, Sleep, Wakeup, Resume, LeaveKernel,
             ExitDone, TrapReturn
    <3> QED BY Zenon, <3>2, <3>3, <3>4 DEF Next, Halted, vars
  <2>2. /\ c \in Chans /\ k \in Nat /\ k < NUM_IDS /\ k \in Ids \ {0}
        /\ SchedInv(sched, Procs) /\ Procs \subseteq Ids
        /\ \A p \in Ids : p < k => ~(sched.state[p] = "SLEEP" /\ sched.chan[p] = c)
    <3>1. /\ waking \in [chan : Chans \cup {NoChan}, at : 1 .. NUM_IDS]
          /\ SchedInv(sched, Procs) /\ WakeInv
      BY Zenon DEF IInv, TypeOK
    <3>2. /\ c \in Chans /\ k < NUM_IDS
          /\ \A p \in Ids :
               p < k => ~(sched.state[p] = "SLEEP" /\ sched.chan[p] = c)
      BY Zenon, <3>1 DEF WakeInv
    <3>3. k \in 1 .. NUM_IDS
      BY Zenon, <3>1
    <3> HIDE DEF k, c
    <3>4. k \in Nat /\ k \in Ids \ {0} /\ Procs \subseteq Ids
      BY <3>2, <3>3, NumIdsAssumption DEF Ids, Procs
    <3> QED BY Zenon, <3>1, <3>2, <3>4
  <2>3. ~(k + 1 < NUM_IDS)
    <3>1. waking' = IF k + 1 < NUM_IDS THEN [waking EXCEPT !.at = k + 1]
                    ELSE NotWaking
      BY Zenon, <2>1 DEF WakeStep
    <3>2. waking \in [chan : Chans \cup {NoChan}, at : 1 .. NUM_IDS]
      BY Zenon DEF IInv, TypeOK
    <3>3. [waking EXCEPT !.at = k + 1].chan = c
      BY Zenon, <3>2
    <3>4. NotWaking.chan \notin Chans
      BY Zenon, ChanAssumption DEF NotWaking
    <3> HIDE DEF c
    <3> QED BY Zenon, <2>2, <3>1, <3>3, <3>4
  <2>4. sched' = WakeOne(sched, c, k)
    BY Zenon, <2>1 DEF WakeStep
  <2> HIDE DEF c, k
  <2>5. /\ \A x \in Ids : x # k => /\ sched'.state[x] = sched.state[x]
                                   /\ sched'.chan[x] = sched.chan[x]
        /\ ~(sched'.state[k] = "SLEEP" /\ sched'.chan[k] = c)
    BY SMTT(30), <2>2, <2>4, WakeOneInv
  <2>6. \A x \in Ids : x # k => x < k
    BY <2>2, <2>3, NumIdsAssumption DEF Ids
  <2>7. \A p \in Procs : ~(sched'.state[p] = "SLEEP" /\ sched'.chan[p] = c)
    BY Zenon, <2>2, <2>5, <2>6
  <2> QED BY Zenon, <2>7 DEF c
<1> HIDE DEF Complete
<1>2. Spec => [][Complete]_vars
  BY <1>1, Invariance, PTL DEF Spec
<1> QED BY Zenon, <1>2 DEF Complete, WakeupComplete

(* Provided no program kills idle, idle is alive and thread_sleep and       *)
(* thread_exit always find a thread to run.                                 *)
THEOREM AlwaysRunning ==
  ASSUME NoIdleKill
  PROVE  Spec => [](IdleAlive /\ AlwaysSomeoneToRun)
<1>1. IInv /\ LiveInv /\ [Next]_vars => LiveInv'
  BY Zenon, LiveStep
<1>2. LiveInv => IdleAlive /\ AlwaysSomeoneToRun
  BY Zenon DEF LiveInv
<1> QED BY <1>1, <1>2, LiveInit, Invariance, PTL DEF Spec

(* Provided no program kills idle or itself, a dead process is dead for     *)
(* ever.                                                                    *)
THEOREM DeathIsFinal ==
  ASSUME NoIdleKill, NoSelfKill
  PROVE  Spec => DeadForever
<1>1. IInv /\ LiveInv /\ [Next]_vars => LiveInv'
  BY Zenon, LiveStep
<1>2. IInv /\ LiveInv /\ CurRuns /\ [Next]_vars => CurRuns' /\ [NoRevival]_vars
  BY Zenon, RevivalStep
<1>3. Spec => [][NoRevival]_vars
  BY <1>1, <1>2, LiveInit, Invariance, PTL DEF Spec
<1> QED BY Zenon, <1>3 DEF NoRevival, DeadForever

(* Provided no program kills idle or itself or asks for a quota that wraps, *)
(* a parent stays charged for its living children: the refunds of sys_kill  *)
(* and sys_exit never give back pages that a living child may still use,    *)
(* and never twice.                                                         *)
THEOREM ChildrenAlwaysCharged ==
  ASSUME NoIdleKill, NoSelfKill, NoWrap
  PROVE  Spec => []ChildrenCharged
<1>1. IInv /\ LiveInv /\ [Next]_vars => LiveInv'
  BY Zenon, LiveStep
<1>2. IInv /\ LiveInv /\ CurRuns /\ [Next]_vars => CurRuns'
  BY Zenon, RevivalStep
<1>3. IInv /\ IInv' /\ LiveInv /\ CurRuns /\ ChargeInv /\ [Next]_vars => ChargeInv'
  BY Zenon, ChargeStep
<1>4. IInv /\ ChargeInv => ChildrenCharged
  BY Zenon DEF IInv, ContInv, ChargeInv, Covered, ChildrenCharged, Procs
<1> QED BY <1>1, <1>2, <1>3, <1>4, LiveInit, ChargeInit, Invariance, PTL
           DEF Spec
=============================================================================
