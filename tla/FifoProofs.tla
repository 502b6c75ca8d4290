----------------------------- MODULE FifoProofs ------------------------------
(***************************************************************************)
(* The ready queue of Proc implements RunQueue, for every number of        *)
(* processes: the threads that QueueList finds along the links from the    *)
(* head are those that became ready and were not chosen yet, in that       *)
(* order.  First what the queue operations do to that list, then what the  *)
(* scheduler functions do, then the refinement.                            *)
(***************************************************************************)
EXTENDS ProcProofs, ReadyQueue

(* s without its element at k.                                              *)
Without(s, k) == [i \in 1 .. Len(s) - 1 |-> IF i < k THEN s[i] ELSE s[i + 1]]

(* No more than m different numbers are below m.                            *)
Distinct(s, n, m) ==
  /\ s \in [1 .. n -> 0 .. m - 1]
  /\ \A i, j \in 1 .. n : s[i] = s[j] => i = j

LEMMA Pigeons ==
  ASSUME NEW m \in Nat, NEW n \in Nat, NEW s, Distinct(s, n, m)
  PROVE  n <= m
<1> DEFINE S == {k \in Nat : \A l \in Nat : \A t : Distinct(t, l, k) => l <= k}
<1>1. 0 \in S
  <2>1. ASSUME NEW l \in Nat, NEW t, Distinct(t, l, 0) PROVE l <= 0
    BY <2>1 DEF Distinct
  <2> QED BY Zenon, <2>1
<1>2. ASSUME NEW k \in Nat, k \in S PROVE k + 1 \in S
  <2>1. ASSUME NEW l \in Nat, NEW t, Distinct(t, l, k + 1) PROVE l <= k + 1
    <3>1. /\ t \in [1 .. l -> 0 .. k]
          /\ \A i, j \in 1 .. l : t[i] = t[j] => i = j
      BY <2>1 DEF Distinct
    <3>2. CASE \A i \in 1 .. l : t[i] # k
      <4>1. Distinct(t, l, k)
        BY <3>1, <3>2 DEF Distinct
      <4>2. l <= k
        BY Zenon, <1>2, <4>1
      <4> QED BY <4>2
    <3>3. ASSUME NEW i \in 1 .. l, t[i] = k PROVE l <= k + 1
      <4> DEFINE u == [j \in 1 .. l - 1 |-> IF j < i THEN t[j] ELSE t[j + 1]]
      <4>1. \A j \in 1 .. l - 1 : /\ u[j] = t[IF j < i THEN j ELSE j + 1]
                                  /\ (IF j < i THEN j ELSE j + 1) \in 1 .. l
                                  /\ (IF j < i THEN j ELSE j + 1) # i
        OBVIOUS
      <4>2. \A j \in 1 .. l - 1 : u[j] \in 0 .. k - 1
        BY <3>1, <3>3, <4>1
      <4>3. \A j, h \in 1 .. l - 1 : u[j] = u[h] => j = h
        <5>1. ASSUME NEW j \in 1 .. l - 1, NEW h \in 1 .. l - 1, u[j] = u[h]
              PROVE  (IF j < i THEN j ELSE j + 1) = (IF h < i THEN h ELSE h + 1)
          BY Zenon, <3>1, <4>1, <5>1
        <5>2. ASSUME NEW j \in 1 .. l - 1, NEW h \in 1 .. l - 1,
                     (IF j < i THEN j ELSE j + 1) = (IF h < i THEN h ELSE h + 1)
              PROVE  j = h
          BY <5>2
        <5> QED BY Zenon, <5>1, <5>2
      <4>4. Distinct(u, l - 1, k)
        BY Zenon, <4>2, <4>3 DEF Distinct
      <4> HIDE DEF u
      <4>5. l - 1 \in Nat /\ l \in Nat
        OBVIOUS
      <4>6. l - 1 <= k
        BY Zenon, <1>2, <4>4, <4>5
      <4> QED BY <4>5, <4>6
    <3> QED BY Zenon, <3>2, <3>3
  <2>2. k + 1 \in Nat
    OBVIOUS
  <2> QED BY Zenon, <2>1, <2>2
<1> HIDE DEF S
<1>3. Nat \subseteq S
  BY Zenon, <1>1, <1>2, NatSetInduction
<1> QED BY Zenon, <1>3 DEF S

-----------------------------------------------------------------------------

(* The queue q of the threads S is the sequence s.                          *)
Lists(s, n, q, S) ==
  /\ s \in Seq(S)
  /\ \A i, j \in 1 .. n : s[i] = s[j] => i = j
  /\ q.head = IF n = 0 THEN NULL ELSE s[1]
  /\ \A i \in 1 .. n : q.next[s[i]] = IF i = n THEN NULL ELSE s[i + 1]
  /\ \A p \in S : InQueue(q, p) <=> \E i \in 1 .. n : s[i] = p

Listed(s, q, S) == Lists(s, Len(s), q, S)

(* What QueueList computes for such a queue.                                *)
Steps(a, q) ==
  a = [i \in 1 .. NUM_IDS |-> IF i = 1 THEN q.head
                              ELSE After(q, a[i - 1])]

LEMMA ListedSteps ==
  ASSUME NEW S \in SUBSET Ids, NEW q, NEW s, Listed(s, q, S)
  PROVE  /\ Len(s) \in Nat /\ Len(s) <= NUM_IDS
         /\ Steps([i \in 1 .. NUM_IDS |-> IF i <= Len(s) THEN s[i] ELSE NULL], q)
<1> DEFINE n == Len(s)
           a == [i \in 1 .. NUM_IDS |-> IF i <= n THEN s[i] ELSE NULL]
<1>1. n \in Nat /\ NUM_IDS \in Nat /\ NUM_IDS > 2 /\ s \in [1 .. n -> Ids]
  BY NumIdsAssumption DEF Listed, Lists
<1>2. n <= NUM_IDS
  <2>1. Distinct(s, n, NUM_IDS)
    BY Zenon, <1>1 DEF Listed, Lists, Distinct, Ids
  <2> QED BY Zenon, <1>1, <2>1, Pigeons
<1>3. ASSUME NEW i \in 1 .. NUM_IDS
      PROVE  a[i] = IF i = 1 THEN q.head
                    ELSE After(q, a[i - 1])
  <2>1. CASE i = 1
    <3>1. 1 <= n <=> ~(Len(s) = 0)
      BY <1>1
    <3>2. a[1] = IF 1 <= n THEN s[1] ELSE NULL
      BY Zenon, <2>1
    <3>3. q.head = IF Len(s) = 0 THEN NULL ELSE s[1]
      BY Zenon DEF Listed, Lists
    <3> QED BY Zenon, <2>1, <3>1, <3>2, <3>3
  <2>2. CASE i # 1
    <3>1. i - 1 \in 1 .. NUM_IDS /\ (i - 1) + 1 = i /\ (i <= n => i - 1 \in 1 .. n /\ i - 1 # n)
      BY <1>1, <2>2
    <3>2. CASE i <= n
      <4>1. a[i - 1] = s[i - 1] /\ a[i] = s[i] /\ s[i - 1] \in Ids
        BY <1>1, <3>1, <3>2
      <4>2. q.next[s[i - 1]] = s[i]
        BY Zenon, <3>1, <3>2 DEF Listed, Lists
      <4> QED BY Zenon, <2>2, <4>1, <4>2, NullNotId DEF After
    <3>3. CASE i = n + 1
      <4>1. n \in 1 .. n /\ i - 1 = n /\ n \in 1 .. NUM_IDS /\ ~(i <= n) /\ n <= n
        BY <1>1, <2>2, <3>3
      <4>2. a[i - 1] = s[n] /\ a[i] = NULL /\ s[n] \in Ids
        BY Zenon, <1>1, <4>1
      <4>3. q.next[s[n]] = NULL
        BY Zenon, <4>1 DEF Listed, Lists
      <4> QED BY Zenon, <2>2, <4>2, <4>3, NullNotId DEF After
    <3>4. CASE i > n + 1
      BY <1>1, <2>2, <3>1, <3>4 DEF After
    <3> QED BY <1>1, <3>2, <3>3, <3>4
  <2> QED BY Zenon, <2>1, <2>2
<1>4. Steps(a, q)
  BY Zenon, <1>3 DEF Steps
<1> QED BY Zenon, <1>1, <1>2, <1>4

StepAt(a, q, i) ==
  a[i] = IF i = 1 THEN q.head ELSE After(q, a[i - 1])

LEMMA StepsAt ==
  ASSUME NEW q, NEW a, Steps(a, q), NEW i \in 1 .. NUM_IDS
  PROVE  StepAt(a, q, i)
<1> DEFINE F(j) == IF j = 1 THEN q.head ELSE After(q, a[j - 1])
           f == [j \in 1 .. NUM_IDS |-> F(j)]
<1>1. a = f
  BY Zenon DEF Steps
<1>2. f[i] = F(i)
  BY Zenon
<1> HIDE DEF f, F
<1>3. a[i] = F(i)
  BY Zenon, <1>1, <1>2
<1> QED BY Zenon, <1>3 DEF F, StepAt

LEMMA StepsUnique ==
  ASSUME NEW q, NEW a, NEW b, Steps(a, q), Steps(b, q)
  PROVE  a = b
<1> DEFINE S == {i \in Nat : i + 1 \in 1 .. NUM_IDS => a[i + 1] = b[i + 1]}
<1>1. NUM_IDS \in Nat /\ 0 + 1 = 1
  BY NumIdsAssumption
<1>A. \A j \in 1 .. NUM_IDS : StepAt(a, q, j) /\ StepAt(b, q, j)
  BY Zenon, StepsAt
<1>2. 0 \in S
  <2>1. 1 \in 1 .. NUM_IDS => a[1] = b[1]
    BY Zenon, <1>A DEF StepAt
  <2> QED BY <2>1
<1>3. ASSUME NEW i \in Nat, i \in S PROVE i + 1 \in S
  <2>1. ASSUME (i + 1) + 1 \in 1 .. NUM_IDS PROVE a[(i + 1) + 1] = b[(i + 1) + 1]
    <3>1. i + 1 \in 1 .. NUM_IDS /\ ((i + 1) + 1) - 1 = i + 1 /\ (i + 1) + 1 # 1
      BY <1>1, <2>1
    <3>2. a[i + 1] = b[i + 1]
      BY Zenon, <1>3, <3>1
    <3>3. a[(i + 1) + 1] = After(q, a[i + 1])
      BY Zenon, <2>1, <3>1, <1>A DEF StepAt
    <3>4. b[(i + 1) + 1] = After(q, b[i + 1])
      BY Zenon, <2>1, <3>1, <1>A DEF StepAt
    <3> QED BY Zenon, <3>2, <3>3, <3>4
  <2>2. i + 1 \in Nat
    OBVIOUS
  <2> QED BY Zenon, <2>1, <2>2
<1> HIDE DEF S
<1>4. Nat \subseteq S
  BY Zenon, <1>2, <1>3, NatSetInduction
<1>5. ASSUME NEW i \in 1 .. NUM_IDS PROVE a[i] = b[i]
  <2>1. i - 1 \in Nat /\ (i - 1) + 1 = i
    BY <1>1
  <2>2. i - 1 \in S
    BY Zenon, <1>4, <2>1
  <2> QED BY Zenon, <2>1, <2>2 DEF S
<1>6. /\ a = [i \in 1 .. NUM_IDS |-> a[i]]
      /\ b = [i \in 1 .. NUM_IDS |-> b[i]]
  BY Zenon DEF Steps
<1> QED BY Zenon, <1>5, <1>6

LEMMA EndsAt ==
  ASSUME NEW n \in 0 .. NUM_IDS, NEW a, \A i \in 1 .. NUM_IDS : a[i] # NULL <=> i <= n,
         NEW m \in 0 .. NUM_IDS
  PROVE  Ends(a, m) <=> m = n
<1>1. NUM_IDS \in Nat
  BY NumIdsAssumption
<1>2. CASE m < n
  <2>1. m + 1 \in 1 .. NUM_IDS /\ m + 1 <= n /\ m # NUM_IDS /\ m # n
    BY <1>1, <1>2
  <2> QED BY Zenon, <2>1 DEF Ends
<1>3. CASE m = n
  <2>1. /\ m = 0 \/ (m \in 1 .. NUM_IDS /\ m <= n)
        /\ m = NUM_IDS \/ (m + 1 \in 1 .. NUM_IDS /\ ~(m + 1 <= n))
    BY <1>1, <1>3
  <2> QED BY Zenon, <1>3, <2>1 DEF Ends
<1>4. CASE m > n
  <2>1. m \in 1 .. NUM_IDS /\ ~(m <= n) /\ m # 0 /\ m # n
    BY <1>1, <1>4
  <2> QED BY Zenon, <2>1 DEF Ends
<1> QED BY <1>1, <1>2, <1>3, <1>4

LEMMA ListedIs ==
  ASSUME NEW S \in SUBSET Ids, NEW q, NEW s, Listed(s, q, S)
  PROVE  QueueList(q) = s
<1> DEFINE n == Len(s)
           a == [i \in 1 .. NUM_IDS |-> IF i <= n THEN s[i] ELSE NULL]
<1>1. n \in Nat /\ n <= NUM_IDS /\ Steps(a, q)
  BY Zenon, ListedSteps
<1>2. NUM_IDS \in Nat /\ s \in [1 .. n -> Ids]
  BY NumIdsAssumption DEF Listed, Lists
<1>3. Links(q) = a
  <2>1. Links(q) = CHOOSE f : Steps(f, q)
    BY Zenon DEF Links, Steps
  <2> QED BY Zenon, <1>1, <2>1, StepsUnique
<1>4. \A i \in 1 .. NUM_IDS : a[i] # NULL <=> i <= n
  BY <1>1, <1>2, NullNotId
<1>5. \A i \in 1 .. n : i \in 1 .. NUM_IDS /\ a[i] = s[i]
  BY <1>1, <1>2
<1> HIDE DEF a
<1>6. n \in 0 .. NUM_IDS
  BY <1>1, <1>2
<1>7. \A m \in 0 .. NUM_IDS : Ends(a, m) <=> m = n
  <2> HIDE DEF n
  <2> QED BY Zenon, <1>4, <1>6, EndsAt
<1>8. (CHOOSE m \in 0 .. NUM_IDS : Ends(a, m)) = n
  <2> HIDE DEF n
  <2> QED BY Zenon, <1>6, <1>7
<1>9. QueueList(q) = [i \in 1 .. n |-> a[i]]
  BY Zenon, <1>3, <1>8 DEF QueueList
<1>10. [i \in 1 .. n |-> a[i]] = [i \in 1 .. n |-> s[i]]
  BY Zenon, <1>5
<1>11. s = [i \in 1 .. n |-> s[i]]
  BY <1>2
<1> QED BY Zenon, <1>9, <1>10, <1>11

-----------------------------------------------------------------------------

(* The links of a listed queue.                                             *)
Chained(s, n, q, S) ==
  /\ n \in Nat /\ s \in [1 .. n -> S]
  /\ \A i \in 1 .. n : /\ s[i] \in S /\ s[i] \in Ids /\ s[i] # NULL
                       /\ InQueue(q, s[i])
                       /\ q.prev[s[i]] = IF i = 1 THEN NULL ELSE s[i - 1]
  /\ n = 0 => q.head = NULL /\ q.tail = NULL
  /\ n # 0 => /\ 1 \in 1 .. n /\ n \in 1 .. n
              /\ q.head = s[1] /\ q.tail = s[n] /\ q.head # NULL /\ q.tail # NULL

LEMMA ListedFacts ==
  ASSUME NEW S \in SUBSET Ids, NEW q \in QueueType, WellLinked(q, S), NEW s, Listed(s, q, S)
  PROVE  Chained(s, Len(s), q, S)
<1> DEFINE n == Len(s)
<1>1. n \in Nat /\ s \in [1 .. n -> S]
  BY DEF Listed, Lists
<1>2. \A i \in 1 .. n : s[i] \in S /\ s[i] \in Ids /\ s[i] # NULL /\ InQueue(q, s[i])
  BY Zenon, <1>1, NullNotId DEF Listed, Lists
<1>3. n = 0 => q.head = NULL /\ q.tail = NULL
  BY Zenon DEF Listed, Lists, WellLinked
<1>4. n # 0 => 1 \in 1 .. n /\ n \in 1 .. n
  BY <1>1
<1>5. n # 0 => q.head = s[1] /\ q.next[s[n]] = NULL
  BY Zenon, <1>4 DEF Listed, Lists
<1>6. n # 0 => q.tail = s[n]
  BY Zenon, <1>2, <1>4, <1>5 DEF WellLinked
<1>7. ASSUME NEW i \in 1 .. n PROVE q.prev[s[i]] = IF i = 1 THEN NULL ELSE s[i - 1]
  <2>1. CASE i = 1
    <3>1. n # 0
      BY <1>1
    <3> QED BY Zenon, <1>2, <1>5, <2>1, <1>4, <3>1 DEF WellLinked
  <2>2. CASE i # 1
    <3>1. i - 1 \in 1 .. n /\ i - 1 # n /\ (i - 1) + 1 = i
      BY <1>1, <2>2
    <3>2. q.next[s[i - 1]] = s[i]
      BY Zenon, <3>1 DEF Listed, Lists
    <3>3. s[i - 1] \in S /\ s[i] # NULL
      BY Zenon, <1>2, <3>1
    <3>4. q.prev[q.next[s[i - 1]]] = s[i - 1]
      BY Zenon, <3>2, <3>3 DEF WellLinked
    <3> QED BY Zenon, <2>2, <3>2, <3>4
  <2> QED BY Zenon, <2>1, <2>2
<1> QED BY Zenon, <1>1, <1>2, <1>3, <1>4, <1>5, <1>6, <1>7 DEF Chained

(* tqueue_enqueue appends.                                                  *)
LEMMA EnqueueListed ==
  ASSUME NEW S \in SUBSET Ids, NEW q \in QueueType, WellLinked(q, S), NEW s, Listed(s, q, S),
         NEW p \in Ids, p \in S => ~InQueue(q, p)
  PROVE  Listed(Append(s, p), Enqueue(q, p), S \cup {p})
<1> DEFINE n == Len(s)
           t == Append(s, p)
           r == Enqueue(q, p)
<1>0. /\ s \in Seq(S)
      /\ \A i, j \in 1 .. n : s[i] = s[j] => i = j
      /\ \A i \in 1 .. n : q.next[s[i]] = IF i = n THEN NULL ELSE s[i + 1]
      /\ \A x \in S : InQueue(q, x) <=> \E i \in 1 .. n : s[i] = x
  BY Zenon DEF Listed, Lists
<1>1. /\ n \in Nat /\ s \in [1 .. n -> S]
      /\ \A i \in 1 .. n : s[i] \in S /\ s[i] \in Ids /\ s[i] # NULL /\ InQueue(q, s[i])
      /\ n = 0 => q.head = NULL /\ q.tail = NULL
      /\ n # 0 => /\ 1 \in 1 .. n /\ n \in 1 .. n /\ q.head = s[1] /\ q.tail = s[n]
                  /\ q.head # NULL /\ q.tail # NULL
  <2>1. Chained(s, n, q, S)
    BY Zenon, ListedFacts
  <2> QED BY Zenon, <2>1 DEF Chained
<1>2. \A i \in 1 .. n : s[i] # p
  BY Zenon, <1>1
<1>3. /\ t \in Seq(S \cup {p}) /\ Len(t) = n + 1 /\ t[n + 1] = p
      /\ \A i \in 1 .. n : t[i] = s[i]
  BY <1>0, <1>1
<1> HIDE DEF n, t
<1>4. \A i \in 1 .. n + 1 : i \in 1 .. n \/ i = n + 1
  BY <1>1
<1>5. \A i, j \in 1 .. n + 1 : t[i] = t[j] => i = j
  <2>1. \A i, j \in 1 .. n : t[i] = t[j] => i = j
    BY Zenon, <1>0, <1>3
  <2>2. \A i \in 1 .. n : t[i] # t[n + 1]
    BY Zenon, <1>2, <1>3
  <2> QED BY Zenon, <1>4, <2>1, <2>2
<1>6. \A x \in S \cup {p} : InQueue(r, x) <=> x = p \/ (x \in S /\ InQueue(q, x))
  BY Zenon, EnqueueLinks
<1>7. /\ r.head = IF n = 0 THEN p ELSE s[1]
      /\ \A x \in Ids : r.next[x] = IF x = p THEN NULL
                                    ELSE IF n # 0 /\ x = s[n] THEN p ELSE q.next[x]
  <2>1. q.next \in [Ids -> Ids \cup {NULL}]
    BY Zenon DEF QueueType
  <2>2. CASE n = 0
    BY Zenon, <1>1, <2>1, <2>2 DEF Enqueue
  <2>3. CASE n # 0
    BY Zenon, <1>1, <1>2, <2>1, <2>3 DEF Enqueue
  <2> QED BY Zenon, <2>2, <2>3
<1> HIDE DEF r
<1>8. r.head = t[1]
  <2>1. CASE n = 0
    BY <1>3, <1>7, <2>1
  <2>2. CASE n # 0
    BY Zenon, <1>1, <1>3, <1>7, <2>2
  <2> QED BY Zenon, <2>1, <2>2
<1>9. ASSUME NEW i \in 1 .. n + 1 PROVE r.next[t[i]] = IF i = n + 1 THEN NULL ELSE t[i + 1]
  <2>1. CASE i = n + 1
    BY Zenon, <1>3, <1>7, <2>1
  <2>2. CASE i # n + 1 /\ i = n
    <3>1. i \in 1 .. n /\ n # 0
      BY <1>1, <2>2
    <3> QED BY Zenon, <1>1, <1>2, <1>3, <1>7, <2>2, <3>1
  <2>3. CASE i # n + 1 /\ i # n
    <3>1. i \in 1 .. n /\ n # 0 /\ i + 1 \in 1 .. n /\ n \in 1 .. n
      BY <1>1, <2>3
    <3>2. s[i] # s[n] /\ q.next[s[i]] = s[i + 1]
      BY Zenon, <1>0, <2>3, <3>1
    <3>3. t[i] = s[i] /\ t[i + 1] = s[i + 1] /\ s[i] \in Ids /\ s[i] # p
      BY Zenon, <1>1, <1>2, <1>3, <3>1
    <3>4. r.next[s[i]] = q.next[s[i]]
      BY Zenon, <1>7, <3>2, <3>3
    <3> QED BY Zenon, <2>3, <3>2, <3>3, <3>4
  <2> QED BY Zenon, <2>1, <2>2, <2>3
<1>10. \A x \in S \cup {p} : InQueue(r, x) <=> \E i \in 1 .. n + 1 : t[i] = x
  <2>1. n + 1 \in 1 .. n + 1 /\ \A i \in 1 .. n : i \in 1 .. n + 1
    BY <1>1
  <2> QED BY ZenonT(30), <1>3, <1>4, <1>6, <1>0, <2>1
<1>11. n + 1 # 0
  BY <1>1
<1>12. Lists(t, n + 1, r, S \cup {p})
  BY Zenon, <1>3, <1>5, <1>8, <1>9, <1>10, <1>11 DEF Lists
<1> QED BY Zenon, <1>3, <1>12 DEF Listed, t, r

(* tqueue_dequeue takes the first.                                          *)
LEMMA DequeueListed ==
  ASSUME NEW S \in SUBSET Ids, NEW q \in QueueType, WellLinked(q, S), NEW s, Listed(s, q, S),
         Len(s) # 0
  PROVE  q.head = Head(s) /\ Listed(Tail(s), Dequeue(q), S)
<1> DEFINE n == Len(s)
           t == Tail(s)
           r == Dequeue(q)
<1>0. /\ s \in Seq(S)
      /\ \A i, j \in 1 .. n : s[i] = s[j] => i = j
      /\ \A i \in 1 .. n : q.next[s[i]] = IF i = n THEN NULL ELSE s[i + 1]
      /\ \A x \in S : InQueue(q, x) <=> \E i \in 1 .. n : s[i] = x
  BY Zenon DEF Listed, Lists
<1>1. /\ n \in Nat /\ s \in [1 .. n -> S]
      /\ \A i \in 1 .. n : s[i] \in S /\ s[i] \in Ids /\ s[i] # NULL
      /\ 1 \in 1 .. n /\ n \in 1 .. n /\ q.head = s[1] /\ q.head # NULL
  <2>1. Chained(s, n, q, S)
    BY Zenon, ListedFacts
  <2> QED BY Zenon, <2>1 DEF Chained
<1>2. /\ s # <<>> /\ t \in Seq(S) /\ Len(t) = n - 1 /\ Head(s) = s[1] /\ n - 1 \in Nat
      /\ \A i \in 1 .. n - 1 : t[i] = s[i + 1] /\ i + 1 \in 1 .. n /\ i + 1 # 1
  <2>1. s \in Seq(S) /\ s # <<>>
    <3>1. Len(<<>>) = 0
      OBVIOUS
    <3> QED BY Zenon, <1>0, <3>1
  <2>2. t \in Seq(S) /\ Len(t) = n - 1 /\ Head(s) = s[1] /\ n - 1 \in Nat
    BY <2>1
  <2>3. \A i \in 1 .. n - 1 : t[i] = s[i + 1]
    BY <2>1, <2>2
  <2>4. \A i \in 1 .. n - 1 : i + 1 \in 1 .. n /\ i + 1 # 1
    BY <1>1
  <2> QED BY Zenon, <2>1, <2>2, <2>3, <2>4
<1> HIDE DEF n, t
<1>3. \A x \in S : InQueue(r, x) <=> InQueue(q, x) /\ x # q.head
  BY Zenon, <1>1, DequeueLinks
<1>4. q.next[s[1]] = IF 1 = n THEN NULL ELSE s[2]
  BY <1>0, <1>1
<1>5. /\ r.head = q.next[s[1]]
      /\ \A x \in Ids : x # s[1] => r.next[x] = q.next[x]
  <2>1. q.next \in [Ids -> Ids \cup {NULL}]
    BY Zenon DEF QueueType
  <2>2. CASE q.next[q.head] = NULL
    BY Zenon, <1>1, <2>1, <2>2 DEF Dequeue
  <2>3. CASE q.next[q.head] # NULL
    BY Zenon, <1>1, <2>1, <2>3 DEF Dequeue
  <2> QED BY Zenon, <2>2, <2>3
<1> HIDE DEF r
<1>6. \A i, j \in 1 .. n - 1 : t[i] = t[j] => i = j
  <2>1. ASSUME NEW i \in 1 .. n - 1, NEW j \in 1 .. n - 1, t[i] = t[j] PROVE i + 1 = j + 1
    <3>1. s[i + 1] = s[j + 1] /\ i + 1 \in 1 .. n /\ j + 1 \in 1 .. n
      BY Zenon, <1>2, <2>1
    <3> QED BY Zenon, <1>0, <3>1
  <2> QED BY <1>2, <2>1
<1>7. r.head = IF n - 1 = 0 THEN NULL ELSE t[1]
  BY <1>1, <1>2, <1>4, <1>5
<1>8. ASSUME NEW i \in 1 .. n - 1 PROVE r.next[t[i]] = IF i = n - 1 THEN NULL ELSE t[i + 1]
  <2>1. t[i] = s[i + 1] /\ i + 1 \in 1 .. n /\ i + 1 # 1
    BY Zenon, <1>2
  <2>2. s[i + 1] # s[1]
    BY Zenon, <1>1, <2>1, <1>0
  <2>3. r.next[t[i]] = q.next[s[i + 1]]
    BY Zenon, <1>1, <1>5, <2>1, <2>2
  <2>4. q.next[s[i + 1]] = IF i + 1 = n THEN NULL ELSE s[(i + 1) + 1]
    BY Zenon, <2>1, <1>0
  <2>5. (i + 1 = n <=> i = n - 1) /\ (i # n - 1 => i + 1 \in 1 .. n - 1)
    BY <1>1
  <2> QED BY Zenon, <1>2, <2>3, <2>4, <2>5
<1>9. \A x \in S : InQueue(r, x) <=> \E i \in 1 .. n - 1 : t[i] = x
  <2>1. ASSUME NEW x \in S, InQueue(r, x) PROVE \E i \in 1 .. n - 1 : t[i] = x
    <3>1. PICK i \in 1 .. n : s[i] = x
      BY Zenon, <1>3, <2>1, <1>0
    <3>2. i # 1
      BY Zenon, <1>1, <1>3, <2>1, <3>1
    <3>3. i - 1 \in 1 .. n - 1 /\ (i - 1) + 1 = i
      BY <1>1, <3>2
    <3> QED BY Zenon, <1>2, <3>1, <3>3
  <2>2. ASSUME NEW x \in S, NEW i \in 1 .. n - 1, t[i] = x PROVE InQueue(r, x)
    <3>1. x = s[i + 1] /\ i + 1 \in 1 .. n /\ i + 1 # 1
      BY Zenon, <1>2, <2>2
    <3>2. x # s[1] /\ InQueue(q, x)
      BY Zenon, <1>0, <1>1, <3>1
    <3> QED BY Zenon, <1>1, <1>3, <3>2
  <2> QED BY Zenon, <2>1, <2>2
<1>10. Lists(t, n - 1, r, S)
  BY Zenon, <1>2, <1>6, <1>7, <1>8, <1>9 DEF Lists
<1> QED BY Zenon, <1>1, <1>2, <1>10 DEF Listed, t, r

(* tqueue_remove of a thread of the queue takes it out of the order.        *)
Skip(k, j) == IF j < k THEN j ELSE j + 1

Skips(w, s, k, S) ==
  /\ w \in Seq(S) /\ Len(w) = Len(s) - 1
  /\ \A j \in 1 .. Len(s) - 1 : w[j] = s[Skip(k, j)]

LEMMA WithoutIs ==
  ASSUME NEW S, NEW s \in Seq(S), NEW k \in 1 .. Len(s)
  PROVE  Skips(Without(s, k), s, k, S)
<1> DEFINE n == Len(s)
<1>1. n \in Nat /\ n - 1 \in Nat /\ s \in [1 .. n -> S]
  OBVIOUS
<1>2. \A j \in 1 .. n - 1 : Skip(k, j) \in 1 .. n
  BY <1>1 DEF Skip
<1> HIDE DEF n
<1>3. \A j \in 1 .. n - 1 : (IF j < k THEN s[j] ELSE s[j + 1]) = s[Skip(k, j)]
  BY Zenon DEF Skip
<1>4. \A j \in 1 .. n - 1 : (IF j < k THEN s[j] ELSE s[j + 1]) \in S
  BY Zenon, <1>1, <1>2, <1>3
<1> DEFINE w == [j \in 1 .. n - 1 |-> IF j < k THEN s[j] ELSE s[j + 1]]
<1>5. /\ w \in [1 .. n - 1 -> S]
      /\ \A j \in 1 .. n - 1 : w[j] = s[Skip(k, j)]
  BY Zenon, <1>3, <1>4
<1>6. DOMAIN w = 1 .. n - 1
  BY Zenon
<1>7. Without(s, k) = w
  BY Zenon DEF Without, n
<1> HIDE DEF w
<1>8. w \in Seq(S) /\ Len(w) = n - 1
  BY <1>1, <1>5, <1>6
<1> QED BY Zenon, <1>5, <1>7, <1>8 DEF n, Skips

LEMMA SkipIndices ==
  ASSUME NEW n \in Nat, NEW k \in 1 .. n
  PROVE  /\ n - 1 \in Nat
         /\ \A j \in 1 .. n - 1 : /\ Skip(k, j) \in 1 .. n
                                  /\ Skip(k, j) # k
         /\ \A i, j \in 1 .. n - 1 :
              Skip(k, i) = Skip(k, j) => i = j
         /\ \A i \in 1 .. n : i # k => \E j \in 1 .. n - 1 : i = Skip(k, j)
<1>1. n - 1 \in Nat
  BY DEF Skip
<1>2. ASSUME NEW i \in 1 .. n, i # k
      PROVE  \E j \in 1 .. n - 1 : i = Skip(k, j)
  <2>1. CASE i < k
    <3>1. i \in 1 .. n - 1
      BY <2>1
    <3> QED BY Zenon, <2>1, <3>1 DEF Skip
  <2>2. CASE ~(i < k)
    <3>1. i - 1 \in 1 .. n - 1 /\ ~(i - 1 < k) /\ i = (i - 1) + 1
      BY <1>2, <2>2
    <3> QED BY Zenon, <3>1 DEF Skip
  <2> QED BY Zenon, <2>1, <2>2
<1>3. \A j \in 1 .. n - 1 : /\ Skip(k, j) \in 1 .. n
                            /\ Skip(k, j) # k
  BY DEF Skip
<1>4. \A i, j \in 1 .. n - 1 :
        Skip(k, i) = Skip(k, j) => i = j
  BY DEF Skip
<1> QED BY Zenon, <1>1, <1>2, <1>3, <1>4

LEMMA RemoveListed ==
  ASSUME NEW S \in SUBSET Ids, NEW q \in QueueType, WellLinked(q, S), NEW s, Listed(s, q, S),
         NEW k \in 1 .. Len(s)
  PROVE  Listed(Without(s, k), Remove(q, s[k]), S)
<1> DEFINE n == Len(s)
           t == Without(s, k)
           p == s[k]
           r == Remove(q, p)
<1>1. /\ s \in Seq(S)
      /\ \A i, j \in 1 .. n : s[i] = s[j] => i = j
      /\ \A i \in 1 .. n : q.next[s[i]] = IF i = n THEN NULL ELSE s[i + 1]
      /\ \A x \in S : InQueue(q, x) <=> \E i \in 1 .. n : s[i] = x
  BY Zenon DEF Listed, Lists
<1>2. /\ n \in Nat /\ s \in [1 .. n -> S]
      /\ \A i \in 1 .. n : /\ s[i] \in S /\ s[i] \in Ids /\ s[i] # NULL
                           /\ InQueue(q, s[i])
                           /\ q.prev[s[i]] = IF i = 1 THEN NULL ELSE s[i - 1]
      /\ n # 0 => 1 \in 1 .. n /\ n \in 1 .. n /\ q.head = s[1]
  <2>1. Chained(s, n, q, S)
    BY Zenon, ListedFacts
  <2> QED BY Zenon, <2>1 DEF Chained
<1>3. t \in Seq(S) /\ Len(t) = n - 1 /\ \A j \in 1 .. n - 1 : t[j] = s[Skip(k, j)]
  <2>1. Skips(t, s, k, S)
    BY Zenon, <1>1, WithoutIs
  <2> HIDE DEF t
  <2> QED BY Zenon, <2>1 DEF Skips
<1>4. k \in 1 .. n
  OBVIOUS
<1> HIDE DEF n, t
<1>5. /\ n - 1 \in Nat
      /\ \A j \in 1 .. n - 1 : Skip(k, j) \in 1 .. n /\ Skip(k, j) # k
      /\ \A i, j \in 1 .. n - 1 : Skip(k, i) = Skip(k, j) => i = j
      /\ \A i \in 1 .. n : i # k => \E j \in 1 .. n - 1 : i = Skip(k, j)
  BY Zenon, <1>2, <1>4, SkipIndices
<1>6. /\ p \in S /\ InQueue(q, p)
      /\ q.prev[p] = IF k = 1 THEN NULL ELSE s[k - 1]
      /\ q.next[p] = IF k = n THEN NULL ELSE s[k + 1]
  BY Zenon, <1>1, <1>2, <1>4
<1>7. /\ r.head = IF q.prev[p] = NULL THEN q.next[p] ELSE q.head
      /\ \A x \in Ids : x # p => r.next[x] = IF x = q.prev[p] THEN q.next[p] ELSE q.next[x]
  <2>1. ~Detached(q, p)
    BY Zenon, <1>6 DEF Detached, InQueue
  <2> HIDE DEF p
  <2> QED BY Zenon, <2>1 DEF Remove
<1>8. \A x \in S : InQueue(r, x) <=> InQueue(q, x) /\ x # p
  BY Zenon, <1>6, RemoveLinks
<1> HIDE DEF r
<1>9. \A i, j \in 1 .. n - 1 : t[i] = t[j] => i = j
  <2>1. ASSUME NEW i \in 1 .. n - 1, NEW j \in 1 .. n - 1, t[i] = t[j] PROVE Skip(k, i) = Skip(k, j)
    <3>1. s[Skip(k, i)] = s[Skip(k, j)] /\ Skip(k, i) \in 1 .. n /\ Skip(k, j) \in 1 .. n
      BY Zenon, <1>3, <1>5, <2>1
    <3> QED BY Zenon, <1>1, <3>1
  <2> QED BY Zenon, <1>5, <2>1
<1>10. r.head = IF n - 1 = 0 THEN NULL ELSE t[1]
  <2>1. CASE k = 1
    <3>1. r.head = IF 1 = n THEN NULL ELSE s[2]
      BY <1>6, <1>7, <2>1
    <3>2. n - 1 # 0 => 1 \in 1 .. n - 1 /\ Skip(k, 1) = 2
      BY <1>2, <2>1 DEF Skip
    <3>3. n - 1 # 0 => t[1] = s[2]
      BY Zenon, <1>3, <3>2
    <3>4. n - 1 = 0 <=> 1 = n
      BY <1>2
    <3> QED BY Zenon, <3>1, <3>3, <3>4
  <2>2. CASE k # 1
    <3>1. n - 1 # 0 /\ 1 \in 1 .. n - 1 /\ Skip(k, 1) = 1 /\ k - 1 \in 1 .. n /\ n # 0
      BY <1>2, <1>4, <2>2 DEF Skip
    <3>2. t[1] = s[Skip(k, 1)]
      BY Zenon, <1>3, <3>1
    <3>3. t[1] = s[1]
      BY Zenon, <3>1, <3>2
    <3> QED BY Zenon, <1>2, <1>6, <1>7, <2>2, <3>1, <3>3
  <2> QED BY Zenon, <2>1, <2>2
<1>11. ASSUME NEW j \in 1 .. n - 1 PROVE r.next[t[j]] = IF j = n - 1 THEN NULL ELSE t[j + 1]
  <2>1. /\ t[j] = s[Skip(k, j)] /\ Skip(k, j) \in 1 .. n /\ s[Skip(k, j)] # p
        /\ s[Skip(k, j)] \in Ids /\ q.next[s[Skip(k, j)]] = IF Skip(k, j) = n THEN NULL ELSE s[Skip(k, j) + 1]
    <3>1. t[j] = s[Skip(k, j)] /\ Skip(k, j) \in 1 .. n /\ Skip(k, j) # k
      BY Zenon, <1>3, <1>5
    <3> QED BY Zenon, <1>1, <1>2, <1>4, <3>1
  <2>2. r.next[t[j]] = IF s[Skip(k, j)] = q.prev[p] THEN q.next[p] ELSE q.next[s[Skip(k, j)]]
    <3> HIDE DEF p
    <3> QED BY Zenon, <1>7, <2>1
  <2>3. CASE j + 1 = k
    <3>1. Skip(k, j) = j /\ k # 1 /\ k - 1 = j /\ (j = n - 1 <=> k = n)
      BY <1>2, <1>4, <2>3 DEF Skip
    <3>2. r.next[t[j]] = IF k = n THEN NULL ELSE s[k + 1]
      BY Zenon, <1>6, <2>2, <3>1
    <3>3. j # n - 1 => k \in 1 .. n - 1 /\ Skip(k, k) = k + 1
      BY <1>2, <1>4, <2>3 DEF Skip
    <3>4. j # n - 1 => t[j + 1] = s[k + 1]
      BY Zenon, <1>3, <2>3, <3>3
    <3> QED BY Zenon, <3>1, <3>2, <3>4
  <2>4. CASE j + 1 # k
    <3>1. s[Skip(k, j)] # q.prev[p]
      <4>1. CASE k = 1
        BY Zenon, <1>2, <1>6, <2>1, <4>1
      <4>2. CASE k # 1
        <5>1. k - 1 \in 1 .. n /\ Skip(k, j) # k - 1
          BY <1>2, <1>4, <2>4, <4>2 DEF Skip
        <5>2. q.prev[p] = s[k - 1]
          BY Zenon, <1>6, <4>2
        <5> QED BY Zenon, <1>1, <2>1, <5>1, <5>2
      <4> QED BY Zenon, <4>1, <4>2
    <3>2. r.next[t[j]] = IF Skip(k, j) = n THEN NULL ELSE s[Skip(k, j) + 1]
      <4> QED BY Zenon, <2>1, <2>2, <3>1
    <3>3. /\ Skip(k, j) = n <=> j = n - 1
          /\ j # n - 1 => j + 1 \in 1 .. n - 1 /\ Skip(k, j + 1) = Skip(k, j) + 1
      BY <1>2, <1>4, <2>4 DEF Skip
    <3>4. j # n - 1 => t[j + 1] = s[Skip(k, j) + 1]
      <4>1. j # n - 1 => t[j + 1] = s[Skip(k, j + 1)]
        BY Zenon, <1>3, <3>3
      <4> QED BY Zenon, <3>3, <4>1
    <3> QED BY Zenon, <3>2, <3>3, <3>4
  <2> QED BY Zenon, <2>3, <2>4
<1>12. \A x \in S : InQueue(r, x) <=> \E j \in 1 .. n - 1 : t[j] = x
  <2>1. ASSUME NEW x \in S, InQueue(r, x) PROVE \E j \in 1 .. n - 1 : t[j] = x
    <3>1. PICK i \in 1 .. n : s[i] = x
      BY Zenon, <1>1, <1>8, <2>1
    <3>2. i # k
      BY Zenon, <1>8, <2>1, <3>1
    <3> QED BY Zenon, <1>3, <1>5, <3>1, <3>2
  <2>2. ASSUME NEW x \in S, NEW j \in 1 .. n - 1, t[j] = x PROVE InQueue(r, x)
    <3>1. x = s[Skip(k, j)] /\ Skip(k, j) \in 1 .. n /\ Skip(k, j) # k
      BY Zenon, <1>3, <1>5, <2>2
    <3> QED BY Zenon, <1>1, <1>2, <1>4, <1>8, <3>1
  <2> QED BY Zenon, <2>1, <2>2
<1>13. Lists(t, n - 1, r, S)
  BY Zenon, <1>3, <1>9, <1>10, <1>11, <1>12 DEF Lists
<1> QED BY Zenon, <1>3, <1>13 DEF Listed, t, r

-----------------------------------------------------------------------------

(* tqueue_remove of a thread that is in no queue does nothing.              *)
LEMMA UnqueuedRemove ==
  ASSUME NEW S \in SUBSET Ids, NEW q \in QueueType, WellLinked(q, S), NEW p \in S,
         ~InQueue(q, p)
  PROVE  Remove(q, p) = q
<1>1. Detached(q, p)
  BY Zenon DEF Detached, WellLinked, InQueue
<1> QED BY Zenon, <1>1 DEF Remove

(* What the scheduler functions do to the order.                            *)
LEMMA YieldListed ==
  ASSUME NEW s, NEW S, SchedInv(s, S), s.cur # NULL, s.state[s.cur] = "RUN",
         NEW l, Listed(l, s.q, S)
  PROVE  /\ ThreadYield(s).cur = Head(Append(l, s.cur))
         /\ Listed(Tail(Append(l, s.cur)), ThreadYield(s).q, S)
<1> DEFINE e == Enqueue(s.q, s.cur)
           a == Append(l, s.cur)
<1>1. /\ s.q \in QueueType /\ S \in SUBSET Ids /\ WellLinked(s.q, S)
      /\ s.cur \in S /\ s.cur \in Ids /\ ~InQueue(s.q, s.cur)
  BY Zenon, TypeFacts DEF SchedInv, SchedConsistent
<1>2. S \cup {s.cur} = S
  BY Zenon, <1>1
<1>3. e \in QueueType /\ WellLinked(e, S)
  <2>1. WellLinked(e, S \cup {s.cur})
    BY Zenon, <1>1, EnqueueLinks
  <2> QED BY Zenon, <1>1, <1>2, <2>1, EnqueueType
<1>4. Listed(a, e, S)
  <2>1. Listed(a, e, S \cup {s.cur})
    BY Zenon, <1>1, EnqueueListed
  <2> QED BY Zenon, <1>2, <2>1
<1>5. Len(a) # 0
  <2>1. l \in Seq(S)
    BY Zenon DEF Listed, Lists
  <2> QED BY <2>1
<1>6. /\ ThreadYield(s).cur = e.head
      /\ ThreadYield(s).q = Dequeue(e)
  BY Zenon DEF ThreadYield, ThreadSpawn, Dequeued, SwitchTo
<1> HIDE DEF a, e
<1>7. e.head = Head(a) /\ Listed(Tail(a), Dequeue(e), S)
  BY Zenon, <1>1, <1>3, <1>4, <1>5, DequeueListed
<1> QED BY Zenon, <1>6, <1>7 DEF a

LEMMA LeaveListed ==
  ASSUME NEW s, NEW S, SchedInv(s, S), s.state[IDLE] = "READY", NEW l, Listed(l, s.q, S)
  PROVE  /\ l # <<>> /\ s.q.head # NULL
         /\ s.q.head = Head(l) /\ Listed(Tail(l), Dequeue(s.q), S)
<1>1. /\ s.q \in QueueType /\ S \in SUBSET Ids /\ WellLinked(s.q, S)
      /\ IDLE \in S /\ InQueue(s.q, IDLE)
  BY Zenon, TypeFacts DEF SchedInv, SchedConsistent
<1>2. l \in Seq(S) /\ \E i \in 1 .. Len(l) : l[i] = IDLE
  BY Zenon, <1>1 DEF Listed, Lists
<1>3. l # <<>> /\ Len(l) # 0
  BY <1>2
<1>4. s.q.head # NULL
  <2>1. Chained(l, Len(l), s.q, S)
    BY Zenon, <1>1, ListedFacts
  <2> QED BY Zenon, <1>3, <2>1 DEF Chained
<1> QED BY Zenon, <1>1, <1>3, <1>4, DequeueListed

LEMMA TerminateListed ==
  ASSUME NEW s, NEW S, SchedInv(s, S), NEW v \in Ids, NEW l, Listed(l, s.q, S)
  PROVE  \/ Listed(l, Remove(s.q, v), S)
         \/ \E k \in 1 .. Len(l) : l[k] = v /\ Listed(Without(l, k), Remove(s.q, v), S)
<1>1. /\ s.q \in QueueType /\ S \in SUBSET Ids /\ WellLinked(s.q, S)
      /\ S \in SUBSET (Ids \ {0}) /\ \A x \in Ids \ S : StrayLinks(s.q, x)
  BY Zenon, TypeFacts DEF SchedInv, SchedConsistent
<1>2. CASE v \in S /\ InQueue(s.q, v)
  <2>1. PICK k \in 1 .. Len(l) : l[k] = v
    BY Zenon, <1>2 DEF Listed, Lists
  <2>2. Listed(Without(l, k), Remove(s.q, l[k]), S)
    BY Zenon, <1>1, RemoveListed
  <2> QED BY Zenon, <2>1, <2>2
<1>3. CASE v \in S /\ ~InQueue(s.q, v)
  <2>1. Remove(s.q, v) = s.q
    BY Zenon, <1>1, <1>3, UnqueuedRemove
  <2> QED BY Zenon, <2>1
<1>4. CASE v \notin S
  <2> DEFINE r == Remove(s.q, v)
  <2>1. /\ \A x \in S : InQueue(r, x) <=> InQueue(s.q, x)
        /\ \A x \in S : r.next[x] = s.q.next[x]
        /\ r.head = s.q.head
    BY Zenon, <1>1, <1>4, RemoveStray
  <2> HIDE DEF r
  <2>2. \A i \in 1 .. Len(l) : l[i] \in S
    <3>1. l \in Seq(S)
      BY Zenon DEF Listed, Lists
    <3> QED BY <3>1
  <2>3. Listed(l, r, S)
    BY Zenon, <2>1, <2>2 DEF Listed, Lists
  <2> QED BY Zenon, <2>3 DEF r
<1> QED BY Zenon, <1>2, <1>3, <1>4

-----------------------------------------------------------------------------

LEMMA BootListed ==
  ASSUME NEW s, SchedInv(s, {IDLE, SHELL}), s.state[IDLE] = "READY", s.state[SHELL] = "RUN"
  PROVE  Listed(<<IDLE>>, s.q, {IDLE, SHELL})
<1> DEFINE S == {IDLE, SHELL}
           l == <<IDLE>>
           q == s.q
<1>1. IDLE \in Ids /\ SHELL \in Ids /\ IDLE # SHELL
  BY NumIdsAssumption DEF Ids, IDLE, SHELL
<1>2. /\ q \in QueueType /\ WellLinked(q, S) /\ Ranked(q, S)
      /\ InQueue(q, IDLE) /\ ~InQueue(q, SHELL)
  BY Zenon, TypeFacts DEF SchedInv, SchedConsistent
<1>3. q.head = IDLE
  <2>1. q.head # NULL
    BY Zenon, <1>1, <1>2, NonEmpty
  <2> QED BY Zenon, <1>2, <2>1 DEF WellLinked, InQueue
<1>4. q.next[IDLE] = NULL
  <2>1. q.next[IDLE] # SHELL
    BY ZenonT(30), <1>1, <1>2, NullNotId DEF WellLinked, InQueue
  <2>2. q.next[IDLE] # IDLE
    BY Zenon, <1>1, <1>2, <1>3, NullNotId DEF WellLinked, InQueue
  <2> QED BY Zenon, <1>2, <2>1, <2>2 DEF WellLinked
<1> HIDE DEF q
<1>5. l \in Seq(S) /\ Len(l) = 1 /\ l[1] = IDLE /\ \A i \in 1 .. 1 : i = 1
  OBVIOUS
<1> HIDE DEF l
<1>6. 1 \in 1 .. 1 /\ 1 # 0
  OBVIOUS
<1>7. Lists(l, 1, q, S)
  BY Zenon, <1>2, <1>3, <1>4, <1>5, <1>6 DEF Lists
<1> QED BY Zenon, <1>5, <1>7 DEF Listed, l, q

-----------------------------------------------------------------------------

(* The ready queue of the processes is a list.                              *)
ListInv == \E l : Listed(l, sched.q, Procs)

(* A step of the abstract queue, read off the lists before and after.       *)
LEMMA FifoStep ==
  ASSUME IInv, [Next]_vars, NoIdleKill, NoSelfKill, LiveInv, CurRuns, ListInv
  PROVE  ListInv' /\ (RQ!RQNext \/ UNCHANGED RQ!rqVars)
<1>1. /\ SchedInv(sched, Procs) /\ IDLE \in Procs /\ IDLE \in Ids
      /\ sched.cur # NULL /\ sched.cur \in Procs /\ sched.cur \in Ids
      /\ sched.state[IDLE] \in {"READY", "RUN"} /\ Procs \in SUBSET Ids
      /\ sched.state[sched.cur] = "RUN"
      /\ sched.q \in QueueType /\ WellLinked(sched.q, Procs)
      /\ ~InQueue(sched.q, sched.cur)
  <2>1. /\ SchedInv(sched, Procs) /\ IDLE \in Procs /\ IDLE \in Ids
        /\ sched.cur # NULL /\ sched.cur \in Procs /\ sched.cur \in Ids
        /\ sched.state[IDLE] \in {"READY", "RUN"} /\ Procs \in SUBSET Ids
        /\ sched.state[sched.cur] = "RUN"
    BY Zenon
       DEF IInv, LiveInv, AlwaysSomeoneToRun, IdleAlive, SchedInv,
           SchedConsistent, CurRuns, Procs
  <2>2. sched.q \in QueueType /\ WellLinked(sched.q, Procs) /\ ~InQueue(sched.q, sched.cur)
    BY Zenon, <2>1, TypeFacts DEF SchedInv, SchedConsistent
  <2> QED BY Zenon, <2>1, <2>2
<1>2. SchedMove
  BY Zenon, Moves
<1>3. Procs' \in SUBSET Ids
  BY Zenon DEF Procs
<1>4. PICK l : Listed(l, sched.q, Procs)
  BY Zenon DEF ListInv
<1>5. QueueList(sched.q) = l /\ l \in Seq(Procs)
  <2>1. QueueList(sched.q) = l
    BY Zenon, <1>1, <1>4, ListedIs
  <2>2. l \in Seq(Procs)
    BY Zenon, <1>4 DEF Listed, Lists
  <2> QED BY Zenon, <2>1, <2>2
<1>6. ASSUME NEW m, Listed(m, sched'.q, Procs') PROVE ListInv' /\ QueueList(sched'.q) = m
  BY Zenon, <1>3, <1>6, ListedIs DEF ListInv
<1>7. CASE sched'.cur = sched.cur /\ sched'.q = sched.q /\ Procs' = Procs
  <2>1. Listed(l, sched'.q, Procs')
    BY Zenon, <1>4, <1>7
  <2> QED BY Zenon, <1>5, <1>6, <1>7, <2>1 DEF RQ!rqVars
<1>8. ASSUME NEW t \in Ids \ {0}, Joins(t), sched'.cur = sched.cur
      PROVE  ListInv' /\ RQ!RQNext
  <2>0. /\ sched'.q = Enqueue(sched.q, t) /\ Procs' = Procs \cup {t}
        /\ t \in Ids /\ t # sched.cur /\ (t \in Procs => ~InQueue(sched.q, t))
    BY Zenon, <1>8 DEF Joins
  <2>1. Listed(Append(l, t), sched'.q, Procs')
    <3>1. Listed(Append(l, t), Enqueue(sched.q, t), Procs \cup {t})
      BY Zenon, <1>1, <1>4, <2>0, EnqueueListed
    <3> QED BY Zenon, <2>0, <3>1
  <2>2. ~ \E i \in 1 .. Len(l) : l[i] = t
    <3>1. \A i \in 1 .. Len(l) : l[i] \in Procs
      BY <1>5
    <3>2. \A x \in Procs : InQueue(sched.q, x) <=> \E i \in 1 .. Len(l) : l[i] = x
      BY Zenon, <1>4 DEF Listed, Lists
    <3> QED BY Zenon, <2>0, <3>1, <3>2
  <2>3. RQ!Arrive(t)
    BY Zenon, <1>5, <1>6, <1>8, <2>0, <2>1, <2>2 DEF RQ!Arrive, RQ!InReady
  <2> QED BY Zenon, <1>6, <2>1, <2>3 DEF RQ!RQNext
<1>9. CASE sched' = ThreadYield(sched) /\ Procs' = Procs
  <2>1. /\ sched'.cur = Head(Append(l, sched.cur))
        /\ Listed(Tail(Append(l, sched.cur)), sched'.q, Procs')
    BY Zenon, <1>1, <1>4, <1>9, YieldListed
  <2>2. RQ!Rotate
    BY Zenon, <1>5, <1>6, <2>1 DEF RQ!Rotate
  <2> QED BY Zenon, <1>6, <2>1, <2>2 DEF RQ!RQNext
<1>10. ASSUME NEW v \in Ids, sched' = Terminate(sched, v), Procs' = Procs
       PROVE  ListInv' /\ (RQ!RQNext \/ UNCHANGED RQ!rqVars)
  <2>1. sched'.cur = sched.cur /\ sched'.q = Remove(sched.q, v)
    BY Zenon, <1>10 DEF Terminate
  <2>2. CASE Listed(l, Remove(sched.q, v), Procs)
    <3>1. Listed(l, sched'.q, Procs')
      BY Zenon, <1>10, <2>1, <2>2
    <3> QED BY Zenon, <1>5, <1>6, <2>1, <3>1 DEF RQ!rqVars
  <2>3. ASSUME NEW k \in 1 .. Len(l), l[k] = v, Listed(Without(l, k), Remove(sched.q, v), Procs)
        PROVE  ListInv' /\ RQ!RQNext
    <3>1. Listed(Without(l, k), sched'.q, Procs')
      BY Zenon, <1>10, <2>1, <2>3
    <3>2. v \in Ids \ {0}
      <4>1. l[k] \in Procs
        BY <1>5
      <4> QED BY Zenon, <2>3, <4>1 DEF Procs
    <3>3. QueueList(sched'.q) = Without(l, k) /\ ListInv'
      BY Zenon, <1>6, <3>1
    <3>4. RQ!Drop(v)
      BY Zenon, <1>5, <2>1, <2>3, <3>3 DEF RQ!Drop, Without
    <3> QED BY Zenon, <3>2, <3>3, <3>4 DEF RQ!RQNext
  <2>4. \/ Listed(l, Remove(sched.q, v), Procs)
        \/ \E k \in 1 .. Len(l) : l[k] = v /\ Listed(Without(l, k), Remove(sched.q, v), Procs)
    BY Zenon, <1>1, <1>4, TerminateListed
  <2> QED BY Zenon, <2>2, <2>3, <2>4
<1>11. ASSUME pc[sched.cur] = "kernel" PROVE sched.cur # IDLE /\ sched.state[IDLE] = "READY"
  <2>1. sched.cur # IDLE
    BY Zenon, <1>11 DEF LiveInv, IdleLoops
  <2> QED BY Zenon, <1>1, <2>1 DEF SchedInv, SchedConsistent
<1>12. ASSUME pc[sched.cur] = "kernel", Procs' = Procs, sched'.q = Dequeue(sched.q),
              sched'.cur = sched.q.head
       PROVE  ListInv' /\ RQ!RQNext
  <2>1. l # <<>> /\ sched'.cur = Head(l) /\ Listed(Tail(l), sched'.q, Procs')
    BY Zenon, <1>1, <1>4, <1>11, <1>12, LeaveListed
  <2>2. RQ!Leave
    BY Zenon, <1>5, <1>6, <2>1 DEF RQ!Leave
  <2> QED BY Zenon, <1>6, <2>1, <2>2 DEF RQ!RQNext
<1>13. ASSUME NEW c \in Chans, pc[sched.cur] = "kernel", sched' = ThreadSleep(sched, c),
              Procs' = Procs
       PROVE  ListInv' /\ RQ!RQNext
  <2>1. sched'.q = Dequeue(sched.q) /\ sched'.cur = sched.q.head
    BY Zenon, <1>13 DEF ThreadSleep, Dequeued, SwitchTo
  <2> QED BY Zenon, <1>12, <1>13, <2>1
<1>14. CASE /\ pc[sched.cur] = "kernel" /\ Procs' = Procs
            /\ sched' = ThreadExit(Terminate(sched, sched.cur))
  <2>1. Remove(sched.q, sched.cur) = sched.q
    BY Zenon, <1>1, UnqueuedRemove
  <2>2. sched.q.head # NULL
    BY Zenon, <1>1, <1>4, <1>11, <1>14, LeaveListed
  <2>3. sched'.q = Dequeue(sched.q) /\ sched'.cur = sched.q.head
    BY Zenon, <1>14, <2>1, <2>2 DEF ThreadExit, Terminate, Dequeued, SwitchTo
  <2> QED BY Zenon, <1>12, <1>14, <2>3
<1> QED BY Zenon, <1>2, <1>7, <1>8, <1>9, <1>10, <1>13, <1>14 DEF SchedMove

LEMMA FifoInit == Init => ListInv /\ RQ!RQInit
<1> SUFFICES ASSUME Init PROVE ListInv /\ RQ!RQInit
  BY Zenon
<1>1. /\ SchedInv(sched, {IDLE, SHELL}) /\ sched.cur = SHELL
      /\ sched.state[SHELL] = "RUN" /\ sched.state[IDLE] = "READY"
  BY Zenon, BootSched DEF Init
<1>2. \A p \in Ids : cont.used[p] <=> p \in {0, IDLE, SHELL}
  BY Zenon, BootCont DEF Init
<1>3. Procs = {IDLE, SHELL}
  BY <1>2, NumIdsAssumption DEF Procs, Ids, IDLE, SHELL
<1>4. Listed(<<IDLE>>, sched.q, Procs) /\ Procs \in SUBSET Ids
  BY Zenon, <1>1, <1>3, BootListed DEF Procs
<1>5. QueueList(sched.q) = <<IDLE>>
  BY Zenon, <1>4, ListedIs
<1> QED BY Zenon, <1>1, <1>4, <1>5 DEF ListInv, RQ!RQInit

-----------------------------------------------------------------------------

(* The ready queue implements RunQueue: threads are scheduled in the order  *)
(* in which they became ready (FifoScheduling), provided no program sends a *)
(* signal to idle or to itself.                                             *)
THEOREM SchedulingIsFifo ==
  ASSUME NoIdleKill, NoSelfKill
  PROVE  Spec => FifoScheduling
<1>1. Init => ListInv /\ RQ!RQInit /\ LiveInv /\ CurRuns
  BY Zenon, FifoInit, LiveInit
<1>2. IInv /\ LiveInv /\ CurRuns /\ ListInv /\ [Next]_vars
        => LiveInv' /\ CurRuns' /\ ListInv' /\ [RQ!RQNext]_(RQ!rqVars)
  BY Zenon, LiveStep, RevivalStep, FifoStep
<1> QED BY <1>1, <1>2, Invariance, PTL DEF Spec, FifoScheduling, RQ!RQSpec
=============================================================================
