------------------------------ MODULE BufProofs ------------------------------
(***************************************************************************)
(* Proofs about BufCache: for any number of processes, buffers and         *)
(* sectors, kills included, the cache loses no wake-up, and with a disk    *)
(* that does not fail it shows every process what the last one left.       *)
(***************************************************************************)
EXTENDS BufCache, TLAPS

(* The buffer needs no disk access.                                         *)
Done(b) == buf[b].valid /\ ~buf[b].dirty

(* A buffer has one holder, who keeps it busy; who waits for the disk holds *)
(* the buffer it waits for.                                                 *)
Locks ==
  /\ \A p, q \in Procs, b \in Bufs : b \in held[p] /\ b \in held[q] => p = q
  /\ \A p \in Procs, b \in Bufs :
       b \in held[p] => buf[b].busy /\ buf[b].sector \in Sectors
  /\ \A p \in Procs : pc[p] \in {"rwsleep", "rwwoken"} => on[p] \in held[p]
  /\ \A p \in Procs : pc[p] \in {"getsleep", "getwoken"} =>
                        want[p] \in Sectors /\ on[p] \in Bufs

(* A sector is in one buffer.                                               *)
Unique == \A b, c \in Bufs :
            buf[b].sector = buf[c].sector /\ buf[b].sector \in Sectors => b = c

Copies == ~Faulty => \A b \in Bufs : Done(b) => buf[b].data = disk[buf[b].sector]

Waits(p, b) == /\ b \in held[p] /\ on[p] = b
               /\ pc[p] \in {"rwsleep", "rwwoken", "dead"}

(* A request in the queue is not done, and its holder waits.                *)
Requests == /\ \A b \in Range(queue) : ~Done(b) /\ \E p \in Procs : Waits(p, b)
            /\ queue # <<>> => sent = buf[Head(queue)].data

(* Who was woken finds its request done, or still in the queue.             *)
Woken == \A p \in Procs :
           pc[p] = "rwwoken" => on[p] \in Range(queue) \/ Done(on[p])

(* The kernel stops only when bufcache_get finds nothing to recycle.        *)
Halted == panicked => Recyclable = {}

IInv == /\ TypeOK /\ Locks /\ Unique /\ Copies /\ Requests /\ Woken /\ Halted
        /\ NoLostWakeup

-----------------------------------------------------------------------------

(* The request queue.                                                       *)
LEMMA AppendFact ==
  ASSUME queue \in Seq(Bufs), IsInjective(queue), NEW b \in Bufs, b \notin Range(queue)
  PROVE  /\ Append(queue, b) \in Seq(Bufs) /\ IsInjective(Append(queue, b))
         /\ Range(Append(queue, b)) = Range(queue) \cup {b}
         /\ Append(queue, b) # <<>>
         /\ Head(Append(queue, b)) = IF queue = <<>> THEN b ELSE Head(queue)
<1> DEFINE q == Append(queue, b)
<1>1. /\ q \in Seq(Bufs) /\ Len(q) = Len(queue) + 1 /\ q[Len(q)] = b
      /\ \A i \in 1 .. Len(queue) : q[i] = queue[i]
  OBVIOUS
<1>2. DOMAIN q = 1 .. Len(queue) + 1 /\ DOMAIN queue = 1 .. Len(queue)
  BY <1>1
<1>3. Range(q) = Range(queue) \cup {b}
  BY <1>1, <1>2 DEF Range
<1>4. IsInjective(q)
  BY <1>1, <1>2 DEF Range, IsInjective
<1>5. q # <<>> /\ Head(q) = q[1]
  BY <1>1
<1>6. CASE queue = <<>>
  BY <1>1, <1>3, <1>4, <1>5, <1>6
<1>7. CASE queue # <<>>
  <2>1. Len(queue) \in Nat \ {0} /\ Head(queue) = queue[1]
    BY <1>7
  <2> QED BY <1>1, <1>3, <1>4, <1>5, <1>7, <2>1
<1> QED BY Zenon, <1>6, <1>7

LEMMA TailFact ==
  ASSUME queue \in Seq(Bufs), IsInjective(queue), queue # <<>>
  PROVE  /\ Tail(queue) \in Seq(Bufs) /\ IsInjective(Tail(queue))
         /\ Head(queue) \in Range(queue)
         /\ Range(Tail(queue)) = Range(queue) \ {Head(queue)}
<1> DEFINE q == Tail(queue)
<1>1. /\ q \in Seq(Bufs) /\ Len(queue) > 0 /\ Len(q) = Len(queue) - 1
      /\ Head(queue) = queue[1]
      /\ \A i \in 1 .. Len(q) : q[i] = queue[i + 1]
  OBVIOUS
<1>2. DOMAIN q = 1 .. Len(queue) - 1 /\ DOMAIN queue = 1 .. Len(queue)
  BY <1>1
<1>3. \A i \in 1 .. Len(queue) : i = 1 \/ (queue[i] = q[i - 1] /\ i - 1 \in 1 .. Len(q))
  BY <1>1
<1>4. Range(q) = Range(queue) \ {Head(queue)}
  <2>1. \A x \in Range(q) : x \in Range(queue) /\ x # Head(queue)
    <3>1. \A i \in 1 .. Len(q) : i + 1 \in DOMAIN queue /\ 1 \in DOMAIN queue /\ i + 1 # 1
      BY <1>1, <1>2
    <3> QED BY <1>1, <1>2, <3>1 DEF Range, IsInjective
  <2>2. ASSUME NEW x \in Range(queue) PROVE x = Head(queue) \/ x \in Range(q)
    <3>1. PICK i \in 1 .. Len(queue) : x = queue[i]
      BY Zenon, <1>2 DEF Range
    <3>2. CASE i = 1
      BY Zenon, <1>1, <3>1, <3>2
    <3>3. CASE i # 1
      <4>1. i - 1 \in DOMAIN q /\ q[i - 1] = x
        BY Zenon, <1>1, <1>2, <1>3, <3>1, <3>3
      <4> QED BY Zenon, <4>1 DEF Range
    <3> QED BY Zenon, <3>2, <3>3
  <2> QED BY Zenon, <2>1, <2>2
<1>5. IsInjective(q)
  BY <1>1, <1>2 DEF IsInjective
<1>6. Head(queue) \in Range(queue)
  BY <1>1, <1>2 DEF Range
<1> QED BY Zenon, <1>1, <1>4, <1>5, <1>6

LEMMA HeadFact ==
  ASSUME queue \in Seq(Bufs), queue # <<>>
  PROVE  Head(queue) \in Range(queue) /\ Head(queue) \in Bufs
BY DEF Range

LEMMA QueueBufs ==
  ASSUME TypeOK PROVE Range(queue) \subseteq Bufs
BY DEF TypeOK, Range

(* Moving a buffer to the front loses none.                                 *)
LEMMA FrontFact ==
  ASSUME mru \in [Bufs -> Bufs], Range(mru) = Bufs, NEW b \in Bufs
  PROVE  ToFront(b) \in [Bufs -> Bufs] /\ Range(ToFront(b)) = Bufs
<1> DEFINE i == CHOOSE i \in Bufs : mru[i] = b
           f == ToFront(b)
<1>1. \E j \in Bufs : mru[j] = b
  BY Zenon DEF Range
<1>2. i \in Bufs /\ mru[i] = b
  BY Zenon, <1>1
<1>3. f = [j \in Bufs |-> IF j = 1 THEN b ELSE IF j <= i THEN mru[j - 1] ELSE mru[j]]
  BY Zenon DEF ToFront
<1> HIDE DEF i, f
<1>4. f \in [Bufs -> Bufs]
  <2>1. ASSUME NEW j \in Bufs, j # 1 PROVE j - 1 \in Bufs
    BY <2>1, BufAssumption DEF Bufs
  <2>2. ASSUME NEW j \in Bufs PROVE f[j] \in Bufs
    BY Zenon, <1>3, <2>1
  <2> QED BY Zenon, <1>3, <2>2
<1>5. ASSUME NEW c \in Bufs PROVE \E j \in Bufs : f[j] = c
  <2>1. PICK k \in Bufs : mru[k] = c
    BY Zenon DEF Range
  <2>2. CASE k < i
    <3>1. k + 1 \in Bufs /\ f[k + 1] = c
      BY <1>2, <1>3, <2>1, <2>2, BufAssumption DEF Bufs
    <3> QED BY Zenon, <3>1
  <2>3. CASE k = i
    <3>1. 1 \in Bufs /\ f[1] = c
      BY <1>2, <1>3, <2>1, <2>3, BufAssumption DEF Bufs
    <3> QED BY Zenon, <3>1
  <2>4. CASE k > i
    <3>1. f[k] = c
      BY <1>2, <1>3, <2>1, <2>4, BufAssumption DEF Bufs
    <3> QED BY Zenon, <3>1
  <2> QED BY <1>2, <2>2, <2>3, <2>4, BufAssumption DEF Bufs
<1>6. Range(f) = Bufs
  BY <1>4, <1>5 DEF Range
<1> QED BY Zenon, <1>4, <1>6 DEF f

(* thread_wakeup leaves nobody asleep on b and changes nothing else.        *)
LEMMA AwakeFact ==
  ASSUME TypeOK, NEW b \in Bufs, pc' = Awake(pc, b)
  PROVE  /\ pc' \in [Procs -> {"idle", "getsleep", "getwoken", "rwsleep", "rwwoken",
                              "dead"}]
         /\ \A p \in Procs :
              /\ pc'[p] = "getsleep" => pc[p] = "getsleep" /\ on[p] # b
              /\ pc'[p] = "rwsleep" => pc[p] = "rwsleep" /\ on[p] # b
              /\ pc'[p] = "getwoken" => pc[p] \in {"getsleep", "getwoken"}
              /\ pc'[p] = "rwwoken" =>
                   pc[p] = "rwwoken" \/ (pc[p] = "rwsleep" /\ on[p] = b)
              /\ pc[p] \in {"rwsleep", "rwwoken"} => pc'[p] \in {"rwsleep", "rwwoken"}
              /\ pc[p] = "dead" => pc'[p] = "dead"
<1>1. ASSUME NEW p \in Procs
      PROVE  pc'[p] = IF pc[p] = "getsleep" /\ on[p] = b THEN "getwoken"
                      ELSE IF pc[p] = "rwsleep" /\ on[p] = b THEN "rwwoken" ELSE pc[p]
  BY Zenon DEF Awake
<1>2. pc' = [p \in Procs |-> pc'[p]]
  BY Zenon DEF Awake
<1>3. pc \in [Procs -> {"idle", "getsleep", "getwoken", "rwsleep", "rwwoken", "dead"}]
  BY Zenon DEF TypeOK
<1> QED BY Zenon, <1>1, <1>2, <1>3

LEMMA InitInv == Init => IInv
<1> SUFFICES ASSUME Init PROVE IInv
  BY Zenon
<1>1. Zero \in Blocks
  BY Zenon, BufAssumption DEF Zero
<1>2. queue = <<>> /\ queue \in Seq(Bufs) /\ IsInjective(queue) /\ Range(queue) = {}
  <2>1. queue = <<>>
    BY Zenon DEF Init
  <2>2. <<>> \in Seq(Bufs) /\ DOMAIN <<>> = {}
    OBVIOUS
  <2> QED BY Zenon, <2>1, <2>2 DEF IsInjective, Range
<1>3. mru \in [Bufs -> Bufs] /\ Range(mru) = Bufs
  <2>1. \A i \in Bufs : NBUF + 1 - i \in Bufs /\ NBUF + 1 - (NBUF + 1 - i) = i
    BY BufAssumption DEF Bufs
  <2>2. mru = [i \in Bufs |-> NBUF + 1 - i]
    BY Zenon DEF Init
  <2> QED BY Zenon, <2>1, <2>2 DEF Range
<1>4. buf \in [Bufs -> BufRec]
  BY Zenon, <1>1 DEF Init, BufRec
<1>5. TypeOK
  BY Zenon, <1>1, <1>2, <1>3, <1>4 DEF Init, TypeOK
<1>6. Locks /\ Unique
  BY Zenon, BufAssumption DEF Init, Locks, Unique
<1>7. Copies
  BY Zenon DEF Init, Copies, Done
<1>8. Requests /\ Woken /\ Halted /\ NoLostWakeup
  BY Zenon, <1>2 DEF Init, Requests, Woken, Halted, NoLostWakeup
<1> QED BY Zenon, <1>5, <1>6, <1>7, <1>8 DEF IInv

(* Nothing is pending for a buffer that nobody holds, or whose holder runs. *)
LEMMA FreeFact ==
  ASSUME IInv, NEW b \in Bufs, ~buf[b].busy
  PROVE  /\ b \notin Range(queue)
         /\ \A q \in Procs :
              /\ b \notin held[q]
              /\ pc[q] \in {"getsleep", "rwsleep", "rwwoken"} => on[q] # b
BY DEF IInv, Locks, Requests, Waits, NoLostWakeup

LEMMA IdleFact ==
  ASSUME IInv, NEW p \in Procs, pc[p] = "idle", NEW b \in Bufs, b \in held[p]
  PROVE  /\ b \notin Range(queue) /\ buf[b].busy /\ buf[b].sector \in Sectors
         /\ \A q \in Procs :
              /\ q # p => b \notin held[q]
              /\ pc[q] \in {"rwsleep", "rwwoken"} => on[q] # b
BY DEF IInv, Locks, Requests, Waits, NoLostWakeup

LEMMA SameInv ==
  ASSUME IInv, UNCHANGED <<buf, mru, queue, sent, disk, pc, want, on, held>>,
         panicked' \in BOOLEAN, panicked' => Recyclable = {}
  PROVE  IInv'
<1>1. TypeOK'
  BY Zenon DEF IInv, TypeOK
<1>2. Locks' /\ Unique' /\ Copies' /\ Woken' /\ Halted' /\ NoLostWakeup'
  BY Zenon
     DEF IInv, Locks, Unique, Copies, Woken, Halted, NoLostWakeup, Done,
         Recyclable
<1>3. Requests'
  BY DEF IInv, Requests, Waits, Done
<1> QED BY Zenon, <1>1, <1>2, <1>3 DEF IInv

(* The invariant when only the place of one process changes.                *)
LEMMA GetSleepInv ==
  ASSUME IInv, NEW p \in Procs, pc[p] \in {"idle", "getwoken"}, NEW s \in Sectors,
         NEW b \in Bufs, buf[b].sector = s, buf[b].busy,
         pc' = [pc EXCEPT ![p] = "getsleep"], on' = [on EXCEPT ![p] = b],
         want' = [want EXCEPT ![p] = s],
         UNCHANGED <<buf, mru, queue, sent, disk, held, panicked>>
  PROVE  IInv'
<1>1. TypeOK'
  BY Zenon DEF IInv, TypeOK
<1>2. Locks'
  BY DEF IInv, TypeOK, Locks
<1>3. Unique' /\ Copies' /\ Halted'
  BY Zenon DEF IInv, Unique, Copies, Halted, Done, Recyclable
<1>4. Woken' /\ NoLostWakeup'
  BY Zenon DEF IInv, TypeOK, Woken, NoLostWakeup, Done
<1>5. ASSUME NEW q \in Procs, NEW c \in Range(queue), Waits(q, c) PROVE Waits(q, c)'
  BY Zenon, <1>5 DEF IInv, TypeOK, Waits
<1>6. Requests'
  BY Zenon, <1>5 DEF IInv, Requests, Done
<1> QED BY Zenon, <1>1, <1>2, <1>3, <1>4, <1>6 DEF IInv

LEMMA SignalInv ==
  ASSUME IInv, NEW p \in Procs, Signal(p)
  PROVE  IInv'
<1> USE DEF Signal
<1>0. pc'[p] = IF pc[p] = "getsleep" THEN "getwoken" ELSE "rwwoken"
  BY Zenon DEF IInv, TypeOK
<1>1. TypeOK'
  BY Zenon DEF IInv, TypeOK
<1>2. Locks'
  BY DEF IInv, TypeOK, Locks
<1>3. Unique' /\ Copies' /\ Halted'
  BY Zenon DEF IInv, Unique, Copies, Halted, Done, Recyclable
<1>4. Woken' /\ NoLostWakeup'
  BY Zenon DEF IInv, TypeOK, Woken, NoLostWakeup, Done
<1>5. ASSUME NEW q \in Procs, NEW c \in Range(queue), Waits(q, c) PROVE Waits(q, c)'
  BY Zenon, <1>5 DEF IInv, TypeOK, Waits
<1>6. Requests'
  BY Zenon, <1>5 DEF IInv, Requests, Done
<1> QED BY Zenon, <1>1, <1>2, <1>3, <1>4, <1>6 DEF IInv

LEMMA KillInv ==
  ASSUME IInv, NEW p \in Procs, Kill(p)
  PROVE  IInv'
<1> USE DEF Kill
<1>1. TypeOK'
  BY Zenon DEF IInv, TypeOK
<1>2. Locks'
  BY DEF IInv, TypeOK, Locks
<1>3. Unique' /\ Copies' /\ Halted'
  BY Zenon DEF IInv, Unique, Copies, Halted, Done, Recyclable
<1>4. Woken' /\ NoLostWakeup'
  BY Zenon DEF IInv, TypeOK, Woken, NoLostWakeup, Done
<1>5. ASSUME NEW q \in Procs, NEW c \in Range(queue), Waits(q, c) PROVE Waits(q, c)'
  BY Zenon, <1>5 DEF IInv, TypeOK, Waits
<1>6. Requests'
  BY Zenon, <1>5 DEF IInv, Requests, Done
<1> QED BY Zenon, <1>1, <1>2, <1>3, <1>4, <1>6 DEF IInv

LEMMA IdeWaitInv ==
  ASSUME IInv, NEW p \in Procs, IdeWait(p)
  PROVE  IInv'
<1> USE DEF IdeWait, Return
<1>0. /\ pc[p] = "rwwoken" /\ on[p] \in Bufs
      /\ \/ pc' = [pc EXCEPT ![p] = "idle"] /\ Done(on[p])
         \/ pc' = [pc EXCEPT ![p] = "rwsleep"] /\ on' = on /\ on[p] \in Range(queue)
  BY Zenon DEF IInv, TypeOK, Locks, Woken, Done
<1>1. TypeOK'
  BY Zenon DEF IInv, TypeOK
<1>2. Locks'
  <2>1. \A q \in Procs : /\ q # p => pc'[q] = pc[q] /\ on'[q] = on[q] /\ want'[q] = want[q]
                         /\ pc'[p] = "idle" \/ (pc'[p] = "rwsleep" /\ on'[p] = on[p])
    BY <1>0 DEF IInv, TypeOK
  <2> QED BY Zenon, <1>0, <2>1 DEF IInv, Locks
<1>3. Unique' /\ Copies' /\ Halted'
  BY Zenon DEF IInv, Unique, Copies, Halted, Done, Recyclable
<1>4. Woken' /\ NoLostWakeup'
  BY <1>0 DEF IInv, TypeOK, Woken, NoLostWakeup, Done
<1>5. ASSUME NEW q \in Procs, NEW c \in Range(queue), Waits(q, c) PROVE Waits(q, c)'
  BY <1>0, <1>5 DEF IInv, TypeOK, Waits, Requests
<1>6. Requests'
  BY Zenon, <1>5 DEF IInv, Requests, Done
<1> QED BY Zenon, <1>1, <1>2, <1>3, <1>4, <1>6 DEF IInv

(* A buffer is taken that needs no disk access.                             *)
LEMMA TakeInv ==
  ASSUME IInv, ~panicked, NEW p \in Procs, pc[p] \in {"idle", "getwoken"},
         NEW b \in Bufs, ~buf[b].busy,
         buf' \in [Bufs -> BufRec], \A x \in Bufs : x # b => buf'[x] = buf[x],
         buf'[b].busy, buf'[b].sector = buf[b].sector, buf[b].sector \in Sectors,
         buf'[b].valid = buf[b].valid, buf'[b].dirty = buf[b].dirty,
         buf'[b].data = buf[b].data,
         held' = [held EXCEPT ![p] = @ \cup {b}], Return(p),
         UNCHANGED <<mru, disk, queue, sent, panicked>>
  PROVE  IInv'
<1> USE DEF Return
<1>0. /\ b \notin Range(queue)
      /\ \A q \in Procs :
           /\ b \notin held[q]
           /\ pc[q] \in {"getsleep", "rwsleep", "rwwoken"} => on[q] # b
  BY Zenon, FreeFact
<1>1. TypeOK'
  BY Zenon DEF IInv, TypeOK
<1>2. Locks'
  <2>1. \A q \in Procs : /\ pc'[q] = IF q = p THEN "idle" ELSE pc[q]
                         /\ on'[q] = IF q = p THEN NoBuf ELSE on[q]
                         /\ want'[q] = IF q = p THEN NoSector ELSE want[q]
    BY Zenon DEF IInv, TypeOK
  <2>2. \A q \in Procs, c \in Bufs : c \in held'[q] <=> c \in held[q] \/ (q = p /\ c = b)
    BY Zenon DEF IInv, TypeOK
  <2>3. \A q, o \in Procs, c \in Bufs : c \in held'[q] /\ c \in held'[o] => q = o
    BY <1>0, <2>2 DEF IInv, Locks
  <2>4. \A q \in Procs, c \in Bufs :
          c \in held'[q] => buf'[c].busy /\ buf'[c].sector \in Sectors
    BY <2>2 DEF IInv, Locks
  <2>5. \A q \in Procs : pc'[q] \in {"rwsleep", "rwwoken"} => on'[q] \in held'[q]
    <3>1. \A q \in Procs : q # p => held'[q] = held[q]
      BY Zenon DEF IInv, TypeOK
    <3> QED BY <2>1, <3>1 DEF IInv, Locks
  <2>6. \A q \in Procs : pc'[q] \in {"getsleep", "getwoken"} =>
                         want'[q] \in Sectors /\ on'[q] \in Bufs
    BY <2>1 DEF IInv, Locks
  <2> QED BY Zenon, <2>3, <2>4, <2>5, <2>6 DEF Locks
<1>3. Unique' /\ Copies' /\ Halted'
  <2>1. Unique'
    BY DEF IInv, Unique
  <2>2. Copies'
    BY DEF IInv, Copies, Done
  <2>3. Halted'
    BY Zenon DEF Halted
  <2> QED BY Zenon, <2>1, <2>2, <2>3
<1>4. Woken' /\ NoLostWakeup'
  <2>1. \A q \in Procs : q # p => pc'[q] = pc[q] /\ on'[q] = on[q] /\ want'[q] = want[q]
    BY Zenon DEF IInv, TypeOK
  <2>2. pc'[p] = "idle"
    BY Zenon DEF IInv, TypeOK
  <2>3. \A q \in Procs : pc[q] \in {"getsleep", "rwsleep", "rwwoken"} =>
                         on[q] \in Bufs /\ buf'[on[q]] = buf[on[q]]
    BY <1>0 DEF IInv, TypeOK, Locks
  <2>4. Woken'
    BY <2>1, <2>2, <2>3 DEF IInv, Woken, Done
  <2>5. NoLostWakeup'
    BY <2>1, <2>2, <2>3 DEF IInv, NoLostWakeup
  <2> QED BY Zenon, <2>4, <2>5
<1>5. ASSUME NEW q \in Procs, NEW c \in Range(queue), Waits(q, c) PROVE Waits(q, c)'
  BY Zenon, <1>5 DEF IInv, TypeOK, Waits
<1>6. Requests'
  <2>1. \A c \in Range(queue) : buf'[c] = buf[c]
    BY Zenon, <1>0, QueueBufs DEF IInv
  <2>2. queue # <<>> => Head(queue) \in Range(queue)
    BY Zenon, HeadFact DEF IInv, TypeOK
  <2> QED BY Zenon, <1>5, <2>1, <2>2 DEF IInv, Requests, Done
<1> QED BY Zenon, <1>1, <1>2, <1>3, <1>4, <1>6 DEF IInv

(* A buffer is queued for the disk, by bufcache_read or bufcache_write.     *)
LEMMA IdeRwInv ==
  ASSUME IInv, ~panicked, NEW p \in Procs, pc[p] \in {"idle", "getwoken"},
         NEW b \in Bufs, b \notin Range(queue),
         \A q \in Procs : /\ q # p => b \notin held[q]
                          /\ pc[q] \in {"rwsleep", "rwwoken"} => on[q] # b
                          /\ pc[q] = "getsleep" /\ on[q] = b =>
                               buf'[b].sector = buf[b].sector,
         buf' \in [Bufs -> BufRec], \A x \in Bufs : x # b => buf'[x] = buf[x],
         buf'[b].busy, buf'[b].sector \in Sectors, ~Done(b)',
         \A x \in Bufs : x # b => buf[x].sector # buf'[b].sector,
         held' \in [Procs -> SUBSET Bufs], held'[p] = held[p] \cup {b},
         \A q \in Procs : q # p => held'[q] = held[q],
         IdeRw(p, buf', b), UNCHANGED <<mru, disk, want>>
  PROVE  IInv'
<1> USE DEF IdeRw
<1>0. /\ queue' \in Seq(Bufs) /\ IsInjective(queue') /\ queue' # <<>>
      /\ Range(queue') = Range(queue) \cup {b}
      /\ Head(queue') = IF queue = <<>> THEN b ELSE Head(queue)
  BY Zenon, AppendFact DEF IInv, TypeOK
<1>1. ~panicked' /\ panicked' \in BOOLEAN
  BY Zenon DEF Done
<1>2. sent' \in Blocks
  BY Zenon DEF IInv, TypeOK, BufRec
<1>3. TypeOK'
  BY Zenon, <1>0, <1>1, <1>2 DEF IInv, TypeOK
<1>4. Locks'
  <2>1. \A q \in Procs : /\ pc'[q] = IF q = p THEN "rwsleep" ELSE pc[q]
                         /\ on'[q] = IF q = p THEN b ELSE on[q]
    BY Zenon DEF IInv, TypeOK
  <2>2. \A q \in Procs, c \in Bufs : c \in held'[q] <=> c \in held[q] \/ (q = p /\ c = b)
    OBVIOUS
  <2>3. \A q, o \in Procs, c \in Bufs : c \in held'[q] /\ c \in held'[o] => q = o
    BY <2>2 DEF IInv, Locks
  <2>4. \A q \in Procs, c \in Bufs :
          c \in held'[q] => buf'[c].busy /\ buf'[c].sector \in Sectors
    BY Zenon, <2>2 DEF IInv, Locks
  <2>5. \A q \in Procs : pc'[q] \in {"rwsleep", "rwwoken"} => on'[q] \in held'[q]
    BY <2>1 DEF IInv, Locks
  <2>6. \A q \in Procs : pc'[q] \in {"getsleep", "getwoken"} =>
                         want'[q] \in Sectors /\ on'[q] \in Bufs
    BY <2>1 DEF IInv, Locks
  <2> QED BY Zenon, <2>3, <2>4, <2>5, <2>6 DEF Locks
<1>5. Unique' /\ Copies' /\ Halted'
  <2>1. Unique'
    BY DEF IInv, Unique
  <2>2. Copies'
    BY DEF IInv, Copies, Done
  <2>3. Halted'
    BY Zenon, <1>1 DEF Halted
  <2> QED BY Zenon, <2>1, <2>2, <2>3
<1>6. Woken'
  BY <1>0 DEF IInv, TypeOK, Woken, Done, Locks
<1>7. NoLostWakeup'
  BY <1>0 DEF IInv, TypeOK, NoLostWakeup, Locks
<1>8. ASSUME NEW q \in Procs, NEW c \in Range(queue), Waits(q, c) PROVE Waits(q, c)'
  BY Zenon, <1>8 DEF IInv, TypeOK, Waits
<1>9. Waits(p, b)'
  BY Zenon DEF IInv, TypeOK, Waits
<1>10. Requests'
  <2>1. \A c \in Range(queue) : buf'[c] = buf[c]
    BY Zenon, QueueBufs DEF IInv
  <2>2. queue # <<>> => Head(queue) \in Range(queue)
    BY Zenon, HeadFact DEF IInv, TypeOK
  <2>3. sent' = buf'[Head(queue')].data
    <3>1. CASE queue = <<>>
      BY Zenon, <1>0, <3>1
    <3>2. CASE queue # <<>>
      BY <1>0, <2>1, <2>2, <3>2 DEF IInv, Requests
    <3> QED BY Zenon, <3>1, <3>2
  <2>4. \A c \in Range(queue) : ~Done(c)'
    BY Zenon, <2>1 DEF IInv, Requests, Done
  <2>5. \A c \in Range(queue) : \E q \in Procs : Waits(q, c)'
    BY Zenon, <1>8 DEF IInv, Requests
  <2>6. \A c \in Range(queue') : ~Done(c)' /\ \E q \in Procs : Waits(q, c)'
    BY <1>0, <1>9, <2>4, <2>5
  <2> QED BY Zenon, <2>3, <2>6 DEF Requests
<1> QED BY Zenon, <1>3, <1>4, <1>5, <1>6, <1>7, <1>10 DEF IInv

LEMMA GetInv ==
  ASSUME IInv, ~panicked, NEW p \in Procs, pc[p] \in {"idle", "getwoken"},
         NEW s \in Sectors, Get(p, s)
  PROVE  IInv'
<1>1. CASE GetCached(p, s)
  <2>1. PICK b \in Bufs :
          /\ buf[b].sector = s
          /\ IF buf[b].busy
             THEN /\ pc' = [pc EXCEPT ![p] = "getsleep"] /\ on' = [on EXCEPT ![p] = b]
                  /\ want' = [want EXCEPT ![p] = s]
                  /\ UNCHANGED <<buf, mru, queue, sent, disk, held, panicked>>
             ELSE Take(p, b, [buf EXCEPT ![b].busy = TRUE])
    BY Zenon, <1>1 DEF GetCached, Cached
  <2>2. CASE buf[b].busy
    BY Zenon, <2>1, <2>2, GetSleepInv
  <2>3. CASE ~buf[b].busy
    <3> DEFINE c == [buf EXCEPT ![b].busy = TRUE]
    <3>1. /\ c \in [Bufs -> BufRec] /\ \A x \in Bufs : x # b => c[x] = buf[x]
          /\ c[b].busy /\ c[b].sector = s /\ c[b].valid = buf[b].valid
          /\ c[b].dirty = buf[b].dirty /\ c[b].data = buf[b].data
      <4>1. buf \in [Bufs -> BufRec] /\ buf[b] \in BufRec
        BY Zenon DEF IInv, TypeOK
      <4>2. /\ c \in [Bufs -> BufRec] /\ \A x \in Bufs : x # b => c[x] = buf[x]
            /\ c[b] = [buf[b] EXCEPT !.busy = TRUE]
        BY Zenon, <4>1 DEF BufRec
      <4> QED BY Zenon, <2>1, <4>1, <4>2 DEF BufRec
    <3>2. Take(p, b, c)
      BY Zenon, <2>1, <2>3
    <3> HIDE DEF c
    <3>3. CASE c[b].valid
      <4>1. /\ held' = [held EXCEPT ![p] = @ \cup {b}] /\ Return(p) /\ buf' = c
            /\ UNCHANGED <<mru, disk, queue, sent, panicked>>
        BY Zenon, <3>2, <3>3 DEF Take
      <4> QED BY Zenon, <2>1, <2>3, <3>1, <4>1, TakeInv
    <3>4. CASE ~c[b].valid
      <4>1. /\ held' = [held EXCEPT ![p] = @ \cup {b}] /\ IdeRw(p, c, b) /\ buf' = c
            /\ UNCHANGED <<mru, disk, want>>
        BY Zenon, <3>2, <3>4 DEF Take, IdeRw
      <4>2. /\ held' \in [Procs -> SUBSET Bufs] /\ held'[p] = held[p] \cup {b}
            /\ \A q \in Procs : q # p => held'[q] = held[q]
        BY <4>1 DEF IInv, TypeOK
      <4>3. ~Done(b)' /\ \A x \in Bufs : x # b => buf[x].sector # c[b].sector
        BY Zenon, <2>1, <3>1, <3>4, <4>1 DEF Done, IInv, Unique
      <4>4. /\ buf' \in [Bufs -> BufRec] /\ \A x \in Bufs : x # b => buf'[x] = buf[x]
            /\ buf'[b].busy /\ buf'[b].sector \in Sectors
            /\ \A x \in Bufs : x # b => buf[x].sector # buf'[b].sector
            /\ IdeRw(p, buf', b) /\ UNCHANGED <<mru, disk, want>>
        BY Zenon, <3>1, <4>1, <4>3
      <4>5. /\ b \notin Range(queue)
            /\ \A q \in Procs :
                 /\ b \notin held[q]
                 /\ pc[q] \in {"getsleep", "rwsleep", "rwwoken"} => on[q] # b
        BY Zenon, <2>3, FreeFact
      <4> QED BY <4>2, <4>3, <4>4, <4>5, IdeRwInv
    <3> QED BY Zenon, <3>3, <3>4
  <2> QED BY Zenon, <2>2, <2>3
<1>2. CASE GetFresh(p, s)
  <2>1. CASE Recyclable = {} /\ Panic
    BY Zenon, <2>1, SameInv DEF Panic
  <2>2. ASSUME NEW b \in Bufs, LeastRecent(b),
               Take(p, b, [buf EXCEPT ![b].sector = s, ![b].busy = TRUE,
                                      ![b].valid = FALSE, ![b].dirty = FALSE])
        PROVE  IInv'
    <3> DEFINE c == [buf EXCEPT ![b].sector = s, ![b].busy = TRUE,
                                ![b].valid = FALSE, ![b].dirty = FALSE]
    <3>1. /\ c \in [Bufs -> BufRec] /\ \A x \in Bufs : x # b => c[x] = buf[x]
          /\ c[b].busy /\ c[b].sector = s /\ ~c[b].valid
      <4>1. buf \in [Bufs -> BufRec] /\ buf[b] \in BufRec
        BY Zenon DEF IInv, TypeOK
      <4>2. c[b] = [sector |-> s, busy |-> TRUE, valid |-> FALSE, dirty |-> FALSE,
                    data |-> buf[b].data]
        BY Zenon, <4>1 DEF BufRec
      <4>3. c[b] \in BufRec
        BY Zenon, <4>1, <4>2 DEF BufRec
      <4>4. \A x \in Bufs : x # b => c[x] = buf[x]
        BY Zenon, <4>1
      <4>5. DOMAIN c = Bufs /\ c = [x \in Bufs |-> c[x]]
        BY Zenon, <4>1
      <4>6. c \in [Bufs -> BufRec]
        BY <4>1, <4>3, <4>4, <4>5
      <4> QED BY <4>2, <4>4, <4>6
    <3>2. Take(p, b, c)
      BY Zenon, <2>2
    <3> HIDE DEF c
    <3>3. ~buf[b].busy
      BY Zenon, <2>2 DEF LeastRecent, Recyclable
    <3>4. /\ held' = [held EXCEPT ![p] = @ \cup {b}] /\ IdeRw(p, c, b) /\ buf' = c
          /\ UNCHANGED <<mru, disk, want>>
      BY Zenon, <3>1, <3>2 DEF Take, IdeRw
    <3>5. /\ held' \in [Procs -> SUBSET Bufs] /\ held'[p] = held[p] \cup {b}
          /\ \A q \in Procs : q # p => held'[q] = held[q]
      BY <3>4 DEF IInv, TypeOK
    <3>6. ~Done(b)' /\ \A x \in Bufs : x # b => buf[x].sector # c[b].sector
      BY Zenon, <1>2, <3>1, <3>4 DEF Done, GetFresh, Cached
    <3>7. /\ b \notin Range(queue)
          /\ \A q \in Procs :
               /\ b \notin held[q]
               /\ pc[q] \in {"getsleep", "rwsleep", "rwwoken"} => on[q] # b
      BY Zenon, <3>3, FreeFact
    <3>8. /\ buf' \in [Bufs -> BufRec] /\ \A x \in Bufs : x # b => buf'[x] = buf[x]
          /\ buf'[b].busy /\ buf'[b].sector \in Sectors
          /\ \A x \in Bufs : x # b => buf[x].sector # buf'[b].sector
          /\ IdeRw(p, buf', b) /\ UNCHANGED <<mru, disk, want>>
      BY Zenon, <3>1, <3>4, <3>6
    <3> QED BY <3>5, <3>6, <3>7, <3>8, IdeRwInv
  <2> QED BY Zenon, <1>2, <2>1, <2>2 DEF GetFresh
<1> QED BY Zenon, <1>1, <1>2 DEF Get

LEMMA BufWriteInv ==
  ASSUME IInv, ~panicked, NEW p \in Procs, NEW b \in Bufs, NEW d \in Blocks,
         BufWrite(p, b, d)
  PROVE  IInv'
<1> DEFINE c == [buf EXCEPT ![b].data = d, ![b].dirty = TRUE]
<1>1. pc[p] = "idle" /\ b \in held[p]
  BY Zenon DEF BufWrite
<1>2. /\ b \notin Range(queue) /\ buf[b].busy /\ buf[b].sector \in Sectors
      /\ \A q \in Procs : /\ q # p => b \notin held[q]
                          /\ pc[q] \in {"rwsleep", "rwwoken"} => on[q] # b
  BY Zenon, <1>1, IdleFact
<1>3. /\ c \in [Bufs -> BufRec] /\ \A x \in Bufs : x # b => c[x] = buf[x]
      /\ c[b].busy /\ c[b].sector = buf[b].sector /\ c[b].dirty
  <2>1. buf \in [Bufs -> BufRec] /\ buf[b] \in BufRec
    BY Zenon DEF IInv, TypeOK
  <2>2. /\ c \in [Bufs -> BufRec] /\ \A x \in Bufs : x # b => c[x] = buf[x]
        /\ c[b] = [buf[b] EXCEPT !.data = d, !.dirty = TRUE]
    BY Zenon, <2>1 DEF BufRec
  <2> QED BY Zenon, <1>2, <2>1, <2>2 DEF BufRec
<1>4. IdeRw(p, c, b) /\ UNCHANGED <<mru, disk, want, held>>
  BY Zenon, <1>2 DEF BufWrite
<1> HIDE DEF c
<1>5. buf' = c
  BY Zenon, <1>4 DEF IdeRw
<1>6. held' \in [Procs -> SUBSET Bufs] /\ held'[p] = held[p] \cup {b}
  BY Zenon, <1>1, <1>4 DEF IInv, TypeOK
<1>7. ~Done(b)' /\ \A x \in Bufs : x # b => buf[x].sector # c[b].sector
  BY Zenon, <1>2, <1>3, <1>5 DEF Done, IInv, Unique
<1>8. IdeRw(p, buf', b) /\ \A q \in Procs : q # p => held'[q] = held[q]
  BY Zenon, <1>4, <1>5
<1>9. /\ buf' \in [Bufs -> BufRec] /\ \A x \in Bufs : x # b => buf'[x] = buf[x]
      /\ buf'[b].busy /\ buf'[b].sector \in Sectors /\ buf'[b].sector = buf[b].sector
      /\ \A x \in Bufs : x # b => buf[x].sector # buf'[b].sector
  BY Zenon, <1>2, <1>3, <1>5, <1>7
<1>10. \A q \in Procs : /\ q # p => b \notin held[q]
                        /\ pc[q] \in {"rwsleep", "rwwoken"} => on[q] # b
                        /\ pc[q] = "getsleep" /\ on[q] = b =>
                             buf'[b].sector = buf[b].sector
  BY Zenon, <1>2, <1>9
<1> QED BY ZenonT(30), <1>1, <1>2, <1>4, <1>6, <1>7, <1>8, <1>9, <1>10, IdeRwInv

LEMMA BufLogInv ==
  ASSUME IInv, NEW p \in Procs, NEW b \in Bufs, NEW d \in Blocks, BufLog(p, b, d)
  PROVE  IInv'
<1>1. /\ pc[p] = "idle" /\ b \in held[p]
      /\ UNCHANGED <<mru, queue, sent, disk, pc, want, on, held, panicked>>
  BY Zenon DEF BufLog
<1>2. /\ b \notin Range(queue) /\ buf[b].busy
      /\ \A q \in Procs : pc[q] \in {"rwsleep", "rwwoken"} => on[q] # b
  BY Zenon, <1>1, IdleFact
<1>3. /\ buf' \in [Bufs -> BufRec] /\ \A x \in Bufs : x # b => buf'[x] = buf[x]
      /\ buf'[b].busy = buf[b].busy /\ buf'[b].sector = buf[b].sector /\ buf'[b].dirty
  <2>1. buf \in [Bufs -> BufRec] /\ buf[b] \in BufRec
    BY Zenon DEF IInv, TypeOK
  <2>2. buf' = [buf EXCEPT ![b].data = d, ![b].dirty = TRUE]
    BY Zenon DEF BufLog
  <2> QED BY Zenon, <2>1, <2>2 DEF BufRec
<1>4. TypeOK'
  BY Zenon, <1>1, <1>3 DEF IInv, TypeOK
<1>5. Locks' /\ Unique'
  <2>1. Locks'
    BY Zenon, <1>1, <1>3 DEF IInv, Locks
  <2>2. Unique'
    BY <1>3 DEF IInv, Unique
  <2> QED BY Zenon, <2>1, <2>2
<1>6. Copies'
  BY Zenon, <1>1, <1>3 DEF IInv, Copies, Done
<1>7. Halted'
  BY <1>1, <1>2, <1>3 DEF IInv, TypeOK, Halted, Recyclable
<1>8. Woken' /\ NoLostWakeup'
  <2>1. \A q \in Procs : pc[q] \in {"rwsleep", "rwwoken"} => buf'[on[q]] = buf[on[q]]
    BY Zenon, <1>2, <1>3 DEF IInv, Locks, TypeOK
  <2>2. \A q \in Procs : pc[q] = "getsleep" => on[q] \in Bufs
    BY Zenon DEF IInv, Locks
  <2>3. Woken'
    BY Zenon, <1>1, <2>1 DEF IInv, Woken, Done
  <2>4. NoLostWakeup'
    BY Zenon, <1>1, <1>3, <2>2 DEF IInv, NoLostWakeup
  <2> QED BY Zenon, <2>3, <2>4
<1>9. Requests'
  <2>1. \A c \in Range(queue) : buf'[c] = buf[c]
    BY Zenon, <1>2, <1>3, QueueBufs DEF IInv
  <2>2. queue # <<>> => Head(queue) \in Range(queue)
    BY Zenon, HeadFact DEF IInv, TypeOK
  <2> QED BY <1>1, <2>1, <2>2 DEF IInv, Requests, Waits, Done
<1> QED BY Zenon, <1>4, <1>5, <1>6, <1>7, <1>8, <1>9 DEF IInv

LEMMA BufReleaseInv ==
  ASSUME IInv, ~panicked, NEW p \in Procs, NEW b \in Bufs, BufRelease(p, b)
  PROVE  IInv'
<1>1. pc[p] = "idle" /\ b \in held[p]
  BY Zenon DEF BufRelease
<1>2. /\ b \notin Range(queue) /\ buf[b].busy
      /\ \A q \in Procs : /\ q # p => b \notin held[q]
                          /\ pc[q] \in {"rwsleep", "rwwoken"} => on[q] # b
  BY Zenon, <1>1, IdleFact
<1>3. /\ mru' = ToFront(b) /\ buf' = [buf EXCEPT ![b].busy = FALSE]
      /\ pc' = Awake(pc, b) /\ held' = [held EXCEPT ![p] = @ \ {b}]
      /\ UNCHANGED <<queue, sent, disk, want, on, panicked>>
  BY Zenon, <1>2 DEF BufRelease
<1>4. /\ buf' \in [Bufs -> BufRec] /\ \A x \in Bufs : x # b => buf'[x] = buf[x]
      /\ ~buf'[b].busy /\ buf'[b].sector = buf[b].sector /\ buf'[b].valid = buf[b].valid
      /\ buf'[b].dirty = buf[b].dirty /\ buf'[b].data = buf[b].data
  <2>1. buf \in [Bufs -> BufRec] /\ buf[b] \in BufRec
    BY Zenon DEF IInv, TypeOK
  <2>2. /\ buf' \in [Bufs -> BufRec] /\ \A x \in Bufs : x # b => buf'[x] = buf[x]
        /\ buf'[b] = [buf[b] EXCEPT !.busy = FALSE]
    BY Zenon, <1>3, <2>1 DEF BufRec
  <2> QED BY Zenon, <2>1, <2>2 DEF BufRec
<1>5. mru' \in [Bufs -> Bufs] /\ Range(mru') = Bufs
  BY Zenon, <1>3, FrontFact DEF IInv, TypeOK
<1>6. /\ pc' \in [Procs -> {"idle", "getsleep", "getwoken", "rwsleep", "rwwoken",
                           "dead"}]
      /\ \A q \in Procs :
           /\ pc'[q] = "getsleep" => pc[q] = "getsleep" /\ on[q] # b
           /\ pc'[q] = "rwsleep" => pc[q] = "rwsleep" /\ on[q] # b
           /\ pc'[q] = "getwoken" => pc[q] \in {"getsleep", "getwoken"}
           /\ pc'[q] = "rwwoken" =>
                pc[q] = "rwwoken" \/ (pc[q] = "rwsleep" /\ on[q] = b)
           /\ pc[q] \in {"rwsleep", "rwwoken"} => pc'[q] \in {"rwsleep", "rwwoken"}
           /\ pc[q] = "dead" => pc'[q] = "dead"
  BY Zenon, <1>3, AwakeFact DEF IInv
<1>7. /\ held' \in [Procs -> SUBSET Bufs]
      /\ \A q \in Procs, c \in Bufs : c \in held'[q] <=> c \in held[q] /\ c # b
  BY Zenon, <1>2, <1>3 DEF IInv, TypeOK
<1>8. TypeOK'
  BY Zenon, <1>3, <1>4, <1>5, <1>6, <1>7 DEF IInv, TypeOK
<1>9. Locks'
  <2>1. \A q \in Procs, c \in Bufs :
          c \in held'[q] => buf'[c].busy /\ buf'[c].sector \in Sectors
    BY <1>4, <1>7 DEF IInv, Locks
  <2>2. \A q \in Procs : pc'[q] \in {"rwsleep", "rwwoken"} => on'[q] \in held'[q]
    BY Zenon, <1>2, <1>3, <1>6, <1>7 DEF IInv, Locks, TypeOK
  <2>3. \A q \in Procs : pc'[q] \in {"getsleep", "getwoken"} =>
                         want'[q] \in Sectors /\ on'[q] \in Bufs
    BY Zenon, <1>3, <1>6 DEF IInv, Locks
  <2> QED BY Zenon, <1>7, <2>1, <2>2, <2>3 DEF IInv, Locks
<1>10. Unique' /\ Copies' /\ Halted'
  BY <1>3, <1>4 DEF IInv, TypeOK, Unique, Copies, Halted, Done
<1>11. \A c \in Bufs : Done(c)' <=> Done(c)
  BY Zenon, <1>4 DEF Done
<1>12. Woken' /\ NoLostWakeup'
  <2>1. Woken'
    BY Zenon, <1>2, <1>3, <1>6, <1>11 DEF IInv, TypeOK, Locks, Woken
  <2>2. NoLostWakeup'
    BY <1>3, <1>4, <1>6 DEF IInv, Locks, NoLostWakeup
  <2> QED BY Zenon, <2>1, <2>2
<1>13. ASSUME NEW q \in Procs, NEW c \in Range(queue), Waits(q, c) PROVE Waits(q, c)'
  <2>1. c \in Bufs /\ c # b
    BY Zenon, <1>2, QueueBufs DEF IInv
  <2> QED BY Zenon, <1>3, <1>6, <1>7, <1>13, <2>1 DEF Waits
<1>14. Requests'
  <2>1. \A c \in Range(queue) : c \in Bufs /\ buf'[c] = buf[c]
    BY Zenon, <1>2, <1>4, QueueBufs DEF IInv
  <2>2. queue # <<>> => Head(queue) \in Range(queue)
    BY Zenon, HeadFact DEF IInv, TypeOK
  <2> QED BY Zenon, <1>3, <1>11, <1>13, <2>1, <2>2 DEF IInv, Requests
<1> QED BY Zenon, <1>8, <1>9, <1>10, <1>12, <1>14 DEF IInv

LEMMA IdeIntrInv ==
  ASSUME IInv, ~panicked, NEW failed \in BOOLEAN, IdeIntr(failed)
  PROVE  IInv'
<1> DEFINE b == Head(queue)
           s == buf[b].sector
<1>1. /\ queue # <<>> /\ queue' = Tail(queue) /\ pc' = Awake(pc, b)
      /\ failed => Faulty /\ ~buf[b].dirty
      /\ disk' = IF buf[b].dirty THEN [disk EXCEPT ![s] = sent] ELSE disk
      /\ buf' = [buf EXCEPT ![b].valid = TRUE, ![b].dirty = FALSE,
                    ![b].data = IF buf[b].dirty \/ failed THEN @ ELSE disk[s]]
      /\ sent' = IF queue' = <<>> THEN Zero ELSE buf[Head(queue')].data
      /\ UNCHANGED <<mru, want, on, held, panicked>>
  BY Zenon DEF IdeIntr
<1>2. b \in Bufs /\ b \in Range(queue)
  BY Zenon, <1>1, HeadFact DEF IInv, TypeOK
<1> HIDE DEF b, s
<1>3. /\ queue' \in Seq(Bufs) /\ IsInjective(queue')
      /\ Range(queue') = Range(queue) \ {b}
  BY Zenon, <1>1, TailFact DEF IInv, TypeOK, b
<1>4. s \in Sectors /\ sent = buf[b].data
  BY Zenon, <1>1, <1>2 DEF IInv, Requests, Waits, Locks, b, s
<1>5. /\ buf' \in [Bufs -> BufRec] /\ \A x \in Bufs : x # b => buf'[x] = buf[x]
      /\ buf'[b].busy = buf[b].busy /\ buf'[b].sector = s /\ buf'[b].valid
      /\ ~buf'[b].dirty
      /\ buf'[b].data = IF buf[b].dirty \/ failed THEN buf[b].data ELSE disk[s]
  <2>1. buf \in [Bufs -> BufRec] /\ buf[b] \in BufRec /\ disk[s] \in Blocks
    BY Zenon, <1>2, <1>4 DEF IInv, TypeOK
  <2>2. buf'[b] = [sector |-> s, busy |-> buf[b].busy, valid |-> TRUE, dirty |-> FALSE,
                   data |-> IF buf[b].dirty \/ failed THEN buf[b].data ELSE disk[s]]
    BY Zenon, <1>1, <1>2, <2>1 DEF BufRec, s
  <2>3. buf'[b] \in BufRec
    <3>1. buf[b].busy \in BOOLEAN /\ buf[b].data \in Blocks
      BY Zenon, <2>1 DEF BufRec
    <3> QED BY <1>4, <2>1, <2>2, <3>1 DEF BufRec
  <2>4. \A x \in Bufs : x # b => buf'[x] = buf[x]
    BY Zenon, <1>1, <2>1
  <2>5. DOMAIN buf' = Bufs /\ buf' = [x \in Bufs |-> buf'[x]]
    BY Zenon, <1>1, <2>1
  <2>6. buf' \in [Bufs -> BufRec]
    BY Zenon, <2>1, <2>3, <2>4, <2>5
  <2> QED BY <2>2, <2>4, <2>6
<1>6. /\ pc' \in [Procs -> {"idle", "getsleep", "getwoken", "rwsleep", "rwwoken",
                           "dead"}]
      /\ \A q \in Procs :
           /\ pc'[q] = "getsleep" => pc[q] = "getsleep" /\ on[q] # b
           /\ pc'[q] = "rwsleep" => pc[q] = "rwsleep" /\ on[q] # b
           /\ pc'[q] = "getwoken" => pc[q] \in {"getsleep", "getwoken"}
           /\ pc'[q] = "rwwoken" =>
                pc[q] = "rwwoken" \/ (pc[q] = "rwsleep" /\ on[q] = b)
           /\ pc[q] \in {"rwsleep", "rwwoken"} => pc'[q] \in {"rwsleep", "rwwoken"}
           /\ pc[q] = "dead" => pc'[q] = "dead"
  BY Zenon, <1>1, <1>2, AwakeFact DEF IInv
<1>7. disk' \in [Sectors -> Blocks]
  BY Zenon, <1>1, <1>4 DEF IInv, TypeOK
<1>8. sent' \in Blocks /\ (queue' # <<>> => Head(queue') \in Range(queue') \cap Bufs)
  <2>1. queue' # <<>> => Head(queue') \in Range(queue') /\ Head(queue') \in Bufs
    BY <1>3 DEF Range
  <2> QED BY Zenon, <1>1, <2>1, BufAssumption DEF IInv, TypeOK, BufRec, Zero
<1>9. TypeOK'
  BY Zenon, <1>1, <1>3, <1>5, <1>6, <1>7, <1>8 DEF IInv, TypeOK
<1>10. Locks'
  <2>1. \A q \in Procs, c \in Bufs :
          c \in held'[q] => buf'[c].busy /\ buf'[c].sector \in Sectors
    BY <1>1, <1>4, <1>5 DEF IInv, Locks
  <2>2. \A q \in Procs : pc'[q] \in {"rwsleep", "rwwoken"} => on'[q] \in held'[q]
    BY Zenon, <1>1, <1>6 DEF IInv, Locks
  <2>3. \A q \in Procs : pc'[q] \in {"getsleep", "getwoken"} =>
                         want'[q] \in Sectors /\ on'[q] \in Bufs
    BY Zenon, <1>1, <1>6 DEF IInv, Locks
  <2> QED BY Zenon, <1>1, <2>1, <2>2, <2>3 DEF IInv, Locks
<1>11. Unique' /\ Halted'
  BY <1>1, <1>5 DEF IInv, TypeOK, Unique, Halted, s
<1>12. Copies'
  <2>1. SUFFICES ASSUME ~Faulty, NEW c \in Bufs, Done(c)'
                 PROVE  buf'[c].data = disk'[buf'[c].sector]
    BY Zenon DEF Copies
  <2>2. CASE c = b
    BY <1>1, <1>4, <1>5, <2>1, <2>2 DEF IInv, TypeOK
  <2>3. CASE c # b
    <3>1. Done(c) /\ buf'[c] = buf[c] /\ buf[c].sector # s
      BY Zenon, <1>2, <1>4, <1>5, <2>1, <2>3 DEF Done, IInv, Unique, s
    <3>2. disk'[buf[c].sector] = disk[buf[c].sector]
      BY <1>1, <3>1 DEF IInv, TypeOK
    <3> QED BY Zenon, <2>1, <3>1, <3>2 DEF IInv, Copies
  <2> QED BY Zenon, <2>2, <2>3
<1>13. \A c \in Bufs : c # b => (Done(c)' <=> Done(c))
  BY Zenon, <1>5 DEF Done
<1>14. \A q \in Procs : on[q] = b => Done(on[q])'
  BY Zenon, <1>1, <1>5 DEF Done
<1>15. Woken'
  <2>1. ASSUME NEW q \in Procs, pc'[q] = "rwwoken"
        PROVE  on'[q] \in Range(queue') \/ Done(on[q])'
    <3>1. CASE on[q] = b
      BY Zenon, <1>14, <3>1
    <3>2. CASE on[q] # b
      <4>1. pc[q] = "rwwoken" /\ on[q] \in Bufs
        BY Zenon, <1>6, <2>1, <3>2 DEF IInv, Locks, TypeOK
      <4> QED BY Zenon, <1>1, <1>3, <1>13, <3>2, <4>1 DEF IInv, Woken
    <3> QED BY Zenon, <3>1, <3>2
  <2> QED BY Zenon, <1>1, <2>1 DEF Woken, Done
<1>16. NoLostWakeup'
  BY <1>1, <1>3, <1>5, <1>6 DEF IInv, Locks, NoLostWakeup
<1>17. ASSUME NEW q \in Procs, NEW c \in Range(queue), Waits(q, c) PROVE Waits(q, c)'
  BY Zenon, <1>1, <1>6, <1>17 DEF Waits
<1>18. Requests'
  <2>1. \A c \in Range(queue') : c \in Range(queue) /\ c \in Bufs /\ c # b
    BY Zenon, <1>3, QueueBufs DEF IInv
  <2>2. queue' # <<>> => sent' = buf'[Head(queue')].data
    BY Zenon, <1>1, <1>5, <1>8, <2>1
  <2> QED BY Zenon, <1>13, <1>17, <2>1, <2>2 DEF IInv, Requests
<1> QED BY Zenon, <1>9, <1>10, <1>11, <1>12, <1>15, <1>16, <1>18 DEF IInv

LEMMA StepInv == IInv /\ [Next]_vars => IInv'
<1> SUFFICES ASSUME IInv, [Next]_vars PROVE IInv'
  BY Zenon
<1>1. CASE UNCHANGED vars
  BY Zenon, <1>1, SameInv DEF vars, IInv, TypeOK, Halted
<1>2. ASSUME ~panicked, NEW p \in Procs, NEW s \in Sectors, BufRead(p, s) PROVE IInv'
  BY Zenon, <1>2, GetInv DEF BufRead
<1>3. ASSUME ~panicked, NEW p \in Procs, BufReadAgain(p) PROVE IInv'
  <2>1. pc[p] = "getwoken" /\ want[p] \in Sectors /\ Get(p, want[p])
    BY Zenon, <1>3 DEF BufReadAgain, IInv, Locks
  <2> QED BY Zenon, <1>3, <2>1, GetInv
<1>4. ASSUME ~panicked, NEW p \in Procs, Call(p) PROVE IInv'
  BY Zenon, <1>2, <1>4, BufWriteInv, BufLogInv, BufReleaseInv DEF Call
<1> QED BY Zenon, <1>1, <1>3, <1>4, IdeWaitInv, SignalInv, KillInv, IdeIntrInv
           DEF Next

LEMMA Invariance == Spec => []IInv
BY InitInv, StepInv, PTL DEF Spec

(* No wake-up is lost between bufcache_get, ide_rw, bufcache_release and    *)
(* ide_intr, which all use the address of the buffer as their channel.      *)
THEOREM WakeupsSafe == Spec => []NoLostWakeup
<1>1. IInv => NoLostWakeup
  BY Zenon DEF IInv
<1> QED BY <1>1, Invariance, PTL

(* With a disk that does not fail, valid buffers are copies of their        *)
(* sectors, requests belong to busy buffers and the disk has their data;    *)
(* the cache stops only where bufcache_get finds every buffer busy or       *)
(* dirty.                                                                   *)
THEOREM Consistent ==
  ASSUME ~Faulty
  PROVE  Spec => [](CacheConsistent \/ (panicked /\ Recyclable = {}))
<1>1. ASSUME IInv, ~panicked PROVE CacheConsistent
  <2>1. \A b \in Bufs : buf[b].valid /\ ~buf[b].dirty => buf[b].data = disk[buf[b].sector]
    BY Zenon, <1>1 DEF IInv, Copies, Done
  <2>2. ASSUME NEW b \in Range(queue)
        PROVE  /\ buf[b].busy
               /\ \E p \in Procs : /\ b \in held[p] /\ on[p] = b
                                   /\ pc[p] \in {"rwsleep", "rwwoken", "dead"}
    <3>1. PICK p \in Procs : Waits(p, b)
      BY Zenon, <1>1 DEF IInv, Requests
    <3>2. b \in Bufs
      BY Zenon, <1>1, QueueBufs DEF IInv
    <3> QED BY Zenon, <1>1, <3>1, <3>2 DEF IInv, Locks, Waits
  <2>3. TypeOK /\ (queue # <<>> => sent = buf[Head(queue)].data)
    BY Zenon, <1>1 DEF IInv, Requests
  <2> QED BY Zenon, <1>1, <2>1, <2>2, <2>3 DEF CacheConsistent
<1>2. IInv => CacheConsistent \/ (panicked /\ Recyclable = {})
  BY Zenon, <1>1 DEF IInv, Halted
<1> QED BY <1>2, Invariance, PTL

-----------------------------------------------------------------------------

(* What a sector is to its users, with the buffer it is in and without.     *)
LEMMA SectorOf ==
  ASSUME Unique, held \in [Procs -> SUBSET Bufs],
         NEW s \in Sectors, NEW b \in Bufs, buf[b].sector = s
  PROVE  /\ View(s) = IF buf[b].valid \/ buf[b].dirty THEN buf[b].data ELSE disk[s]
         /\ Owner(s) = {p \in Procs : b \in held[p]}
<1> DEFINE S == {x \in Bufs : buf[x].sector = s /\ (buf[x].valid \/ buf[x].dirty)}
<1>1. S = IF buf[b].valid \/ buf[b].dirty THEN {b} ELSE {}
  BY Zenon DEF Unique
<1>2. View(s) = IF S = {} THEN disk[s] ELSE buf[CHOOSE x \in S : TRUE].data
  BY Zenon DEF View
<1> HIDE DEF S
<1>3. S = {b} => (CHOOSE x \in S : TRUE) = b
  BY Zenon
<1>4. Owner(s) = {p \in Procs : b \in held[p]}
  BY Zenon DEF Owner, Unique
<1> QED BY Zenon, <1>1, <1>2, <1>3, <1>4

LEMMA SectorOfNext ==
  ASSUME Unique', held' \in [Procs -> SUBSET Bufs],
         NEW s \in Sectors, NEW b \in Bufs, buf'[b].sector = s
  PROVE  /\ View(s)' = IF buf'[b].valid \/ buf'[b].dirty THEN buf'[b].data ELSE disk'[s]
         /\ Owner(s)' = {p \in Procs : b \in held'[p]}
<1> DEFINE S == {x \in Bufs : buf'[x].sector = s /\ (buf'[x].valid \/ buf'[x].dirty)}
<1>1. S = IF buf'[b].valid \/ buf'[b].dirty THEN {b} ELSE {}
  BY Zenon DEF Unique
<1>2. View(s)' = IF S = {} THEN disk'[s] ELSE buf'[CHOOSE x \in S : TRUE].data
  BY Zenon DEF View
<1> HIDE DEF S
<1>3. S = {b} => (CHOOSE x \in S : TRUE) = b
  BY Zenon
<1>4. Owner(s)' = {p \in Procs : b \in held'[p]}
  BY Zenon DEF Owner, Unique
<1> QED BY Zenon, <1>1, <1>2, <1>3, <1>4

LEMMA SectorNone ==
  ASSUME held \in [Procs -> SUBSET Bufs],
         NEW s \in Sectors, \A b \in Bufs : buf[b].sector # s
  PROVE  View(s) = disk[s] /\ Owner(s) = {}
BY Zenon DEF View, Owner

LEMMA SectorNoneNext ==
  ASSUME held' \in [Procs -> SUBSET Bufs],
         NEW s \in Sectors, \A b \in Bufs : buf'[b].sector # s
  PROVE  View(s)' = disk'[s] /\ Owner(s)' = {}
BY Zenon DEF View, Owner

(* A step that changes one buffer leaves the sectors that are not in it.    *)
LEMMA OtherSector ==
  ASSUME IInv, IInv', NEW b \in Bufs, \A x \in Bufs : x # b => buf'[x] = buf[x],
         \A q \in Procs, x \in Bufs : x # b => (x \in held'[q] <=> x \in held[q]),
         NEW t \in Sectors, buf[b].sector # t, buf'[b].sector # t, disk'[t] = disk[t]
  PROVE  View(t)' = View(t) /\ Owner(t)' = Owner(t)
<1>1. /\ Unique /\ Unique' /\ held \in [Procs -> SUBSET Bufs]
      /\ held' \in [Procs -> SUBSET Bufs]
  BY Zenon DEF IInv, TypeOK
<1>2. CASE \E x \in Bufs : buf[x].sector = t
  <2>1. PICK x \in Bufs : buf[x].sector = t
    BY Zenon, <1>2
  <2>2. x # b /\ buf'[x] = buf[x]
    BY Zenon, <2>1
  <2>3. /\ View(t) = IF buf[x].valid \/ buf[x].dirty THEN buf[x].data ELSE disk[t]
        /\ Owner(t) = {p \in Procs : x \in held[p]}
    BY Zenon, <1>1, <2>1, SectorOf
  <2>4. buf'[x].sector = t
    BY Zenon, <2>1, <2>2
  <2>5. /\ View(t)' = IF buf'[x].valid \/ buf'[x].dirty THEN buf'[x].data ELSE disk'[t]
        /\ Owner(t)' = {p \in Procs : x \in held'[p]}
    BY Zenon, <1>1, <2>4, SectorOfNext
  <2>6. {p \in Procs : x \in held'[p]} = {p \in Procs : x \in held[p]}
    BY Zenon, <2>2
  <2> QED BY <2>2, <2>3, <2>5, <2>6
<1>3. CASE ~ \E x \in Bufs : buf[x].sector = t
  BY Zenon, <1>1, <1>3, SectorNone, SectorNoneNext
<1> QED BY Zenon, <1>2, <1>3

LEMMA Stutter ==
  ASSUME \A s \in Sectors : View(s)' = View(s) /\ Owner(s)' = Owner(s)
  PROVE  UNCHANGED B!bVars
BY Zenon DEF B!bVars

LEMMA StutterSame ==
  ASSUME UNCHANGED <<buf, disk, held>>
  PROVE  UNCHANGED B!bVars
<1>1. \A s \in Sectors : View(s)' = View(s)
  BY DEF View
<1>2. \A s \in Sectors : Owner(s)' = Owner(s)
  BY Zenon DEF Owner
<1> QED BY Zenon, <1>1, <1>2, Stutter

(* Getting a buffer gets its sector.                                        *)
LEMMA GetRefines ==
  ASSUME NEW p \in Procs, NEW s \in Sectors, Owner(s) = {}, Owner(s)' = {p},
         View(s)' = View(s),
         \A t \in Sectors : t # s => View(t)' = View(t) /\ Owner(t)' = Owner(t)
  PROVE  B!BNext
<1> DEFINE own == [t \in Sectors |-> Owner(t)]
           val == [t \in Sectors |-> View(t)]
<1>1. own' = [own EXCEPT ![s] = {p}] /\ own[s] = {} /\ own' # own
  <2>1. own'[s] # own[s]
    BY Zenon
  <2> QED BY Zenon, <2>1
<1>2. val' = val
  BY Zenon
<1> QED BY Zenon, <1>1, <1>2 DEF B!BNext, B!Transfer, B!BGet

LEMMA ReleaseRefines ==
  ASSUME NEW p \in Procs, NEW s \in Sectors, Owner(s) = {p}, Owner(s)' = {},
         View(s)' = View(s),
         \A t \in Sectors : t # s => View(t)' = View(t) /\ Owner(t)' = Owner(t)
  PROVE  B!BNext
<1> DEFINE own == [t \in Sectors |-> Owner(t)]
           val == [t \in Sectors |-> View(t)]
<1>1. own' = [own EXCEPT ![s] = {}] /\ own[s] = {p} /\ own' # own
  <2>1. own'[s] # own[s]
    BY Zenon
  <2> QED BY Zenon, <2>1
<1>2. val' = val
  BY Zenon
<1> QED BY Zenon, <1>1, <1>2 DEF B!BNext, B!Transfer, B!BRelease

LEMMA ChangeRefines ==
  ASSUME NEW p \in Procs, NEW s \in Sectors, NEW d \in Blocks, Owner(s) = {p},
         Owner(s)' = {p}, View(s)' = d,
         \A t \in Sectors : t # s => View(t)' = View(t) /\ Owner(t)' = Owner(t)
  PROVE  [B!BNext]_(B!bVars)
<1> DEFINE own == [t \in Sectors |-> Owner(t)]
           val == [t \in Sectors |-> View(t)]
<1>1. own' = own /\ own[s] = {p}
  BY Zenon
<1>2. val' = [val EXCEPT ![s] = d]
  BY Zenon
<1>3. B!BChange(p, s, d)
  BY Zenon, <1>1, <1>2 DEF B!BChange
<1>4. CASE val' = val
  BY Zenon, <1>1, <1>4 DEF B!bVars
<1>5. CASE val' # val
  BY Zenon, <1>3, <1>5 DEF B!BNext, B!Change
<1> QED BY Zenon, <1>4, <1>5

(* Taking a buffer from the cache.                                          *)
LEMMA TakeCachedRefines ==
  ASSUME IInv, IInv', NEW p \in Procs, NEW s \in Sectors, NEW b \in Bufs,
         buf[b].sector = s, ~buf[b].busy, Take(p, b, [buf EXCEPT ![b].busy = TRUE])
  PROVE  B!BNext
<1>1. /\ buf' = [buf EXCEPT ![b].busy = TRUE] /\ disk' = disk
      /\ held' = [held EXCEPT ![p] = @ \cup {b}]
  BY Zenon DEF Take, IdeRw
<1>2. /\ \A x \in Bufs : x # b => buf'[x] = buf[x]
      /\ buf'[b].sector = s /\ buf'[b].valid = buf[b].valid
      /\ buf'[b].dirty = buf[b].dirty /\ buf'[b].data = buf[b].data
  <2>1. buf \in [Bufs -> BufRec] /\ buf[b] \in BufRec
    BY Zenon DEF IInv, TypeOK
  <2>2. /\ \A x \in Bufs : x # b => buf'[x] = buf[x]
        /\ buf'[b] = [buf[b] EXCEPT !.busy = TRUE]
    BY Zenon, <1>1, <2>1
  <2> QED BY Zenon, <2>1, <2>2 DEF BufRec
<1>3. \A q \in Procs, x \in Bufs : x \in held'[q] <=> x \in held[q] \/ (q = p /\ x = b)
  BY Zenon, <1>1 DEF IInv, TypeOK
<1>4. \A q \in Procs : b \notin held[q]
  BY Zenon, FreeFact
<1>5. /\ Unique /\ Unique' /\ held \in [Procs -> SUBSET Bufs]
      /\ held' \in [Procs -> SUBSET Bufs]
  BY Zenon DEF IInv, TypeOK
<1>6. /\ View(s) = IF buf[b].valid \/ buf[b].dirty THEN buf[b].data ELSE disk[s]
      /\ Owner(s) = {}
  BY Zenon, <1>4, <1>5, SectorOf
<1>7. /\ View(s)' = IF buf'[b].valid \/ buf'[b].dirty THEN buf'[b].data ELSE disk'[s]
      /\ Owner(s)' = {q \in Procs : b \in held'[q]}
  BY Zenon, <1>2, <1>5, SectorOfNext
<1>8. Owner(s)' = {p} /\ View(s)' = View(s)
  BY <1>1, <1>2, <1>3, <1>4, <1>6, <1>7
<1>9. \A t \in Sectors : t # s => View(t)' = View(t) /\ Owner(t)' = Owner(t)
  BY Zenon, <1>1, <1>2, <1>3, OtherSector
<1> QED BY Zenon, <1>6, <1>8, <1>9, GetRefines

(* Recycling one: what it held is on disk.                                  *)
LEMMA TakeFreshRefines ==
  ASSUME IInv, IInv', ~Faulty, NEW p \in Procs, NEW s \in Sectors, NEW b \in Bufs,
         Cached(s) = {}, LeastRecent(b),
         Take(p, b, [buf EXCEPT ![b].sector = s, ![b].busy = TRUE,
                                ![b].valid = FALSE, ![b].dirty = FALSE])
  PROVE  B!BNext
<1>1. /\ buf' = [buf EXCEPT ![b].sector = s, ![b].busy = TRUE,
                            ![b].valid = FALSE, ![b].dirty = FALSE]
      /\ disk' = disk /\ held' = [held EXCEPT ![p] = @ \cup {b}]
  BY Zenon DEF Take, IdeRw
<1>2. /\ \A x \in Bufs : x # b => buf'[x] = buf[x]
      /\ buf'[b].sector = s /\ ~buf'[b].valid /\ ~buf'[b].dirty
  <2>1. buf \in [Bufs -> BufRec] /\ buf[b] \in BufRec
    BY Zenon DEF IInv, TypeOK
  <2>2. /\ \A x \in Bufs : x # b => buf'[x] = buf[x]
        /\ buf'[b] = [sector |-> s, busy |-> TRUE, valid |-> FALSE, dirty |-> FALSE,
                      data |-> buf[b].data]
    BY Zenon, <1>1, <2>1 DEF BufRec
  <2> QED BY <2>2
<1>3. \A q \in Procs, x \in Bufs : x \in held'[q] <=> x \in held[q] \/ (q = p /\ x = b)
  BY <1>1 DEF IInv, TypeOK
<1>4. ~buf[b].busy /\ ~buf[b].dirty
  BY Zenon DEF LeastRecent, Recyclable
<1>5. \A q \in Procs : b \notin held[q]
  BY Zenon, <1>4, FreeFact
<1>6. /\ Unique /\ Unique' /\ held \in [Procs -> SUBSET Bufs]
      /\ held' \in [Procs -> SUBSET Bufs] /\ \A x \in Bufs : buf[x].sector # s
  BY Zenon DEF IInv, TypeOK, Cached
<1>7. View(s) = disk[s] /\ Owner(s) = {}
  BY Zenon, <1>6, SectorNone
<1>8. /\ View(s)' = IF buf'[b].valid \/ buf'[b].dirty THEN buf'[b].data ELSE disk'[s]
      /\ Owner(s)' = {q \in Procs : b \in held'[q]}
  BY Zenon, <1>2, <1>6, SectorOfNext
<1>9. Owner(s)' = {p} /\ View(s)' = View(s)
  BY <1>1, <1>2, <1>3, <1>5, <1>7, <1>8
<1>10. ASSUME NEW t \in Sectors, t # s
       PROVE  View(t)' = View(t) /\ Owner(t)' = Owner(t)
  <2>1. CASE buf[b].sector # t
    BY Zenon, <1>1, <1>2, <1>3, <1>10, <2>1, OtherSector
  <2>2. CASE buf[b].sector = t
    <3>1. /\ View(t) = IF buf[b].valid \/ buf[b].dirty THEN buf[b].data ELSE disk[t]
          /\ Owner(t) = {q \in Procs : b \in held[q]}
      BY Zenon, <1>6, <2>2, SectorOf
    <3>2. View(t) = disk[t] /\ Owner(t) = {}
      BY Zenon, <1>4, <1>5, <2>2, <3>1 DEF IInv, Copies, Done
    <3>3. \A x \in Bufs : buf'[x].sector # t
      BY Zenon, <1>2, <1>6, <1>10, <2>2 DEF Unique
    <3>4. View(t)' = disk'[t] /\ Owner(t)' = {}
      BY Zenon, <1>6, <3>3, SectorNoneNext
    <3> QED BY Zenon, <1>1, <3>2, <3>4
  <2> QED BY Zenon, <2>1, <2>2
<1> QED BY Zenon, <1>7, <1>9, <1>10, GetRefines

LEMMA GetStepRefines ==
  ASSUME IInv, IInv', ~Faulty, NEW p \in Procs, NEW s \in Sectors, Get(p, s)
  PROVE  [B!BNext]_(B!bVars)
<1>1. CASE GetCached(p, s)
  <2>1. PICK b \in Bufs :
          /\ buf[b].sector = s
          /\ IF buf[b].busy THEN UNCHANGED <<buf, disk, held>>
             ELSE Take(p, b, [buf EXCEPT ![b].busy = TRUE])
    BY Zenon, <1>1 DEF GetCached, Cached
  <2> QED BY Zenon, <2>1, StutterSame, TakeCachedRefines
<1>2. CASE GetFresh(p, s)
  <2>1. CASE Panic
    BY Zenon, <2>1, StutterSame DEF Panic
  <2> QED BY Zenon, <1>2, <2>1, TakeFreshRefines DEF GetFresh
<1> QED BY Zenon, <1>1, <1>2 DEF Get

(* Writing or logging a buffer changes its sector.                          *)
LEMMA DirtyRefines ==
  ASSUME IInv, IInv', NEW p \in Procs, NEW b \in Bufs, NEW d \in Blocks,
         pc[p] = "idle", b \in held[p], held' = held, disk' = disk,
         buf' = [buf EXCEPT ![b].data = d, ![b].dirty = TRUE]
  PROVE  [B!BNext]_(B!bVars)
<1> DEFINE s == buf[b].sector
<1>1. s \in Sectors /\ \A q \in Procs : b \in held[q] <=> q = p
  BY Zenon DEF IInv, Locks
<1>2. /\ \A x \in Bufs : x # b => buf'[x] = buf[x]
      /\ buf'[b].sector = s /\ buf'[b].dirty /\ buf'[b].data = d
  <2>1. buf \in [Bufs -> BufRec] /\ buf[b] \in BufRec
    BY Zenon DEF IInv, TypeOK
  <2>2. /\ \A x \in Bufs : x # b => buf'[x] = buf[x]
        /\ buf'[b] = [buf[b] EXCEPT !.data = d, !.dirty = TRUE]
    BY Zenon, <2>1 DEF BufRec
  <2> QED BY Zenon, <2>1, <2>2 DEF BufRec
<1>3. /\ Unique /\ Unique' /\ held \in [Procs -> SUBSET Bufs]
      /\ held' \in [Procs -> SUBSET Bufs]
  BY Zenon DEF IInv, TypeOK
<1>4. ASSUME NEW t \in Sectors, t = s
      PROVE  [B!BNext]_(B!bVars)
  <2>1. Owner(t) = {p}
    BY <1>1, <1>3, <1>4, SectorOf
  <2>2. Owner(t)' = {p} /\ View(t)' = d
    <3>1. /\ View(t)' = IF buf'[b].valid \/ buf'[b].dirty THEN buf'[b].data ELSE disk'[t]
          /\ Owner(t)' = {q \in Procs : b \in held'[q]}
      BY Zenon, <1>2, <1>3, <1>4, SectorOfNext
    <3>2. {q \in Procs : b \in held'[q]} = {p}
      BY Zenon, <1>1
    <3> QED BY Zenon, <1>2, <3>1, <3>2
  <2>3. \A u \in Sectors : u # t => View(u)' = View(u) /\ Owner(u)' = Owner(u)
    BY Zenon, <1>2, <1>4, OtherSector
  <2> QED BY Zenon, <2>1, <2>2, <2>3, ChangeRefines
<1> QED BY Zenon, <1>1, <1>4

LEMMA BufReleaseRefines ==
  ASSUME IInv, IInv', NEW p \in Procs, NEW b \in Bufs, BufRelease(p, b)
  PROVE  [B!BNext]_(B!bVars)
<1> DEFINE s == buf[b].sector
<1>1. s \in Sectors /\ buf[b].busy /\ \A q \in Procs : b \in held[q] <=> q = p
  BY Zenon DEF IInv, Locks, BufRelease
<1>2. /\ buf' = [buf EXCEPT ![b].busy = FALSE] /\ disk' = disk
      /\ held' = [held EXCEPT ![p] = @ \ {b}]
  BY Zenon, <1>1 DEF BufRelease
<1>3. /\ \A x \in Bufs : x # b => buf'[x] = buf[x]
      /\ buf'[b].sector = s /\ buf'[b].valid = buf[b].valid
      /\ buf'[b].dirty = buf[b].dirty /\ buf'[b].data = buf[b].data
  <2>1. buf \in [Bufs -> BufRec] /\ buf[b] \in BufRec
    BY Zenon DEF IInv, TypeOK
  <2>2. /\ \A x \in Bufs : x # b => buf'[x] = buf[x]
        /\ buf'[b] = [buf[b] EXCEPT !.busy = FALSE]
    BY Zenon, <1>2, <2>1
  <2> QED BY Zenon, <2>1, <2>2 DEF BufRec
<1>4. \A q \in Procs, x \in Bufs : x \in held'[q] <=> x \in held[q] /\ ~(q = p /\ x = b)
  BY Zenon, <1>2 DEF IInv, TypeOK
<1>5. /\ Unique /\ Unique' /\ held \in [Procs -> SUBSET Bufs]
      /\ held' \in [Procs -> SUBSET Bufs]
  BY Zenon DEF IInv, TypeOK
<1>6. ASSUME NEW t \in Sectors, t = s
      PROVE  B!BNext
  <2>1. /\ View(t) = IF buf[b].valid \/ buf[b].dirty THEN buf[b].data ELSE disk[t]
        /\ Owner(t) = {q \in Procs : b \in held[q]}
    BY Zenon, <1>5, <1>6, SectorOf
  <2>2. /\ View(t)' = IF buf'[b].valid \/ buf'[b].dirty THEN buf'[b].data ELSE disk'[t]
        /\ Owner(t)' = {q \in Procs : b \in held'[q]}
    BY Zenon, <1>3, <1>5, <1>6, SectorOfNext
  <2>3. Owner(t) = {p} /\ Owner(t)' = {}
    BY Zenon, <1>1, <1>4, <2>1, <2>2
  <2>4. View(t)' = View(t)
    BY Zenon, <1>2, <1>3, <2>1, <2>2
  <2>5. \A u \in Sectors : u # t => View(u)' = View(u) /\ Owner(u)' = Owner(u)
    BY Zenon, <1>2, <1>3, <1>4, <1>6, OtherSector
  <2> QED BY Zenon, <2>3, <2>4, <2>5, ReleaseRefines
<1> QED BY Zenon, <1>1, <1>6

(* The disk interrupt changes nothing its users see.                        *)
LEMMA IdeIntrRefines ==
  ASSUME IInv, IInv', ~Faulty, NEW failed \in BOOLEAN, IdeIntr(failed)
  PROVE  UNCHANGED B!bVars
<1>1. PICK b \in Bufs : b = Head(queue) /\ b \in Range(queue)
  <2>1. queue # <<>>
    BY Zenon DEF IdeIntr
  <2> QED BY Zenon, <2>1, HeadFact DEF IInv, TypeOK
<1>2. PICK s \in Sectors : s = buf[b].sector
  BY Zenon, <1>1 DEF IInv, Requests, Waits, Locks
<1>3. /\ ~failed /\ held' = held
      /\ disk' = IF buf[b].dirty THEN [disk EXCEPT ![s] = sent] ELSE disk
      /\ buf' = [buf EXCEPT ![b].valid = TRUE, ![b].dirty = FALSE,
                    ![b].data = IF buf[b].dirty \/ failed THEN @ ELSE disk[s]]
  BY Zenon, <1>1, <1>2 DEF IdeIntr
<1>4. /\ \A x \in Bufs : x # b => buf'[x] = buf[x]
      /\ buf'[b].sector = s /\ buf'[b].valid
      /\ buf'[b].data = IF buf[b].dirty THEN buf[b].data ELSE disk[s]
  <2>1. buf \in [Bufs -> BufRec] /\ buf[b] \in BufRec
    BY Zenon DEF IInv, TypeOK
  <2>2. /\ \A x \in Bufs : x # b => buf'[x] = buf[x]
        /\ buf'[b] = [sector |-> s, busy |-> buf[b].busy, valid |-> TRUE, dirty |-> FALSE,
                      data |-> IF buf[b].dirty THEN buf[b].data ELSE disk[s]]
    BY Zenon, <1>2, <1>3, <2>1 DEF BufRec
  <2> QED BY <2>2
<1>5. ~buf[b].dirty => ~buf[b].valid
  BY Zenon, <1>1 DEF IInv, Requests, Done
<1>6. /\ Unique /\ Unique' /\ held \in [Procs -> SUBSET Bufs]
      /\ held' \in [Procs -> SUBSET Bufs]
  BY Zenon DEF IInv, TypeOK
<1>7. /\ View(s) = IF buf[b].valid \/ buf[b].dirty THEN buf[b].data ELSE disk[s]
      /\ Owner(s) = {q \in Procs : b \in held[q]}
  BY Zenon, <1>2, <1>6, SectorOf
<1>8. /\ View(s)' = IF buf'[b].valid \/ buf'[b].dirty THEN buf'[b].data ELSE disk'[s]
      /\ Owner(s)' = {q \in Procs : b \in held'[q]}
  BY Zenon, <1>4, <1>6, SectorOfNext
<1>9. View(s)' = View(s) /\ Owner(s)' = Owner(s)
  BY <1>3, <1>4, <1>5, <1>7, <1>8
<1>10. ASSUME NEW t \in Sectors, t # s PROVE View(t)' = View(t) /\ Owner(t)' = Owner(t)
  <2>1. disk'[t] = disk[t]
    BY Zenon, <1>3, <1>10 DEF IInv, TypeOK
  <2> QED BY Zenon, <1>2, <1>3, <1>4, <1>10, <2>1, OtherSector
<1> QED BY Zenon, <1>9, <1>10, Stutter

LEMMA StepRefines ==
  ASSUME IInv, IInv', ~Faulty, [Next]_vars
  PROVE  [B!BNext]_(B!bVars)
<1>1. CASE UNCHANGED vars
  BY Zenon, <1>1, StutterSame DEF vars
<1>2. ASSUME NEW p \in Procs, IdeWait(p) \/ Signal(p) \/ Kill(p)
      PROVE  UNCHANGED B!bVars
  BY Zenon, <1>2, StutterSame DEF IdeWait, Signal, Kill
<1>3. ASSUME NEW p \in Procs, BufReadAgain(p) PROVE [B!BNext]_(B!bVars)
  <2>1. want[p] \in Sectors /\ Get(p, want[p])
    BY Zenon, <1>3 DEF BufReadAgain, IInv, Locks
  <2> QED BY Zenon, <2>1, GetStepRefines
<1>4. ASSUME NEW p \in Procs, NEW s \in Sectors, BufRead(p, s)
      PROVE  [B!BNext]_(B!bVars)
  BY Zenon, <1>4, GetStepRefines DEF BufRead
<1>5. ASSUME NEW p \in Procs, NEW b \in Bufs, NEW d \in Blocks, BufWrite(p, b, d)
      PROVE  [B!BNext]_(B!bVars)
  <2>1. pc[p] = "idle" /\ b \in held[p] /\ buf[b].busy
    BY Zenon, <1>5 DEF BufWrite, IInv, Locks
  <2> QED BY Zenon, <1>5, <2>1, DirtyRefines DEF BufWrite, IdeRw
<1>6. ASSUME NEW p \in Procs, NEW b \in Bufs, NEW d \in Blocks, BufLog(p, b, d)
      PROVE  [B!BNext]_(B!bVars)
  BY Zenon, <1>6, DirtyRefines DEF BufLog
<1>7. ASSUME NEW p \in Procs, Call(p) PROVE [B!BNext]_(B!bVars)
  BY Zenon, <1>4, <1>5, <1>6, <1>7, BufReleaseRefines DEF Call
<1> QED BY Zenon, <1>1, <1>2, <1>3, <1>7, IdeIntrRefines DEF Next

LEMMA InitRefines == Init => B!BInit
<1> SUFFICES ASSUME Init PROVE B!BInit
  BY Zenon
<1>1. \A s \in Sectors : View(s) = disk[s] /\ Owner(s) = {}
  BY Zenon, BufAssumption, SectorNone DEF Init
<1>2. disk \in [Sectors -> Blocks]
  BY Zenon DEF Init
<1> QED BY Zenon, <1>1, <1>2 DEF B!BInit

(* The cache over the disk queue implements one locked register per sector, *)
(* for any number of processes, buffers and sectors and with any process    *)
(* killed, as long as the disk does not fail: bufcache_read returns what    *)
(* the last holder of the sector left.                                      *)
THEOREM Registers ==
  ASSUME ~Faulty
  PROVE  Spec => LockedBlocks
<1>1. IInv /\ IInv' /\ [Next]_vars => [B!BNext]_(B!bVars)
  BY Zenon, StepRefines
<1> QED BY <1>1, Invariance, InitRefines, PTL DEF Spec, LockedBlocks, B!BSpec
==============================================================================
