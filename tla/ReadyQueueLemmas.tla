-------------------------- MODULE ReadyQueueLemmas --------------------------
(***************************************************************************)
(* What the operators of ReadyQueueOps return, for every capacity and      *)
(* every set of processes.  On well-formed queues add_to_queue appends to  *)
(* Contents and remove_from_queue takes its tail, because the live slots   *)
(* front, front+1, ..., front+size-1 are distinct modulo the capacity.     *)
(***************************************************************************)
EXTENDS ReadyQueueOps, TLAPS

\* Reduction modulo the capacity of an index below twice the capacity.
LEMMA ModSmall ==
    ASSUME NEW x \in 0 .. 2 * MAX_PROCESSES - 1
    PROVE  x % MAX_PROCESSES = IF x < MAX_PROCESSES THEN x ELSE x - MAX_PROCESSES
BY CapacityAssumption, SMTT(30)

\* The slot of any position up to the capacity, as a plain case distinction.
LEMMA SlotValue ==
    ASSUME NEW q \in Queue, NEW i \in 0 .. MAX_PROCESSES - 1
    PROVE  /\ SlotOf(q, i) = IF q.front + i < MAX_PROCESSES
                             THEN q.front + i ELSE q.front + i - MAX_PROCESSES
           /\ SlotOf(q, i) \in Slot
<1> DEFINE f == q.front
<1>1. f \in 0 .. MAX_PROCESSES - 1
  BY DEF Queue, Slot
<1>2. SlotOf(q, i) = (f + i) % MAX_PROCESSES
  BY DEF SlotOf
<1> HIDE DEF f
<1>3. f + i \in 0 .. 2 * MAX_PROCESSES - 1
  BY <1>1, CapacityAssumption
<1>4. SlotOf(q, i) = IF f + i < MAX_PROCESSES THEN f + i ELSE f + i - MAX_PROCESSES
  BY <1>1, <1>2, <1>3, ModSmall, CapacityAssumption
<1>5. SlotOf(q, i) \in Slot
  BY <1>1, <1>4, CapacityAssumption DEF Slot
<1> QED
  BY <1>4, <1>5 DEF f

\* Different live positions lie in different slots.
LEMMA SlotsDiffer ==
    ASSUME NEW q \in Queue,
           NEW i \in 0 .. MAX_PROCESSES - 1, NEW j \in 0 .. MAX_PROCESSES - 1,
           i # j
    PROVE  SlotOf(q, i) # SlotOf(q, j)
<1>1. q.front \in 0 .. MAX_PROCESSES - 1
  BY DEF Queue, Slot
<1> QED
  BY <1>1, SlotValue, CapacityAssumption

\* A queue that is not full is extended at the first free slot.
LEMMA AddWritesFirstFree ==
    ASSUME NEW q, WellFormed(q), q.size # MAX_PROCESSES, NEW p
    PROVE  add_to_queue(q, p) = [q EXCEPT !.processes[SlotOf(q, q.size)] = p,
                                          !.rear = SlotOf(q, q.size),
                                          !.size = @ + 1]
BY DEF WellFormed, SlotOf, add_to_queue

\* After a removal, position i of the queue is what was position i + 1.
LEMMA RemoveShiftsSlots ==
    ASSUME NEW q, WellFormed(q), q.size # 0,
           NEW i \in 0 .. MAX_PROCESSES - 2
    PROVE  SlotOf(remove_from_queue(q), i) = SlotOf(q, i + 1)
<1> DEFINE r == remove_from_queue(q)
           f == q.front
           g == r.front
<1>1. q \in Queue /\ f \in 0 .. MAX_PROCESSES - 1
  BY DEF WellFormed, Queue, Slot
<1>2. g = (f + 1) % MAX_PROCESSES
  BY <1>1 DEF remove_from_queue, is_queue_empty, Queue
<1>3. SlotOf(r, i) = (g + i) % MAX_PROCESSES
  BY DEF SlotOf
<1>4. SlotOf(q, i + 1) = (f + (i + 1)) % MAX_PROCESSES
  BY DEF SlotOf
<1> HIDE DEF f, g, r
<1>5. g = IF f + 1 < MAX_PROCESSES THEN f + 1 ELSE 0
  <2>1. f + 1 \in 0 .. 2 * MAX_PROCESSES - 1
    BY <1>1, CapacityAssumption
  <2> QED  BY <1>1, <1>2, <2>1, ModSmall, CapacityAssumption
<1>6. (g + i) % MAX_PROCESSES
        = IF g + i < MAX_PROCESSES THEN g + i ELSE g + i - MAX_PROCESSES
  <2>1. g + i \in 0 .. 2 * MAX_PROCESSES - 1
    BY <1>1, <1>5, CapacityAssumption
  <2> QED  BY <1>1, <1>5, <2>1, ModSmall, CapacityAssumption
<1>7. (f + (i + 1)) % MAX_PROCESSES
        = IF f + (i + 1) < MAX_PROCESSES
          THEN f + (i + 1) ELSE f + (i + 1) - MAX_PROCESSES
  <2>1. f + (i + 1) \in 0 .. 2 * MAX_PROCESSES - 1
    BY <1>1, CapacityAssumption
  <2> QED  BY <1>1, <2>1, ModSmall, CapacityAssumption
<1>8. (g + i) % MAX_PROCESSES = (f + (i + 1)) % MAX_PROCESSES
  BY <1>1, <1>5, <1>6, <1>7, CapacityAssumption
<1> QED
  BY <1>3, <1>4, <1>8 DEF r

\* Contents is a sequence of processes whose length is the size field.
LEMMA ContentsIsSeq ==
    ASSUME NEW q, WellFormed(q)
    PROVE  /\ Contents(q) \in Seq(Process)
           /\ Len(Contents(q)) = q.size
           /\ q.size \in 0 .. MAX_PROCESSES
<1>1. q.size \in 0 .. MAX_PROCESSES
  BY DEF WellFormed, Queue
<1>2. \A i \in 1 .. q.size : q.processes[SlotOf(q, i - 1)] \in Process
  BY <1>1, CapacityAssumption DEF WellFormed
<1>3. Contents(q) \in [1 .. q.size -> Process]
  BY <1>2 DEF Contents
<1> QED
  BY <1>1, <1>3, CapacityAssumption

\* add_to_queue on a queue with room appends to its contents.
LEMMA AddAppends ==
    ASSUME NEW q, WellFormed(q), NEW p \in Process, q.size # MAX_PROCESSES
    PROVE  /\ WellFormed(add_to_queue(q, p))
           /\ Contents(add_to_queue(q, p)) = Append(Contents(q), p)
<1> DEFINE n == q.size
           a == add_to_queue(q, p)
           s == SlotOf(q, n)
<1>1. q \in Queue /\ n \in 0 .. MAX_PROCESSES - 1
  BY CapacityAssumption DEF WellFormed, Queue
<1>2. s \in Slot
  BY <1>1, SlotValue
<1>3. a = [q EXCEPT !.processes[s] = p, !.rear = s, !.size = n + 1]
  BY AddWritesFirstFree
<1>4. /\ a \in Queue
      /\ a.front = q.front /\ a.rear = s /\ a.size = n + 1
      /\ a.processes = [q.processes EXCEPT ![s] = p]
  <2> HIDE DEF a, s, n
  <2>1. n + 1 \in 0 .. MAX_PROCESSES
    BY <1>1, CapacityAssumption
  <2>2. [q.processes EXCEPT ![s] = p] \in [Slot -> Process \cup {blank_process}]
    BY <1>1, <1>2 DEF Queue
  <2> QED  BY <1>1, <1>2, <1>3, <2>1, <2>2 DEF Queue
<1>5. \A i : SlotOf(a, i) = SlotOf(q, i)
  BY <1>4 DEF SlotOf
<1>6. \A i \in 0 .. n - 1 : a.processes[SlotOf(q, i)] = q.processes[SlotOf(q, i)]
  <2> SUFFICES ASSUME NEW i \in 0 .. n - 1
               PROVE  a.processes[SlotOf(q, i)] = q.processes[SlotOf(q, i)]
    OBVIOUS
  <2>1. i \in 0 .. MAX_PROCESSES - 1 /\ i # n
    BY <1>1, CapacityAssumption
  <2>2. SlotOf(q, i) # s /\ SlotOf(q, i) \in Slot
    BY <1>1, <2>1, SlotsDiffer, SlotValue
  <2> QED  BY <1>1, <1>4, <2>2 DEF Queue
<1>7. a.processes[s] = p
  BY <1>1, <1>2, <1>4 DEF Queue
<1>8. WellFormed(a)
  <2>1. (a.rear + 1) % MAX_PROCESSES = (a.front + a.size) % MAX_PROCESSES
    <3> DEFINE f == q.front
    <3>1. f \in 0 .. MAX_PROCESSES - 1
      BY <1>1 DEF Queue, Slot
    <3>2. s = IF f + n < MAX_PROCESSES THEN f + n ELSE f + n - MAX_PROCESSES
      BY <1>1, SlotValue
    <3>3. a.rear = s /\ a.front = f /\ a.size = n + 1
      BY <1>4
    <3> HIDE DEF f, s, n, a
    <3>4. /\ s + 1 \in 0 .. 2 * MAX_PROCESSES - 1
          /\ f + (n + 1) \in 0 .. 2 * MAX_PROCESSES - 1
      BY <1>1, <3>1, <3>2, CapacityAssumption
    <3>5. (s + 1) % MAX_PROCESSES = (f + (n + 1)) % MAX_PROCESSES
      BY <1>1, <3>1, <3>2, <3>4, ModSmall, CapacityAssumption
    <3> QED  BY <3>3, <3>5
  <2>2. \A i \in 0 .. a.size - 1 : a.processes[SlotOf(a, i)] \in Process
    <3>1. \A i \in 0 .. n - 1 : q.processes[SlotOf(q, i)] \in Process
      BY DEF WellFormed
    <3> QED  BY <1>1, <1>4, <1>5, <1>6, <1>7, <3>1, CapacityAssumption
  <2> QED  BY <1>4, <2>1, <2>2 DEF WellFormed
<1>9. Contents(a) = Append(Contents(q), p)
  <2>1. /\ Contents(a) = [i \in 1 .. n + 1 |-> a.processes[SlotOf(q, i - 1)]]
        /\ Contents(q) = [i \in 1 .. n |-> q.processes[SlotOf(q, i - 1)]]
    BY <1>4, <1>5 DEF Contents
  <2>2. /\ \A i \in 1 .. n : Contents(a)[i] = Contents(q)[i]
        /\ Contents(a)[n + 1] = p
    BY <1>1, <1>6, <1>7, <2>1, CapacityAssumption
  <2>3. /\ Contents(a) \in Seq(Process) /\ Len(Contents(a)) = n + 1
        /\ Contents(q) \in Seq(Process) /\ Len(Contents(q)) = n
    BY <1>4, <1>8, ContentsIsSeq
  <2> HIDE DEF n, a
  <2> QED  BY <1>1, <2>2, <2>3, CapacityAssumption
<1> QED
  BY <1>8, <1>9

\* remove_from_queue on a non-empty queue returns the head of its contents
\* and leaves the tail.
LEMMA RemoveTakesHead ==
    ASSUME NEW q, WellFormed(q), q.size # 0
    PROVE  /\ WellFormed(remove_from_queue(q))
           /\ removed_process(q) = Head(Contents(q))
           /\ Contents(remove_from_queue(q)) = Tail(Contents(q))
<1> DEFINE n == q.size
           r == remove_from_queue(q)
           f == q.front
<1>1. q \in Queue /\ n \in 1 .. MAX_PROCESSES /\ f \in 0 .. MAX_PROCESSES - 1
  BY CapacityAssumption DEF WellFormed, Queue, Slot
<1>2. /\ r.front = (f + 1) % MAX_PROCESSES /\ r.rear = q.rear
      /\ r.size = n - 1 /\ r.processes = q.processes
  BY <1>1 DEF remove_from_queue, is_queue_empty, Queue
<1>3. (f + 1) % MAX_PROCESSES = IF f + 1 < MAX_PROCESSES THEN f + 1 ELSE 0
  <2> HIDE DEF f
  <2>1. f + 1 \in 0 .. 2 * MAX_PROCESSES - 1
    BY <1>1, CapacityAssumption
  <2> QED  BY <1>1, <2>1, ModSmall, CapacityAssumption
<1>4. \A i \in 0 .. MAX_PROCESSES - 2 : SlotOf(r, i) = SlotOf(q, i + 1)
  BY RemoveShiftsSlots
<1>5. r \in Queue
  <2>1. (f + 1) % MAX_PROCESSES \in Slot
    BY <1>1, <1>3, CapacityAssumption DEF Slot
  <2>2. r = [q EXCEPT !.front = (f + 1) % MAX_PROCESSES, !.size = n - 1]
    BY <1>1 DEF remove_from_queue, is_queue_empty, Queue
  <2>3. n - 1 \in 0 .. MAX_PROCESSES
    BY <1>1, CapacityAssumption
  <2> HIDE DEF f, n, r
  <2> QED  BY <1>1, <2>1, <2>2, <2>3 DEF Queue
<1>6. \A i \in 0 .. n - 1 : q.processes[SlotOf(q, i)] \in Process
  BY DEF WellFormed
<1>7. WellFormed(r)
  <2>1. (r.rear + 1) % MAX_PROCESSES = (r.front + r.size) % MAX_PROCESSES
    <3> DEFINE g == r.front
    <3>1. (q.rear + 1) % MAX_PROCESSES = (f + n) % MAX_PROCESSES
      BY DEF WellFormed
    <3>2. g = IF f + 1 < MAX_PROCESSES THEN f + 1 ELSE 0
      BY <1>2, <1>3
    <3> HIDE DEF f, n, g, r
    <3>3. /\ f + n \in 0 .. 2 * MAX_PROCESSES - 1
          /\ g + (n - 1) \in 0 .. 2 * MAX_PROCESSES - 1
      BY <1>1, <3>2, CapacityAssumption
    <3>4. (g + (n - 1)) % MAX_PROCESSES = (f + n) % MAX_PROCESSES
      BY <1>1, <3>2, <3>3, ModSmall, CapacityAssumption
    <3> QED  BY <1>2, <3>1, <3>4 DEF g
  <2>2. \A i \in 0 .. r.size - 1 : r.processes[SlotOf(r, i)] \in Process
    <3> SUFFICES ASSUME NEW i \in 0 .. n - 2
                 PROVE  q.processes[SlotOf(r, i)] \in Process
      BY <1>1, <1>2, CapacityAssumption
    <3>1. i \in 0 .. MAX_PROCESSES - 2 /\ i + 1 \in 0 .. n - 1
      BY <1>1, CapacityAssumption
    <3> QED  BY <1>4, <1>6, <3>1
  <2> QED  BY <1>5, <2>1, <2>2 DEF WellFormed
<1>8. /\ Contents(q) \in Seq(Process) /\ Len(Contents(q)) = n
      /\ Contents(r) \in Seq(Process) /\ Len(Contents(r)) = n - 1
  BY <1>2, <1>7, ContentsIsSeq
<1>9. \A i \in 1 .. n - 1 : Contents(r)[i] = Contents(q)[i + 1]
  <2> SUFFICES ASSUME NEW i \in 1 .. n - 1
               PROVE  Contents(r)[i] = Contents(q)[i + 1]
    OBVIOUS
  <2>1. i - 1 \in 0 .. MAX_PROCESSES - 2 /\ i + 1 \in 1 .. n /\ (i - 1) + 1 = (i + 1) - 1
    BY <1>1, CapacityAssumption
  <2>2. Contents(r)[i] = q.processes[SlotOf(r, i - 1)]
    BY <1>2, <2>1 DEF Contents
  <2>3. Contents(q)[i + 1] = q.processes[SlotOf(q, (i + 1) - 1)]
    BY <2>1 DEF Contents
  <2>4. SlotOf(r, i - 1) = SlotOf(q, (i - 1) + 1)
    BY <1>4, <2>1
  <2> QED  BY <2>1, <2>2, <2>3, <2>4
<1>10. Contents(r) = Tail(Contents(q))
  <2> HIDE DEF n, r
  <2> QED  BY <1>1, <1>8, <1>9, CapacityAssumption
<1>11. removed_process(q) = Head(Contents(q))
  <2>1. SlotOf(q, 0) = f
    <3>1. SlotOf(q, 0) = (f + 0) % MAX_PROCESSES
      BY DEF SlotOf
    <3> HIDE DEF f
    <3>2. f + 0 = f /\ f \in 0 .. 2 * MAX_PROCESSES - 1
      BY <1>1, CapacityAssumption
    <3> QED  BY <1>1, <3>1, <3>2, ModSmall, CapacityAssumption
  <2>2. Contents(q)[1] = q.processes[SlotOf(q, 1 - 1)]
    BY <1>1 DEF Contents
  <2> QED  BY <1>1, <1>8, <2>1, <2>2 DEF removed_process, is_queue_empty
<1> QED
  BY <1>7, <1>10, <1>11
-----------------------------------------------------------------------------
\* The static initialiser of ready_run_queue is a well-formed, empty queue.
LEMMA EmptyIsWellFormed ==
    WellFormed(EmptyQueue) /\ Contents(EmptyQueue) = <<>> /\ EmptyQueue.size = 0
<1>1. EmptyQueue \in Queue
  BY CapacityAssumption DEF EmptyQueue, Queue, Slot
<1>2. (EmptyQueue.rear + 1) = 0 + 0 /\ EmptyQueue.front = 0 /\ EmptyQueue.size = 0
  BY DEF EmptyQueue
<1> QED
  BY <1>1, <1>2 DEF WellFormed, Contents

\* add_to_queue keeps the array well formed, also when it drops the process.
LEMMA AddKeepsForm ==
    ASSUME NEW q, WellFormed(q), NEW p \in Process
    PROVE  WellFormed(add_to_queue(q, p))
<1>1. CASE q.size = MAX_PROCESSES
  BY <1>1 DEF add_to_queue
<1>2. CASE q.size # MAX_PROCESSES
  BY <1>2, AddAppends
<1> QED
  BY <1>1, <1>2

\* remove_from_queue keeps the array well formed, also when it is empty, and
\* what it takes from a queue that is not empty is a process.
LEMMA RemoveKeepsForm ==
    ASSUME NEW q, WellFormed(q)
    PROVE  /\ WellFormed(remove_from_queue(q))
           /\ ~ is_queue_empty(q) => removed_process(q) \in Process
<1>1. CASE q.size = 0
  BY <1>1 DEF remove_from_queue, is_queue_empty
<1>2. CASE q.size # 0
  <2>1. Contents(q) \in Seq(Process) /\ Len(Contents(q)) = q.size
    BY ContentsIsSeq
  <2>2. Head(Contents(q)) \in Process
    BY <1>2, <2>1
  <2> QED  BY <1>2, <2>2, RemoveTakesHead
<1> QED
  BY <1>1, <1>2
=============================================================================
