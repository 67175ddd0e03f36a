--------------------------- MODULE ReadyQueueOps ---------------------------
(***************************************************************************)
(* The circular queue of OS_Assignment_3 (struct queue in bash.h and its   *)
(* functions in Dam_Scheduler.c) as operators on records.  A struct        *)
(* process is abstracted to its pid: the time fields are written to a      *)
(* local copy only and no branch of the scheduler depends on them.         *)
(***************************************************************************)
EXTENDS Integers, Sequences

CONSTANTS
    MAX_PROCESSES,   \* capacity of the array
    Process,         \* pids of the processes that can be queued
    blank_process    \* what remove_from_queue returns on an empty queue

ASSUME CapacityAssumption == MAX_PROCESSES \in Nat \ {0}
ASSUME BlankAssumption    == blank_process \notin Process

Slot == 0 .. MAX_PROCESSES - 1

\* The values a struct queue can hold.  rear starts at -1.
Queue == [ processes : [Slot -> Process \cup {blank_process}],
           front     : Slot,
           rear      : {-1} \cup Slot,
           size      : 0 .. MAX_PROCESSES ]

\* The static initialiser; the array is zero-filled, so every slot is blank.
EmptyQueue == [ processes |-> [s \in Slot |-> blank_process],
                front     |-> 0,
                rear      |-> -1,
                size      |-> 0 ]

is_queue_empty(q) == q.size = 0

\* The index of the i-th live entry, counted from 0 at the front.
SlotOf(q, i) == (q.front + i) % MAX_PROCESSES

\* Seeded fault: the array is written before rear is advanced.
add_before_advance(q, p) ==
    IF q.size = MAX_PROCESSES
    THEN q
    ELSE [q EXCEPT !.processes[IF q.rear = -1 THEN 0 ELSE q.rear] = p,
                   !.rear = (q.rear + 1) % MAX_PROCESSES,
                   !.size = @ + 1]

\* Seeded fault: the queue counts as full one process early.
add_one_short(q, p) ==
    IF q.size = MAX_PROCESSES - 1
    THEN q
    ELSE [q EXCEPT !.processes[(q.rear + 1) % MAX_PROCESSES] = p,
                   !.rear = (q.rear + 1) % MAX_PROCESSES,
                   !.size = @ + 1]

\* A full queue drops the process; the caller is not told.
add_to_queue(q, p) ==
    IF q.size = MAX_PROCESSES
    THEN q
    ELSE [q EXCEPT !.processes[(q.rear + 1) % MAX_PROCESSES] = p,
                   !.rear = (q.rear + 1) % MAX_PROCESSES,
                   !.size = @ + 1]

\* remove_from_queue has a result and an effect; they are two operators here.
removed_process(q) ==
    IF is_queue_empty(q) THEN blank_process ELSE q.processes[q.front]

\* Seeded fault: the front index runs off the end instead of wrapping to 0.
remove_without_wrap(q) ==
    IF is_queue_empty(q)
    THEN q
    ELSE [q EXCEPT !.front = IF @ = MAX_PROCESSES - 1 THEN @ ELSE @ + 1,
                   !.size  = @ - 1]

remove_from_queue(q) ==
    IF is_queue_empty(q)
    THEN q
    ELSE [q EXCEPT !.front = (@ + 1) % MAX_PROCESSES, !.size = @ - 1]

\* What the queue holds, oldest first: the abstraction of the array.
Contents(q) == [i \in 1 .. q.size |-> q.processes[SlotOf(q, i - 1)]]

\* rear and front delimit exactly size live slots, and live slots are filled.
WellFormed(q) ==
    /\ q \in Queue
    /\ (q.rear + 1) % MAX_PROCESSES = (q.front + q.size) % MAX_PROCESSES
    /\ \A i \in 0 .. q.size - 1 : q.processes[SlotOf(q, i)] \in Process
=============================================================================
