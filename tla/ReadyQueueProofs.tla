-------------------------- MODULE ReadyQueueProofs --------------------------
(***************************************************************************)
(* ReadyQueue implements BoundedFifo, for every capacity and every set of  *)
(* processes.                                                              *)
(***************************************************************************)
EXTENDS ReadyQueue, ReadyQueueLemmas

\* The struct stays well formed: the C types, the agreement of front, rear and
\* size, and the fact that no live slot is blank, for every capacity.
THEOREM TypeCorrect == Spec => []TypeOK
<1>1. Init => TypeOK
  BY EmptyIsWellFormed DEF Init, TypeOK
<1>2. TypeOK /\ [Next]_vars => TypeOK'
  <2> SUFFICES ASSUME TypeOK, [Next]_vars PROVE TypeOK'
    OBVIOUS
  <2>1. ASSUME NEW p \in Process, Add(p) PROVE TypeOK'
    BY <2>1, AddKeepsForm DEF Add, TypeOK
  <2>2. CASE Remove
    BY <2>2, RemoveKeepsForm DEF Remove, TypeOK, removed_process
  <2>3. CASE UNCHANGED vars
    BY <2>3 DEF vars, TypeOK
  <2> QED  BY <2>1, <2>2, <2>3 DEF Next
<1> QED
  BY <1>1, <1>2, PTL DEF Spec

\* The circular array implements the bounded FIFO: every add_to_queue is a Put
\* and every remove_from_queue a Take of the abstract queue.
THEOREM RefinesFifo == Spec => ImplementsFifo
<1>1. Init => Fifo!Init
  BY DEF Init, Fifo!Init, Contents, EmptyQueue
<1>2. TypeOK /\ [Next]_vars => [Fifo!Next]_<<Contents(ready_run_queue), last_removed>>
  <2> SUFFICES ASSUME TypeOK, [Next]_vars
               PROVE  [Fifo!Next]_<<Contents(ready_run_queue), last_removed>>
    OBVIOUS
  <2> DEFINE q == ready_run_queue
  <2>1. WellFormed(q) /\ q.size \in 0 .. MAX_PROCESSES
        /\ Contents(q) \in Seq(Process) /\ Len(Contents(q)) = q.size
    BY ContentsIsSeq DEF TypeOK
  <2>2. ASSUME NEW p \in Process, Add(p) PROVE Fifo!Put(p)
    <3>1. CASE q.size = MAX_PROCESSES
      BY <2>1, <2>2, <3>1, CapacityAssumption DEF Add, add_to_queue, Fifo!Put
    <3>2. CASE q.size # MAX_PROCESSES
      BY <2>1, <2>2, <3>2, AddAppends, CapacityAssumption DEF Add, Fifo!Put
    <3> QED  BY <3>1, <3>2
  <2>3. ASSUME Remove PROVE Fifo!Take
    <3>1. CASE q.size = 0
      BY <2>1, <2>3, <3>1
         DEF Remove, remove_from_queue, removed_process, is_queue_empty, Fifo!Take
    <3>2. CASE q.size # 0
      BY <2>1, <2>3, <3>2, RemoveTakesHead DEF Remove, Fifo!Take
    <3> QED  BY <3>1, <3>2
  <2>4. CASE UNCHANGED vars
    BY <2>4 DEF vars
  <2> QED  BY <2>2, <2>3, <2>4 DEF Next, Fifo!Next
<1> QED
  BY <1>1, <1>2, TypeCorrect, PTL DEF Spec, ImplementsFifo, Fifo!Spec
=============================================================================
