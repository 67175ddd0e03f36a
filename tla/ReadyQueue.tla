----------------------------- MODULE ReadyQueue -----------------------------
(***************************************************************************)
(* The ready_run_queue as a component: any interleaving of add_to_queue    *)
(* and remove_from_queue, shown to implement BoundedFifo.                  *)
(***************************************************************************)
EXTENDS ReadyQueueOps

VARIABLES ready_run_queue,
          last_removed       \* the struct the last remove_from_queue returned

vars == <<ready_run_queue, last_removed>>

Init == ready_run_queue = EmptyQueue /\ last_removed = blank_process

Add(p) ==
    /\ ready_run_queue' = add_to_queue(ready_run_queue, p)
    /\ UNCHANGED last_removed

Remove ==
    /\ last_removed' = removed_process(ready_run_queue)
    /\ ready_run_queue' = remove_from_queue(ready_run_queue)

Next == (\E p \in Process : Add(p)) \/ Remove

Spec == Init /\ [][Next]_vars

\* TypeOK: the struct keeps its C types, and front, rear and size always agree
\* on which slots are live, however often the indices have wrapped around.
TypeOK ==
    /\ WellFormed(ready_run_queue)
    /\ last_removed \in Process \cup {blank_process}

Fifo == INSTANCE BoundedFifo
            WITH Capacity <- MAX_PROCESSES, Item <- Process,
                 Nothing <- blank_process,
                 items <- Contents(ready_run_queue), out <- last_removed

\* ImplementsFifo: the circular array behaves as a bounded FIFO queue that
\* drops what is offered when full (add_to_queue, remove_from_queue).
ImplementsFifo == Fifo!Spec
=============================================================================
