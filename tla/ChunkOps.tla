------------------------------ MODULE ChunkOps ------------------------------
(***************************************************************************)
(* How parallel_for (OS_Assignment_5, simple-multithreader.h) cuts a range *)
(* of rows into one chunk for the main thread and one per created thread.  *)
(* A loop is a record of parallel_for's arguments; the lambda is left out. *)
(***************************************************************************)
EXTENDS Integers

Loop == [start1 : Int, end1 : Int, start2 : Int, end2 : Int, numThread : Int]

\* The overload for a single index is the one for two with one column.
single_index(start, end, numThread) ==
    [start1 |-> start, end1 |-> end, start2 |-> 0, end2 |-> 1, numThread |-> numThread]

range(l) == l.end1 - l.start1

\* C's division truncates towards zero; the divisor is positive here.
chunk_size(l) == IF range(l) >= 0 THEN range(l) \div l.numThread
                                  ELSE - ((- range(l)) \div l.numThread)

main_end1(l) == l.start1 + chunk_size(l)

worker_start1(l, k) == main_end1(l) + k * chunk_size(l)

\* Seeded fault: the last thread does not take the remainder.
worker_end1_without_remainder(l, k) == worker_start1(l, k) + chunk_size(l)

\* Seeded fault: every thread takes the remainder.
worker_end1_all_remainder(l, k) == l.end1

worker_end1(l, k) == IF k = l.numThread - 2
                     THEN l.end1
                     ELSE worker_start1(l, k) + chunk_size(l)

\* The rows of the main thread and of the k-th created one.
MainRows(l)      == l.start1 .. main_end1(l) - 1
WorkerRows(l, k) == worker_start1(l, k) .. worker_end1(l, k) - 1
=============================================================================
