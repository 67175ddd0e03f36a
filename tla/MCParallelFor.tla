--------------------------- MODULE MCParallelFor ---------------------------
(* ParallelFor on small programs of the shape of vector.cpp and matrix.cpp. *)
EXTENDS ParallelFor

\* vector.cpp: one call over the indices 0 .. size - 1.  Sizes below, equal to
\* and above the number of threads, with and without a remainder; numThread
\* also 1, 0 and negative.
VectorProgram(size, n) == <<single_index(0, size, n)>>
VectorPrograms == {VectorProgram(size, n) : size \in 0 .. 7, n \in -1 .. 4}
    \cup {<<single_index(2, 0, 3)>>}

\* matrix.cpp: allocate the rows, multiply, free the rows.
MatrixProgram(size, n) ==
    << single_index(0, size, n),
       [start1 |-> 0, end1 |-> size, start2 |-> 0, end2 |-> size, numThread |-> n],
       single_index(0, size, n) >>
MatrixPrograms == {MatrixProgram(size, n) : size \in {1, 2}, n \in 1 .. 3}

MCPrograms == VectorPrograms \cup MatrixPrograms
=============================================================================
