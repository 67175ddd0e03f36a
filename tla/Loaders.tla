------------------------------ MODULE Loaders ------------------------------
(***************************************************************************)
(* The loaders of Assignments 1 and 4 on the same ELF file, one after the  *)
(* other.  The second is an upgrade of the first: where the first copies a *)
(* segment at once, the second pages it in.                                *)
(***************************************************************************)
EXTENDS SmartLoader

VARIABLES eager_pc, n1, phdr, mem_allo, read_ok   \* of SimpleLoader

eager == <<eager_pc, n1, phdr, mem_allo, read_ok>>
smart == <<pc, fault_address, mem, p_alloc, counters>>

Eager == INSTANCE SimpleLoader WITH pc <- eager_pc

LoadersInit == Init /\ Eager!Init

LoadersNext ==
    \/ Eager!Next /\ UNCHANGED smart
    \/ eager_pc \in {"returned", "not_found"} /\ Next /\ UNCHANGED eager

LoadersSpec == LoadersInit /\ [][LoadersNext]_<<eager, vars>>

-----------------------------------------------------------------------------
\* EntryFound: the eager loader gives up on a file exactly when no loadable
\* segment holds the entry point (load_and_run_elf of Assignment 1).
EntryFound == Eager!NotFoundMeansNone

\* EagerImage: when the eager loader calls the entry point, its segment is in
\* memory as the ELF file says (load_and_run_elf of Assignment 1).
EagerImage == Eager!SegmentImage

\* SameSegment: whatever pages of the segment of the entry point the program has
\* touched, in whatever order, they hold what the eager loader has copied, if
\* they do not begin behind the segment's part of the file.
SameSegment ==
    eager_pc = "returned" /\ read_ok =>
        \A a \in DOMAIN mem :
            InSegment(a, phdr) /\ FromFilePage(a, phdr) => mem[a] = mem_allo[a - phdr.p_vaddr]
=============================================================================
