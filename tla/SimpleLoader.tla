---------------------------- MODULE SimpleLoader ----------------------------
(***************************************************************************)
(* The loader of Assignment 1 (OS_Assignment_1/loader.c): it looks for the *)
(* segment of the entry point, copies that one segment into fresh memory,  *)
(* wherever the kernel puts it, and calls the entry point there.           *)
(*                                                                         *)
(* A byte of memory is the file offset it was read from, or zero_byte.     *)
(***************************************************************************)
EXTENDS Integers, Sequences

CONSTANTS
    page_size,    \* mmap rounds up to this
    Layouts,      \* the ELF files: entry point, program headers, file size
    zero_byte     \* a byte of fresh anonymous memory

VARIABLES
    elf,          \* the file being loaded
    pc,           \* where the loader is
    n1,           \* how many headers it has passed
    phdr,         \* the header read last
    mem_allo,     \* the mapped bytes, from 0; empty when mmap has failed
    read_ok       \* history: the segment could be read

vars == <<elf, pc, n1, phdr, mem_allo, read_ok>>

\* malloc leaves it uninitialised.
Garbage == [p_type |-> "garbage", p_vaddr |-> 0, p_memsz |-> 0, p_filesz |-> 0, p_offset |-> 0]

Init ==
    /\ elf \in Layouts
    /\ pc = "open"
    /\ n1 = 0
    /\ phdr = Garbage
    /\ mem_allo = <<>>
    /\ read_ok = FALSE

-----------------------------------------------------------------------------
has_entry_point(ph) ==
    /\ ph.p_type = "PT_LOAD"
    /\ elf.e_entry >= ph.p_vaddr
    /\ elf.e_entry < ph.p_vaddr + ph.p_memsz

\* main checks its argument and load_and_run_elf reads the ELF header.
open ==
    /\ pc = "open"
    /\ pc' = "scan"
    /\ UNCHANGED <<elf, n1, phdr, mem_allo, read_ok>>

\* A check fails, the file cannot be opened, a header cannot be read.
fails ==
    /\ pc \in {"open", "scan"}
    /\ pc' = "exited"
    /\ UNCHANGED <<elf, n1, phdr, mem_allo, read_ok>>

\* Seeded fault: the last header is not looked at.
headers_short == Len(elf.e_phdr) - 1

headers == Len(elf.e_phdr)

scan ==
    /\ pc = "scan" /\ n1 < headers
    /\ phdr' = elf.e_phdr[n1 + 1]
    /\ IF has_entry_point(phdr') THEN pc' = "check" /\ UNCHANGED n1
                                 ELSE n1' = n1 + 1 /\ UNCHANGED pc
    /\ UNCHANGED <<elf, mem_allo, read_ok>>

scan_done ==
    /\ pc = "scan" /\ n1 = headers
    /\ pc' = "check"
    /\ UNCHANGED <<elf, n1, phdr, mem_allo, read_ok>>

\* The header read last decides.  Without any header the uninitialised one may
\* pass the test, and nothing is known of the loader after that.
check ==
    /\ pc = "check"
    /\ \/ phdr # Garbage /\ pc' = IF has_entry_point(phdr) THEN "mmap" ELSE "not_found"
       \/ phdr = Garbage /\ pc' \in {"not_found", "undefined"}
    /\ UNCHANGED <<elf, n1, phdr, mem_allo, read_ok>>

\* The pages for p_memsz bytes; a failure is not noticed.
mmap ==
    /\ pc = "mmap"
    /\ LET pages == (phdr.p_memsz + page_size - 1) \div page_size
       IN  mem_allo' \in {<<>>, [i \in 0 .. page_size * pages - 1 |-> zero_byte]}
    /\ pc' = "read"
    /\ UNCHANGED <<elf, n1, phdr, read_ok>>

\* Seeded fault: the size in memory is read from the file.
bytes_to_copy_memsz == phdr.p_memsz

bytes_to_copy == phdr.p_filesz

\* read copies up to its count, the end of the file or of the memory.
copied ==
    [i \in DOMAIN mem_allo |->
        IF i < bytes_to_copy /\ phdr.p_offset + i < elf.file_size
        THEN phdr.p_offset + i ELSE mem_allo[i]]

\* A read that fails is not noticed.
read ==
    /\ pc = "read"
    /\ \/ mem_allo' = copied /\ read_ok' = TRUE
       \/ UNCHANGED <<mem_allo, read_ok>>
    /\ pc' = "call"
    /\ UNCHANGED <<elf, n1, phdr>>

e_point == elf.e_entry - phdr.p_vaddr

\* Without memory the call faults; otherwise the program runs, and may crash.
call ==
    /\ pc = "call"
    /\ pc' \in IF e_point \in DOMAIN mem_allo THEN {"returned", "crashed"} ELSE {"crashed"}
    /\ UNCHANGED <<elf, n1, phdr, mem_allo, read_ok>>

Next == open \/ fails \/ scan \/ scan_done \/ check \/ mmap \/ read \/ call

Spec == Init /\ [][Next]_vars

-----------------------------------------------------------------------------
\* NotFoundMeansNone: the loader gives up on a file, with its message that the
\* entry point was not found, exactly when no loadable segment holds the entry
\* point, wherever the header of that segment stands (load_and_run_elf).
NotFoundMeansNone ==
    /\ pc = "not_found" => \A n \in DOMAIN elf.e_phdr : ~ has_entry_point(elf.e_phdr[n])
    /\ pc \in {"mmap", "read", "call", "returned"} => has_entry_point(phdr)

\* SegmentImage: when the entry point is called in memory that was read, each
\* byte of its segment is what the ELF file says, the part without file bytes
\* included (mmap and read in load_and_run_elf).
SegmentImage ==
    pc = "call" /\ read_ok =>
        \A i \in DOMAIN mem_allo : i < phdr.p_memsz =>
            mem_allo[i] = IF i < phdr.p_filesz THEN phdr.p_offset + i ELSE zero_byte
=============================================================================
