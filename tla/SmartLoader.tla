----------------------------- MODULE SmartLoader -----------------------------
(***************************************************************************)
(* The loader of Assignment 4 (group-103/Smart_loader.c): it jumps into an *)
(* ELF program of which nothing is mapped and maps one page per SIGSEGV.   *)
(*                                                                         *)
(* A byte of memory is the file offset it was read from, or zero_byte.     *)
(* What the program does between two faults is left out except for the     *)
(* addresses it touches.                                                   *)
(***************************************************************************)
EXTENDS Integers, Sequences, FiniteSets, FiniteSetsExt, Functions

CONSTANTS
    page_size,    \* 4096
    Layouts,      \* the ELF files: entry point, program headers, file size
    Wild,         \* addresses outside its segments a faulty program touches
    zero_byte,    \* a byte of fresh anonymous memory
    MaxFaults     \* bound: how often the handler counts a fault

ASSUME PageAssumption == page_size \in Nat \ {0}
ASSUME ZeroAssumption == zero_byte \notin Nat
ASSUME BoundAssumption == MaxFaults \in Nat
ASSUME WildAssumption == Wild \subseteq Nat

ProgramHeader == [p_type : {"PT_LOAD", "other"}, p_vaddr : Nat, p_memsz : Nat,
                  p_filesz : Nat, p_offset : Nat]

ASSUME LayoutAssumption ==
    Layouts \subseteq [e_entry : Nat, e_phdr : Seq(ProgramHeader), file_size : Nat]

\* No file is cut off inside a segment.
ASSUME WholeFileAssumption ==
    \A file \in Layouts : \A n \in DOMAIN file.e_phdr :
        file.e_phdr[n].p_offset + file.e_phdr[n].p_filesz <= file.file_size

\* Loadable segments do not overlap, and none lies above a segment with pages
\* behind its part of the file: the handler would read file bytes over it.
ASSUME PlacementAssumption ==
    \A file \in Layouts : \A m, n \in DOMAIN file.e_phdr :
        LET low  == file.e_phdr[m]
            high == file.e_phdr[n]
        IN  m # n /\ low.p_type = "PT_LOAD" /\ high.p_type = "PT_LOAD" /\ low.p_vaddr <= high.p_vaddr =>
                /\ low.p_vaddr + low.p_memsz <= high.p_vaddr
                /\ \A a \in low.p_vaddr .. low.p_vaddr + low.p_memsz - 1 :
                       a % page_size = 0 => a - low.p_vaddr <= low.p_filesz

VARIABLES
    elf,               \* the file being loaded
    pc,                \* where the process is
    fault_address,     \* si_addr of the last SIGSEGV
    mem,               \* the mapped bytes of the loaded program
    p_alloc,           \* one flag per page up to max_add
    Page_fault, Page_allocation, Full_internal_fragmentation

counters == <<Page_fault, Page_allocation, Full_internal_fragmentation>>
vars == <<elf, pc, fault_address, mem, p_alloc, counters>>

LoadHeaders == {n \in DOMAIN elf.e_phdr : elf.e_phdr[n].p_type = "PT_LOAD"}
SegmentEnd(ph) == ph.p_vaddr + ph.p_memsz
InSegment(a, ph) == ph.p_vaddr <= a /\ a < SegmentEnd(ph)

Init ==
    /\ elf \in Layouts
    /\ pc = "load"
    /\ fault_address = 0
    /\ mem = <<>>
    /\ p_alloc = <<>>
    /\ Page_fault = 0 /\ Page_allocation = 0 /\ Full_internal_fragmentation = 0

-----------------------------------------------------------------------------
max_add == Max({0} \cup {SegmentEnd(elf.e_phdr[n]) : n \in LoadHeaders})

\* Seeded fault: the last, partial page gets no flag.
num_page_without_last == max_add \div page_size

num_page == (max_add \div page_size) + 1

\* load_and_run_elf up to the call of _start, which faults at the entry point.
load_and_run_elf ==
    /\ pc = "load"
    /\ p_alloc' = [page \in 0 .. num_page - 1 |-> 0]
    /\ pc' = "fault"
    /\ fault_address' = elf.e_entry
    /\ UNCHANGED <<elf, mem, counters>>

\* The file cannot be opened or read, or an allocation fails.
load_fails ==
    /\ pc = "load"
    /\ pc' = "exited"
    /\ UNCHANGED <<elf, fault_address, mem, p_alloc, counters>>

\* The program touches an address; mapped memory gives it what it wants.
program_access(a) ==
    /\ pc = "running"
    /\ a \notin DOMAIN mem
    /\ pc' = "fault"
    /\ fault_address' = a
    /\ UNCHANGED <<elf, mem, p_alloc, counters>>

\* _start returns; the loader cleans up and prints the counters.
program_returns ==
    /\ pc = "running"
    /\ pc' = "returned"
    /\ p_alloc' = <<>>
    /\ UNCHANGED <<elf, fault_address, mem, counters>>

-----------------------------------------------------------------------------
(* Handeling_segmentation_fault.                                           *)

start_of_page == fault_address - (fault_address % page_size)
ind_of_page   == start_of_page \div page_size

\* Beyond the end of p_alloc the flag is whatever lies there.
flag_may_be(v) == ind_of_page \in DOMAIN p_alloc => p_alloc[ind_of_page] = v

\* Seeded fault: the part of a segment without file bytes is not looked for.
matches_file_part(ph) ==
    ph.p_type = "PT_LOAD" /\ start_of_page >= ph.p_vaddr
        /\ start_of_page < ph.p_vaddr + ph.p_filesz

matches(ph) ==
    ph.p_type = "PT_LOAD" /\ start_of_page >= ph.p_vaddr /\ start_of_page < SegmentEnd(ph)

Matching == {n \in DOMAIN elf.e_phdr : matches(elf.e_phdr[n])}
segment  == elf.e_phdr[Min(Matching)]

offset_in_segment == start_of_page - segment.p_vaddr

\* Seeded fault: a whole page is read although the segment's part of the file
\* ends in it.
bytes_to_read_whole_page == page_size

\* A difference of unsigned numbers: below zero it is a huge count.
bytes_to_read == IF offset_in_segment + page_size > segment.p_filesz
                 THEN segment.p_filesz - offset_in_segment
                 ELSE page_size

Page(start) == start .. start + page_size - 1

\* After mmap of the page, before the read.  mmap is taken to return the address
\* that it is asked for, which the code does not compare.
mapped ==
    [a \in Page(start_of_page) \cup DOMAIN mem |->
        IF a \in Page(start_of_page) THEN zero_byte ELSE mem[a]]

\* Seeded fault: each page is read from the start of its segment.
file_position_of_segment == segment.p_offset

\* Where lseek leaves the file.
file_position == segment.p_offset + offset_in_segment

\* read copies up to its count, the end of the file or the first page that is
\* not mapped, whichever comes first.
Readable(count) ==
    {a \in DOMAIN mapped :
        /\ a >= start_of_page
        /\ a - start_of_page < count
        /\ file_position + (a - start_of_page) < elf.file_size
        /\ start_of_page .. a \subseteq DOMAIN mapped}

after_read(count) ==
    [a \in DOMAIN mapped |-> IF a \in Readable(count)
                             THEN file_position + (a - start_of_page)
                             ELSE mapped[a]]

\* A count below zero stands for one beyond the end of every file.
read_count == IF bytes_to_read >= 0 THEN bytes_to_read ELSE elf.file_size + 1

\* Seeded fault: every page of a segment is counted as its last one.
fragment_of_page_always == page_size - (segment.p_memsz % page_size)

\* Seeded fault: the remainder is not taken.
fragment_of_page_without_remainder ==
    IF page_size + offset_in_segment >= segment.p_memsz
    THEN page_size - segment.p_memsz
    ELSE 0

\* What the page adds to the internal fragmentation.
fragment_of_page == IF page_size + offset_in_segment >= segment.p_memsz
                    THEN page_size - (segment.p_memsz % page_size)
                    ELSE 0

\* Seeded fault: the page is not flagged.
handle_page_fault_without_flag ==
    /\ pc = "fault"
    /\ flag_may_be(0)
    /\ Matching # {}
    /\ Page_fault < MaxFaults
    /\ Page_fault' = Page_fault + 1
    /\ mem' = after_read(read_count)
    /\ Page_allocation' = Page_allocation + 1
    /\ Full_internal_fragmentation' = Full_internal_fragmentation + fragment_of_page
    /\ pc' = "retry"
    /\ UNCHANGED <<elf, fault_address, p_alloc>>

\* The page is unknown and belongs to a segment: map it and read it.
handle_page_fault ==
    /\ pc = "fault"
    /\ flag_may_be(0)
    /\ Matching # {}
    /\ Page_fault < MaxFaults
    /\ Page_fault' = Page_fault + 1
    /\ mem' = after_read(read_count)
    /\ p_alloc' = [n \in DOMAIN p_alloc |-> IF n = ind_of_page THEN 1 ELSE p_alloc[n]]
    /\ Page_allocation' = Page_allocation + 1
    /\ Full_internal_fragmentation' = Full_internal_fragmentation + fragment_of_page
    /\ pc' = "retry"
    /\ UNCHANGED <<elf, fault_address>>

\* No segment matches: the handler counts the fault and returns.
handle_unknown_address ==
    /\ pc = "fault"
    /\ flag_may_be(0)
    /\ Matching = {}
    /\ Page_fault < MaxFaults
    /\ Page_fault' = Page_fault + 1
    /\ pc' = "retry"
    /\ UNCHANGED <<elf, fault_address, mem, p_alloc, Page_allocation, Full_internal_fragmentation>>

\* The page is flagged, so the handler does nothing.
handle_known_page ==
    /\ pc = "fault"
    /\ flag_may_be(1)
    /\ pc' = "retry"
    /\ UNCHANGED <<elf, fault_address, mem, p_alloc, counters>>

\* mmap, lseek or read fails and the handler exits.  read also fails where the
\* kernel takes a count below zero for an error.
handler_exits ==
    /\ pc = "fault"
    /\ flag_may_be(0)
    /\ Page_fault < MaxFaults
    /\ Page_fault' = Page_fault + 1
    /\ pc' = "exited"
    /\ UNCHANGED <<elf, fault_address, mem, p_alloc, Page_allocation, Full_internal_fragmentation>>

\* Reading p_alloc beyond its end faults with SIGSEGV blocked.
handler_killed ==
    /\ pc = "fault"
    /\ ind_of_page \notin DOMAIN p_alloc
    /\ pc' = "killed"
    /\ UNCHANGED <<elf, fault_address, mem, p_alloc, counters>>

Handeling_segmentation_fault ==
    \/ handle_page_fault \/ handle_unknown_address \/ handle_known_page
    \/ handler_exits \/ handler_killed

\* The instruction that faulted is executed again.
retry ==
    /\ pc = "retry"
    /\ pc' = IF fault_address \in DOMAIN mem THEN "running" ELSE "fault"
    /\ UNCHANGED <<elf, fault_address, mem, p_alloc, counters>>

-----------------------------------------------------------------------------
Touched == Wild \cup UNION {elf.e_phdr[n].p_vaddr .. SegmentEnd(elf.e_phdr[n]) - 1 : n \in LoadHeaders}

Next ==
    \/ load_and_run_elf \/ load_fails
    \/ \E a \in Touched : program_access(a)
    \/ program_returns
    \/ Handeling_segmentation_fault
    \/ retry

Spec == Init /\ [][Next]_vars

-----------------------------------------------------------------------------
\* TypeOK: flags are 0 or 1, a mapped byte is a byte of the file or zero, and
\* the fragmentation never turns negative.
TypeOK ==
    /\ elf \in Layouts
    /\ pc \in {"load", "running", "fault", "retry", "exited", "killed", "returned"}
    /\ fault_address \in Nat
    /\ DOMAIN mem \subseteq Nat /\ Range(mem) \subseteq Nat \cup {zero_byte}
    /\ Range(p_alloc) \subseteq {0, 1}
    /\ Page_fault \in 0 .. MaxFaults
    /\ Page_allocation \in Nat
    /\ Full_internal_fragmentation \in Nat

\* What the ELF file says a byte of a segment is when the program starts.
FileImage(a, ph) ==
    IF a - ph.p_vaddr < ph.p_filesz THEN ph.p_offset + (a - ph.p_vaddr) ELSE zero_byte

PageStart(a) == a - (a % page_size)

\* The page of a begins inside the segment's part of the file, or right behind.
FromFilePage(a, ph) ==
    ph.p_vaddr <= PageStart(a) /\ PageStart(a) - ph.p_vaddr <= ph.p_filesz

\* MemoryImage: a mapped byte of a segment holds what the ELF file says, its
\* file byte or zero, in whatever order the pages were faulted in, if its page
\* does not begin before the segment or behind its part of the file (the mmap
\* and read of the fault handler).
MemoryImage ==
    \A n \in LoadHeaders : \A a \in DOMAIN mem :
        LET ph == elf.e_phdr[n] IN
        InSegment(a, ph) /\ FromFilePage(a, ph) => mem[a] = FileImage(a, ph)

\* FaultResolved: when the handler returns for an address of a segment, behind
\* the start of a page of that segment, the page is there and the instruction
\* succeeds.
FaultResolved ==
    pc = "retry" /\ (\E n \in LoadHeaders : /\ InSegment(fault_address, elf.e_phdr[n])
                                            /\ InSegment(start_of_page, elf.e_phdr[n]))
        => fault_address \in DOMAIN mem

\* SegmentFaultResolved: the handler loads the segment that holds the fault
\* address, as its comment says.
SegmentFaultResolved ==
    pc = "retry" /\ (\E n \in LoadHeaders : InSegment(fault_address, elf.e_phdr[n]))
        => fault_address \in DOMAIN mem

\* CountersAgree: while the program runs, every fault counted was an
\* allocation and every allocation mapped a page of its own, flagged in p_alloc.
CountersAgree ==
    pc = "running" =>
        /\ Page_fault = Page_allocation
        /\ Cardinality(DOMAIN mem) = page_size * Page_allocation
        /\ DOMAIN mem = UNION {Page(n * page_size) : n \in {m \in DOMAIN p_alloc : p_alloc[m] = 1}}

\* FlagInBounds: for every address of a segment the handler looks at a flag
\* that load_and_run_elf allocated.
FlagInBounds ==
    pc = "fault" /\ (\E n \in LoadHeaders : InSegment(fault_address, elf.e_phdr[n]))
        => ind_of_page \in DOMAIN p_alloc

\* The last page of a segment that starts on a page boundary.
LastPage(ph) == SegmentEnd(ph) - 1 - ((SegmentEnd(ph) - 1) % page_size)

\* The bytes of the last page that lie behind the segment.
UnusedBytes(ph) == LastPage(ph) + page_size - SegmentEnd(ph)

\* What the last page of a segment adds to the fragmentation: the rest of the
\* division is 0 for a segment that fills its pages, and a whole page is counted.
CountedBytes(ph) == IF UnusedBytes(ph) = 0 THEN page_size ELSE UnusedBytes(ph)

LoadedLast == {n \in LoadHeaders : /\ elf.e_phdr[n].p_memsz > 0
                                   /\ LastPage(elf.e_phdr[n]) \in DOMAIN mem}

\* FragmentationCounted: if all segments start on a page boundary, the total is
\* the unused part of the last page of each segment whose last page was touched,
\* or a page where nothing is unused, each counted once, whatever the order of
\* the faults.
FragmentationCounted ==
    LET counted == [n \in LoadHeaders |-> CountedBytes(elf.e_phdr[n])] IN
    (\A n \in LoadHeaders : elf.e_phdr[n].p_vaddr % page_size = 0) =>
    Full_internal_fragmentation = MapThenSumSet(LAMBDA n : counted[n], LoadedLast)
=============================================================================
