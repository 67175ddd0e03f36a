--------------------------- MODULE LoadersProofs ---------------------------
(***************************************************************************)
(* Both loaders for every set of ELF files and every page size.            *)
(***************************************************************************)
EXTENDS Loaders, FiniteSetLemmas

\* The fields of a file and of its headers.
LEMMA FileFields ==
    ASSUME NEW file \in Layouts
    PROVE  /\ file.e_phdr \in Seq(ProgramHeader) /\ file.e_entry \in Nat /\ file.file_size \in Nat
           /\ \A n \in DOMAIN file.e_phdr : file.e_phdr[n] \in ProgramHeader
           /\ DOMAIN file.e_phdr = 1 .. Len(file.e_phdr) /\ Len(file.e_phdr) \in Nat
BY LayoutAssumption

-----------------------------------------------------------------------------
(* The eager loader.                                                       *)

NoEntry == \A n \in DOMAIN elf.e_phdr : ~ Eager!has_entry_point(elf.e_phdr[n])

Found == {"mmap", "read", "call", "returned", "crashed"}

\* While it scans, the loader has passed only headers without the entry point;
\* then the header read last has it or none has.
ScanInv ==
    /\ elf \in Layouts
    /\ n1 \in 0 .. Len(elf.e_phdr)
    /\ phdr \in ProgramHeader \cup {Eager!Garbage}
    /\ phdr # Eager!Garbage => \E n \in DOMAIN elf.e_phdr : phdr = elf.e_phdr[n]
    /\ eager_pc \in Found \cup {"open", "scan", "check", "exited", "not_found", "undefined"}
    /\ eager_pc = "open" => n1 = 0
    /\ eager_pc = "scan" => \A n \in 1 .. n1 : ~ Eager!has_entry_point(elf.e_phdr[n])
    /\ eager_pc = "check" => Eager!has_entry_point(phdr) \/ NoEntry
    /\ eager_pc = "not_found" => NoEntry
    /\ eager_pc \in Found => Eager!has_entry_point(phdr)

LEMMA ScanInvInit == LoadersInit => ScanInv
<1> SUFFICES ASSUME LoadersInit PROVE ScanInv
  OBVIOUS
<1>1. elf \in Layouts /\ eager_pc = "open" /\ n1 = 0 /\ phdr = Eager!Garbage
  BY DEF LoadersInit, Init, Eager!Init
<1>2. Len(elf.e_phdr) \in Nat
  BY <1>1, FileFields
<1> QED  BY <1>1, <1>2 DEF ScanInv, Found

LEMMA ScanInvStep == ScanInv /\ [LoadersNext]_<<eager, vars>> => ScanInv'
<1> SUFFICES ASSUME ScanInv, [LoadersNext]_<<eager, vars>> PROVE ScanInv'
  OBVIOUS
<1> USE DEF ScanInv
<1>0. /\ \A n \in DOMAIN elf.e_phdr : elf.e_phdr[n] \in ProgramHeader
      /\ DOMAIN elf.e_phdr = 1 .. Len(elf.e_phdr) /\ Len(elf.e_phdr) \in Nat
  BY FileFields
<1>1. CASE Eager!open
  BY <1>1 DEF Eager!open, Found, NoEntry, Eager!has_entry_point
<1>2. CASE Eager!fails
  BY <1>2 DEF Eager!fails, Found
<1>3. CASE Eager!scan
  <2>1. /\ elf' = elf /\ n1 \in 0 .. Len(elf.e_phdr) - 1
        /\ phdr' = elf.e_phdr[n1 + 1] /\ n1 + 1 \in DOMAIN elf.e_phdr
    BY <1>0, <1>3 DEF Eager!scan, Eager!headers
  <2>2. CASE Eager!has_entry_point(phdr')
    BY <1>0, <1>3, <2>1, <2>2 DEF Eager!scan, Found, Eager!has_entry_point
  <2>3. CASE ~ Eager!has_entry_point(phdr')
    <3>1. n1' = n1 + 1 /\ eager_pc' = "scan" /\ eager_pc = "scan"
      BY <1>3, <2>3 DEF Eager!scan
    <3>2. \A n \in 1 .. n1' : ~ Eager!has_entry_point(elf.e_phdr[n])
      BY <2>1, <2>3, <3>1
    <3> QED  BY <1>0, <2>1, <3>1, <3>2 DEF Found, Eager!has_entry_point
  <2> QED  BY <2>2, <2>3
<1>4. CASE Eager!scan_done
  <2>1. NoEntry
    BY <1>0, <1>4 DEF Eager!scan_done, Eager!headers, NoEntry
  <2> QED  BY <1>4, <2>1 DEF Eager!scan_done, Found, NoEntry, Eager!has_entry_point
<1>5. CASE Eager!check
  <2>1. ~ Eager!has_entry_point(Eager!Garbage)
    BY DEF Eager!has_entry_point, Eager!Garbage
  <2>2. CASE phdr # Eager!Garbage
    BY <1>5, <2>2 DEF Eager!check, Found, NoEntry, Eager!has_entry_point
  <2>3. CASE phdr = Eager!Garbage
    BY <1>5, <2>1, <2>3 DEF Eager!check, Found, NoEntry, Eager!has_entry_point
  <2> QED  BY <2>2, <2>3
<1>6. CASE Eager!mmap
  BY <1>6 DEF Eager!mmap, Found, Eager!has_entry_point
<1>7. CASE Eager!read
  BY <1>7 DEF Eager!read, Found, Eager!has_entry_point
<1>8. CASE Eager!call
  BY <1>8 DEF Eager!call, Found, Eager!has_entry_point
<1>9. CASE elf' = elf /\ UNCHANGED eager
  BY <1>9 DEF eager, Found, NoEntry, Eager!has_entry_point
<1>10. Next => elf' = elf
  BY DEF Next, load_and_run_elf, load_fails, program_access, program_returns, retry,
         Handeling_segmentation_fault, handle_page_fault, handle_unknown_address,
         handle_known_page, handler_exits, handler_killed
<1> QED
  BY <1>1, <1>2, <1>3, <1>4, <1>5, <1>6, <1>7, <1>8, <1>9, <1>10
     DEF LoadersNext, Eager!Next, vars

\* The eager loader gives up exactly on the files without an entry point in a
\* loadable segment, for every file: the loop over the headers and the test
\* behind it agree.
THEOREM EntryCorrect == LoadersSpec => []EntryFound
<1>1. ScanInv => EntryFound
  BY DEF ScanInv, EntryFound, Eager!NotFoundMeansNone, Found, NoEntry
<1> QED
  BY <1>1, ScanInvInit, ScanInvStep, PTL DEF LoadersSpec

Copying == {"open", "scan", "check", "mmap", "read"}

\* Fresh memory is zero, and it stays so until the segment is read.
CopyInv ==
    /\ eager_pc \in Copying => read_ok = FALSE
    /\ eager_pc = "read" => \A i \in DOMAIN mem_allo : i \in Nat /\ mem_allo[i] = zero_byte
    /\ EagerImage

LEMMA CopyInvInit == LoadersInit => CopyInv
BY DEF LoadersInit, Eager!Init, CopyInv, EagerImage, Eager!SegmentImage, Copying

LEMMA CopyInvStep == ScanInv /\ CopyInv /\ [LoadersNext]_<<eager, vars>> => CopyInv'
<1> SUFFICES ASSUME ScanInv, CopyInv, [LoadersNext]_<<eager, vars>> PROVE CopyInv'
  OBVIOUS
<1> USE DEF CopyInv, EagerImage, Eager!SegmentImage, Copying
<1>1. CASE Eager!mmap
  <2>1. page_size * ((phdr.p_memsz + page_size - 1) \div page_size) - 1 \in Int
    <3>1. phdr \in ProgramHeader
      BY <1>1 DEF ScanInv, Eager!mmap, Found, Eager!has_entry_point, Eager!Garbage
    <3> QED  BY <3>1, PageAssumption, SMTT(30) DEF ProgramHeader
  <2>2. \A i \in DOMAIN mem_allo' : i \in Nat /\ mem_allo'[i] = zero_byte
    BY <1>1, <2>1 DEF Eager!mmap
  <2> QED  BY <1>1, <2>2 DEF Eager!mmap
<1>2. CASE Eager!read
  <2>1. CASE mem_allo' = Eager!copied /\ read_ok' = TRUE
    <3>1. PICK n \in DOMAIN elf.e_phdr : phdr = elf.e_phdr[n]
      BY <1>2 DEF ScanInv, Eager!read, Found, Eager!has_entry_point, Eager!Garbage
    <3>2. /\ phdr.p_offset \in Nat /\ phdr.p_filesz \in Nat /\ elf.file_size \in Nat
          /\ phdr.p_offset + phdr.p_filesz <= elf.file_size
      BY <3>1, FileFields, WholeFileAssumption DEF ScanInv, ProgramHeader
    <3>3. DOMAIN mem_allo' = DOMAIN mem_allo
      BY <2>1 DEF Eager!copied
    <3>4. ASSUME NEW i \in DOMAIN mem_allo
          PROVE  mem_allo'[i] = IF i < phdr.p_filesz THEN phdr.p_offset + i ELSE zero_byte
      BY <1>2, <2>1, <3>2, <3>4 DEF Eager!copied, Eager!read, Eager!bytes_to_copy
    <3> QED  BY <1>2, <3>3, <3>4 DEF Eager!read
  <2>2. CASE UNCHANGED <<mem_allo, read_ok>>
    BY <1>2, <2>2 DEF Eager!read
  <2> QED  BY <1>2, <2>1, <2>2 DEF Eager!read
<1>3. CASE eager_pc' # "read" /\ eager_pc' # "call" /\ eager_pc # "call" /\ read_ok' = read_ok
           /\ (eager_pc' \in Copying => eager_pc \in Copying)
  BY <1>3
<1>4. CASE Eager!call
  BY <1>4 DEF Eager!call
<1>5. CASE elf' = elf /\ UNCHANGED eager
  BY <1>5 DEF eager
<1>6. Eager!open \/ Eager!fails \/ Eager!scan \/ Eager!scan_done \/ Eager!check
        => /\ eager_pc' # "read" /\ eager_pc' # "call" /\ eager_pc # "call" /\ read_ok' = read_ok
           /\ (eager_pc' \in Copying => eager_pc \in Copying)
  BY DEF Eager!open, Eager!fails, Eager!scan, Eager!scan_done, Eager!check
<1>7. Next => elf' = elf
  BY DEF Next, load_and_run_elf, load_fails, program_access, program_returns, retry,
         Handeling_segmentation_fault, handle_page_fault, handle_unknown_address,
         handle_known_page, handler_exits, handler_killed
<1> QED
  BY <1>1, <1>2, <1>3, <1>4, <1>5, <1>6, <1>7 DEF LoadersNext, Eager!Next, vars

\* When the eager loader calls the entry point in memory that it could read, its
\* segment is as the ELF file says, for every file and page size.
THEOREM EagerImageCorrect == LoadersSpec => []EagerImage
<1>1. CopyInv => EagerImage
  BY DEF CopyInv
<1> QED
  BY <1>1, ScanInvInit, ScanInvStep, CopyInvInit, CopyInvStep, PTL DEF LoadersSpec

-----------------------------------------------------------------------------
(* The smart loader.                                                       *)

\* Pages: the start of a page is the greatest multiple of page_size not above an
\* address, and the page number grows with the address.
LEMMA PageOf ==
    ASSUME NEW a \in Nat
    PROVE  /\ a % page_size \in Nat /\ a % page_size < page_size
           /\ a - (a % page_size) \in Nat
           /\ a \div page_size \in Nat
           /\ a = page_size * (a \div page_size) + (a % page_size)
           /\ page_size * (a \div page_size) \in Nat
BY PageAssumption, SMTT(30)

LEMMA PageNumberMonotonic ==
    ASSUME NEW a \in Nat, NEW b \in Nat, a <= b
    PROVE  a \div page_size <= b \div page_size
<1> DEFINE q == a \div page_size
           r == b \div page_size
<1>1. /\ q \in Nat /\ r \in Nat /\ a % page_size \in Nat /\ b % page_size \in Nat
      /\ b % page_size < page_size
      /\ a = page_size * q + (a % page_size) /\ b = page_size * r + (b % page_size)
  BY PageOf
<1> HIDE DEF q, r
<1>2. SUFFICES ASSUME q > r PROVE FALSE
  BY <1>1 DEF q, r
<1>3. page_size * q >= page_size * (r + 1)
  BY <1>1, <1>2, PageAssumption, SMTT(30)
<1>4. page_size * (r + 1) = page_size * r + page_size
  BY <1>1, PageAssumption, SMTT(30)
<1>5. page_size * q \in Int /\ page_size * r \in Int /\ page_size \in Nat
  BY <1>1, PageAssumption
<1> QED
  BY <1>1, <1>3, <1>4, <1>5

LEMMA PageNumberOfStart ==
    ASSUME NEW a \in Nat
    PROVE  (a - (a % page_size)) \div page_size = a \div page_size
<1> DEFINE q == a \div page_size
<1>1. q \in Nat /\ a - (a % page_size) = page_size * q
  BY PageOf, PageAssumption
<1> HIDE DEF q
<1>2. (page_size * q) \div page_size = q
  BY <1>1, PageAssumption, SMTT(30)
<1> QED
  BY <1>1, <1>2 DEF q

\* max_add is the greatest end of a loadable segment.
LEMMA MaxAdd ==
    ASSUME elf \in Layouts
    PROVE  /\ LoadHeaders \subseteq 1 .. Len(elf.e_phdr) /\ IsFiniteSet(LoadHeaders)
           /\ max_add \in Nat
           /\ \A n \in LoadHeaders : SegmentEnd(elf.e_phdr[n]) \in Nat
                                     /\ SegmentEnd(elf.e_phdr[n]) <= max_add
<1>1. LoadHeaders \in SUBSET (1 .. Len(elf.e_phdr)) /\ Len(elf.e_phdr) \in Nat
  BY FileFields DEF LoadHeaders
<1>2. IsFiniteSet(LoadHeaders)
  <2>1. IsFiniteSet(1 .. Len(elf.e_phdr))
    BY <1>1, FS_Interval
  <2> QED  BY <1>1, <2>1, FS_Subset
<1>3. \A n \in LoadHeaders : SegmentEnd(elf.e_phdr[n]) \in Nat
  BY FileFields DEF LoadHeaders, SegmentEnd, ProgramHeader
<1> DEFINE f == [n \in LoadHeaders |-> SegmentEnd(elf.e_phdr[n])]
           ends == {0} \cup {SegmentEnd(elf.e_phdr[n]) : n \in LoadHeaders}
<1>4. \E m \in ends : \A e \in ends : m >= e
  <2>1. CASE LoadHeaders = {}
    <3>1. ends = {0}
      BY <2>1
    <3> QED  BY <3>1
  <2>2. CASE LoadHeaders # {}
    <3>1. f \in [LoadHeaders -> Int]
      BY <1>3
    <3>2. PICK n \in LoadHeaders : \A k \in LoadHeaders : f[n] >= f[k]
      BY <1>2, <2>2, <3>1, GreatestValue
    <3>3. \A k \in LoadHeaders : SegmentEnd(elf.e_phdr[n]) >= SegmentEnd(elf.e_phdr[k])
      BY <3>2
    <3>4. SegmentEnd(elf.e_phdr[n]) \in ends /\ SegmentEnd(elf.e_phdr[n]) >= 0
      BY <1>3
    <3> QED  BY <3>3, <3>4
  <2> QED  BY <2>1, <2>2
<1>5. max_add \in ends /\ \A e \in ends : max_add >= e
  <2> HIDE DEF ends
  <2>1. Max(ends) \in ends /\ \A e \in ends : Max(ends) >= e
    BY <1>4 DEF Max
  <2> QED  BY <2>1 DEF ends, max_add
<1>6. ends \subseteq Nat
  BY <1>3
<1>7. \A n \in LoadHeaders : SegmentEnd(elf.e_phdr[n]) \in ends
  OBVIOUS
<1> HIDE DEF ends, f
<1> QED
  BY <1>1, <1>2, <1>3, <1>5, <1>6, <1>7

LEMMA StartOfPage ==
    ASSUME fault_address \in Nat
    PROVE  /\ start_of_page \in Nat /\ start_of_page = ind_of_page * page_size
           /\ ind_of_page \in Nat
           /\ fault_address \in Page(start_of_page)
<1>1. ind_of_page = fault_address \div page_size /\ ind_of_page \in Nat
  BY PageNumberOfStart, PageOf DEF ind_of_page, start_of_page
<1>2. start_of_page = page_size * ind_of_page /\ start_of_page \in Nat
  BY <1>1, PageOf, PageAssumption DEF start_of_page
<1>3. page_size * ind_of_page = ind_of_page * page_size
  BY <1>1, PageAssumption
<1>4. start_of_page <= fault_address /\ fault_address <= start_of_page + page_size - 1
  BY PageOf, PageAssumption DEF start_of_page
<1>5. start_of_page + page_size - 1 \in Int
  BY <1>2, PageAssumption
<1> QED
  BY <1>1, <1>2, <1>3, <1>4, <1>5 DEF Page

\* The handler finds the flag of every page of a segment.
LEMMA FlagIndex ==
    ASSUME elf \in Layouts, fault_address \in Nat,
           NEW n \in LoadHeaders, InSegment(fault_address, elf.e_phdr[n])
    PROVE  ind_of_page \in 0 .. num_page - 1
<1>1. ind_of_page = fault_address \div page_size
  BY PageNumberOfStart DEF ind_of_page, start_of_page
<1>2. max_add \in Nat /\ fault_address <= max_add
  BY MaxAdd DEF InSegment
<1>3. /\ fault_address \div page_size \in Nat /\ max_add \div page_size \in Nat
      /\ fault_address \div page_size <= max_add \div page_size
  BY <1>2, PageOf, PageNumberMonotonic
<1> QED
  BY <1>1, <1>3 DEF num_page

Mapping == {"running", "fault", "retry", "killed"}

\* p_alloc has a flag for each page while the program runs, and a set flag means
\* that the page is mapped.
FlagInv ==
    /\ elf \in Layouts
    /\ fault_address \in Nat
    /\ pc \in Mapping \cup {"load", "exited", "returned"}
    /\ pc \in Mapping => DOMAIN p_alloc = 0 .. num_page - 1
    /\ \A n \in DOMAIN p_alloc : p_alloc[n] \in {0, 1}
                                 /\ (p_alloc[n] = 1 => Page(n * page_size) \subseteq DOMAIN mem)
    /\ FaultResolved

LEMMA FlagInvInit == LoadersInit => FlagInv
BY DEF LoadersInit, Init, FlagInv, Mapping, FaultResolved

\* What a page fault of a segment leaves: the page is mapped, the rest as before.
LEMMA PageMapped ==
    ASSUME FlagInv, handle_page_fault
    PROVE  /\ DOMAIN mem' = Page(start_of_page) \cup DOMAIN mem
           /\ fault_address \in Page(start_of_page)
           /\ start_of_page = ind_of_page * page_size
<1>1. DOMAIN mem' = Page(start_of_page) \cup DOMAIN mem
  BY DEF handle_page_fault, after_read, mapped
<1> QED
  BY <1>1, StartOfPage DEF FlagInv

LEMMA FlagInvStep == FlagInv /\ [LoadersNext]_<<eager, vars>> => FlagInv'
<1> SUFFICES ASSUME FlagInv, [LoadersNext]_<<eager, vars>> PROVE FlagInv'
  OBVIOUS
<1> USE DEF FlagInv, Mapping
<1>1. CASE load_and_run_elf
  <2>1. elf.e_entry \in Nat
    BY FileFields
  <2> QED  BY <1>1, <2>1 DEF load_and_run_elf, FaultResolved, num_page, max_add, LoadHeaders
<1>2. CASE load_fails
  BY <1>2 DEF load_fails, FaultResolved
<1>3. ASSUME NEW a \in Touched, program_access(a) PROVE FlagInv'
  <2>1. a \in Nat
    <3>1. \A n \in LoadHeaders : elf.e_phdr[n].p_vaddr \in Nat
      BY FileFields DEF LoadHeaders, ProgramHeader
    <3>2. \A n \in LoadHeaders : SegmentEnd(elf.e_phdr[n]) \in Nat
      BY MaxAdd
    <3>3. CASE a \in Wild
      BY <3>3, WildAssumption
    <3>4. CASE a \notin Wild
      <4>1. PICK n \in LoadHeaders : a \in elf.e_phdr[n].p_vaddr .. SegmentEnd(elf.e_phdr[n]) - 1
        BY <3>4 DEF Touched
      <4> QED  BY <3>1, <3>2, <4>1
    <3> QED  BY <3>3, <3>4
  <2> QED  BY <1>3, <2>1 DEF program_access, FaultResolved, num_page, max_add, LoadHeaders
<1>4. CASE program_returns
  BY <1>4 DEF program_returns, FaultResolved
<1>5. CASE handle_page_fault
  <2>1. /\ elf' = elf /\ fault_address' = fault_address /\ pc = "fault" /\ pc' = "retry"
        /\ p_alloc' = [n \in DOMAIN p_alloc |-> IF n = ind_of_page THEN 1 ELSE p_alloc[n]]
    BY <1>5 DEF handle_page_fault
  <2>2. fault_address' \in DOMAIN mem'
    BY <1>5, <2>1, PageMapped
  <2>3. ASSUME NEW n \in DOMAIN p_alloc'
        PROVE  p_alloc'[n] \in {0, 1} /\ (p_alloc'[n] = 1 => Page(n * page_size) \subseteq DOMAIN mem')
    BY <1>5, <2>1, <2>3, PageMapped
  <2>4. DOMAIN p_alloc' = 0 .. num_page' - 1
    BY <2>1 DEF num_page, max_add, LoadHeaders
  <2> QED  BY <2>1, <2>2, <2>3, <2>4 DEF FaultResolved, Page
<1>6. CASE handle_unknown_address
  <2>1. ASSUME NEW n \in LoadHeaders, InSegment(start_of_page, elf.e_phdr[n]) PROVE FALSE
    BY <1>6, <2>1 DEF handle_unknown_address, Matching, matches, LoadHeaders, InSegment
  <2> QED
    BY <1>6, <2>1
       DEF handle_unknown_address, FaultResolved, num_page, max_add, LoadHeaders,
           start_of_page, InSegment, SegmentEnd
<1>7. CASE handle_known_page
  <2>1. ASSUME NEW n \in LoadHeaders, InSegment(fault_address, elf.e_phdr[n])
        PROVE  fault_address \in DOMAIN mem
    <3>1. ind_of_page \in DOMAIN p_alloc
      BY <1>7, <2>1, FlagIndex DEF handle_known_page
    <3>2. p_alloc[ind_of_page] = 1
      BY <1>7, <3>1 DEF handle_known_page, flag_may_be
    <3>3. fault_address \in Page(ind_of_page * page_size)
      BY StartOfPage
    <3> QED  BY <3>1, <3>2, <3>3
  <2> QED
    BY <1>7, <2>1
       DEF handle_known_page, FaultResolved, num_page, max_add, LoadHeaders, InSegment, SegmentEnd
<1>8. CASE handler_exits
  BY <1>8 DEF handler_exits, FaultResolved
<1>9. CASE handler_killed
  BY <1>9 DEF handler_killed, FaultResolved, num_page, max_add, LoadHeaders
<1>10. CASE retry
  BY <1>10 DEF retry, FaultResolved, num_page, max_add, LoadHeaders
<1>11. CASE UNCHANGED vars
  BY <1>11 DEF vars, FaultResolved, num_page, max_add, LoadHeaders, start_of_page, InSegment, SegmentEnd
<1>12. UNCHANGED smart /\ elf' = elf => UNCHANGED vars
  BY DEF smart, vars
<1>13. Eager!Next => elf' = elf
  BY DEF Eager!Next, Eager!open, Eager!fails, Eager!scan, Eager!scan_done, Eager!check,
         Eager!mmap, Eager!read, Eager!call
<1> QED
  BY <1>1, <1>2, <1>3, <1>4, <1>5, <1>6, <1>7, <1>8, <1>9, <1>10, <1>11, <1>12, <1>13
     DEF LoadersNext, Next, Handeling_segmentation_fault, vars

\* For every address of a loadable segment the fault handler finds a flag that
\* load_and_run_elf has allocated, for every file and page size.
THEOREM FlagsCorrect == LoadersSpec => []FlagInBounds
<1>1. FlagInv => FlagInBounds
  <2> SUFFICES ASSUME FlagInv, pc = "fault",
                      NEW n \in LoadHeaders, InSegment(fault_address, elf.e_phdr[n])
               PROVE  ind_of_page \in DOMAIN p_alloc
    BY DEF FlagInBounds
  <2> QED  BY FlagIndex DEF FlagInv, Mapping
<1> QED
  BY <1>1, FlagInvInit, FlagInvStep, PTL DEF LoadersSpec

\* The handler resolves each fault in a page that begins inside a segment of the
\* faulting address, whether it maps the page or finds it flagged.
THEOREM FaultsResolved == LoadersSpec => []FaultResolved
<1>1. FlagInv => FaultResolved
  BY DEF FlagInv
<1> QED
  BY <1>1, FlagInvInit, FlagInvStep, PTL DEF LoadersSpec

-----------------------------------------------------------------------------
(* The counters of the smart loader.                                       *)

Flagged == {n \in DOMAIN p_alloc : p_alloc[n] = 1}

\* Memory is the flagged pages.  A fault is counted without an allocation only
\* for an address that no segment will ever resolve.
CountInv ==
    /\ Page_fault \in Nat /\ Page_allocation \in Nat
    /\ pc = "load" => mem = <<>> /\ Page_fault = 0 /\ Page_allocation = 0
    /\ pc \in Mapping =>
           /\ IsFiniteSet(DOMAIN mem)
           /\ Cardinality(DOMAIN mem) = page_size * Page_allocation
           /\ DOMAIN mem = UNION {Page(n * page_size) : n \in Flagged}
    /\ pc = "fault" => fault_address \notin DOMAIN mem
    /\ pc \in Mapping /\ Page_fault # Page_allocation =>
           pc # "running" /\ Matching = {} /\ fault_address \notin DOMAIN mem

LEMMA CountInvInit == LoadersInit => CountInv
BY DEF LoadersInit, Init, CountInv, Mapping

\* The page that is mapped was not mapped before and gets its flag.
LEMMA PageIsNew ==
    ASSUME FlagInv, CountInv, handle_page_fault
    PROVE  /\ ind_of_page \in DOMAIN p_alloc /\ ind_of_page \notin Flagged
           /\ Flagged' = Flagged \cup {ind_of_page}
           /\ Page(start_of_page) \cap DOMAIN mem = {}
<1>0. pc = "fault" /\ Matching # {} /\ fault_address \in Nat /\ elf \in Layouts
  BY DEF FlagInv, handle_page_fault
<1>1. ind_of_page \in DOMAIN p_alloc
  <2>1. PICK n \in DOMAIN elf.e_phdr : matches(elf.e_phdr[n])
    BY <1>0 DEF Matching
  <2>2. n \in LoadHeaders /\ start_of_page < SegmentEnd(elf.e_phdr[n])
    BY <2>1 DEF matches, LoadHeaders
  <2>3. start_of_page \in Nat /\ max_add \in Nat /\ start_of_page <= max_add
    BY <1>0, <2>2, MaxAdd, StartOfPage
  <2>4. /\ start_of_page \div page_size \in Nat /\ max_add \div page_size \in Nat
        /\ start_of_page \div page_size <= max_add \div page_size
    BY <2>3, PageOf, PageNumberMonotonic
  <2> QED  BY <1>0, <2>4 DEF ind_of_page, num_page, FlagInv, Mapping
<1>2. p_alloc[ind_of_page] = 0
  BY <1>1 DEF handle_page_fault, flag_may_be
<1>3. Flagged' = Flagged \cup {ind_of_page} /\ ind_of_page \notin Flagged
  BY <1>1, <1>2 DEF Flagged, handle_page_fault
<1>4. ASSUME NEW a \in Page(start_of_page), a \in DOMAIN mem PROVE FALSE
  <2>1. PICK n \in Flagged : a \in Page(n * page_size)
    BY <1>0, <1>4 DEF CountInv, Mapping
  <2>2. n \in Nat /\ ind_of_page \in Nat /\ n # ind_of_page /\ page_size \in Nat
    BY <1>0, <1>3, <2>1, PageAssumption, StartOfPage DEF Flagged, FlagInv, Mapping
  <2> DEFINE s == n * page_size
             t == ind_of_page * page_size
  <2>3. s \in Nat /\ t \in Nat
    BY <2>2, SMTT(30)
  <2>4. a \in Int /\ t <= a /\ a <= t + page_size - 1 /\ s <= a /\ a <= s + page_size - 1
    BY <1>0, <1>4, <2>1, <2>2, <2>3, StartOfPage DEF Page
  <2>5. n < ind_of_page => s + page_size <= t
    <3>1. SUFFICES ASSUME n < ind_of_page PROVE (n + 1) * page_size <= ind_of_page * page_size
      BY <2>2, SMTT(30)
    <3>2. ind_of_page - (n + 1) \in Nat
      BY <2>2, <3>1
    <3>3. (ind_of_page - (n + 1)) * page_size >= 0
      BY <2>2, <3>2, SMTT(30)
    <3> QED  BY <2>2, <3>3, SMTT(30)
  <2>6. ind_of_page < n => t + page_size <= s
    <3>1. SUFFICES ASSUME ind_of_page < n PROVE (ind_of_page + 1) * page_size <= n * page_size
      BY <2>2, SMTT(30)
    <3>2. n - (ind_of_page + 1) \in Nat
      BY <2>2, <3>1
    <3>3. (n - (ind_of_page + 1)) * page_size >= 0
      BY <2>2, <3>2, SMTT(30)
    <3> QED  BY <2>2, <3>3, SMTT(30)
  <2> HIDE DEF s, t
  <2> QED  BY <2>2, <2>3, <2>4, <2>5, <2>6
<1> QED
  BY <1>1, <1>3, <1>4

LEMMA CountInvStep == FlagInv /\ CountInv /\ [LoadersNext]_<<eager, vars>> => CountInv'
<1> SUFFICES ASSUME FlagInv, CountInv, [LoadersNext]_<<eager, vars>> PROVE CountInv'
  OBVIOUS
<1> USE DEF CountInv, Mapping
<1>1. CASE load_and_run_elf
  <2>1. pc = "load" /\ pc' = "fault" /\ mem' = <<>> /\ UNCHANGED counters
        /\ \A n \in DOMAIN p_alloc' : p_alloc'[n] = 0
    BY <1>1 DEF load_and_run_elf
  <2>2. DOMAIN mem' = {} /\ Flagged' = {}
    BY <2>1 DEF Flagged
  <2>3. IsFiniteSet(DOMAIN mem') /\ Cardinality(DOMAIN mem') = 0
    BY <2>2, FS_EmptySet
  <2>4. page_size * 0 = 0
    BY PageAssumption
  <2> QED  BY <2>1, <2>2, <2>3, <2>4 DEF counters
<1>2. CASE load_fails
  BY <1>2 DEF load_fails, counters
<1>3. ASSUME NEW a \in Touched, program_access(a) PROVE CountInv'
  BY <1>3 DEF program_access, counters, Flagged
<1>4. CASE program_returns
  BY <1>4 DEF program_returns, counters
<1>5. CASE handle_page_fault
  <2>1. /\ pc = "fault" /\ pc' = "retry" /\ Matching # {}
        /\ Page_fault' = Page_fault + 1 /\ Page_allocation' = Page_allocation + 1
    BY <1>5 DEF handle_page_fault
  <2>2. Page_fault = Page_allocation
    BY <2>1
  <2>3. DOMAIN mem' = Page(start_of_page) \cup DOMAIN mem /\ start_of_page \in Nat
        /\ start_of_page = ind_of_page * page_size
    BY <1>5, PageMapped, StartOfPage DEF FlagInv
  <2>4. IsFiniteSet(Page(start_of_page)) /\ Cardinality(Page(start_of_page)) = page_size
    <3>1. page_size \in Nat \ {0} /\ start_of_page + page_size - 1 \in Int
          /\ ~ (start_of_page > start_of_page + page_size - 1)
      BY <2>3, PageAssumption
    <3> QED  BY <2>3, <3>1, FS_Interval DEF Page
  <2>5. Page(start_of_page) \cap DOMAIN mem = {} /\ Flagged' = Flagged \cup {ind_of_page}
    BY <1>5, PageIsNew
  <2>6. IsFiniteSet(DOMAIN mem') /\ Cardinality(DOMAIN mem') = page_size + page_size * Page_allocation
    <3> DEFINE P == Page(start_of_page)
               M == DOMAIN mem
    <3>1. IsFiniteSet(P) /\ IsFiniteSet(M) /\ Cardinality(P \cap M) = 0
      BY <2>1, <2>4, <2>5, FS_EmptySet
    <3>2. Cardinality(M) = page_size * Page_allocation
      BY <2>1
    <3>3. /\ IsFiniteSet(P \cup M)
          /\ Cardinality(P \cup M) = Cardinality(P) + Cardinality(M) - Cardinality(P \cap M)
      BY <3>1, FS_Union
    <3>4. DOMAIN mem' = P \cup M /\ Cardinality(P) = page_size
      BY <2>3, <2>4
    <3>5. page_size * Page_allocation \in Int /\ page_size \in Int
      BY PageAssumption
    <3> HIDE DEF P, M
    <3> QED  BY <3>1, <3>2, <3>3, <3>4, <3>5
  <2>7. page_size + page_size * Page_allocation = page_size * (Page_allocation + 1)
    BY PageAssumption, SMTT(30)
  <2>8. DOMAIN mem' = UNION {Page(n * page_size) : n \in Flagged'}
    BY <2>1, <2>3, <2>5
  <2>9. UNION {Page(n * page_size) : n \in Flagged'} = (UNION {Page(n * page_size) : n \in Flagged})'
    BY DEF Page
  <2> QED  BY <2>1, <2>2, <2>6, <2>7, <2>8, <2>9
<1>6. CASE handle_unknown_address
  <2>1. pc = "fault" /\ pc' = "retry" /\ Matching = {} /\ Matching' = Matching /\ Flagged' = Flagged
    BY <1>6 DEF handle_unknown_address, Matching, matches, SegmentEnd, start_of_page, Flagged
  <2> QED  BY <1>6, <2>1 DEF handle_unknown_address, Page
<1>7. CASE handle_known_page
  <2>1. pc = "fault" /\ pc' = "retry" /\ Matching' = Matching /\ Flagged' = Flagged
    BY <1>7 DEF handle_known_page, Matching, matches, SegmentEnd, start_of_page, Flagged
  <2> QED  BY <1>7, <2>1 DEF handle_known_page, counters, Page
<1>8. CASE handler_exits
  BY <1>8 DEF handler_exits
<1>9. CASE handler_killed
  <2>1. pc = "fault" /\ pc' = "killed" /\ Matching' = Matching /\ Flagged' = Flagged
    BY <1>9 DEF handler_killed, Matching, matches, SegmentEnd, start_of_page, Flagged
  <2> QED  BY <1>9, <2>1 DEF handler_killed, counters, Page
<1>10. CASE retry
  <2>1. pc = "retry" /\ Matching' = Matching /\ Flagged' = Flagged
    BY <1>10 DEF retry, Matching, matches, SegmentEnd, start_of_page, Flagged
  <2> QED  BY <1>10, <2>1 DEF retry, counters, Page
<1>11. CASE UNCHANGED vars
  <2>1. Matching' = Matching /\ Flagged' = Flagged
    BY <1>11 DEF vars, Matching, matches, SegmentEnd, start_of_page, Flagged
  <2> QED  BY <1>11, <2>1 DEF vars, counters, Page
<1>12. UNCHANGED smart /\ elf' = elf => UNCHANGED vars
  BY DEF smart, vars
<1>13. Eager!Next => elf' = elf
  BY DEF Eager!Next, Eager!open, Eager!fails, Eager!scan, Eager!scan_done, Eager!check,
         Eager!mmap, Eager!read, Eager!call
<1> QED
  BY <1>1, <1>2, <1>3, <1>4, <1>5, <1>6, <1>7, <1>8, <1>9, <1>10, <1>11, <1>12, <1>13
     DEF LoadersNext, Next, Handeling_segmentation_fault, vars

\* While the program runs, its counted faults are its allocated pages, and its
\* memory is exactly those pages, each counted once, for every file and page size.
THEOREM CountersCorrect == LoadersSpec => []CountersAgree
<1>1. CountInv => CountersAgree
  BY DEF CountInv, CountersAgree, Mapping, Flagged
<1> QED
  BY <1>1, FlagInvInit, FlagInvStep, CountInvInit, CountInvStep, PTL DEF LoadersSpec

-----------------------------------------------------------------------------
(* What the pages hold.                                                    *)

\* The pages from s on, and the page at s.
LEMMA PageStartOf ==
    ASSUME NEW a \in Nat, NEW s \in Nat, s % page_size = 0, s <= a
    PROVE  /\ s <= PageStart(a) /\ PageStart(a) <= a
           /\ a < s + page_size => PageStart(a) = s
<1> DEFINE q == a \div page_size
           r == s \div page_size
<1>1. /\ q \in Nat /\ r \in Nat /\ PageStart(a) = page_size * q /\ s = page_size * r
      /\ a = page_size * q + (a % page_size) /\ a % page_size \in 0 .. page_size - 1
      /\ page_size * q \in Nat /\ page_size * r \in Nat
  BY PageOf, PageAssumption DEF PageStart
<1>2. r <= q
  BY PageNumberMonotonic
<1> HIDE DEF q, r
<1>3. page_size * r <= page_size * q
  BY <1>1, <1>2, PageAssumption, SMTT(30)
<1>4. CASE q = r
  BY <1>1, <1>4, PageAssumption
<1>5. CASE q >= r + 1
  <2>1. page_size * q >= page_size * (r + 1)
    BY <1>1, <1>5, PageAssumption, SMTT(30)
  <2>2. page_size * (r + 1) = page_size * r + page_size
    BY <1>1, PageAssumption, SMTT(30)
  <2> QED  BY <1>1, <1>3, <2>1, <2>2, PageAssumption
<1> QED
  BY <1>1, <1>2, <1>4, <1>5

\* The start of the page lies on a page boundary, in the segment that the
\* handler takes.
LEMMA SegmentFound ==
    ASSUME FlagInv, Matching # {}
    PROVE  /\ Min(Matching) \in LoadHeaders /\ segment \in ProgramHeader
           /\ start_of_page \in Nat /\ start_of_page % page_size = 0
           /\ InSegment(start_of_page, segment)
<1>1. Matching \in SUBSET Nat /\ IsFiniteSet(Matching) /\ Matching \subseteq LoadHeaders
  <2>1. Matching \subseteq LoadHeaders
    BY DEF Matching, matches, LoadHeaders
  <2> QED  BY <2>1, MaxAdd, FS_Subset DEF FlagInv
<1>2. Min(Matching) \in Matching
  BY <1>1, LeastMember
<1>3. start_of_page \in Nat /\ start_of_page = ind_of_page * page_size /\ ind_of_page \in Nat
  BY StartOfPage DEF FlagInv
<1>4. (ind_of_page * page_size) % page_size = 0
  BY <1>3, PageAssumption, SMTT(30)
<1>5. segment \in ProgramHeader
  BY <1>1, <1>2, FileFields DEF FlagInv, segment, LoadHeaders
<1> QED
  BY <1>1, <1>2, <1>3, <1>4, <1>5 DEF Matching, matches, InSegment, segment

\* Two loadable segments of a file lie apart, as the assumption has it.
LEMMA SegmentsApart ==
    ASSUME elf \in Layouts, NEW m \in LoadHeaders, NEW n \in LoadHeaders, m # n,
           elf.e_phdr[m].p_vaddr <= elf.e_phdr[n].p_vaddr
    PROVE  /\ SegmentEnd(elf.e_phdr[m]) <= elf.e_phdr[n].p_vaddr
           /\ \A a \in Nat : InSegment(a, elf.e_phdr[m]) /\ a % page_size = 0
                  => a - elf.e_phdr[m].p_vaddr <= elf.e_phdr[m].p_filesz
<1> DEFINE low == elf.e_phdr[m]
<1>1. /\ SegmentEnd(low) <= elf.e_phdr[n].p_vaddr
      /\ \A a \in low.p_vaddr .. low.p_vaddr + low.p_memsz - 1 :
             a % page_size = 0 => a - low.p_vaddr <= low.p_filesz
  BY PlacementAssumption DEF LoadHeaders, SegmentEnd
<1>2. low.p_vaddr \in Nat /\ low.p_memsz \in Nat
  BY FileFields DEF LoadHeaders, ProgramHeader
<1> HIDE DEF low
<1>3. ASSUME NEW a \in Nat, InSegment(a, low), a % page_size = 0
      PROVE  a - low.p_vaddr <= low.p_filesz
  <2>1. a \in low.p_vaddr .. low.p_vaddr + low.p_memsz - 1
    BY <1>2, <1>3 DEF InSegment, SegmentEnd
  <2> QED  BY <1>1, <1>3, <2>1
<1> QED
  BY <1>1, <1>3 DEF low

ImageInv == DOMAIN mem \subseteq Nat /\ MemoryImage

\* A page fault changes no byte that MemoryImage speaks of, and the bytes of its
\* own page that it speaks of are those of the segment that was taken.
LEMMA ImageOfPage ==
    ASSUME FlagInv, ImageInv, Matching # {},
           NEW n \in LoadHeaders, NEW a \in Page(start_of_page) \cup DOMAIN mem,
           InSegment(a, elf.e_phdr[n]), FromFilePage(a, elf.e_phdr[n])
    PROVE  after_read(read_count)[a] = FileImage(a, elf.e_phdr[n])
<1> DEFINE s  == start_of_page
           k  == Min(Matching)
           ph == elf.e_phdr[n]
<1>1. /\ elf \in Layouts /\ k \in LoadHeaders /\ segment = elf.e_phdr[k]
      /\ s \in Nat /\ s % page_size = 0 /\ InSegment(s, segment)
  BY SegmentFound DEF FlagInv, segment
<1>2. /\ page_size \in Nat /\ page_size > 0 /\ elf.file_size \in Nat
      /\ ph.p_vaddr \in Nat /\ ph.p_memsz \in Nat /\ ph.p_filesz \in Nat /\ ph.p_offset \in Nat
      /\ segment.p_vaddr \in Nat /\ segment.p_memsz \in Nat /\ segment.p_filesz \in Nat
      /\ segment.p_offset \in Nat
      /\ segment.p_offset + segment.p_filesz <= elf.file_size
  <2>1. ph \in ProgramHeader /\ segment \in ProgramHeader /\ elf.file_size \in Nat
    BY <1>1, FileFields DEF LoadHeaders
  <2>2. segment.p_offset + segment.p_filesz <= elf.file_size
    BY <1>1, WholeFileAssumption DEF LoadHeaders
  <2> QED  BY <2>1, <2>2, PageAssumption DEF ProgramHeader
<1>3. a \in Nat
  BY <1>1, <1>2 DEF ImageInv, Page
<1>4. a \in Page(s) <=> s <= a /\ a < s + page_size
  BY <1>1, <1>2, <1>3 DEF Page
<1>5. s <= a => /\ s <= PageStart(a) /\ PageStart(a) <= a
                /\ a < s + page_size => PageStart(a) = s
  BY <1>1, <1>3, PageStartOf
<1>6. PageStart(a) \in Nat
  BY <1>3, PageOf DEF PageStart
<1>7. a \notin Page(s) /\ a \notin Readable(read_count) =>
          after_read(read_count)[a] = FileImage(a, ph)
  BY DEF after_read, mapped, ImageInv, MemoryImage
<1>8. offset_in_segment = s - segment.p_vaddr /\ offset_in_segment \in Nat
  BY <1>1, <1>2 DEF offset_in_segment, InSegment
\* The page begins behind the segment's part of the file.
<1>9. CASE offset_in_segment > segment.p_filesz
  <2>1. ~ (s <= a)
    <3>1. SUFFICES ASSUME s <= a PROVE FALSE
      OBVIOUS
    <3>2. CASE n = k
      BY <1>1, <1>2, <1>3, <1>5, <1>6, <1>8, <1>9, <3>1, <3>2 DEF FromFilePage
    <3>3. CASE n # k /\ segment.p_vaddr <= ph.p_vaddr
      <4>1. s - segment.p_vaddr <= segment.p_filesz
        BY <1>1, <3>3, SegmentsApart
      <4> QED  BY <1>2, <1>8, <1>9, <4>1
    <3>4. CASE n # k /\ ph.p_vaddr <= segment.p_vaddr
      <4>1. SegmentEnd(ph) <= segment.p_vaddr
        BY <1>1, <3>4, SegmentsApart
      <4> QED  BY <1>1, <1>2, <1>3, <3>1, <4>1 DEF InSegment, SegmentEnd
    <3> QED  BY <1>2, <3>2, <3>3, <3>4
  <2>2. a \notin Page(s) /\ a \notin Readable(read_count)
    BY <1>1, <1>3, <1>4, <2>1 DEF Readable
  <2> QED  BY <1>7, <2>2
\* At most the bytes of the page are read.
<1>10. CASE offset_in_segment <= segment.p_filesz
  <2>1. /\ read_count \in Nat /\ read_count <= page_size
        /\ read_count <= segment.p_filesz - offset_in_segment
        /\ read_count = page_size \/ read_count = segment.p_filesz - offset_in_segment
    BY <1>2, <1>8, <1>10 DEF read_count, bytes_to_read
  <2>2. CASE a \notin Page(s)
    <3>1. a \notin Readable(read_count)
      BY <1>1, <1>2, <1>3, <1>4, <2>1, <2>2 DEF Readable
    <3> QED  BY <1>7, <2>2, <3>1
  <2>3. CASE a \in Page(s)
    <3>1. PageStart(a) = s /\ s <= a /\ a < s + page_size
      BY <1>4, <1>5, <2>3
    <3>2. n = k
      <4>1. SUFFICES ASSUME n # k PROVE FALSE
        OBVIOUS
      <4>2. ph.p_vaddr <= s /\ s < SegmentEnd(ph)
        BY <1>1, <1>2, <1>3, <3>1 DEF FromFilePage, InSegment, SegmentEnd
      <4>3. ph.p_vaddr <= segment.p_vaddr => SegmentEnd(ph) <= segment.p_vaddr
        BY <1>1, <4>1, SegmentsApart
      <4>4. segment.p_vaddr <= ph.p_vaddr => SegmentEnd(segment) <= ph.p_vaddr
        BY <1>1, <4>1, SegmentsApart
      <4> QED  BY <1>1, <1>2, <4>2, <4>3, <4>4 DEF InSegment, SegmentEnd
    <3>3. s .. a \subseteq DOMAIN mapped /\ a \in DOMAIN mapped
      BY <1>1, <1>2, <1>3, <3>1, <2>3 DEF mapped, Page
    <3>4. /\ file_position + (a - s) = segment.p_offset + (a - segment.p_vaddr)
          /\ a - s < read_count <=> a - segment.p_vaddr < segment.p_filesz
      BY <1>1, <1>2, <1>3, <1>8, <2>1, <3>1 DEF file_position
    <3>5. a - s < read_count => file_position + (a - s) < elf.file_size
      BY <1>1, <1>2, <1>3, <1>8, <2>1, <3>1 DEF file_position
    <3>6. a \in Readable(read_count) <=> a - s < read_count
      BY <3>1, <3>3, <3>5 DEF Readable
    <3>7. after_read(read_count)[a] = IF a - s < read_count
                                      THEN file_position + (a - s) ELSE zero_byte
      BY <2>3, <3>3, <3>6 DEF after_read, mapped
    <3> QED  BY <1>1, <3>2, <3>4, <3>7 DEF FileImage
  <2> QED  BY <2>2, <2>3
<1> QED
  BY <1>2, <1>8, <1>9, <1>10

LEMMA ImageInvInit == LoadersInit => ImageInv
BY DEF LoadersInit, Init, ImageInv, MemoryImage

LEMMA ImageInvStep == FlagInv /\ ImageInv /\ [LoadersNext]_<<eager, vars>> => ImageInv'
<1> SUFFICES ASSUME FlagInv, ImageInv, [LoadersNext]_<<eager, vars>> PROVE ImageInv'
  OBVIOUS
<1>1. CASE handle_page_fault
  <2>1. elf' = elf /\ mem' = after_read(read_count) /\ Matching # {}
    BY <1>1 DEF handle_page_fault
  <2>2. DOMAIN mem' = Page(start_of_page) \cup DOMAIN mem
    BY <1>1, PageMapped
  <2>3. Page(start_of_page) \subseteq Nat
    BY StartOfPage, PageAssumption DEF FlagInv, Page
  <2>4. ASSUME NEW n \in LoadHeaders, NEW a \in DOMAIN mem',
               InSegment(a, elf.e_phdr[n]), FromFilePage(a, elf.e_phdr[n])
        PROVE  mem'[a] = FileImage(a, elf.e_phdr[n])
    BY <2>1, <2>2, <2>4, ImageOfPage
  <2>5. MemoryImage'
    BY <2>1, <2>4
       DEF MemoryImage, LoadHeaders, InSegment, SegmentEnd, FromFilePage, PageStart, FileImage
  <2> QED  BY <2>2, <2>3, <2>5 DEF ImageInv
<1>2. CASE UNCHANGED <<elf, mem>>
  BY <1>2
     DEF ImageInv, MemoryImage, LoadHeaders, InSegment, SegmentEnd, FromFilePage, PageStart, FileImage
<1>3. Next => handle_page_fault \/ UNCHANGED <<elf, mem>>
  BY DEF Next, load_and_run_elf, load_fails, program_access, program_returns, retry,
         Handeling_segmentation_fault, handle_unknown_address, handle_known_page,
         handler_exits, handler_killed
<1>4. Eager!Next => elf' = elf
  BY DEF Eager!Next, Eager!open, Eager!fails, Eager!scan, Eager!scan_done, Eager!check,
         Eager!mmap, Eager!read, Eager!call
<1> QED
  BY <1>1, <1>2, <1>3, <1>4 DEF LoadersNext, smart, vars

\* The bytes that the fault handler maps are those of the ELF file, for every
\* file, every page size and every order of the faults.
THEOREM MemoryImageCorrect == LoadersSpec => []MemoryImage
<1>1. ImageInv => MemoryImage
  BY DEF ImageInv
<1> QED
  BY <1>1, FlagInvInit, FlagInvStep, ImageInvInit, ImageInvStep, PTL DEF LoadersSpec

-----------------------------------------------------------------------------
(* The internal fragmentation.                                             *)

LEMMA Remainder ==
    ASSUME NEW q \in Nat, NEW r \in Nat, r < page_size
    PROVE  (page_size * q + r) % page_size = r
<1> DEFINE a == page_size * q + r
           p == a \div page_size
           t == a % page_size
           d == p - q
<1>1. a \in Nat
  <2>1. page_size * q \in Nat
    BY PageAssumption, SMTT(30)
  <2> QED  BY <2>1
<1>2. p \in Nat /\ t \in Nat /\ t < page_size /\ a = page_size * p + t
  <2> HIDE DEF a
  <2> QED  BY <1>1, PageOf
<1>3. d \in Int /\ page_size * d = r - t
  <2>1. page_size * q + r = page_size * p + t
    BY <1>2
  <2> HIDE DEF p, t
  <2>2. page_size * (p - q) = page_size * p - page_size * q
    BY <1>2, PageAssumption, SMTT(30)
  <2>3. page_size * p \in Int /\ page_size * q \in Int
    BY <1>2, PageAssumption, SMTT(30)
  <2> QED  BY <1>2, <2>1, <2>2, <2>3
<1> HIDE DEF a, p, t, d
<1>4. d >= 1 => page_size * d >= page_size
  <2>1. SUFFICES ASSUME d >= 1 PROVE page_size * (d - 1) >= 0
    BY <1>3, PageAssumption, SMTT(30)
  <2> QED  BY <1>3, <2>1, PageAssumption, SMTT(30)
<1>5. d <= -1 => page_size * d <= 0 - page_size
  <2>1. SUFFICES ASSUME d <= -1 PROVE page_size * (0 - 1 - d) >= 0
    BY <1>3, PageAssumption, SMTT(30)
  <2> QED  BY <1>3, <2>1, PageAssumption, SMTT(30)
<1>6. page_size \in Nat /\ page_size > 0
  BY PageAssumption
<1>7. d = 0
  BY <1>2, <1>3, <1>4, <1>5, <1>6
<1>8. page_size * 0 = 0
  BY <1>6
<1>9. t = r
  BY <1>2, <1>3, <1>7, <1>8
<1> QED
  BY <1>9 DEF t, a

\* The last page of a segment that starts on a page boundary is a page of the
\* segment, the only one of which the handler counts a fragment.
LEMMA LastPageOf ==
    ASSUME NEW ph \in ProgramHeader, ph.p_memsz > 0, ph.p_vaddr % page_size = 0
    PROVE  /\ LastPage(ph) \in Nat /\ LastPage(ph) % page_size = 0
           /\ InSegment(LastPage(ph), ph)
           /\ page_size - (ph.p_memsz % page_size) = CountedBytes(ph)
           /\ CountedBytes(ph) \in Nat
           /\ \A s \in Nat : s % page_size = 0 /\ InSegment(s, ph) =>
                  (page_size + (s - ph.p_vaddr) >= ph.p_memsz <=> s = LastPage(ph))
<1> DEFINE e == ph.p_vaddr + ph.p_memsz - 1
           l == e \div page_size
           v == ph.p_vaddr \div page_size
           t == e % page_size
           low == page_size * v
           last == page_size * l
<1>1. /\ page_size \in Nat /\ page_size > 0
      /\ ph.p_vaddr \in Nat /\ ph.p_memsz \in Nat /\ e \in Nat /\ ph.p_vaddr <= e
  BY PageAssumption DEF ProgramHeader
<1>2. l \in Nat /\ t \in Nat /\ t < page_size /\ e = last + t /\ last \in Nat
  <2> HIDE DEF e
  <2> QED  BY <1>1, PageOf
<1>3. v \in Nat /\ ph.p_vaddr = low /\ low \in Nat
  BY <1>1, PageOf
<1>4. v <= l
  <2> HIDE DEF e
  <2> QED  BY <1>1, PageNumberMonotonic
<1>5. LastPage(ph) = last
  <2>1. LastPage(ph) = e - t
    <3>1. SegmentEnd(ph) - 1 = e
      BY <1>1 DEF SegmentEnd
    <3> HIDE DEF e
    <3> QED  BY <3>1, Zenon DEF LastPage
  <2> HIDE DEF e, t, last
  <2> QED  BY <1>2, <2>1
<1>6. UnusedBytes(ph) = page_size - (t + 1)
  <2>1. UnusedBytes(ph) = last + page_size - (ph.p_vaddr + ph.p_memsz)
    BY <1>5 DEF UnusedBytes, SegmentEnd
  <2>2. ph.p_vaddr + ph.p_memsz = e + 1
    BY <1>1
  <2> HIDE DEF e, t, last
  <2> QED  BY <1>1, <1>2, <2>1, <2>2
<1>7. ph.p_memsz = last - low + t + 1
  <2>1. ph.p_memsz = e + 1 - ph.p_vaddr
    BY <1>1
  <2> HIDE DEF e, t, last, low
  <2> QED  BY <1>2, <1>3, <2>1
<1> HIDE DEF e, l, v, t
<1>8. last - low = page_size * (l - v) /\ l - v \in Nat
  BY <1>1, <1>2, <1>3, <1>4, SMTT(30)
<1>9. low <= last
  <2>1. page_size * (l - v) >= 0
    BY <1>1, <1>8, SMTT(30)
  <2> HIDE DEF low, last
  <2> QED  BY <1>2, <1>3, <1>8, <2>1
<1>10. ph.p_memsz % page_size = IF t + 1 = page_size THEN 0 ELSE t + 1
  <2>1. ph.p_memsz = page_size * (l - v) + (t + 1)
    <3> HIDE DEF low, last
    <3> DEFINE m == page_size * (l - v)
    <3>1. m = last - low
      BY <1>8
    <3> HIDE DEF m
    <3>2. ph.p_memsz = m + (t + 1)
      BY <1>2, <1>3, <1>7, <3>1
    <3> QED  BY <3>2 DEF m
  <2>2. CASE t + 1 = page_size
    <3> DEFINE q == l - v + 1
    <3>1. q \in Nat
      BY <1>8
    <3>2. page_size * q = page_size * (l - v) + page_size
      BY <1>1, <1>8, SMTT(30)
    <3>3. page_size * q \in Nat
      BY <1>1, <3>1, SMTT(30)
    <3>4. ph.p_memsz = page_size * q + 0
      BY <2>1, <2>2, <3>2, <3>3
    <3> HIDE DEF q
    <3>5. (page_size * q + 0) % page_size = 0
      BY <1>1, <3>1, Remainder
    <3> QED  BY <2>2, <3>4, <3>5
  <2>3. CASE t + 1 # page_size
    <3> DEFINE q == l - v
               r == t + 1
    <3>1. q \in Nat /\ r \in Nat /\ r < page_size
      BY <1>1, <1>2, <1>8, <2>3
    <3> HIDE DEF q, r
    <3>2. (page_size * q + r) % page_size = r
      BY <3>1, Remainder
    <3> QED  BY <2>1, <2>3, <3>2 DEF q, r
  <2> QED  BY <2>2, <2>3
<1>11. page_size - (ph.p_memsz % page_size) = CountedBytes(ph) /\ CountedBytes(ph) \in Nat
  BY <1>1, <1>2, <1>6, <1>10 DEF CountedBytes
<1>12. last % page_size = 0
  <2>1. (page_size * l + 0) % page_size = 0
    <3>1. l \in Nat /\ 0 < page_size
      BY <1>1, <1>2
    <3> HIDE DEF last
    <3> QED  BY <3>1, Remainder
  <2>2. page_size * l + 0 = last
    BY <1>2
  <2> QED  BY <2>1, <2>2
<1>13. ph.p_vaddr <= last /\ last < ph.p_vaddr + ph.p_memsz
  <2> HIDE DEF low, last
  <2> QED  BY <1>1, <1>2, <1>3, <1>7, <1>9
<1>14. ASSUME NEW s \in Nat, s % page_size = 0, InSegment(s, ph)
       PROVE  page_size + (s - ph.p_vaddr) >= ph.p_memsz <=> s = last
  <2> DEFINE k == s \div page_size
             start == page_size * k
  <2>1. k \in Nat /\ s = start /\ start \in Nat
    BY <1>1, <1>14, PageOf
  <2>2. s <= e
    BY <1>1, <1>14 DEF InSegment, SegmentEnd, e
  <2>3. k <= l
    BY <1>1, <2>2, <1>14, PageNumberMonotonic DEF l, e
  <2> HIDE DEF k
  <2>4. k # l => start + page_size <= last
    <3>1. SUFFICES ASSUME k # l PROVE start + page_size <= last
      OBVIOUS
    <3>2. l - k - 1 \in Nat
      BY <1>2, <2>1, <2>3, <3>1
    <3>3. page_size * (l - k - 1) >= 0
      BY <1>1, <3>2, SMTT(30)
    <3>4. page_size * (l - k - 1) = page_size * l - page_size * k - page_size
      BY <1>1, <1>2, <2>1, SMTT(30)
    <3> HIDE DEF last, start
    <3>5. page_size * (l - k - 1) = last - start - page_size
      BY <3>4 DEF last, start
    <3> DEFINE m == page_size * (l - k - 1)
    <3>6. m >= 0 /\ m = last - start - page_size
      BY <3>3, <3>5
    <3> HIDE DEF m
    <3> QED  BY <1>1, <1>2, <2>1, <3>6
  <2>5. k = l => start = last
    OBVIOUS
  <2> HIDE DEF low, last, start
  <2>6. CASE k = l
    BY <1>1, <1>2, <1>3, <1>7, <2>1, <2>5, <2>6
  <2>7. CASE k # l
    BY <1>1, <1>2, <1>3, <1>7, <2>1, <2>4, <2>7
  <2> QED  BY <2>6, <2>7
<1> QED
  BY <1>5, <1>11, <1>12, <1>13, <1>14, <1>2 DEF InSegment, SegmentEnd

\* The only segment whose last page is the page of the fault is the one that the
\* handler takes, and it was not there before.
LEMMA LoadedGrows ==
    ASSUME FlagInv, CountInv, handle_page_fault,
           \A n \in LoadHeaders : elf.e_phdr[n].p_vaddr % page_size = 0
    PROVE  \/ /\ Min(Matching) \in LoadHeaders /\ Min(Matching) \notin LoadedLast
              /\ LoadedLast' = LoadedLast \cup {Min(Matching)}
              /\ fragment_of_page = CountedBytes(segment) /\ CountedBytes(segment) \in Nat
           \/ LoadedLast' = LoadedLast /\ fragment_of_page = 0
<1> DEFINE k == Min(Matching)
           s == start_of_page
<1>1. /\ elf \in Layouts /\ k \in LoadHeaders /\ segment = elf.e_phdr[k] /\ segment \in ProgramHeader
      /\ s \in Nat /\ s % page_size = 0 /\ InSegment(s, segment)
  BY SegmentFound DEF handle_page_fault, FlagInv, segment
<1>2. DOMAIN mem' = Page(s) \cup DOMAIN mem /\ Page(s) \cap DOMAIN mem = {} /\ elf' = elf
  BY PageMapped, PageIsNew DEF handle_page_fault
<1>3. ASSUME NEW n \in LoadHeaders
      PROVE  elf.e_phdr[n] \in ProgramHeader /\ elf.e_phdr[n].p_vaddr % page_size = 0
  BY <1>1, FileFields DEF LoadHeaders
<1>4. segment.p_memsz > 0
  BY <1>1 DEF InSegment, SegmentEnd, ProgramHeader
<1>5. ASSUME NEW n \in LoadHeaders, elf.e_phdr[n].p_memsz > 0, LastPage(elf.e_phdr[n]) \in Page(s)
      PROVE  n = k /\ LastPage(segment) = s
  <2> DEFINE ph == elf.e_phdr[n]
             l == LastPage(ph)
  <2>1. ph \in ProgramHeader /\ ph.p_memsz > 0 /\ ph.p_vaddr % page_size = 0
    BY <1>3, <1>5
  <2>2. l \in Nat /\ l % page_size = 0 /\ InSegment(l, ph)
    <3> HIDE DEF ph
    <3> QED  BY <2>1, LastPageOf
  <2>3. s <= l /\ l < s + page_size
    <3>1. l \in s .. s + page_size - 1
      BY <1>5 DEF Page
    <3> HIDE DEF l
    <3> QED  BY <1>1, <2>2, <3>1, PageAssumption
  <2>4. l = s
    <3> HIDE DEF l
    <3>1. PageStart(l) = s
      BY <1>1, <2>2, <2>3, PageStartOf
    <3>2. PageStart(l) = l
      BY <2>2 DEF PageStart
    <3> QED  BY <3>1, <3>2
  <2>5. n = k
    <3>1. SUFFICES ASSUME n # k PROVE FALSE
      OBVIOUS
    <3>2. InSegment(s, ph)
      BY <2>2, <2>4
    <3>3. ph.p_vaddr \in Nat /\ segment.p_vaddr \in Nat
      BY <1>1, <2>1 DEF ProgramHeader
    <3>4. ph.p_vaddr <= segment.p_vaddr => SegmentEnd(ph) <= segment.p_vaddr
      BY <1>1, <3>1, SegmentsApart
    <3>5. segment.p_vaddr <= ph.p_vaddr => SegmentEnd(segment) <= ph.p_vaddr
      BY <1>1, <3>1, SegmentsApart
    <3>6. ph.p_memsz \in Nat /\ segment.p_memsz \in Nat
      BY <1>1, <2>1 DEF ProgramHeader
    <3> HIDE DEF ph, s
    <3> QED  BY <1>1, <3>2, <3>3, <3>4, <3>5, <3>6 DEF InSegment, SegmentEnd
  <2> QED  BY <1>1, <2>4, <2>5
<1>6. LoadedLast' = {n \in LoadHeaders : /\ elf.e_phdr[n].p_memsz > 0
                                         /\ LastPage(elf.e_phdr[n]) \in Page(s) \cup DOMAIN mem}
  BY <1>2 DEF LoadedLast, LoadHeaders, LastPage, SegmentEnd
<1>7. fragment_of_page = IF page_size + (s - segment.p_vaddr) >= segment.p_memsz
                         THEN page_size - (segment.p_memsz % page_size) ELSE 0
  BY DEF fragment_of_page, offset_in_segment
<1>8. /\ page_size - (segment.p_memsz % page_size) = CountedBytes(segment)
      /\ CountedBytes(segment) \in Nat
      /\ page_size + (s - segment.p_vaddr) >= segment.p_memsz <=> s = LastPage(segment)
  <2>1. segment.p_vaddr % page_size = 0
    BY <1>1, <1>3
  <2> HIDE DEF s
  <2> QED  BY <1>1, <1>4, <2>1, LastPageOf
<1>9. CASE s = LastPage(segment)
  <2>1. s \in Page(s) /\ s \notin DOMAIN mem
    <3>1. s \in Page(s)
      BY <1>1, PageAssumption DEF Page
    <3> QED  BY <1>2, <3>1
  <2>2. k \notin LoadedLast
    BY <1>1, <1>9, <2>1 DEF LoadedLast
  <2>3. LoadedLast' = LoadedLast \cup {k}
    <3> HIDE DEF k, s
    <3> QED  BY <1>1, <1>4, <1>5, <1>6, <1>9, <2>1 DEF LoadedLast
  <2>4. fragment_of_page = CountedBytes(segment)
    BY <1>7, <1>8, <1>9
  <2> QED  BY <1>1, <1>8, <2>2, <2>3, <2>4
<1>10. CASE s # LastPage(segment)
  <2>1. LoadedLast' = LoadedLast
    BY <1>5, <1>6, <1>10 DEF LoadedLast
  <2>2. fragment_of_page = 0
    BY <1>7, <1>8, <1>10
  <2> QED  BY <2>1, <2>2
<1> QED
  BY <1>9, <1>10

Counted == [n \in LoadHeaders |-> CountedBytes(elf.e_phdr[n])]

\* A step of the smart loader maps a page, or leaves memory and the fragmentation
\* alone.
LEMMA MemoryStep ==
    ASSUME [LoadersNext]_<<eager, vars>>
    PROVE  \/ handle_page_fault
           \/ UNCHANGED <<elf, mem, Full_internal_fragmentation>>
<1>1. Next => handle_page_fault \/ UNCHANGED <<elf, mem, Full_internal_fragmentation>>
  BY DEF Next, load_and_run_elf, load_fails, program_access, program_returns, retry,
         Handeling_segmentation_fault, handle_unknown_address, handle_known_page,
         handler_exits, handler_killed, counters
<1>2. Eager!Next => elf' = elf
  BY DEF Eager!Next, Eager!open, Eager!fails, Eager!scan, Eager!scan_done, Eager!check,
         Eager!mmap, Eager!read, Eager!call
<1> QED
  BY <1>1, <1>2 DEF LoadersNext, vars, smart, counters

LEMMA FragmentationStep ==
    FlagInv /\ CountInv /\ FragmentationCounted /\ [LoadersNext]_<<eager, vars>>
        => FragmentationCounted'
<1> SUFFICES ASSUME FlagInv, CountInv, FragmentationCounted, [LoadersNext]_<<eager, vars>>
             PROVE  FragmentationCounted'
  OBVIOUS
<1> DEFINE aligned == \A n \in LoadHeaders : elf.e_phdr[n].p_vaddr % page_size = 0
<1>1. FragmentationCounted <=> (aligned => Full_internal_fragmentation = SumOf(Counted, LoadedLast))
  BY DEF FragmentationCounted, SumOf, Counted
<1>2. FragmentationCounted' <=>
          (aligned' => Full_internal_fragmentation' = SumOf(Counted', LoadedLast'))
  BY DEF FragmentationCounted, SumOf, Counted, MapThenSumSet, MapThenFoldSet
<1>3. elf' = elf => aligned' = aligned /\ Counted' = Counted
  BY DEF LoadHeaders, Counted, CountedBytes, UnusedBytes, LastPage, SegmentEnd
<1>4. CASE UNCHANGED <<elf, mem, Full_internal_fragmentation>>
  <2>1. LoadedLast' = LoadedLast
    BY <1>4 DEF LoadedLast, LoadHeaders, LastPage, SegmentEnd
  <2> HIDE DEF aligned
  <2> QED  BY <1>1, <1>2, <1>3, <1>4, <2>1
<1>5. CASE handle_page_fault
  <2>1. /\ elf' = elf
        /\ Full_internal_fragmentation' = Full_internal_fragmentation + fragment_of_page
    BY <1>5 DEF handle_page_fault
  <2> SUFFICES ASSUME aligned
               PROVE  Full_internal_fragmentation' = SumOf(Counted, LoadedLast')
    BY <1>2, <1>3, <2>1
  <2>2. Full_internal_fragmentation = SumOf(Counted, LoadedLast)
    BY <1>1
  <2>3. IsFiniteSet(LoadedLast) /\ LoadedLast \in SUBSET LoadHeaders
    BY MaxAdd, FS_Subset DEF FlagInv, LoadedLast
  <2>4. ASSUME NEW n \in LoadedLast PROVE Counted[n] \in Nat
    <3>1. /\ elf.e_phdr[n] \in ProgramHeader /\ elf.e_phdr[n].p_memsz > 0
          /\ elf.e_phdr[n].p_vaddr % page_size = 0 /\ n \in LoadHeaders
      BY FileFields DEF LoadedLast, LoadHeaders, FlagInv
    <3>2. CountedBytes(elf.e_phdr[n]) \in Nat
      BY <3>1, LastPageOf
    <3> QED  BY <3>1, <3>2 DEF Counted
  <2> DEFINE k == Min(Matching)
  <2>5. CASE /\ k \in LoadHeaders /\ k \notin LoadedLast /\ LoadedLast' = LoadedLast \cup {k}
             /\ fragment_of_page = CountedBytes(segment) /\ CountedBytes(segment) \in Nat
    <3>1. Counted[k] = CountedBytes(segment)
      BY <2>5 DEF Counted, segment
    <3> HIDE DEF k
    <3>2. SumOf(Counted, LoadedLast \cup {k}) = SumOf(Counted, LoadedLast) + Counted[k]
      BY <2>3, <2>4, <2>5, <3>1, SumAdds
    <3> QED  BY <2>1, <2>2, <2>5, <3>1, <3>2
  <2>6. CASE LoadedLast' = LoadedLast /\ fragment_of_page = 0
    <3>1. SumOf(Counted, LoadedLast) \in Nat
      BY <2>3, <2>4, SumType
    <3> QED  BY <2>1, <2>2, <2>6, <3>1
  <2> QED  BY <1>5, <2>5, <2>6, LoadedGrows
<1> QED
  BY <1>4, <1>5, MemoryStep

LEMMA FragmentationInit == LoadersInit => FragmentationCounted
<1> SUFFICES ASSUME LoadersInit PROVE FragmentationCounted
  OBVIOUS
<1>1. LoadedLast = {} /\ Full_internal_fragmentation = 0
  BY DEF LoadersInit, Init, LoadedLast
<1>2. SumOf(Counted, LoadedLast) = 0
  BY <1>1, SumOfNone
<1> QED
  BY <1>1, <1>2 DEF FragmentationCounted, SumOf, Counted

\* The internal fragmentation is the unused part of the last pages that were
\* touched, a whole page for a full one, each counted once, for every file whose
\* segments start on a page boundary and every order of the faults.
THEOREM FragmentationCorrect == LoadersSpec => []FragmentationCounted
BY FlagInvInit, FlagInvStep, CountInvInit, CountInvStep, FragmentationInit, FragmentationStep, PTL
   DEF LoadersSpec

-----------------------------------------------------------------------------
(* Types.                                                                  *)

\* A mapped byte is one of the file or zero, and no difference that is taken
\* without a sign is below zero where it is counted.
BytesInv ==
    /\ \A a \in DOMAIN mem : mem[a] \in Nat \cup {zero_byte}
    /\ Page_fault \in 0 .. MaxFaults
    /\ Full_internal_fragmentation \in Nat

LEMMA BytesInvStep ==
    FlagInv /\ ImageInv /\ BytesInv /\ [LoadersNext]_<<eager, vars>> => BytesInv'
<1> SUFFICES ASSUME FlagInv, ImageInv, BytesInv, [LoadersNext]_<<eager, vars>> PROVE BytesInv'
  OBVIOUS
<1>1. CASE handle_page_fault
  <2>1. /\ segment \in ProgramHeader /\ start_of_page \in Nat
        /\ InSegment(start_of_page, segment)
    BY <1>1, SegmentFound DEF handle_page_fault
  <2>2. file_position \in Nat
    BY <2>1 DEF file_position, offset_in_segment, InSegment, ProgramHeader
  <2>3. fragment_of_page \in Nat
    <3>1. segment.p_memsz \in Nat
      BY <2>1 DEF ProgramHeader
    <3>2. segment.p_memsz % page_size \in Nat /\ segment.p_memsz % page_size < page_size
      BY <3>1, PageOf
    <3>3. page_size - (segment.p_memsz % page_size) \in Nat
      BY <3>2, PageAssumption
    <3> QED  BY <3>3 DEF fragment_of_page
  <2>4. ASSUME NEW a \in DOMAIN mem' PROVE mem'[a] \in Nat \cup {zero_byte}
    <3>1. mem' = after_read(read_count) /\ a \in DOMAIN mapped
      BY <1>1, <2>4 DEF handle_page_fault, after_read
    <3>2. a \in Nat
      <4>1. DOMAIN mapped = Page(start_of_page) \cup DOMAIN mem
        BY DEF mapped
      <4>2. Page(start_of_page) \subseteq Nat
        BY <2>1, PageAssumption DEF Page
      <4> QED  BY <3>1, <4>1, <4>2 DEF ImageInv
    <3>3. mapped[a] \in Nat \cup {zero_byte}
      BY <3>1 DEF mapped, BytesInv
    <3>4. a \in Readable(read_count) => file_position + (a - start_of_page) \in Nat
      BY <2>1, <2>2, <3>2 DEF Readable
    <3>5. after_read(read_count)[a] = IF a \in Readable(read_count)
                                      THEN file_position + (a - start_of_page) ELSE mapped[a]
      BY <3>1 DEF after_read
    <3> HIDE DEF mapped
    <3> QED  BY <3>1, <3>3, <3>4, <3>5
  <2>5. Page_fault' \in 0 .. MaxFaults /\ Full_internal_fragmentation' \in Nat
    BY <1>1, <2>3, BoundAssumption DEF handle_page_fault, BytesInv
  <2> QED  BY <2>4, <2>5 DEF BytesInv
<1>2. CASE UNCHANGED <<mem, Full_internal_fragmentation>> /\ Page_fault' \in 0 .. MaxFaults
  BY <1>2 DEF BytesInv
<1>3. Next => handle_page_fault \/ Page_fault' \in 0 .. MaxFaults
  BY BoundAssumption
     DEF Next, load_and_run_elf, load_fails, program_access, program_returns, retry,
         Handeling_segmentation_fault, handle_unknown_address, handle_known_page,
         handler_exits, handler_killed, counters, BytesInv
<1>4. UNCHANGED smart \/ UNCHANGED vars => Page_fault' \in 0 .. MaxFaults
  BY DEF smart, vars, counters, BytesInv
<1> QED
  BY <1>1, <1>2, <1>3, <1>4, MemoryStep DEF LoadersNext, vars

\* Every variable of the smart loader keeps its type, for every file and page
\* size: no byte comes from before the file, no flag is another number, and the
\* fragmentation is never negative.
THEOREM TypeCorrect == LoadersSpec => []TypeOK
<1>1. LoadersInit => BytesInv
  BY BoundAssumption DEF LoadersInit, Init, BytesInv
<1>2. FlagInv /\ CountInv /\ ImageInv /\ BytesInv => TypeOK
  <2> SUFFICES ASSUME FlagInv, CountInv, ImageInv, BytesInv PROVE TypeOK
    OBVIOUS
  <2>1. Range(mem) \subseteq Nat \cup {zero_byte}
    BY DEF Range, BytesInv
  <2>2. Range(p_alloc) \subseteq {0, 1}
    BY DEF Range, FlagInv
  <2> QED  BY <2>1, <2>2 DEF TypeOK, FlagInv, Mapping, CountInv, ImageInv, BytesInv
<1> QED
  BY <1>1, <1>2, FlagInvInit, FlagInvStep, CountInvInit, CountInvStep, ImageInvInit, ImageInvStep,
     BytesInvStep, PTL DEF LoadersSpec

-----------------------------------------------------------------------------
(* Both loaders on one file.                                               *)

\* What the eager loader has copied stays as it is, and when its program has
\* returned there is memory for the whole segment.
CopiedInv ==
    /\ eager_pc \in {"read", "call", "returned"} =>
           mem_allo = <<>> \/ \A i \in 0 .. phdr.p_memsz - 1 : i \in DOMAIN mem_allo
    /\ eager_pc = "returned" => DOMAIN mem_allo # {}
    /\ eager_pc = "returned" /\ read_ok =>
           \A i \in DOMAIN mem_allo : i < phdr.p_memsz =>
               mem_allo[i] = IF i < phdr.p_filesz THEN phdr.p_offset + i ELSE zero_byte

LEMMA CopiedInvInit == LoadersInit => CopiedInv
BY DEF LoadersInit, Eager!Init, CopiedInv

LEMMA CopiedInvStep ==
    ScanInv /\ CopyInv /\ CopiedInv /\ [LoadersNext]_<<eager, vars>> => CopiedInv'
<1> SUFFICES ASSUME ScanInv, CopyInv, CopiedInv, [LoadersNext]_<<eager, vars>> PROVE CopiedInv'
  OBVIOUS
<1> USE DEF CopiedInv
<1>1. CASE Eager!mmap
  <2>1. phdr \in ProgramHeader
    BY <1>1 DEF ScanInv, Eager!mmap, Found, Eager!has_entry_point, Eager!Garbage
  <2> DEFINE size == page_size * ((phdr.p_memsz + page_size - 1) \div page_size)
  <2>2. size \in Int /\ phdr.p_memsz \in Nat /\ phdr.p_memsz <= size
    <3>1. phdr.p_memsz \in Nat /\ phdr.p_memsz + page_size - 1 \in Nat /\ page_size \in Nat \ {0}
      BY <2>1, PageAssumption DEF ProgramHeader
    <3> DEFINE a == phdr.p_memsz + page_size - 1
    <3>2. a \in Nat
      BY <3>1
    <3>3. a = size + (a % page_size) /\ a % page_size \in Nat /\ a % page_size < page_size /\ size \in Nat
      <4> HIDE DEF a
      <4>1. /\ a % page_size \in Nat /\ a % page_size < page_size
            /\ a = page_size * (a \div page_size) + (a % page_size)
            /\ page_size * (a \div page_size) \in Nat
        BY <3>2, PageOf
      <4> QED  BY <4>1 DEF a
    <3> DEFINE r == a % page_size
    <3>4. /\ phdr.p_memsz + page_size - 1 = size + r /\ r \in Nat /\ r < page_size
          /\ size \in Nat /\ phdr.p_memsz \in Nat /\ page_size \in Nat
      BY <3>1, <3>3
    <3> HIDE DEF size, r
    <3>5. phdr.p_memsz <= size
      BY <3>4
    <3> QED  BY <3>4, <3>5
  <2>3. CASE mem_allo' = [i \in 0 .. size - 1 |-> zero_byte]
    <3>1. \A i \in 0 .. phdr.p_memsz - 1 : i \in 0 .. size - 1
      <4> HIDE DEF size
      <4> QED  BY <2>2
    <3>2. DOMAIN mem_allo' = 0 .. size - 1
      BY <2>3
    <3> QED  BY <1>1, <3>1, <3>2 DEF Eager!mmap
  <2>4. CASE mem_allo' = <<>>
    BY <1>1, <2>4 DEF Eager!mmap
  <2> QED  BY <1>1, <2>3, <2>4 DEF Eager!mmap
<1>2. CASE Eager!read
  <2>1. DOMAIN mem_allo' = DOMAIN mem_allo
    BY <1>2 DEF Eager!read, Eager!copied
  <2>2. mem_allo = <<>> => mem_allo' = <<>>
    BY <1>2 DEF Eager!read, Eager!copied
  <2> QED  BY <1>2, <2>1, <2>2 DEF Eager!read
<1>3. CASE Eager!call
  <2>1. eager_pc = "call" /\ UNCHANGED <<mem_allo, phdr, read_ok>> /\ eager_pc' \in {"returned", "crashed"}
        /\ (eager_pc' = "returned" => Eager!e_point \in DOMAIN mem_allo)
    BY <1>3 DEF Eager!call
  <2> QED  BY <2>1 DEF CopyInv, EagerImage, Eager!SegmentImage
<1>4. CASE UNCHANGED eager
  BY <1>4 DEF eager
<1>5. Eager!open \/ Eager!fails \/ Eager!scan \/ Eager!scan_done \/ Eager!check
        => eager_pc' \notin {"read", "call", "returned"}
  BY DEF Eager!open, Eager!fails, Eager!scan, Eager!scan_done, Eager!check
<1> QED
  BY <1>1, <1>2, <1>3, <1>4, <1>5 DEF LoadersNext, Eager!Next

\* Paging in leaves what copying at once leaves, for every file, every page size
\* and every order of the faults.
THEOREM SameSegmentCorrect == LoadersSpec => []SameSegment
<1>1. ScanInv /\ CopiedInv /\ ImageInv => SameSegment
  <2> SUFFICES ASSUME ScanInv, CopiedInv, ImageInv, eager_pc = "returned", read_ok,
                      NEW a \in DOMAIN mem, InSegment(a, phdr), FromFilePage(a, phdr)
               PROVE  mem[a] = mem_allo[a - phdr.p_vaddr]
    BY DEF SameSegment
  <2>1. PICK n \in DOMAIN elf.e_phdr : phdr = elf.e_phdr[n]
    BY DEF ScanInv, Found, Eager!has_entry_point, Eager!Garbage
  <2>2. phdr \in ProgramHeader /\ n \in LoadHeaders
    BY <2>1, FileFields DEF ScanInv, Found, Eager!has_entry_point, LoadHeaders
  <2>3. mem[a] = FileImage(a, phdr)
    BY <2>1, <2>2 DEF ImageInv, MemoryImage
  <2>4. /\ a \in Nat /\ phdr.p_vaddr \in Nat /\ phdr.p_memsz \in Nat
        /\ phdr.p_vaddr <= a /\ a < phdr.p_vaddr + phdr.p_memsz
    BY <2>2 DEF ImageInv, InSegment, SegmentEnd, ProgramHeader
  <2>5. a - phdr.p_vaddr \in 0 .. phdr.p_memsz - 1
    BY <2>4
  <2>6. a - phdr.p_vaddr \in DOMAIN mem_allo
    BY <2>5 DEF CopiedInv
  <2> QED  BY <2>3, <2>4, <2>5, <2>6 DEF CopiedInv, FileImage
<1> QED
  BY <1>1, ScanInvInit, ScanInvStep, CopyInvInit, CopyInvStep, CopiedInvInit, CopiedInvStep,
     FlagInvInit, FlagInvStep, ImageInvInit, ImageInvStep, PTL DEF LoadersSpec
=============================================================================
