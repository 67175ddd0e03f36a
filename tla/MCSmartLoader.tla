--------------------------- MODULE MCSmartLoader ---------------------------
(* SmartLoader on small ELF files, with pages of 4 bytes.                  *)
EXTENDS SmartLoader

Header(vaddr, memsz, filesz, offset) ==
    [p_type |-> "PT_LOAD", p_vaddr |-> vaddr, p_memsz |-> memsz,
     p_filesz |-> filesz, p_offset |-> offset]

Note == [p_type |-> "other", p_vaddr |-> 4, p_memsz |-> 4, p_filesz |-> 4, p_offset |-> 0]

FileAt(entry, headers) == [e_entry |-> entry, e_phdr |-> headers, file_size |-> 40]

\* The program starts at the second of its headers.
File(headers) == FileAt(headers[2].p_vaddr, headers)

HasBytes(ph) == ph.p_filesz <= ph.p_memsz

\* No page of the segment lies behind its part of the file.
EndsInFilePage(ph) == HasBytes(ph) /\ ph.p_memsz - (ph.p_memsz % 4) <= ph.p_filesz

\* A text and a data segment, each from a page boundary and on pages of its own,
\* behind a header that is not loaded.  The data segment may be empty, may fill
\* its pages and may have pages without bytes of the file (bss); nothing is
\* loaded behind them.
AlignedLayouts ==
    {f \in {File(<<Note, Header(4, m1, f1, 8), Header(v2, m2, f2, 20)>>) :
                m1 \in {3, 6, 7}, f1 \in {2, 5}, v2 \in {12, 16}, m2 \in {0, 1, 8, 9, 10}, f2 \in {0, 3, 8}} :
        EndsInFilePage(f.e_phdr[2]) /\ HasBytes(f.e_phdr[3])}

\* The data segment starts inside a page, as linkers place it by default.
UnalignedLayouts == {File(<<Note, Header(4, 5, 5, 8), Header(14, 4, 4, 22)>>)}

\* It starts inside a page and has pages of its own behind that one.
LongUnalignedLayouts == {File(<<Note, Header(4, 5, 5, 8), Header(14, 9, 8, 22)>>)}

\* The program starts in its last segment, in no segment, or has no segment.
EntryLayouts ==
    {FileAt(entry, <<Note, Header(4, 5, 5, 8), Header(12, 3, 3, 22)>>) : entry \in {14, 20}}
        \cup {FileAt(4, <<>>), FileAt(4, <<Note>>)}
=============================================================================
