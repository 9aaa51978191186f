----------------------------- MODULE MCStartup -----------------------------
(***************************************************************************)
(* Small command lines, environments and ELF files for Startup.            *)
(***************************************************************************)
EXTENDS Startup

Section(a, n) == [id |-> 0, addr |-> a, size |-> n,
                  text |-> FALSE, alloc |-> TRUE, nobits |-> FALSE,
                  pool |-> {}, zeros |-> {}]
Text(a, n) == [Section(a, n) EXCEPT !.text = TRUE]
Bss(a, n) == [Section(a, n) EXCEPT !.nobits = TRUE]
Segment(v, n, p) == [vaddr |-> v, memsz |-> n, paddr |-> p]

Numbered(sections) == [i \in DOMAIN sections |-> [sections[i] EXCEPT !.id = i]]
Elf(sections, segments, valid, start) ==
    [sections |-> Numbered(sections), segments |-> segments,
     valid |-> valid, start |-> start, entry |-> 4, gp |-> 12]

Whole == <<Segment(0, DataSize, 0)>>
MCBinaries ==
  { Elf(<<Text(4, 8), [Section(12, 8) EXCEPT !.zeros = {1}], Bss(20, 8)>>, Whole, TRUE, TRUE),
    Elf(<<Text(4, 8), Section(12, 5), Bss(17, 3), Section(20, 4)>>, Whole, TRUE, FALSE),  \* unaligned .bss
    Elf(<<Text(4, 4), Section(8, 2), Section(10, 5)>>, Whole, TRUE, TRUE),                \* data in the padding of data
    Elf(<<Section(0, 6), Text(16, 8)>>, Whole, TRUE, FALSE),                              \* data below text
    Elf(<<Text(4, 4), Text(12, 4)>>, Whole, TRUE, FALSE),                                 \* a gap, and no data
    Elf(<<Text(4, 4), Section(16, 3), Bss(20, 8)>>,                                       \* .data loaded at 8, next to .text
        <<Segment(4, 4, 4), Segment(16, 12, 8)>>, TRUE, TRUE),
    Elf(<<Text(36, 8), Section(12, 3)>>,                                                  \* text linked above where it is loaded
        <<Segment(36, 8, 4), Segment(12, 4, 12)>>, TRUE, TRUE),
    Elf(<<Text(4, 4), [Section(12, 4) EXCEPT !.alloc = FALSE], Section(24, 4)>>,          \* .comment, and a section of no segment
        <<Segment(4, 8, 4)>>, TRUE, TRUE),
    Elf(<<Text(4, 4), Bss(8, 6), Section(8, 3)>>, Whole, TRUE, TRUE),                     \* .tbss takes no room
    Elf(<<[Text(4, 8) EXCEPT !.pool = {1}], Section(12, 4)>>, Whole, TRUE, TRUE),         \* a constant between instructions
    Elf(<<Section(12, 4), Text(20, 6), Section(4, 8)>>, Whole, TRUE, TRUE),               \* not in the order of addresses
    Elf(<<Text(4, 4), Section(DataSize - 6, 8)>>, Whole, TRUE, TRUE),                     \* ends behind the memory
    Elf(<<Text(4, 4), Section(24, 14)>>, Whole, TRUE, TRUE),                              \* ends where the stack begins
    Elf(<<>>, <<>>, FALSE, FALSE) }

\* Strings: lengths 0 to 3, and one that does not fit together with others.
Long == [i \in 1 .. 24 |-> 7]
MCStrings == {<<>>, <<1>>, <<2, 3>>, <<1, 2, 3>>, Long}
MCArguments == { <<<<1>>>>,
                 <<<<2, 3>>, <<1>>>>,
                 <<<<1>>, <<2, 3>>, <<>>>>,
                 <<<<1, 2, 3>>, <<2, 3>>, <<1>>>>,
                 <<<<1, 2, 3>>, <<1>>, Long>> }
MCEnvironments == { <<>>, <<<<1>>>>, <<<<2, 3>>, <<>>>>, <<Long>> }
=============================================================================
