------------------------------ MODULE Startup ------------------------------
(***************************************************************************)
(* From the host's argv and an ELF file to a guest that can run: the ELF   *)
(* loader (lib/elf), Memory::loadAux and initializeHeap, main() of the     *)
(* emulator and main() of a translated program (emitGeneratedMain).        *)
(*                                                                         *)
(*   emulator    sections, name, stack, heap, context                      *)
(*   translated  stack, context, data, heap, text                          *)
(*                                                                         *)
(* The memory is modelled byte by byte, by where each byte comes from: a   *)
(* section of the file, a word or a character of the initial stack, or     *)
(* nobody yet (Zero: Memory::data is static). The loops over the sections  *)
(* take one section a step.                                                *)
(***************************************************************************)
EXTENDS Integers, Sequences

CONSTANTS
    WordMod,              \* 2^32
    DataSize, MmapSize,   \* DATA_SIZE, MMAP_SIZE
    DefaultPage,          \* Memory::pageSize before loadAux
    HostPage,             \* AT_PAGESZ of the host
    BaseRa,               \* BASE_RA of the emulator
    Strings,              \* strings: sequences of characters, none of them 0
    Arguments,            \* the host's argument vectors: sequences of strings
    Environments,         \* the host's environments
    Binaries              \* ELF files

Word == 0 .. WordMod - 1

\* A section header with its data: pool are the words of text that decode to no
\* instruction, zeros the words that are zero in the file. A word that the data ends in
\* is not one of them, what follows the data is in it too.
SectionType ==
    [id : Nat, addr : Word, size : Word, text : BOOLEAN, alloc : BOOLEAN,
     nobits : BOOLEAN, pool : SUBSET Nat, zeros : SUBSET Nat]

\* A PT_LOAD header.
SegmentType == [vaddr : Word, memsz : Word, paddr : Word]

\* valid: ElfBinary::load succeeds; start: there is a _start. Sections are in file order.
BinaryType ==
    [sections : Seq(SectionType), segments : Seq(SegmentType),
     valid : BOOLEAN, start : BOOLEAN, entry : Word, gp : Word]

ASSUME StartupAssumption ==
    /\ WordMod \in Nat /\ DataSize \in Nat \ {0} /\ MmapSize \in Nat
    /\ DataSize + MmapSize < WordMod
    /\ DefaultPage \in Nat \ {0} /\ HostPage \in Nat \ {0}
    /\ DataSize + HostPage <= WordMod
    /\ \A s \in Strings : s \in Seq(1 .. 255)
    /\ \A a \in Arguments : a \in Seq(Strings) /\ a # <<>>
    /\ \A e \in Environments : e \in Seq(Strings)
    /\ \A b \in Binaries :
        /\ b \in BinaryType
        /\ \A i \in DOMAIN b.sections :
            /\ b.sections[i].id = i
            /\ b.sections[i].zeros \subseteq 0 .. (b.sections[i].size \div 4) - 1

VARIABLES
    engine,      \* "emulator" or "translated"
    elf,         \* the ELF file
    given,       \* history: the argument vector main() was called with
    argv, env,   \* argv and envp, as loadAux finds them
    stage,       \* what main() does next
    next,        \* the section it is at
    data,        \* Memory::data
    overrun,     \* history: a write went outside of Memory::data
    dataEnd,     \* the end of what was loaded, as the engine computes it
    pageSize, initialSP, heapBase,
    ctx          \* pc, sp, ra and gp

vars == <<engine, elf, given, argv, env, stage, next, data, overrun, dataEnd,
          pageSize, initialSP, heapBase, ctx>>
input == <<engine, elf, given, env>>

-----------------------------------------------------------------------------
(* Bytes *)

Zero == <<"zero", 0, 0>>
Junk == <<"junk", 0, 0>>                  \* read behind the end of a section's data
Char(c) == <<"char", c, 0>>
WordByte(w, i) == IF w = 0 THEN Zero ELSE <<"word", w, i>>

Address == 0 .. DataSize + MmapSize - 1

\* The memory after bytes, a sequence, went to address a; Kept bytes are skipped.
Kept == <<"kept", 0, 0>>
Overlay(m, a, bytes) ==
    [x \in Address |-> IF x \in a .. a + Len(bytes) - 1 /\ bytes[x - a + 1] # Kept
                       THEN bytes[x - a + 1] ELSE m[x]]
Outside(a, bytes) == \E o \in DOMAIN bytes : bytes[o] # Kept /\ a + o - 1 \notin Address

-----------------------------------------------------------------------------
(* ELF sections *)

\* The PT_LOAD segments a section may belong to; ElfBinary::decode takes the first.
Holding(b, s) ==
    {g \in DOMAIN b.segments :
        b.segments[g].vaddr <= s.addr /\ s.addr < b.segments[g].vaddr + b.segments[g].memsz}

\* ElfBinary::decode: the allocated sections of some segment.
Sections(b) ==
    {i \in DOMAIN b.sections : b.sections[i].alloc /\ Holding(b, b.sections[i]) # {}}

\* ElfBinarySection::getLoadAddress.
LoadAddress(b, s) ==
    LET seg == b.segments[CHOOSE g \in Holding(b, s) : \A h \in Holding(b, s) : g <= h]
    IN  (seg.paddr + (s.addr - seg.vaddr)) % WordMod

\* Mutant: whole words only.
ByteSizeDown(s) == 4 * (s.size \div 4)

\* Section data is a vector of words: the last one is filled up with what lies
\* behind the data in the file's buffer; NOBITS sections have no buffer.
ByteSize(s) == 4 * ((s.size + 3) \div 4)

FileByte(s, o) == IF s.nobits \/ (o - 1) \div 4 \in s.zeros THEN Zero ELSE <<"file", s.id, o>>
Content(s) == [o \in 1 .. ByteSize(s) |-> IF s.nobits THEN Zero
                                          ELSE IF o <= s.size THEN FileByte(s, o) ELSE Junk]

IsText(s) == s.text
TextSections(b) == {i \in Sections(b) : IsText(b.sections[i])}
DataSections(b) == {i \in Sections(b) : ~ IsText(b.sections[i])}

\* computeTextBounds: the end of the last text section, where getBaseRa points.
TextEnd(b) ==
    LET End(i) == (b.sections[i].addr + ByteSize(b.sections[i])) % WordMod
        ends == {End(i) : i \in TextSections(b)}
    IN  IF ends = {} THEN 0 ELSE CHOOSE e \in ends : \A f \in ends : f <= e

-----------------------------------------------------------------------------
(* One section *)

Write(a, bytes) ==
    /\ data' = Overlay(data, a, bytes)
    /\ overrun' = (overrun \/ Outside(a, bytes))

\* Where the address is after the words of a section.
AddrBehind(s) == (LoadAddress(elf, s) + ByteSize(s)) % WordMod

Extend(s) == dataEnd' = IF AddrBehind(s) > dataEnd THEN AddrBehind(s) ELSE dataEnd

\* Mutant: the end is that of the last section.
LoadSectionLast(s) == Write(LoadAddress(elf, s), Content(s)) /\ dataEnd' = AddrBehind(s)

\* loadToMemory: skipped when it exceeds the memory.
LoadSection(s) ==
    IF AddrBehind(s) > DataSize THEN UNCHANGED <<data, overrun, dataEnd>>
    ELSE Write(LoadAddress(elf, s), Content(s)) /\ Extend(s)

\* emitGeneratedMain, a data section: words that are zero are not written.
NonZero(s) == [o \in DOMAIN Content(s) |-> IF Content(s)[o] = Zero THEN Kept ELSE Content(s)[o]]
WriteDataSection(s) == Write(LoadAddress(elf, s), NonZero(s)) /\ Extend(s)

\* A text section, at its virtual address: a word that decodes to no instruction
\* has lost its bits.
Decoded(s) == [o \in DOMAIN Content(s) |->
                  IF (o - 1) \div 4 \in s.pool THEN Zero ELSE Content(s)[o]]
WriteTextSection(s) == Write(s.addr, Decoded(s)) /\ UNCHANGED dataEnd

-----------------------------------------------------------------------------
(* The initial stack *)

AT_NULL == 0
AT_PAGESZ == 6

Without2nd(a) == IF Len(a) < 2 THEN a ELSE <<a[1]>> \o SubSeq(a, 3, Len(a))

\* The arguments the guest gets: the emulator skips the path of the guest.
GuestArgv(a) == IF engine = "emulator" THEN Without2nd(a) ELSE a

\* Mutant: no room for the end of a string.
ptrStringSizeShort(s) == Len(s)

ptrStringSize(s) == Len(s) + 1

\* Where each string ends when they lie one behind the other.
Ends(strings) ==
    LET end[i \in 0 .. Len(strings)] ==
            IF i = 0 THEN 0 ELSE end[i - 1] + ptrStringSize(strings[i])
    IN  end

SizeOf(strings) == Ends(strings)[Len(strings)]

\* argc, argv and its end, envp and its end, AT_PAGESZ and AT_NULL.
ArgsSize(args) == 2 * 4 + 4 * Len(args) + 4 * Len(env) + 4 + 8 + 8

\* Mutant: the environment's strings are not counted.
StackTopNoEnv(args) ==
    LET top == (DataSize - ArgsSize(args) - SizeOf(args)) % WordMod
    IN  top - (top % 2)

\* Mutant: sizes are signed.
StackTopSigned(args) ==
    LET top == DataSize - ArgsSize(args) - SizeOf(args \o env)
    IN  top - (top % 2)

\* initialSP: an unsigned difference, rounded down to an even address.
StackTop(args) ==
    LET top == (DataSize - ArgsSize(args) - SizeOf(args \o env)) % WordMod
    IN  top - (top % 2)

\* The words: argc, the pointers, the auxiliary vector.
StackWord(args, sp, k) ==
    LET last == Len(args) + Len(env) + 3
        Pointer(i) == (sp + ArgsSize(args) + Ends(args \o env)[i - 1]) % WordMod
    IN  CASE k = 1 -> Len(args)
          [] k \in 2 .. last -> Pointer(IF k <= Len(args) + 1 THEN k - 1 ELSE k - 2)
          [] k > last -> <<AT_PAGESZ, HostPage, AT_NULL, 0>>[k - last]

\* Their bytes; the ends of argv and envp are not written.
StackBytes(args, sp) ==
    LET WordNo(o) == (o - 1) \div 4 + 1
        Skipped == {Len(args) + 2, Len(args) + Len(env) + 3}
    IN  [o \in 1 .. ArgsSize(args) |->
            IF WordNo(o) \in Skipped THEN Kept
            ELSE WordByte(StackWord(args, sp, WordNo(o)), (o - 1) % 4)]

\* The bytes of the strings, one behind the other, each with its end.
StringBytes(strings) ==
    LET end == Ends(strings)
        StringNo(o) == CHOOSE i \in DOMAIN strings : end[i - 1] < o /\ o <= end[i]
    IN  [o \in 1 .. SizeOf(strings) |->
            LET s == strings[StringNo(o)]
                c == o - end[StringNo(o) - 1]
            IN  IF c <= Len(s) THEN Char(s[c]) ELSE Zero]

-----------------------------------------------------------------------------
(* The steps of main() *)

\* What follows each step.
Order == [emulator |-> [open |-> "sections", sections |-> "name", name |-> "aux",
                        aux |-> "heap", heap |-> "context", context |-> "run"],
          translated |-> [aux |-> "context", context |-> "data", data |-> "heap",
                          heap |-> "text", text |-> "run"]]

\* main() takes the step s.
At(s) == stage = s /\ stage' = Order[engine][s]

\* main() is at the next section of the loop s.
Visit(s) ==
    /\ stage = s /\ next <= Len(elf.sections)
    /\ next' = next + 1 /\ UNCHANGED stage

Init ==
    /\ engine \in {"emulator", "translated"}
    /\ elf \in {b \in Binaries : engine = "translated" => b.valid}
    /\ given \in Arguments /\ argv = given
    /\ env \in Environments
    /\ stage = IF engine = "emulator" THEN "open" ELSE "aux"
    /\ next = 1
    /\ data = [a \in Address |-> Zero]
    /\ overrun = FALSE
    /\ dataEnd = 0
    /\ pageSize = DefaultPage
    /\ initialSP = DataSize - 1
    /\ heapBase = DataSize \div 2
    /\ ctx = [pc |-> 0, sp |-> 0, ra |-> 0, gp |-> 0]

\* The emulator without a path, or with one that is no RISC-V ELF file.
Refuse ==
    /\ stage = "open" /\ (Len(argv) < 2 \/ ~ elf.valid)
    /\ stage' = "refused"
    /\ UNCHANGED <<input, argv, next, data, overrun, dataEnd, pageSize, initialSP, heapBase, ctx>>

Open ==
    /\ At("open") /\ Len(argv) >= 2 /\ elf.valid
    /\ UNCHANGED <<input, argv, next, data, overrun, dataEnd, pageSize, initialSP, heapBase, ctx>>

loadToMemory ==
    /\ Visit("sections")
    /\ IF next \in Sections(elf) THEN LoadSection(elf.sections[next])
       ELSE UNCHANGED <<data, overrun, dataEnd>>
    /\ UNCHANGED <<input, argv, pageSize, initialSP, heapBase, ctx>>

\* A loop over the sections ends.
EndOfSections ==
    /\ \E s \in {"sections", "data", "text"} : At(s)
    /\ next > Len(elf.sections) /\ next' = 1
    /\ UNCHANGED <<input, argv, data, overrun, dataEnd, pageSize, initialSP, heapBase, ctx>>

\* strcpy(argv[0], argv[1]) on strings that lie one behind the other: the ranges
\* overlap when the second string is longer, and what is in them then is undefined.
CopyName ==
    /\ At("name")
    /\ \E s, t \in Strings :
        /\ IF Len(argv[2]) <= Len(argv[1]) THEN s = argv[2] /\ t = argv[2]
           ELSE Len(s) <= Len(argv[2]) /\ Len(t) <= Len(argv[2])
        /\ argv' = [argv EXCEPT ![1] = s, ![2] = t]
    /\ UNCHANGED <<input, next, data, overrun, dataEnd, pageSize, initialSP, heapBase, ctx>>

loadAux ==
    /\ At("aux")
    /\ LET args == GuestArgv(argv)
           sp == StackTop(args)
           strPtr == (sp + ArgsSize(args)) % WordMod
           words == StackBytes(args, sp)
           chars == StringBytes(args \o env)
       IN  /\ initialSP' = sp
           /\ data' = Overlay(Overlay(data, sp, words), strPtr, chars)
           /\ overrun' = (overrun \/ Outside(sp, words) \/ Outside(strPtr, chars))
    /\ pageSize' = HostPage
    /\ UNCHANGED <<input, argv, next, dataEnd, heapBase, ctx>>

pageAlignAddress(a) == ((a + (pageSize - 1)) \div pageSize) * pageSize

initializeHeap ==
    /\ At("heap")
    /\ heapBase' = pageAlignAddress(dataEnd) % WordMod
    /\ UNCHANGED <<input, argv, next, data, overrun, dataEnd, pageSize, initialSP, ctx>>

\* getSymbolAddress, for the two symbols that are asked for: _start, by its presence,
\* and __global_pointer$, which is 0 if there is none.
HasStartup(b) == b.start
GlobalPointer(b) == b.gp

\* A program without startup code gets ra and gp.
SetContext ==
    /\ At("context")
    /\ ctx' = [pc |-> elf.entry, sp |-> initialSP,
               ra |-> IF HasStartup(elf) THEN 0 ELSE IF engine = "emulator" THEN BaseRa ELSE TextEnd(elf),
               gp |-> IF HasStartup(elf) THEN 0 ELSE GlobalPointer(elf)]
    /\ UNCHANGED <<input, argv, next, data, overrun, dataEnd, pageSize, initialSP, heapBase>>

WriteData ==
    /\ Visit("data")
    /\ IF next \in DataSections(elf) THEN WriteDataSection(elf.sections[next])
       ELSE UNCHANGED <<data, overrun, dataEnd>>
    /\ UNCHANGED <<input, argv, pageSize, initialSP, heapBase, ctx>>

WriteText ==
    /\ Visit("text")
    /\ IF next \in TextSections(elf) THEN WriteTextSection(elf.sections[next])
       ELSE UNCHANGED <<data, overrun, dataEnd>>
    /\ UNCHANGED <<input, argv, pageSize, initialSP, heapBase, ctx>>

Next ==
    \/ Refuse \/ Open \/ loadToMemory \/ EndOfSections \/ CopyName
    \/ loadAux \/ initializeHeap \/ SetContext
    \/ WriteData \/ WriteText

Spec == Init /\ [][Next]_vars

-----------------------------------------------------------------------------
(* What the guest finds *)

\* Type invariant of the start.
TypeOK ==
    /\ stage \in DOMAIN Order[engine] \cup {"run", "refused"}
    /\ next \in 1 .. Len(elf.sections) + 1
    /\ DOMAIN data = Address /\ overrun \in BOOLEAN
    /\ {dataEnd, initialSP, heapBase, ctx.sp} \subseteq Word
    /\ pageSize \in {DefaultPage, HostPage}

Running == stage = "run"

\* The address and the first address behind section i, as it is loaded.
StartOf(i) == LoadAddress(elf, elf.sections[i])
EndOf(i) == StartOf(i) + ByteSize(elf.sections[i])

\* Sections and initial stack have room, the text of a translated program also at its
\* virtual address: the guest's memory is large enough.
Fits ==
    /\ \A i \in Sections(elf) : EndOf(i) <= initialSP
    /\ engine = "translated" =>
           \A i \in TextSections(elf) : elf.sections[i].addr + ByteSize(elf.sections[i]) <= initialSP
    /\ ArgsSize(GuestArgv(argv)) + SizeOf(GuestArgv(argv) \o env) <= DataSize

\* Linkers put sections in the order of their addresses and one behind the other; only
\* what takes no room in the file may lie where the next one begins (.tbss does).
Linked ==
    \A i, j \in Sections(elf) : i < j =>
        \/ StartOf(i) + elf.sections[i].size <= StartOf(j)
        \/ elf.sections[i].nobits /\ StartOf(i) <= StartOf(j)

\* What a translated program needs on top: text linked where it is loaded, in whole
\* words that all are instructions, and no zeros in the rest of another section's word.
Plain ==
    /\ \A i \in TextSections(elf) :
           LET s == elf.sections[i] IN
           s.pool = {} /\ s.size % 4 = 0 /\ ~ s.nobits /\ StartOf(i) = s.addr
    /\ \A i, j \in Sections(elf) :
           i < j /\ (elf.sections[j].nobits \/ elf.sections[j].zeros # {})
           => EndOf(i) <= StartOf(j) \/ elf.sections[i].nobits

\* The guest's own walk through its initial stack: the word at a, the string at a.
WordAt(a) ==
    CASE \A i \in 0 .. 3 : data[a + i] = Zero -> 0
      [] \A i \in 0 .. 3 : data[a + i] = <<"word", data[a][2], i>> -> data[a][2]
      [] OTHER -> -1
ReadsAs(a, s) ==
    /\ \A i \in DOMAIN s : data[a + i - 1] = Char(s[i])
    /\ data[a + Len(s)] = Zero

\* The array of strings at a reads as the strings and ends after them.
ArrayAt(a, strings) ==
    /\ \A i \in DOMAIN strings :
           /\ WordAt(a + 4 * (i - 1)) \in 1 .. DataSize - 1
           /\ ReadsAs(WordAt(a + 4 * (i - 1)), strings[i])
    /\ WordAt(a + 4 * Len(strings)) = 0

\* Whatever the host's arguments and environment, the guest that walks up its stack
\* finds argc, its arguments (under the emulator its own path first, then what
\* followed it on the command line), the environment and the page size; pointers
\* and strings do not run into each other, into a section or out of the memory.
GuestSeesArguments ==
    Running /\ Fits =>
        LET args == GuestArgv(argv)
            a == initialSP + 4
            e == a + 4 * (Len(args) + 1)
            x == e + 4 * (Len(env) + 1)
        IN  /\ WordAt(initialSP) = Len(args)
            /\ ArrayAt(a, args) /\ ArrayAt(e, env)
            /\ WordAt(x) = AT_PAGESZ /\ WordAt(x + 4) = HostPage
            /\ WordAt(x + 8) = AT_NULL /\ WordAt(x + 12) = 0
            /\ ctx.sp = initialSP
            /\ engine = "translated" => args = given
            /\ engine = "emulator" => Tail(args) = SubSeq(given, 3, Len(given))
            /\ engine = "emulator" /\ Len(given[2]) <= Len(given[1]) => args[1] = given[2]

\* Before the first instruction every byte of every section has the value of the file:
\* whole words, padding, skipped zeros and the order of the writes lose nothing. Only
\* what takes no room in the file may be covered by a later section.
SectionsLoaded ==
    Running /\ Fits /\ Linked /\ (engine = "translated" => Plain) =>
        \A i \in Sections(elf) : \A o \in 1 .. elf.sections[i].size :
            LET a == StartOf(i) + o - 1
            IN  \/ data[a] = FileByte(elf.sections[i], o)
                \/ /\ elf.sections[i].nobits
                   /\ \E j \in Sections(elf) : i < j /\ a \in StartOf(j) .. EndOf(j) - 1

\* The first address behind what is written of section i: a translated program writes its
\* text at the virtual address.
WrittenEnd(i) ==
    IF engine = "translated" /\ i \in TextSections(elf)
    THEN elf.sections[i].addr + ByteSize(elf.sections[i]) ELSE EndOf(i)

\* The heap starts on a page of the host and above everything that was written; in a
\* translated program the text counts only if data lies above it.
HeapIsFree ==
    Running /\ Fits =>
        /\ heapBase % HostPage = 0
        /\ \A i \in Sections(elf) :
              engine = "emulator" \/ (\E d \in DataSections(elf) : WrittenEnd(i) <= EndOf(d))
              => WrittenEnd(i) <= heapBase

\* When all has room, starting writes nothing outside of text, data, heap and stack:
\* the mmap arena is untouched.
ArenaUntouched ==
    Running /\ Fits => ~ overrun /\ \A a \in DataSize .. DataSize + MmapSize - 1 : data[a] = Zero
=============================================================================
