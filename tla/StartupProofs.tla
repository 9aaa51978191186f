--------------------------- MODULE StartupProofs ---------------------------
(***************************************************************************)
(* Proofs about Startup, for every ELF file, argument vector, environment  *)
(* and memory size that satisfy its assumptions.  The inductive invariant  *)
(*                                                                         *)
(*   IInv == Types /\ Names /\ Registers /\ (Small => Memory)              *)
(*                                                                         *)
(* says for every stage of main() which sections are loaded (Loaded), that *)
(* a byte that is not zero has an owner (Owned: a loaded section or the    *)
(* initial stack), that loaded sections still have their bytes             *)
(* (BytesLoaded) and that the stack is as loadAux left it (StackIntact).   *)
(***************************************************************************)
EXTENDS Startup, WellFoundedInduction, TLAPS

AuxDone == stage \in {"heap", "context", "data", "text", "run"}
HeapDone == stage \in (IF engine = "emulator" THEN {"context", "run"} ELSE {"text", "run"})
ContextDone == stage \in (IF engine = "emulator" THEN {"run"} ELSE {"data", "heap", "text", "run"})

\* The sections that are loaded: by the emulator, as data, as text.
LoadedSections ==
    CASE stage \in {"open", "refused"} -> {}
      [] stage = "sections" -> {i \in Sections(elf) : i < next}
      [] OTHER -> Sections(elf)
LoadedData ==
    CASE stage \in {"aux", "context"} -> {}
      [] stage = "data" -> {i \in DataSections(elf) : i < next}
      [] OTHER -> DataSections(elf)
LoadedText ==
    CASE stage = "text" -> {i \in TextSections(elf) : i < next}
      [] stage = "run" -> TextSections(elf)
      [] OTHER -> {}
LoadedByLoop == IF engine = "emulator" THEN LoadedSections ELSE LoadedData
LoadedLast == IF engine = "emulator" THEN {} ELSE LoadedText
Loaded == LoadedByLoop \cup LoadedLast

Range(i) == StartOf(i) .. EndOf(i) - 1
TextRange(i) == elf.sections[i].addr .. elf.sections[i].addr + ByteSize(elf.sections[i]) - 1
StackRange == initialSP .. DataSize - 1

Blank == [x \in Address |-> Zero]

\* The memory of a program with nothing but its initial stack.
StackImage(args, sp) ==
    Overlay(Overlay(Blank, sp, StackBytes(args, sp)),
            (sp + ArgsSize(args)) % WordMod, StringBytes(args \o env))

Types ==
    /\ TypeOK
    /\ engine \in {"emulator", "translated"}
    /\ elf \in Binaries
    /\ given \in Arguments
    /\ env \in Environments
    /\ argv \in Seq(Strings)

Names ==
    /\ engine = "translated" => argv = given
    /\ engine = "emulator" =>
        /\ Len(argv) = Len(given)
        /\ \A k \in 3 .. Len(given) : argv[k] = given[k]
        /\ stage \notin {"open", "refused"} => Len(given) >= 2
        /\ stage \in {"open", "refused", "sections", "name"} => argv = given
        /\ stage \notin {"open", "refused", "sections", "name"} /\ Len(given[2]) <= Len(given[1])
           => argv[1] = given[2]

Registers ==
    /\ AuxDone => initialSP = StackTop(GuestArgv(argv)) /\ pageSize = HostPage
    /\ ContextDone => ctx.sp = initialSP
    /\ stage \notin {"sections", "data", "text"} => next = 1
    /\ HeapDone => heapBase = pageAlignAddress(dataEnd) % WordMod

Small ==
    /\ \A i \in Sections(elf) : EndOf(i) <= DataSize
    /\ AuxDone => Fits

Owned(x) ==
    \/ \E i \in LoadedByLoop : ~ elf.sections[i].nobits /\ x \in Range(i)
    \/ \E i \in LoadedLast : x \in TextRange(i)
    \/ AuxDone /\ x \in StackRange

InPlace(i, o) ==
    \/ data[StartOf(i) + o - 1] = FileByte(elf.sections[i], o)
    \/ elf.sections[i].nobits /\ \E j \in Loaded : i < j /\ StartOf(i) + o - 1 \in Range(j)

NothingLost == \A x \in Address : data[x] # Zero => Owned(x)
StackIntact == AuxDone => \A x \in StackRange : data[x] = StackImage(GuestArgv(argv), initialSP)[x]
EndKnown == dataEnd <= DataSize /\ \A i \in LoadedByLoop : EndOf(i) <= dataEnd
BytesLoaded ==
    Linked /\ (engine = "translated" => Plain) =>
        \A i \in Loaded : \A o \in 1 .. elf.sections[i].size : InPlace(i, o)

Memory ==
    /\ ~ overrun
    /\ NothingLost
    /\ StackIntact
    /\ EndKnown
    /\ BytesLoaded

IInv == Types /\ Names /\ Registers /\ (Small => Memory)

-----------------------------------------------------------------------------
(* Sections *)

\* A nonempty set of naturals has a least element.
LEMMA LeastNat ==
    ASSUME NEW S \in SUBSET Nat, S # {}
    PROVE  \E n \in S : \A m \in S : n <= m
<1> DEFINE R == {ss \in Nat \X Nat : ss[1] < ss[2]}
<1>1. IsWellFoundedOn(R, Nat)
  BY NatLessThanWellFounded, Zenon DEF OpToRel
<1>2. PICK x \in S : \A y \in S : ~ (<<y, x>> \in R)
  <2> HIDE DEF R
  <2> QED
    BY <1>1, WFMin, Zenon
<1>3. ASSUME NEW y \in S PROVE x <= y
  <2>1. x \in Nat /\ y \in Nat
    OBVIOUS
  <2>2. y < x => <<y, x>> \in R
    BY <2>1
  <2>3. ~ (y < x)
    BY <1>2, <2>2
  <2> HIDE DEF R
  <2>4. QED
    BY <2>1, <2>3
<1>4. QED
  BY <1>3

\* The sizes of the guest's memory.
LEMMA Sizes ==
    /\ WordMod \in Nat /\ DataSize \in Nat /\ DataSize > 0 /\ MmapSize \in Nat
    /\ DataSize + MmapSize < WordMod
    /\ DefaultPage \in Nat /\ DefaultPage > 0 /\ HostPage \in Nat /\ HostPage > 0
    /\ DataSize + HostPage <= WordMod
BY StartupAssumption

\* Words are not changed by the arithmetic modulo their number.
LEMMA ModSmall == \A x \in 0 .. WordMod - 1 : x % WordMod = x
BY Sizes

\* What an ELF file is made of.
LEMMA BinaryFacts ==
    ASSUME NEW b \in Binaries
    PROVE  /\ b.sections \in Seq(SectionType) /\ b.segments \in Seq(SegmentType)
           /\ Sections(b) \subseteq 1 .. Len(b.sections)
           /\ TextSections(b) \subseteq Sections(b) /\ DataSections(b) \subseteq Sections(b)
           /\ Sections(b) = TextSections(b) \cup DataSections(b)
           /\ TextSections(b) \cap DataSections(b) = {}
           /\ Len(b.sections) \in Nat
<1>1. b \in BinaryType
  BY StartupAssumption
<1>2. b.sections \in Seq(SectionType) /\ b.segments \in Seq(SegmentType)
  BY <1>1 DEF BinaryType
<1>3. QED
  BY <1>2 DEF Sections, TextSections, DataSections

\* A section is loaded to an address that is a word.
LEMMA LoadAddressType ==
    ASSUME NEW b \in Binaries, NEW i \in Sections(b)
    PROVE  LoadAddress(b, b.sections[i]) \in Word
<1> DEFINE s == b.sections[i]
           H == Holding(b, s)
           g == CHOOSE g \in H : \A h \in H : g <= h
<1>1. b.segments \in Seq(SegmentType) /\ b.sections \in Seq(SectionType)
  BY BinaryFacts
<1>2. H # {} /\ i \in DOMAIN b.sections
  BY DEF Sections
<1>3. H \subseteq DOMAIN b.segments
  BY DEF Holding
<1>4. DOMAIN b.segments \subseteq Nat
  BY <1>1
<1>5. \E m \in H : \A h \in H : m <= h
  <2> HIDE DEF H
  <2> QED
    BY <1>2, <1>3, <1>4, LeastNat
<1>6. g \in H
  <2> HIDE DEF H
  <2> QED
    BY <1>5
<1>7. g \in DOMAIN b.segments
  BY <1>3, <1>6
<1>8. b.segments[g] \in SegmentType
  <2> HIDE DEF g
  <2> QED
    BY <1>1, <1>7
<1>9. s \in SectionType
  BY <1>1, <1>2
<1> DEFINE seg == b.segments[g]
<1>10. seg.paddr \in Int /\ seg.vaddr \in Int /\ s.addr \in Int
  <2> HIDE DEF s, g
  <2> QED
    BY <1>8, <1>9 DEF SegmentType, SectionType, Word
<1>11. LoadAddress(b, s) = (seg.paddr + (s.addr - seg.vaddr)) % WordMod
  BY DEF LoadAddress
<1> HIDE DEF seg, s
<1>12. (seg.paddr + (s.addr - seg.vaddr)) % WordMod \in 0 .. WordMod - 1
  BY <1>10, Sizes
<1>13. QED
  BY <1>11, <1>12 DEF Word, s

\* Section headers.
LEMMA SectionFacts ==
    ASSUME NEW b \in Binaries, NEW i \in Sections(b), NEW s, s = b.sections[i]
    PROVE  /\ s \in SectionType /\ i \in Nat /\ i \in 1 .. Len(b.sections)
           /\ s.addr \in Nat /\ s.size \in Nat /\ s.nobits \in BOOLEAN
           /\ ByteSize(s) \in Nat /\ s.size <= ByteSize(s)
           /\ s.size % 4 = 0 => ByteSize(s) = s.size
           /\ LoadAddress(b, s) \in Nat /\ LoadAddress(b, s) < WordMod
           /\ s.zeros \subseteq 0 .. (s.size \div 4) - 1
<1>1. b.sections \in Seq(SectionType) /\ i \in 1 .. Len(b.sections) /\ Len(b.sections) \in Nat
  BY BinaryFacts
<1>2. s \in SectionType /\ i \in Nat
  BY <1>1
<1>3. s.addr \in Word /\ s.size \in Word /\ s.nobits \in BOOLEAN
  BY <1>2 DEF SectionType
<1>4. s.addr \in Nat /\ s.size \in Nat
  BY <1>3, Sizes DEF Word
<1> DEFINE n == s.size
<1>5. 4 * ((n + 3) \div 4) \in Nat /\ n <= 4 * ((n + 3) \div 4)
      /\ (n % 4 = 0 => 4 * ((n + 3) \div 4) = n)
  <2>1. n \in Nat
    BY <1>4
  <2> HIDE DEF n
  <2> QED
    BY <2>1
<1>6. ByteSize(s) = 4 * ((n + 3) \div 4)
  BY DEF ByteSize
<1>7. LoadAddress(b, s) \in Nat /\ LoadAddress(b, s) < WordMod
  BY LoadAddressType, Sizes DEF Word
<1>8. s.zeros \subseteq 0 .. (s.size \div 4) - 1
  <2>1. i \in DOMAIN b.sections
    BY <1>1
  <2>2. QED
    BY <2>1, StartupAssumption
<1>9. QED
  <2> HIDE DEF n
  <2>1. s.size = n
    BY DEF n
  <2>2. QED
    BY <1>1, <1>2, <1>3, <1>4, <1>5, <1>6, <1>7, <1>8, <2>1

\* The bytes of a section: none is Kept, those of the file are in their place, and one
\* that is zero is in a word of zeros or takes no room in the file.
LEMMA ContentFacts ==
    ASSUME NEW s, ByteSize(s) \in Nat, s.size \in Nat, s.size <= ByteSize(s)
    PROVE  /\ DOMAIN Content(s) = 1 .. ByteSize(s) /\ Len(Content(s)) = ByteSize(s)
           /\ \A o \in 1 .. ByteSize(s) :
                 /\ Content(s)[o] # Kept
                 /\ s.nobits => Content(s)[o] = Zero
                 /\ o <= s.size => Content(s)[o] = FileByte(s, o)
           /\ \A o \in 1 .. s.size : FileByte(s, o) = Zero => s.nobits \/ s.zeros # {}
<1> DEFINE n == ByteSize(s)
<1> HIDE DEF n
<1>1. n \in Nat /\ s.size <= n
  BY DEF n
<1>2. DOMAIN Content(s) = 1 .. n
  BY DEF Content, n
<1>3. Len(Content(s)) = n
  BY <1>1, <1>2
<1>4. ASSUME NEW o \in 1 .. n
      PROVE  /\ Content(s)[o] # Kept
             /\ s.nobits => Content(s)[o] = Zero
             /\ o <= s.size => Content(s)[o] = FileByte(s, o)
  <2>1. Content(s)[o] = IF s.nobits THEN Zero ELSE IF o <= s.size THEN FileByte(s, o) ELSE Junk
    BY DEF Content, n
  <2>2. Zero # Kept /\ Junk # Kept /\ FileByte(s, o) # Kept
    BY DEF Zero, Kept, Junk, FileByte
  <2>3. s.nobits => FileByte(s, o) = Zero
    BY DEF FileByte
  <2>4. QED
    BY <2>1, <2>2, <2>3
<1>5. ASSUME NEW o \in 1 .. s.size, FileByte(s, o) = Zero
      PROVE  s.nobits \/ s.zeros # {}
  BY <1>5 DEF FileByte, Zero
<1>6. QED
  BY <1>2, <1>3, <1>4, <1>5 DEF n

\* What emitGeneratedMain writes of a data section: the bytes that are not zero.
LEMMA NonZeroFacts ==
    ASSUME NEW s, ByteSize(s) \in Nat, s.size \in Nat, s.size <= ByteSize(s)
    PROVE  /\ DOMAIN NonZero(s) = 1 .. ByteSize(s) /\ Len(NonZero(s)) = ByteSize(s)
           /\ \A o \in 1 .. ByteSize(s) :
                 NonZero(s)[o] = IF Content(s)[o] = Zero THEN Kept ELSE Content(s)[o]
<1> DEFINE n == ByteSize(s)
<1>1. n \in Nat
  BY DEF n
<1>2. DOMAIN Content(s) = 1 .. n
  BY ContentFacts
<1>3. DOMAIN NonZero(s) = 1 .. n
  BY <1>2 DEF NonZero
<1> HIDE DEF n
<1>4. Len(NonZero(s)) = n
  BY <1>1, <1>3
<1>5. \A o \in 1 .. n : NonZero(s)[o] = IF Content(s)[o] = Zero THEN Kept ELSE Content(s)[o]
  BY <1>2 DEF NonZero
<1>6. QED
  BY <1>3, <1>4, <1>5 DEF n

\* What it writes of text.
LEMMA DecodedFacts ==
    ASSUME NEW s, ByteSize(s) \in Nat, s.size \in Nat, s.size <= ByteSize(s)
    PROVE  /\ DOMAIN Decoded(s) = 1 .. ByteSize(s) /\ Len(Decoded(s)) = ByteSize(s)
           /\ s.pool = {} => \A o \in 1 .. ByteSize(s) : Decoded(s)[o] = Content(s)[o]
<1> DEFINE n == ByteSize(s)
<1>1. n \in Nat
  BY DEF n
<1>2. DOMAIN Content(s) = 1 .. n
  BY ContentFacts
<1>3. DOMAIN Decoded(s) = 1 .. n
  BY <1>2 DEF Decoded
<1> HIDE DEF n
<1>4. Len(Decoded(s)) = n
  BY <1>1, <1>3
<1>5. s.pool = {} => \A o \in 1 .. n : Decoded(s)[o] = Content(s)[o]
  BY <1>2 DEF Decoded
<1>6. QED
  BY <1>3, <1>4, <1>5 DEF n

\* A write changes its own bytes and no other, and inside of the memory it is no overrun.
LEMMA WriteFacts ==
    ASSUME NEW a \in Nat, NEW n \in Nat, NEW bytes, DOMAIN bytes = 1 .. n, Len(bytes) = n,
           Write(a, bytes)
    PROVE  /\ DOMAIN data' = Address
           /\ \A x \in Address :
                 data'[x] = IF x \in a .. a + n - 1 /\ bytes[x - a + 1] # Kept
                            THEN bytes[x - a + 1] ELSE data[x]
           /\ overrun' \in BOOLEAN
           /\ a + n <= DataSize + MmapSize /\ ~ overrun => ~ overrun'
<1>1. data' = Overlay(data, a, bytes) /\ overrun' = (overrun \/ Outside(a, bytes))
  BY DEF Write
<1>2. DOMAIN data' = Address
  BY <1>1 DEF Overlay
<1>3. ASSUME NEW x \in Address
      PROVE  data'[x] = IF x \in a .. a + n - 1 /\ bytes[x - a + 1] # Kept
                        THEN bytes[x - a + 1] ELSE data[x]
  BY <1>1 DEF Overlay
<1>4. ASSUME a + n <= DataSize + MmapSize PROVE ~ Outside(a, bytes)
  BY <1>4, Sizes DEF Outside, Address
<1>5. QED
  BY <1>1, <1>2, <1>3, <1>4

-----------------------------------------------------------------------------
(* The strings of the initial stack *)

\* The recursive function behind Ends exists.
LEMMA EndsExist ==
    ASSUME NEW strings, NEW n \in Nat
    PROVE  \E f : f = [i \in 0 .. n |-> IF i = 0 THEN 0 ELSE f[i - 1] + ptrStringSize(strings[i])]
<1> DEFINE Z(i) == ptrStringSize(strings[i])
           F(m) == \E f : f = [i \in 0 .. m |-> IF i = 0 THEN 0 ELSE f[i - 1] + Z(i)]
           Bad == {m \in Nat : ~ F(m)}
<1> HIDE DEF Z
<1>1. SUFFICES ASSUME Bad # {} PROVE FALSE
  <2>1. n \notin Bad
    BY <1>1
  <2>2. F(n)
    BY <2>1
  <2>3. QED
    BY <2>2 DEF Z
<1>2. PICK m \in Bad : \A k \in Bad : m <= k
  <2>1. Bad \in SUBSET Nat
    OBVIOUS
  <2> HIDE DEF Bad
  <2>2. QED
    BY <1>1, <2>1, LeastNat
<1>3. m \in Nat /\ ~ F(m)
  OBVIOUS
<1>4. m # 0
  <2> DEFINE f == [i \in 0 .. 0 |-> 0]
  <2>1. f = [i \in 0 .. 0 |-> IF i = 0 THEN 0 ELSE f[i - 1] + Z(i)]
    OBVIOUS
  <2>2. F(0)
    <3> HIDE DEF f
    <3> QED
      BY <2>1
  <2>3. QED
    BY <1>3, <2>2
<1>5. m - 1 \in Nat /\ F(m - 1)
  <2>1. m - 1 \in Nat /\ ~ (m <= m - 1)
    BY <1>3, <1>4
  <2>2. m - 1 \notin Bad
    <3> HIDE DEF Bad
    <3> QED
      BY <1>2, <2>1
  <2>3. QED
    BY <2>1, <2>2
<1>6. PICK f : f = [i \in 0 .. m - 1 |-> IF i = 0 THEN 0 ELSE f[i - 1] + Z(i)]
  BY <1>5
<1> DEFINE g == [i \in 0 .. m |-> IF i = m THEN f[m - 1] + Z(m) ELSE f[i]]
<1>7. ASSUME NEW i \in 0 .. m
      PROVE  g[i] = IF i = 0 THEN 0 ELSE g[i - 1] + Z(i)
  <2>1. CASE i = m
    <3>1. g[i] = f[m - 1] + Z(m) /\ i # 0
      BY <1>4, <2>1
    <3>2. m - 1 \in 0 .. m /\ m - 1 # m
      BY <1>5, <1>3
    <3>3. g[i - 1] = f[m - 1]
      BY <2>1, <3>2
    <3>4. QED
      BY <2>1, <3>1, <3>3
  <2>2. CASE i # m
    <3>1. i \in 0 .. m - 1
      BY <2>2, <1>3
    <3>2. g[i] = f[i]
      BY <2>2
    <3>3. f[i] = IF i = 0 THEN 0 ELSE f[i - 1] + Z(i)
      BY <3>1, <1>6
    <3>4. i # 0 => i - 1 \in 0 .. m /\ i - 1 # m
      BY <3>1, <1>3
    <3>5. i # 0 => g[i - 1] = f[i - 1]
      BY <3>4
    <3> HIDE DEF g
    <3>6. QED
      BY <3>2, <3>3, <3>5
  <2>3. QED
    BY <2>1, <2>2
<1>8. g = [i \in 0 .. m |-> IF i = 0 THEN 0 ELSE g[i - 1] + Z(i)]
  <2>1. g = [i \in 0 .. m |-> g[i]]
    OBVIOUS
  <2> HIDE DEF g
  <2>2. QED
    BY <1>7, <2>1
<1>9. F(m)
  <2> HIDE DEF g
  <2> QED
    BY <1>8
<1>10. QED
  BY <1>3, <1>9

\* Where strings end: each takes its characters and one byte more.
LEMMA EndsFacts ==
    ASSUME NEW strings \in Seq(Strings), NEW n, n = Len(strings)
    PROVE  /\ n \in Nat
           /\ DOMAIN Ends(strings) = 0 .. n
           /\ Ends(strings)[0] = 0
           /\ \A i \in 1 .. n : /\ strings[i] \in Seq(1 .. 255) /\ Len(strings[i]) \in Nat
                                /\ Ends(strings)[i] = Ends(strings)[i - 1] + Len(strings[i]) + 1
           /\ \A i \in 0 .. n : Ends(strings)[i] \in Nat
           /\ \A j \in 0 .. n : \A i \in 0 .. j : Ends(strings)[i] <= Ends(strings)[j]
<1> DEFINE f == Ends(strings)
<1>1. n \in Nat
  OBVIOUS
<1>2. f = [i \in 0 .. n |-> IF i = 0 THEN 0 ELSE f[i - 1] + ptrStringSize(strings[i])]
  <2>1. \E e : e = [i \in 0 .. n |-> IF i = 0 THEN 0 ELSE e[i - 1] + ptrStringSize(strings[i])]
    BY <1>1, EndsExist
  <2>2. QED
    BY <2>1, Zenon DEF Ends
<1> HIDE DEF f
<1>3. DOMAIN f = 0 .. n /\ f[0] = 0
  BY <1>1, <1>2
<1>4. ASSUME NEW i \in 1 .. n
      PROVE  /\ strings[i] \in Seq(1 .. 255) /\ Len(strings[i]) \in Nat
             /\ f[i] = f[i - 1] + (Len(strings[i]) + 1)
  <2>1. strings[i] \in Strings
    BY <1>1
  <2>2. strings[i] \in Seq(1 .. 255)
    BY <2>1, StartupAssumption
  <2>3. f[i] = f[i - 1] + ptrStringSize(strings[i])
    BY <1>1, <1>2
  <2>4. Len(strings[i]) \in Nat
    BY <2>2
  <2>5. QED
    BY <2>2, <2>3, <2>4 DEF ptrStringSize
<1>5. \A i \in 0 .. n : f[i] \in Nat
  <2> DEFINE Bad == {i \in Nat : i <= n /\ f[i] \notin Nat}
  <2>1. SUFFICES ASSUME Bad # {} PROVE FALSE
    BY <1>1
  <2>2. PICK m \in Bad : \A k \in Bad : m <= k
    <3>1. Bad \in SUBSET Nat
      OBVIOUS
    <3> HIDE DEF Bad
    <3>2. QED
      BY <2>1, <3>1, LeastNat
  <2>3. m \in Nat /\ m <= n /\ f[m] \notin Nat
    OBVIOUS
  <2>4. m # 0
    BY <1>3, <2>3
  <2>5. m - 1 \in Nat /\ m - 1 <= n /\ ~ (m <= m - 1) /\ m \in 1 .. n
    BY <1>1, <2>3, <2>4
  <2>6. m - 1 \notin Bad
    <3> HIDE DEF Bad
    <3> QED
      BY <2>2, <2>5
  <2>7. f[m - 1] \in Nat
    BY <2>5, <2>6
  <2>8. f[m] = f[m - 1] + (Len(strings[m]) + 1) /\ Len(strings[m]) \in Nat
    BY <1>4, <2>5
  <2>9. QED
    BY <2>3, <2>7, <2>8
<1>6. \A j \in 0 .. n : \A i \in 0 .. j : f[i] <= f[j]
  <2> DEFINE Bad == {j \in Nat : j <= n /\ \E i \in 0 .. j : ~ (f[i] <= f[j])}
  <2>1. SUFFICES ASSUME Bad # {} PROVE FALSE
    BY <1>1
  <2>2. PICK m \in Bad : \A k \in Bad : m <= k
    <3>1. Bad \in SUBSET Nat
      OBVIOUS
    <3> HIDE DEF Bad
    <3>2. QED
      BY <2>1, <3>1, LeastNat
  <2>3. m \in Nat /\ m <= n
    OBVIOUS
  <2>4. PICK i \in 0 .. m : ~ (f[i] <= f[m])
    OBVIOUS
  <2>5. i # m
    BY <1>5, <2>3, <2>4
  <2>6. m - 1 \in Nat /\ m - 1 <= n /\ ~ (m <= m - 1) /\ m \in 1 .. n /\ i \in 0 .. m - 1
    BY <1>1, <2>3, <2>5
  <2>7. m - 1 \notin Bad
    <3> HIDE DEF Bad
    <3> QED
      BY <2>2, <2>6
  <2>8. f[i] <= f[m - 1]
    BY <2>6, <2>7
  <2>9. f[m] = f[m - 1] + (Len(strings[m]) + 1) /\ Len(strings[m]) \in Nat
    BY <1>4, <2>6
  <2>10. f[m] \in Nat /\ f[m - 1] \in Nat /\ f[i] \in Nat
    BY <1>1, <1>5, <2>6
  <2>11. QED
    BY <2>4, <2>8, <2>9, <2>10
<1>7. ASSUME NEW i \in 1 .. n
      PROVE  f[i] = f[i - 1] + Len(strings[i]) + 1
  <2>1. i - 1 \in 0 .. n
    BY <1>1
  <2>2. f[i - 1] \in Nat /\ Len(strings[i]) \in Nat /\ f[i] = f[i - 1] + (Len(strings[i]) + 1)
    BY <1>4, <1>5, <2>1
  <2>3. QED
    BY <2>2
<1>8. QED
  BY <1>1, <1>3, <1>4, <1>5, <1>6, <1>7 DEF f

\* Character c of a string, the last one being its end; and the bytes of string i.
CharOf(s, c) == IF c <= Len(s) THEN Char(s[c]) ELSE Zero
StringWritten(strings, i) ==
    \A c \in 1 .. Len(strings[i]) + 1 : \A o : o = Ends(strings)[i - 1] + c =>
        o \in 1 .. SizeOf(strings) /\ StringBytes(strings)[o] = CharOf(strings[i], c)

\* The byte at o of the strings: a character of the string that has it, or its end.
LEMMA StringBytesFacts ==
    ASSUME NEW strings \in Seq(Strings), NEW n, n = Len(strings),
           NEW i \in 1 .. n
    PROVE  StringWritten(strings, i)
<1> SUFFICES ASSUME NEW c \in 1 .. Len(strings[i]) + 1, NEW o, o = Ends(strings)[i - 1] + c
             PROVE  o \in 1 .. SizeOf(strings) /\ StringBytes(strings)[o] = CharOf(strings[i], c)
  BY DEF StringWritten
<1> DEFINE f == Ends(strings)
<1>1. /\ n \in Nat /\ f[0] = 0 /\ i - 1 \in 0 .. n
      /\ \A k \in 1 .. n : Len(strings[k]) \in Nat /\ f[k] = f[k - 1] + Len(strings[k]) + 1
      /\ \A k \in 0 .. n : f[k] \in Nat
      /\ \A j \in 0 .. n : \A k \in 0 .. j : f[k] <= f[j]
  BY EndsFacts
<1> HIDE DEF f
<1>2. /\ f[i - 1] \in Nat /\ f[i] \in Nat /\ f[n] \in Nat /\ i - 1 \in 0 .. n /\ i \in 0 .. n
      /\ f[i] = f[i - 1] + Len(strings[i]) + 1 /\ Len(strings[i]) \in Nat /\ f[i] <= f[n]
      /\ o = f[i - 1] + c
  <2>1. i \in 0 .. n /\ n \in 0 .. n /\ i \in Nat
    BY <1>1
  <2>2. QED
    BY <1>1, <2>1 DEF f
<1>3. f[i - 1] < o /\ o <= f[i] /\ o \in Nat
  BY <1>2
<1>4. ASSUME NEW k \in 1 .. n, f[k - 1] < o, o <= f[k]
      PROVE  k = i
  <2>1. k \in Nat /\ k \in 0 .. n /\ k - 1 \in 0 .. n /\ i \in Nat
    BY <1>1
  <2>2. f[k] \in Nat /\ f[k - 1] \in Nat
    BY <1>1, <2>1
  <2>3. CASE k < i
    <3>1. PICK h \in 0 .. n : h = i - 1
      BY <1>1
    <3>4. k \in 0 .. h
      BY <2>1, <2>3, <3>1
    <3>5. f[k] <= f[h]
      BY <1>1, <3>4
    <3>2. f[h] < o
      BY <1>3, <3>1
    <3>3. f[h] \in Nat
      BY <1>1
    <3>6. QED
      BY <1>3, <1>4, <2>2, <3>2, <3>3, <3>5
  <2>4. CASE i < k
    <3>1. PICK h \in 0 .. n : h = k - 1
      BY <2>1
    <3>4. i \in 0 .. h
      BY <2>1, <2>4, <3>1
    <3>5. f[i] <= f[h]
      BY <1>1, <3>4
    <3>2. f[h] < o
      BY <1>4, <3>1
    <3>3. f[h] \in Nat
      BY <1>1
    <3>6. QED
      BY <1>2, <1>3, <2>2, <3>2, <3>3, <3>5
  <2>5. QED
    BY <2>1, <2>3, <2>4
<1>5. DOMAIN strings = 1 .. n
  OBVIOUS
<1>6. i = CHOOSE k \in DOMAIN strings : f[k - 1] < o /\ o <= f[k]
  BY <1>3, <1>4, <1>5
<1>7. SizeOf(strings) = f[n]
  BY DEF SizeOf, f
<1>8. o \in 1 .. SizeOf(strings)
  BY <1>2, <1>3, <1>7
<1> DEFINE no == CHOOSE k \in DOMAIN strings : f[k - 1] < o /\ o <= f[k]
<1>9. StringBytes(strings)[o] =
          IF o - f[no - 1] <= Len(strings[no]) THEN Char(strings[no][o - f[no - 1]]) ELSE Zero
  BY <1>8 DEF StringBytes, f
<1> HIDE DEF no
<1>10. no = i
  BY <1>6 DEF no
<1>11. o - f[i - 1] = c
  BY <1>2
<1>12. QED
  BY <1>8, <1>9, <1>10, <1>11 DEF CharOf

\* Every byte of the strings belongs to one of them, and is written.
LEMMA StringBytesCover ==
    ASSUME NEW strings \in Seq(Strings)
    PROVE  /\ SizeOf(strings) \in Nat
           /\ DOMAIN StringBytes(strings) = 1 .. SizeOf(strings)
           /\ Len(StringBytes(strings)) = SizeOf(strings)
           /\ \A o \in 1 .. SizeOf(strings) : StringBytes(strings)[o] # Kept
<1> DEFINE n == Len(strings)
           z == SizeOf(strings)
<1>1. n \in Nat /\ n \in 0 .. n
  OBVIOUS
<1>2. z \in Nat
  BY <1>1, EndsFacts DEF SizeOf
<1>3. DOMAIN StringBytes(strings) = 1 .. z
  BY DEF StringBytes
<1> HIDE DEF z
<1>4. Len(StringBytes(strings)) = z
  BY <1>2, <1>3
<1>5. ASSUME NEW o \in 1 .. z PROVE StringBytes(strings)[o] # Kept
  <2>1. \A c : Char(c) # Kept
    BY DEF Char, Kept
  <2>2. Zero # Kept
    BY DEF Zero, Kept
  <2> DEFINE f == Ends(strings)
             k == CHOOSE i \in DOMAIN strings : f[i - 1] < o /\ o <= f[i]
             c == o - f[k - 1]
  <2>3. StringBytes(strings)[o] = IF c <= Len(strings[k]) THEN Char(strings[k][c]) ELSE Zero
    BY DEF StringBytes, z
  <2> HIDE DEF k, c
  <2>4. QED
    BY <2>1, <2>2, <2>3
<1>6. QED
  BY <1>2, <1>3, <1>4, <1>5 DEF z

\* The arguments the guest gets.
LEMMA GuestArgvFacts ==
    ASSUME NEW a \in Seq(Strings), engine \in {"emulator", "translated"}
    PROVE  /\ GuestArgv(a) \in Seq(Strings)
           /\ engine = "translated" => GuestArgv(a) = a
           /\ engine = "emulator" /\ Len(a) >= 2 =>
                 GuestArgv(a)[1] = a[1] /\ Tail(GuestArgv(a)) = SubSeq(a, 3, Len(a))
<1>1. CASE engine = "translated" \/ Len(a) < 2
  <2>1. GuestArgv(a) = a
    BY <1>1 DEF GuestArgv, Without2nd
  <2>2. Len(a) \in Nat
    OBVIOUS
  <2>3. QED
    BY <1>1, <2>1, <2>2
<1>2. CASE engine = "emulator" /\ ~ (Len(a) < 2)
  <2> DEFINE r == SubSeq(a, 3, Len(a))
  <2>1. Len(a) \in Nat /\ Len(a) >= 2 /\ a[1] \in Strings
    BY <1>2
  <2>2. GuestArgv(a) = <<a[1]>> \o r
    BY <1>2 DEF GuestArgv, Without2nd
  <2>3. r \in Seq(Strings)
    BY <2>1
  <2> HIDE DEF r
  <2>4. <<a[1]>> \in Seq(Strings)
    BY <2>1
  <2>5. <<a[1]>> \o r \in Seq(Strings)
    BY <2>3, <2>4
  <2>6. (<<a[1]>> \o r)[1] = a[1]
    BY <2>3, <2>4
  <2>7. Tail(<<a[1]>> \o r) = r
    BY <2>1, <2>3
  <2>8. QED
    BY <1>2, <2>2, <2>5, <2>6, <2>7 DEF r
<1>3. QED
  BY <1>1, <1>2

\* The sizes of the initial stack: it is at an address that is a word and, when there is
\* room for it, ends where the data ends.
LEMMA StackFacts ==
    ASSUME NEW args \in Seq(Strings), env \in Seq(Strings)
    PROVE  /\ ArgsSize(args) = 4 * (Len(args) + Len(env) + 7)
           /\ ArgsSize(args) \in Nat /\ SizeOf(args \o env) \in Nat
           /\ StackTop(args) \in Word
           /\ ArgsSize(args) + SizeOf(args \o env) <= DataSize =>
                 /\ StackTop(args) + ArgsSize(args) + SizeOf(args \o env) <= DataSize
                 /\ (StackTop(args) + ArgsSize(args)) % WordMod = StackTop(args) + ArgsSize(args)
<1> DEFINE n == ArgsSize(args)
           z == SizeOf(args \o env)
           t == (DataSize - n - z) % WordMod
<1>1. Len(args) \in Nat /\ Len(env) \in Nat
  OBVIOUS
<1>2. n = 4 * (Len(args) + Len(env) + 7) /\ n \in Nat /\ n >= 28
  BY <1>1 DEF ArgsSize
<1>3. z \in Nat
  <2>1. args \o env \in Seq(Strings)
    OBVIOUS
  <2>2. QED
    BY <2>1, StringBytesCover
<1>4. StackTop(args) = t - (t % 2)
  BY DEF StackTop
<1> HIDE DEF n, z
<1>5. t \in 0 .. WordMod - 1
  BY <1>2, <1>3, Sizes
<1>6. n + z <= DataSize => t = DataSize - n - z
  <2>1. n + z <= DataSize => DataSize - n - z \in 0 .. WordMod - 1
    BY <1>2, <1>3, Sizes
  <2>2. QED
    BY <1>2, <1>3, <2>1, Sizes
<1> HIDE DEF t
<1>7. StackTop(args) \in 0 .. t
  BY <1>4, <1>5
<1>8. StackTop(args) \in Word
  BY <1>5, <1>7, Sizes DEF Word
<1>9. n + z <= DataSize =>
          StackTop(args) + n + z <= DataSize /\ StackTop(args) + n \in 0 .. WordMod - 1
  BY <1>2, <1>3, <1>5, <1>6, <1>7, Sizes
<1>10. n + z <= DataSize => (StackTop(args) + n) % WordMod = StackTop(args) + n
  BY <1>9, ModSmall
<1>11. QED
  BY <1>2, <1>3, <1>8, <1>9, <1>10 DEF n, z

\* The bytes are those of the words; the two that end the arrays are not written.
WordsAre(args, sp, bytes) ==
    \A k \in 1 .. Len(args) + Len(env) + 7 : \A i \in 0 .. 3 :
        bytes[4 * (k - 1) + i + 1] =
            IF k \in {Len(args) + 2, Len(args) + Len(env) + 3} THEN Kept
            ELSE WordByte(StackWord(args, sp, k), i)

\* The bytes of the words.
LEMMA StackBytesFacts ==
    ASSUME NEW args \in Seq(Strings), env \in Seq(Strings), NEW sp
    PROVE  /\ DOMAIN StackBytes(args, sp) = 1 .. ArgsSize(args)
           /\ Len(StackBytes(args, sp)) = ArgsSize(args)
           /\ WordsAre(args, sp, StackBytes(args, sp))
<1> DEFINE n == ArgsSize(args)
<1>1. n = 4 * (Len(args) + Len(env) + 7) /\ n \in Nat
  BY StackFacts
<1>2. DOMAIN StackBytes(args, sp) = 1 .. n
  BY DEF StackBytes
<1> HIDE DEF n
<1>3. Len(StackBytes(args, sp)) = n
  BY <1>1, <1>2
<1>4. ASSUME NEW k \in 1 .. Len(args) + Len(env) + 7, NEW i \in 0 .. 3
      PROVE  StackBytes(args, sp)[4 * (k - 1) + i + 1] =
                 IF k \in {Len(args) + 2, Len(args) + Len(env) + 3} THEN Kept
                 ELSE WordByte(StackWord(args, sp, k), i)
  <2> DEFINE o == 4 * (k - 1) + i + 1
  <2>1. k \in Nat /\ i \in Nat /\ Len(args) \in Nat /\ Len(env) \in Nat
    OBVIOUS
  <2>2. o \in 1 .. n /\ (o - 1) \div 4 + 1 = k /\ (o - 1) % 4 = i
    BY <1>1, <2>1
  <2> HIDE DEF o
  <2>3. StackBytes(args, sp)[o] =
            IF (o - 1) \div 4 + 1 \in {Len(args) + 2, Len(args) + Len(env) + 3} THEN Kept
            ELSE WordByte(StackWord(args, sp, (o - 1) \div 4 + 1), (o - 1) % 4)
    BY <2>2 DEF StackBytes, n
  <2>4. QED
    BY <2>2, <2>3 DEF o
<1>5. QED
  BY <1>2, <1>3, <1>4 DEF n, WordsAre

-----------------------------------------------------------------------------
(* Types, names and registers *)

\* The steps of the two engines, one by one.
LEMMA OrderFacts ==
    /\ DOMAIN Order["emulator"] = {"open", "sections", "name", "aux", "heap", "context"}
    /\ DOMAIN Order["translated"] = {"aux", "context", "data", "heap", "text"}
    /\ Order["emulator"]["open"] = "sections" /\ Order["emulator"]["sections"] = "name"
    /\ Order["emulator"]["name"] = "aux" /\ Order["emulator"]["aux"] = "heap"
    /\ Order["emulator"]["heap"] = "context" /\ Order["emulator"]["context"] = "run"
    /\ Order["translated"]["aux"] = "context" /\ Order["translated"]["context"] = "data"
    /\ Order["translated"]["data"] = "heap" /\ Order["translated"]["heap"] = "text"
    /\ Order["translated"]["text"] = "run"
BY DEF Order

\* What the type invariant says of each variable.
LEMMA TypeFacts ==
    ASSUME Types
    PROVE  /\ engine \in {"emulator", "translated"}
           /\ engine = "emulator" => stage \in {"open", "sections", "name", "aux", "heap", "context",
                                                "run", "refused"}
           /\ engine = "translated" => stage \in {"aux", "context", "data", "heap", "text",
                                                  "run", "refused"}
           /\ elf \in Binaries /\ given \in Arguments /\ given \in Seq(Strings)
           /\ env \in Environments /\ env \in Seq(Strings) /\ argv \in Seq(Strings)
           /\ next \in Nat /\ next >= 1 /\ next <= Len(elf.sections) + 1
           /\ dataEnd \in Nat /\ initialSP \in Nat /\ heapBase \in Nat
           /\ DOMAIN data = Address /\ overrun \in BOOLEAN
<1>1. given \in Seq(Strings) /\ env \in Seq(Strings)
  BY StartupAssumption DEF Types
<1>2. Len(elf.sections) \in Nat
  BY BinaryFacts DEF Types
<1>3. next \in Nat /\ next >= 1 /\ next <= Len(elf.sections) + 1
  BY <1>2 DEF Types, TypeOK
<1>4. dataEnd \in Nat /\ initialSP \in Nat /\ heapBase \in Nat
  BY Sizes DEF Types, TypeOK, Word
<1>5. /\ engine = "emulator" => stage \in {"open", "sections", "name", "aux", "heap", "context",
                                           "run", "refused"}
      /\ engine = "translated" => stage \in {"aux", "context", "data", "heap", "text",
                                             "run", "refused"}
  BY OrderFacts DEF Types, TypeOK
<1>6. QED
  BY <1>1, <1>3, <1>4, <1>5 DEF Types, TypeOK

\* The page rounding of initializeHeap.
LEMMA PageAlign ==
    ASSUME NEW P \in Nat, P > 0, NEW a \in Nat
    PROVE  /\ ((a + (P - 1)) \div P) * P \in Nat
           /\ a <= ((a + (P - 1)) \div P) * P
           /\ ((a + (P - 1)) \div P) * P < a + P
           /\ (((a + (P - 1)) \div P) * P) % P = 0
<1> DEFINE q == (a + (P - 1)) \div P
<1>1. /\ q \in Nat
      /\ q * P <= a + (P - 1)
      /\ a + (P - 1) < q * P + P
  BY SMT
<1> HIDE DEF q
<1>2. q * P \in Nat
  BY <1>1
<1>3. (q * P) % P = 0
  BY <1>1
<1>4. QED
  BY <1>1, <1>2, <1>3 DEF q

\* A write keeps the types.
LEMMA WriteTypes ==
    ASSUME NEW a, NEW bytes, Write(a, bytes)
    PROVE  DOMAIN data' = Address /\ overrun' \in BOOLEAN
BY DEF Write, Overlay

\* The end of a section is a word.
LEMMA AddrBehindType ==
    ASSUME Types, NEW i \in Sections(elf)
    PROVE  AddrBehind(elf.sections[i]) \in Word
<1> DEFINE s == elf.sections[i]
           a == LoadAddress(elf, s)
           n == ByteSize(s)
<1>1. a \in Nat /\ n \in Nat
  BY SectionFacts DEF Types
<1>2. AddrBehind(s) = (a + n) % WordMod
  BY DEF AddrBehind
<1> HIDE DEF a, n
<1>3. (a + n) % WordMod \in 0 .. WordMod - 1
  BY <1>1, Sizes
<1>4. QED
  BY <1>2, <1>3 DEF Word

\* The first state satisfies the invariant.
LEMMA InitInv == Init => IInv
<1> SUFFICES ASSUME Init PROVE IInv
  OBVIOUS
<1>1. Types
  <2>1. argv \in Seq(Strings)
    BY StartupAssumption DEF Init
  <2>2. elf \in Binaries
    BY DEF Init
  <2>3. Len(elf.sections) \in Nat
    BY <2>2, BinaryFacts
  <2>4. next \in 1 .. Len(elf.sections) + 1
    BY <2>3 DEF Init
  <2>5. stage \in DOMAIN Order[engine]
    BY OrderFacts DEF Init
  <2>6. dataEnd \in Word /\ initialSP \in Word /\ heapBase \in Word /\ ctx.sp \in Word
    BY Sizes DEF Init, Word
  <2>7. QED
    BY <2>1, <2>2, <2>4, <2>5, <2>6 DEF Init, Types, TypeOK
<1>2. Names
  BY DEF Init, Names
<1>3. Registers
  BY DEF Init, Registers, AuxDone, ContextDone, HeapDone
<1>4. LoadedByLoop = {} /\ LoadedLast = {} /\ Loaded = {} /\ ~ AuxDone
  BY DEF Init, LoadedByLoop, LoadedLast, Loaded, LoadedSections, LoadedData, LoadedText, AuxDone
<1>5. Memory
  <2>1. ~ overrun /\ dataEnd = 0 /\ \A x \in Address : data[x] = Zero
    BY DEF Init
  <2>2. QED
    BY <1>4, <2>1, Sizes DEF Memory, NothingLost, StackIntact, EndKnown, BytesLoaded
<1>6. QED
  BY <1>1, <1>2, <1>3, <1>5 DEF IInv

\* A sequence with another element in one place.
LEMMA UpdateSeq ==
    ASSUME NEW S, NEW q \in Seq(S), NEW k, NEW v \in S
    PROVE  [q EXCEPT ![k] = v] \in Seq(S)
<1> DEFINE n == Len(q)
           r == [q EXCEPT ![k] = v]
<1>1. n \in Nat /\ q \in [1 .. n -> S]
  OBVIOUS
<1>2. r \in [1 .. n -> S]
  BY <1>1
<1> HIDE DEF r, n
<1>3. QED
  BY <1>1, <1>2 DEF r

\* Every step keeps the types.
LEMMA TypesStep ==
    ASSUME Types, Next
    PROVE  Types'
<1> USE DEF input
<1>1. UNCHANGED <<engine, elf, given, env>>
  BY DEF Next, Refuse, Open, loadToMemory, EndOfSections, CopyName, loadAux, initializeHeap,
         SetContext, WriteData, WriteText
<1>2. Len(elf.sections) \in Nat
  BY BinaryFacts DEF Types
<1>3. /\ elf \in Binaries /\ given \in Arguments /\ env \in Seq(Strings) /\ argv \in Seq(Strings)
      /\ next \in Nat /\ next >= 1 /\ next <= Len(elf.sections) + 1
  BY TypeFacts
<1>4. 1 \in 1 .. Len(elf.sections) + 1
  BY <1>2
<1>5. argv' \in Seq(Strings)
  <2>1. CASE CopyName
    <3>1. PICK s, t \in Strings : argv' = [argv EXCEPT ![1] = s, ![2] = t]
      BY <2>1 DEF CopyName
    <3>2. [argv EXCEPT ![1] = s] \in Seq(Strings)
      BY <1>3, UpdateSeq
    <3>3. [[argv EXCEPT ![1] = s] EXCEPT ![2] = t] \in Seq(Strings)
      BY <3>2, UpdateSeq, Zenon
    <3>4. QED
      BY <3>1, <3>3
  <2>2. CASE ~ CopyName
    BY <1>3, <2>2 DEF Next, Refuse, Open, loadToMemory, EndOfSections, loadAux, initializeHeap,
         SetContext, WriteData, WriteText
  <2>3. QED
    BY <2>1, <2>2
<1>6. next' \in 1 .. Len(elf.sections) + 1
  <2>1. CASE Visit("sections") \/ Visit("data") \/ Visit("text")
    BY <1>2, <1>3, <2>1 DEF Visit
  <2>2. CASE next' = 1
    BY <1>4, <2>2
  <2>3. CASE next' = next
    BY <1>2, <1>3, <2>3
  <2>4. QED
    BY <2>1, <2>2, <2>3 DEF Next, Refuse, Open, loadToMemory, EndOfSections, CopyName, loadAux,
         initializeHeap, SetContext, WriteData, WriteText
<1>7. stage' \in DOMAIN Order[engine] \cup {"run", "refused"}
  <2>1. CASE stage' = stage
    BY <2>1 DEF Types, TypeOK
  <2>2. CASE stage' = "refused"
    BY <2>2
  <2>3. ASSUME NEW s \in {"open", "sections", "name", "aux", "heap", "context", "data", "text"}, At(s)
        PROVE  stage' \in DOMAIN Order[engine] \cup {"run", "refused"}
    BY <2>3, OrderFacts, TypeFacts DEF At
  <2>4. QED
    BY <2>1, <2>2, <2>3 DEF Next, Refuse, Open, loadToMemory, EndOfSections, CopyName, loadAux,
         initializeHeap, SetContext, WriteData, WriteText, Visit
<1>8. DOMAIN data' = Address /\ overrun' \in BOOLEAN /\ dataEnd' \in Word
  <2>1. CASE UNCHANGED <<data, overrun, dataEnd>>
    BY <2>1 DEF Types, TypeOK
  <2>2. ASSUME NEW i \in Sections(elf), Extend(elf.sections[i]) PROVE dataEnd' \in Word
    BY <2>2, AddrBehindType DEF Extend, Types, TypeOK
  <2>3. CASE loadToMemory
    <3>1. CASE next \in Sections(elf)
      <4>1. LoadSection(elf.sections[next])
        BY <2>3, <3>1 DEF loadToMemory
      <4>2. CASE Write(LoadAddress(elf, elf.sections[next]), Content(elf.sections[next]))
                 /\ Extend(elf.sections[next])
        BY <2>2, <3>1, <4>2, WriteTypes
      <4>3. QED
        BY <2>1, <4>1, <4>2 DEF LoadSection
    <3>2. QED
      BY <2>1, <2>3, <3>1 DEF loadToMemory
  <2>4. CASE WriteData
    <3>1. CASE next \in DataSections(elf)
      <4>1. WriteDataSection(elf.sections[next]) /\ next \in Sections(elf)
        BY <2>4, <3>1, <1>3, BinaryFacts DEF WriteData
      <4>2. QED
        BY <2>2, <4>1, WriteTypes DEF WriteDataSection
    <3>2. QED
      BY <2>1, <2>4, <3>1 DEF WriteData
  <2>5. CASE WriteText
    <3>1. CASE next \in TextSections(elf)
      <4>1. WriteTextSection(elf.sections[next])
        BY <2>5, <3>1 DEF WriteText
      <4>2. dataEnd' = dataEnd
        BY <4>1 DEF WriteTextSection
      <4>3. QED
        BY <4>1, <4>2, WriteTypes DEF WriteTextSection, Types, TypeOK
    <3>2. QED
      BY <2>1, <2>5, <3>1 DEF WriteText
  <2>6. CASE loadAux
    <3>1. DOMAIN data' = Address
      BY <2>6 DEF loadAux, Overlay
    <3>2. overrun' \in BOOLEAN
      BY <2>6 DEF loadAux
    <3>3. dataEnd' = dataEnd
      BY <2>6 DEF loadAux
    <3>4. QED
      BY <3>1, <3>2, <3>3 DEF Types, TypeOK
  <2>7. QED
    BY <2>1, <2>3, <2>4, <2>5, <2>6 DEF Next, Refuse, Open, EndOfSections, CopyName,
         initializeHeap, SetContext
<1>9. initialSP' \in Word /\ pageSize' \in {DefaultPage, HostPage}
  <2>1. CASE loadAux
    <3>1. GuestArgv(argv) \in Seq(Strings)
      BY <1>3, GuestArgvFacts DEF Types
    <3>2. StackTop(GuestArgv(argv)) \in Word
      BY <1>3, <3>1, StackFacts
    <3>3. QED
      BY <2>1, <3>2 DEF loadAux
  <2>2. CASE UNCHANGED <<initialSP, pageSize>>
    BY <2>2 DEF Types, TypeOK
  <2>3. QED
    BY <2>1, <2>2 DEF Next, Refuse, Open, loadToMemory, EndOfSections, CopyName,
         initializeHeap, SetContext, WriteData, WriteText
<1>10. heapBase' \in Word
  <2>1. CASE initializeHeap
    <3>1. pageSize \in Nat /\ pageSize > 0 /\ dataEnd \in Nat
      BY Sizes, TypeFacts DEF Types, TypeOK
    <3>2. pageAlignAddress(dataEnd) \in Nat
      BY <3>1, PageAlign DEF pageAlignAddress
    <3>3. pageAlignAddress(dataEnd) % WordMod \in 0 .. WordMod - 1
      BY <3>2, Sizes
    <3>4. QED
      BY <2>1, <3>3 DEF initializeHeap, Word
  <2>2. CASE UNCHANGED heapBase
    BY <2>2 DEF Types, TypeOK
  <2>3. QED
    BY <2>1, <2>2 DEF Next, Refuse, Open, loadToMemory, EndOfSections, CopyName, loadAux,
         SetContext, WriteData, WriteText
<1>11. ctx'.sp \in Word
  <2>1. CASE SetContext
    <3>1. ctx'.sp = initialSP
      BY <2>1 DEF SetContext
    <3>2. QED
      BY <3>1 DEF Types, TypeOK
  <2>2. CASE UNCHANGED ctx
    BY <2>2 DEF Types, TypeOK
  <2>3. QED
    BY <2>1, <2>2 DEF Next, Refuse, Open, loadToMemory, EndOfSections, CopyName, loadAux,
         initializeHeap, WriteData, WriteText
<1>12. TypeOK'
  BY <1>1, <1>6, <1>7, <1>8, <1>9, <1>10, <1>11 DEF TypeOK
<1>13. QED
  BY <1>1, <1>5, <1>12 DEF Types

\* Every step keeps what is known about the names: only strcpy changes an argument, and
\* only the first two.
LEMMA NamesStep ==
    ASSUME Types, Names, Next
    PROVE  Names'
<1> USE DEF input
<1>1. UNCHANGED <<engine, elf, given, env>>
  BY DEF Next, Refuse, Open, loadToMemory, EndOfSections, CopyName, loadAux, initializeHeap,
         SetContext, WriteData, WriteText
<1>2. argv \in Seq(Strings) /\ given \in Seq(Strings) /\ engine \in {"emulator", "translated"}
  BY TypeFacts
<1>3. CASE engine = "translated"
  <2>1. stage # "name"
    BY <1>3, TypeFacts
  <2>2. UNCHANGED argv
    BY <2>1 DEF Next, Refuse, Open, loadToMemory, EndOfSections, CopyName, loadAux, initializeHeap,
         SetContext, WriteData, WriteText, At
  <2>3. QED
    BY <1>1, <1>3, <2>2 DEF Names
<1>4. CASE engine = "emulator"
  <2>1. CASE CopyName
    <3>1. stage = "name" /\ stage' = "aux" /\ argv = given /\ Len(given) >= 2
      BY <1>4, <2>1, OrderFacts DEF CopyName, At, Names
    <3>2. PICK s, t \in Strings :
            /\ Len(argv[2]) <= Len(argv[1]) => s = argv[2]
            /\ argv' = [argv EXCEPT ![1] = s, ![2] = t]
      BY <2>1 DEF CopyName
    <3>3. Len(argv') = Len(given) /\ argv'[1] = s /\ \A k \in 3 .. Len(given) : argv'[k] = argv[k]
      BY <1>2, <3>1, <3>2
    <3>4. QED
      BY <1>1, <1>4, <3>1, <3>2, <3>3 DEF Names
  <2>2. CASE Open
    <3>1. Len(argv) >= 2 /\ UNCHANGED argv /\ stage = "open" /\ stage' = "sections"
      BY <1>4, <2>2, OrderFacts DEF Open, At
    <3>2. QED
      BY <1>1, <1>4, <3>1 DEF Names
  <2>3. CASE Refuse
    <3>1. UNCHANGED argv /\ stage = "open" /\ stage' = "refused"
      BY <2>3 DEF Refuse
    <3>2. QED
      BY <1>1, <1>4, <3>1 DEF Names
  <2>4. CASE ~ CopyName /\ ~ Open /\ ~ Refuse
    <3>1. UNCHANGED argv
      BY <2>4 DEF Next, loadToMemory, EndOfSections, loadAux, initializeHeap,
         SetContext, WriteData, WriteText
    <3>2. UNCHANGED stage \/ \E s \in {"sections", "aux", "heap", "context"} : At(s)
      BY <2>4, <1>4, TypeFacts DEF Next, loadToMemory, EndOfSections, loadAux, initializeHeap,
         SetContext, WriteData, WriteText, Visit, At
    <3>3. /\ stage' \notin {"open", "refused"} => stage \notin {"open", "refused"}
          /\ stage' \in {"open", "refused", "sections", "name"} =>
                stage \in {"open", "refused", "sections", "name"}
          /\ stage' \notin {"open", "refused", "sections", "name"} =>
                stage \notin {"open", "refused", "sections", "name"}
      BY <3>2, <1>4, OrderFacts DEF At
    <3>4. QED
      BY <1>1, <1>4, <3>1, <3>3 DEF Names
  <2>5. QED
    BY <2>1, <2>2, <2>3, <2>4
<1>5. QED
  BY <1>2, <1>3, <1>4

\* What does not depend on the steps of main().
LEMMA Frame ==
    ASSUME UNCHANGED <<engine, elf, env, argv>>
    PROVE  /\ GuestArgv(argv)' = GuestArgv(argv)
           /\ ArgsSize(GuestArgv(argv))' = ArgsSize(GuestArgv(argv))
           /\ StackTop(GuestArgv(argv))' = StackTop(GuestArgv(argv))
           /\ UNCHANGED initialSP => (Fits' <=> Fits)
           /\ \A a, sp : StackBytes(a, sp)' = StackBytes(a, sp)
           /\ UNCHANGED initialSP =>
                 StackImage(GuestArgv(argv), initialSP)' = StackImage(GuestArgv(argv), initialSP)
<1>1. GuestArgv(argv)' = GuestArgv(argv)
  BY DEF GuestArgv
<1>2. \A a : ArgsSize(a)' = ArgsSize(a)
  BY DEF ArgsSize
<1>3. ArgsSize(GuestArgv(argv))' = ArgsSize(GuestArgv(argv))
  BY <1>1 DEF ArgsSize
<1>4. StackTop(GuestArgv(argv))' = StackTop(GuestArgv(argv))
  BY <1>1, <1>3 DEF StackTop
<1>5. UNCHANGED initialSP => (Fits' <=> Fits)
  BY <1>1, <1>3 DEF Fits, EndOf, StartOf
<1>6. \A a, sp : StackBytes(a, sp)' = StackBytes(a, sp)
  BY DEF StackBytes, StackWord, ArgsSize
<1>7. UNCHANGED initialSP =>
          StackImage(GuestArgv(argv), initialSP)' = StackImage(GuestArgv(argv), initialSP)
  BY <1>1, <1>3, <1>6 DEF StackImage
<1>8. QED
  BY <1>1, <1>3, <1>4, <1>5, <1>6, <1>7

\* Every step keeps what is known about the registers, the stack pointer and the heap.
LEMMA RegistersStep ==
    ASSUME Types, Registers, Next
    PROVE  Registers'
<1> USE DEF input
<1>1. engine \in {"emulator", "translated"} /\ UNCHANGED engine
  BY TypeFacts DEF Next, Refuse, Open, loadToMemory, EndOfSections, CopyName, loadAux, initializeHeap,
         SetContext, WriteData, WriteText
<1>2. CASE Refuse
  <2>1. stage' = "refused" /\ next' = next /\ stage = "open"
    BY <1>2 DEF Refuse
  <2>2. QED
    BY <2>1 DEF Registers, AuxDone, ContextDone, HeapDone
<1>3. CASE Open
  <2>1. engine = "emulator" /\ stage' = "sections"
    BY <1>1, <1>3, TypeFacts, OrderFacts DEF Open, At
  <2>2. QED
    BY <2>1, <1>1 DEF Registers, AuxDone, ContextDone, HeapDone
<1>4. CASE loadToMemory
  <2>1. engine = "emulator" /\ stage' = "sections"
    BY <1>1, <1>4, TypeFacts DEF loadToMemory, Visit
  <2>2. QED
    BY <2>1, <1>1 DEF Registers, AuxDone, ContextDone, HeapDone
<1>5. CASE EndOfSections
  <2>1. UNCHANGED <<engine, elf, env, argv, data, dataEnd, pageSize, initialSP, heapBase, ctx>> /\ next' = 1
    BY <1>5 DEF EndOfSections
  <2>2. \/ engine = "emulator" /\ stage = "sections" /\ stage' = "name"
        \/ engine = "translated" /\ stage = "data" /\ stage' = "heap"
        \/ engine = "translated" /\ stage = "text" /\ stage' = "run"
    BY <1>1, <1>5, TypeFacts, OrderFacts DEF EndOfSections, At
  <2>3. (AuxDone' => AuxDone) /\ (ContextDone' => ContextDone) /\ (HeapDone' => HeapDone)
    BY <2>1, <2>2 DEF AuxDone, ContextDone, HeapDone
  <2>4. pageAlignAddress(dataEnd)' = pageAlignAddress(dataEnd)
    BY <2>1 DEF pageAlignAddress
  <2>5. QED
    BY <2>1, <2>3, <2>4, Frame DEF Registers
<1>6. CASE CopyName
  <2>1. engine = "emulator" /\ stage = "name" /\ stage' = "aux" /\ next' = next
    BY <1>1, <1>6, TypeFacts, OrderFacts DEF CopyName, At
  <2>2. QED
    BY <2>1, <1>1 DEF Registers, AuxDone, ContextDone, HeapDone
<1>7. CASE loadAux
  <2>1. UNCHANGED <<engine, elf, env, argv, next>>
    BY <1>7 DEF loadAux
  <2>2. stage = "aux" /\ stage' \in {"heap", "context"} /\ ~ ContextDone' /\ ~ HeapDone'
    BY <1>1, <1>7, TypeFacts, OrderFacts DEF loadAux, At, ContextDone, HeapDone
  <2>3. initialSP' = StackTop(GuestArgv(argv)) /\ pageSize' = HostPage
    BY <1>7 DEF loadAux
  <2>4. QED
    BY <2>1, <2>2, <2>3, Frame DEF Registers
<1>8. CASE initializeHeap
  <2>1. /\ UNCHANGED <<engine, elf, env, argv, next, dataEnd, pageSize, initialSP, ctx>>
        /\ heapBase' = pageAlignAddress(dataEnd) % WordMod
    BY <1>8 DEF initializeHeap
  <2>2. /\ stage = "heap" /\ stage' \in {"context", "text"} /\ AuxDone
        /\ ContextDone' => ContextDone
    BY <1>1, <1>8, TypeFacts, OrderFacts DEF initializeHeap, At, ContextDone, AuxDone
  <2>3. pageAlignAddress(dataEnd)' = pageAlignAddress(dataEnd)
    BY <2>1 DEF pageAlignAddress
  <2>4. QED
    BY <2>1, <2>2, <2>3, Frame DEF Registers
<1>9. CASE SetContext
  <2>1. UNCHANGED <<engine, elf, env, argv, next, dataEnd, pageSize, initialSP, heapBase>>
    BY <1>9 DEF SetContext
  <2>2. ctx'.sp = initialSP
    BY <1>9 DEF SetContext
  <2>3. /\ stage = "context" /\ stage' \in {"data", "run"} /\ AuxDone
        /\ HeapDone' => HeapDone
    BY <1>1, <1>9, TypeFacts, OrderFacts DEF SetContext, At, HeapDone, AuxDone
  <2>4. pageAlignAddress(dataEnd)' = pageAlignAddress(dataEnd)
    BY <2>1 DEF pageAlignAddress
  <2>5. QED
    BY <2>1, <2>2, <2>3, <2>4, Frame DEF Registers
<1>10. CASE WriteData
  <2>1. UNCHANGED <<engine, elf, env, argv, stage, pageSize, initialSP, heapBase, ctx>> /\ stage = "data"
    BY <1>10 DEF WriteData, Visit
  <2>2. engine = "translated"
    BY <1>1, <2>1, TypeFacts
  <2>3. AuxDone /\ ContextDone /\ ~ HeapDone'
    BY <2>1, <2>2 DEF AuxDone, ContextDone, HeapDone
  <2>4. QED
    BY <2>1, <2>3, Frame DEF Registers
<1>11. CASE WriteText
  <2>1. UNCHANGED <<engine, elf, env, argv, stage, pageSize, initialSP, heapBase, ctx>> /\ stage = "text"
    BY <1>11 DEF WriteText, Visit
  <2>2. engine = "translated" /\ dataEnd' = dataEnd
    BY <1>1, <1>11, <2>1, TypeFacts DEF WriteText, WriteTextSection
  <2>3. AuxDone /\ ContextDone /\ HeapDone
    BY <2>1, <2>2 DEF AuxDone, ContextDone, HeapDone
  <2>4. pageAlignAddress(dataEnd)' = pageAlignAddress(dataEnd)
    BY <2>1, <2>2 DEF pageAlignAddress
  <2>5. QED
    BY <2>1, <2>2, <2>3, <2>4, Frame DEF Registers
<1>12. QED
  BY <1>2, <1>3, <1>4, <1>5, <1>6, <1>7, <1>8, <1>9, <1>10, <1>11 DEF Next

-----------------------------------------------------------------------------
(* The memory *)

\* What depends on the file only.
LEMMA Static ==
    ASSUME UNCHANGED <<engine, elf>>
    PROVE  /\ Linked' <=> Linked
           /\ Plain' <=> Plain
           /\ \A i : /\ StartOf(i)' = StartOf(i) /\ EndOf(i)' = EndOf(i)
                     /\ Range(i)' = Range(i) /\ TextRange(i)' = TextRange(i)
BY DEF Linked, Plain, StartOf, EndOf, Range, TextRange

\* The numbers of a section.
LEMMA PlaceFacts ==
    ASSUME Types, NEW i \in Sections(elf)
    PROVE  /\ i \in Nat /\ i \in 1 .. Len(elf.sections)
           /\ elf.sections[i].size \in Nat /\ elf.sections[i].addr \in Nat
           /\ elf.sections[i].nobits \in BOOLEAN
           /\ ByteSize(elf.sections[i]) \in Nat
           /\ elf.sections[i].size <= ByteSize(elf.sections[i])
           /\ elf.sections[i].size % 4 = 0 => ByteSize(elf.sections[i]) = elf.sections[i].size
           /\ StartOf(i) \in Nat /\ EndOf(i) \in Nat
           /\ StartOf(i) = LoadAddress(elf, elf.sections[i])
           /\ EndOf(i) = StartOf(i) + ByteSize(elf.sections[i])
           /\ EndOf(i) < WordMod => AddrBehind(elf.sections[i]) = EndOf(i)
<1> DEFINE s == elf.sections[i]
<1>1. elf \in Binaries
  BY TypeFacts
<1>2. /\ i \in Nat /\ i \in 1 .. Len(elf.sections)
      /\ s.size \in Nat /\ s.addr \in Nat /\ s.nobits \in BOOLEAN
      /\ ByteSize(s) \in Nat /\ s.size <= ByteSize(s)
      /\ s.size % 4 = 0 => ByteSize(s) = s.size
      /\ LoadAddress(elf, s) \in Nat
  BY <1>1, SectionFacts
<1>3. StartOf(i) = LoadAddress(elf, s) /\ EndOf(i) = StartOf(i) + ByteSize(s)
  BY DEF StartOf, EndOf
<1> HIDE DEF s
<1>4. StartOf(i) \in Nat /\ EndOf(i) \in Nat
  BY <1>2, <1>3
<1>5. AddrBehind(s) = EndOf(i) % WordMod
  BY <1>3 DEF AddrBehind
<1>6. EndOf(i) < WordMod => EndOf(i) \in 0 .. WordMod - 1
  BY <1>4, Sizes
<1>7. EndOf(i) < WordMod => AddrBehind(s) = EndOf(i)
  BY <1>5, <1>6, ModSmall
<1>8. QED
  BY <1>2, <1>3, <1>4, <1>7 DEF s

\* The loaded sections are sections.
LEMMA LoadedFacts ==
    ASSUME Types
    PROVE  LoadedByLoop \subseteq Sections(elf) /\ LoadedLast \subseteq TextSections(elf)
           /\ LoadedLast \subseteq Sections(elf) /\ Loaded \subseteq Sections(elf)
<1>1. elf \in Binaries
  BY TypeFacts
<1>2. TextSections(elf) \subseteq Sections(elf) /\ DataSections(elf) \subseteq Sections(elf)
  BY <1>1, BinaryFacts
<1>3. QED
  BY <1>2 DEF LoadedByLoop, LoadedLast, Loaded, LoadedSections, LoadedData, LoadedText

\* A step that leaves the memory and the loaded sections alone.
LEMMA QuietMemory ==
    ASSUME UNCHANGED <<engine, elf, env, data, overrun, dataEnd>>,
           LoadedByLoop' = LoadedByLoop, LoadedLast' = LoadedLast,
           AuxDone' <=> AuxDone, AuxDone => UNCHANGED <<argv, initialSP>>,
           Small => Memory
    PROVE  Small' => Memory'
<1> SUFFICES ASSUME Small' PROVE Memory'
  OBVIOUS
<1>1. Loaded' = Loaded
  BY DEF Loaded
<1>2. Small
  <2>1. \A i \in Sections(elf) : EndOf(i) <= DataSize
    BY Static DEF Small
  <2>2. AuxDone => Fits
    BY Frame DEF Small
  <2>3. QED
    BY <2>1, <2>2 DEF Small
<1>3. Memory
  BY <1>2
<1>4. \A x : Owned(x)' <=> Owned(x)
  BY Static DEF Owned, StackRange
<1>5. \A i, o : InPlace(i, o)' <=> InPlace(i, o)
  BY <1>1, Static DEF InPlace
<1>6. NothingLost'
  BY <1>3, <1>4 DEF Memory, NothingLost
<1>7. StackIntact'
  <2>1. CASE AuxDone
    <3>1. StackRange' = StackRange
      BY <2>1 DEF StackRange
    <3>2. StackImage(GuestArgv(argv), initialSP)' = StackImage(GuestArgv(argv), initialSP)
      BY <2>1, Frame
    <3>3. QED
      BY <1>3, <2>1, <3>1, <3>2 DEF Memory, StackIntact
  <2>2. QED
    BY <2>1 DEF StackIntact
<1>8. EndKnown'
  BY <1>3, Static DEF Memory, EndKnown
<1>9. BytesLoaded'
  BY <1>1, <1>3, <1>5, Static DEF Memory, BytesLoaded
<1>10. QED
  BY <1>3, <1>6, <1>7, <1>8, <1>9 DEF Memory

\* A section is written inside of the memory and below the stack: the stack stays intact.
LEMMA SectionWritten ==
    ASSUME Types, UNCHANGED <<engine, elf, env, argv, stage, initialSP>>,
           Small' , Small => Memory,
           NEW a \in Nat, NEW n \in Nat, NEW bytes, DOMAIN bytes = 1 .. n, Len(bytes) = n,
           Write(a, bytes), a + n <= DataSize, AuxDone => a + n <= initialSP
    PROVE  /\ Small /\ Memory /\ ~ overrun' /\ StackIntact'
           /\ \A x \in Address :
                 data'[x] = IF x \in a .. a + n - 1 /\ bytes[x - a + 1] # Kept
                            THEN bytes[x - a + 1] ELSE data[x]
           /\ AuxDone' <=> AuxDone
           /\ StackRange' = StackRange
<1>1. (AuxDone' <=> AuxDone) /\ StackRange' = StackRange
  BY DEF AuxDone, StackRange
<1>2. Small
  <2>1. \A i \in Sections(elf) : EndOf(i) <= DataSize
    BY Static DEF Small
  <2>2. AuxDone => Fits
    BY <1>1, Frame DEF Small
  <2>3. QED
    BY <2>1, <2>2 DEF Small
<1>3. Memory
  BY <1>2
<1>4. \A x \in Address :
          data'[x] = IF x \in a .. a + n - 1 /\ bytes[x - a + 1] # Kept
                     THEN bytes[x - a + 1] ELSE data[x]
  BY WriteFacts
<1>5. ~ overrun'
  BY <1>3, WriteFacts, Sizes DEF Memory
<1>6. StackIntact'
  <2> SUFFICES ASSUME AuxDone, NEW x \in StackRange
               PROVE  data'[x] = StackImage(GuestArgv(argv), initialSP)[x]
    BY <1>1, Frame DEF StackIntact
  <2>1. x \in Address /\ x \notin a .. a + n - 1
    BY TypeFacts, Sizes DEF StackRange, Address
  <2>2. data'[x] = data[x]
    BY <1>4, <2>1
  <2>3. QED
    BY <1>3, <2>2 DEF Memory, StackIntact
<1>7. QED
  BY <1>1, <1>2, <1>3, <1>4, <1>5, <1>6

\* loadToMemory keeps the invariant of the memory.
LEMMA LoadStep ==
    ASSUME IInv, loadToMemory
    PROVE  Small' => Memory'
<1> USE DEF input
<1>1. Types /\ (Small => Memory) /\ elf \in Binaries /\ Sections(elf) \subseteq Nat /\ next \in Nat
  <2>1. Types /\ (Small => Memory)
    BY DEF IInv
  <2>2. elf \in Binaries /\ next \in Nat
    BY <2>1, TypeFacts
  <2>3. \A i \in Sections(elf) : i \in Nat
    BY <2>1, PlaceFacts
  <2>4. QED
    BY <2>1, <2>2, <2>3
<1>2. /\ UNCHANGED <<engine, elf, env, argv, stage, initialSP>>
      /\ stage = "sections" /\ next' = next + 1
  BY DEF loadToMemory, Visit
<1>3. engine = "emulator" /\ ~ AuxDone /\ ~ AuxDone'
  BY <1>1, <1>2, TypeFacts DEF AuxDone
<1>4. /\ LoadedByLoop = {i \in Sections(elf) : i < next} /\ LoadedLast = {}
      /\ LoadedByLoop' = {i \in Sections(elf) : i < next + 1} /\ LoadedLast' = {}
  BY <1>2, <1>3 DEF LoadedByLoop, LoadedLast, LoadedSections
<1>5. CASE next \notin Sections(elf)
  <2>1. LoadedByLoop' = LoadedByLoop
    BY <1>1, <1>4, <1>5
  <2>2. UNCHANGED <<data, overrun, dataEnd>>
    BY <1>5 DEF loadToMemory
  <2>3. QED
    BY <1>1, <1>2, <1>3, <1>4, <2>1, <2>2, QuietMemory
<1>6. CASE next \in Sections(elf)
  <2> SUFFICES ASSUME Small' PROVE Memory'
    OBVIOUS
  <2>0. PICK n \in Sections(elf) : n = next
    BY <1>6
  <2> DEFINE s == elf.sections[n]
             a == StartOf(n)
             z == ByteSize(s)
  <2>1. LoadedByLoop' = LoadedByLoop \cup {n} /\ Loaded' = Loaded \cup {n} /\ Loaded = LoadedByLoop
    BY <1>1, <1>4, <2>0 DEF Loaded
  <2>2. /\ n \in Nat /\ a \in Nat /\ z \in Nat /\ s.size \in Nat /\ s.size <= z
        /\ EndOf(n) = a + z /\ a = LoadAddress(elf, s) /\ EndOf(n) \in Nat
        /\ EndOf(n) < WordMod => AddrBehind(s) = EndOf(n)
    BY <1>1, <1>6, PlaceFacts
  <2>3. \A i \in Sections(elf) : EndOf(i) <= DataSize
    BY <1>2, Static DEF Small
  <2>4. EndOf(n) <= DataSize /\ AddrBehind(s) = EndOf(n)
    BY <1>6, <2>2, <2>3, Sizes
  <2>5. LoadSection(s)
    BY <2>0 DEF loadToMemory
  <2>6. ~ (AddrBehind(s) > DataSize)
    BY <2>2, <2>4, Sizes
  <2>7. Write(a, Content(s)) /\ Extend(s)
    BY <2>2, <2>5, <2>6 DEF LoadSection
  <2> DEFINE c == Content(s)
  <2>8. /\ DOMAIN c = 1 .. z /\ Len(c) = z
        /\ \A o \in 1 .. z : c[o] # Kept /\ (s.nobits => c[o] = Zero)
                             /\ (o <= s.size => c[o] = FileByte(s, o))
    BY <2>2, ContentFacts
  <2> HIDE DEF c, z, a, s
  <2>9. /\ Small /\ Memory /\ ~ overrun' /\ StackIntact'
        /\ \A x \in Address :
              data'[x] = IF x \in a .. a + z - 1 /\ c[x - a + 1] # Kept THEN c[x - a + 1] ELSE data[x]
    BY <1>1, <1>2, <1>3, <2>2, <2>4, <2>7, <2>8, SectionWritten DEF c
  <2>10. ASSUME NEW x \in Address
         PROVE  /\ x \in a .. a + z - 1 => x - a + 1 \in 1 .. z /\ data'[x] = c[x - a + 1]
                /\ x \notin a .. a + z - 1 => data'[x] = data[x]
    <3>1. x \in Int
      BY Sizes DEF Address
    <3>2. x \in a .. a + z - 1 => x - a + 1 \in 1 .. z
      BY <2>2, <3>1
    <3>3. QED
      BY <2>8, <2>9, <3>2
  <2>11. Range(n) = a .. a + z - 1
    BY <2>2 DEF Range, a
  <2>12. NothingLost'
    <3> SUFFICES ASSUME NEW x \in Address, data'[x] # Zero
                 PROVE  Owned(x)'
      BY DEF NothingLost
    <3>1. CASE x \in a .. a + z - 1
      <4>1. ~ s.nobits
        BY <2>8, <2>10, <3>1
      <4>2. n \in LoadedByLoop' /\ x \in Range(n)'
        BY <1>2, <2>1, <2>11, <3>1, Static
      <4>3. QED
        BY <1>2, <4>1, <4>2 DEF Owned, s
    <3>2. CASE x \notin a .. a + z - 1
      <4>1. data[x] # Zero
        BY <2>10, <3>2
      <4>2. Owned(x)
        BY <2>9, <4>1 DEF Memory, NothingLost
      <4>3. QED
        BY <1>2, <1>3, <1>4, <2>1, <4>2, Static DEF Owned
    <3>3. QED
      BY <3>1, <3>2
  <2>13. EndKnown'
    <3>1. dataEnd' = IF EndOf(n) > dataEnd THEN EndOf(n) ELSE dataEnd
      BY <2>4, <2>7 DEF Extend
    <3>2. dataEnd \in Nat /\ dataEnd <= DataSize /\ \A i \in LoadedByLoop : EndOf(i) <= dataEnd
      BY <1>1, <2>9, TypeFacts DEF Memory, EndKnown
    <3>3. dataEnd' <= DataSize /\ dataEnd <= dataEnd' /\ EndOf(n) <= dataEnd' /\ dataEnd' \in Nat
      BY <2>2, <2>4, <3>1, <3>2, Sizes
    <3>4. ASSUME NEW i \in LoadedByLoop' PROVE EndOf(i)' <= dataEnd'
      <4>1. EndOf(i)' = EndOf(i)
        BY <1>2, Static
      <4>2. CASE i = n
        BY <3>3, <4>1, <4>2
      <4>3. CASE i \in LoadedByLoop
        <5>1. EndOf(i) \in Nat
          BY <1>1, <4>3, LoadedFacts, PlaceFacts
        <5>2. EndOf(i) <= dataEnd
          BY <3>2, <4>3
        <5>3. QED
          BY <3>2, <3>3, <4>1, <5>1, <5>2
      <4>4. QED
        BY <2>1, <4>2, <4>3
    <3>5. QED
      BY <3>3, <3>4 DEF EndKnown
  <2>14. BytesLoaded'
    <3> SUFFICES ASSUME Linked, NEW i \in Loaded', NEW o \in 1 .. elf.sections[i].size
                 PROVE  InPlace(i, o)'
      BY <1>2, <1>3, Static DEF BytesLoaded
    <3> DEFINE x == StartOf(i) + o - 1
    <3>1. i \in Sections(elf)
      BY <1>1, <1>6, <2>1, LoadedFacts
    <3>2. /\ i \in Nat /\ StartOf(i) \in Nat /\ elf.sections[i].size \in Nat /\ EndOf(i) <= DataSize
          /\ elf.sections[i].size <= ByteSize(elf.sections[i]) /\ ByteSize(elf.sections[i]) \in Nat
          /\ EndOf(i) = StartOf(i) + ByteSize(elf.sections[i])
          /\ o \in Nat /\ o >= 1 /\ o <= elf.sections[i].size
      BY <1>1, <2>3, <3>1, PlaceFacts
    <3>3. x \in Nat /\ x < EndOf(i) /\ x \in Address /\ StartOf(i) <= x
      BY <3>2, Sizes DEF Address
    <3>4. CASE i = n
      <4>1. x \in a .. a + z - 1 /\ x - a + 1 = o /\ o \in 1 .. z /\ o <= s.size
        BY <2>2, <3>2, <3>4 DEF a, z, s
      <4>2. data'[x] = FileByte(s, o)
        BY <2>8, <2>10, <3>3, <4>1
      <4>3. QED
        BY <1>2, <3>4, <4>2, Static DEF InPlace, s
    <3>5. CASE i # n
      <4>1. i \in LoadedByLoop /\ i < n /\ i \in Loaded
        BY <1>4, <2>0, <2>1, <3>5
      <4>2. InPlace(i, o)
        BY <1>3, <2>9, <4>1 DEF Memory, BytesLoaded
      <4>3. CASE data[x] # FileByte(elf.sections[i], o)
        <5>1. elf.sections[i].nobits /\ \E j \in Loaded : i < j /\ x \in Range(j)
          BY <4>2, <4>3 DEF InPlace
        <5>2. QED
          BY <1>2, <2>1, <5>1, Static DEF InPlace
      <4>4. CASE data[x] = FileByte(elf.sections[i], o) /\ x \notin a .. a + z - 1
        <5>1. data'[x] = data[x]
          BY <2>10, <3>3, <4>4
        <5>2. QED
          BY <1>2, <4>4, <5>1, Static DEF InPlace
      <4>5. CASE x \in a .. a + z - 1
        <5>1. \/ StartOf(i) + elf.sections[i].size <= StartOf(n)
              \/ elf.sections[i].nobits
          BY <1>6, <3>1, <4>1 DEF Linked
        <5>2. elf.sections[i].nobits
          BY <2>2, <3>2, <3>3, <4>5, <5>1 DEF a
        <5>3. n \in Loaded' /\ i < n /\ x \in Range(n)
          BY <2>1, <2>11, <4>1, <4>5
        <5>4. QED
          BY <1>2, <5>2, <5>3, Static DEF InPlace
      <4>6. QED
        BY <4>3, <4>4, <4>5
    <3>6. QED
      BY <3>4, <3>5
  <2>15. QED
    BY <2>9, <2>12, <2>13, <2>14 DEF Memory
<1>7. QED
  BY <1>5, <1>6

\* The data sections of a translated program keep the invariant of the memory.
LEMMA DataStep ==
    ASSUME IInv, WriteData
    PROVE  Small' => Memory'
<1> USE DEF input
<1>1. /\ Types /\ (Small => Memory) /\ elf \in Binaries /\ Sections(elf) \subseteq Nat /\ next \in Nat
      /\ DataSections(elf) \subseteq Sections(elf)
  <2>1. Types /\ (Small => Memory)
    BY DEF IInv
  <2>2. elf \in Binaries /\ next \in Nat
    BY <2>1, TypeFacts
  <2>3. \A i \in Sections(elf) : i \in Nat
    BY <2>1, PlaceFacts
  <2>4. QED
    BY <2>1, <2>2, <2>3, BinaryFacts
<1>2. /\ UNCHANGED <<engine, elf, env, argv, stage, initialSP>>
      /\ stage = "data" /\ next' = next + 1
  BY DEF WriteData, Visit
<1>3. engine = "translated" /\ AuxDone /\ AuxDone'
  BY <1>1, <1>2, TypeFacts DEF AuxDone
<1>4. /\ LoadedByLoop = {i \in DataSections(elf) : i < next} /\ LoadedLast = {}
      /\ LoadedByLoop' = {i \in DataSections(elf) : i < next + 1} /\ LoadedLast' = {}
  BY <1>2, <1>3 DEF LoadedByLoop, LoadedLast, LoadedData, LoadedText
<1>5. CASE next \notin DataSections(elf)
  <2>1. LoadedByLoop' = LoadedByLoop
    BY <1>1, <1>4, <1>5
  <2>2. UNCHANGED <<data, overrun, dataEnd>>
    BY <1>5 DEF WriteData
  <2>3. QED
    BY <1>1, <1>2, <1>3, <1>4, <2>1, <2>2, QuietMemory
<1>6. CASE next \in DataSections(elf)
  <2> SUFFICES ASSUME Small' PROVE Memory'
    OBVIOUS
  <2>0. PICK n \in Sections(elf) : n = next
    BY <1>1, <1>6
  <2> DEFINE s == elf.sections[n]
             a == StartOf(n)
             z == ByteSize(s)
  <2>1. LoadedByLoop' = LoadedByLoop \cup {n} /\ Loaded' = Loaded \cup {n} /\ Loaded = LoadedByLoop
    BY <1>1, <1>4, <1>6, <2>0 DEF Loaded
  <2>2. /\ n \in Nat /\ a \in Nat /\ z \in Nat /\ s.size \in Nat /\ s.size <= z
        /\ EndOf(n) = a + z /\ a = LoadAddress(elf, s) /\ EndOf(n) \in Nat
        /\ EndOf(n) < WordMod => AddrBehind(s) = EndOf(n)
    BY <1>1, PlaceFacts
  <2>3. \A i \in Sections(elf) : EndOf(i) <= DataSize /\ EndOf(i) <= initialSP
    <3>1. Fits
      BY <1>2, <1>3, Frame DEF Small
    <3>2. QED
      BY <1>2, <3>1, Static DEF Small, Fits
  <2>4. EndOf(n) <= DataSize /\ EndOf(n) <= initialSP /\ AddrBehind(s) = EndOf(n)
    BY <2>2, <2>3, Sizes
  <2>5. WriteDataSection(s)
    BY <1>6, <2>0 DEF WriteData
  <2>7. Write(a, NonZero(s)) /\ Extend(s)
    BY <2>2, <2>5 DEF WriteDataSection
  <2> DEFINE c == NonZero(s)
             f == Content(s)
  <2>8. /\ DOMAIN c = 1 .. z /\ Len(c) = z
        /\ \A o \in 1 .. z : /\ c[o] = IF f[o] = Zero THEN Kept ELSE f[o]
                             /\ f[o] # Kept /\ (s.nobits => f[o] = Zero)
                             /\ (o <= s.size => f[o] = FileByte(s, o))
        /\ \A o \in 1 .. s.size : FileByte(s, o) = Zero => s.nobits \/ s.zeros # {}
    BY <2>2, ContentFacts, NonZeroFacts
  <2> HIDE DEF c, f, z, a, s
  <2>9. /\ Small /\ Memory /\ ~ overrun' /\ StackIntact'
        /\ \A x \in Address :
              data'[x] = IF x \in a .. a + z - 1 /\ c[x - a + 1] # Kept THEN c[x - a + 1] ELSE data[x]
        /\ StackRange' = StackRange
    BY <1>1, <1>2, <1>3, <2>2, <2>4, <2>7, <2>8, SectionWritten DEF c
  <2>10. ASSUME NEW x \in Address
         PROVE  /\ x \in Int
                /\ x \in a .. a + z - 1 =>
                      /\ x - a + 1 \in 1 .. z
                      /\ data'[x] = IF f[x - a + 1] = Zero THEN data[x] ELSE f[x - a + 1]
                /\ x \notin a .. a + z - 1 => data'[x] = data[x]
    <3>1. x \in Int
      BY Sizes DEF Address
    <3>2. x \in a .. a + z - 1 => x - a + 1 \in 1 .. z
      BY <2>2, <3>1
    <3>3. QED
      BY <2>8, <2>9, <3>1, <3>2
  <2>11. Range(n) = a .. a + z - 1
    BY <2>2 DEF Range, a
  <2>12. NothingLost'
    <3> SUFFICES ASSUME NEW x \in Address, data'[x] # Zero
                 PROVE  Owned(x)'
      BY DEF NothingLost
    <3>1. CASE data[x] # Zero
      <4>1. Owned(x)
        BY <2>9, <3>1 DEF Memory, NothingLost
      <4>2. QED
        BY <1>2, <1>3, <1>4, <2>1, <2>9, <4>1, Static DEF Owned
    <3>2. CASE data[x] = Zero
      <4>1. x \in a .. a + z - 1 /\ f[x - a + 1] # Zero
        BY <2>10, <3>2
      <4>2. ~ s.nobits
        BY <2>8, <2>10, <4>1
      <4>3. n \in LoadedByLoop' /\ x \in Range(n)'
        BY <1>2, <2>1, <2>11, <4>1, Static
      <4>4. QED
        BY <1>2, <4>2, <4>3 DEF Owned, s
    <3>3. QED
      BY <3>1, <3>2
  <2>13. EndKnown'
    <3>1. dataEnd' = IF EndOf(n) > dataEnd THEN EndOf(n) ELSE dataEnd
      BY <2>4, <2>7 DEF Extend
    <3>2. dataEnd \in Nat /\ dataEnd <= DataSize /\ \A i \in LoadedByLoop : EndOf(i) <= dataEnd
      BY <1>1, <2>9, TypeFacts DEF Memory, EndKnown
    <3>3. dataEnd' <= DataSize /\ dataEnd <= dataEnd' /\ EndOf(n) <= dataEnd' /\ dataEnd' \in Nat
      BY <2>2, <2>4, <3>1, <3>2, Sizes
    <3>4. ASSUME NEW i \in LoadedByLoop' PROVE EndOf(i)' <= dataEnd'
      <4>1. EndOf(i)' = EndOf(i)
        BY <1>2, Static
      <4>2. CASE i = n
        BY <3>3, <4>1, <4>2
      <4>3. CASE i \in LoadedByLoop
        <5>1. EndOf(i) \in Nat
          BY <1>1, <4>3, LoadedFacts, PlaceFacts
        <5>2. EndOf(i) <= dataEnd
          BY <3>2, <4>3
        <5>3. QED
          BY <3>2, <3>3, <4>1, <5>1, <5>2
      <4>4. QED
        BY <2>1, <4>2, <4>3
    <3>5. QED
      BY <3>3, <3>4 DEF EndKnown
  <2>14. BytesLoaded'
    <3> SUFFICES ASSUME Linked, Plain, NEW i \in Loaded', NEW o \in 1 .. elf.sections[i].size
                 PROVE  InPlace(i, o)'
      BY <1>2, <1>3, Static DEF BytesLoaded
    <3> DEFINE x == StartOf(i) + o - 1
    <3>1. i \in Sections(elf)
      BY <1>1, <2>0, <2>1, LoadedFacts
    <3>2. /\ i \in Nat /\ StartOf(i) \in Nat /\ elf.sections[i].size \in Nat /\ EndOf(i) <= DataSize
          /\ elf.sections[i].size <= ByteSize(elf.sections[i]) /\ ByteSize(elf.sections[i]) \in Nat
          /\ EndOf(i) = StartOf(i) + ByteSize(elf.sections[i])
          /\ o \in Nat /\ o >= 1 /\ o <= elf.sections[i].size
      BY <1>1, <2>3, <3>1, PlaceFacts
    <3>3. x \in Nat /\ x < EndOf(i) /\ x \in Address /\ StartOf(i) <= x
      BY <3>2, Sizes DEF Address
    <3>4. CASE i = n
      <4>1. x \in a .. a + z - 1 /\ x - a + 1 = o /\ o \in 1 .. z /\ o <= s.size
        BY <2>2, <3>2, <3>4 DEF a, z, s
      <4>2. f[o] = FileByte(s, o)
        BY <2>8, <4>1
      <4>3. CASE f[o] # Zero
        BY <1>2, <2>10, <3>3, <3>4, <4>1, <4>2, <4>3, Static DEF InPlace, s
      <4>4. CASE f[o] = Zero
        <5>1. s.nobits \/ s.zeros # {}
          BY <2>8, <3>2, <3>4, <4>2, <4>4 DEF s
        <5>2. ~ Owned(x)
          <6>1. ASSUME NEW j \in LoadedByLoop, ~ elf.sections[j].nobits, x \in Range(j)
                PROVE  FALSE
            <7>1. j \in Sections(elf) /\ j < n
              BY <1>1, <1>4, <2>0
            <7>2. EndOf(j) <= StartOf(n)
              BY <2>0, <5>1, <6>1, <7>1 DEF Plain, s
            <7>3. EndOf(j) \in Nat /\ x < EndOf(j)
              BY <1>1, <6>1, <7>1, PlaceFacts DEF Range
            <7>4. QED
              BY <2>2, <3>2, <3>3, <3>4, <7>2, <7>3
          <6>2. x \notin StackRange
            BY <1>1, <2>2, <2>4, <3>3, <3>4, TypeFacts DEF StackRange
          <6>3. QED
            BY <1>4, <6>1, <6>2 DEF Owned
        <5>3. data[x] = Zero
          BY <2>9, <3>3, <5>2 DEF Memory, NothingLost
        <5>4. data'[x] = Zero
          BY <2>10, <3>3, <4>1, <4>4, <5>3
        <5>5. QED
          BY <1>2, <3>4, <4>2, <4>4, <5>4, Static DEF InPlace, s
      <4>5. QED
        BY <4>3, <4>4
    <3>5. CASE i # n
      <4>1. i \in LoadedByLoop /\ i < n /\ i \in Loaded
        BY <1>4, <2>0, <2>1, <3>5
      <4>2. InPlace(i, o)
        BY <1>3, <2>9, <4>1 DEF Memory, BytesLoaded
      <4>3. CASE data[x] # FileByte(elf.sections[i], o)
        <5>1. elf.sections[i].nobits /\ \E j \in Loaded : i < j /\ x \in Range(j)
          BY <4>2, <4>3 DEF InPlace
        <5>2. QED
          BY <1>2, <2>1, <5>1, Static DEF InPlace
      <4>4. CASE data[x] = FileByte(elf.sections[i], o) /\ x \notin a .. a + z - 1
        <5>1. data'[x] = data[x]
          BY <2>10, <3>3, <4>4
        <5>2. QED
          BY <1>2, <4>4, <5>1, Static DEF InPlace
      <4>5. CASE x \in a .. a + z - 1
        <5>1. \/ StartOf(i) + elf.sections[i].size <= StartOf(n)
              \/ elf.sections[i].nobits
          BY <2>0, <3>1, <4>1 DEF Linked
        <5>2. elf.sections[i].nobits
          BY <2>2, <3>2, <3>3, <4>5, <5>1 DEF a
        <5>3. n \in Loaded' /\ i < n /\ x \in Range(n)
          BY <2>1, <2>11, <4>1, <4>5
        <5>4. QED
          BY <1>2, <5>2, <5>3, Static DEF InPlace
      <4>6. QED
        BY <4>3, <4>4, <4>5
    <3>6. QED
      BY <3>4, <3>5
  <2>15. QED
    BY <2>9, <2>12, <2>13, <2>14 DEF Memory
<1>7. QED
  BY <1>5, <1>6

\* Room for the initial stack: it ends inside of the data.
LEMMA StackRoom ==
    ASSUME Types, Registers, AuxDone, Fits
    PROVE  initialSP <= DataSize
<1> DEFINE args == GuestArgv(argv)
           n == ArgsSize(args)
           z == SizeOf(args \o env)
<1>1. args \in Seq(Strings) /\ env \in Seq(Strings)
  BY TypeFacts, GuestArgvFacts
<1>2. n + z <= DataSize
  BY DEF Fits
<1>3. initialSP = StackTop(args) /\ initialSP \in Nat
  BY TypeFacts DEF Registers
<1> HIDE DEF args
<1>4. n \in Nat /\ z \in Nat /\ StackTop(args) + n + z <= DataSize
  BY <1>1, <1>2, StackFacts
<1> HIDE DEF n, z
<1>5. QED
  BY <1>3, <1>4, Sizes

\* The text of a translated program keeps the invariant of the memory.
LEMMA TextStep ==
    ASSUME IInv, WriteText
    PROVE  Small' => Memory'
<1> USE DEF input
<1>1. /\ Types /\ Registers /\ (Small => Memory) /\ elf \in Binaries
      /\ Sections(elf) \subseteq Nat /\ next \in Nat /\ TextSections(elf) \subseteq Sections(elf)
  <2>1. Types /\ Registers /\ (Small => Memory)
    BY DEF IInv
  <2>2. elf \in Binaries /\ next \in Nat
    BY <2>1, TypeFacts
  <2>3. \A i \in Sections(elf) : i \in Nat
    BY <2>1, PlaceFacts
  <2>4. QED
    BY <2>1, <2>2, <2>3, BinaryFacts
<1>2. /\ UNCHANGED <<engine, elf, env, argv, stage, initialSP>>
      /\ stage = "text" /\ next' = next + 1
  BY DEF WriteText, Visit
<1>3. engine = "translated" /\ AuxDone /\ AuxDone'
  BY <1>1, <1>2, TypeFacts DEF AuxDone
<1>4. /\ LoadedLast = {i \in TextSections(elf) : i < next}
      /\ LoadedLast' = {i \in TextSections(elf) : i < next + 1}
      /\ LoadedByLoop' = LoadedByLoop
  BY <1>2, <1>3 DEF LoadedByLoop, LoadedLast, LoadedData, LoadedText
<1>5. CASE next \notin TextSections(elf)
  <2>1. LoadedLast' = LoadedLast
    BY <1>1, <1>4, <1>5
  <2>2. UNCHANGED <<data, overrun, dataEnd>>
    BY <1>5 DEF WriteText
  <2>3. QED
    BY <1>1, <1>2, <1>3, <1>4, <2>1, <2>2, QuietMemory
<1>6. CASE next \in TextSections(elf)
  <2> SUFFICES ASSUME Small' PROVE Memory'
    OBVIOUS
  <2>0. PICK n \in Sections(elf) : n = next /\ n \in TextSections(elf)
    BY <1>1, <1>6
  <2> DEFINE s == elf.sections[n]
             a == s.addr
             z == ByteSize(s)
  <2>1. LoadedLast' = LoadedLast \cup {n} /\ Loaded' = Loaded \cup {n}
    BY <1>1, <1>4, <1>6, <2>0 DEF Loaded
  <2>2. /\ n \in Nat /\ a \in Nat /\ z \in Nat /\ s.size \in Nat /\ s.size <= z
        /\ s.size % 4 = 0 => z = s.size
        /\ EndOf(n) = StartOf(n) + z
    BY <1>1, PlaceFacts
  <2>3. Fits
    BY <1>2, <1>3, Frame DEF Small
  <2>4. a + z <= initialSP /\ initialSP <= DataSize /\ initialSP \in Nat
    BY <1>1, <1>3, <2>0, <2>3, StackRoom, TypeFacts DEF Fits
  <2>5. a + z <= DataSize
    BY <2>2, <2>4, Sizes
  <2>6. Write(a, Decoded(s)) /\ dataEnd' = dataEnd
    BY <1>6, <2>0 DEF WriteText, WriteTextSection
  <2> DEFINE c == Decoded(s)
  <2>7. /\ DOMAIN c = 1 .. z /\ Len(c) = z
        /\ s.pool = {} => \A o \in 1 .. z : c[o] = Content(s)[o]
        /\ \A o \in 1 .. z : Content(s)[o] # Kept /\ (o <= s.size => Content(s)[o] = FileByte(s, o))
    BY <2>2, ContentFacts, DecodedFacts
  <2> HIDE DEF c, z, a, s
  <2>8. /\ Small /\ Memory /\ ~ overrun' /\ StackIntact'
        /\ \A x \in Address :
              data'[x] = IF x \in a .. a + z - 1 /\ c[x - a + 1] # Kept THEN c[x - a + 1] ELSE data[x]
        /\ StackRange' = StackRange
    BY <1>1, <1>2, <2>2, <2>4, <2>5, <2>6, <2>7, SectionWritten DEF c
  <2>9. TextRange(n) = a .. a + z - 1
    BY DEF TextRange, a, z, s
  <2>10. NothingLost'
    <3> SUFFICES ASSUME NEW x \in Address, data'[x] # Zero
                 PROVE  Owned(x)'
      BY DEF NothingLost
    <3>1. CASE x \in a .. a + z - 1
      <4>1. n \in LoadedLast' /\ x \in TextRange(n)'
        BY <1>2, <2>1, <2>9, <3>1, Static
      <4>2. QED
        BY <4>1 DEF Owned
    <3>2. CASE x \notin a .. a + z - 1
      <4>1. data[x] # Zero
        BY <2>8, <3>2
      <4>2. Owned(x)
        BY <2>8, <4>1 DEF Memory, NothingLost
      <4>3. QED
        BY <1>2, <1>3, <1>4, <2>1, <2>8, <4>2, Static DEF Owned
    <3>3. QED
      BY <3>1, <3>2
  <2>11. EndKnown'
    BY <1>2, <1>4, <2>6, <2>8, Static DEF Memory, EndKnown
  <2>12. BytesLoaded'
    <3> SUFFICES ASSUME Linked, Plain, NEW i \in Loaded', NEW o \in 1 .. elf.sections[i].size
                 PROVE  InPlace(i, o)'
      BY <1>2, <1>3, Static DEF BytesLoaded
    <3> DEFINE x == StartOf(i) + o - 1
    <3>0. s.pool = {} /\ ~ s.nobits /\ StartOf(n) = a /\ z = s.size
      BY <2>0, <2>2 DEF Plain, s, a
    <3>1. i \in Sections(elf)
      BY <1>1, <2>1, LoadedFacts
    <3>2. /\ i \in Nat /\ StartOf(i) \in Nat /\ elf.sections[i].size \in Nat /\ EndOf(i) <= DataSize
          /\ elf.sections[i].size <= ByteSize(elf.sections[i]) /\ ByteSize(elf.sections[i]) \in Nat
          /\ EndOf(i) = StartOf(i) + ByteSize(elf.sections[i])
          /\ o \in Nat /\ o >= 1 /\ o <= elf.sections[i].size
      BY <1>1, <2>8, <3>1, PlaceFacts DEF Small
    <3>3. x \in Nat /\ x < EndOf(i) /\ x \in Address /\ StartOf(i) <= x
          /\ x < StartOf(i) + elf.sections[i].size
      BY <3>2, Sizes DEF Address
    <3>4. CASE i = n
      <4>1. x \in a .. a + z - 1 /\ x - a + 1 = o /\ o \in 1 .. z /\ o <= s.size
        BY <2>2, <3>0, <3>2, <3>4 DEF s
      <4>2. c[o] = FileByte(s, o) /\ c[o] # Kept
        BY <2>7, <3>0, <4>1
      <4>3. data'[x] = FileByte(s, o)
        BY <2>8, <3>3, <4>1, <4>2
      <4>4. QED
        BY <1>2, <3>4, <4>3, Static DEF InPlace, s
    <3>5. CASE i # n
      <4>1. i \in Loaded
        BY <2>1, <3>5
      <4>2. InPlace(i, o)
        BY <1>3, <2>8, <4>1 DEF Memory, BytesLoaded
      <4>3. CASE data[x] # FileByte(elf.sections[i], o)
        <5>1. elf.sections[i].nobits /\ \E j \in Loaded : i < j /\ x \in Range(j)
          BY <4>2, <4>3 DEF InPlace
        <5>2. QED
          BY <1>2, <2>1, <5>1, Static DEF InPlace
      <4>4. CASE data[x] = FileByte(elf.sections[i], o) /\ x \notin a .. a + z - 1
        <5>1. data'[x] = data[x]
          BY <2>8, <3>3, <4>4
        <5>2. QED
          BY <1>2, <4>4, <5>1, Static DEF InPlace
      <4>5. CASE x \in a .. a + z - 1
        <5>1. ~ (n < i)
          <6>1. SUFFICES ASSUME n < i PROVE FALSE
            OBVIOUS
          <6>2. StartOf(n) + s.size <= StartOf(i)
            BY <2>0, <3>0, <3>1, <6>1 DEF Linked, s
          <6>3. QED
            BY <2>2, <3>0, <3>2, <3>3, <4>5, <6>2
        <5>2. i < n
          BY <2>2, <3>2, <3>5, <5>1
        <5>3. \/ StartOf(i) + elf.sections[i].size <= StartOf(n)
              \/ elf.sections[i].nobits
          BY <2>0, <3>1, <5>2 DEF Linked
        <5>4. elf.sections[i].nobits
          BY <2>2, <3>0, <3>2, <3>3, <4>5, <5>3
        <5>5. n \in Loaded' /\ x \in Range(n)
          BY <2>1, <2>2, <3>0, <4>5 DEF Range
        <5>6. QED
          BY <1>2, <5>2, <5>4, <5>5, Static DEF InPlace
      <4>6. QED
        BY <4>3, <4>4, <4>5
    <3>6. QED
      BY <3>4, <3>5
  <2>13. QED
    BY <2>8, <2>10, <2>11, <2>12 DEF Memory
<1>7. QED
  BY <1>5, <1>6

\* loadAux keeps the invariant of the memory, and leaves the initial stack behind.
LEMMA AuxStep ==
    ASSUME IInv, loadAux
    PROVE  Small' => Memory'
<1> USE DEF input
<1> SUFFICES ASSUME Small' PROVE Memory'
  OBVIOUS
<1>1. Types /\ Registers /\ (Small => Memory)
  BY DEF IInv
<1>2. UNCHANGED <<engine, elf, env, argv, dataEnd>> /\ stage = "aux"
  BY DEF loadAux, At
<1>3. ~ AuxDone /\ AuxDone' /\ LoadedByLoop' = LoadedByLoop /\ LoadedLast' = LoadedLast
      /\ LoadedLast = {} /\ Loaded' = Loaded
  <2>1. \/ engine = "emulator" /\ stage' = "heap"
        \/ engine = "translated" /\ stage' = "context"
    BY <1>1, TypeFacts, OrderFacts DEF loadAux, At
  <2>2. QED
    BY <1>2, <2>1 DEF AuxDone, LoadedByLoop, LoadedLast, LoadedSections, LoadedData, LoadedText, Loaded
<1>4. Small /\ Memory
  <2>1. \A i \in Sections(elf) : EndOf(i) <= DataSize
    BY <1>2, Static DEF Small
  <2>2. QED
    BY <1>1, <1>3, <2>1 DEF Small
<1> DEFINE args == GuestArgv(argv)
           sp == StackTop(args)
           n == ArgsSize(args)
           z == SizeOf(args \o env)
           p == (sp + n) % WordMod
           words == StackBytes(args, sp)
           chars == StringBytes(args \o env)
<1>5. args \in Seq(Strings) /\ env \in Seq(Strings)
  BY <1>1, TypeFacts, GuestArgvFacts
<1>6. /\ initialSP' = sp
      /\ data' = Overlay(Overlay(data, sp, words), p, chars)
      /\ overrun' = (overrun \/ Outside(sp, words) \/ Outside(p, chars))
  BY DEF loadAux
<1>7. /\ \A i \in Sections(elf) : EndOf(i) <= sp
      /\ n + z <= DataSize
  <2>1. Fits'
    BY <1>3 DEF Small
  <2>2. args' = args /\ n' = n
    BY <1>2, Frame
  <2>3. (n + z)' = n + z
    BY <1>2, <2>2
  <2>4. QED
    BY <1>2, <1>6, <2>1, <2>2, <2>3, Static DEF Fits
<1>8. /\ n \in Nat /\ z \in Nat /\ sp \in Nat
      /\ sp + n + z <= DataSize /\ p = sp + n
  <2> HIDE DEF args
  <2>1. n \in Nat /\ z \in Nat /\ sp \in Word /\ sp + n + z <= DataSize /\ p = sp + n
    BY <1>5, <1>7, StackFacts
  <2>2. QED
    BY <2>1, Sizes DEF Word
<1>9. DOMAIN words = 1 .. n /\ Len(words) = n
  <2> HIDE DEF args, sp
  <2> QED
    BY <1>5, StackBytesFacts
<1>10. DOMAIN chars = 1 .. z /\ Len(chars) = z
  <2>1. args \o env \in Seq(Strings)
    BY <1>5
  <2>2. QED
    BY <2>1, StringBytesCover
<1>11. StackImage(GuestArgv(argv), initialSP)' = Overlay(Overlay(Blank, sp, words), p, chars)
  <2>1. args' = args /\ n' = n
    BY <1>2, Frame
  <2>2. StackBytes(args, sp)' = StackBytes(args', sp')
    BY <1>2 DEF StackBytes, StackWord, ArgsSize
  <2>3. sp' = sp
    BY <1>2, Frame
  <2>4. StackImage(GuestArgv(argv), initialSP)' =
            Overlay(Overlay(Blank, initialSP', StackBytes(args', initialSP')),
                    (initialSP' + ArgsSize(args)') % WordMod, StringBytes(args' \o env'))
    BY <1>2, <2>1 DEF StackImage, StackBytes, StackWord, ArgsSize
  <2>5. StackBytes(args', initialSP') = words
    BY <1>6, <2>1
  <2>6. QED
    BY <1>2, <1>6, <2>1, <2>4, <2>5
<1> HIDE DEF args, sp, n, z, p, words, chars
<1>12. ~ overrun'
  <2>1. ~ Outside(sp, words)
    BY <1>8, <1>9, Sizes DEF Outside, Address
  <2>2. ~ Outside(p, chars)
    BY <1>8, <1>10, Sizes DEF Outside, Address
  <2>3. QED
    BY <1>4, <1>6, <2>1, <2>2 DEF Memory
<1>13. ASSUME NEW x \in Address
       PROVE  /\ x \notin sp .. DataSize - 1 => data'[x] = data[x]
              /\ data[x] = Zero => data'[x] = Overlay(Overlay(Blank, sp, words), p, chars)[x]
  <2>1. x \in Int
    BY Sizes DEF Address
  <2>2. Overlay(data, sp, words)[x] =
            IF x \in sp .. sp + n - 1 /\ words[x - sp + 1] # Kept THEN words[x - sp + 1] ELSE data[x]
    BY <1>9 DEF Overlay
  <2>3. data'[x] =
            IF x \in p .. p + z - 1 /\ chars[x - p + 1] # Kept THEN chars[x - p + 1]
            ELSE Overlay(data, sp, words)[x]
    BY <1>6, <1>10 DEF Overlay
  <2>4. Overlay(Blank, sp, words)[x] =
            IF x \in sp .. sp + n - 1 /\ words[x - sp + 1] # Kept THEN words[x - sp + 1] ELSE Blank[x]
    BY <1>9 DEF Overlay
  <2>5. Overlay(Overlay(Blank, sp, words), p, chars)[x] =
            IF x \in p .. p + z - 1 /\ chars[x - p + 1] # Kept THEN chars[x - p + 1]
            ELSE Overlay(Blank, sp, words)[x]
    BY <1>10 DEF Overlay
  <2>6. Blank[x] = Zero
    BY DEF Blank
  <2>7. x \notin sp .. DataSize - 1 => x \notin sp .. sp + n - 1 /\ x \notin p .. p + z - 1
    BY <1>8, <2>1, Sizes
  <2>8. QED
    BY <2>2, <2>3, <2>4, <2>5, <2>6, <2>7
<1>14. StackRange' = sp .. DataSize - 1
  BY <1>6 DEF StackRange
<1>15. ASSUME NEW i \in LoadedByLoop PROVE i \in Sections(elf) /\ EndOf(i) \in Nat /\ EndOf(i) <= sp
  BY <1>1, <1>7, LoadedFacts, PlaceFacts
<1>16. NothingLost'
  <2> SUFFICES ASSUME NEW x \in Address, data'[x] # Zero
               PROVE  Owned(x)'
    BY DEF NothingLost
  <2>1. CASE x \in sp .. DataSize - 1
    BY <1>3, <1>14, <2>1 DEF Owned
  <2>2. CASE x \notin sp .. DataSize - 1
    <3>1. Owned(x)
      BY <1>4, <1>13, <2>2 DEF Memory, NothingLost
    <3>2. QED
      BY <1>2, <1>3, <3>1, Static DEF Owned
  <2>3. QED
    BY <2>1, <2>2
<1>17. StackIntact'
  <2> SUFFICES ASSUME NEW x \in sp .. DataSize - 1
               PROVE  data'[x] = Overlay(Overlay(Blank, sp, words), p, chars)[x]
    BY <1>11, <1>14 DEF StackIntact
  <2>1. x \in Address /\ x \in Int
    BY <1>8, Sizes DEF Address
  <2>2. ~ Owned(x)
    <3>1. \A i \in LoadedByLoop : x \notin Range(i)
      BY <1>8, <1>15, <2>1 DEF Range
    <3>2. QED
      BY <1>3, <3>1 DEF Owned
  <2>3. data[x] = Zero
    BY <1>4, <2>1, <2>2 DEF Memory, NothingLost
  <2>4. QED
    BY <1>13, <2>1, <2>3
<1>18. EndKnown'
  BY <1>2, <1>3, <1>4, Static DEF Memory, EndKnown
<1>19. BytesLoaded'
  <2> SUFFICES ASSUME Linked, engine = "translated" => Plain,
                      NEW i \in Loaded, NEW o \in 1 .. elf.sections[i].size
               PROVE  InPlace(i, o)'
    BY <1>2, <1>3, Static DEF BytesLoaded
  <2> DEFINE x == StartOf(i) + o - 1
  <2>1. InPlace(i, o)
    BY <1>4 DEF Memory, BytesLoaded
  <2>2. i \in LoadedByLoop
    BY <1>3 DEF Loaded
  <2>3. /\ StartOf(i) \in Nat /\ elf.sections[i].size \in Nat
        /\ elf.sections[i].size <= ByteSize(elf.sections[i]) /\ ByteSize(elf.sections[i]) \in Nat
        /\ EndOf(i) = StartOf(i) + ByteSize(elf.sections[i])
        /\ o \in Nat /\ o >= 1 /\ o <= elf.sections[i].size /\ EndOf(i) <= sp
    BY <1>1, <1>15, <2>2, PlaceFacts
  <2>4. x \in Nat /\ x < sp /\ x \in Address
    BY <1>8, <2>3, Sizes DEF Address
  <2>5. data'[x] = data[x]
    BY <1>8, <1>13, <2>4
  <2>6. QED
    BY <1>2, <1>3, <2>1, <2>5, Static DEF InPlace
<1>20. QED
  BY <1>12, <1>16, <1>17, <1>18, <1>19 DEF Memory

\* The steps that write nothing: what is loaded is the same before and after them.
LEMMA QuietStep ==
    ASSUME IInv, Refuse \/ Open \/ EndOfSections \/ CopyName \/ initializeHeap \/ SetContext
    PROVE  Small' => Memory'
<1> USE DEF input
<1>1. Types /\ Registers /\ (Small => Memory)
  BY DEF IInv
<1>2. UNCHANGED <<engine, elf, env, data, overrun, dataEnd, initialSP>>
  BY DEF Refuse, Open, EndOfSections, CopyName, initializeHeap, SetContext
<1>3. /\ engine \in {"emulator", "translated"} /\ elf \in Binaries
      /\ next \in Nat /\ Len(elf.sections) \in Nat
  BY <1>1, TypeFacts, BinaryFacts
<1>4. \A i \in Sections(elf) : i \in Nat /\ i >= 1 /\ i <= Len(elf.sections)
  BY <1>1, <1>3, PlaceFacts
<1>5. TextSections(elf) \subseteq Sections(elf) /\ DataSections(elf) \subseteq Sections(elf)
  BY <1>3, BinaryFacts
<1>6. stage \notin {"sections", "data", "text"} => next = 1
  BY <1>1 DEF Registers
<1>7. CASE Refuse
  <2>1. engine = "emulator" /\ stage = "open" /\ stage' = "refused"
    BY <1>1, <1>7, TypeFacts DEF Refuse
  <2>2. LoadedByLoop' = LoadedByLoop /\ LoadedLast' = LoadedLast /\ ~ AuxDone /\ ~ AuxDone'
    BY <1>2, <2>1 DEF LoadedByLoop, LoadedLast, LoadedSections, AuxDone
  <2>3. QED
    BY <1>1, <1>2, <2>2, QuietMemory
<1>8. CASE Open
  <2>1. engine = "emulator" /\ stage = "open" /\ stage' = "sections" /\ next' = next /\ next = 1
    BY <1>1, <1>6, <1>8, TypeFacts, OrderFacts DEF Open, At
  <2>2. {i \in Sections(elf) : i < 1} = {}
    BY <1>4
  <2>3. LoadedByLoop' = LoadedByLoop /\ LoadedLast' = LoadedLast /\ ~ AuxDone /\ ~ AuxDone'
    BY <1>2, <2>1, <2>2 DEF LoadedByLoop, LoadedLast, LoadedSections, AuxDone
  <2>4. QED
    BY <1>1, <1>2, <2>3, QuietMemory
<1>9. CASE EndOfSections
  <2>1. next > Len(elf.sections) /\ argv' = argv
    BY <1>9 DEF EndOfSections
  <2>2. /\ {i \in Sections(elf) : i < next} = Sections(elf)
        /\ {i \in DataSections(elf) : i < next} = DataSections(elf)
        /\ {i \in TextSections(elf) : i < next} = TextSections(elf)
    BY <1>3, <1>4, <1>5, <2>1
  <2>3. \/ engine = "emulator" /\ stage = "sections" /\ stage' = "name"
        \/ engine = "translated" /\ stage = "data" /\ stage' = "heap"
        \/ engine = "translated" /\ stage = "text" /\ stage' = "run"
    BY <1>1, <1>9, TypeFacts, OrderFacts DEF EndOfSections, At
  <2>4. LoadedByLoop' = LoadedByLoop /\ LoadedLast' = LoadedLast /\ (AuxDone' <=> AuxDone)
    BY <1>2, <2>2, <2>3
       DEF LoadedByLoop, LoadedLast, LoadedSections, LoadedData, LoadedText, AuxDone
  <2>5. QED
    BY <1>1, <1>2, <2>1, <2>4, QuietMemory
<1>10. CASE CopyName
  <2>1. engine = "emulator" /\ stage = "name" /\ stage' = "aux"
    BY <1>1, <1>10, TypeFacts, OrderFacts DEF CopyName, At
  <2>2. LoadedByLoop' = LoadedByLoop /\ LoadedLast' = LoadedLast /\ ~ AuxDone /\ ~ AuxDone'
    BY <1>2, <2>1 DEF LoadedByLoop, LoadedLast, LoadedSections, AuxDone
  <2>3. QED
    BY <1>1, <1>2, <2>2, QuietMemory
<1>11. CASE initializeHeap
  <2>1. \/ engine = "emulator" /\ stage = "heap" /\ stage' = "context"
        \/ engine = "translated" /\ stage = "heap" /\ stage' = "text"
    BY <1>1, <1>11, TypeFacts, OrderFacts DEF initializeHeap, At
  <2>2. next' = 1 /\ argv' = argv
    BY <1>6, <1>11, <2>1 DEF initializeHeap
  <2>3. {i \in TextSections(elf) : i < 1} = {}
    BY <1>4, <1>5
  <2>4. LoadedByLoop' = LoadedByLoop /\ LoadedLast' = LoadedLast /\ AuxDone /\ AuxDone'
    BY <1>2, <2>1, <2>2, <2>3
       DEF LoadedByLoop, LoadedLast, LoadedSections, LoadedData, LoadedText, AuxDone
  <2>5. QED
    BY <1>1, <1>2, <2>2, <2>4, QuietMemory
<1>12. CASE SetContext
  <2>1. \/ engine = "emulator" /\ stage = "context" /\ stage' = "run"
        \/ engine = "translated" /\ stage = "context" /\ stage' = "data"
    BY <1>1, <1>12, TypeFacts, OrderFacts DEF SetContext, At
  <2>2. next' = 1 /\ argv' = argv
    BY <1>6, <1>12, <2>1 DEF SetContext
  <2>3. {i \in DataSections(elf) : i < 1} = {}
    BY <1>4, <1>5
  <2>4. LoadedByLoop' = LoadedByLoop /\ LoadedLast' = LoadedLast /\ AuxDone /\ AuxDone'
    BY <1>2, <2>1, <2>2, <2>3
       DEF LoadedByLoop, LoadedLast, LoadedSections, LoadedData, LoadedText, AuxDone
  <2>5. QED
    BY <1>1, <1>2, <2>2, <2>4, QuietMemory
<1>13. QED
  BY <1>7, <1>8, <1>9, <1>10, <1>11, <1>12

\* Every step keeps the invariant.
LEMMA StepInv == IInv /\ [Next]_vars => IInv'
<1> SUFFICES ASSUME IInv, [Next]_vars PROVE IInv'
  OBVIOUS
<1>1. CASE Next
  <2>1. Types' /\ Names' /\ Registers'
    BY <1>1, TypesStep, NamesStep, RegistersStep DEF IInv
  <2>2. Small' => Memory'
    BY <1>1, LoadStep, DataStep, TextStep, AuxStep, QuietStep DEF Next
  <2>3. QED
    BY <2>1, <2>2 DEF IInv
<1>2. CASE UNCHANGED vars
  <2> USE <1>2 DEF vars
  <2>1. Types' /\ Names'
    BY DEF IInv, Types, TypeOK, Names
  <2>2. (AuxDone' <=> AuxDone) /\ (ContextDone' <=> ContextDone) /\ (HeapDone' <=> HeapDone)
    BY DEF AuxDone, ContextDone, HeapDone
  <2>3. Registers'
    <3>1. pageAlignAddress(dataEnd)' = pageAlignAddress(dataEnd)
      BY DEF pageAlignAddress
    <3>2. QED
      BY <2>2, <3>1, Frame DEF IInv, Registers
  <2>4. LoadedByLoop' = LoadedByLoop /\ LoadedLast' = LoadedLast
    BY DEF LoadedByLoop, LoadedLast, LoadedSections, LoadedData, LoadedText
  <2>5. Small' => Memory'
    BY <2>2, <2>4, QuietMemory DEF IInv
  <2>6. QED
    BY <2>1, <2>3, <2>5 DEF IInv
<1>3. QED
  BY <1>1, <1>2

\* The invariant holds in every state of every start.
THEOREM Invariant == Spec => []IInv
<1>1. Init => IInv
  BY InitInv
<1>2. IInv /\ [Next]_vars => IInv'
  BY StepInv
<1>3. QED
  BY <1>1, <1>2, PTL DEF Spec

\* The variables of the start have their types; addresses stay words, also where the
\* code's unsigned arithmetic wraps around (Memory::loadAux, ElfBinary::loadToMemory).
THEOREM TypeCorrect == Spec => []TypeOK
<1>1. IInv => TypeOK
  BY DEF IInv, Types
<1>2. QED
  BY <1>1, Invariant, PTL

-----------------------------------------------------------------------------
(* What the guest finds *)

\* When the guest runs and all had room, everything is loaded.
LEMMA RunFacts ==
    ASSUME IInv, Running, Fits
    PROVE  /\ Types /\ Memory /\ Registers /\ AuxDone /\ ContextDone /\ HeapDone
           /\ Loaded = Sections(elf)
           /\ engine = "emulator" => LoadedByLoop = Sections(elf)
           /\ engine = "translated" => LoadedByLoop = DataSections(elf)
           /\ engine = "translated" \/ LoadedLast = {}
           /\ \A i \in Sections(elf) : EndOf(i) <= initialSP
           /\ initialSP <= DataSize
<1>1. Types /\ Registers /\ AuxDone /\ ContextDone /\ HeapDone
  BY DEF IInv, AuxDone, ContextDone, HeapDone, Running
<1>2. initialSP <= DataSize /\ initialSP \in Nat
  BY <1>1, StackRoom, TypeFacts
<1>3. \A i \in Sections(elf) : EndOf(i) <= initialSP /\ EndOf(i) \in Nat
  BY <1>1, PlaceFacts DEF Fits
<1>4. Small
  BY <1>2, <1>3, Sizes DEF Small
<1>5. /\ engine = "emulator" => LoadedByLoop = Sections(elf) /\ LoadedLast = {}
      /\ engine = "translated" => LoadedByLoop = DataSections(elf) /\ LoadedLast = TextSections(elf)
  BY DEF Running, LoadedByLoop, LoadedLast, LoadedSections, LoadedData, LoadedText
<1>6. Sections(elf) = TextSections(elf) \cup DataSections(elf)
  BY <1>1, TypeFacts, BinaryFacts
<1>7. Loaded = Sections(elf)
  BY <1>1, <1>5, <1>6, TypeFacts DEF Loaded
<1>8. QED
  BY <1>1, <1>2, <1>3, <1>4, <1>5, <1>7, TypeFacts DEF IInv

\* Starting leaves the mmap arena alone: whoever writes (loadToMemory, loadAux or main()
\* of a translated program) stays below it, if there is room.
THEOREM ArenaStaysFree == Spec => []ArenaUntouched
<1>1. IInv => ArenaUntouched
  <2> SUFFICES ASSUME IInv, Running, Fits
               PROVE  ~ overrun /\ \A a \in DataSize .. DataSize + MmapSize - 1 : data[a] = Zero
    BY DEF ArenaUntouched
  <2>1. Types /\ Memory /\ initialSP <= DataSize /\ initialSP \in Nat
    BY RunFacts, TypeFacts
  <2>2. ASSUME NEW a \in DataSize .. DataSize + MmapSize - 1 PROVE ~ Owned(a)
    <3>1. a \in Nat /\ a >= DataSize
      BY Sizes
    <3>2. ASSUME NEW i \in LoadedByLoop PROVE a \notin Range(i)
      <4>1. i \in Sections(elf)
        BY <2>1, LoadedFacts
      <4>2. EndOf(i) <= initialSP /\ EndOf(i) \in Nat
        BY <2>1, <4>1, RunFacts, PlaceFacts
      <4>3. QED
        BY <2>1, <3>1, <4>2, Sizes DEF Range
    <3>3. ASSUME NEW i \in LoadedLast PROVE a \notin TextRange(i)
      <4>1. i \in TextSections(elf) /\ i \in Sections(elf) /\ engine = "translated"
        BY <2>1, <3>3, LoadedFacts, RunFacts
      <4> DEFINE e == elf.sections[i].addr + ByteSize(elf.sections[i])
      <4>2. e <= initialSP
        BY <4>1 DEF Fits
      <4>3. e \in Nat
        BY <2>1, <4>1, PlaceFacts
      <4>4. TextRange(i) \subseteq 0 .. e - 1
        <5> DEFINE a1 == elf.sections[i].addr
                   z1 == ByteSize(elf.sections[i])
        <5>2. a1 \in Nat /\ z1 \in Nat /\ e = a1 + z1
          BY <2>1, <4>1, PlaceFacts
        <5> HIDE DEF a1, z1, e
        <5>3. TextRange(i) = a1 .. a1 + z1 - 1
          BY DEF TextRange, a1, z1
        <5>4. QED
          BY <5>2, <5>3
      <4> HIDE DEF e
      <4>5. QED
        BY <2>1, <3>1, <4>2, <4>3, <4>4, Sizes
    <3>4. a \notin StackRange
      BY <3>1, Sizes DEF StackRange
    <3>5. QED
      BY <3>2, <3>3, <3>4 DEF Owned
  <2>3. ASSUME NEW a \in DataSize .. DataSize + MmapSize - 1 PROVE data[a] = Zero
    <3>1. a \in Address
      BY Sizes DEF Address
    <3>2. QED
      BY <2>1, <2>2, <3>1 DEF Memory, NothingLost
  <2>4. QED
    BY <2>1, <2>3 DEF Memory
<1>2. QED
  BY <1>1, Invariant, PTL

\* Every byte of every section is in place when the guest starts, for every ELF file that
\* is linked as linkers do and every order in which the two engines write the sections.
THEOREM SectionsInPlace == Spec => []SectionsLoaded
<1>1. IInv => SectionsLoaded
  <2> SUFFICES ASSUME IInv, Running, Fits, Linked, engine = "translated" => Plain,
                      NEW i \in Sections(elf), NEW o \in 1 .. elf.sections[i].size
               PROVE  \/ data[StartOf(i) + o - 1] = FileByte(elf.sections[i], o)
                      \/ /\ elf.sections[i].nobits
                         /\ \E j \in Sections(elf) :
                               i < j /\ StartOf(i) + o - 1 \in StartOf(j) .. EndOf(j) - 1
    BY DEF SectionsLoaded
  <2>1. Memory /\ Loaded = Sections(elf)
    BY RunFacts
  <2>2. InPlace(i, o)
    BY <2>1 DEF Memory, BytesLoaded
  <2>3. QED
    BY <2>1, <2>2 DEF InPlace, Range
<1>2. QED
  BY <1>1, Invariant, PTL

\* The heap starts on a page and above what was loaded (Memory::initializeHeap).
THEOREM HeapAboveSections == Spec => []HeapIsFree
<1>1. IInv => HeapIsFree
  <2> SUFFICES ASSUME IInv, Running, Fits
               PROVE  /\ heapBase % HostPage = 0
                      /\ \A i \in Sections(elf) :
                            engine = "emulator" \/ (\E d \in DataSections(elf) : WrittenEnd(i) <= EndOf(d))
                            => WrittenEnd(i) <= heapBase
    BY DEF HeapIsFree
  <2>1. Types /\ Memory /\ Registers /\ AuxDone /\ HeapDone
    BY RunFacts
  <2>2. dataEnd \in Nat /\ dataEnd <= DataSize /\ \A i \in LoadedByLoop : EndOf(i) <= dataEnd
    BY <2>1, TypeFacts DEF Memory, EndKnown
  <2> DEFINE h == ((dataEnd + (HostPage - 1)) \div HostPage) * HostPage
  <2>3. heapBase = h % WordMod
    BY <2>1 DEF Registers, pageAlignAddress
  <2>4. h \in Nat /\ dataEnd <= h /\ h < dataEnd + HostPage /\ h % HostPage = 0
    BY <2>2, Sizes, PageAlign
  <2> HIDE DEF h
  <2>5. h \in 0 .. WordMod - 1
    BY <2>2, <2>4, Sizes
  <2>6. heapBase = h
    BY <2>3, <2>5, ModSmall
  <2>7. ASSUME NEW i \in Sections(elf),
               engine = "emulator" \/ (\E d \in DataSections(elf) : WrittenEnd(i) <= EndOf(d))
        PROVE  WrittenEnd(i) <= heapBase
    <3>1. WrittenEnd(i) \in Nat
      BY <2>1, PlaceFacts DEF WrittenEnd
    <3>2. CASE engine = "emulator"
      <4>1. WrittenEnd(i) <= dataEnd
        BY <2>2, <3>2, RunFacts DEF WrittenEnd
      <4>2. QED
        BY <2>2, <2>4, <2>6, <3>1, <4>1
    <3>3. CASE engine # "emulator"
      <4>1. PICK d \in DataSections(elf) : WrittenEnd(i) <= EndOf(d)
        BY <2>7, <3>3
      <4>2. d \in LoadedByLoop /\ d \in Sections(elf)
        BY <2>1, <3>3, <4>1, RunFacts, TypeFacts, BinaryFacts
      <4>3. EndOf(d) <= dataEnd /\ EndOf(d) \in Nat
        BY <2>1, <2>2, <4>2, PlaceFacts
      <4>4. QED
        BY <2>2, <2>4, <2>6, <3>1, <4>1, <4>3
    <3>4. QED
      BY <3>2, <3>3
  <2>8. QED
    BY <2>4, <2>6, <2>7
<1>2. QED
  BY <1>1, Invariant, PTL

\* Four bytes of a word read as that word.
LEMMA WordReads ==
    ASSUME NEW a \in Int, NEW w, \A i \in 0 .. 3 : data[a + i] = WordByte(w, i)
    PROVE  WordAt(a) = w
<1>1. CASE w = 0
  <2>1. \A i \in 0 .. 3 : data[a + i] = Zero
    BY <1>1 DEF WordByte
  <2>2. QED
    BY <1>1, <2>1 DEF WordAt
<1>2. CASE w # 0
  <2>1. \A i \in 0 .. 3 : data[a + i] = <<"word", w, i>>
    BY <1>2 DEF WordByte
  <2>2. 0 \in 0 .. 3 /\ a + 0 = a
    OBVIOUS
  <2>3. data[a] = <<"word", w, 0>>
    BY <2>1, <2>2
  <2>4. data[a][2] = w
    BY <2>3
  <2>5. data[a + 0] # Zero
    BY <2>2, <2>3 DEF Zero
  <2>6. ~ \A i \in 0 .. 3 : data[a + i] = Zero
    BY <2>2, <2>5
  <2>7. \A i \in 0 .. 3 : data[a + i] = <<"word", data[a][2], i>>
    BY <2>1, <2>4
  <2>8. QED
    BY <2>4, <2>6, <2>7 DEF WordAt
<1>3. QED
  BY <1>1, <1>2

\* What the guest reads: the words, and the strings behind them.
StackHolds(args, sp) ==
    \A k \in 1 .. Len(args) + Len(env) + 7 :
        WordAt(sp + 4 * (k - 1)) =
            IF k \in {Len(args) + 2, Len(args) + Len(env) + 3} THEN 0 ELSE StackWord(args, sp, k)
StringsHeld(strings, a) ==
    \A o \in 1 .. SizeOf(strings) : data[a + o - 1] = StringBytes(strings)[o]

\* The initial stack in the memory of the guest that runs: words, then strings.
LEMMA StackInMemory ==
    ASSUME IInv, Running, Fits, NEW args, args = GuestArgv(argv), NEW sp, sp = initialSP,
           NEW n, n = ArgsSize(args), NEW strings, strings = args \o env
    PROVE  /\ args \in Seq(Strings) /\ env \in Seq(Strings) /\ strings \in Seq(Strings)
           /\ Len(args) \in Nat /\ Len(env) \in Nat
           /\ n = 4 * (Len(args) + Len(env) + 7) /\ n \in Nat /\ sp \in Nat
           /\ SizeOf(strings) \in Nat /\ sp + n + SizeOf(strings) <= DataSize
           /\ StackHolds(args, sp) /\ StringsHeld(strings, sp + n)
<1> DEFINE z == SizeOf(strings)
           words == StackBytes(args, sp)
           chars == StringBytes(strings)
           p == (sp + n) % WordMod
<1>1. Types /\ Memory /\ Registers /\ AuxDone
  BY RunFacts
<1>2. args \in Seq(Strings) /\ env \in Seq(Strings) /\ sp \in Nat
  BY <1>1, TypeFacts, GuestArgvFacts
<1>3. strings \in Seq(Strings) /\ Len(args) \in Nat /\ Len(env) \in Nat
  BY <1>2
<1>4. sp = StackTop(args) /\ n + z <= DataSize
  BY <1>1 DEF Registers, Fits
<1>5. /\ n = 4 * (Len(args) + Len(env) + 7) /\ n \in Nat /\ z \in Nat
      /\ sp + n + z <= DataSize /\ p = sp + n
  <2>1. /\ ArgsSize(args) = 4 * (Len(args) + Len(env) + 7)
        /\ ArgsSize(args) \in Nat /\ SizeOf(args \o env) \in Nat
        /\ ArgsSize(args) + SizeOf(args \o env) <= DataSize =>
              /\ StackTop(args) + ArgsSize(args) + SizeOf(args \o env) <= DataSize
              /\ (StackTop(args) + ArgsSize(args)) % WordMod = StackTop(args) + ArgsSize(args)
    BY <1>2, StackFacts
  <2>2. z = SizeOf(args \o env)
    OBVIOUS
  <2> HIDE DEF z
  <2>3. QED
    BY <1>4, <2>1, <2>2
<1>6. /\ DOMAIN words = 1 .. n /\ Len(words) = n
      /\ WordsAre(args, sp, words)
  BY <1>2, StackBytesFacts
<1>7. DOMAIN chars = 1 .. z /\ Len(chars) = z /\ \A o \in 1 .. z : chars[o] # Kept
  BY <1>3, StringBytesCover
<1>8. StackRange = sp .. DataSize - 1
  BY DEF StackRange
<1>9. \A x \in sp .. DataSize - 1 : data[x] = Overlay(Overlay(Blank, sp, words), p, chars)[x]
  BY <1>1, <1>8 DEF Memory, StackIntact, StackImage
<1> HIDE DEF z, words, chars, p
<1>10. ASSUME NEW x \in sp .. DataSize - 1
       PROVE  /\ x \in sp .. sp + n - 1 =>
                    data[x] = IF words[x - sp + 1] # Kept THEN words[x - sp + 1] ELSE Zero
              /\ x \in sp + n .. sp + n + z - 1 => data[x] = chars[x - (sp + n) + 1]
  <2>1. x \in Address /\ x \in Int
    BY <1>2, Sizes DEF Address
  <2>2. Overlay(Blank, sp, words)[x] =
            IF x \in sp .. sp + n - 1 /\ words[x - sp + 1] # Kept THEN words[x - sp + 1] ELSE Blank[x]
    BY <1>6, <2>1 DEF Overlay
  <2>3. Overlay(Overlay(Blank, sp, words), p, chars)[x] =
            IF x \in p .. p + z - 1 /\ chars[x - p + 1] # Kept THEN chars[x - p + 1]
            ELSE Overlay(Blank, sp, words)[x]
    BY <1>7, <2>1 DEF Overlay
  <2>4. Blank[x] = Zero
    BY <2>1 DEF Blank
  <2>5. data[x] = Overlay(Overlay(Blank, sp, words), p, chars)[x]
    BY <1>9
  <2>6. x \in sp .. sp + n - 1 => x \notin p .. p + z - 1
    BY <1>2, <1>5, <2>1
  <2>7. x \in p .. p + z - 1 => x - p + 1 \in 1 .. z
    BY <1>2, <1>5, <2>1
  <2>8. QED
    BY <1>5, <1>7, <2>2, <2>3, <2>4, <2>5, <2>6, <2>7
<1>11. ASSUME NEW k \in 1 .. Len(args) + Len(env) + 7
       PROVE  WordAt(sp + 4 * (k - 1)) =
                  IF k \in {Len(args) + 2, Len(args) + Len(env) + 3} THEN 0
                  ELSE StackWord(args, sp, k)
  <2> DEFINE a == sp + 4 * (k - 1)
             skipped == k \in {Len(args) + 2, Len(args) + Len(env) + 3}
             w == IF skipped THEN 0 ELSE StackWord(args, sp, k)
  <2>1. k \in Nat /\ a \in Int
    BY <1>2, <1>3
  <2>2. ASSUME NEW i \in 0 .. 3 PROVE data[a + i] = WordByte(w, i)
    <3> DEFINE x == a + i
    <3>2. /\ x \in sp .. DataSize - 1 /\ x \in sp .. sp + n - 1
          /\ x - sp + 1 = 4 * (k - 1) + i + 1
      <4>1. PICK la \in Nat, le \in Nat : la = Len(args) /\ le = Len(env)
        BY <1>3
      <4>2. n = 4 * (la + le + 7) /\ k >= 1 /\ k <= la + le + 7
        BY <1>5, <4>1
      <4>3. i \in Nat /\ i <= 3
        OBVIOUS
      <4>4. sp + n <= DataSize
        BY <1>2, <1>5, Sizes
      <4>5. QED
        BY <1>2, <1>5, <2>1, <4>2, <4>3, <4>4, Sizes
    <3>3. words[4 * (k - 1) + i + 1] = IF skipped THEN Kept ELSE WordByte(StackWord(args, sp, k), i)
      BY <1>6 DEF WordsAre
    <3> HIDE DEF a, x, skipped
    <3>7. data[x] = IF words[x - sp + 1] # Kept THEN words[x - sp + 1] ELSE Zero
      BY <1>10, <3>2
    <3>4. \A v : WordByte(v, i) # Kept
      BY DEF WordByte, Kept, Zero
    <3>5. WordByte(0, i) = Zero
      BY DEF WordByte
    <3>6. data[x] = WordByte(w, i)
      BY <3>2, <3>3, <3>4, <3>5, <3>7
    <3>8. QED
      BY <3>6 DEF x
  <2> HIDE DEF a, w
  <2>3. WordAt(a) = w
    BY <2>1, <2>2, WordReads
  <2>4. QED
    BY <2>3 DEF a, w
<1>12. ASSUME NEW o \in 1 .. z PROVE data[sp + n + o - 1] = chars[o]
  <2> DEFINE x == sp + n + o - 1
  <2>1. x \in sp .. DataSize - 1 /\ x \in sp + n .. sp + n + z - 1 /\ x - (sp + n) + 1 = o
    BY <1>2, <1>5, Sizes
  <2> HIDE DEF x
  <2>2. data[x] = chars[o]
    BY <1>10, <2>1
  <2>3. QED
    BY <2>2 DEF x
<1>13. StackHolds(args, sp)
  BY <1>11 DEF StackHolds
<1>14. StringsHeld(strings, sp + n)
  BY <1>12 DEF StringsHeld, z, chars
<1>15. QED
  BY <1>2, <1>3, <1>5, <1>13, <1>14 DEF z

\* The pointer to string i, and the string behind it.
LEMMA StringInMemory ==
    ASSUME IInv, Running, Fits, NEW args, args = GuestArgv(argv), NEW sp, sp = initialSP,
           NEW n, n = ArgsSize(args), NEW strings, strings = args \o env,
           NEW i \in 1 .. Len(strings), NEW k, k = IF i <= Len(args) THEN i + 1 ELSE i + 2
    PROVE  /\ WordAt(sp + 4 * (k - 1)) \in 1 .. DataSize - 1
           /\ ReadsAs(WordAt(sp + 4 * (k - 1)), strings[i])
<1> DEFINE z == SizeOf(strings)
           e == Ends(strings)
           l == Len(strings)
<1>1. /\ args \in Seq(Strings) /\ env \in Seq(Strings) /\ strings \in Seq(Strings)
      /\ Len(args) \in Nat /\ Len(env) \in Nat
      /\ n = 4 * (Len(args) + Len(env) + 7) /\ n \in Nat /\ sp \in Nat
      /\ z \in Nat /\ sp + n + z <= DataSize
      /\ StackHolds(args, sp) /\ StringsHeld(strings, sp + n)
  BY StackInMemory
<1>2. l = Len(args) + Len(env)
  BY <1>1
<1>3. /\ l \in Nat /\ \A j \in 0 .. l : e[j] \in Nat
      /\ strings[i] \in Seq(1 .. 255) /\ Len(strings[i]) \in Nat
      /\ e[i] = e[i - 1] + Len(strings[i]) + 1
      /\ \A j \in 0 .. l : \A h \in 0 .. j : e[h] <= e[j]
      /\ z = e[l]
  <2>1. /\ l \in Nat
        /\ \A j \in 1 .. l : /\ strings[j] \in Seq(1 .. 255) /\ Len(strings[j]) \in Nat
                             /\ Ends(strings)[j] = Ends(strings)[j - 1] + Len(strings[j]) + 1
        /\ \A j \in 0 .. l : Ends(strings)[j] \in Nat
        /\ \A j \in 0 .. l : \A h \in 0 .. j : Ends(strings)[h] <= Ends(strings)[j]
    BY <1>1, EndsFacts
  <2>2. z = e[l]
    BY DEF SizeOf
  <2>3. i \in 1 .. l
    OBVIOUS
  <2> HIDE DEF z, l
  <2>4. QED
    BY <2>1, <2>2, <2>3
<1>4. i \in Nat /\ i >= 1 /\ i <= l /\ i - 1 \in 0 .. l /\ i \in 0 .. l /\ l \in 0 .. l
  <2>1. i \in 1 .. l
    OBVIOUS
  <2> HIDE DEF l
  <2>2. QED
    BY <1>3, <2>1
<1> HIDE DEF z, e, l
<1>5. e[i - 1] \in Nat /\ e[i] \in Nat /\ e[i] <= z
  BY <1>3, <1>4
<1>6. /\ k \in 1 .. Len(args) + Len(env) + 7 /\ k # 1 /\ k \in 2 .. Len(args) + Len(env) + 3
      /\ k \notin {Len(args) + 2, Len(args) + Len(env) + 3}
      /\ (IF k <= Len(args) + 1 THEN k - 1 ELSE k - 2) = i
  <2>1. PICK la \in Nat, le \in Nat : la = Len(args) /\ le = Len(env)
    BY <1>1
  <2>2. i <= la + le /\ k = IF i <= la THEN i + 1 ELSE i + 2
    BY <1>2, <1>4, <2>1
  <2>3. /\ k \in 1 .. la + le + 7 /\ k # 1 /\ k \in 2 .. la + le + 3
        /\ k \notin {la + 2, la + le + 3} /\ (IF k <= la + 1 THEN k - 1 ELSE k - 2) = i
    <3>1. CASE i <= la
      BY <1>4, <2>1, <2>2, <3>1
    <3>2. CASE ~ (i <= la)
      BY <1>4, <2>1, <2>2, <3>2
    <3>3. QED
      BY <3>1, <3>2
  <2>4. QED
    BY <2>1, <2>3
<1> DEFINE q == sp + n + e[i - 1]
<1>7. q \in 0 .. WordMod - 1 /\ q \in 1 .. DataSize - 1
  <2>1. PICK la \in Nat, le \in Nat, m \in Nat :
           la = Len(args) /\ le = Len(env) /\ m = Len(strings[i])
    BY <1>1, <1>3
  <2>2. n = 4 * (la + le + 7) /\ e[i] = e[i - 1] + m + 1
    BY <1>1, <1>3, <2>1
  <2>3. PICK u \in Nat, v \in Nat : u = e[i - 1] /\ v = e[i]
    BY <1>5
  <2>4. n >= 28 /\ u < z /\ q = sp + n + u
    <3>1. v = u + m + 1 /\ v <= z /\ z \in Nat
      BY <1>1, <1>5, <2>2, <2>3
    <3>2. q = sp + n + u
      BY <2>3
    <3>3. n >= 28
      BY <2>1, <2>2
    <3>4. QED
      BY <3>1, <3>2, <3>3
  <2>5. z \in Nat /\ sp \in Nat /\ n \in Nat /\ sp + n + z <= DataSize
    BY <1>1
  <2>6. QED
    <3> HIDE DEF q
    <3>1. sp + n + u >= 1 /\ sp + n + u <= DataSize - 1 /\ sp + n + u <= WordMod - 1
      BY <2>4, <2>5, Sizes
    <3>2. q \in Int
      BY <2>4, <2>5
    <3>3. QED
      BY <2>4, <3>1, <3>2, Sizes
<1>8. StackWord(args, sp, k) = q
  <2>1. StackWord(args, sp, k) =
            (sp + ArgsSize(args) + Ends(args \o env)[(IF k <= Len(args) + 1 THEN k - 1 ELSE k - 2) - 1])
                % WordMod
    BY <1>6 DEF StackWord
  <2>2. StackWord(args, sp, k) = q % WordMod
    BY <1>6, <2>1 DEF e
  <2>3. QED
    BY <1>7, <2>2, ModSmall
<1>9. WordAt(sp + 4 * (k - 1)) = q
  BY <1>1, <1>6, <1>8 DEF StackHolds
<1>10. ASSUME NEW c \in 1 .. Len(strings[i]) + 1
       PROVE  data[q + c - 1] = CharOf(strings[i], c)
  <2> DEFINE o == e[i - 1] + c
  <2>1. /\ o \in 1 .. z
        /\ StringBytes(strings)[o] = CharOf(strings[i], c)
    <3>1. l = Len(strings) /\ i \in 1 .. l /\ o = Ends(strings)[i - 1] + c
      BY DEF l, e
    <3> HIDE DEF o
    <3>2. strings \in Seq(Strings)
      BY <1>1
    <3>3. o \in 1 .. SizeOf(strings) /\ StringBytes(strings)[o] = CharOf(strings[i], c)
      <4>1. StringWritten(strings, i)
        BY <3>1, <3>2, StringBytesFacts
      <4>2. QED
        BY <3>1, <4>1 DEF StringWritten
    <3>4. QED
      BY <3>3 DEF z
  <2>2. sp + n + o - 1 = q + c - 1
    <3>1. c \in Int
      BY <1>3
    <3>2. QED
      BY <1>1, <1>5, <3>1
  <2> HIDE DEF o, q
  <2>3. data[sp + n + o - 1] = StringBytes(strings)[o]
    BY <1>1, <2>1 DEF StringsHeld, z
  <2>4. QED
    BY <2>1, <2>2, <2>3
<1> HIDE DEF q
<1>11. ReadsAs(q, strings[i])
  <2> DEFINE s == strings[i]
             m == Len(s)
  <2>1. m \in Nat /\ DOMAIN s = 1 .. m
    BY <1>3
  <2> HIDE DEF s, m
  <2>2. ASSUME NEW c \in DOMAIN s PROVE data[q + c - 1] = Char(s[c])
    <3>1. c \in 1 .. m + 1 /\ c <= m
      BY <2>1
    <3>2. QED
      BY <1>10, <3>1 DEF s, m, CharOf
  <2>3. data[q + m] = Zero
    <3>1. m + 1 \in 1 .. m + 1 /\ ~ (m + 1 <= m) /\ q + (m + 1) - 1 = q + m
      BY <1>7, <2>1
    <3>2. data[q + (m + 1) - 1] = Zero
      BY <1>10, <3>1 DEF s, m, CharOf
    <3>3. QED
      BY <3>1, <3>2
  <2>4. QED
    BY <2>2, <2>3 DEF ReadsAs, m, s
<1>12. QED
  BY <1>7, <1>9, <1>11

\* The guest that walks up its initial stack finds what the host was given
\* (Memory::loadAux, the strcpy in the emulator's main).
THEOREM StackTellsArguments == Spec => []GuestSeesArguments
<1>1. IInv => GuestSeesArguments
  <2> DEFINE A == GuestArgv(argv)
             a0 == initialSP + 4
             e0 == a0 + 4 * (Len(A) + 1)
             x0 == e0 + 4 * (Len(env) + 1)
  <2> SUFFICES ASSUME IInv, Running, Fits
               PROVE  /\ WordAt(initialSP) = Len(A)
                      /\ ArrayAt(a0, A) /\ ArrayAt(e0, env)
                      /\ WordAt(x0) = AT_PAGESZ /\ WordAt(x0 + 4) = HostPage
                      /\ WordAt(x0 + 8) = AT_NULL /\ WordAt(x0 + 12) = 0
                      /\ ctx.sp = initialSP
                      /\ engine = "translated" => A = given
                      /\ engine = "emulator" => Tail(A) = SubSeq(given, 3, Len(given))
                      /\ engine = "emulator" /\ Len(given[2]) <= Len(given[1]) => A[1] = given[2]
    BY DEF GuestSeesArguments
  <2>1. PICK args, sp, n, strings : /\ args = A /\ sp = initialSP /\ n = ArgsSize(args)
                                    /\ strings = args \o env
    OBVIOUS
  <2> DEFINE W(k) == WordAt(sp + 4 * (k - 1))
             la == Len(args)
             le == Len(env)
  <2>2. /\ args \in Seq(Strings) /\ env \in Seq(Strings) /\ strings \in Seq(Strings)
        /\ la \in Nat /\ le \in Nat /\ sp \in Nat
        /\ StackHolds(args, sp)
    BY <2>1, StackInMemory
  <2>12. \A k \in 1 .. la + le + 7 :
           W(k) = IF k \in {la + 2, la + le + 3} THEN 0 ELSE StackWord(args, sp, k)
    BY <2>2 DEF StackHolds
  <2>3. ASSUME NEW i \in 1 .. Len(strings), NEW k, k = IF i <= la THEN i + 1 ELSE i + 2
        PROVE  W(k) \in 1 .. DataSize - 1 /\ ReadsAs(W(k), strings[i])
    BY <2>1, <2>3, StringInMemory
  <2>4. /\ Len(strings) = la + le
        /\ \A i \in 1 .. la : strings[i] = args[i]
        /\ \A i \in 1 .. le : strings[la + i] = env[i]
        /\ DOMAIN args = 1 .. la /\ DOMAIN env = 1 .. le
    BY <2>1, <2>2
  <2>5. WordAt(initialSP) = Len(A)
    <3>1. 1 \in 1 .. la + le + 7 /\ 1 \notin {la + 2, la + le + 3} /\ sp + 4 * (1 - 1) = sp
      BY <2>2
    <3>2. W(1) = StackWord(args, sp, 1)
      BY <2>12, <3>1
    <3>3. StackWord(args, sp, 1) = la
      BY DEF StackWord
    <3>4. QED
      BY <2>1, <3>1, <3>2, <3>3
  <2>6. /\ a0 = sp + 4 /\ e0 = sp + 4 * (la + 2) /\ x0 = sp + 4 * (la + le + 3)
    BY <2>1, <2>2
  <2>13. ASSUME NEW k \in Nat, NEW a \in Int, sp + 4 * (k - 1) = a PROVE W(k) = WordAt(a)
    BY <2>13
  <2> HIDE DEF W, la, le, A, a0, e0, x0
  <2>7. ArrayAt(a0, A)
    <3>1. ASSUME NEW i \in 1 .. la
          PROVE  /\ WordAt(a0 + 4 * (i - 1)) \in 1 .. DataSize - 1
                 /\ ReadsAs(WordAt(a0 + 4 * (i - 1)), args[i])
      <4>1. /\ i \in 1 .. Len(strings) /\ i <= la /\ i + 1 = IF i <= la THEN i + 1 ELSE i + 2
            /\ sp + 4 * (i + 1 - 1) = a0 + 4 * (i - 1)
        BY <2>2, <2>4, <2>6
      <4>2. W(i + 1) \in 1 .. DataSize - 1 /\ ReadsAs(W(i + 1), strings[i])
        BY <2>3, <4>1
      <4>3. QED
        BY <2>4, <4>1, <4>2 DEF W
    <3>2. WordAt(a0 + 4 * la) = 0
      <4>1. la + 2 \in 1 .. la + le + 7 /\ sp + 4 * (la + 2 - 1) = a0 + 4 * la
        BY <2>2, <2>6
      <4>2. W(la + 2) = 0
        BY <2>12, <4>1
      <4>3. W(la + 2) = WordAt(a0 + 4 * la)
        BY <2>2, <2>6, <2>13, <4>1
      <4>4. QED
        BY <4>1, <4>2, <4>3
    <3>3. QED
      BY <2>1, <2>4, <3>1, <3>2 DEF ArrayAt, la
  <2>8. ArrayAt(e0, env)
    <3>1. ASSUME NEW i \in 1 .. le
          PROVE  /\ WordAt(e0 + 4 * (i - 1)) \in 1 .. DataSize - 1
                 /\ ReadsAs(WordAt(e0 + 4 * (i - 1)), env[i])
      <4> DEFINE j == la + i
      <4>1. /\ j \in 1 .. Len(strings) /\ ~ (j <= la) /\ j + 2 = IF j <= la THEN j + 1 ELSE j + 2
            /\ sp + 4 * (j + 2 - 1) = e0 + 4 * (i - 1)
        <5>1. i \in Nat /\ i >= 1 /\ i <= le
          BY <2>2
        <5>2. QED
          BY <2>2, <2>4, <2>6, <5>1
      <4>2. strings[j] = env[i]
        BY <2>4
      <4> HIDE DEF j
      <4>3. W(j + 2) \in 1 .. DataSize - 1 /\ ReadsAs(W(j + 2), strings[j])
        BY <2>3, <4>1
      <4>4. QED
        BY <4>1, <4>2, <4>3 DEF W
    <3>2. WordAt(e0 + 4 * le) = 0
      <4>1. la + le + 3 \in 1 .. la + le + 7 /\ sp + 4 * (la + le + 3 - 1) = e0 + 4 * le
        BY <2>2, <2>6
      <4>2. W(la + le + 3) = 0
        BY <2>12, <4>1
      <4>3. W(la + le + 3) = WordAt(e0 + 4 * le)
        BY <2>2, <2>6, <2>13, <4>1
      <4>4. QED
        BY <4>1, <4>2, <4>3
    <3>3. QED
      BY <2>4, <3>1, <3>2 DEF ArrayAt, le
  <2>9. /\ WordAt(x0) = AT_PAGESZ /\ WordAt(x0 + 4) = HostPage
        /\ WordAt(x0 + 8) = AT_NULL /\ WordAt(x0 + 12) = 0
    <3> DEFINE aux == <<AT_PAGESZ, HostPage, AT_NULL, 0>>
    <3>1. ASSUME NEW h \in 1 .. 4 PROVE WordAt(x0 + 4 * (h - 1)) = aux[h]
      <4> DEFINE k == la + le + 3 + h
      <4>1. /\ k \in 1 .. la + le + 7 /\ k \notin {la + 2, la + le + 3} /\ k # 1
            /\ k \notin 2 .. la + le + 3 /\ k > la + le + 3 /\ k - (la + le + 3) = h
            /\ sp + 4 * (k - 1) = x0 + 4 * (h - 1)
        <5>1. h \in Nat /\ h >= 1 /\ h <= 4
          OBVIOUS
        <5>2. QED
          BY <2>2, <2>6, <5>1
      <4> HIDE DEF k
      <4>2. W(k) = StackWord(args, sp, k)
        BY <2>12, <4>1
      <4>3. StackWord(args, sp, k) = aux[k - (la + le + 3)]
        BY <4>1 DEF StackWord, la, le
      <4>4. QED
        BY <4>1, <4>2, <4>3 DEF W
    <3>2. x0 \in Int
      BY <2>2, <2>6
    <3>3. WordAt(x0) = aux[1]
      <4>1. x0 + 4 * (1 - 1) = x0
        BY <3>2
      <4>2. QED
        BY <3>1, <4>1
    <3>4. WordAt(x0 + 4) = aux[2] /\ WordAt(x0 + 8) = aux[3] /\ WordAt(x0 + 12) = aux[4]
      <4>1. 4 * (2 - 1) = 4 /\ 4 * (3 - 1) = 8 /\ 4 * (4 - 1) = 12
        OBVIOUS
      <4>2. QED
        BY <3>1, <4>1
    <3>5. QED
      BY <3>3, <3>4
  <2>10. /\ ctx.sp = initialSP
         /\ engine = "translated" => A = given
         /\ engine = "emulator" => Tail(A) = SubSeq(given, 3, Len(given))
         /\ engine = "emulator" /\ Len(given[2]) <= Len(given[1]) => A[1] = given[2]
    <3>1. Types /\ Registers /\ ContextDone /\ Names
      BY RunFacts DEF IInv
    <3>2. argv \in Seq(Strings) /\ given \in Seq(Strings) /\ engine \in {"emulator", "translated"}
      BY <3>1, TypeFacts
    <3>3. ctx.sp = initialSP
      BY <3>1 DEF Registers
    <3>4. CASE engine = "translated"
      BY <3>1, <3>2, <3>3, <3>4, GuestArgvFacts DEF Names, A
    <3>5. CASE engine = "emulator"
      <4>1. /\ Len(argv) = Len(given) /\ Len(given) >= 2
            /\ \A k \in 3 .. Len(given) : argv[k] = given[k]
            /\ Len(given[2]) <= Len(given[1]) => argv[1] = given[2]
        BY <3>1, <3>5 DEF Names, Running
      <4>2. A[1] = argv[1] /\ Tail(A) = SubSeq(argv, 3, Len(argv))
        BY <3>2, <3>5, <4>1, GuestArgvFacts DEF A
      <4>3. SubSeq(argv, 3, Len(argv)) = SubSeq(given, 3, Len(given))
        BY <3>2, <4>1
      <4>4. QED
        BY <3>3, <3>5, <4>1, <4>2, <4>3
    <3>6. QED
      BY <3>2, <3>4, <3>5
  <2>11. QED
    BY <2>5, <2>7, <2>8, <2>9, <2>10
<1>2. QED
  BY <1>1, Invariant, PTL
=============================================================================
