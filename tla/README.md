# Verification of riscv_sbt

TLA+ modules, TLC configurations and TLAPS proofs for the RISC-V emulator and
static binary translator of this repository (paths below are relative to
`src/`).

## The system

| Part | State it keeps | Operations | Where |
|---|---|---|---|
| Guest address space | heap bounds, `mappedAreas`, the bytes | `initializeHeap`, `getMmapAddress`, `reserveMmapSpace`, `freeMmapSpace`, read, write | `lib/runtime/Memory.*` |
| System calls | a0, guest memory, the above | `handle`, one handler per call | `lib/runtime/syscall.*` |
| Decoder | none | `decode`, field getters, immediates | `lib/decoding/` |
| Interpreter | `Context` (pc, 32 registers, memory) | chain, switch, predecoded and threaded execution | `emulator/Interpreter.cpp` |
| Emulator | the decoded text | main loop, BASE_RA sentinel | `emulator/main.cpp` |
| Basic block analysis | the set of leaders | `getLeaders`, `harvestStaticData` | `sbt/analysis/` |
| Instruction emitter | `regKnown`, `regValues` | `emitInstruction`, `REG`, `emitOp`, `track`, `resetTracked` | `sbt/codegen/InstructionEmitter.cpp` |
| Runtime emitter | the dispatch table | table, dispatch loop, fallback, generated `main` | `sbt/codegen/RuntimeEmitter.cpp`, `sbt/templates/` |
| Register pinning | eight guest registers in host registers | store, load | `sbt/codegen/Emitter.cpp`, `sbt/main.cpp` |
| ELF loader | sections, text bounds | load, symbols, load to memory | `lib/elf/` |
| Profiling store | counts, observed targets, `profiling.json` | record, load, save | `lib/ProfilingInfo.cpp` |
| Initial stack | argc, argv, envp, auxv in guest memory | `loadAux` | `lib/runtime/Memory.cpp` |

How they interact: the translator decodes the text, asks the analysis and the
profile for leaders and writes a C++ program. That program keeps eight guest
registers in host registers, jumps through a table indexed by the guest pc and
falls back to the interpreter (which works on `ctx.reg`) when it lands on an
instruction that is no leader. Emitted code and both interpreters share
`Memory` and the system calls.

One thread runs a guest; processes meet only in `profiling.json`, which every
emulator (and every child its guest forks) replaces when it ends and every
translator reads and writes back. What is hard is above all agreement:
registers that live in two places, constants substituted at translation for
registers read at run time, leaders computed in one place and labels and table
slots in two others, three decoders, five copies of the division rules, books
about the mmap arena that the host's own state has to match after any sequence
of calls. `PROJECT.json` lists the hazards with the lines where they bite.

What makes each part correct:

* address space: reservations are disjoint, inside the arena, and cover what the
  guest holds; a placement never takes live pages;
* interpreter: each instruction has the effect rv32ima gives it; jumps go where
  their operands said; products and divisions are exact;
* decoder: all engines see the same instruction in a word; immediates lose no bit;
* translator: the emitted program does what the interpreter does, step by step,
  and gets as far;
* emulator: each of its builds does what the abstract guest does; returning to
  BASE_RA ends the program;
* start: the guest finds its sections, arguments, environment, heap and stack, and
  none of them covers another;
* profiling store: the file is the last profile saved, a translator can read it, and
  translating does not wear it out.

## Modules

| Module | Models | Role |
|---|---|---|
| `GuestMemory` | `Memory.cpp` 117-168, `_brk`, `_mmap`, `_munmap` | state machine |
| `MCGuestMemory` | | small instance of it |
| `GuestMemoryProofs` | | theorems about `GuestMemory` |
| `GuestIsa` | `runInstructionPredecoded`, `Syscall::handle` | operators: what one instruction does |
| `GuestIsaProofs` | | lemmas about these operators, used by the proofs of translator and emulator |
| `GuestMachine` | the guest run by the interpreter | abstract specification of translator and emulator |
| `MCGuestMachine` | | small instance of it |
| `Emulator` | `emulator/main.cpp` 69-109, the fetch of each build | detailed specification; instantiates `GuestMachine` |
| `MCEmulator` | | small instance of it |
| `EmulatorProofs` | | theorems about `Emulator`, its refinement among them |
| `Startup` | `lib/elf/`, `loadAux`, `initializeHeap`, both `main()`s | state machine |
| `MCStartup` | | small ELF files, command lines, environments |
| `StartupProofs` | | theorems about `Startup` |
| `Processes` | `ProfilingInfo`, `_clone`, `_execve`, `_exit`, `_writev` | state machine with crashes |
| `MCProcesses` | | small instance of it |
| `ProcessesProofs` | | theorems about `Processes` |
| `Translator` | `BasicBlocks`, `InstructionEmitter`, `RuntimeEmitter`, `Emitter`, templates | detailed specification; instantiates `GuestMachine` |
| `MCTranslator` | | small instances of it |
| `TranslatorProofs` | | theorems about `Translator`, its refinement among them |
| `Arithmetic` | the RV32M cases of interpreter and emitter | algorithms against the exact result |
| `ArithmeticProofs` | | theorems about `Arithmetic` |
| `Decoder` | `Decoder.cpp`, `Instructions.h`, the chain and the switch | algorithms against each other |
| `DecoderProofs` | | theorems about `Decoder` |

Definitions named `...Without...`, `...Short...` and the like, marked "Mutant",
are plausible mistakes in the definition that follows them. They are used by no
specification; each shows that a property notices the mistake.

### GuestMemory

`mappedAreas` is a set of base and size, since the vector is sorted after every
insertion and bases never repeat. `getMmapAddress` is the loop's result: the
end of the lowest area where the loop stops. `MmapFree`, `MmapHint` and
`MmapFails` are the three outcomes of `_mmap`; `Munmap` and `MunmapFails` those of
`_munmap`, which drops the reservation before it asks the host. Three history
variables record what the code does not keep: `owned`, the pages the host has mapped
for the guest; `kept`, those among them whose reservation went in a munmap that the
host refused; and `exhausted`, that a mapping was granted which the arena could not
hold. External to the code: the host may refuse any mapping and unmapping, and grants
lengths up to `MaxLen` (Linux refuses length 0); the guest moves its stack pointer
anywhere, also into its heap. `brk` looks at it once and nothing does afterwards, so
there is no property about heap and stack. `OwnedIsReserved` and `PlacementIsFresh`
name `kept` as their exception: after a munmap that the host refused (Linux does at its
limit of mappings per process), the next free placement takes these pages though the
guest still holds them. Hints are
enumerated over the arena; with `HintOwned` the guest only re-maps pages it
holds, which is how `MAP_FIXED` is meant to be used; a hint on a free page of the
arena is not entered in the books (`syscall.h:93`), and a later free placement maps
over it. `FirstFitFindsHole` speaks of holes behind an area because the loop looks
nowhere else: the room before the first area is lost once that area is unmapped. `WidthAssumption` keeps
arena addresses plus lengths below 2^32.

### GuestIsa and GuestMachine

`Step(i, c)` is the set of contexts instruction `i` leads to from `c`, in the
order of the code's writes: the link of a JALR is written before its base is
read, and x0 is cleared at the end. The arithmetic of single operators, the
contents of memory and the answers of the kernel are operator parameters.
`GuestMachine` runs one instruction after another (`Taken`) until an exit call or a
return to `Sentinel` (the end of the text for translated programs, BASE_RA for the
emulator). `BaseFirst` says in which order a JALR reads its base and writes its link,
which differ if they are one register: the emulator is compared with the interpreter's
order (`FALSE`), the translated program with the emitter's, which is that of rv32ima (`TRUE`).
A jump to anything else has no next
step: the dispatch index is unchecked there, and the code's behaviour undefined.

### Translator

| Code | Model |
|---|---|
| leaders after `getLeaders` and `harvestStaticData` | `Leaders` |
| `regKnown`, `regValues` | `regKnown` (a set), `regValues` |
| one emitted statement group | a record of `code`: label, instruction, source operands, syscall number; an operand is a literal or a register |
| running `sbt` | mode `"emit"`: one `emitInstruction` per instruction |
| the dispatch loop | mode `"dispatch"`: `Dispatch`, with `ProfilingCheck` |
| emitted statements | mode `"code"`: one `Run...` action per kind of statement |
| label `INVALID` and its loop | mode `"fallback"`: `FallbackStep`, `FallbackExitCall`, `FallbackLeave` |
| label `EXIT`, also reached by running off the text | `RunExitLabel` |
| `goto *dispatch[i]` | `Goto`, used by the loop and by chained JALRs |
| pinned registers | `host`; `Stored` and `Loaded` copy them |

The variable `tracked` is history: what the tracker knew at each instruction.
Left out: the wording of the C++ text, the cycle counts of the profiling
check, and which three of a JALR's observed targets are the most frequent (any
leader of the profile may be predicted). The text is one contiguous section.
`ProgramAssumption` restricts texts to those whose direct jumps stay inside
(others do not compile, for want of a label).

`Alu` is the interpreter's arithmetic, `EmitAlu` that of the emitted expressions, a
constant of its own: `MCEmitAlu` has the emitter's REM. There are two places where emitted
code and interpreter differ, and the program can take either way for the same
instruction: an expression with another value (`ValueDiffers`: REM on overflow) and a
JALR that links into its base in the fallback (`LinksItsBase`). The history variable `parted`
holds the guest's context when one of them is first executed; from then on the
refinement follows the guest no further. Everything before, emitted JALRs with
rd = rs1 included, has to be what `GuestMachine` does.

Refinement: `Guest == INSTANCE GuestMachine WITH ctx <- GuestCtx, status <-
GuestStatus`. The guest's registers are the host's while emitted code or the
dispatch loop runs, and `ctx.reg` otherwise; its pc is the place in the code
while emitted code runs and `ctx.pc` otherwise; once the two ways have parted it is
`parted`. `ImplementsGuestProgress` is progress of the guest unless that happens.

The options are a variable: one run translates under several combinations.

### Emulator

`build` is one of chain, switch, predecoded and threaded. `Predecode` fills the
vector, with INVALID in the gaps between text sections; `Run` executes what the
build finds at pc (the word in memory, or the vector's slot), `Check` is the end of
a round of the main loop. The threaded build goes from `Run` to `Run`. An index
outside of the vector is undefined and ends in the status `"wild"`. The abstract
machine has no step for a jump out of the text other than to the sentinel, so the
refinement freezes the guest where it leaves its text (`left`). `TextAssumption`
leaves self-modifying programs out.

### Startup

Memory is a function from addresses to where a byte comes from (a section, a word
or a character of the stack, nobody). `Order` lists the steps of the emulator's
`main()` and of the generated one, which differ; each step is one action, but for
the loops over the sections, which take one section a step (`next` is the loop's
position, `Visit` a round, `EndOfSections` its end).
`Sections` is what `ElfBinary::decode` keeps, `LoadAddress` and `ByteSize` are the
section's methods; the bytes behind a section's data that fill up its last word are
`Junk`. Words that are zero are not emitted (`NonZero`), words that are no
instruction come back as zero (`Decoded`), and text is written to its virtual
address. The initial stack is given word by word (`StackWord`) and string by string
(`Ends`, where each string ends); all addresses are words and wrap around. `strcpy` on
overlapping strings leaves any string. The preconditions of the properties say what
the code relies on and does not check: `Fits` (everything has room, the text of a
translated program also at its virtual address), `Linked` (sections in the order of
their addresses that do not overlap, but for those that take no room in the file) and,
for translated programs, `Plain`. `HeapIsFree` takes the end of each section where it is
written (`WrittenEnd`). libelf is external: a file is its section and
segment headers. `StartupAssumption` says what a file, a string and a memory are:
strings have no zero bytes, the memory and a page more fit the address space.

### Processes

A process is an emulator or a translator, at one of the steps of its
`ProfilingInfo`: `create` (openFile found no file), `load`, `run`, `truncate`,
`write`. The text of a profile is a sequence of pieces, written one at a time at the
process's own offset, so that saves of two processes interleave, leave holes, and
leave tails. A translator reads the file one piece at a time (`Read`) and parses what it
has read when it comes to the end (`load`); a save may begin in between. Parsing a mixture
throws, or, if the pieces happen to make up a text, gives anything.
`Crash` stands for a kill, for an exception of
openFile or save (which ends the process) and for a write error (which nobody
sees): in each case what was to be written is not. `clone` copies the process,
`execve` ends it without a save. History: `torn` (a save was cut short or
overlapped another one), `saved` (the profile of the last save that finished), `emptied`
(since that save, a process that had found no file came to create it: `Create` truncates
what others saved meanwhile), and per translator `stale` (the file changed
behind its back). The save lost to `Create` is the exception that `ProfileWhole` names: the
file is then empty, not the last profile. `writev` is its whole loop, over entries the host takes
in full, in part or not at all; its sum is an `int32_t`, which wraps around, and
`OutputAccounted` speaks of what fits it (`MaxInt`). The words `_clone` writes for SETTID and the data
that read, statx and clock_gettime64 put into memory are not kept here.

### Arithmetic and Decoder

`Arithmetic` runs the multiplications and divisions on all pairs of words, of which
there are 2 * `Half` (`Half` is 2^31 in the code); `Engine` chooses between the interpreters' and the emitter's REM.
`Decoder` represents a word by its fields and asks which instruction each engine
executes for it; the sets of field values hold both ends of each range, single
bits at the field borders, and every value some engine tests for. `EnginesAgree`
is about words a compiler for rv32ima produces. For two kinds of other words the
engines differ: a JALR word with funct3 # 0 runs LUI in the switch, whose case
has its break inside the if (`Interpreter.cpp:588-596`) and nothing in the
chain; a SYSTEM word with zero upper bits and funct3 # 0 is an ECALL for table
and chain and nothing for the switch (`606`).

## Runs

| Run | Checks | Bounds |
|---|---|---|
| `memory` | `TypeOK`, `AreasDisjoint`, `AreasInArena`, `OwnedIsReserved`, `PlacementIsFresh`, `FirstFitFindsHole` | pages of 2, four pages of arena, lengths 0 to 5: aligned and unaligned, gaps that fit, that are one short, and a full arena |
| `memory_exhausted` | `NextFreeAddress` is violated | same |
| `guest_jalr` | `JumpsWhereLogged` is violated | three instructions |
| `emulator` | `TypeOK`, `ImplementsGuest`, `LoopImplementsProgress` under fairness | texts of four slots, one of them a gap; all four builds |
| `emulator_threaded` | `ReturnEndsProgram` is violated | same |
| `startup` | `TypeOK`, `GuestSeesArguments`, `SectionsLoaded`, `HeapIsFree`, `ArenaUntouched` | 80 bytes of memory, 14 files, 5 command lines, 4 environments |
| `processes` | `TypeOK`, `ProfileWhole`, `ReadableUnlessTorn`, `TranslationKeepsTargets`, `OutputAccounted` | two processes at a time, any number one after the other; counters up to 2, so that halving reaches 1 and 0; vectors of three entries, one of them empty, and of two whose sum exceeds `MaxInt` = 3; symmetric in the processes |
| `translator` | `TypeOK`, `TrackingSound`, `ImplementsGuest`, `ImplementsGuestProgress` under fairness, `JumpsLandOnLabels`, `RegistersSurviveDispatch` | 728 texts of four instructions, three combinations of options, with and without a profile, two entries |
| `translator_clobber` | `RegistersSurviveDispatch` is violated | the looping texts, profiling check on, with ra caller-saved as in `x86RegisterMap` |
| `arithmetic_interpreter` | `ProductExact`, `DivisionExact` | all pairs of 6-bit words |
| `arithmetic_translated` | `DivisionExact` is violated | same |
| `decoder_agree` | `EnginesAgree`, `TableUnambiguous`, `ImmediatesFaithful` | 15 values of the upper 12 bits, all opcodes and funct3 |

Four instructions are enough for the translator: tracking lasts at most from a
constant to the next label, a use and a jump back to it; every operand form and
every instruction kind occurs, at leaders and elsewhere, JALRs that link into their base
in a block and in the fallback, and remainders with and without overflow. Four registers give one
of each kind: x0, pinned and caller-saved, pinned, not pinned. Words have five
bits so that the text, the sentinel behind it and negative immediates fit.
Division and product rules depend on the width only through its extreme values,
which 6 bits have. Deadlock checking is off where the program really ends.

The files of `startup` are one for each way in which sections meet: aligned and
unaligned `.bss` after `.data`, padding, a gap, load and virtual addresses that
differ (for data and for text), sections that are not loaded, TLS that takes no room
and lies where the next section begins, data below text, a
section behind the memory and one that ends where the stack begins. Two processes
are enough for a save to meet another save, a creation or a load; a third adds no
pair.

Fairness: `FairSpec` (in `Translator` and in `Emulator`) is weak fairness of the
whole next-state relation. Translator, emitted program and emulator are each one
thread that takes its next step whenever it has one; nothing finer is assumed.

### What the violated properties show

1. `syscall.h:86,94`: a full arena is not noticed; later mappings overlap.
2. `Interpreter.cpp:811`: `jalr ra, 0(ra)` jumps to its own link (the emitted code
   does not).
3. `emulator/main.cpp:87`: in the threaded build, the default, a program without
   startup code never gets to the check for BASE_RA.
4. `indirect_profiling_check.cpp.in:5`: printf may destroy ra, sp, a5 and a4.
5. `InstructionEmitter.cpp:326`: the overflowing REM gives 0x80000000, not 0.

## Proofs

All are checked by TLAPS for every value of the constants that satisfies the
named assumptions.

`GuestMemoryProofs`, from `SizesAssumption`, `WidthAssumption` and
`InputsAssumption`. The inductive invariant is

    IInv == TypeOK /\ AreasDisjoint /\ AreasInArena /\ OwnedIsReserved

Disjointness alone is not inductive: the end of a new area must not reach the
next one, which needs that bases are page-aligned and that no sum wraps around,
hence `AreasInArena` and the types. The core is a lemma on `getMmapAddress`: its
result is the end of an area, or the start of an empty arena, and no reserved
area lies between it and the size asked for. From it follow

* `ReservationsSound`: `AreasDisjoint` and `AreasInArena`; `ReservationsInArena`:
  `AreasInArena`;
* `HeldIsReserved`: `OwnedIsReserved`; `NoLiveMemoryHandedOut`: `PlacementIsFresh`, both
  with the exception `kept`;
* `FirstFit`: `FirstFitFindsHole`; `TypeCorrect`: `TypeOK`.

`TranslatorProofs`, from `WordAssumption`, `ClosureAssumption`,
`TranslationAssumption` and `ProgramAssumption`. The inductive invariant is

    IInv == TypeOK /\ PlaceOK /\ Coherent /\ TrackingSound

`PlaceOK` says where control may be in each mode; `Coherent` ties the emitted
code to the text and to `tracked` and says that what is tracked at an instruction
without a label follows from what was tracked at the one before. `TrackingSound`
needs it: a statement that falls through must leave each tracked register with
its value, and a jump lands on a label, where nothing is tracked. From it follow

* `ConstantsSound`: `TrackingSound`;
* `JumpsLand`: `JumpsLandOnLabels`; `TypeCorrect`: `TypeOK`.

The second part of `TranslatorProofs` is the refinement, from the same assumptions and
the hypothesis

    NoClobber == CallerSaved = {} \/ \A o \in OptionSets : ~ (o.profileIndirect /\ ~ o.translationChaining)

which is needed: `translator_clobber` is the counterexample without it. The run
`translator` pins no caller-saved register; with the registers of `x86RegisterMap` it
holds for programs translated without the profiling check or with chaining. The invariant adds to `IInv` that `ctx.reg[0]`
is 0: x0 is never stored back, and operands written as the literal 0 must be what the
interpreter reads. The argument is that of a compiler proof. `StepForm` (in
`GuestIsaProofs`) writes out what an instruction leaves in pc, registers and memory;
`StatementMeansInstruction` shows that the emitted statement, with its literals and
register operands, computes the same values, because `TrackingSound` says that a
literal is the register's value; then there is one lemma per action (`AssignExecutes`,
`BranchExecutes`, `JalrExecutes`, `FallbackExecutes`, ...) that maps it to a step of
`GuestMachine` as long as the ways have not parted (`Followed`), and `Unseen` for
those that map to stuttering (emission, dispatch, the
profiling check, entering and leaving the fallback). `JalrForm` and `TakenForm` do for a JALR
that reads its base first what `StepForm` does for the interpreter; `StepTaken` says
that the fallback's instruction is the guest's unless `LinksItsBase`; an assignment with
`ValueDiffers`, or such a JALR, sets `parted`, and `PartedStep` shows that it then
holds what the guest was, and never changes again. From it follow

* `TranslatedImplementsGuest`: `ImplementsGuest`;
* `RegistersSurvive`: `RegistersSurviveDispatch`.

`EmulatorProofs`, from `WordAssumption`, `ClosureAssumption`, `EmulatorAssumption` and
`TextAssumption`. The inductive invariant is

    IInv == TypeOK /\ TextIntact /\ VectorFilled /\ PhaseOK /\ RoundOK /\ Followed

`TextIntact` (the text in memory is the program) and `VectorFilled` (the decoded
vector is the program, with INVALID in the gaps) are what makes the four ways to
fetch an instruction one; `RoundOK` holds in every phase but the check, so that it
has to be carried through `Run`; `Followed` says where the refinement still follows
the guest. From it follow

* `EmulatorImplementsGuest`: `ImplementsGuest`, for all builds;
* `TypeCorrect`: `TypeOK`;
* `LoopEndsOnReturn`: `ReturnEndsProgram` for the builds that have a loop, the one
  that `emulator_threaded` refutes for the threaded build.

`ProcessesProofs`, from `ProcessesAssumption`. The inductive invariant is

    IInv == ProcsOK /\ FileOK /\ LoneWriter /\ ProfileWhole /\ FreshOK

`ProfileWhole` speaks of files nobody writes. To be inductive it needs `LoneWriter`:
unless a save is torn there is at most one writer, and the file holds exactly the
pieces it has written. `FreshOK` says what a translator still knows about a file
nobody else wrote to since it began to read: the pieces read so far are the file's first
ones, then its profile is what the file holds (`Base`). From it follow

* `FileIsLastSave`: `ProfileWhole`, with its exception for `openFile`; `LoadsWhatWasSaved`: `ReadableUnlessTorn`;
* `WriteBackKeepsTargets`: `TranslationKeepsTargets`; `TypeCorrect`: `TypeOK`.

`WritevTells`: `OutputAccounted` needs no invariant of the processes but one of the
loop. `RoundOK` says of the state after some rounds that what came out is a prefix of the
vector, as long as the sum says if the sum fits, and all of the entries so far if the
loop goes on. A round keeps it (`RoundKeeps`), whatever the host takes. The loop is a
recursive function (`Rounds`); that it exists (`RoundsExist`) and that all its values
satisfy `RoundOK` (`RoundsKeep`) is shown by looking at the least round that would not.

`StartupProofs`, from `StartupAssumption`. The inductive invariant is

    IInv == Types /\ Names /\ Registers /\ (Small => Memory)
    Memory == ~ overrun /\ NothingLost /\ StackIntact /\ EndKnown /\ BytesLoaded

None of the four properties is inductive: they speak of a guest that runs, and need to
know at each step of `main()` which sections are there (`Loaded`, per engine and
stage). `NothingLost`: a byte that is not zero lies in a loaded section or in the
initial stack. It is what makes leaving out zero words sound, and what keeps the
arena free. `BytesLoaded`: loaded sections still have their bytes, though later ones are
written in whole words, with padding, and in another order by the translated program.
`StackIntact`: the stack is what `loadAux` put into an empty memory, also when the
sections come later. `EndKnown`: `dataEnd` is behind all that the loop has loaded.
`Memory` holds as long as things have room (`Small`: so far), `Types` always. About the
strings there are lemmas on the sums of their sizes: they exist (`EndsExist`), grow
(`EndsFacts`), and assign each byte to one string (`StringBytesFacts`,
`StringBytesCover`). From it follow

* `StackTellsArguments`: `GuestSeesArguments`; `SectionsInPlace`: `SectionsLoaded`;
* `ArenaStaysFree`: `ArenaUntouched`; `HeapAboveSections`: `HeapIsFree`;
* `TypeCorrect`: `TypeOK`.

The attempt to prove `ArenaUntouched` showed what it depends on: text that is loaded
elsewhere than it runs needs room at both places in a translated program, hence the
second conjunct of `Fits`.

`ArithmeticProofs`, from `HalfIsPositive` and `EngineIsKnown`. What is proved is an
argument about integers: a word and its signed reading differ by a multiple of
the word size (`SignedForm`, `UnsignedForm`), multiples of it do not change the low
word (`SameWord`), and the truncating division is the one whose remainder has the
sign of the dividend (`Truncated`). The invariant only says that the results are those
of the instructions. From it follow

* `ProductsAreExact`: `ProductExact`, for both engines;
* `DivisionsAreExact`: `DivisionExact` for `Engine = "interpreter"`; the run
  `arithmetic_translated` refutes it for the emitted code.

`DecoderProofs`, from `FieldAssumption` (fields are no wider than they are). Two rows
are `Apart` if their conditions contradict each other; a table whose rows are pairwise
apart stays so when another one, apart from it, is appended (`Concatenation`). Eleven
parts make up `SPEC_LISTS` (`WholeTable`), and the same rows without EBREAK make up the
chain in its own order (`ChainRows`), so that a search in either finds the one
row a word matches. The switch is compared opcode by opcode (`ImmAgrees`, `OpAgrees`,
...). Sign extension is injective and the immediates' parts do not overlap
(`IFaithful` to `UFaithful`). From it follow

* `EnginesDoAgree`: `EnginesAgree`; `TableIsUnambiguous`: `TableUnambiguous`;
* `ImmediatesAreFaithful`: `ImmediatesFaithful`.

Induction over data is done without the library's induction theorems, whose operator
parameter the provers cannot instantiate: `LeastNat` (a set of naturals has a least
element, from `WFMin`) is applied to the set of counterexamples.

Only model-checked: `ImplementsGuestProgress` and `LoopImplementsProgress`, that
translated program and emulator get as far as the guest. Liveness under fairness is
out of the prover's reach. Every other property of a passing run is a theorem.

## Not modelled

* The format of ELF files and of JSON, template files, argument parsing, printing: I/O
  and text. libelf, the JSON library and the host kernel are external.
* Misaligned jump targets and self-modifying code; in `Translator`, text in several
  sections with gaps.
* Emitted text that does not compile (AUIPC with a negative upper immediate, a
  direct jump or a harvested address without an instruction, BASE_RA as a
  predicted target).
* The order in which output of several processes mixes.
* `syscallMap.h` (a table of names for a script), scripts, benchmarks and test programs.

## Plan

Done in this order: address space, guest machine, translator with its refinement,
arithmetic, decoder, proofs of the two core modules; emulator with its refinement,
start, processes; then the theorems about emulator, processes, arithmetic and decoder,
and the refinement of the translator; last those about the start and `writev`.

What could follow: text in several sections with gaps in `Translator`, as in `Emulator`;
the bytes that read and statx put into guest memory, together with `GuestMemory`.
