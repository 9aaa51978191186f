------------------------------ MODULE Emulator ------------------------------
(***************************************************************************)
(* The emulator, emulator/main.cpp, in its four builds.                    *)
(*                                                                         *)
(*   "chain", "switch"  fetch and decode the word at pc, one instruction   *)
(*                      per round of the main loop                         *)
(*   "predecoded"       one instruction per round, from the vector decoded *)
(*                      in advance                                         *)
(*   "threaded"         from the vector; each handler jumps to the next,   *)
(*                      and the main loop is never seen again              *)
(*                                                                         *)
(* A round is the instruction (phase "run") and the checks behind it       *)
(* (phase "check").  Programs that write their own text are left out.      *)
(***************************************************************************)
EXTENDS GuestIsa, Sequences

CONSTANTS
    Programs, Entries, InitRegs, InitMems,
    Gaps,           \* slots between two text sections, which hold no instruction
    Fetch(_, _),    \* memory, address: the instruction in the word at the address
    Builds,         \* the builds in question
    BaseRa,         \* BASE_RA
    MemSize         \* Memory::getSize(), DATA_SIZE

FromMemory == {"chain", "switch"}

Invalid(p) == \A k \in Gaps : p[k].type = "INVALID"

ASSUME EmulatorAssumption ==
    /\ Builds \subseteq FromMemory \cup {"predecoded", "threaded"}
    /\ Gaps \subseteq Index
    /\ \A p \in Programs : p \in [Index -> Instr] /\ Invalid(p)
    /\ \A m \in Mem, a \in Word : Fetch(m, a) \in Instr
    /\ InitMems \subseteq Mem
    /\ InitRegs \subseteq {r \in [Reg -> Word] : r[0] = 0}
    /\ Entries \subseteq {Addr(k) : k \in Index}
    /\ MemSize \in Nat /\ TextEnd <= MemSize
    /\ BaseRa \in Word /\ BaseRa >= MemSize

\* The text stays what it is: neither a store nor a system call writes it.
ASSUME TextAssumption ==
    \A m \in Mem, k \in Index :
        /\ \A op \in Op, a, v \in Word : Fetch(Store(op, m, a, v), Addr(k)) = Fetch(m, Addr(k))
        /\ \A n \in KernelWrites(m) : Fetch(n, Addr(k)) = Fetch(m, Addr(k))

VARIABLES
    build,         \* which of the builds this is
    prog,          \* the instructions of the text sections, INVALID in the gaps
    instructions,  \* the predecoded vector
    phase,         \* "decode", "run" or "check"
    ctx, status,
    left           \* history: <<>>, or the context in which the guest left its text

vars == <<build, prog, instructions, phase, ctx, status, left>>

NoInstr == [type |-> "INVALID", op |-> CHOOSE op \in Op : TRUE,
            rd |-> 0, rs1 |-> 0, rs2 |-> 0, imm |-> 0]

Init ==
    /\ build \in Builds
    /\ prog \in Programs
    /\ instructions = [k \in Index |-> NoInstr]
    /\ phase = IF build \in FromMemory THEN "run" ELSE "decode"
    /\ ctx \in [pc : Entries, reg : InitRegs, mem : InitMems]
    /\ \A k \in Index : Fetch(ctx.mem, Addr(k)) = prog[k]
    /\ status = "running"
    /\ left = <<>>

-----------------------------------------------------------------------------
\* Mutant: one instruction behind the other, whatever their addresses.
PredecodeSqueezed ==
    /\ phase = "decode"
    /\ instructions' = [k \in Index |-> IF \A g \in Gaps : k < g THEN prog[k]
                                        ELSE IF k + 1 \in Index THEN prog[k + 1] ELSE NoInstr]
    /\ phase' = "run"
    /\ UNCHANGED <<build, prog, ctx, status, left>>

\* The vector starts out INVALID; each decoded instruction goes to its slot.
Predecode ==
    /\ phase = "decode"
    /\ instructions' = [k \in Index |-> IF k \in Gaps THEN NoInstr ELSE prog[k]]
    /\ phase' = "run"
    /\ UNCHANGED <<build, prog, ctx, status, left>>

\* What the build executes at pc; the vector has nothing outside of the text.
Executable(pc) == build \in FromMemory \/ InText(pc)
Instruction(pc) == IF build \in FromMemory THEN Fetch(ctx.mem, pc) ELSE instructions[SlotOf(pc)]

Running(ph) == status = "running" /\ phase = ph

Leaves(pc) == left = <<>> /\ ~ InText(pc) /\ pc # BaseRa

\* One instruction; only the threaded build goes straight to the next one.
Run ==
    /\ Running("run") /\ Executable(ctx.pc)
    /\ ~ Exits(Instruction(ctx.pc), ctx)
    /\ ctx' \in Step(Instruction(ctx.pc), ctx)
    /\ phase' = IF build = "threaded" THEN "run" ELSE "check"
    /\ left' = IF Leaves(ctx'.pc) THEN <<ctx'>> ELSE left
    /\ UNCHANGED <<build, prog, instructions, status>>

ExitCall ==
    /\ Running("run") /\ Executable(ctx.pc)
    /\ Exits(Instruction(ctx.pc), ctx)
    /\ status' = "exited"
    /\ UNCHANGED <<build, prog, instructions, phase, ctx, left>>

\* An index outside of the vector: undefined behaviour.
IndexOutside ==
    /\ Running("run") /\ ~ Executable(ctx.pc)
    /\ status' = "wild"
    /\ UNCHANGED <<build, prog, instructions, phase, ctx, left>>

\* Mutant: the bound is checked first.
CheckedBoundFirst(pc) ==
    IF pc >= MemSize THEN "outOfBounds" ELSE IF pc = BaseRa THEN "returned" ELSE "running"

\* BASE_RA, which is no address of the memory, comes before the bound.
Checked(pc) ==
    IF pc = BaseRa THEN "returned" ELSE IF pc >= MemSize THEN "outOfBounds" ELSE "running"

\* The end of a round of the main loop.
Check ==
    /\ Running("check")
    /\ status' = Checked(ctx.pc)
    /\ phase' = "run"
    /\ UNCHANGED <<build, prog, instructions, ctx, left>>

Next == Predecode \/ Run \/ ExitCall \/ IndexOutside \/ Check

Spec == Init /\ [][Next]_vars

\* One thread, which never stops while it can take a step.
FairSpec == Spec /\ WF_vars(Next)

-----------------------------------------------------------------------------
\* Type invariant of the emulator.
TypeOK ==
    /\ build \in Builds
    /\ prog \in [Index -> Instr] /\ instructions \in [Index -> Instr]
    /\ phase \in {"decode", "run", "check"}
    /\ ctx \in Context
    /\ status \in {"running", "exited", "returned", "outOfBounds", "wild"}
    /\ left = <<>> \/ (Len(left) = 1 /\ left[1] \in Context)

\* As far as the guest stays in its text, it is the guest of the abstract machine.
GuestCtx == IF left = <<>> THEN ctx ELSE left[1]
GuestStatus ==
    IF left = <<>> /\ status \in {"exited", "returned"} THEN status ELSE "running"

Guest == INSTANCE GuestMachine WITH
            ctx <- GuestCtx, status <- GuestStatus, Sentinel <- BaseRa, BaseFirst <- FALSE

\* Every build runs the guest as the abstract machine does: the gaps between text
\* sections, the vector decoded in advance and the checks between two instructions
\* make no difference to the program.
ImplementsGuest == Guest!Spec

\* The builds with a main loop also get the guest as far: to its next instruction,
\* its exit call or its return to BASE_RA.
LoopImplementsProgress == build # "threaded" => Guest!Progress

\* main.cpp:97 "baremetal return without exit syscall": a return to BASE_RA ends
\* the program; no build takes BASE_RA for the address of an instruction.
ReturnEndsProgram == status = "wild" => ctx.pc # BaseRa
=============================================================================
