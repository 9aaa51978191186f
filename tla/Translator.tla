----------------------------- MODULE Translator -----------------------------
(***************************************************************************)
(* The static binary translator and the program it emits.                  *)
(*                                                                         *)
(* Translation (mode "emit") walks the text once, InstructionEmitter::     *)
(* emitInstruction per instruction: it marks basic block leaders with a    *)
(* label and tracks registers that hold a known constant, whose value it   *)
(* then writes into the code instead of the register.                      *)
(*                                                                         *)
(* The emitted program, runTranslated(), keeps the guest registers of      *)
(* Pinned in host registers and the others in ctx.reg.  It dispatches on   *)
(* ctx.pc (mode "dispatch"), runs emitted code (mode "code"), and falls    *)
(* back to the interpreter (mode "fallback") when it lands on an address   *)
(* that is no leader.                                                      *)
(***************************************************************************)
EXTENDS GuestIsa, Sequences

CONSTANTS
    Programs, Entries, InitRegs, InitMems,
    Pinned,          \* guest registers of x86RegisterMap
    CallerSaved,     \* those of them that live in r8 .. r11
    Compound,        \* operators emitted by emitOp: + - ^ | &
    Ordered,         \* those of them that do not commute: -
    Targets,         \* candidates for the indirect targets of the profile
    Harvests,        \* candidates for the text addresses found in data sections
    OptionSets,      \* combinations of options the translator is run with
    Heatup,          \* initial value of heatup (5)
    EmitAlu(_, _, _) \* op, two operands: what the emitted expression computes

\* The options of sbt/main.cpp that change what the emitted program does.
Options == [useProfilingData : BOOLEAN, translationChaining : BOOLEAN,
            softwareBranchPrediction : BOOLEAN, profileIndirect : BOOLEAN]

ASSUME TranslationAssumption ==
    /\ Pinned \subseteq Reg \ {0} /\ CallerSaved \subseteq Pinned
    /\ Ordered \subseteq Compound /\ Compound \subseteq Op
    /\ \A op \in Compound \ Ordered, x, y \in Word : Alu(op, x, y) = Alu(op, y, x)
    /\ \A op \in Op, x, y \in Word : EmitAlu(op, x, y) \in Word
    /\ InitMems \subseteq Mem
    /\ InitRegs \subseteq {r \in [Reg -> Word] : r[0] = 0}
    /\ Heatup \in Nat
    /\ Entries \subseteq {Addr(k) : k \in Index}
    /\ \A t \in Targets \cup Harvests : t \subseteq {Addr(k) : k \in Index}
    /\ OptionSets \subseteq Options

\* Texts the emitted C++ compiles for: every direct target is an instruction.
ASSUME ProgramAssumption ==
    \A p \in Programs :
        /\ p \in [Index -> Instr]
        /\ \A k \in Index :
             p[k].type \in {"BRANCH", "JAL"} => InText(Plus(Addr(k), p[k].imm))

VARIABLES
    prog,        \* the decoded instructions
    options,     \* the translator's options, which also shape the emitted program
    profiled,    \* indirect branch targets in profiling.json
    harvested,   \* text addresses found in the data sections
    code,        \* the emitted code, by index
    regKnown,    \* InstructionEmitter::regKnown, as a set
    regValues,   \* InstructionEmitter::regValues
    tracked,     \* history: regKnown and regValues each instruction was emitted with
    mode,        \* what runs: emission, dispatch loop, emitted code, fallback
    at,          \* index of the instruction in hand; pcDispatchIndex while dispatching
    ctx,         \* the Context: pc, reg, mem
    host,        \* the pinned guest registers
    timerActive, heatup,  \* profiling_globals
    parted       \* history: <<>>, or the guest's context when emitted code and the
                 \* interpreter first gave the same instruction two meanings

translation == <<prog, options, profiled, harvested, code, regKnown, regValues, tracked>>
profiling == <<timerActive, heatup>>
vars == <<translation, mode, at, ctx, host, profiling, parted>>

-----------------------------------------------------------------------------
(* Basic blocks *)

Target(k) == Plus(Addr(k), prog[k].imm)

\* Mutant: the targets of branches and jumps start no block.
LeadersWithoutTargets ==
    {TextStart}
    \cup {Addr(k + 1) : k \in {j \in Index : prog[j].type \in {"BRANCH", "JAL", "JALR"}}}
    \cup (IF options.useProfilingData THEN profiled ELSE {})
    \cup harvested

\* BasicBlocks::getLeaders and harvestStaticData.
Leaders ==
    {TextStart}
    \cup {Target(k) : k \in {j \in Index : prog[j].type \in {"BRANCH", "JAL"}}}
    \cup {Addr(k + 1) : k \in {j \in Index : prog[j].type \in {"BRANCH", "JAL", "JALR"}}}
    \cup (IF options.useProfilingData THEN profiled ELSE {})
    \cup harvested

IsLeader(k) == Addr(k) \in Leaders

-----------------------------------------------------------------------------
(* Emission *)

Literal(v) == [lit |-> TRUE, val |-> v, reg |-> 0]
InReg(r) == IF r = 0 THEN Literal(0) ELSE [lit |-> FALSE, val |-> 0, reg |-> r]
Operand == [lit : BOOLEAN, val : Word, reg : Reg]

\* InstructionEmitter::REG for a source register, with the tracking state known,
\* vals.  (REG(RD) is always the register.)
REG(r, known, vals) == IF r # 0 /\ r \in known THEN Literal(vals[r]) ELSE InReg(r)

\* Mutant: every operator commutes.
emitOpUnordered(i, known, vals) ==
    IF i.rd = i.rs1 THEN <<InReg(i.rd), REG(i.rs2, known, vals)>>
    ELSE IF i.rd = i.rs2 THEN <<InReg(i.rd), REG(i.rs1, known, vals)>>
    ELSE <<REG(i.rs1, known, vals), REG(i.rs2, known, vals)>>

\* emitOp: "rd op= rs2", "rd op= rs1" when the operator commutes, else three operands.
emitOp(i, known, vals) ==
    IF i.rd = i.rs1 THEN <<InReg(i.rd), REG(i.rs2, known, vals)>>
    ELSE IF i.rd = i.rs2 /\ i.op \notin Ordered THEN <<InReg(i.rd), REG(i.rs1, known, vals)>>
    ELSE <<REG(i.rs1, known, vals), REG(i.rs2, known, vals)>>

\* ADDI: a copy, a constant, "rd += imm" on the register itself, or a sum.
emitAddi(i, known, vals) ==
    IF i.imm # 0 /\ i.rs1 # 0 /\ i.rs1 = i.rd
    THEN <<InReg(i.rd), Literal(i.imm)>>
    ELSE <<REG(i.rs1, known, vals), Literal(i.imm)>>

\* The source operands of the emitted statement.
Operands(i, known, vals) ==
    CASE i.type = "OP" /\ i.op \in Compound -> emitOp(i, known, vals)
      [] i.type = "ADDI"                    -> emitAddi(i, known, vals)
      [] i.type = "IMM" -> <<REG(i.rs1, known, vals), Literal(i.imm)>>
      [] OTHER          -> <<REG(i.rs1, known, vals), REG(i.rs2, known, vals)>>

\* Instructions whose statement goes through emit(text, rd).
WritesRd(i) == i.type \notin {"STORE", "BRANCH", "ECALL", "NOP", "INVALID"}

\* ADDI rd, x0, imm: the only instruction whose result is tracked.
IsConstant(i) == i.type = "ADDI" /\ i.imm # 0 /\ i.rs1 = 0

\* Mutant: a0 stays tracked across a system call.
KnownAfterKeepsA0(i, known) ==
    IF IsConstant(i) THEN known \cup {i.rd}
    ELSE IF WritesRd(i) THEN known \ {i.rd}
    ELSE known

\* regKnown after the instruction: emit() forgets rd, track() remembers it, and a
\* system call forgets a0.
KnownAfter(i, known) ==
    IF IsConstant(i) THEN known \cup {i.rd}
    ELSE IF WritesRd(i) THEN known \ {i.rd}
    ELSE IF i.type = "ECALL" THEN known \ {A0}
    ELSE known

\* Mutant: regValues holds signed values.
ValuesAfterSigned(i, vals) ==
    IF IsConstant(i)
    THEN [vals EXCEPT ![i.rd] = IF 2 * i.imm >= WordMod THEN i.imm - WordMod ELSE i.imm]
    ELSE vals

ValuesAfter(i, vals) == IF IsConstant(i) THEN [vals EXCEPT ![i.rd] = i.imm] ELSE vals

\* Mutant: tracking goes on across labels.
KnownBeforeKeeps(k, known) == known

\* The label in front of the instruction, where everything tracked is forgotten.
KnownBefore(k, known) == IF IsLeader(k) THEN {} ELSE known

\* The number passed to Syscall::handle: a7's tracked value, else ctx.reg[a7].
CallNumber(known, vals) == IF A7 \in known THEN Literal(vals[A7]) ELSE InReg(A7)

emitInstruction ==
    /\ mode = "emit" /\ at \in Index
    /\ LET i == prog[at]
           known == KnownBefore(at, regKnown)
           ops == Operands(i, known, regValues)
       IN  /\ code' = [code EXCEPT ![at] =
                          [label |-> IsLeader(at), inst |-> i,
                           src1 |-> ops[1], src2 |-> ops[2],
                           num |-> CallNumber(known, regValues)]]
           /\ tracked' = [tracked EXCEPT ![at] = [known |-> known, vals |-> regValues]]
           /\ regKnown' = KnownAfter(i, known)
           /\ regValues' = ValuesAfter(i, regValues)
    /\ at' = at + 1
    /\ UNCHANGED <<prog, options, profiled, harvested, mode, ctx, host, profiling, parted>>

-----------------------------------------------------------------------------
(* Guest registers of the running program *)

Get(r) == IF r \in Pinned THEN host[r] ELSE ctx.reg[r]

ValueOf(o) == IF o.lit THEN o.val ELSE Get(o.reg)

\* Emitter::emitRegisterStore and emitRegisterLoad.
Stored == [r \in Reg |-> Get(r)]
Loaded(reg) == [r \in Pinned |-> reg[r]]

\* The statement "rd = v", which emit() drops for x0.
HostAfter(rd, v) == IF rd \in Pinned THEN [host EXCEPT ![rd] = v] ELSE host
RegAfter(rd, v) == IF rd = 0 \/ rd \in Pinned THEN ctx.reg ELSE [ctx.reg EXCEPT ![rd] = v]

\* While translated code or the dispatch loop runs, the pinned registers are the
\* host's; otherwise ctx.reg holds them all.
GuestReg == IF mode \in {"dispatch", "code", "wild"} THEN Stored ELSE ctx.reg

\* Emitted code keeps no pc: its place is the guest's pc.
GuestPc == IF mode \in {"code", "exited", "returned"} THEN Addr(at) ELSE ctx.pc

\* The guest context the running program stands for.
RunningCtx == [pc |-> GuestPc, reg |-> GuestReg, mem |-> ctx.mem]

\* The history: the guest before the first instruction that emitted code and the
\* interpreter run differently.
PartIf(differs) == parted' = IF parted = <<>> /\ differs THEN <<RunningCtx>> ELSE parted

\* runTranslated() starts: the pinned registers are loaded once.
Start ==
    /\ mode = "emit" /\ at = WordCount
    /\ mode' = "dispatch"
    /\ host' = Loaded(ctx.reg)
    /\ UNCHANGED <<translation, at, ctx, profiling, parted>>

-----------------------------------------------------------------------------
(* Dispatch *)

\* Mutant: every instruction has its slot, label or not.
SlotForEach(pc) == IF InText(pc) THEN "label" ELSE IF pc = TextEnd THEN "EXIT" ELSE "outside"

\* The dispatch table, one slot per instruction and one for the sentinel; an
\* index behind it, or a pc between two instructions, is outside of the model.
Slot(pc) ==
    IF InText(pc) THEN IF IsLeader(SlotOf(pc)) THEN "label" ELSE "INVALID"
    ELSE IF pc = TextEnd THEN "EXIT" ELSE "outside"

\* Mutant: INVALID does not store the registers.
GotoWithoutStore(pc, regs) ==
    /\ mode' = CASE Slot(pc) \in {"label", "EXIT"} -> "code"
                 [] Slot(pc) = "INVALID" -> "fallback"
                 [] Slot(pc) = "outside" -> "wild"
    /\ at' = IF Slot(pc) = "outside" THEN at ELSE SlotOf(pc)
    /\ ctx' = [ctx EXCEPT !.pc = pc, !.reg = regs]

\* goto *dispatch[pcDispatchIndex]: to emitted code, EXIT included (index
\* WordCount), or to INVALID, which stores the registers before anything else.
Goto(pc, regs) ==
    CASE Slot(pc) \in {"label", "EXIT"} ->
            mode' = "code" /\ at' = SlotOf(pc) /\ ctx' = [ctx EXCEPT !.pc = pc, !.reg = regs]
      [] Slot(pc) = "INVALID" ->
            /\ mode' = "fallback" /\ at' = SlotOf(pc)
            /\ ctx' = [ctx EXCEPT !.pc = pc,
                                  !.reg = [r \in Reg |-> IF r \in Pinned THEN host'[r] ELSE regs[r]]]
      [] Slot(pc) = "outside" ->
            mode' = "wild" /\ at' = at /\ ctx' = [ctx EXCEPT !.pc = pc, !.reg = regs]

Timed == options.profileIndirect /\ ~ options.translationChaining

\* indirect_profiling_check: printf runs with the pinned registers live.
ProfilingCheck ==
    IF ~ Timed THEN UNCHANGED <<host, profiling>>
    ELSE /\ IF timerActive /\ heatup = 0
            THEN /\ timerActive' = FALSE
                 /\ \E junk \in [CallerSaved -> Word] :
                        host' = [r \in Pinned |-> IF r \in CallerSaved THEN junk[r] ELSE host[r]]
            ELSE UNCHANGED <<timerActive, host>>
         /\ heatup' = IF heatup > 0 THEN heatup - 1 ELSE 0

\* One round of the dispatch loop up to its goto.
Dispatch ==
    /\ mode = "dispatch"
    /\ ProfilingCheck
    /\ Goto(ctx.pc, ctx.reg)
    /\ UNCHANGED <<translation, parted>>

-----------------------------------------------------------------------------
(* Emitted code *)

\* The value an emitted "rd = ..." statement assigns.
Computed(e, k) ==
    LET x == ValueOf(e.src1)
        y == ValueOf(e.src2)
        i == e.inst
    IN  CASE i.type \in {"OP", "IMM"} -> EmitAlu(i.op, x, y)
          [] i.type = "ADDI"  -> Plus(x, y)
          [] i.type = "LOAD"  -> Load(i.op, ctx.mem, Plus(x, i.imm))
          [] i.type = "LR"    -> Load(i.op, ctx.mem, x)
          [] i.type = "LUI"   -> i.imm
          [] i.type = "AUIPC" -> Plus(Addr(k), i.imm)
          [] i.type = "SC"    -> 0
          [] i.type \in {"JAL", "JALR"} -> Addr(k + 1)

\* The emitted expression has not the value the interpreter computes (REM on overflow).
ValueDiffers(e) ==
    /\ e.inst.type \in {"OP", "IMM"}
    /\ EmitAlu(e.inst.op, ValueOf(e.src1), ValueOf(e.src2))
         # Alu(e.inst.op, ValueOf(e.src1), ValueOf(e.src2))

\* The memory a statement leaves.
MemAfter(e) ==
    LET x == ValueOf(e.src1)
        y == ValueOf(e.src2)
        i == e.inst
    IN  CASE i.type = "STORE" -> Store(i.op, ctx.mem, Plus(x, i.imm), y)
          [] i.type = "SC"    -> Store(i.op, ctx.mem, x, y)
          [] OTHER            -> ctx.mem

InCode(types) == mode = "code" /\ at \in Index /\ code[at].inst.type \in types

\* Statements that assign a register.
RunAssign ==
    /\ InCode({"OP", "IMM", "ADDI", "LOAD", "LR", "LUI", "AUIPC", "SC"})
    /\ LET e == code[at]
           v == Computed(e, at)
       IN  /\ host' = HostAfter(e.inst.rd, v)
           /\ ctx' = [ctx EXCEPT !.reg = RegAfter(e.inst.rd, v), !.mem = MemAfter(e)]
           /\ PartIf(ValueDiffers(e))
    /\ at' = at + 1
    /\ UNCHANGED <<translation, mode, profiling>>

\* Stores, and the instructions no code is emitted for.
RunStoreOrNop ==
    /\ InCode({"STORE", "NOP"})
    /\ ctx' = [ctx EXCEPT !.mem = MemAfter(code[at])]
    /\ at' = at + 1
    /\ UNCHANGED <<translation, mode, host, profiling, parted>>

\* INVALID: the registers are stored, printf clobbers them, they are loaded again.
RunInvalid ==
    /\ InCode({"INVALID"})
    /\ ctx' = [ctx EXCEPT !.reg = Stored]
    /\ host' = Loaded(ctx'.reg)
    /\ at' = at + 1
    /\ UNCHANGED <<translation, mode, profiling, parted>>

\* "if (...) goto L;"
RunBranch ==
    /\ InCode({"BRANCH"})
    /\ LET e == code[at]
       IN  at' = IF Cond(e.inst.op, ValueOf(e.src1), ValueOf(e.src2))
                 THEN SlotOf(Target(at)) ELSE at + 1
    /\ UNCHANGED <<translation, mode, ctx, host, profiling, parted>>

\* "rd = link; goto L;"
RunJal ==
    /\ InCode({"JAL"})
    /\ LET e == code[at]
           v == Computed(e, at)
       IN  /\ host' = HostAfter(e.inst.rd, v)
           /\ ctx' = [ctx EXCEPT !.reg = RegAfter(e.inst.rd, v)]
    /\ at' = SlotOf(Target(at))
    /\ UNCHANGED <<translation, mode, profiling, parted>>

\* The targets a JALR may compare with: profiled ones that are leaders.  Which of
\* them are among the three most frequent ones of this very JALR is left open.
Predicted == IF options.softwareBranchPrediction THEN profiled \cap Leaders ELSE {}

\* Mutant: the link is written before the base is read.
JalrTargetAfterLink(e) ==
    Plus(e.inst.imm, IF ~ e.src1.lit /\ e.src1.reg = e.inst.rd THEN Addr(at + 1) ELSE ValueOf(e.src1))

\* "ctx.pc = imm + rs1;"
JalrTarget(e) == Plus(e.inst.imm, ValueOf(e.src1))

\* JALR: ctx.pc is computed first, then the link; then a predicted target, the
\* chained dispatch or another round of the dispatch loop.
RunJalr ==
    /\ InCode({"JALR"})
    /\ LET e == code[at]
           pc == JalrTarget(e)
           v == Computed(e, at)
           regs == RegAfter(e.inst.rd, v)
       IN  /\ host' = HostAfter(e.inst.rd, v)
           /\ \/ /\ pc \in Predicted
                 /\ mode' = "code" /\ at' = SlotOf(pc)
                 /\ ctx' = [ctx EXCEPT !.pc = pc, !.reg = regs]
              \/ options.translationChaining /\ Goto(pc, regs)
              \/ /\ ~ options.translationChaining
                 /\ mode' = "dispatch" /\ at' = at
                 /\ ctx' = [ctx EXCEPT !.pc = pc, !.reg = regs]
    /\ timerActive' = (timerActive \/ Timed)
    /\ UNCHANGED <<translation, heatup, parted>>

NumberOf(e, regs) == IF e.num.lit THEN e.num.val ELSE regs[A7]

\* Mutant: the registers are not loaded after the call.
RunEcallWithoutLoad ==
    /\ InCode({"ECALL"})
    /\ NumberOf(code[at], Stored) \notin ExitNums
    /\ ctx' \in HandleSyscall([ctx EXCEPT !.reg = Stored])
    /\ at' = at + 1
    /\ UNCHANGED <<translation, mode, host, profiling, parted>>

\* ECALL: store, handle, load.
RunEcall ==
    /\ InCode({"ECALL"})
    /\ NumberOf(code[at], Stored) \notin ExitNums
    /\ ctx' \in HandleSyscall([ctx EXCEPT !.reg = Stored])
    /\ host' = Loaded(ctx'.reg)
    /\ at' = at + 1
    /\ UNCHANGED <<translation, mode, profiling, parted>>

RunExitCall ==
    /\ InCode({"ECALL"})
    /\ NumberOf(code[at], Stored) \in ExitNums
    /\ mode' = "exited"
    /\ ctx' = [ctx EXCEPT !.reg = Stored]
    /\ UNCHANGED <<translation, at, host, profiling, parted>>

\* The label EXIT, reached by its dispatch slot or by running off the text.
RunExitLabel ==
    /\ mode = "code" /\ at = WordCount
    /\ mode' = "returned"
    /\ ctx' = [ctx EXCEPT !.reg = Stored]
    /\ UNCHANGED <<translation, at, host, profiling, parted>>

-----------------------------------------------------------------------------
(* Interpreter fallback: while (dispatch[pcDispatchIndex] == &&INVALID) *)

\* Mutant: the loop spins without running an instruction.
FallbackSpin ==
    /\ mode = "fallback" /\ Slot(ctx.pc) = "INVALID"
    /\ UNCHANGED vars

\* The interpreter's JALR reads its base after the link, the emitted one before it.
LinksItsBase(i) == i.type = "JALR" /\ i.rd = i.rs1

FallbackStep ==
    /\ mode = "fallback" /\ Slot(ctx.pc) = "INVALID"
    /\ ~ Exits(prog[at], ctx)
    /\ ctx' \in Step(prog[at], ctx)
    /\ at' = SlotOf(ctx'.pc)
    /\ PartIf(LinksItsBase(prog[at]))
    /\ UNCHANGED <<translation, mode, host, profiling>>

FallbackExitCall ==
    /\ mode = "fallback" /\ Slot(ctx.pc) = "INVALID"
    /\ Exits(prog[at], ctx)
    /\ mode' = "exited"
    /\ UNCHANGED <<translation, at, ctx, host, profiling, parted>>

\* Mutant: the registers are not loaded on the way back.
FallbackLeaveWithoutLoad ==
    /\ mode = "fallback" /\ Slot(ctx.pc) # "INVALID"
    /\ mode' = "dispatch"
    /\ UNCHANGED <<translation, at, ctx, host, profiling, parted>>

\* The loop ends; the registers are loaded and the dispatch loop goes on.
FallbackLeave ==
    /\ mode = "fallback" /\ Slot(ctx.pc) # "INVALID"
    /\ mode' = "dispatch"
    /\ host' = Loaded(ctx.reg)
    /\ UNCHANGED <<translation, at, ctx, profiling, parted>>

-----------------------------------------------------------------------------
NoCode == [label |-> FALSE,
           inst |-> [type |-> "NOP", op |-> CHOOSE op \in Op : TRUE,
                     rd |-> 0, rs1 |-> 0, rs2 |-> 0, imm |-> 0],
           src1 |-> Literal(0), src2 |-> Literal(0), num |-> Literal(0)]

Init ==
    /\ prog \in Programs
    /\ options \in OptionSets
    /\ profiled \in Targets
    /\ harvested \in Harvests
    /\ code = [k \in Index |-> NoCode]
    /\ regKnown = {}
    /\ regValues = [r \in Reg |-> 0]
    /\ tracked = [k \in Index |-> [known |-> {}, vals |-> [r \in Reg |-> 0]]]
    /\ mode = "emit"
    /\ at = 0
    /\ ctx \in [pc : Entries, reg : InitRegs, mem : InitMems]
    /\ host = [r \in Pinned |-> 0]
    /\ timerActive = FALSE
    /\ heatup = Heatup
    /\ parted = <<>>

Next ==
    \/ emitInstruction \/ Start
    \/ Dispatch
    \/ RunAssign \/ RunStoreOrNop \/ RunInvalid \/ RunBranch \/ RunJal \/ RunJalr
    \/ RunEcall \/ RunExitCall \/ RunExitLabel
    \/ FallbackStep \/ FallbackExitCall \/ FallbackLeave

Spec == Init /\ [][Next]_vars

\* The translator and the emitted program are sequential: they never stop
\* while they can take a step.
FairSpec == Spec /\ WF_vars(Next)
-----------------------------------------------------------------------------
(* The guest of the running program *)

\* The guest is followed until the two ways to run it part.
GuestCtx == IF parted = <<>> THEN RunningCtx ELSE parted[1]

GuestStatus ==
    IF parted = <<>> /\ mode \in {"exited", "returned"} THEN mode ELSE "running"

\* What the guest is entitled to: the interpreter's arithmetic, and a JALR that jumps
\* through the register it links into, as the emitter writes it.
Guest == INSTANCE GuestMachine WITH
            ctx <- GuestCtx, status <- GuestStatus, Sentinel <- TextEnd, BaseFirst <- TRUE

Modes == {"emit", "dispatch", "code", "fallback", "exited", "returned", "wild"}

Emitted == [label : BOOLEAN, inst : Instr, src1 : Operand, src2 : Operand, num : Operand]

\* Type invariant of the translation and of the running program.
TypeOK ==
    /\ prog \in [Index -> Instr]
    /\ options \in Options
    /\ profiled \subseteq Word /\ harvested \subseteq Word
    /\ code \in [Index -> Emitted]
    /\ regKnown \subseteq Reg /\ regValues \in [Reg -> Word]
    /\ tracked \in [Index -> [known : SUBSET Reg, vals : [Reg -> Word]]]
    /\ mode \in Modes
    /\ at \in Nat
    /\ ctx \in Context
    /\ host \in [Pinned -> Word]
    /\ timerActive \in BOOLEAN /\ heatup \in 0 .. Heatup
    /\ parted = <<>> \/ (Len(parted) = 1 /\ parted[1] \in Context)

\* The translated program does to the guest what the interpreter does, one
\* instruction at a time: registers, memory, system calls and where it ends.  A JALR
\* jumps through its base as it was before the link, in emitted code also if it links
\* into that register.  Named exceptions, after which the guest is followed no
\* further: an expression worth another value than the interpreter's (REM on
\* overflow, InstructionEmitter.cpp:326), and such a JALR run by the fallback.
ImplementsGuest == Guest!Spec

\* It also gets as far as the interpreter: no round of the dispatch loop, of the
\* fallback or of the two handing control to each other keeps the guest from its
\* next instruction or from its end, unless the two part.
ImplementsGuestProgress == Guest!Progress \/ <>(parted # <<>>)

\* A constant the emitter wrote into the code instead of a register is what the
\* register holds whenever the code runs, however control got there.
TrackingSound ==
    mode = "code" /\ at \in Index =>
        \A r \in tracked[at].known \ {0} : GuestReg[r] = tracked[at].vals[r]

\* Control enters emitted code, or moves in it other than to the next statement,
\* only at a label of an instruction already emitted or at EXIT.
JumpsLandOnLabels ==
    [][ mode' = "code" /\ (mode # "code" \/ at' # at + 1)
        => at' = WordCount \/ (at' \in Index /\ code[at'].label) ]_vars

\* Dispatching, entering and leaving the fallback hand every guest register over
\* between the host registers and ctx.reg.
RegistersSurviveDispatch ==
    [][ (mode \in {"emit", "dispatch"} \/ (mode = "fallback" /\ mode' # "fallback"))
        => (GuestReg' = GuestReg) ]_vars
=============================================================================
