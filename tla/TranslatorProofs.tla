------------------------- MODULE TranslatorProofs -------------------------
(***************************************************************************)
(* Proofs about Translator for every text, register set, word width,       *)
(* pinning, profile and option that satisfy its assumptions: what the      *)
(* emitted program does, and that it implements the abstract machine.      *)
(***************************************************************************)
EXTENDS Translator, GuestIsaProofs, TLAPS

\* Where the program is, per mode: what TypeOK needs to be inductive.
PlaceOK ==
    /\ mode \in {"emit", "code"} => at \in 0 .. WordCount
    /\ mode = "fallback" => at = SlotOf(ctx.pc)
    /\ prog \in Programs
    /\ profiled \in Targets /\ harvested \in Harvests

-----------------------------------------------------------------------------
\* The emitter's operands are well typed.
LEMMA OperandType ==
    ASSUME NEW i \in Instr, NEW known \in SUBSET Reg, NEW vals \in [Reg -> Word]
    PROVE  /\ Operands(i, known, vals)[1] \in Operand
           /\ Operands(i, known, vals)[2] \in Operand
           /\ CallNumber(known, vals) \in Operand
<1>1. 0 \in Reg /\ 0 \in Word /\ A7 \in Reg
  BY WordAssumption, WordArith
<1>2. \A v \in Word : Literal(v) \in Operand
  BY <1>1 DEF Literal, Operand
<1>3. \A r \in Reg : InReg(r) \in Operand
  BY <1>1, <1>2 DEF InReg, Operand
<1>4. \A r \in Reg : REG(r, known, vals) \in Operand
  BY <1>2, <1>3 DEF REG
<1>5. i.rs1 \in Reg /\ i.rs2 \in Reg /\ i.rd \in Reg /\ i.imm \in Word
  BY DEF Instr
<1>6. QED
  BY <1>1, <1>2, <1>3, <1>4, <1>5 DEF Operands, emitOp, emitAddi, CallNumber

\* The guest registers of a well-typed state are words.
LEMMA GetType ==
    ASSUME TypeOK
    PROVE  /\ \A r \in Reg : Get(r) \in Word
           /\ \A o \in Operand : ValueOf(o) \in Word
           /\ Stored \in [Reg -> Word]
           /\ \A reg \in [Reg -> Word] : Loaded(reg) \in [Pinned -> Word]
           /\ \A rd \in Reg, v \in Word : /\ HostAfter(rd, v) \in [Pinned -> Word]
                                          /\ RegAfter(rd, v) \in [Reg -> Word]
<1>1. ctx.reg \in [Reg -> Word] /\ host \in [Pinned -> Word] /\ Pinned \subseteq Reg
  BY TranslationAssumption DEF TypeOK, Context
<1>2. \A r \in Reg : Get(r) \in Word
  BY <1>1 DEF Get
<1>3. \A o \in Operand : ValueOf(o) \in Word
  BY <1>2 DEF ValueOf, Operand
<1>4. Stored \in [Reg -> Word]
  BY <1>2 DEF Stored
<1>5. \A reg \in [Reg -> Word] : Loaded(reg) \in [Pinned -> Word]
  BY <1>1 DEF Loaded
<1>6. ASSUME NEW rd \in Reg, NEW v \in Word
      PROVE  HostAfter(rd, v) \in [Pinned -> Word] /\ RegAfter(rd, v) \in [Reg -> Word]
  BY <1>1 DEF HostAfter, RegAfter
<1>7. QED
  BY <1>2, <1>3, <1>4, <1>5, <1>6

\* The value an emitted statement assigns is a word, the memory it leaves a memory.
LEMMA ComputedType ==
    ASSUME TypeOK, NEW k \in Index
    PROVE  /\ WritesRd(code[k].inst) => Computed(code[k], k) \in Word
           /\ MemAfter(code[k]) \in Mem
<1> DEFINE e == code[k]
           i == e.inst
           x == ValueOf(e.src1)
           y == ValueOf(e.src2)
<1>1. e \in Emitted
  BY DEF TypeOK
<1>2. i \in Instr /\ e.src1 \in Operand /\ e.src2 \in Operand
  BY <1>1 DEF Emitted
<1>3. i.op \in Op /\ i.imm \in Word /\ i.type \in Types
  BY <1>2 DEF Instr
<1>4. x \in Word /\ y \in Word /\ ctx.mem \in Mem
  BY <1>2, GetType DEF TypeOK, Context
<1>5. Plus(x, y) \in Word /\ Plus(x, i.imm) \in Word
  BY <1>3, <1>4, WordArith
<1>6. Addr(k) \in Word /\ Addr(k + 1) \in Word
  BY SlotAddr, WordAssumption DEF Index
<1>7. Plus(Addr(k), i.imm) \in Word
  BY <1>3, <1>6, WordArith
<1>8. MemAfter(e) \in Mem
  BY <1>3, <1>4, <1>5, ClosureAssumption DEF MemAfter
<1>9. ASSUME WritesRd(i) PROVE Computed(e, k) \in Word
  <2>1. 0 \in Word
    BY WordArith
  <2>2. /\ EmitAlu(i.op, x, y) \in Word
        /\ Load(i.op, ctx.mem, Plus(x, i.imm)) \in Word /\ Load(i.op, ctx.mem, x) \in Word
    BY <1>3, <1>4, <1>5, ClosureAssumption, TranslationAssumption
  <2>3. i.type \in {"OP", "IMM", "ADDI", "LOAD", "LR", "LUI", "AUIPC", "SC", "JAL", "JALR"}
    BY <1>3, <1>9 DEF WritesRd, Types
  <2>4. QED
    BY <1>3, <1>5, <1>6, <1>7, <2>1, <2>2, <2>3 DEF Computed
<1>10. QED
  BY <1>8, <1>9
-----------------------------------------------------------------------------
\* Everything a step must keep when the translation is finished.
TranslationTyped ==
    /\ prog \in [Index -> Instr]
    /\ options \in Options
    /\ profiled \subseteq Word /\ harvested \subseteq Word
    /\ code \in [Index -> Emitted]
    /\ regKnown \subseteq Reg /\ regValues \in [Reg -> Word]
    /\ tracked \in [Index -> [known : SUBSET Reg, vals : [Reg -> Word]]]
    /\ prog \in Programs
    /\ profiled \in Targets /\ harvested \in Harvests

\* The rest of the state.
RunTyped ==
    /\ mode \in Modes
    /\ at \in Nat
    /\ ctx \in Context
    /\ host \in [Pinned -> Word]
    /\ timerActive \in BOOLEAN /\ heatup \in 0 .. Heatup
    /\ mode \in {"emit", "code"} => at \in 0 .. WordCount
    /\ mode = "fallback" => at = SlotOf(ctx.pc)

\* The history holds at most one context.
PartedTyped == parted = <<>> \/ (Len(parted) = 1 /\ parted[1] \in Context)

\* TypeOK and PlaceOK, split into the part only emission changes, the history and the
\* rest.
LEMMA TypedSplit == TypeOK /\ PlaceOK <=> TranslationTyped /\ RunTyped /\ PartedTyped
BY DEF TypeOK, PlaceOK, TranslationTyped, RunTyped, PartedTyped

\* Following a dispatch slot keeps the state typed.
LEMMA GotoTyped ==
    ASSUME TypeOK, NEW pc \in Word, NEW regs \in [Reg -> Word],
           host' \in [Pinned -> Word], Goto(pc, regs)
    PROVE  /\ mode' \in Modes /\ at' \in Nat /\ ctx' \in Context
           /\ mode' \in {"emit", "code"} => at' \in 0 .. WordCount
           /\ mode' = "fallback" => at' = SlotOf(ctx'.pc)
<1>1. ctx \in Context /\ at \in Nat /\ Pinned \subseteq Reg /\ WordCount \in Nat
  BY TranslationAssumption, WordAssumption DEF TypeOK
<1>2. SlotOf(pc) \in Nat
  BY SlotAddr
<1>3. Slot(pc) \in {"label", "EXIT", "INVALID", "outside"}
  BY DEF Slot
<1>4. CASE Slot(pc) \in {"label", "EXIT"}
  <2>1. mode' = "code" /\ at' = SlotOf(pc) /\ ctx' = [ctx EXCEPT !.pc = pc, !.reg = regs]
    BY <1>4 DEF Goto
  <2>2. InText(pc) \/ pc = TextEnd
    BY <1>4 DEF Slot
  <2>3. SlotOf(pc) \in 0 .. WordCount
    BY <1>1, <2>2, SlotAddr DEF Index
  <2>4. ctx' \in Context
    BY <1>1, <2>1 DEF Context
  <2>5. QED
    BY <1>2, <2>1, <2>3, <2>4 DEF Modes
<1>5. CASE Slot(pc) = "INVALID"
  <2> DEFINE full == [r \in Reg |-> IF r \in Pinned THEN host'[r] ELSE regs[r]]
  <2>1. mode' = "fallback" /\ at' = SlotOf(pc) /\ ctx' = [ctx EXCEPT !.pc = pc, !.reg = full]
    BY <1>5 DEF Goto
  <2>2. full \in [Reg -> Word]
    OBVIOUS
  <2> HIDE DEF full
  <2>3. ctx' \in Context /\ ctx'.pc = pc
    BY <1>1, <2>1, <2>2 DEF Context
  <2>4. QED
    BY <1>2, <2>1, <2>3 DEF Modes
<1>6. CASE Slot(pc) = "outside"
  <2>1. mode' = "wild" /\ at' = at /\ ctx' = [ctx EXCEPT !.pc = pc, !.reg = regs]
    BY <1>6 DEF Goto
  <2>2. QED
    BY <1>1, <2>1 DEF Context, Modes
<1>7. QED
  BY <1>3, <1>4, <1>5, <1>6

\* The initial state is typed.
LEMMA InitTyped == Init => TypeOK /\ PlaceOK
<1> SUFFICES ASSUME Init PROVE TranslationTyped /\ RunTyped
  BY TypedSplit DEF Init, PartedTyped
<1>1. 0 \in Reg /\ 0 \in Word /\ WordCount \in Nat
  BY WordAssumption, WordArith
<1>2. prog \in Programs /\ prog \in [Index -> Instr] /\ options \in Options
  BY ProgramAssumption, TranslationAssumption DEF Init
<1>3. profiled \in Targets /\ harvested \in Harvests
  BY DEF Init
<1>4. profiled \subseteq Word /\ harvested \subseteq Word
  BY <1>3, TranslationAssumption, SlotAddr, WordAssumption DEF Index
<1>5. code \in [Index -> Emitted]
  <2>1. Op # {}
    BY <1>1, <1>2, WordAssumption DEF Index, Instr
  <2>2. (CHOOSE op \in Op : TRUE) \in Op
    BY <2>1
  <2>3. NoCode \in Emitted
    BY <1>1, <2>2 DEF NoCode, Emitted, Instr, Types, Literal, Operand
  <2>4. QED
    BY <2>3 DEF Init
<1>6. /\ regKnown \subseteq Reg /\ regValues \in [Reg -> Word]
      /\ tracked \in [Index -> [known : SUBSET Reg, vals : [Reg -> Word]]]
  BY <1>1 DEF Init
<1>7. ctx \in Context
  <2>1. ctx.pc \in Word
    BY TranslationAssumption, SlotAddr, WordAssumption DEF Init, Index
  <2>2. ctx \in [pc : Entries, reg : InitRegs, mem : InitMems]
    BY DEF Init
  <2>3. QED
    BY <2>1, <2>2, TranslationAssumption DEF Context
<1>8. host \in [Pinned -> Word] /\ heatup \in 0 .. Heatup
  BY <1>1, TranslationAssumption DEF Init
<1>9. timerActive \in BOOLEAN
  BY Zenon DEF Init
<1>10. QED
  BY <1>1, <1>2, <1>3, <1>4, <1>5, <1>6, <1>7, <1>8, <1>9
  DEF TranslationTyped, RunTyped, Init, Modes

-----------------------------------------------------------------------------
\* What a system call that returns leaves behind.
LEMMA SyscallForm ==
    ASSUME NEW c \in Context, NEW d \in HandleSyscall(c)
    PROVE  /\ d \in Context /\ d.pc = c.pc
           /\ \A r \in Reg : r # A0 => d.reg[r] = c.reg[r]
<1>1. PICK r \in SysResults, m \in KernelWrites(c.mem) :
          d = [c EXCEPT !.reg[A0] = r, !.mem = m]
  BY DEF HandleSyscall
<1>2. c.pc \in Word /\ c.reg \in [Reg -> Word] /\ c.mem \in Mem
  BY DEF Context
<1>3. r \in Word /\ m \in Mem /\ A0 \in Reg
  BY <1>2, ClosureAssumption, WordAssumption
<1>4. d.pc = c.pc /\ d.mem = m /\ d.reg = [c.reg EXCEPT ![A0] = r]
  BY <1>1 DEF Context
<1>5. \A q \in Reg : q # A0 => d.reg[q] = c.reg[q]
  BY <1>2, <1>4
<1>6. d \in Context
  BY <1>1, <1>2, <1>3 DEF Context
<1>7. QED
  BY <1>4, <1>5, <1>6

\* A direct jump of a text the emitted C++ compiles for stays in the text.
LEMMA TargetInText ==
    ASSUME TypeOK, PlaceOK, NEW k \in Index, prog[k].type \in {"BRANCH", "JAL"}
    PROVE  /\ Target(k) \in Word /\ InText(Target(k))
           /\ SlotOf(Target(k)) \in Index /\ Addr(SlotOf(Target(k))) = Target(k)
<1>1. InText(Target(k))
  BY ProgramAssumption DEF PlaceOK, Target
<1>2. prog[k] \in Instr
  BY DEF TypeOK
<1>3. prog[k].imm \in Word
  BY <1>2 DEF Instr
<1>4. k \in 0 .. WordCount
  BY WordAssumption DEF Index
<1>5. Addr(k) \in Word
  BY <1>4, SlotAddr
<1>6. Target(k) \in Word
  BY <1>3, <1>5, WordArith DEF Target
<1>7. QED
  BY <1>1, <1>6, SlotAddr

\* Instruction k has its code.
EmittedAt(k) == mode # "emit" \/ k < at

\* Everything emitted so far was emitted from the text, ...
EmittedFromText == \A k \in Index : EmittedAt(k) => code[k].inst = prog[k]

\* ... with a label and nothing tracked at a leader, and with the operands that
\* follow from what was tracked, ...
EmittedAsTracked ==
    \A k \in Index : EmittedAt(k) =>
        /\ code[k].label = IsLeader(k)
        /\ IsLeader(k) => tracked[k].known = {}
        /\ code[k].src1 = Operands(prog[k], tracked[k].known, tracked[k].vals)[1]
        /\ code[k].src2 = Operands(prog[k], tracked[k].known, tracked[k].vals)[2]
        /\ code[k].num = CallNumber(tracked[k].known, tracked[k].vals)

\* ... which is, from one instruction to the next, what the first one leaves.
TrackedInOrder ==
    /\ \A k, n \in Index : n = k + 1 /\ EmittedAt(n) =>
          /\ tracked[n].known \subseteq KnownAfter(prog[k], tracked[k].known)
          /\ tracked[n].vals = ValuesAfter(prog[k], tracked[k].vals)
    /\ mode = "emit" => \A k \in Index : at = k + 1 =>
          /\ regKnown = KnownAfter(prog[k], tracked[k].known)
          /\ regValues = ValuesAfter(prog[k], tracked[k].vals)

Coherent == EmittedFromText /\ EmittedAsTracked /\ TrackedInOrder

\* Emission types the next instruction's code.
LEMMA EmitTyped ==
    ASSUME TranslationTyped, RunTyped, emitInstruction
    PROVE  TranslationTyped' /\ RunTyped'
<1> DEFINE i == prog[at]
           known == KnownBefore(at, regKnown)
           ops == Operands(i, known, regValues)
           e == [label |-> IsLeader(at), inst |-> i, src1 |-> ops[1], src2 |-> ops[2],
                 num |-> CallNumber(known, regValues)]
<1>1. at \in Index /\ i \in Instr /\ mode = "emit"
  BY DEF emitInstruction, TranslationTyped
<1>2. known \in SUBSET Reg /\ regValues \in [Reg -> Word]
  BY DEF KnownBefore, TranslationTyped
<1>3. ops[1] \in Operand /\ ops[2] \in Operand /\ CallNumber(known, regValues) \in Operand
  BY <1>1, <1>2, OperandType, Zenon
<1>4. IsLeader(at) \in BOOLEAN
  BY DEF IsLeader
<1>5. e \in Emitted
  <2> HIDE DEF ops, known, i
  <2>1. QED
    BY <1>1, <1>3, <1>4 DEF Emitted
<1>6. /\ code' = [code EXCEPT ![at] = e]
      /\ tracked' = [tracked EXCEPT ![at] = [known |-> known, vals |-> regValues]]
      /\ regKnown' = KnownAfter(i, known)
      /\ regValues' = ValuesAfter(i, regValues)
  BY DEF emitInstruction
<1>7. /\ at' = at + 1 /\ UNCHANGED <<prog, options, profiled, harvested, mode, ctx, host, profiling>>
  BY DEF emitInstruction
<1>8. i.rd \in Reg /\ i.imm \in Word
  BY <1>1 DEF Instr
<1> HIDE DEF e, ops, known, i
<1>9. code' \in [Index -> Emitted]
  BY <1>5, <1>6 DEF TranslationTyped
<1>10. tracked' \in [Index -> [known : SUBSET Reg, vals : [Reg -> Word]]]
  BY <1>2, <1>6 DEF TranslationTyped
<1>11. regKnown' \subseteq Reg /\ regValues' \in [Reg -> Word]
  BY <1>2, <1>6, <1>8 DEF KnownAfter, ValuesAfter
<1>12. TranslationTyped'
  BY <1>7, <1>9, <1>10, <1>11 DEF TranslationTyped
<1>13. at' \in 0 .. WordCount /\ at' \in Nat
  BY <1>1, <1>7, WordAssumption DEF Index
<1>14. timerActive' \in BOOLEAN /\ heatup' \in 0 .. Heatup
  BY <1>7, Zenon DEF RunTyped, profiling
<1>15. QED
  BY <1>1, <1>7, <1>12, <1>13, <1>14 DEF RunTyped

\* The actions of the running program, which leave the translation alone.
LEMMA RunActionsTyped ==
    ASSUME TranslationTyped, RunTyped, PartedTyped, EmittedFromText, Next, ~ emitInstruction
    PROVE  UNCHANGED translation /\ RunTyped' /\ (mode # "emit" \/ Start)
<1> USE DEF Modes
<1>1. TypeOK /\ PlaceOK
  BY TypedSplit
<1>2. /\ ctx \in Context /\ at \in Nat /\ mode \in Modes /\ host \in [Pinned -> Word]
      /\ heatup \in 0 .. Heatup /\ Heatup \in Nat
  BY TranslationAssumption DEF RunTyped
<1>3. ctx.pc \in Word /\ ctx.reg \in [Reg -> Word] /\ ctx.mem \in Mem
  BY <1>2 DEF Context
<1>4. timerActive \in BOOLEAN
  BY Zenon DEF RunTyped
<1>5. UNCHANGED profiling => timerActive' \in BOOLEAN /\ heatup' \in 0 .. Heatup
  BY <1>2, <1>4, Zenon DEF profiling
<1>6. Stored \in [Reg -> Word] /\ Loaded(ctx.reg) \in [Pinned -> Word] /\ Loaded(Stored) \in [Pinned -> Word]
  BY <1>1, <1>3, GetType
<1>7. ASSUME NEW r \in [Reg -> Word], NEW p \in Word, NEW m \in Mem
      PROVE  /\ [ctx EXCEPT !.reg = r] \in Context /\ [ctx EXCEPT !.reg = r, !.mem = m] \in Context
             /\ [ctx EXCEPT !.pc = p, !.reg = r] \in Context /\ [ctx EXCEPT !.mem = m] \in Context
  BY <1>2 DEF Context
<1>8. ASSUME at \in Index
      PROVE  /\ at + 1 \in 0 .. WordCount /\ at + 1 \in Nat
             /\ code[at].inst \in Instr /\ code[at].inst.rd \in Reg /\ code[at].inst.imm \in Word
             /\ ValueOf(code[at].src1) \in Word
             /\ Plus(code[at].inst.imm, ValueOf(code[at].src1)) \in Word
  <2>1. code[at] \in Emitted
    BY <1>8 DEF TranslationTyped
  <2>2. code[at].inst \in Instr /\ code[at].src1 \in Operand
    BY <2>1 DEF Emitted
  <2>3. code[at].inst.rd \in Reg /\ code[at].inst.imm \in Word
    BY <2>2 DEF Instr
  <2>4. ValueOf(code[at].src1) \in Word
    BY <1>1, <2>2, GetType
  <2>5. Plus(code[at].inst.imm, ValueOf(code[at].src1)) \in Word
    BY <2>3, <2>4, WordArith
  <2>6. at + 1 \in 0 .. WordCount /\ at + 1 \in Nat
    BY <1>8, WordAssumption DEF Index
  <2>7. QED
    BY <2>2, <2>3, <2>4, <2>5, <2>6
<1>9. ASSUME Start PROVE UNCHANGED translation /\ RunTyped'
  BY <1>2, <1>5, <1>6, <1>9 DEF Start, RunTyped
<1>10. ASSUME Dispatch PROVE UNCHANGED translation /\ RunTyped' /\ mode # "emit"
  <2>1. host' \in [Pinned -> Word]
    <3>1. CASE UNCHANGED host
      BY <1>2, <3>1
    <3>2. CASE \E junk \in [CallerSaved -> Word] :
                 host' = [r \in Pinned |-> IF r \in CallerSaved THEN junk[r] ELSE host[r]]
      BY <1>2, <3>2
    <3>3. QED
      BY <1>10, <3>1, <3>2 DEF Dispatch, ProfilingCheck
  <2>2. heatup' \in 0 .. Heatup
    BY <1>2, <1>10 DEF Dispatch, ProfilingCheck, profiling
  <2>3. timerActive' \in BOOLEAN
    BY <1>4, <1>10, Zenon DEF Dispatch, ProfilingCheck, profiling
  <2>4. Goto(ctx.pc, ctx.reg) /\ mode = "dispatch" /\ UNCHANGED translation
    BY <1>10 DEF Dispatch
  <2>5. /\ mode' \in Modes /\ at' \in Nat /\ ctx' \in Context
        /\ mode' \in {"emit", "code"} => at' \in 0 .. WordCount
        /\ mode' = "fallback" => at' = SlotOf(ctx'.pc)
    BY <1>1, <1>3, <2>1, <2>4, GotoTyped, Zenon
  <2>6. QED
    BY <2>1, <2>2, <2>3, <2>4, <2>5 DEF RunTyped
<1>11. ASSUME RunAssign PROVE UNCHANGED translation /\ RunTyped' /\ mode # "emit"
  <2> DEFINE v == Computed(code[at], at)
             rd == code[at].inst.rd
  <2>1. mode = "code" /\ at \in Index /\ UNCHANGED <<translation, mode, profiling>> /\ at' = at + 1
    BY <1>11 DEF RunAssign, InCode
  <2>2. v \in Word /\ MemAfter(code[at]) \in Mem
    BY <1>1, <1>11, <2>1, ComputedType DEF RunAssign, InCode, WritesRd
  <2>3. rd \in Reg
    BY <1>8, <2>1
  <2>4. host' = HostAfter(rd, v) /\ ctx' = [ctx EXCEPT !.reg = RegAfter(rd, v), !.mem = MemAfter(code[at])]
    BY <1>11 DEF RunAssign
  <2> HIDE DEF v, rd
  <2>5. host' \in [Pinned -> Word] /\ RegAfter(rd, v) \in [Reg -> Word]
    BY <1>1, <2>2, <2>3, <2>4, GetType
  <2>6. ctx' \in Context
    BY <1>7, <2>2, <2>4, <2>5
  <2>7. QED
    BY <1>5, <1>8, <2>1, <2>5, <2>6 DEF RunTyped
<1>12. ASSUME RunStoreOrNop PROVE UNCHANGED translation /\ RunTyped' /\ mode # "emit"
  <2>1. mode = "code" /\ at \in Index /\ UNCHANGED <<translation, mode, host, profiling>> /\ at' = at + 1
    BY <1>12 DEF RunStoreOrNop, InCode
  <2>2. MemAfter(code[at]) \in Mem
    BY <1>1, <2>1, ComputedType
  <2>3. ctx' \in Context
    BY <1>3, <1>7, <1>12, <2>2 DEF RunStoreOrNop
  <2>4. QED
    BY <1>2, <1>5, <1>8, <2>1, <2>3 DEF RunTyped
<1>13. ASSUME RunInvalid PROVE UNCHANGED translation /\ RunTyped' /\ mode # "emit"
  <2>1. mode = "code" /\ at \in Index /\ UNCHANGED <<translation, mode, profiling>> /\ at' = at + 1
    BY <1>13 DEF RunInvalid, InCode
  <2>2. ctx' \in Context /\ ctx'.reg = Stored
    BY <1>2, <1>3, <1>6, <1>7, <1>13 DEF RunInvalid, Context
  <2>3. host' \in [Pinned -> Word]
    BY <1>6, <1>13, <2>2 DEF RunInvalid
  <2>4. QED
    BY <1>5, <1>8, <2>1, <2>2, <2>3 DEF RunTyped
<1>14. ASSUME RunBranch PROVE UNCHANGED translation /\ RunTyped' /\ mode # "emit"
  <2>1. mode = "code" /\ at \in Index /\ UNCHANGED <<translation, mode, ctx, host, profiling>>
    BY <1>14 DEF RunBranch, InCode
  <2>2. prog[at].type = "BRANCH"
    BY <1>14, <2>1 DEF RunBranch, InCode, EmittedFromText, EmittedAt
  <2>3. SlotOf(Target(at)) \in Index
    BY <1>1, <2>1, <2>2, TargetInText
  <2>4. at' \in 0 .. WordCount /\ at' \in Nat
    BY <1>8, <1>14, <2>1, <2>3, WordAssumption DEF RunBranch, Index
  <2>5. QED
    BY <1>2, <1>5, <2>1, <2>4 DEF RunTyped
<1>15. ASSUME RunJal PROVE UNCHANGED translation /\ RunTyped' /\ mode # "emit"
  <2> DEFINE v == Computed(code[at], at)
             rd == code[at].inst.rd
  <2>1. mode = "code" /\ at \in Index /\ UNCHANGED <<translation, mode, profiling>>
    BY <1>15 DEF RunJal, InCode
  <2>2. prog[at].type = "JAL"
    BY <1>15, <2>1 DEF RunJal, InCode, EmittedFromText, EmittedAt
  <2>3. SlotOf(Target(at)) \in Index
    BY <1>1, <2>1, <2>2, TargetInText
  <2>4. at' \in 0 .. WordCount /\ at' \in Nat
    BY <1>15, <2>3, WordAssumption DEF RunJal, Index
  <2>5. v \in Word /\ rd \in Reg
    BY <1>1, <1>8, <1>15, <2>1, ComputedType DEF RunJal, InCode, WritesRd
  <2>6. host' = HostAfter(rd, v) /\ ctx' = [ctx EXCEPT !.reg = RegAfter(rd, v)]
    BY <1>15 DEF RunJal
  <2> HIDE DEF v, rd
  <2>7. host' \in [Pinned -> Word] /\ RegAfter(rd, v) \in [Reg -> Word]
    BY <1>1, <2>5, <2>6, GetType
  <2>8. ctx' \in Context
    BY <1>3, <1>7, <2>6, <2>7
  <2>9. QED
    BY <1>5, <2>1, <2>4, <2>7, <2>8 DEF RunTyped
<1>16. ASSUME RunJalr PROVE UNCHANGED translation /\ RunTyped' /\ mode # "emit"
  <2> DEFINE v == Computed(code[at], at)
             rd == code[at].inst.rd
             pc == Plus(code[at].inst.imm, ValueOf(code[at].src1))
             regs == RegAfter(rd, v)
  <2>1. mode = "code" /\ at \in Index /\ UNCHANGED <<translation, heatup>>
    BY <1>16 DEF RunJalr, InCode
  <2>2. v \in Word /\ rd \in Reg /\ pc \in Word
    BY <1>1, <1>8, <1>16, <2>1, ComputedType DEF RunJalr, InCode, WritesRd
  <2>3. /\ host' = HostAfter(rd, v)
        /\ \/ pc \in Predicted /\ mode' = "code" /\ at' = SlotOf(pc)
                 /\ ctx' = [ctx EXCEPT !.pc = pc, !.reg = regs]
           \/ Goto(pc, regs)
           \/ mode' = "dispatch" /\ at' = at /\ ctx' = [ctx EXCEPT !.pc = pc, !.reg = regs]
    BY <1>16 DEF RunJalr, JalrTarget
  <2>4. timerActive' \in BOOLEAN
    <3>1. timerActive' = (timerActive \/ Timed)
      BY <1>16 DEF RunJalr
    <3>2. QED
      BY <3>1
  <2> HIDE DEF v, rd, pc
  <2>5. host' \in [Pinned -> Word] /\ regs \in [Reg -> Word]
    BY <1>1, <2>2, <2>3, GetType
  <2> HIDE DEF regs
  <2>6. /\ mode' \in Modes /\ at' \in Nat /\ ctx' \in Context
        /\ mode' \in {"emit", "code"} => at' \in 0 .. WordCount
        /\ mode' = "fallback" => at' = SlotOf(ctx'.pc)
    <3>1. [ctx EXCEPT !.pc = pc, !.reg = regs] \in Context
      BY <1>3, <1>7, <2>2, <2>5
    <3>2. ASSUME pc \in Predicted PROVE SlotOf(pc) \in Index
      <4>1. pc \in profiled
        BY <3>2 DEF Predicted
      <4>2. \E k \in Index : pc = Addr(k)
        BY <4>1, TranslationAssumption DEF TranslationTyped
      <4>3. QED
        BY <4>2, SlotAddr
    <3>3. CASE Goto(pc, regs)
      BY <1>1, <2>2, <2>5, <3>3, GotoTyped, Zenon
    <3>4. CASE ~ Goto(pc, regs)
      BY <1>2, <2>3, <3>1, <3>2, <3>4, WordAssumption DEF Index
    <3>5. QED
      BY <3>3, <3>4
  <2>7. QED
    BY <1>2, <2>1, <2>4, <2>5, <2>6 DEF RunTyped
<1>17. ASSUME RunEcall PROVE UNCHANGED translation /\ RunTyped' /\ mode # "emit"
  <2>1. mode = "code" /\ at \in Index /\ UNCHANGED <<translation, mode, profiling>> /\ at' = at + 1
    BY <1>17 DEF RunEcall, InCode
  <2>2. ctx' \in HandleSyscall([ctx EXCEPT !.reg = Stored]) /\ host' = Loaded(ctx'.reg)
    BY <1>17 DEF RunEcall
  <2>3. [ctx EXCEPT !.reg = Stored] \in Context
    BY <1>3, <1>6, <1>7
  <2>4. ctx' \in Context
    BY <2>2, <2>3, SyscallForm
  <2>5. host' \in [Pinned -> Word]
    BY <1>1, <2>2, <2>4, GetType DEF Context
  <2>6. QED
    BY <1>5, <1>8, <2>1, <2>4, <2>5 DEF RunTyped
<1>18. ASSUME RunExitCall \/ RunExitLabel PROVE UNCHANGED translation /\ RunTyped' /\ mode # "emit"
  <2>1. /\ mode = "code" /\ mode' \in {"exited", "returned"} /\ UNCHANGED <<translation, at, host, profiling>>
        /\ ctx' = [ctx EXCEPT !.reg = Stored]
    BY <1>18 DEF RunExitCall, RunExitLabel, InCode
  <2>2. ctx' \in Context
    BY <1>3, <1>6, <1>7, <2>1
  <2>3. QED
    BY <1>2, <1>5, <2>1, <2>2 DEF RunTyped
<1>19. ASSUME FallbackStep PROVE UNCHANGED translation /\ RunTyped' /\ mode # "emit"
  <2>1. mode = "fallback" /\ UNCHANGED <<translation, mode, host, profiling>> /\ at' = SlotOf(ctx'.pc)
    BY <1>19 DEF FallbackStep
  <2>2. InText(ctx.pc) /\ at = SlotOf(ctx.pc)
    BY <1>19, <2>1 DEF FallbackStep, Slot, RunTyped
  <2>3. at \in Index
    BY <1>3, <2>2, SlotAddr
  <2>4. prog[at] \in Instr
    BY <2>3 DEF TranslationTyped
  <2>5. ctx' \in Context
    BY <1>2, <1>19, <2>4, StepType DEF FallbackStep
  <2>6. at' \in Nat
    BY <2>1, <2>5, SlotAddr DEF Context
  <2>7. QED
    BY <1>2, <1>5, <2>1, <2>5, <2>6 DEF RunTyped
<1>20. ASSUME FallbackExitCall \/ FallbackLeave PROVE UNCHANGED translation /\ RunTyped' /\ mode # "emit"
  <2>1. /\ mode = "fallback" /\ mode' \in {"exited", "dispatch"} /\ UNCHANGED <<translation, at, ctx, profiling>>
        /\ host' = host \/ host' = Loaded(ctx.reg)
    BY <1>20 DEF FallbackExitCall, FallbackLeave
  <2>2. QED
    BY <1>2, <1>5, <1>6, <2>1 DEF RunTyped
<1>21. QED
  BY <1>9, <1>10, <1>11, <1>12, <1>13, <1>14, <1>15, <1>16, <1>17, <1>18, <1>19, <1>20, Zenon DEF Next

\* The guest context of the running program is a context.
LEMMA RunningType ==
    ASSUME TypeOK, PlaceOK, mode \in {"code", "fallback"}
    PROVE  RunningCtx \in Context
<1>1. ctx \in Context /\ ctx.pc \in Word /\ ctx.reg \in [Reg -> Word] /\ ctx.mem \in Mem
  BY DEF TypeOK, Context
<1>2. GuestReg \in [Reg -> Word]
  BY <1>1, GetType DEF GuestReg
<1>3. GuestPc \in Word
  BY <1>1, SlotAddr DEF GuestPc, PlaceOK
<1>4. QED
  BY <1>1, <1>2, <1>3 DEF RunningCtx, Context

\* Emitted code and the interpreter part at most once, while an instruction runs.
LEMMA PartedStep ==
    ASSUME TypeOK, PlaceOK, [Next]_vars
    PROVE  /\ PartedTyped'
           /\ \/ parted' = parted
              \/ /\ parted = <<>> /\ parted' = <<RunningCtx>>
                 /\ mode \in {"code", "fallback"} /\ mode' = mode /\ prog' = prog
<1>1. CASE parted' = parted
  BY <1>1 DEF TypeOK, PartedTyped
<1>2. CASE RunAssign \/ FallbackStep
  <2>1. mode \in {"code", "fallback"} /\ mode' = mode /\ prog' = prog
    BY <1>2 DEF RunAssign, FallbackStep, InCode, translation
  <2>2. parted' = parted \/ (parted = <<>> /\ parted' = <<RunningCtx>>)
    BY <1>2 DEF RunAssign, FallbackStep, PartIf
  <2>3. RunningCtx \in Context
    BY <2>1, RunningType
  <2>4. Len(<<RunningCtx>>) = 1 /\ <<RunningCtx>>[1] = RunningCtx
    OBVIOUS
  <2>5. QED
    BY <1>1, <2>1, <2>2, <2>3, <2>4 DEF PartedTyped
<1>3. CASE emitInstruction \/ Start \/ Dispatch \/ RunStoreOrNop \/ RunInvalid \/ RunBranch
           \/ RunJal \/ RunJalr
  <2>1. parted' = parted
    BY <1>3 DEF emitInstruction, Start, Dispatch, RunStoreOrNop, RunInvalid, RunBranch, RunJal,
                RunJalr
  <2>2. QED
    BY <1>1, <2>1
<1>4. CASE RunEcall \/ RunExitCall \/ RunExitLabel \/ FallbackExitCall \/ FallbackLeave
           \/ UNCHANGED vars
  <2>1. parted' = parted
    BY <1>4 DEF RunEcall, RunExitCall, RunExitLabel, FallbackExitCall, FallbackLeave, vars
  <2>2. QED
    BY <1>1, <2>1
<1>5. QED
  BY <1>2, <1>3, <1>4, Zenon DEF Next

-----------------------------------------------------------------------------
\* Emitting an instruction keeps the emitted code coherent.
LEMMA EmitCoherent ==
    ASSUME TranslationTyped, RunTyped, Coherent, emitInstruction
    PROVE  Coherent'
<1> DEFINE i == prog[at]
           known == KnownBefore(at, regKnown)
           ops == Operands(i, known, regValues)
<1>1. at \in Index /\ mode = "emit" /\ mode' = "emit" /\ at' = at + 1 /\ at \in Int
  BY WordAssumption DEF emitInstruction, Index
<1>2. UNCHANGED <<prog, options, profiled, harvested>>
  BY DEF emitInstruction
<1>3. \A k : IsLeader(k)' = IsLeader(k)
  BY <1>2 DEF IsLeader, Leaders, Target
<1>4. /\ code'[at].label = IsLeader(at) /\ code'[at].inst = i
      /\ code'[at].src1 = ops[1] /\ code'[at].src2 = ops[2]
      /\ code'[at].num = CallNumber(known, regValues)
      /\ tracked'[at].known = known /\ tracked'[at].vals = regValues
  BY <1>1 DEF emitInstruction, TranslationTyped
<1>5. /\ regKnown' = KnownAfter(i, known) /\ regValues' = ValuesAfter(i, regValues)
  BY DEF emitInstruction
<1>6. \A k \in Index : k # at => code'[k] = code[k] /\ tracked'[k] = tracked[k]
  BY DEF emitInstruction, TranslationTyped
<1>7. \A k \in Index : k \in Int /\ (EmittedAt(k)' <=> k = at \/ EmittedAt(k)) /\ (EmittedAt(k) => k < at)
  BY <1>1, WordAssumption DEF EmittedAt, Index
<1>8. IsLeader(at) => known = {}
  BY DEF KnownBefore
<1>9. known \subseteq regKnown
  BY DEF KnownBefore
<1> HIDE DEF ops, known, i
<1>10. EmittedFromText'
  BY <1>1, <1>2, <1>4, <1>6, <1>7 DEF EmittedFromText, Coherent, i
<1>11. EmittedAsTracked'
  <2> SUFFICES ASSUME NEW k \in Index, EmittedAt(k)'
               PROVE  /\ code'[k].label = IsLeader(k)'
                      /\ IsLeader(k)' => tracked'[k].known = {}
                      /\ code'[k].src1 = Operands(prog'[k], tracked'[k].known, tracked'[k].vals)[1]
                      /\ code'[k].src2 = Operands(prog'[k], tracked'[k].known, tracked'[k].vals)[2]
                      /\ code'[k].num = CallNumber(tracked'[k].known, tracked'[k].vals)
    BY DEF EmittedAsTracked
  <2>1. CASE k = at
    BY <1>2, <1>3, <1>4, <1>8, <2>1, Zenon DEF i, ops
  <2>2. CASE k # at
    <3>1. code'[k] = code[k] /\ tracked'[k] = tracked[k] /\ EmittedAt(k)
      BY <1>6, <1>7, <2>2
    <3>2. QED
      BY <1>2, <1>3, <3>1, Zenon DEF EmittedAsTracked, Coherent
  <2>3. QED
    BY <2>1, <2>2
<1>12. ASSUME NEW k \in Index, NEW n \in Index, n = k + 1, EmittedAt(n)'
       PROVE  /\ tracked'[n].known \subseteq KnownAfter(prog'[k], tracked'[k].known)
              /\ tracked'[n].vals = ValuesAfter(prog'[k], tracked'[k].vals)
  <2>1. CASE n = at
    <3>1. /\ regKnown = KnownAfter(prog[k], tracked[k].known)
          /\ regValues = ValuesAfter(prog[k], tracked[k].vals)
      BY <1>1, <1>12, <2>1 DEF TrackedInOrder, Coherent
    <3>2. k # at
      BY <1>7, <1>12, <2>1
    <3>3. tracked'[k] = tracked[k] /\ prog' = prog
      BY <1>2, <1>6, <3>2
    <3>4. QED
      BY <1>4, <1>9, <2>1, <3>1, <3>3
  <2>2. CASE n # at
    <3>1. EmittedAt(n) /\ k # at
      BY <1>1, <1>7, <1>12, <2>2
    <3>2. tracked'[k] = tracked[k] /\ tracked'[n] = tracked[n] /\ prog' = prog
      BY <1>2, <1>6, <2>2, <3>1
    <3>3. QED
      BY <1>12, <3>1, <3>2, Zenon DEF TrackedInOrder, Coherent
  <2>3. QED
    BY <2>1, <2>2
<1>13. ASSUME NEW k \in Index, at' = k + 1
       PROVE  /\ regKnown' = KnownAfter(prog'[k], tracked'[k].known)
              /\ regValues' = ValuesAfter(prog'[k], tracked'[k].vals)
  <2>1. k = at
    BY <1>1, <1>7, <1>13
  <2>2. QED
    BY <1>2, <1>4, <1>5, <2>1, Zenon DEF i
<1>14. TrackedInOrder'
  BY <1>12, <1>13 DEF TrackedInOrder
<1>15. QED
  BY <1>10, <1>11, <1>14 DEF Coherent

\* Nothing returns to emission.
LEMMA EmissionEnds ==
    ASSUME Next, ~ emitInstruction
    PROVE  mode' # "emit"
<1>0. ASSUME NEW pc, NEW regs, Goto(pc, regs) PROVE mode' # "emit"
  <2>1. Slot(pc) \in {"label", "EXIT", "INVALID", "outside"}
    BY DEF Slot
  <2>2. QED
    BY <1>0, <2>1 DEF Goto
<1>1. CASE Start \/ Dispatch
  BY <1>0, <1>1 DEF Start, Dispatch
<1>2. CASE RunAssign \/ RunStoreOrNop \/ RunInvalid \/ RunBranch \/ RunJal \/ RunEcall
  BY <1>2 DEF RunAssign, RunStoreOrNop, RunInvalid, RunBranch, RunJal, RunEcall, InCode
<1>3. CASE RunJalr
  BY <1>0, <1>3 DEF RunJalr
<1>4. CASE RunExitCall \/ RunExitLabel \/ FallbackStep \/ FallbackExitCall \/ FallbackLeave
  BY <1>4 DEF RunExitCall, RunExitLabel, FallbackStep, FallbackExitCall, FallbackLeave
<1>5. QED
  BY <1>1, <1>2, <1>3, <1>4, Zenon DEF Next

\* Once everything is emitted it stays as it was emitted.
LEMMA RunCoherent ==
    ASSUME Coherent, UNCHANGED translation, mode # "emit" \/ Start, mode' # "emit"
    PROVE  Coherent'
<1>1. UNCHANGED <<prog, options, profiled, harvested, code, tracked>>
  BY DEF translation
<1>2. \A k : IsLeader(k)' = IsLeader(k)
  BY <1>1 DEF IsLeader, Leaders, Target
<1>3. \A k \in Index : EmittedAt(k)
  BY WordAssumption DEF EmittedAt, Start, Index
<1>4. EmittedFromText'
  BY <1>1, <1>3 DEF EmittedFromText, Coherent
<1>5. EmittedAsTracked'
  BY <1>1, <1>2, <1>3, Zenon DEF EmittedAsTracked, Coherent
<1>6. TrackedInOrder'
  BY <1>1, <1>3 DEF TrackedInOrder, Coherent
<1>7. QED
  BY <1>4, <1>5, <1>6 DEF Coherent

-----------------------------------------------------------------------------
\* A dispatch slot with a label is a leader's.
LEMMA GotoLands ==
    ASSUME NEW pc \in Word, NEW regs, Goto(pc, regs), mode' = "code"
    PROVE  at' = WordCount \/ (at' \in Index /\ IsLeader(at'))
<1>1. Slot(pc) \in {"label", "EXIT", "INVALID", "outside"}
  BY DEF Slot
<1>2. Slot(pc) \in {"label", "EXIT"} /\ at' = SlotOf(pc)
  BY <1>1 DEF Goto
<1>3. CASE Slot(pc) = "label"
  <2>1. InText(pc) /\ IsLeader(SlotOf(pc))
    BY <1>3 DEF Slot
  <2>2. SlotOf(pc) \in Index
    BY <2>1, SlotAddr
  <2>3. QED
    BY <1>2, <2>1, <2>2
<1>4. CASE Slot(pc) = "EXIT"
  <2>1. pc = TextEnd
    BY <1>4 DEF Slot
  <2>2. QED
    BY <1>2, <2>1, SlotAddr
<1>5. QED
  BY <1>2, <1>3, <1>4

\* Every way into emitted code and every move in it that is not to the next
\* instruction ends at EXIT or at a leader.
LEMMA Landing ==
    ASSUME TypeOK, PlaceOK, Coherent, Next, mode' = "code",
           ~ (mode = "code" /\ at' = at + 1)
    PROVE  at' = WordCount \/ (at' \in Index /\ IsLeader(at'))
<1>1. ASSUME NEW k \in Index, prog[k].type \in {"BRANCH", "JAL"}
      PROVE  SlotOf(Target(k)) \in Index /\ IsLeader(SlotOf(Target(k)))
  <2>1. SlotOf(Target(k)) \in Index /\ Addr(SlotOf(Target(k))) = Target(k)
    BY <1>1, TargetInText
  <2>2. Target(k) \in Leaders
    BY <1>1 DEF Leaders
  <2>3. QED
    BY <2>1, <2>2 DEF IsLeader
<1>2. at \in Index /\ mode = "code" => code[at].inst = prog[at]
  BY DEF Coherent, EmittedFromText, EmittedAt
<1>3. ctx.pc \in Word
  BY DEF TypeOK, Context
<1>4. CASE Dispatch
  BY <1>3, <1>4, GotoLands DEF Dispatch
<1>5. CASE RunBranch \/ RunJal
  BY <1>1, <1>2, <1>5 DEF RunBranch, RunJal, InCode
<1>6. CASE RunJalr
  <2> DEFINE pc == Plus(code[at].inst.imm, ValueOf(code[at].src1))
             regs == RegAfter(code[at].inst.rd, Computed(code[at], at))
  <2>1. at \in Index
    BY <1>6 DEF RunJalr, InCode
  <2>2. pc \in Word
    <3>1. code[at] \in Emitted
      BY <2>1 DEF TypeOK
    <3>2. code[at].inst.imm \in Word /\ code[at].src1 \in Operand
      BY <3>1 DEF Emitted, Instr
    <3>3. QED
      BY <3>2, GetType, WordArith
  <2>3. (pc \in Predicted /\ at' = SlotOf(pc)) \/ Goto(pc, regs)
    BY <1>6 DEF RunJalr, JalrTarget
  <2>4. CASE pc \in Predicted /\ at' = SlotOf(pc)
    <3>1. pc \in profiled /\ pc \in Leaders
      BY <2>4 DEF Predicted
    <3>2. \E k \in Index : pc = Addr(k)
      BY <3>1, TranslationAssumption DEF PlaceOK
    <3>3. SlotOf(pc) \in Index /\ Addr(SlotOf(pc)) = pc
      BY <3>2, SlotAddr
    <3>4. QED
      BY <2>4, <3>1, <3>3 DEF IsLeader
  <2> HIDE DEF pc, regs
  <2>5. CASE Goto(pc, regs)
    BY <2>2, <2>5, GotoLands, Zenon
  <2>6. QED
    BY <2>3, <2>4, <2>5
<1>7. CASE emitInstruction \/ Start \/ FallbackStep \/ FallbackExitCall \/ FallbackLeave
  BY <1>7 DEF emitInstruction, Start, FallbackStep, FallbackExitCall, FallbackLeave
<1>8. CASE RunAssign \/ RunStoreOrNop \/ RunInvalid \/ RunEcall \/ RunExitCall \/ RunExitLabel
  BY <1>8 DEF RunAssign, RunStoreOrNop, RunInvalid, RunEcall, RunExitCall, RunExitLabel, InCode
<1>9. QED
  BY <1>4, <1>5, <1>6, <1>7, <1>8, Zenon DEF Next

\* The constant of ADDI rd, x0, imm reaches its register.
LEMMA ConstantComputed ==
    ASSUME TypeOK, Coherent, mode = "code", at \in Index, IsConstant(prog[at])
    PROVE  Computed(code[at], at) = prog[at].imm
<1> DEFINE i == prog[at]
           known == tracked[at].known
           vals == tracked[at].vals
<1>1. /\ code[at].inst = i
      /\ code[at].src1 = Operands(i, known, vals)[1]
      /\ code[at].src2 = Operands(i, known, vals)[2]
  BY DEF Coherent, EmittedFromText, EmittedAsTracked, EmittedAt
<1>2. i.type = "ADDI" /\ i.imm # 0 /\ i.rs1 = 0 /\ i.imm \in Word
  BY DEF IsConstant, TypeOK, Instr
<1> HIDE DEF i, known, vals
<1>3. Operands(i, known, vals) = emitAddi(i, known, vals)
  BY <1>2 DEF Operands
<1>4. emitAddi(i, known, vals) = <<Literal(0), Literal(i.imm)>>
  BY <1>2 DEF emitAddi, REG, InReg
<1>5. code[at].src1 = Literal(0) /\ code[at].src2 = Literal(i.imm)
  BY <1>1, <1>3, <1>4
<1>6. ValueOf(code[at].src1) = 0 /\ ValueOf(code[at].src2) = i.imm
  BY <1>5 DEF ValueOf, Literal
<1>7. Computed(code[at], at) = Plus(0, i.imm)
  BY <1>1, <1>2, <1>6 DEF Computed
<1>8. QED
  BY <1>2, <1>7, WordArith DEF i

\* What is tracked after an instruction holds in the state it leads to.
LEMMA TrackedAfter ==
    ASSUME TypeOK, Coherent, TrackingSound, Next,
           mode = "code", at \in Index, mode' = "code", at' = at + 1,
           NEW r \in KnownAfter(prog[at], tracked[at].known) \ {0}
    PROVE  Get(r)' = ValuesAfter(prog[at], tracked[at].vals)[r]
<1> DEFINE i == prog[at]
<1>1. /\ i \in Instr /\ tracked[at].known \subseteq Reg /\ tracked[at].vals \in [Reg -> Word]
      /\ ctx \in Context /\ ctx.reg \in [Reg -> Word] /\ host \in [Pinned -> Word]
  BY DEF TypeOK, Context
<1>2. i.rd \in Reg /\ A0 \in Reg /\ i.type \in Types
  BY <1>1, WordAssumption DEF Instr
<1>3. r \in Reg /\ Pinned \subseteq Reg \ {0}
  BY <1>1, <1>2, TranslationAssumption DEF KnownAfter
<1>4. code[at].inst = i
  BY DEF Coherent, EmittedFromText, EmittedAt
<1>5. \A q \in tracked[at].known \ {0} : Get(q) = tracked[at].vals[q]
  BY <1>1 DEF TrackingSound, GuestReg, Stored
<1>6. ASSUME NEW v, host' = HostAfter(i.rd, v), ctx'.reg = RegAfter(i.rd, v)
      PROVE  Get(r)' = IF r = i.rd THEN v ELSE Get(r)
  BY <1>1, <1>2, <1>3, <1>6 DEF HostAfter, RegAfter, Get
<1>7. CASE RunAssign
  <2> DEFINE v == Computed(code[at], at)
  <2>1. host' = HostAfter(i.rd, v) /\ ctx'.reg = RegAfter(i.rd, v)
    <3>1. /\ host' = HostAfter(i.rd, v)
          /\ ctx' = [ctx EXCEPT !.reg = RegAfter(i.rd, v), !.mem = MemAfter(code[at])]
      BY <1>4, <1>7 DEF RunAssign
    <3> HIDE DEF v, i
    <3>2. QED
      BY <1>1, <3>1 DEF Context
  <2>2. WritesRd(i)
    BY <1>4, <1>7 DEF RunAssign, InCode, WritesRd
  <2>3. IsConstant(i) => v = i.imm
    BY ConstantComputed
  <2> HIDE DEF v, i
  <2>4. Get(r)' = IF r = i.rd THEN v ELSE Get(r)
    BY <1>6, <2>1
  <2>5. CASE IsConstant(i)
    <3>1. KnownAfter(i, tracked[at].known) = tracked[at].known \cup {i.rd}
      BY <2>5 DEF KnownAfter
    <3>2. ValuesAfter(i, tracked[at].vals) = [tracked[at].vals EXCEPT ![i.rd] = i.imm]
      BY <2>5 DEF ValuesAfter
    <3>3. QED
      BY <1>1, <1>2, <1>3, <1>5, <2>3, <2>4, <2>5, <3>1, <3>2 DEF i
  <2>6. CASE ~ IsConstant(i)
    <3>1. KnownAfter(i, tracked[at].known) = tracked[at].known \ {i.rd}
      BY <2>2, <2>6 DEF KnownAfter
    <3>2. ValuesAfter(i, tracked[at].vals) = tracked[at].vals
      BY <2>6 DEF ValuesAfter
    <3>3. QED
      BY <1>5, <2>4, <3>1, <3>2 DEF i
  <2>7. QED
    BY <2>5, <2>6
<1>8. CASE RunStoreOrNop \/ RunInvalid \/ RunBranch \/ RunJal \/ RunJalr \/ RunEcall
  <2>1. ~ IsConstant(i)
    BY <1>4, <1>8 DEF RunStoreOrNop, RunInvalid, RunBranch, RunJal, RunJalr, RunEcall, InCode, IsConstant
  <2>2. ValuesAfter(i, tracked[at].vals) = tracked[at].vals
    BY <2>1 DEF ValuesAfter
  <2>3. KnownAfter(i, tracked[at].known) \subseteq tracked[at].known
    BY <2>1 DEF KnownAfter
  <2>4. SUFFICES Get(r)' = Get(r)
    BY <1>5, <2>2, <2>3
  <2>5. CASE RunStoreOrNop \/ RunBranch
    <3>1. ctx'.reg = ctx.reg /\ host' = host
      BY <1>1, <2>5 DEF RunStoreOrNop, RunBranch, Context
    <3>2. QED
      BY <3>1 DEF Get
  <2>6. CASE RunInvalid
    <3>1. ctx' = [ctx EXCEPT !.reg = Stored] /\ host' = Loaded(ctx'.reg)
      BY <2>6 DEF RunInvalid
    <3>2. ctx'.reg = Stored
      BY <1>1, <3>1 DEF Context
    <3>3. QED
      BY <1>3, <3>1, <3>2 DEF Get, Stored, Loaded
  <2>7. CASE RunEcall
    <3>1. r # A0
      BY <1>4, <2>1, <2>7 DEF RunEcall, InCode, KnownAfter, WritesRd
    <3>2. ctx' \in HandleSyscall([ctx EXCEPT !.reg = Stored]) /\ host' = Loaded(ctx'.reg)
      BY <2>7 DEF RunEcall
    <3>3. Stored \in [Reg -> Word]
      BY GetType
    <3>4. [ctx EXCEPT !.reg = Stored] \in Context /\ [ctx EXCEPT !.reg = Stored].reg = Stored
      BY <1>1, <3>3 DEF Context
    <3>5. ctx'.reg[r] = Stored[r]
      <4> DEFINE c == [ctx EXCEPT !.reg = Stored]
      <4>1. c \in Context /\ ctx' \in HandleSyscall(c) /\ c.reg = Stored
        BY <3>2, <3>4
      <4> HIDE DEF c
      <4>2. QED
        BY <1>3, <3>1, <4>1, SyscallForm
    <3>6. QED
      BY <1>3, <3>2, <3>5 DEF Get, Stored, Loaded
  <2>8. CASE RunJal
    <3>1. host' = HostAfter(i.rd, Computed(code[at], at)) /\ ctx'.reg = RegAfter(i.rd, Computed(code[at], at))
      BY <1>1, <1>4, <2>8 DEF RunJal, Context
    <3>2. r # i.rd
      BY <1>4, <2>1, <2>8 DEF RunJal, InCode, KnownAfter, WritesRd
    <3>3. QED
      BY <1>6, <3>1, <3>2
  <2>9. CASE RunJalr
    <3>1. host' = HostAfter(i.rd, Computed(code[at], at))
      BY <1>4, <2>9 DEF RunJalr
    <3>2. r # i.rd
      BY <1>4, <2>1, <2>9 DEF RunJalr, InCode, KnownAfter, WritesRd
    <3>3. ctx'.reg = RegAfter(i.rd, Computed(code[at], at))
      <4> DEFINE regs == RegAfter(i.rd, Computed(code[at], at))
                 pc == Plus(i.imm, ValueOf(code[at].src1))
      <4>1. ctx' = [ctx EXCEPT !.pc = pc, !.reg = regs] \/ Goto(pc, regs)
        BY <1>4, <2>9 DEF RunJalr, JalrTarget
      <4> HIDE DEF regs, pc
      <4>2. Slot(pc) \in {"label", "EXIT", "INVALID", "outside"}
        BY DEF Slot
      <4>3. Goto(pc, regs) => ctx' = [ctx EXCEPT !.pc = pc, !.reg = regs]
        BY <4>2 DEF Goto
      <4>4. ctx'.reg = regs
        BY <1>1, <4>1, <4>3 DEF Context
      <4>5. QED
        BY <4>4 DEF regs
    <3>4. QED
      BY <1>6, <3>1, <3>2, <3>3
  <2>10. QED
    BY <1>8, <2>5, <2>6, <2>7, <2>8, <2>9
<1>9. CASE emitInstruction \/ Start \/ Dispatch \/ RunExitCall \/ RunExitLabel
           \/ FallbackStep \/ FallbackExitCall \/ FallbackLeave
  BY <1>9 DEF emitInstruction, Start, Dispatch, RunExitCall, RunExitLabel,
              FallbackStep, FallbackExitCall, FallbackLeave
<1>10. QED
  BY <1>7, <1>8, <1>9, Zenon DEF Next

-----------------------------------------------------------------------------
\* The inductive invariant: types, where the program is, emitted code that agrees
\* with what was tracked, and tracked constants that agree with the registers.
IInv == TypeOK /\ PlaceOK /\ Coherent /\ TrackingSound

\* Before the first emitInstruction the invariant holds.
LEMMA InitInv == Init => IInv
<1> SUFFICES ASSUME Init PROVE IInv
  OBVIOUS
<1>1. TypeOK /\ PlaceOK
  BY InitTyped
<1>2. mode = "emit" /\ at = 0
  BY DEF Init
<1>3. \A k \in Index : ~ EmittedAt(k) /\ at # k + 1
  BY <1>2, WordAssumption DEF EmittedAt, Index
<1>4. Coherent
  BY <1>3 DEF Coherent, EmittedFromText, EmittedAsTracked, TrackedInOrder
<1>5. TrackingSound
  BY <1>2 DEF TrackingSound
<1>6. QED
  BY <1>1, <1>4, <1>5 DEF IInv

\* Every step of the translator and of the emitted program keeps the invariant.
LEMMA StepInv == IInv /\ [Next]_vars => IInv'
<1> SUFFICES ASSUME IInv, [Next]_vars PROVE IInv'
  OBVIOUS
<1>1. TypeOK /\ PlaceOK /\ Coherent /\ TrackingSound
  BY DEF IInv
<1>2. TranslationTyped /\ RunTyped /\ PartedTyped /\ PartedTyped'
  BY <1>1, TypedSplit, PartedStep
<1>3. CASE emitInstruction
  <2>1. TranslationTyped' /\ RunTyped'
    BY <1>2, <1>3, EmitTyped
  <2>2. TypeOK' /\ PlaceOK'
    BY <1>2, <2>1 DEF TypeOK, PlaceOK, TranslationTyped, RunTyped, PartedTyped
  <2>3. Coherent'
    BY <1>1, <1>2, <1>3, EmitCoherent
  <2>4. mode' = "emit"
    BY <1>3 DEF emitInstruction
  <2>5. TrackingSound'
    BY <2>4 DEF TrackingSound
  <2>6. QED
    BY <2>2, <2>3, <2>5 DEF IInv
<1>4. CASE Next /\ ~ emitInstruction
  <2>1. UNCHANGED translation /\ RunTyped' /\ (mode # "emit" \/ Start)
    BY <1>1, <1>2, <1>4, RunActionsTyped DEF Coherent
  <2>2. TranslationTyped'
    BY <1>2, <2>1 DEF TranslationTyped, translation
  <2>3. TypeOK' /\ PlaceOK'
    BY <1>2, <2>1, <2>2 DEF TypeOK, PlaceOK, TranslationTyped, RunTyped, PartedTyped
  <2>4. mode' # "emit"
    BY <1>4, EmissionEnds
  <2>5. Coherent'
    BY <1>1, <2>1, <2>4, RunCoherent
  <2>6. TrackingSound'
    <3> SUFFICES ASSUME mode' = "code", at' \in Index, NEW r \in tracked'[at'].known \ {0}
                 PROVE  GuestReg'[r] = tracked'[at'].vals[r]
      BY DEF TrackingSound
    <3>1. tracked' = tracked /\ prog' = prog /\ mode # "emit"
      BY <2>1 DEF translation, Start
    <3>2. tracked[at'].known \subseteq Reg
      BY <1>2 DEF TranslationTyped
    <3>3. GuestReg'[r] = Get(r)'
      BY <3>1, <3>2 DEF GuestReg, Stored
    <3>4. CASE mode = "code" /\ at' = at + 1
      <4>1. at \in Index
        BY <1>2, <3>4, WordAssumption DEF RunTyped, Index
      <4>2. /\ tracked[at'].known \subseteq KnownAfter(prog[at], tracked[at].known)
            /\ tracked[at'].vals = ValuesAfter(prog[at], tracked[at].vals)
        BY <1>1, <3>1, <3>4, <4>1 DEF Coherent, TrackedInOrder, EmittedAt
      <4>3. r \in KnownAfter(prog[at], tracked[at].known) \ {0}
        BY <3>1, <4>2
      <4>4. Get(r)' = ValuesAfter(prog[at], tracked[at].vals)[r]
        BY <1>1, <1>4, <3>4, <4>1, <4>3, TrackedAfter
      <4>5. QED
        BY <3>1, <3>3, <4>2, <4>4
    <3>5. CASE ~ (mode = "code" /\ at' = at + 1)
      <4>1. IsLeader(at') /\ at' \in Index
        <5>1. at' # WordCount
          BY WordAssumption DEF Index
        <5>2. QED
          BY <1>1, <1>4, <3>5, <5>1, Landing
      <4>2. tracked[at'].known = {}
        BY <1>1, <3>1, <4>1 DEF Coherent, EmittedAsTracked, EmittedAt
      <4>3. QED
        BY <3>1, <4>2
    <3>6. QED
      BY <3>4, <3>5
  <2>7. QED
    BY <2>3, <2>5, <2>6 DEF IInv
<1>5. CASE UNCHANGED vars
  <2>1. /\ UNCHANGED <<prog, options, profiled, harvested, code, regKnown, regValues, tracked>>
        /\ UNCHANGED <<mode, at, ctx, host, timerActive, heatup>>
    BY <1>5, Zenon DEF vars, translation, profiling
  <2>2. \A k : IsLeader(k)' = IsLeader(k)
    BY <2>1 DEF IsLeader, Leaders, Target
  <2>3. TranslationTyped' /\ RunTyped'
    BY <1>2, <2>1, Zenon DEF TranslationTyped, RunTyped
  <2>4. TypeOK' /\ PlaceOK'
    BY <1>2, <2>3 DEF TypeOK, PlaceOK, TranslationTyped, RunTyped, PartedTyped
  <2>5. \A k : EmittedAt(k)' = EmittedAt(k)
    BY <2>1 DEF EmittedAt
  <2>6. EmittedFromText' /\ TrackedInOrder'
    BY <1>1, <2>1, <2>5, Zenon DEF Coherent, EmittedFromText, TrackedInOrder
  <2>7. EmittedAsTracked'
    BY <1>1, <2>1, <2>2, <2>5, Zenon DEF Coherent, EmittedAsTracked
  <2>8. TrackingSound'
    BY <1>1, <2>1 DEF TrackingSound, GuestReg, Stored, Get
  <2>9. QED
    BY <2>4, <2>6, <2>7, <2>8 DEF IInv, Coherent
<1>6. QED
  BY <1>3, <1>4, <1>5

\* Every behaviour keeps the inductive invariant.
THEOREM Invariant == Spec => []IInv
<1>1. QED
  BY InitInv, StepInv, PTL DEF Spec

\* The translation and the program it emits are well typed: no register, operand
\* or place of runTranslated() leaves its range.
THEOREM TypeCorrect == Spec => []TypeOK
<1>1. IInv => TypeOK
  BY DEF IInv
<1>2. QED
  BY <1>1, Invariant, PTL

\* The constant propagation of InstructionEmitter (track, resetTracked, emit) is
\* sound for every text and every choice of leaders: a literal written in place of
\* a register is the value of that register whenever the code runs.
THEOREM ConstantsSound == Spec => []TrackingSound
<1>1. IInv => TrackingSound
  BY DEF IInv
<1>2. QED
  BY <1>1, Invariant, PTL

\* Branches, jumps, predicted targets, chained and looped dispatch land only on
\* labels of emitted instructions or on EXIT.
THEOREM JumpsLand == Spec => JumpsLandOnLabels
<1> DEFINE A == mode' = "code" /\ (mode # "code" \/ at' # at + 1)
                => at' = WordCount \/ (at' \in Index /\ code[at'].label)
<1>1. IInv /\ [Next]_vars => [A]_vars
  <2> SUFFICES ASSUME IInv, Next PROVE A
    OBVIOUS
  <2> SUFFICES ASSUME mode' = "code", mode # "code" \/ at' # at + 1
               PROVE  at' = WordCount \/ (at' \in Index /\ code[at'].label)
    OBVIOUS
  <2>1. at' = WordCount \/ (at' \in Index /\ IsLeader(at'))
    BY Landing DEF IInv
  <2>2. mode # "emit"
    <3>1. CASE emitInstruction \/ Start
      BY <3>1 DEF emitInstruction, Start
    <3>2. CASE ~ (emitInstruction \/ Start)
      BY <3>2, TypedSplit, RunActionsTyped DEF IInv, Coherent
    <3>3. QED
      BY <3>1, <3>2
  <2>3. at' \in Index => code[at'].label = IsLeader(at')
    BY <2>2 DEF IInv, Coherent, EmittedAsTracked, EmittedAt
  <2>4. QED
    BY <2>1, <2>3
<1>2. QED
  BY <1>1, Invariant, PTL DEF Spec, JumpsLandOnLabels

-----------------------------------------------------------------------------
(* The translated program implements the abstract machine, unless the profiling check  *)
(* of the dispatch loop may clobber pinned registers                                    *)

\* No printf of the dispatch loop runs while a caller-saved host register holds a guest
\* register: none is pinned there, or no option set has the check (MCTranslatorClobber
\* shows what happens otherwise).
NoClobber ==
    \/ CallerSaved = {}
    \/ \A o \in OptionSets : ~ (o.profileIndirect /\ ~ o.translationChaining)

\* x0 is zero, in ctx.reg, where it always is; and the options are the given ones.
ZeroOK == ctx.reg[0] = 0 /\ options \in OptionSets

RInv == IInv /\ ZeroOK

\* A step before emitted code and the interpreter part.
Followed == parted = <<>> /\ parted' = <<>>

-----------------------------------------------------------------------------
\* JALR as the emitter orders it.
BaseFirstJalr(i, c) ==
    [Put(c, i.rd, Plus(c.pc, 4)) EXCEPT !.pc = Plus(i.imm, c.reg[i.rs1]), !.reg[0] = 0]

\* The abstract machine is built from the same instructions.
LEMMA SameIsa ==
    /\ \A i \in Instr : \A c : Guest!Step(i, c) = Step(i, c)
    /\ \A i, c : Guest!Exits(i, c) = Exits(i, c)
    /\ \A pc : Guest!SlotOf(pc) = SlotOf(pc) /\ Guest!InText(pc) = InText(pc)
    /\ \A i \in Instr : \A c :
          Guest!Taken(i, c) = IF i.type = "JALR" THEN {BaseFirstJalr(i, c)} ELSE Step(i, c)
<1>1. \A x, y : Guest!Plus(x, y) = Plus(x, y)
  BY Zenon DEF Guest!Plus, Plus
<1>2. \A c, r, v : Guest!Put(c, r, v) = Put(c, r, v)
  BY Zenon DEF Guest!Put, Put
<1>3. \A c : Guest!Finish(c) = Finish(c)
  BY Zenon DEF Guest!Finish, Finish, Guest!Plus, Plus
<1>4. ASSUME NEW i \in Instr, NEW c PROVE Guest!Exec(i, c) = Exec(i, c)
  <2>1. Guest!ExecOp(i, c) = ExecOp(i, c) /\ Guest!ExecImm(i, c) = ExecImm(i, c)
    BY Zenon, <1>2 DEF Guest!ExecOp, ExecOp, Guest!ExecImm, ExecImm
  <2>2. Guest!ExecAddi(i, c) = ExecAddi(i, c)
    BY Zenon, <1>1, <1>2 DEF Guest!ExecAddi, ExecAddi
  <2>3. Guest!ExecLoad(i, c) = ExecLoad(i, c)
    BY Zenon, <1>1, <1>2 DEF Guest!ExecLoad, ExecLoad
  <2>4. Guest!ExecStore(i, c) = ExecStore(i, c)
    BY Zenon DEF Guest!ExecStore, ExecStore, Guest!Plus, Plus
  <2>5. Guest!ExecBranch(i, c) = ExecBranch(i, c)
    BY Zenon DEF Guest!ExecBranch, ExecBranch
  <2>6. Guest!ExecJal(i, c) = ExecJal(i, c)
    BY Zenon DEF Guest!ExecJal, ExecJal, Guest!Put, Put, Guest!Plus, Plus
  <2>7. Guest!ExecJalr(i, c) = ExecJalr(i, c)
    BY Zenon DEF Guest!ExecJalr, ExecJalr, Guest!Put, Put, Guest!Plus, Plus
  <2>8. Guest!ExecUpper(i, c) = ExecUpper(i, c)
    BY Zenon DEF Guest!ExecUpper, ExecUpper, Guest!Put, Put, Guest!Plus, Plus
  <2>9. Guest!ExecLr(i, c) = ExecLr(i, c)
    BY Zenon, <1>2 DEF Guest!ExecLr, ExecLr
  <2>10. Guest!ExecSc(i, c) = ExecSc(i, c)
    BY Zenon, <1>2 DEF Guest!ExecSc, ExecSc
  <2>11. Guest!HandleSyscall(c) = HandleSyscall(c)
    BY Zenon DEF Guest!HandleSyscall, HandleSyscall
  <2>12. i.type \in Types
    BY DEF Instr
  <2>13. QED
    BY <2>1, <2>2, <2>3, <2>4, <2>5, <2>6, <2>7, <2>8, <2>9, <2>10, <2>11, <2>12
       DEF Guest!Exec, Exec, Types
<1>5. \A i \in Instr : \A c : Guest!Step(i, c) = Step(i, c)
  BY <1>3, <1>4 DEF Guest!Step, Step
<1>6. \A i, c : Guest!Exits(i, c) = Exits(i, c)
  BY Zenon DEF Guest!Exits, Exits
<1>7. \A pc : Guest!SlotOf(pc) = SlotOf(pc) /\ Guest!InText(pc) = InText(pc)
  BY Zenon DEF Guest!SlotOf, SlotOf, Guest!InText, InText
<1>8. \A i, c : Guest!JalrBaseFirst(i, c) = BaseFirstJalr(i, c)
  BY Zenon DEF Guest!JalrBaseFirst, BaseFirstJalr, Guest!Put, Put, Guest!Plus, Plus
<1>9. \A i \in Instr : \A c :
          Guest!Taken(i, c) = IF i.type = "JALR" THEN {BaseFirstJalr(i, c)} ELSE Step(i, c)
  BY <1>5, <1>8 DEF Guest!Taken
<1>10. QED
  BY <1>5, <1>6, <1>7, <1>9

\* What a JALR that reads its base first leaves, in the terms of the other instructions.
LEMMA JalrForm ==
    ASSUME NEW i \in Instr, NEW c \in Context, i.type = "JALR"
    PROVE  LET d == BaseFirstJalr(i, c) IN
           /\ d \in Context
           /\ d.pc = Destination(i, c) /\ d.reg = Registers(i, c) /\ d.mem = Memory(i, c)
<1> DEFINE p == Put(c, i.rd, Plus(c.pc, 4))
           d == BaseFirstJalr(i, c)
<1>1. i.rd \in Reg /\ i.rs1 \in Reg /\ i.imm \in Word
  BY DEF Instr
<1>2. c.pc \in Word /\ c.reg \in [Reg -> Word] /\ c.mem \in Mem
  BY DEF Context
<1>3. Plus(c.pc, 4) \in Word /\ Plus(i.imm, c.reg[i.rs1]) \in Word /\ 0 \in Word /\ 0 \in Reg
  BY <1>1, <1>2, WordArith, WordAssumption
<1>4. /\ p \in Context /\ p.mem = c.mem
      /\ p.reg = [c.reg EXCEPT ![i.rd] = Plus(c.pc, 4)] /\ p.reg \in [Reg -> Word]
  BY <1>1, <1>3, PutForm DEF Context
<1>5. d = [p EXCEPT !.pc = Plus(i.imm, c.reg[i.rs1]), !.reg[0] = 0]
  BY DEF BaseFirstJalr
<1> HIDE DEF p, d
<1>6. /\ d \in Context /\ d.pc = Plus(i.imm, c.reg[i.rs1]) /\ d.mem = c.mem
      /\ d.reg = [p.reg EXCEPT ![0] = 0]
  BY <1>3, <1>4, <1>5 DEF Context
<1>7. d.pc = Destination(i, c) /\ d.mem = Memory(i, c)
  BY <1>6 DEF Destination, Memory
<1>8. d.reg = Registers(i, c)
  BY <1>4, <1>6 DEF Registers, Value, Assigned
<1>9. QED
  BY <1>6, <1>7, <1>8 DEF d

\* An instruction other than a system call leaves exactly these in the guest.
LEMMA TakenForm ==
    ASSUME NEW i \in Instr, NEW c \in Context, NEW d \in Context, i.type # "ECALL",
           d.pc = Destination(i, c), d.reg = Registers(i, c), d.mem = Memory(i, c)
    PROVE  d \in Guest!Taken(i, c)
<1>1. CASE i.type = "JALR"
  <2>1. d = BaseFirstJalr(i, c)
    BY <1>1, JalrForm, ContextEq
  <2>2. QED
    BY <1>1, <2>1, SameIsa
<1>2. CASE i.type # "JALR"
  BY <1>2, StepForm, SameIsa
<1>3. QED
  BY <1>1, <1>2

\* The interpreter's instruction is the guest's, unless it is a JALR that links into the
\* register it jumps through.
LEMMA StepTaken ==
    ASSUME NEW i \in Instr, NEW c \in Context, ~ LinksItsBase(i)
    PROVE  Step(i, c) \subseteq Guest!Taken(i, c)
<1>1. CASE i.type = "JALR"
  <2>1. BaseFirstJalr(i, c) \in Step(i, c)
    BY <1>1, JalrForm, StepForm DEF LinksItsBase
  <2>2. Step(i, c) = {Finish(ExecJalr(i, c))}
    BY <1>1 DEF Step, Exec
  <2>3. QED
    BY <1>1, <2>1, <2>2, SameIsa
<1>2. CASE i.type # "JALR"
  BY <1>2, SameIsa
<1>3. QED
  BY <1>1, <1>2

-----------------------------------------------------------------------------
\* Under the invariant an operand written for register r is worth what r holds, whether
\* it is the register, x0's literal or a tracked constant.
LEMMA SourceValue ==
    ASSUME RInv, mode = "code", at \in Index, NEW r \in Reg
    PROVE  /\ ValueOf(InReg(r)) = Stored[r]
           /\ ValueOf(REG(r, tracked[at].known, tracked[at].vals)) = Stored[r]
<1>1. Stored[r] = Get(r) /\ Stored[0] = 0
  BY TranslationAssumption, WordAssumption DEF RInv, ZeroOK, Stored, Get
<1>2. ValueOf(InReg(r)) = Stored[r]
  BY <1>1 DEF ValueOf, InReg, Literal
<1>3. r # 0 /\ r \in tracked[at].known => tracked[at].vals[r] = Stored[r]
  BY DEF RInv, IInv, TrackingSound, GuestReg
<1>4. QED
  BY <1>2, <1>3 DEF REG, ValueOf, Literal

\* The guest context while emitted code runs.
CodeCtx == [pc |-> Addr(at), reg |-> Stored, mem |-> ctx.mem]

\* What the emitter made of an instruction reads the registers the instruction names:
\* "rd op= ...", swapped operands, literals and the call number included.
LEMMA OperandValues ==
    ASSUME RInv, mode = "code", at \in Index
    PROVE  LET i == prog[at]
               x == ValueOf(code[at].src1)
               y == ValueOf(code[at].src2)
           IN  /\ code[at].inst = i /\ i \in Instr
               /\ i.type = "OP" => Alu(i.op, x, y) = Alu(i.op, Stored[i.rs1], Stored[i.rs2])
               /\ i.type # "OP" => x = Stored[i.rs1]
               /\ i.type \in {"ADDI", "IMM"} => y = i.imm
               /\ i.type \notin {"OP", "ADDI", "IMM"} => y = Stored[i.rs2]
               /\ NumberOf(code[at], Stored) = Stored[A7]
<1> DEFINE i == prog[at]
           known == tracked[at].known
           vals == tracked[at].vals
           ops == Operands(i, known, vals)
           x == ValueOf(code[at].src1)
           y == ValueOf(code[at].src2)
<1>1. TypeOK /\ Coherent /\ TrackingSound
  BY DEF RInv, IInv
<1>2. /\ code[at].inst = i /\ code[at].src1 = ops[1] /\ code[at].src2 = ops[2]
      /\ code[at].num = CallNumber(known, vals)
  BY <1>1 DEF Coherent, EmittedFromText, EmittedAsTracked, EmittedAt
<1>3. i \in Instr
  BY <1>1 DEF TypeOK
<1>4. i.rd \in Reg /\ i.rs1 \in Reg /\ i.rs2 \in Reg /\ i.imm \in Word /\ i.op \in Op
  BY <1>3 DEF Instr
<1>5. Stored \in [Reg -> Word] /\ A7 \in Reg /\ A7 # 0
  BY <1>1, GetType, WordAssumption
<1>6. \A r \in Reg : ValueOf(InReg(r)) = Stored[r] /\ ValueOf(REG(r, known, vals)) = Stored[r]
  BY SourceValue
<1>7. \A v : ValueOf(Literal(v)) = v
  BY DEF ValueOf, Literal
<1>8. A7 \in known => vals[A7] = Stored[A7]
  BY <1>1, <1>5 DEF TrackingSound, GuestReg
<1> HIDE DEF i, known, vals
<1>9. NumberOf(code[at], Stored) = Stored[A7]
  BY <1>2, <1>5, <1>8 DEF NumberOf, CallNumber, Literal, InReg
<1>10. CASE i.type = "OP" /\ i.op \in Compound
  <2>1. ops = emitOp(i, known, vals)
    BY <1>10 DEF Operands
  <2>2. CASE i.rd = i.rs1
    <3>1. x = Stored[i.rs1] /\ y = Stored[i.rs2]
      BY <1>2, <1>4, <1>6, <2>1, <2>2 DEF emitOp
    <3>2. QED
      BY <1>2, <1>3, <1>9, <1>10, <3>1 DEF i
  <2>3. CASE i.rd # i.rs1 /\ i.rd = i.rs2 /\ i.op \notin Ordered
    <3>1. x = Stored[i.rs2] /\ y = Stored[i.rs1]
      BY <1>2, <1>4, <1>6, <2>1, <2>3 DEF emitOp
    <3>2. Alu(i.op, Stored[i.rs2], Stored[i.rs1]) = Alu(i.op, Stored[i.rs1], Stored[i.rs2])
      BY <1>4, <1>5, <1>10, <2>3, TranslationAssumption
    <3>3. QED
      BY <1>2, <1>3, <1>9, <1>10, <3>1, <3>2 DEF i
  <2>4. CASE i.rd # i.rs1 /\ ~ (i.rd = i.rs2 /\ i.op \notin Ordered)
    <3>1. x = Stored[i.rs1] /\ y = Stored[i.rs2]
      BY <1>2, <1>4, <1>6, <2>1, <2>4 DEF emitOp
    <3>2. QED
      BY <1>2, <1>3, <1>9, <1>10, <3>1 DEF i
  <2>5. QED
    BY <2>2, <2>3, <2>4
<1>11. CASE i.type = "ADDI"
  <2>1. ops = emitAddi(i, known, vals)
    BY <1>11 DEF Operands
  <2>2. x = Stored[i.rs1] /\ y = i.imm
    BY <1>2, <1>4, <1>6, <1>7, <2>1 DEF emitAddi
  <2>3. QED
    BY <1>2, <1>3, <1>9, <1>11, <2>2 DEF i
<1>12. CASE i.type = "IMM"
  <2>1. ops = <<REG(i.rs1, known, vals), Literal(i.imm)>>
    BY <1>12 DEF Operands
  <2>2. x = Stored[i.rs1] /\ y = i.imm
    BY <1>2, <1>4, <1>6, <1>7, <2>1
  <2>3. QED
    BY <1>2, <1>3, <1>9, <1>12, <2>2 DEF i
<1>13. CASE i.type \notin {"ADDI", "IMM"} /\ ~ (i.type = "OP" /\ i.op \in Compound)
  <2>1. ops = <<REG(i.rs1, known, vals), REG(i.rs2, known, vals)>>
    BY <1>13 DEF Operands
  <2>2. x = Stored[i.rs1] /\ y = Stored[i.rs2]
    BY <1>2, <1>4, <1>6, <2>1
  <2>3. QED
    BY <1>2, <1>3, <1>9, <1>13, <2>2 DEF i
<1>14. QED
  BY <1>10, <1>11, <1>12, <1>13

\* The guest's context is a context.
LEMMA CodeCtxType ==
    ASSUME RInv, mode = "code", at \in 0 .. WordCount
    PROVE  /\ CodeCtx \in Context /\ (parted = <<>> => CodeCtx = GuestCtx)
           /\ CodeCtx.pc = Addr(at) /\ CodeCtx.reg = Stored /\ CodeCtx.mem = ctx.mem
<1>1. Addr(at) \in Word /\ Stored \in [Reg -> Word] /\ ctx.mem \in Mem
  BY SlotAddr, GetType DEF RInv, IInv, TypeOK, Context
<1>2. QED
  BY <1>1 DEF CodeCtx, GuestCtx, RunningCtx, GuestPc, GuestReg, Context

\* An emitted statement assigns the value and leaves the memory of its instruction, if the
\* emitter's expression is worth the interpreter's; an emitted branch decides as its
\* instruction does.
LEMMA StatementMeansInstruction ==
    ASSUME RInv, mode = "code", at \in Index
    PROVE  LET i == prog[at] IN
           /\ WritesRd(i) /\ (i.type \in {"OP", "IMM"} => ~ ValueDiffers(code[at]))
                => Computed(code[at], at) = Value(i, CodeCtx)
           /\ MemAfter(code[at]) = Memory(i, CodeCtx)
           /\ i.type = "BRANCH" => Cond(i.op, ValueOf(code[at].src1), ValueOf(code[at].src2))
                                     = Cond(i.op, Stored[i.rs1], Stored[i.rs2])
           /\ i.type = "JALR" => Plus(i.imm, ValueOf(code[at].src1)) = Plus(i.imm, Stored[i.rs1])
<1> DEFINE i == prog[at]
           x == ValueOf(code[at].src1)
           y == ValueOf(code[at].src2)
<1>1. /\ code[at].inst = i /\ i \in Instr
      /\ i.type = "OP" => Alu(i.op, x, y) = Alu(i.op, Stored[i.rs1], Stored[i.rs2])
      /\ i.type # "OP" => x = Stored[i.rs1]
      /\ i.type \in {"ADDI", "IMM"} => y = i.imm
      /\ i.type \notin {"OP", "ADDI", "IMM"} => y = Stored[i.rs2]
  BY OperandValues
<1>2. CodeCtx.pc = Addr(at) /\ CodeCtx.reg = Stored /\ CodeCtx.mem = ctx.mem
  BY DEF CodeCtx
<1>3. Plus(Addr(at), 4) = Addr(at + 1)
  BY NextAddr
<1>4. i.type \in Types
  BY <1>1 DEF Instr
<1> HIDE DEF x, y, i
<1>5. ASSUME WritesRd(i), i.type \in {"OP", "IMM"} => ~ ValueDiffers(code[at])
      PROVE  Computed(code[at], at) = Value(i, CodeCtx)
  <2>1. i.type \in {"OP", "IMM", "ADDI", "LOAD", "LR", "LUI", "AUIPC", "SC", "JAL", "JALR"}
    BY <1>4, <1>5 DEF WritesRd, Types
  <2>2. CASE i.type \in {"OP", "IMM"}
    <3>1. EmitAlu(i.op, x, y) = Alu(i.op, x, y)
      BY <1>1, <1>5, <2>2 DEF ValueDiffers, x, y
    <3>2. QED
      BY <1>1, <1>2, <2>2, <3>1 DEF Computed, Value, x, y
  <2>3. CASE i.type \notin {"OP", "IMM"}
    BY <1>1, <1>2, <1>3, <2>1, <2>3 DEF Computed, Value, x, y
  <2>4. QED
    BY <2>2, <2>3
<1>6. MemAfter(code[at]) = Memory(i, CodeCtx)
  BY <1>1, <1>2 DEF MemAfter, Memory, x, y
<1>7. QED
  BY <1>1, <1>5, <1>6 DEF i, x, y

\* The statement "rd = v" writes what the interpreter writes: x0 is never written, and a
\* pinned register is written in the host register alone.
LEMMA AssignmentStored ==
    ASSUME RInv, NEW rd \in Reg, NEW v \in Word,
           host' = HostAfter(rd, v), ctx'.reg = RegAfter(rd, v)
    PROVE  Stored' = Assigned(Stored, rd, v)
<1>1. /\ ctx.reg \in [Reg -> Word] /\ host \in [Pinned -> Word] /\ ctx.reg[0] = 0
      /\ Pinned \subseteq Reg /\ 0 \notin Pinned /\ 0 \in Reg
  BY TranslationAssumption, WordAssumption DEF RInv, IInv, TypeOK, Context, ZeroOK
<1>2. Stored \in [Reg -> Word] /\ Stored' = [r \in Reg |-> Get(r)']
  BY GetType DEF RInv, IInv, Stored
<1>3. \A r \in Reg : Stored[r] = Get(r)
  BY DEF Stored
<1>4. Assigned(Stored, rd, v) = [r \in Reg |-> IF r = 0 THEN 0 ELSE IF r = rd THEN v ELSE Stored[r]]
  BY <1>1, <1>2 DEF Assigned
<1>5. ASSUME NEW r \in Reg
      PROVE  Get(r)' = IF r = 0 THEN 0 ELSE IF r = rd THEN v ELSE Get(r)
  BY <1>1 DEF Get, HostAfter, RegAfter
<1>6. QED
  BY <1>2, <1>3, <1>4, <1>5

\* Storing and loading, and leaving registers alone, keep x0.
LEMMA StoredZero ==
    ASSUME RInv
    PROVE  Stored[0] = 0 /\ [Stored EXCEPT ![0] = 0] = Stored
<1>1. Stored[0] = 0 /\ Stored \in [Reg -> Word]
  BY GetType, TranslationAssumption, WordAssumption DEF RInv, IInv, ZeroOK, Stored, Get
<1>2. QED
  BY <1>1

-----------------------------------------------------------------------------
\* Following a dispatch slot, wherever it leads, keeps the guest's registers, puts it at
\* pc and leaves its memory alone.
LEMMA GotoForm ==
    ASSUME TypeOK, NEW pc \in Word, NEW regs \in [Reg -> Word],
           host' \in [Pinned -> Word], Goto(pc, regs)
    PROVE  /\ GuestPc' = pc /\ GuestStatus' = "running" /\ ctx'.mem = ctx.mem
           /\ GuestReg' = [r \in Reg |-> IF r \in Pinned THEN host'[r] ELSE regs[r]]
           /\ ctx'.reg[0] = regs[0]
<1>1. ctx \in Context /\ 0 \in Reg /\ 0 \notin Pinned
  BY TranslationAssumption, WordAssumption DEF TypeOK
<1>2. Slot(pc) \in {"label", "EXIT", "INVALID", "outside"}
  BY DEF Slot
<1>3. CASE Slot(pc) \in {"label", "EXIT"}
  <2>1. mode' = "code" /\ at' = SlotOf(pc) /\ ctx' = [ctx EXCEPT !.pc = pc, !.reg = regs]
    BY <1>3 DEF Goto
  <2>2. ctx'.pc = pc /\ ctx'.reg = regs /\ ctx'.mem = ctx.mem
    BY <1>1, <2>1 DEF Context
  <2>3. Addr(SlotOf(pc)) = pc
    BY <1>3, SlotAddr DEF Slot
  <2>4. QED
    BY <2>1, <2>2, <2>3 DEF GuestPc, GuestStatus, GuestReg, Stored, Get
<1>4. CASE Slot(pc) = "INVALID"
  <2> DEFINE full == [r \in Reg |-> IF r \in Pinned THEN host'[r] ELSE regs[r]]
  <2>1. mode' = "fallback" /\ at' = SlotOf(pc) /\ ctx' = [ctx EXCEPT !.pc = pc, !.reg = full]
    BY <1>4 DEF Goto
  <2>2. full[0] = regs[0]
    BY <1>1
  <2> HIDE DEF full
  <2>3. ctx'.pc = pc /\ ctx'.reg = full /\ ctx'.mem = ctx.mem
    BY <1>1, <2>1 DEF Context
  <2>4. GuestPc' = pc /\ GuestStatus' = "running" /\ GuestReg' = full
    BY <2>1, <2>3 DEF GuestPc, GuestStatus, GuestReg
  <2>5. QED
    BY <2>2, <2>3, <2>4 DEF full
<1>5. CASE Slot(pc) = "outside"
  <2>1. mode' = "wild" /\ ctx' = [ctx EXCEPT !.pc = pc, !.reg = regs]
    BY <1>5 DEF Goto
  <2>2. ctx'.pc = pc /\ ctx'.reg = regs /\ ctx'.mem = ctx.mem
    BY <1>1, <2>1 DEF Context
  <2>3. QED
    BY <2>1, <2>2 DEF GuestPc, GuestStatus, GuestReg, Stored, Get
<1>6. QED
  BY <1>2, <1>3, <1>4, <1>5

\* Without a printf over pinned registers a round of the dispatch loop leaves them alone.
LEMMA CheckKeepsHost ==
    ASSUME NoClobber, RInv, ProfilingCheck
    PROVE  host' = host
<1>1. host \in [Pinned -> Word] /\ options \in OptionSets
  BY DEF RInv, IInv, TypeOK, ZeroOK
<1>2. CASE Timed
  <2>1. CallerSaved = {}
    BY <1>1, <1>2 DEF NoClobber, Timed
  <2>2. CASE \E junk \in [CallerSaved -> Word] :
               host' = [r \in Pinned |-> IF r \in CallerSaved THEN junk[r] ELSE host[r]]
    BY <1>1, <2>1, <2>2
  <2>3. CASE host' = host
    BY <2>3
  <2>4. QED
    BY <1>2, <2>2, <2>3 DEF ProfilingCheck
<1>3. CASE ~ Timed
  BY <1>3 DEF ProfilingCheck
<1>4. QED
  BY <1>2, <1>3

\* The host registers stay words in a round of the dispatch loop.
LEMMA CheckTyped ==
    ASSUME TypeOK, ProfilingCheck
    PROVE  host' \in [Pinned -> Word]
<1>1. CASE host' = host
  BY <1>1 DEF TypeOK
<1>2. CASE \E junk \in [CallerSaved -> Word] :
             host' = [r \in Pinned |-> IF r \in CallerSaved THEN junk[r] ELSE host[r]]
  BY <1>2 DEF TypeOK
<1>3. QED
  BY <1>1, <1>2 DEF ProfilingCheck

\* An interpreted instruction leaves x0 zero.
LEMMA StepZero ==
    ASSUME NEW i \in Instr, NEW c \in Context, NEW d \in Step(i, c)
    PROVE  d.reg[0] = 0
<1>1. PICK e \in Exec(i, c) : d = Finish(e)
  BY DEF Step
<1>2. e \in Context
  BY ExecType
<1>3. d.reg = [e.reg EXCEPT ![0] = 0] /\ e.reg \in [Reg -> Word] /\ 0 \in Reg
  BY <1>1, <1>2, FinishForm, WordAssumption DEF Context
<1>4. QED
  BY <1>3

\* x0 stays zero: emit() writes no register 0, the interpreter resets it, nobody pins it.
LEMMA ZeroStep == RInv /\ [Next]_vars => ZeroOK'
<1> SUFFICES ASSUME RInv, [Next]_vars PROVE ZeroOK'
  OBVIOUS
<1>1. /\ TypeOK /\ PlaceOK /\ Coherent /\ ctx.reg[0] = 0 /\ options \in OptionSets
      /\ ctx \in Context /\ ctx.reg \in [Reg -> Word] /\ ctx.pc \in Word
  BY DEF RInv, IInv, ZeroOK, TypeOK, Context
<1>2. Stored[0] = 0 /\ Stored \in [Reg -> Word]
  BY <1>1, StoredZero, GetType
<1>3. options' = options
  <2>1. CASE Next
    BY <2>1 DEF Next, translation, emitInstruction, Start, Dispatch, RunAssign, RunStoreOrNop,
       RunInvalid, RunBranch, RunJal, RunJalr, RunEcall, RunExitCall, RunExitLabel,
       FallbackStep, FallbackExitCall, FallbackLeave
  <2>2. CASE UNCHANGED vars
    BY <2>2 DEF vars, translation
  <2>3. QED
    BY <2>1, <2>2
<1>4. \A rd \in Reg : \A v : RegAfter(rd, v)[0] = 0
  BY <1>1, WordAssumption DEF RegAfter
<1>5. SUFFICES ctx'.reg[0] = 0
  BY <1>1, <1>3 DEF ZeroOK
<1>6. CASE emitInstruction \/ Start \/ RunStoreOrNop \/ RunBranch \/ FallbackExitCall
           \/ FallbackLeave \/ UNCHANGED vars
  <2>1. ctx'.reg = ctx.reg
    BY <1>1, <1>6 DEF emitInstruction, Start, RunStoreOrNop, RunBranch, FallbackExitCall,
                      FallbackLeave, vars, Context
  <2>2. QED
    BY <1>1, <2>1
<1>7. CASE RunInvalid \/ RunExitCall \/ RunExitLabel
  <2>1. ctx'.reg = Stored
    BY <1>1, <1>7 DEF RunInvalid, RunExitCall, RunExitLabel, Context
  <2>2. QED
    BY <1>2, <2>1
<1>8. ASSUME at \in Index PROVE code[at].inst.rd \in Reg /\ code[at].inst.imm \in Word
  BY <1>1, <1>8 DEF TypeOK, Emitted, Instr
<1>9. CASE RunAssign \/ RunJal
  <2> DEFINE r == RegAfter(code[at].inst.rd, Computed(code[at], at))
  <2>1. ctx' = [ctx EXCEPT !.reg = r, !.mem = MemAfter(code[at])] \/ ctx' = [ctx EXCEPT !.reg = r]
    BY <1>9 DEF RunAssign, RunJal
  <2>2. r[0] = 0
    BY <1>4, <1>8, <1>9 DEF RunAssign, RunJal, InCode
  <2> HIDE DEF r
  <2>3. ctx'.reg = r
    BY <1>1, <2>1 DEF Context
  <2>4. QED
    BY <2>2, <2>3
<1>10. CASE RunEcall
  <2> DEFINE c == [ctx EXCEPT !.reg = Stored]
  <2>1. c \in Context /\ c.reg = Stored /\ ctx' \in HandleSyscall(c)
    BY <1>1, <1>2, <1>10 DEF Context, RunEcall
  <2> HIDE DEF c
  <2>2. QED
    BY <1>2, <2>1, SyscallForm, WordAssumption
<1>11. CASE Dispatch
  <2>1. host' \in [Pinned -> Word] /\ Goto(ctx.pc, ctx.reg)
    BY <1>1, <1>11, CheckTyped DEF Dispatch
  <2>2. QED
    BY <1>1, <2>1, GotoForm
<1>12. CASE RunJalr
  <2> DEFINE v == Computed(code[at], at)
             rd == code[at].inst.rd
             regs == RegAfter(rd, v)
             pc == Plus(code[at].inst.imm, ValueOf(code[at].src1))
  <2>1. /\ host' = HostAfter(rd, v) /\ at \in Index
        /\ ctx' = [ctx EXCEPT !.pc = pc, !.reg = regs] \/ Goto(pc, regs)
    BY <1>12 DEF RunJalr, JalrTarget, InCode
  <2>2. WritesRd(code[at].inst)
    BY <1>12 DEF RunJalr, InCode, WritesRd
  <2>3. rd \in Reg /\ v \in Word
    BY <1>1, <1>8, <2>1, <2>2, ComputedType
  <2>4. pc \in Word
    <3>1. code[at].inst.imm \in Word /\ code[at].src1 \in Operand
      BY <1>1, <2>1 DEF TypeOK, Emitted, Instr
    <3>2. QED
      BY <1>1, <3>1, GetType, WordArith
  <2> HIDE DEF v, rd, pc
  <2>5. regs[0] = 0 /\ host' \in [Pinned -> Word] /\ regs \in [Reg -> Word]
    BY <1>1, <1>4, <2>1, <2>3, GetType
  <2> HIDE DEF regs
  <2>6. CASE ctx' = [ctx EXCEPT !.pc = pc, !.reg = regs]
    BY <1>1, <2>5, <2>6 DEF Context
  <2>7. CASE Goto(pc, regs)
    BY <1>1, <2>4, <2>5, <2>7, GotoForm
  <2>8. QED
    BY <2>1, <2>6, <2>7
<1>13. CASE FallbackStep
  <2>1. InText(ctx.pc) /\ at = SlotOf(ctx.pc) /\ ctx' \in Step(prog[at], ctx)
    BY <1>1, <1>13 DEF FallbackStep, Slot, PlaceOK
  <2>2. prog[at] \in Instr
    BY <1>1, <2>1, SlotAddr DEF TypeOK
  <2>3. QED
    BY <1>1, <2>1, <2>2, StepZero
<1>14. QED
  BY <1>6, <1>7, <1>9, <1>10, <1>11, <1>12, <1>13, Zenon DEF Next

\* The invariant the refinement rests on.
LEMMA RInvariant == Spec => []RInv
<1>1. Init => RInv
  BY InitInv, TranslationAssumption DEF Init, RInv, ZeroOK
<1>2. RInv /\ [Next]_vars => RInv'
  BY StepInv, ZeroStep DEF RInv
<1>3. QED
  BY <1>1, <1>2, PTL DEF Spec

-----------------------------------------------------------------------------
\* The translated program starts as the abstract machine does.
LEMMA RefinesInit == Init => Guest!Init
<1> SUFFICES ASSUME Init PROVE Guest!Init
  OBVIOUS
<1>1. mode = "emit" /\ prog \in Programs /\ ctx \in [pc : Entries, reg : InitRegs, mem : InitMems]
  BY DEF Init
<1>2. GuestCtx = [pc |-> ctx.pc, reg |-> ctx.reg, mem |-> ctx.mem] /\ GuestStatus = "running"
  BY <1>1 DEF Init, GuestCtx, RunningCtx, GuestPc, GuestReg, GuestStatus
<1>3. GuestCtx \in [pc : Entries, reg : InitRegs, mem : InitMems]
  BY <1>1, <1>2
<1>4. QED
  BY <1>1, <1>2, <1>3 DEF Guest!Init

\* Steps the guest does not see: emission, the start, a round of the dispatch loop, the
\* return from the fallback.  Each keeps every guest register, the pc and the memory.
LEMMA Unseen ==
    ASSUME NoClobber, RInv, emitInstruction \/ Start \/ Dispatch \/ FallbackLeave
    PROVE  /\ GuestPc' = GuestPc /\ GuestReg' = GuestReg /\ ctx'.mem = ctx.mem
           /\ GuestStatus' = GuestStatus /\ prog' = prog
<1>1. TypeOK /\ ctx \in Context /\ ctx.pc \in Word /\ ctx.reg \in [Reg -> Word]
  BY DEF RInv, IInv, TypeOK, Context
<1>2. host \in [Pinned -> Word] /\ Pinned \subseteq Reg
  BY <1>1, TranslationAssumption DEF TypeOK
<1>3. CASE emitInstruction
  BY <1>3 DEF emitInstruction, GuestPc, GuestReg, GuestStatus
<1>4. CASE Start \/ FallbackLeave
  <2>1. /\ mode \in {"emit", "fallback"} /\ mode' = "dispatch" /\ host' = Loaded(ctx.reg)
        /\ ctx' = ctx /\ prog' = prog
    BY <1>4 DEF Start, FallbackLeave, translation
  <2>2. GuestReg = ctx.reg /\ GuestReg' = Stored'
    BY <2>1 DEF GuestReg
  <2>3. Stored' = [r \in Reg |-> ctx.reg[r]]
    BY <1>2, <2>1 DEF Stored, Get, Loaded
  <2>4. [r \in Reg |-> ctx.reg[r]] = ctx.reg
    BY <1>1
  <2>5. QED
    BY <2>1, <2>2, <2>3, <2>4 DEF GuestPc, GuestStatus
<1>5. CASE Dispatch
  <2>1. mode = "dispatch" /\ Goto(ctx.pc, ctx.reg) /\ prog' = prog
    BY <1>5 DEF Dispatch, translation
  <2>2. host' = host
    BY <1>5, CheckKeepsHost DEF Dispatch
  <2>3. /\ GuestPc' = ctx.pc /\ GuestStatus' = "running" /\ ctx'.mem = ctx.mem
        /\ GuestReg' = [r \in Reg |-> IF r \in Pinned THEN host'[r] ELSE ctx.reg[r]]
    BY <1>1, <1>2, <2>1, <2>2, GotoForm
  <2>4. GuestReg = [r \in Reg |-> IF r \in Pinned THEN host[r] ELSE ctx.reg[r]]
    BY <2>1 DEF GuestReg, Stored, Get
  <2>5. QED
    BY <2>1, <2>2, <2>3, <2>4 DEF GuestPc, GuestStatus
<1>6. QED
  BY <1>3, <1>4, <1>5

\* An instruction of the guest, from the context before it and the one it leads to.
LEMMA ExecuteForm ==
    ASSUME NEW i \in Instr, NEW k \in Index, prog[k] = i, prog' = prog,
           GuestStatus = "running", GuestStatus' = "running",
           GuestCtx.pc = Addr(k), ~ Exits(i, GuestCtx), GuestCtx' \in Guest!Taken(i, GuestCtx)
    PROVE  Guest!Execute
<1>1. InText(Addr(k)) /\ SlotOf(Addr(k)) = k
  BY SlotAddr
<1>2. /\ Guest!InText(GuestCtx.pc) /\ Guest!SlotOf(GuestCtx.pc) = k
      /\ Guest!Exits(i, GuestCtx) = Exits(i, GuestCtx)
  BY <1>1, SameIsa
<1>3. QED
  BY <1>2 DEF Guest!Execute

\* A statement of the emitted code that leaves the registers, the memory and the place
\* of its instruction is that instruction.
LEMMA CodeStep ==
    ASSUME RInv, Followed, mode = "code", at \in Index, prog' = prog,
           prog[at].type # "ECALL",
           GuestStatus' = "running",
           GuestPc' = Destination(prog[at], CodeCtx),
           GuestReg' = Registers(prog[at], CodeCtx),
           ctx'.mem = Memory(prog[at], CodeCtx),
           GuestPc' \in Word, GuestReg' \in [Reg -> Word], ctx'.mem \in Mem
    PROVE  Guest!Execute
<1> DEFINE i == prog[at]
           d == GuestCtx'
<1>1. i \in Instr
  BY DEF RInv, IInv, TypeOK
<1>2. at \in 0 .. WordCount
  BY WordAssumption DEF Index
<1>3. CodeCtx \in Context /\ GuestCtx = CodeCtx /\ CodeCtx.pc = Addr(at)
  BY <1>2, CodeCtxType DEF Followed
<1>4. d \in Context /\ d.pc = GuestPc' /\ d.reg = GuestReg' /\ d.mem = ctx'.mem
  BY DEF Followed, GuestCtx, RunningCtx, Context
<1> HIDE DEF d
<1>5. d \in Guest!Taken(i, CodeCtx)
  BY <1>1, <1>3, <1>4, TakenForm
<1>6. ~ Exits(i, GuestCtx) /\ GuestStatus = "running"
  BY DEF Exits, GuestStatus
<1>7. QED
  BY <1>1, <1>3, <1>5, <1>6, ExecuteForm DEF d

\* The facts every statement of the emitted code starts from.
LEMMA CodeFacts ==
    ASSUME RInv, mode = "code", at \in Index
    PROVE  /\ prog[at] \in Instr /\ code[at].inst = prog[at] /\ prog[at].rd \in Reg
           /\ prog[at].type \in Types
           /\ ctx \in Context /\ ctx.mem \in Mem
           /\ Stored \in [Reg -> Word] /\ Stored[0] = 0 /\ [Stored EXCEPT ![0] = 0] = Stored
           /\ CodeCtx.pc = Addr(at) /\ CodeCtx.reg = Stored /\ CodeCtx.mem = ctx.mem
           /\ Addr(at + 1) \in Word /\ Plus(Addr(at), 4) = Addr(at + 1)
           /\ WritesRd(prog[at]) => Computed(code[at], at) \in Word
           /\ MemAfter(code[at]) \in Mem
<1>1. TypeOK
  BY DEF RInv, IInv
<1>2. prog[at] \in Instr /\ code[at].inst = prog[at]
  BY OperandValues
<1>3. prog[at].rd \in Reg /\ prog[at].type \in Types
  BY <1>2 DEF Instr
<1>4. ctx \in Context /\ ctx.mem \in Mem
  BY <1>1 DEF TypeOK, Context
<1>5. Stored \in [Reg -> Word] /\ Stored[0] = 0 /\ [Stored EXCEPT ![0] = 0] = Stored
  BY <1>1, GetType, StoredZero
<1>6. (WritesRd(prog[at]) => Computed(code[at], at) \in Word) /\ MemAfter(code[at]) \in Mem
  BY <1>1, <1>2, ComputedType
<1>7. QED
  BY <1>2, <1>3, <1>4, <1>5, <1>6, NextAddr DEF CodeCtx

\* A register assignment is its instruction.
LEMMA AssignExecutes == ASSUME RInv, Followed, RunAssign PROVE Guest!Execute
<1> DEFINE i == prog[at]
           v == Computed(code[at], at)
           m == MemAfter(code[at])
<1>1. mode = "code" /\ at \in Index
  BY DEF RunAssign, InCode
<1>2. /\ i \in Instr /\ code[at].inst = i /\ i.rd \in Reg /\ ctx \in Context
      /\ Stored \in [Reg -> Word]
      /\ CodeCtx.pc = Addr(at) /\ CodeCtx.reg = Stored /\ CodeCtx.mem = ctx.mem
      /\ Addr(at + 1) \in Word /\ Plus(Addr(at), 4) = Addr(at + 1)
      /\ (WritesRd(i) => v \in Word) /\ m \in Mem
  BY <1>1, CodeFacts
<1>3. i.type \in {"OP", "IMM", "ADDI", "LOAD", "LR", "LUI", "AUIPC", "SC"}
  BY <1>2 DEF RunAssign, InCode
<1>4. WritesRd(i)
  BY <1>3 DEF WritesRd
<1>5. v = Value(i, CodeCtx) /\ m = Memory(i, CodeCtx)
  <2>1. ~ ValueDiffers(code[at])
    BY DEF RunAssign, PartIf, Followed
  <2>2. QED
    BY <1>1, <1>4, <2>1, StatementMeansInstruction
<1>6. /\ host' = HostAfter(i.rd, v) /\ ctx' = [ctx EXCEPT !.reg = RegAfter(i.rd, v), !.mem = m]
      /\ at' = at + 1 /\ mode' = "code" /\ prog' = prog
  BY <1>1, <1>2 DEF RunAssign, translation
<1> HIDE DEF v, m, i
<1>7. ctx'.reg = RegAfter(i.rd, v) /\ ctx'.mem = m
  BY <1>2, <1>6 DEF Context
<1>8. Stored' = Assigned(Stored, i.rd, v)
  BY <1>2, <1>4, <1>6, <1>7, AssignmentStored
<1>9. Assigned(Stored, i.rd, v) \in [Reg -> Word]
  BY <1>2, <1>4, WordArith DEF Assigned
<1>10. GuestPc' = Addr(at + 1) /\ GuestReg' = Stored' /\ GuestStatus' = "running"
  BY <1>6 DEF GuestPc, GuestReg, GuestStatus
<1>11. Destination(i, CodeCtx) = Addr(at + 1) /\ Registers(i, CodeCtx) = Assigned(Stored, i.rd, v)
  BY <1>2, <1>3, <1>5 DEF Destination, Registers
<1>12. i.type # "ECALL"
  BY <1>3
<1>13. QED
  BY <1>1, <1>2, <1>5, <1>6, <1>7, <1>8, <1>9, <1>10, <1>11, <1>12, CodeStep DEF i

\* A store, an instruction without code and the report of an invalid one are theirs.
LEMMA StoreExecutes == ASSUME RInv, Followed, RunStoreOrNop \/ RunInvalid PROVE Guest!Execute
<1> DEFINE i == prog[at]
           m == MemAfter(code[at])
<1>1. mode = "code" /\ at \in Index
  BY DEF RunStoreOrNop, RunInvalid, InCode
<1>2. /\ i \in Instr /\ code[at].inst = i /\ ctx \in Context
      /\ Stored \in [Reg -> Word] /\ [Stored EXCEPT ![0] = 0] = Stored
      /\ CodeCtx.pc = Addr(at) /\ CodeCtx.reg = Stored /\ CodeCtx.mem = ctx.mem
      /\ Addr(at + 1) \in Word /\ Plus(Addr(at), 4) = Addr(at + 1) /\ m \in Mem
  BY <1>1, CodeFacts
<1>3. i.type \in {"STORE", "NOP", "INVALID"} /\ (RunInvalid => i.type = "INVALID")
  BY <1>2 DEF RunStoreOrNop, RunInvalid, InCode
<1>4. m = Memory(i, CodeCtx)
  BY <1>1, StatementMeansInstruction
<1>5. at' = at + 1 /\ mode' = "code" /\ prog' = prog
  BY <1>1 DEF RunStoreOrNop, RunInvalid, translation
<1> HIDE DEF i, m
<1>6. ctx'.mem = m /\ Stored' = Stored
  <2>1. CASE RunStoreOrNop
    <3>1. ctx' = [ctx EXCEPT !.mem = m] /\ host' = host
      BY <2>1 DEF RunStoreOrNop, m
    <3>2. ctx'.mem = m /\ ctx'.reg = ctx.reg
      BY <1>2, <3>1 DEF Context
    <3>3. QED
      BY <3>1, <3>2 DEF Stored, Get
  <2>2. CASE RunInvalid
    <3>1. ctx' = [ctx EXCEPT !.reg = Stored] /\ host' = Loaded(ctx'.reg)
      BY <2>2 DEF RunInvalid
    <3>2. ctx'.mem = ctx.mem /\ ctx'.reg = Stored
      BY <1>2, <3>1 DEF Context
    <3>3. m = ctx.mem
      BY <1>2, <1>3, <1>4, <2>2 DEF Memory
    <3>4. Stored' = [r \in Reg |-> Stored[r]]
      BY <3>1, <3>2, TranslationAssumption DEF Stored, Get, Loaded
    <3>5. QED
      BY <1>2, <3>2, <3>3, <3>4
  <2>3. QED
    BY <2>1, <2>2
<1>7. GuestPc' = Addr(at + 1) /\ GuestReg' = Stored /\ GuestStatus' = "running"
  BY <1>5, <1>6 DEF GuestPc, GuestReg, GuestStatus
<1>8. Destination(i, CodeCtx) = Addr(at + 1) /\ Registers(i, CodeCtx) = Stored
  BY <1>2, <1>3 DEF Destination, Registers
<1>9. i.type # "ECALL"
  BY <1>3
<1>10. QED
  BY <1>1, <1>2, <1>4, <1>5, <1>6, <1>7, <1>8, <1>9, CodeStep DEF i

\* "if (...) goto L;" is its branch.
LEMMA BranchExecutes == ASSUME RInv, Followed, RunBranch PROVE Guest!Execute
<1> DEFINE i == prog[at]
<1>1. mode = "code" /\ at \in Index
  BY DEF RunBranch, InCode
<1>2. /\ i \in Instr /\ code[at].inst = i /\ ctx \in Context /\ ctx.mem \in Mem
      /\ Stored \in [Reg -> Word] /\ [Stored EXCEPT ![0] = 0] = Stored
      /\ CodeCtx.pc = Addr(at) /\ CodeCtx.reg = Stored /\ CodeCtx.mem = ctx.mem
      /\ Addr(at + 1) \in Word /\ Plus(Addr(at), 4) = Addr(at + 1)
  BY <1>1, CodeFacts
<1>3. i.type = "BRANCH"
  BY <1>2 DEF RunBranch, InCode
<1>4. /\ Target(at) \in Word /\ Addr(SlotOf(Target(at))) = Target(at)
      /\ Target(at) = Plus(Addr(at), i.imm)
  BY <1>1, <1>3, TargetInText DEF RInv, IInv, Target
<1>5. Cond(i.op, ValueOf(code[at].src1), ValueOf(code[at].src2)) = Cond(i.op, Stored[i.rs1], Stored[i.rs2])
  BY <1>1, <1>3, StatementMeansInstruction
<1>6. /\ at' = IF Cond(i.op, Stored[i.rs1], Stored[i.rs2]) THEN SlotOf(Target(at)) ELSE at + 1
      /\ mode' = "code" /\ prog' = prog /\ ctx' = ctx /\ host' = host
  BY <1>1, <1>2, <1>5 DEF RunBranch, translation
<1> HIDE DEF i
<1>7. Stored' = Stored
  BY <1>6 DEF Stored, Get
<1>8. GuestPc' = Addr(at') /\ GuestReg' = Stored /\ GuestStatus' = "running"
  BY <1>6, <1>7 DEF GuestPc, GuestReg, GuestStatus
<1>9. Addr(at') = Destination(i, CodeCtx) /\ Addr(at') \in Word
  BY <1>2, <1>3, <1>4, <1>6 DEF Destination
<1>10. Registers(i, CodeCtx) = Stored /\ Memory(i, CodeCtx) = ctx.mem
  BY <1>2, <1>3 DEF Registers, Memory
<1>11. i.type # "ECALL"
  BY <1>3
<1>12. QED
  BY <1>1, <1>2, <1>6, <1>8, <1>9, <1>10, <1>11, CodeStep DEF i

\* "rd = link; goto L;" is its JAL.
LEMMA JalExecutes == ASSUME RInv, Followed, RunJal PROVE Guest!Execute
<1> DEFINE i == prog[at]
           v == Computed(code[at], at)
<1>1. mode = "code" /\ at \in Index
  BY DEF RunJal, InCode
<1>2. /\ i \in Instr /\ code[at].inst = i /\ i.rd \in Reg /\ ctx \in Context /\ ctx.mem \in Mem
      /\ Stored \in [Reg -> Word]
      /\ CodeCtx.pc = Addr(at) /\ CodeCtx.reg = Stored /\ CodeCtx.mem = ctx.mem
      /\ (WritesRd(i) => v \in Word)
  BY <1>1, CodeFacts
<1>3. i.type = "JAL" /\ WritesRd(i)
  BY <1>2 DEF RunJal, InCode, WritesRd
<1>4. /\ Target(at) \in Word /\ Addr(SlotOf(Target(at))) = Target(at)
      /\ Target(at) = Plus(Addr(at), i.imm)
  BY <1>1, <1>3, TargetInText DEF RInv, IInv, Target
<1>5. v = Value(i, CodeCtx)
  BY <1>1, <1>3, StatementMeansInstruction
<1>6. /\ host' = HostAfter(i.rd, v) /\ ctx' = [ctx EXCEPT !.reg = RegAfter(i.rd, v)]
      /\ at' = SlotOf(Target(at)) /\ mode' = "code" /\ prog' = prog
  BY <1>1, <1>2 DEF RunJal, translation
<1> HIDE DEF v, i
<1>7. ctx'.reg = RegAfter(i.rd, v) /\ ctx'.mem = ctx.mem
  BY <1>2, <1>6 DEF Context
<1>8. Stored' = Assigned(Stored, i.rd, v)
  BY <1>2, <1>3, <1>6, <1>7, AssignmentStored
<1>9. Assigned(Stored, i.rd, v) \in [Reg -> Word]
  BY <1>2, <1>3, WordArith DEF Assigned
<1>10. GuestPc' = Target(at) /\ GuestReg' = Stored' /\ GuestStatus' = "running"
  BY <1>4, <1>6 DEF GuestPc, GuestReg, GuestStatus
<1>11. /\ Destination(i, CodeCtx) = Target(at) /\ Memory(i, CodeCtx) = ctx.mem
       /\ Registers(i, CodeCtx) = Assigned(Stored, i.rd, v)
  BY <1>2, <1>3, <1>4, <1>5 DEF Destination, Registers, Memory
<1>12. i.type # "ECALL"
  BY <1>3
<1>13. QED
  BY <1>1, <1>2, <1>4, <1>6, <1>7, <1>8, <1>9, <1>10, <1>11, <1>12, CodeStep DEF i

\* A JALR is its instruction, whether it takes a predicted target, the chained dispatch,
\* to emitted code, to the fallback or out of the text, or another round of the loop.
LEMMA JalrExecutes == ASSUME RInv, Followed, RunJalr PROVE Guest!Execute
<1> DEFINE i == prog[at]
           v == Computed(code[at], at)
           pc == Plus(i.imm, ValueOf(code[at].src1))
           regs == RegAfter(i.rd, v)
<1>1. mode = "code" /\ at \in Index
  BY DEF RunJalr, InCode
<1>2. /\ i \in Instr /\ code[at].inst = i /\ i.rd \in Reg /\ ctx \in Context /\ ctx.mem \in Mem
      /\ Stored \in [Reg -> Word]
      /\ CodeCtx.pc = Addr(at) /\ CodeCtx.reg = Stored /\ CodeCtx.mem = ctx.mem
      /\ (WritesRd(i) => v \in Word)
  BY <1>1, CodeFacts
<1>3. i.type = "JALR" /\ WritesRd(i)
  BY <1>2 DEF RunJalr, InCode, WritesRd
<1>4. v = Value(i, CodeCtx) /\ pc = Plus(i.imm, Stored[i.rs1])
  BY <1>1, <1>3, StatementMeansInstruction
<1>5. i.imm \in Word /\ i.rs1 \in Reg
  BY <1>2 DEF Instr
<1>6. pc \in Word
  BY <1>2, <1>4, <1>5, WordArith
<1>7. /\ host' = HostAfter(i.rd, v) /\ prog' = prog
      /\ \/ /\ pc \in Predicted /\ mode' = "code" /\ at' = SlotOf(pc)
            /\ ctx' = [ctx EXCEPT !.pc = pc, !.reg = regs]
         \/ Goto(pc, regs)
         \/ mode' = "dispatch" /\ ctx' = [ctx EXCEPT !.pc = pc, !.reg = regs]
  BY <1>2 DEF RunJalr, JalrTarget, translation
<1> HIDE DEF v, i, pc
<1>8. /\ TypeOK /\ regs \in [Reg -> Word] /\ HostAfter(i.rd, v) \in [Pinned -> Word]
      /\ Assigned(Stored, i.rd, v) \in [Reg -> Word]
  BY <1>2, <1>3, GetType, WordArith DEF RInv, IInv, Assigned
<1> HIDE DEF regs
<1> DEFINE full == [r \in Reg |-> IF r \in Pinned THEN HostAfter(i.rd, v)[r] ELSE regs[r]]
<1>9. full = Assigned(Stored, i.rd, v)
  <2>1. /\ ctx.reg \in [Reg -> Word] /\ host \in [Pinned -> Word] /\ ctx.reg[0] = 0
        /\ Pinned \subseteq Reg /\ 0 \notin Pinned /\ 0 \in Reg
    BY TranslationAssumption, WordAssumption DEF RInv, IInv, TypeOK, Context, ZeroOK
  <2>2. Assigned(Stored, i.rd, v)
          = [r \in Reg |-> IF r = 0 THEN 0 ELSE IF r = i.rd THEN v ELSE Get(r)]
    BY <1>2, <2>1 DEF Assigned, Stored
  <2>3. ASSUME NEW r \in Reg
        PROVE  full[r] = IF r = 0 THEN 0 ELSE IF r = i.rd THEN v ELSE Get(r)
    BY <2>1 DEF Get, HostAfter, RegAfter, regs
  <2>4. QED
    BY <2>2, <2>3
<1>10. GuestPc' = pc /\ GuestStatus' = "running" /\ ctx'.mem = ctx.mem /\ GuestReg' = full
  <2>1. ASSUME ctx' = [ctx EXCEPT !.pc = pc, !.reg = regs]
        PROVE  ctx'.pc = pc /\ ctx'.mem = ctx.mem /\ Stored' = full
    <3>1. ctx'.pc = pc /\ ctx'.reg = regs /\ ctx'.mem = ctx.mem
      BY <1>2, <2>1 DEF Context
    <3>2. QED
      BY <1>7, <3>1 DEF Stored, Get
  <2>2. CASE pc \in Predicted /\ mode' = "code" /\ at' = SlotOf(pc)
             /\ ctx' = [ctx EXCEPT !.pc = pc, !.reg = regs]
    <3>1. \E k \in Index : pc = Addr(k)
      BY <2>2, TranslationAssumption DEF Predicted, RInv, IInv, PlaceOK
    <3>2. Addr(SlotOf(pc)) = pc
      BY <3>1, SlotAddr
    <3>3. QED
      BY <2>1, <2>2, <3>2 DEF GuestPc, GuestStatus, GuestReg
  <2>3. CASE Goto(pc, regs)
    BY <1>6, <1>7, <1>8, <2>3, GotoForm
  <2>4. CASE mode' = "dispatch" /\ ctx' = [ctx EXCEPT !.pc = pc, !.reg = regs]
    BY <2>1, <2>4 DEF GuestPc, GuestStatus, GuestReg
  <2>5. QED
    BY <1>7, <2>2, <2>3, <2>4
<1>11. /\ Destination(i, CodeCtx) = pc /\ Memory(i, CodeCtx) = ctx.mem
       /\ Registers(i, CodeCtx) = Assigned(Stored, i.rd, v)
  BY <1>2, <1>3, <1>4 DEF Destination, Registers, Memory
<1>12. i.type # "ECALL"
  BY <1>3
<1> HIDE DEF full
<1>13. QED
  BY <1>1, <1>2, <1>6, <1>7, <1>8, <1>9, <1>10, <1>11, <1>12, CodeStep DEF i

\* A system call that returns: store, handle and load are its instruction.
LEMMA EcallExecutes == ASSUME RInv, Followed, RunEcall PROVE Guest!Execute
<1> DEFINE i == prog[at]
           s == [ctx EXCEPT !.reg = Stored]
           e == [pc |-> Addr(at), reg |-> ctx'.reg, mem |-> ctx'.mem]
<1>1. mode = "code" /\ at \in Index
  BY DEF RunEcall, InCode
<1>2. /\ i \in Instr /\ code[at].inst = i /\ ctx \in Context /\ ctx.mem \in Mem
      /\ Stored \in [Reg -> Word] /\ Stored[0] = 0
      /\ CodeCtx.pc = Addr(at) /\ CodeCtx.reg = Stored /\ CodeCtx.mem = ctx.mem
      /\ Addr(at + 1) \in Word /\ Plus(Addr(at), 4) = Addr(at + 1)
  BY <1>1, CodeFacts
<1>3. i.type = "ECALL"
  BY <1>2 DEF RunEcall, InCode
<1>4. Stored[A7] \notin ExitNums
  BY <1>1, OperandValues DEF RunEcall
<1>5. /\ ctx' \in HandleSyscall(s) /\ host' = Loaded(ctx'.reg)
      /\ at' = at + 1 /\ mode' = "code" /\ prog' = prog
  BY <1>1 DEF RunEcall, translation
<1> HIDE DEF i
<1>6. s \in Context /\ s.reg = Stored /\ s.mem = ctx.mem
  BY <1>2 DEF Context
<1>7. at \in 0 .. WordCount /\ CodeCtx \in Context /\ GuestCtx = CodeCtx
  BY <1>1, CodeCtxType, WordAssumption DEF Index, Followed
<1> HIDE DEF s
<1>8. PICK r \in SysResults, m \in KernelWrites(s.mem) : ctx' = [s EXCEPT !.reg[A0] = r, !.mem = m]
  BY <1>5 DEF HandleSyscall
<1>9. r \in Word /\ m \in Mem /\ A0 \in Reg /\ A0 # 0
  BY <1>2, <1>6, <1>8, ClosureAssumption, WordAssumption
<1>10. ctx'.reg = [Stored EXCEPT ![A0] = r] /\ ctx'.mem = m
  BY <1>6, <1>8, <1>9 DEF Context
<1>11. ctx'.reg \in [Reg -> Word] /\ ctx'.reg[0] = 0 /\ [ctx'.reg EXCEPT ![0] = 0] = ctx'.reg
  BY <1>2, <1>9, <1>10, WordAssumption
<1>12. e \in HandleSyscall(CodeCtx)
  <2> DEFINE f == [CodeCtx EXCEPT !.reg[A0] = r, !.mem = m]
  <2>1. f \in Context /\ f.pc = Addr(at) /\ f.reg = [Stored EXCEPT ![A0] = r] /\ f.mem = m
    BY <1>2, <1>7, <1>9 DEF Context
  <2>2. e \in Context /\ e.pc = Addr(at) /\ e.reg = ctx'.reg /\ e.mem = ctx'.mem
    BY <1>2, <1>7, <1>9, <1>10, <1>11 DEF Context
  <2>3. f \in HandleSyscall(CodeCtx)
    <3>1. m \in KernelWrites(CodeCtx.mem)
      BY <1>2, <1>6, <1>8
    <3> DEFINE G(q) == {[CodeCtx EXCEPT !.reg[A0] = q, !.mem = n] : n \in KernelWrites(CodeCtx.mem)}
    <3>2. f \in G(r)
      BY <3>1, Zenon
    <3>3. HandleSyscall(CodeCtx) = UNION {G(q) : q \in SysResults}
      BY Zenon DEF HandleSyscall
    <3> HIDE DEF G, f
    <3>4. QED
      BY <1>8, <3>2, <3>3
  <2> HIDE DEF e, f
  <2>4. e = f
    BY <1>10, <2>1, <2>2, ContextEq
  <2>5. QED
    BY <2>3, <2>4
<1>13. Finish(e) \in Guest!Taken(i, CodeCtx)
  <2>1. Finish(e) \in Step(i, CodeCtx)
    BY <1>3, <1>12 DEF Step, Exec
  <2>2. QED
    BY <1>2, <1>3, <2>1, SameIsa DEF i
<1>14. e \in Context /\ e.pc = Addr(at) /\ e.reg = ctx'.reg /\ e.mem = ctx'.mem
  BY <1>2, <1>7, <1>9, <1>10, <1>11 DEF Context
<1>15. Stored' = ctx'.reg
  <2>1. Stored' = [q \in Reg |-> ctx'.reg[q]]
    BY <1>5, TranslationAssumption DEF Stored, Get, Loaded
  <2>2. QED
    BY <1>11, <2>1
<1>16. GuestPc' = Addr(at + 1) /\ GuestReg' = Stored' /\ GuestStatus' = "running"
  BY <1>5 DEF GuestPc, GuestReg, GuestStatus
<1>17. /\ GuestCtx' \in Context /\ GuestCtx'.pc = Addr(at + 1)
       /\ GuestCtx'.reg = ctx'.reg /\ GuestCtx'.mem = ctx'.mem
  BY <1>2, <1>9, <1>10, <1>11, <1>15, <1>16 DEF Followed, GuestCtx, RunningCtx, Context
<1> HIDE DEF e
<1>18. GuestCtx' = Finish(e)
  BY <1>2, <1>11, <1>14, <1>17, FinishForm, ContextEq
<1>19. ~ Exits(i, GuestCtx) /\ GuestStatus = "running" /\ GuestCtx.pc = Addr(at)
  BY <1>1, <1>2, <1>4, <1>7 DEF Exits, GuestStatus
<1>20. QED
  BY <1>1, <1>2, <1>5, <1>7, <1>13, <1>16, <1>18, <1>19, ExecuteForm DEF i

\* An exit call, from emitted code or from the fallback, is the guest's.
LEMMA ExitCallExits == ASSUME RInv, Followed, RunExitCall \/ FallbackExitCall PROVE Guest!ExitCall
<1>1. CASE RunExitCall
  <2>1. mode = "code" /\ at \in Index /\ code[at].inst.type = "ECALL"
    BY <1>1 DEF RunExitCall, InCode
  <2>2. /\ prog[at].type = "ECALL" /\ ctx \in Context
        /\ CodeCtx.pc = Addr(at) /\ CodeCtx.reg = Stored
    BY <2>1, CodeFacts
  <2>3. Stored[A7] \in ExitNums
    BY <1>1, <2>1, OperandValues DEF RunExitCall
  <2>4. /\ mode' = "exited" /\ ctx' = [ctx EXCEPT !.reg = Stored] /\ at' = at /\ prog' = prog
    BY <1>1 DEF RunExitCall, translation
  <2>5. ctx'.reg = Stored /\ ctx'.mem = ctx.mem
    BY <2>2, <2>4 DEF Context
  <2>6. at \in 0 .. WordCount /\ GuestCtx = CodeCtx
    BY <2>1, CodeCtxType, WordAssumption DEF Index, Followed
  <2>7. GuestCtx' = GuestCtx /\ GuestStatus = "running" /\ GuestStatus' = "exited"
    BY <2>1, <2>4, <2>5 DEF Followed, GuestCtx, RunningCtx, GuestPc, GuestReg, GuestStatus
  <2>8. Exits(prog[at], GuestCtx) /\ GuestCtx.pc = Addr(at)
    BY <2>2, <2>3, <2>6 DEF Exits
  <2>9. InText(GuestCtx.pc) /\ SlotOf(GuestCtx.pc) = at
    BY <2>1, <2>8, SlotAddr
  <2>10. QED
    BY <2>4, <2>7, <2>8, <2>9, SameIsa DEF Guest!ExitCall
<1>2. CASE FallbackExitCall
  <2>1. mode = "fallback" /\ InText(ctx.pc) /\ at = SlotOf(ctx.pc) /\ ctx \in Context
    BY <1>2 DEF FallbackExitCall, Slot, RInv, IInv, PlaceOK, TypeOK
  <2>2. ctx.pc \in Word
    BY <2>1 DEF Context
  <2>3. Addr(at) = ctx.pc
    BY <2>1, <2>2, SlotAddr
  <2>4. Exits(prog[at], ctx) /\ mode' = "exited" /\ ctx' = ctx /\ at' = at /\ prog' = prog
    BY <1>2 DEF FallbackExitCall, translation
  <2>5. GuestCtx = ctx
    BY <2>1 DEF Followed, GuestCtx, RunningCtx, GuestPc, GuestReg, Context
  <2>6. GuestCtx' = GuestCtx /\ GuestStatus = "running" /\ GuestStatus' = "exited"
    BY <2>1, <2>3, <2>4 DEF Followed, GuestCtx, RunningCtx, GuestPc, GuestReg, GuestStatus
  <2>7. QED
    BY <2>1, <2>4, <2>5, <2>6, SameIsa DEF Guest!ExitCall
<1>3. QED
  BY <1>1, <1>2

\* The label EXIT is the guest's return to the sentinel behind the text.
LEMMA ExitLabelReturns == ASSUME RInv, Followed, RunExitLabel PROVE Guest!ReturnToBase
<1>1. mode = "code" /\ at = WordCount /\ ctx \in Context
  BY DEF RunExitLabel, RInv, IInv, TypeOK
<1>2. mode' = "returned" /\ ctx' = [ctx EXCEPT !.reg = Stored] /\ at' = at /\ prog' = prog
  BY DEF RunExitLabel, translation
<1>3. ctx'.reg = Stored /\ ctx'.mem = ctx.mem
  BY <1>1, <1>2 DEF Context
<1>4. GuestCtx' = GuestCtx /\ GuestStatus = "running" /\ GuestStatus' = "returned"
  BY <1>1, <1>2, <1>3 DEF Followed, GuestCtx, RunningCtx, GuestPc, GuestReg, GuestStatus
<1>5. GuestCtx.pc = TextEnd
  BY <1>1 DEF Followed, GuestCtx, RunningCtx, GuestPc, TextEnd
<1>6. QED
  BY <1>2, <1>4, <1>5 DEF Guest!ReturnToBase

\* An instruction interpreted in the fallback is the guest's.
LEMMA FallbackExecutes == ASSUME RInv, Followed, FallbackStep PROVE Guest!Execute
<1>1. mode = "fallback" /\ InText(ctx.pc) /\ at = SlotOf(ctx.pc) /\ ctx \in Context
  BY DEF FallbackStep, Slot, RInv, IInv, PlaceOK, TypeOK
<1>2. ctx.pc \in Word
  BY <1>1 DEF Context
<1>3. at \in Index /\ Addr(at) = ctx.pc
  BY <1>1, <1>2, SlotAddr
<1>4. prog[at] \in Instr
  BY <1>3 DEF RInv, IInv, TypeOK
<1>5. ~ Exits(prog[at], ctx) /\ ctx' \in Step(prog[at], ctx) /\ mode' = mode /\ prog' = prog
  BY DEF FallbackStep, translation
<1>6. ctx' \in Context
  BY <1>1, <1>4, <1>5, StepType
<1>7. GuestCtx = ctx /\ GuestCtx' = ctx'
  BY <1>1, <1>5, <1>6 DEF Followed, GuestCtx, RunningCtx, GuestPc, GuestReg, Context
<1>8. GuestStatus = "running" /\ GuestStatus' = "running"
  BY <1>1, <1>5 DEF GuestStatus
<1>9. ~ LinksItsBase(prog[at])
  BY DEF FallbackStep, PartIf, Followed
<1>10. ctx' \in Guest!Taken(prog[at], ctx)
  BY <1>1, <1>4, <1>5, <1>9, StepTaken
<1>11. QED
  BY <1>3, <1>4, <1>5, <1>7, <1>8, <1>10, ExecuteForm

\* Every step is an instruction, an exit call or a return of the abstract machine, or
\* nothing the guest sees.
LEMMA RefinesStep == NoClobber /\ RInv /\ [Next]_vars => [Guest!Next]_(Guest!vars)
<1> SUFFICES ASSUME NoClobber, RInv, [Next]_vars
             PROVE  Guest!Next \/ UNCHANGED Guest!vars
  OBVIOUS
<1>0. \/ parted' = parted
      \/ /\ parted = <<>> /\ parted' = <<RunningCtx>>
         /\ mode \in {"code", "fallback"} /\ mode' = mode /\ prog' = prog
  BY PartedStep DEF RInv, IInv
<1>1. CASE parted # <<>>
  <2>1. parted' = parted
    BY <1>0, <1>1
  <2>2. prog' = prog
    BY DEF Next, vars, translation, emitInstruction, Start, Dispatch, RunAssign, RunStoreOrNop,
       RunInvalid, RunBranch, RunJal, RunJalr, RunEcall, RunExitCall, RunExitLabel,
       FallbackStep, FallbackExitCall, FallbackLeave
  <2>3. QED
    BY <1>1, <2>1, <2>2 DEF Guest!vars, GuestCtx, GuestStatus
<1>2. CASE parted = <<>> /\ parted' # <<>>
  <2>1. parted' = <<RunningCtx>> /\ mode \notin {"exited", "returned"} /\ prog' = prog
    BY <1>0, <1>2
  <2>2. GuestCtx = RunningCtx /\ GuestCtx' = RunningCtx
    BY <1>2, <2>1 DEF GuestCtx
  <2>3. GuestStatus = "running" /\ GuestStatus' = "running"
    BY <1>2, <2>1 DEF GuestStatus
  <2>4. QED
    BY <2>1, <2>2, <2>3 DEF Guest!vars
<1>3. CASE Followed
  <2>1. CASE emitInstruction \/ Start \/ Dispatch \/ FallbackLeave
    <3>1. /\ GuestPc' = GuestPc /\ GuestReg' = GuestReg /\ ctx'.mem = ctx.mem
          /\ GuestStatus' = GuestStatus /\ prog' = prog
      BY <2>1, Unseen
    <3>2. QED
      BY <1>3, <3>1 DEF Guest!vars, Followed, GuestCtx, RunningCtx
  <2>2. CASE RunAssign \/ RunStoreOrNop \/ RunInvalid \/ RunBranch \/ RunJal \/ RunJalr
             \/ RunEcall \/ FallbackStep
    BY <1>3, <2>2, AssignExecutes, StoreExecutes, BranchExecutes, JalExecutes, JalrExecutes,
       EcallExecutes, FallbackExecutes DEF Guest!Next
  <2>3. CASE RunExitCall \/ FallbackExitCall
    BY <1>3, <2>3, ExitCallExits DEF Guest!Next
  <2>4. CASE RunExitLabel
    BY <1>3, <2>4, ExitLabelReturns DEF Guest!Next
  <2>5. CASE UNCHANGED vars
    <3>1. prog' = prog /\ mode' = mode /\ at' = at /\ ctx' = ctx /\ host' = host
      BY <2>5 DEF vars, translation
    <3>2. GuestCtx' = GuestCtx /\ GuestStatus' = GuestStatus
      BY <1>3, <3>1 DEF Followed, GuestCtx, RunningCtx, GuestPc, GuestReg, GuestStatus, Stored, Get
    <3>3. QED
      BY <3>1, <3>2 DEF Guest!vars
  <2>6. QED
    BY <2>1, <2>2, <2>3, <2>4, <2>5, Zenon DEF Next
<1>4. QED
  BY <1>1, <1>2, <1>3 DEF Followed

\* The translated program implements the abstract machine for every text, pinning, profile
\* and harvest and under all options: with every constant written for a register, every
\* operand swapped, every jump followed by label, prediction, chained or looped dispatch,
\* and every stretch run by the fallback, the guest sees its own instructions in their
\* order, up to the first one that emitted code and the interpreter run differently: an
\* expression worth another value (REM on overflow), or a JALR in the fallback that links
\* into its base.  What else can break it is the printf of indirect_profiling_check
\* (RuntimeEmitter.cpp) over a caller-saved register that holds a guest register.
THEOREM TranslatedImplementsGuest == NoClobber => (Spec => ImplementsGuest)
<1>1. NoClobber /\ RInv /\ [Next]_vars => [Guest!Next]_(Guest!vars)
  BY RefinesStep
<1>2. ASSUME NoClobber PROVE Spec => ImplementsGuest
  <2>1. RInv /\ [Next]_vars => [Guest!Next]_(Guest!vars)
    BY <1>1, <1>2
  <2>2. QED
    BY <2>1, RInvariant, RefinesInit, PTL DEF Spec, ImplementsGuest, Guest!Spec
<1>3. QED
  BY <1>2

\* Starting, dispatching, entering the fallback and leaving it lose no guest register
\* (emitRegisterStore and emitRegisterLoad in RuntimeEmitter.cpp), however they follow
\* each other, under the same condition.
THEOREM RegistersSurvive == NoClobber => (Spec => RegistersSurviveDispatch)
<1> DEFINE A == (mode \in {"emit", "dispatch"} \/ (mode = "fallback" /\ mode' # "fallback"))
                => (GuestReg' = GuestReg)
<1>1. ASSUME NoClobber PROVE Spec => RegistersSurviveDispatch
  <2>1. RInv /\ [Next]_vars => [A]_vars
    <3> SUFFICES ASSUME RInv, Next,
                        mode \in {"emit", "dispatch"} \/ (mode = "fallback" /\ mode' # "fallback")
                 PROVE  GuestReg' = GuestReg
      OBVIOUS
    <3>1. CASE emitInstruction \/ Start \/ Dispatch \/ FallbackLeave
      BY <1>1, <3>1, Unseen
    <3>2. CASE FallbackExitCall
      BY <3>2 DEF FallbackExitCall, GuestReg
    <3>3. CASE FallbackStep
      BY <3>3 DEF FallbackStep
    <3>4. CASE RunAssign \/ RunStoreOrNop \/ RunInvalid \/ RunBranch \/ RunJal \/ RunJalr
               \/ RunEcall \/ RunExitCall \/ RunExitLabel
      BY <3>4 DEF RunAssign, RunStoreOrNop, RunInvalid, RunBranch, RunJal, RunJalr,
                  RunEcall, RunExitCall, RunExitLabel, InCode
    <3>5. QED
      BY <3>1, <3>2, <3>3, <3>4, Zenon DEF Next
  <2>2. QED
    BY <2>1, RInvariant, PTL DEF Spec, RegistersSurviveDispatch
<1>2. QED
  BY <1>1

=============================================================================
