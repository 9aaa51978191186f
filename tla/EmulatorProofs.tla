--------------------------- MODULE EmulatorProofs ---------------------------
(***************************************************************************)
(* Proofs about Emulator for every text with any gaps, every register set, *)
(* word width, memory size and BASE_RA that satisfy its assumptions, and   *)
(* for each of the four builds: what the emulator does is what the         *)
(* abstract machine may do.                                                *)
(***************************************************************************)
EXTENDS Emulator, GuestIsaProofs, TLAPS

\* The text in memory is still the program.
TextIntact ==
    /\ prog \in Programs
    /\ \A k \in Index : Fetch(ctx.mem, Addr(k)) = prog[k]

\* Once decoded, the vector is the program, with INVALID in the gaps.
VectorFilled ==
    build \notin FromMemory /\ phase # "decode" =>
        instructions = [k \in Index |-> IF k \in Gaps THEN NoInstr ELSE prog[k]]

\* Which build is in which phase, and how far the guest is then.
PhaseOK ==
    /\ phase = "decode" => build \notin FromMemory /\ status = "running"
    /\ phase = "check" => build # "threaded" /\ status = "running"

\* A round begins inside of the guest's memory, and one that ends it does so there.
RoundOK ==
    build # "threaded" /\ status \in {"running", "wild"} /\ phase # "check" => ctx.pc < MemSize

\* A guest that is still followed is in its text or at BASE_RA.
Followed == left = <<>> => InText(ctx.pc) \/ ctx.pc = BaseRa

IInv == TypeOK /\ TextIntact /\ VectorFilled /\ PhaseOK /\ RoundOK /\ Followed

-----------------------------------------------------------------------------
\* Addresses of the text are in the memory, and BASE_RA is none of them.
LEMMA TextInMemory ==
    /\ \A pc \in Word : InText(pc) => pc < MemSize
    /\ ~ InText(BaseRa) /\ ~ BaseRa < MemSize
    /\ \A k \in Index : Addr(k) < MemSize
<1>1. /\ TextStart \in Nat /\ WordCount \in Nat /\ MemSize \in Nat
      /\ TextStart + 4 * WordCount <= MemSize
  BY EmulatorAssumption, WordAssumption DEF TextEnd, Addr
<1>2. \A k \in Index : Addr(k) < MemSize
  BY <1>1 DEF Index, Addr
<1>3. \A pc \in Word : InText(pc) => pc < MemSize
  BY <1>2, SlotAddr
<1>4. BaseRa \in Word /\ BaseRa \in Nat /\ BaseRa >= MemSize
  BY EmulatorAssumption, WordArith DEF Word
<1>5. QED
  BY <1>1, <1>2, <1>3, <1>4

\* An entry of the vector that nothing was decoded into is an instruction.
LEMMA NoInstrType == Programs # {} => NoInstr \in Instr
<1> SUFFICES ASSUME NEW p \in Programs PROVE NoInstr \in Instr
  OBVIOUS
<1>1. 0 \in Index /\ 0 \in Reg /\ 0 \in Word
  BY WordAssumption, WordArith DEF Index
<1>2. p[0].op \in Op
  BY <1>1, EmulatorAssumption DEF Instr
<1>3. (CHOOSE op \in Op : TRUE) \in Op
  BY <1>2
<1>4. QED
  BY <1>1, <1>3 DEF NoInstr, Instr, Types

\* What is executed is an instruction; as long as the guest is in its text, it
\* does what the program's instruction at pc does.
LEMMA InstructionAtPc ==
    ASSUME IInv, Running("run"), Executable(ctx.pc)
    PROVE  /\ Instruction(ctx.pc) \in Instr
           /\ left = <<>> =>
                /\ InText(ctx.pc) /\ SlotOf(ctx.pc) \in Index
                /\ Step(Instruction(ctx.pc), ctx) = Step(prog[SlotOf(ctx.pc)], ctx)
                /\ Exits(Instruction(ctx.pc), ctx) = Exits(prog[SlotOf(ctx.pc)], ctx)
<1> DEFINE pc == ctx.pc
           slot == SlotOf(pc)
<1>1. /\ ctx \in Context /\ pc \in Word /\ ctx.mem \in Mem
      /\ prog \in [Index -> Instr] /\ instructions \in [Index -> Instr]
      /\ status = "running" /\ phase = "run"
  BY DEF IInv, TypeOK, Context, Running
<1>2. InText(pc) => slot \in Index /\ Addr(slot) = pc
  BY <1>1, SlotAddr
<1>3. CASE build \in FromMemory
  <2>1. Instruction(pc) = Fetch(ctx.mem, pc)
    BY <1>3 DEF Instruction
  <2>2. Instruction(pc) \in Instr
    BY <1>1, <2>1, EmulatorAssumption
  <2>3. left = <<>> => InText(pc)
    <3>1. pc < MemSize
      BY <1>1, <1>3 DEF IInv, RoundOK, FromMemory
    <3>2. QED
      BY <3>1, TextInMemory DEF IInv, Followed
  <2>4. InText(pc) => Instruction(pc) = prog[slot]
    BY <1>2, <2>1 DEF IInv, TextIntact
  <2>5. QED
    BY <1>2, <2>2, <2>3, <2>4
<1>4. CASE build \notin FromMemory
  <2>1. InText(pc)
    BY <1>4 DEF Executable
  <2>2. Instruction(pc) = IF slot \in Gaps THEN NoInstr ELSE prog[slot]
    BY <1>1, <1>2, <1>4, <2>1 DEF Instruction, IInv, VectorFilled
  <2>3. Instruction(pc) \in Instr
    BY <1>1, <1>2, <1>4, <2>1 DEF Instruction
  <2>4. slot \in Gaps => prog[slot].type = "INVALID" /\ NoInstr.type = "INVALID"
    BY EmulatorAssumption DEF IInv, TextIntact, Invalid, NoInstr
  <2>5. \A i, j : i.type = "INVALID" /\ j.type = "INVALID" =>
            Step(i, ctx) = Step(j, ctx) /\ Exits(i, ctx) = Exits(j, ctx)
    BY DEF Step, Exec, Exits
  <2>6. QED
    BY <1>2, <2>1, <2>2, <2>3, <2>4, <2>5
<1>5. QED
  BY <1>3, <1>4

-----------------------------------------------------------------------------
\* The initial state satisfies the invariant.
LEMMA InitInv == Init => IInv
<1> SUFFICES ASSUME Init PROVE IInv
  OBVIOUS
<1>1. /\ prog \in Programs /\ prog \in [Index -> Instr]
      /\ build \in Builds
  BY EmulatorAssumption DEF Init
<1>2. instructions \in [Index -> Instr]
  BY <1>1, NoInstrType DEF Init
<1>3. PICK k \in Index : ctx.pc = Addr(k)
  BY EmulatorAssumption DEF Init
<1>4. k \in 0 .. WordCount
  BY WordAssumption DEF Index
<1>5. ctx \in Context
  BY <1>3, <1>4, SlotAddr, EmulatorAssumption DEF Init, Context
<1>6. InText(ctx.pc) /\ ctx.pc < MemSize
  BY <1>3, SlotAddr, TextInMemory
<1>7. TypeOK
  BY <1>1, <1>2, <1>5 DEF Init, TypeOK
<1>8. TextIntact /\ PhaseOK /\ RoundOK /\ Followed
  BY <1>1, <1>6 DEF Init, TextIntact, PhaseOK, RoundOK, Followed
<1>9. VectorFilled
  BY DEF Init, VectorFilled
<1>10. QED
  BY <1>7, <1>8, <1>9 DEF IInv

\* Every step keeps the invariant.
LEMMA StepInv == IInv /\ [Next]_vars => IInv'
<1> SUFFICES ASSUME IInv, [Next]_vars PROVE IInv'
  OBVIOUS
<1>0. TypeOK /\ TextIntact /\ VectorFilled /\ PhaseOK /\ RoundOK /\ Followed
  BY DEF IInv
<1>1. CASE Predecode
  <2>1. instructions' \in [Index -> Instr]
    BY <1>0, <1>1, NoInstrType DEF Predecode, TextIntact, TypeOK
  <2>2. TypeOK' /\ TextIntact' /\ VectorFilled'
    BY <1>0, <1>1, <2>1 DEF Predecode, TypeOK, TextIntact, VectorFilled
  <2>3. PhaseOK' /\ RoundOK' /\ Followed'
    BY <1>0, <1>1 DEF Predecode, PhaseOK, RoundOK, Followed, FromMemory
  <2>4. QED
    BY <2>2, <2>3 DEF IInv
<1>2. CASE Run
  <2> DEFINE i == Instruction(ctx.pc)
  <2>1. i \in Instr /\ ctx \in Context /\ ctx.mem \in Mem
    BY <1>0, <1>2, InstructionAtPc DEF Run, TypeOK, Context
  <2>2. ctx' \in Step(i, ctx)
    BY <1>2 DEF Run
  <2> HIDE DEF i
  <2>3. ctx' \in Context
    BY <2>1, <2>2, StepType
  <2>4. \/ ctx'.mem = ctx.mem
        \/ \E op \in Op, a, v \in Word : ctx'.mem = Store(op, ctx.mem, a, v)
        \/ ctx'.mem \in KernelWrites(ctx.mem)
    BY <2>1, <2>2, StepMemory
  <2>5. \A k \in Index : Fetch(ctx'.mem, Addr(k)) = Fetch(ctx.mem, Addr(k))
    BY <2>1, <2>4, TextAssumption
  <2>6. TextIntact'
    BY <1>0, <1>2, <2>5 DEF Run, TextIntact
  <2>7. TypeOK'
    BY <1>0, <1>2, <2>3 DEF Run, TypeOK
  <2>8. VectorFilled' /\ PhaseOK' /\ RoundOK'
    BY <1>0, <1>2 DEF Run, Running, VectorFilled, PhaseOK, RoundOK
  <2>9. Followed'
    BY <1>0, <1>2 DEF Run, Followed, Leaves
  <2>10. QED
    BY <2>6, <2>7, <2>8, <2>9 DEF IInv
<1>3. CASE ExitCall \/ IndexOutside
  BY <1>0, <1>3 DEF ExitCall, IndexOutside, Running, IInv, TypeOK, TextIntact, VectorFilled,
                    PhaseOK, RoundOK, Followed
<1>4. CASE Check
  <2>1. status' \in {"running", "returned", "outOfBounds"} /\ (status' = "running" => ctx.pc < MemSize)
    <3>1. ctx.pc \in Nat /\ MemSize \in Nat
      BY <1>0, EmulatorAssumption, WordArith DEF TypeOK, Context, Word
    <3>2. QED
      BY <1>4, <3>1 DEF Check, Checked
  <2>2. QED
    BY <1>0, <1>4, <2>1 DEF Check, Running, IInv, TypeOK, TextIntact, VectorFilled,
                            PhaseOK, RoundOK, Followed
<1>5. CASE UNCHANGED vars
  BY <1>0, <1>5 DEF vars, IInv, TypeOK, TextIntact, VectorFilled, PhaseOK, RoundOK, Followed
<1>6. QED
  BY <1>1, <1>2, <1>3, <1>4, <1>5 DEF Next

\* The inductive invariant holds in every reachable state of every build.
THEOREM Invariant == Spec => []IInv
<1>1. QED
  BY InitInv, StepInv, PTL DEF Spec

\* The emulator's state is well typed: pc and the registers stay words, what was
\* decoded are instructions, the history holds at most one context.
THEOREM TypeCorrect == Spec => []TypeOK
<1>1. IInv => TypeOK
  BY DEF IInv
<1>2. QED
  BY <1>1, Invariant, PTL

\* In the builds with a main loop a return to BASE_RA is never taken for the address of an
\* instruction, as main.cpp:97 has it; only the threaded build, which does not come back
\* to the loop, can index its vector with it.
THEOREM LoopEndsOnReturn == Spec => [](build # "threaded" => ReturnEndsProgram)
<1>1. IInv => (build # "threaded" => ReturnEndsProgram)
  BY TextInMemory DEF IInv, RoundOK, PhaseOK, ReturnEndsProgram
<1>2. QED
  BY <1>1, Invariant, PTL

-----------------------------------------------------------------------------
\* The abstract machine is built from the same instructions.
LEMMA SameIsa ==
    /\ \A i \in Instr : \A c : Guest!Step(i, c) = Step(i, c)
    /\ \A i, c : Guest!Exits(i, c) = Exits(i, c)
    /\ \A pc : Guest!SlotOf(pc) = SlotOf(pc) /\ Guest!InText(pc) = InText(pc)
    /\ \A i \in Instr : \A c : Guest!Taken(i, c) = Step(i, c)
<1>1. \A x, y : Guest!Plus(x, y) = Plus(x, y)
  BY Zenon DEF Guest!Plus, Plus
<1>2. \A c, r, v : Guest!Put(c, r, v) = Put(c, r, v)
  BY Zenon DEF Guest!Put, Put
<1>3. \A c : Guest!Finish(c) = Finish(c)
  BY Zenon DEF Guest!Finish, Finish, Guest!Plus, Plus
<1>4. ASSUME NEW i \in Instr, NEW c PROVE Guest!Exec(i, c) = Exec(i, c)
  <2>1. Guest!ExecOp(i, c) = ExecOp(i, c) /\ Guest!ExecImm(i, c) = ExecImm(i, c)
    BY Zenon, <1>2 DEF Guest!ExecOp, ExecOp, Guest!ExecImm, ExecImm
  <2>2. Guest!ExecAddi(i, c) = ExecAddi(i, c)
    BY Zenon, <1>1, <1>2 DEF Guest!ExecAddi, ExecAddi
  <2>3. Guest!ExecLoad(i, c) = ExecLoad(i, c)
    BY Zenon, <1>1, <1>2 DEF Guest!ExecLoad, ExecLoad
  <2>4. Guest!ExecStore(i, c) = ExecStore(i, c)
    BY Zenon DEF Guest!ExecStore, ExecStore, Guest!Plus, Plus
  <2>5. Guest!ExecBranch(i, c) = ExecBranch(i, c)
    BY Zenon DEF Guest!ExecBranch, ExecBranch
  <2>6. Guest!ExecJal(i, c) = ExecJal(i, c)
    BY Zenon DEF Guest!ExecJal, ExecJal, Guest!Put, Put, Guest!Plus, Plus
  <2>7. Guest!ExecJalr(i, c) = ExecJalr(i, c)
    BY Zenon DEF Guest!ExecJalr, ExecJalr, Guest!Put, Put, Guest!Plus, Plus
  <2>8. Guest!ExecUpper(i, c) = ExecUpper(i, c)
    BY Zenon DEF Guest!ExecUpper, ExecUpper, Guest!Put, Put, Guest!Plus, Plus
  <2>9. Guest!ExecLr(i, c) = ExecLr(i, c)
    BY Zenon, <1>2 DEF Guest!ExecLr, ExecLr
  <2>10. Guest!ExecSc(i, c) = ExecSc(i, c)
    BY Zenon, <1>2 DEF Guest!ExecSc, ExecSc
  <2>11. Guest!HandleSyscall(c) = HandleSyscall(c)
    BY Zenon DEF Guest!HandleSyscall, HandleSyscall
  <2>12. i.type \in Types
    BY DEF Instr
  <2>13. QED
    BY <2>1, <2>2, <2>3, <2>4, <2>5, <2>6, <2>7, <2>8, <2>9, <2>10, <2>11, <2>12
       DEF Guest!Exec, Exec, Types
<1>5. \A i \in Instr : \A c : Guest!Step(i, c) = Step(i, c)
  BY <1>3, <1>4 DEF Guest!Step, Step
<1>6. \A i, c : Guest!Exits(i, c) = Exits(i, c)
  BY Zenon DEF Guest!Exits, Exits
<1>7. \A pc : Guest!SlotOf(pc) = SlotOf(pc) /\ Guest!InText(pc) = InText(pc)
  BY Zenon DEF Guest!SlotOf, SlotOf, Guest!InText, InText
<1>8. \A i \in Instr : \A c : Guest!Taken(i, c) = Step(i, c)
  BY <1>5 DEF Guest!Taken
<1>9. QED
  BY <1>5, <1>6, <1>7, <1>8

\* The emulator starts as the abstract machine does.
LEMMA RefinesInit == Init => Guest!Init
<1>1. Init => GuestCtx = ctx /\ GuestStatus = "running"
  BY DEF Init, GuestCtx, GuestStatus
<1>2. QED
  BY <1>1 DEF Init, Guest!Init

\* A step of the emulator is an instruction, an exit call or a return of the abstract
\* machine, or nothing the guest sees.
LEMMA RefinesStep == IInv /\ [Next]_vars => [Guest!Next]_(Guest!vars)
<1> SUFFICES ASSUME IInv, [Next]_vars
             PROVE  Guest!Next \/ UNCHANGED Guest!vars
  OBVIOUS
<1>0. TypeOK
  BY DEF IInv
<1>1. prog' = prog
  BY DEF Next, vars, Predecode, Run, ExitCall, IndexOutside, Check
<1>2. CASE left # <<>>
  <2>1. left' = left
    BY <1>2 DEF Next, vars, Predecode, Run, Leaves, ExitCall, IndexOutside, Check
  <2>2. GuestCtx' = GuestCtx /\ GuestStatus' = GuestStatus
    BY <1>2, <2>1 DEF GuestCtx, GuestStatus
  <2>3. QED
    BY <1>1, <2>2 DEF Guest!vars
<1>3. CASE left = <<>>
  <2>0. GuestCtx = ctx
    BY <1>3 DEF GuestCtx
  <2>1. CASE Predecode
    BY <1>1, <1>3, <2>1 DEF Predecode, GuestCtx, GuestStatus, Guest!vars
  <2>2. CASE Run
    <3> DEFINE i == prog[SlotOf(ctx.pc)]
    <3>1. InText(ctx.pc) /\ i \in Instr /\ ~ Exits(i, ctx) /\ ctx' \in Step(i, ctx)
      BY <1>0, <1>3, <2>2, InstructionAtPc DEF Run, TypeOK
    <3>2. GuestStatus = "running" /\ GuestStatus' = "running"
      BY <1>3, <2>2 DEF Run, Running, GuestStatus
    <3>3. GuestCtx' = ctx'
      BY <1>3, <2>2 DEF Run, GuestCtx
    <3>4. Guest!Execute
      BY <1>1, <2>0, <3>1, <3>2, <3>3, SameIsa DEF Guest!Execute
    <3>5. QED
      BY <3>4 DEF Guest!Next
  <2>3. CASE ExitCall
    <3>1. InText(ctx.pc) /\ Exits(prog[SlotOf(ctx.pc)], ctx)
      BY <1>3, <2>3, InstructionAtPc DEF ExitCall
    <3>2. GuestStatus = "running" /\ GuestStatus' = "exited" /\ GuestCtx' = GuestCtx
      BY <1>3, <2>3 DEF ExitCall, Running, GuestStatus, GuestCtx
    <3>3. Guest!ExitCall
      BY <1>1, <2>0, <3>1, <3>2, SameIsa DEF Guest!ExitCall
    <3>4. QED
      BY <3>3 DEF Guest!Next
  <2>4. CASE IndexOutside
    <3>1. GuestCtx' = GuestCtx /\ GuestStatus' = GuestStatus
      BY <1>3, <2>4 DEF IndexOutside, Running, GuestCtx, GuestStatus
    <3>2. QED
      BY <1>1, <3>1 DEF Guest!vars
  <2>5. CASE Check
    <3>1. GuestCtx' = GuestCtx /\ GuestStatus = "running" /\ ctx' = ctx
      BY <1>3, <2>5 DEF Check, Running, GuestCtx, GuestStatus
    <3>2. CASE ctx.pc = BaseRa
      <4>1. GuestStatus' = "returned"
        BY <1>3, <2>5, <3>2 DEF Check, Checked, GuestStatus
      <4>2. Guest!ReturnToBase
        BY <1>1, <2>0, <3>1, <3>2, <4>1 DEF Guest!ReturnToBase
      <4>3. QED
        BY <4>2 DEF Guest!Next
    <3>3. CASE ctx.pc # BaseRa
      <4>1. GuestStatus' = "running"
        BY <1>3, <2>5, <3>3 DEF Check, Checked, GuestStatus
      <4>2. QED
        BY <1>1, <3>1, <4>1 DEF Guest!vars
    <3>4. QED
      BY <3>2, <3>3
  <2>6. CASE UNCHANGED vars
    BY <2>6 DEF vars, GuestCtx, GuestStatus, Guest!vars
  <2>7. QED
    BY <2>1, <2>2, <2>3, <2>4, <2>5, <2>6 DEF Next
<1>4. QED
  BY <1>2, <1>3

\* Every build of the emulator implements the abstract machine: whatever the gaps between
\* text sections, with or without a vector decoded in advance, and with the checks between
\* two instructions or without them, the guest sees its own instructions in their order, its
\* exit call and its return to BASE_RA, for as long as it stays in its text.
THEOREM EmulatorImplementsGuest == Spec => ImplementsGuest
<1>1. QED
  BY Invariant, RefinesInit, RefinesStep, PTL DEF Spec, ImplementsGuest, Guest!Spec

=============================================================================
