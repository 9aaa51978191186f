------------------------------ MODULE GuestIsa ------------------------------
(***************************************************************************)
(* What one guest instruction does to the machine: the interpreter of      *)
(* emulator/Interpreter.cpp (runInstructionPredecoded; the switch and the  *)
(* threaded interpreter execute the same statements per instruction type). *)
(*                                                                         *)
(* A context is the record [pc, reg, mem] of struct Context.  Words, the   *)
(* memory and the arithmetic of single operators are parameters, so that   *)
(* control, register traffic and the order of the writes remain.           *)
(***************************************************************************)
EXTENDS Integers

CONSTANTS
    WordMod,           \* 2^32
    Reg, A0, A7,       \* register numbers; 0 is x0
    Mem,               \* contents of the guest memory
    Op,                \* operators of ALU, branch, load and store instructions
    Alu(_, _, _),      \* op, two operands: the value an ALU instruction computes
    Cond(_, _, _),     \* op, two operands: whether a branch is taken
    Load(_, _, _),     \* op, memory, address: the (extended) value read
    Store(_, _, _, _), \* op, memory, address, value: the memory written
    ExitNums,          \* syscall numbers 93 and 94: exit and exit_group
    SysResults,        \* values a system call may leave in a0
    KernelWrites(_),   \* the memories a system call may leave behind
    TextStart,         \* first address of the text
    WordCount          \* number of instructions of the text

Word == 0 .. WordMod - 1

Index == 0 .. WordCount - 1

Addr(k) == TextStart + 4 * k

TextEnd == Addr(WordCount)

Types == {"OP", "IMM", "ADDI", "LOAD", "STORE", "BRANCH", "JAL", "JALR",
          "LUI", "AUIPC", "ECALL", "LR", "SC", "NOP", "INVALID"}

\* struct Instruction after decode(): immediates are words (sign-extended, and
\* shifted by 12 for LUI and AUIPC).  NOP stands for EBREAK and FENCE.
Instr == [type : Types, op : Op, rd : Reg, rs1 : Reg, rs2 : Reg, imm : Word]

Context == [pc : Word, reg : [Reg -> Word], mem : Mem]

ASSUME WordAssumption ==
    /\ WordMod \in Nat
    /\ Reg \subseteq Nat /\ 0 \in Reg
    /\ A0 \in Reg \ {0} /\ A7 \in Reg \ {0} /\ A0 # A7
    /\ TextStart \in Nat /\ WordCount \in Nat \ {0}
    /\ TextEnd + 4 < WordMod

ASSUME ClosureAssumption ==
    /\ \A op \in Op, x, y \in Word : Alu(op, x, y) \in Word
    /\ \A op \in Op, x, y \in Word : Cond(op, x, y) \in BOOLEAN
    /\ \A op \in Op, m \in Mem, x \in Word : Load(op, m, x) \in Word
    /\ \A op \in Op, m \in Mem, x, y \in Word : Store(op, m, x, y) \in Mem
    /\ SysResults \subseteq Word
    /\ \A m \in Mem : KernelWrites(m) \subseteq Mem

Plus(x, y) == (x + y) % WordMod

-----------------------------------------------------------------------------
Put(c, rd, v) == [c EXCEPT !.reg[rd] = v]

\* ADD .. SLTU and MUL .. REMU
ExecOp(i, c) == Put(c, i.rd, Alu(i.op, c.reg[i.rs1], c.reg[i.rs2]))

\* XORI .. SLTIU; for the shifts imm is the shift amount
ExecImm(i, c) == Put(c, i.rd, Alu(i.op, c.reg[i.rs1], i.imm))

ExecAddi(i, c) == Put(c, i.rd, Plus(c.reg[i.rs1], i.imm))

ExecLoad(i, c) == Put(c, i.rd, Load(i.op, c.mem, Plus(c.reg[i.rs1], i.imm)))

ExecStore(i, c) ==
    [c EXCEPT !.mem = Store(i.op, c.mem, Plus(c.reg[i.rs1], i.imm), c.reg[i.rs2])]

\* A taken branch leaves pc four short of its target: the common tail adds 4.
ExecBranch(i, c) ==
    IF Cond(i.op, c.reg[i.rs1], c.reg[i.rs2])
    THEN [c EXCEPT !.pc = (@ + i.imm - 4) % WordMod]
    ELSE c

ExecJal(i, c) ==
    [Put(c, i.rd, Plus(c.pc, 4)) EXCEPT !.pc = (@ + i.imm - 4) % WordMod]

\* The link is written before rs1 is read.
ExecJalr(i, c) ==
    LET linked == Put(c, i.rd, Plus(c.pc, 4))
    IN  [linked EXCEPT !.pc = (i.imm + linked.reg[i.rs1] - 4) % WordMod]

ExecUpper(i, c) ==
    Put(c, i.rd, IF i.type = "LUI" THEN i.imm ELSE Plus(c.pc, i.imm))

\* LR.W is a plain load, SC.W a plain store that always succeeds.
ExecLr(i, c) == Put(c, i.rd, Load(i.op, c.mem, c.reg[i.rs1]))

ExecSc(i, c) ==
    Put([c EXCEPT !.mem = Store(i.op, c.mem, c.reg[i.rs1], c.reg[i.rs2])], i.rd, 0)

\* Syscall::handle for a call that returns: a0 and the memory are all it changes.
HandleSyscall(c) ==
    UNION {{[c EXCEPT !.reg[A0] = r, !.mem = m] : m \in KernelWrites(c.mem)} : r \in SysResults}

Exec(i, c) ==
    CASE i.type = "OP"     -> {ExecOp(i, c)}
      [] i.type = "IMM"    -> {ExecImm(i, c)}
      [] i.type = "ADDI"   -> {ExecAddi(i, c)}
      [] i.type = "LOAD"   -> {ExecLoad(i, c)}
      [] i.type = "STORE"  -> {ExecStore(i, c)}
      [] i.type = "BRANCH" -> {ExecBranch(i, c)}
      [] i.type = "JAL"    -> {ExecJal(i, c)}
      [] i.type = "JALR"   -> {ExecJalr(i, c)}
      [] i.type \in {"LUI", "AUIPC"} -> {ExecUpper(i, c)}
      [] i.type = "LR"     -> {ExecLr(i, c)}
      [] i.type = "SC"     -> {ExecSc(i, c)}
      [] i.type = "ECALL"  -> HandleSyscall(c)
      [] i.type \in {"NOP", "INVALID"} -> {c}

\* Mutant: pc is wider than a word.
FinishWide(c) == [c EXCEPT !.pc = @ + 4, !.reg[0] = 0]

\* The common tail of every instruction.
Finish(c) == [c EXCEPT !.pc = Plus(@, 4), !.reg[0] = 0]

\* The contexts one interpreted instruction may lead to.
Step(i, c) == {Finish(d) : d \in Exec(i, c)}

\* The instruction ends the process (Syscall::_exit does not return).
Exits(i, c) == i.type = "ECALL" /\ c.reg[A7] \in ExitNums

\* The dispatch index of an address, as an unsigned difference.
SlotOf(pc) == ((pc - TextStart) % WordMod) \div 4

InText(pc) == pc % 4 = TextStart % 4 /\ SlotOf(pc) < WordCount
=============================================================================
