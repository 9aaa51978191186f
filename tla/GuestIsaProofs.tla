-------------------------- MODULE GuestIsaProofs --------------------------
(***************************************************************************)
(* What the proofs about the emulator and the translated program share:    *)
(* the arithmetic of words and text addresses, and what one interpreted    *)
(* instruction may do to a context.                                        *)
(***************************************************************************)
EXTENDS GuestIsa, TLAPS

\* Arithmetic of words.
LEMMA WordArith ==
    /\ WordMod \in Nat \ {0}
    /\ 0 \in Word
    /\ \A x \in Int : x % WordMod \in Word
    /\ \A x, y \in Word : Plus(x, y) \in Word
    /\ \A x \in Word : Plus(x, 4) \in Word
    /\ \A x \in Word : Plus(0, x) = x
    /\ Word \subseteq Int
<1>1. WordMod \in Nat \ {0}
  BY WordAssumption DEF TextEnd, Addr
<1>2. \A x \in Int : x % WordMod \in 0 .. WordMod - 1
  BY <1>1
<1>3. \A x \in 0 .. WordMod - 1 : (0 + x) % WordMod = x
  BY <1>1
<1>4. Word \subseteq Int
  BY DEF Word
<1>5. \A x, y \in Word : Plus(x, y) \in Word /\ Plus(x, 4) \in Word
  BY <1>2, <1>4 DEF Plus, Word
<1>6. QED
  BY <1>1, <1>2, <1>3, <1>4, <1>5 DEF Word, Plus

\* Addresses of the text and their dispatch slots are in one-to-one correspondence.
LEMMA SlotAddr ==
    /\ \A k \in 0 .. WordCount : Addr(k) \in Word
    /\ \A k \in Index : InText(Addr(k)) /\ SlotOf(Addr(k)) = k
    /\ \A pc \in Word : SlotOf(pc) \in Nat
    /\ \A pc \in Word : InText(pc) => SlotOf(pc) \in Index /\ Addr(SlotOf(pc)) = pc
    /\ SlotOf(TextEnd) = WordCount /\ TextEnd = Addr(WordCount)
<1>1. /\ WordMod \in Nat \ {0} /\ TextStart \in Nat /\ WordCount \in Nat \ {0}
      /\ TextStart + 4 * WordCount + 4 < WordMod
  BY WordArith, WordAssumption DEF TextEnd, Addr
<1>2. \A d \in 0 .. WordMod - 1 : d % WordMod = d
  BY <1>1
<1>3. \A k \in 0 .. WordCount : (Addr(k) - TextStart) % WordMod = 4 * k
  BY <1>1, <1>2 DEF Addr
<1>4. ASSUME NEW pc \in Word, InText(pc)
      PROVE  SlotOf(pc) \in Index /\ Addr(SlotOf(pc)) = pc
  <2> DEFINE d == (pc - TextStart) % WordMod
  <2>1. pc \in Nat /\ pc < WordMod
    BY <1>1 DEF Word
  <2>2. d \in Nat /\ d < WordMod
    BY <1>1, <2>1
  <2>3. d \div 4 < WordCount /\ pc % 4 = TextStart % 4
    BY <1>4 DEF InText, SlotOf
  <2>4. pc >= TextStart
    <3> SUFFICES ASSUME pc < TextStart PROVE FALSE
      BY <1>1, <2>1
    <3>1. pc - TextStart + WordMod \in 0 .. WordMod - 1
      BY <1>1, <2>1
    <3>2. d = pc - TextStart + WordMod
      BY <1>1, <2>1, <3>1
    <3> HIDE DEF d
    <3>3. QED
      BY <1>1, <2>1, <2>2, <2>3, <3>2
  <2>5. d = pc - TextStart
    BY <1>1, <1>2, <2>1, <2>4
  <2> HIDE DEF d
  <2>6. d = 4 * (d \div 4) /\ d \div 4 \in Nat
    BY <1>1, <2>1, <2>3, <2>4, <2>5
  <2>7. SlotOf(pc) = d \div 4
    BY DEF SlotOf, d
  <2>8. QED
    BY <1>1, <2>1, <2>3, <2>5, <2>6, <2>7 DEF Index, Addr
<1>5. \A k \in 0 .. WordCount : Addr(k) \in Word /\ SlotOf(Addr(k)) = k
  BY <1>1, <1>3 DEF Word, Addr, SlotOf
<1>6. \A k \in Index : InText(Addr(k))
  BY <1>1, <1>5 DEF InText, Index, Addr
<1>7. \A pc \in Word : SlotOf(pc) \in Nat
  BY <1>1 DEF SlotOf, Word
<1>8. Index \subseteq 0 .. WordCount /\ WordCount \in 0 .. WordCount
  BY <1>1 DEF Index
<1>9. QED
  BY <1>4, <1>5, <1>6, <1>7, <1>8 DEF TextEnd

\* The effect of an instruction, before the common tail, is a context.
LEMMA ExecType ==
    ASSUME NEW i \in Instr, NEW c \in Context
    PROVE  Exec(i, c) \subseteq Context
<1>1. /\ i.op \in Op /\ i.rd \in Reg /\ i.rs1 \in Reg /\ i.rs2 \in Reg
      /\ i.imm \in Word /\ i.type \in Types
  BY DEF Instr
<1>2. c.pc \in Word /\ c.reg \in [Reg -> Word] /\ c.mem \in Mem
  BY DEF Context
<1>3. Word \subseteq Int /\ \A x \in Int : x % WordMod \in Word
  BY WordArith
<1>4. (\A x, y \in Word : Plus(x, y) \in Word) /\ (\A x \in Word : Plus(x, 4) \in Word)
  BY WordArith
<1>5. ASSUME NEW d \in Context, NEW v \in Word PROVE Put(d, i.rd, v) \in Context
  BY <1>1 DEF Put, Context
<1>6. ExecOp(i, c) \in Context /\ ExecImm(i, c) \in Context
  BY <1>1, <1>2, <1>5, ClosureAssumption DEF ExecOp, ExecImm
<1>7. ExecAddi(i, c) \in Context
  BY <1>1, <1>2, <1>4, <1>5 DEF ExecAddi
<1>8. ExecLoad(i, c) \in Context /\ ExecLr(i, c) \in Context
  BY <1>1, <1>2, <1>4, <1>5, ClosureAssumption DEF ExecLoad, ExecLr
<1>9. ExecStore(i, c) \in Context
  BY <1>1, <1>2, <1>4, ClosureAssumption DEF ExecStore, Context
<1>10. ExecBranch(i, c) \in Context
  BY <1>1, <1>2, <1>3 DEF ExecBranch, Context
<1>11. Plus(c.pc, 4) \in Word
  BY <1>2, <1>4
<1>12. ExecJal(i, c) \in Context
  BY <1>1, <1>2, <1>3, <1>5, <1>11 DEF ExecJal, Context
<1>13. ExecJalr(i, c) \in Context
  BY <1>1, <1>2, <1>3, <1>5, <1>11 DEF ExecJalr, Context
<1>14. ExecUpper(i, c) \in Context
  BY <1>1, <1>2, <1>4, <1>5 DEF ExecUpper
<1>15. ExecSc(i, c) \in Context
  <2>1. [c EXCEPT !.mem = Store(i.op, c.mem, c.reg[i.rs1], c.reg[i.rs2])] \in Context
    BY <1>1, <1>2, ClosureAssumption DEF Context
  <2>2. QED
    BY <1>5, <2>1, WordArith DEF ExecSc
<1>16. HandleSyscall(c) \subseteq Context
  <2> SUFFICES ASSUME NEW d \in HandleSyscall(c) PROVE d \in Context
    OBVIOUS
  <2>0. PICK r \in SysResults, m \in KernelWrites(c.mem) :
            d = [c EXCEPT !.reg[A0] = r, !.mem = m]
    BY DEF HandleSyscall
  <2>1. r \in Word /\ m \in Mem /\ A0 \in Reg
    BY <1>2, ClosureAssumption, WordAssumption
  <2>2. QED
    BY <1>2, <2>0, <2>1 DEF Context
<1>17. QED
  BY <1>1, <1>6, <1>7, <1>8, <1>9, <1>10, <1>12, <1>13, <1>14, <1>15, <1>16 DEF Exec, Types

\* An interpreted instruction leads from a context to contexts.
LEMMA StepType ==
    ASSUME NEW i \in Instr, NEW c \in Context
    PROVE  Step(i, c) \subseteq Context
<1>1. ASSUME NEW d \in Context PROVE Finish(d) \in Context
  <2>1. Plus(d.pc, 4) \in Word
    BY WordArith DEF Context
  <2>2. QED
    BY <2>1, WordArith, WordAssumption DEF Finish, Context
<1>2. QED
  BY <1>1, ExecType DEF Step

\* What an interpreted instruction leaves in memory: what it found, what one store
\* writes, or what the kernel writes in a system call.
LEMMA StepMemory ==
    ASSUME NEW i \in Instr, NEW c \in Context, NEW d \in Step(i, c)
    PROVE  \/ d.mem = c.mem
           \/ \E op \in Op, a, v \in Word : d.mem = Store(op, c.mem, a, v)
           \/ d.mem \in KernelWrites(c.mem)
<1>1. /\ i.op \in Op /\ i.rd \in Reg /\ i.rs1 \in Reg /\ i.rs2 \in Reg
      /\ i.imm \in Word /\ i.type \in Types
  BY DEF Instr
<1>2. /\ c \in [pc : Word, reg : [Reg -> Word], mem : Mem]
      /\ c.pc \in Word /\ c.reg \in [Reg -> Word] /\ c.mem \in Mem
  BY DEF Context
<1>3. PICK e \in Exec(i, c) : d = Finish(e)
  BY DEF Step
<1>4. Exec(i, c) \subseteq Context
  BY ExecType
<1>5. d.mem = e.mem
  BY <1>3, <1>4 DEF Finish, Context
<1>6. \A x, y \in Word : Plus(x, y) \in Word
  BY WordArith
<1>7. \A v : Put(c, i.rd, v).mem = c.mem
  BY <1>2 DEF Put
<1>8. CASE e = ExecStore(i, c)
  <2>1. e.mem = Store(i.op, c.mem, Plus(c.reg[i.rs1], i.imm), c.reg[i.rs2])
    BY <1>2, <1>8 DEF ExecStore
  <2>2. Plus(c.reg[i.rs1], i.imm) \in Word /\ c.reg[i.rs2] \in Word
    BY <1>1, <1>2, <1>6
  <2>3. QED
    BY <1>1, <1>5, <2>1, <2>2
<1>9. CASE e = ExecSc(i, c)
  <2>1. e.mem = Store(i.op, c.mem, c.reg[i.rs1], c.reg[i.rs2])
    BY <1>2, <1>9 DEF ExecSc, Put
  <2>2. c.reg[i.rs1] \in Word /\ c.reg[i.rs2] \in Word
    BY <1>1, <1>2
  <2>3. QED
    BY <1>1, <1>5, <2>1, <2>2
<1>10. CASE e \in HandleSyscall(c)
  <2>1. PICK r \in SysResults, m \in KernelWrites(c.mem) :
            e = [c EXCEPT !.reg[A0] = r, !.mem = m]
    BY <1>10 DEF HandleSyscall
  <2>2. e.mem = m
    BY <1>2, <2>1
  <2>3. QED
    BY <1>5, <2>1, <2>2
<1>11. CASE e \in {c, ExecBranch(i, c), ExecJal(i, c), ExecJalr(i, c)}
  <2>1. e.mem = c.mem
    BY <1>2, <1>7, <1>11 DEF ExecBranch, ExecJal, ExecJalr, Put
  <2>2. QED
    BY <1>5, <2>1
<1>12. CASE e \in {ExecOp(i, c), ExecImm(i, c), ExecAddi(i, c), ExecLoad(i, c),
                  ExecUpper(i, c), ExecLr(i, c)}
  BY <1>5, <1>7, <1>12 DEF ExecOp, ExecImm, ExecAddi, ExecLoad, ExecUpper, ExecLr
<1>13. QED
  BY <1>1, <1>3, <1>8, <1>9, <1>10, <1>11, <1>12 DEF Exec, Types

-----------------------------------------------------------------------------
\* The interpreter leaves pc four short of a jump's target; its tail makes up for it.
LEMMA FourShort ==
    \A x, y \in Word : /\ (x + y - 4) % WordMod \in Word
                       /\ (((x + y - 4) % WordMod) + 4) % WordMod = Plus(x, y)
<1>1. WordMod \in Nat /\ 4 < WordMod
  BY WordArith, WordAssumption DEF TextEnd, Addr
<1>2. \A u \in Int : 0 <= u /\ u < WordMod => u % WordMod = u
  BY <1>1
<1>3. \A u \in Int : WordMod <= u /\ u < WordMod + WordMod => u % WordMod = u - WordMod
  BY <1>1
<1>4. \A u \in Int : 0 - WordMod <= u /\ u < 0 => u % WordMod = u + WordMod
  BY <1>1
<1>5. ASSUME NEW z \in Nat, z < WordMod + WordMod
      PROVE  (((z - 4) % WordMod) + 4) % WordMod = z % WordMod
  <2>1. CASE z < 4
    <3>1. (z - 4) % WordMod = z - 4 + WordMod
      BY <1>1, <1>4, <2>1
    <3>2. (z + WordMod) % WordMod = z /\ z % WordMod = z
      BY <1>1, <1>2, <1>3, <2>1
    <3>3. (z - 4 + WordMod) + 4 = z + WordMod
      BY <1>1
    <3>4. QED
      BY <3>1, <3>2, <3>3
  <2>2. CASE z >= 4 /\ z - 4 < WordMod
    <3>1. (z - 4) % WordMod = z - 4
      BY <1>1, <1>2, <2>2
    <3>2. (z - 4) + 4 = z
      OBVIOUS
    <3>3. QED
      BY <3>1, <3>2
  <2>3. CASE z - 4 >= WordMod
    <3>1. (z - 4) % WordMod = z - 4 - WordMod
      BY <1>1, <1>3, <1>5, <2>3
    <3>2. (z - WordMod) % WordMod = z - WordMod /\ z % WordMod = z - WordMod
      BY <1>1, <1>2, <1>3, <1>5, <2>3
    <3>3. (z - 4 - WordMod) + 4 = z - WordMod
      BY <1>1
    <3>4. QED
      BY <3>1, <3>2, <3>3
  <2>4. QED
    BY <1>1, <2>1, <2>2, <2>3
<1>6. \A x, y \in Word : x + y \in Nat /\ x + y < WordMod + WordMod
  BY <1>1 DEF Word
<1>7. \A x, y \in Word : x + y - 4 = (x + y) - 4
  BY DEF Word
<1>8. \A x, y \in Word : (x + y - 4) % WordMod \in Word
  <2>1. \A x, y \in Word : x + y - 4 \in Int
    BY DEF Word
  <2>2. QED
    BY <2>1, WordArith, Zenon
<1>9. QED
  BY <1>5, <1>6, <1>7, <1>8, Zenon DEF Plus

\* The address of the next instruction.
LEMMA NextAddr ==
    \A k \in Index : /\ Addr(k) \in Word /\ Addr(k + 1) \in Word
                     /\ Plus(Addr(k), 4) = Addr(k + 1)
<1>1. ASSUME NEW k \in Index
      PROVE  Addr(k) \in Word /\ Addr(k + 1) \in Word /\ Plus(Addr(k), 4) = Addr(k + 1)
  <2>1. k + 1 \in 0 .. WordCount /\ k \in 0 .. WordCount /\ k \in Nat
    BY WordAssumption DEF Index
  <2>2. Addr(k) \in Word /\ Addr(k + 1) \in Word
    BY <2>1, SlotAddr
  <2>3. Addr(k + 1) = Addr(k) + 4
    BY <2>1, WordAssumption DEF Addr
  <2>4. WordMod \in Nat \ {0}
    BY WordArith
  <2>5. \A u \in Word : u % WordMod = u
    BY <2>4 DEF Word
  <2>6. QED
    BY <2>2, <2>3, <2>5 DEF Plus
<1>2. QED
  BY <1>1

-----------------------------------------------------------------------------
(* What an instruction leaves, written out *)

\* The registers after "rd = v" and the common tail.
Assigned(reg, rd, v) == [[reg EXCEPT ![rd] = v] EXCEPT ![0] = 0]

\* A context is its three fields.
LEMMA ContextEq ==
    \A c, d \in Context : c.pc = d.pc /\ c.reg = d.reg /\ c.mem = d.mem => c = d
BY DEF Context

\* Writing one register.
LEMMA PutForm ==
    ASSUME NEW c \in Context, NEW rd \in Reg, NEW v \in Word
    PROVE  /\ Put(c, rd, v) \in Context
           /\ Put(c, rd, v).pc = c.pc /\ Put(c, rd, v).mem = c.mem
           /\ Put(c, rd, v).reg = [c.reg EXCEPT ![rd] = v]
BY DEF Context, Put

\* The common tail of an instruction.
LEMMA FinishForm ==
    ASSUME NEW c \in Context
    PROVE  /\ Finish(c) \in Context
           /\ Finish(c).pc = Plus(c.pc, 4) /\ Finish(c).mem = c.mem
           /\ Finish(c).reg = [c.reg EXCEPT ![0] = 0]
<1>1. Plus(c.pc, 4) \in Word /\ 0 \in Word /\ 0 \in Reg
  BY WordArith, WordAssumption DEF Context
<1>2. QED
  BY <1>1 DEF Context, Finish

\* The value written to rd, the memory left and the address of the next instruction.
Value(i, c) ==
    LET x == c.reg[i.rs1]
        y == c.reg[i.rs2]
    IN  CASE i.type = "OP"    -> Alu(i.op, x, y)
          [] i.type = "IMM"   -> Alu(i.op, x, i.imm)
          [] i.type = "ADDI"  -> Plus(x, i.imm)
          [] i.type = "LOAD"  -> Load(i.op, c.mem, Plus(x, i.imm))
          [] i.type = "LR"    -> Load(i.op, c.mem, x)
          [] i.type = "LUI"   -> i.imm
          [] i.type = "AUIPC" -> Plus(c.pc, i.imm)
          [] i.type = "SC"    -> 0
          [] i.type \in {"JAL", "JALR"} -> Plus(c.pc, 4)

Memory(i, c) ==
    CASE i.type = "STORE" -> Store(i.op, c.mem, Plus(c.reg[i.rs1], i.imm), c.reg[i.rs2])
      [] i.type = "SC"    -> Store(i.op, c.mem, c.reg[i.rs1], c.reg[i.rs2])
      [] OTHER            -> c.mem

Destination(i, c) ==
    CASE i.type = "BRANCH" /\ Cond(i.op, c.reg[i.rs1], c.reg[i.rs2]) -> Plus(c.pc, i.imm)
      [] i.type = "JAL"  -> Plus(c.pc, i.imm)
      [] i.type = "JALR" -> Plus(i.imm, c.reg[i.rs1])
      [] OTHER           -> Plus(c.pc, 4)

Registers(i, c) ==
    IF i.type \in {"STORE", "BRANCH", "NOP", "INVALID"} THEN [c.reg EXCEPT ![0] = 0]
    ELSE Assigned(c.reg, i.rd, Value(i, c))

\* An instruction other than a system call leaves exactly these, if a JALR does not
\* link into the register it jumps through.
LEMMA StepForm ==
    ASSUME NEW i \in Instr, NEW c \in Context, NEW d \in Context,
           i.type # "ECALL", i.type = "JALR" => i.rd # i.rs1,
           d.pc = Destination(i, c), d.reg = Registers(i, c), d.mem = Memory(i, c)
    PROVE  d \in Step(i, c)
<1> DEFINE x == c.reg[i.rs1]
           y == c.reg[i.rs2]
<1>1. /\ i.op \in Op /\ i.rd \in Reg /\ i.rs1 \in Reg /\ i.rs2 \in Reg
      /\ i.imm \in Word /\ i.type \in Types
  BY DEF Instr
<1>2. c.pc \in Word /\ c.reg \in [Reg -> Word] /\ c.mem \in Mem
  BY DEF Context
<1>3. x \in Word /\ y \in Word
  BY <1>1, <1>2
<1>4. /\ Plus(c.pc, 4) \in Word /\ Plus(c.pc, i.imm) \in Word /\ Plus(x, i.imm) \in Word
      /\ 0 \in Word
  BY <1>1, <1>2, <1>3, WordArith
<1>5. ASSUME NEW v \in Word, d.pc = Plus(c.pc, 4), d.mem = c.mem, d.reg = Assigned(c.reg, i.rd, v)
      PROVE  d = Finish(Put(c, i.rd, v))
  <2> DEFINE e == Put(c, i.rd, v)
  <2>1. /\ e \in Context /\ e.pc = c.pc /\ e.mem = c.mem
        /\ e.reg = [c.reg EXCEPT ![i.rd] = v]
    BY <1>1, PutForm
  <2> HIDE DEF e
  <2>2. d.reg = [e.reg EXCEPT ![0] = 0]
    BY <1>5, <2>1 DEF Assigned
  <2>3. d = Finish(e)
    BY <1>5, <2>1, <2>2, FinishForm, ContextEq
  <2>4. QED
    BY <2>3 DEF e
<1>6. CASE i.type \in {"OP", "IMM", "ADDI", "LOAD", "LR", "LUI", "AUIPC"}
  <2> DEFINE v == Value(i, c)
  <2>1. v \in Word
    BY <1>1, <1>2, <1>3, <1>4, <1>6, ClosureAssumption DEF Value
  <2>2. Exec(i, c) = {Put(c, i.rd, v)}
    BY <1>6 DEF Exec, Value, ExecOp, ExecImm, ExecAddi, ExecLoad, ExecLr, ExecUpper
  <2>3. d.pc = Plus(c.pc, 4) /\ d.mem = c.mem /\ d.reg = Assigned(c.reg, i.rd, v)
    BY <1>6 DEF Destination, Registers, Memory
  <2> HIDE DEF v
  <2>4. QED
    BY <1>5, <2>1, <2>2, <2>3 DEF Step
<1>7. CASE i.type = "SC"
  <2> DEFINE m == Store(i.op, c.mem, x, y)
             s == [c EXCEPT !.mem = m]
  <2>1. m \in Mem
    BY <1>1, <1>2, <1>3, ClosureAssumption
  <2>2. Exec(i, c) = {Put(s, i.rd, 0)}
    BY <1>7 DEF Exec, ExecSc
  <2>3. d.pc = Plus(c.pc, 4) /\ d.mem = m /\ d.reg = Assigned(c.reg, i.rd, 0)
    BY <1>7 DEF Destination, Registers, Memory, Value
  <2> HIDE DEF m
  <2>4. s \in Context /\ s.pc = c.pc /\ s.reg = c.reg /\ s.mem = m
    BY <2>1 DEF Context
  <2> HIDE DEF s
  <2> DEFINE e == Put(s, i.rd, 0)
  <2>5. e \in Context /\ e.pc = s.pc /\ e.mem = s.mem /\ e.reg = [s.reg EXCEPT ![i.rd] = 0]
    BY <1>1, <1>4, <2>4, PutForm
  <2>6. Exec(i, c) = {e}
    BY <2>2
  <2> HIDE DEF e
  <2>7. d.reg = [e.reg EXCEPT ![0] = 0]
    BY <2>3, <2>4, <2>5 DEF Assigned
  <2>8. d = Finish(e)
    BY <2>3, <2>4, <2>5, <2>7, FinishForm, ContextEq
  <2>9. QED
    BY <2>6, <2>8 DEF Step
<1>8. CASE i.type = "STORE"
  <2> DEFINE m == Store(i.op, c.mem, Plus(x, i.imm), y)
             s == [c EXCEPT !.mem = m]
  <2>1. m \in Mem
    BY <1>1, <1>2, <1>3, <1>4, ClosureAssumption
  <2>2. Exec(i, c) = {s}
    BY <1>8 DEF Exec, ExecStore
  <2>3. d.pc = Plus(c.pc, 4) /\ d.mem = m /\ d.reg = [c.reg EXCEPT ![0] = 0]
    BY <1>8 DEF Destination, Registers, Memory
  <2> HIDE DEF m
  <2>4. s \in Context /\ s.pc = c.pc /\ s.reg = c.reg /\ s.mem = m
    BY <2>1 DEF Context
  <2> HIDE DEF s
  <2>5. d = Finish(s)
    BY <2>3, <2>4, FinishForm, ContextEq
  <2>6. QED
    BY <2>2, <2>5 DEF Step
<1>9. CASE i.type \in {"NOP", "INVALID"}
  <2>1. Exec(i, c) = {c}
    BY <1>9 DEF Exec
  <2>2. d.pc = Plus(c.pc, 4) /\ d.mem = c.mem /\ d.reg = [c.reg EXCEPT ![0] = 0]
    BY <1>9 DEF Destination, Registers, Memory
  <2>3. d = Finish(c)
    BY <2>2, FinishForm, ContextEq
  <2>4. QED
    BY <2>1, <2>3 DEF Step
<1>10. ASSUME NEW s \in Context, NEW z \in Word, NEW u \in Word, s.pc = (z + u - 4) % WordMod,
              d.pc = Plus(z, u), d.mem = s.mem, d.reg = [s.reg EXCEPT ![0] = 0]
       PROVE  d = Finish(s)
  <2>1. Plus(s.pc, 4) = Plus(z, u)
    BY <1>10, FourShort DEF Plus
  <2>2. QED
    BY <1>10, <2>1, FinishForm, ContextEq
<1>11. CASE i.type = "BRANCH"
  <2>1. d.mem = c.mem /\ d.reg = [c.reg EXCEPT ![0] = 0] /\ Exec(i, c) = {ExecBranch(i, c)}
    BY <1>11 DEF Registers, Memory, Exec
  <2>2. CASE Cond(i.op, x, y)
    <3> DEFINE p == (c.pc + i.imm - 4) % WordMod
               s == [c EXCEPT !.pc = p]
    <3>1. p \in Word
      BY <1>1, <1>2, FourShort
    <3>2. ExecBranch(i, c) = s /\ d.pc = Plus(c.pc, i.imm)
      BY <1>11, <2>2 DEF ExecBranch, Destination
    <3>3. s \in Context /\ s.pc = p /\ s.reg = c.reg /\ s.mem = c.mem
      <4> HIDE DEF p
      <4>1. QED
        BY <3>1 DEF Context
    <3> HIDE DEF s
    <3>4. d = Finish(s)
      BY <1>1, <1>2, <1>10, <2>1, <3>2, <3>3
    <3>5. QED
      BY <2>1, <3>2, <3>4 DEF Step
  <2>3. CASE ~ Cond(i.op, x, y)
    <3>1. ExecBranch(i, c) = c /\ d.pc = Plus(c.pc, 4)
      BY <1>11, <2>3 DEF ExecBranch, Destination
    <3>2. d = Finish(c)
      BY <2>1, <3>1, FinishForm, ContextEq
    <3>3. QED
      BY <2>1, <3>1, <3>2 DEF Step
  <2>4. QED
    BY <2>2, <2>3
<1>12. CASE i.type \in {"JAL", "JALR"}
  <2> DEFINE l == Put(c, i.rd, Plus(c.pc, 4))
             z == IF i.type = "JAL" THEN c.pc ELSE i.imm
             u == IF i.type = "JAL" THEN i.imm ELSE x
             p == (z + u - 4) % WordMod
             s == [l EXCEPT !.pc = p]
  <2>1. z \in Word /\ u \in Word
    BY <1>1, <1>2, <1>3
  <2>2. p \in Word
    <3> HIDE DEF z, u
    <3>1. QED
      BY <2>1, FourShort
  <2>3. /\ l \in Context /\ l.pc = c.pc /\ l.mem = c.mem
        /\ l.reg = [c.reg EXCEPT ![i.rd] = Plus(c.pc, 4)]
    BY <1>1, <1>4, PutForm
  <2>4. i.type = "JALR" => l.reg[i.rs1] = x
    BY <1>1, <1>2, <2>3
  <2>5. Exec(i, c) = {s}
    <3>1. CASE i.type = "JAL"
      <4>1. Exec(i, c) = {ExecJal(i, c)}
        BY <3>1 DEF Exec
      <4>2. s = [l EXCEPT !.pc = (l.pc + i.imm - 4) % WordMod]
        BY <2>3, <3>1
      <4>3. QED
        BY <4>1, <4>2 DEF ExecJal
    <3>2. CASE i.type = "JALR"
      <4>1. Exec(i, c) = {ExecJalr(i, c)}
        BY <3>2 DEF Exec
      <4>2. s = [l EXCEPT !.pc = (i.imm + l.reg[i.rs1] - 4) % WordMod]
        BY <2>4, <3>2
      <4>3. QED
        BY <4>1, <4>2 DEF ExecJalr
    <3>3. QED
      BY <1>12, <3>1, <3>2
  <2>6. /\ d.pc = Plus(z, u) /\ d.mem = c.mem
        /\ d.reg = Assigned(c.reg, i.rd, Plus(c.pc, 4))
    BY <1>12 DEF Destination, Registers, Memory, Value
  <2>7. s \in Context /\ s.pc = p /\ s.reg = l.reg /\ s.mem = c.mem
    <3> HIDE DEF p, l
    <3>1. QED
      BY <2>2, <2>3 DEF Context
  <2>8. d.reg = [l.reg EXCEPT ![0] = 0]
    BY <2>3, <2>6 DEF Assigned
  <2>9. s.pc = (z + u - 4) % WordMod
    BY <2>7
  <2> HIDE DEF s, z, u, l, p
  <2>10. d = Finish(s)
    BY <1>10, <2>1, <2>6, <2>7, <2>8, <2>9
  <2>11. QED
    BY <2>5, <2>10 DEF Step
<1>13. QED
  BY <1>1, <1>6, <1>7, <1>8, <1>9, <1>11, <1>12 DEF Types

=============================================================================
