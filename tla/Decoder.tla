------------------------------- MODULE Decoder -------------------------------
(***************************************************************************)
(* The three ways an instruction word is taken apart: the table decode()   *)
(* searches (emulator and translator), the chain of ifs and the nested     *)
(* switch of the interpreter.  The interpreter fallback of a translated    *)
(* program runs the switch on words the translator decoded by the table.   *)
(*                                                                         *)
(* A word is the record of its fields: the opcode by name, funct3, rd, rs1 *)
(* and top, the bits 31 to 20 (funct7, funct5, rs2 and shift are in them). *)
(***************************************************************************)
EXTENDS Integers, Sequences, FiniteSetsExt

CONSTANTS
    Tops, Rds, Rs1s   \* values of the fields that are enumerated

ASSUME FieldAssumption == Tops \subseteq 0 .. 4095 /\ Rds \subseteq 0 .. 31 /\ Rs1s \subseteq 0 .. 31

Opcodes == {"OP", "IMM", "LOAD", "STORE", "BRANCH", "JAL", "JALR", "LUI", "AUIPC",
            "SYSTEM", "AMO", "other"}

\* Decoder::getFunct7 (getSHType), getFunct5, and I_FMT_imm compared with zero
funct7(w) == w.top \div 32
funct5(w) == w.top \div 128

-----------------------------------------------------------------------------
(* Immediates *)

\* Reading a field whose highest bit is worth sign as two's complement, as the shift
\* pairs of the code do.
SignExtend(sign, v) == IF v >= sign THEN v - 2 * sign ELSE v

Bit31(w) == w.top \div 2048

I_FMT_imm(w) == SignExtend(2048, w.top)
S_FMT_imm(w) == SignExtend(2048, w.rd + 32 * funct7(w))
\* Mutant: bit 7 of the word, bit 11 of the offset, is lost.
B_FMT_immWithoutBit11(w) ==
    SignExtend(4096, Bit31(w) * 4096 + (funct7(w) % 64) * 32 + (w.rd \div 2) * 2)
B_FMT_imm(w) ==
    SignExtend(4096, Bit31(w) * 4096 + (w.rd % 2) * 2048 + (funct7(w) % 64) * 32 + (w.rd \div 2) * 2)
J_FMT_imm(w) ==
    SignExtend(1048576, Bit31(w) * 1048576 + (w.funct3 + 8 * w.rs1) * 4096
                   + (w.top % 2) * 2048 + ((w.top \div 2) % 1024) * 2)
U_FMT_imm(w) == SignExtend(524288, w.top * 256 + w.rs1 * 8 + w.funct3)

-----------------------------------------------------------------------------
(* Rows: an entry of the table, or a condition of the chain *)

Any == -1
Row(type, opcode, f3, f7, f5, top) ==
    [type |-> type, opcode |-> opcode, f3 |-> f3, f7 |-> f7, f5 |-> f5, top |-> top]
ByOpcode(type, opcode) == Row(type, opcode, Any, Any, Any, Any)
ByFunct3(type, opcode, f3) == Row(type, opcode, f3, Any, Any, Any)
ByFunct7(type, opcode, f3, f7) == Row(type, opcode, f3, f7, Any, Any)

Agree(want, have) == want = Any \/ want = have

Matches(row, w) ==
    /\ row.opcode = w.opcode
    /\ Agree(row.f3, w.funct3) /\ Agree(row.f7, funct7(w))
    /\ Agree(row.f5, funct5(w)) /\ Agree(row.top, w.top)

\* Position n of names has funct3 = f3s[n].
Funct3Rows(opcode, names, f3s) == [n \in DOMAIN names |-> ByFunct3(names[n], opcode, f3s[n])]
Funct7Rows(opcode, f7, names, f3s) == [n \in DOMAIN names |-> ByFunct7(names[n], opcode, f3s[n], f7)]

\* Instructions.h
RV32I ==
    Funct7Rows("OP", 0, <<"ADD", "XOR", "OR", "AND", "SLL", "SRL", "SLT", "SLTU">>,
               <<0, 4, 6, 7, 1, 5, 2, 3>>)
    \o Funct7Rows("OP", 32, <<"SUB", "SRA">>, <<0, 5>>)
    \o Funct3Rows("IMM", <<"ADDI", "XORI", "ORI", "ANDI", "SLTI", "SLTIU">>, <<0, 4, 6, 7, 2, 3>>)
    \o Funct7Rows("IMM", 0, <<"SLLI", "SRLI">>, <<1, 5>>)
    \o Funct7Rows("IMM", 32, <<"SRAI">>, <<5>>)
    \o Funct3Rows("LOAD", <<"LB", "LH", "LW", "LBU", "LHU">>, <<0, 1, 2, 4, 5>>)
    \o Funct3Rows("STORE", <<"SB", "SH", "SW">>, <<0, 1, 2>>)
    \o Funct3Rows("BRANCH", <<"BEQ", "BNE", "BLT", "BGE", "BLTU", "BGEU">>, <<0, 1, 4, 5, 6, 7>>)
    \o <<ByOpcode("JAL", "JAL"), ByFunct3("JALR", "JALR", 0),
         ByOpcode("LUI", "LUI"), ByOpcode("AUIPC", "AUIPC"),
         Row("ECALL", "SYSTEM", Any, Any, Any, 0), Row("EBREAK", "SYSTEM", Any, Any, Any, 1)>>

\* Mutant: funct7 is not compared.
RV32MWithoutFunct7 ==
    Funct3Rows("OP", <<"MUL", "MULH", "MULHSU", "MULHU", "DIV", "DIVU", "REM", "REMU">>,
               <<0, 1, 2, 3, 4, 5, 6, 7>>)

RV32M == Funct7Rows("OP", 1, <<"MUL", "MULH", "MULHSU", "MULHU", "DIV", "DIVU", "REM", "REMU">>,
                    <<0, 1, 2, 3, 4, 5, 6, 7>>)

\* Mutant: LR and SC are swapped.
RV32ASwapped == <<Row("LR_W", "AMO", 2, Any, 3, Any), Row("SC_W", "AMO", 2, Any, 2, Any)>>

RV32A == <<Row("LR_W", "AMO", 2, Any, 2, Any), Row("SC_W", "AMO", 2, Any, 3, Any)>>

SPEC_LISTS == RV32I \o RV32M \o RV32A

\* The conditions of runInstruction, in their order.
ImmConditions ==
    Funct3Rows("IMM", <<"ADDI", "XORI", "ORI", "ANDI">>, <<0, 4, 6, 7>>)
    \o Funct7Rows("IMM", 0, <<"SLLI", "SRLI">>, <<1, 5>>)
    \o <<ByFunct7("SRAI", "IMM", 5, 32)>>
    \o Funct3Rows("IMM", <<"SLTI", "SLTIU">>, <<2, 3>>)

OpConditions ==
    <<ByFunct7("ADD", "OP", 0, 0), ByFunct7("SUB", "OP", 0, 32)>>
    \o Funct7Rows("OP", 0, <<"XOR", "OR", "AND", "SLL", "SRL">>, <<4, 6, 7, 1, 5>>)
    \o <<ByFunct7("SRA", "OP", 5, 32)>>
    \o Funct7Rows("OP", 0, <<"SLT", "SLTU">>, <<2, 3>>)

MemoryConditions ==
    Funct3Rows("LOAD", <<"LB", "LBU", "LH", "LHU", "LW">>, <<0, 4, 1, 5, 2>>)
    \o Funct3Rows("STORE", <<"SB", "SH", "SW">>, <<0, 1, 2>>)

JumpConditions ==
    Funct3Rows("BRANCH", <<"BEQ", "BNE", "BLT", "BGE", "BLTU", "BGEU">>, <<0, 1, 4, 5, 6, 7>>)
    \o <<ByOpcode("JAL", "JAL"), ByFunct3("JALR", "JALR", 0)>>

SystemConditions ==
    <<ByOpcode("LUI", "LUI"), ByOpcode("AUIPC", "AUIPC"), Row("ECALL", "SYSTEM", Any, Any, Any, 0)>>

ExtensionConditions ==
    Funct7Rows("OP", 1, <<"MUL", "MULH", "MULHSU", "MULHU", "DIV", "DIVU", "REM", "REMU">>,
               <<0, 1, 2, 3, 4, 5, 6, 7>>)
    \o <<Row("LR_W", "AMO", 2, Any, 2, Any), Row("SC_W", "AMO", 2, Any, 3, Any)>>

Conditions ==
    ImmConditions \o OpConditions \o MemoryConditions \o JumpConditions
    \o SystemConditions \o ExtensionConditions

Hits(rows, w) == {n \in DOMAIN rows : Matches(rows[n], w)}

\* The first match decides.
FirstMatch(rows, w, otherwise) ==
    IF Hits(rows, w) = {} THEN otherwise ELSE rows[Min(Hits(rows, w))].type

decode(w) == FirstMatch(SPEC_LISTS, w, "INVALID")

runInstruction(w) == FirstMatch(Conditions, w, "unsupported")

\* The cases of runInstructionSwitch, by opcode; each looks at funct3, then at the
\* rest.  funct3 + 1 is its place in a tuple of names.
SwitchImm(w) ==
    CASE w.funct3 \notin {1, 5} \/ funct7(w) = 0 ->
            <<"ADDI", "SLLI", "SLTI", "SLTIU", "XORI", "SRLI", "ORI", "ANDI">>[w.funct3 + 1]
      [] w.funct3 = 5 /\ funct7(w) = 32 -> "SRAI"
      [] OTHER -> "unsupported"

SwitchOp(w) ==
    CASE funct7(w) = 0 ->
            <<"ADD", "SLL", "SLT", "SLTU", "XOR", "SRL", "OR", "AND">>[w.funct3 + 1]
      [] funct7(w) = 1 ->
            <<"MUL", "MULH", "MULHSU", "MULHU", "DIV", "DIVU", "REM", "REMU">>[w.funct3 + 1]
      [] funct7(w) = 32 /\ w.funct3 = 0 -> "SUB"
      [] funct7(w) = 32 /\ w.funct3 = 5 -> "SRA"
      [] OTHER -> "unsupported"

SwitchMemory(w) ==
    LET loads == <<"LB", "LH", "LW", "unsupported", "LBU", "LHU">>
        stores == <<"SB", "SH", "SW">>
        names == IF w.opcode = "LOAD" THEN loads ELSE stores
    IN  IF w.funct3 < Len(names) THEN names[w.funct3 + 1] ELSE "unsupported"

SwitchBranch(w) ==
    <<"BEQ", "BNE", "unsupported", "unsupported", "BLT", "BGE", "BLTU", "BGEU">>[w.funct3 + 1]

\* The case of JALR has its break inside the if: it falls through to LUI.
SwitchJump(w) == IF w.opcode = "JALR" /\ w.funct3 # 0 THEN "LUI" ELSE w.opcode

SwitchSystem(w) == IF w.funct3 = 0 /\ w.top = 0 THEN "ECALL" ELSE "unsupported"

SwitchAmo(w) ==
    CASE w.funct3 = 2 /\ funct5(w) = 2 -> "LR_W"
      [] w.funct3 = 2 /\ funct5(w) = 3 -> "SC_W"
      [] OTHER -> "unsupported"

runInstructionSwitch(w) ==
    CASE w.opcode = "IMM"              -> SwitchImm(w)
      [] w.opcode = "OP"               -> SwitchOp(w)
      [] w.opcode \in {"LOAD", "STORE"} -> SwitchMemory(w)
      [] w.opcode = "BRANCH"           -> SwitchBranch(w)
      [] w.opcode \in {"JAL", "JALR", "LUI", "AUIPC"} -> SwitchJump(w)
      [] w.opcode = "SYSTEM"           -> SwitchSystem(w)
      [] w.opcode = "AMO"              -> SwitchAmo(w)
      [] w.opcode = "other"            -> "unsupported"

-----------------------------------------------------------------------------
VARIABLES
    word,     \* the instruction word in memory
    engine,   \* what runs it
    ran       \* the instruction that was executed, "none" for no effect

vars == <<word, engine, ran>>

Words ==
    [opcode : Opcodes, funct3 : 0 .. 7, top : Tops, rd : {0}, rs1 : {0}]
    \cup [opcode : {"STORE", "BRANCH", "JAL", "LUI"}, funct3 : {0, 7}, top : Tops, rd : Rds, rs1 : Rs1s]

\* EBREAK, INVALID and whatever is unsupported only advance the pc.
Effect(type) == IF type \in {"EBREAK", "INVALID", "unsupported"} THEN "none" ELSE type

Init ==
    /\ word \in Words
    /\ engine \in {"table", "chain", "switch"}
    /\ ran = "?"

Run(name, type) ==
    /\ ran = "?" /\ engine = name
    /\ ran' = Effect(type)
    /\ UNCHANGED <<word, engine>>

RunPredecoded == Run("table", decode(word))
RunChain == Run("chain", runInstruction(word))
RunSwitch == Run("switch", runInstructionSwitch(word))

Next == RunPredecoded \/ RunChain \/ RunSwitch

Spec == Init /\ [][Next]_vars
-----------------------------------------------------------------------------
\* Words a compiler for rv32ima produces: funct3 is 0 in JALR, ECALL and EBREAK.
Conforming(w) == w.opcode \in {"JALR", "SYSTEM"} => w.funct3 = 0

\* Emulator, fallback and translator execute the same instruction for a word: the
\* table, the chain and the switch, each with its own order of tests, agree.
EnginesAgree == ran # "?" /\ Conforming(word) => ran = Effect(decode(word))

\* No word matches two entries of the table, so that no entry hides a later one
\* however RV32I, RV32M and RV32A are arranged.
TableUnambiguous == \A m, n \in Hits(SPEC_LISTS, word) : m = n

\* Two words of a format have the same immediate only if they agree in all the
\* bits of the format's immediate; branch and jump offsets are even.
ImmediatesFaithful ==
    ran = "?" /\ engine = "table" => \A t \in Tops, r \in Rds, s \in Rs1s, f \in {0, 7} :
        LET v == [word EXCEPT !.top = t, !.rd = r, !.rs1 = s, !.funct3 = f] IN
        CASE word.opcode = "STORE" ->
                S_FMT_imm(v) = S_FMT_imm(word) => funct7(v) = funct7(word) /\ r = word.rd
          [] word.opcode = "BRANCH" ->
                /\ B_FMT_imm(v) % 2 = 0
                /\ B_FMT_imm(v) = B_FMT_imm(word) => funct7(v) = funct7(word) /\ r = word.rd
          [] word.opcode = "JAL" ->
                /\ J_FMT_imm(v) % 2 = 0
                /\ J_FMT_imm(v) = J_FMT_imm(word) => t = word.top /\ s = word.rs1 /\ f = word.funct3
          [] word.opcode = "LUI" ->
                U_FMT_imm(v) = U_FMT_imm(word) => t = word.top /\ s = word.rs1 /\ f = word.funct3
          [] OTHER -> I_FMT_imm(v) = I_FMT_imm(word) => t = word.top
=============================================================================
