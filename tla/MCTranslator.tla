---------------------------- MODULE MCTranslator ----------------------------
(***************************************************************************)
(* Translator on texts of four instructions, words of five bits and four   *)
(* registers: x0, ra (pinned, caller-saved), a0 (pinned) and a7.           *)
(***************************************************************************)
EXTENDS Translator

MCReg == 0 .. 3
ra == 1
MCA0 == 2
MCA7 == 3

MCOp == {"ADD", "SUB", "SLTU", "REM", "EQ", "W", "B"}

Signed(x) == IF 2 * x < WordMod THEN x ELSE x - WordMod
Magnitude(x) == IF Signed(x) < 0 THEN - Signed(x) ELSE x

\* The sign of a remainder is that of the dividend; 0 on overflow (-16 by -1).
Remainder(x, y) ==
    IF y = 0 THEN x
    ELSE IF Signed(x) < 0 THEN (- (Magnitude(x) % Magnitude(y))) % WordMod
    ELSE x % Magnitude(y)

MCAlu(op, x, y) ==
    CASE op = "ADD"  -> (x + y) % WordMod
      [] op = "SUB"  -> (x - y) % WordMod
      [] op = "REM"  -> Remainder(x, y)
      [] OTHER       -> IF x < y THEN 1 ELSE 0

\* The emitted REM leaves the dividend on overflow.
MCEmitAlu(op, x, y) ==
    IF op = "REM" /\ 2 * x = WordMod /\ y = WordMod - 1 THEN x ELSE MCAlu(op, x, y)

MCCond(op, x, y) == IF op = "EQ" THEN x = y ELSE x < y

\* Two bytes of guest data, the rest of the memory reads as zero.
MCMem == [0 .. 1 -> 0 .. 1]
MCLoad(op, m, a) == IF a \in 0 .. 1 THEN m[a] ELSE 0
MCStore(op, m, a, v) == IF a \in 0 .. 1 THEN [m EXCEPT ![a] = v % 2] ELSE m
MCInitMems == {[b \in 0 .. 1 |-> b]}
MCKernelWrites(m) == {m, [m EXCEPT ![0] = 1]}
MCSysResults == {0, WordMod - 1}
MCExitNums == {1}

I(type, op, rd, rs1, rs2, imm) ==
    [type |-> type, op |-> op, rd |-> rd, rs1 |-> rs1, rs2 |-> rs2, imm |-> imm]

Li(rd, v) == I("ADDI", "ADD", rd, 0, 0, v)
Mv(rd, rs) == I("ADDI", "ADD", rd, rs, 0, 0)
Addi(rd, rs, v) == I("ADDI", "ADD", rd, rs, 0, v)
OpI(op, rd, rs1, rs2) == I("OP", op, rd, rs1, rs2, 0)
Beq(rs1, rs2, off) == I("BRANCH", "EQ", 0, rs1, rs2, off % WordMod)
Jal(rd, off) == I("JAL", "ADD", rd, 0, 0, off % WordMod)
Jalr(rd, rs1, imm) == I("JALR", "ADD", rd, rs1, 0, imm)
Ecall == I("ECALL", "ADD", 0, 0, 0, 0)

\* Constants that are overwritten, copied and used across labels and calls.
First == <<Li(MCA7, 1), Li(MCA7, 12), Li(MCA0, 1), Jal(ra, 8), I("AUIPC", "ADD", ra, 0, 0, 8)>>
Second == <<Addi(MCA7, MCA7, 4), Li(MCA0, WordMod - 1), Mv(ra, MCA7), Ecall, Beq(MCA7, 0, 8),
            OpI("SUB", MCA7, 0, MCA7), I("LOAD", "W", MCA7, 0, 0, 1), I("INVALID", "ADD", 0, 0, 0, 0)>>
Third == <<OpI("ADD", MCA0, MCA7, MCA0), OpI("SLTU", MCA7, MCA0, MCA7), Ecall, Li(0, 5),
           I("STORE", "B", 0, 0, MCA7, 1), I("SC", "W", MCA7, MCA0, ra, 0), I("NOP", "ADD", 0, 0, 0, 0)>>
Fourth == <<Jalr(0, ra, 0), Jalr(ra, MCA7, 0), Beq(MCA0, MCA7, -4), Jal(ra, -12), Ecall,
            I("LUI", "ADD", ra, 0, 0, 16), I("IMM", "SLTU", ra, MCA7, 0, 3), I("LR", "W", MCA7, ra, 0, 0)>>

\* A quarter of all combinations, which still has every combination of three.
Chosen == {n \in (DOMAIN First) \X (DOMAIN Second) \X (DOMAIN Third) \X (DOMAIN Fourth) :
             (n[1] + n[2] + n[3] + n[4]) % 4 = 0}
Mixed == {<<First[n[1]], Second[n[2]], Third[n[3]], Fourth[n[4]]>> : n \in Chosen}

\* Loops through the dispatch loop and through the fallback: a7 holds the target
\* of an indirect jump that may be a leader, none, or lie behind the text.
Loops == {<<a, b, c, d>> :
            a \in {Li(MCA7, 8), Li(MCA7, 12), Li(MCA7, 16), Addi(MCA7, ra, 0)},
            b \in {I("NOP", "ADD", 0, 0, 0, 0), Addi(MCA0, MCA0, 1), Jalr(0, MCA7, 4)},
            c \in {Addi(ra, ra, 1), Ecall, Beq(MCA0, 0, 4)},
            d \in {Jalr(ra, MCA7, 0), Jalr(0, MCA7, 4), Jalr(0, MCA0, 4)}}

\* Indirect jumps that link into the register they jump through, as in far calls, in
\* a block and, with no leader in front of them, in the fallback; remainders with and
\* without overflow.
Linking == {<<a, b, c, d>> :
              a \in {Li(MCA7, 12), Li(MCA7, 16), I("AUIPC", "ADD", ra, 0, 0, 12)},
              b \in {Jalr(ra, ra, 0), Jalr(MCA7, MCA7, 0), Jalr(0, MCA7, 4)},
              c \in {Jalr(MCA7, MCA7, 4), Jalr(0, 0, 4), Addi(MCA0, MCA0, 1)},
              d \in {Jalr(ra, ra, 4), Jalr(0, ra, 0)}}
Dividing == {<<I("LUI", "ADD", ra, 0, 0, 16), Li(MCA0, y), OpI("REM", rd, ra, MCA0), Jalr(0, ra, 0)>> :
               y \in {WordMod - 1, 3}, rd \in {MCA7, MCA0, ra}}

MCTexts == {[k \in Index |-> p[k + 1]] : p \in Mixed \cup Loops \cup Linking \cup Dividing}
MCLoops == {[k \in Index |-> p[k + 1]] : p \in Loops}

\* Entered at the start of the text or at an instruction that is a leader in some
\* texts only.  A program without startup code finds the sentinel in ra; a7 holds
\* the number of an exit call.
MCEntries == {TextStart, Addr(1)}
MCInitRegs == {[r \in MCReg |-> IF r = ra THEN TextEnd ELSE IF r = MCA7 THEN 1 ELSE 0]}

\* An indirect target observed by the profile; text addresses in the data sections.
MCTargets == {{Addr(2)}}
MCHarvests == {{}, {Addr(2)}}

\* A profile and prediction; chaining, which rules the profiling check out; the check.
MCOptionSets ==
    {[useProfilingData |-> TRUE, translationChaining |-> FALSE,
      softwareBranchPrediction |-> TRUE, profileIndirect |-> FALSE],
     [useProfilingData |-> FALSE, translationChaining |-> TRUE,
      softwareBranchPrediction |-> TRUE, profileIndirect |-> TRUE],
     [useProfilingData |-> FALSE, translationChaining |-> FALSE,
      softwareBranchPrediction |-> FALSE, profileIndirect |-> TRUE]}

MCTimedOptions == {o \in MCOptionSets : o.profileIndirect /\ ~ o.translationChaining}
=============================================================================
