----------------------------- MODULE MCEmulator -----------------------------
(***************************************************************************)
(* Emulator on texts of four words, the third of them a gap between two    *)
(* sections; words of five bits, a memory of 24 bytes.                     *)
(***************************************************************************)
EXTENDS Emulator

MCReg == 0 .. 3
ra == 1
MCA0 == 2
MCA7 == 3
MCOp == {"ADD", "EQ", "B"}
MCAlu(op, x, y) == (x + y) % WordMod
MCCond(op, x, y) == x = y

I(type, op, rd, rs1, rs2, imm) ==
    [type |-> type, op |-> op, rd |-> rd, rs1 |-> rs1, rs2 |-> rs2, imm |-> imm % WordMod]
Li(rd, v) == I("ADDI", "ADD", rd, 0, 0, v)
Ecall == I("ECALL", "ADD", 0, 0, 0, 0)
Gap == I("INVALID", "ADD", 0, 0, 0, 0)

MCGaps == {2}

\* a7 becomes the number of an exit call, the address of the gap, of the word in
\* front of the text or behind it, of the end of the memory, or one outside of it.
First == {Li(MCA7, v) : v \in {0, 1, 12, 20, 24, 28}} \cup {I("STORE", "B", 0, 0, MCA7, 20)}
Second == {Ecall, I("JALR", "ADD", 0, ra, 0, 0), I("JALR", "ADD", ra, MCA7, 0, 0),
           I("BRANCH", "EQ", 0, 0, MCA0, 8), I("OP", "ADD", MCA0, MCA7, ra, 0)}
Fourth == {I("JALR", "ADD", 0, ra, 0, 0), I("JAL", "ADD", ra, 0, 0, -12), Ecall,
           I("JALR", "ADD", 0, MCA7, 0, -4), I("LOAD", "B", MCA0, 0, 0, 20)}

MCTexts == {[k \in Index |-> <<a, b, Gap, d>>[k + 1]] : a \in First, b \in Second, d \in Fourth}

\* The memory: the text and a byte of data behind it.
MCMem == [text : MCTexts, data : 0 .. 1]
MCFetch(m, a) == IF InText(a) THEN m.text[SlotOf(a)] ELSE Gap
MCLoad(op, m, a) == IF a = TextEnd THEN m.data ELSE 0
MCStore(op, m, a, v) == IF a = TextEnd THEN [m EXCEPT !.data = v % 2] ELSE m
MCKernelWrites(m) == {m, [m EXCEPT !.data = 1]}
MCInitMems == [text : MCTexts, data : {0}]

MCInitRegs == {[r \in MCReg |-> IF r = ra THEN BaseRa ELSE 0]}
MCEntries == {TextStart, Addr(3)}
MCBuilds == {"chain", "switch", "predecoded", "threaded"}
=============================================================================
