--------------------------- MODULE MCGuestMachine ---------------------------
(***************************************************************************)
(* GuestMachine on a text of three instructions with an indirect jump that *)
(* links into the register it jumps through, as "jalr ra, 0(ra)" does in   *)
(* the far calls compilers emit (auipc ra; jalr ra, ra).                   *)
(***************************************************************************)
EXTENDS GuestMachine

MCReg == 0 .. 3
ra == 1
MCOp == {"ADD"}
MCAlu(op, x, y) == (x + y) % WordMod
MCCond(op, x, y) == x = y
MCMem == {"mem"}
MCLoad(op, m, a) == 0
MCStore(op, m, a, v) == m
MCKernelWrites(m) == {m}

I(type, rd, rs1, imm) ==
    [type |-> type, op |-> "ADD", rd |-> rd, rs1 |-> rs1, rs2 |-> 0, imm |-> imm]

MCPrograms ==
    {[k \in Index |-> <<I("AUIPC", ra, 0, 0), I("JALR", link, ra, 8), I("NOP", 0, 0, 0)>>[k + 1]] :
        link \in {0, ra, 2}}
MCSentinel == TextEnd
MCEntries == {TextStart}
MCInitRegs == {[r \in MCReg |-> IF r = ra THEN TextEnd ELSE 0]}
=============================================================================
