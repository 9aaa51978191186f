---------------------------- MODULE GuestMachine ----------------------------
(***************************************************************************)
(* The guest as its program sees it: one instruction after the other, as   *)
(* the interpreter runs it, until an exit call or a return to the sentinel that *)
(* a program without startup code finds in ra (BASE_RA in the emulator,    *)
(* RuntimeEmitter::getBaseRa, behind the text, in translated programs).  A *)
(* jump out of the text has no next step: the guest is followed no further.*)
(*                                                                         *)
(* This is what the emulator and the translated program have to implement. *)
(***************************************************************************)
EXTENDS GuestIsa

CONSTANTS
    Programs,   \* the texts, functions from Index to Instr
    Entries,    \* entry addresses
    InitRegs,   \* initial register files
    InitMems,   \* initial memories
    Sentinel,   \* return address of a program without startup code
    BaseFirst   \* whether a JALR reads its base before it links: emitted code does,
                \* the interpreter does not

VARIABLES prog, ctx, status

vars == <<prog, ctx, status>>

Init ==
    /\ prog \in Programs
    /\ ctx \in [pc : Entries, reg : InitRegs, mem : InitMems]
    /\ status = "running"

\* JALR as the emitter writes it: "ctx.pc = imm + rs1;", then "rd = link;".
JalrBaseFirst(i, c) ==
    [Put(c, i.rd, Plus(c.pc, 4)) EXCEPT !.pc = Plus(i.imm, c.reg[i.rs1]), !.reg[0] = 0]

\* The contexts one instruction may lead to.
Taken(i, c) ==
    IF BaseFirst /\ i.type = "JALR" THEN {JalrBaseFirst(i, c)} ELSE Step(i, c)

\* One instruction that neither ends the process nor blocks it.
Execute ==
    /\ status = "running"
    /\ InText(ctx.pc)
    /\ ~ Exits(prog[SlotOf(ctx.pc)], ctx)
    /\ ctx' \in Taken(prog[SlotOf(ctx.pc)], ctx)
    /\ UNCHANGED <<prog, status>>

ExitCall ==
    /\ status = "running"
    /\ InText(ctx.pc)
    /\ Exits(prog[SlotOf(ctx.pc)], ctx)
    /\ status' = "exited"
    /\ UNCHANGED <<prog, ctx>>

ReturnToBase ==
    /\ status = "running"
    /\ ctx.pc = Sentinel
    /\ status' = "returned"
    /\ UNCHANGED <<prog, ctx>>

Next == Execute \/ ExitCall \/ ReturnToBase

Spec == Init /\ [][Next]_vars

\* The guest takes its next step as long as it has one.
Progress == WF_vars(Next)

FairSpec == Spec /\ Progress

-----------------------------------------------------------------------------
\* Interpreter.cpp:809: LOG_JMP records imm + reg[rs1] as the target of a JALR
\* before the link is written.  The jump goes where the log says it goes.
JumpsWhereLogged ==
    [][ LET i == prog[SlotOf(ctx.pc)] IN
        InText(ctx.pc) /\ i.type = "JALR" /\ ctx' # ctx
        => ctx'.pc = Plus(i.imm, ctx.reg[i.rs1]) ]_vars
=============================================================================
