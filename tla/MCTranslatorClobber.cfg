CONSTANTS
    WordMod = 32
    Reg <- MCReg
    A0 <- MCA0
    A7 <- MCA7
    Mem <- MCMem
    Op <- MCOp
    Alu <- MCAlu
    Cond <- MCCond
    Load <- MCLoad
    Store <- MCStore
    ExitNums <- MCExitNums
    SysResults <- MCSysResults
    KernelWrites <- MCKernelWrites
    TextStart = 4
    WordCount = 4
    Programs <- MCLoops
    Entries <- MCEntries
    InitRegs <- MCInitRegs
    InitMems <- MCInitMems
    Pinned = {1, 2}
    CallerSaved = {1}
    Compound = {"ADD", "SUB"}
    Ordered = {"SUB"}
    Targets <- MCTargets
    Harvests <- MCHarvests
    OptionSets <- MCTimedOptions
    Heatup = 1
    EmitAlu <- MCEmitAlu
SPECIFICATION Spec
PROPERTIES
    RegistersSurviveDispatch
CHECK_DEADLOCK FALSE
