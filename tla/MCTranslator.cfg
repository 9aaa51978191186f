CONSTANTS
    WordMod = 32
    Reg <- MCReg
    A0 <- MCA0
    A7 <- MCA7
    Mem <- MCMem
    Op <- MCOp
    Alu <- MCAlu
    Cond <- MCCond
    Load <- MCLoad
    Store <- MCStore
    ExitNums <- MCExitNums
    SysResults <- MCSysResults
    KernelWrites <- MCKernelWrites
    TextStart = 4
    WordCount = 4
    Programs <- MCTexts
    Entries <- MCEntries
    InitRegs <- MCInitRegs
    InitMems <- MCInitMems
    Pinned = {1, 2}
    CallerSaved = {}
    Compound = {"ADD", "SUB"}
    Ordered = {"SUB"}
    Targets <- MCTargets
    Harvests <- MCHarvests
    OptionSets <- MCOptionSets
    Heatup = 1
    EmitAlu <- MCEmitAlu
SPECIFICATION FairSpec
INVARIANTS
    TypeOK
    TrackingSound
PROPERTIES
    ImplementsGuest
    ImplementsGuestProgress
    JumpsLandOnLabels
    RegistersSurviveDispatch
CHECK_DEADLOCK FALSE
