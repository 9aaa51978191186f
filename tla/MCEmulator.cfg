CONSTANTS
    WordMod = 32
    Reg <- MCReg
    A0 <- MCA0
    A7 <- MCA7
    Mem <- MCMem
    Op <- MCOp
    Alu <- MCAlu
    Cond <- MCCond
    Load <- MCLoad
    Store <- MCStore
    ExitNums = {1}
    SysResults = {0, 31}
    KernelWrites <- MCKernelWrites
    TextStart = 4
    WordCount = 4
    Programs <- MCTexts
    Entries <- MCEntries
    InitRegs <- MCInitRegs
    InitMems <- MCInitMems
    Gaps <- MCGaps
    Fetch <- MCFetch
    Builds <- MCBuilds
    BaseRa = 31
    MemSize = 24
SPECIFICATION FairSpec
INVARIANT TypeOK
PROPERTIES
    ImplementsGuest
    LoopImplementsProgress
CHECK_DEADLOCK FALSE
