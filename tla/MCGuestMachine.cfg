CONSTANTS
    WordMod = 32
    Reg <- MCReg
    A0 = 2
    A7 = 3
    Mem <- MCMem
    Op <- MCOp
    Alu <- MCAlu
    Cond <- MCCond
    Load <- MCLoad
    Store <- MCStore
    ExitNums = {1}
    SysResults = {0}
    KernelWrites <- MCKernelWrites
    TextStart = 4
    WordCount = 3
    Programs <- MCPrograms
    Entries <- MCEntries
    InitRegs <- MCInitRegs
    InitMems <- MCMem
    Sentinel <- MCSentinel
    BaseFirst = FALSE
SPECIFICATION Spec
PROPERTY JumpsWhereLogged
CHECK_DEADLOCK FALSE
