CONSTANTS
    PageSize = 2
    DataSize = 4
    MmapSize = 8
    WordMod = 32
    HeapBase = 2
    MaxLen = 5
    Lens <- MCLens
    BrkArgs <- MCBrkArgs
    HintOwned = TRUE
SPECIFICATION Spec
INVARIANT NextFreeAddress
