CONSTANTS
    WordMod = 1024
    DataSize = 80
    MmapSize = 8
    DefaultPage = 4
    HostPage = 8
    BaseRa = 999
    Strings <- MCStrings
    Arguments <- MCArguments
    Environments <- MCEnvironments
    Binaries <- MCBinaries

SPECIFICATION Spec

\* main() hands over to the guest
CHECK_DEADLOCK FALSE

INVARIANTS
    TypeOK
    ArenaUntouched
    GuestSeesArguments
    SectionsLoaded
    HeapIsFree
