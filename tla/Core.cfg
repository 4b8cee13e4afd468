CONSTANTS
    LastAddr = 5
    Width = 4
    MemSize = 4
    Reg <- MCReg
    Programs <- CorePrograms
    InitRegs <- MCRegs
    InitMem <- MCMem
SPECIFICATION FairSpec
INVARIANT TypeOK
PROPERTIES ImplementsISA ImplementsControl HeldStoreIsIdempotent ReachesLast
