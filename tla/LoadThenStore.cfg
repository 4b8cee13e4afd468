CONSTANTS
    LastAddr = 3
    Width = 4
    MemSize = 4
    Reg <- MCReg
    Programs <- StoreToLoadedAddressProgram
    InitRegs <- MCRegs
    InitMem <- MCMem
SPECIFICATION Spec
INVARIANT LoadUseSeparated
