CONSTANTS
    TxTicks = 5
    RxTicks = 13
    MaxHold = 4
    MaxOther = 2
    MaxPuts = 1
    MaxBytes = 2
SPECIFICATION ConsoleSpec
INVARIANT UnreadIsValid
