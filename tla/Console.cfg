CONSTANTS
    TxTicks = 5
    RxTicks = 13
    MaxHold = 4
    MaxOther = 2
    MaxPuts = 2
    MaxBytes = 3
SPECIFICATION ConsoleSpec
INVARIANTS PutBytesAreSent BytesAreNotRepeated
PROPERTIES NoneMissedWhilePolling CallsEnd
