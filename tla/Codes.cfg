SPECIFICATION Spec
CONSTANTS
    None = None
    SmallMessages <- MCSmallMessages
    SmallChanges <- MCSmallChanges
    Fillings = {0, 1, 91}
    Channels = {"clean", "one", "first", "last", "spread"}
INVARIANTS
    BlocksSurvive
    SyndromesOfTheErrors
    MarksAreRoots
    MarksAreTheErrors
    MessageIsRecovered
CHECK_DEADLOCK FALSE
