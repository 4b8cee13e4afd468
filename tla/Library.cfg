SPECIFICATION LibrarySpec
CONSTANTS
    None = None
    LaneBytes = 2
    Permute <- MCPermute
    Starts <- MCStarts
    Text <- MCText
    Lengths <- MCLengths
    MaxAbsorbs = 3
    MaxSqueezes = 3
    PARAM_N = 5
    DRAWS = 16
    Weights = {1, 2, 3}
INVARIANTS
    OutputIsSponge
    OneShotAgrees
    ExpanderCutsAtWords
    WeightIsExact
PROPERTY
    RoundsFollowFIPS202
CHECK_DEADLOCK FALSE
