CONSTANTS
    LastAddr = 3
    Width = 4
SPECIFICATION FairSpec
INVARIANTS TypeOK InOrderIssue DoneIsTaken Inv
PROPERTIES BubblesAreInert StreamNeverStops
