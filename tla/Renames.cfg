SPECIFICATION Spec
CONSTANTS
    a = a
    b = b
    Pupils = {a, b}
    Order <- AThenB
    Rosters <- OnlyBoth
    Legacy <- OldRowsOfB
    FirstNames <- TwoNamesOrTwins
    Rotations <- NobodyOneOrBoth
    Departures <- OnlyA
    MayFail = TRUE
    MaxIds = 5
    MaxNames = 3
INVARIANT TypeOK
INVARIANT KeysDistinct
INVARIANT KeyStaysWithChild
INVARIANT FiledUnderOwner
PROPERTY NothingShownIsLost
PROPERTY RowsKeepOwner
