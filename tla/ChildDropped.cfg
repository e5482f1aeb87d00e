SPECIFICATION Spec
CONSTANTS
    x = x
    y = y
    w = w
    Accounts <- TwoSchools
    FirstChildren <- AtFirst
    ChildrenOf <- Families
    Kinds <- AllKinds
    MaxSecret = 3
    MaxSaves = 2
SYMMETRY Alike
INVARIANT FollowedSurvivesReload
