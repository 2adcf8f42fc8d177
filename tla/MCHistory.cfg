SPECIFICATION MCFairSpec
CONSTANTS
    Syncs = {s1}
    NumItems = 2
    Contents = {c1, c2, c3}
    MaxEdits = 2
    Reverting = {2}
    Records = {i1, i2, i3, i4}
    PageSize = 2
    Settings <- AllSettings
    Outdated = Outdated
INVARIANTS
    HistoryTypeOK
    
    OneCurrentVersion
    Chronology
    ListingsAreWalkedWhole
PROPERTIES
    WalksBringEdits
