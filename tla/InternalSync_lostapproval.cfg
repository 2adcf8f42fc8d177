SPECIFICATION MCSpec
CONSTANTS
    Syncs = {s1}
    NumItems = 1
    Contents = {c1}
    MaxEdits = 0
    Reverting = {}
    Records = {i1, i2, i3}
    PageSize = 2
    Settings <- QuietRunbooks
    Outdated = Outdated
INVARIANTS
    NothingLost
