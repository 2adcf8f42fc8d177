SPECIFICATION FairSpec
CONSTANTS
    Syncs = {s1}
    NumItems = 2
    Contents = {c1, c2}
    MaxEdits = 2
    Reverting = {1, 2}
PROPERTY EventuallyCurrent
