SPECIFICATION WalkSpec
CONSTANTS
    Items = {"a", "b", "c"}
    Home <- MCHome
    Number <- MCNumber
    NumPlaces = 2
    PageSize = 1
    MaxClock = 4
INVARIANT LinksAreEarnedOnFailure
CHECK_DEADLOCK FALSE
