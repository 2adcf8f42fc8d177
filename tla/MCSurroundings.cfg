SPECIFICATION MCSpec
CONSTANTS
    Items = {"a", "b", "c"}
    Home <- MCHome
    Number <- MCNumber
    NumPlaces = 2
    PageSize = 1
    MaxClock = 4
    Processes = {api, worker}
    Orgs = {g1}
    Projects = {p1}
    OwnerOf <- MCOwnerOf
    Connectors = {d1}
    Registrations = {"r1", "r2"}
    LocalKeys = {x1}
    NoSecret = NoSecret
    MaxVersions = 2
    MaxDeploys = 2
    Unit = 3
    Rates = {1, 2, 5}
    Capacities = {3, 7}
    NoCapacity = NoCapacity
    MinTTL = 2
    Callers = {c1, c2}
    Corpus = {"fabricated", "refused"}
    Expected <- MCExpected
    Declining = {"refused"}
    Reviewers = {"r1", "r2"}
    Opinions = {"substantive_answer", "no_answer"}
    Commands = {"k1", "k2"}
    Trials = {"t"}
    Floor = 1
    MaxEdits = 1
    MaxCommands = 3
CONSTRAINT FewLeftOut
INVARIANTS
    SurroundingsTypeOK
    WalksPassOverNothing
    SecretsOpen
    LimitHolds
    TruthIsEarned
CHECK_DEADLOCK FALSE
