SPECIFICATION MCSpec
CONSTANTS
    Asks = {1, 2}
    MaxRetries = 0
    Budget = 3
    MinEvidence = 2
    Questions = {"q1", "q2", "q3"}
    Topics = {"t1", "t2"}
    TopicOf <- MCTopicOf
    Reports = {1, 2}
    NoTopic = NoTopic
    Runs = {1, 2}
    MinCluster = 2
    Plain = {"x", "n", "s", "h"}
    MaxLength = 7
    MaxMarked = 4
    MaxChars = 2
    Chunks = {"k1", "k2", "k3", "k4", "k5", "k6"}
    Info <- MCInfo
    Incidents = {"i1"}
    NoIncident = NoIncident
    TopK = 2
    Narrow = 2
    Room = 2
    MaxEvidence = 3
    MaxChanges = 2
    Addresses = {e1}
    Accounts = {1}
    Slugs = {o1, o2}
    Configured = {o2}
    Visitors = {1, 2}
    Nobody = Nobody
    MaxErasures = 1
    Calls = {1, 2}
    Tenants = {o1, o2}
    Connections = {k1, k2}
    NoConnection = NoConnection
    NoTenant = NoTenant
    MaxCommits = 1
    Pages = {"p1"}
    Persons = {"u1", "u2"}
    Firms = {"f1", "f2"}
    Members <- MCMembers
    LoginsTo <- MCLoginsTo
    Nothing = Nothing
    MaxSessions = 2
    MaxReloads = 1
    MaxCrossings = 1
    Passages = {"s1", "s2"}
    DocumentOf <- MCDocumentOf
    Claims = {"a", "b", "c"}
    NoClaim = NoClaim
    Support <- MCSupport
    Cosines = {20, 50, 70}
    Calibrated = {20, 500, 900}
    NoMatch = NoMatch
    Threshold = 500
    References = {"e1", "e2"}
    Invented = "fake"
    Stated = {3, 9, 12}
    MinItems = 2
    Certain = 8
    MinCited = 2
    MaxTries = 2
INVARIANTS
    ServicesTypeOK
     RepliesAreEarned
    GapsAreReportedOnce
    PassagesAreSound
    EntryIsEarned  PageIsOfItsSession
CHECK_DEADLOCK FALSE
