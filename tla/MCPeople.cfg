SPECIFICATION MCSpec
CONSTANTS
    Memories = {m1, m2, m3}
    Persons = {p1, p2}
    Shared = Shared
    Nobody = Nobody
    Members = {p1, p2}
    Notes = {n1}
    Blank = Blank
    NoMemory = NoMemory
    Sessions = {s1, s2}
    Subject = {p1}
    Bystander = p2
    TableSteps <- MCTableSteps
    ProjectIds = {g1, g2}
    General = g1
    Invitations = {i1, i2}
    NoInvitation = NoInvitation
    Callers = {c1, c2}
    Tokens = {t1, t2, t3}
    NoToken = NoToken
    Flows = {f1}
    Users = {u1, u2}
SYMMETRY Symmetry
CONSTRAINT Focus
INVARIANTS
    PeopleTypeOK
    RecallIsSound
    CompletedLeavesNothing
PROPERTIES InvitationsDecide SessionsAreChains
CHECK_DEADLOCK FALSE
