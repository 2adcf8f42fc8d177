SPECIFICATION MCSpec
CONSTANTS
    Requests = {r1, r2, r3}
    Texts = {a, b}
    NoText = NoText
    Unset = Unset
    MaxEdits = 2
    Docs = {d1, d2, d3}
    NoDoc = NoDoc
    Passes = {j1, j2}
    MinSupport = 2
    Entities = {e1, e2, e3, e4}
    Origin = e1
    Projects = {e4}
    MaxDepth = 2
    MaxNodes = 3
    MaxRelations = 4
    Responders = {q1, q2}
    Drafts = {n1, n2}
    Causes = {c1, c2}
    NoDraft = NoDraft
    MaxNotes = 1
INVARIANTS
    KnowledgeTypeOK
    SearchFollowsReview VersionCountsEdits
    EvidenceStands
    
PROPERTIES DetectionConverges PostmortemsAreSettled
CHECK_DEADLOCK FALSE
