\* Each part of the server, against workers, other requests and close().
CONSTANTS
    Names = {mail, sync}
    Callers = {q1}
    Closers = {d1, d2}
    MaxMade = 2
    MaxAppear = 1
    Ids = {"a", "b"}
    Replays = {"r1", "r2"}
    Clients = {c1, c2}
    Lists <- MCLists
    SearchJobs = {1, 2, 3}
    StateLists <- MCStateLists
    Signatures = {"e1", "e2"}
    Sought = "e1"
    MaxLimit = 2
    MaxChanges = 2
    PatternLists <- MCPatternLists
    Paths <- MCPaths
    Values = {"u", "v"}
    Masked = "[masked]"
SPECIFICATION Spec
SYMMETRY Interchangeable
INVARIANTS
    ListsWhatIsThere
    ClosesWhatItOpened
    AnswersTellTheTruth
    ReplayLosesNothing
    SearchIsComplete
    MaskFollowsGrammar
PROPERTIES
    SearchIsNoOracle
CHECK_DEADLOCK FALSE
