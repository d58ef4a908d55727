\* Each part of the page with every answer late, out of order or lost; and the demo,
\* with a name that is not configured.
CONSTANTS
    Queues = {q1, q2}
    Tabs = {"waiting", "failed"}
    Polls = {"summary", "jobs", "dlq"}
    Gathers = {"dlq"}
    NoData = NoData
    MaxMoves = 3
    FormQueues = {1, 2}
    Texts = {"", "x"}
    NoQueue = NoQueue
    NoResult = NoResult
    MaxRuns = 5
    MaxUnderWay = 2
    Screens <- MCScreens
    PaletteQueues <- MCPaletteQueues
    Matches <- MCMatches
    Overview = "overview"
    MaxKeys = 6
    Targets = {t1, t2}
    None = None
    MaxOpens = 3
    MaxMutations = 2
    QUEUES <- MCDemoQueues
    CountsOf <- MCCounts
    SampleLimit <- MCLimit
    Sigs = {g1, g2}
    NoSig = NoSig
    UnknownName = ghost
    FirstId = 9
    MaxPending = 1
SPECIFICATION Spec
INVARIANTS
    StaleOnlyUntilAnAnswer
    FormFollowsItsRuns
    SelectionInList
    DrawerActsOnWhatItShows
    OneStory
PROPERTIES
    NeverGoesBack
    TotalFollowsActions
    PollSettles
CHECK_DEADLOCK FALSE
