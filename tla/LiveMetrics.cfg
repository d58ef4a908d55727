\* Calls of startMetrics that overlap with each other and with close(), or in turn;
\* and jobs that are removed, retried and run again while their events are on the way.
CONSTANTS
    k1 = k1
    k2 = k2
    k3 = k3
    Queues = {q1, q2}
    Explicit = {q1}
    Discover = TRUE
    Calls <- MCCalls
    NoCall = NoCall
    Scenarios <- MCScenarios
    Jobs = {"a"}
    Reasons = {"timeout", "blank"}
    SignatureOf <- MCSignatureOf
    Null = "null"
    Stores <- MCStores
    MaxRuns = 2
    MaxClock = 3
SPECIFICATION LiveSpec
INVARIANTS
    CollectorsAreUp
    CountsAndCloses
    CountsEveryFinish
    EventTellsOfOneRun
CHECK_DEADLOCK FALSE
