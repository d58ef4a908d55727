\* The rescan of the standalone server, which does not wait for the last one.
CONSTANTS
    k1 = k1
    k2 = k2
    k3 = k3
    Queues = {q1}
    Explicit = {q1}
    Discover = FALSE
    Calls <- MCCalls
    NoCall = NoCall
    Scenarios <- OnlyOverlapping
    Jobs = {"a"}
    Reasons = {"timeout", "blank"}
    SignatureOf <- MCSignatureOf
    Null = "null"
    Stores <- MCStores
    MaxRuns = 2
    MaxClock = 3
SPECIFICATION LiveSpec
INVARIANT OneCollectorPerQueue
CHECK_DEADLOCK FALSE
