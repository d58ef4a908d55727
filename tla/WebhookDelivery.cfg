CONSTANTS
    Urls = {u1, u2}
    configuredAttempts = 3
    timeout = 3
    backoffUnit = 1
SPECIFICATION FairSpec
INVARIANTS
    AttemptsAccountedFor
PROPERTIES
    ImplementsContract
    AlwaysResolves
\* A settled call stops.
CHECK_DEADLOCK FALSE
