\* Safety and liveness of the evaluation loop, and its implementation of AlertEpisodes.
CONSTANTS
    Rules <- MCRules
    Samples <- MCSamples
    PassSlots = {p1, p2}
    Closers = {c1, c2}
    NoPass = NoPass
    Interval = 2
    MaxClock = 5
SPECIFICATION FairSpec
INVARIANTS
    TypeOK
    OnePassAtATime
    SnapshotAgreesWithNotifications
    SnapshotCoherent
PROPERTIES
    BreachStartStable
    InertAfterClose
    ImplementsEpisodes
    PassesAndCloseEnd
\* After close() has returned nothing happens any more.
CHECK_DEADLOCK FALSE
