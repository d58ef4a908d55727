\* Events that fit into the Map of series and events that overflow it; late markers,
\* and more of them than fit.
CONSTANTS
    Null = Null
    Events <- MCEvents
    width = 2
    retention = 4
    maxSeries = 6
    maxMarkers = 2
    MarkerIds = {m1, m2, m3}
    MarkerTimes = {0, 3, 5}
    MaxWrites = 4
SPECIFICATION Spec
INVARIANTS
    TypeOK
    ExactWithinRetention
    FailuresInWindows
PROPERTIES
    DropsLeastRecent
\* The writes of the model are bounded.
CHECK_DEADLOCK FALSE
