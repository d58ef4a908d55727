\* Two replicas, which may die, write an event with a counter and a histogram, or two
\* events, into one bucket or two; keys expire and a query runs meanwhile;
\* or deploy markers are recorded and queried.
CONSTANTS
    Null = Null
    Replicas = {r1, r2}
    width = 2
    retention = 2
    Markers = {m1, m2}
    Times = {0, 1, 2}
    Queues = {q1}
    Global = Global
    Scenarios <- MCScenarios
SPECIFICATION RedisSpec
SYMMETRY Interchangeable
INVARIANTS
    Converges
    ReadsAreSound
    KeysExpire
    FindsWhatWasRecorded
CHECK_DEADLOCK FALSE
