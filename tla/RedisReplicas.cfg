\* Two replicas write the same events.
CONSTANTS
    Null = Null
    Replicas = {r1, r2}
    width = 2
    retention = 2
    Markers = {m1, m2}
    Times = {0, 1, 2}
    Queues = {q1}
    Global = Global
    Scenarios <- OneEvent
SPECIFICATION RedisSpec
INVARIANT CountedOnce
CHECK_DEADLOCK FALSE
