\* The documented meaning of cooldownMs, measured where the POSTs arrive.
CONSTANTS
    Rules <- MCRules
    Samples <- MCSamples
    PassSlots = {p1, p2}
    Closers = {c1}
    NoPass = NoPass
    Interval = 2
    MaxClock = 5
SPECIFICATION Spec
PROPERTY RepeatsSpacedAtReceiver
CHECK_DEADLOCK FALSE
