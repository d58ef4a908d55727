\* Notifications of two rules on their way to a receiver.
CONSTANTS
    Rules <- MCRules
    Samples <- MCSamples
    PassSlots = {p1, p2}
    Closers = {c1}
    NoPass = NoPass
    Interval = 1
    MaxClock = 2
    Urls = {u1}
    maxAttempts = 2
SPECIFICATION DeliverySpec
SYMMETRY Interchangeable
INVARIANTS
    ReceiversAgreeWithSnapshot
PROPERTIES
    ArrivesInOrder
CHECK_DEADLOCK FALSE
