SPECIFICATION TrafficSpec
CONSTANTS
    Sessions = {s1, s2}
    MaxUpstream = 2
    MaxQueued = 1
    Callers = {k1, k2}
    Slots = {c1}
    Volatile <- MCVolatile
    HasDatabase = TRUE
    Bytes = {"x", "y"}
    Payloads <- MCPayloads
    FramePayload = 2
    MaxMessageBytes = 4
    SequenceSpan = 4
    MaxMessages = 2
    MaxForeign = 3
CHECK_DEADLOCK FALSE
INVARIANTS
    TrafficTypes
    HoldingsExact
    CheckoutSafe
    BufferBounded
PROPERTIES
    ImplementsLeasePool
    CommandsAnswered
    CheckoutReturns
    ImplementsChannel
