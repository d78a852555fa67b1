SPECIFICATION ProtocolSpec
CONSTANTS
    k1 = k1
    k2 = k2
    k3 = k3
    h1 = h1
    h2 = h2
    Conns = {k1, k2, k3}
    Hosts = {h1, h2}
    HostOf <- MCHostOf
    Scenarios <- MCScenarios
    MaxFailures = 2
    Window = 2
    Lockout = 2
    MaxEntries = 1
    MaxTime = 4
    Overflow = Overflow
    Requests = {r1, r2}
    Clients = {a1, a2, a3, a4}
    MaxClients = 2
    MaxLoginFailures = 2
    Minute = 2
    MaxLoginTime = 3
    MaxCount = 2
    MaxColumns = 2
    MaxRows = 3
    MaxFrames = 2
    SequenceSpan = 4
    MaxWarnings = 4
    MaxUint16 = 2
    MaxParams = 2
    MaxLongData = 2
    Chunks <- MCChunks
    MaxText = 4
    Queries <- MCQueries
    ValueBase = 6
    ValueInputs <- MCValueInputs
    TimeBase = 64
    TimeInputs <- MCTimeInputs
SYMMETRY MCSymmetry
CHECK_DEADLOCK FALSE
INVARIANTS
    ProtocolTypes
    HandshakeSound
    LimiterSound
    RepliesSound
    
    
    
PROPERTIES
    LoginLimiterSound
