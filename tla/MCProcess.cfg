SPECIFICATION ProcessSpec
CONSTANTS
    Modes = {"disabled", "pooled", "transparent"}
    MaxClients = 2
    Settings <- MCSettings
    Conns = {k1, k2, k3}
    MaxConnections = 2
    Clients = {k1, k2}
    MaxRelayed = 1
INVARIANTS
    ProcessTypes
    
    ExitTruthful
    NothingEscapes
    RelaySound
PROPERTIES
    StopsOnSignal
    ServeStops
    CancelClosesAll
