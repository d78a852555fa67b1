SPECIFICATION Spec
CONSTANTS
    c1 = c1
    c2 = c2
    NilConn = NilConn
    Conns <- MCConns
    IdSpace = 4
    MaxPreparedID = 1
    MaxWrites = 1
    TextKinds = {"begin", "rollback"}
    PreparedKinds = {"write"}
SYMMETRY Handles
INVARIANTS
    RollbackClearsState
