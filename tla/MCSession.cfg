SPECIFICATION Spec
CONSTANTS
    c1 = c1
    c2 = c2
    NilConn = NilConn
    Conns <- MCConns
    IdSpace = 4
    MaxPreparedID = 2
    MaxWrites = 2
    TextKinds = {"begin", "commit", "rollback", "savepoint", "ddl", "write", "read", "autocommit_off", "autocommit_on"}
    PreparedKinds = {"write", "ddl"}
SYMMETRY Handles
INVARIANTS
    TypeOK
    TokensMatchConnections
    PinnedIffStateful
    HandlesCurrent
    NoNilConnection
    StatusFollowsTx
    NoFalseDurability
PROPERTIES
    TransactionKeepsConnection
