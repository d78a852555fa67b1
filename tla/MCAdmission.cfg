SPECIFICATION FairSpec
CONSTANTS
    r1 = r1
    r2 = r2
    r3 = r3
    r4 = r4
    Requests = {r1, r2, r3, r4}
    MaxUpstream = 1
    MaxQueued = 2
    MaxBytes = 3
    Bytes <- MCBytes
INVARIANTS
    TypeOK
    LeasesBacked
    QueueExact
    BytesAccounted
    AcceptedBytesBounded
PROPERTIES
    AcquireReturns
    ImplementsLeasePool
