SPECIFICATION Spec
CONSTANTS
    None = None
    o1 = o1
    o2 = o2
    o3 = o3
    a = a
    b = b
    r1 = r1
    d1 = d1
    Device <- OneDevice
    Op <- ThreeOps
    Owner <- TwoOwners
    Request <- OneRequest
    Ttl <- Durations
    MaxTime = 2
SYMMETRY Alike
CHECK_DEADLOCK FALSE
INVARIANTS
    TypeOK
    LeaseExclusive
    ExpiredIsNoObstacle
    ReleasedOnce
    SentUnderOwnLease
    AuditIsFaithful
PROPERTIES
    LeaseKept
    ImplementsAdmission
