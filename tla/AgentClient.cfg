\* Three losses until the delay overflows, two requests.
SPECIFICATION FairSpec
CONSTANTS
    None = None
    r1 = r1
    r2 = r2
    Request <- TwoRequests
    MaxExponent = 3
CHECK_DEADLOCK FALSE
INVARIANTS
    TypeOK
    EndsForAReason
PROPERTIES
    EndIsObeyed
    LossIsNoticed
    ImplementsServant
