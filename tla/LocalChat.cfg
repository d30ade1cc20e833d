\* Two turns of up to two proposals, two ids; the scope is MCLocalChat's.
SPECIFICATION FairSpec
CONSTANTS
    i1 = i1
    i2 = i2
    None = None
    Id <- TwoIds
    Writer <- Writers
    MaxActions = 2
    MaxTurns = 2
CHECK_DEADLOCK FALSE
CONSTRAINT Scope
INVARIANTS
    TypeOK
    AuditIsFaithful
    FileIntact
PROPERTIES
    ImplementsConsent
    SessionGoesOn
