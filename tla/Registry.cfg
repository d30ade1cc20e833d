SPECIFICATION Spec
CONSTANTS
    None = None
    d1 = d1
    d2 = d2
    c1 = c1
    c2 = c2
    c3 = c3
    k1 = k1
    k2 = k2
    Device <- TwoDevices
    Conn <- ThreeConns
    Call <- OneCall
    DeviceOf <- MCDeviceOf
    Target <- MCTarget
    MaxFaults = 1
    MaxRestarts = 1
SYMMETRY SameDevice
CONSTRAINT SafetyScope
INVARIANTS
    TypeOK
    PresenceBacked
    HealthyIsOnline
    WaiterIsReleased
    LeakOnlyByCancel
    AnswerIsOwn
PROPERTIES
    HealthyKept
    RevokedSticky
    ImplementsRemoteCall
