\* request() against a replacement that is being published.
SPECIFICATION Spec
CONSTANTS
    None = None
    d1 = d1
    d2 = d2
    c1 = c1
    c2 = c2
    c3 = c3
    k1 = k1
    k2 = k2
    Device <- OneDevice
    Conn <- TwoConns
    Call <- OneCall
    DeviceOf <- MCDeviceOf
    Target <- MCTarget
    MaxFaults = 0
    MaxRestarts = 0
PROPERTIES
    AnswerReachesCaller
