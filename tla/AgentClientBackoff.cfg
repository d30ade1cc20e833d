\* The backoff after a connection that worked: no requests.
SPECIFICATION Spec
CONSTANTS
    None = None
    r1 = r1
    r2 = r2
    Request <- TwoRequests
    MaxExponent = 2
CHECK_DEADLOCK FALSE
INVARIANTS
    BackoffResets
