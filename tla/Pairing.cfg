\* Three redemptions of a code with two attempts, one of two ticks' duration.
SPECIFICATION Spec
CONSTANTS
    None = None
    c1 = c1
    c2 = c2
    c3 = c3
    l1 = l1
    l2 = l2
    p1 = p1
    p2 = p2
    p3 = p3
    Code <- ThreeCodes
    Locator <- TwoLocators
    LocatorOf <- MCLocatorOf
    Redemption <- ThreeRedemptions
    Ttl = 1
    MaxAttempts = 2
    MaxTime = 2
SYMMETRY Alike
CHECK_DEADLOCK FALSE
INVARIANTS
    TypeOK
    GuessesArePaid
    CredentialIsEarned
PROPERTIES
    ImplementsVoucher
