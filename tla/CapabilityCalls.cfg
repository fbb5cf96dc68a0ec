SPECIFICATION FairSpec
CONSTANTS
    None = None  r1 = r1  r2 = r2  m1 = m1  m2 = m2  k1 = k1
    Reads = {r1, r2}
    Mutations = {m1, m2}
    Keys = {k1}
    KeyOf <- SameKey
    MaxConcurrent = 2
    MaxQueue = 2
INVARIANTS StaleIsPaidFor TokensAreHeld
PROPERTY CallsGetThrough
CHECK_DEADLOCK FALSE
