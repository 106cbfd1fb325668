SPECIFICATION Spec
CONSTANTS
    Keys = {a, b, c}
    Buckets = {0}
    BucketOf <- MCBucketOf
    Recs = {r1, r2, r3, r4}
    Nodes = {n1, n2, n3}
    Walkers = {w1}
    PerNode = 2
    Tries = 2
    MaxWedged = 1
    None = None
INVARIANTS TypeOK NoUseAfterFree LookupExact BlocksAccounted IndexPublished
CHECK_DEADLOCK FALSE
SYMMETRY Symmetry
