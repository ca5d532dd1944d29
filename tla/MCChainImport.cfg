CONSTANTS
    v1 = v1
    v2 = v2
    v3 = v3
    v4 = v4
    v5 = v5
    NoSigner = NoSigner
    Threads = {1}
    Signers = {v1, v2, v3, v4}
    SpanIds = {0, 1}
    ValidatorsOf <- GrowingSet
    SpanSize = 4
    CacheSize = 2
    MaxBlock = 6
    UnwindSlack = 0
SPECIFICATION Spec
INVARIANTS
    ImportInv
    NoDoubleSign
    RecentsBounded
    SomeoneCanSign
PROPERTIES
    RejectionsJustified
    RefinesSignedChain
SYMMETRY Interchangeable
