CONSTANTS
    v1 = v1
    v2 = v2
    v3 = v3
    v4 = v4
    v5 = v5
    NoSigner = NoSigner
    Threads = {1}
    Signers = {v1, v2, v3, v4, v5}
    SpanIds = {0}
    ValidatorsOf <- FiveValidators
    SpanSize = 10
    CacheSize = 1
    MaxBlock = 6
    UnwindSlack = 1
SPECIFICATION CachedSpec
INVARIANT NoDoubleSign
