CONSTANTS
    v1 = v1
    v2 = v2
    v3 = v3
    NoSigner = NoSigner
    Threads = {1, 2}
    Signers = {v1, v2, v3}
    SpanIds = {0}
    ValidatorsOf <- ThreeValidators
    SpanSize = 10
    CacheSize = 1
    MaxBlock = 3
SPECIFICATION Spec
INVARIANT NoDoubleSign
