CONSTANTS
    sprint_size = 2
    span_size = 4
    gas_limit = 3
    limit = 2
    MADHUGIRI_BLOCK = 2
    MaxBlock = 5
    MaxEvents = 3
    MaxUnwinds = 1
    UserTxs <- MixedBlocks
    ContextFilled = FALSE
SPECIFICATION Spec
INVARIANT SystemCallsTakeEffect
