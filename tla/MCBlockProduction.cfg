CONSTANTS
    sprint_size = 2
    span_size = 4
    gas_limit = 3
    limit = 2
    MADHUGIRI_BLOCK = 6
    MaxBlock = 8
    MaxEvents = 3
    MaxUnwinds = 1
    UserTxs <- MixedBlocks
    ContextFilled = TRUE
SPECIFICATION Spec
INVARIANTS
    EventsOnceInOrder
    PayloadIsExecuted
    SpansCommitInOrder
    EventsWaitTheirTurn
    ReceiptsAddUp
    BorReceiptIsOwn
