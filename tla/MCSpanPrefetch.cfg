CONSTANTS
    MaxSpan = 4
    SpanStart <- EvenSpans
    span_size = 2
    PREFETCH_AHEAD = 2
    CacheSize = 4
    MAX_RETRIES = 3
    BASE_RETRY_DELAY = 500
SPECIFICATION FairSpec
INVARIANTS
    CallsSettle
    PassCoversBlock
    PrefetchedStayCached
    LookupCoversBlock
PROPERTY TipSpanGetsCached
