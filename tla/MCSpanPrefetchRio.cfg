CONSTANTS
    MaxSpan = 4
    SpanStart <- ShorterSpans
    span_size = 2
    PREFETCH_AHEAD = 2
    CacheSize = 4
    MAX_RETRIES = 3
    BASE_RETRY_DELAY = 500
SPECIFICATION Spec
INVARIANT LookupCoversBlock
