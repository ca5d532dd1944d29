CONSTANTS
    v1 = v1
    v2 = v2
    SpanIds = {0, 1, 2, 3}
    Spans <- MCSpans
    max_size = 3
SPECIFICATION ClientSpec
INVARIANTS
    TypeOK
    OrderTracksMap
    CapacityRespected
PROPERTY RefinesLru
