--------------------------- MODULE MCSpanPrefetch ---------------------------
(***************************************************************************)
(* Five spans, the code's PREFETCH_AHEAD and MAX_RETRIES, and the smallest *)
(* cache that holds what the task and the node need at once.               *)
(***************************************************************************)
EXTENDS SpanPrefetch

\* Spans of span_size blocks throughout.
EvenSpans == [i \in 0..(MaxSpan + 1) |-> i * span_size]

\* From the third span on, as from Rio on, spans are half as long.
ShorterSpans ==
    [i \in 0..(MaxSpan + 1) |->
        IF i <= 2 THEN i * span_size ELSE 2 * span_size + (i - 2) * (span_size \div 2)]

=============================================================================
