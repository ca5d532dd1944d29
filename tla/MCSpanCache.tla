---------------------------- MODULE MCSpanCache ----------------------------
(***************************************************************************)
(* Four span ids and two versions of each span in a cache of three.        *)
(***************************************************************************)
EXTENDS SpanCacheClient

CONSTANTS v1, v2

MCSpans == [id : SpanIds, validators : {v1, v2}]

=============================================================================
