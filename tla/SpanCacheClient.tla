-------------------------- MODULE SpanCacheClient --------------------------
(***************************************************************************)
(* The span cache seen by its users (the consensus engine and the span     *)
(* prefetcher), who remember in which order they used which span.  The     *)
(* module ties the Vec of SpanCache to real recency of use: a lookup that  *)
(* answered from the cache and forgot to promote the span would pass every *)
(* check that reads only the cache's own fields.                           *)
(***************************************************************************)
EXTENDS SpanCache

VARIABLES
    used,       \* every id ever used
    recency     \* <<a, b>> \in recency: a was last used before b was

clientVars == <<spans, access_order, used, recency>>

\* The client's history after it used id: every other id was used before.
Use(id) ==
    /\ used' = used \cup {id}
    /\ recency' = {p \in recency : id \notin {p[1], p[2]}} \cup ((used \ {id}) \X {id})

ClientInit == Init /\ used = {} /\ recency = {}

\* A lookup is a use when it hits; the caller of a miss gets nothing.
Lookup(id) ==
    /\ get(id)
    /\ IF contains(id) THEN Use(id) ELSE UNCHANGED <<used, recency>>

Store(span) == insert(span) /\ Use(span.id)

ClientNext ==
    \/ \E id \in SpanIds : Lookup(id)
    \/ \E span \in Spans : Store(span)

ClientSpec == ClientInit /\ [][ClientNext]_clientVars

-----------------------------------------------------------------------------

\* The order of use of the cached spans, read off the client's history.
UseOrder == {p \in recency : contains(p[1]) /\ contains(p[2])}

Lru == INSTANCE LruCache WITH
    Keys <- SpanIds,
    Entries <- Spans,
    Capacity <- max_size,
    contents <- spans,
    older <- UseOrder

\* HashMap and Vec together implement a least-recently-used cache over the
\* client's own order of use: insert only ever evicts the span that was
\* looked up or stored longest ago, and only when the cache is full.
RefinesLru == Lru!Spec

=============================================================================
