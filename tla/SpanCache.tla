----------------------------- MODULE SpanCache -----------------------------
(***************************************************************************)
(* heimdall-client/src/cache.rs: the cache of Heimdall spans.  A HashMap   *)
(* holds the spans and a Vec, `access_order', the order of their use; the  *)
(* back of the Vec is the span used last.  The two structures are updated  *)
(* separately, so that they agree is an invariant and not a given.         *)
(***************************************************************************)
EXTENDS Naturals, Sequences, FiniteSets

CONSTANTS
    SpanIds,    \* the span ids in use
    Spans,      \* the spans Heimdall may hand out, records with a field id
    max_size    \* the capacity; the code evicts nothing when it is 0

ASSUME SpanCacheAssumption ==
    /\ max_size \in Nat
    /\ \A s \in Spans : s.id \in SpanIds

VARIABLES
    spans,          \* the cached spans, by id
    access_order    \* the cached ids, least recently used first

vars == <<spans, access_order>>

\* SpanCache::new
Init ==
    /\ spans = [i \in {} |-> {}]
    /\ access_order = <<>>

contains(id) == id \in DOMAIN spans

len == Cardinality(DOMAIN spans)

\* Vec::remove(pos): the sequence without its element at position pos.
Remove(s, pos) ==
    [i \in 1..(Len(s) - 1) |-> IF i < pos THEN s[i] ELSE s[i + 1]]

\* Iterator::position: where id occurs first.
Position(s, id) ==
    CHOOSE p \in 1..Len(s) : s[p] = id /\ \A q \in 1..(p - 1) : s[q] # id

\* Mutant of touch: the old position is left in the Vec.
touch_KeepOld(id) == Append(access_order, id)

\* The access order after id was promoted to most recently used.
touch(id) ==
    LET rest == IF \E p \in 1..Len(access_order) : access_order[p] = id
                THEN Remove(access_order, Position(access_order, id))
                ELSE access_order
    IN  Append(rest, id)

\* get: a hit promotes the span, a miss changes nothing.
get(id) ==
    /\ access_order' = IF contains(id) THEN touch(id) ELSE access_order
    /\ UNCHANGED spans

\* The first branch of insert: the id is present, the span is replaced.
Replace(span) ==
    /\ contains(span.id)
    /\ spans' = [spans EXCEPT ![span.id] = span]
    /\ access_order' = touch(span.id)

\* Mutant of Evicted: the map is let grow one entry past its capacity.
Evicted_Late ==
    IF len > max_size /\ max_size > 0 /\ access_order # <<>>
    THEN {Head(access_order)}
    ELSE {}

\* The ids insert evicts: the first of the access order, when the map is full.
Evicted ==
    IF len >= max_size /\ max_size > 0 /\ access_order # <<>>
    THEN {Head(access_order)}
    ELSE {}

\* Mutant of Add: the span is stored under the id of its successor.
Add_NextId(span) ==
    /\ ~contains(span.id)
    /\ spans' = [i \in (DOMAIN spans \ Evicted) \cup {span.id + 1} |->
                    IF i = span.id + 1 THEN span ELSE spans[i]]
    /\ access_order' = Append(IF Evicted = {} THEN access_order
                                              ELSE Tail(access_order), span.id + 1)

\* Mutant of Add: the victim leaves the access order and stays in the map.
Add_OrphanInMap(span) ==
    /\ ~contains(span.id)
    /\ spans' = [i \in DOMAIN spans \cup {span.id} |->
                    IF i = span.id THEN span ELSE spans[i]]
    /\ access_order' = Append(IF Evicted = {} THEN access_order
                                              ELSE Tail(access_order), span.id)

\* The rest of insert: evict if at capacity, then add.
Add(span) ==
    /\ ~contains(span.id)
    /\ spans' = [i \in (DOMAIN spans \ Evicted) \cup {span.id} |->
                    IF i = span.id THEN span ELSE spans[i]]
    /\ access_order' = Append(IF Evicted = {} THEN access_order
                                              ELSE Tail(access_order), span.id)

insert(span) == Replace(span) \/ Add(span)

Next ==
    \/ \E id \in SpanIds : get(id)
    \/ \E span \in Spans : insert(span)

Spec == Init /\ [][Next]_vars

-----------------------------------------------------------------------------
(***************************************************************************)
(* Properties                                                              *)
(***************************************************************************)

\* The map holds spans, the access order holds ids.
TypeOK ==
    /\ DOMAIN spans \subseteq SpanIds
    /\ spans \in [DOMAIN spans -> Spans]
    /\ access_order \in Seq(SpanIds)

Elements(s) == {s[p] : p \in 1..Len(s)}

Distinct(s) == \A p, q \in 1..Len(s) : s[p] = s[q] => p = q

\* w was used before x.
Before(s, w, x) == \E p, q \in 1..Len(s) : p < q /\ s[p] = w /\ s[q] = x

\* The Vec lists exactly the ids of the map, each of them once: touch never
\* leaves a second copy behind, and eviction takes the victim out of both.  A
\* span is found under its own id only.
OrderTracksMap ==
    /\ Distinct(access_order)
    /\ DOMAIN spans = Elements(access_order)
    /\ \A id \in DOMAIN spans : spans[id].id = id

\* A cache with a capacity never holds more spans than that: insert evicts
\* before it adds, never after.
CapacityRespected == max_size > 0 => len <= max_size

=============================================================================
