-------------------------- MODULE SpanCacheProofs --------------------------
(***************************************************************************)
(* The span cache's map and access order agree, the cache stays within its *)
(* capacity, and it is a least-recently-used cache over the order in which *)
(* its users really used it, for every set of span ids, every set of spans *)
(* and every capacity.                                                     *)
(***************************************************************************)
EXTENDS SpanCacheClient, FiniteSetTheorems, TLAPS

\* Vec::remove shortens a sequence by one and keeps its element type.
LEMMA RemoveType ==
    ASSUME NEW S, NEW s \in Seq(S), NEW pos \in 1..Len(s)
    PROVE  /\ Remove(s, pos) \in Seq(S)
           /\ Len(Remove(s, pos)) = Len(s) - 1
           /\ \A i \in 1..(Len(s) - 1) :
                Remove(s, pos)[i] = IF i < pos THEN s[i] ELSE s[i + 1]
  BY DEF Remove

\* Without duplicates, Vec::remove takes out the element at the position and
\* nothing else, and leaves no duplicates.
LEMMA RemoveDistinct ==
    ASSUME NEW S, NEW s \in Seq(S), NEW pos \in 1..Len(s), Distinct(s)
    PROVE  /\ Distinct(Remove(s, pos))
           /\ Elements(Remove(s, pos)) = Elements(s) \ {s[pos]}
  <1> DEFINE r == Remove(s, pos)
  <1>1. /\ r \in Seq(S)
        /\ Len(r) = Len(s) - 1
        /\ \A i \in 1..(Len(s) - 1) : r[i] = IF i < pos THEN s[i] ELSE s[i + 1]
    BY RemoveType
  <1> HIDE DEF r
  <1>2. Distinct(r)
    BY <1>1 DEF Distinct
  <1>3. Elements(r) \subseteq Elements(s) \ {s[pos]}
    BY <1>1 DEF Distinct, Elements
  <1>4. ASSUME NEW x \in Elements(s) \ {s[pos]}
        PROVE  x \in Elements(r)
    <2>1. PICK q \in 1..Len(s) : x = s[q]
      BY <1>4 DEF Elements
    <2>2. CASE q < pos
      <3>1. q \in 1..Len(r) /\ r[q] = x
        BY <1>1, <2>1, <2>2
      <3> QED BY <3>1 DEF Elements
    <2>3. CASE q > pos
      <3>1. (q - 1) \in 1..Len(r) /\ r[q - 1] = x
        BY <1>1, <2>1, <2>3
      <3> QED BY <3>1 DEF Elements
    <2> QED BY <1>4, <2>1, <2>2, <2>3
  <1> QED BY <1>2, <1>3, <1>4 DEF r

\* Pushing a new element keeps a sequence free of duplicates.
LEMMA AppendDistinct ==
    ASSUME NEW S, NEW s \in Seq(S), NEW e \in S, Distinct(s), e \notin Elements(s)
    PROVE  /\ Append(s, e) \in Seq(S)
           /\ Distinct(Append(s, e))
           /\ Elements(Append(s, e)) = Elements(s) \cup {e}
  <1> DEFINE a == Append(s, e)
  <1>1. /\ a \in Seq(S)
        /\ Len(a) = Len(s) + 1
        /\ \A i \in 1..Len(s) : a[i] = s[i]
        /\ a[Len(s) + 1] = e
    OBVIOUS
  <1> HIDE DEF a
  <1>2. Distinct(a)
    BY <1>1 DEF Distinct, Elements
  <1>3. Elements(a) \subseteq Elements(s) \cup {e}
    BY <1>1 DEF Elements
  <1>4. Elements(s) \subseteq Elements(a)
    BY <1>1 DEF Elements
  <1>5. e \in Elements(a)
    <2>1. Len(s) + 1 \in 1..Len(a)
      BY <1>1
    <2> QED BY <1>1, <2>1 DEF Elements
  <1> QED BY <1>1, <1>2, <1>3, <1>4, <1>5 DEF a

\* A position found by Iterator::position is one.
LEMMA PositionFound ==
    ASSUME NEW S, NEW s \in Seq(S), Distinct(s), NEW e \in Elements(s)
    PROVE  Position(s, e) \in 1..Len(s) /\ s[Position(s, e)] = e
  <1>1. PICK p \in 1..Len(s) : s[p] = e
    BY DEF Elements
  <1>2. \A q \in 1..(p - 1) : s[q] # e
    BY <1>1 DEF Distinct
  <1> QED BY <1>1, <1>2 DEF Position

\* touch moves the id to the back: same elements, still no duplicates.
LEMMA TouchKeepsOrder ==
    ASSUME access_order \in Seq(SpanIds), Distinct(access_order),
           NEW id \in Elements(access_order)
    PROVE  /\ touch(id) \in Seq(SpanIds)
           /\ Distinct(touch(id))
           /\ Elements(touch(id)) = Elements(access_order)
  <1> DEFINE pos == Position(access_order, id)
             r == Remove(access_order, pos)
  <1>1. pos \in 1..Len(access_order) /\ access_order[pos] = id
    BY PositionFound
  <1>2. r \in Seq(SpanIds) /\ Distinct(r) /\ Elements(r) = Elements(access_order) \ {id}
    BY <1>1, RemoveType, RemoveDistinct
  <1>3. id \in SpanIds
    BY <1>1
  <1>4. touch(id) = Append(r, id)
    BY <1>1 DEF touch
  <1> HIDE DEF r
  <1>5. id \notin Elements(r)
    BY <1>2
  <1>6. /\ Append(r, id) \in Seq(SpanIds)
        /\ Distinct(Append(r, id))
        /\ Elements(Append(r, id)) = Elements(r) \cup {id}
    BY <1>2, <1>3, <1>5, AppendDistinct
  <1>7. Elements(r) \cup {id} = Elements(access_order)
    BY <1>2
  <1> QED BY <1>4, <1>6, <1>7

\* The victim of an eviction leaves the front of the order and nothing else.
LEMMA TailDistinct ==
    ASSUME NEW S, NEW s \in Seq(S), s # <<>>, Distinct(s)
    PROVE  /\ Tail(s) \in Seq(S)
           /\ Distinct(Tail(s))
           /\ Elements(Tail(s)) = Elements(s) \ {Head(s)}
  <1> DEFINE r == Tail(s)
  <1>1. /\ r \in Seq(S)
        /\ Len(s) \in Nat /\ Len(s) > 0
        /\ Len(r) = Len(s) - 1
        /\ \A i \in 1..Len(r) : r[i] = s[i + 1]
        /\ Head(s) = s[1]
    OBVIOUS
  <1> HIDE DEF r
  <1>2. Distinct(r)
    BY <1>1 DEF Distinct
  <1>3. Elements(r) \subseteq Elements(s) \ {s[1]}
    BY <1>1 DEF Distinct, Elements
  <1>4. ASSUME NEW x \in Elements(s) \ {s[1]}
        PROVE  x \in Elements(r)
    <2>1. PICK q \in 1..Len(s) : x = s[q]
      BY <1>4 DEF Elements
    <2>2. q # 1
      BY <1>4, <2>1
    <2>3. (q - 1) \in 1..Len(r) /\ r[q - 1] = x
      BY <1>1, <2>1, <2>2
    <2> QED BY <2>3 DEF Elements
  <1> QED BY <1>1, <1>2, <1>3, <1>4 DEF r

-----------------------------------------------------------------------------

\* The inductive invariant: the map and the Vec agree.
CacheInv == TypeOK /\ OrderTracksMap

\* A lookup preserves the agreement.
LEMMA GetKeepsInv ==
    ASSUME CacheInv, NEW id \in SpanIds, get(id)
    PROVE  CacheInv'
  <1>1. CASE contains(id)
    <2>1. id \in Elements(access_order)
      BY <1>1 DEF CacheInv, OrderTracksMap, contains
    <2>2. /\ access_order' \in Seq(SpanIds)
          /\ Distinct(access_order')
          /\ Elements(access_order') = Elements(access_order)
          /\ spans' = spans
      BY <1>1, <2>1, TouchKeepsOrder DEF CacheInv, TypeOK, OrderTracksMap, get
    <2> QED BY <2>2 DEF CacheInv, TypeOK, OrderTracksMap
  <1>2. CASE ~contains(id)
    BY <1>2 DEF CacheInv, TypeOK, OrderTracksMap, get, Distinct, Elements
  <1> QED BY <1>1, <1>2

\* Replacing a cached span preserves it.
LEMMA ReplaceKeepsInv ==
    ASSUME CacheInv, NEW span \in Spans, Replace(span)
    PROVE  CacheInv' /\ DOMAIN spans' = DOMAIN spans
  <1>1. span.id \in Elements(access_order)
    BY DEF CacheInv, OrderTracksMap, contains, Replace
  <1>2. /\ access_order' \in Seq(SpanIds)
        /\ Distinct(access_order')
        /\ Elements(access_order') = Elements(access_order)
    BY <1>1, TouchKeepsOrder DEF CacheInv, TypeOK, OrderTracksMap, Replace
  <1>3. /\ DOMAIN spans' = DOMAIN spans
        /\ \A i \in DOMAIN spans : spans'[i] = IF i = span.id THEN span ELSE spans[i]
        /\ spans' \in [DOMAIN spans' -> Spans]
    BY DEF CacheInv, TypeOK, Replace
  <1> QED BY <1>2, <1>3 DEF CacheInv, TypeOK, OrderTracksMap

\* What an eviction removes: at most one id, and it is cached.
LEMMA EvictedCached ==
    ASSUME CacheInv
    PROVE  /\ Evicted \subseteq DOMAIN spans
           /\ Evicted = {} \/ (access_order # <<>> /\ Evicted = {Head(access_order)})
  <1>1. CASE access_order = <<>>
    BY <1>1 DEF Evicted
  <1>2. CASE access_order # <<>>
    <2>1. Head(access_order) \in Elements(access_order)
      <3>1. 1 \in 1..Len(access_order) /\ Head(access_order) = access_order[1]
        BY <1>2 DEF CacheInv, TypeOK
      <3> QED BY <3>1 DEF Elements
    <2> QED BY <1>2, <2>1 DEF Evicted, CacheInv, OrderTracksMap
  <1> QED BY <1>1, <1>2

\* Adding a span, after an eviction or not, preserves the agreement.
LEMMA AddKeepsInv ==
    ASSUME CacheInv, NEW span \in Spans, Add(span)
    PROVE  /\ CacheInv'
           /\ DOMAIN spans' = (DOMAIN spans \ Evicted) \cup {span.id}
  <1> DEFINE rest == IF Evicted = {} THEN access_order ELSE Tail(access_order)
  <1>1. span.id \in SpanIds
    BY SpanCacheAssumption
  <1>2. /\ rest \in Seq(SpanIds)
        /\ Distinct(rest)
        /\ Elements(rest) = DOMAIN spans \ Evicted
    BY EvictedCached, TailDistinct DEF CacheInv, TypeOK, OrderTracksMap
  <1>3. span.id \notin Elements(rest)
    BY <1>2 DEF Add, contains
  <1>4. access_order' = Append(rest, span.id)
    BY DEF Add
  <1> HIDE DEF rest
  <1>5. /\ access_order' \in Seq(SpanIds)
        /\ Distinct(access_order')
        /\ Elements(access_order') = (DOMAIN spans \ Evicted) \cup {span.id}
    BY <1>1, <1>2, <1>3, <1>4, AppendDistinct
  <1>6. /\ DOMAIN spans' = (DOMAIN spans \ Evicted) \cup {span.id}
        /\ \A i \in DOMAIN spans' : spans'[i] = IF i = span.id THEN span ELSE spans[i]
        /\ spans' \in [DOMAIN spans' -> Spans]
    BY DEF Add, CacheInv, TypeOK
  <1> QED BY <1>1, <1>5, <1>6 DEF CacheInv, TypeOK, OrderTracksMap

\* Every step preserves the agreement of map and Vec.
LEMMA StepKeepsInv == CacheInv /\ [Next]_vars => CacheInv'
  <1> SUFFICES ASSUME CacheInv, [Next]_vars PROVE CacheInv'
    OBVIOUS
  <1>1. ASSUME NEW id \in SpanIds, get(id) PROVE CacheInv'
    BY <1>1, GetKeepsInv
  <1>2. ASSUME NEW span \in Spans, insert(span) PROVE CacheInv'
    BY <1>2, ReplaceKeepsInv, AddKeepsInv DEF insert
  <1>3. CASE UNCHANGED vars
    BY <1>3 DEF vars, CacheInv, TypeOK, OrderTracksMap, Distinct, Elements
  <1> QED BY <1>1, <1>2, <1>3 DEF Next

\* The empty cache satisfies it.
LEMMA InitInv == Init => CacheInv
  BY DEF Init, CacheInv, TypeOK, OrderTracksMap, Distinct, Elements

\* The cache's fields keep their types.
THEOREM SpanCacheTypes == Spec => []TypeOK
  <1>1. CacheInv => TypeOK
    BY DEF CacheInv
  <1> QED BY InitInv, StepKeepsInv, <1>1, PTL DEF Spec

\* The Vec of the cache lists the ids of its map, each exactly once, whatever
\* the sequence of lookups and insertions.
THEOREM SpanCacheOrder == Spec => []OrderTracksMap
  <1>1. CacheInv => OrderTracksMap
    BY DEF CacheInv
  <1> QED BY InitInv, StepKeepsInv, <1>1, PTL DEF Spec

-----------------------------------------------------------------------------

\* The inductive invariant with the capacity: the map is finite and not
\* larger than a capacity that is set.
BoundInv == CacheInv /\ IsFiniteSet(DOMAIN spans) /\ CapacityRespected

\* Adding never outgrows the capacity: at capacity there is a victim.
LEMMA AddKeepsBound ==
    ASSUME BoundInv, NEW span \in Spans, Add(span)
    PROVE  BoundInv'
  <1> DEFINE D == DOMAIN spans
  <1>1. CacheInv' /\ DOMAIN spans' = (D \ Evicted) \cup {span.id}
    BY AddKeepsInv DEF BoundInv
  <1>2. span.id \notin D /\ IsFiniteSet(D)
    BY DEF Add, contains, BoundInv
  <1>3. Evicted \subseteq D /\ (Evicted = {} \/ \E v \in D : Evicted = {v})
    BY EvictedCached DEF BoundInv
  <1>4. IsFiniteSet(D \ Evicted) /\ Cardinality(D) \in Nat
    BY <1>2, FS_Difference, FS_CardinalityType
  <1>5. /\ IsFiniteSet(DOMAIN spans')
        /\ Cardinality(DOMAIN spans') = Cardinality(D \ Evicted) + 1
    <2> DEFINE kept == D \ Evicted
    <2>1. IsFiniteSet(kept) /\ span.id \notin kept
      BY <1>2, <1>4
    <2> HIDE DEF kept
    <2>2. /\ IsFiniteSet(kept \cup {span.id})
          /\ Cardinality(kept \cup {span.id}) = Cardinality(kept) + 1
      BY <2>1, FS_AddElement
    <2> QED BY <1>1, <2>2 DEF kept
  <1>6. max_size > 0 => Cardinality(D \ Evicted) + 1 <= max_size
    <2>1. SUFFICES ASSUME max_size > 0
                   PROVE  Cardinality(D \ Evicted) + 1 <= max_size
      OBVIOUS
    <2>2. max_size \in Nat /\ Cardinality(D) <= max_size
      BY <2>1, SpanCacheAssumption DEF BoundInv, CapacityRespected, len
    <2>3. CASE Evicted = {}
      <3>1. ~(Cardinality(D) >= max_size) \/ access_order = <<>>
        BY <2>1, <2>3 DEF Evicted, len
      <3>2. access_order = <<>> => D = {}
        BY DEF BoundInv, CacheInv, OrderTracksMap, Elements
      <3>3. D = {} => Cardinality(D) = 0
        BY FS_EmptySet
      <3>4. Cardinality(D \ Evicted) = Cardinality(D)
        <4>1. D \ Evicted = D
          BY <2>3
        <4> QED BY <4>1
      <3>5. Cardinality(D) < max_size
        <4> HIDE DEF D
        <4> QED BY <1>4, <2>1, <2>2, <3>1, <3>2, <3>3
      <3> QED BY <1>4, <2>2, <3>4, <3>5
    <2>4. CASE Evicted # {}
      <3>1. PICK v \in D : Evicted = {v}
        BY <1>3, <2>4
      <3>2. Cardinality(D \ {v}) = Cardinality(D) - 1
        BY <1>2, FS_RemoveElement
      <3> HIDE DEF D
      <3> QED BY <1>4, <2>2, <3>1, <3>2
    <2> QED BY <2>3, <2>4
  <1> QED BY <1>1, <1>5, <1>6 DEF BoundInv, CapacityRespected, len

\* Every step keeps the cache within its capacity.
LEMMA StepKeepsBound == BoundInv /\ [Next]_vars => BoundInv'
  <1> SUFFICES ASSUME BoundInv, [Next]_vars PROVE BoundInv'
    OBVIOUS
  <1>1. CacheInv'
    BY StepKeepsInv DEF BoundInv
  <1>2. ASSUME DOMAIN spans' = DOMAIN spans PROVE BoundInv'
    BY <1>1, <1>2 DEF BoundInv, CapacityRespected, len
  <1>3. ASSUME NEW id \in SpanIds, get(id) PROVE BoundInv'
    BY <1>2, <1>3 DEF get
  <1>4. ASSUME NEW span \in Spans, Replace(span) PROVE BoundInv'
    BY <1>2, <1>4, ReplaceKeepsInv DEF BoundInv
  <1>5. ASSUME NEW span \in Spans, Add(span) PROVE BoundInv'
    BY <1>5, AddKeepsBound
  <1>6. CASE UNCHANGED vars
    BY <1>2, <1>6 DEF vars
  <1> QED BY <1>3, <1>4, <1>5, <1>6 DEF Next, insert

\* A cache with a capacity never holds more spans than it: eviction in insert
\* always finds a victim in the Vec when the map is full.
THEOREM SpanCacheCapacity == Spec => []CapacityRespected
  <1>1. Init => BoundInv
    <2>1. Init => DOMAIN spans = {}
      BY DEF Init
    <2>2. IsFiniteSet({}) /\ Cardinality({}) = 0
      BY FS_EmptySet
    <2> QED BY <2>1, <2>2, InitInv, SpanCacheAssumption
            DEF BoundInv, CapacityRespected, len
  <1>2. BoundInv => CapacityRespected
    BY DEF BoundInv
  <1> QED BY <1>1, <1>2, StepKeepsBound, PTL DEF Spec

-----------------------------------------------------------------------------
(***************************************************************************)
(* The order of a sequence as a relation, and what the cache's operations  *)
(* make of it.                                                             *)
(***************************************************************************)
\* A new element comes after all others.
LEMMA AppendBefore ==
    ASSUME NEW S, NEW s \in Seq(S), NEW e \in S, NEW w, NEW x
    PROVE  Before(Append(s, e), w, x) <=> Before(s, w, x) \/ (x = e /\ w \in Elements(s))
  <1> DEFINE a == Append(s, e)
  <1>1. /\ Len(s) \in Nat /\ Len(a) = Len(s) + 1
        /\ \A i \in 1..Len(s) : a[i] = s[i]
        /\ a[Len(s) + 1] = e
    OBVIOUS
  <1> HIDE DEF a
  <1>2. ASSUME Before(a, w, x) PROVE Before(s, w, x) \/ (x = e /\ w \in Elements(s))
    <2>1. PICK p, q \in 1..Len(a) : p < q /\ a[p] = w /\ a[q] = x
      BY <1>2 DEF Before
    <2>2. p \in 1..Len(s) /\ s[p] = w
      BY <1>1, <2>1
    <2>3. CASE q = Len(s) + 1
      BY <1>1, <2>1, <2>2, <2>3 DEF Elements
    <2>4. CASE q # Len(s) + 1
      <3>1. q \in 1..Len(s) /\ s[q] = x
        BY <1>1, <2>1, <2>4
      <3> QED BY <2>1, <2>2, <3>1 DEF Before
    <2> QED BY <2>3, <2>4
  <1>3. ASSUME Before(s, w, x) PROVE Before(a, w, x)
    <2>1. PICK p, q \in 1..Len(s) : p < q /\ s[p] = w /\ s[q] = x
      BY <1>3 DEF Before
    <2>2. p \in 1..Len(a) /\ q \in 1..Len(a) /\ a[p] = w /\ a[q] = x
      BY <1>1, <2>1
    <2> QED BY <2>1, <2>2 DEF Before
  <1>4. ASSUME x = e, w \in Elements(s) PROVE Before(a, w, x)
    <2>1. PICK p \in 1..Len(s) : s[p] = w
      BY <1>4 DEF Elements
    <2>2. /\ p \in 1..Len(a) /\ Len(s) + 1 \in 1..Len(a) /\ p < Len(s) + 1
          /\ a[p] = w /\ a[Len(s) + 1] = x
      BY <1>1, <1>4, <2>1
    <2> QED BY <2>2 DEF Before
  <1> QED BY <1>2, <1>3, <1>4 DEF a

\* Vec::remove leaves the order of the others as it is.
LEMMA RemoveBefore ==
    ASSUME NEW S, NEW s \in Seq(S), NEW pos \in 1..Len(s), Distinct(s), NEW w, NEW x
    PROVE  Before(Remove(s, pos), w, x) <=> Before(s, w, x) /\ w # s[pos] /\ x # s[pos]
  <1> DEFINE r == Remove(s, pos)
  <1>1. /\ r \in Seq(S) /\ Len(s) \in Nat
        /\ Len(r) = Len(s) - 1
        /\ \A i \in 1..(Len(s) - 1) : r[i] = IF i < pos THEN s[i] ELSE s[i + 1]
    BY RemoveType
  <1> HIDE DEF r
  <1> DEFINE old(i) == IF i < pos THEN i ELSE i + 1
             new(i) == IF i < pos THEN i ELSE i - 1
  <1>2. \A i \in 1..Len(r) : old(i) \in 1..Len(s) /\ old(i) # pos /\ s[old(i)] = r[i]
    BY <1>1
  <1>3. \A i \in 1..Len(s) : i # pos => new(i) \in 1..Len(r) /\ r[new(i)] = s[i]
    BY <1>1
  <1>4. ASSUME Before(r, w, x) PROVE Before(s, w, x) /\ w # s[pos] /\ x # s[pos]
    <2>1. PICK p, q \in 1..Len(r) : p < q /\ r[p] = w /\ r[q] = x
      BY <1>4 DEF Before
    <2>2. old(p) < old(q)
      BY <1>1, <2>1
    <2> HIDE DEF old
    <2>3. old(p) \in 1..Len(s) /\ old(q) \in 1..Len(s) /\ s[old(p)] = w /\ s[old(q)] = x
      BY <1>2, <2>1
    <2>4. w # s[pos] /\ x # s[pos]
      BY <1>2, <2>3 DEF Distinct
    <2> QED BY <2>2, <2>3, <2>4 DEF Before
  <1>5. ASSUME Before(s, w, x), w # s[pos], x # s[pos] PROVE Before(r, w, x)
    <2>1. PICK p, q \in 1..Len(s) : p < q /\ s[p] = w /\ s[q] = x
      BY <1>5 DEF Before
    <2>2. p # pos /\ q # pos
      BY <1>5, <2>1
    <2>3. new(p) < new(q)
      BY <1>1, <2>1, <2>2
    <2> HIDE DEF new
    <2>4. new(p) \in 1..Len(r) /\ new(q) \in 1..Len(r) /\ r[new(p)] = w /\ r[new(q)] = x
      BY <1>3, <2>1, <2>2
    <2> QED BY <2>3, <2>4 DEF Before
  <1> QED BY <1>4, <1>5 DEF r

\* Nor does taking away the front, which came before all others.
LEMMA TailBefore ==
    ASSUME NEW S, NEW s \in Seq(S), s # <<>>, Distinct(s), NEW w, NEW x
    PROVE  /\ Before(Tail(s), w, x) <=> Before(s, w, x) /\ w # Head(s)
           /\ ~Before(s, w, Head(s))
           /\ x \in Elements(s) /\ x # Head(s) => Before(s, Head(s), x)
  <1> DEFINE r == Tail(s)
  <1>1. /\ r \in Seq(S) /\ Len(s) \in Nat /\ Len(s) > 0
        /\ Len(r) = Len(s) - 1
        /\ \A i \in 1..Len(r) : r[i] = s[i + 1]
        /\ Head(s) = s[1] /\ 1 \in 1..Len(s)
    OBVIOUS
  <1> HIDE DEF r
  <1>2. ASSUME Before(r, w, x) PROVE Before(s, w, x) /\ w # s[1]
    <2>1. PICK p, q \in 1..Len(r) : p < q /\ r[p] = w /\ r[q] = x
      BY <1>2 DEF Before
    <2>2. /\ p + 1 \in 1..Len(s) /\ q + 1 \in 1..Len(s) /\ p + 1 < q + 1 /\ p + 1 # 1
          /\ s[p + 1] = w /\ s[q + 1] = x
      BY <1>1, <2>1
    <2>3. w # s[1]
      BY <1>1, <2>2 DEF Distinct
    <2> QED BY <2>2, <2>3 DEF Before
  <1>3. ASSUME Before(s, w, x), w # s[1] PROVE Before(r, w, x)
    <2>1. PICK p, q \in 1..Len(s) : p < q /\ s[p] = w /\ s[q] = x
      BY <1>3 DEF Before
    <2>2. p # 1
      BY <1>3, <2>1
    <2>3. /\ p - 1 \in 1..Len(r) /\ q - 1 \in 1..Len(r) /\ p - 1 < q - 1
          /\ (p - 1) + 1 = p /\ (q - 1) + 1 = q
      BY <1>1, <2>1, <2>2
    <2>4. r[p - 1] = w /\ r[q - 1] = x
      BY <1>1, <2>1, <2>3
    <2> QED BY <2>3, <2>4 DEF Before
  <1>4. ASSUME Before(s, w, s[1]) PROVE FALSE
    <2>1. PICK p, q \in 1..Len(s) : p < q /\ s[q] = s[1]
      BY <1>4 DEF Before
    <2>2. q = 1
      BY <1>1, <2>1 DEF Distinct
    <2> QED BY <2>1, <2>2
  <1>5. ASSUME x \in Elements(s), x # s[1] PROVE Before(s, s[1], x)
    <2>1. PICK q \in 1..Len(s) : s[q] = x
      BY <1>5 DEF Elements
    <2>2. 1 < q
      BY <1>5, <2>1
    <2> QED BY <1>1, <2>1, <2>2 DEF Before
  <1> QED BY <1>1, <1>2, <1>3, <1>4, <1>5 DEF r

\* touch makes an id the last of the order and leaves the others as they are.
LEMMA TouchBefore ==
    ASSUME access_order \in Seq(SpanIds), Distinct(access_order),
           NEW id \in Elements(access_order), NEW w, NEW x
    PROVE  Before(touch(id), w, x)
            <=> \/ Before(access_order, w, x) /\ w # id /\ x # id
                \/ x = id /\ w \in Elements(access_order) \ {id}
  <1> DEFINE pos == Position(access_order, id)
             r == Remove(access_order, pos)
  <1>1. pos \in 1..Len(access_order) /\ access_order[pos] = id
    BY PositionFound
  <1>2. r \in Seq(SpanIds) /\ Elements(r) = Elements(access_order) \ {id}
    BY <1>1, RemoveType, RemoveDistinct
  <1>3. Before(r, w, x) <=> Before(access_order, w, x) /\ w # id /\ x # id
    BY <1>1, RemoveBefore
  <1>4. touch(id) = Append(r, id) /\ id \in SpanIds
    BY <1>1 DEF touch
  <1> HIDE DEF r
  <1>5. Before(Append(r, id), w, x) <=> Before(r, w, x) \/ (x = id /\ w \in Elements(r))
    BY <1>2, <1>4, AppendBefore
  <1> QED BY <1>2, <1>3, <1>4, <1>5

\* An added span is the last of the order, and the victim leaves it.
LEMMA AddBefore ==
    ASSUME CacheInv, NEW span \in Spans, Add(span), NEW w, NEW x
    PROVE  Before(access_order', w, x)
            <=> \/ Before(access_order, w, x) /\ w \notin Evicted
                \/ x = span.id /\ w \in DOMAIN spans \ Evicted
  <1> DEFINE rest == IF Evicted = {} THEN access_order ELSE Tail(access_order)
  <1>1. span.id \in SpanIds /\ access_order \in Seq(SpanIds) /\ Distinct(access_order)
    BY SpanCacheAssumption DEF CacheInv, TypeOK, OrderTracksMap
  <1>2. rest \in Seq(SpanIds) /\ Elements(rest) = DOMAIN spans \ Evicted
    BY EvictedCached, TailDistinct DEF CacheInv, TypeOK, OrderTracksMap
  <1>3. Before(rest, w, x) <=> Before(access_order, w, x) /\ w \notin Evicted
    BY <1>1, EvictedCached, TailBefore
  <1>4. access_order' = Append(rest, span.id)
    BY DEF Add
  <1> HIDE DEF rest
  <1>5. Before(access_order', w, x)
            <=> Before(rest, w, x) \/ (x = span.id /\ w \in Elements(rest))
    BY <1>1, <1>2, <1>4, AppendBefore
  <1> QED BY <1>2, <1>3, <1>5

\* When an eviction is due, the victim is the first of the order: the one
\* cached id that no other comes before.
LEMMA EvictedIsFirst ==
    ASSUME CacheInv, Evicted # {}
    PROVE  \E v \in DOMAIN spans :
              /\ Evicted = {v}
              /\ \A w \in DOMAIN spans : ~Before(access_order, w, v)
              /\ \A x \in DOMAIN spans : x # v => Before(access_order, v, x)
  <1>1. /\ access_order # <<>> /\ Evicted = {Head(access_order)}
        /\ Head(access_order) \in DOMAIN spans
    BY EvictedCached
  <1>2. /\ access_order \in Seq(SpanIds) /\ Distinct(access_order)
        /\ DOMAIN spans = Elements(access_order)
    BY DEF CacheInv, TypeOK, OrderTracksMap
  <1> QED BY <1>1, <1>2, TailBefore

-----------------------------------------------------------------------------
(***************************************************************************)
(* Recency of use                                                          *)
(***************************************************************************)

\* The Vec has the cached ids in the order of their last use.
OrderIsRecency ==
    \A w, x \in DOMAIN spans : <<w, x>> \in recency <=> Before(access_order, w, x)

\* The inductive invariant: map and Vec agree with each other and with the
\* history of uses.
ClientInv ==
    /\ CacheInv
    /\ DOMAIN spans \subseteq used
    /\ recency \subseteq used \X used
    /\ OrderIsRecency

\* What a use adds to the history.
LEMMA UseMeaning ==
    ASSUME NEW id, recency \subseteq used \X used, Use(id)
    PROVE  /\ recency' \subseteq used' \X used'
           /\ used' = used \cup {id}
           /\ \A w, x : <<w, x>> \in recency' <=>
                            \/ <<w, x>> \in recency /\ w # id /\ x # id
                            \/ x = id /\ w \in used \ {id}
  BY DEF Use

\* A lookup that hits keeps the invariant.
LEMMA HitKeepsInv ==
    ASSUME ClientInv, NEW id \in SpanIds, contains(id), get(id), Use(id)
    PROVE  ClientInv'
  <1>1. CacheInv' /\ spans' = spans /\ access_order' = touch(id)
    BY GetKeepsInv DEF ClientInv, get
  <1>2. /\ access_order \in Seq(SpanIds) /\ Distinct(access_order)
        /\ DOMAIN spans = Elements(access_order) /\ id \in Elements(access_order)
    BY DEF ClientInv, CacheInv, TypeOK, OrderTracksMap, contains
  <1>3. ASSUME NEW w \in DOMAIN spans, NEW x \in DOMAIN spans
        PROVE  <<w, x>> \in recency' <=> Before(access_order', w, x)
    <2>1. Before(touch(id), w, x)
            <=> \/ Before(access_order, w, x) /\ w # id /\ x # id
                \/ x = id /\ w \in Elements(access_order) \ {id}
      BY <1>2, TouchBefore
    <2>2. <<w, x>> \in recency'
            <=> \/ <<w, x>> \in recency /\ w # id /\ x # id
                \/ x = id /\ w \in used \ {id}
      BY UseMeaning DEF ClientInv
    <2>3. w \in used /\ (<<w, x>> \in recency <=> Before(access_order, w, x))
      BY DEF ClientInv, OrderIsRecency
    <2> QED BY <1>1, <1>2, <2>1, <2>2, <2>3
  <1>4. recency' \subseteq used' \X used' /\ used' = used \cup {id}
    BY UseMeaning DEF ClientInv
  <1>5. DOMAIN spans' \subseteq used'
    BY <1>1, <1>4 DEF ClientInv
  <1> QED BY <1>1, <1>3, <1>4, <1>5 DEF ClientInv, OrderIsRecency

\* Replacing a cached span keeps it.
LEMMA ReplacedKeepsInv ==
    ASSUME ClientInv, NEW span \in Spans, Replace(span), Use(span.id)
    PROVE  ClientInv'
  <1> DEFINE id == span.id
  <1>1. CacheInv' /\ DOMAIN spans' = DOMAIN spans /\ access_order' = touch(id)
    BY ReplaceKeepsInv DEF ClientInv, Replace
  <1>2. /\ access_order \in Seq(SpanIds) /\ Distinct(access_order)
        /\ DOMAIN spans = Elements(access_order) /\ id \in Elements(access_order)
    BY DEF ClientInv, CacheInv, TypeOK, OrderTracksMap, contains, Replace
  <1>3. ASSUME NEW w \in DOMAIN spans, NEW x \in DOMAIN spans
        PROVE  <<w, x>> \in recency' <=> Before(access_order', w, x)
    <2>1. Before(touch(id), w, x)
            <=> \/ Before(access_order, w, x) /\ w # id /\ x # id
                \/ x = id /\ w \in Elements(access_order) \ {id}
      BY <1>2, TouchBefore
    <2>2. <<w, x>> \in recency'
            <=> \/ <<w, x>> \in recency /\ w # id /\ x # id
                \/ x = id /\ w \in used \ {id}
      BY UseMeaning DEF ClientInv
    <2>3. w \in used /\ (<<w, x>> \in recency <=> Before(access_order, w, x))
      BY DEF ClientInv, OrderIsRecency
    <2> QED BY <1>1, <1>2, <2>1, <2>2, <2>3
  <1>4. recency' \subseteq used' \X used' /\ used' = used \cup {id}
    BY UseMeaning DEF ClientInv
  <1>5. DOMAIN spans' \subseteq used'
    BY <1>1, <1>4 DEF ClientInv
  <1> QED BY <1>1, <1>3, <1>4, <1>5 DEF ClientInv, OrderIsRecency

\* Adding a span, after an eviction or not, keeps it.
LEMMA AddedKeepsInv ==
    ASSUME ClientInv, NEW span \in Spans, Add(span), Use(span.id)
    PROVE  ClientInv'
  <1> DEFINE id == span.id
  <1>1. CacheInv /\ CacheInv' /\ DOMAIN spans' = (DOMAIN spans \ Evicted) \cup {id}
    BY AddKeepsInv DEF ClientInv
  <1>2. id \notin DOMAIN spans
    BY DEF Add, contains
  <1>3. ASSUME NEW w \in DOMAIN spans', NEW x \in DOMAIN spans'
        PROVE  <<w, x>> \in recency' <=> Before(access_order', w, x)
    <2>1. Before(access_order', w, x)
            <=> \/ Before(access_order, w, x) /\ w \notin Evicted
                \/ x = id /\ w \in DOMAIN spans \ Evicted
      BY <1>1, AddBefore
    <2>2. <<w, x>> \in recency'
            <=> \/ <<w, x>> \in recency /\ w # id /\ x # id
                \/ x = id /\ w \in used \ {id}
      BY UseMeaning DEF ClientInv
    <2>3. Before(access_order, w, x) => w \in DOMAIN spans /\ x \in DOMAIN spans
      BY DEF ClientInv, CacheInv, OrderTracksMap, Before, Elements
    <2>4. w \in DOMAIN spans => w \in used
      BY DEF ClientInv
    <2>5. w \in DOMAIN spans /\ x \in DOMAIN spans
            => (<<w, x>> \in recency <=> Before(access_order, w, x))
      BY DEF ClientInv, OrderIsRecency
    <2> QED BY <1>1, <1>2, <2>1, <2>2, <2>3, <2>4, <2>5
  <1>4. recency' \subseteq used' \X used' /\ used' = used \cup {id}
    BY UseMeaning DEF ClientInv
  <1>5. DOMAIN spans' \subseteq used'
    BY <1>1, <1>4 DEF ClientInv
  <1> QED BY <1>1, <1>3, <1>4, <1>5 DEF ClientInv, OrderIsRecency

\* Every step of the users keeps it.
LEMMA ClientStep == ClientInv /\ [ClientNext]_clientVars => ClientInv'
  <1> SUFFICES ASSUME ClientInv, [ClientNext]_clientVars PROVE ClientInv'
    OBVIOUS
  <1>1. ASSUME UNCHANGED clientVars PROVE ClientInv'
    <2>1. /\ spans' = spans /\ access_order' = access_order
          /\ used' = used /\ recency' = recency
      BY <1>1 DEF clientVars
    <2>2. CacheInv'
      BY <2>1, StepKeepsInv DEF ClientInv, vars
    <2>3. OrderIsRecency'
      BY <2>1 DEF ClientInv, OrderIsRecency
    <2> QED BY <2>1, <2>2, <2>3 DEF ClientInv
  <1>2. ASSUME NEW id \in SpanIds, Lookup(id) PROVE ClientInv'
    <2>1. CASE contains(id)
      BY <1>2, <2>1, HitKeepsInv DEF Lookup
    <2>2. CASE ~contains(id)
      BY <1>1, <1>2, <2>2 DEF Lookup, get, clientVars
    <2> QED BY <2>1, <2>2
  <1>3. ASSUME NEW span \in Spans, Store(span) PROVE ClientInv'
    BY <1>3, ReplacedKeepsInv, AddedKeepsInv DEF Store, insert
  <1> QED BY <1>1, <1>2, <1>3 DEF ClientNext

\* The empty cache satisfies it.
LEMMA ClientInitInv == ClientInit => ClientInv
  BY InitInv DEF ClientInit, Init, ClientInv, OrderIsRecency

-----------------------------------------------------------------------------
(***************************************************************************)
(* The refinement.                                                         *)
(***************************************************************************)

\* After a use of id, the order of use of the cached ids has id as youngest.
LEMMA UsedIsYoungest ==
    ASSUME ClientInv, NEW id, Use(id), id \in DOMAIN spans',
           DOMAIN spans' \ {id} \subseteq DOMAIN spans
    PROVE  UseOrder' = Lru!Youngest(id, DOMAIN spans')
  <1> DEFINE ks == DOMAIN spans'
  <1>1. UseOrder' = {p \in recency' : p[1] \in ks /\ p[2] \in ks}
    BY DEF UseOrder, contains
  <1>2. Lru!Youngest(id, ks) =
            {p \in UseOrder : p[1] \in ks \ {id} /\ p[2] \in ks \ {id}}
                \cup {<<a, id>> : a \in ks \ {id}}
    BY DEF Lru!Youngest
  <1>3. \A a \in ks \ {id} : a \in DOMAIN spans /\ a \in used
    BY DEF ClientInv
  <1> HIDE DEF ks
  <1>4. recency' = {p \in recency : id \notin {p[1], p[2]}} \cup ((used \ {id}) \X {id})
    BY DEF Use
  <1>5. ASSUME NEW p \in UseOrder' PROVE p \in Lru!Youngest(id, ks)
    <2>1. p \in recency' /\ p[1] \in ks /\ p[2] \in ks
      BY <1>1
    <2>2. CASE p \in recency /\ id \notin {p[1], p[2]}
      BY <1>2, <1>3, <2>1, <2>2 DEF UseOrder, contains
    <2>3. CASE p \in (used \ {id}) \X {id}
      <3>1. p = <<p[1], id>> /\ p[1] \in ks \ {id}
        BY <2>1, <2>3
      <3> QED BY <1>2, <3>1
    <2> QED BY <1>4, <2>1, <2>2, <2>3
  <1>6. ASSUME NEW p \in Lru!Youngest(id, ks) PROVE p \in UseOrder'
    <2>1. CASE p \in UseOrder /\ p[1] \in ks \ {id} /\ p[2] \in ks \ {id}
      BY <1>1, <1>4, <2>1 DEF UseOrder
    <2>2. ASSUME NEW a \in ks \ {id}, p = <<a, id>> PROVE p \in UseOrder'
      <3>1. p \in (used \ {id}) \X {id} /\ p[1] = a /\ p[2] = id
        BY <1>3, <2>2
      <3>2. id \in ks
        BY DEF ks
      <3> QED BY <1>1, <1>4, <2>2, <3>1, <3>2
    <2> QED BY <1>2, <2>1, <2>2
  <1> QED BY <1>5, <1>6 DEF ks

\* What insert evicts is what a least-recently-used cache drops.
LEMMA EvictedIsDropped ==
    ASSUME ClientInv
    PROVE  Lru!Dropped = Evicted
  <1> DEFINE full == len >= max_size /\ max_size > 0
  <1>1. Lru!Dropped = {k \in DOMAIN spans : full /\ \A a \in DOMAIN spans : <<a, k>> \notin UseOrder}
    <2>1. Lru!Cardinality(DOMAIN spans) = len
      BY DEF Lru!Cardinality, Cardinality, len
    <2> QED BY <2>1 DEF Lru!Dropped
  <1>2. \A a, k \in DOMAIN spans : <<a, k>> \in UseOrder <=> Before(access_order, a, k)
    <2> SUFFICES ASSUME NEW a \in DOMAIN spans, NEW k \in DOMAIN spans
                 PROVE  <<a, k>> \in UseOrder <=> Before(access_order, a, k)
      OBVIOUS
    <2>1. <<a, k>> \in UseOrder <=> <<a, k>> \in recency
      BY DEF UseOrder, contains
    <2> QED BY <2>1 DEF ClientInv, OrderIsRecency
  <1>3. Evicted = IF full /\ access_order # <<>> THEN {Head(access_order)} ELSE {}
    BY DEF Evicted
  <1>4. CacheInv /\ DOMAIN spans = Elements(access_order)
    BY DEF ClientInv, CacheInv, OrderTracksMap
  <1> HIDE DEF full
  <1>5. CASE ~full
    BY <1>1, <1>3, <1>5
  <1>6. CASE full /\ access_order = <<>>
    BY <1>1, <1>3, <1>4, <1>6 DEF Elements
  <1>7. CASE full /\ access_order # <<>>
    <2>1. Evicted # {}
      BY <1>3, <1>7
    <2>2. PICK v \in DOMAIN spans :
              /\ Evicted = {v}
              /\ \A w \in DOMAIN spans : ~Before(access_order, w, v)
              /\ \A x \in DOMAIN spans : x # v => Before(access_order, v, x)
      BY <1>4, <2>1, EvictedIsFirst
    <2> QED BY <1>1, <1>2, <1>7, <2>2
  <1> QED BY <1>5, <1>6, <1>7

\* Lookups and insertions on the HashMap and the Vec are reads, overwrites and
\* additions of a least-recently-used cache: insert evicts the span that was
\* looked up or stored longest ago, and only when the cache is full.
THEOREM SpanCacheRefinesLru == ClientSpec => RefinesLru
  <1>1. ClientInit => Lru!Init
    BY DEF ClientInit, Init, Lru!Init, UseOrder
  <1>2. ClientInv /\ [ClientNext]_clientVars => [Lru!Next]_(Lru!lruVars)
    <2> SUFFICES ASSUME ClientInv, [ClientNext]_clientVars
                 PROVE  [Lru!Next]_(Lru!lruVars)
      OBVIOUS
    <2>1. ASSUME UNCHANGED clientVars PROVE UNCHANGED Lru!lruVars
      BY <2>1 DEF clientVars, Lru!lruVars, UseOrder, contains
    <2>2. ASSUME NEW id \in SpanIds, Lookup(id), contains(id) PROVE Lru!Next
      <3>1. Use(id) /\ spans' = spans /\ id \in DOMAIN spans
        BY <2>2 DEF Lookup, get, contains
      <3>2. UseOrder' = Lru!Youngest(id, DOMAIN spans)
        BY <3>1, UsedIsYoungest
      <3>3. Lru!Read(id)
        BY <3>1, <3>2 DEF Lru!Read
      <3> QED BY <3>3 DEF Lru!Next
    <2>3. ASSUME NEW id \in SpanIds, Lookup(id), ~contains(id) PROVE UNCHANGED Lru!lruVars
      BY <2>1, <2>3 DEF Lookup, get, clientVars
    <2>4. ASSUME NEW span \in Spans, Replace(span), Use(span.id) PROVE Lru!Next
      <3>1. /\ span.id \in DOMAIN spans /\ spans' = [spans EXCEPT ![span.id] = span]
            /\ DOMAIN spans' = DOMAIN spans
        BY <2>4 DEF Replace, contains
      <3>2. UseOrder' = Lru!Youngest(span.id, DOMAIN spans)
        BY <2>4, <3>1, UsedIsYoungest
      <3>3. Lru!Overwrite(span)
        BY <3>1, <3>2 DEF Lru!Overwrite
      <3> QED BY <3>3 DEF Lru!Next
    <2>5. ASSUME NEW span \in Spans, Add(span), Use(span.id) PROVE Lru!Next
      <3> DEFINE keys == (DOMAIN spans \ Lru!Dropped) \cup {span.id}
      <3>1. keys = (DOMAIN spans \ Evicted) \cup {span.id}
        BY EvictedIsDropped
      <3> HIDE DEF keys
      <3>2. /\ span.id \notin DOMAIN spans
            /\ spans' = [k \in keys |-> IF k = span.id THEN span ELSE spans[k]]
        BY <2>5, <3>1 DEF Add, contains
      <3>3. DOMAIN spans' = keys
        BY <3>2
      <3>4. UseOrder' = Lru!Youngest(span.id, keys)
        BY <2>5, <3>1, <3>3, UsedIsYoungest
      <3>5. Lru!Add(span)
        BY <3>2, <3>4 DEF Lru!Add, keys
      <3> QED BY <3>5 DEF Lru!Next
    <2> QED BY <2>1, <2>2, <2>3, <2>4, <2>5 DEF ClientNext, Store, insert
  <1> QED BY <1>1, <1>2, ClientInitInv, ClientStep, PTL DEF ClientSpec, RefinesLru, Lru!Spec

=============================================================================
