------------------------- MODULE SpanPrefetchProofs -------------------------
(***************************************************************************)
(* The prefetch task, its HTTP client, the span cache and the node at      *)
(* work, for every number of retries and every delay, every PREFETCH_AHEAD *)
(* with a cache of room enough, every span size and any number of spans    *)
(* and blocks.                                                             *)
(***************************************************************************)
EXTENDS SpanPrefetch, NatInduction

-----------------------------------------------------------------------------
(***************************************************************************)
(* Calls of the HTTP client.                                               *)
(***************************************************************************)

\* A beginning of the powers of two.
Doubles(n, g) ==
    /\ g \in [0..n -> Nat]
    /\ g[0] = 1
    /\ \A k \in 1..n : g[k] = 2 * g[k - 1]

\* There is a beginning of every length.
LEMMA DoublesExist ==
    ASSUME NEW n \in Nat
    PROVE  \E g : Doubles(n, g)
  <1> DEFINE S == {m \in Nat : \E g : Doubles(m, g)}
  <1>1. 0 \in S
    <2> DEFINE g == [k \in 0..0 |-> 1]
    <2>1. Doubles(0, g)
      BY DEF Doubles
    <2> QED BY <2>1
  <1>2. ASSUME NEW m \in Nat, m \in S PROVE m + 1 \in S
    <2>1. PICK g : Doubles(m, g)
      BY <1>2
    <2> DEFINE h == [k \in 0..(m + 1) |-> IF k <= m THEN g[k] ELSE 2 * g[m]]
    <2>2. h \in [0..(m + 1) -> Nat]
      BY <2>1 DEF Doubles
    <2>3. h[0] = 1
      BY <2>1 DEF Doubles
    <2>4. ASSUME NEW k \in 1..(m + 1) PROVE h[k] = 2 * h[k - 1]
      <3>1. k - 1 \in 0..m /\ k \in 0..(m + 1) /\ k - 1 \in 0..(m + 1) /\ k - 1 <= m
        OBVIOUS
      <3>2. h[k - 1] = g[k - 1]
        BY <3>1
      <3>3. CASE k <= m
        <4>1. h[k] = g[k] /\ k \in 1..m
          BY <3>1, <3>3
        <4> QED BY <2>1, <3>2, <4>1 DEF Doubles
      <3>4. CASE k = m + 1
        <4>1. h[k] = 2 * g[m] /\ k - 1 = m
          BY <3>1, <3>4
        <4> QED BY <3>2, <4>1
      <3> QED BY <3>3, <3>4
    <2> HIDE DEF h
    <2>5. Doubles(m + 1, h)
      BY <2>2, <2>3, <2>4 DEF Doubles
    <2> QED BY <2>5
  <1> HIDE DEF S
  <1>3. n \in S
    BY <1>1, <1>2, SetInduction
  <1> QED BY <1>3 DEF S

\* Two beginnings agree as far as both go.
LEMMA DoublesAgree ==
    ASSUME NEW n \in Nat, NEW m \in Nat, NEW g, NEW h, Doubles(n, g), Doubles(m, h)
    PROVE  \A k \in 0..n : k <= m => g[k] = h[k]
  <1> DEFINE S == {k \in Nat : k <= n /\ k <= m => g[k] = h[k]}
  <1>1. 0 \in S
    BY DEF Doubles
  <1>2. ASSUME NEW k \in Nat, k \in S PROVE k + 1 \in S
    <2> SUFFICES ASSUME k + 1 <= n, k + 1 <= m PROVE g[k + 1] = h[k + 1]
      OBVIOUS
    <2>1. g[k] = h[k]
      BY <1>2
    <2>2. k + 1 \in 1..n /\ k + 1 \in 1..m /\ (k + 1) - 1 = k
      OBVIOUS
    <2>3. g[k + 1] = 2 * g[k] /\ h[k + 1] = 2 * h[k]
      BY <2>2 DEF Doubles
    <2> QED BY <2>1, <2>3
  <1> HIDE DEF S
  <1>3. \A k \in Nat : k \in S
    BY <1>1, <1>2, SetInduction
  <1> QED BY <1>3 DEF S

\* The function pow2 is well defined: it doubles.
LEMMA PowersOfTwo ==
    /\ Http!pow2[0] = 1
    /\ \A k \in Nat : Http!pow2[k] \in Nat
    /\ \A k \in Nat \ {0} : Http!pow2[k] = 2 * Http!pow2[k - 1]
  <1> DEFINE part(n) == CHOOSE g : Doubles(n, g)
             f == [n \in Nat |-> part(n)[n]]
             Body(h) == [k \in Nat |-> IF k = 0 THEN 1 ELSE 2 * h[k - 1]]
  <1>1. \A n \in Nat : Doubles(n, part(n))
    BY DoublesExist
  <1> HIDE DEF part
  <1>2. f[0] = 1
    BY <1>1 DEF Doubles
  <1>3. ASSUME NEW k \in Nat \ {0} PROVE f[k] = 2 * f[k - 1]
    <2>1. k - 1 \in Nat /\ k \in 1..k /\ k - 1 \in 0..(k - 1) /\ k - 1 <= k
      OBVIOUS
    <2>2. part(k)[k] = 2 * part(k)[k - 1]
      BY <1>1, <2>1 DEF Doubles
    <2>3. part(k - 1)[k - 1] = part(k)[k - 1]
      BY <1>1, <2>1, DoublesAgree
    <2> QED BY <2>1, <2>2, <2>3
  <1>4. \A k \in Nat : f[k] \in Nat
    <2> SUFFICES ASSUME NEW k \in Nat PROVE part(k)[k] \in Nat
      OBVIOUS
    <2>1. k \in 0..k
      OBVIOUS
    <2> QED BY <1>1, <2>1 DEF Doubles
  <1>5. f = Body(f)
    <2>1. \A k \in Nat : f[k] = Body(f)[k]
      BY <1>2, <1>3
    <2>2. f = [k \in Nat |-> f[k]]
      OBVIOUS
    <2> HIDE DEF f
    <2> QED BY <2>1, <2>2
  <1>6. Http!pow2 = CHOOSE h : h = Body(h)
    BY DEF Http!pow2
  <1> DEFINE p == Http!pow2
  <1>7. p = Body(p)
    <2> HIDE DEF Body, f
    <2> QED BY <1>5, <1>6
  <1> HIDE DEF p
  <1>8. p[0] = 1 /\ \A k \in Nat \ {0} : p[k] = 2 * p[k - 1]
    BY <1>7
  <1>9. \A k \in Nat : p[k] \in Nat
    <2> DEFINE S == {k \in Nat : p[k] \in Nat}
    <2>1. 0 \in S
      BY <1>8
    <2>2. ASSUME NEW k \in Nat, k \in S PROVE k + 1 \in S
      <3>1. k + 1 \in Nat \ {0} /\ (k + 1) - 1 = k
        OBVIOUS
      <3>2. p[k + 1] = 2 * p[k]
        BY <1>8, <3>1
      <3> QED BY <2>2, <3>2
    <2> HIDE DEF S
    <2> QED BY <2>1, <2>2, SetInduction DEF S
  <1> QED BY <1>8, <1>9 DEF p

\* The parts of the invariant that the HTTP variables alone decide.
LEMMA CallInvInit == Http!Init => Http!CallInv
  <1>1. <<>> \in Seq(Nat) /\ Len(<<>>) = 0
    OBVIOUS
  <1> QED BY <1>1 DEF Http!Init, Http!CallInv

\* Every step of a call keeps the count of its pauses.
LEMMA CallInvStep ==
    ASSUME Http!CallInv,
           \/ Http!Call \/ Http!Sleep \/ Http!Return
           \/ \E a \in Http!Final : Http!Finish(a)
           \/ \E a \in Http!Retryable : Http!Fail(a)
           \/ UNCHANGED httpVars
    PROVE  Http!CallInv'
  <1>0. MAX_RETRIES \in Nat \ {0} /\ BASE_RETRY_DELAY \in Nat \ {0}
    BY SpanPrefetchAssumption
  <1>1. CASE Http!Call
    BY <1>0, <1>1 DEF Http!CallInv, Http!Call, Http!Final
  <1>2. CASE Http!Sleep
    <2> DEFINE pause == BASE_RETRY_DELAY * Http!pow2[attempt - 1]
    <2>1. /\ http_pc = "sleep" /\ http_pc' = "send" /\ pauses' = Append(pauses, pause)
          /\ attempt' = attempt /\ result' = result /\ answer' = answer
      BY <1>2 DEF Http!Sleep
    <2>2. /\ attempt \in Nat /\ 0 < attempt /\ attempt < MAX_RETRIES /\ Len(pauses) = attempt - 1
          /\ answer \notin Http!Final /\ pauses \in Seq(Nat) /\ result = "pending"
          /\ \A i \in 1..Len(pauses) : pauses[i] = BASE_RETRY_DELAY * Http!pow2[i - 1]
      BY <2>1 DEF Http!CallInv
    <2>3. pause \in Nat
      <3>1. attempt - 1 \in Nat
        BY <2>2
      <3>2. Http!pow2[attempt - 1] \in Nat
        BY <3>1, PowersOfTwo
      <3> QED BY <1>0, <3>2
    <2> HIDE DEF pause
    <2>4. /\ pauses' \in Seq(Nat) /\ Len(pauses') = attempt
          /\ \A i \in 1..(attempt - 1) : pauses'[i] = pauses[i]
          /\ pauses'[attempt] = pause
      BY <2>1, <2>2, <2>3
    <2>5. ASSUME NEW i \in 1..Len(pauses') PROVE pauses'[i] = BASE_RETRY_DELAY * Http!pow2[i - 1]
      <3>1. CASE i = attempt
        BY <2>4, <3>1 DEF pause
      <3>2. CASE i # attempt
        <4>1. i \in 1..(attempt - 1) /\ i \in 1..Len(pauses)
          BY <2>2, <2>4, <3>2
        <4> QED BY <2>2, <2>4, <4>1
      <3> QED BY <3>1, <3>2
    <2> QED BY <2>1, <2>2, <2>4, <2>5 DEF Http!CallInv
  <1>3. CASE Http!Return
    <2>1. <<>> \in Seq(Nat) /\ Len(<<>>) = 0
      OBVIOUS
    <2> QED BY <1>3, <2>1 DEF Http!CallInv, Http!Return
  <1>4. ASSUME NEW a \in Http!Final, Http!Finish(a) PROVE Http!CallInv'
    <2>1. a \notin Http!Retryable
      BY DEF Http!Final, Http!Retryable
    <2> QED BY <1>4, <2>1 DEF Http!CallInv, Http!Finish
  <1>5. ASSUME NEW a \in Http!Retryable, Http!Fail(a) PROVE Http!CallInv'
    <2>1. a \notin Http!Final
      BY DEF Http!Final, Http!Retryable
    <2>2. /\ http_pc = "send" /\ answer' = a /\ last_err' = a /\ attempt' = attempt + 1
          /\ http_pc' = IF attempt' = MAX_RETRIES THEN "done" ELSE "sleep"
          /\ result' = IF attempt' = MAX_RETRIES THEN a ELSE result
          /\ pauses' = pauses
      BY <1>5 DEF Http!Fail
    <2>3. attempt \in Nat /\ attempt < MAX_RETRIES /\ Len(pauses) = attempt /\ result = "pending"
      BY <2>2 DEF Http!CallInv
    <2>4. CASE attempt' = MAX_RETRIES
      BY <1>0, <2>1, <2>2, <2>3, <2>4 DEF Http!CallInv
    <2>5. CASE attempt' # MAX_RETRIES
      BY <1>0, <2>1, <2>2, <2>3, <2>5 DEF Http!CallInv
    <2> QED BY <2>4, <2>5
  <1>6. CASE UNCHANGED httpVars
    BY <1>6 DEF Http!CallInv, httpVars
  <1> QED BY <1>1, <1>2, <1>3, <1>4, <1>5, <1>6

\* The count of the pauses says how calls settle.
LEMMA CallInvSettles == Http!CallInv => CallsSettle
  <1> SUFFICES ASSUME Http!CallInv PROVE Http!CallsSettle
    BY DEF CallsSettle
  <1>0. MAX_RETRIES \in Nat \ {0} /\ BASE_RETRY_DELAY \in Nat \ {0}
    BY SpanPrefetchAssumption
  <1>1. answer \in Http!Final => http_pc = "done"
    BY DEF Http!CallInv, Http!Final
  <1>2. http_pc = "done" =>
            result = answer /\ (result \in Http!Retryable => Len(pauses) = MAX_RETRIES - 1)
    BY DEF Http!CallInv
  <1>3. http_pc \in {"send", "sleep"} => Len(pauses) < MAX_RETRIES
    BY <1>0 DEF Http!CallInv
  <1>4. ASSUME NEW i \in 1..Len(pauses)
        PROVE  pauses[i] = IF i = 1 THEN BASE_RETRY_DELAY ELSE 2 * pauses[i - 1]
    <2>1. /\ pauses \in Seq(Nat) /\ Len(pauses) \in Nat
          /\ \A j \in 1..Len(pauses) : pauses[j] = BASE_RETRY_DELAY * Http!pow2[j - 1]
      BY DEF Http!CallInv
    <2>2. CASE i = 1
      <3>1. pauses[1] = BASE_RETRY_DELAY * Http!pow2[0]
        BY <2>1, <2>2
      <3> QED BY <1>0, <2>2, <3>1, PowersOfTwo
    <2>3. CASE i # 1
      <3> DEFINE k == i - 1
                 a == Http!pow2[k]
                 b == Http!pow2[k - 1]
      <3>1. k \in 1..Len(pauses) /\ k \in Nat \ {0} /\ k - 1 \in Nat
        BY <2>1, <2>3
      <3>2. a = 2 * b /\ b \in Nat
        BY <3>1, PowersOfTwo
      <3>3. pauses[i] = BASE_RETRY_DELAY * a /\ pauses[i - 1] = BASE_RETRY_DELAY * b
        BY <2>1, <3>1
      <3> HIDE DEF a, b
      <3>4. BASE_RETRY_DELAY * (2 * b) = 2 * (BASE_RETRY_DELAY * b)
        BY <1>0, <3>2
      <3> QED BY <2>3, <3>2, <3>3, <3>4
    <2> QED BY <2>2, <2>3
  <1> QED BY <1>1, <1>2, <1>3, <1>4 DEF Http!CallsSettle

\* Every step of the system is a step of the call, or leaves it alone.
LEMMA StepIsCallStep ==
    ASSUME [Next]_vars
    PROVE  \/ Http!Call \/ Http!Sleep \/ Http!Return
           \/ \E a \in Http!Final : Http!Finish(a)
           \/ \E a \in Http!Retryable : Http!Fail(a)
           \/ UNCHANGED httpVars
  <1>1. {"Ok", "NotFound", "ParseError"} \subseteq Http!Final
    BY DEF Http!Final
  <1>2. CASE Prefetcher
    BY <1>2 DEF Prefetcher, Poll, SkipFetched, FetchSpan, PauseBetweenRequests,
                GenesisFetched, FetchSucceeds, FetchFails, EndOfPass
  <1>3. CASE Heimdall
    BY <1>1, <1>3 DEF Heimdall, AnswerWithSpan, AnswerOtherwise
  <1>4. CASE ValidateBlock \/ PublishTip \/ ProduceSpan
    BY <1>4 DEF ValidateBlock, PublishTip, ProduceSpan
  <1>5. CASE UNCHANGED vars
    BY <1>5 DEF vars
  <1> QED BY <1>2, <1>3, <1>4, <1>5 DEF Next

\* Whatever the server answers, a call of the HTTP client makes no more
\* requests than it should, pauses twice as long before each next one, and
\* returns the answer that settles it or the last error.
THEOREM PrefetchCallsSettle == Spec => []CallsSettle
  <1>1. Init => Http!CallInv
    BY CallInvInit DEF Init
  <1>2. Http!CallInv /\ [Next]_vars => Http!CallInv'
    BY StepIsCallStep, CallInvStep
  <1> QED BY <1>1, <1>2, CallInvSettles, PTL DEF Spec

-----------------------------------------------------------------------------
(***************************************************************************)
(* The cache.                                                              *)
(***************************************************************************)
\* The history of the cache's clients plays no part here.
CacheProofs == INSTANCE SpanCacheProofs WITH
    Spans <- {HeimdallSpan(i) : i \in 0..MaxSpan},
    max_size <- CacheSize,
    used <- {},
    recency <- {}

CacheOk == Cache!TypeOK /\ Cache!OrderTracksMap

\* What the cache assumes of its spans and its capacity.
LEMMA CacheAssumption ==
    /\ CacheSize \in Nat
    /\ \A span \in {HeimdallSpan(i) : i \in 0..MaxSpan} : span.id \in SpanIds
    /\ \A i \in 0..MaxSpan : i \in SpanIds /\ HeimdallSpan(i).id = i
  BY SpanPrefetchAssumption DEF HeimdallSpan, SpanIds

\* The cache is the one that SpanCacheProofs is about.
LEMMA CacheNames ==
    /\ CacheProofs!CacheInv <=> CacheOk
    /\ \A id : CacheProofs!get(id) <=> Cache!get(id)
    /\ \A span : CacheProofs!Replace(span) <=> Cache!Replace(span)
    /\ \A span : CacheProofs!Add(span) <=> Cache!Add(span)
    /\ CacheProofs!Evicted = Cache!Evicted
    /\ \A id : CacheProofs!touch(id) = Cache!touch(id)
    /\ \A id : CacheProofs!contains(id) <=> Cache!contains(id)
    /\ \A s, w, x : CacheProofs!Before(s, w, x) <=> Cache!Before(s, w, x)
    /\ \A s : CacheProofs!Elements(s) = Cache!Elements(s)
    /\ \A s : CacheProofs!Distinct(s) <=> Cache!Distinct(s)
  <1> USE DEF CacheProofs!contains, Cache!contains, CacheProofs!Elements, Cache!Elements,
              CacheProofs!Distinct, Cache!Distinct, CacheProofs!Remove, Cache!Remove,
              CacheProofs!Position, Cache!Position, CacheProofs!touch, Cache!touch
  <1>1. CacheProofs!CacheInv <=> CacheOk
    BY DEF CacheProofs!CacheInv, CacheProofs!TypeOK, CacheProofs!OrderTracksMap, CacheOk,
           Cache!TypeOK, Cache!OrderTracksMap
  <1>2. CacheProofs!len = Cache!len
    BY DEF CacheProofs!len, Cache!len, CacheProofs!Cardinality, Cache!Cardinality, Cardinality
  <1>3. CacheProofs!Evicted = Cache!Evicted
    BY <1>2 DEF CacheProofs!Evicted, Cache!Evicted
  <1>4. /\ \A id : CacheProofs!get(id) <=> Cache!get(id)
        /\ \A span : CacheProofs!Replace(span) <=> Cache!Replace(span)
    BY DEF CacheProofs!get, Cache!get, CacheProofs!Replace, Cache!Replace
  <1>5. \A span : CacheProofs!Add(span) <=> Cache!Add(span)
    BY <1>3 DEF CacheProofs!Add, Cache!Add
  <1>6. \A s, w, x : CacheProofs!Before(s, w, x) <=> Cache!Before(s, w, x)
    BY DEF CacheProofs!Before, Cache!Before
  <1> QED BY <1>1, <1>3, <1>4, <1>5, <1>6

\* No element comes before itself.
LEMMA BeforeIrreflexive ==
    ASSUME CacheOk, NEW w
    PROVE  ~Cache!Before(access_order, w, w)
  <1>1. Cache!Distinct(access_order)
    BY DEF CacheOk, Cache!OrderTracksMap
  <1> QED BY <1>1 DEF Cache!Before, Cache!Distinct

\* A lookup makes a cached id the last and leaves the others in their order.
LEMMA GetOrder ==
    ASSUME CacheOk, NEW id, Cache!get(id)
    PROVE  /\ CacheOk' /\ spans' = spans
           /\ \A w, x : Cache!Before(access_order', w, x) =>
                \/ Cache!Before(access_order, w, x) /\ (id \in DOMAIN spans => w # id /\ x # id)
                \/ x = id /\ w # id /\ w \in DOMAIN spans /\ id \in DOMAIN spans
  <1>1. CASE id \in DOMAIN spans
    <2>1. id \in SpanIds
      BY <1>1 DEF CacheOk, Cache!TypeOK
    <2>2. CacheProofs!CacheInv'
      BY <2>1, CacheNames, CacheAssumption, CacheProofs!GetKeepsInv
    <2>3. CacheOk'
      BY <2>2 DEF CacheProofs!CacheInv, CacheProofs!TypeOK, CacheProofs!OrderTracksMap, CacheOk,
                  Cache!TypeOK, Cache!OrderTracksMap, CacheProofs!Elements, Cache!Elements,
                  CacheProofs!Distinct, Cache!Distinct
    <2>4. spans' = spans /\ access_order' = Cache!touch(id)
      BY <1>1 DEF Cache!get, Cache!contains
    <2>5. /\ access_order \in Seq(SpanIds) /\ Cache!Distinct(access_order)
          /\ DOMAIN spans = Cache!Elements(access_order)
      BY DEF CacheOk, Cache!TypeOK, Cache!OrderTracksMap
    <2>6. ASSUME NEW w, NEW x
          PROVE  Cache!Before(Cache!touch(id), w, x)
                    <=> \/ Cache!Before(access_order, w, x) /\ w # id /\ x # id
                        \/ x = id /\ w \in DOMAIN spans \ {id}
      <3>1. /\ CacheProofs!Distinct(access_order) /\ id \in CacheProofs!Elements(access_order)
            /\ CacheProofs!Elements(access_order) = DOMAIN spans
        BY <1>1, <2>5, CacheNames
      <3>2. CacheProofs!Before(CacheProofs!touch(id), w, x)
                <=> \/ CacheProofs!Before(access_order, w, x) /\ w # id /\ x # id
                    \/ x = id /\ w \in CacheProofs!Elements(access_order) \ {id}
        BY <2>5, <3>1, CacheAssumption, CacheProofs!TouchBefore
      <3> QED BY <3>1, <3>2, CacheNames
    <2> QED BY <1>1, <2>3, <2>4, <2>6
  <1>2. CASE id \notin DOMAIN spans
    <2>1. spans' = spans /\ access_order' = access_order
      BY <1>2 DEF Cache!get, Cache!contains
    <2>2. CacheOk'
      BY <2>1 DEF CacheOk, Cache!TypeOK, Cache!OrderTracksMap
    <2> QED BY <1>2, <2>1, <2>2
  <1> QED BY <1>1, <1>2

Victims(i) == IF i \in DOMAIN spans THEN {} ELSE Cache!Evicted

\* An inserted span is the last, the victim leaves the cache, and the others
\* stay in their order.
LEMMA InsertOrder ==
    ASSUME CacheOk, NEW i \in 0..MaxSpan, Cache!insert(HeimdallSpan(i))
    PROVE  /\ CacheOk'
           /\ DOMAIN spans' = (DOMAIN spans \ Victims(i)) \cup {i}
           /\ \A w, x : Cache!Before(access_order', w, x) =>
                \/ Cache!Before(access_order, w, x)
                \/ x = i /\ w # i /\ w \in DOMAIN spans
  <1> DEFINE span == HeimdallSpan(i)
  <1>1. /\ span \in {HeimdallSpan(j) : j \in 0..MaxSpan} /\ span.id = i /\ i \in SpanIds
    BY CacheAssumption
  <1>2. /\ access_order \in Seq(SpanIds) /\ CacheProofs!Distinct(access_order)
        /\ DOMAIN spans = CacheProofs!Elements(access_order)
    BY CacheNames DEF CacheOk, Cache!TypeOK, Cache!OrderTracksMap
  <1> HIDE DEF span
  <1>3. ASSUME CacheProofs!CacheInv' PROVE CacheOk'
    BY <1>3 DEF CacheProofs!CacheInv, CacheProofs!TypeOK, CacheProofs!OrderTracksMap, CacheOk,
                Cache!TypeOK, Cache!OrderTracksMap, CacheProofs!Elements, Cache!Elements,
                CacheProofs!Distinct, Cache!Distinct
  <1>4. CASE Cache!Replace(span)
    <2>1. i \in DOMAIN spans /\ access_order' = Cache!touch(i)
      BY <1>1, <1>4 DEF Cache!Replace, Cache!contains
    <2>2. CacheProofs!CacheInv' /\ DOMAIN spans' = DOMAIN spans
      BY <1>1, <1>4, CacheNames, CacheAssumption, CacheProofs!ReplaceKeepsInv
    <2>3. ASSUME NEW w, NEW x, Cache!Before(access_order', w, x)
          PROVE  \/ Cache!Before(access_order, w, x)
                 \/ x = i /\ w # i /\ w \in DOMAIN spans
      <3>1. CacheProofs!Before(CacheProofs!touch(i), w, x)
                <=> \/ CacheProofs!Before(access_order, w, x) /\ w # i /\ x # i
                    \/ x = i /\ w \in CacheProofs!Elements(access_order) \ {i}
        BY <1>2, <2>1, CacheAssumption, CacheProofs!TouchBefore
      <3> QED BY <1>2, <2>1, <2>3, <3>1, CacheNames
    <2> QED BY <1>3, <2>1, <2>2, <2>3 DEF Victims
  <1>5. CASE Cache!Add(span)
    <2>1. i \notin DOMAIN spans
      BY <1>1, <1>5 DEF Cache!Add, Cache!contains
    <2>2. CacheProofs!CacheInv' /\ DOMAIN spans' = (DOMAIN spans \ CacheProofs!Evicted) \cup {i}
      BY <1>1, <1>5, CacheNames, CacheAssumption, CacheProofs!AddKeepsInv
    <2>3. ASSUME NEW w, NEW x, Cache!Before(access_order', w, x)
          PROVE  \/ Cache!Before(access_order, w, x)
                 \/ x = i /\ w # i /\ w \in DOMAIN spans
      <3>1. CacheProofs!Before(access_order', w, x)
                <=> \/ CacheProofs!Before(access_order, w, x) /\ w \notin CacheProofs!Evicted
                    \/ x = i /\ w \in DOMAIN spans \ CacheProofs!Evicted
        BY <1>1, <1>5, CacheNames, CacheAssumption, CacheProofs!AddBefore
      <3> QED BY <2>1, <2>3, <3>1, CacheNames
    <2> QED BY <1>3, <2>1, <2>2, <2>3, CacheNames DEF Victims
  <1> QED BY <1>4, <1>5 DEF Cache!insert, span

\* A victim was used before every other span of a cache that is full.
LEMMA VictimIsFirst ==
    ASSUME CacheOk, NEW v \in Cache!Evicted
    PROVE  /\ v \in DOMAIN spans
           /\ \A x \in DOMAIN spans : x # v => Cache!Before(access_order, v, x)
           /\ Cardinality(DOMAIN spans) >= CacheSize /\ CacheSize > 0
  <1>1. PICK u \in DOMAIN spans :
              /\ CacheProofs!Evicted = {u}
              /\ \A x \in DOMAIN spans : x # u => CacheProofs!Before(access_order, u, x)
    BY CacheNames, CacheAssumption, CacheProofs!EvictedIsFirst
  <1>2. u = v
    BY <1>1, CacheNames
  <1>3. Cache!len = Cardinality(DOMAIN spans)
    BY DEF Cache!len, Cache!Cardinality, Cardinality
  <1>4. Cardinality(DOMAIN spans) >= CacheSize /\ CacheSize > 0
    BY <1>3 DEF Cache!Evicted
  <1> QED BY <1>1, <1>2, <1>4, CacheNames

-----------------------------------------------------------------------------
(***************************************************************************)
(* The invariant.                                                          *)
(***************************************************************************)

\* What the constants are.
LEMMA Constants ==
    /\ MaxSpan \in Nat /\ PREFETCH_AHEAD \in Nat /\ CacheSize \in Nat
    /\ span_size \in Nat \ {0}
    /\ Blocks \subseteq Nat
  BY SpanPrefetchAssumption DEF Blocks

\* Span ids grow with the block, by one at a time.
LEMMA SpanIdAt ==
    /\ \A u \in Nat : span_id_at(u, span_size) \in Nat
    /\ \A u, v \in Nat : u <= v => span_id_at(u, span_size) <= span_id_at(v, span_size)
    /\ \A u \in Nat : span_id_at(u + 1, span_size) <= span_id_at(u, span_size) + 1
  <1>1. span_size \in Nat \ {0}
    BY Constants
  <1>2. \A u \in Nat : u \div span_size \in Nat
    BY <1>1
  <1>3. \A u, v \in Nat : u <= v => u \div span_size <= v \div span_size
    BY <1>1
  <1>4. \A u \in Nat : (u + 1) \div span_size <= (u \div span_size) + 1
    BY <1>1
  <1> QED BY <1>2, <1>3, <1>4 DEF span_id_at

\* An id that comes before another is in the cache, and so is the other.
LEMMA BeforeCached ==
    ASSUME CacheOk, NEW w, NEW x, Cache!Before(access_order, w, x)
    PROVE  w \in DOMAIN spans /\ x \in DOMAIN spans
  BY DEF CacheOk, Cache!OrderTracksMap, Cache!Before, Cache!Elements

\* A call that is under way is one for span 0 or for a span the loop needs.
LEMMA TaskFacts ==
    ASSUME StateInv
    PROVE  /\ task.pc \in {"genesis", "poll", "fetch"}
           /\ task.current_span_id \in Nat /\ task.offset \in Nat /\ span_id \in Nat
           /\ http_pc # "done" => result = "pending"
           /\ http_pc # "idle" => task.pc = "genesis" \/ (InLoop /\ ~Fetched)
           /\ result = "Ok" => span_id \in 0..MaxSpan
  <1>1. task \in [pc : {"genesis", "poll", "fetch"}, current_span_id : Nat, offset : Nat]
    BY DEF StateInv, TaskInv
  <1>2. /\ task.pc \in {"genesis", "poll", "fetch"}
        /\ task.current_span_id \in Nat /\ task.offset \in Nat /\ span_id \in Nat
    BY <1>1 DEF span_id
  <1>3. http_pc # "done" => result = "pending"
    BY DEF StateInv, Http!CallInv
  <1>4. http_pc # "idle" => task.pc = "genesis" \/ (InLoop /\ ~Fetched)
    BY DEF StateInv, TaskInv
  <1>5. result = "Ok" => span_id \in 0..MaxSpan
    BY <1>2, Constants DEF StateInv, TaskInv, Produced, ChainInv
  <1> QED BY <1>2, <1>3, <1>4, <1>5

\* The task starts with nothing cached and nothing fetched.
LEMMA PrefetchInvInit == Init => PrefetchInv
  <1> SUFFICES ASSUME Init PROVE PrefetchInv
    OBVIOUS
  <1>1. Http!CallInv
    BY CallInvInit DEF Init
  <1>2. ChainInv
    BY DEF Init, ChainInv
  <1>3. /\ task = [pc |-> "genesis", current_span_id |-> 0, offset |-> 0]
        /\ last_fetched_span = {} /\ best = {} /\ http_pc = "idle" /\ result = "pending"
    BY DEF Init, Polling, Http!Init
  <1>4. TaskInv
    BY <1>3, Constants DEF TaskInv
  <1>5. OrderInv
    <2>1. access_order = <<>> /\ spans = [i \in {} |-> {}]
      BY DEF Init, Cache!Init
    <2>2. DOMAIN spans = {} /\ access_order \in Seq(SpanIds) /\ Len(access_order) = 0
      BY <2>1
    <2>3. spans \in [DOMAIN spans -> {HeimdallSpan(i) : i \in 0..MaxSpan}]
      BY <2>1
    <2>4. Cache!Elements(access_order) = {} /\ Cache!Distinct(access_order)
      BY <2>2 DEF Cache!Elements, Cache!Distinct
    <2> QED BY <2>2, <2>3, <2>4 DEF OrderInv, Cache!TypeOK, Cache!OrderTracksMap
  <1>6. PassInv /\ PrefetchedStayCached
    BY <1>3 DEF PassInv, PrefetchedStayCached
  <1> QED BY <1>1, <1>2, <1>4, <1>5, <1>6 DEF PrefetchInv, StateInv

\* What a step of the task that touches neither cache nor mark leaves as it is.
Quiet == UNCHANGED <<cacheVars, last_fetched_span, chainVars>>

\* Such a step leaves everything but the task as it was.
LEMMA QuietStep ==
    ASSUME StateInv, Quiet
    PROVE  /\ ChainInv' /\ OrderInv'
           /\ PrefetchedStayCached => PrefetchedStayCached'
  <1> USE DEF Quiet, cacheVars, chainVars
  <1>1. ChainInv'
    BY DEF StateInv, ChainInv
  <1>2. OrderInv'
    BY DEF StateInv, OrderInv, Cache!TypeOK, Cache!OrderTracksMap
  <1>3. PrefetchedStayCached => PrefetchedStayCached'
    BY DEF PrefetchedStayCached, Cache!contains
  <1> QED BY <1>1, <1>2, <1>3

\* The steps of the task and of its calls that touch neither cache nor mark.
LEMMA QuietTaskSteps ==
    ASSUME StateInv,
           \/ Poll \/ SkipFetched \/ FetchSpan \/ AnswerWithSpan \/ AnswerOtherwise
           \/ PauseBetweenRequests \/ FetchFails \/ EndOfPass
           \/ GenesisFetched /\ UNCHANGED cacheVars
    PROVE  /\ Quiet /\ TaskInv'
           /\ PassInv /\ PrefetchedStayCached => PassInv'
  <1>0. PREFETCH_AHEAD \in Nat
    BY Constants
  <1>1. /\ ChainInv /\ TaskInv
        /\ task \in [pc : {"genesis", "poll", "fetch"}, current_span_id : Nat, offset : Nat]
    BY DEF StateInv, TaskInv
  <1>2. ASSUME Quiet, UNCHANGED task,
               http_pc' # "idle" => http_pc # "idle" \/ task.pc = "genesis" \/ (InLoop /\ ~Fetched),
               result' = "Ok" => Produced \/ result = "Ok"
        PROVE  TaskInv' /\ (PassInv => PassInv')
    <2>1. TaskInv'
      BY <1>1, <1>2 DEF TaskInv, Quiet, cacheVars, chainVars, InLoop, Fetched, Produced, span_id
    <2>2. PassInv => PassInv'
      BY <1>2 DEF PassInv, Quiet, cacheVars, Cache!contains
    <2> QED BY <2>1, <2>2
  <1>3. ASSUME Quiet, task' = Polling, http_pc' = "idle", result' = "pending"
        PROVE  TaskInv' /\ PassInv'
    BY <1>0, <1>3 DEF TaskInv, PassInv, Polling
  <1>4. CASE Poll
    <2>1. PICK number \in best :
              task' = [pc |-> "fetch", offset |-> 0,
                       current_span_id |-> span_id_at(number, span_size)]
      BY <1>4 DEF Poll
    <2>2. Quiet /\ task.pc = "poll" /\ http_pc' = http_pc /\ result' = result
      BY <1>4 DEF Poll, Quiet, httpVars
    <2>3. http_pc = "idle" /\ result = "pending"
      BY <2>2, TaskFacts DEF InLoop
    <2>4. number \in Nat /\ best = {number} /\ span_id_at(number, span_size) \in Nat
      <3>1. best = {number} /\ number \in 0..validated /\ validated \in Nat
        BY <1>1, Constants DEF ChainInv
      <3>2. number \in Nat
        BY <3>1
      <3> QED BY <3>1, <3>2, SpanIdAt
    <2>5. TaskInv'
      BY <1>0, <2>1, <2>2, <2>3, <2>4 DEF TaskInv, Quiet, chainVars
    <2>6. PrefetchedStayCached => PassInv'
      BY <2>1, <2>2, <2>4 DEF PassInv, PrefetchedStayCached, Quiet, cacheVars, Cache!contains
    <2> QED BY <2>2, <2>5, <2>6
  <1>5. CASE SkipFetched
    <2>1. /\ Quiet /\ InLoop /\ Fetched /\ task' = [task EXCEPT !.offset = @ + 1]
          /\ http_pc' = http_pc /\ result' = result
      BY <1>5 DEF SkipFetched, Quiet, httpVars
    <2>2. http_pc = "idle" /\ result = "pending"
      BY <2>1, TaskFacts DEF InLoop
    <2>3. /\ task'.pc = "fetch" /\ task'.offset = task.offset + 1
          /\ task'.current_span_id = task.current_span_id
          /\ task' \in [pc : {"genesis", "poll", "fetch"}, current_span_id : Nat, offset : Nat]
          /\ task.offset \in Nat /\ task.offset <= PREFETCH_AHEAD /\ task.pc = "fetch"
      BY <1>1, <2>1 DEF InLoop
    <2>4. TaskInv'
      BY <1>0, <1>1, <2>1, <2>2, <2>3 DEF TaskInv, Quiet, chainVars
    <2>5. PassInv => PassInv'
      <3>1. \E last \in last_fetched_span : last + 1 >= task'.current_span_id + task'.offset
        <4>1. PICK last \in last_fetched_span : span_id <= last
          BY <2>1 DEF Fetched
        <4>2. last \in Nat
          BY <1>1, Constants DEF ChainInv
        <4>3. last + 1 >= task'.current_span_id + task'.offset
          BY <1>1, <2>3, <4>1, <4>2 DEF span_id
        <4> QED BY <4>3
      <3> QED BY <2>1, <2>3, <3>1 DEF PassInv, Quiet, cacheVars, Cache!contains
    <2> QED BY <2>1, <2>4, <2>5
  <1>6. CASE FetchSpan
    <2>1. Quiet /\ UNCHANGED task /\ result' = result
          /\ (task.pc = "genesis" \/ (InLoop /\ ~Fetched))
      BY <1>6 DEF FetchSpan, Http!Call, Quiet
    <2> QED BY <1>2, <2>1
  <1>7. CASE AnswerWithSpan
    <2>1. Quiet /\ UNCHANGED task /\ Produced /\ http_pc = "send"
      BY <1>7 DEF AnswerWithSpan, Http!Finish, Quiet
    <2> QED BY <1>2, <2>1
  <1>8. CASE AnswerOtherwise
    <2>1. Quiet /\ UNCHANGED task
      BY <1>8 DEF AnswerOtherwise, Quiet
    <2>2. http_pc = "send" /\ result = "pending"
      BY <1>8, TaskFacts DEF AnswerOtherwise, Http!Finish, Http!Fail
    <2>3. result' # "Ok"
      BY <1>8, <2>2 DEF AnswerOtherwise, Http!Finish, Http!Fail, Http!Retryable
    <2> QED BY <1>2, <2>1, <2>2, <2>3
  <1>9. CASE PauseBetweenRequests
    <2>1. Quiet /\ UNCHANGED task /\ http_pc = "sleep" /\ result' = result
      BY <1>9 DEF PauseBetweenRequests, Http!Sleep, Quiet
    <2> QED BY <1>2, <2>1
  <1>10. CASE FetchFails
    <2>1. Quiet /\ task' = Polling /\ http_pc' = "idle" /\ result' = "pending"
      BY <1>10 DEF FetchFails, Http!Return, Quiet
    <2> QED BY <1>3, <2>1
  <1>11. CASE EndOfPass
    <2>1. /\ Quiet /\ task' = Polling /\ task.pc = "fetch" /\ task.offset > PREFETCH_AHEAD
          /\ http_pc' = http_pc /\ result' = result
      BY <1>11 DEF EndOfPass, Quiet, httpVars
    <2>2. http_pc = "idle" /\ result = "pending"
      BY <1>0, <1>1, <2>1, TaskFacts DEF InLoop
    <2> QED BY <1>3, <2>1, <2>2
  <1>12. CASE GenesisFetched /\ UNCHANGED cacheVars
    <2>1. Quiet /\ task' = Polling /\ http_pc' = "idle" /\ result' = "pending"
      BY <1>12 DEF GenesisFetched, Http!Return, Quiet
    <2> QED BY <1>3, <2>1
  <1> QED BY <1>4, <1>5, <1>6, <1>7, <1>8, <1>9, <1>10, <1>11, <1>12

\* The node's own steps, and Heimdall's.
LEMMA PublishTipStep ==
    ASSUME StateInv, PublishTip
    PROVE  /\ ChainInv' /\ TaskInv' /\ OrderInv'
           /\ PassInv /\ PrefetchedStayCached => PassInv' /\ PrefetchedStayCached'
  <1>0. PREFETCH_AHEAD \in Nat
    BY Constants
  <1>1. /\ best' = {validated} /\ validated' = validated /\ produced' = produced
        /\ spans' = spans /\ access_order' = access_order
        /\ last_fetched_span' = last_fetched_span /\ task' = task
        /\ http_pc' = http_pc /\ result' = result
    BY DEF PublishTip, cacheVars, httpVars
  <1>2. ChainInv /\ TaskInv /\ validated \in Nat
    BY Constants DEF StateInv, ChainInv
  <1>3. ASSUME NEW number \in best
        PROVE  /\ number \in Nat /\ number <= validated
               /\ span_id_at(number, span_size) \in Nat
               /\ span_id_at(validated, span_size) \in Nat
               /\ span_id_at(number, span_size) <= span_id_at(validated, span_size)
    <2>1. number \in Nat /\ number <= validated
      BY <1>2, <1>3 DEF ChainInv
    <2> QED BY <1>2, <2>1, SpanIdAt
  <1>4. \A last \in last_fetched_span : last \in Nat
    BY <1>2, Constants DEF ChainInv
  <1>5. ChainInv'
    BY <1>0, <1>1, <1>2, <1>3, <1>4 DEF ChainInv
  <1>6. TaskInv'
    <2>1. task.current_span_id \in Nat
      BY TaskFacts
    <2> QED BY <1>1, <1>2, <1>3, <2>1 DEF TaskInv, InLoop, Fetched, Produced, span_id
  <1>7. OrderInv'
    BY <1>1 DEF StateInv, OrderInv, Cache!TypeOK, Cache!OrderTracksMap
  <1>8. PassInv => PassInv'
    BY <1>1 DEF PassInv, Cache!contains
  <1>9. PrefetchedStayCached => PrefetchedStayCached'
    <2> SUFFICES ASSUME PrefetchedStayCached, NEW last \in last_fetched_span,
                        NEW id \in span_id_at(validated, span_size)..last
                 PROVE  id \in DOMAIN spans
      BY <1>1 DEF PrefetchedStayCached, Cache!contains
    <2>1. PICK number \in best : TRUE
      BY <1>2 DEF ChainInv
    <2>2. id \in span_id_at(number, span_size)..last
      BY <1>3, <1>4
    <2> QED BY <2>1, <2>2 DEF PrefetchedStayCached, Cache!contains
  <1> QED BY <1>5, <1>6, <1>7, <1>8, <1>9

\* Heimdall going on takes nothing away.
LEMMA ProduceSpanStep ==
    ASSUME StateInv, ProduceSpan
    PROVE  /\ ChainInv' /\ TaskInv' /\ OrderInv'
           /\ PassInv /\ PrefetchedStayCached => PassInv' /\ PrefetchedStayCached'
  <1>1. /\ produced < MaxSpan /\ produced' = produced + 1
        /\ best' = best /\ validated' = validated
        /\ spans' = spans /\ access_order' = access_order
        /\ last_fetched_span' = last_fetched_span /\ task' = task
        /\ http_pc' = http_pc /\ result' = result
    BY DEF ProduceSpan, cacheVars, httpVars
  <1>2. ChainInv /\ TaskInv /\ produced \in Nat
    BY Constants DEF StateInv, ChainInv
  <1>3. ChainInv'
    BY <1>1, <1>2, Constants DEF ChainInv
  <1>4. TaskInv'
    <2>1. span_id \in Nat
      BY TaskFacts
    <2> QED BY <1>1, <1>2, <2>1 DEF TaskInv, InLoop, Fetched, Produced, span_id
  <1>5. OrderInv'
    BY <1>1 DEF StateInv, OrderInv, Cache!TypeOK, Cache!OrderTracksMap
  <1>6. /\ PassInv => PassInv'
        /\ PrefetchedStayCached => PrefetchedStayCached'
    BY <1>1 DEF PassInv, PrefetchedStayCached, Cache!contains
  <1> QED BY <1>3, <1>4, <1>5, <1>6

\* A lookup makes the span of the new block the last, and no span the node
\* has come past is behind it.
LEMMA ValidateBlockStep ==
    ASSUME StateInv, ValidateBlock
    PROVE  /\ ChainInv' /\ TaskInv' /\ OrderInv'
           /\ PassInv /\ PrefetchedStayCached => PassInv' /\ PrefetchedStayCached'
  <1> DEFINE k == span_id_at(validated + 1, span_size)
             cur == span_id_at(validated, span_size)
  <1>0. PREFETCH_AHEAD \in Nat
    BY Constants
  <1>1. /\ validated + 1 \in Blocks /\ validated' = validated + 1
        /\ best' = best /\ produced' = produced
        /\ last_fetched_span' = last_fetched_span /\ task' = task
        /\ http_pc' = http_pc /\ result' = result
        /\ Cache!get(k)
    BY DEF ValidateBlock, httpVars
  <1>2. ChainInv /\ TaskInv /\ OrderInv /\ CacheOk /\ validated \in Nat
    BY Constants DEF StateInv, ChainInv, OrderInv, CacheOk
  <1>3. k \in Nat /\ cur \in Nat /\ k <= cur + 1 /\ span_id_at(validated', span_size) = k
    BY <1>1, <1>2, SpanIdAt
  <1>4. /\ CacheOk' /\ spans' = spans
        /\ \A w, x : Cache!Before(access_order', w, x) =>
                \/ Cache!Before(access_order, w, x) /\ (k \in DOMAIN spans => w # k /\ x # k)
                \/ x = k /\ w # k /\ w \in DOMAIN spans /\ k \in DOMAIN spans
    BY <1>1, <1>2, GetOrder
  <1>5. ASSUME NEW w \in DOMAIN spans PROVE w \in Nat /\ w <= k + PREFETCH_AHEAD
    <2>1. CASE w = 0
      BY <1>0, <1>3, <2>1
    <2>2. ASSUME NEW last \in last_fetched_span, w <= last PROVE w <= k + PREFETCH_AHEAD
      <3>1. PICK number \in best : TRUE
        BY <1>2 DEF ChainInv
      <3>2. /\ number \in Nat /\ number <= validated + 1 /\ last \in Nat
            /\ last <= span_id_at(number, span_size) + PREFETCH_AHEAD
        BY <1>2, Constants DEF ChainInv
      <3>3. span_id_at(number, span_size) <= k /\ span_id_at(number, span_size) \in Nat
        BY <1>2, <3>2, SpanIdAt
      <3>4. w \in Nat
        BY <1>2, Constants DEF CacheOk, Cache!TypeOK, SpanIds
      <3> HIDE DEF k
      <3> QED BY <1>0, <1>3, <2>2, <3>2, <3>3, <3>4
    <2>3. w \in Nat
      BY <1>2, Constants DEF CacheOk, Cache!TypeOK, SpanIds
    <2> QED BY <1>2, <2>1, <2>2, <2>3 DEF OrderInv
  <1> HIDE DEF k, cur
  <1>6. ASSUME NEW w \in DOMAIN spans, NEW x \in DOMAIN spans, Cache!Before(access_order', w, x)
        PROVE  w <= x + PREFETCH_AHEAD /\ (w <= k => w < x)
    <2>1. w \in Nat /\ x \in Nat
      BY <1>5
    <2>2. CASE Cache!Before(access_order, w, x) /\ (k \in DOMAIN spans => w # k /\ x # k)
      <3>1. w <= x + PREFETCH_AHEAD /\ (w <= cur => w < x)
        BY <1>2, <2>2 DEF OrderInv, cur
      <3>2. w # k
        BY <2>2
      <3> QED BY <1>3, <2>1, <3>1, <3>2
    <2>3. CASE x = k /\ w # k
      BY <1>3, <1>5, <2>1, <2>3
    <2> QED BY <1>4, <1>6, <2>2, <2>3
  <1>7. OrderInv'
    <2>1. Cache!TypeOK' /\ Cache!OrderTracksMap'
      BY <1>4 DEF CacheOk
    <2>2. \A w \in DOMAIN spans : w = 0 \/ \E last \in last_fetched_span : w <= last
      BY <1>2 DEF OrderInv
    <2> QED BY <1>1, <1>3, <1>4, <1>6, <2>1, <2>2 DEF OrderInv
  <1>8. ChainInv'
    BY <1>1, <1>2 DEF ChainInv
  <1>9. TaskInv'
    BY <1>1, <1>2 DEF TaskInv, InLoop, Fetched, Produced, span_id
  <1>10. /\ PassInv => PassInv'
         /\ PrefetchedStayCached => PrefetchedStayCached'
    BY <1>1, <1>4 DEF PassInv, PrefetchedStayCached, Cache!contains
  <1> QED BY <1>7, <1>8, <1>9, <1>10

\* A span that the running pass counts on is not the victim: too few of the
\* spans in a cache with room to prefetch were used after it.
LEMMA VictimIsNotNeeded ==
    ASSUME RoomToPrefetch, StateInv, PassInv, InLoop, ~Fetched, task.offset > 0,
           NEW v \in Cache!Evicted
    PROVE  v \notin task.current_span_id..(span_id - 1)
  <1> DEFINE c == task.current_span_id
             l == span_id - 1
             A == PREFETCH_AHEAD
             D == DOMAIN spans
  <1> SUFFICES ASSUME v \in c..l PROVE FALSE
    OBVIOUS
  <1>0. A \in Nat /\ CacheSize \in Nat /\ CacheSize >= 2 * A
    BY Constants DEF RoomToPrefetch
  <1>1. ChainInv /\ TaskInv /\ OrderInv /\ CacheOk /\ task.pc = "fetch" /\ task.offset <= A
    BY DEF StateInv, OrderInv, CacheOk, InLoop
  <1>2. c \in Nat /\ task.offset \in Nat /\ span_id = c + task.offset /\ l \in Nat /\ v \in Nat
    BY TaskFacts DEF span_id
  <1>3. l \in last_fetched_span
    <2>1. PICK last \in last_fetched_span : last + 1 >= c + task.offset
      BY <1>1 DEF PassInv
    <2>2. last \in Nat /\ ~(span_id <= last)
      BY <1>1, Constants DEF ChainInv, Fetched
    <2>3. last = l
      BY <1>2, <2>1, <2>2
    <2> QED BY <2>3
  <1>4. last_fetched_span = {l}
    BY <1>1, <1>3 DEF ChainInv
  <1>5. /\ v \in D /\ \A x \in D : x # v => Cache!Before(access_order, v, x)
        /\ Cardinality(D) >= CacheSize /\ CacheSize > 0
    BY <1>1, VictimIsFirst
  <1>6. \A x \in D : x \in Nat /\ x <= l
    <2>1. \A x \in D : x \in Nat
      BY <1>1, Constants DEF CacheOk, Cache!TypeOK, SpanIds
    <2> QED BY <1>1, <1>2, <1>4, <2>1 DEF OrderInv
  <1>7. PICK number \in best : TRUE
    BY <1>1 DEF TaskInv
  <1>8. /\ c <= span_id_at(number, span_size)
        /\ span_id_at(number, span_size) <= span_id_at(validated, span_size)
        /\ span_id_at(number, span_size) \in Nat /\ span_id_at(validated, span_size) \in Nat
    <2>1. number \in 0..validated /\ validated \in Nat
      BY <1>1, Constants DEF ChainInv
    <2>2. number \in Nat /\ number <= validated
      BY <2>1
    <2> QED BY <1>1, <2>1, <2>2, SpanIdAt DEF TaskInv
  <1> DEFINE cur == span_id_at(validated, span_size)
  <1>9. \A x \in D : v <= x + A /\ (v <= cur => v <= x)
    <2> SUFFICES ASSUME NEW x \in D PROVE v <= x + A /\ (v <= cur => v <= x)
      OBVIOUS
    <2>1. CASE x = v
      BY <1>0, <1>2, <2>1
    <2>2. CASE x # v
      <3>1. v <= x + A /\ (v <= cur => v < x)
        BY <1>1, <1>5, <2>2 DEF OrderInv
      <3> QED BY <1>2, <1>6, <3>1
    <2> QED BY <2>1, <2>2
  <1>10. cur \in Nat /\ c <= cur
    BY <1>2, <1>8
  <1> HIDE DEF c, l, cur, D, A
  <1>11. ASSUME NEW a \in Int, D \subseteq a..l, a <= l
         PROVE  Cardinality(D) <= l - a + 1
    <2>0. l \in Int
      BY <1>2
    <2>1. IsFiniteSet(a..l) /\ Cardinality(a..l) = IF a > l THEN 0 ELSE l - a + 1
      BY <2>0, FS_Interval
    <2>2. Cardinality(D) <= Cardinality(a..l)
      BY <1>11, <2>1, FS_Subset
    <2> QED BY <1>11, <2>0, <2>1, <2>2
  <1>12. Cardinality(D) \in Nat
    <2>1. IsFiniteSet(0..l)
      BY <1>2, FS_Interval
    <2>2. D \subseteq 0..l
      BY <1>2, <1>6
    <2>3. IsFiniteSet(D)
      BY <2>1, <2>2, FS_Subset
    <2> QED BY <2>3, FS_CardinalityType
  <1>13. l + 1 = c + task.offset /\ task.offset <= A
    BY <1>1, <1>2 DEF l, c, A
  <1>14. CASE v <= cur
    <2>1. D \subseteq v..l
      BY <1>2, <1>6, <1>9, <1>14
    <2>2. Cardinality(D) <= l - v + 1
      BY <1>2, <1>11, <2>1
    <2> QED BY <1>0, <1>2, <1>5, <1>12, <1>13, <2>2
  <1>15. CASE v > cur
    <2>1. D \subseteq (v - A)..l
      BY <1>0, <1>2, <1>6, <1>9
    <2>2. Cardinality(D) <= l - (v - A) + 1
      BY <1>0, <1>2, <1>11, <2>1
    <2> QED BY <1>0, <1>2, <1>5, <1>10, <1>12, <1>13, <1>15, <2>2
  <1> QED BY <1>2, <1>10, <1>14, <1>15

\* A fetched span moves the mark and is the last that was used.
LEMMA FetchSucceedsStep ==
    ASSUME StateInv, FetchSucceeds
    PROVE  /\ ChainInv' /\ TaskInv' /\ OrderInv'
           /\ RoomToPrefetch /\ PassInv => PassInv' /\ PrefetchedStayCached'
  <1> DEFINE s == span_id
             c == task.current_span_id
             D == DOMAIN spans
  <1>0. PREFETCH_AHEAD \in Nat
    BY Constants
  <1>1. /\ InLoop /\ result = "Ok" /\ Cache!insert(HeimdallSpan(s))
        /\ last_fetched_span' = {s} /\ task' = [task EXCEPT !.offset = @ + 1]
        /\ http_pc # "idle" /\ http_pc' = "idle" /\ result' = "pending"
        /\ best' = best /\ validated' = validated /\ produced' = produced
    BY DEF FetchSucceeds, Http!Return, chainVars
  <1>2. /\ c \in Nat /\ task.offset \in Nat /\ s \in Nat /\ s \in 0..MaxSpan /\ ~Fetched
        /\ s = c + task.offset
    BY <1>1, TaskFacts DEF InLoop, span_id
  <1>3. ChainInv /\ TaskInv /\ OrderInv /\ CacheOk
    BY DEF StateInv, OrderInv, CacheOk
  <1>4. \A last \in last_fetched_span : last \in Nat /\ last < s
    BY <1>2, <1>3, Constants DEF ChainInv, Fetched
  <1>5. /\ task'.pc = "fetch" /\ task'.offset = task.offset + 1 /\ task'.current_span_id = c
        /\ task' \in [pc : {"genesis", "poll", "fetch"}, current_span_id : Nat, offset : Nat]
        /\ task.offset <= PREFETCH_AHEAD /\ task.pc = "fetch"
    BY <1>1, <1>3 DEF InLoop, TaskInv
  <1>6. ASSUME NEW number \in best
        PROVE  /\ span_id_at(number, span_size) \in Nat
               /\ c <= span_id_at(number, span_size)
               /\ s <= span_id_at(number, span_size) + PREFETCH_AHEAD
    <2>1. number \in 0..validated /\ validated \in Nat
      BY <1>3, Constants DEF ChainInv
    <2>2. number \in Nat
      BY <2>1
    <2>3. span_id_at(number, span_size) \in Nat /\ c <= span_id_at(number, span_size)
      BY <1>3, <1>5, <2>2, SpanIdAt DEF TaskInv
    <2> QED BY <1>0, <1>2, <1>5, <2>3
  <1>7. /\ CacheOk'
        /\ DOMAIN spans' = (D \ Victims(s)) \cup {s}
        /\ \A w, x : Cache!Before(access_order', w, x) =>
                \/ Cache!Before(access_order, w, x)
                \/ x = s /\ w # s /\ w \in D
    BY <1>1, <1>2, <1>3, InsertOrder
  <1> HIDE DEF s, c, D
  <1>8. ChainInv'
    <2>1. best # {}
      BY <1>3, <1>5 DEF TaskInv
    <2> QED BY <1>1, <1>2, <1>3, <1>6, <2>1 DEF ChainInv
  <1>9. TaskInv'
    <2>1. \A number \in best : c <= span_id_at(number, span_size)
      BY <1>6
    <2>2. best # {}
      BY <1>3, <1>5 DEF TaskInv
    <2> QED BY <1>0, <1>1, <1>2, <1>5, <2>1, <2>2 DEF TaskInv
  <1>10. \A w \in D : w \in Nat /\ (w = 0 \/ w < s)
    <2>1. \A w \in D : w \in Nat
      BY <1>3, Constants DEF CacheOk, Cache!TypeOK, SpanIds, D
    <2> QED BY <1>2, <1>3, <1>4, <2>1 DEF OrderInv, D
  <1>11. OrderInv'
    <2>1. Cache!TypeOK' /\ Cache!OrderTracksMap'
      BY <1>7 DEF CacheOk
    <2>2. \A w \in DOMAIN spans' : w = 0 \/ \E last \in last_fetched_span' : w <= last
      BY <1>1, <1>2, <1>7, <1>10
    <2>3. ASSUME NEW w \in DOMAIN spans', NEW x \in DOMAIN spans',
                 Cache!Before(access_order', w, x)
          PROVE  w <= x + PREFETCH_AHEAD /\ (w <= span_id_at(validated, span_size) => w < x)
      <3>1. CASE Cache!Before(access_order, w, x)
        <4>1. w \in D /\ x \in D
          BY <1>3, <3>1, BeforeCached DEF D
        <4> QED BY <1>3, <3>1, <4>1 DEF OrderInv, D
      <3>2. CASE x = s /\ w # s /\ w \in D
        <4>1. w \in Nat /\ w < s
          BY <1>2, <1>10, <3>2
        <4> QED BY <1>0, <1>2, <3>2, <4>1
      <3> QED BY <1>7, <2>3, <3>1, <3>2
    <2> QED BY <1>1, <2>1, <2>2, <2>3 DEF OrderInv
  <1>12. ASSUME RoomToPrefetch, PassInv PROVE PassInv' /\ PrefetchedStayCached'
    <2>1. ASSUME NEW id \in c..s PROVE id \in DOMAIN spans'
      <3>1. CASE id = s
        BY <1>7, <3>1
      <3>2. CASE id # s
        <4>1. id \in Nat /\ id \in c..(s - 1) /\ task.offset > 0
          BY <1>2, <3>2
        <4>2. id \in D
          <5>1. PICK last \in last_fetched_span : last + 1 >= c + task.offset
            BY <1>5, <1>12, <4>1 DEF PassInv, c
          <5>2. id \in c..last
            BY <1>2, <1>4, <4>1, <5>1
          <5> QED BY <1>5, <1>12, <5>2 DEF PassInv, Cache!contains, c, D
        <4>3. id \notin Victims(s)
          BY <1>1, <1>2, <1>12, <4>1, VictimIsNotNeeded DEF Victims, s, c
        <4> QED BY <1>7, <4>2, <4>3
      <3> QED BY <3>1, <3>2
    <2>2. PassInv'
      <3>1. s + 1 >= task'.current_span_id + task'.offset
        BY <1>2, <1>5
      <3> QED BY <1>1, <1>5, <2>1, <3>1 DEF PassInv, Cache!contains
    <2>3. PrefetchedStayCached'
      <3> SUFFICES ASSUME NEW number \in best, NEW id \in span_id_at(number, span_size)..s
                   PROVE  id \in DOMAIN spans'
        BY <1>1 DEF PrefetchedStayCached, Cache!contains
      <3>1. id \in c..s
        BY <1>2, <1>6
      <3> QED BY <2>1, <3>1
    <2> QED BY <2>2, <2>3
  <1> QED BY <1>8, <1>9, <1>11, <1>12

\* Span 0 comes into a cache that holds no other.
LEMMA GenesisFetchedStep ==
    ASSUME StateInv, GenesisFetched, result = "Ok"
    PROVE  ChainInv' /\ TaskInv' /\ OrderInv' /\ PassInv' /\ PrefetchedStayCached'
  <1>1. /\ Cache!insert(HeimdallSpan(0)) /\ task.pc = "genesis" /\ task' = Polling
        /\ http_pc' = "idle" /\ result' = "pending"
        /\ best' = best /\ validated' = validated /\ produced' = produced
        /\ last_fetched_span' = last_fetched_span
    BY DEF GenesisFetched, Http!Return, chainVars
  <1>2. ChainInv /\ OrderInv /\ CacheOk /\ last_fetched_span = {}
    BY <1>1 DEF StateInv, OrderInv, CacheOk, TaskInv
  <1>3. 0 \in 0..MaxSpan
    BY Constants
  <1>4. /\ CacheOk'
        /\ DOMAIN spans' = (DOMAIN spans \ Victims(0)) \cup {0}
        /\ \A w, x : Cache!Before(access_order', w, x) =>
                \/ Cache!Before(access_order, w, x)
                \/ x = 0 /\ w # 0 /\ w \in DOMAIN spans
    BY <1>1, <1>2, <1>3, InsertOrder
  <1>5. \A w \in DOMAIN spans : w = 0
    BY <1>2 DEF OrderInv
  <1>6. \A w, x : ~Cache!Before(access_order', w, x)
    <2> SUFFICES ASSUME NEW w, NEW x, Cache!Before(access_order', w, x) PROVE FALSE
      OBVIOUS
    <2>1. Cache!Before(access_order, w, x)
      BY <1>4, <1>5
    <2>2. w = 0 /\ x = 0
      BY <1>2, <1>5, <2>1, BeforeCached
    <2> QED BY <1>2, <2>1, <2>2, BeforeIrreflexive
  <1>7. OrderInv'
    <2>1. Cache!TypeOK' /\ Cache!OrderTracksMap'
      BY <1>4 DEF CacheOk
    <2>2. \A w \in DOMAIN spans' : w = 0
      BY <1>4, <1>5
    <2> QED BY <1>6, <2>1, <2>2 DEF OrderInv
  <1>8. ChainInv'
    BY <1>1, <1>2 DEF ChainInv
  <1>9. TaskInv'
    BY <1>1, Constants DEF TaskInv, Polling
  <1>10. PassInv' /\ PrefetchedStayCached'
    BY <1>1, <1>2 DEF PassInv, PrefetchedStayCached, Polling
  <1> QED BY <1>7, <1>8, <1>9, <1>10

\* Every step keeps both invariants.
LEMMA PrefetchInvStep ==
    ASSUME StateInv, [Next]_vars
    PROVE  /\ StateInv'
           /\ RoomToPrefetch /\ PassInv /\ PrefetchedStayCached
                => PassInv' /\ PrefetchedStayCached'
  <1>1. Http!CallInv'
    BY StepIsCallStep, CallInvStep DEF StateInv
  <1>2. ASSUME \/ Poll \/ SkipFetched \/ FetchSpan \/ AnswerWithSpan \/ AnswerOtherwise
               \/ PauseBetweenRequests \/ FetchFails \/ EndOfPass
               \/ GenesisFetched /\ UNCHANGED cacheVars
        PROVE  /\ ChainInv' /\ TaskInv' /\ OrderInv'
               /\ PassInv /\ PrefetchedStayCached => PassInv' /\ PrefetchedStayCached'
    BY <1>2, QuietTaskSteps, QuietStep
  <1>3. CASE Poll \/ SkipFetched \/ FetchSpan \/ PauseBetweenRequests \/ FetchFails \/ EndOfPass
    BY <1>1, <1>2, <1>3 DEF StateInv
  <1>4. CASE Heimdall
    BY <1>1, <1>2, <1>4 DEF StateInv, Heimdall
  <1>5. CASE GenesisFetched
    <2>1. result = "Ok" \/ UNCHANGED cacheVars
      BY <1>5 DEF GenesisFetched
    <2>2. CASE result = "Ok"
      BY <1>1, <1>5, <2>2, GenesisFetchedStep DEF StateInv
    <2>3. CASE UNCHANGED cacheVars
      BY <1>1, <1>2, <1>5, <2>3 DEF StateInv
    <2> QED BY <2>1, <2>2, <2>3
  <1>6. CASE FetchSucceeds
    BY <1>1, <1>6, FetchSucceedsStep DEF StateInv
  <1>7. CASE ValidateBlock
    BY <1>1, <1>7, ValidateBlockStep DEF StateInv
  <1>8. CASE PublishTip
    BY <1>1, <1>8, PublishTipStep DEF StateInv
  <1>9. CASE ProduceSpan
    BY <1>1, <1>9, ProduceSpanStep DEF StateInv
  <1>10. CASE UNCHANGED vars
    <2>1. Quiet /\ UNCHANGED task /\ UNCHANGED httpVars
      BY <1>10 DEF vars, Quiet
    <2>2. TaskInv' /\ (PassInv => PassInv')
      BY <2>1 DEF StateInv, TaskInv, PassInv, Quiet, cacheVars, chainVars, httpVars, InLoop,
                  Fetched, Produced, span_id, Cache!contains
    <2> QED BY <1>1, <2>1, <2>2, QuietStep DEF StateInv
  <1> QED BY <1>3, <1>4, <1>5, <1>6, <1>7, <1>8, <1>9, <1>10 DEF Next, Prefetcher

\* The order of uses, the task's bookkeeping and the state of its calls agree
\* whatever the size of the cache, and PrefetchInv is inductive in a cache
\* that has room to prefetch.
THEOREM PrefetchInductive ==
    /\ Spec => []StateInv
    /\ RoomToPrefetch => (Spec => []PrefetchInv)
  <1>1. Init => StateInv /\ PrefetchInv
    BY PrefetchInvInit DEF PrefetchInv
  <1>2. StateInv /\ [Next]_vars => StateInv'
    BY PrefetchInvStep
  <1>3. Spec => []StateInv
    BY <1>1, <1>2, PTL DEF Spec
  <1>4. ASSUME RoomToPrefetch PROVE PrefetchInv /\ [Next]_vars => PrefetchInv'
    BY <1>4, PrefetchInvStep DEF PrefetchInv
  <1>5. ASSUME RoomToPrefetch PROVE Spec => []PrefetchInv
    <2>1. PrefetchInv /\ [Next]_vars => PrefetchInv'
      BY <1>4, <1>5
    <2> QED BY <1>1, <2>1, PTL DEF Spec
  <1> QED BY <1>3, <1>5

\* A pass of ensure_spans_for_block that ends without a failed fetch leaves
\* the block's span and all spans ahead of it in the cache, if the cache has
\* room for twice as many spans as are fetched ahead.
THEOREM PrefetchPassCovers ==
    ASSUME RoomToPrefetch
    PROVE  Spec => []PassCoversBlock
  <1>1. Spec => []PrefetchInv
    BY PrefetchInductive
  <1>2. PrefetchInv => PassCoversBlock
    <2> SUFFICES ASSUME PrefetchInv, task.pc = "fetch", task.offset > PREFETCH_AHEAD,
                        NEW i \in 0..PREFETCH_AHEAD
                 PROVE  task.current_span_id + i \in DOMAIN spans
      BY DEF PassCoversBlock, Cache!contains
    <2>1. /\ PREFETCH_AHEAD \in Nat /\ task.current_span_id \in Nat /\ task.offset \in Nat
      BY Constants, TaskFacts DEF PrefetchInv
    <2>2. PICK last \in last_fetched_span : last + 1 >= task.current_span_id + task.offset
      BY <2>1 DEF PrefetchInv, PassInv
    <2>3. last \in Nat
      BY Constants DEF PrefetchInv, StateInv, ChainInv
    <2>4. task.current_span_id + i \in task.current_span_id..last
      BY <2>1, <2>2, <2>3
    <2> QED BY <2>2, <2>4 DEF PrefetchInv, PassInv, Cache!contains
  <1> QED BY <1>1, <1>2, PTL

\* What the task takes for cached is cached: no span between the best block's
\* and the last one fetched is evicted behind the task's back, if the cache
\* has room for twice as many spans as are fetched ahead.
THEOREM PrefetchStayCached ==
    ASSUME RoomToPrefetch
    PROVE  Spec => []PrefetchedStayCached
  <1>1. Spec => []PrefetchInv
    BY PrefetchInductive
  <1> QED BY <1>1, PTL DEF PrefetchInv

\* Where the spans are as long as task and engine believe, the span found for
\* a block covers it, whatever has been evicted or replaced.
THEOREM PrefetchLookupCovers ==
    ASSUME SpansEven
    PROVE  Spec => []LookupCoversBlock
  <1>1. Spec => []StateInv
    BY PrefetchInductive
  <1>2. StateInv => LookupCoversBlock
    <2> DEFINE id == span_id_at(validated, span_size)
    <2> SUFFICES ASSUME StateInv, id \in DOMAIN spans
                 PROVE  Covers(spans[id], validated)
      BY DEF LookupCoversBlock, Cache!contains
    <2>1. validated \in Nat /\ span_size \in Nat \ {0} /\ MaxSpan \in Nat
      BY Constants DEF StateInv, ChainInv
    <2>2. /\ spans \in [DOMAIN spans -> {HeimdallSpan(i) : i \in 0..MaxSpan}]
          /\ spans[id].id = id
      BY DEF StateInv, OrderInv, Cache!TypeOK, Cache!OrderTracksMap
    <2>3. id \in 0..MaxSpan /\ spans[id] = HeimdallSpan(id)
      <3>1. PICK i \in 0..MaxSpan : spans[id] = HeimdallSpan(i)
        BY <2>2
      <3>2. HeimdallSpan(i).id = i
        BY DEF HeimdallSpan
      <3> QED BY <2>2, <3>1, <3>2
    <2>4. id * span_size <= validated /\ validated <= (id + 1) * span_size - 1
      <3> DEFINE q == validated \div span_size
      <3>1. q * span_size <= validated /\ validated < (q + 1) * span_size /\ q \in Nat
        BY <2>1
      <3>2. (q + 1) * span_size \in Nat
        BY <2>1, <3>1
      <3> HIDE DEF q
      <3>3. validated <= (q + 1) * span_size - 1
        BY <2>1, <3>1, <3>2
      <3> QED BY <3>1, <3>3 DEF span_id_at, q
    <2>5. SpanStart[id] = id * span_size /\ SpanStart[id + 1] = (id + 1) * span_size
      BY <2>1, <2>3 DEF SpansEven
    <2> HIDE DEF id
    <2> QED BY <2>3, <2>4, <2>5 DEF Covers, HeimdallSpan
  <1> QED BY <1>1, <1>2, PTL

=============================================================================
