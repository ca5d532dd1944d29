----------------------- MODULE BlockProductionProofs -----------------------
(***************************************************************************)
(* The way of system calls into the chain, for every sprint, span and page *)
(* size, every gas limit and every choice of transactions, any number of   *)
(* blocks, events and spans, and any number of failures and unwinds.       *)
(***************************************************************************)
EXTENDS BlockProduction, NatInduction, SequenceTheorems

\* What the constants are.
LEMMA Constants ==
    /\ sprint_size \in Nat \ {0} /\ span_size \in Nat \ {0} /\ limit \in Nat \ {0}
    /\ gas_limit \in Nat /\ MADHUGIRI_BLOCK \in Nat /\ MaxBlock \in Nat
    /\ \A n \in 1..MaxBlock : UserTxs[n] \subseteq Seq(Nat)
  BY BlockProductionAssumption

\* A greatest number is the greatest.
LEMMA MaxIs ==
    ASSUME NEW S, S \subseteq Nat, NEW x \in S, \A y \in S : x >= y
    PROVE  Max(S) = x
  <1>1. \A z \in S : (\A y \in S : z >= y) => z = x
    OBVIOUS
  <1> QED BY <1>1 DEF Max

\* A least number is the least.
LEMMA MinIs ==
    ASSUME NEW S, S \subseteq Nat, NEW x \in S, \A y \in S : x =< y
    PROVE  Min(S) = x
  <1>1. \A z \in S : (\A y \in S : z =< y) => z = x
    OBVIOUS
  <1> QED BY <1>1 DEF Min

\* A function on 1..n is a sequence.
LEMMA FunctionIsSeq ==
    ASSUME NEW T, NEW n \in Nat, NEW f \in [1..n -> T]
    PROVE  f \in Seq(T) /\ Len(f) = n
  <1>1. f \in Seq(T)
    OBVIOUS
  <1> QED BY <1>1

\* The elements of a concatenation, by the sequence they come from.
LEMMA ConcatElements ==
    ASSUME NEW T, NEW s \in Seq(T), NEW t \in Seq(T)
    PROVE  /\ s \o t \in Seq(T) /\ Len(s \o t) = Len(s) + Len(t)
           /\ \A i \in 1..Len(s) : (s \o t)[i] = s[i]
           /\ \A i \in 1..Len(t) : (s \o t)[Len(s) + i] = t[i]
  <1> DEFINE c == s \o t
  <1>1. /\ c \in Seq(T) /\ Len(c) = Len(s) + Len(t) /\ Len(s) \in Nat /\ Len(t) \in Nat
        /\ \A i \in 1 .. Len(s) + Len(t) : c[i] = IF i <= Len(s) THEN s[i] ELSE t[i - Len(s)]
    BY ConcatProperties
  <1> HIDE DEF c
  <1>2. \A i \in 1..Len(s) : c[i] = s[i]
    BY <1>1
  <1>3. ASSUME NEW i \in 1..Len(t) PROVE c[Len(s) + i] = t[i]
    <2>1. Len(s) + i \in 1 .. Len(s) + Len(t) /\ ~(Len(s) + i <= Len(s)) /\ (Len(s) + i) - Len(s) = i
      BY <1>1
    <2> QED BY <1>1, <2>1
  <1> QED BY <1>1, <1>2, <1>3 DEF c

\* The elements of a part of a sequence.
LEMMA SubSeqElements ==
    ASSUME NEW T, NEW s, NEW m \in Nat, NEW n \in Nat, m <= n,
           \A i \in (m + 1)..n : s[i] \in T
    PROVE  /\ SubSeq(s, m + 1, n) \in Seq(T) /\ Len(SubSeq(s, m + 1, n)) = n - m
           /\ \A i \in 1..(n - m) : SubSeq(s, m + 1, n)[i] = s[m + i]
  <1> DEFINE c == SubSeq(s, m + 1, n)
  <1>1. m + 1 \in Int /\ n \in Int
    OBVIOUS
  <1>2. /\ c \in Seq(T)
        /\ Len(c) = IF m + 1 <= n THEN n - (m + 1) + 1 ELSE 0
        /\ \A i \in 1 .. n - (m + 1) + 1 : c[i] = s[(m + 1) + i - 1]
    BY <1>1, SubSeqProperties
  <1> HIDE DEF c
  <1>3. n - (m + 1) + 1 = n - m /\ \A i \in Nat : (m + 1) + i - 1 = m + i
    OBVIOUS
  <1>4. /\ Len(c) = IF m + 1 <= n THEN n - m ELSE 0
        /\ \A i \in 1..(n - m) : c[i] = s[(m + 1) + i - 1]
    BY <1>2, <1>3
  <1>5. Len(c) = n - m
    BY <1>4
  <1>6. ASSUME NEW i \in 1..(n - m) PROVE c[i] = s[m + i]
    <2>1. (m + 1) + i - 1 = m + i
      OBVIOUS
    <2> QED BY <1>4, <2>1
  <1> QED BY <1>2, <1>5, <1>6 DEF c

\* An option as a sequence.
LEMMA OptionToSeq ==
    /\ SetToSeq({}) = <<>>
    /\ \A x : SetToSeq({x}) = <<x>>
  <1>1. SetToSeq({}) = <<>>
    <2>1. Cardinality({}) = 0
      BY FS_EmptySet
    <2>2. \A f \in [1..0 -> {}] : f = <<>>
      OBVIOUS
    <2>3. <<>> \in [1..0 -> {}] /\ IsInjective(<<>>)
      BY DEF IsInjective
    <2> QED BY <2>1, <2>2, <2>3 DEF SetToSeq
  <1>2. ASSUME NEW x PROVE SetToSeq({x}) = <<x>>
    <2>1. Cardinality({x}) = 1
      BY FS_Singleton
    <2>2. \A f \in [1..1 -> {x}] : f = <<x>>
      OBVIOUS
    <2>3. <<x>> \in [1..1 -> {x}] /\ IsInjective(<<x>>)
      BY DEF IsInjective
    <2> QED BY <2>1, <2>2, <2>3 DEF SetToSeq
  <1> QED BY <1>1, <1>2

-----------------------------------------------------------------------------
(***************************************************************************)
(* Gas                                                                     *)
(***************************************************************************)

\* g is the gas that the first transactions use.
Totals(gas, n, g) ==
    /\ g \in [0..n -> Nat]
    /\ g[0] = 0
    /\ \A k \in 1..n : g[k] = g[k - 1] + gas[k]

\* There are totals for as many transactions as there are.
LEMMA TotalsExist ==
    ASSUME NEW gas \in Seq(Nat), NEW n \in 0..Len(gas)
    PROVE  \E g : Totals(gas, n, g)
  <1> DEFINE S == {m \in Nat : m <= Len(gas) => \E g : Totals(gas, m, g)}
  <1>1. 0 \in S
    <2> DEFINE g == [k \in 0..0 |-> 0]
    <2>1. Totals(gas, 0, g)
      BY DEF Totals
    <2> QED BY <2>1
  <1>2. ASSUME NEW m \in Nat, m \in S PROVE m + 1 \in S
    <2> SUFFICES ASSUME m + 1 <= Len(gas) PROVE \E g : Totals(gas, m + 1, g)
      OBVIOUS
    <2>1. m <= Len(gas) /\ gas[m + 1] \in Nat
      OBVIOUS
    <2>2. PICK g : Totals(gas, m, g)
      BY <1>2, <2>1
    <2> DEFINE h == [k \in 0..(m + 1) |-> IF k <= m THEN g[k] ELSE g[m] + gas[m + 1]]
    <2>3. h \in [0..(m + 1) -> Nat]
      BY <2>1, <2>2 DEF Totals
    <2>4. h[0] = 0
      BY <2>2 DEF Totals
    <2>5. ASSUME NEW k \in 1..(m + 1) PROVE h[k] = h[k - 1] + gas[k]
      <3>1. k - 1 \in 0..m /\ k \in 0..(m + 1) /\ k - 1 \in 0..(m + 1) /\ k - 1 <= m
        OBVIOUS
      <3>2. h[k - 1] = g[k - 1]
        BY <3>1
      <3>3. CASE k <= m
        <4>1. h[k] = g[k] /\ k \in 1..m
          BY <3>1, <3>3
        <4> QED BY <2>2, <3>2, <4>1 DEF Totals
      <3>4. CASE k = m + 1
        <4>1. h[k] = g[m] + gas[k] /\ k - 1 = m
          BY <3>1, <3>4
        <4> QED BY <3>2, <4>1
      <3> QED BY <3>3, <3>4
    <2> HIDE DEF h
    <2>6. Totals(gas, m + 1, h)
      BY <2>3, <2>4, <2>5 DEF Totals
    <2> QED BY <2>6
  <1> HIDE DEF S
  <1>3. \A m \in Nat : m \in S
    BY <1>1, <1>2, SetInduction
  <1>4. n \in Nat /\ n <= Len(gas)
    OBVIOUS
  <1> QED BY <1>3, <1>4 DEF S

\* CumulativeGas is well defined: it adds up.
LEMMA CumulativeGasAdds ==
    ASSUME NEW gas \in Seq(Nat)
    PROVE  Totals(gas, Len(gas), CumulativeGas(gas))
  <1> DEFINE n == Len(gas)
             Body(h) == [k \in 0..n |-> IF k = 0 THEN 0 ELSE h[k - 1] + gas[k]]
             c == CumulativeGas(gas)
  <1>0. n \in Nat
    OBVIOUS
  <1>1. PICK f : Totals(gas, n, f)
    BY <1>0, TotalsExist
  <1>2. f = Body(f)
    <2>1. \A k \in 0..n : f[k] = Body(f)[k]
      <3> SUFFICES ASSUME NEW k \in 0..n PROVE f[k] = IF k = 0 THEN 0 ELSE f[k - 1] + gas[k]
        OBVIOUS
      <3>1. CASE k = 0
        BY <1>1, <3>1 DEF Totals
      <3>2. CASE k # 0
        <4>1. k \in 1..n
          BY <3>2
        <4> QED BY <1>1, <3>2, <4>1 DEF Totals
      <3> QED BY <3>1, <3>2
    <2>2. f = [k \in 0..n |-> f[k]]
      BY <1>1 DEF Totals
    <2> QED BY <2>1, <2>2
  <1>3. c = CHOOSE h : h = Body(h)
    BY DEF CumulativeGas
  <1>4. c = Body(c)
    <2> HIDE DEF Body, c
    <2> QED BY <1>2, <1>3
  <1> HIDE DEF c
  <1>5. c[0] = 0 /\ \A k \in 1..n : c[k] = c[k - 1] + gas[k]
    <2>1. c[0] = 0
      BY <1>0, <1>4
    <2>2. ASSUME NEW k \in 1..n PROVE c[k] = c[k - 1] + gas[k]
      <3>1. k \in 0..n /\ k # 0
        BY <1>0
      <3> QED BY <1>4, <3>1
    <2> QED BY <2>1, <2>2
  <1>6. \A k \in 0..n : c[k] \in Nat
    <2> DEFINE S == {k \in Nat : k <= n => c[k] \in Nat}
    <2>1. 0 \in S
      BY <1>5
    <2>2. ASSUME NEW k \in Nat, k \in S PROVE k + 1 \in S
      <3> SUFFICES ASSUME k + 1 <= n PROVE c[k + 1] \in Nat
        OBVIOUS
      <3>1. k + 1 \in 1..n /\ (k + 1) - 1 = k /\ k <= n
        BY <1>0
      <3>2. c[k] \in Nat /\ gas[k + 1] \in Nat
        BY <2>2, <3>1
      <3> QED BY <1>5, <3>1, <3>2
    <2> HIDE DEF S
    <2>3. \A k \in Nat : k \in S
      BY <2>1, <2>2, SetInduction
    <2> QED BY <1>0, <2>3 DEF S
  <1>7. c \in [0..n -> Nat]
    <2>1. c = [k \in 0..n |-> c[k]]
      BY <1>4
    <2> QED BY <1>6, <2>1
  <1> QED BY <1>5, <1>7 DEF Totals, c

\* The totals of a beginning are the beginning of the totals.
LEMMA CumulativeGasOfPrefix ==
    ASSUME NEW gas \in Seq(Nat), NEW n \in 0..Len(gas), NEW user \in Seq(Nat),
           Len(user) = n, \A i \in 1..n : user[i] = gas[i]
    PROVE  \A k \in 0..n : CumulativeGas(user)[k] = CumulativeGas(gas)[k]
  <1> DEFINE c == CumulativeGas(gas)
             d == CumulativeGas(user)
             S == {k \in Nat : k <= n => d[k] = c[k]}
  <1>1. Totals(gas, Len(gas), c) /\ Totals(user, n, d)
    BY CumulativeGasAdds
  <1> HIDE DEF c, d
  <1>2. 0 \in S
    BY <1>1 DEF Totals
  <1>3. ASSUME NEW k \in Nat, k \in S PROVE k + 1 \in S
    <2> SUFFICES ASSUME k + 1 <= n PROVE d[k + 1] = c[k + 1]
      OBVIOUS
    <2>1. k + 1 \in 1..n /\ k + 1 \in 1..Len(gas) /\ (k + 1) - 1 = k /\ k <= n
      OBVIOUS
    <2>2. d[k] = c[k] /\ user[k + 1] = gas[k + 1]
      BY <1>3, <2>1
    <2>3. d[k + 1] = d[k] + user[k + 1] /\ c[k + 1] = c[k] + gas[k + 1]
      BY <1>1, <2>1 DEF Totals
    <2> QED BY <2>2, <2>3
  <1> HIDE DEF S
  <1>4. \A k \in Nat : k \in S
    BY <1>2, <1>3, SetInduction
  <1> QED BY <1>4 DEF S, c, d

\* The gas limit is kept: the transactions included are a beginning of those
\* there were and use no more gas than that.
LEMMA IncludedFits ==
    ASSUME NEW gas \in Seq(Nat)
    PROVE  /\ Included(gas) \in Seq(Nat)
           /\ CumulativeGas(Included(gas))[Len(Included(gas))] <= gas_limit
  <1> DEFINE c == CumulativeGas(gas)
             Fit == {k \in 0..Len(gas) : \A j \in 0..k : c[j] <= gas_limit}
             f == [k \in 1..(Len(gas) + 1) |-> IF k - 1 \in Fit THEN k ELSE 0]
  <1>0. Len(gas) \in Nat /\ Fit \subseteq Nat /\ gas_limit \in Nat
    BY Constants
  <1>1. Totals(gas, Len(gas), c)
    BY CumulativeGasAdds
  <1>2. 0 \in Fit
    BY <1>0, <1>1 DEF Totals
  <1> HIDE DEF Fit
  <1>3. \E x \in Fit : \A y \in Fit : x >= y
    <2>1. \A n \in 1..(Len(gas) + 1) : f[n] \in Nat
      OBVIOUS
    <2>2. PICK m \in 1..(Len(gas) + 1) : \A n \in 1..(Len(gas) + 1) : f[n] <= f[m]
      <3> HIDE DEF f
      <3>1. Len(gas) + 1 \in Nat \ {0}
        BY <1>0
      <3> QED BY <2>1, <3>1, GreatestValue
    <2>3. 1 \in 1..(Len(gas) + 1) /\ f[1] = 1
      BY <1>0, <1>2
    <2>4. m - 1 \in Fit
      BY <1>0, <2>2, <2>3
    <2>5. ASSUME NEW y \in Fit PROVE m - 1 >= y
      <3>1. y + 1 \in 1..(Len(gas) + 1) /\ f[y + 1] = y + 1 /\ f[m] = m
        BY <1>0, <2>4 DEF Fit
      <3>2. y \in Nat /\ m \in Nat
        BY <1>0
      <3> HIDE DEF f
      <3>3. f[y + 1] <= f[m]
        BY <2>2, <3>1
      <3> QED BY <3>1, <3>2, <3>3
    <2> QED BY <2>4, <2>5
  <1>4. PICK x \in Fit : \A y \in Fit : x >= y
    BY <1>3
  <1>5. Max(Fit) = x
    BY <1>0, <1>4, MaxIs
  <1>6. x \in 0..Len(gas) /\ c[x] <= gas_limit
    BY <1>0 DEF Fit
  <1> DEFINE user == SubSeq(gas, 1, x)
  <1>7. user \in Seq(Nat) /\ Len(user) = x /\ \A i \in 1..x : user[i] = gas[i]
    BY <1>0, <1>6
  <1>8. Included(gas) = user
    BY <1>5 DEF Included, Fit
  <1> HIDE DEF user, c
  <1>9. CumulativeGas(user)[x] = c[x]
    BY <1>0, <1>6, <1>7, CumulativeGasOfPrefix DEF c
  <1> QED BY <1>6, <1>7, <1>8, <1>9

-----------------------------------------------------------------------------
(***************************************************************************)
(* Building a payload                                                      *)
(***************************************************************************)

\* A page has the events that come next, and if it is not full, all of them.
LEMMA PageIs ==
    ASSUME NEW last \in Nat, events \in Seq([at : Nat \ {0}, waiting : Nat]),
           last <= Len(events)
    PROVE  \E evs :
            /\ evs = fetch_state_sync_events(last + 1)
            /\ evs \in Seq(Nat) /\ Len(evs) <= limit
            /\ \A i \in 1..Len(evs) : evs[i] = last + i
            /\ last + Len(evs) <= Len(events)
            /\ Len(evs) < limit => last + Len(evs) = Len(events)
  <1> DEFINE ids == [i \in DOMAIN events |-> i]
             n == Len(events)
             to == IF last + limit <= n THEN last + limit ELSE n
  <1>0. limit \in Nat \ {0} /\ n \in Nat
    BY Constants
  <1>1. ids \in Seq(Nat) /\ Len(ids) = n /\ \A i \in 1..n : ids[i] = i
    OBVIOUS
  <1>2. (last + 1) + limit - 1 = last + limit
    BY <1>0
  <1>3. Min({last + limit, n}) = to
    <2> DEFINE S == {last + limit, n}
    <2>1. to \in Nat /\ to \in S /\ S \subseteq Nat
      BY <1>0
    <2>2. \A y \in S : to =< y
      BY <1>0
    <2> HIDE DEF to, S
    <2>3. Min(S) = to
      BY <2>1, <2>2, MinIs
    <2> QED BY <2>3 DEF S
  <1>e. PICK e : e = SubSeq(ids, last + 1, to)
    OBVIOUS
  <1>4. e = fetch_state_sync_events(last + 1)
    BY <1>2, <1>3, <1>e DEF fetch_state_sync_events
  <1>5. to \in Nat /\ to <= n /\ to >= last /\ to - last <= limit /\ (to - last < limit => to = n)
    BY <1>0
  <1> HIDE DEF ids, n, to
  <1>6. /\ e \in Seq(Nat) /\ Len(e) = to - last
        /\ \A i \in 1..(to - last) : e[i] = ids[last + i]
    <2>1. last <= to /\ \A i \in (last + 1)..to : ids[i] \in Nat
      BY <1>0, <1>1, <1>5
    <2>2. to \in Nat
      BY <1>5
    <2> QED BY <1>e, <2>1, <2>2, SubSeqElements
  <1>7. \A i \in 1..(to - last) : e[i] = last + i
    BY <1>0, <1>1, <1>5, <1>6
  <1>8. /\ e \in Seq(Nat) /\ Len(e) <= limit
        /\ \A i \in 1..Len(e) : e[i] = last + i
        /\ last + Len(e) <= Len(events)
        /\ Len(e) < limit => last + Len(e) = Len(events)
    BY <1>0, <1>5, <1>6, <1>7 DEF n
  <1> QED BY <1>4, <1>8, Zenon

\* A boundary is one or not.
LEMMA BoundaryType == \A n, size : boundary(n, size) \in BOOLEAN
  BY DEF boundary

\* How many spans and how many events are planned for a block.
PlannedSpans(n, span) == IF boundary(n, span_size) /\ span # {} THEN 1 ELSE 0

PlannedSyncs(n, evs) == IF boundary(n, sprint_size) THEN Len(evs) ELSE 0

PlannedCalls(n, span, evs) == execute_system_tx_plan(plan_system_txs(n, span, evs), span)

\* The calls of a plan: the span, if there is one to commit, then the events.
PlanIs(n, s, span, evs) ==
    LET plan == plan_system_txs(n, span, evs)
        calls == PlannedCalls(n, span, evs)
        o == PlannedSpans(n, span)
        m == PlannedSyncs(n, evs)
    IN  /\ plan.execute_commit_span <=> o = 1
        /\ plan.state_sync_events \in Seq(Nat) /\ Len(plan.state_sync_events) = m
        /\ \A i \in 1..m : plan.state_sync_events[i] = evs[i]
        /\ calls \in Seq(SystemCalls) /\ Len(calls) = o + m
        /\ o = 1 => calls[1] = CommitSpanCall(s)
        /\ \A i \in 1..m : calls[o + i] = StateReceiveCall(evs[i])

\* Every plan for a block, with at most one span to commit, is one.
LEMMA PlanCalls ==
    ASSUME NEW n \in Nat, NEW s \in Nat, NEW span \in {{}, {s}}, NEW evs \in Seq(Nat)
    PROVE  PlanIs(n, s, span, evs)
  <1>p. PICK plan : plan = plan_system_txs(n, span, evs)
    OBVIOUS
  <1>c. PICK calls : calls = PlannedCalls(n, span, evs)
    OBVIOUS
  <1>o. PICK o : o = PlannedSpans(n, span)
    OBVIOUS
  <1>m. PICK m : m = PlannedSyncs(n, evs)
    OBVIOUS
  <1> DEFINE first == SpanCalls(plan, span)
             syncs == SyncCalls(plan)
  <1>1. /\ plan.execute_commit_span <=> o = 1
        /\ o = 1 => span = {s}
        /\ plan.state_sync_events = IF boundary(n, sprint_size) THEN evs ELSE <<>>
    <2>1. /\ plan.execute_commit_span = (boundary(n, span_size) /\ span # {})
          /\ plan.state_sync_events = IF boundary(n, sprint_size) THEN evs ELSE <<>>
      BY <1>p DEF plan_system_txs
    <2>2. (boundary(n, span_size) /\ span # {}) <=> o = 1
      BY <1>o DEF PlannedSpans
    <2> QED BY <2>1, <2>2
  <1>2. /\ plan.state_sync_events \in Seq(Nat) /\ Len(plan.state_sync_events) = m
        /\ m \in Nat /\ o \in {0, 1}
        /\ \A i \in 1..m : plan.state_sync_events[i] = evs[i]
    BY <1>1, <1>o, <1>m DEF PlannedSpans, PlannedSyncs
  <1>3. /\ \A id \in Nat : CommitSpanCall(id) \in SystemCalls
        /\ \A id \in Nat : StateReceiveCall(id) \in SystemCalls
    BY DEF CommitSpanCall, StateReceiveCall, SystemCalls
  <1>4. first = IF o = 1 THEN <<CommitSpanCall(s)>> ELSE <<>>
    <2>1. CASE o = 1
      <3>1. {CommitSpanCall(id) : id \in span} = {CommitSpanCall(s)}
        BY <1>1, <2>1
      <3> QED BY <1>1, <2>1, <3>1, OptionToSeq DEF SpanCalls
    <2>2. CASE o # 1
      BY <1>1, <2>2 DEF SpanCalls
    <2> QED BY <2>1, <2>2
  <1>5. first \in Seq(SystemCalls) /\ Len(first) = o
    BY <1>2, <1>3, <1>4
  <1>6. /\ syncs \in Seq(SystemCalls) /\ Len(syncs) = m
        /\ \A i \in 1..m : syncs[i] = StateReceiveCall(evs[i])
    <2>1. DOMAIN plan.state_sync_events = 1..m
      BY <1>2
    <2>2. syncs = [i \in 1..m |-> StateReceiveCall(plan.state_sync_events[i])]
      BY <2>1 DEF SyncCalls
    <2>3. \A i \in 1..m : StateReceiveCall(plan.state_sync_events[i]) \in SystemCalls
      BY <1>2, <1>3
    <2> HIDE DEF syncs
    <2> QED BY <1>2, <2>2, <2>3
  <1>7. calls = first \o syncs
    BY <1>p, <1>c DEF execute_system_tx_plan, PlannedCalls
  <1> HIDE DEF first, syncs
  <1>8. /\ calls \in Seq(SystemCalls) /\ Len(calls) = o + m
        /\ \A i \in 1..o : calls[i] = first[i]
        /\ \A i \in 1..m : calls[o + i] = syncs[i]
    <2>1. /\ first \o syncs \in Seq(SystemCalls)
          /\ Len(first \o syncs) = Len(first) + Len(syncs)
          /\ \A i \in 1..Len(first) : (first \o syncs)[i] = first[i]
          /\ \A i \in 1..Len(syncs) : (first \o syncs)[Len(first) + i] = syncs[i]
      <3>1. first \in Seq(SystemCalls) /\ syncs \in Seq(SystemCalls)
        BY <1>5, <1>6
      <3> QED BY <3>1, ConcatElements
    <2> QED BY <1>5, <1>6, <1>7, <2>1
  <1>9. ASSUME o = 1 PROVE calls[1] = CommitSpanCall(s)
    <2>1. first[1] = CommitSpanCall(s)
      BY <1>4, <1>9
    <2>2. 1 \in 1..o
      BY <1>9
    <2> QED BY <1>8, <2>1, <2>2
  <1>10. \A i \in 1..m : calls[o + i] = StateReceiveCall(evs[i])
    BY <1>6, <1>8
  <1> QED BY <1>1, <1>2, <1>8, <1>9, <1>10, <1>p, <1>c, <1>o, <1>m, Zenon DEF PlanIs

\* Counting the calls of each kind gives what the plan has of them.
LEMMA CallCounts ==
    ASSUME NEW calls \in Seq(SystemCalls), NEW o \in {0, 1}, NEW m \in Nat, Len(calls) = o + m,
           o = 1 => calls[1].call = "commitSpan",
           \A i \in 1..m : calls[o + i].call = "onStateReceive"
    PROVE  /\ (\E i \in DOMAIN calls : calls[i].call = "commitSpan") <=> o = 1
           /\ Cardinality({i \in DOMAIN calls : calls[i].call = "onStateReceive"}) = m
  <1>1. DOMAIN calls = 1..(o + m)
    OBVIOUS
  <1>2. ASSUME NEW i \in 1..(o + m)
        PROVE  calls[i].call = IF i <= o THEN "commitSpan" ELSE "onStateReceive"
    <2>1. CASE i <= o
      <3>1. i = 1 /\ o = 1
        BY <2>1
      <3> QED BY <2>1, <3>1
    <2>2. CASE ~(i <= o)
      <3>1. i - o \in 1..m /\ (i - o) + o = i
        BY <2>2
      <3> QED BY <2>2, <3>1
    <2> QED BY <2>1, <2>2
  <1>3. (\E i \in DOMAIN calls : calls[i].call = "commitSpan") <=> o = 1
    <2>1. ASSUME NEW i \in DOMAIN calls, calls[i].call = "commitSpan" PROVE o = 1
      BY <1>1, <1>2, <2>1
    <2>2. ASSUME o = 1 PROVE 1 \in DOMAIN calls /\ calls[1].call = "commitSpan"
      BY <1>1, <2>2
    <2> QED BY <2>1, <2>2
  <1>4. {i \in DOMAIN calls : calls[i].call = "onStateReceive"} = (o + 1)..(o + m)
    <2>1. ASSUME NEW i \in 1..(o + m)
          PROVE  calls[i].call = "onStateReceive" <=> i \in (o + 1)..(o + m)
      <3>1. CASE i <= o
        BY <1>2, <3>1
      <3>2. CASE ~(i <= o)
        BY <1>2, <3>2
      <3> QED BY <3>1, <3>2
    <2>2. (o + 1)..(o + m) \subseteq 1..(o + m)
      OBVIOUS
    <2> QED BY <1>1, <2>1, <2>2
  <1>5. Cardinality((o + 1)..(o + m)) = m
    <2>1. Cardinality((o + 1)..(o + m)) = IF o + 1 > o + m THEN 0 ELSE (o + m) - (o + 1) + 1
      BY FS_Interval
    <2> QED BY <2>1
  <1> QED BY <1>3, <1>4, <1>5

\* Some events are the ones that come next.
NextEvents(evs, last) ==
    /\ evs \in Seq(Nat) /\ Len(evs) <= limit
    /\ \A i \in 1..Len(evs) : evs[i] = last + i

\* A payload for a block has the next span and the next events.
BuiltIs(built, n, s, span, last, evs) ==
    /\ built.block_number = n
    /\ TxsOk(built) /\ CallsFollow(built, s, last)
    /\ built.state_sync_count = (IF boundary(n, sprint_size) THEN Len(evs) ELSE 0)
    /\ built.commit_span_executed <=> boundary(n, span_size) /\ span # {}

\* A payload built for a block keeps its promises about gas and calls.
LEMMA BuildOk ==
    ASSUME NEW n \in Nat \ {0}, NEW user_txs \in Seq(Nat), NEW s \in Nat, NEW last \in Nat,
           NEW span \in {{}, {s + 1}}, NEW evs, NextEvents(evs, last),
           NEW built, built = build(n, user_txs, span, evs)
    PROVE  BuiltIs(built, n, s, span, last, evs)
  <1> DEFINE user == Included(user_txs)
             Tx == [gas_used : Nat, is_system_tx : BOOLEAN]
  <1>c. PICK calls : calls = PlannedCalls(n, span, evs)
    OBVIOUS
  <1>o. PICK o : o = PlannedSpans(n, span)
    OBVIOUS
  <1>m. PICK m : m = PlannedSyncs(n, evs)
    OBVIOUS
  <1> DEFINE utx == [i \in DOMAIN user |-> PayloadTx(user[i], FALSE)]
             stx == [i \in DOMAIN calls |-> PayloadTx(0, TRUE)]
  <1>0. limit \in Nat /\ gas_limit \in Nat
    BY Constants
  <1>e. evs \in Seq(Nat) /\ Len(evs) <= limit /\ \A i \in 1..Len(evs) : evs[i] = last + i
    BY DEF NextEvents
  <1>1. user \in Seq(Nat) /\ CumulativeGas(user)[Len(user)] <= gas_limit
    BY IncludedFits
  <1>2. /\ calls \in Seq(SystemCalls) /\ Len(calls) = o + m
        /\ o = 1 => calls[1] = CommitSpanCall(s + 1)
        /\ \A i \in 1..m : calls[o + i] = StateReceiveCall(evs[i])
    <2>1. PICK id : id = s + 1
      OBVIOUS
    <2>2. n \in Nat /\ id \in Nat /\ span \in {{}, {id}} /\ evs \in Seq(Nat)
      BY <1>e, <2>1
    <2>3. PlanIs(n, id, span, evs)
      BY <2>2, PlanCalls
    <2>4. /\ calls \in Seq(SystemCalls) /\ Len(calls) = o + m
          /\ o = 1 => calls[1] = CommitSpanCall(id)
          /\ \A i \in 1..m : calls[o + i] = StateReceiveCall(evs[i])
      BY <1>c, <1>o, <1>m, <2>3, Zenon DEF PlanIs
    <2> QED BY <2>1, <2>4
  <1>3. o \in {0, 1} /\ m \in Nat /\ m <= limit
    BY <1>0, <1>e, <1>o, <1>m DEF PlannedSpans, PlannedSyncs
  <1>4. \A i \in 1..m : calls[o + i] = StateReceiveCall(last + i)
    <2>1. \A i \in 1..m : i \in 1..Len(evs)
      BY <1>e, <1>m DEF PlannedSyncs
    <2> QED BY <1>e, <1>2, <2>1
  <1>5. /\ built.block_number = n /\ built.system_calls = calls
        /\ built.transactions = utx \o stx
        /\ built.total_gas_used = CumulativeGas(user)[Len(user)]
        /\ built.commit_span_executed = (\E i \in DOMAIN calls : calls[i].call = "commitSpan")
        /\ built.state_sync_count = Cardinality({i \in DOMAIN calls : calls[i].call = "onStateReceive"})
    BY <1>c DEF build, PlannedCalls
  <1>50. (o = 1 <=> boundary(n, span_size) /\ span # {}) /\ (m > 0 => boundary(n, sprint_size))
    BY <1>o, <1>m DEF PlannedSpans, PlannedSyncs
  <1> HIDE DEF user
  <1>6. /\ (\E i \in DOMAIN calls : calls[i].call = "commitSpan") <=> o = 1
        /\ Cardinality({i \in DOMAIN calls : calls[i].call = "onStateReceive"}) = m
    <2>1. /\ o = 1 => calls[1].call = "commitSpan"
          /\ \A i \in 1..m : calls[o + i].call = "onStateReceive"
      <3>1. \A id : CommitSpanCall(id).call = "commitSpan"
                    /\ StateReceiveCall(id).call = "onStateReceive"
        BY DEF CommitSpanCall, StateReceiveCall
      <3> QED BY <1>2, <1>4, <3>1
    <2> QED BY <1>2, <1>3, <2>1, CallCounts
  <1>7. built.commit_span_executed \in BOOLEAN /\ (built.commit_span_executed <=> o = 1)
        /\ built.state_sync_count = m /\ Offset(built) = o
    BY <1>3, <1>5, <1>6 DEF Offset
  <1>8. CallsFollow(built, s, last)
    <2>1. CallsCounted(built)
      <3>1. built.state_sync_count \in 0..limit
        BY <1>0, <1>3, <1>7
      <3> QED BY <1>2, <1>5, <1>7, <3>1 DEF CallsCounted
    <2>2. built.commit_span_executed =>
            boundary(n, span_size) /\ built.system_calls[1] = CommitSpanCall(s + 1)
      BY <1>2, <1>5, <1>7, <1>50
    <2>3. \A i \in 1..built.state_sync_count :
            built.system_calls[Offset(built) + i] = StateReceiveCall(last + i)
      BY <1>4, <1>5, <1>7
    <2> QED BY <1>5, <1>7, <1>50, <2>1, <2>2, <2>3 DEF CallsFollow
  <1>9. TxsOk(built)
    <2>0. PayloadTx(0, TRUE) \in Tx /\ \A g \in Nat : PayloadTx(g, FALSE) \in Tx
      BY DEF PayloadTx
    <2>1. /\ utx \in Seq(Tx) /\ Len(utx) = Len(user) /\ Len(user) \in Nat
          /\ \A i \in 1..Len(user) : utx[i] = PayloadTx(user[i], FALSE)
      <3>1. DOMAIN user = 1..Len(user) /\ Len(user) \in Nat /\ \A i \in 1..Len(user) : user[i] \in Nat
        BY <1>1
      <3>2. utx \in [1..Len(user) -> Tx] /\ \A i \in 1..Len(user) : utx[i] = PayloadTx(user[i], FALSE)
        BY <2>0, <3>1
      <3> HIDE DEF utx, Tx
      <3> QED BY <3>1, <3>2, FunctionIsSeq
    <2>2. /\ stx \in Seq(Tx) /\ Len(stx) = Len(calls) /\ Len(calls) \in Nat
          /\ \A i \in 1..Len(calls) : stx[i] = PayloadTx(0, TRUE)
      <3>1. DOMAIN calls = 1..Len(calls) /\ Len(calls) \in Nat
        BY <1>2, LenProperties
      <3>2. stx \in [1..Len(calls) -> Tx] /\ \A i \in 1..Len(calls) : stx[i] = PayloadTx(0, TRUE)
        BY <2>0, <3>1
      <3> HIDE DEF stx, Tx
      <3> QED BY <3>1, <3>2, FunctionIsSeq
    <2> DEFINE t == built.transactions
    <2> HIDE DEF utx, stx, Tx
    <2>3. /\ t \in Seq(Tx) /\ Len(t) = Len(user) + Len(calls)
          /\ \A i \in 1..Len(user) : t[i] = utx[i]
          /\ \A i \in 1..Len(calls) : t[Len(user) + i] = stx[i]
      <3>1. /\ utx \o stx \in Seq(Tx) /\ Len(utx \o stx) = Len(utx) + Len(stx)
            /\ \A i \in 1..Len(utx) : (utx \o stx)[i] = utx[i]
            /\ \A i \in 1..Len(stx) : (utx \o stx)[Len(utx) + i] = stx[i]
        <4>1. utx \in Seq(Tx) /\ stx \in Seq(Tx)
          BY <2>1, <2>2
        <4> QED BY <4>1, ConcatElements
      <3> QED BY <1>5, <2>1, <2>2, <3>1
    <2> HIDE DEF t
    <2>4. UserCount(built) = Len(user)
      BY <1>5, <2>1, <2>2, <2>3 DEF UserCount, t
    <2>5. ASSUME NEW i \in DOMAIN t PROVE t[i].is_system_tx <=> i > UserCount(built)
      <3>1. i \in 1..(Len(user) + Len(calls))
        BY <2>3
      <3>2. CASE i <= Len(user)
        <4>1. i \in 1..Len(user)
          BY <2>1, <3>1, <3>2
        <4>2. t[i] = PayloadTx(user[i], FALSE)
          BY <2>1, <2>3, <4>1
        <4> QED BY <2>1, <2>4, <3>1, <3>2, <4>2 DEF PayloadTx
      <3>3. CASE ~(i <= Len(user))
        <4>1. i - Len(user) \in 1..Len(calls) /\ Len(user) + (i - Len(user)) = i
          BY <2>1, <2>2, <3>1, <3>3
        <4>2. t[i] = PayloadTx(0, TRUE)
          BY <2>2, <2>3, <4>1
        <4> QED BY <2>1, <2>4, <3>1, <3>3, <4>2 DEF PayloadTx
      <3> QED BY <3>2, <3>3
    <2>6. UserGas(built) = user
      <3>0. \A g, b : PayloadTx(g, b).gas_used = g
        BY DEF PayloadTx
      <3>1. \A i \in 1..Len(user) : t[i].gas_used = user[i]
        <4> SUFFICES ASSUME NEW i \in 1..Len(user) PROVE t[i].gas_used = user[i]
          OBVIOUS
        <4>1. t[i] = PayloadTx(user[i], FALSE)
          BY <2>1, <2>3
        <4> QED BY <3>0, <4>1
      <3>2. user = [i \in 1..Len(user) |-> user[i]]
        BY <1>1
      <3>3. UserGas(built) = [i \in 1..Len(user) |-> t[i].gas_used]
        BY <2>4 DEF UserGas, t
      <3> QED BY <3>1, <3>2, <3>3
    <2> QED BY <1>1, <1>5, <2>1, <2>3, <2>4, <2>5, <2>6 DEF TxsOk, t, Tx
  <1> QED BY <1>5, <1>7, <1>8, <1>9, <1>50, <1>m DEF PlannedSyncs, BuiltIs

-----------------------------------------------------------------------------
(***************************************************************************)
(* What the payloads along a chain announce                                *)
(***************************************************************************)

\* How many calls of a method a payload has.
CountOf(name, p) == IF name = "commitSpan" THEN Offset(p) ELSE p.state_sync_count

\* The ids of the calls of a method.
IdsOf(name, calls) == {c.id : c \in {d \in Range(calls) : d.call = name}}

Names == {"commitSpan", "onStateReceive"}

\* What the calls are whose fields are read.
LEMMA CallFields ==
    ASSUME NEW id
    PROVE  /\ CommitSpanCall(id).call = "commitSpan" /\ CommitSpanCall(id).id = id
           /\ StateReceiveCall(id).call = "onStateReceive" /\ StateReceiveCall(id).id = id
  BY DEF CommitSpanCall, StateReceiveCall

\* Which call is at which place, when the calls follow a span and an event.
LEMMA CallAt ==
    ASSUME NEW p, NEW span \in Nat, NEW event \in Nat, CallsFollow(p, span, event)
    PROVE  /\ Offset(p) \in {0, 1} /\ p.state_sync_count \in Nat
           /\ DOMAIN p.system_calls = 1..(Offset(p) + p.state_sync_count)
           /\ \A i \in 1..Offset(p) : p.system_calls[i] = CommitSpanCall(span + i)
           /\ \A i \in 1..p.state_sync_count :
                p.system_calls[Offset(p) + i] = StateReceiveCall(event + i)
  <1>1. /\ Offset(p) \in {0, 1} /\ limit \in Nat
        /\ Offset(p) = 1 => p.commit_span_executed
    BY Constants DEF Offset
  <1>2. /\ p.system_calls \in Seq(SystemCalls)
        /\ p.state_sync_count \in 0..limit
        /\ Len(p.system_calls) = Offset(p) + p.state_sync_count
        /\ p.commit_span_executed => p.system_calls[1] = CommitSpanCall(span + 1)
        /\ \A i \in 1..p.state_sync_count :
                p.system_calls[Offset(p) + i] = StateReceiveCall(event + i)
    BY DEF CallsFollow, CallsCounted
  <1>3. DOMAIN p.system_calls = 1..(Offset(p) + p.state_sync_count)
    BY <1>2, LenProperties
  <1>4. ASSUME NEW i \in 1..Offset(p) PROVE p.system_calls[i] = CommitSpanCall(span + i)
    <2>1. i = 1 /\ Offset(p) = 1
      BY <1>1
    <2> QED BY <1>1, <1>2, <2>1
  <1> QED BY <1>1, <1>2, <1>3, <1>4

\* The method and the id at a place, in one formula.
LEMMA CallFieldsAt ==
    ASSUME NEW p, NEW span \in Nat, NEW event \in Nat, CallsFollow(p, span, event),
           NEW i \in DOMAIN p.system_calls
    PROVE  /\ i \in Nat \ {0}
           /\ p.system_calls[i].call = IF i <= Offset(p) THEN "commitSpan" ELSE "onStateReceive"
           /\ p.system_calls[i].id = IF i <= Offset(p) THEN span + i ELSE event + (i - Offset(p))
  <1>1. /\ Offset(p) \in {0, 1} /\ p.state_sync_count \in Nat
        /\ DOMAIN p.system_calls = 1..(Offset(p) + p.state_sync_count)
        /\ \A j \in 1..Offset(p) : p.system_calls[j] = CommitSpanCall(span + j)
        /\ \A j \in 1..p.state_sync_count :
                p.system_calls[Offset(p) + j] = StateReceiveCall(event + j)
    BY CallAt
  <1>2. CASE i <= Offset(p)
    <2>1. i \in 1..Offset(p)
      BY <1>1, <1>2
    <2>2. p.system_calls[i] = CommitSpanCall(span + i)
      BY <1>1, <2>1
    <2> QED BY <1>1, <1>2, <2>2, CallFields
  <1>3. CASE ~(i <= Offset(p))
    <2>1. i - Offset(p) \in 1..p.state_sync_count /\ Offset(p) + (i - Offset(p)) = i
      BY <1>1, <1>3
    <2>2. p.system_calls[i] = StateReceiveCall(event + (i - Offset(p)))
      BY <1>1, <2>1
    <2> QED BY <1>1, <1>3, <2>2, CallFields
  <1> QED BY <1>2, <1>3

\* The ids of a payload's calls are the next ones.
LEMMA IdsFollow ==
    ASSUME NEW p, NEW span \in Nat, NEW event \in Nat, CallsFollow(p, span, event),
           NEW name \in Names, NEW last, last = IF name = "commitSpan" THEN span ELSE event
    PROVE  /\ CountOf(name, p) \in Nat
           /\ IdsOf(name, p.system_calls) = (last + 1)..(last + CountOf(name, p))
  <1>c. PICK calls : calls = p.system_calls
    OBVIOUS
  <1>o. PICK o : o = Offset(p)
    OBVIOUS
  <1>m. PICK m : m = p.state_sync_count
    OBVIOUS
  <1>1. o \in {0, 1} /\ m \in Nat /\ DOMAIN calls = 1..(o + m)
    BY <1>c, <1>o, <1>m, CallAt
  <1>2. \A i \in 1..(o + m) :
            /\ calls[i].call = IF i <= o THEN "commitSpan" ELSE "onStateReceive"
            /\ calls[i].id = IF i <= o THEN span + i ELSE event + (i - o)
    BY <1>c, <1>o, <1>1, CallFieldsAt
  <1>3. IdsOf(name, calls) = {calls[i].id : i \in {j \in 1..(o + m) : calls[j].call = name}}
    BY <1>1 DEF IdsOf, Range
  <1>4. CASE name = "commitSpan"
    <2>1. CountOf(name, p) = o /\ last = span
      BY <1>4, <1>o DEF CountOf
    <2>2. ASSUME NEW x PROVE x \in IdsOf(name, calls) <=> x \in (span + 1)..(span + o)
      <3>1. ASSUME x \in IdsOf(name, calls) PROVE x \in (span + 1)..(span + o)
        <4>1. PICK i \in 1..(o + m) : calls[i].call = name /\ x = calls[i].id
          BY <1>3, <3>1
        <4>2. i <= o
          BY <1>2, <1>4, <4>1
        <4>3. x = span + i
          BY <1>2, <4>1, <4>2
        <4> QED BY <1>1, <4>2, <4>3
      <3>2. ASSUME x \in (span + 1)..(span + o) PROVE x \in IdsOf(name, calls)
        <4>1. x - span \in 1..(o + m) /\ x - span <= o /\ span + (x - span) = x
          BY <1>1, <3>2
        <4>2. calls[x - span].call = name /\ calls[x - span].id = x
          BY <1>2, <1>4, <4>1
        <4> QED BY <1>3, <4>1, <4>2
      <3> QED BY <3>1, <3>2
    <2>3. IdsOf(name, calls) = (span + 1)..(span + o)
      BY <2>2, Zenon
    <2>4. o \in Nat
      BY <1>1
    <2> QED BY <1>c, <2>1, <2>3, <2>4, Zenon
  <1>5. CASE name = "onStateReceive"
    <2>1. CountOf(name, p) = m /\ last = event
      BY <1>5, <1>m DEF CountOf
    <2>2. ASSUME NEW x PROVE x \in IdsOf(name, calls) <=> x \in (event + 1)..(event + m)
      <3>1. ASSUME x \in IdsOf(name, calls) PROVE x \in (event + 1)..(event + m)
        <4>1. PICK i \in 1..(o + m) : calls[i].call = name /\ x = calls[i].id
          BY <1>3, <3>1
        <4>2. ~(i <= o)
          BY <1>2, <1>5, <4>1
        <4>3. x = event + (i - o)
          BY <1>2, <4>1, <4>2
        <4> QED BY <1>1, <4>2, <4>3
      <3>2. ASSUME x \in (event + 1)..(event + m) PROVE x \in IdsOf(name, calls)
        <4>1. (x - event) + o \in 1..(o + m) /\ ~((x - event) + o <= o)
              /\ event + (((x - event) + o) - o) = x
          BY <1>1, <3>2
        <4>2. calls[(x - event) + o].call = name /\ calls[(x - event) + o].id = x
          BY <1>2, <1>5, <4>1
        <4> QED BY <1>3, <4>1, <4>2
      <3> QED BY <3>1, <3>2
    <2> QED BY <1>c, <1>1, <2>1, <2>2
  <1> QED BY <1>4, <1>5 DEF Names

\* Ids that follow the greatest one move it by as many as there are.
LEMMA MaxMoves ==
    ASSUME NEW S, S \subseteq Nat, NEW last \in S, \A x \in S : last >= x, NEW count \in Nat
    PROVE  LET T == S \cup ((last + 1)..(last + count))
           IN  /\ T \subseteq Nat /\ last + count \in T
               /\ \A x \in T : last + count >= x
               /\ Max(T) = last + count
  <1> DEFINE T == S \cup ((last + 1)..(last + count))
  <1>1. T \subseteq Nat /\ last + count \in T /\ \A x \in T : last + count >= x
    <2>1. last \in Nat
      OBVIOUS
    <2>2. CASE count = 0
      BY <2>1, <2>2
    <2>3. CASE count # 0
      BY <2>1, <2>3
    <2> QED BY <2>2, <2>3
  <1> HIDE DEF T
  <1>2. Max(T) = last + count
    BY <1>1, MaxIs
  <1> QED BY <1>1, <1>2 DEF T

\* The ids that the first n of some payloads announce, and the last of them.
IdsIn(name, P, n) == {0} \cup UNION {IdsOf(name, P[b].system_calls) : b \in 1..n}

LastIn(name, P, n) == Max(IdsIn(name, P, n))

\* The first n of some payloads follow each other.
Follows(P, n) ==
    \A b \in 1..n : CallsFollow(P[b], LastIn("commitSpan", P, b - 1),
                                      LastIn("onStateReceive", P, b - 1))

\* The last id is the greatest of the ids.
LastIsGreatest(name, P, n) ==
    /\ IdsIn(name, P, n) \subseteq Nat
    /\ LastIn(name, P, n) \in IdsIn(name, P, n)
    /\ \A x \in IdsIn(name, P, n) : LastIn(name, P, n) >= x

\* Nothing is announced yet.
LEMMA LastOfNone ==
    ASSUME NEW name, NEW P
    PROVE  LastIsGreatest(name, P, 0) /\ LastIn(name, P, 0) = 0
  <1>1. IdsIn(name, P, 0) = {0}
    BY DEF IdsIn
  <1>2. Max({0}) = 0
    BY MaxIs
  <1> QED BY <1>1, <1>2 DEF LastIsGreatest, LastIn

\* One more payload that follows moves the last id by its calls.
LEMMA LastStep ==
    ASSUME NEW P, NEW n \in Nat, \A name \in Names : LastIsGreatest(name, P, n),
           CallsFollow(P[n + 1], LastIn("commitSpan", P, n), LastIn("onStateReceive", P, n)),
           NEW name \in Names
    PROVE  /\ LastIsGreatest(name, P, n + 1)
           /\ CountOf(name, P[n + 1]) \in Nat
           /\ LastIn(name, P, n + 1) = LastIn(name, P, n) + CountOf(name, P[n + 1])
  <1>1. /\ LastIn("commitSpan", P, n) \in Nat /\ LastIn("onStateReceive", P, n) \in Nat
    BY DEF LastIsGreatest, Names
  <1>2. PICK last : last = LastIn(name, P, n)
    OBVIOUS
  <1>3. last = IF name = "commitSpan" THEN LastIn("commitSpan", P, n)
               ELSE LastIn("onStateReceive", P, n)
    BY <1>2 DEF Names
  <1>4. PICK count : count = CountOf(name, P[n + 1])
    OBVIOUS
  <1>5. count \in Nat /\ IdsOf(name, P[n + 1].system_calls) = (last + 1)..(last + count)
    BY <1>1, <1>3, <1>4, IdsFollow
  <1>6. PICK S : S = IdsIn(name, P, n)
    OBVIOUS
  <1>7. IdsIn(name, P, n + 1) = S \cup ((last + 1)..(last + count))
    <2>1. 1..(n + 1) = 1..n \cup {n + 1}
      OBVIOUS
    <2>2. IdsIn(name, P, n + 1) = IdsIn(name, P, n) \cup IdsOf(name, P[n + 1].system_calls)
      BY <2>1, Zenon DEF IdsIn
    <2> QED BY <1>5, <1>6, <2>2
  <1>8. S \subseteq Nat /\ last \in S /\ \A x \in S : last >= x
    BY <1>2, <1>6 DEF LastIsGreatest
  <1>9. PICK T : T = S \cup ((last + 1)..(last + count))
    OBVIOUS
  <1>10. /\ T \subseteq Nat /\ last + count \in T
         /\ \A x \in T : last + count >= x
         /\ Max(T) = last + count
    BY <1>5, <1>8, <1>9, MaxMoves
  <1>11. IdsIn(name, P, n + 1) = T /\ LastIn(name, P, n + 1) = last + count
    BY <1>7, <1>9, <1>10 DEF LastIn
  <1> QED BY <1>2, <1>4, <1>5, <1>10, <1>11 DEF LastIsGreatest

\* Along payloads that follow each other the last id moves by their calls.
LEMMA LastAlong ==
    ASSUME NEW P, NEW n \in Nat, Follows(P, n), NEW name \in Names
    PROVE  /\ LastIn(name, P, 0) = 0
           /\ \A b \in 0..n : LastIn(name, P, b) \in Nat
           /\ \A b \in 1..n : /\ CountOf(name, P[b]) \in Nat
                              /\ LastIn(name, P, b) = LastIn(name, P, b - 1) + CountOf(name, P[b])
  <1> DEFINE S == {b \in Nat : b <= n => \A x \in Names : LastIsGreatest(x, P, b)}
  <1>1. 0 \in S
    BY LastOfNone
  <1>2. ASSUME NEW b \in Nat, b \in S, b + 1 <= n
        PROVE  \A x \in Names : /\ LastIsGreatest(x, P, b + 1)
                                /\ CountOf(x, P[b + 1]) \in Nat
                                /\ LastIn(x, P, b + 1) = LastIn(x, P, b) + CountOf(x, P[b + 1])
    <2>1. b + 1 \in 1..n /\ (b + 1) - 1 = b /\ b <= n
      BY <1>2
    <2>2. \A x \in Names : LastIsGreatest(x, P, b)
      BY <1>2, <2>1
    <2>3. CallsFollow(P[b + 1], LastIn("commitSpan", P, b), LastIn("onStateReceive", P, b))
      BY <2>1 DEF Follows
    <2> QED BY <2>2, <2>3, LastStep
  <1>3. \A b \in Nat : b \in S => b + 1 \in S
    BY <1>2
  <1> HIDE DEF S
  <1>4. \A b \in Nat : b \in S
    BY <1>1, <1>3, SetInduction
  <1>5. ASSUME NEW b \in 0..n PROVE LastIn(name, P, b) \in Nat
    <2>1. LastIsGreatest(name, P, b)
      BY <1>4 DEF S
    <2> QED BY <2>1 DEF LastIsGreatest
  <1>6. ASSUME NEW b \in 1..n
        PROVE  /\ CountOf(name, P[b]) \in Nat
               /\ LastIn(name, P, b) = LastIn(name, P, b - 1) + CountOf(name, P[b])
    <2>1. PICK c : c = b - 1
      OBVIOUS
    <2>2. c \in Nat /\ c + 1 <= n /\ c + 1 = b
      BY <2>1
    <2>3. c \in S
      BY <1>4, <2>2
    <2> QED BY <1>2, <2>1, <2>2, <2>3
  <1> QED BY <1>5, <1>6, LastOfNone

\* The last id depends on the payloads up to there only.
LEMMA LastOfSame ==
    ASSUME NEW P, NEW Q, NEW n \in Nat, \A b \in 1..n : P[b] = Q[b], NEW name
    PROVE  LastIn(name, P, n) = LastIn(name, Q, n)
  <1>1. IdsIn(name, P, n) = IdsIn(name, Q, n)
    BY DEF IdsIn
  <1> QED BY <1>1 DEF LastIn

\* The payloads of the blocks on the chain.
Payloads == [b \in DOMAIN chain |-> Block(b).payload]

\* The last id on the chain is that of its payloads.
LEMMA LastOnPayloads ==
    ASSUME NEW T, chain \in Seq(T), NEW name, NEW n \in 0..Len(chain)
    PROVE  LastUpTo(name, n) = LastIn(name, Payloads, n)
  <1>1. \A b \in 1..n : Payloads[b] = blocks[chain[b]].payload
    BY DEF Payloads, Block
  <1>2. IdsIn(name, Payloads, n) =
            {0} \cup UNION {IdsOf(name, blocks[chain[b]].payload.system_calls) : b \in 1..n}
    BY <1>1 DEF IdsIn
  <1> QED BY <1>2 DEF LastUpTo, LastIn, IdsOf

\* So it is after a step.
LEMMA LastOnPayloadsNext ==
    ASSUME NEW T, chain' \in Seq(T), NEW name, NEW n \in 0..Len(chain')
    PROVE  LastUpTo(name, n)' = LastIn(name, Payloads', n)
  <1>1. \A b \in 1..n : Payloads'[b] = blocks'[chain'[b]].payload
    BY DEF Payloads, Block
  <1>2. IdsIn(name, Payloads', n) =
            {0} \cup UNION {IdsOf(name, blocks'[chain'[b]].payload.system_calls) : b \in 1..n}
    BY <1>1 DEF IdsIn
  <1> QED BY <1>2 DEF LastUpTo, LastIn, IdsOf

\* The payloads of the chain follow each other.
LEMMA ChainFollows ==
    ASSUME ChainInv
    PROVE  Len(chain) \in Nat /\ Follows(Payloads, Len(chain))
  <1>1. Len(chain) \in Nat /\ DOMAIN chain = 1..Len(chain) /\ chain \in Seq(DOMAIN blocks)
    BY DEF ChainInv
  <1>2. ASSUME NEW b \in 1..Len(chain)
        PROVE  CallsFollow(Payloads[b], LastIn("commitSpan", Payloads, b - 1),
                                        LastIn("onStateReceive", Payloads, b - 1))
    <2>1. b - 1 \in 0..Len(chain)
      BY <1>1
    <2>2. Payloads[b] = Block(b).payload
      BY <1>1 DEF Payloads
    <2>3. CallsFollow(Block(b).payload, LastUpTo("commitSpan", b - 1),
                                        LastUpTo("onStateReceive", b - 1))
      BY <1>1 DEF ChainInv
    <2>4. /\ LastUpTo("commitSpan", b - 1) = LastIn("commitSpan", Payloads, b - 1)
          /\ LastUpTo("onStateReceive", b - 1) = LastIn("onStateReceive", Payloads, b - 1)
      BY <1>1, <2>1, LastOnPayloads
    <2> QED BY <2>2, <2>3, <2>4
  <1> QED BY <1>1, <1>2 DEF Follows

\* Along the chain the last id moves by the calls of the blocks.
LEMMA LastOnChainMoves ==
    ASSUME ChainInv, NEW name \in Names
    PROVE  /\ LastUpTo(name, 0) = 0
           /\ \A b \in 0..Len(chain) : LastUpTo(name, b) \in Nat
           /\ \A b \in 1..Len(chain) :
                /\ CountOf(name, Block(b).payload) \in Nat
                /\ LastUpTo(name, b) = LastUpTo(name, b - 1) + CountOf(name, Block(b).payload)
  <1>1. Len(chain) \in Nat /\ Follows(Payloads, Len(chain)) /\ chain \in Seq(DOMAIN blocks)
        /\ DOMAIN chain = 1..Len(chain)
    BY ChainFollows DEF ChainInv
  <1>2. /\ LastIn(name, Payloads, 0) = 0
        /\ \A b \in 0..Len(chain) : LastIn(name, Payloads, b) \in Nat
        /\ \A b \in 1..Len(chain) :
                /\ CountOf(name, Payloads[b]) \in Nat
                /\ LastIn(name, Payloads, b) = LastIn(name, Payloads, b - 1) + CountOf(name, Payloads[b])
    BY <1>1, LastAlong
  <1>3. \A b \in 0..Len(chain) : LastUpTo(name, b) = LastIn(name, Payloads, b)
    BY <1>1, LastOnPayloads
  <1>4. \A b \in 1..Len(chain) : Payloads[b] = Block(b).payload
    BY <1>1 DEF Payloads
  <1>5. 0 \in 0..Len(chain) /\ \A b \in 1..Len(chain) : b \in 0..Len(chain) /\ b - 1 \in 0..Len(chain)
    BY <1>1
  <1> QED BY <1>2, <1>3, <1>4, <1>5, Zenon

\* The last id never falls along the chain.
LEMMA LastMonotone ==
    ASSUME ChainInv, NEW name \in Names,
           NEW b \in 0..Len(chain), NEW c \in 0..Len(chain), b <= c
    PROVE  LastUpTo(name, b) <= LastUpTo(name, c)
  <1> DEFINE LastTo(k) == LastUpTo(name, k)
             S == {k \in Nat : k \in b..Len(chain) => LastTo(b) <= LastTo(k)}
  <1>0. Len(chain) \in Nat
    BY DEF ChainInv
  <1>1. /\ \A k \in 0..Len(chain) : LastTo(k) \in Nat
        /\ \A k \in 1..Len(chain) : \E n \in Nat : LastTo(k) = LastTo(k - 1) + n
    BY LastOnChainMoves
  <1> HIDE DEF LastTo
  <1>2. 0 \in S
    BY <1>0, <1>1
  <1>3. ASSUME NEW k \in Nat, k \in S PROVE k + 1 \in S
    <2> SUFFICES ASSUME k + 1 \in b..Len(chain) PROVE LastTo(b) <= LastTo(k + 1)
      OBVIOUS
    <2>1. CASE k + 1 = b
      BY <1>0, <1>1, <2>1
    <2>2. CASE k + 1 # b
      <3>1. k \in b..Len(chain) /\ k \in 0..Len(chain) /\ k + 1 \in 1..Len(chain) /\ (k + 1) - 1 = k
        BY <1>0, <2>2
      <3>2. LastTo(b) <= LastTo(k) /\ LastTo(b) \in Nat /\ LastTo(k) \in Nat
        BY <1>1, <1>3, <3>1
      <3>3. PICK n \in Nat : LastTo(k + 1) = LastTo(k) + n
        BY <1>1, <3>1
      <3> QED BY <3>2, <3>3
    <2> QED BY <2>1, <2>2
  <1> HIDE DEF S
  <1>4. \A k \in Nat : k \in S
    BY <1>2, <1>3, SetInduction
  <1>5. c \in Nat /\ c \in b..Len(chain)
    BY <1>0
  <1> QED BY <1>4, <1>5 DEF S, LastTo

\* A block made the calls that its payload announced.
LEMMA MadeIsAnnounced ==
    ASSUME BlocksInv, ChainInv, NEW b \in DOMAIN chain
    PROVE  /\ Block(b).made = Block(b).payload.system_calls
           /\ Block(b).payload.block_number = b
           /\ b \in Nat \ {0} /\ b \in 1..Len(chain) /\ b - 1 \in 0..Len(chain)
           /\ LastUpTo("commitSpan", b - 1) \in Nat
           /\ LastUpTo("onStateReceive", b - 1) \in Nat
           /\ CallsFollow(Block(b).payload, LastUpTo("commitSpan", b - 1),
                                            LastUpTo("onStateReceive", b - 1))
  <1>1. /\ chain \in Seq(DOMAIN blocks) /\ chain[b][1] = b
        /\ CallsFollow(Block(b).payload, LastUpTo("commitSpan", b - 1),
                                         LastUpTo("onStateReceive", b - 1))
    BY DEF ChainInv
  <1>2. chain[b] \in DOMAIN blocks /\ b \in 1..Len(chain) /\ Len(chain) \in Nat
    BY <1>1
  <1>3. BlockOk(chain[b])
    BY <1>2 DEF BlocksInv
  <1>4. blocks[chain[b]].made = blocks[chain[b]].payload.system_calls
        /\ chain[b][1] = blocks[chain[b]].payload.block_number
    BY <1>3 DEF BlockOk
  <1>5. b \in Nat \ {0} /\ b - 1 \in 0..Len(chain)
    BY <1>2
  <1>6. LastUpTo("commitSpan", b - 1) \in Nat /\ LastUpTo("onStateReceive", b - 1) \in Nat
    BY <1>5, LastOnChainMoves DEF Names
  <1> QED BY <1>1, <1>2, <1>4, <1>5, <1>6 DEF Block

\* The id of a call, from its place.
LEMMA IdAtPlace ==
    ASSUME BlocksInv, ChainInv, NEW name \in Names,
           NEW b \in DOMAIN chain, NEW i \in DOMAIN Block(b).made, Block(b).made[i].call = name
    PROVE  /\ i \in Nat /\ Offset(Block(b).payload) \in Nat
           /\ Block(b).made[i].id = LastUpTo(name, b - 1)
                    + (IF name = "commitSpan" THEN i ELSE i - Offset(Block(b).payload))
           /\ Block(b).made[i].id \in (LastUpTo(name, b - 1) + 1)..LastUpTo(name, b)
  <1>p. PICK p : p = Block(b).payload
    OBVIOUS
  <1>m. PICK calls : calls = p.system_calls
    OBVIOUS
  <1>1. /\ Block(b).made = calls /\ b \in 1..Len(chain)
        /\ LastUpTo("commitSpan", b - 1) \in Nat /\ LastUpTo("onStateReceive", b - 1) \in Nat
        /\ CallsFollow(p, LastUpTo("commitSpan", b - 1), LastUpTo("onStateReceive", b - 1))
    BY <1>p, <1>m, MadeIsAnnounced
  <1>2. /\ Offset(p) \in {0, 1} /\ p.state_sync_count \in Nat
        /\ DOMAIN calls = 1..(Offset(p) + p.state_sync_count)
    BY <1>1, <1>m, CallAt
  <1>3. /\ i \in Nat \ {0}
        /\ calls[i].call = IF i <= Offset(p) THEN "commitSpan" ELSE "onStateReceive"
        /\ calls[i].id = IF i <= Offset(p) THEN LastUpTo("commitSpan", b - 1) + i
                         ELSE LastUpTo("onStateReceive", b - 1) + (i - Offset(p))
    BY <1>1, <1>m, CallFieldsAt
  <1>4. LastUpTo(name, b) = LastUpTo(name, b - 1) + CountOf(name, p)
    BY <1>1, <1>p, LastOnChainMoves
  <1>5. calls[i].call = name /\ i \in 1..(Offset(p) + p.state_sync_count)
    BY <1>1, <1>2
  <1>6. CASE name = "commitSpan"
    <2>1. i <= Offset(p) /\ CountOf(name, p) = Offset(p)
      BY <1>3, <1>5, <1>6 DEF CountOf
    <2>2. calls[i].id = LastUpTo(name, b - 1) + i
      BY <1>3, <1>6, <2>1
    <2>3. calls[i].id \in (LastUpTo(name, b - 1) + 1)..LastUpTo(name, b)
      BY <1>1, <1>2, <1>3, <1>4, <1>6, <2>1, <2>2
    <2> QED BY <1>p, <1>1, <1>2, <1>3, <1>6, <2>2, <2>3
  <1>7. CASE name = "onStateReceive"
    <2>1. ~(i <= Offset(p)) /\ CountOf(name, p) = p.state_sync_count
      BY <1>3, <1>5, <1>7 DEF CountOf
    <2>2. calls[i].id = LastUpTo(name, b - 1) + (i - Offset(p))
      BY <1>3, <1>7, <2>1
    <2>3. i - Offset(p) \in 1..p.state_sync_count
      BY <1>2, <1>3, <1>5, <2>1
    <2>4. calls[i].id \in (LastUpTo(name, b - 1) + 1)..LastUpTo(name, b)
      BY <1>1, <1>2, <1>4, <1>7, <2>1, <2>2, <2>3
    <2> QED BY <1>p, <1>1, <1>2, <1>3, <1>7, <2>2, <2>4
  <1> QED BY <1>6, <1>7 DEF Names

\* Every id up to the last has a place.
LEMMA PlaceOfId ==
    ASSUME BlocksInv, ChainInv, NEW name \in Names, NEW x \in 1..LastOnChain(name)
    PROVE  \E b \in DOMAIN chain : \E i \in DOMAIN Block(b).made :
                Block(b).made[i].call = name /\ Block(b).made[i].id = x
  <1> DEFINE S == {b \in 0..Len(chain) : x <= LastUpTo(name, b)}
  <1>0. Len(chain) \in Nat /\ DOMAIN chain = 1..Len(chain)
    BY DEF ChainInv
  <1>1. /\ LastUpTo(name, 0) = 0
        /\ \A b \in 0..Len(chain) : LastUpTo(name, b) \in Nat
        /\ \A b \in 1..Len(chain) :
                LastUpTo(name, b) = LastUpTo(name, b - 1) + CountOf(name, Block(b).payload)
    BY LastOnChainMoves
  <1>2. Len(chain) \in S /\ S \subseteq Nat
    BY <1>0, <1>1 DEF LastOnChain
  <1>3. PICK b \in S : \A c \in S : b <= c
    BY <1>2, LeastNumber
  <1>4. x \in Nat \ {0} /\ b # 0
    BY <1>0, <1>1, <1>3 DEF LastOnChain
  <1>5. b \in 1..Len(chain) /\ b - 1 \in 0..Len(chain) /\ b - 1 \notin S
    BY <1>0, <1>3, <1>4
  <1>6. LastUpTo(name, b - 1) < x /\ x <= LastUpTo(name, b)
    BY <1>1, <1>4, <1>5
  <1> HIDE DEF S
  <1>p. PICK p : p = Block(b).payload
    OBVIOUS
  <1>m. PICK calls : calls = p.system_calls
    OBVIOUS
  <1>7. /\ Block(b).made = calls /\ b \in DOMAIN chain
        /\ LastUpTo("commitSpan", b - 1) \in Nat /\ LastUpTo("onStateReceive", b - 1) \in Nat
        /\ CallsFollow(p, LastUpTo("commitSpan", b - 1), LastUpTo("onStateReceive", b - 1))
    BY <1>0, <1>5, <1>p, <1>m, MadeIsAnnounced
  <1>8. IdsOf(name, calls) = (LastUpTo(name, b - 1) + 1)..(LastUpTo(name, b - 1) + CountOf(name, p))
    <2>1. LastUpTo(name, b - 1) = IF name = "commitSpan" THEN LastUpTo("commitSpan", b - 1)
                                  ELSE LastUpTo("onStateReceive", b - 1)
      BY DEF Names
    <2> QED BY <1>7, <1>m, <2>1, IdsFollow
  <1>9. LastUpTo(name, b) = LastUpTo(name, b - 1) + CountOf(name, p) /\ LastUpTo(name, b - 1) \in Nat
        /\ LastUpTo(name, b) \in Nat
    BY <1>0, <1>1, <1>5, <1>p
  <1>10. x \in IdsOf(name, calls)
    <2>1. x \in (LastUpTo(name, b - 1) + 1)..LastUpTo(name, b)
      BY <1>4, <1>6, <1>9
    <2> QED BY <1>8, <1>9, <2>1
  <1>11. PICK i \in DOMAIN calls : calls[i].call = name /\ calls[i].id = x
    BY <1>10 DEF IdsOf, Range
  <1> QED BY <1>7, <1>11

\* The calls of a method are made with every id once and in order.
LEMMA InvOnceInOrder ==
    ASSUME BlocksInv, ChainInv, NEW name \in Names
    PROVE  OnceInOrder(name)
  <1>0. Len(chain) \in Nat /\ DOMAIN chain = 1..Len(chain)
    BY DEF ChainInv
  <1>1. \A b \in 0..Len(chain) : LastUpTo(name, b) \in Nat
    BY LastOnChainMoves
  <1>2. ASSUME NEW c \in CallsTo(name)
        PROVE  /\ c[1] \in 1..Len(chain) /\ c[2] \in Nat
               /\ c[1] - 1 \in 0..Len(chain) /\ c[1] \in 0..Len(chain)
               /\ Offset(Block(c[1]).payload) \in Nat
               /\ IdOf(c) = LastUpTo(name, c[1] - 1)
                    + (IF name = "commitSpan" THEN c[2] ELSE c[2] - Offset(Block(c[1]).payload))
               /\ IdOf(c) \in (LastUpTo(name, c[1] - 1) + 1)..LastUpTo(name, c[1])
    <2>0. PICK b \in DOMAIN chain : \E i \in DOMAIN Block(b).made :
                Block(b).made[i].call = name /\ c = <<b, i>>
      BY DEF CallsTo
    <2>1. PICK i \in DOMAIN Block(b).made : Block(b).made[i].call = name /\ c = <<b, i>>
      BY <2>0
    <2>2. c[1] = b /\ c[2] = i
      BY <2>1
    <2>3. /\ i \in Nat /\ Offset(Block(b).payload) \in Nat
          /\ Block(b).made[i].id = LastUpTo(name, b - 1)
                    + (IF name = "commitSpan" THEN i ELSE i - Offset(Block(b).payload))
          /\ Block(b).made[i].id \in (LastUpTo(name, b - 1) + 1)..LastUpTo(name, b)
      BY <2>1, IdAtPlace
    <2>4. b \in 1..Len(chain) /\ b - 1 \in 0..Len(chain) /\ b \in 0..Len(chain)
      BY <1>0
    <2> QED BY <2>2, <2>3, <2>4 DEF IdOf
  <1>3. ASSUME NEW c \in CallsTo(name) PROVE IdOf(c) \in 1..LastOnChain(name)
    <2>1. LastUpTo(name, c[1]) <= LastUpTo(name, Len(chain))
      <3>1. Len(chain) \in 0..Len(chain) /\ c[1] <= Len(chain)
        BY <1>0, <1>2
      <3> QED BY <1>2, <3>1, LastMonotone
    <2>2. /\ LastUpTo(name, c[1]) \in Nat /\ LastUpTo(name, c[1] - 1) \in Nat
          /\ LastUpTo(name, Len(chain)) \in Nat
      BY <1>0, <1>1, <1>2
    <2>3. IdOf(c) \in (LastUpTo(name, c[1] - 1) + 1)..LastUpTo(name, c[1])
      BY <1>2
    <2> QED BY <2>1, <2>2, <2>3 DEF LastOnChain
  <1>4. ASSUME NEW x \in 1..LastOnChain(name) PROVE \E c \in CallsTo(name) : IdOf(c) = x
    <2>0. PICK b \in DOMAIN chain : \E i \in DOMAIN Block(b).made :
                Block(b).made[i].call = name /\ Block(b).made[i].id = x
      BY PlaceOfId
    <2>1. PICK i \in DOMAIN Block(b).made : Block(b).made[i].call = name /\ Block(b).made[i].id = x
      BY <2>0
    <2>2. <<b, i>> \in CallsTo(name)
      BY <2>1 DEF CallsTo
    <2>3. IdOf(<<b, i>>) = x
      BY <2>1 DEF IdOf
    <2> QED BY <2>2, <2>3
  <1>5. ASSUME NEW c \in CallsTo(name), NEW d \in CallsTo(name), Earlier(c, d)
        PROVE  IdOf(c) < IdOf(d)
    <2>1. CASE c[1] < d[1]
      <3>1. c[1] <= d[1] - 1
        BY <1>0, <1>2, <2>1
      <3>2. LastUpTo(name, c[1]) <= LastUpTo(name, d[1] - 1)
        BY <1>2, <3>1, LastMonotone
      <3>3. /\ LastUpTo(name, c[1]) \in Nat /\ LastUpTo(name, c[1] - 1) \in Nat
            /\ LastUpTo(name, d[1]) \in Nat /\ LastUpTo(name, d[1] - 1) \in Nat
        BY <1>1, <1>2
      <3>4. /\ IdOf(c) \in (LastUpTo(name, c[1] - 1) + 1)..LastUpTo(name, c[1])
            /\ IdOf(d) \in (LastUpTo(name, d[1] - 1) + 1)..LastUpTo(name, d[1])
        BY <1>2
      <3> QED BY <3>2, <3>3, <3>4
    <2>2. CASE c[1] = d[1] /\ c[2] < d[2]
      <3>1. LastUpTo(name, c[1] - 1) \in Nat
        BY <1>1, <1>2
      <3>2. /\ IdOf(c) = LastUpTo(name, c[1] - 1)
                + (IF name = "commitSpan" THEN c[2] ELSE c[2] - Offset(Block(c[1]).payload))
            /\ IdOf(d) = LastUpTo(name, c[1] - 1)
                + (IF name = "commitSpan" THEN d[2] ELSE d[2] - Offset(Block(c[1]).payload))
            /\ c[2] \in Nat /\ d[2] \in Nat /\ Offset(Block(c[1]).payload) \in Nat
        BY <1>2, <2>2
      <3>3. CASE name = "commitSpan"
        BY <2>2, <3>1, <3>2, <3>3
      <3>4. CASE name # "commitSpan"
        BY <2>2, <3>1, <3>2, <3>4
      <3> QED BY <3>3, <3>4
    <2> QED BY <1>5, <2>1, <2>2 DEF Earlier
  <1>6. {IdOf(c) : c \in CallsTo(name)} = 1..LastOnChain(name)
    BY <1>3, <1>4
  <1> QED BY <1>5, <1>6 DEF OnceInOrder

-----------------------------------------------------------------------------
(***************************************************************************)
(* The properties of a state in which the invariant holds                  *)
(***************************************************************************)

\* Execution did what the payload announced.
LEMMA InvPayloadIsExecuted ==
    ASSUME BlocksInv
    PROVE  PayloadIsExecuted
  <1> SUFFICES ASSUME NEW h \in DOMAIN blocks
               PROVE  /\ blocks[h].made = blocks[h].payload.system_calls
                      /\ Len(blocks[h].made) = blocks[h].payload.state_sync_count
                            + (IF blocks[h].payload.commit_span_executed THEN 1 ELSE 0)
    BY DEF PayloadIsExecuted
  <1>p. PICK p : p = blocks[h].payload
    OBVIOUS
  <1>1. blocks[h].made = p.system_calls /\ CallsCounted(p)
    BY <1>p DEF BlocksInv, BlockOk
  <1>2. p.state_sync_count \in 0..limit /\ Len(p.system_calls) = Offset(p) + p.state_sync_count
        /\ limit \in Nat
    BY <1>1, Constants DEF CallsCounted
  <1>3. Offset(p) = IF p.commit_span_executed THEN 1 ELSE 0
    BY DEF Offset
  <1>4. Len(p.system_calls) = p.state_sync_count + (IF p.commit_span_executed THEN 1 ELSE 0)
    BY <1>2, <1>3
  <1> QED BY <1>p, <1>1, <1>4

\* Spans are committed first, at boundaries, in order.
LEMMA InvSpansCommitInOrder ==
    ASSUME BlocksInv, ChainInv
    PROVE  SpansCommitInOrder
  <1>1. ASSUME NEW b \in DOMAIN chain, NEW i \in DOMAIN Block(b).made,
               Block(b).made[i].call = "commitSpan"
        PROVE  i = 1 /\ boundary(b, span_size)
    <2>p. PICK p : p = Block(b).payload
      OBVIOUS
    <2>1. /\ Block(b).made = p.system_calls /\ p.block_number = b
          /\ LastUpTo("commitSpan", b - 1) \in Nat /\ LastUpTo("onStateReceive", b - 1) \in Nat
          /\ CallsFollow(p, LastUpTo("commitSpan", b - 1), LastUpTo("onStateReceive", b - 1))
      BY <2>p, MadeIsAnnounced
    <2>2. /\ i \in Nat \ {0}
          /\ p.system_calls[i].call = IF i <= Offset(p) THEN "commitSpan" ELSE "onStateReceive"
      BY <2>1, CallFieldsAt
    <2>3. i <= Offset(p)
      BY <1>1, <2>1, <2>2
    <2>4. i = 1 /\ p.commit_span_executed
      BY <2>2, <2>3 DEF Offset
    <2> QED BY <2>1, <2>4 DEF CallsFollow
  <1>2. OnceInOrder("commitSpan")
    BY InvOnceInOrder DEF Names
  <1> QED BY <1>1, <1>2 DEF SpansCommitInOrder

\* The transactions of a payload that are not system transactions.
LEMMA UserTransactions ==
    ASSUME NEW p, TxsOk(p)
    PROVE  /\ {i \in DOMAIN p.transactions : ~p.transactions[i].is_system_tx} = 1..UserCount(p)
           /\ Cardinality({i \in DOMAIN p.transactions : ~p.transactions[i].is_system_tx})
                = UserCount(p)
  <1> DEFINE S == {i \in DOMAIN p.transactions : ~p.transactions[i].is_system_tx}
  <1>n. PICK n : n = UserCount(p)
    OBVIOUS
  <1>1. /\ n \in 0..Len(p.transactions) /\ DOMAIN p.transactions = 1..Len(p.transactions)
        /\ Len(p.transactions) \in Nat
        /\ \A i \in DOMAIN p.transactions : p.transactions[i].is_system_tx <=> i > n
    BY <1>n DEF TxsOk
  <1>3. S = 1..n
    BY <1>1
  <1>4. Cardinality(1..n) = n
    <2>1. 1 \in Int /\ n \in Int /\ n \in Nat
      BY <1>1
    <2>2. Cardinality(1..n) = IF 1 > n THEN 0 ELSE n - 1 + 1
      BY <2>1, FS_Interval
    <2> QED BY <2>1, <2>2
  <1> QED BY <1>n, <1>3, <1>4

\* A receipt that is found is the block's own.
LEMMA InvBorReceiptIsOwn ==
    ASSUME BlocksInv
    PROVE  BorReceiptIsOwn
  <1> SUFFICES ASSUME NEW h \in DOMAIN blocks, NEW key, key = bor_receipt_key(h[1], h),
                      key \in DOMAIN stored
               PROVE  /\ stored[key].gas = blocks[h].bor_receipt
                      /\ \A g \in DOMAIN blocks \ {h} :
                            derived_bor_tx_hash(g[1], g) # stored[key].tx_hash
    BY DEF BorReceiptIsOwn
  <1>1. stored[key] = [tx_hash |-> key, gas |-> blocks[h].bor_receipt]
    BY DEF BlocksInv, BlockOk
  <1>2. \A g : g # h => derived_bor_tx_hash(g[1], g) # key
    BY DEF derived_bor_tx_hash, bor_receipt_key
  <1> QED BY <1>1, <1>2

\* What the user transactions of a payload use, in total and in between.
LEMMA UserTotals ==
    ASSUME NEW p, TxsOk(p)
    PROVE  /\ UserGas(p) \in Seq(Nat) /\ Len(UserGas(p)) = UserCount(p) /\ UserCount(p) \in Nat
           /\ Totals(UserGas(p), UserCount(p), CumulativeGas(UserGas(p)))
  <1>1. /\ UserCount(p) \in 0..Len(p.transactions) /\ UserCount(p) \in Nat
        /\ p.transactions \in Seq([gas_used : Nat, is_system_tx : BOOLEAN])
    BY DEF TxsOk
  <1>2. 1..UserCount(p) \subseteq DOMAIN p.transactions
    BY UserTransactions
  <1>3. \A i \in 1..UserCount(p) : p.transactions[i].gas_used \in Nat
    <2> SUFFICES ASSUME NEW i \in 1..UserCount(p) PROVE p.transactions[i].gas_used \in Nat
      OBVIOUS
    <2>1. i \in 1..Len(p.transactions)
      BY <1>1
    <2>2. p.transactions[i] \in [gas_used : Nat, is_system_tx : BOOLEAN]
      BY <1>1, <2>1, ElementOfSeq
    <2> QED BY <2>2
  <1>4. UserGas(p) \in [1..UserCount(p) -> Nat]
    BY <1>3 DEF UserGas
  <1>5. UserGas(p) \in Seq(Nat) /\ Len(UserGas(p)) = UserCount(p)
    BY <1>1, <1>4, FunctionIsSeq
  <1> QED BY <1>1, <1>5, CumulativeGasAdds

\* The gas in the receipts adds up.
LEMMA InvReceiptsAddUp ==
    ASSUME BlocksInv
    PROVE  ReceiptsAddUp
  <1>0. SUFFICES ASSUME NEW h \in DOMAIN blocks
               PROVE  LET p == blocks[h].payload
                          all == blocks[h].root \o SetToSeq(blocks[h].bor_receipt)
                      IN  /\ p.total_gas_used <= gas_limit
                          /\ \A i \in 1..(Len(all) - 1) : all[i] <= all[i + 1]
                          /\ all # <<>> => all[Len(all)] = p.total_gas_used
    BY DEF ReceiptsAddUp
  <1>p. PICK p : p = blocks[h].payload
    OBVIOUS
  <1>u. PICK user : user = UserCount(p)
    OBVIOUS
  <1>l. PICK all : all = blocks[h].root \o SetToSeq(blocks[h].bor_receipt)
    OBVIOUS
  <1>c. PICK c : c = CumulativeGas(UserGas(p))
    OBVIOUS
  <1>t. PICK total : total = p.total_gas_used
    OBVIOUS
  <1>r. PICK root : root = blocks[h].root
    OBVIOUS
  <1>1. /\ TxsOk(p)
        /\ blocks[h].bor_receipt = IF p.system_calls = <<>> THEN {} ELSE {total}
        /\ root \in Seq(Nat) /\ Len(root) = user
        /\ \A i \in 1..user : root[i] = c[i]
    BY <1>0, <1>p, <1>u, <1>c, <1>t, <1>r DEF BlocksInv, BlockOk
  <1>2. user \in Nat /\ Totals(UserGas(p), user, c)
    BY <1>1, <1>c, <1>u, UserTotals
  <1>3. total = c[user] /\ total <= gas_limit /\ total \in Nat
    BY <1>1, <1>2, <1>c, <1>t, <1>u DEF TxsOk, Totals
  <1>4. \A i \in 1..user : c[i] \in Nat /\ c[i - 1] <= c[i]
    <2> SUFFICES ASSUME NEW i \in 1..user PROVE c[i] \in Nat /\ c[i - 1] <= c[i]
      OBVIOUS
    <2>1. i \in 0..user /\ i - 1 \in 0..user
      BY <1>2
    <2>2. c[i] \in Nat /\ c[i - 1] \in Nat /\ c[i] = c[i - 1] + UserGas(p)[i]
      BY <1>2, <2>1 DEF Totals
    <2>3. UserGas(p)[i] \in Nat
      BY <1>1, <1>2, <1>u, UserTotals
    <2> QED BY <2>2, <2>3
  <1>b. PICK bor : bor = SetToSeq(blocks[h].bor_receipt)
    OBVIOUS
  <1>5. root \in Seq(Nat) /\ Len(root) = user /\ \A i \in 1..user : root[i] = c[i]
    BY <1>1
  <1>6. bor = IF p.system_calls = <<>> THEN <<>> ELSE <<total>>
    BY <1>1, <1>b, OptionToSeq
  <1>7. bor \in Seq(Nat)
    BY <1>3, <1>6
  <1>8. /\ root \o bor \in Seq(Nat) /\ Len(root \o bor) = Len(root) + Len(bor)
        /\ \A i \in 1..Len(root) : (root \o bor)[i] = root[i]
        /\ \A i \in 1..Len(bor) : (root \o bor)[Len(root) + i] = bor[i]
    <2>1. root \in Seq(Nat)
      BY <1>5
    <2> QED BY <1>7, <2>1, ConcatElements
  <1>9. all = root \o bor
    BY <1>b, <1>r, <1>l
  <1> DEFINE Adds == /\ total <= gas_limit
                     /\ \A i \in 1..(Len(all) - 1) : all[i] <= all[i + 1]
                     /\ all # <<>> => all[Len(all)] = total
  <1>10. ASSUME p.system_calls = <<>> PROVE Adds
    <2>1. Len(bor) = 0
      BY <1>6, <1>10
    <2>2. Len(all) = user /\ \A i \in 1..user : all[i] = c[i]
      BY <1>2, <1>5, <1>8, <1>9, <2>1
    <2>3. ASSUME NEW i \in 1..(Len(all) - 1) PROVE all[i] <= all[i + 1]
      <3>1. i \in 1..user /\ i + 1 \in 1..user /\ (i + 1) - 1 = i
        BY <1>2, <2>2
      <3> QED BY <1>4, <2>2, <3>1
    <2>4. ASSUME all # <<>> PROVE all[Len(all)] = total
      <3>1. user # 0
        BY <1>8, <1>9, <2>2, <2>4, EmptySeq
      <3>2. user \in 1..user
        BY <1>2, <3>1
      <3> QED BY <1>3, <2>2, <3>2
    <2> QED BY <1>3, <2>3, <2>4
  <1>11. ASSUME p.system_calls # <<>> PROVE Adds
    <2>1. Len(bor) = 1 /\ bor[1] = total
      BY <1>6, <1>11
    <2>2. Len(all) = user + 1 /\ \A i \in 1..user : all[i] = c[i]
      BY <1>2, <1>5, <1>8, <1>9, <2>1
    <2>20. all[user + 1] = total
      <3>1. 1 \in 1..Len(bor)
        BY <2>1
      <3> QED BY <1>5, <1>8, <1>9, <2>1, <3>1
    <2>3. ASSUME NEW i \in 1..(Len(all) - 1) PROVE all[i] <= all[i + 1]
      <3>1. CASE i = user
        <4>1. user \in 1..user
          BY <1>2, <2>2, <3>1
        <4>2. all[i] = total /\ all[i + 1] = total
          BY <1>3, <2>2, <2>20, <3>1, <4>1
        <4> QED BY <1>3, <4>2
      <3>2. CASE i # user
        <4>1. i \in 1..user /\ i + 1 \in 1..user /\ (i + 1) - 1 = i
          BY <1>2, <2>2, <3>2
        <4> QED BY <1>4, <2>2, <4>1
      <3> QED BY <3>1, <3>2
    <2> QED BY <1>3, <2>2, <2>20, <2>3
  <1>12. /\ p.total_gas_used <= gas_limit
         /\ \A i \in 1..(Len(all) - 1) : all[i] <= all[i + 1]
         /\ all # <<>> => all[Len(all)] = p.total_gas_used
    BY <1>10, <1>11, <1>t
  <1> QED BY <1>12, <1>p, <1>u, <1>l, Zenon

-----------------------------------------------------------------------------
(***************************************************************************)
(* The steps                                                               *)
(***************************************************************************)

Tx == [gas_used : Nat, is_system_tx : BOOLEAN]

\* The last ids on the chain are numbers.
LEMMA LastType ==
    ASSUME ChainInv
    PROVE  /\ LastOnChain("commitSpan") \in Nat /\ LastOnChain("onStateReceive") \in Nat
           /\ NextNumber \in Nat \ {0} /\ Len(chain) \in Nat
  <1>1. Len(chain) \in Nat
    BY DEF ChainInv
  <1>2. Len(chain) \in 0..Len(chain)
    BY <1>1
  <1> QED BY <1>1, <1>2, LastOnChainMoves DEF Names, LastOnChain, NextNumber

\* A step that leaves the chain and the blocks alone.
LEMMA NodeUnchanged ==
    ASSUME BlocksInv, ChainInv, UNCHANGED node
    PROVE  /\ BlocksInv' /\ ChainInv' /\ NextNumber' = NextNumber
           /\ \A name : LastOnChain(name)' = LastOnChain(name)
           /\ \A name, n : LastUpTo(name, n)' = LastUpTo(name, n)
  <1>1. chain' = chain /\ blocks' = blocks /\ stored' = stored /\ unwinds' = unwinds
    BY DEF node
  <1>2. \A name, n : LastUpTo(name, n)' = LastUpTo(name, n)
    BY <1>1 DEF LastUpTo
  <1>3. NextNumber' = NextNumber /\ \A name : LastOnChain(name)' = LastOnChain(name)
    BY <1>1, <1>2 DEF NextNumber, LastOnChain
  <1>4. BlocksInv'
    <2>1. \A h \in DOMAIN blocks : BlockOk(h)'
      BY <1>1 DEF BlocksInv, BlockOk
    <2> QED BY <1>1, <2>1 DEF BlocksInv
  <1>5. ChainInv'
    BY <1>1, <1>2 DEF ChainInv, Block
  <1> QED BY <1>2, <1>3, <1>4, <1>5

\* The executor is idle, and the chain as it was.
LEMMA IdleExecutor ==
    ASSUME ProductionInv, UNCHANGED node, UNCHANGED heimdall,
           payload' = {}, txs' = <<>>, ctx' = NoCalls, receipts' = <<>>, made' = <<>>
    PROVE  ProductionInv'
  <1>1. BlocksInv' /\ ChainInv' /\ LastOnChain("onStateReceive")' = LastOnChain("onStateReceive")
    BY NodeUnchanged DEF ProductionInv
  <1>2. ExecutorInv'
    <2>1. NoCalls \in Contexts
      BY DEF NoCalls, Contexts
    <2> QED BY <2>1 DEF ExecutorInv
  <1>3. HeimdallInv'
    BY <1>1 DEF ProductionInv, HeimdallInv, heimdall
  <1> QED BY <1>1, <1>2, <1>3 DEF ProductionInv

\* A new event.
LEMMA EventArrivesKeeps ==
    ASSUME ProductionInv, EventArrives
    PROVE  ProductionInv'
  <1>1. /\ UNCHANGED node /\ UNCHANGED executor /\ spans' = spans
        /\ events' = Append(events, [at |-> NextNumber,
                                     waiting |-> Len(events) + 1 - LastOnChain("onStateReceive")])
    BY DEF EventArrives
  <1>2. /\ BlocksInv' /\ ChainInv' /\ NextNumber' = NextNumber
        /\ LastOnChain("onStateReceive")' = LastOnChain("onStateReceive")
        /\ LastOnChain("commitSpan")' = LastOnChain("commitSpan")
    BY <1>1, NodeUnchanged DEF ProductionInv
  <1>3. ExecutorInv'
    <2>1. /\ payload' = payload /\ txs' = txs /\ ctx' = ctx /\ receipts' = receipts /\ made' = made
      BY <1>1 DEF executor
    <2>2. \A p : (TxsUnderWay(p) => TxsUnderWay(p)') /\ (CallsUnderWay(p) => CallsUnderWay(p)')
      BY <2>1 DEF TxsUnderWay, CallsUnderWay, SpansPending
    <2> QED BY <1>2, <2>1, <2>2 DEF ProductionInv, ExecutorInv
  <1>4. HeimdallInv'
    <2>1. /\ LastOnChain("onStateReceive") \in Nat /\ NextNumber \in Nat \ {0}
          /\ events \in Seq([at : Nat \ {0}, waiting : Nat])
          /\ LastOnChain("onStateReceive") <= Len(events)
      BY LastType DEF ProductionInv, HeimdallInv
    <2>2. PICK e : e = [at |-> NextNumber,
                        waiting |-> Len(events) + 1 - LastOnChain("onStateReceive")]
      OBVIOUS
    <2>3. e \in [at : Nat \ {0}, waiting : Nat]
      <3>1. Len(events) + 1 - LastOnChain("onStateReceive") \in Nat
        BY <2>1
      <3> QED BY <2>1, <2>2, <3>1
    <2>4. events' \in Seq([at : Nat \ {0}, waiting : Nat]) /\ Len(events') = Len(events) + 1
      BY <1>1, <2>1, <2>2, <2>3
    <2>5. LastOnChain("onStateReceive")' <= Len(events')
      BY <1>2, <2>1, <2>4
    <2>6. ASSUME NEW p \in payload'
          PROVE  LastOnChain("onStateReceive")' + p.state_sync_count <= Len(events')
      <3>1. p \in payload
        BY <1>1 DEF executor
      <3>2. LastOnChain("onStateReceive") + p.state_sync_count <= Len(events)
        BY <3>1 DEF ProductionInv, HeimdallInv
      <3>3. p.state_sync_count \in Nat
        BY <3>1, Constants DEF ProductionInv, ExecutorInv, CallsFollow, CallsCounted
      <3> QED BY <1>2, <2>1, <2>4, <3>2, <3>3
    <2> QED BY <1>1, <2>4, <2>5, <2>6 DEF ProductionInv, HeimdallInv
  <1> QED BY <1>2, <1>3, <1>4 DEF ProductionInv

\* A new span.
LEMMA SpanArrivesKeeps ==
    ASSUME ProductionInv, SpanArrives
    PROVE  ProductionInv'
  <1>1. /\ UNCHANGED node /\ UNCHANGED executor /\ spans' = spans + 1 /\ events' = events
    BY DEF SpanArrives
  <1>2. /\ BlocksInv' /\ ChainInv' /\ NextNumber' = NextNumber
        /\ LastOnChain("onStateReceive")' = LastOnChain("onStateReceive")
        /\ LastOnChain("commitSpan")' = LastOnChain("commitSpan")
    BY <1>1, NodeUnchanged DEF ProductionInv
  <1>3. /\ payload' = payload /\ txs' = txs /\ ctx' = ctx /\ receipts' = receipts /\ made' = made
    BY <1>1 DEF executor
  <1>4. ExecutorInv'
    <2>2. \A p : (TxsUnderWay(p) => TxsUnderWay(p)') /\ (CallsUnderWay(p) => CallsUnderWay(p)')
      BY <1>3 DEF TxsUnderWay, CallsUnderWay, SpansPending
    <2> QED BY <1>2, <1>3, <2>2 DEF ProductionInv, ExecutorInv
  <1>5. HeimdallInv'
    <2>1. spans' \in Nat
      BY <1>1 DEF ProductionInv, HeimdallInv
    <2> QED BY <1>1, <1>2, <1>3, <2>1 DEF ProductionInv, HeimdallInv
  <1> QED BY <1>2, <1>4, <1>5 DEF ProductionInv

\* A block that fails leaves nothing behind.
LEMMA FailuresKeep ==
    ASSUME ProductionInv, TransactionFails \/ SystemCallFails
    PROVE  ProductionInv'
  <1>1. /\ UNCHANGED node /\ UNCHANGED heimdall /\ payload' = {} /\ txs' = <<>> /\ ctx' = NoCalls
        /\ receipts' = <<>> /\ made' = <<>>
    BY DEF TransactionFails, SystemCallFails
  <1> QED BY <1>1, IdleExecutor

\* A context has the calls of a plan.
ContextIs(c, n, s, span, evs) ==
    /\ c.pending_commit_span = IF PlannedSpans(n, span) = 1 THEN {s} ELSE {}
    /\ c.pending_state_syncs \in Seq(Nat)
    /\ Len(c.pending_state_syncs) = PlannedSyncs(n, evs)
    /\ \A i \in 1..PlannedSyncs(n, evs) : c.pending_state_syncs[i] = evs[i]

\* The context that the node fills has the calls of the plan.
LEMMA ContextHasPlan ==
    ASSUME ContextFilled, NEW n, NEW s, NEW span \in {{}, {s}}, NEW evs, PlanIs(n, s, span, evs)
    PROVE  ContextIs(Context(plan_system_txs(n, span, evs), span), n, s, span, evs)
  <1>c. PICK c : c = Context(plan_system_txs(n, span, evs), span)
    OBVIOUS
  <1>p. PICK plan : plan = plan_system_txs(n, span, evs)
    OBVIOUS
  <1>1. /\ plan.execute_commit_span <=> PlannedSpans(n, span) = 1
        /\ plan.state_sync_events \in Seq(Nat)
        /\ Len(plan.state_sync_events) = PlannedSyncs(n, evs)
        /\ \A i \in 1..PlannedSyncs(n, evs) : plan.state_sync_events[i] = evs[i]
    BY <1>p, Zenon DEF PlanIs
  <1>2. /\ c.pending_commit_span = IF plan.execute_commit_span THEN span ELSE {}
        /\ c.pending_state_syncs = plan.state_sync_events
    BY <1>c, <1>p DEF Context
  <1>3. PlannedSpans(n, span) = 1 => span = {s}
    BY DEF PlannedSpans
  <1>4. c.pending_commit_span = IF PlannedSpans(n, span) = 1 THEN {s} ELSE {}
    BY <1>1, <1>2, <1>3
  <1> QED BY <1>1, <1>2, <1>4, <1>c DEF ContextIs

\* The transactions that are not Bor's are the first ones.
LEMMA RegularTransactions ==
    ASSUME NEW p, TxsOk(p), Len(p.system_calls) \in Nat
    PROVE  Cardinality({i \in DOMAIN p.transactions :
                ~is_bor_system_tx(i - 1, Len(p.transactions), Len(p.system_calls))}) = UserCount(p)
  <1>t. PICK total : total = Len(p.transactions)
    OBVIOUS
  <1>c. PICK calls : calls = Len(p.system_calls)
    OBVIOUS
  <1>n. PICK n : n = UserCount(p)
    OBVIOUS
  <1>1. /\ n \in 0..total /\ DOMAIN p.transactions = 1..total /\ total \in Nat /\ n = total - calls /\ calls \in Nat
    <2>1. /\ p.transactions \in Seq([gas_used : Nat, is_system_tx : BOOLEAN])
          /\ UserCount(p) \in 0..Len(p.transactions)
      BY DEF TxsOk
    <2>2. DOMAIN p.transactions = 1..total /\ total \in Nat
      BY <1>t, <2>1, LenProperties
    <2>3. n = total - calls
      BY <1>n, <1>t, <1>c DEF UserCount
    <2> QED BY <1>n, <1>t, <1>c, <2>1, <2>2, <2>3
  <1>2. {i \in DOMAIN p.transactions : ~is_bor_system_tx(i - 1, total, calls)} = 1..n
    <2>1. \A i \in 1..total : ~(i - 1 >= total - calls) <=> i \in 1..n
      BY <1>1
    <2>2. 1..n \subseteq 1..total
      BY <1>1
    <2> QED BY <1>1, <2>1, <2>2 DEF is_bor_system_tx
  <1>3. Cardinality(1..n) = n
    <2>1. 1 \in Int /\ n \in Int /\ n \in Nat
      BY <1>1
    <2>2. Cardinality(1..n) = IF 1 > n THEN 0 ELSE n - 1 + 1
      BY <2>1, FS_Interval
    <2> QED BY <2>1, <2>2
  <1> QED BY <1>n, <1>t, <1>c, <1>2, <1>3

\* What a payload is when it is built, whatever block it is for.
LEMMA BuildPayloadIs ==
    ASSUME ContextFilled, ProductionInv, BuildPayload
    PROVE  \E built, evs :
            /\ payload' = {built}
            /\ built.block_number = NextNumber
            /\ TxsOk(built)
            /\ CallsFollow(built, LastOnChain("commitSpan"), LastOnChain("onStateReceive"))
            /\ built.state_sync_count = (IF boundary(NextNumber, sprint_size) THEN Len(evs) ELSE 0)
            /\ Len(evs) \in Nat
            /\ LastOnChain("onStateReceive") + Len(evs) <= Len(events)
            /\ Len(evs) < limit => LastOnChain("onStateReceive") + Len(evs) = Len(events)
            /\ txs' = SubSeq(built.transactions, 1, UserCount(built))
            /\ ctx' \in Contexts
            /\ \A id \in ctx'.pending_commit_span :
                    /\ ctx'.pending_commit_span = {id}
                    /\ built.system_calls[1] = CommitSpanCall(id)
            /\ Offset(built) = (IF ctx'.pending_commit_span = {} THEN 0 ELSE 1)
            /\ Len(ctx'.pending_state_syncs) = built.state_sync_count
            /\ \A i \in 1..built.state_sync_count :
                    built.system_calls[Offset(built) + i] = StateReceiveCall(ctx'.pending_state_syncs[i])
  <1>n. PICK n : n = NextNumber
    OBVIOUS
  <1>s. PICK s : s = LastOnChain("commitSpan")
    OBVIOUS
  <1>d. PICK id : id = s + 1
    OBVIOUS
  <1>l. PICK last : last = LastOnChain("onStateReceive")
    OBVIOUS
  <1>p. PICK span : span = {id} \cap (1..spans)
    OBVIOUS
  <1>e. PICK evs : evs = fetch_state_sync_events(last + 1)
    OBVIOUS
  <1>1. PICK user_txs \in UserTxs[n] :
            LET built == build(n, user_txs, span, evs)
                all == built.transactions
                regular(i) == ~is_bor_system_tx(i - 1, Len(all), Len(built.system_calls))
            IN  /\ payload' = {built}
                /\ txs' = SubSeq(all, 1, Cardinality({i \in DOMAIN all : regular(i)}))
                /\ ctx' = Context(plan_system_txs(n, span, evs), span)
    BY <1>n, <1>s, <1>d, <1>l, <1>p, <1>e DEF BuildPayload
  <1>b. PICK built : built = build(n, user_txs, span, evs)
    OBVIOUS
  <1>2. /\ payload' = {built}
        /\ txs' = SubSeq(built.transactions, 1, Cardinality({i \in DOMAIN built.transactions :
                        ~is_bor_system_tx(i - 1, Len(built.transactions), Len(built.system_calls))}))
        /\ ctx' = Context(plan_system_txs(n, span, evs), span)
    BY <1>1, <1>b
  <1>3. /\ s \in Nat /\ last \in Nat /\ n \in Nat \ {0} /\ user_txs \in Seq(Nat) /\ id \in Nat
    BY <1>n, <1>s, <1>l, <1>d, LastType, Constants DEF ProductionInv, BuildPayload
  <1>4. span \in {{}, {id}}
    BY <1>p
  <1>5. events \in Seq([at : Nat \ {0}, waiting : Nat]) /\ last <= Len(events)
    BY <1>l DEF ProductionInv, HeimdallInv
  <1>6. /\ evs \in Seq(Nat) /\ Len(evs) <= limit
        /\ \A i \in 1..Len(evs) : evs[i] = last + i
        /\ last + Len(evs) <= Len(events)
        /\ Len(evs) < limit => last + Len(evs) = Len(events)
    <2>1. PICK page :
            /\ page = fetch_state_sync_events(last + 1)
            /\ page \in Seq(Nat) /\ Len(page) <= limit
            /\ \A i \in 1..Len(page) : page[i] = last + i
            /\ last + Len(page) <= Len(events)
            /\ Len(page) < limit => last + Len(page) = Len(events)
      BY <1>3, <1>5, PageIs
    <2>2. page = evs
      BY <1>e, <1>l, <2>1
    <2> QED BY <2>1, <2>2, Zenon
  <1>7. /\ built.block_number = n
        /\ TxsOk(built) /\ CallsFollow(built, s, last)
        /\ built.state_sync_count = (IF boundary(n, sprint_size) THEN Len(evs) ELSE 0)
        /\ built.commit_span_executed <=> boundary(n, span_size) /\ span # {}
    <2>1. span \in {{}, {s + 1}}
      BY <1>4, <1>d
    <2>2. NextEvents(evs, last)
      BY <1>6 DEF NextEvents
    <2>3. BuiltIs(built, n, s, span, last, evs)
      BY <1>3, <1>b, <2>1, <2>2, BuildOk
    <2> QED BY <2>3 DEF BuiltIs
  <1>8. PlanIs(n, id, span, evs)
    <2>1. n \in Nat /\ evs \in Seq(Nat)
      BY <1>3, <1>6
    <2> QED BY <1>3, <1>4, <2>1, PlanCalls
  <1>9. Len(built.system_calls) \in Nat
    BY <1>7 DEF CallsFollow, CallsCounted
  <1>10. txs' = SubSeq(built.transactions, 1, UserCount(built))
    BY <1>2, <1>7, <1>9, RegularTransactions
  <1>11. /\ ctx'.pending_commit_span = IF PlannedSpans(n, span) = 1 THEN {id} ELSE {}
         /\ ctx'.pending_state_syncs \in Seq(Nat)
         /\ Len(ctx'.pending_state_syncs) = PlannedSyncs(n, evs)
         /\ \A i \in 1..PlannedSyncs(n, evs) : ctx'.pending_state_syncs[i] = evs[i]
    <2>1. ContextIs(ctx', n, id, span, evs)
      BY <1>2, <1>4, <1>8, ContextHasPlan
    <2> QED BY <2>1 DEF ContextIs
  <1>12. PlannedSyncs(n, evs) = built.state_sync_count /\ PlannedSpans(n, span) = Offset(built)
         /\ Offset(built) \in {0, 1}
    BY <1>7 DEF PlannedSyncs, PlannedSpans, Offset
  <1>13. /\ ctx'.pending_commit_span = IF Offset(built) = 1 THEN {id} ELSE {}
         /\ Len(ctx'.pending_state_syncs) = built.state_sync_count
         /\ \A i \in 1..built.state_sync_count : ctx'.pending_state_syncs[i] = evs[i]
    BY <1>11, <1>12
  <1>14. Offset(built) = 1 => built.system_calls[1] = CommitSpanCall(id)
    BY <1>7, <1>d DEF CallsFollow, Offset
  <1>15. \A i \in 1..built.state_sync_count :
            built.system_calls[Offset(built) + i] = StateReceiveCall(ctx'.pending_state_syncs[i])
    <2> SUFFICES ASSUME NEW i \in 1..built.state_sync_count
                 PROVE  built.system_calls[Offset(built) + i] = StateReceiveCall(ctx'.pending_state_syncs[i])
      OBVIOUS
    <2>1. built.system_calls[Offset(built) + i] = StateReceiveCall(last + i)
      BY <1>7 DEF CallsFollow
    <2>2. i \in 1..Len(evs)
      BY <1>7
    <2>3. evs[i] = last + i /\ ctx'.pending_state_syncs[i] = evs[i]
      BY <1>6, <1>13, <2>2
    <2> QED BY <2>1, <2>3
  <1>16. Len(evs) \in Nat
    BY <1>6
  <1>17. /\ ctx'.pending_commit_span \in SUBSET Nat
         /\ \A x \in ctx'.pending_commit_span :
                ctx'.pending_commit_span = {x} /\ built.system_calls[1] = CommitSpanCall(x)
         /\ Offset(built) = (IF ctx'.pending_commit_span = {} THEN 0 ELSE 1)
    BY <1>3, <1>12, <1>13, <1>14
  <1>18. ctx' \in Contexts
    <2>1. DOMAIN ctx' = {"pending_commit_span", "pending_state_syncs"}
          /\ ctx' = [x \in DOMAIN ctx' |-> ctx'[x]]
      BY <1>2 DEF Context
    <2>2. ctx'.pending_commit_span \in SUBSET Nat /\ ctx'.pending_state_syncs \in Seq(Nat)
      BY <1>11, <1>17
    <2>3. ctx' = [pending_commit_span |-> ctx'.pending_commit_span,
                  pending_state_syncs |-> ctx'.pending_state_syncs]
      BY <1>2 DEF Context
    <2> QED BY <2>2, <2>3 DEF Contexts
  <1> WITNESS built, evs
  <1> QED BY <1>18, <1>2, <1>6, <1>7, <1>10, <1>13, <1>15, <1>16, <1>17, <1>n, <1>s, <1>l

\* Building a payload.
LEMMA BuildPayloadKeeps ==
    ASSUME ContextFilled, ProductionInv, BuildPayload
    PROVE  ProductionInv'
  <1>1. PICK built, evs :
            /\ payload' = {built}
            /\ built.block_number = NextNumber
            /\ TxsOk(built)
            /\ CallsFollow(built, LastOnChain("commitSpan"), LastOnChain("onStateReceive"))
            /\ built.state_sync_count = (IF boundary(NextNumber, sprint_size) THEN Len(evs) ELSE 0)
            /\ Len(evs) \in Nat
            /\ LastOnChain("onStateReceive") + Len(evs) <= Len(events)
            /\ Len(evs) < limit => LastOnChain("onStateReceive") + Len(evs) = Len(events)
            /\ txs' = SubSeq(built.transactions, 1, UserCount(built))
            /\ ctx' \in Contexts
            /\ \A id \in ctx'.pending_commit_span :
                    /\ ctx'.pending_commit_span = {id}
                    /\ built.system_calls[1] = CommitSpanCall(id)
            /\ Offset(built) = (IF ctx'.pending_commit_span = {} THEN 0 ELSE 1)
            /\ Len(ctx'.pending_state_syncs) = built.state_sync_count
            /\ \A i \in 1..built.state_sync_count :
                    built.system_calls[Offset(built) + i] = StateReceiveCall(ctx'.pending_state_syncs[i])
    BY BuildPayloadIs
  <1>2. UNCHANGED node /\ UNCHANGED heimdall /\ receipts' = <<>> /\ made' = <<>>
    BY DEF BuildPayload
  <1>3. /\ BlocksInv' /\ ChainInv' /\ NextNumber' = NextNumber
        /\ LastOnChain("onStateReceive")' = LastOnChain("onStateReceive")
        /\ LastOnChain("commitSpan")' = LastOnChain("commitSpan")
    BY <1>2, NodeUnchanged DEF ProductionInv
  <1>4. HeimdallInv'
    <2>1. /\ LastOnChain("onStateReceive") \in Nat /\ Len(events) \in Nat
          /\ LastOnChain("onStateReceive") <= Len(events)
      BY LastType DEF ProductionInv, HeimdallInv
    <2>2. LastOnChain("onStateReceive") + built.state_sync_count <= Len(events)
      BY <1>1, <2>1
    <2> QED BY <1>1, <1>2, <1>3, <2>2 DEF ProductionInv, HeimdallInv, heimdall
  <1>5. /\ txs' \in Seq(Tx) /\ Len(txs') = UserCount(built)
        /\ \A i \in 1..UserCount(built) : txs'[i] = built.transactions[i]
    <2>t. PICK all : all = built.transactions
      OBVIOUS
    <2>n. PICK n : n = UserCount(built)
      OBVIOUS
    <2>1. all \in Seq(Tx) /\ n \in 0..Len(all)
      BY <1>1, <2>t, <2>n DEF TxsOk, Tx
    <2>2. \A i \in (0 + 1)..n : all[i] \in Tx
      <3> SUFFICES ASSUME NEW i \in (0 + 1)..n PROVE all[i] \in Tx
        OBVIOUS
      <3>1. i \in 1..Len(all)
        BY <2>1
      <3> QED BY <2>1, <3>1, ElementOfSeq
    <2>3. 0 \in Nat /\ n \in Nat /\ 0 <= n
      BY <2>1
    <2>4. /\ SubSeq(all, 0 + 1, n) \in Seq(Tx) /\ Len(SubSeq(all, 0 + 1, n)) = n - 0
          /\ \A i \in 1..(n - 0) : SubSeq(all, 0 + 1, n)[i] = all[0 + i]
      BY <2>2, <2>3, SubSeqElements
    <2>5. 0 + 1 = 1 /\ n - 0 = n /\ \A i \in 1..n : 0 + i = i
      BY <2>3
    <2>6. txs' = SubSeq(all, 1, n)
      BY <1>1, <2>t, <2>n
    <2> QED BY <2>4, <2>5, <2>6, <2>t, <2>n
  <1>6. TxsUnderWay(built)'
    <2>1. Len(receipts') = 0 /\ DOMAIN receipts' = {} /\ DOMAIN txs' = 1..UserCount(built)
      BY <1>2, <1>5
    <2>2. \A i \in 1..UserCount(built) : 0 + i = i
      OBVIOUS
    <2>3. UserCount(built) \in Nat
      BY <1>1 DEF TxsOk
    <2> QED BY <1>5, <2>1, <2>2, <2>3 DEF TxsUnderWay
  <1>7. CallsUnderWay(built)'
    <2>o. PICK o : o = Offset(built)
      OBVIOUS
    <2>m. PICK m : m = built.state_sync_count
      OBVIOUS
    <2>c. PICK calls : calls = built.system_calls
      OBVIOUS
    <2>1. Len(calls) = o + m /\ o \in {0, 1} /\ m \in Nat
      <3>1. CallsCounted(built)
        BY <1>1 DEF CallsFollow
      <3>2. Len(calls) = o + m /\ m \in 0..limit
        BY <3>1, <2>o, <2>m, <2>c DEF CallsCounted
      <3>3. o \in {0, 1} /\ limit \in Nat
        BY <2>o, Constants DEF Offset
      <3> QED BY <3>2, <3>3
    <2>2. Len(made') = 0 /\ DOMAIN made' = {} /\ made' = <<>>
      BY <1>2
    <2>y. PICK syncs : syncs = ctx'.pending_state_syncs
      OBVIOUS
    <2>x. PICK pending : pending = ctx'.pending_commit_span
      OBVIOUS
    <2>3. /\ o = (IF pending = {} THEN 0 ELSE 1)
          /\ Len(syncs) = m /\ DOMAIN syncs = 1..m
          /\ \A id \in pending : pending = {id} /\ calls[1] = CommitSpanCall(id)
          /\ \A i \in 1..m : calls[o + i] = StateReceiveCall(syncs[i])
      BY <1>1, <2>o, <2>m, <2>c, <2>x, <2>y
    <2>4. Len(made') + o + Len(syncs) = Len(calls) /\ Len(made') + o = o
      BY <2>1, <2>2, <2>3
    <2>5. \A i \in DOMAIN syncs : calls[Len(made') + o + i] = StateReceiveCall(syncs[i])
      BY <2>3, <2>4
    <2>6. SpansPending' = o
      BY <2>3, <2>x DEF SpansPending
    <2> QED BY <2>2, <2>3, <2>4, <2>5, <2>6, <2>c, <2>x, <2>y DEF CallsUnderWay
  <1>8. ExecutorInv'
    <2>1. made' \in Seq(SystemCalls) /\ receipts' \in Seq(Nat)
      BY <1>2
    <2> QED BY <1>1, <1>3, <1>5, <1>6, <1>7, <2>1 DEF ExecutorInv, Tx
  <1> QED BY <1>3, <1>4, <1>8 DEF ProductionInv

\* A step of the executor alone.
LEMMA ExecutorStep ==
    ASSUME ProductionInv, UNCHANGED node, UNCHANGED heimdall, payload' = payload,
           txs' \in Seq(Tx), receipts' \in Seq(Nat), made' \in Seq(SystemCalls), ctx' \in Contexts,
           \A p \in payload : TxsUnderWay(p)' /\ CallsUnderWay(p)'
    PROVE  ProductionInv'
  <1>1. /\ BlocksInv' /\ ChainInv' /\ NextNumber' = NextNumber
        /\ LastOnChain("onStateReceive")' = LastOnChain("onStateReceive")
        /\ LastOnChain("commitSpan")' = LastOnChain("commitSpan")
    BY NodeUnchanged DEF ProductionInv
  <1>2. HeimdallInv'
    BY <1>1 DEF ProductionInv, HeimdallInv, heimdall
  <1>3. ExecutorInv'
    BY <1>1 DEF ProductionInv, ExecutorInv, Tx
  <1> QED BY <1>1, <1>2, <1>3 DEF ProductionInv

\* Head and tail of a sequence that is not empty.
LEMMA HeadAndTail ==
    ASSUME NEW T, NEW s \in Seq(T), s # <<>>
    PROVE  /\ Head(s) = s[1] /\ Head(s) \in T
           /\ Tail(s) \in Seq(T) /\ Len(Tail(s)) = Len(s) - 1 /\ Len(s) \in Nat \ {0}
           /\ \A i \in 1..(Len(s) - 1) : Tail(s)[i] = s[1 + i]
  <1>1. /\ Head(s) \in T /\ Tail(s) \in Seq(T) /\ Len(Tail(s)) = Len(s) - 1
        /\ \A i \in 1..Len(Tail(s)) : Tail(s)[i] = s[i + 1]
    BY HeadTailProperties
  <1>2. Head(s) = s[1]
    OBVIOUS
  <1>3. Len(s) \in Nat /\ Len(s) # 0
    BY EmptySeq
  <1>4. \A i \in 1..(Len(s) - 1) : Tail(s)[i] = s[1 + i]
    <2> SUFFICES ASSUME NEW i \in 1..(Len(s) - 1) PROVE Tail(s)[i] = s[1 + i]
      OBVIOUS
    <2>1. i + 1 = 1 + i /\ i \in 1..Len(Tail(s))
      BY <1>1
    <2> QED BY <1>1, <2>1
  <1> QED BY <1>1, <1>2, <1>3, <1>4

\* One transaction more.
LEMMA ExecuteTransactionKeeps ==
    ASSUME ProductionInv, ExecuteTransaction
    PROVE  ProductionInv'
  <1>1. /\ txs # <<>> /\ txs' = Tail(txs)
        /\ receipts' = Append(receipts, GasSoFar + Head(txs).gas_used)
        /\ UNCHANGED node /\ UNCHANGED heimdall /\ payload' = payload /\ ctx' = ctx /\ made' = made
    BY DEF ExecuteTransaction
  <1>2. txs \in Seq(Tx) /\ receipts \in Seq(Nat) /\ made \in Seq(SystemCalls) /\ ctx \in Contexts
    BY DEF ProductionInv, ExecutorInv, Tx
  <1>3. /\ Head(txs) = txs[1] /\ Head(txs) \in Tx
        /\ txs' \in Seq(Tx) /\ Len(txs') = Len(txs) - 1 /\ Len(txs) \in Nat \ {0}
        /\ \A i \in 1..(Len(txs) - 1) : txs'[i] = txs[1 + i]
    BY <1>1, <1>2, HeadAndTail
  <1>g. PICK g : g = GasSoFar + Head(txs).gas_used
    OBVIOUS
  <1>4. GasSoFar \in Nat /\ g \in Nat
    <2>1. GasSoFar \in Nat
      <3>1. CASE receipts = <<>>
        BY <3>1 DEF GasSoFar
      <3>2. CASE receipts # <<>>
        <4>1. Len(receipts) \in 1..Len(receipts)
          BY <1>2, <3>2, EmptySeq
        <4> QED BY <1>2, <3>2, <4>1, ElementOfSeq DEF GasSoFar
      <3> QED BY <3>1, <3>2
    <2>2. Head(txs).gas_used \in Nat
      BY <1>3 DEF Tx
    <2> QED BY <1>g, <2>1, <2>2
  <1>r. PICK r : r = Len(receipts)
    OBVIOUS
  <1>5. /\ receipts' \in Seq(Nat) /\ Len(receipts') = r + 1 /\ r \in Nat
        /\ \A i \in 1..r : receipts'[i] = receipts[i]
        /\ receipts'[r + 1] = g
    BY <1>1, <1>2, <1>4, <1>g, <1>r, AppendProperties
  <1>6. ASSUME NEW p \in payload PROVE TxsUnderWay(p)'
    <2>1. TxsOk(p) /\ TxsUnderWay(p)
      BY DEF ProductionInv, ExecutorInv
    <2>c. PICK c : c = CumulativeGas(UserGas(p))
      OBVIOUS
    <2>n. PICK n : n = UserCount(p)
      OBVIOUS
    <2>2. n \in Nat /\ Totals(UserGas(p), n, c)
      BY <2>1, <2>c, <2>n, UserTotals
    <2>3. /\ r + Len(txs) = n
          /\ \A i \in DOMAIN txs : txs[i] = p.transactions[r + i]
          /\ \A i \in DOMAIN receipts : receipts[i] = c[i]
      BY <2>1, <2>c, <2>n, <1>r DEF TxsUnderWay
    <2>4. DOMAIN txs = 1..Len(txs) /\ DOMAIN receipts = 1..r
          /\ DOMAIN txs' = 1..(Len(txs) - 1) /\ DOMAIN receipts' = 1..(r + 1)
      BY <1>2, <1>3, <1>5, <1>r, LenProperties
    <2>5. r + 1 \in 1..n /\ (r + 1) - 1 = r /\ 1 \in 1..Len(txs)
      BY <1>3, <1>5, <2>2, <2>3
    <2>6. txs[1] = p.transactions[r + 1]
      BY <2>3, <2>4, <2>5
    <2>7. UserGas(p)[r + 1] = Head(txs).gas_used
      BY <1>3, <2>5, <2>6, <2>n DEF UserGas
    <2>8. GasSoFar = c[r]
      <3>1. CASE receipts = <<>>
        <4>1. r = 0
          BY <1>r, <3>1
        <4> QED BY <2>2, <3>1, <4>1 DEF GasSoFar, Totals
      <3>2. CASE receipts # <<>>
        <4>1. r \in 1..r
          BY <1>2, <1>5, <1>r, <3>2, EmptySeq
        <4> QED BY <1>r, <2>3, <2>4, <3>2, <4>1 DEF GasSoFar
      <3> QED BY <3>1, <3>2
    <2>9. c[r + 1] = g
      <3>1. c[r + 1] = c[r] + UserGas(p)[r + 1]
        BY <2>2, <2>5 DEF Totals
      <3> QED BY <1>g, <2>7, <2>8, <3>1
    <2>10. \A i \in 1..(r + 1) : receipts'[i] = c[i]
      <3> SUFFICES ASSUME NEW i \in 1..(r + 1) PROVE receipts'[i] = c[i]
        OBVIOUS
      <3>1. CASE i = r + 1
        BY <1>5, <2>9, <3>1
      <3>2. CASE i # r + 1
        <4>1. i \in 1..r
          BY <1>5, <3>2
        <4> QED BY <1>5, <2>3, <2>4, <4>1
      <3> QED BY <3>1, <3>2
    <2>11. \A i \in 1..(Len(txs) - 1) : txs'[i] = p.transactions[(r + 1) + i]
      <3> SUFFICES ASSUME NEW i \in 1..(Len(txs) - 1) PROVE txs'[i] = p.transactions[(r + 1) + i]
        OBVIOUS
      <3>1. 1 + i \in 1..Len(txs) /\ r + (1 + i) = (r + 1) + i
        BY <1>3, <1>5
      <3>2. txs[1 + i] = p.transactions[r + (1 + i)]
        BY <2>3, <2>4, <3>1
      <3> QED BY <1>3, <3>1, <3>2
    <2>12. (r + 1) + (Len(txs) - 1) = n
      BY <1>3, <1>5, <2>3
    <2>13. /\ Len(receipts') + Len(txs') = UserCount(p)
           /\ \A i \in DOMAIN txs' : txs'[i] = p.transactions[Len(receipts') + i]
           /\ \A i \in DOMAIN receipts' : receipts'[i] = CumulativeGas(UserGas(p))[i]
      BY <1>3, <1>5, <2>4, <2>10, <2>11, <2>12, <2>c, <2>n
    <2> QED BY <2>13 DEF TxsUnderWay
  <1>7. ASSUME NEW p \in payload PROVE CallsUnderWay(p)'
    <2>1. CallsUnderWay(p)
      BY DEF ProductionInv, ExecutorInv
    <2> QED BY <1>1, <2>1 DEF CallsUnderWay, SpansPending
  <1> QED BY <1>1, <1>2, <1>3, <1>5, <1>6, <1>7, ExecutorStep

\* Calls are what the type says.
LEMMA CallType ==
    ASSUME NEW id \in Nat
    PROVE  CommitSpanCall(id) \in SystemCalls /\ StateReceiveCall(id) \in SystemCalls
  BY DEF CommitSpanCall, StateReceiveCall, SystemCalls

\* The span is committed.
LEMMA CommitSpanKeeps ==
    ASSUME ProductionInv, CommitSpan
    PROVE  ProductionInv'
  <1>1. /\ ctx' = [ctx EXCEPT !.pending_commit_span = {}]
        /\ UNCHANGED node /\ UNCHANGED heimdall /\ payload' = payload /\ txs' = txs
        /\ receipts' = receipts
    BY DEF CommitSpan
  <1>2. PICK id \in ctx.pending_commit_span : made' = Append(made, CommitSpanCall(id))
    BY DEF CommitSpan, Commit
  <1>3. txs \in Seq(Tx) /\ receipts \in Seq(Nat) /\ made \in Seq(SystemCalls) /\ ctx \in Contexts
    BY DEF ProductionInv, ExecutorInv, Tx
  <1>4. /\ ctx' \in Contexts /\ ctx'.pending_commit_span = {}
        /\ ctx'.pending_state_syncs = ctx.pending_state_syncs /\ id \in Nat
    BY <1>1, <1>3 DEF Contexts
  <1>5. /\ made' \in Seq(SystemCalls)
    BY <1>2, <1>3, <1>4, CallType
  <1>6. ASSUME NEW p \in payload PROVE CallsUnderWay(p)'
    <2>1. CallsUnderWay(p)
      BY DEF ProductionInv, ExecutorInv
    <2>c. PICK calls : calls = p.system_calls
      OBVIOUS
    <2>s. PICK syncs : syncs = ctx.pending_state_syncs
      OBVIOUS
    <2>2. SpansPending = 1 /\ SpansPending' = 0
      BY <1>4 DEF SpansPending
    <2>3. /\ made = <<>> /\ calls[1] = CommitSpanCall(id)
          /\ Len(made) + 1 + Len(syncs) = Len(calls)
          /\ \A i \in DOMAIN syncs : calls[Len(made) + 1 + i] = StateReceiveCall(syncs[i])
      BY <2>1, <2>2, <2>c, <2>s DEF CallsUnderWay
    <2>4. made' = <<CommitSpanCall(id)>>
      BY <1>2, <2>3
    <2>5. /\ Len(made') = 1 /\ DOMAIN made' = {1} /\ made'[1] = CommitSpanCall(id)
          /\ Len(made) = 0
      BY <2>3, <2>4
    <2>6. syncs \in Seq(Nat) /\ Len(syncs) \in Nat /\ DOMAIN syncs = 1..Len(syncs)
      BY <1>3, <2>s DEF Contexts
    <2>7. /\ Len(made') + 0 + Len(syncs) = Len(calls)
          /\ \A i \in DOMAIN made' : made'[i] = calls[i]
      BY <2>3, <2>5, <2>6
    <2>8. ASSUME NEW i \in DOMAIN syncs PROVE calls[Len(made') + 0 + i] = StateReceiveCall(syncs[i])
      <3>1. Len(made') + 0 + i = Len(made) + 1 + i
        BY <2>5, <2>6
      <3> QED BY <2>3, <3>1
    <2> QED BY <1>4, <2>2, <2>7, <2>8, <2>c, <2>s DEF CallsUnderWay
  <1>7. ASSUME NEW p \in payload PROVE TxsUnderWay(p)'
    BY <1>1 DEF ProductionInv, ExecutorInv, TxsUnderWay
  <1> QED BY <1>1, <1>3, <1>4, <1>5, <1>6, <1>7, ExecutorStep

\* The next event is received.
LEMMA StateReceiveKeeps ==
    ASSUME ProductionInv, StateReceive
    PROVE  ProductionInv'
  <1>s. PICK syncs : syncs = ctx.pending_state_syncs
    OBVIOUS
  <1>1. /\ ctx' = [ctx EXCEPT !.pending_state_syncs = Tail(@)]
        /\ made' = Append(made, StateReceiveCall(Head(syncs)))
        /\ syncs # <<>> /\ ctx.pending_commit_span = {}
        /\ UNCHANGED node /\ UNCHANGED heimdall /\ payload' = payload /\ txs' = txs
        /\ receipts' = receipts
    BY <1>s DEF StateReceive, Commit
  <1>2. txs \in Seq(Tx) /\ receipts \in Seq(Nat) /\ made \in Seq(SystemCalls) /\ ctx \in Contexts
    BY DEF ProductionInv, ExecutorInv, Tx
  <1>3. syncs \in Seq(Nat)
    BY <1>2, <1>s DEF Contexts
  <1>4. /\ Head(syncs) = syncs[1] /\ Head(syncs) \in Nat
        /\ Tail(syncs) \in Seq(Nat) /\ Len(Tail(syncs)) = Len(syncs) - 1 /\ Len(syncs) \in Nat \ {0}
        /\ \A i \in 1..(Len(syncs) - 1) : Tail(syncs)[i] = syncs[1 + i]
    BY <1>1, <1>3, HeadAndTail
  <1>t. PICK rest : rest = Tail(syncs)
    OBVIOUS
  <1>5. /\ ctx' \in Contexts /\ ctx'.pending_commit_span = {} /\ ctx'.pending_state_syncs = rest
    BY <1>1, <1>2, <1>4, <1>s, <1>t DEF Contexts
  <1>r. PICK r : r = Len(made)
    OBVIOUS
  <1>c. PICK call : call = StateReceiveCall(syncs[1])
    OBVIOUS
  <1>6. call \in SystemCalls /\ made' = Append(made, call)
    BY <1>1, <1>4, <1>c, CallType
  <1>7. /\ made' \in Seq(SystemCalls) /\ Len(made') = r + 1 /\ r \in Nat
        /\ \A i \in 1..r : made'[i] = made[i]
        /\ made'[r + 1] = call
    BY <1>2, <1>6, <1>r, AppendProperties
  <1>8. ASSUME NEW p \in payload PROVE CallsUnderWay(p)'
    <2>1. CallsUnderWay(p)
      BY DEF ProductionInv, ExecutorInv
    <2>c. PICK calls : calls = p.system_calls
      OBVIOUS
    <2>2. SpansPending = 0 /\ SpansPending' = 0
      BY <1>1, <1>5 DEF SpansPending
    <2>3. /\ r + 0 + Len(syncs) = Len(calls)
          /\ \A i \in DOMAIN made : made[i] = calls[i]
          /\ \A i \in DOMAIN syncs : calls[r + 0 + i] = StateReceiveCall(syncs[i])
      BY <2>1, <2>2, <2>c, <1>s, <1>r DEF CallsUnderWay
    <2>4. /\ DOMAIN made = 1..r /\ DOMAIN syncs = 1..Len(syncs) /\ DOMAIN made' = 1..(r + 1)
          /\ DOMAIN rest = 1..(Len(syncs) - 1) /\ Len(rest) = Len(syncs) - 1
      BY <1>2, <1>3, <1>4, <1>7, <1>r, <1>t, LenProperties
    <2>5. calls[r + 1] = call
      <3>1. 1 \in 1..Len(syncs) /\ r + 0 + 1 = r + 1
        BY <1>4, <1>7
      <3> QED BY <1>c, <2>3, <2>4, <3>1
    <2>6. \A i \in 1..(r + 1) : made'[i] = calls[i]
      <3> SUFFICES ASSUME NEW i \in 1..(r + 1) PROVE made'[i] = calls[i]
        OBVIOUS
      <3>1. CASE i = r + 1
        BY <1>7, <2>5, <3>1
      <3>2. CASE i # r + 1
        <4>1. i \in 1..r
          BY <1>7, <3>2
        <4> QED BY <1>7, <2>3, <2>4, <4>1
      <3> QED BY <3>1, <3>2
    <2>7. \A i \in 1..(Len(syncs) - 1) : calls[(r + 1) + 0 + i] = StateReceiveCall(rest[i])
      <3> SUFFICES ASSUME NEW i \in 1..(Len(syncs) - 1)
                   PROVE  calls[(r + 1) + 0 + i] = StateReceiveCall(rest[i])
        OBVIOUS
      <3>1. 1 + i \in 1..Len(syncs) /\ r + 0 + (1 + i) = (r + 1) + 0 + i
        BY <1>4, <1>7
      <3>2. calls[r + 0 + (1 + i)] = StateReceiveCall(syncs[1 + i])
        BY <2>3, <2>4, <3>1
      <3>3. rest[i] = syncs[1 + i]
        BY <1>4, <1>t
      <3> QED BY <3>1, <3>2, <3>3
    <2>8. (r + 1) + 0 + (Len(syncs) - 1) = Len(calls)
      BY <1>4, <1>7, <2>3
    <2>9. /\ Len(made') + SpansPending' + Len(rest) = Len(calls)
          /\ \A i \in DOMAIN made' : made'[i] = calls[i]
          /\ \A i \in DOMAIN rest : calls[Len(made') + SpansPending' + i] = StateReceiveCall(rest[i])
      BY <1>7, <2>2, <2>4, <2>6, <2>7, <2>8
    <2> QED BY <1>5, <2>9, <2>c DEF CallsUnderWay
  <1>9. ASSUME NEW p \in payload PROVE TxsUnderWay(p)'
    BY <1>1 DEF ProductionInv, ExecutorInv, TxsUnderWay
  <1> QED BY <1>1, <1>2, <1>5, <1>7, <1>8, <1>9, ExecutorStep

\* The head is given up: the chain below stays as it was.
LEMMA UnwindPayloads ==
    ASSUME ChainInv, Unwind
    PROVE  /\ Len(chain) \in Nat \ {0} /\ Len(chain') = Len(chain) - 1
           /\ chain' \in Seq(DOMAIN blocks)
           /\ \A b \in 1..Len(chain') : chain'[b] = chain[b]
           /\ \A name : \A n \in 0..Len(chain') : LastUpTo(name, n)' = LastUpTo(name, n)
  <1>1. /\ chain # <<>> /\ chain' = Front(chain) /\ blocks' = blocks
        /\ chain \in Seq(DOMAIN blocks)
    BY DEF Unwind, ChainInv
  <1>n. PICK m : m = Len(chain) - 1
    OBVIOUS
  <1>2. Len(chain) \in Nat /\ Len(chain) # 0 /\ m \in Nat
    BY <1>1, <1>n, EmptySeq
  <1>3. /\ chain' \in Seq(DOMAIN blocks) /\ Len(chain') = m
        /\ \A b \in 1..m : chain'[b] = chain[b]
    <2>1. chain' = SubSeq(chain, 1, m)
      BY <1>1, <1>n DEF Front
    <2>2. \A b \in (0 + 1)..m : chain[b] \in DOMAIN blocks
      <3> SUFFICES ASSUME NEW b \in (0 + 1)..m PROVE chain[b] \in DOMAIN blocks
        OBVIOUS
      <3>1. b \in 1..Len(chain)
        BY <1>2, <1>n
      <3> QED BY <1>1, <3>1, ElementOfSeq
    <2>3. 0 \in Nat /\ 0 <= m
      BY <1>2
    <2>4. /\ SubSeq(chain, 0 + 1, m) \in Seq(DOMAIN blocks)
          /\ Len(SubSeq(chain, 0 + 1, m)) = m - 0
          /\ \A i \in 1..(m - 0) : SubSeq(chain, 0 + 1, m)[i] = chain[0 + i]
      BY <1>2, <2>2, <2>3, SubSeqElements
    <2>5. 0 + 1 = 1 /\ m - 0 = m /\ \A i \in 1..m : 0 + i = i
      BY <1>2
    <2> QED BY <2>1, <2>4, <2>5
  <1>4. ASSUME NEW name, NEW n \in 0..m PROVE LastUpTo(name, n)' = LastUpTo(name, n)
    <2>1. \A b \in 1..n : chain'[b] = chain[b]
      BY <1>2, <1>3
    <2>2. UNION {{c.id : c \in {d \in Range(blocks[chain'[b]].payload.system_calls) :
                                        d.call = name}} : b \in 1..n}
          = UNION {{c.id : c \in {d \in Range(blocks[chain[b]].payload.system_calls) :
                                        d.call = name}} : b \in 1..n}
      BY <2>1
    <2> QED BY <1>1, <2>2 DEF LastUpTo
  <1> QED BY <1>1, <1>2, <1>3, <1>4, <1>n

\* Giving up the head.
LEMMA UnwindKeeps ==
    ASSUME ProductionInv, Unwind
    PROVE  ProductionInv'
  <1>1. /\ blocks' = blocks /\ stored' = stored /\ unwinds' = unwinds + 1
        /\ payload = {} /\ UNCHANGED executor /\ events' = events /\ spans' = spans
    BY DEF Unwind, heimdall
  <1>2. /\ Len(chain) \in Nat \ {0} /\ Len(chain') = Len(chain) - 1
        /\ chain' \in Seq(DOMAIN blocks)
        /\ \A b \in 1..Len(chain') : chain'[b] = chain[b]
        /\ \A name : \A n \in 0..Len(chain') : LastUpTo(name, n)' = LastUpTo(name, n)
    BY UnwindPayloads DEF ProductionInv
  <1>3. ChainInv'
    <2>1. ASSUME NEW b \in 1..Len(chain')
          PROVE  /\ chain'[b][1] = b
                 /\ CallsFollow(blocks'[chain'[b]].payload, LastUpTo("commitSpan", b - 1)',
                                                            LastUpTo("onStateReceive", b - 1)')
      <3>1. b \in DOMAIN chain /\ b - 1 \in 0..Len(chain')
        BY <1>2 DEF ProductionInv, ChainInv
      <3>2. /\ chain[b][1] = b
            /\ CallsFollow(blocks[chain[b]].payload, LastUpTo("commitSpan", b - 1),
                                                     LastUpTo("onStateReceive", b - 1))
        BY <3>1 DEF ProductionInv, ChainInv, Block
      <3>3. /\ LastUpTo("commitSpan", b - 1)' = LastUpTo("commitSpan", b - 1)
            /\ LastUpTo("onStateReceive", b - 1)' = LastUpTo("onStateReceive", b - 1)
        BY <1>2, <3>1
      <3> QED BY <1>1, <1>2, <3>2, <3>3
    <2>2. DOMAIN chain' = 1..Len(chain')
      BY <1>2
    <2> QED BY <1>1, <1>2, <2>1, <2>2 DEF ChainInv, Block
  <1>4. BlocksInv'
    <2>0. unwinds \in Nat
      BY DEF ProductionInv, BlocksInv
    <2>1. ASSUME NEW h \in DOMAIN blocks PROVE BlockOk(h)'
      <3>1. BlockOk(h)
        BY DEF ProductionInv, BlocksInv
      <3>2. h \in (Nat \ {0}) \X (0..unwinds)
        BY <3>1 DEF BlockOk
      <3>3. h \in (Nat \ {0}) \X (0..unwinds') /\ h[2] # unwinds'
        BY <1>1, <2>0, <3>2
      <3> QED BY <1>1, <3>1, <3>3 DEF BlockOk
    <2> QED BY <1>1, <2>0, <2>1 DEF ProductionInv, BlocksInv
  <1>5. ExecutorInv'
    <2>1. payload' = {} /\ txs' = txs /\ receipts' = receipts /\ made' = made /\ ctx' = ctx
      BY <1>1 DEF executor
    <2> QED BY <2>1 DEF ProductionInv, ExecutorInv
  <1>6. HeimdallInv'
    <2>1. payload' = {}
      BY <1>1 DEF executor
    <2>2. LastOnChain("onStateReceive")' = LastUpTo("onStateReceive", Len(chain) - 1)
      <3>n. PICK n : n = Len(chain')
        OBVIOUS
      <3>1. LastOnChain("onStateReceive")' = LastUpTo("onStateReceive", n)'
        BY <3>n DEF LastOnChain, LastUpTo
      <3>2. n \in 0..Len(chain') /\ n = Len(chain) - 1
        BY <1>2, <3>n
      <3>3. LastUpTo("onStateReceive", n)' = LastUpTo("onStateReceive", n)
        BY <1>2, <3>2
      <3> QED BY <3>1, <3>2, <3>3
    <2>3. Len(chain) - 1 \in 0..Len(chain) /\ Len(chain) \in 0..Len(chain) /\ Len(chain) - 1 <= Len(chain)
      BY <1>2
    <2>4. LastUpTo("onStateReceive", Len(chain) - 1) <= LastOnChain("onStateReceive")
      BY <2>3, LastMonotone DEF Names, LastOnChain, ProductionInv
    <2>5. /\ LastUpTo("onStateReceive", Len(chain) - 1) \in Nat
          /\ LastOnChain("onStateReceive") \in Nat
      BY <2>3, LastOnChainMoves DEF Names, LastOnChain, ProductionInv
    <2>6. LastOnChain("onStateReceive") <= Len(events) /\ Len(events) \in Nat
      BY DEF ProductionInv, HeimdallInv
    <2>7. LastOnChain("onStateReceive")' <= Len(events)
      BY <2>2, <2>4, <2>5, <2>6
    <2> QED BY <1>1, <2>1, <2>7 DEF ProductionInv, HeimdallInv
  <1> QED BY <1>3, <1>4, <1>5, <1>6 DEF ProductionInv

\* A block is finished as the payload said it would be, under a new hash.
FinishedAs(p, hash, bor) ==
    /\ p.block_number = NextNumber
    /\ TxsOk(p)
    /\ CallsFollow(p, LastOnChain("commitSpan"), LastOnChain("onStateReceive"))
    /\ made = p.system_calls
    /\ Len(receipts) = UserCount(p)
    /\ \A i \in 1..UserCount(p) : receipts[i] = CumulativeGas(UserGas(p))[i]
    /\ hash = <<NextNumber, unwinds>> /\ hash \notin DOMAIN blocks
    /\ bor = IF p.system_calls = <<>> THEN {} ELSE {p.total_gas_used}
    /\ chain' = Append(chain, hash)
    /\ blocks' = Put(blocks, hash, [payload |-> p, made |-> made, bor_receipt |-> bor,
                                    root |-> receipts_root(receipts)])
    /\ stored' = IF bor # {} /\ ~is_post_madhugiri(NextNumber)
                 THEN Put(stored, bor_receipt_key(NextNumber, hash),
                          [tx_hash |-> bor_receipt_key(NextNumber, hash), gas |-> bor])
                 ELSE stored

\* The hash of the next block is not taken.
LEMMA HashIsNew ==
    ASSUME BlocksInv, ChainInv
    PROVE  <<NextNumber, unwinds>> \notin DOMAIN blocks
  <1> SUFFICES ASSUME <<NextNumber, unwinds>> \in DOMAIN blocks PROVE FALSE
    OBVIOUS
  <1>h. PICK h : h = <<NextNumber, unwinds>>
    OBVIOUS
  <1>1. BlockOk(h)
    BY <1>h DEF BlocksInv
  <1>2. h[2] = unwinds /\ h[1] = NextNumber
    BY <1>h
  <1>3. NextNumber <= Len(chain)
    BY <1>1, <1>2 DEF BlockOk
  <1> QED BY <1>3, LastType DEF NextNumber

\* What finish() returns for.
LEMMA FinishIs ==
    ASSUME ProductionInv, Finish
    PROVE  \E p, hash, bor : p \in payload /\ FinishedAs(p, hash, bor)
  <1>1. PICK p \in payload :
        LET hash == <<p.block_number, unwinds>>
            place == store_block_receipts(p.block_number, hash)
            bor_receipt ==
                IF p.system_calls = <<>> THEN {}
                ELSE {derive_bor_receipt_gas(GasSoFar)}
            entry == [tx_hash |-> derived_bor_tx_hash(p.block_number, hash), gas |-> bor_receipt]
        IN  /\ chain' = Append(chain, hash)
            /\ blocks' = Put(blocks, hash,
                             [payload |-> p, made |-> made, bor_receipt |-> bor_receipt,
                              root |-> receipts_root(receipts)])
            /\ stored' = IF bor_receipt # {} /\ place.separate
                         THEN Put(stored, place.key, entry) ELSE stored
    BY DEF Finish
  <1>2. txs = <<>> /\ ctx.pending_commit_span = {} /\ ctx.pending_state_syncs = <<>>
    BY DEF Finish, CallsLeft
  <1>3. /\ p.block_number = NextNumber /\ TxsOk(p) /\ TxsUnderWay(p) /\ CallsUnderWay(p)
        /\ CallsFollow(p, LastOnChain("commitSpan"), LastOnChain("onStateReceive"))
        /\ receipts \in Seq(Nat) /\ made \in Seq(SystemCalls)
    BY DEF ProductionInv, ExecutorInv
  <1>4. made = p.system_calls
    <2>c. PICK calls : calls = p.system_calls
      OBVIOUS
    <2>1. SpansPending = 0 /\ Len(ctx.pending_state_syncs) = 0
      BY <1>2 DEF SpansPending
    <2>2. Len(made) + 0 + 0 = Len(calls) /\ \A i \in DOMAIN made : made[i] = calls[i]
      BY <1>3, <2>1, <2>c DEF CallsUnderWay
    <2>3. calls \in Seq(SystemCalls)
      BY <1>3, <2>c DEF CallsFollow, CallsCounted
    <2>4. Len(made) = Len(calls) /\ \A i \in 1..Len(made) : made[i] = calls[i]
      BY <1>3, <2>2
    <2> QED BY <1>3, <2>3, <2>4, <2>c, SeqEqual
  <1>n. PICK n : n = UserCount(p)
    OBVIOUS
  <1>c. PICK c : c = CumulativeGas(UserGas(p))
    OBVIOUS
  <1>5. n \in Nat /\ Totals(UserGas(p), n, c) /\ p.total_gas_used = c[n]
    <2>1. p.total_gas_used = c[n]
      BY <1>3, <1>n, <1>c DEF TxsOk
    <2> QED BY <1>3, <1>n, <1>c, <2>1, UserTotals
  <1>6. Len(receipts) = n /\ \A i \in 1..n : receipts[i] = c[i]
    <2>1. Len(receipts) + 0 = n /\ \A i \in DOMAIN receipts : receipts[i] = c[i]
      BY <1>2, <1>3, <1>n, <1>c DEF TxsUnderWay
    <2>2. Len(receipts) \in Nat /\ DOMAIN receipts = 1..Len(receipts)
      BY <1>3
    <2> QED BY <2>1, <2>2
  <1>7. GasSoFar = p.total_gas_used
    <2>1. CASE receipts = <<>>
      <3>1. n = 0
        BY <1>6, <2>1
      <3> QED BY <1>5, <2>1, <3>1 DEF GasSoFar, Totals
    <2>2. CASE receipts # <<>>
      <3>1. n \in 1..n
        BY <1>3, <1>5, <1>6, <2>2, EmptySeq
      <3> QED BY <1>5, <1>6, <2>2, <3>1 DEF GasSoFar
    <2> QED BY <2>1, <2>2
  <1>h. PICK hash : hash = <<NextNumber, unwinds>>
    OBVIOUS
  <1>b. PICK bor : bor = IF p.system_calls = <<>> THEN {} ELSE {p.total_gas_used}
    OBVIOUS
  <1>8. bor = IF p.system_calls = <<>> THEN {} ELSE {derive_bor_receipt_gas(GasSoFar)}
    BY <1>7, <1>b DEF derive_bor_receipt_gas
  <1>9. /\ chain' = Append(chain, hash)
        /\ blocks' = Put(blocks, hash, [payload |-> p, made |-> made, bor_receipt |-> bor,
                                        root |-> receipts_root(receipts)])
    BY <1>1, <1>3, <1>8, <1>h
  <1>10. stored' = IF bor # {} /\ ~is_post_madhugiri(NextNumber)
                   THEN Put(stored, bor_receipt_key(NextNumber, hash),
                            [tx_hash |-> bor_receipt_key(NextNumber, hash), gas |-> bor])
                   ELSE stored
    <2>p. PICK place : place = store_block_receipts(NextNumber, hash)
      OBVIOUS
    <2>1. place.separate = ~is_post_madhugiri(NextNumber)
          /\ place.key = bor_receipt_key(NextNumber, hash)
      BY <2>p DEF store_block_receipts
    <2>2. stored' = IF bor # {} /\ place.separate
                    THEN Put(stored, place.key, [tx_hash |-> derived_bor_tx_hash(NextNumber, hash),
                                                 gas |-> bor])
                    ELSE stored
      BY <1>1, <1>3, <1>8, <1>h, <2>p
    <2> QED BY <2>1, <2>2 DEF derived_bor_tx_hash
  <1>11. hash \notin DOMAIN blocks
    BY <1>h, HashIsNew DEF ProductionInv
  <1>12. FinishedAs(p, hash, bor)
    BY <1>3, <1>4, <1>6, <1>9, <1>10, <1>11, <1>h, <1>b, <1>n, <1>c DEF FinishedAs
  <1> QED BY <1>12

\* One map has an entry more than another.
HasAlso(new, map, key, value) ==
    /\ DOMAIN new = DOMAIN map \cup {key}
    /\ new[key] = value
    /\ \A k \in DOMAIN map : k # key => new[k] = map[k]

\* Put puts an entry into a map.
LEMMA PutIs == \A map, key, value : HasAlso(Put(map, key, value), map, key, value)
  BY DEF Put, HasAlso

\* The finished block comes to the chain as it was.
LEMMA FinishPayloads ==
    ASSUME ChainInv, NEW p, NEW hash, NEW bor, FinishedAs(p, hash, bor)
    PROVE  /\ Len(chain') = NextNumber /\ chain' \in Seq(DOMAIN blocks')
           /\ DOMAIN blocks' = DOMAIN blocks \cup {hash}
           /\ \A b \in 1..Len(chain) : chain'[b] = chain[b] /\ Payloads'[b] = Payloads[b]
           /\ chain'[NextNumber] = hash /\ Payloads'[NextNumber] = p
           /\ blocks'[hash].payload = p
           /\ \A h \in DOMAIN blocks : blocks'[h] = blocks[h]
  <1>v. PICK value : value = [payload |-> p, made |-> made, bor_receipt |-> bor,
                              root |-> receipts_root(receipts)]
    OBVIOUS
  <1>1. /\ chain' = Append(chain, hash) /\ hash \notin DOMAIN blocks
        /\ blocks' = Put(blocks, hash, value) /\ value.payload = p
    BY <1>v DEF FinishedAs
  <1>2. /\ DOMAIN blocks' = DOMAIN blocks \cup {hash} /\ blocks'[hash] = value
        /\ \A h \in DOMAIN blocks : blocks'[h] = blocks[h]
    <2>1. HasAlso(blocks', blocks, hash, value)
      BY <1>1, PutIs
    <2> QED BY <1>1, <2>1, Zenon DEF HasAlso
  <1>m. PICK m : m = Len(chain)
    OBVIOUS
  <1>3. chain \in Seq(DOMAIN blocks) /\ chain \in Seq(DOMAIN blocks') /\ m \in Nat
        /\ DOMAIN chain = 1..m /\ NextNumber = m + 1
    BY <1>2, <1>m DEF ChainInv, NextNumber
  <1>4. /\ chain' \in Seq(DOMAIN blocks') /\ Len(chain') = m + 1
        /\ \A b \in 1..m : chain'[b] = chain[b]
        /\ chain'[m + 1] = hash
    <2>1. hash \in DOMAIN blocks'
      BY <1>2
    <2> QED BY <1>1, <1>3, <1>m, <2>1, AppendProperties
  <1>5. DOMAIN chain' = 1..(m + 1)
    BY <1>4
  <1>6. ASSUME NEW b \in 1..m PROVE Payloads'[b] = Payloads[b]
    <2>1. chain[b] \in DOMAIN blocks /\ chain'[b] = chain[b] /\ b \in 1..(m + 1)
      BY <1>3, <1>4
    <2>2. Payloads'[b] = blocks'[chain'[b]].payload /\ Payloads[b] = blocks[chain[b]].payload
      BY <1>3, <1>5, <2>1 DEF Payloads, Block
    <2> QED BY <1>2, <2>1, <2>2
  <1>7. Payloads'[m + 1] = p
    <2>1. m + 1 \in 1..(m + 1)
      BY <1>3
    <2>2. Payloads'[m + 1] = blocks'[chain'[m + 1]].payload
      BY <1>5, <2>1 DEF Payloads, Block
    <2> QED BY <1>1, <1>2, <1>4, <2>2
  <1> QED BY <1>1, <1>2, <1>3, <1>4, <1>6, <1>7, <1>m

\* Finishing a block moves the last ids by its calls.
LEMMA FinishMoves ==
    ASSUME ChainInv, NEW p, NEW hash, NEW bor, FinishedAs(p, hash, bor), NEW name \in Names
    PROVE  /\ \A n \in 0..Len(chain) : LastUpTo(name, n)' = LastUpTo(name, n)
           /\ CountOf(name, p) \in Nat
           /\ LastOnChain(name)' = LastOnChain(name) + CountOf(name, p)
  <1>m. PICK m : m = Len(chain)
    OBVIOUS
  <1>q. PICK Q : Q = Payloads'
    OBVIOUS
  <1>1. m \in Nat /\ NextNumber = m + 1 /\ Follows(Payloads, m) /\ chain \in Seq(DOMAIN blocks)
    BY <1>m, ChainFollows DEF NextNumber, ChainInv
  <1>2. /\ Len(chain') = m + 1 /\ chain' \in Seq(DOMAIN blocks')
        /\ \A b \in 1..m : Q[b] = Payloads[b]
        /\ Q[m + 1] = p
    BY <1>1, <1>m, <1>q, FinishPayloads
  <1>3. \A x : \A n \in 0..m : LastIn(x, Q, n) = LastIn(x, Payloads, n)
    <2> SUFFICES ASSUME NEW x, NEW n \in 0..m PROVE LastIn(x, Q, n) = LastIn(x, Payloads, n)
      OBVIOUS
    <2>1. n \in Nat /\ \A b \in 1..n : Q[b] = Payloads[b]
      BY <1>1, <1>2
    <2> QED BY <2>1, LastOfSame
  <1>4. \A x : \A n \in 0..m : LastUpTo(x, n) = LastIn(x, Payloads, n)
    BY <1>1, <1>m, LastOnPayloads
  <1>5. \A x : \A n \in 0..(m + 1) : LastUpTo(x, n)' = LastIn(x, Q, n)
    BY <1>2, <1>q, LastOnPayloadsNext
  <1>6. \A n \in 0..m : LastUpTo(name, n)' = LastUpTo(name, n)
    <2> SUFFICES ASSUME NEW n \in 0..m PROVE LastUpTo(name, n)' = LastUpTo(name, n)
      OBVIOUS
    <2>1. n \in 0..(m + 1)
      BY <1>1
    <2> QED BY <1>3, <1>4, <1>5, <2>1
  <1>7. Follows(Q, m + 1)
    <2> SUFFICES ASSUME NEW b \in 1..(m + 1)
                 PROVE  CallsFollow(Q[b], LastIn("commitSpan", Q, b - 1), LastIn("onStateReceive", Q, b - 1))
      BY DEF Follows
    <2>1. b - 1 \in 0..m
      BY <1>1
    <2>2. /\ LastIn("commitSpan", Q, b - 1) = LastIn("commitSpan", Payloads, b - 1)
          /\ LastIn("onStateReceive", Q, b - 1) = LastIn("onStateReceive", Payloads, b - 1)
      BY <1>3, <2>1
    <2>3. CASE b \in 1..m
      BY <1>1, <1>2, <2>2, <2>3 DEF Follows
    <2>4. CASE b = m + 1
      <3>1. b - 1 = m /\ m \in 0..m
        BY <1>1, <2>4
      <3>2. CallsFollow(p, LastOnChain("commitSpan"), LastOnChain("onStateReceive"))
        BY DEF FinishedAs
      <3>3. /\ LastOnChain("commitSpan") = LastIn("commitSpan", Payloads, m)
            /\ LastOnChain("onStateReceive") = LastIn("onStateReceive", Payloads, m)
        BY <1>4, <1>m, <3>1 DEF LastOnChain
      <3> QED BY <1>2, <2>2, <2>4, <3>1, <3>2, <3>3
    <2> QED BY <1>1, <2>3, <2>4
  <1>8. /\ CountOf(name, Q[m + 1]) \in Nat
        /\ LastIn(name, Q, m + 1) = LastIn(name, Q, m) + CountOf(name, Q[m + 1])
    <2>1. m + 1 \in Nat /\ m + 1 \in 1..(m + 1) /\ (m + 1) - 1 = m
      BY <1>1
    <2>2. \A b \in 1..(m + 1) : /\ CountOf(name, Q[b]) \in Nat
                                /\ LastIn(name, Q, b) = LastIn(name, Q, b - 1) + CountOf(name, Q[b])
      BY <1>7, <2>1, LastAlong
    <2> QED BY <2>1, <2>2
  <1>9. LastOnChain(name)' = LastUpTo(name, m + 1)'
    BY <1>2 DEF LastOnChain, LastUpTo
  <1>10. LastOnChain(name) = LastIn(name, Q, m) /\ m + 1 \in 0..(m + 1)
    <2>1. m \in 0..m /\ m + 1 \in 0..(m + 1)
      BY <1>1
    <2> QED BY <1>3, <1>4, <1>m, <2>1 DEF LastOnChain
  <1> QED BY <1>2, <1>5, <1>6, <1>8, <1>9, <1>10, <1>m

\* Which Bor receipts are stored once the block is finished.
LEMMA FinishStores ==
    ASSUME BlocksInv, NEW p, NEW hash, NEW bor, FinishedAs(p, hash, bor)
    PROVE  LET key(h) == bor_receipt_key(h[1], h)
               separate == p.system_calls # <<>> /\ ~is_post_madhugiri(NextNumber)
           IN  /\ \A h \in DOMAIN blocks :
                    /\ key(h) \in DOMAIN stored' <=> key(h) \in DOMAIN stored
                    /\ key(h) \in DOMAIN stored => stored'[key(h)] = stored[key(h)]
               /\ key(hash) = bor_receipt_key(NextNumber, hash)
               /\ key(hash) \in DOMAIN stored' <=> separate
               /\ separate => stored'[key(hash)] = [tx_hash |-> key(hash), gas |-> bor]
               /\ \A k \in DOMAIN stored' : k \in DOMAIN stored \/ k = key(hash)
  <1> DEFINE key(h) == bor_receipt_key(h[1], h)
             separate == p.system_calls # <<>> /\ ~is_post_madhugiri(NextNumber)
  <1>1. /\ hash = <<NextNumber, unwinds>> /\ hash \notin DOMAIN blocks
        /\ bor = IF p.system_calls = <<>> THEN {} ELSE {p.total_gas_used}
        /\ stored' = IF bor # {} /\ ~is_post_madhugiri(NextNumber)
                     THEN Put(stored, bor_receipt_key(NextNumber, hash),
                              [tx_hash |-> bor_receipt_key(NextNumber, hash), gas |-> bor])
                     ELSE stored
    BY DEF FinishedAs
  <1>k. PICK new : new = bor_receipt_key(NextNumber, hash)
    OBVIOUS
  <1>v. PICK value : value = [tx_hash |-> new, gas |-> bor]
    OBVIOUS
  <1>2. key(hash) = new /\ \A h : h # hash => key(h) # new
    BY <1>1, <1>k DEF bor_receipt_key
  <1>3. bor # {} <=> p.system_calls # <<>>
    BY <1>1
  <1>4. stored' = IF separate THEN Put(stored, new, value) ELSE stored
    BY <1>1, <1>3, <1>k, <1>v
  <1>5. new \notin DOMAIN stored
    <2> SUFFICES ASSUME new \in DOMAIN stored PROVE FALSE
      OBVIOUS
    <2>1. PICK h \in DOMAIN blocks : new = bor_receipt_key(h[1], h)
      BY DEF BlocksInv
    <2> QED BY <1>1, <1>2, <2>1
  <1>6. /\ DOMAIN Put(stored, new, value) = DOMAIN stored \cup {new}
        /\ Put(stored, new, value)[new] = value
        /\ \A k \in DOMAIN stored : k # new => Put(stored, new, value)[k] = stored[k]
    <2>1. HasAlso(Put(stored, new, value), stored, new, value)
      BY PutIs
    <2> QED BY <2>1, Zenon DEF HasAlso
  <1> HIDE DEF separate, key
  <1>7. /\ DOMAIN stored' = IF separate THEN DOMAIN stored \cup {new} ELSE DOMAIN stored
        /\ separate => stored'[new] = value
        /\ \A k \in DOMAIN stored : stored'[k] = stored[k]
    BY <1>4, <1>5, <1>6
  <1>8. \A h \in DOMAIN blocks : h # hash
    BY <1>1
  <1>9. /\ \A h \in DOMAIN blocks :
                    /\ key(h) \in DOMAIN stored' <=> key(h) \in DOMAIN stored
                    /\ key(h) \in DOMAIN stored => stored'[key(h)] = stored[key(h)]
        /\ key(hash) \in DOMAIN stored' <=> separate
        /\ separate => stored'[key(hash)] = [tx_hash |-> key(hash), gas |-> bor]
        /\ \A k \in DOMAIN stored' : k \in DOMAIN stored \/ k = key(hash)
    BY <1>2, <1>5, <1>7, <1>8, <1>v
  <1> QED BY <1>2, <1>9, <1>k DEF separate, key

\* Finishing a block.
LEMMA FinishKeeps ==
    ASSUME ProductionInv, Finish
    PROVE  ProductionInv'
  <1>1. PICK p, hash, bor : p \in payload /\ FinishedAs(p, hash, bor)
    BY FinishIs
  <1>2. /\ payload' = {} /\ receipts' = <<>> /\ made' = <<>> /\ UNCHANGED heimdall
        /\ unwinds' = unwinds /\ txs' = txs /\ ctx' = ctx
    BY DEF Finish
  <1>m. PICK m : m = Len(chain)
    OBVIOUS
  <1>3. m \in Nat /\ NextNumber = m + 1 /\ m + 1 \in Nat \ {0} /\ unwinds \in Nat
    BY <1>m, LastType DEF ProductionInv, NextNumber, BlocksInv
  <1>4. /\ Len(chain') = m + 1 /\ chain' \in Seq(DOMAIN blocks')
        /\ DOMAIN blocks' = DOMAIN blocks \cup {hash}
        /\ \A b \in 1..m : chain'[b] = chain[b]
        /\ chain'[m + 1] = hash
        /\ blocks'[hash].payload = p
        /\ \A h \in DOMAIN blocks : blocks'[h] = blocks[h]
    BY <1>1, <1>3, <1>m, FinishPayloads DEF ProductionInv
  <1>5. \A name \in Names :
            /\ \A n \in 0..m : LastUpTo(name, n)' = LastUpTo(name, n)
            /\ LastOnChain(name)' = LastOnChain(name) + CountOf(name, p)
    BY <1>1, <1>m, FinishMoves DEF ProductionInv
  <1>6. ChainInv'
    <2>1. ASSUME NEW b \in 1..(m + 1)
          PROVE  /\ chain'[b][1] = b
                 /\ CallsFollow(blocks'[chain'[b]].payload, LastUpTo("commitSpan", b - 1)',
                                                            LastUpTo("onStateReceive", b - 1)')
      <3>0. b - 1 \in 0..m
        BY <1>3
      <3>1. /\ LastUpTo("commitSpan", b - 1)' = LastUpTo("commitSpan", b - 1)
            /\ LastUpTo("onStateReceive", b - 1)' = LastUpTo("onStateReceive", b - 1)
        BY <1>5, <3>0 DEF Names
      <3>2. CASE b \in 1..m
        <4>1. b \in DOMAIN chain /\ chain[b] \in DOMAIN blocks
          BY <1>m, <3>2 DEF ProductionInv, ChainInv
        <4>2. /\ chain[b][1] = b
              /\ CallsFollow(blocks[chain[b]].payload, LastUpTo("commitSpan", b - 1),
                                                       LastUpTo("onStateReceive", b - 1))
          BY <4>1 DEF ProductionInv, ChainInv, Block
        <4> QED BY <1>4, <3>1, <3>2, <4>1, <4>2
      <3>3. CASE b = m + 1
        <4>1. b - 1 = m
          BY <1>3, <3>3
        <4>2. hash[1] = m + 1
          BY <1>1, <1>3 DEF FinishedAs
        <4>3. CallsFollow(p, LastUpTo("commitSpan", m), LastUpTo("onStateReceive", m))
          BY <1>1, <1>m DEF FinishedAs, LastOnChain
        <4> QED BY <1>4, <3>1, <3>3, <4>1, <4>2, <4>3
      <3> QED BY <1>3, <3>2, <3>3
    <2>2. DOMAIN chain' = 1..(m + 1)
      BY <1>4
    <2> QED BY <1>4, <2>1, <2>2 DEF ChainInv, Block
  <1>7. HeimdallInv'
    <2>1. CountOf("onStateReceive", p) = p.state_sync_count
      BY DEF CountOf
    <2>2. LastOnChain("onStateReceive") + p.state_sync_count <= Len(events)
      BY <1>1 DEF ProductionInv, HeimdallInv
    <2>3. LastOnChain("onStateReceive")' <= Len(events)
      BY <1>5, <2>1, <2>2 DEF Names
    <2> QED BY <1>2, <2>3 DEF ProductionInv, HeimdallInv, heimdall
  <1>8. ExecutorInv'
    <2>1. receipts' \in Seq(Nat) /\ made' \in Seq(SystemCalls)
      BY <1>2
    <2> QED BY <1>2, <2>1 DEF ProductionInv, ExecutorInv
  <1>9. BlocksInv'
    <2> DEFINE key(h) == bor_receipt_key(h[1], h)
               separate == p.system_calls # <<>> /\ ~is_post_madhugiri(m + 1)
    <2>1. /\ \A h \in DOMAIN blocks :
                    /\ key(h) \in DOMAIN stored' <=> key(h) \in DOMAIN stored
                    /\ key(h) \in DOMAIN stored => stored'[key(h)] = stored[key(h)]
          /\ key(hash) = bor_receipt_key(m + 1, hash)
          /\ key(hash) \in DOMAIN stored' <=> separate
          /\ separate => stored'[key(hash)] = [tx_hash |-> key(hash), gas |-> bor]
          /\ \A k \in DOMAIN stored' : k \in DOMAIN stored \/ k = key(hash)
      BY <1>1, <1>3, FinishStores DEF ProductionInv
    <2>2. ASSUME NEW h \in DOMAIN blocks PROVE BlockOk(h)'
      <3>1. BlockOk(h)
        BY DEF ProductionInv, BlocksInv
      <3>2. blocks'[h] = blocks[h]
        BY <1>4
      <3>3. bor_receipt_key(blocks[h].payload.block_number, h) = key(h)
        BY <3>1 DEF BlockOk
      <3>4. h[2] = unwinds => h[1] <= m + 1
        <4>1. h \in (Nat \ {0}) \X (0..unwinds) /\ (h[2] = unwinds => h[1] <= m)
          BY <3>1, <1>m DEF BlockOk
        <4> QED BY <1>3, <4>1
      <3> HIDE DEF key
      <3>5. /\ key(h) \in DOMAIN stored'
                    <=> blocks[h].payload.system_calls # <<>> /\ ~is_post_madhugiri(h[1])
            /\ key(h) \in DOMAIN stored'
                    => stored'[key(h)] = [tx_hash |-> key(h), gas |-> blocks[h].bor_receipt]
        BY <2>1, <3>1, <3>3 DEF BlockOk
      <3> QED BY <1>2, <1>4, <3>1, <3>2, <3>3, <3>4, <3>5 DEF BlockOk
    <2>3. BlockOk(hash)'
      <3>n. PICK root : root = receipts_root(receipts)
        OBVIOUS
      <3>1. /\ p.block_number = m + 1 /\ TxsOk(p) /\ CallsCounted(p) /\ made = p.system_calls
            /\ Len(receipts) = UserCount(p)
            /\ \A i \in 1..UserCount(p) : receipts[i] = CumulativeGas(UserGas(p))[i]
            /\ hash = <<m + 1, unwinds>>
            /\ bor = IF p.system_calls = <<>> THEN {} ELSE {p.total_gas_used}
        BY <1>1, <1>3 DEF FinishedAs, CallsFollow
      <3>2. blocks'[hash] = [payload |-> p, made |-> made, bor_receipt |-> bor, root |-> root]
        <4>v. PICK value : value = [payload |-> p, made |-> made, bor_receipt |-> bor, root |-> root]
          OBVIOUS
        <4>1. blocks' = Put(blocks, hash, value)
          BY <1>1, <1>3, <3>n, <4>v DEF FinishedAs
        <4>2. HasAlso(blocks', blocks, hash, value)
          BY <4>1, PutIs
        <4> QED BY <4>2, <4>v DEF HasAlso
      <3>3. /\ blocks'[hash].payload = p /\ blocks'[hash].made = p.system_calls
            /\ blocks'[hash].bor_receipt = bor /\ blocks'[hash].root = root
        BY <3>1, <3>2
      <3>4. root = receipts /\ receipts \in Seq(Nat)
        BY <3>n DEF receipts_root, ProductionInv, ExecutorInv
      <3>5. /\ root \in Seq(Nat) /\ Len(root) = UserCount(p)
            /\ \A i \in 1..UserCount(p) : root[i] = CumulativeGas(UserGas(p))[i]
        BY <3>1, <3>4
      <3>8. hash \in (Nat \ {0}) \X (0..unwinds) /\ hash[1] = m + 1
        BY <1>3, <3>1
      <3>9. m + 1 <= Len(chain')
        BY <1>3, <1>4
      <3> HIDE DEF key
      <3> QED BY <1>2, <1>4, <2>1, <3>1, <3>3, <3>5, <3>8, <3>9 DEF BlockOk
    <2>4. \A k \in DOMAIN stored' : \E h \in DOMAIN blocks' : k = key(h)
      <3> SUFFICES ASSUME NEW k \in DOMAIN stored' PROVE \E h \in DOMAIN blocks' : k = key(h)
        OBVIOUS
      <3>1. CASE k \in DOMAIN stored
        <4>1. PICK h \in DOMAIN blocks : k = key(h)
          BY <3>1 DEF ProductionInv, BlocksInv
        <4> QED BY <1>4, <4>1
      <3>2. CASE k = key(hash)
        BY <1>4, <3>2
      <3> QED BY <2>1, <3>1, <3>2
    <2> QED BY <1>2, <1>3, <1>4, <2>2, <2>3, <2>4 DEF BlocksInv
  <1> QED BY <1>6, <1>7, <1>8, <1>9 DEF ProductionInv

-----------------------------------------------------------------------------
(***************************************************************************)
(* How long events wait                                                    *)
(***************************************************************************)

\* Products, as the provers need them.
LEMMA Products ==
    ASSUME NEW k \in Nat
    PROVE  /\ \A x \in Nat : k * x \in Nat /\ k * (x + 1) = k * x + k
           /\ \A x, y \in Nat : k * (x + y) = k * x + k * y
           /\ \A x, y \in Nat : x <= y => k * x <= k * y
  <1>1. \A x \in Nat : k * x \in Nat
    OBVIOUS
  <1>2. \A x, y \in Nat : k * (x + y) = k * x + k * y
    OBVIOUS
  <1>3. \A x \in Nat : k * (x + 1) = k * x + k
    OBVIOUS
  <1>4. \A x, y \in Nat : x <= y => k * x <= k * y
    OBVIOUS
  <1> QED BY <1>1, <1>2, <1>3, <1>4

\* Division with remainder.
LEMMA DivIs ==
    ASSUME NEW a \in Nat, NEW d \in Nat \ {0}
    PROVE  /\ a \div d \in Nat /\ d * (a \div d) <= a /\ a < d * (a \div d) + d
           /\ a % d = a - d * (a \div d)
  <1>1. a \div d \in Nat
    OBVIOUS
  <1>2. a = d * (a \div d) + (a % d)
    OBVIOUS
  <1>3. a % d \in 0..(d-1)
    OBVIOUS
  <1>4. d * (a \div d) \in Nat
    BY <1>1, Products
  <1> QED BY <1>1, <1>2, <1>3, <1>4

\* There is one quotient.
LEMMA DivUnique ==
    ASSUME NEW a \in Nat, NEW d \in Nat \ {0}, NEW q \in Nat, d * q <= a, a < d * q + d
    PROVE  a \div d = q
  <1>p. PICK p : p = a \div d
    OBVIOUS
  <1>1. p \in Nat /\ d * p <= a /\ a < d * p + d
    BY <1>p, DivIs
  <1>0. d * p \in Nat /\ d * q \in Nat /\ d * (p + 1) = d * p + d /\ d * (q + 1) = d * q + d
    BY <1>1, Products
  <1>2. ASSUME p < q PROVE FALSE
    <2>1. p + 1 <= q /\ p + 1 \in Nat
      BY <1>1, <1>2
    <2>2. d * (p + 1) <= d * q
      BY <2>1, Products
    <2> QED BY <1>0, <1>1, <2>2
  <1>3. ASSUME q < p PROVE FALSE
    <2>1. q + 1 <= p /\ q + 1 \in Nat
      BY <1>1, <1>3
    <2>2. d * (q + 1) <= d * p
      BY <1>1, <2>1, Products
    <2> QED BY <1>0, <1>1, <2>2
  <1> QED BY <1>1, <1>2, <1>3, <1>p

\* The quotient moves at multiples only.
LEMMA DivStep ==
    ASSUME NEW b \in Nat, NEW d \in Nat \ {0}
    PROVE  (b + 1) \div d = (b \div d) + (IF (b + 1) % d = 0 THEN 1 ELSE 0)
  <1>q. PICK q : q = b \div d
    OBVIOUS
  <1>1. q \in Nat /\ d * q <= b /\ b < d * q + d
    BY <1>q, DivIs
  <1>2. d * q \in Nat /\ d * (q + 1) = d * q + d /\ q + 1 \in Nat /\ b + 1 \in Nat
    BY <1>1, Products
  <1>3. CASE b + 1 = d * q + d
    <2>1. (b + 1) \div d = q + 1
      <3>1. d * (q + 1) <= b + 1 /\ b + 1 < d * (q + 1) + d
        BY <1>2, <1>3
      <3> QED BY <1>2, <3>1, DivUnique
    <2>2. (b + 1) % d = 0
      <3>1. (b + 1) % d = (b + 1) - d * (q + 1)
        BY <1>2, <2>1, DivIs
      <3> QED BY <1>2, <1>3, <3>1
    <2> QED BY <1>q, <2>1, <2>2
  <1>4. CASE b + 1 # d * q + d
    <2>1. (b + 1) \div d = q
      <3>1. d * q <= b + 1 /\ b + 1 < d * q + d
        BY <1>1, <1>2, <1>4
      <3> QED BY <1>1, <1>2, <3>1, DivUnique
    <2>2. (b + 1) % d # 0
      <3>1. (b + 1) % d = (b + 1) - d * q
        BY <1>2, <2>1, DivIs
      <3> QED BY <1>1, <1>2, <3>1
    <2> QED BY <1>q, <1>1, <2>1, <2>2
  <1> QED BY <1>3, <1>4

\* Sprints along the chain: one more at every boundary.
LEMMA SprintStep ==
    ASSUME NEW b \in Nat
    PROVE  /\ SprintsUpTo(b) \in Nat
           /\ SprintsUpTo(b + 1) = SprintsUpTo(b) + (IF boundary(b + 1, sprint_size) THEN 1 ELSE 0)
  <1>1. sprint_size \in Nat \ {0}
    BY Constants
  <1>2. boundary(b + 1, sprint_size) <=> (b + 1) % sprint_size = 0
    BY DEF boundary
  <1>3. b \div sprint_size \in Nat
    BY <1>1, DivIs
  <1>4. (b + 1) \div sprint_size
            = (b \div sprint_size) + (IF (b + 1) % sprint_size = 0 THEN 1 ELSE 0)
    BY <1>1, DivStep
  <1> QED BY <1>2, <1>3, <1>4 DEF SprintsUpTo

\* A block receives a page at the end of a sprint, and nothing otherwise.
LEMMA BlockReceives ==
    ASSUME NEW p, NEW span, NEW event, CallsFollow(p, span, event),
           NEW b \in Nat, p.block_number = b + 1
    PROVE  /\ Pages(b) \in Nat /\ Pages(b + 1) \in Nat
           /\ p.state_sync_count \in Nat /\ p.state_sync_count <= limit
           /\ boundary(b + 1, sprint_size) => Pages(b + 1) = Pages(b) + limit
           /\ ~boundary(b + 1, sprint_size) => Pages(b + 1) = Pages(b) /\ p.state_sync_count = 0
  <1>1. limit \in Nat /\ p.state_sync_count \in 0..limit
        /\ (p.state_sync_count > 0 => boundary(b + 1, sprint_size))
    BY Constants DEF CallsFollow, CallsCounted
  <1>s. PICK s : s = SprintsUpTo(b)
    OBVIOUS
  <1>2. /\ s \in Nat
        /\ SprintsUpTo(b + 1) = s + (IF boundary(b + 1, sprint_size) THEN 1 ELSE 0)
    BY <1>s, SprintStep
  <1>3. limit * s \in Nat /\ limit * (s + 1) = limit * s + limit
    BY <1>1, <1>2, Products
  <1>4. CASE boundary(b + 1, sprint_size)
    <2>1. SprintsUpTo(b + 1) = s + 1
      BY <1>2, <1>4
    <2> QED BY <1>1, <1>3, <1>4, <1>s, <2>1 DEF Pages
  <1>5. CASE ~boundary(b + 1, sprint_size)
    <2>1. SprintsUpTo(b + 1) = s
      BY <1>2, <1>5
    <2> QED BY <1>1, <1>3, <1>5, <1>s, <2>1 DEF Pages
  <1> QED BY <1>4, <1>5

\* Between two blocks no more events are received than pages went.
LEMMA NoMoreThanPages ==
    ASSUME BlocksInv, ChainInv, NEW b \in 0..Len(chain), NEW c \in 0..Len(chain), b <= c
    PROVE  /\ Pages(b) \in Nat /\ Pages(c) \in Nat
           /\ LastUpTo("onStateReceive", c) + Pages(b) <= LastUpTo("onStateReceive", b) + Pages(c)
  <1> DEFINE LastTo(k) == LastUpTo("onStateReceive", k)
             S == {k \in Nat : k \in b..Len(chain) => LastTo(k) + Pages(b) <= LastTo(b) + Pages(k)}
  <1>0. Len(chain) \in Nat /\ DOMAIN chain = 1..Len(chain)
    BY DEF ChainInv
  <1>1. /\ \A k \in 0..Len(chain) : LastTo(k) \in Nat
        /\ \A k \in 1..Len(chain) :
                LastTo(k) = LastTo(k - 1) + CountOf("onStateReceive", Block(k).payload)
    BY LastOnChainMoves DEF Names
  <1>2. \A k \in Nat : Pages(k) \in Nat
    <2> SUFFICES ASSUME NEW k \in Nat PROVE Pages(k) \in Nat
      OBVIOUS
    <2>1. SprintsUpTo(k) \in Nat /\ limit \in Nat
      BY SprintStep, Constants
    <2> QED BY <2>1, Products DEF Pages
  <1>3. ASSUME NEW k \in Nat, k + 1 \in 1..Len(chain)
        PROVE  LastTo(k + 1) + Pages(k) <= LastTo(k) + Pages(k + 1)
    <2>p. PICK p : p = Block(k + 1).payload
      OBVIOUS
    <2>1. k + 1 \in DOMAIN chain /\ (k + 1) - 1 = k /\ k \in 0..Len(chain) /\ k + 1 \in 0..Len(chain)
      BY <1>0, <1>3
    <2>2. p.block_number = k + 1
          /\ CallsFollow(p, LastUpTo("commitSpan", (k + 1) - 1), LastUpTo("onStateReceive", (k + 1) - 1))
      BY <2>1, <2>p, MadeIsAnnounced
    <2>3. /\ Pages(k) \in Nat /\ Pages(k + 1) \in Nat
          /\ p.state_sync_count \in Nat /\ p.state_sync_count <= limit
          /\ boundary(k + 1, sprint_size) => Pages(k + 1) = Pages(k) + limit
          /\ ~boundary(k + 1, sprint_size) => Pages(k + 1) = Pages(k) /\ p.state_sync_count = 0
      BY <2>2, BlockReceives
    <2>4. LastTo(k + 1) = LastTo(k) + p.state_sync_count /\ LastTo(k) \in Nat /\ limit \in Nat
      BY <1>1, <1>3, <2>1, <2>p, Constants DEF CountOf
    <2> HIDE DEF LastTo
    <2>5. CASE boundary(k + 1, sprint_size)
      BY <2>3, <2>4, <2>5
    <2>6. CASE ~boundary(k + 1, sprint_size)
      BY <2>3, <2>4, <2>6
    <2> QED BY <2>5, <2>6
  <1> HIDE DEF LastTo
  <1>4. b \in Nat /\ LastTo(b) \in Nat /\ Pages(b) \in Nat
    BY <1>0, <1>1, <1>2
  <1>5. 0 \in S
    BY <1>0, <1>4
  <1>6. ASSUME NEW k \in Nat, k \in S PROVE k + 1 \in S
    <2> SUFFICES ASSUME k + 1 \in b..Len(chain) PROVE LastTo(k + 1) + Pages(b) <= LastTo(b) + Pages(k + 1)
      OBVIOUS
    <2>1. CASE k + 1 = b
      BY <1>4, <2>1
    <2>2. CASE k + 1 # b
      <3>1. k \in b..Len(chain) /\ k + 1 \in 1..Len(chain) /\ k \in 0..Len(chain) /\ k + 1 \in 0..Len(chain)
        BY <1>0, <1>4, <2>2
      <3>2. LastTo(k) + Pages(b) <= LastTo(b) + Pages(k)
        BY <1>6, <3>1
      <3>3. LastTo(k + 1) + Pages(k) <= LastTo(k) + Pages(k + 1)
        BY <1>3, <3>1
      <3>4. LastTo(k) \in Nat /\ LastTo(k + 1) \in Nat /\ Pages(k) \in Nat /\ Pages(k + 1) \in Nat
        BY <1>1, <1>2, <3>1
      <3> QED BY <1>4, <3>2, <3>3, <3>4
    <2> QED BY <2>1, <2>2
  <1> HIDE DEF S
  <1>7. \A k \in Nat : k \in S
    BY <1>5, <1>6, SetInduction
  <1>8. c \in Nat /\ c \in b..Len(chain)
    BY <1>0
  <1>9. LastTo(c) + Pages(b) <= LastTo(b) + Pages(c)
    BY <1>7, <1>8 DEF S
  <1> QED BY <1>2, <1>4, <1>8, <1>9 DEF LastTo

\* Pages are numbers.
LEMMA PagesType == \A b \in Nat : Pages(b) \in Nat
  <1> SUFFICES ASSUME NEW b \in Nat PROVE Pages(b) \in Nat
    OBVIOUS
  <1>1. SprintsUpTo(b) \in Nat /\ limit \in Nat
    BY SprintStep, Constants
  <1> QED BY <1>1, Products DEF Pages

\* A step that brings no event and no block, and no payload either.
LEMMA WaitUnchanged ==
    ASSUME WaitInv, BlocksInv, ChainInv, UNCHANGED node, events' = events,
           payload' = payload \/ payload' = {}
    PROVE  WaitInv'
  <1>1. /\ NextNumber' = NextNumber /\ chain' = chain
        /\ LastOnChain("onStateReceive")' = LastOnChain("onStateReceive")
        /\ \A n : LastUpTo("onStateReceive", n)' = LastUpTo("onStateReceive", n)
    BY NodeUnchanged DEF node
  <1>2. \A p \in payload' : p \in payload
    OBVIOUS
  <1> QED BY <1>1, <1>2 DEF WaitInv

\* An event that arrives waits for those before it.
LEMMA EventArrivesWaits ==
    ASSUME ProductionInv, WaitInv, EventArrives
    PROVE  WaitInv'
  <1>k. PICK k : k = Len(events) + 1
    OBVIOUS
  <1>m. PICK m : m = Len(chain)
    OBVIOUS
  <1>l. PICK last : last = LastOnChain("onStateReceive")
    OBVIOUS
  <1>e. PICK e : e = [at |-> NextNumber, waiting |-> k - last]
    OBVIOUS
  <1>1. UNCHANGED node /\ payload' = payload /\ events' = Append(events, e)
    <2>1. UNCHANGED node /\ payload' = payload
      BY DEF EventArrives, executor
    <2>2. events' = Append(events, [at |-> NextNumber,
                                    waiting |-> Len(events) + 1 - LastOnChain("onStateReceive")])
      BY DEF EventArrives
    <2>3. e = [at |-> NextNumber, waiting |-> Len(events) + 1 - LastOnChain("onStateReceive")]
      <3>1. LastOnChain("onStateReceive") \in Nat /\ Len(events) \in Nat
        BY LastType DEF ProductionInv, HeimdallInv
      <3>2. k - last = Len(events) + 1 - LastOnChain("onStateReceive")
        BY <1>k, <1>l, <3>1
      <3> QED BY <1>e, <3>2
    <2> QED BY <2>1, <2>2, <2>3
  <1>2. /\ NextNumber' = NextNumber /\ chain' = chain
        /\ LastOnChain("onStateReceive")' = last
        /\ \A n : LastUpTo("onStateReceive", n)' = LastUpTo("onStateReceive", n)
    BY <1>1, <1>l, NodeUnchanged DEF node, ProductionInv
  <1>3. /\ events \in Seq([at : Nat \ {0}, waiting : Nat]) /\ last <= Len(events)
        /\ last \in Nat /\ NextNumber = m + 1 /\ m \in Nat /\ last = LastUpTo("onStateReceive", m)
    BY <1>l, <1>m, LastType DEF ProductionInv, HeimdallInv, NextNumber, LastOnChain
  <1>4. k \in Nat /\ k - last \in Nat /\ e.at = m + 1 /\ e.waiting = k - last
        /\ e \in [at : Nat \ {0}, waiting : Nat]
    BY <1>3, <1>k, <1>e
  <1>5. /\ DOMAIN events' = 1..k /\ DOMAIN events = 1..(k - 1) /\ events'[k] = e
        /\ \A i \in 1..(k - 1) : events'[i] = events[i]
    <2>1. /\ events' \in Seq([at : Nat \ {0}, waiting : Nat]) /\ Len(events') = Len(events) + 1
          /\ \A i \in 1..Len(events) : events'[i] = events[i]
          /\ events'[Len(events) + 1] = e
      BY <1>1, <1>3, <1>4, AppendProperties
    <2>2. k - 1 = Len(events)
      BY <1>3, <1>k
    <2> QED BY <1>3, <1>k, <2>1, <2>2
  <1>6. ASSUME NEW i \in 1..k, NEW b \in 0..m, i > LastUpTo("onStateReceive", b)
        PROVE  LastUpTo("onStateReceive", b) + Pages(events'[i].at) + events'[i].waiting
                    >= i + Pages(b)
    <2>1. CASE i \in 1..(k - 1)
      <3>1. i \in DOMAIN events /\ b \in 0..Len(chain) /\ events'[i] = events[i]
        BY <1>5, <1>m, <2>1
      <3>2. LastUpTo("onStateReceive", b) + Pages(events[i].at) + events[i].waiting >= i + Pages(b)
        BY <1>6, <3>1 DEF WaitInv
      <3> QED BY <3>1, <3>2
    <2>2. CASE i = k
      <3>0. PICK lb : lb = LastUpTo("onStateReceive", b)
        OBVIOUS
      <3>1. m \in 0..Len(chain) /\ b \in 0..Len(chain) /\ b <= m /\ m \in Nat
        BY <1>3, <1>m
      <3>2. Pages(b) \in Nat /\ Pages(m) \in Nat /\ last + Pages(b) <= lb + Pages(m)
        BY <1>3, <3>0, <3>1, NoMoreThanPages DEF ProductionInv
      <3>3. Pages(m) <= Pages(m + 1) /\ Pages(m + 1) \in Nat
        <4>1. /\ SprintsUpTo(m) \in Nat
              /\ SprintsUpTo(m + 1) = SprintsUpTo(m) + (IF boundary(m + 1, sprint_size) THEN 1 ELSE 0)
          BY <1>3, SprintStep
        <4>2. SprintsUpTo(m + 1) \in Nat /\ SprintsUpTo(m) <= SprintsUpTo(m + 1)
          BY <4>1
        <4>3. limit \in Nat
          BY Constants
        <4> QED BY <4>1, <4>2, <4>3, Products DEF Pages
      <3>4. lb \in Nat
        BY <3>0, <3>1, LastOnChainMoves DEF ProductionInv, Names
      <3>5. events'[i].at = m + 1 /\ events'[i].waiting = k - last
        BY <1>4, <1>5, <2>2
      <3>6. lb + Pages(m + 1) + (k - last) >= k + Pages(b)
        <4>1. PICK x, y, z : x = Pages(b) /\ y = Pages(m) /\ z = Pages(m + 1)
          OBVIOUS
        <4>2. x \in Nat /\ y \in Nat /\ z \in Nat /\ last + x <= lb + y /\ y <= z
          BY <3>2, <3>3, <4>1
        <4>3. lb + z + (k - last) >= k + x
          BY <1>3, <1>4, <3>4, <4>2
        <4> QED BY <4>1, <4>3
      <3> QED BY <2>2, <3>0, <3>5, <3>6
    <2> QED BY <1>4, <2>1, <2>2
  <1>7. ASSUME NEW p \in payload, boundary(m + 1, sprint_size), p.state_sync_count < limit,
               NEW i \in 1..k, i > last + p.state_sync_count
        PROVE  events'[i].at = m + 1 /\ events'[i].waiting = i - last
    <2>1. CASE i \in 1..(k - 1)
      <3>1. i \in DOMAIN events /\ events'[i] = events[i]
        BY <1>5, <2>1
      <3>2. events[i].at = NextNumber /\ events[i].waiting = i - LastOnChain("onStateReceive")
        BY <1>3, <1>7, <1>l, <3>1 DEF WaitInv
      <3> QED BY <1>3, <1>l, <3>1, <3>2
    <2>2. CASE i = k
      BY <1>4, <1>5, <2>2
    <2> QED BY <1>4, <2>1, <2>2
  <1>8. ASSUME NEW i \in DOMAIN events', NEW b \in 0..Len(chain'),
               i > LastUpTo("onStateReceive", b)'
        PROVE  LastUpTo("onStateReceive", b)' + Pages(events'[i].at) + events'[i].waiting
                    >= i + Pages(b)
    <2>1. i \in 1..k /\ b \in 0..m /\ LastUpTo("onStateReceive", b)' = LastUpTo("onStateReceive", b)
      BY <1>2, <1>5, <1>m
    <2> QED BY <1>6, <1>8, <2>1
  <1>9. ASSUME NEW p \in payload', boundary(NextNumber', sprint_size), p.state_sync_count < limit,
               NEW i \in DOMAIN events', i > LastOnChain("onStateReceive")' + p.state_sync_count
        PROVE  /\ events'[i].at = NextNumber'
               /\ events'[i].waiting = i - LastOnChain("onStateReceive")'
    <2>1. i \in 1..k /\ p \in payload /\ NextNumber' = m + 1 /\ LastOnChain("onStateReceive")' = last
      BY <1>1, <1>2, <1>3, <1>5
    <2> QED BY <1>7, <1>9, <2>1
  <1> QED BY <1>8, <1>9 DEF WaitInv

\* A payload takes what is there.
LEMMA BuildPayloadWaits ==
    ASSUME ContextFilled, ProductionInv, WaitInv, BuildPayload
    PROVE  WaitInv'
  <1>1. PICK built, evs :
            /\ payload' = {built}
            /\ built.state_sync_count = (IF boundary(NextNumber, sprint_size) THEN Len(evs) ELSE 0)
            /\ Len(evs) < limit => LastOnChain("onStateReceive") + Len(evs) = Len(events)
    BY BuildPayloadIs
  <1>2. UNCHANGED node /\ events' = events
    BY DEF BuildPayload, heimdall
  <1>3. /\ NextNumber' = NextNumber /\ chain' = chain
        /\ LastOnChain("onStateReceive")' = LastOnChain("onStateReceive")
        /\ \A n : LastUpTo("onStateReceive", n)' = LastUpTo("onStateReceive", n)
    BY <1>2, NodeUnchanged DEF node, ProductionInv
  <1>4. DOMAIN events = 1..Len(events) /\ Len(events) \in Nat
    BY DEF ProductionInv, HeimdallInv
  <1>5. ASSUME boundary(NextNumber, sprint_size), built.state_sync_count < limit,
               NEW i \in DOMAIN events, i > LastOnChain("onStateReceive") + built.state_sync_count
        PROVE  FALSE
    <2>1. LastOnChain("onStateReceive") + built.state_sync_count = Len(events)
      BY <1>1, <1>5
    <2> QED BY <1>4, <1>5, <2>1
  <1> QED BY <1>1, <1>2, <1>3, <1>5 DEF WaitInv

\* Another block, and at the end of a sprint another page.
LEMMA FinishWaits ==
    ASSUME ProductionInv, WaitInv, Finish
    PROVE  WaitInv'
  <1>1. PICK p, hash, bor : p \in payload /\ FinishedAs(p, hash, bor)
    BY FinishIs
  <1>2. payload' = {} /\ events' = events
    BY DEF Finish, heimdall
  <1>m. PICK m : m = Len(chain)
    OBVIOUS
  <1>l. PICK last : last = LastOnChain("onStateReceive")
    OBVIOUS
  <1>c. PICK count : count = p.state_sync_count
    OBVIOUS
  <1>3. m \in Nat /\ NextNumber = m + 1 /\ last \in Nat /\ last = LastUpTo("onStateReceive", m)
    BY <1>m, <1>l, LastType DEF ProductionInv, NextNumber, LastOnChain
  <1>4. Len(chain') = m + 1
    BY <1>1, <1>3, FinishPayloads DEF ProductionInv
  <1>5. /\ \A n \in 0..m : LastUpTo("onStateReceive", n)' = LastUpTo("onStateReceive", n)
        /\ LastOnChain("onStateReceive")' = last + count
    <2>1. CountOf("onStateReceive", p) = count
      BY <1>c DEF CountOf
    <2> QED BY <1>1, <1>m, <1>l, <2>1, FinishMoves DEF ProductionInv, Names
  <1>6. LastUpTo("onStateReceive", m + 1)' = last + count
    <2>1. LastOnChain("onStateReceive")' = LastUpTo("onStateReceive", m + 1)'
      BY <1>4 DEF LastOnChain, LastUpTo
    <2> QED BY <1>5, <2>1
  <1>7. /\ Pages(m) \in Nat /\ Pages(m + 1) \in Nat /\ limit \in Nat
        /\ count \in Nat /\ count <= limit
        /\ boundary(m + 1, sprint_size) => Pages(m + 1) = Pages(m) + limit
        /\ ~boundary(m + 1, sprint_size) => Pages(m + 1) = Pages(m) /\ count = 0
    <2>1. /\ CallsFollow(p, LastOnChain("commitSpan"), LastOnChain("onStateReceive"))
          /\ p.block_number = m + 1
      BY <1>1, <1>3 DEF FinishedAs
    <2> QED BY <1>3, <1>c, <2>1, BlockReceives, Constants
  <1>8. ASSUME NEW i \in DOMAIN events, NEW b \in 0..m, i > LastUpTo("onStateReceive", b)
        PROVE  LastUpTo("onStateReceive", b) + Pages(events[i].at) + events[i].waiting >= i + Pages(b)
    BY <1>8, <1>m DEF WaitInv
  <1>9. ASSUME NEW i \in DOMAIN events, i > last + count
        PROVE  last + count + Pages(events[i].at) + events[i].waiting >= i + Pages(m + 1)
    <2>a. PICK at : at = events[i].at
      OBVIOUS
    <2>w. PICK w : w = events[i].waiting
      OBVIOUS
    <2>1. at \in Nat \ {0} /\ w \in Nat /\ i \in Nat
      <3>1. events \in Seq([at : Nat \ {0}, waiting : Nat])
        BY DEF ProductionInv, HeimdallInv
      <3>2. i \in 1..Len(events) /\ Len(events) \in Nat
        BY <3>1
      <3>3. events[i] \in [at : Nat \ {0}, waiting : Nat]
        BY <3>1, <3>2, ElementOfSeq
      <3> QED BY <2>a, <2>w, <3>2, <3>3
    <2>2. Pages(at) \in Nat
      BY <2>1, PagesType
    <2>3. last + Pages(at) + w >= i + Pages(m)
      <3>1. m \in 0..m /\ i > last
        BY <1>3, <1>7, <1>9, <2>1
      <3> QED BY <1>3, <1>8, <2>a, <2>w, <3>1
    <2>4. CASE ~boundary(m + 1, sprint_size)
      BY <1>3, <1>7, <2>1, <2>2, <2>3, <2>4, <2>a, <2>w
    <2>5. CASE boundary(m + 1, sprint_size) /\ count = limit
      BY <1>3, <1>7, <2>1, <2>2, <2>3, <2>5, <2>a, <2>w
    <2>6. CASE boundary(m + 1, sprint_size) /\ count # limit
      <3>1. count < limit
        BY <1>7, <2>6
      <3>2. at = m + 1 /\ w = i - last
        BY <1>1, <1>3, <1>9, <1>l, <1>c, <2>6, <2>a, <2>w, <3>1 DEF WaitInv
      <3>3. last + count + Pages(m + 1) + (i - last) >= i + Pages(m + 1)
        BY <1>3, <1>7, <2>1
      <3> QED BY <2>a, <2>w, <3>2, <3>3
    <2> QED BY <2>4, <2>5, <2>6
  <1>10. ASSUME NEW i \in DOMAIN events, NEW b \in 0..(m + 1), i > LastUpTo("onStateReceive", b)'
         PROVE  LastUpTo("onStateReceive", b)' + Pages(events[i].at) + events[i].waiting >= i + Pages(b)
    <2>1. CASE b \in 0..m
      BY <1>5, <1>8, <1>10, <2>1
    <2>2. CASE b = m + 1
      BY <1>6, <1>9, <1>10, <2>2
    <2> QED BY <1>3, <2>1, <2>2
  <1> QED BY <1>2, <1>4, <1>10 DEF WaitInv

\* A shorter chain.
LEMMA UnwindWaits ==
    ASSUME ProductionInv, WaitInv, Unwind
    PROVE  WaitInv'
  <1>1. payload' = {} /\ events' = events
    BY DEF Unwind, heimdall, executor
  <1>2. /\ Len(chain) \in Nat \ {0} /\ Len(chain') = Len(chain) - 1
        /\ \A n \in 0..Len(chain') : LastUpTo("onStateReceive", n)' = LastUpTo("onStateReceive", n)
    BY UnwindPayloads DEF ProductionInv
  <1>3. \A b \in 0..Len(chain') : b \in 0..Len(chain)
    BY <1>2
  <1> QED BY <1>1, <1>2, <1>3 DEF WaitInv

\* An event that waits was let down by nobody: enough pages have not gone yet.
LEMMA InvEventsWaitTheirTurn ==
    ASSUME ProductionInv, WaitInv
    PROVE  EventsWaitTheirTurn
  <1> SUFFICES ASSUME NEW i \in DOMAIN events, i > LastOnChain("onStateReceive")
               PROVE  NextNumber <= events[i].at
                        + ((events[i].waiting + limit - 1) \div limit) * sprint_size
    BY DEF EventsWaitTheirTurn
  <1>m. PICK m : m = Len(chain)
    OBVIOUS
  <1>a. PICK at : at = events[i].at
    OBVIOUS
  <1>w. PICK w : w = events[i].waiting
    OBVIOUS
  <1>l. PICK last : last = LastOnChain("onStateReceive")
    OBVIOUS
  <1>1. at \in Nat /\ w \in Nat /\ i \in Nat
    <2>1. events \in Seq([at : Nat \ {0}, waiting : Nat])
      BY DEF ProductionInv, HeimdallInv
    <2>2. i \in 1..Len(events) /\ Len(events) \in Nat
      BY <2>1
    <2>3. events[i] \in [at : Nat \ {0}, waiting : Nat]
      BY <2>1, <2>2, ElementOfSeq
    <2> QED BY <1>a, <1>w, <2>2, <2>3
  <1>2. /\ m \in Nat /\ NextNumber = m + 1 /\ last \in Nat
        /\ sprint_size \in Nat \ {0} /\ limit \in Nat \ {0}
    BY <1>m, <1>l, LastType, Constants DEF ProductionInv, NextNumber
  <1>x. PICK x : x = SprintsUpTo(m)
    OBVIOUS
  <1>y. PICK y : y = SprintsUpTo(at)
    OBVIOUS
  <1>3. /\ x \in Nat /\ y \in Nat
        /\ m < sprint_size * x + sprint_size
        /\ sprint_size * y <= at
    BY <1>1, <1>2, <1>x, <1>y, DivIs DEF SprintsUpTo
  <1>4. limit * x < limit * y + w
    <2>1. last + Pages(at) + w >= i + Pages(m)
      <3>1. m \in 0..Len(chain) /\ last = LastUpTo("onStateReceive", m)
        BY <1>2, <1>m, <1>l DEF LastOnChain
      <3>2. i > LastUpTo("onStateReceive", m)
        BY <1>l, <3>1
      <3> QED BY <1>a, <1>w, <3>1, <3>2 DEF WaitInv
    <2>2. Pages(at) = limit * y /\ Pages(m) = limit * x
      BY <1>x, <1>y DEF Pages
    <2>3. limit * x \in Nat /\ limit * y \in Nat
      BY <1>2, <1>3, Products
    <2>4. PICK u, v : u = limit * x /\ v = limit * y
      OBVIOUS
    <2>5. u \in Nat /\ v \in Nat /\ last + v + w >= i + u /\ i > last
      BY <1>l, <2>1, <2>2, <2>3, <2>4
    <2>6. u < v + w
      BY <1>1, <1>2, <2>5
    <2> QED BY <2>4, <2>6
  <1>q. PICK q : q = (w + limit - 1) \div limit
    OBVIOUS
  <1>5. q \in Nat /\ w + limit - 1 \in Nat /\ w + limit - 1 < limit * q + limit
    <2>1. w + limit - 1 \in Nat
      BY <1>1, <1>2
    <2> QED BY <1>2, <1>q, <2>1, DivIs
  <1>6. w <= limit * q /\ limit * q \in Nat
    <2>1. limit * q \in Nat
      BY <1>2, <1>5, Products
    <2>2. PICK u : u = limit * q
      OBVIOUS
    <2>3. u \in Nat /\ w + limit - 1 < u + limit
      BY <1>5, <2>1, <2>2
    <2>4. w <= u
      BY <1>1, <1>2, <2>3
    <2> QED BY <2>1, <2>2, <2>4
  <1>7. x + 1 <= y + q
    <2> SUFFICES ASSUME ~(x + 1 <= y + q) PROVE FALSE
      OBVIOUS
    <2>1. y + q <= x /\ y + q \in Nat
      BY <1>3, <1>5
    <2>2. limit * (y + q) <= limit * x /\ limit * (y + q) = limit * y + limit * q
      BY <1>2, <1>3, <1>5, <2>1, Products
    <2>3. limit * x \in Nat /\ limit * y \in Nat
      BY <1>2, <1>3, Products
    <2>4. PICK u, v, z : u = limit * x /\ v = limit * y /\ z = limit * q
      OBVIOUS
    <2>5. u \in Nat /\ v \in Nat /\ z \in Nat /\ v + z <= u /\ u < v + w /\ w <= z
      BY <1>4, <1>6, <2>2, <2>3, <2>4
    <2> QED BY <1>1, <2>5
  <1>8. m + 1 <= at + q * sprint_size
    <2>1. /\ sprint_size * (x + 1) <= sprint_size * (y + q)
          /\ sprint_size * (y + q) = sprint_size * y + sprint_size * q
          /\ sprint_size * (x + 1) = sprint_size * x + sprint_size
      <3>1. x + 1 \in Nat /\ y + q \in Nat
        BY <1>3, <1>5
      <3> QED BY <1>2, <1>3, <1>5, <1>7, <3>1, Products
    <2>2. sprint_size * x \in Nat /\ sprint_size * y \in Nat /\ sprint_size * q \in Nat
      BY <1>2, <1>3, <1>5, Products
    <2>3. PICK u, v, z : u = sprint_size * x /\ v = sprint_size * y /\ z = sprint_size * q
      OBVIOUS
    <2>4. /\ u \in Nat /\ v \in Nat /\ z \in Nat
          /\ u + sprint_size <= v + z /\ m < u + sprint_size /\ v <= at
      BY <1>3, <2>1, <2>2, <2>3
    <2>5. m + 1 <= at + z
      BY <1>1, <1>2, <2>4
    <2>6. z = q * sprint_size
      BY <1>2, <1>5, <2>3
    <2> QED BY <2>5, <2>6
  <1> QED BY <1>2, <1>8, <1>a, <1>w, <1>q

-----------------------------------------------------------------------------
(***************************************************************************)
(* The theorems, for a node that fills the execution context               *)
(***************************************************************************)

\* The initial state.
LEMMA InitHas == Init => ProductionInv /\ WaitInv
  <1> SUFFICES ASSUME Init PROVE ProductionInv /\ WaitInv
    OBVIOUS
  <1>1. /\ events = <<>> /\ spans = 0 /\ chain = <<>> /\ unwinds = 0
        /\ DOMAIN blocks = {} /\ DOMAIN stored = {}
        /\ payload = {} /\ txs = <<>> /\ receipts = <<>> /\ made = <<>> /\ ctx = NoCalls
    BY DEF Init
  <1>2. Len(chain) = 0 /\ Len(events) = 0 /\ DOMAIN chain = {} /\ DOMAIN events = {}
    BY <1>1
  <1>3. LastOnChain("onStateReceive") = 0
    <2>1. LastUpTo("onStateReceive", 0) = LastIn("onStateReceive", <<>>, 0)
      BY DEF LastUpTo, LastIn, IdsIn, IdsOf
    <2> QED BY <1>2, <2>1, LastOfNone DEF LastOnChain
  <1>4. HeimdallInv
    BY <1>1, <1>2, <1>3 DEF HeimdallInv
  <1>5. ExecutorInv
    <2>1. NoCalls \in Contexts
      BY DEF NoCalls, Contexts
    <2> QED BY <1>1, <2>1 DEF ExecutorInv
  <1>6. BlocksInv
    BY <1>1 DEF BlocksInv
  <1>7. ChainInv
    BY <1>1, <1>2 DEF ChainInv
  <1>8. WaitInv
    BY <1>1, <1>2 DEF WaitInv
  <1> QED BY <1>4, <1>5, <1>6, <1>7, <1>8 DEF ProductionInv

\* Nothing changes.
LEMMA StutterKeeps ==
    ASSUME ProductionInv, WaitInv, UNCHANGED vars
    PROVE  ProductionInv' /\ WaitInv'
  <1>1. /\ UNCHANGED node /\ UNCHANGED heimdall /\ payload' = payload /\ txs' = txs /\ ctx' = ctx
        /\ receipts' = receipts /\ made' = made /\ events' = events
    BY DEF vars, heimdall, executor
  <1>2. WaitInv'
    BY <1>1, WaitUnchanged DEF ProductionInv
  <1>3. /\ txs \in Seq(Tx) /\ receipts \in Seq(Nat) /\ made \in Seq(SystemCalls) /\ ctx \in Contexts
        /\ \A p \in payload : TxsUnderWay(p) /\ CallsUnderWay(p)
    BY DEF ProductionInv, ExecutorInv, Tx
  <1>4. \A p \in payload : TxsUnderWay(p)' /\ CallsUnderWay(p)'
    BY <1>1, <1>3 DEF TxsUnderWay, CallsUnderWay, SpansPending
  <1> QED BY <1>1, <1>2, <1>3, <1>4, ExecutorStep

\* Every step keeps the invariants.
LEMMA StepKeeps ==
    ASSUME ContextFilled, ProductionInv, WaitInv, [Next]_vars
    PROVE  ProductionInv' /\ WaitInv'
  <1>0. BlocksInv /\ ChainInv
    BY DEF ProductionInv
  <1>1. CASE EventArrives
    BY <1>1, EventArrivesKeeps, EventArrivesWaits
  <1>2. CASE SpanArrives
    <2>1. UNCHANGED node /\ events' = events /\ payload' = payload
      BY <1>2 DEF SpanArrives, executor
    <2> QED BY <1>0, <1>2, <2>1, SpanArrivesKeeps, WaitUnchanged
  <1>3. CASE BuildPayload
    BY <1>3, BuildPayloadKeeps, BuildPayloadWaits
  <1>4. CASE ExecuteTransaction
    <2>1. UNCHANGED node /\ events' = events /\ payload' = payload
      BY <1>4 DEF ExecuteTransaction, heimdall
    <2> QED BY <1>0, <1>4, <2>1, ExecuteTransactionKeeps, WaitUnchanged
  <1>5. CASE TransactionFails \/ SystemCallFails
    <2>1. UNCHANGED node /\ events' = events /\ payload' = {}
      BY <1>5 DEF TransactionFails, SystemCallFails, heimdall
    <2> QED BY <1>0, <1>5, <2>1, FailuresKeep, WaitUnchanged
  <1>6. CASE CommitSpan
    <2>1. UNCHANGED node /\ events' = events /\ payload' = payload
      BY <1>6 DEF CommitSpan, heimdall
    <2> QED BY <1>0, <1>6, <2>1, CommitSpanKeeps, WaitUnchanged
  <1>7. CASE StateReceive
    <2>1. UNCHANGED node /\ events' = events /\ payload' = payload
      BY <1>7 DEF StateReceive, heimdall
    <2> QED BY <1>0, <1>7, <2>1, StateReceiveKeeps, WaitUnchanged
  <1>8. CASE Finish
    BY <1>8, FinishKeeps, FinishWaits
  <1>9. CASE Unwind
    BY <1>9, UnwindKeeps, UnwindWaits
  <1>10. CASE Complete \/ UNCHANGED vars
    BY <1>10, StutterKeeps DEF Complete
  <1> QED BY <1>1, <1>2, <1>3, <1>4, <1>5, <1>6, <1>7, <1>8, <1>9, <1>10 DEF Next

\* A payload follows the chain it is built on, its execution goes through it
\* call by call, and finished blocks keep what was promised for them.
THEOREM ProductionInductive ==
    ASSUME ContextFilled
    PROVE  Spec => [](ProductionInv /\ WaitInv)
  <1>1. Init => ProductionInv /\ WaitInv
    BY InitHas
  <1>2. ProductionInv /\ WaitInv /\ [Next]_vars => ProductionInv' /\ WaitInv'
    BY StepKeeps
  <1> QED BY <1>1, <1>2, PTL DEF Spec

\* What a payload announces is what its execution did, in the same order
\* (bor-payload's build and bor-evm's execute_bor_system_calls).
THEOREM ProductionIsExecuted ==
    ASSUME ContextFilled
    PROVE  Spec => []PayloadIsExecuted
  <1>1. ProductionInv => PayloadIsExecuted
    BY InvPayloadIsExecuted DEF ProductionInv
  <1> QED BY <1>1, ProductionInductive, PTL

\* The state receiver gets every event once and in order, whatever blocks
\* failed or were given up.
THEOREM ProductionEventsOnce ==
    ASSUME ContextFilled
    PROVE  Spec => []EventsOnceInOrder
  <1>1. ProductionInv => EventsOnceInOrder
    BY InvOnceInOrder DEF ProductionInv, EventsOnceInOrder, Names
  <1> QED BY <1>1, ProductionInductive, PTL

\* Spans are committed at boundaries, ahead of the events and one after the
\* other.
THEOREM ProductionSpansInOrder ==
    ASSUME ContextFilled
    PROVE  Spec => []SpansCommitInOrder
  <1>1. ProductionInv => SpansCommitInOrder
    BY InvSpansCommitInOrder DEF ProductionInv
  <1> QED BY <1>1, ProductionInductive, PTL

\* No event waits longer than a sprint for every page of events before it,
\* failed and abandoned blocks aside.
THEOREM ProductionWaits ==
    ASSUME ContextFilled
    PROVE  Spec => []EventsWaitTheirTurn
  <1>1. ProductionInv /\ WaitInv => EventsWaitTheirTurn
    BY InvEventsWaitTheirTurn
  <1> QED BY <1>1, ProductionInductive, PTL

\* The gas in the receipts of a block grows up to the payload's total, which
\* is within the limit; the Bor receipt repeats it.
THEOREM ProductionReceiptsAddUp ==
    ASSUME ContextFilled
    PROVE  Spec => []ReceiptsAddUp
  <1>1. ProductionInv => ReceiptsAddUp
    BY InvReceiptsAddUp DEF ProductionInv
  <1> QED BY <1>1, ProductionInductive, PTL

\* A receipt found under a block's key is that block's, also across unwinds.
THEOREM ProductionReceiptIsOwn ==
    ASSUME ContextFilled
    PROVE  Spec => []BorReceiptIsOwn
  <1>1. ProductionInv => BorReceiptIsOwn
    BY InvBorReceiptIsOwn DEF ProductionInv
  <1> QED BY <1>1, ProductionInductive, PTL

=============================================================================
