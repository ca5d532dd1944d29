--------------------------- MODULE ProducerProofs ---------------------------
(***************************************************************************)
(* The producer of a block.  Whose turn it is: weighted round robin, for   *)
(* every number of validators and all voting powers, has cycles that are   *)
(* proportional to power, and debts that are bounded.  What the producer's *)
(* seal means: for all values of the fields of a header, what the engine   *)
(* accepts is what was sealed.                                             *)
(***************************************************************************)
EXTENDS Proposer, HeaderRules, NatInduction, SequenceTheorems

-----------------------------------------------------------------------------
(***************************************************************************)
(* Sums.                                                                   *)
(***************************************************************************)

\* c has the sums of the first values of f.
Sums(f, n, c) ==
    /\ c \in [0..n -> Int]
    /\ c[0] = 0
    /\ \A k \in 1..n : c[k] = c[k - 1] + f[k]

\* Any list of integers can be added up.
LEMMA SumsExist ==
    ASSUME NEW f \in [Validators -> Int], NEW n \in 0..Count
    PROVE  \E c : Sums(f, n, c)
  <1> DEFINE S == {k \in Nat : k <= Count => \E c : Sums(f, k, c)}
  <1>0. Count \in Nat
    BY ProposerAssumption
  <1>1. 0 \in S
    <2> DEFINE c == [j \in 0..0 |-> 0]
    <2>1. Sums(f, 0, c)
      BY DEF Sums
    <2> QED BY <2>1
  <1>2. ASSUME NEW k \in Nat, k \in S PROVE k + 1 \in S
    <2> SUFFICES ASSUME k + 1 <= Count PROVE \E c : Sums(f, k + 1, c)
      OBVIOUS
    <2>1. PICK c : Sums(f, k, c)
      BY <1>0, <1>2
    <2> DEFINE d == [j \in 0..(k + 1) |-> IF j <= k THEN c[j] ELSE c[k] + f[k + 1]]
    <2>2. f[k + 1] \in Int /\ k \in 0..k
      BY <1>0 DEF Validators
    <2>3. c[k] \in Int
      BY <2>1, <2>2 DEF Sums
    <2>4. d \in [0..(k + 1) -> Int]
      BY <2>1, <2>2, <2>3 DEF Sums
    <2>5. d[0] = 0
      BY <2>1 DEF Sums
    <2>6. ASSUME NEW j \in 1..(k + 1) PROVE d[j] = d[j - 1] + f[j]
      <3>1. j \in 0..(k + 1) /\ j - 1 \in 0..(k + 1) /\ j - 1 <= k
        OBVIOUS
      <3>2. CASE j <= k
        BY <2>1, <3>1, <3>2 DEF Sums
      <3>3. CASE ~(j <= k)
        <4>1. j = k + 1 /\ j - 1 = k
          BY <3>3
        <4> QED BY <3>1, <3>3, <4>1
      <3> QED BY <3>2, <3>3
    <2> HIDE DEF d
    <2>7. Sums(f, k + 1, d)
      BY <2>4, <2>5, <2>6 DEF Sums
    <2> QED BY <2>7
  <1> HIDE DEF S
  <1>3. \A k \in Nat : k \in S
    BY <1>1, <1>2, SetInduction
  <1> QED BY <1>0, <1>3 DEF S

\* UpTo is well defined: it adds up.
LEMMA UpToAdds ==
    ASSUME NEW f \in [Validators -> Int]
    PROVE  Sums(f, Count, UpTo(f))
  <1> DEFINE Body(h) == [k \in 0..Count |-> IF k = 0 THEN 0 ELSE h[k - 1] + f[k]]
             c == UpTo(f)
  <1>0. Count \in Nat /\ Count \in 0..Count
    BY ProposerAssumption
  <1>1. PICK g : Sums(f, Count, g)
    BY <1>0, SumsExist
  <1>2. g = Body(g)
    <2>1. \A k \in 0..Count : g[k] = Body(g)[k]
      <3> SUFFICES ASSUME NEW k \in 0..Count
                   PROVE  g[k] = IF k = 0 THEN 0 ELSE g[k - 1] + f[k]
        OBVIOUS
      <3>1. CASE k = 0
        BY <1>1, <3>1 DEF Sums
      <3>2. CASE k # 0
        <4>1. k \in 1..Count
          BY <1>0, <3>2
        <4> QED BY <1>1, <3>2, <4>1 DEF Sums
      <3> QED BY <3>1, <3>2
    <2>2. g = [k \in 0..Count |-> g[k]]
      BY <1>1 DEF Sums
    <2> QED BY <2>1, <2>2
  <1>3. c = CHOOSE h : h = Body(h)
    BY DEF UpTo
  <1>4. c = Body(c)
    <2> HIDE DEF Body, c
    <2> QED BY <1>2, <1>3
  <1> HIDE DEF c
  <1>5. c[0] = 0 /\ \A k \in 1..Count : c[k] = c[k - 1] + f[k]
    <2>1. c[0] = 0
      BY <1>0, <1>4
    <2>2. ASSUME NEW k \in 1..Count PROVE c[k] = c[k - 1] + f[k]
      <3>1. k \in 0..Count /\ k # 0
        BY <1>0
      <3> QED BY <1>4, <3>1
    <2> QED BY <2>1, <2>2
  <1>6. \A k \in 0..Count : c[k] \in Int
    <2> DEFINE S == {k \in Nat : k <= Count => c[k] \in Int}
    <2>1. 0 \in S
      BY <1>5
    <2>2. ASSUME NEW k \in Nat, k \in S PROVE k + 1 \in S
      <3> SUFFICES ASSUME k + 1 <= Count PROVE c[k + 1] \in Int
        OBVIOUS
      <3>1. k + 1 \in 1..Count /\ (k + 1) - 1 = k /\ k <= Count
        BY <1>0
      <3>2. c[k] \in Int /\ f[k + 1] \in Int
        BY <2>2, <3>1 DEF Validators
      <3> QED BY <1>5, <3>1, <3>2
    <2> HIDE DEF S
    <2>3. \A k \in Nat : k \in S
      BY <2>1, <2>2, SetInduction
    <2> QED BY <1>0, <2>3 DEF S
  <1>7. c \in [0..Count -> Int]
    <2>1. c = [k \in 0..Count |-> c[k]]
      BY <1>4
    <2> QED BY <1>6, <2>1
  <1> QED BY <1>5, <1>7 DEF Sums, c

\* A total is an integer, and so are the sums on the way to it.
LEMMA SumType ==
    ASSUME NEW f \in [Validators -> Int]
    PROVE  /\ Total(f) \in Int
           /\ UpTo(f)[0] = 0
           /\ \A k \in Nat : k <= Count => UpTo(f)[k] \in Int
           /\ \A k \in Nat : k + 1 <= Count =>
                 /\ k + 1 \in Validators
                 /\ UpTo(f)[k + 1] = UpTo(f)[k] + f[k + 1]
  <1> DEFINE c == UpTo(f)
  <1>0. Count \in Nat /\ Sums(f, Count, c)
    BY ProposerAssumption, UpToAdds
  <1> HIDE DEF c
  <1>1. \A k \in Nat : k <= Count => c[k] \in Int
    BY <1>0 DEF Sums
  <1>2. ASSUME NEW k \in Nat, k + 1 <= Count
        PROVE  k + 1 \in Validators /\ c[k + 1] = c[k] + f[k + 1]
    <2>1. k + 1 \in 1..Count /\ (k + 1) - 1 = k
      BY <1>0, <1>2
    <2> QED BY <1>0, <2>1 DEF Sums, Validators
  <1>3. c[0] = 0 /\ c[Count] \in Int
    BY <1>0, <1>1 DEF Sums
  <1> QED BY <1>1, <1>2, <1>3 DEF c, Total

\* A property of the sums of the first values carries over to the total.
LEMMA SumInduction ==
    ASSUME NEW S, 0 \in S,
           \A k \in Nat : k + 1 <= Count /\ k \in S => k + 1 \in S
    PROVE  Count \in S
  <1> DEFINE R == {k \in Nat : k <= Count => k \in S}
  <1>0. Count \in Nat
    BY ProposerAssumption
  <1>1. 0 \in R
    OBVIOUS
  <1>2. \A k \in Nat : k \in R => k + 1 \in R
    BY <1>0
  <1> HIDE DEF R
  <1>3. Count \in R
    BY <1>0, <1>1, <1>2, SetInduction
  <1> QED BY <1>0, <1>3 DEF R

\* Totals add up.
LEMMA TotalOfSum ==
    ASSUME NEW f \in [Validators -> Int], NEW g \in [Validators -> Int],
           NEW h \in [Validators -> Int],
           \A v \in Validators : h[v] = f[v] + g[v]
    PROVE  Total(h) = Total(f) + Total(g)
  <1> DEFINE F == UpTo(f)
             G == UpTo(g)
             H == UpTo(h)
             S == {k \in Nat : k <= Count => H[k] = F[k] + G[k]}
  <1>0. Count \in Nat
    BY ProposerAssumption
  <1>1. /\ F[0] = 0 /\ G[0] = 0 /\ H[0] = 0
        /\ \A k \in Nat : k <= Count => F[k] \in Int /\ G[k] \in Int /\ H[k] \in Int
        /\ \A k \in Nat : k + 1 <= Count =>
              /\ k + 1 \in Validators
              /\ F[k + 1] = F[k] + f[k + 1]
              /\ G[k + 1] = G[k] + g[k + 1]
              /\ H[k + 1] = H[k] + h[k + 1]
    BY SumType
  <1> HIDE DEF F, G, H
  <1>2. 0 \in S
    BY <1>1
  <1>3. ASSUME NEW k \in Nat, k + 1 <= Count, k \in S PROVE k + 1 \in S
    <2>1. k <= Count /\ k + 1 \in Validators
      BY <1>0, <1>1, <1>3
    <2>2. H[k] = F[k] + G[k] /\ h[k + 1] = f[k + 1] + g[k + 1]
      BY <1>3, <2>1
    <2>3. F[k] \in Int /\ G[k] \in Int /\ f[k + 1] \in Int /\ g[k + 1] \in Int
      BY <1>1, <2>1
    <2>4. H[k + 1] = F[k + 1] + G[k + 1]
      BY <1>1, <1>3, <2>2, <2>3
    <2> QED BY <2>4
  <1> HIDE DEF S
  <1>4. Count \in S
    BY <1>2, <1>3, SumInduction
  <1> QED BY <1>0, <1>4 DEF S, F, G, H, Total

\* The total of a list with a single entry that is not zero.
LEMMA TotalOfOne ==
    ASSUME NEW i \in Validators, NEW d \in Int, NEW f,
           f = [v \in Validators |-> IF v = i THEN d ELSE 0]
    PROVE  f \in [Validators -> Int] /\ Total(f) = d
  <1> DEFINE F == UpTo(f)
             S == {k \in Nat : k <= Count => F[k] = IF i <= k THEN d ELSE 0}
  <1>0. Count \in Nat /\ i \in Nat /\ i > 0 /\ i <= Count
    BY ProposerAssumption DEF Validators
  <1>1. f \in [Validators -> Int]
    OBVIOUS
  <1>2. /\ F[0] = 0
        /\ \A k \in Nat : k + 1 <= Count =>
              /\ k + 1 \in Validators
              /\ F[k + 1] = F[k] + f[k + 1]
    BY <1>1, SumType
  <1> HIDE DEF F
  <1>3. 0 \in S
    BY <1>0, <1>2
  <1>4. ASSUME NEW k \in Nat, k + 1 <= Count, k \in S PROVE k + 1 \in S
    <2>1. k <= Count /\ k + 1 \in Validators
      BY <1>0, <1>2, <1>4
    <2>2. F[k] = IF i <= k THEN d ELSE 0
      BY <1>4, <2>1
    <2>3. f[k + 1] = IF k + 1 = i THEN d ELSE 0
      BY <2>1
    <2>4. F[k + 1] = IF i <= k + 1 THEN d ELSE 0
      BY <1>0, <1>2, <1>4, <2>2, <2>3
    <2> QED BY <2>4
  <1> HIDE DEF S
  <1>5. Count \in S
    BY <1>3, <1>4, SumInduction
  <1> QED BY <1>0, <1>1, <1>5 DEF S, F, Total

\* Among numbers with a positive total there is a positive one.
LEMMA TotalPositive ==
    ASSUME NEW f \in [Validators -> Int], Total(f) > 0
    PROVE  \E v \in Validators : f[v] > 0
  <1> SUFFICES ASSUME \A v \in Validators : f[v] <= 0 PROVE FALSE
    OBVIOUS
  <1> DEFINE F == UpTo(f)
             S == {k \in Nat : k <= Count => F[k] <= 0}
  <1>0. Count \in Nat
    BY ProposerAssumption
  <1>1. /\ F[0] = 0
        /\ \A k \in Nat : k <= Count => F[k] \in Int
        /\ \A k \in Nat : k + 1 <= Count =>
              /\ k + 1 \in Validators
              /\ F[k + 1] = F[k] + f[k + 1]
    BY SumType
  <1> HIDE DEF F
  <1>2. 0 \in S
    BY <1>1
  <1>3. ASSUME NEW k \in Nat, k + 1 <= Count, k \in S PROVE k + 1 \in S
    <2>1. k <= Count /\ k + 1 \in Validators
      BY <1>0, <1>1, <1>3
    <2>2. F[k] <= 0 /\ f[k + 1] <= 0 /\ F[k] \in Int /\ f[k + 1] \in Int
      BY <1>1, <1>3, <2>1
    <2>3. F[k + 1] <= 0
      BY <1>1, <1>3, <2>2
    <2> QED BY <2>3
  <1> HIDE DEF S
  <1>4. Count \in S
    BY <1>2, <1>3, SumInduction
  <1>5. F[Count] <= 0 /\ F[Count] \in Int
    BY <1>0, <1>1, <1>4 DEF S
  <1> QED BY <1>5 DEF Total, F

\* Numbers that are at least -c leave each of them at most c above the total
\* for every other one.
LEMMA TotalBound ==
    ASSUME NEW f \in [Validators -> Int], NEW c \in Nat,
           \A v \in Validators : f[v] >= -c, NEW v \in Validators
    PROVE  Total(f) >= f[v] - (Count - 1) * c
  <1> DEFINE F == UpTo(f)
             B(k) == IF v <= k THEN f[v] - (k - 1) * c ELSE -(k * c)
             S == {k \in Nat : k <= Count => F[k] >= B(k)}
  <1>0. Count \in Nat /\ v \in Nat /\ v > 0 /\ v <= Count /\ f[v] \in Int
    BY ProposerAssumption DEF Validators
  <1>1. /\ F[0] = 0
        /\ \A k \in Nat : k <= Count => F[k] \in Int
        /\ \A k \in Nat : k + 1 <= Count =>
              /\ k + 1 \in Validators
              /\ F[k + 1] = F[k] + f[k + 1]
    BY SumType
  <1> HIDE DEF F
  <1>2. 0 \in S
    BY <1>0, <1>1
  <1>3. ASSUME NEW k \in Nat, k + 1 <= Count, k \in S PROVE k + 1 \in S
    <2>1. k <= Count /\ k + 1 \in Validators
      BY <1>0, <1>1, <1>3
    <2>2. F[k] >= B(k) /\ f[k + 1] >= -c /\ F[k] \in Int /\ f[k + 1] \in Int
      BY <1>1, <1>3, <2>1
    <2>3. F[k + 1] = F[k] + f[k + 1]
      BY <1>1, <1>3
    <2>4. PICK m \in Int : m = k * c
      OBVIOUS
    <2>5. (k + 1) * c = m + c /\ (k - 1) * c = m - c /\ ((k + 1) - 1) * c = m
      BY <2>4
    <2>6. CASE v <= k
      <3>1. B(k) = f[v] - (m - c) /\ B(k + 1) = f[v] - m
        BY <1>0, <2>5, <2>6
      <3> HIDE DEF B
      <3>2. F[k + 1] >= B(k + 1)
        BY <1>0, <2>2, <2>3, <3>1
      <3> QED BY <3>2
    <2>7. CASE v = k + 1
      <3>1. B(k) = -m /\ B(k + 1) = f[v] - m
        BY <1>0, <2>4, <2>5, <2>7
      <3> HIDE DEF B
      <3>2. F[k + 1] >= B(k + 1)
        BY <1>0, <2>2, <2>3, <2>7, <3>1
      <3> QED BY <3>2
    <2>8. CASE v > k + 1
      <3>1. B(k) = -m /\ B(k + 1) = -(m + c)
        BY <1>0, <2>4, <2>5, <2>8
      <3> HIDE DEF B
      <3>2. F[k + 1] >= B(k + 1)
        BY <1>0, <2>2, <2>3, <3>1
      <3> QED BY <3>2
    <2> QED BY <1>0, <2>6, <2>7, <2>8
  <1> HIDE DEF S
  <1>4. Count \in S
    BY <1>2, <1>3, SumInduction
  <1> QED BY <1>0, <1>4 DEF S, F, Total

-----------------------------------------------------------------------------
(***************************************************************************)
(* The selection.                                                          *)
(***************************************************************************)

\* Among the first n numbers there is a greatest one, and a last of them.
LEMMA LastGreatest ==
    ASSUME NEW f \in [Validators -> Int]
    PROVE  \E v \in Validators :
              \A u \in Validators : /\ f[u] <= f[v]
                                    /\ u > v => f[u] < f[v]
  <1> DEFINE Has(k) == \E v \in 1..k : \A u \in 1..k : /\ f[u] <= f[v]
                                                       /\ u > v => f[u] < f[v]
             S == {k \in Nat : k <= Count /\ k > 0 => Has(k)}
  <1>0. Count \in Nat /\ Count > 0 /\ \A u \in 1..Count : f[u] \in Int
    BY ProposerAssumption DEF Validators
  <1>1. 0 \in S
    OBVIOUS
  <1>2. ASSUME NEW k \in Nat, k + 1 <= Count, k \in S PROVE k + 1 \in S
    <2> SUFFICES Has(k + 1)
      OBVIOUS
    <2>1. CASE k = 0
      <3>1. 1..(k + 1) = {1} /\ f[1] \in Int
        BY <1>0, <2>1
      <3> QED BY <3>1
    <2>2. CASE k > 0
      <3>1. PICK v \in 1..k : \A u \in 1..k : /\ f[u] <= f[v]
                                              /\ u > v => f[u] < f[v]
        BY <1>0, <1>2, <2>2
      <3>2. f[v] \in Int /\ f[k + 1] \in Int /\ \A u \in 1..k : f[u] \in Int
        BY <1>0, <1>2
      <3>3. CASE f[v] <= f[k + 1]
        <4>1. ASSUME NEW u \in 1..(k + 1)
              PROVE  f[u] <= f[k + 1] /\ (u > k + 1 => f[u] < f[k + 1])
          <5>1. u = k + 1 \/ u \in 1..k
            OBVIOUS
          <5> QED BY <3>1, <3>2, <3>3, <5>1
        <4> QED BY <4>1
      <3>4. CASE f[k + 1] < f[v]
        <4>1. ASSUME NEW u \in 1..(k + 1)
              PROVE  f[u] <= f[v] /\ (u > v => f[u] < f[v])
          <5>1. u = k + 1 \/ u \in 1..k
            OBVIOUS
          <5> QED BY <3>1, <3>2, <3>4, <5>1
        <4> QED BY <4>1
      <3> QED BY <3>2, <3>3, <3>4
    <2> QED BY <2>1, <2>2
  <1> HIDE DEF S
  <1>3. Count \in S
    BY <1>1, <1>2, SumInduction
  <1> QED BY <1>0, <1>3 DEF S, Validators

\* The selected validator has the greatest priority.
LEMMA SelectedIsGreatest ==
    ASSUME NEW f \in [Validators -> Int]
    PROVE  /\ SelectedIndex(f) \in Validators
           /\ \A u \in Validators : f[u] <= f[SelectedIndex(f)]
  BY LastGreatest DEF SelectedIndex

\* The end of a cycle: every debt is a multiple of the total, none is as low
\* as minus the total, and they add up to zero: they are all zero.
LEMMA CycleEnds ==
    ASSUME ProposerInv, CycleComplete
    PROVE  \A v \in Validators : proposer_priority[v] = 0 /\ selected[v] = voting_power[v]
  <1> DEFINE T == total_voting_power
             p == proposer_priority
             w == voting_power
  <1>1. T \in Int /\ T > 0 /\ p \in [Validators -> Int] /\ Total(p) = 0
        /\ w \in [Validators -> Int]
    BY SumType DEF ProposerInv, TypeOK, total_voting_power
  <1>2. ASSUME NEW v \in Validators
        PROVE  /\ w[v] - selected[v] \in Int
               /\ p[v] = T * (w[v] - selected[v])
               /\ w[v] - selected[v] >= 0
    <2>1. w[v] \in Int /\ selected[v] \in Int /\ p[v] \in Int
      BY DEF ProposerInv, TypeOK
    <2>2. p[v] = T * w[v] - selected[v] * T /\ p[v] > -T
      BY DEF ProposerInv, Owed, CycleComplete
    <2> HIDE DEF T, p, w
    <2>3. PICK d \in Int : d = w[v] - selected[v]
      BY <2>1
    <2>4. p[v] = T * d
      BY <1>1, <2>1, <2>2, <2>3
    <2>5. d >= 0
      <3>1. SUFFICES ASSUME d <= -1 PROVE FALSE
        BY <2>3
      <3>2. T * d <= T * (-1)
        BY <1>1, <3>1
      <3> QED BY <1>1, <2>1, <2>2, <2>4, <3>2
    <2> QED BY <2>3, <2>4, <2>5
  <1> HIDE DEF T, p, w
  <1>3. ASSUME NEW v \in Validators PROVE p[v] >= 0
    BY <1>1, <1>2
  <1>4. ASSUME NEW v \in Validators PROVE p[v] = 0
    <2>1. \A u \in Validators : p[u] >= -0
      BY <1>1, <1>3
    <2>2. Total(p) >= p[v] - (Count - 1) * 0
      BY <1>1, <2>1, TotalBound
    <2> QED BY <1>1, <1>3, <2>2, ProposerAssumption
  <1>5. ASSUME NEW v \in Validators PROVE w[v] = selected[v]
    <2>1. w[v] \in Int /\ selected[v] \in Int
      BY DEF ProposerInv, TypeOK, w
    <2>2. T * (w[v] - selected[v]) = 0
      BY <1>2, <1>4
    <2> QED BY <1>1, <2>1, <2>2
  <1> QED BY <1>4, <1>5 DEF p, w

\* A fresh validator set owes nobody anything.
LEMMA ProposerInit == Init => ProposerInv
  <1> SUFFICES ASSUME Init PROVE ProposerInv
    OBVIOUS
  <1> DEFINE zero == [v \in Validators |-> 0]
  <1>0. Count \in Nat /\ Count > 0 /\ 1 \in Validators
    BY ProposerAssumption DEF Validators
  <1>1. voting_power \in [Validators -> Nat]
    BY ProposerAssumption DEF Init
  <1>2. total_voting_power \in Int /\ total_voting_power > 0
    BY <1>1, SumType DEF Init, total_voting_power
  <1>3. zero = [v \in Validators |-> IF v = 1 THEN 0 ELSE 0]
    OBVIOUS
  <1>4. Total(zero) = 0
    BY <1>0, <1>3, TotalOfOne
  <1>5. proposer_priority = zero /\ selected = zero /\ proposer = 0
    BY DEF Init
  <1>6. TypeOK
    BY <1>0, <1>1, <1>5 DEF TypeOK
  <1>7. ASSUME NEW v \in Validators
        PROVE  proposer_priority[v] = Owed(v) /\ proposer_priority[v] > -total_voting_power
    <2>1. proposer_priority[v] = 0 /\ selected[v] = 0 /\ voting_power[v] \in Nat
      BY <1>1, <1>5
    <2>2. Total(selected) = 0
      BY <1>4, <1>5
    <2> QED BY <1>2, <2>1, <2>2 DEF Owed
  <1> QED BY <1>2, <1>4, <1>5, <1>6, <1>7 DEF ProposerInv

\* What is counted after a step: one selection more, or the first of a cycle.
LEMMA CountedTotal ==
    ASSUME ProposerInv, NEW i \in Validators
    PROVE  /\ Counted(i) \in [Validators -> Nat]
           /\ Total(Counted(i)) = (IF CycleComplete THEN 0 ELSE Total(selected)) + 1
  <1> DEFINE one == [v \in Validators |-> IF v = i THEN 1 ELSE 0]
             base == [v \in Validators |-> IF CycleComplete THEN 0 ELSE selected[v]]
             none == [v \in Validators |-> IF v = i THEN 0 ELSE 0]
  <1>1. selected \in [Validators -> Nat]
    BY DEF ProposerInv, TypeOK
  <1>2. one \in [Validators -> Int] /\ Total(one) = 1
    BY TotalOfOne
  <1>3. base \in [Validators -> Int]
    BY <1>1
  <1>4. Total(base) = IF CycleComplete THEN 0 ELSE Total(selected)
    <2>1. CASE CycleComplete
      <3>1. base = none
        BY <2>1
      <3>2. Total(none) = 0
        BY TotalOfOne
      <3> QED BY <2>1, <3>1, <3>2
    <2>2. CASE ~CycleComplete
      <3>1. base = selected
        BY <1>1, <2>2
      <3> QED BY <2>2, <3>1
    <2> QED BY <2>1, <2>2
  <1>5. Counted(i) \in [Validators -> Nat]
    BY <1>1 DEF Counted
  <1>6. \A v \in Validators : Counted(i)[v] = base[v] + one[v]
    BY DEF Counted
  <1> HIDE DEF one, base
  <1>7. Total(Counted(i)) = Total(base) + Total(one)
    BY <1>2, <1>3, <1>5, <1>6, TotalOfSum
  <1> QED BY <1>2, <1>4, <1>5, <1>7

\* After the increment the priorities add up to the total voting power: the
\* selected one is positive.
LEMMA SelectedIsPositive ==
    ASSUME ProposerInv
    PROVE  LET idx == SelectedIndex(Incremented)
           IN  /\ idx \in Validators
               /\ Incremented \in [Validators -> Int]
               /\ Total(Incremented) = total_voting_power
               /\ Incremented[idx] > 0
  <1> DEFINE idx == SelectedIndex(Incremented)
  <1>1. /\ voting_power \in [Validators -> Int] /\ proposer_priority \in [Validators -> Int]
        /\ total_voting_power \in Int /\ total_voting_power > 0
        /\ Total(proposer_priority) = 0
    BY SumType DEF ProposerInv, TypeOK, total_voting_power
  <1>2. Incremented \in [Validators -> Int]
        /\ \A v \in Validators : Incremented[v] = proposer_priority[v] + voting_power[v]
    BY <1>1 DEF Incremented
  <1>3. Total(Incremented) = Total(proposer_priority) + total_voting_power
    BY <1>1, <1>2, TotalOfSum DEF total_voting_power
  <1>4. Total(Incremented) = total_voting_power
    BY <1>1, <1>3
  <1>5. PICK v \in Validators : Incremented[v] > 0
    BY <1>1, <1>2, <1>4, TotalPositive
  <1>6. idx \in Validators /\ Incremented[v] <= Incremented[idx]
    BY <1>2, SelectedIsGreatest
  <1>7. Incremented[v] \in Int /\ Incremented[idx] \in Int
    BY <1>2, <1>6
  <1>8. Incremented[idx] > 0
    BY <1>5, <1>6, <1>7
  <1> QED BY <1>2, <1>4, <1>6, <1>8

\* A selection keeps the invariant.
LEMMA SelectionKeepsInv ==
    ASSUME ProposerInv, select_proposer
    PROVE  ProposerInv'
  <1> DEFINE T == total_voting_power
             q == Incremented
             idx == SelectedIndex(Incremented)
             fee == [v \in Validators |-> IF v = idx THEN -T ELSE 0]
             t == IF CycleComplete THEN 0 ELSE Total(selected)
             s == [v \in Validators |-> IF CycleComplete THEN 0 ELSE selected[v]]
  <1>1. /\ idx \in Validators /\ q \in [Validators -> Int] /\ Total(q) = T /\ q[idx] > 0
    BY SelectedIsPositive
  <1>2. /\ T \in Int /\ T > 0 /\ voting_power \in [Validators -> Nat]
        /\ proposer_priority \in [Validators -> Int] /\ selected \in [Validators -> Nat]
        /\ Total(selected) \in Int /\ Total(selected) <= T
    BY SumType DEF ProposerInv, TypeOK, total_voting_power
  <1>3. /\ proposer_priority' = [q EXCEPT ![idx] = @ - T]
        /\ proposer' = idx /\ selected' = Counted(idx) /\ voting_power' = voting_power
    BY DEF select_proposer
  <1>4. total_voting_power' = T
    BY <1>3 DEF total_voting_power
  <1>5. /\ selected' \in [Validators -> Nat]
        /\ Total(selected)' = t + 1
    BY <1>1, <1>3, CountedTotal
  <1>6. \A v \in Validators : selected'[v] = s[v] + (IF v = idx THEN 1 ELSE 0)
    BY <1>3 DEF Counted
  <1>7. t \in Int /\ t + 1 <= T
    <2>1. CASE CycleComplete
      BY <1>2, <2>1
    <2>2. CASE ~CycleComplete
      BY <1>2, <2>2 DEF CycleComplete
    <2> QED BY <2>1, <2>2
  <1>8. ASSUME NEW v \in Validators
        PROVE  /\ s[v] \in Int
               /\ proposer_priority[v] = t * voting_power[v] - s[v] * T
    <2>1. CASE CycleComplete
      <3>1. proposer_priority[v] = 0
        BY <2>1, CycleEnds
      <3>2. s[v] = 0 /\ t = 0 /\ voting_power[v] \in Int
        BY <1>2, <2>1
      <3> QED BY <1>2, <3>1, <3>2
    <2>2. CASE ~CycleComplete
      <3>1. proposer_priority[v] = Total(selected) * voting_power[v] - selected[v] * T
        BY DEF ProposerInv, Owed
      <3> QED BY <1>2, <2>2, <3>1
    <2> QED BY <2>1, <2>2
  <1>9. \A v \in Validators : q[v] = proposer_priority[v] + voting_power[v]
    BY DEF Incremented
  <1>10. fee \in [Validators -> Int] /\ Total(fee) = -T
    BY <1>1, <1>2, TotalOfOne
  <1>11. /\ proposer_priority' \in [Validators -> Int]
         /\ \A v \in Validators : proposer_priority'[v] = q[v] + fee[v]
    <2> HIDE DEF q, idx, T
    <2> QED BY <1>1, <1>2, <1>3
  <1>12. Total(proposer_priority)' = 0
    <2>1. Total(proposer_priority') = Total(q) + Total(fee)
      BY <1>1, <1>10, <1>11, TotalOfSum
    <2>2. Total(proposer_priority)' = Total(proposer_priority')
      BY DEF Total, UpTo
    <2> HIDE DEF q, idx, T, fee
    <2> QED BY <1>1, <1>2, <1>10, <2>1, <2>2
  <1> HIDE DEF q, idx, T, t, s
  <1>13. ASSUME NEW v \in Validators PROVE (proposer_priority[v] = Owed(v))'
    <2>1. /\ voting_power[v] \in Int /\ s[v] \in Int /\ proposer_priority[v] \in Int
          /\ q[v] \in Int
      BY <1>1, <1>2, <1>8
    <2>2. PICK e \in {0, 1} : e = IF v = idx THEN 1 ELSE 0
      OBVIOUS
    <2>3. proposer_priority'[v] = q[v] - e * T
      BY <1>2, <1>11, <2>1, <2>2
    <2>4. q[v] = t * voting_power[v] - s[v] * T + voting_power[v]
      BY <1>8, <1>9
    <2>5. selected'[v] = s[v] + e
      BY <1>6, <2>2
    <2>6. proposer_priority'[v] = (t + 1) * voting_power[v] - (s[v] + e) * T
      BY <1>2, <1>7, <2>1, <2>2, <2>3, <2>4
    <2> QED BY <1>3, <1>4, <1>5, <2>5, <2>6 DEF Owed
  <1>14. ASSUME NEW v \in Validators PROVE proposer_priority'[v] > -T
    <2>1. q[v] \in Int /\ proposer_priority[v] \in Int /\ voting_power[v] \in Nat
      BY <1>1, <1>2
    <2>2. CASE v = idx
      <3>1. proposer_priority'[v] = q[v] + (-T)
        BY <1>11, <2>2
      <3> QED BY <1>1, <1>2, <2>1, <2>2, <3>1
    <2>3. CASE v # idx
      <3>1. proposer_priority'[v] = q[v] + 0 /\ q[v] = proposer_priority[v] + voting_power[v]
        BY <1>9, <1>11, <2>3
      <3>2. proposer_priority[v] > -T
        BY DEF ProposerInv, T
      <3> QED BY <1>2, <2>1, <3>1, <3>2
    <2> QED BY <2>2, <2>3
  <1>15. voting_power[idx] > 0
    <2> SUFFICES ASSUME voting_power[idx] = 0 PROVE FALSE
      BY <1>1, <1>2
    <2>1. s[idx] \in Nat /\ proposer_priority[idx] \in Int
      BY <1>1, <1>2 DEF s
    <2>2. proposer_priority[idx] = t * 0 - s[idx] * T
      BY <1>1, <1>8
    <2>3. s[idx] * T >= 0
      BY <1>2, <2>1
    <2>4. proposer_priority[idx] <= 0
      BY <1>2, <1>7, <2>1, <2>2, <2>3
    <2> QED BY <1>1, <1>9, <2>1, <2>4
  <1>16. TypeOK'
    <2>1. idx \in 0..Count
      BY <1>1, ProposerAssumption DEF Validators
    <2> QED BY <1>2, <1>3, <1>5, <1>11, <2>1 DEF TypeOK
  <1>17. (Total(selected) <= total_voting_power)'
    BY <1>4, <1>5, <1>7
  <1>18. (proposer # 0 => voting_power[proposer] > 0)'
    BY <1>3, <1>15
  <1>19. (\A v \in Validators : proposer_priority[v] > -total_voting_power)'
    BY <1>4, <1>14
  <1>20. (total_voting_power > 0)'
    BY <1>2, <1>4
  <1> QED BY <1>12, <1>13, <1>16, <1>17, <1>18, <1>19, <1>20 DEF ProposerInv

\* Steps keep the invariant; it holds in every state.
THEOREM ProposerInductive == Spec => []ProposerInv
  <1>1. ProposerInv /\ [Next]_vars => ProposerInv'
    <2> SUFFICES ASSUME ProposerInv, [Next]_vars PROVE ProposerInv'
      OBVIOUS
    <2>1. CASE Next
      BY <2>1, SelectionKeepsInv DEF Next
    <2>2. CASE UNCHANGED vars
      BY <2>2 DEF vars, ProposerInv, TypeOK, Owed, total_voting_power
    <2> QED BY <2>1, <2>2
  <1> QED BY <1>1, ProposerInit, PTL DEF Spec

\* Whatever the number of validators and their powers, a priority is what its
\* validator is owed, more than minus the total voting power, and at most
\* what all the others together may be in debt: select_proposer's i64
\* arithmetic does not drift, however many sprints it runs for.
THEOREM ProposerBoundedDebts == Spec => []PrioritiesAreBoundedDebts
  <1>1. ASSUME ProposerInv PROVE PrioritiesAreBoundedDebts
    <2> SUFFICES ASSUME NEW v \in Validators
                 PROVE  /\ proposer_priority[v] = Owed(v)
                        /\ proposer_priority[v] > -total_voting_power
                        /\ proposer_priority[v] <= (Count - 1) * (total_voting_power - 1)
      BY DEF PrioritiesAreBoundedDebts, Owed
    <2> DEFINE T == total_voting_power
               p == proposer_priority
               B == (Count - 1) * (T - 1)
    <2>1. /\ T \in Int /\ T > 0 /\ p \in [Validators -> Int] /\ Total(p) = 0
          /\ p[v] = Owed(v) /\ \A u \in Validators : p[u] > -T
      BY <1>1, SumType DEF ProposerInv, TypeOK, total_voting_power
    <2> HIDE DEF T, p
    <2>2. T - 1 \in Nat /\ \A u \in Validators : p[u] >= -(T - 1)
      BY <2>1
    <2>3. Total(p) >= p[v] - B
      BY <2>1, <2>2, TotalBound
    <2>4. B \in Int
      BY <2>1, ProposerAssumption
    <2> HIDE DEF B
    <2>5. p[v] <= B
      BY <2>1, <2>3, <2>4
    <2> QED BY <2>1, <2>5 DEF T, p, B
  <1> QED BY <1>1, ProposerInductive, PTL

\* Every cycle of as many selections as there is voting power gives each
\* validator exactly its share, whoever wins the ties on the way, and leaves
\* all priorities at zero.
THEOREM ProposerCycleIsProportional == Spec => []CycleIsProportional
  <1>1. ASSUME ProposerInv PROVE CycleIsProportional
    <2> SUFFICES ASSUME CycleComplete
                 PROVE  /\ selected = voting_power
                        /\ \A v \in Validators : proposer_priority[v] = 0
      BY DEF CycleIsProportional
    <2>1. \A v \in Validators : proposer_priority[v] = 0 /\ selected[v] = voting_power[v]
      BY <1>1, CycleEnds
    <2>2. selected \in [Validators -> Nat] /\ voting_power \in [Validators -> Nat]
      BY <1>1 DEF ProposerInv, TypeOK
    <2> QED BY <2>1, <2>2
  <1> QED BY <1>1, ProposerInductive, PTL

\* A validator without voting power is never the proposer, although others'
\* priorities are often below its own.
THEOREM PowerlessNeverPropose ==
    Spec => [](\A v \in Validators : voting_power[v] = 0 => proposer # v)
  <1>1. ASSUME ProposerInv
        PROVE  \A v \in Validators : voting_power[v] = 0 => proposer # v
    <2>1. 0 \notin Validators
      BY ProposerAssumption DEF Validators
    <2> QED BY <1>1, <2>1 DEF ProposerInv
  <1> QED BY <1>1, ProposerInductive, PTL

-----------------------------------------------------------------------------
(***************************************************************************)
(* The seal: what a header says and what its seal hash covers.             *)
(***************************************************************************)

\* What a validator seals is a header without optional fields that extends
\* the parent and whose extra data parse.
LEMMA SealableIs ==
    ASSUME NEW h \in Sealable
    PROVE  /\ IsHeader(h) /\ h.optional = {}
           /\ h.nonce = 0 /\ h.ommers = "empty" /\ ExtendsParent(h)
           /\ parses(h.extra) /\ h.extra >= MIN_EXTRA_DATA_LEN
           /\ h.gas_limit \in Nat /\ h.gas_used \in Nat
  <1>1. h = [f \in Fields |-> h[f]]
    BY DEF Sealable, Fields
  <1>2. IsOption(h.base_fee)
    BY HeaderRulesAssumption DEF Sealable
  <1>3. /\ h.optional = {} /\ h.nonce = 0 /\ h.ommers = "empty"
        /\ parses(h.extra) /\ h.gas_limit \in Nat /\ h.gas_used \in Nat
    BY HeaderRulesAssumption DEF Sealable
  <1>4. ExtendsParent(h)
    BY DEF Sealable, ExtendsParent
  <1>5. h.extra >= MIN_EXTRA_DATA_LEN
    BY <1>3 DEF parses
  <1> QED BY <1>1, <1>2, <1>3, <1>4, <1>5 DEF IsHeader

\* Altering a field leaves a header.
LEMMA AlteredIs ==
    ASSUME NEW h, IsHeader(h), NEW g \in Altered(h)
    PROVE  IsHeader(g)
  <1>1. PICK f \in Fields : \E v \in Values[f] : g = [h EXCEPT ![f] = v]
    BY DEF Altered
  <1>2. PICK v \in Values[f] : g = [h EXCEPT ![f] = v]
    BY <1>1
  <1>3. h = [k \in Fields |-> h[k]]
    BY DEF IsHeader
  <1>4. g = [k \in Fields |-> IF k = f THEN v ELSE h[k]]
    BY <1>2, <1>3
  <1>5. g = [k \in Fields |-> g[k]]
    BY <1>4
  <1>6. "base_fee" \in Fields
    BY DEF Fields
  <1>7. g["base_fee"] = IF "base_fee" = f THEN v ELSE h["base_fee"]
    BY <1>4, <1>6
  <1>8. IsOption(h["base_fee"])
    BY DEF IsHeader
  <1>9. "base_fee" = f => IsOption(v)
    BY <1>2, HeaderRulesAssumption
  <1>10. IsOption(g["base_fee"])
    BY <1>7, <1>8, <1>9
  <1>11. "optional" \in Fields
    BY DEF Fields
  <1>12. g["optional"] = IF "optional" = f THEN v ELSE h["optional"]
    BY <1>4, <1>11
  <1>13. g["optional"] \subseteq OptionalFields
    BY <1>2, <1>12, HeaderRulesAssumption DEF IsHeader
  <1> QED BY <1>5, <1>10, <1>13 DEF IsHeader

\* What the assembler writes down is a header.
LEMMA AssembledIs ==
    ASSUME NEW e, NEW parent_hash, NEW root, NEW gas
    PROVE  IsHeader(assemble_block(e, parent_hash, root, gas))
  BY DEF assemble_block, IsHeader, Fields, IsOption

\* The fixed fields of a header and its base fee in one list.
WithFee(items, base_fee) == items \o EncodedFee(base_fee)

\* The fixed fields are a list of twelve.
LEMMA FixedFieldsIs ==
    ASSUME NEW h
    PROVE  LET p == FixedFields(h, h.extra)
           IN  Len(p) = 12 /\ p \in Seq({p[i] : i \in 1..12})
  <1> DEFINE p == FixedFields(h, h.extra)
             S == {p[i] : i \in 1..12}
  <1>1. DOMAIN p = 1..12 /\ p = [i \in 1..12 |-> p[i]] /\ Len(p) = 12
    BY DEF FixedFields
  <1> HIDE DEF p
  <1>2. p \in [1..12 -> S]
    BY <1>1
  <1>3. p \in Seq(S)
    BY <1>2, SeqDef
  <1> QED BY <1>1, <1>3 DEF p

\* A header without optional fields is hashed as its twelve fixed fields and
\* its base fee.
LEMMA PlainHash ==
    ASSUME NEW h, NEW seal, h.optional = {}
    PROVE  compute_seal_hash(h, seal) = WithFee(FixedFields(h, h.extra), h.base_fee)
  <1> DEFINE p == FixedFields(h, h.extra)
             n == Number(unwrap_or_default(h.base_fee))
             fee == EncodedFee(h.base_fee)
             R == {p[i] : i \in 1..12}
             S == R \cup {n}
  <1>1. /\ Encoded(h, "withdrawals_root") = <<>> /\ Encoded(h, "blob_gas_used") = <<>>
        /\ Encoded(h, "excess_blob_gas") = <<>>
        /\ Encoded(h, "parent_beacon_block_root") = <<>>
        /\ Encoded(h, "requests_hash") = <<>>
    BY DEF Encoded
  <1>2. compute_seal_hash(h, seal)
            = p \o fee \o Encoded(h, "withdrawals_root") \o Encoded(h, "blob_gas_used")
                \o Encoded(h, "excess_blob_gas")
                \o Encoded(h, "parent_beacon_block_root")
                \o Encoded(h, "requests_hash")
    BY Zenon DEF compute_seal_hash
  <1>3. p \in Seq(R)
    BY FixedFieldsIs
  <1> HIDE DEF p, n, R
  <1>4. p \in Seq(S)
    <2>1. R \subseteq S
      OBVIOUS
    <2> HIDE DEF S
    <2> QED BY <1>3, <2>1
  <1>5. fee \in Seq(S)
    <2>1. n \in S
      OBVIOUS
    <2> HIDE DEF S
    <2>2. <<n>> \in Seq(S) /\ <<>> \in Seq(S)
      BY <2>1
    <2> QED BY <2>2 DEF n, EncodedFee
  <1>6. p \o fee \in Seq(S)
    BY <1>4, <1>5
  <1> HIDE DEF S, fee
  <1>7. (p \o fee) \o <<>> = p \o fee
    BY <1>6, ConcatEmptySeq
  <1>8. compute_seal_hash(h, seal) = p \o fee
    BY Zenon, <1>1, <1>2, <1>7
  <1> QED BY <1>8 DEF p, fee, WithFee

\* The items of a list of twelve with something appended to it.
LEMMA Appended ==
    ASSUME NEW S, NEW p \in Seq(S), NEW f \in Seq(S), Len(p) = 12
    PROVE  /\ Len(p \o f) = 12 + Len(f)
           /\ \A i \in 1..12 : (p \o f)[i] = p[i]
           /\ Len(f) = 1 => (p \o f)[13] = f[1]
  <1>1. /\ Len(p \o f) = Len(p) + Len(f)
        /\ \A i \in 1..(Len(p) + Len(f)) :
            (p \o f)[i] = IF i <= Len(p) THEN p[i] ELSE f[i - Len(p)]
    BY ConcatProperties
  <1>2. Len(f) \in Nat
    OBVIOUS
  <1> QED BY <1>1, <1>2

\* A missing base fee and a present one, and two different base fees, are
\* told apart by what they add to a hash.
LEMMA FeesDiffer ==
    ASSUME NEW a, NEW b, NEW S, NEW p \in Seq(S), NEW q \in Seq(S),
           IsOption(a), IsOption(b), Len(p) = 12, Len(q) = 12,
           WithFee(p, a) = WithFee(q, b)
    PROVE  a = b /\ \A i \in 1..12 : p[i] = q[i]
  <1> DEFINE m == Number(unwrap_or_default(a))
             n == Number(unwrap_or_default(b))
             T == S \cup {m, n}
             f == EncodedFee(a)
             g == EncodedFee(b)
  <1>1. p \o f = q \o g
    BY DEF WithFee
  <1>3. p \in Seq(T) /\ q \in Seq(T)
    <2>1. S \subseteq T
      OBVIOUS
    <2> HIDE DEF T
    <2> QED BY <2>1
  <1>4. m \in T /\ n \in T
    OBVIOUS
  <1>2. /\ f = IF a = {} THEN <<>> ELSE <<m>>
        /\ g = IF b = {} THEN <<>> ELSE <<n>>
    BY DEF EncodedFee
  <1> HIDE DEF m, n, T
  <1> HIDE DEF f, g
  <1>5. f \in Seq(T) /\ g \in Seq(T)
    BY <1>2, <1>4
  <1>6. /\ Len(f) = IF a = {} THEN 0 ELSE 1
        /\ Len(g) = IF b = {} THEN 0 ELSE 1
        /\ a # {} => f[1] = m
        /\ b # {} => g[1] = n
    BY <1>2
  <1>7. /\ Len(p \o f) = 12 + Len(f) /\ Len(q \o g) = 12 + Len(g)
        /\ Len(f) = 1 => (p \o f)[13] = f[1]
        /\ Len(g) = 1 => (q \o g)[13] = g[1]
    BY Zenon, <1>3, <1>5, Appended
  <1>8. Len(f) = Len(g)
    BY <1>1, <1>6, <1>7
  <1>9. \A i \in 1..12 : (p \o f)[i] = p[i] /\ (q \o g)[i] = q[i]
    BY Zenon, <1>3, <1>5, Appended
  <1>10. \A i \in 1..12 : p[i] = q[i]
    BY <1>1, <1>9
  <1>11. CASE a = {}
    BY <1>6, <1>8, <1>10, <1>11
  <1>12. CASE a # {}
    <2>1. b # {} /\ Len(f) = 1 /\ Len(g) = 1
      BY <1>6, <1>8, <1>12
    <2>2. (p \o f)[13] = f[1] /\ (q \o g)[13] = g[1]
      BY <1>7, <2>1
    <2>3. m = n
      BY <1>1, <1>6, <1>12, <2>1, <2>2
    <2>4. unwrap_or_default(a) = unwrap_or_default(b)
      BY <2>3 DEF m, n, Number
    <2>5. unwrap_or_default(a) \in a /\ unwrap_or_default(b) \in b
      BY <1>12, <2>1 DEF unwrap_or_default
    <2>6. a = b
      <3>1. \A x : x \in a <=> x \in b
        BY Zenon, <2>4, <2>5 DEF IsOption
      <3> QED BY Zenon, <3>1
    <2> QED BY <1>10, <2>6
  <1> QED BY <1>11, <1>12

\* The seal hash leaves nothing out: of the headers without optional fields,
\* whatever their values, no two have the same hash.
THEOREM SealHashBindsHeader ==
    ASSUME NEW h, NEW g, IsHeader(h), IsHeader(g), h.optional = {}, g.optional = {},
           NEW s, NEW t, compute_seal_hash(h, s) = compute_seal_hash(g, t)
    PROVE  h = g
  <1> DEFINE p == FixedFields(h, h.extra)
             q == FixedFields(g, g.extra)
             a == h.base_fee
             b == g.base_fee
             U == {p[i] : i \in 1..12}
             V == {q[i] : i \in 1..12}
             S == U \cup V
  <1>1. WithFee(p, a) = WithFee(q, b)
    BY Zenon, PlainHash
  <1>2. Len(p) = 12 /\ Len(q) = 12 /\ p \in Seq(U) /\ q \in Seq(V)
    BY FixedFieldsIs
  <1>3. ASSUME \A i \in 1..12 : p[i] = q[i]
        PROVE  /\ h["parent_hash"] = g["parent_hash"] /\ h["ommers"] = g["ommers"]
               /\ h["beneficiary"] = g["beneficiary"]
               /\ h["transactions_root"] = g["transactions_root"]
               /\ h["difficulty"] = g["difficulty"] /\ h["number"] = g["number"]
               /\ h["gas_limit"] = g["gas_limit"] /\ h["gas_used"] = g["gas_used"]
               /\ h["timestamp"] = g["timestamp"] /\ h["extra"] = g["extra"]
               /\ h["mix_hash"] = g["mix_hash"] /\ h["nonce"] = g["nonce"]
    BY <1>3 DEF FixedFields, Root, Number
  <1>4. IsOption(a) /\ IsOption(b)
    BY DEF IsHeader
  <1> HIDE DEF p, q, a, b, U, V
  <1>5. p \in Seq(S) /\ q \in Seq(S)
    <2>1. U \subseteq S /\ V \subseteq S
      OBVIOUS
    <2> HIDE DEF S
    <2> QED BY <1>2, <2>1
  <1> HIDE DEF S
  <1>6. a = b /\ \A i \in 1..12 : p[i] = q[i]
    BY <1>1, <1>2, <1>4, <1>5, FeesDiffer
  <1>7. \A f \in Fields : h[f] = g[f]
    BY <1>3, <1>6 DEF Fields, a, b
  <1> QED BY <1>7 DEF IsHeader

\* The engine waits for its first block with the sealed header before it.
LEMMA RulesInvInit ==
    ASSUME RulesInit
    PROVE  HeaderRulesInv
  <1>1. IsHeader(header)
    BY SealableIs DEF RulesInit
  <1> QED BY <1>1 DEF RulesInit, HeaderRulesInv, Checked, Built

\* A received block is a header with its fields, and none of the engine's.
LEMMA ReceiveStep ==
    ASSUME HeaderRulesInv, Receive
    PROVE  HeaderRulesInv'
  <1>1. PICK h \in Altered(sealed) : header' \in Altered(h)
    BY DEF Receive
  <1>2. IsHeader(sealed)
    BY SealableIs DEF HeaderRulesInv
  <1>3. IsHeader(h)
    BY <1>1, <1>2, AlteredIs
  <1>4. IsHeader(header')
    BY <1>1, <1>3, AlteredIs
  <1>5. env' = {}
    BY DEF Receive, HeaderRulesInv, Built
  <1> QED BY <1>4, <1>5 DEF HeaderRulesInv, Receive, Checked, Built

\* A built block comes with its environment.
LEMMA AssembleStep ==
    ASSUME HeaderRulesInv, Assemble
    PROVE  HeaderRulesInv'
  <1>1. PICK attributes \in Attributes, fee \in Values.base_fee :
            /\ env' = {next_evm_env(merged, Parent, attributes, fee)}
            /\ header' = assemble_block(next_evm_env(merged, Parent, attributes, fee),
                                        Parent.hash, body.transactions, 0)
    BY DEF Assemble
  <1>2. pc' = "received" /\ UNCHANGED <<sealed, body, merged>>
    BY DEF Assemble
  <1>3. IsHeader(header')
    BY <1>1, AssembledIs
  <1>4. Checked'
    BY <1>2 DEF Checked
  <1>5. Built'
    BY Zenon, <1>1, <1>2 DEF Built
  <1> QED BY <1>2, <1>3, <1>4, <1>5 DEF HeaderRulesInv

\* What does not change the block keeps what is known of it.
LEMMA SameBlock ==
    ASSUME UNCHANGED <<sealed, header, body, merged, env>>
    PROVE  /\ (sealed \in Sealable)' <=> sealed \in Sealable
           /\ (body \in Bodies)' <=> body \in Bodies
           /\ IsHeader(header)' <=> IsHeader(header)
           /\ HeaderOk(header)' <=> HeaderOk(header)
           /\ ExtendsParent(header)' <=> ExtendsParent(header)
           /\ BodyOk(header, body)' <=> BodyOk(header, body)
           /\ SealOk(header)' <=> SealOk(header)
  <1>1. Seal' = Seal
    BY DEF Seal
  <1> QED BY <1>1 DEF SealOk

\* An answer of the engine adds to what is known of the block, or rejects it
\* for what is wrong with it.
LEMMA EngineStep ==
    ASSUME HeaderRulesInv, Engine
    PROVE  HeaderRulesInv'
  <1>1. /\ UNCHANGED <<sealed, header, body, merged, env>>
        /\ pc' # "idle"
        /\ \/ pc = "received" /\ pc' = IF HeaderOk(header) THEN "header_ok" ELSE "rejected"
           \/ pc = "header_ok"
              /\ pc' = IF ExtendsParent(header) THEN "parent_ok" ELSE "rejected"
           \/ pc = "parent_ok"
              /\ pc' = IF BodyOk(header, body) THEN "body_ok" ELSE "rejected"
           \/ pc = "body_ok"
              /\ pc' = IF ~body.ommers /\ ~body.withdrawals /\ SealOk(header)
                       THEN "accepted" ELSE "rejected"
    BY DEF Engine, Answer, validate_header, validate_header_against_parent,
           validate_body_against_header, validate_block_pre_execution, SealOk
  <1>2. BodyOk(header, body) => ~body.ommers /\ ~body.withdrawals
    BY DEF BodyOk
  <1>3. Checked'
    BY <1>1, <1>2, SameBlock DEF Checked, HeaderRulesInv
  <1>4. Built'
    BY <1>1 DEF Built, HeaderRulesInv
  <1> QED BY <1>1, <1>3, <1>4, SameBlock DEF HeaderRulesInv

\* The caller takes the answer and the sealed header is before the engine.
LEMMA TakeAnswerStep ==
    ASSUME HeaderRulesInv, TakeAnswer
    PROVE  HeaderRulesInv'
  <1>1. IsHeader(header')
    BY SealableIs DEF TakeAnswer, HeaderRulesInv
  <1> QED BY <1>1 DEF TakeAnswer, HeaderRulesInv, Checked, Built

\* The invariant holds in every state.
THEOREM RulesInductive == RulesSpec => []HeaderRulesInv
  <1>1. HeaderRulesInv /\ [RulesNext]_rules_vars => HeaderRulesInv'
    <2> SUFFICES ASSUME HeaderRulesInv, [RulesNext]_rules_vars PROVE HeaderRulesInv'
      OBVIOUS
    <2>1. CASE Receive
      BY <2>1, ReceiveStep
    <2>2. CASE Assemble
      BY <2>2, AssembleStep
    <2>3. CASE Engine
      BY <2>3, EngineStep
    <2>4. CASE TakeAnswer
      BY <2>4, TakeAnswerStep
    <2>5. CASE UNCHANGED rules_vars
      <3>1. UNCHANGED <<sealed, header, body, merged, env>> /\ pc' = pc
        BY <2>5 DEF rules_vars
      <3>2. Checked'
        BY <3>1, SameBlock DEF Checked, HeaderRulesInv
      <3>3. Built'
        BY <3>1 DEF Built, HeaderRulesInv
      <3> QED BY <3>1, <3>2, <3>3, SameBlock DEF HeaderRulesInv
    <2> QED BY <2>1, <2>2, <2>3, <2>4, <2>5 DEF RulesNext
  <1> QED BY RulesInvInit, <1>1, PTL DEF RulesSpec

\* A seal that recovers to the validator was made for this very header.
LEMMA SealIsOver ==
    ASSUME NEW h, SealOk(h)
    PROVE  compute_seal_hash(h, Seal) = compute_seal_hash(sealed, Blank)
  BY HeaderRulesAssumption DEF SealOk, ecrecover_seal, Seal

\* For all field values, parents and bodies: what the engine accepts under a
\* validator's seal is the header that the validator sealed, with its
\* transactions, and bor_getAuthor names the validator.
THEOREM EngineSealBindsBlock == RulesSpec => []SealBindsBlock
  <1>1. HeaderRulesInv => SealBindsBlock
    <2> SUFFICES ASSUME HeaderRulesInv, pc = "accepted"
                 PROVE  /\ header = sealed
                        /\ body.transactions = sealed.transactions_root
                        /\ get_author(header, Seal) = Validator
      BY DEF SealBindsBlock
    <2>1. HeaderOk(header) /\ BodyOk(header, body) /\ SealOk(header)
      BY DEF HeaderRulesInv, Checked
    <2>2. IsHeader(header) /\ IsHeader(sealed) /\ sealed.optional = {}
      BY SealableIs DEF HeaderRulesInv
    <2>3. header.optional = {}
      BY <2>1, <2>2 DEF HeaderOk, IsHeader
    <2>4. compute_seal_hash(header, Seal) = compute_seal_hash(sealed, Blank)
      BY <2>1, SealIsOver
    <2>5. header = sealed
      BY <2>2, <2>3, <2>4, SealHashBindsHeader
    <2>6. body.transactions = sealed.transactions_root
      BY <2>1, <2>5 DEF BodyOk
    <2>7. get_author(header, Seal) = Validator
      BY <2>1 DEF get_author, SealOk
    <2> QED BY <2>5, <2>6, <2>7
  <1> QED BY RulesInductive, <1>1, PTL

\* For all field values, parents and bodies: the engine never rejects a block
\* that keeps the rules and arrives as it was sealed.  (It does accept some that
\* break them: it reads neither the difficulty nor the mix hash.)
THEOREM EngineSealedBlockPasses == RulesSpec => []SealedBlockPasses
  <1>1. HeaderRulesInv => SealedBlockPasses
    <2> SUFFICES ASSUME HeaderRulesInv, pc = "rejected", header = sealed,
                        BodyOk(sealed, body), KeepsRules(sealed)
                 PROVE  FALSE
      BY DEF SealedBlockPasses
    <2>1. /\ sealed.optional = {} /\ sealed.nonce = 0 /\ sealed.ommers = "empty"
          /\ ExtendsParent(sealed) /\ parses(sealed.extra)
          /\ sealed.extra >= MIN_EXTRA_DATA_LEN
          /\ sealed.gas_limit \in Nat /\ sealed.gas_used \in Nat
      BY SealableIs DEF HeaderRulesInv
    <2>2. HeaderOk(sealed)
      BY <2>1 DEF HeaderOk, KeepsRules
    <2>3. compute_seal_hash(sealed, Seal) = compute_seal_hash(sealed, Blank)
      BY Zenon DEF compute_seal_hash
    <2>4. SealOk(sealed)
      BY <2>1, <2>3 DEF SealOk, ecrecover_seal, Seal
    <2> QED BY <2>1, <2>2, <2>4 DEF HeaderRulesInv, Checked
  <1> QED BY RulesInductive, <1>1, PTL

\* The value of an option that is there.
LEMMA Unwrapped ==
    ASSUME NEW v
    PROVE  unwrap_or_default({v}) = v
  BY DEF unwrap_or_default

\* A block that was built is executed again in the environment in which it
\* was built, from its header and from its payload.
LEMMA BuiltAgain ==
    ASSUME HeaderRulesInv, NEW e \in env
    PROVE  /\ evm_env(merged, header) = e
           /\ evm_env_for_payload(merged, ExecutionData(header, body)) = e
  <1>1. PICK attributes \in Attributes, fee \in Values.base_fee :
            /\ e = next_evm_env(merged, Parent, attributes, fee)
            /\ header = assemble_block(e, Parent.hash, body.transactions, 0)
    BY DEF HeaderRulesInv, Built
  <1> DEFINE basefee == unwrap_or_default({unwrap_or_default(fee)})
  <1>2. e = [number |-> Parent.number + 1,
             beneficiary |-> attributes.suggested_fee_recipient,
             timestamp |-> attributes.timestamp, gas_limit |-> attributes.gas_limit,
             basefee |-> basefee, difficulty |-> 0,
             prevrandao |-> IF merged THEN {attributes.prev_randao} ELSE {}]
    BY <1>1 DEF next_evm_env, for_eth
  <1> HIDE DEF basefee
  <1>3. merged => unwrap_or_default(e.prevrandao) = attributes.prev_randao
    BY <1>2, Unwrapped
  <1>4. ~merged => unwrap_or_default(e.prevrandao) = 0
    BY <1>2 DEF unwrap_or_default
  <1>5. /\ header.number = e.number /\ header.beneficiary = e.beneficiary
        /\ header.timestamp = e.timestamp /\ header.gas_limit = e.gas_limit
        /\ header.difficulty = e.difficulty /\ header.base_fee = {e.basefee}
        /\ header.mix_hash = unwrap_or_default(e.prevrandao)
    BY <1>1 DEF assemble_block
  <1>6. unwrap_or_default(header.base_fee) = e.basefee
    BY <1>5, Unwrapped
  <1>7. evm_env(merged, header) = e
    BY <1>2, <1>3, <1>4, <1>5, <1>6 DEF evm_env, for_eth
  <1>8. evm_env_for_payload(merged, ExecutionData(header, body)) = e
    BY <1>2, <1>3, <1>4, <1>5, <1>6 DEF evm_env_for_payload, ExecutionData
  <1> QED BY <1>7, <1>8

\* For all field values, parents and bodies: a block that was built is executed
\* again in its environment, and the environments that an accepted block has by
\* its header and by its payload are equal after the merge and differ in the
\* difficulty alone before it, which a payload takes from the mix hash.
THEOREM EngineEnvironmentsAgree == RulesSpec => []EnvironmentsAgree
  <1>1. HeaderRulesInv => EnvironmentsAgree
    <2> SUFFICES ASSUME HeaderRulesInv PROVE EnvironmentsAgree
      OBVIOUS
    <2> DEFINE payload == ExecutionData(header, body)
    <2>1. \A built \in env : /\ evm_env(merged, header) = built
                             /\ evm_env_for_payload(merged, payload) = built
      BY BuiltAgain
    <2>2. ASSUME pc = "accepted"
          PROVE  context_for_block(header, body) = context_for_payload(payload)
      <3>1. body.ommers \in BOOLEAN /\ ~body.ommers
        BY <2>2 DEF HeaderRulesInv, Bodies, Checked, BodyOk
      <3> QED BY <3>1 DEF context_for_block, context_for_payload, ExecutionData
    <2>3. evm_env_for_payload(merged, payload) =
            IF merged THEN evm_env(merged, header)
            ELSE [evm_env(merged, header) EXCEPT !.difficulty = header.mix_hash]
      BY DEF evm_env, for_eth, evm_env_for_payload, ExecutionData
    <2> QED BY Zenon, <2>1, <2>2, <2>3 DEF EnvironmentsAgree
  <1> QED BY RulesInductive, <1>1, PTL

=============================================================================
