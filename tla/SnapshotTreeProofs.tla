------------------------- MODULE SnapshotTreeProofs -------------------------
(***************************************************************************)
(* The tree of snapshots, for every validator set, every span size, every  *)
(* number of blocks and every order in which branches and restarts         *)
(* interleave.                                                             *)
(***************************************************************************)
EXTENDS SnapshotTree, NatInduction, SequenceTheorems

-----------------------------------------------------------------------------
(***************************************************************************)
(* Lists of checks.                                                        *)
(***************************************************************************)
Errors ==
    {"NonZeroNonce", "NonZeroMixHash", "NonEmptyOmmers", "InvalidExtraData", "FutureBlock",
     "SealError", "UnauthorizedSigner", "RecentlySigned", "WrongDifficulty",
     "TimestampNotIncreasing", "NonEmptyWithdrawals", "MissingValidatorsAtSpanStart",
     "StateRootMismatch", "ReceiptRootMismatch", "GasUsedMismatch"}

NamedChecks == Errors \X BOOLEAN

\* The first of a set of positions is one of them.
LEMMA MinMember ==
    ASSUME NEW S, S \subseteq Nat, S # {}
    PROVE  Min(S) \in S /\ \A m \in S : Min(S) <= m
  <1>1. \E n \in S : \A m \in S : n <= m
    BY LeastNumber
  <1> QED BY <1>1 DEF Min

\* FirstError says "Ok" exactly when no check finds its error.
LEMMA FirstErrorOk ==
    ASSUME NEW c \in Seq(NamedChecks)
    PROVE  FirstError(c) = "Ok" <=> \A i \in 1..Len(c) : ~c[i][2]
  <1> DEFINE found == {i \in DOMAIN c : c[i][2]}
  <1>1. DOMAIN c = 1..Len(c) /\ found \subseteq Nat
    OBVIOUS
  <1>2. CASE found = {}
    BY <1>1, <1>2 DEF FirstError
  <1>3. CASE found # {}
    <2>1. Min(found) \in found
      BY <1>1, <1>3, MinMember
    <2>2. c[Min(found)] \in NamedChecks
      BY <1>1, <2>1
    <2>3. c[Min(found)][1] # "Ok"
      BY <2>2 DEF NamedChecks, Errors
    <2> QED BY <1>1, <1>3, <2>1, <2>3 DEF FirstError
  <1> QED BY <1>2, <1>3

\* When two lists differ in one check alone, and that check finds its error in
\* the first list whenever it does in the second, then the first list's error
\* is the second's or that of the check.
LEMMA FirstErrorStands ==
    ASSUME NEW c \in Seq(NamedChecks), NEW d \in Seq(NamedChecks), Len(c) = Len(d),
           NEW k \in 1..Len(c),
           \A i \in 1..Len(c) : c[i][1] = d[i][1],
           \A i \in 1..Len(c) : i # k => (c[i][2] <=> d[i][2]),
           d[k][2] => c[k][2]
    PROVE  FirstError(c) \in {FirstError(d), c[k][1]}
  <1> DEFINE found == {i \in DOMAIN c : c[i][2]}
             later == {i \in DOMAIN d : d[i][2]}
  <1>1. /\ DOMAIN c = 1..Len(c) /\ DOMAIN d = 1..Len(c)
        /\ found \subseteq 1..Len(c) /\ later \subseteq found /\ found \subseteq later \cup {k}
        /\ found \subseteq Nat /\ later \subseteq Nat
    OBVIOUS
  <1>2. CASE found = {}
    BY <1>1, <1>2 DEF FirstError
  <1>3. CASE found # {} /\ Min(found) = k
    BY <1>3 DEF FirstError
  <1>4. CASE found # {} /\ Min(found) # k
    <2>1. Min(found) \in found /\ \A m \in found : Min(found) <= m
      BY <1>1, <1>4, MinMember
    <2>2. Min(found) \in later /\ later # {}
      BY <1>1, <1>4, <2>1
    <2>3. Min(later) \in later /\ \A m \in later : Min(later) <= m
      BY <1>1, <2>2, MinMember
    <2>4. Min(later) = Min(found)
      <3>1. Min(later) <= Min(found) /\ Min(found) <= Min(later)
        BY <1>1, <2>1, <2>2, <2>3
      <3>2. Min(later) \in Nat /\ Min(found) \in Nat
        BY <1>1, <2>1, <2>3
      <3> QED BY <3>1, <3>2
    <2>5. FirstError(c) = c[Min(found)][1] /\ FirstError(d) = d[Min(later)][1]
      BY <1>4, <2>2 DEF FirstError
    <2> QED BY <1>1, <2>1, <2>4, <2>5
  <1> QED BY <1>2, <1>3, <1>4

\* The name of an error and a truth value are a check.
LEMMA IsCheck ==
    ASSUME NEW name \in Errors, NEW flag \in BOOLEAN
    PROVE  <<name, flag>> \in NamedChecks
  BY Zenon DEF NamedChecks

\* The lists of the four stages.
LEMMA StageLists ==
    ASSUME NEW block \in Blocks, NEW number, NEW recents, NEW time \in Nat,
           NEW parent_timestamp \in Nat
    PROVE  LET H == HeaderChecks(block, number, Validators, recents, time)
               P == ParentChecks(block, parent_timestamp)
               X == PreExecutionChecks(block, number, span_size, Validators)
               Q == PostExecutionChecks(block)
           IN  /\ H \in Seq(NamedChecks) /\ Len(H) = 9
               /\ P \in Seq(NamedChecks) /\ Len(P) = 1
               /\ X \in Seq(NamedChecks) /\ Len(X) = 5
               /\ Q \in Seq(NamedChecks) /\ Len(Q) = 3
  <1>1. /\ HeaderChecks(block, number, Validators, recents, time) \in Seq(NamedChecks)
        /\ Len(HeaderChecks(block, number, Validators, recents, time)) = 9
    <2> DEFINE e1 == <<"NonZeroNonce", "nonce" \in block.flaws>>
               e2 == <<"NonZeroMixHash", "mix_hash" \in block.flaws>>
               e3 == <<"NonEmptyOmmers", "ommers" \in block.flaws>>
               e4 == <<"InvalidExtraData", "extra_data" \in block.flaws>>
               e5 == <<"FutureBlock", block.timestamp > time + MAX_FUTURE_BLOCK_TIME>>
               e6 == <<"SealError", "seal" \in block.flaws>>
               e7 == <<"UnauthorizedSigner",
                       ~\E i \in DOMAIN Validators : Validators[i] = block.signer>>
               e8 == <<"RecentlySigned",
                       is_recently_signed(recents, block.signer, number, Len(Validators))>>
               e9 == <<"WrongDifficulty",
                       block.difficulty #
                            calculate_difficulty(block.signer, Validators, number)>>
    <2>1. (block.timestamp > time + MAX_FUTURE_BLOCK_TIME) \in BOOLEAN
      BY BlockRulesAssumption DEF Blocks
    <2>2. is_recently_signed(recents, block.signer, number, Len(Validators)) \in BOOLEAN
      BY DEF is_recently_signed
    <2>3. /\ ("nonce" \in block.flaws) \in BOOLEAN
          /\ ("mix_hash" \in block.flaws) \in BOOLEAN
          /\ ("ommers" \in block.flaws) \in BOOLEAN
          /\ ("extra_data" \in block.flaws) \in BOOLEAN
          /\ ("seal" \in block.flaws) \in BOOLEAN
          /\ (~\E i \in DOMAIN Validators : Validators[i] = block.signer) \in BOOLEAN
          /\ (block.difficulty # calculate_difficulty(block.signer, Validators, number)) \in BOOLEAN
      OBVIOUS
    <2>4. /\ "NonZeroNonce" \in Errors /\ "NonZeroMixHash" \in Errors
          /\ "NonEmptyOmmers" \in Errors /\ "InvalidExtraData" \in Errors
          /\ "FutureBlock" \in Errors /\ "SealError" \in Errors
          /\ "UnauthorizedSigner" \in Errors /\ "RecentlySigned" \in Errors
          /\ "WrongDifficulty" \in Errors
      BY DEF Errors
    <2>a. /\ e1 \in NamedChecks /\ e2 \in NamedChecks /\ e3 \in NamedChecks
          /\ e4 \in NamedChecks /\ e6 \in NamedChecks
      BY <2>3, <2>4, IsCheck, Zenon
    <2>b. e5 \in NamedChecks /\ e8 \in NamedChecks
      BY <2>1, <2>2, <2>4, IsCheck, Zenon
    <2>c. e7 \in NamedChecks /\ e9 \in NamedChecks
      BY <2>3, <2>4, IsCheck, Zenon
    <2>5. HeaderChecks(block, number, Validators, recents, time) =
            <<e1, e2, e3, e4, e5, e6, e7, e8, e9>>
      BY Zenon DEF HeaderChecks
    <2> HIDE DEF e1, e2, e3, e4, e5, e6, e7, e8, e9
    <2> QED BY <2>a, <2>b, <2>c, <2>5
  <1>2. /\ ParentChecks(block, parent_timestamp) \in Seq(NamedChecks)
        /\ Len(ParentChecks(block, parent_timestamp)) = 1
    <2>1. (block.timestamp <= parent_timestamp) \in BOOLEAN
      BY DEF Blocks
    <2>2. <<"TimestampNotIncreasing", block.timestamp <= parent_timestamp>> \in NamedChecks
      <3>1. "TimestampNotIncreasing" \in Errors
        BY DEF Errors
      <3> QED BY <2>1, <3>1, IsCheck, Zenon
    <2> QED BY <2>2 DEF ParentChecks
  <1>3. /\ PreExecutionChecks(block, number, span_size, Validators) \in Seq(NamedChecks)
        /\ Len(PreExecutionChecks(block, number, span_size, Validators)) = 5
    <2> DEFINE is_span_start == number > 0 /\ number % span_size = 0
               e1 == <<"NonEmptyOmmers", "ommers" \in block.flaws>>
               e2 == <<"NonEmptyWithdrawals", "withdrawals" \in block.flaws>>
               e3 == <<"InvalidExtraData", is_span_start /\ "extra_data" \in block.flaws>>
               e4 == <<"MissingValidatorsAtSpanStart", is_span_start /\ block.listed = <<>>>>
               e5 == <<"InvalidExtraData", is_span_start /\ block.listed # Validators>>
    <2>1. /\ ("ommers" \in block.flaws) \in BOOLEAN
          /\ ("withdrawals" \in block.flaws) \in BOOLEAN
          /\ (is_span_start /\ "extra_data" \in block.flaws) \in BOOLEAN
          /\ (is_span_start /\ block.listed = <<>>) \in BOOLEAN
          /\ (is_span_start /\ block.listed # Validators) \in BOOLEAN
      OBVIOUS
    <2>2. /\ "NonEmptyOmmers" \in Errors /\ "NonEmptyWithdrawals" \in Errors
          /\ "InvalidExtraData" \in Errors /\ "MissingValidatorsAtSpanStart" \in Errors
      BY DEF Errors
    <2>3. /\ e1 \in NamedChecks /\ e2 \in NamedChecks /\ e3 \in NamedChecks
          /\ e4 \in NamedChecks /\ e5 \in NamedChecks
      BY <2>1, <2>2, IsCheck, Zenon
    <2>4. PreExecutionChecks(block, number, span_size, Validators) = <<e1, e2, e3, e4, e5>>
      BY Zenon DEF PreExecutionChecks
    <2> HIDE DEF e1, e2, e3, e4, e5
    <2> QED BY <2>3, <2>4
  <1>4. PostExecutionChecks(block) \in Seq(NamedChecks) /\ Len(PostExecutionChecks(block)) = 3
    <2> DEFINE e1 == <<"StateRootMismatch", "state_root" \in block.flaws>>
               e2 == <<"ReceiptRootMismatch", "receipt_root" \in block.flaws>>
               e3 == <<"GasUsedMismatch", "gas_used" \in block.flaws>>
    <2>1. /\ ("state_root" \in block.flaws) \in BOOLEAN
          /\ ("receipt_root" \in block.flaws) \in BOOLEAN
          /\ ("gas_used" \in block.flaws) \in BOOLEAN
      OBVIOUS
    <2>2. /\ "StateRootMismatch" \in Errors /\ "ReceiptRootMismatch" \in Errors
          /\ "GasUsedMismatch" \in Errors
      BY DEF Errors
    <2>3. e1 \in NamedChecks /\ e2 \in NamedChecks /\ e3 \in NamedChecks
      BY <2>1, <2>2, IsCheck, Zenon
    <2>4. PostExecutionChecks(block) = <<e1, e2, e3>>
      BY Zenon DEF PostExecutionChecks
    <2> HIDE DEF e1, e2, e3
    <2> QED BY <2>3, <2>4
  <1> QED BY <1>1, <1>2, <1>3, <1>4

-----------------------------------------------------------------------------
(***************************************************************************)
(* What the verdict on a block says.                                       *)
(***************************************************************************)
NoneFound(c) == \A i \in 1..Len(c) : ~c[i][2]

\* Two lists of checks, one after the other.
LEMMA ConcatChecks ==
    ASSUME NEW c \in Seq(NamedChecks), NEW d \in Seq(NamedChecks)
    PROVE  /\ c \o d \in Seq(NamedChecks)
           /\ Len(c \o d) = Len(c) + Len(d)
           /\ \A i \in 1..Len(c) : (c \o d)[i] = c[i]
           /\ \A i \in 1..Len(d) : (c \o d)[Len(c) + i] = d[i]
           /\ NoneFound(c \o d) <=> NoneFound(c) /\ NoneFound(d)
  <1>1. /\ c \o d \in Seq(NamedChecks)
        /\ Len(c \o d) = Len(c) + Len(d)
        /\ \A i \in 1..(Len(c) + Len(d)) :
                (c \o d)[i] = IF i <= Len(c) THEN c[i] ELSE d[i - Len(c)]
    BY ConcatProperties
  <1>2. Len(c) \in Nat /\ Len(d) \in Nat
    BY LenProperties
  <1>3. \A i \in 1..Len(c) : (c \o d)[i] = c[i]
    BY <1>1, <1>2
  <1>4. \A i \in 1..Len(d) : (c \o d)[Len(c) + i] = d[i]
    <2> SUFFICES ASSUME NEW i \in 1..Len(d) PROVE (c \o d)[Len(c) + i] = d[i]
      OBVIOUS
    <2>1. Len(c) + i \in 1..(Len(c) + Len(d)) /\ ~(Len(c) + i <= Len(c)) /\ (Len(c) + i) - Len(c) = i
      BY <1>2
    <2> QED BY <1>1, <2>1
  <1>5. ASSUME NoneFound(c \o d) PROVE NoneFound(c) /\ NoneFound(d)
    <2>1. \A i \in 1..Len(c) : i \in 1..Len(c \o d)
      BY <1>1, <1>2
    <2>2. \A i \in 1..Len(d) : Len(c) + i \in 1..Len(c \o d)
      BY <1>1, <1>2
    <2> QED BY <1>3, <1>4, <1>5, <2>1, <2>2 DEF NoneFound
  <1>6. ASSUME NoneFound(c), NoneFound(d) PROVE NoneFound(c \o d)
    <2> SUFFICES ASSUME NEW i \in 1..Len(c \o d) PROVE ~(c \o d)[i][2]
      BY DEF NoneFound
    <2>1. CASE i <= Len(c)
      BY <1>1, <1>2, <1>6, <2>1 DEF NoneFound
    <2>2. CASE ~(i <= Len(c))
      <3>1. i - Len(c) \in 1..Len(d) /\ i \in 1..(Len(c) + Len(d))
        BY <1>1, <1>2, <2>2
      <3> QED BY <1>1, <1>6, <2>2, <3>1 DEF NoneFound
    <2> QED BY <2>1, <2>2
  <1> QED BY <1>1, <1>3, <1>4, <1>5, <1>6

\* What the four stages ask of a block.
Passes(block, parent_timestamp, number, recents, time) ==
    /\ block.flaws = {}
    /\ block.timestamp <= time + MAX_FUTURE_BLOCK_TIME
    /\ IsValidator(block.signer)
    /\ ~is_recently_signed(recents, block.signer, number, Len(Validators))
    /\ block.difficulty = calculate_difficulty(block.signer, Validators, number)
    /\ parent_timestamp < block.timestamp
    /\ number > 0 /\ number % span_size = 0 => block.listed = Validators

\* No stage finds an error in a block exactly when the block passes.
LEMMA StagesPass ==
    ASSUME NEW block \in Blocks, NEW number \in Nat, NEW recents, NEW time \in Nat,
           NEW parent_timestamp \in Nat
    PROVE  /\ NoneFound(HeaderChecks(block, number, Validators, recents, time))
           /\ NoneFound(ParentChecks(block, parent_timestamp))
           /\ NoneFound(PreExecutionChecks(block, number, span_size, Validators))
           /\ NoneFound(PostExecutionChecks(block))
           <=> Passes(block, parent_timestamp, number, recents, time)
  <1> DEFINE H == HeaderChecks(block, number, Validators, recents, time)
             P == ParentChecks(block, parent_timestamp)
             X == PreExecutionChecks(block, number, span_size, Validators)
             Q == PostExecutionChecks(block)
  <1>0. Len(H) = 9 /\ Len(P) = 1 /\ Len(X) = 5 /\ Len(Q) = 3
    BY StageLists
  <1>1. NoneFound(H) <=>
            /\ "nonce" \notin block.flaws /\ "mix_hash" \notin block.flaws
            /\ "ommers" \notin block.flaws /\ "extra_data" \notin block.flaws
            /\ ~(block.timestamp > time + MAX_FUTURE_BLOCK_TIME)
            /\ "seal" \notin block.flaws
            /\ \E i \in DOMAIN Validators : Validators[i] = block.signer
            /\ ~is_recently_signed(recents, block.signer, number, Len(Validators))
            /\ block.difficulty = calculate_difficulty(block.signer, Validators, number)
    <2>1. NoneFound(H) <=> /\ ~H[1][2] /\ ~H[2][2] /\ ~H[3][2] /\ ~H[4][2] /\ ~H[5][2]
                           /\ ~H[6][2] /\ ~H[7][2] /\ ~H[8][2] /\ ~H[9][2]
      <3> HIDE DEF H
      <3>1. 1..9 = {1, 2, 3, 4, 5, 6, 7, 8, 9}
        OBVIOUS
      <3> QED BY <1>0, <3>1 DEF NoneFound
    <2> QED BY <2>1 DEF HeaderChecks
  <1>2. NoneFound(P) <=> ~(block.timestamp <= parent_timestamp)
    <2>1. NoneFound(P) <=> ~P[1][2]
      BY <1>0 DEF NoneFound
    <2> QED BY <2>1 DEF ParentChecks
  <1>3. NoneFound(X) <=>
            /\ "ommers" \notin block.flaws /\ "withdrawals" \notin block.flaws
            /\ number > 0 /\ number % span_size = 0 =>
                    /\ "extra_data" \notin block.flaws
                    /\ block.listed # <<>>
                    /\ block.listed = Validators
    <2>1. NoneFound(X) <=> ~X[1][2] /\ ~X[2][2] /\ ~X[3][2] /\ ~X[4][2] /\ ~X[5][2]
      <3> HIDE DEF X
      <3>1. 1..5 = {1, 2, 3, 4, 5}
        OBVIOUS
      <3> QED BY <1>0, <3>1 DEF NoneFound
    <2> QED BY <2>1 DEF PreExecutionChecks
  <1>4. NoneFound(Q) <=>
            /\ "state_root" \notin block.flaws /\ "receipt_root" \notin block.flaws
            /\ "gas_used" \notin block.flaws
    <2>1. NoneFound(Q) <=> ~Q[1][2] /\ ~Q[2][2] /\ ~Q[3][2]
      <3> HIDE DEF Q
      <3>1. 1..3 = {1, 2, 3}
        OBVIOUS
      <3> QED BY <1>0, <3>1 DEF NoneFound
    <2> QED BY <2>1 DEF PostExecutionChecks
  <1> HIDE DEF H, P, X, Q
  <1>5. Validators # <<>> /\ DOMAIN Validators = 1..Len(Validators)
    BY SnapshotTreeAssumption
  <1>6. /\ block.timestamp \in Nat /\ time + MAX_FUTURE_BLOCK_TIME \in Nat
        /\ block.flaws \subseteq Flaws
    BY BlockRulesAssumption DEF Blocks
  <1>7. block.flaws = {} <=>
            /\ "nonce" \notin block.flaws /\ "mix_hash" \notin block.flaws
            /\ "ommers" \notin block.flaws /\ "extra_data" \notin block.flaws
            /\ "seal" \notin block.flaws /\ "withdrawals" \notin block.flaws
            /\ "state_root" \notin block.flaws /\ "receipt_root" \notin block.flaws
            /\ "gas_used" \notin block.flaws
    BY <1>6 DEF Flaws
  <1>8. NoneFound(H) /\ NoneFound(P) /\ NoneFound(X) /\ NoneFound(Q)
            <=> Passes(block, parent_timestamp, number, recents, time)
    BY <1>1, <1>2, <1>3, <1>4, <1>5, <1>6, <1>7 DEF Passes, IsValidator
  <1> QED BY <1>8 DEF H, P, X, Q

\* A block is accepted exactly when it passes.
LEMMA VerdictOk ==
    ASSUME NEW block \in Blocks, NEW parent, Timestamp(parent) \in Nat, NEW snap,
           snap.number \in Nat, NEW time \in Nat
    PROVE  Verdict(block, parent, snap, time) = "Ok"
            <=> Passes(block, Timestamp(parent), snap.number + 1, snap.recents, time)
  <1> DEFINE number == snap.number + 1
             H == HeaderChecks(block, number, Validators, snap.recents, time)
             P == ParentChecks(block, Timestamp(parent))
             X == PreExecutionChecks(block, number, span_size, Validators)
             Q == PostExecutionChecks(block)
  <1>1. /\ H \in Seq(NamedChecks) /\ P \in Seq(NamedChecks)
        /\ X \in Seq(NamedChecks) /\ Q \in Seq(NamedChecks)
    BY StageLists
  <1>2. NoneFound(H) /\ NoneFound(P) /\ NoneFound(X) /\ NoneFound(Q)
            <=> Passes(block, Timestamp(parent), number, snap.recents, time)
    <2>1. number \in Nat
      OBVIOUS
    <2> HIDE DEF number
    <2> QED BY <2>1, StagesPass
  <1>3. Verdict(block, parent, snap, time) = FirstError(H \o P \o X \o Q)
    BY DEF Verdict
  <1> HIDE DEF H, P, X, Q
  <1>4. H \o P \in Seq(NamedChecks) /\ (NoneFound(H \o P) <=> NoneFound(H) /\ NoneFound(P))
    BY <1>1, ConcatChecks
  <1>5. /\ H \o P \o X \in Seq(NamedChecks)
        /\ NoneFound(H \o P \o X) <=> NoneFound(H \o P) /\ NoneFound(X)
    BY <1>1, <1>4, ConcatChecks
  <1>6. /\ H \o P \o X \o Q \in Seq(NamedChecks)
        /\ NoneFound(H \o P \o X \o Q) <=> NoneFound(H \o P \o X) /\ NoneFound(Q)
    BY <1>1, <1>5, ConcatChecks
  <1>7. FirstError(H \o P \o X \o Q) = "Ok" <=> NoneFound(H \o P \o X \o Q)
    BY <1>6, FirstErrorOk DEF NoneFound
  <1> QED BY <1>2, <1>3, <1>4, <1>5, <1>6, <1>7

\* Two lists of checks that differ in the fifth alone, where the first finds
\* the error of the second.
DifferAtFifth(c, d) ==
    /\ c \in Seq(NamedChecks) /\ d \in Seq(NamedChecks)
    /\ Len(c) = Len(d) /\ 5 \in 1..Len(c) /\ c[5][1] = "FutureBlock"
    /\ \A i \in 1..Len(c) : c[i][1] = d[i][1]
    /\ \A i \in 1..Len(c) : i # 5 => (c[i][2] <=> d[i][2])
    /\ d[5][2] => c[5][2]

\* They differ in the fifth alone when the same checks follow.
LEMMA DifferConcat ==
    ASSUME NEW c, NEW d, DifferAtFifth(c, d), NEW e \in Seq(NamedChecks)
    PROVE  DifferAtFifth(c \o e, d \o e)
  <1>1. c \in Seq(NamedChecks) /\ d \in Seq(NamedChecks) /\ Len(c) = Len(d) /\ 5 \in 1..Len(c)
    BY DEF DifferAtFifth
  <1>2. /\ c \o e \in Seq(NamedChecks) /\ Len(c \o e) = Len(c) + Len(e)
        /\ \A i \in 1..Len(c) : (c \o e)[i] = c[i]
        /\ \A i \in 1..Len(e) : (c \o e)[Len(c) + i] = e[i]
    BY <1>1, ConcatChecks
  <1>3. /\ d \o e \in Seq(NamedChecks) /\ Len(d \o e) = Len(c) + Len(e)
        /\ \A i \in 1..Len(c) : (d \o e)[i] = d[i]
        /\ \A i \in 1..Len(e) : (d \o e)[Len(c) + i] = e[i]
    BY <1>1, ConcatChecks
  <1>4. Len(c) \in Nat /\ Len(e) \in Nat
    BY <1>1, LenProperties
  <1>5. ASSUME NEW i \in 1..(Len(c) + Len(e)), ~(i \in 1..Len(c))
        PROVE  (c \o e)[i] = (d \o e)[i] /\ i # 5
    <2>1. i - Len(c) \in 1..Len(e) /\ Len(c) + (i - Len(c)) = i
      BY <1>4, <1>5
    <2> QED BY <1>1, <1>2, <1>3, <1>5, <2>1
  <1>6. 5 \in 1..(Len(c) + Len(e))
    BY <1>1, <1>4
  <1> QED BY <1>1, <1>2, <1>3, <1>5, <1>6 DEF DifferAtFifth

\* As the clock goes on, a verdict changes only from "FutureBlock".
LEMMA VerdictStands ==
    ASSUME NEW block \in Blocks, NEW parent, Timestamp(parent) \in Nat, NEW snap,
           NEW time \in Nat, NEW later \in Nat, time <= later
    PROVE  Verdict(block, parent, snap, time) \in
                {Verdict(block, parent, snap, later), "FutureBlock"}
  <1> DEFINE number == snap.number + 1
             H == HeaderChecks(block, number, Validators, snap.recents, time)
             L == HeaderChecks(block, number, Validators, snap.recents, later)
             P == ParentChecks(block, Timestamp(parent))
             X == PreExecutionChecks(block, number, span_size, Validators)
             Q == PostExecutionChecks(block)
  <1>1. /\ H \in Seq(NamedChecks) /\ Len(H) = 9
        /\ P \in Seq(NamedChecks) /\ X \in Seq(NamedChecks) /\ Q \in Seq(NamedChecks)
    BY StageLists
  <1>2. L \in Seq(NamedChecks) /\ Len(L) = 9
    BY StageLists
  <1>3. DifferAtFifth(H, L)
    <2>1. /\ H[1] = L[1] /\ H[2] = L[2] /\ H[3] = L[3] /\ H[4] = L[4]
          /\ H[6] = L[6] /\ H[7] = L[7] /\ H[8] = L[8] /\ H[9] = L[9]
      BY DEF HeaderChecks
    <2>2. /\ H[5][1] = "FutureBlock" /\ L[5][1] = "FutureBlock"
          /\ H[5][2] <=> block.timestamp > time + MAX_FUTURE_BLOCK_TIME
          /\ L[5][2] <=> block.timestamp > later + MAX_FUTURE_BLOCK_TIME
      BY DEF HeaderChecks
    <2>3. block.timestamp > later + MAX_FUTURE_BLOCK_TIME
            => block.timestamp > time + MAX_FUTURE_BLOCK_TIME
      BY BlockRulesAssumption DEF Blocks
    <2> HIDE DEF H, L
    <2>4. 1..9 = {1, 2, 3, 4, 5, 6, 7, 8, 9}
      OBVIOUS
    <2> QED BY <1>1, <1>2, <2>1, <2>2, <2>3, <2>4 DEF DifferAtFifth
  <1>4. /\ Verdict(block, parent, snap, time) = FirstError(H \o P \o X \o Q)
        /\ Verdict(block, parent, snap, later) = FirstError(L \o P \o X \o Q)
    BY DEF Verdict
  <1> HIDE DEF H, L, P, X, Q
  <1>5. DifferAtFifth(H \o P, L \o P)
    BY <1>1, <1>3, DifferConcat
  <1>6. DifferAtFifth(H \o P \o X, L \o P \o X)
    BY <1>1, <1>5, DifferConcat
  <1>7. DifferAtFifth(H \o P \o X \o Q, L \o P \o X \o Q)
    BY <1>1, <1>6, DifferConcat
  <1> DEFINE c == H \o P \o X \o Q
             d == L \o P \o X \o Q
  <1>8. DifferAtFifth(c, d)
    BY <1>7
  <1> HIDE DEF c, d
  <1>9. FirstError(c) \in {FirstError(d), c[5][1]}
    BY <1>8, FirstErrorStands DEF DifferAtFifth
  <1>10. c[5][1] = "FutureBlock"
    BY <1>8 DEF DifferAtFifth
  <1> QED BY <1>4, <1>9, <1>10 DEF c, d

-----------------------------------------------------------------------------
(***************************************************************************)
(* Snapshots.                                                              *)
(***************************************************************************)

\* The window is a number of at least one block, and there are validators.
LEMMA Sizes ==
    /\ Len(Validators) \in Nat \ {0}
    /\ Window(Len(Validators)) \in Nat \ {0}
    /\ Validators \in Seq(Signers)
  BY SnapshotTreeAssumption, LenProperties DEF Window

\* A map is made up again from its entries.
LEMMA FromEntriesOfMap ==
    ASSUME NEW D, NEW rec, rec = [b \in D |-> rec[b]]
    PROVE  FromEntries(Entries(rec)) = rec
  <1> DEFINE pairs == Entries(rec)
  <1>1. DOMAIN rec = D
    OBVIOUS
  <1>2. pairs = {<<b, rec[b]>> : b \in D}
    BY <1>1 DEF Entries
  <1>3. \A e \in pairs : e[1] \in D /\ e[2] = rec[e[1]]
    BY <1>2
  <1>4. \A b \in D : \E e \in pairs : e[1] = b
    <2> SUFFICES ASSUME NEW b \in D PROVE \E e \in pairs : e[1] = b
      OBVIOUS
    <2>1. <<b, rec[b]>> \in pairs /\ <<b, rec[b]>>[1] = b
      BY <1>2
    <2> QED BY <2>1, Zenon
  <1> HIDE DEF pairs
  <1>5. {e[1] : e \in pairs} = D
    BY <1>3, <1>4
  <1>6. \A b \in D : (CHOOSE e \in pairs : e[1] = b)[2] = rec[b]
    BY <1>3, <1>4
  <1>7. [b \in D |-> (CHOOSE e \in pairs : e[1] = b)[2]] = [b \in D |-> rec[b]]
    BY <1>6
  <1> QED BY <1>5, <1>7 DEF FromEntries, pairs

\* Decoding gives back the snapshot that was encoded.
LEMMA SnapshotDecodes ==
    ASSUME NEW branch
    PROVE  decode(encode(SnapshotOf(branch))) = SnapshotOf(branch)
  <1> DEFINE number == Len(branch)
             D == TailOf(Len(branch))
             rec == [n \in D |-> branch[n].signer]
  <1>1. SnapshotOf(branch) = [number |-> number, hash |-> <<>>, recents |-> rec]
    BY DEF SnapshotOf
  <1>2. rec = [b \in D |-> rec[b]]
    OBVIOUS
  <1> HIDE DEF rec, number, D
  <1>3. FromEntries(Entries(rec)) = rec
    BY <1>2, FromEntriesOfMap
  <1>4. encode([number |-> number, hash |-> <<>>, recents |-> rec]) =
            [number |-> number, hash |-> <<>>, recents |-> Entries(rec)]
    BY DEF encode
  <1>5. decode([number |-> number, hash |-> <<>>, recents |-> Entries(rec)]) =
            [number |-> number, hash |-> <<>>, recents |-> FromEntries(Entries(rec))]
    BY DEF decode
  <1> QED BY <1>1, <1>3, <1>4, <1>5

\* The numbers of the last blocks of a branch, and of the branch with one more
\* block.
LEMMA TailGrows ==
    ASSUME NEW n \in Nat
    PROVE  /\ TailOf(n) \subseteq 1..n
           /\ TailOf(n + 1) =
                {m \in TailOf(n) \cup {n + 1} :
                    m >= SaturatingSub(n + 1, Window(Len(Validators)))}
  BY Sizes DEF TailOf, SaturatingSub

\* apply takes the snapshot of a branch to that of the branch one block longer.
LEMMA ApplyExtends ==
    ASSUME NEW branch \in Seq(Blocks), NEW block \in Blocks
    PROVE  apply(SnapshotOf(branch), Len(branch) + 1, block.signer)
            = SnapshotOf(Append(branch, block))
  <1> DEFINE n == Len(branch)
             longer == Append(branch, block)
             rec == [m \in TailOf(n) |-> branch[m].signer]
             added == add_signer(rec, n + 1, block.signer)
             w == Window(Len(Validators))
  <1>1. /\ n \in Nat /\ longer \in Seq(Blocks) /\ Len(longer) = n + 1
        /\ longer[n + 1] = block /\ \A m \in 1..n : longer[m] = branch[m]
    BY AppendProperties, LenProperties
  <1>2. /\ DOMAIN added = TailOf(n) \cup {n + 1}
        /\ \A m \in DOMAIN added : added[m] = longer[m].signer
    <2>1. TailOf(n) \subseteq 1..n
      BY <1>1, TailGrows
    <2>2. DOMAIN rec = TailOf(n) /\ \A m \in TailOf(n) : rec[m] = branch[m].signer
      OBVIOUS
    <2> HIDE DEF rec, n, longer
    <2> QED BY <1>1, <2>1, <2>2 DEF add_signer
  <1>3. prune(added, n + 1, Len(Validators)) = [m \in TailOf(n + 1) |-> longer[m].signer]
    <2>1. TailOf(n + 1) = {m \in DOMAIN added : m >= SaturatingSub(n + 1, w)}
      BY <1>1, <1>2, TailGrows
    <2>2. \A m \in TailOf(n + 1) : added[m] = longer[m].signer
      BY <1>2, <2>1
    <2> HIDE DEF added, n, longer, w
    <2>3. prune(added, n + 1, Len(Validators)) = [m \in TailOf(n + 1) |-> added[m]]
      BY <2>1 DEF prune, w
    <2> QED BY <2>2, <2>3
  <1>4. apply(SnapshotOf(branch), n + 1, block.signer) =
            [number |-> n + 1, hash |-> <<>>, recents |-> prune(added, n + 1, Len(Validators))]
    <2>1. SnapshotOf(branch) = [number |-> n, hash |-> <<>>, recents |-> rec]
      BY DEF SnapshotOf
    <2> HIDE DEF rec, n
    <2>2. apply([number |-> n, hash |-> <<>>, recents |-> rec], n + 1, block.signer) =
            [number |-> n + 1, hash |-> <<>>, recents |-> prune(added, n + 1, Len(Validators))]
      BY DEF apply
    <2> QED BY <2>1, <2>2
  <1>5. SnapshotOf(longer) =
            [number |-> n + 1, hash |-> <<>>, recents |-> [m \in TailOf(n + 1) |-> longer[m].signer]]
    BY <1>1 DEF SnapshotOf
  <1> QED BY <1>3, <1>4, <1>5

-----------------------------------------------------------------------------
(***************************************************************************)
(* Difficulties.                                                           *)
(***************************************************************************)

\* The position of the in-turn validator.
LEMMA InTurnPosition ==
    ASSUME NEW number \in Nat
    PROVE  number % Len(Validators) \in 0..(Len(Validators) - 1)
  BY Sizes

\* A validator's difficulty, by its position and the in-turn position: it
\* falls by one with each step behind the in-turn validator, round the circle.
LEMMA DifficultyOfValidator ==
    ASSUME NEW number \in Nat, NEW i \in 0..(Len(Validators) - 1)
    PROVE  LET count == Len(Validators)
               turn == number % count
           IN  calculate_difficulty(Validators[i + 1], Validators, number) =
                    IF i = turn THEN count
                    ELSE IF i > turn THEN count - (i - turn) ELSE turn - i
  <1> DEFINE count == Len(Validators)
             turn == number % count
             signer == Validators[i + 1]
             idx == SignerIndex(signer, Validators)
  <1>1. turn \in 0..(count - 1) /\ count \in Nat \ {0}
    BY InTurnPosition, Sizes
  <1>2. idx = i
    <2> DEFINE Fits(k) == /\ Validators[k + 1] = signer
                          /\ \A j \in 0..(k - 1) : Validators[j + 1] # signer
    <2>1. \A k \in 0..(count - 1) : Validators[k + 1] = signer => k = i
      <3> SUFFICES ASSUME NEW k \in 0..(count - 1), Validators[k + 1] = signer PROVE k = i
        OBVIOUS
      <3>1. k + 1 \in 1..count /\ i + 1 \in 1..count
        BY <1>1
      <3>2. k + 1 = i + 1
        BY <3>1, SnapshotTreeAssumption
      <3> QED BY <3>2
    <2>2. Fits(i)
      <3>1. \A j \in 0..(i - 1) : j \in 0..(count - 1) /\ j # i
        BY <1>1
      <3> QED BY <2>1, <3>1
    <2>3. \A k \in 0..(count - 1) : Fits(k) => k = i
      BY <2>1
    <2>4. idx = CHOOSE k \in 0..(count - 1) : Fits(k)
      BY DEF SignerIndex
    <2> HIDE DEF Fits, idx
    <2> QED BY <2>2, <2>3, <2>4
  <1>3. \E k \in 1..count : Validators[k] = signer
    <2>1. i + 1 \in 1..count
      BY <1>1
    <2> QED BY <2>1
  <1> HIDE DEF idx, turn, signer, count
  <1>4. calculate_difficulty(signer, Validators, number) =
            IF idx = turn THEN diff_inturn(count)
            ELSE diff_noturn(count, Distance(idx, turn, count))
    BY <1>1, <1>3 DEF calculate_difficulty, idx, turn, count
  <1>5. calculate_difficulty(signer, Validators, number) =
            IF i = turn THEN count ELSE IF i > turn THEN count - (i - turn) ELSE turn - i
    <2>1. i \in 0..(count - 1)
      BY DEF count
    <2> QED BY <1>1, <1>2, <1>4, <2>1 DEF diff_inturn, diff_noturn, Distance
  <1> QED BY <1>5 DEF signer, count, turn

\* Any difficulty is a number.
LEMMA DifficultyType ==
    ASSUME NEW signer, NEW number \in Nat
    PROVE  calculate_difficulty(signer, Validators, number) \in Nat
  <1> DEFINE count == Len(Validators)
             turn == number % count
  <1>1. CASE \E k \in 1..count : Validators[k] = signer
    <2>1. PICK k \in 1..count : Validators[k] = signer
      BY <1>1
    <2>2. (k - 1) \in 0..(count - 1) /\ (k - 1) + 1 = k
      BY Sizes
    <2>3. calculate_difficulty(signer, Validators, number) =
            IF k - 1 = turn THEN count
            ELSE IF k - 1 > turn THEN count - ((k - 1) - turn) ELSE turn - (k - 1)
      BY <2>1, <2>2, DifficultyOfValidator
    <2>4. turn \in 0..(count - 1) /\ count \in Nat
      BY InTurnPosition, Sizes
    <2> HIDE DEF count, turn
    <2> QED BY <2>2, <2>3, <2>4
  <1>2. CASE ~\E k \in 1..count : Validators[k] = signer
    BY <1>2 DEF calculate_difficulty
  <1> QED BY <1>1, <1>2

\* Two validators have different difficulties for the same block number, and
\* the in-turn validator's is the greater.
LEMMA DifficultiesDiffer ==
    ASSUME NEW number \in Nat, NEW s, NEW t, IsValidator(s), IsValidator(t), s # t
    PROVE  LET D(v) == calculate_difficulty(v, Validators, number)
           IN  /\ D(s) # D(t)
               /\ is_inturn(s, Validators, number) => D(s) > D(t)
  <1> DEFINE count == Len(Validators)
             turn == number % count
  <1>1. PICK i \in 1..count : Validators[i] = s
    BY DEF IsValidator
  <1>2. PICK j \in 1..count : Validators[j] = t
    BY DEF IsValidator
  <1>3. turn \in 0..(count - 1) /\ count \in Nat \ {0}
    BY InTurnPosition, Sizes
  <1>4. /\ i - 1 \in 0..(count - 1) /\ (i - 1) + 1 = i
        /\ j - 1 \in 0..(count - 1) /\ (j - 1) + 1 = j /\ i # j
    BY <1>1, <1>2, <1>3
  <1>5. calculate_difficulty(s, Validators, number) =
            IF i - 1 = turn THEN count
            ELSE IF i - 1 > turn THEN count - ((i - 1) - turn) ELSE turn - (i - 1)
    BY <1>1, <1>4, DifficultyOfValidator
  <1>6. calculate_difficulty(t, Validators, number) =
            IF j - 1 = turn THEN count
            ELSE IF j - 1 > turn THEN count - ((j - 1) - turn) ELSE turn - (j - 1)
    BY <1>2, <1>4, DifficultyOfValidator
  <1>7. is_inturn(s, Validators, number) => i - 1 = turn
    <2> SUFFICES ASSUME is_inturn(s, Validators, number) PROVE i - 1 = turn
      OBVIOUS
    <2>1. Validators[turn + 1] = s
      BY DEF is_inturn
    <2>2. turn + 1 \in 1..count
      BY <1>3
    <2>3. turn + 1 = i
      BY <1>1, <2>1, <2>2, SnapshotTreeAssumption
    <2> HIDE DEF turn
    <2> QED BY <1>3, <2>3
  <1> HIDE DEF turn, count
  <1> QED BY <1>3, <1>4, <1>5, <1>6, <1>7

-----------------------------------------------------------------------------
(***************************************************************************)
(* The inductive invariant.                                                *)
(***************************************************************************)

\* The timestamp of a branch is a number.
LEMMA TimestampType ==
    ASSUME NEW branch \in Seq(Blocks)
    PROVE  Timestamp(branch) \in Nat
  <1>1. CASE branch = <<>>
    BY <1>1 DEF Timestamp
  <1>2. CASE branch # <<>>
    <2>1. branch[Len(branch)] \in Blocks
      BY <1>2
    <2> QED BY <1>2, <2>1 DEF Timestamp, Blocks
  <1> QED BY <1>1, <1>2

\* What a validator would sign next is a block.
LEMMA NextBlockType ==
    ASSUME NEW branch \in Seq(Blocks), NEW s \in Signers
    PROVE  NextBlock(s, branch) \in Blocks
  <1>1. Timestamp(branch) + 1 \in Nat
    BY TimestampType
  <1>2. Len(branch) + 1 \in Nat
    BY LenProperties
  <1>3. calculate_difficulty(s, Validators, Len(branch) + 1) \in Nat
    BY <1>2, DifficultyType
  <1>4. (IF (Len(branch) + 1) % span_size = 0 THEN Validators ELSE <<>>) \in Seq(Signers)
    BY Sizes
  <1> QED BY <1>1, <1>3, <1>4 DEF NextBlock, Blocks

\* What is offered on a branch is a block.
LEMMA OfferType ==
    ASSUME NEW branch \in Seq(Blocks), NEW block \in Offers(branch)
    PROVE  block \in Blocks
  <1> DEFINE next(s) == NextBlock(s, branch)
  <1>1. \A s \in Signers : next(s) \in Blocks
    BY NextBlockType
  <1>2. \A s \in Signers : next(s).timestamp = Timestamp(branch) + 1
    BY DEF NextBlock
  <1>3. Timestamp(branch) \in Nat
    BY TimestampType
  <1>4. Tail(Validators) \in Seq(Signers)
    BY Sizes, SnapshotTreeAssumption
  <1>5. \E s \in Signers :
            \/ \E wait \in 0..MaxWait : block = [next(s) EXCEPT !.timestamp = @ - 1 + wait]
            \/ block = [next(s) EXCEPT !.difficulty = @ + 1]
            \/ block = [next(s) EXCEPT !.listed = Tail(Validators)]
            \/ \E f \in Flaws : block = [next(s) EXCEPT !.flaws = {f}]
    <2> HIDE DEF next
    <2> QED BY DEF Offers, next
  <1>6. PICK s \in Signers :
            \/ \E wait \in 0..MaxWait : block = [next(s) EXCEPT !.timestamp = @ - 1 + wait]
            \/ block = [next(s) EXCEPT !.difficulty = @ + 1]
            \/ block = [next(s) EXCEPT !.listed = Tail(Validators)]
            \/ \E f \in Flaws : block = [next(s) EXCEPT !.flaws = {f}]
    BY <1>5
  <1> HIDE DEF next
  <1>7. next(s) \in Blocks /\ next(s).timestamp = Timestamp(branch) + 1
    BY <1>1, <1>2
  <1>8. ASSUME NEW wait \in 0..MaxWait, block = [next(s) EXCEPT !.timestamp = @ - 1 + wait]
        PROVE  block \in Blocks
    <2>1. next(s).timestamp - 1 + wait \in Nat
      BY <1>3, <1>7, SnapshotTreeAssumption
    <2> QED BY <1>7, <1>8, <2>1 DEF Blocks
  <1>9. CASE block = [next(s) EXCEPT !.difficulty = @ + 1]
    <2>1. next(s).difficulty + 1 \in Nat
      BY <1>7 DEF Blocks
    <2> QED BY <1>7, <1>9, <2>1 DEF Blocks
  <1>10. CASE block = [next(s) EXCEPT !.listed = Tail(Validators)]
    <2> DEFINE rest == Tail(Validators)
    <2>1. rest \in Seq(Signers) /\ block = [next(s) EXCEPT !.listed = rest]
      BY <1>4, <1>10
    <2> HIDE DEF rest
    <2> QED BY <1>7, <2>1 DEF Blocks
  <1>11. ASSUME NEW f \in Flaws, block = [next(s) EXCEPT !.flaws = {f}]
         PROVE  block \in Blocks
    BY <1>7, <1>11 DEF Blocks
  <1> QED BY <1>6, <1>8, <1>9, <1>10, <1>11

\* A signer that the recent signers of a branch do not name signed none of the
\* last blocks of it, a window of them.
LEMMA NotRecent ==
    ASSUME NEW branch \in Seq(Blocks), NEW signer,
           ~is_recently_signed(SnapshotOf(branch).recents, signer, Len(branch) + 1, Len(Validators)),
           NEW i \in 1..Len(branch), (Len(branch) + 1) - i <= Window(Len(Validators))
    PROVE  branch[i].signer # signer
  <1> DEFINE w == Window(Len(Validators))
             n == Len(branch)
  <1>1. w \in Nat /\ n \in Nat
    BY Sizes, LenProperties
  <1>2. i \in TailOf(n) /\ SaturatingSub(n + 1, w) <= i /\ i < n + 1
    BY <1>1 DEF TailOf, SaturatingSub
  <1>3. /\ DOMAIN SnapshotOf(branch).recents = TailOf(n)
        /\ SnapshotOf(branch).recents[i] = branch[i].signer
    BY <1>2 DEF SnapshotOf
  <1> QED BY <1>2, <1>3 DEF is_recently_signed

\* A block that passes on a sound branch makes a branch whose last block is
\* legal.
LEMMA PassingIsLegal ==
    ASSUME NEW parent \in Seq(Blocks), NEW block \in Blocks, NEW time,
           Passes(block, Timestamp(parent), Len(parent) + 1, SnapshotOf(parent).recents, time)
    PROVE  LastIsLegal(Append(parent, block))
  <1> DEFINE hash == Append(parent, block)
  <1>1. /\ hash \in Seq(Blocks) /\ Len(hash) = Len(parent) + 1 /\ Len(parent) \in Nat
        /\ hash[Len(hash)] = block /\ \A m \in 1..Len(parent) : hash[m] = parent[m]
    BY AppendProperties, LenProperties
  <1> HIDE DEF hash
  <1>2. ASSUME NEW i \in 1..(Len(hash) - 1), Len(hash) - i <= Window(Len(Validators))
        PROVE  hash[i].signer # block.signer
    <2>1. i \in 1..Len(parent) /\ (Len(parent) + 1) - i <= Window(Len(Validators))
      BY <1>1, <1>2
    <2> QED BY <1>1, <2>1, NotRecent DEF Passes
  <1> QED BY <1>1, <1>2 DEF LastIsLegal, Passes, Last, hash

\* The store of a new node is sound.
LEMMA NewStoreSound ==
    /\ DOMAIN NewStore = {<<>>}
    /\ NewStore[<<>>] = encode(SnapshotOf(<<>>))
    /\ <<>> \in Seq(Blocks)
    /\ Len(<<>>) <= Timestamp(<<>>)
    /\ Timestamp(<<>>) = 0
  <1>1. SnapshotOf(<<>>) = NewSnapshot(0, <<>>)
    <2>1. TailOf(0) = {}
      BY DEF TailOf
    <2>2. [n \in {} |-> <<>>[n].signer] = [b \in {} |-> {}]
      OBVIOUS
    <2>3. Len(<<>>) = 0
      OBVIOUS
    <2> QED BY <2>1, <2>2, <2>3 DEF SnapshotOf, NewSnapshot
  <1> QED BY <1>1 DEF NewStore, Timestamp

\* The invariant holds at the start, and again after a restart.
LEMMA NewStoreInv ==
    ASSUME now \in Nat, store = NewStore
    PROVE  TreeInv
  <1>1. ASSUME NEW branch \in DOMAIN store PROVE IsSound(branch)
    <2>1. branch = <<>>
      BY NewStoreSound
    <2>2. Timestamp(branch) <= now + MAX_FUTURE_BLOCK_TIME
      BY <2>1, NewStoreSound, BlockRulesAssumption
    <2> QED BY <2>1, <2>2, NewStoreSound DEF IsSound
  <1> QED BY <1>1 DEF TreeInv

\* In a sound tree the snapshot of a stored block is that of its branch.
LEMMA StoredSnapshot ==
    ASSUME TreeInv, NEW h \in DOMAIN store
    PROVE  /\ h \in Seq(Blocks) /\ Timestamp(h) \in Nat
           /\ get_snapshot(h) = SnapshotOf(h)
           /\ get_snapshot(h).number = Len(h)
           /\ get_snapshot(h).recents = [n \in TailOf(Len(h)) |-> h[n].signer]
  <1>1. h \in Seq(Blocks) /\ store[h] = encode(SnapshotOf(h))
    BY DEF TreeInv, IsSound
  <1>2. get_snapshot(h) = SnapshotOf(h)
    BY <1>1, SnapshotDecodes DEF get_snapshot
  <1> QED BY <1>1, <1>2, TimestampType DEF SnapshotOf

\* An accepted block leaves the tree sound: the new branch is, and the others
\* stay as they are.
LEMMA ImportBlockKeepsInv ==
    ASSUME TreeInv, ImportBlock
    PROVE  TreeInv'
  <1>1. PICK parent \in DOMAIN store : \E block \in Offers(parent) :
            LET hash == Append(parent, block)
                snap == get_snapshot(parent)
            IN  /\ Verdict(block, parent, snap, now) = "Ok"
                /\ put_snapshot(hash, apply(snap, snap.number + 1, block.signer))
                /\ UNCHANGED now
    BY DEF ImportBlock
  <1> DEFINE snap == get_snapshot(parent)
  <1>2. PICK block \in Offers(parent) :
            /\ Verdict(block, parent, snap, now) = "Ok"
            /\ put_snapshot(Append(parent, block), apply(snap, snap.number + 1, block.signer))
            /\ now' = now
    BY <1>1
  <1> DEFINE hash == Append(parent, block)
  <1>3. /\ parent \in Seq(Blocks) /\ Timestamp(parent) \in Nat /\ snap = SnapshotOf(parent)
        /\ snap.number = Len(parent) /\ Len(parent) \in Nat
    BY StoredSnapshot, LenProperties
  <1>4. block \in Blocks /\ now \in Nat /\ Len(parent) <= Timestamp(parent)
    BY <1>3, OfferType DEF TreeInv, IsSound
  <1> HIDE DEF snap
  <1>5. Passes(block, Timestamp(parent), Len(parent) + 1, SnapshotOf(parent).recents, now)
    BY <1>2, <1>3, <1>4, VerdictOk
  <1>6. /\ hash \in Seq(Blocks) /\ Len(hash) = Len(parent) + 1 /\ hash # <<>>
        /\ hash[Len(hash)] = block
    BY <1>3, <1>4, AppendProperties
  <1>7. LastIsLegal(hash)
    BY <1>3, <1>4, <1>5, PassingIsLegal
  <1>8. Timestamp(hash) = block.timestamp
    BY <1>6 DEF Timestamp
  <1>9. Len(hash) <= Timestamp(hash) /\ Timestamp(hash) <= now + MAX_FUTURE_BLOCK_TIME
    <2>1. Timestamp(parent) < block.timestamp /\ block.timestamp <= now + MAX_FUTURE_BLOCK_TIME
      BY <1>5 DEF Passes
    <2>2. block.timestamp \in Nat
      BY <1>4 DEF Blocks
    <2> HIDE DEF hash
    <2> QED BY <1>3, <1>4, <1>6, <1>8, <2>1, <2>2
  <1>10. apply(snap, snap.number + 1, block.signer) = SnapshotOf(hash)
    BY <1>3, <1>4, ApplyExtends
  <1>11. store' = Inserted(store, hash, encode(SnapshotOf(hash)))
    BY <1>2, <1>10 DEF put_snapshot
  <1> HIDE DEF hash
  <1>12. /\ DOMAIN store' = DOMAIN store \cup {hash}
         /\ store'[hash] = encode(SnapshotOf(hash))
         /\ \A h \in DOMAIN store : h # hash => store'[h] = store[h]
    BY <1>11 DEF Inserted
  <1>13. IsSound(hash)'
    BY <1>2, <1>6, <1>7, <1>9, <1>12 DEF IsSound
  <1>14. ASSUME NEW h \in DOMAIN store, h # hash PROVE IsSound(h)'
    BY <1>2, <1>12, <1>14 DEF IsSound, TreeInv
  <1> QED BY <1>2, <1>4, <1>12, <1>13, <1>14 DEF TreeInv

\* Every step keeps the tree sound.
LEMMA StepKeepsTreeInv == TreeInv /\ [Next]_vars => TreeInv'
  <1> SUFFICES ASSUME TreeInv, [Next]_vars PROVE TreeInv'
    OBVIOUS
  <1>1. CASE ImportBlock
    BY <1>1, ImportBlockKeepsInv
  <1>2. CASE Tick
    <2>1. now \in Nat /\ now' = now + 1 /\ store' = store
      BY <1>2 DEF Tick, TreeInv
    <2>2. ASSUME NEW h \in DOMAIN store PROVE IsSound(h)'
      <3>1. IsSound(h) /\ Timestamp(h) \in Nat
        BY StoredSnapshot DEF TreeInv
      <3>2. Timestamp(h) <= now' + MAX_FUTURE_BLOCK_TIME
        BY <2>1, <3>1, BlockRulesAssumption DEF IsSound
      <3> QED BY <2>1, <3>1, <3>2 DEF IsSound
    <2> QED BY <2>1, <2>2 DEF TreeInv
  <1>3. CASE Restart
    <2>1. now' \in Nat /\ store' = NewStore
      BY <1>3 DEF Restart, TreeInv
    <2>2. ASSUME NEW h \in DOMAIN store' PROVE IsSound(h)'
      <3>1. h = <<>>
        BY <2>1, NewStoreSound
      <3>2. Timestamp(h) <= now' + MAX_FUTURE_BLOCK_TIME
        BY <2>1, <3>1, NewStoreSound, BlockRulesAssumption
      <3> QED BY <2>1, <3>1, <3>2, NewStoreSound DEF IsSound
    <2> QED BY <2>1, <2>2 DEF TreeInv
  <1>4. CASE UNCHANGED vars
    <2>1. store' = store /\ now' = now
      BY <1>4 DEF vars
    <2>2. ASSUME NEW h \in DOMAIN store PROVE IsSound(h)'
      BY <2>1 DEF IsSound, TreeInv
    <2> QED BY <2>1, <2>2 DEF TreeInv
  <1> QED BY <1>1, <1>2, <1>3, <1>4 DEF Next

\* The invariant of the tree: whatever branches are offered in whatever order,
\* with however many restarts, every stored snapshot is that of its branch and
\* every stored branch ends in a legal block.
THEOREM TreeInductive == Spec => []TreeInv
  <1>1. Init => TreeInv
    BY NewStoreInv DEF Init
  <1> QED BY <1>1, StepKeepsTreeInv, PTL DEF Spec

\* On no branch do two blocks within the window have the same signer, however
\* the branches' blocks and the restarts of the node interleave.
THEOREM TreeNoDoubleSign == Spec => []NoDoubleSignOnBranch
  <1>1. TreeInv => NoDoubleSignOnBranch
    BY DEF TreeInv, IsSound, LastIsLegal, NoDoubleSignOnBranch, Hashes, Last
  <1> QED BY <1>1, TreeInductive, PTL

\* A stored snapshot is a function of its branch: its recent signers are the
\* signers of the branch's last blocks.
THEOREM TreeRecentsAreBranchTail == Spec => []RecentsAreBranchTail
  <1>1. TreeInv => RecentsAreBranchTail
    <2> SUFFICES ASSUME TreeInv, NEW h \in DOMAIN store
                 PROVE  /\ get_snapshot(h).number = Len(h)
                        /\ DOMAIN get_snapshot(h).recents = TailOf(Len(h))
                        /\ \A n \in DOMAIN get_snapshot(h).recents :
                                get_snapshot(h).recents[n] = h[n].signer
      BY DEF RecentsAreBranchTail, TailOf
    <2> QED BY StoredSnapshot
  <1> QED BY <1>1, TreeInductive, PTL

\* Two validators never compete for a height with headers of equal difficulty,
\* and the in-turn validator's is the greater.
THEOREM TreeSiblingsDiffer == Spec => []SiblingsDiffer
  <1>1. TreeInv => SiblingsDiffer
    <2> SUFFICES ASSUME TreeInv, NEW g \in Hashes, NEW h \in Hashes,
                        Len(g) = Len(h), Last(g).signer # Last(h).signer
                 PROVE  /\ Last(g).difficulty # Last(h).difficulty
                        /\ is_inturn(Last(g).signer, Validators, Len(g))
                                => Last(g).difficulty > Last(h).difficulty
      BY DEF SiblingsDiffer
    <2>1. LastIsLegal(g) /\ LastIsLegal(h) /\ Len(g) \in Nat
      BY LenProperties DEF TreeInv, IsSound, Hashes
    <2> QED BY <2>1, DifficultiesDiffer DEF LastIsLegal
  <1> QED BY <1>1, TreeInductive, PTL

\* No branch outgrows the clock.
THEOREM TreeChainWithinClock == Spec => []ChainWithinClock
  <1>1. TreeInv => ChainWithinClock
    <2> SUFFICES ASSUME TreeInv, NEW h \in DOMAIN store
                 PROVE  Len(h) <= now + MAX_FUTURE_BLOCK_TIME
      BY DEF ChainWithinClock
    <2>1. Len(h) <= Timestamp(h) /\ Timestamp(h) <= now + MAX_FUTURE_BLOCK_TIME
      BY DEF TreeInv, IsSound
    <2>2. Len(h) \in Nat /\ Timestamp(h) \in Nat /\ now + MAX_FUTURE_BLOCK_TIME \in Nat
      <3>1. now \in Nat
        BY DEF TreeInv
      <3>2. h \in Seq(Blocks) /\ Timestamp(h) \in Nat
        BY StoredSnapshot
      <3> QED BY <3>1, <3>2, LenProperties, BlockRulesAssumption
    <2> QED BY <2>1, <2>2
  <1> QED BY <1>1, TreeInductive, PTL

\* Time, other blocks and restarts change no verdict but that a block comes
\* from the future.
THEOREM TreeVerdictsStand == Spec => VerdictsStand
  <1> DEFINE Stands ==
        \A parent \in DOMAIN store \cap DOMAIN store' :
            \A block \in {NextBlock(s, parent) : s \in Signers},
               before \in {get_snapshot(parent)}, after \in {get_snapshot(parent)'} :
                Verdict(block, parent, before, now) \in
                    {Verdict(block, parent, after, now'), "FutureBlock"}
  <1>1. TreeInv /\ TreeInv' /\ [Next]_vars => [Stands]_vars
    <2> SUFFICES ASSUME TreeInv, TreeInv', Next PROVE Stands
      OBVIOUS
    <2>1. now \in Nat /\ now' \in Nat /\ now <= now'
      <3>1. now \in Nat /\ (now' = now \/ now' = now + 1)
        BY DEF TreeInv, Next, ImportBlock, Tick, Restart
      <3> QED BY <3>1
    <2>2. ASSUME NEW parent \in DOMAIN store \cap DOMAIN store', NEW s \in Signers
          PROVE  Verdict(NextBlock(s, parent), parent, get_snapshot(parent), now) \in
                    {Verdict(NextBlock(s, parent), parent, get_snapshot(parent)', now'),
                     "FutureBlock"}
      <3>1. /\ parent \in Seq(Blocks) /\ Timestamp(parent) \in Nat
            /\ get_snapshot(parent) = SnapshotOf(parent)
        BY StoredSnapshot
      <3>2. get_snapshot(parent)' = SnapshotOf(parent)
        <4>1. store'[parent] = encode(SnapshotOf(parent))
          BY DEF TreeInv, IsSound
        <4> QED BY <4>1, SnapshotDecodes DEF get_snapshot
      <3>3. NextBlock(s, parent) \in Blocks
        BY <3>1, NextBlockType
      <3> QED BY <2>1, <3>1, <3>2, <3>3, VerdictStands
    <2> QED BY <2>2
  <1>2. Spec => []TreeInv
    BY TreeInductive
  <1> QED BY <1>1, <1>2, PTL DEF Spec, VerdictsStand

\* With three validators or more, the recent signers of a branch leave one of
\* them free: the window is shorter than the list.
LEMMA OneIsFree ==
    ASSUME Len(Validators) > 2, NEW n \in Nat, NEW recents, DOMAIN recents \subseteq Nat
    PROVE  \E i \in 1..Len(Validators) :
                ~is_recently_signed(recents, Validators[i], n, Len(Validators))
  <1> DEFINE c == Len(Validators)
             start == SaturatingSub(n, Window(c))
             W == {b \in DOMAIN recents : start <= b /\ b < n}
             f == [b \in W |-> recents[b]]
             T == {recents[b] : b \in W}
             g == [i \in 1..c |-> Validators[i]]
  <1>1. c \in Nat /\ c > 2 /\ Window(c) \in Nat /\ Window(c) < c
    BY Sizes DEF Window
  <1>2. start \in Nat /\ start <= n /\ n - start <= Window(c)
    BY <1>1 DEF SaturatingSub
  <1>3. W \in SUBSET (start..(n - 1)) /\ n - 1 \in Int /\ start \in Int
    <2> HIDE DEF start
    <2> QED BY <1>2
  <1>4. /\ IsFiniteSet(start..(n - 1))
        /\ Cardinality(start..(n - 1)) = IF start > n - 1 THEN 0 ELSE n - 1 - start + 1
    BY <1>3, FS_Interval
  <1>5. /\ IsFiniteSet(W) /\ Cardinality(W) <= Cardinality(start..(n - 1))
        /\ Cardinality(W) \in Nat
    BY <1>3, <1>4, FS_Subset, FS_CardinalityType
  <1>6. Cardinality(W) < c
    <2> HIDE DEF c, start, W
    <2> QED BY <1>1, <1>2, <1>4, <1>5
  <1>7. f \in Surjection(W, T)
    BY DEF Surjection
  <1>8. IsFiniteSet(T) /\ Cardinality(T) <= Cardinality(W) /\ Cardinality(T) \in Nat
    <2> HIDE DEF W, f, T
    <2> QED BY <1>5, <1>7, FS_Surjection, FS_CardinalityType
  <1>9. ASSUME \A i \in 1..c : Validators[i] \in T PROVE FALSE
    <2>1. g \in Injection(1..c, T)
      <3>1. g \in [1..c -> T]
        BY <1>9
      <3>2. \A i, j \in 1..c : g[i] = g[j] => i = j
        BY SnapshotTreeAssumption
      <3> HIDE DEF g, T, c
      <3> QED BY <3>1, <3>2 DEF Injection, IsInjective
    <2>2. Cardinality(1..c) = c
      <3> HIDE DEF c
      <3>1. 1 \in Int /\ c \in Int /\ ~(1 > c) /\ c - 1 + 1 = c
        BY <1>1
      <3> QED BY <3>1, FS_Interval
    <2>3. Cardinality(1..c) <= Cardinality(T)
      <3> HIDE DEF g, T, c
      <3> QED BY <1>8, <2>1, FS_Injection
    <2> HIDE DEF c, T, W
    <2> QED BY <1>1, <1>5, <1>6, <1>8, <2>2, <2>3
  <1>10. PICK i \in 1..c : Validators[i] \notin T
    BY <1>9
  <1> QED BY <1>10 DEF is_recently_signed

\* With three validators or more, some validator may extend every stored block
\* as soon as its time has come.
THEOREM TreeEveryBranchGrows ==
    ASSUME Len(Validators) > 2
    PROVE  Spec => []EveryBranchGrows
  <1>1. TreeInv => EveryBranchGrows
    <2> SUFFICES ASSUME TreeInv, NEW h \in DOMAIN store
                 PROVE  \E s \in Signers :
                            Verdict(NextBlock(s, h), h, get_snapshot(h), Timestamp(h) + 1) = "Ok"
      BY DEF EveryBranchGrows
    <2> DEFINE snap == get_snapshot(h)
               number == Len(h) + 1
    <2>1. /\ h \in Seq(Blocks) /\ Timestamp(h) \in Nat /\ snap.number = Len(h)
          /\ DOMAIN snap.recents = TailOf(Len(h)) /\ Len(h) \in Nat
      BY StoredSnapshot, LenProperties
    <2>2. DOMAIN snap.recents \subseteq Nat /\ number \in Nat
      BY <2>1 DEF TailOf
    <2> HIDE DEF snap
    <2>3. PICK i \in 1..Len(Validators) :
                ~is_recently_signed(snap.recents, Validators[i], number, Len(Validators))
      BY <2>2, OneIsFree
    <2> DEFINE s == Validators[i]
               block == NextBlock(s, h)
    <2>4. s \in Signers
      BY Sizes
    <2>5. block \in Blocks
      BY <2>1, <2>4, NextBlockType
    <2>6. /\ block.flaws = {} /\ block.timestamp = Timestamp(h) + 1 /\ block.signer = s
          /\ block.difficulty = calculate_difficulty(s, Validators, number)
          /\ block.listed = IF number % span_size = 0 THEN Validators ELSE <<>>
      BY DEF NextBlock
    <2>7. IsValidator(s)
      BY DEF IsValidator
    <2> HIDE DEF block, s
    <2>8. Timestamp(h) < Timestamp(h) + 1
            /\ Timestamp(h) + 1 <= (Timestamp(h) + 1) + MAX_FUTURE_BLOCK_TIME
      BY <2>1, BlockRulesAssumption
    <2>9. Passes(block, Timestamp(h), number, snap.recents, Timestamp(h) + 1)
      BY <2>3, <2>6, <2>7, <2>8 DEF Passes, s
    <2>10. Verdict(block, h, snap, Timestamp(h) + 1) = "Ok"
      <3>1. Timestamp(h) + 1 \in Nat
        BY <2>1
      <3> QED BY <2>1, <2>5, <2>9, <3>1, VerdictOk
    <2> QED BY <2>4, <2>10 DEF block, snap
  <1> QED BY <1>1, TreeInductive, PTL

-----------------------------------------------------------------------------
(***************************************************************************)
(* Powers of two.                                                          *)
(***************************************************************************)

\* c has the first powers of two.
Doubles(n, c) ==
    /\ c \in [0..n -> Nat]
    /\ c[0] = 1
    /\ \A k \in Nat : k + 1 <= n => c[k + 1] = 2 * c[k]

\* One can double as often as one likes.
LEMMA DoublesExist ==
    ASSUME NEW n \in Nat
    PROVE  \E c : Doubles(n, c)
  <1> DEFINE S == {k \in Nat : \E c : Doubles(k, c)}
  <1>1. 0 \in S
    <2> DEFINE c == [j \in 0..0 |-> 1]
    <2>1. Doubles(0, c)
      BY DEF Doubles
    <2> QED BY <2>1
  <1>2. ASSUME NEW k \in Nat, k \in S PROVE k + 1 \in S
    <2>1. PICK c : Doubles(k, c)
      BY <1>2
    <2> DEFINE d == [j \in 0..(k + 1) |-> IF j <= k THEN c[j] ELSE 2 * c[k]]
    <2>2. c[k] \in Nat
      BY <2>1 DEF Doubles
    <2>3. d \in [0..(k + 1) -> Nat] /\ d[0] = 1
      BY <2>1, <2>2 DEF Doubles
    <2>4. ASSUME NEW j \in Nat, j + 1 <= k + 1 PROVE d[j + 1] = 2 * d[j]
      <3>1. j \in 0..(k + 1) /\ j + 1 \in 0..(k + 1) /\ j <= k
        BY <2>4
      <3>2. CASE j + 1 <= k
        BY <2>1, <3>1, <3>2 DEF Doubles
      <3>3. CASE ~(j + 1 <= k)
        <4>1. j = k
          BY <3>1, <3>3
        <4> QED BY <3>1, <3>3, <4>1
      <3> QED BY <3>2, <3>3
    <2> HIDE DEF d
    <2>5. Doubles(k + 1, d)
      BY <2>3, <2>4 DEF Doubles
    <2> QED BY <2>5
  <1> HIDE DEF S
  <1>3. n \in S
    BY <1>1, <1>2, SetInduction
  <1> QED BY <1>3 DEF S

\* Two such lists agree where they meet.
LEMMA DoublesAgree ==
    ASSUME NEW m \in Nat, NEW n \in Nat, NEW c, NEW d, Doubles(m, c), Doubles(n, d)
    PROVE  \A k \in Nat : k <= m /\ k <= n => c[k] = d[k]
  <1> DEFINE S == {k \in Nat : k <= m /\ k <= n => c[k] = d[k]}
  <1>1. 0 \in S
    BY DEF Doubles
  <1>2. ASSUME NEW k \in Nat, k \in S PROVE k + 1 \in S
    <2> SUFFICES ASSUME k + 1 <= m, k + 1 <= n PROVE c[k + 1] = d[k + 1]
      OBVIOUS
    <2>1. c[k] = d[k]
      BY <1>2
    <2> QED BY <2>1 DEF Doubles
  <1> HIDE DEF S
  <1>3. \A k \in Nat : k \in S
    BY <1>1, <1>2, SetInduction
  <1> QED BY <1>3 DEF S

\* PowerOfTwo is well defined: it doubles.
LEMMA PowersDouble ==
    /\ PowerOfTwo[0] = 1
    /\ \A k \in Nat : PowerOfTwo[k] \in Nat /\ PowerOfTwo[k + 1] = 2 * PowerOfTwo[k]
  <1> DEFINE Body(h) == [k \in Nat |-> IF k = 0 THEN 1 ELSE 2 * h[k - 1]]
             list(n) == CHOOSE c : Doubles(n, c)
             g == [k \in Nat |-> list(k)[k]]
             P == PowerOfTwo
  <1>1. \A n \in Nat : Doubles(n, list(n))
    BY DoublesExist
  <1> HIDE DEF list
  <1>2. g[0] = 1
    BY <1>1 DEF Doubles
  <1>3. ASSUME NEW k \in Nat PROVE g[k + 1] = 2 * g[k] /\ g[k] \in Nat
    <2>1. list(k + 1)[k] = list(k)[k]
      BY <1>1, DoublesAgree
    <2>2. list(k + 1)[k + 1] = 2 * list(k + 1)[k] /\ list(k)[k] \in Nat
      BY <1>1 DEF Doubles
    <2> QED BY <2>1, <2>2
  <1>4. g = Body(g)
    <2>1. ASSUME NEW k \in Nat PROVE g[k] = IF k = 0 THEN 1 ELSE 2 * g[k - 1]
      <3>1. CASE k = 0
        BY <1>2, <3>1
      <3>2. CASE k # 0
        <4>1. k - 1 \in Nat /\ (k - 1) + 1 = k
          BY <3>2
        <4>2. g[(k - 1) + 1] = 2 * g[k - 1]
          BY <1>3, <4>1
        <4> QED BY <3>2, <4>1, <4>2
      <3> QED BY <3>1, <3>2
    <2>2. g = [k \in Nat |-> g[k]]
      OBVIOUS
    <2> HIDE DEF g
    <2> QED BY <2>1, <2>2
  <1>5. P = CHOOSE h : h = Body(h)
    BY DEF PowerOfTwo
  <1>6. P = Body(P)
    <2> HIDE DEF Body, P, g
    <2> QED BY <1>4, <1>5
  <1> HIDE DEF P
  <1>7. P[0] = 1
    BY <1>6
  <1>8. ASSUME NEW k \in Nat PROVE P[k + 1] = 2 * P[k]
    <2>1. k + 1 \in Nat /\ k + 1 # 0 /\ (k + 1) - 1 = k
      OBVIOUS
    <2>2. P[k + 1] = 2 * P[(k + 1) - 1]
      BY <1>6, <2>1
    <2> QED BY <2>1, <2>2
  <1>9. \A k \in Nat : P[k] \in Nat
    <2> DEFINE S == {k \in Nat : P[k] \in Nat}
    <2>1. 0 \in S /\ \A k \in Nat : k \in S => k + 1 \in S
      BY <1>7, <1>8
    <2> HIDE DEF S
    <2>2. \A k \in Nat : k \in S
      BY <2>1, SetInduction
    <2> QED BY <2>2 DEF S
  <1> QED BY <1>7, <1>8, <1>9 DEF P

\* Powers grow: the k-th is greater than k, and than every one before it.
LEMMA PowersGrow ==
    /\ \A k \in Nat : PowerOfTwo[k] > k
    /\ \A j, k \in Nat : j < k => PowerOfTwo[j] < PowerOfTwo[k]
  <1> DEFINE P == PowerOfTwo
             S == {k \in Nat : P[k] > k /\ \A j \in Nat : j < k => P[j] < P[k]}
  <1>0. P[0] = 1 /\ \A k \in Nat : P[k] \in Nat /\ P[k + 1] = 2 * P[k]
    BY PowersDouble
  <1> HIDE DEF P
  <1>1. 0 \in S
    BY <1>0
  <1>2. ASSUME NEW k \in Nat, k \in S PROVE k + 1 \in S
    <2>1. P[k + 1] > P[k] /\ P[k + 1] > k + 1 /\ P[k] \in Nat /\ P[k + 1] \in Nat
      BY <1>0, <1>2
    <2>2. ASSUME NEW j \in Nat, j < k + 1 PROVE P[j] < P[k + 1]
      <3>1. j = k \/ j < k
        BY <2>2
      <3> QED BY <1>0, <1>2, <2>1, <3>1
    <2> QED BY <2>1, <2>2
  <1> HIDE DEF S
  <1>3. \A k \in Nat : k \in S
    BY <1>1, <1>2, SetInduction
  <1> QED BY <1>3 DEF S, P

\* A width fits under the power of two of its height, and the height of a
\* power of two is its exponent.
LEMMA HeightFits ==
    /\ \A n \in Nat : Height(n) \in Nat /\ PowerOfTwo[Height(n)] >= n
    /\ \A k \in Nat : Height(PowerOfTwo[k]) = k
  <1> DEFINE P == PowerOfTwo
             Is(n, k) == P[k] >= n /\ \A j \in 0..(k - 1) : P[j] < n
  <1>0. \A k \in Nat : P[k] \in Nat
    BY PowersDouble
  <1>00. /\ \A k \in Nat : P[k] > k
         /\ \A j, k \in Nat : j < k => P[j] < P[k]
    BY PowersGrow
  <1> HIDE DEF P
  <1>1. ASSUME NEW n \in Nat PROVE \E k \in 0..n : Is(n, k)
    <2> DEFINE S == {k \in Nat : P[k] >= n}
    <2>1. n \in S
      BY <1>0, <1>00
    <2>2. PICK k \in S : \A m \in S : k <= m
      BY <2>1, LeastNumber
    <2>3. k \in 0..n
      BY <2>1, <2>2
    <2>4. ASSUME NEW j \in 0..(k - 1) PROVE P[j] < n
      <3>1. j \in Nat /\ j < k
        BY <2>3
      <3>2. j \notin S
        BY <2>2, <3>1
      <3> QED BY <1>0, <3>1, <3>2
    <2> QED BY <2>2, <2>3, <2>4
  <1>2. ASSUME NEW n \in Nat PROVE Height(n) \in 0..n /\ Is(n, Height(n))
    <2>1. Height(n) = CHOOSE k \in 0..n : Is(n, k)
      BY DEF Height, P
    <2> HIDE DEF Is
    <2> QED BY <1>1, <2>1
  <1>3. ASSUME NEW n \in Nat PROVE Height(n) \in Nat /\ P[Height(n)] >= n
    BY <1>2
  <1>4. ASSUME NEW k \in Nat PROVE Height(P[k]) = k
    <2>1. Height(P[k]) \in Nat /\ Is(P[k], Height(P[k]))
      BY <1>0, <1>2
    <2> DEFINE h == Height(P[k])
    <2> HIDE DEF h
    <2>2. h \in Nat /\ P[h] >= P[k] /\ \A j \in 0..(h - 1) : P[j] < P[k]
      BY <2>1 DEF h
    <2>3. ~(h < k)
      BY <1>0, <1>00, <2>2
    <2>4. ~(k < h)
      <3> SUFFICES ASSUME k < h PROVE FALSE
        OBVIOUS
      <3>1. k \in 0..(h - 1)
        BY <2>2
      <3> QED BY <1>0, <2>2, <3>1
    <2> QED BY <2>2, <2>3, <2>4 DEF h
  <1> QED BY <1>3, <1>4 DEF P

-----------------------------------------------------------------------------
(***************************************************************************)
(* Roots.                                                                  *)
(***************************************************************************)

\* c has the levels of the tree over bottom, up to the n-th.
Levels(bottom, n, c) ==
    /\ c = [k \in 0..n |-> c[k]]
    /\ c[0] = bottom
    /\ \A k \in Nat : k + 1 <= n => c[k + 1] = NextLevel(c[k])

\* Levels can be built one on the other.
LEMMA LevelsExist ==
    ASSUME NEW bottom, NEW n \in Nat
    PROVE  \E c : Levels(bottom, n, c)
  <1> DEFINE S == {k \in Nat : \E c : Levels(bottom, k, c)}
  <1>1. 0 \in S
    <2> DEFINE c == [j \in 0..0 |-> bottom]
    <2>1. Levels(bottom, 0, c)
      BY DEF Levels
    <2> QED BY <2>1
  <1>2. ASSUME NEW k \in Nat, k \in S PROVE k + 1 \in S
    <2>1. PICK c : Levels(bottom, k, c)
      BY <1>2
    <2> DEFINE top == NextLevel(c[k])
               d == [j \in 0..(k + 1) |-> IF j <= k THEN c[j] ELSE top]
    <2> HIDE DEF top
    <2>2. d = [j \in 0..(k + 1) |-> d[j]] /\ d[0] = bottom
      BY <2>1 DEF Levels
    <2>3. ASSUME NEW j \in Nat, j + 1 <= k + 1 PROVE d[j + 1] = NextLevel(d[j])
      <3>1. j \in 0..(k + 1) /\ j + 1 \in 0..(k + 1) /\ j <= k
        BY <2>3
      <3>2. CASE j + 1 <= k
        <4>1. d[j + 1] = c[j + 1] /\ d[j] = c[j]
          BY <3>1, <3>2
        <4>2. c[j + 1] = NextLevel(c[j])
          BY <2>1, <3>2 DEF Levels
        <4> QED BY <4>1, <4>2
      <3>3. CASE ~(j + 1 <= k)
        <4>1. j = k
          BY <3>1, <3>3
        <4>2. d[j + 1] = top /\ d[j] = c[k]
          BY <3>1, <3>3, <4>1
        <4> QED BY <4>2 DEF top
      <3> QED BY <3>2, <3>3
    <2> HIDE DEF d
    <2>4. Levels(bottom, k + 1, d)
      BY <2>2, <2>3 DEF Levels
    <2> QED BY <2>4
  <1> HIDE DEF S
  <1>3. n \in S
    BY <1>1, <1>2, SetInduction
  <1> QED BY <1>3 DEF S

\* The bottom level is as wide as the power of two of its height.
LEMMA PaddedWidth ==
    ASSUME NEW A, NEW hashes \in Seq(A)
    PROVE  LET h == Height(Len(hashes))
           IN  /\ h \in Nat /\ PowerOfTwo[h] \in Nat /\ Len(hashes) <= PowerOfTwo[h]
               /\ DOMAIN Padded(hashes) = 1..PowerOfTwo[h]
               /\ Len(Padded(hashes)) = PowerOfTwo[h]
               /\ Height(Len(Padded(hashes))) = h
  <1> DEFINE h == Height(Len(hashes))
  <1>1. h \in Nat /\ PowerOfTwo[h] \in Nat /\ PowerOfTwo[h] >= Len(hashes)
        /\ Len(hashes) \in Nat
    BY HeightFits, PowersDouble, LenProperties
  <1>2. DOMAIN Padded(hashes) = 1..PowerOfTwo[h] /\ Len(Padded(hashes)) = PowerOfTwo[h]
    BY <1>1 DEF Padded
  <1>3. Height(PowerOfTwo[h]) = h
    BY <1>1, HeightFits
  <1> QED BY <1>1, <1>2, <1>3

\* compute_root_hash is the top of the levels over the padded hashes.
LEMMA RootOfLevels ==
    ASSUME NEW A, NEW hashes \in Seq(A), hashes # <<>>
    PROVE  \E c : /\ Levels(Padded(hashes), Height(Len(hashes)), c)
                  /\ compute_root_hash(hashes) = c[Height(Len(hashes))][1]
  <1> DEFINE bottom == Padded(hashes)
             n == Height(Len(hashes))
             Body(f) == [k \in 0..n |-> IF k = 0 THEN bottom ELSE NextLevel(f[k - 1])]
             c == CHOOSE f : f = Body(f)
  <1>1. n \in Nat /\ Height(Len(bottom)) = n
    BY PaddedWidth
  <1>2. compute_root_hash(hashes) = c[n][1]
    BY <1>1 DEF compute_root_hash
  <1> HIDE DEF bottom, n
  <1>3. PICK g : Levels(bottom, n, g)
    BY <1>1, LevelsExist
  <1>4. g = Body(g)
    <2>1. ASSUME NEW k \in 0..n
          PROVE  g[k] = IF k = 0 THEN bottom ELSE NextLevel(g[k - 1])
      <3>1. CASE k = 0
        BY <1>3, <3>1 DEF Levels
      <3>2. CASE k # 0
        <4>1. k - 1 \in Nat /\ (k - 1) + 1 = k /\ (k - 1) + 1 <= n
          BY <1>1, <3>2
        <4>2. g[(k - 1) + 1] = NextLevel(g[k - 1])
          BY <1>3, <4>1 DEF Levels
        <4> QED BY <3>2, <4>1, <4>2
      <3> QED BY <3>1, <3>2
    <2>2. g = [k \in 0..n |-> g[k]]
      BY <1>3 DEF Levels
    <2> QED BY <2>1, <2>2
  <1>5. c = Body(c)
    <2> HIDE DEF Body
    <2> QED BY <1>4
  <1> HIDE DEF c
  <1>6. c = [k \in 0..n |-> c[k]]
    BY <1>5
  <1>7. c[0] = bottom
    BY <1>1, <1>5
  <1>8. ASSUME NEW k \in Nat, k + 1 <= n PROVE c[k + 1] = NextLevel(c[k])
    <2>1. k + 1 \in 0..n /\ k + 1 # 0 /\ (k + 1) - 1 = k
      BY <1>1, <1>8
    <2>2. c[k + 1] = NextLevel(c[(k + 1) - 1])
      BY <1>5, <2>1
    <2> QED BY <2>1, <2>2
  <1>9. Levels(bottom, n, c)
    BY <1>6, <1>7, <1>8 DEF Levels
  <1> QED BY <1>2, <1>9 DEF bottom, n

\* A level over one of twice the width has a width of its own.
LEMMA HalfWidth ==
    ASSUME NEW level, NEW w \in Nat, Len(level) = 2 * w
    PROVE  /\ Len(level) \div 2 = w
           /\ DOMAIN NextLevel(level) = 1..w
           /\ Len(NextLevel(level)) = w
           /\ \A i \in 1..w : NextLevel(level)[i] = keccak256(level[2 * i - 1], level[2 * i])
  <1> DEFINE half == Len(level) \div 2
             pair(i) == keccak256(level[2 * i - 1], level[2 * i])
  <1>1. (2 * w) \div 2 = w
    OBVIOUS
  <1>2. half = w
    BY <1>1
  <1>3. NextLevel(level) = [i \in 1..half |-> pair(i)]
    BY DEF NextLevel
  <1> HIDE DEF half, pair
  <1>4. NextLevel(level) = [i \in 1..w |-> pair(i)]
    BY <1>2, <1>3
  <1>5. Len([i \in 1..w |-> pair(i)]) = w
    OBVIOUS
  <1> QED BY <1>2, <1>4, <1>5 DEF half, pair

\* Every level is half as wide as the one below.
LEMMA LevelWidth ==
    ASSUME NEW bottom, NEW n \in Nat, NEW c, Levels(bottom, n, c),
           DOMAIN bottom = 1..PowerOfTwo[n], Len(bottom) = PowerOfTwo[n]
    PROVE  \A k \in Nat : k <= n => Len(c[k]) = PowerOfTwo[n - k]
  <1> DEFINE P == PowerOfTwo
             S == {k \in Nat : k <= n => Len(c[k]) = P[n - k]}
  <1>0. \A k \in Nat : P[k] \in Nat /\ P[k + 1] = 2 * P[k]
    BY PowersDouble
  <1>1. 0 \in S
    BY DEF Levels
  <1> HIDE DEF P
  <1>2. ASSUME NEW k \in Nat, k \in S PROVE k + 1 \in S
    <2> SUFFICES ASSUME k + 1 <= n PROVE Len(c[k + 1]) = P[n - (k + 1)]
      OBVIOUS
    <2>1. PICK m \in Nat : m = n - (k + 1)
      OBVIOUS
    <2>2. Len(c[k]) = P[m + 1]
      <3>1. k <= n /\ n - k = m + 1
        BY <2>1
      <3> QED BY <1>2, <3>1
    <2>3. Len(c[k]) = 2 * P[m] /\ P[m] \in Nat
      BY <1>0, <2>2
    <2>4. c[k + 1] = NextLevel(c[k])
      BY DEF Levels
    <2>5. Len(c[k + 1]) = P[m]
      BY <2>3, <2>4, HalfWidth
    <2> QED BY <2>1, <2>5
  <1> HIDE DEF S
  <1>3. \A k \in Nat : k \in S
    BY <1>1, <1>2, SetInduction
  <1> QED BY <1>3 DEF S, P

\* Hashes of pairs are equal only for the same pairs.
LEMMA PairsAreBound ==
    ASSUME NEW u, NEW v, NEW x, NEW y, keccak256(u, v) = keccak256(x, y)
    PROVE  u = x /\ v = y
  BY DEF keccak256

\* Trees with the same root agree from the top down as far as both go.
LEMMA TopsBindLevels ==
    ASSUME NEW m \in Nat, NEW n \in Nat, m <= n,
           NEW a, NEW b, NEW c, NEW d, Levels(a, m, c), Levels(b, n, d),
           DOMAIN a = 1..PowerOfTwo[m], Len(a) = PowerOfTwo[m],
           DOMAIN b = 1..PowerOfTwo[n], Len(b) = PowerOfTwo[n],
           c[m][1] = d[n][1]
    PROVE  \A j \in Nat : j <= m => \A i \in 1..PowerOfTwo[j] : c[m - j][i] = d[n - j][i]
  <1> DEFINE P == PowerOfTwo
             S == {j \in Nat : j <= m => \A i \in 1..P[j] : c[m - j][i] = d[n - j][i]}
  <1>0. P[0] = 1 /\ \A k \in Nat : P[k] \in Nat /\ P[k + 1] = 2 * P[k]
    BY PowersDouble
  <1>1. /\ \A k \in Nat : k <= m => Len(c[k]) = P[m - k]
        /\ \A k \in Nat : k <= n => Len(d[k]) = P[n - k]
    BY LevelWidth
  <1> HIDE DEF P
  <1>2. 0 \in S
    <2>1. m - 0 = m /\ n - 0 = n /\ \A i \in 1..P[0] : i = 1
      BY <1>0
    <2> QED BY <2>1
  <1>3. ASSUME NEW j \in Nat, j \in S PROVE j + 1 \in S
    <2> SUFFICES ASSUME j + 1 <= m, NEW i \in 1..P[j + 1]
                 PROVE  c[m - (j + 1)][i] = d[n - (j + 1)][i]
      OBVIOUS
    <2>1. PICK p \in Nat : p = m - (j + 1)
      OBVIOUS
    <2>2. PICK q \in Nat : q = n - (j + 1)
      OBVIOUS
    <2>3. p + 1 = m - j /\ q + 1 = n - j /\ j <= m /\ p + 1 <= m /\ q + 1 <= n
          /\ m - p = j + 1 /\ n - q = j + 1
      BY <2>1, <2>2
    <2>4. \A k \in 1..P[j] : c[p + 1][k] = d[q + 1][k]
      BY <1>3, <2>3
    <2>5. Len(c[p]) = 2 * P[j] /\ Len(d[q]) = 2 * P[j] /\ P[j] \in Nat
      <3>1. p <= m /\ q <= n
        BY <2>3
      <3>2. Len(c[p]) = P[j + 1] /\ Len(d[q]) = P[j + 1]
        BY <1>1, <2>3, <3>1
      <3>3. P[j] \in Nat /\ P[j + 1] = 2 * P[j]
        BY <1>0
      <3> QED BY <3>2, <3>3
    <2>6. c[p + 1] = NextLevel(c[p]) /\ d[q + 1] = NextLevel(d[q])
      BY <2>3 DEF Levels
    <2>7. ASSUME NEW k \in 1..P[j]
          PROVE  c[p][2 * k - 1] = d[q][2 * k - 1] /\ c[p][2 * k] = d[q][2 * k]
      <3>1. c[p + 1][k] = keccak256(c[p][2 * k - 1], c[p][2 * k])
        BY <2>5, <2>6, HalfWidth
      <3>2. d[q + 1][k] = keccak256(d[q][2 * k - 1], d[q][2 * k])
        BY <2>5, <2>6, HalfWidth
      <3> QED BY <2>4, <3>1, <3>2, PairsAreBound
    <2>8. \E k \in 1..P[j] : i = 2 * k - 1 \/ i = 2 * k
      <3>1. i \in 1..(2 * P[j])
        BY <1>0
      <3>2. PICK k \in Int : k = (i + 1) \div 2
        BY <3>1
      <3>3. k \in 1..P[j] /\ (i = 2 * k - 1 \/ i = 2 * k)
        BY <2>5, <3>1, <3>2
      <3> QED BY <3>3
    <2>9. c[p][i] = d[q][i]
      BY <2>7, <2>8
    <2> QED BY <2>1, <2>2, <2>9
  <1> HIDE DEF S
  <1>4. \A j \in Nat : j \in S
    BY <1>2, <1>3, SetInduction
  <1> QED BY <1>4 DEF S, P

\* The hash of a block is neither that of a pair nor the padding.
LEMMA BlocksAreNotNodes ==
    ASSUME NEW b, NEW u, NEW v
    PROVE  [branch |-> b] # keccak256(u, v) /\ [branch |-> b] # ZERO
  BY DEF keccak256, ZERO

BlockHash(hash) == \E b : hash = [branch |-> b]

\* Roots of the same value have trees of the same height: the leftmost leaf of
\* the lower tree would be a node of the higher one.
LEMMA RootsBindHeight ==
    ASSUME NEW A, NEW g \in Seq(A), NEW h \in Seq(A), g # <<>>, h # <<>>,
           \A i \in 1..Len(g) : BlockHash(g[i]),
           compute_root_hash(g) = compute_root_hash(h),
           Height(Len(g)) <= Height(Len(h))
    PROVE  /\ Height(Len(g)) = Height(Len(h))
           /\ \A i \in 1..PowerOfTwo[Height(Len(g))] : Padded(g)[i] = Padded(h)[i]
  <1> DEFINE m == Height(Len(g))
             n == Height(Len(h))
             P == PowerOfTwo
  <1>1. /\ m \in Nat /\ DOMAIN Padded(g) = 1..P[m] /\ Len(Padded(g)) = P[m]
        /\ n \in Nat /\ DOMAIN Padded(h) = 1..P[n] /\ Len(Padded(h)) = P[n]
    BY PaddedWidth
  <1>2. PICK c : Levels(Padded(g), m, c) /\ compute_root_hash(g) = c[m][1]
    BY RootOfLevels
  <1>3. PICK d : Levels(Padded(h), n, d) /\ compute_root_hash(h) = d[n][1]
    BY RootOfLevels
  <1> HIDE DEF m, n
  <1>4. m <= n
    BY DEF m, n
  <1>5. \A j \in Nat : j <= m => \A i \in 1..P[j] : c[m - j][i] = d[n - j][i]
    <2>1. c[m][1] = d[n][1]
      BY <1>2, <1>3
    <2> QED BY <1>1, <1>2, <1>3, <1>4, <2>1, TopsBindLevels
  <1>6. \A i \in 1..P[m] : Padded(g)[i] = d[n - m][i]
    <2>1. m <= m /\ m - m = 0
      BY <1>1
    <2>2. \A i \in 1..P[m] : c[m - m][i] = d[n - m][i]
      BY <1>1, <1>5, <2>1
    <2> QED BY <1>2, <2>1, <2>2 DEF Levels
  <1>7. n = m
    <2> SUFFICES ASSUME m < n PROVE FALSE
      BY <1>1, <1>4
    <2>1. PICK k \in Nat : k = (n - m) - 1
      BY <1>1
    <2>2. k + 1 = n - m /\ k + 1 <= n /\ k <= n /\ n - k = m + 1
      BY <1>1, <2>1
    <2>3. P[m] \in Nat /\ P[m] > 0 /\ P[m + 1] = 2 * P[m]
      <3>1. P[m] \in Nat /\ P[m + 1] = 2 * P[m]
        BY <1>1, PowersDouble
      <3>2. P[m] > m
        BY <1>1, PowersGrow
      <3> QED BY <1>1, <3>1, <3>2
    <2>4. d[k + 1] = NextLevel(d[k]) /\ Len(d[k]) = 2 * P[m]
      <3>1. Len(d[k]) = P[n - k]
        BY <1>1, <1>3, <2>2, LevelWidth
      <3> QED BY <1>3, <2>2, <2>3, <3>1 DEF Levels
    <2>5. 1 \in 1..P[m]
      BY <2>3
    <2>6. d[k + 1][1] = keccak256(d[k][2 * 1 - 1], d[k][2 * 1])
      BY <2>3, <2>4, <2>5, HalfWidth
    <2>7. Padded(g)[1] = d[k + 1][1]
      BY <1>6, <2>2, <2>5
    <2>8. 1 \in 1..Len(g)
      BY LenProperties, EmptySeq
    <2>9. Padded(g)[1] = g[1]
      BY <2>5, <2>8, PaddedWidth DEF Padded, m, P
    <2>10. PICK x : g[1] = [branch |-> x]
      BY <2>8 DEF BlockHash
    <2> QED BY <2>6, <2>7, <2>9, <2>10, BlocksAreNotNodes
  <1>8. \A i \in 1..P[m] : Padded(g)[i] = Padded(h)[i]
    <2>1. n - m = 0
      BY <1>1, <1>7
    <2>2. d[0] = Padded(h)
      BY <1>3 DEF Levels
    <2> QED BY <1>6, <2>1, <2>2
  <1> QED BY <1>7, <1>8 DEF m, n, P

\* A root tells any two lists of block hashes apart, whatever their lengths.
LEMMA RootBindsHashes ==
    ASSUME NEW A, NEW g \in Seq(A), NEW h \in Seq(A), g # <<>>, h # <<>>,
           \A i \in 1..Len(g) : BlockHash(g[i]),
           \A i \in 1..Len(h) : BlockHash(h[i]),
           compute_root_hash(g) = compute_root_hash(h)
    PROVE  g = h
  <1> DEFINE m == Height(Len(g))
             n == Height(Len(h))
             P == PowerOfTwo
  <1>1. /\ m \in Nat /\ P[m] \in Nat /\ Len(g) <= P[m]
        /\ n \in Nat /\ P[n] \in Nat /\ Len(h) <= P[n]
    BY PaddedWidth
  <1>2. m = n /\ \A i \in 1..P[m] : Padded(g)[i] = Padded(h)[i]
    <2>1. CASE m <= n
      BY <2>1, RootsBindHeight
    <2>2. CASE n <= m
      BY <2>2, RootsBindHeight
    <2> HIDE DEF m, n
    <2> QED BY <1>1, <2>1, <2>2
  <1>3. Len(g) \in Nat /\ Len(h) \in Nat
    BY LenProperties
  <1>4. \A i \in 1..P[m] : Padded(g)[i] = IF i <= Len(g) THEN g[i] ELSE ZERO
    BY DEF Padded
  <1>5. \A i \in 1..P[n] : Padded(h)[i] = IF i <= Len(h) THEN h[i] ELSE ZERO
    BY DEF Padded
  <1> HIDE DEF m, n, P
  <1>6. ~(Len(g) < Len(h))
    <2> SUFFICES ASSUME Len(g) < Len(h) PROVE FALSE
      OBVIOUS
    <2>1. PICK i \in 1..Len(h) : i = Len(g) + 1
      BY <1>3
    <2>2. i \in 1..P[m] /\ ~(i <= Len(g)) /\ i <= Len(h)
      BY <1>1, <1>2, <1>3, <2>1
    <2>3. h[i] = ZERO
      BY <1>2, <1>4, <1>5, <2>2
    <2> QED BY <2>3, BlocksAreNotNodes DEF BlockHash
  <1>7. ~(Len(h) < Len(g))
    <2> SUFFICES ASSUME Len(h) < Len(g) PROVE FALSE
      OBVIOUS
    <2>1. PICK i \in 1..Len(g) : i = Len(h) + 1
      BY <1>3
    <2>2. i \in 1..P[m] /\ ~(i <= Len(h)) /\ i <= Len(g)
      BY <1>1, <1>2, <1>3, <2>1
    <2>3. g[i] = ZERO
      BY <1>2, <1>4, <1>5, <2>2
    <2> QED BY <2>3, BlocksAreNotNodes DEF BlockHash
  <1>8. Len(g) = Len(h)
    BY <1>3, <1>6, <1>7
  <1>9. ASSUME NEW i \in 1..Len(g) PROVE g[i] = h[i]
    <2>1. i \in 1..P[m] /\ i <= Len(g) /\ i <= Len(h)
      BY <1>1, <1>3, <1>8
    <2> QED BY <1>2, <1>4, <1>5, <2>1
  <1> QED BY <1>8, <1>9, SeqEqual

IsHashList(r) ==
    /\ DOMAIN r = 1..Len(r) /\ Len(r) \in Nat /\ Len(r) > 0
    /\ r = [i \in 1..Len(r) |-> r[i]]
    /\ \A i \in 1..Len(r) : BlockHash(r[i])

\* The hashes of a range of blocks are a list of block hashes, not empty.
LEMMA RangeIsHashes ==
    ASSUME NEW branch, NEW start \in Nat, NEW end \in Nat, start <= end
    PROVE  IsHashList(BlockHashes(branch, start, end))
  <1> DEFINE n == end - start + 1
             e(i) == [branch |-> SubSeq(branch, 1, start + i - 1)]
             r == BlockHashes(branch, start, end)
  <1>1. n \in Nat /\ n > 0 /\ r = [i \in 1..n |-> e(i)]
    BY DEF BlockHashes
  <1>2. \A i \in 1..n : BlockHash(e(i))
    BY DEF BlockHash
  <1> HIDE DEF n, e, r
  <1>3. Len(r) = n
    BY <1>1
  <1>4. DOMAIN r = 1..n /\ r = [i \in 1..n |-> r[i]] /\ \A i \in 1..n : BlockHash(r[i])
    BY <1>1, <1>2
  <1> QED BY <1>1, <1>3, <1>4 DEF r, IsHashList

\* Two ranges with the same root are the same blocks.
LEMMA RootBindsBlocks ==
    ASSUME NEW g \in Ranges, NEW h \in Ranges, compute_root_hash(g) = compute_root_hash(h)
    PROVE  g = h
  <1> DEFINE A == {g[i] : i \in 1..Len(g)} \cup {h[i] : i \in 1..Len(h)}
  <1>1. ASSUME NEW r \in Ranges PROVE IsHashList(r)
    <2>1. PICK q \in Hashes \X (1..MaxBlock) \X (1..MaxBlock) :
                q[2] <= q[3] /\ r = BlockHashes(q[1], q[2], q[3])
      BY DEF Ranges
    <2>2. q[2] \in Nat /\ q[3] \in Nat
      BY <2>1, SnapshotTreeAssumption
    <2> QED BY <2>1, <2>2, RangeIsHashes
  <1>2. IsHashList(g) /\ IsHashList(h)
    BY <1>1
  <1>3. g \in Seq(A) /\ g # <<>>
    BY <1>2 DEF IsHashList
  <1>4. h \in Seq(A) /\ h # <<>>
    BY <1>2 DEF IsHashList
  <1> HIDE DEF A
  <1> QED BY <1>2, <1>3, <1>4, RootBindsHashes DEF IsHashList

\* There are finitely many ranges of a finite store.
LEMMA RangesFinite ==
    ASSUME IsFiniteSet(DOMAIN store)
    PROVE  IsFiniteSet(Ranges)
  <1> DEFINE N == 1..MaxBlock
             Triples == Hashes \X (N \X N)
             Some == {t \in Triples : t[2][1] <= t[2][2] /\ t[2][2] <= Len(t[1])}
             f == [t \in Some |-> BlockHashes(t[1], t[2][1], t[2][2])]
  <1>1. IsFiniteSet(N)
    BY SnapshotTreeAssumption, FS_Interval
  <1>2. IsFiniteSet(Hashes)
    BY FS_Subset DEF Hashes
  <1>3. IsFiniteSet(N \X N)
    BY <1>1, FS_Product
  <1>4. IsFiniteSet(Triples)
    BY <1>2, <1>3, FS_Product
  <1>5. IsFiniteSet(Some)
    BY <1>4, FS_Subset
  <1>6. ASSUME NEW r \in Ranges PROVE \E t \in Some : r = f[t]
    <2>1. PICK q \in Hashes \X (1..MaxBlock) \X (1..MaxBlock) :
                /\ q[2] <= q[3] /\ q[3] <= Len(q[1])
                /\ r = BlockHashes(q[1], q[2], q[3])
      BY DEF Ranges
    <2>2. <<q[1], <<q[2], q[3]>>>> \in Some
      BY <2>1
    <2> QED BY <2>1, <2>2
  <1>7. ASSUME NEW t \in Some PROVE f[t] \in Ranges
    <2>1. /\ <<t[1], t[2][1], t[2][2]>> \in Hashes \X (1..MaxBlock) \X (1..MaxBlock)
          /\ t[2][1] <= t[2][2] /\ t[2][2] <= Len(t[1])
      OBVIOUS
    <2>2. f[t] = BlockHashes(t[1], t[2][1], t[2][2])
      OBVIOUS
    <2> HIDE DEF f
    <2> QED BY <2>1, <2>2 DEF Ranges
  <1>8. f \in [Some -> Ranges]
    <2>1. f = [t \in Some |-> f[t]]
      OBVIOUS
    <2> HIDE DEF f, Some
    <2> QED BY <1>7, <2>1
  <1> HIDE DEF f, Some
  <1>9. f \in Surjection(Some, Ranges)
    BY <1>6, <1>8 DEF Surjection
  <1> QED BY <1>5, <1>9, FS_Surjection

\* The store is finite: it grows one snapshot at a time.
THEOREM TreeStoreFinite == Spec => []IsFiniteSet(DOMAIN store)
  <1>1. IsFiniteSet(DOMAIN NewStore)
    BY NewStoreSound, FS_Singleton
  <1>2. Init => IsFiniteSet(DOMAIN store)
    BY <1>1 DEF Init
  <1>3. IsFiniteSet(DOMAIN store) /\ [Next]_vars => IsFiniteSet(DOMAIN store)'
    <2> SUFFICES ASSUME IsFiniteSet(DOMAIN store), [Next]_vars
                 PROVE  IsFiniteSet(DOMAIN store')
      OBVIOUS
    <2>1. CASE ImportBlock
      <3>1. PICK hash, data : store' = Inserted(store, hash, data)
        BY <2>1 DEF ImportBlock, put_snapshot
      <3>2. DOMAIN store' = DOMAIN store \cup {hash}
        BY <3>1 DEF Inserted
      <3> QED BY <3>2, FS_AddElement
    <2>2. CASE Tick
      BY <2>2 DEF Tick
    <2>3. CASE Restart
      BY <1>1, <2>3 DEF Restart
    <2>4. CASE UNCHANGED vars
      BY <2>4 DEF vars
    <2> QED BY <2>1, <2>2, <2>3, <2>4 DEF Next
  <1> QED BY <1>2, <1>3, PTL DEF Spec

\* bor_getRootHash binds its range, for ranges of any length: two ranges of
\* stored blocks have the same root only if they are the same blocks.
THEOREM TreeRootBindsRange == Spec => []RootBindsRange
  <1>1. ASSUME IsFiniteSet(DOMAIN store) PROVE RootBindsRange
    <2> DEFINE Roots == {compute_root_hash(hashes) : hashes \in Ranges}
               f == [hashes \in Ranges |-> compute_root_hash(hashes)]
    <2>1. f \in [Ranges -> Roots]
      OBVIOUS
    <2>2. \A r \in Roots : \E hashes \in Ranges : f[hashes] = r
      OBVIOUS
    <2>3. ASSUME NEW g \in Ranges, NEW h \in Ranges, f[g] = f[h] PROVE g = h
      <3>1. compute_root_hash(g) = compute_root_hash(h)
        BY <2>3
      <3> QED BY <3>1, RootBindsBlocks
    <2> HIDE DEF f, Roots
    <2>4. f \in Bijection(Ranges, Roots)
      BY <2>1, <2>2, <2>3 DEF Bijection, Injection, Surjection, IsInjective
    <2>5. ExistsBijection(Ranges, Roots)
      BY <2>4 DEF ExistsBijection
    <2>6. Cardinality(Roots) = Cardinality(Ranges)
      BY <1>1, <2>5, RangesFinite, FS_Bijection
    <2> QED BY <2>6 DEF RootBindsRange, Roots
  <1> QED BY <1>1, TreeStoreFinite, PTL

=============================================================================
