-------------------------- MODULE ChainSpecProofs --------------------------
(***************************************************************************)
(* The chain specification and what depends on it: the handshake, in which *)
(* nodes recognise each other by their networks and Ethereum forks, for    *)
(* all networks, all fork schedules with finitely many forks and all       *)
(* positions of the two nodes on the chain; and Bor's own forks, for every *)
(* block number.                                                           *)
(***************************************************************************)
EXTENDS Handshake, NatInduction

\* The walk along a chain with Bor's forks.
VARIABLES block, sprint_start

Bor == INSTANCE ForkSchedule

-----------------------------------------------------------------------------
(***************************************************************************)
(* Fork ids.                                                               *)
(***************************************************************************)

\* The least of a set of numbers.
LEMMA LeastOf ==
    ASSUME NEW S, S \subseteq Nat, S # {}
    PROVE  Min(S) \in S /\ \A x \in S : Min(S) <= x
  <1>1. \E n \in S : \A m \in S : n <= m
    BY LeastNumber
  <1> QED BY <1>1 DEF Min

\* The greatest of a finite set of numbers.
LEMMA GreatestOf ==
    ASSUME NEW S, S \subseteq Nat, S # {}, IsFiniteSet(S)
    PROVE  Max(S) \in S /\ \A x \in S : Max(S) >= x
  <1>1. PICK N \in Nat : ExistsBijection(1..N, S)
    BY FS_NatBijection
  <1>2. PICK f : f \in Bijection(1..N, S)
    BY <1>1 DEF ExistsBijection
  <1>3. f \in [1..N -> S] /\ \A x \in S : \E i \in 1..N : f[i] = x
    BY <1>2 DEF Bijection, Surjection
  <1>4. N \in Nat \ {0}
    <2>1. PICK x \in S : TRUE
      OBVIOUS
    <2>2. PICK i \in 1..N : f[i] = x
      BY <1>3, <2>1
    <2> QED BY <1>1, <2>2
  <1>5. \A i \in 1..N : f[i] \in Nat
    BY <1>3
  <1>6. PICK m \in 1..N : \A i \in 1..N : f[i] <= f[m]
    BY <1>4, <1>5, GreatestValue
  <1>7. f[m] \in S /\ \A x \in S : f[m] >= x
    BY <1>3, <1>5, <1>6
  <1> QED BY <1>7 DEF Max

\* The fork blocks of a schedule are where its Ethereum rules change: finitely
\* many heights past the genesis block.
LEMMA ForkBlocksAreForks ==
    ASSUME NEW schedule \in Schedules
    PROVE  /\ eth_fork_blocks(schedule) = EthereumForks(schedule)
           /\ eth_fork_blocks(schedule) \subseteq Nat \ {0}
           /\ IsFiniteSet(eth_fork_blocks(schedule))
  <1>1. schedule \subseteq ForkConditions /\ IsFiniteSet(schedule)
    BY HandshakeAssumption
  <1> DEFINE B == eth_fork_blocks(schedule)
             forks == {f \in schedule : f.kind # "Never" /\ f.block > 0}
             g == [f \in forks |-> f.block]
  <1>2. \A f \in schedule : f.kind \in {"Block", "TTD", "Never"} /\ f.block \in Nat
    BY <1>1 DEF ForkConditions
  <1>3. B = {f.block : f \in forks}
    BY <1>2 DEF eth_fork_blocks
  <1>4. B = EthereumForks(schedule)
    BY <1>3 DEF EthereumForks
  <1>5. B \subseteq Nat \ {0}
    BY <1>2, <1>3
  <1>6. IsFiniteSet(forks)
    BY <1>1, FS_Subset
  <1> HIDE DEF B
  <1>7. g \in Surjection(forks, B)
    BY <1>3 DEF Surjection
  <1>8. IsFiniteSet(B)
    BY <1>6, <1>7, FS_Surjection
  <1> QED BY <1>4, <1>5, <1>8 DEF B

\* The next fork is the first block not passed.
LEMMA NextForkIsFirst ==
    ASSUME NEW B, B \subseteq Nat \ {0}, NEW n \in Nat
    PROVE  /\ NextFork(B, n) \in Nat
           /\ NextFork(B, n) = 0 => \A b \in B : b <= n
           /\ NextFork(B, n) # 0 => /\ NextFork(B, n) \in B
                                    /\ NextFork(B, n) > n
                                    /\ \A b \in B : b > n => NextFork(B, n) <= b
  <1> DEFINE later == B \ Passed(B, n)
  <1>1. later \subseteq Nat /\ \A b \in B : b \in later <=> b > n
    <2>1. \A b \in B : b \in Nat /\ (b \in Passed(B, n) <=> b <= n)
      BY DEF Passed
    <2>2. \A b \in B : b \in Nat /\ (~(b <= n) <=> b > n)
      BY <2>1
    <2> QED BY <2>1, <2>2
  <1>2. CASE later = {}
    BY <1>1, <1>2 DEF NextFork
  <1>3. CASE later # {}
    <2>1. NextFork(B, n) = Min(later)
      BY <1>3 DEF NextFork
    <2> HIDE DEF later
    <2>2. Min(later) \in later /\ \A x \in later : Min(later) <= x
      BY <1>1, <1>3, LeastOf
    <2>3. Min(later) \in B
      BY <2>2 DEF later
    <2> QED BY <1>1, <2>1, <2>2, <2>3
  <1> QED BY <1>2, <1>3

\* Nodes with the same Ethereum forks take each other's fork ids, wherever on
\* the chain either of them is.
LEMMA SameForksAccepted ==
    ASSUME NEW s \in Schedules, NEW r \in Schedules, NEW n \in Nat, NEW m \in Nat,
           EthereumForks(s) = EthereumForks(r)
    PROVE  fork_filter_accepts(s, n, compute_fork_id(r, m))
  <1> DEFINE B == eth_fork_blocks(s)
             mine == Passed(B, n)
             theirs == Passed(B, m)
             next == NextFork(B, m)
             id == compute_fork_id(r, m)
  <1>1. B \subseteq Nat \ {0} /\ IsFiniteSet(B) /\ eth_fork_blocks(r) = B
    BY ForkBlocksAreForks
  <1>2. id.hash = theirs /\ id.next = next
    BY <1>1 DEF compute_fork_id
  <1>3. /\ \A b \in B : b \in Nat /\ b > 0
        /\ \A b : b \in mine <=> b \in B /\ b <= n
        /\ \A b : b \in theirs <=> b \in B /\ b <= m
    BY <1>1 DEF Passed
  <1>4. /\ next \in Nat
        /\ next = 0 => \A b \in B : b <= m
        /\ next # 0 => next \in B /\ next > m /\ \A b \in B : b > m => next <= b
    BY <1>1, NextForkIsFirst
  <1> SUFFICES \/ theirs = mine /\ (next = 0 \/ n < next)
               \/ \E fork \in mine : theirs = {b \in mine : b < fork} /\ next = fork
               \/ \E fork \in B \ mine : theirs = Passed(B, fork)
    <2> HIDE DEF id, theirs, next
    <2>1. fork_filter_accepts(s, n, id)
      BY <1>2 DEF fork_filter_accepts
    <2> QED BY <2>1 DEF id
  <1> HIDE DEF id, mine, theirs, next, B
  <1>5. CASE theirs = mine
    <2>1. next # 0 => n < next
      BY <1>3, <1>4, <1>5
    <2> QED BY <1>5, <2>1
  <1>6. CASE theirs # mine /\ m < n
    <2>1. PICK b \in mine : b \notin theirs
      BY <1>3, <1>6
    <2>2. b \in B /\ b > m /\ b <= n /\ b \in Nat
      BY <1>3, <2>1
    <2>3. next # 0
      BY <1>4, <2>2
    <2>4. next \in mine
      BY <1>3, <1>4, <2>2, <2>3
    <2>5. ASSUME NEW c PROVE c \in theirs <=> c \in {d \in mine : d < next}
      <3>1. CASE c \in B
        BY <1>3, <1>4, <1>6, <2>3, <3>1
      <3>2. CASE c \notin B
        BY <1>3, <3>2
      <3> QED BY <3>1, <3>2
    <2>6. theirs = {d \in mine : d < next}
      BY <2>5
    <2> QED BY <2>4, <2>6
  <1>7. CASE theirs # mine /\ n < m
    <2>1. PICK b \in theirs : b \notin mine
      BY <1>3, <1>7
    <2>2. theirs \subseteq Nat /\ theirs \subseteq B /\ theirs # {} /\ IsFiniteSet(theirs)
      BY <1>1, <1>3, <2>1, FS_Subset
    <2>3. PICK fork \in theirs : \A x \in theirs : fork >= x
      BY <2>2, GreatestOf
    <2>4. fork \in B \ mine
      BY <1>3, <2>1, <2>3
    <2>5. ASSUME NEW c PROVE c \in theirs <=> c \in Passed(B, fork)
      <3>1. c \in Passed(B, fork) <=> c \in B /\ c <= fork
        BY DEF Passed
      <3>2. fork \in Nat /\ fork <= m
        BY <1>3, <2>2, <2>3
      <3>3. CASE c \in B
        <4>1. c \in Nat
          BY <1>3, <3>3
        <4> QED BY <1>3, <2>3, <3>1, <3>2, <3>3, <4>1
      <3> QED BY <1>3, <3>1, <3>3
    <2>6. theirs = Passed(B, fork)
      BY <2>5
    <2> QED BY <2>4, <2>6
  <1>8. CASE n = m
    BY <1>5, <1>8 DEF mine, theirs
  <1> QED BY <1>5, <1>6, <1>7, <1>8

\* Nobody turns down the latest fork id of its own schedule.
LEMMA LatestAccepted ==
    ASSUME NEW s \in Schedules, NEW n \in Nat
    PROVE  fork_filter_accepts(s, n, latest_fork_id(s))
  <1> DEFINE B == eth_fork_blocks(s)
             m == IF B = {} THEN 0 ELSE Max(B)
  <1>1. B \subseteq Nat /\ IsFiniteSet(B)
    BY ForkBlocksAreForks
  <1>2. m \in Nat
    BY <1>1, GreatestOf
  <1>3. latest_fork_id(s) = compute_fork_id(s, m)
    BY DEF latest_fork_id
  <1> HIDE DEF m
  <1> QED BY <1>2, <1>3, SameForksAccepted

\* A node that takes the fork id of one ahead of it, or level with it, has
\* passed the same Ethereum forks.
LEMMA AcceptedSharesForks ==
    ASSUME NEW s \in Schedules, NEW r \in Schedules, NEW n \in Nat, NEW m \in Nat, n <= m,
           fork_filter_accepts(s, n, compute_fork_id(r, m))
    PROVE  \A b \in Nat : b <= n => (b \in EthereumForks(s) <=> b \in EthereumForks(r))
  <1> DEFINE B == eth_fork_blocks(s)
             C == eth_fork_blocks(r)
             mine == Passed(B, n)
             theirs == Passed(C, m)
             next == NextFork(C, m)
             id == compute_fork_id(r, m)
  <1>1. /\ B \subseteq Nat \ {0} /\ C \subseteq Nat \ {0}
        /\ B = EthereumForks(s) /\ C = EthereumForks(r)
    BY ForkBlocksAreForks
  <1>2. id.hash = theirs /\ id.next = next
    BY DEF compute_fork_id
  <1>3. \/ theirs = mine
        \/ \E fork \in mine : next = fork
        \/ \E fork \in B \ mine : theirs = Passed(B, fork)
    <2> HIDE DEF theirs, next
    <2> QED BY <1>2 DEF fork_filter_accepts
  <1>4. next \in Nat /\ (next # 0 => next > m)
    BY <1>1, NextForkIsFirst
  <1>5. /\ \A b : b \in mine <=> b \in B /\ b <= n
        /\ \A b : b \in theirs <=> b \in C /\ b <= m
    BY DEF Passed
  <1> HIDE DEF id, mine, theirs, next, B, C
  <1> SUFFICES ASSUME NEW b \in Nat, b <= n PROVE b \in B <=> b \in C
    BY <1>1
  <1>6. CASE theirs = mine
    BY <1>5, <1>6
  <1>7. CASE \E fork \in mine : next = fork
    BY <1>1, <1>4, <1>5, <1>7
  <1>8. CASE \E fork \in B \ mine : theirs = Passed(B, fork)
    <2>1. PICK fork \in B \ mine : theirs = Passed(B, fork)
      BY <1>8
    <2>2. fork \in Nat /\ fork > n
      BY <1>1, <1>5, <2>1
    <2> QED BY <1>1, <1>5, <2>1, <2>2 DEF Passed
  <1> QED BY <1>3, <1>6, <1>7, <1>8

-----------------------------------------------------------------------------
(***************************************************************************)
(* Statuses and messages.                                                  *)
(***************************************************************************)

\* A fork id is a set of blocks and a number.
LEMMA ForkIdType ==
    ASSUME NEW p \in Positions
    PROVE  ForkIdAt(p) \in [hash : SUBSET Nat, next : Nat]
  <1> DEFINE B == eth_fork_blocks(p.schedule)
  <1>1. p.schedule \in Schedules /\ p.head \in Nat
    BY HandshakeAssumption DEF Positions
  <1>2. B \subseteq Nat \ {0}
    BY <1>1, ForkBlocksAreForks
  <1> HIDE DEF B
  <1>3. NextFork(B, p.head) \in Nat /\ Passed(B, p.head) \subseteq Nat
    BY <1>1, <1>2, NextForkIsFirst DEF Passed
  <1> QED BY <1>3 DEF ForkIdAt, compute_fork_id, B

\* The one element of an Option.
LEMMA Unwrapped ==
    /\ \A v, d : unwrap_or({v}, d) = v
    /\ \A d : unwrap_or({}, d) = d
  BY DEF unwrap_or

\* Decoding leaves all but the total difficulty and the range as sent.
LEMMA DecodedFields ==
    ASSUME NEW format, NEW s \in StatusType
    PROVE  LET d == Decode([format |-> format, status |-> s])
           IN  /\ d.version = s.version /\ d.chain = s.chain /\ d.genesis = s.genesis
               /\ d.forkid = s.forkid /\ d.blockhash = s.blockhash
               /\ d.td = IF format = "eth69" THEN {} ELSE s.td
               /\ d.earliest = IF format = "legacy" THEN {} ELSE s.earliest
               /\ d.latest = IF format = "legacy" THEN {} ELSE s.latest
  BY DEF Decode, StatusType

\* Encoding puts zeros for what is unknown, or nothing where there is no room.
LEMMA EncodedFields ==
    ASSUME NEW s \in StatusType, s.td \in {{}, {MaxTd}},
           \/ s.earliest = {} /\ s.latest = {}
           \/ s.earliest = {0} /\ s.latest = {1}
    PROVE  \E t \in StatusType :
              /\ Encode(s) = [format |-> IF s.version = Eth69 THEN "bor69" ELSE "legacy",
                              status |-> t]
              /\ t.version = s.version /\ t.chain = s.chain /\ t.genesis = s.genesis
              /\ t.forkid = s.forkid /\ t.blockhash = s.blockhash
              /\ t.td \in {{0}, {MaxTd}}
              /\ s.version = Eth69 => t.earliest = {0} /\ t.latest \in {{0}, {1}}
              /\ s.version # Eth69 => t.earliest = {} /\ t.latest = {}
  <1> DEFINE td == {unwrap_or(s.td, 0)}
             low == {unwrap_or(s.earliest, 0)}
             high == {unwrap_or(s.latest, 0)}
             new == [s EXCEPT !.td = td, !.earliest = low, !.latest = high]
             old == [s EXCEPT !.td = td, !.earliest = {}, !.latest = {}]
  <1>1. td \in {{0}, {MaxTd}} /\ td \subseteq Nat
    <2>1. unwrap_or(s.td, 0) \in {0, MaxTd}
      <3>1. CASE s.td = {}
        BY <3>1, Unwrapped
      <3>2. CASE s.td = {MaxTd}
        BY <3>2, Unwrapped
      <3> QED BY <3>1, <3>2
    <2> QED BY <2>1, HandshakeAssumption
  <1>2. /\ low = {0} /\ high \in {{0}, {1}}
        /\ low \subseteq Nat /\ high \subseteq Nat
    <2>1. unwrap_or(s.earliest, 0) = 0 /\ unwrap_or(s.latest, 0) \in {0, 1}
      <3>1. CASE s.earliest = {} /\ s.latest = {}
        BY <3>1, Unwrapped
      <3>2. CASE s.earliest = {0} /\ s.latest = {1}
        BY <3>2, Unwrapped
      <3> QED BY <3>1, <3>2
    <2> QED BY <2>1
  <1> HIDE DEF td, low, high
  <1>3. CASE s.version = Eth69
    <2>1. Encode(s) = [format |-> "bor69", status |-> new]
      BY <1>3 DEF Encode, Eth69, td, low, high
    <2>2. new \in StatusType
      BY <1>1, <1>2 DEF StatusType
    <2>3. /\ new.version = s.version /\ new.chain = s.chain /\ new.genesis = s.genesis
          /\ new.forkid = s.forkid /\ new.blockhash = s.blockhash
          /\ new.td = td /\ new.earliest = low /\ new.latest = high
      BY DEF StatusType
    <2> HIDE DEF new
    <2> QED BY <1>1, <1>2, <1>3, <2>1, <2>2, <2>3
  <1>4. CASE s.version # Eth69
    <2>1. s.version = 68
      BY <1>4 DEF StatusType, Eth68
    <2>2. Encode(s) = [format |-> "legacy", status |-> old]
      BY <2>1 DEF Encode, Eth69, td
    <2>3. old \in StatusType
      BY <1>1 DEF StatusType
    <2>4. /\ old.version = s.version /\ old.chain = s.chain /\ old.genesis = s.genesis
          /\ old.forkid = s.forkid /\ old.blockhash = s.blockhash
          /\ old.td = td /\ old.earliest = {} /\ old.latest = {}
      BY DEF StatusType
    <2> HIDE DEF old
    <2> QED BY <1>1, <1>4, <2>2, <2>3, <2>4
  <1> QED BY <1>3, <1>4

\* The other end, and the ends that run this code.
LEMMA TwoEnds ==
    /\ \A e \in Ends : Peer(e) \in Ends /\ Peer(Peer(e)) = e /\ Peer(e) # e
    /\ Ours \subseteq Ends
    /\ ~foreign => Ours = Ends
    /\ foreign => Ours = {1}
  BY DEF Ends, Peer, Ours

\* What one of two nodes of this kind sends is read by the other, and says
\* nothing that could be held against it but its network and its fork id.
LEMMA OwnMessage ==
    ASSUME HandshakeInv, ~foreign, NEW e \in Ends
    PROVE  LET m == Encode(status[Peer(e)])
               d == Decode(m)
           IN  /\ m.format \in Readable(status[e].version)
               /\ m.format # "too_big"
               /\ d.genesis = status[Peer(e)].genesis
               /\ d.chain = status[Peer(e)].chain
               /\ d.version = status[e].version
               /\ d.forkid = ForkIdAt(position[Peer(e)])
               /\ \A td \in d.td : ~(td > MaxTd)
               /\ d.blockhash = 1
               /\ \A l \in d.earliest, h \in d.latest : ~(l > h)
               /\ d.version = Eth69 => d.earliest = {0} /\ d.latest \in {{0}, {1}}
  <1> DEFINE s == status[Peer(e)]
  <1>1. Peer(e) \in Ends
    BY TwoEnds
  <1>2. /\ s \in StatusType /\ s.td \in {{}, {MaxTd}}
        /\ \/ s.earliest = {} /\ s.latest = {}
           \/ s.earliest = {0} /\ s.latest = {1}
        /\ s.forkid = ForkIdAt(position[Peer(e)]) /\ s.blockhash = 1
    BY <1>1 DEF HandshakeInv, TypeOK, OwnStatusOK
  <1>3. s.version = status[e].version
    BY <1>1 DEF HandshakeInv, Ends, Peer
  <1> HIDE DEF s
  <1>4. PICK t \in StatusType :
              /\ Encode(s) = [format |-> IF s.version = Eth69 THEN "bor69" ELSE "legacy",
                              status |-> t]
              /\ t.version = s.version /\ t.chain = s.chain /\ t.genesis = s.genesis
              /\ t.forkid = s.forkid /\ t.blockhash = s.blockhash
              /\ t.td \in {{0}, {MaxTd}}
              /\ s.version = Eth69 => t.earliest = {0} /\ t.latest \in {{0}, {1}}
              /\ s.version # Eth69 => t.earliest = {} /\ t.latest = {}
    BY <1>2, EncodedFields
  <1> DEFINE format == IF s.version = Eth69 THEN "bor69" ELSE "legacy"
             d == Decode([format |-> format, status |-> t])
  <1>5. Encode(s).format = format /\ Decode(Encode(s)) = d
    BY <1>4
  <1>6. format \in Readable(s.version) /\ format # "too_big" /\ format # "eth69"
        /\ (format = "legacy" <=> s.version # Eth69)
    BY <1>2 DEF Readable, StatusType, Eth68, Eth69
  <1> HIDE DEF format
  <1>7. /\ d.version = t.version /\ d.chain = t.chain /\ d.genesis = t.genesis
        /\ d.forkid = t.forkid /\ d.blockhash = t.blockhash
        /\ d.td = IF format = "eth69" THEN {} ELSE t.td
        /\ d.earliest = IF format = "legacy" THEN {} ELSE t.earliest
        /\ d.latest = IF format = "legacy" THEN {} ELSE t.latest
    BY DecodedFields
  <1> HIDE DEF d
  <1>8. d.td = t.td
    BY <1>6, <1>7
  <1>9. \A td \in d.td : ~(td > MaxTd)
    BY <1>4, <1>8, HandshakeAssumption
  <1>10. \A l \in d.earliest, h \in d.latest : ~(l > h)
    BY <1>4, <1>6, <1>7
  <1>11. d.version = Eth69 => d.earliest = {0} /\ d.latest \in {{0}, {1}}
    BY <1>4, <1>6, <1>7
  <1> QED BY <1>2, <1>3, <1>4, <1>5, <1>6, <1>7, <1>9, <1>10, <1>11 DEF s

-----------------------------------------------------------------------------
(***************************************************************************)
(* Verdicts.                                                               *)
(***************************************************************************)

\* A status without a failing check.
LEMMA NothingFails ==
    ASSUME NEW at, NEW own, NEW theirs, Failing(Checks(at, own, theirs)) = {}
    PROVE  /\ own.genesis = theirs.genesis
           /\ own.version = theirs.version
           /\ own.chain = theirs.chain
           /\ fork_filter_accepts(at.schedule, at.head, theirs.forkid)
           /\ \A l \in theirs.earliest, h \in theirs.latest : ~(l > h)
           /\ theirs.earliest # {} /\ theirs.latest # {} => theirs.blockhash # 0
  <1> DEFINE fork == fork_filter_accepts(at.schedule, at.head, theirs.forkid)
             td == \E t \in theirs.td : t > MaxTd
             order == \E l \in theirs.earliest, h \in theirs.latest : l > h
             zero == theirs.earliest # {} /\ theirs.latest # {} /\ theirs.blockhash = 0
             c == <<Error("MismatchedGenesis", own.genesis # theirs.genesis, TRUE),
                    Error("MismatchedProtocolVersion", own.version # theirs.version, TRUE),
                    Error("MismatchedChain", own.chain # theirs.chain, TRUE),
                    Error("TotalDifficultyBitLenTooLarge", td, TRUE),
                    Error("InvalidFork", ~fork, TRUE),
                    Error("EarliestBlockGreaterThanLatestBlock", order, FALSE),
                    Error("BlockhashZero", zero, FALSE)>>
  <1>0. Checks(at, own, theirs) = c
    BY DEF Checks
  <1> HIDE DEF fork, td, order, zero
  <1>2. /\ DOMAIN c = 1..7
        /\ c[1].fails = (own.genesis # theirs.genesis)
        /\ c[2].fails = (own.version # theirs.version)
        /\ c[3].fails = (own.chain # theirs.chain)
        /\ c[5].fails = ~fork /\ c[6].fails = order /\ c[7].fails = zero
    BY DEF Error
  <1> HIDE DEF c
  <1>1. \A i \in DOMAIN c : ~c[i].fails
    BY <1>0 DEF Failing
  <1>3. ~c[1].fails /\ ~c[2].fails /\ ~c[3].fails /\ ~c[5].fails /\ ~c[6].fails /\ ~c[7].fails
    BY <1>1, <1>2
  <1>4. fork /\ ~order /\ ~zero /\ own.genesis = theirs.genesis
        /\ own.version = theirs.version /\ own.chain = theirs.chain
    BY <1>2, <1>3
  <1> QED BY <1>4 DEF fork, order, zero

\* The reported error is that of a check that fails.
LEMMA SomethingFails ==
    ASSUME NEW at, NEW own, NEW theirs, Failing(Checks(at, own, theirs)) # {}
    PROVE  LET error == Checks(at, own, theirs)[Min(Failing(Checks(at, own, theirs)))].error
           IN  \/ error = "MismatchedGenesis" /\ own.genesis # theirs.genesis
               \/ error = "MismatchedProtocolVersion" /\ own.version # theirs.version
               \/ error = "MismatchedChain" /\ own.chain # theirs.chain
               \/ error = "TotalDifficultyBitLenTooLarge" /\ \E td \in theirs.td : td > MaxTd
               \/ /\ error = "InvalidFork"
                  /\ ~fork_filter_accepts(at.schedule, at.head, theirs.forkid)
               \/ /\ error = "EarliestBlockGreaterThanLatestBlock"
                  /\ \E l \in theirs.earliest, h \in theirs.latest : l > h
               \/ error = "BlockhashZero" /\ theirs.blockhash = 0
  <1> DEFINE fork == fork_filter_accepts(at.schedule, at.head, theirs.forkid)
             td == \E t \in theirs.td : t > MaxTd
             order == \E l \in theirs.earliest, h \in theirs.latest : l > h
             zero == theirs.earliest # {} /\ theirs.latest # {} /\ theirs.blockhash = 0
             c == <<Error("MismatchedGenesis", own.genesis # theirs.genesis, TRUE),
                    Error("MismatchedProtocolVersion", own.version # theirs.version, TRUE),
                    Error("MismatchedChain", own.chain # theirs.chain, TRUE),
                    Error("TotalDifficultyBitLenTooLarge", td, TRUE),
                    Error("InvalidFork", ~fork, TRUE),
                    Error("EarliestBlockGreaterThanLatestBlock", order, FALSE),
                    Error("BlockhashZero", zero, FALSE)>>
             i == Min(Failing(c))
  <1>1. Checks(at, own, theirs) = c
    BY DEF Checks
  <1> HIDE DEF fork, td, order, zero
  <1>2. /\ DOMAIN c = 1..7
        /\ c[1].fails = (own.genesis # theirs.genesis) /\ c[1].error = "MismatchedGenesis"
        /\ c[2].fails = (own.version # theirs.version)
        /\ c[2].error = "MismatchedProtocolVersion"
        /\ c[3].fails = (own.chain # theirs.chain) /\ c[3].error = "MismatchedChain"
        /\ c[4].fails = td /\ c[4].error = "TotalDifficultyBitLenTooLarge"
        /\ c[5].fails = ~fork /\ c[5].error = "InvalidFork"
        /\ c[6].fails = order /\ c[6].error = "EarliestBlockGreaterThanLatestBlock"
        /\ c[7].fails = zero /\ c[7].error = "BlockhashZero"
    BY DEF Error
  <1> HIDE DEF c
  <1>3. Failing(c) \subseteq Nat /\ Failing(c) # {}
    BY <1>1, <1>2 DEF Failing
  <1>4. i \in Failing(c)
    BY <1>3, LeastOf
  <1> HIDE DEF i
  <1>5. i \in 1..7 /\ c[i].fails
    BY <1>2, <1>4 DEF Failing
  <1>6. i = 1 \/ i = 2 \/ i = 3 \/ i = 4 \/ i = 5 \/ i = 6 \/ i = 7
    BY <1>5
  <1>7. \/ c[i].error = "MismatchedGenesis" /\ own.genesis # theirs.genesis
        \/ c[i].error = "MismatchedProtocolVersion" /\ own.version # theirs.version
        \/ c[i].error = "MismatchedChain" /\ own.chain # theirs.chain
        \/ c[i].error = "TotalDifficultyBitLenTooLarge" /\ td
        \/ c[i].error = "InvalidFork" /\ ~fork
        \/ c[i].error = "EarliestBlockGreaterThanLatestBlock" /\ order
        \/ c[i].error = "BlockhashZero" /\ zero
    BY <1>2, <1>5, <1>6
  <1> QED BY <1>1, <1>7 DEF i, td, fork, order, zero

-----------------------------------------------------------------------------
(***************************************************************************)
(* Steps.                                                                  *)
(***************************************************************************)

\* What is promised of a status an end accepts.
OurKind(e, s) ==
    /\ s.genesis = status[e].genesis
    /\ s.chain = status[e].chain
    /\ s.version = status[e].version
    /\ fork_filter_accepts(position[e].schedule, position[e].head, s.forkid)
    /\ s.version = Eth69 => /\ unwrap_or(s.earliest, 1) <= unwrap_or(s.latest, 0)
                            /\ s.blockhash # 0

\* A status that arrives at an end of this kind has a range if it has one of
\* the encodings of eth/69.
LEMMA ArrivingRange ==
    ASSUME HandshakeInv, NEW e \in Ours, NEW m \in Arriving(e),
           m.format \in Readable(status[e].version), status[e].version = Eth69,
           Decode(m).version = Eth69
    PROVE  \E l \in Nat, h \in Nat : Decode(m).earliest = {l} /\ Decode(m).latest = {h}
  <1>1. CASE foreign
    <2>1. m.format \in {"bor69", "eth69"}
      BY DEF Readable, Eth69
    <2>2. m \in [format : Encodings, status : ForeignStatus]
      BY <1>1, <2>1 DEF Arriving, ForeignMessages
    <2>3. PICK v \in {Eth68, Eth69}, n \in Networks, p \in Positions,
               td \in {{0}, {MaxTd + 1}}, range \in {<<{0}, {1}>>, <<{1}, {0}>>},
               h \in {0, 1} :
            m.status = Status(v, n, ForkIdAt(p), td, range, h)
      BY <2>2 DEF ForeignStatus
    <2>4. Decode(m).earliest = range[1] /\ Decode(m).latest = range[2]
      BY <2>1, <2>3 DEF Decode, Status
    <2> QED BY <2>4
  <1>2. CASE ~foreign
    <2>1. e \in Ends /\ m = Encode(status[Peer(e)])
      BY <1>2, TwoEnds DEF Arriving
    <2>2. Decode(m).earliest = {0} /\ Decode(m).latest \in {{0}, {1}}
      BY <1>2, <2>1, OwnMessage
    <2> QED BY <2>2
  <1> QED BY <1>1, <1>2

\* An accepted status is of our kind.
LEMMA AcceptedStatus ==
    ASSUME HandshakeInv, NEW e \in Ours, NEW m \in Arriving(e),
           m.format \in Readable(status[e].version),
           Failing(Checks(position[e], status[e], Decode(m))) = {}
    PROVE  OurKind(e, Decode(m))
  <1> DEFINE d == Decode(m)
  <1>1. /\ status[e].genesis = d.genesis
        /\ status[e].version = d.version
        /\ status[e].chain = d.chain
        /\ fork_filter_accepts(position[e].schedule, position[e].head, d.forkid)
        /\ \A l \in d.earliest, h \in d.latest : ~(l > h)
        /\ d.earliest # {} /\ d.latest # {} => d.blockhash # 0
    BY NothingFails
  <1>2. ASSUME d.version = Eth69
        PROVE  unwrap_or(d.earliest, 1) <= unwrap_or(d.latest, 0) /\ d.blockhash # 0
    <2>1. PICK l \in Nat, h \in Nat : d.earliest = {l} /\ d.latest = {h}
      BY <1>1, <1>2, ArrivingRange
    <2>2. unwrap_or(d.earliest, 1) = l /\ unwrap_or(d.latest, 0) = h
      BY <2>1, Unwrapped
    <2> HIDE DEF d
    <2>3. ~(l > h) /\ d.blockhash # 0
      BY <1>1, <2>1
    <2> QED BY <2>2, <2>3
  <1> QED BY <1>1, <1>2 DEF OurKind

\* The conclusion two nodes of this kind come to is founded.
LEMMA JudgementIsFounded ==
    ASSUME HandshakeInv, ~foreign, NEW e \in Ends, NEW m, m = Encode(status[Peer(e)]),
           NEW outcome,
           LET checks == Checks(position[e], status[e], Decode(m))
           IN  IF Failing(checks) = {} THEN outcome = "ok"
               ELSE outcome \in {checks[Min(Failing(checks))].error, "Stream"}
    PROVE  IsFounded(e, outcome)
  <1> DEFINE d == Decode(m)
             checks == Checks(position[e], status[e], d)
  <1>1. /\ d.genesis = status[Peer(e)].genesis
        /\ d.chain = status[Peer(e)].chain
        /\ d.version = status[e].version
        /\ d.forkid = ForkIdAt(position[Peer(e)])
        /\ \A td \in d.td : ~(td > MaxTd)
        /\ d.blockhash = 1
        /\ \A l \in d.earliest, h \in d.latest : ~(l > h)
    BY OwnMessage
  <1>2. \/ e = 1 /\ Peer(e) = 2
        \/ e = 2 /\ Peer(e) = 1
    BY DEF Ends, Peer
  <1>3. CASE Failing(checks) = {}
    <2>1. /\ status[e].genesis = d.genesis /\ status[e].chain = d.chain
          /\ fork_filter_accepts(position[e].schedule, position[e].head, d.forkid)
      BY <1>3, NothingFails
    <2>2. SameNetwork
      BY <1>1, <1>2, <2>1 DEF SameNetwork
    <2>3. Compatible(e)
      BY <1>1, <2>1 DEF Compatible
    <2>4. outcome = "ok"
      BY <1>3
    <2> QED BY <2>2, <2>3, <2>4 DEF IsFounded, Verdicts
  <1>4. CASE Failing(checks) # {}
    <2> DEFINE error == checks[Min(Failing(checks))].error
    <2>1. \/ error = "MismatchedGenesis" /\ status[e].genesis # d.genesis
          \/ error = "MismatchedProtocolVersion" /\ status[e].version # d.version
          \/ error = "MismatchedChain" /\ status[e].chain # d.chain
          \/ error = "TotalDifficultyBitLenTooLarge" /\ \E td \in d.td : td > MaxTd
          \/ /\ error = "InvalidFork"
             /\ ~fork_filter_accepts(position[e].schedule, position[e].head, d.forkid)
          \/ /\ error = "EarliestBlockGreaterThanLatestBlock"
             /\ \E l \in d.earliest, h \in d.latest : l > h
          \/ error = "BlockhashZero" /\ d.blockhash = 0
      BY <1>4, SomethingFails
    <2>2. outcome \in {error, "Stream"}
      BY <1>4
    <2> HIDE DEF error, checks, d
    <2>3. \/ error = "MismatchedGenesis" /\ status[1].genesis # status[2].genesis
          \/ error = "MismatchedChain" /\ status[1].chain # status[2].chain
          \/ error = "InvalidFork" /\ ~Compatible(e)
      BY <1>1, <1>2, <2>1 DEF Compatible
    <2> QED BY <2>2, <2>3 DEF IsFounded, Verdicts
  <1> QED BY <1>3, <1>4

\* An end that is done leaves the invariant alone if what it concludes is
\* founded and what it accepts is of its kind.
LEMMA SettlingKeepsInv ==
    ASSUME HandshakeInv, NEW e \in Ends, NEW outcome, NEW disconnect,
           End(e, outcome, disconnect), UNCHANGED <<foreign, position, status>>,
           NEW a, accepted' = [accepted EXCEPT ![e] = a],
           e \in Ours => \A s \in a : OurKind(e, s),
           NEW w, wire' = [wire EXCEPT ![e] = w],
           e \in Ours => w \in Seq(Arriving(e)),
           ~foreign => IsFounded(e, outcome)
    PROVE  HandshakeInv'
  <1>1. TypeOK'
    BY DEF HandshakeInv, TypeOK, End
  <1>2. (\A x \in Ends : OwnStatusOK(x))' /\ (status[1].version = status[2].version)'
    BY DEF HandshakeInv, OwnStatusOK
  <1>3. Ours' = Ours /\ \A x : Arriving(x)' = Arriving(x)
    BY DEF Ours, Arriving
  <1>4. ASSUME NEW x \in Ours PROVE wire'[x] \in Seq(Arriving(x))
    <2>1. x \in Ends
      BY TwoEnds
    <2> QED BY <2>1 DEF HandshakeInv, TypeOK
  <1>5. ASSUME NEW x \in Ours, NEW s \in accepted'[x] PROVE OurKind(x, s)
    <2>1. x \in Ends
      BY TwoEnds
    <2>2. CASE x = e
      BY <1>5, <2>1, <2>2 DEF HandshakeInv, TypeOK
    <2>3. CASE x # e
      <3>1. s \in accepted[x]
        BY <1>5, <2>1, <2>3 DEF HandshakeInv, TypeOK
      <3> QED BY <3>1 DEF HandshakeInv, AcceptedAreOurKind, OurKind
    <2> QED BY <2>2, <2>3
  <1>6. AcceptedAreOurKind'
    BY <1>3, <1>5 DEF AcceptedAreOurKind, OurKind
  <1>7. ASSUME ~foreign, NEW x \in Ends PROVE IsFounded(x, result'[x])
    BY <1>7 DEF HandshakeInv, TypeOK, End
  <1>8. (~foreign => \A x \in Ends : IsFounded(x, result[x]))'
    BY <1>7 DEF IsFounded, SameNetwork, Compatible
  <1>9. (\A x \in Ours : wire[x] \in Seq(Arriving(x)))'
    BY <1>3, <1>4
  <1> QED BY <1>1, <1>2, <1>6, <1>8, <1>9 DEF HandshakeInv

\* An end that gives up keeps the invariant.
LEMMA GivingUpKeepsInv ==
    ASSUME HandshakeInv, NEW e \in Ends, NEW outcome, NEW disconnect,
           End(e, outcome, disconnect), UNCHANGED <<foreign, position, status, accepted, wire>>,
           outcome \notin Verdicts, outcome # "ok"
    PROVE  HandshakeInv'
  <1>1. accepted' = [accepted EXCEPT ![e] = accepted[e]] /\ wire' = [wire EXCEPT ![e] = wire[e]]
    BY DEF HandshakeInv, TypeOK
  <1>2. e \in Ours => \A s \in accepted[e] : OurKind(e, s)
    BY DEF HandshakeInv, AcceptedAreOurKind, OurKind
  <1>3. e \in Ours => wire[e] \in Seq(Arriving(e))
    BY DEF HandshakeInv
  <1>4. IsFounded(e, outcome)
    BY DEF IsFounded
  <1> QED BY <1>1, <1>2, <1>3, <1>4, SettlingKeepsInv

\* Sending keeps the invariant: what arrives is the sender's status.
LEMMA SendStatusKeepsInv ==
    ASSUME HandshakeInv, NEW e \in Ends, SendStatus(e)
    PROVE  HandshakeInv'
  <1> DEFINE p == Peer(e)
  <1>1. /\ wire' = [wire EXCEPT ![p] = Append(wire[p], Encode(status[e]))]
        /\ pc' = [pc EXCEPT ![e] = "recv"]
        /\ UNCHANGED <<foreign, position, status, result, accepted, told>>
    BY DEF SendStatus
  <1>2. p \in Ends /\ Peer(p) = e /\ p # e /\ e \in Ours
    BY TwoEnds DEF SendStatus
  <1>3. TypeOK'
    BY <1>1 DEF HandshakeInv, TypeOK
  <1>4. Ours' = Ours /\ \A x : Arriving(x)' = Arriving(x)
    BY <1>1 DEF Ours, Arriving
  <1> HIDE DEF p
  <1>5. ASSUME NEW x \in Ours PROVE wire'[x] \in Seq(Arriving(x))
    <2>1. x \in Ends /\ wire[x] \in Seq(Arriving(x))
      BY TwoEnds DEF HandshakeInv
    <2>2. CASE x = p
      <3>1. ~foreign
        BY <1>2, <2>2, TwoEnds
      <3>2. Encode(status[e]) \in Arriving(x)
        BY <1>2, <2>2, <3>1 DEF Arriving
      <3>3. Append(wire[x], Encode(status[e])) \in Seq(Arriving(x))
        <4> DEFINE A == Arriving(x)
                   m == Encode(status[e])
        <4> HIDE DEF A, m
        <4> QED BY <2>1, <3>2 DEF A, m
      <3>4. wire'[x] = Append(wire[x], Encode(status[e]))
        BY <1>1, <2>1, <2>2 DEF HandshakeInv, TypeOK
      <3> QED BY <3>3, <3>4
    <2>3. CASE x # p
      BY <1>1, <2>1, <2>3 DEF HandshakeInv, TypeOK
    <2> QED BY <2>2, <2>3
  <1>6. /\ (\A x \in Ends : OwnStatusOK(x))'
        /\ (status[1].version = status[2].version)'
        /\ AcceptedAreOurKind'
        /\ (~foreign => \A x \in Ends : IsFounded(x, result[x]))'
    BY <1>1, <1>4
       DEF HandshakeInv, OwnStatusOK, AcceptedAreOurKind, IsFounded, SameNetwork, Compatible
  <1> QED BY <1>3, <1>4, <1>5, <1>6 DEF HandshakeInv

\* A foreign node may send anything.
LEMMA SendForeignKeepsInv ==
    ASSUME HandshakeInv, SendForeign
    PROVE  HandshakeInv'
  <1>1. /\ foreign
        /\ \/ \E m \in ForeignMessages : wire' = [wire EXCEPT ![1] = Append(wire[1], m)]
           \/ wire' = wire
        /\ pc' = [pc EXCEPT ![2] = "done"]
        /\ UNCHANGED <<foreign, position, status, result, accepted, told>>
    BY DEF SendForeign
  <1>2. Ours = {1} /\ Ours' = {1} /\ Arriving(1) = ForeignMessages
        /\ Arriving(1)' = ForeignMessages /\ 1 \in Ends
    BY <1>1 DEF Ours, Arriving, Ends
  <1>3. wire[1] \in Seq(ForeignMessages)
    BY <1>2 DEF HandshakeInv
  <1>4. wire = [e \in Ends |-> wire[e]]
    BY DEF HandshakeInv, TypeOK
  <1>5. wire' = [e \in Ends |-> wire'[e]] /\ wire'[1] \in Seq(ForeignMessages)
    <2>1. CASE wire' = wire
      BY <1>3, <1>4, <2>1
    <2>2. ASSUME NEW m \in ForeignMessages, wire' = [wire EXCEPT ![1] = Append(wire[1], m)]
          PROVE  wire' = [e \in Ends |-> wire'[e]] /\ wire'[1] \in Seq(ForeignMessages)
      <3>1. Append(wire[1], m) \in Seq(ForeignMessages)
        <4> DEFINE A == ForeignMessages
        <4>1. wire[1] \in Seq(A) /\ m \in A
          BY <1>3
        <4> HIDE DEF A
        <4> QED BY <4>1 DEF A
      <3> QED BY <1>2, <1>4, <2>2, <3>1
    <2> QED BY <1>1, <2>1, <2>2
  <1>6. TypeOK'
    BY <1>1, <1>5 DEF HandshakeInv, TypeOK
  <1>7. /\ (\A x \in Ends : OwnStatusOK(x))'
        /\ (status[1].version = status[2].version)'
        /\ AcceptedAreOurKind'
        /\ (~foreign => \A x \in Ends : IsFounded(x, result[x]))'
    BY <1>1, <1>2
       DEF HandshakeInv, OwnStatusOK, AcceptedAreOurKind, IsFounded, SameNetwork, Compatible
  <1> QED BY <1>2, <1>5, <1>6, <1>7 DEF HandshakeInv

\* Reading a message keeps the invariant.
LEMMA ReceiveStatusKeepsInv ==
    ASSUME HandshakeInv, NEW e \in Ends, ReceiveStatus(e)
    PROVE  HandshakeInv'
  <1> DEFINE m == Head(wire[e])
             w == Tail(wire[e])
             checks == Checks(position[e], status[e], Decode(m))
  <1>1. /\ wire[e] # <<>> /\ UNCHANGED <<foreign, position, status>>
        /\ wire' = [wire EXCEPT ![e] = w]
        /\ IF m.format \in Readable(status[e].version) THEN Judge(e, m) ELSE Unreadable(e, m)
    BY DEF ReceiveStatus
  <1>2. e \in Ours => m \in Arriving(e) /\ w \in Seq(Arriving(e))
    <2> DEFINE A == Arriving(e)
    <2>1. e \in Ours => wire[e] \in Seq(A)
      BY DEF HandshakeInv
    <2> HIDE DEF A
    <2> QED BY <1>1, <2>1 DEF A
  <1>3. ~foreign => m = Encode(status[Peer(e)])
    BY <1>2, TwoEnds DEF Arriving
  <1>4. e \in Ours => \A s \in accepted[e] : OurKind(e, s)
    BY DEF HandshakeInv, AcceptedAreOurKind, OurKind
  <1>5. accepted = [x \in Ends |-> accepted[x]]
    BY DEF HandshakeInv, TypeOK
  <1> HIDE DEF m, w
  <1>6. CASE m.format \in Readable(status[e].version)
    <2>1. Judge(e, m)
      BY <1>1, <1>6
    <2>2. CASE Failing(checks) = {}
      <3>1. accepted' = [accepted EXCEPT ![e] = {Decode(m)}] /\ End(e, "ok", FALSE)
        BY <2>1, <2>2 DEF Judge
      <3>2. e \in Ours => \A s \in {Decode(m)} : OurKind(e, s)
        BY <1>2, <1>6, <2>2, AcceptedStatus
      <3>3. ~foreign => IsFounded(e, "ok")
        BY <1>3, <2>2, JudgementIsFounded
      <3> QED BY <1>1, <1>2, <3>1, <3>2, <3>3, SettlingKeepsInv
    <2>3. CASE Failing(checks) # {}
      <3> DEFINE error == checks[Min(Failing(checks))].error
      <3>1. /\ accepted' = accepted
            /\ \E outcome \in {error, "Stream"}, disconnect \in BOOLEAN :
                    End(e, outcome, disconnect)
        BY <2>1, <2>3 DEF Judge, Reject
      <3>2. PICK outcome \in {error, "Stream"}, disconnect \in BOOLEAN :
                    End(e, outcome, disconnect)
        BY <3>1
      <3>3. ~foreign => IsFounded(e, outcome)
        BY <1>3, <2>3, <3>2, JudgementIsFounded
      <3>4. accepted' = [accepted EXCEPT ![e] = accepted[e]]
        BY <1>5, <3>1
      <3> HIDE DEF error, checks
      <3> QED BY <1>1, <1>2, <1>4, <3>2, <3>3, <3>4, SettlingKeepsInv
    <2> QED BY <2>2, <2>3
  <1>7. CASE m.format \notin Readable(status[e].version)
    <2>1. Unreadable(e, m)
      BY <1>1, <1>7
    <2>2. foreign
      BY <1>3, <1>7, OwnMessage
    <2>3. /\ accepted' = accepted
          /\ \E outcome \in {"MessageTooBig", "InvalidMessage", "Stream"},
                disconnect \in BOOLEAN : End(e, outcome, disconnect)
      BY <2>1 DEF Unreadable, Reject
    <2>4. accepted' = [accepted EXCEPT ![e] = accepted[e]]
      BY <1>5, <2>3
    <2> QED BY <1>1, <1>2, <1>4, <2>2, <2>3, <2>4, SettlingKeepsInv
  <1> QED BY <1>6, <1>7

\* A session begins with two statuses of the same version and empty wires.
LEMMA HandshakeInit == Init => HandshakeInv
  <1> SUFFICES ASSUME Init PROVE HandshakeInv
    OBVIOUS
  <1>1. position \in [Ends -> Positions] /\ foreign \in BOOLEAN
    BY DEF Init
  <1>2. PICK v \in {Eth68, Eth69} :
            \E s1 \in OwnStatus(v, position[1]), s2 \in OwnStatus(v, position[2]) :
                status = <<s1, s2>>
    BY DEF Init
  <1>3. PICK s1 \in OwnStatus(v, position[1]), s2 \in OwnStatus(v, position[2]) :
            status = <<s1, s2>>
    BY <1>2
  <1>4. ASSUME NEW p \in Positions, NEW s \in OwnStatus(v, p)
        PROVE  /\ s \in StatusType /\ s.version = v /\ s.forkid = ForkIdAt(p)
               /\ s.td \in {{}, {MaxTd}} /\ s.blockhash = 1
               /\ \/ s.earliest = {} /\ s.latest = {}
                  \/ s.earliest = {0} /\ s.latest = {1}
    <2>1. PICK n \in Networks, td \in {{}, {MaxTd}}, range \in {<<{}, {}>>, <<{0}, {1}>>} :
                s = Status(v, n, ForkIdAt(p), td, range, 1)
      BY <1>4 DEF OwnStatus
    <2>2. /\ ForkIdAt(p) \in [hash : SUBSET Nat, next : Nat]
          /\ td \subseteq Nat /\ range[1] \subseteq Nat /\ range[2] \subseteq Nat
      BY ForkIdType, HandshakeAssumption
    <2>3. s \in StatusType
      BY <2>1, <2>2 DEF Status, StatusType
    <2>4. /\ s.version = v /\ s.forkid = ForkIdAt(p) /\ s.td = td /\ s.blockhash = 1
          /\ s.earliest = range[1] /\ s.latest = range[2]
      BY <2>1 DEF Status
    <2> QED BY <2>3, <2>4
  <1>5. position[1] \in Positions /\ position[2] \in Positions
    BY <1>1 DEF Ends
  <1>6. status[1] = s1 /\ status[2] = s2 /\ status \in [Ends -> StatusType]
    BY <1>3, <1>4, <1>5 DEF Ends
  <1>7. \A e \in Ends : OwnStatusOK(e)
    BY <1>4, <1>5, <1>6 DEF Ends, OwnStatusOK
  <1>8. status[1].version = status[2].version
    BY <1>4, <1>5, <1>6
  <1>9. TypeOK
    BY <1>1, <1>6 DEF Init, TypeOK
  <1>10. \A e \in Ours : wire[e] \in Seq(Arriving(e))
    BY TwoEnds DEF Init
  <1>11. AcceptedAreOurKind
    BY TwoEnds DEF Init, AcceptedAreOurKind
  <1>12. \A e \in Ends : IsFounded(e, result[e])
    BY DEF Init, IsFounded, Verdicts
  <1> QED BY <1>7, <1>8, <1>9, <1>10, <1>11, <1>12 DEF HandshakeInv

\* Every step keeps the invariant.
LEMMA HandshakeStep == HandshakeInv /\ [Next]_vars => HandshakeInv'
  <1> SUFFICES ASSUME HandshakeInv, [Next]_vars PROVE HandshakeInv'
    OBVIOUS
  <1>1. ASSUME NEW e \in Ends, SendStatus(e) PROVE HandshakeInv'
    BY <1>1, SendStatusKeepsInv
  <1>2. ASSUME NEW e \in Ends, ReceiveStatus(e) PROVE HandshakeInv'
    BY <1>2, ReceiveStatusKeepsInv
  <1>3. ASSUME NEW e \in Ends, StreamEnds(e) PROVE HandshakeInv'
    <2>1. \E outcome \in {"NoResponse", "Stream"}, disconnect \in BOOLEAN :
                End(e, outcome, disconnect)
      BY <1>3 DEF StreamEnds, Reject
    <2>2. UNCHANGED <<foreign, position, status, accepted, wire>>
      BY <1>3 DEF StreamEnds, Reject
    <2> QED BY <2>1, <2>2, GivingUpKeepsInv DEF Verdicts
  <1>4. ASSUME NEW e \in Ends, StreamFails(e) PROVE HandshakeInv'
    <2>1. End(e, "Stream", FALSE) /\ UNCHANGED <<foreign, position, status, accepted, wire>>
      BY <1>4 DEF StreamFails
    <2> QED BY <2>1, GivingUpKeepsInv DEF Verdicts
  <1>5. ASSUME NEW e \in Ends, TimesOut(e) PROVE HandshakeInv'
    <2>1. End(e, "StreamTimeout", FALSE)
          /\ UNCHANGED <<foreign, position, status, accepted, wire>>
      BY <1>5 DEF TimesOut
    <2> QED BY <2>1, GivingUpKeepsInv DEF Verdicts
  <1>6. CASE SendForeign
    BY <1>6, SendForeignKeepsInv
  <1>7. CASE UNCHANGED vars
    BY <1>7 DEF vars, HandshakeInv, TypeOK, OwnStatusOK, Ours, Arriving, AcceptedAreOurKind,
                IsFounded, SameNetwork, Compatible
  <1>8. CASE Finished
    BY <1>7, <1>8 DEF Finished
  <1> QED BY <1>1, <1>2, <1>3, <1>4, <1>5, <1>6, <1>7, <1>8 DEF Next

\* The invariant of the handshake: between two nodes of this kind every
\* verdict comes down to the networks and the fork filter.
THEOREM HandshakeInductive == Spec => []HandshakeInv
  BY HandshakeInit, HandshakeStep, PTL DEF Spec

\* Whatever a peer sends and in whichever encoding, an accepted status is of
\* our network and version, compatible with our forks, and complete.
THEOREM HandshakeAcceptsOurKind == Spec => []AcceptedAreOurKind
  <1>1. HandshakeInv => AcceptedAreOurKind
    BY DEF HandshakeInv
  <1> QED BY <1>1, HandshakeInductive, PTL

\* Where both ends stand.
LEMMA PositionType ==
    ASSUME HandshakeInv, NEW e \in Ends
    PROVE  position[e].schedule \in Schedules /\ position[e].head \in Nat
  BY HandshakeAssumption DEF HandshakeInv, TypeOK, Positions

\* Two nodes of this kind turn each other down only because of another
\* network or other Ethereum forks, for all fork schedules and wherever they are on the
\* chain; nobody turns down its own latest fork id.
THEOREM HandshakeRejectionsAreReal == Spec => []RejectionsAreReal
  <1>1. ASSUME HandshakeInv PROVE RejectionsAreReal
    <2> SUFFICES ASSUME ~foreign, NEW e \in Ends
                 PROVE  /\ result[e] \in Verdicts =>
                            \/ status[1].genesis # status[2].genesis
                            \/ status[1].chain # status[2].chain
                            \/ EthereumForks(position[1].schedule)
                                    # EthereumForks(position[2].schedule)
                        /\ fork_filter_accepts(position[e].schedule, position[e].head,
                                               latest_fork_id(position[e].schedule))
      BY DEF RejectionsAreReal
    <2> DEFINE p == Peer(e)
    <2>1. p \in Ends /\ ((e = 1 /\ p = 2) \/ (e = 2 /\ p = 1))
      BY DEF Ends, Peer
    <2>2. /\ position[e].schedule \in Schedules /\ position[e].head \in Nat
          /\ position[p].schedule \in Schedules /\ position[p].head \in Nat
      BY <1>1, <2>1, PositionType
    <2>3. fork_filter_accepts(position[e].schedule, position[e].head,
                              latest_fork_id(position[e].schedule))
      BY <2>2, LatestAccepted
    <2>4. ASSUME EthereumForks(position[e].schedule) = EthereumForks(position[p].schedule)
          PROVE  Compatible(e)
      BY <2>2, <2>4, SameForksAccepted DEF Compatible, ForkIdAt
    <2>5. IsFounded(e, result[e])
      BY <1>1 DEF HandshakeInv
    <2> HIDE DEF p
    <2> QED BY <2>1, <2>3, <2>4, <2>5 DEF IsFounded
  <1> QED BY <1>1, HandshakeInductive, PTL

\* Two nodes of this kind disagree about each other only where their fork
\* filters do.
THEOREM HandshakeSplitsByFork == Spec => []SplitOnlyByFork
  <1>1. ASSUME HandshakeInv PROVE SplitOnlyByFork
    <2> SUFFICES ASSUME ~foreign, NEW e \in Ends, result[e] = "ok",
                        result[Peer(e)] \in Verdicts
                 PROVE  result[Peer(e)] = "InvalidFork"
      BY DEF SplitOnlyByFork
    <2>1. IsFounded(e, result[e]) /\ IsFounded(Peer(e), result[Peer(e)])
      BY <1>1, TwoEnds DEF HandshakeInv
    <2> QED BY <2>1 DEF IsFounded, SameNetwork
  <1> QED BY <1>1, HandshakeInductive, PTL

\* Two nodes of this kind that accept each other have passed the same Ethereum
\* forks as far as both have come, for all pairs of schedules and heights.
\* Of their Bor forks it says nothing: the fork id leaves them out.
THEOREM HandshakeSharesEthereumForks == Spec => []PeersShareEthereumForks
  <1>1. ASSUME HandshakeInv PROVE PeersShareEthereumForks
    <2> SUFFICES ASSUME ~foreign, \A e \in Ends : result[e] = "ok"
                 PROVE  LET Lived(e) == EthereumForks(position[e].schedule) \cap 0..LowerHead
                        IN  Lived(1) = Lived(2)
      BY DEF PeersShareEthereumForks, BothAccept
    <2> DEFINE heads == {position[d].head : d \in Ends}
               low == Min(heads)
               R(e) == EthereumForks(position[e].schedule)
    <2>1. 1 \in Ends /\ 2 \in Ends /\ Peer(1) = 2 /\ Peer(2) = 1
      BY DEF Ends, Peer
    <2>2. ASSUME NEW e \in Ends
          PROVE  position[e].schedule \in Schedules /\ position[e].head \in Nat
      BY <1>1, PositionType
    <2>3. ASSUME NEW e \in Ends
          PROVE  fork_filter_accepts(position[e].schedule, position[e].head,
                    compute_fork_id(position[Peer(e)].schedule, position[Peer(e)].head))
      BY <1>1 DEF HandshakeInv, IsFounded, Compatible, ForkIdAt
    <2>4. low \in heads /\ \A h \in heads : low <= h
      <3>1. heads \subseteq Nat /\ heads # {}
        BY <2>1, <2>2
      <3> HIDE DEF heads
      <3> QED BY <3>1, LeastOf
    <2>5. low \in Nat
      BY <2>2, <2>4
    <2> HIDE DEF low
    <2>6. ASSUME NEW b \in Nat, b <= low PROVE b \in R(1) <=> b \in R(2)
      <3>1. PICK e \in Ends : low = position[e].head
        BY <2>4
      <3>2. position[e].head <= position[Peer(e)].head /\ Peer(e) \in Ends
        BY <2>1, <2>4, <3>1, TwoEnds
      <3>3. b \in R(e) <=> b \in R(Peer(e))
        BY <2>2, <2>3, <2>6, <3>1, <3>2, AcceptedSharesForks
      <3>4. e = 1 \/ e = 2
        BY DEF Ends
      <3> HIDE DEF R
      <3> QED BY <2>1, <3>3, <3>4
    <2> HIDE DEF R
    <2>7. R(1) \cap 0..low = R(2) \cap 0..low
      BY <2>5, <2>6
    <2> QED BY <2>7 DEF R, low, heads, LowerHead
  <1> QED BY <1>1, HandshakeInductive, PTL

-----------------------------------------------------------------------------
(***************************************************************************)
(* Bor's forks.                                                            *)
(***************************************************************************)

\* The assertion in BorChainSpec::new cannot fail for either network: the
\* forks of BorHardfork::all activate in the order in which they are listed.
THEOREM SchedulesAscend == Bor!Ascending(Bor!mainnet_block) /\ Bor!Ascending(Bor!amoy_block)
  <1>1. \A i \in DOMAIN Bor!all : i \in 1..10
    BY DEF Bor!all
  <1>2. QED
    BY SMT, <1>1 DEF Bor!Ascending, Bor!mainnet_block, Bor!amoy_block, Bor!all

\* Forks are activated one on top of the other: on either network a block at
\* which is_bor_fork_active_at_block answers yes for one fork has yes for all
\* the forks before it.
THEOREM ForksNest ==
    \A schedule \in {Bor!mainnet_block, Bor!amoy_block} :
    \A i, j \in DOMAIN Bor!all : \A n \in Nat :
        i < j /\ Bor!is_bor_fork_active_at_block(schedule, Bor!all[j], n)
            => Bor!is_bor_fork_active_at_block(schedule, Bor!all[i], n)
  <1> SUFFICES ASSUME NEW schedule \in {Bor!mainnet_block, Bor!amoy_block},
                      NEW i \in DOMAIN Bor!all, NEW j \in DOMAIN Bor!all, NEW n \in Nat,
                      i < j, Bor!is_bor_fork_active_at_block(schedule, Bor!all[j], n)
               PROVE  Bor!is_bor_fork_active_at_block(schedule, Bor!all[i], n)
    OBVIOUS
  <1>1. schedule[Bor!all[i]] <= schedule[Bor!all[j]]
    BY SchedulesAscend DEF Bor!Ascending
  <1>2. i \in 1..10 /\ j \in 1..10
    BY DEF Bor!all
  <1>3. /\ Bor!all[i] \in DOMAIN schedule
        /\ schedule[Bor!all[i]] \in Nat /\ schedule[Bor!all[j]] \in Nat
    BY SMT, <1>2 DEF Bor!mainnet_block, Bor!amoy_block, Bor!all
  <1>4. QED
    BY <1>1, <1>3 DEF Bor!is_bor_fork_active_at_block

\* Every block at which span_size has a span start is a sprint start of
\* sprint_size, on either side of Delhi and of Rio.
THEOREM SpanStartIsSprintStart ==
    \A n \in Nat : Bor!is_span_start(n, Bor!span_size(n)) => Bor!is_sprint_start(n)
  BY SMT DEF Bor!is_span_start, Bor!is_sprint_start, Bor!span_size, Bor!sprint_size,
             Bor!mainnet_block

\* The walk starts at block 0, where a sprint starts.
LEMMA SprintInvInit == Bor!Init => Bor!SprintInv
  BY SMT DEF Bor!Init, Bor!SprintInv, Bor!sprint_size, Bor!mainnet_block

\* A sprint ends at a multiple of its size, also when Delhi changes the size.
LEMMA SprintInvNext == Bor!SprintInv /\ [Bor!NextBlock]_(Bor!vars) => Bor!SprintInv'
  <1> SUFFICES ASSUME Bor!SprintInv, [Bor!NextBlock]_(Bor!vars) PROVE Bor!SprintInv'
    OBVIOUS
  <1>1. CASE Bor!NextBlock
    BY SMT, <1>1 DEF Bor!NextBlock, Bor!SprintInv, Bor!is_sprint_start, Bor!sprint_size,
                     Bor!mainnet_block
  <1>2. CASE UNCHANGED Bor!vars
    BY <1>2 DEF Bor!vars, Bor!SprintInv, Bor!sprint_size
  <1>3. QED
    BY <1>1, <1>2

\* Along the whole chain spans start where sprints start, so that commitSpan
\* and the state sync of a block are planned at one boundary.
THEOREM SpansAligned == Bor!Spec => []Bor!SpansStartWithASprint
  <1>1. Bor!SprintInv => Bor!SpansStartWithASprint
    BY SpanStartIsSprintStart DEF Bor!SprintInv, Bor!SpansStartWithASprint
  <1>2. QED
    BY SprintInvInit, SprintInvNext, <1>1, PTL DEF Bor!Spec

\* Along the whole chain, across Delhi too, a sprint is as long as the size
\* that sprint_size gave at its first block.
THEOREM SprintsWhole == Bor!Spec => Bor!SprintsAreWhole
  <1> DEFINE Whole == sprint_start' # sprint_start =>
                        sprint_start' - sprint_start = Bor!sprint_size(sprint_start)
  <1>1. Bor!SprintInv /\ Bor!NextBlock => Whole
    <2> SUFFICES ASSUME Bor!SprintInv, Bor!NextBlock, sprint_start' # sprint_start
                 PROVE  sprint_start' - sprint_start = Bor!sprint_size(sprint_start)
      OBVIOUS
    <2>1. sprint_start' = block + 1 /\ Bor!is_sprint_start(block + 1)
      BY SMT DEF Bor!NextBlock
    <2>2. CASE block + 1 < Bor!mainnet_block["Delhi"]
      BY SMT, <2>1, <2>2 DEF Bor!SprintInv, Bor!is_sprint_start, Bor!sprint_size,
                             Bor!mainnet_block
    <2>3. CASE block + 1 = Bor!mainnet_block["Delhi"]
      BY SMT, <2>1, <2>3 DEF Bor!SprintInv, Bor!is_sprint_start, Bor!sprint_size,
                             Bor!mainnet_block
    <2>4. CASE block >= Bor!mainnet_block["Delhi"]
      BY SMT, <2>1, <2>4 DEF Bor!SprintInv, Bor!is_sprint_start, Bor!sprint_size,
                             Bor!mainnet_block
    <2>5. QED
      BY SMT, <2>2, <2>3, <2>4 DEF Bor!SprintInv, Bor!mainnet_block
  <1>2. Bor!SprintInv /\ [Bor!NextBlock]_(Bor!vars) => [Whole]_(Bor!vars)
    BY <1>1
  <1>3. QED
    BY SprintInvInit, SprintInvNext, <1>2, PTL DEF Bor!Spec, Bor!SprintsAreWhole

\* Along the whole chain no fork changes a parameter in the middle of a
\* sprint: sizes, gas limit, base fee denominator and precompiles are those
\* of the sprint's first block.
THEOREM SprintsHaveOneRule == Bor!Spec => Bor!ParametersHoldForASprint
  <1> DEFINE Held == sprint_start' = sprint_start =>
                        Bor!Parameters(block') = Bor!Parameters(block)
  <1>1. Bor!SprintInv /\ Bor!NextBlock => Held
    <2> SUFFICES ASSUME Bor!SprintInv, Bor!NextBlock, sprint_start' = sprint_start
                 PROVE  Bor!Parameters(block') = Bor!Parameters(block)
      OBVIOUS
    <2>1. block \in Nat /\ block' = block + 1
      BY DEF Bor!SprintInv, Bor!NextBlock
    <2>2. ~Bor!is_sprint_start(block + 1)
      BY SMT DEF Bor!SprintInv, Bor!NextBlock, Bor!is_sprint_start, Bor!sprint_size,
                 Bor!mainnet_block
    <2>3. /\ block + 1 # Bor!mainnet_block["Delhi"] /\ block + 1 # Bor!mainnet_block["Napoli"]
          /\ block + 1 # Bor!mainnet_block["Bhilai"] /\ block + 1 # Bor!mainnet_block["Rio"]
      BY SMT, <2>1, <2>2 DEF Bor!is_sprint_start, Bor!sprint_size, Bor!mainnet_block
    <2>4. /\ Bor!sprint_size(block + 1) = Bor!sprint_size(block)
          /\ Bor!span_size(block + 1) = Bor!span_size(block)
          /\ Bor!block_gas_limit(block + 1) = Bor!block_gas_limit(block)
          /\ Bor!base_fee_change_denominator(block + 1) = Bor!base_fee_change_denominator(block)
      BY SMT, <2>1, <2>3 DEF Bor!sprint_size, Bor!span_size, Bor!block_gas_limit,
                             Bor!base_fee_change_denominator, Bor!mainnet_block
    <2>5. Bor!bor_precompile_addresses(block + 1) = Bor!bor_precompile_addresses(block)
      BY SMT, <2>1, <2>3 DEF Bor!bor_precompile_addresses, Bor!mainnet_block
    <2>6. QED
      BY <2>1, <2>4, <2>5 DEF Bor!Parameters
  <1>2. Bor!SprintInv /\ [Bor!NextBlock]_(Bor!vars) => [Held]_(Bor!vars)
    BY <1>1
  <1>3. QED
    BY SprintInvInit, SprintInvNext, <1>2, PTL DEF Bor!Spec, Bor!ParametersHoldForASprint

=============================================================================
