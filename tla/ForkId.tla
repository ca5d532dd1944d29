------------------------------- MODULE ForkId -------------------------------
(***************************************************************************)
(* bor-chainspec/src/chainspec.rs: the fork id that a node announces in    *)
(* its Status message, and the fork filter it applies to a peer's.  A node *)
(* is at a position: the Ethereum fork schedule of its chain spec, a set   *)
(* of ForkConditions, and the number of its best block.  The Bor forks of  *)
(* a chain spec are no part of it: fork id and filter do not read them.    *)
(*                                                                         *)
(* A fork hash, the checksum of the genesis hash and of the fork blocks    *)
(* passed, in ascending order and without duplicates, is modelled by the   *)
(* set of those blocks: no two histories share a checksum.                 *)
(***************************************************************************)
EXTENDS Integers, FiniteSetsExt

\* "Never" stands for every condition without a fork block.
ForkConditions == [kind : {"Block", "TTD", "Never"}, block : Nat]

ForkBlock(b) == [kind |-> "Block", block |-> b]
Never == [kind |-> "Never", block |-> 0]

\* The Ethereum forks of Amoy: London with Shanghai, Cancun, Prague; Paris has
\* a total difficulty and no block.
bor_amoy_genesis ==
    {ForkBlock(0), ForkBlock(73100), Never, ForkBlock(5423600), ForkBlock(22765056)}

\* The Ethereum forks of mainnet: Berlin with London.
bor_mainnet_genesis == {ForkBlock(0), ForkBlock(29231616)}

\* Mutant of eth_fork_blocks: forks with a total difficulty are left out.
eth_fork_blocks_BlocksOnly(schedule) ==
    {f.block : f \in {k \in schedule : k.kind = "Block"}} \ {0}

\* Mutant of eth_fork_blocks: the forks of the genesis block are kept.
eth_fork_blocks_WithGenesis(schedule) ==
    {f.block : f \in {k \in schedule : k.kind \in {"Block", "TTD"}}}

\* The blocks of the forks that have one, without the genesis block.
eth_fork_blocks(schedule) ==
    {f.block : f \in {k \in schedule : k.kind \in {"Block", "TTD"}}} \ {0}

\* The fork blocks that a chain of the given height has passed, and the first
\* one it has not, 0 if there is none.
Passed(blocks, number) == {b \in blocks : b <= number}

NextFork(blocks, number) ==
    LET later == blocks \ Passed(blocks, number)
    IN  IF later = {} THEN 0 ELSE Min(later)

compute_fork_id(schedule, number) ==
    LET blocks == eth_fork_blocks(schedule)
    IN  [hash |-> Passed(blocks, number), next |-> NextFork(blocks, number)]

\* The fork id of a chain that has just passed the last fork.
latest_fork_id(schedule) ==
    LET blocks == eth_fork_blocks(schedule)
    IN  compute_fork_id(schedule, IF blocks = {} THEN 0 ELSE Max(blocks))

(***************************************************************************)
(* ForkFilter::validate of a filter made from eth_fork_blocks, external to *)
(* the repository (EIP-2124): the peer is on the same stretch between two  *)
(* forks and announces none that this node has passed unawares; or it is   *)
(* behind, before one of our forks, and knows that this one comes next; or *)
(* it is ahead on the same history, past one of the forks to come.         *)
(***************************************************************************)
fork_filter_accepts(schedule, number, id) ==
    LET blocks == eth_fork_blocks(schedule)
        mine == Passed(blocks, number)
    IN  \/ /\ id.hash = mine
           /\ id.next = 0 \/ number < id.next
        \/ \E fork \in mine : /\ id.hash = {b \in mine : b < fork}
                              /\ id.next = fork
        \/ \E fork \in blocks \ mine : id.hash = Passed(blocks, fork)

\* What a schedule says of the Ethereum rules of a chain: the heights past the
\* genesis block at which they change, however the schedule lists them.  The
\* Bor forks, which change sprints, spans, gas and fees, are none of it.
EthereumForks(schedule) ==
    {k.block : k \in {f \in schedule : f.kind # "Never" /\ f.block > 0}}

=============================================================================
