---------------------------- MODULE ForkSchedule ----------------------------
(***************************************************************************)
(* bor-chainspec/src/hardfork.rs and params.rs: the heights at which the   *)
(* rules of the chain change, and the sizes of sprints and spans on either *)
(* side of them.                                                           *)
(*                                                                         *)
(* The state machine walks along a chain from its genesis block and notes  *)
(* where the current sprint began, so that what sprint_size promises there *)
(* can be compared with where is_sprint_start ends the sprint, across the  *)
(* forks that move both.  The walk never ends: what holds along it is      *)
(* proved in ChainSpecProofs.                                              *)
(***************************************************************************)
EXTENDS Integers, Sequences

mainnet_block ==
    [Delhi |-> 38189056, Indore |-> 44934656, Agra |-> 50523000,
     Napoli |-> 68195328, Ahmedabad |-> 73100000, Bhilai |-> 76000000,
     Rio |-> 77414656, Madhugiri |-> 80084800, Dandeli |-> 81900000,
     Lisovo |-> 83756500]

amoy_block ==
    [Delhi |-> 73100, Indore |-> 73100, Agra |-> 73100, Napoli |-> 73100,
     Ahmedabad |-> 11865856, Bhilai |-> 22765056, Rio |-> 26272256,
     Madhugiri |-> 28899616, Dandeli |-> 31890000, Lisovo |-> 33634700]

all == <<"Delhi", "Indore", "Agra", "Napoli", "Ahmedabad", "Bhilai", "Rio",
         "Madhugiri", "Dandeli", "Lisovo">>

\* The assertion of BorChainSpec::new: activation heights ascend.
Ascending(schedule) ==
    \A i, j \in DOMAIN all : i < j => schedule[all[i]] <= schedule[all[j]]

sprint_size(number) == IF number < mainnet_block["Delhi"] THEN 64 ELSE 16

span_size(number) == IF number < mainnet_block["Rio"] THEN 6400 ELSE 1600

block_gas_limit(number) ==
    IF number < mainnet_block["Bhilai"] THEN 30000000 ELSE 45000000

base_fee_change_denominator(number) ==
    IF number >= mainnet_block["Bhilai"] THEN 64
    ELSE IF number >= mainnet_block["Delhi"] THEN 16
    ELSE 8

\* The standard precompiles, and P256VERIFY from Napoli on.
bor_precompile_addresses(number) ==
    1..9 \cup (IF number >= mainnet_block["Napoli"] THEN {256} ELSE {})

\* For a chain spec with the given activation heights.
is_bor_fork_active_at_block(schedule, fork, number) ==
    fork \in DOMAIN schedule /\ number >= schedule[fork]

is_sprint_start(number) == number % sprint_size(number) = 0

is_span_start(number, size) == number % size = 0

-----------------------------------------------------------------------------

VARIABLES
    block,          \* the number of the current block
    sprint_start    \* where the sprint of the block began

vars == <<block, sprint_start>>

Init == block = 0 /\ sprint_start = 0

NextBlock ==
    /\ block' = block + 1
    /\ sprint_start' = IF is_sprint_start(block') THEN block' ELSE sprint_start

Spec == Init /\ [][NextBlock]_vars

-----------------------------------------------------------------------------

\* No fork cuts a sprint short or draws it out: a sprint ends after as many
\* blocks as sprint_size gave at its first block.
SprintsAreWhole ==
    [][sprint_start' # sprint_start =>
            sprint_start' - sprint_start = sprint_size(sprint_start)]_vars

Parameters(number) ==
    <<sprint_size(number), span_size(number), block_gas_limit(number),
      base_fee_change_denominator(number), bor_precompile_addresses(number)>>

\* Within a sprint, the turn of one producer, no parameter of the chain
\* changes: the forks that change one activate where a sprint starts.
ParametersHoldForASprint ==
    [][sprint_start' = sprint_start => Parameters(block') = Parameters(block)]_vars

\* A span starts where a sprint starts, so that commitSpan and the state
\* sync of the same block fall on one boundary.
SpansStartWithASprint == is_span_start(block, span_size(block)) => is_sprint_start(block)

\* Sprints of 64 blocks up to Delhi and of 16 from there on: a sprint starts
\* at the last multiple of its size.
SprintInv ==
    /\ block \in Nat
    /\ sprint_start = (block \div sprint_size(block)) * sprint_size(block)

=============================================================================
