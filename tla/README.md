# boreth in TLA+

boreth is a Polygon Bor execution client built on reth: a consensus engine that
authenticates block signers against validator sets fetched from Heimdall, an
executor that injects Bor's system calls, and the glue that makes reth speak
Bor's dialect of the eth protocol. This directory models the parts that carry
boreth's own logic, checks them with TLC on small instances, and proves with
TLAPS, for every instance, each invariant that the passing runs check.

`PROJECT.json` lists the runs, the source lines behind every definition, the
hazards the properties are aimed at, the findings and the theorems.

## The system

| Component | State | Operations | Hard parts |
|---|---|---|---|
| Span cache (`heimdall-client/cache.rs`) | a HashMap and a Vec in order of use | `get`, `insert` | two containers that must agree; behaviour at the limit |
| Recent signers (`bor-consensus/recents.rs`) | block number → signer | `is_recently_signed`, `add_signer`, `prune` | window edges, pruning, small sets |
| Consensus engine (`reth_consensus.rs`) | cache and recents, a Mutex each | `validate_header`, `_against_parent`, `validate_body_against_header`, `validate_block_pre_execution`, `_post_execution`, `insert_span` | called by several threads, for blocks of several branches, in any order; two critical sections; never told of failures or unwinds |
| Span prefetcher (`span_prefetch.rs`) | last span id fetched | `run`, `ensure_spans_for_block` | a high-water mark beside a cache that evicts on its own; retries |
| Heimdall HTTP client (`http.rs`) | attempt counter, last error | `get_with_retry` | which answer settles a call, pauses, termination |
| Snapshots and block rules (`snapshot.rs`, `validation.rs`, `block_validation.rs`, `bor-node/node.rs`) | validator set and recents per block, in memory | `apply`, `encode`, `decode`, the four validation functions, `put/get_snapshot` | competing branches, the clock, restarts, difficulty |
| Proposer selection (`proposer.rs`) | priority per validator | `select_proposer` | proportionality, starvation, drift |
| Handshake (`bor-node/handshake.rs`) | the exchange of two Status messages | `bor_eth_handshake` under a timeout | two ends in any order, three status formats, early returns |
| Fork schedule (`bor-chainspec`, `bor-evm/config.rs`) | none | heights, sizes, gas limits, fees, precompiles, fork ids | boundaries; ids of other heads and other schedules |
| Block production (`bor-payload`, `bor-evm`, `bor-storage`) | pending events and span, the block under way, stored receipts | plan, build, execute, store receipts | a failure between calls, order, pages, the fork block, abandoned blocks |
| Execution environments (`evm_config.rs`, `build.rs`) | none | `evm_env`, `next_evm_env`, `evm_env_for_payload`, `assemble_block` | three ways to the same block |
| RPC (`bor-rpc/methods.rs`) | none | `compute_root_hash`, `get_author` | padding |

Interactions: the engine shares one cache with the prefetcher, which fills it
over the HTTP client; reth calls the engine's methods from its header and body
downloaders and from its block importer, then the executor, then the engine's
post-execution check. `bin/boreth/main.rs` builds the engine with an empty cache
and starts no prefetcher, so in the node as it stands every block takes the
branch of the engine that skips the signer's checks.

What makes each part correct: the cache is an LRU cache; a signer signs at most
once per window on any chain and somebody always may sign; the prefetcher's
block finds its span, and the right one; an HTTP call ends with the answer that
settles it; a block's verdict does not depend on what else happened;
proposers are chosen in proportion to power; compatible peers connect and others
do not; every state sync event is received once and in order.

## The modules

- `SpanCache`: `spans` and `access_order` are the two containers; `get`,
  `insert`, `touch` as in the code. `SpanCacheClient` adds the client's history:
  which ids it used and which of two it used last. `LruCache` is the abstract
  cache: contents and an order of use.
- `Recents`: operators on a finite function from block numbers to signers.
- `BorConsensus`: a call of `validate_block_pre_execution` as three actions, one
  per locked region (lookup, check, record), with the call's locals per thread.
  It instantiates `SpanCache` and extends `Recents`. Who calls is left open:
  - `ChainImport`: one importer; executions fail, the head is unwound, spans are
    cached at any time. `SignedChain` is what it promises: a chain whose checked
    blocks are signed by validators who were absent from the window.
  - `BodyDownload`: threads that validate the blocks of a range, the calls
    started in block order.
- `HeaderRules`: the checks that read one block only, the seal hash, the author
  that the RPC names, and the node's own assembler. It extends `BlockEnv`, the
  environments and contexts of `evm_config.rs` as functions. `CfgEnv` (chain id,
  rule set) and the blob price are left out of an environment: the first is
  computed by reth from the chain spec, the block's number and its time in all
  three, the second depends on a header field that the engine does not allow.
- `HeimdallHttp`: the calls of `get_with_retry`, one action per step; who calls
  and what is answered is left open.
- `SpanPrefetch`: composes the prefetch task, `HeimdallHttp` (which it awaits),
  `SpanCache` (which it fills), the node that validates, and Heimdall, whose
  spans start where the constant `SpanStart` says.
- `BlockRules`: the four validation functions of `validation.rs` and
  `block_validation.rs` as lists of checks, in the code's order; `Difficulty`
  computes the one it needs.
- `SnapshotTree`: blocks judged by `BlockRules` against their parents' snapshots,
  a store of encoded snapshots, a clock, restarts. The code has the functions and
  the store, and only its tests put them together; the model does what they do,
  and has the genesis snapshot put into the empty store first. `RootHash` is
  `compute_root_hash`, over the ranges of the tree's branches.
- `Proposer`: `select_proposer` from every distribution of the given powers.
- `Handshake`: both ends, or one end and a foreign peer. It extends `ForkId`,
  the fork ids and filters of nodes at different heads and with different fork
  schedules, those of Amoy and mainnet among them. Only
  Ethereum forks are in an id; the Bor forks of a chain spec are not.
- `ForkSchedule`: a walk along the chain, without end, with the real heights and
  every parameter that a fork changes.
- `BlockProduction`: planning, payload, execution and receipts. The builder and
  the executor's context reach their system calls on separate paths; user
  transactions and calls are executed one by one and any of them may fail the
  block; events come in pages; the head may be given up for another block, whose
  receipt is stored beside that of the abandoned one. The receipts root is that
  of `build.rs`. Three steps are the node's and not in the repository, and are
  taken as its comments describe them: leaving the system transactions out of
  what is executed, filling the context, and calling `store_block_receipts`.
  Heimdall's answers are those of the mock client, for events with ascending ids
  without gaps, all of them early enough for the time asked for.
- `*Proofs`: the theorems, each module about the one it is named after;
  `ChainSpecProofs` is about `Handshake` and `ForkSchedule`, `ProducerProofs`
  about `Proposer` and `HeaderRules`. `NatInduction`: induction on the natural
  numbers, stated with sets.
- `MC*`: instances.

Definitions named `X_Something` above a definition `X` are mutants of it: `X`
with a plausible mistake. Each property of a passing run has one that breaks it.

Abstractions: addresses, roots and hashes are values; a block's hash in
`SnapshotTree` is its branch, and in `BlockProduction` a number and a count; an
encoded map is the set of its entries; a fork hash is the set of the fork blocks
that went into it, which are added in ascending order and once each; ECDSA
recovers a seal's signer for exactly the hash that was sealed, and Keccak has no
collisions.
reth (the caller of the engine, the EVM, `ForkFilter`) and Heimdall are external
and modelled by how this code uses them.

## Runs that pass

| Run | Shows | Bounds |
|---|---|---|
| `span_cache` | map and order agree, capacity holds, and the cache implements `LruCache` over the clients' order of use | 4 ids with two contents each, capacity 3: eviction, replacement and promotion all happen |
| `chain_import` | `ImportInv`, no double signing, recents bounded, somebody can sign, rejections are justified, refinement of `SignedChain` | 3 then 4 validators, spans of 4 blocks, 6 blocks: a window that grows across a span change. Three validators are interchangeable (symmetry; no property tells them apart) |
| `header_rules` | what is accepted is what was sealed, a sealed block that keeps the documented rules is accepted, and a block's environment and context are the same from its parent, its header and its payload, but for one field before the merge | two values of every field but the extra data and the optional ones, which have more; headers that differ in up to two fields, the number needed to swap one optional field for another; both values of the merge |
| `span_prefetch` | HTTP calls settle with the right answer after doubling pauses, passes cover the block, the mark agrees with the cache, lookups find the covering span, the tip's span arrives | 5 spans of 2 blocks, `PREFETCH_AHEAD` and `MAX_RETRIES` of the code, capacity 2 * `PREFETCH_AHEAD`, the least that works; the code has 64 |
| `snapshot_tree` | no double signing on any branch, recents are the branch's tail, siblings differ in difficulty, branches can grow and never outgrow the clock, verdicts stand, roots bind their ranges | 3 validators and a stranger, 5 snapshots, 4 blocks, a span start at block 3, a drift of 1 s and a clock up to 4 s: blocks that are early, late, and wrong in each respect alone |
| `proposer` | proportional cycles, bounded priorities, no starvation | 5 validators, powers 0, 1, 2 and 6 in all combinations: from five validators on, with powers as different as 6, 6, 1, 1, 1, a priority can reach the total power |
| `handshake` | only nodes of our network whose fork id passes are accepted, rejections are real, a split is the fork filters', peers share the Ethereum forks behind them, the end comes | 3 networks, the fork schedules of Amoy and mainnet and three variants of Amoy's, heads at Amoy's first fork and past the last of either; whatever a foreign peer may send in each of six formats |
| `block_production` | events once, in order and in their turn; spans committed one after the other; payload, execution and receipts agree; a stored Bor receipt is its own block's | sprints of 2, spans of 4, 8 blocks: two spans and four sprints, Madhugiri at 6, 3 events in pages of 2, boundary blocks with no user transaction and with two, one block given up, any transaction or call may fail |

Deadlock is checked in every run.

Assumptions worth knowing. `chain_import` unwinds one block at a time and no
further below the highest block recorded (`UnwindSlack` = 0), its cache holds
both spans, and its validator set grows by one; `reorg` below shows what a
deeper unwind does. With a cache that evicts one of the two spans
`RejectionsJustified` no longer holds: a block whose span is missing is imported
without being recorded, and the entry of the block it replaced stays.
`span_prefetch` has a chain that only grows: after an unwind below a span that
the task has fetched, `last_fetched_span` covers ids that were never asked for,
and `PassCoversBlock` fails. Its spans are all `span_size` long; `span_size` below
shows what shorter ones do. `block_production` fills the executor's context with
the payload's calls, as the comments in `evm_config.rs` say somebody does;
`system_calls_lost` has the context as the code builds it. `header_rules` takes the
span as cached and the signer as not recent; `BorConsensus` has those. Before the
merge, which mainnet's chain spec never reaches, `evm_env_for_payload` takes the
difficulty from the field that holds the mix hash. `EnvironmentsAgree` says so:
the payload's environment has the mix hash for its difficulty there, and is the
header's in every other field; from the merge on it is the header's in all.
`SealedBlockPasses` is about blocks that keep the rules the comments state
(`KeepsRules`: difficulty, mix hash, gas, base fee); the engine does not check
all of them, see the list of differences below.

Fairness. `SpanPrefetch`: tokio polls the task again, and a Heimdall asked over
and over for a span it has answers at last (strong fairness, since failures come
between). That a request is answered or fails at all is an assumption on the
network, because the HTTP client is built without a timeout.
`Handshake`: only the timer is fair, as `tokio::time::timeout` guarantees;
nothing is assumed of the peer. `Proposer`: selections go on.

## Runs that find a disagreement

Each of these runs checks one property that a comment of the code states, and
TLC finds it violated by what the code does. The findings quote the line.

- `concurrent_validation`: two threads in `validate_block_pre_execution`, calls
  started in block order. The lock on recents is given back between the check
  and the recording, so two blocks of one signer within the window both pass.
- `reorg`: two blocks are unwound. What `prune` dropped for the abandoned head is
  missing when a block below it is validated, and a signer passes twice.
- `system_calls_lost`: the context of the executor is `BorExecutionCtx::default()`,
  which is what the three context functions return, so the system calls of a
  boundary block are never made. And `receipt.rs` has their receipt stored
  separately before Madhugiri and under the receipts root from then on, while the
  assembler's root covers the receipts of the executor's output, which has none
  for system calls: in the last state of the run, past Madhugiri, the Bor receipt
  is in neither place. `compute_receipt_root`, which would put it under the root,
  is called by tests only. The second disagreement does not need the first:
  `BorReceiptInOnePlace` is violated with `ContextFilled` = TRUE as well.
- `span_size`: spans that become shorter at a fork, as at Rio. Engine and
  prefetcher go on counting in spans of the old size, so a block is looked up
  under the id of a span that does not cover it.

Differences between the code and `boreth-test-cases.md` or comments that were met
while modelling and have no run: the window reaches one block further than the
test plan has it (lines 241 and 466); one validator shuts itself out (663);
`max_by_key` takes the last of equal maxima (590); a failing HTTP call pauses
twice, not three times (421); `apply` leaves the snapshot's hash as it was; the
size functions use mainnet heights on Amoy (218); span boundaries are multiples
of the span size, not counted from Rio (172); the engine checks neither the era's
gas limit (190) nor that the difficulty is not zero (`reth_consensus.rs`, line
45), that the mix hash is zero (`validation.rs`, line 5, and 762) or that there
is a base fee (`reth_consensus.rs`, line 47), so it accepts a sealed block that
breaks these rules; fork ids and fork filters leave the Bor forks out, on purpose
and as Go-Bor does (`chainspec.rs`, line 71), although two comments say that they
include them (lines 94 and 224), so nodes whose Bor forks differ, and with them
sprints, spans, gas limits and fees, accept each other; the assembler leaves
extra data empty, which the engine rejects; Amoy's chain spec conditions
Shanghai, Cancun and Prague on blocks while reth asks for them by timestamp.

## What is proved

The theorems hold for every value of the constants that the modules' ASSUMEs
allow. Where a theorem has a hypothesis of its own it is named here, with the
reason for it. The invariants were checked with TLC on the run of the module
before they were proved.

`SpanCacheProofs`, for every set of spans and every capacity:

- `SpanCacheTypes`, `SpanCacheOrder`: the order lists exactly the cached ids,
  each once. The inductive invariant is the two together: removing a position
  from the Vec keeps it free of duplicates only because it was.
- `SpanCacheCapacity`: with finiteness of the map added, because an eviction
  removes one element of the map only if the Vec's first id is in it.
- `SpanCacheRefinesLru`: the cache implements `LruCache`. `ClientInv` adds that
  the Vec has the cached ids in the order of the client's history; a `touch`
  puts one id behind all others in both.

`ChainImportProofs`, for every set of signers, every assignment of validators to
spans, every cache size and chain length:

- `ImportInductive`, `ImportNoDoubleSign`, `ImportRefinesSignedChain`, assuming
  `WindowsNested`: the window of a block that may still be validated never starts
  below the cutoff of a block recorded earlier. `NoDoubleSign` is not inductive.
  `ImportInv` adds that the cache tells the truth, that a call is about the next
  block, that recents holds the signer of every checked block some window can
  still reach (`RecentsCoverWindows`), and that what the check found still holds
  when the signer is recorded and when the block is imported
  (`CheckStillHolds`), although the lock is free in between. From it every step
  is a step of `SignedChain` or a stutter: only `Import` extends the chain, and
  by then the abstract rule's guard holds.
  `SmallChangesNest` says when `WindowsNested` is met: unwinds of one block
  (`UnwindSlack` = 0) and validator sets that grow by at most two from span to
  span (`SetsGrowByTwo`). It is needed: `reorg` is an instance that
  breaks it and the property with it, and so does a set that grows from five to
  eight validators between two spans, whose wider window looks back further than
  the narrower one kept.
- `ImportRecentsBounded`, whatever the windows (there is a block to validate:
  `MaxBlock > 0`): every call that adds an entry prunes for a block near the
  highest one, so recents lies in one window and the slack of an unwind
  (`RecentsInRange` in `CoreInv`).
- `ImportSomeoneCanSign`, assuming `EnoughValidators`, three in every span: a
  window of half the set and one more is then shorter than the set. One or two
  validators do shut themselves out.
- `ImportRejectionsJustified`, assuming `CacheHoldsAll`: every span on record
  stays cached (`RecentsAreTrue`), so no block of a number on record can be
  imported without overwriting the record. It is needed, see above.

`SnapshotTreeProofs`, for every list of validators, every window and drift, and
trees of any size:

- `TreeInductive`: a stored snapshot is the one its branch determines, and the
  last block of a stored branch passed the rules (`TreeInv`). Encoding and
  decoding are inverse on the maps that occur; `apply` followed by `prune` moves
  the tail of the branch by one block.
- `TreeNoDoubleSign`, `TreeRecentsAreBranchTail`, `TreeSiblingsDiffer` (from a
  lemma on `Difficulty`: two validators at one height are at different distances
  from the one in turn), `TreeChainWithinClock` (each block is at least one
  second younger than its parent) and `TreeVerdictsStand` follow from it.
- `TreeEveryBranchGrows`, for more than two validators: a pigeonhole argument
  on the signers in the window and the places in the list.
- `TreeRootBindsRange`, for ranges of any length. `compute_root_hash` is the top
  of a sequence of levels, each half as wide as the one below (`RootOfLevels`,
  `LevelWidth`). Two trees with the same root agree from the top down as far as
  both go (`TopsBindLevels`, because hashes of pairs are bound to the pairs);
  they are of the same height, because otherwise the leftmost leaf of the lower
  one, a block, would be a hash of a pair in the higher one
  (`RootsBindHeight`); and the padding, which is no block's hash, gives the
  number of blocks away. The property compares two cardinalities, so the proof
  also needs that the store is finite (`TreeStoreFinite`).

`SpanPrefetchProofs`, for every number of retries, delay, span size,
`PREFETCH_AHEAD`, and number of spans and blocks:

- `PrefetchCallsSettle`, from `CallInv` of `HeimdallHttp`: the pauses so far are
  the first powers of two, one fewer than the requests.
- `PrefetchInductive`, `PrefetchPassCovers`, `PrefetchStayCached`, the last two
  assuming `RoomToPrefetch`: a capacity of at least 2 * `PREFETCH_AHEAD`. What
  could be evicted while the task or the node counts on it is bounded by the
  order of use: of two cached spans the one used first is ahead of the other by
  `PREFETCH_AHEAD` at most, and once the node has reached it, not at all
  (`OrderInv`). The bound is exact: with `PREFETCH_AHEAD` = 3, TLC finds a lost
  span at capacity 5 and none at 6.
- `PrefetchLookupCovers`, assuming `SpansEven`: spans as long as the engine
  believes; `span_size` is the run without it.

`BlockProductionProofs`, for every sprint, span and page size, gas limit,
Madhugiri height, chain length, number of events and unwinds, all assuming
`ContextFilled` (`system_calls_lost` is the run without it):

- `ProductionInductive`: the invariant `ProductionInv` says that the payload
  under way takes up where the chain ends, that its calls are those made
  followed by those in the context, its receipts those of the transactions
  executed; that a finished block kept all that, under a hash that no other block
  has; and that each block on the chain takes up where the one below it ends. An
  unwind takes the chain back to an earlier block and its last ids with it, so
  what is built next takes up at the right place again. `WaitInv` counts
  sprints against pages: at each boundary a full page of events has gone, or
  nothing was left waiting.
- `ProductionIsExecuted`, `ProductionEventsOnce`, `ProductionSpansInOrder`,
  `ProductionWaits`, `ProductionReceiptsAddUp`, `ProductionReceiptIsOwn`: the
  properties of the run. The fourth needs
  `WaitInv`; the last that a hash is made of a number and the count of unwinds.

`ProducerProofs`, for every number of validators and all voting powers that add
up to more than nothing:

- `ProposerInductive`: the invariant `ProposerInv` says that priorities are what
  each validator is owed, add up to zero and are greater than minus the total
  power. Because they add up to zero, they add up to the total power once
  incremented, so the greatest is positive, and paying the total power leaves it
  above minus the total.
- `ProposerBoundedDebts`: the upper bound follows from the sum. It is the number
  of the other validators times one less than the total power. A first version
  of the property had the total power as the upper bound, which held in a run
  with four validators and is false from five on; the attempt to prove it
  showed that it does not follow, and TLC the powers 6, 6, 1, 1, 1. The test
  plan says that priorities "can overflow" over many rounds
  (`boreth-test-cases.md`, line 573): they do not drift with the number of
  rounds, and only a total power near the width of an `i64` could make them.
- `ProposerCycleIsProportional`: at the end of a cycle nobody is owed a part of a
  selection, since debts are then multiples of the total power and lie above
  minus the total; those that are not negative and add up to zero are zero.
- `PowerlessNeverPropose`: the safety half of `EveryoneGetsATurn`.

and, in the same module, for all values of the fields of a header, all parents
and all bodies, on the assumptions of `HeaderRules` (`HeaderRulesAssumption`:
numbers are natural numbers, a base fee is there or not, optional fields are
the five known ones):

- `SealHashBindsHeader`: headers without optional fields are hashed as twelve
  items and, if they have a base fee, a thirteenth. Equal lists have equal items
  and are of equal length, so both have a base fee or neither.
- `EngineSealBindsBlock`, `EngineSealedBlockPasses`, `EngineEnvironmentsAgree`:
  the invariant `HeaderRulesInv` has what each check has established when the
  engine has passed it, and that a rejected block failed one of them. The first
  needs `validate_header`: with one optional field let through, the list could be
  that of another header, which is the mutant of `SealBindsBlock`. The second says
  that a sealed block which keeps the documented rules is not rejected; the third
  has the pre-merge difficulty of a payload as its one exception.

`ChainSpecProofs`, for all networks, all finite fork schedules, all heads and
every encoding that a foreign node may send:

- `HandshakeInductive`: the invariant `HandshakeInv` says what can be on the wire
  (between two nodes of this kind, only the other's status in the format of the
  common version) and that a result other than a timeout is founded: "ok" on
  equal networks and a fork id that passes the filter, a verdict on the check
  that it names. `AcceptedAreOurKind` is a part of it.
- `HandshakeAcceptsOurKind`, `HandshakeRejectionsAreReal`,
  `HandshakeSplitsByFork`, `HandshakeSharesEthereumForks`. The second rests on a
  lemma on fork ids: of two nodes with the same fork blocks, whichever is ahead,
  both filters pass. The last rests on a converse: if the filter of the node that
  is behind passes, the two have the same fork blocks up to its head. The fork
  blocks are Ethereum's: nothing follows for the Bor forks. That
  schedules are finite gives each a last fork, and a latest fork id.

and, in the same module, for every block number and with the real heights:

- `SchedulesAscend`: the assertion of `BorChainSpec::new` holds for both networks.
- `ForksNest`: on both networks a fork is active only where every earlier one is.
- `SpansAligned`: where `is_span_start` has a span start there is a sprint start.
- `SprintsWhole`: no fork cuts a sprint short. The inductive invariant
  (`SprintInv`) says that a sprint began at the last multiple of its size; the
  step across Delhi needs that its height is a multiple of 64 and of 16.
- `SprintsHaveOneRule`: no size, gas limit, fee denominator or precompile changes
  within a sprint, from the same invariant: every fork that changes one of them
  lies where a sprint starts.

Induction. The library's theorems on induction take a predicate as a parameter,
which the installed provers cannot instantiate. `NatInduction` states the same
for sets: a set that has 0 and with every number the next has all numbers
(`SetInduction`), derived from the least number of a set (`LeastNumber`). With it
the recursive functions of the models (`pow2`, `CumulativeGas`, `PowerOfTwo`, the
sums of `Proposer`, the levels of a Merkle tree), the maxima over chains and the
cardinality arguments are dealt with: a function with the recursion's equations
is shown to exist first, one number at a time, and the recursive definition,
which chooses such a function, then has the equations.

Only model-checked:

- liveness under fairness, which is out of this prover's reach:
  `TipSpanGetsCached`, `HandshakeEnds`, and the part of `EveryoneGetsATurn` that
  says that who has power is selected again and again.

## Not modelled

- The span store of `bor-storage` and `tables.rs`: no code uses them, and nothing
  is written to disk.
- The methods of `BorChainSpec` that hand a question on to reth's `ChainSpec`, the
  genesis JSON, boot nodes, configuration and the CLI: constants and delegation.
- `api.rs` and `types.rs` of `bor-rpc`: declarations without an implementation.
- `fetch_latest_span`, checkpoints and milestones of the Heimdall client: nobody
  calls them, and they differ from `fetch_span` in the URL only.
- The EVM. A system call that reverts is committed like one that succeeds
  (`block_executor.rs`, line 152); what follows depends on contracts that are not
  in the repository. Which EVM rules a block runs under is reth's choice.
- Roots, blooms, RLP, Keccak and ECDSA beyond what the abstractions above say.
- An HTTP request that is never answered.

## Plan

Order of work: the engine's anti-double-sign rule and the cache under it first,
then what feeds it (prefetcher, HTTP client), then the rules beside it
(snapshots, headers, proposer), then the edges of the node (handshake, block
production).

1. Done: all modules above; proofs about the span cache, `NoDoubleSign` and the
   fork schedule.
2. Done: prefetcher, HTTP client, cache and node composed; the block rules, clock
   and restarts in `SnapshotTree`; root hashes; execution transaction by
   transaction, pages of events, abandoned blocks and stored receipts; the
   execution environments; the real fork schedules.
3. Done: the invariants and both refinements of cache and engine, the snapshot
   tree, the prefetcher and block production proved.
4. Done: the proposer, the handshake and its fork ids, root hashes, header rules,
   seals and execution environments proved; a condition on validator sets that
   implies `WindowsNested`.

What could come next, if the code grows: an unwind in `SpanPrefetch` once the task
is told of one, the HTTP client's timeout once it has one, and the Bor part of the
execution context once the node fills it.
