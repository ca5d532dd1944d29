-------------------------- MODULE BlockProduction --------------------------
(***************************************************************************)
(* System calls on their way into the chain: bor-payload/src/builder.rs    *)
(* puts them into a payload, bor-evm/src/executor.rs plans them, and       *)
(* bor-evm/src/block_executor.rs executes the block: its transactions one  *)
(* by one and, in finish(), the system calls of its context, any of which  *)
(* may fail the block.  build.rs then computes the receipts root, and      *)
(* bor-storage says where the receipt of the system transaction goes.      *)
(*                                                                         *)
(* Heimdall hands out state sync events 1, 2, ... page by page and spans   *)
(* 1, 2, ...; for a block the node asks for the events and the span that   *)
(* follow those on its chain, tries a block again that failed, and may     *)
(* have to give up its head.  The node's part is not in the repository: it *)
(* asks Heimdall, keeps the system transactions of a payload from being    *)
(* executed as user transactions, fills the context and stores receipts.   *)
(***************************************************************************)
EXTENDS Naturals, Sequences, FiniteSets, FiniteSetsExt, SequencesExt

CONSTANTS
    sprint_size, span_size,
    gas_limit,
    limit,              \* the most events that one page has
    MADHUGIRI_BLOCK,    \* from here on the Bor receipt counts in the root
    MaxBlock,           \* bound: the last block produced
    MaxEvents,          \* bound: how many state sync events there are
    MaxUnwinds,         \* bound: how often the head is given up
    UserTxs,            \* the sequences of user transactions that may be on
                        \* offer for each block, by their gas
    ContextFilled       \* TRUE if the node fills the execution context

ASSUME BlockProductionAssumption ==
    /\ {sprint_size, span_size, limit} \subseteq Nat \ {0}
    /\ {gas_limit, MADHUGIRI_BLOCK, MaxBlock, MaxEvents, MaxUnwinds} \subseteq Nat
    /\ UserTxs \in [1..MaxBlock -> SUBSET Seq(Nat)]
    /\ ContextFilled \in BOOLEAN

VARIABLES
    events,     \* Heimdall's events: the block under way when each arrived,
                \* and how many were waiting then, itself included
    spans,      \* the last span that Heimdall produced
    chain,      \* the hashes of the node's chain
    blocks,     \* every block ever finished, by hash
    stored,     \* the Bor receipts stored separately, by key
    unwinds,    \* how often the head was given up
    payload,    \* {} or {payload}: the block under way
    txs,        \* its transactions still to execute
    ctx,        \* the system calls still to make
    receipts,   \* the receipts so far: the cumulative gas
    made        \* the system calls made

heimdall == <<events, spans>>
node == <<chain, blocks, stored, unwinds>>
executor == <<payload, txs, ctx, receipts, made>>
vars == <<heimdall, node, executor>>

-----------------------------------------------------------------------------
(***************************************************************************)
(* Planning and building                                                   *)
(***************************************************************************)

\* The events from an id on, at most limit of them, in the order in which
\* Heimdall has them, without gaps; all of them are old enough to be asked for.
fetch_state_sync_events(from_id) ==
    SubSeq([i \in DOMAIN events |-> i], from_id, Min({from_id + limit - 1, Len(events)}))

boundary(block_number, size) == block_number > 0 /\ block_number % size = 0

\* Mutant of plan_system_txs: events wait for the boundary of a span.
plan_system_txs_PerSpan(block_number, span, evs) ==
    [execute_commit_span |-> boundary(block_number, span_size) /\ span # {},
     state_sync_events |-> IF boundary(block_number, span_size) THEN evs ELSE <<>>]

plan_system_txs(block_number, span, evs) ==
    [execute_commit_span |-> boundary(block_number, span_size) /\ span # {},
     state_sync_events |-> IF boundary(block_number, sprint_size) THEN evs ELSE <<>>]

CommitSpanCall(id) == [call |-> "commitSpan", id |-> id]

StateReceiveCall(id) == [call |-> "onStateReceive", id |-> id]

SpanCalls(plan, span) ==
    IF plan.execute_commit_span THEN SetToSeq({CommitSpanCall(id) : id \in span}) ELSE <<>>

SyncCalls(plan) ==
    [i \in DOMAIN plan.state_sync_events |-> StateReceiveCall(plan.state_sync_events[i])]

\* Mutant of execute_system_tx_plan: the events come first.
execute_system_tx_plan_SyncFirst(plan, span) == SyncCalls(plan) \o SpanCalls(plan, span)

\* The system calls of a plan, in order.
execute_system_tx_plan(plan, span) == SpanCalls(plan, span) \o SyncCalls(plan)

\* The gas that the first k of some transactions use, as a function of k.
CumulativeGas(gas) ==
    LET total[k \in 0..Len(gas)] == IF k = 0 THEN 0 ELSE total[k - 1] + gas[k]
    IN  total

\* The user transactions up to the first one that does not fit.
Included(gas) ==
    SubSeq(gas, 1, Max({k \in 0..Len(gas) :
                        \A j \in 0..k : CumulativeGas(gas)[j] <= gas_limit}))

\* A transaction in a payload.
PayloadTx(gas, system) == [gas_used |-> gas, is_system_tx |-> system]

\* BorPayloadBuilder::build: system transactions behind the user's, at no gas.
build(block_number, user_txs, span, evs) ==
    LET user == Included(user_txs)
        calls == execute_system_tx_plan(plan_system_txs(block_number, span, evs), span)
    IN  [block_number |-> block_number,
         transactions |-> [i \in DOMAIN user |-> PayloadTx(user[i], FALSE)]
                            \o [i \in DOMAIN calls |-> PayloadTx(0, TRUE)],
         total_gas_used |-> CumulativeGas(user)[Len(user)],
         system_calls |-> calls,
         commit_span_executed |-> \E i \in DOMAIN calls : calls[i].call = "commitSpan",
         state_sync_count |-> Cardinality({i \in DOMAIN calls : calls[i].call = "onStateReceive"})]

(***************************************************************************)
(* Receipts                                                                *)
(***************************************************************************)

is_post_madhugiri(block_number) == block_number >= MADHUGIRI_BLOCK

\* The receipts that the root of a block is computed from: the executor's, one
\* for each user transaction.
receipts_root(output_receipts) == output_receipts

\* The receipts that bor-storage puts under a root, the Bor receipt an option;
\* nothing that produces a block calls it.
compute_receipt_root(regular, bor_receipt, block_number) ==
    regular \o (IF is_post_madhugiri(block_number) THEN SetToSeq(bor_receipt) ELSE <<>>)

\* Mutant of bor_receipt_key: the hash of the block is left out.
bor_receipt_key_NumberOnly(block_number, block_hash) == <<block_number>>

bor_receipt_key(block_number, block_hash) == <<block_number, block_hash>>

\* Keccak of the key: the key.
derived_bor_tx_hash(block_number, block_hash) == bor_receipt_key(block_number, block_hash)

store_block_receipts(block_number, block_hash) ==
    [key |-> bor_receipt_key(block_number, block_hash),
     separate |-> ~is_post_madhugiri(block_number)]

\* Mutant of derive_bor_receipt_gas: system transactions use no gas at all.
derive_bor_receipt_gas_Zero(regular_cumulative_gas) == 0

derive_bor_receipt_gas(regular_cumulative_gas) == regular_cumulative_gas

is_bor_system_tx(tx_index, total_txs, bor_tx_count) ==
    tx_index >= total_txs - bor_tx_count

-----------------------------------------------------------------------------
(***************************************************************************)
(* The node                                                                *)
(***************************************************************************)

\* BorExecutionCtx::default
NoCalls == [pending_commit_span |-> {}, pending_state_syncs |-> <<>>]

Init ==
    /\ events = <<>> /\ spans = 0
    /\ chain = <<>> /\ unwinds = 0
    /\ blocks = [h \in {} |-> {}] /\ stored = [k \in {} |-> {}]
    /\ payload = {} /\ txs = <<>> /\ receipts = <<>> /\ made = <<>>
    /\ ctx = NoCalls

NextNumber == Len(chain) + 1

\* The last span or event that the payloads of the first n blocks announce.
LastUpTo(name, n) ==
    Max({0} \cup UNION {{c.id : c \in {d \in Range(blocks[chain[b]].payload.system_calls) :
                                        d.call = name}} : b \in 1..n})

LastOnChain(name) == LastUpTo(name, Len(chain))

EventArrives ==
    /\ Len(events) < MaxEvents
    /\ events' = Append(events, [at |-> NextNumber,
                                waiting |-> Len(events) + 1 - LastOnChain("onStateReceive")])
    /\ UNCHANGED <<spans, node, executor>>

SpanArrives ==
    /\ (spans + 1) * span_size <= MaxBlock
    /\ spans' = spans + 1
    /\ UNCHANGED <<events, node, executor>>

(***************************************************************************)
(* BorExecutionCtx: context_for_block, context_for_next_block and          *)
(* context_for_payload leave it empty and name the node as the one to fill *)
(* it before execution.                                                    *)
(***************************************************************************)
Context(plan, span) ==
    IF ContextFilled
    THEN [pending_commit_span |-> IF plan.execute_commit_span THEN span ELSE {},
          pending_state_syncs |-> plan.state_sync_events]
    ELSE NoCalls

\* A payload is built, and create_executor is given its context.
BuildPayload ==
    /\ payload = {}
    /\ NextNumber <= MaxBlock
    /\ \E user_txs \in UserTxs[NextNumber] :
        LET span == {LastOnChain("commitSpan") + 1} \cap (1..spans)
            evs == fetch_state_sync_events(LastOnChain("onStateReceive") + 1)
            built == build(NextNumber, user_txs, span, evs)
            all == built.transactions
            regular(i) == ~is_bor_system_tx(i - 1, Len(all), Len(built.system_calls))
        IN  /\ payload' = {built}
            /\ txs' = SubSeq(all, 1, Cardinality({i \in DOMAIN all : regular(i)}))
            /\ ctx' = Context(plan_system_txs(NextNumber, span, evs), span)
    /\ receipts' = <<>> /\ made' = <<>>
    /\ UNCHANGED <<heimdall, node>>

\* The gas of the last receipt.
GasSoFar == IF receipts = <<>> THEN 0 ELSE receipts[Len(receipts)]

\* execute_transaction_without_commit and commit_transaction: the receipt has
\* the gas of the block so far.
ExecuteTransaction ==
    /\ txs # <<>>
    /\ receipts' = Append(receipts, GasSoFar + Head(txs).gas_used)
    /\ txs' = Tail(txs)
    /\ UNCHANGED <<heimdall, node, payload, ctx, made>>

\* A system call returns and its state is committed: nobody looks at whether
\* the contract succeeded or reverted.
Commit(call) == made' = Append(made, call)

\* execute_bor_system_calls, commitSpan: after all transactions.
CommitSpan ==
    /\ txs = <<>>
    /\ \E id \in ctx.pending_commit_span : Commit(CommitSpanCall(id))
    /\ ctx' = [ctx EXCEPT !.pending_commit_span = {}]
    /\ UNCHANGED <<heimdall, node, payload, txs, receipts>>

\* Mutant of StateReceive: events do not wait for the span.
StateReceive_Early ==
    /\ txs = <<>>
    /\ ctx.pending_state_syncs # <<>>
    /\ Commit(StateReceiveCall(Head(ctx.pending_state_syncs)))
    /\ ctx' = [ctx EXCEPT !.pending_state_syncs = Tail(@)]
    /\ UNCHANGED <<heimdall, node, payload, txs, receipts>>

\* execute_bor_system_calls, onStateReceive for the next event: after the span.
StateReceive ==
    /\ txs = <<>> /\ ctx.pending_commit_span = {}
    /\ ctx.pending_state_syncs # <<>>
    /\ Commit(StateReceiveCall(Head(ctx.pending_state_syncs)))
    /\ ctx' = [ctx EXCEPT !.pending_state_syncs = Tail(@)]
    /\ UNCHANGED <<heimdall, node, payload, txs, receipts>>

CallsLeft == ctx.pending_commit_span # {} \/ ctx.pending_state_syncs # <<>>

\* Mutant of SystemCallFails: the calls left are given up and the block kept.
SystemCallFails_KeepBlock ==
    /\ txs = <<>> /\ CallsLeft
    /\ ctx' = NoCalls
    /\ UNCHANGED <<heimdall, node, payload, txs, receipts, made>>

\* The next call is an error: finish() returns it and the block is given up,
\* with all that its transactions and calls had committed.
SystemCallFails ==
    /\ txs = <<>> /\ CallsLeft
    /\ payload' = {} /\ ctx' = NoCalls /\ receipts' = <<>> /\ made' = <<>>
    /\ UNCHANGED <<heimdall, node, txs>>

\* A transaction is an error, and the block is given up.
TransactionFails ==
    /\ txs # <<>>
    /\ payload' = {} /\ txs' = <<>> /\ ctx' = NoCalls /\ receipts' = <<>> /\ made' = <<>>
    /\ UNCHANGED <<heimdall, node>>

\* A map with one more entry, which takes the place of one it had.
Put(map, key, value) ==
    [k \in DOMAIN map \cup {key} |-> IF k = key THEN value ELSE map[k]]

\* finish() returns and the block is assembled: it goes onto the chain, under a
\* hash of its own, and its Bor receipt where store_block_receipts says.
Finish ==
    /\ txs = <<>> /\ ~CallsLeft
    /\ \E p \in payload :
        LET hash == <<p.block_number, unwinds>>
            place == store_block_receipts(p.block_number, hash)
            bor_receipt ==
                IF p.system_calls = <<>> THEN {}
                ELSE {derive_bor_receipt_gas(GasSoFar)}
            entry == [tx_hash |-> derived_bor_tx_hash(p.block_number, hash), gas |-> bor_receipt]
        IN  /\ chain' = Append(chain, hash)
            /\ blocks' = Put(blocks, hash,
                             [payload |-> p, made |-> made, bor_receipt |-> bor_receipt,
                              root |-> receipts_root(receipts)])
            /\ stored' = IF bor_receipt # {} /\ place.separate
                         THEN Put(stored, place.key, entry) ELSE stored
    /\ payload' = {} /\ receipts' = <<>> /\ made' = <<>>
    /\ UNCHANGED <<heimdall, unwinds, txs, ctx>>

\* The head turns out not to be on the best chain.
Unwind ==
    /\ payload = {} /\ chain # <<>>
    /\ unwinds < MaxUnwinds
    /\ unwinds' = unwinds + 1
    /\ chain' = Front(chain)
    /\ UNCHANGED <<heimdall, blocks, stored, executor>>

Complete == NextNumber > MaxBlock /\ UNCHANGED vars

Next ==
    \/ EventArrives \/ SpanArrives
    \/ BuildPayload \/ ExecuteTransaction \/ TransactionFails
    \/ CommitSpan \/ StateReceive \/ SystemCallFails \/ Finish
    \/ Unwind
    \/ Complete

Spec == Init /\ [][Next]_vars

-----------------------------------------------------------------------------
(***************************************************************************)
(* Properties                                                              *)
(***************************************************************************)

Block(b) == blocks[chain[b]]

\* Where along the chain a method is called: block and position.
CallsTo(name) ==
    UNION {{<<b, i>> : i \in {j \in DOMAIN Block(b).made : Block(b).made[j].call = name}}
            : b \in DOMAIN chain}

IdOf(c) == Block(c[1]).made[c[2]].id

Earlier(c, d) == c[1] < d[1] \/ (c[1] = d[1] /\ c[2] < d[2])

\* The ids 1, 2, ... up to the last one announced, each once and in order.
OnceInOrder(name) ==
    /\ {IdOf(c) : c \in CallsTo(name)} = 1..LastOnChain(name)
    /\ \A c, d \in CallsTo(name) : Earlier(c, d) => IdOf(c) < IdOf(d)

\* Along the chain the state receiver is called with every event exactly once
\* and in order, whatever blocks failed half way through their system calls
\* or were given up.
EventsOnceInOrder == OnceInOrder("onStateReceive")

\* What a block's payload announces is what its execution did: builder and
\* executor go by the same plan on their own and make the same calls in the
\* same order, and the payload's counts are right.
PayloadIsExecuted ==
    \A h \in DOMAIN blocks :
        LET p == blocks[h].payload
            calls == blocks[h].made
        IN  /\ calls = p.system_calls
            /\ Len(calls) = p.state_sync_count + (IF p.commit_span_executed THEN 1 ELSE 0)

\* A span is committed at a span boundary only, before any event of the same
\* block, and the spans of a chain follow each other.
SpansCommitInOrder ==
    /\ \A b \in DOMAIN chain : \A i \in DOMAIN Block(b).made :
            Block(b).made[i].call = "commitSpan" => i = 1 /\ boundary(b, span_size)
    /\ OnceInOrder("commitSpan")

\* No event waits longer than the events before it make it wait: a page of
\* them is received at every sprint's end, failed and abandoned blocks aside.
EventsWaitTheirTurn ==
    \A i \in DOMAIN events :
        i > LastOnChain("onStateReceive")
            => LET pages == (events[i].waiting + limit - 1) \div limit
               IN  NextNumber <= events[i].at + pages * sprint_size

\* The gas in a block's receipts, the Bor receipt's behind the others, only
\* grows, ends at the payload's total and stays within the limit.
ReceiptsAddUp ==
    \A h \in DOMAIN blocks :
        LET p == blocks[h].payload
            all == blocks[h].root \o SetToSeq(blocks[h].bor_receipt)
        IN  /\ p.total_gas_used <= gas_limit
            /\ \A i \in 1..(Len(all) - 1) : all[i] <= all[i + 1]
            /\ all # <<>> => all[Len(all)] = p.total_gas_used

\* The Bor receipt of a block with system calls is in one place, as bor-storage
\* says: stored separately before the Madhugiri block, and under the root,
\* behind the receipts of the user transactions, from that block on.
BorReceiptInOnePlace ==
    \A h \in DOMAIN blocks :
        LET p == blocks[h].payload
            user == Cardinality({i \in DOMAIN p.transactions : ~p.transactions[i].is_system_tx})
            separate == bor_receipt_key(p.block_number, h) \in DOMAIN stored
        IN  /\ p.system_calls # <<>> => (separate <=> p.block_number < MADHUGIRI_BLOCK)
            /\ blocks[h].root = compute_receipt_root(SubSeq(blocks[h].root, 1, user),
                                                    blocks[h].bor_receipt, p.block_number)

\* What the docs say becomes of a payload's system calls: the executor makes
\* them, as block_executor.rs has it, and their receipt is where bor-storage says.
SystemCallsTakeEffect == PayloadIsExecuted /\ BorReceiptInOnePlace

\* The receipt found for a block is that block's own and no other's, also when
\* a block of the same number has taken its place on the chain.
BorReceiptIsOwn ==
    \A h \in DOMAIN blocks :
        LET key == bor_receipt_key(h[1], h)
        IN  key \in DOMAIN stored
                => /\ stored[key].gas = blocks[h].bor_receipt
                   /\ \A g \in DOMAIN blocks \ {h} :
                            derived_bor_tx_hash(g[1], g) # stored[key].tx_hash

-----------------------------------------------------------------------------
(***************************************************************************)
(* Why the properties hold.  A payload is made for the chain it is built   *)
(* on, and executing it goes through its transactions and its calls one by *)
(* one; a finished block keeps what its payload said, and a block on the   *)
(* chain follows the blocks below it, whatever was given up above.         *)
(***************************************************************************)
Offset(p) == IF p.commit_span_executed THEN 1 ELSE 0

UserCount(p) == Len(p.transactions) - Len(p.system_calls)

UserGas(p) == [i \in 1..UserCount(p) |-> p.transactions[i].gas_used]

SystemCalls == [call : {"commitSpan", "onStateReceive"}, id : Nat]

Contexts == [pending_commit_span : SUBSET Nat, pending_state_syncs : Seq(Nat)]

TxsOk(p) ==
    /\ p.block_number \in Nat \ {0}
    /\ p.transactions \in Seq([gas_used : Nat, is_system_tx : BOOLEAN])
    /\ UserCount(p) \in 0..Len(p.transactions)
    /\ \A i \in DOMAIN p.transactions : p.transactions[i].is_system_tx <=> i > UserCount(p)
    /\ p.total_gas_used = CumulativeGas(UserGas(p))[UserCount(p)]
    /\ p.total_gas_used <= gas_limit

CallsCounted(p) ==
    /\ p.system_calls \in Seq(SystemCalls)
    /\ p.commit_span_executed \in BOOLEAN
    /\ p.state_sync_count \in 0..limit
    /\ Len(p.system_calls) = Offset(p) + p.state_sync_count

\* The calls of a payload take up where the given span and event end.
CallsFollow(p, span, event) ==
    /\ CallsCounted(p)
    /\ p.commit_span_executed =>
        /\ boundary(p.block_number, span_size)
        /\ p.system_calls[1] = CommitSpanCall(span + 1)
    /\ p.state_sync_count > 0 => boundary(p.block_number, sprint_size)
    /\ \A i \in 1..p.state_sync_count :
            p.system_calls[Offset(p) + i] = StateReceiveCall(event + i)

SpansPending == IF ctx.pending_commit_span = {} THEN 0 ELSE 1

\* Of a payload's calls some were made and the rest is in the context.
CallsUnderWay(p) ==
    /\ Len(made) + SpansPending + Len(ctx.pending_state_syncs) = Len(p.system_calls)
    /\ \A i \in DOMAIN made : made[i] = p.system_calls[i]
    /\ \A id \in ctx.pending_commit_span :
            /\ made = <<>>
            /\ ctx.pending_commit_span = {id}
            /\ p.system_calls[1] = CommitSpanCall(id)
    /\ \A i \in DOMAIN ctx.pending_state_syncs :
            p.system_calls[Len(made) + SpansPending + i]
                = StateReceiveCall(ctx.pending_state_syncs[i])

TxsUnderWay(p) ==
    /\ Len(receipts) + Len(txs) = UserCount(p)
    /\ \A i \in DOMAIN txs : txs[i] = p.transactions[Len(receipts) + i]
    /\ \A i \in DOMAIN receipts : receipts[i] = CumulativeGas(UserGas(p))[i]

ExecutorInv ==
    /\ txs \in Seq([gas_used : Nat, is_system_tx : BOOLEAN])
    /\ receipts \in Seq(Nat)
    /\ made \in Seq(SystemCalls)
    /\ ctx \in Contexts
    /\ payload = {} \/ \E p \in payload : payload = {p}
    /\ \A p \in payload :
        /\ p.block_number = NextNumber
        /\ TxsOk(p)
        /\ TxsUnderWay(p)
        /\ CallsFollow(p, LastOnChain("commitSpan"), LastOnChain("onStateReceive"))
        /\ CallsUnderWay(p)

BlockOk(h) ==
    LET p == blocks[h].payload
        key == bor_receipt_key(p.block_number, h)
    IN  /\ h \in (Nat \ {0}) \X (0..unwinds)
        /\ h[1] = p.block_number
        /\ h[2] = unwinds => h[1] <= Len(chain)
        /\ TxsOk(p)
        /\ CallsCounted(p)
        /\ blocks[h].made = p.system_calls
        /\ blocks[h].bor_receipt = IF p.system_calls = <<>> THEN {} ELSE {p.total_gas_used}
        /\ blocks[h].root \in Seq(Nat)
        /\ Len(blocks[h].root) = UserCount(p)
        /\ \A i \in 1..UserCount(p) : blocks[h].root[i] = CumulativeGas(UserGas(p))[i]
        /\ key \in DOMAIN stored <=> p.system_calls # <<>> /\ ~is_post_madhugiri(h[1])
        /\ key \in DOMAIN stored => stored[key] = [tx_hash |-> key, gas |-> blocks[h].bor_receipt]

BlocksInv ==
    /\ unwinds \in Nat
    /\ \A h \in DOMAIN blocks : BlockOk(h)
    /\ \A k \in DOMAIN stored : \E h \in DOMAIN blocks : k = bor_receipt_key(h[1], h)

ChainInv ==
    /\ chain \in Seq(DOMAIN blocks)
    /\ \A b \in DOMAIN chain :
        /\ chain[b][1] = b
        /\ CallsFollow(Block(b).payload, LastUpTo("commitSpan", b - 1),
                                         LastUpTo("onStateReceive", b - 1))

\* Blocks and payloads have only events that Heimdall has.
HeimdallInv ==
    /\ spans \in Nat
    /\ events \in Seq([at : Nat \ {0}, waiting : Nat])
    /\ LastOnChain("onStateReceive") <= Len(events)
    /\ \A p \in payload : LastOnChain("onStateReceive") + p.state_sync_count <= Len(events)

ProductionInv == HeimdallInv /\ ExecutorInv /\ BlocksInv /\ ChainInv

\* The sprints that end up to a block.
SprintsUpTo(b) == b \div sprint_size

\* The events that a full page at the end of each of them would make.
Pages(b) == limit * SprintsUpTo(b)

\* At the end of every sprint after the one in which an event arrived, a
\* page of the events before it has gone, as long as it has to wait itself;
\* and a page that is not full left no event waiting that was there.
WaitInv ==
    /\ \A i \in DOMAIN events : \A b \in 0..Len(chain) :
        LET last == LastUpTo("onStateReceive", b)
        IN  i > last => last + Pages(events[i].at) + events[i].waiting >= i + Pages(b)
    /\ \A p \in payload :
        boundary(NextNumber, sprint_size) /\ p.state_sync_count < limit =>
            \A i \in DOMAIN events :
                i > LastOnChain("onStateReceive") + p.state_sync_count =>
                    /\ events[i].at = NextNumber
                    /\ events[i].waiting = i - LastOnChain("onStateReceive")

=============================================================================
