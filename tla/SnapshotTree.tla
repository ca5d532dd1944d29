---------------------------- MODULE SnapshotTree ----------------------------
(***************************************************************************)
(* bor-consensus/src/snapshot.rs with the rules of BlockRules and the      *)
(* snapshot store of bor-node/src/node.rs: blocks validated against the    *)
(* snapshot of their parent.  A snapshot carries the validator set and the *)
(* recent signers of one branch; it is stored, encoded, under the hash of  *)
(* its block.  Blocks of competing branches arrive in any order, parents   *)
(* before children, while the clock goes on; the stores are in memory, so  *)
(* that a restart of the node loses them all.                              *)
(*                                                                         *)
(* The repository has the functions; only its tests call one after the     *)
(* other.  ImportBlock does so the way they are meant to be used.          *)
(*                                                                         *)
(* A block is named by its branch, the sequence of the blocks from block 1 *)
(* to the block itself; the branch is the block's hash.                    *)
(***************************************************************************)
EXTENDS BlockRules, RootHash

CONSTANTS
    Signers,        \* the addresses a seal may recover to
    Validators,     \* the validator set, a sequence of signers
    span_size,      \* blocks per span
    MaxBlock,       \* bound: the greatest block number
    MaxStored,      \* bound: how many snapshots are stored
    MaxTime,        \* bound: the clock, in seconds
    MaxWait         \* bound: seconds from a block to the next

ASSUME SnapshotTreeAssumption ==
    /\ Validators \in Seq(Signers)
    /\ Len(Validators) > 0
    /\ \A i, j \in 1..Len(Validators) : Validators[i] = Validators[j] => i = j
    /\ span_size \in Nat \ {0}
    /\ MaxBlock \in Nat
    /\ MaxStored \in Nat
    /\ MaxTime \in Nat
    /\ MaxWait \in Nat

VARIABLES
    store,      \* the encoded snapshots, by block hash
    now         \* the clock

vars == <<store, now>>

\* BorSnapshot::new
NewSnapshot(number, hash) == [number |-> number, hash |-> hash, recents |-> [b \in {} |-> {}]]

\* Mutant of apply: the recent signers are pruned with a window counted from
\* two blocks later.
apply_EarlyCut(snap, block_number, signer) ==
    [snap EXCEPT !.number = block_number,
                 !.recents = prune(add_signer(@, block_number, signer),
                                   block_number + 2, Len(Validators))]

\* Mutant of apply: the block number is left as it was.
apply_StaleNumber(snap, block_number, signer) ==
    [snap EXCEPT !.recents = prune(add_signer(@, block_number, signer),
                                   block_number, Len(Validators))]

\* BorSnapshot::apply: the hash stays that of the snapshot it started from.
apply(snap, block_number, signer) ==
    [number |-> block_number, hash |-> snap.hash,
     recents |-> prune(add_signer(snap.recents, block_number, signer),
                       block_number, Len(Validators))]

\* BorSnapshot::encode and decode: the map is written entry by entry.
Entries(map) == {<<b, map[b]>> : b \in DOMAIN map}

FromEntries(entries) ==
    [b \in {e[1] : e \in entries} |-> (CHOOSE e \in entries : e[1] = b)[2]]

encode(snap) == [snap EXCEPT !.recents = Entries(@)]

decode(data) == [data EXCEPT !.recents = FromEntries(@)]

\* InMemorySnapshotStore::put_snapshot
Inserted(map, key, data) ==
    [k \in DOMAIN map \cup {key} |-> IF k = key THEN data ELSE map[k]]

\* BorNode::put_snapshot
put_snapshot(block_hash, snapshot) == store' = Inserted(store, block_hash, encode(snapshot))

\* Mutant of get_snapshot: any snapshot of the same height will do.
get_snapshot_ByNumber(block_hash) ==
    decode(store[CHOOSE h \in DOMAIN store : Len(h) = Len(block_hash)])

\* BorNode::get_snapshot, of a block that is stored.
get_snapshot(block_hash) == decode(store[block_hash])

\* The store that BorNode::new creates, which is empty, once its user has put
\* the snapshot of the genesis block there: the first block needs a parent's.
NewStore == [h \in {<<>>} |-> encode(NewSnapshot(0, <<>>))]

Timestamp(branch) == IF branch = <<>> THEN 0 ELSE branch[Len(branch)].timestamp

(***************************************************************************)
(* The verdict on a block that extends the parent, by the parent's         *)
(* snapshot and at the given time: the header on its own and against its   *)
(* parent, the block before and after its execution, in this order.        *)
(***************************************************************************)
Verdict(block, parent, snap, time) ==
    LET number == snap.number + 1
    IN  FirstError(HeaderChecks(block, number, Validators, snap.recents, time)
                    \o ParentChecks(block, Timestamp(parent))
                    \o PreExecutionChecks(block, number, span_size, Validators)
                    \o PostExecutionChecks(block))

\* The block a validator would sign next on a branch, a second after the last.
NextBlock(signer, branch) ==
    LET number == Len(branch) + 1
    IN  [signer |-> signer, timestamp |-> Timestamp(branch) + 1, flaws |-> {},
         difficulty |-> calculate_difficulty(signer, Validators, number),
         listed |-> IF number % span_size = 0 THEN Validators ELSE <<>>]

\* What may be offered on a branch: a block signed by anybody, dated up to
\* MaxWait seconds later, that is right otherwise or wrong in one respect.
Offers(branch) ==
    LET dated == {[NextBlock(s, branch) EXCEPT !.timestamp = @ - 1 + wait] :
                        s \in Signers, wait \in 0..MaxWait}
        twisted(block) ==
            {[block EXCEPT !.difficulty = @ + 1], [block EXCEPT !.listed = Tail(Validators)]}
                \cup {[block EXCEPT !.flaws = {f}] : f \in Flaws}
    IN  dated \cup UNION {twisted(NextBlock(s, branch)) : s \in Signers}

Init ==
    /\ store = NewStore
    /\ now = 0

\* A block arrives whose parent's snapshot get_snapshot finds.
ImportBlock ==
    \E parent \in DOMAIN store : \E block \in Offers(parent) :
        LET hash == Append(parent, block)
            snap == get_snapshot(parent)
        IN  /\ Len(parent) < MaxBlock
            /\ Cardinality(DOMAIN store) < MaxStored
            /\ hash \notin DOMAIN store
            /\ Verdict(block, parent, snap, now) = "Ok"
            /\ put_snapshot(hash, apply(snap, snap.number + 1, block.signer))
            /\ UNCHANGED now

Tick ==
    /\ now < MaxTime
    /\ now' = now + 1
    /\ UNCHANGED store

\* The process ends and starts again; the clock does not stop for it.
Restart ==
    /\ store' = NewStore
    /\ UNCHANGED now

Next == ImportBlock \/ Tick \/ Restart

Spec == Init /\ [][Next]_vars

-----------------------------------------------------------------------------

Hashes == DOMAIN store \ {<<>>}
Last(branch) == branch[Len(branch)]

\* On no branch do two blocks within the anti-double-sign window have the
\* same signer, however the branches' blocks interleave: every snapshot
\* keeps the recent signers of its own branch, and pruning keeps enough.
NoDoubleSignOnBranch ==
    \A branch \in Hashes :
        \A i \in 1..(Len(branch) - 1) :
            Len(branch) - i <= Window(Len(Validators))
                => branch[i].signer # Last(branch).signer

\* A snapshot is a function of its branch alone: its recent signers are the
\* last blocks of the branch, a window of them and the block itself, whatever
\* else was stored and however often the node was started anew.
RecentsAreBranchTail ==
    \A h \in DOMAIN store :
        LET recents == get_snapshot(h).recents
        IN  /\ get_snapshot(h).number = Len(h)
            /\ DOMAIN recents =
                    {n \in 1..Len(h) : n >= SaturatingSub(Len(h), Window(Len(Validators)))}
            /\ \A n \in DOMAIN recents : recents[n] = h[n].signer

\* Siblings are told apart by their difficulty: two validators never compete
\* for a height with headers of equal weight, and the in-turn signer's
\* header outweighs every other.
SiblingsDiffer ==
    \A g, h \in Hashes :
        Len(g) = Len(h) /\ Last(g).signer # Last(h).signer
        => /\ Last(g).difficulty # Last(h).difficulty
           /\ is_inturn(Last(g).signer, Validators, Len(g))
                    => Last(g).difficulty > Last(h).difficulty

\* Some validator may extend every stored block as soon as its time has come.
EveryBranchGrows ==
    \A h \in DOMAIN store :
        \E s \in Signers :
            Verdict(NextBlock(s, h), h, get_snapshot(h), Timestamp(h) + 1) = "Ok"

\* No branch outgrows the clock: with a clock that does not go back, the two
\* rules on timestamps bound how many blocks anybody can pile up.
ChainWithinClock ==
    \A h \in DOMAIN store : Len(h) <= now + MAX_FUTURE_BLOCK_TIME

\* The only verdict that time, other blocks or a restart can change is that a
\* block comes from the future: every other verdict on a block, acceptance
\* included, is final as long as its parent is known.
VerdictsStand ==
    [][\A parent \in DOMAIN store \cap DOMAIN store' :
        \A block \in {NextBlock(s, parent) : s \in Signers},
           before \in {get_snapshot(parent)}, after \in {get_snapshot(parent)'} :
            Verdict(block, parent, before, now) \in
                {Verdict(block, parent, after, now'), "FutureBlock"}]_vars

\* The hashes of the blocks of a range of a branch.
BlockHashes(branch, start, end) ==
    [i \in 1..(end - start + 1) |-> [branch |-> SubSeq(branch, 1, start + i - 1)]]

Ranges ==
    {BlockHashes(r[1], r[2], r[3]) :
        r \in {q \in Hashes \X (1..MaxBlock) \X (1..MaxBlock) :
                    q[2] <= q[3] /\ q[3] <= Len(q[1])}}

\* bor_getRootHash binds its range: two ranges of stored blocks have the same
\* root only if they are the same blocks, although short ranges are padded
\* and a range of one block is not hashed at all.
RootBindsRange ==
    Cardinality({compute_root_hash(hashes) : hashes \in Ranges}) = Cardinality(Ranges)

-----------------------------------------------------------------------------
(***************************************************************************)
(* Why the properties hold: a stored snapshot is determined by its branch, *)
(* and a stored branch ends in a block that passed.                        *)
(***************************************************************************)
Blocks ==
    [signer : Signers, timestamp : Nat, flaws : SUBSET Flaws, difficulty : Nat,
     listed : Seq(Signers)]

TailOf(number) ==
    {n \in 1..number : n >= SaturatingSub(number, Window(Len(Validators)))}

SnapshotOf(branch) ==
    [number |-> Len(branch), hash |-> <<>>,
     recents |-> [n \in TailOf(Len(branch)) |-> branch[n].signer]]

IsValidator(signer) == \E i \in 1..Len(Validators) : Validators[i] = signer

\* What the rules ask of the last block of a branch.
LastIsLegal(branch) ==
    LET last == Last(branch)
    IN  /\ IsValidator(last.signer)
        /\ last.difficulty = calculate_difficulty(last.signer, Validators, Len(branch))
        /\ \A i \in 1..(Len(branch) - 1) :
                Len(branch) - i <= Window(Len(Validators)) => branch[i].signer # last.signer

\* A stored branch is made of blocks, its last block is legal, it is no longer
\* than its last timestamp and no younger than the clock allows, and what is
\* stored under it is its snapshot.
IsSound(branch) ==
    /\ branch \in Seq(Blocks)
    /\ branch # <<>> => LastIsLegal(branch)
    /\ Len(branch) <= Timestamp(branch)
    /\ Timestamp(branch) <= now + MAX_FUTURE_BLOCK_TIME
    /\ store[branch] = encode(SnapshotOf(branch))

\* The inductive invariant of the tree.
TreeInv ==
    /\ now \in Nat
    /\ \A branch \in DOMAIN store : IsSound(branch)

=============================================================================
