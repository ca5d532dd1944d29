---------------------------- MODULE ChainImport ----------------------------
(***************************************************************************)
(* One chain imported through the consensus engine: a single caller offers *)
(* candidate blocks for the next height, executes the ones the engine      *)
(* accepts, and may unwind the head of the chain when another branch wins. *)
(* The engine is told of neither an execution that fails nor an unwind:    *)
(* what it recorded of the abandoned blocks stays in recents, and what it  *)
(* pruned for them stays lost.                                             *)
(*                                                                         *)
(* The caller is reth, which is not part of the repository; it is modelled *)
(* by the calls bin/boreth wires it to make.                               *)
(***************************************************************************)
EXTENDS BorConsensus

CONSTANTS
    MaxBlock,       \* bound: the greatest block number imported
    UnwindSlack     \* how far below the highest block ever recorded the
                    \* next block to validate may lie after unwinding

ASSUME ChainImportAssumption ==
    /\ \E t \in Threads : Threads = {t}
    /\ MaxBlock \in Nat
    /\ UnwindSlack \in Nat
    /\ \A n \in 1..MaxBlock : span_id_at(n, SpanSize) \in SpanIds

VARIABLES
    imported,   \* the chain: signer of each block, and whether the engine
                \* checked it or skipped the check for want of its span
    top         \* the highest block number recorded in recents so far

vars == <<spans, access_order, signers, call, imported, top>>

Init ==
    /\ EngineInit
    /\ imported = <<>>
    /\ top = 0

NextNumber == Len(imported) + 1

\* A peer or the sync pipeline offers a block that extends the chain.
OfferBlock(t) ==
    /\ NextNumber <= MaxBlock
    /\ \E signer \in Signers, form \in BlockForms :
            BeginValidation(t, NextNumber, signer, form)
    /\ UNCHANGED <<imported, top>>

Check(t) == CheckRecents(t) /\ UNCHANGED <<imported, top>>

Record(t) ==
    /\ RecordSigner(t)
    /\ top' = IF call[t].number > top THEN call[t].number ELSE top
    /\ UNCHANGED imported

\* The block is executed, validate_block_post_execution agrees on the gas
\* used, and the chain grows.
ImportBlock(t) ==
    /\ call[t].pc \in {"accepted", "skipped"}
    /\ imported' = Append(imported, [signer |-> call[t].signer,
                                     checked |-> call[t].pc = "accepted"])
    /\ TakeAnswer(t)
    /\ UNCHANGED top

\* Execution fails, or validate_block_post_execution finds other gas used.
FailExecution(t) ==
    /\ call[t].pc \in {"accepted", "skipped"}
    /\ TakeAnswer(t)
    /\ UNCHANGED <<imported, top>>

DropBlock(t) ==
    /\ call[t].pc = "rejected"
    /\ TakeAnswer(t)
    /\ UNCHANGED <<imported, top>>

\* The head of the chain is removed.
Unwind ==
    /\ \A t \in Threads : call[t].pc = "idle"
    /\ imported # <<>>
    /\ Len(imported) + UnwindSlack >= top
    /\ imported' = SubSeq(imported, 1, Len(imported) - 1)
    /\ UNCHANGED <<spans, access_order, signers, call, top>>

CacheSpan ==
    /\ \E id \in SpanIds : insert_span(id)
    /\ UNCHANGED <<imported, top>>

Next ==
    \/ \E t \in Threads :
            \/ OfferBlock(t)
            \/ Check(t)
            \/ Record(t)
            \/ ImportBlock(t)
            \/ FailExecution(t)
            \/ DropBlock(t)
    \/ Unwind
    \/ CacheSpan

Spec == Init /\ [][Next]_vars

-----------------------------------------------------------------------------
(***************************************************************************)
(* Properties                                                              *)
(***************************************************************************)

\* Two blocks of the chain that the engine checked, the earlier one inside
\* the anti-double-sign window of the later one, have different signers:
\* what Recents is for.
NoDoubleSign ==
    \A i, j \in DOMAIN imported :
        /\ i < j
        /\ j - i <= WindowAt(j)
        /\ imported[i].checked
        /\ imported[j].checked
        => imported[i].signer # imported[j].signer

Abstract == INSTANCE SignedChain WITH chain <- imported

\* The engine, with its cache, its pruned map of recent signers and its two
\* separate critical sections, implements the chain of SignedChain: every
\* checked block was signed by a validator of its span who was absent from
\* the window, whatever failed or was unwound in between.
RefinesSignedChain == Abstract!Spec

\* recents never holds more than the blocks from the last cutoff up to the
\* highest block: one window, the block itself, and what an unwind leaves.
MaxWindow == CHOOSE w \in {WindowAt(n) : n \in 1..MaxBlock} :
                \A n \in 1..MaxBlock : WindowAt(n) <= w

RecentsBounded ==
    Cardinality(DOMAIN signers) <= MaxWindow + 1 + UnwindSlack

\* Some validator of the next block's span may sign it: the window never
\* shuts everybody out.
SomeoneCanSign ==
    NextNumber <= MaxBlock =>
        \E s \in ValidatorsAt(NextNumber) :
            ~is_recently_signed(signers, s, NextNumber,
                                Cardinality(ValidatorsAt(NextNumber)))

\* The anti-double-sign check turns down a block only when its signer really
\* signed a block of this chain inside the window: what recents kept of
\* blocks that failed or were unwound never speaks against a signer.
RejectionsJustified ==
    [][\A t \in Threads :
            call[t].pc = "check" /\ call'[t].pc = "rejected" =>
                \E i \in DOMAIN imported :
                    /\ imported[i].signer = call[t].signer
                    /\ call[t].number - i <= WindowAt(call[t].number)]_vars

-----------------------------------------------------------------------------
(***************************************************************************)
(* Why NoDoubleSign holds.  Pruning for block k must leave everything that *)
(* a block validated later can still look at: the later block's number may *)
(* lie UnwindSlack below k, and its window may be wider than k's.          *)
(***************************************************************************)
WindowStart(n) == SaturatingSub(n, WindowAt(n))

WindowsNested ==
    \A k, m \in 1..MaxBlock : k <= m + UnwindSlack => WindowStart(k) <= WindowStart(m)

\* From one block to the next, that is where a span ends, at most two
\* validators more come in than go out.
SetsGrowByTwo ==
    \A n \in 1..MaxBlock : n + 1 \in 1..MaxBlock =>
        Cardinality(ValidatorsAt(n + 1)) <= Cardinality(ValidatorsAt(n)) + 2

\* The cache hands out the span that Heimdall has for the id.
CacheIsHonest ==
    \A id \in DOMAIN spans : id \in SpanIds /\ spans[id] = HeimdallSpan(id)

\* A call past its lookup is about the block that comes next; past the
\* authorization it carries the validators of that block's span, and its
\* signer is one of them.
CallIsCurrent ==
    \A t \in Threads :
        /\ call[t].pc \in {"check", "record", "accepted", "skipped"} =>
            /\ call[t].number = NextNumber
            /\ NextNumber <= MaxBlock
            /\ call[t].signer \in Signers
        /\ call[t].pc \in {"check", "record", "accepted"} =>
            /\ call[t].validators = ValidatorsAt(NextNumber)
            /\ call[t].signer \in ValidatorsAt(NextNumber)

\* Unwinding stays within the slack.
HeadNearTop == NextNumber + UnwindSlack >= top

\* recents knows the signer of every checked block that some block still to
\* be validated has in its window.
RecentsCoverWindows ==
    \A m \in 1..MaxBlock, i \in DOMAIN imported :
        /\ m + UnwindSlack >= top
        /\ WindowStart(m) <= i
        /\ i < m
        /\ imported[i].checked
        => i \in DOMAIN signers /\ signers[i] = imported[i].signer

\* A signer past the check is in no window entry of the chain, and still so
\* when the block is imported, although the lock was given back in between.
CheckStillHolds ==
    \A t \in Threads :
        call[t].pc \in {"record", "accepted"} =>
            \A i \in DOMAIN imported :
                WindowStart(NextNumber) <= i /\ imported[i].checked
                    => imported[i].signer # call[t].signer

\* An accepted block is on record.
AcceptedIsRecorded ==
    \A t \in Threads :
        call[t].pc = "accepted" =>
            /\ NextNumber \in DOMAIN signers
            /\ signers[NextNumber] = call[t].signer

\* recents lies between the start of the window it was pruned for last and
\* the highest block, which unwinding keeps near that window.
RecentsInRange ==
    /\ DOMAIN signers \subseteq 1..top
    /\ \/ DOMAIN signers = {}
       \/ \E n \in 1..MaxBlock : DOMAIN signers \subseteq WindowStart(n)..(n + UnwindSlack)

\* The engine's locals and recents and the caller's chain have their types;
\* the chain never outgrows the bound.
TypeOK ==
    /\ DOMAIN signers \subseteq Nat
    /\ call \in [Threads -> Calls]
    /\ imported \in Seq([signer : Signers, checked : BOOLEAN])
    /\ Len(imported) <= MaxBlock
    /\ top \in Nat

\* What holds whatever the windows are: the state of a call fits the chain,
\* and recents stays near its head.
CoreInv ==
    /\ TypeOK
    /\ CacheIsHonest
    /\ CallIsCurrent
    /\ HeadNearTop
    /\ AcceptedIsRecorded
    /\ RecentsInRange

\* The inductive invariant behind NoDoubleSign: what the engine remembers of
\* recent signers is enough for every block that can still be offered, at
\* every point between its two critical sections.
ImportInv ==
    /\ CoreInv
    /\ RecentsCoverWindows
    /\ CheckStillHolds
    /\ NoDoubleSign

(***************************************************************************)
(* Why RejectionsJustified holds.  A block is imported without being       *)
(* recorded when its span is not cached; if that could happen to a block   *)
(* number that recents has an entry for, from a block that failed or was   *)
(* unwound, the entry would speak for a signer of no block.                *)
(***************************************************************************)
CacheHoldsAll ==
    \/ CacheSize = 0
    \/ IsFiniteSet(SpanIds) /\ Cardinality(SpanIds) <= CacheSize

\* What recents says of a block of the chain is true; the span of every block
\* on record is cached, so that no block of that number can skip the check.
RecentsAreTrue ==
    /\ \A b \in DOMAIN signers : Cache!contains(span_id_at(b, SpanSize))
    /\ \A b \in DOMAIN signers \cap DOMAIN imported : signers[b] = imported[b].signer
    /\ \A t \in Threads :
        /\ call[t].pc \in {"check", "record"} =>
                Cache!contains(span_id_at(NextNumber, SpanSize))
        /\ call[t].pc = "skipped" => NextNumber \notin DOMAIN signers

\* The anti-double-sign window is shorter than the validator set.
EnoughValidators == \A n \in 1..MaxBlock : Cardinality(ValidatorsAt(n)) > 2

=============================================================================
