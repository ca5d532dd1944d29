---------------------------- MODULE BorConsensus ----------------------------
(***************************************************************************)
(* bor-consensus/src/reth_consensus.rs: the consensus engine of the node.  *)
(* It shares two values between all callers, each behind a Mutex of its    *)
(* own: the span cache and the recent signers.  A call of                  *)
(* validate_block_pre_execution takes the first lock once and the second   *)
(* one twice, and gives it back in between; every locked region is one     *)
(* action, and the calls of different threads interleave between them.     *)
(*                                                                         *)
(* The module says what a call does.  Who calls, for which blocks and in   *)
(* which order is left to the modules that extend it: ChainImport and     *)
(* BodyDownload.                                                           *)
(***************************************************************************)
EXTENDS Naturals, Sequences, FiniteSets, Recents

CONSTANTS
    Threads,        \* the threads that call the engine
    Signers,        \* the addresses a seal may recover to
    NoSigner,       \* stands for the absent signer of an idle thread
    SpanIds,        \* the ids of the spans that cover the blocks in use
    ValidatorsOf,   \* the signers of each span's validator set, by span id
    SpanSize,       \* blocks per span; the code has 6400 hardwired
    CacheSize       \* capacity of the span cache; 64 in the code

ASSUME BorConsensusAssumption ==
    /\ NoSigner \notin Signers
    /\ SpanIds \subseteq Nat
    /\ ValidatorsOf \in [SpanIds -> SUBSET Signers]
    /\ \A i \in SpanIds : IsFiniteSet(ValidatorsOf[i])
    /\ SpanSize \in Nat \ {0}
    /\ CacheSize \in Nat

VARIABLES
    spans, access_order,    \* span_cache: Mutex<SpanCache>
    signers,                \* recents: Mutex<Recents>
    call                    \* what each thread is doing, its locals

\* Heimdall's span of the given id; it never changes once it exists.
HeimdallSpan(id) == [id |-> id, validators |-> ValidatorsOf[id]]

Cache == INSTANCE SpanCache WITH
    Spans <- {HeimdallSpan(i) : i \in SpanIds},
    max_size <- CacheSize

span_id_at(block_number, span_size) == block_number \div span_size

\* What a block may get wrong before its signer is known: it carries ommers
\* or withdrawals, its extra data does not parse, its seal does not recover.
BlockForms == {"well_formed", "ommers", "withdrawals", "extra_data", "seal"}

(***************************************************************************)
(* A thread is idle, or between the lookup of the span and the recents     *)
(* check, or between the check and the recording, or it has its answer:    *)
(* accepted, accepted without any check because the span was not cached    *)
(* ("skipped"), or rejected.                                               *)
(***************************************************************************)
Pcs == {"idle", "check", "record", "accepted", "skipped", "rejected"}

Idle == [pc |-> "idle", number |-> 0, signer |-> NoSigner, validators |-> {}]

Calls == [pc : Pcs, number : Nat, signer : Signers \cup {NoSigner},
          validators : SUBSET Signers]

\* BorConsensus::new
EngineInit ==
    /\ Cache!Init
    /\ signers = [b \in {} |-> NoSigner]
    /\ call = [t \in Threads |-> Idle]

\* insert_span
insert_span(id) ==
    /\ Cache!insert(HeimdallSpan(id))
    /\ UNCHANGED <<signers, call>>

\* The validator set of the span that get_span_for_block returns.
authorized_signers(number) == spans[span_id_at(number, SpanSize)].validators

-----------------------------------------------------------------------------
(***************************************************************************)
(* validate_block_pre_execution                                            *)
(***************************************************************************)

\* Checks that read the block alone fail.
RejectMalformed(t, number, signer, form) ==
    /\ form # "well_formed"
    /\ call' = [call EXCEPT ![t] =
                    [Idle EXCEPT !.pc = "rejected", !.number = number]]
    /\ UNCHANGED <<spans, access_order, signers>>

\* Mutant of LookUpSpan: the signer is not looked up in the validator set.
LookUpSpan_AnySigner(t, number, signer, form) ==
    LET id == span_id_at(number, SpanSize)
        pc == IF ~Cache!contains(id) THEN "skipped" ELSE "check"
    IN  /\ form = "well_formed"
        /\ Cache!get(id)
        /\ call' = [call EXCEPT ![t] =
                        [pc |-> pc, number |-> number, signer |-> signer,
                         validators |-> IF Cache!contains(id)
                                        THEN authorized_signers(number) ELSE {}]]
        /\ UNCHANGED signers

\* The seal recovers to the signer; get_span_for_block promotes the span in
\* the cache and clones it; a cached span decides whether the signer may sign.
LookUpSpan(t, number, signer, form) ==
    LET id == span_id_at(number, SpanSize)
        pc == IF ~Cache!contains(id) THEN "skipped"
              ELSE IF signer \in authorized_signers(number) THEN "check"
              ELSE "rejected"
    IN  /\ form = "well_formed"
        /\ Cache!get(id)
        /\ call' = [call EXCEPT ![t] =
                        [pc |-> pc, number |-> number, signer |-> signer,
                         validators |-> IF Cache!contains(id)
                                        THEN authorized_signers(number) ELSE {}]]
        /\ UNCHANGED signers

BeginValidation(t, number, signer, form) ==
    /\ call[t].pc = "idle"
    /\ \/ RejectMalformed(t, number, signer, form)
       \/ LookUpSpan(t, number, signer, form)

\* First critical section on recents: the anti-double-sign check.
CheckRecents(t) ==
    /\ call[t].pc = "check"
    /\ LET now == call[t]
           recent == is_recently_signed(signers, now.signer, now.number,
                                        Cardinality(now.validators))
       IN  call' = [call EXCEPT ![t].pc = IF recent THEN "rejected" ELSE "record"]
    /\ UNCHANGED <<spans, access_order, signers>>

\* Mutant of RecordSigner: the window of recorded signers is never pruned
\* and the signer is recorded for the next block.
RecordSigner_NextNumber(t) ==
    /\ call[t].pc = "record"
    /\ LET now == call[t] IN signers' = add_signer(signers, now.number + 1, now.signer)
    /\ call' = [call EXCEPT ![t].pc = "accepted"]
    /\ UNCHANGED <<spans, access_order>>

\* Second critical section on recents: record the signer, prune, return Ok.
RecordSigner(t) ==
    /\ call[t].pc = "record"
    /\ LET now == call[t]
       IN  signers' = prune(add_signer(signers, now.number, now.signer), now.number,
                            Cardinality(now.validators))
    /\ call' = [call EXCEPT ![t].pc = "accepted"]
    /\ UNCHANGED <<spans, access_order>>

\* The engine at work on a call it has begun.
EngineStep(t) == CheckRecents(t) \/ RecordSigner(t)

\* The caller takes the answer.
TakeAnswer(t) ==
    /\ call' = [call EXCEPT ![t] = Idle]
    /\ UNCHANGED <<spans, access_order, signers>>

-----------------------------------------------------------------------------

\* The validator set that applies to a block, and the anti-double-sign window.
ValidatorsAt(number) == ValidatorsOf[span_id_at(number, SpanSize)]

WindowAt(number) == Window(Cardinality(ValidatorsAt(number)))

=============================================================================
