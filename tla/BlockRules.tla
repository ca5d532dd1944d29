----------------------------- MODULE BlockRules -----------------------------
(***************************************************************************)
(* bor-consensus/src/validation.rs and block_validation.rs: the rules for  *)
(* a block as functions of their arguments, each a list of checks of which *)
(* the first that fails is the error returned.                             *)
(*                                                                         *)
(* A block has a signer, a timestamp, a difficulty, the validators listed  *)
(* in its extra data, and its flaws: what it gets wrong whoever reads it.  *)
(***************************************************************************)
EXTENDS Naturals, Sequences, FiniteSets, FiniteSetsExt, Recents, Difficulty

CONSTANT MAX_FUTURE_BLOCK_TIME      \* seconds; 15 in the code

ASSUME BlockRulesAssumption == MAX_FUTURE_BLOCK_TIME \in Nat

Flaws == {"nonce", "mix_hash", "ommers", "extra_data", "seal",
          "withdrawals", "state_root", "receipt_root", "gas_used"}

(***************************************************************************)
(* A list of checks is a sequence of pairs: an error, and whether it is    *)
(* found.                                                                  *)
(***************************************************************************)
FirstError(checks) ==
    LET found == {i \in DOMAIN checks : checks[i][2]}
    IN  IF found = {} THEN "Ok" ELSE checks[Min(found)][1]

\* validation::validate_header
HeaderChecks(block, number, authorized_signers, recents, current_time) ==
    <<<<"NonZeroNonce", "nonce" \in block.flaws>>,
      <<"NonZeroMixHash", "mix_hash" \in block.flaws>>,
      <<"NonEmptyOmmers", "ommers" \in block.flaws>>,
      <<"InvalidExtraData", "extra_data" \in block.flaws>>,
      <<"FutureBlock", block.timestamp > current_time + MAX_FUTURE_BLOCK_TIME>>,
      <<"SealError", "seal" \in block.flaws>>,
      <<"UnauthorizedSigner",
        ~\E i \in DOMAIN authorized_signers : authorized_signers[i] = block.signer>>,
      <<"RecentlySigned",
        is_recently_signed(recents, block.signer, number, Len(authorized_signers))>>,
      <<"WrongDifficulty",
        block.difficulty # calculate_difficulty(block.signer, authorized_signers, number)>>>>

\* Mutant of ParentChecks: the parent's timestamp may be repeated.
ParentChecks_Repeat(block, parent_timestamp) ==
    <<<<"TimestampNotIncreasing", block.timestamp < parent_timestamp>>>>

\* validation::validate_header_against_parent
ParentChecks(block, parent_timestamp) ==
    <<<<"TimestampNotIncreasing", block.timestamp <= parent_timestamp>>>>

\* block_validation::validate_block_pre_execution, the expected validators
\* given.
PreExecutionChecks(block, number, span_size, expected_validators) ==
    LET is_span_start == number > 0 /\ number % span_size = 0
    IN  <<<<"NonEmptyOmmers", "ommers" \in block.flaws>>,
          <<"NonEmptyWithdrawals", "withdrawals" \in block.flaws>>,
          <<"InvalidExtraData", is_span_start /\ "extra_data" \in block.flaws>>,
          <<"MissingValidatorsAtSpanStart", is_span_start /\ block.listed = <<>>>>,
          <<"InvalidExtraData", is_span_start /\ block.listed # expected_validators>>>>

\* block_validation::validate_block_post_execution
PostExecutionChecks(block) ==
    <<<<"StateRootMismatch", "state_root" \in block.flaws>>,
      <<"ReceiptRootMismatch", "receipt_root" \in block.flaws>>,
      <<"GasUsedMismatch", "gas_used" \in block.flaws>>>>

=============================================================================
