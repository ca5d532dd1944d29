------------------------------ MODULE Recents ------------------------------
(***************************************************************************)
(* bor-consensus/src/recents.rs: who signed which recent block.  A Recents *)
(* value is a BTreeMap from block numbers to signers, here a function on a *)
(* finite set of numbers.                                                  *)
(***************************************************************************)
EXTENDS Naturals

SaturatingSub(a, b) == IF a >= b THEN a - b ELSE 0

\* Mutant of Window: as many blocks as there are validators.
Window_Wide(validator_count) == validator_count

\* How many blocks back a signer counts as recent.
Window(validator_count) == validator_count \div 2 + 1

\* Mutant of is_recently_signed: the oldest block of the window is missed.
is_recently_signed_Short(signers, signer, current_block, validator_count) ==
    LET start == SaturatingSub(current_block, Window(validator_count))
    IN  \E b \in DOMAIN signers :
            start < b /\ b < current_block /\ signers[b] = signer

\* signers.range(start..current_block) contains a block of the signer.
is_recently_signed(signers, signer, current_block, validator_count) ==
    LET start == SaturatingSub(current_block, Window(validator_count))
    IN  \E b \in DOMAIN signers :
            start <= b /\ b < current_block /\ signers[b] = signer

\* Mutant of add_signer: the first signer seen for a number is kept.
add_signer_KeepFirst(signers, block, signer) ==
    [b \in DOMAIN signers \cup {block} |->
        IF b \in DOMAIN signers THEN signers[b] ELSE signer]

\* BTreeMap::insert: a second block with the same number takes the place of
\* the first.
add_signer(signers, block, signer) ==
    [b \in DOMAIN signers \cup {block} |->
        IF b = block THEN signer ELSE signers[b]]

\* Mutant of prune: nothing is dropped.
prune_Nothing(signers, current_block, validator_count) == signers

\* split_off(&cutoff): what lies below the cutoff is dropped.
prune(signers, current_block, validator_count) ==
    LET cutoff == SaturatingSub(current_block, Window(validator_count))
    IN  [b \in {n \in DOMAIN signers : n >= cutoff} |-> signers[b]]

=============================================================================
