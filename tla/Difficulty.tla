----------------------------- MODULE Difficulty -----------------------------
(***************************************************************************)
(* bor-consensus/src/difficulty.rs: the difficulty a block must carry, by  *)
(* who signed it.  A validator list is a sequence; the code counts its     *)
(* positions from 0, so position i of the code is element i + 1 here.      *)
(***************************************************************************)
EXTENDS Naturals, Sequences

diff_inturn(validator_count) == validator_count

diff_noturn(validator_count, distance) ==
    IF distance >= validator_count THEN 1 ELSE validator_count - distance

is_inturn(signer, validators, block_number) ==
    /\ Len(validators) > 0
    /\ validators[(block_number % Len(validators)) + 1] = signer

\* Iterator::position, counted from 0.
SignerIndex(signer, validators) ==
    CHOOSE i \in 0..(Len(validators) - 1) :
        /\ validators[i + 1] = signer
        /\ \A j \in 0..(i - 1) : validators[j + 1] # signer

\* Mutant of Distance: the distance is not taken round the circle.
Distance_Straight(signer_idx, inturn_idx, count) ==
    IF signer_idx > inturn_idx THEN signer_idx - inturn_idx
                               ELSE inturn_idx - signer_idx

\* How far behind the in-turn position the signer is, round the circle.
Distance(signer_idx, inturn_idx, count) ==
    IF signer_idx > inturn_idx THEN signer_idx - inturn_idx
                               ELSE count - inturn_idx + signer_idx

calculate_difficulty(signer, validators, block_number) ==
    LET count == Len(validators)
        inturn_idx == block_number % count
        signer_idx == SignerIndex(signer, validators)
    IN  IF count = 0 THEN 1
        ELSE IF ~\E i \in 1..count : validators[i] = signer THEN 1
        ELSE IF signer_idx = inturn_idx THEN diff_inturn(count)
        ELSE diff_noturn(count, Distance(signer_idx, inturn_idx, count))

=============================================================================
