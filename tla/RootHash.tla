------------------------------ MODULE RootHash ------------------------------
(***************************************************************************)
(* bor-rpc/src/methods.rs: compute_root_hash, the Merkle root of the       *)
(* hashes of a range of blocks that bor_getRootHash answers with.  Keccak  *)
(* of two hashes is the pair of them.                                      *)
(***************************************************************************)
EXTENDS Naturals, Sequences

ZERO == [zero |-> 0]

keccak256(left, right) == [left |-> left, right |-> right]

PowerOfTwo[k \in Nat] == IF k = 0 THEN 1 ELSE 2 * PowerOfTwo[k - 1]

\* The exponent of the next power of two: how often that width must be halved
\* until one hash is left.
Height(n) ==
    CHOOSE k \in 0..n : PowerOfTwo[k] >= n /\ \A j \in 0..(k - 1) : PowerOfTwo[j] < n

\* Mutant of Padded: what does not fill a power of two is cut off.
Padded_Cut(hashes) == SubSeq(hashes, 1, PowerOfTwo[Height(Len(hashes) + 1) - 1])

\* The bottom level, padded to the next power of two.
Padded(hashes) ==
    [i \in 1..PowerOfTwo[Height(Len(hashes))] |-> IF i <= Len(hashes) THEN hashes[i] ELSE ZERO]

\* The level above: hashes two by two.
NextLevel(level) ==
    [i \in 1..(Len(level) \div 2) |-> keccak256(level[2 * i - 1], level[2 * i])]

compute_root_hash(block_hashes) ==
    LET bottom == Padded(block_hashes)
        current_level[k \in 0..Height(Len(bottom))] ==
            IF k = 0 THEN bottom ELSE NextLevel(current_level[k - 1])
    IN  IF block_hashes = <<>> THEN ZERO ELSE current_level[Height(Len(bottom))][1]

=============================================================================
