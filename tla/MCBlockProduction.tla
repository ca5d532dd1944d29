------------------------- MODULE MCBlockProduction -------------------------
EXTENDS BlockProduction

\* At the end of a sprint either no transaction, for the first and the last of
\* four sprints, or three of which two fit; in between, three of which one
\* does, because the second is too big and ends the block.
MixedBlocks ==
    [n \in 1..MaxBlock |->
        IF n % sprint_size # 0 THEN {<<2, 2, 1>>}
        ELSE IF n \in {sprint_size, 4 * sprint_size} THEN {<<>>}
        ELSE {<<1, 1, 2>>}]

=============================================================================
