--------------------------- MODULE MCChainImport ---------------------------
(***************************************************************************)
(* Instances of ChainImport.  Span 0 covers the blocks below SpanSize.     *)
(***************************************************************************)
EXTENDS ChainImport, TLC

CONSTANTS v1, v2, v3, v4, v5

\* Three validators, then four: the window grows from two blocks to three.
GrowingSet == 0 :> {v1, v2, v3} @@ 1 :> {v1, v2, v3, v4}

\* The first three are in every set: they may trade places.
Interchangeable == Permutations({v1, v2, v3})

\* Five validators throughout: the window is three blocks.
FiveValidators == 0 :> {v1, v2, v3, v4, v5}

(***************************************************************************)
(* Every span is cached before the first block is offered, as the engine's *)
(* documentation asks; the span ids of these instances are 0..k.           *)
(***************************************************************************)
CachedInit ==
    /\ spans = [i \in SpanIds |-> HeimdallSpan(i)]
    /\ access_order = [p \in 1..Cardinality(SpanIds) |-> p - 1]
    /\ signers = [n \in {} |-> NoSigner]
    /\ call = [t \in Threads |-> Idle]
    /\ imported = <<>>
    /\ top = 0

CachedSpec == CachedInit /\ [][Next]_vars

=============================================================================
