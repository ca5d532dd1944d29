---------------------------- MODULE SignedChain ----------------------------
(***************************************************************************)
(* What block validation owes the chain: a checked block enters it only if *)
(* its signer is a validator of the block's span and signed no checked     *)
(* block within the anti-double-sign window before it.  A block whose span *)
(* is unknown enters unchecked.  The head may be taken back.               *)
(***************************************************************************)
EXTENDS Naturals, Sequences

CONSTANTS
    Signers,
    ValidatorsAt(_),    \* who may sign the block of a number
    WindowAt(_),        \* how many blocks back its signer must be absent
    MaxBlock            \* bound: the length of the chain

VARIABLE chain          \* a sequence of [signer, checked]

Init == chain = <<>>

\* The signers of the checked blocks in the window of block n.
InWindow(n) ==
    {chain[i].signer : i \in {j \in 1..Len(chain) :
                                n - j <= WindowAt(n) /\ chain[j].checked}}

ExtendChecked(s) ==
    /\ s \in ValidatorsAt(Len(chain) + 1) \ InWindow(Len(chain) + 1)
    /\ chain' = Append(chain, [signer |-> s, checked |-> TRUE])

ExtendUnchecked(s) ==
    chain' = Append(chain, [signer |-> s, checked |-> FALSE])

Extend(s) ==
    /\ Len(chain) < MaxBlock
    /\ ExtendChecked(s) \/ ExtendUnchecked(s)

Retract ==
    /\ chain # <<>>
    /\ chain' = SubSeq(chain, 1, Len(chain) - 1)

Next == (\E s \in Signers : Extend(s)) \/ Retract

Spec == Init /\ [][Next]_chain

=============================================================================
