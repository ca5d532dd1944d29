--------------------------- MODULE MCHeaderRules ---------------------------
(***************************************************************************)
(* Instances of HeaderRules: one validator, one parent, two values for     *)
(* most fields of a header.                                                *)
(***************************************************************************)
EXTENDS FiniteSets, HeaderRules

\* The parent is the block below the number that the models seal.
TheParent == [number |-> 5, hash |-> "parent", timestamp |-> 1]

\* block_gas_limit of the era.
EraGasLimit == 2

\* Empty, a byte short of the minimum, no validators, one, and one and a half.
ExtraLengths == {0, MIN_EXTRA_DATA_LEN - 1, MIN_EXTRA_DATA_LEN,
                 MIN_EXTRA_DATA_LEN + 20, MIN_EXTRA_DATA_LEN + 30}

\* Right and wrong values of each field, one optional field at a time.
FewValues ==
    [number |-> {6, 7}, parent_hash |-> {"parent", "other"}, timestamp |-> {1, 2},
     nonce |-> {0, 1}, ommers |-> {"empty", "some"}, difficulty |-> {0, 1},
     beneficiary |-> {"zero", "other"}, mix_hash |-> {0, 1},
     gas_limit |-> {EraGasLimit, EraGasLimit + 1}, gas_used |-> {0, EraGasLimit + 1},
     transactions_root |-> {1, 2}, extra |-> ExtraLengths, base_fee |-> {{}, {1}},
     optional |-> {fs \in SUBSET OptionalFields : Cardinality(fs) <= 1}]

=============================================================================
