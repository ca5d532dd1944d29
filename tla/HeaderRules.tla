---------------------------- MODULE HeaderRules ----------------------------
(***************************************************************************)
(* The rules a single block goes through in the consensus engine:          *)
(* validate_header, validate_header_against_parent,                        *)
(* validate_body_against_header and the seal checks of                     *)
(* validate_block_pre_execution (bor-consensus/src/reth_consensus.rs),     *)
(* with the extra data of extra_data.rs and the seal hash of seal.rs.      *)
(*                                                                         *)
(* A validator seals a header; what reaches the engine is that seal on     *)
(* some header and body, the sealed ones or others that were mixed up or   *)
(* damaged on their way, in two fields at most.  The other source of       *)
(* headers is the node's own block assembler (bor-evm/src/build.rs), which *)
(* writes down the environment in which the block was executed.            *)
(*                                                                         *)
(* Keccak and ECDSA are external: a hash is the list that is hashed, and a *)
(* seal recovers to its signer for the hash it was made for, and to some   *)
(* other address for any other hash.                                       *)
(***************************************************************************)
EXTENDS Integers, Sequences, BlockEnv

CONSTANTS
    Validator,      \* the validator who seals
    Stranger,       \* what a seal recovers to on a header it was not made for
    Parent,         \* the block on which the others are built
    Values          \* for each field of a header, the values it may have

VARIABLES
    sealed,     \* the header the validator sealed
    header,     \* the header the engine is given
    body,       \* and the body
    pc,         \* which of the engine's checks it has passed
    merged,     \* whether the chain spec counts the merge as active
    env         \* {} or {env}: the environment of the block being built

rules_vars == <<sealed, header, body, pc, merged, env>>

(***************************************************************************)
(* Headers.  The base fee is an option: {} or {fee}; of the fields that    *)
(* only later Ethereum headers have, those present are listed.  Extra data *)
(* is given by its length: vanity, addresses of validators, seal.          *)
(***************************************************************************)
OptionalFields == {"withdrawals_root", "blob_gas_used", "excess_blob_gas",
                   "parent_beacon_block_root", "requests_hash"}

Fields == {"number", "parent_hash", "timestamp", "nonce", "ommers", "difficulty",
           "beneficiary", "mix_hash", "gas_limit", "gas_used", "transactions_root",
           "extra", "base_fee", "optional"}

IsOption(option) == \A v, w \in option : v = w

ASSUME HeaderRulesAssumption ==
    /\ Validator # Stranger
    /\ Parent.number \in Nat /\ Parent.timestamp \in Nat
    /\ Values.timestamp \subseteq Nat /\ Values.extra \subseteq Nat
    /\ Values.gas_limit \subseteq Nat /\ Values.gas_used \subseteq Nat
    /\ \A fee \in Values.base_fee : IsOption(fee)
    /\ Values.optional \subseteq SUBSET OptionalFields

EXTRADATA_VANITY_LEN == 32
EXTRADATA_SEAL_LEN == 65
ADDRESS_LEN == 20
MIN_EXTRA_DATA_LEN == EXTRADATA_VANITY_LEN + EXTRADATA_SEAL_LEN

\* A body, its transactions given by their root.
Bodies == [transactions : Values.transactions_root, ommers : BOOLEAN, withdrawals : BOOLEAN]

\* ExtraData::parse succeeds on extra data of this length.
parses(len) ==
    /\ len >= MIN_EXTRA_DATA_LEN
    /\ (len - MIN_EXTRA_DATA_LEN) % ADDRESS_LEN = 0

\* What a validator seals extends the parent and has the form of a Bor
\* header.  The difficulty, the mix hash, the gas and the base fee are what
\* the validator put there: a header that breaks the rules on them can be
\* sealed (KeepsRules has the rules).
Sealable ==
    [number : {Parent.number + 1}, parent_hash : {Parent.hash},
     timestamp : {t \in Values.timestamp : t > Parent.timestamp},
     nonce : {0}, ommers : {"empty"}, difficulty : Values.difficulty,
     beneficiary : Values.beneficiary, mix_hash : Values.mix_hash,
     gas_limit : Values.gas_limit, gas_used : Values.gas_used,
     transactions_root : Values.transactions_root,
     extra : {len \in Values.extra : parses(len)},
     base_fee : Values.base_fee, optional : {{}}]

(***************************************************************************)
(* compute_seal_hash: the encoded fields one after the other.  Numbers and *)
(* roots are told apart by their length, and nothing marks the place of an *)
(* optional field that is missing.                                         *)
(***************************************************************************)
Number(v) == [number |-> v]
Root(v) == [root |-> v]

EncodedFee(base_fee) ==
    IF base_fee = {} THEN <<>> ELSE <<Number(unwrap_or_default(base_fee))>>

Encoded(h, field) ==
    IF field \notin h.optional THEN <<>>
    ELSE IF field \in {"blob_gas_used", "excess_blob_gas"} THEN <<Number(1)>>
    ELSE <<Root(1)>>

\* The fields that every header has, up to the base fee.
FixedFields(h, extra) ==
    <<Root(h.parent_hash), Root(h.ommers), h.beneficiary, Root(h.transactions_root),
      Number(h.difficulty), Number(h.number), Number(h.gas_limit), Number(h.gas_used),
      Number(h.timestamp), extra, Root(h.mix_hash), Number(h.nonce)>>

\* Mutant of compute_seal_hash: the seal is left in the extra data.
compute_seal_hash_Unstripped(h, seal) ==
    FixedFields(h, <<h.extra, seal>>) \o EncodedFee(h.base_fee)

compute_seal_hash(h, seal) ==
    FixedFields(h, h.extra)
    \o EncodedFee(h.base_fee)
    \o Encoded(h, "withdrawals_root")
    \o Encoded(h, "blob_gas_used")
    \o Encoded(h, "excess_blob_gas")
    \o Encoded(h, "parent_beacon_block_root")
    \o Encoded(h, "requests_hash")

\* A seal that has not been made yet, and the one the validator makes.
Blank == [by |-> Stranger, over |-> <<>>]
Seal == [by |-> Validator, over |-> compute_seal_hash(sealed, Blank)]

ecrecover_seal(hash, seal) == IF seal.over = hash THEN seal.by ELSE Stranger

-----------------------------------------------------------------------------

RulesInit ==
    /\ sealed \in Sealable
    /\ header = sealed
    /\ body \in Bodies
    /\ pc = "idle"
    /\ merged \in BOOLEAN
    /\ env = {}

\* The headers that differ from the given one in at most one field.
Altered(h) == UNION {{[h EXCEPT ![f] = v] : v \in Values[f]} : f \in Fields}

\* A block arrives under the validator's seal.
Receive ==
    /\ pc = "idle"
    /\ header' \in UNION {Altered(h) : h \in Altered(sealed)}
    /\ pc' = "received"
    /\ UNCHANGED <<sealed, body, merged, env>>

\* The caller has the engine's answer and waits for another block.
TakeAnswer ==
    /\ pc \in {"accepted", "rejected"}
    /\ header' = sealed
    /\ pc' = "idle"
    /\ env' = {}
    /\ UNCHANGED <<sealed, body, merged>>

\* Mutant of assemble_block: the randomness is not written down.
assemble_block_NoMixHash(block_env, parent_hash, transactions_root, gas_used) ==
    [number |-> block_env.number, parent_hash |-> parent_hash,
     timestamp |-> block_env.timestamp, nonce |-> 0, ommers |-> "empty",
     difficulty |-> block_env.difficulty, beneficiary |-> block_env.beneficiary,
     mix_hash |-> 0, gas_limit |-> block_env.gas_limit, gas_used |-> gas_used,
     transactions_root |-> transactions_root, extra |-> 0,
     base_fee |-> {block_env.basefee}, optional |-> {}]

(***************************************************************************)
(* assemble_block: the fields of the environment, the constants of Bor,    *)
(* and no extra data at all.                                               *)
(***************************************************************************)
assemble_block(block_env, parent_hash, transactions_root, gas_used) ==
    [number |-> block_env.number, parent_hash |-> parent_hash,
     timestamp |-> block_env.timestamp, nonce |-> 0, ommers |-> "empty",
     difficulty |-> block_env.difficulty, beneficiary |-> block_env.beneficiary,
     mix_hash |-> unwrap_or_default(block_env.prevrandao),
     gas_limit |-> block_env.gas_limit, gas_used |-> gas_used,
     transactions_root |-> transactions_root, extra |-> 0,
     base_fee |-> {block_env.basefee}, optional |-> {}]

\* What a block is built with: context_for_next_block takes its parent's hash.
Attributes ==
    [timestamp : Values.timestamp, suggested_fee_recipient : Values.beneficiary,
     prev_randao : Values.mix_hash, gas_limit : Values.gas_limit]

\* A block is built on the parent.
Assemble ==
    /\ pc = "idle"
    /\ \E attributes \in Attributes, fee \in Values.base_fee :
        LET block_env == next_evm_env(merged, Parent, attributes, fee)
        IN  /\ env' = {block_env}
            /\ header' = assemble_block(block_env, Parent.hash, body.transactions, 0)
    /\ pc' = "received"
    /\ UNCHANGED <<sealed, body, merged>>

\* The engine's answer to one of its checks.
Answer(from, ok, to) ==
    /\ pc = from
    /\ pc' = IF ok THEN to ELSE "rejected"
    /\ UNCHANGED <<sealed, header, body, merged, env>>

\* Mutant of HeaderOk: blob gas is let through.
HeaderOk_BlobGas(h) ==
    /\ h.nonce = 0
    /\ h.ommers = "empty"
    /\ h.gas_used <= h.gas_limit
    /\ h.extra >= MIN_EXTRA_DATA_LEN
    /\ h.optional \cap (OptionalFields \ {"blob_gas_used"}) = {}

\* The conditions of validate_header.
HeaderOk(h) ==
    /\ h.nonce = 0
    /\ h.ommers = "empty"
    /\ h.gas_used <= h.gas_limit
    /\ h.extra >= MIN_EXTRA_DATA_LEN
    /\ h.optional \cap OptionalFields = {}

validate_header == Answer("received", HeaderOk(header), "header_ok")

\* The conditions of validate_header_against_parent.
ExtendsParent(h) ==
    /\ h.number = Parent.number + 1
    /\ h.parent_hash = Parent.hash
    /\ h.timestamp > Parent.timestamp

validate_header_against_parent == Answer("header_ok", ExtendsParent(header), "parent_ok")

\* The conditions of validate_body_against_header.
BodyOk(h, b) ==
    /\ ~b.ommers
    /\ ~b.withdrawals
    /\ b.transactions = h.transactions_root

validate_body_against_header == Answer("parent_ok", BodyOk(header, body), "body_ok")

\* validate_block_pre_execution, with the span cached and the validator not
\* among the recent signers: module BorConsensus has the rest.
validate_block_pre_execution ==
    Answer("body_ok",
           /\ ~body.ommers /\ ~body.withdrawals
           /\ parses(header.extra)
           /\ ecrecover_seal(compute_seal_hash(header, Seal), Seal) = Validator,
           "accepted")

\* bor-rpc's get_author; a block whose extra data does not parse has none.
get_author(h, seal) ==
    IF parses(h.extra) THEN ecrecover_seal(compute_seal_hash(h, seal), seal) ELSE Stranger

Engine ==
    \/ validate_header \/ validate_header_against_parent
    \/ validate_body_against_header \/ validate_block_pre_execution

RulesNext == Receive \/ Assemble \/ Engine \/ TakeAnswer

RulesSpec == RulesInit /\ [][RulesNext]_rules_vars

-----------------------------------------------------------------------------

\* The rules that the docs of the engine and of validation.rs give for the
\* fields a validator is free in: a difficulty that is not zero, no mix hash,
\* gas within the limit and, from London on, a base fee.
KeepsRules(h) ==
    /\ h.difficulty # 0
    /\ h.mix_hash = 0
    /\ h.gas_used <= h.gas_limit
    /\ h.base_fee # {}

\* What the engine accepts under a validator's seal is field by field what
\* the validator sealed, with the transactions it sealed, although the hash
\* that is sealed does not mark which optional fields are present; a block of
\* the assembler, which has no seal yet, never passes, and bor_getAuthor names
\* the validator.
SealBindsBlock ==
    pc = "accepted" => /\ header = sealed
                       /\ body.transactions = sealed.transactions_root
                       /\ get_author(header, Seal) = Validator

\* A sealed block that keeps the rules and arrives as it was sealed, with the
\* body it was sealed for, passes every check of the engine.  Nothing is said of
\* blocks that break them: the engine reads neither the difficulty nor the mix
\* hash, nor whether there is a base fee, and may accept them.
SealedBlockPasses ==
    header = sealed /\ BodyOk(sealed, body) /\ KeepsRules(sealed) => pc # "rejected"

\* Whoever executes a block executes the same: a block that was built is
\* executed again, from its header or from its payload, in the environment in
\* which it was built, and a block that the engine accepted is executed in
\* one context, and in environments that agree in every field, from its header
\* and from its payload.  The exception is the difficulty before the merge: the
\* payload has no field for it, and its mix hash stands in for it.
EnvironmentsAgree ==
    LET payload == ExecutionData(header, body)
        by_header == evm_env(merged, header)
        by_payload == evm_env_for_payload(merged, payload)
    IN  /\ \A built \in env : by_header = built /\ by_payload = built
        /\ pc = "accepted" =>
            /\ context_for_block(header, body) = context_for_payload(payload)
            /\ by_payload = IF merged THEN by_header
                            ELSE [by_header EXCEPT !.difficulty = header.mix_hash]

-----------------------------------------------------------------------------

\* A header has its fields, at most one base fee and known optional fields.
IsHeader(h) ==
    /\ h = [f \in Fields |-> h[f]]
    /\ IsOption(h.base_fee)
    /\ h.optional \subseteq OptionalFields

\* The conditions that validate_block_pre_execution adds.
SealOk(h) ==
    /\ parses(h.extra)
    /\ ecrecover_seal(compute_seal_hash(h, Seal), Seal) = Validator

\* What the engine has found out about the block at each of its checks.
Checked ==
    /\ pc \in {"header_ok", "parent_ok", "body_ok", "accepted"} => HeaderOk(header)
    /\ pc \in {"parent_ok", "body_ok", "accepted"} => ExtendsParent(header)
    /\ pc \in {"body_ok", "accepted"} => BodyOk(header, body)
    /\ pc = "accepted" => SealOk(header)
    /\ pc = "rejected" => ~(/\ HeaderOk(header) /\ ExtendsParent(header)
                           /\ BodyOk(header, body) /\ SealOk(header))

\* A block that was built has the header that its environment gives it.
Built ==
    /\ pc = "idle" => env = {}
    /\ \A block_env \in env : \E attributes \in Attributes, fee \in Values.base_fee :
        /\ block_env = next_evm_env(merged, Parent, attributes, fee)
        /\ header = assemble_block(block_env, Parent.hash, body.transactions, 0)

\* The inductive invariant behind the three properties.
HeaderRulesInv ==
    /\ sealed \in Sealable
    /\ body \in Bodies
    /\ IsHeader(header)
    /\ Checked
    /\ Built

=============================================================================
