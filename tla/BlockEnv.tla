------------------------------ MODULE BlockEnv ------------------------------
(***************************************************************************)
(* bor-evm/src/evm_config.rs: the environment and the context in which a   *)
(* block is executed, once for the block that is being built on a parent,  *)
(* once for a block with its header, and once for a payload handed over by *)
(* a consensus client.                                                     *)
(*                                                                         *)
(* merged says whether the chain spec counts the merge as active: Amoy's   *)
(* does, from the genesis block on, and mainnet's does not.                *)
(*                                                                         *)
(* An environment is the BlockEnv.  Left out of it are the price of blob   *)
(* gas, which depends on a field that no Bor header has, and the CfgEnv,   *)
(* which all three compute from the chain spec, the number and the time of *)
(* the block, by functions of reth.                                        *)
(***************************************************************************)
EXTENDS Naturals

unwrap_or_default(option) == IF option = {} THEN 0 ELSE CHOOSE v \in option : TRUE

\* EvmEnv::for_eth_block and for_eth_next_block of alloy.
for_eth(merged, input) ==
    [number |-> input.number, beneficiary |-> input.beneficiary,
     timestamp |-> input.timestamp, gas_limit |-> input.gas_limit,
     basefee |-> unwrap_or_default(input.base_fee),
     difficulty |-> IF merged THEN 0 ELSE input.difficulty,
     prevrandao |-> IF merged THEN {input.mix_hash} ELSE {}]

evm_env(merged, header) == for_eth(merged, header)

next_evm_env(merged, parent, attributes, next_block_base_fee) ==
    for_eth(merged,
        [number |-> parent.number + 1, beneficiary |-> attributes.suggested_fee_recipient,
         timestamp |-> attributes.timestamp, gas_limit |-> attributes.gas_limit,
         base_fee |-> {unwrap_or_default(next_block_base_fee)},
         difficulty |-> 0, mix_hash |-> attributes.prev_randao])

\* The payload that carries a block: what an execution payload has no field
\* for, the difficulty and the ommers among it, is left out.
ExecutionData(header, body) ==
    [block_number |-> header.number, fee_recipient |-> header.beneficiary,
     timestamp |-> header.timestamp, gas_limit |-> header.gas_limit,
     base_fee_per_gas |-> unwrap_or_default(header.base_fee),
     prev_randao |-> header.mix_hash, parent_hash |-> header.parent_hash,
     extra_data |-> header.extra, withdrawals |-> body.withdrawals,
     parent_beacon_block_root |-> "parent_beacon_block_root" \in header.optional]

evm_env_for_payload(merged, payload) ==
    [number |-> payload.block_number, beneficiary |-> payload.fee_recipient,
     timestamp |-> payload.timestamp, gas_limit |-> payload.gas_limit,
     basefee |-> payload.base_fee_per_gas,
     difficulty |-> IF merged THEN 0 ELSE payload.prev_randao,
     prevrandao |-> IF merged THEN {payload.prev_randao} ELSE {}]

\* The Ethereum part of the context; the Bor part is the default, see
\* BlockProduction.
context_for_block(header, body) ==
    [parent_hash |-> header.parent_hash, extra_data |-> header.extra,
     ommers |-> body.ommers, withdrawals |-> body.withdrawals,
     parent_beacon_block_root |-> "parent_beacon_block_root" \in header.optional]

context_for_payload(payload) ==
    [parent_hash |-> payload.parent_hash, extra_data |-> payload.extra_data,
     ommers |-> FALSE, withdrawals |-> payload.withdrawals,
     parent_beacon_block_root |-> payload.parent_beacon_block_root]

=============================================================================
