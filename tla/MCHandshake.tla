---------------------------- MODULE MCHandshake ----------------------------
(***************************************************************************)
(* Three networks that differ from the first in one thing each, and nodes  *)
(* at the first fork of Amoy or past the last of either network.           *)
(***************************************************************************)
EXTENDS Handshake

SmallNetworks ==
    {[genesis |-> 1, chain |-> 1], [genesis |-> 2, chain |-> 1], [genesis |-> 1, chain |-> 2]}

\* Amoy's forks, the same listed otherwise, with a fork more, and with a fork
\* more that has a total difficulty; and mainnet's.
SmallSchedules ==
    {bor_amoy_genesis,
     (bor_amoy_genesis \ {ForkBlock(0), Never}) \cup {[kind |-> "TTD", block |-> 73100]},
     bor_amoy_genesis \cup {ForkBlock(33000000)},
     bor_amoy_genesis \cup {[kind |-> "TTD", block |-> 31000000]},
     bor_mainnet_genesis}

=============================================================================
