--------------------------- MODULE MCNodeRegistry ---------------------------
(* An instance of NodeRegistry for TLC: one node with two GPUs, its agent  *)
(* installed with or without an agent_id, and with a clock that is right   *)
(* or ahead.                                                               *)
EXTENDS NodeRegistry, TLC

CONSTANTS n1, a1

MCHome    == [g \in Gpus |-> n1]
MCConfigs == {<<n1 :> a1, {}>>, <<n1 :> a1, {n1}>>, <<n1 :> None, {}>>}
=============================================================================
