---------------------------- MODULE MCControlPlane ----------------------------
(* Instances of ControlPlane for TLC.                                      *)
EXTENDS ControlPlane, TLC

OneNode == CHOOSE n \in Nodes : TRUE
MCNodeOf  == [d \in Deployments |-> OneNode]
MCGpuNode == [g \in Gpus |-> OneNode]

(* No accelerators named: the preflight picks a GPU of the node, or none.  *)
AutoPlacement == {[accel |-> {}, node |-> OneNode]}

(* Either all GPUs of the node by name, or the one the preflight picks.    *)
AllOrAuto == [accel : {{}, Gpus}, node : {OneNode}]

Symmetry == Permutations(Deployments) \cup Permutations(Instances)
            \cup Permutations(Gpus) \cup Permutations(StartReqs)
            \cup Permutations(Reports)
=============================================================================
