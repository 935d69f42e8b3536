-------------------------- MODULE MCInstanceManager --------------------------
(* The instance-manager, as TLC checks it. *)
EXTENDS InstanceManagerProperties, TLC

\* Calls differ only in the order in which they arrive, instances in nothing.
CallSymmetry == Permutations(Call) \cup Permutations(Instance)
==============================================================================
