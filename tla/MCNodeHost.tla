----------------------------- MODULE MCNodeHost -----------------------------
(* Instances of NodeHost for TLC. *)
EXTENDS NodeHost, TLC

\* a VM is only a name for its namespace and its pair
Symmetric == Permutations(Vm)
=============================================================================
