--------------------------- MODULE MCVmLifecycle ---------------------------
(* Instances of VmLifecycle for TLC. *)
EXTENDS VmLifecycle, TLC

\* every handler runs the same steps
Symmetric == Permutations(Thread)
=============================================================================
