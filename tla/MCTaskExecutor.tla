-------------------------- MODULE MCTaskExecutor --------------------------
(* Instances of TaskExecutor for TLC. *)
EXTENDS TaskExecutor, TLC

CONSTANTS n1, n2, e1, e2

\* the deployment: one process, hence one executor loop, for each node
OnePerNode == (e1 :> n1) @@ (e2 :> n2)
=============================================================================
