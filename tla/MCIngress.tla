----------------------------- MODULE MCIngress -----------------------------
(* Instances of Ingress for TLC: behaviours with at most MaxEvents events. *)
EXTENDS Ingress

CONSTANT MaxEvents \* bound: the requests, passes, ends and restarts of a behaviour

VARIABLE left

MCInit == Init /\ left = MaxEvents
MCNext == \/ left > 0 /\ Event /\ left' = left - 1
          \/ Step /\ UNCHANGED left

MCFairSpec == /\ MCInit /\ [][MCNext]_<<vars, left>>
              /\ WF_<<vars, left>>((Execute \/ AbortTask \/ SshFails) /\ UNCHANGED left)
=============================================================================
