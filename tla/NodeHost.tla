------------------------------ MODULE NodeHost -----------------------------
(***************************************************************************)
(* A node from power-on: app._on_startup runs pool.ensure, and only then   *)
(* are there requests and reconciler passes that change the host's         *)
(* network.  The service may stop and the host reboot at any time.         *)
(***************************************************************************)
EXTENDS HostNet, PoolEnsure

vars == <<net, pool>>

TypeOK == NetTypeOK /\ PoolTypeOK

Init == NetInit /\ PoolInit

\* Mutant: the service listens while ensure runs.
ServingEarly == at # "down"

Serving == at = "started"

Startup == EnsureStep /\ UNCHANGED net
Serve   == Serving /\ UNCHANGED pool /\ \/ \E v \in Vm : Request(v)
                                        \/ \E p \in Proc : Step(p) \/ Raise(p)
Stop    == StopService /\ NetStop
Fail    == StartFails /\ UNCHANGED net
Reboot  == RebootHost /\ NetReboot
Change  == JoinOrLeave /\ UNCHANGED pool

Next == Startup \/ Serve \/ Stop \/ Fail \/ Reboot \/ Change

Spec == Init /\ [][Next]_vars

\* An overlay pass that has begun goes on.
PassStep(p) == Serving /\ ~At(p, "idle") /\ OverlayPass(p) /\ UNCHANGED pool

\* The service goes down in the end only at an lvcreate of base-rootfs that is refused.
NeedsNoStop == /\ at' = "down" => at = "down" \/ (StartFails /\ at = "golden" /\ Wedged)
               /\ UNCHANGED peers

\* systemd starts the service, and its loop goes on with a pass it has begun; stops,
\* reboots and commands that fail without need come to an end.  Whether the loop gets
\* to the overlay pass is left open, and handlers may stay anywhere for ever.
FairSpec ==
  /\ Spec
  /\ WF_vars(Startup)
  /\ \A p \in Pass : WF_vars(PassStep(p))
  /\ <>[][NeedsNoStop]_vars
  /\ \A p \in Pass : <>[][Raise(p) => OverlayPass(p)]_vars

-----------------------------------------------------------------------------
\* POST /vms clones gold-default: wherever there is a VM, the golden is there,
\* and complete, across all starts of the service.
VmsHaveGolden == (\E v \in Vm : vm[v] # "none") => gold = "full"

\* The two halves meet in it only.
IInv == NetIInv /\ PoolIInv /\ VmsHaveGolden
=============================================================================
