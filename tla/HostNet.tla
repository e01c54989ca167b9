------------------------------ MODULE HostNet ------------------------------
(***************************************************************************)
(* The network of one VPC on one node: its bridge, its VXLAN tunnel with   *)
(* the flood list, the iptables chains and rules, and the namespace and    *)
(* veth pairs of each VM.  Handlers bring VMs up and down; the reconciler's*)
(* overlay pass runs beside them while nodes join and leave.               *)
(*                                                                         *)
(* A step is one listing, one command that makes something, or the         *)
(* commands that then set it up: broken off anywhere they leave the same,  *)
(* a thing that is there and is not ready.                                 *)
(***************************************************************************)
EXTENDS Naturals

CONSTANTS Vm,     \* VMs of the VPC on this node
          Pass,   \* reconciler passes
          Peer,   \* hosts of other nodes
          Chains, \* NYC-* chains: 2
          Rules   \* rules of a VPC and jumps to the chains: 5

\* The handler that brings a VM up or down goes by its VM: requests that meet
\* on one VM are left to VmLifecycle.
Proc == Vm \cup Pass

ASSUME HostNetCounts == Chains \in Nat \ {0} /\ Rules \in Nat
ASSUME HostNetProcs  == Vm \cap Pass = {}

VARIABLES vm,      \* vms table: "none", "row", or "up" once vm_up is done
          peers,   \* nodes table: the hosts of the other nodes
          bridge,  \* the VPC's bridge: 0 none, 1 added, 2 with MAC and gateway, and up
          tunnel,  \* the VXLAN device: 0 none, 1 added, 2 on the bridge, and up
          flood,   \* the all-zeros entries of its FDB
          nat,     \* the chains and rules that are there, once or more often
          ns,      \* VMs with a namespace
          veth,    \* the pair of a VM: its far end is on the "host" or "placed"
          spoiled, \* a bring-up was broken off within bridge.ensure (history)
          stuck,   \* VMs whose teardown could not delete namespace or pair (history)
          pc,      \* next step of a handler or pass
          again,   \* the teardown is followed by a bring-up
          dests,   \* the peers it has read
          shown,   \* the flood list it has read
          item     \* the chain or rule it is at

links == <<bridge, tunnel, flood, nat, ns, veth>>
local == <<pc, again, dests, shown, item>>
net   == <<vm, peers, links, spoiled, stuck, local>>

Item   == 1..(Chains + Rules)
Up     == {"bridge", "setBridge", "vxlan", "setVxlan", "show", "sync", "check", "add",
           "netns", "pair", "place", "inside"}
Down   == {"delNs", "delVeth", "dropRow"}

NetTypeOK ==
  /\ vm \in [Vm -> {"none", "row", "up"}]
  /\ peers \subseteq Peer
  /\ bridge \in 0..2 /\ tunnel \in 0..2
  /\ flood \subseteq Peer /\ (tunnel = 0 => flood = {})
  /\ nat \subseteq Item
  /\ ns \subseteq Vm /\ veth \in [Vm -> {"none", "host", "placed"}]
  /\ spoiled \in BOOLEAN /\ stuck \subseteq Vm
  /\ pc \in [Proc -> Up \cup Down \cup {"idle", "exists"}]
  /\ again \in [Proc -> BOOLEAN]
  /\ dests \in [Proc -> SUBSET Peer] /\ shown \in [Proc -> SUBSET Peer]
  /\ item \in [Proc -> Item]

NetInit ==
  /\ vm = [v \in Vm |-> "none"]
  /\ peers \in SUBSET Peer
  /\ bridge = 0 /\ tunnel = 0 /\ flood = {}
  /\ nat = {}
  /\ ns = {} /\ veth = [v \in Vm |-> "none"]
  /\ spoiled = FALSE /\ stuck = {}
  /\ pc = [p \in Proc |-> "idle"] /\ again = [p \in Proc |-> FALSE]
  /\ dests = [p \in Proc |-> {}] /\ shown = [p \in Proc |-> {}] /\ item = [p \in Proc |-> 1]

-----------------------------------------------------------------------------
(* Control.                                                                *)

At(p, step) == pc[p] = step
Goto(p, step) == pc' = [pc EXCEPT ![p] = step] /\ UNCHANGED <<again, dests, shown, item>>

\* the locals of p are gone
End(p) == /\ pc'    = [pc EXCEPT ![p] = "idle"]
          /\ again' = [again EXCEPT ![p] = FALSE]
          /\ dests' = [dests EXCEPT ![p] = {}]
          /\ shown' = [shown EXCEPT ![p] = {}]
          /\ item'  = [item EXCEPT ![p] = 1]

\* what a step leaves alone
But(rest) == UNCHANGED <<rest, vm, peers, spoiled, stuck>>

-----------------------------------------------------------------------------
(* Requests.                                                               *)

\* _spec reads the peers, vm_up gets them
EnterUp(v) ==
  /\ vm'    = [vm EXCEPT ![v] = "row"]
  /\ pc'    = [pc EXCEPT ![v] = "bridge"]
  /\ dests' = [dests EXCEPT ![v] = peers]
  /\ again' = [again EXCEPT ![v] = FALSE]
  /\ UNCHANGED <<peers, links, spoiled, stuck, shown, item>>

\* nothing hangs on the name of a VM
Bare(v) == v \notin ns /\ veth[v] = "none"

\* a new VM has a new name, whatever an old one has left
BringUp(v) == At(v, "idle") /\ vm[v] = "none" /\ Bare(v) /\ EnterUp(v)

\* DELETE /vms or a public IP: vm_down, and then the row goes or the VM comes
\* back.
TakeDown(v, recreate) ==
  /\ At(v, "idle") /\ vm[v] # "none"
  /\ vm'    = [vm EXCEPT ![v] = "row"]
  /\ pc'    = [pc EXCEPT ![v] = "delNs"]
  /\ again' = [again EXCEPT ![v] = recreate]
  /\ UNCHANGED <<peers, links, spoiled, stuck, dests, shown, item>>

-----------------------------------------------------------------------------
(* bridge.ensure, vxlan.ensure, set_fdb.                                   *)

Overlay(p) == IF dests[p] = {} THEN "check" ELSE "vxlan"

BridgeAdd(p) ==
  /\ At(p, "bridge")
  /\ IF bridge = 0 THEN bridge' = 1 /\ Goto(p, "setBridge")
                   ELSE UNCHANGED bridge /\ Goto(p, Overlay(p))
  /\ But(<<tunnel, flood, nat, ns, veth>>)

BridgeSet(p) ==
  /\ At(p, "setBridge") /\ bridge # 0
  /\ bridge' = 2
  /\ Goto(p, Overlay(p))
  /\ But(<<tunnel, flood, nat, ns, veth>>)

VxlanAdd(p) ==
  /\ At(p, "vxlan")
  /\ IF tunnel = 0 THEN tunnel' = 1 /\ Goto(p, "setVxlan")
                   ELSE UNCHANGED tunnel /\ Goto(p, "show")
  /\ But(<<bridge, flood, nat, ns, veth>>)

VxlanSet(p) ==
  /\ At(p, "setVxlan") /\ tunnel # 0 /\ bridge # 0
  /\ tunnel' = 2
  /\ Goto(p, "show")
  /\ But(<<bridge, flood, nat, ns, veth>>)

\* Mutant: nothing is there before.
ShowNothing(p) ==
  /\ At(p, "show") /\ tunnel # 0
  /\ Goto(p, "sync")
  /\ But(links)

FdbShow(p) ==
  /\ At(p, "show") /\ tunnel # 0
  /\ shown' = [shown EXCEPT ![p] = flood]
  /\ pc'    = [pc EXCEPT ![p] = "sync"]
  /\ UNCHANGED <<again, dests, item>>
  /\ But(links)

FdbAppend(p) ==
  /\ At(p, "sync") /\ tunnel # 0
  /\ \E d \in dests[p] \ shown[p] :
       /\ flood' = flood \cup {d}
       /\ shown' = [shown EXCEPT ![p] = @ \cup {d}]
  /\ UNCHANGED <<pc, again, dests, item>>
  /\ But(<<bridge, tunnel, nat, ns, veth>>)

\* every append, then every del
FdbDel(p) ==
  /\ At(p, "sync") /\ tunnel # 0 /\ dests[p] \subseteq shown[p]
  /\ \E d \in (shown[p] \ dests[p]) \cap flood :
       /\ flood' = flood \ {d}
       /\ shown' = [shown EXCEPT ![p] = @ \ {d}]
  /\ UNCHANGED <<pc, again, dests, item>>
  /\ But(<<bridge, tunnel, nat, ns, veth>>)

\* The kernel refuses to del what is not there: another has done it.
FdbRefused(p) ==
  /\ At(p, "sync") /\ dests[p] \subseteq shown[p]
  /\ (shown[p] \ dests[p]) \ flood # {}
  /\ End(p)
  /\ But(links)

\* (nat.ensure has no use for the two lists)
FdbDone(p) ==
  /\ At(p, "sync") /\ dests[p] = shown[p]
  /\ IF p \in Pass
       THEN End(p)
       ELSE /\ pc'    = [pc EXCEPT ![p] = "check"]
            /\ dests' = [dests EXCEPT ![p] = {}]
            /\ shown' = [shown EXCEPT ![p] = {}]
            /\ UNCHANGED <<again, item>>
  /\ But(links)

-----------------------------------------------------------------------------
(* nat.ensure.                                                             *)

Next1(p) == /\ pc'   = [pc EXCEPT ![p] = IF item[p] = Chains + Rules THEN "netns" ELSE "check"]
            /\ item' = [item EXCEPT ![p] = IF @ = Chains + Rules THEN 1 ELSE @ + 1]
            /\ UNCHANGED <<again, dests, shown>>

\* Mutant: where the first chain is, the rest is.
CheckFirst(p) ==
  /\ At(p, "check")
  /\ Goto(p, IF item[p] \in nat THEN "netns" ELSE "add")
  /\ But(links)

\* iptables -nL of a chain, -C of a rule: any failure counts as absence
NatCheck(p) ==
  /\ At(p, "check")
  /\ Goto(p, "add") \/ (item[p] \in nat /\ Next1(p))
  /\ But(links)

\* -N fails when the chain is there, -A adds the rule once more
NatAdd(p) ==
  /\ At(p, "add")
  /\ item[p] <= Chains => item[p] \notin nat
  /\ nat' = nat \cup {item[p]}
  /\ Next1(p)
  /\ But(<<bridge, tunnel, flood, ns, veth>>)

-----------------------------------------------------------------------------
(* The namespace of a VM and its veth pair (a public IP has a second one   *)
(* that is made in the same way, on a bridge of the host).                 *)

NetnsAdd(p) ==
  /\ At(p, "netns") /\ p \notin ns
  /\ ns' = ns \cup {p}
  /\ Goto(p, "pair")
  /\ But(<<bridge, tunnel, flood, nat, veth>>)

SetVeth(p, from, old, new, to) ==
  /\ At(p, from) /\ veth[p] = old
  /\ veth' = [veth EXCEPT ![p] = new]
  /\ Goto(p, to)
  /\ But(<<bridge, tunnel, flood, nat, ns>>)

CreatePair(p) == SetVeth(p, "pair", "none", "host", "place")

\* one end into the namespace, the other onto the bridge
PlaceInNs(p) == p \in ns /\ bridge # 0 /\ SetVeth(p, "place", "host", "placed", "inside")

\* nbr0 and tap0 in the namespace, firecracker, and the row's status
Inside(p) ==
  /\ At(p, "inside") /\ p \in ns
  /\ vm' = [vm EXCEPT ![p] = "up"]
  /\ End(p)
  /\ UNCHANGED <<peers, links, spoiled, stuck>>

\* The kernel takes what is in the namespace along, pairs included.  _safe swallows
\* a failure of this command or of the next, and the teardown goes on.
DelNs(p) ==
  /\ At(p, "delNs") /\ Goto(p, "delVeth")
  /\ \/ /\ ns'    = ns \ {p}
        /\ veth'  = [veth EXCEPT ![p] = IF @ = "host" THEN @ ELSE "none"]
        /\ stuck' = stuck \ {p}
     \/ stuck' = stuck \cup ({p} \cap ns) /\ UNCHANGED <<ns, veth>>
  /\ UNCHANGED <<bridge, tunnel, flood, nat, vm, peers, spoiled>>

\* Mutant: the namespace has taken the pair along.
SkipVeth(p) == At(p, "delVeth") /\ Goto(p, "dropRow") /\ But(links)

DelVeth(p) ==
  /\ At(p, "delVeth") /\ Goto(p, "dropRow")
  /\ \/ veth' = [veth EXCEPT ![p] = "none"] /\ UNCHANGED stuck
     \/ /\ stuck' = IF veth[p] = "none" THEN stuck ELSE stuck \cup {p}
        /\ UNCHANGED veth
  /\ UNCHANGED <<bridge, tunnel, flood, nat, ns, vm, peers, spoiled>>

\* Mutant: the bridge goes with the VM.
DropBridge(p) ==
  /\ At(p, "dropRow") /\ ~again[p]
  /\ vm' = [vm EXCEPT ![p] = "none"]
  /\ bridge' = 0
  /\ End(p)
  /\ UNCHANGED <<peers, tunnel, flood, nat, ns, veth, spoiled, stuck>>

\* bridge, tunnel and rules stay, whether another VM uses them or not
DropRow(p) ==
  /\ At(p, "dropRow") /\ ~again[p]
  /\ vm' = [vm EXCEPT ![p] = "none"]
  /\ End(p)
  /\ UNCHANGED <<peers, links, spoiled, stuck>>

UpAgain(p) == At(p, "dropRow") /\ again[p] /\ EnterUp(p)

-----------------------------------------------------------------------------
(* overlay_pass.                                                           *)

ReadPeers(p) ==
  /\ p \in Pass /\ At(p, "idle")
  /\ dests' = [dests EXCEPT ![p] = peers]
  /\ pc'    = [pc EXCEPT ![p] = "exists"]
  /\ UNCHANGED <<again, shown, item>>
  /\ But(links)

\* only a VPC with a VM here, and only if its tunnel exists
FindTunnel(p) ==
  /\ At(p, "exists")
  /\ IF tunnel # 0 /\ \E v \in Vm : vm[v] # "none" THEN Goto(p, "show") ELSE End(p)
  /\ But(links)

-----------------------------------------------------------------------------
(* The world around.                                                       *)

JoinOrLeave ==
  /\ \E d \in Peer : peers' = (peers \ {d}) \cup ({d} \ peers)
  /\ UNCHANGED <<vm, links, spoiled, stuck, local>>

Breaks(p) == spoiled' = (spoiled \/ pc[p] = "setBridge")

\* a command fails, or a statement; before a teardown gets to the network also the
\* kill of the process (kill.py)
Raise(p) ==
  /\ pc[p] \notin {"idle", "delVeth"}
  /\ End(p) /\ Breaks(p)
  /\ UNCHANGED <<vm, peers, links, stuck>>

EndAll ==
  /\ pc' = [p \in Proc |-> "idle"]
  /\ again' = [p \in Proc |-> FALSE] /\ item' = [p \in Proc |-> 1]
  /\ dests' = [p \in Proc |-> {}] /\ shown' = [p \in Proc |-> {}]

\* the service stops, with its handlers and passes
NetStop ==
  /\ EndAll
  /\ spoiled' = (spoiled \/ \E p \in Proc : pc[p] = "setBridge")
  /\ UNCHANGED <<vm, peers, links, stuck>>

\* a reboot leaves no link, no rule and no namespace
NetReboot ==
  /\ EndAll
  /\ bridge' = 0 /\ tunnel' = 0 /\ flood' = {} /\ ns' = {} /\ nat' = {}
  /\ spoiled' = FALSE /\ stuck' = {}
  /\ veth' = [v \in Vm |-> "none"]
  /\ vm'   = [v \in Vm |-> IF vm[v] = "up" THEN "row" ELSE vm[v]]
  /\ UNCHANGED peers

-----------------------------------------------------------------------------
Request(v) == BringUp(v) \/ \E recreate \in BOOLEAN : TakeDown(v, recreate)

\* set_fdb, at the end of VxlanSet or in a pass
SetFdb(p) == FdbShow(p) \/ FdbAppend(p) \/ FdbDel(p) \/ FdbRefused(p) \/ FdbDone(p)

OverlayPass(p) == ReadPeers(p) \/ FindTunnel(p) \/ SetFdb(p)

Step(p) ==
  \/ BridgeAdd(p) \/ BridgeSet(p)
  \/ VxlanAdd(p) \/ VxlanSet(p)
  \/ NatCheck(p) \/ NatAdd(p)
  \/ NetnsAdd(p) \/ CreatePair(p) \/ PlaceInNs(p) \/ Inside(p)
  \/ DelNs(p) \/ DelVeth(p) \/ DropRow(p) \/ UpAgain(p)
  \/ OverlayPass(p)

-----------------------------------------------------------------------------
(* Properties.                                                             *)

\* vm_up.py: a VM that is up has its namespace and hangs on a bridge that has
\* MAC and gateway and is up, unless a bring-up was broken off within
\* bridge.ensure: later ones find the bridge and take it as it is.
BridgeReady ==
  ~spoiled /\ (\A p \in Proc : pc[p] # "setBridge") =>
    \A v \in Vm : vm[v] = "up" => bridge = 2 /\ v \in ns /\ veth[v] = "placed"

\* nat.py looks for every rule: a VM that is up has them all, whatever other
\* bring-ups were broken off, or did at the same time.
NatComplete == \A v \in Vm : vm[v] = "up" => Item \subseteq nat

\* vm_down.py: a bring-up broken off anywhere leaves nothing that the teardown
\* does not find, and on which the next bring-up would fail, unless _safe has
\* swallowed that something could not be deleted.
DownCleans ==
  \A v \in Vm \ stuck : vm[v] = "none" \/ pc[v] \in {"dropRow", "bridge"} => Bare(v)

\* What these rest on.  A pass only edits the flood list; a handler has a row; and
\* each has the locals of its step.
StepsFit ==
  /\ \A p \in Pass : pc[p] \in {"idle", "exists", "show", "sync"}
  /\ \A v \in Vm : /\ pc[v] # "exists"
                   /\ pc[v] # "idle" => vm[v] = "row"
  /\ \A p \in Proc : pc[p] \notin {"check", "add"} => item[p] = 1

\* Only who added the bridge sets it up, and who stops before that spoils it;
\* namespace and pair are as far as the VM's own handler has brought them.
BridgeOwned == ~spoiled /\ (\A p \in Proc : pc[p] # "setBridge") => bridge # 1
Wired(v)    == v \in ns /\ veth[v] = "placed" /\ bridge # 0
WiringFits ==
  \A v \in Vm : /\ vm[v] = "up" \/ pc[v] = "inside" => Wired(v)
                /\ pc[v] \in {"pair", "place"} => v \in ns
                /\ pc[v] = "delVeth" => v \notin ns \/ v \in stuck

\* Rules only become more: what a handler has passed stays.
Passed(v) == IF pc[v] \in {"check", "add"} THEN {i \in Item : i < item[v]}
             ELSE IF vm[v] = "up" \/ pc[v] \in {"netns", "pair", "place", "inside"} THEN Item
             ELSE {}
NatFits == \A v \in Vm : Passed(v) \subseteq nat

NetIInv == NetTypeOK /\ StepsFit /\ BridgeOwned /\ WiringFits /\ DownCleans /\ NatFits

\* overlay_pass.py: where the tunnel and some VM stay, the flood list comes to be
\* the peers for good once nodes stop joining and leaving, although bring-ups
\* with older lists edit it too, and although a pass that meets another one's del
\* raises.  The overlay pass is the last of pass_once.py: it has to be reached again
\* and again, which a tick that ends in an earlier pass does not do.
FloodFollowsPeers ==
  /\ \A p \in Pass : []<><<ReadPeers(p)>>_net
  /\ <>[](tunnel # 0 /\ \E v \in Vm : vm[v] # "none")
  => <>[](flood = peers)
=============================================================================
