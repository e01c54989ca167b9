----------------------------- MODULE Placement -----------------------------
(***************************************************************************)
(* Where a request is served.  Any node takes any request; one about a     *)
(* resource of another node is forwarded there over HTTP, and the worker   *)
(* thread that forwards it waits for the answer, at most thirty seconds.   *)
(* The node that serves it reads and writes the shared tables, which is    *)
(* where VMs get their VPC and their address.                              *)
(*                                                                         *)
(* A call <<r, h, n>> is request r after h forwards, at node n.            *)
(***************************************************************************)
EXTENDS Naturals, FiniteSets

CONSTANTS Node,    \* rows of the nodes table
          Req,     \* requests of clients
          Vm, Vpc, \* ids of the two tables
          Hosts,   \* bound: host addresses of a VPC, the first is the gateway
          Workers, \* worker threads of a node
          None     \* Python's None

ASSUME PlacementBounds == Hosts \in Nat \ {0} /\ Workers \in Nat \ {0}
ASSUME PlacementNone   == None \notin Vm \cup Vpc \cup Node \cup Req

MaxHop == 2          \* bound: forwards of one request (OneHop: one is enough)
Call   == Req \X (0..MaxHop) \X Node

VARIABLES vm,   \* vms table, with the request that inserted a row and the rows
                \* of the VPC that it had read (history)
          vpc,  \* vpcs table, with the rows DELETE /vpcs had seen (history)
          req,  \* what each request asks for
          call  \* the calls

vars == <<vm, vpc, req, call>>

Ops     == {"spawn", "create", "get", "delete", "list", "createVpc", "deleteVpc"}
VmRow   == [st : {"unborn", "present", "deleted"}, node : Node \cup {None},
            vpc : Vpc \cup {None}, ip : 0..Hosts, by : Req \cup {None}, seen : SUBSET Vm]
VpcRow  == [st : {"unborn", "default", "other", "deleted"}, seen : SUBSET Vm]
Want    == [op : Ops \cup {"none"}, vm : Vm \cup {None}, vpc : Vpc \cup {None}]
Steps   == {"route", "wait", "readDefault", "insertDefault", "rereadDefault", "readVpc",
            "readIps", "insertVm", "bringUp", "dropVm", "insertVpc", "checkVpc", "dropVpc"}
CallRow == [st : Steps \cup {"none", "queued", "over"}, to : Node \cup {None},
            vpc : Vpc \cup {None}, seen : SUBSET Vm, owners : SUBSET Node]

NoCall  == [st |-> "none", to |-> None, vpc |-> None, seen |-> {}, owners |-> {}]
Queued  == [NoCall EXCEPT !.st = "queued"]
Over    == [NoCall EXCEPT !.st = "over"]
NoWant  == [op |-> "none", vm |-> None, vpc |-> None]
NoVm    == [st |-> "unborn", node |-> None, vpc |-> None, ip |-> 0, by |-> None, seen |-> {}]

\* the calls that hold a worker thread of n
Busy(n) == {c \in Call : c[3] = n /\ call[c].st \in Steps}

RowsOK ==
  /\ vm   \in [Vm -> VmRow]
  /\ vpc  \in [Vpc -> VpcRow]
  /\ req  \in [Req -> Want]
  /\ call \in [Call -> CallRow]

WorkersOK == \A n \in Node : IsFiniteSet(Busy(n)) /\ Cardinality(Busy(n)) <= Workers

TypeOK == RowsOK /\ WorkersOK

Present(v)  == vm[v].st = "present"
Members(x)  == {v \in Vm : Present(v) /\ vm[v].vpc = x}
HasVpc(x)   == vpc[x].st \in {"default", "other"}
Default     == {x \in Vpc : vpc[x].st = "default"}

First == CHOOSE x \in Vpc : TRUE

\* a VM that an earlier request has left
Old(n, i) == [NoVm EXCEPT !.st = "present", !.node = n, !.vpc = First, !.ip = i]

\* Nothing exists, or a default VPC with the VMs that earlier requests have left.
Init ==
  /\ req  = [r \in Req |-> NoWant]
  /\ call = [c \in Call |-> NoCall]
  /\ \E st \in {"unborn", "default"} :
       vpc = [x \in Vpc |-> [st |-> IF x = First THEN st ELSE "unborn", seen |-> {}]]
  /\ \E old \in SUBSET (IF Default = {} THEN {} ELSE Vm) :
       \E at \in [old -> Node], ip \in [old -> 2..Hosts] :
         /\ \A v, w \in old : ip[v] = ip[w] => v = w
         /\ vm = [v \in Vm |-> IF v \in old THEN Old(at[v], ip[v]) ELSE NoVm]

-----------------------------------------------------------------------------
(* Calls.                                                                  *)

\* c is at this step; it goes on with the record next, or with another step
At(c, step)   == call[c].st = step
Become(c, to) == call' = [call EXCEPT ![c] = to]
Goto(c, step) == Become(c, [call[c] EXCEPT !.st = step])
\* the handler returns or raises; with which status is left out
End(c)        == Become(c, Over)

Tables == UNCHANGED <<vm, vpc, req>>

\* A client picks any node.
Send(r, n) ==
  /\ req[r] = NoWant
  /\ \E w \in Want : /\ w.op # "none"
                     /\ (w.vm = None) <=> (w.op \notin {"get", "delete"})
                     /\ (w.vpc = None) <=> (w.op \notin {"create", "deleteVpc"})
                     /\ w.vm # None => vm[w.vm].st # "unborn"
                     /\ w.vpc # None => vpc[w.vpc].st # "unborn"
                     /\ req' = [req EXCEPT ![r] = w]
  /\ call' = [call EXCEPT ![<<r, 0, n>>] = Queued]
  /\ UNCHANGED <<vm, vpc>>

Op(c) == req[c[1]].op

\* vpcs.py serves every request where it arrives (and so is GET /proxy, which inserts the
\* default VPC, if there is none, as a POST of its name does)
FirstStep(op) ==
  CASE op = "createVpc" -> "insertVpc" [] op = "deleteVpc" -> "checkVpc" [] OTHER -> "route"

\* Mutant: one call too many.
AcceptMore(c) ==
  /\ At(c, "queued")
  /\ Cardinality(Busy(c[3])) <= Workers
  /\ Goto(c, FirstStep(Op(c)))
  /\ Tables

Accept(c) ==
  /\ At(c, "queued")
  /\ Cardinality(Busy(c[3])) < Workers
  /\ Goto(c, FirstStep(Op(c)))
  /\ Tables

\* the call that c makes to n
Sub(c, n) == <<c[1], c[2] + 1, n>>

\* the call waits for the one it makes, and is left with these nodes to ask
Waiting(row, n, rest) == [row EXCEPT !.st = "wait", !.to = n, !.owners = rest]
Ask(c, n, rest) ==
  /\ c[2] < MaxHop
  /\ call' = [call EXCEPT ![c] = Waiting(@, n, rest), ![Sub(c, n)] = Queued]

Forward(c, n) == Ask(c, n, {})

Serve(c, n, step) == IF n = c[3] THEN Goto(c, step) ELSE Forward(c, n)

\* Mutant: the header is lost.
NeverMarked(c) == FALSE

\* X-Nyc-Pin and X-Nyc-Local
Marked(c) == c[2] > 0

-----------------------------------------------------------------------------
(* Routing.                                                                *)

\* The node of the images or a random one; images of two nodes are refused.
RouteSpawn(c) ==
  /\ At(c, "route") /\ Op(c) = "spawn"
  /\ IF Marked(c) THEN Serve(c, c[3], "readDefault")
     ELSE End(c) \/ \E n \in Node : Serve(c, n, "readDefault")
  /\ Tables

\* the client may name a node, which goes along with the forwarded body
RouteCreate(c) ==
  /\ At(c, "route") /\ Op(c) = "create"
  /\ IF c[2] = 0 THEN \E n \in Node : Serve(c, n, "readVpc") ELSE Goto(c, "readVpc")
  /\ Tables

\* GET and DELETE of one VM look up its owner
RouteOwner(c) ==
  LET v == req[c[1]].vm IN
  /\ At(c, "route") /\ Op(c) \in {"get", "delete"}
  /\ IF ~Present(v)             THEN End(c)
     ELSE IF vm[v].node # c[3]  THEN Forward(c, vm[v].node)
     ELSE IF Op(c) = "get"      THEN End(c)
     ELSE Goto(c, "dropVm")
  /\ Tables

\* GET /vms asks every other owner for its view, one after the other.
RouteList(c) ==
  /\ At(c, "route") /\ Op(c) = "list"
  /\ LET owners == {vm[v].node : v \in {w \in Vm : Present(w)}} \ {c[3]} IN
       IF Marked(c) \/ owners = {} THEN End(c)
       ELSE \E n \in owners : Ask(c, n, owners \ {n})
  /\ Tables

\* The answer arrives: it is that of the caller as well, but list_vms goes on
\* to the next owner, whatever the status.
Return(c) ==
  LET sub == Sub(c, call[c].to) IN
  /\ At(c, "wait")
  /\ At(sub, "over")
  /\ \/ /\ call[c].owners = {}
        /\ call' = [call EXCEPT ![sub] = NoCall, ![c] = Over]
     \/ \E n \in call[c].owners :
          call' = [call EXCEPT ![sub] = NoCall, ![c] = Waiting(@, n, call[c].owners \ {n}),
                               ![Sub(c, n)] = Queued]
  /\ Tables

\* Mutant: timeout=None.
NoTimeout(c) == FALSE /\ UNCHANGED vars

\* Mutant: a timeout is tried again.
RetryTimeout(c) == At(c, "wait") /\ Goto(c, "route") /\ Tables

\* httpx raises after thirty seconds, or when the connection breaks, which
\* list_vms does not expect either; the call that was made goes on.
Timeout(c) == At(c, "wait") /\ End(c) /\ Tables

-----------------------------------------------------------------------------
(* ensure_default_vpc, then _spawn_local; _create_local.                   *)

UseVpc(c, x) == Become(c, [call[c] EXCEPT !.st = "readIps", !.vpc = x])

ReadDefault(c) ==
  /\ At(c, "readDefault")
  /\ IF Default = {} THEN Goto(c, "insertDefault")
     ELSE \E x \in Default : UseVpc(c, x)
  /\ Tables

\* Mutant: vpcs.name is not UNIQUE.
InsertAnyDefault(c) ==
  /\ At(c, "insertDefault")
  /\ \E x \in Vpc : /\ vpc[x].st = "unborn"
                    /\ vpc' = [vpc EXCEPT ![x].st = "default"]
                    /\ UseVpc(c, x)
  /\ UNCHANGED <<vm, req>>

\* vpcs.name is UNIQUE: who comes second reads the row of the first
InsertDefault(c) ==
  /\ At(c, "insertDefault")
  /\ IF Default # {} THEN Goto(c, "rereadDefault") /\ UNCHANGED vpc
     ELSE \E x \in Vpc : /\ vpc[x].st = "unborn"
                         /\ vpc' = [vpc EXCEPT ![x].st = "default"]
                         /\ UseVpc(c, x)
  /\ UNCHANGED <<vm, req>>

\* ... and raises if it has been deleted since
RereadDefault(c) ==
  /\ At(c, "rereadDefault")
  /\ IF Default = {} THEN End(c)
     ELSE \E x \in Default : UseVpc(c, x)
  /\ Tables

\* 400 for an unknown VPC
ReadVpc(c) ==
  LET x == req[c[1]].vpc IN
  /\ At(c, "readVpc")
  /\ IF HasVpc(x) THEN UseVpc(c, x) ELSE End(c)
  /\ Tables

ReadIps(c) ==
  /\ At(c, "readIps")
  /\ Become(c, [call[c] EXCEPT !.st = "insertVm", !.seen = Members(call[c].vpc)])
  /\ Tables

\* Mutant: the number of VMs gives the next address.
CountIp(seen) == {i \in 2..Hosts : i = Cardinality(seen) + 2}

\* pick_ip: the first host that is neither the gateway nor in use
PickIp(seen) ==
  LET free == (2..Hosts) \ {vm[v].ip : v \in seen} IN
  {i \in free : \A j \in free : i <= j}

Unborn == {v \in Vm : vm[v].st = "unborn"}

\* The address, and the row; without free address pick_ip raises.  (So does the
\* model when the ids of Vm, a bound, are used up.)
InsertVm(c) ==
  /\ At(c, "insertVm")
  /\ IF PickIp(call[c].seen) = {} \/ Unborn = {} THEN End(c) /\ UNCHANGED vm
     ELSE \E i \in PickIp(call[c].seen), v \in Unborn :
            /\ vm' = [vm EXCEPT ![v] = [st |-> "present", node |-> c[3], vpc |-> call[c].vpc,
                                        ip |-> i, by |-> c[1], seen |-> call[c].seen]]
            /\ Goto(c, "bringUp")
  /\ UNCHANGED <<vpc, req>>

BringUp(c) == At(c, "bringUp") /\ End(c) /\ Tables

\* the teardown and the row
DropVm(c) ==
  /\ At(c, "dropVm")
  /\ vm' = [vm EXCEPT ![req[c[1]].vm].st = "deleted"]
  /\ End(c)
  /\ UNCHANGED <<vpc, req>>

-----------------------------------------------------------------------------
(* POST /vpcs and DELETE /vpcs.                                            *)

\* 409 if the name is taken; so, too, when the ids of Vpc, a bound, are used up.  The
\* name may be that of the default VPC: the deploy script posts it.
InsertVpc(c) ==
  /\ At(c, "insertVpc")
  /\ \/ \E x \in Vpc : vpc[x].st = "unborn" /\ vpc' = [vpc EXCEPT ![x].st = "other"]
     \/ Default = {} /\ \E x \in Vpc : /\ vpc[x].st = "unborn"
                                      /\ vpc' = [vpc EXCEPT ![x].st = "default"]
     \/ UNCHANGED vpc
  /\ End(c)
  /\ UNCHANGED <<vm, req>>

\* Mutant: only the VMs of this node are looked at.
CheckLocal(c) ==
  LET x == req[c[1]].vpc IN
  /\ At(c, "checkVpc")
  /\ IF \E v \in Members(x) : vm[v].node = c[3] THEN End(c)
     ELSE Become(c, [call[c] EXCEPT !.st = "dropVpc", !.seen = {v \in Vm : Present(v)}])
  /\ Tables

\* 409 while a VM is in it
CheckVpc(c) ==
  LET x == req[c[1]].vpc IN
  /\ At(c, "checkVpc")
  /\ IF Members(x) # {} THEN End(c)
     ELSE Become(c, [call[c] EXCEPT !.st = "dropVpc", !.seen = {v \in Vm : Present(v)}])
  /\ Tables

DropVpc(c) ==
  LET x == req[c[1]].vpc IN
  /\ At(c, "dropVpc")
  /\ IF HasVpc(x) THEN /\ vpc' = [vpc EXCEPT ![x] = [st |-> "deleted", seen |-> call[c].seen]]
                       /\ End(c)
                  ELSE End(c) /\ UNCHANGED vpc
  /\ UNCHANGED <<vm, req>>

-----------------------------------------------------------------------------
(* Failures.                                                               *)

\* A statement or a command raises, or the service stops: what has been
\* written stays.
Raise(c) == call[c].st \in (Steps \ {"wait"}) \cup {"queued"} /\ End(c) /\ Tables

-----------------------------------------------------------------------------
\* the calls that are on their way
Live == {c \in Call : call[c].st \notin {"none", "over"}}

Handle(c) ==
  \/ Accept(c)
  \/ RouteSpawn(c) \/ RouteCreate(c) \/ RouteOwner(c) \/ RouteList(c)
  \/ Return(c) \/ Timeout(c)
  \/ ReadDefault(c) \/ InsertDefault(c) \/ RereadDefault(c) \/ ReadVpc(c)
  \/ ReadIps(c) \/ InsertVm(c) \/ BringUp(c) \/ DropVm(c)
  \/ InsertVpc(c) \/ CheckVpc(c) \/ DropVpc(c)

\* every request has been answered: the nodes wait for the next one
Quiet == /\ \A r \in Req : req[r] # NoWant
         /\ \A c \in Call : call[c].st \in {"over", "none"}
         /\ UNCHANGED vars

Next == \/ \E r \in Req, n \in Node : Send(r, n)
        \/ \E c \in Live : Handle(c) \/ Raise(c)
        \/ Quiet

\* As long as a worker thread can go on with a call or take one, one does; nothing
\* has to fail but what waits too long.
Spec     == Init /\ [][Next]_vars
FairSpec == Spec /\ WF_vars(\E c \in Live : Handle(c))

-----------------------------------------------------------------------------
(* Properties.                                                             *)

\* routers/vms.py pins a forwarded spawn and marks a forwarded listing: what
\* has been forwarded once is served where it arrives, whatever rows came and
\* went on the way.
OneHop == \A c \in Call : c[2] > 1 => call[c].st = "none"

\* A forward that times out is not repeated: a request that is answered with
\* an error although its VM came up later leaves one VM, not two.
AtMostOnce == \A v, w \in Vm : vm[v].by # None /\ vm[v].by = vm[w].by => v = w

\* _used_ips and the insert are two statements: two VMs of a VPC share an
\* address only if each was given it before the other's row was there.
DuplicateOnlyInRace ==
  \A v, w \in Vm : v # w /\ vm[v].vpc = vm[w].vpc /\ vm[v].ip = vm[w].ip /\ Present(v) /\ Present(w)
    => v \notin vm[w].seen /\ w \notin vm[v].seen

\* The check of DELETE /vpcs and the delete are two statements: a VM is left
\* without its VPC only if its row was inserted after the check.
StrandedOnlyInRace ==
  \A v \in Vm : Present(v) /\ ~HasVpc(vm[v].vpc) => v \notin vpc[vm[v].vpc].seen

\* defaults.py: concurrent first spawns converge on one default VPC.
Spawned(v) == vm[v].by # None /\ req[vm[v].by].op = "spawn"
TurnkeyTogether ==
  \A v, w \in Vm : Spawned(v) /\ Spawned(w) /\ vm[v].vpc # vm[w].vpc
    => ~HasVpc(vm[v].vpc) \/ ~HasVpc(vm[w].vpc)

\* What these rest on.  Requests and rows that something refers to exist, and a
\* row once inserted stays what it is, but for being deleted:
Born == {v \in Vm : vm[v].st # "unborn"}
ReferencesExist ==
  /\ \A v \in Born : vm[v].node \in Node /\ vm[v].vpc \in Vpc
  /\ \A r \in Req : /\ req[r].op \in {"get", "delete"} => req[r].vm \in Born
                    /\ req[r].op \in {"create", "deleteVpc"} => req[r].vpc \in Vpc
  /\ \A c \in Call : call[c].st # "none" => req[c[1]] # NoWant
  /\ \A v \in Vm : vm[v].by # None => v \in Born /\ req[vm[v].by] # NoWant
  /\ \A c \in Call : call[c].seen \subseteq Born
  /\ \A v \in Vm : vm[v].seen \subseteq Born
  /\ \A x \in Vpc : vpc[x].seen \subseteq Born

\* a handler is at a step of what was asked for;
Fits(c) ==
  /\ call[c].st = "wait" => call[c].to \in Node
  /\ call[c].st = "readVpc" => Op(c) = "create"
  /\ call[c].st = "dropVm" => Op(c) = "delete"
  /\ call[c].st \in {"checkVpc", "dropVpc"} => Op(c) = "deleteVpc"
  /\ call[c].st \in {"readDefault", "insertDefault", "rereadDefault"} => Op(c) = "spawn"
  /\ call[c].st \in {"readIps", "insertVm"} => Op(c) \in {"spawn", "create"} /\ call[c].vpc \in Vpc
StepsFit == \A c \in Call : Fits(c)

\* a call that was forwarded does not forward, as it is where its VM is;
Arrived ==
  /\ \A c \in Call : c[2] = 1 => call[c].st # "wait"
  /\ \A c \in Call : c[2] = 1 /\ call[c].st \in {"queued", "route"} /\ Op(c) \in {"get", "delete"}
                       => vm[req[c[1]].vm].node = c[3]
  /\ \A c \in Call : call[c].owners # {} => Op(c) = "list"

\* one call of a request at a time may insert a VM, and none after one has;
Inserting == {"readDefault", "insertDefault", "rereadDefault", "readVpc", "readIps", "insertVm"}
MayInsert(c) == call[c].st \in {"queued", "route"} \cup Inserting /\ Op(c) \in {"spawn", "create"}
InsertsOnce ==
  /\ \A c, d \in Call : c[1] = d[1] /\ MayInsert(c) /\ MayInsert(d) => c = d
  /\ \A c \in Call, v \in Vm : MayInsert(c) => vm[v].by # c[1]

\* the VMs seen before a VPC is deleted are in other VPCs;
OthersSeen ==
  /\ \A c \in Call : call[c].st = "dropVpc" => \A v \in call[c].seen : vm[v].vpc # req[c[1]].vpc
  /\ \A x \in Vpc : \A v \in vpc[x].seen : vm[v].vpc # x

\* and spawns go to the default VPC, of which there is one.
IntoDefault ==
  /\ \A x, y \in Default : x = y
  /\ \A c \in Call : Op(c) = "spawn" /\ call[c].st \in {"readIps", "insertVm"}
                       => call[c].vpc \in Vpc /\ vpc[call[c].vpc].st \in {"default", "deleted"}
  /\ \A v \in Vm : Spawned(v) => vm[v].vpc \in Vpc /\ vpc[vm[v].vpc].st \in {"default", "deleted"}

IInv == /\ TypeOK /\ ReferencesExist /\ StepsFit
        /\ OneHop /\ Arrived
        /\ InsertsOnce /\ AtMostOnce
        /\ DuplicateOnlyInRace
        /\ OthersSeen
        /\ IntoDefault

\* Nodes whose workers all wait for each other's get going again, so that every
\* request is answered.
RequestsAnswered ==
  \A r \in Req : req[r] # NoWant ~> \E n \in Node : At(<<r, 0, n>>, "over")
=============================================================================
