------------------------------ MODULE Ingress ------------------------------
(***************************************************************************)
(* How the domains of the `domains` table get into the reverse proxy: the  *)
(* routers for /proxy and /domains and the cascade of DELETE /vms change   *)
(* tables and enqueue tasks; the executor of the proxy's node runs the     *)
(* tasks one after the other and pushes what it reads from the tables into *)
(* the proxy's guest.                                                      *)
(*                                                                         *)
(* Request handlers are threads, a step is one statement or one command.   *)
(* The bring-up and teardown of VMs are steps here (see VmLifecycle).      *)
(***************************************************************************)
EXTENDS Naturals

CONSTANTS Vm,      \* ids of the vms table
          Domain,  \* ids of the domains table
          Fqdn,    \* host names, UNIQUE in the domains table
          Thread,  \* request handlers
          Pass,    \* reconciler passes
          Abroad,  \* the VMs of another VPC than the default one
          MaxPending, \* bound: the pending reloads
          Faults,  \* what happens around the requests
          None     \* Python's None

\* abort: a statement of the executor raises; restart: the service or the host is
\* restarted; halt: a guest is stopped or ends by itself; recreate: a VM is recreated
\* to attach or detach a public IP; ttl: VMs expire; reap: vms_pass finds directories
\* without a row
ASSUME IngressFaults ==
  Faults \subseteq {"abort", "restart", "halt", "recreate", "ttl", "reap"}
ASSUME IngressPending == MaxPending \in Nat
ASSUME IngressProcs == Thread \cap Pass = {}
ASSUME IngressAbroad == Abroad \subseteq Vm
ASSUME IngressNone   == None \notin Vm \cup Domain \cup Fqdn

VARIABLES row,      \* vms table: "unborn", "present" or "deleted"
          domains,  \* domains table: id -> [fqdn, vm], or None
          minted,   \* the domain ids handed out
          proxy,    \* proxies table: the VM of the default VPC's row, or None
          setups,   \* tasks table: the VMs with a pending setup
          reloads,  \* ... and the number of pending reloads
          up, off,  \* the VMs whose guest runs, or is stopped and has its disk
          caddy,    \* the VMs with Caddy on their disk, started with the guest
          file,     \* the routes in the Caddyfile on the disk
          loaded,   \* the routes that a running Caddy has loaded
          silent,   \* domains whose last change no reload will bring (history)
          pc, req,  \* next step of each handler and pass and its locals
          expected, \* the VMs whose row a pass has read
          exec      \* the task the executor is working on and its locals

tables  == <<row, domains, minted, proxy>>
tasks   == <<setups, reloads>>
guests  == <<up, off, caddy, file, loaded>>
control == <<pc, req, expected>>
vars    == <<tables, tasks, guests, silent, control, exec>>

Proc    == Thread \cup Pass

Row     == [fqdn : Fqdn, vm : Vm]
NoReq   == [d |-> None, f |-> None, v |-> None]
Idle    == [step |-> "idle", vm |-> None, left |-> {}, built |-> {}]
Steps   == {"spawn", "bringUp", "insertProxy", "setupTask", "reloadTask",
            "insertDomain", "deleteDomain", "readVm", "readProxy", "enqueue",
            "dropDomains", "dropProxy", "down", "dropRow", "orphans", "reap"}
Running == {"setupVm", "install", "readProxy", "readProxyVm", "readDomains", "resolve"}

TypeOK ==
  /\ row     \in [Vm -> {"unborn", "present", "deleted"}]
  /\ domains \in [Domain -> Row \cup {None}]
  /\ minted  \in SUBSET Domain
  /\ proxy   \in Vm \cup {None}
  /\ setups  \in SUBSET Vm
  /\ reloads \in 0..MaxPending
  /\ up      \in SUBSET Vm
  /\ off     \in SUBSET (Vm \ up)
  /\ caddy   \in SUBSET (up \cup off)
  /\ \A r \in {file, loaded} : r \in [Vm -> SUBSET Domain]
  /\ silent  \in SUBSET Domain
  /\ pc      \in [Proc -> Steps \cup {"idle"}]
  /\ expected \in [Pass -> SUBSET Vm]
  /\ req     \in [Proc -> [d : Domain \cup {None}, f : Fqdn \cup {None}, v : Vm \cup {None}]]
  /\ exec    \in [step : Running \cup {"idle"}, vm : Vm \cup {None},
                  left : SUBSET (Domain \X Vm), built : SUBSET Domain]
  /\ \A d \in Domain : domains[d] # None => d \in minted

Init ==
  /\ row     = [v \in Vm |-> "unborn"]
  /\ domains = [d \in Domain |-> None]
  /\ proxy   = None
  /\ setups = {} /\ reloads = 0
  /\ file    = [v \in Vm |-> {}]
  /\ loaded  = [v \in Vm |-> {}]
  /\ minted = {} /\ up = {} /\ off = {} /\ caddy = {} /\ silent = {}
  /\ pc   = [p \in Proc |-> "idle"]
  /\ req  = [p \in Proc |-> NoReq]
  /\ expected = [p \in Pass |-> {}]
  /\ exec = Idle

HasRow(v)  == row[v] = "present"
OfVm(v)    == {d \in Domain : domains[d] # None /\ domains[d].vm = v}
InUse(f)   == \E d \in Domain : domains[d] # None /\ domains[d].fqdn = f

-----------------------------------------------------------------------------
(* Control of the handlers and passes.                                     *)

Enter(p, from, step, locals) ==
  /\ pc[p] = from
  /\ pc'  = [pc EXCEPT ![p] = step]
  /\ req' = [req EXCEPT ![p] = locals]
  /\ UNCHANGED <<tasks, guests, expected, exec>>

Begin(t, step, locals) == Enter(t, "idle", step, locals)

Goto(p, from, to) ==
  /\ pc[p] = from
  /\ pc' = [pc EXCEPT ![p] = to]
  /\ UNCHANGED <<req, expected, exec>>

Leave(p, from) ==
  /\ pc[p] = from
  /\ pc'  = [pc EXCEPT ![p] = "idle"]
  /\ req' = [req EXCEPT ![p] = NoReq]
  /\ expected' = [q \in Pass |-> IF q = p THEN {} ELSE expected[q]]
  /\ UNCHANGED exec

\* A reload works on whatever proxy it finds: the VM its task names is left out.
Enqueue == /\ reloads < MaxPending
           /\ reloads' = reloads + 1
           /\ UNCHANGED setups

\* Mutant: a fresh disk is taken for one that has been set up.
WipeFiles(v) == /\ file'   = [file EXCEPT ![v] = {}]
                /\ loaded' = [loaded EXCEPT ![v] = {}]
                /\ UNCHANGED caddy

\* The disk of v goes.
Wipe(v) == /\ caddy'  = caddy \ {v}
           /\ file'   = [file EXCEPT ![v] = {}]
           /\ loaded' = [loaded EXCEPT ![v] = {}]

\* vm_down
TearDown(v) == Wipe(v) /\ up' = up \ {v} /\ off' = off \ {v}

-----------------------------------------------------------------------------
(* POST /vms, POST /proxy.                                                 *)

\* a VM that is not a proxy
CreateVm(t, v) ==
  /\ pc[t] = "idle"
  /\ row[v] = "unborn"
  /\ row' = [row EXCEPT ![v] = "present"]
  /\ up'  = up \cup {v}
  /\ UNCHANGED <<domains, minted, proxy, tasks, off, caddy, file, loaded, silent, control, exec>>

\* 409 if the default VPC has a proxy
CreateProxy(t) ==
  /\ proxy = None
  /\ Begin(t, "spawn", NoReq)
  /\ UNCHANGED <<tables, silent>>

SpawnProxy(t, v) ==
  /\ pc[t] = "spawn"
  /\ row[v] = "unborn" /\ v \notin Abroad
  /\ row' = [row EXCEPT ![v] = "present"]
  /\ pc'  = [pc EXCEPT ![t] = "bringUp"]
  /\ req' = [req EXCEPT ![t].v = v]
  /\ UNCHANGED <<domains, minted, proxy, tasks, guests, silent, expected, exec>>

BringUp(t) ==
  /\ Goto(t, "bringUp", "insertProxy")
  /\ up'  = up \cup {req[t].v}
  /\ off' = off \ {req[t].v}
  /\ UNCHANGED <<tables, tasks, caddy, file, loaded, silent>>

\* proxies.vpc_id is UNIQUE: the insert raises if another request was faster
InsertProxy(t) ==
  /\ pc[t] = "insertProxy"
  /\ IF proxy = None
       THEN /\ Goto(t, "insertProxy", "setupTask")
            /\ proxy' = req[t].v
       ELSE Leave(t, "insertProxy") /\ UNCHANGED proxy
  /\ UNCHANGED <<row, domains, minted, tasks, guests, silent>>

SetupTask(t) ==
  /\ Goto(t, "setupTask", "reloadTask")
  /\ setups' = setups \cup {req[t].v}
  /\ UNCHANGED <<tables, reloads, guests, silent>>

ReloadTask(t) ==
  /\ Leave(t, "reloadTask")
  /\ Enqueue
  /\ UNCHANGED <<tables, guests, silent>>

-----------------------------------------------------------------------------
(* POST /domains and DELETE /domains: the change, then _enqueue_reload.    *)

AddDomain(t, d, f, v) ==
  /\ d \notin minted
  /\ HasRow(v)
  /\ Begin(t, "insertDomain", [d |-> d, f |-> f, v |-> v])
  /\ minted' = minted \cup {d}
  /\ UNCHANGED <<row, domains, proxy, silent>>

\* raises if the name is taken
InsertDomain(t) ==
  /\ pc[t] = "insertDomain"
  /\ IF InUse(req[t].f)
       THEN Leave(t, "insertDomain") /\ UNCHANGED domains
       ELSE /\ Goto(t, "insertDomain", "readVm")
            /\ domains' = [domains EXCEPT ![req[t].d] = [fqdn |-> req[t].f, vm |-> req[t].v]]
  /\ UNCHANGED <<row, minted, proxy, tasks, guests, silent>>

RemoveDomain(t, d) ==
  /\ domains[d] # None
  /\ Begin(t, "deleteDomain", [d |-> d, f |-> domains[d].fqdn, v |-> domains[d].vm])
  /\ UNCHANGED <<tables, silent>>

DeleteDomain(t) ==
  /\ Goto(t, "deleteDomain", "readVm")
  /\ domains' = [domains EXCEPT ![req[t].d] = None]
  /\ UNCHANGED <<row, minted, proxy, tasks, guests, silent>>

\* No reload without the VM, and none for a VM of another VPC, which has no
\* proxy (although reloads put its domains into that of the default VPC).
ReadVm(t) ==
  /\ pc[t] = "readVm"
  /\ IF HasRow(req[t].v) /\ req[t].v \notin Abroad
       THEN Goto(t, "readVm", "readProxy") /\ UNCHANGED silent
       ELSE Leave(t, "readVm") /\ silent' = silent \cup {req[t].d}
  /\ UNCHANGED <<tables, tasks, guests>>

\* Without proxy there is nothing to reload: POST /proxy enqueues a reload.
ReadProxy(t) ==
  /\ IF proxy = None THEN Leave(t, "readProxy")
                     ELSE /\ pc[t] = "readProxy"
                          /\ pc'  = [pc EXCEPT ![t] = "enqueue"]
                          /\ req' = [req EXCEPT ![t].v = None]
                          /\ UNCHANGED <<expected, exec>>
  /\ UNCHANGED <<tables, tasks, guests, silent>>

\* Mutant: a reload that is being run is taken for this one.
Coalesce(t) ==
  /\ Leave(t, "enqueue")
  /\ IF exec.step \in Running \ {"setupVm", "install"} THEN UNCHANGED tasks ELSE Enqueue
  /\ UNCHANGED <<tables, guests, silent>>

EnqueueReload(t) ==
  /\ Leave(t, "enqueue")
  /\ Enqueue
  /\ UNCHANGED <<tables, guests, silent>>

-----------------------------------------------------------------------------
(* DELETE /vms with its cascade, and what the passes tear down.            *)

DeleteVm(t, v) ==
  /\ HasRow(v)
  /\ Begin(t, "dropDomains", [NoReq EXCEPT !.v = v])
  /\ UNCHANGED <<tables, silent>>

\* vm_deps.teardown: no reload is enqueued for the domains
DropDomains(p) ==
  LET gone == OfVm(req[p].v) IN
  /\ Goto(p, "dropDomains", "dropProxy")
  /\ domains' = [d \in Domain |-> IF d \in gone THEN None ELSE domains[d]]
  /\ silent'  = silent \cup gone
  /\ UNCHANGED <<row, minted, proxy, tasks, guests>>

DropProxy(p) ==
  /\ Goto(p, "dropProxy", IF p \in Pass THEN "reap" ELSE "down")
  /\ proxy' = IF proxy = req[p].v THEN None ELSE proxy
  /\ UNCHANGED <<row, domains, minted, tasks, guests, silent>>

Down(p) ==
  /\ Goto(p, "down", "dropRow") \/ Goto(p, "reap", "orphans")
  /\ TearDown(req[p].v)
  /\ UNCHANGED <<tables, tasks, silent>>

DropRow(p) ==
  /\ Leave(p, "dropRow")
  /\ row'    = [row EXCEPT ![req[p].v] = "deleted"]
  /\ silent' = silent \cup OfVm(req[p].v)
  /\ UNCHANGED <<domains, minted, proxy, tasks, guests>>

\* ttl_pass: vm_down and the row, without the cascade
Expire(p, v) ==
  /\ "ttl" \in Faults
  /\ HasRow(v)
  /\ Enter(p, "idle", "down", [NoReq EXCEPT !.v = v])
  /\ UNCHANGED <<tables, silent>>

\* vms_pass reads the rows, and then takes every directory for an orphan that has
\* none among them
ReadRows(p) ==
  /\ "reap" \in Faults
  /\ pc[p] = "idle"
  /\ pc' = [pc EXCEPT ![p] = "orphans"]
  /\ expected' = [expected EXCEPT ![p] = {v \in Vm : HasRow(v)}]
  /\ UNCHANGED <<tables, tasks, guests, silent, req, exec>>

Reap(p, v) ==
  /\ p \in Pass
  /\ row[v] # "unborn" /\ v \notin expected[p]
  /\ Enter(p, "orphans", "dropDomains", [NoReq EXCEPT !.v = v])
  /\ UNCHANGED <<tables, silent>>

-----------------------------------------------------------------------------
(* Guests that stop, and what breaks off.                                  *)

Boots(w) == loaded' = [loaded EXCEPT ![w] = IF w \in caddy THEN file[w] ELSE {}]

\* POST stop, the first half of a reboot, or an end of the guest's own
Halt(v) ==
  /\ "halt" \in Faults
  /\ v \in up
  /\ up'  = up \ {v}
  /\ off' = off \cup {v}
  /\ loaded' = [loaded EXCEPT ![v] = {}]
  /\ UNCHANGED <<tables, tasks, caddy, file, silent, control, exec>>

\* POST start, or the second half of a reboot: systemd in the guest starts Caddy
Boot(v) ==
  /\ HasRow(v)
  /\ v \in off
  /\ up'  = up \cup {v}
  /\ off' = off \ {v}
  /\ Boots(v)
  /\ UNCHANGED <<tables, tasks, caddy, file, silent, control, exec>>

\* recreate_vm clones a new root disk, and nothing sets it up again; or it fails
\* before the guest is up
Recreate(v) ==
  /\ "recreate" \in Faults
  /\ HasRow(v)
  /\ Wipe(v)
  /\ up' \in {up \cup {v}, up \ {v}}
  /\ off' = off \ {v}
  /\ silent' = IF v = proxy THEN Domain ELSE silent
  /\ UNCHANGED <<tables, tasks, control, exec>>

\* What is silent when the handlers and passes in P go no further: the rows that are
\* written stay, and what was to be enqueued is not.
Silenced(P) ==
  IF \E p \in P : pc[p] \in {"setupTask", "reloadTask"}
    THEN Domain
    ELSE silent \cup {d \in Domain : \E p \in P : /\ pc[p] \in {"readVm", "readProxy", "enqueue"}
                                                /\ req[p].d = d}

\* a statement or a command raises (or a pass comes to its end)
Raise(p) ==
  /\ pc[p] # "idle"
  /\ Leave(p, pc[p])
  /\ silent' = Silenced({p})
  /\ UNCHANGED <<tables, tasks, guests>>

\* the guests end with the service
Restart ==
  /\ "restart" \in Faults
  /\ pc'   = [p \in Proc |-> "idle"]
  /\ req'  = [p \in Proc |-> NoReq]
  /\ expected' = [p \in Pass |-> {}]
  /\ exec' = Idle
  /\ silent' = IF exec.step # "idle" THEN Domain ELSE Silenced(Proc)
  /\ up'  = {}
  /\ off' = up \cup off
  /\ loaded' = [v \in Vm |-> {}]
  /\ UNCHANGED <<tables, tasks, caddy, file>>

-----------------------------------------------------------------------------
(* The executor: _setup and _reload.                                       *)

\* The pending tasks come in any order.
TakeSetup(v) ==
  /\ exec.step = "idle"
  /\ v \in setups
  /\ exec'   = [Idle EXCEPT !.step = "setupVm", !.vm = v]
  /\ setups' = setups \ {v}
  /\ UNCHANGED <<tables, reloads, guests, silent, control>>

TakeReload ==
  /\ exec.step = "idle"
  /\ reloads > 0
  /\ exec'    = [Idle EXCEPT !.step = "readProxy"]
  /\ reloads' = reloads - 1
  /\ UNCHANGED <<tables, setups, guests, silent, control>>

\* a tick that finds no pending task
NoTask == exec.step = "idle" /\ setups = {} /\ reloads = 0 /\ UNCHANGED vars

\* _vm_or_fail
SetupVm ==
  /\ exec.step = "setupVm"
  /\ exec' = IF HasRow(exec.vm) THEN [exec EXCEPT !.step = "install"] ELSE Idle
  /\ UNCHANGED <<tables, tasks, guests, silent, control>>

\* Who answers at the address of a VM: once the row is gone the address may
\* have been given to another one.
At(v) == IF HasRow(v) THEN {v} \cap up ELSE up

\* setup.sh: a Caddy that is started loads the Caddyfile it finds, and is enabled.
RunSetup(w) ==
  /\ exec.step = "install"
  /\ w \in At(exec.vm)
  /\ caddy'  = caddy \cup {w}
  /\ loaded' = IF w \in caddy THEN loaded ELSE [loaded EXCEPT ![w] = file[w]]
  /\ UNCHANGED file

\* (Nothing reads the status `ready` that the row of the proxy gets then.)
Install(w) ==
  /\ RunSetup(w)
  /\ exec' = Idle
  /\ UNCHANGED <<tables, tasks, up, off, silent, control>>

\* the proxy of this node, whatever the task says
ReadOwnProxy ==
  /\ exec.step = "readProxy"
  /\ exec' = IF proxy = None THEN Idle ELSE [exec EXCEPT !.step = "readProxyVm", !.vm = proxy]
  /\ UNCHANGED <<tables, tasks, guests, silent, control>>

ReadProxyVm ==
  /\ exec.step = "readProxyVm"
  /\ exec' = IF HasRow(exec.vm) THEN [exec EXCEPT !.step = "readDomains"] ELSE Idle
  /\ UNCHANGED <<tables, tasks, guests, silent, control>>

ReadDomains ==
  /\ exec.step = "readDomains"
  /\ exec'   = [exec EXCEPT !.step = "resolve", !.left = {e \in Domain \X Vm : e[1] \in OfVm(e[2])}]
  /\ silent' = {}
  /\ UNCHANGED <<tables, tasks, guests, control>>

\* the row of the VM of each domain is read on its own
Resolve(d, v) ==
  /\ exec.step = "resolve"
  /\ <<d, v>> \in exec.left
  /\ exec' = [exec EXCEPT !.left = @ \ {<<d, v>>}, !.built = IF HasRow(v) THEN @ \cup {d} ELSE @]
  /\ UNCHANGED <<tables, tasks, guests, silent, control>>

Built == exec.step = "resolve" /\ exec.left = {}

\* Mutant: nothing tells Caddy to load it.
WriteOnly(w) ==
  /\ Built
  /\ w \in At(exec.vm)
  /\ exec' = Idle
  /\ file' = [file EXCEPT ![w] = exec.built]
  /\ UNCHANGED <<tables, tasks, up, off, caddy, loaded, silent, control>>

\* The Caddyfile is written, and then loaded if there is a Caddy.
WriteFile(w) == /\ Built
                /\ w \in At(exec.vm)
                /\ file' = [file EXCEPT ![w] = exec.built]
                /\ UNCHANGED caddy
LoadFile(w)  == loaded' = IF w \in caddy THEN [loaded EXCEPT ![w] = exec.built] ELSE loaded

\* Without Caddy the reload fails.  (A proxy that has meanwhile taken the place of
\* this one is none the wiser.)
Push(w) ==
  /\ WriteFile(w) /\ LoadFile(w)
  /\ exec'   = Idle
  /\ silent' = IF w \in caddy /\ w = proxy THEN silent ELSE Domain
  /\ UNCHANGED <<tables, tasks, up, off, control>>

\* ssh fails, before the script in the guest took effect, in the middle of it or when
\* it was done; the task is marked failed and is not run again.
SshFails ==
  /\ exec.step = "install" \/ Built
  /\ \/ UNCHANGED <<caddy, file, loaded>>
     \/ \E w \in Vm : \/ RunSetup(w)
                      \/ WriteFile(w) /\ (LoadFile(w) \/ UNCHANGED loaded)
  /\ exec'   = Idle
  /\ silent' = Domain
  /\ UNCHANGED <<tables, tasks, up, off, control>>

\* a statement raises
AbortTask ==
  /\ "abort" \in Faults
  /\ exec.step # "idle"
  /\ exec'   = Idle
  /\ silent' = Domain
  /\ UNCHANGED <<tables, tasks, guests, control>>

-----------------------------------------------------------------------------
Request(t) ==
  \/ \E v \in Vm : CreateVm(t, v)
  \/ CreateProxy(t)
  \/ \E d \in Domain, f \in Fqdn, v \in Vm : AddDomain(t, d, f, v)
  \/ \E d \in Domain : RemoveDomain(t, d)
  \/ \E v \in Vm : DeleteVm(t, v)

Handle(p) ==
  \/ \E v \in Vm : SpawnProxy(p, v)
  \/ BringUp(p) \/ InsertProxy(p) \/ SetupTask(p) \/ ReloadTask(p)
  \/ InsertDomain(p) \/ DeleteDomain(p) \/ ReadVm(p) \/ ReadProxy(p) \/ EnqueueReload(p)
  \/ DropDomains(p) \/ DropProxy(p) \/ Down(p) \/ DropRow(p)
  \/ (\E v \in Vm : Reap(p, v))
  \/ Raise(p)

Execute ==
  \/ (\E v \in Vm : TakeSetup(v)) \/ TakeReload \/ NoTask
  \/ SetupVm \/ (\E w \in Vm : Install(w))
  \/ ReadOwnProxy \/ ReadProxyVm \/ ReadDomains
  \/ (\E d \in Domain, v \in Vm : Resolve(d, v)) \/ (\E w \in Vm : Push(w))

\* what comes from outside, at any time,
Event ==
  \/ \E t \in Thread : Request(t)
  \/ \E p \in Pass : ReadRows(p) \/ \E v \in Vm : Expire(p, v)
  \/ \E v \in Vm : Halt(v) \/ Recreate(v)
  \/ Restart

\* and what goes on
Step ==
  \/ \E p \in Proc : Handle(p)
  \/ \E v \in Vm : Boot(v)
  \/ Execute
  \/ SshFails
  \/ AbortTask

Next == Event \/ Step

Spec == Init /\ [][Next]_vars

\* executor.py ticks for ever and its statements and commands end; what fails
\* ends the task.  Handlers may stay anywhere for ever.
FairSpec == Spec /\ WF_vars(Execute \/ AbortTask \/ SshFails)

-----------------------------------------------------------------------------
(* Properties.                                                             *)

Live(d)   == domains[d] # None /\ HasRow(domains[d].vm)
HasProxy  == proxy # None /\ HasRow(proxy) /\ proxy \in up
Served(d) == proxy \in caddy /\ d \in loaded[proxy]

\* A handler that has changed the tables still has to enqueue the reload ...
HandlerOwes == \E t \in Proc :
  pc[t] \in {"setupTask", "reloadTask", "readVm", "readProxy", "enqueue"}

\* ... or it is enqueued, or being run.
ReloadQueued == reloads > 0
ExecutorOwes == \/ ReloadQueued
                \/ exec.step \in {"readProxy", "readProxyVm", "readDomains", "resolve"}

\* POST and DELETE /domains trigger a reload: once it has been run, the proxy
\* serves exactly the domains of the table whose VM exists, in whatever order
\* domains, proxy and VMs came and went, except for those whose change was
\* silent (the cascade, another VPC, a failure on the way).
RoutesFollowTable ==
  HasProxy /\ ~HandlerOwes /\ ~ExecutorOwes =>
    \A d \in Domain \ silent : Served(d) <=> Live(d)

\* What these rest on.  Handlers and guests are of rows that are there or have been,
\* and the executor reads the table once;
Born == {v \in Vm : row[v] # "unborn"}
LocalsFit ==
  /\ \A t \in Proc :
       /\ pc[t] \in Steps \ {"spawn", "enqueue", "orphans"} => req[t].v \in Born
       /\ pc[t] \in {"insertDomain", "deleteDomain", "readVm", "readProxy", "enqueue"}
            => req[t].d \in minted
       /\ pc[t] = "insertDomain" => req[t].f \in Fqdn
  /\ \A d \in Domain : domains[d] # None => domains[d].vm \in Born
  /\ proxy # None => proxy \in Born
  /\ up \cup off \subseteq Born
  /\ exec.step \in {"readProxy", "readProxyVm", "readDomains"} => exec.left = {} /\ exec.built = {}

\* only the handler that spawned it brings a proxy up, before it has a row in proxies;
BroughtUpOnce ==
  \A s, t \in Proc : pc[t] = "bringUp" =>
    /\ proxy # req[t].v
    /\ pc[s] \in {"bringUp", "insertProxy"} /\ req[s].v = req[t].v => s = t

\* a reload that has yet to read the table will be run, on whatever proxy there is,
ReloadToCome == ReloadQueued \/ \E t \in Proc : pc[t] \in {"setupTask", "reloadTask"}
\* also when the proxy that the executor has read was replaced;
ReplacedReloads ==
  exec.step = "readProxyVm" /\ proxy \notin {None, exec.vm} => ReloadToCome \/ silent = Domain

\* so what changes a domain or a proxy owes a reload of it, and where none is owed the
\* routes that are being built, or those of the proxy, are right: the ones it serves
\* while it is up, and the ones that its Caddyfile brings back when it boots.
Owed(d) == \/ ReloadToCome
           \/ \E t \in Proc : pc[t] \in {"readVm", "readProxy", "enqueue"} /\ req[t].d = d
           \/ exec.step \in {"readProxy", "readProxyVm", "readDomains"}
BuiltRight(d) ==
  IF \E v \in Vm : <<d, v>> \in exec.left
    THEN d \notin exec.built /\ \A v \in Vm : <<d, v>> \in exec.left => d \in OfVm(v)
    ELSE d \in exec.built <=> Live(d)
ServedRight(d) == /\ proxy \in up => (Served(d) <=> Live(d))
                  /\ Live(d) <=> (proxy \in caddy /\ d \in file[proxy])
                  /\ proxy \notin caddy => d \notin file[proxy]
Right(d) == IF exec.step = "resolve" THEN BuiltRight(d) ELSE ServedRight(d)
HasDisk     == proxy # None /\ HasRow(proxy) /\ proxy \in up \cup off
OwedOrRight == HasDisk => \A d \in Domain \ silent : Owed(d) \/ Right(d)

IInv == TypeOK /\ LocalsFit /\ BroughtUpOnce /\ ReplacedReloads /\ OwedOrRight

\* ... and that comes to pass.
RoutesCatchUp ==
  \A d \in Domain :
    HasProxy /\ Live(d) ~> Served(d) \/ ~HasProxy \/ ~Live(d) \/ d \in silent \/ HandlerOwes
=============================================================================
