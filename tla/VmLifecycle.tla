---------------------------- MODULE VmLifecycle ----------------------------
(***************************************************************************)
(* The VMs of one node: their rows in the replicated `vms` table and what  *)
(* stands for a row on the host: a directory, a firecracker process named  *)
(* by a pid file in it, a network namespace and a rootfs LV.               *)
(*                                                                         *)
(* Request handlers are threads; the reconciler's ttl_pass and vms_pass    *)
(* run beside them and nothing orders the two.  A step is one statement or *)
(* one privileged command; handlers and passes share the steps of vm_up,   *)
(* vm_down, vm_start and vm_stop.  A step that fails raises: the handler   *)
(* or the pass ends there and undoes nothing.                              *)
(***************************************************************************)
EXTENDS Naturals

CONSTANTS Vm,       \* ids of the vms table
          Imaged,   \* the VMs spawned with a root_image
          Thread,   \* request handlers that run at the same time
          Pass,     \* reconciler passes that run at the same time
          Ttl,      \* NYC_VM_TTL_MINUTES is positive
          Faults,   \* what goes wrong around the service
          Asks,     \* bound: what clients ask for when a VM is there
          MaxIps,   \* bound: the public IPs of one VM
          None      \* Python's None

Proc  == Thread \cup Pass
Goals == {"stop", "reboot", "recreate", "delete", "reap"}

\* exit: a guest powers off or firecracker dies; restart: the service or the
\* host is restarted; netdown: `ip netns del` fails
ASSUME FaultsAssumption == Faults \subseteq {"exit", "restart", "netdown"}
ASSUME AsksAssumption   == Asks \subseteq {"delete", "stop", "reboot", "start", "attach", "detach"}
ASSUME TtlAssumption    == Ttl \in BOOLEAN
ASSUME MaxIpsAssumption == MaxIps \in Nat
ASSUME VmAssumption     == Imaged \subseteq Vm /\ None \notin Vm
ASSUME ProcAssumption   == Thread \cap Pass = {} /\ None \notin Proc \cup Goals

VARIABLES row,       \* vms table: status of the row, "unborn" or "deleted"
          pubip,     \* public_ips table: the number of attached rows of a VM
          dir,       \* VMs with a directory
          pid,       \* the process the pid file names: none, live or dead
          stray,     \* VMs with a live process that no pid file names
          rootfs,    \* what the rootfs LV was cloned from, "none" if absent
          seed,      \* ... and whether the unit for a public IP was injected
          conf,      \* whether config.json has eth1, "none" if it is absent
          net,       \* VMs with a network namespace
          pc,        \* next step of each handler and pass
          job,       \* the VM it works on
          goal,      \* what follows the teardown or the kill it is in
          todo,      \* the VMs a pass still has to look at
          expected,  \* the ids a pass has read from the vms table
          spec,      \* whether the VmSpec of a handler has a public IP
          leaked,    \* namespaces a teardown could not delete, or that were made
                     \* behind its back (history)
          met        \* VMs for which two requests have overlapped (history)

tables == <<row, pubip>>
disk   == <<rootfs, seed>>
nets   == <<net, leaked>>
host   == <<dir, pid, stray, disk, conf, nets>>
scan   == <<todo, expected>>
vars   == <<tables, host, pc, job, goal, scan, spec, met>>

Status == {"pending", "running", "stopped"}
Down   == {"signal", "unlink", "setStopped", "down", "netdown", "rmtree", "lvremove"}
Up     == {"spec", "mkdir", "wipe", "clone", "inject", "network", "build", "spawn", "setRunning"}
Nics   == {"none", "plain", "public"}
Tables == {"insertIp", "deleteIp", "reread", "dropRow"}
Passes == {"ttl", "dirs", "orphans", "prune"}

TypeOK ==
  /\ row    \in [Vm -> Status \cup {"unborn", "deleted"}]
  /\ pid    \in [Vm -> {"none", "live", "dead"}]
  /\ rootfs \in [Vm -> {"none", "default", "image"}]
  /\ pubip  \in [Vm -> 0..MaxIps]
  /\ \A s \in {dir, stray, net, met} : s \subseteq Vm
  /\ leaked \subseteq net
  /\ \A f \in {seed, conf} : f \in [Vm -> Nics]
  /\ \A v \in Vm : pid[v] # "none" \/ conf[v] # "none" => v \in dir
  /\ \A v \in Vm : seed[v] # "none" => rootfs[v] # "none"
  /\ spec \in [Thread -> BOOLEAN]
  /\ pc   \in [Proc -> Down \cup Up \cup Tables \cup Passes \cup {"idle"}]
  /\ job  \in [Proc -> Vm \cup {None}]
  /\ goal \in [Proc -> Goals \cup {None}]
  /\ \A p \in Proc : (job[p] = None) <=> (pc[p] \in Passes \cup {"idle"})
  /\ \A s \in {todo, expected} : s \in [Pass -> SUBSET Vm]

Init ==
  /\ row    = [v \in Vm |-> "unborn"]
  /\ pid    = [v \in Vm |-> "none"]
  /\ rootfs = [v \in Vm |-> "none"]
  /\ pubip  = [v \in Vm |-> 0]
  /\ seed   = [v \in Vm |-> "none"]
  /\ conf   = [v \in Vm |-> "none"]
  /\ spec   = [t \in Thread |-> FALSE]
  /\ dir = {} /\ stray = {} /\ net = {}
  /\ leaked = {} /\ met = {}
  /\ pc   = [p \in Proc |-> "idle"]
  /\ job  = [p \in Proc |-> None]
  /\ goal = [p \in Proc |-> None]
  /\ todo = [p \in Pass |-> {}]
  /\ expected = [p \in Pass |-> {}]

HasRow(v) == row[v] \in Status

-----------------------------------------------------------------------------
(* Control.                                                                *)

Begin(t, v, step, then) ==
  /\ t \in Thread
  /\ pc[t] = "idle"
  /\ pc'   = [pc EXCEPT ![t] = step]
  /\ job'  = [job EXCEPT ![t] = v]
  /\ goal' = [goal EXCEPT ![t] = then]
  /\ met'  = IF \E s \in Thread : job[s] = v THEN met \cup {v} ELSE met
  /\ UNCHANGED <<scan, spec>>

Goto(p, from, to) ==
  /\ pc[p] = from
  /\ pc' = [pc EXCEPT ![p] = to]
  /\ UNCHANGED <<job, goal, scan, spec, met>>

\* back to a pass's loop, or the end of a request
Leave(p, from, to) ==
  /\ pc[p] = from
  /\ pc'   = [pc EXCEPT ![p] = to]
  /\ job'  = [job EXCEPT ![p] = None]
  /\ goal' = [goal EXCEPT ![p] = None]
  /\ spec' = [t \in Thread |-> t # p /\ spec[t]]
  /\ UNCHANGED <<scan, met>>

\* Mutant: INSERT OR REPLACE.
UpsertStatus(v, s) == row' = [row EXCEPT ![v] = s]

\* UPDATE vms ... WHERE id = ?: without effect when the row is gone
SetStatus(v, s) == row' = [row EXCEPT ![v] = IF HasRow(v) THEN s ELSE @]

-----------------------------------------------------------------------------
(* Requests.                                                               *)

\* POST /vms and POST /vms/spawn: the row, then vm_up.  POST /proxy inserts a
\* public IP between the two (withIp).
Create(t, v, withIp) ==
  /\ row[v] = "unborn"
  /\ row' = [row EXCEPT ![v] = "pending"]
  /\ Begin(t, v, IF withIp THEN "insertIp" ELSE "spec", None)
  /\ UNCHANGED <<pubip, host>>

Request(ask, t, v, step, then) ==
  /\ ask \in Asks /\ HasRow(v)
  /\ Begin(t, v, step, then)
  /\ UNCHANGED <<tables, host>>

Delete(t, v) == Request("delete", t, v, "deleteIp", "delete")
Stop(t, v)   == Request("stop", t, v, "signal", "stop")
Reboot(t, v) == Request("reboot", t, v, "signal", "reboot")
Start(t, v)  == Request("start", t, v, "spawn", None)
Attach(t, v) == Request("attach", t, v, "insertIp", "recreate")
Detach(t, v) == pubip[v] > 0 /\ Request("detach", t, v, "deleteIp", "recreate")

\* No check that the VM has none: each attach takes one more from the pool.
InsertIp(p) ==
  /\ Goto(p, "insertIp", IF goal[p] = "recreate" THEN "reread" ELSE "spec")
  /\ pubip[job[p]] < MaxIps
  /\ pubip' = [pubip EXCEPT ![job[p]] = @ + 1]
  /\ UNCHANGED <<row, host>>

\* _detach_local, and vm_deps.teardown before a delete or the reaping of an
\* orphan, read one row and delete it, which another may have done before.
DeleteIp(p) ==
  /\ Goto(p, "deleteIp", IF goal[p] = "recreate" THEN "reread" ELSE "down")
  /\ \/ /\ pubip[job[p]] > 0
        /\ pubip' = [pubip EXCEPT ![job[p]] = @ - 1]
     \/ /\ pubip[job[p]] = 0 \/ \E q \in Proc \ {p} : job[q] = job[p]
        /\ UNCHANGED pubip
  /\ UNCHANGED <<row, host>>

\* recreate_vm reads the row again and gives up when it is gone
Reread(p) ==
  /\ pc[p] = "reread"
  /\ IF HasRow(job[p]) THEN Goto(p, "reread", "down") ELSE Leave(p, "reread", "idle")
  /\ UNCHANGED <<tables, host>>

-----------------------------------------------------------------------------
(* vm_up.                                                                  *)

\* The process that the pid file names, or one it has named before, keeps the
\* rootfs LV open.
Held(v) == pid[v] = "live" \/ v \in stray

\* lv.remove: a listing that fails counts as an empty one; lvremove refuses
\* an LV that is open (and the step raises)
RemoveRootfs(v) == \/ ~Held(v) /\ rootfs' = [rootfs EXCEPT ![v] = "none"]
                               /\ seed'   = [seed EXCEPT ![v] = "none"]
                   \/ UNCHANGED disk

\* _spec: the public IP comes from the table as it is now
ReadSpec(p) ==
  /\ pc[p] = "spec"
  /\ pc'   = [pc EXCEPT ![p] = "mkdir"]
  /\ spec' = [spec EXCEPT ![p] = pubip[job[p]] > 0]
  /\ UNCHANGED <<tables, host, job, goal, scan, met>>

Mkdir(p) ==
  /\ Goto(p, "mkdir", "wipe")
  /\ dir' = dir \cup {job[p]}
  /\ UNCHANGED <<tables, pid, stray, disk, conf, nets>>

Wipe(p) ==
  /\ Goto(p, "wipe", "clone")
  /\ RemoveRootfs(job[p])
  /\ UNCHANGED <<tables, dir, pid, stray, conf, nets>>

\* Only spawn passes an origin on; recreate_vm leaves the default.
Clone(p) ==
  /\ Goto(p, "clone", "inject")
  /\ rootfs[job[p]] = "none"
  /\ rootfs' = [rootfs EXCEPT ![job[p]] =
                  IF job[p] \in Imaged /\ goal[p] # "recreate" THEN "image" ELSE "default"]
  /\ UNCHANGED <<tables, dir, pid, stray, seed, conf, nets>>

\* The clone is linked into the directory and edited; a unit is added, never
\* removed, and an image may hold the one of the VM it was taken from.
Inject(p) ==
  LET v == job[p] IN
  /\ Goto(p, "inject", "network")
  /\ v \in dir /\ rootfs[v] # "none"
  /\ \E unit \in (IF spec[p] THEN {"public"} ELSE IF rootfs[v] = "image" THEN {"plain", "public"} ELSE {"plain"}) :
       seed' = [seed EXCEPT ![v] = unit]
  /\ UNCHANGED <<tables, dir, pid, stray, rootfs, conf, nets>>

\* A teardown that ends in the row's removal has deleted the namespace of v, or the
\* row is gone and so is the directory, or is about to be.
PastNetdown(q, v) == job[q] = v /\ goal[q] = "delete" /\ pc[q] \in {"rmtree", "lvremove", "dropRow"}
Overtaken(v) == \/ \E q \in Proc : PastNetdown(q, v)
                \/ /\ ~HasRow(v)
                   /\ v \notin dir \/ \E q \in Proc : job[q] = v /\ pc[q] = "rmtree"

\* `ip netns add` fails when the namespace exists
Network(p) ==
  /\ Goto(p, "network", "build")
  /\ job[p] \notin net
  /\ net'    = net \cup {job[p]}
  /\ leaked' = IF Overtaken(job[p]) THEN leaked \cup {job[p]} ELSE leaked
  /\ UNCHANGED <<tables, dir, pid, stray, disk, conf>>

Nic(public) == IF public THEN "public" ELSE "plain"

Build(p) ==
  /\ Goto(p, "build", "spawn")
  /\ job[p] \in dir
  /\ conf' = [conf EXCEPT ![job[p]] = Nic(spec[p])]
  /\ UNCHANGED <<tables, dir, pid, stray, disk, nets>>

\* A process that the pid file already names is forgotten.  Without namespace,
\* disk or config.json the new one ends at once.
Spawn(p) ==
  LET v    == job[p]
      runs == v \in net /\ rootfs[v] # "none" /\ conf[v] # "none"
  IN
  /\ Goto(p, "spawn", "setRunning")
  /\ v \in dir
  /\ pid' = [pid EXCEPT ![v] = IF runs THEN "live" ELSE "dead"]
  /\ stray' = IF pid[v] = "live" THEN stray \cup {v} ELSE stray
  /\ UNCHANGED <<tables, dir, disk, conf, nets>>

SetRunning(p) ==
  /\ Leave(p, "setRunning", "idle")
  /\ SetStatus(job[p], "running")
  /\ UNCHANGED <<pubip, host>>

-----------------------------------------------------------------------------
(* vm_stop and vm_down.                                                    *)

AfterKill(p) == IF goal[p] \in {"stop", "reboot"} THEN "setStopped" ELSE "netdown"

\* Mutant: without a directory there is nothing to tear down.
CheckDirOnly(p) ==
  /\ Goto(p, "down", IF job[p] \in dir THEN "signal" ELSE "lvremove")
  /\ UNCHANGED <<tables, host>>

CheckDir(p) ==
  /\ Goto(p, "down", IF job[p] \in dir THEN "signal" ELSE "netdown")
  /\ UNCHANGED <<tables, host>>

\* `kill` of a process that has ended fails, and kill.py lets the PrivopsError
\* through: with a dead process this step can only raise.
Signal(p) ==
  LET v == job[p] IN
  /\ pc[p] = "signal"
  /\ \/ pid[v] = "none" /\ Goto(p, "signal", AfterKill(p)) /\ UNCHANGED pid
     \/ pid[v] = "live" /\ Goto(p, "signal", "unlink") /\ pid' = [pid EXCEPT ![v] = "dead"]
  /\ UNCHANGED <<tables, dir, stray, disk, conf, nets>>

\* forget the process the pid file of v names
Forget(v) == /\ pid'   = [pid EXCEPT ![v] = "none"]
             /\ stray' = IF pid[v] = "live" THEN stray \cup {v} ELSE stray

Unlink(p) ==
  /\ Goto(p, "unlink", AfterKill(p))
  /\ Forget(job[p])
  /\ UNCHANGED <<tables, dir, disk, conf, nets>>

\* _set_status reads the row back and raises when it is gone
SetStopped(p) ==
  /\ IF goal[p] = "reboot" /\ HasRow(job[p]) THEN Goto(p, "setStopped", "spawn")
                                             ELSE Leave(p, "setStopped", "idle")
  /\ SetStatus(job[p], "stopped")
  /\ UNCHANGED <<pubip, host>>

\* exceptions are swallowed
Netdown(p) ==
  /\ Goto(p, "netdown", "rmtree")
  /\ \/ net' = net \ {job[p]} /\ leaked' = leaked \ {job[p]}
     \/ "netdown" \in Faults /\ net' = net /\ leaked' = leaked \cup ({job[p]} \cap net)
  /\ UNCHANGED <<tables, dir, pid, stray, disk, conf>>

\* Mutant: the pid file is kept elsewhere.
RmtreeKeepsPid(p) ==
  /\ Goto(p, "rmtree", "lvremove")
  /\ dir' = dir \ {job[p]}
  /\ conf' = [conf EXCEPT ![job[p]] = "none"]
  /\ UNCHANGED <<tables, pid, stray, disk, nets>>

\* Mutant: config.json outlives the directory's removal.
RmtreeKeepsConf(p) ==
  /\ Goto(p, "rmtree", "lvremove")
  /\ Forget(job[p])
  /\ UNCHANGED <<tables, dir, conf, disk, nets>>

Rmtree(p) ==
  /\ Goto(p, "rmtree", "lvremove")
  /\ dir' = dir \ {job[p]}
  /\ conf' = [conf EXCEPT ![job[p]] = "none"]
  /\ Forget(job[p])
  /\ UNCHANGED <<tables, disk, nets>>

Lvremove(p) ==
  /\ \/ goal[p] = "reap"     /\ Leave(p, "lvremove", "orphans")
     \/ goal[p] = "recreate" /\ Goto(p, "lvremove", "spec")
     \/ goal[p] = "delete"   /\ Goto(p, "lvremove", "dropRow")
  /\ RemoveRootfs(job[p])
  /\ UNCHANGED <<tables, dir, pid, stray, conf, nets>>

\* the end of DELETE /vms, or of one round of ttl_pass
DropRow(p) ==
  /\ Leave(p, "dropRow", IF p \in Pass THEN "ttl" ELSE "idle")
  /\ row' = [row EXCEPT ![job[p]] = "deleted"]
  /\ UNCHANGED <<pubip, host>>

-----------------------------------------------------------------------------
(* ttl_pass, then vms_pass.                                                *)

ScanTo(p, from, to, names) ==
  /\ pc[p] = from
  /\ pc'   = [pc EXCEPT ![p] = to]
  /\ todo' = [todo EXCEPT ![p] = names]
  /\ UNCHANGED <<tables, dir, pid, stray, conf, nets, job, goal, spec, met>>

\* any of the VMs may be past its time to live
ReadExpired(p) ==
  /\ \E names \in SUBSET {v \in Vm : Ttl /\ HasRow(v)} : ScanTo(p, "idle", "ttl", names)
  /\ UNCHANGED <<disk, expected>>

\* take v from the list and go through the steps from `step` on
TakeUp(p, v, from, step, then) ==
  /\ pc[p] = from
  /\ v \in todo[p]
  /\ todo' = [todo EXCEPT ![p] = @ \ {v}]
  /\ pc'   = [pc EXCEPT ![p] = step]
  /\ job'  = [job EXCEPT ![p] = v]
  /\ goal' = [goal EXCEPT ![p] = then]
  /\ UNCHANGED <<tables, host, expected, spec, met>>

\* straight to vm_down
Expire(p, v) == TakeUp(p, v, "ttl", "down", "delete")

ReadRows(p) ==
  /\ todo[p] = {}
  /\ ScanTo(p, "ttl", "dirs", {})
  /\ expected' = [expected EXCEPT ![p] = {v \in Vm : HasRow(v)}]
  /\ UNCHANGED disk

\* Mutant: the difference taken the other way round.
ListMissing(p) ==
  /\ ScanTo(p, "dirs", "orphans", expected[p] \ dir)
  /\ UNCHANGED <<disk, expected>>

ListDirs(p) ==
  /\ ScanTo(p, "dirs", "orphans", dir \ expected[p])
  /\ UNCHANGED <<disk, expected>>

ReapOrphan(p, v) == TakeUp(p, v, "orphans", "deleteIp", "reap")

ListRootfs(p) ==
  /\ todo[p] = {}
  /\ ScanTo(p, "orphans", "prune", {v \in Vm : rootfs[v] # "none"} \ expected[p])
  /\ UNCHANGED <<disk, expected>>

Prune(p, v) ==
  /\ v \in todo[p]
  /\ ScanTo(p, "prune", "prune", todo[p] \ {v})
  /\ RemoveRootfs(v)
  /\ UNCHANGED expected

EndPass(p) ==
  /\ pc'   = [pc EXCEPT ![p] = "idle"]
  /\ job'  = [job EXCEPT ![p] = None]
  /\ goal' = [goal EXCEPT ![p] = None]
  /\ todo' = [todo EXCEPT ![p] = {}]
  /\ expected' = [expected EXCEPT ![p] = {}]
  /\ UNCHANGED <<tables, host, spec, met>>

FinishPass(p) == pc[p] = "prune" /\ todo[p] = {} /\ EndPass(p)

-----------------------------------------------------------------------------
(* Failures.                                                               *)

\* unlink and rmtree ignore errors, and the network steps are wrapped in _safe
MayRaise(p) == pc[p] \notin {"idle", "unlink", "netdown", "rmtree"}

Raise(t) == /\ MayRaise(t)
            /\ Leave(t, pc[t], "idle")
            /\ UNCHANGED <<tables, host>>

\* loop.py swallows the exception and tries again after its interval
AbortPass(p) == MayRaise(p) /\ EndPass(p)

Exit(v) ==
  /\ "exit" \in Faults
  /\ \/ pid[v] = "live" /\ pid' = [pid EXCEPT ![v] = "dead"] /\ UNCHANGED stray
     \/ v \in stray /\ stray' = stray \ {v} /\ UNCHANGED pid
  /\ UNCHANGED <<tables, dir, disk, conf, nets, pc, job, goal, scan, spec, met>>

\* the service's children end with it; a reboot also clears the namespaces
Restart ==
  /\ "restart" \in Faults
  /\ pc'   = [p \in Proc |-> "idle"]
  /\ job'  = [p \in Proc |-> None]
  /\ goal' = [p \in Proc |-> None]
  /\ todo' = [p \in Pass |-> {}]
  /\ expected' = [p \in Pass |-> {}]
  /\ pid' = [v \in Vm |-> IF pid[v] = "live" THEN "dead" ELSE pid[v]]
  /\ stray' = {}
  /\ net' \in {net, {}} /\ leaked' = leaked \cap net'
  /\ spec' = [t \in Thread |-> FALSE]
  /\ UNCHANGED <<tables, dir, disk, conf, met>>

-----------------------------------------------------------------------------
Step(p) ==
  \/ InsertIp(p) \/ DeleteIp(p) \/ Reread(p)
  \/ ReadSpec(p) \/ Mkdir(p) \/ Wipe(p) \/ Clone(p) \/ Inject(p)
  \/ Network(p) \/ Build(p) \/ Spawn(p) \/ SetRunning(p)
  \/ CheckDir(p) \/ Signal(p) \/ Unlink(p) \/ SetStopped(p)
  \/ Netdown(p) \/ Rmtree(p) \/ Lvremove(p) \/ DropRow(p)

Handler(t) ==
  \/ \E v \in Vm : \/ \E withIp \in BOOLEAN : Create(t, v, withIp)
                   \/ Delete(t, v)
                   \/ Stop(t, v) \/ Reboot(t, v) \/ Start(t, v)
                   \/ Attach(t, v) \/ Detach(t, v)
  \/ Raise(t)

Reconcile(p) ==
  \/ ReadExpired(p)
  \/ \E v \in Vm : Expire(p, v)
  \/ ReadRows(p)
  \/ ListDirs(p)
  \/ \E v \in Vm : ReapOrphan(p, v)
  \/ ListRootfs(p)
  \/ \E v \in Vm : Prune(p, v)
  \/ FinishPass(p)
  \/ AbortPass(p)

Next == \/ \E p \in Proc : Step(p)
        \/ \E t \in Thread : Handler(t)
        \/ \E p \in Pass : Reconcile(p)
        \/ \E v \in Vm : Exit(v)
        \/ Restart

Spec == Init /\ [][Next]_vars

\* The steps of a pass that raise however often they are tried: the kill of a process
\* that has ended, and the removal of a rootfs LV that a process has open.
Refused(p) == \/ pc[p] = "signal" /\ pid[job[p]] = "dead"
              \/ pc[p] = "lvremove" /\ Held(job[p])
              \/ pc[p] = "prune" /\ \E v \in todo[p] : Held(v)

\* loop.py starts a pass every interval, a pass takes its steps to its end or to the
\* one that raises, whichever VMs it gets to before that, and a step that need not
\* fail fails only finitely often (at the end of a pass AbortPass and FinishPass
\* are one step).  Handlers may stay anywhere for ever.
PassFairness ==
  /\ \A p \in Pass : WF_vars(Step(p) \/ Reconcile(p))
  /\ <>[][\A p \in Pass : AbortPass(p) => Refused(p) \/ FinishPass(p)]_vars

FairSpec == Spec /\ PassFairness

-----------------------------------------------------------------------------
(* Properties.                                                             *)

Busy(v) == \E p \in Proc : job[p] = v

\* No handler or pass that read a VM's row before it was deleted, or before
\* its status changed, brings the row back or takes it back to pending.
RowForward ==
  \A v \in Vm : /\ row[v] = "deleted" => row'[v] = "deleted"
                /\ row[v] \in {"running", "stopped"} => row'[v] # "pending"
RowsMoveForward == [][RowForward]_vars

\* vms_pass.py: what is left of a VM without a row can be found by a pass, a
\* process by the rootfs LV that it holds and a namespace by its directory.  There
\* are two ways to lose a namespace: vm_down.py's _safe has swallowed that it could
\* not be deleted, or a bring-up makes it when a teardown of the VM has passed.
NothingForgotten ==
  \A v \in Vm : ~HasRow(v) =>
    /\ v \in net => v \in dir \cup leaked
    /\ Held(v) => rootfs[v] # "none"

\* vm_up.py: a guest has eth1 exactly if the disk it runs from was given the unit
\* that configures it (an image may bring the unit along), however often public IPs
\* came and went and requests were broken off since, as long as no two requests for
\* the VM overlapped.
GuestMatchesSeed ==
  \A v \in Vm \ met : pid[v] = "live" /\ ~Busy(v) =>
    \/ conf[v] = seed[v]
    \/ rootfs[v] = "image" /\ conf[v] = "plain"

\* What these rest on.  A pass only tears down; only what a handler has begun to
\* create has a directory;
StepsFit ==
  /\ \A p \in Pass : /\ pc[p] \notin Up \cup {"insertIp", "reread", "setStopped"}
                     /\ pc[p] \in Down => goal[p] \in {"delete", "reap"}
                     /\ pc[p] = "deleteIp" => goal[p] = "reap"
                     /\ goal[p] = "delete" \/ (pc[p] = "ttl" /\ todo[p] # {}) => Ttl
  /\ \A p \in Proc : pc[p] = "dropRow" => goal[p] = "delete"
  /\ \A t \in Thread : pc[t] \notin Passes /\ goal[t] # "reap"
  /\ \A t \in Thread : job[t] # None => row[job[t]] # "unborn"
  /\ \A v \in dir : row[v] # "unborn"

\* a process, whichever handlers and passes have forgotten it, has its rootfs LV
\* open, and the one of the pid file its config.json.
HeldStays == \A v \in Vm : /\ Held(v) => rootfs[v] # "none"
                           /\ pid[v] = "live" => conf[v] # "none"

\* Where no two requests for a VM overlapped, config.json is written once, after the
\* disk and from the same VmSpec.
Overlaps == \A s, t \in Thread : s # t /\ job[s] = job[t] /\ job[s] # None => job[s] \in met
Written(v, nic) == rootfs[v] = "none" \/ seed[v] = nic \/ (rootfs[v] = "image" /\ nic = "plain")
SpecsAgree ==
  /\ \A t \in Thread : \/ pc[t] \in (Up \ {"spawn", "setRunning"}) \cup {"lvremove"}
                       \/ pc[t] = "insertIp" /\ goal[t] # "recreate"
                       => job[t] \in met \/ conf[job[t]] = "none"
  /\ \A t \in Thread : pc[t] \in {"network", "build"} =>
                       job[t] \in met \/ Written(job[t], Nic(spec[t]))
  /\ \A v \in Vm \ met : conf[v] # "none" => Written(v, conf[v])

\* A namespace that is not leaked has a row that nobody is about to drop, or a
\* directory that nobody is about to remove.
NetFound ==
  \A v \in net \ leaked :
    /\ row[v] # "unborn"
    /\ IF HasRow(v) THEN \A q \in Proc : ~PastNetdown(q, v)
                    ELSE v \in dir /\ \A q \in Proc : ~(job[q] = v /\ pc[q] = "rmtree")

IInv == TypeOK /\ StepsFit /\ HeldStays /\ Overlaps /\ SpecsAgree /\ NetFound

\* reconciler/spec.md: the reconciler tears down orphans.  A directory without
\* a row is removed ...
Orphan(v) == row[v] = "deleted" /\ v \in dir
OrphansReaped == \A v \in Vm : Orphan(v) ~> ~Orphan(v)

\* ... unless a pass raises before it gets there, and so does the next: at an orphan
\* or an expired VM, this one or another, whose pid file names a process that has
\* ended (kill.py), or at an expired one whose rootfs LV a forgotten process has open.
Wedged(v) == \/ pid[v] = "dead" /\ (Orphan(v) \/ (Ttl /\ HasRow(v)))
             \/ v \in stray /\ Ttl /\ HasRow(v)
LiveOrphansReaped == \A v \in Vm : Orphan(v) ~> (~Orphan(v) \/ \E w \in Vm : Wedged(w))

\* Attaching or detaching a public IP is a reboot: the VM comes back with the
\* root disk it was spawned from.
RootImageKept ==
  \A v \in Imaged : rootfs[v] # "default"
=============================================================================
