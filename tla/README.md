# nyc in TLA+

nyc runs firecracker VMs on a cluster of hosts. Every host runs one service
(FastAPI on dadar); its tables are replicated by rqlite, and a request for a
resource is forwarded to the host that owns it. There the handler writes rows and
runs privileged commands (`lvcreate`, `ip`, `kill`, ...) one after the other,
without transactions and without undoing anything when one of them fails. A
reconciler beside the handlers removes what has no row, and a task executor runs
queued work on proxy guests.

The specifications below follow that code statement by statement. They ask what
can come of its interleavings, of steps that fail, and of restarts.

## The system

| Component | State | Operations | What is hard | What makes it correct |
|---|---|---|---|---|
| Volumes and snapshots (`routers/volumes.py`, `routers/snapshots.py`, `client/volume`) | `volumes`, `snapshots` rows; thin LVs `data-`, `snap-`, `gold-` | create, clone, snapshot, promote, resize, delete | LV and row are changed in separate steps; size read early, written late; a failed listing looks empty | rows never promise more than the disk; `gold-default` stays; deleted rows stay deleted; LVs without a row go |
| VM lifecycle (`routers/vms.py`, `client/lifecycle`, `client/env`, `client/vm`) | `vms` rows; directory, pid file, process, namespace, rootfs LV | create, spawn, start, stop, reboot, recreate, delete | about twelve steps each, none undone; handlers overlap; processes end by themselves; restarts | rows move forward; what a deleted VM leaves can be found and is removed; a reboot keeps the root disk |
| Reconciler (`reconciler/*_pass.py`, `loop.py`) | locals of a pass | ttl, vms, volumes, snapshots, overlay pass | works from rows read earlier; two passes may overlap (`POST /reconcile`); an exception ends the pass | removes orphans only, and all of them |
| Task executor (`executor.py`, `task_runner.py`, `routers/tasks.py`) | `tasks` rows; locals of a tick | submit, claim, confirm, run, record | claim and confirmation are two statements; statements may fail after taking effect; restarts | a task is taken once and its status only moves forward |
| Public IPs (`routers/public_ips.py`, `client/pubip`) | `public_ips` rows | attach, detach, acquire | pool read before the insert; attaching recreates the VM | guest and disk agree on the public interface |
| Proxy and domains (`routers/proxy.py`, `routers/domains.py`, `client/proxy`) | `proxies`, `domains` rows; routes in the guest | create proxy, add and remove domain, reload | check before insert; routes read before they are pushed | the proxy serves the domains of the table, in whatever order things change |
| VPCs and addresses (`routers/vpcs.py`, `allocate.py`, `defaults.py`) | `vpcs` rows, `ip` of a VM | create, delete, pick an address, default VPC | addresses read before the insert, VMs before the delete | addresses and VPCs go wrong in a race only; one default VPC |
| Overlay and host network (`client/network`, `overlay_pass.py`) | bridges, tunnels, flood lists, NAT rules | ensure, set_fdb, wire | check-then-act commands; peers change; broken-off bring-ups | a VM that is up has bridge, rules and pair; a teardown leaves nothing; the flood list follows the peers |
| LVM pool (`client/volume/pool.py`) | PV, VG, pool, golden | ensure at startup | crash between commands | startup can be repeated and keeps what is there |
| Forwarding (`routers/_proxy.py`) | the calls that wait | forward | 30 s timeout against a late answer; nodes that wait for each other | one forward, at most one effect, an answer |

Handlers are synchronous functions, so FastAPI runs each in a worker thread; the
reconciler loop runs in the event loop's thread and the executor's tick in
another. Nothing in nyc locks anything. Components meet in the replicated tables
and on the host: a VM row names a volume (`data_volume_id`), a clone needs the
snapshot's LV, the passes compare tables with what is on the host, and `POST
/proxy` spawns a VM, inserts a public IP and enqueues two tasks.

## Modules

| Module | Models |
|---|---|
| `VolumeStore` | volumes, snapshots and goldens with both passes over them |
| `VmLifecycle` | VMs of one node with ttl_pass and vms_pass |
| `TaskExecutor` | the executors and the `tasks` table |
| `TaskQueue` | what the `tasks` table promises; `TaskExecutor` implements it |
| `Ingress` | proxy, domains and the tasks that bring domains into the proxy's guest |
| `Placement` | routing and forwarding of requests; VPCs and addresses |
| `PoolEnsure` | the bring-up of the LVM pool at startup |
| `HostNet` | bridge, tunnel, NAT rules, namespaces and pairs of one VPC on one node |
| `NodeHost` | `PoolEnsure` and `HostNet` composed: a node that is started over and over |
| `VolumeStore_proofs`, `VmLifecycle_proofs`, `TaskExecutor_proofs`, `Ingress_proofs`, `Placement_proofs` | the theorems about each of these, with their proofs |
| `NodeHost_proofs` | the theorems about `HostNet`, `PoolEnsure` and their composition |
| `MCVolumeStore`, `MCTaskExecutor`, `MCVmLifecycle`, `MCIngress`, `MCNodeHost` | instances for TLC (symmetry, one executor per node, a bound on events) |

A request handler is a thread with a program counter; one action is one database
statement or one privileged command, together with the Python around it up to the
next one. Locals that a later step uses (`req`, `job`, `goal`, `todo`, `expected`,
`scan`) are variables, so a step works with what was read then and not with what
is true now. Control is shared where the code shares it: `vm_up` and `vm_down` are
one set of actions in `VmLifecycle`, used by create, recreate, delete, expiry and
the orphan reaper, and `goal` says what follows.

**`VolumeStore`.** `volumes`, `snapshots` and the disk columns of `vms` map ids to
rows or `None`; `lv[n][x]` is the size of LV `x` in the volume group of node `n`,
0 if it is absent. LV names are identified with the ids they are made from.
`minted` is the set of uuids handed out: ids are never reused. Creation makes the
LV, formats it and inserts the row; deletion checks, removes, drops the row; a
resize is `lvextend` (which refuses a size that is not larger), then the row.
`Raise` ends a handler before any step. `Lvremove` and `SkipReap` include the
failed listing that `lv.list_lvs` turns into an empty one. A pass reads the rows
of its kind, lists the LVs, removes the difference one by one, first for `data-`,
then for `snap-` and `gold-`.

**`VmLifecycle`.** Per VM: the status of its row, whether a directory exists, what
the pid file names (`none`, `live`, `dead`), whether there is a live process that
no pid file names (`stray`), the origin of the rootfs LV and what was injected
into it (`seed`), whether `config.json` has the public interface (`conf`), the
number of rows in `public_ips`, and the namespace. `ReadSpec` is the one read of
`public_ips` in a bring-up; `Inject` and `Build` work with it. `Spawn` overwrites
the pid file, so a process it named becomes stray. `Signal` of a dead process has
no successor but `Raise` or `AbortPass`, which is what `kill.py` does. `Netdown`
may fail silently (`_safe`). `Exit` and `Restart` are the environment: a guest
that powers off, and a restart of the service (its children end with it) or of the
host (namespaces go as well). Two variables are history. `leaked`: namespaces that
a teardown failed to delete, and those a bring-up made when a teardown of the VM
was past that (`Overtaken`). `met`: VMs for which two requests have been under way
at once.

**`TaskExecutor`.** `Claim` is the conditional `UPDATE`, `Confirm` the read that
follows, `Run` the dispatched work with either outcome, `Finish` the record.
`Abort` is an exception that `loop()` swallows or a restart; since the state after
the effect of a statement is a state too, `Abort` covers statements that fail
after they took effect. `FinishRaises` is the success whose record raises and
which `run_task` then records as a failure.

**`Ingress`.** Tables, the pending tasks, and per guest whether it runs or has
stopped, whether Caddy is installed on its disk, the routes in its Caddyfile and
those a running Caddy has loaded. Handlers write rows and then look for the proxy
and enqueue a reload; a pass tears down expired VMs without the cascade (`Expire`)
and directories without a row with it (`Reap`, which works from rows read
earlier). The executor takes the pending tasks in any order, since its SELECT
names none, and reads proxy, domains and the VM of each domain one after the other
before it pushes. A guest stops (`Halt`: by request or by itself) and boots again
from its disk, where Caddy is enabled and loads the Caddyfile; it is recreated
with a new disk; or it ends with the service (`Restart`). `At` is who answers at
an address: once the row of a VM is gone, anyone may. `SshFails` is an ssh command
that fails before, in the middle of, or after what its script does in the guest.
`silent` is a history variable, the domains whose last change no reload will
bring: those the cascade or expiry took, those of a VM that was gone or in another
VPC when the reload was looked up, and those of a handler, a setup or a reload
that failed. A reload that reads the table clears it.

**`Placement`.** A call `<<r, h, n>>` is request `r` after `h` forwards at node
`n`; it waits in a queue for one of the node's worker threads, keeps it until it
returns, and a forwarding call keeps its own while it waits. `Timeout` ends the
caller only. `InsertVpc` may insert the default VPC by its name, as the deploy
script does. The steps of serving a request are the statements on `vpcs` and
`vms`; `seen` and `by` are history: the rows that were read for an address or
before a VPC was deleted, and the request that made a VM.

**`PoolEnsure`, `HostNet`, `NodeHost`.** A step is one command with the check in
front of it, or a listing. The pool's state is what is on the device; the
network's is the bridge and the tunnel (0 none, 1 added, 2 set up), the flood
list, which chains and rules are there, and the namespace and pair of each VM. A
handler goes by the VM it works on. `NodeHost` lets handlers and passes run only
once `ensure` has succeeded; `Stop` and `Reboot` hit both halves. The commands
that set up a thing that was added are one step (each of them leaves a thing that
is there and not ready), and so are `nbr0`, `tap0` and the start of firecracker.
Chains and rules are items in the order of `nat.ensure`; a check of one that is
there may fail all the same, which leads to adding it: `-N` then raises, `-A` adds
the rule again, and how often it is there is not counted. `DelNs` and `DelVeth`
may fail and the teardown goes on (`_safe`), up to the row's removal. Two
variables are history: `spoiled`, a bring-up ended between adding the bridge and
setting it up, and `stuck`, the VMs of which a teardown could not delete namespace
or pair.

What a mutant operator (a definition commented "Mutant:") stands for is a
plausible mistake in the definition after it; it is used by no specification.

### Assumptions about what is not nyc

- A statement on a table is one atomic step that all nodes see (rqlite), and it
  may fail; uuids are unique.
- A process that was sent SIGTERM is gone after `_wait_gone` (the code goes on
  after 3 s in any case). An exited child is reaped when the next command is
  started, so `kill` finds no process. Pids are not reused.
- Creating the process and writing the pid file is one step; so are the commands
  that wire a VM's namespace, since a failure among them leaves what a failure
  after them leaves: a namespace without process (`HostNet` has them apart).
- A device that a process has open cannot be removed (`lvremove -f` fails).
- Whether the pool is full, names collide after truncation, or a command runs
  for ever is left out.

## Runs

| Run | Instance | Shows |
|---|---|---|
| `volumes_safety` | 1 node, 2 volumes, 1 snapshot; 2 handlers, 1 pass; sizes to 3 | `TypeOK`, `RowsNeverOverstate`, `GoldDefaultKept`, `DeletedStaysDeleted`; `IInv` |
| `volumes_liveness` | 1 node; a volume, a snapshot, an image and a VM; 1 handler, 1 pass | `OrphansReaped`: an LV without a row is removed or gets its row |
| `volumes_reap_race` | the same | violation of `OnlyRowlessReaped` |
| `tasks_deployed` | 2 nodes with one executor each, 3 tasks | `WorkIsRecorded`, `ReadIsPending`, `StatusMovesForward`, `EveryTaskTaken`, and that `TaskQueue` is implemented; `IInv` |
| `vms_overlap` | 1 VM with a root image, 2 handlers with every request, 2 public IPs; exits, restarts, failing namespace removal | `TypeOK`, `NothingForgotten`, `GuestMatchesSeed`, `RowsMoveForward`; `IInv` |
| `vms_orphans` | 2 VMs, 1 handler that brings up, 1 expiring pass; exits, failing namespace removal | `NothingForgotten`, `LiveOrphansReaped` |
| `vms_dead_process` | 1 VM, 1 expiring pass; exits | violation of `OrphansReaped` |
| `vms_public_ip` | 1 VM with a root image | violation of `RootImageKept` |
| `ingress` | 2 VMs, one in another VPC, 1 domain; 2 handlers, 1 pass; 4 events of all kinds | `RoutesFollowTable`, `RoutesCatchUp`; `IInv` |
| `placement` | 2 nodes with 1 worker each, 2 requests, 2 VMs, 2 VPCs, 2 addresses | `TypeOK`, `OneHop`, `AtMostOnce`, `DuplicateOnlyInRace`, `StrandedOnlyInRace`, `TurnkeyTogether`, `RequestsAnswered`; `IInv` |
| `host` | 2 VMs, 1 pass, 1 peer that comes and goes, 1 chain, 1 rule; failures, stops and reboots at any step | `GoldenComplete`, `VmsHaveGolden`, `BridgeReady`, `NatComplete`, `DownCleans`, `DataKept`; `IInv` |
| `host_liveness` | 1 VM, 1 pass, 2 peers, 1 chain; the same failures | `FloodFollowsPeers`, `StartupHeals` |

`IInv` is in each module the inductive invariant of the proofs, which has `TypeOK`
as a conjunct; `tasks_deployed`, `ingress` and `host` check types through it.

The state spaces are finite and explored completely: `minted` and `unborn` give
every id one life, and sizes are bounded by `MaxSize`. An extend has to be to a
larger size, so `MaxSize = 3` leaves room for two resizes of one volume, both of
which can succeed and have their row updates overtake each other; a snapshot or a
clone taken in between is the third actor's. A clone and its origin are the two
volumes. A VM matters to the volumes only in that it keeps one from being deleted,
which `volumes_liveness` has. The theorems lift all of these bounds.

The VMs of a node share no modelled state except the lists of a pass and its end.
So `vms_overlap` has one VM and what is hard about one: two requests that overlap
at any step of a bring-up or a teardown, a root image, a second public IP. It has
no pass, whose teardown takes the steps of a delete without the row's removal; the
theorems cover passes as well. `vms_orphans` has two VMs for what is hard about a
pass: at one it raises, and the other is not reached.

Three tasks over two nodes let a loop have rows left, read earlier, after the one
it ran; that such a row is never stale with one loop per node is `ReadIsPending`.

In `ingress` two handlers, a pass and the executor are four actors at one domain;
a delete that overtakes an add behind a reload takes three of them. The second VM
lets proxy and VM of the domain be two, one or replaced by one another, and is in
the other VPC, so that a reload is looked up in vain. `MaxEvents` bounds how often
something comes from outside in one behaviour (`Event`: a request, a round of a
pass, a guest's end, a recreation, a restart); what follows from it, failures
included, is not bounded. Four events are enough for a proxy, a VM, a domain and
one change that meets them. `MaxPending` bounds the pending reloads: a handler
waits while there are as many, and as an ssh command may take any time that is one
of its schedules. With two domains the same was found to hold; one is enough as
domains meet only in a UNIQUE name that is taken.

`placement` has two requests because each of its races is between two; one worker
per node is the smallest pool, and the one in which two forwards already wait for
each other. `MaxHop` leaves room for a second forward, which `OneHop` excludes.
The ids of `Vpc` and `Vm` are a bound too: without one left an insert raises. With
two requests the second spawn finds the default VPC that the first has inserted;
that it is deleted in between takes a third.

Two VMs in `host` come up at the same time beside a pass, one chain and one rule
are the two kinds of check, one of each being enough for a bring-up to stop
between them. In `host_liveness` a bring-up and a pass edit one list, each with
the peers it has read: with two that come and go one of them can have both entries
to add and to delete, and find that the other was there before (`FdbRefused`). The
rules have no part in it.

Deadlock is checked in every run: a pass or a tick can always begin, or the service
be restarted (`vms_overlap`, which has no pass), and once all requests of
`placement` are answered its `Quiet` step stands for the wait for more.

### Findings

- **A pass can remove the LV of a volume that has a row.** `volumes_pass` reads
  the rows, then lists LVs; a volume created in between is in the second list
  only (`volumes_reap_race`). vms_pass and snapshots_pass read in the same order.
- **A dead firecracker wedges teardown.** `kill.py` catches `OSError`, but the
  failed `kill` raises `PrivopsError`. Delete, stop and reboot of a VM whose
  process has ended fail, its orphan is never removed, and every pass ends
  there, so that live orphans of other VMs stay too (`vms_dead_process`).
  `LiveOrphansReaped` says when an orphan stays: as long as some VM, this one or
  another, makes every pass raise before it gets there. That is an orphan or an
  expired VM with a dead process, or an expired VM whose rootfs a forgotten process
  has open, where each tick ends at `lvremove`.
- **Attaching a public IP replaces the root disk.** `recreate_vm` clones the
  default golden whatever the VM was spawned from (`vms_public_ip`).

The exceptions in properties that hold say what else can go wrong:

- **A start that was broken off can wedge all later ones.** `pool.ensure` is
  called safe to re-run, but it creates `base-rootfs` without looking for it: if
  the service ends between that and the snapshot, every start fails at
  `lvcreate`. `StartupHeals` shows that nothing else keeps the service down.
- **A half-made bridge is taken for a complete one.** `bridge.ensure` looks for
  the link only; `BridgeReady` holds unless a bring-up ended right after adding it.
- **A namespace is lost in two ways** (`NothingForgotten`): `_safe` has swallowed that
  it could not be deleted, or a bring-up makes it when a teardown of the same VM is
  past that. vms_pass looks for directories and does not see it. `HostNet` has the
  first way for the veth pair too (`DownCleans`).
- **Changes that enqueue no reload**, the members of `silent` above: a deleted
  VM's domains stay in the proxy until some later reload, and so does a domain
  that is deleted after its VM. A failed reload is not repeated.
- **Expiry skips the cascade** of `DELETE /vms`: rows in `public_ips`, `domains`
  and `proxies` stay. Attaching a public IP twice leaves a row in the same way.
- **Addresses and VPCs** are read before they are used: `DuplicateOnlyInRace`
  and `StrandedOnlyInRace` bound what follows from it.

### Fairness

Handlers have none: a request may stop anywhere, which is how a crashed client
call or a hanging command looks. What is assumed of the rest:

- `VmLifecycle`: `loop.py` starts a pass every interval, and a pass goes on to its
  end or to the step that raises, whichever VMs it meets before. An exception of a
  step that could have succeeded happens finitely often; those that recur by
  themselves (`Refused`) are exempt, and end the pass for every VM.
- `VolumeStore`: strong fairness of the steps of a pass, since each is tried again in
  the next one. That includes that the ttl and vms passes before it do not raise
  for ever. They do when there is an orphan or an expired VM with a dead process, or
  an expired VM whose rootfs is held: then volumes are not reaped either.
- `TaskExecutor`: ticks, dispatch (ssh ends) and recording are weakly fair, the claim of
  each task strongly: executors tick again after every abort.
- `Ingress`: only the executor is fair, and it may fail as often as it likes.
- `Placement`: some worker thread goes on whenever one can, where `Raise` counts for
  nothing: an answer comes because calls go on or time out.
- `NodeHost`: the service is started again, whenever it is down. systemd does so
  (`Restart=on-failure`) up to its start limit, five starts in ten seconds by default;
  that somebody starts it after that is assumed. Stops, reboots, failures that
  nothing forces and nodes that come and go cease; only the `lvcreate` of a
  `base-rootfs` that exists may fail for ever. An overlay pass that has begun goes on,
  and `FdbRefused` may end it.

The overlay pass is the last of `pass_once.py`, and an exception in an earlier one
skips it. `FloodFollowsPeers` has it as a condition that the pass is reached again
and again (`ReadPeers`), and that the tunnel and some VM stay: a pass that meets
every time the gap between two VMs does nothing.

## Proofs

The theorems hold for every value of the constants that satisfies the assumptions
named in the modules: ids of different kinds differ, `None` is no value. Numbers
of nodes, ids, handlers, passes, loops, workers, rules and sizes are arbitrary.
Where a theorem needs more, the table says what. In each module
`InductiveInvariant` is `Spec => []IInv`, `TypeCorrect` is `Spec => []TypeOK`, and
the others follow from the first.

| Module | Theorem | Property | Needs |
|---|---|---|---|
| `VolumeStore_proofs` | `SizesCorrect` | `RowsNeverOverstate` | |
| | `GoldCorrect` | `GoldDefaultKept` | |
| | `NoResurrection` | `DeletedStaysDeleted` | |
| `VmLifecycle_proofs` | `RowsForward` | `RowsMoveForward` | |
| | `GuestConfigured` | `GuestMatchesSeed` | |
| | `LeftoversFound` | `NothingForgotten` | |
| `TaskExecutor_proofs` | `WorkRecorded` | `WorkIsRecorded` | |
| | `ForwardOnly` | `StatusMovesForward` | |
| | `Exclusive` | `RunExclusively` | `OneLoopPerNode` |
| | `ReadStaysPending` | `ReadIsPending` | `OneLoopPerNode` |
| | `Implements` | `ImplementsQueue` | `OneLoopPerNode` |
| `Ingress_proofs` | `RoutesRight` | `RoutesFollowTable` | |
| `Placement_proofs` | `ForwardedOnce` | `OneHop` | |
| | `InsertedOnce` | `AtMostOnce` | |
| | `SharedInRace` | `DuplicateOnlyInRace` | |
| | `StrandedInRace` | `StrandedOnlyInRace` | |
| | `SpawnedTogether` | `TurnkeyTogether` | |
| `NodeHost_proofs` | `GoldenWhole` | `GoldenComplete` | |
| | `GoldenForVms` | `VmsHaveGolden` | |
| | `DataSafe` | `DataKept` | |
| | `BridgeThere` | `BridgeReady` | |
| | `RulesThere` | `NatComplete` | |
| | `NothingLeft` | `DownCleans` | |

A proof that `IInv` is kept has one lemma for each action or group of actions, and
in it one step for each conjunct that the action can disturb.

### The inductive invariants

**`VolumeStore`.** `RowsNeverOverstate` is not inductive: a handler writes into a
row a size it was given or read long before. `IInv` adds what makes that right:

- `RequestsCovered`: a size that is about to be written is at most that of the
  LV, *unless the LV is gone*. LVs never shrink, which is why an old size stays
  covered; the exception is why the LV must not come back smaller;
- `OnlyMakerKnows`: between the making of an LV and the insert of its row no
  other handler refers to it and no row of that id exists, so an LV that is
  made again belongs to nobody else. It needs `IdsMinted`: ids in use were
  handed out, and a new one was not;
- `GoldSpared`: a pass never has `gold-default` among the names it removes.

`NoResurrection` follows from `OnlyMakerKnows` at the insert.

**`TaskExecutor`.** What a loop holds of the table is older than the table. A row
it has read names its node (`RowsOfNode`), and one whose `UPDATE` it has sent is
no longer pending, whoever claimed it (`NonePending`). That much holds with
several loops for a node, and is enough for `WorkIsRecorded` and
`StatusMovesForward`. With one loop per node nobody else takes a row between the
read and the `UPDATE` (`ReadIsPending`), two loops never hold the same row, and
`Owner` is a refinement mapping: `Claim` is the `Take` of `TaskQueue`, the record
its `Record`, an abort its `GiveUp`, and the rest are stutters. The theorem is
about all of these steps and not about the fairness of either module.

**`VmLifecycle`.** `StepsFit` is which steps come with which `goal`. `HeldStays`:
a process has its rootfs LV open, and that of the pid file has a `config.json`,
also when the handler that started it is long forgotten: an overlapping teardown
cannot take an LV that is open. `SpecsAgree` ties `spec`, read once, to the disk
and to `config.json`, for the VMs outside `met`: before the configuration is
written there is none, and what was injected is what the same `spec` says. It
holds beside any number of passes, because a pass only tears down and writes
neither; `Overlaps` says that two handlers at one VM have put it into `met`.
`NetFound`: a namespace that is not `leaked` has a row that no teardown is about
to drop, or a directory that none is about to remove. A teardown that drops the
row has deleted the namespace before, or failed to; a bring-up that makes it
later, from a row read long before, is the case of `Overtaken`. Neither theorem
needs an assumption about who overlaps whom: the history variables name the cases.

**`Ingress`.** `RoutesFollowTable` speaks of the moment when no reload is owed.
`OwedOrRight` says it of each domain at all times: while the proxy has a disk, be
it up or stopped, either a reload is owed that will *read the table again*, or the
routes are right. What has to be right changes with the executor: once it has read
the table, it is what it has built with what it has still to resolve
(`BuiltRight`), otherwise what the proxy serves and what its Caddyfile will bring
back when it boots (`ServedRight`). A change after the read makes this false, and
the proof shows at every action that changes a row, a guest or the proxy that a
reload is then owed or the domain becomes `silent`. `ReplacedReloads` is the case
of a proxy that was replaced between the executor's read of `proxies` and that of
its VM; `BroughtUpOnce` makes a proxy that is brought up one without a row.

**`Placement`.** Nothing is forwarded twice since a forwarded call is at the node
it was sent to, where the row or the hash places it (`OneHop`, `Arrived`).
`AtMostOnce` needs that of all calls of a request, those whose caller has timed
out included, at most one can still insert, and only while no VM has been inserted
(`InsertsOnce`). `OthersSeen`: the VMs that were seen before a VPC is deleted are
in other VPCs, from the check on. `IntoDefault`: there is at most one default VPC,
and spawns go into it or into one that was deleted since.

**`NodeHost`.** The invariants of `HostNet` and `PoolEnsure` together with
`VmsHaveGolden`, since only a started service has VMs. `BridgeOwned`: a bridge
that is half made has somebody who will set it up, or `spoiled` is true.
`WiringFits`: namespace and pair are as far as the handler of their VM has brought
them, whatever the others do; past `DelNs` the namespace is gone or the VM is
`stuck`. `NatFits`: rules only become more, and those a handler has passed stay,
also when its check of one has failed. `PoolIInv`: the golden is taken of a base
that was filled, and only when there is none.

### What is only model-checked

Liveness (`OrphansReaped`, `LiveOrphansReaped`, `EveryTaskTaken`, `RoutesCatchUp`,
`RequestsAnswered`, `FloodFollowsPeers`, `StartupHeals`), which is out of the
prover's reach, and the three violations. Every invariant and every action
property of the passing runs is proved. `RunExclusively` is proved only.

## Limits

- `GuestMatchesSeed` is about VMs for which no two requests have overlapped. Nothing
  in nyc sees to that; where they have, a disk and a configuration of two bring-ups
  can meet. Of `NothingForgotten`, an overlap costs the namespace and nothing else.
- That no two loops run one task (`RunExclusively`), `ReadIsPending` and the
  refinement of `TaskQueue` rest on one executor per node, as deployed. With that, no
  claim is ever contended: what decides is the node filter of the SELECT, and the
  confirmation decides nothing. It reads back *that* the row is running, not *who*
  claimed it, so two service processes with one node id would both go on. Which is why
  `RunExclusively` is a theorem with its assumption and no run checks it.
- `VmLifecycle` counts the rows of a VM in `public_ips` and leaves out their
  addresses; `acquire` picks one like `pick_ip` does, from rows read before the
  insert. `GuestMatchesSeed` lets a VM from an image have a unit for a public IP
  it lacks: the image may bring it along, and `inject.py` removes nothing.
- `Ingress` has one proxy node and one VPC with a proxy. A reload pushes the
  domains of *all* VPCs into it; those of `Abroad` are in the table that it reads.
- `HostNet` is about one VPC. Names keep four hex digits of a VPC's id, and two
  VPCs that agree in them share bridge and tunnel. A VPC whose last bring-up saw
  no peer gets no tunnel from the pass when one joins (`FindTunnel`), which is why
  `FloodFollowsPeers` asks for the tunnel. Peers are read once per bring-up.
- `PoolEnsure` is without `NYC_LVM_FORCE`: with it, a `pvs` that fails counts as
  no PV and the device is made anew. With a block device the first two steps
  fall away.
- In `Placement` a request is pinned to a node that is there. Pins to a node whose row
  is stale or gone (`_proxy.py` answers 404 or times out) are left out.
- Requests are not repeated by clients. `GET /proxy` inserts the default VPC where
  there is none, and stands in `Placement` with `POST /vpcs` of that name; the other
  `GET` requests change nothing and are left out but for those that are forwarded.

### Not modelled

The data disk's symlink and that its check and use are separate statements
(`VolumeStore` has the steps), ssh keys, resolver and mount units, boot arguments,
MAC addresses and VNIs: conversions of arguments with no state. `privops` is one
call that succeeds or raises; `privops_fake` is the tests' double. `scripts/` are
operator tools that copy files and run commands over ssh. dadar and rqlite are
external. The pool's fill level is read nowhere in the code.

## Plan

Done: all components with control of their own are modelled, and every safety
property that a run checks is proved. What is left:

1. Abstract specifications beside `TaskQueue`, with proofs that they are
   implemented: the volume table with the one promise that a row is backed
   (`VolumeStore`), and what a client sees of a request (`Placement`).
2. `VmLifecycle` with the addresses of public IPs.
