---------------------------- MODULE VolumeStore ----------------------------
(***************************************************************************)
(* The disks of nyc: the replicated `volumes` and `snapshots` tables, and  *)
(* the thin LVs in each node's volume group that the rows stand for.       *)
(*                                                                         *)
(* A request handler is a thread of the owning node (the routers forward   *)
(* to it), so a request is a sequence of steps: one per database statement *)
(* and one per privileged command.  The reconciler's passes over the two   *)
(* tables run in threads of their own, and nothing orders a pass with a    *)
(* handler.  Every command and every statement may fail; the handler then  *)
(* raises and leaves behind what it has done so far.                       *)
(*                                                                         *)
(* LV names are the ids they are derived from: nyc.client.volume.names     *)
(* prefixes an id with its role, and ids are fresh uuid4 strings.          *)
(***************************************************************************)
EXTENDS Naturals

CONSTANTS Node,         \* hosts, each with its own volume group
          Volume,       \* ids of the volumes table
          Snap,         \* ids of snapshots rows with role = snapshot
          Image,        \* ids of snapshots rows with role = golden
          Vm,           \* ids of the vms table
          GoldDefault,  \* the reserved golden LV of every node
          Thread,       \* request handlers that run at the same time
          Pass,         \* reconciler passes that run at the same time
          MaxSize,      \* bound on LV and row sizes
          None          \* Python's None

SnapshotId == Snap \cup Image
Lv         == Volume \cup SnapshotId \cup {GoldDefault}
Size       == 1..MaxSize

Row   == [node : Node, size : 0..MaxSize]
VmRow == [node : Node, vol : Volume]

\* The locals of a handler: the resource it works on, the LV it copies, the
\* node, the size it read or was given, and the VM that will own the volume.
Request == [id   : Volume \cup SnapshotId, src : Lv \cup {None},
            node : Node, size : 0..MaxSize, vm : Vm \cup {None}]

\* The locals of a pass: `names` holds `expected` until the LVs are listed
\* and the orphans still to be removed afterwards.
Scan == [node : Node, kind : {"data", "snap"}, names : SUBSET Lv]

ASSUME SizeAssumption == MaxSize \in Nat \ {0}

\* uuids are unique and an LV's prefix tells its role
ASSUME IdAssumption ==
  /\ Volume \cap Snap = {}
  /\ Volume \cap Image = {}
  /\ Snap \cap Image = {}
  /\ GoldDefault \notin Volume \cup Snap \cup Image

ASSUME NoneAssumption ==
  /\ None \notin Lv
  /\ None \notin Vm
  /\ None \notin Row
  /\ None \notin VmRow
  /\ None \notin Request
  /\ None \notin Scan

VARIABLES volumes,    \* volumes table: Volume -> row or None
          snapshots,  \* snapshots table: SnapshotId -> row or None
          vms,        \* the columns of the vms table that concern disks
          lv,         \* lv[n][x]: size of LV x in the VG of n, 0 if absent
          minted,     \* the uuids handed out so far
          pc, req,    \* next step and locals of each request handler
          ppc, scan   \* next step and locals of each reconciler pass

vars == <<volumes, snapshots, vms, lv, minted, pc, req, ppc, scan>>

Allocating == {"lvcreate", "mkfs", "clone", "cloneRoot", "insert"}
Removing   == {"attached?", "lvremove", "drop"}
Growing    == {"lvextend", "resizeRow"}

Steps      == {"insertVm"} \cup Allocating \cup Removing \cup Growing

TablesOK ==
  /\ volumes   \in [Volume -> Row \cup {None}]
  /\ snapshots \in [SnapshotId -> Row \cup {None}]
  /\ vms       \in [Vm -> VmRow \cup {None}]
  /\ minted    \subseteq Volume \cup SnapshotId \cup Vm

\* what a step needs of the locals it uses
LocalsOK(step, r) ==
  /\ step = "clone" => r.src # None
  /\ step = "insertVm" => r.id \in Volume /\ r.vm # None

HandlersOK ==
  /\ pc  \in [Thread -> Steps \cup {"idle"}]
  /\ req \in [Thread -> Request \cup {None}]
  /\ \A t \in Thread : (pc[t] = "idle") <=> (req[t] = None)
  /\ \A t \in Thread : LocalsOK(pc[t], req[t])

PassesOK ==
  /\ ppc  \in [Pass -> {"idle", "list", "reap"}]
  /\ scan \in [Pass -> Scan \cup {None}]
  /\ \A p \in Pass : (ppc[p] = "idle") <=> (scan[p] = None)

TypeOK ==
  /\ TablesOK
  /\ lv \in [Node -> [Lv -> 0..MaxSize]]
  /\ HandlersOK
  /\ PassesOK

Init ==
  /\ volumes   = [v \in Volume |-> None]
  /\ snapshots = [s \in SnapshotId |-> None]
  /\ vms       = [m \in Vm |-> None]
  /\ lv = [n \in Node |-> [x \in Lv |-> IF x = GoldDefault THEN 1 ELSE 0]]
  /\ minted = {}
  /\ pc   = [t \in Thread |-> "idle"]
  /\ req  = [t \in Thread |-> None]
  /\ ppc  = [p \in Pass |-> "idle"]
  /\ scan = [p \in Pass |-> None]

-----------------------------------------------------------------------------
(* Control of a handler.                                                   *)

Begin(t, step, r) == /\ pc[t] = "idle"
                     /\ pc'  = [pc EXCEPT ![t] = step]
                     /\ req' = [req EXCEPT ![t] = r]

Goto(t, from, to) == /\ pc[t] = from
                     /\ pc' = [pc EXCEPT ![t] = to]
                     /\ req' = req

Return(t, from)   == /\ pc[t] = from
                     /\ pc'  = [pc EXCEPT ![t] = "idle"]
                     /\ req' = [req EXCEPT ![t] = None]

SetLv(n, x, s) == lv' = [lv EXCEPT ![n][x] = s]

tables == <<volumes, snapshots, vms>>
passes == <<ppc, scan>>

-----------------------------------------------------------------------------
(* Creating a volume, by POST /volumes (vm = None) or as the data disk of  *)
(* POST /vms/spawn (vm is the id the VM row will get): the LV is made      *)
(* before the row.                                                         *)

\* Mutant: ids that repeat.
ReusedVolume(id, vm) == minted' = minted \cup ({id, vm} \ {None})

FreshVolume(id, vm) == /\ id \notin minted
                       /\ vm \notin minted
                       /\ minted' = minted \cup ({id, vm} \ {None})

CreateVolume(t, n, id, s, vm) ==
  /\ FreshVolume(id, vm)
  /\ Begin(t, "lvcreate", [id |-> id, src |-> None, node |-> n, size |-> s, vm |-> vm])
  /\ UNCHANGED <<tables, lv, passes>>

\* from_snapshot may name a snapshot or a golden; spawn's data_image must be
\* a golden.  Either has to live on this node.
CloneVolume(t, n, id, src, vm) ==
  /\ FreshVolume(id, vm)
  /\ snapshots[src] # None
  /\ snapshots[src].node = n
  /\ vm # None => src \in Image
  /\ Begin(t, "clone", [id |-> id, src |-> src, node |-> n,
                        size |-> snapshots[src].size, vm |-> vm])
  /\ UNCHANGED <<tables, lv, passes>>

Lvcreate(t) ==
  /\ Goto(t, "lvcreate", "mkfs")
  /\ req[t].size > 0
  /\ SetLv(req[t].node, req[t].id, req[t].size)
  /\ UNCHANGED <<tables, minted, passes>>

Mkfs(t) == Goto(t, "mkfs", "insert") /\ UNCHANGED <<tables, lv, minted, passes>>

InsertVolume(t) ==
  /\ pc[t] = "insert"
  /\ req[t].id \in Volume
  /\ IF req[t].vm = None THEN Return(t, "insert") ELSE Goto(t, "insert", "insertVm")
  /\ volumes' = [volumes EXCEPT ![req[t].id] = [node |-> req[t].node, size |-> req[t].size]]
  /\ UNCHANGED <<snapshots, vms, lv, minted, passes>>

-----------------------------------------------------------------------------
(* Snapshots and goldens.                                                  *)

\* POST /snapshots {volume_id}
SnapshotVolume(t, id, v) ==
  /\ volumes[v] # None
  /\ id \in Snap \ minted
  /\ minted' = minted \cup {id}
  /\ Begin(t, "clone", [id |-> id, src |-> v, node |-> volumes[v].node,
                        size |-> volumes[v].size, vm |-> None])
  /\ UNCHANGED <<tables, lv, passes>>

\* POST /snapshots {vm_id}: the VM's rootfs LV, recorded with size 0
SnapshotRoot(t, id, m) ==
  /\ vms[m] # None
  /\ id \in Snap \ minted
  /\ minted' = minted \cup {id}
  /\ Begin(t, "cloneRoot", [id |-> id, src |-> None, node |-> vms[m].node,
                            size |-> 0, vm |-> None])
  /\ UNCHANGED <<tables, lv, passes>>

\* POST /images
PromoteSnapshot(t, id, s) ==
  /\ s \in Snap
  /\ snapshots[s] # None
  /\ id \in Image \ minted
  /\ minted' = minted \cup {id}
  /\ Begin(t, "clone", [id |-> id, src |-> s, node |-> snapshots[s].node,
                        size |-> snapshots[s].size, vm |-> None])
  /\ UNCHANGED <<tables, lv, passes>>

\* lvcreate -s: the copy has the size the origin has now
LvSnapshot(t) ==
  /\ Goto(t, "clone", "insert")
  /\ lv[req[t].node][req[t].src] > 0
  /\ SetLv(req[t].node, req[t].id, lv[req[t].node][req[t].src])
  /\ UNCHANGED <<tables, minted, passes>>

\* the rootfs LV belongs to the VM's lifecycle: here it has any size
LvSnapshotRoot(t, s) ==
  /\ Goto(t, "cloneRoot", "insert")
  /\ SetLv(req[t].node, req[t].id, s)
  /\ UNCHANGED <<tables, minted, passes>>

InsertSnapshot(t) ==
  /\ Return(t, "insert")
  /\ req[t].id \in SnapshotId
  /\ snapshots' = [snapshots EXCEPT ![req[t].id] = [node |-> req[t].node, size |-> req[t].size]]
  /\ UNCHANGED <<volumes, vms, lv, minted, passes>>

-----------------------------------------------------------------------------
(* PATCH /volumes/{id}: lvextend, then the row.                            *)

Resize(t, v, s) ==
  /\ volumes[v] # None
  /\ Begin(t, "lvextend", [id |-> v, src |-> None, node |-> volumes[v].node,
                           size |-> s, vm |-> None])
  /\ UNCHANGED <<tables, lv, minted, passes>>

\* Mutant: -L +size.
LvextendBy(t) ==
  /\ Goto(t, "lvextend", "resizeRow")
  /\ lv[req[t].node][req[t].id] > 0
  /\ SetLv(req[t].node, req[t].id, lv[req[t].node][req[t].id] + req[t].size)
  /\ UNCHANGED <<tables, minted, passes>>

\* Mutant: a refused lvextend is taken for a success.
LvextendUnchecked(t) ==
  /\ Goto(t, "lvextend", "resizeRow")
  /\ UNCHANGED <<tables, lv, minted, passes>>

\* lvextend refuses a size that is not larger
Lvextend(t) ==
  /\ Goto(t, "lvextend", "resizeRow")
  /\ lv[req[t].node][req[t].id] > 0
  /\ req[t].size > lv[req[t].node][req[t].id]
  /\ SetLv(req[t].node, req[t].id, req[t].size)
  /\ UNCHANGED <<tables, minted, passes>>

\* Mutant: INSERT OR REPLACE.
UpsertSize(t) ==
  /\ Return(t, "resizeRow")
  /\ volumes' = [volumes EXCEPT ![req[t].id] = [node |-> req[t].node, size |-> req[t].size]]
  /\ UNCHANGED <<snapshots, vms, lv, minted, passes>>

\* UPDATE ... WHERE id = ?, which changes nothing when the row is gone
UpdateSize(t) ==
  /\ Return(t, "resizeRow")
  /\ volumes' = [volumes EXCEPT ![req[t].id] =
                   IF @ = None THEN None ELSE [node |-> @.node, size |-> req[t].size]]
  /\ UNCHANGED <<snapshots, vms, lv, minted, passes>>

-----------------------------------------------------------------------------
(* Deleting: the LV goes before the row.                                   *)

DeleteVolume(t, v) ==
  /\ volumes[v] # None
  /\ Begin(t, "attached?", [id |-> v, src |-> None, node |-> volumes[v].node,
                            size |-> 0, vm |-> None])
  /\ UNCHANGED <<tables, lv, minted, passes>>

Attached(v) == \E m \in Vm : vms[m] # None /\ vms[m].vol = v

CheckAttached(t) ==
  /\ pc[t] = "attached?"
  /\ IF Attached(req[t].id) THEN Return(t, "attached?")   \* 409
                            ELSE Goto(t, "attached?", "lvremove")
  /\ UNCHANGED <<tables, lv, minted, passes>>

DeleteSnapshot(t, s) ==
  /\ snapshots[s] # None
  /\ Begin(t, "lvremove", [id |-> s, src |-> None, node |-> snapshots[s].node,
                           size |-> 0, vm |-> None])
  /\ UNCHANGED <<tables, lv, minted, passes>>

\* lv.remove does nothing when the LV is not listed, and list_lvs answers
\* with an empty list when the command fails.
Lvremove(t) ==
  /\ Goto(t, "lvremove", "drop")
  /\ \/ SetLv(req[t].node, req[t].id, 0)
     \/ lv' = lv
  /\ UNCHANGED <<tables, minted, passes>>

DropRow(t) ==
  /\ Return(t, "drop")
  /\ \/ /\ req[t].id \in Volume
        /\ volumes' = [volumes EXCEPT ![req[t].id] = None]
        /\ UNCHANGED snapshots
     \/ /\ req[t].id \in SnapshotId
        /\ snapshots' = [snapshots EXCEPT ![req[t].id] = None]
        /\ UNCHANGED volumes
  /\ UNCHANGED <<vms, lv, minted, passes>>

-----------------------------------------------------------------------------
(* The VM rows that name a volume.                                         *)

\* POST /vms: _volume_path reads the volume's row, the VM row comes later
AttachVolume(t, n, m, v) ==
  /\ volumes[v] # None
  /\ m \notin minted
  /\ minted' = minted \cup {m}
  /\ Begin(t, "insertVm", [id |-> v, src |-> None, node |-> n, size |-> 0, vm |-> m])
  /\ UNCHANGED <<tables, lv, passes>>

InsertVm(t) ==
  /\ Return(t, "insertVm")
  /\ vms' = [vms EXCEPT ![req[t].vm] = [node |-> req[t].node, vol |-> req[t].id]]
  /\ UNCHANGED <<volumes, snapshots, lv, minted, passes>>

\* the last step of DELETE /vms and of the TTL pass; volumes are not cascaded
DropVm(m) ==
  /\ vms[m] # None
  /\ vms' = [vms EXCEPT ![m] = None]
  /\ UNCHANGED <<volumes, snapshots, lv, minted, pc, req, passes>>

\* a command or a statement fails: the handler answers 500 and undoes nothing
Raise(t) ==
  /\ pc[t] # "idle"
  /\ Return(t, pc[t])
  /\ UNCHANGED <<tables, lv, minted, passes>>

-----------------------------------------------------------------------------
(* volumes_pass, then snapshots_pass.                                      *)

others == <<tables, minted, pc, req>>

RowsOn(n, table, ids) == {x \in ids : table[x] # None /\ table[x].node = n}

ReadVolumes(p, n) ==
  /\ ppc[p] = "idle"
  /\ ppc'  = [ppc EXCEPT ![p] = "list"]
  /\ scan' = [scan EXCEPT ![p] = [node |-> n, kind |-> "data",
                                  names |-> RowsOn(n, volumes, Volume)]]
  /\ UNCHANGED <<lv, others>>

\* Mutant: the goldens' prefix is left out.
SnapPrefixed(kind) == IF kind = "data" THEN Volume ELSE Snap

Prefixed(kind) == IF kind = "data" THEN Volume ELSE SnapshotId \cup {GoldDefault}

ListLvs(p) ==
  /\ ppc[p] = "list"
  /\ ppc'  = [ppc EXCEPT ![p] = "reap"]
  /\ scan' = [scan EXCEPT ![p].names =
                {x \in Prefixed(scan[p].kind) : lv[scan[p].node][x] > 0} \ @]
  /\ UNCHANGED <<lv, others>>

Reap(p, x) ==
  /\ ppc[p] = "reap"
  /\ x \in scan[p].names
  /\ SetLv(scan[p].node, x, 0)
  /\ scan' = [scan EXCEPT ![p].names = @ \ {x}]
  /\ UNCHANGED <<ppc, others>>

\* the listing inside lv.remove fails and the LV stays
SkipReap(p, x) ==
  /\ ppc[p] = "reap"
  /\ x \in scan[p].names
  /\ scan' = [scan EXCEPT ![p].names = @ \ {x}]
  /\ UNCHANGED <<lv, ppc, others>>

\* Mutant: the default golden is not expected.
ReadSnapshotRows(p) ==
  /\ ppc[p] = "reap"
  /\ scan[p].kind = "data"
  /\ scan[p].names = {}
  /\ ppc'  = [ppc EXCEPT ![p] = "list"]
  /\ scan' = [scan EXCEPT ![p].kind  = "snap",
                          ![p].names = RowsOn(scan[p].node, snapshots, SnapshotId)]
  /\ UNCHANGED <<lv, others>>

ReadSnapshots(p) ==
  /\ ppc[p] = "reap"
  /\ scan[p].kind = "data"
  /\ scan[p].names = {}
  /\ ppc'  = [ppc EXCEPT ![p] = "list"]
  /\ scan' = [scan EXCEPT ![p].kind  = "snap",
                          ![p].names = RowsOn(scan[p].node, snapshots, SnapshotId)
                                         \cup {GoldDefault}]
  /\ UNCHANGED <<lv, others>>

EndPass(p) ==
  /\ ppc'  = [ppc EXCEPT ![p] = "idle"]
  /\ scan' = [scan EXCEPT ![p] = None]
  /\ UNCHANGED <<lv, others>>

FinishPass(p) ==
  /\ ppc[p] = "reap"
  /\ scan[p].kind = "snap"
  /\ scan[p].names = {}
  /\ EndPass(p)

\* an exception ends the pass; loop.py swallows it
AbortPass(p) == ppc[p] # "idle" /\ EndPass(p)

-----------------------------------------------------------------------------
Handler(t) ==
  \/ \E n \in Node, id \in Volume, s \in 0..MaxSize, vm \in Vm \cup {None} :
        CreateVolume(t, n, id, s, vm)
  \/ \E n \in Node, id \in Volume, src \in SnapshotId, vm \in Vm \cup {None} :
        CloneVolume(t, n, id, src, vm)
  \/ \E id \in Snap, v \in Volume : SnapshotVolume(t, id, v)
  \/ \E id \in Snap, m \in Vm : SnapshotRoot(t, id, m)
  \/ \E id \in Image, s \in Snap : PromoteSnapshot(t, id, s)
  \/ \E v \in Volume, s \in Size : Resize(t, v, s)
  \/ \E v \in Volume : DeleteVolume(t, v)
  \/ \E s \in SnapshotId : DeleteSnapshot(t, s)
  \/ \E n \in Node, m \in Vm, v \in Volume : AttachVolume(t, n, m, v)
  \/ Lvcreate(t)
  \/ Mkfs(t)
  \/ InsertVolume(t)
  \/ LvSnapshot(t)
  \/ \E s \in Size : LvSnapshotRoot(t, s)
  \/ InsertSnapshot(t)
  \/ Lvextend(t)
  \/ UpdateSize(t)
  \/ CheckAttached(t)
  \/ Lvremove(t)
  \/ DropRow(t)
  \/ InsertVm(t)
  \/ Raise(t)

Reconcile(p) ==
  \/ \E n \in Node : ReadVolumes(p, n)
  \/ ListLvs(p)
  \/ \E x \in Lv : Reap(p, x)
  \/ \E x \in Lv : SkipReap(p, x)
  \/ ReadSnapshots(p)
  \/ FinishPass(p)
  \/ AbortPass(p)

Next == \/ \E t \in Thread : Handler(t)
        \/ \E m \in Vm : DropVm(m)
        \/ \E p \in Pass : Reconcile(p)

Spec == Init /\ [][Next]_vars

\* loop.py starts a pass every interval and each step of it is retried by the
\* next pass, so no step fails for ever.  No fairness is assumed of handlers.
PassFairness ==
  \A p \in Pass :
    /\ \A n \in Node : SF_vars(ReadVolumes(p, n))
    /\ \A k \in {"data", "snap"} : SF_vars(scan[p] # None /\ scan[p].kind = k /\ ListLvs(p))
    /\ \A x \in Lv : SF_vars(Reap(p, x))
    /\ SF_vars(ReadSnapshots(p))
    /\ SF_vars(FinishPass(p))

FairSpec == Spec /\ PassFairness

-----------------------------------------------------------------------------
(* Properties.                                                             *)

HasRow(n, x) == \/ x \in Volume /\ volumes[x] # None /\ volumes[x].node = n
                \/ x \in SnapshotId /\ snapshots[x] # None /\ snapshots[x].node = n

\* LV x of node n is gone or holds at least s.
Covers(n, x, s) == lv[n][x] = 0 \/ s <= lv[n][x]

\* The tables never promise more space than the disk has: while the LV of a
\* row exists, the row's size_mb is at most the LV's size.  It has to survive
\* resizes that overtake each other (lvextend and the row update are two
\* steps), snapshots taken between those two steps, and clones of clones.
RowsNeverOverstate ==
  /\ \A v \in Volume : volumes[v] # None =>
       Covers(volumes[v].node, v, volumes[v].size)
  /\ \A s \in SnapshotId : snapshots[s] # None =>
       Covers(snapshots[s].node, s, snapshots[s].size)

\* No sequence of requests and passes, complete or broken off, removes the
\* default golden every plain spawn clones its root disk from.
GoldDefaultKept == \A n \in Node : lv[n][GoldDefault] > 0

\* A row that was deleted never comes back, although resizes, deletes and
\* attachments that read it earlier are still running (UPDATE ... WHERE id).
NewRowsOnly ==
  /\ \A v \in Volume : volumes[v] = None /\ volumes'[v] # None =>
       /\ \E t \in Thread : pc[t] = "insert" /\ req[t].id = v
       /\ \A t \in Thread : pc[t] \in Removing \cup Growing => req[t].id # v
  /\ \A s \in SnapshotId : snapshots[s] = None /\ snapshots'[s] # None =>
       /\ \E t \in Thread : pc[t] = "insert" /\ req[t].id = s
       /\ \A t \in Thread : pc[t] \in Removing => req[t].id # s
DeletedStaysDeleted == [][NewRowsOnly]_vars

\* What a broken-off create or a delete with a failed listing leaves in a
\* volume group is removed by a later pass, or gets its row.
Orphan(n, x) == lv[n][x] > 0 /\ ~HasRow(n, x)
OrphansReaped == \A n \in Node, x \in Volume \cup SnapshotId :
                   Orphan(n, x) ~> ~Orphan(n, x)

\* pass_once: "row missing, resource exists -> tear down".  A pass removes an
\* LV only while no row stands for it.
OnlyRowlessReaped ==
  [][\A p \in Pass, x \in Lv : Reap(p, x) => ~HasRow(scan[p].node, x)]_vars

-----------------------------------------------------------------------------
(* The inductive invariant behind RowsNeverOverstate and GoldDefaultKept.  *)

\* The pass over the snapshots protects the default golden.
GoldSpared ==
  \A p \in Pass : scan[p] # None =>
    /\ ppc[p] = "reap" => GoldDefault \notin scan[p].names
    /\ ppc[p] = "list" /\ scan[p].kind = "snap" => GoldDefault \in scan[p].names

\* Every id in use was handed out by uuid4.
IdsMinted ==
  /\ \A v \in Volume : volumes[v] # None => v \in minted
  /\ \A s \in SnapshotId : snapshots[s] # None => s \in minted
  /\ \A t \in Thread : pc[t] # "idle" =>
       /\ req[t].id \in minted
       /\ req[t].src # None => req[t].src \in minted

\* Until the row is inserted nobody but its handler knows of a new resource.
OnlyMakerKnows ==
  \A t \in Thread : pc[t] \in Allocating =>
    /\ req[t].id \in Volume => volumes[req[t].id] = None
    /\ req[t].id \in SnapshotId => snapshots[req[t].id] = None
    /\ \A u \in Thread : pc[u] # "idle" =>
         /\ u # t => req[u].id # req[t].id
         /\ req[u].src # req[t].id

\* The size a handler is about to write into a row is covered by the disk.
RequestsCovered ==
  \A t \in Thread :
    /\ pc[t] \in {"mkfs", "insert"} => Covers(req[t].node, req[t].id, req[t].size)
    /\ pc[t] = "clone" => Covers(req[t].node, req[t].src, req[t].size)
    /\ pc[t] = "cloneRoot" => req[t].size = 0
    /\ pc[t] = "resizeRow" => Covers(req[t].node, req[t].id, req[t].size)
    /\ pc[t] \in Growing =>
         /\ req[t].id \in Volume
         /\ volumes[req[t].id] # None => volumes[req[t].id].node = req[t].node

IInv == /\ TypeOK
        /\ GoldSpared
        /\ GoldDefaultKept
        /\ IdsMinted
        /\ OnlyMakerKnows
        /\ RequestsCovered
        /\ RowsNeverOverstate
=============================================================================
