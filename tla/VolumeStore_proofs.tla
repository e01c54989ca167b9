------------------------ MODULE VolumeStore_proofs ------------------------
(* Proofs about VolumeStore, for every value of its constants. *)
EXTENDS VolumeStore, TLAPS

USE SizeAssumption, NoneAssumption

\* The first step of a request.
Begins(t) ==
  \/ \E n \in Node, id \in Volume, s \in 0..MaxSize, vm \in Vm \cup {None} :
        CreateVolume(t, n, id, s, vm)
  \/ \E n \in Node, id \in Volume, src \in SnapshotId, vm \in Vm \cup {None} :
        CloneVolume(t, n, id, src, vm)
  \/ \E id \in Snap, v \in Volume : SnapshotVolume(t, id, v)
  \/ \E id \in Snap, m \in Vm : SnapshotRoot(t, id, m)
  \/ \E id \in Image, s \in Snap : PromoteSnapshot(t, id, s)
  \/ \E v \in Volume, s \in Size : Resize(t, v, s)
  \/ \E v \in Volume : DeleteVolume(t, v)
  \/ \E s \in SnapshotId : DeleteSnapshot(t, s)
  \/ \E n \in Node, m \in Vm, v \in Volume : AttachVolume(t, n, m, v)

\* The conjuncts of IInv besides TypeOK.
Parts == /\ GoldSpared
         /\ GoldDefaultKept
         /\ IdsMinted
         /\ OnlyMakerKnows
         /\ RequestsCovered
         /\ RowsNeverOverstate

USE DEF Begins, Parts

\* Starting a request keeps the handlers' types.
LEMMA BeginType ==
  ASSUME HandlersOK, NEW t \in Thread, NEW step \in Steps, NEW r \in Request,
         LocalsOK(step, r), Begin(t, step, r)
  PROVE  HandlersOK'
<1>1. "idle" \notin Steps
  BY DEF Steps, Allocating, Removing, Growing
<1> QED
  BY <1>1 DEF HandlersOK, Begin, LocalsOK

\* So does a step within a request.
LEMMA GotoType ==
  ASSUME HandlersOK, NEW t \in Thread, NEW from \in Steps, NEW to \in Steps,
         LocalsOK(to, req[t]), Goto(t, from, to)
  PROVE  HandlersOK'
<1>1. "idle" \notin Steps
  BY DEF Steps, Allocating, Removing, Growing
<1> QED
  BY <1>1 DEF HandlersOK, Goto, LocalsOK

\* So does the end of a request.
LEMMA ReturnType ==
  ASSUME HandlersOK, NEW t \in Thread, NEW from, Return(t, from)
  PROVE  HandlersOK'
BY DEF HandlersOK, Return, LocalsOK

\* While a handler runs its locals are a Request.
LEMMA RunningType ==
  ASSUME HandlersOK, NEW t \in Thread, pc[t] # "idle"
  PROVE  req[t] \in Request
BY DEF HandlersOK

\* lvcreate, lvextend and lvremove keep the type of the volume groups.
LEMMA SetLvType ==
  ASSUME lv \in [Node -> [Lv -> 0..MaxSize]],
         NEW n \in Node, NEW x \in Lv, NEW s \in 0..MaxSize, SetLv(n, x, s)
  PROVE  lv' \in [Node -> [Lv -> 0..MaxSize]]
BY DEF SetLv

\* A request is started with the types its handler's later steps rely on.
LEMMA BeginTypes ==
  ASSUME TypeOK, NEW t \in Thread,
         Begins(t)
  PROVE  TypeOK'
<1> USE DEF SnapshotId
<1>1. ASSUME NEW n \in Node, NEW id \in Volume, NEW s \in 0..MaxSize, NEW vm \in Vm \cup {None},
            CreateVolume(t, n, id, s, vm)
      PROVE TypeOK'
  <2> DEFINE r == [id |-> id, src |-> None, node |-> n, size |-> s, vm |-> vm]
  <2>1. r \in Request
    BY <1>1 DEF CreateVolume, TypeOK, TablesOK, Request, Row, VmRow, Lv, Size
  <2>2. Begin(t, "lvcreate", r)
    BY <1>1 DEF CreateVolume
  <2>3. HandlersOK'
    BY <2>1, <2>2, BeginType
       DEF LocalsOK, Lv, TypeOK, Steps, Allocating, Removing, Growing
  <2>4. TablesOK' /\ lv' = lv /\ UNCHANGED passes
    BY <1>1 DEF CreateVolume, FreshVolume, TypeOK, TablesOK, tables
  <2> QED
    BY <2>3, <2>4 DEF TypeOK, PassesOK, passes
<1>2. ASSUME NEW n \in Node, NEW id \in Volume, NEW src \in SnapshotId, NEW vm \in Vm \cup {None},
            CloneVolume(t, n, id, src, vm)
      PROVE TypeOK'
  <2> DEFINE r == [id |-> id, src |-> src, node |-> n, size |-> snapshots[src].size, vm |-> vm]
  <2>1. r \in Request
    BY <1>2 DEF CloneVolume, TypeOK, TablesOK, Request, Row, VmRow, Lv, Size
  <2>2. Begin(t, "clone", r)
    BY <1>2 DEF CloneVolume
  <2>3. HandlersOK'
    BY <2>1, <2>2, BeginType
       DEF LocalsOK, Lv, TypeOK, Steps, Allocating, Removing, Growing
  <2>4. TablesOK' /\ lv' = lv /\ UNCHANGED passes
    BY <1>2 DEF CloneVolume, FreshVolume, TypeOK, TablesOK, tables
  <2> QED
    BY <2>3, <2>4 DEF TypeOK, PassesOK, passes
<1>3. ASSUME NEW id \in Snap, NEW v \in Volume,
            SnapshotVolume(t, id, v)
      PROVE TypeOK'
  <2> DEFINE r == [id |-> id, src |-> v, node |-> volumes[v].node, size |-> volumes[v].size, vm |-> None]
  <2>1. r \in Request
    BY <1>3 DEF SnapshotVolume, TypeOK, TablesOK, Request, Row, VmRow, Lv, Size
  <2>2. Begin(t, "clone", r)
    BY <1>3 DEF SnapshotVolume
  <2>3. HandlersOK'
    BY <2>1, <2>2, BeginType
       DEF LocalsOK, Lv, TypeOK, Steps, Allocating, Removing, Growing
  <2>4. TablesOK' /\ lv' = lv /\ UNCHANGED passes
    BY <1>3 DEF SnapshotVolume, FreshVolume, TypeOK, TablesOK, tables
  <2> QED
    BY <2>3, <2>4 DEF TypeOK, PassesOK, passes
<1>4. ASSUME NEW id \in Snap, NEW m \in Vm,
            SnapshotRoot(t, id, m)
      PROVE TypeOK'
  <2> DEFINE r == [id |-> id, src |-> None, node |-> vms[m].node, size |-> 0, vm |-> None]
  <2>1. r \in Request
    BY <1>4 DEF SnapshotRoot, TypeOK, TablesOK, Request, Row, VmRow, Lv, Size
  <2>2. Begin(t, "cloneRoot", r)
    BY <1>4 DEF SnapshotRoot
  <2>3. HandlersOK'
    BY <2>1, <2>2, BeginType
       DEF LocalsOK, Lv, TypeOK, Steps, Allocating, Removing, Growing
  <2>4. TablesOK' /\ lv' = lv /\ UNCHANGED passes
    BY <1>4 DEF SnapshotRoot, FreshVolume, TypeOK, TablesOK, tables
  <2> QED
    BY <2>3, <2>4 DEF TypeOK, PassesOK, passes
<1>5. ASSUME NEW id \in Image, NEW s \in Snap,
            PromoteSnapshot(t, id, s)
      PROVE TypeOK'
  <2> DEFINE r == [id |-> id, src |-> s, node |-> snapshots[s].node, size |-> snapshots[s].size, vm |-> None]
  <2>1. r \in Request
    BY <1>5 DEF PromoteSnapshot, TypeOK, TablesOK, Request, Row, VmRow, Lv, Size
  <2>2. Begin(t, "clone", r)
    BY <1>5 DEF PromoteSnapshot
  <2>3. HandlersOK'
    BY <2>1, <2>2, BeginType
       DEF LocalsOK, Lv, TypeOK, Steps, Allocating, Removing, Growing
  <2>4. TablesOK' /\ lv' = lv /\ UNCHANGED passes
    BY <1>5 DEF PromoteSnapshot, FreshVolume, TypeOK, TablesOK, tables
  <2> QED
    BY <2>3, <2>4 DEF TypeOK, PassesOK, passes
<1>6. ASSUME NEW v \in Volume, NEW s \in Size,
            Resize(t, v, s)
      PROVE TypeOK'
  <2> DEFINE r == [id |-> v, src |-> None, node |-> volumes[v].node, size |-> s, vm |-> None]
  <2>1. r \in Request
    BY <1>6 DEF Resize, TypeOK, TablesOK, Request, Row, VmRow, Lv, Size
  <2>2. Begin(t, "lvextend", r)
    BY <1>6 DEF Resize
  <2>3. HandlersOK'
    BY <2>1, <2>2, BeginType
       DEF LocalsOK, Lv, TypeOK, Steps, Allocating, Removing, Growing
  <2>4. TablesOK' /\ lv' = lv /\ UNCHANGED passes
    BY <1>6 DEF Resize, FreshVolume, TypeOK, TablesOK, tables
  <2> QED
    BY <2>3, <2>4 DEF TypeOK, PassesOK, passes
<1>7. ASSUME NEW v \in Volume,
            DeleteVolume(t, v)
      PROVE TypeOK'
  <2> DEFINE r == [id |-> v, src |-> None, node |-> volumes[v].node, size |-> 0, vm |-> None]
  <2>1. r \in Request
    BY <1>7 DEF DeleteVolume, TypeOK, TablesOK, Request, Row, VmRow, Lv, Size
  <2>2. Begin(t, "attached?", r)
    BY <1>7 DEF DeleteVolume
  <2>3. HandlersOK'
    BY <2>1, <2>2, BeginType
       DEF LocalsOK, Lv, TypeOK, Steps, Allocating, Removing, Growing
  <2>4. TablesOK' /\ lv' = lv /\ UNCHANGED passes
    BY <1>7 DEF DeleteVolume, FreshVolume, TypeOK, TablesOK, tables
  <2> QED
    BY <2>3, <2>4 DEF TypeOK, PassesOK, passes
<1>8. ASSUME NEW s \in SnapshotId,
            DeleteSnapshot(t, s)
      PROVE TypeOK'
  <2> DEFINE r == [id |-> s, src |-> None, node |-> snapshots[s].node, size |-> 0, vm |-> None]
  <2>1. r \in Request
    BY <1>8 DEF DeleteSnapshot, TypeOK, TablesOK, Request, Row, VmRow, Lv, Size
  <2>2. Begin(t, "lvremove", r)
    BY <1>8 DEF DeleteSnapshot
  <2>3. HandlersOK'
    BY <2>1, <2>2, BeginType
       DEF LocalsOK, Lv, TypeOK, Steps, Allocating, Removing, Growing
  <2>4. TablesOK' /\ lv' = lv /\ UNCHANGED passes
    BY <1>8 DEF DeleteSnapshot, FreshVolume, TypeOK, TablesOK, tables
  <2> QED
    BY <2>3, <2>4 DEF TypeOK, PassesOK, passes
<1>9. ASSUME NEW n \in Node, NEW m \in Vm, NEW v \in Volume,
            AttachVolume(t, n, m, v)
      PROVE TypeOK'
  <2> DEFINE r == [id |-> v, src |-> None, node |-> n, size |-> 0, vm |-> m]
  <2>1. r \in Request
    BY <1>9 DEF AttachVolume, TypeOK, TablesOK, Request, Row, VmRow, Lv, Size
  <2>2. Begin(t, "insertVm", r)
    BY <1>9 DEF AttachVolume
  <2>3. HandlersOK'
    BY <2>1, <2>2, BeginType
       DEF LocalsOK, Lv, TypeOK, Steps, Allocating, Removing, Growing
  <2>4. TablesOK' /\ lv' = lv /\ UNCHANGED passes
    BY <1>9 DEF AttachVolume, FreshVolume, TypeOK, TablesOK, tables
  <2> QED
    BY <2>3, <2>4 DEF TypeOK, PassesOK, passes
<1> QED
  BY <1>1, <1>2, <1>3, <1>4, <1>5, <1>6, <1>7, <1>8, <1>9

\* The steps of a running request keep the types.
LEMMA StepTypes ==
  ASSUME TypeOK, NEW t \in Thread,
         \/ Lvcreate(t) \/ Mkfs(t) \/ InsertVolume(t) \/ LvSnapshot(t)
         \/ \E s \in Size : LvSnapshotRoot(t, s)
         \/ InsertSnapshot(t) \/ Lvextend(t) \/ UpdateSize(t) \/ CheckAttached(t)
         \/ Lvremove(t) \/ DropRow(t) \/ InsertVm(t) \/ Raise(t)
  PROVE  TypeOK'
<1> USE DEF SnapshotId
<1>r. ASSUME pc[t] # "idle"
      PROVE  /\ req[t].id \in Volume \cup Snap \cup Image
             /\ req[t].id \in Lv
             /\ req[t].src \in Lv \cup {None}
             /\ req[t].node \in Node
             /\ req[t].size \in 0..MaxSize
             /\ req[t].vm \in Vm \cup {None}
             /\ LocalsOK(pc[t], req[t])
  BY <1>r, RunningType DEF TypeOK, HandlersOK, Request, Lv
<1>s. Steps = {"insertVm", "lvcreate", "mkfs", "clone", "cloneRoot", "insert", "attached?", "lvremove", "drop", "lvextend", "resizeRow"}
  BY DEF Steps, Allocating, Removing, Growing
<1>1. ASSUME Lvcreate(t) PROVE TypeOK'
  <2>1. Goto(t, "lvcreate", "mkfs") /\ pc[t] # "idle"
    BY <1>1 DEF Lvcreate, Goto
  <2>2. HandlersOK'
    BY <1>s, <2>1, GotoType DEF TypeOK, LocalsOK
  <2>3. lv' \in [Node -> [Lv -> 0..MaxSize]]
    BY <1>1, <1>r, <2>1, SetLvType DEF Lvcreate, TypeOK, Size, LocalsOK, Goto
  <2>4. TablesOK' /\ UNCHANGED passes
    BY <1>1 DEF Lvcreate, TypeOK, TablesOK, tables
  <2> QED
    BY <2>2, <2>3, <2>4 DEF TypeOK, PassesOK, passes
<1>2. ASSUME Mkfs(t) PROVE TypeOK'
  <2>1. Goto(t, "mkfs", "insert") /\ pc[t] # "idle"
    BY <1>2 DEF Mkfs, Goto
  <2>2. HandlersOK'
    BY <1>s, <2>1, GotoType DEF TypeOK, LocalsOK
  <2>3. lv' = lv /\ UNCHANGED passes
    BY <1>2 DEF Mkfs
  <2>4. TablesOK'
    BY <1>2 DEF Mkfs, TypeOK, TablesOK, tables
  <2> QED
    BY <2>2, <2>3, <2>4 DEF TypeOK, PassesOK, passes
<1>3. ASSUME LvSnapshot(t) PROVE TypeOK'
  <2>1. Goto(t, "clone", "insert") /\ pc[t] # "idle"
    BY <1>3 DEF LvSnapshot, Goto
  <2>2. HandlersOK'
    BY <1>s, <2>1, GotoType DEF TypeOK, LocalsOK
  <2>3. lv' \in [Node -> [Lv -> 0..MaxSize]]
    BY <1>3, <1>r, <2>1, SetLvType DEF LvSnapshot, TypeOK, Size, LocalsOK, Goto
  <2>4. TablesOK' /\ UNCHANGED passes
    BY <1>3 DEF LvSnapshot, TypeOK, TablesOK, tables
  <2> QED
    BY <2>2, <2>3, <2>4 DEF TypeOK, PassesOK, passes
<1>4. ASSUME NEW s \in Size, LvSnapshotRoot(t, s) PROVE TypeOK'
  <2>1. Goto(t, "cloneRoot", "insert") /\ pc[t] # "idle"
    BY <1>4 DEF LvSnapshotRoot, Goto
  <2>2. HandlersOK'
    BY <1>s, <2>1, GotoType DEF TypeOK, LocalsOK
  <2>3. lv' \in [Node -> [Lv -> 0..MaxSize]]
    BY <1>4, <1>r, <2>1, SetLvType DEF LvSnapshotRoot, TypeOK, Size, LocalsOK, Goto
  <2>4. TablesOK' /\ UNCHANGED passes
    BY <1>4 DEF LvSnapshotRoot, TypeOK, TablesOK, tables
  <2> QED
    BY <2>2, <2>3, <2>4 DEF TypeOK, PassesOK, passes
<1>5. ASSUME InsertSnapshot(t) PROVE TypeOK'
  <2>1. Return(t, "insert") /\ pc[t] # "idle"
    BY <1>5 DEF InsertSnapshot, Return
  <2>2. HandlersOK'
    BY <1>s, <2>1, ReturnType DEF TypeOK, LocalsOK
  <2>3. lv' = lv /\ UNCHANGED passes
    BY <1>5 DEF InsertSnapshot
  <2>4. TablesOK'
    BY <1>5, <1>r, <2>1
       DEF InsertSnapshot, TypeOK, TablesOK, Row, VmRow, tables, LocalsOK, Return
  <2> QED
    BY <2>2, <2>3, <2>4 DEF TypeOK, PassesOK, passes
<1>6. ASSUME Lvextend(t) PROVE TypeOK'
  <2>1. Goto(t, "lvextend", "resizeRow") /\ pc[t] # "idle"
    BY <1>6 DEF Lvextend, Goto
  <2>2. HandlersOK'
    BY <1>s, <2>1, GotoType DEF TypeOK, LocalsOK
  <2>3. lv' \in [Node -> [Lv -> 0..MaxSize]]
    BY <1>6, <1>r, <2>1, SetLvType DEF Lvextend, TypeOK, Size, LocalsOK, Goto
  <2>4. TablesOK' /\ UNCHANGED passes
    BY <1>6 DEF Lvextend, TypeOK, TablesOK, tables
  <2> QED
    BY <2>2, <2>3, <2>4 DEF TypeOK, PassesOK, passes
<1>7. ASSUME UpdateSize(t) PROVE TypeOK'
  <2>1. Return(t, "resizeRow") /\ pc[t] # "idle"
    BY <1>7 DEF UpdateSize, Return
  <2>2. HandlersOK'
    BY <1>s, <2>1, ReturnType DEF TypeOK, LocalsOK
  <2>3. lv' = lv /\ UNCHANGED passes
    BY <1>7 DEF UpdateSize
  <2>4. TablesOK'
    <3>1. CASE volumes[req[t].id] = None
      BY <1>7, <3>1 DEF UpdateSize, TypeOK, TablesOK
    <3>2. CASE volumes[req[t].id] # None
      <4>1. ASSUME req[t].id \in Volume
            PROVE  [node |-> volumes[req[t].id].node, size |-> req[t].size] \in Row
        BY <1>r, <2>1, <3>2, <4>1 DEF TypeOK, TablesOK, Row
      <4> QED
        BY <1>7, <3>2, <4>1 DEF UpdateSize, TypeOK, TablesOK
    <3> QED
      BY <3>1, <3>2
  <2> QED
    BY <2>2, <2>3, <2>4 DEF TypeOK, PassesOK, passes
<1>8. ASSUME Lvremove(t) PROVE TypeOK'
  <2>1. Goto(t, "lvremove", "drop") /\ pc[t] # "idle"
    BY <1>8 DEF Lvremove, Goto
  <2>2. HandlersOK'
    BY <1>s, <2>1, GotoType DEF TypeOK, LocalsOK
  <2>3. lv' \in [Node -> [Lv -> 0..MaxSize]]
    BY <1>8, <1>r, <2>1, SetLvType DEF Lvremove, TypeOK, Size, LocalsOK, Goto
  <2>4. TablesOK' /\ UNCHANGED passes
    BY <1>8 DEF Lvremove, TypeOK, TablesOK, tables
  <2> QED
    BY <2>2, <2>3, <2>4 DEF TypeOK, PassesOK, passes
<1>9. ASSUME DropRow(t) PROVE TypeOK'
  <2>1. Return(t, "drop") /\ pc[t] # "idle"
    BY <1>9 DEF DropRow, Return
  <2>2. HandlersOK'
    BY <1>s, <2>1, ReturnType DEF TypeOK, LocalsOK
  <2>3. lv' = lv /\ UNCHANGED passes
    BY <1>9 DEF DropRow
  <2>4. TablesOK'
    BY <1>9, <1>r, <2>1
       DEF DropRow, TypeOK, TablesOK, Row, VmRow, tables, LocalsOK, Return
  <2> QED
    BY <2>2, <2>3, <2>4 DEF TypeOK, PassesOK, passes
<1>10. ASSUME InsertVm(t) PROVE TypeOK'
  <2>1. Return(t, "insertVm") /\ pc[t] # "idle"
    BY <1>10 DEF InsertVm, Return
  <2>2. HandlersOK'
    BY <1>s, <2>1, ReturnType DEF TypeOK, LocalsOK
  <2>3. lv' = lv /\ UNCHANGED passes
    BY <1>10 DEF InsertVm
  <2>4. TablesOK'
    BY <1>10, <1>r, <2>1
       DEF InsertVm, TypeOK, TablesOK, Row, VmRow, tables, LocalsOK, Return
  <2> QED
    BY <2>2, <2>3, <2>4 DEF TypeOK, PassesOK, passes
<1>11. ASSUME Raise(t) PROVE TypeOK'
  <2>1. Return(t, pc[t]) /\ pc[t] # "idle"
    BY <1>11 DEF Raise, Return
  <2>2. HandlersOK'
    BY <1>s, <2>1, ReturnType DEF TypeOK, LocalsOK
  <2>3. lv' = lv /\ UNCHANGED passes
    BY <1>11 DEF Raise
  <2>4. TablesOK'
    BY <1>11 DEF Raise, TypeOK, TablesOK, tables
  <2> QED
    BY <2>2, <2>3, <2>4 DEF TypeOK, PassesOK, passes
<1>12. ASSUME InsertVolume(t) PROVE TypeOK'
  <2>1. pc[t] = "insert"
    BY <1>12 DEF InsertVolume
  <2>2. HandlersOK'
    BY <1>s, <1>12, <2>1, GotoType, ReturnType DEF InsertVolume, TypeOK, LocalsOK
  <2>3. lv' = lv /\ UNCHANGED passes
    BY <1>12 DEF InsertVolume
  <2>4. TablesOK'
    BY <1>12, <1>r, <2>1 DEF InsertVolume, TypeOK, TablesOK, Row
  <2> QED
    BY <2>2, <2>3, <2>4 DEF TypeOK, PassesOK, passes
<1>13. ASSUME CheckAttached(t) PROVE TypeOK'
  <2>1. HandlersOK'
    BY <1>s, <1>13, GotoType, ReturnType DEF CheckAttached, TypeOK, LocalsOK
  <2>2. TablesOK' /\ lv' = lv /\ UNCHANGED passes
    BY <1>13 DEF CheckAttached, TypeOK, TablesOK, tables
  <2> QED
    BY <2>1, <2>2 DEF TypeOK, PassesOK, passes
<1> QED
  BY <1>1, <1>2, <1>3, <1>4, <1>5, <1>6, <1>7, <1>8, <1>9, <1>10, <1>11, <1>12, <1>13

\* So do the steps of a reconciler pass.
LEMMA PassTypes ==
  ASSUME TypeOK, NEW p \in Pass, Reconcile(p)
  PROVE  TypeOK'
<1>r. ASSUME ppc[p] # "idle" PROVE scan[p] \in Scan
  BY <1>r DEF TypeOK, PassesOK
<1>h. TablesOK' /\ HandlersOK'
  <2>1. UNCHANGED others
    BY
       DEF Reconcile, ReadVolumes, ListLvs, Reap, SkipReap, ReadSnapshots, FinishPass,
           AbortPass, EndPass
  <2> QED
    BY <2>1 DEF TypeOK, TablesOK, HandlersOK, others, tables
<1>1. ASSUME NEW n \in Node, ReadVolumes(p, n) PROVE TypeOK'
  <2>1. PassesOK'
    BY <1>1, <1>r DEF ReadVolumes, TypeOK, PassesOK, Scan, EndPass, RowsOn, Prefixed, Lv
  <2>2. lv' = lv
    BY <1>1 DEF ReadVolumes, EndPass
  <2> QED
    BY <1>h, <2>1, <2>2 DEF TypeOK
<1>2. ASSUME ListLvs(p) PROVE TypeOK'
  <2>1. PassesOK'
    BY <1>2, <1>r DEF ListLvs, TypeOK, PassesOK, Scan, EndPass, RowsOn, Prefixed, Lv
  <2>2. lv' = lv
    BY <1>2 DEF ListLvs, EndPass
  <2> QED
    BY <1>h, <2>1, <2>2 DEF TypeOK
<1>3. ASSUME NEW x \in Lv, Reap(p, x) PROVE TypeOK'
  <2>1. PassesOK'
    <3>1. ppc[p] = "reap" /\ scan[p] \in Scan
      BY <1>3, <1>r DEF Reap
    <3>2. /\ ppc' = ppc
          /\ scan' = [scan EXCEPT ![p].names = @ \ {x}]
      BY <1>3 DEF Reap, others
    <3>3. scan'[p] \in Scan /\ scan'[p] # None
      BY <3>1, <3>2, NoneAssumption DEF TypeOK, PassesOK, Scan
    <3> QED
      BY <3>1, <3>2, <3>3 DEF TypeOK, PassesOK
  <2>2. lv' \in [Node -> [Lv -> 0..MaxSize]]
    BY <1>3, <1>r, SetLvType DEF Reap, TypeOK, Scan
  <2> QED
    BY <1>h, <2>1, <2>2 DEF TypeOK
<1>4. ASSUME NEW x \in Lv, SkipReap(p, x) PROVE TypeOK'
  <2>1. PassesOK'
    <3>1. ppc[p] = "reap" /\ scan[p] \in Scan
      BY <1>4, <1>r DEF SkipReap
    <3>2. /\ ppc' = ppc
          /\ scan' = [scan EXCEPT ![p].names = @ \ {x}]
      BY <1>4 DEF SkipReap, others
    <3>3. scan'[p] \in Scan /\ scan'[p] # None
      BY <3>1, <3>2, NoneAssumption DEF TypeOK, PassesOK, Scan
    <3> QED
      BY <3>1, <3>2, <3>3 DEF TypeOK, PassesOK
  <2>2. lv' = lv
    BY <1>4 DEF SkipReap, EndPass
  <2> QED
    BY <1>h, <2>1, <2>2 DEF TypeOK
<1>5. ASSUME ReadSnapshots(p) PROVE TypeOK'
  <2>1. PassesOK'
    <3>1. scan[p] \in Scan
      BY <1>5, <1>r DEF ReadSnapshots
    <3>2. RowsOn(scan[p].node, snapshots, SnapshotId) \cup {GoldDefault} \subseteq Lv
      BY DEF RowsOn, Lv
    <3>3. scan'[p] \in Scan
      BY <1>5, <3>1, <3>2 DEF ReadSnapshots, TypeOK, PassesOK, Scan
    <3> QED
      BY <1>5, <3>3 DEF ReadSnapshots, TypeOK, PassesOK
  <2>2. lv' = lv
    BY <1>5 DEF ReadSnapshots, EndPass
  <2> QED
    BY <1>h, <2>1, <2>2 DEF TypeOK
<1>6. ASSUME FinishPass(p) PROVE TypeOK'
  <2>1. PassesOK'
    BY <1>6, <1>r DEF FinishPass, TypeOK, PassesOK, Scan, EndPass, RowsOn, Prefixed, Lv
  <2>2. lv' = lv
    BY <1>6 DEF FinishPass, EndPass
  <2> QED
    BY <1>h, <2>1, <2>2 DEF TypeOK
<1>7. ASSUME AbortPass(p) PROVE TypeOK'
  <2>1. PassesOK'
    BY <1>7, <1>r DEF AbortPass, TypeOK, PassesOK, Scan, EndPass, RowsOn, Prefixed, Lv
  <2>2. lv' = lv
    BY <1>7 DEF AbortPass, EndPass
  <2> QED
    BY <1>h, <2>1, <2>2 DEF TypeOK
<1> QED
  BY <1>1, <1>2, <1>3, <1>4, <1>5, <1>6, <1>7 DEF Reconcile

\* Every value of every variable has its type, whatever fails and whenever.
LEMMA TypeInvariant == TypeOK /\ [Next]_vars => TypeOK'
<1> SUFFICES ASSUME TypeOK, [Next]_vars PROVE TypeOK'
  OBVIOUS
<1>1. ASSUME NEW t \in Thread, Handler(t) PROVE TypeOK'
  BY <1>1, BeginTypes, StepTypes DEF Handler
<1>2. ASSUME NEW m \in Vm, DropVm(m) PROVE TypeOK'
  BY <1>2 DEF DropVm, TypeOK, TablesOK, HandlersOK, PassesOK, passes
<1>3. ASSUME NEW p \in Pass, Reconcile(p) PROVE TypeOK'
  BY <1>3, PassTypes
<1>4. CASE UNCHANGED vars
  BY <1>4 DEF vars, TypeOK, TablesOK, HandlersOK, PassesOK
<1> QED
  BY <1>1, <1>2, <1>3, <1>4 DEF Next

\* A handler's locals, as the proofs below use them.
LEMMA Locals ==
  ASSUME TypeOK, NEW u \in Thread, pc[u] # "idle"
  PROVE  /\ req[u].id \in Volume \cup Snap \cup Image
         /\ req[u].id \in Lv
         /\ req[u].src \in Lv \cup {None}
         /\ req[u].node \in Node
         /\ req[u].size \in 0..MaxSize
         /\ req[u].vm \in Vm \cup {None}
         /\ LocalsOK(pc[u], req[u])
BY RunningType DEF TypeOK, HandlersOK, Request, Lv, SnapshotId

\* What a handler starting to make a new resource establishes: its id is
\* fresh, so no row and no other handler can know it; the LV it is going to
\* copy is known and large enough for the size read from its row.
LEMMA MakeInv ==
  ASSUME IInv, NEW t \in Thread, NEW step \in {"lvcreate", "clone", "cloneRoot"},
         NEW r \in Request, Begin(t, step, r),
         UNCHANGED <<tables, lv, passes>>,
         r.id \notin minted, minted \cup {r.id} \subseteq minted',
         r.src # None => \/ r.src \in Volume /\ volumes[r.src] # None
                         \/ r.src \in SnapshotId /\ snapshots[r.src] # None,
         step = "clone" => Covers(r.node, r.src, r.size),
         step = "cloneRoot" => r.size = 0
  PROVE  Parts'
<1> USE DEF IInv, tables, passes
<1>1. pc[t] = "idle"
  BY DEF Begin
<1>2. \A u \in Thread : u # t => pc'[u] = pc[u] /\ req'[u] = req[u]
  BY DEF Begin, TypeOK, HandlersOK
<1>3. pc'[t] = step /\ req'[t] = r
  BY DEF Begin, TypeOK, HandlersOK
<1>4. GoldSpared' /\ GoldDefaultKept' /\ RowsNeverOverstate'
  BY DEF GoldSpared, GoldDefaultKept, RowsNeverOverstate, Covers
<1>5. IdsMinted'
  BY <1>2, <1>3 DEF IdsMinted
<1>6. OnlyMakerKnows'
  <2>1. \A u \in Thread : pc[u] # "idle" => req[u].id # r.id /\ req[u].src # r.id
    BY Locals, NoneAssumption DEF IdsMinted, Request, Lv, SnapshotId
  <2>2. \A u \in Thread : pc[u] \in Allocating => req[u].id # r.src
    BY Locals, NoneAssumption DEF OnlyMakerKnows, Allocating
  <2>3. r.src # r.id
    BY NoneAssumption DEF IdsMinted, Request, Lv, SnapshotId
  <2>4. /\ r.id \in Volume => volumes[r.id] = None
        /\ r.id \in SnapshotId => snapshots[r.id] = None
    BY DEF IdsMinted
  <2> QED
    BY <1>1, <1>2, <1>3, <2>1, <2>2, <2>3, <2>4 DEF OnlyMakerKnows, Allocating
<1>7. RequestsCovered'
  BY <1>2, <1>3 DEF RequestsCovered, Growing, Covers
<1> QED
  BY <1>4, <1>5, <1>6, <1>7

\* A handler that starts from a row keeps the invariant: no maker's id has a
\* row, so no maker is affected.
LEMMA UseInv ==
  ASSUME IInv, NEW t \in Thread,
         NEW step \in {"lvextend", "attached?", "lvremove", "insertVm"},
         NEW r \in Request, Begin(t, step, r),
         UNCHANGED <<tables, lv, passes>>, minted \subseteq minted',
         r.src = None,
         \/ r.id \in Volume /\ volumes[r.id] # None
         \/ r.id \in SnapshotId /\ snapshots[r.id] # None,
         step = "lvextend" => r.id \in Volume /\ volumes[r.id].node = r.node
  PROVE  Parts'
<1> USE DEF IInv, tables, passes
<1>1. pc[t] = "idle"
  BY DEF Begin
<1>2. \A u \in Thread : u # t => pc'[u] = pc[u] /\ req'[u] = req[u]
  BY DEF Begin, TypeOK, HandlersOK
<1>3. pc'[t] = step /\ req'[t] = r
  BY DEF Begin, TypeOK, HandlersOK
<1>4. GoldSpared' /\ GoldDefaultKept' /\ RowsNeverOverstate'
  BY DEF GoldSpared, GoldDefaultKept, RowsNeverOverstate, Covers
<1>5. IdsMinted'
  BY <1>2, <1>3 DEF IdsMinted
<1>6. OnlyMakerKnows'
  <2>1. \A u \in Thread : pc[u] \in Allocating => req[u].id # r.id
    BY DEF OnlyMakerKnows
  <2>2. \A u \in Thread : pc[u] \in Allocating => req[u].id # None
    BY Locals, NoneAssumption DEF Allocating
  <2> QED
    BY <1>1, <1>2, <1>3, <2>1, <2>2 DEF OnlyMakerKnows, Allocating
<1>7. RequestsCovered'
  BY <1>2, <1>3 DEF RequestsCovered, Growing, Covers
<1> QED
  BY <1>4, <1>5, <1>6, <1>7


\* Starting a request keeps the invariant.
LEMMA BeginInv ==
  ASSUME IInv, NEW t \in Thread,
         Begins(t)
  PROVE  Parts'
<1> USE DEF SnapshotId
<1>1. ASSUME NEW n \in Node, NEW id \in Volume, NEW s \in 0..MaxSize, NEW vm \in Vm \cup {None},
            CreateVolume(t, n, id, s, vm)
      PROVE  Parts'
  <2> DEFINE r == [id |-> id, src |-> None, node |-> n, size |-> s, vm |-> vm]
  <2>1. r \in Request
    BY <1>1 DEF CreateVolume, IInv, TypeOK, TablesOK, Request, Row, VmRow, Lv, Size
  <2>2. Begin(t, "lvcreate", r) /\ UNCHANGED <<tables, lv, passes>>
    BY <1>1 DEF CreateVolume, tables, passes
  <2>3. r.id \notin minted /\ minted \cup {r.id} \subseteq minted'
    BY <1>1, NoneAssumption DEF CreateVolume, FreshVolume, Lv
  <2>4. /\ "lvcreate" = "clone" => Covers(r.node, r.src, r.size)
        /\ r.src # None => \/ r.src \in Volume /\ volumes[r.src] # None
                           \/ r.src \in SnapshotId /\ snapshots[r.src] # None
    BY <1>1 DEF CreateVolume, IInv, RowsNeverOverstate
  <2> QED
    BY <2>1, <2>2, <2>3, <2>4, MakeInv
<1>2. ASSUME NEW n \in Node, NEW id \in Volume, NEW src \in SnapshotId, NEW vm \in Vm \cup {None},
            CloneVolume(t, n, id, src, vm)
      PROVE  Parts'
  <2> DEFINE r == [id |-> id, src |-> src, node |-> n, size |-> snapshots[src].size, vm |-> vm]
  <2>1. r \in Request
    BY <1>2 DEF CloneVolume, IInv, TypeOK, TablesOK, Request, Row, VmRow, Lv, Size
  <2>2. Begin(t, "clone", r) /\ UNCHANGED <<tables, lv, passes>>
    BY <1>2 DEF CloneVolume, tables, passes
  <2>3. r.id \notin minted /\ minted \cup {r.id} \subseteq minted'
    BY <1>2, NoneAssumption DEF CloneVolume, FreshVolume, Lv
  <2>4. /\ "clone" = "clone" => Covers(r.node, r.src, r.size)
        /\ r.src # None => \/ r.src \in Volume /\ volumes[r.src] # None
                           \/ r.src \in SnapshotId /\ snapshots[r.src] # None
    BY <1>2 DEF CloneVolume, IInv, RowsNeverOverstate
  <2> QED
    BY <2>1, <2>2, <2>3, <2>4, MakeInv
<1>3. ASSUME NEW id \in Snap, NEW v \in Volume,
            SnapshotVolume(t, id, v)
      PROVE  Parts'
  <2> DEFINE r == [id |-> id, src |-> v, node |-> volumes[v].node, size |-> volumes[v].size, vm |-> None]
  <2>1. r \in Request
    BY <1>3 DEF SnapshotVolume, IInv, TypeOK, TablesOK, Request, Row, VmRow, Lv, Size
  <2>2. Begin(t, "clone", r) /\ UNCHANGED <<tables, lv, passes>>
    BY <1>3 DEF SnapshotVolume, tables, passes
  <2>3. r.id \notin minted /\ minted \cup {r.id} \subseteq minted'
    BY <1>3, NoneAssumption DEF SnapshotVolume, Lv
  <2>4. /\ "clone" = "clone" => Covers(r.node, r.src, r.size)
        /\ r.src # None => \/ r.src \in Volume /\ volumes[r.src] # None
                           \/ r.src \in SnapshotId /\ snapshots[r.src] # None
    BY <1>3 DEF SnapshotVolume, IInv, RowsNeverOverstate
  <2> QED
    BY <2>1, <2>2, <2>3, <2>4, MakeInv
<1>4. ASSUME NEW id \in Snap, NEW m \in Vm,
            SnapshotRoot(t, id, m)
      PROVE  Parts'
  <2> DEFINE r == [id |-> id, src |-> None, node |-> vms[m].node, size |-> 0, vm |-> None]
  <2>1. r \in Request
    BY <1>4 DEF SnapshotRoot, IInv, TypeOK, TablesOK, Request, Row, VmRow, Lv, Size
  <2>2. Begin(t, "cloneRoot", r) /\ UNCHANGED <<tables, lv, passes>>
    BY <1>4 DEF SnapshotRoot, tables, passes
  <2>3. r.id \notin minted /\ minted \cup {r.id} \subseteq minted'
    BY <1>4, NoneAssumption DEF SnapshotRoot, Lv
  <2>4. /\ "cloneRoot" = "clone" => Covers(r.node, r.src, r.size)
        /\ r.src # None => \/ r.src \in Volume /\ volumes[r.src] # None
                           \/ r.src \in SnapshotId /\ snapshots[r.src] # None
    BY <1>4 DEF SnapshotRoot, IInv, RowsNeverOverstate
  <2> QED
    BY <2>1, <2>2, <2>3, <2>4, MakeInv
<1>5. ASSUME NEW id \in Image, NEW s \in Snap,
            PromoteSnapshot(t, id, s)
      PROVE  Parts'
  <2> DEFINE r == [id |-> id, src |-> s, node |-> snapshots[s].node, size |-> snapshots[s].size, vm |-> None]
  <2>1. r \in Request
    BY <1>5 DEF PromoteSnapshot, IInv, TypeOK, TablesOK, Request, Row, VmRow, Lv, Size
  <2>2. Begin(t, "clone", r) /\ UNCHANGED <<tables, lv, passes>>
    BY <1>5 DEF PromoteSnapshot, tables, passes
  <2>3. r.id \notin minted /\ minted \cup {r.id} \subseteq minted'
    BY <1>5, NoneAssumption DEF PromoteSnapshot, Lv
  <2>4. /\ "clone" = "clone" => Covers(r.node, r.src, r.size)
        /\ r.src # None => \/ r.src \in Volume /\ volumes[r.src] # None
                           \/ r.src \in SnapshotId /\ snapshots[r.src] # None
    BY <1>5 DEF PromoteSnapshot, IInv, RowsNeverOverstate
  <2> QED
    BY <2>1, <2>2, <2>3, <2>4, MakeInv
<1>6. ASSUME NEW v \in Volume, NEW s \in Size,
            Resize(t, v, s)
      PROVE  Parts'
  <2> DEFINE r == [id |-> v, src |-> None, node |-> volumes[v].node, size |-> s, vm |-> None]
  <2>1. r \in Request
    BY <1>6 DEF Resize, IInv, TypeOK, TablesOK, Request, Row, VmRow, Lv, Size
  <2>2. Begin(t, "lvextend", r) /\ UNCHANGED <<tables, lv, passes>>
    BY <1>6 DEF Resize, tables, passes
  <2>3. minted \subseteq minted'
    BY <1>6 DEF Resize
  <2>4. /\ r.src = None
        /\ \/ r.id \in Volume /\ volumes[r.id] # None
           \/ r.id \in SnapshotId /\ snapshots[r.id] # None
    BY <1>6 DEF Resize
  <2> QED
    BY <2>1, <2>2, <2>3, <2>4, UseInv
<1>7. ASSUME NEW v \in Volume,
            DeleteVolume(t, v)
      PROVE  Parts'
  <2> DEFINE r == [id |-> v, src |-> None, node |-> volumes[v].node, size |-> 0, vm |-> None]
  <2>1. r \in Request
    BY <1>7 DEF DeleteVolume, IInv, TypeOK, TablesOK, Request, Row, VmRow, Lv, Size
  <2>2. Begin(t, "attached?", r) /\ UNCHANGED <<tables, lv, passes>>
    BY <1>7 DEF DeleteVolume, tables, passes
  <2>3. minted \subseteq minted'
    BY <1>7 DEF DeleteVolume
  <2>4. /\ r.src = None
        /\ \/ r.id \in Volume /\ volumes[r.id] # None
           \/ r.id \in SnapshotId /\ snapshots[r.id] # None
    BY <1>7 DEF DeleteVolume
  <2> QED
    BY <2>1, <2>2, <2>3, <2>4, UseInv
<1>8. ASSUME NEW s \in SnapshotId,
            DeleteSnapshot(t, s)
      PROVE  Parts'
  <2> DEFINE r == [id |-> s, src |-> None, node |-> snapshots[s].node, size |-> 0, vm |-> None]
  <2>1. r \in Request
    BY <1>8 DEF DeleteSnapshot, IInv, TypeOK, TablesOK, Request, Row, VmRow, Lv, Size
  <2>2. Begin(t, "lvremove", r) /\ UNCHANGED <<tables, lv, passes>>
    BY <1>8 DEF DeleteSnapshot, tables, passes
  <2>3. minted \subseteq minted'
    BY <1>8 DEF DeleteSnapshot
  <2>4. /\ r.src = None
        /\ \/ r.id \in Volume /\ volumes[r.id] # None
           \/ r.id \in SnapshotId /\ snapshots[r.id] # None
    BY <1>8 DEF DeleteSnapshot
  <2> QED
    BY <2>1, <2>2, <2>3, <2>4, UseInv
<1>9. ASSUME NEW n \in Node, NEW m \in Vm, NEW v \in Volume,
            AttachVolume(t, n, m, v)
      PROVE  Parts'
  <2> DEFINE r == [id |-> v, src |-> None, node |-> n, size |-> 0, vm |-> m]
  <2>1. r \in Request
    BY <1>9 DEF AttachVolume, IInv, TypeOK, TablesOK, Request, Row, VmRow, Lv, Size
  <2>2. Begin(t, "insertVm", r) /\ UNCHANGED <<tables, lv, passes>>
    BY <1>9 DEF AttachVolume, tables, passes
  <2>3. minted \subseteq minted'
    BY <1>9 DEF AttachVolume
  <2>4. /\ r.src = None
        /\ \/ r.id \in Volume /\ volumes[r.id] # None
           \/ r.id \in SnapshotId /\ snapshots[r.id] # None
    BY <1>9 DEF AttachVolume
  <2> QED
    BY <2>1, <2>2, <2>3, <2>4, UseInv
<1> QED
  BY <1>1, <1>2, <1>3, <1>4, <1>5, <1>6, <1>7, <1>8, <1>9

\* Removing an LV other than the default golden disturbs no promise: every
\* bound on a size is a bound unless the LV is gone.
LEMMA RemoveInv ==
  ASSUME IInv, NEW n \in Node, NEW x \in Lv, x # GoldDefault, SetLv(n, x, 0)
  PROVE  /\ GoldDefaultKept'
         /\ \A m \in Node, y \in Lv, s \in 0..MaxSize : Covers(m, y, s) => Covers(m, y, s)'
BY DEF IInv, TypeOK, SetLv, GoldDefaultKept, Covers, Lv

\* The same for rows, which keep their sizes meanwhile.
LEMMA CoverageKept ==
  ASSUME TypeOK, RowsNeverOverstate, UNCHANGED <<volumes, snapshots>>,
         \A m \in Node, y \in Lv, s \in 0..MaxSize : Covers(m, y, s) => Covers(m, y, s)'
  PROVE  RowsNeverOverstate'
<1>1. \A v \in Volume : volumes[v] # None => volumes[v] \in Row
  BY DEF TypeOK, TablesOK
<1>2. \A s \in SnapshotId : snapshots[s] # None => snapshots[s] \in Row
  BY DEF TypeOK, TablesOK
<1> QED
  BY <1>1, <1>2 DEF RowsNeverOverstate, Row, Lv, Covers


\* The steps of a running request keep the invariant.
LEMMA StepInv ==
  ASSUME IInv, NEW t \in Thread,
         \/ Lvcreate(t) \/ Mkfs(t) \/ InsertVolume(t) \/ LvSnapshot(t)
         \/ \E s \in Size : LvSnapshotRoot(t, s)
         \/ InsertSnapshot(t) \/ Lvextend(t) \/ UpdateSize(t) \/ CheckAttached(t)
         \/ Lvremove(t) \/ DropRow(t) \/ InsertVm(t) \/ Raise(t)
  PROVE  Parts'
<1> USE IdAssumption DEF SnapshotId
<1>r. ASSUME NEW u \in Thread, pc[u] # "idle"
      PROVE  /\ req[u].id \in Volume \cup Snap \cup Image
             /\ req[u].id \in Lv
             /\ req[u].src \in Lv \cup {None}
             /\ req[u].node \in Node
             /\ req[u].size \in 0..MaxSize
             /\ req[u].vm \in Vm \cup {None}
             /\ LocalsOK(pc[u], req[u])
  BY <1>r, Locals DEF IInv
<1>1. ASSUME Lvcreate(t)
      PROVE  Parts'
  <2>1. GoldSpared'
    BY <1>1 DEF Lvcreate, Goto, GoldSpared, IInv, passes
  <2>2. GoldDefaultKept'
    BY <1>1, <1>r DEF Lvcreate, Goto, GoldDefaultKept, IInv, TypeOK, SetLv, Size
  <2>3. IdsMinted'
    BY <1>1, <1>r
       DEF Lvcreate, Goto, IInv, TypeOK, TablesOK, HandlersOK, tables, passes,
           IdsMinted, OnlyMakerKnows, Allocating, RequestsCovered, Covers, Row,
           Growing, SetLv, Size, LocalsOK
  <2>4. OnlyMakerKnows'
    BY <1>1, <1>r
       DEF Lvcreate, Goto, IInv, TypeOK, TablesOK, HandlersOK, tables, passes,
           OnlyMakerKnows, Allocating, RequestsCovered, Covers, IdsMinted, Row,
           Growing, SetLv, Size, LocalsOK
  <2>5. RequestsCovered'
    BY <1>1, <1>r
       DEF Lvcreate, Goto, IInv, TypeOK, TablesOK, HandlersOK, tables, passes,
           RequestsCovered, OnlyMakerKnows, Allocating, Growing, Covers, IdsMinted,
           Row, SetLv, Size, LocalsOK
  <2>6. RowsNeverOverstate'
    BY <1>1, <1>r
       DEF Lvcreate, Goto, IInv, TypeOK, TablesOK, HandlersOK, tables, passes,
           RowsNeverOverstate, Covers, OnlyMakerKnows, Allocating, RequestsCovered,
           IdsMinted, Row, Growing, SetLv, Size, LocalsOK
  <2> QED
    BY <2>1, <2>2, <2>3, <2>4, <2>5, <2>6
<1>2. ASSUME Mkfs(t)
      PROVE  Parts'
  <2>1. GoldSpared'
    BY <1>2 DEF Mkfs, Goto, GoldSpared, IInv, passes
  <2>2. GoldDefaultKept'
    BY <1>2, <1>r DEF Mkfs, Goto, GoldDefaultKept, IInv, tables, passes
  <2>3. IdsMinted'
    BY <1>2, <1>r
       DEF Mkfs, Goto, IInv, TypeOK, TablesOK, HandlersOK, tables, passes, IdsMinted
  <2>4. OnlyMakerKnows'
    BY <1>2, <1>r
       DEF Mkfs, Goto, IInv, TypeOK, TablesOK, HandlersOK, tables, passes,
           OnlyMakerKnows, Allocating
  <2>5. RequestsCovered'
    BY <1>2, <1>r
       DEF Mkfs, Goto, IInv, TypeOK, TablesOK, HandlersOK, tables, passes,
           RequestsCovered, OnlyMakerKnows, Allocating, Growing, Covers
  <2>6. RowsNeverOverstate'
    BY <1>2, <1>r
       DEF Mkfs, Goto, IInv, TypeOK, TablesOK, HandlersOK, tables, passes,
           RowsNeverOverstate, Covers
  <2> QED
    BY <2>1, <2>2, <2>3, <2>4, <2>5, <2>6
<1>3. ASSUME InsertVolume(t)
      PROVE  Parts'
  <2>1. GoldSpared'
    BY <1>3 DEF InsertVolume, Goto, Return, GoldSpared, IInv, passes
  <2>2. GoldDefaultKept'
    BY <1>3, <1>r DEF InsertVolume, Goto, Return, GoldDefaultKept, IInv, tables, passes
  <2>3. IdsMinted'
    BY <1>3, <1>r
       DEF InsertVolume, Goto, Return, IInv, TypeOK, TablesOK, HandlersOK, tables,
           passes, IdsMinted, OnlyMakerKnows, Allocating, RequestsCovered, Covers, Row,
           Growing, SetLv, Size, LocalsOK
  <2>4. OnlyMakerKnows'
    BY <1>3, <1>r
       DEF InsertVolume, Goto, Return, IInv, TypeOK, TablesOK, HandlersOK, tables,
           passes, OnlyMakerKnows, Allocating, RequestsCovered, Covers, IdsMinted, Row,
           Growing, SetLv, Size, LocalsOK
  <2>5. RequestsCovered'
    BY <1>3, <1>r
       DEF InsertVolume, Goto, Return, IInv, TypeOK, TablesOK, HandlersOK, tables,
           passes, RequestsCovered, OnlyMakerKnows, Allocating, Growing, Covers,
           IdsMinted, Row, SetLv, Size, LocalsOK
  <2>6. RowsNeverOverstate'
    BY <1>3, <1>r
       DEF InsertVolume, Goto, Return, IInv, TypeOK, TablesOK, HandlersOK, tables,
           passes, RowsNeverOverstate, Covers, OnlyMakerKnows, Allocating,
           RequestsCovered, IdsMinted, Row, Growing, SetLv, Size, LocalsOK
  <2> QED
    BY <2>1, <2>2, <2>3, <2>4, <2>5, <2>6
<1>4. ASSUME LvSnapshot(t)
      PROVE  Parts'
  <2>1. GoldSpared'
    BY <1>4 DEF LvSnapshot, Goto, GoldSpared, IInv, passes
  <2>2. GoldDefaultKept'
    BY <1>4, <1>r DEF LvSnapshot, Goto, GoldDefaultKept, IInv, TypeOK, SetLv, Size
  <2>3. IdsMinted'
    BY <1>4, <1>r
       DEF LvSnapshot, Goto, IInv, TypeOK, TablesOK, HandlersOK, tables, passes,
           IdsMinted, OnlyMakerKnows, Allocating, RequestsCovered, Covers, Row,
           Growing, SetLv, Size, LocalsOK
  <2>4. OnlyMakerKnows'
    BY <1>4, <1>r
       DEF LvSnapshot, Goto, IInv, TypeOK, TablesOK, HandlersOK, tables, passes,
           OnlyMakerKnows, Allocating, RequestsCovered, Covers, IdsMinted, Row,
           Growing, SetLv, Size, LocalsOK
  <2>5. RequestsCovered'
    BY <1>4, <1>r
       DEF LvSnapshot, Goto, IInv, TypeOK, TablesOK, HandlersOK, tables, passes,
           RequestsCovered, OnlyMakerKnows, Allocating, Growing, Covers, IdsMinted,
           Row, SetLv, Size, LocalsOK
  <2>6. RowsNeverOverstate'
    BY <1>4, <1>r
       DEF LvSnapshot, Goto, IInv, TypeOK, TablesOK, HandlersOK, tables, passes,
           RowsNeverOverstate, Covers, OnlyMakerKnows, Allocating, RequestsCovered,
           IdsMinted, Row, Growing, SetLv, Size, LocalsOK
  <2> QED
    BY <2>1, <2>2, <2>3, <2>4, <2>5, <2>6
<1>5. ASSUME NEW s \in Size, LvSnapshotRoot(t, s)
      PROVE  Parts'
  <2>1. GoldSpared'
    BY <1>5 DEF LvSnapshotRoot, Goto, GoldSpared, IInv, passes
  <2>2. GoldDefaultKept'
    BY <1>5, <1>r DEF LvSnapshotRoot, Goto, GoldDefaultKept, IInv, TypeOK, SetLv, Size
  <2>3. IdsMinted'
    BY <1>5, <1>r
       DEF LvSnapshotRoot, Goto, IInv, TypeOK, TablesOK, HandlersOK, tables, passes,
           IdsMinted, OnlyMakerKnows, Allocating, RequestsCovered, Covers, Row,
           Growing, SetLv, Size, LocalsOK
  <2>4. OnlyMakerKnows'
    BY <1>5, <1>r
       DEF LvSnapshotRoot, Goto, IInv, TypeOK, TablesOK, HandlersOK, tables, passes,
           OnlyMakerKnows, Allocating, RequestsCovered, Covers, IdsMinted, Row,
           Growing, SetLv, Size, LocalsOK
  <2>5. RequestsCovered'
    BY <1>5, <1>r
       DEF LvSnapshotRoot, Goto, IInv, TypeOK, TablesOK, HandlersOK, tables, passes,
           RequestsCovered, OnlyMakerKnows, Allocating, Growing, Covers, IdsMinted,
           Row, SetLv, Size, LocalsOK
  <2>6. RowsNeverOverstate'
    BY <1>5, <1>r
       DEF LvSnapshotRoot, Goto, IInv, TypeOK, TablesOK, HandlersOK, tables, passes,
           RowsNeverOverstate, Covers, OnlyMakerKnows, Allocating, RequestsCovered,
           IdsMinted, Row, Growing, SetLv, Size, LocalsOK
  <2> QED
    BY <2>1, <2>2, <2>3, <2>4, <2>5, <2>6
<1>6. ASSUME InsertSnapshot(t)
      PROVE  Parts'
  <2>1. GoldSpared'
    BY <1>6 DEF InsertSnapshot, Return, GoldSpared, IInv, passes
  <2>2. GoldDefaultKept'
    BY <1>6, <1>r DEF InsertSnapshot, Return, GoldDefaultKept, IInv, tables, passes
  <2>3. IdsMinted'
    BY <1>6, <1>r
       DEF InsertSnapshot, Return, IInv, TypeOK, TablesOK, HandlersOK, tables, passes,
           IdsMinted, OnlyMakerKnows, Allocating, RequestsCovered, Covers, Row,
           Growing, SetLv, Size, LocalsOK
  <2>4. OnlyMakerKnows'
    BY <1>6, <1>r
       DEF InsertSnapshot, Return, IInv, TypeOK, TablesOK, HandlersOK, tables, passes,
           OnlyMakerKnows, Allocating, RequestsCovered, Covers, IdsMinted, Row,
           Growing, SetLv, Size, LocalsOK
  <2>5. RequestsCovered'
    BY <1>6, <1>r
       DEF InsertSnapshot, Return, IInv, TypeOK, TablesOK, HandlersOK, tables, passes,
           RequestsCovered, OnlyMakerKnows, Allocating, Growing, Covers, IdsMinted,
           Row, SetLv, Size, LocalsOK
  <2>6. RowsNeverOverstate'
    BY <1>6, <1>r
       DEF InsertSnapshot, Return, IInv, TypeOK, TablesOK, HandlersOK, tables, passes,
           RowsNeverOverstate, Covers, OnlyMakerKnows, Allocating, RequestsCovered,
           IdsMinted, Row, Growing, SetLv, Size, LocalsOK
  <2> QED
    BY <2>1, <2>2, <2>3, <2>4, <2>5, <2>6
<1>7. ASSUME Lvextend(t)
      PROVE  Parts'
  <2>1. GoldSpared'
    BY <1>7 DEF Lvextend, Goto, GoldSpared, IInv, passes
  <2>2. GoldDefaultKept'
    BY <1>7, <1>r DEF Lvextend, Goto, GoldDefaultKept, IInv, TypeOK, SetLv, Size
  <2>3. IdsMinted'
    BY <1>7, <1>r
       DEF Lvextend, Goto, IInv, TypeOK, TablesOK, HandlersOK, tables, passes,
           IdsMinted, OnlyMakerKnows, Allocating, RequestsCovered, Covers, Row,
           Growing, SetLv, Size, LocalsOK
  <2>4. OnlyMakerKnows'
    BY <1>7, <1>r
       DEF Lvextend, Goto, IInv, TypeOK, TablesOK, HandlersOK, tables, passes,
           OnlyMakerKnows, Allocating, RequestsCovered, Covers, IdsMinted, Row,
           Growing, SetLv, Size, LocalsOK
  <2>5. RequestsCovered'
    BY <1>7, <1>r
       DEF Lvextend, Goto, IInv, TypeOK, TablesOK, HandlersOK, tables, passes,
           RequestsCovered, OnlyMakerKnows, Allocating, Growing, Covers, IdsMinted,
           Row, SetLv, Size, LocalsOK
  <2>6. RowsNeverOverstate'
    BY <1>7, <1>r
       DEF Lvextend, Goto, IInv, TypeOK, TablesOK, HandlersOK, tables, passes,
           RowsNeverOverstate, Covers, OnlyMakerKnows, Allocating, RequestsCovered,
           IdsMinted, Row, Growing, SetLv, Size, LocalsOK
  <2> QED
    BY <2>1, <2>2, <2>3, <2>4, <2>5, <2>6
<1>8. ASSUME UpdateSize(t)
      PROVE  Parts'
  <2>1. GoldSpared'
    BY <1>8 DEF UpdateSize, Return, GoldSpared, IInv, passes
  <2>2. GoldDefaultKept'
    BY <1>8, <1>r DEF UpdateSize, Return, GoldDefaultKept, IInv, tables, passes
  <2>3. IdsMinted'
    BY <1>8, <1>r
       DEF UpdateSize, Return, IInv, TypeOK, TablesOK, HandlersOK, tables, passes,
           IdsMinted, OnlyMakerKnows, Allocating, RequestsCovered, Covers, Row,
           Growing, SetLv, Size, LocalsOK
  <2>4. OnlyMakerKnows'
    BY <1>8, <1>r
       DEF UpdateSize, Return, IInv, TypeOK, TablesOK, HandlersOK, tables, passes,
           OnlyMakerKnows, Allocating, RequestsCovered, Covers, IdsMinted, Row,
           Growing, SetLv, Size, LocalsOK
  <2>5. RequestsCovered'
    BY <1>8, <1>r
       DEF UpdateSize, Return, IInv, TypeOK, TablesOK, HandlersOK, tables, passes,
           RequestsCovered, OnlyMakerKnows, Allocating, Growing, Covers, IdsMinted,
           Row, SetLv, Size, LocalsOK
  <2>6. RowsNeverOverstate'
    BY <1>8, <1>r
       DEF UpdateSize, Return, IInv, TypeOK, TablesOK, HandlersOK, tables, passes,
           RowsNeverOverstate, Covers, OnlyMakerKnows, Allocating, RequestsCovered,
           IdsMinted, Row, Growing, SetLv, Size, LocalsOK
  <2> QED
    BY <2>1, <2>2, <2>3, <2>4, <2>5, <2>6
<1>9. ASSUME CheckAttached(t)
      PROVE  Parts'
  <2>1. GoldSpared'
    BY <1>9 DEF CheckAttached, Goto, Return, GoldSpared, IInv, passes
  <2>2. GoldDefaultKept'
    BY <1>9, <1>r DEF CheckAttached, Goto, Return, GoldDefaultKept, IInv, tables, passes
  <2>3. IdsMinted'
    BY <1>9, <1>r
       DEF CheckAttached, Goto, Return, IInv, TypeOK, TablesOK, HandlersOK, tables,
           passes, IdsMinted
  <2>4. OnlyMakerKnows'
    BY <1>9, <1>r
       DEF CheckAttached, Goto, Return, IInv, TypeOK, TablesOK, HandlersOK, tables,
           passes, OnlyMakerKnows, Allocating
  <2>5. RequestsCovered'
    BY <1>9, <1>r
       DEF CheckAttached, Goto, Return, IInv, TypeOK, TablesOK, HandlersOK, tables,
           passes, RequestsCovered, OnlyMakerKnows, Allocating, Growing, Covers
  <2>6. RowsNeverOverstate'
    BY <1>9, <1>r
       DEF CheckAttached, Goto, Return, IInv, TypeOK, TablesOK, HandlersOK, tables,
           passes, RowsNeverOverstate, Covers
  <2> QED
    BY <2>1, <2>2, <2>3, <2>4, <2>5, <2>6
<1>10. ASSUME Lvremove(t)
      PROVE  Parts'
  <2>1. GoldSpared'
    BY <1>10 DEF Lvremove, Goto, GoldSpared, IInv, passes
  <2>2. /\ GoldDefaultKept'
        /\ \A m \in Node, y \in Lv, s \in 0..MaxSize : Covers(m, y, s) => Covers(m, y, s)'
    BY <1>10, <1>r, RemoveInv DEF Lvremove, Goto, IInv, GoldDefaultKept, Covers
  <2>3. IdsMinted'
    BY <1>10 DEF Lvremove, Goto, IInv, IdsMinted, TypeOK, HandlersOK, tables
  <2>4. OnlyMakerKnows'
    BY <1>10
       DEF Lvremove, Goto, IInv, OnlyMakerKnows, Allocating, TypeOK, HandlersOK, tables
  <2>5. RequestsCovered'
    BY <1>10, <1>r, <2>2
       DEF Lvremove, Goto, IInv, RequestsCovered, Growing, LocalsOK, TypeOK,
           HandlersOK, tables
  <2>6. RowsNeverOverstate'
    BY <1>10, <2>2, CoverageKept DEF Lvremove, IInv, tables
  <2> QED
    BY <2>1, <2>2, <2>3, <2>4, <2>5, <2>6
<1>11. ASSUME DropRow(t)
      PROVE  Parts'
  <2>1. GoldSpared'
    BY <1>11 DEF DropRow, Return, GoldSpared, IInv, passes
  <2>2. GoldDefaultKept'
    BY <1>11, <1>r DEF DropRow, Return, GoldDefaultKept, IInv, tables, passes
  <2>3. IdsMinted'
    BY <1>11, <1>r
       DEF DropRow, Return, IInv, TypeOK, TablesOK, HandlersOK, tables, passes,
           IdsMinted, OnlyMakerKnows, Allocating, RequestsCovered, Covers, Row,
           Growing, SetLv, Size, LocalsOK
  <2>4. OnlyMakerKnows'
    BY <1>11, <1>r
       DEF DropRow, Return, IInv, TypeOK, TablesOK, HandlersOK, tables, passes,
           OnlyMakerKnows, Allocating, RequestsCovered, Covers, IdsMinted, Row,
           Growing, SetLv, Size, LocalsOK
  <2>5. RequestsCovered'
    BY <1>11, <1>r
       DEF DropRow, Return, IInv, TypeOK, TablesOK, HandlersOK, tables, passes,
           RequestsCovered, OnlyMakerKnows, Allocating, Growing, Covers, IdsMinted,
           Row, SetLv, Size, LocalsOK
  <2>6. RowsNeverOverstate'
    <3>1. lv' = lv
      BY <1>11 DEF DropRow
    <3>2. \A v \in Volume : volumes'[v] \in {volumes[v], None}
      BY <1>11 DEF DropRow, IInv, TypeOK, TablesOK
    <3>3. \A s \in SnapshotId : snapshots'[s] \in {snapshots[s], None}
      BY <1>11 DEF DropRow, IInv, TypeOK, TablesOK
    <3> QED
      BY <3>1, <3>2, <3>3 DEF IInv, RowsNeverOverstate, Covers
  <2> QED
    BY <2>1, <2>2, <2>3, <2>4, <2>5, <2>6
<1>12. ASSUME InsertVm(t)
      PROVE  Parts'
  <2>1. GoldSpared'
    BY <1>12 DEF InsertVm, Return, GoldSpared, IInv, passes
  <2>2. GoldDefaultKept'
    BY <1>12, <1>r DEF InsertVm, Return, GoldDefaultKept, IInv, tables, passes
  <2>3. IdsMinted'
    BY <1>12, <1>r
       DEF InsertVm, Return, IInv, TypeOK, TablesOK, HandlersOK, tables, passes,
           IdsMinted
  <2>4. OnlyMakerKnows'
    BY <1>12, <1>r
       DEF InsertVm, Return, IInv, TypeOK, TablesOK, HandlersOK, tables, passes,
           OnlyMakerKnows, Allocating
  <2>5. RequestsCovered'
    BY <1>12, <1>r
       DEF InsertVm, Return, IInv, TypeOK, TablesOK, HandlersOK, tables, passes,
           RequestsCovered, OnlyMakerKnows, Allocating, Growing, Covers
  <2>6. RowsNeverOverstate'
    BY <1>12, <1>r
       DEF InsertVm, Return, IInv, TypeOK, TablesOK, HandlersOK, tables, passes,
           RowsNeverOverstate, Covers
  <2> QED
    BY <2>1, <2>2, <2>3, <2>4, <2>5, <2>6
<1>13. ASSUME Raise(t)
      PROVE  Parts'
  <2>1. GoldSpared'
    BY <1>13 DEF Raise, Return, GoldSpared, IInv, passes
  <2>2. GoldDefaultKept'
    BY <1>13, <1>r DEF Raise, Return, GoldDefaultKept, IInv, tables, passes
  <2>3. IdsMinted'
    BY <1>13, <1>r
       DEF Raise, Return, IInv, TypeOK, TablesOK, HandlersOK, tables, passes, IdsMinted
  <2>4. OnlyMakerKnows'
    BY <1>13, <1>r
       DEF Raise, Return, IInv, TypeOK, TablesOK, HandlersOK, tables, passes,
           OnlyMakerKnows, Allocating
  <2>5. RequestsCovered'
    BY <1>13, <1>r
       DEF Raise, Return, IInv, TypeOK, TablesOK, HandlersOK, tables, passes,
           RequestsCovered, OnlyMakerKnows, Allocating, Growing, Covers
  <2>6. RowsNeverOverstate'
    BY <1>13, <1>r
       DEF Raise, Return, IInv, TypeOK, TablesOK, HandlersOK, tables, passes,
           RowsNeverOverstate, Covers
  <2> QED
    BY <2>1, <2>2, <2>3, <2>4, <2>5, <2>6
<1> QED
  BY <1>1, <1>2, <1>3, <1>4, <1>5, <1>6, <1>7, <1>8, <1>9, <1>10, <1>11, <1>12, <1>13

\* The steps of a pass keep the invariant: all they change is the pass itself
\* and the presence of LVs other than the default golden.
LEMMA PassInv ==
  ASSUME IInv, TypeOK', NEW p \in Pass, Reconcile(p)
  PROVE  Parts'
<1>1. UNCHANGED others
  BY
     DEF Reconcile, ReadVolumes, ListLvs, Reap, SkipReap, ReadSnapshots, FinishPass,
         AbortPass, EndPass
<1>2. IdsMinted' /\ OnlyMakerKnows'
  BY <1>1 DEF IInv, IdsMinted, OnlyMakerKnows, others, tables
<1>3. /\ GoldDefaultKept'
      /\ \A m \in Node, y \in Lv, s \in 0..MaxSize : Covers(m, y, s) => Covers(m, y, s)'
  <2>1. CASE lv' = lv
    BY <2>1 DEF IInv, GoldDefaultKept, Covers
  <2>2. ASSUME NEW x \in Lv, Reap(p, x)
        PROVE  x # GoldDefault /\ scan[p].node \in Node /\ SetLv(scan[p].node, x, 0)
    BY <2>2 DEF Reap, IInv, GoldSpared, TypeOK, PassesOK, Scan
  <2> QED
    BY <2>1, <2>2, RemoveInv
       DEF Reconcile, ReadVolumes, ListLvs, SkipReap, ReadSnapshots, FinishPass, AbortPass, EndPass
<1>4. RowsNeverOverstate'
  BY <1>1, <1>3, CoverageKept DEF IInv, others, tables
<1>5. RequestsCovered'
  BY <1>1, <1>3, Locals DEF IInv, RequestsCovered, Growing, LocalsOK, others, tables
<1>6. GoldSpared'
  <2>1. ASSUME NEW q \in Pass, q # p
        PROVE  ppc'[q] = ppc[q] /\ scan'[q] = scan[q]
    BY <2>1
       DEF Reconcile, ReadVolumes, ListLvs, Reap, SkipReap, ReadSnapshots, FinishPass,
                AbortPass, EndPass, IInv, TypeOK, PassesOK
  <2>2. ASSUME scan'[p] # None
        PROVE  /\ ppc'[p] = "reap" => GoldDefault \notin scan'[p].names
               /\ ppc'[p] = "list" /\ scan'[p].kind = "snap" => GoldDefault \in scan'[p].names
    <3> USE DEF IInv, TypeOK, PassesOK, GoldSpared
    <3>1. ASSUME NEW n \in Node, ReadVolumes(p, n) PROVE ppc'[p] = "list" /\ scan'[p].kind = "data"
      BY <3>1 DEF ReadVolumes
    <3>2. CASE ListLvs(p)
      <4>1. scan[p] \in Scan
        BY <3>2 DEF ListLvs
      <4> QED
        BY <3>2, <4>1, IdAssumption DEF ListLvs, Prefixed, Scan
    <3>3. ASSUME NEW x \in Lv, Reap(p, x) \/ SkipReap(p, x)
          PROVE  ppc'[p] = "reap" /\ scan'[p].names \subseteq scan[p].names /\ scan[p] # None
                /\ ppc[p] = "reap"
      <4>1. scan[p] \in Scan
        BY <3>3 DEF Reap, SkipReap
      <4> QED
        BY <3>3, <4>1 DEF Reap, SkipReap, Scan
    <3>4. CASE ReadSnapshots(p)
      <4>1. scan[p] \in Scan
        BY <3>4 DEF ReadSnapshots
      <4> QED
        BY <3>4, <4>1 DEF ReadSnapshots, Scan
    <3>5. CASE FinishPass(p) \/ AbortPass(p)
      BY <2>2, <3>5 DEF FinishPass, AbortPass, EndPass
    <3> QED
      BY <3>1, <3>2, <3>3, <3>4, <3>5 DEF Reconcile
  <2> QED
    BY <2>1, <2>2 DEF IInv, GoldSpared
<1> QED
  BY <1>2, <1>3, <1>4, <1>5, <1>6

-----------------------------------------------------------------------------
\* The tables start empty, every node with its default golden.
LEMMA InitInv == Init => IInv
<1> SUFFICES ASSUME Init PROVE IInv
  OBVIOUS
<1> USE DEF Init
<1>1. TypeOK
  BY DEF TypeOK, TablesOK, HandlersOK, PassesOK, LocalsOK
<1>2. GoldSpared /\ GoldDefaultKept /\ IdsMinted /\ OnlyMakerKnows
  BY DEF GoldSpared, GoldDefaultKept, IdsMinted, OnlyMakerKnows, Allocating, Lv
<1>3. RequestsCovered /\ RowsNeverOverstate
  BY DEF RequestsCovered, RowsNeverOverstate, Growing
<1> QED
  BY <1>1, <1>2, <1>3 DEF IInv

\* Every step of every handler and pass keeps the invariant.
LEMMA NextInv == IInv /\ [Next]_vars => IInv'
<1> SUFFICES ASSUME IInv, [Next]_vars PROVE IInv'
  OBVIOUS
<1>0. TypeOK'
  BY TypeInvariant DEF IInv
<1>1. ASSUME NEW t \in Thread, Handler(t) PROVE IInv'
  BY <1>0, <1>1, BeginInv, StepInv DEF Handler, IInv
<1>2. ASSUME NEW m \in Vm, DropVm(m) PROVE IInv'
  BY <1>0, <1>2 DEF DropVm, IInv, GoldSpared, GoldDefaultKept, IdsMinted, OnlyMakerKnows,
                    RequestsCovered, RowsNeverOverstate, Covers, passes
<1>3. ASSUME NEW p \in Pass, Reconcile(p) PROVE IInv'
  BY <1>0, <1>3, PassInv DEF IInv
<1>4. CASE UNCHANGED vars
  BY <1>0, <1>4 DEF vars, IInv, GoldSpared, GoldDefaultKept, IdsMinted, OnlyMakerKnows,
                    RequestsCovered, RowsNeverOverstate, Covers
<1> QED
  BY <1>1, <1>2, <1>3, <1>4 DEF Next

\* The inductive invariant holds in every reachable state.
THEOREM InductiveInvariant == Spec => []IInv
<1> QED
  BY InitInv, NextInv, PTL DEF Spec

\* For any number of nodes, volumes, handlers and overlapping passes: every
\* variable keeps its type.
THEOREM TypeCorrect == Spec => []TypeOK
<1>1. IInv => TypeOK
  BY DEF IInv
<1> QED
  BY <1>1, InductiveInvariant, PTL

\* The size a volume or snapshot row reports (volumes.py:_resize_local,
\* snapshots.py:_create_snapshot_local) is never more than the disk holds.
THEOREM SizesCorrect == Spec => []RowsNeverOverstate
<1>1. IInv => RowsNeverOverstate
  BY DEF IInv
<1> QED
  BY <1>1, InductiveInvariant, PTL

\* snapshots_pass.py keeps gold-default, and nothing else removes it.
THEOREM GoldCorrect == Spec => []GoldDefaultKept
<1>1. IInv => GoldDefaultKept
  BY DEF IInv
<1> QED
  BY <1>1, InductiveInvariant, PTL

\* A row comes into being only through the request that minted its id; a
\* resize (PATCH) or delete that outlives the row never brings it back.
THEOREM NoResurrection == Spec => DeletedStaysDeleted
<1>1. IInv /\ [Next]_vars => [NewRowsOnly]_vars
  <2> SUFFICES ASSUME IInv, Next PROVE NewRowsOnly
    OBVIOUS
  <2>0. \/ UNCHANGED <<volumes, snapshots>>
        \/ \E t \in Thread : InsertVolume(t)
        \/ \E t \in Thread : InsertSnapshot(t)
        \/ \E t \in Thread : UpdateSize(t)
        \/ \E t \in Thread : DropRow(t)
    <3>1. ASSUME NEW t \in Thread, Handler(t)
          PROVE  \/ UNCHANGED <<volumes, snapshots>>
                 \/ InsertVolume(t) \/ InsertSnapshot(t) \/ UpdateSize(t) \/ DropRow(t)
      BY <3>1
         DEF Handler, CreateVolume, CloneVolume, SnapshotVolume, SnapshotRoot,
             PromoteSnapshot, Resize, DeleteVolume, DeleteSnapshot, AttachVolume,
             Lvcreate, Mkfs, LvSnapshot, LvSnapshotRoot, Lvextend, CheckAttached,
             Lvremove, InsertVm, Raise, tables
    <3>2. ASSUME NEW m \in Vm, DropVm(m) PROVE UNCHANGED <<volumes, snapshots>>
      BY <3>2 DEF DropVm
    <3>3. ASSUME NEW p \in Pass, Reconcile(p) PROVE UNCHANGED <<volumes, snapshots>>
      BY <3>3
         DEF Reconcile, ReadVolumes, ListLvs, Reap, SkipReap, ReadSnapshots,
             FinishPass, AbortPass, EndPass, others, tables
    <3> QED
      BY <3>1, <3>2, <3>3 DEF Next
  <2>1. ASSUME NEW t \in Thread, InsertVolume(t) PROVE NewRowsOnly
    <3>1. snapshots' = snapshots
      BY <2>1 DEF InsertVolume
    <3>2. ASSUME NEW v \in Volume, volumes[v] = None, volumes'[v] # None
          PROVE  pc[t] = "insert" /\ req[t].id = v
      BY <2>1, <3>2 DEF InsertVolume, IInv, TypeOK, TablesOK
    <3>3. \A u \in Thread : pc[u] \in Removing \cup Growing => req[u].id # req[t].id
      BY <2>1 DEF InsertVolume, IInv, OnlyMakerKnows, Allocating, Removing, Growing
    <3> QED
      BY <3>1, <3>2, <3>3 DEF NewRowsOnly
  <2>2. ASSUME NEW t \in Thread, InsertSnapshot(t) PROVE NewRowsOnly
    <3>1. volumes' = volumes
      BY <2>2 DEF InsertSnapshot
    <3>2. ASSUME NEW s \in SnapshotId, snapshots[s] = None, snapshots'[s] # None
          PROVE  pc[t] = "insert" /\ req[t].id = s
      BY <2>2, <3>2 DEF InsertSnapshot, Return, IInv, TypeOK, TablesOK
    <3>3. \A u \in Thread : pc[u] \in Removing => req[u].id # req[t].id
      BY <2>2 DEF InsertSnapshot, Return, IInv, OnlyMakerKnows, Allocating, Removing
    <3> QED
      BY <3>1, <3>2, <3>3 DEF NewRowsOnly
  <2>3. ASSUME NEW t \in Thread, UpdateSize(t) \/ DropRow(t) PROVE NewRowsOnly
    <3>1. \A v \in Volume : volumes[v] = None => volumes'[v] = None
      BY <2>3 DEF UpdateSize, DropRow, IInv, TypeOK, TablesOK
    <3>2. \A s \in SnapshotId : snapshots[s] = None => snapshots'[s] = None
      BY <2>3 DEF UpdateSize, DropRow, IInv, TypeOK, TablesOK
    <3> QED
      BY <3>1, <3>2 DEF NewRowsOnly
  <2> QED
    BY <2>0, <2>1, <2>2, <2>3 DEF NewRowsOnly
<1> QED
  BY <1>1, InductiveInvariant, PTL DEF Spec, DeletedStaysDeleted
=============================================================================
