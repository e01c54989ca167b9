------------------------- MODULE VmLifecycle_proofs -------------------------
(* Proofs about VmLifecycle, for any number of VMs, handlers and passes.   *)
EXTENDS VmLifecycle, TLAPS

USE FaultsAssumption, TtlAssumption, MaxIpsAssumption, VmAssumption, ProcAssumption

-----------------------------------------------------------------------------
(* Every step but Create that begins a request, and every end of a pass.   *)

Asked(t, v) == \/ Request("delete", t, v, "deleteIp", "delete")
               \/ Request("stop", t, v, "signal", "stop")
               \/ Request("reboot", t, v, "signal", "reboot")
               \/ Request("start", t, v, "spawn", None)
               \/ Request("attach", t, v, "insertIp", "recreate")
               \/ Request("detach", t, v, "deleteIp", "recreate")

LEMMA Requests ==
  ASSUME NEW t, Handler(t)
  PROVE  \/ \E v \in Vm : \E withIp \in BOOLEAN : Create(t, v, withIp)
         \/ \E v \in Vm : Asked(t, v)
         \/ Raise(t)
BY DEF Handler, Asked, Delete, Stop, Reboot, Start, Attach, Detach

LEMMA PassEnds ==
  ASSUME NEW p
  PROVE  FinishPass(p) \/ AbortPass(p) => EndPass(p)
BY DEF FinishPass, AbortPass

-----------------------------------------------------------------------------
(* Types.                                                                  *)

\* Every variable keeps its type.
LEMMA NextTypes ==
  ASSUME TypeOK, [Next]_vars
  PROVE  TypeOK'
<1> USE DEF TypeOK, HasRow, Proc, Goals, Status, Down, Up, Nics, Tables, Passes, tables, disk, nets, host,
     scan
<1>1. ASSUME NEW p \in Proc, InsertIp(p)
       PROVE  TypeOK'
  BY <1>1 DEF InsertIp, Goto
<1>2. ASSUME NEW p \in Proc, DeleteIp(p)
       PROVE  TypeOK'
  BY <1>2 DEF DeleteIp, Goto
<1>3. ASSUME NEW p \in Proc, Reread(p)
       PROVE  TypeOK'
  <2>1. CASE HasRow(job[p])
    BY <1>3, <2>1 DEF Reread, Goto
  <2>2. CASE ~HasRow(job[p])
    <3>1. Leave(p, "reread", "idle") /\ UNCHANGED <<tables, host>>
      BY <1>3, <2>2 DEF Reread
    <3> QED
      BY <3>1 DEF Leave
  <2> QED
    BY <2>1, <2>2
<1>4. ASSUME NEW p \in Proc, ReadSpec(p)
       PROVE  TypeOK'
  <2>1. (pubip[job[p]] > 0) \in BOOLEAN
    OBVIOUS
  <2> QED
    BY <1>4, <2>1 DEF ReadSpec
<1>5. ASSUME NEW p \in Proc, Mkdir(p)
       PROVE  TypeOK'
  BY <1>5 DEF Mkdir, Goto
<1>6. ASSUME NEW p \in Proc, Wipe(p)
       PROVE  TypeOK'
  BY <1>6 DEF Wipe, RemoveRootfs, Goto
<1>7. ASSUME NEW p \in Proc, Clone(p)
       PROVE  TypeOK'
  BY <1>7 DEF Clone, Goto
<1>8. ASSUME NEW p \in Proc, Inject(p)
       PROVE  TypeOK'
  BY <1>8 DEF Inject, Goto
<1>9. ASSUME NEW p \in Proc, Network(p)
       PROVE  TypeOK'
  BY <1>9 DEF Network, Goto
<1>10. ASSUME NEW p \in Proc, Build(p)
       PROVE  TypeOK'
  BY <1>10 DEF Build, Nic, Goto
<1>11. ASSUME NEW p \in Proc, Spawn(p)
       PROVE  TypeOK'
  BY <1>11 DEF Spawn, Goto
<1>12. ASSUME NEW p \in Proc, SetRunning(p)
       PROVE  TypeOK'
  BY <1>12 DEF SetRunning, SetStatus, Leave
<1>13. ASSUME NEW p \in Proc, CheckDir(p)
       PROVE  TypeOK'
  BY <1>13 DEF CheckDir, Goto
<1>14. ASSUME NEW p \in Proc, Signal(p)
       PROVE  TypeOK'
  BY <1>14 DEF Signal, AfterKill, Goto
<1>15. ASSUME NEW p \in Proc, Unlink(p)
       PROVE  TypeOK'
  BY <1>15 DEF Unlink, Forget, AfterKill, Goto
<1>16. ASSUME NEW p \in Proc, SetStopped(p)
       PROVE  TypeOK'
  <2>1. CASE goal[p] = "reboot" /\ HasRow(job[p])
    BY <1>16, <2>1 DEF SetStopped, SetStatus, Goto
  <2>2. CASE ~(goal[p] = "reboot" /\ HasRow(job[p]))
    <3>1. Leave(p, "setStopped", "idle") /\ SetStatus(job[p], "stopped") /\ UNCHANGED <<pubip, host>>
      BY <1>16, <2>2 DEF SetStopped
    <3> QED
      BY <3>1 DEF SetStatus, Leave
  <2> QED
    BY <2>1, <2>2
<1>17. ASSUME NEW p \in Proc, Netdown(p)
       PROVE  TypeOK'
  BY <1>17 DEF Netdown, Goto
<1>18. ASSUME NEW p \in Proc, Rmtree(p)
       PROVE  TypeOK'
  BY <1>18 DEF Rmtree, Forget, Goto
<1>19. ASSUME NEW p \in Proc, Lvremove(p)
       PROVE  TypeOK'
  <2>1. CASE goal[p] = "reap" /\ Leave(p, "lvremove", "orphans")
    BY <1>19, <2>1 DEF Lvremove, RemoveRootfs, Leave
  <2>2. CASE goal[p] = "recreate" /\ Goto(p, "lvremove", "spec")
    BY <1>19, <2>2 DEF Lvremove, RemoveRootfs, Goto
  <2>3. CASE goal[p] = "delete" /\ Goto(p, "lvremove", "dropRow")
    BY <1>19, <2>3 DEF Lvremove, RemoveRootfs, Goto
  <2> QED
    BY <1>19, <2>1, <2>2, <2>3 DEF Lvremove
<1>20. ASSUME NEW p \in Proc, DropRow(p)
       PROVE  TypeOK'
  BY <1>20 DEF DropRow, Leave
<1>21. ASSUME NEW p \in Thread, NEW v \in Vm, NEW withIp \in BOOLEAN, Create(p, v, withIp)
       PROVE  TypeOK'
  BY <1>21 DEF Create, Begin
<1>22. ASSUME NEW p \in Thread, NEW v \in Vm, Asked(p, v)
       PROVE  TypeOK'
  BY <1>22 DEF Asked, Request, Begin
<1>23. ASSUME NEW p \in Thread, Raise(p)
       PROVE  TypeOK'
  BY <1>23 DEF Raise, MayRaise, Leave
<1>24. ASSUME NEW p \in Pass, ReadExpired(p)
       PROVE  TypeOK'
  BY <1>24 DEF ReadExpired, ScanTo
<1>25. ASSUME NEW p \in Pass, NEW v \in Vm, Expire(p, v)
       PROVE  TypeOK'
  BY <1>25 DEF Expire, TakeUp
<1>26. ASSUME NEW p \in Pass, ReadRows(p)
       PROVE  TypeOK'
  BY <1>26 DEF ReadRows, ScanTo
<1>27. ASSUME NEW p \in Pass, ListDirs(p)
       PROVE  TypeOK'
  BY <1>27 DEF ListDirs, ScanTo
<1>28. ASSUME NEW p \in Pass, NEW v \in Vm, ReapOrphan(p, v)
       PROVE  TypeOK'
  BY <1>28 DEF ReapOrphan, TakeUp
<1>29. ASSUME NEW p \in Pass, ListRootfs(p)
       PROVE  TypeOK'
  BY <1>29 DEF ListRootfs, ScanTo
<1>30. ASSUME NEW p \in Pass, NEW v \in Vm, Prune(p, v)
       PROVE  TypeOK'
  <2>1. CASE UNCHANGED disk
    BY <1>30, <2>1 DEF Prune, ScanTo
  <2>2. CASE /\ rootfs' = [rootfs EXCEPT ![v] = "none"]
             /\ seed' = [seed EXCEPT ![v] = "none"]
    BY <1>30, <2>2 DEF Prune, ScanTo
  <2> QED
    BY <1>30, <2>1, <2>2 DEF Prune, RemoveRootfs
<1>31. ASSUME NEW p \in Pass, EndPass(p)
       PROVE  TypeOK'
  BY <1>31 DEF EndPass
<1>32. ASSUME NEW v \in Vm, Exit(v)
       PROVE  TypeOK'
  BY <1>32 DEF Exit
<1>33. CASE Restart
  BY <1>33 DEF Restart
<1>34. CASE UNCHANGED vars
  BY <1>34 DEF vars
<1>35. ASSUME NEW p \in Proc, Step(p)
       PROVE  TypeOK'
  BY <1>35, <1>1, <1>2, <1>3, <1>4, <1>5, <1>6, <1>7, <1>8, <1>9, <1>10, <1>11, <1>12, <1>13, <1>14,
     <1>15, <1>16, <1>17, <1>18, <1>19, <1>20 DEF Step
<1>36. ASSUME NEW p \in Thread, Handler(p)
       PROVE  TypeOK'
  <2>1. CASE \E v \in Vm : \E withIp \in BOOLEAN : Create(p, v, withIp)
    BY <2>1, <1>21
  <2>2. CASE \E v \in Vm : Asked(p, v)
    BY <2>2, <1>22
  <2>3. CASE Raise(p)
    BY <2>3, <1>23
  <2> QED
    BY <1>36, <2>1, <2>2, <2>3, Requests
<1>37. ASSUME NEW p \in Pass, Reconcile(p)
       PROVE  TypeOK'
  BY <1>37, <1>24, <1>25, <1>26, <1>27, <1>28, <1>29, <1>30, <1>31, PassEnds DEF Reconcile
<1> QED
  BY <1>35, <1>36, <1>37, <1>32, <1>33, <1>34 DEF Next

-----------------------------------------------------------------------------
(* Which steps a pass takes, and which VMs have a directory.               *)

\* A pass only tears down; only what a handler has begun to create has a directory.
LEMMA NextStepsFit ==
  ASSUME TypeOK, TypeOK', StepsFit, [Next]_vars
  PROVE  StepsFit'
<1> USE DEF TypeOK, StepsFit, HasRow, Proc, Goals, Status, Down, Up, Nics, Tables, Passes, tables,
     disk, nets, host, scan
<1>1. ASSUME NEW p \in Proc, InsertIp(p)
       PROVE  StepsFit'
  BY <1>1 DEF InsertIp, Goto
<1>2. ASSUME NEW p \in Proc, DeleteIp(p)
       PROVE  StepsFit'
  BY <1>2 DEF DeleteIp, Goto
<1>3. ASSUME NEW p \in Proc, Reread(p)
       PROVE  StepsFit'
  <2>1. CASE HasRow(job[p])
    BY <1>3, <2>1 DEF Reread, Goto
  <2>2. CASE ~HasRow(job[p])
    <3>1. Leave(p, "reread", "idle") /\ UNCHANGED <<tables, host>>
      BY <1>3, <2>2 DEF Reread
    <3> QED
      BY <3>1 DEF Leave
  <2> QED
    BY <2>1, <2>2
<1>4. ASSUME NEW p \in Proc, ReadSpec(p)
       PROVE  StepsFit'
  <2>1. (pubip[job[p]] > 0) \in BOOLEAN
    OBVIOUS
  <2> QED
    BY <1>4, <2>1 DEF ReadSpec
<1>5. ASSUME NEW p \in Proc, Mkdir(p)
       PROVE  StepsFit'
  BY <1>5 DEF Mkdir, Goto
<1>6. ASSUME NEW p \in Proc, Wipe(p)
       PROVE  StepsFit'
  BY <1>6 DEF Wipe, RemoveRootfs, Goto
<1>7. ASSUME NEW p \in Proc, Clone(p)
       PROVE  StepsFit'
  BY <1>7 DEF Clone, Goto
<1>8. ASSUME NEW p \in Proc, Inject(p)
       PROVE  StepsFit'
  BY <1>8 DEF Inject, Goto
<1>9. ASSUME NEW p \in Proc, Network(p)
       PROVE  StepsFit'
  BY <1>9 DEF Network, Goto
<1>10. ASSUME NEW p \in Proc, Build(p)
       PROVE  StepsFit'
  BY <1>10 DEF Build, Nic, Goto
<1>11. ASSUME NEW p \in Proc, Spawn(p)
       PROVE  StepsFit'
  BY <1>11 DEF Spawn, Goto
<1>12. ASSUME NEW p \in Proc, SetRunning(p)
       PROVE  StepsFit'
  BY <1>12 DEF SetRunning, SetStatus, Leave
<1>13. ASSUME NEW p \in Proc, CheckDir(p)
       PROVE  StepsFit'
  BY <1>13 DEF CheckDir, Goto
<1>14. ASSUME NEW p \in Proc, Signal(p)
       PROVE  StepsFit'
  BY <1>14 DEF Signal, AfterKill, Goto
<1>15. ASSUME NEW p \in Proc, Unlink(p)
       PROVE  StepsFit'
  BY <1>15 DEF Unlink, Forget, AfterKill, Goto
<1>16. ASSUME NEW p \in Proc, SetStopped(p)
       PROVE  StepsFit'
  <2>1. CASE goal[p] = "reboot" /\ HasRow(job[p])
    BY <1>16, <2>1 DEF SetStopped, SetStatus, Goto
  <2>2. CASE ~(goal[p] = "reboot" /\ HasRow(job[p]))
    <3>1. Leave(p, "setStopped", "idle") /\ SetStatus(job[p], "stopped") /\ UNCHANGED <<pubip, host>>
      BY <1>16, <2>2 DEF SetStopped
    <3> QED
      BY <3>1 DEF SetStatus, Leave
  <2> QED
    BY <2>1, <2>2
<1>17. ASSUME NEW p \in Proc, Netdown(p)
       PROVE  StepsFit'
  BY <1>17 DEF Netdown, Goto
<1>18. ASSUME NEW p \in Proc, Rmtree(p)
       PROVE  StepsFit'
  BY <1>18 DEF Rmtree, Forget, Goto
<1>19. ASSUME NEW p \in Proc, Lvremove(p)
       PROVE  StepsFit'
  <2>1. CASE goal[p] = "reap" /\ Leave(p, "lvremove", "orphans")
    BY <1>19, <2>1 DEF Lvremove, RemoveRootfs, Leave
  <2>2. CASE goal[p] = "recreate" /\ Goto(p, "lvremove", "spec")
    BY <1>19, <2>2 DEF Lvremove, RemoveRootfs, Goto
  <2>3. CASE goal[p] = "delete" /\ Goto(p, "lvremove", "dropRow")
    BY <1>19, <2>3 DEF Lvremove, RemoveRootfs, Goto
  <2> QED
    BY <1>19, <2>1, <2>2, <2>3 DEF Lvremove
<1>20. ASSUME NEW p \in Proc, DropRow(p)
       PROVE  StepsFit'
  BY <1>20 DEF DropRow, Leave
<1>21. ASSUME NEW p \in Thread, NEW v \in Vm, NEW withIp \in BOOLEAN, Create(p, v, withIp)
       PROVE  StepsFit'
  BY <1>21 DEF Create, Begin
<1>22. ASSUME NEW p \in Thread, NEW v \in Vm, Asked(p, v)
       PROVE  StepsFit'
  <2>1. PICK step \in {"deleteIp", "signal", "spawn", "insertIp"},
             then \in {"delete", "stop", "reboot", None, "recreate"} :
          \E ask : Request(ask, p, v, step, then)
    BY <1>22 DEF Asked
  <2>2. /\ HasRow(v)
        /\ pc'   = [pc EXCEPT ![p] = step]
        /\ job'  = [job EXCEPT ![p] = v]
        /\ goal' = [goal EXCEPT ![p] = then]
        /\ UNCHANGED <<tables, host, scan>>
    BY <2>1 DEF Request, Begin
  <2> QED
    BY <2>1, <2>2
<1>23. ASSUME NEW p \in Thread, Raise(p)
       PROVE  StepsFit'
  BY <1>23 DEF Raise, MayRaise, Leave
<1>24. ASSUME NEW p \in Pass, ReadExpired(p)
       PROVE  StepsFit'
  BY <1>24 DEF ReadExpired, ScanTo
<1>25. ASSUME NEW p \in Pass, NEW v \in Vm, Expire(p, v)
       PROVE  StepsFit'
  BY <1>25 DEF Expire, TakeUp
<1>26. ASSUME NEW p \in Pass, ReadRows(p)
       PROVE  StepsFit'
  BY <1>26 DEF ReadRows, ScanTo
<1>27. ASSUME NEW p \in Pass, ListDirs(p)
       PROVE  StepsFit'
  BY <1>27 DEF ListDirs, ScanTo
<1>28. ASSUME NEW p \in Pass, NEW v \in Vm, ReapOrphan(p, v)
       PROVE  StepsFit'
  BY <1>28 DEF ReapOrphan, TakeUp
<1>29. ASSUME NEW p \in Pass, ListRootfs(p)
       PROVE  StepsFit'
  BY <1>29 DEF ListRootfs, ScanTo
<1>30. ASSUME NEW p \in Pass, NEW v \in Vm, Prune(p, v)
       PROVE  StepsFit'
  BY <1>30 DEF Prune, RemoveRootfs, ScanTo
<1>31. ASSUME NEW p \in Pass, EndPass(p)
       PROVE  StepsFit'
  BY <1>31 DEF EndPass
<1>32. ASSUME NEW v \in Vm, Exit(v)
       PROVE  StepsFit'
  BY <1>32 DEF Exit
<1>33. CASE Restart
  BY <1>33 DEF Restart
<1>34. CASE UNCHANGED vars
  BY <1>34 DEF vars
<1>35. ASSUME NEW p \in Proc, Step(p)
       PROVE  StepsFit'
  BY <1>35, <1>1, <1>2, <1>3, <1>4, <1>5, <1>6, <1>7, <1>8, <1>9, <1>10, <1>11, <1>12, <1>13, <1>14,
     <1>15, <1>16, <1>17, <1>18, <1>19, <1>20 DEF Step
<1>36. ASSUME NEW p \in Thread, Handler(p)
       PROVE  StepsFit'
  <2>1. CASE \E v \in Vm : \E withIp \in BOOLEAN : Create(p, v, withIp)
    BY <2>1, <1>21
  <2>2. CASE \E v \in Vm : Asked(p, v)
    BY <2>2, <1>22
  <2>3. CASE Raise(p)
    BY <2>3, <1>23
  <2> QED
    BY <1>36, <2>1, <2>2, <2>3, Requests
<1>37. ASSUME NEW p \in Pass, Reconcile(p)
       PROVE  StepsFit'
  BY <1>37, <1>24, <1>25, <1>26, <1>27, <1>28, <1>29, <1>30, <1>31, PassEnds DEF Reconcile
<1> QED
  BY <1>35, <1>36, <1>37, <1>32, <1>33, <1>34 DEF Next

-----------------------------------------------------------------------------
(* A process keeps its disk and its configuration.                         *)

\* No step removes a rootfs LV that a process has open, or config.json without the pid file.
LEMMA NextHeldStays ==
  ASSUME TypeOK, TypeOK', StepsFit, HeldStays, [Next]_vars
  PROVE  HeldStays'
<1> USE DEF HeldStays, Held, TypeOK, Proc, disk
<1>1. ASSUME NEW p \in Proc, Wipe(p)
       PROVE  HeldStays'
  BY <1>1 DEF Wipe, RemoveRootfs, Goto
<1>2. ASSUME NEW p \in Proc, Clone(p)
       PROVE  HeldStays'
  BY <1>2 DEF Clone, Goto
<1>3. ASSUME NEW p \in Proc, Build(p)
       PROVE  HeldStays'
  BY <1>3 DEF Build, Nic, Goto
<1>4. ASSUME NEW p \in Proc, Spawn(p)
       PROVE  HeldStays'
  BY <1>4 DEF Spawn, Goto
<1>5. ASSUME NEW p \in Proc, Signal(p)
       PROVE  HeldStays'
  BY <1>5 DEF Signal, AfterKill, Goto
<1>6. ASSUME NEW p \in Proc, Unlink(p)
       PROVE  HeldStays'
  BY <1>6 DEF Unlink, Forget, AfterKill, Goto
<1>7. ASSUME NEW p \in Proc, Rmtree(p)
       PROVE  HeldStays'
  BY <1>7 DEF Rmtree, Forget, Goto
<1>8. ASSUME NEW p \in Proc, Lvremove(p)
       PROVE  HeldStays'
  <2>1. CASE goal[p] = "reap" /\ Leave(p, "lvremove", "orphans")
    BY <1>8, <2>1 DEF Lvremove, RemoveRootfs, Leave
  <2>2. CASE goal[p] = "recreate" /\ Goto(p, "lvremove", "spec")
    BY <1>8, <2>2 DEF Lvremove, RemoveRootfs, Goto
  <2>3. CASE goal[p] = "delete" /\ Goto(p, "lvremove", "dropRow")
    BY <1>8, <2>3 DEF Lvremove, RemoveRootfs, Goto
  <2> QED
    BY <1>8, <2>1, <2>2, <2>3 DEF Lvremove
<1>9. ASSUME NEW p \in Pass, NEW v \in Vm, Prune(p, v)
       PROVE  HeldStays'
  BY <1>9 DEF Prune, RemoveRootfs, ScanTo
<1>10. ASSUME NEW v \in Vm, Exit(v)
       PROVE  HeldStays'
  BY <1>10 DEF Exit
<1>11. CASE Restart
  BY <1>11 DEF Restart
<1>12. CASE UNCHANGED <<pid, stray, rootfs, conf>>
  BY <1>12
<1>13. ASSUME NEW p \in Proc, InsertIp(p) \/ DeleteIp(p) \/ Reread(p) \/ ReadSpec(p) \/ Mkdir(p) \/ Inject(p)
                              \/ Network(p) \/ SetRunning(p) \/ CheckDir(p) \/ SetStopped(p) \/ Netdown(p)
                              \/ DropRow(p)
       PROVE  HeldStays'
  BY <1>13, <1>12 DEF InsertIp, Goto, DeleteIp, Reread, Leave, ReadSpec, Mkdir, Inject, Network,
     SetRunning, SetStatus, CheckDir, SetStopped, Netdown, DropRow, vars, tables, host, disk, nets, scan
<1>14. ASSUME NEW p \in Thread,
              \/ Raise(p)
              \/ \E v \in Vm : Asked(p, v)
              \/ \E v \in Vm, withIp \in BOOLEAN : Create(p, v, withIp)
       PROVE  HeldStays'
  <2>1. UNCHANGED host
    BY <1>14 DEF Create, Asked, Request, Raise
  <2> QED
    BY <2>1, <1>12 DEF host
<1>15. ASSUME NEW p \in Pass, ReadExpired(p) \/ ReadRows(p) \/ ListDirs(p) \/ ListRootfs(p) \/ EndPass(p)
                              \/ \E v \in Vm : Expire(p, v) \/ ReapOrphan(p, v)
       PROVE  HeldStays'
  BY <1>15, <1>12 DEF ReadExpired, ScanTo, Expire, TakeUp, ReadRows, ListDirs, ReapOrphan,
     ListRootfs, EndPass, vars, tables, host, disk, nets, scan
<1>16. ASSUME UNCHANGED vars
       PROVE  HeldStays'
  BY <1>16, <1>12 DEF vars, tables, host, disk, nets, scan
<1>17. ASSUME NEW p \in Proc, Step(p)
       PROVE  HeldStays'
  BY <1>17, <1>1, <1>2, <1>3, <1>4, <1>5, <1>6, <1>7, <1>8, <1>13 DEF Step
<1>18. ASSUME NEW p \in Thread, Handler(p)
       PROVE  HeldStays'
  <2>1. CASE \E v \in Vm : \E withIp \in BOOLEAN : Create(p, v, withIp)
    BY <2>1, <1>14
  <2>2. CASE \E v \in Vm : Asked(p, v)
    BY <2>2, <1>14
  <2>3. CASE Raise(p)
    BY <2>3, <1>14
  <2> QED
    BY <1>18, <2>1, <2>2, <2>3, Requests
<1>19. ASSUME NEW p \in Pass, Reconcile(p)
       PROVE  HeldStays'
  BY <1>19, <1>9, <1>15, PassEnds DEF Reconcile
<1> QED
  BY <1>17, <1>18, <1>19, <1>10, <1>11, <1>16 DEF Next

-----------------------------------------------------------------------------
(* config.json and the disk come from the same VmSpec.                     *)

\* What was written to a disk holds of one that is gone.
LEMMA RemovalKeepsWritten ==
  ASSUME TypeOK, NEW v \in Vm, NEW w \in Vm, NEW nic, RemoveRootfs(w), Written(v, nic)
  PROVE  Written(v, nic)'
<1>1. rootfs' = [rootfs EXCEPT ![w] = "none"] \/ UNCHANGED <<rootfs, seed>>
  BY DEF RemoveRootfs, disk
<1>2. seed' = [seed EXCEPT ![w] = "none"] \/ UNCHANGED seed
  BY DEF RemoveRootfs, disk
<1>3. rootfs \in [Vm -> {"none", "default", "image"}] /\ seed \in [Vm -> Nics]
  BY DEF TypeOK
<1>4. CASE v = w
  BY <1>1, <1>3, <1>4 DEF Written
<1>5. CASE v # w
  BY <1>1, <1>2, <1>3, <1>5 DEF Written
<1> QED
  BY <1>4, <1>5

\* The one handler of a VM configures a VM from the VmSpec it has injected.
LEMMA NextSpecsAgree ==
  ASSUME TypeOK, TypeOK', StepsFit, Overlaps, SpecsAgree, [Next]_vars
  PROVE  SpecsAgree'
<1> USE DEF Overlaps, SpecsAgree, Written, Nic, TypeOK, StepsFit, HasRow, Proc, Goals, Status,
     Down, Up, Nics, Tables, Passes, tables, disk, nets, host, scan
<1>1. ASSUME NEW p \in Proc, InsertIp(p)
       PROVE  SpecsAgree'
  BY <1>1 DEF InsertIp, Goto
<1>2. ASSUME NEW p \in Proc, DeleteIp(p)
       PROVE  SpecsAgree'
  BY <1>2 DEF DeleteIp, Goto
<1>3. ASSUME NEW p \in Proc, Reread(p)
       PROVE  SpecsAgree'
  <2>1. CASE HasRow(job[p])
    BY <1>3, <2>1 DEF Reread, Goto
  <2>2. CASE ~HasRow(job[p])
    <3>1. Leave(p, "reread", "idle") /\ UNCHANGED <<tables, host>>
      BY <1>3, <2>2 DEF Reread
    <3> QED
      BY <3>1 DEF Leave
  <2> QED
    BY <2>1, <2>2
<1>4. ASSUME NEW p \in Proc, ReadSpec(p)
       PROVE  SpecsAgree'
  <2>1. (pubip[job[p]] > 0) \in BOOLEAN
    OBVIOUS
  <2> QED
    BY <1>4, <2>1 DEF ReadSpec
<1>5. ASSUME NEW p \in Proc, Mkdir(p)
       PROVE  SpecsAgree'
  BY <1>5 DEF Mkdir, Goto
<1>6. ASSUME NEW p \in Proc, Wipe(p)
       PROVE  SpecsAgree'
  BY <1>6 DEF Wipe, RemoveRootfs, Goto
<1>7. ASSUME NEW p \in Proc, Clone(p)
       PROVE  SpecsAgree'
  BY <1>7 DEF Clone, Goto
<1>8. ASSUME NEW p \in Proc, Inject(p)
       PROVE  SpecsAgree'
  BY <1>8 DEF Inject, Goto
<1>9. ASSUME NEW p \in Proc, Network(p)
       PROVE  SpecsAgree'
  BY <1>9 DEF Network, Goto
<1>10. ASSUME NEW p \in Proc, Build(p)
       PROVE  SpecsAgree'
  BY <1>10 DEF Build, Nic, Goto
<1>11. ASSUME NEW p \in Proc, Spawn(p)
       PROVE  SpecsAgree'
  BY <1>11 DEF Spawn, Goto
<1>12. ASSUME NEW p \in Proc, SetRunning(p)
       PROVE  SpecsAgree'
  BY <1>12 DEF SetRunning, SetStatus, Leave
<1>13. ASSUME NEW p \in Proc, CheckDir(p)
       PROVE  SpecsAgree'
  BY <1>13 DEF CheckDir, Goto
<1>14. ASSUME NEW p \in Proc, Signal(p)
       PROVE  SpecsAgree'
  <2>1. PICK to \in {"setStopped", "netdown", "unlink"} : Goto(p, "signal", to)
    BY <1>14 DEF Signal, AfterKill
  <2>2. UNCHANGED <<tables, disk, conf>>
    BY <1>14 DEF Signal
  <2> QED
    BY <2>1, <2>2 DEF Goto
<1>15. ASSUME NEW p \in Proc, Unlink(p)
       PROVE  SpecsAgree'
  BY <1>15 DEF Unlink, Forget, AfterKill, Goto
<1>16. ASSUME NEW p \in Proc, SetStopped(p)
       PROVE  SpecsAgree'
  <2>1. CASE goal[p] = "reboot" /\ HasRow(job[p])
    BY <1>16, <2>1 DEF SetStopped, SetStatus, Goto
  <2>2. CASE ~(goal[p] = "reboot" /\ HasRow(job[p]))
    <3>1. Leave(p, "setStopped", "idle") /\ SetStatus(job[p], "stopped") /\ UNCHANGED <<pubip, host>>
      BY <1>16, <2>2 DEF SetStopped
    <3> QED
      BY <3>1 DEF SetStatus, Leave
  <2> QED
    BY <2>1, <2>2
<1>17. ASSUME NEW p \in Proc, Netdown(p)
       PROVE  SpecsAgree'
  BY <1>17 DEF Netdown, Goto
<1>18. ASSUME NEW p \in Proc, Rmtree(p)
       PROVE  SpecsAgree'
  BY <1>18 DEF Rmtree, Forget, Goto
<1>19. ASSUME NEW p \in Proc, Lvremove(p)
       PROVE  SpecsAgree'
  <2>1. CASE goal[p] = "reap" /\ Leave(p, "lvremove", "orphans")
    <3>1. p \in Pass
      BY <2>1
    <3>2. /\ pc'  = [pc EXCEPT ![p] = "orphans"]
          /\ job' = [job EXCEPT ![p] = None]
          /\ goal' = [goal EXCEPT ![p] = None]
          /\ \A t \in Thread : pc'[t] = pc[t] /\ job'[t] = job[t] /\ goal'[t] = goal[t]
      BY <2>1, <3>1 DEF Leave
    <3>3. met' = met /\ \A t \in Thread : spec'[t] = spec[t]
      BY <2>1, <3>1 DEF Leave
    <3>4. conf' = conf /\ RemoveRootfs(job[p])
      BY <1>19 DEF Lvremove
    <3>5. job[p] \in Vm
      BY <2>1 DEF Leave
    <3> HIDE DEF Written
    <3>6. ASSUME NEW v \in Vm, NEW nic, Written(v, nic)
          PROVE  Written(v, nic)'
      <4> HIDE DEF TypeOK
      <4> QED
        BY <3>4, <3>5, <3>6, RemovalKeepsWritten
    <3> QED
      BY <3>2, <3>3, <3>4, <3>6
  <2>2. CASE goal[p] = "recreate" /\ Goto(p, "lvremove", "spec")
    BY <1>19, <2>2 DEF Lvremove, RemoveRootfs, Goto
  <2>3. CASE goal[p] = "delete" /\ Goto(p, "lvremove", "dropRow")
    BY <1>19, <2>3 DEF Lvremove, RemoveRootfs, Goto
  <2> QED
    BY <1>19, <2>1, <2>2, <2>3 DEF Lvremove
<1>20. ASSUME NEW p \in Proc, DropRow(p)
       PROVE  SpecsAgree'
  BY <1>20 DEF DropRow, Leave
<1>21. ASSUME NEW p \in Thread, NEW v \in Vm, NEW withIp \in BOOLEAN, Create(p, v, withIp)
       PROVE  SpecsAgree'
  BY <1>21 DEF Create, Begin
<1>22. ASSUME NEW p \in Thread, NEW v \in Vm, Asked(p, v)
       PROVE  SpecsAgree'
  <2>1. PICK step \in {"deleteIp", "signal", "spawn", "insertIp"},
             then \in {"delete", "stop", "reboot", None, "recreate"} :
          /\ \E ask : Request(ask, p, v, step, then)
          /\ step = "insertIp" => then = "recreate"
    BY <1>22 DEF Asked
  <2>2. /\ HasRow(v)
        /\ pc'   = [pc EXCEPT ![p] = step]
        /\ job'  = [job EXCEPT ![p] = v]
        /\ goal' = [goal EXCEPT ![p] = then]
        /\ met'  = IF \E s \in Thread : job[s] = v THEN met \cup {v} ELSE met
        /\ UNCHANGED <<tables, host, scan, spec>>
    BY <2>1 DEF Request, Begin
  <2> QED
    BY <2>1, <2>2
<1>23. ASSUME NEW p \in Thread, Raise(p)
       PROVE  SpecsAgree'
  BY <1>23 DEF Raise, MayRaise, Leave
<1>24. ASSUME NEW p \in Pass, ReadExpired(p)
       PROVE  SpecsAgree'
  BY <1>24 DEF ReadExpired, ScanTo
<1>25. ASSUME NEW p \in Pass, NEW v \in Vm, Expire(p, v)
       PROVE  SpecsAgree'
  BY <1>25 DEF Expire, TakeUp
<1>26. ASSUME NEW p \in Pass, ReadRows(p)
       PROVE  SpecsAgree'
  BY <1>26 DEF ReadRows, ScanTo
<1>27. ASSUME NEW p \in Pass, ListDirs(p)
       PROVE  SpecsAgree'
  BY <1>27 DEF ListDirs, ScanTo
<1>28. ASSUME NEW p \in Pass, NEW v \in Vm, ReapOrphan(p, v)
       PROVE  SpecsAgree'
  BY <1>28 DEF ReapOrphan, TakeUp
<1>29. ASSUME NEW p \in Pass, ListRootfs(p)
       PROVE  SpecsAgree'
  BY <1>29 DEF ListRootfs, ScanTo
<1>30. ASSUME NEW p \in Pass, NEW v \in Vm, Prune(p, v)
       PROVE  SpecsAgree'
  BY <1>30 DEF Prune, RemoveRootfs, ScanTo
<1>31. ASSUME NEW p \in Pass, EndPass(p)
       PROVE  SpecsAgree'
  BY <1>31 DEF EndPass
<1>32. ASSUME NEW v \in Vm, Exit(v)
       PROVE  SpecsAgree'
  BY <1>32 DEF Exit
<1>33. CASE Restart
  BY <1>33 DEF Restart
<1>34. CASE UNCHANGED vars
  BY <1>34 DEF vars
<1>35. ASSUME NEW p \in Proc, Step(p)
       PROVE  SpecsAgree'
  BY <1>35, <1>1, <1>2, <1>3, <1>4, <1>5, <1>6, <1>7, <1>8, <1>9, <1>10, <1>11, <1>12, <1>13, <1>14,
     <1>15, <1>16, <1>17, <1>18, <1>19, <1>20 DEF Step
<1>36. ASSUME NEW p \in Thread, Handler(p)
       PROVE  SpecsAgree'
  <2>1. CASE \E v \in Vm : \E withIp \in BOOLEAN : Create(p, v, withIp)
    BY <2>1, <1>21
  <2>2. CASE \E v \in Vm : Asked(p, v)
    BY <2>2, <1>22
  <2>3. CASE Raise(p)
    BY <2>3, <1>23
  <2> QED
    BY <1>36, <2>1, <2>2, <2>3, Requests
<1>37. ASSUME NEW p \in Pass, Reconcile(p)
       PROVE  SpecsAgree'
  BY <1>37, <1>24, <1>25, <1>26, <1>27, <1>28, <1>29, <1>30, <1>31, PassEnds DEF Reconcile
<1> QED
  BY <1>35, <1>36, <1>37, <1>32, <1>33, <1>34 DEF Next

-----------------------------------------------------------------------------
(* Requests that overlap.                                                  *)

\* A handler that begins at a VM where another is at work is seen to.
LEMMA NextOverlaps ==
  ASSUME TypeOK, Overlaps, [Next]_vars
  PROVE  Overlaps'
<1> USE DEF TypeOK, Overlaps, Proc
<1>1. CASE \A t \in Thread : job'[t] \in {job[t], None} /\ met' = met
  BY <1>1
<1>2. ASSUME NEW t \in Thread, NEW v \in Vm, NEW step, NEW then, Begin(t, v, step, then)
      PROVE  Overlaps'
  <2>1. job' = [job EXCEPT ![t] = v] /\ met \subseteq met'
    BY <1>2 DEF Begin
  <2>2. (\E s \in Thread : job[s] = v) => v \in met'
    BY <1>2 DEF Begin
  <2>3. job \in [Proc -> Vm \cup {None}]
    OBVIOUS
  <2> QED
    BY <2>1, <2>2, <2>3
<1>3. ASSUME NEW p \in Proc, NEW step, NEW to, Goto(p, step, to) \/ Leave(p, step, to)
      PROVE  Overlaps'
  BY <1>3, <1>1 DEF Goto, Leave
<1>4. ASSUME NEW p \in Proc, Step(p)
      PROVE  Overlaps'
  <2>1. CASE ReadSpec(p)
    BY <2>1, <1>1 DEF ReadSpec
  <2>2. CASE ~ReadSpec(p)
    <3>1. \E step, to : Goto(p, step, to) \/ Leave(p, step, to)
      BY <1>4, <2>2 DEF Step, InsertIp, DeleteIp, Reread, Mkdir, Wipe, Clone, Inject, Network, Build, Spawn,
         SetRunning, CheckDir, Signal, Unlink, SetStopped, Netdown, Rmtree, Lvremove, DropRow
    <3> QED
      BY <3>1, <1>3
  <2> QED
    BY <2>1, <2>2
<1>5. ASSUME NEW t \in Thread, Handler(t)
      PROVE  Overlaps'
  <2>1. CASE \E v \in Vm : \E withIp \in BOOLEAN : Create(t, v, withIp)
    BY <2>1, <1>2 DEF Create
  <2>2. CASE \E v \in Vm : Asked(t, v)
    BY <2>2, <1>2 DEF Asked, Request
  <2>3. CASE Raise(t)
    BY <2>3, <1>3 DEF Raise
  <2> QED
    BY <1>5, <2>1, <2>2, <2>3, Requests
<1>6. ASSUME NEW p \in Pass, Reconcile(p)
      PROVE  Overlaps'
  <2>1. CASE EndPass(p)
    BY <2>1, <1>1 DEF EndPass
  <2>2. CASE \E v \in Vm : Expire(p, v) \/ ReapOrphan(p, v)
    BY <2>2, <1>1, ProcAssumption DEF Expire, ReapOrphan, TakeUp
  <2>3. CASE ReadExpired(p) \/ ReadRows(p) \/ ListDirs(p) \/ ListRootfs(p) \/ \E v \in Vm : Prune(p, v)
    BY <2>3, <1>1 DEF ReadExpired, ReadRows, ListDirs, ListRootfs, Prune, ScanTo
  <2> QED
    BY <1>6, <2>1, <2>2, <2>3, PassEnds DEF Reconcile
<1>7. CASE Restart \/ UNCHANGED vars \/ \E v \in Vm : Exit(v)
  BY <1>7, <1>1 DEF Restart, Exit, vars
<1> QED
  BY <1>4, <1>5, <1>6, <1>7 DEF Next

-----------------------------------------------------------------------------
(* What finds a namespace.                                                 *)

\* The steps that begin nothing between a teardown's netdown and its end, take no
\* row, directory or namespace away, and make none that could be overlooked.
Calm(p) ==
  /\ \A v \in Vm : (HasRow(v)' <=> HasRow(v)) /\ (row'[v] = "unborn" <=> row[v] = "unborn")
  /\ dir \subseteq dir' /\ net' = net /\ leaked' = leaked
  /\ pc'[p] \notin {"rmtree", "lvremove", "dropRow"}
  /\ \A q \in Proc \ {p} : pc'[q] = pc[q] /\ job'[q] = job[q] /\ goal'[q] = goal[q]

LEMMA CalmKeepsFound ==
  ASSUME TypeOK, NetFound, NEW p \in Proc, Calm(p)
  PROVE  NetFound'
<1> SUFFICES ASSUME NEW v \in (net \ leaked)'
             PROVE  /\ row'[v] # "unborn"
                    /\ IF HasRow(v)' THEN \A q \in Proc : ~PastNetdown(q, v)'
                                     ELSE v \in dir' /\ \A q \in Proc : ~(job'[q] = v /\ pc'[q] = "rmtree")
  BY DEF NetFound
<1>1. v \in net \ leaked /\ v \in Vm
  BY DEF Calm, TypeOK
<1>2. row'[v] # "unborn"
  BY <1>1 DEF Calm, NetFound
<1>3. ASSUME HasRow(v)', NEW q \in Proc
      PROVE  ~PastNetdown(q, v)'
  BY <1>1, <1>3 DEF Calm, NetFound, PastNetdown
<1>4. ASSUME ~HasRow(v)'
      PROVE  v \in dir' /\ \A q \in Proc : ~(job'[q] = v /\ pc'[q] = "rmtree")
  BY <1>1, <1>4 DEF Calm, NetFound
<1> QED
  BY <1>2, <1>3, <1>4

\* A namespace that no teardown has overlooked keeps the row or the directory by
\* which the next one finds it.
LEMMA NextNetFound ==
  ASSUME TypeOK, TypeOK', StepsFit, NetFound, [Next]_vars
  PROVE  NetFound'
<1> USE DEF TypeOK, Proc
<1>1. ASSUME NEW p \in Proc, Network(p)
      PROVE  NetFound'
  <2>1. /\ net' = net \cup {job[p]}
        /\ leaked' = IF Overtaken(job[p]) THEN leaked \cup {job[p]} ELSE leaked
        /\ pc[p] = "network" /\ pc' = [pc EXCEPT ![p] = "build"]
        /\ job' = job /\ goal' = goal /\ row' = row /\ dir' = dir
        /\ job[p] \in Vm /\ row[job[p]] # "unborn"
    BY <1>1 DEF Network, Goto, tables, StepsFit, Passes, Up
  <2> SUFFICES ASSUME NEW v \in net' \ leaked'
               PROVE  /\ row[v] # "unborn"
                      /\ IF HasRow(v) THEN \A q \in Proc : ~PastNetdown(q, v)'
                                      ELSE v \in dir /\ \A q \in Proc : ~(job[q] = v /\ pc'[q] = "rmtree")
    BY <2>1 DEF NetFound, HasRow
  <2>2. CASE v = job[p]
    BY <2>1, <2>2 DEF Overtaken, PastNetdown
  <2>3. CASE v # job[p]
    BY <2>1, <2>3 DEF NetFound, PastNetdown
  <2> QED
    BY <2>2, <2>3
<1>2. ASSUME NEW p \in Proc, Netdown(p)
      PROVE  NetFound'
  <2>1. /\ job[p] \notin net' \ leaked' /\ net' \ leaked' \subseteq net \ leaked
        /\ pc' = [pc EXCEPT ![p] = "rmtree"]
        /\ job' = job /\ goal' = goal /\ row' = row /\ dir' = dir
    BY <1>2 DEF Netdown, Goto, tables
  <2> QED
    BY <2>1 DEF NetFound, HasRow, PastNetdown
<1>3. ASSUME NEW p \in Proc, Rmtree(p)
      PROVE  NetFound'
  <2>1. /\ pc[p] = "rmtree" /\ pc' = [pc EXCEPT ![p] = "lvremove"]
        /\ dir' = dir \ {job[p]} /\ net' = net /\ leaked' = leaked
        /\ job' = job /\ goal' = goal /\ row' = row
    BY <1>3 DEF Rmtree, Goto, tables, nets
  <2> QED
    BY <2>1 DEF NetFound, HasRow, PastNetdown
<1>4. ASSUME NEW p \in Proc, Lvremove(p)
      PROVE  NetFound'
  <2>1. /\ pc[p] = "lvremove"
        /\ dir' = dir /\ net' = net /\ leaked' = leaked /\ row' = row
        /\ \A q \in Proc \ {p} : pc'[q] = pc[q] /\ job'[q] = job[q] /\ goal'[q] = goal[q]
        /\ pc'[p] # "rmtree"
        /\ pc'[p] = "dropRow" => goal'[p] = goal[p] /\ job'[p] = job[p]
        /\ pc'[p] # "lvremove"
    BY <1>4 DEF Lvremove, Leave, Goto, tables, nets
  <2>2. ASSUME NEW v \in Vm, NEW q \in Proc, PastNetdown(q, v)'
        PROVE  PastNetdown(q, v)
    BY <2>1, <2>2 DEF PastNetdown
  <2>3. \A q \in Proc : pc'[q] = "rmtree" => pc[q] = "rmtree" /\ job'[q] = job[q]
    BY <2>1
  <2> QED
    BY <2>1, <2>2, <2>3 DEF NetFound, HasRow
<1>5. ASSUME NEW p \in Proc, DropRow(p)
      PROVE  NetFound'
  <2>1. /\ pc[p] = "dropRow" /\ pc' = [pc EXCEPT ![p] = IF p \in Pass THEN "ttl" ELSE "idle"]
        /\ job' = [job EXCEPT ![p] = None] /\ goal' = [goal EXCEPT ![p] = None]
        /\ row' = [row EXCEPT ![job[p]] = "deleted"]
        /\ dir' = dir /\ net' = net /\ leaked' = leaked
    BY <1>5 DEF DropRow, Leave, host, nets
  <2>2. goal[p] = "delete" /\ job[p] \in Vm
    BY <2>1 DEF StepsFit, Passes
  <2>3. HasRow(job[p]) => job[p] \notin net \ leaked
    BY <2>1, <2>2 DEF NetFound, PastNetdown
  <2> SUFFICES ASSUME NEW v \in net \ leaked
               PROVE  /\ row'[v] # "unborn"
                      /\ IF HasRow(v)' THEN \A q \in Proc : ~PastNetdown(q, v)'
                                       ELSE v \in dir /\ \A q \in Proc : ~(job'[q] = v /\ pc'[q] = "rmtree")
    BY <2>1 DEF NetFound
  <2>4. CASE v = job[p]
    <3>1. ~HasRow(v)
      BY <2>3, <2>4
    <3>2. ~HasRow(v)' /\ row'[v] # "unborn"
      BY <2>1, <2>2, <2>4 DEF HasRow, Status
    <3> QED
      BY <2>1, <3>1, <3>2 DEF NetFound
  <2>5. CASE v # job[p]
    BY <2>1, <2>5 DEF NetFound, HasRow, PastNetdown
  <2> QED
    BY <2>4, <2>5
<1>6. CASE Restart
  <2>1. /\ pc' = [q \in Proc |-> "idle"]
        /\ net' \ leaked' \subseteq net \ leaked /\ row' = row /\ dir' = dir
    BY <1>6 DEF Restart, tables
  <2> QED
    BY <2>1 DEF NetFound, HasRow, PastNetdown
<1>7. ASSUME NEW p \in Proc, InsertIp(p) \/ DeleteIp(p) \/ Mkdir(p) \/ Wipe(p) \/ Clone(p) \/ Inject(p)
                             \/ Build(p) \/ Spawn(p) \/ CheckDir(p) \/ Signal(p) \/ Unlink(p)
      PROVE  Calm(p)
  BY <1>7 DEF Calm, HasRow, InsertIp, DeleteIp, Mkdir, Wipe, Clone, Inject, Build, Spawn, CheckDir,
     Signal, Unlink, AfterKill, Goto, tables, host, nets
<1>8. ASSUME NEW p \in Proc, Reread(p) \/ ReadSpec(p)
      PROVE  Calm(p)
  BY <1>8 DEF Calm, HasRow, Reread, ReadSpec, Leave, Goto, tables, host, nets
<1>9. ASSUME NEW p \in Proc, SetRunning(p) \/ SetStopped(p)
      PROVE  Calm(p)
  BY <1>9 DEF Calm, HasRow, Status, SetRunning, SetStopped, SetStatus, Leave, Goto, host, nets
<1>10. ASSUME NEW t \in Thread, NEW v \in Vm, NEW withIp \in BOOLEAN, Create(t, v, withIp)
      PROVE  NetFound'
  <2>1. /\ row[v] = "unborn" /\ row' = [row EXCEPT ![v] = "pending"]
        /\ pc' = [pc EXCEPT ![t] = IF withIp THEN "insertIp" ELSE "spec"]
        /\ job' = [job EXCEPT ![t] = v] /\ goal' = [goal EXCEPT ![t] = None]
        /\ dir' = dir /\ net' = net /\ leaked' = leaked
    BY <1>10 DEF Create, Begin, host, nets
  <2>2. v \notin net \ leaked
    BY <2>1 DEF NetFound
  <2> SUFFICES ASSUME NEW w \in net \ leaked
               PROVE  /\ row'[w] # "unborn"
                      /\ IF HasRow(w)' THEN \A q \in Proc : ~PastNetdown(q, w)'
                                       ELSE w \in dir /\ \A q \in Proc : ~(job'[q] = w /\ pc'[q] = "rmtree")
    BY <2>1 DEF NetFound
  <2>3. w # v
    BY <2>2
  <2> QED
    BY <2>1, <2>3 DEF NetFound, HasRow, PastNetdown
<1>11. ASSUME NEW t \in Thread, Raise(t) \/ \E v \in Vm : Asked(t, v)
      PROVE  Calm(t)
  BY <1>11 DEF Calm, HasRow, Asked, Request, Begin, Raise, Leave, tables, host, nets
<1>12. ASSUME NEW p \in Pass, ReadExpired(p) \/ ReadRows(p) \/ ListDirs(p) \/ ListRootfs(p) \/ EndPass(p)
                              \/ \E v \in Vm : Expire(p, v) \/ ReapOrphan(p, v) \/ Prune(p, v)
      PROVE  Calm(p)
  BY <1>12 DEF Calm, HasRow, ReadExpired, ReadRows, ListDirs, ListRootfs, EndPass, Expire, ReapOrphan,
     TakeUp, Prune, ScanTo, tables, host, nets
<1>13. CASE UNCHANGED vars \/ \E v \in Vm : Exit(v)
  BY <1>13 DEF Exit, NetFound, HasRow, PastNetdown, vars, tables, host, nets
<1>14. ASSUME NEW p \in Proc, Step(p)
      PROVE  NetFound'
  BY <1>14, <1>1, <1>2, <1>3, <1>4, <1>5, <1>7, <1>8, <1>9, CalmKeepsFound DEF Step
<1>15. ASSUME NEW t \in Thread, Handler(t)
      PROVE  NetFound'
  <2>1. CASE \E v \in Vm : \E withIp \in BOOLEAN : Create(t, v, withIp)
    BY <2>1, <1>10
  <2>2. CASE Raise(t) \/ \E v \in Vm : Asked(t, v)
    BY <2>2, <1>11, CalmKeepsFound
  <2> QED
    BY <1>15, <2>1, <2>2, Requests
<1>16. ASSUME NEW p \in Pass, Reconcile(p)
      PROVE  NetFound'
  BY <1>16, <1>12, PassEnds, CalmKeepsFound DEF Reconcile
<1> QED
  BY <1>6, <1>13, <1>14, <1>15, <1>16 DEF Next

-----------------------------------------------------------------------------
(* Rows.                                                                   *)

\* Steps that find the row gone leave it so.
LEMMA NextRowForward ==
  ASSUME TypeOK, [Next]_vars
  PROVE  RowForward
<1> USE DEF RowForward, HasRow, TypeOK, Status
<1>1. ASSUME NEW p \in Proc, SetRunning(p)
       PROVE  RowForward
  BY <1>1 DEF SetRunning, SetStatus
<1>2. ASSUME NEW p \in Proc, SetStopped(p)
       PROVE  RowForward
  BY <1>2 DEF SetStopped, SetStatus
<1>3. ASSUME NEW p \in Proc, DropRow(p)
       PROVE  RowForward
  BY <1>3 DEF DropRow
<1>4. ASSUME NEW p \in Thread, NEW v \in Vm, NEW withIp \in BOOLEAN, Create(p, v, withIp)
       PROVE  RowForward
  BY <1>4 DEF Create
<1>5. CASE UNCHANGED row
  BY <1>5
<1>6. ASSUME NEW p \in Proc, InsertIp(p) \/ DeleteIp(p) \/ Reread(p) \/ ReadSpec(p) \/ Mkdir(p) \/ Wipe(p)
                             \/ Clone(p) \/ Inject(p) \/ Network(p) \/ Build(p) \/ Spawn(p) \/ CheckDir(p)
                             \/ Signal(p) \/ Unlink(p) \/ Netdown(p) \/ Rmtree(p) \/ Lvremove(p)
       PROVE  RowForward
  BY <1>6, <1>5 DEF InsertIp, Goto, DeleteIp, Reread, Leave, ReadSpec, Mkdir, Wipe, RemoveRootfs,
     Clone, Inject, Network, Build, Nic, Spawn, CheckDir, Signal, AfterKill, Unlink, Forget,
     Netdown, Rmtree, Lvremove, vars, tables, host, disk, nets, scan
<1>7. ASSUME NEW p \in Thread, Raise(p) \/ \E v \in Vm : Asked(p, v)
       PROVE  RowForward
  BY <1>7, <1>5 DEF Asked, Request, Begin, Raise, MayRaise, Leave, vars, tables, host, disk, nets, scan
<1>8. ASSUME NEW p \in Pass, ReadExpired(p) \/ ReadRows(p) \/ ListDirs(p) \/ ListRootfs(p) \/ EndPass(p)
                             \/ \E v \in Vm : Expire(p, v) \/ ReapOrphan(p, v) \/ Prune(p, v)
       PROVE  RowForward
  BY <1>8, <1>5 DEF ReadExpired, ScanTo, Expire, TakeUp, ReadRows, ListDirs, ReapOrphan, ListRootfs,
     Prune, RemoveRootfs, EndPass, vars, tables, host, disk, nets, scan
<1>9. ASSUME Restart \/ UNCHANGED vars \/ \E v \in Vm : Exit(v)
       PROVE  RowForward
  BY <1>9, <1>5 DEF Exit, Restart, vars, tables, host, disk, nets, scan
<1>10. ASSUME NEW p \in Proc, Step(p)
       PROVE  RowForward
  BY <1>10, <1>1, <1>2, <1>3, <1>6 DEF Step
<1>11. ASSUME NEW p \in Thread, Handler(p)
       PROVE  RowForward
  <2>1. CASE \E v \in Vm : \E withIp \in BOOLEAN : Create(p, v, withIp)
    BY <2>1, <1>4
  <2>2. CASE \E v \in Vm : Asked(p, v)
    BY <2>2, <1>7
  <2>3. CASE Raise(p)
    BY <2>3, <1>7
  <2> QED
    BY <1>11, <2>1, <2>2, <2>3, Requests
<1>12. ASSUME NEW p \in Pass, Reconcile(p)
       PROVE  RowForward
  BY <1>12, <1>8, PassEnds DEF Reconcile
<1> QED
  BY <1>10, <1>11, <1>12, <1>9 DEF Next

-----------------------------------------------------------------------------
(* The inductive invariant.                                                *)

LEMMA InitIInv == Init => IInv
<1> SUFFICES ASSUME Init
             PROVE  IInv
  OBVIOUS
<1>1. TypeOK
  BY DEF Init, TypeOK, Nics, Passes
<1>2. StepsFit /\ HeldStays
  BY DEF Init, Proc, Goals, StepsFit, HeldStays, Held, Up, Down, Passes
<1>3. Overlaps /\ SpecsAgree /\ NetFound
  BY DEF Init, Proc, Goals, Overlaps, SpecsAgree, NetFound, Up, Written
<1> QED
  BY <1>1, <1>2, <1>3 DEF IInv

LEMMA NextIInv ==
  ASSUME IInv, [Next]_vars
  PROVE  IInv'
<1>1. TypeOK'
  BY NextTypes DEF IInv
<1>2. StepsFit'
  BY <1>1, NextStepsFit DEF IInv
<1>3. HeldStays'
  BY <1>1, NextHeldStays DEF IInv
<1>4. Overlaps'
  BY NextOverlaps DEF IInv
<1>5. SpecsAgree'
  BY <1>1, NextSpecsAgree DEF IInv
<1>6. NetFound'
  BY <1>1, NextNetFound DEF IInv
<1> QED
  BY <1>1, <1>2, <1>3, <1>4, <1>5, <1>6 DEF IInv

\* Whatever the handlers, the passes and the failures do: a process has the disk it
\* was started from, a configuration and its disk agree unless requests overlapped,
\* and a namespace that no teardown has overlooked has a row or a directory.
THEOREM InductiveInvariant == Spec => []IInv
BY InitIInv, NextIInv, PTL DEF Spec

-----------------------------------------------------------------------------
(* What it says of the VMs.                                                *)

\* Rows, files, processes, namespaces and LVs, and the place of every handler
\* and every pass.
THEOREM TypeCorrect == Spec => []TypeOK
<1>1. IInv => TypeOK
  BY DEF IInv
<1> QED
  BY <1>1, InductiveInvariant, PTL

\* vm_start, vm_stop and the passes write to a row they have read long before:
\* a deleted row stays deleted, a started VM does not become pending again.
THEOREM RowsForward == Spec => RowsMoveForward
<1>1. TypeOK /\ [Next]_vars => [RowForward]_vars
  BY NextRowForward
<1> QED
  BY <1>1, TypeCorrect, PTL DEF Spec, RowsMoveForward

\* A guest has eth1 exactly if the root disk it runs from was given the unit for
\* it, for every VM for which no two requests have overlapped, whatever the
\* requests for other VMs and the passes do meanwhile.
THEOREM GuestConfigured == Spec => []GuestMatchesSeed
<1>1. IInv => GuestMatchesSeed
  BY DEF IInv, HeldStays, Held, SpecsAgree, Written, GuestMatchesSeed
<1> QED
  BY <1>1, InductiveInvariant, PTL

\* What is left of a VM without a row can be found by vms_pass, with expiry and
\* without, for any number of overlapping handlers and passes; a namespace is lost
\* only if deleting it failed, or a bring-up made it when a teardown had passed.
THEOREM LeftoversFound == Spec => []NothingForgotten
<1>1. IInv => NothingForgotten
  BY DEF IInv, TypeOK, HeldStays, NetFound, NothingForgotten
<1> QED
  BY <1>1, InductiveInvariant, PTL
=============================================================================
