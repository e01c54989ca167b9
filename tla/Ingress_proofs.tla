-------------------------- MODULE Ingress_proofs --------------------------
(* Proofs about Ingress, for any number of VMs, domains and handlers.      *)
EXTENDS Ingress, TLAPS

USE IngressFaults, IngressPending, IngressProcs, IngressAbroad, IngressNone

-----------------------------------------------------------------------------
(* Types.                                                                  *)

\* Every variable keeps its type.
LEMMA NextTypes ==
  ASSUME TypeOK, LocalsFit, [Next]_vars
  PROVE  TypeOK'
<1> USE DEF TypeOK, LocalsFit, Born, Row, NoReq, Idle, Steps, Running, tables, tasks, guests,
     control, HasRow, OfVm, At, Built
<1>1. ASSUME NEW p \in Proc, NEW v \in Vm, CreateVm(p, v)
       PROVE  TypeOK'
  BY <1>1 DEF CreateVm
<1>2. ASSUME NEW p \in Proc, CreateProxy(p)
       PROVE  TypeOK'
  BY <1>2 DEF CreateProxy, Begin, Enter
<1>3. ASSUME NEW p \in Proc, NEW id \in Domain, NEW f \in Fqdn, NEW v \in Vm, AddDomain(p, id, f, v)
       PROVE  TypeOK'
  BY <1>3 DEF AddDomain, Begin, Enter
<1>4. ASSUME NEW p \in Proc, NEW id \in Domain, RemoveDomain(p, id)
       PROVE  TypeOK'
  BY <1>4 DEF RemoveDomain, Begin, Enter
<1>5. ASSUME NEW p \in Proc, NEW v \in Vm, DeleteVm(p, v)
       PROVE  TypeOK'
  BY <1>5 DEF DeleteVm, Begin, Enter
<1>6. ASSUME NEW p \in Proc, NEW v \in Vm, SpawnProxy(p, v)
       PROVE  TypeOK'
  <2>1. [req[p] EXCEPT !.v = v] \in [d : Domain \cup {None}, f : Fqdn \cup {None}, v : Vm \cup {None}]
    OBVIOUS
  <2>2. req' = [req EXCEPT ![p] = [req[p] EXCEPT !.v = v]]
    BY <1>6 DEF SpawnProxy
  <2>3. req' \in [Proc -> [d : Domain \cup {None}, f : Fqdn \cup {None}, v : Vm \cup {None}]]
    BY <2>1, <2>2
  <2> QED
    BY <1>6, <2>3 DEF SpawnProxy
<1>7. ASSUME NEW p \in Proc, BringUp(p)
       PROVE  TypeOK'
  BY <1>7 DEF BringUp, Goto
<1>8. ASSUME NEW p \in Proc, InsertProxy(p)
       PROVE  TypeOK'
  <2>1. CASE proxy = None
    BY <1>8, <2>1 DEF InsertProxy, Goto
  <2>2. CASE proxy # None
    <3>1. /\ Leave(p, "insertProxy")
          /\ UNCHANGED <<row, domains, minted, proxy, tasks, guests, silent>>
      BY <1>8, <2>2 DEF InsertProxy
    <3> QED
      BY <3>1 DEF Leave
  <2> QED
    BY <2>1, <2>2
<1>9. ASSUME NEW p \in Proc, SetupTask(p)
       PROVE  TypeOK'
  BY <1>9 DEF SetupTask, Goto
<1>10. ASSUME NEW p \in Proc, ReloadTask(p)
       PROVE  TypeOK'
  BY <1>10 DEF ReloadTask, Leave, Enqueue
<1>11. ASSUME NEW p \in Proc, InsertDomain(p)
       PROVE  TypeOK'
  <2>1. CASE InUse(req[p].f)
    <3>1. /\ Leave(p, "insertDomain")
          /\ UNCHANGED <<row, domains, minted, proxy, tasks, guests, silent>>
      BY <1>11, <2>1 DEF InsertDomain
    <3> QED
      BY <3>1 DEF Leave
  <2>2. CASE ~InUse(req[p].f)
    <3>1. [fqdn |-> req[p].f, vm |-> req[p].v] \in Row /\ req[p].d \in minted
      BY <1>11 DEF InsertDomain
    <3>2. domains' = [domains EXCEPT ![req[p].d] = [fqdn |-> req[p].f, vm |-> req[p].v]]
      BY <1>11, <2>2 DEF InsertDomain
    <3>3. domains' \in [Domain -> Row \cup {None}] /\ \A d \in Domain : domains'[d] # None => d \in minted
      BY <3>1, <3>2
    <3> QED
      BY <1>11, <2>2, <3>3 DEF InsertDomain, Goto
  <2> QED
    BY <2>1, <2>2
<1>12. ASSUME NEW p \in Proc, DeleteDomain(p)
       PROVE  TypeOK'
  BY <1>12 DEF DeleteDomain, Goto
<1>13. ASSUME NEW p \in Proc, ReadVm(p)
       PROVE  TypeOK'
  <2>1. req[p].d \in Domain
    BY <1>13 DEF ReadVm, Goto, Leave
  <2>2. silent' \in SUBSET Domain
    BY <1>13, <2>1 DEF ReadVm
  <2>3. CASE HasRow(req[p].v) /\ req[p].v \notin Abroad
    BY <1>13, <2>2, <2>3 DEF ReadVm, Goto
  <2>4. CASE ~(HasRow(req[p].v) /\ req[p].v \notin Abroad)
    <3>1. Leave(p, "readVm") /\ UNCHANGED <<tables, tasks, guests>>
      BY <1>13, <2>4 DEF ReadVm
    <3> QED
      BY <2>2, <3>1 DEF Leave
  <2> QED
    BY <2>3, <2>4
<1>14. ASSUME NEW p \in Proc, ReadProxy(p)
       PROVE  TypeOK'
  <2>1. CASE proxy = None
    <3>1. Leave(p, "readProxy") /\ UNCHANGED <<tables, tasks, guests, silent>>
      BY <1>14, <2>1 DEF ReadProxy
    <3> QED
      BY <3>1 DEF Leave
  <2>2. CASE proxy # None
    <3>0. req[p] \in [d : Domain \cup {None}, f : Fqdn \cup {None}, v : Vm \cup {None}]
      OBVIOUS
    <3>1. [req[p] EXCEPT !.v = None] \in [d : Domain \cup {None}, f : Fqdn \cup {None}, v : Vm \cup {None}]
      BY <3>0
    <3>2. req' = [req EXCEPT ![p] = [req[p] EXCEPT !.v = None]]
      BY <1>14, <2>2 DEF ReadProxy
    <3>3. req' \in [Proc -> [d : Domain \cup {None}, f : Fqdn \cup {None}, v : Vm \cup {None}]]
      BY <3>1, <3>2
    <3> QED
      BY <1>14, <2>2, <3>3 DEF ReadProxy
  <2> QED
    BY <2>1, <2>2
<1>15. ASSUME NEW p \in Proc, EnqueueReload(p)
       PROVE  TypeOK'
  BY <1>15 DEF EnqueueReload, Leave, Enqueue
<1>16. ASSUME NEW p \in Proc, DropDomains(p)
       PROVE  TypeOK'
  BY <1>16 DEF DropDomains, Goto
<1>17. ASSUME NEW p \in Proc, DropProxy(p)
       PROVE  TypeOK'
  BY <1>17 DEF DropProxy, Goto
<1>18. ASSUME NEW p \in Proc, Down(p)
       PROVE  TypeOK'
  <2>1. /\ pc' \in [Proc -> Steps \cup {"idle"}]
        /\ UNCHANGED <<tables, tasks, silent, req, expected, exec>>
    BY <1>18 DEF Down, Goto
  <2>2. up' \in SUBSET Vm /\ off' \in SUBSET (Vm \ up') /\ caddy' \in SUBSET (up' \cup off')
    BY <1>18 DEF Down, TearDown, Wipe
  <2>3. \A r \in {file', loaded'} : r \in [Vm -> SUBSET Domain]
    BY <1>18 DEF Down, TearDown, Wipe
  <2> QED
    BY <2>1, <2>2, <2>3
<1>19. ASSUME NEW p \in Proc, DropRow(p)
       PROVE  TypeOK'
  BY <1>19 DEF DropRow, Leave
<1>20. ASSUME NEW p \in Proc, Raise(p)
       PROVE  TypeOK'
  <2>1. silent' \in SUBSET Domain
    BY <1>20 DEF Raise, Silenced
  <2> QED
    BY <1>20, <2>1 DEF Raise, Leave
<1>21. ASSUME NEW v \in Vm, TakeSetup(v)
       PROVE  TypeOK'
  BY <1>21 DEF TakeSetup
<1>37. CASE TakeReload
  BY <1>37 DEF TakeReload
<1>22. CASE SetupVm
  BY <1>22 DEF SetupVm
<1>23. ASSUME NEW w \in Vm, Install(w)
       PROVE  TypeOK'
  BY <1>23 DEF Install, RunSetup
<1>24. CASE ReadOwnProxy
  BY <1>24 DEF ReadOwnProxy
<1>25. CASE ReadProxyVm
  BY <1>25 DEF ReadProxyVm
<1>26. CASE ReadDomains
  BY <1>26 DEF ReadDomains
<1>27. ASSUME NEW id \in Domain, NEW v \in Vm, Resolve(id, v)
       PROVE  TypeOK'
  BY <1>27 DEF Resolve
<1>28. ASSUME NEW w \in Vm, Push(w)
       PROVE  TypeOK'
  BY <1>28 DEF Push, WriteFile, LoadFile
<1>29. CASE SshFails
  BY <1>29 DEF SshFails, RunSetup, WriteFile, LoadFile
<1>30. CASE AbortTask
  BY <1>30 DEF AbortTask
<1>31. ASSUME NEW p \in Proc, NEW v \in Vm, Expire(p, v)
       PROVE  TypeOK'
  BY <1>31 DEF Expire, Enter
<1>32. ASSUME NEW p \in Proc, ReadRows(p)
       PROVE  TypeOK'
  BY <1>32 DEF ReadRows
<1>38. ASSUME NEW p \in Proc, NEW v \in Vm, Reap(p, v)
       PROVE  TypeOK'
  BY <1>38 DEF Reap, Enter
<1>39. ASSUME NEW v \in Vm, Halt(v)
       PROVE  TypeOK'
  BY <1>39 DEF Halt
<1>40. ASSUME NEW v \in Vm, Boot(v)
       PROVE  TypeOK'
  BY <1>40 DEF Boot, Boots
<1>41. ASSUME NEW v \in Vm, Recreate(v)
       PROVE  TypeOK'
  BY <1>41 DEF Recreate, Wipe
<1>42. CASE Restart
  BY <1>42 DEF Restart, Silenced
<1>33. CASE UNCHANGED vars
  BY <1>33 DEF vars
<1>34. ASSUME NEW p \in Proc, Request(p)
       PROVE  TypeOK'
  BY <1>34, <1>1, <1>2, <1>3, <1>4, <1>5 DEF Request
<1>35. ASSUME NEW p \in Proc, Handle(p)
       PROVE  TypeOK'
  BY <1>35, <1>6, <1>7, <1>8, <1>9, <1>10, <1>11, <1>12, <1>13, <1>14, <1>15, <1>16,
     <1>17, <1>18, <1>19, <1>20, <1>38 DEF Handle
<1>36. CASE Execute
  BY <1>36, <1>21, <1>37, <1>22, <1>23, <1>24, <1>25, <1>26, <1>27, <1>28,
     <1>33 DEF Execute, NoTask
<1>43. CASE Event
  BY <1>43, <1>34, <1>31, <1>32, <1>39, <1>41, <1>42 DEF Event, Proc
<1>44. CASE Step
  BY <1>44, <1>35, <1>40, <1>36, <1>29, <1>30 DEF Step
<1> QED
  BY <1>43, <1>44, <1>33 DEF Next

-----------------------------------------------------------------------------
(* What handlers and executor hold.                                        *)

\* Handlers hold ids of rows that are there or have been, and the executor nothing
\* before it reads the domains.
LEMMA NextLocalsFit ==
  ASSUME TypeOK, TypeOK', LocalsFit, [Next]_vars
  PROVE  LocalsFit'
<1> USE DEF TypeOK, LocalsFit, Born, Row, NoReq, Idle, Steps, tables, tasks, guests, control,
     HasRow, OfVm
<1>1. ASSUME NEW p \in Proc, NEW v \in Vm, CreateVm(p, v)
       PROVE  LocalsFit'
  BY <1>1 DEF CreateVm
<1>2. ASSUME NEW p \in Proc, CreateProxy(p)
       PROVE  LocalsFit'
  BY <1>2 DEF CreateProxy, Begin, Enter
<1>3. ASSUME NEW p \in Proc, NEW id \in Domain, NEW f \in Fqdn, NEW v \in Vm, AddDomain(p, id, f, v)
       PROVE  LocalsFit'
  BY <1>3 DEF AddDomain, Begin, Enter
<1>4. ASSUME NEW p \in Proc, NEW id \in Domain, RemoveDomain(p, id)
       PROVE  LocalsFit'
  BY <1>4 DEF RemoveDomain, Begin, Enter
<1>5. ASSUME NEW p \in Proc, NEW v \in Vm, DeleteVm(p, v)
       PROVE  LocalsFit'
  BY <1>5 DEF DeleteVm, Begin, Enter
<1>6. ASSUME NEW p \in Proc, NEW v \in Vm, SpawnProxy(p, v)
       PROVE  LocalsFit'
  BY <1>6 DEF SpawnProxy
<1>7. ASSUME NEW p \in Proc, BringUp(p)
       PROVE  LocalsFit'
  BY <1>7 DEF BringUp, Goto
<1>8. ASSUME NEW p \in Proc, InsertProxy(p)
       PROVE  LocalsFit'
  <2>1. CASE proxy = None
    <3>1. /\ pc[p] = "insertProxy" /\ pc' = [pc EXCEPT ![p] = "setupTask"]
          /\ proxy' = req[p].v /\ UNCHANGED <<row, domains, minted, up, off, req, exec>>
      BY <1>8, <2>1 DEF InsertProxy, Goto
    <3>2. req[p].v \in Born
      BY <3>1
    <3> QED
      BY <3>1, <3>2
  <2>2. CASE proxy # None
    <3>1. Leave(p, "insertProxy") /\ UNCHANGED <<tables, tasks, guests, silent>>
      BY <1>8, <2>2 DEF InsertProxy
    <3> QED
      BY <3>1 DEF Leave
  <2> QED
    BY <2>1, <2>2
<1>9. ASSUME NEW p \in Proc, SetupTask(p)
       PROVE  LocalsFit'
  BY <1>9 DEF SetupTask, Goto
<1>10. ASSUME NEW p \in Proc, ReloadTask(p)
       PROVE  LocalsFit'
  BY <1>10 DEF ReloadTask, Leave
<1>11. ASSUME NEW p \in Proc, InsertDomain(p)
       PROVE  LocalsFit'
  <2>1. CASE InUse(req[p].f)
    <3>1. Leave(p, "insertDomain") /\ UNCHANGED <<tables, tasks, guests, silent>>
      BY <1>11, <2>1 DEF InsertDomain
    <3> QED
      BY <3>1 DEF Leave
  <2>2. CASE ~InUse(req[p].f)
    BY <1>11, <2>2 DEF InsertDomain, Goto
  <2> QED
    BY <2>1, <2>2
<1>12. ASSUME NEW p \in Proc, DeleteDomain(p)
       PROVE  LocalsFit'
  BY <1>12 DEF DeleteDomain, Goto
<1>13. ASSUME NEW p \in Proc, ReadVm(p)
       PROVE  LocalsFit'
  <2>1. CASE HasRow(req[p].v) /\ req[p].v \notin Abroad
    BY <1>13, <2>1 DEF ReadVm, Goto
  <2>2. CASE ~(HasRow(req[p].v) /\ req[p].v \notin Abroad)
    <3>1. Leave(p, "readVm") /\ UNCHANGED <<tables, tasks, guests>>
      BY <1>13, <2>2 DEF ReadVm
    <3> QED
      BY <3>1 DEF Leave
  <2> QED
    BY <2>1, <2>2
<1>14. ASSUME NEW p \in Proc, ReadProxy(p)
       PROVE  LocalsFit'
  <2>1. CASE proxy = None
    <3>1. Leave(p, "readProxy") /\ UNCHANGED <<tables, tasks, guests, silent>>
      BY <1>14, <2>1 DEF ReadProxy
    <3> QED
      BY <3>1 DEF Leave
  <2>2. CASE proxy # None
    <3>1. /\ pc[p] = "readProxy" /\ pc' = [pc EXCEPT ![p] = "enqueue"]
          /\ req' = [req EXCEPT ![p].v = None]
          /\ UNCHANGED <<row, domains, minted, proxy, up, off, exec>>
      BY <1>14, <2>2 DEF ReadProxy
    <3>2. req[p].d \in minted /\ req'[p].d = req[p].d /\ \A t \in Proc \ {p} : req'[t] = req[t]
      BY <3>1
    <3> QED
      BY <3>1, <3>2
  <2> QED
    BY <2>1, <2>2
<1>15. ASSUME NEW p \in Proc, EnqueueReload(p)
       PROVE  LocalsFit'
  BY <1>15 DEF EnqueueReload, Leave
<1>16. ASSUME NEW p \in Proc, DropDomains(p)
       PROVE  LocalsFit'
  BY <1>16 DEF DropDomains, Goto
<1>17. ASSUME NEW p \in Proc, DropProxy(p)
       PROVE  LocalsFit'
  BY <1>17 DEF DropProxy, Goto
<1>18. ASSUME NEW p \in Proc, Down(p)
       PROVE  LocalsFit'
  <2>1. /\ UNCHANGED <<tables, req, exec>> /\ up' \subseteq up /\ off' \subseteq off
        /\ \/ pc[p] = "down" /\ pc' = [pc EXCEPT ![p] = "dropRow"]
           \/ pc[p] = "reap" /\ pc' = [pc EXCEPT ![p] = "orphans"]
    BY <1>18 DEF Down, TearDown, Goto
  <2> QED
    BY <2>1
<1>19. ASSUME NEW p \in Proc, DropRow(p)
       PROVE  LocalsFit'
  BY <1>19 DEF DropRow, Leave
<1>20. ASSUME NEW p \in Proc, Raise(p)
       PROVE  LocalsFit'
  BY <1>20 DEF Raise, Leave
<1>21. ASSUME NEW v \in Vm, TakeSetup(v)
       PROVE  LocalsFit'
  BY <1>21 DEF TakeSetup
<1>37. CASE TakeReload
  BY <1>37 DEF TakeReload
<1>22. CASE SetupVm
  BY <1>22 DEF SetupVm
<1>23. ASSUME NEW w \in Vm, Install(w)
       PROVE  LocalsFit'
  BY <1>23 DEF Install, RunSetup
<1>24. CASE ReadOwnProxy
  BY <1>24 DEF ReadOwnProxy
<1>25. CASE ReadProxyVm
  BY <1>25 DEF ReadProxyVm
<1>26. CASE ReadDomains
  BY <1>26 DEF ReadDomains
<1>27. ASSUME NEW id \in Domain, NEW v \in Vm, Resolve(id, v)
       PROVE  LocalsFit'
  BY <1>27 DEF Resolve
<1>28. ASSUME NEW w \in Vm, Push(w)
       PROVE  LocalsFit'
  BY <1>28 DEF Push
<1>29. CASE SshFails
  BY <1>29 DEF SshFails
<1>30. CASE AbortTask
  BY <1>30 DEF AbortTask
<1>31. ASSUME NEW p \in Proc, NEW v \in Vm, Expire(p, v)
       PROVE  LocalsFit'
  BY <1>31 DEF Expire, Enter
<1>32. ASSUME NEW p \in Proc, ReadRows(p)
       PROVE  LocalsFit'
  BY <1>32 DEF ReadRows
<1>38. ASSUME NEW p \in Proc, NEW v \in Vm, Reap(p, v)
       PROVE  LocalsFit'
  BY <1>38 DEF Reap, Enter
<1>39. ASSUME NEW v \in Vm, Halt(v)
       PROVE  LocalsFit'
  BY <1>39 DEF Halt
<1>40. ASSUME NEW v \in Vm, Boot(v)
       PROVE  LocalsFit'
  BY <1>40 DEF Boot, Boots
<1>41. ASSUME NEW v \in Vm, Recreate(v)
       PROVE  LocalsFit'
  BY <1>41 DEF Recreate, Wipe
<1>42. CASE Restart
  BY <1>42 DEF Restart, Silenced
<1>33. CASE UNCHANGED vars
  BY <1>33 DEF vars
<1>34. ASSUME NEW p \in Proc, Request(p)
       PROVE  LocalsFit'
  BY <1>34, <1>1, <1>2, <1>3, <1>4, <1>5 DEF Request
<1>35. ASSUME NEW p \in Proc, Handle(p)
       PROVE  LocalsFit'
  BY <1>35, <1>6, <1>7, <1>8, <1>9, <1>10, <1>11, <1>12, <1>13, <1>14, <1>15, <1>16,
     <1>17, <1>18, <1>19, <1>20, <1>38 DEF Handle
<1>36. CASE Execute
  BY <1>36, <1>21, <1>37, <1>22, <1>23, <1>24, <1>25, <1>26, <1>27, <1>28,
     <1>33 DEF Execute, NoTask
<1>43. CASE Event
  BY <1>43, <1>34, <1>31, <1>32, <1>39, <1>41, <1>42 DEF Event, Proc
<1>44. CASE Step
  BY <1>44, <1>35, <1>40, <1>36, <1>29, <1>30 DEF Step
<1> QED
  BY <1>43, <1>44, <1>33 DEF Next

-----------------------------------------------------------------------------
(* Proxies.                                                                *)

\* A VM is spawned as a proxy once, and brought up before it is the proxy.
LEMMA NextBroughtUpOnce ==
  ASSUME TypeOK, TypeOK', LocalsFit, BroughtUpOnce, [Next]_vars
  PROVE  BroughtUpOnce'
<1> USE DEF TypeOK, LocalsFit, BroughtUpOnce, Born, NoReq, Steps, tables, tasks, guests, control
<1>1. ASSUME NEW p \in Proc, CreateProxy(p)
       PROVE  BroughtUpOnce'
  BY <1>1 DEF CreateProxy, Begin, Enter
<1>2. ASSUME NEW p \in Proc, NEW id \in Domain, NEW f \in Fqdn, NEW v \in Vm, AddDomain(p, id, f, v)
       PROVE  BroughtUpOnce'
  BY <1>2 DEF AddDomain, Begin, Enter
<1>3. ASSUME NEW p \in Proc, NEW id \in Domain, RemoveDomain(p, id)
       PROVE  BroughtUpOnce'
  BY <1>3 DEF RemoveDomain, Begin, Enter
<1>4. ASSUME NEW p \in Proc, NEW v \in Vm, DeleteVm(p, v)
       PROVE  BroughtUpOnce'
  BY <1>4 DEF DeleteVm, Begin, Enter
<1>5. ASSUME NEW p \in Proc, NEW v \in Vm, SpawnProxy(p, v)
       PROVE  BroughtUpOnce'
  BY <1>5 DEF SpawnProxy
<1>6. ASSUME NEW p \in Proc, BringUp(p)
       PROVE  BroughtUpOnce'
  BY <1>6 DEF BringUp, Goto
<1>7. ASSUME NEW p \in Proc, InsertProxy(p)
       PROVE  BroughtUpOnce'
  <2>1. CASE proxy = None
    BY <1>7, <2>1 DEF InsertProxy, Goto
  <2>2. CASE proxy # None
    <3>1. Leave(p, "insertProxy") /\ UNCHANGED <<tables, tasks, guests, silent>>
      BY <1>7, <2>2 DEF InsertProxy
    <3> QED
      BY <3>1 DEF Leave
  <2> QED
    BY <2>1, <2>2
<1>8. ASSUME NEW p \in Proc, SetupTask(p)
       PROVE  BroughtUpOnce'
  BY <1>8 DEF SetupTask, Goto
<1>9. ASSUME NEW p \in Proc, ReloadTask(p)
       PROVE  BroughtUpOnce'
  BY <1>9 DEF ReloadTask, Leave
<1>10. ASSUME NEW p \in Proc, InsertDomain(p)
       PROVE  BroughtUpOnce'
  <2>1. CASE InUse(req[p].f)
    <3>1. Leave(p, "insertDomain") /\ UNCHANGED <<tables, tasks, guests, silent>>
      BY <1>10, <2>1 DEF InsertDomain
    <3> QED
      BY <3>1 DEF Leave
  <2>2. CASE ~InUse(req[p].f)
    BY <1>10, <2>2 DEF InsertDomain, Goto
  <2> QED
    BY <2>1, <2>2
<1>11. ASSUME NEW p \in Proc, DeleteDomain(p)
       PROVE  BroughtUpOnce'
  BY <1>11 DEF DeleteDomain, Goto
<1>12. ASSUME NEW p \in Proc, ReadVm(p)
       PROVE  BroughtUpOnce'
  BY <1>12 DEF ReadVm, Goto, Leave
<1>13. ASSUME NEW p \in Proc, ReadProxy(p)
       PROVE  BroughtUpOnce'
  <2>1. CASE proxy = None
    <3>1. Leave(p, "readProxy") /\ UNCHANGED <<tables, tasks, guests, silent>>
      BY <1>13, <2>1 DEF ReadProxy
    <3> QED
      BY <3>1 DEF Leave
  <2>2. CASE proxy # None
    BY <1>13, <2>2 DEF ReadProxy
  <2> QED
    BY <2>1, <2>2
<1>14. ASSUME NEW p \in Proc, EnqueueReload(p)
       PROVE  BroughtUpOnce'
  BY <1>14 DEF EnqueueReload, Leave
<1>15. ASSUME NEW p \in Proc, DropDomains(p)
       PROVE  BroughtUpOnce'
  BY <1>15 DEF DropDomains, Goto
<1>16. ASSUME NEW p \in Proc, DropProxy(p)
       PROVE  BroughtUpOnce'
  BY <1>16 DEF DropProxy, Goto
<1>17. ASSUME NEW p \in Proc, Down(p)
       PROVE  BroughtUpOnce'
  BY <1>17 DEF Down, TearDown, Wipe, Goto
<1>18. ASSUME NEW p \in Proc, DropRow(p)
       PROVE  BroughtUpOnce'
  BY <1>18 DEF DropRow, Leave
<1>19. ASSUME NEW p \in Proc, Raise(p)
       PROVE  BroughtUpOnce'
  BY <1>19 DEF Raise, Leave
<1>26. ASSUME NEW p \in Proc, ReadRows(p) \/ \E v \in Vm : Expire(p, v) \/ Reap(p, v)
       PROVE  BroughtUpOnce'
  <2>1. CASE ReadRows(p)
    BY <2>1 DEF ReadRows
  <2>2. ASSUME NEW v \in Vm, Expire(p, v) \/ Reap(p, v)
        PROVE  BroughtUpOnce'
    <3>1. /\ pc'[p] \in {"down", "dropDomains"} /\ UNCHANGED proxy
          /\ \A t \in Proc \ {p} : pc'[t] = pc[t] /\ req'[t] = req[t]
      BY <2>2 DEF Expire, Reap, Enter
    <3> QED
      BY <3>1
  <2> QED
    BY <1>26, <2>1, <2>2
<1>27. CASE Restart
  BY <1>27 DEF Restart, Silenced
<1>20. CASE UNCHANGED <<proxy, pc, req>>
  BY <1>20
<1>21. ASSUME NEW p \in Proc, (\E v \in Vm : CreateVm(p, v))
       PROVE  BroughtUpOnce'
  BY <1>21, <1>20 DEF CreateVm, vars, tables, tasks, guests, control
<1>22. ASSUME \/ (\E v \in Vm : TakeSetup(v)) \/ TakeReload \/ SetupVm \/ ReadOwnProxy \/ ReadProxyVm \/ ReadDomains \/ SshFails
              \/ AbortTask \/ UNCHANGED vars \/ (\E w \in Vm : Install(w) \/ Push(w))
              \/ (\E id \in Domain, v \in Vm : Resolve(id, v))
              \/ (\E v \in Vm : Halt(v) \/ Boot(v) \/ Recreate(v))
       PROVE  BroughtUpOnce'
  BY <1>22, <1>20 DEF TakeSetup, TakeReload, SetupVm, Install, RunSetup, ReadOwnProxy,
     ReadProxyVm, ReadDomains,
     Resolve, Push, WriteFile, LoadFile, SshFails, AbortTask, Halt, Boot, Boots, Recreate,
     Wipe, vars, tables, tasks, guests,
     control
<1>23. ASSUME NEW p \in Proc, Request(p)
       PROVE  BroughtUpOnce'
  BY <1>23, <1>21, <1>1, <1>2, <1>3, <1>4 DEF Request
<1>24. ASSUME NEW p \in Proc, Handle(p)
       PROVE  BroughtUpOnce'
  BY <1>24, <1>5, <1>6, <1>7, <1>8, <1>9, <1>10, <1>11, <1>12, <1>13, <1>14, <1>15, <1>16,
     <1>17, <1>18, <1>19, <1>26 DEF Handle
<1>25. CASE Execute
  BY <1>25, <1>22 DEF Execute, NoTask
<1>28. CASE Event
  BY <1>28, <1>23, <1>26, <1>22, <1>27 DEF Event, Proc
<1>29. CASE Step
  BY <1>29, <1>24, <1>25, <1>22 DEF Step
<1> QED
  BY <1>28, <1>29, <1>22 DEF Next

-----------------------------------------------------------------------------
(* Reloads that are to come.                                               *)

\* A reload that is to come is enqueued and taken, or its handler fails.
LEMMA NextReloadToCome ==
  ASSUME TypeOK, LocalsFit, ReloadToCome, [Next]_vars
  PROVE  ReloadToCome' \/ silent' = Domain \/ exec'.step = "readProxy"
<1> USE DEF ReloadToCome, TypeOK, LocalsFit, Steps, Born, Idle, ReloadQueued, tables, tasks, guests,
     control
<1>1. ASSUME NEW p \in Proc, CreateProxy(p)
       PROVE  ReloadToCome' \/ silent' = Domain \/ exec'.step = "readProxy"
  BY <1>1 DEF CreateProxy, Begin, Enter
<1>2. ASSUME NEW p \in Proc, NEW id \in Domain, NEW f \in Fqdn, NEW v \in Vm, AddDomain(p, id, f, v)
       PROVE  ReloadToCome' \/ silent' = Domain \/ exec'.step = "readProxy"
  BY <1>2 DEF AddDomain, Begin, Enter
<1>3. ASSUME NEW p \in Proc, NEW id \in Domain, RemoveDomain(p, id)
       PROVE  ReloadToCome' \/ silent' = Domain \/ exec'.step = "readProxy"
  BY <1>3 DEF RemoveDomain, Begin, Enter
<1>4. ASSUME NEW p \in Proc, NEW v \in Vm, DeleteVm(p, v)
       PROVE  ReloadToCome' \/ silent' = Domain \/ exec'.step = "readProxy"
  BY <1>4 DEF DeleteVm, Begin, Enter
<1>5. ASSUME NEW p \in Proc, NEW v \in Vm, SpawnProxy(p, v)
       PROVE  ReloadToCome' \/ silent' = Domain \/ exec'.step = "readProxy"
  BY <1>5 DEF SpawnProxy
<1>6. ASSUME NEW p \in Proc, BringUp(p)
       PROVE  ReloadToCome' \/ silent' = Domain \/ exec'.step = "readProxy"
  BY <1>6 DEF BringUp, Goto
<1>7. ASSUME NEW p \in Proc, InsertProxy(p)
       PROVE  ReloadToCome' \/ silent' = Domain \/ exec'.step = "readProxy"
  BY <1>7 DEF InsertProxy, Goto, Leave
<1>8. ASSUME NEW p \in Proc, SetupTask(p)
       PROVE  ReloadToCome' \/ silent' = Domain \/ exec'.step = "readProxy"
  BY <1>8 DEF SetupTask, Goto
<1>9. ASSUME NEW p \in Proc, ReloadTask(p)
       PROVE  ReloadToCome' \/ silent' = Domain \/ exec'.step = "readProxy"
  BY <1>9 DEF ReloadTask, Enqueue
<1>10. ASSUME NEW p \in Proc, InsertDomain(p)
       PROVE  ReloadToCome' \/ silent' = Domain \/ exec'.step = "readProxy"
  BY <1>10 DEF InsertDomain, Goto, Leave
<1>11. ASSUME NEW p \in Proc, DeleteDomain(p)
       PROVE  ReloadToCome' \/ silent' = Domain \/ exec'.step = "readProxy"
  BY <1>11 DEF DeleteDomain, Goto
<1>12. ASSUME NEW p \in Proc, ReadVm(p)
       PROVE  ReloadToCome' \/ silent' = Domain \/ exec'.step = "readProxy"
  BY <1>12 DEF ReadVm, Goto, Leave
<1>13. ASSUME NEW p \in Proc, ReadProxy(p)
       PROVE  ReloadToCome' \/ silent' = Domain \/ exec'.step = "readProxy"
  BY <1>13 DEF ReadProxy, Leave
<1>14. ASSUME NEW p \in Proc, EnqueueReload(p)
       PROVE  ReloadToCome' \/ silent' = Domain \/ exec'.step = "readProxy"
  BY <1>14 DEF EnqueueReload, Enqueue
<1>15. ASSUME NEW p \in Proc, DropDomains(p)
       PROVE  ReloadToCome' \/ silent' = Domain \/ exec'.step = "readProxy"
  BY <1>15 DEF DropDomains, Goto
<1>16. ASSUME NEW p \in Proc, DropProxy(p)
       PROVE  ReloadToCome' \/ silent' = Domain \/ exec'.step = "readProxy"
  BY <1>16 DEF DropProxy, Goto
<1>17. ASSUME NEW p \in Proc, Down(p)
       PROVE  ReloadToCome' \/ silent' = Domain \/ exec'.step = "readProxy"
  BY <1>17 DEF Down, TearDown, Wipe, Goto
<1>18. ASSUME NEW p \in Proc, DropRow(p)
       PROVE  ReloadToCome' \/ silent' = Domain \/ exec'.step = "readProxy"
  BY <1>18 DEF DropRow, Leave
<1>19. ASSUME NEW p \in Proc, Raise(p)
       PROVE  ReloadToCome' \/ silent' = Domain \/ exec'.step = "readProxy"
  BY <1>19 DEF Raise, Leave, Silenced
<1>20. CASE TakeReload
  BY <1>20 DEF TakeReload
<1>27. ASSUME NEW p \in Proc, ReadRows(p) \/ \E v \in Vm : Expire(p, v) \/ Reap(p, v)
       PROVE  ReloadToCome' \/ silent' = Domain \/ exec'.step = "readProxy"
  BY <1>27 DEF ReadRows, Expire, Reap, Enter
<1>28. CASE Restart
  BY <1>28 DEF Restart, Silenced
<1>21. CASE UNCHANGED <<pc, reloads>>
  BY <1>21
<1>22. ASSUME NEW p \in Proc, (\E v \in Vm : CreateVm(p, v))
       PROVE  ReloadToCome' \/ silent' = Domain \/ exec'.step = "readProxy"
  BY <1>22, <1>21 DEF CreateVm, vars, tables, tasks, guests, control
<1>23. ASSUME \/ (\E v \in Vm : TakeSetup(v)) \/ SetupVm \/ ReadOwnProxy \/ ReadProxyVm \/ ReadDomains \/ SshFails \/ AbortTask
              \/ UNCHANGED vars \/ (\E w \in Vm : Install(w) \/ Push(w))
              \/ (\E id \in Domain, v \in Vm : Resolve(id, v))
              \/ (\E v \in Vm : Halt(v) \/ Boot(v) \/ Recreate(v))
       PROVE  ReloadToCome' \/ silent' = Domain \/ exec'.step = "readProxy"
  BY <1>23, <1>21 DEF TakeSetup, SetupVm, Install, ReadOwnProxy, ReadProxyVm, ReadDomains, Resolve,
     Push, SshFails, AbortTask, Halt, Boot, Boots, Recreate, Wipe, vars, tables, tasks,
     guests, control
<1>24. ASSUME NEW p \in Proc, Request(p)
       PROVE  ReloadToCome' \/ silent' = Domain \/ exec'.step = "readProxy"
  BY <1>24, <1>22, <1>1, <1>2, <1>3, <1>4 DEF Request
<1>25. ASSUME NEW p \in Proc, Handle(p)
       PROVE  ReloadToCome' \/ silent' = Domain \/ exec'.step = "readProxy"
  BY <1>25, <1>5, <1>6, <1>7, <1>8, <1>9, <1>10, <1>11, <1>12, <1>13, <1>14, <1>15, <1>16,
     <1>17, <1>18, <1>19, <1>27 DEF Handle
<1>26. CASE Execute
  BY <1>26, <1>20, <1>23 DEF Execute, NoTask
<1>29. CASE Event
  BY <1>29, <1>24, <1>27, <1>23, <1>28 DEF Event, Proc
<1>30. CASE Step
  BY <1>30, <1>25, <1>26, <1>23 DEF Step
<1> QED
  BY <1>29, <1>30, <1>23 DEF Next

\* A proxy that was replaced since the executor read it has a reload to come.
LEMMA NextReplacedReloads ==
  ASSUME TypeOK, TypeOK', LocalsFit, ReplacedReloads, [Next]_vars
  PROVE  ReplacedReloads'
<1> USE DEF ReplacedReloads, TypeOK, Idle, tables, tasks, guests, control
<1>1. ASSUME NEW p \in Proc, InsertProxy(p)
       PROVE  ReplacedReloads'
  <2>1. CASE proxy = None
    BY <1>1, <2>1 DEF InsertProxy, Goto, ReloadToCome
  <2>2. CASE proxy # None
    <3>1. UNCHANGED <<exec, proxy, silent>>
      BY <1>1, <2>2 DEF InsertProxy, Leave
    <3> QED
      BY <3>1, NextReloadToCome
  <2> QED
    BY <2>1, <2>2
<1>2. ASSUME NEW p \in Proc, DropProxy(p)
       PROVE  ReplacedReloads'
  BY <1>2, NextReloadToCome DEF DropProxy, Goto
<1>3. ASSUME TakeReload \/ \E v \in Vm : TakeSetup(v)
      PROVE  ReplacedReloads'
  BY <1>3 DEF TakeReload, TakeSetup
<1>4. CASE SetupVm
  BY <1>4 DEF SetupVm
<1>5. ASSUME NEW w \in Vm, Install(w)
       PROVE  ReplacedReloads'
  BY <1>5 DEF Install
<1>6. CASE ReadOwnProxy
  BY <1>6 DEF ReadOwnProxy
<1>7. CASE ReadProxyVm
  BY <1>7 DEF ReadProxyVm
<1>8. CASE ReadDomains
  BY <1>8 DEF ReadDomains
<1>9. ASSUME NEW id \in Domain, NEW v \in Vm, Resolve(id, v)
       PROVE  ReplacedReloads'
  BY <1>9 DEF Resolve
<1>10. ASSUME NEW w \in Vm, Push(w)
       PROVE  ReplacedReloads'
  BY <1>10 DEF Push
<1>11. CASE SshFails
  BY <1>11 DEF SshFails
<1>12. CASE AbortTask \/ Restart
  BY <1>12 DEF AbortTask, Restart
<1>13. CASE UNCHANGED <<exec, proxy>> /\ silent \subseteq silent'
  BY <1>13, NextReloadToCome
<1>14. ASSUME NEW p \in Proc, \/ CreateProxy(p) \/ BringUp(p) \/ SetupTask(p) \/ ReloadTask(p) \/ InsertDomain(p)
                                \/ DeleteDomain(p) \/ ReadVm(p) \/ ReadProxy(p) \/ EnqueueReload(p)
                                \/ DropDomains(p) \/ Down(p) \/ DropRow(p) \/ Raise(p) \/ ReadRows(p)
                                \/ (\E v \in Vm : Expire(p, v) \/ Reap(p, v))
                                \/ (\E v \in Vm : CreateVm(p, v) \/ DeleteVm(p, v) \/ SpawnProxy(p, v))
                                \/ (\E id \in Domain, f \in Fqdn, v \in Vm : AddDomain(p, id, f, v))
                                \/ (\E id \in Domain : RemoveDomain(p, id))
       PROVE  ReplacedReloads'
  BY <1>14, <1>13 DEF CreateVm, CreateProxy, Begin, Enter, AddDomain, RemoveDomain, DeleteVm,
     SpawnProxy, BringUp, Goto, SetupTask, ReloadTask, Leave, InsertDomain, DeleteDomain,
     ReadVm, ReadProxy, EnqueueReload, DropDomains, Down, TearDown, Wipe, DropRow, Raise,
     Silenced, ReadRows, Expire, Reap, vars,
     tables, tasks, guests, control
<1>15. ASSUME UNCHANGED vars \/ (\E v \in Vm : Halt(v) \/ Boot(v) \/ Recreate(v))
       PROVE  ReplacedReloads'
  BY <1>15, <1>13 DEF Halt, Boot, Boots, Recreate, Wipe, vars, tables, tasks, guests, control
<1>16. ASSUME NEW p \in Proc, Request(p)
       PROVE  ReplacedReloads'
  BY <1>16, <1>14 DEF Request
<1>17. ASSUME NEW p \in Proc, Handle(p)
       PROVE  ReplacedReloads'
  BY <1>17, <1>14, <1>1, <1>2 DEF Handle
<1>18. CASE Execute
  BY <1>18, <1>3, <1>4, <1>5, <1>6, <1>7, <1>8, <1>9, <1>10, <1>15 DEF Execute, NoTask
<1>19. CASE Event
  BY <1>19, <1>16, <1>16, <1>14, <1>15, <1>12 DEF Event, Proc
<1>20. CASE Step
  BY <1>20, <1>17, <1>18, <1>15, <1>11, <1>12 DEF Step
<1> QED
  BY <1>19, <1>20, <1>15 DEF Next

-----------------------------------------------------------------------------
(* Which changes owe a reload.                                             *)

\* What changes a domain, or whether its VM exists, owes the reload or is silent.
LEMMA NextLive ==
  ASSUME TypeOK, TypeOK', LocalsFit, NEW d \in Domain, d \notin silent', [Next]_vars
  PROVE  Owed(d)' \/ (domains'[d] = domains[d] /\ (Live(d)' <=> Live(d)))
<1> USE DEF TypeOK, LocalsFit, Live, HasRow, Born, Row, OfVm, tables, tasks, guests, control
<1>1. ASSUME NEW p \in Proc, NEW v \in Vm, CreateVm(p, v)
       PROVE  Owed(d)' \/ (domains'[d] = domains[d] /\ (Live(d)' <=> Live(d)))
  BY <1>1 DEF CreateVm
<1>2. ASSUME NEW p \in Proc, NEW v \in Vm, SpawnProxy(p, v)
       PROVE  Owed(d)' \/ (domains'[d] = domains[d] /\ (Live(d)' <=> Live(d)))
  BY <1>2 DEF SpawnProxy
<1>3. ASSUME NEW p \in Proc, InsertDomain(p)
       PROVE  Owed(d)' \/ (domains'[d] = domains[d] /\ (Live(d)' <=> Live(d)))
  <2>1. CASE d = req[p].d
    BY <1>3, <2>1 DEF InsertDomain, Goto, Leave, Owed
  <2>2. CASE d # req[p].d
    BY <1>3, <2>2 DEF InsertDomain
  <2> QED
    BY <2>1, <2>2
<1>4. ASSUME NEW p \in Proc, DeleteDomain(p)
       PROVE  Owed(d)' \/ (domains'[d] = domains[d] /\ (Live(d)' <=> Live(d)))
  <2>1. CASE d = req[p].d
    BY <1>4, <2>1 DEF DeleteDomain, Goto, Owed
  <2>2. CASE d # req[p].d
    BY <1>4, <2>2 DEF DeleteDomain
  <2> QED
    BY <2>1, <2>2
<1>5. ASSUME NEW p \in Proc, DropDomains(p)
       PROVE  Owed(d)' \/ (domains'[d] = domains[d] /\ (Live(d)' <=> Live(d)))
  BY <1>5 DEF DropDomains, Goto
<1>6. ASSUME NEW p \in Proc, DropRow(p)
       PROVE  Owed(d)' \/ (domains'[d] = domains[d] /\ (Live(d)' <=> Live(d)))
  BY <1>6 DEF DropRow, Leave
<1>8. CASE UNCHANGED <<row, domains>>
  BY <1>8
<1>9. ASSUME NEW p \in Proc, \/ CreateProxy(p) \/ BringUp(p) \/ InsertProxy(p) \/ SetupTask(p) \/ ReloadTask(p)
                               \/ ReadVm(p) \/ ReadProxy(p) \/ EnqueueReload(p) \/ DropProxy(p) \/ Down(p)
                               \/ Raise(p) \/ ReadRows(p) \/ (\E v \in Vm : Expire(p, v) \/ Reap(p, v))
                               \/ (\E id \in Domain, f \in Fqdn, v \in Vm : AddDomain(p, id, f, v))
                               \/ (\E id \in Domain : RemoveDomain(p, id)) \/ (\E v \in Vm : DeleteVm(p, v))
       PROVE  Owed(d)' \/ (domains'[d] = domains[d] /\ (Live(d)' <=> Live(d)))
  BY <1>9, <1>8 DEF CreateProxy, Begin, Enter, AddDomain, RemoveDomain, DeleteVm, BringUp, Goto,
     InsertProxy, Leave, SetupTask, ReloadTask, ReadVm, ReadProxy, EnqueueReload,
     DropProxy, Down, TearDown, Wipe, Raise, ReadRows, Expire, Reap, vars, tables, tasks,
     guests, control
<1>10. ASSUME \/ (\E v \in Vm : TakeSetup(v)) \/ TakeReload \/ SetupVm \/ ReadOwnProxy \/ ReadProxyVm \/ ReadDomains \/ SshFails
              \/ AbortTask \/ UNCHANGED vars \/ (\E w \in Vm : Install(w) \/ Push(w))
              \/ (\E id \in Domain, v \in Vm : Resolve(id, v)) \/ (\E v \in Vm : Halt(v) \/ Boot(v) \/ Recreate(v)) \/ Restart
       PROVE  Owed(d)' \/ (domains'[d] = domains[d] /\ (Live(d)' <=> Live(d)))
  BY <1>10, <1>8 DEF TakeSetup, TakeReload, SetupVm, Install, ReadOwnProxy, ReadProxyVm,
     ReadDomains,
     Resolve, Push, SshFails, AbortTask, Halt, Boot, Boots, Recreate, Wipe, Restart,
     Silenced, vars, tables, tasks, guests, control
<1>11. ASSUME NEW p \in Proc, Request(p)
       PROVE  Owed(d)' \/ (domains'[d] = domains[d] /\ (Live(d)' <=> Live(d)))
  BY <1>11, <1>1, <1>9 DEF Request
<1>12. ASSUME NEW p \in Proc, Handle(p)
       PROVE  Owed(d)' \/ (domains'[d] = domains[d] /\ (Live(d)' <=> Live(d)))
  BY <1>12, <1>2, <1>9, <1>3, <1>4, <1>5, <1>6 DEF Handle
<1>13. CASE Execute
  BY <1>13, <1>10 DEF Execute, NoTask
<1>14. CASE Event
  BY <1>14, <1>11, <1>9, <1>10 DEF Event, Proc
<1>15. CASE Step
  BY <1>15, <1>12, <1>13, <1>10 DEF Step
<1> QED
  BY <1>14, <1>15, <1>10 DEF Next

\* A proxy that is there was there before, or its handler will have it loaded; one that
\* is recreated is silent.
LEMMA NextHasDisk ==
  ASSUME TypeOK, TypeOK', LocalsFit, BroughtUpOnce, HasDisk', [Next]_vars
  PROVE  (HasDisk /\ proxy' = proxy) \/ ReloadToCome' \/ silent' = Domain
<1> USE DEF TypeOK, LocalsFit, BroughtUpOnce, HasDisk, HasRow, Born, Steps, tables, tasks,
     guests, control
<1>1. ASSUME NEW p \in Proc, NEW v \in Vm, CreateVm(p, v)
       PROVE  (HasDisk /\ proxy' = proxy) \/ ReloadToCome' \/ silent' = Domain
  BY <1>1 DEF CreateVm
<1>2. ASSUME NEW p \in Proc, NEW v \in Vm, SpawnProxy(p, v)
       PROVE  (HasDisk /\ proxy' = proxy) \/ ReloadToCome' \/ silent' = Domain
  BY <1>2 DEF SpawnProxy
<1>3. ASSUME NEW p \in Proc, BringUp(p)
       PROVE  (HasDisk /\ proxy' = proxy) \/ ReloadToCome' \/ silent' = Domain
  BY <1>3 DEF BringUp, Goto
<1>4. ASSUME NEW p \in Proc, InsertProxy(p)
       PROVE  (HasDisk /\ proxy' = proxy) \/ ReloadToCome' \/ silent' = Domain
  <2>1. CASE proxy = None
    BY <1>4, <2>1 DEF InsertProxy, Goto, ReloadToCome
  <2>2. CASE proxy # None
    BY <1>4, <2>2 DEF InsertProxy
  <2> QED
    BY <2>1, <2>2
<1>5. ASSUME NEW p \in Proc, DropProxy(p)
       PROVE  (HasDisk /\ proxy' = proxy) \/ ReloadToCome' \/ silent' = Domain
  BY <1>5 DEF DropProxy, Goto
<1>6. ASSUME NEW p \in Proc, Down(p)
       PROVE  (HasDisk /\ proxy' = proxy) \/ ReloadToCome' \/ silent' = Domain
  BY <1>6 DEF Down, TearDown, Wipe, Goto
<1>7. ASSUME NEW p \in Proc, DropRow(p)
       PROVE  (HasDisk /\ proxy' = proxy) \/ ReloadToCome' \/ silent' = Domain
  BY <1>7 DEF DropRow, Leave
<1>8. ASSUME Restart \/ \E v \in Vm : Halt(v) \/ Boot(v) \/ Recreate(v)
       PROVE  (HasDisk /\ proxy' = proxy) \/ ReloadToCome' \/ silent' = Domain
  <2>1. CASE Restart
    BY <2>1 DEF Restart
  <2>2. ASSUME NEW v \in Vm, Halt(v) \/ Boot(v)
        PROVE  (HasDisk /\ proxy' = proxy)
    BY <2>2 DEF Halt, Boot
  <2>3. ASSUME NEW v \in Vm, Recreate(v)
        PROVE  (HasDisk /\ proxy' = proxy) \/ ReloadToCome' \/ silent' = Domain
    BY <2>3 DEF Recreate
  <2> QED
    BY <1>8, <2>1, <2>2, <2>3
<1>9. CASE UNCHANGED <<row, proxy, up, off>>
  BY <1>9
<1>10. ASSUME NEW p \in Proc, \/ CreateProxy(p) \/ SetupTask(p) \/ ReloadTask(p) \/ InsertDomain(p)
                                \/ DeleteDomain(p) \/ ReadVm(p) \/ ReadProxy(p) \/ EnqueueReload(p)
                                \/ DropDomains(p) \/ Raise(p) \/ ReadRows(p) \/ (\E v \in Vm : Expire(p, v) \/ Reap(p, v))
                                \/ (\E id \in Domain, f \in Fqdn, v \in Vm : AddDomain(p, id, f, v))
                                \/ (\E id \in Domain : RemoveDomain(p, id)) \/ (\E v \in Vm : DeleteVm(p, v))
       PROVE  (HasDisk /\ proxy' = proxy) \/ ReloadToCome' \/ silent' = Domain
  BY <1>10, <1>9 DEF CreateProxy, Begin, Enter, AddDomain, RemoveDomain, DeleteVm, SetupTask,
     Goto, ReloadTask, Leave, InsertDomain, DeleteDomain, ReadVm, ReadProxy,
     EnqueueReload, DropDomains, Raise, ReadRows, Expire, Reap, vars, tables, tasks, guests, control
<1>11. ASSUME \/ (\E v \in Vm : TakeSetup(v)) \/ TakeReload \/ SetupVm \/ ReadOwnProxy \/ ReadProxyVm \/ ReadDomains \/ SshFails
              \/ AbortTask \/ UNCHANGED vars \/ (\E w \in Vm : Install(w) \/ Push(w))
              \/ (\E id \in Domain, v \in Vm : Resolve(id, v))
       PROVE  (HasDisk /\ proxy' = proxy) \/ ReloadToCome' \/ silent' = Domain
  BY <1>11, <1>9 DEF TakeSetup, TakeReload, SetupVm, Install, ReadOwnProxy, ReadProxyVm,
     ReadDomains,
     Resolve, Push, SshFails, AbortTask, vars, tables, tasks, guests, control
<1>12. ASSUME NEW p \in Proc, Request(p)
       PROVE  (HasDisk /\ proxy' = proxy) \/ ReloadToCome' \/ silent' = Domain
  BY <1>12, <1>1, <1>10 DEF Request
<1>13. ASSUME NEW p \in Proc, Handle(p)
       PROVE  (HasDisk /\ proxy' = proxy) \/ ReloadToCome' \/ silent' = Domain
  BY <1>13, <1>2, <1>3, <1>4, <1>10, <1>5, <1>6, <1>7 DEF Handle
<1>14. CASE Execute
  BY <1>14, <1>11 DEF Execute, NoTask
<1>15. CASE Event
  BY <1>15, <1>12, <1>10, <1>8 DEF Event, Proc
<1>16. CASE Step
  BY <1>16, <1>13, <1>14, <1>8, <1>11 DEF Step
<1> QED
  BY <1>15, <1>16, <1>11 DEF Next

-----------------------------------------------------------------------------
(* What is owed is brought about.                                          *)

\* A handler that has changed a domain enqueues a reload, unless there is no proxy.
LEMMA NextHandlerReloads ==
  ASSUME TypeOK, LocalsFit, HasDisk', NEW d \in Domain, d \notin silent', NEW t \in Proc,
         pc[t] \in {"readVm", "readProxy", "enqueue"}, req[t].d = d, [Next]_vars
  PROVE  ReloadQueued' \/ (pc'[t] \in {"readVm", "readProxy", "enqueue"} /\ req'[t].d = d)
<1> USE DEF TypeOK, LocalsFit, HasDisk, tables, tasks, guests, control
<1>1. ASSUME NEW p \in Proc, CreateProxy(p)
       PROVE  ReloadQueued' \/ (pc'[t] \in {"readVm", "readProxy", "enqueue"} /\ req'[t].d = d)
  BY <1>1 DEF CreateProxy, Begin, Enter
<1>2. ASSUME NEW p \in Proc, NEW id \in Domain, NEW f \in Fqdn, NEW v \in Vm, AddDomain(p, id, f, v)
       PROVE  ReloadQueued' \/ (pc'[t] \in {"readVm", "readProxy", "enqueue"} /\ req'[t].d = d)
  BY <1>2 DEF AddDomain, Begin, Enter
<1>3. ASSUME NEW p \in Proc, NEW id \in Domain, RemoveDomain(p, id)
       PROVE  ReloadQueued' \/ (pc'[t] \in {"readVm", "readProxy", "enqueue"} /\ req'[t].d = d)
  BY <1>3 DEF RemoveDomain, Begin, Enter
<1>4. ASSUME NEW p \in Proc, NEW v \in Vm, DeleteVm(p, v)
       PROVE  ReloadQueued' \/ (pc'[t] \in {"readVm", "readProxy", "enqueue"} /\ req'[t].d = d)
  BY <1>4 DEF DeleteVm, Begin, Enter
<1>5. ASSUME NEW p \in Proc, NEW v \in Vm, SpawnProxy(p, v)
       PROVE  ReloadQueued' \/ (pc'[t] \in {"readVm", "readProxy", "enqueue"} /\ req'[t].d = d)
  BY <1>5 DEF SpawnProxy
<1>6. ASSUME NEW p \in Proc, BringUp(p)
       PROVE  ReloadQueued' \/ (pc'[t] \in {"readVm", "readProxy", "enqueue"} /\ req'[t].d = d)
  BY <1>6 DEF BringUp, Goto
<1>7. ASSUME NEW p \in Proc, InsertProxy(p)
       PROVE  ReloadQueued' \/ (pc'[t] \in {"readVm", "readProxy", "enqueue"} /\ req'[t].d = d)
  <2>1. CASE proxy = None
    BY <1>7, <2>1 DEF InsertProxy, Goto
  <2>2. CASE proxy # None
    <3>1. Leave(p, "insertProxy") /\ UNCHANGED <<tables, tasks, guests, silent>>
      BY <1>7, <2>2 DEF InsertProxy
    <3> QED
      BY <3>1 DEF Leave
  <2> QED
    BY <2>1, <2>2
<1>8. ASSUME NEW p \in Proc, SetupTask(p)
       PROVE  ReloadQueued' \/ (pc'[t] \in {"readVm", "readProxy", "enqueue"} /\ req'[t].d = d)
  BY <1>8 DEF SetupTask, Goto
<1>9. ASSUME NEW p \in Proc, ReloadTask(p)
       PROVE  ReloadQueued' \/ (pc'[t] \in {"readVm", "readProxy", "enqueue"} /\ req'[t].d = d)
  BY <1>9 DEF ReloadTask, Leave
<1>10. ASSUME NEW p \in Proc, InsertDomain(p)
       PROVE  ReloadQueued' \/ (pc'[t] \in {"readVm", "readProxy", "enqueue"} /\ req'[t].d = d)
  <2>1. CASE InUse(req[p].f)
    <3>1. Leave(p, "insertDomain") /\ UNCHANGED <<tables, tasks, guests, silent>>
      BY <1>10, <2>1 DEF InsertDomain
    <3> QED
      BY <3>1 DEF Leave
  <2>2. CASE ~InUse(req[p].f)
    BY <1>10, <2>2 DEF InsertDomain, Goto
  <2> QED
    BY <2>1, <2>2
<1>11. ASSUME NEW p \in Proc, DeleteDomain(p)
       PROVE  ReloadQueued' \/ (pc'[t] \in {"readVm", "readProxy", "enqueue"} /\ req'[t].d = d)
  BY <1>11 DEF DeleteDomain, Goto
<1>12. ASSUME NEW p \in Proc, ReadVm(p)
       PROVE  ReloadQueued' \/ (pc'[t] \in {"readVm", "readProxy", "enqueue"} /\ req'[t].d = d)
  BY <1>12 DEF ReadVm, Goto, Leave
<1>13. ASSUME NEW p \in Proc, ReadProxy(p)
       PROVE  ReloadQueued' \/ (pc'[t] \in {"readVm", "readProxy", "enqueue"} /\ req'[t].d = d)
  <2>1. proxy # None
    BY <1>13 DEF ReadProxy, Leave
  <2> QED
    BY <1>13, <2>1 DEF ReadProxy
<1>14. ASSUME NEW p \in Proc, EnqueueReload(p)
       PROVE  ReloadQueued' \/ (pc'[t] \in {"readVm", "readProxy", "enqueue"} /\ req'[t].d = d)
  BY <1>14 DEF EnqueueReload, Enqueue, ReloadQueued
<1>15. ASSUME NEW p \in Proc, DropDomains(p)
       PROVE  ReloadQueued' \/ (pc'[t] \in {"readVm", "readProxy", "enqueue"} /\ req'[t].d = d)
  BY <1>15 DEF DropDomains, Goto
<1>16. ASSUME NEW p \in Proc, DropProxy(p)
       PROVE  ReloadQueued' \/ (pc'[t] \in {"readVm", "readProxy", "enqueue"} /\ req'[t].d = d)
  BY <1>16 DEF DropProxy, Goto
<1>17. ASSUME NEW p \in Proc, Down(p)
       PROVE  ReloadQueued' \/ (pc'[t] \in {"readVm", "readProxy", "enqueue"} /\ req'[t].d = d)
  BY <1>17 DEF Down, TearDown, Wipe, Goto
<1>18. ASSUME NEW p \in Proc, DropRow(p)
       PROVE  ReloadQueued' \/ (pc'[t] \in {"readVm", "readProxy", "enqueue"} /\ req'[t].d = d)
  BY <1>18 DEF DropRow, Leave
<1>19. ASSUME NEW p \in Proc, Raise(p)
       PROVE  ReloadQueued' \/ (pc'[t] \in {"readVm", "readProxy", "enqueue"} /\ req'[t].d = d)
  BY <1>19 DEF Raise, Leave, Silenced
<1>26. ASSUME NEW p \in Proc, ReadRows(p) \/ \E v \in Vm : Expire(p, v) \/ Reap(p, v)
       PROVE  ReloadQueued' \/ (pc'[t] \in {"readVm", "readProxy", "enqueue"} /\ req'[t].d = d)
  BY <1>26 DEF ReadRows, Expire, Reap, Enter
<1>27. CASE Restart
  BY <1>27 DEF Restart, Silenced
<1>20. CASE UNCHANGED <<pc, req>>
  BY <1>20
<1>21. ASSUME NEW p \in Proc, (\E v \in Vm : CreateVm(p, v))
       PROVE  ReloadQueued' \/ (pc'[t] \in {"readVm", "readProxy", "enqueue"} /\ req'[t].d = d)
  BY <1>21, <1>20 DEF CreateVm, vars, tables, tasks, guests, control
<1>22. ASSUME \/ (\E v \in Vm : TakeSetup(v)) \/ TakeReload \/ SetupVm \/ ReadOwnProxy \/ ReadProxyVm \/ ReadDomains \/ SshFails
              \/ AbortTask \/ UNCHANGED vars \/ (\E w \in Vm : Install(w) \/ Push(w))
              \/ (\E id \in Domain, v \in Vm : Resolve(id, v))
              \/ (\E v \in Vm : Halt(v) \/ Boot(v) \/ Recreate(v))
       PROVE  ReloadQueued' \/ (pc'[t] \in {"readVm", "readProxy", "enqueue"} /\ req'[t].d = d)
  BY <1>22, <1>20 DEF TakeSetup, TakeReload, SetupVm, Install, RunSetup, ReadOwnProxy,
     ReadProxyVm, ReadDomains,
     Resolve, Push, WriteFile, LoadFile, SshFails, AbortTask, Halt, Boot, Boots, Recreate,
     Wipe, vars, tables, tasks, guests,
     control
<1>23. ASSUME NEW p \in Proc, Request(p)
       PROVE  ReloadQueued' \/ (pc'[t] \in {"readVm", "readProxy", "enqueue"} /\ req'[t].d = d)
  BY <1>23, <1>21, <1>1, <1>2, <1>3, <1>4 DEF Request
<1>24. ASSUME NEW p \in Proc, Handle(p)
       PROVE  ReloadQueued' \/ (pc'[t] \in {"readVm", "readProxy", "enqueue"} /\ req'[t].d = d)
  BY <1>24, <1>5, <1>6, <1>7, <1>8, <1>9, <1>10, <1>11, <1>12, <1>13, <1>14, <1>15, <1>16,
     <1>17, <1>18, <1>19, <1>26 DEF Handle
<1>25. CASE Execute
  BY <1>25, <1>22 DEF Execute, NoTask
<1>28. CASE Event
  BY <1>28, <1>23, <1>26, <1>22, <1>27 DEF Event, Proc
<1>29. CASE Step
  BY <1>29, <1>24, <1>25, <1>22 DEF Step
<1> QED
  BY <1>28, <1>29, <1>22 DEF Next

\* A reload that has yet to read the domains gets to read them, or the proxy has been
\* replaced and another is to come.
LEMMA NextReloadRuns ==
  ASSUME TypeOK, LocalsFit, ReplacedReloads, HasDisk', NEW d \in Domain, d \notin silent',
         exec.step \in {"readProxy", "readProxyVm", "readDomains"}, [Next]_vars
  PROVE  Owed(d)' \/ Right(d)'
<1> USE DEF TypeOK, LocalsFit, HasDisk, HasRow, tables, tasks, guests, control
<1>1. ASSUME TakeReload \/ \E v \in Vm : TakeSetup(v)
      PROVE  Owed(d)' \/ Right(d)'
  BY <1>1 DEF TakeReload, TakeSetup
<1>2. CASE SetupVm
  BY <1>2 DEF SetupVm
<1>3. ASSUME NEW w \in Vm, Install(w)
       PROVE  Owed(d)' \/ Right(d)'
  BY <1>3 DEF Install, RunSetup
<1>4. CASE ReadOwnProxy
  BY <1>4 DEF ReadOwnProxy, Owed
<1>5. CASE ReadProxyVm
  <2>1. CASE HasRow(exec.vm)
    BY <1>5, <2>1 DEF ReadProxyVm, Owed
  <2>2. CASE ~HasRow(exec.vm)
    <3>1. proxy \notin {None, exec.vm} /\ UNCHANGED <<pc, tasks, silent>>
      BY <1>5, <2>2 DEF ReadProxyVm
    <3>2. ReloadToCome
      BY <1>5, <3>1 DEF ReadProxyVm, ReplacedReloads
    <3> QED
      BY <3>1, <3>2 DEF tasks, ReloadQueued, ReloadToCome, Owed
  <2> QED
    BY <2>1, <2>2
<1>6. CASE ReadDomains
  <2>1. /\ exec'.step = "resolve" /\ exec'.built = {}
        /\ exec'.left = {e \in Domain \X Vm : e[1] \in OfVm(e[2])}
        /\ UNCHANGED <<row, domains>>
    BY <1>6 DEF ReadDomains
  <2>2. CASE domains[d] = None
    <3>1. \A v \in Vm : <<d, v>> \notin exec'.left
      BY <2>1, <2>2 DEF OfVm
    <3>2. d \notin exec'.built /\ ~Live(d)'
      BY <2>1, <2>2 DEF Live
    <3> QED
      BY <2>1, <3>1, <3>2 DEF Right, BuiltRight
  <2>3. CASE domains[d] # None
    <3>1. domains[d].vm \in Vm /\ <<d, domains[d].vm>> \in exec'.left
      BY <2>1, <2>3 DEF OfVm, Row
    <3>2. \A v \in Vm : <<d, v>> \in exec'.left => d \in OfVm(v)'
      BY <2>1 DEF OfVm
    <3> QED
      BY <2>1, <3>1, <3>2 DEF Right, BuiltRight
  <2> QED
    BY <2>2, <2>3
<1>7. ASSUME NEW id \in Domain, NEW v \in Vm, Resolve(id, v)
       PROVE  Owed(d)' \/ Right(d)'
  BY <1>7 DEF Resolve
<1>8. ASSUME NEW w \in Vm, Push(w)
       PROVE  Owed(d)' \/ Right(d)'
  BY <1>8 DEF Push, WriteFile, Built
<1>9. CASE SshFails
  BY <1>9 DEF SshFails
<1>10. CASE AbortTask \/ Restart
  BY <1>10 DEF AbortTask, Restart
<1>11. CASE UNCHANGED exec
  BY <1>11 DEF Owed
<1>12. ASSUME NEW p \in Proc, \/ CreateProxy(p) \/ BringUp(p) \/ InsertProxy(p) \/ SetupTask(p) \/ ReloadTask(p)
                                \/ InsertDomain(p) \/ DeleteDomain(p) \/ ReadVm(p) \/ ReadProxy(p)
                                \/ EnqueueReload(p) \/ DropDomains(p) \/ DropProxy(p) \/ Down(p) \/ DropRow(p)
                                \/ Raise(p) \/ ReadRows(p) \/ (\E v \in Vm : Expire(p, v) \/ Reap(p, v))
                                \/ (\E v \in Vm : CreateVm(p, v) \/ DeleteVm(p, v) \/ SpawnProxy(p, v))
                                \/ (\E id \in Domain, f \in Fqdn, v \in Vm : AddDomain(p, id, f, v))
                                \/ (\E id \in Domain : RemoveDomain(p, id))
       PROVE  Owed(d)' \/ Right(d)'
  BY <1>12, <1>11 DEF CreateVm, CreateProxy, Begin, Enter, AddDomain, RemoveDomain, DeleteVm,
     SpawnProxy, BringUp, Goto, InsertProxy, Leave, SetupTask, ReloadTask, InsertDomain,
     DeleteDomain, ReadVm, ReadProxy, EnqueueReload, DropDomains, DropProxy, Down, TearDown, Wipe,
     DropRow, Raise, ReadRows, Expire, Reap, vars, tables, tasks, guests, control
<1>13. ASSUME UNCHANGED vars \/ (\E v \in Vm : Halt(v) \/ Boot(v) \/ Recreate(v))
       PROVE  Owed(d)' \/ Right(d)'
  BY <1>13, <1>11 DEF Halt, Boot, Boots, Recreate, Wipe, vars, tables, tasks, guests, control
<1>14. ASSUME NEW p \in Proc, Request(p)
       PROVE  Owed(d)' \/ Right(d)'
  BY <1>14, <1>12 DEF Request
<1>15. ASSUME NEW p \in Proc, Handle(p)
       PROVE  Owed(d)' \/ Right(d)'
  BY <1>15, <1>12 DEF Handle
<1>16. CASE Execute
  BY <1>16, <1>1, <1>2, <1>3, <1>4, <1>5, <1>6, <1>7, <1>8, <1>13 DEF Execute, NoTask
<1>17. CASE Event
  BY <1>17, <1>14, <1>14, <1>12, <1>13, <1>10 DEF Event, Proc
<1>18. CASE Step
  BY <1>18, <1>15, <1>16, <1>13, <1>9, <1>10 DEF Step
<1> QED
  BY <1>17, <1>18, <1>13 DEF Next

-----------------------------------------------------------------------------
(* Where nothing is owed.                                                  *)

\* The parts of Right that a step has to look at.
LEMMA SameRoutes ==
  ASSUME NEW d \in Domain, domains'[d] = domains[d], Live(d)' <=> Live(d), proxy' = proxy
  PROVE  /\ exec' = exec => (BuiltRight(d)' <=> BuiltRight(d))
         /\ up' = up /\ caddy' = caddy /\ file' = file /\ loaded' = loaded
              => (ServedRight(d)' <=> ServedRight(d))
<1>1. ASSUME exec' = exec
      PROVE  BuiltRight(d)' <=> BuiltRight(d)
  <2>1. \A v \in Vm : d \in OfVm(v)' <=> d \in OfVm(v)
    BY DEF OfVm
  <2> QED
    BY <1>1, <2>1 DEF BuiltRight
<1>2. ASSUME up' = up, caddy' = caddy, file' = file, loaded' = loaded
      PROVE  ServedRight(d)' <=> ServedRight(d)
  BY <1>2 DEF ServedRight, Served
<1> QED
  BY <1>1, <1>2

\* The routes of a domain stay right, while they are built and when they have been
\* pushed.
LEMMA NextRight ==
  ASSUME TypeOK, TypeOK', LocalsFit, BroughtUpOnce, ReplacedReloads, HasDisk, HasDisk', proxy' = proxy,
         NEW d \in Domain, d \notin silent', Right(d),
         domains'[d] = domains[d], Live(d)' <=> Live(d), [Next]_vars
  PROVE  Owed(d)' \/ Right(d)'
<1> USE DEF TypeOK, tables, tasks, guests, control
<1>1. ASSUME NEW p \in Proc, Down(p)
       PROVE  Owed(d)' \/ Right(d)'
  <2>1. UNCHANGED exec /\ req[p].v # proxy
    <3>1. up' \cup off' = (up \cup off) \ {req[p].v} /\ UNCHANGED exec
      BY <1>1 DEF Down, TearDown, Goto
    <3> QED
      BY <3>1 DEF HasDisk
  <2>2. ServedRight(d)' <=> ServedRight(d)
    BY <1>1, <2>1 DEF Down, TearDown, Wipe, ServedRight, Served, HasDisk
  <2> QED
    BY <2>1, <2>2, SameRoutes DEF Right
<1>2. ASSUME TakeReload \/ \E v \in Vm : TakeSetup(v)
      PROVE  Owed(d)' \/ Right(d)'
  BY <1>2, SameRoutes DEF TakeReload, TakeSetup, Right, Idle
<1>3. CASE SetupVm
  BY <1>3, SameRoutes DEF SetupVm, Right, Idle
<1>4. ASSUME NEW w \in Vm, Install(w)
       PROVE  Owed(d)' \/ Right(d)'
  <2>1. exec.step = "install" /\ exec'.step = "idle" /\ UNCHANGED file
    BY <1>4 DEF Install, RunSetup, Idle
  <2>2. ServedRight(d)
    BY <2>1 DEF Right
  <2>3. CASE w \in caddy
    BY <1>4, <2>1, <2>2, <2>3 DEF Install, RunSetup, Right, ServedRight, Served
  <2>4. CASE w \notin caddy
    BY <1>4, <2>1, <2>2, <2>4 DEF Install, RunSetup, Right, ServedRight, Served, HasDisk
  <2> QED
    BY <2>3, <2>4
<1>5. CASE ReadOwnProxy
  BY <1>5, SameRoutes DEF ReadOwnProxy, Right, Idle
<1>6. CASE ReadProxyVm
  BY <1>6, SameRoutes DEF ReadProxyVm, Right, Idle
<1>7. CASE ReadDomains
  BY <1>7, NextReloadRuns DEF ReadDomains
<1>8. ASSUME NEW id \in Domain, NEW v \in Vm, Resolve(id, v)
       PROVE  Owed(d)' \/ Right(d)'
  <2> DEFINE built == exec.built \cup (IF HasRow(v) THEN {id} ELSE {})
  <2>1. /\ exec.step = "resolve" /\ exec'.step = "resolve" /\ <<id, v>> \in exec.left
        /\ exec'.left = exec.left \ {<<id, v>>} /\ exec'.built = built
        /\ UNCHANGED domains
    BY <1>8 DEF Resolve
  <2>2. BuiltRight(d)
    BY <2>1 DEF Right
  <2>3. CASE id = d
    <3>1. d \notin exec.built /\ \A x \in Vm : <<d, x>> \in exec.left => d \in OfVm(x)
      BY <2>1, <2>2, <2>3 DEF BuiltRight
    <3>2. domains[d] # None /\ domains[d].vm = v /\ \A x \in Vm : <<d, x>> \in exec.left => x = v
      BY <2>1, <2>3, <3>1 DEF OfVm
    <3>3. \A x \in Vm : <<d, x>> \notin exec'.left
      BY <2>1, <2>3, <3>2
    <3>4. d \in built <=> HasRow(v)
      BY <2>3, <3>1
    <3> HIDE DEF built
    <3>5. d \in exec'.built <=> Live(d)'
      BY <2>1, <3>2, <3>4 DEF Live
    <3> QED
      BY <2>1, <3>3, <3>5 DEF Right, BuiltRight
  <2>4. CASE id # d
    <3>1. \A x \in Vm : <<d, x>> \in exec'.left <=> <<d, x>> \in exec.left
      BY <2>1, <2>4
    <3>2. d \in exec'.built <=> d \in exec.built
      BY <2>1, <2>4
    <3>3. \A x \in Vm : d \in OfVm(x)' <=> d \in OfVm(x)
      BY DEF OfVm
    <3>4. BuiltRight(d)'
      BY <2>2, <3>1, <3>2, <3>3 DEF BuiltRight
    <3> QED
      BY <2>1, <3>4 DEF Right
  <2> QED
    BY <2>3, <2>4
<1>9. ASSUME NEW w \in Vm, Push(w)
       PROVE  Owed(d)' \/ Right(d)'
  <2>1. /\ w \in caddy /\ w = proxy
        /\ exec.step = "resolve" /\ exec'.step = "idle"
        /\ loaded' = [loaded EXCEPT ![w] = exec.built] /\ UNCHANGED caddy
        /\ file' = [file EXCEPT ![w] = exec.built]
    BY <1>9 DEF Push, WriteFile, LoadFile, Built, Idle
  <2>2. d \in exec.built <=> Live(d)
    BY <1>9, <2>1 DEF Push, WriteFile, Built, Right, BuiltRight
  <2> QED
    BY <2>1, <2>2 DEF Right, ServedRight, Served
<1>10. CASE SshFails
  BY <1>10 DEF SshFails
<1>11. CASE AbortTask
  BY <1>11 DEF AbortTask
<1>20. CASE Restart
  <2>1. exec.step = "idle"
    BY <1>20 DEF Restart
  <2>2. ServedRight(d)
    BY <2>1 DEF Right
  <2>3. ServedRight(d)'
    BY <1>20, <2>2 DEF Restart, ServedRight, Served
  <2> QED
    BY <1>20, <2>3 DEF Restart, Right, Idle
<1>12. ASSUME NEW v \in Vm, Halt(v) \/ Boot(v)
       PROVE  Owed(d)' \/ Right(d)'
  <2>1. UNCHANGED <<exec, caddy, file>>
    BY <1>12 DEF Halt, Boot
  <2>2. ServedRight(d) => ServedRight(d)'
    <3>1. CASE Halt(v)
      BY <3>1, <2>1 DEF Halt, ServedRight, Served
    <3>2. CASE Boot(v)
      BY <3>2, <2>1 DEF Boot, Boots, ServedRight, Served, HasDisk
    <3> QED
      BY <1>12, <3>1, <3>2
  <2> QED
    BY <2>1, <2>2, SameRoutes DEF Right
<1>13. ASSUME NEW v \in Vm, Recreate(v)
       PROVE  Owed(d)' \/ Right(d)'
  <2>1. UNCHANGED exec /\ v # proxy
    BY <1>13 DEF Recreate
  <2>2. ServedRight(d) => ServedRight(d)'
    BY <1>13, <2>1 DEF Recreate, Wipe, ServedRight, Served, HasDisk
  <2> QED
    BY <2>1, <2>2, SameRoutes DEF Right
<1>14. CASE UNCHANGED <<exec, up, caddy, file, loaded>>
  BY <1>14, SameRoutes DEF Right
<1>21. ASSUME NEW p \in Proc, BringUp(p)
       PROVE  Owed(d)' \/ Right(d)'
  <2>1. /\ UNCHANGED <<exec, caddy, file, loaded>> /\ up' = up \cup {req[p].v}
        /\ req[p].v # proxy
    BY <1>21 DEF BringUp, Goto, BroughtUpOnce
  <2>2. ServedRight(d)' <=> ServedRight(d)
    BY <2>1 DEF ServedRight, Served
  <2> QED
    BY <2>1, <2>2, SameRoutes DEF Right
<1>22. ASSUME NEW p \in Proc, NEW v \in Vm, CreateVm(p, v)
       PROVE  Owed(d)' \/ Right(d)'
  <2>1. UNCHANGED <<exec, caddy, file, loaded>> /\ up' = up \cup {v} /\ v # proxy
    BY <1>22 DEF CreateVm, HasDisk, HasRow
  <2>2. ServedRight(d)' <=> ServedRight(d)
    BY <2>1 DEF ServedRight, Served
  <2> QED
    BY <2>1, <2>2, SameRoutes DEF Right
<1>15. ASSUME NEW p \in Proc, \/ CreateProxy(p) \/ InsertProxy(p) \/ SetupTask(p) \/ ReloadTask(p)
                                \/ InsertDomain(p) \/ DeleteDomain(p) \/ ReadVm(p) \/ ReadProxy(p)
                                \/ EnqueueReload(p) \/ DropDomains(p) \/ DropProxy(p) \/ DropRow(p) \/ Raise(p)
                                \/ ReadRows(p) \/ (\E v \in Vm : Expire(p, v) \/ Reap(p, v))
                                \/ (\E v \in Vm : DeleteVm(p, v) \/ SpawnProxy(p, v))
                                \/ (\E id \in Domain, f \in Fqdn, v \in Vm : AddDomain(p, id, f, v))
                                \/ (\E id \in Domain : RemoveDomain(p, id))
       PROVE  Owed(d)' \/ Right(d)'
  BY <1>15, <1>14 DEF CreateProxy, Begin, Enter, AddDomain, RemoveDomain, DeleteVm,
     SpawnProxy, Goto, InsertProxy, Leave, SetupTask, ReloadTask, InsertDomain,
     DeleteDomain, ReadVm, ReadProxy, EnqueueReload, DropDomains, DropProxy, DropRow,
     Raise, ReadRows, Expire, Reap, vars, tables, tasks, guests, control
<1>16. ASSUME UNCHANGED vars
       PROVE  Owed(d)' \/ Right(d)'
  BY <1>16, <1>14 DEF vars, tables, tasks, guests, control
<1>23. ASSUME NEW p \in Proc, Request(p)
       PROVE  Owed(d)' \/ Right(d)'
  BY <1>23, <1>15, <1>22 DEF Request
<1>24. ASSUME NEW p \in Proc, Handle(p)
       PROVE  Owed(d)' \/ Right(d)'
  BY <1>24, <1>15, <1>21, <1>1 DEF Handle
<1>25. CASE Execute
  BY <1>25, <1>2, <1>3, <1>4, <1>5, <1>6, <1>7, <1>8, <1>9, <1>16 DEF Execute, NoTask
<1>26. CASE Event
  BY <1>26, <1>23, <1>15, <1>12, <1>13, <1>20 DEF Event, Proc
<1>27. CASE Step
  BY <1>27, <1>24, <1>25, <1>12, <1>10, <1>11 DEF Step
<1> QED
  BY <1>26, <1>27, <1>16 DEF Next

\* Only a reload that reads the domains makes up for a silent change.
LEMMA NextSilent ==
  ASSUME TypeOK, [Next]_vars
  PROVE  silent \subseteq silent' \/ exec.step = "readDomains"
<1> USE DEF TypeOK, tables, tasks, guests, control
<1>1. ASSUME NEW p \in Proc, ReadVm(p)
       PROVE  silent \subseteq silent' \/ exec.step = "readDomains"
  BY <1>1 DEF ReadVm, Goto, Leave
<1>2. ASSUME NEW p \in Proc, DropDomains(p)
       PROVE  silent \subseteq silent' \/ exec.step = "readDomains"
  BY <1>2 DEF DropDomains, Goto
<1>3. ASSUME NEW p \in Proc, DropRow(p)
       PROVE  silent \subseteq silent' \/ exec.step = "readDomains"
  BY <1>3 DEF DropRow, Leave
<1>4. ASSUME NEW p \in Proc, Raise(p)
       PROVE  silent \subseteq silent' \/ exec.step = "readDomains"
  BY <1>4 DEF Raise, Silenced
<1>5. CASE ReadDomains
  BY <1>5 DEF ReadDomains
<1>6. ASSUME NEW w \in Vm, Push(w)
       PROVE  silent \subseteq silent' \/ exec.step = "readDomains"
  BY <1>6 DEF Push
<1>7. CASE SshFails
  BY <1>7 DEF SshFails
<1>8. CASE AbortTask
  BY <1>8 DEF AbortTask
<1>9. CASE Restart
  BY <1>9 DEF Restart, Silenced
<1>10. ASSUME NEW v \in Vm, Recreate(v)
       PROVE  silent \subseteq silent' \/ exec.step = "readDomains"
  BY <1>10 DEF Recreate, Wipe
<1>11. CASE UNCHANGED silent
  BY <1>11
<1>12. ASSUME NEW p \in Proc, \/ CreateProxy(p) \/ BringUp(p) \/ InsertProxy(p) \/ SetupTask(p) \/ ReloadTask(p)
                                \/ InsertDomain(p) \/ DeleteDomain(p) \/ ReadProxy(p) \/ EnqueueReload(p)
                                \/ DropProxy(p) \/ Down(p) \/ ReadRows(p)
                                \/ (\E v \in Vm : Expire(p, v) \/ Reap(p, v))
                                \/ (\E v \in Vm : CreateVm(p, v) \/ DeleteVm(p, v) \/ SpawnProxy(p, v))
                                \/ (\E id \in Domain, f \in Fqdn, v \in Vm : AddDomain(p, id, f, v))
                                \/ (\E id \in Domain : RemoveDomain(p, id))
       PROVE  silent \subseteq silent' \/ exec.step = "readDomains"
  BY <1>12, <1>11 DEF CreateVm, CreateProxy, Begin, Enter, AddDomain, RemoveDomain, DeleteVm,
     SpawnProxy, BringUp, Goto, InsertProxy, Leave, SetupTask, ReloadTask, InsertDomain,
     DeleteDomain, ReadProxy, EnqueueReload, DropProxy, Down, TearDown, Wipe, ReadRows,
     Expire, Reap, vars, tables, tasks, guests,
     control
<1>13. ASSUME \/ (\E v \in Vm : TakeSetup(v)) \/ TakeReload \/ SetupVm \/ ReadOwnProxy \/ ReadProxyVm \/ UNCHANGED vars
              \/ (\E w \in Vm : Install(w)) \/ (\E v \in Vm : Halt(v) \/ Boot(v)) \/ (\E id \in Domain, v \in Vm : Resolve(id, v))
       PROVE  silent \subseteq silent' \/ exec.step = "readDomains"
  BY <1>13, <1>11 DEF TakeSetup, TakeReload, SetupVm, Install, ReadOwnProxy, ReadProxyVm,
     Resolve, Halt, Boot, vars,
     tables, tasks, guests, control
<1>14. ASSUME NEW p \in Proc, Request(p)
       PROVE  silent \subseteq silent' \/ exec.step = "readDomains"
  BY <1>14, <1>12 DEF Request
<1>15. ASSUME NEW p \in Proc, Handle(p)
       PROVE  silent \subseteq silent' \/ exec.step = "readDomains"
  BY <1>15, <1>12, <1>1, <1>2, <1>3, <1>4 DEF Handle
<1>16. CASE Execute
  BY <1>16, <1>13, <1>5, <1>6 DEF Execute, NoTask
<1>17. CASE Event
  BY <1>17, <1>14, <1>14, <1>12, <1>13, <1>10, <1>9 DEF Event, Proc
<1>18. CASE Step
  BY <1>18, <1>15, <1>16, <1>13, <1>7, <1>8 DEF Step
<1> QED
  BY <1>17, <1>18, <1>13 DEF Next

LEMMA NextOwedOrRight ==
  ASSUME TypeOK, TypeOK', LocalsFit, BroughtUpOnce, ReplacedReloads, OwedOrRight, [Next]_vars
  PROVE  OwedOrRight'
<1> SUFFICES ASSUME HasDisk', NEW d \in Domain, d \notin silent'
             PROVE  Owed(d)' \/ Right(d)'
  BY DEF OwedOrRight
<1>1. CASE ReloadToCome'
  BY <1>1 DEF Owed
<1>2. CASE exec.step = "readDomains"
  BY <1>2, NextReloadRuns
<1>3. CASE ~ReloadToCome' /\ exec.step # "readDomains"
  <2>1. HasDisk /\ proxy' = proxy
    BY <1>3, NextHasDisk
  <2>2. d \notin silent
    BY <1>3, NextSilent
  <2>3. Owed(d) \/ Right(d)
    BY <2>1, <2>2 DEF OwedOrRight
  <2>4. CASE ReloadToCome
    <3>1. silent' # Domain
      OBVIOUS
    <3> QED
      BY <2>4, <3>1, NextReloadToCome DEF Owed
  <2>5. ASSUME NEW t \in Proc, pc[t] \in {"readVm", "readProxy", "enqueue"}, req[t].d = d
        PROVE  Owed(d)'
    BY <2>5, NextHandlerReloads DEF Owed, ReloadToCome
  <2>6. CASE exec.step \in {"readProxy", "readProxyVm"}
    BY <2>6, NextReloadRuns
  <2>7. CASE Right(d)
    <3>1. Owed(d)' \/ (domains'[d] = domains[d] /\ (Live(d)' <=> Live(d)))
      BY NextLive
    <3> QED
      BY <2>1, <2>7, <3>1, NextRight
  <2> QED
    BY <1>3, <2>3, <2>4, <2>5, <2>6, <2>7 DEF Owed
<1> QED
  BY <1>1, <1>2, <1>3

-----------------------------------------------------------------------------
(* The inductive invariant.                                                *)

LEMMA InitIInv == Init => IInv
<1> SUFFICES ASSUME Init
             PROVE  IInv
  OBVIOUS
<1>1. TypeOK
  BY DEF Init, TypeOK, NoReq, Idle
<1>2. LocalsFit /\ BroughtUpOnce
  BY DEF Init, LocalsFit, BroughtUpOnce, Steps, Idle
<1>3. ReplacedReloads /\ OwedOrRight
  BY DEF Init, ReplacedReloads, OwedOrRight, HasDisk, Idle
<1> QED
  BY <1>1, <1>2, <1>3 DEF IInv

LEMMA NextIInv ==
  ASSUME IInv, [Next]_vars
  PROVE  IInv'
<1>1. TypeOK'
  BY NextTypes DEF IInv
<1>2. LocalsFit'
  BY <1>1, NextLocalsFit DEF IInv
<1>3. BroughtUpOnce'
  BY <1>1, NextBroughtUpOnce DEF IInv
<1>4. ReplacedReloads'
  BY <1>1, NextReplacedReloads DEF IInv
<1>5. OwedOrRight'
  BY <1>1, NextOwedOrRight DEF IInv
<1> QED
  BY <1>1, <1>2, <1>3, <1>4, <1>5 DEF IInv

\* Whatever handlers, expiry and failures do beside the executor, a domain whose
\* routes are not right has a reload to come, or is known to have none.
THEOREM InductiveInvariant == Spec => []IInv
BY InitIInv, NextIInv, PTL DEF Spec

-----------------------------------------------------------------------------
(* What the runs check.                                                    *)

\* Tables, tasks, guests and locals keep their types.
THEOREM TypeCorrect == Spec => []TypeOK
<1>1. IInv => TypeOK
  BY DEF IInv
<1> QED
  BY <1>1, InductiveInvariant, PTL

\* POST and DELETE /domains: once their reloads have been run, the proxy serves
\* exactly the domains whose VM exists.
THEOREM RoutesRight == Spec => []RoutesFollowTable
<1>1. IInv => RoutesFollowTable
  BY DEF IInv, OwedOrRight, Owed, HasProxy, HasDisk, ReloadToCome, Right, ServedRight,
         HandlerOwes, ExecutorOwes, RoutesFollowTable
<1> QED
  BY <1>1, InductiveInvariant, PTL
=============================================================================
