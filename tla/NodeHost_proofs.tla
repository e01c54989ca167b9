-------------------------- MODULE NodeHost_proofs --------------------------
(* Proofs about NodeHost, for any number of VMs, passes, peers and rules.  *)
EXTENDS NodeHost, TLAPS

USE HostNetCounts, HostNetProcs

-----------------------------------------------------------------------------
(* The pool.                                                               *)

PoolNext == EnsureStep \/ StartFails \/ StopService \/ RebootHost \/ UNCHANGED pool

LEMMA PoolStep ==
  ASSUME PoolIInv, PoolNext
  PROVE  PoolIInv' /\ KeepsData /\ (gold = "full" => gold' = "full")
<1> USE DEF PoolIInv, PoolTypeOK, GoldenComplete, KeepsData, Go, disk, Image, Ensure
<1>1. CASE Start
  BY <1>1 DEF Start
<1>2. CASE Truncate
  BY <1>2 DEF Truncate
<1>3. CASE Losetup
  BY <1>3 DEF Losetup
<1>4. CASE Pvcreate
  BY <1>4 DEF Pvcreate
<1>5. CASE Vgcreate
  BY <1>5 DEF Vgcreate
<1>6. CASE CreatePool
  BY <1>6 DEF CreatePool
<1>7. CASE EnsureGolden
  BY <1>7 DEF EnsureGolden, CreateBase
<1>8. CASE Dd
  BY <1>8 DEF Dd
<1>9. CASE Snapshot
  BY <1>9 DEF Snapshot
<1>10. CASE StartFails
  BY <1>10 DEF StartFails
<1>11. CASE StopService
  BY <1>11 DEF StopService
<1>12. CASE RebootHost
  <2>1. at' = "down" /\ loop' \in BOOLEAN /\ UNCHANGED disk
    BY <1>12 DEF RebootHost
  <2> QED
    BY <2>1
<1>13. CASE UNCHANGED pool
  BY <1>13 DEF pool
<1> QED
  BY <1>1, <1>2, <1>3, <1>4, <1>5, <1>6, <1>7, <1>8, <1>9, <1>10, <1>11, <1>12, <1>13 DEF PoolNext, EnsureStep

-----------------------------------------------------------------------------
(* The network.                                                            *)

NetNext == \/ \E v \in Vm : Request(v)
           \/ \E p \in Proc : Step(p) \/ Raise(p)
           \/ NetStop \/ NetReboot \/ JoinOrLeave
           \/ UNCHANGED net

LEMMA Items ==
  /\ 1 \in Item
  /\ \A i \in Item : i # Chains + Rules => i + 1 \in Item
BY DEF Item

LEMMA VmsAreProcs == \A v \in Vm : v \in Proc /\ v \notin Pass
BY DEF Proc

\* Tables, links and locals keep their types.
LEMMA NextTypes ==
  ASSUME NetTypeOK, StepsFit, NetNext
  PROVE  NetTypeOK'
<1> USE Items DEF NetTypeOK, Up, Down, Proc, StepsFit
<1>1. ASSUME NEW p \in Vm, BringUp(p)
      PROVE  NetTypeOK'
  BY <1>1 DEF BringUp, EnterUp, Bare, At, Goto, End, But, links, local
<1>2. ASSUME NEW p \in Vm, NEW recreate \in BOOLEAN, TakeDown(p, recreate)
      PROVE  NetTypeOK'
  BY <1>2 DEF TakeDown, At, Goto, End, But, links, local
<1>3. ASSUME NEW p \in Proc, BridgeAdd(p)
      PROVE  NetTypeOK'
  BY <1>3 DEF BridgeAdd, Overlay, At, Goto, End, But, links, local
<1>4. ASSUME NEW p \in Proc, BridgeSet(p)
      PROVE  NetTypeOK'
  BY <1>4 DEF BridgeSet, Overlay, At, Goto, End, But, links, local
<1>5. ASSUME NEW p \in Proc, VxlanAdd(p)
      PROVE  NetTypeOK'
  BY <1>5 DEF VxlanAdd, At, Goto, End, But, links, local
<1>6. ASSUME NEW p \in Proc, VxlanSet(p)
      PROVE  NetTypeOK'
  BY <1>6 DEF VxlanSet, At, Goto, End, But, links, local
<1>7. ASSUME NEW p \in Proc, NatCheck(p)
      PROVE  NetTypeOK'
  BY <1>7 DEF NatCheck, Next1, At, Goto, End, But, links, local
<1>8. ASSUME NEW p \in Proc, NatAdd(p)
      PROVE  NetTypeOK'
  BY <1>8 DEF NatAdd, Next1, At, Goto, End, But, links, local
<1>9. ASSUME NEW p \in Proc, NetnsAdd(p)
      PROVE  NetTypeOK'
  BY <1>9 DEF NetnsAdd, At, Goto, End, But, links, local
<1>10. ASSUME NEW p \in Proc, CreatePair(p)
      PROVE  NetTypeOK'
  BY <1>10 DEF CreatePair, SetVeth, At, Goto, End, But, links, local
<1>11. ASSUME NEW p \in Proc, PlaceInNs(p)
      PROVE  NetTypeOK'
  BY <1>11 DEF PlaceInNs, SetVeth, At, Goto, End, But, links, local
<1>12. ASSUME NEW p \in Proc, Inside(p)
      PROVE  NetTypeOK'
  BY <1>12 DEF Inside, At, Goto, End, But, links, local
<1>13. ASSUME NEW p \in Proc, DelNs(p)
      PROVE  NetTypeOK'
  BY <1>13 DEF DelNs, At, Goto, End, But, links, local
<1>14. ASSUME NEW p \in Proc, DelVeth(p)
      PROVE  NetTypeOK'
  BY <1>14 DEF DelVeth, At, Goto, End, But, links, local
<1>15. ASSUME NEW p \in Proc, DropRow(p)
      PROVE  NetTypeOK'
  BY <1>15 DEF DropRow, At, Goto, End, But, links, local
<1>16. ASSUME NEW p \in Proc, UpAgain(p)
      PROVE  NetTypeOK'
  BY <1>16 DEF UpAgain, EnterUp, At, Goto, End, But, links, local
<1>17. ASSUME NEW p \in Proc, ReadPeers(p)
      PROVE  NetTypeOK'
  BY <1>17 DEF ReadPeers, At, Goto, End, But, links, local
<1>18. ASSUME NEW p \in Proc, FindTunnel(p)
      PROVE  NetTypeOK'
  <2>1. Goto(p, "show") \/ End(p)
    BY <1>18 DEF FindTunnel
  <2>2. But(links)
    BY <1>18 DEF FindTunnel
  <2>3. CASE Goto(p, "show")
    BY <2>2, <2>3 DEF Goto, But, links
  <2>4. CASE End(p)
    BY <2>2, <2>4 DEF End, But, links
  <2> QED
    BY <2>1, <2>3, <2>4
<1>19. ASSUME NEW p \in Proc, FdbShow(p)
      PROVE  NetTypeOK'
  BY <1>19 DEF FdbShow, At, Goto, End, But, links, local
<1>20. ASSUME NEW p \in Proc, FdbAppend(p)
      PROVE  NetTypeOK'
  BY <1>20 DEF FdbAppend, At, Goto, End, But, links, local
<1>21. ASSUME NEW p \in Proc, FdbDel(p)
      PROVE  NetTypeOK'
  BY <1>21 DEF FdbDel, At, Goto, End, But, links, local
<1>22. ASSUME NEW p \in Proc, FdbRefused(p)
      PROVE  NetTypeOK'
  BY <1>22 DEF FdbRefused, At, Goto, End, But, links, local
<1>23. ASSUME NEW p \in Proc, FdbDone(p)
      PROVE  NetTypeOK'
  <2>1. But(links)
    BY <1>23 DEF FdbDone
  <2>2. CASE End(p)
    BY <2>1, <2>2 DEF End, But, links
  <2>3. CASE ~End(p)
    BY <1>23, <2>1, <2>3 DEF FdbDone, But, links
  <2> QED
    BY <2>2, <2>3
<1>24. ASSUME NEW p \in Proc, Raise(p)
      PROVE  NetTypeOK'
  BY <1>24 DEF Raise, Breaks, At, Goto, End, But, links, local
<1>25. CASE NetStop
  BY <1>25 DEF NetStop, EndAll, links
<1>26. CASE NetReboot
  <2>1. spoiled' \in BOOLEAN
    BY <1>26 DEF NetReboot
  <2>2. veth' \in [Vm -> {"none", "host", "placed"}] /\ vm' \in [Vm -> {"none", "row", "up"}]
    BY <1>26 DEF NetReboot
  <2>3. nat' = {} /\ stuck' = {} /\ bridge' = 0 /\ tunnel' = 0 /\ flood' = {} /\ ns' = {} /\ peers' = peers
    BY <1>26 DEF NetReboot
  <2>4. /\ pc' \in [Proc -> {"idle"}] /\ again' \in [Proc -> BOOLEAN] /\ item' \in [Proc -> Item]
        /\ dests' \in [Proc -> SUBSET Peer] /\ shown' \in [Proc -> SUBSET Peer]
    BY <1>26 DEF NetReboot, EndAll
  <2> QED
    BY <2>1, <2>2, <2>3, <2>4
<1>27. CASE JoinOrLeave
  BY <1>27 DEF JoinOrLeave, links, local
<1>28. CASE UNCHANGED net
  BY <1>28 DEF net, links, local
<1> QED
  BY <1>1, <1>2, <1>3, <1>4, <1>5, <1>6, <1>7, <1>8, <1>9, <1>10, <1>11, <1>12, <1>13, <1>14, <1>15, <1>16, <1>17, <1>18, <1>19, <1>20, <1>21, <1>22, <1>23, <1>24, <1>25, <1>26, <1>27, <1>28 DEF NetNext, Request, Step, OverlayPass, SetFdb
\* Every handler and pass is at a step of its own.
LEMMA NextStepsFit ==
  ASSUME NetTypeOK, StepsFit, NetNext
  PROVE  StepsFit'
<1> USE DEF NetTypeOK, StepsFit, Proc
<1>1. ASSUME NEW p \in Vm, BringUp(p)
      PROVE  StepsFit'
  BY <1>1 DEF BringUp, EnterUp, Bare, At, Goto, End, But, links, local
<1>2. ASSUME NEW p \in Vm, NEW recreate \in BOOLEAN, TakeDown(p, recreate)
      PROVE  StepsFit'
  BY <1>2 DEF TakeDown, At, Goto, End, But, links, local
<1>3. ASSUME NEW p \in Proc, BridgeAdd(p)
      PROVE  StepsFit'
  BY <1>3 DEF BridgeAdd, Overlay, At, Goto, End, But, links, local
<1>4. ASSUME NEW p \in Proc, BridgeSet(p)
      PROVE  StepsFit'
  BY <1>4 DEF BridgeSet, Overlay, At, Goto, End, But, links, local
<1>5. ASSUME NEW p \in Proc, VxlanAdd(p)
      PROVE  StepsFit'
  BY <1>5 DEF VxlanAdd, At, Goto, End, But, links, local
<1>6. ASSUME NEW p \in Proc, VxlanSet(p)
      PROVE  StepsFit'
  BY <1>6 DEF VxlanSet, At, Goto, End, But, links, local
<1>7. ASSUME NEW p \in Proc, NatCheck(p)
      PROVE  StepsFit'
  BY <1>7 DEF NatCheck, Next1, At, Goto, End, But, links, local
<1>8. ASSUME NEW p \in Proc, NatAdd(p)
      PROVE  StepsFit'
  BY <1>8 DEF NatAdd, Next1, At, Goto, End, But, links, local
<1>9. ASSUME NEW p \in Proc, NetnsAdd(p)
      PROVE  StepsFit'
  BY <1>9 DEF NetnsAdd, At, Goto, End, But, links, local
<1>10. ASSUME NEW p \in Proc, CreatePair(p)
      PROVE  StepsFit'
  BY <1>10 DEF CreatePair, SetVeth, At, Goto, End, But, links, local
<1>11. ASSUME NEW p \in Proc, PlaceInNs(p)
      PROVE  StepsFit'
  BY <1>11 DEF PlaceInNs, SetVeth, At, Goto, End, But, links, local
<1>12. ASSUME NEW p \in Proc, Inside(p)
      PROVE  StepsFit'
  BY <1>12 DEF Inside, At, Goto, End, But, links, local
<1>13. ASSUME NEW p \in Proc, DelNs(p)
      PROVE  StepsFit'
  BY <1>13 DEF DelNs, At, Goto, End, But, links, local
<1>14. ASSUME NEW p \in Proc, DelVeth(p)
      PROVE  StepsFit'
  BY <1>14 DEF DelVeth, At, Goto, End, But, links, local
<1>15. ASSUME NEW p \in Proc, DropRow(p)
      PROVE  StepsFit'
  BY <1>15 DEF DropRow, At, Goto, End, But, links, local
<1>16. ASSUME NEW p \in Proc, UpAgain(p)
      PROVE  StepsFit'
  BY <1>16 DEF UpAgain, EnterUp, At, Goto, End, But, links, local
<1>17. ASSUME NEW p \in Proc, ReadPeers(p)
      PROVE  StepsFit'
  BY <1>17 DEF ReadPeers, At, Goto, End, But, links, local
<1>18. ASSUME NEW p \in Proc, FindTunnel(p)
      PROVE  StepsFit'
  BY <1>18 DEF FindTunnel, At, Goto, End, But, links, local
<1>19. ASSUME NEW p \in Proc, FdbShow(p)
      PROVE  StepsFit'
  BY <1>19 DEF FdbShow, At, Goto, End, But, links, local
<1>20. ASSUME NEW p \in Proc, FdbAppend(p)
      PROVE  StepsFit'
  BY <1>20 DEF FdbAppend, At, Goto, End, But, links, local
<1>21. ASSUME NEW p \in Proc, FdbDel(p)
      PROVE  StepsFit'
  BY <1>21 DEF FdbDel, At, Goto, End, But, links, local
<1>22. ASSUME NEW p \in Proc, FdbRefused(p)
      PROVE  StepsFit'
  BY <1>22 DEF FdbRefused, At, Goto, End, But, links, local
<1>23. ASSUME NEW p \in Proc, FdbDone(p)
      PROVE  StepsFit'
  BY <1>23 DEF FdbDone, At, Goto, End, But, links, local
<1>24. ASSUME NEW p \in Proc, Raise(p)
      PROVE  StepsFit'
  BY <1>24 DEF Raise, Breaks, At, Goto, End, But, links, local
<1>25. CASE NetStop
  BY <1>25 DEF NetStop, EndAll, links
<1>26. CASE NetReboot
  BY <1>26 DEF NetReboot, EndAll
<1>27. CASE JoinOrLeave
  BY <1>27 DEF JoinOrLeave, links, local
<1>28. CASE UNCHANGED net
  BY <1>28 DEF net, links, local
<1> QED
  BY <1>1, <1>2, <1>3, <1>4, <1>5, <1>6, <1>7, <1>8, <1>9, <1>10, <1>11, <1>12, <1>13, <1>14, <1>15, <1>16, <1>17, <1>18, <1>19, <1>20, <1>21, <1>22, <1>23, <1>24, <1>25, <1>26, <1>27, <1>28 DEF NetNext, Request, Step, OverlayPass, SetFdb

\* Who leaves the bridge half made spoils it.
LEMMA NextBridgeOwned ==
  ASSUME NetTypeOK, StepsFit, BridgeOwned, NetNext
  PROVE  BridgeOwned'
<1> USE DEF NetTypeOK, BridgeOwned, Proc
<1>1. ASSUME NEW p \in Vm, BringUp(p)
      PROVE  BridgeOwned'
  BY <1>1 DEF BringUp, EnterUp, Bare, At, Goto, End, But, links, local
<1>2. ASSUME NEW p \in Vm, NEW recreate \in BOOLEAN, TakeDown(p, recreate)
      PROVE  BridgeOwned'
  BY <1>2 DEF TakeDown, At, Goto, End, But, links, local
<1>3. ASSUME NEW p \in Proc, BridgeAdd(p)
      PROVE  BridgeOwned'
  BY <1>3 DEF BridgeAdd, Overlay, At, Goto, End, But, links, local
<1>4. ASSUME NEW p \in Proc, BridgeSet(p)
      PROVE  BridgeOwned'
  BY <1>4 DEF BridgeSet, Overlay, At, Goto, End, But, links, local
<1>5. ASSUME NEW p \in Proc, VxlanAdd(p)
      PROVE  BridgeOwned'
  BY <1>5 DEF VxlanAdd, At, Goto, End, But, links, local
<1>6. ASSUME NEW p \in Proc, VxlanSet(p)
      PROVE  BridgeOwned'
  BY <1>6 DEF VxlanSet, At, Goto, End, But, links, local
<1>7. ASSUME NEW p \in Proc, NatCheck(p)
      PROVE  BridgeOwned'
  BY <1>7 DEF NatCheck, Next1, At, Goto, End, But, links, local
<1>8. ASSUME NEW p \in Proc, NatAdd(p)
      PROVE  BridgeOwned'
  BY <1>8 DEF NatAdd, Next1, At, Goto, End, But, links, local
<1>9. ASSUME NEW p \in Proc, NetnsAdd(p)
      PROVE  BridgeOwned'
  BY <1>9 DEF NetnsAdd, At, Goto, End, But, links, local
<1>10. ASSUME NEW p \in Proc, CreatePair(p)
      PROVE  BridgeOwned'
  BY <1>10 DEF CreatePair, SetVeth, At, Goto, End, But, links, local
<1>11. ASSUME NEW p \in Proc, PlaceInNs(p)
      PROVE  BridgeOwned'
  BY <1>11 DEF PlaceInNs, SetVeth, At, Goto, End, But, links, local
<1>12. ASSUME NEW p \in Proc, Inside(p)
      PROVE  BridgeOwned'
  BY <1>12 DEF Inside, At, Goto, End, But, links, local
<1>13. ASSUME NEW p \in Proc, DelNs(p)
      PROVE  BridgeOwned'
  BY <1>13 DEF DelNs, At, Goto, End, But, links, local
<1>14. ASSUME NEW p \in Proc, DelVeth(p)
      PROVE  BridgeOwned'
  BY <1>14 DEF DelVeth, At, Goto, End, But, links, local
<1>15. ASSUME NEW p \in Proc, DropRow(p)
      PROVE  BridgeOwned'
  BY <1>15 DEF DropRow, At, Goto, End, But, links, local
<1>16. ASSUME NEW p \in Proc, UpAgain(p)
      PROVE  BridgeOwned'
  BY <1>16 DEF UpAgain, EnterUp, At, Goto, End, But, links, local
<1>17. ASSUME NEW p \in Proc, ReadPeers(p)
      PROVE  BridgeOwned'
  BY <1>17 DEF ReadPeers, At, Goto, End, But, links, local
<1>18. ASSUME NEW p \in Proc, FindTunnel(p)
      PROVE  BridgeOwned'
  BY <1>18 DEF FindTunnel, At, Goto, End, But, links, local
<1>19. ASSUME NEW p \in Proc, FdbShow(p)
      PROVE  BridgeOwned'
  BY <1>19 DEF FdbShow, At, Goto, End, But, links, local
<1>20. ASSUME NEW p \in Proc, FdbAppend(p)
      PROVE  BridgeOwned'
  BY <1>20 DEF FdbAppend, At, Goto, End, But, links, local
<1>21. ASSUME NEW p \in Proc, FdbDel(p)
      PROVE  BridgeOwned'
  BY <1>21 DEF FdbDel, At, Goto, End, But, links, local
<1>22. ASSUME NEW p \in Proc, FdbRefused(p)
      PROVE  BridgeOwned'
  BY <1>22 DEF FdbRefused, At, Goto, End, But, links, local
<1>23. ASSUME NEW p \in Proc, FdbDone(p)
      PROVE  BridgeOwned'
  BY <1>23 DEF FdbDone, At, Goto, End, But, links, local
<1>24. ASSUME NEW p \in Proc, Raise(p)
      PROVE  BridgeOwned'
  BY <1>24 DEF Raise, Breaks, At, Goto, End, But, links, local
<1>25. CASE NetStop
  BY <1>25 DEF NetStop, EndAll, links
<1>26. CASE NetReboot
  BY <1>26 DEF NetReboot, EndAll
<1>27. CASE JoinOrLeave
  BY <1>27 DEF JoinOrLeave, links, local
<1>28. CASE UNCHANGED net
  BY <1>28 DEF net, links, local
<1> QED
  BY <1>1, <1>2, <1>3, <1>4, <1>5, <1>6, <1>7, <1>8, <1>9, <1>10, <1>11, <1>12, <1>13, <1>14, <1>15, <1>16, <1>17, <1>18, <1>19, <1>20, <1>21, <1>22, <1>23, <1>24, <1>25, <1>26, <1>27, <1>28 DEF NetNext, Request, Step, OverlayPass, SetFdb

\* Namespace and pair belong to the handler of their VM, and one that goes on to drop
\* the row, or to bring the VM up again, leaves neither that it knows of.
Wiring == WiringFits /\ DownCleans

LEMMA NextWiring ==
  ASSUME NetTypeOK, StepsFit, Wiring, NetNext
  PROVE  Wiring'
<1> USE DEF NetTypeOK, StepsFit, Wiring, WiringFits, DownCleans, Wired, Bare, Proc
<1>1. ASSUME NEW p \in Vm, BringUp(p)
      PROVE  Wiring'
  BY <1>1 DEF BringUp, EnterUp, Bare, At, Goto, End, But, links, local
<1>2. ASSUME NEW p \in Vm, NEW recreate \in BOOLEAN, TakeDown(p, recreate)
      PROVE  Wiring'
  BY <1>2 DEF TakeDown, At, Goto, End, But, links, local
<1>3. ASSUME NEW p \in Proc, BridgeAdd(p)
      PROVE  Wiring'
  BY <1>3 DEF BridgeAdd, Overlay, At, Goto, End, But, links, local
<1>4. ASSUME NEW p \in Proc, BridgeSet(p)
      PROVE  Wiring'
  BY <1>4 DEF BridgeSet, Overlay, At, Goto, End, But, links, local
<1>5. ASSUME NEW p \in Proc, VxlanAdd(p)
      PROVE  Wiring'
  BY <1>5 DEF VxlanAdd, At, Goto, End, But, links, local
<1>6. ASSUME NEW p \in Proc, VxlanSet(p)
      PROVE  Wiring'
  BY <1>6 DEF VxlanSet, At, Goto, End, But, links, local
<1>7. ASSUME NEW p \in Proc, NatCheck(p)
      PROVE  Wiring'
  BY <1>7 DEF NatCheck, Next1, At, Goto, End, But, links, local
<1>8. ASSUME NEW p \in Proc, NatAdd(p)
      PROVE  Wiring'
  BY <1>8 DEF NatAdd, Next1, At, Goto, End, But, links, local
<1>9. ASSUME NEW p \in Proc, NetnsAdd(p)
      PROVE  Wiring'
  BY <1>9 DEF NetnsAdd, At, Goto, End, But, links, local
<1>10. ASSUME NEW p \in Proc, CreatePair(p)
      PROVE  Wiring'
  BY <1>10 DEF CreatePair, SetVeth, At, Goto, End, But, links, local
<1>11. ASSUME NEW p \in Proc, PlaceInNs(p)
      PROVE  Wiring'
  BY <1>11 DEF PlaceInNs, SetVeth, At, Goto, End, But, links, local
<1>12. ASSUME NEW p \in Proc, Inside(p)
      PROVE  Wiring'
  BY <1>12 DEF Inside, At, Goto, End, But, links, local
<1>13. ASSUME NEW p \in Proc, DelNs(p)
      PROVE  Wiring'
  BY <1>13 DEF DelNs, At, Goto, End, But, links, local
<1>14. ASSUME NEW p \in Proc, DelVeth(p)
      PROVE  Wiring'
  BY <1>14 DEF DelVeth, At, Goto, End, But, links, local
<1>15. ASSUME NEW p \in Proc, DropRow(p)
      PROVE  Wiring'
  BY <1>15 DEF DropRow, At, Goto, End, But, links, local
<1>16. ASSUME NEW p \in Proc, UpAgain(p)
      PROVE  Wiring'
  BY <1>16 DEF UpAgain, EnterUp, At, Goto, End, But, links, local
<1>17. ASSUME NEW p \in Proc, ReadPeers(p)
      PROVE  Wiring'
  BY <1>17 DEF ReadPeers, At, Goto, End, But, links, local
<1>18. ASSUME NEW p \in Proc, FindTunnel(p)
      PROVE  Wiring'
  BY <1>18 DEF FindTunnel, At, Goto, End, But, links, local
<1>19. ASSUME NEW p \in Proc, FdbShow(p)
      PROVE  Wiring'
  BY <1>19 DEF FdbShow, At, Goto, End, But, links, local
<1>20. ASSUME NEW p \in Proc, FdbAppend(p)
      PROVE  Wiring'
  BY <1>20 DEF FdbAppend, At, Goto, End, But, links, local
<1>21. ASSUME NEW p \in Proc, FdbDel(p)
      PROVE  Wiring'
  BY <1>21 DEF FdbDel, At, Goto, End, But, links, local
<1>22. ASSUME NEW p \in Proc, FdbRefused(p)
      PROVE  Wiring'
  BY <1>22 DEF FdbRefused, At, Goto, End, But, links, local
<1>23. ASSUME NEW p \in Proc, FdbDone(p)
      PROVE  Wiring'
  BY <1>23 DEF FdbDone, At, Goto, End, But, links, local
<1>24. ASSUME NEW p \in Proc, Raise(p)
      PROVE  Wiring'
  BY <1>24 DEF Raise, Breaks, At, Goto, End, But, links, local
<1>25. CASE NetStop
  BY <1>25 DEF NetStop, EndAll, links
<1>26. CASE NetReboot
  BY <1>26 DEF NetReboot, EndAll
<1>27. CASE JoinOrLeave
  BY <1>27 DEF JoinOrLeave, links, local
<1>28. CASE UNCHANGED net
  BY <1>28 DEF net, links, local
<1> QED
  BY <1>1, <1>2, <1>3, <1>4, <1>5, <1>6, <1>7, <1>8, <1>9, <1>10, <1>11, <1>12, <1>13, <1>14, <1>15, <1>16, <1>17, <1>18, <1>19, <1>20, <1>21, <1>22, <1>23, <1>24, <1>25, <1>26, <1>27, <1>28 DEF NetNext, Request, Step, OverlayPass, SetFdb

\* What a handler has passed stays.
LEMMA NextNatFits ==
  ASSUME NetTypeOK, StepsFit, NatFits, NetNext
  PROVE  NatFits'
<1> USE DEF NetTypeOK, StepsFit, NatFits, Passed, Proc, Item
<1>1. ASSUME NEW p \in Vm, BringUp(p)
      PROVE  NatFits'
  BY <1>1 DEF BringUp, EnterUp, Bare, At, Goto, End, But, links, local
<1>2. ASSUME NEW p \in Vm, NEW recreate \in BOOLEAN, TakeDown(p, recreate)
      PROVE  NatFits'
  BY <1>2 DEF TakeDown, At, Goto, End, But, links, local
<1>3. ASSUME NEW p \in Proc, BridgeAdd(p)
      PROVE  NatFits'
  BY <1>3 DEF BridgeAdd, Overlay, At, Goto, End, But, links, local
<1>4. ASSUME NEW p \in Proc, BridgeSet(p)
      PROVE  NatFits'
  BY <1>4 DEF BridgeSet, Overlay, At, Goto, End, But, links, local
<1>5. ASSUME NEW p \in Proc, VxlanAdd(p)
      PROVE  NatFits'
  BY <1>5 DEF VxlanAdd, At, Goto, End, But, links, local
<1>6. ASSUME NEW p \in Proc, VxlanSet(p)
      PROVE  NatFits'
  BY <1>6 DEF VxlanSet, At, Goto, End, But, links, local
<1>7. ASSUME NEW p \in Proc, NatCheck(p)
      PROVE  NatFits'
  <2>1. pc[p] = "check" /\ nat' = nat /\ vm' = vm /\ p \in Vm
    BY <1>7 DEF NatCheck, At, But, links
  <2>2. CASE Goto(p, "add")
    BY <2>1, <2>2 DEF Goto
  <2>3. CASE item[p] \in nat /\ Next1(p)
    <3>1. \A j \in Item : j <= item[p] => j \in nat
      BY <2>1, <2>3
    <3>2. ASSUME NEW v \in Vm, NEW j \in Passed(v)'
          PROVE  j \in nat
      <4>1. CASE v = p
        BY <2>1, <2>3, <3>1, <3>2, <4>1 DEF Next1
      <4>2. CASE v # p
        BY <2>1, <2>3, <3>2, <4>2 DEF Next1
      <4> QED
        BY <4>1, <4>2
    <3> QED
      BY <2>1, <3>2
  <2> QED
    BY <1>7, <2>2, <2>3 DEF NatCheck
<1>8. ASSUME NEW p \in Proc, NatAdd(p)
      PROVE  NatFits'
  BY <1>8 DEF NatAdd, Next1, At, Goto, End, But, links, local
<1>9. ASSUME NEW p \in Proc, NetnsAdd(p)
      PROVE  NatFits'
  BY <1>9 DEF NetnsAdd, At, Goto, End, But, links, local
<1>10. ASSUME NEW p \in Proc, CreatePair(p)
      PROVE  NatFits'
  BY <1>10 DEF CreatePair, SetVeth, At, Goto, End, But, links, local
<1>11. ASSUME NEW p \in Proc, PlaceInNs(p)
      PROVE  NatFits'
  BY <1>11 DEF PlaceInNs, SetVeth, At, Goto, End, But, links, local
<1>12. ASSUME NEW p \in Proc, Inside(p)
      PROVE  NatFits'
  BY <1>12 DEF Inside, At, Goto, End, But, links, local
<1>13. ASSUME NEW p \in Proc, DelNs(p)
      PROVE  NatFits'
  BY <1>13 DEF DelNs, At, Goto, End, But, links, local
<1>14. ASSUME NEW p \in Proc, DelVeth(p)
      PROVE  NatFits'
  BY <1>14 DEF DelVeth, At, Goto, End, But, links, local
<1>15. ASSUME NEW p \in Proc, DropRow(p)
      PROVE  NatFits'
  BY <1>15 DEF DropRow, At, Goto, End, But, links, local
<1>16. ASSUME NEW p \in Proc, UpAgain(p)
      PROVE  NatFits'
  BY <1>16 DEF UpAgain, EnterUp, At, Goto, End, But, links, local
<1>17. ASSUME NEW p \in Proc, ReadPeers(p)
      PROVE  NatFits'
  BY <1>17 DEF ReadPeers, At, Goto, End, But, links, local
<1>18. ASSUME NEW p \in Proc, FindTunnel(p)
      PROVE  NatFits'
  BY <1>18 DEF FindTunnel, At, Goto, End, But, links, local
<1>19. ASSUME NEW p \in Proc, FdbShow(p)
      PROVE  NatFits'
  BY <1>19 DEF FdbShow, At, Goto, End, But, links, local
<1>20. ASSUME NEW p \in Proc, FdbAppend(p)
      PROVE  NatFits'
  BY <1>20 DEF FdbAppend, At, Goto, End, But, links, local
<1>21. ASSUME NEW p \in Proc, FdbDel(p)
      PROVE  NatFits'
  BY <1>21 DEF FdbDel, At, Goto, End, But, links, local
<1>22. ASSUME NEW p \in Proc, FdbRefused(p)
      PROVE  NatFits'
  BY <1>22 DEF FdbRefused, At, Goto, End, But, links, local
<1>23. ASSUME NEW p \in Proc, FdbDone(p)
      PROVE  NatFits'
  BY <1>23 DEF FdbDone, At, Goto, End, But, links, local
<1>24. ASSUME NEW p \in Proc, Raise(p)
      PROVE  NatFits'
  BY <1>24 DEF Raise, Breaks, At, Goto, End, But, links, local
<1>25. CASE NetStop
  BY <1>25 DEF NetStop, EndAll, links
<1>26. CASE NetReboot
  BY <1>26 DEF NetReboot, EndAll
<1>27. CASE JoinOrLeave
  BY <1>27 DEF JoinOrLeave, links, local
<1>28. CASE UNCHANGED net
  BY <1>28 DEF net, links, local
<1> QED
  BY <1>1, <1>2, <1>3, <1>4, <1>5, <1>6, <1>7, <1>8, <1>9, <1>10, <1>11, <1>12, <1>13, <1>14, <1>15, <1>16, <1>17, <1>18, <1>19, <1>20, <1>21, <1>22, <1>23, <1>24, <1>25, <1>26, <1>27, <1>28 DEF NetNext, Request, Step, OverlayPass, SetFdb

-----------------------------------------------------------------------------
(* The inductive invariant.                                                *)

LEMMA NetStep ==
  ASSUME NetIInv, NetNext
  PROVE  NetIInv'
<1>1. NetTypeOK /\ StepsFit /\ BridgeOwned /\ Wiring /\ NatFits
  BY DEF NetIInv, Wiring
<1>2. NetTypeOK' /\ StepsFit' /\ BridgeOwned' /\ Wiring' /\ NatFits'
  BY <1>1, NextTypes, NextStepsFit, NextBridgeOwned, NextWiring, NextNatFits
<1> QED
  BY <1>2 DEF NetIInv, Wiring

LEMMA NetStart == NetInit => NetIInv
<1>1. SUFFICES ASSUME NetInit
               PROVE  NetIInv
  OBVIOUS
<1>2. NetTypeOK
  <2>1. spoiled \in BOOLEAN
    BY <1>1 DEF NetInit
  <2>2. /\ vm \in [Vm -> {"none", "row", "up"}] /\ veth \in [Vm -> {"none", "host", "placed"}]
        /\ peers \subseteq Peer /\ bridge = 0 /\ tunnel = 0 /\ flood = {} /\ ns = {}
        /\ nat = {} /\ stuck = {}
    BY <1>1 DEF NetInit
  <2>3. /\ pc \in [Proc -> {"idle"}] /\ again \in [Proc -> BOOLEAN] /\ item \in [Proc -> Item]
        /\ dests \in [Proc -> SUBSET Peer] /\ shown \in [Proc -> SUBSET Peer]
    BY <1>1, Items DEF NetInit
  <2> QED
    BY <2>1, <2>2, <2>3 DEF NetTypeOK
<1>3. StepsFit /\ WiringFits /\ DownCleans
  BY <1>1 DEF NetInit, StepsFit, WiringFits, DownCleans, Wired, Bare, Proc
<1>4. BridgeOwned
  BY <1>1 DEF NetInit, BridgeOwned
<1>5. NatFits
  BY <1>1 DEF NetInit, NatFits, Passed, Proc
<1> QED
  BY <1>2, <1>3, <1>4, <1>5 DEF NetIInv

LEMMA StartIInv == Init => IInv
<1>1. PoolInit => PoolIInv
  <2>1. PoolInit => /\ file \in BOOLEAN /\ loop \in BOOLEAN
                    /\ lvm = 0 /\ base = "none" /\ gold = "none" /\ at = "down"
    BY DEF PoolInit
  <2> QED
    BY <2>1 DEF PoolIInv, PoolTypeOK, GoldenComplete, Image, Ensure
<1>2. NetInit => VmsHaveGolden
  BY DEF NetInit, VmsHaveGolden
<1> QED
  BY <1>1, <1>2, NetStart DEF Init, IInv

\* Rows are inserted while the service is up, and then the golden is there.
LEMMA RowsWithGolden ==
  ASSUME IInv, [Next]_vars
  PROVE  VmsHaveGolden'
<1>1. PoolNext
  BY DEF Next, Startup, Serve, Stop, Fail, Reboot, Change, PoolNext, vars
<1>2. gold = "full" => gold' = "full"
  BY <1>1, PoolStep DEF IInv
<1>3. at = "started" => gold = "full"
  BY DEF IInv, PoolIInv
<1>4. \/ Serving
      \/ \A v \in Vm : vm'[v] # "none" => vm[v] # "none"
  <2>1. CASE Stop
    BY <2>1 DEF Stop, NetStop
  <2>2. CASE Reboot
    BY <2>2 DEF Reboot, NetReboot
  <2>3. CASE Startup \/ Fail \/ Change \/ UNCHANGED vars
    BY <2>3 DEF Startup, Fail, Change, JoinOrLeave, vars, net
  <2> QED
    BY <2>1, <2>2, <2>3 DEF Next, Serve
<1> QED
  BY <1>2, <1>3, <1>4 DEF VmsHaveGolden, Serving, IInv

LEMMA NextIInv ==
  ASSUME IInv, [Next]_vars
  PROVE  IInv'
<1>1. PoolNext
  BY DEF Next, Startup, Serve, Stop, Fail, Reboot, Change, PoolNext, vars
<1>2. NetNext
  BY DEF Next, Startup, Serve, Stop, Fail, Reboot, Change, NetNext, vars
<1> QED
  BY <1>1, <1>2, PoolStep, NetStep, RowsWithGolden DEF IInv

\* What a start of the service, a bring-up and a teardown may rely on, although
\* each of them may have been broken off anywhere before.
THEOREM InductiveInvariant == Spec => []IInv
<1>1. IInv /\ [Next]_vars => IInv'
  BY NextIInv
<1> QED
  BY <1>1, StartIInv, PTL DEF Spec

-----------------------------------------------------------------------------
(* What the run checks.                                                    *)

\* Types: the flood list has entries only on a tunnel that is there, and leftovers
\* have been listed for VMs only.
THEOREM TypeCorrect == Spec => []TypeOK
<1>1. IInv => TypeOK
  BY DEF IInv, NetIInv, PoolIInv, TypeOK
<1> QED
  BY <1>1, InductiveInvariant, PTL

\* pool.ensure: the golden is never a copy of half a rootfs.
THEOREM GoldenWhole == Spec => []GoldenComplete
<1>1. IInv => GoldenComplete
  BY DEF IInv, PoolIInv
<1> QED
  BY <1>1, InductiveInvariant, PTL

\* POST /vms: where there is a VM, there is the golden.
THEOREM GoldenForVms == Spec => []VmsHaveGolden
<1>1. IInv => VmsHaveGolden
  BY DEF IInv
<1> QED
  BY <1>1, InductiveInvariant, PTL

\* pool.ensure: no start takes away what an earlier one has made.
THEOREM DataSafe == Spec => DataKept
<1>1. IInv /\ [Next]_vars => [KeepsData]_pool
  <2>1. SUFFICES ASSUME IInv, [Next]_vars
                 PROVE  KeepsData
    OBVIOUS
  <2>2. PoolNext
    BY <2>1 DEF Next, Startup, Serve, Stop, Fail, Reboot, Change, PoolNext, vars
  <2> QED
    BY <2>1, <2>2, PoolStep DEF IInv
<1> QED
  BY <1>1, InductiveInvariant, PTL DEF Spec, DataKept

\* bridge.ensure and vm_up: a VM that is up hangs on a bridge that is set up,
\* unless some bring-up was broken off within bridge.ensure.
THEOREM BridgeThere == Spec => []BridgeReady
<1>1. IInv => BridgeReady
  BY DEF IInv, NetIInv, NetTypeOK, BridgeOwned, WiringFits, Wired, BridgeReady
<1> QED
  BY <1>1, InductiveInvariant, PTL

\* nat.ensure: a VM that is up has all rules.
THEOREM RulesThere == Spec => []NatComplete
<1>1. IInv => NatComplete
  BY DEF IInv, NetIInv, NatFits, Passed, StepsFit, NatComplete
<1> QED
  BY <1>1, InductiveInvariant, PTL

\* vm_down: whatever bring-up was broken off before it, nothing stays of a VM that was
\* taken down, but for what a swallowed failure of its last teardown has left.
THEOREM NothingLeft == Spec => []DownCleans
<1>1. IInv => DownCleans
  BY DEF IInv, NetIInv
<1> QED
  BY <1>1, InductiveInvariant, PTL
=============================================================================
