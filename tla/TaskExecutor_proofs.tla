------------------------ MODULE TaskExecutor_proofs ------------------------
(* Proofs about TaskExecutor, for every number of nodes, loops and tasks. *)
EXTENDS TaskExecutor, TLAPS

USE HomeAssumption, NoneAssumption DEF Outcome

-----------------------------------------------------------------------------
(* The inductive invariant.                                                *)

LEMMA InitIInv == Init => IInv
BY DEF Init, IInv, TypeOK, RowsOfNode, NonePending

\* The tables, program counters and locals keep their types.
LEMMA NextType ==
  ASSUME TypeOK, [Next]_vars
  PROVE  TypeOK'
<1>1. ASSUME NEW k \in Task, NEW n \in Node, Submit(k, n)
      PROVE  TypeOK'
  BY <1>1 DEF Submit, TypeOK
<1>2. ASSUME NEW e \in Executor, Tick(e)
      PROVE  TypeOK'
  BY <1>2 DEF Tick, table, TypeOK
<1>3. ASSUME NEW e \in Executor, NEW k \in Task, Claim(e, k)
      PROVE  TypeOK'
  BY <1>3 DEF Claim, SetStatus, table, TypeOK
<1>4. ASSUME NEW e \in Executor, Confirm(e)
      PROVE  TypeOK'
  BY <1>4 DEF Confirm, table, TypeOK
<1>5. ASSUME NEW e \in Executor, NothingLeft(e) \/ Abort(e)
      PROVE  TypeOK'
  BY <1>5 DEF NothingLeft, Abort, Sleep, table, TypeOK
<1>6. ASSUME NEW e \in Executor, NEW o \in Outcome, Run(e, o)
      PROVE  TypeOK'
  BY <1>6 DEF Run, table, TypeOK
<1>7. ASSUME NEW e \in Executor, Finish(e)
      PROVE  TypeOK'
  BY <1>7 DEF Finish, SetStatus, Sleep, TypeOK
<1>8. ASSUME NEW e \in Executor, FinishRaises(e)
      PROVE  TypeOK'
  BY <1>8 DEF FinishRaises, SetStatus, table, TypeOK
<1>9. CASE UNCHANGED vars
  BY <1>9 DEF vars, TypeOK
<1> QED
  BY <1>1, <1>2, <1>3, <1>4, <1>5, <1>6, <1>7, <1>8, <1>9 DEF Next

\* The node of a row never changes, and a row that was claimed, or has ended,
\* is never pending again: the loops' knowledge of the table does not age.
LEMMA NextRows ==
  ASSUME IInv, [Next]_vars
  PROVE  RowsOfNode' /\ NonePending'
<1> USE DEF IInv, TypeOK, RowsOfNode, NonePending
<1>1. ASSUME NEW k \in Task, NEW n \in Node, Submit(k, n)
      PROVE  RowsOfNode' /\ NonePending'
  BY <1>1 DEF Submit
<1>2. ASSUME NEW e \in Executor, Tick(e)
      PROVE  RowsOfNode' /\ NonePending'
  BY <1>2 DEF Tick, table
<1>3. ASSUME NEW e \in Executor, NEW k \in Task, Claim(e, k)
      PROVE  RowsOfNode' /\ NonePending'
  BY <1>3 DEF Claim, SetStatus, table
<1>4. ASSUME NEW e \in Executor, Confirm(e)
      PROVE  RowsOfNode' /\ NonePending'
  BY <1>4 DEF Confirm, table
<1>5. ASSUME NEW e \in Executor, NothingLeft(e) \/ Abort(e)
      PROVE  RowsOfNode' /\ NonePending'
  BY <1>5 DEF NothingLeft, Abort, Sleep, table
<1>6. ASSUME NEW e \in Executor, NEW o \in Outcome, Run(e, o)
      PROVE  RowsOfNode' /\ NonePending'
  BY <1>6 DEF Run, table
<1>7. ASSUME NEW e \in Executor, Finish(e)
      PROVE  RowsOfNode' /\ NonePending'
  BY <1>7 DEF Finish, SetStatus, Sleep
<1>8. ASSUME NEW e \in Executor, FinishRaises(e)
      PROVE  RowsOfNode' /\ NonePending'
  BY <1>8 DEF FinishRaises, SetStatus, table
<1>9. CASE UNCHANGED vars
  BY <1>9 DEF vars
<1> QED
  BY <1>1, <1>2, <1>3, <1>4, <1>5, <1>6, <1>7, <1>8, <1>9 DEF Next

\* In every reachable state, with any number of loops for a node: the types are
\* right, and what the loops hold of the table is no newer than the table.
THEOREM InductiveInvariant == Spec => []IInv
<1>1. IInv /\ [Next]_vars => IInv'
  BY NextType, NextRows DEF IInv
<1> QED
  BY <1>1, InitIInv, PTL DEF Spec

\* The tasks table and the locals of the loops keep their types.
THEOREM TypeCorrect == Spec => []TypeOK
<1>1. IInv => TypeOK
  BY DEF IInv
<1> QED
  BY <1>1, InductiveInvariant, PTL

\* executor.py marks a task before it runs it: no task is run whose row still
\* says pending, even if several loops served one node.
THEOREM WorkRecorded == Spec => []WorkIsRecorded
<1>1. IInv => WorkIsRecorded
  BY DEF IInv, TypeOK, RowsOfNode, NonePending, WorkIsRecorded, Working
<1> QED
  BY <1>1, InductiveInvariant, PTL

-----------------------------------------------------------------------------
(* The status only moves forward.                                          *)

\* UPDATE ... WHERE status = 'pending' is the only way into running, and
\* outcomes are written over running or over another outcome.
LEMMA NextForward ==
  ASSUME IInv, [Next]_vars
  PROVE  Forward
<1> USE DEF IInv, TypeOK, Forward
<1>1. ASSUME NEW k \in Task, NEW n \in Node, Submit(k, n)
      PROVE  Forward
  BY <1>1 DEF Submit
<1>2. ASSUME NEW e \in Executor, NEW k \in Task, Claim(e, k)
      PROVE  Forward
  BY <1>2 DEF Claim, SetStatus, table
<1>3. ASSUME NEW e \in Executor, Finish(e) \/ FinishRaises(e)
      PROVE  Forward
  BY <1>3 DEF Finish, FinishRaises, SetStatus, table
<1>4. ASSUME NEW e \in Executor,
             Tick(e) \/ Confirm(e) \/ NothingLeft(e) \/ Abort(e) \/ \E o \in Outcome : Run(e, o)
      PROVE  Forward
  BY <1>4 DEF Tick, Confirm, NothingLeft, Abort, Run, table
<1>5. CASE UNCHANGED vars
  BY <1>5 DEF vars
<1> QED
  BY <1>1, <1>2, <1>3, <1>4, <1>5 DEF Next

\* No stale list of a loop, late record of an outcome or restart turns the
\* status of a task back, even if several loops served one node.
THEOREM ForwardOnly == Spec => StatusMovesForward
<1>1. IInv /\ [Next]_vars => [Forward]_vars
  BY NextForward
<1> QED
  BY <1>1, InductiveInvariant, PTL DEF Spec, StatusMovesForward

-----------------------------------------------------------------------------
(* One executor loop for each node.                                        *)

\* Two loops that work on one row are loops of the node it names.
THEOREM Exclusive ==
  ASSUME OneLoopPerNode
  PROVE  Spec => []RunExclusively
<1>1. IInv => RunExclusively
  BY DEF IInv, RowsOfNode, OneLoopPerNode, RunExclusively, Working
<1> QED
  BY <1>1, InductiveInvariant, PTL

\* Only the loop that has read a row, and has not yet asked for it, claims it.
LEMMA NextReadIsPending ==
  ASSUME OneLoopPerNode, IInv, ReadIsPending, [Next]_vars
  PROVE  ReadIsPending'
<1> USE DEF IInv, TypeOK, RowsOfNode, NonePending, ReadIsPending, OneLoopPerNode
<1>1. ASSUME NEW k \in Task, NEW n \in Node, Submit(k, n)
      PROVE  ReadIsPending'
  BY <1>1 DEF Submit
<1>2. ASSUME NEW e \in Executor, Tick(e)
      PROVE  ReadIsPending'
  BY <1>2 DEF Tick, table
<1>3. ASSUME NEW e \in Executor, NEW k \in Task, Claim(e, k)
      PROVE  ReadIsPending'
  BY <1>3 DEF Claim, SetStatus, table
<1>4. ASSUME NEW e \in Executor, Confirm(e) \/ \E o \in Outcome : Run(e, o)
      PROVE  ReadIsPending'
  BY <1>4 DEF Confirm, Run, table
<1>5. ASSUME NEW e \in Executor, NothingLeft(e) \/ Abort(e)
      PROVE  ReadIsPending'
  BY <1>5 DEF NothingLeft, Abort, Sleep, table
<1>6. ASSUME NEW e \in Executor, Finish(e)
      PROVE  ReadIsPending'
  BY <1>6 DEF Finish, SetStatus, Sleep
<1>7. ASSUME NEW e \in Executor, FinishRaises(e)
      PROVE  ReadIsPending'
  BY <1>7 DEF FinishRaises, SetStatus, table
<1>8. CASE UNCHANGED vars
  BY <1>8 DEF vars
<1> QED
  BY <1>1, <1>2, <1>3, <1>4, <1>5, <1>6, <1>7, <1>8 DEF Next

\* A loop never loses the race for a row that it has read: the UPDATE and its
\* confirmation always succeed when the node has no other loop.
THEOREM ReadStaysPending ==
  ASSUME OneLoopPerNode
  PROVE  Spec => []ReadIsPending
<1>1. Init => ReadIsPending
  BY DEF Init, ReadIsPending
<1>2. IInv /\ ReadIsPending /\ [Next]_vars => ReadIsPending'
  BY NextReadIsPending
<1> QED
  BY <1>1, <1>2, InductiveInvariant, PTL DEF Spec

-----------------------------------------------------------------------------
(* TaskExecutor implements TaskQueue.                                      *)

\* `cur` has each row at most once, so that Owner inverts it.
Runner == [k \in Task |-> Owner(k)]

LEMMA OwnerIs ==
  ASSUME OneLoopPerNode, IInv, NEW e \in Executor, NEW k \in Task, cur[e] = k
  PROVE  Owner(k) = e
<1>1. \A f \in Executor : cur[f] = k => f = e
  BY DEF IInv, RowsOfNode, OneLoopPerNode
<1> QED
  BY <1>1 DEF Owner

\* A claim makes its loop the owner of the row, and of nothing else.
LEMMA ClaimRunner ==
  ASSUME OneLoopPerNode, IInv, IInv', NEW e \in Executor, NEW k \in Task, Claim(e, k)
  PROVE  /\ \A j \in Task : Owner(j) # e
         /\ Runner' = [Runner EXCEPT ![k] = e]
<1>1. cur[e] = None /\ cur' = [cur EXCEPT ![e] = k]
  BY DEF Claim, IInv, TypeOK
<1>2. \A f \in Executor : cur'[f] = k => f = e
  <2>1. cur'[e] = k
    BY <1>1 DEF IInv, TypeOK
  <2> QED
    BY <2>1 DEF IInv, RowsOfNode, OneLoopPerNode
<1>3. Owner(k)' = e
  BY <1>1, <1>2 DEF Owner, IInv, TypeOK
<1>4. ASSUME NEW j \in Task, j # k
      PROVE  Owner(j)' = Owner(j)
  <2>1. \A f \in Executor : cur'[f] = j <=> cur[f] = j
    BY <1>1, <1>4 DEF IInv, TypeOK
  <2> QED
    BY <2>1 DEF Owner
<1>5. \A j \in Task : Owner(j) # e
  BY <1>1 DEF Owner
<1> QED
  BY <1>3, <1>4, <1>5 DEF Runner

\* A loop that goes back to sleep, or finds its row taken, owns nothing.
LEMMA ReleaseRunner ==
  ASSUME OneLoopPerNode, IInv, NEW e \in Executor, NEW k \in Task,
         cur[e] = k, cur' = [cur EXCEPT ![e] = None]
  PROVE  Runner' = [Runner EXCEPT ![k] = None]
<1>1. ASSUME NEW j \in Task, j # k
      PROVE  Owner(j)' = Owner(j)
  <2>1. \A f \in Executor : cur'[f] = j <=> cur[f] = j
    BY <1>1 DEF IInv, TypeOK
  <2> QED
    BY <2>1 DEF Owner
<1>2. Owner(k)' = None
  <2>1. \A f \in Executor : cur[f] = k => f = e
    BY DEF IInv, RowsOfNode, OneLoopPerNode
  <2>2. \A f \in Executor : cur'[f] # k
    BY <2>1 DEF IInv, TypeOK
  <2> QED
    BY <2>2 DEF Owner
<1> QED
  BY <1>1, <1>2 DEF Runner

\* Every step of the executors is a step of the queue, or leaves it as it is.
LEMMA QueueStep ==
  ASSUME OneLoopPerNode, IInv, IInv', ReadIsPending, [Next]_vars
  PROVE  [Queue!Next]_<<status, Runner>>
<1>0. cur' = cur => Runner' = Runner
  BY DEF Runner, Owner
<1>1. ASSUME NEW k \in Task, NEW n \in Node, Submit(k, n)
      PROVE  Queue!Submit(k)
  BY <1>0, <1>1 DEF Submit, Runner, Queue!Submit
<1>2. ASSUME NEW e \in Executor, NEW k \in Task, Claim(e, k)
      PROVE  Queue!Take(e, k)
  BY <1>2, ClaimRunner DEF Claim, SetStatus, ReadIsPending, Runner, Queue!Take
<1>3. ASSUME NEW e \in Executor, NEW k \in Task, cur[e] = k, Confirm(e)
      PROVE  UNCHANGED <<status, Runner>> \/ Queue!GiveUp(e, k)
  BY <1>0, <1>3, OwnerIs, ReleaseRunner DEF Confirm, table, Runner, Queue!GiveUp
<1>4. ASSUME NEW e \in Executor, NEW k \in Task, cur[e] = k, Finish(e)
      PROVE  Queue!Record(e, k, outcome[e])
  BY <1>4, OwnerIs, ReleaseRunner DEF Finish, SetStatus, Sleep, Runner, Queue!Record
<1>5. ASSUME NEW e \in Executor, NEW k \in Task, cur[e] = k, FinishRaises(e)
      PROVE  UNCHANGED <<status, Runner>> \/ Queue!Record(e, k, outcome[e])
  BY <1>0, <1>5, OwnerIs DEF FinishRaises, SetStatus, table, Runner, Queue!Record
<1>6. ASSUME NEW e \in Executor, NothingLeft(e) \/ Abort(e)
      PROVE  \/ UNCHANGED <<status, Runner>>
             \/ \E k \in Task : Queue!GiveUp(e, k)
  <2>1. CASE cur[e] = None
    BY <1>0, <1>6, <2>1 DEF NothingLeft, Abort, Sleep, table, IInv, TypeOK
  <2>2. ASSUME NEW k \in Task, cur[e] = k
        PROVE  Queue!GiveUp(e, k)
    BY <1>6, <2>2, OwnerIs, ReleaseRunner
       DEF NothingLeft, Abort, Sleep, table, Runner, Queue!GiveUp
  <2> QED
    BY <2>1, <2>2 DEF IInv, TypeOK
<1>7. ASSUME NEW e \in Executor, Tick(e) \/ \E o \in Outcome : Run(e, o)
      PROVE  UNCHANGED <<status, Runner>>
  BY <1>0, <1>7 DEF Tick, Run, table
<1>8. CASE UNCHANGED vars
  BY <1>0, <1>8 DEF vars
<1>9. ASSUME NEW e \in Executor, Confirm(e) \/ Finish(e) \/ FinishRaises(e)
      PROVE  [Queue!Next]_<<status, Runner>>
  <2>1. /\ cur[e] \in Task
        /\ Finish(e) \/ FinishRaises(e) => outcome[e] \in Outcome
    BY <1>9 DEF Confirm, Finish, FinishRaises, IInv, TypeOK
  <2> QED
    BY <1>3, <1>4, <1>5, <1>9, <2>1 DEF Queue!Next
<1> QED
  BY <1>1, <1>2, <1>6, <1>7, <1>8, <1>9 DEF Next, Queue!Next

\* The executors keep the promise of the tasks table, as long as each node has
\* one loop: a task is taken by one executor, once, and never again.
THEOREM Implements ==
  ASSUME OneLoopPerNode
  PROVE  Spec => ImplementsQueue
<1>1. Init => Queue!Init
  BY DEF Init, Queue!Init, Owner
<1>2. IInv /\ IInv' /\ ReadIsPending /\ [Next]_vars => [Queue!Next]_(Queue!vars)
  BY QueueStep DEF Queue!vars, Runner
<1> QED
  BY <1>1, <1>2, InductiveInvariant, ReadStaysPending, PTL DEF Spec, ImplementsQueue, Queue!Spec
=============================================================================
