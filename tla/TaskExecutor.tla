---------------------------- MODULE TaskExecutor ----------------------------
(***************************************************************************)
(* The task executor: rows of the replicated `tasks` table are claimed and *)
(* run by the executor loop of the node they name.  A tick reads the       *)
(* pending rows, then claims them one after the other with a conditional   *)
(* UPDATE that it confirms by reading the row again, runs the first one it *)
(* believes to have claimed, and records the outcome.                      *)
(*                                                                         *)
(* Every statement is atomic and may fail, before or after it took effect; *)
(* the process may stop anywhere.  The locals of a tick are lost then.     *)
(***************************************************************************)
EXTENDS Naturals

CONSTANTS Task,      \* ids of the tasks table
          Node,
          Executor,  \* executor loops: one for each process that serves a node
          home,      \* home[e]: the node of loop e
          None       \* Python's None

ASSUME HomeAssumption == home \in [Executor -> Node]
ASSUME NoneAssumption == None \notin Task \cup Executor \cup {"succeeded", "failed"}

VARIABLES node,     \* tasks table: the node the row names
          status,   \* tasks table: its status, "absent" before the insert
          pc,       \* next step of each executor loop
          todo,     \* rest of the rows the tick has read
          cur,      \* the row it is working on
          outcome   \* what the run of cur came to

table == <<node, status>>
vars  == <<node, status, pc, todo, cur, outcome>>

Outcome == {"succeeded", "failed"}

TypeOK ==
  /\ node    \in [Task -> Node \cup {None}]
  /\ status  \in [Task -> {"absent", "pending", "running"} \cup Outcome]
  /\ pc      \in [Executor -> {"idle", "claim", "confirm", "run", "finish"}]
  /\ todo    \in [Executor -> SUBSET Task]
  /\ cur     \in [Executor -> Task \cup {None}]
  /\ outcome \in [Executor -> Outcome \cup {None}]
  /\ \A e \in Executor : (cur[e] # None) <=> (pc[e] \in {"confirm", "run", "finish"})
  /\ \A e \in Executor : (outcome[e] # None) <=> (pc[e] = "finish")

Init ==
  /\ node    = [k \in Task |-> None]
  /\ status  = [k \in Task |-> "absent"]
  /\ pc      = [e \in Executor |-> "idle"]
  /\ todo    = [e \in Executor |-> {}]
  /\ cur     = [e \in Executor |-> None]
  /\ outcome = [e \in Executor |-> None]

-----------------------------------------------------------------------------
\* POST /vms/{id}/tasks, POST /proxy and the domain routes insert a row for
\* the node that owns the VM.
Submit(k, n) ==
  /\ status[k] = "absent"
  /\ node'   = [node EXCEPT ![k] = n]
  /\ status' = [status EXCEPT ![k] = "pending"]
  /\ UNCHANGED <<pc, todo, cur, outcome>>

SetStatus(k, s) == status' = [status EXCEPT ![k] = s] /\ UNCHANGED node

\* The loop goes to sleep and forgets the tick's locals.
Sleep(e) == /\ pc'      = [pc EXCEPT ![e] = "idle"]
            /\ todo'    = [todo EXCEPT ![e] = {}]
            /\ cur'     = [cur EXCEPT ![e] = None]
            /\ outcome' = [outcome EXCEPT ![e] = None]

\* Mutant: the rows of every node are read.
TickAnyNode(e) ==
  /\ pc[e] = "idle"
  /\ pc'   = [pc EXCEPT ![e] = "claim"]
  /\ todo' = [todo EXCEPT ![e] = {k \in Task : status[k] = "pending"}]
  /\ UNCHANGED <<table, cur, outcome>>

Tick(e) ==
  /\ pc[e] = "idle"
  /\ pc'   = [pc EXCEPT ![e] = "claim"]
  /\ todo' = [todo EXCEPT ![e] = {k \in Task : node[k] = home[e] /\ status[k] = "pending"}]
  /\ UNCHANGED <<table, cur, outcome>>

\* Mutant: the task is run without the update.
RunUnclaimed(e, k) ==
  /\ pc[e] = "claim"
  /\ k \in todo[e]
  /\ pc'   = [pc EXCEPT ![e] = "run"]
  /\ cur'  = [cur EXCEPT ![e] = k]
  /\ todo' = [todo EXCEPT ![e] = @ \ {k}]
  /\ UNCHANGED <<table, outcome>>

\* UPDATE ... SET status = 'running' WHERE id = ? AND status = 'pending'
Claim(e, k) ==
  /\ pc[e] = "claim"
  /\ k \in todo[e]
  /\ IF status[k] = "pending" THEN SetStatus(k, "running") ELSE UNCHANGED table
  /\ pc'   = [pc EXCEPT ![e] = "confirm"]
  /\ cur'  = [cur EXCEPT ![e] = k]
  /\ todo' = [todo EXCEPT ![e] = @ \ {k}]
  /\ UNCHANGED outcome

\* The row is read again; a row that is `running` counts as won.
Confirm(e) ==
  /\ pc[e] = "confirm"
  /\ IF status[cur[e]] = "running"
       THEN pc' = [pc EXCEPT ![e] = "run"] /\ UNCHANGED cur
       ELSE pc' = [pc EXCEPT ![e] = "claim"] /\ cur' = [cur EXCEPT ![e] = None]
  /\ UNCHANGED <<table, todo, outcome>>

NothingLeft(e) ==
  /\ pc[e] = "claim"
  /\ todo[e] = {}
  /\ Sleep(e)
  /\ UNCHANGED table

\* _dispatch returns or raises: unknown type, VM gone, ssh failure
Run(e, o) ==
  /\ pc[e] = "run"
  /\ pc'      = [pc EXCEPT ![e] = "finish"]
  /\ outcome' = [outcome EXCEPT ![e] = o]
  /\ UNCHANGED <<table, todo, cur>>

Finish(e) ==
  /\ pc[e] = "finish"
  /\ SetStatus(cur[e], outcome[e])
  /\ Sleep(e)

\* Mutant: the task is queued again.
FinishRequeues(e) ==
  /\ pc[e] = "finish"
  /\ outcome[e] = "succeeded"
  /\ SetStatus(cur[e], "pending")
  /\ Sleep(e)

\* The update of a success raises, with or without effect: run_task's handler
\* takes that for a failure of the task and records it as such.
FinishRaises(e) ==
  /\ pc[e] = "finish"
  /\ outcome[e] = "succeeded"
  /\ SetStatus(cur[e], outcome[e]) \/ UNCHANGED table
  /\ outcome' = [outcome EXCEPT ![e] = "failed"]
  /\ UNCHANGED <<pc, todo, cur>>

\* Mutant: a restart queues the task again.
AbortRequeues(e) ==
  /\ pc[e] \in {"confirm", "run", "finish"}
  /\ SetStatus(cur[e], "pending")
  /\ Sleep(e)

\* Mutant: the exception ends the loop.
AbortLoop(e) ==
  /\ pc[e] # "idle"
  /\ pc' = [pc EXCEPT ![e] = "ended"]
  /\ UNCHANGED <<table, todo, cur, outcome>>

\* A statement outside run_task raises and loop() swallows it, or the process
\* stops and is started again.
Abort(e) ==
  /\ pc[e] # "idle"
  /\ Sleep(e)
  /\ UNCHANGED table

Next == \/ \E k \in Task, n \in Node : Submit(k, n)
        \/ \E e \in Executor :
             \/ Tick(e)
             \/ \E k \in Task : Claim(e, k)
             \/ Confirm(e)
             \/ NothingLeft(e)
             \/ \E o \in Outcome : Run(e, o)
             \/ Finish(e)
             \/ FinishRaises(e)
             \/ Abort(e)

Spec == Init /\ [][Next]_vars

\* loop() ticks for ever, a dispatched task ends (the ssh command returns), and
\* a claim is not forestalled for ever by restarts.
Fairness ==
  \A e \in Executor :
    /\ WF_vars(Tick(e))
    /\ WF_vars(Confirm(e))
    /\ WF_vars(NothingLeft(e))
    /\ WF_vars(\E o \in Outcome : Run(e, o))
    /\ WF_vars(Finish(e))
    /\ \A k \in Task : SF_vars(Claim(e, k))

FairSpec == Spec /\ Fairness

-----------------------------------------------------------------------------
(* Properties.                                                             *)

Working(e, k) == pc[e] \in {"run", "finish"} /\ cur[e] = k

\* executor.py: a task is claimed atomically ("concurrent safety"), and the executor
\* re-reads the row "to confirm we won the claim".  No two executors work on one
\* task.  It is so where a node has one executor loop (Exclusive); two loops of one
\* node both read `running` after either's UPDATE.
RunExclusively ==
  \A e, f \in Executor, k \in Task : Working(e, k) /\ Working(f, k) => e = f

\* A finished task is neither pending nor running again, and a task that is
\* running does not go back to pending: no claim from a stale list, no late
\* record of an outcome and no restart turns the status back.
Forward ==
  \A k \in Task :
    /\ status[k] \in Outcome => status'[k] \in Outcome
    /\ status[k] = "running" => status'[k] \in {"running"} \cup Outcome
StatusMovesForward == [][Forward]_vars

\* An executor that works on a task finds its row running or finished.
WorkIsRecorded ==
  \A e \in Executor, k \in Task :
    Working(e, k) => status[k] \in {"running"} \cup Outcome

\* What an executor holds of the table is older than the table: a row it has
\* read was enqueued for its node, and one it has sent the UPDATE for is no
\* longer pending, whoever claimed it.
RowsOfNode == \A e \in Executor, k \in Task :
  k \in todo[e] \/ cur[e] = k => node[k] = home[e] /\ status[k] # "absent"
NonePending == \A e \in Executor, k \in Task : cur[e] = k => status[k] # "pending"

IInv == TypeOK /\ RowsOfNode /\ NonePending

\* Every task that is enqueued is taken up, although executors restart.
EveryTaskTaken == \A k \in Task : status[k] = "pending" ~> status[k] # "pending"

-----------------------------------------------------------------------------
(* TaskExecutor implements TaskQueue when no node has two executor loops.  *)

OneLoopPerNode == \A e, f \in Executor : home[e] = home[f] => e = f

\* Then nobody else takes a row between an executor's read of the pending rows
\* and its UPDATE: the confirmation in _claim never comes out against it.
ReadIsPending == \A e \in Executor : \A k \in todo[e] : status[k] = "pending"

\* An executor owns the row from its UPDATE on.
Owner(k) == IF \E e \in Executor : cur[e] = k
              THEN CHOOSE e \in Executor : cur[e] = k
              ELSE None

Queue == INSTANCE TaskQueue WITH runner <- [k \in Task |-> Owner(k)]

ImplementsQueue == Queue!Spec
=============================================================================
