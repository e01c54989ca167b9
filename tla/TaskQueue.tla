----------------------------- MODULE TaskQueue -----------------------------
(***************************************************************************)
(* What the tasks table promises to those who enqueue work: every task is  *)
(* taken by at most one executor, once, and an executor works on one task  *)
(* at a time.  A task whose executor gives it up is never taken again.     *)
(***************************************************************************)
CONSTANTS Task, Executor, None

VARIABLES status,   \* what GET /tasks/{id} reports
          runner    \* the executor working on the task, or None

vars == <<status, runner>>

Init == /\ status = [k \in Task |-> "absent"]
        /\ runner = [k \in Task |-> None]

Submit(k) == /\ status[k] = "absent"
             /\ status' = [status EXCEPT ![k] = "pending"]
             /\ UNCHANGED runner

Take(e, k) == /\ status[k] = "pending"
              /\ \A j \in Task : runner[j] # e
              /\ status' = [status EXCEPT ![k] = "running"]
              /\ runner' = [runner EXCEPT ![k] = e]

\* The outcome is recorded; an attempt to record may be repeated.
Record(e, k, outcome) ==
  /\ runner[k] = e
  /\ status' = [status EXCEPT ![k] = outcome]
  /\ runner' \in {runner, [runner EXCEPT ![k] = None]}

GiveUp(e, k) == /\ runner[k] = e
                /\ runner' = [runner EXCEPT ![k] = None]
                /\ UNCHANGED status

Next == \E k \in Task :
          \/ Submit(k)
          \/ \E e \in Executor :
               \/ Take(e, k)
               \/ \E outcome \in {"succeeded", "failed"} : Record(e, k, outcome)
               \/ GiveUp(e, k)

Spec == Init /\ [][Next]_vars
=============================================================================
