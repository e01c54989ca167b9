\* Two nodes, one executor loop each.
CONSTANTS
  n1 = n1
  n2 = n2
  e1 = e1
  e2 = e2
  Node = {n1, n2}
  Executor = {e1, e2}
  Task = {k1, k2, k3}
  home <- OnePerNode
  None = None
SPECIFICATION FairSpec
INVARIANTS IInv WorkIsRecorded ReadIsPending
PROPERTIES StatusMovesForward ImplementsQueue EveryTaskTaken
