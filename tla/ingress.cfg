CONSTANTS
  Vm = {v1, v2}
  Domain = {d1}
  Fqdn = {f1}
  Thread = {t1, t2}
  Pass = {p1}
  Abroad = {v2}
  MaxPending = 2
  MaxEvents = 4
  Faults = {"abort", "restart", "halt", "recreate", "ttl", "reap"}
  None = None
SPECIFICATION MCFairSpec
INVARIANTS IInv RoutesFollowTable
PROPERTY RoutesCatchUp
