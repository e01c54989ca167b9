\* Bring-ups and an expiring pass leave orphans behind; two VMs, since what goes
\* wrong with one ends the pass for the other.
CONSTANTS
  Vm = {v1, v2}
  Imaged = {}
  Thread = {t1}
  Pass = {p1}
  Ttl = TRUE
  Faults = {"exit", "netdown"}
  Asks = {}
  MaxIps = 0
  None = None
SPECIFICATION FairSpec
INVARIANT NothingForgotten
PROPERTY LiveOrphansReaped
