\* Two handlers at one VM, with everything that goes wrong around them.
CONSTANTS
  Vm = {v1}
  Imaged = {v1}
  Thread = {t1, t2}
  Pass = {}
  Ttl = FALSE
  Faults = {"exit", "restart", "netdown"}
  Asks = {"delete", "stop", "reboot", "start", "attach", "detach"}
  MaxIps = 2
  None = None
SPECIFICATION Spec
INVARIANTS TypeOK NothingForgotten GuestMatchesSeed IInv
PROPERTY RowsMoveForward
SYMMETRY Symmetric
