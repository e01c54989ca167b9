\* A firecracker exits by itself.
CONSTANTS
  Vm = {v1}
  Imaged = {}
  Thread = {t1}
  Pass = {p1}
  Ttl = TRUE
  Faults = {"exit"}
  Asks = {"delete", "stop", "reboot", "start", "attach", "detach"}
  MaxIps = 1
  None = None
SPECIFICATION FairSpec
PROPERTY OrphansReaped
