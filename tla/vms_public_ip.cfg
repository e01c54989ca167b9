\* Public IPs are attached to VMs with a root image.
CONSTANTS
  Vm = {v1}
  Imaged = {v1}
  Thread = {t1}
  Pass = {p1}
  Ttl = FALSE
  Faults = {}
  Asks = {"delete", "stop", "reboot", "start", "attach", "detach"}
  MaxIps = 1
  None = None
SPECIFICATION Spec
INVARIANT RootImageKept
