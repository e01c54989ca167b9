\* Two handlers and a reconciler pass on a node that is started over and over.
CONSTANTS
  Vm = {v1, v2}
  Pass = {p1}
  Peer = {h1}
  Chains = 1
  Rules = 1
SPECIFICATION Spec
INVARIANTS GoldenComplete VmsHaveGolden BridgeReady NatComplete DownCleans IInv
PROPERTY DataKept
SYMMETRY Symmetric
