\* One VM and the overlay pass, which both edit the flood list, while two other nodes
\* join and leave.
CONSTANTS
  Vm = {v1}
  Pass = {p1}
  Peer = {h1, h2}
  Chains = 1
  Rules = 0
SPECIFICATION FairSpec
PROPERTIES FloodFollowsPeers StartupHeals
