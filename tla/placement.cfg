\* Two nodes with one worker each.
CONSTANTS
  Node = {n1, n2}
  Req = {r1, r2}
  Vm = {v1, v2}
  Vpc = {c1, c2}
  Hosts = 3
  Workers = 1
  None = None
SPECIFICATION FairSpec
PROPERTY RequestsAnswered
INVARIANTS TypeOK OneHop AtMostOnce DuplicateOnlyInRace StrandedOnlyInRace TurnkeyTogether IInv
