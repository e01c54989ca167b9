\* Every LV without a row is reaped, whatever one handler does.
CONSTANTS
  Node = {n1}
  Volume = {v1}
  Snap = {s1}
  Image = {g1}
  Vm = {m1}
  GoldDefault = gold
  Thread = {t1}
  Pass = {p1}
  MaxSize = 1
  None = None
SPECIFICATION FairSpec
PROPERTY OrphansReaped
