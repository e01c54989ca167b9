\* One node; two handlers and one pass over two volumes, of which one can be a
\* clone of the other, and one snapshot.  Sizes up to 3: a volume can be resized
\* twice, and the second resize overtake the first.
CONSTANTS
  Node = {n1}
  Volume = {v1, v2}
  Snap = {s1}
  Image = {}
  Vm = {}
  GoldDefault = gold
  Thread = {t1, t2}
  Pass = {p1}
  MaxSize = 3
  None = None
SPECIFICATION Spec
SYMMETRY Symmetric
INVARIANTS IInv GoldDefaultKept RowsNeverOverstate TypeOK
PROPERTY DeletedStaysDeleted
