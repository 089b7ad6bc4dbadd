SPECIFICATION Spec
CONSTANTS
  r1 = r1
  r2 = r2
  w1 = w1
  w2 = w2
  k1 = k1
  k2 = k2
  k3 = k3
  perp = perp
  junk = junk
  Replicas = {r1}
  Workers = {w1}
  Home <- OneReplica
  Keys = {k1, k2}
  Junk = {}
  None = None
  Book <- OneBook
  Mainnet = {}
  Echoing = {perp}
  MaxOpen = 1
  BatchMax = 2
  MaxEntries = 2
  Sweepers = {r1}
  AdminOps = {}
  Faults = {"list", "query", "sweepwrite", "record", "publish"}
  MaxFaults = 2
SYMMETRY Symmetry
INVARIANT TypeOK
INVARIANT ReportsAreTrue
CHECK_DEADLOCK FALSE
