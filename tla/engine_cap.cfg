SPECIFICATION Spec
CONSTANTS
  r1 = r1
  r2 = r2
  w1 = w1
  w2 = w2
  k1 = k1
  k2 = k2
  k3 = k3
  perp = perp
  junk = junk
  Replicas = {r1}
  Workers = {w1, w2}
  Home <- OneReplica
  Keys = {k1, k2, k3}
  Junk = {}
  None = None
  Book <- OneBook
  Mainnet = {}
  Echoing = {perp}
  MaxOpen = 1
  BatchMax = 2
  MaxEntries = 3
  Sweepers = {}
  AdminOps = {}
  Faults = {"crash", "store", "record", "refused"}
  MaxFaults = 1
SYMMETRY Symmetry
INVARIANT OpenOvershoot
INVARIANT OpenOrdersCounted
CHECK_DEADLOCK FALSE
