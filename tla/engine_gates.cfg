SPECIFICATION Spec
CONSTANTS
  r1 = r1
  r2 = r2
  w1 = w1
  w2 = w2
  k1 = k1
  k2 = k2
  k3 = k3
  perp = perp
  junk = junk
  Replicas = {r1, r2}
  Workers = {w1, w2}
  Home <- TwoReplicas
  Keys = {k1, k2, k3}
  Junk = {}
  None = None
  Book <- OneBook
  Mainnet = {perp}
  Echoing = {}
  MaxOpen = 0
  BatchMax = 2
  MaxEntries = 3
  Sweepers = {}
  AdminOps = {"halt", "gate"}
  Faults = {}
  MaxFaults = 1
SYMMETRY SymmetryKeys
INVARIANT HaltOvershoot
INVARIANT GateOvershoot
CHECK_DEADLOCK FALSE
