CONSTANTS
  Recs = {r1, r2, r3}
  Desks = {d1, d2}
  Tabs = {t1}
  LiveForms = {}
  MaxPresses = 3
  MaxFaults = 1
  MaxBacktests = 0
  MaxTurns = 0
SPECIFICATION Spec
INVARIANTS
  
  VersionsAreOwn
  AppliedToItsVersion
  OnlyApprovedApplied
  ApprovalIsHeard
PROPERTIES
  DecisionsStand
SYMMETRY Interchangeable
CHECK_DEADLOCK FALSE
