CONSTANTS
  Recs = {}
  Desks = {}
  Tabs = {t1}
  LiveForms = {}
  MaxPresses = 1
  MaxFaults = 0
  MaxBacktests = 0
  MaxTurns = 0
SPECIFICATION Spec
INVARIANTS
  RiskIsStored
CHECK_DEADLOCK FALSE
