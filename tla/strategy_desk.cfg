CONSTANTS
  Recs = {r1}
  Desks = {}
  Tabs = {t1, t2}
  LiveForms <- MCLiveForms
  MaxPresses = 2
  MaxFaults = 1
  MaxBacktests = 1
  MaxTurns = 1
SPECIFICATION FairSpec
INVARIANTS
  TypeOK
  MainnetNeedsGate
  PaperReviewIsEarned
PROPERTIES
  DeletedStaysDeleted
  TabsSettle
CHECK_DEADLOCK FALSE
