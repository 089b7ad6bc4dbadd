SPECIFICATION Spec
CONSTANTS
  Analyses <- MCAnalyses
  Outcomes <- MCOutcomes
  MaxJobs = 2
  Accounts = "safe"
  Gate = "ready"
  AutoOn = TRUE
  Closed = {"sentiment_review", "paper_watch"}
INVARIANTS
  TypeOK
  TestnetEarned
  ReviewFollowsAdoption
  
  PanelsAgree
  SlowDownIsHeard
CHECK_DEADLOCK FALSE
