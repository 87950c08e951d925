SPECIFICATION FairSpec
CONSTANTS
  e1 = e1
  e2 = e2
  w1 = w1
  w2 = w2
  Events = {e1, e2}
  Workers = {w1, w2}
  NoWorker = NoWorker
  MaxAttempts = 2
  BaseBackoff = 1
  MaxBackoff = 2
  VisibilityTimeout = 2
  BatchLimit = 1
  MaxOverdue = 1
  MaxCrashes = 1
INVARIANTS
  ProcessedWasDelivered
  AttemptBudget
PROPERTIES
  SettledForGood
  EveryEventSettles
