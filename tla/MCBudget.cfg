SPECIFICATION FairSpec
CONSTANTS
  Requests = {1, 2, 3}
  Worker = w
  MaxSize = 1
  MinBudget = 1
  Budgets = {2}
  Slack = 1
  MaxRows = 2
  GeoTimeout = 1
  KeeperTimeout = 2
  MaxTicks = 13
INVARIANTS BudgetTypeOK HeadOfLineBounded
PROPERTIES  TakenWithBudget OthersAnswered
CHECK_DEADLOCK FALSE
