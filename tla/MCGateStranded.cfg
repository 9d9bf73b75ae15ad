SPECIFICATION GateSpec
CONSTANTS
  Requests = {r1, r2, r3}
  Worker = w
  MaxSize = 1
  MinBudget = 2
  Budgets = {3, 5}
INVARIANT NoStrandedWaiter
CHECK_DEADLOCK FALSE
