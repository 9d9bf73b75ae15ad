SPECIFICATION FairGateSpec
CONSTANTS
  Requests = {r1, r2, r3, r4}
  Worker = w
  MaxSize = 2
  MinBudget = 2
  Budgets = {2, 3}
INVARIANTS GateTypeOK CapacityKept AccountingExact WorkerNotStranded
PROPERTIES LimitOnlyWhenFullOfLive EveryoneLeaves
CHECK_DEADLOCK FALSE
