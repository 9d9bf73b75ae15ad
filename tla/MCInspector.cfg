SPECIFICATION FairSpec
CONSTANTS
  Requests = {r1, r2, r3}
  Worker = w
  Callback = c
  Sweeper = s
  MaxSize = 1
  MinBudget = 1
  Budgets = {2}
  Slack = 0
  Unreadable = {}
  Malformed = {r2}
  Unpeekable = {r3}
  Unquotable = {}
  Unloggable = {r2}
  Profiles <- AllProfiles
  Builtin <- BuiltinProfile
  EngineCodes = {"VLAI_SCORE", "VLAI_DEADLINE", "VLAI_INTERNAL_ERROR"}
  MaxFaults = 0
INVARIANTS InspectorTypeOK WritesFollowAnswer
PROPERTIES KeepsExchange EveryRequestReplied
CHECK_DEADLOCK FALSE
