SPECIFICATION Spec
CONSTANTS
  Requests = {r1, r2, r3}
  Worker = w
  Callback = c
  Sweeper = s
  MaxSize = 2
  MinBudget = 1
  Budgets = {3}
  Slack = 1
  Unreadable = {r3}
  Malformed = {}
  Unpeekable = {r1}
  Unquotable = {r2}
  Unloggable = {}
  Profiles <- PlainProfiles
  Builtin <- BuiltinProfile
  EngineCodes = {"VLAI_SCORE"}
  MaxFaults = 0
INVARIANT EveryPathAnswers
CHECK_DEADLOCK FALSE
