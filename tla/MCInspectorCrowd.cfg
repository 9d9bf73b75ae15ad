SPECIFICATION Spec
CONSTANTS
  Requests = {r1, r2, r3}
  Worker = w
  Callback = c
  Sweeper = s
  MaxSize = 2
  MinBudget = 1
  Budgets = {1, 3}
  Slack = 1
  Unreadable = {}
  Malformed = {}
  Unpeekable = {}
  Unquotable = {r3}
  Unloggable = {}
  Profiles <- PlainProfiles
  Builtin <- BuiltinProfile
  EngineCodes = {"VLAI_SCORE"}
  MaxFaults = 1
SYMMETRY Interchangeable
INVARIANTS SoleHolder FillsOfTheLive FillNeverTooLow
PROPERTY KeepsExchange
CHECK_DEADLOCK FALSE
