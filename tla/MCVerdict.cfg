SPECIFICATION Spec
CONSTANTS
  Profiles <- AllProfiles
  Acts <- FewActs
  MaxActs = 3
  Severities = {0, 1, 4}
  Confidences = {1, 37, 60}
  Fills = {0, 49, 50, 100}
INVARIANTS VerdictTypeOK FactorIsClampedSum SkipSparesTheEngine FirstPlaceDecides
  WithinVerdicts NothingWrittenIsLost RowsActAsWritten
CHECK_DEADLOCK FALSE
