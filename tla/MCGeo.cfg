SPECIFICATION Spec
CONSTANTS
  Callers = {callback, worker}
  Addrs = {0, 1, 2, 3}
  Directory <- TwoEditions
INVARIANTS GeoTypeOK SpansApart CacheOfOneEdition AnswersOfOneEdition
