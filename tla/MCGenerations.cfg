SPECIFICATION FairSpec
CONSTANTS
  Levels = {"info", "debug"}
  StartLevel = "info"
  MaxGenerations = 3
  MaxFailures = 1
INVARIANTS GenerationsTypeOK VerdictTrue
PROPERTIES NeverBack GoodArrives
