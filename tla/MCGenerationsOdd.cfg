SPECIFICATION FairSpec
CONSTANTS
  Levels = {"info", "debug"}
  StartLevel = "info"
  MaxGenerations = 1
  MaxFailures = 1
PROPERTY BrokenShows
