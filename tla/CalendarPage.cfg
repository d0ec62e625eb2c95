CONSTANTS
  MaxSpan = 4
  Dashboards = {"home", "work"}
  Board = "home"
  Events = {1, 2, 3}
  Places <- MCPlaces
  LastMonth = 2
  FirstDay = 1
  LastDay = 2
  PageSize = 1
  Scenarios <- MCScenarios
SPECIFICATION FairSpec
INVARIANTS CacheSound ReadersTruthful EditorCurrent TrashSettles
PROPERTIES DraftsKept SpinnersEnd CoverageRefined
CHECK_DEADLOCK FALSE
