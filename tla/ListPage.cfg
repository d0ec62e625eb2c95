CONSTANTS
  Texts <- MCTexts
  Typed = {"egg", "eggs"}
  Theirs = {"egg"}
  Norm <- MCNorm
  Within <- MCWithin
  Start <- MCStart
  NoText = ""
  MaxItems = 5
  MaxCalls = 2
  MaxForeign = 1
  MaxFaults = 1
  MaxSuggestions = 2
  Menus <- MCMenus
SPECIFICATION Spec
INVARIANTS RowsSound ScreenSettles FailedTextKept
PROPERTIES AppendsInOrder
CHECK_DEADLOCK FALSE
