CONSTANTS
  Dashboards = {"home", "work"}
  Home <- MCHome
  Kind <- MCKind
  Trashed0 = {2}
  Exist0 = 4
  MaxCalls = 2
  MaxSwitches = 2
  MaxForeign = 1
  MaxFaults = 1
  MaxEvents = 4
  Menus <- MCMenus
SPECIFICATION FairSpec
INVARIANTS SidebarSound SidebarSettles TrashSettles
PROPERTIES TrashLoadEnds
CHECK_DEADLOCK FALSE
