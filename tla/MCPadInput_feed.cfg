CONSTANTS
  Sources <- Pair  DefaultMap <- PairMap  RomMaps <- NoPad
  Windows = {"gc", "sb", "cfg", "mapk", "about", "browser", "exit"}
  Keys = {"Up", "Enter", "Shift", "Ctrl"}  Sticky = {"Shift", "Ctrl"}
  NSlots = 4  NSticky = 3  AutoMenu = TRUE  MaxChanges = 1
SPECIFICATION Spec
INVARIANTS TypeOK NoStuckKey VkbdExact OneWindow
PROPERTIES EdgesQueued FreezeKept
CONSTRAINT BriefVisits
CHECK_DEADLOCK FALSE
