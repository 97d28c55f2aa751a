CONSTANTS
  Sources <- Two  DefaultMap <- TwoMap  RomMaps <- TwoMaps
  Windows = {}
  Keys = {"Enter", "Backspace"}  Sticky = {}
  NSlots = 4  NSticky = 1  AutoMenu = FALSE  MaxChanges = 2
SPECIFICATION Spec
INVARIANTS NoStuckKey
