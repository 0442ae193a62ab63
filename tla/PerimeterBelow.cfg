CONSTANTS
  Node = {1, 2, 3, 4, 5}
  Source = 1
  Dest = 2
  Placement <- FivePlacement
  Range2 = 5
SPECIFICATION Spec
CHECK_DEADLOCK FALSE
INVARIANTS
  HandRulesEverywhere
