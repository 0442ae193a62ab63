CONSTANTS
  Node = {1, 2, 3, 4, 5, 6}
  Source = 1
  Dest = 2
  Placement <- SixPlacement
  Range2 = 5
SPECIFICATION FairSpec
CHECK_DEADLOCK FALSE
INVARIANTS
  WalkSimple
  WalkPlanar
  WalkMissesDest
  EdgeTestExact
  HandRules
PROPERTIES
  GreedyArrives
