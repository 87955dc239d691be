CONSTANTS
  Levels <- MCLevels
  Top = 2
  Stripes = 2
  Wait = 3
SPECIFICATION FairSpec
INVARIANTS
  PanelInv
  BusAwake
  LevelComesBack
PROPERTIES
  DrawnAnew
