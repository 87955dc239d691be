CONSTANTS
  MaxLevel = 3
  Sliders <- MCSliders
  Lead = 2
  Period = 2
  Delay = 11
SPECIFICATION FairSpec
INVARIANTS
  BrightInv
PROPERTIES
  TrainsApart
  ShownAtLast
