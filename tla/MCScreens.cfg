CONSTANT QueueLen = 2
SPECIFICATION ScreensSpec
INVARIANTS
  ScreensInv
  OneThing
  AsSwiped
