CONSTANTS
  OtherService = OtherService
  MaxReads = 2
SPECIFICATION FairSpec
INVARIANT DiscInv
PROPERTIES
  OfferedIsFound
  ReadEnds
