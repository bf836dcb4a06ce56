SPECIFICATION FairSpec
CONSTANTS
  DEFAULT_CAPACITY = 4
  Lengths = {0, 1, 2, 3, 5, 9}
  MaxLen = 24
INVARIANTS WritesInBounds NothingLost
PROPERTY CallsReturn
