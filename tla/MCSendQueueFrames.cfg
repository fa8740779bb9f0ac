\* Messages that share a frame.
CONSTANTS
  Reader = Reader
  Grains = {g1}
  Capacity = 2
  MaxOffers = 4
SPECIFICATION Spec
PROPERTY OneMessagePerFrame
CHECK_DEADLOCK FALSE
