\* Two senders and a channel that fills up.
CONSTANTS
  Reader = Reader
  Grains = {g1}
  Capacity = 2
  MaxOffers = 4
SPECIFICATION FairSpec
INVARIANTS TypeOK FrameNeverWaits
PROPERTIES DrainedWhenClosed StreamSpec PumpsEnd
CHECK_DEADLOCK FALSE
