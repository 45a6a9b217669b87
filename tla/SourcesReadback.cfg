\* A subscription with a command channel.
SPECIFICATION FairSpec
CONSTANTS
  analog = analog
  discrete = discrete
  off = off
  on = on
  Tags <- TwoTags
  Discrete <- OneDiscrete
  Values <- Bits
  Settings <- OpcUa
  MaxUpsets = 3
  MaxUpsetsCommanded = 3
PROPERTIES Converges
CHECK_DEADLOCK FALSE
