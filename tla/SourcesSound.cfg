\* One source under the main loop: what arrives at the pusher.
SPECIFICATION FairSpec
CONSTANTS
  analog = analog
  discrete = discrete
  off = off
  on = on
  Tags <- TwoTags
  Discrete <- OneDiscrete
  Values <- Bits
  Settings <- Sound
  MaxUpsets = 3
  MaxUpsetsCommanded = 2
INVARIANTS TypeOK NewsIsCurrent BadIsTold
PROPERTIES Converges
CHECK_DEADLOCK FALSE
