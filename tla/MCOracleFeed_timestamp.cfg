SPECIFICATION FeedSpec
CONSTANTS
  OBSERVATION_NUM = 3
  OBSERVATION_UPDATE_DURATION_DEFAULT = 2
  U128_MAX = 12
  MAX_TIME = 9
  Prices <- MCPrices
INVARIANTS
  SlotDatedByItsTimestamp
