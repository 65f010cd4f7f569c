SPECIFICATION EventsSpec
CONSTANTS
  FEE_RATE_DENOMINATOR_VALUE = 10
  MAX_FEE_BASIS_POINTS = 10
  U64_MAX = 10
  OBSERVATION_NUM = 2
  OBSERVATION_UPDATE_DURATION_DEFAULT = 2
  U128_MAX = 100
  LOCK_LP_AMOUNT = 1
  Q32 = 1
  MAX_TIME = 2
  MAX_EPOCH = 1
  Admin = admin
  DefaultPubkey = default
  Keys = {admin, default}
  ConfigValues <- MCConfigValues
  TradeFeeRates = {5}
  ProtocolFeeRates = {7}
  FundFeeRates = {3}
  CreatorFeeRates = {4}
  DisableValues = {0}
  PermissionKeys = {admin}
  WhitelistedMints = {}
  ForeignExtensions = {}
  MintChoices <- FeeMints
  Creators = {admin}
  InitAmounts = {3}
  OpenTimes = {0}
  LpAmounts = {2}
  SwapAmounts = {1, 4}
  Limits = {0, 10}
  Donations = {}
  Statuses = {0}
INVARIANTS
  EventsTellTotals
PROPERTIES
  LiquidityStepsDiluteNobody
  SwapsFollowTheQuotes
  EventsTellTransfers
CHECK_DEADLOCK FALSE
