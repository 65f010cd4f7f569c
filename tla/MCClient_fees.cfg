SPECIFICATION ClientSpec
CONSTANTS
  FEE_RATE_DENOMINATOR_VALUE = 10
  MAX_FEE_BASIS_POINTS = 10
  U64_MAX = 11
  OBSERVATION_NUM = 1
  OBSERVATION_UPDATE_DURATION_DEFAULT = 2
  U128_MAX = 0
  LOCK_LP_AMOUNT = 1
  Q32 = 1
  MAX_TIME = 2
  MAX_EPOCH = 1
  Admin = admin
  DefaultPubkey = default
  Keys = {admin, default}
  ConfigValues <- MCConfigValues
  TradeFeeRates = {2}
  ProtocolFeeRates = {5}
  FundFeeRates = {0}
  CreatorFeeRates = {0}
  DisableValues = {0}
  PermissionKeys = {}
  WhitelistedMints = {}
  ForeignExtensions = {}
  MintChoices <- RisingMints
  Creators = {admin}
  InitAmounts = {5}
  OpenTimes = {0}
  LpAmounts = {}
  SwapAmounts = {3}
  Limits = {0, 11}
  Donations = {}
  Statuses = {}
  F64_MANTISSA = 256
  SLIPPAGE_SCALE = 8
  FeeConfigs <- RisingFee
  Commands <- SwapCommands
  Caller = admin
INVARIANTS
  FreshCommandAccepted
PROPERTIES
  SlippageBoundsLoss
CHECK_DEADLOCK FALSE
