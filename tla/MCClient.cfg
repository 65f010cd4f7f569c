SPECIFICATION ClientSpec
CONSTANTS
  FEE_RATE_DENOMINATOR_VALUE = 10
  MAX_FEE_BASIS_POINTS = 10
  U64_MAX = 8
  OBSERVATION_NUM = 1
  OBSERVATION_UPDATE_DURATION_DEFAULT = 2
  U128_MAX = 0
  LOCK_LP_AMOUNT = 1
  Q32 = 1
  MAX_TIME = 2
  MAX_EPOCH = 0
  Admin = admin
  DefaultPubkey = default
  Keys = {admin, default}
  ConfigValues <- MCConfigValues
  TradeFeeRates = {2}
  ProtocolFeeRates = {5}
  FundFeeRates = {5}
  CreatorFeeRates = {0}
  DisableValues = {0}
  PermissionKeys = {}
  WhitelistedMints = {}
  ForeignExtensions = {}
  MintChoices <- PlainMints
  Creators = {admin}
  InitAmounts = {4}
  OpenTimes = {0}
  LpAmounts = {2}
  SwapAmounts = {3}
  Limits = {0, 8}
  Donations = {}
  Statuses = {}
  F64_MANTISSA = 64
  SLIPPAGE_SCALE = 4
  FeeConfigs <- PlainConfigs
  Commands <- PlainCommands
  Caller = admin
INVARIANTS
  ClientTypeOK
  ReportsAreTrue
  FreshCommandAccepted
PROPERTIES
  SlippageBoundsLoss
  RunsEnd
CHECK_DEADLOCK FALSE
