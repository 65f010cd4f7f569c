SPECIFICATION ClientSpec
CONSTANTS
  FEE_RATE_DENOMINATOR_VALUE = 10
  MAX_FEE_BASIS_POINTS = 10
  U64_MAX = 10
  OBSERVATION_NUM = 1
  OBSERVATION_UPDATE_DURATION_DEFAULT = 2
  U128_MAX = 0
  LOCK_LP_AMOUNT = 1
  Q32 = 1
  MAX_TIME = 2
  MAX_EPOCH = 1
  Admin = admin
  DefaultPubkey = default
  Keys = {admin, default}
  ConfigValues <- MCConfigValues
  TradeFeeRates = {2}
  ProtocolFeeRates = {5}
  FundFeeRates = {5}
  CreatorFeeRates = {0}
  DisableValues = {0}
  PermissionKeys = {}
  WhitelistedMints = {}
  ForeignExtensions = {}
  MintChoices <- FallingMints
  Creators = {admin}
  InitAmounts = {5}
  OpenTimes = {0}
  LpAmounts = {2}
  SwapAmounts = {4}
  Limits = {0, 10}
  Donations = {}
  Statuses = {}
  F64_MANTISSA = 256
  SLIPPAGE_SCALE = 8
  FeeConfigs <- FallingFee
  Commands <- DepositCommands
  Caller = admin
INVARIANTS
  DepositLimitsCoverFees
CHECK_DEADLOCK FALSE
