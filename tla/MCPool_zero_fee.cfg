SPECIFICATION Spec
CONSTANTS
  FEE_RATE_DENOMINATOR_VALUE = 10
  MAX_FEE_BASIS_POINTS = 10
  U64_MAX = 16
  OBSERVATION_NUM = 2
  OBSERVATION_UPDATE_DURATION_DEFAULT = 2
  U128_MAX = 100
  LOCK_LP_AMOUNT = 1
  Q32 = 1
  MAX_TIME = 2
  MAX_EPOCH = 0
  Admin = admin
  DefaultPubkey = default
  Keys = {admin, default}
  ConfigValues <- MCConfigValues
  TradeFeeRates = {0}
  ProtocolFeeRates = {7}
  FundFeeRates = {3}
  CreatorFeeRates = {0}
  DisableValues = {0}
  PermissionKeys = {admin}
  WhitelistedMints = {}
  ForeignExtensions = {}
  MintChoices <- PlainMints
  Creators = {admin}
  InitAmounts = {6}
  OpenTimes = {0}
  LpAmounts = {1, 2}
  SwapAmounts = {1, 3, 4}
  Limits = {0, 10}
  Donations = {}
  Statuses = {0}
INVARIANTS
  NormalPoolSwaps
CHECK_DEADLOCK FALSE
