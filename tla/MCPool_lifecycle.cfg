SPECIFICATION Spec
CONSTANTS
  FEE_RATE_DENOMINATOR_VALUE = 10
  MAX_FEE_BASIS_POINTS = 10
  U64_MAX = 12
  OBSERVATION_NUM = 2
  OBSERVATION_UPDATE_DURATION_DEFAULT = 2
  U128_MAX = 100
  LOCK_LP_AMOUNT = 1
  Q32 = 1
  MAX_TIME = 2
  MAX_EPOCH = 0
  Admin = admin
  DefaultPubkey = default
  Keys = {admin, default}
  ConfigValues <- MCConfigValues
  TradeFeeRates = {2}
  ProtocolFeeRates = {7}
  FundFeeRates = {3}
  CreatorFeeRates = {3}
  DisableValues = {0, 1}
  PermissionKeys = {admin}
  WhitelistedMints = {}
  ForeignExtensions = {1}
  MintChoices <- PlainAnd2022
  Creators = {admin}
  InitAmounts = {4}
  OpenTimes = {0}
  LpAmounts = {4}
  SwapAmounts = {4}
  Limits = {0, 12}
  Donations = {}
  Statuses = {0, 1, 6}
INVARIANTS
  NormalPoolSwaps
  CurveDecides
PROPERTIES
  StatusObeyed
CHECK_DEADLOCK FALSE
