SPECIFICATION Spec
CONSTANTS
  FEE_RATE_DENOMINATOR_VALUE = 10
  MAX_FEE_BASIS_POINTS = 10
  U64_MAX = 7
  OBSERVATION_NUM = 2
  OBSERVATION_UPDATE_DURATION_DEFAULT = 2
  U128_MAX = 12
  LOCK_LP_AMOUNT = 1
  Q32 = 2
  MAX_TIME = 4
  MAX_EPOCH = 1
  Admin = admin
  DefaultPubkey = default
  Keys = {admin, default}
  ConfigValues <- MCConfigValues
  TradeFeeRates = {5}
  ProtocolFeeRates = {5}
  FundFeeRates = {0, 5, 10}
  CreatorFeeRates = {0}
  DisableValues = {0}
  PermissionKeys = {}
  WhitelistedMints = {}
  ForeignExtensions = {}
  MintChoices <- FeeMints
  Creators = {admin}
  InitAmounts = {3}
  OpenTimes = {0}
  LpAmounts = {}
  SwapAmounts = {3}
  Limits = {0, 7}
  Donations = {2}
  Statuses = {0}
PROPERTIES
  OracleImplementsPriceIntegral
  ShareValueNeverFalls
CHECK_DEADLOCK FALSE
