SPECIFICATION ComponentsSpec
CONSTANTS
  FEE_RATE_DENOMINATOR_VALUE = 4
  Admin = admin
  DefaultPubkey = default
  Keys = {admin, default, owner}
  Rates = {0, 1, 3, 4, 5}
  PoolFees = {0, 7}
  ConfigValues <- MCConfigValues
  OBSERVATION_NUM = 3
  OBSERVATION_UPDATE_DURATION_DEFAULT = 2
  U128_MAX = 12
  MAX_TIME = 9
  Prices <- MCPrices
  Pda = pda
  PoolKeys = {pda, random}
  ACCOUNT_STORAGE_OVERHEAD = 1
  POOL_LEN = 3
  TOKEN_LEN = 1
  Gifts = {1, 2}
  Spaces = {1, 3}
  MAX_LAMPORTS = 4
  AccountExtensions <- MCExtensions
  MintPrograms <- MCPrograms
  Self = "cp_swap"
  Programs = {"cp_swap", "router", "token"}
  MAX_DEPTH = 3
  MAX_LINES = 7
  Texts = {"plain", "has_invoke", "ends_in_success"}
  ForeignTexts = {"plain"}
INVARIANTS
  RatesBounded
  SlotDatedWithinDuration
  RingAges
  NobodyBlocksCreation
  CreatedAreRentExempt
  LoadsExactlyCreated
  ContextIsReal
  DecodedAreEmitted
PROPERTIES
  ImplementsPriceIntegral
CHECK_DEADLOCK FALSE
