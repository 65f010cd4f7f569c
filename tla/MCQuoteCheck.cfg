SPECIFICATION Spec
CONSTANTS
  FEE_RATE_DENOMINATOR_VALUE = 10
  MAX_FEE_BASIS_POINTS = 10
  U64_MAX = 60
  MAX_AMOUNT = 36
  F64_MANTISSA = 16
  SLIPPAGE_SCALE = 8
  Slippages = {0, 1, 3, 8}
  TradeFeeRates = {0, 1, 4}
  CreatorFeeRates = {0, 2, 5}
  VaultAmounts = {1, 7, 12, 20}
  Markets <- MCMarkets
INVARIANTS
  OutputQuoteIsCheapest
  CurveKeepsTheConstant
  GrossUpDeliversExactly
  SplittingNeverBringsMore
  RoundTripNeverPays
  LimitsNeverTighten
  LimitsNearExact
CHECK_DEADLOCK FALSE
