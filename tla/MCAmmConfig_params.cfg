SPECIFICATION Spec
CONSTANTS
  FEE_RATE_DENOMINATOR_VALUE = 4
  Admin = admin
  DefaultPubkey = default
  Keys = {admin, default, owner}
  Rates = {0, 1, 3, 4, 5}
  PoolFees = {0, 7}
  ConfigValues <- MCConfigValues
PROPERTIES
  OnlyDocumentedParams
