-------------------------------- MODULE MCPool --------------------------------
(* The small instances of Pool.  The .cfg files pick the input sets.          *)
EXTENDS PoolProperties, TLC

CONSTANTS
  TradeFeeRates, ProtocolFeeRates, FundFeeRates, CreatorFeeRates, DisableValues

MCConfigValues ==
  "trade_fee_rate" :> TradeFeeRates @@ "protocol_fee_rate" :> ProtocolFeeRates
    @@ "fund_fee_rate" :> FundFeeRates @@ "creator_fee_rate" :> CreatorFeeRates
    @@ "create_pool_fee" :> {0} @@ "disable_create_pool" :> DisableValues

SplToken == [program |-> "spl_token", transfer_fee_basis_points |-> 0, maximum_fee |-> 0]

Token2022(basis_points, maximum_fee) ==
  [program |-> "token_2022", transfer_fee_basis_points |-> basis_points,
   maximum_fee |-> maximum_fee]

\* Two plain SPL tokens.
PlainMints == [t \in Tokens |-> {SplToken}]

\* A plain token against a Token-2022 mint that charges nothing.
PlainAnd2022 == 0 :> {SplToken} @@ 1 :> {Token2022(0, 0)}

\* A plain token against one whose fee changes with the epoch.
FeeMints == 0 :> {SplToken} @@ 1 :> {Token2022(3, 2), Token2022(MAX_FEE_BASIS_POINTS, 1)}

=============================================================================
