----------------------------- MODULE MCQuoteCheck -----------------------------
(* The small instance of QuoteCheck. *)
EXTENDS QuoteCheck

CONSTANTS TradeFeeRates, CreatorFeeRates, VaultAmounts

MCMints ==
  {[program |-> "spl_token", transfer_fee_basis_points |-> 0, maximum_fee |-> 0],
   [program |-> "token_2022", transfer_fee_basis_points |-> 3, maximum_fee |-> 3],
   [program |-> "token_2022", transfer_fee_basis_points |-> MAX_FEE_BASIS_POINTS,
    maximum_fee |-> 2]}

MCRates ==
  [trade_fee_rate: TradeFeeRates, creator_fee_rate: CreatorFeeRates,
   protocol_fee_rate: {4}, fund_fee_rate: {5}]

MCMarkets ==
  [input_vault: VaultAmounts, output_vault: VaultAmounts, rates: MCRates,
   is_creator_fee_on_input: BOOLEAN, input_mint: MCMints, output_mint: MCMints]

=============================================================================
