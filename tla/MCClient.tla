------------------------------- MODULE MCClient -------------------------------
(* The small instances of Client.  A pool of plain tokens, or one whose first  *)
(* token comes to charge a fee at the second epoch.                            *)
EXTENDS Client, TLC

CONSTANTS TradeFeeRates, ProtocolFeeRates, FundFeeRates, CreatorFeeRates, DisableValues

MCConfigValues ==
  "trade_fee_rate" :> TradeFeeRates @@ "protocol_fee_rate" :> ProtocolFeeRates
    @@ "fund_fee_rate" :> FundFeeRates @@ "creator_fee_rate" :> CreatorFeeRates
    @@ "create_pool_fee" :> {0} @@ "disable_create_pool" :> DisableValues

NoFee == [transfer_fee_basis_points |-> 0, maximum_fee |-> 0]

PlainToken ==
  [program |-> "spl_token", older |-> NoFee, newer |-> NoFee, newer_epoch |-> 0]

FeeToken(older_maximum, newer_maximum) ==
  [program |-> "token_2022",
   older |-> [transfer_fee_basis_points |-> 3, maximum_fee |-> older_maximum],
   newer |-> [transfer_fee_basis_points |-> MAX_FEE_BASIS_POINTS, maximum_fee |-> newer_maximum],
   newer_epoch |-> 1]

PlainConfigs == [t \in Tokens |-> PlainToken]

\* With the second epoch the fee becomes one more, or one less, on large transfers.
RisingFee == 0 :> FeeToken(1, 2) @@ 1 :> PlainToken

FallingFee == 0 :> FeeToken(2, 1) @@ 1 :> PlainToken

\* The mint of each token in each epoch.
MintsOf(configs) == [t \in Tokens |-> {get_epoch_fee(configs[t], e) : e \in 0..MAX_EPOCH}]

PlainMints == MintsOf(PlainConfigs)

RisingMints == MintsOf(RisingFee)

FallingMints == MintsOf(FallingFee)

Liquidity(kinds, amounts, slippages) == [kind: kinds, lp: amounts, slippage: slippages]

Swaps(kinds, inputs, amounts, slippages) ==
  [kind: kinds, input: inputs, amount: amounts, slippage: slippages]

Creation ==
  [kind: {"initialize"}, first: Tokens, amounts: {0 :> 3 @@ 1 :> 4}, open_time: {0}]

\* Two plain tokens are alike, and others swap in both directions.
PlainCommands ==
  Creation \cup Liquidity({"deposit"}, {1}, {0}) \cup Liquidity({"withdraw"}, {1}, {0, 1})
    \cup Swaps({"swap_base_in"}, {0}, {3}, {0}) \cup Swaps({"swap_base_out"}, {0}, {1}, {0})

SwapCommands ==
  Swaps({"swap_base_in"}, Tokens, {4}, {1}) \cup Swaps({"swap_base_out"}, Tokens, {1}, {1})

DepositCommands == Liquidity({"deposit"}, {2}, {0})

=============================================================================
