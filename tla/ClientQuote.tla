------------------------------ MODULE ClientQuote ------------------------------
(***************************************************************************)
(* What the command-line client computes off chain before it sends a       *)
(* transaction: the amounts a command will cost or bring, read from a      *)
(* snapshot of the pool's accounts, and the limits it derives from them.   *)
(* The curve is the program's own (the client links its crate); the        *)
(* transfer fees and the slippage are the client's.                        *)
(*                                                                         *)
(* A slippage is a multiple of 1/SLIPPAGE_SCALE, a power of two, so that   *)
(* 1 + slippage and 1 - slippage are exact in an f64; what an f64 rounds   *)
(* is an amount beyond its mantissa, and the product.                      *)
(***************************************************************************)
EXTENDS SwapQuote

CONSTANTS
  F64_MANTISSA,     \* integers up to here are exact in an f64: 2^53, small in the runs
  SLIPPAGE_SCALE    \* the slippage of client_config.ini, in units of 1/SLIPPAGE_SCALE

\* No odd number but 1 divides a power of two.
IsPowerOfTwo(n) == \A d \in 2..n : n % d = 0 => d % 2 = 0

ASSUME ClientQuoteAssumption ==
  /\ F64_MANTISSA \in Nat \ {0} /\ IsPowerOfTwo(F64_MANTISSA)
  /\ SLIPPAGE_SCALE \in Nat \ {0} /\ IsPowerOfTwo(SLIPPAGE_SCALE)
  /\ 2 * SLIPPAGE_SCALE <= F64_MANTISSA

Sides == {0, 1}

OtherSide(t) == 1 - t

(* --------------------------------- f64 --------------------------------- *)

\* The distance between neighbouring f64s around n, for n of any size.
Ulp(n) ==
  CHOOSE ulp \in 1..(2 * n + 1) :
    /\ n < F64_MANTISSA * ulp
    /\ ulp = 1 \/ 2 * n >= F64_MANTISSA * ulp
    /\ IsPowerOfTwo(ulp)

\* n rounded to the nearest f64, ties to an even mantissa.
ToF64(n) ==
  LET ulp  == Ulp(n)
      low  == n \div ulp
      rest == n % ulp
  IN  IF 2 * rest > ulp \/ (2 * rest = ulp /\ low % 2 = 1)
      THEN (low + 1) * ulp
      ELSE low * ulp

\* rounds towards the caller's disadvantage
BugSlippageRounding(amount, slippage, round_up) ==
  LET factor  == IF round_up THEN SLIPPAGE_SCALE + slippage ELSE SLIPPAGE_SCALE - slippage
      product == ToF64(ToF64(amount) * factor)
  IN  AtMost(IF round_up THEN product \div SLIPPAGE_SCALE ELSE CeilDiv(product, SLIPPAGE_SCALE),
             U64_MAX)

\* applies the slippage to either limit in the same direction
BugSlippageDirection(amount, slippage, round_up) ==
  AtMost(ToF64(ToF64(amount) * (SLIPPAGE_SCALE + slippage)) \div SLIPPAGE_SCALE, U64_MAX)

\* takes the slippage for the part to keep
BugSlippageIsFactor(amount, slippage, round_up) ==
  LET factor == IF round_up THEN SLIPPAGE_SCALE + slippage ELSE slippage
  IN  AtMost(ToF64(ToF64(amount) * factor) \div SLIPPAGE_SCALE, U64_MAX)

\* The product is scaled by SLIPPAGE_SCALE; the cast back to u64 saturates.
amount_with_slippage(amount, slippage, round_up) ==
  LET factor  == IF round_up THEN SLIPPAGE_SCALE + slippage ELSE SLIPPAGE_SCALE - slippage
      product == ToF64(ToF64(amount) * factor)
  IN  AtMost(IF round_up THEN CeilDiv(product, SLIPPAGE_SCALE) ELSE product \div SLIPPAGE_SCALE,
             U64_MAX)

(* ---------------------------- transfer fees ---------------------------- *)

\* A mint account as the client unpacks it: two fees, and the epoch from which
\* the newer one is in force.  SPL mints carry no fee.
Fees(bound) == [transfer_fee_basis_points: 0..MAX_FEE_BASIS_POINTS, maximum_fee: bound]

TransferFeeConfigs(bound, epochs) ==
  [program: {"spl_token", "token_2022"}, older: Fees(bound), newer: Fees(bound),
   newer_epoch: epochs]

\* TransferFeeConfig::get_epoch_fee, as the mint of TransferFee it amounts to.
get_epoch_fee(config, epoch) ==
  LET fee == IF epoch >= config.newer_epoch THEN config.newer ELSE config.older
  IN  [program |-> config.program,
       transfer_fee_basis_points |-> fee.transfer_fee_basis_points,
       maximum_fee |-> fee.maximum_fee]

\* quotes as if no mint charged a fee
BugNoFee(config, epoch, pre_fee_amount) == 0

\* The client's own get_transfer_fee and get_transfer_inverse_fee.
EpochFee(config, epoch, pre_fee_amount) ==
  CalculateFee(get_epoch_fee(config, epoch), pre_fee_amount)

InverseEpochFee(config, epoch, post_fee_amount) ==
  LET fee == get_epoch_fee(config, epoch)
  IN  IF fee.transfer_fee_basis_points = MAX_FEE_BASIS_POINTS
      THEN fee.maximum_fee
      ELSE CalculateInverseFee(fee, post_fee_amount)

\* As written: the amount is passed where the epoch belongs and the epoch where
\* the amount does.
get_pool_mints_inverse_fee(configs, post_fee_amount, epoch) ==
  [t \in Sides |-> InverseEpochFee(configs[t], post_fee_amount[t], epoch)]

get_pool_mints_transfer_fee(configs, pre_fee_amount, epoch) ==
  [t \in Sides |-> EpochFee(configs[t], pre_fee_amount[t], epoch)]

(* -------------------------------- quotes ------------------------------- *)

\* What a command reads of the pool's accounts in one call: the totals net of
\* fees, the LP supply, and the rates and fee modes of the two swap directions.
Snapshots(amounts) ==
  [total: [Sides -> amounts], lp_supply: amounts, rates: FeeRates(0..FEE_RATE_DENOMINATOR_VALUE),
   is_creator_fee_on_input: [Sides -> BOOLEAN]]

\* floors, so that the quote is below the program's own amount
BugLiquidityFloor(seen, lp_token_amount) ==
  [t \in Sides |-> (lp_token_amount * seen.total[t]) \div seen.lp_supply]

\* Both liquidity commands take the ceiling, cut to u64.
LiquidityQuote(seen, lp_token_amount) ==
  [t \in Sides |-> lp_tokens_to_trading_tokens(lp_token_amount, seen.lp_supply,
                                               seen.total[t], "Ceiling") % (U64_MAX + 1)]

WithSlippage(quote, slippage, round_up) ==
  [t \in Sides |-> amount_with_slippage(quote[t], slippage, round_up)]

DepositLimits(seen, configs, epoch, slippage, lp_token_amount) ==
  LET amount == WithSlippage(LiquidityQuote(seen, lp_token_amount), slippage, TRUE)
      fee    == get_pool_mints_inverse_fee(configs, amount, epoch)
  IN  [t \in Sides |-> amount[t] + fee[t]]

WithdrawLimits(seen, configs, epoch, slippage, lp_token_amount) ==
  LET amount == WithSlippage(LiquidityQuote(seen, lp_token_amount), slippage, FALSE)
      fee    == get_pool_mints_transfer_fee(configs, amount, epoch)
  IN  [t \in Sides |-> amount[t] - fee[t]]

SwapInResult(seen, configs, epoch, input, amount) ==
  swap_base_input(amount - EpochFee(configs[input], epoch, amount),
                  seen.total[input], seen.total[OtherSide(input)],
                  seen.rates, seen.is_creator_fee_on_input[input])

\* amount_received
SwapInQuote(seen, configs, epoch, input, amount) ==
  LET amount_out == SwapInResult(seen, configs, epoch, input, amount).output_amount
  IN  amount_out - EpochFee(configs[OtherSide(input)], epoch, amount_out)

\* actual_amount_out
SwapOutAmount(configs, epoch, input, amount) ==
  amount + InverseEpochFee(configs[OtherSide(input)], epoch, amount)

\* input_transfer_amount
SwapOutQuote(seen, configs, epoch, input, amount) ==
  LET result == swap_base_output(SwapOutAmount(configs, epoch, input, amount),
                                 seen.total[input], seen.total[OtherSide(input)],
                                 seen.rates, seen.is_creator_fee_on_input[input])
  IN  result.input_amount + InverseEpochFee(configs[input], epoch, result.input_amount)

\* The unwraps of a quote: where one of these is FALSE the command panics.
DepositQuoteDefined(seen, configs, epoch, slippage, lp_token_amount) ==
  /\ seen.lp_supply # 0
  /\ \A t \in Sides :
       DepositLimits(seen, configs, epoch, slippage, lp_token_amount)[t] <= U64_MAX

WithdrawQuoteDefined(seen, configs, epoch, slippage, lp_token_amount) ==
  /\ seen.lp_supply # 0
  /\ \A t \in Sides :
       WithdrawLimits(seen, configs, epoch, slippage, lp_token_amount)[t] >= 0

SwapInQuoteDefined(seen, input) ==
  SwapBaseInputDefined(seen.rates, seen.is_creator_fee_on_input[input])

\* leaves the sums unchecked
BugUncheckedQuote(seen, configs, epoch, input, amount) ==
  SwapBaseOutputDefined(SwapOutAmount(configs, epoch, input, amount),
                        seen.total[OtherSide(input)], seen.rates,
                        seen.is_creator_fee_on_input[input])

SwapOutQuoteDefined(seen, configs, epoch, input, amount) ==
  /\ SwapOutAmount(configs, epoch, input, amount) <= U64_MAX
  /\ SwapBaseOutputDefined(SwapOutAmount(configs, epoch, input, amount),
                           seen.total[OtherSide(input)], seen.rates,
                           seen.is_creator_fee_on_input[input])
  /\ SwapOutQuote(seen, configs, epoch, input, amount) <= U64_MAX

=============================================================================
