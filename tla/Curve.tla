-------------------------------- MODULE Curve --------------------------------
(***************************************************************************)
(* The arithmetic of a constant-product pool: curve/fees.rs,               *)
(* curve/constant_product.rs and curve/calculator.rs of the cp-swap        *)
(* program.  Everything here is a pure operator over Nat.                  *)
(*                                                                         *)
(* The code works in u128 on operands that fit u64.  Every intermediate    *)
(* product then fits u128 except x * dy * 10^6 in calculate_pre_fee_amount,*)
(* and where that one overflows the caller's conversion of the result to   *)
(* u64 fails too, so the width that matters is the callers' u64, which the *)
(* Pool module checks where the code does.                                 *)
(*                                                                         *)
(* An Option is split in two: the operator, and a predicate that holds     *)
(* exactly when the code returns Some.                                     *)
(*                                                                         *)
(* A definition named Bug... is a plausible mistake in the definition that  *)
(* follows it.  Nothing uses it: it documents which mistakes the properties *)
(* of the project detect, and PROJECT.json names the pairs.                *)
(***************************************************************************)
EXTENDS Integers

CONSTANT FEE_RATE_DENOMINATOR_VALUE   \* 10^6 in the code, small in the runs

ASSUME DenominatorAssumption ==
  FEE_RATE_DENOMINATOR_VALUE \in Nat \ {0}

(* ------------------------------ fees.rs -------------------------------- *)

ceil_div(token_amount, fee_numerator, fee_denominator) ==
  (token_amount * fee_numerator + fee_denominator - 1) \div fee_denominator

floor_div(token_amount, fee_numerator, fee_denominator) ==
  (token_amount * fee_numerator) \div fee_denominator

\* rounds down
BugTradingFeeFloor(amount, trade_fee_rate) ==
  floor_div(amount, trade_fee_rate, FEE_RATE_DENOMINATOR_VALUE)

trading_fee(amount, trade_fee_rate) ==
  ceil_div(amount, trade_fee_rate, FEE_RATE_DENOMINATOR_VALUE)

protocol_fee(amount, protocol_fee_rate) ==
  floor_div(amount, protocol_fee_rate, FEE_RATE_DENOMINATOR_VALUE)

fund_fee(amount, fund_fee_rate) ==
  floor_div(amount, fund_fee_rate, FEE_RATE_DENOMINATOR_VALUE)

creator_fee(amount, creator_fee_rate) ==
  ceil_div(amount, creator_fee_rate, FEE_RATE_DENOMINATOR_VALUE)

\* takes either zero rate for a zero denominator
BugBothRates(trade_fee_rate, creator_fee_rate) == trade_fee_rate # 0 /\ creator_fee_rate # 0

\* floor_div answers None for a zero denominator: a pool whose two rates are
\* both 0 has no split.
SplitDefined(trade_fee_rate, creator_fee_rate) == trade_fee_rate + creator_fee_rate # 0

split_creator_fee(total_fee, trade_fee_rate, creator_fee_rate) ==
  floor_div(total_fee, creator_fee_rate, trade_fee_rate + creator_fee_rate)

\* rounds down
BugPreFeeFloor(post_fee_amount, trade_fee_rate) ==
  (post_fee_amount * FEE_RATE_DENOMINATOR_VALUE)
    \div (FEE_RATE_DENOMINATOR_VALUE - trade_fee_rate)

calculate_pre_fee_amount(post_fee_amount, trade_fee_rate) ==
  IF trade_fee_rate = 0
  THEN post_fee_amount
  ELSE ceil_div(post_fee_amount, FEE_RATE_DENOMINATOR_VALUE,
                FEE_RATE_DENOMINATOR_VALUE - trade_fee_rate)

(* ------------------------- constant_product.rs ------------------------- *)

checked_ceil_div(dividend, divisor) ==
  dividend \div divisor + (IF dividend % divisor # 0 THEN 1 ELSE 0)

swap_base_input_without_fees(input_amount, input_vault_amount, output_vault_amount) ==
  (input_amount * output_vault_amount) \div (input_vault_amount + input_amount)

\* rounds the input down
BugInputFloor(output_amount, input_vault_amount, output_vault_amount) ==
  (input_vault_amount * output_amount) \div (output_vault_amount - output_amount)

swap_base_output_without_fees(output_amount, input_vault_amount, output_vault_amount) ==
  checked_ceil_div(input_vault_amount * output_amount, output_vault_amount - output_amount)

RoundDirection == {"Floor", "Ceiling"}

\* rounds in the caller's favour whatever the direction
BugAlwaysFloor(lp_token_amount, lp_token_supply, token_vault_amount, round_direction) ==
  (lp_token_amount * token_vault_amount) \div lp_token_supply

\* The amount of one trading token that stands for lp_token_amount.  Ceiling
\* leaves a zero amount at zero, so that the caller rejects it.
lp_tokens_to_trading_tokens(lp_token_amount, lp_token_supply, token_vault_amount, round_direction) ==
  LET product      == lp_token_amount * token_vault_amount
      token_amount == product \div lp_token_supply
  IN  IF round_direction = "Ceiling" /\ product % lp_token_supply > 0 /\ token_amount > 0
      THEN token_amount + 1
      ELSE token_amount

(* ----------------------------- calculator.rs --------------------------- *)

\* `rates` holds the four rates a swap is charged: the config's, with the
\* creator fee rate as the pool adjusts it.
FeeRates(bound) ==
  [trade_fee_rate: bound, creator_fee_rate: bound,
   protocol_fee_rate: bound, fund_fee_rate: bound]

\* What is taken out of the input: the trade fee, with the creator fee on top
\* when that is paid in the input token.
InputFeeRate(rates, is_creator_fee_on_input) ==
  IF is_creator_fee_on_input
  THEN rates.trade_fee_rate + rates.creator_fee_rate
  ELSE rates.trade_fee_rate

CreatorShare(total_fee, rates, is_creator_fee_on_input) ==
  IF is_creator_fee_on_input
  THEN split_creator_fee(total_fee, rates.trade_fee_rate, rates.creator_fee_rate)
  ELSE 0

SwapSplitDefined(rates, is_creator_fee_on_input) ==
  is_creator_fee_on_input => SplitDefined(rates.trade_fee_rate, rates.creator_fee_rate)

\* books the creator's fee on the output but pays it out as well
BugFeePaidOut(swapped, creator_fee_out) == swapped

OutputLeft(swapped, creator_fee_out) == swapped - creator_fee_out

\* SwapResult, from the amounts before fees, the fee taken out of the input
\* and the creator fee taken out of the output.
SwapResult(input_amount, total_fee, swapped, creator_fee_out, input_vault, output_vault, rates, on_input) ==
  LET creator_fee_in == CreatorShare(total_fee, rates, on_input)
      trade_fee      == total_fee - creator_fee_in
  IN  [new_input_vault_amount  |-> input_vault + (input_amount - total_fee),
       new_output_vault_amount |-> output_vault - swapped,
       input_amount            |-> input_amount,
       output_amount           |-> OutputLeft(swapped, creator_fee_out),
       trade_fee               |-> trade_fee,
       protocol_fee            |-> protocol_fee(trade_fee, rates.protocol_fee_rate),
       fund_fee                |-> fund_fee(trade_fee, rates.fund_fee_rate),
       creator_fee             |-> creator_fee_in + creator_fee_out]

\* Some(..), for rates the config admits: the only None left is the split.
SwapBaseInputDefined(rates, is_creator_fee_on_input) ==
  SwapSplitDefined(rates, is_creator_fee_on_input)

swap_base_input(input_amount, input_vault_amount, output_vault_amount, rates, is_creator_fee_on_input) ==
  LET total_fee == trading_fee(input_amount, InputFeeRate(rates, is_creator_fee_on_input))
      output_amount_swapped ==
        swap_base_input_without_fees(input_amount - total_fee,
                                     input_vault_amount, output_vault_amount)
      creator_fee_out == IF is_creator_fee_on_input
                         THEN 0
                         ELSE creator_fee(output_amount_swapped, rates.creator_fee_rate)
  IN  SwapResult(input_amount, total_fee, output_amount_swapped, creator_fee_out,
                 input_vault_amount, output_vault_amount, rates, is_creator_fee_on_input)

\* What must leave the curve for output_amount to be left after the creator fee.
ActualOutputAmount(output_amount, rates, is_creator_fee_on_input) ==
  IF is_creator_fee_on_input
  THEN output_amount
  ELSE calculate_pre_fee_amount(output_amount, rates.creator_fee_rate)

\* The curve cannot give all of the output side or more: checked_sub and the
\* division by the rest would be unwrapped on None.
SwapBaseOutputDefined(output_amount, output_vault_amount, rates, is_creator_fee_on_input) ==
  /\ SwapSplitDefined(rates, is_creator_fee_on_input)
  /\ ActualOutputAmount(output_amount, rates, is_creator_fee_on_input) < output_vault_amount

swap_base_output(output_amount, input_vault_amount, output_vault_amount, rates, is_creator_fee_on_input) ==
  LET actual_output_amount ==
        ActualOutputAmount(output_amount, rates, is_creator_fee_on_input)
      input_amount_swapped ==
        swap_base_output_without_fees(actual_output_amount,
                                      input_vault_amount, output_vault_amount)
      input_amount == calculate_pre_fee_amount(input_amount_swapped,
                                               InputFeeRate(rates, is_creator_fee_on_input))
  IN  SwapResult(input_amount, input_amount - input_amount_swapped,
                 actual_output_amount, actual_output_amount - output_amount,
                 input_vault_amount, output_vault_amount, rates, is_creator_fee_on_input)

=============================================================================
