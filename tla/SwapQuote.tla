------------------------------- MODULE SwapQuote -------------------------------
(***************************************************************************)
(* What the two swap handlers compute before they move a token: the curve's*)
(* amounts combined with the transfer fees of the two mints.  Pure: the    *)
(* Pool module applies a quote to the pool, QuoteCheck compares the two    *)
(* handlers' quotes with each other.                                       *)
(***************************************************************************)
EXTENDS Curve, TransferFee

CONSTANT U64_MAX   \* the largest token amount: 2^64 - 1 in the code, small in the runs

ASSUME U64Assumption == U64_MAX \in Nat \ {0}

\* One side of a swap as the handlers see it: what the vaults hold net of the
\* fees owed, who is charged what, and the mints on both sides.
Market(amounts, mints) ==
  [input_vault: amounts, output_vault: amounts, rates: FeeRates(amounts),
   is_creator_fee_on_input: BOOLEAN, input_mint: mints, output_mint: mints]

\* require_gte!(constant_after, constant_before)
ConstantKept(market, result) ==
  result.new_input_vault_amount * result.new_output_vault_amount
    >= market.input_vault * market.output_vault

(* --------------------------- swap_base_input --------------------------- *)

\* quotes for what is sent instead of what arrives
BugGrossAmountIn(market, amount_in) == amount_in

\* actual_amount_in: what is left of the transfer after the input mint's fee.
ActualAmountIn(market, amount_in) == AmountReceived(market.input_mint, amount_in)

BaseInputResult(market, amount_in) ==
  swap_base_input(ActualAmountIn(market, amount_in), market.input_vault, market.output_vault,
                  market.rates, market.is_creator_fee_on_input)

BaseInputReceived(market, amount_in) ==
  AmountReceived(market.output_mint, BaseInputResult(market, amount_in).output_amount)

\* Every check of swap_base_input but those on the pool's status and the
\* caller's limit.  input_amount is actual_amount_in by construction.
BaseInputOk(market, amount_in) ==
  /\ ActualAmountIn(market, amount_in) > 0
  /\ SwapBaseInputDefined(market.rates, market.is_creator_fee_on_input)
  /\ BaseInputReceived(market, amount_in) > 0
  /\ ConstantKept(market, BaseInputResult(market, amount_in))

\* What the caller of swap_base_input gets, nothing for an amount it rejects.
ReceivedFrom(market, amount_in) ==
  IF BaseInputOk(market, amount_in) THEN BaseInputReceived(market, amount_in) ELSE 0

\* What the next swap in the same direction finds once this one's fees are
\* booked: the part of the trade fee that nobody is owed stays in the pool.
MarketAfter(market, result) ==
  LET creator_fee_in == IF market.is_creator_fee_on_input THEN result.creator_fee ELSE 0
  IN  [market EXCEPT
         !.input_vault = @ + result.input_amount
                           - result.protocol_fee - result.fund_fee - creator_fee_in,
         !.output_vault = @ - result.output_amount - (result.creator_fee - creator_fee_in)]

\* What a swap in the other direction finds.
Reversed(market, is_creator_fee_on_input) ==
  [input_vault |-> market.output_vault,
   output_vault |-> market.input_vault,
   rates |-> market.rates,
   is_creator_fee_on_input |-> is_creator_fee_on_input,
   input_mint |-> market.output_mint,
   output_mint |-> market.input_mint]

(* --------------------------- swap_base_output -------------------------- *)

AmountOutWithTransferFee(market, amount_out_received) ==
  amount_out_received + get_transfer_inverse_fee(market.output_mint, amount_out_received)

BaseOutputResult(market, amount_out_received) ==
  swap_base_output(AmountOutWithTransferFee(market, amount_out_received),
                   market.input_vault, market.output_vault,
                   market.rates, market.is_creator_fee_on_input)

\* What the caller has to send for the quoted input to arrive.
InputTransferAmount(market, amount_out_received) ==
  LET input_amount == BaseOutputResult(market, amount_out_received).input_amount
  IN  input_amount + get_transfer_inverse_fee(market.input_mint, input_amount)

BaseOutputOk(market, amount_out_received) ==
  LET amount_out == AmountOutWithTransferFee(market, amount_out_received)
      result     == BaseOutputResult(market, amount_out_received)
  IN  /\ amount_out_received > 0
      /\ TransferInverseFeeOk(market.output_mint, amount_out_received)
      /\ amount_out <= U64_MAX
      /\ SwapBaseOutputDefined(amount_out, market.output_vault, market.rates,
                               market.is_creator_fee_on_input)
      /\ result.input_amount \in 1..U64_MAX
      /\ TransferInverseFeeOk(market.input_mint, result.input_amount)
      /\ InputTransferAmount(market, amount_out_received) <= U64_MAX
      /\ ConstantKept(market, result)

=============================================================================
