------------------------------ MODULE QuoteCheck ------------------------------
(***************************************************************************)
(* The quotes of the two swap handlers against each other and against the  *)
(* curve they promise to follow, and the client's slippage limits against  *)
(* exact arithmetic.  A behaviour fixes a market and walks through the     *)
(* amounts a caller may name, beyond the integers an f64 holds exactly, so *)
(* that the invariants range over every market and amount of the instance. *)
(***************************************************************************)
EXTENDS ClientQuote

CONSTANTS
  Markets,    \* the markets of the instance
  MAX_AMOUNT, \* the largest amount a caller names; bounds the walk
  Slippages   \* the slippages of the instance

\* What a pool's swap finds: a side that holds something, and rates within the
\* bounds of the config (PoolMarketsAdmitted in PoolProofs proves both of every pool).
ASSUME MarketsAssumption ==
  /\ Markets \subseteq Market(Nat, Mints(Nat))
  /\ \A m \in Markets :
       /\ m.input_vault > 0
       /\ m.rates.trade_fee_rate + m.rates.creator_fee_rate < FEE_RATE_DENOMINATOR_VALUE
       /\ m.rates.protocol_fee_rate + m.rates.fund_fee_rate <= FEE_RATE_DENOMINATOR_VALUE
  /\ Slippages \subseteq 0..SLIPPAGE_SCALE
  /\ MAX_AMOUNT \in 0..U64_MAX

VARIABLES market, amount

vars == <<market, amount>>

Init == market \in Markets /\ amount = 0

NextAmount ==
  /\ amount < MAX_AMOUNT
  /\ amount' = amount + 1
  /\ UNCHANGED market

Spec == Init /\ [][NextAmount]_vars

(* ------------------------------ properties ----------------------------- *)

ReceivedFor(amount_in) == ReceivedFrom(market, amount_in)

\* The two handlers agree: sending what swap_base_output asks for `amount`
\* through swap_base_input brings at least `amount`, and sending one unit less
\* brings less.  Six roundings (two transfer fees, trade fee, creator fee on
\* either side, the curve) have to fit together for this.
OutputQuoteIsCheapest ==
  BaseOutputOk(market, amount) =>
    /\ ReceivedFor(InputTransferAmount(market, amount)) >= amount
    /\ ReceivedFor(InputTransferAmount(market, amount) - 1) < amount

\* The handlers' last check, constant_after >= constant_before, never rejects
\* what the curve computed: no rounding of either direction gives value away.
CurveKeepsTheConstant ==
  /\ /\ ActualAmountIn(market, amount) > 0
     /\ SwapBaseInputDefined(market.rates, market.is_creator_fee_on_input)
     => ConstantKept(market, BaseInputResult(market, amount))
  /\ SwapBaseOutputDefined(amount, market.output_vault, market.rates,
                           market.is_creator_fee_on_input)
     => ConstantKept(market, swap_base_output(amount, market.input_vault, market.output_vault,
                                              market.rates, market.is_creator_fee_on_input))

\* A deposit or a swap that grosses an amount up for the mint's fee succeeds
\* for every mint and delivers exactly that amount: the error
\* TransferFeeCalculateNotMatch is never reported for a fee the mint charges.
GrossUpDeliversExactly ==
  amount > 0 =>
    /\ TransferInverseFeeOk(market.input_mint, amount)
    /\ AmountReceived(market.input_mint,
                      amount + get_transfer_inverse_fee(market.input_mint, amount)) = amount

\* Swapping an amount in two parts never brings more than swapping it at once:
\* the fees rounded up on each part, and what the first part leaves in the pool,
\* outweigh everything that is rounded down.  No fee is evaded by small swaps.
SplittingNeverBringsMore ==
  \A part \in 1..(amount - 1) :
    BaseInputOk(market, part) =>
      BaseInputReceived(market, part)
        + ReceivedFrom(MarketAfter(market, BaseInputResult(market, part)), amount - part)
        <= ReceivedFor(amount)

\* Nobody gains by going round: what a swap brought, swapped back at once, never
\* brings more than was sent, whatever mint, fee mode or rounding is on the way
\* and although the trade fee of the first swap is in the pool for the second.
RoundTripNeverPays ==
  \A fee_on_input_back \in BOOLEAN :
    BaseInputOk(market, amount) =>
      ReceivedFrom(Reversed(MarketAfter(market, BaseInputResult(market, amount)),
                            fee_on_input_back),
                   BaseInputReceived(market, amount)) <= amount

\* Paying more never brings less: the ceilings of the fees and the floors of the curve
\* do not overtake the input.  (A step is to the next amount.  No run checks this, as
\* SplittingNeverBringsMore with a second part of one unit already implies it.)
PayingMoreNeverBringsLess == [][ReceivedFor(amount') >= ReceivedFor(amount)]_vars

\* A limit leaves room and never takes any: as long as the quote is exact in an
\* f64, a pool that has not moved since it was read satisfies the limits.  (Above
\* 2^53 it need not: with a small slippage the rounding of the quote itself can
\* put a maximum below it.)
LimitsNeverTighten ==
  \A slippage \in Slippages :
    amount <= F64_MANTISSA =>
      /\ amount_with_slippage(amount, slippage, FALSE) <= amount
      /\ amount <= amount_with_slippage(amount, slippage, TRUE)

\* Whatever the amount, the limits are those of exact arithmetic up to the two
\* roundings of an f64, a relative error of less than 3 in 2^53, and the rounding
\* to a whole unit, which is always in the direction that lets the command pass.
LimitsNearExact ==
  \A slippage \in Slippages :
    LET maximum == amount_with_slippage(amount, slippage, TRUE)
        minimum == amount_with_slippage(amount, slippage, FALSE)
        most    == amount * (SLIPPAGE_SCALE + slippage)
        least   == amount * (SLIPPAGE_SCALE - slippage)
    IN  /\ \/ maximum = U64_MAX
           \/ maximum * SLIPPAGE_SCALE * F64_MANTISSA >= most * (F64_MANTISSA - 3)
        /\ (maximum - 1) * SLIPPAGE_SCALE * F64_MANTISSA <= most * (F64_MANTISSA + 3)
        /\ minimum * SLIPPAGE_SCALE * F64_MANTISSA <= least * (F64_MANTISSA + 3)
        /\ (minimum + 1) * SLIPPAGE_SCALE * F64_MANTISSA >= least * (F64_MANTISSA - 3)

=============================================================================
