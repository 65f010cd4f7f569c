---------------------------- MODULE QuoteCheckProofs ----------------------------
(***************************************************************************)
(* The properties of QuoteCheck for every market, amount and slippage, and *)
(* every value of the constants.  The two swap quotes are taken apart into *)
(* their steps (transfer fee, fees on the input, curve, fee on the output, *)
(* transfer fee); each step grows with its input, gives no more for two    *)
(* parts than for their sum, and has a least input for an output, and the  *)
(* properties follow by composing the steps.                               *)
(***************************************************************************)
EXTENDS QuoteCheck, FloatTheorems

(* --------------------------- the specification ------------------------- *)

\* Every market of the instance can be traded in, and the walk goes through amounts.
QuoteInv == market \in Markets /\ amount \in 0..MAX_AMOUNT

\* The walk stays within them.
LEMMA QuoteInductive == Spec => []QuoteInv
<1>1. Init => QuoteInv
  BY MarketsAssumption DEF Init, QuoteInv
<1>2. QuoteInv /\ [NextAmount]_vars => QuoteInv'
  BY MarketsAssumption DEF QuoteInv, NextAmount, vars
<1> QED
  BY <1>1, <1>2, PTL DEF Spec

\* What the assumption on the markets says of the one that is walked.
LEMMA MarketsTradable ==
  ASSUME QuoteInv
  PROVE  Tradable(market) /\ amount \in Nat
<1>1. market \in Market(Nat, Mints(Nat))
  BY MarketsAssumption DEF QuoteInv
<1>2. market.rates \in FeeRates(Nat)
  BY <1>1 DEF Market
<1>3. BoundedRates(market.rates) /\ market.input_vault > 0
  BY <1>2, MarketsAssumption DEF QuoteInv, BoundedRates
<1>4. amount \in Nat
  BY MarketsAssumption DEF QuoteInv
<1> QED
  BY <1>1, <1>3, <1>4 DEF Tradable

\* For every market and every amount, the two handlers agree to the unit
\* (swap_base_input.rs:85-180, swap_base_output.rs:14-122).
THEOREM OutputAlwaysCheapest == Spec => []OutputQuoteIsCheapest
<1>1. QuoteInv => OutputQuoteIsCheapest
  BY MarketsTradable, QuoteIsCheapest DEF OutputQuoteIsCheapest, ReceivedFor
<1> QED
  BY <1>1, QuoteInductive, PTL

\* require_gte!(constant_after, constant_before) cannot fail for what the curve
\* computed, in either direction.
THEOREM ConstantAlwaysKept == Spec => []CurveKeepsTheConstant
<1>1. QuoteInv => CurveKeepsTheConstant
  BY MarketsTradable, BaseInputKeeps, BaseOutputKeeps DEF CurveKeepsTheConstant
<1> QED
  BY <1>1, QuoteInductive, PTL

\* The check in get_transfer_inverse_fee (token.rs:144-152) never fails, and what
\* is grossed up arrives exactly, for every mint.
THEOREM GrossUpAlwaysExact == Spec => []GrossUpDeliversExactly
<1>1. QuoteInv => GrossUpDeliversExactly
  BY MarketsTradable, MarketTypes, InverseFee DEF GrossUpDeliversExactly
<1> QED
  BY <1>1, QuoteInductive, PTL

\* No fee is evaded by swapping in two parts, in any market.
THEOREM SplittingNeverPays == Spec => []SplittingNeverBringsMore
<1>1. ASSUME QuoteInv
      PROVE  SplittingNeverBringsMore
  <2>1. Tradable(market) /\ amount \in Nat
    BY <1>1, MarketsTradable
  <2>2. ASSUME NEW part \in 1..(amount - 1), BaseInputOk(market, part)
        PROVE  BaseInputReceived(market, part)
                 + ReceivedFrom(MarketAfter(market, BaseInputResult(market, part)), amount - part)
                 <= ReceivedFor(amount)
    <3> DEFINE other == amount - part
    <3>1. part \in Nat /\ other \in Nat /\ part + other = amount
      BY <2>1
    <3> HIDE DEF other
    <3>2. BaseInputReceived(market, part)
            + ReceivedFrom(MarketAfter(market, BaseInputResult(market, part)), other)
            <= ReceivedFrom(market, part + other)
      BY <2>1, <2>2, <3>1, SplittingBringsNoMore
    <3> QED
      BY <3>1, <3>2 DEF ReceivedFor, other
  <2> QED
    BY <2>2 DEF SplittingNeverBringsMore
<1> QED
  BY <1>1, QuoteInductive, PTL

\* Whoever sends a unit more never receives less.
THEOREM MoreNeverBringsLess == Spec => PayingMoreNeverBringsLess
<1>1. ASSUME QuoteInv, [NextAmount]_vars
      PROVE  ReceivedFor(amount') >= ReceivedFor(amount)
  <2>1. Tradable(market) /\ amount \in Nat
    BY <1>1, MarketsTradable
  <2>2. amount' \in Nat /\ amount <= amount'
    BY <1>1, <2>1 DEF NextAmount, vars
  <2> QED
    BY <2>1, <2>2, ReceivedFromGrows DEF ReceivedFor
<1> QED
  BY <1>1, QuoteInductive, PTL DEF Spec, PayingMoreNeverBringsLess

\* Nobody gains by swapping there and back, in any market and with any mints.
THEOREM RoundTripNeverGains == Spec => []RoundTripNeverPays
<1>1. QuoteInv => RoundTripNeverPays
  BY MarketsTradable, RoundTripBringsNoMore DEF RoundTripNeverPays
<1> QED
  BY <1>1, QuoteInductive, PTL

\* A limit of the client leaves room, and takes none, for every amount that an f64
\* holds and every slippage (client instructions/utils.rs:37-43).
THEOREM LimitsLeaveRoom == Spec => []LimitsNeverTighten
<1>1. ASSUME QuoteInv
      PROVE  LimitsNeverTighten
  <2>1. amount \in 0..U64_MAX
    BY <1>1, MarketsAssumption, U64Assumption DEF QuoteInv
  <2>2. Slippages \subseteq 0..SLIPPAGE_SCALE
    BY MarketsAssumption
  <2> QED
    BY <2>1, <2>2, LimitsRoom DEF LimitsNeverTighten
<1> QED
  BY <1>1, QuoteInductive, PTL

\* Whatever the amount, a limit is that of exact arithmetic to three parts in
\* F64_MANTISSA, and to the whole unit it is rounded to.
THEOREM LimitsAlwaysNear == Spec => []LimitsNearExact
<1>1. ASSUME QuoteInv
      PROVE  LimitsNearExact
  <2>1. amount \in 0..U64_MAX
    BY <1>1, MarketsAssumption, U64Assumption DEF QuoteInv
  <2>2. Slippages \subseteq 0..SLIPPAGE_SCALE
    BY MarketsAssumption
  <2> QED
    BY <2>1, <2>2, LimitsNear DEF LimitsNearExact
<1> QED
  BY <1>1, QuoteInductive, PTL

=================================================================================
