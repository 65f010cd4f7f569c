---------------------------- MODULE PoolProperties ----------------------------
(***************************************************************************)
(* What a pool promises its liquidity providers, the owners of its fees and*)
(* its users, over every interleaving of their transactions.               *)
(***************************************************************************)
EXTENDS Pool

\* Every account has the shape and every amount the width the code declares.
TypeOK ==
  /\ Config!TypeOK
  /\ Access!TypeOK
  /\ pool_state \in PoolStates
  /\ vault \in [Tokens -> Amounts]
  /\ lp_mint_supply \in Amounts
  /\ observation_state \in ObservationStates(0..MAX_TIME)
  /\ mint \in [Tokens -> Mints(Nat)]
  /\ now \in 1..MAX_TIME
  /\ epoch \in 0..MAX_EPOCH

\* The fees booked for protocol, fund and creator are in the vault: they can be
\* collected at any time, and vault_amount_without_fee never fails with
\* InsufficientVault, which would block every other instruction.
Solvent == \A t \in Tokens : FeesOwed(t) <= vault[t]

\* No sequence of withdrawals and swaps empties a side of the pool: prices stay
\* defined, and nobody can restart the pool at a price of his own.
NeverDrained == pool_state.initialized => \A t \in Tokens : Total(t) >= 1

\* The LP supply never exceeds the geometric mean of what backs it, so it fits
\* u64 whenever the vaults do and an LP token is never worth less than at the
\* creation of the pool.
LpBacked == pool_state.lp_supply * pool_state.lp_supply <= Total(0) * Total(1)

\* The LP locked at creation stays out of everybody's reach, although deposits,
\* withdrawals and LP burnt outside the program move the two supplies apart.
LockedLiquidity ==
  pool_state.initialized => lp_mint_supply + LOCK_LP_AMOUNT <= pool_state.lp_supply

\* The mode a pool was created with decides who pays the creator, in two places
\* of the code (the curve and the bookkeeping) and whatever the config's rate
\* becomes: no fee is owed in a token or a pool that does not take it.
CreatorFeesInChosenToken ==
  \A t \in Tokens : pool_state.creator_fees[t] > 0 =>
    /\ pool_state.enable_creator_fee
    /\ pool_state.creator_fee_on = OnlyToken0 => t = 0
    /\ pool_state.creator_fee_on = OnlyToken1 => t = 1

\* While withdrawals are allowed, an LP holder whose LP is worth something in
\* both tokens can take it out: no fee, rounding or config change stands in
\* the way, even of the last holder.
HoldersCanExit ==
  pool_state.initialized /\ get_status_by_bit(WithdrawBit) =>
    \A lp \in 1..lp_mint_supply :
      (\A t \in Tokens : lp * Total(t) >= pool_state.lp_supply) => WithdrawOk(lp, Nothing)

\* The status bit "0: normal" of an open pool means that it can be swapped in
\* either direction: a caller who doubles the input side, the fees on the input
\* paid, gets half of the output side less the fees on the output, if they leave
\* anything of it.
NormalPoolSwaps ==
  SwapAllowed =>
    \A input \in Tokens, amount_in \in Amounts :
      LET market == MarketFor(input)
          half   == market.output_vault \div 2
          fee    == IF market.is_creator_fee_on_input
                    THEN 0
                    ELSE creator_fee(half, market.rates.creator_fee_rate)
          least  == AmountReceived(market.output_mint, half - fee)
      IN  /\ CanSend(input, amount_in)
          /\ AmountReceived(market.input_mint, amount_in)
                 * (FEE_RATE_DENOMINATOR_VALUE
                      - InputFeeRate(market.rates, market.is_creator_fee_on_input))
               >= market.input_vault * FEE_RATE_DENOMINATOR_VALUE
          /\ least > 0
          => /\ BaseInputOk(market, amount_in)
             /\ BaseInputReceived(market, amount_in) >= least

\* Once a swap is allowed, the curve and the caller's limits alone decide about it:
\* whatever was swapped, collected, donated or configured before, no fee counter is
\* too full, no vault short of what the curve lets out, no price too high for the
\* oracle, and no creator fee computed for a pool that does not charge one.
CurveDecides ==
  SwapAllowed =>
    \A input \in Tokens, amount \in Amounts :
      LET market      == MarketFor(input)
          transfer_in == InputTransferAmount(market, amount)
      IN  /\ BaseInputOk(market, amount) /\ CanSend(input, amount)
               => ApplySwapOk(input, BaseInputResult(market, amount), amount)
          /\ BaseOutputOk(market, amount) /\ CanSend(input, transfer_in)
               => ApplySwapOk(input, BaseOutputResult(market, amount), transfer_in)

\* The three bits of the status mean what PoolState says of them in every
\* combination: 1 disables deposits, 2 withdrawals, 4 swaps, and none of them
\* anything else; only deposits raise the LP supply, withdrawals lower it, and
\* swaps raise the fees owed.
StatusObeyed ==
  [][LET status == pool_state.status
     IN  pool_state.initialized =>
           /\ status \in {1, 3, 5, 7} => pool_state'.lp_supply <= pool_state.lp_supply
           /\ status \in {2, 3, 6, 7} => pool_state'.lp_supply >= pool_state.lp_supply
           /\ status \in {4, 5, 6, 7} => \A t \in Tokens : FeesOwed(t)' <= FeesOwed(t)]_vars

\* The pool's books and the quotes go together: whenever tokens go in on one side
\* and out on the other, the next caller in either direction finds the market that
\* a quote leaves, although the curve computes the fees in one place of the code,
\* they are booked in another, and the vaults are read net of them in a third.
SwapLeaves(input, result) ==
  LET market == MarketAfter(MarketFor(input), result)
  IN  /\ MarketFor(input)' = market
      /\ MarketFor(Other(input))' = Reversed(market, is_creator_fee_on_input(Other(input)))

SwapsFollowTheQuotes ==
  [][\A input \in Tokens :
       vault'[input] > vault[input] /\ vault'[Other(input)] < vault[Other(input)] =>
         \E amount \in SwapAmounts :
           \/ /\ BaseInputOk(MarketFor(input), amount)
              /\ SwapLeaves(input, BaseInputResult(MarketFor(input), amount))
           \/ /\ BaseOutputOk(MarketFor(input), amount)
              /\ SwapLeaves(input, BaseOutputResult(MarketFor(input), amount))]_vars

\* The value behind an LP token (the geometric mean of the totals over the
\* supply, squared to stay with integers) never falls: neither a swap's
\* rounding, nor a deposit or withdrawal of an odd amount, nor a change of the
\* fees takes value from those who stay.
ShareValueNeverFalls ==
  [][pool_state.initialized =>
       Total(0) * Total(1) * pool_state'.lp_supply * pool_state'.lp_supply
         <= Total(0)' * Total(1)' * pool_state.lp_supply * pool_state.lp_supply]_vars

\* A deposit or a withdrawal never lowers what an LP token stands for in either
\* token: the proportions cannot be used to move value between the two sides.
LiquidityStepsDiluteNobody ==
  [][pool_state.initialized /\ pool_state'.lp_supply # pool_state.lp_supply =>
       \A t \in Tokens :
         Total(t)' * pool_state.lp_supply >= Total(t) * pool_state'.lp_supply]_vars

\* The pool is the plain share pool of SharePool: fees, transfer fees, rounding
\* and config changes neither leak value to a trader nor let one side of the
\* liquidity pay for the other, and the totals change with no other step.
Shares == INSTANCE SharePool WITH
  open   <- pool_state.initialized,
  total  <- [t \in Tokens |-> Total(t)],
  supply <- pool_state.lp_supply,
  held   <- lp_mint_supply

ImplementsSharePool == Shares!Spec

\* The newest observation of the pool's account is the integral of the pool's
\* price: each swap charges the time since the swap before it at the price it
\* found, never at the one it leaves, whatever moved the price in between.
MarketPrice == IF PriceDefined THEN token_price_x32 ELSE Nothing

Integral == INSTANCE PriceIntegral WITH
  started <- observation_state.initialized,
  until   <- LastUpdate(observation_state),
  total   <- LastObservation(observation_state).cumulative_token_price_x32,
  price   <- MarketPrice

OracleImplementsPriceIntegral == Integral!Spec

\* Collecting a fee takes what was owed and nothing of the liquidity providers':
\* neither the totals nor the LP supply move.
CollectingLeavesTheCurve ==
  [][(\E t \in Tokens : FeesOwed(t)' < FeesOwed(t)) =>
       /\ \A t \in Tokens : Total(t)' = Total(t)
       /\ pool_state'.lp_supply = pool_state.lp_supply]_vars

=============================================================================
