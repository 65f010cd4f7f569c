------------------------------- MODULE PoolProofs -------------------------------
(***************************************************************************)
(* Proofs, for every value of the constants, of the pool's type invariant  *)
(* and of the safety of its liquidity.                                     *)
(*                                                                         *)
(* IInv is the inductive invariant.  Each lemma "...Safe" takes one action *)
(* from IInv: it keeps the types and the fees in the vaults (Solvent), and *)
(* it is a step of SharePool or a stutter, which is what keeps the totals. *)
(* What the status and the creator-fee mode promise follows at the end.    *)
(***************************************************************************)
EXTENDS PoolProperties, OperatorTheorems

\* A pool that was not created has zeroed accounts.
Uncreated ==
  ~pool_state.initialized =>
    pool_state = ZeroedPool /\ observation_state = ZeroedObservation

\* The part of the invariant that the share pool keeps.
SharesInv == NeverDrained /\ LpBacked /\ LockedLiquidity

IInv == TypeOK /\ Config!RatesBounded /\ Uncreated /\ Solvent /\ SharesInv

\* What a step does to the books of the fees: it collects and leaves the
\* liquidity alone, or it takes nothing from any fee.
FeesTaken ==
  /\ \A t \in Tokens : Total(t)' = Total(t)
  /\ pool_state'.lp_supply = pool_state.lp_supply

FeesKept == \A t \in Tokens : FeesOwed(t)' >= FeesOwed(t)

\* What a swap moves and books: its amounts go in and out, the creator's fee
\* comes off its side of the totals, protocol's and fund's share off the input's.
SwapApplied(input, result) ==
  LET most(t) == Total(t) - (IF t = CreatorFeeToken(input) THEN result.creator_fee ELSE 0)
  IN  /\ result.input_amount \in Nat
      /\ result.output_amount \in Nat
      /\ vault'[input] = vault[input] + result.input_amount
      /\ vault'[Other(input)] = vault[Other(input)] - result.output_amount
      /\ Total(input)' = most(input) + result.input_amount
                            - result.protocol_fee - result.fund_fee
      /\ result.protocol_fee + result.fund_fee <= result.trade_fee
      /\ Total(Other(input))' = most(Other(input)) - result.output_amount
      /\ result.trade_fee \in Nat
      /\ result.protocol_fee \in Nat
      /\ result.fund_fee \in Nat
      /\ result.creator_fee \in Nat
      /\ pool_state'.lp_supply = pool_state.lp_supply
      /\ pool_state'.initialized

(* --------------------------- reading the state ------------------------- *)

\* What TypeOK says of the fields of the pool, field by field.
LEMMA PoolTypes ==
  ASSUME TypeOK
  PROVE  /\ pool_state.initialized \in BOOLEAN
         /\ pool_state.lp_supply \in Nat
         /\ pool_state.lp_supply <= U64_MAX
         /\ lp_mint_supply \in Nat
         /\ lp_mint_supply <= U64_MAX
         /\ \A t \in Tokens :
              /\ vault[t] \in Nat
              /\ vault[t] <= U64_MAX
              /\ pool_state.protocol_fees[t] \in Nat
              /\ pool_state.fund_fees[t] \in Nat
              /\ pool_state.creator_fees[t] \in Nat
              /\ FeesOwed(t) \in Nat
              /\ mint[t] \in Mints(Nat)
         /\ U64_MAX \in Nat
<1>1. U64_MAX \in Nat /\ \A amount \in Amounts : amount \in Nat /\ amount <= U64_MAX
  BY U64Assumption DEF Amounts
<1>2. /\ pool_state \in PoolStates
      /\ vault \in [Tokens -> Amounts]
      /\ lp_mint_supply \in Amounts
      /\ mint \in [Tokens -> Mints(Nat)]
  BY DEF TypeOK
<1>3. /\ pool_state.initialized \in BOOLEAN
      /\ pool_state.lp_supply \in Amounts
      /\ pool_state.protocol_fees \in [Tokens -> Amounts]
      /\ pool_state.fund_fees \in [Tokens -> Amounts]
      /\ pool_state.creator_fees \in [Tokens -> Amounts]
  BY <1>2 DEF PoolStates
<1>4. \A t \in Tokens : /\ pool_state.protocol_fees[t] \in Nat
                        /\ pool_state.fund_fees[t] \in Nat
                        /\ pool_state.creator_fees[t] \in Nat
  BY <1>1, <1>3
<1>5. \A t \in Tokens : FeesOwed(t) \in Nat
  BY <1>4 DEF FeesOwed
<1> QED
  BY <1>1, <1>2, <1>3, <1>4, <1>5

\* When the fees are covered, vault_amount_without_fee (pool.rs:200-221) is a natural number.
LEMMA TotalType ==
  ASSUME TypeOK, Solvent
  PROVE  \A t \in Tokens : Total(t) \in Nat /\ Total(t) <= vault[t]
  BY PoolTypes DEF Solvent, Total

\* What TypeOK says of the rates of the config, rate by rate.
LEMMA ConfigTypes ==
  ASSUME TypeOK
  PROVE  /\ amm_config.created \in BOOLEAN
         /\ amm_config.trade_fee_rate \in Nat
         /\ amm_config.protocol_fee_rate \in Nat
         /\ amm_config.fund_fee_rate \in Nat
         /\ amm_config.creator_fee_rate \in Nat
  BY DEF TypeOK, Config!TypeOK, Config!AmmConfigs

(* The same of the next state. *)

\* The same types for the ledger after a step.
LEMMA LedgerTypesNext ==
  ASSUME TypeOK', Solvent'
  PROVE  /\ pool_state'.initialized \in BOOLEAN
         /\ pool_state'.lp_supply \in Nat
         /\ lp_mint_supply' \in Nat
         /\ \A t \in Tokens : Total(t)' \in Nat /\ FeesOwed(t)' \in Nat
<1>1. /\ pool_state' \in PoolStates
      /\ vault' \in [Tokens -> Amounts]
      /\ lp_mint_supply' \in Amounts
  BY DEF TypeOK
<1>2. \A t \in Tokens : FeesOwed(t)' \in Nat /\ vault'[t] \in Nat
  <2>1. \A amount \in Amounts : amount \in Nat
    BY U64Assumption DEF Amounts
  <2>2. \A t \in Tokens : /\ pool_state'.protocol_fees[t] \in Nat
                          /\ pool_state'.fund_fees[t] \in Nat
                          /\ pool_state'.creator_fees[t] \in Nat
    BY <1>1, <2>1 DEF PoolStates
  <2> QED
    BY <1>1, <2>1, <2>2 DEF FeesOwed
<1>3. \A t \in Tokens : FeesOwed(t)' <= vault'[t]
  BY DEF Solvent
<1> QED
  BY <1>1, <1>2, <1>3, U64Assumption DEF PoolStates, Amounts, Total

(* --------------------------- the share pool ---------------------------- *)

\* The product of the totals grows with the square of the supply.
LEMMA ExchangeArithmetic ==
  ASSUME NEW x \in Nat, NEW y \in Nat, NEW S \in Nat \ {0},
         NEW x2 \in Nat, NEW y2 \in Nat, NEW S2 \in Nat,
         x2 * S >= x * S2, y2 * S >= y * S2
  PROVE  /\ x * y * S2 * S2 <= x2 * y2 * S * S
         /\ S * S <= x * y => S2 * S2 <= x2 * y2
<1> DEFINE a == x * S2  b == y * S2  c == x2 * S  d == y2 * S
<1>1. a \in Nat /\ b \in Nat /\ c \in Nat /\ d \in Nat
  OBVIOUS
<1>2. a * b <= c * d
  <2> HIDE DEF a, b, c, d
  <2>1. a <= c /\ b <= d
    BY DEF a, b, c, d
  <2>2. a * b <= c * b /\ c * b <= c * d
    BY <1>1, <2>1
  <2> QED
    BY <1>1, <2>2
<1>3. a * b = x * y * S2 * S2 /\ c * d = x2 * y2 * S * S
  OBVIOUS
<1>4. x * y * S2 * S2 <= x2 * y2 * S * S
  BY <1>2, <1>3
<1>5. ASSUME S * S <= x * y, S2 * S2 > x2 * y2 PROVE FALSE
  <2> DEFINE q == S * S  r == S2 * S2  m == x * y  n == x2 * y2
  <2>1. q \in Nat \ {0} /\ r \in Nat /\ m \in Nat /\ n \in Nat
    OBVIOUS
  <2>2. m * r <= n * q
    BY <1>4
  <2>3. q <= m /\ r >= n + 1
    BY <1>5
  <2> HIDE DEF q, r, m, n
  <2>4. q * r <= m * r /\ q * r >= q * (n + 1) /\ q * (n + 1) = n * q + q
    BY <2>1, <2>3
  <2> QED
    BY <2>1, <2>2, <2>4
<1> QED
  BY <1>4, <1>5

\* The four steps of SharePool keep the liquidity backed and locked: the core
\* of the argument, free of fees and accounts.
LEMMA SharesPreserved ==
  ASSUME TypeOK, Solvent, TypeOK', Solvent', SharesInv,
         Shares!Next \/ UNCHANGED Shares!vars
  PROVE  SharesInv'
<1> DEFINE x == Total(0)
           y == Total(1)
           S == pool_state.lp_supply
           open == pool_state.initialized
           L == LOCK_LP_AMOUNT
<1>0. 0 \in Tokens /\ 1 \in Tokens /\ \A t \in Tokens : t = 0 \/ t = 1
  BY DEF Tokens
<1>1. x \in Nat /\ y \in Nat /\ S \in Nat /\ lp_mint_supply \in Nat
      /\ open \in BOOLEAN /\ L \in Nat \ {0}
  BY <1>0, PoolTypes, TotalType, PoolAssumption
<1>2. x' \in Nat /\ y' \in Nat /\ S' \in Nat /\ lp_mint_supply' \in Nat /\ open' \in BOOLEAN
  BY <1>0, LedgerTypesNext
<1>3. /\ open => x >= 1 /\ y >= 1
      /\ S * S <= x * y
      /\ open => lp_mint_supply + L <= S
  BY <1>0 DEF SharesInv, NeverDrained, LpBacked, LockedLiquidity
<1>4. SUFFICES /\ open' => x' >= 1 /\ y' >= 1
               /\ S' * S' <= x' * y'
               /\ open' => lp_mint_supply' + L <= S'
  BY <1>0 DEF SharesInv, NeverDrained, LpBacked, LockedLiquidity
<1>5. CASE Shares!Open
  <2>1. x' \in Nat \ {0} /\ y' \in Nat \ {0} /\ S' * S' <= x' * y'
        /\ S' >= L /\ lp_mint_supply' = S' - L
    BY <1>0, <1>5 DEF Shares!Open, Shares!Reserves
  <2> QED
    BY <1>1, <1>2, <2>1
<1>6. CASE Shares!Exchange
  <2>1. /\ open /\ x' \in Nat \ {0} /\ y' \in Nat \ {0} /\ S' \in Nat \ {0}
        /\ lp_mint_supply' - lp_mint_supply = S' - S
        /\ x' * S >= x * S'
        /\ y' * S >= y * S'
    BY <1>0, <1>6 DEF Shares!Exchange, Shares!Reserves
  <2>2. S \in Nat \ {0}
    BY <1>1, <1>3, <2>1
  <2>3. S' * S' <= x' * y'
    BY <1>1, <1>2, <1>3, <2>1, <2>2, ExchangeArithmetic
  <2>4. lp_mint_supply' + L <= S'
    BY <1>1, <1>2, <1>3, <2>1
  <2> QED
    BY <1>2, <2>1, <2>3, <2>4
<1>7. CASE Shares!Trade
  <2>1. /\ open /\ x' \in Nat \ {0} /\ y' \in Nat \ {0}
        /\ x' * y' >= x * y
        /\ S' = S /\ lp_mint_supply' = lp_mint_supply
    BY <1>0, <1>7 DEF Shares!Trade, Shares!Reserves
  <2>2. S' * S' = S * S
    BY <2>1
  <2>3. S' * S' <= x' * y'
    BY <1>1, <1>2, <1>3, <2>1, <2>2
  <2> QED
    BY <1>1, <1>2, <1>3, <2>1, <2>3
<1>8. CASE Shares!Forfeit \/ UNCHANGED Shares!vars
  <2>1. /\ open' = open /\ x' = x /\ y' = y /\ S' = S
        /\ lp_mint_supply' <= lp_mint_supply
    <3>1. [t \in Tokens |-> Total(t)]' = [t \in Tokens |-> Total(t)]
      BY <1>8 DEF Shares!Forfeit, Shares!vars
    <3> QED
      BY <1>0, <1>1, <1>8, <3>1 DEF Shares!Forfeit, Shares!vars
  <2>2. S' * S' = S * S /\ x' * y' = x * y
    BY <2>1
  <2> QED
    BY <1>1, <1>2, <1>3, <2>1, <2>2
<1> QED
  BY <1>5, <1>6, <1>7, <1>8 DEF Shares!Next

\* A step that keeps the LP supply and does not shrink the product is a Trade.
LEMMA IsTrade ==
  ASSUME pool_state.initialized,
         pool_state'.initialized = pool_state.initialized,
         pool_state'.lp_supply = pool_state.lp_supply,
         lp_mint_supply' = lp_mint_supply,
         \A t \in Tokens : Total(t)' \in Nat \ {0},
         Total(0)' * Total(1)' >= Total(0) * Total(1)
  PROVE  Shares!Trade
<1>1. 0 \in Tokens /\ 1 \in Tokens
  BY DEF Tokens
<1> QED
  BY <1>1 DEF Shares!Trade, Shares!Reserves

\* A step that moves LP and totals, with no total per LP shrinking, is an Exchange.
LEMMA IsExchange ==
  ASSUME pool_state.initialized,
         pool_state'.initialized = pool_state.initialized,
         pool_state'.lp_supply \in Nat \ {0},
         lp_mint_supply' \in Nat,
         lp_mint_supply' - lp_mint_supply = pool_state'.lp_supply - pool_state.lp_supply,
         \A t \in Tokens : Total(t)' \in Nat \ {0},
         \A t \in Tokens : Total(t)' * pool_state.lp_supply >= Total(t) * pool_state'.lp_supply
  PROVE  Shares!Exchange
  BY DEF Shares!Exchange, Shares!Reserves

\* Nothing of the pool's books moves.
LEMMA BooksUnchanged ==
  ASSUME IInv, pool_state' = pool_state, vault' = vault,
         observation_state' = observation_state
  PROVE  /\ \A t \in Tokens : Total(t)' = Total(t) /\ FeesOwed(t)' = FeesOwed(t)
         /\ Solvent'
         /\ Uncreated'
         /\ FeesKept
<1>1. \A t \in Tokens : Total(t)' = Total(t) /\ FeesOwed(t)' = FeesOwed(t)
  BY DEF Total, FeesOwed
<1>2. \A t \in Tokens : FeesOwed(t) \in Nat
  BY PoolTypes DEF IInv
<1> QED
  BY <1>1, <1>2 DEF FeesKept, FeesOwed, Solvent, Uncreated, IInv

(* ------------------------- around the pool ----------------------------- *)

\* create_amm_config and update_amm_config (lib.rs:58-97) leave the pool as it was.
LEMMA UpdateConfigSafe ==
  ASSUME IInv, UpdateConfig
  PROVE  /\ TypeOK' /\ Config!RatesBounded' /\ Uncreated' /\ Solvent' /\ FeesKept
         /\ UNCHANGED Shares!vars
<1> USE DEF UpdateConfig, registryVars, poolVars, chainVars
<1>1. TypeOK /\ Config!RatesBounded
  BY DEF IInv
<1>2. amm_config' \in Config!AmmConfigs /\ Config!RatesBounded'
  <2> DEFINE Fields == {"trade_fee_rate", "protocol_fee_rate", "fund_fee_rate",
                        "create_pool_fee", "disable_create_pool", "creator_fee_rate"}
  <2>1. \A f \in Fields : ConfigValues[f] \subseteq Nat
    BY PoolAssumption
  <2>2. amm_config \in Config!AmmConfigs
    BY <1>1 DEF TypeOK, Config!TypeOK
  <2>3. CASE Config!CreateAmmConfig
    BY <2>1, <2>3, PoolAssumption
       DEF Config!CreateAmmConfig, Config!create_amm_config, Config!AmmConfigs,
           Config!RatesBounded, Config!TradeRatesOk, Config!SharesOk
  <2>4. CASE Config!UpdateAmmConfig
    <3>1. CASE \E value \in ConfigValues["trade_fee_rate"] : Config!update_trade_fee_rate(value)
      BY <1>1, <2>1, <2>2, <3>1
         DEF Config!update_trade_fee_rate, Config!AmmConfigs, Config!RatesBounded,
             Config!TradeRatesOk
    <3>2. CASE \E value \in ConfigValues["protocol_fee_rate"] :
                 Config!update_protocol_fee_rate(value)
      BY <1>1, <2>1, <2>2, <3>2
         DEF Config!update_protocol_fee_rate, Config!AmmConfigs, Config!RatesBounded,
             Config!SharesOk
    <3>3. CASE \E value \in ConfigValues["fund_fee_rate"] : Config!update_fund_fee_rate(value)
      BY <1>1, <2>1, <2>2, <3>3
         DEF Config!update_fund_fee_rate, Config!AmmConfigs, Config!RatesBounded,
             Config!SharesOk
    <3>4. CASE \E key \in Keys :
                 Config!set_new_protocol_owner(key) \/ Config!set_new_fund_owner(key)
      BY <1>1, <2>2, <3>4
         DEF Config!set_new_protocol_owner, Config!set_new_fund_owner, Config!AmmConfigs,
             Config!RatesBounded
    <3>5. CASE \/ \E value \in ConfigValues["create_pool_fee"] : Config!set_create_pool_fee(value)
               \/ \E value \in ConfigValues["disable_create_pool"] :
                    Config!set_disable_create_pool(value)
      BY <1>1, <2>1, <2>2, <3>5
         DEF Config!set_create_pool_fee, Config!set_disable_create_pool, Config!AmmConfigs,
             Config!RatesBounded
    <3>6. CASE \E value \in ConfigValues["creator_fee_rate"] :
                 Config!update_creator_fee_rate(value)
      BY <1>1, <2>1, <2>2, <3>6
         DEF Config!update_creator_fee_rate, Config!AmmConfigs, Config!RatesBounded,
             Config!TradeRatesOk
    <3> QED
      BY <2>4, <3>1, <3>2, <3>3, <3>4, <3>5, <3>6 DEF Config!UpdateAmmConfig
  <2> QED
    BY <2>3, <2>4 DEF Config!Next
<1>3. TypeOK'
  BY <1>1, <1>2 DEF TypeOK, Config!TypeOK, Access!TypeOK
<1> QED
  BY <1>2, <1>3, BooksUnchanged DEF Shares!vars

\* Permission and mint registrations leave the pool as it was.
LEMMA UpdateRegistrySafe ==
  ASSUME IInv, UpdateRegistry
  PROVE  /\ TypeOK' /\ Config!RatesBounded' /\ Uncreated' /\ Solvent' /\ FeesKept
         /\ UNCHANGED Shares!vars
<1> USE DEF UpdateRegistry, configVars, poolVars, chainVars
<1>1. TypeOK /\ Config!RatesBounded
  BY DEF IInv
<1>2. Access!TypeOK'
  BY <1>1 DEF TypeOK, Access!TypeOK, Access!Next, Access!create_permission_pda,
              Access!close_permission_pda, Access!create_support_mint_associated,
              Access!close_support_mint_associated
<1>3. TypeOK' /\ Config!RatesBounded'
  BY <1>1, <1>2 DEF TypeOK, Config!TypeOK, Config!RatesBounded
<1> QED
  BY <1>3, BooksUnchanged DEF Shares!vars

\* The clock and the mint fee schedule leave the books as they were.
LEMMA ClockAndEpochSafe ==
  ASSUME IInv, ClockMoves \/ EpochBegins
  PROVE  /\ TypeOK' /\ Config!RatesBounded' /\ Uncreated' /\ Solvent' /\ FeesKept
         /\ UNCHANGED Shares!vars
<1> USE DEF ClockMoves, EpochBegins, configVars, registryVars, poolVars
<1>1. TypeOK /\ Config!RatesBounded
  BY DEF IInv
<1>2. now' \in 1..MAX_TIME /\ epoch' \in 0..MAX_EPOCH
  BY <1>1, PoolAssumption DEF TypeOK
<1>3. mint' \in [Tokens -> Mints(Nat)]
  <2>1. CASE ClockMoves
    BY <1>1, <2>1 DEF TypeOK
  <2>2. CASE EpochBegins
    <3>1. DOMAIN mint' = Tokens /\ mint' = [t \in Tokens |-> mint'[t]]
      BY <2>2
    <3>2. \A t \in Tokens : mint'[t] \in Mints(Nat)
      BY <2>2, PoolAssumption
    <3> QED
      BY <3>1, <3>2
  <2> QED
    BY <2>1, <2>2
<1>4. TypeOK' /\ Config!RatesBounded'
  BY <1>1, <1>2, <1>3 DEF TypeOK, Config!TypeOK, Config!RatesBounded, Access!TypeOK
<1>5. /\ pool_state' = pool_state /\ vault' = vault /\ lp_mint_supply' = lp_mint_supply
      /\ observation_state' = observation_state
  OBVIOUS
<1> QED
  BY <1>4, <1>5, BooksUnchanged DEF Shares!vars

\* Burning LP outside the program only widens the gap between lp_supply and the mint.
LEMMA BurnLpSafe ==
  ASSUME IInv, NEW lp \in LpAmounts, BurnLp(lp)
  PROVE  /\ TypeOK' /\ Config!RatesBounded' /\ Uncreated' /\ Solvent' /\ FeesKept
         /\ Shares!Forfeit
<1> USE DEF BurnLp, configVars, registryVars, chainVars
<1>1. TypeOK /\ Config!RatesBounded
  BY DEF IInv
<1>2. lp \in Nat
  BY PoolAssumption, U64Assumption DEF Amounts
<1>3. lp_mint_supply' \in 0..lp_mint_supply
  BY <1>1, <1>2, PoolTypes
<1>4. TypeOK' /\ Config!RatesBounded'
  BY <1>1, <1>3, PoolTypes
     DEF TypeOK, Config!TypeOK, Config!RatesBounded, Access!TypeOK, Amounts
<1> QED
  BY <1>3, <1>4, BooksUnchanged DEF Shares!Forfeit

\* What the pool's own instructions have in common: the config, the registry and
\* the chain stay as they are, and the pool stays initialized.
LEMMA PoolStepTypes ==
  ASSUME IInv,
         UNCHANGED <<configVars, registryVars, chainVars>>,
         pool_state' \in PoolStates,
         pool_state'.initialized,
         vault' \in [Tokens -> Amounts],
         lp_mint_supply' \in Amounts,
         observation_state' \in ObservationStates(0..MAX_TIME)
  PROVE  TypeOK' /\ Config!RatesBounded' /\ Uncreated'
  BY DEF IInv, TypeOK, Config!TypeOK, Config!RatesBounded, Access!TypeOK, Uncreated,
         configVars, registryVars, chainVars

\* The totals of an initialized pool can be divided by.
LEMMA TotalsPositive ==
  ASSUME IInv, pool_state.initialized
  PROVE  /\ \A t \in Tokens : Total(t) \in Nat \ {0}
         /\ pool_state.lp_supply \in Nat \ {0}
         /\ lp_mint_supply < pool_state.lp_supply
<1>1. TypeOK /\ Solvent /\ NeverDrained /\ LockedLiquidity
  BY DEF IInv, SharesInv
<1> QED
  BY <1>1, TotalType, PoolTypes, PoolAssumption DEF NeverDrained, LockedLiquidity

\* A transfer into a vault from outside is a gift to the pool.
LEMMA DonateSafe ==
  ASSUME IInv, NEW t \in Tokens, NEW amount \in Donations, Donate(t, amount)
  PROVE  /\ TypeOK' /\ Config!RatesBounded' /\ Uncreated' /\ Solvent' /\ FeesKept
         /\ Shares!Trade
<1> USE DEF Donate
<1>1. TypeOK /\ Solvent
  BY DEF IInv
<1>2. amount \in Nat
  BY PoolAssumption, U64Assumption DEF Amounts
<1>3. mint[t] \in Mints(Nat) /\ vault[t] \in Nat
  BY <1>1, PoolTypes
<1>4. AmountReceived(mint[t], amount) \in Nat /\ AmountReceived(mint[t], amount) <= amount
  BY <1>2, <1>3, TransferFeeBounded
<1>5. vault' \in [Tokens -> Amounts]
      /\ \A u \in Tokens : vault'[u] \in Nat /\ vault'[u] >= vault[u]
  BY <1>1, <1>2, <1>3, <1>4, PoolTypes
     DEF TypeOK, CanSend, VaultAfterDeposit, Amounts
<1>6. TypeOK' /\ Config!RatesBounded' /\ Uncreated'
  BY <1>1, <1>5, PoolStepTypes DEF TypeOK
<1>7. \A u \in Tokens : FeesOwed(u)' = FeesOwed(u)
  BY DEF FeesOwed
<1>8. Solvent' /\ FeesKept
  BY <1>1, <1>5, <1>7, PoolTypes DEF Solvent, FeesKept
<1>9. \A u \in Tokens : Total(u)' \in Nat \ {0} /\ Total(u)' >= Total(u)
                        /\ Total(u) \in Nat
  BY <1>1, <1>5, <1>7, PoolTypes, TotalsPositive DEF Total
<1>10. Total(0)' * Total(1)' >= Total(0) * Total(1)
  <2>1. 0 \in Tokens /\ 1 \in Tokens
    BY DEF Tokens
  <2>2. Total(0)' * Total(1)' >= Total(0) * Total(1)'
    BY <1>9, <2>1
  <2>3. Total(0) * Total(1)' >= Total(0) * Total(1)
    BY <1>9, <2>1
  <2> QED
    BY <1>9, <2>1, <2>2, <2>3
<1> QED
  BY <1>6, <1>8, <1>9, <1>10, IsTrade

\* update_pool_status leaves the books as they were.
LEMMA UpdatePoolStatusSafe ==
  ASSUME IInv, NEW status \in Statuses, update_pool_status(status)
  PROVE  /\ TypeOK' /\ Config!RatesBounded' /\ Uncreated' /\ Solvent' /\ FeesKept
         /\ Shares!Trade
<1> USE DEF update_pool_status
<1>1. TypeOK /\ Solvent
  BY DEF IInv
<1>2. pool_state' \in PoolStates /\ pool_state'.initialized
  BY <1>1, PoolAssumption DEF TypeOK, PoolStates
<1>3. TypeOK' /\ Config!RatesBounded' /\ Uncreated'
  BY <1>1, <1>2, PoolStepTypes DEF TypeOK
<1>4. /\ pool_state'.protocol_fees = pool_state.protocol_fees
      /\ pool_state'.fund_fees = pool_state.fund_fees
      /\ pool_state'.creator_fees = pool_state.creator_fees
      /\ pool_state'.lp_supply = pool_state.lp_supply
  BY <1>1 DEF TypeOK, PoolStates
<1>5. \A t \in Tokens : FeesOwed(t)' = FeesOwed(t) /\ Total(t)' = Total(t)
  BY <1>4 DEF FeesOwed, Total
<1>6. Solvent' /\ FeesKept
  BY <1>1, <1>5, PoolTypes DEF Solvent, FeesKept
<1>7. Total(0)' * Total(1)' >= Total(0) * Total(1)
  BY <1>5, TotalsPositive DEF Tokens
<1> QED
  BY <1>2, <1>3, <1>4, <1>5, <1>6, <1>7, TotalsPositive, IsTrade

(* --------------------------- collecting fees --------------------------- *)

\* Fees leave the vault together with the debt.
LEMMA CollectSafe ==
  ASSUME IInv, pool_state.initialized,
         NEW amounts \in [Tokens -> Nat],
         UNCHANGED <<configVars, registryVars, lp_mint_supply, observation_state, chainVars>>,
         pool_state' \in PoolStates,
         pool_state'.initialized,
         pool_state'.lp_supply = pool_state.lp_supply,
         PayOut(amounts),
         \A t \in Tokens : FeesOwed(t)' = FeesOwed(t) - amounts[t]
  PROVE  /\ TypeOK' /\ Config!RatesBounded' /\ Uncreated' /\ Solvent' /\ Shares!Trade
         /\ \A t \in Tokens : Total(t)' = Total(t)
<1>1. TypeOK /\ Solvent
  BY DEF IInv
<1>2. vault' \in [Tokens -> Amounts] /\ \A t \in Tokens : vault'[t] = vault[t] - amounts[t]
  BY <1>1, PoolTypes DEF PayOut, VaultPays, Amounts
<1>3. TypeOK' /\ Config!RatesBounded' /\ Uncreated'
  BY <1>1, <1>2, PoolStepTypes DEF TypeOK
<1>4. Solvent' /\ \A t \in Tokens : Total(t)' = Total(t)
  BY <1>1, <1>2, PoolTypes DEF Solvent, Total
<1>5. Total(0)' * Total(1)' >= Total(0) * Total(1)
  BY <1>4, TotalsPositive DEF Tokens
<1> QED
  BY <1>3, <1>4, <1>5, TotalsPositive, IsTrade

\* A collection takes at most what is owed, and what remains owed is an amount.
LEMMA CollectedType ==
  ASSUME NEW owed \in [Tokens -> Amounts], NEW requested \in [Tokens -> Amounts]
  PROVE  /\ Collected(owed, requested) \in [Tokens -> Nat]
         /\ \A t \in Tokens : Collected(owed, requested)[t] <= owed[t]
         /\ Less(owed, Collected(owed, requested)) \in [Tokens -> Amounts]
<1>1. \A t \in Tokens : owed[t] \in Nat /\ owed[t] <= U64_MAX /\ requested[t] \in Nat
  BY U64Assumption DEF Amounts
<1>2. \A t \in Tokens : AtMost(requested[t], owed[t]) \in Nat
                        /\ AtMost(requested[t], owed[t]) <= owed[t]
  BY <1>1, AtMostType
<1> QED
  BY <1>1, <1>2, U64Assumption DEF Collected, Less, Amounts

\* collect_protocol_fee pays from the fees and leaves the totals alone.
LEMMA CollectProtocolFeeSafe ==
  ASSUME IInv, NEW owner, NEW requested \in [Tokens -> Amounts],
         collect_protocol_fee(owner, requested)
  PROVE  /\ TypeOK' /\ Config!RatesBounded' /\ Uncreated' /\ Solvent' /\ Shares!Trade
         /\ \A t \in Tokens : Total(t)' = Total(t)
         /\ pool_state'.lp_supply = pool_state.lp_supply
<1> DEFINE amounts == Collected(pool_state.protocol_fees, requested)
<1>1. TypeOK
  BY DEF IInv
<1>2. pool_state.protocol_fees \in [Tokens -> Amounts]
  BY <1>1 DEF TypeOK, PoolStates
<1>3. amounts \in [Tokens -> Nat] /\ Less(pool_state.protocol_fees, amounts) \in [Tokens -> Amounts]
  BY <1>2, CollectedType
<1>4. /\ pool_state.initialized
      /\ pool_state' = [pool_state EXCEPT !.protocol_fees = Less(@, amounts),
                                          !.recent_epoch = epoch]
      /\ PayOut(amounts)
      /\ UNCHANGED <<configVars, registryVars, lp_mint_supply, observation_state, chainVars>>
  BY DEF collect_protocol_fee
<1> HIDE DEF amounts
<1>5. /\ pool_state' \in PoolStates
      /\ pool_state'.initialized
      /\ pool_state'.lp_supply = pool_state.lp_supply
      /\ pool_state'.protocol_fees = Less(pool_state.protocol_fees, amounts)
      /\ pool_state'.fund_fees = pool_state.fund_fees
      /\ pool_state'.creator_fees = pool_state.creator_fees
  BY <1>1, <1>3, <1>4 DEF TypeOK, PoolStates
<1>6. \A t \in Tokens : FeesOwed(t)' = FeesOwed(t) - amounts[t]
  BY <1>1, <1>3, <1>5, PoolTypes DEF FeesOwed, Less
<1> QED
  BY <1>3, <1>4, <1>5, <1>6, CollectSafe

\* collect_fund_fee pays from the fees and leaves the totals alone.
LEMMA CollectFundFeeSafe ==
  ASSUME IInv, NEW owner, NEW requested \in [Tokens -> Amounts],
         collect_fund_fee(owner, requested)
  PROVE  /\ TypeOK' /\ Config!RatesBounded' /\ Uncreated' /\ Solvent' /\ Shares!Trade
         /\ \A t \in Tokens : Total(t)' = Total(t)
         /\ pool_state'.lp_supply = pool_state.lp_supply
<1> DEFINE amounts == Collected(pool_state.fund_fees, requested)
<1>1. TypeOK
  BY DEF IInv
<1>2. pool_state.fund_fees \in [Tokens -> Amounts]
  BY <1>1 DEF TypeOK, PoolStates
<1>3. amounts \in [Tokens -> Nat] /\ Less(pool_state.fund_fees, amounts) \in [Tokens -> Amounts]
  BY <1>2, CollectedType
<1>4. /\ pool_state.initialized
      /\ pool_state' = [pool_state EXCEPT !.fund_fees = Less(@, amounts),
                                          !.recent_epoch = epoch]
      /\ PayOut(amounts)
      /\ UNCHANGED <<configVars, registryVars, lp_mint_supply, observation_state, chainVars>>
  BY DEF collect_fund_fee
<1> HIDE DEF amounts
<1>5. /\ pool_state' \in PoolStates
      /\ pool_state'.initialized
      /\ pool_state'.lp_supply = pool_state.lp_supply
      /\ pool_state'.protocol_fees = pool_state.protocol_fees
      /\ pool_state'.fund_fees = Less(pool_state.fund_fees, amounts)
      /\ pool_state'.creator_fees = pool_state.creator_fees
  BY <1>1, <1>3, <1>4 DEF TypeOK, PoolStates
<1>6. \A t \in Tokens : FeesOwed(t)' = FeesOwed(t) - amounts[t]
  BY <1>1, <1>3, <1>5, PoolTypes DEF FeesOwed, Less
<1> QED
  BY <1>3, <1>4, <1>5, <1>6, CollectSafe

\* collect_creator_fee pays from the fees and leaves the totals alone.
LEMMA CollectCreatorFeeSafe ==
  ASSUME IInv, NEW creator, collect_creator_fee(creator)
  PROVE  /\ TypeOK' /\ Config!RatesBounded' /\ Uncreated' /\ Solvent' /\ Shares!Trade
         /\ \A t \in Tokens : Total(t)' = Total(t)
         /\ pool_state'.lp_supply = pool_state.lp_supply
<1> DEFINE amounts == pool_state.creator_fees
<1>1. TypeOK
  BY DEF IInv
<1>2. amounts \in [Tokens -> Nat] /\ Nothing \in [Tokens -> Amounts]
  BY <1>1, U64Assumption DEF TypeOK, PoolStates, Amounts, Nothing
<1>3. /\ pool_state.initialized
      /\ pool_state' = [pool_state EXCEPT !.creator_fees = Nothing, !.recent_epoch = epoch]
      /\ PayOut(amounts)
      /\ UNCHANGED <<configVars, registryVars, lp_mint_supply, observation_state, chainVars>>
  BY DEF collect_creator_fee
<1>4. /\ pool_state' \in PoolStates
      /\ pool_state'.initialized
      /\ pool_state'.lp_supply = pool_state.lp_supply
      /\ pool_state'.protocol_fees = pool_state.protocol_fees
      /\ pool_state'.fund_fees = pool_state.fund_fees
      /\ pool_state'.creator_fees = Nothing
  BY <1>1, <1>2, <1>3 DEF TypeOK, PoolStates
<1>5. \A t \in Tokens : FeesOwed(t)' = FeesOwed(t) - amounts[t]
  BY <1>1, <1>2, <1>4, PoolTypes DEF FeesOwed, Nothing
<1> QED
  BY <1>2, <1>3, <1>4, <1>5, CollectSafe

(* ----------------------- creation of the pool -------------------------- *)

\* The observation account that initialize writes is well typed.
LEMMA ZeroedObservationType == ZeroedObservation \in ObservationStates(0..MAX_TIME)
<1>1. 0 \in Slots /\ 0 \in 0..MAX_TIME /\ 0 \in 0..U128_MAX
  BY ObservationAssumption, PoolAssumption DEF Slots
<1> QED
  BY <1>1 DEF ZeroedObservation, ObservationStates

\* initialize (initialize.rs:182-362) opens the pool with backed, locked shares.
LEMMA CreatePoolSafe ==
  ASSUME IInv, NEW creator \in Keys, NEW amounts \in [Tokens -> Amounts],
         NEW open_time \in 0..MAX_TIME, NEW creator_fee_on \in CreatorFeeOn,
         NEW enable_creator_fee \in BOOLEAN,
         CreatePool(creator, amounts, open_time, creator_fee_on, enable_creator_fee)
  PROVE  /\ TypeOK' /\ Config!RatesBounded' /\ Uncreated' /\ Solvent' /\ FeesKept
         /\ Shares!Open
         /\ \A t \in Tokens : vault'[t] <= amounts[t]
<1> DEFINE deposited == [t \in Tokens |-> AmountReceived(mint[t], amounts[t])]
<1>1. TypeOK
  BY DEF IInv
<1>2. PICK liquidity \in Amounts :
        /\ ~pool_state.initialized
        /\ \A t \in Tokens : deposited[t] # 0
        /\ IsIntegerSqrt(liquidity, deposited[0] * deposited[1])
        /\ liquidity >= LOCK_LP_AMOUNT
        /\ lp_mint_supply' = MintedToCreator(liquidity)
        /\ pool_state' = NewPool(creator, liquidity, OpenTime(open_time),
                                 creator_fee_on, enable_creator_fee)
        /\ vault' = deposited
        /\ observation_state' = ZeroedObservation
        /\ UNCHANGED <<configVars, registryVars, chainVars>>
  BY DEF CreatePool
<1>3. \A t \in Tokens : /\ deposited[t] \in Nat \ {0}
                        /\ deposited[t] <= amounts[t]
                        /\ deposited[t] <= U64_MAX
  <2> SUFFICES ASSUME NEW t \in Tokens
               PROVE  /\ deposited[t] \in Nat \ {0}
                      /\ deposited[t] <= amounts[t]
                      /\ deposited[t] <= U64_MAX
    OBVIOUS
  <2>1. amounts[t] \in Amounts /\ mint[t] \in Mints(Nat) /\ U64_MAX \in Nat
    BY <1>1, PoolTypes
  <2>2. amounts[t] \in Nat /\ amounts[t] <= U64_MAX
    BY <2>1 DEF Amounts
  <2>3. AmountReceived(mint[t], amounts[t]) \in Nat
        /\ AmountReceived(mint[t], amounts[t]) <= amounts[t]
    BY <2>1, <2>2, TransferFeeBounded
  <2>4. deposited[t] = AmountReceived(mint[t], amounts[t]) /\ deposited[t] # 0
    BY <1>2
  <2> QED
    BY <2>1, <2>2, <2>3, <2>4
<1>4. liquidity \in Nat /\ liquidity <= U64_MAX /\ LOCK_LP_AMOUNT \in Nat \ {0}
  BY PoolAssumption, U64Assumption DEF Amounts
<1>5. vault' \in [Tokens -> Amounts]
  BY <1>2, <1>3, U64Assumption DEF Amounts
<1> HIDE DEF deposited
<1>6. OpenTime(open_time) \in 0..(MAX_TIME + 1)
  BY <1>1, PoolAssumption DEF OpenTime, TypeOK
<1>7. /\ pool_state' \in PoolStates
      /\ pool_state'.initialized
      /\ pool_state'.lp_supply = liquidity
      /\ pool_state'.protocol_fees = Nothing
      /\ pool_state'.fund_fees = Nothing
      /\ pool_state'.creator_fees = Nothing
  <2>1. creator \in Keys /\ epoch \in 0..MAX_EPOCH /\ Nothing \in [Tokens -> Amounts]
        /\ 0 \in 0..255
    BY <1>1, PoolAssumption, U64Assumption DEF TypeOK, Nothing, Amounts
  <2> QED
    BY <1>2, <1>4, <1>6, <2>1 DEF NewPool, PoolStates
<1>8. lp_mint_supply' = liquidity - LOCK_LP_AMOUNT /\ lp_mint_supply' \in Amounts
  BY <1>2, <1>4, U64Assumption DEF MintedToCreator, Amounts
<1>9. TypeOK' /\ Config!RatesBounded' /\ Uncreated'
  BY <1>1, <1>2, <1>5, <1>7, <1>8, PoolStepTypes, ZeroedObservationType
<1>10. \A t \in Tokens : FeesOwed(t)' = 0 /\ Total(t)' = deposited[t]
  BY <1>2, <1>3, <1>7 DEF FeesOwed, Total, Nothing
<1>11. Solvent' /\ FeesKept
  <2>1. \A t \in Tokens : FeesOwed(t) = 0
    BY <1>2 DEF IInv, Uncreated, ZeroedPool, FeesOwed, Nothing
  <2> QED
    BY <1>2, <1>3, <1>10, <2>1 DEF Solvent, FeesKept
<1>12. liquidity * liquidity <= Total(0)' * Total(1)'
  BY <1>2, <1>10 DEF IsIntegerSqrt, Tokens
<1>13. 0 \in Tokens /\ 1 \in Tokens
  BY DEF Tokens
<1>14. Shares!Open
  BY <1>2, <1>3, <1>4, <1>7, <1>8, <1>10, <1>12, <1>13 DEF Shares!Open, Shares!Reserves
<1>15. \A t \in Tokens : vault'[t] <= amounts[t]
  BY <1>2, <1>3
<1> QED
  BY <1>9, <1>11, <1>14, <1>15

(* ------------------------- deposit and withdraw ------------------------ *)

\* deposit rounds what it takes up, so the totals per LP do not shrink.
LEMMA DepositSafe ==
  ASSUME IInv, NEW lp \in Amounts, NEW maximum, deposit(lp, maximum)
  PROVE  /\ TypeOK' /\ Config!RatesBounded' /\ Uncreated' /\ Solvent' /\ FeesKept
         /\ Shares!Exchange
         /\ \A t \in Tokens :
              /\ DepositAmount(t, lp) \in Nat \ {0}
              /\ AmountReceived(mint[t], DepositAmount(t, lp)
                     + get_transfer_inverse_fee(mint[t], DepositAmount(t, lp)))
                   = DepositAmount(t, lp)
              /\ vault'[t] = vault[t] + DepositAmount(t, lp)
              /\ Total(t)' = Total(t) + DepositAmount(t, lp)
         /\ pool_state'.initialized
<1> DEFINE S == pool_state.lp_supply
           amount == [t \in Tokens |-> DepositAmount(t, lp)]
           transfer == [t \in Tokens |-> DepositTransfer(t, lp)]
<1>1. TypeOK /\ Solvent
  BY DEF IInv
<1>2. /\ pool_state.initialized
      /\ \A t \in Tokens :
           /\ amount[t] \in 1..U64_MAX
           /\ TransferInverseFeeOk(mint[t], amount[t])
           /\ CanSend(t, transfer[t])
      /\ S + lp <= U64_MAX
      /\ lp_mint_supply + lp <= U64_MAX
      /\ vault' = [t \in Tokens |-> VaultAfterDeposit(t, transfer[t])]
      /\ lp_mint_supply' = lp_mint_supply + lp
      /\ pool_state' = [pool_state EXCEPT !.lp_supply = @ + lp, !.recent_epoch = epoch]
      /\ UNCHANGED <<configVars, registryVars, observation_state, chainVars>>
  BY DEF deposit
<1>3. lp \in Nat /\ S \in Nat \ {0} /\ U64_MAX \in Nat
      /\ \A t \in Tokens : Total(t) \in Nat \ {0} /\ vault[t] \in Nat /\ mint[t] \in Mints(Nat)
                             /\ FeesOwed(t) \in Nat
  BY <1>1, <1>2, PoolTypes, TotalsPositive, U64Assumption DEF Amounts
<1>4. \A t \in Tokens : /\ amount[t] \in Nat \ {0}
                        /\ amount[t] * S >= lp * Total(t)
                        /\ vault'[t] = vault[t] + amount[t]
                        /\ vault'[t] <= U64_MAX
                        /\ AmountReceived(mint[t], transfer[t]) = amount[t]
  <2> SUFFICES ASSUME NEW t \in Tokens
               PROVE  /\ amount[t] \in Nat \ {0}
                      /\ amount[t] * S >= lp * Total(t)
                      /\ vault'[t] = vault[t] + amount[t]
                      /\ vault'[t] <= U64_MAX
                      /\ AmountReceived(mint[t], transfer[t]) = amount[t]
    OBVIOUS
  <2> DEFINE a == amount[t]
  <2>1. a \in Nat /\ a # 0
    BY <1>2, <1>3
  <2>2. a = lp_tokens_to_trading_tokens(lp, S, Total(t), "Ceiling")
    BY DEF DepositAmount
  <2>3. a * S >= lp * Total(t)
    BY <1>3, <2>1, <2>2, CeilingCovers
  <2>4. TransferInverseFeeOk(mint[t], a) /\ CanSend(t, transfer[t])
        /\ transfer[t] = a + get_transfer_inverse_fee(mint[t], a)
        /\ vault'[t] = vault[t] + AmountReceived(mint[t], transfer[t])
    BY <1>2 DEF VaultAfterDeposit, DepositTransfer
  <2> HIDE DEF a, amount, transfer
  <2>5. AmountReceived(mint[t], transfer[t]) = a
    BY <1>3, <2>1, <2>4, InverseFeeExact
  <2>6. get_transfer_inverse_fee(mint[t], a) \in Nat
    BY <1>3, <2>1, InverseFeeType
  <2>7. vault'[t] <= U64_MAX
    BY <1>3, <2>1, <2>4, <2>5, <2>6 DEF CanSend
  <2> QED
    BY <2>1, <2>3, <2>4, <2>5, <2>7 DEF a
<1>14. \A t \in Tokens :
         /\ amount[t] = DepositAmount(t, lp)
         /\ transfer[t] = DepositAmount(t, lp)
                            + get_transfer_inverse_fee(mint[t], DepositAmount(t, lp))
  BY DEF DepositTransfer
<1>5. vault' \in [Tokens -> Amounts]
  <2>1. \A t \in Tokens : vault'[t] \in Amounts
    BY <1>3, <1>4 DEF Amounts
  <2> QED
    BY <1>2, <2>1
<1> HIDE DEF amount, transfer
<1>6. /\ pool_state' \in PoolStates
      /\ pool_state'.initialized
      /\ pool_state'.lp_supply = S + lp
      /\ pool_state'.protocol_fees = pool_state.protocol_fees
      /\ pool_state'.fund_fees = pool_state.fund_fees
      /\ pool_state'.creator_fees = pool_state.creator_fees
  <2>1. S + lp \in Amounts
    BY <1>2, <1>3 DEF Amounts
  <2>2. pool_state \in PoolStates /\ epoch \in 0..MAX_EPOCH
    BY <1>1 DEF TypeOK
  <2> QED
    BY <1>2, <2>1, <2>2 DEF PoolStates
<1>7. lp_mint_supply' \in Amounts
  BY <1>1, <1>2, <1>3, PoolTypes DEF Amounts
<1>8. TypeOK' /\ Config!RatesBounded' /\ Uncreated'
  BY <1>1, <1>2, <1>5, <1>6, <1>7, PoolStepTypes DEF TypeOK
<1>9. \A t \in Tokens : FeesOwed(t)' = FeesOwed(t) /\ Total(t)' = Total(t) + amount[t]
  BY <1>3, <1>4, <1>6 DEF FeesOwed, Total
<1>10. Solvent' /\ FeesKept
  BY <1>1, <1>3, <1>4, <1>9 DEF Solvent, FeesKept
<1>11. \A t \in Tokens : Total(t)' \in Nat \ {0}
                         /\ Total(t)' * S >= Total(t) * (S + lp)
  BY <1>3, <1>4, <1>9
<1>12. /\ lp_mint_supply' \in Nat
       /\ lp_mint_supply' - lp_mint_supply = pool_state'.lp_supply - pool_state.lp_supply
       /\ pool_state'.lp_supply \in Nat \ {0}
       /\ \A t \in Tokens : Total(t)' * S >= Total(t) * pool_state'.lp_supply
  BY <1>1, <1>2, <1>3, <1>6, <1>11, PoolTypes
<1>13. Shares!Exchange
  BY <1>2, <1>6, <1>11, <1>12, IsExchange
<1> QED
  BY <1>4, <1>6, <1>8, <1>9, <1>10, <1>13, <1>14

\* withdraw rounds what it pays down, so the totals per LP do not shrink.
LEMMA WithdrawSafe ==
  ASSUME IInv, NEW lp \in Amounts, NEW minimum, withdraw(lp, minimum)
  PROVE  /\ TypeOK' /\ Config!RatesBounded' /\ Uncreated' /\ Solvent' /\ FeesKept
         /\ Shares!Exchange
         /\ \A t \in Tokens : /\ WithdrawAmount(t, lp) \in Nat
                             /\ vault'[t] = vault[t] - WithdrawAmount(t, lp)
                             /\ Total(t)' = Total(t) - WithdrawAmount(t, lp)
         /\ pool_state'.initialized
<1> DEFINE S == pool_state.lp_supply
<1>1. TypeOK /\ Solvent
  BY DEF IInv
<1>2. /\ pool_state.initialized
      /\ lp <= lp_mint_supply
      /\ vault' = [t \in Tokens |-> vault[t] - WithdrawAmount(t, lp)]
      /\ lp_mint_supply' = lp_mint_supply - lp
      /\ pool_state' = [pool_state EXCEPT !.lp_supply = @ - lp, !.recent_epoch = epoch]
      /\ UNCHANGED <<configVars, registryVars, observation_state, chainVars>>
  BY DEF withdraw, WithdrawOk
<1>3. lp \in Nat /\ S \in Nat \ {0} /\ lp_mint_supply \in Nat /\ U64_MAX \in Nat
      /\ lp_mint_supply < S /\ S <= U64_MAX
      /\ \A t \in Tokens : /\ Total(t) \in Nat \ {0} /\ vault[t] \in Nat /\ vault[t] <= U64_MAX
                           /\ FeesOwed(t) \in Nat
  BY <1>1, <1>2, PoolTypes, TotalsPositive, U64Assumption DEF Amounts
<1>4. \A t \in Tokens : /\ WithdrawAmount(t, lp) \in Nat
                        /\ WithdrawAmount(t, lp) * S <= lp * Total(t)
                        /\ WithdrawAmount(t, lp) < Total(t)
  <2> SUFFICES ASSUME NEW t \in Tokens
               PROVE  /\ WithdrawAmount(t, lp) \in Nat
                      /\ WithdrawAmount(t, lp) * S <= lp * Total(t)
                      /\ WithdrawAmount(t, lp) < Total(t)
    OBVIOUS
  <2> DEFINE a == lp_tokens_to_trading_tokens(lp, S, Total(t), "Floor")
             T == Total(t)
  <2>1. a \in Nat /\ a * S <= lp * T /\ a <= T
    BY <1>2, <1>3, FloorCovered
  <2>2. WithdrawAmount(t, lp) = a
    BY <1>3, <2>1 DEF WithdrawAmount, AtMost
  <2> HIDE DEF a
  <2>3. lp < S /\ T \in Nat \ {0}
    BY <1>2, <1>3
  <2>4. lp * T < S * T
    BY <1>3, <2>3
  <2>5. a < T
    BY <1>3, <2>1, <2>3, <2>4
  <2> QED
    BY <2>1, <2>2, <2>5
<1>5. \A t \in Tokens : vault'[t] = vault[t] - WithdrawAmount(t, lp)
  BY <1>2
<1>6. vault' \in [Tokens -> Amounts]
  <2>1. \A t \in Tokens : Total(t) <= vault[t]
    BY <1>1, TotalType
  <2>2. \A t \in Tokens : vault'[t] \in Amounts
    BY <1>3, <1>4, <1>5, <2>1 DEF Amounts
  <2> QED
    BY <1>2, <2>2
<1>7. /\ pool_state' \in PoolStates
      /\ pool_state'.initialized
      /\ pool_state'.lp_supply = S - lp
      /\ pool_state'.protocol_fees = pool_state.protocol_fees
      /\ pool_state'.fund_fees = pool_state.fund_fees
      /\ pool_state'.creator_fees = pool_state.creator_fees
  <2>1. S - lp \in Amounts
    BY <1>2, <1>3 DEF Amounts
  <2>2. pool_state \in PoolStates /\ epoch \in 0..MAX_EPOCH
    BY <1>1 DEF TypeOK
  <2> QED
    BY <1>2, <2>1, <2>2 DEF PoolStates
<1>8. lp_mint_supply' \in Nat /\ lp_mint_supply' \in Amounts
  BY <1>2, <1>3 DEF Amounts
<1>9. TypeOK' /\ Config!RatesBounded' /\ Uncreated'
  BY <1>1, <1>2, <1>6, <1>7, <1>8, PoolStepTypes DEF TypeOK
<1>10. \A t \in Tokens : FeesOwed(t)' = FeesOwed(t)
                         /\ Total(t)' = Total(t) - WithdrawAmount(t, lp)
  BY <1>3, <1>4, <1>5, <1>7 DEF FeesOwed, Total
<1>11. Solvent' /\ FeesKept
  BY <1>3, <1>4, <1>5, <1>10 DEF Solvent, Total, FeesKept
<1>12. \A t \in Tokens : Total(t)' \in Nat \ {0}
                         /\ Total(t)' * S >= Total(t) * (S - lp)
  BY <1>3, <1>4, <1>10
<1>13. S - lp \in Nat \ {0}
  BY <1>2, <1>3
<1>14. /\ lp_mint_supply' - lp_mint_supply = pool_state'.lp_supply - pool_state.lp_supply
       /\ \A t \in Tokens : Total(t)' * S >= Total(t) * pool_state'.lp_supply
  BY <1>2, <1>3, <1>7, <1>12
<1>15. Shares!Exchange
  BY <1>2, <1>7, <1>8, <1>12, <1>13, <1>14, IsExchange
<1> QED
  BY <1>4, <1>5, <1>7, <1>9, <1>10, <1>11, <1>15

(* -------------------------------- swaps -------------------------------- *)

\* The prices a swap reports to the oracle (pool.rs:223-229) are defined in an open pool.
LEMMA PriceType ==
  ASSUME IInv, pool_state.initialized
  PROVE  token_price_x32 \in [Tokens -> Nat]
<1> SUFFICES ASSUME NEW t \in Tokens
             PROVE  (Total(Other(t)) * Q32) \div Total(t) \in Nat
  BY DEF token_price_x32
<1>1. Other(t) \in Tokens
  BY DEF Other, Tokens
<1>2. Total(t) \in Nat \ {0} /\ Total(Other(t)) \in Nat
  BY <1>1, TotalsPositive
<1>3. Total(Other(t)) * Q32 \in Nat
  BY <1>2, PoolAssumption
<1> QED
  BY <1>2, <1>3, DivFloor

\* The fees stay in the vaults, and the curve's product reaches the totals.
LEMMA ApplySwapSafe ==
  ASSUME IInv, NEW input \in Tokens, NEW result, NEW transfer_in \in Nat,
         pool_state.initialized,
         ApplySwap(input, result, transfer_in),
         Accounted(result, Total(input), Total(Other(input)), is_creator_fee_on_input(input)),
         AmountReceived(mint[input], transfer_in) = result.input_amount,
         result.input_amount <= transfer_in,
         result.new_input_vault_amount * result.new_output_vault_amount
           >= Total(input) * Total(Other(input))
  PROVE  /\ TypeOK' /\ Config!RatesBounded' /\ Uncreated' /\ Solvent' /\ FeesKept
         /\ Shares!Trade
         /\ SwapApplied(input, result)
<1> DEFINE output == Other(input)
           x == Total(input)
           y == Total(output)
           on_input == is_creator_fee_on_input(input)
<1>1. TypeOK /\ Solvent
  BY DEF IInv
<1>2. output \in Tokens /\ output # input /\ \A t \in Tokens : t = input \/ t = output
  BY DEF Other, Tokens
<1>3. /\ \A t \in Tokens : /\ Total(t) \in Nat \ {0}
                           /\ vault[t] \in Nat /\ vault[t] <= U64_MAX
                           /\ pool_state.protocol_fees[t] \in Nat
                           /\ pool_state.fund_fees[t] \in Nat
                           /\ pool_state.creator_fees[t] \in Nat
                           /\ FeesOwed(t) \in Nat
      /\ U64_MAX \in Nat
  BY <1>1, PoolTypes, TotalsPositive
<1>4. /\ result.input_amount \in Nat
      /\ result.output_amount \in Nat
      /\ result.protocol_fee \in Nat
      /\ result.fund_fee \in Nat
      /\ result.creator_fee \in Nat
      /\ result.new_input_vault_amount \in Nat
      /\ result.new_output_vault_amount \in Nat
      /\ result.new_input_vault_amount >= x
  BY DEF Accounted
<1>5. /\ FeesBookable(input, result)
      /\ CanSend(input, transfer_in)
      /\ VaultPays(output, result.output_amount)
      /\ pool_state' = FeesBooked(input, result)
      /\ vault' = [vault EXCEPT ![input] = VaultAfterDeposit(input, transfer_in),
                                ![output] = @ - result.output_amount]
      /\ observation_state' = update(observation_state, now, token_price_x32)
      /\ UNCHANGED <<configVars, registryVars, lp_mint_supply, chainVars>>
  BY DEF ApplySwap, ApplySwapOk
<1>6. /\ vault' \in [Tokens -> Amounts]
      /\ vault'[input] = vault[input] + result.input_amount
      /\ vault'[output] = vault[output] - result.output_amount
  <2>1. vault \in [Tokens -> Amounts]
    BY <1>1 DEF TypeOK
  <2>2. VaultAfterDeposit(input, transfer_in) = vault[input] + result.input_amount
    BY DEF VaultAfterDeposit
  <2>3. vault[input] + result.input_amount \in Amounts
    BY <1>3, <1>4, <1>5 DEF CanSend, Amounts
  <2>4. vault[output] - result.output_amount \in Amounts
    BY <1>2, <1>3, <1>4, <1>5 DEF VaultPays, Amounts
  <2> QED
    BY <1>2, <1>5, <2>1, <2>2, <2>3, <2>4
<1>7. /\ pool_state' \in PoolStates
      /\ pool_state'.initialized
      /\ pool_state'.lp_supply = pool_state.lp_supply
      /\ pool_state'.protocol_fees
           = [pool_state.protocol_fees EXCEPT ![input] = @ + result.protocol_fee]
      /\ pool_state'.fund_fees = [pool_state.fund_fees EXCEPT ![input] = @ + result.fund_fee]
      /\ pool_state'.creator_fees
           = [pool_state.creator_fees EXCEPT ![CreatorFeeToken(input)] = @ + result.creator_fee]
  <2>1. pool_state \in PoolStates /\ epoch \in 0..MAX_EPOCH
    BY <1>1 DEF TypeOK
  <2>2. CreatorFeeToken(input) \in Tokens
    BY <1>2 DEF CreatorFeeToken
  <2>3. /\ pool_state.protocol_fees[input] + result.protocol_fee \in Amounts
        /\ pool_state.fund_fees[input] + result.fund_fee \in Amounts
        /\ pool_state.creator_fees[CreatorFeeToken(input)] + result.creator_fee \in Amounts
    BY <1>3, <1>4, <1>5, <2>2 DEF FeesBookable, Amounts
  <2> QED
    BY <1>5, <2>1, <2>2, <2>3 DEF FeesBooked, PoolStates
<1>8. TypeOK' /\ Config!RatesBounded' /\ Uncreated'
  <2>1. observation_state \in ObservationStates(0..MAX_TIME) /\ now \in 0..MAX_TIME
        /\ MAX_TIME \in Nat /\ lp_mint_supply \in Amounts
    BY <1>1, PoolAssumption DEF TypeOK
  <2>2. observation_state' \in ObservationStates(0..MAX_TIME)
    BY <1>5, <2>1, PriceType, UpdateType
  <2> QED
    BY <1>5, <1>6, <1>7, <2>1, <2>2, PoolStepTypes
<1>9. /\ pool_state'.protocol_fees[input] = pool_state.protocol_fees[input] + result.protocol_fee
      /\ pool_state'.fund_fees[input] = pool_state.fund_fees[input] + result.fund_fee
      /\ pool_state'.protocol_fees[output] = pool_state.protocol_fees[output]
      /\ pool_state'.fund_fees[output] = pool_state.fund_fees[output]
      /\ on_input =>
           /\ pool_state'.creator_fees[input]
                = pool_state.creator_fees[input] + result.creator_fee
           /\ pool_state'.creator_fees[output] = pool_state.creator_fees[output]
      /\ ~on_input =>
           /\ pool_state'.creator_fees[input] = pool_state.creator_fees[input]
           /\ pool_state'.creator_fees[output]
                = pool_state.creator_fees[output] + result.creator_fee
  <2>1. /\ pool_state.protocol_fees \in [Tokens -> Amounts]
        /\ pool_state.fund_fees \in [Tokens -> Amounts]
        /\ pool_state.creator_fees \in [Tokens -> Amounts]
    BY <1>1 DEF TypeOK, PoolStates
  <2> QED
    BY <1>2, <1>7, <2>1 DEF CreatorFeeToken
<1>10. /\ on_input =>
            /\ FeesOwed(input)' = FeesOwed(input)
                 + result.protocol_fee + result.fund_fee + result.creator_fee
            /\ FeesOwed(output)' = FeesOwed(output)
       /\ ~on_input =>
            /\ FeesOwed(input)' = FeesOwed(input) + result.protocol_fee + result.fund_fee
            /\ FeesOwed(output)' = FeesOwed(output) + result.creator_fee
  <2>1. /\ FeesOwed(input)' = pool_state'.protocol_fees[input] + pool_state'.fund_fees[input]
                                + pool_state'.creator_fees[input]
        /\ FeesOwed(output)' = pool_state'.protocol_fees[output] + pool_state'.fund_fees[output]
                                 + pool_state'.creator_fees[output]
        /\ FeesOwed(input) = pool_state.protocol_fees[input] + pool_state.fund_fees[input]
                               + pool_state.creator_fees[input]
        /\ FeesOwed(output) = pool_state.protocol_fees[output] + pool_state.fund_fees[output]
                                + pool_state.creator_fees[output]
    BY DEF FeesOwed
  <2> QED
    BY <1>2, <1>3, <1>4, <1>9, <2>1
<1>11. /\ Total(input)' \in Int /\ Total(input)' >= result.new_input_vault_amount
       /\ Total(output)' = result.new_output_vault_amount
  <2>1. /\ Total(input)' = vault'[input] - FeesOwed(input)'
        /\ Total(output)' = vault'[output] - FeesOwed(output)'
        /\ x = vault[input] - FeesOwed(input)
        /\ y = vault[output] - FeesOwed(output)
    BY DEF Total
  <2>2. CASE on_input
    <3>1. /\ result.new_input_vault_amount
               <= x + result.input_amount
                    - result.protocol_fee - result.fund_fee - result.creator_fee
          /\ result.new_output_vault_amount = y - result.output_amount
      BY <2>2 DEF Accounted
    <3> QED
      BY <1>2, <1>3, <1>4, <1>6, <1>10, <2>1, <2>2, <3>1
  <2>3. CASE ~on_input
    <3>1. /\ result.new_input_vault_amount
               <= x + result.input_amount - result.protocol_fee - result.fund_fee
          /\ result.new_output_vault_amount = y - result.output_amount - result.creator_fee
      BY <2>3 DEF Accounted
    <3> QED
      BY <1>2, <1>3, <1>4, <1>6, <1>10, <2>1, <2>3, <3>1
  <2> QED
    BY <2>2, <2>3
<1>12. Total(input)' \in Nat \ {0} /\ Total(output)' \in Nat \ {0}
  <2>1. x * y >= 1
    BY <1>2, <1>3
  <2>2. result.new_output_vault_amount # 0
    BY <1>2, <1>3, <1>4, <2>1
  <2> QED
    BY <1>2, <1>3, <1>4, <1>11, <2>2
<1>13. Total(input)' * Total(output)' >= x * y
  <2>1. Total(input)' * Total(output)'
          >= result.new_input_vault_amount * result.new_output_vault_amount
    BY <1>4, <1>11, <1>12
  <2> QED
    BY <1>2, <1>3, <1>4, <1>12, <2>1
<1>14. Total(0)' * Total(1)' >= Total(0) * Total(1)
  <2>1. CASE input = 0
    BY <1>13, <2>1 DEF Other
  <2>2. CASE input = 1
    <3>1. Total(1)' * Total(0)' >= Total(1) * Total(0)
      BY <1>13, <2>2 DEF Other
    <3>2. Total(0)' \in Nat /\ Total(1)' \in Nat /\ Total(0) \in Nat /\ Total(1) \in Nat
      BY <1>2, <1>3, <1>12, <2>2 DEF Other
    <3> QED
      BY <3>1, <3>2
  <2> QED
    BY <2>1, <2>2 DEF Tokens
<1>15. Solvent'
  <2>1. \A t \in Tokens : FeesOwed(t)' \in Nat
    BY <1>2, <1>3, <1>4, <1>10
  <2>2. \A t \in Tokens : vault'[t] \in Nat /\ Total(t)' >= 0
    BY <1>2, <1>3, <1>6, <1>12 DEF Amounts
  <2> QED
    BY <2>1, <2>2 DEF Solvent, Total
<1>16. FeesKept
  BY <1>2, <1>3, <1>4, <1>10 DEF FeesKept
<1>17. Shares!Trade
  BY <1>2, <1>5, <1>7, <1>12, <1>14, IsTrade
<1>18. SwapApplied(input, result)
  <2>0. result.trade_fee \in Nat /\ result.protocol_fee + result.fund_fee <= result.trade_fee
    BY DEF Accounted
  <2>1. /\ Total(input)' = vault'[input] - FeesOwed(input)'
        /\ Total(output)' = vault'[output] - FeesOwed(output)'
        /\ x = vault[input] - FeesOwed(input)
        /\ y = vault[output] - FeesOwed(output)
    BY DEF Total
  <2>2. CASE on_input
    <3>1. CreatorFeeToken(input) = input
      BY <2>2 DEF CreatorFeeToken
    <3>2. Total(input)' = x - result.creator_fee + result.input_amount
                            - result.protocol_fee - result.fund_fee
      BY <1>2, <1>3, <1>4, <1>6, <1>10, <2>1, <2>2
    <3>3. Total(output)' = y - 0 - result.output_amount
      BY <1>2, <1>3, <1>4, <1>6, <1>10, <2>1, <2>2
    <3> QED
      BY <1>2, <1>4, <1>6, <1>7, <2>0, <3>1, <3>2, <3>3 DEF SwapApplied
  <2>3. CASE ~on_input
    <3>1. CreatorFeeToken(input) = output
      BY <2>3 DEF CreatorFeeToken
    <3>2. Total(input)' = x - 0 + result.input_amount
                            - result.protocol_fee - result.fund_fee
      BY <1>2, <1>3, <1>4, <1>6, <1>10, <2>1, <2>3
    <3>3. Total(output)' = y - result.creator_fee - result.output_amount
      BY <1>2, <1>3, <1>4, <1>6, <1>10, <2>1, <2>3
    <3> QED
      BY <1>2, <1>4, <1>6, <1>7, <2>0, <3>1, <3>2, <3>3 DEF SwapApplied
  <2> QED
    BY <2>2, <2>3
<1> QED
  BY <1>8, <1>15, <1>16, <1>17, <1>18

\* The rates of a swap are the config's, with the creator's rate or without.
LEMMA MarketRates ==
  ASSUME IInv, NEW input \in Tokens
  PROVE  BoundedRates(MarketFor(input).rates)
<1> DEFINE creator_fee_rate == adjust_creator_fee_rate(amm_config.creator_fee_rate)
           rates == MarketFor(input).rates
<1>1. TypeOK /\ Config!RatesBounded
  BY DEF IInv
<1>2. creator_fee_rate \in Nat /\ creator_fee_rate <= amm_config.creator_fee_rate
  BY <1>1, ConfigTypes DEF adjust_creator_fee_rate
<1> HIDE DEF creator_fee_rate
<1>3. rates = [trade_fee_rate |-> amm_config.trade_fee_rate,
               creator_fee_rate |-> creator_fee_rate,
               protocol_fee_rate |-> amm_config.protocol_fee_rate,
               fund_fee_rate |-> amm_config.fund_fee_rate]
  BY DEF MarketFor, creator_fee_rate
<1> HIDE DEF rates
<1>4. rates \in FeeRates(Nat)
  BY <1>1, <1>2, <1>3, ConfigTypes DEF FeeRates
<1>5. rates.trade_fee_rate + rates.creator_fee_rate < FEE_RATE_DENOMINATOR_VALUE
  BY <1>1, <1>2, <1>3, ConfigTypes, DenominatorAssumption DEF Config!RatesBounded
<1>6. rates.protocol_fee_rate + rates.fund_fee_rate <= FEE_RATE_DENOMINATOR_VALUE
  BY <1>1, <1>3 DEF Config!RatesBounded
<1> QED
  BY <1>4, <1>5, <1>6 DEF BoundedRates, rates

\* What get_swap_params (pool.rs:263-316) hands to the quotes, field by field.
LEMMA MarketFields ==
  ASSUME NEW input \in Tokens
  PROVE  /\ MarketFor(input).input_vault = Total(input)
         /\ MarketFor(input).output_vault = Total(Other(input))
         /\ MarketFor(input).is_creator_fee_on_input = is_creator_fee_on_input(input)
         /\ MarketFor(input).input_mint = mint[input]
         /\ MarketFor(input).output_mint = mint[Other(input)]
         /\ is_creator_fee_on_input(input) \in BOOLEAN
         /\ Other(input) \in Tokens
  BY DEF MarketFor, is_creator_fee_on_input, Other, Tokens

\* Every swap of an open pool finds a market that the lemmas about quotes are about.
LEMMA MarketTradable ==
  ASSUME IInv, pool_state.initialized, NEW input \in Tokens
  PROVE  Tradable(MarketFor(input))
<1> DEFINE rates == MarketFor(input).rates
<1>1. Other(input) \in Tokens /\ is_creator_fee_on_input(input) \in BOOLEAN
  BY MarketFields
<1>2. /\ Total(input) \in Nat \ {0} /\ Total(Other(input)) \in Nat
      /\ mint[input] \in Mints(Nat) /\ mint[Other(input)] \in Mints(Nat)
  BY <1>1, TotalsPositive, PoolTypes DEF IInv
<1>3. BoundedRates(rates)
  BY MarketRates
<1>4. MarketFor(input) = [input_vault |-> Total(input),
                          output_vault |-> Total(Other(input)),
                          rates |-> rates,
                          is_creator_fee_on_input |-> is_creator_fee_on_input(input),
                          input_mint |-> mint[input],
                          output_mint |-> mint[Other(input)]]
  BY DEF MarketFor
<1> HIDE DEF rates
<1>5. rates \in FeeRates(Nat)
  BY <1>3 DEF BoundedRates
<1>6. MarketFor(input) \in Market(Nat, Mints(Nat))
  BY <1>1, <1>2, <1>4, <1>5 DEF Market
<1>7. MarketFor(input).input_vault > 0
  BY <1>2, <1>4
<1> QED
  BY <1>3, <1>6, <1>7 DEF Tradable, rates

\* What the tail of a handler is given by swap_base_input's quote ...
LEMMA BaseInputQuoted ==
  ASSUME IInv, pool_state.initialized, NEW input \in Tokens, NEW amount_in \in Nat,
         BaseInputOk(MarketFor(input), amount_in)
  PROVE  LET result == BaseInputResult(MarketFor(input), amount_in)
         IN  /\ Accounted(result, Total(input), Total(Other(input)),
                          is_creator_fee_on_input(input))
             /\ AmountReceived(mint[input], amount_in) = result.input_amount
             /\ result.input_amount <= amount_in
             /\ result.new_input_vault_amount * result.new_output_vault_amount
                  >= Total(input) * Total(Other(input))
<1> DEFINE market == MarketFor(input)
           result == BaseInputResult(market, amount_in)
           actual == ActualAmountIn(market, amount_in)
           on_input == is_creator_fee_on_input(input)
<1>2. /\ mint[input] \in Mints(Nat)
      /\ Total(input) \in Nat \ {0} /\ Total(Other(input)) \in Nat
  BY PoolTypes, TotalsPositive, MarketFields DEF IInv
<1>3. actual = AmountReceived(mint[input], amount_in)
      /\ actual \in Nat /\ actual <= amount_in
  BY <1>2, MarketFields, TransferFeeBounded DEF ActualAmountIn
<1> HIDE DEF actual
<1>4. result = swap_base_input(actual, Total(input), Total(Other(input)), market.rates, on_input)
  BY MarketFields DEF BaseInputResult, actual
<1>5. result.input_amount = actual
  BY <1>4 DEF swap_base_input, SwapResult
<1>6. SwapBaseInputDefined(market.rates, on_input)
      /\ result.new_input_vault_amount * result.new_output_vault_amount
           >= Total(input) * Total(Other(input))
  BY MarketFields DEF BaseInputOk, ConstantKept
<1>7. BoundedRates(market.rates) /\ on_input \in BOOLEAN
  BY MarketRates, MarketFields
<1> HIDE DEF market, on_input
<1>8. Accounted(result, Total(input), Total(Other(input)), on_input)
  BY <1>2, <1>3, <1>4, <1>6, <1>7, BaseInputAccounted
<1> HIDE DEF result
<1> QED
  BY <1>3, <1>5, <1>6, <1>8 DEF on_input, result, market

\* ... and by swap_base_output's.
LEMMA BaseOutputQuoted ==
  ASSUME IInv, pool_state.initialized, NEW input \in Tokens, NEW amount_out_received \in Nat,
         BaseOutputOk(MarketFor(input), amount_out_received)
  PROVE  LET result      == BaseOutputResult(MarketFor(input), amount_out_received)
             transfer_in == InputTransferAmount(MarketFor(input), amount_out_received)
         IN  /\ Accounted(result, Total(input), Total(Other(input)),
                          is_creator_fee_on_input(input))
             /\ transfer_in \in Nat
             /\ AmountReceived(mint[input], transfer_in) = result.input_amount
             /\ result.input_amount <= transfer_in
             /\ result.new_input_vault_amount * result.new_output_vault_amount
                  >= Total(input) * Total(Other(input))
<1> DEFINE market == MarketFor(input)
           result == BaseOutputResult(market, amount_out_received)
           amount_out == AmountOutWithTransferFee(market, amount_out_received)
           transfer_in == InputTransferAmount(market, amount_out_received)
           on_input == is_creator_fee_on_input(input)
<1>2. /\ mint[input] \in Mints(Nat)
      /\ mint[Other(input)] \in Mints(Nat)
      /\ Total(input) \in Nat \ {0} /\ Total(Other(input)) \in Nat
  BY PoolTypes, TotalsPositive, MarketFields DEF IInv
<1>3. amount_out \in Nat
  BY <1>2, MarketFields, InverseFeeType DEF AmountOutWithTransferFee
<1>4. /\ SwapBaseOutputDefined(amount_out, Total(Other(input)), market.rates, on_input)
      /\ result.new_input_vault_amount * result.new_output_vault_amount
           >= Total(input) * Total(Other(input))
      /\ TransferInverseFeeOk(mint[input], result.input_amount)
  BY MarketFields DEF BaseOutputOk, ConstantKept
<1>5. result = swap_base_output(amount_out, Total(input), Total(Other(input)),
                                market.rates, on_input)
  BY MarketFields DEF BaseOutputResult
<1>6. BoundedRates(market.rates) /\ on_input \in BOOLEAN
  BY MarketRates, MarketFields
<1>7. transfer_in = result.input_amount
                      + get_transfer_inverse_fee(mint[input], result.input_amount)
  BY MarketFields DEF InputTransferAmount
<1> HIDE DEF market, on_input, amount_out, transfer_in
<1>8. Accounted(result, Total(input), Total(Other(input)), on_input)
  BY <1>2, <1>3, <1>4, <1>5, <1>6, BaseOutputAccounted
<1> HIDE DEF result
<1>9. result.input_amount \in Nat
  BY <1>8 DEF Accounted
<1>10. get_transfer_inverse_fee(mint[input], result.input_amount) \in Nat
  BY <1>2, <1>9, InverseFeeType
<1>11. transfer_in \in Nat /\ result.input_amount <= transfer_in
  BY <1>7, <1>9, <1>10
<1>12. AmountReceived(mint[input], transfer_in) = result.input_amount
  BY <1>2, <1>4, <1>7, <1>9, InverseFeeExact
<1> QED
  BY <1>4, <1>8, <1>11, <1>12 DEF on_input, result, market, transfer_in

\* swap_base_input keeps the fees covered and the product of the totals.
LEMMA SwapBaseInputSafe ==
  ASSUME IInv, NEW input \in Tokens, NEW amount_in \in Amounts, NEW minimum_amount_out,
         Swap_base_input(input, amount_in, minimum_amount_out)
  PROVE  /\ TypeOK' /\ Config!RatesBounded' /\ Uncreated' /\ Solvent' /\ FeesKept
         /\ Shares!Trade
         /\ SwapApplied(input, BaseInputResult(MarketFor(input), amount_in))
         /\ AmountReceived(mint[input], amount_in)
              = BaseInputResult(MarketFor(input), amount_in).input_amount
<1> DEFINE result == BaseInputResult(MarketFor(input), amount_in)
<1>1. /\ pool_state.initialized
      /\ BaseInputOk(MarketFor(input), amount_in)
      /\ ApplySwap(input, result, amount_in)
  BY DEF Swap_base_input, SwapAllowed
<1>2. amount_in \in Nat
  BY U64Assumption DEF Amounts
<1> HIDE DEF result
<1>3. /\ Accounted(result, Total(input), Total(Other(input)), is_creator_fee_on_input(input))
      /\ AmountReceived(mint[input], amount_in) = result.input_amount
      /\ result.input_amount <= amount_in
      /\ result.new_input_vault_amount * result.new_output_vault_amount
           >= Total(input) * Total(Other(input))
  BY <1>1, <1>2, BaseInputQuoted DEF result
<1> QED
  BY <1>1, <1>2, <1>3, ApplySwapSafe DEF result

\* swap_base_output keeps the fees covered and the product of the totals.
LEMMA SwapBaseOutputSafe ==
  ASSUME IInv, NEW input \in Tokens, NEW max_amount_in, NEW amount_out_received \in Amounts,
         Swap_base_output(input, max_amount_in, amount_out_received)
  PROVE  /\ TypeOK' /\ Config!RatesBounded' /\ Uncreated' /\ Solvent' /\ FeesKept
         /\ Shares!Trade
         /\ SwapApplied(input, BaseOutputResult(MarketFor(input), amount_out_received))
         /\ AmountReceived(mint[input], InputTransferAmount(MarketFor(input), amount_out_received))
              = BaseOutputResult(MarketFor(input), amount_out_received).input_amount
         /\ BaseOutputResult(MarketFor(input), amount_out_received).input_amount
              <= InputTransferAmount(MarketFor(input), amount_out_received)
<1> DEFINE result == BaseOutputResult(MarketFor(input), amount_out_received)
           transfer_in == InputTransferAmount(MarketFor(input), amount_out_received)
<1>1. /\ pool_state.initialized
      /\ BaseOutputOk(MarketFor(input), amount_out_received)
      /\ ApplySwap(input, result, transfer_in)
  BY DEF Swap_base_output, SwapAllowed
<1>2. amount_out_received \in Nat
  BY U64Assumption DEF Amounts
<1> HIDE DEF result, transfer_in
<1>3. /\ Accounted(result, Total(input), Total(Other(input)), is_creator_fee_on_input(input))
      /\ transfer_in \in Nat
      /\ AmountReceived(mint[input], transfer_in) = result.input_amount
      /\ result.input_amount <= transfer_in
      /\ result.new_input_vault_amount * result.new_output_vault_amount
           >= Total(input) * Total(Other(input))
  BY <1>1, <1>2, BaseOutputQuoted DEF result, transfer_in
<1> QED
  BY <1>1, <1>3, ApplySwapSafe DEF result, transfer_in

(* ------------------------------ the theorems --------------------------- *)

\* Every step of the pool is a step of the share pool, or none.
LEMMA NextSafe ==
  ASSUME IInv, Next
  PROVE  /\ TypeOK' /\ Config!RatesBounded' /\ Uncreated' /\ Solvent'
         /\ Shares!Next \/ UNCHANGED Shares!vars
         /\ FeesKept \/ FeesTaken
<1> USE DEF Shares!Next
<1>0. BothToken \in CreatorFeeOn /\ LpAmounts \subseteq Amounts /\ SwapAmounts \subseteq Amounts
  BY PoolAssumption DEF CreatorFeeOn
<1>1. CASE CreateAPool
  <2>1. Creators \subseteq Keys /\ OpenTimes \subseteq 0..MAX_TIME
        /\ \A amounts \in Pair(InitAmounts) : amounts \in [Tokens -> Amounts]
    BY PoolAssumption DEF Pair
  <2> QED
    BY <1>0, <1>1, <2>1, CreatePoolSafe DEF CreateAPool, initialize, initialize_with_permission
<1>2. CASE Deposit
  BY <1>0, <1>2, DepositSafe DEF Deposit
<1>3. CASE Withdraw
  BY <1>0, <1>3, WithdrawSafe DEF Withdraw
<1>4. CASE SwapBaseInput
  BY <1>0, <1>4, SwapBaseInputSafe DEF SwapBaseInput
<1>5. CASE SwapBaseOutput
  BY <1>0, <1>5, SwapBaseOutputSafe DEF SwapBaseOutput
<1>6. \A requested \in Pair(Limits) : requested \in [Tokens -> Amounts]
  BY PoolAssumption DEF Pair
<1>7. CASE CollectProtocolFee
  BY <1>6, <1>7, CollectProtocolFeeSafe DEF CollectProtocolFee, FeesTaken
<1>8. CASE CollectFundFee
  BY <1>6, <1>8, CollectFundFeeSafe DEF CollectFundFee, FeesTaken
<1>9. CASE CollectCreatorFee
  BY <1>9, CollectCreatorFeeSafe DEF CollectCreatorFee, FeesTaken
<1>10. CASE UpdatePoolStatus
  BY <1>10, UpdatePoolStatusSafe DEF UpdatePoolStatus
<1>11. CASE UpdateConfig
  BY <1>11, UpdateConfigSafe
<1>12. CASE UpdateRegistry
  BY <1>12, UpdateRegistrySafe
<1>13. CASE DonateToVault
  BY <1>13, DonateSafe DEF DonateToVault
<1>14. CASE BurnLpTokens
  BY <1>14, BurnLpSafe DEF BurnLpTokens
<1>15. CASE ClockMoves \/ EpochBegins
  BY <1>15, ClockAndEpochSafe
<1> QED
  BY <1>1, <1>2, <1>3, <1>4, <1>5, <1>7, <1>8, <1>9, <1>10, <1>11, <1>12, <1>13, <1>14, <1>15
     DEF Next

\* A stuttering step changes nothing.
LEMMA StutterSafe ==
  ASSUME IInv, UNCHANGED vars
  PROVE  /\ TypeOK' /\ Config!RatesBounded' /\ Uncreated' /\ Solvent'
         /\ UNCHANGED Shares!vars
         /\ FeesKept
<1> USE DEF vars, configVars, registryVars, poolVars, chainVars
<1>1. TypeOK' /\ Config!RatesBounded'
  BY DEF IInv, TypeOK, Config!TypeOK, Access!TypeOK, Config!RatesBounded
<1> QED
  BY <1>1, BooksUnchanged DEF Shares!vars

\* Before any pool exists the invariant holds and the shares are in their initial state.
LEMMA InitSafe ==
  ASSUME Init
  PROVE  IInv /\ Shares!Init
<1> USE DEF Init
<1>1. TypeOK
  <2>1. Config!TypeOK
    BY PoolAssumption DEF Config!Init, Config!TypeOK, Config!AmmConfigs, Config!ZeroedConfig
  <2>2. Access!TypeOK
    BY DEF Access!Init, Access!TypeOK
  <2>3. /\ 0 \in Amounts /\ 0 \in 0..255 /\ 0 \in 0..MAX_EPOCH /\ 0 \in 0..(MAX_TIME + 1)
        /\ 1 \in 1..MAX_TIME /\ Nothing \in [Tokens -> Amounts]
    BY PoolAssumption, U64Assumption DEF Amounts, Nothing
  <2>4. pool_state \in PoolStates
    BY <2>3, PoolAssumption DEF ZeroedPool, PoolStates, CreatorFeeOn
  <2>5. mint \in [Tokens -> Mints(Nat)]
    <3>1. \A t \in Tokens : mint[t] \in Mints(Nat)
      BY PoolAssumption
    <3>2. mint = [t \in Tokens |-> mint[t]]
      OBVIOUS
    <3> QED
      BY <3>1, <3>2
  <2> QED
    BY <2>1, <2>2, <2>3, <2>4, <2>5, ZeroedObservationType DEF TypeOK
<1>2. Config!RatesBounded
  BY DenominatorAssumption DEF Config!Init, Config!RatesBounded, Config!ZeroedConfig
<1>3. \A t \in Tokens : FeesOwed(t) = 0 /\ vault[t] = 0 /\ Total(t) = 0
  BY DEF FeesOwed, Total, ZeroedPool, Nothing
<1>4. Solvent /\ Uncreated /\ SharesInv
  BY <1>3 DEF Solvent, Uncreated, SharesInv, NeverDrained, LpBacked, LockedLiquidity,
              ZeroedPool, Tokens
<1>5. Shares!Init
  BY <1>3 DEF Shares!Init, ZeroedPool
<1> QED
  BY <1>1, <1>2, <1>4, <1>5 DEF IInv

\* The inductive invariant: types, bounded rates, an untouched uncreated pool,
\* covered fees and backed, locked shares hold in every reachable state.
THEOREM Inductive == Spec => []IInv
<1>1. Init => IInv
  BY InitSafe
<1>2. IInv /\ [Next]_vars => IInv'
  <2> SUFFICES ASSUME IInv, [Next]_vars PROVE IInv'
    OBVIOUS
  <2>1. /\ TypeOK' /\ Config!RatesBounded' /\ Uncreated' /\ Solvent'
        /\ Shares!Next \/ UNCHANGED Shares!vars
    BY NextSafe, StutterSafe
  <2>2. SharesInv'
    BY <2>1, SharesPreserved DEF IInv
  <2> QED
    BY <2>1, <2>2 DEF IInv
<1> QED
  BY <1>1, <1>2, PTL DEF Spec

\* For every value of the constants: the accounts keep their shape and width.
THEOREM TypeCorrect == Spec => []TypeOK
  BY Inductive, PTL DEF IInv

\* The fees owed are always in the vaults.
THEOREM FeesAreThere == Spec => []Solvent
  BY Inductive, PTL DEF IInv

\* Neither side of the pool can be emptied.
THEOREM PoolNeverDrained == Spec => []NeverDrained
  BY Inductive, PTL DEF IInv, SharesInv

\* The LP supply stays within the geometric mean of the totals.
THEOREM LpAlwaysBacked == Spec => []LpBacked
  BY Inductive, PTL DEF IInv, SharesInv

\* The locked LP is nobody's.
THEOREM LiquidityStaysLocked == Spec => []LockedLiquidity
  BY Inductive, PTL DEF IInv, SharesInv

\* The program implements the share pool: the fees and the transfer fees, the
\* roundings and the config's changes are invisible at its level.
THEOREM PoolImplementsSharePool == Spec => ImplementsSharePool
<1>1. Init => Shares!Init
  BY InitSafe
<1>2. IInv /\ [Next]_vars => [Shares!Next]_Shares!vars
  BY NextSafe, StutterSafe
<1> QED
  BY <1>1, <1>2, Inductive, PTL DEF Spec, ImplementsSharePool, Shares!Spec

\* Collecting a fee never touches the liquidity.
THEOREM CollectingIsNeutral == Spec => CollectingLeavesTheCurve
<1>1. IInv /\ [Next]_vars =>
        [(\E t \in Tokens : FeesOwed(t)' < FeesOwed(t)) =>
           /\ \A t \in Tokens : Total(t)' = Total(t)
           /\ pool_state'.lp_supply = pool_state.lp_supply]_vars
  <2> SUFFICES ASSUME IInv, [Next]_vars, NEW t \in Tokens, FeesOwed(t)' < FeesOwed(t)
               PROVE  FeesTaken
    BY DEF FeesTaken
  <2>1. FeesKept \/ FeesTaken
    BY NextSafe, StutterSafe
  <2>2. FeesOwed(t) \in Nat /\ FeesOwed(t)' \in Nat
    BY PoolTypes, LedgerTypesNext, NextSafe, StutterSafe DEF IInv
  <2> QED
    BY <2>1, <2>2 DEF FeesKept
<1> QED
  BY <1>1, Inductive, PTL DEF Spec, CollectingLeavesTheCurve

\* No step of any share pool takes value from its shares.
LEMMA SharesKeepValue ==
  ASSUME IInv, TypeOK', Solvent', pool_state.initialized,
         Shares!Next \/ UNCHANGED Shares!vars
  PROVE  /\ Total(0) * Total(1) * pool_state'.lp_supply * pool_state'.lp_supply
              <= Total(0)' * Total(1)' * pool_state.lp_supply * pool_state.lp_supply
         /\ pool_state'.lp_supply # pool_state.lp_supply =>
              \A t \in Tokens :
                Total(t)' * pool_state.lp_supply >= Total(t) * pool_state'.lp_supply
<1> DEFINE x == Total(0)
           y == Total(1)
           S == pool_state.lp_supply
<1>0. 0 \in Tokens /\ 1 \in Tokens
  BY DEF Tokens
<1>1. x \in Nat /\ y \in Nat /\ S \in Nat \ {0}
  BY <1>0, TotalsPositive
<1>2. x' \in Nat /\ y' \in Nat /\ S' \in Nat
  BY <1>0, LedgerTypesNext
<1>3. ~Shares!Open
  BY DEF Shares!Open
<1>4. CASE Shares!Exchange
  <2>1. \A t \in Tokens : Total(t)' * S >= Total(t) * S'
    BY <1>4 DEF Shares!Exchange
  <2>2. x * y * S' * S' <= x' * y' * S * S
    BY <1>0, <1>1, <1>2, <2>1, ExchangeArithmetic
  <2> QED
    BY <2>1, <2>2
<1>5. CASE Shares!Trade \/ Shares!Forfeit \/ UNCHANGED Shares!vars
  <2>1. S' = S
    BY <1>5 DEF Shares!Trade, Shares!Forfeit, Shares!vars
  <2>2. x' * y' >= x * y
    <3>1. CASE Shares!Trade
      BY <1>0, <3>1 DEF Shares!Trade
    <3>2. CASE Shares!Forfeit \/ UNCHANGED Shares!vars
      <4>1. [t \in Tokens |-> Total(t)]' = [t \in Tokens |-> Total(t)]
        BY <3>2 DEF Shares!Forfeit, Shares!vars
      <4>2. x' = x /\ y' = y
        BY <1>0, <4>1
      <4> QED
        BY <1>1, <4>2
    <3> QED
      BY <1>5, <3>1, <3>2
  <2>3. x * y * S * S <= x' * y' * S * S
    <3> DEFINE m == x * y
               n == x' * y'
    <3>1. m \in Nat /\ n \in Nat /\ m <= n
      BY <1>1, <1>2, <2>2
    <3>2. m * S <= n * S /\ m * S \in Nat /\ n * S \in Nat
      BY <1>1, <3>1
    <3> QED
      BY <1>1, <3>2
  <2> QED
    BY <2>1, <2>3
<1> QED
  BY <1>3, <1>4, <1>5 DEF Shares!Next

\* A Trade, Exchange or Forfeit never lowers the value behind one LP.
LEMMA StepKeepsValue ==
  ASSUME IInv, [Next]_vars, pool_state.initialized
  PROVE  /\ Total(0) * Total(1) * pool_state'.lp_supply * pool_state'.lp_supply
              <= Total(0)' * Total(1)' * pool_state.lp_supply * pool_state.lp_supply
         /\ pool_state'.lp_supply # pool_state.lp_supply =>
              \A t \in Tokens :
                Total(t)' * pool_state.lp_supply >= Total(t) * pool_state'.lp_supply
<1>1. TypeOK' /\ Solvent' /\ (Shares!Next \/ UNCHANGED Shares!vars)
  BY NextSafe, StutterSafe
<1> QED
  BY <1>1, SharesKeepValue

\* No transaction, in any order and under any config, lowers the value behind
\* an LP token.
THEOREM ShareValueKept == Spec => ShareValueNeverFalls
<1>1. IInv /\ [Next]_vars =>
        [pool_state.initialized =>
           Total(0) * Total(1) * pool_state'.lp_supply * pool_state'.lp_supply
             <= Total(0)' * Total(1)' * pool_state.lp_supply * pool_state.lp_supply]_vars
  BY StepKeepsValue
<1> QED
  BY <1>1, Inductive, PTL DEF Spec, ShareValueNeverFalls

\* No deposit or withdrawal lowers what an LP token stands for in either token.
THEOREM NobodyDiluted == Spec => LiquidityStepsDiluteNobody
<1>1. IInv /\ [Next]_vars =>
        [pool_state.initialized /\ pool_state'.lp_supply # pool_state.lp_supply =>
           \A t \in Tokens :
             Total(t)' * pool_state.lp_supply >= Total(t) * pool_state'.lp_supply]_vars
  BY StepKeepsValue
<1> QED
  BY <1>1, Inductive, PTL DEF Spec, LiquidityStepsDiluteNobody

\* A withdrawal that is worth at least a unit of either token goes through: all
\* the checks of the handler but the caller's own limits hold.
LEMMA ExitGoesThrough ==
  ASSUME IInv, pool_state.initialized, get_status_by_bit(WithdrawBit),
         NEW lp \in 1..lp_mint_supply,
         \A t \in Tokens : lp * Total(t) >= pool_state.lp_supply
  PROVE  WithdrawOk(lp, Nothing)
<1> DEFINE S == pool_state.lp_supply
<1>1. TypeOK /\ Solvent
  BY DEF IInv
<1>2. S \in Nat \ {0} /\ lp_mint_supply < S /\ lp_mint_supply \in Nat
      /\ lp \in Nat \ {0} /\ lp <= S /\ lp <= lp_mint_supply
  BY <1>1, TotalsPositive, PoolTypes
<1>3. ASSUME NEW t \in Tokens
      PROVE  /\ WithdrawAmount(t, lp) \in 1..U64_MAX
             /\ AmountReceived(mint[t], WithdrawAmount(t, lp)) >= Nothing[t]
             /\ VaultPays(t, WithdrawAmount(t, lp))
  <2> DEFINE T == Total(t)
             a == lp_tokens_to_trading_tokens(lp, S, T, "Floor")
  <2>1. T \in Nat /\ T <= vault[t] /\ vault[t] \in Nat /\ vault[t] <= U64_MAX
        /\ mint[t] \in Mints(Nat) /\ U64_MAX \in Nat
    BY <1>1, TotalType, PoolTypes
  <2>2. a \in Nat /\ a <= T
    BY <1>2, <2>1, FloorCovered
  <2>3. a # 0
    <3>1. a = (lp * T) \div S /\ lp * T \in Nat
      BY <1>2, <2>1 DEF lp_tokens_to_trading_tokens
    <3>2. lp * T >= 1 * S
      BY <1>2
    <3>3. lp * T < (a + 1) * S
      <4> DEFINE product == lp * T
      <4>1. a = product \div S /\ product \in Nat
        BY <3>1
      <4> HIDE DEF product, a
      <4>2. product < (a + 1) * S
        BY <1>2, <4>1, DivFloor
      <4> QED
        BY <4>2 DEF product
    <3>4. lp * T < 1 * S \/ a # 0
      <4>1. a = 0 => (a + 1) * S = 1 * S
        BY <1>2
      <4> HIDE DEF a, T
      <4> QED
        BY <3>3, <4>1
    <3> HIDE DEF a, T
    <3> QED
      BY <1>2, <3>1, <3>2, <3>4
  <2>4. WithdrawAmount(t, lp) = a
    BY <2>1, <2>2 DEF WithdrawAmount, AtMost
  <2> HIDE DEF a
  <2>5. AmountReceived(mint[t], a) \in Nat
    BY <2>1, <2>2, TransferFeeBounded
  <2> QED
    BY <2>1, <2>2, <2>3, <2>4, <2>5 DEF Nothing, VaultPays
<1>4. VaultCoversFees
  BY <1>1 DEF Solvent, VaultCoversFees
<1> QED
  BY <1>2, <1>3, <1>4 DEF WithdrawOk

\* Nothing that happens to a pool keeps its LP holders in.
THEOREM HoldersCanAlwaysExit == Spec => []HoldersCanExit
<1>1. IInv => HoldersCanExit
  BY ExitGoesThrough DEF HoldersCanExit
<1> QED
  BY <1>1, Inductive, PTL

\* Every swap of every reachable pool finds a market that QuoteCheck is about: what
\* MarketsAssumption takes from a market, get_swap_params (pool.rs:263-316) delivers.
THEOREM PoolMarketsAdmitted ==
  Spec => [](pool_state.initialized =>
               \A input \in Tokens :
                 /\ MarketFor(input) \in Market(Nat, Mints(Nat))
                 /\ MarketFor(input).input_vault > 0
                 /\ BoundedRates(MarketFor(input).rates))
<1>1. IInv => (pool_state.initialized =>
                 \A input \in Tokens :
                   /\ MarketFor(input) \in Market(Nat, Mints(Nat))
                   /\ MarketFor(input).input_vault > 0
                   /\ BoundedRates(MarketFor(input).rates))
  BY MarketTradable DEF Tradable
<1> QED
  BY <1>1, Inductive, PTL

(* ------------------------ what decides about a swap -------------------- *)

\* The oracle's width: no price of the pool, charged for all the time there is,
\* exceeds the accumulator (2^64 * 2^32 * seconds before 2106 is below 2^128).
PricesFit == U64_MAX * Q32 * MAX_TIME <= U128_MAX

\* No price is too high for the oracle.
LEMMA OracleAccepts ==
  ASSUME IInv, pool_state.initialized, PricesFit
  PROVE  UpdateOk(observation_state, now, token_price_x32)
<1> DEFINE since == SinceLastUpdate(observation_state, now)
<1>1. since \in 0..MAX_TIME
  <2>1. observation_state \in ObservationStates(0..MAX_TIME) /\ now \in 0..MAX_TIME
        /\ MAX_TIME \in Nat
    BY PoolAssumption DEF IInv, TypeOK
  <2> QED
    BY <2>1, SincesType
<1> HIDE DEF since
<1>2. ASSUME NEW t \in Tokens
      PROVE  token_price_x32[t] * since <= U128_MAX
  <2> DEFINE price   == token_price_x32[t]
             product == Total(Other(t)) * Q32
             most    == U64_MAX * Q32
  <2>1. /\ Total(t) \in Nat \ {0} /\ Total(Other(t)) \in Nat /\ Total(Other(t)) <= U64_MAX
        /\ U64_MAX \in Nat /\ Q32 \in Nat /\ MAX_TIME \in Nat /\ U128_MAX \in Nat
    <3>1. Other(t) \in Tokens /\ TypeOK /\ Solvent
      BY DEF Other, Tokens, IInv
    <3> QED
      BY <3>1, TotalsPositive, TotalType, PoolTypes, PoolAssumption, ObservationAssumption
  <2>2. price = product \div Total(t)
    BY DEF token_price_x32
  <2>3. product \in Nat /\ product <= most /\ most \in Nat
    BY <2>1
  <2> HIDE DEF price, product
  <2>4. product <= most * Total(t)
    <3> HIDE DEF most
    <3> QED
      BY <2>1, <2>3
  <2>5. price \in Nat /\ price <= most
    <3> HIDE DEF most
    <3> QED
      BY <2>1, <2>2, <2>3, <2>4, DivFloor, DivAtMost
  <2>6. most * MAX_TIME <= U128_MAX
    BY DEF PricesFit
  <2> HIDE DEF most
  <2>7. price * since <= most * since /\ most * since <= most * MAX_TIME
    BY <1>1, <2>1, <2>3, <2>5
  <2>8. price * since \in Nat /\ most * since \in Nat /\ most * MAX_TIME \in Nat
    BY <1>1, <2>1, <2>3, <2>5
  <2> QED
    BY <2>1, <2>6, <2>7, <2>8 DEF price
<1> QED
  BY <1>2 DEF UpdateOk, since

\* A quote whose amounts are accounted for passes every check of the tail.
LEMMA TailPasses ==
  ASSUME IInv, pool_state.initialized, PricesFit, NEW input \in Tokens, NEW result,
         NEW transfer_in \in Nat,
         Accounted(result, Total(input), Total(Other(input)), is_creator_fee_on_input(input)),
         result.input_amount <= transfer_in,
         CanSend(input, transfer_in),
         ~pool_state.enable_creator_fee => result.creator_fee = 0
  PROVE  ApplySwapOk(input, result, transfer_in)
<1> DEFINE output == Other(input)
           on_input == is_creator_fee_on_input(input)
<1>1. TypeOK /\ Solvent /\ output \in Tokens /\ output # input
  BY DEF IInv, Other, Tokens
<1>2. /\ \A t \in Tokens : /\ vault[t] \in Nat /\ vault[t] <= U64_MAX
                           /\ pool_state.protocol_fees[t] \in Nat
                           /\ pool_state.fund_fees[t] \in Nat
                           /\ pool_state.creator_fees[t] \in Nat
                           /\ Total(t) \in Nat
                           /\ FeesOwed(t) = pool_state.protocol_fees[t]
                                + pool_state.fund_fees[t] + pool_state.creator_fees[t]
                           /\ vault[t] = Total(t) + FeesOwed(t)
      /\ U64_MAX \in Nat
  <2>1. \A t \in Tokens : Total(t) = vault[t] - FeesOwed(t)
    BY DEF Total
  <2>2. \A t \in Tokens : FeesOwed(t) = pool_state.protocol_fees[t]
                            + pool_state.fund_fees[t] + pool_state.creator_fees[t]
    BY DEF FeesOwed
  <2> QED
    BY <1>1, <2>1, <2>2, PoolTypes, TotalType
<1>3. /\ result.input_amount \in Nat
      /\ result.output_amount \in Nat
      /\ result.protocol_fee \in Nat
      /\ result.fund_fee \in Nat
      /\ result.creator_fee \in Nat
      /\ result.new_input_vault_amount \in Nat
      /\ result.new_output_vault_amount \in Nat
      /\ result.new_input_vault_amount >= Total(input)
      /\ on_input =>
           /\ result.new_input_vault_amount
                <= Total(input) + result.input_amount
                     - result.protocol_fee - result.fund_fee - result.creator_fee
           /\ result.new_output_vault_amount = Total(output) - result.output_amount
      /\ ~on_input =>
           /\ result.new_input_vault_amount
                <= Total(input) + result.input_amount - result.protocol_fee - result.fund_fee
           /\ result.new_output_vault_amount
                = Total(output) - result.output_amount - result.creator_fee
  BY DEF Accounted
<1>4. vault[input] + result.input_amount <= U64_MAX
  BY <1>2, <1>3 DEF CanSend
<1>5. /\ pool_state.protocol_fees[input] + result.protocol_fee <= U64_MAX
      /\ pool_state.fund_fees[input] + result.fund_fee <= U64_MAX
      /\ result.output_amount <= vault[output]
  <2>1. CASE on_input
    BY <1>1, <1>2, <1>3, <1>4, <2>1
  <2>2. CASE ~on_input
    BY <1>1, <1>2, <1>3, <1>4, <2>2
  <2> QED
    BY <2>1, <2>2
<1>6. pool_state.creator_fees[CreatorFeeToken(input)] + result.creator_fee <= U64_MAX
  <2>1. CASE on_input
    <3>1. CreatorFeeToken(input) = input
      BY <2>1 DEF CreatorFeeToken
    <3> QED
      BY <1>1, <1>2, <1>3, <1>4, <2>1, <3>1
  <2>2. CASE ~on_input
    <3>1. CreatorFeeToken(input) = output
      BY <2>2 DEF CreatorFeeToken
    <3> QED
      BY <1>1, <1>2, <1>3, <2>2, <3>1
  <2> QED
    BY <2>1, <2>2
<1>7. UpdateOk(observation_state, now, token_price_x32)
  BY OracleAccepts
<1> QED
  BY <1>5, <1>6, <1>7 DEF ApplySwapOk, FeesBookable, VaultPays

\* A pool that does not charge a creator fee asks the curve for none.
LEMMA UnchargedRate ==
  ASSUME ~pool_state.enable_creator_fee, NEW input \in Tokens
  PROVE  MarketFor(input).rates.creator_fee_rate = 0
  BY DEF MarketFor, adjust_creator_fee_rate

\* Nothing that happens to a pool makes its own books refuse a swap that its
\* curve accepts (swap_base_input.rs:119-211, swap_base_output.rs:58-152).
THEOREM CurveAlwaysDecides ==
  ASSUME PricesFit
  PROVE  Spec => []CurveDecides
<1>1. ASSUME IInv, SwapAllowed, NEW input \in Tokens, NEW amount \in Amounts
      PROVE  LET market      == MarketFor(input)
                 transfer_in == InputTransferAmount(market, amount)
             IN  /\ BaseInputOk(market, amount) /\ CanSend(input, amount)
                      => ApplySwapOk(input, BaseInputResult(market, amount), amount)
                 /\ BaseOutputOk(market, amount) /\ CanSend(input, transfer_in)
                      => ApplySwapOk(input, BaseOutputResult(market, amount), transfer_in)
  <2> DEFINE market      == MarketFor(input)
             transfer_in == InputTransferAmount(market, amount)
  <2>1. pool_state.initialized /\ amount \in Nat
    BY <1>1, U64Assumption DEF SwapAllowed, Amounts
  <2>2. Tradable(market)
    BY <1>1, <2>1, MarketTradable
  <2>3. ~pool_state.enable_creator_fee => market.rates.creator_fee_rate = 0
    BY UnchargedRate
  <2>4. ASSUME BaseInputOk(market, amount), CanSend(input, amount)
        PROVE  ApplySwapOk(input, BaseInputResult(market, amount), amount)
    <3> DEFINE result == BaseInputResult(market, amount)
    <3>1. ~pool_state.enable_creator_fee => result.creator_fee = 0
      BY <2>1, <2>2, <2>3, <2>4, NoCreatorFee
    <3>2. /\ Accounted(result, Total(input), Total(Other(input)),
                       is_creator_fee_on_input(input))
          /\ result.input_amount <= amount
      BY <1>1, <2>1, <2>4, BaseInputQuoted
    <3> HIDE DEF result, market
    <3> QED
      BY <1>1, <2>1, <2>4, <3>1, <3>2, TailPasses DEF result
  <2>5. ASSUME BaseOutputOk(market, amount), CanSend(input, transfer_in)
        PROVE  ApplySwapOk(input, BaseOutputResult(market, amount), transfer_in)
    <3> DEFINE result == BaseOutputResult(market, amount)
    <3>1. ~pool_state.enable_creator_fee => result.creator_fee = 0
      BY <2>1, <2>2, <2>3, <2>5, NoCreatorFee
    <3>2. /\ Accounted(result, Total(input), Total(Other(input)),
                       is_creator_fee_on_input(input))
          /\ transfer_in \in Nat
          /\ result.input_amount <= transfer_in
      BY <1>1, <2>1, <2>5, BaseOutputQuoted
    <3> HIDE DEF result, market, transfer_in
    <3> QED
      BY <1>1, <2>1, <2>5, <3>1, <3>2, TailPasses DEF result
  <2> QED
    BY <2>4, <2>5
<1>2. IInv => CurveDecides
  BY <1>1 DEF CurveDecides
<1> QED
  BY <1>2, Inductive, PTL

\* What a swap with the fee on the input needs and a config with both rates at 0
\* does not give it.
SplitsDefined ==
  \A input \in Tokens :
    SwapBaseInputDefined(MarketFor(input).rates, is_creator_fee_on_input(input))

\* Whatever happened to a pool that may be swapped, whoever doubles one side gets
\* half of the other.  The hypothesis is what the finding about a total fee rate of
\* 0 is about: without it the property fails, with it nothing else can go wrong.
THEOREM NormalPoolAlwaysSwaps == Spec => [](SplitsDefined => NormalPoolSwaps)
<1>1. ASSUME IInv, SplitsDefined, SwapAllowed, NEW input \in Tokens, NEW amount_in \in Amounts
      PROVE  LET market == MarketFor(input)
                 half   == market.output_vault \div 2
                 fee    == IF market.is_creator_fee_on_input
                           THEN 0
                           ELSE creator_fee(half, market.rates.creator_fee_rate)
                 least  == AmountReceived(market.output_mint, half - fee)
             IN  /\ CanSend(input, amount_in)
                 /\ AmountReceived(market.input_mint, amount_in)
                        * (FEE_RATE_DENOMINATOR_VALUE
                             - InputFeeRate(market.rates, market.is_creator_fee_on_input))
                      >= market.input_vault * FEE_RATE_DENOMINATOR_VALUE
                 /\ least > 0
                 => /\ BaseInputOk(market, amount_in)
                    /\ BaseInputReceived(market, amount_in) >= least
  <2> DEFINE market == MarketFor(input)
             half   == market.output_vault \div 2
             fee    == IF market.is_creator_fee_on_input
                       THEN 0
                       ELSE creator_fee(half, market.rates.creator_fee_rate)
             least  == AmountReceived(market.output_mint, half - fee)
  <2> SUFFICES ASSUME AmountReceived(market.input_mint, amount_in)
                          * (FEE_RATE_DENOMINATOR_VALUE
                               - InputFeeRate(market.rates, market.is_creator_fee_on_input))
                        >= market.input_vault * FEE_RATE_DENOMINATOR_VALUE,
                      least > 0
               PROVE  /\ BaseInputOk(market, amount_in)
                      /\ BaseInputReceived(market, amount_in) >= least
    OBVIOUS
  <2>1. pool_state.initialized /\ amount_in \in Nat
    BY <1>1, U64Assumption DEF SwapAllowed, Amounts
  <2>2. Tradable(market)
    BY <1>1, <2>1, MarketTradable
  <2>3. SwapBaseInputDefined(market.rates, market.is_creator_fee_on_input)
    BY <1>1, MarketFields DEF SplitsDefined
  <2> HIDE DEF market
  <2>4. half \in Nat /\ half - fee = Out(market, half)
    <3>1. market.output_vault \in Nat /\ market.is_creator_fee_on_input \in BOOLEAN
      BY <2>2, MarketTypes
    <3>2. half \in Nat
      BY <3>1
    <3> HIDE DEF half
    <3> QED
      BY <3>1, <3>2 DEF Out
  <2>5. /\ ActualAmountIn(market, amount_in) > 0
        /\ BaseInputReceived(market, amount_in) >= AmountReceived(market.output_mint,
                                                                  Out(market, half))
    BY <2>1, <2>2, DoublingBringsHalf DEF ActualAmountIn
  <2> HIDE DEF half, fee
  <2>6. BaseInputReceived(market, amount_in) >= least
    BY <2>4, <2>5
  <2>7. BaseInputReceived(market, amount_in) \in Nat /\ least \in Int
    <3>1. market.output_mint \in Mints(Nat) /\ Out(market, half) \in Nat
      BY <2>2, <2>4, MarketTypes, OutGrows
    <3>2. AmountReceived(market.output_mint, Out(market, half)) \in Nat
      BY <3>1, TransferFeeBounded
    <3>3. BaseInputReceived(market, amount_in) \in Nat
      BY <2>1, <2>2, BaseInputParts
    <3> QED
      BY <2>4, <3>2, <3>3
  <2> HIDE DEF least
  <2>8. BaseInputReceived(market, amount_in) > 0
    BY <2>6, <2>7
  <2>9. BaseInputOk(market, amount_in)
    BY <2>1, <2>2, <2>3, <2>5, <2>8, BaseInputAccepted
  <2> QED
    BY <2>6, <2>9
<1>2. IInv => (SplitsDefined => NormalPoolSwaps)
  BY <1>1 DEF NormalPoolSwaps
<1> QED
  BY <1>2, Inductive, PTL

(* -------------------- the quotes of reachable pools -------------------- *)

\* The vaults of a pool that was not created hold nothing.
VaultsStartEmpty == ~pool_state.initialized => vault = Nothing

LEMMA VaultsStartEmptyStep ==
  ASSUME IInv, VaultsStartEmpty, [Next]_vars
  PROVE  VaultsStartEmpty'
<1> USE DEF vars, configVars, registryVars, poolVars, chainVars
<1>1. pool_state \in PoolStates
  BY DEF IInv, TypeOK
<1>2. CASE CreateAPool
  <2>1. pool_state'.initialized
    BY <1>2 DEF CreateAPool, initialize, initialize_with_permission, CreatePool, NewPool
  <2> QED
    BY <2>1 DEF VaultsStartEmpty
<1>3. CASE Deposit \/ Withdraw
  <2>1. pool_state'.initialized
    BY <1>1, <1>3 DEF Deposit, Withdraw, deposit, withdraw, WithdrawOk, PoolStates
  <2> QED
    BY <2>1 DEF VaultsStartEmpty
<1>4. CASE SwapBaseInput \/ SwapBaseOutput
  <2>1. \E input, result, transfer_in : ApplySwap(input, result, transfer_in)
    BY <1>4 DEF SwapBaseInput, SwapBaseOutput, Swap_base_input, Swap_base_output
  <2>2. ASSUME NEW input, NEW result, NEW transfer_in, ApplySwap(input, result, transfer_in)
        PROVE  pool_state'.initialized = pool_state.initialized
    BY <1>1, <2>2 DEF ApplySwap, FeesBooked, PoolStates
  <2>3. pool_state.initialized
    BY <1>4 DEF SwapBaseInput, SwapBaseOutput, Swap_base_input, Swap_base_output, SwapAllowed
  <2>4. pool_state'.initialized
    BY <2>1, <2>2, <2>3
  <2> QED
    BY <2>4 DEF VaultsStartEmpty
<1>5. CASE CollectProtocolFee \/ CollectFundFee \/ CollectCreatorFee
  <2>1. pool_state'.initialized
    BY <1>1, <1>5 DEF CollectProtocolFee, CollectFundFee, CollectCreatorFee,
         collect_protocol_fee, collect_fund_fee, collect_creator_fee, PoolStates
  <2> QED
    BY <2>1 DEF VaultsStartEmpty
<1>6. CASE UpdatePoolStatus \/ DonateToVault
  <2>1. pool_state'.initialized
    BY <1>1, <1>6 DEF UpdatePoolStatus, update_pool_status, DonateToVault, Donate, PoolStates
  <2> QED
    BY <2>1 DEF VaultsStartEmpty
<1>7. CASE \/ UpdateConfig \/ UpdateRegistry \/ BurnLpTokens \/ ClockMoves \/ EpochBegins
           \/ UNCHANGED vars
  <2>1. pool_state' = pool_state /\ vault' = vault
    BY <1>7 DEF UpdateConfig, UpdateRegistry, BurnLpTokens, BurnLp, ClockMoves, EpochBegins
  <2> QED
    BY <2>1 DEF VaultsStartEmpty, Nothing
<1> QED
  BY <1>2, <1>3, <1>4, <1>5, <1>6, <1>7 DEF Next

\* Tokens go in on one side and out on the other in swaps only.
LEMMA OnlySwapsOppose ==
  ASSUME IInv, VaultsStartEmpty, [Next]_vars, NEW input \in Tokens,
         vault'[input] > vault[input], vault'[Other(input)] < vault[Other(input)]
  PROVE  SwapBaseInput \/ SwapBaseOutput
<1> USE DEF vars, configVars, registryVars, poolVars, chainVars
<1> DEFINE output == Other(input)
<1>1. output \in Tokens /\ output # input
  BY DEF Other, Tokens
<1>2. /\ \A t \in Tokens : vault[t] \in Nat /\ mint[t] \in Mints(Nat)
      /\ vault \in [Tokens -> Amounts]
  BY PoolTypes DEF IInv, TypeOK
<1>3. vault'[input] > vault[input] /\ vault'[output] < vault[output]
  OBVIOUS
<1>4. /\ pool_state.protocol_fees \in [Tokens -> Amounts]
      /\ pool_state.fund_fees \in [Tokens -> Amounts]
      /\ \A requested \in Pair(Limits) : requested \in [Tokens -> Amounts]
  BY PoolAssumption DEF IInv, TypeOK, PoolStates, Pair
<1> HIDE DEF output
<1>5. ~CreateAPool
  <2> SUFFICES ASSUME CreateAPool
               PROVE  FALSE
    OBVIOUS
  <2>1. ~pool_state.initialized
        /\ \E amounts \in Pair(InitAmounts) :
             vault' = [t \in Tokens |-> AmountReceived(mint[t], amounts[t])]
    BY DEF CreateAPool, initialize, initialize_with_permission, CreatePool
  <2>2. vault[output] = 0
    BY <1>1, <2>1 DEF VaultsStartEmpty, Nothing
  <2>3. PICK amounts \in Pair(InitAmounts) :
          vault' = [t \in Tokens |-> AmountReceived(mint[t], amounts[t])]
    BY <2>1
  <2>4. amounts[output] \in Nat
    <3>1. InitAmounts \subseteq Nat
      BY PoolAssumption, U64Assumption DEF Amounts
    <3> QED
      BY <1>1, <3>1 DEF Pair
  <2>5. AmountReceived(mint[output], amounts[output]) \in Nat
    BY <1>1, <1>2, <2>4, TransferFeeBounded
  <2> QED
    BY <1>1, <1>3, <2>2, <2>3, <2>5
<1>6. ~Deposit
  <2> SUFFICES ASSUME NEW lp \in LpAmounts, NEW maximum \in Pair(Limits), deposit(lp, maximum)
               PROVE  FALSE
    BY DEF Deposit
  <2>1. /\ DepositAmount(output, lp) \in Nat
        /\ vault'[output] = VaultAfterDeposit(output, DepositTransfer(output, lp))
    BY <1>1, U64Assumption DEF deposit
  <2>2. DepositTransfer(output, lp) \in Nat
    BY <1>1, <1>2, <2>1, InverseFeeType DEF DepositTransfer
  <2>3. AmountReceived(mint[output], DepositTransfer(output, lp)) \in Nat
    BY <1>1, <1>2, <2>2, TransferFeeBounded
  <2> QED
    BY <1>1, <1>2, <1>3, <2>1, <2>3 DEF VaultAfterDeposit
<1>7. ~Withdraw
  <2> SUFFICES ASSUME NEW lp \in LpAmounts, NEW minimum \in Pair(Limits), withdraw(lp, minimum)
               PROVE  FALSE
    BY DEF Withdraw
  <2>1. /\ WithdrawAmount(input, lp) \in Nat
        /\ vault'[input] = vault[input] - WithdrawAmount(input, lp)
    BY U64Assumption DEF withdraw, WithdrawOk
  <2> QED
    BY <1>2, <1>3, <2>1
<1>8. ~(CollectProtocolFee \/ CollectFundFee \/ CollectCreatorFee)
  <2> SUFFICES ASSUME CollectProtocolFee \/ CollectFundFee \/ CollectCreatorFee
               PROVE  FALSE
    OBVIOUS
  <2>1. CASE CollectProtocolFee
    <3>1. PICK requested \in Pair(Limits) : PayOut(Collected(pool_state.protocol_fees, requested))
      BY <2>1 DEF CollectProtocolFee, collect_protocol_fee
    <3>2. Collected(pool_state.protocol_fees, requested)[input] \in Nat
      BY <1>4, <3>1, CollectedType
    <3> QED
      BY <1>2, <1>3, <3>1, <3>2 DEF PayOut
  <2>2. CASE CollectFundFee
    <3>1. PICK requested \in Pair(Limits) : PayOut(Collected(pool_state.fund_fees, requested))
      BY <2>2 DEF CollectFundFee, collect_fund_fee
    <3>2. Collected(pool_state.fund_fees, requested)[input] \in Nat
      BY <1>4, <3>1, CollectedType
    <3> QED
      BY <1>2, <1>3, <3>1, <3>2 DEF PayOut
  <2>3. CASE CollectCreatorFee
    <3>1. PayOut(pool_state.creator_fees)
      BY <2>3 DEF CollectCreatorFee, collect_creator_fee
    <3>2. pool_state.creator_fees[input] \in Nat
      BY PoolTypes DEF IInv
    <3> QED
      BY <1>2, <1>3, <3>1, <3>2 DEF PayOut
  <2> QED
    BY <2>1, <2>2, <2>3
<1>9. ~DonateToVault
  <2> SUFFICES ASSUME NEW t \in Tokens, NEW amount \in Donations, Donate(t, amount)
               PROVE  FALSE
    BY DEF DonateToVault
  <2>1. amount \in Nat
    BY PoolAssumption, U64Assumption DEF Amounts
  <2>2. AmountReceived(mint[t], amount) \in Nat
    BY <1>2, <2>1, TransferFeeBounded
  <2>3. vault' = [vault EXCEPT ![t] = vault[t] + AmountReceived(mint[t], amount)]
    BY DEF Donate, VaultAfterDeposit
  <2> QED
    BY <1>1, <1>2, <1>3, <2>2, <2>3
<1>10. ~(\/ UpdatePoolStatus \/ UpdateConfig \/ UpdateRegistry \/ BurnLpTokens \/ ClockMoves
        \/ EpochBegins \/ UNCHANGED vars)
  <2> SUFFICES ASSUME \/ UpdatePoolStatus \/ UpdateConfig \/ UpdateRegistry \/ BurnLpTokens
                      \/ ClockMoves \/ EpochBegins \/ UNCHANGED vars
               PROVE  FALSE
    OBVIOUS
  <2>1. vault' = vault
    BY DEF UpdatePoolStatus, update_pool_status, UpdateConfig, UpdateRegistry, BurnLpTokens,
           BurnLp, ClockMoves, EpochBegins
  <2> QED
    BY <1>2, <1>3, <2>1
<1> QED
  BY <1>5, <1>6, <1>7, <1>8, <1>9, <1>10 DEF Next

\* Where a swap leaves the pool is what the quotes call the market after it.
LEMMA SwapLeavesMarket ==
  ASSUME IInv, NEW input \in Tokens, NEW result, NEW transfer_in,
         pool_state.initialized,
         ApplySwap(input, result, transfer_in), SwapApplied(input, result)
  PROVE  SwapLeaves(input, result)
<1> DEFINE output == Other(input)
           on_input == is_creator_fee_on_input(input)
           fee_in == IF on_input THEN result.creator_fee ELSE 0
           market == MarketFor(input)
           rates == market.rates
           after == MarketAfter(market, result)
<1>1. output \in Tokens /\ output # input /\ Other(output) = input
  BY DEF Other, Tokens
<1>2. /\ pool_state \in PoolStates
      /\ Total(input) \in Nat /\ Total(output) \in Nat
  BY <1>1, TotalsPositive DEF IInv, TypeOK
<1>3. /\ amm_config' = amm_config
      /\ mint' = mint
      /\ pool_state'.creator_fee_on = pool_state.creator_fee_on
      /\ pool_state'.enable_creator_fee = pool_state.enable_creator_fee
  BY <1>2 DEF ApplySwap, FeesBooked, PoolStates, configVars, chainVars
<1>4. \A t \in Tokens : is_creator_fee_on_input(t)' = is_creator_fee_on_input(t)
  BY <1>3 DEF is_creator_fee_on_input
<1>5. adjust_creator_fee_rate(amm_config.creator_fee_rate)'
        = adjust_creator_fee_rate(amm_config.creator_fee_rate)
  BY <1>3 DEF adjust_creator_fee_rate
<1>6. /\ result.input_amount \in Nat /\ result.output_amount \in Nat
      /\ result.protocol_fee \in Nat /\ result.fund_fee \in Nat /\ result.creator_fee \in Nat
  BY DEF SwapApplied
<1> DEFINE x1 == Total(input) + result.input_amount
                   - result.protocol_fee - result.fund_fee - fee_in
           y1 == Total(output) - result.output_amount - (result.creator_fee - fee_in)
<1>7. Total(input)' = x1 /\ Total(output)' = y1
  <2>1. CASE on_input
    <3>1. CreatorFeeToken(input) = input
      BY <2>1 DEF CreatorFeeToken
    <3> QED
      BY <1>1, <1>2, <1>6, <2>1, <3>1 DEF SwapApplied
  <2>2. CASE ~on_input
    <3>1. CreatorFeeToken(input) = output
      BY <2>2 DEF CreatorFeeToken
    <3> QED
      BY <1>1, <1>2, <1>6, <2>2, <3>1 DEF SwapApplied
  <2> QED
    BY <2>1, <2>2
<1>8. \A t \in Tokens : MarketFor(t)' = [input_vault |-> Total(t)',
                                         output_vault |-> Total(Other(t))',
                                         rates |-> rates,
                                         is_creator_fee_on_input |-> is_creator_fee_on_input(t),
                                         input_mint |-> mint[t],
                                         output_mint |-> mint[Other(t)]]
  BY <1>3, <1>4, <1>5 DEF MarketFor
<1>9. market = [input_vault |-> Total(input),
                output_vault |-> Total(output),
                rates |-> rates,
                is_creator_fee_on_input |-> on_input,
                input_mint |-> mint[input],
                output_mint |-> mint[output]]
  BY DEF MarketFor
<1>10. after = [market EXCEPT !.input_vault = x1, !.output_vault = y1]
  BY MarketFields DEF MarketAfter
<1> HIDE DEF after, x1, y1, market, rates
<1>11. after = [input_vault |-> x1,
                output_vault |-> y1,
                rates |-> rates,
                is_creator_fee_on_input |-> on_input,
                input_mint |-> mint[input],
                output_mint |-> mint[output]]
  BY <1>9, <1>10
<1>12. MarketFor(input)' = after
  BY <1>7, <1>8, <1>11
<1>13. MarketFor(output)' = Reversed(after, is_creator_fee_on_input(output))
  <2>1. MarketFor(output)' = [input_vault |-> Total(output)',
                              output_vault |-> Total(input)',
                              rates |-> rates,
                              is_creator_fee_on_input |-> is_creator_fee_on_input(output),
                              input_mint |-> mint[output],
                              output_mint |-> mint[input]]
    BY <1>1, <1>8
  <2> QED
    BY <1>7, <1>11, <2>1 DEF Reversed
<1> QED
  BY <1>4, <1>12, <1>13, <1>1 DEF SwapLeaves, after, market

\* The direction of a swap is the direction its tokens move in.
LEMMA SwapDirection ==
  ASSUME IInv, NEW input \in Tokens, NEW token \in Tokens, NEW result,
         SwapApplied(token, result), vault'[Other(input)] < vault[Other(input)]
  PROVE  token = input
<1>1. vault'[token] = vault[token] + result.input_amount /\ result.input_amount \in Nat
  BY DEF SwapApplied
<1>2. vault[token] \in Nat
  BY PoolTypes DEF IInv
<1>3. token # Other(input)
  BY <1>1, <1>2
<1> QED
  BY <1>3 DEF Other, Tokens

\* Whatever a swap moves, fees and transfer fees included, is what one of the two
\* quotes says for an amount a caller named: the pool finds itself at the market
\* after that quote, seen from either side (update_fees, pool.rs:352-377, books
\* exactly what the curve took off).
THEOREM SwapsAlwaysFollowTheQuotes == Spec => SwapsFollowTheQuotes
<1>1. Init => IInv /\ VaultsStartEmpty
  BY InitSafe DEF Init, VaultsStartEmpty
<1>2. IInv /\ VaultsStartEmpty /\ [Next]_vars => (IInv /\ VaultsStartEmpty)'
  <2> SUFFICES ASSUME IInv, VaultsStartEmpty, [Next]_vars
               PROVE  (IInv /\ VaultsStartEmpty)'
    OBVIOUS
  <2>1. IInv'
    <3>1. /\ TypeOK' /\ Config!RatesBounded' /\ Uncreated' /\ Solvent'
          /\ Shares!Next \/ UNCHANGED Shares!vars
      BY NextSafe, StutterSafe
    <3>2. SharesInv'
      BY <3>1, SharesPreserved DEF IInv
    <3> QED
      BY <3>1, <3>2 DEF IInv
  <2> QED
    BY <2>1, VaultsStartEmptyStep
<1>3. ASSUME IInv, VaultsStartEmpty, [Next]_vars, NEW input \in Tokens,
             vault'[input] > vault[input], vault'[Other(input)] < vault[Other(input)]
      PROVE  \E amount \in SwapAmounts :
               \/ /\ BaseInputOk(MarketFor(input), amount)
                  /\ SwapLeaves(input, BaseInputResult(MarketFor(input), amount))
               \/ /\ BaseOutputOk(MarketFor(input), amount)
                  /\ SwapLeaves(input, BaseOutputResult(MarketFor(input), amount))
  <2>1. SwapBaseInput \/ SwapBaseOutput
    BY <1>3, OnlySwapsOppose
  <2>2. CASE SwapBaseInput
    <3>1. PICK token \in Tokens, amount \in SwapAmounts, minimum \in Limits :
            Swap_base_input(token, amount, minimum)
      BY <2>2 DEF SwapBaseInput
    <3> DEFINE result == BaseInputResult(MarketFor(token), amount)
    <3>2. amount \in Amounts
      BY PoolAssumption
    <3>3. SwapApplied(token, result)
      BY <1>3, <3>1, <3>2, SwapBaseInputSafe
    <3>4. /\ pool_state.initialized
          /\ BaseInputOk(MarketFor(token), amount)
          /\ ApplySwap(token, result, amount)
      BY <3>1 DEF Swap_base_input, SwapAllowed
    <3> HIDE DEF result
    <3>5. token = input
      BY <1>3, <3>3, SwapDirection
    <3>6. SwapLeaves(token, result)
      BY <1>3, <3>3, <3>4, SwapLeavesMarket
    <3> QED
      BY <3>4, <3>5, <3>6 DEF result
  <2>3. CASE SwapBaseOutput
    <3>1. PICK token \in Tokens, maximum \in Limits, amount \in SwapAmounts :
            Swap_base_output(token, maximum, amount)
      BY <2>3 DEF SwapBaseOutput
    <3> DEFINE result == BaseOutputResult(MarketFor(token), amount)
               transfer_in == InputTransferAmount(MarketFor(token), amount)
    <3>2. amount \in Amounts
      BY PoolAssumption
    <3>3. SwapApplied(token, result)
      BY <1>3, <3>1, <3>2, SwapBaseOutputSafe
    <3>4. /\ pool_state.initialized
          /\ BaseOutputOk(MarketFor(token), amount)
          /\ ApplySwap(token, result, transfer_in)
      BY <3>1 DEF Swap_base_output, SwapAllowed
    <3> HIDE DEF result, transfer_in
    <3>5. token = input
      BY <1>3, <3>3, SwapDirection
    <3>6. SwapLeaves(token, result)
      BY <1>3, <3>3, <3>4, SwapLeavesMarket
    <3> QED
      BY <3>4, <3>5, <3>6 DEF result
  <2> QED
    BY <2>1, <2>2, <2>3
<1>4. IInv /\ VaultsStartEmpty /\ [Next]_vars =>
        [\A input \in Tokens :
           vault'[input] > vault[input] /\ vault'[Other(input)] < vault[Other(input)] =>
             \E amount \in SwapAmounts :
               \/ /\ BaseInputOk(MarketFor(input), amount)
                  /\ SwapLeaves(input, BaseInputResult(MarketFor(input), amount))
               \/ /\ BaseOutputOk(MarketFor(input), amount)
                  /\ SwapLeaves(input, BaseOutputResult(MarketFor(input), amount))]_vars
  BY <1>3
<1> QED
  BY <1>1, <1>2, <1>4, PTL DEF Spec, SwapsFollowTheQuotes

\* What the quotes promise a caller in every pool that exists, whatever happened to
\* it: swap_base_output names the least amount that brings what is asked, a swap in
\* two parts brings no more than one, paying more brings no less, and swapping back
\* brings no more than was sent.
QuotesFair ==
  \A input \in Tokens, a \in Nat, b \in Nat :
    LET market == MarketFor(input)
    IN  /\ BaseOutputOk(market, a) =>
             /\ ReceivedFrom(market, InputTransferAmount(market, a)) >= a
             /\ ReceivedFrom(market, InputTransferAmount(market, a) - 1) < a
        /\ BaseInputOk(market, a) =>
             BaseInputReceived(market, a)
               + ReceivedFrom(MarketAfter(market, BaseInputResult(market, a)), b)
               <= ReceivedFrom(market, a + b)
        /\ a <= b => ReceivedFrom(market, a) <= ReceivedFrom(market, b)
        /\ BaseInputOk(market, a) =>
             ReceivedFrom(Reversed(MarketAfter(market, BaseInputResult(market, a)),
                                   is_creator_fee_on_input(Other(input))),
                          BaseInputReceived(market, a)) <= a

\* Every open pool quotes fairly.  With SwapsAlwaysFollowTheQuotes this is about
\* the swaps themselves: the next of two swaps is quoted in the market named here.
THEOREM EveryPoolQuotesFairly == Spec => [](pool_state.initialized => QuotesFair)
<1>1. ASSUME IInv, pool_state.initialized, NEW input \in Tokens, NEW a \in Nat, NEW b \in Nat
      PROVE  LET market == MarketFor(input)
             IN  /\ BaseOutputOk(market, a) =>
                      /\ ReceivedFrom(market, InputTransferAmount(market, a)) >= a
                      /\ ReceivedFrom(market, InputTransferAmount(market, a) - 1) < a
                 /\ BaseInputOk(market, a) =>
                      BaseInputReceived(market, a)
                        + ReceivedFrom(MarketAfter(market, BaseInputResult(market, a)), b)
                        <= ReceivedFrom(market, a + b)
                 /\ a <= b => ReceivedFrom(market, a) <= ReceivedFrom(market, b)
                 /\ BaseInputOk(market, a) =>
                      ReceivedFrom(Reversed(MarketAfter(market, BaseInputResult(market, a)),
                                            is_creator_fee_on_input(Other(input))),
                                   BaseInputReceived(market, a)) <= a
  <2> DEFINE market == MarketFor(input)
             back   == is_creator_fee_on_input(Other(input))
  <2>1. Tradable(market)
    BY <1>1, MarketTradable
  <2>2. back \in BOOLEAN
    BY MarketFields
  <2> HIDE DEF market, back
  <2>3. BaseOutputOk(market, a) =>
          /\ ReceivedFrom(market, InputTransferAmount(market, a)) >= a
          /\ ReceivedFrom(market, InputTransferAmount(market, a) - 1) < a
    BY <1>1, <2>1, QuoteIsCheapest
  <2>4. BaseInputOk(market, a) =>
          BaseInputReceived(market, a)
            + ReceivedFrom(MarketAfter(market, BaseInputResult(market, a)), b)
            <= ReceivedFrom(market, a + b)
    BY <1>1, <2>1, SplittingBringsNoMore
  <2>5. a <= b => ReceivedFrom(market, a) <= ReceivedFrom(market, b)
    BY <1>1, <2>1, ReceivedFromGrows
  <2>6. BaseInputOk(market, a) =>
          ReceivedFrom(Reversed(MarketAfter(market, BaseInputResult(market, a)), back),
                       BaseInputReceived(market, a)) <= a
    BY <1>1, <2>1, <2>2, RoundTripBringsNoMore
  <2> QED
    BY <2>3, <2>4, <2>5, <2>6 DEF market, back
<1>2. IInv => (pool_state.initialized => QuotesFair)
  BY <1>1 DEF QuotesFair
<1> QED
  BY <1>2, Inductive, PTL

(* ------------------------------- the oracle ---------------------------- *)

\* Only swaps write the observation account: creating a pool finds it zeroed.
LEMMA OracleStep ==
  ASSUME IInv, [Next]_vars
  PROVE  \/ observation_state' = observation_state
         \/ /\ pool_state.initialized
            /\ UpdateOk(observation_state, now, token_price_x32)
            /\ observation_state' = update(observation_state, now, token_price_x32)
<1> USE DEF vars, configVars, registryVars, poolVars, chainVars
<1>1. CASE CreateAPool
  <2>1. ~pool_state.initialized /\ observation_state' = ZeroedObservation
    BY <1>1 DEF CreateAPool, initialize, initialize_with_permission, CreatePool
  <2> QED
    BY <2>1 DEF IInv, Uncreated
<1>2. CASE Deposit \/ Withdraw
  BY <1>2 DEF Deposit, Withdraw, deposit, withdraw
<1>3. CASE SwapBaseInput \/ SwapBaseOutput
  BY <1>3 DEF SwapBaseInput, SwapBaseOutput, Swap_base_input, Swap_base_output, SwapAllowed,
              ApplySwap, ApplySwapOk
<1>4. CASE CollectProtocolFee \/ CollectFundFee \/ CollectCreatorFee
  BY <1>4 DEF CollectProtocolFee, CollectFundFee, CollectCreatorFee, collect_protocol_fee,
              collect_fund_fee, collect_creator_fee
<1>5. CASE UpdatePoolStatus \/ UpdateConfig \/ UpdateRegistry
  BY <1>5 DEF UpdatePoolStatus, update_pool_status, UpdateConfig, UpdateRegistry
<1>6. CASE DonateToVault \/ BurnLpTokens \/ ClockMoves \/ EpochBegins \/ UNCHANGED vars
  BY <1>6 DEF DonateToVault, Donate, BurnLpTokens, BurnLp, ClockMoves, EpochBegins
<1> QED
  BY <1>1, <1>2, <1>3, <1>4, <1>5, <1>6 DEF Next

\* The market's price is a pair of natural numbers whatever the pool's state.
LEMMA MarketPriceType ==
  ASSUME IInv
  PROVE  MarketPrice \in [Tokens -> Nat]
<1>1. CASE PriceDefined
  <2>1. token_price_x32 \in [Tokens -> Nat]
    <3> SUFFICES ASSUME NEW t \in Tokens
                 PROVE  (Total(Other(t)) * Q32) \div Total(t) \in Nat
      BY DEF token_price_x32
    <3>1. Other(t) \in Tokens
      BY DEF Other, Tokens
    <3>2. Total(t) \in Nat \ {0} /\ Total(Other(t)) \in Nat
      BY <1>1, <3>1, TotalType DEF IInv, PriceDefined
    <3>3. Total(Other(t)) * Q32 \in Nat
      BY <3>2, PoolAssumption
    <3> QED
      BY <3>2, <3>3, DivFloor
  <2> QED
    BY <1>1, <2>1 DEF MarketPrice
<1>2. CASE ~PriceDefined
  BY <1>2 DEF MarketPrice, Nothing
<1> QED
  BY <1>1, <1>2

\* An update at the market's price, in the pool, is a step of the abstract integral.
LEMMA OracleUpdateImplements ==
  ASSUME IInv, pool_state.initialized, NEW price \in [Tokens -> Nat],
         price = MarketPrice, MarketPrice' \in [Tokens -> Nat],
         UpdateOk(observation_state, now, price),
         observation_state' = update(observation_state, now, price)
  PROVE  [Integral!Next]_Integral!vars
<1> DEFINE state == observation_state
           new == update(state, now, price)
<1>1. price \in [Tokens -> Nat] /\ MAX_TIME \in Nat /\ U128_MAX \in Nat
  BY PoolAssumption, ObservationAssumption
<1>2. state \in ObservationStates(0..MAX_TIME) /\ now \in 1..MAX_TIME /\ now \in 0..MAX_TIME
      /\ state.initialized \in BOOLEAN
  BY PoolAssumption DEF IInv, TypeOK, ObservationStates
<1>3. observation_state' = new
  OBVIOUS
<1>7. MarketPrice' \in Integral!PricePairs
  BY DEF Integral!PricePairs, Integral!Tokens, Tokens
<1>4. CASE ~state.initialized
  <2>0. /\ new.initialized = TRUE
        /\ LastUpdate(new) = now
        /\ LastObservation(new).cumulative_token_price_x32 = NothingAccumulated
    BY <1>1, <1>2, <1>4, FirstUpdateStarts
  <2>1. /\ observation_state'.initialized = TRUE
        /\ LastUpdate(observation_state') = now
        /\ LastObservation(observation_state').cumulative_token_price_x32 = NothingAccumulated
    BY <1>3, <2>0
  <2>2. Integral!Start
    BY <1>2, <1>4, <1>7, <2>1 DEF Integral!Start, Integral!Tokens, Tokens, NothingAccumulated
  <2> QED
    BY <2>2 DEF Integral!Next
<1>5. CASE state.initialized /\ SameSecond(state, now)
  <2>1. /\ new.initialized = state.initialized
        /\ LastUpdate(new) = LastUpdate(state)
        /\ LastObservation(new) = LastObservation(state)
    BY <1>1, <1>2, <1>5, SameSecondStutters
  <2> HIDE DEF new
  <2> QED
    BY <1>3, <1>7, <2>1 DEF Integral!Next, Integral!PriceMoves
<1>6. CASE state.initialized /\ ~SameSecond(state, now)
  <2>0. /\ new.initialized = state.initialized
        /\ LastUpdate(new) = now
        /\ LastObservation(new).cumulative_token_price_x32 = Accumulated(state, now, price)
    BY <1>1, <1>2, <1>6, UpdateAdvances
  <2>1. /\ observation_state'.initialized = state.initialized
        /\ LastUpdate(observation_state') = now
        /\ LastObservation(observation_state').cumulative_token_price_x32
             = Accumulated(state, now, price)
    BY <1>3, <2>0
  <2>2. LastUpdate(state) \in 0..MAX_TIME /\ LastUpdate(state) < now
        /\ SinceLastUpdate(state, now) = now - LastUpdate(state)
    BY <1>1, <1>2, <1>6, SincesType DEF SameSecond, SinceLastUpdate, SaturatingSub
  <2>3. price \in [Tokens -> 0..U128_MAX]
    <3> SUFFICES ASSUME NEW t \in Tokens PROVE price[t] \in 0..U128_MAX
      BY <1>1
    <3> DEFINE since == SinceLastUpdate(state, now)
    <3>1. price[t] * since <= U128_MAX /\ since \in Nat \ {0} /\ price[t] \in Nat
      BY <1>1, <1>2, <1>6, <2>2 DEF UpdateOk
    <3> HIDE DEF since
    <3>2. price[t] <= price[t] * since
      BY <3>1
    <3> QED
      BY <1>1, <3>1, <3>2
  <2>4. Integral!Advance
    BY <1>1, <1>2, <1>6, <1>7, <2>1, <2>2, <2>3
       DEF Integral!Advance, Integral!Tokens, Tokens, Accumulated, wrapping_add
  <2> QED
    BY <2>4 DEF Integral!Next
<1> QED
  BY <1>2, <1>4, <1>5, <1>6

\* The pool's observation account is the integral of the prices its swaps
\* brought: no deposit, donation or config change between them disturbs it.
THEOREM PoolImplementsPriceIntegral == Spec => OracleImplementsPriceIntegral
<1>1. Init => Integral!Init
  <2> SUFFICES ASSUME Init PROVE Integral!Init
    OBVIOUS
  <2>1. MarketPrice \in Integral!PricePairs
    BY InitSafe, MarketPriceType DEF Integral!PricePairs, Integral!Tokens, Tokens
  <2> QED
    BY <2>1, ObservationAssumption, PoolAssumption
       DEF Init, Integral!Init, Integral!Tokens, Tokens, ZeroedObservation, LastUpdate,
           LastObservation, Slots
<1>2. IInv => MarketPrice \in [Tokens -> Nat]
  BY MarketPriceType
<1>3. IInv /\ (MarketPrice \in [Tokens -> Nat])' /\ [Next]_vars
        => [Integral!Next]_Integral!vars
  <2> SUFFICES ASSUME IInv, MarketPrice' \in [Tokens -> Nat], [Next]_vars
               PROVE  [Integral!Next]_Integral!vars
    BY DEF Tokens
  <2>1. CASE observation_state' = observation_state
    <3>1. MarketPrice' \in Integral!PricePairs
      BY DEF Integral!PricePairs, Integral!Tokens, Tokens
    <3> QED
      BY <2>1, <3>1 DEF Integral!Next, Integral!PriceMoves, LastUpdate, LastObservation
  <2>2. CASE /\ pool_state.initialized
             /\ UpdateOk(observation_state, now, token_price_x32)
             /\ observation_state' = update(observation_state, now, token_price_x32)
    <3>1. token_price_x32 \in [Tokens -> Nat] /\ PriceDefined
      BY <2>2, PriceType, TotalsPositive DEF PriceDefined
    <3>2. PICK price \in [Tokens -> Nat] : price = token_price_x32
      BY <3>1
    <3>3. price = MarketPrice
      BY <3>1, <3>2 DEF MarketPrice
    <3> QED
      BY <2>2, <3>2, <3>3, OracleUpdateImplements
  <2> QED
    BY <2>1, <2>2, OracleStep
<1> QED
  BY <1>1, <1>2, <1>3, Inductive, PTL
     DEF Spec, OracleImplementsPriceIntegral, Integral!Spec

(* ------------------------ the modes of a pool ------------------------ *)

\* What a step may do to the pool account, established once for each kind of step:
\* the status the admin switches and the token that the creator's fee is taken in.

(* ------------------------------ the status ----------------------------- *)

\* Of all instructions only deposit and withdraw move lp_supply, and each asks
\* for its bit of the status (deposit.rs:87-95, withdraw.rs:99-107).
LEMMA LpSupplyStep ==
  ASSUME IInv, pool_state.initialized, [Next]_vars
  PROVE  \/ pool_state'.lp_supply = pool_state.lp_supply
         \/ get_status_by_bit(DepositBit) /\ pool_state'.lp_supply >= pool_state.lp_supply
         \/ get_status_by_bit(WithdrawBit) /\ pool_state'.lp_supply <= pool_state.lp_supply
<1> USE DEF vars, configVars, registryVars, poolVars, chainVars
<1>1. pool_state \in PoolStates /\ pool_state.lp_supply \in Nat
  BY U64Assumption DEF IInv, TypeOK, PoolStates, Amounts
<1>2. CASE CreateAPool
  BY <1>2 DEF CreateAPool, initialize, initialize_with_permission, CreatePool
<1>3. CASE Deposit
  <2>1. PICK lp \in LpAmounts, maximum \in Pair(Limits) : deposit(lp, maximum)
    BY <1>3 DEF Deposit
  <2>2. lp \in Nat
    BY PoolAssumption, U64Assumption DEF Amounts
  <2>3. pool_state' = [pool_state EXCEPT !.lp_supply = @ + lp, !.recent_epoch = epoch]
        /\ get_status_by_bit(DepositBit)
    BY <2>1 DEF deposit
  <2>4. pool_state'.lp_supply = pool_state.lp_supply + lp
    BY <1>1, <2>3 DEF PoolStates
  <2> QED
    BY <1>1, <2>2, <2>3, <2>4
<1>4. CASE Withdraw
  <2>1. PICK lp \in LpAmounts, minimum \in Pair(Limits) : withdraw(lp, minimum)
    BY <1>4 DEF Withdraw
  <2>2. lp \in Nat
    BY PoolAssumption, U64Assumption DEF Amounts
  <2>3. pool_state' = [pool_state EXCEPT !.lp_supply = @ - lp, !.recent_epoch = epoch]
        /\ get_status_by_bit(WithdrawBit)
    BY <2>1 DEF withdraw, WithdrawOk
  <2>4. pool_state'.lp_supply = pool_state.lp_supply - lp
    BY <1>1, <2>3 DEF PoolStates
  <2> QED
    BY <1>1, <2>2, <2>3, <2>4
<1>5. CASE SwapBaseInput \/ SwapBaseOutput
  <2>1. \E input \in Tokens : \E result : pool_state' = FeesBooked(input, result)
    BY <1>5 DEF SwapBaseInput, SwapBaseOutput, Swap_base_input, Swap_base_output, ApplySwap
  <2> QED
    BY <1>1, <2>1 DEF FeesBooked, PoolStates
<1>6. CASE CollectProtocolFee \/ CollectFundFee \/ CollectCreatorFee
  BY <1>1, <1>6 DEF CollectProtocolFee, CollectFundFee, CollectCreatorFee, collect_protocol_fee,
                    collect_fund_fee, collect_creator_fee, PoolStates
<1>7. CASE UpdatePoolStatus \/ UpdateConfig \/ UpdateRegistry
  BY <1>1, <1>7 DEF UpdatePoolStatus, update_pool_status, UpdateConfig, UpdateRegistry, PoolStates
<1>8. CASE DonateToVault \/ BurnLpTokens \/ ClockMoves \/ EpochBegins \/ UNCHANGED vars
  BY <1>8 DEF DonateToVault, Donate, BurnLpTokens, BurnLp, ClockMoves, EpochBegins
<1> QED
  BY <1>2, <1>3, <1>4, <1>5, <1>6, <1>7, <1>8 DEF Next

\* A step that keeps the six counters, or lowers some, lowers what is owed.
LEMMA FeesOwedLess ==
  ASSUME TypeOK,
         \A t \in Tokens : /\ pool_state'.protocol_fees[t] <= pool_state.protocol_fees[t]
                           /\ pool_state'.fund_fees[t] <= pool_state.fund_fees[t]
                           /\ pool_state'.creator_fees[t] <= pool_state.creator_fees[t],
         \A t \in Tokens : /\ pool_state'.protocol_fees[t] \in Nat
                           /\ pool_state'.fund_fees[t] \in Nat
                           /\ pool_state'.creator_fees[t] \in Nat
  PROVE  \A t \in Tokens : FeesOwed(t)' <= FeesOwed(t)
<1> SUFFICES ASSUME NEW t \in Tokens PROVE FeesOwed(t)' <= FeesOwed(t)
  OBVIOUS
<1>1. /\ pool_state.protocol_fees[t] \in Nat
      /\ pool_state.fund_fees[t] \in Nat
      /\ pool_state.creator_fees[t] \in Nat
  BY U64Assumption DEF TypeOK, PoolStates, Amounts
<1> QED
  BY <1>1 DEF FeesOwed

\* Only a swap raises the fees owed, and it asks for its bit of the status
\* (swap_base_input.rs:76-80).
LEMMA FeesOwedStep ==
  ASSUME IInv, IInv', pool_state.initialized, [Next]_vars
  PROVE  get_status_by_bit(SwapBit) \/ \A t \in Tokens : FeesOwed(t)' <= FeesOwed(t)
<1> USE DEF vars, configVars, registryVars, poolVars, chainVars
<1>1. TypeOK /\ pool_state \in PoolStates
  BY DEF IInv, TypeOK
<1>2. \A t \in Tokens : /\ pool_state.protocol_fees[t] \in Nat
                        /\ pool_state.fund_fees[t] \in Nat
                        /\ pool_state.creator_fees[t] \in Nat
  BY <1>1, U64Assumption DEF PoolStates, Amounts
<1>3. \A t \in Tokens : /\ pool_state'.protocol_fees[t] \in Nat
                        /\ pool_state'.fund_fees[t] \in Nat
                        /\ pool_state'.creator_fees[t] \in Nat
  <2>1. pool_state' \in PoolStates
    BY DEF IInv, TypeOK
  <2> QED
    BY <2>1, U64Assumption DEF PoolStates, Amounts
<1>4. CASE SwapBaseInput \/ SwapBaseOutput
  BY <1>4 DEF SwapBaseInput, SwapBaseOutput, Swap_base_input, Swap_base_output, SwapAllowed
<1>5. CASE CollectProtocolFee
  <2>1. PICK owner \in Keys, requested \in Pair(Limits) : collect_protocol_fee(owner, requested)
    BY <1>5 DEF CollectProtocolFee
  <2> DEFINE amounts == Collected(pool_state.protocol_fees, requested)
  <2>2. pool_state' = [pool_state EXCEPT !.protocol_fees = Less(@, amounts),
                                         !.recent_epoch = epoch]
    BY <2>1 DEF collect_protocol_fee
  <2>3. \A t \in Tokens : amounts[t] \in Nat
    <3>1. requested \in [Tokens -> Amounts] /\ pool_state.protocol_fees \in [Tokens -> Amounts]
      BY <1>1, PoolAssumption DEF Pair, PoolStates
    <3> QED
      BY <3>1, CollectedType
  <2> HIDE DEF amounts
  <2>4. /\ pool_state'.protocol_fees = [t \in Tokens |-> pool_state.protocol_fees[t] - amounts[t]]
        /\ pool_state'.fund_fees = pool_state.fund_fees
        /\ pool_state'.creator_fees = pool_state.creator_fees
    BY <1>1, <2>2 DEF PoolStates, Less
  <2>5. \A t \in Tokens : pool_state'.protocol_fees[t] <= pool_state.protocol_fees[t]
    BY <1>2, <2>3, <2>4
  <2> QED
    BY <1>1, <1>2, <1>3, <2>4, <2>5, FeesOwedLess
<1>6. CASE CollectFundFee
  <2>1. PICK owner \in Keys, requested \in Pair(Limits) : collect_fund_fee(owner, requested)
    BY <1>6 DEF CollectFundFee
  <2> DEFINE amounts == Collected(pool_state.fund_fees, requested)
  <2>2. pool_state' = [pool_state EXCEPT !.fund_fees = Less(@, amounts),
                                         !.recent_epoch = epoch]
    BY <2>1 DEF collect_fund_fee
  <2>3. \A t \in Tokens : amounts[t] \in Nat
    <3>1. requested \in [Tokens -> Amounts] /\ pool_state.fund_fees \in [Tokens -> Amounts]
      BY <1>1, PoolAssumption DEF Pair, PoolStates
    <3> QED
      BY <3>1, CollectedType
  <2> HIDE DEF amounts
  <2>4. /\ pool_state'.fund_fees = [t \in Tokens |-> pool_state.fund_fees[t] - amounts[t]]
        /\ pool_state'.protocol_fees = pool_state.protocol_fees
        /\ pool_state'.creator_fees = pool_state.creator_fees
    BY <1>1, <2>2 DEF PoolStates, Less
  <2>5. \A t \in Tokens : pool_state'.fund_fees[t] <= pool_state.fund_fees[t]
    BY <1>2, <2>3, <2>4
  <2> QED
    BY <1>1, <1>2, <1>3, <2>4, <2>5, FeesOwedLess
<1>7. CASE CollectCreatorFee
  <2>1. pool_state' = [pool_state EXCEPT !.creator_fees = Nothing, !.recent_epoch = epoch]
    BY <1>7 DEF CollectCreatorFee, collect_creator_fee
  <2>2. /\ pool_state'.creator_fees = Nothing
        /\ pool_state'.protocol_fees = pool_state.protocol_fees
        /\ pool_state'.fund_fees = pool_state.fund_fees
    BY <1>1, <2>1 DEF PoolStates
  <2>3. \A t \in Tokens : pool_state'.creator_fees[t] <= pool_state.creator_fees[t]
    BY <1>2, <2>2 DEF Nothing
  <2> QED
    BY <1>1, <1>2, <1>3, <2>2, <2>3, FeesOwedLess
<1>8. CASE ~(SwapBaseInput \/ SwapBaseOutput \/ CollectProtocolFee \/ CollectFundFee
              \/ CollectCreatorFee)
  <2>1. /\ pool_state'.protocol_fees = pool_state.protocol_fees
        /\ pool_state'.fund_fees = pool_state.fund_fees
        /\ pool_state'.creator_fees = pool_state.creator_fees
    <3>1. CASE CreateAPool
      BY <3>1 DEF CreateAPool, initialize, initialize_with_permission, CreatePool
    <3>2. CASE Deposit \/ Withdraw
      BY <1>1, <3>2 DEF Deposit, Withdraw, deposit, withdraw, PoolStates
    <3>3. CASE UpdatePoolStatus \/ UpdateConfig \/ UpdateRegistry
      BY <1>1, <3>3 DEF UpdatePoolStatus, update_pool_status, UpdateConfig, UpdateRegistry,
                        PoolStates
    <3>4. CASE DonateToVault \/ BurnLpTokens \/ ClockMoves \/ EpochBegins \/ UNCHANGED vars
      BY <3>4 DEF DonateToVault, Donate, BurnLpTokens, BurnLp, ClockMoves, EpochBegins
    <3> QED
      BY <1>8, <3>1, <3>2, <3>3, <3>4 DEF Next
  <2> QED
    BY <1>1, <1>2, <1>3, <2>1, FeesOwedLess
<1> QED
  BY <1>4, <1>5, <1>6, <1>7, <1>8

\* What the three bits are, as numbers.
LEMMA StatusBits ==
  ASSUME pool_state.status \in 0..255
  PROVE  /\ pool_state.status \in {1, 3, 5, 7} => ~get_status_by_bit(DepositBit)
         /\ pool_state.status \in {2, 3, 6, 7} => ~get_status_by_bit(WithdrawBit)
         /\ pool_state.status \in {4, 5, 6, 7} => ~get_status_by_bit(SwapBit)
  BY DEF get_status_by_bit, DepositBit, WithdrawBit, SwapBit

\* Every combination of the status bits (pool.rs:92-97) disables what it says,
\* at every interleaving of the admin's switches with the users' instructions.
THEOREM StatusAlwaysObeyed == Spec => StatusObeyed
<1> DEFINE Obeyed ==
      pool_state.initialized =>
        /\ pool_state.status \in {1, 3, 5, 7} => pool_state'.lp_supply <= pool_state.lp_supply
        /\ pool_state.status \in {2, 3, 6, 7} => pool_state'.lp_supply >= pool_state.lp_supply
        /\ pool_state.status \in {4, 5, 6, 7} => \A t \in Tokens : FeesOwed(t)' <= FeesOwed(t)
<1>1. IInv /\ IInv' /\ [Next]_vars => Obeyed
  <2> SUFFICES ASSUME IInv, IInv', [Next]_vars, pool_state.initialized PROVE Obeyed
    OBVIOUS
  <2>1. /\ pool_state.status \in 0..255
        /\ pool_state.lp_supply \in Nat
        /\ pool_state'.lp_supply \in Nat
    BY U64Assumption DEF IInv, TypeOK, PoolStates, Amounts
  <2> QED
    BY <2>1, StatusBits, LpSupplyStep, FeesOwedStep
<1>2. Obeyed => [Obeyed]_vars
  OBVIOUS
<1> QED
  BY <1>1, Inductive, PTL DEF Spec, StatusObeyed

(* ----------------------- the creator fee's token ----------------------- *)

\* Booking the fees of a swap puts the creator's fee where the mode says.
LEMMA BookingRespectsMode ==
  ASSUME TypeOK, CreatorFeesInChosenToken, NEW input \in Tokens, NEW result,
         FeesBookable(input, result), pool_state' = FeesBooked(input, result)
  PROVE  CreatorFeesInChosenToken'
<1>1. /\ pool_state \in PoolStates
      /\ \A t \in Tokens : pool_state.creator_fees[t] \in Nat
      /\ pool_state.creator_fee_on \in CreatorFeeOn
  BY U64Assumption DEF TypeOK, PoolStates, Amounts
<1>2. CreatorFeeToken(input) \in Tokens
  BY DEF CreatorFeeToken, Other, Tokens
<1>3. /\ pool_state'.enable_creator_fee = pool_state.enable_creator_fee
      /\ pool_state'.creator_fee_on = pool_state.creator_fee_on
      /\ pool_state'.creator_fees =
           [pool_state.creator_fees EXCEPT ![CreatorFeeToken(input)] = @ + result.creator_fee]
  BY <1>1 DEF FeesBooked, PoolStates
<1>4. CASE pool_state.enable_creator_fee
  <2> SUFFICES ASSUME NEW t \in Tokens, pool_state'.creator_fees[t] > 0
               PROVE  /\ pool_state.creator_fee_on = OnlyToken0 => t = 0
                      /\ pool_state.creator_fee_on = OnlyToken1 => t = 1
    BY <1>3, <1>4 DEF CreatorFeesInChosenToken
  <2>1. CASE t = CreatorFeeToken(input)
    BY <2>1 DEF CreatorFeeToken, is_creator_fee_on_input, Other, Tokens, BothToken, OnlyToken0,
                OnlyToken1
  <2>2. CASE t # CreatorFeeToken(input)
    <3>1. pool_state'.creator_fees[t] = pool_state.creator_fees[t]
      BY <1>1, <1>3, <2>2 DEF PoolStates
    <3> QED
      BY <3>1 DEF CreatorFeesInChosenToken
  <2> QED
    BY <2>1, <2>2
<1>5. CASE ~pool_state.enable_creator_fee
  <2>1. \A t \in Tokens : pool_state'.creator_fees[t] = pool_state.creator_fees[t]
    BY <1>1, <1>2, <1>3, <1>5 DEF FeesBookable, PoolStates
  <2> QED
    BY <1>3, <2>1 DEF CreatorFeesInChosenToken
<1> QED
  BY <1>4, <1>5

\* Of all instructions only a swap adds to the creator's fees; creation and
\* collect_creator_fee clear them, and nothing changes the mode of a pool that
\* owes any.
LEMMA CreatorFeesStep ==
  ASSUME TypeOK, CreatorFeesInChosenToken, [Next]_vars
  PROVE  CreatorFeesInChosenToken'
<1> USE DEF vars, configVars, registryVars, poolVars, chainVars
<1>1. pool_state \in PoolStates
  BY DEF TypeOK
<1>2. CASE SwapBaseInput \/ SwapBaseOutput
  <2>1. \E input \in Tokens : \E result :
          FeesBookable(input, result) /\ pool_state' = FeesBooked(input, result)
    BY <1>2 DEF SwapBaseInput, SwapBaseOutput, Swap_base_input, Swap_base_output,
                ApplySwap, ApplySwapOk
  <2> QED
    BY <2>1, BookingRespectsMode
<1>3. CASE CreateAPool \/ CollectCreatorFee
  <2>1. pool_state'.creator_fees = Nothing
    <3>1. CASE CreateAPool
      BY <3>1 DEF CreateAPool, initialize, initialize_with_permission, CreatePool, NewPool
    <3>2. CASE CollectCreatorFee
      BY <1>1, <3>2 DEF CollectCreatorFee, collect_creator_fee, PoolStates
    <3> QED
      BY <1>3, <3>1, <3>2
  <2> QED
    BY <2>1 DEF CreatorFeesInChosenToken, Nothing
<1>4. CASE ~(SwapBaseInput \/ SwapBaseOutput \/ CreateAPool \/ CollectCreatorFee)
  <2>1. /\ pool_state'.creator_fees = pool_state.creator_fees
        /\ pool_state'.enable_creator_fee = pool_state.enable_creator_fee
        /\ pool_state'.creator_fee_on = pool_state.creator_fee_on
    <3>1. CASE Deposit \/ Withdraw \/ CollectProtocolFee \/ CollectFundFee
      BY <1>1, <3>1 DEF Deposit, Withdraw, CollectProtocolFee, CollectFundFee, deposit, withdraw,
                        collect_protocol_fee, collect_fund_fee, PoolStates
    <3>2. CASE UpdatePoolStatus \/ UpdateConfig \/ UpdateRegistry
      BY <1>1, <3>2 DEF UpdatePoolStatus, update_pool_status, UpdateConfig, UpdateRegistry,
                        PoolStates
    <3>3. CASE DonateToVault \/ BurnLpTokens \/ ClockMoves \/ EpochBegins \/ UNCHANGED vars
      BY <3>3 DEF DonateToVault, Donate, BurnLpTokens, BurnLp, ClockMoves, EpochBegins
    <3> QED
      BY <1>4, <3>1, <3>2, <3>3 DEF Next
  <2> QED
    BY <2>1 DEF CreatorFeesInChosenToken
<1> QED
  BY <1>2, <1>3, <1>4

\* Two functions of pool.rs decide the creator's token, one for the curve and
\* one for the bookkeeping (is_creator_fee_on_input, update_fees), and the rate
\* comes from a config the admin changes: in every history the creator is owed
\* a fee only in a token the pool was created to charge it in.
THEOREM CreatorFeesWherePromised == Spec => []CreatorFeesInChosenToken
<1>1. Init => CreatorFeesInChosenToken
  BY DEF Init, ZeroedPool, Nothing, CreatorFeesInChosenToken
<1>2. IInv /\ CreatorFeesInChosenToken /\ [Next]_vars => CreatorFeesInChosenToken'
  BY CreatorFeesStep DEF IInv
<1> QED
  BY <1>1, <1>2, Inductive, PTL DEF Spec

=============================================================================
