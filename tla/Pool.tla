--------------------------------- MODULE Pool ---------------------------------
(***************************************************************************)
(* One pool of the cp-swap program, with everything its instructions read  *)
(* and write: the pool account, its two vaults and LP mint, its observation*)
(* account, the AmmConfig it belongs to, the permission and support-mint   *)
(* accounts, the fees of the two token mints, and the clock.               *)
(*                                                                         *)
(* A Solana instruction is atomic: an error or a panic undoes all of it.   *)
(* Each handler is therefore one action whose guards are the handler's     *)
(* checks, and transactions of different signers interleave between        *)
(* actions.  Any signer may send any instruction at any time, so a         *)
(* behaviour is any sequence of calls: nothing forces a call to happen.    *)
(*                                                                         *)
(* Definitions named Bug... are plausible mistakes in the definition after *)
(* them.  Nothing uses them; see Curve.                                    *)
(*                                                                         *)
(* Accounts outside the pool are not modelled: the supply of a mint fits   *)
(* u64, so a caller can hold anything that is not in the vault and no more.*)
(* The same bound, U64_MAX, is thus the width of the amounts and the supply*)
(* of either mint.                                                         *)
(***************************************************************************)
EXTENDS SwapQuote, Observation

CONSTANTS
  LOCK_LP_AMOUNT,     \* LP never minted for the first deposit, 100 in the code
  Q32,                \* scale of a price, 2^32 in the code
  MAX_TIME,           \* bounds the clock
  MAX_EPOCH,          \* bounds the epoch
  Admin, Keys, DefaultPubkey, ConfigValues,               \* of AmmConfig
  PermissionKeys, WhitelistedMints, ForeignExtensions,    \* of Registry
  MintChoices,        \* for each token, its mint with each fee it may come to charge
  Creators,           \* keys a pool may be created for
  InitAmounts,        \* what a creator may put in of either token
  OpenTimes,          \* open times a creator may ask for
  LpAmounts,          \* LP amounts callers name
  SwapAmounts,        \* swap amounts callers name
  Limits,             \* slippage limits and requested fee amounts callers name
  Donations,          \* amounts sent to a vault from outside the program
  Statuses            \* statuses the admin may set

Amounts == 0..U64_MAX

ASSUME PoolAssumption ==
  /\ LOCK_LP_AMOUNT \in Nat \ {0}
  /\ Q32 \in Nat \ {0}
  /\ MAX_TIME \in Nat \ {0}
  /\ MAX_EPOCH \in Nat
  /\ Admin \in Keys
  /\ DefaultPubkey \in Keys
  /\ Creators \subseteq Keys
  /\ PermissionKeys \subseteq Keys
  /\ ConfigValues \in [{"trade_fee_rate", "protocol_fee_rate", "fund_fee_rate",
                        "create_pool_fee", "disable_create_pool", "creator_fee_rate"}
                         -> SUBSET Nat]
  /\ MintChoices \in [Tokens -> SUBSET Mints(Nat)]
  /\ InitAmounts \subseteq Amounts
  /\ OpenTimes \subseteq 0..MAX_TIME
  /\ LpAmounts \subseteq Amounts
  /\ SwapAmounts \subseteq Amounts
  /\ Limits \subseteq Amounts
  /\ Donations \subseteq Amounts
  /\ Statuses \subseteq 0..255

VARIABLES
  amm_config,
  permissions, support_mints,
  pool_state,
  vault,               \* amounts of token_0_vault and token_1_vault
  lp_mint_supply,      \* supply of the LP mint: what LP holders have
  observation_state,
  mint,                \* the two mints, with the fee in force
  now,                 \* Clock: unix_timestamp
  epoch                \* Clock: epoch

configVars   == amm_config
registryVars == <<permissions, support_mints>>
poolVars     == <<pool_state, vault, lp_mint_supply, observation_state>>
chainVars    == <<mint, now, epoch>>
vars == <<configVars, registryVars, poolVars, chainVars>>

Config == INSTANCE AmmConfig
Access == INSTANCE Registry

Other(t) == 1 - t

(* ------------------------------ PoolState ------------------------------ *)

BothToken == 0
OnlyToken0 == 1
OnlyToken1 == 2
CreatorFeeOn == {BothToken, OnlyToken0, OnlyToken1}

\* PoolStatusBitIndex, as the value of the bit.
DepositBit == 1
WithdrawBit == 2
SwapBit == 4

\* `initialized` stands for the account's discriminator.
PoolStates ==
  [initialized: BOOLEAN,
   pool_creator: Keys,
   status: 0..255,
   lp_supply: Amounts,
   protocol_fees: [Tokens -> Amounts],
   fund_fees: [Tokens -> Amounts],
   creator_fees: [Tokens -> Amounts],
   open_time: 0..(MAX_TIME + 1),
   recent_epoch: 0..MAX_EPOCH,
   creator_fee_on: CreatorFeeOn,
   enable_creator_fee: BOOLEAN]

Nothing == [t \in Tokens |-> 0]

\* PoolState::initialize, but for the addresses and decimals it records.
NewPool(creator, liquidity, open_time, creator_fee_on, enable_creator_fee) ==
  [initialized |-> TRUE,
   pool_creator |-> creator,
   status |-> 0,
   lp_supply |-> liquidity,
   protocol_fees |-> Nothing,
   fund_fees |-> Nothing,
   creator_fees |-> Nothing,
   open_time |-> open_time,
   recent_epoch |-> epoch,
   creator_fee_on |-> creator_fee_on,
   enable_creator_fee |-> enable_creator_fee]

ZeroedPool ==
  [initialized |-> FALSE,
   pool_creator |-> DefaultPubkey,
   status |-> 0,
   lp_supply |-> 0,
   protocol_fees |-> Nothing,
   fund_fees |-> Nothing,
   creator_fees |-> Nothing,
   open_time |-> 0,
   recent_epoch |-> 0,
   creator_fee_on |-> BothToken,
   enable_creator_fee |-> FALSE]

\* compares the whole status with the bit
BugStatusIsBit(bit) == pool_state.status # bit

\* get_status_by_bit: TRUE when the operation is allowed.
get_status_by_bit(bit) == (pool_state.status \div bit) % 2 = 0

FeesOwed(t) ==
  pool_state.protocol_fees[t] + pool_state.fund_fees[t] + pool_state.creator_fees[t]

\* vault_amount_without_fee: InsufficientVault or MathOverflow unless the fees
\* are in the vault.
VaultCoversFees == \A t \in Tokens : FeesOwed(t) <= vault[t]

\* forgets that the vault also holds fees
BugGrossVault(t) == vault[t]

Total(t) == vault[t] - FeesOwed(t)

\* token_price_x32 divides by either total.
PriceDefined == \A t \in Tokens : Total(t) # 0

token_price_x32 == [t \in Tokens |-> (Total(Other(t)) * Q32) \div Total(t)]

\* `input` is the token swapped in: 0 is ZeroForOne, 1 is OneForZero.
is_creator_fee_on_input(input) ==
  \/ pool_state.creator_fee_on = BothToken
  \/ pool_state.creator_fee_on = OnlyToken0 /\ input = 0
  \/ pool_state.creator_fee_on = OnlyToken1 /\ input = 1

\* charges the config's rate in every pool
BugUnadjusted(creator_fee_rate) == creator_fee_rate

adjust_creator_fee_rate(creator_fee_rate) ==
  IF pool_state.enable_creator_fee THEN creator_fee_rate ELSE 0

(* ----------------------------- transfers ------------------------------- *)

\* A caller can send what is not in the vault already.
CanSend(t, amount) == amount <= U64_MAX - vault[t]

\* transfer_from_user_to_pool_vault: the vault gets the amount less the mint's fee.
VaultAfterDeposit(t, amount) == vault[t] + AmountReceived(mint[t], amount)

\* transfer_from_pool_vault_to_user takes the whole amount out of the vault.
VaultPays(t, amount) == amount <= vault[t]

(* ----------------------- creation of the pool -------------------------- *)

\* open_time is moved past the current second, so no swap precedes the LP mint.
OpenTime(requested) == IF requested <= now THEN now + 1 ELSE requested

\* rounds up
BugCeilSqrt(root, n) == n <= root * root /\ (root - 1) * (root - 1) < n

IsIntegerSqrt(root, n) == root * root <= n /\ n < (root + 1) * (root + 1)

\* forgets to lock
BugMintAll(liquidity) == liquidity

\* What the creator gets of the first LP; the rest is never minted.
MintedToCreator(liquidity) == liquidity - LOCK_LP_AMOUNT

\* The common part of initialize and initialize_with_permission.
CreatePool(creator, amounts, open_time, creator_fee_on, enable_creator_fee) ==
  LET deposited == [t \in Tokens |-> AmountReceived(mint[t], amounts[t])]
  IN  /\ ~pool_state.initialized
      /\ amm_config.created
      /\ \A t \in Tokens : Access!is_supported_mint(t, mint[t].program)
      /\ ~amm_config.disable_create_pool
      /\ \A t \in Tokens : deposited[t] # 0       \* validate_supply
      /\ \E liquidity \in Amounts :
           /\ IsIntegerSqrt(liquidity, deposited[0] * deposited[1])
           /\ liquidity >= LOCK_LP_AMOUNT         \* InitLpAmountTooLess
           /\ lp_mint_supply' = MintedToCreator(liquidity)
           /\ pool_state' = NewPool(creator, liquidity, OpenTime(open_time),
                                    creator_fee_on, enable_creator_fee)
      /\ vault' = deposited
      /\ observation_state' = ZeroedObservation
      /\ UNCHANGED <<configVars, registryVars, chainVars>>

initialize(creator, amounts, open_time) ==
  CreatePool(creator, amounts, open_time, BothToken, FALSE)

\* The payer, not the creator, holds the permission.
initialize_with_permission(payer, creator, amounts, open_time, creator_fee_on) ==
  /\ payer \in permissions
  /\ CreatePool(creator, amounts, open_time, creator_fee_on, TRUE)

(* ------------------------- deposit and withdraw ------------------------ *)

\* What a deposit adds to a vault, and what its owner sends for that.
DepositAmount(t, lp_token_amount) ==
  lp_tokens_to_trading_tokens(lp_token_amount, pool_state.lp_supply, Total(t), "Ceiling")

DepositTransfer(t, lp_token_amount) ==
  LET amount == DepositAmount(t, lp_token_amount)
  IN  amount + get_transfer_inverse_fee(mint[t], amount)

deposit(lp_token_amount, maximum) ==
  /\ pool_state.initialized
  /\ lp_token_amount > 0
  /\ get_status_by_bit(DepositBit)
  /\ VaultCoversFees
  /\ pool_state.lp_supply # 0
  /\ \A t \in Tokens :
       LET amount   == DepositAmount(t, lp_token_amount)
           transfer == DepositTransfer(t, lp_token_amount)
       IN  /\ amount \in 1..U64_MAX
           /\ TransferInverseFeeOk(mint[t], amount)
           /\ transfer <= maximum[t]
           /\ CanSend(t, transfer)
  /\ pool_state.lp_supply + lp_token_amount <= U64_MAX
  /\ lp_mint_supply + lp_token_amount <= U64_MAX
  /\ vault' = [t \in Tokens |-> VaultAfterDeposit(t, DepositTransfer(t, lp_token_amount))]
  /\ lp_mint_supply' = lp_mint_supply + lp_token_amount
  /\ pool_state' = [pool_state EXCEPT !.lp_supply = @ + lp_token_amount,
                                      !.recent_epoch = epoch]
  /\ UNCHANGED <<configVars, registryVars, observation_state, chainVars>>

WithdrawAmount(t, lp_token_amount) ==
  AtMost(lp_tokens_to_trading_tokens(
           lp_token_amount, pool_state.lp_supply, Total(t), "Floor"), Total(t))

\* The checks of withdraw, for a caller who holds lp_token_amount.
WithdrawOk(lp_token_amount, minimum) ==
  /\ pool_state.initialized
  /\ lp_token_amount > 0
  /\ lp_token_amount <= lp_mint_supply
  /\ get_status_by_bit(WithdrawBit)
  /\ VaultCoversFees
  /\ pool_state.lp_supply # 0
  /\ \A t \in Tokens :
       LET amount == WithdrawAmount(t, lp_token_amount)
       IN  /\ amount \in 1..U64_MAX
           /\ AmountReceived(mint[t], amount) >= minimum[t]
           /\ VaultPays(t, amount)
  /\ lp_token_amount <= pool_state.lp_supply

withdraw(lp_token_amount, minimum) ==
  /\ WithdrawOk(lp_token_amount, minimum)
  /\ vault' = [t \in Tokens |-> vault[t] - WithdrawAmount(t, lp_token_amount)]
  /\ lp_mint_supply' = lp_mint_supply - lp_token_amount
  /\ pool_state' = [pool_state EXCEPT !.lp_supply = @ - lp_token_amount,
                                      !.recent_epoch = epoch]
  /\ UNCHANGED <<configVars, registryVars, observation_state, chainVars>>

(* -------------------------------- swaps -------------------------------- *)

MarketFor(input) ==
  [input_vault |-> Total(input),
   output_vault |-> Total(Other(input)),
   rates |-> [trade_fee_rate |-> amm_config.trade_fee_rate,
              creator_fee_rate |-> adjust_creator_fee_rate(amm_config.creator_fee_rate),
              protocol_fee_rate |-> amm_config.protocol_fee_rate,
              fund_fee_rate |-> amm_config.fund_fee_rate],
   is_creator_fee_on_input |-> is_creator_fee_on_input(input),
   input_mint |-> mint[input],
   output_mint |-> mint[Other(input)]]

SwapAllowed ==
  /\ pool_state.initialized
  /\ get_status_by_bit(SwapBit)
  /\ now >= pool_state.open_time
  /\ VaultCoversFees
  /\ PriceDefined

\* takes the creator fee for an input fee whatever the mode
BugAlwaysInput(input) == input

CreatorFeeToken(input) == IF is_creator_fee_on_input(input) THEN input ELSE Other(input)

\* update_fees: protocol and fund take their share in the input token.
FeesBooked(input, result) ==
  [pool_state EXCEPT
     !.protocol_fees[input] = @ + result.protocol_fee,
     !.fund_fees[input] = @ + result.fund_fee,
     !.creator_fees[CreatorFeeToken(input)] = @ + result.creator_fee,
     !.recent_epoch = epoch]

\* update_fees: creator_fee must be 0 unless the pool charges one, and no
\* counter may pass u64.
FeesBookable(input, result) ==
  /\ ~pool_state.enable_creator_fee => result.creator_fee = 0
  /\ pool_state.protocol_fees[input] + result.protocol_fee <= U64_MAX
  /\ pool_state.fund_fees[input] + result.fund_fee <= U64_MAX
  /\ pool_state.creator_fees[CreatorFeeToken(input)] + result.creator_fee <= U64_MAX

\* The checks that are left once the curve has answered.
ApplySwapOk(input, result, transfer_in) ==
  /\ FeesBookable(input, result)
  /\ CanSend(input, transfer_in)
  /\ VaultPays(Other(input), result.output_amount)
  /\ UpdateOk(observation_state, now, token_price_x32)

\* The tail both handlers share: the fees are booked, the input arrives, the
\* output leaves, and the prices from before the swap go to the oracle.
ApplySwap(input, result, transfer_in) ==
  /\ ApplySwapOk(input, result, transfer_in)
  /\ pool_state' = FeesBooked(input, result)
  /\ vault' = [vault EXCEPT ![input] = VaultAfterDeposit(input, transfer_in),
                            ![Other(input)] = @ - result.output_amount]
  /\ observation_state' = update(observation_state, now, token_price_x32)
  /\ UNCHANGED <<configVars, registryVars, lp_mint_supply, chainVars>>

Swap_base_input(input, amount_in, minimum_amount_out) ==
  /\ SwapAllowed
  /\ BaseInputOk(MarketFor(input), amount_in)
  /\ BaseInputReceived(MarketFor(input), amount_in) >= minimum_amount_out
  /\ ApplySwap(input, BaseInputResult(MarketFor(input), amount_in), amount_in)

\* limits what arrives instead of what is sent
BugNetMaximum(input, max_amount_in, amount_out_received) ==
  /\ SwapAllowed
  /\ BaseOutputOk(MarketFor(input), amount_out_received)
  /\ max_amount_in >= BaseOutputResult(MarketFor(input), amount_out_received).input_amount
  /\ ApplySwap(input, BaseOutputResult(MarketFor(input), amount_out_received),
               InputTransferAmount(MarketFor(input), amount_out_received))

Swap_base_output(input, max_amount_in, amount_out_received) ==
  /\ SwapAllowed
  /\ BaseOutputOk(MarketFor(input), amount_out_received)
  /\ max_amount_in >= InputTransferAmount(MarketFor(input), amount_out_received)
  /\ ApplySwap(input, BaseOutputResult(MarketFor(input), amount_out_received),
               InputTransferAmount(MarketFor(input), amount_out_received))

(* --------------------------- collecting fees --------------------------- *)

\* pays what is asked for
BugUncapped(owed, requested) == requested

\* Anybody may name any amount; what is collected is capped by what is owed.
Collected(owed, requested) == [t \in Tokens |-> AtMost(requested[t], owed[t])]

PayOut(amounts) ==
  /\ \A t \in Tokens : VaultPays(t, amounts[t])
  /\ vault' = [t \in Tokens |-> vault[t] - amounts[t]]

\* clears the counter although only a part was collected
BugClears(owed, amounts) == Nothing

Less(owed, amounts) == [t \in Tokens |-> owed[t] - amounts[t]]

collect_protocol_fee(owner, requested) ==
  LET amounts == Collected(pool_state.protocol_fees, requested)
  IN  /\ pool_state.initialized
      /\ owner \in {amm_config.protocol_owner, Admin}
      /\ pool_state' = [pool_state EXCEPT !.protocol_fees = Less(@, amounts),
                                          !.recent_epoch = epoch]
      /\ PayOut(amounts)
      /\ UNCHANGED <<configVars, registryVars, lp_mint_supply, observation_state, chainVars>>

collect_fund_fee(owner, requested) ==
  LET amounts == Collected(pool_state.fund_fees, requested)
  IN  /\ pool_state.initialized
      /\ owner \in {amm_config.fund_owner, Admin}
      /\ pool_state' = [pool_state EXCEPT !.fund_fees = Less(@, amounts),
                                          !.recent_epoch = epoch]
      /\ PayOut(amounts)
      /\ UNCHANGED <<configVars, registryVars, lp_mint_supply, observation_state, chainVars>>

collect_creator_fee(creator) ==
  /\ pool_state.initialized
  /\ creator = pool_state.pool_creator
  /\ pool_state.creator_fees # Nothing         \* NoFeeCollect
  /\ PayOut(pool_state.creator_fees)
  /\ pool_state' = [pool_state EXCEPT !.creator_fees = Nothing,
                                      !.recent_epoch = epoch]
  /\ UNCHANGED <<configVars, registryVars, lp_mint_supply, observation_state, chainVars>>

update_pool_status(status) ==
  /\ pool_state.initialized
  /\ pool_state' = [pool_state EXCEPT !.status = status, !.recent_epoch = epoch]
  /\ UNCHANGED <<configVars, registryVars, vault, lp_mint_supply, observation_state, chainVars>>

(* --------------------------- around the pool --------------------------- *)

UpdateConfig ==
  /\ Config!Next
  /\ UNCHANGED <<registryVars, poolVars, chainVars>>

UpdateRegistry ==
  /\ Access!Next([t \in Tokens |-> mint[t].program])
  /\ UNCHANGED <<configVars, poolVars, chainVars>>

\* A token program lets anyone send to a vault, and an LP holder burn LP.
Donate(t, amount) ==
  /\ pool_state.initialized
  /\ CanSend(t, amount)
  /\ vault' = [vault EXCEPT ![t] = VaultAfterDeposit(t, amount)]
  /\ UNCHANGED <<configVars, registryVars, pool_state, lp_mint_supply, observation_state,
                 chainVars>>

BurnLp(lp_token_amount) ==
  /\ lp_token_amount <= lp_mint_supply
  /\ lp_mint_supply' = lp_mint_supply - lp_token_amount
  /\ UNCHANGED <<configVars, registryVars, pool_state, vault, observation_state, chainVars>>

ClockMoves ==
  /\ now' \in 1..MAX_TIME
  /\ UNCHANGED <<configVars, registryVars, poolVars, mint, epoch>>

\* With a new epoch a Token-2022 mint may come to charge another fee.
EpochBegins ==
  /\ epoch < MAX_EPOCH
  /\ epoch' = epoch + 1
  /\ mint' \in [Tokens -> UNION {MintChoices[t] : t \in Tokens}]
  /\ \A t \in Tokens :
       /\ mint'[t] \in MintChoices[t]
       /\ mint'[t].program = mint[t].program
  /\ UNCHANGED <<configVars, registryVars, poolVars, now>>

(* ------------------------------ behaviours ----------------------------- *)

Init ==
  /\ Config!Init
  /\ Access!Init
  /\ pool_state = ZeroedPool
  /\ vault = Nothing
  /\ lp_mint_supply = 0
  /\ observation_state = ZeroedObservation
  /\ mint \in [Tokens -> UNION {MintChoices[t] : t \in Tokens}]
  /\ \A t \in Tokens : mint[t] \in MintChoices[t]
  /\ now = 1
  /\ epoch = 0

Pair(S) == [Tokens -> S]

CreateAPool ==
  \E creator \in Creators, amounts \in Pair(InitAmounts), open_time \in OpenTimes :
    \/ initialize(creator, amounts, open_time)
    \/ \E payer \in PermissionKeys, creator_fee_on \in CreatorFeeOn :
         initialize_with_permission(payer, creator, amounts, open_time, creator_fee_on)

Deposit == \E lp \in LpAmounts, maximum \in Pair(Limits) : deposit(lp, maximum)

Withdraw == \E lp \in LpAmounts, minimum \in Pair(Limits) : withdraw(lp, minimum)

SwapBaseInput ==
  \E input \in Tokens, amount_in \in SwapAmounts, minimum_amount_out \in Limits :
    Swap_base_input(input, amount_in, minimum_amount_out)

SwapBaseOutput ==
  \E input \in Tokens, max_amount_in \in Limits, amount_out_received \in SwapAmounts :
    Swap_base_output(input, max_amount_in, amount_out_received)

CollectProtocolFee ==
  \E owner \in Keys, requested \in Pair(Limits) : collect_protocol_fee(owner, requested)

CollectFundFee ==
  \E owner \in Keys, requested \in Pair(Limits) : collect_fund_fee(owner, requested)

CollectCreatorFee == \E creator \in Keys : collect_creator_fee(creator)

UpdatePoolStatus == \E status \in Statuses : update_pool_status(status)

DonateToVault == \E t \in Tokens, amount \in Donations : Donate(t, amount)

BurnLpTokens == \E lp \in LpAmounts : BurnLp(lp)

Next ==
  \/ CreateAPool
  \/ Deposit
  \/ Withdraw
  \/ SwapBaseInput
  \/ SwapBaseOutput
  \/ CollectProtocolFee
  \/ CollectFundFee
  \/ CollectCreatorFee
  \/ UpdatePoolStatus
  \/ UpdateConfig
  \/ UpdateRegistry
  \/ DonateToVault
  \/ BurnLpTokens
  \/ ClockMoves
  \/ EpochBegins

Spec == Init /\ [][Next]_vars

=============================================================================
