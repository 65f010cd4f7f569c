------------------------------ MODULE EventsProofs -----------------------------
(***************************************************************************)
(* What an observer of the events may rely on, for every value of the      *)
(* constants.  Writing events changes nothing of the pool, so its theorems *)
(* hold of EventsSpec too, and its invariant is at hand; what the events   *)
(* say is compared with what each handler moves and books.                 *)
(***************************************************************************)
EXTENDS Events, PoolProofs

\* No event precedes the pool.
Told == event # NoEvent => pool_state.initialized

\* Nor do tokens: initialize writes the vaults, which until then are empty.
Empty == ~pool_state.initialized => vault = Nothing

(* ------------------------- the pool underneath ------------------------- *)

\* Every step of the pool with its events is a step of the pool.
LEMMA EventsStep == [EventsNext]_eventVars => [Next]_vars
<1>1. EventsNext => Next
  <2>1. EmitDeposit => Deposit
    BY DEF EmitDeposit, Deposit
  <2>2. EmitWithdraw => Withdraw
    BY DEF EmitWithdraw, Withdraw
  <2>3. EmitSwapBaseInput => SwapBaseInput
    BY DEF EmitSwapBaseInput, SwapBaseInput
  <2>4. EmitSwapBaseOutput => SwapBaseOutput
    BY DEF EmitSwapBaseOutput, SwapBaseOutput
  <2>5. Silent => Next
    BY DEF Silent, Next
  <2> QED
    BY <2>1, <2>2, <2>3, <2>4, <2>5 DEF EventsNext, Next
<1>2. UNCHANGED eventVars => UNCHANGED vars
  BY DEF eventVars
<1> QED
  BY <1>1, <1>2

\* The events are written by the pool as Pool has it: what Spec promises is
\* promised to an observer of the events.
THEOREM EventsObserveThePool == EventsSpec => Spec
<1>1. EventsInit => Init
  BY DEF EventsInit
<1> QED
  BY <1>1, EventsStep, PTL DEF EventsSpec, Spec

\* A pool stays a pool, and until it is one its vaults stay as they are.
LEMMA PoolStays ==
  ASSUME IInv, [Next]_vars
  PROVE  /\ pool_state.initialized => pool_state'.initialized
         /\ ~pool_state'.initialized => vault' = vault
<1>1. pool_state.initialized => pool_state'.initialized
  BY NextSafe, StutterSafe
     DEF Shares!Next, Shares!Open, Shares!Exchange, Shares!Trade, Shares!Forfeit, Shares!vars
<1>2. ASSUME ~pool_state'.initialized
      PROVE  vault' = vault
  <2>1. ~pool_state.initialized
    BY <1>1, <1>2
  <2>2. CASE CreateAPool
    BY <1>2, <2>2 DEF CreateAPool, initialize, initialize_with_permission, CreatePool, NewPool
  <2>3. CASE ~CreateAPool
    <3>1. ~(Deposit \/ Withdraw \/ SwapBaseInput \/ SwapBaseOutput)
      BY <2>1 DEF Deposit, deposit, Withdraw, withdraw, WithdrawOk, SwapBaseInput,
                  Swap_base_input, SwapBaseOutput, Swap_base_output, SwapAllowed
    <3>2. ~(CollectProtocolFee \/ CollectFundFee \/ CollectCreatorFee \/ DonateToVault)
      BY <2>1 DEF CollectProtocolFee, collect_protocol_fee, CollectFundFee, collect_fund_fee,
                  CollectCreatorFee, collect_creator_fee, DonateToVault, Donate
    <3> QED
      BY <2>3, <3>1, <3>2
         DEF Next, UpdatePoolStatus, update_pool_status, UpdateConfig, UpdateRegistry,
             BurnLpTokens, BurnLp, ClockMoves, EpochBegins, poolVars, vars
  <2> QED
    BY <2>2, <2>3
<1> QED
  BY <1>1, <1>2

\* The types of the event-writing handlers' arguments.
LEMMA NamedAmounts ==
  /\ LpAmounts \subseteq Amounts
  /\ SwapAmounts \subseteq Amounts
  BY PoolAssumption

(* ------------------------------ the totals ----------------------------- *)

\* What the pool does silently leaves the totals alone.
LEMMA SilentTotals ==
  ASSUME IInv, Silent, pool_state.initialized
  PROVE  \A t \in Tokens : Total(t)' = Total(t)
<1>1. CASE CreateAPool
  BY <1>1 DEF CreateAPool, initialize, initialize_with_permission, CreatePool
<1>2. \A requested \in Pair(Limits) : requested \in [Tokens -> Amounts]
  BY PoolAssumption DEF Pair
<1>3. CASE CollectProtocolFee \/ CollectFundFee \/ CollectCreatorFee
  BY <1>2, <1>3, CollectProtocolFeeSafe, CollectFundFeeSafe, CollectCreatorFeeSafe
     DEF CollectProtocolFee, CollectFundFee, CollectCreatorFee
<1>4. CASE UpdatePoolStatus
  <2>1. pool_state \in PoolStates
    BY DEF IInv, TypeOK
  <2>2. /\ vault' = vault
        /\ pool_state'.protocol_fees = pool_state.protocol_fees
        /\ pool_state'.fund_fees = pool_state.fund_fees
        /\ pool_state'.creator_fees = pool_state.creator_fees
    BY <1>4, <2>1 DEF UpdatePoolStatus, update_pool_status, PoolStates
  <2> QED
    BY <2>2 DEF Total, FeesOwed
<1>5. CASE UpdateConfig \/ UpdateRegistry \/ BurnLpTokens \/ ClockMoves \/ EpochBegins
  BY <1>5, BooksUnchanged
     DEF UpdateConfig, UpdateRegistry, BurnLpTokens, BurnLp, ClockMoves, EpochBegins, poolVars
<1> QED
  BY <1>1, <1>3, <1>4, <1>5 DEF Silent

\* The totals follow from the event of a deposit,
LEMMA DepositTold ==
  ASSUME IInv, EmitDeposit
  PROVE  \A t \in Tokens : Total(t)' \in TotalsTold(t)'
<1>1. PICK lp \in LpAmounts, maximum \in Pair(Limits) :
        deposit(lp, maximum) /\ event' = DepositEvent(lp)
  BY DEF EmitDeposit
<1>2. \A t \in Tokens : Total(t)' = Total(t) + DepositAmount(t, lp)
  BY <1>1, NamedAmounts, DepositSafe
<1>3. /\ event'.name = "LpChangeEvent"
      /\ event'.change_type = 0
      /\ \A t \in Tokens : /\ event'.vault_before[t] = Total(t)
                           /\ event'.amount[t] = DepositAmount(t, lp)
  BY <1>1 DEF DepositEvent, LpChangeEvent
<1> QED
  BY <1>2, <1>3 DEF TotalsTold

\* of a withdrawal,
LEMMA WithdrawTold ==
  ASSUME IInv, EmitWithdraw
  PROVE  \A t \in Tokens : Total(t)' \in TotalsTold(t)'
<1>1. PICK lp \in LpAmounts, minimum \in Pair(Limits) :
        withdraw(lp, minimum) /\ event' = WithdrawEvent(lp)
  BY DEF EmitWithdraw
<1>2. \A t \in Tokens : /\ WithdrawAmount(t, lp) \in Nat
                        /\ Total(t)' = Total(t) - WithdrawAmount(t, lp)
  BY <1>1, NamedAmounts, WithdrawSafe
<1>3. \A t \in Tokens : Total(t) \in Nat /\ mint[t] \in Mints(Nat)
  BY TotalType, PoolTypes DEF IInv
<1>4. /\ event'.name = "LpChangeEvent"
      /\ event'.change_type = 1
      /\ \A t \in Tokens :
           /\ event'.vault_before[t] = Total(t)
           /\ event'.amount[t] = AmountReceived(mint[t], WithdrawAmount(t, lp))
           /\ event'.transfer_fee[t] = get_transfer_fee(mint[t], WithdrawAmount(t, lp))
  BY <1>1 DEF WithdrawEvent, LpChangeEvent
<1>5. ASSUME NEW t \in Tokens
      PROVE  Total(t)' \in TotalsTold(t)'
  <2> DEFINE amount == WithdrawAmount(t, lp)
             fee    == get_transfer_fee(mint[t], amount)
  <2>1. amount \in Nat /\ fee \in Nat /\ AmountReceived(mint[t], amount) = amount - fee
    BY <1>2, <1>3, TransferFeeBounded DEF AmountReceived
  <2>2. TotalsTold(t)' = {Total(t) - (amount - fee) - fee}
    BY <1>4, <2>1 DEF TotalsTold
  <2> HIDE DEF amount, fee
  <2>3. Total(t) - (amount - fee) - fee = Total(t) - amount
    BY <1>3, <2>1
  <2> QED
    BY <1>2, <2>2, <2>3 DEF amount
<1> QED
  BY <1>5

\* and, up to the trade fee, of a swap in either direction.
LEMMA SwapTold ==
  ASSUME IInv, NEW input \in Tokens, NEW result, SwapApplied(input, result),
         TypeOK', Solvent',
         event'.name = "SwapEvent",
         event'.input = input,
         event'.vault_before = [t \in Tokens |-> Total(t)],
         event'.input_amount = result.input_amount,
         event'.output_amount = result.output_amount,
         event'.trade_fee = result.trade_fee,
         event'.creator_fee = result.creator_fee,
         event'.creator_fee_on_input = is_creator_fee_on_input(input)
  PROVE  \A t \in Tokens : Total(t)' \in TotalsTold(t)'
<1> DEFINE output    == Other(input)
           part(t)   == IF t = CreatorFeeToken(input) THEN result.creator_fee ELSE 0
           told(t)   == IF is_creator_fee_on_input(input) = (t = input)
                        THEN result.creator_fee
                        ELSE 0
           high      == Total(input) + result.input_amount - told(input)
           low       == high - result.trade_fee
<1>1. output \in Tokens /\ output # input /\ \A t \in Tokens : t = input \/ t = output
  BY DEF Other, Tokens
<1>2. part(input) = told(input) /\ part(output) = told(output)
  BY <1>1, MarketFields DEF CreatorFeeToken
<1>3. /\ result.input_amount \in Nat
      /\ result.output_amount \in Nat
      /\ result.trade_fee \in Nat
      /\ result.creator_fee \in Nat
      /\ result.protocol_fee \in Nat
      /\ result.fund_fee \in Nat
      /\ result.protocol_fee + result.fund_fee <= result.trade_fee
      /\ Total(input)' = Total(input) - part(input) + result.input_amount
                            - result.protocol_fee - result.fund_fee
      /\ Total(output)' = Total(output) - part(output) - result.output_amount
  BY DEF SwapApplied
<1>4. /\ TotalsTold(input)' = low..high
      /\ TotalsTold(output)' = {Total(output) - result.output_amount - told(output)}
  BY <1>1 DEF TotalsTold
<1>5. told(input) \in Nat /\ told(output) \in Nat
  BY <1>3
<1>6. Total(input) \in Nat /\ Total(output) \in Nat
  BY <1>1, TotalType DEF IInv
<1>7. Total(input)' \in Int
  BY LedgerTypesNext
<1> HIDE DEF part, told
<1>8. Total(input)' \in low..high
  BY <1>2, <1>3, <1>5, <1>6, <1>7
<1>9. Total(output)' = Total(output) - result.output_amount - told(output)
  BY <1>2, <1>3, <1>5, <1>6
<1> QED
  BY <1>1, <1>4, <1>8, <1>9

\* An event that is written tells the totals.
LEMMA EmittedTold ==
  ASSUME IInv, EventsNext, ~Silent
  PROVE  pool_state'.initialized /\ \A t \in Tokens : Total(t)' \in TotalsTold(t)'
<1>1. CASE EmitDeposit
  BY <1>1, DepositTold, NamedAmounts, DepositSafe DEF EmitDeposit
<1>2. CASE EmitWithdraw
  BY <1>2, WithdrawTold, NamedAmounts, WithdrawSafe DEF EmitWithdraw
<1>3. CASE EmitSwapBaseInput
  <2>1. PICK input \in Tokens, amount_in \in SwapAmounts, minimum_amount_out \in Limits :
          /\ Swap_base_input(input, amount_in, minimum_amount_out)
          /\ event' = BaseInputEvent(input, amount_in)
    BY <1>3 DEF EmitSwapBaseInput
  <2> DEFINE result == BaseInputResult(MarketFor(input), amount_in)
  <2>2. TypeOK' /\ Solvent' /\ SwapApplied(input, result)
    BY <2>1, NamedAmounts, SwapBaseInputSafe
  <2>3. /\ event'.name = "SwapEvent"
        /\ event'.input = input
        /\ event'.vault_before = [t \in Tokens |-> Total(t)]
        /\ event'.input_amount = result.input_amount
        /\ event'.output_amount = result.output_amount
        /\ event'.trade_fee = result.trade_fee
        /\ event'.creator_fee = result.creator_fee
        /\ event'.creator_fee_on_input = is_creator_fee_on_input(input)
    BY <2>1 DEF BaseInputEvent, SwapEvent
  <2> HIDE DEF result
  <2> QED
    BY <2>2, <2>3, SwapTold DEF SwapApplied
<1>4. CASE EmitSwapBaseOutput
  <2>1. PICK input \in Tokens, max_amount_in \in Limits, amount_out_received \in SwapAmounts :
          /\ Swap_base_output(input, max_amount_in, amount_out_received)
          /\ event' = BaseOutputEvent(input, amount_out_received)
    BY <1>4 DEF EmitSwapBaseOutput
  <2> DEFINE result == BaseOutputResult(MarketFor(input), amount_out_received)
  <2>2. TypeOK' /\ Solvent' /\ SwapApplied(input, result)
    BY <2>1, NamedAmounts, SwapBaseOutputSafe
  <2>3. /\ event'.name = "SwapEvent"
        /\ event'.input = input
        /\ event'.vault_before = [t \in Tokens |-> Total(t)]
        /\ event'.input_amount = result.input_amount
        /\ event'.output_amount = result.output_amount
        /\ event'.trade_fee = result.trade_fee
        /\ event'.creator_fee = result.creator_fee
        /\ event'.creator_fee_on_input = is_creator_fee_on_input(input)
    BY <2>1 DEF BaseOutputEvent, SwapEvent
  <2> HIDE DEF result
  <2> QED
    BY <2>2, <2>3, SwapTold DEF SwapApplied
<1> QED
  BY <1>1, <1>2, <1>3, <1>4 DEF EventsNext

\* What an observer knows is kept from one event to the next.
LEMMA ToldStep ==
  ASSUME IInv, [EventsNext]_eventVars, Told, EventsTellTotals
  PROVE  Told' /\ EventsTellTotals'
<1>1. CASE EventsNext /\ ~Silent
  BY <1>1, EmittedTold DEF Told, EventsTellTotals
<1>2. CASE Silent
  <2>1. event' = event
    BY <1>2 DEF Silent
  <2>2. CASE event = NoEvent
    BY <2>1, <2>2 DEF Told, EventsTellTotals
  <2>3. CASE event # NoEvent
    <3>1. pool_state.initialized /\ pool_state'.initialized
      BY <2>3, EventsStep, PoolStays DEF Told
    <3>2. \A t \in Tokens : Total(t)' = Total(t)
      BY <1>2, <3>1, SilentTotals
    <3>3. \A t \in Tokens : TotalsTold(t)' = TotalsTold(t)
      BY <2>1 DEF TotalsTold
    <3> QED
      BY <2>3, <3>1, <3>2, <3>3 DEF Told, EventsTellTotals
  <2> QED
    BY <2>2, <2>3
<1>3. CASE UNCHANGED eventVars
  BY <1>3 DEF Told, EventsTellTotals, TotalsTold, Total, FeesOwed, eventVars, vars, poolVars
<1> QED
  BY <1>1, <1>2, <1>3

\* Whoever only reads the events knows the totals at any later time, up to the
\* trade fee of the last swap, for every history of the pool.
THEOREM EventsAlwaysTellTotals == EventsSpec => []EventsTellTotals
<1>1. EventsInit => Told /\ EventsTellTotals
  BY DEF EventsInit, Told, EventsTellTotals
<1>2. IInv /\ Told /\ EventsTellTotals /\ [EventsNext]_eventVars => Told' /\ EventsTellTotals'
  BY ToldStep
<1>3. EventsSpec => []IInv
  BY EventsObserveThePool, Inductive, PTL
<1> QED
  BY <1>1, <1>2, <1>3, PTL DEF EventsSpec

(* ---------------------------- the transfers ---------------------------- *)

\* What EventsTellTransfers asks of every step.
AllMoves == SwapMoves /\ DepositMoves /\ WithdrawMoves

\* A deposit moves tokens into both vaults, and says how many.
LEMMA DepositReported ==
  ASSUME IInv, EmitDeposit
  PROVE  AllMoves
<1>1. PICK lp \in LpAmounts, maximum \in Pair(Limits) :
        deposit(lp, maximum) /\ event' = DepositEvent(lp)
  BY DEF EmitDeposit
<1>2. \A t \in Tokens :
        /\ DepositAmount(t, lp) \in Nat \ {0}
        /\ AmountReceived(mint[t], DepositAmount(t, lp)
               + get_transfer_inverse_fee(mint[t], DepositAmount(t, lp)))
             = DepositAmount(t, lp)
        /\ vault'[t] = vault[t] + DepositAmount(t, lp)
  BY <1>1, NamedAmounts, DepositSafe
<1>3. \A t \in Tokens :
        /\ event'.amount[t] = DepositAmount(t, lp)
        /\ event'.transfer_fee[t] = get_transfer_inverse_fee(mint[t], DepositAmount(t, lp))
  BY <1>1 DEF DepositEvent, LpChangeEvent, InverseFees
<1>4. \A t \in Tokens : Moved(t) = DepositAmount(t, lp) /\ Other(t) \in Tokens
  <2>1. \A t \in Tokens : vault[t] \in Nat /\ Other(t) \in Tokens
    BY PoolTypes DEF IInv, Other, Tokens
  <2> QED
    BY <1>2, <2>1 DEF Moved
<1>5. pool_state'.lp_supply >= pool_state.lp_supply /\ pool_state.lp_supply \in Nat
      /\ pool_state'.lp_supply \in Nat
  <2>1. pool_state' = [pool_state EXCEPT !.lp_supply = @ + lp, !.recent_epoch = epoch]
        /\ lp \in Nat
    BY <1>1, NamedAmounts, U64Assumption DEF deposit, Amounts
  <2>2. pool_state \in PoolStates /\ pool_state.lp_supply \in Nat
    BY PoolTypes DEF IInv, TypeOK
  <2>3. pool_state'.lp_supply = pool_state.lp_supply + lp
    BY <2>1, <2>2 DEF PoolStates
  <2> QED
    BY <2>1, <2>2, <2>3
<1>6. SwapMoves
  <2>1. \A t \in Tokens : ~(Moved(Other(t)) < 0)
    BY <1>2, <1>4
  <2> QED
    BY <2>1 DEF SwapMoves
<1>7. DepositMoves
  BY <1>2, <1>3, <1>4 DEF DepositMoves
<1>8. WithdrawMoves
  BY <1>5 DEF WithdrawMoves
<1> QED
  BY <1>6, <1>7, <1>8 DEF AllMoves

\* A withdrawal moves tokens out of both vaults, and says what arrives of them.
LEMMA WithdrawReported ==
  ASSUME IInv, EmitWithdraw
  PROVE  AllMoves
<1>1. PICK lp \in LpAmounts, minimum \in Pair(Limits) :
        withdraw(lp, minimum) /\ event' = WithdrawEvent(lp)
  BY DEF EmitWithdraw
<1>2. \A t \in Tokens : /\ WithdrawAmount(t, lp) \in Nat
                        /\ vault'[t] = vault[t] - WithdrawAmount(t, lp)
  BY <1>1, NamedAmounts, WithdrawSafe
<1>3. \A t \in Tokens : /\ vault[t] \in Nat /\ mint[t] \in Mints(Nat) /\ Other(t) \in Tokens
  BY PoolTypes DEF IInv, Other, Tokens
<1>4. \A t \in Tokens :
        /\ event'.amount[t] = AmountReceived(mint[t], WithdrawAmount(t, lp))
        /\ event'.transfer_fee[t] = get_transfer_fee(mint[t], WithdrawAmount(t, lp))
  BY <1>1 DEF WithdrawEvent, LpChangeEvent
<1>5. \A t \in Tokens : Moved(t) = -WithdrawAmount(t, lp)
  BY <1>2, <1>3 DEF Moved
<1>6. pool_state'.lp_supply <= pool_state.lp_supply /\ pool_state.lp_supply \in Nat
      /\ pool_state'.lp_supply \in Int
  <2>1. pool_state' = [pool_state EXCEPT !.lp_supply = @ - lp, !.recent_epoch = epoch]
        /\ lp \in Nat
    BY <1>1, NamedAmounts, U64Assumption DEF withdraw, Amounts
  <2>2. pool_state \in PoolStates /\ pool_state.lp_supply \in Nat
    BY PoolTypes DEF IInv, TypeOK
  <2>3. pool_state'.lp_supply = pool_state.lp_supply - lp
    BY <2>1, <2>2 DEF PoolStates
  <2> QED
    BY <2>1, <2>2, <2>3
<1>7. SwapMoves
  <2>1. \A t \in Tokens : ~(Moved(t) > 0)
    BY <1>2, <1>5
  <2> QED
    BY <2>1 DEF SwapMoves
<1>8. DepositMoves
  BY <1>6 DEF DepositMoves
<1>9. ASSUME NEW t \in Tokens
      PROVE  /\ Moved(t) = -(event'.amount[t] + event'.transfer_fee[t])
             /\ AmountReceived(mint[t], -Moved(t)) = event'.amount[t]
  <2> DEFINE amount == WithdrawAmount(t, lp)
             fee    == get_transfer_fee(mint[t], amount)
  <2>1. amount \in Nat /\ fee \in Nat /\ AmountReceived(mint[t], amount) = amount - fee
    BY <1>2, <1>3, TransferFeeBounded DEF AmountReceived
  <2>2. event'.amount[t] = amount - fee /\ event'.transfer_fee[t] = fee
    BY <1>4, <2>1
  <2>3. Moved(t) = -amount
    BY <1>5
  <2> HIDE DEF amount, fee
  <2>4. -Moved(t) = amount
    BY <2>1, <2>3
  <2> QED
    BY <2>1, <2>2, <2>3, <2>4
<1> QED
  BY <1>7, <1>8, <1>9 DEF WithdrawMoves, AllMoves

\* A swap moves tokens in on one side and out on the other, and says how many,
\* if its event gives the fees that the token programs charge.
LEMMA SwapReported ==
  ASSUME IInv, NEW input \in Tokens, NEW result, SwapApplied(input, result),
         event'.input_amount = result.input_amount,
         event'.output_amount = result.output_amount,
         AmountReceived(mint[input], event'.input_amount + event'.input_transfer_fee)
           = result.input_amount,
         AmountReceived(mint[Other(input)], event'.output_amount)
           = event'.output_amount - event'.output_transfer_fee
  PROVE  AllMoves
<1> DEFINE output == Other(input)
<1>1. output \in Tokens /\ output # input /\ Other(output) = input
      /\ \A t \in Tokens : t = input \/ t = output
  BY DEF Other, Tokens
<1>2. vault[input] \in Nat /\ vault[output] \in Nat /\ pool_state.lp_supply \in Nat
  BY <1>1, PoolTypes DEF IInv
<1>3. /\ Moved(input) = result.input_amount
      /\ Moved(output) = -result.output_amount
      /\ result.input_amount \in Nat
      /\ result.output_amount \in Nat
  BY <1>2 DEF SwapApplied, Moved
<1>4. pool_state'.lp_supply = pool_state.lp_supply
  BY DEF SwapApplied
<1>5. SwapMoves
  <2>1. ~(Moved(output) > 0)
    BY <1>3
  <2> QED
    BY <1>1, <1>3, <2>1 DEF SwapMoves
<1>6. DepositMoves /\ WithdrawMoves
  BY <1>2, <1>4 DEF DepositMoves, WithdrawMoves
<1> QED
  BY <1>5, <1>6 DEF AllMoves

\* swap_base_output quotes for exactly the output it is asked for.
LEMMA OutputAsAsked ==
  ASSUME NEW output \in Nat, NEW input_vault, NEW output_vault, NEW rates,
         BoundedRates(rates), NEW on_input \in BOOLEAN,
         SwapBaseOutputDefined(output, output_vault, rates, on_input)
  PROVE  swap_base_output(output, input_vault, output_vault, rates, on_input).output_amount
           = output
<1> DEFINE actual == ActualOutputAmount(output, rates, on_input)
<1>1. actual \in Nat
  <2>1. rates.creator_fee_rate \in Nat
        /\ rates.creator_fee_rate < FEE_RATE_DENOMINATOR_VALUE
    BY RatesType, DenominatorAssumption DEF BoundedRates
  <2> QED
    BY <2>1, PreFeeGrows DEF ActualOutputAmount
<1>2. swap_base_output(output, input_vault, output_vault, rates, on_input).output_amount
        = actual - (actual - output)
  BY DEF swap_base_output, SwapResult, OutputLeft
<1> HIDE DEF actual
<1> QED
  BY <1>1, <1>2

\* The events of both swaps give the fees that the token programs charge: on the
\* input of a base-input swap by the direct formula,
LEMMA BaseInputReported ==
  ASSUME IInv, EmitSwapBaseInput
  PROVE  AllMoves
<1>1. PICK input \in Tokens, amount_in \in SwapAmounts, minimum_amount_out \in Limits :
        /\ Swap_base_input(input, amount_in, minimum_amount_out)
        /\ event' = BaseInputEvent(input, amount_in)
  BY DEF EmitSwapBaseInput
<1> DEFINE result == BaseInputResult(MarketFor(input), amount_in)
           fee    == get_transfer_fee(mint[input], amount_in)
<1>2. /\ SwapApplied(input, result)
      /\ AmountReceived(mint[input], amount_in) = result.input_amount
  BY <1>1, NamedAmounts, SwapBaseInputSafe
<1>3. /\ event'.input_amount = result.input_amount
      /\ event'.output_amount = result.output_amount
      /\ event'.input_transfer_fee = fee
      /\ event'.output_transfer_fee = get_transfer_fee(mint[Other(input)], result.output_amount)
  BY <1>1 DEF BaseInputEvent, SwapEvent
<1>4. amount_in \in Nat /\ mint[input] \in Mints(Nat)
  BY NamedAmounts, PoolTypes DEF IInv, Amounts
<1>5. fee \in Nat /\ result.input_amount = amount_in - fee
  BY <1>2, <1>4, TransferFeeBounded DEF AmountReceived
<1> HIDE DEF result, fee
<1>6. event'.input_amount + event'.input_transfer_fee = amount_in
  BY <1>3, <1>4, <1>5
<1>7. AmountReceived(mint[Other(input)], event'.output_amount)
        = event'.output_amount - event'.output_transfer_fee
  BY <1>3 DEF AmountReceived
<1> QED
  BY <1>2, <1>3, <1>6, <1>7, SwapReported

\* and of a base-output swap by the inverse one, on both sides.
LEMMA BaseOutputReported ==
  ASSUME IInv, EmitSwapBaseOutput
  PROVE  AllMoves
<1>1. PICK input \in Tokens, max_amount_in \in Limits, amount_out_received \in SwapAmounts :
        /\ Swap_base_output(input, max_amount_in, amount_out_received)
        /\ event' = BaseOutputEvent(input, amount_out_received)
  BY DEF EmitSwapBaseOutput
<1> DEFINE market == MarketFor(input)
           result == BaseOutputResult(market, amount_out_received)
           output == Other(input)
           fee    == get_transfer_inverse_fee(mint[output], amount_out_received)
           fee_in == get_transfer_inverse_fee(mint[input], result.input_amount)
<1>2. /\ SwapApplied(input, result)
      /\ AmountReceived(mint[input], InputTransferAmount(market, amount_out_received))
           = result.input_amount
  BY <1>1, NamedAmounts, SwapBaseOutputSafe
<1>3. /\ event'.input_amount = result.input_amount
      /\ event'.output_amount = result.output_amount
      /\ event'.input_transfer_fee = fee_in
      /\ event'.output_transfer_fee = fee
  BY <1>1 DEF BaseOutputEvent, SwapEvent
<1>4. /\ amount_out_received \in Nat
      /\ mint[output] \in Mints(Nat)
      /\ Total(output) \in Nat
  BY NamedAmounts, PoolTypes, TotalType DEF IInv, Amounts, Other, Tokens
<1>5. InputTransferAmount(market, amount_out_received)
        = event'.input_amount + event'.input_transfer_fee
  BY <1>3, MarketFields DEF InputTransferAmount
<1>6. fee \in Nat /\ AmountReceived(mint[output], amount_out_received + fee) = amount_out_received
  <2>1. TransferInverseFeeOk(mint[output], amount_out_received)
    BY <1>1, MarketFields DEF Swap_base_output, BaseOutputOk
  <2> QED
    BY <1>4, <2>1, InverseFeeExact, InverseFeeType
<1>7. result.output_amount = amount_out_received + fee
  <2> DEFINE amount_out == AmountOutWithTransferFee(market, amount_out_received)
             on_input   == is_creator_fee_on_input(input)
  <2>1. amount_out = amount_out_received + fee
    BY MarketFields DEF AmountOutWithTransferFee
  <2>2. SwapBaseOutputDefined(amount_out, Total(output), market.rates, on_input)
    BY <1>1, MarketFields DEF Swap_base_output, BaseOutputOk
  <2>3. result = swap_base_output(amount_out, Total(input), Total(output), market.rates, on_input)
    BY MarketFields DEF BaseOutputResult
  <2>4. BoundedRates(market.rates) /\ on_input \in BOOLEAN
    BY MarketRates, MarketFields
  <2> HIDE DEF market, result, fee, amount_out, on_input
  <2>5. amount_out \in Nat
    BY <1>4, <1>6, <2>1
  <2> QED
    BY <1>4, <2>1, <2>2, <2>3, <2>4, <2>5, OutputAsAsked
<1> HIDE DEF market, result, fee, fee_in
<1>8. AmountReceived(mint[output], event'.output_amount)
        = event'.output_amount - event'.output_transfer_fee
  BY <1>3, <1>4, <1>6, <1>7
<1> QED
  BY <1>2, <1>3, <1>5, <1>8, SwapReported

\* A step that writes no event makes no moves of the kinds that events tell of:
\* no LP but the first comes or goes, and no token enters while the other leaves.
LEMMA QuietMoves ==
  ASSUME IInv,
         \A t \in Tokens : vault'[t] \in Int,
         \/ \A t \in Tokens : vault'[t] >= vault[t]
         \/ \A t \in Tokens : vault'[t] <= vault[t],
         \/ pool_state'.lp_supply = pool_state.lp_supply
         \/ ~pool_state.initialized /\ ~(pool_state'.lp_supply < pool_state.lp_supply)
  PROVE  AllMoves
<1>1. \A t \in Tokens : vault[t] \in Nat /\ Other(t) \in Tokens
  BY PoolTypes DEF IInv, Other, Tokens
<1>2. pool_state.lp_supply \in Nat
  BY PoolTypes DEF IInv
<1>3. \A t \in Tokens : ~(Moved(t) > 0 /\ Moved(Other(t)) < 0)
  BY <1>1 DEF Moved
<1>4. SwapMoves
  BY <1>3 DEF SwapMoves
<1>5. DepositMoves /\ WithdrawMoves
  BY <1>2 DEF DepositMoves, WithdrawMoves
<1> QED
  BY <1>4, <1>5 DEF AllMoves

\* A collection takes out of both vaults.
LEMMA PayOutMoves ==
  ASSUME IInv, NEW amounts \in [Tokens -> Nat], PayOut(amounts),
         pool_state'.lp_supply = pool_state.lp_supply
  PROVE  AllMoves
<1>1. \A t \in Tokens : vault[t] \in Nat /\ amounts[t] \in Nat
  BY PoolTypes DEF IInv
<1>2. \A t \in Tokens : vault'[t] \in Int /\ vault'[t] <= vault[t]
  BY <1>1 DEF PayOut
<1> QED
  BY <1>2, QuietMoves

\* No silent step of the pool should have been told.
LEMMA SilentReported ==
  ASSUME IInv, Empty, Silent
  PROVE  AllMoves
<1>1. pool_state \in PoolStates /\ \A t \in Tokens : vault[t] \in Nat
  BY PoolTypes DEF IInv, TypeOK
<1>2. CASE CreateAPool
  <2>2. TypeOK'
    BY <1>2, NextSafe DEF Next
  <2>3. \A t \in Tokens : vault'[t] \in Nat
    BY <2>2, U64Assumption DEF TypeOK, Amounts
  <2>4. ~pool_state.initialized
    BY <1>2 DEF CreateAPool, initialize, initialize_with_permission, CreatePool
  <2>5. vault = Nothing /\ pool_state.lp_supply = 0
    BY <2>4 DEF Empty, IInv, Uncreated, ZeroedPool
  <2>6. pool_state'.lp_supply \in Nat
    BY <2>2, U64Assumption DEF TypeOK, PoolStates, Amounts
  <2>7. \A t \in Tokens : vault'[t] \in Int /\ vault'[t] >= vault[t]
    BY <2>3, <2>5 DEF Nothing
  <2> QED
    BY <2>4, <2>5, <2>6, <2>7, QuietMoves
<1>3. \A requested \in Pair(Limits) : requested \in [Tokens -> Amounts]
  BY PoolAssumption DEF Pair
<1>4. CASE CollectProtocolFee \/ CollectFundFee \/ CollectCreatorFee
  <2>1. /\ pool_state.protocol_fees \in [Tokens -> Amounts]
        /\ pool_state.fund_fees \in [Tokens -> Amounts]
        /\ pool_state.creator_fees \in [Tokens -> Nat]
    BY <1>1, U64Assumption DEF PoolStates, Amounts
  <2>2. CASE CollectProtocolFee
    <3>1. PICK owner \in Keys, requested \in Pair(Limits) : collect_protocol_fee(owner, requested)
      BY <2>2 DEF CollectProtocolFee
    <3>2. PayOut(Collected(pool_state.protocol_fees, requested))
      BY <3>1 DEF collect_protocol_fee
    <3>3. Collected(pool_state.protocol_fees, requested) \in [Tokens -> Nat]
      BY <1>3, <2>1, CollectedType
    <3> QED
      BY <1>3, <3>1, <3>2, <3>3, CollectProtocolFeeSafe, PayOutMoves
  <2>3. CASE CollectFundFee
    <3>1. PICK owner \in Keys, requested \in Pair(Limits) : collect_fund_fee(owner, requested)
      BY <2>3 DEF CollectFundFee
    <3>2. PayOut(Collected(pool_state.fund_fees, requested))
      BY <3>1 DEF collect_fund_fee
    <3>3. Collected(pool_state.fund_fees, requested) \in [Tokens -> Nat]
      BY <1>3, <2>1, CollectedType
    <3> QED
      BY <1>3, <3>1, <3>2, <3>3, CollectFundFeeSafe, PayOutMoves
  <2>4. CASE CollectCreatorFee
    BY <2>1, <2>4, CollectCreatorFeeSafe, PayOutMoves DEF CollectCreatorFee, collect_creator_fee
  <2> QED
    BY <1>4, <2>2, <2>3, <2>4
<1>5. CASE UpdatePoolStatus
  <2>1. vault' = vault /\ pool_state'.lp_supply = pool_state.lp_supply
    BY <1>1, <1>5 DEF UpdatePoolStatus, update_pool_status, PoolStates
  <2> QED
    BY <1>1, <2>1, QuietMoves
<1>6. CASE UpdateConfig \/ UpdateRegistry \/ BurnLpTokens \/ ClockMoves \/ EpochBegins
  <2>1. vault' = vault /\ pool_state' = pool_state
    BY <1>6 DEF UpdateConfig, UpdateRegistry, BurnLpTokens, BurnLp, ClockMoves, EpochBegins,
                poolVars
  <2> QED
    BY <1>1, <2>1, QuietMoves
<1> QED
  BY <1>2, <1>4, <1>5, <1>6 DEF Silent

\* In every event, amounts and transfer fees are what the token programs really
\* move and keep, for every history of the pool and every fee of its mints.
THEOREM EventsAlwaysTellTransfers == EventsSpec => EventsTellTransfers
<1>1. IInv /\ Empty /\ [EventsNext]_eventVars => Empty' /\ [AllMoves]_eventVars
  <2> SUFFICES ASSUME IInv, Empty, [EventsNext]_eventVars
               PROVE  Empty' /\ [AllMoves]_eventVars
    OBVIOUS
  <2>1. Empty'
    BY EventsStep, PoolStays DEF Empty, Nothing
  <2>2. EventsNext => AllMoves
    BY DepositReported, WithdrawReported, BaseInputReported, BaseOutputReported, SilentReported
       DEF EventsNext
  <2> QED
    BY <2>1, <2>2
<1>2. EventsInit => Empty
  BY DEF EventsInit, Init, Empty
<1>3. EventsSpec => []IInv
  BY EventsObserveThePool, Inductive, PTL
<1> QED
  BY <1>1, <1>2, <1>3, PTL DEF EventsSpec, EventsTellTransfers, AllMoves

================================================================================
