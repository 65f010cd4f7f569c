-------------------------------- MODULE Events --------------------------------
(***************************************************************************)
(* The events a pool writes to the transaction log, for programs that      *)
(* follow pools without reading their accounts.  Only four handlers write  *)
(* one: nothing tells of a pool's creation, a collection of fees, a change *)
(* of its status or config, or a gift to a vault.                          *)
(*                                                                         *)
(* `event` is the last event of the pool.  The addresses in it are left    *)
(* out, but for the direction of a swap.                                   *)
(***************************************************************************)
EXTENDS PoolProperties

VARIABLE event

eventVars == <<vars, event>>

NoEvent == [name |-> "none"]

(* ------------------------------ the records ---------------------------- *)

\* What a fee makes of the transfers to and from the vaults.
InverseFees(amounts) == [t \in Tokens |-> get_transfer_inverse_fee(mint[t], amounts[t])]

LpChangeEvent(change_type, amounts, transfer_fees) ==
  [name |-> "LpChangeEvent",
   change_type |-> change_type,
   lp_amount_before |-> pool_state.lp_supply,
   vault_before |-> [t \in Tokens |-> Total(t)],
   amount |-> amounts,
   transfer_fee |-> transfer_fees]

DepositEvent(lp_token_amount) ==
  LET amounts == [t \in Tokens |-> DepositAmount(t, lp_token_amount)]
  IN  LpChangeEvent(0, amounts, InverseFees(amounts))

\* reports what leaves the vault, as the deposit reports what arrives
BugGrossWithdrawal(lp_token_amount) ==
  LET amounts == [t \in Tokens |-> WithdrawAmount(t, lp_token_amount)]
  IN  LpChangeEvent(1, amounts, [t \in Tokens |-> get_transfer_fee(mint[t], amounts[t])])

\* The amounts are what the owner receives.
WithdrawEvent(lp_token_amount) ==
  LET received == [t \in Tokens |-> AmountReceived(mint[t], WithdrawAmount(t, lp_token_amount))]
  IN  LpChangeEvent(1, received,
        [t \in Tokens |-> get_transfer_fee(mint[t], WithdrawAmount(t, lp_token_amount))])

\* Both swaps report what arrives in one vault and what leaves the other.
SwapEvent(input, result, input_transfer_fee, base_input) ==
  [name |-> "SwapEvent",
   input |-> input,
   vault_before |-> [t \in Tokens |-> Total(t)],
   input_amount |-> result.input_amount,
   output_amount |-> result.output_amount,
   input_transfer_fee |-> input_transfer_fee,
   output_transfer_fee |-> get_transfer_fee(mint[Other(input)], result.output_amount),
   base_input |-> base_input,
   trade_fee |-> result.trade_fee,
   creator_fee |-> result.creator_fee,
   creator_fee_on_input |-> is_creator_fee_on_input(input)]

BaseInputEvent(input, amount_in) ==
  SwapEvent(input, BaseInputResult(MarketFor(input), amount_in),
            get_transfer_fee(mint[input], amount_in), TRUE)

\* out_transfer_fee is the inverse fee of the amount the caller wants.
BaseOutputEvent(input, amount_out_received) ==
  LET result == BaseOutputResult(MarketFor(input), amount_out_received)
  IN  [SwapEvent(input, result, get_transfer_inverse_fee(mint[input], result.input_amount), FALSE)
         EXCEPT !.output_transfer_fee =
                  get_transfer_inverse_fee(mint[Other(input)], amount_out_received)]

(* ------------------------------ behaviours ----------------------------- *)

\* The handlers that emit; an instruction that fails undoes its log line as well.
EmitDeposit ==
  \E lp \in LpAmounts, maximum \in Pair(Limits) :
    deposit(lp, maximum) /\ event' = DepositEvent(lp)

EmitWithdraw ==
  \E lp \in LpAmounts, minimum \in Pair(Limits) :
    withdraw(lp, minimum) /\ event' = WithdrawEvent(lp)

EmitSwapBaseInput ==
  \E input \in Tokens, amount_in \in SwapAmounts, minimum_amount_out \in Limits :
    /\ Swap_base_input(input, amount_in, minimum_amount_out)
    /\ event' = BaseInputEvent(input, amount_in)

EmitSwapBaseOutput ==
  \E input \in Tokens, max_amount_in \in Limits, amount_out_received \in SwapAmounts :
    /\ Swap_base_output(input, max_amount_in, amount_out_received)
    /\ event' = BaseOutputEvent(input, amount_out_received)

\* Gifts to a vault are left out: no event can tell of them.
Silent ==
  /\ \/ CreateAPool
     \/ CollectProtocolFee
     \/ CollectFundFee
     \/ CollectCreatorFee
     \/ UpdatePoolStatus
     \/ UpdateConfig
     \/ UpdateRegistry
     \/ BurnLpTokens
     \/ ClockMoves
     \/ EpochBegins
  /\ UNCHANGED event

EventsInit == Init /\ event = NoEvent

EventsNext ==
  \/ EmitDeposit
  \/ EmitWithdraw
  \/ EmitSwapBaseInput
  \/ EmitSwapBaseOutput
  \/ Silent

EventsSpec == EventsInit /\ [][EventsNext]_eventVars

(* ------------------------------ properties ----------------------------- *)

\* What follows from the last event for the pool's holdings net of fees.  A swap
\* does not tell how much of the trade fee stays with the pool.
TotalsTold(t) ==
  IF event.name = "LpChangeEvent"
  THEN IF event.change_type = 0
       THEN {event.vault_before[t] + event.amount[t]}
       ELSE {event.vault_before[t] - event.amount[t] - event.transfer_fee[t]}
  ELSE LET creator_part == IF event.creator_fee_on_input = (t = event.input)
                          THEN event.creator_fee
                          ELSE 0
           most == event.vault_before[t] + event.input_amount - creator_part
       IN  IF t = event.input
           THEN (most - event.trade_fee)..most
           ELSE {event.vault_before[t] - event.output_amount - creator_part}

\* Who only reads the events knows what backs the pool at any later time, up to
\* the trade fee of the last swap: everything the pool does silently, collecting
\* fees in any portions or changing its rates and status, leaves that alone, and
\* "pool vault sub trade fees" in the next event continues the last one.
EventsTellTotals == event # NoEvent => \A t \in Tokens : Total(t) \in TotalsTold(t)

Moved(t) == vault'[t] - vault[t]

SwapMoves ==
  \A t \in Tokens : Moved(t) > 0 /\ Moved(Other(t)) < 0 =>
    /\ Moved(t) = event'.input_amount
    /\ AmountReceived(mint[t], event'.input_amount + event'.input_transfer_fee) = Moved(t)
    /\ Moved(Other(t)) = -event'.output_amount
    /\ AmountReceived(mint[Other(t)], event'.output_amount) =
         event'.output_amount - event'.output_transfer_fee

DepositMoves ==
  \A t \in Tokens :
    pool_state.initialized /\ pool_state'.lp_supply > pool_state.lp_supply =>
    /\ Moved(t) = event'.amount[t]
    /\ AmountReceived(mint[t], event'.amount[t] + event'.transfer_fee[t]) = Moved(t)

WithdrawMoves ==
  \A t \in Tokens : pool_state'.lp_supply < pool_state.lp_supply =>
    /\ Moved(t) = -(event'.amount[t] + event'.transfer_fee[t])
    /\ AmountReceived(mint[t], -Moved(t)) = event'.amount[t]

\* In every event, amounts and transfer fees are what the token programs really
\* move and keep, whatever fee a mint comes to charge and on whichever side of a
\* transfer the handler computed it: an input amount is what arrives in the vault
\* when it is sent with its fee on top, an output amount what leaves the vault, and
\* of a withdrawal the amounts are what arrives.
EventsTellTransfers == [][SwapMoves /\ DepositMoves /\ WithdrawMoves]_eventVars

=============================================================================
