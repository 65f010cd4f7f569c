------------------------------ MODULE ClientProofs -----------------------------
(***************************************************************************)
(* What the user of the client may rely on, for every value of the         *)
(* constants and every interleaving with others: the reports are true, the *)
(* configured slippage bounds the loss, and a quote that is still fresh is *)
(* the program's own, so that its limits stop nothing.                     *)
(*                                                                         *)
(* ClientInv is the inductive invariant.  The pool underneath keeps IInv,  *)
(* because the client's transaction is one of its steps; on top of it, the *)
(* phase tells how far the transaction is, and limits that can still meet  *)
(* the chain are those computed from the quote.  FreshInv adds what the    *)
(* history variable is for.                                                *)
(***************************************************************************)
EXTENDS Client, PoolProofs, FloatTheorems

\* Mints charge what their schedules say.
MintsOnSchedule == \A t \in Tokens : mint[t] = get_epoch_fee(FeeConfigs[t], epoch)

\* Until it is signed there is no transaction.
Building == {"idle", "started", "addressed", "read", "quoted"}

PhaseOfTransaction ==
  /\ phase \in Building => txn = Unsent
  /\ phase = "signed" => txn.status = "signed"

\* What was read is a pool that a quote can be computed for.
Readable ==
  /\ phase \in {"addressed", "read"} => command.kind # "initialize" /\ pool_state.initialized
  /\ phase = "read" => /\ \A t \in Tokens : seen.total[t] # 0
                       /\ BoundedRates(seen.rates)

\* The limits may still meet the chain.
Live ==
  \/ phase = "quoted"
  \/ phase = "signed" /\ txn.valid
  \/ CanExecute

\* How the limits that bind follow from the quote.  A deposit's have the transfer
\* fee on top, a withdrawal's are less the fee.
LimitsFromQuote(quote, within) ==
  /\ command.kind = "deposit" =>
       \A t \in Tokens :
         ChargesNothing(t) => within[t] = amount_with_slippage(quote[t], command.slippage, TRUE)
  /\ command.kind = "withdraw" =>
       \A t \in Tokens :
         ChargesNothing(t) => within[t] = amount_with_slippage(quote[t], command.slippage, FALSE)
  /\ command.kind = "swap_base_in" =>
       LET t == Other(command.input)
       IN  within[t] = amount_with_slippage(quote[t], command.slippage, FALSE)
  /\ command.kind = "swap_base_out" =>
       LET t == command.input
       IN  within[t] = amount_with_slippage(quote[t], command.slippage, TRUE)

ClientInv ==
  /\ IInv
  /\ VaultsStartEmpty
  /\ ClientTypeOK
  /\ ReportsAreTrue
  /\ MintsOnSchedule
  /\ PhaseOfTransaction
  /\ Readable
  /\ Live => LimitsFromQuote(quoted, limits)

(* ------------------------- the types of a run -------------------------- *)

\* What a command line names, by its kind.
LEMMA CommandTypes ==
  ASSUME command \in Commands
  PROVE  /\ command.kind \in {"initialize", "deposit", "withdraw", "swap_base_in",
                              "swap_base_out"}
         /\ command.kind = "initialize" =>
              /\ SortedAmounts \in [Tokens -> Amounts]
              /\ command.open_time \in 0..MAX_TIME
         /\ command.kind \in {"deposit", "withdraw"} => command.lp \in Amounts
         /\ command.kind \in {"swap_base_in", "swap_base_out"} =>
              command.input \in Tokens /\ command.amount \in Amounts
         /\ command.kind # "initialize" => command.slippage \in 0..SLIPPAGE_SCALE
<1>1. command \in CommandLines
  BY ClientAssumption
<1>2. CASE command \in [kind: {"initialize"}, first: Tokens, amounts: [Tokens -> Amounts],
                        open_time: 0..MAX_TIME]
  <2>1. \A t \in Tokens : Other(t) \in Tokens
    BY DEF Other, Tokens
  <2> QED
    BY <1>2, <2>1 DEF SortedAmounts
<1>3. CASE command \in [kind: {"deposit", "withdraw"}, lp: Amounts,
                        slippage: 0..SLIPPAGE_SCALE]
  BY <1>3
<1>4. CASE command \in [kind: {"swap_base_in", "swap_base_out"}, input: Tokens, amount: Amounts,
                        slippage: 0..SLIPPAGE_SCALE]
  BY <1>4
<1> QED
  BY <1>1, <1>2, <1>3, <1>4 DEF CommandLines

\* A fee schedule gives a mint's fee, whatever it is asked for in place of an epoch.
LEMMA ScheduledFee ==
  ASSUME NEW t \in Tokens, NEW e \in Nat
  PROVE  /\ get_epoch_fee(FeeConfigs[t], e) \in Mints(Nat)
         /\ get_epoch_fee(FeeConfigs[t], e).program = FeeConfigs[t].program
         /\ ChargesNothing(t) => get_epoch_fee(FeeConfigs[t], e).transfer_fee_basis_points = 0
<1> DEFINE config == FeeConfigs[t]
<1>1. config \in TransferFeeConfigs(Nat, 0..MAX_EPOCH)
  BY ClientAssumption
<1>2. /\ config.older \in Fees(Nat)
      /\ config.newer \in Fees(Nat)
      /\ config.newer_epoch \in 0..MAX_EPOCH
      /\ config.program \in {"spl_token", "token_2022"}
  BY <1>1 DEF TransferFeeConfigs
<1>3. get_epoch_fee(config, e) \in Mints(Nat) /\ get_epoch_fee(config, e).program = config.program
  BY <1>2 DEF get_epoch_fee, Fees, Mints
<1>4. ASSUME ChargesNothing(t)
      PROVE  get_epoch_fee(config, e).transfer_fee_basis_points = 0
  <2>1. MAX_EPOCH \in Nat
    BY PoolAssumption
  <2>2. CASE e >= config.newer_epoch
    <3>1. get_epoch_fee(config, e) = get_epoch_fee(config, config.newer_epoch)
      BY <1>2, <2>1, <2>2 DEF get_epoch_fee
    <3> QED
      BY <1>2, <1>4, <3>1 DEF ChargesNothing
  <2>3. CASE ~(e >= config.newer_epoch)
    <3>1. e \in 0..MAX_EPOCH
      BY <1>2, <2>1, <2>3
    <3> QED
      BY <1>4, <3>1 DEF ChargesNothing
  <2> QED
    BY <2>2, <2>3
<1> QED
  BY <1>3, <1>4

(* ------------------------- the pool underneath ------------------------- *)

\* The client's transaction is a step that the pool's own invariant allows: its
\* command may name any amounts, not only those of Pool's small sets.
LEMMA ExecuteSafe ==
  ASSUME IInv, command \in Commands, NEW within, Execute(within)
  PROVE  IInv' /\ pool_state'.initialized /\ Shares!Next
<1>1. Caller \in Keys /\ BothToken \in CreatorFeeOn /\ FALSE \in BOOLEAN
  BY ClientAssumption DEF CreatorFeeOn
<1>2. CASE initialize_pool_instr
  <2>1. CreatePool(Caller, SortedAmounts, command.open_time, BothToken, FALSE)
    BY <1>2 DEF initialize_pool_instr, initialize
  <2>2. SortedAmounts \in [Tokens -> Amounts] /\ command.open_time \in 0..MAX_TIME
    BY <1>2, CommandTypes DEF initialize_pool_instr
  <2>3. /\ TypeOK' /\ Config!RatesBounded' /\ Uncreated' /\ Solvent'
        /\ Shares!Next
    BY <1>1, <2>1, <2>2, CreatePoolSafe DEF Shares!Next
  <2>4. pool_state'.initialized
    BY <2>1 DEF CreatePool, NewPool
  <2>5. SharesInv'
    BY <2>3, SharesPreserved DEF IInv
  <2> QED
    BY <2>3, <2>4, <2>5 DEF IInv
<1>3. CASE ~initialize_pool_instr
  <2>1. /\ TypeOK' /\ Config!RatesBounded' /\ Uncreated' /\ Solvent'
        /\ Shares!Next
        /\ pool_state'.initialized
    <3>1. CASE deposit_instr(within)
      BY <3>1, CommandTypes, DepositSafe DEF deposit_instr, Shares!Next
    <3>2. CASE withdraw_instr(within)
      BY <3>2, CommandTypes, WithdrawSafe DEF withdraw_instr, Shares!Next
    <3>3. CASE swap_base_input_instr(within)
      BY <3>3, CommandTypes, SwapBaseInputSafe
         DEF swap_base_input_instr, SwapApplied, Shares!Next
    <3>4. CASE swap_base_output_instr(within)
      BY <3>4, CommandTypes, SwapBaseOutputSafe
         DEF swap_base_output_instr, SwapApplied, Shares!Next
    <3> QED
      BY <1>3, <3>1, <3>2, <3>3, <3>4 DEF Execute
  <2>2. SharesInv'
    BY <2>1, SharesPreserved DEF IInv
  <2> QED
    BY <2>1, <2>2 DEF IInv
<1> QED
  BY <1>2, <1>3

\* A transaction leaves the mints and the epoch to the chain.
LEMMA ExecuteKeepsChain ==
  ASSUME NEW within, Execute(within)
  PROVE  UNCHANGED <<mint, epoch>>
<1>1. CASE initialize_pool_instr
  BY <1>1 DEF initialize_pool_instr, initialize, CreatePool, chainVars
<1>2. CASE deposit_instr(within)
  BY <1>2 DEF deposit_instr, deposit, chainVars
<1>3. CASE withdraw_instr(within)
  BY <1>3 DEF withdraw_instr, withdraw, chainVars
<1>4. CASE swap_base_input_instr(within)
  BY <1>4 DEF swap_base_input_instr, Swap_base_input, ApplySwap, chainVars
<1>5. CASE swap_base_output_instr(within)
  BY <1>5 DEF swap_base_output_instr, Swap_base_output, ApplySwap, chainVars
<1> QED
  BY <1>1, <1>2, <1>3, <1>4, <1>5 DEF Execute

\* The invariant of the pool is kept by a step of Pool's Next as well.
LEMMA OthersSafe ==
  ASSUME IInv, VaultsStartEmpty, [Next]_vars
  PROVE  /\ IInv'
         /\ VaultsStartEmpty'
         /\ pool_state.initialized => pool_state'.initialized
         /\ [Shares!Next]_Shares!vars
<1>1. /\ TypeOK' /\ Config!RatesBounded' /\ Uncreated' /\ Solvent'
      /\ Shares!Next \/ UNCHANGED Shares!vars
  BY NextSafe, StutterSafe
<1>2. SharesInv'
  BY <1>1, SharesPreserved DEF IInv
<1>3. pool_state.initialized => pool_state'.initialized
  BY <1>1 DEF Shares!Next, Shares!Open, Shares!Exchange, Shares!Trade, Shares!Forfeit,
              Shares!vars
<1> QED
  BY <1>1, <1>2, <1>3, VaultsStartEmptyStep DEF IInv

\* Whatever the run does, the pool keeps its invariant, stays initialized, and
\* its mints stay on schedule.
LEMMA PoolUnderneath ==
  ASSUME IInv, VaultsStartEmpty, command \in Commands, MintsOnSchedule, [ClientNext]_allVars
  PROVE  /\ IInv'
         /\ VaultsStartEmpty'
         /\ pool_state.initialized => pool_state'.initialized
         /\ MintsOnSchedule'
         /\ [Shares!Next]_Shares!vars
<1>1. CASE UNCHANGED vars
  <2>1. /\ IInv' /\ VaultsStartEmpty'
        /\ pool_state.initialized => pool_state'.initialized
        /\ [Shares!Next]_Shares!vars
    BY <1>1, OthersSafe
  <2>2. UNCHANGED <<mint, epoch>>
    BY <1>1 DEF vars, chainVars
  <2> QED
    BY <2>1, <2>2 DEF MintsOnSchedule
<1>2. CASE Execute(limits)
  <2>1. UNCHANGED <<mint, epoch>>
    BY <1>2, ExecuteKeepsChain
  <2> QED
    BY <1>2, <2>1, ExecuteSafe DEF MintsOnSchedule, VaultsStartEmpty
<1>3. CASE OthersAct
  BY <1>3, OthersSafe DEF OthersAct, MintsOnSchedule
<1> QED
  BY <1>1, <1>2, <1>3
     DEF ClientNext, Start, ClientStep, LoadAddresses, ReadAccounts, ReadEpoch, Sign, Send, Poll,
         CheckBlockhash, RpcFails, TransactionExecutes, BlockhashExpires, poolUnchanged, allVars

(* ------------------------------ the quotes ----------------------------- *)

\* The two fees of the client, on any amount.
LEMMA ClientFees ==
  ASSUME NEW t \in Tokens, NEW e \in Nat, NEW amount \in Nat
  PROVE  /\ EpochFee(FeeConfigs[t], e, amount) \in Nat
         /\ EpochFee(FeeConfigs[t], e, amount) <= amount
         /\ InverseEpochFee(FeeConfigs[t], e, amount) \in Nat
         /\ ChargesNothing(t) => /\ EpochFee(FeeConfigs[t], e, amount) = 0
                                 /\ InverseEpochFee(FeeConfigs[t], e, amount) = 0
<1> DEFINE m == get_epoch_fee(FeeConfigs[t], e)
<1>1. m \in Mints(Nat) /\ (ChargesNothing(t) => m.transfer_fee_basis_points = 0)
  BY ScheduledFee
<1>2. EpochFee(FeeConfigs[t], e, amount) = CalculateFee(m, amount)
  BY DEF EpochFee
<1>3. InverseEpochFee(FeeConfigs[t], e, amount)
        = IF m.transfer_fee_basis_points = MAX_FEE_BASIS_POINTS
          THEN m.maximum_fee
          ELSE CalculateInverseFee(m, amount)
  BY DEF InverseEpochFee
<1> HIDE DEF m
<1>4. CalculateFee(m, amount) \in Nat /\ CalculateFee(m, amount) <= amount
  BY <1>1, CalculateFeeBounded
<1>5. CalculateInverseFee(m, amount) \in Nat /\ m.maximum_fee \in Nat
  BY <1>1, PreFeeAmountType, CalculateFeeBounded, MintTypes DEF CalculateInverseFee
<1>6. m.transfer_fee_basis_points = 0 =>
        CalculateFee(m, amount) = 0 /\ CalculateInverseFee(m, amount) = 0
  BY DEF CalculateFee, CalculateInverseFee
<1> QED
  BY <1>1, <1>2, <1>3, <1>4, <1>5, <1>6, BasisPointsAssumption

\* A snapshot of the accounts, part by part.
LEMMA SnapshotTypes ==
  ASSUME seen \in Snapshots(Amounts)
  PROVE  /\ \A t \in Tokens : /\ seen.total[t] \in Nat
                              /\ seen.total[t] <= U64_MAX
                              /\ seen.is_creator_fee_on_input[t] \in BOOLEAN
         /\ seen.lp_supply \in Nat
<1>1. /\ seen.total \in [Tokens -> Amounts]
      /\ seen.lp_supply \in Amounts
      /\ seen.is_creator_fee_on_input \in [Tokens -> BOOLEAN]
  BY DEF Snapshots, Sides, Tokens
<1> QED
  BY <1>1, U64Assumption DEF Amounts

\* The ceiling of a proportion is a natural number.
LEMMA CeilingType ==
  ASSUME NEW lp \in Nat, NEW supply \in Nat \ {0}, NEW amount \in Nat
  PROVE  lp_tokens_to_trading_tokens(lp, supply, amount, "Ceiling") \in Nat
  BY CeilingCovers

\* The slippage leaves an amount an amount.
LEMMA LimitType ==
  ASSUME NEW amount \in Amounts, NEW slippage \in 0..SLIPPAGE_SCALE, NEW round_up \in BOOLEAN
  PROVE  amount_with_slippage(amount, slippage, round_up) \in Amounts
<1> DEFINE maximum == amount_with_slippage(amount, slippage, TRUE)
           minimum == amount_with_slippage(amount, slippage, FALSE)
<1>1. amount \in 0..U64_MAX
  BY DEF Amounts
<1>2. maximum \in Nat /\ minimum \in Nat /\ maximum <= U64_MAX /\ minimum <= U64_MAX
  BY <1>1, LimitsNear
<1> HIDE DEF maximum, minimum
<1>3. maximum \in Amounts /\ minimum \in Amounts
  BY <1>2, U64Assumption DEF Amounts
<1>4. CASE round_up = TRUE
  BY <1>3, <1>4 DEF maximum
<1>5. CASE round_up = FALSE
  BY <1>3, <1>5 DEF minimum
<1> QED
  BY <1>4, <1>5

\* What a liquidity command is quoted, and its limits with the slippage alone.
LEMMA LiquidityQuoteTypes ==
  ASSUME seen \in Snapshots(Amounts), seen.lp_supply # 0, NEW lp \in Amounts,
         NEW slippage \in 0..SLIPPAGE_SCALE, NEW round_up \in BOOLEAN
  PROVE  LET quote == LiquidityQuote(seen, lp)
         IN  /\ quote \in [Tokens -> Amounts]
             /\ WithSlippage(quote, slippage, round_up) \in [Tokens -> Amounts]
<1> DEFINE quote     == LiquidityQuote(seen, lp)
           amount(t) == lp_tokens_to_trading_tokens(lp, seen.lp_supply, seen.total[t], "Ceiling")
           width     == U64_MAX + 1
<1>1. \A t \in Tokens : amount(t) \in Nat
  <2>1. lp \in Nat /\ seen.lp_supply \in Nat \ {0} /\ \A t \in Tokens : seen.total[t] \in Nat
    BY SnapshotTypes, U64Assumption DEF Amounts
  <2> QED
    BY <2>1, CeilingType
<1>2. quote = [t \in Tokens |-> amount(t) % width]
  BY DEF LiquidityQuote, Sides, Tokens
<1> HIDE DEF amount
<1>3. \A n \in Nat : n % width \in Amounts
  <2>1. width \in Nat \ {0}
    BY U64Assumption
  <2> HIDE DEF width
  <2>2. \A n \in Nat : n % width \in 0..(width - 1)
    BY <2>1
  <2> QED
    BY <2>1, <2>2, U64Assumption DEF width, Amounts
<1>4. quote \in [Tokens -> Amounts]
  BY <1>1, <1>2, <1>3
<1> HIDE DEF quote
<1>5. \A t \in Tokens : amount_with_slippage(quote[t], slippage, round_up) \in Amounts
  BY <1>4, LimitType
<1> QED
  BY <1>4, <1>5 DEF WithSlippage, Sides, Tokens, quote

\* A deposit's quote and limits.
LEMMA DepositQuoted ==
  ASSUME ClientTypeOK, command.kind = "deposit", QuoteDefined, epoch \in Nat
  PROVE  /\ QuotedLimits.quote \in [Tokens -> Amounts]
         /\ QuotedLimits.limits \in [Tokens -> Amounts]
         /\ LimitsFromQuote(QuotedLimits.quote, QuotedLimits.limits)
<1> DEFINE quote  == LiquidityQuote(seen, command.lp)
           amount == WithSlippage(quote, command.slippage, TRUE)
           within == DepositLimits(seen, FeeConfigs, epoch, command.slippage, command.lp)
           fee(t) == InverseEpochFee(FeeConfigs[t], amount[t], epoch)
<1>1. QuotedLimits = [quote |-> quote, limits |-> within]
  BY DEF QuotedLimits
<1>2. quote \in [Tokens -> Amounts] /\ amount \in [Tokens -> Amounts]
  <2>1. seen.lp_supply # 0
    BY DEF QuoteDefined, DepositQuoteDefined
  <2>2. command.lp \in Amounts /\ command.slippage \in 0..SLIPPAGE_SCALE
    BY CommandTypes DEF ClientTypeOK
  <2> QED
    BY <2>1, <2>2, LiquidityQuoteTypes DEF ClientTypeOK
<1>3. /\ within = [t \in Tokens |-> amount[t] + fee(t)]
      /\ \A t \in Tokens : amount[t] = amount_with_slippage(quote[t], command.slippage, TRUE)
  BY DEF DepositLimits, get_pool_mints_inverse_fee, WithSlippage, Sides, Tokens
<1>4. \A t \in Tokens : within[t] <= U64_MAX
  BY DEF QuoteDefined, DepositQuoteDefined, Sides, Tokens
<1> HIDE DEF quote, amount, within
<1>5. \A t \in Tokens : /\ amount[t] \in Nat
                        /\ fee(t) \in Nat
                        /\ ChargesNothing(t) => fee(t) = 0
  <2>1. \A t \in Tokens : amount[t] \in Nat
    BY <1>2, U64Assumption DEF Amounts
  <2> QED
    BY <2>1, ClientFees
<1> HIDE DEF fee
<1>6. within \in [Tokens -> Amounts]
  BY <1>3, <1>4, <1>5, U64Assumption DEF Amounts
<1>7. \A t \in Tokens : ChargesNothing(t) => within[t] = amount[t]
  BY <1>3, <1>5
<1>8. LimitsFromQuote(quote, within)
  BY <1>3, <1>7 DEF LimitsFromQuote
<1> QED
  BY <1>1, <1>2, <1>6, <1>8

\* A withdrawal's.
LEMMA WithdrawQuoted ==
  ASSUME ClientTypeOK, command.kind = "withdraw", QuoteDefined, epoch \in Nat
  PROVE  /\ QuotedLimits.quote \in [Tokens -> Amounts]
         /\ QuotedLimits.limits \in [Tokens -> Amounts]
         /\ LimitsFromQuote(QuotedLimits.quote, QuotedLimits.limits)
<1> DEFINE quote  == LiquidityQuote(seen, command.lp)
           amount == WithSlippage(quote, command.slippage, FALSE)
           within == WithdrawLimits(seen, FeeConfigs, epoch, command.slippage, command.lp)
           fee(t) == EpochFee(FeeConfigs[t], amount[t], epoch)
<1>1. QuotedLimits = [quote |-> quote, limits |-> within]
  BY DEF QuotedLimits
<1>2. quote \in [Tokens -> Amounts] /\ amount \in [Tokens -> Amounts]
  <2>1. seen.lp_supply # 0
    BY DEF QuoteDefined, WithdrawQuoteDefined
  <2>2. command.lp \in Amounts /\ command.slippage \in 0..SLIPPAGE_SCALE
    BY CommandTypes DEF ClientTypeOK
  <2> QED
    BY <2>1, <2>2, LiquidityQuoteTypes DEF ClientTypeOK
<1>3. /\ within = [t \in Tokens |-> amount[t] - fee(t)]
      /\ \A t \in Tokens : amount[t] = amount_with_slippage(quote[t], command.slippage, FALSE)
  BY DEF WithdrawLimits, get_pool_mints_transfer_fee, WithSlippage, Sides, Tokens
<1>4. \A t \in Tokens : within[t] >= 0
  BY DEF QuoteDefined, WithdrawQuoteDefined, Sides, Tokens
<1> HIDE DEF quote, amount, within
<1>5. \A t \in Tokens : /\ amount[t] \in Nat
                        /\ amount[t] <= U64_MAX
                        /\ fee(t) \in Nat
                        /\ ChargesNothing(t) => fee(t) = 0
  <2>1. \A t \in Tokens : amount[t] \in Nat /\ amount[t] <= U64_MAX
    BY <1>2, U64Assumption DEF Amounts
  <2> QED
    BY <2>1, ClientFees
<1> HIDE DEF fee
<1>6. within \in [Tokens -> Amounts]
  BY <1>3, <1>4, <1>5, U64Assumption DEF Amounts
<1>7. \A t \in Tokens : ChargesNothing(t) => within[t] = amount[t]
  BY <1>3, <1>5
<1>8. LimitsFromQuote(quote, within)
  BY <1>3, <1>7 DEF LimitsFromQuote
<1> QED
  BY <1>1, <1>2, <1>6, <1>8

\* The quote of a base-input swap is an amount that the pool could pay.
LEMMA SwapInQuoteType ==
  ASSUME ClientTypeOK, command.kind = "swap_base_in", QuoteDefined, epoch \in Nat,
         \A t \in Tokens : seen.total[t] # 0, BoundedRates(seen.rates)
  PROVE  SwapInQuote(seen, FeeConfigs, epoch, command.input, command.amount) \in Amounts
<1> DEFINE input  == command.input
           output == Other(command.input)
           sent   == command.amount - EpochFee(FeeConfigs[input], epoch, command.amount)
           mode   == seen.is_creator_fee_on_input[input]
           result == SwapInResult(seen, FeeConfigs, epoch, input, command.amount)
<1>1. input \in Tokens /\ output \in Tokens /\ OtherSide(input) = output
      /\ command.amount \in Nat
  BY CommandTypes, U64Assumption DEF ClientTypeOK, Amounts, OtherSide, Other, Tokens
<1>2. /\ seen.total[input] \in Nat \ {0}
      /\ seen.total[output] \in Nat
      /\ seen.total[output] <= U64_MAX
      /\ mode \in BOOLEAN
  <2>1. seen \in Snapshots(Amounts)
    BY DEF ClientTypeOK
  <2> QED
    BY <1>1, <2>1, SnapshotTypes
<1>3. sent \in Nat
  <2> DEFINE fee == EpochFee(FeeConfigs[input], epoch, command.amount)
  <2>1. fee \in Nat /\ fee <= command.amount
    BY <1>1, ClientFees
  <2> QED
    BY <1>1, <2>1
<1>4. SwapBaseInputDefined(seen.rates, mode)
  BY DEF QuoteDefined, SwapInQuoteDefined
<1>5. result = swap_base_input(sent, seen.total[input], seen.total[output], seen.rates, mode)
  BY <1>1 DEF SwapInResult
<1>6. SwapInQuote(seen, FeeConfigs, epoch, command.input, command.amount)
        = result.output_amount - EpochFee(FeeConfigs[output], epoch, result.output_amount)
  BY <1>1 DEF SwapInQuote
<1> HIDE DEF input, output, sent, mode
<1>7. Accounted(result, seen.total[input], seen.total[output], mode)
  BY <1>2, <1>3, <1>4, <1>5, BaseInputAccounted
<1> HIDE DEF result
<1>8. result.output_amount \in Nat /\ result.output_amount <= U64_MAX
  BY <1>2, <1>7, U64Assumption DEF Accounted
<1>9. /\ EpochFee(FeeConfigs[output], epoch, result.output_amount) \in Nat
      /\ EpochFee(FeeConfigs[output], epoch, result.output_amount) <= result.output_amount
  BY <1>1, <1>8, ClientFees
<1> QED
  BY <1>6, <1>8, <1>9, U64Assumption DEF Amounts

\* The quote of a base-output swap is an amount, or none is made.
LEMMA SwapOutQuoteType ==
  ASSUME ClientTypeOK, command.kind = "swap_base_out", QuoteDefined, epoch \in Nat,
         BoundedRates(seen.rates)
  PROVE  SwapOutQuote(seen, FeeConfigs, epoch, command.input, command.amount) \in Amounts
<1> DEFINE input  == command.input
           output == Other(command.input)
           wanted == SwapOutAmount(FeeConfigs, epoch, input, command.amount)
           mode   == seen.is_creator_fee_on_input[input]
           result == swap_base_output(wanted, seen.total[input], seen.total[output],
                                      seen.rates, mode)
           fee    == InverseEpochFee(FeeConfigs[input], epoch, result.input_amount)
<1>1. input \in Tokens /\ output \in Tokens /\ OtherSide(input) = output
      /\ command.amount \in Nat
  BY CommandTypes, U64Assumption DEF ClientTypeOK, Amounts, OtherSide, Other, Tokens
<1>2. /\ seen.total[input] \in Nat
      /\ seen.total[output] \in Nat
      /\ mode \in BOOLEAN
  <2>1. seen \in Snapshots(Amounts)
    BY DEF ClientTypeOK
  <2> QED
    BY <1>1, <2>1, SnapshotTypes
<1>3. wanted \in Nat
  <2> DEFINE added == InverseEpochFee(FeeConfigs[output], epoch, command.amount)
  <2>1. wanted = command.amount + added
    BY <1>1 DEF SwapOutAmount
  <2>2. added \in Nat
    BY <1>1, ClientFees
  <2> HIDE DEF wanted, added
  <2> QED
    BY <1>1, <2>1, <2>2
<1>4. SwapOutQuote(seen, FeeConfigs, epoch, command.input, command.amount)
        = result.input_amount + fee
  BY <1>1 DEF SwapOutQuote
<1>5. /\ SwapBaseOutputDefined(wanted, seen.total[output], seen.rates, mode)
      /\ SwapOutQuote(seen, FeeConfigs, epoch, command.input, command.amount) <= U64_MAX
  BY <1>1 DEF QuoteDefined, SwapOutQuoteDefined
<1> HIDE DEF input, output, wanted, mode
<1>6. Accounted(result, seen.total[input], seen.total[output], mode)
  BY <1>2, <1>3, <1>5, BaseOutputAccounted
<1> HIDE DEF result
<1>7. result.input_amount \in Nat
  BY <1>6 DEF Accounted
<1>8. fee \in Nat
  BY <1>1, <1>7, ClientFees
<1> HIDE DEF fee
<1> QED
  BY <1>4, <1>5, <1>7, <1>8, U64Assumption DEF Amounts

\* A swap's quote and limits: one of each, for the side it does not fix.
LEMMA SwapQuoted ==
  ASSUME ClientTypeOK, command.kind \in {"swap_base_in", "swap_base_out"}, QuoteDefined,
         epoch \in Nat, \A t \in Tokens : seen.total[t] # 0, BoundedRates(seen.rates)
  PROVE  /\ QuotedLimits.quote \in [Tokens -> Amounts]
         /\ QuotedLimits.limits \in [Tokens -> Amounts]
         /\ LimitsFromQuote(QuotedLimits.quote, QuotedLimits.limits)
<1>1. Nothing \in [Tokens -> Amounts]
  BY U64Assumption DEF Nothing, Amounts
<1>2. \A t \in Tokens, amount \in Amounts :
        [Nothing EXCEPT ![t] = amount] \in [Tokens -> Amounts]
        /\ [Nothing EXCEPT ![t] = amount][t] = amount
  BY <1>1
<1>3. \A amount \in Amounts, round_up \in BOOLEAN :
        amount_with_slippage(amount, command.slippage, round_up) \in Amounts
  BY CommandTypes, LimitType DEF ClientTypeOK
<1>4. command.input \in Tokens /\ Other(command.input) \in Tokens
  BY CommandTypes DEF ClientTypeOK, Other, Tokens
<1>5. CASE command.kind = "swap_base_in"
  <2> DEFINE t     == Other(command.input)
             quote == SwapInQuote(seen, FeeConfigs, epoch, command.input, command.amount)
             limit == amount_with_slippage(quote, command.slippage, FALSE)
  <2>1. QuotedLimits = [quote  |-> [Nothing EXCEPT ![t] = quote],
                        limits |-> [Nothing EXCEPT ![t] = limit]]
    BY <1>5 DEF QuotedLimits
  <2>2. quote \in Amounts /\ limit \in Amounts
    BY <1>3, <1>5, SwapInQuoteType
  <2>3. QuotedLimits.quote[t] = quote /\ QuotedLimits.limits[t] = limit
    BY <1>2, <1>4, <2>1, <2>2
  <2>4. LimitsFromQuote(QuotedLimits.quote, QuotedLimits.limits)
    BY <1>5, <2>3 DEF LimitsFromQuote
  <2> QED
    BY <1>2, <1>4, <2>1, <2>2, <2>4
<1>6. CASE command.kind = "swap_base_out"
  <2> DEFINE t     == command.input
             quote == SwapOutQuote(seen, FeeConfigs, epoch, command.input, command.amount)
             limit == amount_with_slippage(quote, command.slippage, TRUE)
  <2>1. QuotedLimits = [quote  |-> [Nothing EXCEPT ![t] = quote],
                        limits |-> [Nothing EXCEPT ![t] = limit]]
    BY <1>6 DEF QuotedLimits
  <2>2. quote \in Amounts /\ limit \in Amounts
    BY <1>3, <1>6, SwapOutQuoteType
  <2>3. QuotedLimits.quote[t] = quote /\ QuotedLimits.limits[t] = limit
    BY <1>2, <1>4, <2>1, <2>2
  <2>4. LimitsFromQuote(QuotedLimits.quote, QuotedLimits.limits)
    BY <1>6, <2>3 DEF LimitsFromQuote
  <2> QED
    BY <1>2, <1>4, <2>1, <2>2, <2>4
<1> QED
  BY <1>5, <1>6

(* -------------------------- the steps of a run ------------------------- *)

\* What is read of an initialized pool can be quoted for.
LEMMA SnapshotRead ==
  ASSUME IInv, pool_state.initialized
  PROVE  /\ Snapshot \in Snapshots(Amounts)
         /\ \A t \in Tokens : Snapshot.total[t] # 0
         /\ BoundedRates(Snapshot.rates)
<1>1. \A t \in Tokens : Total(t) \in Amounts /\ Total(t) # 0
  <2>1. \A t \in Tokens : /\ Total(t) \in Nat /\ Total(t) # 0
                          /\ Total(t) <= vault[t] /\ vault[t] <= U64_MAX /\ vault[t] \in Nat
    BY TotalsPositive, TotalType, PoolTypes DEF IInv
  <2> QED
    BY <2>1, U64Assumption DEF Amounts
<1>2. pool_state.lp_supply \in Amounts
  BY PoolTypes, U64Assumption DEF IInv, Amounts
<1>3. \A t \in Tokens : is_creator_fee_on_input(t) \in BOOLEAN
  BY MarketFields
<1> DEFINE rates == MarketFor(0).rates
<1>4. BoundedRates(rates)
  BY MarketRates DEF Tokens
<1> HIDE DEF rates
<1>5. rates \in FeeRates(0..FEE_RATE_DENOMINATOR_VALUE)
  BY <1>4, DenominatorAssumption DEF BoundedRates, FeeRates
<1>6. /\ Snapshot = [total |-> [t \in Tokens |-> Total(t)],
                     lp_supply |-> pool_state.lp_supply,
                     rates |-> rates,
                     is_creator_fee_on_input |-> [t \in Tokens |-> is_creator_fee_on_input(t)]]
  BY DEF Snapshot, rates
<1>7. Snapshot \in Snapshots(Amounts)
  BY <1>1, <1>2, <1>3, <1>5, <1>6 DEF Snapshots, Sides, Tokens
<1> QED
  BY <1>1, <1>4, <1>6, <1>7

\* A quote that is made is well typed, and the limits follow from it.
LEMMA Quoted ==
  ASSUME ClientInv, phase = "read", QuoteDefined
  PROVE  /\ QuotedLimits.quote \in [Tokens -> Amounts]
         /\ QuotedLimits.limits \in [Tokens -> Amounts]
         /\ LimitsFromQuote(QuotedLimits.quote, QuotedLimits.limits)
<1>1. /\ ClientTypeOK
      /\ command.kind # "initialize"
      /\ \A t \in Tokens : seen.total[t] # 0
      /\ BoundedRates(seen.rates)
  BY DEF ClientInv, Readable
<1>2. epoch \in Nat
  BY PoolAssumption DEF ClientInv, IInv, TypeOK
<1>3. command.kind \in {"deposit", "withdraw", "swap_base_in", "swap_base_out"}
  BY <1>1, CommandTypes DEF ClientTypeOK
<1> QED
  BY <1>1, <1>2, <1>3, DepositQuoted, WithdrawQuoted, SwapQuoted

\* No amount, no snapshot and no transaction are well typed too.
LEMMA NothingTypes ==
  /\ Nothing \in [Tokens -> Amounts]
  /\ NoSnapshot \in Snapshots(Amounts)
  /\ Unsent \in Transactions
<1>1. Nothing \in [Tokens -> Amounts] /\ 0 \in Amounts
  BY U64Assumption DEF Nothing, Amounts
<1>2. 0 \in 0..FEE_RATE_DENOMINATOR_VALUE
  BY DenominatorAssumption
<1> QED
  BY <1>1, <1>2 DEF NoSnapshot, Snapshots, FeeRates, Sides, Tokens, Unsent, Transactions

\* Every step keeps the types of the run.
LEMMA ClientTypesStep ==
  ASSUME ClientInv, [ClientNext]_allVars
  PROVE  ClientTypeOK'
<1>0. ClientTypeOK
  BY DEF ClientInv
<1> USE DEF ClientTypeOK, Phases, Reports, poolUnchanged, LimitsServed
<1>1. CASE Start \/ LoadAddresses \/ Sign \/ Send \/ Poll \/ CheckBlockhash
  <2>1. phase' \in Phases
    <3>1. CASE Start \/ LoadAddresses \/ Sign \/ Send
      BY <3>1 DEF Start, LoadAddresses, Sign, Send
    <3>2. CASE Poll
      <4>1. PolledStatus \in {"ok", "program_error", "polled"}
        BY DEF PolledStatus
      <4> QED
        BY <3>2, <4>1 DEF Poll
    <3>3. CASE CheckBlockhash
      BY <3>3 DEF CheckBlockhash, AfterNoStatus
    <3> QED
      BY <1>1, <3>1, <3>2, <3>3
  <2>2. txn' \in Transactions
    <3>1. CASE Sign \/ Send
      <4>1. CASE Sign
        BY <4>1 DEF Sign, Transactions
      <4>2. CASE Send
        <5>1. txn \in [status: {"none", "signed", "pending", "succeeded", "failed"},
                       valid: BOOLEAN]
          BY <1>0 DEF Transactions
        <5> QED
          BY <4>2, <5>1 DEF Send, Transactions
      <4> QED
        BY <3>1, <4>1, <4>2
    <3>2. CASE Start \/ LoadAddresses \/ Poll \/ CheckBlockhash
      BY <1>0, <3>2 DEF Start, LoadAddresses, Poll, CheckBlockhash
    <3> QED
      BY <1>1, <3>1, <3>2
  <2> QED
    BY <1>0, <1>1, <2>1, <2>2 DEF Start, LoadAddresses, Sign, Send, Poll, CheckBlockhash
<1>2. CASE ReadAccounts
  <2>1. pool_state.initialized /\ IInv
    BY <1>2 DEF ClientInv, Readable, ReadAccounts
  <2> QED
    BY <1>0, <1>2, <2>1, SnapshotRead DEF ReadAccounts
<1>3. CASE ReadEpoch
  BY <1>0, <1>3, Quoted, NothingTypes DEF ReadEpoch
<1>4. CASE RpcFails
  <2>1. txn' \in Transactions
    BY <1>0, <1>4 DEF RpcFails, Transactions
  <2>2. quoted' \in [Tokens -> Amounts] /\ limits' \in [Tokens -> Amounts]
    BY <1>0, <1>4, NothingTypes DEF RpcFails
  <2> QED
    BY <1>0, <1>4, <2>1, <2>2, NothingTypes DEF RpcFails
<1>5. CASE TransactionExecutes \/ BlockhashExpires
  <2>1. txn' \in Transactions
    BY <1>0, <1>5 DEF TransactionExecutes, BlockhashExpires, Transactions
  <2>2. fresh' \in BOOLEAN
    BY <1>0, <1>5 DEF TransactionExecutes, BlockhashExpires
  <2> QED
    BY <1>0, <1>5, <2>1, <2>2, NothingTypes DEF TransactionExecutes, BlockhashExpires
<1>6. CASE OthersAct \/ UNCHANGED allVars
  <2>1. fresh' \in BOOLEAN
    BY <1>0, <1>6 DEF OthersAct, allVars
  <2> QED
    BY <1>0, <1>6, <2>1 DEF OthersAct, allVars, clientVars
<1> QED
  BY <1>1, <1>2, <1>3, <1>4, <1>5, <1>6 DEF ClientNext, ClientStep

\* Every step keeps the phase in line with the transaction, and the reports true.
LEMMA PhaseStep ==
  ASSUME ClientInv, [ClientNext]_allVars
  PROVE  PhaseOfTransaction' /\ ReportsAreTrue'
<1>0. PhaseOfTransaction /\ ReportsAreTrue /\ txn \in Transactions /\ command \in Commands
  BY DEF ClientInv, ClientTypeOK
<1> USE DEF PhaseOfTransaction, ReportsAreTrue, Building, Reports, poolUnchanged
<1>1. CASE Start \/ LoadAddresses \/ ReadAccounts \/ ReadEpoch
  BY <1>0, <1>1 DEF Start, LoadAddresses, ReadAccounts, ReadEpoch
<1>2. CASE Sign \/ Send
  BY <1>0, <1>2 DEF Sign, Send
<1>3. CASE Poll \/ CheckBlockhash
  BY <1>0, <1>3 DEF Poll, PolledStatus, CheckBlockhash, AfterNoStatus
<1>4. CASE RpcFails
  BY <1>0, <1>4 DEF RpcFails
<1>5. CASE TransactionExecutes
  <2>1. txn.status = "pending" /\ phase' = phase
    BY <1>5 DEF TransactionExecutes, CanExecute
  <2> QED
    BY <1>0, <2>1 DEF Unsent
<1>6. CASE BlockhashExpires
  <2>1. txn.valid /\ txn'.status = txn.status /\ phase' = phase
    BY <1>0, <1>6 DEF BlockhashExpires, Transactions
  <2>2. txn # Unsent
    BY <2>1 DEF Unsent
  <2> QED
    BY <1>0, <2>1, <2>2
<1>7. CASE OthersAct \/ UNCHANGED allVars
  BY <1>0, <1>7 DEF OthersAct, allVars, clientVars
<1> QED
  BY <1>1, <1>2, <1>3, <1>4, <1>5, <1>6, <1>7 DEF ClientNext, ClientStep

\* Every step leaves the run a pool that can be quoted for.
LEMMA ReadableStep ==
  ASSUME ClientInv, [ClientNext]_allVars, pool_state.initialized => pool_state'.initialized
  PROVE  Readable'
<1>0. Readable /\ IInv
  BY DEF ClientInv
<1> USE DEF Readable
<1>1. CASE LoadAddresses
  BY <1>0, <1>1 DEF LoadAddresses, poolUnchanged, vars, poolVars
<1>2. CASE ReadAccounts
  <2>1. /\ phase = "addressed" /\ command' = command
        /\ phase' = "read" => seen' = Snapshot
        /\ phase' # "addressed"
    BY <1>2 DEF ReadAccounts
  <2>2. pool_state.initialized /\ command.kind # "initialize"
    BY <1>0, <2>1
  <2> QED
    BY <1>0, <2>1, <2>2, SnapshotRead
<1>3. CASE Start \/ ReadEpoch \/ Sign \/ Send \/ Poll \/ CheckBlockhash \/ RpcFails
  <2>1. phase' \notin {"addressed", "read"}
    BY <1>3 DEF Start, ReadEpoch, Sign, Send, Poll, PolledStatus, CheckBlockhash, AfterNoStatus,
                RpcFails
  <2> QED
    BY <2>1
<1>4. CASE TransactionExecutes \/ BlockhashExpires \/ OthersAct \/ UNCHANGED allVars
  <2>1. UNCHANGED <<phase, command, seen>>
    BY <1>4 DEF TransactionExecutes, BlockhashExpires, OthersAct, allVars, clientVars
  <2> QED
    BY <1>0, <2>1
<1> QED
  BY <1>1, <1>2, <1>3, <1>4 DEF ClientNext, ClientStep

\* The command is given once.
LEMMA CommandStays ==
  ASSUME [ClientNext]_allVars
  PROVE  command' = command
  BY DEF ClientNext, ClientStep, Start, LoadAddresses, ReadAccounts, ReadEpoch, Sign, Send,
         Poll, CheckBlockhash, RpcFails, TransactionExecutes, BlockhashExpires, OthersAct,
         clientVars, allVars

\* Limits that can still bind are fresh from the quote, or were there before; creating
\* a pool has none.
LEMMA LiveStep ==
  ASSUME ClientInv, [ClientNext]_allVars, Live'
  PROVE  \/ LoadAddresses /\ command.kind = "initialize"
         \/ ReadEpoch /\ QuoteDefined
         \/ Live /\ UNCHANGED <<quoted, limits>>
<1>0. PhaseOfTransaction /\ txn \in Transactions
  BY DEF ClientInv, ClientTypeOK
<1>2. Live'
  OBVIOUS
<1>3. CASE LoadAddresses /\ phase' = "quoted"
  BY <1>3 DEF LoadAddresses
<1>4. CASE ReadEpoch /\ QuoteDefined
  BY <1>4
<1>5. CASE Live /\ UNCHANGED <<quoted, limits>>
  BY <1>5
<1> USE DEF Live, CanExecute, PhaseOfTransaction, Building
<1>6. CASE ~Live /\ UNCHANGED <<phase, txn>>
  BY <1>2, <1>6
<1>7. CASE Start \/ ReadAccounts \/ (LoadAddresses /\ phase' # "quoted")
           \/ (ReadEpoch /\ ~QuoteDefined)
  <2>1. phase \in Building /\ txn' = txn /\ phase' \notin {"quoted", "signed"}
    BY <1>7 DEF Start, ReadAccounts, LoadAddresses, ReadEpoch
  <2> QED
    BY <1>0, <1>2, <2>1 DEF Unsent
<1>8. CASE Sign
  BY <1>5, <1>8 DEF Sign
<1>9. CASE Send
  <2>1. phase = "signed" /\ phase' = "sent" /\ txn'.valid = txn.valid
        /\ UNCHANGED <<quoted, limits>>
    BY <1>0, <1>9 DEF Send, Transactions
  <2> QED
    BY <1>2, <1>5, <2>1
<1>10. CASE Poll \/ CheckBlockhash
  <2>1. phase' \notin {"quoted", "signed"} /\ txn' = txn /\ UNCHANGED <<quoted, limits>>
    BY <1>10 DEF Poll, PolledStatus, CheckBlockhash, AfterNoStatus
  <2> QED
    BY <1>2, <1>5, <2>1
<1>11. CASE RpcFails
  <2>1. phase' = "error"
    BY <1>11 DEF RpcFails
  <2>2. CASE UNCHANGED txn
    <3>1. txn.status = "pending" /\ txn.valid
      BY <1>2, <2>1, <2>2
    <3>2. UNCHANGED <<quoted, limits>>
      BY <1>11, <2>2, <3>1, <1>0 DEF RpcFails
    <3> QED
      BY <1>5, <3>1, <3>2
  <2>3. CASE /\ phase = "signed"
             /\ txn' = [txn EXCEPT !.status = "pending"]
             /\ UNCHANGED <<quoted, limits>>
    <3>1. txn'.valid = txn.valid
      BY <1>0, <2>3 DEF Transactions
    <3> QED
      BY <1>2, <1>5, <2>1, <2>3, <3>1
  <2> QED
    BY <1>11, <2>2, <2>3 DEF RpcFails
<1>12. CASE TransactionExecutes
  <2>1. txn.status = "pending" /\ txn'.status \in {"succeeded", "failed"} /\ phase' = phase
    BY <1>0, <1>12 DEF TransactionExecutes, Transactions
  <2>2. phase \notin {"quoted", "signed"}
    BY <1>0, <2>1 DEF Unsent
  <2> QED
    BY <1>2, <2>1, <2>2
<1>13. CASE BlockhashExpires
  <2>1. txn.valid /\ ~txn'.valid /\ phase' = phase
    BY <1>0, <1>13 DEF BlockhashExpires, Transactions
  <2>2. phase # "quoted"
    BY <1>0, <2>1 DEF Unsent
  <2> QED
    BY <1>2, <2>1, <2>2
<1>14. CASE OthersAct \/ UNCHANGED allVars
  <2>1. UNCHANGED <<phase, txn, quoted, limits>>
    BY <1>14 DEF OthersAct, clientVars, allVars
  <2> QED
    BY <1>5, <1>6, <2>1
<1> QED
  BY <1>3, <1>4, <1>7, <1>8, <1>9, <1>10, <1>11, <1>12, <1>13, <1>14
     DEF ClientNext, ClientStep

\* Every step keeps the limits that can still bind as they were computed.
LEMMA LimitsStep ==
  ASSUME ClientInv, [ClientNext]_allVars
  PROVE  Live' => LimitsFromQuote(quoted, limits)'
<1>1. SUFFICES ASSUME Live'
               PROVE  LimitsFromQuote(quoted', limits')
  BY CommandStays DEF LimitsFromQuote
<1>2. CASE LoadAddresses /\ command.kind = "initialize"
  BY <1>2 DEF LimitsFromQuote
<1>3. CASE ReadEpoch /\ QuoteDefined
  BY <1>3, Quoted DEF ReadEpoch
<1>4. CASE Live /\ UNCHANGED <<quoted, limits>>
  BY <1>4 DEF ClientInv
<1> QED
  BY <1>1, <1>2, <1>3, <1>4, LiveStep

\* The inductive invariant of a run among others.
LEMMA ClientInductive == ClientSpec => []ClientInv
<1>1. ClientInit => ClientInv
  <2> SUFFICES ASSUME ClientInit PROVE ClientInv
    OBVIOUS
  <2>1. IInv /\ VaultsStartEmpty
    BY InitSafe DEF ClientInit, Init, VaultsStartEmpty
  <2>2. ClientTypeOK
    BY NothingTypes DEF ClientInit, ClientTypeOK, Phases
  <2>3. MintsOnSchedule
    BY DEF ClientInit, Init, MintsOnSchedule
  <2>4. PhaseOfTransaction /\ Readable /\ ReportsAreTrue /\ ~Live
    BY DEF ClientInit, PhaseOfTransaction, Readable, ReportsAreTrue, Live, CanExecute, Unsent
  <2> QED
    BY <2>1, <2>2, <2>3, <2>4 DEF ClientInv
<1>2. ClientInv /\ [ClientNext]_allVars => ClientInv'
  <2> SUFFICES ASSUME ClientInv, [ClientNext]_allVars PROVE ClientInv'
    OBVIOUS
  <2>1. /\ IInv' /\ VaultsStartEmpty' /\ MintsOnSchedule'
        /\ pool_state.initialized => pool_state'.initialized
    BY PoolUnderneath DEF ClientInv, ClientTypeOK
  <2> QED
    BY <2>1, ClientTypesStep, PhaseStep, ReadableStep, LimitsStep DEF ClientInv
<1> QED
  BY <1>1, <1>2, PTL DEF ClientSpec

(* --------------------------- what can be lost -------------------------- *)

\* Multiplying keeps the order.
LEMMA TimesKeepsOrder ==
  ASSUME NEW m \in Int, NEW n \in Int, m <= n, NEW s \in Nat
  PROVE  m * s \in Int /\ n * s \in Int /\ m * s <= n * s
  OBVIOUS

\* Whatever is at most the limit is at most the quote with the slippage.
LEMMA WithinMost ==
  ASSUME NEW a \in Amounts, NEW slippage \in 0..SLIPPAGE_SCALE, NEW n \in Int,
         n <= amount_with_slippage(a, slippage, TRUE)
  PROVE  LET most == a * (SLIPPAGE_SCALE + slippage)
         IN  IF most <= F64_MANTISSA
             THEN (n - 1) * SLIPPAGE_SCALE < most
             ELSE (n - 1) * SLIPPAGE_SCALE * F64_MANTISSA <= most * (F64_MANTISSA + 3)
<1> DEFINE maximum == amount_with_slippage(a, slippage, TRUE)
           S       == SLIPPAGE_SCALE
           M       == F64_MANTISSA
           most    == a * (S + slippage)
           slack   == most * (M + 3)
           last    == maximum - 1
           next    == n - 1
<1>1. a \in 0..U64_MAX /\ slippage \in 0..S /\ S \in Nat /\ M \in Nat /\ a \in Nat
  BY ClientQuoteAssumption, U64Assumption DEF Amounts
<1>2. /\ maximum \in Nat
      /\ most <= M => last * S < most
      /\ last * S * M <= slack
  BY <1>1, LimitsNear, LimitsExact
<1>3. most \in Int /\ slack \in Int
  BY <1>1
<1>4. n <= maximum
  OBVIOUS
<1> HIDE DEF maximum, most, slack
<1>5. last \in Int /\ next \in Int /\ next <= last
  BY <1>2, <1>4
<1> HIDE DEF last, next
<1>6. last * S \in Int /\ next * S \in Int /\ next * S <= last * S
  BY <1>1, <1>5, TimesKeepsOrder
<1> DEFINE lastS == last * S
           nextS == next * S
<1>7. lastS \in Int /\ nextS \in Int /\ nextS <= lastS
  BY <1>6
<1>8. (most <= M => lastS < most) /\ lastS * M <= slack
  BY <1>2
<1> HIDE DEF lastS, nextS, S, M
<1>9. lastS * M \in Int /\ nextS * M \in Int /\ nextS * M <= lastS * M
  BY <1>1, <1>7, TimesKeepsOrder DEF M
<1> DEFINE nextSM == nextS * M
           lastSM == lastS * M
<1>10. nextSM \in Int /\ lastSM \in Int /\ nextSM <= lastSM /\ lastSM <= slack
  BY <1>8, <1>9
<1> HIDE DEF nextSM, lastSM
<1>11. nextSM <= slack /\ (most <= M => nextS < most)
  BY <1>3, <1>7, <1>8, <1>10
<1> QED
  BY <1>11 DEF nextSM, nextS, next, slack, most, S, M

\* Whatever is at least the limit is at least the quote less the slippage.
LEMMA WithinLeast ==
  ASSUME NEW a \in Amounts, NEW slippage \in 0..SLIPPAGE_SCALE, NEW n \in Int,
         n >= amount_with_slippage(a, slippage, FALSE)
  PROVE  LET least == a * (SLIPPAGE_SCALE - slippage)
         IN  IF least <= F64_MANTISSA
             THEN (n + 1) * SLIPPAGE_SCALE > least
             ELSE (n + 1) * SLIPPAGE_SCALE * F64_MANTISSA >= least * (F64_MANTISSA - 3)
<1> DEFINE minimum == amount_with_slippage(a, slippage, FALSE)
           S       == SLIPPAGE_SCALE
           M       == F64_MANTISSA
           least   == a * (S - slippage)
           slack   == least * (M - 3)
           first   == minimum + 1
           next    == n + 1
<1>1. a \in 0..U64_MAX /\ slippage \in 0..S /\ S \in Nat /\ M \in Nat /\ a \in Nat
  BY ClientQuoteAssumption, U64Assumption DEF Amounts
<1>2. /\ minimum \in Nat
      /\ least <= M => first * S > least
      /\ first * S * M >= slack
  BY <1>1, LimitsNear, LimitsExact
<1>3. least \in Int /\ slack \in Int
  BY <1>1
<1>4. n >= minimum
  OBVIOUS
<1> HIDE DEF minimum, least, slack
<1>5. first \in Int /\ next \in Int /\ first <= next
  BY <1>2, <1>4
<1> HIDE DEF first, next
<1>6. first * S \in Int /\ next * S \in Int /\ first * S <= next * S
  BY <1>1, <1>5, TimesKeepsOrder
<1> DEFINE firstS == first * S
           nextS  == next * S
<1>7. firstS \in Int /\ nextS \in Int /\ firstS <= nextS
  BY <1>6
<1>8. (least <= M => firstS > least) /\ firstS * M >= slack
  BY <1>2
<1> HIDE DEF firstS, nextS, S, M
<1>9. firstS * M \in Int /\ nextS * M \in Int /\ firstS * M <= nextS * M
  BY <1>1, <1>7, TimesKeepsOrder DEF M
<1> DEFINE nextSM  == nextS * M
           firstSM == firstS * M
<1>10. nextSM \in Int /\ firstSM \in Int /\ firstSM <= nextSM /\ slack <= firstSM
  BY <1>8, <1>9
<1> HIDE DEF nextSM, firstSM
<1>11. nextSM >= slack /\ (least <= M => nextS > least)
  BY <1>3, <1>7, <1>8, <1>10
<1> QED
  BY <1>11 DEF nextSM, nextS, next, slack, least, S, M

\* A deposit's vaults gain what its transfers leave there, and the transfers are
\* within the limits.
LEMMA DepositLoses ==
  ASSUME ClientInv, LimitsFromQuote(quoted, limits), deposit_instr(limits)
  PROVE  \A t \in Tokens : Arrives(t) /\ (ChargesNothing(t) => AtMostQuoted(t))
<1> SUFFICES ASSUME NEW t \in Tokens
             PROVE  Arrives(t) /\ (ChargesNothing(t) => AtMostQuoted(t))
  OBVIOUS
<1>1. /\ IInv /\ TypeOK /\ command \in Commands /\ command.kind = "deposit"
      /\ deposit(command.lp, limits)
      /\ quoted \in [Tokens -> Amounts] /\ limits \in [Tokens -> Amounts]
  BY DEF ClientInv, IInv, ClientTypeOK, deposit_instr
<1>2. command.lp \in Amounts /\ command.slippage \in 0..SLIPPAGE_SCALE
  BY <1>1, CommandTypes
<1>3. Sent(t) = DepositTransfer(t, command.lp)
  BY <1>1 DEF Sent
<1>4. Arrives(t)
  BY <1>1, <1>3 DEF deposit, VaultAfterDeposit, Arrives
<1>5. Sent(t) \in Int /\ Sent(t) <= limits[t]
  <2> DEFINE amount == DepositAmount(t, command.lp)
  <2>1. amount \in Nat
    BY <1>1, <1>2, DepositSafe
  <2>2. mint[t] \in Mints(Nat)
    BY <1>1, PoolTypes
  <2>3. get_transfer_inverse_fee(mint[t], amount) \in Nat
    BY <2>1, <2>2, InverseFeeType
  <2>4. DepositTransfer(t, command.lp) <= limits[t]
    BY <1>1 DEF deposit
  <2> QED
    BY <1>3, <2>1, <2>3, <2>4 DEF DepositTransfer
<1>6. ASSUME ChargesNothing(t)
      PROVE  AtMostQuoted(t)
  <2>1. limits[t] = amount_with_slippage(quoted[t], command.slippage, TRUE)
    BY <1>1, <1>6 DEF LimitsFromQuote
  <2> QED
    BY <1>1, <1>2, <1>5, <2>1, WithinMost DEF AtMostQuoted
<1> QED
  BY <1>4, <1>6

\* A withdrawal goes through only where the outputs' mints are SPL tokens, which
\* charge nothing; so the client's own fee does not lower the limit.
LEMMA WithdrawLoses ==
  ASSUME ClientInv, LimitsFromQuote(quoted, limits), withdraw_instr(limits)
  PROVE  \A t \in Tokens : AtLeastQuoted(t)
<1> SUFFICES ASSUME NEW t \in Tokens
             PROVE  AtLeastQuoted(t)
  OBVIOUS
<1> DEFINE lp     == command.lp
           amount == WithdrawAmount(t, lp)
<1>1. IInv /\ TypeOK /\ command \in Commands /\ command.kind = "withdraw" /\ withdraw(lp, limits)
      /\ quoted \in [Tokens -> Amounts] /\ limits \in [Tokens -> Amounts]
      /\ mint[t].program = "spl_token" /\ mint[t] = get_epoch_fee(FeeConfigs[t], epoch)
  BY DEF ClientInv, IInv, ClientTypeOK, withdraw_instr, create_ata_token_account,
         MintsOnSchedule
<1>2. lp \in Amounts /\ command.slippage \in 0..SLIPPAGE_SCALE
  BY <1>1, CommandTypes
<1>3. amount \in Nat /\ vault'[t] = vault[t] - amount
  BY <1>1, <1>2, WithdrawSafe
<1>4. AmountReceived(mint[t], amount) >= limits[t]
  BY <1>1 DEF withdraw, WithdrawOk
<1>5. vault[t] \in Nat /\ mint[t] \in Mints(Nat) /\ limits[t] \in Nat
  BY <1>1, PoolTypes, U64Assumption DEF Amounts
<1>6. ChargesNothing(t)
  <2>1. epoch \in Nat
    BY <1>1, PoolAssumption DEF TypeOK
  <2>2. FeeConfigs[t].program = "spl_token"
    BY <1>1, <2>1, ScheduledFee
  <2> QED
    BY <2>2, ClientAssumption
<1> HIDE DEF amount
<1>7. NetReceived(t) = AmountReceived(mint[t], amount)
  <2>1. vault[t] - vault'[t] = amount
    BY <1>3, <1>5
  <2> QED
    BY <2>1 DEF NetReceived
<1>8. NetReceived(t) \in Int /\ NetReceived(t) >= limits[t]
  BY <1>3, <1>4, <1>5, <1>7, TransferFeeBounded
<1>9. limits[t] = amount_with_slippage(quoted[t], command.slippage, FALSE)
  BY <1>1, <1>6 DEF LimitsFromQuote
<1> QED
  BY <1>1, <1>2, <1>8, <1>9, WithinLeast DEF AtLeastQuoted

\* The input's vault gains what the transfer leaves there.
LEMMA SwapFills ==
  ASSUME TypeOK, NEW input \in Tokens, NEW result, NEW transfer_in,
         ApplySwap(input, result, transfer_in)
  PROVE  vault'[input] = VaultAfterDeposit(input, transfer_in)
<1>1. vault \in [Tokens -> Amounts]
  BY DEF TypeOK
<1>2. Other(input) # input /\ Other(input) \in Tokens
  BY DEF Other, Tokens
<1> QED
  BY <1>1, <1>2 DEF ApplySwap

\* A swap of an exact input sends just that, and brings no less than the limit, after
\* the mint's fee.
LEMMA SwapInLoses ==
  ASSUME ClientInv, LimitsFromQuote(quoted, limits), swap_base_input_instr(limits)
  PROVE  Arrives(command.input) /\ AtLeastQuoted(Other(command.input))
<1> DEFINE input  == command.input
           t      == Other(input)
           result == BaseInputResult(MarketFor(input), command.amount)
<1>1. IInv /\ TypeOK /\ command \in Commands /\ command.kind = "swap_base_in"
      /\ Swap_base_input(input, command.amount, limits[t])
      /\ quoted \in [Tokens -> Amounts] /\ limits \in [Tokens -> Amounts]
  BY DEF ClientInv, IInv, ClientTypeOK, swap_base_input_instr
<1>2. input \in Tokens /\ command.amount \in Amounts /\ command.slippage \in 0..SLIPPAGE_SCALE
  BY <1>1, CommandTypes
<1>3. t \in Tokens /\ MarketFor(input).output_mint = mint[t]
  BY <1>2, MarketFields
<1>4. result.output_amount \in Nat /\ vault'[t] = vault[t] - result.output_amount
  BY <1>1, <1>2, SwapBaseInputSafe DEF SwapApplied
<1>5. AmountReceived(mint[t], result.output_amount) >= limits[t]
  BY <1>1, <1>3 DEF Swap_base_input, BaseInputReceived
<1>6. vault[t] \in Nat /\ mint[t] \in Mints(Nat) /\ limits[t] \in Nat
  BY <1>1, <1>3, PoolTypes, U64Assumption DEF Amounts
<1> HIDE DEF result
<1>7. NetReceived(t) = AmountReceived(mint[t], result.output_amount)
  <2>1. vault[t] - vault'[t] = result.output_amount
    BY <1>4, <1>6
  <2> QED
    BY <2>1 DEF NetReceived
<1>8. NetReceived(t) \in Int /\ NetReceived(t) >= limits[t]
  BY <1>4, <1>5, <1>6, <1>7, TransferFeeBounded
<1>9. limits[t] = amount_with_slippage(quoted[t], command.slippage, FALSE)
  BY <1>1 DEF LimitsFromQuote
<1>10. Arrives(input)
  <2>1. ApplySwap(input, result, command.amount)
    BY <1>1 DEF Swap_base_input, result
  <2>2. vault'[input] = VaultAfterDeposit(input, command.amount)
    BY <2>1, SwapFills, <1>1, <1>2
  <2> QED
    BY <1>1, <2>2 DEF Arrives, Sent, VaultAfterDeposit
<1>11. AtLeastQuoted(t)
  BY <1>1, <1>2, <1>3, <1>8, <1>9, WithinLeast DEF AtLeastQuoted
<1> QED
  BY <1>10, <1>11

\* A swap of an exact output takes no more than the limit, the mint's fee included.
LEMMA SwapOutLoses ==
  ASSUME ClientInv, LimitsFromQuote(quoted, limits), swap_base_output_instr(limits)
  PROVE  Arrives(command.input) /\ AtMostQuoted(command.input)
<1> DEFINE input  == command.input
           result == BaseOutputResult(MarketFor(input), command.amount)
           paid   == InputTransferAmount(MarketFor(input), command.amount)
<1>1. IInv /\ TypeOK /\ command \in Commands /\ command.kind = "swap_base_out"
      /\ Swap_base_output(input, limits[input], command.amount)
      /\ quoted \in [Tokens -> Amounts] /\ limits \in [Tokens -> Amounts]
  BY DEF ClientInv, IInv, ClientTypeOK, swap_base_output_instr
<1>2. input \in Tokens /\ command.amount \in Amounts /\ command.slippage \in 0..SLIPPAGE_SCALE
  BY <1>1, CommandTypes
<1>3. Sent(input) = paid
  BY <1>1 DEF Sent
<1>4. Arrives(input)
  <2>1. vault'[input] = VaultAfterDeposit(input, paid)
    BY <1>1, <1>2, SwapFills DEF Swap_base_output
  <2> QED
    BY <1>3, <2>1 DEF Arrives, VaultAfterDeposit
<1>5. paid <= limits[input] /\ paid \in Nat
  <2>1. limits[input] >= paid
    BY <1>1 DEF Swap_base_output
  <2>2. mint[input] \in Mints(Nat) /\ MarketFor(input).input_mint = mint[input]
    BY <1>1, <1>2, PoolTypes, MarketFields
  <2>3. paid = result.input_amount + get_transfer_inverse_fee(mint[input], result.input_amount)
    BY <2>2 DEF InputTransferAmount
  <2>4. result.input_amount \in Nat
    BY <1>1, <1>2, SwapBaseOutputSafe DEF SwapApplied
  <2> HIDE DEF paid, result
  <2>5. paid \in Nat
    BY <2>2, <2>3, <2>4, InverseFeeType
  <2>6. limits[input] \in Nat
    BY <1>1, <1>2, U64Assumption DEF Amounts
  <2> QED
    BY <2>1, <2>5, <2>6
<1> HIDE DEF paid
<1>6. limits[input] = amount_with_slippage(quoted[input], command.slippage, TRUE)
  BY <1>1 DEF LimitsFromQuote
<1>7. quoted[input] \in Amounts /\ Sent(input) \in Int /\ Sent(input) <= limits[input]
  BY <1>1, <1>2, <1>3, <1>5
<1>8. AtMostQuoted(input)
  BY <1>2, <1>6, <1>7, WithinMost DEF AtMostQuoted
<1> QED
  BY <1>4, <1>8

\* Creating a pool sends what was named, for each token its own amount.
LEMMA CreationLoses ==
  ASSUME ClientInv, initialize_pool_instr
  PROVE  \A t \in Tokens : Arrives(t)
<1>1. /\ VaultsStartEmpty /\ TypeOK /\ command \in Commands /\ command.kind = "initialize"
      /\ CreatePool(Caller, SortedAmounts, command.open_time, BothToken, FALSE)
  BY DEF ClientInv, IInv, ClientTypeOK, initialize_pool_instr, initialize
<1>2. SortedAmounts \in [Tokens -> Amounts]
  BY <1>1, CommandTypes
<1>3. /\ ~pool_state.initialized
      /\ vault' = [t \in Tokens |-> AmountReceived(mint[t], SortedAmounts[t])]
  BY <1>1 DEF CreatePool
<1>4. ASSUME NEW t \in Tokens
      PROVE  Arrives(t)
  <2>1. vault[t] = 0
    BY <1>1, <1>3 DEF VaultsStartEmpty, Nothing
  <2>2. mint[t] \in Mints(Nat) /\ SortedAmounts[t] \in Nat
    BY <1>1, <1>2, PoolTypes, U64Assumption DEF Amounts
  <2>3. AmountReceived(mint[t], SortedAmounts[t]) \in Nat
    BY <2>2, TransferFeeBounded
  <2>4. Sent(t) = SortedAmounts[t]
    BY <1>1 DEF Sent
  <2> QED
    BY <1>3, <2>1, <2>3, <2>4 DEF Arrives
<1> QED
  BY <1>4

\* A transaction becomes successful only by executing with its limits.
LEMMA LossStep ==
  ASSUME ClientInv, [ClientNext]_allVars, txn.status = "pending", txn'.status = "succeeded"
  PROVE  LossBounded
<1>1. txn \in Transactions
  BY DEF ClientInv, ClientTypeOK
<1>2. TransactionExecutes
  <2>1. CASE UNCHANGED txn
    BY <2>1
  <2>2. CASE Sign \/ BlockhashExpires
    BY <1>1, <2>2 DEF Sign, BlockhashExpires, Transactions
  <2>3. CASE txn' = [txn EXCEPT !.status = "pending"]
    BY <1>1, <2>3 DEF Transactions
  <2> QED
    BY <2>1, <2>2, <2>3
       DEF ClientNext, ClientStep, Start, LoadAddresses, ReadAccounts, ReadEpoch, Send, Poll,
           CheckBlockhash, RpcFails, OthersAct, allVars
<1>3. CanExecute /\ Execute(limits)
  BY <1>1, <1>2 DEF TransactionExecutes, Transactions
<1>4. LimitsFromQuote(quoted, limits)
  BY <1>3 DEF ClientInv, Live
<1> HIDE DEF ClientInv
<1>5. CASE initialize_pool_instr
  BY <1>5, CreationLoses DEF LossBounded, initialize_pool_instr
<1>6. CASE deposit_instr(limits)
  BY <1>4, <1>6, DepositLoses DEF LossBounded, deposit_instr
<1>7. CASE withdraw_instr(limits)
  BY <1>4, <1>7, WithdrawLoses DEF LossBounded, withdraw_instr
<1>8. CASE swap_base_input_instr(limits)
  BY <1>4, <1>8, SwapInLoses DEF LossBounded, swap_base_input_instr
<1>9. CASE swap_base_output_instr(limits)
  BY <1>4, <1>9, SwapOutLoses DEF LossBounded, swap_base_output_instr
<1> QED
  BY <1>3, <1>5, <1>6, <1>7, <1>8, <1>9 DEF Execute

(* ------------------ the quote is the program's arithmetic --------------- *)

\* The amount quoted is what the program would compute for the command right now.
QuotesProgram(quote) ==
  /\ command.kind \in {"deposit", "withdraw"} =>
       \A t \in Tokens : quote[t] = DepositAmount(t, command.lp) % (U64_MAX + 1)
  /\ command.kind = "swap_base_in" =>
       quote[Other(command.input)] = BaseInputReceived(MarketFor(command.input), command.amount)
  /\ command.kind = "swap_base_out" =>
       quote[command.input] = InputTransferAmount(MarketFor(command.input), command.amount)

\* As long as nothing moved, what was read is still there, and so is what was quoted.
FreshInv ==
  /\ fresh => pool_state.initialized
  /\ fresh /\ phase = "read" => seen = Snapshot
  /\ fresh /\ Live => QuotesProgram(quoted)

\* The client's fees are the program's, while mints charge what their schedules say.
LEMMA ClientFeesAgree ==
  ASSUME MintsOnSchedule, epoch \in Nat, NEW t \in Tokens, NEW amount \in Nat
  PROVE  /\ EpochFee(FeeConfigs[t], epoch, amount) = get_transfer_fee(mint[t], amount)
         /\ InverseEpochFee(FeeConfigs[t], epoch, amount)
              = get_transfer_inverse_fee(mint[t], amount)
<1>1. mint[t] = get_epoch_fee(FeeConfigs[t], epoch)
  BY DEF MintsOnSchedule
<1>2. CASE mint[t].program = "spl_token"
  <2>1. ChargesNothing(t)
    BY <1>1, <1>2, ScheduledFee, ClientAssumption
  <2> QED
    BY <1>2, <2>1, ClientFees DEF get_transfer_fee, get_transfer_inverse_fee
<1>3. CASE mint[t].program # "spl_token"
  BY <1>1, <1>3 DEF EpochFee, InverseEpochFee, get_transfer_fee, get_transfer_inverse_fee
<1> QED
  BY <1>2, <1>3

\* A liquidity command is quoted what a deposit takes.
LEMMA LiquidityQuoteAgrees ==
  ASSUME seen = Snapshot, NEW lp
  PROVE  \A t \in Tokens :
           LiquidityQuote(seen, lp)[t] = DepositAmount(t, lp) % (U64_MAX + 1)
  BY DEF LiquidityQuote, DepositAmount, Snapshot, Sides, Tokens

\* The two directions of a swap are read with the same rates.
LEMMA SnapshotAgrees ==
  ASSUME seen = Snapshot, NEW input \in Tokens
  PROVE  /\ seen.total[input] = MarketFor(input).input_vault
         /\ seen.total[Other(input)] = MarketFor(input).output_vault
         /\ seen.rates = MarketFor(input).rates
         /\ seen.is_creator_fee_on_input[input] = MarketFor(input).is_creator_fee_on_input
<1>1. Other(input) \in Tokens
  BY MarketFields
<1>2. MarketFor(0).rates = MarketFor(input).rates
  BY DEF MarketFor
<1> QED
  BY <1>1, <1>2, MarketFields DEF Snapshot

\* A swap of an exact input is quoted what it would bring.
LEMMA SwapInQuoteAgrees ==
  ASSUME seen = Snapshot, MintsOnSchedule, epoch \in Nat, IInv, pool_state.initialized,
         NEW input \in Tokens, NEW amount \in Nat,
         SwapInQuoteDefined(seen, input)
  PROVE  SwapInQuote(seen, FeeConfigs, epoch, input, amount)
           = BaseInputReceived(MarketFor(input), amount)
<1> DEFINE market == MarketFor(input)
           output == Other(input)
           sent   == ActualAmountIn(market, amount)
           result == BaseInputResult(market, amount)
<1>1. output \in Tokens /\ OtherSide(input) = output
  BY MarketFields DEF OtherSide, Other
<1>2. sent = amount - EpochFee(FeeConfigs[input], epoch, amount) /\ sent \in Nat
  <2>1. sent = amount - get_transfer_fee(mint[input], amount)
    BY MarketFields DEF ActualAmountIn, AmountReceived
  <2>2. mint[input] \in Mints(Nat)
    BY PoolTypes DEF IInv
  <2> QED
    BY <2>1, <2>2, ClientFeesAgree, TransferFeeBounded DEF AmountReceived
<1>3. /\ seen.total[input] = market.input_vault
      /\ seen.total[output] = market.output_vault
      /\ seen.rates = market.rates
      /\ seen.is_creator_fee_on_input[input] = market.is_creator_fee_on_input
  BY SnapshotAgrees
<1> HIDE DEF market, output, sent
<1>4. SwapInResult(seen, FeeConfigs, epoch, input, amount) = result
  BY <1>1, <1>2, <1>3 DEF SwapInResult, BaseInputResult, sent
<1>5. result.output_amount \in Nat
  <2>1. Total(input) \in Nat \ {0} /\ Total(output) \in Nat
    BY <1>1, TotalsPositive
  <2>2. BoundedRates(market.rates) /\ market.is_creator_fee_on_input \in BOOLEAN
    BY MarketRates, MarketFields DEF market
  <2>3. market.input_vault = Total(input) /\ market.output_vault = Total(output)
    BY MarketFields DEF market, output
  <2>4. SwapBaseInputDefined(market.rates, market.is_creator_fee_on_input)
    BY <1>3 DEF SwapInQuoteDefined
  <2>5. result = swap_base_input(sent, Total(input), Total(output), market.rates,
                                 market.is_creator_fee_on_input)
    BY <2>3 DEF BaseInputResult, sent
  <2> HIDE DEF result
  <2>6. Accounted(result, Total(input), Total(output), market.is_creator_fee_on_input)
    BY <1>2, <2>1, <2>2, <2>4, <2>5, BaseInputAccounted
  <2> QED
    BY <2>6 DEF Accounted
<1>6. EpochFee(FeeConfigs[output], epoch, result.output_amount)
        = get_transfer_fee(mint[output], result.output_amount)
  BY <1>1, <1>5, ClientFeesAgree
<1>7. market.output_mint = mint[output]
  BY MarketFields DEF market, output
<1>8. SwapInQuote(seen, FeeConfigs, epoch, input, amount)
        = result.output_amount - EpochFee(FeeConfigs[output], epoch, result.output_amount)
  BY <1>1, <1>4 DEF SwapInQuote
<1>9. BaseInputReceived(market, amount)
        = result.output_amount - get_transfer_fee(mint[output], result.output_amount)
  BY <1>7 DEF BaseInputReceived, AmountReceived
<1> QED
  BY <1>6, <1>8, <1>9 DEF market

\* A swap of an exact output is quoted what it would cost.
LEMMA SwapOutQuoteAgrees ==
  ASSUME seen = Snapshot, MintsOnSchedule, epoch \in Nat, IInv, pool_state.initialized,
         NEW input \in Tokens, NEW amount \in Nat,
         SwapOutQuoteDefined(seen, FeeConfigs, epoch, input, amount)
  PROVE  SwapOutQuote(seen, FeeConfigs, epoch, input, amount)
           = InputTransferAmount(MarketFor(input), amount)
<1> DEFINE market == MarketFor(input)
           output == Other(input)
           wanted == AmountOutWithTransferFee(market, amount)
           result == BaseOutputResult(market, amount)
<1>1. output \in Tokens /\ OtherSide(input) = output
  BY MarketFields DEF OtherSide, Other
<1>2. SwapOutAmount(FeeConfigs, epoch, input, amount) = wanted /\ wanted \in Nat
  <2>1. wanted = amount + get_transfer_inverse_fee(mint[output], amount)
    BY MarketFields DEF AmountOutWithTransferFee
  <2>2. mint[output] \in Mints(Nat)
    BY <1>1, PoolTypes DEF IInv
  <2>3. InverseEpochFee(FeeConfigs[output], epoch, amount)
          = get_transfer_inverse_fee(mint[output], amount)
    BY <1>1, ClientFeesAgree
  <2> QED
    BY <1>1, <2>1, <2>2, <2>3, InverseFeeType DEF SwapOutAmount
<1>3. /\ seen.total[input] = market.input_vault
      /\ seen.total[output] = market.output_vault
      /\ seen.rates = market.rates
      /\ seen.is_creator_fee_on_input[input] = market.is_creator_fee_on_input
  BY SnapshotAgrees
<1>4. SwapBaseOutputDefined(wanted, market.output_vault, market.rates,
                            market.is_creator_fee_on_input)
  BY <1>1, <1>2, <1>3 DEF SwapOutQuoteDefined
<1> HIDE DEF market, output, wanted
<1>5. result = swap_base_output(wanted, market.input_vault, market.output_vault,
                                market.rates, market.is_creator_fee_on_input)
  BY DEF BaseOutputResult, wanted
<1>6. market.input_mint = mint[input]
  BY MarketFields DEF market
<1> HIDE DEF result
<1>7. result.input_amount \in Nat
  <2>1. Total(input) \in Nat \ {0} /\ Total(output) \in Nat
    BY <1>1, TotalsPositive
  <2>2. BoundedRates(market.rates) /\ market.is_creator_fee_on_input \in BOOLEAN
    BY MarketRates, MarketFields DEF market
  <2>3. market.input_vault = Total(input) /\ market.output_vault = Total(output)
    BY MarketFields DEF market, output
  <2>4. Accounted(result, Total(input), Total(output), market.is_creator_fee_on_input)
    BY <1>2, <1>4, <1>5, <2>1, <2>2, <2>3, BaseOutputAccounted
  <2> QED
    BY <2>4 DEF Accounted
<1>8. InverseEpochFee(FeeConfigs[input], epoch, result.input_amount)
        = get_transfer_inverse_fee(mint[input], result.input_amount)
  BY <1>7, ClientFeesAgree
<1>9. SwapOutQuote(seen, FeeConfigs, epoch, input, amount)
        = result.input_amount + InverseEpochFee(FeeConfigs[input], epoch, result.input_amount)
  BY <1>1, <1>2, <1>3, <1>5 DEF SwapOutQuote
<1>10. InputTransferAmount(market, amount)
         = result.input_amount + get_transfer_inverse_fee(mint[input], result.input_amount)
  BY <1>6 DEF InputTransferAmount, result
<1> QED
  BY <1>8, <1>9, <1>10 DEF market

\* What is quoted from a snapshot of the present state is what the program computes.
LEMMA QuoteIsProgram ==
  ASSUME ClientInv, pool_state.initialized, seen = Snapshot, phase = "read", QuoteDefined
  PROVE  QuotesProgram(QuotedLimits.quote)
<1>1. /\ IInv /\ MintsOnSchedule /\ epoch \in Nat
      /\ command \in Commands
      /\ QuotedLimits.quote \in [Tokens -> Amounts]
  BY Quoted, PoolAssumption DEF ClientInv, ClientTypeOK, IInv, TypeOK
<1>2. /\ command.kind \in {"swap_base_in", "swap_base_out"} =>
           command.input \in Tokens /\ Other(command.input) \in Tokens /\ command.amount \in Nat
  BY <1>1, CommandTypes, MarketFields, U64Assumption DEF Amounts
<1>3. CASE command.kind \in {"deposit", "withdraw"}
  <2>1. QuotedLimits.quote = LiquidityQuote(seen, command.lp)
    BY <1>3 DEF QuotedLimits
  <2> QED
    BY <1>3, <2>1, LiquidityQuoteAgrees DEF QuotesProgram
<1>4. CASE command.kind = "swap_base_in"
  <2> DEFINE quote == SwapInQuote(seen, FeeConfigs, epoch, command.input, command.amount)
  <2>1. QuotedLimits.quote = [Nothing EXCEPT ![Other(command.input)] = quote]
    BY <1>4 DEF QuotedLimits
  <2>2. quote = BaseInputReceived(MarketFor(command.input), command.amount)
    BY <1>1, <1>2, <1>4, SwapInQuoteAgrees DEF QuoteDefined
  <2> HIDE DEF quote
  <2>3. QuotedLimits.quote[Other(command.input)] = quote
    BY <1>2, <1>4, <2>1 DEF Nothing
  <2> QED
    BY <1>4, <2>2, <2>3 DEF QuotesProgram
<1>5. CASE command.kind = "swap_base_out"
  <2> DEFINE quote == SwapOutQuote(seen, FeeConfigs, epoch, command.input, command.amount)
  <2>1. QuotedLimits.quote = [Nothing EXCEPT ![command.input] = quote]
    BY <1>5 DEF QuotedLimits
  <2>2. quote = InputTransferAmount(MarketFor(command.input), command.amount)
    BY <1>1, <1>2, <1>5, SwapOutQuoteAgrees DEF QuoteDefined
  <2> HIDE DEF quote
  <2>3. QuotedLimits.quote[command.input] = quote
    BY <1>2, <1>5, <2>1 DEF Nothing
  <2> QED
    BY <1>5, <2>2, <2>3 DEF QuotesProgram
<1>6. CASE command.kind = "initialize"
  BY <1>6 DEF QuotesProgram
<1> QED
  BY <1>1, <1>3, <1>4, <1>5, <1>6, CommandTypes

\* A quote depends on nothing but QuotedState.
LEMMA QuotesKept ==
  ASSUME UNCHANGED QuotedState, command' = command
  PROVE  /\ Snapshot' = Snapshot
         /\ QuotesProgram(quoted') => QuotesProgram(quoted)'
<1>1. \A t \in {0, 1} : Total(t)' = Total(t)
  BY DEF QuotedState, Total, FeesOwed
<1>2. \A t \in {0, 1} : is_creator_fee_on_input(t)' = is_creator_fee_on_input(t)
  BY DEF QuotedState, is_creator_fee_on_input
<1>3. \A x : MarketFor(x)' = MarketFor(x)
  BY DEF QuotedState, MarketFor, Total, FeesOwed, is_creator_fee_on_input,
         adjust_creator_fee_rate
<1>4. Snapshot' = Snapshot
  BY <1>1, <1>2, <1>3 DEF QuotedState, Snapshot, Tokens
<1>5. \A lp : \A t \in Tokens : DepositAmount(t, lp)' = DepositAmount(t, lp)
  BY DEF QuotedState, DepositAmount, Total, FeesOwed
<1> QED
  BY <1>3, <1>4, <1>5 DEF QuotesProgram

\* A step that leaves the snapshot fresh has not moved what quotes depend on, unless
\* it is the reading itself.
LEMMA FreshKept ==
  ASSUME [ClientNext]_allVars, ~ReadAccounts, fresh'
  PROVE  fresh /\ UNCHANGED QuotedState
<1>1. CASE UNCHANGED <<vars, fresh>>
  BY <1>1 DEF vars, configVars, poolVars, chainVars, QuotedState
<1>2. CASE TransactionExecutes \/ OthersAct
  BY <1>2 DEF TransactionExecutes, OthersAct
<1> QED
  BY <1>1, <1>2
     DEF ClientNext, ClientStep, Start, LoadAddresses, ReadEpoch, Sign, Send, Poll,
         CheckBlockhash, RpcFails, BlockhashExpires, poolUnchanged, allVars

\* Every step keeps a fresh quote the program's.
LEMMA FreshStep ==
  ASSUME ClientInv, FreshInv, [ClientNext]_allVars
  PROVE  FreshInv'
<1>1. CASE ReadAccounts
  <2>1. phase = "addressed" /\ phase' \in {"read", "error"} /\ UNCHANGED <<vars, txn>>
    BY <1>1 DEF ReadAccounts
  <2>2. pool_state.initialized /\ txn = Unsent
    BY <2>1 DEF ClientInv, Readable, PhaseOfTransaction, Building
  <2>3. ~Live'
    BY <2>1, <2>2 DEF Live, CanExecute, Unsent
  <2>4. pool_state' = pool_state /\ Snapshot' = Snapshot
    <3>1. UNCHANGED QuotedState /\ command' = command
      BY <1>1, <2>1, CommandStays
         DEF vars, configVars, poolVars, chainVars, QuotedState
    <3> QED
      BY <3>1, QuotesKept DEF QuotedState
  <2>5. fresh' /\ phase' = "read" => seen' = Snapshot
    BY <1>1 DEF ReadAccounts
  <2> QED
    BY <2>2, <2>3, <2>4, <2>5 DEF FreshInv
<1>2. CASE ~ReadAccounts
  <2> SUFFICES ASSUME fresh'
               PROVE  FreshInv'
    BY DEF FreshInv
  <2>1. fresh /\ UNCHANGED QuotedState /\ command' = command
    BY <1>2, FreshKept, CommandStays
  <2>2. pool_state.initialized /\ pool_state'.initialized
    BY <2>1 DEF FreshInv, QuotedState
  <2>3. phase' = "read" => seen' = Snapshot'
    <3>1. phase' = "read" => phase = "read" /\ seen' = seen
      BY <1>2 DEF ClientNext, ClientStep, Start, LoadAddresses, ReadEpoch, Sign, Send, Poll,
                  PolledStatus, CheckBlockhash, AfterNoStatus, RpcFails, TransactionExecutes,
                  BlockhashExpires, OthersAct, clientVars, allVars
    <3> QED
      BY <2>1, <3>1, QuotesKept DEF FreshInv
  <2>4. Live' => QuotesProgram(quoted)'
    <3> SUFFICES ASSUME Live'
                 PROVE  QuotesProgram(quoted')
      BY <2>1, QuotesKept
    <3>1. CASE LoadAddresses /\ command.kind = "initialize"
      BY <3>1 DEF QuotesProgram
    <3>2. CASE ReadEpoch /\ QuoteDefined
      <4>1. phase = "read" /\ quoted' = QuotedLimits.quote /\ seen = Snapshot
        BY <2>1, <3>2 DEF ReadEpoch, FreshInv
      <4> QED
        BY <2>2, <3>2, <4>1, QuoteIsProgram
    <3>3. CASE Live /\ UNCHANGED <<quoted, limits>>
      BY <2>1, <3>3 DEF FreshInv
    <3> QED
      BY <3>1, <3>2, <3>3, LiveStep
  <2> QED
    BY <2>2, <2>3, <2>4 DEF FreshInv
<1> QED
  BY <1>1, <1>2

\* The snapshot is fresh until something moves, and so is the quote.
LEMMA FreshInductive == ClientSpec => []FreshInv
<1>1. ClientInit => FreshInv
  BY DEF ClientInit, FreshInv
<1>2. ClientInv /\ FreshInv /\ [ClientNext]_allVars => FreshInv'
  BY FreshStep
<1> QED
  BY <1>1, <1>2, ClientInductive, PTL DEF ClientSpec

\* The ceiling is no more than a unit above the floor, and not above what comes out even.
LEMMA CeilingNearFloor ==
  ASSUME NEW lp \in Nat, NEW supply \in Nat \ {0}, NEW amount \in Nat
  PROVE  /\ lp_tokens_to_trading_tokens(lp, supply, amount, "Ceiling")
              <= lp_tokens_to_trading_tokens(lp, supply, amount, "Floor") + 1
         /\ (lp * amount) % supply = 0 =>
              lp_tokens_to_trading_tokens(lp, supply, amount, "Ceiling")
                = lp_tokens_to_trading_tokens(lp, supply, amount, "Floor")
<1> DEFINE product == lp * amount
           floor   == product \div supply
<1>1. /\ lp_tokens_to_trading_tokens(lp, supply, amount, "Floor") = floor
      /\ lp_tokens_to_trading_tokens(lp, supply, amount, "Ceiling") \in {floor, floor + 1}
      /\ product % supply = 0 =>
           lp_tokens_to_trading_tokens(lp, supply, amount, "Ceiling") = floor
  BY DEF lp_tokens_to_trading_tokens
<1>2. product \in Nat
  OBVIOUS
<1> HIDE DEF product
<1>3. floor \in Nat
  BY <1>2, DivFloor
<1> HIDE DEF floor
<1> QED
  BY <1>1, <1>3 DEF product

\* A fresh deposit sends what was quoted, which is within the limit.
LEMMA FreshDeposit ==
  ASSUME ClientInv, pool_state.initialized, QuotesProgram(quoted),
         LimitsFromQuote(quoted, limits), command.kind = "deposit",
         NEW t \in Tokens, ChargesNothing(t), quoted[t] <= F64_MANTISSA,
         DepositAmount(t, command.lp) <= U64_MAX
  PROVE  DepositTransfer(t, command.lp) <= limits[t]
<1> DEFINE lp     == command.lp
           amount == DepositAmount(t, lp)
           quote  == quoted[t]
           limit  == limits[t]
<1>1. /\ IInv /\ MintsOnSchedule /\ epoch \in Nat /\ lp \in Nat
      /\ U64_MAX \in Nat /\ command.slippage \in 0..SLIPPAGE_SCALE
      /\ limit \in Nat
  BY CommandTypes, PoolAssumption, ClientAssumption, U64Assumption
     DEF ClientInv, ClientTypeOK, IInv, TypeOK, Amounts
<1>2. amount \in Nat
  <2>1. Total(t) \in Nat /\ pool_state.lp_supply \in Nat \ {0}
    BY <1>1, TotalsPositive
  <2> QED
    BY <1>1, <2>1, CeilingType DEF DepositAmount
<1>3. /\ quote = amount % (U64_MAX + 1)
      /\ limit = amount_with_slippage(quote, command.slippage, TRUE)
  BY DEF QuotesProgram, LimitsFromQuote
<1>4. DepositTransfer(t, lp) = amount + get_transfer_inverse_fee(mint[t], amount)
  BY DEF DepositTransfer
<1>5. amount <= U64_MAX /\ quote <= F64_MANTISSA
  OBVIOUS
<1> HIDE DEF amount, quote, limit
<1>6. quote = amount /\ quote \in 0..U64_MAX
  BY <1>1, <1>2, <1>3, <1>5
<1>7. get_transfer_inverse_fee(mint[t], amount) = 0
  BY <1>1, <1>2, ClientFees, ClientFeesAgree
<1>8. quote <= limit
  BY <1>1, <1>3, <1>5, <1>6, LimitsRoom
<1>9. amount <= limit
  BY <1>6, <1>8
<1>10. DepositTransfer(t, lp) <= limit
  BY <1>1, <1>2, <1>4, <1>7, <1>9
<1> QED
  BY <1>10 DEF limit

\* A fresh withdrawal brings what was quoted, less a unit where that does not come out
\* even, which any slippage allows for.
LEMMA FreshWithdrawal ==
  ASSUME ClientInv, pool_state.initialized, QuotesProgram(quoted),
         LimitsFromQuote(quoted, limits), command.kind = "withdraw",
         NEW t \in Tokens, ChargesNothing(t), quoted[t] <= F64_MANTISSA,
         command.lp <= lp_mint_supply,
         command.slippage > 0 \/ ComesOutEven(t)
  PROVE  AmountReceived(mint[t], WithdrawAmount(t, command.lp)) >= limits[t]
<1> DEFINE lp      == command.lp
           ceiling == DepositAmount(t, lp)
           floor   == lp_tokens_to_trading_tokens(lp, pool_state.lp_supply, Total(t), "Floor")
           quote   == quoted[t]
           limit   == limits[t]
           allowed == command.slippage
<1>1. /\ IInv /\ MintsOnSchedule /\ epoch \in Nat /\ lp \in Nat
      /\ U64_MAX \in Nat /\ allowed \in 0..SLIPPAGE_SCALE /\ SLIPPAGE_SCALE \in Nat
      /\ quote \in 0..U64_MAX /\ limit \in Nat
      /\ lp_mint_supply \in Nat
  BY CommandTypes, PoolAssumption, PoolTypes, ClientQuoteAssumption, U64Assumption
     DEF ClientInv, ClientTypeOK, IInv, TypeOK, Amounts
<1>2. /\ Total(t) \in Nat
      /\ pool_state.lp_supply \in Nat \ {0}
      /\ lp <= pool_state.lp_supply
  <2>1. Total(t) \in Nat /\ pool_state.lp_supply \in Nat \ {0}
        /\ lp_mint_supply < pool_state.lp_supply
    BY <1>1, TotalsPositive
  <2> QED
    BY <1>1, <2>1
<1>3. floor \in Nat /\ floor <= Total(t)
  BY <1>1, <1>2, FloorCovered
<1>4. ceiling \in Nat /\ ceiling <= floor + 1 /\ (ComesOutEven(t) => ceiling = floor)
  BY <1>1, <1>2, CeilingType, CeilingNearFloor DEF DepositAmount, ComesOutEven
<1>5. WithdrawAmount(t, lp) = floor
  BY <1>2, <1>3 DEF WithdrawAmount, AtMost
<1>6. quote = ceiling % (U64_MAX + 1) /\ limit = amount_with_slippage(quote, allowed, FALSE)
  BY DEF QuotesProgram, LimitsFromQuote
<1>7. quote <= F64_MANTISSA
  OBVIOUS
<1>8. allowed > 0 \/ ComesOutEven(t)
  OBVIOUS
<1> HIDE DEF ceiling, floor, quote, limit, allowed
<1>9. quote <= ceiling
  <2> DEFINE width == U64_MAX + 1
  <2>1. width \in Nat \ {0}
    BY <1>1
  <2>2. quote = ceiling % width
    BY <1>6
  <2> HIDE DEF width
  <2>3. ceiling \div width \in Nat
        /\ ceiling = (ceiling \div width) * width + (ceiling % width)
    BY <1>4, <2>1, DivFloor
  <2>4. (ceiling \div width) * width \in Nat
    BY <2>1, <2>3
  <2>5. ceiling % width \in Nat
    BY <1>4, <2>1, DivFloor
  <2> QED
    BY <1>4, <2>2, <2>3, <2>4, <2>5
<1>10. limit <= quote
  BY <1>1, <1>6, <1>7, LimitsRoom
<1>11. get_transfer_fee(mint[t], floor) = 0
  BY <1>1, <1>3, ClientFees, ClientFeesAgree
<1>12. AmountReceived(mint[t], floor) = floor
  BY <1>3, <1>11 DEF AmountReceived
<1>13. CASE ComesOutEven(t)
  <2>1. limit <= floor
    BY <1>1, <1>3, <1>4, <1>9, <1>10, <1>13
  <2> QED
    BY <1>1, <1>3, <1>5, <1>12, <2>1 DEF lp, limit
<1>14. CASE allowed > 0
  <2>1. CASE quote = 0
    <3>1. limit <= floor
      BY <1>1, <1>3, <1>10, <2>1
    <3> QED
      BY <1>1, <1>3, <1>5, <1>12, <3>1 DEF lp, limit
  <2>2. CASE quote # 0
    <3>1. quote \in 1..U64_MAX /\ allowed \in 1..SLIPPAGE_SCALE
      BY <1>1, <1>14, <2>2
    <3>2. limit <= quote - 1
      BY <1>6, <1>7, <3>1, SlippageTakesUnit
    <3>3. limit <= floor
      BY <1>1, <1>3, <1>4, <1>9, <3>2
    <3> QED
      BY <1>1, <1>3, <1>5, <1>12, <3>3 DEF lp, limit
  <2> QED
    BY <2>1, <2>2
<1> QED
  BY <1>8, <1>13, <1>14

\* A fresh swap costs, or brings, what was quoted.
LEMMA FreshSwap ==
  ASSUME ClientInv, QuotesProgram(quoted), LimitsFromQuote(quoted, limits),
         command.kind \in {"swap_base_in", "swap_base_out"},
         \A t \in Tokens : quoted[t] <= F64_MANTISSA
  PROVE  PassesLimits(limits)
<1>1. \A t \in Tokens : /\ quoted[t] \in 0..U64_MAX
                        /\ quoted[t] <= F64_MANTISSA
                        /\ limits[t] \in Nat
  BY U64Assumption DEF ClientInv, ClientTypeOK, Amounts
<1>2. command.input \in Tokens /\ Other(command.input) \in Tokens
      /\ command.slippage \in 0..SLIPPAGE_SCALE /\ U64_MAX \in Nat
  BY CommandTypes, MarketFields, U64Assumption DEF ClientInv, ClientTypeOK
<1>3. CASE command.kind = "swap_base_in"
  <2> DEFINE t        == Other(command.input)
             quote    == quoted[t]
             received == BaseInputReceived(MarketFor(command.input), command.amount)
  <2>1. quote = received /\ limits[t] = amount_with_slippage(quote, command.slippage, FALSE)
    BY <1>3 DEF QuotesProgram, LimitsFromQuote
  <2>2. quote \in 0..U64_MAX /\ quote <= F64_MANTISSA /\ limits[t] \in Nat
    BY <1>1, <1>2
  <2>3. limits[t] <= quote
    BY <1>2, <2>1, <2>2, LimitsRoom
  <2> HIDE DEF quote, received
  <2>4. received >= limits[t]
    BY <1>2, <2>1, <2>2, <2>3
  <2> QED
    BY <1>3, <2>4 DEF PassesLimits, received
<1>4. CASE command.kind = "swap_base_out"
  <2> DEFINE t     == command.input
             quote == quoted[t]
             cost  == InputTransferAmount(MarketFor(t), command.amount)
  <2>1. quote = cost /\ limits[t] = amount_with_slippage(quote, command.slippage, TRUE)
    BY <1>4 DEF QuotesProgram, LimitsFromQuote
  <2>2. quote \in 0..U64_MAX /\ quote <= F64_MANTISSA /\ limits[t] \in Nat
    BY <1>1, <1>2
  <2>3. quote <= limits[t]
    BY <1>2, <2>1, <2>2, LimitsRoom
  <2> HIDE DEF quote, cost
  <2>4. cost <= limits[t]
    BY <1>2, <2>1, <2>2, <2>3
  <2> QED
    BY <1>4, <2>4 DEF PassesLimits, cost
<1> QED
  BY <1>3, <1>4

(* ----------------------------- the theorems ---------------------------- *)

\* For every run, the snapshot, the quotes and the limits are within u64.
THEOREM ClientTypeCorrect == ClientSpec => []ClientTypeOK
  BY ClientInductive, PTL DEF ClientInv

\* To the liquidity providers the client is one more caller: with it, too, the pool
\* is a share pool.  Its commands name any amounts and limits, not those of the sets
\* that Pool's callers choose from.
THEOREM ClientImplementsSharePool == ClientSpec => ImplementsSharePool
<1>1. ClientInit => Shares!Init
  BY InitSafe DEF ClientInit
<1>2. ClientInv /\ [ClientNext]_allVars => [Shares!Next]_Shares!vars
  BY PoolUnderneath DEF ClientInv, ClientTypeOK
<1> QED
  BY <1>1, <1>2, ClientInductive, PTL DEF ClientSpec, ImplementsSharePool, Shares!Spec

\* What the pool promises it keeps under the client's commands: covered fees, totals
\* that are never drained, backed and locked LP, and a way out for its holders.
THEOREM PoolSafeUnderClient ==
  ClientSpec => [](Solvent /\ NeverDrained /\ LpBacked /\ LockedLiquidity /\ HoldersCanExit)
<1>1. ClientInv => Solvent /\ NeverDrained /\ LpBacked /\ LockedLiquidity /\ HoldersCanExit
  BY ExitGoesThrough DEF ClientInv, IInv, SharesInv, HoldersCanExit
<1> QED
  BY <1>1, ClientInductive, PTL

(* --------------------------- how a run ends ---------------------------- *)

\* How far a run is.
Stage(p) ==
  CASE p = "idle"      -> 0
    [] p = "started"   -> 1
    [] p = "addressed" -> 2
    [] p = "read"      -> 3
    [] p = "quoted"    -> 4
    [] p = "signed"    -> 5
    [] p = "sent"      -> 6
    [] p = "polled"    -> 7
    [] OTHER           -> 8

\* The step of a running command is a change of its phase, to a later one but for
\* the next round of polling.
LEMMA RunSteps ==
  ASSUME ClientTypeOK, [ClientNext]_allVars
  PROVE  /\ Proceeds <=> ClientStep
         /\ Proceeds => \/ Stage(phase') > Stage(phase)
                        \/ phase = "polled" /\ phase' = "sent" /\ txn.valid
<1> USE DEF Reports, Phases
<1>1. phase \in Phases
  BY DEF ClientTypeOK
<1>2. CASE ClientStep
  <2>1. /\ phase \in Phases \ (Reports \cup {"idle"})
        /\ \/ Stage(phase') > Stage(phase)
           \/ phase = "polled" /\ phase' = "sent" /\ txn.valid
        /\ phase' \in Phases
        /\ phase' # phase
    <3>1. CASE LoadAddresses
      BY <3>1 DEF LoadAddresses, Stage
    <3>2. CASE ReadAccounts
      BY <3>2 DEF ReadAccounts, Stage
    <3>3. CASE ReadEpoch
      BY <3>3 DEF ReadEpoch, Stage
    <3>4. CASE Sign
      BY <3>4 DEF Sign, Stage
    <3>5. CASE Send
      BY <3>5 DEF Send, Stage
    <3>6. CASE Poll
      BY <3>6 DEF Poll, PolledStatus, Stage
    <3>7. CASE CheckBlockhash
      BY <3>7 DEF CheckBlockhash, AfterNoStatus, Stage
    <3>8. CASE RpcFails
      BY <1>1, <3>8 DEF RpcFails, Stage
    <3> QED
      BY <1>2, <3>1, <3>2, <3>3, <3>4, <3>5, <3>6, <3>7, <3>8 DEF ClientStep
  <2> QED
    BY <1>2, <2>1 DEF Proceeds
<1>3. CASE ~ClientStep
  <2>1. \/ Start \/ TransactionExecutes \/ BlockhashExpires \/ OthersAct
        \/ UNCHANGED allVars
    BY <1>3 DEF ClientNext
  <2>2. ~Proceeds
    BY <2>1 DEF Start, TransactionExecutes, BlockhashExpires, OthersAct, allVars, clientVars,
                Proceeds
  <2> QED
    BY <1>3, <2>2
<1> QED
  BY <1>2, <1>3

\* A blockhash that got too old stays so.
LEMMA BlockhashStaysOld ==
  ASSUME ClientTypeOK, [ClientNext]_allVars, phase \in {"sent", "polled"}, ~txn.valid
  PROVE  ~txn'.valid
<1>1. txn \in Transactions
  BY DEF ClientTypeOK
<1>2. CASE UNCHANGED txn
  BY <1>2
<1>3. CASE TransactionExecutes \/ BlockhashExpires
  BY <1>3 DEF TransactionExecutes, CanExecute, BlockhashExpires
<1> QED
  BY <1>2, <1>3
     DEF ClientNext, Start, ClientStep, LoadAddresses, ReadAccounts, ReadEpoch, Sign, Send, Poll,
         CheckBlockhash, RpcFails, OthersAct, allVars

\* The safety half of RunsEnd, and what its fairness stands for.  The steps that
\* Proceeds, which is treated fairly, consists of are those of the run, whatever the
\* chain and the others do in between.  Each takes the run to a later phase, but for
\* the return to polling, which needs a blockhash that is still valid, and that does
\* not become valid again: no run polls for ever without a blockhash that lives for ever.
THEOREM RunMovesOn ==
  ClientSpec =>
    [][/\ Proceeds <=> ClientStep
       /\ Proceeds => \/ Stage(phase') > Stage(phase)
                      \/ phase = "polled" /\ phase' = "sent" /\ txn.valid
       /\ phase \in {"sent", "polled"} /\ ~txn.valid => ~txn'.valid]_allVars
<1>1. ClientInv /\ [ClientNext]_allVars =>
        [/\ Proceeds <=> ClientStep
         /\ Proceeds => \/ Stage(phase') > Stage(phase)
                        \/ phase = "polled" /\ phase' = "sent" /\ txn.valid
         /\ phase \in {"sent", "polled"} /\ ~txn.valid => ~txn'.valid]_allVars
  BY RunSteps, BlockhashStaysOld DEF ClientInv
<1> QED
  BY <1>1, ClientInductive, PTL DEF ClientSpec

\* What the user is told is true, however answers and blocks interleave.
THEOREM ReportsAlwaysTrue == ClientSpec => []ReportsAreTrue
  BY ClientInductive, PTL DEF ClientInv

\* The slippage bounds what the user can lose against the pool he was shown, what a
\* mint keeps of his transfer included, for every slippage, amount and fee schedule
\* and every order of the transactions in between.  (Of deposits into a mint that
\* charges it says what arrives only, as SlippageBoundsLoss does.)
THEOREM SlippageAlwaysBoundsLoss == ClientSpec => SlippageBoundsLoss
<1>1. ClientInv /\ [ClientNext]_allVars
        => [txn.status = "pending" /\ txn'.status = "succeeded" => LossBounded]_allVars
  BY LossStep
<1> QED
  BY <1>1, ClientInductive, PTL DEF ClientSpec, SlippageBoundsLoss

\* PassesLimits is what the limits decide: a step of the command without limits is
\* the step of the command with them exactly if it holds.
THEOREM LimitsDecide ==
  ASSUME Execute(NoLimits), NEW within
  PROVE  Execute(within) <=> PassesLimits(within)
<1> USE DEF PassesLimits
<1>1. CASE initialize_pool_instr
  BY <1>1 DEF Execute, initialize_pool_instr
<1>2. CASE deposit_instr(NoLimits)
  <2>1. deposit_instr(within) <=> PassesLimits(within)
    BY <1>2 DEF deposit_instr, deposit
  <2> QED
    BY <1>2, <2>1 DEF Execute, deposit_instr, initialize_pool_instr, withdraw_instr,
                      swap_base_input_instr, swap_base_output_instr
<1>3. CASE withdraw_instr(NoLimits)
  <2>1. withdraw_instr(within) <=> PassesLimits(within)
    BY <1>3 DEF withdraw_instr, withdraw, WithdrawOk
  <2> QED
    BY <1>3, <2>1 DEF Execute, deposit_instr, initialize_pool_instr, withdraw_instr,
                      swap_base_input_instr, swap_base_output_instr
<1>4. CASE swap_base_input_instr(NoLimits)
  <2>1. swap_base_input_instr(within) <=> PassesLimits(within)
    BY <1>4 DEF swap_base_input_instr, Swap_base_input
  <2> QED
    BY <1>4, <2>1 DEF Execute, deposit_instr, initialize_pool_instr, withdraw_instr,
                      swap_base_input_instr, swap_base_output_instr
<1>5. CASE swap_base_output_instr(NoLimits)
  <2>1. swap_base_output_instr(within) <=> PassesLimits(within)
    <3> DEFINE cost == InputTransferAmount(MarketFor(command.input), command.amount)
               t    == command.input
    <3>1. within[t] >= cost <=> cost <= within[t]
      OBVIOUS
    <3> QED
      BY <1>5, <3>1 DEF swap_base_output_instr, Swap_base_output
  <2> QED
    BY <1>5, <2>1 DEF Execute, deposit_instr, initialize_pool_instr, withdraw_instr,
                      swap_base_input_instr, swap_base_output_instr
<1> QED
  BY <1>1, <1>2, <1>3, <1>4, <1>5 DEF Execute

\* If nothing moved since the snapshot, the limits that are sent let the command
\* through, for every mint and amount: deposits and swaps whatever the slippage, none
\* included, and withdrawals with any slippage but none, or where they come out even.
THEOREM FreshAlwaysAccepted == ClientSpec => []FreshCommandAccepted
<1>1. ClientInv /\ FreshInv => FreshCommandAccepted
  <2> SUFFICES ASSUME ClientInv, FreshInv,
                      fresh, CanExecute,
                      \A t \in Tokens : quoted[t] <= F64_MANTISSA,
                      command.kind = "deposit" =>
                        \A t \in Tokens : DepositAmount(t, command.lp) <= U64_MAX,
                      command.kind = "withdraw" =>
                        /\ command.lp <= lp_mint_supply
                        /\ command.slippage > 0 \/ \A t \in Tokens : ComesOutEven(t),
                      command.kind \in {"deposit", "withdraw"} =>
                        \A t \in Tokens : ChargesNothing(t)
               PROVE  PassesLimits(limits)
    BY DEF FreshCommandAccepted
  <2>1. pool_state.initialized /\ QuotesProgram(quoted) /\ LimitsFromQuote(quoted, limits)
    BY DEF ClientInv, FreshInv, Live
  <2>2. CASE command.kind = "deposit"
    <3>1. \A t \in Tokens : DepositTransfer(t, command.lp) <= limits[t]
      BY <2>1, <2>2, FreshDeposit
    <3> QED
      BY <2>2, <3>1 DEF PassesLimits
  <2>3. CASE command.kind = "withdraw"
    <3>1. \A t \in Tokens :
            AmountReceived(mint[t], WithdrawAmount(t, command.lp)) >= limits[t]
      BY <2>1, <2>3, FreshWithdrawal
    <3> QED
      BY <2>3, <3>1 DEF PassesLimits
  <2>4. CASE command.kind \in {"swap_base_in", "swap_base_out"}
    BY <2>1, <2>4, FreshSwap
  <2>5. CASE command.kind = "initialize"
    BY <2>5 DEF PassesLimits
  <2> QED
    BY <2>2, <2>3, <2>4, <2>5, CommandTypes DEF ClientInv, ClientTypeOK
<1> QED
  BY <1>1, ClientInductive, FreshInductive, PTL

================================================================================
