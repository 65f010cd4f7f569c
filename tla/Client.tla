-------------------------------- MODULE Client --------------------------------
(***************************************************************************)
(* One run of the command-line client against a pool that others use at    *)
(* the same time.  The client reads the chain in several RPC calls, signs a*)
(* transaction with the limits of ClientQuote, sends it without a preflight*)
(* check and polls until the chain tells what became of it.  Between any   *)
(* two of these steps any other signer's transaction may execute, so the   *)
(* pool a transaction meets is not the one it was quoted for.              *)
(*                                                                         *)
(* The network may lose the transaction (it then expires with its          *)
(* blockhash) or an RPC response.  Forks are not modelled: a transaction   *)
(* that executed stays executed.  Another run of the client is another     *)
(* signer, whose transaction is one of Pool's actions.                     *)
(***************************************************************************)
EXTENDS PoolProperties, ClientQuote

CONSTANTS
  Commands,       \* command lines the client may be started with
  FeeConfigs,     \* for each token, the fee schedule in its mint account
  Caller          \* the key in payer_path

\* `slippage` is that of client_config.ini, read with the command line.
CommandLines ==
  [kind: {"initialize"}, first: Tokens, amounts: [Tokens -> Amounts], open_time: 0..MAX_TIME]
    \cup [kind: {"deposit", "withdraw"}, lp: Amounts, slippage: 0..SLIPPAGE_SCALE]
    \cup [kind: {"swap_base_in", "swap_base_out"}, input: Tokens, amount: Amounts,
          slippage: 0..SLIPPAGE_SCALE]

ChargesNothing(t) == \A e \in 0..MAX_EPOCH :
  get_epoch_fee(FeeConfigs[t], e).transfer_fee_basis_points = 0

ASSUME ClientAssumption ==
  /\ Commands \subseteq CommandLines
  /\ FeeConfigs \in [Tokens -> TransferFeeConfigs(Nat, 0..MAX_EPOCH)]
  /\ \A t \in Tokens : FeeConfigs[t].program = "spl_token" => ChargesNothing(t)
  /\ \A t \in Tokens, e \in 0..MAX_EPOCH : get_epoch_fee(FeeConfigs[t], e) \in MintChoices[t]
  /\ Caller \in Keys

VARIABLES
  phase,      \* where the run is; its last value is what the user is told
  command,
  seen,       \* the snapshot, while the command still needs it
  quoted,     \* the amounts computed from it, before slippage
  limits,     \* the limits put into the transaction
  txn,        \* the signed transaction, as the chain has it
  fresh       \* history: nothing that quotes depend on moved since the snapshot

clientVars == <<phase, command, seen, quoted, limits>>
allVars == <<vars, clientVars, txn, fresh>>

\* "ok": the signature is printed.  "program_error": the transaction failed on
\* chain.  "error": anything else, a panic included.
Reports == {"ok", "program_error", "error"}

Phases == {"idle", "started", "addressed", "read", "quoted", "signed", "sent", "polled"}
            \cup Reports

Unsent == [status |-> "none", valid |-> FALSE]

\* `valid` is the blockhash: it is recent for a while after the signing.
Transactions ==
  [status: {"none", "signed", "pending", "succeeded", "failed"}, valid: BOOLEAN]

NoSnapshot ==
  [total |-> Nothing, lp_supply |-> 0,
   rates |-> [trade_fee_rate |-> 0, creator_fee_rate |-> 0,
              protocol_fee_rate |-> 0, fund_fee_rate |-> 0],
   is_creator_fee_on_input |-> [t \in Tokens |-> FALSE]]

\* One get_multiple_accounts call reads all of it at one slot.
Snapshot ==
  [total |-> [t \in Tokens |-> Total(t)],
   lp_supply |-> pool_state.lp_supply,
   rates |-> MarketFor(0).rates,
   is_creator_fee_on_input |-> [t \in Tokens |-> is_creator_fee_on_input(t)]]

(* --------------------------- the transaction --------------------------- *)

\* The client creates the account an output goes to with the SPL token program
\* whatever program the mint belongs to; for another one the creation fails and
\* the whole transaction with it.
create_ata_token_account(t) == mint[t].program = "spl_token"

\* The mints are sorted before they are sent, and the amounts with them.
SortedAmounts ==
  [t \in Tokens |-> command.amounts[IF command.first = 0 THEN t ELSE Other(t)]]

initialize_pool_instr ==
  /\ command.kind = "initialize"
  /\ initialize(Caller, SortedAmounts, command.open_time)

\* The account created here is for LP, which is an SPL token.
deposit_instr(within) ==
  /\ command.kind = "deposit"
  /\ deposit(command.lp, within)

withdraw_instr(within) ==
  /\ command.kind = "withdraw"
  /\ \A t \in Tokens : create_ata_token_account(t)
  /\ withdraw(command.lp, within)

swap_base_input_instr(within) ==
  /\ command.kind = "swap_base_in"
  /\ create_ata_token_account(Other(command.input))
  /\ Swap_base_input(command.input, command.amount, within[Other(command.input)])

swap_base_output_instr(within) ==
  /\ command.kind = "swap_base_out"
  /\ create_ata_token_account(Other(command.input))
  /\ Swap_base_output(command.input, within[command.input], command.amount)

\* The transaction of the command, with `within` as its limits.
Execute(within) ==
  \/ initialize_pool_instr
  \/ deposit_instr(within)
  \/ withdraw_instr(within)
  \/ swap_base_input_instr(within)
  \/ swap_base_output_instr(within)

(* ------------------------- the steps of the run ------------------------ *)

poolUnchanged == UNCHANGED <<vars, fresh>>

\* Quotes and limits are kept for as long as the transaction may execute.
LimitsServed ==
  /\ quoted' = Nothing
  /\ limits' = Nothing

\* The command line waits to be entered, at any time.
Start ==
  /\ phase = "idle"
  /\ phase' = "started"
  /\ UNCHANGED <<command, seen, quoted, limits, txn>>
  /\ poolUnchanged

\* program.account(pool_id): the addresses, for the calls to come.  Creating a
\* pool reads the two mints instead, and needs no quote.
LoadAddresses ==
  /\ phase = "started"
  /\ phase' = IF command.kind = "initialize"
              THEN "quoted"
              ELSE IF pool_state.initialized THEN "addressed" ELSE "error"
  /\ UNCHANGED <<command, seen, quoted, limits, txn>>
  /\ poolUnchanged

\* vault_amount_without_fee is unwrapped.
ReadAccounts ==
  /\ phase = "addressed"
  /\ IF VaultCoversFees
     THEN phase' = "read" /\ seen' = Snapshot /\ fresh' = TRUE
     ELSE phase' = "error" /\ UNCHANGED <<seen, fresh>>
  /\ UNCHANGED <<vars, command, quoted, limits, txn>>

\* The limits a liquidity command sends are those of both tokens, a swap's is
\* that of the token it does not fix.
QuotedLimits ==
  CASE command.kind = "deposit" ->
         [quote  |-> LiquidityQuote(seen, command.lp),
          limits |-> DepositLimits(seen, FeeConfigs, epoch, command.slippage, command.lp)]
    [] command.kind = "withdraw" ->
         [quote  |-> LiquidityQuote(seen, command.lp),
          limits |-> WithdrawLimits(seen, FeeConfigs, epoch, command.slippage, command.lp)]
    [] command.kind = "swap_base_in" ->
         LET quote == SwapInQuote(seen, FeeConfigs, epoch, command.input, command.amount)
         IN  [quote  |-> [Nothing EXCEPT ![Other(command.input)] = quote],
              limits |-> [Nothing EXCEPT ![Other(command.input)] =
                            amount_with_slippage(quote, command.slippage, FALSE)]]
    [] command.kind = "swap_base_out" ->
         LET quote == SwapOutQuote(seen, FeeConfigs, epoch, command.input, command.amount)
         IN  [quote  |-> [Nothing EXCEPT ![command.input] = quote],
              limits |-> [Nothing EXCEPT ![command.input] =
                            amount_with_slippage(quote, command.slippage, TRUE)]]

QuoteDefined ==
  CASE command.kind = "deposit" ->
         DepositQuoteDefined(seen, FeeConfigs, epoch, command.slippage, command.lp)
    [] command.kind = "withdraw" ->
         WithdrawQuoteDefined(seen, FeeConfigs, epoch, command.slippage, command.lp)
    [] command.kind = "swap_base_in" -> SwapInQuoteDefined(seen, command.input)
    [] command.kind = "swap_base_out" ->
         SwapOutQuoteDefined(seen, FeeConfigs, epoch, command.input, command.amount)

\* The epoch is read by a call of its own, after the accounts; the snapshot is
\* of no more use once the quote is made.
ReadEpoch ==
  /\ phase = "read"
  /\ seen' = NoSnapshot
  /\ IF QuoteDefined
     THEN /\ phase' = "quoted"
          /\ quoted' = QuotedLimits.quote
          /\ limits' = QuotedLimits.limits
     ELSE phase' = "error" /\ UNCHANGED <<quoted, limits>>
  /\ UNCHANGED <<command, txn>>
  /\ poolUnchanged

\* get_latest_blockhash and the signature.
Sign ==
  /\ phase = "quoted"
  /\ phase' = "signed"
  /\ txn' = [status |-> "signed", valid |-> TRUE]
  /\ UNCHANGED <<command, seen, quoted, limits>>
  /\ poolUnchanged

\* Without a preflight the node takes any transaction, an expired one too.
Send ==
  /\ phase = "signed"
  /\ phase' = "sent"
  /\ txn' = [txn EXCEPT !.status = "pending"]
  /\ UNCHANGED <<command, seen, quoted, limits>>
  /\ poolUnchanged

\* takes a transaction that was processed for one that succeeded
BugStatusIsOk == IF txn.status \in {"succeeded", "failed"} THEN "ok" ELSE "polled"

\* What get_signature_status tells, if the transaction has one.
PolledStatus ==
  CASE txn.status = "succeeded" -> "ok"
    [] txn.status = "failed"    -> "program_error"
    [] OTHER                    -> "polled"

Poll ==
  /\ phase = "sent"
  /\ phase' = PolledStatus
  /\ UNCHANGED <<command, seen, quoted, limits, txn>>
  /\ poolUnchanged

\* waits on although the transaction can no longer execute
BugWaitsForever == "sent"

\* No status yet: is_blockhash_valid, in a second call, decides whether to poll on.
AfterNoStatus == IF txn.valid THEN "sent" ELSE "error"

CheckBlockhash ==
  /\ phase = "polled"
  /\ phase' = AfterNoStatus
  /\ UNCHANGED <<command, seen, quoted, limits, txn>>
  /\ poolUnchanged

\* Every call may fail or time out, and `?` or unwrap ends the run.  Where the
\* call was the sending, the transaction may have got through.
RpcFails ==
  /\ phase \notin Reports \cup {"idle"}
  /\ phase' = "error"
  /\ seen' = NoSnapshot
  /\ \/ /\ UNCHANGED txn
        /\ IF txn.status = "pending" THEN UNCHANGED <<quoted, limits>> ELSE LimitsServed
     \/ /\ phase = "signed"
        /\ txn' = [txn EXCEPT !.status = "pending"]
        /\ UNCHANGED <<quoted, limits>>
  /\ UNCHANGED command
  /\ poolUnchanged

(* ------------------------------ the chain ------------------------------ *)

\* What a quote depends on.
QuotedState == <<pool_state, vault, amm_config, mint, epoch>>

CanExecute == txn.status = "pending" /\ txn.valid

\* The program, or a token program, does not accept the transaction.
Refused == ~ENABLED Execute(limits)

\* A blockhash makes a signature good for one execution, until it is too old.
TransactionExecutes ==
  /\ CanExecute
  /\ \/ /\ Execute(limits)
        /\ txn' = [txn EXCEPT !.status = "succeeded"]
     \/ /\ Refused
        /\ txn' = [txn EXCEPT !.status = "failed"]
        /\ UNCHANGED vars
  /\ LimitsServed
  /\ fresh' = (fresh /\ UNCHANGED QuotedState)
  /\ UNCHANGED <<phase, command, seen>>

BlockhashExpires ==
  /\ txn.valid
  /\ txn' = [txn EXCEPT !.valid = FALSE]
  /\ LimitsServed
  /\ UNCHANGED <<phase, command, seen>>
  /\ poolUnchanged

\* Any other signer's transaction, and time.  A mint's fee follows its schedule.
OthersAct ==
  /\ Next
  /\ \A t \in Tokens : mint'[t] = get_epoch_fee(FeeConfigs[t], epoch')
  /\ fresh' = (fresh /\ UNCHANGED QuotedState)
  /\ UNCHANGED <<clientVars, txn>>

(* ------------------------------ behaviours ----------------------------- *)

ClientInit ==
  /\ Init
  /\ \A t \in Tokens : mint[t] = get_epoch_fee(FeeConfigs[t], 0)
  /\ phase = "idle"
  /\ command \in Commands
  /\ seen = NoSnapshot
  /\ quoted = Nothing
  /\ limits = Nothing
  /\ txn = Unsent
  /\ fresh = FALSE

ClientStep ==
  \/ LoadAddresses
  \/ ReadAccounts
  \/ ReadEpoch
  \/ Sign
  \/ Send
  \/ Poll
  \/ CheckBlockhash
  \/ RpcFails

ClientNext ==
  \/ Start
  \/ ClientStep
  \/ TransactionExecutes
  \/ BlockhashExpires
  \/ OthersAct

\* A step of the run: each of them, and nothing else, moves a running phase, and
\* in every running phase one is possible.
Proceeds ==
  /\ phase \notin Reports \cup {"idle"}
  /\ phase' \in Phases \ {phase}

\* The run is a process that takes its next step (a call answers, or times out),
\* and blocks are produced, so a blockhash gets too old.  Nothing makes the network
\* deliver the transaction, or anybody else act.
ClientFairness ==
  /\ WF_phase(Proceeds)
  /\ WF_txn(BlockhashExpires)

ClientSpec == ClientInit /\ [][ClientNext]_allVars /\ ClientFairness

(* ------------------------------ properties ----------------------------- *)

ClientTypeOK ==
  /\ phase \in Phases
  /\ command \in Commands
  /\ seen \in Snapshots(Amounts)
  /\ quoted \in [Tokens -> Amounts]
  /\ limits \in [Tokens -> Amounts]
  /\ txn \in Transactions
  /\ fresh \in BOOLEAN

\* What the user is told can be relied on, although the transaction executes at
\* a time of its own, after an answer was lost or between the two calls of a
\* poll: a printed signature has executed, a program error has changed nothing.
\* (After any other error the transaction may have executed, or still may.)
ReportsAreTrue ==
  /\ phase = "ok" => txn.status = "succeeded"
  /\ phase = "program_error" => txn.status = "failed"

\* What leaves the caller when the transaction executes: the transfers that the
\* handler of the command makes, of which the mint keeps its fee.
Sent(t) ==
  CASE command.kind = "initialize" -> SortedAmounts[t]
    [] command.kind = "deposit" -> DepositTransfer(t, command.lp)
    [] command.kind = "swap_base_in" -> command.amount
    [] command.kind = "swap_base_out" ->
         InputTransferAmount(MarketFor(command.input), command.amount)

\* The vault gains what the mint leaves of it, so this is what was sent.
Arrives(t) == vault'[t] = vault[t] + AmountReceived(mint[t], Sent(t))

\* What reaches the caller.
NetReceived(t) == AmountReceived(mint[t], vault[t] - vault'[t])

\* Up to the rounding of the limit to a whole unit, and, where the amounts are
\* beyond what an f64 holds exactly, up to the rounding errors of the f64s.
AtMostQuoted(t) ==
  LET most == quoted[t] * (SLIPPAGE_SCALE + command.slippage)
  IN  IF most <= F64_MANTISSA
      THEN (Sent(t) - 1) * SLIPPAGE_SCALE < most
      ELSE (Sent(t) - 1) * SLIPPAGE_SCALE * F64_MANTISSA <= most * (F64_MANTISSA + 3)

AtLeastQuoted(t) ==
  LET least == quoted[t] * (SLIPPAGE_SCALE - command.slippage)
  IN  IF least <= F64_MANTISSA
      THEN (NetReceived(t) + 1) * SLIPPAGE_SCALE > least
      ELSE (NetReceived(t) + 1) * SLIPPAGE_SCALE * F64_MANTISSA >= least * (F64_MANTISSA - 3)

LossBounded ==
  CASE command.kind = "initialize" -> \A t \in Tokens : Arrives(t)
    [] command.kind = "deposit" ->
         \A t \in Tokens : Arrives(t) /\ (ChargesNothing(t) => AtMostQuoted(t))
    [] command.kind = "withdraw" -> \A t \in Tokens : AtLeastQuoted(t)
    [] command.kind = "swap_base_in" ->
         Arrives(command.input) /\ AtLeastQuoted(Other(command.input))
    [] command.kind = "swap_base_out" -> Arrives(command.input) /\ AtMostQuoted(command.input)

\* The slippage the user configured bounds what he can lose against the pool he
\* was shown, the fees that mints keep of his transfers included, whatever happened
\* to the pool, the rates or a mint's fee between the snapshot and the execution,
\* and however late that is.  (A deposit's maximum is no such bound where the mint
\* charges a fee, see DepositLimitsCoverFees.)
SlippageBoundsLoss ==
  [][txn.status = "pending" /\ txn'.status = "succeeded" => LossBounded]_allVars

\* Limits that no execution can miss.
NoLimits ==
  [t \in Tokens |-> IF command.kind \in {"deposit", "swap_base_out"} THEN U64_MAX ELSE 0]

\* The program's check of the command's limits: where Execute(NoLimits) goes through,
\* Execute(within) does exactly if this holds (LimitsDecide in ClientProofs).
PassesLimits(within) ==
  CASE command.kind = "initialize" -> TRUE
    [] command.kind = "deposit" ->
         \A t \in Tokens : DepositTransfer(t, command.lp) <= within[t]
    [] command.kind = "withdraw" ->
         \A t \in Tokens : AmountReceived(mint[t], WithdrawAmount(t, command.lp)) >= within[t]
    [] command.kind = "swap_base_in" ->
         BaseInputReceived(MarketFor(command.input), command.amount)
           >= within[Other(command.input)]
    [] command.kind = "swap_base_out" ->
         InputTransferAmount(MarketFor(command.input), command.amount) <= within[command.input]

\* The client rounds a withdrawal up where the program rounds down: without slippage
\* it asks for a unit too much of each token that does not come out even.
ComesOutEven(t) == (command.lp * Total(t)) % pool_state.lp_supply = 0

\* The client's arithmetic is the program's: if nothing moved since the snapshot,
\* the limits it sends do not stop a command the program could carry out, as long as
\* an f64 holds what was quoted.  Deposits and swaps need no slippage for this; a
\* withdrawal does, and any at all will do, unless it comes out even.  Mints with a
\* fee are excluded from deposits (see DepositLimitsCoverFees) and withdrawals (which
\* fail for them, see create_ata_token_account).
FreshCommandAccepted ==
  /\ fresh
  /\ CanExecute
  /\ \A t \in Tokens : quoted[t] <= F64_MANTISSA
  /\ command.kind = "deposit" => \A t \in Tokens : DepositAmount(t, command.lp) <= U64_MAX
  /\ command.kind = "withdraw" =>
       /\ command.lp <= lp_mint_supply
       /\ command.slippage > 0 \/ \A t \in Tokens : ComesOutEven(t)
  /\ command.kind \in {"deposit", "withdraw"} => \A t \in Tokens : ChargesNothing(t)
  => PassesLimits(limits)

\* A deposit's maximum has room for the transfer fee, "calc with transfer_fee":
\* nothing but the fee separates it from the quote if nothing moved.
DepositLimitsCoverFees ==
  /\ fresh
  /\ CanExecute
  /\ command.kind = "deposit"
  /\ ENABLED Execute(NoLimits)
  => ENABLED Execute(limits)

\* A run comes to an end, with a report: it never polls for a transaction that
\* cannot execute any more, however the network and the pool behave.
RunsEnd == phase = "started" ~> phase \in Reports

=============================================================================
