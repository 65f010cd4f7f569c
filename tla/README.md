# Verification of the cp-swap program

TLA+ modules, TLC configurations and TLAPS proofs for the constant-product swap
program of this repository (`src/programs/cp-swap`) and its command-line client
(`src/client`). A pool holds two tokens;
traders swap one for the other along `x * y = k`, liquidity providers (LPs) put
both in and hold LP tokens for them, and the trade fee is shared by the LPs, the
protocol, a fund and, in some pools, the creator of the pool. The project asks
whether the books always add up: are the fees owed in the vaults, can anybody
take value from the LPs, can the pool block itself, does its price oracle hold what
it says, and can a user of the client rely on what it quotes and reports.

Paths below are relative to `src/programs/cp-swap/src` unless they begin with `src/`.

## The system

| component | code | state it keeps | operations |
|---|---|---|---|
| curve | `curve/*.rs`, `utils/math.rs` | none | both swap directions, LP to token amounts, four fees |
| transfer fees | `utils/token.rs:127-177` | none; reads a mint's fee schedule | fee of an amount, fee to add to an amount |
| swaps | `instructions/swap_base_{input,output}.rs` | pool account, vaults, observation account | exact input, exact output |
| liquidity | `instructions/{deposit,withdraw}.rs` | pool account, vaults, LP mint | deposit, withdraw |
| creation | `instructions/initialize*.rs` | all accounts of a pool | with or without a permission and a creator fee |
| pool account | `states/pool.rs` | status bits, `lp_supply`, six fee counters, creator-fee mode | read and written by every handler |
| fee collection | `instructions/admin/collect_*.rs`, `instructions/collect_creator_fee.rs` | fee counters, vaults | partial (protocol, fund) and full (creator) |
| oracle | `states/oracle.rs` | a ring of cumulative prices | one update per swap |
| config | `states/config.rs`, `instructions/admin/{create,update}_config.rs`, `lib.rs` | four rates, owners, a creation switch | create, eight updates |
| registry | `states/{permission,support_mint_associated}.rs` and their four handlers | which PDAs exist | create and close each |
| accounts | `utils/account_load.rs`, `utils/token.rs:186-330`, `create_pool` in `instructions/initialize.rs` | owner, lamports, space and discriminator of a pool's addresses | create, load, load for initialization |
| events | `states/events.rs` and the four handlers that emit | the transaction log | one event per deposit, withdrawal or swap |
| client | `src/client/src/main.rs`, `src/client/src/instructions/{utils,rpc,amm_instructions,token_instructions}.rs` | one run: a snapshot, limits, a signed transaction | initialize, deposit, withdraw, two swaps |
| log parser | `src/client/src/instructions/events_instructions_parse.rs` | a stack of program contexts | one step per log line |

Interactions. A handler reads its pool, the pool's vaults, the config the pool
belongs to and the two mints, which nobody but their owners controls. It calls
the curve, transfers through the token programs, writes the pool account and, for
a swap, the observation account. The config is shared by pools, and an update
of it changes the price of the next swap of each; the registry is read only when a
pool is created. The client reads the pool's accounts, then the epoch, then a
blockhash in separate RPC calls, computes limits with the program's curve and its own
transfer-fee and slippage code, sends a transaction and polls for its status; others'
transactions execute between any two of these steps. The log parser sees nothing but
the lines of a finished transaction.

What is hard here. An instruction is atomic on Solana: an error or a panic undoes
all of it, so there is no crash between two steps of a handler and no
interleaving inside one. The difficulty is in the sequences: any signer sends any
instruction at any time, rates, mint fees, the clock and the status change between
two transactions, tokens arrive in a vault and LP is burnt without the program
knowing, and every amount is rounded, in up to six places within one swap. Around the
program there is real concurrency: a client's snapshot is old by the time its
transaction executes, the network may lose the transaction or an answer, and the
transaction dies with its blockhash. The addresses of a pool exist before the pool, so
others can send lamports there or, for a random key, prepare an account.
`PROJECT.json` lists these hazards at the lines where they bite.

What makes each component correct: the curve never gives value away and its two
directions agree; a grossed-up transfer delivers exactly what was asked; fees owed
are covered by the vaults; the value behind an LP token never falls; no side is
ever empty; locked LP stays locked; LPs can leave; status bits do what they say;
the oracle is the integral of the prices; the rates stay below 100% together; nobody
can block or forge a pool; the events tell what was transferred and what backs the
pool; the client's limits bound what its user can lose and do not stop a command that
nothing interfered with; its report is true and always comes; the log parser knows
which program wrote each line.

## The modules

| module | models | remarks |
|---|---|---|
| `Curve` | `curve/*.rs`, `utils/math.rs` | pure operators; `...Defined` says when the code returns `Some` |
| `TransferFee` | `utils/token.rs`, and the SPL formulas it calls | the formulas are external |
| `SwapQuote` | what the swap handlers compute and check before they move a token | combines the two above |
| `ClientQuote` | what the client computes: `src/client/src/instructions/utils.rs`, the quotes of `src/client/src/main.rs` | extends `SwapQuote`: the client links the program's curve; f64 rounding is modelled by what it does |
| `QuoteCheck` | no code: walks through the amounts a caller may name | the arithmetic properties, extends `ClientQuote` |
| `Observation` | `states/oracle.rs` | pure operators on the account |
| `OracleFeed` | that account under any clock and prices, with a history of the exact integral | |
| `PriceIntegral` | abstract oracle | refined by `OracleFeed` and `Pool` |
| `AmmConfig` | config account and its two handlers | |
| `Registry` | permission and support-mint accounts | |
| `Pool` | a pool with all its instructions, its config, registry, mints and clock | extends `SwapQuote` and `Observation`, instantiates `AmmConfig` as `Config` and `Registry` as `Access` |
| `PoolProperties` | what a pool promises | |
| `SharePool` | abstract pool: totals, shares, no fees or rates | refined by `Pool` |
| `Events` | the events of the four handlers that emit | extends `PoolProperties`: an event goes with the handler's action |
| `Client` | one run of the client beside a pool that others use | extends `PoolProperties` and `ClientQuote`; the transaction executes by `Pool`'s own actions |
| `LogParser` | the runtime's log of nested calls, and the parser that reads it | |
| `Accounts` | creation and loading of a pool's accounts among what others can do to them | |
| `MC*` | the instances for TLC | `MCComponents` runs four components side by side, see below |
| `*Theorems`, `*Proofs` | theorems about operators, and about specifications | see below |

Every handler of the program is one action of `Pool` that carries its name, with
the checks of the handler as guards in the code's terms (`WithdrawOk`, `BaseInputOk`
and so on) and all its writes as one step; where the code would return an error or
panic, the action is disabled. Only the names `Swap_base_input` and
`Swap_base_output` differ, because the curve's operators have the original ones. The
pairs of token fields (`..._token_0`, `..._token_1`) are functions of the token, and
`TradeDirection` is the token swapped in. `PROJECT.json` maps each definition to its lines.

A definition named `Bug...` is a plausible mistake in the definition after it.
Nothing uses one. Replacing the definition by it must make TLC
report the property that `PROJECT.json` pairs it with under `mutants`: it is how we
know that each property depends on the code.

Environment actions of `Pool`, all things that can happen on chain: `Donate` (anyone
can transfer into a vault), `BurnLp` (a holder burns LP with the token program),
`ClockMoves` (the clock is an estimate and may also go back), `EpochBegins` (a
Token-2022 mint's fee changes with the epoch).

A run of `Client` is a program counter, `phase`: each action is one RPC call or one
computation of the code and moves it on, or to a report. `OthersAct` is any step of
`Pool` by anybody else. `TransactionExecutes` takes the action of the command, with the
limits computed earlier, in the state the pool is in now, or marks the transaction
failed where that action is disabled; `BlockhashExpires` ends its validity. `RpcFails`
is an error of any call; when the call is the sending, the transaction may have got
through all the same. `limits` is kept while the transaction may still execute, and so is
`quoted`, for the properties. `fresh` is a history variable: nothing that quotes depend on has
changed since the snapshot.

In `LogParser` the runtime appends a line and the parser reads it in one step. The
parser really reads the log afterwards, but looks at one line at a time and never back,
so this loses nothing, and its stack can be compared with the real calls at every line.

`MCComponents` puts `AmmConfig`, `OracleFeed`, `Accounts` and `LogParser` into one
instance. They share no state; one of them moves while the others rest in an initial
state. The reachable states are those of each component by itself, one after the other,
and the properties are those of the components: it is four small runs in one.

### Abstractions

- Users' wallets are not modelled. A caller can send whatever is not in the vault
  (`CanSend`), since a mint's supply fits u64, and withdraw any LP in circulation.
- Signers matter only where a handler compares them: owners, creator, permission
  holder. Admin-only instructions are taken as signed by the admin.
- One pool. Pools share a config and the registry and nothing else, and both change
  freely here.
- u64 is `0..U64_MAX` and is checked wherever the code converts or adds with a check.
  Intermediate u128 products cannot overflow for u64 operands, with one exception that
  `Curve` explains. The oracle's u128 sums wrap modulo `U128_MAX + 1`.
- The price scale 2^32, the fee denominator 10^6, the 10000 basis points, the 100 locked
  LP, the ring of 100 and its 15 seconds are constants of the modules.
- Left out: the pool-creation fee, decimals, error codes. Rent, lamports and the
  ownership of accounts are in `Accounts`, not in `Pool`: they decide whether a pool can
  be created and loaded, and no handler's arithmetic. Of addresses only what a handler
  compares is kept.
- Vaults lose tokens only through the program. A mint whose extensions allow otherwise
  (a permanent delegate) is refused by `is_supported_mint` unless the admin vouches for it.

## The runs

Every run exhausts its instance.

| run | states | question |
|---|---|---|
| `quotes` | 95,904 | do the roundings of the two swap handlers, the transfer fees and the client's slippage fit together, and can anybody gain by splitting a swap or by swapping back? |
| `components` | 221,471 | `AmmConfig`: do rates set one at a time stay below the denominator? `OracleFeed`: does the ring hold the integral, through wraps, a repeated or reversed clock and old accounts? `Accounts`: can others block, forge or undo a pool? `LogParser`: is the parser always in the right context? |
| `pool_fees` | 99,700 | all instructions of a pool with all fees: solvency, backing, exit, refinement of `SharePool` |
| `pool_transfer_fees` | 41,488 | a mint whose fee changes by epoch: is anybody diluted, does a swap leave the pool where its quote says, and do the events tell what happened? |
| `pool_lifecycle` | 122,472 | status bits, a creation switch, a token to be registered first, that an open pool trades, and that its books never refuse what its curve accepts |
| `pool_oracle` | 57,984 | the oracle and the value of a share under donations, clock moves, changing rates and changing transfer fees |
| `client` | 93,324 | every command against a pool of plain tokens, withdrawals with and without slippage: quotes, losses, reports, and that a run ends |
| `client_fees` | 71,372 | swaps with slippage where a mint's fee rises with the epoch, perhaps between quote and execution: what may leave the user, the fee included? |
| `pool_zero_fee` | violation | see Findings |
| `oracle_timestamp` | violation | see Findings |
| `amm_config_params` | violation | see Findings |
| `client_deposit_fee` | violation | see Findings |

Bounds. Rounding is where arithmetic goes wrong, so the denominators are small (10)
and the rates large (20% to 70%): nearly every fee is a proper fraction and each
rounding happens in each direction. Amounts up to 10 or 12 in the pool runs, and up to 36
against vaults up to 20 in `quotes`, contain every residue of those fractions. In
`pool_fees` protocol and fund take exactly 100% of the trade fee between them, the
limit the config admits, so one unit rounded the wrong way is missing from the pool at once.
The ring has 2 or 3 slots of 2 seconds, and the clock runs long enough to wrap it; the
width of the cumulative prices (12 or 100) makes sums wrap and the overflow check
fire. One LP is locked, so that the last withdrawal meets the lock. `OpenTimes`,
`SwapAmounts`, `LpAmounts`, `Limits`, `Donations`, `Statuses`, `InitAmounts` are the
arguments callers name; `Limits` holds 0 and the maximum, so both sides of every
slippage check occur. `MAX_TIME` and `MAX_EPOCH` cap the clock. Each run varies one
dimension and keeps the others small; the proofs cover the combinations.

`quotes` has f64s with a mantissa of 16, so that amounts beyond it are rounded, and
slippages of 0, 1/8, 3/8 and 1. In `client_fees` the fee rises from one unit to two
between the quote and the execution, by more than the slippage leaves room for: a program
that compared the amount net of the fee with the user's maximum would let the swap through.
The client runs have one command each behaviour, out of all
kinds, and a pool of 8 to 11 units that others trade with, enter, leave and collect
from, with donations left to the other runs; two epochs are enough for the fee to change at any step. In `components`,
three roles at two addresses take up to 4 lamports where a pool needs 4 and a vault 2 or
3, so there are gifts below, at and above the rent; three nested calls, seven lines and
three programs give re-entry of the program through another one, and a line after a
return to it.

`CHECK_DEADLOCK FALSE`: a pool whose clock, epoch and callers are at the bounds has
nothing left to do, the walk of `quotes` ends at `MAX_AMOUNT`, a log ends, and a
client run is over after its report.

Fairness. `ClientSpec` assumes two things. `WF_phase(Proceeds)`: a running client takes
its next step, since every RPC call answers or times out (an error is a step too);
`Start`, the entering of the command, is left out of it. `WF_txn(BlockhashExpires)`:
blocks are produced whatever clients do, and a blockhash is too old some blocks later.
Nothing makes the network deliver the transaction or anybody else act. Under this
`RunsEnd` says that the polling loop behind `send_txn` (`src/client/src/instructions/rpc.rs:30`, code
of the RPC library) ends, because it asks for the blockhash as well as the status;
without the second assumption it would not.

The pool itself has no liveness: no instruction is forced on anybody and the code
promises no progress of its own. What would be asked as progress is stated of single
states instead: `HoldersCanExit` and `NormalPoolSwaps` say that a caller who wants to
can, `NobodyBlocksCreation` that a pool can always be made, and `FreshCommandAccepted`
that the client's own limits do not stop a command that nothing interfered with.

## The proofs

TLAPS checks these for every value of the constants, under the assumptions named in
the modules (`DenominatorAssumption`, `BasisPointsAssumption`, `U64Assumption`,
`ObservationAssumption`, `PoolAssumption`, `AmmConfigAssumption`, `OracleFeedAssumption`,
`LogAssumption`, `AccountsAssumption`, `MarketsAssumption`, `ClientQuoteAssumption`,
`ClientAssumption`: the widths, scales, ring sizes, rents and depths are positive, and
inputs fit their widths). Three of these say more. `MarketsAssumption` takes the markets of
`QuoteCheck` to have a side that holds something, and rates that stay together below the
denominator; `PoolMarketsAdmitted` proves that the markets of every reachable pool do. `ClientQuoteAssumption` takes an f64's
mantissa and the slippage's scale to be powers of two. `ClientAssumption` takes mints of
the SPL token program to charge no fee on a transfer, which that program has no way to do,
and mints to charge what their schedules say. TLC evaluates all of them in its runs.

Every property that a passing run checks is proved, but for `RunsEnd`, whose safety half
is (see the end). Two theorems have a hypothesis beside the assumptions:

- `CurveAlwaysDecides` assumes `PricesFit`: the largest price, charged for all the time
  there is, fits the oracle's accumulator. With the code's numbers this is
  `2^64 * 2^32 * MAX_TIME <= 2^128 - 1`, so it holds for timestamps before 2106. It holds
  in `pool_lifecycle` too.
- `NormalPoolAlwaysSwaps` proves `NormalPoolSwaps` of the states in which `SplitsDefined`
  holds: the split of the combined fee is not a division by 0. This is the complement of
  finding 1, stated of a state, because an admin may set the rates to 0 and back.

| module | proves |
|---|---|
| `OperatorTheorems` | lemmas on the curve, the transfer fees, the two swap quotes and the oracle's update |
| `FloatTheorems` | lemmas on f64 rounding and the client's slippage limits |
| `QuoteCheckProofs` | the seven properties that `quotes` checks, and that paying more never brings less, which splitting off one unit implies |
| `PoolProofs` | the properties of a pool and its two refinements |
| `EventsProofs` | what an observer of the events may rely on |
| `ClientProofs` | what a user of the client may rely on |
| `OracleProofs` | the observation ring by itself, its types included, which no run lists |
| `ComponentProofs` | the config, the accounts and the log parser |

### Arithmetic

`OperatorTheorems`: fees and roundings stay inside the amounts (`BaseInputAccounted`,
`BaseOutputAccounted`); a transfer grossed up by `get_transfer_inverse_fee` delivers
exactly what was asked (`InverseFee` shows that the code's own check of the fee
always passes, `InverseFeeExact` what follows once it has); an update of the oracle keeps
the ring's types and adds price times elapsed time to the newest slot.

The lemmas about quotes are there as well, since `QuoteCheckProofs` and `PoolProofs` both
use them. They are about any market that is `Tradable` (the input side holds something and
the rates are bounded) and take a quote apart into the steps between its roundings: the
transfer fee on the input, the fees on the input, the curve, the creator's fee on the
output, the transfer fee on the output (`BaseInputParts`, `BaseOutputParts`). Each step is
shown to grow with its input (`...Grows`), to give no more for two parts than for their sum
(`...InParts`), and to be inverted by the matching step of the other handler to the least
input that suffices (`CurveInverse`, `PreFeeLeast`, `InverseFee`). The properties compose
these. `OutputQuoteIsCheapest` goes backwards through the least inputs; that one unit less
does not suffice needs each step's inverse to be least, not just sufficient. For
`SplittingNeverBringsMore`, `AfterSwap` says that the market a first swap leaves is no
better than the first one with the first part on both sides, because the fees of the first
part that stay in the pool only add to it; the curve's own split is then
`CurveInParts`. For `RoundTripNeverPays`, no more reaches the curve on the way back than it gave
on the way there (`NetGrows`, `TransferFeeBounded`), and it finds at most what was sent added to
the side that it gives from (`AfterSwap`): `CurveRoundTrip` shows that the curve then gives at
most what was sent, the fees of the first swap that stayed in the pool included.
`DoublingBringsHalf` (from `CurveHalves` and the inverse of the fee on the input) is what
`NormalPoolSwaps` needs.

`FloatTheorems`, for every width of the mantissa: the distance between f64s around a number
is the least power of two that fits (`UlpFacts`, which needs that a larger one always exists,
`PowersUnbounded`); one rounding is off by at most half of it (`ToF64Near`), never crosses a
number of that spacing (`ToF64Keeps`) and keeps small numbers (`ToF64Exact`, since the smaller of
two powers of two divides the larger, `PowerDivides`). Two of them are off by less than
three parts in the mantissa (`TwiceRounded`), and this gives `LimitsNear` and, with the final
rounding to a unit, `LimitsNearExact`. `LimitsRoom` gives `LimitsNeverTighten`, and
`LimitsExact` the limits as exact as they are where the product fits the mantissa. The
one fact about induction these need, that a set of numbers has a least member, comes from
the library's well-foundedness of `<`.

### The pool

`PoolProofs` proves the safety properties of the pool's books. The
inductive invariant is

    IInv == TypeOK /\ Config!RatesBounded /\ Uncreated /\ Solvent /\ SharesInv

with `SharesInv == NeverDrained /\ LpBacked /\ LockedLiquidity`. None of its parts is
inductive without the others. `Solvent` needs `RatesBounded`: if protocol and fund could take more than
the trade fee, a swap would book more than arrived. `SharesInv` needs `Solvent`,
since totals are vaults less fees. A withdrawal leaves both sides non-empty
because `LockedLiquidity` keeps the LP withdrawn below the supply, and rounding down
then leaves at least one unit. `Uncreated` says that an account that does not exist
yet is zeroed. Each action has a lemma `...Safe` that takes it from `IInv` to the
parts of `IInv'` and shows it to be a step of `SharePool` (`Open`, `Exchange`, `Trade`,
`Forfeit`) or a stutter. The arithmetic of shares is then done once, for the abstract
steps (`SharesPreserved`, `ExchangeArithmetic`), and gives `NeverDrained`, `LpBacked`,
`LockedLiquidity`, `ShareValueNeverFalls`, `LiquidityStepsDiluteNobody` and the
refinement `ImplementsSharePool` together. `HoldersCanExit` follows from `IInv` and
`CollectingLeavesTheCurve` from the same lemmas. `NeverDrained` follows
from `LpBacked` and `LockedLiquidity` wherever these hold, so no run checks it by itself. `OracleImplementsPriceIntegral` maps
the abstract price to the pool's own (`MarketPrice`), so it says which price each
interval is charged at: the one before the swap. It uses that prices are defined in an
open pool and that nothing but a swap writes the oracle.

What a caller gets for a swap is proved of every reachable pool, not only of `QuoteCheck`'s
markets. `MarketTradable` (whose parts `PoolMarketsAdmitted` states) hands each open
pool to the lemmas on quotes, and `EveryPoolQuotesFairly` collects what follows: the two
handlers agree to the unit, splitting brings no more, paying more brings no less, swapping
back brings no more than was sent. That this is about swaps and not only about quotes is
`SwapsAlwaysFollowTheQuotes`: whenever tokens come in on one side and go out on the other,
the pool is then at `MarketAfter` of the quote, seen from either side. `SwapLeavesMarket` is the
bookkeeping (`SwapApplied` gives the totals to the unit, not just their product), and
`OnlySwapsOppose` that no other instruction moves the sides apart; for a creation this needs
that the vaults hold nothing before it (`VaultsStartEmpty`, inductive beside `IInv`).

`CurveAlwaysDecides` gives `CurveDecides`: after the curve only the bookkeeping, the sender's
balance and the oracle can refuse. The counters cannot overflow because they are part of a
vault that the new fee has just entered (`Solvent`, and `Accounted` of the quote), the
vault has the output because the curve's side of it is not empty, no creator fee is computed
when none is charged (`NoCreatorFee`, `UnchargedRate`), and a price is at most a whole vault
against one unit (`OracleAccepts`; here `NeverDrained` is needed, and `PricesFit`).
`NormalPoolAlwaysSwaps` is the other half: the curve does accept, for whoever brings enough.

The two modes of a pool come last. `StatusAlwaysObeyed` gives
`StatusObeyed`: `LpSupplyStep` and `FeesOwedStep` say which instructions move the LP
supply or raise the fees owed, each asks for its bit, and `StatusBits` works out the
bits of every status. `CreatorFeesWherePromised` gives `CreatorFeesInChosenToken`, an
invariant that is inductive beside `TypeOK`: `BookingRespectsMode` is its one hard step.

`EventsProofs`: the pool with its events implements the pool (`EventsObserveThePool`), so
`IInv` holds there. `EventsTellTotals` is inductive beside it, together with `Told` (no event
precedes the pool): an emitting step sets the totals an observer computes, and every silent
step leaves them (`SilentTotals`). `EventsTellTransfers` compares, for each handler, the
fields of the event with what moves: the fee on top of an amount is what the mint withholds
of the transfer because the gross-up is exact. That a silent step looks like no transfer
needs `Empty`: the vaults hold nothing before the creation that fills them.

### The client

`ClientProofs` adds to the pool's invariant:

    ClientInv == IInv /\ VaultsStartEmpty /\ ClientTypeOK /\ ReportsAreTrue /\ MintsOnSchedule
                   /\ PhaseOfTransaction /\ Readable
                   /\ (Live => LimitsFromQuote(quoted, limits))

The pool keeps `IInv` because the client's transaction is one of its actions, with any
amounts a command line can name (`ExecuteSafe`). `ReportsAreTrue` is inductive only beside
`PhaseOfTransaction`, which says that no transaction exists before it is signed:
otherwise an old status could be undone by a new signature. `Readable` is what the quotes need to be
defined: the accounts that were read belong to an open pool with bounded rates, and its
totals are not 0. `Live` says when limits can still meet the chain, and the last part that
they then are the quote with the slippage, for a deposit and a withdrawal of tokens that
charge nothing. `VaultsStartEmpty` is there for the creation of a pool, whose transfers are all
its vaults hold. `SlippageAlwaysBoundsLoss` follows: a transaction succeeds only by the
action of its command with these limits (`LossStep`), and for each command what the
action moves is within them (`DepositLoses`, `WithdrawLoses`, `SwapInLoses`,
`SwapOutLoses`, `CreationLoses`). What leaves the user is `Sent`, the transfer of the handler
with the mint's fee in it, and what the vault gains is less where the mint keeps a part;
`Arrives`, proved beside the bound, ties the two: the amount named is the one that, after
the fee of the epoch it executes in, makes the vault what it becomes. For a deposit into a
mint that charges, `Arrives` is all that is claimed: the client adds the wrong fee to its
maximum (finding 4), which is then no function of the quote. No part of it says when the transaction executes or what
happened before, so it holds for any delay and any steps of others. A withdrawal's limit
has the fee of the client's own schedule taken off, but a withdrawal goes through only for
SPL mints, whose account the client can create, and these charge nothing.

The pool's own promises are proved a second time, under the client: `ClientSpec`'s command
may name amounts and limits that are not among those of `Pool`'s sets, so its behaviours
are not all behaviours of `Pool`'s specification. `ClientImplementsSharePool` and
`PoolSafeUnderClient` say that they keep everything the liquidity providers rely on.

`RunMovesOn` is the safety half of `RunsEnd`, and what makes its fairness mean what it
should. `Proceeds` is a change of `phase`, which is easily seen to be possible; the theorem
says that a step is such a change exactly if it is one of the run's own. Each takes the
run to a later phase, except for the next round of polling, which it starts only with a valid
blockhash; and a blockhash that expired stays so. A run therefore ends within three of its own
steps after the expiry. What is left to TLC is that the fair steps are taken.

`FreshCommandAccepted` is about runs that nothing interfered with. `FreshInv` is what the
history variable `fresh` is for: while it is set the pool is open, a snapshot still held is the present one, and
a live quote is what the program itself would compute now for the command
(`QuotesProgram`). The client's curve is the program's by construction, its fees are not:
`ClientFeesAgree` needs mints on schedule, and `SwapInQuoteAgrees` and `SwapOutQuoteAgrees`
put the quote together from there. A step that leaves `fresh` set has moved nothing
a quote depends on (`FreshKept`, `QuotesKept`), and the limits, by `LimitsRoom`, are then on
the quote's lenient side. `LimitsDecide` says what that is worth: a command that the
program would carry out without limits, it carries out with these. A withdrawal needs more than
that. The client rounds its amounts up (`main.rs:354`) and the program rounds them down, so
without slippage the client asks for a unit too much of each token that does not come out even
(`ComesOutEven`), and is refused. `SlippageTakesUnit` is why any slippage is enough: it lowers
the exact product by at least the amount itself, half a unit in the last place of the product is
less than that, and what is below the quote is rounded down to the unit below. Each condition of the property is needed. A quote beyond an f64's mantissa can be rounded to the
other side of the amount. The client cuts a liquidity quote to u64 where the program fails, so
a deposit's amount has to fit. It also quotes for LP that nobody holds, up to
the supply and beyond, where the program's cap on a withdrawal sets in. And a fee on a deposit is
added by the wrong epoch (finding 4).

The proof shows where `SlippageBoundsLoss` has to be weaker than exact arithmetic: beyond
the mantissa of an f64 a limit can be off by the rounding, so `AtMostQuoted` and
`AtLeastQuoted` are exact up to there and allow three parts in the mantissa beyond. The
instances of TLC are within the exact part, `quotes` is not.

### Oracle, config, accounts, log parser

`OracleProofs`, for every ring size, duration and width: types, the refinement of
`PriceIntegral`, and what a reader of the ring relies on. `RingInv` says that an
initialized ring ages from the newest slot backwards, up to the first slot opened or the
newest again, and gives `RingAges`. `SlotDatedWithinDuration` is not inductive: about the
newest slot it says only that some instant fits, and the next update adds to the sum at
the instant of the last update. `DatedInv` adds that instant for the newest slot
(`NewestDated`: the sum there is the integral at the last update, which is less than the
duration after the slot was opened) and that no price has been integrated before the
account is initialized. `WrapOnce` is the arithmetic: wrapping a sum of a wrapped
number is wrapping the sum.

`ComponentProofs` has the three components that share nothing. The config:
`RatesStayBounded`, whatever the order of updates.

The accounts, for any addresses, sizes, rents, mints and gifts: nobody can block a
pool's creation (`CreationNeverBlocked`), what loads as a pool is one and stays one
(`NoPoolForged`), and its accounts stay rent exempt (`CreatedStay`). The invariant says that
until creation nobody has touched an address that no key signs for (`DerivedUntouched`),
that an account that belongs to the system program or to this one before its pool is
created is zeroed (`ArriveZeroed`: no one else can write there, and the runtime assigns
zeroed accounts only), and that a created account belongs to the program it should
(`CreatedBelong`), so nobody else can write to it.

The log parser, for any programs, nesting and length of the log: `ContextAlwaysReal`
and `DecodedAlwaysEmitted`. The invariant joins the two properties to the types of the
stacks and to what holds before the first line; each kind of line has a lemma, and
`ContextOf` says what the parser pushes for a call. The theorems assume
`QuietForeigners`: messages of other programs do not read like lines of the runtime. The assumption is
needed. The parser recognises its own program's messages by their prefix, but passes
every line of another program to `handle_system_log`, where a message that contains
"invoke" pushes and one that ends in "success" pops (`events_instructions_parse.rs:162`);
with `ForeignTexts = Texts` TLC finds `ContextIsReal` violated.

### Only model-checked

- `RunsEnd`: liveness under fairness. Its safety half is `RunMovesOn`.
- ENABLED, which the provers cannot expand. The step of `Client` by which a transaction
  fails uses it; the proofs need of that step only that it changes nothing of the pool, and
  `Refused` stays closed. That a command passes its limits is therefore stated without
  it: `PassesLimits` names the check, and `LimitsDecide` proves that it is what the
  limits decide.
- The four properties that the code violates (see Findings).

## Findings

1. `pool_zero_fee`: a config with trade and creator rates 0 is accepted
   (`lib.rs:67`), and `split_creator_fee` (`curve/fees.rs:65`) then divides by their
   sum. `floor_div` answers `None` for a zero denominator and the swap fails with
   `ZeroTradingTokens`. Every pool made by `initialize` takes its creator fee on the
   input, so it cannot be swapped at all although its status says `normal`.
2. `oracle_timestamp`: a slot's `block_timestamp` (`states/oracle.rs:18`) is when the
   slot was opened, while later updates in place advance its cumulative prices. The
   error is less than 15 seconds, which `SlotDatedWithinDuration` states.
3. `amm_config_params`: `lib.rs:93` documents parameters 0 to 4; the code has 0 to 7.
4. `client_deposit_fee`: `get_pool_mints_inverse_fee` (`src/client/src/instructions/utils.rs:63`) passes the
   amount and then the epoch to a function that takes the epoch and then the amount. A
   deposit's maximum gets the fee of the epoch number on top instead of the fee of the
   amount, and the program refuses the deposit though nothing moved. A mint without a
   fee is not affected.

## Not modelled

- Forks: a transaction that executed stays executed. The client confirms at its own
  commitment and the code has nothing to say about a rollback.
- A second run by the same user: it is another signer's, one of `Pool`'s actions.
- The client's read-only commands (printing of accounts, decoding of instructions) and
  the reading of its config file: tables of formats without state. Its functions that
  no command calls.
- The printing of events, and base64 data that spells "invoke" by chance.
- Errors: a guard that fails is a transaction that did not happen, whichever code it has.
- The accounts that Anchor's `init` makes (the LP mint, the observation account): the
  framework's code, not this repository's. Whether an account was passed as writable.
- Gifts to a vault in `Events`: no event tells of them, so `EventsTellTotals` is about
  pools that get none.
- A vault that loses tokens outside the program (a whitelisted or registered mint may
  carry any extension): no property of a pool survives it.
- Two pools of one config: they share nothing but the config and the registry, both of
  which change freely beside one pool.
- `set_status_by_bit` and `update_lp_supply`: no handler calls them.
- The TypeScript tests were read for what they expect of the handlers.

## Running

    tlc -workers 2 -config MCPool_fees.cfg MCPool.tla
    tlapm PoolProofs.tla
