------------------------------- MODULE SharePool -------------------------------
(***************************************************************************)
(* What a pool promises its liquidity providers, without fees, vaults,     *)
(* rates or slippage: two totals and the shares in them.  A trade may move *)
(* the totals in any way that keeps their product, shares enter and leave  *)
(* for at least, or at most, their part of either total, and the shares    *)
(* locked at the beginning are nobody's.                                   *)
(***************************************************************************)
EXTENDS Integers

CONSTANTS Tokens, LOCK_LP_AMOUNT

VARIABLES
  open,     \* the pool was created
  total,    \* of either token, what belongs to the shares
  supply,   \* shares, the locked ones among them
  held      \* shares in somebody's hands

vars == <<open, total, supply, held>>

Reserves == [Tokens -> Nat \ {0}]

Init ==
  /\ open = FALSE
  /\ total = [t \in Tokens |-> 0]
  /\ supply = 0
  /\ held = 0

Open ==
  /\ ~open
  /\ open' = TRUE
  /\ total' \in Reserves
  /\ supply' \in Nat
  /\ supply' * supply' <= total'[0] * total'[1]
  /\ supply' >= LOCK_LP_AMOUNT
  /\ held' = supply' - LOCK_LP_AMOUNT

\* Shares enter (supply' > supply) or leave.
Exchange ==
  /\ open
  /\ supply' \in Nat \ {0}
  /\ held' \in Nat
  /\ held' - held = supply' - supply
  /\ total' \in Reserves
  /\ \A t \in Tokens : total'[t] * supply >= total[t] * supply'
  /\ UNCHANGED open

Trade ==
  /\ open
  /\ total' \in Reserves
  /\ total'[0] * total'[1] >= total[0] * total[1]
  /\ UNCHANGED <<open, supply, held>>

\* A holder gives up shares for nothing.
Forfeit ==
  /\ held' \in 0..held
  /\ UNCHANGED <<open, total, supply>>

Next == Open \/ Exchange \/ Trade \/ Forfeit

Spec == Init /\ [][Next]_vars

=============================================================================
