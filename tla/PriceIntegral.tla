----------------------------- MODULE PriceIntegral -----------------------------
(***************************************************************************)
(* What the price oracle promises, without its ring: the integral of the   *)
(* price over time, modulo the width of the field, known up to an instant. *)
(* The market moves the price as it likes.  A sample is taken before the   *)
(* price moves with the trade that takes it, and charges the whole interval*)
(* since the sample before it at that price.                               *)
(***************************************************************************)
EXTENDS Integers

CONSTANTS U128_MAX, MAX_TIME

VARIABLES
  started,   \* a first sample was taken
  until,     \* the instant the integral is known up to
  total,     \* the integral of either token's price
  price      \* the market's price of either token

vars == <<started, until, total, price>>

Tokens == {0, 1}

PricePairs == [Tokens -> Nat]

Init ==
  /\ started \in BOOLEAN
  /\ until \in 0..MAX_TIME
  /\ total = [t \in Tokens |-> 0]
  /\ price \in PricePairs

\* The first sample only starts the clock: the pool's initial price is skipped.
Start ==
  /\ ~started
  /\ started' = TRUE
  /\ until' \in 1..MAX_TIME
  /\ total' = [t \in Tokens |-> 0]
  /\ price' \in PricePairs

Advance ==
  /\ started
  /\ until' \in (until + 1)..MAX_TIME
  /\ total' = [t \in Tokens |-> (total[t] + price[t] * (until' - until)) % (U128_MAX + 1)]
  /\ price' \in PricePairs
  /\ UNCHANGED started

PriceMoves ==
  /\ price' \in PricePairs
  /\ UNCHANGED <<started, until, total>>

Next == Start \/ Advance \/ PriceMoves

Spec == Init /\ [][Next]_vars

=============================================================================
