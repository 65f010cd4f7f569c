------------------------------ MODULE OracleFeed ------------------------------
(***************************************************************************)
(* The oracle account driven by swaps at any time and at any price: a swap *)
(* reports the price it finds and leaves another.  The clock may stand     *)
(* still (several swaps in a second), skip seconds, and go back (the       *)
(* cluster's clock is an estimate, and the code subtracts with saturation).*)
(***************************************************************************)
EXTENDS Observation

CONSTANTS
  MAX_TIME,  \* bounds the clock
  Prices     \* the price pairs the pool may come to

ASSUME OracleFeedAssumption ==
  /\ MAX_TIME \in Nat \ {0}
  /\ Prices \subseteq [Tokens -> 0..U128_MAX]

Times == 1..MAX_TIME

VARIABLES
  observation_state,
  now,
  price,     \* what the vaults' amounts make the price of either token
  integral   \* history: the exact integral of either price up to each second

feedVars == <<observation_state, now, price, integral>>

\* An account of a version without last_update_timestamp, last written at `time`.
LegacyObservation(time) ==
  [ZeroedObservation EXCEPT !.initialized = TRUE, !.observations[0].block_timestamp = time]

FeedInit ==
  /\ now \in Times
  /\ price \in Prices
  /\ \/ observation_state = ZeroedObservation
     \/ \E time \in 1..now : observation_state = LegacyObservation(time)
  /\ integral = [time \in 0..MAX_TIME |-> [t \in Tokens |-> 0]]

ClockMoves ==
  /\ now' \in Times \ {now}
  /\ UNCHANGED <<observation_state, price, integral>>

\* A deposit, withdrawal or gift between two swaps.
PriceMoves ==
  /\ price' \in Prices
  /\ UNCHANGED <<observation_state, now, integral>>

\* The history an update adds: from the last update on, the price it finds.
ExtendedIntegral ==
  LET last == LastUpdate(observation_state)
  IN  [time \in 0..MAX_TIME |->
         IF observation_state.initialized /\ time > last /\ time <= now
         THEN [t \in Tokens |-> integral[last][t] + price[t] * (time - last)]
         ELSE integral[time]]

Swap ==
  /\ UpdateOk(observation_state, now, price)
  /\ observation_state' = update(observation_state, now, price)
  /\ integral' = ExtendedIntegral
  /\ price' \in Prices
  /\ UNCHANGED now

FeedNext == ClockMoves \/ PriceMoves \/ Swap

FeedSpec == FeedInit /\ [][FeedNext]_feedVars

(* ------------------------------ properties ----------------------------- *)

\* The account has the shape the code declares.
FeedTypeOK ==
  /\ observation_state \in ObservationStates(0..MAX_TIME)
  /\ now \in Times
  /\ price \in Prices
  /\ integral \in [0..MAX_TIME -> [Tokens -> Nat]]

\* Through ring wraps, skipped seconds, repeated swaps in a second and legacy
\* accounts, the newest slot holds the integral of the price that each swap found.
Integral == INSTANCE PriceIntegral WITH
  started <- observation_state.initialized,
  until   <- LastUpdate(observation_state),
  total   <- LastObservation(observation_state).cumulative_token_price_x32,
  price   <- price

ImplementsPriceIntegral == Integral!Spec

Written(s) == observation_state.initialized /\ observation_state.observations[s].block_timestamp > 0

HoldsIntegralAt(s, time) ==
  \A t \in Tokens :
    observation_state.observations[s].cumulative_token_price_x32[t]
      = integral[time][t] % (U128_MAX + 1)

\* A reader of any slot, old or open, is off by less than the time a slot is
\* kept open: its cumulative price is the integral at some instant within
\* OBSERVATION_UPDATE_DURATION_DEFAULT seconds of its timestamp.
SlotDatedWithinDuration ==
  \A s \in Slots : Written(s) =>
    LET opened == observation_state.observations[s].block_timestamp
    IN  \E time \in opened..(opened + OBSERVATION_UPDATE_DURATION_DEFAULT - 1) :
          time <= LastUpdate(observation_state) /\ HoldsIntegralAt(s, time)

\* Walking the ring back from the newest slot, timestamps fall by at least the
\* duration from slot to slot until the first slot ever written or the newest
\* again: an overwritten slot never reappears as a newer one.
RingAges ==
  observation_state.initialized =>
    \A s \in Slots \ {observation_state.observation_index} :
      LET following == (s + 1) % OBSERVATION_NUM
      IN  Written(s) =>
            /\ Written(following)
            /\ observation_state.observations[following].block_timestamp
                 >= observation_state.observations[s].block_timestamp
                      + OBSERVATION_UPDATE_DURATION_DEFAULT

\* "The block timestamp of the observation": a slot's cumulative price is the
\* integral at the slot's timestamp.  The code does not keep this: an update
\* in place moves the price and not the timestamp.
SlotDatedByItsTimestamp ==
  \A s \in Slots : Written(s) =>
    HoldsIntegralAt(s, observation_state.observations[s].block_timestamp)

=============================================================================
