------------------------------ MODULE Observation ------------------------------
(***************************************************************************)
(* ObservationState of states/oracle.rs: a ring of cumulative prices, and  *)
(* the update that every swap makes with the prices before it.  Pure: the  *)
(* Pool module applies it to the pool's observation account, OracleFeed    *)
(* drives it on its own.  Definitions named Bug... are plausible mistakes  *)
(* in the definition after them; nothing uses them.                        *)
(***************************************************************************)
EXTENDS Integers

CONSTANTS
  OBSERVATION_NUM,                      \* slots of the ring, 100 in the code
  OBSERVATION_UPDATE_DURATION_DEFAULT,  \* seconds a slot is kept open, 15 in the code
  U128_MAX                              \* largest cumulative price, 2^128 - 1 in the code

ASSUME ObservationAssumption ==
  /\ OBSERVATION_NUM \in Nat \ {0}
  /\ OBSERVATION_UPDATE_DURATION_DEFAULT \in Nat \ {0}
  /\ U128_MAX \in Nat

Slots == 0..(OBSERVATION_NUM - 1)

Tokens == {0, 1}

\* block_timestamp is u64 in the code; the wall clock bounds it here.
ObservationStates(timestamps) ==
  [initialized: BOOLEAN,
   observation_index: Slots,
   observations: [Slots -> [block_timestamp: timestamps,
                            cumulative_token_price_x32: [Tokens -> 0..U128_MAX]]],
   last_update_timestamp: timestamps]

\* The account as load_init finds it: all zeroes.
ZeroedObservation ==
  [initialized |-> FALSE,
   observation_index |-> 0,
   observations |-> [s \in Slots |-> [block_timestamp |-> 0,
                                      cumulative_token_price_x32 |-> [t \in Tokens |-> 0]]],
   last_update_timestamp |-> 0]

\* does not wrap
BugNoWrap(a, b) == a + b

wrapping_add(a, b) == (a + b) % (U128_MAX + 1)

SaturatingSub(a, b) == IF a > b THEN a - b ELSE 0

\* wraps one slot early
BugWrapEarly(state) ==
  IF state.observation_index = OBSERVATION_NUM - 2 THEN 0 ELSE state.observation_index + 1

NextIndex(state) ==
  IF state.observation_index = OBSERVATION_NUM - 1 THEN 0 ELSE state.observation_index + 1

LastObservation(state) == state.observations[state.observation_index]

\* The start of the interval an update accounts for.  Accounts written before
\* the field existed hold 0 in last_update_timestamp.
LastUpdate(state) ==
  IF state.last_update_timestamp = 0
  THEN LastObservation(state).block_timestamp
  ELSE state.last_update_timestamp

SinceLastUpdate(state, block_timestamp) == SaturatingSub(block_timestamp, LastUpdate(state))

\* measures a slot's age from its last update, so that busy slots never close
BugAgeSinceUpdate(state, block_timestamp) == SinceLastUpdate(state, block_timestamp)

SinceLastObservation(state, block_timestamp) ==
  SaturatingSub(block_timestamp, LastObservation(state).block_timestamp)

\* Nothing to account for: the first update of the account apart, an update in
\* the same second as the one before it.
SameSecond(state, block_timestamp) ==
  \/ SinceLastUpdate(state, block_timestamp) = 0
  \/ SinceLastObservation(state, block_timestamp) = 0

\* MathOverflow aborts the swap if a price times the interval exceeds u128.
UpdateOk(state, block_timestamp, token_price_x32) ==
  \/ ~state.initialized
  \/ SameSecond(state, block_timestamp)
  \/ \A t \in Tokens :
       token_price_x32[t] * SinceLastUpdate(state, block_timestamp) <= U128_MAX

FirstUpdate(state, block_timestamp) ==
  [state EXCEPT
     !.initialized = TRUE,
     !.observations[state.observation_index] =
       [block_timestamp |-> block_timestamp,
        cumulative_token_price_x32 |-> [t \in Tokens |-> 0]],
     !.last_update_timestamp = block_timestamp]

\* charges the time since the slot was opened, again at every update
BugSinceObservation(state, block_timestamp, token_price_x32) ==
  [t \in Tokens |->
     wrapping_add(LastObservation(state).cumulative_token_price_x32[t],
                  token_price_x32[t] * SinceLastObservation(state, block_timestamp))]

Accumulated(state, block_timestamp, token_price_x32) ==
  [t \in Tokens |->
     wrapping_add(LastObservation(state).cumulative_token_price_x32[t],
                  token_price_x32[t] * SinceLastUpdate(state, block_timestamp))]

\* The open slot takes the interval, and keeps the timestamp it was opened with.
UpdateInPlace(state, block_timestamp, token_price_x32) ==
  [state EXCEPT
     !.observations[state.observation_index].cumulative_token_price_x32 =
       Accumulated(state, block_timestamp, token_price_x32),
     !.last_update_timestamp = block_timestamp]

OpenNextSlot(state, block_timestamp, token_price_x32) ==
  [state EXCEPT
     !.observations[NextIndex(state)] =
       [block_timestamp |-> block_timestamp,
        cumulative_token_price_x32 |-> Accumulated(state, block_timestamp, token_price_x32)],
     !.observation_index = NextIndex(state),
     !.last_update_timestamp = block_timestamp]

update(state, block_timestamp, token_price_x32) ==
  IF ~state.initialized
  THEN FirstUpdate(state, block_timestamp)
  ELSE IF SameSecond(state, block_timestamp)
       THEN [state EXCEPT !.last_update_timestamp = LastUpdate(state)]
       ELSE IF SinceLastObservation(state, block_timestamp)
                 < OBSERVATION_UPDATE_DURATION_DEFAULT
            THEN UpdateInPlace(state, block_timestamp, token_price_x32)
            ELSE OpenNextSlot(state, block_timestamp, token_price_x32)

=============================================================================
