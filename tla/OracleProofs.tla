------------------------------ MODULE OracleProofs ------------------------------
(***************************************************************************)
(* The oracle account on its own, for every ring size, duration, width and *)
(* price: it keeps its shape, its newest slot is the price integral, its   *)
(* ring ages slot by slot, and every slot is dated within the duration.    *)
(***************************************************************************)
EXTENDS OracleFeed, OperatorTheorems

\* An update by a swap (oracle.rs:78-148) keeps the types of the feed.
LEMMA SwapType ==
  ASSUME FeedTypeOK, Swap
  PROVE  FeedTypeOK'
<1>1. price \in [Tokens -> Nat] /\ MAX_TIME \in Nat
  BY OracleFeedAssumption, ObservationAssumption DEF FeedTypeOK
<1>2. observation_state \in ObservationStates(0..MAX_TIME) /\ now \in 0..MAX_TIME
  BY OracleFeedAssumption DEF FeedTypeOK, Times
<1>3. observation_state' \in ObservationStates(0..MAX_TIME)
  BY <1>1, <1>2, UpdateType DEF Swap
<1>4. integral' \in [0..MAX_TIME -> [Tokens -> Nat]]
  <2> DEFINE last == LastUpdate(observation_state)
  <2>1. last \in 0..MAX_TIME
    BY <1>1, <1>2, SincesType
  <2>2. integral \in [0..MAX_TIME -> [Tokens -> Nat]]
    BY DEF FeedTypeOK
  <2> HIDE DEF last
  <2>3. ASSUME NEW time \in 0..MAX_TIME, time > last
        PROVE  [t \in Tokens |-> integral[last][t] + price[t] * (time - last)]
                 \in [Tokens -> Nat]
    <3>1. time - last \in Nat
      BY <1>1, <2>1, <2>3
    <3>2. \A t \in Tokens : integral[last][t] \in Nat /\ price[t] \in Nat
      BY <1>1, <2>1, <2>2
    <3>3. \A t \in Tokens : price[t] * (time - last) \in Nat
      BY <3>1, <3>2
    <3> QED
      BY <3>2, <3>3
  <2>4. \A time \in 0..MAX_TIME : ExtendedIntegral[time] \in [Tokens -> Nat]
    BY <2>2, <2>3 DEF ExtendedIntegral, last
  <2>5. DOMAIN ExtendedIntegral = 0..MAX_TIME
        /\ ExtendedIntegral = [time \in 0..MAX_TIME |-> ExtendedIntegral[time]]
    BY DEF ExtendedIntegral
  <2> QED
    BY <2>4, <2>5 DEF Swap
<1> QED
  BY <1>3, <1>4 DEF FeedTypeOK, Swap

\* The feed starts with a zeroed account or one of an older version.
LEMMA InitTyped == FeedInit => FeedTypeOK
<1> SUFFICES ASSUME FeedInit PROVE FeedTypeOK
  OBVIOUS
<1>1. /\ 0 \in Slots /\ 0 \in 0..MAX_TIME /\ 0 \in 0..U128_MAX
      /\ \A time \in 1..now : time \in 0..MAX_TIME
  BY ObservationAssumption, OracleFeedAssumption DEF Slots, FeedInit, Times
<1>2. ZeroedObservation \in ObservationStates(0..MAX_TIME)
  BY <1>1 DEF ZeroedObservation, ObservationStates
<1>3. \A time \in 1..now : LegacyObservation(time) \in ObservationStates(0..MAX_TIME)
  BY <1>1 DEF LegacyObservation, ZeroedObservation, ObservationStates
<1> QED
  BY <1>2, <1>3 DEF FeedInit, FeedTypeOK

\* For every value of the constants: the account keeps its shape, the index
\* stays in the ring and the cumulative prices in their width.
THEOREM TypeCorrect == FeedSpec => []FeedTypeOK
<1>1. FeedInit => FeedTypeOK
  BY InitTyped
<1>2. FeedTypeOK /\ [FeedNext]_feedVars => FeedTypeOK'
  <2> SUFFICES ASSUME FeedTypeOK, [FeedNext]_feedVars PROVE FeedTypeOK'
    OBVIOUS
  <2>1. CASE ClockMoves \/ PriceMoves \/ UNCHANGED feedVars
    BY <2>1 DEF FeedTypeOK, ClockMoves, PriceMoves, feedVars, Times
  <2>2. CASE Swap
    BY <2>2, SwapType
  <2> QED
    BY <2>1, <2>2 DEF FeedNext
<1> QED
  BY <1>1, <1>2, PTL DEF FeedSpec

\* An update by a swap (oracle.rs:78-148) adds price times elapsed time to the integral.
LEMMA SwapImplements ==
  ASSUME FeedTypeOK, Swap
  PROVE  [Integral!Next]_Integral!vars
<1> DEFINE state == observation_state
<1>1. price \in [Tokens -> 0..U128_MAX] /\ MAX_TIME \in Nat /\ U128_MAX \in Nat
      /\ price' \in Integral!PricePairs
  <2>1. Prices \subseteq [Tokens -> 0..U128_MAX] /\ price \in Prices /\ price' \in Prices
    BY OracleFeedAssumption DEF FeedTypeOK, Swap
  <2>2. [Tokens -> 0..U128_MAX] \subseteq Integral!PricePairs
    BY ObservationAssumption DEF Integral!PricePairs, Integral!Tokens, Tokens
  <2> QED
    BY <2>1, <2>2, OracleFeedAssumption, ObservationAssumption
<1>2. state \in ObservationStates(0..MAX_TIME) /\ now \in 1..MAX_TIME /\ now \in 0..MAX_TIME
      /\ state.initialized \in BOOLEAN
  BY OracleFeedAssumption DEF FeedTypeOK, Times, ObservationStates
<1>3. observation_state' = update(state, now, price)
  BY DEF Swap
<1>4. CASE ~state.initialized
  <2>1. /\ observation_state'.initialized = TRUE
        /\ LastUpdate(observation_state') = now
        /\ LastObservation(observation_state').cumulative_token_price_x32
             = NothingAccumulated
    BY <1>1, <1>2, <1>3, <1>4, FirstUpdateStarts
  <2>2. Integral!Start
    BY <1>1, <1>2, <1>4, <2>1 DEF Integral!Start, Integral!Tokens, Tokens, NothingAccumulated
  <2> QED
    BY <2>2 DEF Integral!Next
<1>5. CASE state.initialized /\ SameSecond(state, now)
  BY <1>1, <1>2, <1>3, <1>5, SameSecondStutters DEF Integral!Next, Integral!PriceMoves
<1>6. CASE state.initialized /\ ~SameSecond(state, now)
  <2>1. /\ observation_state'.initialized = state.initialized
        /\ LastUpdate(observation_state') = now
        /\ LastObservation(observation_state').cumulative_token_price_x32
             = Accumulated(state, now, price)
    BY <1>1, <1>2, <1>3, <1>6, UpdateAdvances
  <2>2. LastUpdate(state) \in 0..MAX_TIME /\ LastUpdate(state) < now
        /\ SinceLastUpdate(state, now) = now - LastUpdate(state)
    BY <1>1, <1>2, <1>6, SincesType DEF SameSecond, SinceLastUpdate, SaturatingSub
  <2>3. Integral!Advance
    BY <1>1, <1>2, <1>6, <2>1, <2>2
       DEF Integral!Advance, Integral!Tokens, Tokens, Accumulated, wrapping_add
  <2> QED
    BY <2>3 DEF Integral!Next
<1> QED
  BY <1>2, <1>4, <1>5, <1>6

\* The ring, its open slot, the repeated updates and the legacy accounts are
\* invisible from outside: the account is the integral of the prices.
THEOREM FeedImplementsPriceIntegral == FeedSpec => ImplementsPriceIntegral
<1>1. FeedInit => Integral!Init
  <2> SUFFICES ASSUME FeedInit PROVE Integral!Init
    OBVIOUS
  <2>1. 0 \in Slots /\ 0 \in 0..MAX_TIME /\ \A time \in 1..now : time \in 0..MAX_TIME
    BY ObservationAssumption, OracleFeedAssumption DEF Slots, FeedInit, Times
  <2>0. price \in Integral!PricePairs
    BY OracleFeedAssumption, ObservationAssumption
       DEF FeedInit, Integral!PricePairs, Integral!Tokens, Tokens
  <2>2. CASE observation_state = ZeroedObservation
    BY <2>0, <2>1, <2>2 DEF Integral!Init, Integral!Tokens, Tokens, ZeroedObservation, LastUpdate,
                      LastObservation
  <2>3. CASE \E time \in 1..now : observation_state = LegacyObservation(time)
    BY <2>0, <2>1, <2>3 DEF Integral!Init, Integral!Tokens, Tokens, LegacyObservation,
                      ZeroedObservation, LastUpdate, LastObservation
  <2> QED
    BY <2>2, <2>3 DEF FeedInit
<1>2. FeedTypeOK /\ [FeedNext]_feedVars => [Integral!Next]_Integral!vars
  <2> SUFFICES ASSUME FeedTypeOK, [FeedNext]_feedVars PROVE [Integral!Next]_Integral!vars
    OBVIOUS
  <2>1. CASE ClockMoves \/ UNCHANGED feedVars
    BY <2>1 DEF ClockMoves, feedVars, Integral!vars, LastUpdate, LastObservation
  <2>2. CASE Swap
    BY <2>2, SwapImplements
  <2>3. CASE PriceMoves
    <3>1. price' \in Integral!PricePairs
      BY <2>3, OracleFeedAssumption, ObservationAssumption
         DEF PriceMoves, Integral!PricePairs, Integral!Tokens, Tokens
    <3> QED
      BY <2>3, <3>1 DEF PriceMoves, Integral!Next, Integral!PriceMoves, LastUpdate,
                        LastObservation
  <2> QED
    BY <2>1, <2>2, <2>3 DEF FeedNext
<1> QED
  BY <1>1, <1>2, TypeCorrect, PTL DEF FeedSpec, ImplementsPriceIntegral, Integral!Spec

(* ------------------------------ the ring ------------------------------- *)

Opened(s) == observation_state.observations[s].block_timestamp

\* Before its first update the account is as load_init found it; afterwards the
\* newest slot is written.
RingInv ==
  /\ FeedTypeOK
  /\ RingAges
  /\ observation_state.initialized => Written(observation_state.observation_index)
  /\ ~observation_state.initialized => observation_state = ZeroedObservation

\* The slot after a slot is the one NextIndex moves to.
LEMMA Following ==
  ASSUME NEW s \in Slots
  PROVE  (s + 1) % OBSERVATION_NUM = IF s = OBSERVATION_NUM - 1 THEN 0 ELSE s + 1
<1>1. CASE s = OBSERVATION_NUM - 1
  <2>1. s + 1 = OBSERVATION_NUM /\ OBSERVATION_NUM \in Nat \ {0}
    BY <1>1, ObservationAssumption
  <2>2. OBSERVATION_NUM % OBSERVATION_NUM = 0
    BY <2>1
  <2> QED
    BY <1>1, <2>1, <2>2
<1>2. CASE s # OBSERVATION_NUM - 1
  <2>1. s + 1 \in Nat /\ s + 1 < OBSERVATION_NUM /\ OBSERVATION_NUM \in Nat \ {0}
    BY <1>2, ObservationAssumption DEF Slots
  <2>2. (s + 1) % OBSERVATION_NUM = s + 1
    BY <2>1
  <2> QED
    BY <1>2, <2>2
<1> QED
  BY <1>1, <1>2

\* The update that moves on (oracle.rs:137-146) writes the next slot and no other.
LEMMA NextSlotOpens ==
  ASSUME NEW M \in Nat, NEW state \in ObservationStates(0..M), NEW time, NEW prices
  PROVE  /\ OpenNextSlot(state, time, prices).initialized = state.initialized
         /\ OpenNextSlot(state, time, prices).observation_index = NextIndex(state)
         /\ OpenNextSlot(state, time, prices).observations[NextIndex(state)].block_timestamp
              = time
         /\ \A s \in Slots \ {NextIndex(state)} :
              OpenNextSlot(state, time, prices).observations[s] = state.observations[s]
<1> DEFINE new  == OpenNextSlot(state, time, prices)
           next == NextIndex(state)
           slot == [block_timestamp |-> time,
                    cumulative_token_price_x32 |-> Accumulated(state, time, prices)]
<1>1. next \in Slots /\ state.observations = [s \in Slots |-> state.observations[s]]
  BY NextIndexType DEF ObservationStates
<1>2. slot.block_timestamp = time
  OBVIOUS
<1>3. new = [state EXCEPT !.observations[next] = slot, !.observation_index = next,
                          !.last_update_timestamp = time]
  BY DEF OpenNextSlot
<1> HIDE DEF new, next, slot
<1>4. /\ new.initialized = state.initialized
      /\ new.observation_index = next
      /\ new.observations = [state.observations EXCEPT ![next] = slot]
  BY <1>3 DEF ObservationStates
<1>5. new.observations[next] = slot /\ \A s \in Slots \ {next} :
        new.observations[s] = state.observations[s]
  BY <1>1, <1>4
<1> QED
  BY <1>2, <1>4, <1>5 DEF new, next

\* What update (oracle.rs:78-148) leaves of the slots' timestamps: all of them, or
\* all but the one that opens at `now`, at least the duration after the newest.
LEMMA UpdateTimestamps ==
  ASSUME FeedTypeOK, Swap, observation_state.initialized
  PROVE  LET index == observation_state.observation_index
             next  == NextIndex(observation_state)
         IN  /\ observation_state'.initialized
             /\ \/ /\ observation_state'.observation_index = index
                   /\ \A s \in Slots : Opened(s)' = Opened(s)
                \/ /\ observation_state'.observation_index = next
                   /\ observation_state'.observations[next].block_timestamp = now
                   /\ now >= Opened(index) + OBSERVATION_UPDATE_DURATION_DEFAULT
                   /\ \A s \in Slots \ {next} : Opened(s)' = Opened(s)
<1> DEFINE state == observation_state
           index == state.observation_index
           next  == NextIndex(state)
<1>1. /\ index \in Slots /\ next \in Slots
      /\ state \in ObservationStates(0..MAX_TIME)
      /\ now \in Nat /\ Opened(index) \in Nat
  BY NextIndexType, OracleFeedAssumption DEF FeedTypeOK, ObservationStates, Opened, Times
<1>2. observation_state' = update(state, now, price)
  BY DEF Swap
<1>3. CASE SameSecond(state, now)
  <2>1. observation_state' = [state EXCEPT !.last_update_timestamp = LastUpdate(state)]
    BY <1>2, <1>3 DEF update
  <2> QED
    BY <1>1, <2>1 DEF Opened, ObservationStates
<1>4. CASE ~SameSecond(state, now)
           /\ SinceLastObservation(state, now) < OBSERVATION_UPDATE_DURATION_DEFAULT
  <2>1. observation_state' = UpdateInPlace(state, now, price)
    BY <1>2, <1>4 DEF update
  <2>2. /\ observation_state'.initialized = state.initialized
        /\ observation_state'.observation_index = index
        /\ \A s \in Slots : Opened(s)' = Opened(s)
    BY <1>1, <2>1 DEF UpdateInPlace, Opened, ObservationStates
  <2> QED
    BY <2>2
<1>5. CASE ~SameSecond(state, now)
           /\ ~(SinceLastObservation(state, now) < OBSERVATION_UPDATE_DURATION_DEFAULT)
  <2>1. observation_state' = OpenNextSlot(state, now, price)
    BY <1>2, <1>5 DEF update
  <2>2. /\ observation_state'.initialized = state.initialized
        /\ observation_state'.observation_index = next
        /\ observation_state'.observations[next].block_timestamp = now
        /\ \A s \in Slots \ {next} : Opened(s)' = Opened(s)
    <3>1. MAX_TIME \in Nat
      BY OracleFeedAssumption
    <3> DEFINE new == OpenNextSlot(state, now, price)
    <3>2. new.initialized = state.initialized
      BY <1>1, <3>1, NextSlotOpens
    <3>3. new.observation_index = next
      BY <1>1, <3>1, NextSlotOpens
    <3>4. new.observations[next].block_timestamp = now
      BY <1>1, <3>1, NextSlotOpens
    <3>5. ASSUME NEW s \in Slots \ {next} PROVE new.observations[s] = state.observations[s]
      BY <1>1, <3>1, NextSlotOpens
    <3> QED
      BY <2>1, <3>2, <3>3, <3>4, <3>5 DEF Opened
  <2>3. now >= Opened(index) + OBSERVATION_UPDATE_DURATION_DEFAULT
    BY <1>1, <1>5, ObservationAssumption
       DEF SinceLastObservation, SaturatingSub, LastObservation, Opened
  <2> QED
    BY <2>2, <2>3
<1> QED
  BY <1>3, <1>4, <1>5

\* The first update writes one slot of an account in which nothing was written.
LEMMA FirstUpdateRing ==
  ASSUME RingInv, Swap, ~observation_state.initialized
  PROVE  RingInv'
<1>1. FeedTypeOK'
  BY SwapType DEF RingInv
<1>2. /\ observation_state = ZeroedObservation /\ 0 \in Slots /\ now \in Nat \ {0}
  BY ObservationAssumption, OracleFeedAssumption DEF RingInv, FeedTypeOK, Times, Slots
<1>3. observation_state' = FirstUpdate(ZeroedObservation, now)
  BY <1>2 DEF Swap, update
<1>4. /\ observation_state'.initialized
      /\ observation_state'.observation_index = 0
      /\ Opened(0)' = now
      /\ \A s \in Slots \ {0} : Opened(s)' = 0
  BY <1>2, <1>3 DEF FirstUpdate, ZeroedObservation, Opened
<1> QED
  BY <1>1, <1>2, <1>4 DEF RingInv, RingAges, Written, Opened

\* Later ones move nothing, or put the clock after the newest slot.
LEMMA UpdateRing ==
  ASSUME RingInv, Swap, observation_state.initialized
  PROVE  RingInv'
<1> DEFINE index == observation_state.observation_index
           next  == NextIndex(observation_state)
<1>1. FeedTypeOK' /\ FeedTypeOK
  BY SwapType DEF RingInv
<1>2. index \in Slots /\ now \in Nat \ {0} /\ Opened(index) \in Nat /\ Opened(index) > 0
  BY <1>1, OracleFeedAssumption DEF RingInv, FeedTypeOK, ObservationStates, Opened, Times, Written
<1>3. next = (index + 1) % OBSERVATION_NUM /\ next \in Slots
  BY <1>2, Following, NextIndexType DEF NextIndex
<1>4. observation_state'.initialized
  BY <1>1, UpdateTimestamps
<1>5. CASE observation_state'.observation_index = index /\ \A s \in Slots : Opened(s)' = Opened(s)
  <2>1. \A s \in Slots : (s + 1) % OBSERVATION_NUM \in Slots
    BY Following, ObservationAssumption DEF Slots
  <2> QED
    BY <1>1, <1>2, <1>4, <1>5, <2>1 DEF RingInv, RingAges, Written, Opened
<1>6. CASE /\ observation_state'.observation_index = next
           /\ observation_state'.observations[next].block_timestamp = now
           /\ now >= Opened(index) + OBSERVATION_UPDATE_DURATION_DEFAULT
           /\ \A s \in Slots \ {next} : Opened(s)' = Opened(s)
  <2>1. ASSUME NEW s \in Slots \ {next}, Opened(s)' > 0
        PROVE  /\ Opened((s + 1) % OBSERVATION_NUM)' > 0
               /\ Opened((s + 1) % OBSERVATION_NUM)'
                    >= Opened(s)' + OBSERVATION_UPDATE_DURATION_DEFAULT
    <3>1. CASE s = index
      <4>1. (s + 1) % OBSERVATION_NUM = next
        BY <1>3, <3>1
      <4>2. Opened(s)' = Opened(index)
        BY <1>6, <3>1
      <4>3. /\ observation_state'.observations[next].block_timestamp > 0
            /\ observation_state'.observations[next].block_timestamp
                 >= Opened(s)' + OBSERVATION_UPDATE_DURATION_DEFAULT
        BY <1>2, <1>6, <4>2
      <4> QED
        BY <4>1, <4>3 DEF Opened
    <3>2. CASE s # index
      <4>1. (s + 1) % OBSERVATION_NUM # next /\ (s + 1) % OBSERVATION_NUM \in Slots
        BY <1>2, <1>3, <3>2, Following, ObservationAssumption DEF Slots
      <4>2. Opened(s) > 0 /\ Opened(s)' = Opened(s)
        BY <1>6, <2>1
      <4>3. /\ Opened((s + 1) % OBSERVATION_NUM) > 0
            /\ Opened((s + 1) % OBSERVATION_NUM)
                 >= Opened(s) + OBSERVATION_UPDATE_DURATION_DEFAULT
        BY <3>2, <4>2 DEF RingInv, RingAges, Written, Opened
      <4> QED
        BY <1>6, <4>1, <4>2, <4>3
    <3> QED
      BY <3>1, <3>2
  <2>2. RingAges'
    BY <1>4, <1>6, <2>1 DEF RingAges, Written, Opened
  <2>3. Written(observation_state.observation_index)'
    <3>1. observation_state'.observations[next].block_timestamp > 0
      BY <1>2, <1>6
    <3> QED
      BY <1>4, <1>6, <3>1 DEF Written, Opened
  <2> QED
    BY <1>1, <1>4, <2>2, <2>3 DEF RingInv
<1> QED
  BY <1>1, <1>5, <1>6, UpdateTimestamps

\* A fresh account holds no slot, an older one (with a single update) one.
LEMMA RingStarts ==
  ASSUME FeedInit
  PROVE  RingInv
<1>1. FeedTypeOK
  BY InitTyped
<1>2. CASE observation_state = ZeroedObservation
  BY <1>1, <1>2 DEF RingInv, RingAges, ZeroedObservation
<1>3. CASE \E time \in 1..now : observation_state = LegacyObservation(time)
  <2>1. PICK time \in 1..now : observation_state = LegacyObservation(time)
    BY <1>3
  <2>2. now \in Nat /\ 0 \in Slots
    BY ObservationAssumption, OracleFeedAssumption DEF FeedInit, Times, Slots
  <2>3. /\ observation_state.initialized /\ observation_state.observation_index = 0
        /\ Opened(0) = time
        /\ \A s \in Slots \ {0} : Opened(s) = 0
    BY <2>1, <2>2 DEF LegacyObservation, ZeroedObservation, Opened
  <2> QED
    BY <1>1, <2>2, <2>3 DEF RingInv, RingAges, Written, Opened
<1> QED
  BY <1>2, <1>3 DEF FeedInit

\* Clock and price leave the ring alone; each kind of update keeps it in order.
LEMMA RingPreserved ==
  ASSUME RingInv, [FeedNext]_feedVars
  PROVE  RingInv'
<1>1. CASE ClockMoves \/ PriceMoves \/ UNCHANGED feedVars
  BY <1>1 DEF RingInv, RingAges, Written, FeedTypeOK, ClockMoves, PriceMoves, feedVars, Times
<1>2. CASE Swap
  BY <1>2, FirstUpdateRing, UpdateRing
<1> QED
  BY <1>1, <1>2 DEF FeedNext

\* So the ring invariant holds at every time.
LEMMA RingInductive == FeedSpec => []RingInv
<1>1. RingInv /\ [FeedNext]_feedVars => RingInv'
  BY RingPreserved
<1> QED
  BY <1>1, RingStarts, PTL DEF FeedSpec

\* After a swap the account is initialized.
LEMMA SwapInitializes ==
  ASSUME FeedTypeOK, Swap
  PROVE  observation_state'.initialized
<1>1. CASE ~observation_state.initialized
  BY <1>1 DEF FeedTypeOK, ObservationStates, Swap, update, FirstUpdate
<1>2. CASE observation_state.initialized
  BY <1>2, UpdateTimestamps
<1> QED
  BY <1>1, <1>2

\* For every size of the ring: walking back from the newest slot, the timestamps
\* fall by the duration, until the first slot or the newest again.
THEOREM RingAlwaysAges == FeedSpec => []RingAges
<1>1. RingInv => RingAges
  BY DEF RingInv
<1> QED
  BY RingInductive, <1>1, PTL

(* ------------------------- the dates of slots -------------------------- *)

\* Division leaves one remainder.
LEMMA RemainderUnique ==
  ASSUME NEW M \in Nat \ {0}, NEW k \in Nat, NEW l \in Nat,
         NEW r \in 0..(M - 1), NEW s \in 0..(M - 1), M * k + r = M * l + s
  PROVE  r = s
<1>1. k - l \in Int /\ M * (k - l) = s - r
  BY SMTT(30)
<1>2. k - l < 1
  BY <1>1, SMTT(30)
<1>3. k - l > -1
  BY <1>1, SMTT(30)
<1> QED
  BY <1>1, <1>2, <1>3

\* Quotient and remainder.
LEMMA Division ==
  ASSUME NEW M \in Nat \ {0}, NEW a \in Nat
  PROVE  /\ a = M * (a \div M) + (a % M)
         /\ a % M \in 0..(M - 1)
         /\ a \div M \in Nat
  BY SMTT(30)

\* A sum that wraps at every step is the exact sum, wrapped once.
LEMMA WrapOnce ==
  ASSUME NEW M \in Nat \ {0}, NEW a \in Nat, NEW b \in Nat
  PROVE  ((a % M) + b) % M = (a + b) % M
<1> DEFINE q    == a \div M
           rest == a % M
           c    == rest + b
           sum  == a + b
<1>1. a = M * q + rest /\ q \in Nat /\ rest \in Nat
  BY Division
<1> HIDE DEF q, rest
<1>2. c \in Nat /\ sum \in Nat /\ sum = M * q + c
  BY <1>1
<1> HIDE DEF c, sum
<1>3. c = M * (c \div M) + (c % M) /\ c \div M \in Nat /\ c % M \in 0..(M - 1)
  BY <1>2, Division
<1>4. sum = M * (sum \div M) + (sum % M) /\ sum \div M \in Nat /\ sum % M \in 0..(M - 1)
  BY <1>2, Division
<1> DEFINE k    == c \div M
           l    == sum \div M
           low  == c % M
           high == sum % M
<1>5. M * (q + k) + low = M * l + high /\ q + k \in Nat
  <2>1. c = M * k + low /\ sum = M * l + high /\ sum = M * q + c
    BY <1>2, <1>3, <1>4
  <2>2. q \in Nat /\ k \in Nat /\ low \in Nat /\ l \in Nat /\ high \in Nat
    BY <1>1, <1>3, <1>4
  <2> HIDE DEF k, l, low, high
  <2>3. M * (q + k) = M * q + M * k
    BY <2>2
  <2> QED
    BY <2>1, <2>2, <2>3
<1>6. k \in Nat /\ l \in Nat /\ low \in 0..(M - 1) /\ high \in 0..(M - 1)
  BY <1>3, <1>4
<1> HIDE DEF k, l, low, high
<1>7. low = high
  BY <1>1, <1>5, <1>6, RemainderUnique
<1> QED
  BY <1>7 DEF low, high, c, sum, rest

\* The newest slot holds the integral up to the last update, which came within
\* the duration of the slot's opening.
NewestDated ==
  LET index == observation_state.observation_index
      last  == LastUpdate(observation_state)
  IN  observation_state.initialized =>
        /\ Opened(index) <= last
        /\ last < Opened(index) + OBSERVATION_UPDATE_DURATION_DEFAULT
        /\ HoldsIntegralAt(index, last)

DatedInv ==
  /\ RingInv
  /\ SlotDatedWithinDuration
  /\ NewestDated
  /\ ~observation_state.initialized =>
       integral = [time \in 0..MAX_TIME |-> [t \in Tokens |-> 0]]

\* The slots that an update which counts leaves as they are, and the one it writes.
LEMMA UpdateSlots ==
  ASSUME FeedTypeOK, Swap, observation_state.initialized, ~SameSecond(observation_state, now)
  PROVE  LET index == observation_state.observation_index
             next  == NextIndex(observation_state)
         IN  /\ \A s \in Slots \ {observation_state'.observation_index} :
                  observation_state'.observations[s] = observation_state.observations[s]
             /\ \/ /\ SinceLastObservation(observation_state, now)
                        < OBSERVATION_UPDATE_DURATION_DEFAULT
                   /\ observation_state'.observation_index = index
                   /\ observation_state'.observations[index].block_timestamp = Opened(index)
                \/ /\ observation_state'.observation_index = next
                   /\ observation_state'.observations[next].block_timestamp = now
<1> DEFINE state == observation_state
           index == state.observation_index
           next  == NextIndex(state)
<1>1. /\ index \in Slots /\ next \in Slots
      /\ state \in ObservationStates(0..MAX_TIME) /\ MAX_TIME \in Nat
  BY NextIndexType, OracleFeedAssumption DEF FeedTypeOK, ObservationStates
<1>2. observation_state' = update(state, now, price)
  BY DEF Swap
<1>3. CASE SinceLastObservation(state, now) < OBSERVATION_UPDATE_DURATION_DEFAULT
  <2>1. observation_state' = UpdateInPlace(state, now, price)
    BY <1>2, <1>3 DEF update
  <2>2. /\ observation_state'.observation_index = index
        /\ observation_state'.observations[index].block_timestamp = Opened(index)
        /\ \A s \in Slots \ {index} :
             observation_state'.observations[s] = state.observations[s]
    BY <1>1, <2>1 DEF UpdateInPlace, Opened, ObservationStates
  <2> QED
    BY <1>3, <2>2
<1>4. CASE ~(SinceLastObservation(state, now) < OBSERVATION_UPDATE_DURATION_DEFAULT)
  <2> DEFINE new == OpenNextSlot(state, now, price)
  <2>1. observation_state' = new
    BY <1>2, <1>4 DEF update
  <2>2. new.observation_index = next
    BY <1>1, NextSlotOpens
  <2>3. new.observations[next].block_timestamp = now
    BY <1>1, NextSlotOpens
  <2>4. ASSUME NEW s \in Slots \ {next} PROVE new.observations[s] = state.observations[s]
    BY <1>1, NextSlotOpens
  <2> QED
    BY <2>1, <2>2, <2>3, <2>4
<1> QED
  BY <1>3, <1>4

\* A swap adds to the history after the last update, and never changes it before.
LEMMA HistoryGrows ==
  ASSUME FeedTypeOK, Swap, observation_state.initialized
  PROVE  LET last == LastUpdate(observation_state)
         IN  /\ last \in 0..MAX_TIME
             /\ \A time \in 0..MAX_TIME : time <= last => integral'[time] = integral[time]
             /\ last < now => \A t \in Tokens :
                  integral'[now][t] = integral[last][t] + price[t] * (now - last)
<1> DEFINE last == LastUpdate(observation_state)
<1>1. /\ observation_state \in ObservationStates(0..MAX_TIME) /\ MAX_TIME \in Nat
      /\ now \in 1..MAX_TIME /\ now \in 0..MAX_TIME
  BY OracleFeedAssumption DEF FeedTypeOK, Times
<1>2. last \in 0..MAX_TIME
  BY <1>1, SincesType
<1>3. integral' = [time \in 0..MAX_TIME |->
         IF time > last /\ time <= now
         THEN [t \in Tokens |-> integral[last][t] + price[t] * (time - last)]
         ELSE integral[time]]
  BY DEF Swap, ExtendedIntegral
<1> HIDE DEF last
<1> QED
  BY <1>1, <1>2, <1>3 DEF last

\* An update that counts leaves the integral up to now in the newest slot.
LEMMA NewestHolds ==
  ASSUME DatedInv, Swap, observation_state.initialized, ~SameSecond(observation_state, now)
  PROVE  /\ LastUpdate(observation_state') = now
         /\ LastUpdate(observation_state) < now
         /\ \A t \in Tokens :
              LastObservation(observation_state').cumulative_token_price_x32[t]
                = integral'[now][t] % (U128_MAX + 1)
<1> DEFINE state == observation_state
           last  == LastUpdate(state)
           M     == U128_MAX + 1
<1>1. /\ state \in ObservationStates(0..MAX_TIME) /\ MAX_TIME \in Nat /\ now \in 1..MAX_TIME
      /\ FeedTypeOK /\ M \in Nat \ {0}
  BY OracleFeedAssumption, ObservationAssumption DEF DatedInv, RingInv, FeedTypeOK, Times
<1>2. observation_state' = update(state, now, price)
  BY DEF Swap
<1>3. /\ LastUpdate(observation_state') = now
      /\ LastObservation(observation_state').cumulative_token_price_x32
           = Accumulated(state, now, price)
  BY <1>1, <1>2, UpdateAdvances
<1>4. last \in 0..MAX_TIME /\ last < now /\ SinceLastUpdate(state, now) = now - last
  BY <1>1, SincesType DEF SameSecond, SinceLastUpdate, SaturatingSub
<1>5. \A t \in Tokens : integral'[now][t] = integral[last][t] + price[t] * (now - last)
  BY <1>1, <1>4, HistoryGrows
<1>6. ASSUME NEW t \in Tokens
      PROVE  Accumulated(state, now, price)[t] = integral'[now][t] % M
  <2> DEFINE before == LastObservation(state).cumulative_token_price_x32[t]
             exact  == integral[last][t]
             added  == price[t] * (now - last)
  <2>1. before = exact % M
    BY <1>1 DEF DatedInv, NewestDated, HoldsIntegralAt, LastObservation
  <2>2. exact \in Nat /\ price[t] \in Nat /\ now - last \in Nat
    BY <1>1, <1>4, OracleFeedAssumption, ObservationAssumption DEF FeedTypeOK
  <2>3. Accumulated(state, now, price)[t] = (before + added) % M
    BY <1>4 DEF Accumulated, wrapping_add
  <2>4. integral'[now][t] = exact + added
    BY <1>5
  <2> HIDE DEF before, exact, M
  <2>5. added \in Nat
    BY <2>2
  <2> HIDE DEF added
  <2>6. ((exact % M) + added) % M = (exact + added) % M
    BY <1>1, <2>2, <2>5, WrapOnce
  <2> QED
    BY <2>1, <2>3, <2>4, <2>6
<1> QED
  BY <1>3, <1>4, <1>6

\* So the slot it writes is dated, and the others are dated as before.
LEMMA CountedUpdateDated ==
  ASSUME DatedInv, Swap, observation_state.initialized, ~SameSecond(observation_state, now)
  PROVE  NewestDated' /\ SlotDatedWithinDuration'
<1> DEFINE state  == observation_state
           newest == observation_state'.observation_index
<1>1. /\ FeedTypeOK /\ FeedTypeOK' /\ now \in 1..MAX_TIME /\ MAX_TIME \in Nat
      /\ now' = now /\ OBSERVATION_UPDATE_DURATION_DEFAULT \in Nat \ {0}
  BY SwapType, OracleFeedAssumption, ObservationAssumption
     DEF DatedInv, RingInv, FeedTypeOK, Swap, Times
<1>2. /\ LastUpdate(observation_state') = now
      /\ LastUpdate(state) < now
      /\ LastUpdate(state) \in 0..MAX_TIME
      /\ \A time \in 0..MAX_TIME : time <= LastUpdate(state) => integral'[time] = integral[time]
  BY <1>1, NewestHolds, HistoryGrows
<1>3. \A t \in Tokens : observation_state'.observations[newest].cumulative_token_price_x32[t]
                          = integral'[now][t] % (U128_MAX + 1)
  BY NewestHolds DEF LastObservation
<1>4. /\ newest \in Slots
      /\ \A s \in Slots : observation_state'.observations[s].block_timestamp \in 0..MAX_TIME
      /\ \A s \in Slots : Opened(s) \in 0..MAX_TIME
  BY <1>1 DEF FeedTypeOK, ObservationStates, Opened
<1>5. /\ observation_state'.observations[newest].block_timestamp <= now
      /\ now < observation_state'.observations[newest].block_timestamp
                 + OBSERVATION_UPDATE_DURATION_DEFAULT
  <2>1. CASE /\ SinceLastObservation(state, now) < OBSERVATION_UPDATE_DURATION_DEFAULT
             /\ newest = state.observation_index
             /\ observation_state'.observations[newest].block_timestamp = Opened(newest)
    <3>1. Opened(newest) <= LastUpdate(state)
      BY <2>1 DEF DatedInv, NewestDated
    <3> QED
      BY <1>1, <1>2, <1>4, <2>1, <3>1
         DEF SinceLastObservation, SaturatingSub, LastObservation, Opened
  <2>2. CASE observation_state'.observations[newest].block_timestamp = now
    BY <1>1, <2>2
  <2> QED
    BY <1>1, <2>1, <2>2, UpdateSlots
<1>6. NewestDated'
  BY <1>2, <1>3, <1>5 DEF NewestDated, HoldsIntegralAt, Opened
<1>7. ASSUME NEW s \in Slots, observation_state'.observations[s].block_timestamp > 0
      PROVE  LET opened == observation_state'.observations[s].block_timestamp
             IN  \E time \in opened..(opened + OBSERVATION_UPDATE_DURATION_DEFAULT - 1) :
                   /\ time <= now
                   /\ \A t \in Tokens :
                        observation_state'.observations[s].cumulative_token_price_x32[t]
                          = integral'[time][t] % (U128_MAX + 1)
  <2>1. CASE s = newest
    BY <1>1, <1>3, <1>4, <1>5, <2>1
  <2>2. CASE s # newest
    <3>1. observation_state'.observations[s] = state.observations[s]
      BY <1>1, <2>2, UpdateSlots
    <3>2. Written(s)
      BY <1>7, <3>1 DEF Written
    <3>3. PICK time \in Opened(s)..(Opened(s) + OBSERVATION_UPDATE_DURATION_DEFAULT - 1) :
            time <= LastUpdate(state) /\ HoldsIntegralAt(s, time)
      BY <3>2 DEF DatedInv, SlotDatedWithinDuration, Opened
    <3>4. time \in 0..MAX_TIME /\ time <= now /\ integral'[time] = integral[time]
      BY <1>1, <1>2, <1>4, <3>3
    <3> QED
      BY <3>1, <3>3, <3>4 DEF HoldsIntegralAt, Opened
  <2> QED
    BY <2>1, <2>2
<1>8. SlotDatedWithinDuration'
  BY <1>2, <1>7 DEF SlotDatedWithinDuration, Written, HoldsIntegralAt
<1> QED
  BY <1>6, <1>8

\* An update that accounts for no time moves neither the slots nor the history.
LEMMA UncountedUpdateDated ==
  ASSUME DatedInv, Swap, observation_state.initialized, SameSecond(observation_state, now)
  PROVE  NewestDated' /\ SlotDatedWithinDuration'
<1> DEFINE state == observation_state
<1>1. /\ state \in ObservationStates(0..MAX_TIME) /\ MAX_TIME \in Nat /\ FeedTypeOK
      /\ now \in 0..MAX_TIME
  BY OracleFeedAssumption DEF DatedInv, RingInv, FeedTypeOK, Times
<1>2. observation_state' = update(state, now, price)
  BY DEF Swap
<1>3. observation_state' = [state EXCEPT !.last_update_timestamp = LastUpdate(state)]
  BY <1>2 DEF update
<1>4. /\ observation_state'.initialized
      /\ observation_state'.observation_index = state.observation_index
      /\ observation_state'.observations = state.observations
  BY <1>1, <1>3 DEF ObservationStates
<1>5. LastUpdate(observation_state') = LastUpdate(state)
  BY <1>1, <1>2, SameSecondStutters
<1>6. now <= LastUpdate(state)
  <2>1. Opened(state.observation_index) <= LastUpdate(state)
    BY DEF DatedInv, NewestDated
  <2>2. /\ Opened(state.observation_index) \in 0..MAX_TIME
        /\ LastUpdate(state) \in 0..MAX_TIME
    BY <1>1, SincesType DEF ObservationStates, Opened
  <2> QED
    BY <1>1, <2>1, <2>2
       DEF SameSecond, SinceLastUpdate, SinceLastObservation, SaturatingSub, LastObservation,
           Opened
<1>7. integral' = integral
  <2>1. \A time \in 0..MAX_TIME : ~(time > LastUpdate(state) /\ time <= now)
    BY <1>1, <1>6, SincesType
  <2>2. integral = [time \in 0..MAX_TIME |-> integral[time]]
    BY <1>1 DEF FeedTypeOK
  <2>3. integral' = [time \in 0..MAX_TIME |-> integral[time]]
    BY <2>1 DEF Swap, ExtendedIntegral
  <2> QED
    BY <2>2, <2>3
<1>8. NewestDated'
  BY <1>4, <1>5, <1>7 DEF DatedInv, NewestDated, HoldsIntegralAt, Opened
<1>9. SlotDatedWithinDuration'
  BY <1>4, <1>5, <1>7 DEF DatedInv, SlotDatedWithinDuration, Written, HoldsIntegralAt
<1> QED
  BY <1>8, <1>9

\* The first update dates its slot by the second it happens in, with nothing in it.
LEMMA FirstUpdateDated ==
  ASSUME DatedInv, Swap, ~observation_state.initialized
  PROVE  NewestDated' /\ SlotDatedWithinDuration'
<1>1. /\ observation_state = ZeroedObservation /\ 0 \in Slots /\ now \in 1..MAX_TIME
      /\ MAX_TIME \in Nat /\ U128_MAX \in Nat /\ OBSERVATION_UPDATE_DURATION_DEFAULT \in Nat \ {0}
  BY ObservationAssumption, OracleFeedAssumption DEF DatedInv, RingInv, FeedTypeOK, Times, Slots
<1>2. observation_state' = FirstUpdate(ZeroedObservation, now)
  BY <1>1 DEF Swap, update
<1>3. /\ observation_state'.initialized
      /\ observation_state'.observation_index = 0
      /\ observation_state'.last_update_timestamp = now
      /\ observation_state'.observations[0].block_timestamp = now
      /\ \A t \in Tokens : observation_state'.observations[0].cumulative_token_price_x32[t] = 0
      /\ \A s \in Slots \ {0} : observation_state'.observations[s].block_timestamp = 0
  BY <1>1, <1>2 DEF FirstUpdate, ZeroedObservation
<1>4. LastUpdate(observation_state') = now
  BY <1>1, <1>3 DEF LastUpdate
<1>5. \A time \in 0..MAX_TIME, t \in Tokens : integral'[time][t] = 0
  BY <1>1 DEF DatedInv, Swap, ExtendedIntegral, ZeroedObservation
<1>6. \A t \in Tokens : observation_state'.observations[0].cumulative_token_price_x32[t]
                          = integral'[now][t] % (U128_MAX + 1)
  <2>1. 0 % (U128_MAX + 1) = 0
    BY <1>1
  <2> QED
    BY <1>1, <1>3, <1>5, <2>1
<1>7. NewestDated'
  BY <1>1, <1>3, <1>4, <1>6 DEF NewestDated, HoldsIntegralAt, Opened
<1>8. SlotDatedWithinDuration'
  BY <1>1, <1>3, <1>4, <1>6 DEF SlotDatedWithinDuration, Written, HoldsIntegralAt
<1> QED
  BY <1>7, <1>8

\* So every slot is dated at every time.
LEMMA DatedInductive == FeedSpec => []DatedInv
<1>1. FeedInit => DatedInv
  <2> SUFFICES ASSUME FeedInit PROVE DatedInv
    OBVIOUS
  <2>1. RingInv
    BY RingStarts
  <2>2. /\ 0 \in Slots /\ MAX_TIME \in Nat /\ U128_MAX \in Nat /\ 0 % (U128_MAX + 1) = 0
        /\ OBSERVATION_UPDATE_DURATION_DEFAULT \in Nat \ {0} /\ now \in 1..MAX_TIME
        /\ integral = [time \in 0..MAX_TIME |-> [t \in Tokens |-> 0]]
    BY ObservationAssumption, OracleFeedAssumption DEF FeedInit, Times, Slots
  <2>3. CASE observation_state = ZeroedObservation
    BY <2>1, <2>2, <2>3
       DEF DatedInv, NewestDated, SlotDatedWithinDuration, Written, ZeroedObservation
  <2>4. CASE \E time \in 1..now : observation_state = LegacyObservation(time)
    <3>1. PICK time \in 1..now : observation_state = LegacyObservation(time)
      BY <2>4
    <3>2. /\ observation_state.initialized
          /\ observation_state.observation_index = 0
          /\ observation_state.last_update_timestamp = 0
          /\ observation_state.observations[0].block_timestamp = time
          /\ \A s \in Slots \ {0} : observation_state.observations[s].block_timestamp = 0
          /\ \A s \in Slots, t \in Tokens :
               observation_state.observations[s].cumulative_token_price_x32[t] = 0
      BY <2>2, <3>1 DEF LegacyObservation, ZeroedObservation
    <3>3. LastUpdate(observation_state) = time /\ time \in 1..MAX_TIME
      BY <2>2, <3>1, <3>2 DEF LastUpdate, LastObservation
    <3>4. \A t \in Tokens : integral[time][t] % (U128_MAX + 1) = 0
      BY <2>2, <3>3
    <3>5. NewestDated
      BY <2>2, <3>2, <3>3, <3>4 DEF NewestDated, HoldsIntegralAt, Opened
    <3>6. SlotDatedWithinDuration
      <4>1. \A s \in Slots : Written(s) => s = 0
        BY <3>2 DEF Written
      <4>2. time \in time..(time + OBSERVATION_UPDATE_DURATION_DEFAULT - 1)
        BY <2>2, <3>3
      <4>3. HoldsIntegralAt(0, time)
        BY <2>2, <3>2, <3>4 DEF HoldsIntegralAt
      <4>4. time <= LastUpdate(observation_state)
        BY <3>3
      <4> QED
        BY <3>2, <4>1, <4>2, <4>3, <4>4 DEF SlotDatedWithinDuration
    <3> QED
      BY <2>1, <2>2, <3>5, <3>6 DEF DatedInv
  <2> QED
    BY <2>3, <2>4 DEF FeedInit
<1>2. DatedInv /\ [FeedNext]_feedVars => DatedInv'
  <2> SUFFICES ASSUME DatedInv, [FeedNext]_feedVars PROVE DatedInv'
    OBVIOUS
  <2>1. RingInv'
    BY RingPreserved DEF DatedInv
  <2>2. CASE ClockMoves \/ PriceMoves \/ UNCHANGED feedVars
    BY <2>1, <2>2
       DEF DatedInv, NewestDated, SlotDatedWithinDuration, Written, HoldsIntegralAt, Opened,
           ClockMoves, PriceMoves, feedVars
  <2>3. CASE Swap
    <3>1. observation_state'.initialized
      BY <2>3, SwapInitializes DEF DatedInv, RingInv
    <3>2. NewestDated' /\ SlotDatedWithinDuration'
      BY <2>3, CountedUpdateDated, UncountedUpdateDated, FirstUpdateDated
    <3> QED
      BY <2>1, <3>1, <3>2 DEF DatedInv
  <2> QED
    BY <2>2, <2>3 DEF FeedNext
<1> QED
  BY <1>1, <1>2, PTL DEF FeedSpec

\* For every size of the ring, duration and clock: whoever reads a slot is off by
\* less than the duration.
THEOREM SlotsAlwaysDated == FeedSpec => []SlotDatedWithinDuration
<1>1. DatedInv => SlotDatedWithinDuration
  BY DEF DatedInv
<1> QED
  BY DatedInductive, <1>1, PTL

=============================================================================
