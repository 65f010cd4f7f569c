---------------------------- MODULE OperatorTheorems ----------------------------
(***************************************************************************)
(* Lemmas about the operators the pool's actions are made of, for every    *)
(* value of the constants: the arithmetic of the curve and of the transfer *)
(* fees, and one update of the oracle account, for every ring size,        *)
(* duration and width of a cumulative price.                               *)
(***************************************************************************)
EXTENDS SwapQuote, Observation, TLAPS

(* ------------------------------ division ------------------------------- *)

\* A quotient is the largest number whose product with the divisor fits.
LEMMA DivFloor ==
  ASSUME NEW a \in Nat, NEW b \in Nat \ {0}
  PROVE  /\ a \div b \in Nat
         /\ (a \div b) * b <= a
         /\ a < (a \div b + 1) * b
  OBVIOUS

\* A number that is at least a quotient's dividend, per divisor, is at least
\* the quotient.
LEMMA DivAtMost ==
  ASSUME NEW a \in Nat, NEW b \in Nat \ {0}, NEW c \in Nat, a <= c * b
  PROVE  a \div b <= c
<1>1. CASE a \div b <= c
  BY <1>1
<1>2. CASE a \div b >= c + 1
  <2>1. (a \div b) * b >= (c + 1) * b
    BY <1>2, DivFloor
  <2>2. (c + 1) * b = c * b + b
    OBVIOUS
  <2> QED
    BY <2>1, <2>2, DivFloor
<1> QED
  BY <1>1, <1>2, DivFloor

\* Rounding up never charges more than the whole for a rate of at most 1.
LEMMA CeilShare ==
  ASSUME NEW amount \in Nat, NEW rate \in Nat, NEW whole \in Nat \ {0}, rate <= whole
  PROVE  /\ (amount * rate + whole - 1) \div whole \in Nat
         /\ (amount * rate + whole - 1) \div whole <= amount
<1>1. amount * rate <= amount * whole
  OBVIOUS
<1>2. amount * rate + whole - 1 \in Nat
  OBVIOUS
<1>3. amount * rate + whole - 1 < (amount + 1) * whole
  BY <1>1
<1>4. CASE (amount * rate + whole - 1) \div whole >= amount + 1
  <2>1. ((amount * rate + whole - 1) \div whole) * whole >= (amount + 1) * whole
    BY <1>2, <1>4, DivFloor
  <2> QED
    BY <1>2, <1>3, <2>1, DivFloor
<1> QED
  BY <1>2, <1>4, DivFloor

\* Two shares of one fee, rounded down, do not exceed it.
LEMMA TwoShares ==
  ASSUME NEW fee \in Nat, NEW p \in Nat, NEW f \in Nat, NEW whole \in Nat \ {0},
         p + f <= whole
  PROVE  /\ (fee * p) \div whole \in Nat
         /\ (fee * f) \div whole \in Nat
         /\ (fee * p) \div whole + (fee * f) \div whole <= fee
<1> DEFINE a == (fee * p) \div whole
           b == (fee * f) \div whole
<1>1. a \in Nat /\ b \in Nat /\ a * whole <= fee * p /\ b * whole <= fee * f
  BY DivFloor
<1>2. (a + b) * whole <= fee * whole
  <2>1. fee * p + fee * f = fee * (p + f) /\ fee * (p + f) <= fee * whole
    OBVIOUS
  <2>2. (a + b) * whole = a * whole + b * whole
    BY <1>1
  <2> HIDE DEF a, b
  <2> QED
    BY <1>1, <2>1, <2>2
<1>3. a + b <= fee
  <2> HIDE DEF a, b
  <2> QED
    BY <1>1, <1>2
<1> QED
  BY <1>1, <1>3

\* A quotient rounded up is the least number whose product with the divisor
\* reaches the dividend.
LEMMA CeilFloor ==
  ASSUME NEW a \in Nat, NEW w \in Nat \ {0}
  PROVE  /\ CeilDiv(a, w) \in Nat
         /\ CeilDiv(a, w) * w >= a
         /\ CeilDiv(a, w) * w < a + w
<1> DEFINE dividend == a + w - 1
           q == dividend \div w
<1>1. dividend \in Nat
  OBVIOUS
<1> HIDE DEF dividend
<1>2. q \in Nat /\ q * w <= dividend /\ dividend < (q + 1) * w
  BY <1>1, DivFloor
<1>3. CeilDiv(a, w) = q
  BY DEF CeilDiv, dividend
<1> HIDE DEF q
<1>4. (q + 1) * w = q * w + w
  BY <1>2
<1> QED
  BY <1>2, <1>3, <1>4 DEF dividend

\* Rounding up stays below every whole bound of the exact quotient.
LEMMA CeilAtMost ==
  ASSUME NEW a \in Nat, NEW w \in Nat \ {0}, NEW c \in Int, a <= c * w
  PROVE  CeilDiv(a, w) <= c
<1> DEFINE q == CeilDiv(a, w)
<1>1. q \in Nat /\ q * w < a + w
  BY CeilFloor
<1> HIDE DEF q
<1>2. q * w < (c + 1) * w
  BY <1>1
<1>3. q < c + 1
  BY <1>1, <1>2
<1> QED
  BY <1>1, <1>3 DEF q

\* Rounding up reaches every whole bound that the exact quotient passes.
LEMMA CeilAtLeast ==
  ASSUME NEW a \in Nat, NEW w \in Nat \ {0}, NEW c \in Int, (c - 1) * w < a
  PROVE  CeilDiv(a, w) >= c
<1> DEFINE q == CeilDiv(a, w)
<1>1. q \in Nat /\ a <= q * w
  BY CeilFloor
<1> HIDE DEF q
<1>2. (c - 1) * w < q * w
  BY <1>1
<1>3. c - 1 < q
  BY <1>1, <1>2
<1> QED
  BY <1>1, <1>3 DEF q

\* A share rounded up grows with the amount, and by no more than the amount does.
LEMMA ShareGrows ==
  ASSUME NEW a \in Nat, NEW b \in Nat, a <= b,
         NEW rate \in Nat, NEW whole \in Nat \ {0}, rate <= whole
  PROVE  /\ CeilDiv(a * rate, whole) \in Nat
         /\ CeilDiv(b * rate, whole) \in Nat
         /\ CeilDiv(a * rate, whole) <= CeilDiv(b * rate, whole)
         /\ CeilDiv(b * rate, whole) <= CeilDiv(a * rate, whole) + (b - a)
<1> DEFINE x == CeilDiv(a * rate, whole)
           y == CeilDiv(b * rate, whole)
<1>1. a * rate \in Nat /\ b * rate \in Nat
  OBVIOUS
<1>2. x \in Nat /\ y \in Nat /\ a * rate <= x * whole /\ b * rate <= y * whole
  BY <1>1, CeilFloor
<1> HIDE DEF x, y
<1>3. a * rate <= b * rate
  OBVIOUS
<1>4. x <= y
  BY <1>1, <1>2, <1>3, CeilAtMost DEF x
<1>5. b * rate <= (x + (b - a)) * whole
  <2> DEFINE more == b - a
  <2>1. more \in Nat /\ b = a + more
    OBVIOUS
  <2> HIDE DEF more
  <2>2. more * rate <= more * whole
    BY <2>1
  <2>3. b * rate = a * rate + more * rate
    BY <2>1
  <2>4. (x + more) * whole = x * whole + more * whole
    BY <1>2, <2>1
  <2>5. b * rate <= (x + more) * whole
    BY <1>1, <1>2, <2>1, <2>2, <2>3, <2>4
  <2> QED
    BY <2>5 DEF more
<1>6. y <= x + (b - a)
  BY <1>1, <1>2, <1>5, CeilAtMost DEF y
<1> QED
  BY <1>2, <1>4, <1>6 DEF x, y

\* Rounded up in two parts, a share is at least what it is in one.
LEMMA ShareInParts ==
  ASSUME NEW a \in Nat, NEW b \in Nat, NEW rate \in Nat, NEW whole \in Nat \ {0}
  PROVE  /\ CeilDiv(a * rate, whole) \in Nat
         /\ CeilDiv(b * rate, whole) \in Nat
         /\ CeilDiv((a + b) * rate, whole) \in Nat
         /\ CeilDiv((a + b) * rate, whole) <= CeilDiv(a * rate, whole) + CeilDiv(b * rate, whole)
<1> DEFINE x == CeilDiv(a * rate, whole)
           y == CeilDiv(b * rate, whole)
<1>1. a * rate \in Nat /\ b * rate \in Nat /\ (a + b) * rate \in Nat
      /\ (a + b) * rate = a * rate + b * rate
  OBVIOUS
<1>2. x \in Nat /\ y \in Nat /\ a * rate <= x * whole /\ b * rate <= y * whole
  BY <1>1, CeilFloor
<1> HIDE DEF x, y
<1>3. (x + y) * whole = x * whole + y * whole
  BY <1>2
<1>4. (a + b) * rate <= (x + y) * whole
  BY <1>1, <1>2, <1>3
<1>5. CeilDiv((a + b) * rate, whole) <= x + y
  BY <1>1, <1>2, <1>4, CeilAtMost
<1>6. CeilDiv((a + b) * rate, whole) \in Nat
  BY <1>1, CeilFloor
<1> QED
  BY <1>2, <1>5, <1>6 DEF x, y

\* The least amount that leaves `net` after a share rounded up leaves exactly
\* `net`, and one unit less leaves less.
LEMMA GrossUp ==
  ASSUME NEW net \in Nat, NEW rate \in Nat, NEW whole \in Nat \ {0}, rate < whole
  PROVE  LET gross == CeilDiv(net * whole, whole - rate)
         IN  /\ gross \in Nat
             /\ gross >= net
             /\ CeilDiv(gross * rate, whole) = gross - net
             /\ net > 0 => CeilDiv((gross - 1) * rate, whole) >= gross - net
<1> DEFINE rest == whole - rate
           gross == CeilDiv(net * whole, rest)
<1>1. rest \in Nat \ {0} /\ whole = rest + rate /\ rest <= whole /\ net * whole \in Nat
  OBVIOUS
<1> HIDE DEF rest
<1>2. gross \in Nat /\ gross * rest >= net * whole /\ gross * rest < net * whole + rest
  BY <1>1, CeilFloor
<1> HIDE DEF gross
<1>3. gross * whole = gross * rest + gross * rate
  BY <1>1, <1>2
<1>4. gross >= net
  <2>1. gross * rest <= gross * whole
    BY <1>1, <1>2
  <2>2. net * whole <= gross * whole
    BY <1>1, <1>2, <2>1
  <2> QED
    BY <1>1, <1>2, <2>2
<1>5. (gross - net) * whole = gross * whole - net * whole
  BY <1>1, <1>2
<1>6. gross * rate <= (gross - net) * whole
  BY <1>1, <1>2, <1>3, <1>5
<1>7. (gross - net - 1) * whole < (gross - 1) * rate
  <2>1. (gross - 1) * rate = gross * rate - rate
    BY <1>2
  <2>2. (gross - net - 1) * whole = (gross - net) * whole - whole
    BY <1>2
  <2> QED
    BY <1>1, <1>2, <1>3, <1>5, <2>1, <2>2
<1>8. CeilDiv(gross * rate, whole) <= gross - net
  BY <1>2, <1>4, <1>6, CeilAtMost
<1>9. ASSUME net > 0
      PROVE  CeilDiv((gross - 1) * rate, whole) >= gross - net
  <2>1. gross - 1 \in Nat
    BY <1>2, <1>4, <1>9
  <2>2. (gross - 1) * rate \in Nat
    BY <2>1
  <2> QED
    BY <1>2, <1>4, <1>7, <2>2, CeilAtLeast
<1>10. gross * rate \in Nat
  BY <1>2
<1>11. CeilDiv(gross * rate, whole) \in Nat
  BY <1>10, CeilFloor
<1>12. CeilDiv(gross * rate, whole) >= gross - net
  <2>1. CASE net > 0
    <3>1. gross - 1 \in Nat
      BY <1>2, <1>4, <2>1
    <3>2. (gross - 1) * rate \in Nat /\ (gross - 1) * rate <= gross * rate
      BY <1>2, <3>1
    <3>3. CeilDiv((gross - 1) * rate, whole) <= CeilDiv(gross * rate, whole)
      <4> DEFINE less == (gross - 1) * rate
                 most == CeilDiv(gross * rate, whole)
      <4>1. most \in Int /\ gross * rate <= most * whole
        BY <1>10, <1>11, CeilFloor
      <4> HIDE DEF less, most
      <4>2. less \in Nat /\ less <= most * whole
        BY <1>10, <3>2, <4>1 DEF less
      <4>3. CeilDiv(less, whole) <= most
        BY <4>1, <4>2, CeilAtMost
      <4> QED
        BY <4>3 DEF less, most
    <3>4. CeilDiv((gross - 1) * rate, whole) \in Nat
      BY <3>2, CeilFloor
    <3> QED
      BY <1>2, <1>9, <1>11, <2>1, <3>3, <3>4
  <2>2. CASE net = 0
    <3>1. net * whole = 0
      BY <2>2
    <3>2. gross = 0
      BY <1>1, <1>2, <3>1
    <3> QED
      BY <1>11, <2>2, <3>2
  <2> QED
    BY <2>1, <2>2
<1>13. CeilDiv(gross * rate, whole) = gross - net
  BY <1>2, <1>8, <1>11, <1>12
<1> QED
  BY <1>2, <1>4, <1>9, <1>13 DEF gross, rest

(* ---------------------------- transfer fees ---------------------------- *)

\* The smaller of two amounts is an amount.
LEMMA AtMostType ==
  ASSUME NEW a \in Nat, NEW b \in Nat
  PROVE  AtMost(a, b) \in Nat /\ AtMost(a, b) <= a /\ AtMost(a, b) <= b
  BY DEF AtMost

\* A mint never withholds more than what is transferred.
LEMMA CalculateFeeBounded ==
  ASSUME NEW m \in Mints(Nat), NEW amount \in Nat
  PROVE  CalculateFee(m, amount) \in Nat /\ CalculateFee(m, amount) <= amount
<1> DEFINE bp == m.transfer_fee_basis_points
           fee == CeilDiv(amount * bp, MAX_FEE_BASIS_POINTS)
<1>1. bp \in Nat /\ bp <= MAX_FEE_BASIS_POINTS /\ m.maximum_fee \in Nat
  BY BasisPointsAssumption DEF Mints
<1>2. fee \in Nat /\ fee <= amount
  BY <1>1, CeilShare, BasisPointsAssumption DEF CeilDiv
<1> HIDE DEF fee
<1>3. AtMost(fee, m.maximum_fee) \in Nat /\ AtMost(fee, m.maximum_fee) <= amount
  <2>1. AtMost(fee, m.maximum_fee) \in Nat /\ AtMost(fee, m.maximum_fee) <= fee
    BY <1>1, <1>2 DEF AtMost
  <2> QED
    BY <1>2, <2>1
<1> QED
  BY <1>3 DEF CalculateFee, fee

\* A mint never withholds more than the amount transferred (token.rs:162-177).
LEMMA TransferFeeBounded ==
  ASSUME NEW m \in Mints(Nat), NEW amount \in Nat
  PROVE  /\ get_transfer_fee(m, amount) \in Nat
         /\ get_transfer_fee(m, amount) <= amount
         /\ AmountReceived(m, amount) \in Nat
         /\ AmountReceived(m, amount) <= amount
  BY CalculateFeeBounded DEF get_transfer_fee, AmountReceived

\* The grossed-up amount of Token-2022 is a natural number.
LEMMA PreFeeAmountType ==
  ASSUME NEW m \in Mints(Nat), NEW amount \in Nat
  PROVE  PreFeeAmount(m, amount) \in Nat
<1> DEFINE bp == m.transfer_fee_basis_points
           raw == CeilDiv(amount * MAX_FEE_BASIS_POINTS, MAX_FEE_BASIS_POINTS - bp)
<1>1. bp \in Nat /\ bp <= MAX_FEE_BASIS_POINTS /\ m.maximum_fee \in Nat
  BY BasisPointsAssumption DEF Mints
<1>2. CASE bp = MAX_FEE_BASIS_POINTS
  BY <1>1, <1>2, BasisPointsAssumption DEF PreFeeAmount
<1>3. CASE bp # MAX_FEE_BASIS_POINTS
  <2> DEFINE rest == MAX_FEE_BASIS_POINTS - bp
             dividend == amount * MAX_FEE_BASIS_POINTS + rest - 1
  <2>1. rest \in Nat \ {0}
    BY <1>1, <1>3, BasisPointsAssumption
  <2>2. amount * MAX_FEE_BASIS_POINTS \in Nat
    BY BasisPointsAssumption
  <2>3. dividend \in Nat
    BY <2>1, <2>2
  <2> HIDE DEF dividend, rest
  <2>4. dividend \div rest \in Nat
    BY <2>1, <2>3, DivFloor
  <2>5. raw \in Nat
    BY <2>4 DEF CeilDiv, dividend, rest
  <2> QED
    BY <1>1, <2>5 DEF PreFeeAmount
<1> QED
  BY <1>2, <1>3

\* The fee that get_transfer_inverse_fee adds (token.rs:127-159) is a natural number.
LEMMA InverseFeeType ==
  ASSUME NEW m \in Mints(Nat), NEW amount \in Nat
  PROVE  get_transfer_inverse_fee(m, amount) \in Nat
<1>1. CalculateInverseFee(m, amount) \in Nat
  BY PreFeeAmountType, CalculateFeeBounded DEF CalculateInverseFee
<1>2. m.maximum_fee \in Nat
  BY DEF Mints
<1> QED
  BY <1>1, <1>2 DEF get_transfer_inverse_fee

\* The fields of a mint are numbers.
LEMMA MintTypes ==
  ASSUME NEW m \in Mints(Nat)
  PROVE  /\ m.transfer_fee_basis_points \in Nat
         /\ m.transfer_fee_basis_points <= MAX_FEE_BASIS_POINTS
         /\ m.maximum_fee \in Nat
         /\ m.program \in {"spl_token", "token_2022"}
         /\ MAX_FEE_BASIS_POINTS \in Nat \ {0}
  BY BasisPointsAssumption DEF Mints

\* The two cases in which a mint takes nothing are no exceptions from the formula.
LEMMA FeeFormula ==
  ASSUME NEW m \in Mints(Nat), NEW amount \in Nat
  PROVE  LET share == CeilDiv(amount * m.transfer_fee_basis_points, MAX_FEE_BASIS_POINTS)
         IN  share \in Nat /\ CalculateFee(m, amount) = AtMost(share, m.maximum_fee)
<1> DEFINE bp == m.transfer_fee_basis_points
           share == CeilDiv(amount * bp, MAX_FEE_BASIS_POINTS)
<1>1. amount * bp \in Nat
  BY MintTypes
<1>2. share \in Nat
  BY <1>1, CeilFloor, BasisPointsAssumption
<1>3. CASE bp = 0 \/ amount = 0
  <2>1. amount * bp = 0
    BY <1>3, MintTypes
  <2>2. share <= 0
    BY <2>1, CeilAtMost, BasisPointsAssumption
  <2>3. share = 0
    BY <1>2, <2>2
  <2> HIDE DEF share
  <2>4. AtMost(share, m.maximum_fee) = 0
    BY <2>3, MintTypes DEF AtMost
  <2> QED
    BY <1>2, <1>3, <2>4 DEF CalculateFee, share
<1>4. CASE ~(bp = 0 \/ amount = 0)
  BY <1>2, <1>4 DEF CalculateFee
<1> QED
  BY <1>3, <1>4

\* A larger transfer is charged no less, and what it is charged more is no more
\* than what it sends more.
LEMMA FeeGrows ==
  ASSUME NEW m \in Mints(Nat), NEW a \in Nat, NEW b \in Nat, a <= b
  PROVE  /\ CalculateFee(m, a) \in Nat
         /\ CalculateFee(m, b) \in Nat
         /\ CalculateFee(m, a) <= CalculateFee(m, b)
         /\ CalculateFee(m, b) <= CalculateFee(m, a) + (b - a)
<1> DEFINE x == CeilDiv(a * m.transfer_fee_basis_points, MAX_FEE_BASIS_POINTS)
           y == CeilDiv(b * m.transfer_fee_basis_points, MAX_FEE_BASIS_POINTS)
<1>1. x \in Nat /\ y \in Nat /\ x <= y /\ y <= x + (b - a)
  BY MintTypes, ShareGrows
<1>2. CalculateFee(m, a) = AtMost(x, m.maximum_fee) /\ CalculateFee(m, b) = AtMost(y, m.maximum_fee)
  BY FeeFormula
<1> HIDE DEF x, y
<1> QED
  BY <1>1, <1>2, MintTypes DEF AtMost

\* More arrives of a larger transfer.
LEMMA ReceivedGrows ==
  ASSUME NEW m \in Mints(Nat), NEW a \in Nat, NEW b \in Nat, a <= b
  PROVE  AmountReceived(m, a) <= AmountReceived(m, b)
  BY FeeGrows DEF AmountReceived, get_transfer_fee

\* Of two transfers no more arrives than of one: the rounding up and the maximum
\* count twice.
LEMMA ReceivedInParts ==
  ASSUME NEW m \in Mints(Nat), NEW a \in Nat, NEW b \in Nat
  PROVE  AmountReceived(m, a) + AmountReceived(m, b) <= AmountReceived(m, a + b)
<1> DEFINE bp == m.transfer_fee_basis_points
           x == CeilDiv(a * bp, MAX_FEE_BASIS_POINTS)
           y == CeilDiv(b * bp, MAX_FEE_BASIS_POINTS)
           z == CeilDiv((a + b) * bp, MAX_FEE_BASIS_POINTS)
<1>1. x \in Nat /\ y \in Nat /\ z \in Nat /\ z <= x + y
  BY MintTypes, ShareInParts
<1>2. /\ CalculateFee(m, a) = AtMost(x, m.maximum_fee)
      /\ CalculateFee(m, b) = AtMost(y, m.maximum_fee)
      /\ CalculateFee(m, a + b) = AtMost(z, m.maximum_fee)
  BY FeeFormula
<1> HIDE DEF x, y, z
<1>3. /\ CalculateFee(m, a) \in Nat
      /\ CalculateFee(m, b) \in Nat
      /\ CalculateFee(m, a + b) \in Nat
      /\ CalculateFee(m, a + b) <= CalculateFee(m, a) + CalculateFee(m, b)
  BY <1>1, <1>2, MintTypes DEF AtMost
<1> QED
  BY <1>3 DEF AmountReceived, get_transfer_fee

\* For a mint that takes all it can up to its maximum, the maximum is what has
\* to be added.
LEMMA WholeFee ==
  ASSUME NEW m \in Mints(Nat), m.transfer_fee_basis_points = MAX_FEE_BASIS_POINTS,
         NEW amount \in Nat
  PROVE  CalculateFee(m, amount) = AtMost(amount, m.maximum_fee)
<1> DEFINE share == CeilDiv(amount * MAX_FEE_BASIS_POINTS, MAX_FEE_BASIS_POINTS)
<1>1. MAX_FEE_BASIS_POINTS \in Nat \ {0} /\ amount * MAX_FEE_BASIS_POINTS \in Nat
  BY MintTypes
<1>2. (amount - 1) * MAX_FEE_BASIS_POINTS < amount * MAX_FEE_BASIS_POINTS
  BY <1>1
<1>3. share \in Nat
  BY <1>1, CeilFloor
<1>4. share <= amount
  BY <1>1, CeilAtMost
<1>5. share >= amount
  BY <1>1, <1>2, CeilAtLeast
<1>6. share = amount
  BY <1>3, <1>4, <1>5
<1> QED
  BY <1>6, FeeFormula

\* The grossed-up amount is the least that leaves the net amount, and the fee on
\* it is what was added, below the maximum and at it.
LEMMA PreFeeExact ==
  ASSUME NEW m \in Mints(Nat), m.transfer_fee_basis_points # MAX_FEE_BASIS_POINTS,
         NEW net \in Nat, net > 0
  PROVE  LET gross == PreFeeAmount(m, net)
         IN  /\ gross \in Nat
             /\ gross >= net
             /\ CalculateFee(m, gross) = gross - net
             /\ CalculateFee(m, gross - 1) >= gross - net
<1> DEFINE bp == m.transfer_fee_basis_points
           M == MAX_FEE_BASIS_POINTS
           max == m.maximum_fee
           raw == CeilDiv(net * M, M - bp)
           gross == PreFeeAmount(m, net)
<1>1. bp \in Nat /\ M \in Nat \ {0} /\ bp < M /\ bp <= M /\ max \in Nat
  BY MintTypes
<1>2. /\ raw \in Nat /\ raw >= net
      /\ CeilDiv(raw * bp, M) = raw - net
      /\ CeilDiv((raw - 1) * bp, M) >= raw - net
  BY <1>1, GrossUp
<1>3. raw - 1 \in Nat
  BY <1>2
<1>4. gross = IF bp = 0 THEN net ELSE IF raw - net >= max THEN net + max ELSE raw
  BY <1>1 DEF PreFeeAmount
<1> HIDE DEF raw, gross
<1>5. CASE bp = 0
  <2>1. gross = net /\ gross - 1 \in Nat
    BY <1>4, <1>5
  <2>2. CalculateFee(m, gross) = 0 /\ CalculateFee(m, gross - 1) = 0
    BY <1>5 DEF CalculateFee
  <2> QED
    BY <2>1, <2>2 DEF gross
<1>6. CASE bp # 0 /\ raw - net < max
  <2>1. gross = raw
    BY <1>1, <1>2, <1>4, <1>6
  <2>2. /\ CalculateFee(m, raw) = AtMost(raw - net, max)
        /\ CalculateFee(m, raw - 1) = AtMost(CeilDiv((raw - 1) * bp, M), max)
        /\ CeilDiv((raw - 1) * bp, M) \in Nat
    BY <1>2, <1>3, FeeFormula
  <2>3. CalculateFee(m, raw) = raw - net /\ CalculateFee(m, raw - 1) >= raw - net
    BY <1>1, <1>2, <1>6, <2>2 DEF AtMost
  <2> QED
    BY <1>2, <2>1, <2>3 DEF gross
<1>7. CASE bp # 0 /\ raw - net >= max
  <2>1. gross = net + max /\ gross <= raw
    BY <1>1, <1>2, <1>4, <1>7
  <2>2. gross - 1 \in Nat /\ gross \in Nat
    BY <1>1, <2>1
  <2>3. CeilDiv((gross - 1) * bp, M) \in Nat /\ CeilDiv((gross - 1) * bp, M) >= max
    <3> DEFINE less == gross - 1
               more == raw - 1
    <3>1. less \in Nat /\ more \in Nat /\ less <= more /\ more - less = raw - gross
      BY <1>2, <1>3, <2>1, <2>2
    <3>2. CeilDiv(more * bp, M) >= raw - net
      BY <1>2
    <3> HIDE DEF less, more, bp, M
    <3>3. /\ CeilDiv(less * bp, M) \in Nat
          /\ CeilDiv(more * bp, M) \in Nat
          /\ CeilDiv(more * bp, M) <= CeilDiv(less * bp, M) + (more - less)
      BY <1>1, <3>1, ShareGrows
    <3>4. CeilDiv(less * bp, M) >= max
      BY <1>1, <1>2, <2>1, <3>1, <3>2, <3>3
    <3> QED
      BY <3>3, <3>4 DEF less, bp, M
  <2>4. CalculateFee(m, gross - 1) = AtMost(CeilDiv((gross - 1) * bp, M), max)
    BY <2>2, FeeFormula
  <2>5. CalculateFee(m, gross - 1) = max
    BY <1>1, <2>3, <2>4 DEF AtMost
  <2>6. CalculateFee(m, gross) <= max
    BY <1>1, <2>2, FeeFormula, AtMostType
  <2>7. CalculateFee(m, gross) \in Nat /\ CalculateFee(m, gross) >= CalculateFee(m, gross - 1)
    <3> DEFINE less == gross - 1
    <3>1. less \in Nat /\ less <= gross
      BY <2>2
    <3> HIDE DEF less
    <3>2. CalculateFee(m, gross) \in Nat /\ CalculateFee(m, gross) >= CalculateFee(m, less)
      BY <2>2, <3>1, FeeGrows
    <3> QED
      BY <3>2 DEF less
  <2>8. CalculateFee(m, gross) = max
    BY <1>1, <2>5, <2>6, <2>7
  <2> QED
    BY <1>1, <2>1, <2>2, <2>5, <2>8 DEF gross
<1> QED
  BY <1>1, <1>2, <1>5, <1>6, <1>7

\* What the program adds to an amount that is to arrive, and the least amount of
\* which it does arrive.
LEMMA InverseFee ==
  ASSUME NEW m \in Mints(Nat), NEW net \in Nat, net > 0
  PROVE  /\ get_transfer_inverse_fee(m, net) \in Nat
         /\ AmountReceived(m, net + get_transfer_inverse_fee(m, net)) = net
         /\ AmountReceived(m, net + get_transfer_inverse_fee(m, net) - 1) < net
         /\ TransferInverseFeeOk(m, net)
<1> DEFINE fee == get_transfer_inverse_fee(m, net)
<1>1. CASE m.program = "spl_token"
  BY <1>1 DEF get_transfer_inverse_fee, AmountReceived, get_transfer_fee, TransferInverseFeeOk
<1>2. CASE m.program # "spl_token" /\ m.transfer_fee_basis_points = MAX_FEE_BASIS_POINTS
  <2>1. fee = m.maximum_fee /\ fee \in Nat
    BY <1>2, MintTypes DEF get_transfer_inverse_fee
  <2>2. net + fee \in Nat /\ net + fee - 1 \in Nat
    BY <2>1
  <2> HIDE DEF fee
  <2>3. /\ CalculateFee(m, net + fee) = AtMost(net + fee, fee)
        /\ CalculateFee(m, net + fee - 1) = AtMost(net + fee - 1, fee)
    BY <1>2, <2>1, <2>2, WholeFee
  <2>4. CalculateFee(m, net + fee) = fee /\ CalculateFee(m, net + fee - 1) = fee
    BY <2>1, <2>3 DEF AtMost
  <2>5. TransferInverseFeeOk(m, net)
    BY <1>2 DEF TransferInverseFeeOk
  <2> QED
    BY <1>2, <2>1, <2>2, <2>4, <2>5 DEF AmountReceived, get_transfer_fee, fee
<1>3. CASE m.program # "spl_token" /\ m.transfer_fee_basis_points # MAX_FEE_BASIS_POINTS
  <2> DEFINE gross == PreFeeAmount(m, net)
  <2>1. /\ gross \in Nat
        /\ gross >= net
        /\ CalculateFee(m, gross) = gross - net
        /\ CalculateFee(m, gross - 1) >= gross - net
    BY <1>3, PreFeeExact
  <2>2. fee = CalculateFee(m, gross) /\ fee = CalculateInverseFee(m, net)
    BY <1>3 DEF get_transfer_inverse_fee, CalculateInverseFee
  <2> HIDE DEF gross, fee
  <2>3. net + fee = gross
    BY <2>1, <2>2
  <2>4. CalculateFee(m, gross - 1) \in Nat
    <3>1. gross - 1 \in Nat
      BY <2>1
    <3> QED
      BY <3>1, CalculateFeeBounded
  <2>5. TransferInverseFeeOk(m, net)
    <3>1. CalculateFee(m, net + CalculateInverseFee(m, net)) = CalculateInverseFee(m, net)
      BY <2>2, <2>3
    <3>2. net # 0
      OBVIOUS
    <3> QED
      BY <3>1, <3>2 DEF TransferInverseFeeOk, InverseFeeMatches
  <2>6. fee \in Nat
    BY <2>1, <2>2
  <2>7. AmountReceived(m, gross) = net
    BY <1>3, <2>1 DEF AmountReceived, get_transfer_fee
  <2>8. AmountReceived(m, gross - 1) < net
    BY <1>3, <2>1, <2>4 DEF AmountReceived, get_transfer_fee
  <2> QED
    BY <2>3, <2>5, <2>6, <2>7, <2>8 DEF fee
<1> QED
  BY <1>1, <1>2, <1>3

\* What the handlers rely on when they gross an amount up: once the code's check
\* of the inverse fee has passed, exactly the net amount arrives, for every mint.
THEOREM InverseFeeExact ==
  ASSUME NEW m \in Mints(Nat), NEW amount \in Nat,
         TransferInverseFeeOk(m, amount)
  PROVE  AmountReceived(m, amount + get_transfer_inverse_fee(m, amount)) = amount
<1>1. m.maximum_fee \in Nat /\ m.program \in {"spl_token", "token_2022"}
  BY DEF Mints
<1>2. CASE amount > 0
  BY <1>2, InverseFee
<1>3. CASE m.program = "spl_token"
  BY <1>3 DEF get_transfer_inverse_fee, AmountReceived, get_transfer_fee
<1> QED
  BY <1>1, <1>2, <1>3 DEF TransferInverseFeeOk

(* ------------------------------- the curve ----------------------------- *)

\* What the config guarantees of the rates a swap is charged.
BoundedRates(rates) ==
  /\ rates \in FeeRates(Nat)
  /\ rates.trade_fee_rate + rates.creator_fee_rate < FEE_RATE_DENOMINATOR_VALUE
  /\ rates.protocol_fee_rate + rates.fund_fee_rate <= FEE_RATE_DENOMINATOR_VALUE

\* What the pool relies on: the vaults can pay what the result books, the fees
\* come out of what the curve does not see, and both sides stay accounted for.
Accounted(result, input_vault, output_vault, is_creator_fee_on_input) ==
  /\ result.input_amount \in Nat
  /\ result.output_amount \in Nat
  /\ result.trade_fee \in Nat
  /\ result.protocol_fee \in Nat
  /\ result.fund_fee \in Nat
  /\ result.protocol_fee + result.fund_fee <= result.trade_fee
  /\ result.creator_fee \in Nat
  /\ result.new_input_vault_amount \in Nat
  /\ result.new_output_vault_amount \in Nat
  /\ result.new_input_vault_amount >= input_vault
  /\ is_creator_fee_on_input =>
       /\ result.new_input_vault_amount
            <= input_vault + result.input_amount
                 - result.protocol_fee - result.fund_fee - result.creator_fee
       /\ result.new_output_vault_amount = output_vault - result.output_amount
  /\ ~is_creator_fee_on_input =>
       /\ result.new_input_vault_amount
            <= input_vault + result.input_amount - result.protocol_fee - result.fund_fee
       /\ result.new_output_vault_amount
            = output_vault - result.output_amount - result.creator_fee

\* What a market with bounded rates charges on its input is below the denominator.
LEMMA RatesType ==
  ASSUME NEW rates, BoundedRates(rates)
  PROVE  /\ rates.trade_fee_rate \in Nat
         /\ rates.creator_fee_rate \in Nat
         /\ rates.protocol_fee_rate \in Nat
         /\ rates.fund_fee_rate \in Nat
  BY DEF BoundedRates, FeeRates

\* Protocol and fund share the trade fee, the creator the rest of the total fee.
LEMMA SwapResultAccounted ==
  ASSUME NEW input \in Nat, NEW total_fee \in Nat, total_fee <= input,
         NEW swapped \in Nat, NEW creator_fee_out \in Nat, creator_fee_out <= swapped,
         NEW input_vault \in Nat, NEW output_vault \in Nat, swapped <= output_vault,
         NEW rates, BoundedRates(rates),
         NEW on_input \in BOOLEAN,
         SwapSplitDefined(rates, on_input),
         on_input => creator_fee_out = 0
  PROVE  Accounted(SwapResult(input, total_fee, swapped, creator_fee_out,
                              input_vault, output_vault, rates, on_input),
                   input_vault, output_vault, on_input)
<1> DEFINE creator_fee_in == CreatorShare(total_fee, rates, on_input)
           trade_fee == total_fee - creator_fee_in
           result == SwapResult(input, total_fee, swapped, creator_fee_out,
                                input_vault, output_vault, rates, on_input)
<1>1. creator_fee_in \in Nat /\ creator_fee_in <= total_fee
      /\ (~on_input => creator_fee_in = 0)
  <2>1. CASE ~on_input
    BY <2>1 DEF CreatorShare
  <2>2. CASE on_input
    <3> DEFINE rate == rates.creator_fee_rate
               whole == rates.trade_fee_rate + rates.creator_fee_rate
    <3>1. rate \in Nat /\ whole \in Nat \ {0} /\ 0 \in Nat /\ rate + 0 <= whole
      BY <2>2, RatesType DEF SwapSplitDefined, SplitDefined
    <3>2. creator_fee_in = (total_fee * rate) \div whole
      BY <2>2 DEF CreatorShare, split_creator_fee, floor_div
    <3> HIDE DEF rate, whole, creator_fee_in
    <3>3. total_fee * rate <= total_fee * whole
      BY <3>1
    <3>4. (total_fee * rate) \div whole <= total_fee
      BY <3>1, <3>3, DivAtMost
    <3> QED
      BY <2>2, <3>1, <3>2, <3>4, DivFloor
  <2> QED
    BY <2>1, <2>2
<1>2. trade_fee \in Nat
  BY <1>1
<1>3. /\ result.protocol_fee \in Nat
      /\ result.fund_fee \in Nat
      /\ result.protocol_fee + result.fund_fee <= trade_fee
  <2> DEFINE p == rates.protocol_fee_rate
             f == rates.fund_fee_rate
  <2>1. result.protocol_fee
          = (trade_fee * p) \div FEE_RATE_DENOMINATOR_VALUE
    BY DEF SwapResult, OutputLeft, protocol_fee, floor_div
  <2>2. result.fund_fee
          = (trade_fee * f) \div FEE_RATE_DENOMINATOR_VALUE
    BY DEF SwapResult, fund_fee, floor_div
  <2>3. p \in Nat /\ f \in Nat /\ p + f <= FEE_RATE_DENOMINATOR_VALUE
    BY RatesType DEF BoundedRates
  <2> HIDE DEF trade_fee, result, p, f
  <2> QED
    BY <1>2, <2>1, <2>2, <2>3, TwoShares, DenominatorAssumption
<1>4. /\ result.input_amount = input
      /\ result.trade_fee = trade_fee
      /\ result.output_amount = swapped - creator_fee_out
      /\ result.creator_fee = creator_fee_in + creator_fee_out
      /\ result.new_input_vault_amount = input_vault + (input - total_fee)
      /\ result.new_output_vault_amount = output_vault - swapped
  BY DEF SwapResult, OutputLeft
<1> HIDE DEF result, creator_fee_in
<1>5. /\ result.creator_fee \in Nat
      /\ result.output_amount \in Nat
      /\ result.new_input_vault_amount \in Nat
      /\ result.new_output_vault_amount \in Nat
      /\ result.new_input_vault_amount >= input_vault
  BY <1>1, <1>4
<1>6. on_input =>
        /\ result.new_input_vault_amount
             <= input_vault + result.input_amount
                  - result.protocol_fee - result.fund_fee - result.creator_fee
        /\ result.new_output_vault_amount = output_vault - result.output_amount
  BY <1>1, <1>2, <1>3, <1>4
<1>7. ~on_input =>
        /\ result.new_input_vault_amount
             <= input_vault + result.input_amount - result.protocol_fee - result.fund_fee
        /\ result.new_output_vault_amount
             = output_vault - result.output_amount - result.creator_fee
  BY <1>1, <1>2, <1>3, <1>4
<1>8. Accounted(result, input_vault, output_vault, on_input)
  BY <1>2, <1>3, <1>4, <1>5, <1>6, <1>7 DEF Accounted
<1> QED
  BY <1>8 DEF result

\* The rate taken out of the input is less than 1.
LEMMA InputRateBounded ==
  ASSUME NEW rates, BoundedRates(rates), NEW on_input \in BOOLEAN
  PROVE  /\ InputFeeRate(rates, on_input) \in Nat
         /\ InputFeeRate(rates, on_input) < FEE_RATE_DENOMINATOR_VALUE
  BY RatesType, DenominatorAssumption DEF InputFeeRate, BoundedRates

\* A ceiling of a share of an amount never exceeds the amount (fees.rs:7-16).
LEMMA CeilDivBounded ==
  ASSUME NEW amount \in Nat, NEW rate \in Nat, rate <= FEE_RATE_DENOMINATOR_VALUE
  PROVE  /\ ceil_div(amount, rate, FEE_RATE_DENOMINATOR_VALUE) \in Nat
         /\ ceil_div(amount, rate, FEE_RATE_DENOMINATOR_VALUE) <= amount
  BY CeilShare, DenominatorAssumption DEF ceil_div

\* An exact-input swap (calculator.rs:93-143) books its fees inside what it takes in.
LEMMA BaseInputAccounted ==
  ASSUME NEW input \in Nat, NEW input_vault \in Nat \ {0}, NEW output_vault \in Nat,
         NEW rates, BoundedRates(rates), NEW on_input \in BOOLEAN,
         SwapBaseInputDefined(rates, on_input)
  PROVE  Accounted(swap_base_input(input, input_vault, output_vault, rates, on_input),
                   input_vault, output_vault, on_input)
<1> DEFINE rate == InputFeeRate(rates, on_input)
           total_fee == trading_fee(input, rate)
           net == input - total_fee
           swapped == swap_base_input_without_fees(net, input_vault, output_vault)
           creator_fee_out == IF on_input THEN 0 ELSE creator_fee(swapped, rates.creator_fee_rate)
<1>1. total_fee \in Nat /\ total_fee <= input
  <2>1. rate \in Nat /\ rate <= FEE_RATE_DENOMINATOR_VALUE
    BY InputRateBounded, DenominatorAssumption
  <2> HIDE DEF rate
  <2> QED
    BY <2>1, CeilDivBounded DEF trading_fee
<1>2. swapped \in Nat /\ swapped <= output_vault
  <2>1. net \in Nat
    BY <1>1
  <2> HIDE DEF net
  <2>2. net * output_vault \in Nat /\ input_vault + net \in Nat \ {0}
    BY <2>1
  <2>3. net * output_vault <= output_vault * (input_vault + net)
    BY <2>1
  <2> QED
    BY <2>2, <2>3, DivAtMost, DivFloor DEF swap_base_input_without_fees
<1>3. creator_fee_out \in Nat /\ creator_fee_out <= swapped
      /\ (on_input => creator_fee_out = 0)
  <2> HIDE DEF swapped
  <2>1. rates.creator_fee_rate \in Nat
        /\ rates.creator_fee_rate <= FEE_RATE_DENOMINATOR_VALUE
    BY RatesType, DenominatorAssumption DEF BoundedRates
  <2>2. /\ creator_fee(swapped, rates.creator_fee_rate) \in Nat
        /\ creator_fee(swapped, rates.creator_fee_rate) <= swapped
    BY <1>2, <2>1, CeilDivBounded DEF creator_fee
  <2> QED
    BY <1>2, <2>2
<1>4. swap_base_input(input, input_vault, output_vault, rates, on_input)
        = SwapResult(input, total_fee, swapped, creator_fee_out,
                     input_vault, output_vault, rates, on_input)
  BY DEF swap_base_input
<1> HIDE DEF total_fee, swapped, creator_fee_out
<1> QED
  BY <1>1, <1>2, <1>3, <1>4, SwapResultAccounted DEF SwapBaseInputDefined

\* Grossing an amount up for a rate below 1 never makes it smaller.
LEMMA PreFeeGrows ==
  ASSUME NEW amount \in Nat, NEW rate \in Nat, rate < FEE_RATE_DENOMINATOR_VALUE
  PROVE  /\ calculate_pre_fee_amount(amount, rate) \in Nat
         /\ calculate_pre_fee_amount(amount, rate) >= amount
<1> DEFINE D == FEE_RATE_DENOMINATOR_VALUE
           rest == D - rate
           dividend == amount * D + rest - 1
<1>1. rest \in Nat \ {0} /\ rest <= D /\ D \in Nat
  BY DenominatorAssumption
<1>2. dividend \in Nat /\ dividend >= amount * rest
  BY <1>1
<1> HIDE DEF dividend, rest, D
<1>3. CASE dividend \div rest < amount
  <2>1. dividend \div rest \in Nat /\ dividend < (dividend \div rest + 1) * rest
    BY <1>1, <1>2, DivFloor
  <2>2. (dividend \div rest + 1) * rest <= amount * rest
    BY <1>1, <1>3, <2>1
  <2> QED
    BY <1>1, <1>2, <2>1, <2>2
<1>4. dividend \div rest \in Nat /\ dividend \div rest >= amount
  BY <1>1, <1>2, <1>3, DivFloor
<1> QED
  BY <1>4 DEF calculate_pre_fee_amount, ceil_div, dividend, rest, D

\* An exact-output swap (calculator.rs:145-201) books its fees inside what it takes in.
LEMMA BaseOutputAccounted ==
  ASSUME NEW output \in Nat, NEW input_vault \in Nat, NEW output_vault \in Nat,
         NEW rates, BoundedRates(rates), NEW on_input \in BOOLEAN,
         SwapBaseOutputDefined(output, output_vault, rates, on_input)
  PROVE  Accounted(swap_base_output(output, input_vault, output_vault, rates, on_input),
                   input_vault, output_vault, on_input)
<1> DEFINE actual == ActualOutputAmount(output, rates, on_input)
           swapped == swap_base_output_without_fees(actual, input_vault, output_vault)
           input == calculate_pre_fee_amount(swapped, InputFeeRate(rates, on_input))
           total_fee == input - swapped
<1>1. actual \in Nat /\ actual >= output /\ actual < output_vault
      /\ (on_input => actual = output)
  <2>1. rates.creator_fee_rate \in Nat
        /\ rates.creator_fee_rate < FEE_RATE_DENOMINATOR_VALUE
    BY RatesType, DenominatorAssumption DEF BoundedRates
  <2>2. actual \in Nat /\ actual >= output /\ (on_input => actual = output)
    BY <2>1, PreFeeGrows DEF ActualOutputAmount
  <2> QED
    BY <2>2 DEF SwapBaseOutputDefined
<1> HIDE DEF actual
<1>2. swapped \in Nat
  <2> DEFINE dividend == input_vault * actual
             divisor == output_vault - actual
  <2>1. dividend \in Nat /\ divisor \in Nat \ {0}
    BY <1>1
  <2> HIDE DEF dividend, divisor
  <2>2. dividend \div divisor \in Nat
    BY <2>1, DivFloor
  <2> QED
    BY <2>2 DEF swap_base_output_without_fees, checked_ceil_div, dividend, divisor
<1> HIDE DEF swapped
<1>3. input \in Nat /\ input >= swapped
  BY <1>2, InputRateBounded, PreFeeGrows
<1>4. swap_base_output(output, input_vault, output_vault, rates, on_input)
        = SwapResult(input, total_fee, actual, actual - output,
                     input_vault, output_vault, rates, on_input)
  BY DEF swap_base_output, actual, swapped
<1>5. total_fee \in Nat /\ total_fee <= input
  BY <1>2, <1>3
<1>6. actual - output \in Nat /\ actual - output <= actual
      /\ (on_input => actual - output = 0)
  BY <1>1
<1> HIDE DEF input, total_fee
<1> QED
  BY <1>1, <1>3, <1>4, <1>5, <1>6, SwapResultAccounted DEF SwapBaseOutputDefined

(* ----------------------- liquidity in and out -------------------------- *)

\* A deposit pays at least its proportion.
LEMMA CeilingCovers ==
  ASSUME NEW lp \in Nat, NEW supply \in Nat \ {0}, NEW amount \in Nat,
         lp_tokens_to_trading_tokens(lp, supply, amount, "Ceiling") # 0
  PROVE  /\ lp_tokens_to_trading_tokens(lp, supply, amount, "Ceiling") \in Nat
         /\ lp_tokens_to_trading_tokens(lp, supply, amount, "Ceiling") * supply >= lp * amount
<1> DEFINE product == lp * amount
           floor == product \div supply
<1>1. product \in Nat
  OBVIOUS
<1>2. lp_tokens_to_trading_tokens(lp, supply, amount, "Ceiling")
        = IF product % supply > 0 /\ floor > 0 THEN floor + 1 ELSE floor
  BY DEF lp_tokens_to_trading_tokens
<1> HIDE DEF product
<1>3. floor \in Nat /\ product < (floor + 1) * supply
      /\ product = (floor * supply) + (product % supply) /\ product % supply \in Nat
  BY <1>1, DivFloor
<1> HIDE DEF floor
<1>4. CASE product % supply > 0 /\ floor > 0
  BY <1>1, <1>2, <1>3, <1>4 DEF product
<1>5. CASE ~(product % supply > 0 /\ floor > 0)
  <2>1. product % supply = 0
    BY <1>2, <1>3, <1>5
  <2> QED
    BY <1>1, <1>2, <1>3, <1>5, <2>1 DEF product
<1> QED
  BY <1>4, <1>5

\* A withdrawal takes at most its proportion, which leaves something behind
\* unless it is of the whole supply.
LEMMA FloorCovered ==
  ASSUME NEW lp \in Nat, NEW supply \in Nat \ {0}, NEW amount \in Nat, lp <= supply
  PROVE  /\ lp_tokens_to_trading_tokens(lp, supply, amount, "Floor") \in Nat
         /\ lp_tokens_to_trading_tokens(lp, supply, amount, "Floor") * supply <= lp * amount
         /\ lp_tokens_to_trading_tokens(lp, supply, amount, "Floor") <= amount
<1> DEFINE product == lp * amount
<1>1. lp_tokens_to_trading_tokens(lp, supply, amount, "Floor") = product \div supply
  BY DEF lp_tokens_to_trading_tokens
<1>2. product \in Nat /\ product <= amount * supply
  OBVIOUS
<1> HIDE DEF product
<1>3. product \div supply \in Nat /\ (product \div supply) * supply <= product
  BY <1>2, DivFloor
<1>4. product \div supply <= amount
  BY <1>2, DivAtMost
<1> QED
  BY <1>1, <1>3, <1>4 DEF product

(* -------------------------- the steps of a quote ----------------------- *)

\* What the quotes need of a market.
Tradable(m) ==
  /\ m \in Market(Nat, Mints(Nat))
  /\ m.input_vault > 0
  /\ BoundedRates(m.rates)

\* The three parts of an exact-input quote between the two transfer fees.
Net(m, a) == a - trading_fee(a, InputFeeRate(m.rates, m.is_creator_fee_on_input))

Swapped(m, a) == swap_base_input_without_fees(a, m.input_vault, m.output_vault)

Out(m, a) ==
  IF m.is_creator_fee_on_input THEN a ELSE a - creator_fee(a, m.rates.creator_fee_rate)

\* The fields of a market.
LEMMA MarketTypes ==
  ASSUME NEW m, Tradable(m)
  PROVE  /\ m.input_vault \in Nat \ {0}
         /\ m.output_vault \in Nat
         /\ m.is_creator_fee_on_input \in BOOLEAN
         /\ m.input_mint \in Mints(Nat)
         /\ m.output_mint \in Mints(Nat)
         /\ BoundedRates(m.rates)
         /\ InputFeeRate(m.rates, m.is_creator_fee_on_input) \in Nat
         /\ InputFeeRate(m.rates, m.is_creator_fee_on_input) < FEE_RATE_DENOMINATOR_VALUE
         /\ m.rates.creator_fee_rate \in Nat
         /\ m.rates.creator_fee_rate < FEE_RATE_DENOMINATOR_VALUE
         /\ FEE_RATE_DENOMINATOR_VALUE \in Nat \ {0}
<1>1. /\ m.input_vault \in Nat \ {0}
      /\ m.output_vault \in Nat
      /\ m.is_creator_fee_on_input \in BOOLEAN
      /\ m.input_mint \in Mints(Nat)
      /\ m.output_mint \in Mints(Nat)
      /\ BoundedRates(m.rates)
  BY DEF Tradable, Market
<1>2. /\ m.rates.creator_fee_rate \in Nat
      /\ m.rates.creator_fee_rate < FEE_RATE_DENOMINATOR_VALUE
  BY <1>1, RatesType, DenominatorAssumption DEF BoundedRates
<1> QED
  BY <1>1, <1>2, InputRateBounded, DenominatorAssumption

\* What is left after the fees on the input, of more and of two parts.
LEMMA NetGrows ==
  ASSUME NEW m, Tradable(m), NEW a \in Nat, NEW b \in Nat, a <= b
  PROVE  /\ Net(m, a) \in Nat
         /\ Net(m, a) <= a
         /\ Net(m, a) <= Net(m, b)
<1> DEFINE rate == InputFeeRate(m.rates, m.is_creator_fee_on_input)
           whole == FEE_RATE_DENOMINATOR_VALUE
           x == CeilDiv(a * rate, whole)
           y == CeilDiv(b * rate, whole)
<1>1. rate \in Nat /\ whole \in Nat \ {0} /\ rate <= whole
  BY MarketTypes
<1>2. Net(m, a) = a - x /\ Net(m, b) = b - y
  BY DEF Net, trading_fee, ceil_div, CeilDiv
<1> HIDE DEF rate, whole
<1>3. x \in Nat /\ y \in Nat /\ y <= x + (b - a)
  BY <1>1, ShareGrows
<1>4. x <= a
  BY <1>1, CeilShare DEF CeilDiv
<1> HIDE DEF x, y
<1> QED
  BY <1>2, <1>3, <1>4

\* The fees on the input of two parts are no less than those of their sum.
LEMMA NetInParts ==
  ASSUME NEW m, Tradable(m), NEW a \in Nat, NEW b \in Nat
  PROVE  Net(m, a) + Net(m, b) <= Net(m, a + b)
<1> DEFINE rate == InputFeeRate(m.rates, m.is_creator_fee_on_input)
           whole == FEE_RATE_DENOMINATOR_VALUE
           x == CeilDiv(a * rate, whole)
           y == CeilDiv(b * rate, whole)
           sum == a + b
           z == CeilDiv(sum * rate, whole)
<1>1. rate \in Nat /\ whole \in Nat \ {0}
  BY MarketTypes
<1>2. \A c : Net(m, c) = c - CeilDiv(c * rate, whole)
  BY DEF Net, trading_fee, ceil_div, CeilDiv
<1> HIDE DEF rate, whole
<1>3. x \in Nat /\ y \in Nat /\ z \in Nat /\ z <= x + y
  BY <1>1, ShareInParts
<1>4. sum \in Nat /\ sum = a + b
  OBVIOUS
<1> HIDE DEF sum
<1>5. Net(m, a) = a - x /\ Net(m, b) = b - y /\ Net(m, sum) = sum - z
  BY <1>2
<1> HIDE DEF x, y, z
<1> QED
  BY <1>3, <1>4, <1>5

\* What is left after the fee on the output, of more and of two parts.
LEMMA OutGrows ==
  ASSUME NEW m, Tradable(m), NEW a \in Nat, NEW b \in Nat, a <= b
  PROVE  /\ Out(m, a) \in Nat
         /\ Out(m, a) <= a
         /\ Out(m, a) <= Out(m, b)
<1> DEFINE rate == m.rates.creator_fee_rate
           whole == FEE_RATE_DENOMINATOR_VALUE
           x == CeilDiv(a * rate, whole)
           y == CeilDiv(b * rate, whole)
<1>1. rate \in Nat /\ whole \in Nat \ {0} /\ rate <= whole
      /\ m.is_creator_fee_on_input \in BOOLEAN
  BY MarketTypes
<1>2. /\ Out(m, a) = IF m.is_creator_fee_on_input THEN a ELSE a - x
      /\ Out(m, b) = IF m.is_creator_fee_on_input THEN b ELSE b - y
  BY DEF Out, creator_fee, ceil_div, CeilDiv
<1> HIDE DEF rate, whole
<1>3. x \in Nat /\ y \in Nat /\ y <= x + (b - a)
  BY <1>1, ShareGrows
<1>4. x <= a
  BY <1>1, CeilShare DEF CeilDiv
<1> HIDE DEF x, y
<1> QED
  BY <1>1, <1>2, <1>3, <1>4

\* Nor does the fee on the output leave more of two parts than of their sum.
LEMMA OutInParts ==
  ASSUME NEW m, Tradable(m), NEW a \in Nat, NEW b \in Nat
  PROVE  Out(m, a) + Out(m, b) <= Out(m, a + b)
<1> DEFINE rate == m.rates.creator_fee_rate
           whole == FEE_RATE_DENOMINATOR_VALUE
           x == CeilDiv(a * rate, whole)
           y == CeilDiv(b * rate, whole)
           sum == a + b
           z == CeilDiv(sum * rate, whole)
<1>1. rate \in Nat /\ whole \in Nat \ {0} /\ m.is_creator_fee_on_input \in BOOLEAN
  BY MarketTypes
<1>2. \A c : Out(m, c) = IF m.is_creator_fee_on_input THEN c ELSE c - CeilDiv(c * rate, whole)
  BY DEF Out, creator_fee, ceil_div, CeilDiv
<1> HIDE DEF rate, whole
<1>3. x \in Nat /\ y \in Nat /\ z \in Nat /\ z <= x + y
  BY <1>1, ShareInParts
<1>4. sum \in Nat /\ sum = a + b
  OBVIOUS
<1> HIDE DEF sum
<1>5. /\ Out(m, a) = IF m.is_creator_fee_on_input THEN a ELSE a - x
      /\ Out(m, b) = IF m.is_creator_fee_on_input THEN b ELSE b - y
      /\ Out(m, sum) = IF m.is_creator_fee_on_input THEN sum ELSE sum - z
  BY <1>2
<1> HIDE DEF x, y, z
<1> QED
  BY <1>1, <1>3, <1>4, <1>5

(* ------------------------------- the curve ----------------------------- *)

\* What the curve gives is the most that keeps the product.
LEMMA CurveGives ==
  ASSUME NEW X \in Nat \ {0}, NEW Y \in Nat, NEW a \in Nat
  PROVE  LET swapped == swap_base_input_without_fees(a, X, Y)
         IN  /\ swapped \in Nat
             /\ swapped <= Y
             /\ swapped * (X + a) <= a * Y
             /\ a * Y < (swapped + 1) * (X + a)
<1> DEFINE product == a * Y
           sum == X + a
           swapped == product \div sum
<1>1. product \in Nat /\ sum \in Nat \ {0} /\ product <= Y * sum
  OBVIOUS
<1>2. swap_base_input_without_fees(a, X, Y) = swapped
  BY DEF swap_base_input_without_fees
<1> HIDE DEF product, sum
<1>3. swapped \in Nat /\ swapped * sum <= product /\ product < (swapped + 1) * sum
  BY <1>1, DivFloor
<1>4. swapped <= Y
  BY <1>1, DivAtMost
<1> HIDE DEF swapped
<1> QED
  BY <1>2, <1>3, <1>4 DEF product, sum

\* No rounding of the curve gives anything away.
LEMMA CurveKeepsProduct ==
  ASSUME NEW X \in Nat \ {0}, NEW Y \in Nat, NEW a \in Nat
  PROVE  (X + a) * (Y - swap_base_input_without_fees(a, X, Y)) >= X * Y
<1> DEFINE swapped == swap_base_input_without_fees(a, X, Y)
<1>1. swapped \in Nat /\ swapped * (X + a) <= a * Y
  BY CurveGives
<1> HIDE DEF swapped
<1>2. (X + a) * (Y - swapped) = X * Y + a * Y - swapped * (X + a)
  BY <1>1
<1>3. X * Y \in Nat /\ a * Y \in Nat /\ swapped * (X + a) \in Nat
  BY <1>1
<1>4. (X + a) * (Y - swapped) >= X * Y
  BY <1>1, <1>2, <1>3
<1> QED
  BY <1>4 DEF swapped

\* The curve gives `out` or more exactly for what pays for it.
LEMMA CurveInverse ==
  ASSUME NEW X \in Nat \ {0}, NEW Y \in Nat, NEW a \in Nat, NEW out \in Nat
  PROVE  swap_base_input_without_fees(a, X, Y) >= out <=> a * (Y - out) >= X * out
<1> DEFINE swapped == swap_base_input_without_fees(a, X, Y)
           sum == X + a
           product == a * Y
<1>1. swapped \in Nat /\ swapped * sum <= product /\ product < (swapped + 1) * sum
  BY CurveGives
<1>2. product \in Nat /\ sum \in Nat \ {0}
  OBVIOUS
<1>3. a * (Y - out) >= X * out <=> product >= out * sum
  <2>1. a * (Y - out) = a * Y - a * out /\ out * sum = X * out + a * out
    OBVIOUS
  <2>2. a * Y \in Nat /\ a * out \in Nat /\ X * out \in Nat
    OBVIOUS
  <2> QED
    BY <2>1, <2>2
<1> HIDE DEF swapped, sum, product
<1>4. CASE swapped >= out
  <2>1. out * sum <= swapped * sum
    BY <1>1, <1>2, <1>4
  <2> QED
    BY <1>1, <1>2, <1>3, <1>4, <2>1 DEF swapped
<1>5. CASE swapped < out
  <2>1. (swapped + 1) * sum <= out * sum
    BY <1>1, <1>2, <1>5
  <2> QED
    BY <1>1, <1>2, <1>3, <1>5, <2>1 DEF swapped
<1> QED
  BY <1>1, <1>4, <1>5

\* The curve never gives all of the output side.
LEMMA CurveNeverDrains ==
  ASSUME NEW X \in Nat \ {0}, NEW Y \in Nat \ {0}, NEW a \in Nat
  PROVE  swap_base_input_without_fees(a, X, Y) < Y
<1> DEFINE swapped == swap_base_input_without_fees(a, X, Y)
<1>1. swapped \in Nat /\ swapped <= Y /\ swapped * (X + a) <= a * Y
  BY CurveGives
<1> HIDE DEF swapped
<1>2. swapped # Y
  <2>1. Y * (X + a) = Y * X + a * Y /\ Y * X \in Nat /\ Y * X > 0 /\ a * Y \in Nat
    OBVIOUS
  <2> QED
    BY <1>1, <2>1
<1>3. swapped < Y
  BY <1>1, <1>2
<1> QED
  BY <1>3 DEF swapped

\* What the curve gave for n brings no more than a of the other side back, if at
\* most a went in and n of that reached the curve.
LEMMA CurveRoundTrip ==
  ASSUME NEW X \in Nat \ {0}, NEW Y \in Nat, NEW n \in Nat, NEW a \in Nat, n <= a,
         NEW after_in \in Nat, after_in <= X + a,
         NEW after_out \in Nat \ {0},
         after_out = Y - swap_base_input_without_fees(n, X, Y),
         NEW b \in Nat, b <= swap_base_input_without_fees(n, X, Y)
  PROVE  swap_base_input_without_fees(b, after_out, after_in) <= a
<1> DEFINE s == swap_base_input_without_fees(n, X, Y)
           r == swap_base_input_without_fees(b, after_out, after_in)
<1>1. s \in Nat /\ s * (X + n) <= n * Y
  BY CurveGives
<1>2. r \in Nat /\ r * (after_out + b) <= b * after_in
  BY CurveGives
<1>3. b <= s /\ after_out = Y - s
  OBVIOUS
<1> HIDE DEF s, r
<1>4. s * X <= n * after_out
  <2>1. s * (X + n) = s * X + n * s /\ n * Y = n * after_out + n * s
    BY <1>1, <1>3
  <2>2. s * X \in Nat /\ n * s \in Nat /\ n * after_out \in Nat
    BY <1>1
  <2> QED
    BY <1>1, <2>1, <2>2
<1>5. b * X <= a * after_out
  <2>1. b * X <= s * X /\ n * after_out <= a * after_out
    BY <1>1, <1>3
  <2>2. b * X \in Nat /\ s * X \in Nat /\ n * after_out \in Nat /\ a * after_out \in Nat
    BY <1>1
  <2> QED
    BY <1>4, <2>1, <2>2
<1>6. b * after_in <= b * X + a * b
  <2>1. b * after_in <= b * (X + a)
    OBVIOUS
  <2>2. b * (X + a) = b * X + a * b
    OBVIOUS
  <2> QED
    BY <2>1, <2>2
<1>7. ASSUME r >= a + 1
      PROVE  FALSE
  <2>1. (a + 1) * (after_out + b) <= r * (after_out + b)
    BY <1>2, <1>7
  <2>2. (a + 1) * (after_out + b) = a * after_out + a * b + after_out + b
    OBVIOUS
  <2>3. /\ a * after_out \in Nat /\ a * b \in Nat /\ b * X \in Nat
        /\ b * after_in \in Nat /\ r * (after_out + b) \in Nat
    BY <1>2
  <2> QED
    BY <1>2, <1>5, <1>6, <2>1, <2>2, <2>3
<1>8. r <= a
  BY <1>2, <1>7
<1> QED
  BY <1>8 DEF r

\* Twice the input side brings half of the output side.
LEMMA CurveHalves ==
  ASSUME NEW X \in Nat \ {0}, NEW Y \in Nat, NEW a \in Nat, X <= a
  PROVE  swap_base_input_without_fees(a, X, Y) >= Y \div 2
<1> DEFINE half == Y \div 2
           rest == Y - half
<1>1. half \in Nat /\ rest \in Nat /\ half <= rest
  OBVIOUS
<1> HIDE DEF rest
<1>2. a * rest >= X * half
  <2> HIDE DEF half
  <2>1. a * rest >= X * rest /\ X * rest >= X * half
    BY <1>1
  <2>2. a * rest \in Nat /\ X * rest \in Nat /\ X * half \in Nat
    BY <1>1
  <2> QED
    BY <2>1, <2>2
<1>3. a * (Y - half) >= X * half
  BY <1>2 DEF rest
<1> HIDE DEF half
<1>4. swap_base_input_without_fees(a, X, Y) >= half
  BY <1>1, <1>3, CurveInverse
<1> QED
  BY <1>4 DEF half

(* ------------------------------ exact input ---------------------------- *)

\* The curve gives more for more.
LEMMA CurveGrows ==
  ASSUME NEW X \in Nat \ {0}, NEW Y \in Nat, NEW a \in Nat, NEW b \in Nat, a <= b
  PROVE  swap_base_input_without_fees(a, X, Y) <= swap_base_input_without_fees(b, X, Y)
<1> DEFINE out == swap_base_input_without_fees(a, X, Y)
<1>1. out \in Nat /\ out <= Y
  BY CurveGives
<1>2. a * (Y - out) >= X * out
  BY <1>1, CurveInverse
<1> HIDE DEF out
<1>3. a * (Y - out) <= b * (Y - out)
  <2> DEFINE rest == Y - out
  <2>1. rest \in Nat
    BY <1>1
  <2> HIDE DEF rest
  <2>2. a * rest <= b * rest
    BY <2>1
  <2> QED
    BY <2>2 DEF rest
<1>4. b * (Y - out) >= X * out
  <2>1. a * (Y - out) \in Int /\ b * (Y - out) \in Int /\ X * out \in Int
    BY <1>1
  <2> QED
    BY <1>2, <1>3, <2>1
<1>5. swap_base_input_without_fees(b, X, Y) >= out
  BY <1>1, <1>4, CurveInverse
<1>6. swap_base_input_without_fees(b, X, Y) \in Nat
  BY CurveGives
<1> QED
  BY <1>1, <1>5, <1>6 DEF out

\* The curve gives no more for two parts, wherever the first leaves the input side.
LEMMA CurveInParts ==
  ASSUME NEW X \in Nat \ {0}, NEW Y \in Nat, NEW a \in Nat, NEW b \in Nat,
         NEW X1 \in Nat, X1 >= X + a
  PROVE  LET first == swap_base_input_without_fees(a, X, Y)
         IN  first + swap_base_input_without_fees(b, X1, Y - first)
               <= swap_base_input_without_fees(a + b, X, Y)
<1> DEFINE first == swap_base_input_without_fees(a, X, Y)
           rest == Y - first
           second == swap_base_input_without_fees(b, X1, rest)
           sum == a + b
           out == first + second
<1>1. first \in Nat /\ first <= Y
  BY CurveGives
<1>0. a * (Y - first) >= X * first
  BY <1>1, CurveInverse
<1> HIDE DEF first
<1>2. rest \in Nat /\ X1 \in Nat \ {0}
  BY <1>1
<1> HIDE DEF rest
<1>3. second \in Nat /\ second <= rest
  BY <1>2, CurveGives
<1>4. b * (rest - second) >= X1 * second
  BY <1>2, <1>3, CurveInverse
<1> HIDE DEF second
<1>5. X1 * second >= X * second + a * second
  <2>1. X1 * second >= (X + a) * second
    BY <1>2, <1>3
  <2> QED
    BY <1>3, <2>1
<1>6. sum * (Y - out) = a * rest - a * second + b * (rest - second)
  BY <1>1, <1>2, <1>3 DEF rest
<1>7. X * out = X * first + X * second
  BY <1>1, <1>3
<1>8. /\ a * rest \in Int /\ a * second \in Int /\ b * (rest - second) \in Int
      /\ X1 * second \in Int /\ X * first \in Int /\ X * second \in Int
      /\ a * rest >= X * first
  BY <1>0, <1>1, <1>2, <1>3 DEF rest
<1>9. sum \in Nat /\ out \in Nat
  BY <1>1, <1>3
<1> HIDE DEF sum, out
<1>10. sum * (Y - out) >= X * out
  BY <1>4, <1>5, <1>6, <1>7, <1>8
<1>11. swap_base_input_without_fees(sum, X, Y) >= out
  BY <1>9, <1>10, CurveInverse
<1> QED
  BY <1>11 DEF sum, out, second, rest, first

(* ------------------------------ the handlers --------------------------- *)

\* What an exact-input quote consists of.
LEMMA BaseInputParts ==
  ASSUME NEW m, Tradable(m), NEW a \in Nat
  PROVE  LET net    == Net(m, ActualAmountIn(m, a))
             result == BaseInputResult(m, a)
         IN  /\ ActualAmountIn(m, a) \in Nat
             /\ net \in Nat
             /\ Swapped(m, net) \in Nat
             /\ Swapped(m, net) <= m.output_vault
             /\ Out(m, Swapped(m, net)) \in Nat
             /\ Out(m, Swapped(m, net)) <= Swapped(m, net)
             /\ result.output_amount = Out(m, Swapped(m, net))
             /\ result.new_input_vault_amount = m.input_vault + net
             /\ result.new_output_vault_amount = m.output_vault - Swapped(m, net)
             /\ BaseInputReceived(m, a) \in Nat
             /\ BaseInputReceived(m, a) = AmountReceived(m.output_mint, Out(m, Swapped(m, net)))
<1> DEFINE actual == ActualAmountIn(m, a)
           net == Net(m, actual)
           swapped == Swapped(m, net)
           result == BaseInputResult(m, a)
<1>1. actual \in Nat
  BY MarketTypes, TransferFeeBounded DEF ActualAmountIn
<1> HIDE DEF actual
<1>2. net \in Nat
  BY <1>1, NetGrows
<1>3. /\ result.new_input_vault_amount = m.input_vault + net
      /\ result.new_output_vault_amount = m.output_vault - swapped
      /\ result.output_amount
           = swapped - (IF m.is_creator_fee_on_input
                        THEN 0
                        ELSE creator_fee(swapped, m.rates.creator_fee_rate))
  BY DEF BaseInputResult, swap_base_input, SwapResult, OutputLeft, net, Net, swapped, Swapped,
         actual
<1> HIDE DEF net, result
<1>4. swapped \in Nat /\ swapped <= m.output_vault
  BY <1>2, MarketTypes, CurveGives DEF Swapped
<1> HIDE DEF swapped
<1>5. Out(m, swapped) \in Nat /\ Out(m, swapped) <= swapped
  BY <1>4, OutGrows
<1>6. result.output_amount = Out(m, swapped)
  BY <1>3, <1>4, MarketTypes DEF Out
<1>7. BaseInputReceived(m, a) = AmountReceived(m.output_mint, Out(m, swapped))
  BY <1>6 DEF BaseInputReceived, result
<1>8. BaseInputReceived(m, a) \in Nat
  BY <1>5, <1>7, MarketTypes, TransferFeeBounded
<1> QED
  BY <1>1, <1>2, <1>3, <1>4, <1>5, <1>6, <1>7, <1>8 DEF swapped, net, actual, result

\* The last check of an exact-input swap never fails.
LEMMA BaseInputKeeps ==
  ASSUME NEW m, Tradable(m), NEW a \in Nat
  PROVE  ConstantKept(m, BaseInputResult(m, a))
<1> DEFINE net == Net(m, ActualAmountIn(m, a))
<1>1. /\ net \in Nat
      /\ BaseInputResult(m, a).new_input_vault_amount = m.input_vault + net
      /\ BaseInputResult(m, a).new_output_vault_amount = m.output_vault - Swapped(m, net)
  BY BaseInputParts
<1> HIDE DEF net
<1>2. (m.input_vault + net) * (m.output_vault - Swapped(m, net)) >= m.input_vault * m.output_vault
  BY <1>1, MarketTypes, CurveKeepsProduct DEF Swapped
<1> QED
  BY <1>1, <1>2 DEF ConstantKept

\* Nothing but an amount too small stops an exact-input swap of a market whose
\* fee split is defined.
LEMMA BaseInputAccepted ==
  ASSUME NEW m, Tradable(m), NEW a \in Nat
  PROVE  BaseInputOk(m, a) <=> /\ ActualAmountIn(m, a) > 0
                               /\ SwapBaseInputDefined(m.rates, m.is_creator_fee_on_input)
                               /\ BaseInputReceived(m, a) > 0
  BY BaseInputKeeps DEF BaseInputOk

\* More in, more out, through all the roundings between the two transfers.
LEMMA BaseInputGrows ==
  ASSUME NEW m, Tradable(m), NEW a \in Nat, NEW b \in Nat,
         ActualAmountIn(m, a) <= ActualAmountIn(m, b)
  PROVE  /\ Net(m, ActualAmountIn(m, a)) <= Net(m, ActualAmountIn(m, b))
         /\ BaseInputReceived(m, a) <= BaseInputReceived(m, b)
<1> DEFINE net(x) == Net(m, ActualAmountIn(m, x))
           swapped(x) == Swapped(m, net(x))
           out(x) == Out(m, swapped(x))
<1>1. \A x \in {a, b} :
        /\ ActualAmountIn(m, x) \in Nat
        /\ net(x) \in Nat
        /\ swapped(x) \in Nat
        /\ out(x) \in Nat
        /\ BaseInputReceived(m, x) = AmountReceived(m.output_mint, out(x))
  BY BaseInputParts
<1>2. net(a) <= net(b)
  BY <1>1, NetGrows
<1> HIDE DEF net
<1>3. swapped(a) <= swapped(b)
  BY <1>1, <1>2, MarketTypes, CurveGrows DEF Swapped
<1> HIDE DEF swapped
<1>4. out(a) <= out(b)
  BY <1>1, <1>3, OutGrows
<1> HIDE DEF out
<1>5. AmountReceived(m.output_mint, out(a)) <= AmountReceived(m.output_mint, out(b))
  BY <1>1, <1>4, MarketTypes, ReceivedGrows
<1> QED
  BY <1>1, <1>2, <1>5 DEF net

\* What arrives covers the input side when the fees on the input are paid.
LEMMA NetCovers ==
  ASSUME NEW m, Tradable(m), NEW a \in Nat, NEW n \in Nat,
         a * (FEE_RATE_DENOMINATOR_VALUE - InputFeeRate(m.rates, m.is_creator_fee_on_input))
           >= n * FEE_RATE_DENOMINATOR_VALUE
  PROVE  Net(m, a) >= n
<1> DEFINE D == FEE_RATE_DENOMINATOR_VALUE
           rate == InputFeeRate(m.rates, m.is_creator_fee_on_input)
           share == a * rate
<1>1. D \in Nat \ {0} /\ rate \in Nat /\ rate < D
  BY MarketTypes
<1>2. a * (D - rate) >= n * D
  OBVIOUS
<1>3. Net(m, a) = a - CeilDiv(share, D)
  BY DEF Net, trading_fee, ceil_div, CeilDiv
<1> HIDE DEF D, rate
<1>4. share \in Nat /\ share <= (a - n) * D
  <2>1. a * (D - rate) = a * D - a * rate /\ (a - n) * D = a * D - n * D
    BY <1>1
  <2>2. a * D \in Nat /\ a * rate \in Nat /\ n * D \in Nat
    BY <1>1
  <2> QED
    BY <1>2, <2>1, <2>2
<1> HIDE DEF share
<1>5. a - n \in Int
  OBVIOUS
<1>6. CeilDiv(share, D) <= a - n
  BY <1>1, <1>4, <1>5, CeilAtMost
<1>7. CeilDiv(share, D) \in Nat
  BY <1>1, <1>4, CeilFloor
<1> QED
  BY <1>3, <1>6, <1>7

\* Who doubles the input side, the fees on it paid, gets half of the output side
\* less the fees on that.
LEMMA DoublingBringsHalf ==
  ASSUME NEW m, Tradable(m), NEW a \in Nat,
         ActualAmountIn(m, a)
             * (FEE_RATE_DENOMINATOR_VALUE - InputFeeRate(m.rates, m.is_creator_fee_on_input))
           >= m.input_vault * FEE_RATE_DENOMINATOR_VALUE
  PROVE  /\ ActualAmountIn(m, a) > 0
         /\ BaseInputReceived(m, a)
              >= AmountReceived(m.output_mint, Out(m, m.output_vault \div 2))
<1> DEFINE sent    == ActualAmountIn(m, a)
           net     == Net(m, sent)
           swapped == Swapped(m, net)
           half    == m.output_vault \div 2
<1>1. /\ m.input_vault \in Nat \ {0} /\ m.output_vault \in Nat
      /\ m.output_mint \in Mints(Nat)
  BY MarketTypes
<1>2. /\ sent \in Nat
      /\ net \in Nat
      /\ swapped \in Nat
      /\ Out(m, swapped) \in Nat
      /\ BaseInputReceived(m, a) = AmountReceived(m.output_mint, Out(m, swapped))
  BY BaseInputParts
<1>3. sent > 0 /\ net >= m.input_vault
  <2>1. net >= m.input_vault
    <3> HIDE DEF sent
    <3> QED
      BY <1>1, <1>2, NetCovers DEF sent
  <2>2. net <= sent
    <3> HIDE DEF sent
    <3> QED
      BY <1>2, NetGrows
  <2> HIDE DEF net, sent
  <2> QED
    BY <1>1, <1>2, <2>1, <2>2
<1> HIDE DEF sent, net
<1>4. half \in Nat /\ swapped >= half
  BY <1>1, <1>2, <1>3, CurveHalves DEF Swapped
<1> HIDE DEF swapped, half
<1>5. Out(m, half) \in Nat /\ Out(m, half) <= Out(m, swapped)
  BY <1>2, <1>4, OutGrows
<1>6. AmountReceived(m.output_mint, Out(m, half)) <= AmountReceived(m.output_mint, Out(m, swapped))
  BY <1>1, <1>2, <1>5, ReceivedGrows
<1> QED
  BY <1>2, <1>3, <1>6 DEF sent, half

\* What arrives for an amount grows with it, whether the handler accepts it or not.
LEMMA ReceivedFromGrows ==
  ASSUME NEW m, Tradable(m), NEW a \in Nat, NEW b \in Nat, a <= b
  PROVE  /\ ReceivedFrom(m, a) \in Nat
         /\ ReceivedFrom(m, a) <= ReceivedFrom(m, b)
<1>1. ActualAmountIn(m, a) <= ActualAmountIn(m, b)
  BY MarketTypes, ReceivedGrows DEF ActualAmountIn
<1>2. BaseInputReceived(m, a) <= BaseInputReceived(m, b)
  BY <1>1, BaseInputGrows
<1>3. /\ ActualAmountIn(m, a) \in Nat /\ ActualAmountIn(m, b) \in Nat
      /\ BaseInputReceived(m, a) \in Nat /\ BaseInputReceived(m, b) \in Nat
  BY BaseInputParts
<1>4. BaseInputOk(m, a) => BaseInputOk(m, b)
  BY <1>1, <1>2, <1>3, BaseInputAccepted
<1> QED
  BY <1>2, <1>3, <1>4 DEF ReceivedFrom

(* ----------------------------- exact output ---------------------------- *)

\* What the curve asks for is the least that pays for the output.
LEMMA CurveAsks ==
  ASSUME NEW X \in Nat, NEW Y \in Nat, NEW a \in Nat, a < Y
  PROVE  LET asked == swap_base_output_without_fees(a, X, Y)
         IN  /\ asked \in Nat
             /\ asked * (Y - a) >= X * a
             /\ (asked - 1) * (Y - a) < X * a
<1> DEFINE dividend == X * a
           divisor == Y - a
           q == dividend \div divisor
           r == dividend % divisor
           asked == q + (IF r # 0 THEN 1 ELSE 0)
<1>1. dividend \in Nat /\ divisor \in Nat \ {0}
  OBVIOUS
<1>2. swap_base_output_without_fees(a, X, Y) = asked
  BY DEF swap_base_output_without_fees, checked_ceil_div
<1> HIDE DEF dividend, divisor
<1>3. q \in Nat /\ r \in Nat /\ dividend = q * divisor + r /\ r < divisor
  BY <1>1
<1> HIDE DEF q, r
<1>4. CASE r = 0
  <2>1. asked = q
    BY <1>3, <1>4
  <2>2. (q - 1) * divisor = q * divisor - divisor
    BY <1>1, <1>3
  <2> QED
    BY <1>1, <1>2, <1>3, <1>4, <2>1, <2>2 DEF dividend, divisor
<1>5. CASE r # 0
  <2>1. asked = q + 1
    BY <1>3, <1>5
  <2>2. (q + 1) * divisor = q * divisor + divisor
    BY <1>1, <1>3
  <2>3. (asked - 1) * divisor = q * divisor
    BY <1>3, <2>1
  <2> QED
    BY <1>1, <1>2, <1>3, <1>5, <2>1, <2>2, <2>3 DEF dividend, divisor
<1> QED
  BY <1>4, <1>5

\* Grossing up for a rate below 1 gives the least amount that leaves the net amount.
LEMMA PreFeeLeast ==
  ASSUME NEW net \in Nat, NEW rate \in Nat, rate < FEE_RATE_DENOMINATOR_VALUE
  PROVE  LET gross == calculate_pre_fee_amount(net, rate)
         IN  /\ gross \in Nat
             /\ gross >= net
             /\ gross > 0 => net > 0
             /\ gross - ceil_div(gross, rate, FEE_RATE_DENOMINATOR_VALUE) = net
             /\ net > 0 =>
                  gross - 1 - ceil_div(gross - 1, rate, FEE_RATE_DENOMINATOR_VALUE) < net
<1> DEFINE D == FEE_RATE_DENOMINATOR_VALUE
           gross == calculate_pre_fee_amount(net, rate)
<1>1. D \in Nat \ {0} /\ rate < D
  BY DenominatorAssumption
<1>2. \A c : ceil_div(c, rate, D) = CeilDiv(c * rate, D)
  BY DEF ceil_div, CeilDiv
<1>3. CASE rate = 0
  <2>1. gross = net
    BY <1>3 DEF calculate_pre_fee_amount
  <2>2. \A c \in Nat : ceil_div(c, rate, D) = 0
    <3>1. TAKE c \in Nat
    <3>2. c * rate = 0
      BY <1>3
    <3>3. CeilDiv(0, D) \in Nat /\ CeilDiv(0, D) <= 0
      BY <1>1, CeilFloor, CeilAtMost
    <3> QED
      BY <1>2, <3>2, <3>3
  <2>3. net > 0 => net - 1 \in Nat
    OBVIOUS
  <2> QED
    BY <2>1, <2>2, <2>3
<1>4. CASE rate # 0
  <2>1. gross = CeilDiv(net * D, D - rate)
    BY <1>4 DEF calculate_pre_fee_amount, ceil_div, CeilDiv
  <2> HIDE DEF gross, D
  <2>2. /\ gross \in Nat
        /\ gross >= net
        /\ CeilDiv(gross * rate, D) = gross - net
        /\ net > 0 => CeilDiv((gross - 1) * rate, D) >= gross - net
    BY <1>1, <2>1, GrossUp
  <2>3. gross > 0 => net > 0
    <3>1. ASSUME net = 0
          PROVE  gross = 0
      <4>1. 0 * D = 0 /\ D - rate \in Nat \ {0}
        BY <1>1
      <4>2. CeilDiv(0, D - rate) \in Nat /\ CeilDiv(0, D - rate) <= 0
        BY <4>1, CeilFloor, CeilAtMost
      <4> QED
        BY <2>1, <3>1, <4>1, <4>2
    <3> QED
      BY <3>1
  <2>4. ASSUME net > 0
        PROVE  gross - 1 - CeilDiv((gross - 1) * rate, D) < net
    <3> DEFINE less == gross - 1
    <3>1. less \in Nat /\ CeilDiv(less * rate, D) >= gross - net
      BY <2>2, <2>4
    <3> HIDE DEF less
    <3>2. less * rate \in Nat
      BY <3>1
    <3>3. CeilDiv(less * rate, D) \in Nat
      BY <1>1, <3>2, CeilFloor
    <3>4. less - CeilDiv(less * rate, D) < net
      BY <2>2, <3>1, <3>3 DEF less
    <3> QED
      BY <3>4 DEF less
  <2>5. /\ ceil_div(gross, rate, D) = gross - net
        /\ ceil_div(gross - 1, rate, D) = CeilDiv((gross - 1) * rate, D)
    BY <1>2, <2>2
  <2>6. gross - ceil_div(gross, rate, D) = net
    BY <2>2, <2>5
  <2> QED
    BY <2>2, <2>3, <2>4, <2>5, <2>6 DEF gross, D
<1> QED
  BY <1>3, <1>4

\* What an exact-output quote consists of.
LEMMA BaseOutputParts ==
  ASSUME NEW m, Tradable(m), NEW a \in Nat,
         SwapBaseOutputDefined(a, m.output_vault, m.rates, m.is_creator_fee_on_input)
  PROVE  LET actual == ActualOutputAmount(a, m.rates, m.is_creator_fee_on_input)
             asked  == swap_base_output_without_fees(actual, m.input_vault, m.output_vault)
             result == swap_base_output(a, m.input_vault, m.output_vault,
                                        m.rates, m.is_creator_fee_on_input)
         IN  /\ actual \in Nat
             /\ actual >= a
             /\ actual < m.output_vault
             /\ Out(m, actual) = a
             /\ a > 0 => Out(m, actual - 1) < a
             /\ asked \in Nat
             /\ result.input_amount \in Nat
             /\ Net(m, result.input_amount) = asked
             /\ result.input_amount > 0 => Net(m, result.input_amount - 1) < asked
             /\ result.new_input_vault_amount = m.input_vault + asked
             /\ result.new_output_vault_amount = m.output_vault - actual
<1> DEFINE on == m.is_creator_fee_on_input
           D == FEE_RATE_DENOMINATOR_VALUE
           creator == m.rates.creator_fee_rate
           rate == InputFeeRate(m.rates, on)
           actual == ActualOutputAmount(a, m.rates, on)
           asked == swap_base_output_without_fees(actual, m.input_vault, m.output_vault)
           result == swap_base_output(a, m.input_vault, m.output_vault, m.rates, on)
           gross == calculate_pre_fee_amount(asked, rate)
<1>1. on \in BOOLEAN /\ rate \in Nat /\ rate < D /\ creator \in Nat /\ creator < D
  BY MarketTypes
<1>2. actual < m.output_vault
  BY DEF SwapBaseOutputDefined
<1>3. /\ actual \in Nat /\ actual >= a
      /\ Out(m, actual) = a
      /\ a > 0 => Out(m, actual - 1) < a
  <2>1. CASE on
    <3>1. actual = a /\ \A c : Out(m, c) = c
      BY <2>1 DEF ActualOutputAmount, Out
    <3> QED
      BY <3>1
  <2>2. CASE ~on
    <3>1. actual = calculate_pre_fee_amount(a, creator)
      BY <2>2 DEF ActualOutputAmount
    <3>2. \A c : Out(m, c) = c - ceil_div(c, creator, D)
      BY <2>2 DEF Out, creator_fee
    <3> HIDE DEF actual
    <3> QED
      BY <1>1, <3>1, <3>2, PreFeeLeast
  <2> QED
    BY <1>1, <2>1, <2>2
<1>4. /\ result.input_amount = gross
      /\ result.new_input_vault_amount = m.input_vault + (gross - (gross - asked))
      /\ result.new_output_vault_amount = m.output_vault - actual
  BY DEF swap_base_output, SwapResult
<1>5. asked \in Nat
  BY <1>2, <1>3, MarketTypes, CurveAsks
<1> HIDE DEF asked, actual, result
<1>6. \A c : Net(m, c) = c - ceil_div(c, rate, D)
  BY DEF Net, trading_fee
<1>7. /\ gross \in Nat
      /\ Net(m, gross) = asked
      /\ gross > 0 => Net(m, gross - 1) < asked
  BY <1>1, <1>5, <1>6, PreFeeLeast
<1> HIDE DEF gross
<1>8. result.new_input_vault_amount = m.input_vault + asked
  BY <1>4, <1>5, <1>7, MarketTypes
<1> QED
  BY <1>2, <1>3, <1>4, <1>5, <1>7, <1>8 DEF asked, actual, result

\* The last check of an exact-output swap never fails.
LEMMA BaseOutputKeeps ==
  ASSUME NEW m, Tradable(m), NEW a \in Nat,
         SwapBaseOutputDefined(a, m.output_vault, m.rates, m.is_creator_fee_on_input)
  PROVE  ConstantKept(m, swap_base_output(a, m.input_vault, m.output_vault,
                                          m.rates, m.is_creator_fee_on_input))
<1> DEFINE X == m.input_vault
           Y == m.output_vault
           actual == ActualOutputAmount(a, m.rates, m.is_creator_fee_on_input)
           asked == swap_base_output_without_fees(actual, X, Y)
<1>1. X \in Nat /\ Y \in Nat
  BY MarketTypes
<1>2. actual \in Nat /\ actual < Y /\ asked \in Nat
  BY BaseOutputParts
<1>3. asked * (Y - actual) >= X * actual
  BY <1>1, <1>2, CurveAsks
<1>4. LET result == swap_base_output(a, X, Y, m.rates, m.is_creator_fee_on_input)
      IN  /\ result.new_input_vault_amount = X + asked
          /\ result.new_output_vault_amount = Y - actual
  BY BaseOutputParts
<1> HIDE DEF actual, asked, X, Y
<1>5. (X + asked) * (Y - actual) >= X * Y
  <2>1. (X + asked) * (Y - actual) = X * Y - X * actual + asked * (Y - actual)
    BY <1>1, <1>2
  <2>2. X * Y \in Int /\ X * actual \in Int /\ asked * (Y - actual) \in Int
    BY <1>1, <1>2
  <2> QED
    BY <1>3, <2>1, <2>2
<1> QED
  BY <1>4, <1>5 DEF ConstantKept, X, Y

\* A ceiling and a floor of nothing are nothing.
LEMMA NothingShared ==
  ASSUME NEW amount \in Nat, NEW whole \in Nat \ {0}
  PROVE  ceil_div(amount, 0, whole) = 0 /\ floor_div(amount, 0, whole) = 0
<1>1. amount * 0 = 0
  OBVIOUS
<1>2. CeilDiv(0, whole) \in Nat /\ CeilDiv(0, whole) <= 0
  BY CeilFloor, CeilAtMost
<1>3. 0 \div whole \in Nat /\ 0 \div whole <= 0
  BY DivAtMost, DivFloor
<1>4. ceil_div(amount, 0, whole) = CeilDiv(0, whole) /\ floor_div(amount, 0, whole) = 0 \div whole
  BY <1>1 DEF ceil_div, floor_div, CeilDiv
<1> QED
  BY <1>2, <1>3, <1>4

\* A creator fee rate of 0 costs nobody anything, in either direction and mode.
LEMMA NoCreatorFee ==
  ASSUME NEW m, Tradable(m), m.rates.creator_fee_rate = 0, NEW a \in Nat
  PROVE  /\ BaseInputOk(m, a) => BaseInputResult(m, a).creator_fee = 0
         /\ BaseOutputOk(m, a) => BaseOutputResult(m, a).creator_fee = 0
<1> DEFINE on == m.is_creator_fee_on_input
           t  == m.rates.trade_fee_rate
<1>1. on \in BOOLEAN /\ t \in Nat /\ FEE_RATE_DENOMINATOR_VALUE \in Nat \ {0}
      /\ m.output_mint \in Mints(Nat)
  BY MarketTypes, RatesType
<1>2. ASSUME NEW fee \in Nat, SwapSplitDefined(m.rates, on)
      PROVE  CreatorShare(fee, m.rates, on) = 0
  <2>1. CASE on
    <3>1. t + 0 \in Nat \ {0}
      BY <1>1, <1>2, <2>1 DEF SwapSplitDefined, SplitDefined
    <3>2. CreatorShare(fee, m.rates, on) = floor_div(fee, 0, t + 0)
      BY <2>1 DEF CreatorShare, split_creator_fee
    <3> QED
      BY <1>2, <3>1, <3>2, NothingShared
  <2>2. CASE ~on
    BY <2>2 DEF CreatorShare
  <2> QED
    BY <1>1, <2>1, <2>2
<1>3. ASSUME BaseInputOk(m, a)
      PROVE  BaseInputResult(m, a).creator_fee = 0
  <2> DEFINE sent    == ActualAmountIn(m, a)
             fee     == trading_fee(sent, InputFeeRate(m.rates, on))
             swapped == swap_base_input_without_fees(sent - fee, m.input_vault, m.output_vault)
  <2>1. sent \in Nat /\ Net(m, sent) \in Nat /\ Swapped(m, Net(m, sent)) \in Nat
    BY BaseInputParts
  <2>2. fee \in Nat
    <3>1. InputFeeRate(m.rates, on) \in Nat
          /\ InputFeeRate(m.rates, on) <= FEE_RATE_DENOMINATOR_VALUE
      BY MarketTypes
    <3> HIDE DEF sent
    <3> QED
      BY <2>1, <3>1, CeilDivBounded DEF trading_fee
  <2>3. swapped \in Nat
    BY <2>1 DEF Net, Swapped
  <2>4. SwapSplitDefined(m.rates, on)
    BY <1>3 DEF BaseInputOk, SwapBaseInputDefined
  <2>5. BaseInputResult(m, a).creator_fee
          = CreatorShare(fee, m.rates, on)
              + (IF on THEN 0 ELSE creator_fee(swapped, m.rates.creator_fee_rate))
    BY DEF BaseInputResult, swap_base_input, SwapResult
  <2> HIDE DEF swapped, fee
  <2>6. creator_fee(swapped, 0) = 0
    BY <1>1, <2>3, NothingShared DEF creator_fee
  <2>7. CreatorShare(fee, m.rates, on) = 0
    BY <1>2, <2>2, <2>4
  <2> QED
    BY <1>1, <2>5, <2>6, <2>7
<1>4. ASSUME BaseOutputOk(m, a)
      PROVE  BaseOutputResult(m, a).creator_fee = 0
  <2> DEFINE out    == AmountOutWithTransferFee(m, a)
             actual == ActualOutputAmount(out, m.rates, on)
             asked  == swap_base_output_without_fees(actual, m.input_vault, m.output_vault)
             gross  == calculate_pre_fee_amount(asked, InputFeeRate(m.rates, on))
  <2>1. out \in Nat /\ SwapBaseOutputDefined(out, m.output_vault, m.rates, on)
    BY <1>1, <1>4, InverseFeeType DEF BaseOutputOk, AmountOutWithTransferFee
  <2> HIDE DEF out
  <2>2. actual = out
    BY DEF ActualOutputAmount, calculate_pre_fee_amount
  <2>3. asked \in Nat
    BY <2>1, BaseOutputParts
  <2> HIDE DEF asked
  <2>4. gross \in Nat /\ gross >= asked
    BY <2>3, MarketTypes, PreFeeLeast
  <2>5. SwapSplitDefined(m.rates, on)
    BY <2>1 DEF SwapBaseOutputDefined
  <2>6. BaseOutputResult(m, a).creator_fee
          = CreatorShare(gross - asked, m.rates, on) + (actual - out)
    BY DEF BaseOutputResult, swap_base_output, SwapResult, asked, out
  <2> HIDE DEF actual, gross
  <2>7. gross - asked \in Nat
    BY <2>3, <2>4
  <2>8. CreatorShare(gross - asked, m.rates, on) = 0
    BY <1>2, <2>5, <2>7
  <2> QED
    BY <2>1, <2>2, <2>6, <2>8
<1> QED
  BY <1>3, <1>4

(* ------------------------------ both ways ------------------------------ *)

\* What is quoted for an output brings it, and one unit less does not.
LEMMA QuoteIsCheapest ==
  ASSUME NEW m, Tradable(m), NEW n \in Nat, BaseOutputOk(m, n)
  PROVE  /\ ReceivedFrom(m, InputTransferAmount(m, n)) >= n
         /\ ReceivedFrom(m, InputTransferAmount(m, n) - 1) < n
<1> DEFINE on     == m.is_creator_fee_on_input
           gross  == AmountOutWithTransferFee(m, n)
           actual == ActualOutputAmount(gross, m.rates, on)
           asked  == swap_base_output_without_fees(actual, m.input_vault, m.output_vault)
           input  == BaseOutputResult(m, n).input_amount
           sent   == InputTransferAmount(m, n)
<1>1. /\ n > 0
      /\ SwapBaseOutputDefined(gross, m.output_vault, m.rates, on)
      /\ input > 0
  BY DEF BaseOutputOk
<1>2. /\ gross \in Nat /\ gross > 0
      /\ AmountReceived(m.output_mint, gross) = n
      /\ AmountReceived(m.output_mint, gross - 1) < n
  <2>1. get_transfer_inverse_fee(m.output_mint, n) \in Nat
    BY <1>1, MarketTypes, InverseFee
  <2>2. gross \in Nat /\ gross > 0
    BY <1>1, <2>1 DEF AmountOutWithTransferFee
  <2>3. /\ AmountReceived(m.output_mint, gross) = n
        /\ AmountReceived(m.output_mint, gross - 1) < n
    BY <1>1, MarketTypes, InverseFee DEF AmountOutWithTransferFee
  <2> QED
    BY <2>2, <2>3
<1> HIDE DEF gross
<1>3. /\ actual \in Nat /\ actual >= gross /\ actual < m.output_vault
      /\ Out(m, actual) = gross
      /\ Out(m, actual - 1) < gross
      /\ asked \in Nat
      /\ input \in Nat
      /\ Net(m, input) = asked
      /\ Net(m, input - 1) < asked
  BY <1>1, <1>2, BaseOutputParts DEF BaseOutputResult, gross
<1> HIDE DEF actual
<1>4. /\ asked * (m.output_vault - actual) >= m.input_vault * actual
      /\ (asked - 1) * (m.output_vault - actual) < m.input_vault * actual
  BY <1>3, MarketTypes, CurveAsks
<1> HIDE DEF asked, input
<1>5. /\ sent \in Nat /\ sent > 0
      /\ ActualAmountIn(m, sent) = input
      /\ ActualAmountIn(m, sent - 1) < input
  <2>1. sent = input + get_transfer_inverse_fee(m.input_mint, input)
    BY DEF InputTransferAmount, input
  <2>2. get_transfer_inverse_fee(m.input_mint, input) \in Nat
    BY <1>1, <1>3, MarketTypes, InverseFee
  <2>3. sent \in Nat /\ sent > 0
    BY <1>1, <1>3, <2>1, <2>2
  <2>4. /\ AmountReceived(m.input_mint, sent) = input
        /\ AmountReceived(m.input_mint, sent - 1) < input
    BY <1>1, <1>3, <2>1, MarketTypes, InverseFee
  <2> QED
    BY <2>3, <2>4 DEF ActualAmountIn
<1> HIDE DEF sent
<1>6. ReceivedFrom(m, sent) >= n
  <2> DEFINE swapped == Swapped(m, asked)
  <2>1. /\ swapped \in Nat
        /\ Out(m, swapped) \in Nat
        /\ BaseInputReceived(m, sent) \in Nat
        /\ BaseInputReceived(m, sent) = AmountReceived(m.output_mint, Out(m, swapped))
    BY <1>3, <1>5, BaseInputParts
  <2>2. swapped >= actual
    BY <1>3, <1>4, MarketTypes, CurveInverse DEF Swapped
  <2> HIDE DEF swapped
  <2>3. Out(m, swapped) >= gross
    BY <1>3, <2>1, <2>2, OutGrows
  <2>4. AmountReceived(m.output_mint, Out(m, swapped)) >= n
    BY <1>2, <2>1, <2>3, MarketTypes, ReceivedGrows
  <2>5. BaseInputReceived(m, sent) >= n
    BY <2>1, <2>4
  <2>6. SwapBaseInputDefined(m.rates, on)
    BY <1>1 DEF SwapBaseOutputDefined, SwapBaseInputDefined
  <2>7. BaseInputOk(m, sent)
    BY <1>1, <1>5, <2>1, <2>5, <2>6, BaseInputAccepted
  <2> QED
    BY <2>5, <2>7 DEF ReceivedFrom
<1>7. ReceivedFrom(m, sent - 1) < n
  <2> DEFINE less    == sent - 1
             arrived == ActualAmountIn(m, less)
             net     == Net(m, arrived)
             swapped == Swapped(m, net)
  <2>1. less \in Nat /\ arrived < input
    BY <1>5
  <2> HIDE DEF less
  <2>2. /\ arrived \in Nat
        /\ net \in Nat
        /\ swapped \in Nat
        /\ Out(m, swapped) \in Nat
        /\ BaseInputReceived(m, less) \in Nat
        /\ BaseInputReceived(m, less) = AmountReceived(m.output_mint, Out(m, swapped))
    BY <2>1, BaseInputParts
  <2>3. net < asked
    <3> DEFINE last == input - 1
    <3>1. last \in Nat /\ arrived <= last /\ Net(m, last) < asked
      BY <1>1, <1>3, <2>1, <2>2
    <3> HIDE DEF last, arrived
    <3>2. net <= Net(m, last) /\ Net(m, last) \in Nat
      BY <2>2, <3>1, NetGrows
    <3> QED
      BY <1>3, <2>2, <3>1, <3>2
  <2> HIDE DEF net
  <2>4. swapped < actual
    <3> DEFINE rest == m.output_vault - actual
    <3>1. rest \in Nat
      BY <1>3, MarketTypes
    <3>2. (asked - 1) * rest < m.input_vault * actual
      BY <1>4
    <3> HIDE DEF rest
    <3>3. net * rest <= (asked - 1) * rest
      BY <1>3, <2>2, <2>3, <3>1
    <3>4. m.input_vault * actual \in Int /\ net * rest \in Int /\ (asked - 1) * rest \in Int
      BY <1>3, <2>2, <3>1, MarketTypes
    <3>5. ~(net * rest >= m.input_vault * actual)
      BY <3>2, <3>3, <3>4
    <3>6. ~(swapped >= actual)
      BY <1>3, <2>2, <3>5, MarketTypes, CurveInverse DEF Swapped, rest
    <3> QED
      BY <1>3, <2>2, <3>6
  <2> HIDE DEF swapped
  <2>5. Out(m, swapped) < gross
    <3> DEFINE last == actual - 1
    <3>1. last \in Nat /\ swapped <= last /\ Out(m, last) < gross
      BY <1>3, <2>2, <2>4
    <3> HIDE DEF last
    <3>2. Out(m, swapped) <= Out(m, last) /\ Out(m, last) \in Nat
      BY <2>2, <3>1, OutGrows
    <3> QED
      BY <1>2, <2>2, <3>1, <3>2
  <2>6. AmountReceived(m.output_mint, Out(m, swapped)) < n
    <3> DEFINE last == gross - 1
               out == Out(m, swapped)
    <3>1. last \in Nat /\ out <= last /\ AmountReceived(m.output_mint, last) < n
      BY <1>2, <2>2, <2>5
    <3>2. out \in Nat
      BY <2>2
    <3> HIDE DEF last, out
    <3>3. AmountReceived(m.output_mint, out) <= AmountReceived(m.output_mint, last)
      BY <3>1, <3>2, MarketTypes, ReceivedGrows
    <3>4. AmountReceived(m.output_mint, out) \in Nat /\ AmountReceived(m.output_mint, last) \in Nat
      BY <3>1, <3>2, MarketTypes, TransferFeeBounded
    <3>5. AmountReceived(m.output_mint, out) < n
      BY <3>1, <3>3, <3>4
    <3> QED
      BY <3>5 DEF out
  <2>7. ReceivedFrom(m, less) < n
    BY <1>1, <2>2, <2>6 DEF ReceivedFrom
  <2> QED
    BY <2>7 DEF less
<1> QED
  BY <1>6, <1>7 DEF sent

\* What a first swap leaves: the fees that are owed are gone, the rest of the
\* trade fee stays on the input side.
LEMMA AfterSwap ==
  ASSUME NEW m, Tradable(m), NEW a \in Nat,
         SwapBaseInputDefined(m.rates, m.is_creator_fee_on_input)
  PROVE  LET after == MarketAfter(m, BaseInputResult(m, a))
             net   == Net(m, ActualAmountIn(m, a))
         IN  /\ Tradable(after)
             /\ after.rates = m.rates
             /\ after.is_creator_fee_on_input = m.is_creator_fee_on_input
             /\ after.input_mint = m.input_mint
             /\ after.output_mint = m.output_mint
             /\ after.input_vault >= m.input_vault + net
             /\ after.input_vault <= m.input_vault + ActualAmountIn(m, a)
             /\ after.output_vault = m.output_vault - Swapped(m, net)
<1> DEFINE result == BaseInputResult(m, a)
           after  == MarketAfter(m, result)
           net    == Net(m, ActualAmountIn(m, a))
           creator_fee_in == IF m.is_creator_fee_on_input THEN result.creator_fee ELSE 0
           input  == m.input_vault + result.input_amount
                       - result.protocol_fee - result.fund_fee - creator_fee_in
           output == m.output_vault - result.output_amount
                       - (result.creator_fee - creator_fee_in)
<1>1. /\ net \in Nat
      /\ Swapped(m, net) \in Nat
      /\ Swapped(m, net) <= m.output_vault
      /\ result.new_input_vault_amount = m.input_vault + net
      /\ result.new_output_vault_amount = m.output_vault - Swapped(m, net)
      /\ ActualAmountIn(m, a) \in Nat
  BY BaseInputParts
<1>2. Accounted(result, m.input_vault, m.output_vault, m.is_creator_fee_on_input)
  BY <1>1, MarketTypes, BaseInputAccounted DEF BaseInputResult
<1>7. result.input_amount = ActualAmountIn(m, a)
  BY DEF BaseInputResult, swap_base_input, SwapResult
<1> HIDE DEF net, result
<1>3. /\ input \in Int /\ input >= m.input_vault + net
      /\ output = m.output_vault - Swapped(m, net)
      /\ input <= m.input_vault + ActualAmountIn(m, a)
  BY <1>1, <1>2, <1>7, MarketTypes DEF Accounted
<1>4. /\ m \in Market(Nat, Mints(Nat))
      /\ after = [m EXCEPT !.input_vault = input, !.output_vault = output]
  BY DEF Tradable, MarketAfter
<1> HIDE DEF input, output, after
<1>5. input \in Nat /\ input > 0 /\ output \in Nat
  BY <1>1, <1>3, MarketTypes
<1>6. /\ after \in Market(Nat, Mints(Nat))
      /\ after.rates = m.rates
      /\ after.is_creator_fee_on_input = m.is_creator_fee_on_input
      /\ after.input_mint = m.input_mint
      /\ after.output_mint = m.output_mint
      /\ after.input_vault = input
      /\ after.output_vault = output
  BY <1>4, <1>5 DEF Market
<1> QED
  BY <1>3, <1>5, <1>6 DEF Tradable, after, net, result

\* Two swaps in a row never bring more than one.
LEMMA SplittingBringsNoMore ==
  ASSUME NEW m, Tradable(m), NEW a \in Nat, NEW b \in Nat, BaseInputOk(m, a)
  PROVE  BaseInputReceived(m, a) + ReceivedFrom(MarketAfter(m, BaseInputResult(m, a)), b)
           <= ReceivedFrom(m, a + b)
<1> DEFINE after == MarketAfter(m, BaseInputResult(m, a))
           sum   == a + b
           net1  == Net(m, ActualAmountIn(m, a))
           net2  == Net(m, ActualAmountIn(m, b))
           net   == Net(m, ActualAmountIn(m, sum))
           first == Swapped(m, net1)
           second == Swapped(after, net2)
           whole == Swapped(m, net)
<1>1. sum \in Nat /\ a <= sum /\ sum = a + b
  OBVIOUS
<1> HIDE DEF sum
<1>2. SwapBaseInputDefined(m.rates, m.is_creator_fee_on_input)
  BY DEF BaseInputOk
<1>3. /\ Tradable(after)
      /\ after.rates = m.rates
      /\ after.is_creator_fee_on_input = m.is_creator_fee_on_input
      /\ after.input_mint = m.input_mint
      /\ after.output_mint = m.output_mint
      /\ after.input_vault >= m.input_vault + net1
      /\ after.output_vault = m.output_vault - first
  BY <1>2, AfterSwap
<1> HIDE DEF after
<1>4. ReceivedFrom(m, a) = BaseInputReceived(m, a) /\ ReceivedFrom(m, a) <= ReceivedFrom(m, sum)
  BY <1>1, ReceivedFromGrows DEF ReceivedFrom
<1>5. /\ BaseInputReceived(m, a) \in Nat
      /\ BaseInputReceived(m, sum) \in Nat
      /\ BaseInputReceived(after, b) \in Nat
      /\ ReceivedFrom(after, b) \in Nat
  <2>1. BaseInputReceived(m, a) \in Nat /\ BaseInputReceived(m, sum) \in Nat
    BY <1>1, BaseInputParts
  <2>2. BaseInputReceived(after, b) \in Nat
    BY <1>3, BaseInputParts
  <2> QED
    BY <2>1, <2>2 DEF ReceivedFrom
<1>6. BaseInputOk(m, sum)
  <2>1. ActualAmountIn(m, a) <= ActualAmountIn(m, sum)
    BY <1>1, MarketTypes, ReceivedGrows DEF ActualAmountIn
  <2>2. BaseInputReceived(m, a) <= BaseInputReceived(m, sum)
    BY <1>1, <2>1, BaseInputGrows
  <2>3. ActualAmountIn(m, a) \in Nat /\ ActualAmountIn(m, sum) \in Nat
    BY <1>1, BaseInputParts
  <2> QED
    BY <1>1, <1>5, <2>1, <2>2, <2>3, BaseInputAccepted
<1>7. CASE ~BaseInputOk(after, b)
  <2>1. ReceivedFrom(after, b) = 0
    BY <1>7 DEF ReceivedFrom
  <2> QED
    BY <1>4, <1>5, <2>1 DEF sum, after
<1>8. BaseInputReceived(m, a) + BaseInputReceived(after, b) <= BaseInputReceived(m, sum)
  <2>1. /\ net1 \in Nat /\ first \in Nat /\ Out(m, first) \in Nat
        /\ BaseInputReceived(m, a) = AmountReceived(m.output_mint, Out(m, first))
    BY BaseInputParts
  <2>2. /\ net \in Nat /\ whole \in Nat /\ Out(m, whole) \in Nat
        /\ BaseInputReceived(m, sum) = AmountReceived(m.output_mint, Out(m, whole))
    BY <1>1, BaseInputParts
  <2>3. /\ net2 = Net(after, ActualAmountIn(after, b))
        /\ \A x : Out(after, x) = Out(m, x)
    BY <1>3 DEF Net, Out, ActualAmountIn
  <2>4. /\ net2 \in Nat /\ second \in Nat /\ Out(m, second) \in Nat
        /\ BaseInputReceived(after, b) = AmountReceived(m.output_mint, Out(m, second))
    BY <1>3, <2>3, BaseInputParts
  <2>5. net1 + net2 <= net
    <3>1. /\ ActualAmountIn(m, a) \in Nat /\ ActualAmountIn(m, b) \in Nat
          /\ ActualAmountIn(m, sum) \in Nat
      BY <1>1, BaseInputParts
    <3>2. ActualAmountIn(m, a) + ActualAmountIn(m, b) <= ActualAmountIn(m, sum)
      BY <1>1, MarketTypes, ReceivedInParts DEF ActualAmountIn
    <3> DEFINE both == ActualAmountIn(m, a) + ActualAmountIn(m, b)
    <3>3. both \in Nat /\ both <= ActualAmountIn(m, sum)
      BY <3>1, <3>2
    <3>4. net1 + net2 <= Net(m, both)
      BY <3>1, NetInParts
    <3> HIDE DEF both
    <3>5. Net(m, both) <= net /\ Net(m, both) \in Nat
      BY <3>1, <3>3, NetGrows
    <3> QED
      BY <2>1, <2>2, <2>4, <3>4, <3>5
  <2> HIDE DEF net1, net2, net
  <2>6. first + second <= whole
    <3> DEFINE both == net1 + net2
               once == Swapped(m, both)
    <3>1. both \in Nat /\ both <= net
      BY <2>1, <2>4, <2>5
    <3>2. first + second <= once
      BY <1>3, <2>1, <2>4, MarketTypes, CurveInParts DEF Swapped
    <3> HIDE DEF both
    <3>3. once \in Nat /\ once <= whole
      BY <2>2, <3>1, MarketTypes, CurveGrows, CurveGives DEF Swapped
    <3> HIDE DEF first, second, once
    <3> QED
      BY <2>1, <2>2, <2>4, <3>2, <3>3
  <2> HIDE DEF first, second, whole
  <2>7. Out(m, first) + Out(m, second) <= Out(m, whole)
    <3> DEFINE both == first + second
    <3>1. both \in Nat /\ both <= whole
      BY <2>1, <2>4, <2>6
    <3>2. Out(m, first) + Out(m, second) <= Out(m, both)
      BY <2>1, <2>4, OutInParts
    <3> HIDE DEF both
    <3>3. Out(m, both) <= Out(m, whole) /\ Out(m, both) \in Nat
      BY <2>2, <3>1, OutGrows
    <3> QED
      BY <2>1, <2>2, <2>4, <3>2, <3>3
  <2> DEFINE x == Out(m, first)
             y == Out(m, second)
             z == Out(m, whole)
             both == x + y
  <2>8. x \in Nat /\ y \in Nat /\ z \in Nat /\ both \in Nat /\ both <= z
    BY <2>1, <2>2, <2>4, <2>7
  <2> HIDE DEF x, y, z
  <2>9. AmountReceived(m.output_mint, x) + AmountReceived(m.output_mint, y)
          <= AmountReceived(m.output_mint, both)
    BY <2>8, MarketTypes, ReceivedInParts
  <2> HIDE DEF both
  <2>10. /\ AmountReceived(m.output_mint, both) <= AmountReceived(m.output_mint, z)
         /\ AmountReceived(m.output_mint, both) \in Nat
         /\ AmountReceived(m.output_mint, x) \in Nat
         /\ AmountReceived(m.output_mint, y) \in Nat
         /\ AmountReceived(m.output_mint, z) \in Nat
    BY <2>8, MarketTypes, ReceivedGrows, TransferFeeBounded
  <2>11. AmountReceived(m.output_mint, x) + AmountReceived(m.output_mint, y)
           <= AmountReceived(m.output_mint, z)
    BY <2>9, <2>10
  <2> QED
    BY <2>1, <2>2, <2>4, <2>11 DEF x, y, z
<1>9. CASE BaseInputOk(after, b)
  <2>1. ReceivedFrom(after, b) = BaseInputReceived(after, b)
        /\ ReceivedFrom(m, sum) = BaseInputReceived(m, sum)
    BY <1>6, <1>9 DEF ReceivedFrom
  <2> QED
    BY <1>8, <2>1 DEF sum, after
<1> QED
  BY <1>7, <1>9

\* Going round brings no more than was sent, whatever market the way back finds
\* on the output side of the first swap.
LEMMA RoundTripBringsNoMore ==
  ASSUME NEW m, Tradable(m), NEW a \in Nat, BaseInputOk(m, a), NEW back \in BOOLEAN
  PROVE  ReceivedFrom(Reversed(MarketAfter(m, BaseInputResult(m, a)), back),
                      BaseInputReceived(m, a)) <= a
<1> DEFINE after   == MarketAfter(m, BaseInputResult(m, a))
           rev     == Reversed(after, back)
           sent    == ActualAmountIn(m, a)
           net     == Net(m, sent)
           swapped == Swapped(m, net)
           c       == BaseInputReceived(m, a)
           b       == Net(rev, ActualAmountIn(rev, c))
<1>1. /\ m.input_vault \in Nat \ {0} /\ m.output_vault \in Nat
      /\ m.input_mint \in Mints(Nat) /\ m.output_mint \in Mints(Nat)
  BY MarketTypes
<1>2. /\ sent \in Nat /\ sent <= a
      /\ net \in Nat /\ net <= sent
      /\ swapped \in Nat /\ swapped <= m.output_vault
      /\ c \in Nat /\ c <= swapped
  <2>1. sent \in Nat /\ sent <= a
    BY <1>1, TransferFeeBounded DEF ActualAmountIn
  <2>2. net \in Nat /\ net <= sent
    <3> HIDE DEF sent
    <3> QED
      BY <2>1, NetGrows
  <2>3. /\ swapped \in Nat /\ swapped <= m.output_vault
        /\ Out(m, swapped) \in Nat /\ Out(m, swapped) <= swapped
        /\ c \in Nat /\ c = AmountReceived(m.output_mint, Out(m, swapped))
    BY BaseInputParts
  <2> HIDE DEF sent, net, swapped, c
  <2>4. AmountReceived(m.output_mint, Out(m, swapped)) <= Out(m, swapped)
    BY <1>1, <2>3, TransferFeeBounded
  <2> QED
    BY <2>1, <2>2, <2>3, <2>4
<1>3. c > 0
  BY DEF BaseInputOk
<1>4. /\ Tradable(after)
      /\ after.input_vault <= m.input_vault + sent
      /\ after.output_vault = m.output_vault - swapped
  BY AfterSwap DEF BaseInputOk
<1> HIDE DEF c, sent, net
<1>5. after.output_vault \in Nat \ {0}
  <2>1. m.output_vault > 0
    BY <1>1, <1>2, <1>3
  <2>2. swapped < m.output_vault
    BY <1>1, <1>2, <2>1, CurveNeverDrains DEF Swapped
  <2> QED
    BY <1>1, <1>2, <1>4, <2>2
<1> HIDE DEF swapped, after
<1>6. /\ Tradable(rev)
      /\ rev.input_vault = after.output_vault
      /\ rev.output_vault = after.input_vault
  <2>1. /\ after \in Market(Nat, Mints(Nat)) /\ BoundedRates(after.rates)
    BY <1>4 DEF Tradable
  <2>2. rev \in Market(Nat, Mints(Nat)) /\ rev.rates = after.rates
        /\ rev.input_vault = after.output_vault
        /\ rev.output_vault = after.input_vault
    BY <2>1 DEF Market, Reversed
  <2> QED
    BY <1>5, <2>1, <2>2 DEF Tradable
<1>7. after.input_vault \in Nat
  BY <1>4, MarketTypes
<1> HIDE DEF rev
<1>8. /\ rev.input_mint \in Mints(Nat) /\ rev.output_mint \in Mints(Nat)
  BY <1>6, MarketTypes
<1>9. ActualAmountIn(rev, c) \in Nat /\ ActualAmountIn(rev, c) <= c
  BY <1>2, <1>8, TransferFeeBounded DEF ActualAmountIn
<1>10. b \in Nat /\ b <= swapped
  <2>1. b \in Nat /\ b <= ActualAmountIn(rev, c)
    BY <1>6, <1>9, NetGrows
  <2> HIDE DEF b
  <2> QED
    BY <1>2, <1>9, <2>1
<1>11. /\ Swapped(rev, b) \in Nat
       /\ Out(rev, Swapped(rev, b)) \in Nat
       /\ Out(rev, Swapped(rev, b)) <= Swapped(rev, b)
       /\ BaseInputReceived(rev, c) \in Nat
       /\ BaseInputReceived(rev, c) = AmountReceived(rev.output_mint, Out(rev, Swapped(rev, b)))
  BY <1>2, <1>6, BaseInputParts
<1> HIDE DEF b
<1>12. Swapped(rev, b) <= sent
  <2>1. swapped = swap_base_input_without_fees(net, m.input_vault, m.output_vault)
    BY DEF swapped, Swapped
  <2>2. Swapped(rev, b)
          = swap_base_input_without_fees(b, after.output_vault, after.input_vault)
    BY <1>6 DEF Swapped
  <2> DEFINE X  == m.input_vault
             Y  == m.output_vault
             X1 == after.input_vault
             Y1 == after.output_vault
  <2>3. /\ X \in Nat \ {0} /\ Y \in Nat /\ X1 \in Nat /\ Y1 \in Nat \ {0}
        /\ X1 <= X + sent /\ Y1 = Y - swap_base_input_without_fees(net, X, Y)
        /\ b <= swap_base_input_without_fees(net, X, Y)
    BY <1>1, <1>4, <1>5, <1>7, <1>10, <2>1
  <2> HIDE DEF X, Y, X1, Y1
  <2>4. swap_base_input_without_fees(b, Y1, X1) <= sent
    BY <1>2, <1>10, <2>3, CurveRoundTrip
  <2> QED
    BY <2>2, <2>4 DEF X1, Y1
<1>13. BaseInputReceived(rev, c) <= a
  <2>1. AmountReceived(rev.output_mint, Out(rev, Swapped(rev, b))) <= Out(rev, Swapped(rev, b))
    BY <1>8, <1>11, TransferFeeBounded
  <2> QED
    BY <1>2, <1>11, <1>12, <2>1
<1>14. ReceivedFrom(rev, c) <= a
  BY <1>13 DEF ReceivedFrom
<1> QED
  BY <1>14 DEF rev, after, c

(* ------------------ an update of the oracle account ------------------ *)

CumulativePrices == [Tokens -> 0..U128_MAX]

NothingAccumulated == [t \in Tokens |-> 0]

\* The ring index that update (oracle.rs:95-99) moves to is again a slot.
LEMMA NextIndexType ==
  ASSUME NEW state, state.observation_index \in Slots
  PROVE  NextIndex(state) \in Slots
  BY ObservationAssumption DEF NextIndex, Slots

\* A wrapping sum stays in the width of the counter (oracle.rs:118-125).
LEMMA WrappingAddType ==
  ASSUME NEW a \in Nat, NEW b \in Nat
  PROVE  wrapping_add(a, b) \in 0..U128_MAX
  BY ObservationAssumption DEF wrapping_add

\* Both elapsed times of update are times: the subtraction saturates (oracle.rs:104-107).
LEMMA SincesType ==
  ASSUME NEW M \in Nat, NEW state \in ObservationStates(0..M), NEW time \in 0..M
  PROVE  /\ LastUpdate(state) \in 0..M
         /\ SinceLastUpdate(state, time) \in 0..M
         /\ SinceLastObservation(state, time) \in 0..M
<1>1. /\ state.observation_index \in Slots
      /\ state.last_update_timestamp \in 0..M
      /\ \A s \in Slots : state.observations[s].block_timestamp \in 0..M
  BY DEF ObservationStates
<1>2. LastObservation(state).block_timestamp \in 0..M
  BY <1>1 DEF LastObservation
<1> QED
  BY <1>1, <1>2 DEF LastUpdate, SinceLastUpdate, SinceLastObservation, SaturatingSub

\* The new cumulative prices of update (oracle.rs:111-136) fit in the counter.
LEMMA AccumulatedType ==
  ASSUME NEW M \in Nat, NEW state \in ObservationStates(0..M), NEW time \in 0..M,
         NEW price \in [Tokens -> Nat]
  PROVE  Accumulated(state, time, price) \in CumulativePrices
<1> DEFINE before == LastObservation(state).cumulative_token_price_x32
           since == SinceLastUpdate(state, time)
<1>1. before \in CumulativePrices
  <2>1. /\ state.observation_index \in Slots
        /\ \A s \in Slots :
             state.observations[s].cumulative_token_price_x32 \in CumulativePrices
    BY DEF ObservationStates, CumulativePrices
  <2> QED
    BY <2>1 DEF LastObservation
<1>2. since \in Nat
  <2>1. SinceLastUpdate(state, time) \in 0..M
    BY SincesType
  <2> QED
    BY <2>1
<1>3. \A t \in Tokens : before[t] \in Nat /\ price[t] * since \in Nat
  <2>1. \A t \in Tokens : before[t] \in Nat /\ price[t] \in Nat
    BY <1>1, ObservationAssumption DEF CumulativePrices
  <2> HIDE DEF since, before
  <2> QED
    BY <1>2, <2>1
<1> HIDE DEF before, since
<1>4. \A t \in Tokens : wrapping_add(before[t], price[t] * since) \in 0..U128_MAX
  BY <1>3, WrappingAddType
<1> QED
  BY <1>4 DEF Accumulated, CumulativePrices, before, since

\* An update keeps the account's shape: the index stays in the ring and the
\* wrapping sum in its width.
LEMMA UpdateType ==
  ASSUME NEW M \in Nat, NEW state \in ObservationStates(0..M), NEW time \in 0..M,
         NEW price \in [Tokens -> Nat]
  PROVE  update(state, time, price) \in ObservationStates(0..M)
<1> DEFINE Entries == [block_timestamp: 0..M, cumulative_token_price_x32: CumulativePrices]
<1>1. /\ state.observation_index \in Slots
      /\ state.observations \in [Slots -> Entries]
      /\ state = [initialized |-> state.initialized,
                  observation_index |-> state.observation_index,
                  observations |-> state.observations,
                  last_update_timestamp |-> state.last_update_timestamp]
  BY DEF ObservationStates, CumulativePrices
<1>2. Accumulated(state, time, price) \in CumulativePrices
  BY AccumulatedType
<1>3. LastUpdate(state) \in 0..M
  BY SincesType
<1>4. FirstUpdate(state, time) \in ObservationStates(0..M)
  <2>1. [block_timestamp |-> time, cumulative_token_price_x32 |-> [t \in Tokens |-> 0]] \in Entries
    BY ObservationAssumption DEF CumulativePrices
  <2> QED
    BY <1>1, <2>1 DEF FirstUpdate, ObservationStates, CumulativePrices
<1>5. [state EXCEPT !.last_update_timestamp = LastUpdate(state)] \in ObservationStates(0..M)
  BY <1>3 DEF ObservationStates
<1>6. UpdateInPlace(state, time, price) \in ObservationStates(0..M)
  <2>1. [state.observations[state.observation_index] EXCEPT
           !.cumulative_token_price_x32 = Accumulated(state, time, price)] \in Entries
    BY <1>1, <1>2
  <2> QED
    BY <1>1, <2>1 DEF UpdateInPlace, ObservationStates, CumulativePrices
<1>7. OpenNextSlot(state, time, price) \in ObservationStates(0..M)
  <2>1. NextIndex(state) \in Slots
    BY <1>1, NextIndexType
  <2>2. [block_timestamp |-> time,
         cumulative_token_price_x32 |-> Accumulated(state, time, price)] \in Entries
    BY <1>2
  <2> QED
    BY <1>1, <2>1, <2>2 DEF OpenNextSlot, ObservationStates, CumulativePrices
<1> QED
  BY <1>4, <1>5, <1>6, <1>7 DEF update

\* The first update starts the account with nothing accumulated.
LEMMA FirstUpdateStarts ==
  ASSUME NEW M \in Nat, NEW state \in ObservationStates(0..M), NEW time \in 1..M,
         NEW price, ~state.initialized
  PROVE  /\ update(state, time, price).initialized = TRUE
         /\ LastUpdate(update(state, time, price)) = time
         /\ LastObservation(update(state, time, price)).cumulative_token_price_x32
              = NothingAccumulated
<1> DEFINE new == FirstUpdate(state, time)
<1>1. update(state, time, price) = new
  BY DEF update
<1>2. /\ state.observation_index \in Slots
      /\ state.observations = [s \in Slots |-> state.observations[s]]
  BY DEF ObservationStates
<1>3. /\ new.initialized = TRUE
      /\ new.observation_index = state.observation_index
      /\ new.last_update_timestamp = time
      /\ new.observations[state.observation_index]
           = [block_timestamp |-> time, cumulative_token_price_x32 |-> NothingAccumulated]
  BY <1>2 DEF FirstUpdate, ObservationStates, NothingAccumulated
<1> HIDE DEF new
<1> QED
  BY <1>1, <1>3 DEF LastUpdate, LastObservation

\* An update in the second of the one before it changes nothing that counts.
LEMMA SameSecondStutters ==
  ASSUME NEW M \in Nat, NEW state \in ObservationStates(0..M), NEW time,
         NEW price, state.initialized, SameSecond(state, time)
  PROVE  /\ update(state, time, price).initialized = state.initialized
         /\ LastUpdate(update(state, time, price)) = LastUpdate(state)
         /\ LastObservation(update(state, time, price)) = LastObservation(state)
<1> DEFINE new == [state EXCEPT !.last_update_timestamp = LastUpdate(state)]
<1>1. update(state, time, price) = new
  BY DEF update
<1>2. /\ new.initialized = state.initialized
      /\ new.observation_index = state.observation_index
      /\ new.observations = state.observations
      /\ new.last_update_timestamp = LastUpdate(state)
  BY DEF ObservationStates
<1> HIDE DEF new
<1>3. LastObservation(new) = LastObservation(state)
  BY <1>2 DEF LastObservation
<1> QED
  BY <1>1, <1>2, <1>3 DEF LastUpdate

\* Any other update accounts for exactly the time since the last one, whether
\* it stays in the open slot or opens the next, at the ring's end as well.
LEMMA UpdateAdvances ==
  ASSUME NEW M \in Nat, NEW state \in ObservationStates(0..M), NEW time \in 1..M,
         NEW price, state.initialized, ~SameSecond(state, time)
  PROVE  /\ update(state, time, price).initialized = state.initialized
         /\ LastUpdate(update(state, time, price)) = time
         /\ LastObservation(update(state, time, price)).cumulative_token_price_x32
              = Accumulated(state, time, price)
<1>1. /\ state.observation_index \in Slots
      /\ state.observations = [s \in Slots |-> state.observations[s]]
  BY DEF ObservationStates
<1>2. CASE SinceLastObservation(state, time) < OBSERVATION_UPDATE_DURATION_DEFAULT
  <2> DEFINE new == UpdateInPlace(state, time, price)
  <2>1. update(state, time, price) = new
    BY <1>2 DEF update
  <2>2. /\ new.initialized = state.initialized
        /\ new.observation_index = state.observation_index
        /\ new.last_update_timestamp = time
        /\ new.observations[state.observation_index].cumulative_token_price_x32
             = Accumulated(state, time, price)
    <3>1. state.observations[state.observation_index]
            \in [block_timestamp: 0..M, cumulative_token_price_x32: [Tokens -> 0..U128_MAX]]
      BY <1>1 DEF ObservationStates
    <3> QED
      BY <1>1, <3>1 DEF UpdateInPlace, ObservationStates
  <2> HIDE DEF new
  <2> QED
    BY <2>1, <2>2 DEF LastUpdate, LastObservation
<1>3. CASE ~(SinceLastObservation(state, time) < OBSERVATION_UPDATE_DURATION_DEFAULT)
  <2> DEFINE new == OpenNextSlot(state, time, price)
             next == NextIndex(state)
  <2>1. update(state, time, price) = new
    BY <1>3 DEF update
  <2>2. next \in Slots
    BY <1>1, NextIndexType
  <2> HIDE DEF next
  <2>3. /\ new.initialized = state.initialized
        /\ new.observation_index = next
        /\ new.last_update_timestamp = time
        /\ new.observations[next].cumulative_token_price_x32 = Accumulated(state, time, price)
    BY <1>1, <2>2 DEF OpenNextSlot, ObservationStates, next
  <2> HIDE DEF new
  <2> QED
    BY <2>1, <2>3 DEF LastUpdate, LastObservation
<1> QED
  BY <1>2, <1>3

=============================================================================
