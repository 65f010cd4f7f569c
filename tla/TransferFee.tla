------------------------------ MODULE TransferFee ------------------------------
(***************************************************************************)
(* The fee a token mint takes on a transfer, and what the program computes *)
(* about it before it transfers: get_transfer_fee and                      *)
(* get_transfer_inverse_fee of utils/token.rs.  The fee formulas are those *)
(* of the SPL Token-2022 program, which is not part of the repository;     *)
(* utils/token.rs calls them, and tests/utils/fee.ts restates them.        *)
(*                                                                         *)
(* A mint is a record: the program it belongs to, and the fee in force in  *)
(* the current epoch.  A Token-2022 mint without the transfer fee extension*)
(* is one with transfer_fee_basis_points = 0.                              *)
(***************************************************************************)
EXTENDS Integers

CONSTANT MAX_FEE_BASIS_POINTS   \* 10000 in the code, small in the runs

ASSUME BasisPointsAssumption == MAX_FEE_BASIS_POINTS \in Nat \ {0}

Mints(bound) ==
  [program: {"spl_token", "token_2022"},
   transfer_fee_basis_points: 0..MAX_FEE_BASIS_POINTS,
   maximum_fee: bound]

CeilDiv(dividend, divisor) == (dividend + divisor - 1) \div divisor

AtMost(amount, limit) == IF amount < limit THEN amount ELSE limit

\* TransferFee::calculate_fee
CalculateFee(mint, pre_fee_amount) ==
  IF mint.transfer_fee_basis_points = 0 \/ pre_fee_amount = 0
  THEN 0
  ELSE AtMost(CeilDiv(pre_fee_amount * mint.transfer_fee_basis_points, MAX_FEE_BASIS_POINTS),
              mint.maximum_fee)

\* TransferFee::calculate_pre_fee_amount: the amount to send for
\* post_fee_amount to arrive.
PreFeeAmount(mint, post_fee_amount) ==
  LET raw == CeilDiv(post_fee_amount * MAX_FEE_BASIS_POINTS,
                     MAX_FEE_BASIS_POINTS - mint.transfer_fee_basis_points)
  IN  IF mint.transfer_fee_basis_points = 0 \/ post_fee_amount = 0
      THEN post_fee_amount
      ELSE IF \/ mint.transfer_fee_basis_points = MAX_FEE_BASIS_POINTS
              \/ raw - post_fee_amount >= mint.maximum_fee
           THEN post_fee_amount + mint.maximum_fee
           ELSE raw

\* TransferFee::calculate_inverse_fee
CalculateInverseFee(mint, post_fee_amount) ==
  CalculateFee(mint, PreFeeAmount(mint, post_fee_amount))

(* --------------------------- utils/token.rs ---------------------------- *)

get_transfer_fee(mint, pre_fee_amount) ==
  IF mint.program = "spl_token" THEN 0 ELSE CalculateFee(mint, pre_fee_amount)

\* charges the fee on what is to arrive instead of on what is to be sent
BugFeeOfNetAmount(mint, post_fee_amount) == get_transfer_fee(mint, post_fee_amount)

get_transfer_inverse_fee(mint, post_fee_amount) ==
  IF mint.program = "spl_token"
  THEN 0
  ELSE IF mint.transfer_fee_basis_points = MAX_FEE_BASIS_POINTS
       THEN mint.maximum_fee
       ELSE CalculateInverseFee(mint, post_fee_amount)

\* The code's own check of the inverse fee: charged on the grossed-up amount,
\* the fee must come out the same (TransferFeeCalculateNotMatch otherwise).
InverseFeeMatches(mint, post_fee_amount) ==
  LET fee == CalculateInverseFee(mint, post_fee_amount)
  IN  CalculateFee(mint, post_fee_amount + fee) = fee

\* Ok(..): InvalidInput for nothing to receive, and the check above.
TransferInverseFeeOk(mint, post_fee_amount) ==
  mint.program = "token_2022" =>
    /\ post_fee_amount # 0
    /\ \/ mint.transfer_fee_basis_points = MAX_FEE_BASIS_POINTS
       \/ InverseFeeMatches(mint, post_fee_amount)

\* What the destination of a transfer gets; the rest stays withheld in it for
\* the mint's fee authority and is not part of its amount.
AmountReceived(mint, pre_fee_amount) == pre_fee_amount - get_transfer_fee(mint, pre_fee_amount)

=============================================================================
