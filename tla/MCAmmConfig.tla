------------------------------ MODULE MCAmmConfig ------------------------------
(* The small instance of AmmConfig: rates on both sides of the denominator. *)
EXTENDS AmmConfig, TLC

CONSTANTS Rates, PoolFees

MCConfigValues ==
  [p \in {"trade_fee_rate", "protocol_fee_rate", "fund_fee_rate", "creator_fee_rate"} |-> Rates]
    @@ [p \in {"create_pool_fee"} |-> PoolFees]
    @@ [p \in {"disable_create_pool"} |-> {0, 1, 2}]

=============================================================================
