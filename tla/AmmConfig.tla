------------------------------- MODULE AmmConfig -------------------------------
(***************************************************************************)
(* One AmmConfig account: states/config.rs, create_amm_config (with the    *)
(* asserts of lib.rs) and update_amm_config.  Pools read it on every swap, *)
(* so an update takes effect in the middle of a pool's life.  Both         *)
(* instructions are signed by the program's admin key.                     *)
(***************************************************************************)
EXTENDS Integers

CONSTANTS
  FEE_RATE_DENOMINATOR_VALUE,
  Admin,          \* crate::admin::ID
  Keys,           \* public keys, the admin's and the default one among them
  DefaultPubkey,  \* Pubkey::default()
  ConfigValues    \* the values the admin passes for each numeric parameter

ASSUME AmmConfigAssumption ==
  /\ FEE_RATE_DENOMINATOR_VALUE \in Nat \ {0}
  /\ Admin \in Keys
  /\ DefaultPubkey \in Keys
  /\ Admin # DefaultPubkey
  /\ ConfigValues \in [{"trade_fee_rate", "protocol_fee_rate", "fund_fee_rate",
                        "create_pool_fee", "disable_create_pool", "creator_fee_rate"}
                         -> SUBSET Nat]

VARIABLE amm_config

\* `created` stands for the account's discriminator.
AmmConfigs ==
  [created: BOOLEAN,
   disable_create_pool: BOOLEAN,
   trade_fee_rate: Nat,
   protocol_fee_rate: Nat,
   fund_fee_rate: Nat,
   create_pool_fee: Nat,
   protocol_owner: Keys,
   fund_owner: Keys,
   creator_fee_rate: Nat]

\* An account that is not there reads as zeroes.
ZeroedConfig ==
  [created |-> FALSE, disable_create_pool |-> FALSE, trade_fee_rate |-> 0,
   protocol_fee_rate |-> 0, fund_fee_rate |-> 0, create_pool_fee |-> 0,
   protocol_owner |-> DefaultPubkey, fund_owner |-> DefaultPubkey, creator_fee_rate |-> 0]

Init == amm_config = ZeroedConfig

(* The assert!s of lib.rs and update_config.rs.  A sum that overflows u64    *)
(* panics too, so Nat addition loses nothing.  A definition named Bug... is  *)
(* a plausible mistake in the definition after it; nothing uses it.          *)

TradeRatesOk(trade_fee_rate, creator_fee_rate) ==
  trade_fee_rate + creator_fee_rate < FEE_RATE_DENOMINATOR_VALUE

\* checks each rate, but not their sum
BugSharesAlone(protocol_fee_rate, fund_fee_rate) ==
  /\ protocol_fee_rate <= FEE_RATE_DENOMINATOR_VALUE
  /\ fund_fee_rate <= FEE_RATE_DENOMINATOR_VALUE

SharesOk(protocol_fee_rate, fund_fee_rate) ==
  /\ protocol_fee_rate <= FEE_RATE_DENOMINATOR_VALUE
  /\ fund_fee_rate <= FEE_RATE_DENOMINATOR_VALUE
  /\ fund_fee_rate + protocol_fee_rate <= FEE_RATE_DENOMINATOR_VALUE

create_amm_config(trade_fee_rate, protocol_fee_rate, fund_fee_rate, create_pool_fee, creator_fee_rate) ==
  /\ ~amm_config.created          \* Anchor's init constraint
  /\ TradeRatesOk(trade_fee_rate, creator_fee_rate)
  /\ SharesOk(protocol_fee_rate, fund_fee_rate)
  /\ amm_config' =
       [created |-> TRUE,
        disable_create_pool |-> FALSE,
        trade_fee_rate |-> trade_fee_rate,
        protocol_fee_rate |-> protocol_fee_rate,
        fund_fee_rate |-> fund_fee_rate,
        create_pool_fee |-> create_pool_fee,
        protocol_owner |-> Admin,
        fund_owner |-> Admin,
        creator_fee_rate |-> creator_fee_rate]

CreateAmmConfig ==
  \E trade \in ConfigValues["trade_fee_rate"], protocol \in ConfigValues["protocol_fee_rate"],
     fund \in ConfigValues["fund_fee_rate"], pool_fee \in ConfigValues["create_pool_fee"],
     creator \in ConfigValues["creator_fee_rate"] :
       create_amm_config(trade, protocol, fund, pool_fee, creator)

(* update_amm_config(param, value): one disjunct per value of param, 0 to 7. *)

update_trade_fee_rate(value) ==
  /\ TradeRatesOk(value, amm_config.creator_fee_rate)
  /\ amm_config' = [amm_config EXCEPT !.trade_fee_rate = value]

update_protocol_fee_rate(value) ==
  /\ SharesOk(value, amm_config.fund_fee_rate)
  /\ amm_config' = [amm_config EXCEPT !.protocol_fee_rate = value]

update_fund_fee_rate(value) ==
  /\ SharesOk(amm_config.protocol_fee_rate, value)
  /\ amm_config' = [amm_config EXCEPT !.fund_fee_rate = value]

set_new_protocol_owner(new_owner) ==
  /\ new_owner # DefaultPubkey
  /\ amm_config' = [amm_config EXCEPT !.protocol_owner = new_owner]

set_new_fund_owner(new_fund_owner) ==
  /\ new_fund_owner # DefaultPubkey
  /\ amm_config' = [amm_config EXCEPT !.fund_owner = new_fund_owner]

set_create_pool_fee(value) ==
  amm_config' = [amm_config EXCEPT !.create_pool_fee = value]

set_disable_create_pool(value) ==
  amm_config' = [amm_config EXCEPT !.disable_create_pool = (value # 0)]

update_creator_fee_rate(value) ==
  /\ TradeRatesOk(amm_config.trade_fee_rate, value)
  /\ amm_config' = [amm_config EXCEPT !.creator_fee_rate = value]

UpdateAmmConfig ==
  /\ amm_config.created
  /\ \/ \E value \in ConfigValues["trade_fee_rate"] : update_trade_fee_rate(value)
     \/ \E value \in ConfigValues["protocol_fee_rate"] : update_protocol_fee_rate(value)
     \/ \E value \in ConfigValues["fund_fee_rate"] : update_fund_fee_rate(value)
     \/ \E key \in Keys : set_new_protocol_owner(key)
     \/ \E key \in Keys : set_new_fund_owner(key)
     \/ \E value \in ConfigValues["create_pool_fee"] : set_create_pool_fee(value)
     \/ \E value \in ConfigValues["disable_create_pool"] : set_disable_create_pool(value)
     \/ \E value \in ConfigValues["creator_fee_rate"] : update_creator_fee_rate(value)

Next == CreateAmmConfig \/ UpdateAmmConfig

Spec == Init /\ [][Next]_amm_config

(* ------------------------------ properties ----------------------------- *)

\* The account has the shape the code declares.
TypeOK == amm_config \in AmmConfigs

\* Whatever sequence of updates, each checked against the others as they are at
\* the time: what is taken out of a swap's input is less than the input, and
\* protocol and fund together take no more than the trade fee.
RatesBounded ==
  /\ amm_config.trade_fee_rate + amm_config.creator_fee_rate < FEE_RATE_DENOMINATOR_VALUE
  /\ amm_config.protocol_fee_rate + amm_config.fund_fee_rate <= FEE_RATE_DENOMINATOR_VALUE

\* "param - The value can be 0 | 1 | 2 | 3 | 4, otherwise will report a error":
\* an update never touches what parameters 5, 6 and 7 set.  The code accepts them.
OnlyDocumentedParams ==
  [][amm_config.created =>
       /\ amm_config'.create_pool_fee = amm_config.create_pool_fee
       /\ amm_config'.disable_create_pool = amm_config.disable_create_pool
       /\ amm_config'.creator_fee_rate = amm_config.creator_fee_rate]_amm_config

=============================================================================
