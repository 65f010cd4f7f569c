---------------------------- MODULE ComponentProofs ----------------------------
(***************************************************************************)
(* Three components that share no state with each other (MCComponents      *)
(* checks them in one instance), each proved for every value of its        *)
(* constants.                                                              *)
(*                                                                         *)
(* The fee configuration: its rates stay bounded, whatever values the      *)
(* admin passes in whatever order.                                         *)
(*                                                                         *)
(* The accounts of a pool, for any number of addresses, any sizes and      *)
(* rent, any mints and any gifts: nobody can block or forge a pool.        *)
(*                                                                         *)
(* The client's log parser is always in the right context, for any nesting *)
(* of any programs and logs of any length, provided that no other program  *)
(* writes a message that reads like a line of the runtime: such a message  *)
(* pushes or pops the parser's stack, and ContextIsReal is lost.           *)
(***************************************************************************)
EXTENDS AmmConfig, Accounts, LogParser, SequenceTheorems, TLAPS

(* ----------------------- the fee configuration ----------------------- *)

ConfigInv == TypeOK /\ RatesBounded

\* Every field of a config in AmmConfigs is a number or a flag of the right kind.
LEMMA ConfigValueType ==
  /\ \A p \in {"trade_fee_rate", "protocol_fee_rate", "fund_fee_rate", "create_pool_fee",
               "disable_create_pool", "creator_fee_rate"} : ConfigValues[p] \subseteq Nat
  /\ FEE_RATE_DENOMINATOR_VALUE \in Nat \ {0}
  BY AmmConfigAssumption

\* create_amm_config (lib.rs:58-80) leaves a config whose rates are bounded.
LEMMA CreateKeepsConfig ==
  ASSUME ConfigInv, CreateAmmConfig
  PROVE  ConfigInv'
  BY ConfigValueType, AmmConfigAssumption
     DEF ConfigInv, TypeOK, RatesBounded, AmmConfigs, CreateAmmConfig, create_amm_config,
         TradeRatesOk, SharesOk

\* Each update checks its new rate against the others as they are then: one
\* step per parameter.
LEMMA UpdateKeepsConfig ==
  ASSUME ConfigInv, UpdateAmmConfig
  PROVE  ConfigInv'
<1> USE DEF ConfigInv, TypeOK, RatesBounded, AmmConfigs
<1>1. CASE \E value \in ConfigValues["trade_fee_rate"] : update_trade_fee_rate(value)
  BY <1>1, ConfigValueType DEF update_trade_fee_rate, TradeRatesOk
<1>2. CASE \E value \in ConfigValues["protocol_fee_rate"] : update_protocol_fee_rate(value)
  BY <1>2, ConfigValueType DEF update_protocol_fee_rate, SharesOk
<1>3. CASE \E value \in ConfigValues["fund_fee_rate"] : update_fund_fee_rate(value)
  BY <1>3, ConfigValueType DEF update_fund_fee_rate, SharesOk
<1>4. CASE \E key \in Keys : set_new_protocol_owner(key) \/ set_new_fund_owner(key)
  BY <1>4 DEF set_new_protocol_owner, set_new_fund_owner
<1>5. CASE \E value \in ConfigValues["create_pool_fee"] : set_create_pool_fee(value)
  BY <1>5, ConfigValueType DEF set_create_pool_fee
<1>6. CASE \E value \in ConfigValues["disable_create_pool"] : set_disable_create_pool(value)
  BY <1>6 DEF set_disable_create_pool
<1>7. CASE \E value \in ConfigValues["creator_fee_rate"] : update_creator_fee_rate(value)
  BY <1>7, ConfigValueType DEF update_creator_fee_rate, TradeRatesOk
<1> QED
  BY <1>1, <1>2, <1>3, <1>4, <1>5, <1>6, <1>7 DEF UpdateAmmConfig

\* Whatever the admin sets in whatever order, a swap is charged less than its
\* input, and protocol and fund together no more than the trade fee.
THEOREM RatesStayBounded == Spec => []RatesBounded
<1>1. Init => ConfigInv
  BY AmmConfigAssumption DEF Init, ConfigInv, TypeOK, RatesBounded, AmmConfigs, ZeroedConfig
<1>2. ConfigInv /\ [Next]_amm_config => ConfigInv'
  <2>1. CASE UNCHANGED amm_config
    BY <2>1 DEF ConfigInv, TypeOK, RatesBounded
  <2> QED
    BY <2>1, CreateKeepsConfig, UpdateKeepsConfig DEF Next
<1>3. ConfigInv => RatesBounded
  BY DEF ConfigInv
<1> QED
  BY <1>1, <1>2, <1>3, PTL DEF Spec

(* ------------------------- a pool's accounts ------------------------- *)

\* What the system program owns and has no data of.
Untouched(acc_info) ==
  acc_info.owner = "system" /\ acc_info.space = 0 /\ acc_info.discriminator = "zeroed"

\* Until the pool is created, nobody but the program can sign for a vault or for
\* the derived address.
DerivedUntouched ==
  \A k \in PoolKeys \ created :
    /\ \A v \in Vaults : Untouched(account[k][v])
    /\ k = Pda => Untouched(account[k]["pool_state"])

\* An account given to the system program or to this one arrives zeroed.
ArriveZeroed ==
  \A k \in PoolKeys \ created :
    account[k]["pool_state"].owner \in {"system", "cp_swap"}
      => account[k]["pool_state"].discriminator = "zeroed"

\* The pool belongs to this program and the vaults to the mints' programs.
CreatedBelong ==
  \A k \in created :
    /\ account[k]["pool_state"].owner = "cp_swap"
    /\ account[k]["pool_state"].discriminator = "PoolState"
    /\ \A v \in Vaults : account[k][v].owner = MintPrograms[v]

AccountsInv ==
  /\ AccountsTypeOK
  /\ DerivedUntouched
  /\ ArriveZeroed
  /\ CreatedBelong
  /\ CreatedAreRentExempt

\* An account is a record of its four parts.
LEMMA PartsOfAccount ==
  ASSUME NEW acc_info \in Accounts
  PROVE  /\ acc_info.owner \in Owners /\ acc_info.lamports \in Nat
         /\ acc_info.space \in Nat /\ acc_info.discriminator \in Discriminators
  BY DEF Accounts

\* Whatever lamports were there before, a new account has its rent and the space
\* that was asked for.
LEMMA NewAccount ==
  ASSUME NEW acc_info \in Accounts, NEW space \in Nat, NEW program \in Owners
  PROVE  LET new == create_or_allocate_account(program, acc_info, space)
         IN  /\ new \in Accounts
             /\ new.owner = program /\ new.space = space /\ new.discriminator = "zeroed"
             /\ new.lamports >= Rent_minimum_balance(space)
<1>1. acc_info.lamports \in Nat
  BY PartsOfAccount
<1>2. Rent_minimum_balance(space) \in Nat
  BY AccountsAssumption DEF Rent_minimum_balance
<1>3. /\ acc_info.lamports + LamportsAdded(acc_info, space) \in Nat
      /\ acc_info.lamports + LamportsAdded(acc_info, space) >= Rent_minimum_balance(space)
  BY <1>1, <1>2 DEF LamportsAdded
<1> QED
  BY <1>3 DEF create_or_allocate_account, Accounts, Discriminators

\* A vault's space holds the extensions of its mint.
LEMMA VaultSpace ==
  ASSUME NEW v \in Vaults
  PROVE  /\ TokenAccountSpace(v) \in Nat
         /\ TokenAccountSpace(v) >= TOKEN_LEN + AccountExtensions[v]
         /\ MintPrograms[v] \in {"spl_token", "token_2022"}
  BY AccountsAssumption DEF TokenAccountSpace

\* The program succeeds in making a vault where nothing but lamports is.
LEMMA VaultCanBeMade ==
  ASSUME NEW v \in Vaults, NEW acc_info \in Accounts, Untouched(acc_info)
  PROVE  TokenAccountOk(v, acc_info)
<1>1. MintPrograms[v] \in Owners
  BY VaultSpace DEF Owners
<1>2. LET new == NewTokenAccount(v, acc_info)
      IN  /\ new.owner = MintPrograms[v] /\ new.space = TokenAccountSpace(v)
          /\ new.discriminator = "zeroed"
          /\ new.lamports >= Rent_minimum_balance(TokenAccountSpace(v))
  BY <1>1, NewAccount, VaultSpace DEF NewTokenAccount
<1> QED
  BY <1>2, VaultSpace DEF TokenAccountOk, CreateOrAllocateOk, Untouched, InitializeAccount3Ok

\* The pool account as create_pool makes it.
LEMMA NewPool ==
  ASSUME AccountsTypeOK, NEW k \in PoolKeys
  PROVE  /\ NewPoolAccount(k) \in Accounts
         /\ NewPoolAccount(k).owner = "cp_swap"
         /\ NewPoolAccount(k).space = POOL_LEN
         /\ NewPoolAccount(k).discriminator = "zeroed"
         /\ NewPoolAccount(k).lamports >= Rent_minimum_balance(POOL_LEN)
<1>1. account[k]["pool_state"] \in Accounts
  BY DEF AccountsTypeOK, Roles
<1>2. "cp_swap" \in Owners
  BY DEF Owners
<1>3. POOL_LEN \in Nat
  BY AccountsAssumption
<1> QED
  BY <1>1, <1>2, <1>3, NewAccount DEF NewPoolAccount

\* The same for the pool account.
LEMMA PoolCanBeMade ==
  ASSUME AccountsTypeOK, NEW k \in PoolKeys, Untouched(account[k]["pool_state"])
  PROVE  CreatePoolOk(k, k # Pda) /\ LoadInitOk(NewPoolAccount(k))
  BY NewPool DEF CreatePoolOk, CreateOrAllocateOk, Untouched, try_from_unchecked, OwnedByProgram,
                 LoadInitOk

\* At first no address has an account.
LEMMA AccountsInitHasInv == AccountsInit => AccountsInv
<1> SUFFICES ASSUME AccountsInit PROVE AccountsInv
  OBVIOUS
<1>1. Absent \in Accounts /\ Untouched(Absent)
  BY DEF Absent, Accounts, Owners, Discriminators, Untouched
<1>2. AccountsTypeOK
  BY <1>1 DEF AccountsInit, AccountsTypeOK
<1> QED
  BY <1>1, <1>2, AccountsAssumption
     DEF AccountsInit, AccountsInv, DerivedUntouched, ArriveZeroed, CreatedBelong,
         CreatedAreRentExempt, Roles, Untouched

\* What a vault is after the creation of its pool.
LEMMA VaultMade ==
  ASSUME NEW v \in Vaults, NEW acc_info \in Accounts
  PROVE  LET vault == create_token_account(v, acc_info)
         IN  /\ vault \in Accounts
             /\ vault.owner = MintPrograms[v]
             /\ vault.lamports >= Rent_minimum_balance(vault.space)
<1>1. MintPrograms[v] \in Owners
  BY VaultSpace DEF Owners
<1>2. /\ NewTokenAccount(v, acc_info) \in Accounts
      /\ NewTokenAccount(v, acc_info).owner = MintPrograms[v]
      /\ NewTokenAccount(v, acc_info).space = TokenAccountSpace(v)
      /\ NewTokenAccount(v, acc_info).lamports >= Rent_minimum_balance(TokenAccountSpace(v))
  BY <1>1, NewAccount, VaultSpace DEF NewTokenAccount
<1> QED
  BY <1>2 DEF create_token_account, Accounts, Discriminators

\* What the pool account is after the creation of the pool.
LEMMA PoolMade ==
  ASSUME AccountsTypeOK, NEW k \in PoolKeys
  PROVE  LET pool == load_init(NewPoolAccount(k))
         IN  /\ pool \in Accounts
             /\ pool.owner = "cp_swap" /\ pool.discriminator = "PoolState"
             /\ pool.lamports >= Rent_minimum_balance(pool.space)
  BY NewPool DEF load_init, Accounts, Discriminators

\* The creation of a pool.
LEMMA InitializeKeepsAccounts ==
  ASSUME AccountsInv, NEW k \in PoolKeys, initialize(k, k # Pda)
  PROVE  AccountsInv'
<1> DEFINE made == [role \in Roles |-> IF role = "pool_state"
                                       THEN load_init(NewPoolAccount(k))
                                       ELSE create_token_account(role, account[k][role])]
<1>1. account \in [PoolKeys -> [Roles -> Accounts]] /\ created \subseteq PoolKeys /\ AccountsTypeOK
  BY DEF AccountsInv, AccountsTypeOK
<1>2. account' = [account EXCEPT ![k] = made] /\ created' = created \cup {k}
  BY DEF initialize
<1>3. \A v \in Vaults : v \in Roles /\ v # "pool_state"
  BY DEF Vaults, Roles
<1>4. /\ made["pool_state"] \in Accounts
      /\ made["pool_state"].owner = "cp_swap" /\ made["pool_state"].discriminator = "PoolState"
      /\ made["pool_state"].lamports >= Rent_minimum_balance(made["pool_state"].space)
  BY <1>1, PoolMade DEF Roles
<1>5. ASSUME NEW v \in Vaults
      PROVE  /\ made[v] \in Accounts
             /\ made[v].owner = MintPrograms[v]
             /\ made[v].lamports >= Rent_minimum_balance(made[v].space)
  <2>1. account[k][v] \in Accounts /\ made[v] = create_token_account(v, account[k][v])
    BY <1>1, <1>3
  <2> QED
    BY <2>1, VaultMade
<1>6. made \in [Roles -> Accounts]
  BY <1>4, <1>5 DEF Roles
<1> HIDE DEF made
<1>7. /\ account'[k] = made
      /\ \A j \in PoolKeys : j # k => account'[j] = account[j]
  BY <1>1, <1>2
<1>8. AccountsTypeOK'
  BY <1>1, <1>2, <1>6 DEF AccountsTypeOK
<1>9. DerivedUntouched' /\ ArriveZeroed'
  BY <1>2, <1>7 DEF AccountsInv, DerivedUntouched, ArriveZeroed
<1>10. CreatedBelong'
  BY <1>1, <1>2, <1>4, <1>5, <1>7 DEF AccountsInv, CreatedBelong
<1>11. CreatedAreRentExempt'
  <2> SUFFICES ASSUME NEW j \in created', NEW role \in Roles
               PROVE  account'[j][role].lamports >= Rent_minimum_balance(account'[j][role].space)
    BY DEF CreatedAreRentExempt
  <2>1. CASE j = k
    BY <2>1, <1>4, <1>5, <1>7 DEF Roles
  <2>2. CASE j # k
    BY <2>2, <1>1, <1>2, <1>7 DEF AccountsInv, CreatedAreRentExempt
  <2> QED
    BY <2>1, <2>2
<1> QED
  BY <1>8, <1>9, <1>10, <1>11 DEF AccountsInv

\* What others may do to one account: it stays what it is to the program, unless it
\* is at a random address whose pool was not created.
LEMMA OthersKeepAccounts ==
  ASSUME AccountsInv, NEW k \in PoolKeys, NEW role \in Roles, NEW acc_info \in Accounts,
         Becomes(k, role, acc_info),
         \/ /\ acc_info.owner = account[k][role].owner
            /\ acc_info.space = account[k][role].space
            /\ acc_info.discriminator = account[k][role].discriminator
            /\ acc_info.lamports >= Rent_minimum_balance(acc_info.space)
         \/ /\ role = "pool_state" /\ k # Pda /\ k \notin created
            /\ acc_info.owner \in {"system", "cp_swap"} => acc_info.discriminator = "zeroed"
  PROVE  AccountsInv'
<1>1. account \in [PoolKeys -> [Roles -> Accounts]] /\ created \subseteq PoolKeys
  BY DEF AccountsInv, AccountsTypeOK
<1>2. account' = [account EXCEPT ![k][role] = acc_info] /\ created' = created
  BY DEF Becomes
<1>3. /\ account'[k][role] = acc_info
      /\ \A j \in PoolKeys, r \in Roles : ~(j = k /\ r = role) => account'[j][r] = account[j][r]
      /\ account' \in [PoolKeys -> [Roles -> Accounts]]
  BY <1>1, <1>2
<1>4. "pool_state" \in Roles /\ \A v \in Vaults : v \in Roles /\ v # "pool_state"
  BY DEF Roles, Vaults
<1>5. AccountsTypeOK'
  BY <1>1, <1>2, <1>3 DEF AccountsTypeOK
<1>6. DerivedUntouched'
  <2> SUFFICES ASSUME NEW j \in PoolKeys \ created, NEW r \in Roles, r \in Vaults \/ j = Pda
               PROVE  Untouched(account'[j][r])
    BY <1>2, <1>4 DEF DerivedUntouched
  <2>1. Untouched(account[j][r])
    BY <1>4 DEF AccountsInv, DerivedUntouched, Roles
  <2>2. CASE j = k /\ r = role
    BY <2>1, <2>2, <1>3, <1>4 DEF Untouched
  <2>3. CASE ~(j = k /\ r = role)
    BY <2>1, <2>3, <1>3
  <2> QED
    BY <2>2, <2>3
<1>7. ArriveZeroed'
  <2> SUFFICES ASSUME NEW j \in PoolKeys \ created,
                      account'[j]["pool_state"].owner \in {"system", "cp_swap"}
               PROVE  account'[j]["pool_state"].discriminator = "zeroed"
    BY <1>2 DEF ArriveZeroed
  <2>1. CASE j = k /\ role = "pool_state"
    BY <2>1, <1>3 DEF AccountsInv, ArriveZeroed
  <2>2. CASE ~(j = k /\ role = "pool_state")
    BY <2>2, <1>3, <1>4 DEF AccountsInv, ArriveZeroed
  <2> QED
    BY <2>1, <2>2
<1>8. CreatedBelong'
  <2> SUFFICES ASSUME NEW j \in created, NEW r \in Roles
               PROVE  /\ account'[j][r].owner = account[j][r].owner
                      /\ account'[j][r].discriminator = account[j][r].discriminator
    BY <1>2, <1>4 DEF AccountsInv, CreatedBelong
  <2> QED
    BY <1>1, <1>3
<1>9. CreatedAreRentExempt'
  <2> SUFFICES ASSUME NEW j \in created, NEW r \in Roles
               PROVE  account'[j][r].lamports >= Rent_minimum_balance(account'[j][r].space)
    BY <1>2 DEF CreatedAreRentExempt
  <2> QED
    BY <1>1, <1>3 DEF AccountsInv, CreatedAreRentExempt
<1> QED
  BY <1>5, <1>6, <1>7, <1>8, <1>9 DEF AccountsInv

\* A created pool belongs to this program, so nobody else changes it.
LEMMA NotCreated ==
  ASSUME AccountsInv, NEW k \in PoolKeys, account[k]["pool_state"].owner # "cp_swap"
  PROVE  k \notin created
  BY DEF AccountsInv, CreatedBelong

\* The derived address is nobody's: another program never owns it.
LEMMA OtherOwnsNoPda ==
  ASSUME AccountsInv, NEW k \in PoolKeys, account[k]["pool_state"].owner = "other"
  PROVE  k # Pda
  BY NotCreated DEF AccountsInv, DerivedUntouched, Untouched

\* One step per action.
LEMMA AccountsNextKeepsInv ==
  ASSUME AccountsInv, AccountsNext
  PROVE  AccountsInv'
<1>1. PICK k \in PoolKeys :
        \/ initialize(k, k # Pda)
        \/ \E role \in Roles, gift \in Gifts : SendLamports(k, role, gift)
        \/ HolderSpends(k)
        \/ \E space \in Spaces : HolderAllocates(k, space)
        \/ \E program \in {"cp_swap", "other"} : HolderAssigns(k, program)
        \/ \E discriminator \in {"zeroed", "PoolState"} : OtherWrites(k, discriminator)
        \/ OtherAssigns(k, "cp_swap")
  BY DEF AccountsNext
<1>2. "pool_state" \in Roles /\ \A role \in Roles : account[k][role] \in Accounts
  BY DEF AccountsInv, AccountsTypeOK, Roles
<1> DEFINE target == account[k]["pool_state"]
<1>3. target.owner = "system" /\ k \notin created => target.discriminator = "zeroed"
  BY DEF AccountsInv, ArriveZeroed
<1>4. CASE initialize(k, k # Pda)
  BY <1>4, InitializeKeepsAccounts
<1>5. ASSUME NEW role \in Roles, NEW gift \in Gifts, SendLamports(k, role, gift)
      PROVE  AccountsInv'
  <2> DEFINE new == [account[k][role] EXCEPT !.lamports = account[k][role].lamports + gift]
  <2>1. gift \in Nat /\ account[k][role] \in Accounts
    BY <1>2, AccountsAssumption
  <2>2. new \in Accounts
    BY <2>1 DEF Accounts
  <2>3. /\ new.owner = account[k][role].owner /\ new.space = account[k][role].space
        /\ new.discriminator = account[k][role].discriminator
        /\ new.lamports = account[k][role].lamports + gift
    BY <2>1 DEF Accounts
  <2>4. Becomes(k, role, new)
    BY <1>5 DEF SendLamports
  <2>5. new.lamports >= Rent_minimum_balance(new.space)
    BY <1>5, <2>3 DEF SendLamports
  <2> HIDE DEF new
  <2> QED
    BY <2>2, <2>3, <2>4, <2>5, OthersKeepAccounts
<1>6. CASE HolderSpends(k)
  <2>1. Absent \in Accounts /\ Absent.discriminator = "zeroed"
    BY DEF Absent, Accounts, Owners, Discriminators
  <2>2. k # Pda /\ k \notin created /\ Becomes(k, "pool_state", Absent)
    BY <1>6, NotCreated DEF HolderSpends
  <2> QED
    BY <1>2, <2>1, <2>2, OthersKeepAccounts
<1>7. ASSUME NEW space \in Spaces, HolderAllocates(k, space)
      PROVE  AccountsInv'
  <2> DEFINE new == [target EXCEPT !.space = space]
  <2>1. k # Pda /\ k \notin created /\ Becomes(k, "pool_state", new) /\ target.owner = "system"
    BY <1>7, NotCreated DEF HolderAllocates
  <2>2. space \in Nat
    BY AccountsAssumption
  <2>3. new \in Accounts /\ new.discriminator = target.discriminator
    BY <1>2, <2>2 DEF Accounts
  <2>4. new.discriminator = "zeroed"
    BY <1>3, <2>1, <2>3
  <2> HIDE DEF new
  <2> QED
    BY <1>2, <2>1, <2>3, <2>4, OthersKeepAccounts
<1>8. ASSUME NEW program \in {"cp_swap", "other"}, HolderAssigns(k, program)
      PROVE  AccountsInv'
  <2> DEFINE new == [target EXCEPT !.owner = program]
  <2>1. k # Pda /\ k \notin created /\ Becomes(k, "pool_state", new) /\ target.owner = "system"
    BY <1>8, NotCreated DEF HolderAssigns
  <2>2. new \in Accounts /\ new.discriminator = target.discriminator
    BY <1>2 DEF Accounts, Owners
  <2>3. new.discriminator = "zeroed"
    BY <1>3, <2>1, <2>2
  <2> HIDE DEF new
  <2> QED
    BY <1>2, <2>1, <2>2, <2>3, OthersKeepAccounts
<1>9. ASSUME NEW discriminator \in {"zeroed", "PoolState"}, OtherWrites(k, discriminator)
      PROVE  AccountsInv'
  <2> DEFINE new == [target EXCEPT !.discriminator = discriminator]
  <2>1. target.owner = "other" /\ Becomes(k, "pool_state", new)
    BY <1>9 DEF OtherWrites
  <2>2. k # Pda /\ k \notin created
    BY <2>1, NotCreated, OtherOwnsNoPda
  <2>3. new \in Accounts /\ new.owner = target.owner
    BY <1>2 DEF Accounts, Discriminators
  <2> HIDE DEF new
  <2> QED
    BY <1>2, <2>1, <2>2, <2>3, OthersKeepAccounts
<1>10. CASE OtherAssigns(k, "cp_swap")
  <2> DEFINE new == [target EXCEPT !.owner = "cp_swap"]
  <2>1. target.owner = "other" /\ target.discriminator = "zeroed" /\ Becomes(k, "pool_state", new)
    BY <1>10 DEF OtherAssigns
  <2>2. k # Pda /\ k \notin created
    BY <2>1, NotCreated, OtherOwnsNoPda
  <2>3. new \in Accounts /\ new.discriminator = target.discriminator
    BY <1>2 DEF Accounts, Owners
  <2> HIDE DEF new
  <2> QED
    BY <1>2, <2>1, <2>2, <2>3, OthersKeepAccounts
<1> QED
  BY <1>1, <1>4, <1>5, <1>6, <1>7, <1>8, <1>9, <1>10

\* A step that leaves the accounts alone keeps it.
LEMMA AccountsStutterKeepsInv == AccountsInv /\ UNCHANGED accountsVars => AccountsInv'
  BY DEF AccountsInv, AccountsTypeOK, DerivedUntouched, ArriveZeroed, CreatedBelong,
         CreatedAreRentExempt, accountsVars

\* The accounts' inductive invariant holds in every reachable state.
THEOREM AccountsInductive == AccountsSpec => []AccountsInv
<1>1. AccountsInv /\ [AccountsNext]_accountsVars => AccountsInv'
  BY AccountsNextKeepsInv, AccountsStutterKeepsInv
<1> QED
  BY AccountsInitHasInv, <1>1, PTL DEF AccountsSpec

\* Accounts keep their shape.
THEOREM AccountsTyped == AccountsSpec => []AccountsTypeOK
<1>1. AccountsInv => AccountsTypeOK
  BY DEF AccountsInv
<1> QED
  BY AccountsInductive, <1>1, PTL

\* No gift of lamports, of any amount and in any order, blocks a pool.
THEOREM CreationNeverBlocked == AccountsSpec => []NobodyBlocksCreation
<1>1. AccountsInv => NobodyBlocksCreation
  <2> SUFFICES ASSUME AccountsInv, NEW k \in PoolKeys \ created,
                      \/ k = Pda
                      \/ /\ account[k]["pool_state"].owner = "system"
                         /\ account[k]["pool_state"].space = 0
               PROVE  InitializeOk(k, k # Pda)
    BY DEF NobodyBlocksCreation
  <2>1. AccountsTypeOK /\ \A v \in Vaults : account[k][v] \in Accounts
    BY DEF AccountsInv, AccountsTypeOK, Roles
  <2>2. \A v \in Vaults : Untouched(account[k][v])
    BY DEF AccountsInv, DerivedUntouched
  <2>3. Untouched(account[k]["pool_state"])
    BY DEF AccountsInv, DerivedUntouched, ArriveZeroed, Untouched
  <2> QED
    BY <2>1, <2>2, <2>3, VaultCanBeMade, PoolCanBeMade DEF InitializeOk
<1> QED
  BY AccountsInductive, <1>1, PTL

\* What a created pool is made of is rent exempt for ever.
THEOREM CreatedStay == AccountsSpec => []CreatedAreRentExempt
<1>1. AccountsInv => CreatedAreRentExempt
  BY DEF AccountsInv
<1> QED
  BY AccountsInductive, <1>1, PTL

\* Every way of loading takes for a pool exactly what the program initialized.
THEOREM NoPoolForged == AccountsSpec => []LoadsExactlyCreated
<1>1. AccountsInv => LoadsExactlyCreated
  <2> SUFFICES ASSUME AccountsInv, NEW k \in PoolKeys, NEW role \in Roles
               PROVE  Loads(account[k][role]) <=> role = "pool_state" /\ k \in created
    BY DEF LoadsExactlyCreated
  <2>1. Loads(account[k][role]) <=> /\ account[k][role].owner = "cp_swap"
                                    /\ account[k][role].discriminator = "PoolState"
    BY DEF Loads, load_data_mut, try_from, load, try_from_unchecked, load_mut, OwnedByProgram,
           DiscriminatorMatches
  <2>2. CASE role = "pool_state"
    BY <2>1, <2>2 DEF AccountsInv, CreatedBelong, ArriveZeroed
  <2>3. CASE role \in Vaults
    <3>1. role # "pool_state"
      BY <2>3 DEF Vaults
    <3>2. account[k][role].owner # "cp_swap"
      BY <2>3, VaultSpace DEF AccountsInv, CreatedBelong, DerivedUntouched, Untouched
    <3> QED
      BY <2>1, <3>1, <3>2
  <2> QED
    BY <2>2, <2>3 DEF Roles
<1> QED
  BY AccountsInductive, <1>1, PTL

(* -------------------------- the log parser --------------------------- *)

\* What other programs' messages must be like.
QuietForeigners == ForeignTexts \subseteq {"plain"}

\* What the parser may have on its stack.
Contexts == Programs \cup {"cpi"}

ContextOf(program) == IF program = Self THEN Self ELSE "cpi"

\* The two stacks go together, and nothing executes before the first line.
ParserInv ==
  /\ calls \in Seq(Programs)
  /\ execution \in Seq(Contexts)
  /\ emitted \in Seq(OwnEvents)
  /\ lines \in Nat
  /\ lines = 0 => calls = <<>> /\ execution = <<>>
  /\ ContextIsReal
  /\ DecodedAreEmitted

\* The parser recognises its own program by what is on top of its stack.
LEMMA TopsAgree ==
  ASSUME ParserInv, calls # <<>>
  PROVE  InOwnContext <=> Top(calls) = Self
  BY DEF ParserInv, ContextIsReal, InOwnContext, Top

\* A line that neither pushes nor pops leaves the context alone.
LEMMA QuietLine ==
  ASSUME ParserInv, calls # <<>>, NEW line, Parse(line), UNCHANGED calls, Handle(line) = Keep
  PROVE  /\ execution' = execution
         /\ ~crashed'
         /\ lines' \in Nat \ {0}
         /\ decoded' = Decode(line)
<1>1. ParseLine(line) /\ lines' \in Nat \ {0}
  BY DEF ParserInv, Parse
<1>2. Handle(line).new_program = NoPush /\ Handle(line).did_pop = FALSE
  BY DEF Keep
<1>3. decoded' = Decode(line) /\ execution' = execution
  BY <1>1, <1>2 DEF ParseLine
<1>4. ~crashed'
  BY <1>1, <1>2 DEF ParseLine
<1> QED
  BY <1>1, <1>3, <1>4

\* What Append does to a sequence.
LEMMA Appended ==
  ASSUME NEW S, NEW s \in Seq(S), NEW a \in S
  PROVE  /\ Append(s, a) \in Seq(S)
         /\ Len(Append(s, a)) = Len(s) + 1
         /\ \A i \in 1..Len(s) : Append(s, a)[i] = s[i]
         /\ Append(s, a)[Len(s) + 1] = a
  BY AppendProperties

\* handle_system_log on "Program <id> invoke [n]" pushes the program, or a name
\* that is not a program's.
LEMMA InvokeLine ==
  ASSUME ParserInv, NEW program \in Programs, Invoke(program)
  PROVE  ParserInv'
<1> DEFINE line == Line("invoke", program)
<1>1. "" \notin Programs /\ "cpi" \notin Programs /\ Self \in Programs
  BY LogAssumption
<1>2. /\ ContextOf(program) \in Contexts /\ ContextOf(program) # ""
      /\ ContextOf(program) = Self <=> program = Self
  BY <1>1 DEF Contexts, ContextOf
<1>3. Handle(line) = Push(ContextOf(program))
  BY DEF ContextOf, Handle, handle_program_log, handle_system_log, HasPrefix, Line, ContainsInvoke
<1>4. calls' = Append(calls, program) /\ Parse(line) /\ UNCHANGED emitted
  BY DEF Invoke
<1>5. /\ \/ execution' = Append(execution, ContextOf(program))
         \/ (lines = 0 /\ execution' = <<program>>)
      /\ ~crashed' /\ decoded' = decoded
      /\ lines' \in Nat \ {0}
  <2>1. CASE lines = 0
    BY <2>1, <1>4 DEF ParserInv, Parse, ParseFirstLine, Line, ContextIsReal
  <2>2. CASE lines # 0
    <3>1. ParseLine(line) /\ lines' = lines + 1
      BY <2>2, <1>4 DEF Parse
    <3>2. Decode(line) = decoded
      BY DEF Decode, Line
    <3>3. /\ Handle(line).new_program = ContextOf(program)
          /\ Handle(line).did_pop = FALSE
      BY <1>3 DEF Push
    <3>4. execution' = Append(execution, ContextOf(program)) /\ decoded' = decoded
      BY <3>1, <3>2, <3>3, <1>2 DEF ParseLine, NoPush
    <3>5. ~crashed'
      BY <3>1, <3>3 DEF ParseLine
    <3>6. lines' \in Nat \ {0}
      BY <3>1 DEF ParserInv
    <3> QED
      BY <3>4, <3>5, <3>6
  <2> QED
    BY <2>1, <2>2
<1>6. /\ Len(execution') = Len(calls')
      /\ \A i \in 1..Len(calls') : execution'[i] = Self <=> calls'[i] = Self
      /\ calls' \in Seq(Programs)
      /\ execution' \in Seq(Contexts)
  <2>1. CASE execution' = Append(execution, ContextOf(program))
    <3>1. calls \in Seq(Programs) /\ execution \in Seq(Contexts) /\ Len(execution) = Len(calls)
      BY DEF ParserInv, ContextIsReal
    <3>2. \A i \in 1..Len(calls) : execution[i] = Self <=> calls[i] = Self
      BY DEF ParserInv, ContextIsReal
    <3>3. /\ calls' \in Seq(Programs) /\ Len(calls') = Len(calls) + 1
          /\ \A i \in 1..Len(calls) : calls'[i] = calls[i]
          /\ calls'[Len(calls) + 1] = program
      BY <1>4, <3>1, Appended
    <3>4. /\ execution' \in Seq(Contexts) /\ Len(execution') = Len(execution) + 1
          /\ \A i \in 1..Len(execution) : execution'[i] = execution[i]
          /\ execution'[Len(execution) + 1] = ContextOf(program)
      <4>1. execution \in Seq(Contexts)
        BY <3>1
      <4>2. ContextOf(program) \in Contexts
        BY <1>2
      <4> QED
        BY <2>1, <4>1, <4>2, Appended
    <3>5. ASSUME NEW i \in 1..Len(calls')
          PROVE  execution'[i] = Self <=> calls'[i] = Self
      <4>1. CASE i \in 1..Len(calls)
        BY <3>1, <3>2, <3>3, <3>4, <4>1
      <4>2. CASE i = Len(calls) + 1
        BY <3>1, <3>3, <3>4, <4>2, <1>2
      <4>3. Len(calls) \in Nat
        BY <3>1
      <4> QED
        BY <3>3, <4>1, <4>2, <4>3
    <3> QED
      BY <3>1, <3>3, <3>4, <3>5
  <2>2. CASE lines = 0 /\ execution' = <<program>>
    <3>1. calls' = <<program>>
      BY <2>2, <1>4 DEF ParserInv
    <3>2. <<program>> \in Seq(Programs) /\ <<program>> \in Seq(Contexts)
      BY DEF Contexts
    <3>3. execution' = calls'
      BY <2>2, <3>1
    <3>4. calls' \in Seq(Programs) /\ execution' \in Seq(Contexts)
      BY <3>1, <3>2, <3>3
    <3> QED
      BY <3>3, <3>4
  <2> QED
    BY <1>5, <2>1, <2>2
<1> QED
  BY <1>4, <1>5, <1>6 DEF ParserInv, ContextIsReal, DecodedAreEmitted

\* "Program <id> success" pops what its invocation pushed.
LEMMA ReturnLine ==
  ASSUME ParserInv, Return
  PROVE  ParserInv'
<1> DEFINE line == Line("success", Top(calls))
<1>1. Handle(line) = Pop
  BY DEF Handle, handle_program_log, handle_system_log, HasPrefix, Line, ContainsInvoke,
         MatchesSuccess
<1>2. calls # <<>> /\ calls' = Below(calls) /\ Parse(line) /\ UNCHANGED emitted
  BY DEF Return
<1>3. execution # <<>> /\ lines # 0
  BY <1>2 DEF ParserInv, ContextIsReal
<1>4. ParseLine(line) /\ lines' \in Nat \ {0}
  BY <1>2, <1>3 DEF Parse, ParserInv
<1>5. Handle(line).new_program = NoPush /\ Handle(line).did_pop = TRUE
  BY <1>1 DEF Pop
<1>6. execution' = Below(execution) /\ crashed' = FALSE /\ decoded' = decoded
  BY <1>3, <1>4, <1>5 DEF ParseLine, Decode, Line
<1>7. /\ Len(execution') = Len(calls')
      /\ \A i \in 1..Len(calls') : execution'[i] = Self <=> calls'[i] = Self
      /\ calls' \in Seq(Programs) /\ execution' \in Seq(Contexts)
  BY <1>2, <1>3, <1>6 DEF ParserInv, ContextIsReal, Below
<1> QED
  BY <1>2, <1>4, <1>6, <1>7 DEF ParserInv, ContextIsReal, DecodedAreEmitted

\* A message is skipped in the program's own context; in another's it is not one
\* that reads like a line of the runtime.
LEMMA MessageLine ==
  ASSUME ParserInv, QuietForeigners, NEW text \in Texts, Message(text)
  PROVE  ParserInv'
<1>1. calls # <<>> /\ UNCHANGED <<calls, emitted>> /\ Parse(Line("log", text))
  BY DEF Message
<1>2. InOwnContext \/ text = "plain"
  BY <1>1, TopsAgree DEF Message, QuietForeigners
<1>3. Handle(Line("log", text)) = Keep
  BY <1>2 DEF Handle, handle_program_log, handle_system_log, HasPrefix, Line, ContainsInvoke,
              MatchesSuccess
<1>4. Decode(Line("log", text)) = decoded
  BY DEF Decode, Line
<1> QED
  BY <1>1, <1>3, <1>4, QuietLine DEF ParserInv, ContextIsReal, DecodedAreEmitted

\* Data is decoded exactly where the program itself wrote it.
LEMMA DataLine ==
  ASSUME ParserInv, calls # <<>>, NEW event, UNCHANGED calls, Parse(Line("data", event)),
         Top(calls) = Self => event \in OwnEvents /\ emitted' = Append(emitted, event),
         Top(calls) # Self => UNCHANGED emitted
  PROVE  ParserInv'
<1>1. Handle(Line("data", event)) = Keep
  BY DEF Handle, handle_program_log, handle_system_log, HasPrefix, Line, ContainsInvoke,
         MatchesSuccess
<1>2. Decode(Line("data", event)) = emitted'
  BY TopsAgree DEF Decode, Line, ParserInv, DecodedAreEmitted
<1>3. emitted' \in Seq(OwnEvents)
  <2>1. emitted \in Seq(OwnEvents)
    BY DEF ParserInv
  <2>2. CASE Top(calls) = Self
    BY <2>1, <2>2
  <2>3. CASE Top(calls) # Self
    BY <2>1, <2>3
  <2> QED
    BY <2>2, <2>3
<1> QED
  BY <1>1, <1>2, <1>3, QuietLine DEF ParserInv, ContextIsReal, DecodedAreEmitted

\* Any other line of the runtime means nothing to the parser.
LEMMA OtherLine ==
  ASSUME ParserInv, calls # <<>>, NEW kind \in {"note", "failed"}, UNCHANGED <<calls, emitted>>,
         Parse(Line(kind, Top(calls)))
  PROVE  ParserInv'
<1>1. Handle(Line(kind, Top(calls))) = Keep
  BY DEF Handle, handle_program_log, handle_system_log, HasPrefix, Line, ContainsInvoke,
         MatchesSuccess
<1>2. Decode(Line(kind, Top(calls))) = decoded
  BY DEF Decode, Line
<1> QED
  BY <1>1, <1>2, QuietLine DEF ParserInv, ContextIsReal, DecodedAreEmitted

\* One step per kind of line.
LEMMA ParserNextKeepsInv ==
  ASSUME ParserInv, QuietForeigners, ParserNext
  PROVE  ParserInv'
<1>1. CASE \E program \in Programs : Invoke(program)
  BY <1>1, InvokeLine
<1>2. CASE Return
  BY <1>2, ReturnLine
<1>3. CASE \E text \in Texts : Message(text)
  BY <1>3, MessageLine
<1>4. CASE \E event \in OwnEvents : EmitEvent(event)
  <2>1. PICK event \in OwnEvents : EmitEvent(event)
    BY <1>4
  <2> QED
    BY <2>1, DataLine DEF EmitEvent
<1>5. CASE \E event \in OwnEvents \cup {"other data"} : ForeignData(event)
  <2>1. PICK event \in OwnEvents \cup {"other data"} : ForeignData(event)
    BY <1>5
  <2> QED
    BY <2>1, DataLine DEF ForeignData
<1>6. CASE RuntimeNote
  BY <1>6, OtherLine DEF RuntimeNote
<1>7. CASE Fail
  BY <1>7, OtherLine DEF Fail
<1> QED
  BY <1>1, <1>2, <1>3, <1>4, <1>5, <1>6, <1>7 DEF ParserNext

\* Before the first line neither stack holds anything.
LEMMA ParserInitHasInv == ParserInit => ParserInv
  BY DEF ParserInit, ParserInv, ContextIsReal, DecodedAreEmitted

\* A step that writes no line keeps it.
LEMMA ParserStutterKeepsInv == ParserInv /\ UNCHANGED allLogVars => ParserInv'
  BY DEF ParserInv, ContextIsReal, DecodedAreEmitted, allLogVars, logVars, parserVars

\* At every line of every log the parser is in the context of the program exactly
\* when the program executes, and its assertions hold.
THEOREM ContextAlwaysReal ==
  ASSUME QuietForeigners
  PROVE  ParserSpec => []ContextIsReal
<1>1. ParserInv /\ [ParserNext]_allLogVars => ParserInv'
  BY ParserNextKeepsInv, ParserStutterKeepsInv
<1>2. ParserInv => ContextIsReal
  BY DEF ParserInv
<1> QED
  BY ParserInitHasInv, <1>1, <1>2, PTL DEF ParserSpec

\* What is printed is what the program emitted, up to wherever the log ends.
THEOREM DecodedAlwaysEmitted ==
  ASSUME QuietForeigners
  PROVE  ParserSpec => []DecodedAreEmitted
<1>1. ParserInv /\ [ParserNext]_allLogVars => ParserInv'
  BY ParserNextKeepsInv, ParserStutterKeepsInv
<1>2. ParserInv => DecodedAreEmitted
  BY DEF ParserInv
<1> QED
  BY ParserInitHasInv, <1>1, <1>2, PTL DEF ParserSpec

=============================================================================
