------------------------------- MODULE Accounts -------------------------------
(***************************************************************************)
(* The accounts a pool is made of, as the Solana runtime sees them: who    *)
(* owns one, what lamports and space it has, and the discriminator in its  *)
(* first bytes.  The program creates them at addresses that exist before   *)
(* the pool does: anyone may send lamports to such an address, and whoever *)
(* holds the key of a random pool address may prepare the account there.   *)
(* What Anchor's `init` creates in the same transaction (the LP mint, the  *)
(* observation account, the creator's LP account) is left out.             *)
(*                                                                         *)
(* A transaction is atomic, so each action is a whole one.  Definitions    *)
(* named Bug... are plausible mistakes, used by nothing.                   *)
(***************************************************************************)
EXTENDS Integers

CONSTANTS
  PoolKeys,        \* addresses a pool may get
  Pda,             \* the one that is derived from the config and the mints
  ACCOUNT_STORAGE_OVERHEAD,   \* what an account costs beside its space
  POOL_LEN,        \* PoolState::LEN, the space of a pool
  TOKEN_LEN,       \* TokenAccount::LEN, the space of a plain token account
  AccountExtensions,   \* space of the extensions each mint's accounts need
  MintPrograms,    \* the token program of each mint
  Gifts,           \* lamports that others send; the runs' input set
  Spaces,          \* spaces a key's holder may allocate
  MAX_LAMPORTS     \* bounds the gifts to an address

Vaults == {"token_0_vault", "token_1_vault"}

Roles == {"pool_state"} \cup Vaults

ASSUME AccountsAssumption ==
  /\ Pda \in PoolKeys
  /\ ACCOUNT_STORAGE_OVERHEAD \in Nat \ {0}
  /\ POOL_LEN \in Nat \ {0}
  /\ TOKEN_LEN \in Nat \ {0}
  /\ AccountExtensions \in [Vaults -> Nat]
  /\ MintPrograms \in [Vaults -> {"spl_token", "token_2022"}]
  /\ \A v \in Vaults : MintPrograms[v] = "spl_token" => AccountExtensions[v] = 0
  /\ Gifts \subseteq Nat
  /\ Spaces \subseteq Nat \ {0}
  /\ MAX_LAMPORTS \in Nat

VARIABLES
  account,   \* by pool key and role
  created    \* history: the keys whose pool was initialized

accountsVars == <<account, created>>

Owners == {"system", "cp_swap", "spl_token", "token_2022", "other"}

\* What the first bytes of the data say.
Discriminators == {"zeroed", "PoolState", "TokenAccount"}

Accounts == [owner: Owners, lamports: Nat, space: Nat, discriminator: Discriminators]

\* An address without lamports has no account; the runtime shows an empty one.
Absent == [owner |-> "system", lamports |-> 0, space |-> 0, discriminator |-> "zeroed"]

Rent_minimum_balance(space) == ACCOUNT_STORAGE_OVERHEAD + space

(* ------------------------- creating an account ------------------------- *)

\* goes through create_account even if the address has lamports
BugAlwaysCreates(target) ==
  target.owner = "system" /\ target.space = 0 /\ target.lamports = 0

\* The system program creates, and allocates, what it owns and has no data.  The
\* first takes an address without lamports, the second one with some.
CreateOrAllocateOk(target) == target.owner = "system" /\ target.space = 0

\* takes any lamports for enough
BugNoTopUp(target, space) ==
  IF target.lamports = 0 THEN Rent_minimum_balance(space) ELSE 0

\* What the payer adds: all of the rent, or what is missing of it.
LamportsAdded(target, space) ==
  IF target.lamports >= Rent_minimum_balance(space)
  THEN 0
  ELSE Rent_minimum_balance(space) - target.lamports

create_or_allocate_account(program_id, target, space) ==
  [owner |-> program_id,
   lamports |-> target.lamports + LamportsAdded(target, space),
   space |-> space,
   discriminator |-> "zeroed"]

TokenAccountSpace(v) ==
  IF MintPrograms[v] = "token_2022" THEN TOKEN_LEN + AccountExtensions[v] ELSE TOKEN_LEN

NewTokenAccount(v, target) ==
  create_or_allocate_account(MintPrograms[v], target, TokenAccountSpace(v))

\* initialize_account3 of the token programs.
InitializeAccount3Ok(v, target) ==
  /\ target.owner = MintPrograms[v]
  /\ target.discriminator = "zeroed"
  /\ target.space >= TOKEN_LEN + AccountExtensions[v]
  /\ target.lamports >= Rent_minimum_balance(target.space)

TokenAccountOk(v, target) ==
  /\ CreateOrAllocateOk(target)
  /\ InitializeAccount3Ok(v, NewTokenAccount(v, target))

create_token_account(v, target) ==
  [NewTokenAccount(v, target) EXCEPT !.discriminator = "TokenAccount"]

(* ------------------------- loading a zero-copy account ----------------- *)

\* AccountLoad<PoolState>.  Every account is taken for writable, which the caller
\* decides, and one too short for a discriminator for one that has none.
OwnedByProgram(acc_info) == acc_info.owner = "cp_swap"

DiscriminatorMatches(acc_info) == acc_info.discriminator = "PoolState"

\* trusts the discriminator
BugNoOwnerCheck(acc_info) == DiscriminatorMatches(acc_info)

try_from(acc_info) == OwnedByProgram(acc_info) /\ DiscriminatorMatches(acc_info)

try_from_unchecked(acc_info) == OwnedByProgram(acc_info)

load_data_mut(acc_info) == OwnedByProgram(acc_info) /\ DiscriminatorMatches(acc_info)

load(acc_info) == DiscriminatorMatches(acc_info)

load_mut(acc_info) == DiscriminatorMatches(acc_info)

LoadInitOk(acc_info) == acc_info.discriminator = "zeroed"

load_init(acc_info) == [acc_info EXCEPT !.discriminator = "PoolState"]

\* An account that some way of loading takes for a pool.
Loads(acc_info) ==
  \/ load_data_mut(acc_info)
  \/ try_from(acc_info) /\ load(acc_info)
  \/ try_from_unchecked(acc_info) /\ load_mut(acc_info)

(* --------------------------- creating a pool --------------------------- *)

NewPoolAccount(k) ==
  create_or_allocate_account("cp_swap", account[k]["pool_state"], POOL_LEN)

\* Any address but the derived one has to sign.
CreatePoolOk(k, is_signer) ==
  /\ account[k]["pool_state"].owner = "system"       \* NotApproved
  /\ k # Pda => is_signer
  /\ CreateOrAllocateOk(account[k]["pool_state"])
  /\ try_from_unchecked(NewPoolAccount(k))

\* What initialize, and initialize_with_permission, require of the accounts.
InitializeOk(k, is_signer) ==
  /\ \A v \in Vaults : TokenAccountOk(v, account[k][v])
  /\ CreatePoolOk(k, is_signer)
  /\ LoadInitOk(NewPoolAccount(k))

initialize(k, is_signer) ==
  /\ InitializeOk(k, is_signer)
  /\ account' = [account EXCEPT ![k] = [role \in Roles |->
                   IF role = "pool_state"
                   THEN load_init(NewPoolAccount(k))
                   ELSE create_token_account(role, @[role])]]
  /\ created' = created \cup {k}

(* -------------------------- what others may do ------------------------- *)

Becomes(k, role, acc_info) ==
  /\ account' = [account EXCEPT ![k][role] = acc_info]
  /\ UNCHANGED created

\* The runtime lets no account end up with less than its rent.
SendLamports(k, role, gift) ==
  LET lamports == account[k][role].lamports + gift
  IN  /\ lamports <= MAX_LAMPORTS
      /\ lamports >= Rent_minimum_balance(account[k][role].space)
      /\ Becomes(k, role, [account[k][role] EXCEPT !.lamports = lamports])

\* The holder of a random key may spend its lamports, allocate and assign, as long
\* as the system program owns the account.
HolderSpends(k) ==
  /\ k # Pda
  /\ account[k]["pool_state"].owner = "system"
  /\ account[k]["pool_state"].space = 0
  /\ Becomes(k, "pool_state", Absent)

HolderAllocates(k, space) ==
  /\ k # Pda
  /\ account[k]["pool_state"].owner = "system"
  /\ account[k]["pool_state"].space = 0
  /\ account[k]["pool_state"].lamports >= Rent_minimum_balance(space)
  /\ Becomes(k, "pool_state", [account[k]["pool_state"] EXCEPT !.space = space])

HolderAssigns(k, program) ==
  /\ k # Pda
  /\ account[k]["pool_state"].owner = "system"
  /\ account[k]["pool_state"].lamports > 0
  /\ Becomes(k, "pool_state", [account[k]["pool_state"] EXCEPT !.owner = program])

\* A program writes what it likes into what it owns, and gives it away zeroed.
OtherWrites(k, discriminator) ==
  /\ account[k]["pool_state"].owner = "other"
  /\ account[k]["pool_state"].space > 0
  /\ Becomes(k, "pool_state", [account[k]["pool_state"] EXCEPT !.discriminator = discriminator])

OtherAssigns(k, program) ==
  /\ account[k]["pool_state"].owner = "other"
  /\ account[k]["pool_state"].discriminator = "zeroed"
  /\ Becomes(k, "pool_state", [account[k]["pool_state"] EXCEPT !.owner = program])

(* ------------------------------ behaviours ----------------------------- *)

AccountsInit ==
  /\ account = [k \in PoolKeys |-> [role \in Roles |-> Absent]]
  /\ created = {}

AccountsNext ==
  \E k \in PoolKeys :
    \/ initialize(k, k # Pda)
    \/ \E role \in Roles, gift \in Gifts : SendLamports(k, role, gift)
    \/ HolderSpends(k)
    \/ \E space \in Spaces : HolderAllocates(k, space)
    \/ \E program \in {"cp_swap", "other"} : HolderAssigns(k, program)
    \/ \E discriminator \in {"zeroed", "PoolState"} : OtherWrites(k, discriminator)
    \/ OtherAssigns(k, "cp_swap")

AccountsSpec == AccountsInit /\ [][AccountsNext]_accountsVars

(* ------------------------------ properties ----------------------------- *)

AccountsTypeOK ==
  /\ account \in [PoolKeys -> [Roles -> Accounts]]
  /\ created \subseteq PoolKeys

\* Nobody can keep a pool from being created: whatever lamports others sent to the
\* addresses of the pool and its vaults, in any order, every account can be made,
\* with the space its mint calls for.  A random address is good as long as its own
\* holder has made nothing of it; the derived one always is, and nobody signs.
NobodyBlocksCreation ==
  \A k \in PoolKeys \ created :
    \/ InitializeOk(k, k # Pda)
    \/ k # Pda /\ (account[k]["pool_state"].owner # "system" \/ account[k]["pool_state"].space # 0)

\* What lies at a pool's addresses once it was created can stay for ever.
CreatedAreRentExempt ==
  \A k \in created, role \in Roles :
    account[k][role].lamports >= Rent_minimum_balance(account[k][role].space)

\* What loads as a pool is a pool this program initialized, and it stays one: a
\* key's holder or another program can neither forge a pool nor undo one.
LoadsExactlyCreated ==
  \A k \in PoolKeys, role \in Roles :
    Loads(account[k][role]) <=> role = "pool_state" /\ k \in created

=============================================================================
