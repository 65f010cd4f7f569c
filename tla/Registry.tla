------------------------------- MODULE Registry -------------------------------
(***************************************************************************)
(* The accounts that decide who may create which pool: the permission PDAs *)
(* of initialize_with_permission, and the support-mint PDAs that admit a   *)
(* Token-2022 mint whatever extensions it has.  Either kind exists or does *)
(* not; the contents name the key or mint the address is derived from.     *)
(***************************************************************************)
EXTENDS Integers

CONSTANTS
  PermissionKeys,       \* keys the admin may give a permission to
  Tokens,               \* the two tokens of the pool
  WhitelistedMints,     \* tokens in MINT_WHITELIST
  ForeignExtensions     \* Token-2022 tokens with an extension outside the accepted five

VARIABLES
  permissions,     \* the keys that hold a permission PDA
  support_mints    \* the tokens that have a support-mint PDA

Init == permissions = {} /\ support_mints = {}

\* Anchor's init fails on an existing account, close on a missing one.
create_permission_pda(key) ==
  /\ key \notin permissions
  /\ permissions' = permissions \cup {key}
  /\ UNCHANGED support_mints

close_permission_pda(key) ==
  /\ key \in permissions
  /\ permissions' = permissions \ {key}
  /\ UNCHANGED support_mints

create_support_mint_associated(t) ==
  /\ t \notin support_mints
  /\ support_mints' = support_mints \cup {t}
  /\ UNCHANGED permissions

close_support_mint_associated(t) ==
  /\ t \in support_mints
  /\ support_mints' = support_mints \ {t}
  /\ UNCHANGED permissions

\* The creator of a pool passes the support-mint accounts that exist.
is_supported_mint(t, program) ==
  \/ program = "spl_token"
  \/ t \in WhitelistedMints
  \/ t \in support_mints
  \/ t \notin ForeignExtensions

\* Only a Token-2022 mint can get a support-mint account.
Next(program) ==
  \/ \E key \in PermissionKeys : create_permission_pda(key) \/ close_permission_pda(key)
  \/ \E t \in Tokens :
       /\ program[t] = "token_2022"
       /\ create_support_mint_associated(t) \/ close_support_mint_associated(t)

TypeOK == permissions \subseteq PermissionKeys /\ support_mints \subseteq Tokens

=============================================================================
