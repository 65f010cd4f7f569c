------------------------------ MODULE MCAccounts ------------------------------
(* The small instance of Accounts: a plain token against a Token-2022 one whose *)
(* accounts carry an extension.                                                 *)
EXTENDS Accounts, TLC

MCPrograms == "token_0_vault" :> "spl_token" @@ "token_1_vault" :> "token_2022"

MCExtensions == "token_0_vault" :> 0 @@ "token_1_vault" :> 1

=============================================================================
