----------------------------- MODULE MCComponents -----------------------------
(* Four components that share no state, in one instance: the config account,  *)
(* the oracle account, the accounts of a pool and the log parser.  One of them *)
(* moves while the others rest in an initial state, so the states are those of *)
(* each component by itself.                                                   *)
EXTENDS MCAmmConfig, MCOracleFeed, MCAccounts, LogParser

ConfigRests == Init /\ UNCHANGED amm_config

FeedRests ==
  /\ observation_state = ZeroedObservation
  /\ now = 1
  /\ price = [t \in Tokens |-> IF t = 0 THEN 1 ELSE 4]
  /\ FeedInit
  /\ UNCHANGED feedVars

AccountsRest == AccountsInit /\ UNCHANGED accountsVars

ParserRests == ParserInit /\ UNCHANGED allLogVars

ComponentsInit == Init /\ FeedInit /\ AccountsInit /\ ParserInit

ComponentsNext ==
  \/ FeedRests /\ AccountsRest /\ ParserRests /\ Next
  \/ ConfigRests /\ AccountsRest /\ ParserRests /\ FeedNext
  \/ ConfigRests /\ FeedRests /\ ParserRests /\ AccountsNext
  \/ ConfigRests /\ FeedRests /\ AccountsRest /\ ParserNext

ComponentsSpec ==
  ComponentsInit /\ [][ComponentsNext]_<<amm_config, feedVars, accountsVars, allLogVars>>

=============================================================================
