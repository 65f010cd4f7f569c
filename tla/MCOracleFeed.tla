----------------------------- MODULE MCOracleFeed -----------------------------
(* The small instance of OracleFeed: price pairs whose products with the     *)
(* intervals of the instance reach both the wrap and the overflow check.     *)
EXTENDS OracleFeed

MCPrices == {[t \in Tokens |-> IF t = 0 THEN 1 ELSE 4], [t \in Tokens |-> IF t = 0 THEN 3 ELSE 0]}

=============================================================================
