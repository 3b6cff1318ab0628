------------------------- MODULE MCPunctualFetcher -------------------------
(* Values for the constants of PunctualFetcher that a cfg cannot spell.    *)
EXTENDS PunctualFetcher, TLC

CONSTANTS e1, l1, c1, c2

OneEvent == l1 :> e1
OnePlace == c1 :> l1 @@ c2 :> l1
OneStripe == e1 :> 1
=============================================================================
