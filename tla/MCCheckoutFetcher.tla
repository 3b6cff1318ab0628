------------------------- MODULE MCCheckoutFetcher -------------------------
(* Values for the constants of CheckoutFetcher that a cfg cannot spell.    *)
EXTENDS CheckoutFetcher, TLC

CONSTANTS e1, e2, l1, l2, c1, c2

OneEvent == l1 :> e1 @@ l2 :> e1
TwoEvents == l1 :> e1 @@ l2 :> e2
TwoPlaces == c1 :> l1 @@ c2 :> l2
SameStripe == [e \in Events |-> 1]
=============================================================================
