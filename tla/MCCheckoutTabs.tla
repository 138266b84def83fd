--------------------------- MODULE MCCheckoutTabs ---------------------------
(* Single carts and a basket. *)
EXTENDS CheckoutTabs
CONSTANTS a, b, t1, t2

OneCart == {<<a>>}
MCMaxFlight == [t \in Tabs |-> IF t = t1 THEN 2 ELSE 1]
CartAndBasket == {<<a>>, <<a, b>>}
=============================================================================
