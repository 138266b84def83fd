----------------------- MODULE OrderFulfillmentClaims -----------------------
(***************************************************************************)
(* What a test of the repository says of the order life cycle and the code *)
(* does not do.  Its run expects a violation.                              *)
(***************************************************************************)
EXTENDS OrderFulfillment

(* "idempotent, no double-fulfil" (test_webhook_signature_harness.py:10):    *)
(* whatever the gateway redelivers, the automatic path settles an order once.*)
(* The duplicate check and the processed_webhooks insert are commits apart.  *)
OrdersAreFulfilledOnce ==
  [][\A o \in Orders :
       status'[o] = "fulfilled" /\ status[o] # "fulfilled" => fk[o] = 0]_vars
=============================================================================
