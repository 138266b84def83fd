--------------------------- MODULE MCAdminAccounts --------------------------
(* The values of the constants are in the cfg. *)
EXTENDS AdminAccounts
CONSTANTS boss, ann, i1, r1, r2
=============================================================================
