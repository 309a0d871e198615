--------------------------- MODULE MCAdminAccounts ---------------------------
(***************************************************************************)
(* Instances of AdminAccounts for TLC: an owner and a member of staff.     *)
(***************************************************************************)
EXTENDS AdminAccounts
=============================================================================
