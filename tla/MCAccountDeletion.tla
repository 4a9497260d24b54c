--------------------------- MODULE MCAccountDeletion ---------------------------
(* Small instances of AccountDeletion for TLC. *)
EXTENDS AccountDeletion
===============================================================================
