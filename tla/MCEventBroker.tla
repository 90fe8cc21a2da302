--------------------------- MODULE MCEventBroker ---------------------------
(***************************************************************************)
(* The broker with its users for TLC: the Wait of a login, and subscribers *)
(* that do as they like.                                                   *)
(***************************************************************************)
EXTENDS Login

=============================================================================
