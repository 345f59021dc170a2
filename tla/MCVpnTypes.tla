------------------------------ MODULE MCVpnTypes ------------------------------
(* The state round trip, for TLC. *)
EXTENDS VpnTypes, TLC
=============================================================================
