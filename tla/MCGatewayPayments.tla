-------------------------- MODULE MCGatewayPayments -------------------------
(***************************************************************************)
(* Values of the constants of GatewayPayments for TLC.                     *)
(***************************************************************************)
EXTENDS GatewayPayments, TLC

=============================================================================
