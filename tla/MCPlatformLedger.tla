-------------------------- MODULE MCPlatformLedger --------------------------
(***************************************************************************)
(* Values of the constants of PlatformLedger for TLC.                      *)
(***************************************************************************)
EXTENDS PlatformLedger, TLC

=============================================================================
