---------------------------- MODULE MCForwarding ----------------------------
(***************************************************************************)
(* The instance of Forwarding that TLC checks: the bounds are numbers and   *)
(* stand in the configurations.                                             *)
(***************************************************************************)
EXTENDS Forwarding
=============================================================================
