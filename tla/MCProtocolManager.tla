------------------------- MODULE MCProtocolManager -------------------------
(***************************************************************************)
(* ProtocolManager for TLC.  The configurations give the constants their    *)
(* values.                                                                  *)
(***************************************************************************)
EXTENDS ProtocolManager
=============================================================================
