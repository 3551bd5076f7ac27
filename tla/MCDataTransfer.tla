--------------------------- MODULE MCDataTransfer ---------------------------
(***************************************************************************)
(* DataTransfer for TLC.  The configurations give the constants their       *)
(* values.                                                                  *)
(***************************************************************************)
EXTENDS DataTransfer
=============================================================================
