--------------------------- MODULE MCGenericQueue ---------------------------
(***************************************************************************)
(* GenericQueue for TLC.  The configurations give the constants their       *)
(* values.                                                                  *)
(***************************************************************************)
EXTENDS GenericQueue
=============================================================================
