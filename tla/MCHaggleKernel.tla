--------------------------- MODULE MCHaggleKernel ---------------------------
(***************************************************************************)
(* HaggleKernel for TLC.  The configurations give the constants their       *)
(* values.                                                                  *)
(***************************************************************************)
EXTENDS HaggleKernel
=============================================================================
