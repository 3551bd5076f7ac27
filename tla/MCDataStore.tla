----------------------------- MODULE MCDataStore -----------------------------
(***************************************************************************)
(* DataStore for TLC: two descriptions of one node, the second one newer.   *)
(***************************************************************************)
EXTENDS DataStore

CONSTANTS old, new, n1

MCnodeOf == [d \in {old, new} |-> n1]
MCcreateTime == [d \in {old, new} |-> IF d = new THEN 2 ELSE 1]
=============================================================================
