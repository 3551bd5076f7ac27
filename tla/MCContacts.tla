----------------------------- MODULE MCContacts -----------------------------
(***************************************************************************)
(* The instance of Contacts that TLC checks: the interfaces are model       *)
(* values and stand in the configurations, as the bounds do.                *)
(***************************************************************************)
EXTENDS Contacts
=============================================================================
