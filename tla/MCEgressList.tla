---------------------------- MODULE MCEgressList ----------------------------
(* Five contexts: one for each end, and a middle wide enough for a context  *)
(* to be unlinked between two others that are both in the middle.           *)
EXTENDS EgressList
=============================================================================
