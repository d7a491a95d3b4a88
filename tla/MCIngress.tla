----------------------------- MODULE MCIngress ------------------------------
(* The receiving half under each of the configurations beside this module.  *)
EXTENDS Ingress
=============================================================================
