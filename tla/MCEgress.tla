------------------------------ MODULE MCEgress ------------------------------
(* The default configuration has equal queues.  Four contexts give the list *)
(* a head, a tail and a middle, and completions in every order.             *)
EXTENDS Egress
=============================================================================
