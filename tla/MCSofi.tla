------------------------------- MODULE MCSofi -------------------------------
(* The endpoint under each of the configurations beside this module.  Two   *)
(* contexts and two buffers are the smallest queues ofi.c accepts.          *)
EXTENDS Sofi
=============================================================================
