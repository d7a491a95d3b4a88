------------------------------- MODULE OfiApi -------------------------------
(***************************************************************************)
(* The fabrics and domains of one process (ofiapi.c): ofi.c opens a fabric *)
(* for every endpoint it creates, the endpoint a domain in it.  A fabric   *)
(* is a reference count that is 1 from its opening to its closing, so it   *)
(* appears here as one of a number of fabrics.                             *)
(***************************************************************************)
EXTENDS Integers

VARIABLES
    fabrics,    \* fabrics on the list of ofi_resources
    domains     \* domains on the lists of these fabrics

Init == fabrics = 0 /\ domains = 0

(* nn_ofi_bind and nn_ofi_connect up to the creation of the endpoint: the   *)
(* fabric and the domain are opened, or the domain cannot be, and the       *)
(* fabric stays on the list until the end.                                  *)
OpenBoth == fabrics' = fabrics + 1 /\ domains' = domains + 1

OpenFabricOnly == fabrics' = fabrics + 1 /\ UNCHANGED domains

DomainClose == domains' = domains - 1 /\ UNCHANGED fabrics

(* ofi_term: each fabric is closed, and with it each domain left on it.     *)
Term == fabrics' = 0 /\ domains' = 0
=============================================================================
