----------------------------- MODULE MCTransport -----------------------------
(* Two streaming endpoints and a table of two offsets: a rejected request   *)
(* leaks an offset, so that the table is full, grows and hands out an       *)
(* offset it has not marked.                                                *)
EXTENDS Transport
=============================================================================
