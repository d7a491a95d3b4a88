---------------------------- MODULE FifoChannel -----------------------------
(***************************************************************************)
(* What the receiving half promises: while the connection is up messages   *)
(* are delivered in the order they arrived, each once and none skipped.    *)
(* Closing may discard what is still waiting, and nothing arrives any more,*)
(* but a message delivered late is still the next one in order.            *)
(***************************************************************************)
EXTENDS Naturals, Sequences

VARIABLES open, waiting, sent, last

channelVars == <<open, waiting, sent, last>>

Init ==
    /\ open = TRUE
    /\ waiting = <<>>
    /\ sent = 0
    /\ last = 0

Arrive ==
    /\ open
    /\ sent' = sent + 1
    /\ waiting' = Append(waiting, sent')
    /\ UNCHANGED <<open, last>>

Deliver ==
    /\ waiting # <<>>
    /\ last' = Head(waiting)
    /\ last' = last + 1
    /\ \/ waiting' = Tail(waiting)
       \/ ~open /\ waiting' = <<>>
    /\ UNCHANGED <<open, sent>>

Close ==
    /\ open
    /\ open' = FALSE
    /\ waiting' \in {waiting, <<>>}
    /\ UNCHANGED <<sent, last>>

Next == Arrive \/ Deliver \/ Close

Spec == Init /\ [][Next]_channelVars
=============================================================================
