---------------------------- MODULE BoundedFifo ----------------------------
(***************************************************************************)
(* What a message queue between two threads promises: at most Capacity     *)
(* accepted messages are outstanding, and they are delivered once each, in *)
(* the order in which they were accepted.                                  *)
(***************************************************************************)
EXTENDS Integers, Sequences

CONSTANTS Msg,         \* what may be sent
          Capacity     \* most messages accepted and not yet delivered

VARIABLES sent,        \* every message accepted so far
          received     \* every message delivered so far

Init == sent = <<>> /\ received = <<>>

Send(m) ==
  /\ Len(sent) - Len(received) < Capacity
  /\ sent' = Append(sent, m)
  /\ UNCHANGED received

Receive ==
  /\ Len(received) < Len(sent)
  /\ received' = Append(received, sent[Len(received) + 1])
  /\ UNCHANGED sent

Next == (\E m \in Msg : Send(m)) \/ Receive

Spec == Init /\ [][Next]_<<sent, received>>
=============================================================================
