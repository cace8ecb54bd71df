-------------------------- MODULE MCCircularQueue --------------------------
(* Three entries (two usable), two objects, seven of them queued: the      *)
(* indices wrap twice and the queue is full and empty at every offset.     *)
EXTENDS CircularQueue
=============================================================================
