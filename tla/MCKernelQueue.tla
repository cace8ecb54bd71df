--------------------------- MODULE MCKernelQueue ---------------------------
(* Three entries, two requests, six pushes: both indices wrap twice.       *)
EXTENDS KernelQueue
=============================================================================
