-------------------------- MODULE MCHostInterface --------------------------
EXTENDS HostInterface

\* Pages of two cells. Cells 2..4 and 6..8 hold the queues, pages 10 to 16
\* data, pages 20 and 22 a chained PRP list, page 24 a broken one.
MCHostMem ==
  [a \in 1 .. 25 |->
     CASE a = 20 -> 12 [] a = 21 -> 22 [] a = 22 -> 14 [] a = 23 -> 16 [] a = 24 -> 12
       [] a \in 10 .. 17 -> 100 + a [] OTHER -> 0]

MCCmds == <<
  [op |-> "WRITE", prp1 |-> 11, prp2 |-> 20, size |-> 7, pages |-> <<10, 12, 14, 16>>],
  [op |-> "READ", prp1 |-> 10, prp2 |-> 14, size |-> 3, pages |-> <<10, 14>>],
  [op |-> "WRITE", prp1 |-> 10, prp2 |-> 24, size |-> 5, pages |-> <<>>],
  [op |-> "CREATE_CQ", prp1 |-> 0, prp2 |-> 0, size |-> 0, pages |-> <<>>]>>
=============================================================================
