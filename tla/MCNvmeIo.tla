------------------------------ MODULE MCNvmeIo ------------------------------
(* Queues of three entries, a namespace of two pages, four commands: both  *)
(* queues wrap, the completion phase flips and completions wait for room.  *)
EXTENDS NvmeIo

Command(op, slba, n) == [op |-> op, slba |-> slba, n |-> n]

InRangeCmds == { Command("READ", 0, 2), Command("WRITE", 0, 2), Command("WRITE", 1, 1),
                 Command("FLUSH", 0, 1), Command("UNKNOWN", 0, 1) }
AnyCmds == { Command("READ", 0, 1), Command("WRITE", 1, 2), Command("READ", 2, 2),
             Command("WRITE", 2, 2) }
=============================================================================
