------------------------------ MODULE HostDma ------------------------------
(***************************************************************************)
(* What the firmware relies on when it gives the host interface a command: *)
(* one at a time, the bytes named are copied between host memory and SSD   *)
(* memory, nothing else is touched, and the command is over after that.    *)
(***************************************************************************)
EXTENDS Integers

VARIABLES hmem, smem, op

NoOp == [cmd |-> "none"]
ToSsd == {"DMA_READ", "SQ_READ"}
ToHost == {"DMA_WRITE", "CQ_WRITE"}

\* len cells of memory src from s on, copied to memory dst from d on.
Copied(dst, d, src, s, len) ==
  [a \in DOMAIN dst |-> IF a \in d .. d + len - 1 THEN src[s + a - d] ELSE dst[a]]

DmaInit == op = NoOp

Begin ==
  /\ op = NoOp
  /\ op' \in [cmd: ToSsd \cup ToHost, h: DOMAIN hmem, s: DOMAIN smem, len: Nat \ {0},
             moved: {FALSE}]
  /\ UNCHANGED <<hmem, smem>>

Move ==
  /\ op # NoOp /\ ~op.moved
  /\ op' = [op EXCEPT !.moved = TRUE]
  /\ IF op.cmd \in ToSsd
     THEN smem' = Copied(smem, op.s, hmem, op.h, op.len) /\ UNCHANGED hmem
     ELSE hmem' = Copied(hmem, op.h, smem, op.s, op.len) /\ UNCHANGED smem

End == op # NoOp /\ op.moved /\ op' = NoOp /\ UNCHANGED <<hmem, smem>>

\* The guest writes memory that no command is working on; the firmware its
\* own memory while no command is.
Guest ==
  /\ UNCHANGED <<smem, op>>
  /\ DOMAIN hmem' = DOMAIN hmem
  /\ op # NoOp => \A a \in op.h .. op.h + op.len - 1 : hmem'[a] = hmem[a]
Prepare == op = NoOp /\ UNCHANGED <<hmem, op>> /\ DOMAIN smem' = DOMAIN smem

DmaNext == Begin \/ Move \/ End \/ Guest \/ Prepare
DmaSpec == DmaInit /\ [][DmaNext]_<<hmem, smem, op>>
=============================================================================
