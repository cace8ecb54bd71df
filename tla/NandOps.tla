------------------------------ MODULE NandOps ------------------------------
(***************************************************************************)
(* What a caller of the low-level NAND I/O layer may rely on               *)
(* (begin_*_op, add_*_op_page, sync_end_*_op of low_level_nand_io.c): the  *)
(* pages of an operation are moved one by one, in any order, and the call  *)
(* returns when all of them have been moved.                               *)
(***************************************************************************)
EXTENDS Naturals, Sequences

CONSTANTS Ppa, Kinds, MAX_PAGES

VARIABLES
  flash,    \* content of every physical page
  buf,      \* content of the caller's page buffers
  kind,     \* kind of the operation that runs, "none" between operations
  pages,    \* its pages: the i-th is moved from or to buffer i
  todo      \* its pages that have not been moved

opVars == <<flash, buf, kind, pages, todo>>

\* The caller prepares its buffers and starts an operation.
Start ==
  /\ kind = "none"
  /\ kind' \in Kinds
  /\ pages' \in UNION {[1 .. n -> Ppa] : n \in 0 .. MAX_PAGES}
  /\ todo' = DOMAIN pages'
  /\ DOMAIN buf' = DOMAIN buf
  /\ kind' = "READ" => buf' = buf
  /\ UNCHANGED flash

\* One page is read into, or programmed from, its buffer.
Move(i) ==
  /\ i \in todo
  /\ todo' = todo \ {i}
  /\ \/ kind = "READ" /\ buf' = [buf EXCEPT ![i] = flash[pages[i]]] /\ UNCHANGED flash
     \/ kind = "PROGRAM" /\ flash' = [flash EXCEPT ![pages[i]] = buf[i]] /\ UNCHANGED buf
  /\ UNCHANGED <<kind, pages>>

\* The call returns.
Return ==
  /\ kind # "none"
  /\ todo = {}
  /\ kind' = "none"
  /\ pages' = <<>>
  /\ UNCHANGED <<flash, buf, todo>>

OpInit == kind = "none" /\ pages = <<>> /\ todo = {}
OpNext == Start \/ (\E i \in todo : Move(i)) \/ Return
OpSpec == OpInit /\ [][OpNext]_opVars
=============================================================================
