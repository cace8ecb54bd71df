------------------------------- MODULE MCFtl -------------------------------
(* The FTL on a flash small enough to be filled: 2 channels of 1 die, 2    *)
(* planes of 2 blocks of 3 pages, so that the carries of the round-robin,  *)
(* the move to the next block and the full flash are reached.              *)
EXTENDS Ftl
=============================================================================
