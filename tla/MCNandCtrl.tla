----------------------------- MODULE MCNandCtrl -----------------------------
(* Instance: batches with two pages of one chip, with pages of two chips of *)
(* a channel, of both channels, one that is too long, and none at all.      *)
EXTENDS NandCtrl

P(c, k, pg) == [chn |-> c, chip |-> k, block |-> pg \div PAGES, page |-> pg % PAGES]
MCBatches == {<<>>,
              <<P(0, 0, 0), P(0, 0, 1)>>,
              <<P(0, 0, 1), P(0, 1, 0), P(1, 0, 1)>>,
              <<P(1, 1, 0), P(0, 1, 0), P(1, 0, 0), P(0, 0, 0)>>}
=============================================================================
