--------------------------- MODULE MCWatchpoints ---------------------------
(* One or two threads, two blocks. *)
EXTENDS Watchpoints, TLC
CONSTANTS t1, t2, b1, b2
OneThread == {t1}
TwoThreads == {t1, t2}
TwoBlocks == {b1, b2}
Symmetric == Permutations(TwoThreads) \cup Permutations(TwoBlocks)
=============================================================================
