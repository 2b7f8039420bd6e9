------------------------------- MODULE MCHooks -------------------------------
(* Instances of the hooks for TLC: two threads and two blocks, so that an       *)
(* address is freed by one thread and handed to the other; every way in which   *)
(* one target can fail to be the committed function.                            *)
EXTENDS FaultHandler, TLC

CONSTANTS t1, t2, a, b

TwoThreads == {t1, t2}
TwoBlocks == {a, b}
Symmetric == Permutations(TwoThreads) \cup Permutations(TwoBlocks)

Default == [enabled |-> TRUE, verifyTargets |-> TRUE, refCountGuard |-> TRUE, scaleformHeap |-> TRUE,
            weakLib |-> TRUE, preventDoubleFree |-> FALSE, failSafe |-> FALSE]
Settings == {Default, [Default EXCEPT !.enabled = FALSE],
             [Default EXCEPT !.scaleformHeap = FALSE],
             [Default EXCEPT !.verifyTargets = FALSE, !.scaleformHeap = FALSE],
             [Default EXCEPT !.preventDoubleFree = TRUE, !.failSafe = TRUE]}
EverySetup == Settings \X BOOLEAN
=============================================================================
