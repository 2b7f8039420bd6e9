--------------------------- MODULE MCShadowLedger ---------------------------
(* Instances of the shadow ledger for TLC: a shard of two cells that every key *)
(* hashes into, so that probing, tombstones, eviction and a full window happen *)
(* within a few calls.                                                         *)
EXTENDS LedgerRefines, TLC

CONSTANTS t1, t2, a, b, c

TwoThreads == {t1, t2}
ThreeKeys == {a, b, c}

\* a starts in the last cell, so its window wraps around.
FirstCell(k) == IF k = a THEN Capacity - 1 ELSE 0
\* b and c start in the same cell.
Symmetric == Permutations({t1, t2}) \cup Permutations({b, c})

WriteOnly == {"insert", "erase"}
\* Both threads write, or one does everything and the other looks up.
Mixes == {[t \in TwoThreads |-> WriteOnly]} \cup
         {[t \in TwoThreads |-> IF t = w THEN WriteOnly \cup {"find"} ELSE {"find"}] :
             w \in TwoThreads}
=============================================================================
