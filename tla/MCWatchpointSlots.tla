------------------------- MODULE MCWatchpointSlots -------------------------
(* Two slots, two addresses, two game threads and the sweeper. *)
EXTENDS WatchpointSlots, TLC
CONSTANTS t1, t2, a1, a2
MCThreads == {t1, t2}
MCOneThread == {t1}
MCAddrs == {a1, a2}
Symm == Permutations(MCThreads) \cup Permutations(MCAddrs)
SymmAddrs == Permutations(MCAddrs)
=============================================================================
