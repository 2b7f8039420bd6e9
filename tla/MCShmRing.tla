----------------------------- MODULE MCShmRing -----------------------------
(* Three threads at most on rings of one or two slots. *)
EXTENDS ShmRing, TLC
CONSTANTS p1, p2, p3
Three == {p1, p2, p3}
Symm == Permutations(Three)

\* Two threads hand one ring over while the helper drains; three threads take
\* stale rings over, undrained.
HandedOver ==
    {[producers |-> P, rings |-> 1, stale |-> 0, claims |-> 3, events |-> 3, deaths |-> 0,
      ticks |-> 0, attaches |-> 1, crashes |-> 0] : P \in {Q \in SUBSET Three : Cardinality(Q) = 2}}
    \cup {[producers |-> Three, rings |-> 2, stale |-> 1, claims |-> 4, events |-> 1,
           deaths |-> 0, ticks |-> 2, attaches |-> 0, crashes |-> 0]}

\* One thread on one ring, two helpers one after the other.
Restarted ==
    {[producers |-> {p1}, rings |-> 1, stale |-> 0, claims |-> 1, events |-> 4, deaths |-> 1,
      ticks |-> 0, attaches |-> 2, crashes |-> 1]}
=============================================================================
