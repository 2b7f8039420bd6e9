------------------------- MODULE MCPoisonQuarantine -------------------------
(* Instances of the quarantine for TLC: two slots (Init never makes fewer), so *)
(* that a few frees lap the ring; blocks of sizes 1 and 2 against a byte budget*)
(* of 2 or 3.                                                                  *)
EXTENDS PoisonQuarantine

CONSTANTS t1, t2, b1, b2, b3

TwoThreads == {t1, t2}
ThreeBlocks == {b1, b2, b3}
Sizes(b) == IF b = b2 THEN 2 ELSE 1

\* One thread frees through more than two laps of the ring while another faults; or two
\* free and one of them may be terminated.
OneOrTwo ==
    {[hooked |-> {t1}, maxBytes |-> 2, heapsDie |-> TRUE, frees |-> 5, faults |-> 1, deaths |-> 0],
     [hooked |-> {t1, t2}, maxBytes |-> 3, heapsDie |-> FALSE, frees |-> 3, faults |-> 0,
      deaths |-> 1]}

\* Two threads, long enough for a lap.
TwoLaps ==
    {[hooked |-> {t1, t2}, maxBytes |-> 0, heapsDie |-> FALSE, frees |-> 5, faults |-> 0,
      deaths |-> 0]}
=============================================================================
