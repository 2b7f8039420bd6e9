------------------------------- MODULE MCRings -------------------------------
(* The overwriting rings for TLC: the searched ones, the drained one and the   *)
(* candidate queue, each alone (the kind is chosen in Init).  Two slots, so    *)
(* that a few records lap a ring.                                              *)
EXTENDS FreeRing, ReportRing, CandidateRing, TLC

CONSTANTS w1, w2, r1, a, b

TwoWriters == {w1, w2}
OneSearcher == {r1}
TwoKeys == {a, b}
Symmetric == Permutations(TwoWriters) \cup Permutations(TwoKeys)

FreesIdle == bloom = {} /\ evictions = 0 /\ finds = 0
             /\ sr = [r \in Searchers |-> NotSearching]
ReportsIdle == read = 0 /\ dropped = 0 /\ dr = NotDraining /\ drained = <<>>

Init ==
    /\ CandidateInit
    /\ \/ FreeInit /\ ReportsIdle
       \/ ReportInit /\ FreesIdle
       \/ RingInit /\ kind = "candidates" /\ FreesIdle /\ ReportsIdle

vars == <<ringVars, freeVars, reportVars, candidateVars>>

Finished == /\ \/ kind \in {"frees", "events"} /\ FreesDone
               \/ kind = "reports" /\ ReportsDone
               \/ kind = "candidates" /\ CandidatesDone
            /\ UNCHANGED vars

Next ==
    \/ kind \in {"frees", "events"} /\ FreeNext /\ UNCHANGED <<reportVars, candidateVars>>
    \/ kind = "reports" /\ ReportNext /\ UNCHANGED <<freeVars, candidateVars>>
    \/ kind = "candidates" /\ CandidateNext /\ UNCHANGED <<ringVars, freeVars, reportVars>>
    \/ Finished

Spec == Init /\ [][Next]_vars
=============================================================================
