------------------------------ MODULE LedgerMap ------------------------------
(* What the shadow ledger promises the threads that use it while one thread    *)
(* writes: a map from block addresses to allocation records that may refuse an *)
(* insert and may forget freed blocks, in which every lookup answers with what *)
(* the map held at some moment of the call.                                    *)
CONSTANTS Threads, Keys, Records, NoRecord

VARIABLES
    map,     \* key -> its record, or NoRecord
    call     \* thread -> its call: what was asked, the answer once it is not
             \* pending, and the records of its key seen since it began
vars == <<map, call>>

NoCall == [pending |-> FALSE, op |-> "none", key |-> NoRecord.ptr, rec |-> NoRecord,
           ok |-> FALSE, seen |-> {}]

Init == map = [k \in Keys |-> NoRecord] /\ call = [t \in Threads |-> NoCall]

\* Every pending call sees the map as it has become.
Seeing(m, cs) == [t \in Threads |-> IF cs[t].pending
                                    THEN [cs[t] EXCEPT !.seen = @ \cup {m[cs[t].key]}]
                                    ELSE cs[t]]
Answered(c, ok, rec) == [c EXCEPT !.pending = FALSE, !.ok = ok, !.rec = rec, !.seen = {}]

Begin(t, op, k, rec) ==
    /\ call' = Seeing(map, [call EXCEPT ![t] = [NoCall EXCEPT !.pending = TRUE, !.op = op,
                                                              !.key = k, !.rec = rec]])
    /\ UNCHANGED map

\* A lookup of an address that has no record may be answered at once.
Miss(t, k) ==
    /\ map[k] = NoRecord
    /\ call' = [call EXCEPT ![t] = [NoCall EXCEPT !.op = "find", !.key = k]]
    /\ UNCHANGED map

\* A writer takes out the record of its own key, or makes room by forgetting
\* the record of a freed block.
TakeOut(t, k) ==
    /\ map[k] # NoRecord
    /\ \/ call[t].op \in {"insert", "erase"} /\ call[t].key = k
       \/ call[t].op = "insert" /\ map[k].freed
    /\ map' = [map EXCEPT ![k] = NoRecord]
    /\ call' = Seeing(map', call)

\* An accepted insert: its record is in the map when the call returns.
Put(t) ==
    /\ call[t].op = "insert"
    /\ map' = [map EXCEPT ![call[t].key] = call[t].rec]
    /\ call' = Seeing(map', [call EXCEPT ![t] = Answered(@, TRUE, @.rec)])

\* A refused insert leaves no older record of its address behind.
Refuse(t) ==
    /\ call[t].op = "insert" /\ map[call[t].key] = NoRecord
    /\ call' = [call EXCEPT ![t] = Answered(@, FALSE, @.rec)]
    /\ UNCHANGED map

\* An erase leaves nothing, and returns the record it took out.
Erased(t) ==
    /\ call[t].op = "erase" /\ map[call[t].key] = NoRecord
    /\ \/ \E rec \in call[t].seen \ {NoRecord} :
            call' = [call EXCEPT ![t] = Answered(@, TRUE, rec)]
       \/ /\ call[t].seen = {NoRecord}
          /\ call' = [call EXCEPT ![t] = Answered(@, FALSE, NoRecord)]
    /\ UNCHANGED map

\* A lookup answers with a record its key had during the call, and says
\* "unknown" only if there was a moment without one.
Found(t) ==
    /\ call[t].op = "find"
    /\ \E rec \in call[t].seen :
        call' = [call EXCEPT ![t] = Answered(@, rec # NoRecord, rec)]
    /\ UNCHANGED map

Ask(t) == /\ ~call[t].pending
          /\ \/ \E rec \in Records : rec.ptr \in Keys /\ Begin(t, "insert", rec.ptr, rec)
             \/ \E k \in Keys, op \in {"find", "erase"} : Begin(t, op, k, NoRecord)
             \/ \E k \in Keys : Miss(t, k)
Work(t) == /\ call[t].pending
           /\ Put(t) \/ Refuse(t) \/ Erased(t) \/ Found(t) \/ \E k \in Keys : TakeOut(t, k)

\* Most steps of an implementation show nothing.
Next == UNCHANGED vars \/ \E t \in Threads : Ask(t) \/ Work(t)
Spec == Init /\ [][Next]_vars
==============================================================================
