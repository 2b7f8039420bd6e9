------------------------------ MODULE FreeRing ------------------------------
(* The searched rings: ScaleformFreeRing (the newest free of an address) and   *)
(* WeakLibEvents (the last few events of a resource).  The free hooks record;  *)
(* the exception handler and the report drainer walk back from the newest      *)
(* number.  ScaleformFreeRing asks a Bloom filter first, WeakLibEvents has none *)
(* and returns several records.                                                *)
EXTENDS RecordRing, Sequences

CONSTANTS Searchers,
          MaxEvents,     \* a_max of WeakLibEvents::Find
          MaxFinds       \* bound

ASSUME FreeRingAssumption == MaxEvents \in Nat \ {0} /\ MaxFinds \in Nat

VARIABLES
    bloom,      \* addresses added to the filter
    evictions,  \* _evictions
    sr,         \* searcher -> the locals of its Find
    finds       \* what MaxFinds bounds
freeVars == <<kind, bloom, evictions, sr, finds>>

HasBloom == kind = "frees"
MaxFound == IF kind = "frees" THEN 1 ELSE MaxEvents

Searcher == [pc : {"idle", "newest", "v1", "copy", "v2"}, key : Keys \cup {0}, seq : Nat,
             oldest : Nat, v1 : Version, copy : [Words -> Nat], left : SUBSET Words,
             found : Seq([Words -> Nat]),   \* a_out, oldest first
             known : SUBSET Nat]            \* history: published when the search began
NotSearching == [pc |-> "idle", key |-> 0, seq |-> 0, oldest |-> 0, v1 |-> NoVersion,
                 copy |-> [x \in Words |-> 0], left |-> {}, found |-> <<>>, known |-> {}]

FreeInit ==
    /\ RingInit
    /\ kind \in {"frees", "events"}
    /\ bloom = {} /\ evictions = 0 /\ finds = 0
    /\ sr = [r \in Searchers |-> NotSearching]

(***************************************************************************)
(* Record                                                                  *)
(***************************************************************************)
Added(k) == IF HasBloom THEN bloom \cup {k} ELSE bloom

\* The filter is told after the number is taken and before the slot is marked.
Record(w) ==
    \/ \E k \in Keys : Take(w, k) /\ UNCHANGED freeVars
    \/ Invalidate(w) /\ bloom' = Added(keyOf[wr[w].seq]) /\ UNCHANGED <<kind, evictions, sr, finds>>
    \/ (CopyIn(w) \/ Publish(w)) /\ UNCHANGED freeVars

CountEviction(w) ==
    /\ Counted(w)
    /\ evictions' = IF kind = "frees" /\ wr[w].seq > Capacity THEN evictions + 1 ELSE evictions
    /\ UNCHANGED <<kind, bloom, sr, finds>>

(***************************************************************************)
(* Find                                                                    *)
(***************************************************************************)
Stored(k) == {s \in 1 .. write : keyOf[s] = k /\ Published(version[SlotOf(s)], s)}

\* A miss of the filter is the answer; a hit may be false.
Find(r, k) ==
    /\ sr[r].pc = "idle" /\ finds < MaxFinds
    /\ finds' = finds + 1
    /\ \E hit \in IF HasBloom THEN {TRUE, (k \in bloom)} ELSE {TRUE} :
        sr' = [sr EXCEPT ![r] = [NotSearching EXCEPT !.key = k, !.known = Stored(k),
                                                     !.pc = IF hit THEN "newest" ELSE "idle"]]
    /\ UNCHANGED <<ringVars, kind, bloom, evictions>>

\* Mutant: one record less.
OldestLate(newest) == IF newest > Capacity THEN newest - Capacity + 1 ELSE 0

Oldest(newest) == IF newest > Capacity THEN newest - Capacity ELSE 0

\* The search ends at the oldest number or when a_out is full; the answer and
\* what was asked stay visible.
Walk(s, seq) ==
    IF seq > s.oldest /\ Len(s.found) < MaxFound
    THEN [s EXCEPT !.seq = seq, !.pc = "v1"]
    ELSE [NotSearching EXCEPT !.key = s.key, !.known = s.known, !.found = s.found]

LoadNewest(r) ==
    /\ sr[r].pc = "newest"
    /\ sr' = [sr EXCEPT ![r] = Walk([@ EXCEPT !.oldest = Oldest(write)], write)]
    /\ UNCHANGED <<ringVars, kind, bloom, evictions, finds>>

LoadV1(r) ==
    /\ sr[r].pc = "v1"
    /\ LET s == sr[r]
           v == version[SlotOf(s.seq)] IN
       sr' = [sr EXCEPT ![r] = IF Published(v, s.seq)
                               THEN [s EXCEPT !.v1 = v, !.left = Words, !.pc = "copy"]
                               ELSE Walk(s, s.seq - 1)]
    /\ UNCHANGED <<ringVars, kind, bloom, evictions, finds>>

CopyOut(r) ==
    /\ sr[r].pc = "copy"
    /\ \E x \in sr[r].left :
        sr' = [sr EXCEPT ![r].copy[x] = record[SlotOf(sr[r].seq)][x], ![r].left = @ \ {x},
                         ![r].pc = IF sr[r].left = {x} THEN "v2" ELSE @]
    /\ UNCHANGED <<ringVars, kind, bloom, evictions, finds>>

\* Mutant: v1 is not compared with v2.
AcceptsAlways(s) == TRUE

Accepts(s) == version[SlotOf(s.seq)] = s.v1

\* The walk goes back in time, so each match is placed before the ones found.
Placed(found, copy) == <<copy>> \o found

IsMatch(s) == keyOf[s.copy["head"]] = s.key

LoadV2(r) ==
    /\ sr[r].pc = "v2"
    /\ LET s == sr[r] IN
       sr' = [sr EXCEPT ![r] = IF Accepts(s) /\ IsMatch(s)
                               THEN Walk([s EXCEPT !.found = Placed(@, s.copy)], s.seq - 1)
                               ELSE Walk(s, s.seq - 1)]
    /\ UNCHANGED <<ringVars, kind, bloom, evictions, finds>>

FreesDone == /\ \A w \in Writers : wr[w].pc = "idle" /\ write = MaxRecords
             /\ finds = MaxFinds /\ (\A r \in Searchers : sr[r].pc = "idle")

FreeNext == \/ \E w \in Writers : Record(w) \/ CountEviction(w)
            \/ \E r \in Searchers : \/ \E k \in Keys : Find(r, k)
                                    \/ LoadNewest(r) \/ LoadV1(r) \/ CopyOut(r) \/ LoadV2(r)
FreeSpec == FreeInit /\ [][FreeNext]_<<ringVars, freeVars>>

(***************************************************************************)
(* Properties                                                              *)
(***************************************************************************)
WholeOf(copy) == copy["head"] = copy["tail"]

\* What a search found is whole records of the address asked for, in the order
\* they were recorded - as long as no writer was overtaken by a whole lap.
FoundInOrder ==
    ~lapped =>
      \A r \in Searchers : LET f == sr[r].found IN
        /\ \A i \in 1 .. Len(f) : WholeOf(f[i]) /\ keyOf[f[i]["head"]] = sr[r].key
        /\ \A i \in 1 .. Len(f) - 1 : f[i]["head"] < f[i + 1]["head"]

\* A finished search has the newest of the records that were there when it began
\* and whose slots nobody has reserved again: neither the filter nor records
\* published or overwritten during the walk hide one.
FindsNewest ==
    ~lapped => \A r \in Searchers : sr[r].pc = "idle" =>
        \A s \in sr[r].known : s + Capacity > write =>
            sr[r].found # <<>> /\ sr[r].found[Len(sr[r].found)]["head"] >= s
=============================================================================
