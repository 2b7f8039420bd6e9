----------------------------- MODULE ReportRing -----------------------------
(* WatchpointReports: the trap handlers of any number of threads record, the   *)
(* sweeper alone drains, oldest first.  A record that is overwritten before it *)
(* is drained is lost and must be counted.                                     *)
EXTENDS RecordRing, Sequences, FiniteSets

CONSTANT MaxBatch      \* a_max of Drain

ASSUME ReportAssumption == MaxBatch \in Nat \ {0}

VARIABLES
    read,      \* _readCursor
    dropped,   \* _dropped
    dr,        \* the locals of Drain
    drained    \* history: the copies handed out, in order
reportVars == <<read, dropped, dr, drained>>

\* pc is "idle", "v1", "copy" or "v2".
NotDraining == [pc |-> "idle", written |-> 0, read |-> 0, v1 |-> NoVersion,
                copy |-> [x \in Words |-> 0], left |-> {}, copied |-> 0]

ReportInit ==
    /\ RingInit /\ kind = "reports"
    /\ read = 0 /\ dropped = 0 /\ dr = NotDraining /\ drained = <<>>

(***************************************************************************)
(* Record                                                                  *)
(***************************************************************************)
RecordReport(w) ==
    /\ Take(w, 0) \/ Invalidate(w) \/ CopyIn(w) \/ Publish(w)
    /\ UNCHANGED <<kind, reportVars>>

\* The record overwritten was not drained yet.
Overwrote(seq) == seq > Capacity /\ seq - Capacity > read

CountDrop(w) ==
    /\ Counted(w)
    /\ dropped' = IF Overwrote(wr[w].seq) THEN dropped + 1 ELSE dropped
    /\ UNCHANGED <<kind, read, dr, drained>>

(***************************************************************************)
(* Drain                                                                   *)
(***************************************************************************)
OldestLive(written) == IF written > Capacity THEN written - Capacity + 1 ELSE 1

\* Mutant: the gap is one record short.
SkippedShort(from, oldest) == IF oldest > from + 1 THEN oldest - from - 2 ELSE 0

\* The records the writers ran over.
Skipped(from, oldest) == IF oldest > from + 1 THEN oldest - from - 1 ELSE 0

\* The loop ends, with the cursor stored, when the buffer is full or nothing is
\* left of what had been written at the start.
GoOn(d) == IF d.copied < MaxBatch /\ d.read < d.written
           THEN dr' = [d EXCEPT !.pc = "v1"] /\ UNCHANGED read
           ELSE dr' = NotDraining /\ read' = d.read

Break == dr' = NotDraining /\ read' = dr.read

\* The loads of both cursors, and the jump over what is gone.  A drain that finds
\* nothing new changes nothing.
DrainBegins ==
    /\ dr.pc = "idle" /\ read < write
    /\ LET from == IF OldestLive(write) > read + 1 THEN OldestLive(write) - 1 ELSE read IN
       /\ dropped' = dropped + Skipped(read, OldestLive(write))
       /\ read' = from
       /\ dr' = [NotDraining EXCEPT !.pc = "v1", !.written = write, !.read = from]
    /\ UNCHANGED <<ringVars, kind, drained>>

ReportV1 ==
    /\ dr.pc = "v1"
    /\ LET v == version[SlotOf(dr.read + 1)] IN
       IF Published(v, dr.read + 1)
       THEN dr' = [dr EXCEPT !.v1 = v, !.left = Words, !.pc = "copy"] /\ UNCHANGED read
       ELSE Break
    /\ UNCHANGED <<ringVars, kind, dropped, drained>>

CopyReport ==
    /\ dr.pc = "copy"
    /\ \E x \in dr.left :
        dr' = [dr EXCEPT !.copy[x] = record[SlotOf(dr.read + 1)][x], !.left = @ \ {x},
                         !.pc = IF dr.left = {x} THEN "v2" ELSE @]
    /\ UNCHANGED <<ringVars, kind, read, dropped, drained>>

\* Mutant: v1 is not compared with v2.
UnchangedSlotNot == TRUE

UnchangedSlot == version[SlotOf(dr.read + 1)] = dr.v1

ReportV2 ==
    /\ dr.pc = "v2"
    /\ IF UnchangedSlot
       THEN /\ GoOn([dr EXCEPT !.read = @ + 1, !.copied = @ + 1])
            /\ drained' = Append(drained, dr.copy)
       ELSE Break /\ UNCHANGED drained
    /\ UNCHANGED <<ringVars, kind, dropped>>

ReportsDone == \A w \in Writers : wr[w].pc = "idle" /\ write = MaxRecords
               /\ dr.pc = "idle"

ReportNext ==
    \/ \E w \in Writers : RecordReport(w) \/ CountDrop(w)
    \/ DrainBegins \/ ReportV1 \/ CopyReport \/ ReportV2
ReportSpec == ReportInit /\ [][ReportNext]_<<ringVars, kind, reportVars>>

(***************************************************************************)
(* Properties                                                              *)
(***************************************************************************)
\* The drain hands out whole reports, each once and in the order of the traps,
\* across any number of calls - as long as no handler was overtaken by a whole
\* lap of the ring.
DrainedInOrder ==
    ~lapped =>
      /\ \A i \in 1 .. Len(drained) : drained[i]["head"] = drained[i]["tail"]
      /\ \A i \in 1 .. Len(drained) - 1 : drained[i]["head"] < drained[i + 1]["head"]

Delivered == {drained[i]["head"] : i \in 1 .. Len(drained)}

\* "Overwriting an undrained record is counted": once the handlers are out, each
\* report that the drain has passed, or that a later one has taken the place of,
\* was handed out or counted - as long as no handler was overtaken by a whole lap.
DropsCounted ==
    kind = "reports" /\ ~lapped /\ dr.pc = "idle" /\ (\A w \in Writers : wr[w].pc = "idle") =>
        Cardinality({s \in 1 .. write : /\ s <= read \/ s + Capacity <= write
                                        /\ s \notin Delivered}) <= dropped
=============================================================================
