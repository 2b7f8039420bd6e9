----------------------------- MODULE RecordRing -----------------------------
(* The writers' side of the overwriting record rings (ScaleformFreeRing,       *)
(* WeakLibEvents, WatchpointReports).  A writer takes the next number, marks   *)
(* the number's slot as being written, stores the record and publishes it;     *)
(* nobody waits, and the ring overwrites its oldest records.  FreeRing adds the *)
(* searches, ReportRing the drain.                                             *)
(*                                                                             *)
(* One step is one access to shared memory; the words of one record move in any*)
(* order.  A writer may be stopped anywhere for as long as the others run.     *)
EXTENDS Naturals

CONSTANTS Writers, Keys,
          Capacity,                  \* _capacity
          MaxRecords                 \* bound

ASSUME RecordRingAssumption ==
    /\ Capacity \in Nat \ {0}
    /\ MaxRecords \in Nat

Cells == 0 .. Capacity - 1
Words == {"head", "tail"}            \* a record is two words

VARIABLES
    kind,     \* which ring this is
    write,    \* _writeCursor
    version,  \* cell -> the slot's seqlock word
    record,   \* cell -> word -> the number of the record the word belongs to
    keyOf,    \* history: number -> the address it was recorded for
    wr,       \* writer -> the locals of its Record
    lapped    \* history: two writers have been inside one slot
ringVars == <<write, version, record, keyOf, wr, lapped>>

Version == [seq : Nat, writing : BOOLEAN]
Writer  == [pc : {"idle", "taken", "copy", "publish", "count"}, seq : Nat,
            left : SUBSET Words]

SlotOf(seq) == seq % Capacity
NoVersion == [seq |-> 0, writing |-> FALSE]
Published(v, seq) == v = [seq |-> seq, writing |-> FALSE]

RingInit ==
    /\ write = 0
    /\ version = [i \in Cells |-> NoVersion]
    /\ record = [i \in Cells |-> [x \in Words |-> 0]]
    /\ keyOf = <<>>
    /\ wr = [w \in Writers |-> [pc |-> "idle", seq |-> 0, left |-> {}]]
    /\ lapped = FALSE

Inside(w, i) == wr[w].pc \in {"taken", "copy", "publish"} /\ SlotOf(wr[w].seq) = i

\* The fetch_add of Record.
Take(w, k) ==
    /\ wr[w].pc = "idle" /\ write < MaxRecords
    /\ write' = write + 1
    /\ keyOf' = [s \in 1 .. write + 1 |-> IF s = write + 1 THEN k ELSE keyOf[s]]
    /\ wr' = [wr EXCEPT ![w] = [pc |-> "taken", seq |-> write + 1, left |-> {}]]
    /\ lapped' = (lapped \/ \E u \in Writers \ {w} : Inside(u, SlotOf(write + 1)))
    /\ UNCHANGED <<version, record>>

Invalidate(w) ==
    /\ wr[w].pc = "taken"
    /\ version' = [version EXCEPT ![SlotOf(wr[w].seq)] = [seq |-> wr[w].seq, writing |-> TRUE]]
    /\ wr' = [wr EXCEPT ![w].pc = "copy", ![w].left = Words]
    /\ UNCHANGED <<write, record, keyOf, lapped>>

CopyIn(w) ==
    /\ wr[w].pc = "copy"
    /\ \E x \in wr[w].left :
        /\ record' = [record EXCEPT ![SlotOf(wr[w].seq)][x] = wr[w].seq]
        /\ wr' = [wr EXCEPT ![w].left = @ \ {x},
                            ![w].pc = IF wr[w].left = {x} THEN "publish" ELSE @]
    /\ UNCHANGED <<write, version, keyOf, lapped>>

Publish(w) ==
    /\ wr[w].pc = "publish"
    /\ version' = [version EXCEPT ![SlotOf(wr[w].seq)] = [seq |-> wr[w].seq, writing |-> FALSE]]
    /\ wr' = [wr EXCEPT ![w].pc = "count"]
    /\ UNCHANGED <<write, record, keyOf, lapped>>

\* The counter after the publication is the reader module's.
Counted(w) ==
    /\ wr[w].pc = "count"
    /\ wr' = [wr EXCEPT ![w].pc = "idle"]
    /\ UNCHANGED <<write, version, record, keyOf, lapped>>
=============================================================================
