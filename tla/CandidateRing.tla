---------------------------- MODULE CandidateRing ----------------------------
(* The queue of WatchpointPlan: allocating threads offer the blocks the        *)
(* sampler or the alloc-site filter selected, the sweeper pops them for a debug *)
(* register.  The queue overwrites its oldest candidates.  One step is one     *)
(* access to shared memory.                                                    *)
EXTENDS Naturals, FiniteSets

CONSTANTS Offerers, Addresses,
          QueueCapacity,      \* _capacity
          MaxScan,            \* kMaxScan
          MaxAttempts,        \* the attempts of PopCandidate
          MaxOffers           \* bound

ASSUME CandidateAssumption ==
    /\ {QueueCapacity, MaxScan, MaxAttempts} \subseteq Nat \ {0}
    /\ MaxOffers \in Nat

Places == 0 .. QueueCapacity - 1

VARIABLES
    cursor,     \* _writeCursor, _readCursor, _queueEvictions
    pending,    \* place -> Candidate; "from" is history: who stored ptr
    offer,      \* thread -> the locals of Consider
    pop,        \* the locals of PopCandidate
    handed,     \* history: the candidates popped
    overtaken   \* history: a thread stored a candidate a whole lap late
candidateVars == <<cursor, pending, offer, pop, handed, overtaken>>

PlaceOf(seq) == seq % QueueCapacity
NotOffering == [pc |-> "idle", ptr |-> 0, seq |-> 0, oldest |-> 0, scanned |-> 0]
NotPopping  == [pc |-> "idle", written |-> 0, attempt |-> 0]

\* Configure
CandidateInit ==
    /\ cursor = [write |-> 0, read |-> 0, evictions |-> 0]
    /\ pending = [i \in Places |-> [seq |-> 0, ptr |-> 0, from |-> 0]]
    /\ offer = [p \in Offerers |-> NotOffering]
    /\ pop = NotPopping
    /\ handed = {} /\ overtaken = FALSE

(***************************************************************************)
(* Consider.  Whether a block is selected is a choice: one that is not has  *)
(* no effect on the queue.                                                  *)
(***************************************************************************)
Scan(o, seq) == IF seq > o.oldest /\ o.scanned < MaxScan
                THEN [o EXCEPT !.seq = seq, !.pc = "scan"]
                ELSE [o EXCEPT !.seq = 0, !.pc = "take"]

Consider(p, a) ==
    /\ offer[p].pc = "idle" /\ cursor.write < MaxOffers
    /\ LET w == cursor.write IN
       offer' = [offer EXCEPT ![p] =
           Scan([NotOffering EXCEPT !.ptr = a,
                     !.oldest = IF w > QueueCapacity THEN w - QueueCapacity ELSE 0], w)]
    /\ UNCHANGED <<cursor, pending, pop, handed, overtaken>>

ScanNext(o) == Scan([o EXCEPT !.scanned = @ + 1], o.seq - 1)

\* AlreadyQueued: the two loads of one place.
AlreadyQueued(p) ==
    /\ LET o == offer[p]
           x == pending[PlaceOf(o.seq)] IN
       \/ /\ o.pc = "scan"
          /\ offer' = [offer EXCEPT ![p] = IF x.seq = o.seq THEN [@ EXCEPT !.pc = "same"]
                                           ELSE ScanNext(@)]
       \/ /\ o.pc = "same"
          /\ offer' = [offer EXCEPT ![p] = IF x.ptr = o.ptr THEN NotOffering ELSE ScanNext(@)]
    /\ UNCHANGED <<cursor, pending, pop, handed, overtaken>>

TakeNumber(p) ==
    /\ offer[p].pc = "take" /\ cursor.write < MaxOffers
    /\ cursor' = [cursor EXCEPT !.write = @ + 1]
    /\ offer' = [offer EXCEPT ![p].seq = cursor.write + 1, ![p].pc = "evict"]
    /\ UNCHANGED <<pending, pop, handed, overtaken>>

\* Mutant: an overwritten candidate goes uncounted.
EvictsNone(seq) == FALSE

\* The place of this number holds a candidate nobody has popped.
Evicts(seq) == seq - cursor.read > QueueCapacity

CountEvicted(p) ==
    /\ offer[p].pc = "evict"
    /\ cursor' = [cursor EXCEPT !.evictions = IF Evicts(offer[p].seq) THEN @ + 1 ELSE @]
    /\ offer' = [offer EXCEPT ![p].pc = "ptr"]
    /\ UNCHANGED <<pending, pop, handed, overtaken>>

StorePtr(p) ==
    /\ offer[p].pc = "ptr"
    /\ LET i == PlaceOf(offer[p].seq) IN
       /\ pending' = [pending EXCEPT ![i].ptr = offer[p].ptr, ![i].from = offer[p].seq]
       /\ overtaken' = (overtaken \/ offer[p].seq + QueueCapacity <= cursor.write)
    /\ offer' = [offer EXCEPT ![p].pc = "seq"]
    /\ UNCHANGED <<cursor, pop, handed>>

StoreSeq(p) ==
    /\ offer[p].pc = "seq"
    /\ pending' = [pending EXCEPT ![PlaceOf(offer[p].seq)].seq = offer[p].seq]
    /\ overtaken' = (overtaken \/ offer[p].seq + QueueCapacity <= cursor.write)
    /\ offer' = [offer EXCEPT ![p] = NotOffering]
    /\ UNCHANGED <<cursor, pop, handed>>

(***************************************************************************)
(* PopCandidate                                                            *)
(***************************************************************************)
PopBegins ==
    /\ pop.pc = "idle" /\ cursor.read < cursor.write
    /\ pop' = [pc |-> "seq", written |-> cursor.write, attempt |-> 0]
    /\ UNCHANGED <<cursor, pending, offer, handed, overtaken>>

\* The next attempt, unless they are used up or nothing is left.
TryAgain(read) ==
    pop' = IF pop.attempt + 1 < MaxAttempts /\ read < pop.written
           THEN [pop EXCEPT !.attempt = @ + 1, !.pc = "seq"] ELSE NotPopping

OldestPending == IF pop.written > QueueCapacity THEN pop.written - QueueCapacity + 1 ELSE 1

\* The candidate is there, or was overwritten and the cursor jumps, or it is
\* still being stored and the call returns false.
PopSeq ==
    /\ pop.pc = "seq"
    /\ \/ /\ pending[PlaceOf(cursor.read + 1)].seq = cursor.read + 1
          /\ pop' = [pop EXCEPT !.pc = "ptr"]
          /\ UNCHANGED cursor
       \/ /\ pending[PlaceOf(cursor.read + 1)].seq # cursor.read + 1
          /\ OldestPending > cursor.read
          /\ cursor' = [cursor EXCEPT !.evictions = @ + (OldestPending - cursor.read),
                                      !.read = OldestPending]
          /\ TryAgain(OldestPending)
       \/ /\ pending[PlaceOf(cursor.read + 1)].seq # cursor.read + 1
          /\ OldestPending <= cursor.read
          /\ pop' = NotPopping
          /\ UNCHANGED cursor
    /\ UNCHANGED <<pending, offer, handed, overtaken>>

\* A null address cannot be queued, so the address is the answer.
PopPtr ==
    /\ pop.pc = "ptr"
    /\ handed' = handed \cup {pending[PlaceOf(cursor.read + 1)].from}
    /\ cursor' = [cursor EXCEPT !.read = @ + 1]
    /\ pop' = NotPopping
    /\ UNCHANGED <<pending, offer, overtaken>>

CandidatesDone == /\ cursor.write = MaxOffers /\ pop.pc = "idle"
                  /\ \A p \in Offerers : offer[p].pc \in {"idle", "take"}

CandidateNext ==
    \/ \E p \in Offerers :
        \/ \E a \in Addresses : Consider(p, a)
        \/ AlreadyQueued(p) \/ TakeNumber(p) \/ CountEvicted(p) \/ StorePtr(p) \/ StoreSeq(p)
    \/ PopBegins \/ PopSeq \/ PopPtr
CandidateSpec == CandidateInit /\ [][CandidateNext]_candidateVars

(***************************************************************************)
(* Properties                                                              *)
(***************************************************************************)
Quiet == pop.pc = "idle" /\ \A p \in Offerers : offer[p].pc \in {"idle", "scan", "same", "take"}

\* "Each loss is counted (queueEvictions)": once nobody is storing or popping,
\* the candidates that the sweeper has passed or that were overwritten, and that
\* it was not given, are no more than the evictions counted - as long as no thread
\* was overtaken by a whole lap.
LossCounted ==
    Quiet /\ ~overtaken =>
        Cardinality({s \in 1 .. cursor.write :
            /\ s <= cursor.read \/ s + QueueCapacity <= cursor.write
            /\ s \notin handed}) <= cursor.evictions
=============================================================================
