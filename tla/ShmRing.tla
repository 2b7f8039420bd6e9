------------------------------- MODULE ShmRing -------------------------------
(* The shared-memory trace rings (Ipc/ShmRing.cpp).  Every allocating thread  *)
(* of the game claims a ring of its own and publishes records into it without *)
(* ever blocking; a helper process attaches to the region (Ipc/ShmSession.cpp)*)
(* and drains all rings, and may be killed and attach again.  Ring headers and*)
(* slots are shared; RingProducer's fields and the drain's locals are not.    *)
(*                                                                            *)
(* One step is one access to shared memory (x86-64 TSO keeps the stores of one*)
(* thread in order; the words of one memcpy move in any order).               *)
EXTENDS Naturals, FiniteSets, Functions

CONSTANTS Producers,      \* thread ids
          NoOwner,        \* ownerThread = 0
          NRings,         \* kMaxRings
          Capacity,       \* slotCountPerRing
          TouchInterval,  \* kTouchInterval
          MaxEvents,      \* bound: records published
          Setups          \* the situations Init chooses from

\* A situation: who publishes on how many rings, a_staleTicks (0 turns the
\* takeover off), and the other bounds: claims, events, thread deaths, ticks,
\* attachments of a helper and its crashes.
Situation == [producers : SUBSET Producers, rings : 1 .. NRings, stale : Nat,
              claims : Nat, events : 0 .. MaxEvents, deaths : Nat, ticks : Nat,
              attaches : Nat, crashes : Nat]

ASSUME RingAssumption ==
    /\ NoOwner \notin Producers
    /\ {NRings, Capacity, TouchInterval} \subseteq Nat \ {0}
    /\ MaxEvents \in Nat
    /\ \A x \in Setups : x \in Situation

Rings  == 0 .. NRings - 1
NoRing == NRings                       \* kNoRing
Cells  == 0 .. Capacity - 1
Words  == {"head", "tail"}             \* a record is two words
Events == 0 .. MaxEvents               \* 0: the zero-filled region

VARIABLES
    setup,      \* the situation
    hdr,        \* ring -> RingHeader
    version,    \* ring -> cell -> the slot's seqlock word
    event,      \* ring -> cell -> the slot's record
    me,         \* thread -> RingProducer and the locals of its call
    helper,     \* whether a helper process is attached
    c,          \* the locals of the helper's DrainAll
    session,    \* header.eventsConsumed, header.eventsDropped
    tick,       \* the clock
    delivered,  \* history: how often an event was delivered by a drain whose
                \* generation was still the ring's
    used        \* what the bounds count
vars == <<setup, hdr, version, event, me, helper, c, session, tick, delivered, used>>

Version == [seq : Nat, writing : BOOLEAN]
Header == [owner : Producers \cup {NoOwner}, writeSeq : Nat, readSeq : Nat, drops : Nat,
           generation : Nat, lastActive : Nat]
Stats == [consumed : Nat, dropped : Nat]
Producer == [pc : {"idle", "scan", "claimCas", "steal", "stealCas", "writeSeq", "readSeq", "rest",
                   "generation", "published", "invalidate", "copy", "version", "advance",
                   "touch", "dead"},
             ring : Rings \cup {NoRing}, published : Nat,                 \* RingProducer
             scan : Rings, stale : Rings \cup {NoRing},                   \* ClaimRing
             expected : Producers \cup {NoOwner},
             resume : BOOLEAN,              \* Publish goes on after the claim
             record : Events, now : Nat,    \* a_event; a_nowTick or a_event.tick
             left : SUBSET Words]
Consumer == [pc : {"idle", "readSeq", "generation", "writeSeq", "v1", "copy", "v2", "check",
                   "progress", "drops", "totals"},
             ring : Rings, expect : Nat \ {0}, generation : Nat, v1 : Version,
             copy : [Words -> Events], left : SUBSET Words, stats : Stats, total : Stats]

SlotAt(s) == (s - 1) % Capacity        \* record ids start at kFirstSeq = 1
NoStats == [consumed |-> 0, dropped |-> 0]
NoVersion == [seq |-> 0, writing |-> FALSE]

NotDraining == [pc |-> "idle", ring |-> 0, expect |-> 1, generation |-> 0, v1 |-> NoVersion,
                copy |-> [w \in Words |-> 0], left |-> {}, stats |-> NoStats, total |-> NoStats]

\* InitialiseSession
Init ==
    /\ setup \in Setups /\ helper = FALSE
    /\ hdr = [r \in Rings |-> [owner |-> NoOwner, writeSeq |-> 0, readSeq |-> 0, drops |-> 0,
                               generation |-> 0, lastActive |-> 0]]
    /\ version = [r \in Rings |-> [i \in Cells |-> NoVersion]]
    /\ event = [r \in Rings |-> [i \in Cells |-> [w \in Words |-> 0]]]
    /\ me = [p \in Producers |->
                [pc |-> "idle", ring |-> NoRing, published |-> 0, scan |-> 0, stale |-> NoRing,
                 expected |-> NoOwner, resume |-> FALSE, record |-> 0, now |-> 0, left |-> {}]]
    /\ c = NotDraining
    /\ session = NoStats /\ tick = 0
    /\ delivered = [e \in Events |-> 0]
    /\ used = [claims |-> 0, events |-> 0, deaths |-> 0, attaches |-> 0, crashes |-> 0]

(***************************************************************************)
(* ClaimRing                                                               *)
(***************************************************************************)
Goto(p, l) == me' = [me EXCEPT ![p].pc = l]

\* The first look of the scan; n is the call's tick.
Scanning(m, n, again) ==
    [m EXCEPT !.pc = "scan", !.ring = NoRing, !.scan = 0, !.stale = NoRing, !.now = n,
              !.resume = again]

\* RingProducer::Claim
Claim(p) ==
    /\ p \in setup.producers /\ me[p].pc = "idle" /\ me[p].ring = NoRing
    /\ used.claims < setup.claims
    /\ used' = [used EXCEPT !.claims = @ + 1]
    /\ me' = [me EXCEPT ![p] = Scanning(@, tick, FALSE)]
    /\ UNCHANGED <<setup, hdr, version, event, helper, c, session, tick, delivered>>

\* After the last ring, the first stale one met is tried.
NextRing(m, candidate) ==
    IF m.scan + 1 < setup.rings
    THEN [m EXCEPT !.stale = candidate, !.scan = @ + 1, !.pc = "scan"]
    ELSE [m EXCEPT !.stale = candidate, !.pc = IF candidate = NoRing THEN "idle" ELSE "steal"]

IsStale(r, now) == /\ setup.stale > 0
                   /\ now > hdr[r].lastActive
                   /\ now - hdr[r].lastActive > setup.stale

ScanRing(p) ==
    /\ me[p].pc = "scan"
    /\ LET r == me[p].scan
           o == hdr[r].owner IN
       \/ o = NoOwner /\ Goto(p, "claimCas")
       \/ o = p /\ Goto(p, "idle")              \* returns -1: Publish drops its record
       \/ /\ o \notin {NoOwner, p}
          /\ me' = [me EXCEPT ![p] =
                NextRing(@, IF @.stale = NoRing /\ IsStale(r, @.now) THEN r ELSE @.stale)]
    /\ UNCHANGED <<setup, hdr, version, event, helper, c, session, tick, delivered, used>>

\* The compare-exchange on ownerThread.
CompareExchangeBlind(r, o) == TRUE     \* mutant: a plain store instead of the exchange
CompareExchange(r, o) == hdr[r].owner = o

TakeRing(p, r) ==
    /\ hdr' = [hdr EXCEPT ![r].owner = p]
    /\ me' = [me EXCEPT ![p].ring = r, ![p].pc = "writeSeq"]

ClaimCas(p) ==
    /\ me[p].pc = "claimCas"
    /\ IF CompareExchange(me[p].scan, NoOwner)
       THEN TakeRing(p, me[p].scan)
       ELSE me' = [me EXCEPT ![p] = NextRing(@, @.stale)] /\ UNCHANGED hdr
    /\ UNCHANGED <<setup, version, event, helper, c, session, tick, delivered, used>>

Steal(p) ==
    /\ me[p].pc = "steal"
    /\ LET o == hdr[me[p].stale].owner IN
       me' = [me EXCEPT ![p].expected = o,
                        ![p].pc = IF o \in {NoOwner, p} THEN "idle" ELSE "stealCas"]
    /\ UNCHANGED <<setup, hdr, version, event, helper, c, session, tick, delivered, used>>

StealCas(p) ==
    /\ me[p].pc = "stealCas"
    /\ IF CompareExchange(me[p].stale, me[p].expected)
       THEN TakeRing(p, me[p].stale)
       ELSE Goto(p, "idle") /\ UNCHANGED hdr
    /\ UNCHANGED <<setup, version, event, helper, c, session, tick, delivered, used>>

(***************************************************************************)
(* BeginGeneration resets the cursors and bumps the generation last; then  *)
(* RingProducer::Claim loads writeSeq into _published.                     *)
(***************************************************************************)
ResetStep(p, at, h, l) ==
    /\ me[p].pc = at
    /\ hdr' = [hdr EXCEPT ![me[p].ring] = h]
    /\ Goto(p, l)

BeginGeneration(p) ==
    /\ LET h == hdr[me[p].ring] IN
       \/ ResetStep(p, "writeSeq", [h EXCEPT !.writeSeq = 0], "readSeq")
       \/ ResetStep(p, "readSeq", [h EXCEPT !.readSeq = 0], "rest")
       \/ ResetStep(p, "rest", [h EXCEPT !.drops = 0, !.lastActive = me[p].now], "generation")
       \/ ResetStep(p, "generation", [h EXCEPT !.generation = @ + 1], "published")
    /\ UNCHANGED <<setup, version, event, helper, c, session, tick, delivered, used>>

LoadPublished(p) ==
    /\ me[p].pc = "published"
    /\ me' = [me EXCEPT ![p].published = hdr[me[p].ring].writeSeq,
                        ![p].pc = IF me[p].resume THEN "invalidate" ELSE "idle"]
    /\ UNCHANGED <<setup, hdr, version, event, helper, c, session, tick, delivered, used>>

\* ReleaseRing: a compare-exchange from this thread to free.
Release(p) ==
    /\ me[p].pc = "idle" /\ me[p].ring # NoRing
    /\ hdr' = [hdr EXCEPT ![me[p].ring].owner =
                  IF CompareExchange(me[p].ring, p) THEN NoOwner ELSE @]
    /\ me' = [me EXCEPT ![p].ring = NoRing]
    /\ UNCHANGED <<setup, version, event, helper, c, session, tick, delivered, used>>

(***************************************************************************)
(* Publish                                                                 *)
(***************************************************************************)
StillOwnerNever(p) == FALSE            \* mutant: every publish re-claims
StillOwner(p) == hdr[me[p].ring].owner = p

Publish(p) ==
    /\ me[p].pc = "idle" /\ me[p].ring # NoRing
    /\ used.events < setup.events
    /\ LET m == [me[p] EXCEPT !.record = used.events + 1, !.now = tick] IN
       IF StillOwner(p)
       THEN /\ me' = [me EXCEPT ![p] = [m EXCEPT !.pc = "invalidate"]]
            /\ used' = [used EXCEPT !.events = @ + 1]
       ELSE /\ used.claims < setup.claims
            /\ me' = [me EXCEPT ![p] = Scanning(m, tick, TRUE)]
            /\ used' = [used EXCEPT !.events = @ + 1, !.claims = @ + 1]
    /\ UNCHANGED <<setup, hdr, version, event, helper, c, session, tick, delivered>>

\* The version of a slot whose record is about to be copied in.
Invalidated(v, s) == [seq |-> s, writing |-> TRUE]

Invalidate(p) ==
    /\ me[p].pc = "invalidate"
    /\ LET s == me[p].published + 1 IN
       version' = [version EXCEPT ![me[p].ring][SlotAt(s)] = Invalidated(@, s)]
    /\ me' = [me EXCEPT ![p].left = Words, ![p].pc = "copy"]
    /\ UNCHANGED <<setup, hdr, event, helper, c, session, tick, delivered, used>>

CopyIn(p, w) ==
    /\ me[p].pc = "copy" /\ w \in me[p].left
    /\ event' = [event EXCEPT ![me[p].ring][SlotAt(me[p].published + 1)][w] = me[p].record]
    /\ me' = [me EXCEPT ![p].left = @ \ {w},
                        ![p].pc = IF me[p].left = {w} THEN "version" ELSE "copy"]
    /\ UNCHANGED <<setup, hdr, version, helper, c, session, tick, delivered, used>>

StoreVersion(p) ==
    /\ me[p].pc = "version"
    /\ LET s == me[p].published + 1 IN
       version' = [version EXCEPT ![me[p].ring][SlotAt(s)] = [seq |-> s, writing |-> FALSE]]
    /\ Goto(p, "advance")
    /\ UNCHANGED <<setup, hdr, event, helper, c, session, tick, delivered, used>>

Advance(p) ==
    /\ me[p].pc = "advance"
    /\ LET s == me[p].published + 1 IN
       /\ hdr' = [hdr EXCEPT ![me[p].ring].writeSeq = s]
       /\ me' = [me EXCEPT ![p].published = s,
                           ![p].pc = IF s % TouchInterval = 0 THEN "touch" ELSE "idle"]
    /\ UNCHANGED <<setup, version, event, helper, c, session, tick, delivered, used>>

Touch(p) ==
    /\ me[p].pc = "touch"
    /\ hdr' = [hdr EXCEPT ![me[p].ring].lastActive = me[p].now]
    /\ Goto(p, "idle")
    /\ UNCHANGED <<setup, version, event, helper, c, session, tick, delivered, used>>

\* A thread may be killed anywhere.
Die(p) ==
    /\ me[p].pc # "dead" /\ used.deaths < setup.deaths
    /\ used' = [used EXCEPT !.deaths = @ + 1]
    /\ Goto(p, "dead")
    /\ UNCHANGED <<setup, hdr, version, event, helper, c, session, tick, delivered>>

(***************************************************************************)
(* Session::Attach refuses a header of another layout (Validate).  A helper *)
(* that is killed loses its locals; another one may attach.                 *)
(***************************************************************************)
\* The header names the layout of the build that created the region.
Validate(layout) == layout = "same"

Attach(layout) ==
    /\ ~helper /\ used.attaches < setup.attaches
    /\ used' = [used EXCEPT !.attaches = @ + 1]
    /\ helper' = Validate(layout)
    /\ UNCHANGED <<setup, hdr, version, event, me, c, session, tick, delivered>>

HelperDies ==
    /\ helper /\ used.crashes < setup.crashes
    /\ used' = [used EXCEPT !.crashes = @ + 1]
    /\ helper' = FALSE /\ c' = NotDraining
    /\ UNCHANGED <<setup, hdr, version, event, me, session, tick, delivered>>

(***************************************************************************)
(* DrainAll: DrainRing of every ring in turn, then the session counters.   *)
(***************************************************************************)
DrainAll ==
    /\ c.pc = "idle"
    /\ c' = [c EXCEPT !.pc = "readSeq", !.ring = 0, !.total = NoStats]
    /\ UNCHANGED <<hdr, session, delivered>>

\* The test that ends the drain of a ring.
NothingPendingEarly(e, written) == e >= written   \* mutant: off by one
NothingPending(e, written) == e > written

LoadHeader ==
    /\ \/ /\ c.pc = "readSeq"
          /\ c' = [c EXCEPT !.expect = hdr[c.ring].readSeq + 1, !.stats = NoStats,
                            !.pc = "generation"]
       \/ /\ c.pc = "generation"
          /\ c' = [c EXCEPT !.generation = hdr[c.ring].generation, !.pc = "writeSeq"]
       \/ /\ c.pc = "writeSeq"
          /\ c' = [c EXCEPT !.pc = IF NothingPending(c.expect, hdr[c.ring].writeSeq)
                                   THEN "check" ELSE "v1"]
    /\ UNCHANGED <<hdr, session, delivered>>

\* Where a slot that is being written sends the drain.
Deferred == "check"

\* How many records a jump to a later record counts as dropped.
GapOfOne(r, e) == 1                    \* mutant: ++dropped for the whole gap
Gap(r, e) == r - e

LoadV1 ==
    /\ c.pc = "v1"
    /\ LET v == version[c.ring][SlotAt(c.expect)]
           seen == [c EXCEPT !.v1 = v] IN
       \/ /\ v.writing
          /\ c' = [seen EXCEPT !.pc = Deferred]
       \/ /\ ~v.writing /\ v.seq > c.expect       \* the producer wrapped past us
          /\ c' = [seen EXCEPT !.stats.dropped = @ + Gap(v.seq, c.expect),
                               !.expect = v.seq, !.pc = "writeSeq"]
       \/ /\ ~v.writing /\ v.seq < c.expect       \* a slot of a previous generation
          /\ c' = [seen EXCEPT !.stats.dropped = @ + 1, !.expect = @ + 1, !.pc = "writeSeq"]
       \/ /\ ~v.writing /\ v.seq = c.expect
          /\ c' = [seen EXCEPT !.left = Words, !.pc = "copy"]
    /\ UNCHANGED <<hdr, session, delivered>>

CopyOut(w) ==
    /\ c.pc = "copy" /\ w \in c.left
    /\ c' = [c EXCEPT !.copy[w] = event[c.ring][SlotAt(c.expect)][w], !.left = @ \ {w},
                      !.pc = IF c.left = {w} THEN "v2" ELSE "copy"]
    /\ UNCHANGED <<hdr, session, delivered>>

\* The second load of the version decides whether the copy goes to the sink.
AcceptsAlways == TRUE                  \* mutant: v2 is not compared
Accepts == version[c.ring][SlotAt(c.expect)] = c.v1

LoadV2 ==
    /\ c.pc = "v2"
    /\ IF Accepts
       THEN /\ c' = [c EXCEPT !.stats.consumed = @ + 1, !.expect = @ + 1, !.pc = "writeSeq"]
            /\ delivered' = [delivered EXCEPT ![c.copy["head"]] =
                  IF hdr[c.ring].generation = c.generation /\ @ < 2 THEN @ + 1 ELSE @]
       ELSE /\ c' = [c EXCEPT !.stats.dropped = @ + 1, !.expect = @ + 1, !.pc = "writeSeq"]
            /\ UNCHANGED delivered
    /\ UNCHANGED <<hdr, session>>

\* The progress is written back only while the generation is the one loaded.
CheckGeneration ==
    /\ c.pc = "check"
    /\ c' = [c EXCEPT !.pc = IF hdr[c.ring].generation = c.generation
                             THEN "progress" ELSE "totals"]
    /\ UNCHANGED <<hdr, session, delivered>>

ProgressBehind(e) == IF e > 1 THEN e - 2 ELSE 0   \* mutant: off by one
ProgressAhead(e) == e                  \* mutant: off by one
Progress(e) == e - 1

WriteBack ==
    /\ \/ /\ c.pc = "progress"
          /\ hdr' = [hdr EXCEPT ![c.ring].readSeq = Progress(c.expect)]
          /\ c' = [c EXCEPT !.pc = "drops"]
       \/ /\ c.pc = "drops"
          /\ hdr' = [hdr EXCEPT ![c.ring].drops = @ + c.stats.dropped]
          /\ c' = [c EXCEPT !.pc = "totals"]
    /\ UNCHANGED <<session, delivered>>

Plus(a, b) == [consumed |-> a.consumed + b.consumed, dropped |-> a.dropped + b.dropped]

DrainNext ==
    /\ c.pc = "totals"
    /\ IF c.ring + 1 < setup.rings
       THEN /\ c' = [c EXCEPT !.total = Plus(@, c.stats), !.ring = @ + 1, !.pc = "readSeq"]
            /\ UNCHANGED session
       ELSE /\ session' = Plus(session, Plus(c.total, c.stats))
            /\ c' = [c EXCEPT !.pc = "idle"]
    /\ UNCHANGED <<hdr, delivered>>

Drain ==
    /\ helper
    /\ \/ DrainAll \/ LoadHeader \/ LoadV1 \/ (\E w \in Words : CopyOut(w)) \/ LoadV2
       \/ CheckGeneration \/ WriteBack \/ DrainNext
    /\ UNCHANGED <<setup, version, event, me, helper, tick, used>>

Tick ==
    /\ tick < setup.ticks
    /\ tick' = tick + 1
    /\ UNCHANGED <<setup, hdr, version, event, me, helper, c, session, delivered, used>>

(***************************************************************************)
(* The specification                                                       *)
(***************************************************************************)
\* The steps of a call in progress.
Continue(p) ==
    \/ ScanRing(p) \/ ClaimCas(p) \/ Steal(p) \/ StealCas(p)
    \/ BeginGeneration(p) \/ LoadPublished(p)
    \/ Invalidate(p) \/ (\E w \in Words : CopyIn(p, w))
    \/ StoreVersion(p) \/ Advance(p) \/ Touch(p)

Next ==
    \/ \E p \in Producers : Claim(p) \/ Release(p) \/ Publish(p) \/ Continue(p) \/ Die(p)
    \/ (\E layout \in {"same", "other"} : Attach(layout)) \/ HelperDies \/ Drain
    \/ Tick

Spec == Init /\ [][Next]_vars

\* The helper polls for ever; a call a live thread has begun goes on.
FairSpec == Spec /\ WF_vars(Drain) /\ \A p \in Producers : WF_vars(Continue(p))

(***************************************************************************)
(* Properties                                                              *)
(***************************************************************************)
\* The steps of Publish that write into the ring.
Writing(p) == me[p].pc \in {"invalidate", "copy", "version", "advance", "touch"}

\* "A producer can never end up writing into another thread's ring": whoever is
\* past Publish's ownership check owns the ring it writes (as long as rings are
\* handed over by Release and Claim and not taken over).
WriterOwnsRing ==
    setup.stale = 0 => \A p \in Producers : Writing(p) => hdr[me[p].ring].owner = p

\* The registry gives a thread one ring at most, whatever takeovers and
\* re-claims happen in between.
OneRingPerThread ==
    \A p \in Producers : Cardinality({r \in Rings : hdr[r].owner = p}) <= 1

\* The copy is one record.
Whole == c.copy["head"] = c.copy["tail"] /\ c.copy["head"] # 0

\* While the ring's generation is the one the drain began with, an accepted copy
\* is one whole record, also when the ring changes hands by Release and Claim.
NoTornInGeneration ==
    c.pc = "v2" /\ Accepts /\ hdr[c.ring].generation = c.generation => Whole

\* A drain whose generation stands hands a record to the sink once: neither the
\* write-back nor a wrap-around makes a later drain deliver it again.
DeliveredOnce == \A e \in Events : delivered[e] <= 1

\* "The gap is exact": between drains, every record up to the read cursors was
\* delivered or counted as dropped, whatever the producer overwrote meanwhile
\* (for rings that are not re-claimed, as BeginGeneration drops a backlog uncounted,
\* and helpers that were not killed between the two stores of the write-back).
Accounted ==
    LET sum(f) == FoldFunction(+, 0, [r \in Rings |-> hdr[r][f]]) IN
    c.pc = "idle" /\ used.crashes = 0 => sum("readSeq") =
        sum("drops") + Cardinality({e \in Events : delivered[e] > 0})

\* "The consumer survives its own restart": on a ring with one generation the
\* cursor passes no record that no helper, this one or one killed before it, has
\* delivered, unless the thread had lapped the helper by then.  (A thread that
\* claims once publishes event s as record s.)
LosesOnlyLapped ==
    \A r \in Rings : hdr[r].generation <= 1 =>
        \A s \in 1 .. hdr[r].readSeq :
            \/ delivered[s] > 0
            \/ \E t \in 1 .. s : s < t + Capacity /\ version[r][SlotAt(t)].seq > t

\* Unless a thread was killed mid-record, a helper that stays reaches the end of
\* what was published, wherever the one before it was killed.
CatchesUp ==
    LET quiet == helper /\ used.deaths = 0 /\ \A p \in Producers : me[p].pc = "idle" IN
    quiet ~> (~quiet \/ \A r \in Rings : hdr[r].readSeq = hdr[r].writeSeq)
=============================================================================
