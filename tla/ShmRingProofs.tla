---------------------------- MODULE ShmRingProofs ----------------------------
(* For every number of threads, rings, slots and records: a thread has one    *)
(* ring at most, and while no stale ring is taken over, only the owner writes *)
(* into a ring, no torn record is accepted, none is delivered twice, what a   *)
(* cursor passes undelivered was lapped, and the counts of dropped records    *)
(* are exact.                                                                 *)
EXTENDS ShmRing, Integers, FiniteSetTheorems, SumLemmas, TLAPS

(* The steps of a call before it has its ring, and with it.                   *)
Looking == {"scan", "claimCas", "steal", "stealCas"}
Resetting == {"writeSeq", "readSeq", "rest", "generation", "published"}
Holding == Resetting \cup {"invalidate", "copy", "version", "advance", "touch"}

HeaderFields(h) ==
    /\ DOMAIN h = {"owner", "writeSeq", "readSeq", "drops", "generation", "lastActive"}
    /\ h.owner \in Producers \cup {NoOwner} /\ h.writeSeq \in Nat /\ h.readSeq \in Nat
    /\ h.drops \in Nat /\ h.generation \in Nat /\ h.lastActive \in Nat

ProducerFields(m) ==
    /\ DOMAIN m = {"pc", "ring", "published", "scan", "stale", "expected", "resume", "record",
                   "now", "left"}
    /\ m.pc \in {"idle", "scan", "claimCas", "steal", "stealCas", "writeSeq", "readSeq", "rest",
                 "generation", "published", "invalidate", "copy", "version", "advance",
                 "touch", "dead"}
    /\ m.ring \in Rings \cup {NoRing} /\ m.published \in Nat
    /\ m.scan \in Rings /\ m.stale \in Rings \cup {NoRing}
    /\ m.expected \in Producers \cup {NoOwner} /\ m.resume \in BOOLEAN
    /\ m.record \in Events /\ m.now \in Nat /\ m.left \in SUBSET Words
    /\ m.pc \in {"steal", "stealCas"} => m.stale \in Rings
    /\ m.pc \in Holding => m.ring \in Rings

ConsumerFields(d) ==
    /\ DOMAIN d = {"pc", "ring", "expect", "generation", "v1", "copy", "left", "stats", "total"}
    /\ d.pc \in {"idle", "readSeq", "generation", "writeSeq", "v1", "copy", "v2", "check",
                 "progress", "drops", "totals"}
    /\ d.ring \in Rings /\ d.expect \in Nat \ {0} /\ d.generation \in Nat /\ d.v1 \in Version
    /\ d.copy \in [Words -> Events] /\ d.left \in SUBSET Words
    /\ d.stats \in Stats /\ d.total \in Stats

UsedFields(u) ==
    /\ DOMAIN u = {"claims", "events", "deaths", "attaches", "crashes"}
    /\ u.claims \in Nat /\ u.events \in Events /\ u.deaths \in Nat /\ u.attaches \in Nat
    /\ u.crashes \in Nat

TypeOK ==
    /\ setup \in Setups
    /\ DOMAIN hdr = Rings /\ \A r \in Rings : HeaderFields(hdr[r])
    /\ version \in [Rings -> [Cells -> Version]]
    /\ event \in [Rings -> [Cells -> [Words -> Events]]]
    /\ DOMAIN me = Producers /\ \A p \in Producers : ProducerFields(me[p])
    /\ helper \in BOOLEAN /\ ConsumerFields(c)
    /\ session \in Stats /\ tick \in Nat /\ delivered \in [Events -> Nat]
    /\ UsedFields(used)

(* The registry and the producers' own idea of it: whatever is registered to a  *)
(* thread is the ring it works with, and it looks for a ring only without one.  *)
Registered ==
    /\ \A p \in Producers, r \in Rings : hdr[r].owner = p => me[p].ring = r
    /\ \A p \in Producers : me[p].pc \in Looking => me[p].ring = NoRing

(* A thread, as long as no stale ring is ever taken over: it owns what it holds, *)
(* its idea of writeSeq is the ring's, and the slot it is writing is marked.     *)
Slot(p) == SlotAt(me[p].published + 1)
Next1(p) == me[p].published + 1
Has(p) == me[p].ring \in Rings /\ hdr[me[p].ring].owner = p
Owning(p) == /\ me[p].stale = NoRing /\ me[p].pc \notin {"steal", "stealCas"}
             /\ me[p].pc \in Holding => Has(p)
InStep(p) ==
    /\ me[p].pc \in {"readSeq", "rest", "generation", "published"}
        => hdr[me[p].ring].writeSeq = 0
    /\ Writing(p) \/ (me[p].pc = "idle" /\ Has(p))
        => hdr[me[p].ring].writeSeq = me[p].published
Numbering(p) ==
    /\ me[p].pc \in {"invalidate", "copy", "version", "advance"} => me[p].record # 0
    /\ (me[p].pc \in Looking \cup Resetting) /\ me[p].resume => me[p].record # 0
Marking(p) ==
    /\ me[p].pc \in {"copy", "version"} =>
        version[me[p].ring][Slot(p)] = [seq |-> Next1(p), writing |-> TRUE]
    /\ me[p].pc = "advance" =>
        version[me[p].ring][Slot(p)] = [seq |-> Next1(p), writing |-> FALSE]
Storing(p) ==
    /\ me[p].pc = "copy" =>
        \A w \in Words \ me[p].left : event[me[p].ring][Slot(p)][w] = me[p].record
    /\ me[p].pc \in {"version", "advance"} =>
        \A w \in Words : event[me[p].ring][Slot(p)][w] = me[p].record
Steady(p) == Owning(p) /\ InStep(p) /\ Numbering(p) /\ Marking(p) /\ Storing(p)

(* A slot that is not being written holds one whole record, or none yet.         *)
WholeCell(r, i) ==
    ~version[r][i].writing /\ version[r][i].seq > 0 =>
        event[r][i]["head"] = event[r][i]["tail"] /\ event[r][i]["head"] # 0

AllWhole == \A r \in Rings, i \in Cells : WholeCell(r, i)

(* The drain.  While the generation it began with stands, what it looks at was   *)
(* published in that generation (or the ring is being reset, by a thread that    *)
(* writes no record before the generation is bumped, or has died), and a copy    *)
(* whose version still stands is the slot's.                                     *)
Current == hdr[c.ring].generation = c.generation
Halted == {"readSeq", "rest", "generation", "dead"}
Stopped(r) == \E p \in Producers : hdr[r].owner = p /\ me[p].pc \in Halted
Looked == version[c.ring][SlotAt(c.expect)]
NotNewer ==
    c.pc \notin {"idle", "readSeq", "generation"} => c.generation <= hdr[c.ring].generation
Within ==
    c.pc \in {"v1", "copy", "v2"} /\ Current
        => c.expect <= hdr[c.ring].writeSeq \/ Stopped(c.ring)
Seen ==
    /\ c.pc \in {"copy", "v2"} => c.v1 = [seq |-> c.expect, writing |-> FALSE]
    /\ c.pc = "v2" => c.left = {}
Copied ==
    c.pc \in {"copy", "v2"} /\ Current /\ Accepts
        => \A w \in Words \ c.left : c.copy[w] = event[c.ring][SlotAt(c.expect)][w]
Draining == NotNewer /\ Within /\ Seen /\ Copied

(* Every record has a number of its own and is written into one slot.            *)
Pending(p) == \/ me[p].pc \in {"invalidate", "copy", "version", "advance"}
              \/ /\ me[p].resume
                 /\ me[p].pc \in Looking \cup Resetting
Mine(p, r, i) == /\ me[p].pc \in {"copy", "version", "advance"}
                 /\ r = me[p].ring /\ i = Slot(p)
Numbers ==
    /\ \A r \in Rings, i \in Cells, w \in Words : event[r][i][w] <= used.events
    /\ \A e \in Events : delivered[e] > 0 => e <= used.events
    /\ \A p \in Producers : Pending(p) => me[p].record <= used.events
Fresh == \A p \in Producers : Pending(p) => delivered[me[p].record] = 0
Distinct == \A p, q \in Producers :
                Pending(p) /\ Pending(q) /\ me[p].record = me[q].record => p = q
OwnSlot == \A p \in Producers, r \in Rings, i \in Cells, w \in Words :
                Pending(p) /\ event[r][i][w] = me[p].record => Mine(p, r, i)
Apart == \A r, s \in Rings, i, j \in Cells, v, w \in Words :
                event[r][i][v] = event[s][j][w] /\ event[r][i][v] # 0 => r = s /\ i = j
Numbered == Numbers /\ Fresh /\ Distinct /\ OwnSlot /\ Apart

(* Where the next drain of a ring, or the one under way, goes on.                *)
Cursor(r) == IF c.ring = r /\ Current /\ c.pc \in {"writeSeq", "v1", "copy", "v2", "check", "progress"}
             THEN c.expect ELSE hdr[r].readSeq + 1
Complete(r, s) == version[r][SlotAt(s)] = [seq |-> s, writing |-> FALSE]
Head(r, s) == event[r][SlotAt(s)]["head"]
Undelivered(r) ==
    \A s \in 1 .. hdr[r].writeSeq : Complete(r, s) /\ s >= Cursor(r) => delivered[Head(r, s)] = 0
Ahead == c.pc \in {"generation", "writeSeq", "v1", "copy", "v2", "check", "progress"}
            => c.expect > hdr[c.ring].readSeq
NextFresh ==
    c.pc \in {"v1", "copy", "v2"} /\ Current /\ Complete(c.ring, c.expect)
        => delivered[Head(c.ring, c.expect)] = 0
Once == DeliveredOnce /\ (\A r \in Rings : Undelivered(r)) /\ Ahead /\ NextFresh

AllSteady == \A p \in Producers : Steady(p)
SteadyInv == AllSteady /\ AllWhole /\ Draining

----------------------------------------------------------------------------
\* What the assumptions say of the constants, in the form the steps need it.
LEMMA Constants ==
    /\ NRings \in Nat /\ NRings > 0 /\ Capacity \in Nat /\ Capacity > 0
    /\ TouchInterval \in Nat /\ TouchInterval > 0 /\ MaxEvents \in Nat
    /\ NoOwner \notin Producers /\ NoRing \notin Rings /\ 0 \in Rings /\ 0 \in Events
    /\ Rings \subseteq Nat /\ Events \subseteq Nat
  BY RingAssumption DEF Rings, NoRing, Events

\* A situation's own fields.
LEMMA SetupFields ==
    ASSUME setup \in Setups
    PROVE  /\ setup.rings \in 1 .. NRings /\ setup.events \in 0 .. MaxEvents
           /\ setup.stale \in Nat
  BY RingAssumption DEF Situation

\* Record ids go round the slots.
LEMMA SlotInCells == ASSUME NEW s \in Nat, s > 0 PROVE SlotAt(s) \in Cells
  BY Constants DEF SlotAt, Cells

\* The next look of the scan, or its end.
LEMMA NextRingIs ==
    ASSUME TypeOK, NEW m, ProducerFields(m), NEW r \in Rings \cup {NoRing}
    PROVE  /\ ProducerFields(NextRing(m, r))
           /\ NextRing(m, r).pc \in {"scan", "idle", "steal"} /\ NextRing(m, r).stale = r
           /\ r = NoRing => NextRing(m, r).pc # "steal"
           /\ NextRing(m, r).ring = m.ring /\ NextRing(m, r).published = m.published
           /\ NextRing(m, r).record = m.record /\ NextRing(m, r).resume = m.resume
           /\ NextRing(m, r).left = m.left
  <1>1. m.scan + 1 < setup.rings => m.scan + 1 \in Rings
    BY Constants, SetupFields DEF TypeOK, ProducerFields, Rings
  <1>2. CASE m.scan + 1 < setup.rings
    <2> DEFINE n == [m EXCEPT !.stale = r, !.scan = m.scan + 1, !.pc = "scan"]
    <2>1. NextRing(m, r) = n
      BY <1>2 DEF NextRing, ProducerFields
    <2>2. /\ DOMAIN n = DOMAIN m /\ n.pc = "scan" /\ n.stale = r /\ n.scan = m.scan + 1
          /\ n.ring = m.ring /\ n.published = m.published /\ n.record = m.record
          /\ n.resume = m.resume /\ n.left = m.left /\ n.expected = m.expected /\ n.now = m.now
      BY DEF ProducerFields
    <2> HIDE DEF n
    <2> QED BY <1>1, <1>2, <2>1, <2>2, Constants DEF ProducerFields, Holding, Resetting
  <1>3. CASE ~(m.scan + 1 < setup.rings)
    <2> DEFINE l == IF r = NoRing THEN "idle" ELSE "steal"
               n == [m EXCEPT !.stale = r, !.pc = l]
    <2>1. NextRing(m, r) = n
      BY <1>3 DEF NextRing, ProducerFields
    <2>2. /\ DOMAIN n = DOMAIN m /\ n.pc = l /\ n.stale = r /\ n.scan = m.scan
          /\ n.ring = m.ring /\ n.published = m.published /\ n.record = m.record
          /\ n.resume = m.resume /\ n.left = m.left /\ n.expected = m.expected /\ n.now = m.now
      BY DEF ProducerFields
    <2>3. l \in {"idle", "steal"} /\ (r = NoRing => l = "idle") OBVIOUS
    <2> HIDE DEF n, l
    <2> QED BY <2>1, <2>2, <2>3, Constants DEF ProducerFields, Holding, Resetting
  <1> QED BY <1>2, <1>3

(* The effects of the steps, field by field.  A step of p leaves the other    *)
(* threads' locals alone, and within a call most of its own.                  *)
Others(p) == DOMAIN me' = Producers /\ \A q \in Producers \ {p} : me'[q] = me[q]
Steps(p, l) == /\ Others(p) /\ me'[p].pc = l
               /\ me'[p].ring = me[p].ring /\ me'[p].published = me[p].published
               /\ me'[p].record = me[p].record /\ me'[p].resume = me[p].resume
               /\ me'[p].stale = me[p].stale /\ me'[p].left = me[p].left
               /\ me'[p].now = me[p].now

\* A step that moves on and changes no other local.
LEMMA GotoIs ==
    ASSUME TypeOK, NEW p \in Producers, NEW l, Goto(p, l),
           l \in {"idle", "claimCas", "readSeq", "rest", "generation", "published", "advance", "dead"},
           l \in Holding => me[p].pc \in Holding
    PROVE  Steps(p, l) /\ ProducerFields(me'[p])
  <1> DEFINE m == [me[p] EXCEPT !.pc = l]
  <1>1. /\ DOMAIN m = DOMAIN me[p] /\ m.pc = l /\ m.ring = me[p].ring
        /\ m.published = me[p].published /\ m.record = me[p].record /\ m.resume = me[p].resume
        /\ m.stale = me[p].stale /\ m.left = me[p].left /\ m.scan = me[p].scan
        /\ m.expected = me[p].expected /\ m.now = me[p].now
    BY DEF TypeOK, ProducerFields
  <1>2. me' = [me EXCEPT ![p] = m]
    BY DEF Goto, TypeOK
  <1> HIDE DEF m
  <1>3. me'[p] = m /\ Others(p)
    BY <1>2 DEF TypeOK, Others
  <1> QED BY <1>1, <1>3 DEF TypeOK, ProducerFields, Steps, Holding, Resetting

\* Claim starts a scan that ends with the claim.
LEMMA ClaimIs ==
    ASSUME TypeOK, NEW p \in Producers, Claim(p)
    PROVE  /\ Others(p) /\ ProducerFields(me'[p])
           /\ me[p].pc = "idle" /\ me[p].ring = NoRing
           /\ me'[p].pc = "scan" /\ me'[p].ring = NoRing /\ me'[p].resume = FALSE
           /\ me'[p].stale = NoRing /\ me'[p].record = me[p].record
           /\ me'[p].published = me[p].published
  <1> DEFINE m == Scanning(me[p], tick, FALSE)
  <1>1. me' = [me EXCEPT ![p] = m]
    BY DEF Claim
  <1>2. /\ ProducerFields(m) /\ m.pc = "scan" /\ m.ring = NoRing /\ m.resume = FALSE
        /\ m.stale = NoRing /\ m.record = me[p].record /\ m.published = me[p].published
    <2>1. ProducerFields(me[p]) /\ tick \in Nat
      BY DEF TypeOK
    <2> QED BY <2>1, Constants DEF Scanning, ProducerFields, Holding, Resetting
  <1> HIDE DEF m
  <1> QED BY <1>1, <1>2 DEF Claim, Others, TypeOK

\* A look at a ring of the scan.
LEMMA ScanIs ==
    ASSUME TypeOK, NEW p \in Producers, ScanRing(p)
    PROVE  /\ ProducerFields(me'[p]) /\ Others(p)
           /\ me[p].pc = "scan" /\ me'[p].pc \in {"claimCas", "idle", "scan", "steal"}
           /\ me'[p].ring = me[p].ring /\ me'[p].published = me[p].published
           /\ me'[p].record = me[p].record /\ me'[p].resume = me[p].resume
           /\ setup.stale = 0 /\ me[p].stale = NoRing =>
                me'[p].stale = NoRing /\ me'[p].pc # "steal"
  <1>0. ProducerFields(me[p]) /\ me[p].pc = "scan"
    BY DEF TypeOK, ScanRing
  <1>1. CASE Goto(p, "claimCas") \/ Goto(p, "idle")
    BY <1>0, <1>1, GotoIs DEF Steps, Holding, Resetting
  <1>2. ASSUME NEW r \in Rings \cup {NoRing}, me' = [me EXCEPT ![p] = NextRing(me[p], r)],
               setup.stale = 0 /\ me[p].stale = NoRing => r = NoRing
        PROVE  /\ ProducerFields(me'[p]) /\ Others(p)
               /\ me'[p].pc \in {"idle", "scan", "steal"}
               /\ me'[p].ring = me[p].ring /\ me'[p].published = me[p].published
               /\ me'[p].record = me[p].record /\ me'[p].resume = me[p].resume
               /\ setup.stale = 0 /\ me[p].stale = NoRing =>
                    me'[p].stale = NoRing /\ me'[p].pc # "steal"
    <2>1. me'[p] = NextRing(me[p], r) /\ Others(p)
      BY <1>2 DEF TypeOK, Others
    <2> QED BY <1>0, <1>2, <2>1, NextRingIs
  <1>3. CASE /\ hdr[me[p].scan].owner \notin {NoOwner, p}
             /\ me' = [me EXCEPT ![p] =
                  NextRing(me[p], IF me[p].stale = NoRing /\ IsStale(me[p].scan, me[p].now)
                                  THEN me[p].scan ELSE me[p].stale)]
    <2> DEFINE r == IF me[p].stale = NoRing /\ IsStale(me[p].scan, me[p].now)
                    THEN me[p].scan ELSE me[p].stale
    <2>1. r \in Rings \cup {NoRing} /\ (setup.stale = 0 /\ me[p].stale = NoRing => r = NoRing)
      BY <1>0, SetupFields DEF ProducerFields, IsStale, TypeOK
    <2>2. me' = [me EXCEPT ![p] = NextRing(me[p], r)]
      BY <1>3
    <2> HIDE DEF r
    <2> QED BY <1>0, <1>2, <2>1, <2>2
  <1> QED BY <1>1, <1>3 DEF ScanRing

\* What a thread takes was free, or (the takeover) what it expected it to be.
Takes(p, r) ==
    /\ Others(p) /\ DOMAIN hdr' = Rings
    /\ \A s \in Rings \ {r} : hdr'[s] = hdr[s]
    /\ HeaderFields(hdr'[r]) /\ hdr'[r].owner = p
    /\ hdr'[r].writeSeq = hdr[r].writeSeq /\ hdr'[r].readSeq = hdr[r].readSeq
    /\ hdr'[r].generation = hdr[r].generation
    /\ me'[p].pc = "writeSeq" /\ me'[p].ring = r /\ me'[p].published = me[p].published
    /\ me'[p].record = me[p].record /\ me'[p].resume = me[p].resume
    /\ me'[p].stale = me[p].stale

\* The exchange on ownerThread that succeeds.
LEMMA TakeIs ==
    ASSUME TypeOK, NEW p \in Producers, NEW r \in Rings, TakeRing(p, r)
    PROVE  Takes(p, r) /\ ProducerFields(me'[p])
  <1> DEFINE m == [me[p] EXCEPT !.ring = r, !.pc = "writeSeq"]
             h == [hdr[r] EXCEPT !.owner = p]
  <1>1. /\ DOMAIN m = DOMAIN me[p] /\ m.pc = "writeSeq" /\ m.ring = r
        /\ m.published = me[p].published /\ m.record = me[p].record /\ m.resume = me[p].resume
        /\ m.stale = me[p].stale /\ m.left = me[p].left /\ m.scan = me[p].scan
        /\ m.expected = me[p].expected /\ m.now = me[p].now
    BY DEF TypeOK, ProducerFields
  <1>2. /\ DOMAIN h = DOMAIN hdr[r] /\ h.owner = p /\ h.writeSeq = hdr[r].writeSeq
        /\ h.readSeq = hdr[r].readSeq /\ h.drops = hdr[r].drops
        /\ h.generation = hdr[r].generation /\ h.lastActive = hdr[r].lastActive
    BY DEF TypeOK, HeaderFields
  <1>3. me' = [me EXCEPT ![p] = m] /\ hdr' = [hdr EXCEPT ![r] = h]
    BY DEF TakeRing, TypeOK
  <1> HIDE DEF m, h
  <1>4. me'[p] = m /\ Others(p) /\ hdr'[r] = h
    BY <1>3 DEF TypeOK, Others
  <1>5. HeaderFields(hdr'[r])
    BY <1>2, <1>4 DEF HeaderFields, TypeOK
  <1>6. ProducerFields(me'[p])
    BY <1>1, <1>4 DEF ProducerFields, TypeOK, Holding, Resetting
  <1> QED BY <1>1, <1>2, <1>3, <1>4, <1>5, <1>6 DEF Takes, TypeOK

\* The exchange that takes a free ring, or the search that goes on.
LEMMA ClaimCasIs ==
    ASSUME TypeOK, NEW p \in Producers, ClaimCas(p)
    PROVE  /\ ProducerFields(me'[p]) /\ me[p].pc = "claimCas"
           /\ \/ \E r \in Rings : Takes(p, r) /\ hdr[r].owner = NoOwner
              \/ /\ UNCHANGED hdr /\ Others(p)
                 /\ me'[p].pc \in {"scan", "idle", "steal"} /\ me'[p].ring = me[p].ring
                 /\ me'[p].published = me[p].published /\ me'[p].record = me[p].record
                 /\ me'[p].resume = me[p].resume /\ me'[p].stale = me[p].stale
                 /\ me[p].stale = NoRing => me'[p].pc # "steal"
  <1>0. ProducerFields(me[p]) /\ me[p].pc = "claimCas" /\ me[p].scan \in Rings
        /\ me[p].stale \in Rings \cup {NoRing}
    BY DEF TypeOK, ClaimCas, ProducerFields
  <1>1. CASE CompareExchange(me[p].scan, NoOwner)
    <2>1. TakeRing(p, me[p].scan) /\ hdr[me[p].scan].owner = NoOwner
      BY <1>1 DEF ClaimCas, CompareExchange
    <2> QED BY <1>0, <2>1, TakeIs
  <1>2. CASE ~CompareExchange(me[p].scan, NoOwner)
    <2>1. me' = [me EXCEPT ![p] = NextRing(me[p], me[p].stale)] /\ UNCHANGED hdr
      BY <1>2 DEF ClaimCas
    <2>2. me'[p] = NextRing(me[p], me[p].stale) /\ Others(p)
      BY <2>1 DEF TypeOK, Others
    <2> QED BY <1>0, <2>1, <2>2, NextRingIs
  <1> QED BY <1>1, <1>2

\* The look at the stale ring's owner.
LEMMA StealIs ==
    ASSUME TypeOK, NEW p \in Producers, Steal(p)
    PROVE  /\ ProducerFields(me'[p]) /\ Others(p) /\ me[p].pc = "steal"
           /\ me'[p].pc \in {"idle", "stealCas"} /\ me'[p].ring = me[p].ring
           /\ me'[p].published = me[p].published /\ me'[p].record = me[p].record
           /\ me'[p].resume = me[p].resume /\ me'[p].stale = me[p].stale
           /\ me'[p].pc = "stealCas" => me'[p].expected # p
  <1>0. ProducerFields(me[p]) /\ me[p].pc = "steal"
    BY DEF TypeOK, Steal
  <1>1. PICK o \in Producers \cup {NoOwner} : o = hdr[me[p].stale].owner
    BY <1>0 DEF TypeOK, HeaderFields, ProducerFields
  <1>2. PICK l \in {"idle", "stealCas"} : l = IF o \in {NoOwner, p} THEN "idle" ELSE "stealCas"
    OBVIOUS
  <1> DEFINE m == [me[p] EXCEPT !.expected = o, !.pc = l]
  <1>3. me' = [me EXCEPT ![p] = m]
    BY <1>1, <1>2 DEF Steal, TypeOK
  <1>4. /\ DOMAIN m = DOMAIN me[p] /\ m.pc = l /\ m.ring = me[p].ring
        /\ m.published = me[p].published /\ m.record = me[p].record /\ m.resume = me[p].resume
        /\ m.stale = me[p].stale /\ m.left = me[p].left /\ m.scan = me[p].scan
        /\ m.expected = o /\ m.now = me[p].now
    BY <1>0 DEF ProducerFields
  <1> HIDE DEF m
  <1>5. me'[p] = m /\ Others(p)
    BY <1>3 DEF TypeOK, Others
  <1> QED BY <1>0, <1>2, <1>4, <1>5 DEF ProducerFields, Holding, Resetting

\* The exchange that takes a stale ring over.
LEMMA StealCasIs ==
    ASSUME TypeOK, NEW p \in Producers, StealCas(p)
    PROVE  /\ ProducerFields(me'[p]) /\ me[p].pc = "stealCas"
           /\ \/ \E r \in Rings : Takes(p, r)
              \/ UNCHANGED hdr /\ Steps(p, "idle")
  <1>1. CASE CompareExchange(me[p].stale, me[p].expected)
    <2>1. TakeRing(p, me[p].stale)
      BY <1>1 DEF StealCas
    <2> QED BY <2>1, TakeIs DEF StealCas, TypeOK, ProducerFields
  <1>2. CASE ~CompareExchange(me[p].stale, me[p].expected)
    BY <1>2, GotoIs DEF StealCas, Holding, Resetting
  <1> QED BY <1>1, <1>2

(* A step that changes the header of r: whose ring it is stays, and the       *)
(* counters become w, d and g.                                                *)
Counters(r, w, d, g) ==
    /\ DOMAIN hdr' = Rings /\ \A s \in Rings \ {r} : hdr'[s] = hdr[s]
    /\ HeaderFields(hdr'[r]) /\ hdr'[r].owner = hdr[r].owner
    /\ hdr'[r].writeSeq = w /\ hdr'[r].readSeq = d /\ hdr'[r].generation = g

\* A store into the header's counters.
LEMMA ResetIs ==
    ASSUME TypeOK, NEW p \in Producers, NEW r \in Rings, NEW h, HeaderFields(h),
           h.owner = hdr[r].owner, hdr' = [hdr EXCEPT ![r] = h]
    PROVE  Counters(r, h.writeSeq, h.readSeq, h.generation)
  BY DEF TypeOK, Counters

\* The four stores of BeginGeneration.
LEMMA BeginIs ==
    ASSUME TypeOK, NEW p \in Producers, BeginGeneration(p)
    PROVE  /\ ProducerFields(me'[p]) /\ me[p].ring \in Rings
           /\ LET r == me[p].ring   h == hdr[me[p].ring] IN
              \/ /\ me[p].pc = "writeSeq" /\ Steps(p, "readSeq")
                 /\ Counters(r, 0, h.readSeq, h.generation)
              \/ /\ me[p].pc = "readSeq" /\ Steps(p, "rest")
                 /\ Counters(r, h.writeSeq, 0, h.generation)
              \/ /\ me[p].pc = "rest" /\ Steps(p, "generation")
                 /\ Counters(r, h.writeSeq, h.readSeq, h.generation)
              \/ /\ me[p].pc = "generation" /\ Steps(p, "published")
                 /\ Counters(r, h.writeSeq, h.readSeq, h.generation + 1)
  <1>0. ProducerFields(me[p]) /\ me[p].ring \in Rings /\ HeaderFields(hdr[me[p].ring])
    BY DEF TypeOK, ProducerFields, BeginGeneration, ResetStep, Holding, Resetting
  <1>r. PICK r \in Rings : r = me[p].ring
    BY <1>0
  <1>n. PICK n \in Nat : n = me[p].now
    BY <1>0 DEF ProducerFields
  <1>g. PICK g \in Nat : g = hdr[r].generation + 1
    BY <1>0, <1>r DEF HeaderFields
  <1>1. CASE ResetStep(p, "writeSeq", [hdr[me[p].ring] EXCEPT !.writeSeq = 0], "readSeq")
    <2> DEFINE h == [hdr[r] EXCEPT !.writeSeq = 0]
    <2>1. /\ HeaderFields(h) /\ h.owner = hdr[r].owner /\ h.writeSeq = 0
          /\ h.readSeq = hdr[r].readSeq /\ h.generation = hdr[r].generation
      BY <1>0, <1>r DEF HeaderFields
    <2>2. hdr' = [hdr EXCEPT ![r] = h] /\ Goto(p, "readSeq") /\ me[p].pc = "writeSeq"
      BY <1>1, <1>r DEF ResetStep
    <2> HIDE DEF h
    <2>3. Counters(r, h.writeSeq, h.readSeq, h.generation)
      BY <2>1, <2>2, ResetIs
    <2> QED BY <1>r, <2>1, <2>2, <2>3, GotoIs DEF Holding, Resetting
  <1>2. CASE ResetStep(p, "readSeq", [hdr[me[p].ring] EXCEPT !.readSeq = 0], "rest")
    <2> DEFINE h == [hdr[r] EXCEPT !.readSeq = 0]
    <2>1. /\ HeaderFields(h) /\ h.owner = hdr[r].owner /\ h.writeSeq = hdr[r].writeSeq
          /\ h.readSeq = 0 /\ h.generation = hdr[r].generation
      BY <1>0, <1>r DEF HeaderFields
    <2>2. hdr' = [hdr EXCEPT ![r] = h] /\ Goto(p, "rest") /\ me[p].pc = "readSeq"
      BY <1>2, <1>r DEF ResetStep
    <2> HIDE DEF h
    <2>3. Counters(r, h.writeSeq, h.readSeq, h.generation)
      BY <2>1, <2>2, ResetIs
    <2> QED BY <1>r, <2>1, <2>2, <2>3, GotoIs DEF Holding, Resetting
  <1>3. CASE ResetStep(p, "rest", [hdr[me[p].ring] EXCEPT !.drops = 0, !.lastActive = me[p].now],
                       "generation")
    <2> DEFINE h == [hdr[r] EXCEPT !.drops = 0, !.lastActive = n]
    <2>1. /\ HeaderFields(h) /\ h.owner = hdr[r].owner /\ h.writeSeq = hdr[r].writeSeq
          /\ h.readSeq = hdr[r].readSeq /\ h.generation = hdr[r].generation
      BY <1>0, <1>r DEF HeaderFields
    <2>2. hdr' = [hdr EXCEPT ![r] = h] /\ Goto(p, "generation") /\ me[p].pc = "rest"
      BY <1>3, <1>r, <1>n DEF ResetStep
    <2> HIDE DEF h
    <2>3. Counters(r, h.writeSeq, h.readSeq, h.generation)
      BY <2>1, <2>2, ResetIs
    <2> QED BY <1>r, <2>1, <2>2, <2>3, GotoIs DEF Holding, Resetting
  <1>4. CASE ResetStep(p, "generation",
                       [hdr[me[p].ring] EXCEPT !.generation = hdr[me[p].ring].generation + 1],
                       "published")
    <2> DEFINE h == [hdr[r] EXCEPT !.generation = g]
    <2>1. /\ HeaderFields(h) /\ h.owner = hdr[r].owner /\ h.writeSeq = hdr[r].writeSeq
          /\ h.readSeq = hdr[r].readSeq /\ h.generation = g
      BY <1>0, <1>r DEF HeaderFields
    <2>2. hdr' = [hdr EXCEPT ![r] = h] /\ Goto(p, "published") /\ me[p].pc = "generation"
      BY <1>4, <1>r, <1>g DEF ResetStep
    <2> HIDE DEF h
    <2>3. Counters(r, h.writeSeq, h.readSeq, h.generation)
      BY <2>1, <2>2, ResetIs
    <2> QED BY <1>r, <1>g, <2>1, <2>2, <2>3, GotoIs DEF Holding, Resetting
  <1> QED BY <1>0, <1>1, <1>2, <1>3, <1>4 DEF BeginGeneration

\* The producer's own copy of writeSeq, after the claim.
LEMMA LoadIs ==
    ASSUME TypeOK, NEW p \in Producers, LoadPublished(p)
    PROVE  /\ ProducerFields(me'[p]) /\ Others(p) /\ me[p].pc = "published"
           /\ me[p].ring \in Rings /\ me'[p].ring = me[p].ring
           /\ me'[p].pc = IF me[p].resume THEN "invalidate" ELSE "idle"
           /\ me'[p].published = hdr[me[p].ring].writeSeq
           /\ me'[p].record = me[p].record /\ me'[p].resume = me[p].resume
           /\ me'[p].stale = me[p].stale
  <1>0. ProducerFields(me[p]) /\ me[p].pc = "published" /\ me[p].ring \in Rings
    BY DEF TypeOK, ProducerFields, LoadPublished, Holding, Resetting
  <1>1. PICK s \in Nat : s = hdr[me[p].ring].writeSeq
    BY <1>0 DEF TypeOK, HeaderFields
  <1>2. PICK l \in {"invalidate", "idle"} : l = IF me[p].resume THEN "invalidate" ELSE "idle"
    OBVIOUS
  <1> DEFINE m == [me[p] EXCEPT !.published = s, !.pc = l]
  <1>3. me' = [me EXCEPT ![p] = m]
    BY <1>1, <1>2 DEF LoadPublished, TypeOK
  <1>4. /\ DOMAIN m = DOMAIN me[p] /\ m.pc = l /\ m.published = s /\ m.ring = me[p].ring
        /\ m.record = me[p].record /\ m.resume = me[p].resume /\ m.stale = me[p].stale
        /\ m.left = me[p].left /\ m.scan = me[p].scan /\ m.expected = me[p].expected
        /\ m.now = me[p].now
    BY <1>0 DEF ProducerFields
  <1> HIDE DEF m
  <1>5. me'[p] = m /\ Others(p)
    BY <1>3 DEF TypeOK, Others
  <1> QED BY <1>0, <1>1, <1>2, <1>4, <1>5 DEF ProducerFields, Holding, Resetting

\* A ring is given back by the thread that is registered for it.
LEMMA ReleaseIs ==
    ASSUME TypeOK, NEW p \in Producers, Release(p)
    PROVE  /\ ProducerFields(me'[p]) /\ Others(p) /\ me[p].pc = "idle" /\ me'[p].pc = "idle"
           /\ me[p].ring \in Rings /\ me'[p].ring = NoRing
           /\ me'[p].published = me[p].published /\ me'[p].record = me[p].record
           /\ me'[p].resume = me[p].resume /\ me'[p].stale = me[p].stale
           /\ LET r == me[p].ring IN
              /\ DOMAIN hdr' = Rings /\ \A s \in Rings \ {r} : hdr'[s] = hdr[s]
              /\ HeaderFields(hdr'[r]) /\ hdr'[r].writeSeq = hdr[r].writeSeq
              /\ hdr'[r].readSeq = hdr[r].readSeq /\ hdr'[r].generation = hdr[r].generation
              /\ hdr'[r].owner = IF hdr[r].owner = p THEN NoOwner ELSE hdr[r].owner
  <1>0. ProducerFields(me[p]) /\ me[p].pc = "idle"
    BY DEF TypeOK, Release
  <1>r. PICK r \in Rings : r = me[p].ring
    BY <1>0 DEF Release, ProducerFields
  <1>o. PICK o \in Producers \cup {NoOwner} :
            o = IF hdr[r].owner = p THEN NoOwner ELSE hdr[r].owner
    BY DEF TypeOK, HeaderFields
  <1> DEFINE m == [me[p] EXCEPT !.ring = NoRing]   h == [hdr[r] EXCEPT !.owner = o]
  <1>1. me' = [me EXCEPT ![p] = m] /\ hdr' = [hdr EXCEPT ![r] = h]
    BY <1>r, <1>o DEF Release, CompareExchange, TypeOK
  <1>2. /\ DOMAIN m = DOMAIN me[p] /\ m.pc = "idle" /\ m.ring = NoRing
        /\ m.published = me[p].published /\ m.record = me[p].record /\ m.resume = me[p].resume
        /\ m.stale = me[p].stale /\ m.left = me[p].left /\ m.scan = me[p].scan
        /\ m.expected = me[p].expected /\ m.now = me[p].now
    BY <1>0 DEF ProducerFields
  <1>3. /\ DOMAIN h = DOMAIN hdr[r] /\ h.owner = o /\ h.writeSeq = hdr[r].writeSeq
        /\ h.readSeq = hdr[r].readSeq /\ h.drops = hdr[r].drops
        /\ h.generation = hdr[r].generation /\ h.lastActive = hdr[r].lastActive
    BY DEF TypeOK, HeaderFields
  <1> HIDE DEF m, h
  <1>4. me'[p] = m /\ Others(p) /\ hdr'[r] = h /\ DOMAIN hdr' = Rings
        /\ \A s \in Rings \ {r} : hdr'[s] = hdr[s]
    BY <1>1 DEF TypeOK, Others
  <1>5. HeaderFields(hdr'[r])
    BY <1>3, <1>4 DEF HeaderFields, TypeOK
  <1>6. ProducerFields(me'[p])
    BY <1>0, <1>2, <1>4 DEF ProducerFields, Holding, Resetting
  <1> QED BY <1>0, <1>r, <1>o, <1>2, <1>3, <1>4, <1>5, <1>6

\* What the bounds count, step by step.
LEMMA UsedIs ==
    ASSUME TypeOK
    PROVE  /\ used' = [used EXCEPT !.claims = @ + 1] => UsedFields(used') /\ used'.events = used.events
           /\ used' = [used EXCEPT !.deaths = @ + 1] => UsedFields(used') /\ used'.events = used.events
           /\ used' = [used EXCEPT !.attaches = @ + 1] => UsedFields(used') /\ used'.events = used.events
           /\ used' = [used EXCEPT !.crashes = @ + 1] => UsedFields(used') /\ used'.events = used.events
           /\ used.events < setup.events /\ used' = [used EXCEPT !.events = @ + 1]
                => UsedFields(used') /\ used'.events = used.events + 1
           /\ used.events < setup.events /\ used' = [used EXCEPT !.events = @ + 1, !.claims = @ + 1]
                => UsedFields(used') /\ used'.events = used.events + 1
  <1>1. UsedFields(used) /\ setup \in Setups BY DEF TypeOK
  <1>2. used.events < setup.events => used.events + 1 \in Events
    BY <1>1, SetupFields, Constants DEF Events, UsedFields
  <1>3. ASSUME used' = [used EXCEPT !.claims = @ + 1]
        PROVE  UsedFields(used') /\ used'.events = used.events
    BY <1>1, <1>3 DEF UsedFields
  <1>4. ASSUME used' = [used EXCEPT !.deaths = @ + 1]
        PROVE  UsedFields(used') /\ used'.events = used.events
    BY <1>1, <1>4 DEF UsedFields
  <1>5. ASSUME used' = [used EXCEPT !.attaches = @ + 1]
        PROVE  UsedFields(used') /\ used'.events = used.events
    BY <1>1, <1>5 DEF UsedFields
  <1>6. ASSUME used' = [used EXCEPT !.crashes = @ + 1]
        PROVE  UsedFields(used') /\ used'.events = used.events
    BY <1>1, <1>6 DEF UsedFields
  <1>7. ASSUME used.events < setup.events, used' = [used EXCEPT !.events = @ + 1]
        PROVE  UsedFields(used') /\ used'.events = used.events + 1
    BY <1>1, <1>2, <1>7 DEF UsedFields
  <1>8. ASSUME used.events < setup.events,
               used' = [used EXCEPT !.events = @ + 1, !.claims = @ + 1]
        PROVE  UsedFields(used') /\ used'.events = used.events + 1
    BY <1>1, <1>2, <1>8 DEF UsedFields
  <1> QED BY <1>3, <1>4, <1>5, <1>6, <1>7, <1>8

\* A record gets the next number; it is written into the ring the thread still
\* owns, or the thread looks for a ring first.
LEMMA PublishIs ==
    ASSUME TypeOK, NEW p \in Producers, Publish(p)
    PROVE  /\ ProducerFields(me'[p]) /\ Others(p) /\ me[p].pc = "idle" /\ me[p].ring \in Rings
           /\ UsedFields(used') /\ used'.events = used.events + 1
           /\ me'[p].record = used.events + 1 /\ me'[p].published = me[p].published
           /\ \/ /\ hdr[me[p].ring].owner = p /\ me'[p].pc = "invalidate"
                 /\ me'[p].ring = me[p].ring /\ me'[p].stale = me[p].stale
                 /\ me'[p].resume = me[p].resume
              \/ /\ hdr[me[p].ring].owner # p /\ me'[p].pc = "scan" /\ me'[p].ring = NoRing
                 /\ me'[p].stale = NoRing /\ me'[p].resume = TRUE
  <1>0. /\ ProducerFields(me[p]) /\ me[p].pc = "idle" /\ me[p].ring \in Rings /\ tick \in Nat
        /\ used.events < setup.events
    BY DEF TypeOK, Publish, ProducerFields
  <1>1. PICK e \in Events : e = used.events + 1
    BY <1>0, SetupFields, Constants DEF TypeOK, UsedFields, Events
  <1> DEFINE m == [me[p] EXCEPT !.record = used.events + 1, !.now = tick]
  <1>2. /\ DOMAIN m = DOMAIN me[p] /\ m.pc = "idle" /\ m.ring = me[p].ring
        /\ m.published = me[p].published /\ m.record = e /\ m.resume = me[p].resume
        /\ m.stale = me[p].stale /\ m.left = me[p].left /\ m.scan = me[p].scan
        /\ m.expected = me[p].expected /\ m.now = tick
    BY <1>0, <1>1 DEF ProducerFields
  <1>3. CASE StillOwner(p)
    <2> DEFINE n == [m EXCEPT !.pc = "invalidate"]
    <2>1. me' = [me EXCEPT ![p] = n] /\ used' = [used EXCEPT !.events = used.events + 1]
      BY <1>3 DEF Publish
    <2> HIDE DEF m
    <2>2. /\ DOMAIN n = DOMAIN m /\ n.pc = "invalidate" /\ n.ring = m.ring
          /\ n.published = m.published /\ n.record = e /\ n.resume = m.resume
          /\ n.stale = m.stale /\ n.left = m.left /\ n.scan = m.scan
          /\ n.expected = m.expected /\ n.now = m.now
      BY <1>0, <1>2 DEF ProducerFields
    <2> HIDE DEF n
    <2>3. me'[p] = n /\ Others(p)
      BY <2>1 DEF TypeOK, Others
    <2>4. ProducerFields(me'[p])
      BY <1>0, <1>2, <2>2, <2>3 DEF ProducerFields, Holding, Resetting
    <2> QED BY <1>0, <1>1, <1>2, <1>3, <2>1, <2>2, <2>3, <2>4, UsedIs DEF StillOwner
  <1>4. CASE ~StillOwner(p)
    <2> DEFINE n == Scanning(m, tick, TRUE)
    <2>1. /\ me' = [me EXCEPT ![p] = n]
          /\ used' = [used EXCEPT !.events = used.events + 1, !.claims = used.claims + 1]
      BY <1>4 DEF Publish
    <2> HIDE DEF m
    <2>2. /\ DOMAIN n = DOMAIN m /\ n.pc = "scan" /\ n.ring = NoRing
          /\ n.published = m.published /\ n.record = e /\ n.resume = TRUE
          /\ n.stale = NoRing /\ n.left = m.left /\ n.scan = 0
          /\ n.expected = m.expected /\ n.now = tick
      BY <1>0, <1>2 DEF ProducerFields, Scanning
    <2> HIDE DEF n
    <2>3. me'[p] = n /\ Others(p)
      BY <2>1 DEF TypeOK, Others
    <2>4. ProducerFields(me'[p])
      BY <1>0, <1>2, <2>2, <2>3, Constants DEF ProducerFields, Holding, Resetting
    <2> QED BY <1>0, <1>1, <1>2, <1>4, <2>1, <2>2, <2>3, <2>4, UsedIs DEF StillOwner
  <1> QED BY <1>3, <1>4

(* Stores into one slot of a ring.                                            *)
Versions(r, i, v) ==
    /\ version' \in [Rings -> [Cells -> Version]] /\ version'[r][i] = v
    /\ \A s \in Rings \ {r} : version'[s] = version[s]
    /\ \A j \in Cells \ {i} : version'[r][j] = version[r][j]

\* A store of a slot's seqlock word.
LEMMA VersionIs ==
    ASSUME TypeOK, NEW r \in Rings, NEW i \in Cells, NEW v \in Version,
           version' = [version EXCEPT ![r][i] = v]
    PROVE  Versions(r, i, v)
  <1>1. [version[r] EXCEPT ![i] = v] \in [Cells -> Version]
    BY DEF TypeOK
  <1>2. version' = [version EXCEPT ![r] = [version[r] EXCEPT ![i] = v]]
    BY DEF TypeOK
  <1>3. version'[r] = [version[r] EXCEPT ![i] = v]
        /\ \A s \in Rings \ {r} : version'[s] = version[s]
    BY <1>2 DEF TypeOK
  <1> QED BY <1>1, <1>2, <1>3 DEF TypeOK, Versions

\* The slot is marked before the record goes in.
LEMMA InvalidateIs ==
    ASSUME TypeOK, NEW p \in Producers, Invalidate(p)
    PROVE  /\ ProducerFields(me'[p]) /\ Others(p) /\ me[p].pc = "invalidate"
           /\ me[p].ring \in Rings /\ Slot(p) \in Cells /\ Next1(p) \in Nat /\ Next1(p) > 0
           /\ \A r \in Rings \ {me[p].ring} : version'[r] = version[r]
           /\ \A i \in Cells \ {Slot(p)} : version'[me[p].ring][i] = version[me[p].ring][i]
           /\ me'[p].pc = "copy" /\ me'[p].left = Words /\ me'[p].ring = me[p].ring
           /\ me'[p].published = me[p].published /\ me'[p].record = me[p].record
           /\ me'[p].resume = me[p].resume /\ me'[p].stale = me[p].stale
  <1>0. ProducerFields(me[p]) /\ me[p].pc = "invalidate" /\ me[p].ring \in Rings
    BY DEF TypeOK, ProducerFields, Invalidate, Holding, Resetting
  <1>1. PICK s \in Nat : s = Next1(p) /\ s > 0
    BY <1>0 DEF ProducerFields, Next1
  <1>2. PICK i \in Cells : i = Slot(p) /\ i = SlotAt(s)
    BY <1>1, SlotInCells DEF Slot, Next1
  <1>3. PICK r \in Rings : r = me[p].ring
    BY <1>0
  <1>4. version' = [version EXCEPT ![r][i] = [seq |-> s, writing |-> TRUE]]
    BY <1>1, <1>2, <1>3 DEF Invalidate, Invalidated, Next1
  <1>5. Versions(r, i, [seq |-> s, writing |-> TRUE])
    BY <1>1, <1>4, VersionIs DEF Version
  <1>v. /\ \A q \in Rings \ {r} : version'[q] = version[q]
        /\ \A j \in Cells \ {i} : version'[r][j] = version[r][j]
    BY <1>5 DEF Versions
  <1> DEFINE m == [me[p] EXCEPT !.left = Words, !.pc = "copy"]
  <1>6. me' = [me EXCEPT ![p] = m]
    BY DEF Invalidate, TypeOK
  <1>7. /\ DOMAIN m = DOMAIN me[p] /\ m.pc = "copy" /\ m.left = Words /\ m.ring = me[p].ring
        /\ m.published = me[p].published /\ m.record = me[p].record /\ m.resume = me[p].resume
        /\ m.stale = me[p].stale /\ m.scan = me[p].scan /\ m.expected = me[p].expected
        /\ m.now = me[p].now
    BY <1>0 DEF ProducerFields
  <1> HIDE DEF m
  <1>8. me'[p] = m /\ Others(p)
    BY <1>6 DEF TypeOK, Others
  <1>9. ProducerFields(me'[p])
    BY <1>0, <1>7, <1>8 DEF ProducerFields, Holding, Resetting
  <1> QED BY <1>0, <1>1, <1>2, <1>3, <1>v, <1>7, <1>8, <1>9

\* The version that Invalidate leaves in its slot.
LEMMA InvalidateMarks ==
    ASSUME TypeOK, NEW p \in Producers, Invalidate(p)
    PROVE  /\ version' \in [Rings -> [Cells -> Version]]
           /\ version'[me[p].ring][Slot(p)] = [seq |-> Next1(p), writing |-> TRUE]
  <1>0. ProducerFields(me[p]) /\ me[p].ring \in Rings
    BY DEF TypeOK, ProducerFields, Invalidate, Holding, Resetting
  <1>1. PICK s \in Nat : s = Next1(p) /\ s > 0
    BY <1>0 DEF ProducerFields, Next1
  <1>2. PICK i \in Cells : i = Slot(p) /\ i = SlotAt(s)
    BY <1>1, SlotInCells DEF Slot, Next1
  <1>3. PICK r \in Rings : r = me[p].ring
    BY <1>0
  <1>4. version' = [version EXCEPT ![r][i] = [seq |-> s, writing |-> TRUE]]
    BY <1>1, <1>2, <1>3 DEF Invalidate, Invalidated, Next1
  <1>5. Versions(r, i, [seq |-> s, writing |-> TRUE])
    BY <1>1, <1>4, VersionIs DEF Version
  <1> QED BY <1>1, <1>2, <1>3, <1>5 DEF Versions

\* One word of the record.
LEMMA CopyInIs ==
    ASSUME TypeOK, NEW p \in Producers, NEW w \in Words, CopyIn(p, w)
    PROVE  /\ ProducerFields(me'[p]) /\ Others(p) /\ me[p].pc = "copy" /\ w \in me[p].left
           /\ me[p].ring \in Rings /\ Slot(p) \in Cells
           /\ event' \in [Rings -> [Cells -> [Words -> Events]]]
           /\ event'[me[p].ring][Slot(p)][w] = me[p].record
           /\ \A s \in Rings \ {me[p].ring} : event'[s] = event[s]
           /\ \A j \in Cells \ {Slot(p)} : event'[me[p].ring][j] = event[me[p].ring][j]
           /\ \A x \in Words \ {w} :
                event'[me[p].ring][Slot(p)][x] = event[me[p].ring][Slot(p)][x]
           /\ me'[p].pc \in {"copy", "version"} /\ me'[p].left = me[p].left \ {w}
           /\ me'[p].pc = "version" => me[p].left = {w}
           /\ me'[p].ring = me[p].ring /\ me'[p].published = me[p].published
           /\ me'[p].record = me[p].record /\ me'[p].resume = me[p].resume
           /\ me'[p].stale = me[p].stale
  <1>0. /\ ProducerFields(me[p]) /\ me[p].pc = "copy" /\ me[p].ring \in Rings
        /\ w \in me[p].left
    BY DEF TypeOK, ProducerFields, CopyIn, Holding, Resetting
  <1>2. PICK i \in Cells : i = Slot(p)
    BY <1>0, SlotInCells DEF Slot, ProducerFields
  <1>3. PICK r \in Rings, e \in Events : r = me[p].ring /\ e = me[p].record
    BY <1>0 DEF ProducerFields
  <1>l. PICK l \in {"version", "copy"} : l = IF me[p].left = {w} THEN "version" ELSE "copy"
    OBVIOUS
  <1>s. PICK left \in SUBSET Words : left = me[p].left \ {w}
    BY <1>0 DEF ProducerFields
  <1>4. event' = [event EXCEPT ![r][i][w] = e]
    BY <1>2, <1>3 DEF CopyIn, Slot
  <1>5. /\ event' \in [Rings -> [Cells -> [Words -> Events]]] /\ event'[r][i][w] = e
        /\ \A s \in Rings \ {r} : event'[s] = event[s]
        /\ \A j \in Cells \ {i} : event'[r][j] = event[r][j]
        /\ \A x \in Words \ {w} : event'[r][i][x] = event[r][i][x]
    <2> DEFINE b == [event[r][i] EXCEPT ![w] = e]   a == [event[r] EXCEPT ![i] = b]
    <2>1. b \in [Words -> Events] /\ b[w] = e /\ \A x \in Words \ {w} : b[x] = event[r][i][x]
      BY DEF TypeOK
    <2>2. event' = [event EXCEPT ![r] = a]
      BY <1>4 DEF TypeOK
    <2> HIDE DEF b
    <2>3. a \in [Cells -> [Words -> Events]] /\ a[i] = b
          /\ \A j \in Cells \ {i} : a[j] = event[r][j]
      BY <2>1 DEF TypeOK
    <2> HIDE DEF a
    <2>4. event'[r] = a /\ \A s \in Rings \ {r} : event'[s] = event[s]
      BY <2>2 DEF TypeOK
    <2>5. event' \in [Rings -> [Cells -> [Words -> Events]]]
      BY <2>2, <2>3 DEF TypeOK
    <2> QED BY <2>1, <2>3, <2>4, <2>5
  <1> DEFINE m == [me[p] EXCEPT !.left = left, !.pc = l]
  <1>6. me' = [me EXCEPT ![p] = m]
    BY <1>l, <1>s DEF CopyIn, TypeOK
  <1>7. /\ DOMAIN m = DOMAIN me[p] /\ m.pc = l /\ m.left = left /\ m.ring = me[p].ring
        /\ m.published = me[p].published /\ m.record = me[p].record /\ m.resume = me[p].resume
        /\ m.stale = me[p].stale /\ m.scan = me[p].scan /\ m.expected = me[p].expected
        /\ m.now = me[p].now
    BY <1>0 DEF ProducerFields
  <1> HIDE DEF m
  <1>8. me'[p] = m /\ Others(p)
    BY <1>6 DEF TypeOK, Others
  <1>9. ProducerFields(me'[p])
    BY <1>0, <1>7, <1>8 DEF ProducerFields, Holding, Resetting
  <1> QED BY <1>0, <1>2, <1>3, <1>l, <1>s, <1>5, <1>7, <1>8, <1>9

\* The record is complete.
LEMMA StoreVersionIs ==
    ASSUME TypeOK, NEW p \in Producers, StoreVersion(p)
    PROVE  /\ ProducerFields(me'[p]) /\ Steps(p, "advance") /\ me[p].pc = "version"
           /\ me[p].ring \in Rings /\ Slot(p) \in Cells /\ Next1(p) \in Nat /\ Next1(p) > 0
           /\ \A r \in Rings \ {me[p].ring} : version'[r] = version[r]
           /\ \A i \in Cells \ {Slot(p)} : version'[me[p].ring][i] = version[me[p].ring][i]
  <1>0. ProducerFields(me[p]) /\ me[p].pc = "version" /\ me[p].ring \in Rings
    BY DEF TypeOK, ProducerFields, StoreVersion, Holding, Resetting
  <1>1. PICK s \in Nat : s = Next1(p) /\ s > 0
    BY <1>0 DEF ProducerFields, Next1
  <1>2. PICK i \in Cells : i = Slot(p) /\ i = SlotAt(s)
    BY <1>1, SlotInCells DEF Slot, Next1
  <1>3. PICK r \in Rings : r = me[p].ring
    BY <1>0
  <1>4. version' = [version EXCEPT ![r][i] = [seq |-> s, writing |-> FALSE]]
    BY <1>1, <1>2, <1>3 DEF StoreVersion, Next1
  <1>5. Versions(r, i, [seq |-> s, writing |-> FALSE])
    BY <1>1, <1>4, VersionIs DEF Version
  <1>v. /\ \A q \in Rings \ {r} : version'[q] = version[q]
        /\ \A j \in Cells \ {i} : version'[r][j] = version[r][j]
    BY <1>5 DEF Versions
  <1>6. Steps(p, "advance") /\ ProducerFields(me'[p])
    BY <1>0, GotoIs DEF StoreVersion, Holding, Resetting
  <1> QED BY <1>0, <1>1, <1>2, <1>3, <1>v, <1>6

\* The version that StoreVersion leaves in its slot.
LEMMA StoreVersionMarks ==
    ASSUME TypeOK, NEW p \in Producers, StoreVersion(p)
    PROVE  /\ version' \in [Rings -> [Cells -> Version]]
           /\ version'[me[p].ring][Slot(p)] = [seq |-> Next1(p), writing |-> FALSE]
  <1>0. ProducerFields(me[p]) /\ me[p].ring \in Rings
    BY DEF TypeOK, ProducerFields, StoreVersion, Holding, Resetting
  <1>1. PICK s \in Nat : s = Next1(p) /\ s > 0
    BY <1>0 DEF ProducerFields, Next1
  <1>2. PICK i \in Cells : i = Slot(p) /\ i = SlotAt(s)
    BY <1>1, SlotInCells DEF Slot, Next1
  <1>3. PICK r \in Rings : r = me[p].ring
    BY <1>0
  <1>4. version' = [version EXCEPT ![r][i] = [seq |-> s, writing |-> FALSE]]
    BY <1>1, <1>2, <1>3 DEF StoreVersion, Invalidated, Next1
  <1>5. Versions(r, i, [seq |-> s, writing |-> FALSE])
    BY <1>1, <1>4, VersionIs DEF Version
  <1> QED BY <1>1, <1>2, <1>3, <1>5 DEF Versions

\* The record becomes visible.
LEMMA AdvanceIs ==
    ASSUME TypeOK, NEW p \in Producers, Advance(p)
    PROVE  /\ ProducerFields(me'[p]) /\ Others(p) /\ me[p].pc = "advance"
           /\ me[p].ring \in Rings /\ me'[p].pc \in {"touch", "idle"}
           /\ me'[p].published = Next1(p) /\ me'[p].ring = me[p].ring
           /\ me'[p].record = me[p].record /\ me'[p].resume = me[p].resume
           /\ me'[p].stale = me[p].stale
           /\ Counters(me[p].ring, Next1(p), hdr[me[p].ring].readSeq, hdr[me[p].ring].generation)
  <1>0. ProducerFields(me[p]) /\ me[p].pc = "advance"
    BY DEF TypeOK, ProducerFields, Advance
  <1>1. PICK s \in Nat : s = Next1(p)
    BY <1>0 DEF ProducerFields, Next1
  <1>2. PICK r \in Rings : r = me[p].ring
    BY <1>0 DEF ProducerFields, Holding, Resetting
  <1>3. PICK l \in {"touch", "idle"} : l = IF s % TouchInterval = 0 THEN "touch" ELSE "idle"
    OBVIOUS
  <1> DEFINE m == [me[p] EXCEPT !.published = s, !.pc = l]   h == [hdr[r] EXCEPT !.writeSeq = s]
  <1>4. me' = [me EXCEPT ![p] = m] /\ hdr' = [hdr EXCEPT ![r] = h]
    BY <1>1, <1>2, <1>3 DEF Advance, Next1, TypeOK
  <1>5. /\ DOMAIN m = DOMAIN me[p] /\ m.pc = l /\ m.published = s /\ m.ring = me[p].ring
        /\ m.record = me[p].record /\ m.resume = me[p].resume /\ m.stale = me[p].stale
        /\ m.left = me[p].left /\ m.scan = me[p].scan /\ m.expected = me[p].expected
        /\ m.now = me[p].now
    BY <1>0 DEF ProducerFields
  <1>6. /\ HeaderFields(h) /\ h.owner = hdr[r].owner /\ h.writeSeq = s
        /\ h.readSeq = hdr[r].readSeq /\ h.generation = hdr[r].generation
    BY DEF TypeOK, HeaderFields
  <1> HIDE DEF m, h
  <1>7. me'[p] = m /\ Others(p)
    BY <1>4 DEF TypeOK, Others
  <1>8. Counters(r, h.writeSeq, h.readSeq, h.generation)
    BY <1>4, <1>6, ResetIs
  <1>9. ProducerFields(me'[p])
    BY <1>0, <1>2, <1>5, <1>7 DEF ProducerFields, Holding, Resetting
  <1> QED BY <1>0, <1>1, <1>2, <1>5, <1>6, <1>7, <1>8, <1>9

\* The time stamp of the ring.
LEMMA TouchIs ==
    ASSUME TypeOK, NEW p \in Producers, Touch(p)
    PROVE  /\ ProducerFields(me'[p]) /\ Steps(p, "idle") /\ me[p].pc = "touch"
           /\ me[p].ring \in Rings
           /\ LET h == hdr[me[p].ring] IN Counters(me[p].ring, h.writeSeq, h.readSeq, h.generation)
  <1>0. ProducerFields(me[p]) /\ me[p].pc = "touch"
    BY DEF TypeOK, ProducerFields, Touch
  <1>1. PICK n \in Nat, r \in Rings : n = me[p].now /\ r = me[p].ring
    BY <1>0 DEF ProducerFields, Holding, Resetting
  <1> DEFINE h == [hdr[r] EXCEPT !.lastActive = n]
  <1>2. /\ HeaderFields(h) /\ h.owner = hdr[r].owner /\ h.writeSeq = hdr[r].writeSeq
        /\ h.readSeq = hdr[r].readSeq /\ h.generation = hdr[r].generation
    BY DEF TypeOK, HeaderFields
  <1>3. hdr' = [hdr EXCEPT ![r] = h]
    BY <1>1 DEF Touch, TypeOK
  <1> HIDE DEF h
  <1>4. Counters(r, h.writeSeq, h.readSeq, h.generation)
    BY <1>2, <1>3, ResetIs
  <1>5. Steps(p, "idle") /\ ProducerFields(me'[p])
    BY GotoIs DEF Touch, Holding, Resetting
  <1> QED BY <1>0, <1>1, <1>2, <1>4, <1>5

\* A thread that is killed.
LEMMA DieIs ==
    ASSUME TypeOK, NEW p \in Producers, Die(p)
    PROVE  /\ ProducerFields(me'[p]) /\ Steps(p, "dead") /\ me[p].pc # "dead"
           /\ UsedFields(used') /\ used'.events = used.events
  BY GotoIs, UsedIs DEF Die, Holding, Resetting

(***************************************************************************)
(* The drain.                                                              *)
(***************************************************************************)
Moves(l) == /\ c'.pc = l /\ c'.ring = c.ring
            /\ c'.v1 = c.v1 /\ c'.copy = c.copy /\ c'.left = c.left

\* The consumer begins with the first ring, or goes on with the next.
LEMMA DrainAllIs ==
    ASSUME TypeOK, DrainAll \/ DrainNext
    PROVE  /\ ConsumerFields(c') /\ session' \in Stats
           /\ c.pc \in {"idle", "totals"} /\ c'.pc \in {"idle", "readSeq"}
           /\ UNCHANGED <<hdr, delivered>>
  <1>0. ConsumerFields(c) /\ session \in Stats /\ setup \in Setups
    BY DEF TypeOK
  <1>1. CASE DrainAll
    <2> DEFINE d == [c EXCEPT !.pc = "readSeq", !.ring = 0, !.total = NoStats]
    <2>1. /\ DOMAIN d = DOMAIN c /\ d.pc = "readSeq" /\ d.ring = 0 /\ d.total = NoStats
          /\ d.expect = c.expect /\ d.generation = c.generation /\ d.v1 = c.v1
          /\ d.copy = c.copy /\ d.left = c.left /\ d.stats = c.stats
      BY <1>0 DEF ConsumerFields
    <2>2. c' = d /\ c.pc = "idle" /\ UNCHANGED <<hdr, session, delivered>>
      BY <1>1 DEF DrainAll
    <2>3. NoStats \in Stats
      BY DEF NoStats, Stats
    <2> HIDE DEF d
    <2> QED BY <1>0, <2>1, <2>2, <2>3, Constants DEF ConsumerFields
  <1>2. CASE DrainNext
    <2>0. Plus(c.total, c.stats) \in Stats /\ Plus(session, Plus(c.total, c.stats)) \in Stats
      <3>1. \A a, b \in Stats : Plus(a, b) \in Stats
        BY DEF Stats, Plus
      <3> QED BY <1>0, <3>1 DEF ConsumerFields
    <2>p. PICK sum \in Stats : sum = Plus(c.total, c.stats)
      BY <2>0
    <2>1. CASE c.ring + 1 < setup.rings
      <3>1. PICK r \in Rings : r = c.ring + 1
        BY <1>0, <2>1, SetupFields, Constants DEF ConsumerFields, Rings
      <3> DEFINE d == [c EXCEPT !.total = sum, !.ring = r, !.pc = "readSeq"]
      <3>2. c' = d /\ UNCHANGED session
        BY <1>2, <2>1, <2>p, <3>1 DEF DrainNext
      <3>3. /\ DOMAIN d = DOMAIN c /\ d.pc = "readSeq" /\ d.ring = r /\ d.total = sum
            /\ d.expect = c.expect /\ d.generation = c.generation /\ d.v1 = c.v1
            /\ d.copy = c.copy /\ d.left = c.left /\ d.stats = c.stats
        BY <1>0 DEF ConsumerFields
      <3> HIDE DEF d
      <3> QED BY <1>0, <1>2, <3>2, <3>3 DEF ConsumerFields, DrainNext
    <2>2. CASE ~(c.ring + 1 < setup.rings)
      <3> DEFINE d == [c EXCEPT !.pc = "idle"]
      <3>1. c' = d /\ session' \in Stats
        BY <1>2, <2>0, <2>2 DEF DrainNext
      <3>2. /\ DOMAIN d = DOMAIN c /\ d.pc = "idle" /\ d.ring = c.ring /\ d.total = c.total
            /\ d.expect = c.expect /\ d.generation = c.generation /\ d.v1 = c.v1
            /\ d.copy = c.copy /\ d.left = c.left /\ d.stats = c.stats
        BY <1>0 DEF ConsumerFields
      <3> HIDE DEF d
      <3> QED BY <1>0, <1>2, <3>1, <3>2 DEF ConsumerFields, DrainNext
    <2> QED BY <2>1, <2>2
  <1> QED BY <1>1, <1>2

\* The loads of the header.
LEMMA LoadHeaderIs ==
    ASSUME TypeOK, LoadHeader
    PROVE  /\ ConsumerFields(c') /\ UNCHANGED <<hdr, session, delivered>>
           /\ \/ /\ c.pc = "readSeq" /\ Moves("generation")
                 /\ c'.expect = hdr[c.ring].readSeq + 1
              \/ /\ c.pc = "generation" /\ Moves("writeSeq") /\ c'.expect = c.expect
                 /\ c'.generation = hdr[c.ring].generation
              \/ /\ c.pc = "writeSeq" /\ c'.expect = c.expect /\ c'.generation = c.generation
                 /\ \/ c.expect > hdr[c.ring].writeSeq /\ Moves("check")
                    \/ ~(c.expect > hdr[c.ring].writeSeq) /\ Moves("v1")
  <1>0. ConsumerFields(c) /\ HeaderFields(hdr[c.ring])
    BY DEF TypeOK, ConsumerFields
  <1>u. UNCHANGED <<hdr, session, delivered>>
    BY DEF LoadHeader
  <1>1. CASE c.pc = "readSeq"
    <2>1. PICK e \in Nat \ {0} : e = hdr[c.ring].readSeq + 1
      BY <1>0 DEF HeaderFields
    <2> DEFINE d == [c EXCEPT !.expect = e, !.stats = NoStats, !.pc = "generation"]
    <2>2. c' = d
      BY <1>1, <2>1 DEF LoadHeader
    <2>3. /\ DOMAIN d = DOMAIN c /\ d.pc = "generation" /\ d.ring = c.ring /\ d.total = c.total
          /\ d.expect = e /\ d.generation = c.generation /\ d.v1 = c.v1
          /\ d.copy = c.copy /\ d.left = c.left /\ d.stats = NoStats
      BY <1>0 DEF ConsumerFields
    <2>4. NoStats \in Stats
      BY DEF NoStats, Stats
    <2> HIDE DEF d
    <2> QED BY <1>0, <1>1, <1>u, <2>1, <2>2, <2>3, <2>4 DEF ConsumerFields, Moves
  <1>2. CASE c.pc = "generation"
    <2>1. PICK g \in Nat : g = hdr[c.ring].generation
      BY <1>0 DEF HeaderFields
    <2> DEFINE d == [c EXCEPT !.generation = g, !.pc = "writeSeq"]
    <2>2. c' = d
      BY <1>2, <2>1 DEF LoadHeader
    <2>3. /\ DOMAIN d = DOMAIN c /\ d.pc = "writeSeq" /\ d.ring = c.ring /\ d.total = c.total
          /\ d.expect = c.expect /\ d.generation = g /\ d.v1 = c.v1
          /\ d.copy = c.copy /\ d.left = c.left /\ d.stats = c.stats
      BY <1>0 DEF ConsumerFields
    <2> HIDE DEF d
    <2> QED BY <1>0, <1>2, <1>u, <2>1, <2>2, <2>3 DEF ConsumerFields, Moves
  <1>3. CASE c.pc = "writeSeq"
    <2>1. PICK l \in {"check", "v1"} :
              l = IF c.expect > hdr[c.ring].writeSeq THEN "check" ELSE "v1"
      OBVIOUS
    <2> DEFINE d == [c EXCEPT !.pc = l]
    <2>2. c' = d
      BY <1>3, <2>1 DEF LoadHeader, NothingPending
    <2>3. /\ DOMAIN d = DOMAIN c /\ d.pc = l /\ d.ring = c.ring /\ d.total = c.total
          /\ d.expect = c.expect /\ d.generation = c.generation /\ d.v1 = c.v1
          /\ d.copy = c.copy /\ d.left = c.left /\ d.stats = c.stats
      BY <1>0 DEF ConsumerFields
    <2> HIDE DEF d
    <2>4. ConsumerFields(c')
      BY <1>0, <2>2, <2>3 DEF ConsumerFields
    <2> QED BY <1>3, <1>u, <2>1, <2>2, <2>3, <2>4 DEF Moves
  <1> QED BY <1>1, <1>2, <1>3 DEF LoadHeader

\* The counters of a drain.
LEMMA StatsPlus ==
    ASSUME NEW s \in Stats, NEW n \in Nat
    PROVE  [s EXCEPT !.dropped = n] \in Stats /\ [s EXCEPT !.consumed = n] \in Stats
  BY DEF Stats

\* The first load of a slot's version: the drain stops at a slot that is being
\* written, goes on behind a record it missed, or copies the one it expects.
LEMMA LoadV1Is ==
    ASSUME TypeOK, LoadV1
    PROVE  /\ ConsumerFields(c') /\ UNCHANGED <<hdr, session, delivered>>
           /\ c.pc = "v1" /\ c'.ring = c.ring /\ c'.generation = c.generation
           /\ \/ c'.pc = "check" /\ c'.expect = c.expect
              \/ c'.pc = "writeSeq" /\ c'.expect > c.expect
              \/ /\ c'.pc = "copy" /\ c'.expect = c.expect /\ c'.left = Words
                 /\ c'.v1 = [seq |-> c.expect, writing |-> FALSE]
                 /\ Looked = [seq |-> c.expect, writing |-> FALSE]
  <1>0. /\ ConsumerFields(c) /\ c.stats.dropped \in Nat /\ c.stats.consumed \in Nat
        /\ c.pc = "v1" /\ UNCHANGED <<hdr, session, delivered>> /\ c.expect \in Nat \ {0}
    BY DEF TypeOK, ConsumerFields, Stats, LoadV1
  <1>v. PICK v \in Version : v = Looked
    BY <1>0, SlotInCells DEF TypeOK, ConsumerFields, Looked
  <1> DEFINE seen == [c EXCEPT !.v1 = v]
  <1>s. /\ DOMAIN seen = DOMAIN c /\ seen.pc = c.pc /\ seen.ring = c.ring /\ seen.total = c.total
        /\ seen.expect = c.expect /\ seen.generation = c.generation /\ seen.v1 = v
        /\ seen.copy = c.copy /\ seen.left = c.left /\ seen.stats = c.stats
    BY <1>0 DEF ConsumerFields
  <1>1. CASE v.writing
    <2> DEFINE d == [seen EXCEPT !.pc = "check"]
    <2>1. c' = d
      BY <1>1, <1>v DEF LoadV1, Looked, Deferred
    <2> HIDE DEF seen
    <2>2. /\ DOMAIN d = DOMAIN seen /\ d.pc = "check" /\ d.ring = seen.ring
          /\ d.total = seen.total /\ d.expect = seen.expect /\ d.generation = seen.generation
          /\ d.v1 = seen.v1 /\ d.copy = seen.copy /\ d.left = seen.left /\ d.stats = seen.stats
      BY <1>s, <1>0 DEF ConsumerFields
    <2> HIDE DEF d
    <2> QED BY <1>0, <1>s, <2>1, <2>2 DEF ConsumerFields
  <1>2. ASSUME NEW n \in Nat, NEW e \in Nat, e > c.expect,
               c' = [seen EXCEPT !.stats.dropped = n, !.expect = e, !.pc = "writeSeq"]
        PROVE  /\ ConsumerFields(c') /\ c'.ring = c.ring /\ c'.generation = c.generation
               /\ c'.pc = "writeSeq" /\ c'.expect > c.expect
    <2> DEFINE st == [seen.stats EXCEPT !.dropped = n]
    <2>1. st \in Stats
      BY <1>0, <1>s, StatsPlus DEF ConsumerFields
    <2> DEFINE d == [seen EXCEPT !.stats = st, !.expect = e, !.pc = "writeSeq"]
    <2>2. c' = d
      BY <1>2, <1>s, <1>0 DEF ConsumerFields
    <2> HIDE DEF seen, st
    <2>3. /\ DOMAIN d = DOMAIN seen /\ d.pc = "writeSeq" /\ d.ring = seen.ring
          /\ d.total = seen.total /\ d.expect = e /\ d.generation = seen.generation
          /\ d.v1 = seen.v1 /\ d.copy = seen.copy /\ d.left = seen.left /\ d.stats = st
      BY <1>s, <1>0 DEF ConsumerFields
    <2> HIDE DEF d
    <2>4. e \in Nat \ {0}
      BY <1>0, <1>2
    <2>5. ConsumerFields(c')
      BY <1>0, <1>s, <2>1, <2>2, <2>3, <2>4 DEF ConsumerFields
    <2> QED BY <1>2, <1>s, <2>2, <2>3, <2>5
  <1>3. CASE ~v.writing /\ v.seq > c.expect
    <2>1. PICK n \in Nat, e \in Nat : n = c.stats.dropped + (v.seq - c.expect) /\ e = v.seq
      BY <1>0, <1>3 DEF Version
    <2>2. c' = [seen EXCEPT !.stats.dropped = n, !.expect = e, !.pc = "writeSeq"]
      BY <1>3, <1>v, <1>0, <2>1 DEF LoadV1, Looked, Gap, Version, ConsumerFields
    <2> QED BY <1>0, <1>2, <1>3, <2>1, <2>2
  <1>4. CASE ~v.writing /\ v.seq < c.expect
    <2>1. PICK n \in Nat, e \in Nat : n = c.stats.dropped + 1 /\ e = c.expect + 1
      BY <1>0
    <2>2. c' = [seen EXCEPT !.stats.dropped = n, !.expect = e, !.pc = "writeSeq"]
      BY <1>4, <1>v, <1>0, <2>1 DEF LoadV1, Looked, Version, ConsumerFields
    <2>3. e > c.expect
      BY <1>0, <2>1
    <2> QED BY <1>0, <1>2, <2>2, <2>3
  <1>5. CASE ~v.writing /\ v.seq = c.expect
    <2> DEFINE d == [seen EXCEPT !.left = Words, !.pc = "copy"]
    <2>1. c' = d
      BY <1>5, <1>v, <1>0 DEF LoadV1, Looked, Version
    <2> HIDE DEF seen
    <2>2. /\ DOMAIN d = DOMAIN seen /\ d.pc = "copy" /\ d.ring = seen.ring
          /\ d.total = seen.total /\ d.expect = seen.expect /\ d.generation = seen.generation
          /\ d.v1 = seen.v1 /\ d.copy = seen.copy /\ d.left = Words /\ d.stats = seen.stats
      BY <1>s, <1>0 DEF ConsumerFields
    <2> HIDE DEF d
    <2>3. v = [seq |-> c.expect, writing |-> FALSE]
      BY <1>5 DEF Version
    <2> QED BY <1>0, <1>s, <1>v, <2>1, <2>2, <2>3 DEF ConsumerFields
  <1> QED BY <1>0, <1>v, <1>1, <1>3, <1>4, <1>5 DEF Version, ConsumerFields

\* One word of the record out of the slot.
LEMMA CopyOutIs ==
    ASSUME TypeOK, NEW w \in Words, CopyOut(w)
    PROVE  /\ ConsumerFields(c') /\ UNCHANGED <<hdr, session, delivered>>
           /\ c.pc = "copy" /\ c'.pc \in {"copy", "v2"} /\ w \in c.left
           /\ c'.ring = c.ring /\ c'.expect = c.expect /\ c'.generation = c.generation
           /\ c'.v1 = c.v1 /\ c'.left = c.left \ {w} /\ (c'.pc = "v2" => c'.left = {})
           /\ c'.copy[w] = event[c.ring][SlotAt(c.expect)][w]
           /\ \A x \in Words \ {w} : c'.copy[x] = c.copy[x]
  <1>0. /\ ConsumerFields(c) /\ c.pc = "copy" /\ w \in c.left
        /\ UNCHANGED <<hdr, session, delivered>>
    BY DEF TypeOK, CopyOut
  <1>1. PICK e \in Events : e = event[c.ring][SlotAt(c.expect)][w]
    BY <1>0, SlotInCells DEF TypeOK, ConsumerFields
  <1>2. PICK l \in {"copy", "v2"} : l = IF c.left = {w} THEN "v2" ELSE "copy"
    OBVIOUS
  <1>3. PICK left \in SUBSET Words : left = c.left \ {w}
    BY <1>0 DEF ConsumerFields
  <1> DEFINE cp == [c.copy EXCEPT ![w] = e]   d == [c EXCEPT !.copy = cp, !.left = left, !.pc = l]
  <1>4. c' = d
    BY <1>0, <1>1, <1>2, <1>3 DEF CopyOut, ConsumerFields
  <1>5. cp \in [Words -> Events] /\ cp[w] = e /\ \A x \in Words \ {w} : cp[x] = c.copy[x]
    BY <1>0 DEF ConsumerFields
  <1> HIDE DEF cp
  <1>6. /\ DOMAIN d = DOMAIN c /\ d.pc = l /\ d.ring = c.ring /\ d.total = c.total
        /\ d.expect = c.expect /\ d.generation = c.generation /\ d.v1 = c.v1
        /\ d.copy = cp /\ d.left = left /\ d.stats = c.stats
    BY <1>0 DEF ConsumerFields
  <1> HIDE DEF d
  <1>7. ConsumerFields(c')
    BY <1>0, <1>4, <1>5, <1>6 DEF ConsumerFields
  <1> QED BY <1>0, <1>1, <1>2, <1>3, <1>4, <1>5, <1>6, <1>7

\* The second load decides; what is accepted is delivered.
LEMMA LoadV2Is ==
    ASSUME TypeOK, LoadV2
    PROVE  /\ ConsumerFields(c') /\ UNCHANGED <<hdr, session>>
           /\ c.pc = "v2" /\ c'.pc = "writeSeq" /\ c'.expect = c.expect + 1
           /\ c'.ring = c.ring /\ c'.generation = c.generation
           /\ delivered' \in [Events -> Nat]
           /\ \A e \in Events :
                \/ delivered'[e] = delivered[e]
                \/ /\ e = c.copy["head"] /\ Accepts /\ Current
                   /\ delivered'[e] = delivered[e] + 1
  <1>0. /\ ConsumerFields(c) /\ c.stats.dropped \in Nat /\ c.stats.consumed \in Nat
        /\ c.pc = "v2" /\ UNCHANGED <<hdr, session>>
    BY DEF TypeOK, ConsumerFields, Stats, LoadV2
  <1>e. PICK e \in Nat \ {0} : e = c.expect + 1
    BY <1>0 DEF ConsumerFields
  <1>1. ASSUME NEW st \in Stats, c' = [c EXCEPT !.stats = st, !.expect = e, !.pc = "writeSeq"]
        PROVE  /\ ConsumerFields(c') /\ c'.pc = "writeSeq" /\ c'.expect = e
               /\ c'.ring = c.ring /\ c'.generation = c.generation
    <2> DEFINE d == [c EXCEPT !.stats = st, !.expect = e, !.pc = "writeSeq"]
    <2>1. /\ DOMAIN d = DOMAIN c /\ d.pc = "writeSeq" /\ d.ring = c.ring /\ d.total = c.total
          /\ d.expect = e /\ d.generation = c.generation /\ d.v1 = c.v1
          /\ d.copy = c.copy /\ d.left = c.left /\ d.stats = st
      BY <1>0 DEF ConsumerFields
    <2>2. c' = d
      BY <1>1
    <2> HIDE DEF d
    <2> QED BY <1>0, <2>1, <2>2 DEF ConsumerFields
  <1>2. CASE Accepts
    <2>s. c.stats \in Stats /\ c.stats.consumed + 1 \in Nat
      BY <1>0 DEF ConsumerFields
    <2>n. [c.stats EXCEPT !.consumed = c.stats.consumed + 1] \in Stats
      BY <2>s, StatsPlus
    <2>1. PICK st \in Stats : st = [c.stats EXCEPT !.consumed = c.stats.consumed + 1]
      BY <2>n
    <2>2. c' = [c EXCEPT !.stats = st, !.expect = e, !.pc = "writeSeq"]
      BY <1>2, <1>e, <1>0, <2>1 DEF LoadV2, ConsumerFields
    <2>3. PICK x \in Events : x = c.copy["head"]
      BY <1>0 DEF ConsumerFields, Words
    <2>4. PICK n \in Nat : /\ n = IF Current /\ delivered[x] < 2 THEN delivered[x] + 1
                                  ELSE delivered[x]
      BY DEF TypeOK
    <2>5. delivered' = [delivered EXCEPT ![x] = n]
      BY <1>2, <2>3, <2>4 DEF LoadV2, Current, TypeOK
    <2>6. delivered' \in [Events -> Nat] /\ delivered'[x] = n
          /\ \A y \in Events \ {x} : delivered'[y] = delivered[y]
      BY <2>5 DEF TypeOK
    <2> QED BY <1>0, <1>1, <1>2, <1>e, <2>1, <2>2, <2>3, <2>4, <2>6
  <1>3. CASE ~Accepts
    <2>s. c.stats \in Stats /\ c.stats.dropped + 1 \in Nat
      BY <1>0 DEF ConsumerFields
    <2>n. [c.stats EXCEPT !.dropped = c.stats.dropped + 1] \in Stats
      BY <2>s, StatsPlus
    <2>1. PICK st \in Stats : st = [c.stats EXCEPT !.dropped = c.stats.dropped + 1]
      BY <2>n
    <2>2. c' = [c EXCEPT !.stats = st, !.expect = e, !.pc = "writeSeq"] /\ UNCHANGED delivered
      BY <1>3, <1>e, <1>0, <2>1 DEF LoadV2, ConsumerFields
    <2> QED BY <1>0, <1>1, <1>e, <2>1, <2>2 DEF TypeOK
  <1> QED BY <1>2, <1>3

\* The look at the generation.
LEMMA CheckIs ==
    ASSUME TypeOK, CheckGeneration
    PROVE  /\ ConsumerFields(c') /\ UNCHANGED <<hdr, session, delivered>> /\ c.pc = "check"
           /\ c'.pc = IF Current THEN "progress" ELSE "totals"
           /\ c'.ring = c.ring /\ c'.expect = c.expect /\ c'.generation = c.generation
  <1>0. ConsumerFields(c) /\ c.pc = "check" /\ UNCHANGED <<hdr, session, delivered>>
    BY DEF TypeOK, CheckGeneration
  <1>1. PICK l \in {"progress", "totals"} : l = IF Current THEN "progress" ELSE "totals"
    OBVIOUS
  <1> DEFINE d == [c EXCEPT !.pc = l]
  <1>2. c' = d
    BY <1>1 DEF CheckGeneration, Current
  <1>3. /\ DOMAIN d = DOMAIN c /\ d.pc = l /\ d.ring = c.ring /\ d.total = c.total
        /\ d.expect = c.expect /\ d.generation = c.generation /\ d.v1 = c.v1
        /\ d.copy = c.copy /\ d.left = c.left /\ d.stats = c.stats
    BY <1>0 DEF ConsumerFields
  <1> HIDE DEF d
  <1>4. ConsumerFields(c')
    BY <1>0, <1>2, <1>3 DEF ConsumerFields
  <1> QED BY <1>0, <1>1, <1>2, <1>3, <1>4

\* The two stores of the write-back.
LEMMA WriteBackIs ==
    ASSUME TypeOK, WriteBack
    PROVE  /\ ConsumerFields(c') /\ UNCHANGED <<session, delivered>>
           /\ c'.ring = c.ring /\ c'.expect = c.expect /\ c'.generation = c.generation
           /\ LET h == hdr[c.ring] IN
              \/ /\ c.pc = "progress" /\ c'.pc = "drops"
                 /\ Counters(c.ring, h.writeSeq, c.expect - 1, h.generation)
              \/ /\ c.pc = "drops" /\ c'.pc = "totals"
                 /\ Counters(c.ring, h.writeSeq, h.readSeq, h.generation)
  <1>0. ConsumerFields(c) /\ UNCHANGED <<session, delivered>>
    BY DEF TypeOK, WriteBack
  <1>1. PICK r \in Rings : r = c.ring
    BY <1>0 DEF ConsumerFields
  <1>2. HeaderFields(hdr[r]) /\ c.stats.dropped \in Nat
    BY <1>0 DEF TypeOK, ConsumerFields, Stats
  <1>3. ASSUME NEW l \in {"drops", "totals"}, c' = [c EXCEPT !.pc = l]
        PROVE  /\ ConsumerFields(c') /\ c'.pc = l /\ c'.ring = c.ring /\ c'.expect = c.expect
               /\ c'.generation = c.generation
    <2> DEFINE d == [c EXCEPT !.pc = l]
    <2>1. /\ DOMAIN d = DOMAIN c /\ d.pc = l /\ d.ring = c.ring /\ d.total = c.total
          /\ d.expect = c.expect /\ d.generation = c.generation /\ d.v1 = c.v1
          /\ d.copy = c.copy /\ d.left = c.left /\ d.stats = c.stats
      BY <1>0 DEF ConsumerFields
    <2>2. c' = d
      BY <1>3
    <2> HIDE DEF d
    <2> QED BY <1>0, <2>1, <2>2 DEF ConsumerFields
  <1>4. CASE c.pc = "progress"
    <2>1. PICK n \in Nat : n = c.expect - 1
      BY <1>0 DEF ConsumerFields
    <2> DEFINE h == [hdr[r] EXCEPT !.readSeq = n]
    <2>2. /\ HeaderFields(h) /\ h.owner = hdr[r].owner /\ h.writeSeq = hdr[r].writeSeq
          /\ h.readSeq = n /\ h.generation = hdr[r].generation
      BY <1>2 DEF HeaderFields
    <2>3. hdr' = [hdr EXCEPT ![r] = h] /\ c' = [c EXCEPT !.pc = "drops"]
      BY <1>1, <1>4, <2>1 DEF WriteBack, Progress, TypeOK
    <2> HIDE DEF h
    <2>4. Counters(r, h.writeSeq, h.readSeq, h.generation)
      BY <2>2, <2>3 DEF TypeOK, Counters
    <2> QED BY <1>0, <1>1, <1>3, <1>4, <2>1, <2>2, <2>3, <2>4
  <1>5. CASE c.pc = "drops"
    <2>1. PICK n \in Nat : n = hdr[r].drops + c.stats.dropped
      BY <1>2 DEF HeaderFields
    <2> DEFINE h == [hdr[r] EXCEPT !.drops = n]
    <2>2. /\ HeaderFields(h) /\ h.owner = hdr[r].owner /\ h.writeSeq = hdr[r].writeSeq
          /\ h.readSeq = hdr[r].readSeq /\ h.generation = hdr[r].generation
      BY <1>2 DEF HeaderFields
    <2>3. hdr' = [hdr EXCEPT ![r] = h] /\ c' = [c EXCEPT !.pc = "totals"]
      BY <1>1, <1>5, <2>1 DEF WriteBack, TypeOK
    <2> HIDE DEF h
    <2>4. Counters(r, h.writeSeq, h.readSeq, h.generation)
      BY <2>2, <2>3 DEF TypeOK, Counters
    <2> QED BY <1>0, <1>1, <1>3, <1>5, <2>1, <2>2, <2>3, <2>4
  <1> QED BY <1>4, <1>5 DEF WriteBack

\* A drain that is not under way.
LEMMA NotDrainingIs == ConsumerFields(NotDraining) /\ NotDraining.pc = "idle"
  BY Constants DEF NotDraining, ConsumerFields, NoVersion, Version, NoStats, Stats

\* What the steps leave alone.
LEMMA Frame ==
    ASSUME NEW p \in Producers
    PROVE  /\ Claim(p) \/ ScanRing(p) \/ Steal(p) \/ LoadPublished(p) \/ Publish(p) \/ Die(p)
                => UNCHANGED <<setup, hdr, version, event, c, delivered>>
           /\ ScanRing(p) \/ Steal(p) \/ LoadPublished(p) => UNCHANGED used
           /\ ClaimCas(p) \/ StealCas(p) \/ BeginGeneration(p) \/ Release(p) \/ Advance(p) \/ Touch(p)
                => UNCHANGED <<setup, version, event, c, delivered, used>>
           /\ Invalidate(p) \/ StoreVersion(p)
                => UNCHANGED <<setup, hdr, event, c, delivered, used>>
           /\ \A w \in Words : CopyIn(p, w) => UNCHANGED <<setup, hdr, version, c, delivered, used>>
  <1>1. Claim(p) => UNCHANGED <<setup, hdr, version, event, c, delivered>>
    BY DEF Claim
  <1>2. ScanRing(p) => UNCHANGED <<setup, hdr, version, event, c, delivered, used>>
    BY DEF ScanRing
  <1>3. Steal(p) => UNCHANGED <<setup, hdr, version, event, c, delivered, used>>
    BY DEF Steal
  <1>4. LoadPublished(p) => UNCHANGED <<setup, hdr, version, event, c, delivered, used>>
    BY DEF LoadPublished
  <1>5. Publish(p) => UNCHANGED <<setup, hdr, version, event, c, delivered>>
    BY DEF Publish
  <1>6. Die(p) => UNCHANGED <<setup, hdr, version, event, c, delivered>>
    BY DEF Die
  <1>7. ClaimCas(p) => UNCHANGED <<setup, version, event, c, delivered, used>>
    BY DEF ClaimCas
  <1>8. StealCas(p) => UNCHANGED <<setup, version, event, c, delivered, used>>
    BY DEF StealCas
  <1>9. BeginGeneration(p) => UNCHANGED <<setup, version, event, c, delivered, used>>
    BY DEF BeginGeneration
  <1>10. Release(p) => UNCHANGED <<setup, version, event, c, delivered, used>>
    BY DEF Release
  <1>11. Advance(p) => UNCHANGED <<setup, version, event, c, delivered, used>>
    BY DEF Advance
  <1>12. Touch(p) => UNCHANGED <<setup, version, event, c, delivered, used>>
    BY DEF Touch
  <1>13. Invalidate(p) => UNCHANGED <<setup, hdr, event, c, delivered, used>>
    BY DEF Invalidate
  <1>14. StoreVersion(p) => UNCHANGED <<setup, hdr, event, c, delivered, used>>
    BY DEF StoreVersion
  <1>15. ASSUME NEW w \in Words, CopyIn(p, w)
         PROVE  UNCHANGED <<setup, hdr, version, c, delivered, used>>
    BY <1>15 DEF CopyIn
  <1> QED BY <1>1, <1>2, <1>3, <1>4, <1>5, <1>6, <1>7, <1>8, <1>9, <1>10, <1>11, <1>12, <1>13,
             <1>14, <1>15

\* What the helper's steps and the clock leave alone.
LEMMA HelperFrame ==
    /\ Drain => /\ UNCHANGED <<setup, version, event, me, used>> /\ helper
                /\ ~WriteBack => UNCHANGED hdr
                /\ ~LoadV2 => UNCHANGED delivered
    /\ HelperDies => /\ UNCHANGED <<setup, hdr, version, event, me, delivered>>
                     /\ c' = NotDraining /\ used.crashes < setup.crashes
                     /\ used' = [used EXCEPT !.crashes = @ + 1]
    /\ Tick => UNCHANGED <<setup, hdr, version, event, me, c, delivered, used>>
    /\ \A layout \in {"same", "other"} : Attach(layout) =>
         /\ UNCHANGED <<setup, hdr, version, event, me, c, delivered>>
         /\ used' = [used EXCEPT !.attaches = @ + 1]
  <1>1. Drain => UNCHANGED <<setup, version, event, me, used>> /\ helper
    BY DEF Drain
  <1>2. Drain /\ ~WriteBack => UNCHANGED hdr
    BY DEF Drain, DrainAll, LoadHeader, LoadV1, CopyOut, LoadV2, CheckGeneration, DrainNext
  <1>3. Drain /\ ~LoadV2 => UNCHANGED delivered
    BY DEF Drain, DrainAll, LoadHeader, LoadV1, CopyOut, WriteBack, CheckGeneration, DrainNext
  <1> QED BY <1>1, <1>2, <1>3 DEF HelperDies, Tick, Attach

----------------------------------------------------------------------------
(* The type invariant.                                                        *)
LEMMA InitType == Init => TypeOK
  <1> SUFFICES ASSUME Init PROVE TypeOK
    OBVIOUS
  <1>1. setup \in Setups /\ helper \in BOOLEAN /\ session \in Stats /\ tick \in Nat
        /\ UsedFields(used) /\ delivered \in [Events -> Nat]
    BY Constants DEF Init, NoStats, Stats, UsedFields
  <1>2. DOMAIN hdr = Rings /\ \A r \in Rings : HeaderFields(hdr[r])
    BY DEF Init, HeaderFields
  <1>3. version \in [Rings -> [Cells -> Version]]
    BY DEF Init, NoVersion, Version
  <1>4. event \in [Rings -> [Cells -> [Words -> Events]]]
    BY Constants DEF Init
  <1>5. DOMAIN me = Producers /\ \A p \in Producers : ProducerFields(me[p])
    BY Constants DEF Init, ProducerFields, Holding, Resetting
  <1>6. ConsumerFields(c)
    BY NotDrainingIs DEF Init
  <1> QED BY <1>1, <1>2, <1>3, <1>4, <1>5, <1>6 DEF TypeOK

\* One thread's locals, one ring's header.
LEMMA OneTyped ==
    ASSUME TypeOK
    PROVE  /\ \A p \in Producers : Others(p) /\ ProducerFields(me'[p]) =>
                DOMAIN me' = Producers /\ \A q \in Producers : ProducerFields(me'[q])
           /\ \A r \in Rings :
                /\ DOMAIN hdr' = Rings /\ HeaderFields(hdr'[r])
                /\ \A s \in Rings \ {r} : hdr'[s] = hdr[s]
                => \A s \in Rings : HeaderFields(hdr'[s])
  BY DEF TypeOK, Others

\* Every step keeps the types.
LEMMA TypeStep == TypeOK /\ [Next]_vars => TypeOK'
  <1> SUFFICES ASSUME TypeOK, [Next]_vars PROVE TypeOK'
    OBVIOUS
  <1>1. ASSUME NEW p \in Producers, Claim(p) PROVE TypeOK'
    <2>1. DOMAIN me' = Producers /\ \A q \in Producers : ProducerFields(me'[q])
      BY <1>1, ClaimIs, UsedIs, OneTyped DEF Steps, Takes
    <2> QED BY <1>1, <2>1, ClaimIs, UsedIs DEF TypeOK, Claim
  <1>2. ASSUME NEW p \in Producers, Release(p) PROVE TypeOK'
    <2>1. DOMAIN me' = Producers /\ \A q \in Producers : ProducerFields(me'[q])
      BY <1>2, ReleaseIs, OneTyped DEF Steps, Takes
    <2>2. DOMAIN hdr' = Rings /\ \A r \in Rings : HeaderFields(hdr'[r])
      BY <1>2, ReleaseIs, OneTyped DEF Takes, Counters, TypeOK
    <2> QED BY <1>2, <2>1, <2>2, ReleaseIs DEF TypeOK, Release
  <1>3. ASSUME NEW p \in Producers, Publish(p) PROVE TypeOK'
    <2>1. DOMAIN me' = Producers /\ \A q \in Producers : ProducerFields(me'[q])
      BY <1>3, PublishIs, OneTyped DEF Steps, Takes
    <2> QED BY <1>3, <2>1, PublishIs DEF TypeOK, Publish
  <1>4. ASSUME NEW p \in Producers, ScanRing(p) PROVE TypeOK'
    <2>1. DOMAIN me' = Producers /\ \A q \in Producers : ProducerFields(me'[q])
      BY <1>4, ScanIs, OneTyped DEF Steps, Takes
    <2> QED BY <1>4, <2>1, ScanIs DEF TypeOK, ScanRing
  <1>5. ASSUME NEW p \in Producers, ClaimCas(p) PROVE TypeOK'
    <2>1. DOMAIN me' = Producers /\ \A q \in Producers : ProducerFields(me'[q])
      BY <1>5, ClaimCasIs, OneTyped DEF Steps, Takes
    <2>2. DOMAIN hdr' = Rings /\ \A r \in Rings : HeaderFields(hdr'[r])
      BY <1>5, ClaimCasIs, OneTyped DEF Takes, Counters, TypeOK
    <2> QED BY <1>5, <2>1, <2>2, ClaimCasIs DEF TypeOK, ClaimCas
  <1>6. ASSUME NEW p \in Producers, Steal(p) PROVE TypeOK'
    <2>1. DOMAIN me' = Producers /\ \A q \in Producers : ProducerFields(me'[q])
      BY <1>6, StealIs, OneTyped DEF Steps, Takes
    <2> QED BY <1>6, <2>1, StealIs DEF TypeOK, Steal
  <1>7. ASSUME NEW p \in Producers, StealCas(p) PROVE TypeOK'
    <2>1. DOMAIN me' = Producers /\ \A q \in Producers : ProducerFields(me'[q])
      BY <1>7, StealCasIs, OneTyped DEF Steps, Takes
    <2>2. DOMAIN hdr' = Rings /\ \A r \in Rings : HeaderFields(hdr'[r])
      BY <1>7, StealCasIs, OneTyped DEF Takes, Counters, TypeOK
    <2> QED BY <1>7, <2>1, <2>2, StealCasIs DEF TypeOK, StealCas
  <1>8. ASSUME NEW p \in Producers, BeginGeneration(p) PROVE TypeOK'
    <2>1. DOMAIN me' = Producers /\ \A q \in Producers : ProducerFields(me'[q])
      BY <1>8, BeginIs, OneTyped DEF Steps, Takes
    <2>2. DOMAIN hdr' = Rings /\ \A r \in Rings : HeaderFields(hdr'[r])
      BY <1>8, BeginIs, OneTyped DEF Takes, Counters, TypeOK
    <2> QED BY <1>8, <2>1, <2>2, BeginIs DEF TypeOK, BeginGeneration
  <1>9. ASSUME NEW p \in Producers, LoadPublished(p) PROVE TypeOK'
    <2>1. DOMAIN me' = Producers /\ \A q \in Producers : ProducerFields(me'[q])
      BY <1>9, LoadIs, OneTyped DEF Steps, Takes
    <2> QED BY <1>9, <2>1, LoadIs DEF TypeOK, LoadPublished
  <1>10. ASSUME NEW p \in Producers, Invalidate(p) PROVE TypeOK'
    <2>1. DOMAIN me' = Producers /\ \A q \in Producers : ProducerFields(me'[q])
      BY <1>10, InvalidateIs, OneTyped DEF Steps, Takes
    <2> QED BY <1>10, <2>1, InvalidateMarks DEF TypeOK, Invalidate
  <1>11. ASSUME NEW p \in Producers, StoreVersion(p) PROVE TypeOK'
    <2>1. DOMAIN me' = Producers /\ \A q \in Producers : ProducerFields(me'[q])
      BY <1>11, StoreVersionIs, OneTyped DEF Steps, Takes
    <2> QED BY <1>11, <2>1, StoreVersionMarks DEF TypeOK, StoreVersion
  <1>12. ASSUME NEW p \in Producers, Advance(p) PROVE TypeOK'
    <2>1. DOMAIN me' = Producers /\ \A q \in Producers : ProducerFields(me'[q])
      BY <1>12, AdvanceIs, OneTyped DEF Steps, Takes
    <2>2. DOMAIN hdr' = Rings /\ \A r \in Rings : HeaderFields(hdr'[r])
      BY <1>12, AdvanceIs, OneTyped DEF Takes, Counters, TypeOK
    <2> QED BY <1>12, <2>1, <2>2, AdvanceIs DEF TypeOK, Advance
  <1>13. ASSUME NEW p \in Producers, Touch(p) PROVE TypeOK'
    <2>1. DOMAIN me' = Producers /\ \A q \in Producers : ProducerFields(me'[q])
      BY <1>13, TouchIs, OneTyped DEF Steps, Takes
    <2>2. DOMAIN hdr' = Rings /\ \A r \in Rings : HeaderFields(hdr'[r])
      BY <1>13, TouchIs, OneTyped DEF Takes, Counters, TypeOK
    <2> QED BY <1>13, <2>1, <2>2, TouchIs DEF TypeOK, Touch
  <1>14. ASSUME NEW p \in Producers, Die(p) PROVE TypeOK'
    <2>1. DOMAIN me' = Producers /\ \A q \in Producers : ProducerFields(me'[q])
      BY <1>14, DieIs, OneTyped DEF Steps, Takes
    <2> QED BY <1>14, <2>1, DieIs DEF TypeOK, Die
  <1>15. ASSUME NEW p \in Producers, NEW w \in Words, CopyIn(p, w) PROVE TypeOK'
    <2>1. DOMAIN me' = Producers /\ \A q \in Producers : ProducerFields(me'[q])
      BY <1>15, CopyInIs, OneTyped
    <2> QED BY <1>15, <2>1, CopyInIs DEF TypeOK, CopyIn
  <1>16. ASSUME NEW layout \in {"same", "other"}, Attach(layout) PROVE TypeOK'
    BY <1>16, UsedIs DEF TypeOK, Attach, Validate
  <1>17. CASE HelperDies
    BY <1>17, UsedIs, NotDrainingIs DEF TypeOK, HelperDies
  <1>18. CASE Drain
    <2>1. ConsumerFields(c') /\ session' \in Stats /\ delivered' \in [Events -> Nat]
      <3>1. CASE DrainAll \/ DrainNext
        BY <3>1, DrainAllIs DEF TypeOK
      <3>2. CASE LoadHeader \/ LoadV1 \/ CheckGeneration
        BY <3>2, LoadHeaderIs, LoadV1Is, CheckIs DEF TypeOK
      <3>3. CASE \E w \in Words : CopyOut(w)
        BY <3>3, CopyOutIs DEF TypeOK
      <3>4. CASE LoadV2 \/ WriteBack
        BY <3>4, LoadV2Is, WriteBackIs DEF TypeOK
      <3> QED BY <1>18, <3>1, <3>2, <3>3, <3>4 DEF Drain
    <2>2. DOMAIN hdr' = Rings /\ \A r \in Rings : HeaderFields(hdr'[r])
      <3>1. CASE WriteBack
        <4>1. c.ring \in Rings
          BY DEF TypeOK, ConsumerFields
        <4> QED BY <3>1, <4>1, WriteBackIs, OneTyped DEF Counters
      <3>2. CASE ~WriteBack
        <4>1. UNCHANGED hdr
          BY <1>18, <3>2 DEF Drain, DrainAll, LoadHeader, LoadV1, CopyOut, LoadV2,
             CheckGeneration, DrainNext
        <4> QED BY <4>1 DEF TypeOK
      <3> QED BY <3>1, <3>2
    <2> QED BY <1>18, <2>1, <2>2 DEF TypeOK, Drain
  <1>19. CASE Tick
    BY <1>19 DEF TypeOK, Tick
  <1>20. CASE UNCHANGED vars
    BY <1>20 DEF TypeOK, vars, ConsumerFields, UsedFields
  <1> QED BY <1>1, <1>2, <1>3, <1>4, <1>5, <1>6, <1>7, <1>8, <1>9, <1>10, <1>11, <1>12, <1>13,
             <1>14, <1>15, <1>16, <1>17, <1>18, <1>19, <1>20 DEF Next, Continue

----------------------------------------------------------------------------
(* The registry.                                                              *)
LEMMA InitRegistered == Init => Registered
  BY Constants DEF Init, Registered, Looking

\* A step of a call that leaves the registry as it is.
LEMMA RegistrySame ==
    ASSUME TypeOK, Registered, NEW p \in Producers, Others(p),
           \A r \in Rings : hdr'[r].owner = hdr[r].owner,
           \A r \in Rings : hdr[r].owner = p => me'[p].ring = r,
           me'[p].pc \in Looking => me'[p].ring = NoRing
    PROVE  Registered'
  BY DEF Registered, Others

\* Taking a ring that nobody has, or that is taken over from another thread.
LEMMA RegistryTake ==
    ASSUME TypeOK, Registered, NEW p \in Producers, NEW r \in Rings, Takes(p, r),
           me[p].ring = NoRing
    PROVE  Registered'
  <1>1. \A s \in Rings : hdr[s].owner # p
    BY Constants DEF Registered
  <1> QED BY <1>1 DEF Registered, Takes, Others, Looking

\* Every step keeps the registry consistent.
LEMMA RegisteredStep == TypeOK /\ Registered /\ [Next]_vars => Registered'
  <1> SUFFICES ASSUME TypeOK, Registered, [Next]_vars PROVE Registered'
    OBVIOUS
  <1>1. ASSUME NEW p \in Producers, Claim(p) PROVE Registered'
    <2>1. UNCHANGED hdr
      BY <1>1, Frame
    <2>2. Others(p) /\ (me'[p].pc \in Looking => me'[p].ring = NoRing)
      BY <1>1, ClaimIs DEF Registered, Looking
    <2>3. \A r \in Rings : hdr[r].owner = p => me'[p].ring = r
      BY <1>1, ClaimIs DEF Registered
    <2> QED BY <2>1, <2>2, <2>3, RegistrySame
  <1>2. ASSUME NEW p \in Producers, ScanRing(p) PROVE Registered'
    <2>1. UNCHANGED hdr
      BY <1>2, Frame
    <2>2. Others(p) /\ (me'[p].pc \in Looking => me'[p].ring = NoRing)
      BY <1>2, ScanIs DEF Registered, Looking
    <2>3. \A r \in Rings : hdr[r].owner = p => me'[p].ring = r
      BY <1>2, ScanIs DEF Registered
    <2> QED BY <2>1, <2>2, <2>3, RegistrySame
  <1>3. ASSUME NEW p \in Producers, Steal(p) PROVE Registered'
    <2>1. UNCHANGED hdr
      BY <1>3, Frame
    <2>2. Others(p) /\ (me'[p].pc \in Looking => me'[p].ring = NoRing)
      BY <1>3, StealIs DEF Registered, Looking
    <2>3. \A r \in Rings : hdr[r].owner = p => me'[p].ring = r
      BY <1>3, StealIs DEF Registered
    <2> QED BY <2>1, <2>2, <2>3, RegistrySame
  <1>4. ASSUME NEW p \in Producers, LoadPublished(p) PROVE Registered'
    <2>1. UNCHANGED hdr
      BY <1>4, Frame
    <2>2. Others(p) /\ (me'[p].pc \in Looking => me'[p].ring = NoRing)
      BY <1>4, LoadIs DEF Registered, Looking
    <2>3. \A r \in Rings : hdr[r].owner = p => me'[p].ring = r
      BY <1>4, LoadIs DEF Registered
    <2> QED BY <2>1, <2>2, <2>3, RegistrySame
  <1>5. ASSUME NEW p \in Producers, Publish(p) PROVE Registered'
    <2>1. UNCHANGED hdr
      BY <1>5, Frame
    <2>2. Others(p) /\ (me'[p].pc \in Looking => me'[p].ring = NoRing)
      BY <1>5, PublishIs DEF Registered, Looking
    <2>3. \A r \in Rings : hdr[r].owner = p => me'[p].ring = r
      <3>1. me'[p].ring = me[p].ring \/ hdr[me[p].ring].owner # p
        BY <1>5, PublishIs
      <3>2. \A r \in Rings : hdr[r].owner = p => me[p].ring = r
        BY DEF Registered
      <3> QED BY <3>1, <3>2
    <2> QED BY <2>1, <2>2, <2>3, RegistrySame
  <1>6. ASSUME NEW p \in Producers, Invalidate(p) PROVE Registered'
    <2>1. UNCHANGED hdr
      BY <1>6, Frame
    <2>2. Others(p) /\ (me'[p].pc \in Looking => me'[p].ring = NoRing)
      BY <1>6, InvalidateIs DEF Registered, Looking
    <2>3. \A r \in Rings : hdr[r].owner = p => me'[p].ring = r
      BY <1>6, InvalidateIs DEF Registered
    <2> QED BY <2>1, <2>2, <2>3, RegistrySame
  <1>7. ASSUME NEW p \in Producers, StoreVersion(p) PROVE Registered'
    <2>1. UNCHANGED hdr
      BY <1>7, Frame
    <2>2. Others(p) /\ (me'[p].pc \in Looking => me'[p].ring = NoRing)
      BY <1>7, StoreVersionIs DEF Registered, Looking, Steps
    <2>3. \A r \in Rings : hdr[r].owner = p => me'[p].ring = r
      BY <1>7, StoreVersionIs DEF Registered, Steps
    <2> QED BY <2>1, <2>2, <2>3, RegistrySame
  <1>8. ASSUME NEW p \in Producers, Die(p) PROVE Registered'
    <2>1. UNCHANGED hdr
      BY <1>8, Frame
    <2>2. Others(p) /\ (me'[p].pc \in Looking => me'[p].ring = NoRing)
      BY <1>8, DieIs DEF Registered, Looking, Steps
    <2>3. \A r \in Rings : hdr[r].owner = p => me'[p].ring = r
      BY <1>8, DieIs DEF Registered, Steps
    <2> QED BY <2>1, <2>2, <2>3, RegistrySame
  <1>9. ASSUME NEW p \in Producers, NEW w \in Words, CopyIn(p, w) PROVE Registered'
    <2>1. UNCHANGED hdr
      BY <1>9, Frame
    <2>2. Others(p) /\ (me'[p].pc \in Looking => me'[p].ring = NoRing)
      BY <1>9, CopyInIs DEF Registered, Looking
    <2>3. \A r \in Rings : hdr[r].owner = p => me'[p].ring = r
      BY <1>9, CopyInIs DEF Registered
    <2> QED BY <2>1, <2>2, <2>3, RegistrySame
  <1>10. ASSUME NEW p \in Producers, BeginGeneration(p) PROVE Registered'
    <2>1. \A r \in Rings : hdr'[r].owner = hdr[r].owner
      BY <1>10, BeginIs DEF Counters
    <2>2. Others(p) /\ me'[p].pc \notin Looking /\ me'[p].ring = me[p].ring
      BY <1>10, BeginIs DEF Looking, Steps
    <2> QED BY <2>1, <2>2, RegistrySame DEF Registered
  <1>11. ASSUME NEW p \in Producers, Advance(p) PROVE Registered'
    <2>1. \A r \in Rings : hdr'[r].owner = hdr[r].owner
      BY <1>11, AdvanceIs DEF Counters
    <2>2. Others(p) /\ me'[p].pc \notin Looking /\ me'[p].ring = me[p].ring
      BY <1>11, AdvanceIs DEF Looking, Steps
    <2> QED BY <2>1, <2>2, RegistrySame DEF Registered
  <1>12. ASSUME NEW p \in Producers, Touch(p) PROVE Registered'
    <2>1. \A r \in Rings : hdr'[r].owner = hdr[r].owner
      BY <1>12, TouchIs DEF Counters
    <2>2. Others(p) /\ me'[p].pc \notin Looking /\ me'[p].ring = me[p].ring
      BY <1>12, TouchIs DEF Looking, Steps
    <2> QED BY <2>1, <2>2, RegistrySame DEF Registered
  <1>13. ASSUME NEW p \in Producers, Release(p) PROVE Registered'
    <2>1. PICK r \in Rings : r = me[p].ring
      BY <1>13, ReleaseIs
    <2>2. Others(p) /\ me'[p].pc = "idle" /\ me'[p].ring = NoRing
      BY <1>13, ReleaseIs
    <2>3. /\ \A s \in Rings \ {r} : hdr'[s] = hdr[s]
          /\ hdr'[r].owner = IF hdr[r].owner = p THEN NoOwner ELSE hdr[r].owner
      BY <1>13, <2>1, ReleaseIs
    <2>4. \A s \in Rings : hdr'[s].owner # p
      BY <2>1, <2>3, Constants DEF Registered
    <2>5. \A s \in Rings, q \in Producers \ {p} : hdr'[s].owner = q => hdr[s].owner = q
      BY <2>3, Constants
    <2> QED BY <2>2, <2>4, <2>5 DEF Registered, Others, Looking
  <1>14. ASSUME NEW p \in Producers, ClaimCas(p) PROVE Registered'
    <2>1. me[p].ring = NoRing
      BY <1>14, ClaimCasIs DEF Registered, Looking
    <2> QED BY <1>14, <2>1, ClaimCasIs, RegistryTake, RegistrySame DEF Registered
  <1>15. ASSUME NEW p \in Producers, StealCas(p) PROVE Registered'
    <2>1. me[p].ring = NoRing
      BY <1>15, StealCasIs DEF Registered, Looking
    <2> QED BY <1>15, <2>1, StealCasIs, RegistryTake, RegistrySame DEF Registered, Steps
  <1>16. CASE Drain
    <2>1. \A r \in Rings : hdr'[r].owner = hdr[r].owner
      <3>1. CASE WriteBack
        BY <3>1, WriteBackIs DEF Counters, TypeOK, ConsumerFields
      <3>2. CASE ~WriteBack
        BY <1>16, <3>2, HelperFrame
      <3> QED BY <3>1, <3>2
    <2>2. UNCHANGED me
      BY <1>16, HelperFrame
    <2> QED BY <2>1, <2>2 DEF Registered
  <1>17. CASE HelperDies \/ Tick \/ (\E layout \in {"same", "other"} : Attach(layout))
                \/ UNCHANGED vars
    <2>1. UNCHANGED <<hdr, me>>
      BY <1>17, HelperFrame DEF vars
    <2> QED BY <2>1 DEF Registered
  <1> QED BY <1>1, <1>2, <1>3, <1>4, <1>5, <1>6, <1>7, <1>8, <1>9, <1>10, <1>11, <1>12, <1>13,
             <1>14, <1>15, <1>16, <1>17 DEF Next, Continue

\* The registry gives a thread one ring at most.
LEMMA OneRing == Registered => OneRingPerThread
  <1> SUFFICES ASSUME Registered, NEW p \in Producers
               PROVE  Cardinality({r \in Rings : hdr[r].owner = p}) <= 1
    BY DEF OneRingPerThread
  <1> DEFINE S == {r \in Rings : hdr[r].owner = p}
  <1>1. S = {} \/ \E r \in Rings : S = {r}
    BY DEF Registered
  <1>2. Cardinality({}) = 0 /\ \A r : Cardinality({r}) = 1
    BY FS_EmptySet, FS_Singleton
  <1> HIDE DEF S
  <1>3. Cardinality(S) <= 1
    <2>1. CASE S = {}
      BY <1>2, <2>1
    <2>2. ASSUME NEW r \in Rings, S = {r} PROVE Cardinality(S) = 1
      BY <1>2, <2>2
    <2> QED BY <1>1, <2>1, <2>2
  <1> QED BY <1>3 DEF S

\* OneRingPerThread, in every situation: "the registry gives a thread one ring
\* at most", whatever is taken over, re-claimed or lost in between.
THEOREM SpecOneRing == Spec => []OneRingPerThread
  <1>1. Init => TypeOK /\ Registered
    BY InitType, InitRegistered
  <1>2. TypeOK /\ Registered /\ [Next]_vars => (TypeOK /\ Registered)'
    BY TypeStep, RegisteredStep
  <1> QED BY <1>1, <1>2, OneRing, PTL DEF Spec

----------------------------------------------------------------------------
(* Rings that are not taken over: the owner is in step with its ring.         *)
LEMMA InitSteady == Init => AllSteady
  BY Constants DEF Init, AllSteady, Steady, Owning, InStep, Numbering, Marking, Storing, Has,
     Writing,
     Holding, Resetting, Looking

\* What another thread's step does not touch: the rings that are registered to q.
Spares(q) ==
    \A s \in Rings :
        /\ hdr[s].owner = q => /\ hdr'[s].owner = q /\ hdr'[s].writeSeq = hdr[s].writeSeq
                               /\ version'[s] = version[s] /\ event'[s] = event[s]
        /\ hdr[s].owner # q => hdr'[s].owner # q

\* A thread is steady after another one's step.
LEMMA SteadyKept ==
    ASSUME TypeOK, NEW q \in Producers, Steady(q), me'[q] = me[q], Spares(q)
    PROVE  Steady(q)'
  <1>0. me[q].pc \in Holding => Has(q)
    BY DEF Steady, Owning
  <1>1. Has(q)' <=> Has(q)
    BY DEF Has, Spares
  <1>2. Owning(q)'
    BY <1>1 DEF Steady, Owning
  <1>3. InStep(q)'
    BY <1>0, <1>1 DEF Steady, InStep, Writing, Holding, Resetting, Has, Spares
  <1>4. Numbering(q)'
    BY DEF Steady, Numbering
  <1>5. Marking(q)'
    BY <1>0 DEF Steady, Marking, Holding, Has, Spares, Slot, Next1
  <1>6. Storing(q)'
    BY <1>0 DEF Steady, Storing, Holding, Has, Spares, Slot
  <1> QED BY <1>2, <1>3, <1>4, <1>5, <1>6 DEF Steady

\* The thread that steps, and the others.
LEMMA SteadyAll ==
    ASSUME TypeOK, AllSteady, NEW p \in Producers, Others(p), Steady(p)',
           \A q \in Producers \ {p} : Spares(q)
    PROVE  AllSteady'
  <1>1. ASSUME NEW q \in Producers \ {p} PROVE Steady(q)'
    BY SteadyKept DEF Others, AllSteady
  <1> QED BY <1>1 DEF AllSteady

\* A thread with no record under way keeps no promise about a slot.
LEMMA SteadyIdle ==
    ASSUME TypeOK, NEW p \in Producers, Owning(p)', InStep(p)', Numbering(p)',
           me'[p].pc \notin {"copy", "version", "advance"}
    PROVE  Steady(p)'
  BY DEF Steady, Marking, Storing

\* The situation is chosen once.
LEMMA SetupStays == [Next]_vars => UNCHANGED setup
  <1> SUFFICES ASSUME [Next]_vars PROVE UNCHANGED setup
    OBVIOUS
  <1>1. ASSUME NEW p \in Producers,
               Claim(p) \/ Release(p) \/ Publish(p) \/ Continue(p) \/ Die(p)
        PROVE  UNCHANGED setup
    BY <1>1, Frame DEF Continue
  <1>2. CASE (\E layout \in {"same", "other"} : Attach(layout)) \/ HelperDies \/ Drain \/ Tick
    BY <1>2, HelperFrame
  <1>3. CASE UNCHANGED vars
    BY <1>3 DEF vars
  <1> QED BY <1>1, <1>2, <1>3 DEF Next

\* Every step leaves every thread steady.
LEMMA SteadyStep ==
    ASSUME TypeOK, Registered, setup.stale = 0, AllSteady, [Next]_vars
    PROVE  AllSteady'
  <1> USE DEF AllSteady
  <1>1. ASSUME NEW p \in Producers, Claim(p) PROVE AllSteady'
    <2>0. UNCHANGED <<hdr, version, event>> /\ Others(p)
      BY <1>1, Frame, ClaimIs DEF Steps
    <2>1. Owning(p)'
      BY <1>1, <2>0, ClaimIs DEF Steady, Owning, Has, Holding, Resetting
    <2>2. InStep(p)'
      BY <1>1, <2>0, ClaimIs, Constants DEF Steady, Owning, InStep, Has, Writing, Holding,
         Resetting, Looking
    <2>3. Numbering(p)'
      BY <1>1, ClaimIs DEF Steady, Numbering, Looking, Resetting
    <2>4. me'[p].pc \notin {"copy", "version", "advance"}
      BY <1>1, ClaimIs DEF Steps
    <2> QED BY <2>0, <2>1, <2>2, <2>3, <2>4, SteadyIdle, SteadyAll DEF Spares
  <1>2. ASSUME NEW p \in Producers, ScanRing(p) PROVE AllSteady'
    <2>0. UNCHANGED <<hdr, version, event>> /\ Others(p)
      BY <1>2, Frame, ScanIs DEF Steps
    <2>1. Owning(p)'
      BY <1>2, <2>0, ScanIs DEF Registered, Steady, Owning, Has, Holding, Resetting
    <2>2. InStep(p)'
      BY <1>2, <2>0, ScanIs, Constants DEF Registered, Steady, Owning, InStep, Has, Writing,
         Holding, Resetting, Looking
    <2>3. Numbering(p)'
      BY <1>2, ScanIs DEF Registered, Steady, Numbering, Looking, Resetting
    <2>4. me'[p].pc \notin {"copy", "version", "advance"}
      BY <1>2, ScanIs DEF Steps
    <2> QED BY <2>0, <2>1, <2>2, <2>3, <2>4, SteadyIdle, SteadyAll DEF Spares
  <1>3. ASSUME NEW p \in Producers, LoadPublished(p) PROVE AllSteady'
    <2>0. UNCHANGED <<hdr, version, event>> /\ Others(p)
      BY <1>3, Frame, LoadIs DEF Steps
    <2>1. Owning(p)'
      BY <1>3, <2>0, LoadIs DEF Steady, Owning, Has, Holding, Resetting
    <2>2. InStep(p)'
      BY <1>3, <2>0, LoadIs, Constants DEF Steady, Owning, InStep, Has, Writing, Holding,
         Resetting, Looking
    <2>3. Numbering(p)'
      BY <1>3, LoadIs, Constants DEF Steady, Numbering, Looking, Resetting, TypeOK, UsedFields
    <2>4. me'[p].pc \notin {"copy", "version", "advance"}
      BY <1>3, LoadIs DEF Steps
    <2> QED BY <2>0, <2>1, <2>2, <2>3, <2>4, SteadyIdle, SteadyAll DEF Spares
  <1>4. ASSUME NEW p \in Producers, Die(p) PROVE AllSteady'
    <2>0. UNCHANGED <<hdr, version, event>> /\ Others(p)
      BY <1>4, Frame, DieIs DEF Steps
    <2>1. Owning(p)'
      BY <1>4, <2>0, DieIs DEF Steps, Steady, Owning, Has, Holding, Resetting
    <2>2. InStep(p)'
      BY <1>4, <2>0, DieIs, Constants DEF Steps, Steady, Owning, InStep, Has, Writing, Holding,
         Resetting, Looking
    <2>3. Numbering(p)'
      BY <1>4, DieIs DEF Steps, Steady, Numbering, Looking, Resetting
    <2>4. me'[p].pc \notin {"copy", "version", "advance"}
      BY <1>4, DieIs DEF Steps
    <2> QED BY <2>0, <2>1, <2>2, <2>3, <2>4, SteadyIdle, SteadyAll DEF Spares
  <1>5. ASSUME NEW p \in Producers, Publish(p) PROVE AllSteady'
    <2>0. UNCHANGED <<hdr, version, event>> /\ Others(p) /\ me[p].pc = "idle"
          /\ me'[p].published = me[p].published
      BY <1>5, Frame, PublishIs
    <2>1. me'[p].record # 0
      <3>1. used.events \in Nat
        BY Constants DEF TypeOK, UsedFields
      <3>2. me'[p].record = used.events + 1
        BY <1>5, PublishIs
      <3> QED BY <3>1, <3>2
    <2>2. \/ /\ me'[p].pc = "invalidate" /\ Has(p) /\ me'[p].ring = me[p].ring
             /\ me'[p].stale = me[p].stale
          \/ me'[p].pc = "scan" /\ me'[p].ring = NoRing /\ me'[p].stale = NoRing
      BY <1>5, PublishIs DEF Has
    <2>3. Owning(p)'
      BY <2>0, <2>2 DEF Steady, Owning, Has, Holding, Resetting
    <2>4. InStep(p)'
      BY <2>0, <2>2 DEF Steady, InStep, Has, Writing
    <2>5. Numbering(p)'
      BY <2>1 DEF Numbering
    <2> QED BY <2>0, <2>2, <2>3, <2>4, <2>5, SteadyIdle, SteadyAll DEF Spares
  <1>6. ASSUME NEW p \in Producers, Steal(p) \/ StealCas(p) PROVE AllSteady'
    BY <1>6, StealIs, StealCasIs DEF Steady, Owning
  <1>7. ASSUME NEW p \in Producers, ClaimCas(p) PROVE AllSteady'
    <2>0. UNCHANGED <<version, event>> /\ me[p].stale = NoRing /\ me[p].ring = NoRing
      BY <1>7, Frame, ClaimCasIs DEF Steady, Owning, Registered, Looking
    <2>1. CASE \E r \in Rings : Takes(p, r) /\ hdr[r].owner = NoOwner
      <3>1. PICK r \in Rings : Takes(p, r) /\ hdr[r].owner = NoOwner
        BY <2>1
      <3>2. Owning(p)'
        BY <2>0, <3>1 DEF Takes, Steady, Owning, Has, Holding, Resetting
      <3>3. InStep(p)'
        BY <3>1 DEF Takes, InStep, Writing
      <3>4. Numbering(p)'
        BY <1>7, <3>1, ClaimCasIs DEF Takes, Steady, Numbering, Looking, Resetting
      <3>5. \A q \in Producers \ {p} : Spares(q)
        BY <2>0, <3>1, Constants DEF Takes, Spares
      <3> QED BY <3>1, <3>2, <3>3, <3>4, <3>5, SteadyIdle, SteadyAll DEF Takes
    <2>2. CASE ~(\E r \in Rings : Takes(p, r) /\ hdr[r].owner = NoOwner)
      <3>0. UNCHANGED hdr /\ Others(p) /\ me'[p].pc \in {"scan", "idle"} /\ me'[p].ring = NoRing
        BY <1>7, <2>0, <2>2, ClaimCasIs
      <3>1. Owning(p)'
        BY <1>7, <2>0, <2>2, <3>0, ClaimCasIs DEF Steady, Owning, Has, Holding, Resetting
      <3>2. InStep(p)'
        BY <3>0, Constants DEF Steady, Owning, InStep, Has, Writing, Holding, Resetting, Looking
      <3>3. Numbering(p)'
        BY <1>7, <2>2, <3>0, ClaimCasIs DEF Steady, Numbering, Looking, Resetting
      <3> QED BY <2>0, <3>0, <3>1, <3>2, <3>3, SteadyIdle, SteadyAll DEF Spares
    <2> QED BY <2>1, <2>2
  <1>8. ASSUME NEW p \in Producers, BeginGeneration(p) PROVE AllSteady'
    <2>0. UNCHANGED <<version, event>> /\ Others(p) /\ me[p].pc \in Resetting
          /\ me[p].ring \in Rings /\ hdr[me[p].ring].owner = p
      BY <1>8, Frame, BeginIs DEF Steady, Owning, Has, Holding, Resetting, Steps
    <2>1. PICK r \in Rings : r = me[p].ring
      BY <2>0
    <2>2. /\ me'[p].pc \in {"readSeq", "rest", "generation", "published"}
          /\ me'[p].ring = r /\ me'[p].stale = me[p].stale /\ me'[p].record = me[p].record
          /\ me'[p].resume = me[p].resume
      BY <1>8, <2>1, BeginIs DEF Steps
    <2>3. \A s \in Rings \ {r} : hdr'[s] = hdr[s]
      BY <1>8, <2>1, BeginIs DEF Counters
    <2>4. hdr'[r].owner = p /\ hdr'[r].writeSeq = 0
      BY <1>8, <2>0, <2>1, BeginIs DEF Steady, InStep, Counters
    <2>5. Owning(p)'
      BY <2>2, <2>4 DEF Steady, Owning, Has, Holding, Resetting
    <2>6. InStep(p)'
      BY <2>2, <2>4 DEF Steady, Owning, InStep, Has, Writing, Holding, Resetting, Looking
    <2>7. Numbering(p)'
      BY <2>0, <2>2 DEF Steady, Numbering, Looking, Resetting
    <2>8. \A q \in Producers \ {p} : Spares(q)
      BY <2>0, <2>1, <2>3, <2>4 DEF Spares
    <2> QED BY <2>0, <2>2, <2>5, <2>6, <2>7, <2>8, SteadyIdle, SteadyAll
  <1>9. ASSUME NEW p \in Producers, Release(p) PROVE AllSteady'
    <2>0. UNCHANGED <<version, event>> /\ Others(p) /\ me'[p].pc = "idle" /\ me'[p].ring = NoRing
          /\ me'[p].stale = me[p].stale
      BY <1>9, Frame, ReleaseIs
    <2>1. Owning(p)'
      BY <2>0 DEF Steady, Owning, Has, Holding, Resetting
    <2>2. InStep(p)' /\ Numbering(p)'
      BY <2>0, Constants DEF InStep, Numbering, Has, Writing, Looking, Resetting
    <2>3. PICK r \in Rings : r = me[p].ring
      BY <1>9, ReleaseIs
    <2>4. /\ \A s \in Rings \ {r} : hdr'[s] = hdr[s]
          /\ hdr'[r].owner = IF hdr[r].owner = p THEN NoOwner ELSE hdr[r].owner
          /\ hdr'[r].writeSeq = hdr[r].writeSeq
      BY <1>9, <2>3, ReleaseIs
    <2>5. \A q \in Producers \ {p} : Spares(q)
      BY <2>0, <2>4, Constants DEF Spares
    <2> QED BY <2>0, <2>1, <2>2, <2>5, SteadyIdle, SteadyAll
  <1>10. ASSUME NEW p \in Producers, Invalidate(p) PROVE AllSteady'
    <2>0. UNCHANGED <<hdr, event>> /\ Others(p) /\ Has(p) /\ me'[p].ring = me[p].ring
          /\ me'[p].published = me[p].published /\ me'[p].record = me[p].record
          /\ me'[p].stale = me[p].stale /\ me[p].ring \in Rings
      BY <1>10, Frame, InvalidateIs DEF Steady, Owning, Holding, Steps
    <2>1. Owning(p)'
      BY <1>10, <2>0, InvalidateIs DEF Steady, Owning, Has, Steps
    <2>2. InStep(p)' /\ Numbering(p)'
      BY <1>10, <2>0, InvalidateIs DEF Steady, InStep, Numbering, Writing, Looking, Resetting, Steps
    <2>3. Marking(p)'
      BY <1>10, <2>0, InvalidateIs, InvalidateMarks DEF Marking, Slot, Next1, Steps
    <2>4. Storing(p)'
      BY <1>10, <2>0, InvalidateIs DEF Steady, Storing, Slot, Steps
    <2>5. \A q \in Producers \ {p} : Spares(q)
      BY <1>10, <2>0, InvalidateIs DEF Spares, Has
    <2> QED BY <2>0, <2>1, <2>2, <2>3, <2>4, <2>5, SteadyAll DEF Steady
  <1>11. ASSUME NEW p \in Producers, StoreVersion(p) PROVE AllSteady'
    <2>0. UNCHANGED <<hdr, event>> /\ Others(p) /\ Has(p) /\ me'[p].ring = me[p].ring
          /\ me'[p].published = me[p].published /\ me'[p].record = me[p].record
          /\ me'[p].stale = me[p].stale /\ me[p].ring \in Rings
      BY <1>11, Frame, StoreVersionIs DEF Steady, Owning, Holding, Steps
    <2>1. Owning(p)'
      BY <1>11, <2>0, StoreVersionIs DEF Steady, Owning, Has, Steps
    <2>2. InStep(p)' /\ Numbering(p)'
      BY <1>11, <2>0, StoreVersionIs DEF Steady, InStep, Numbering, Writing, Looking, Resetting,
         Steps
    <2>3. Marking(p)'
      BY <1>11, <2>0, StoreVersionIs, StoreVersionMarks DEF Marking, Slot, Next1, Steps
    <2>4. Storing(p)'
      BY <1>11, <2>0, StoreVersionIs DEF Steady, Storing, Slot, Steps
    <2>5. \A q \in Producers \ {p} : Spares(q)
      BY <1>11, <2>0, StoreVersionIs DEF Spares, Has
    <2> QED BY <2>0, <2>1, <2>2, <2>3, <2>4, <2>5, SteadyAll DEF Steady
  <1>12. ASSUME NEW p \in Producers, NEW w \in Words, CopyIn(p, w) PROVE AllSteady'
    <2>0. UNCHANGED <<hdr, version>> /\ Others(p) /\ Has(p) /\ me'[p].ring = me[p].ring
          /\ me'[p].published = me[p].published /\ me'[p].record = me[p].record
          /\ me'[p].stale = me[p].stale /\ me[p].ring \in Rings
      BY <1>12, Frame, CopyInIs DEF Steady, Owning, Holding
    <2>1. Owning(p)'
      BY <1>12, <2>0, CopyInIs DEF Steady, Owning, Has
    <2>2. InStep(p)' /\ Numbering(p)'
      BY <1>12, <2>0, CopyInIs DEF Steady, InStep, Numbering, Writing, Looking, Resetting
    <2>3. Marking(p)'
      BY <1>12, <2>0, CopyInIs DEF Steady, Marking, Slot, Next1
    <2>4. Storing(p)'
      <3>1. \A x \in Words \ (me[p].left \ {w}) : event'[me[p].ring][Slot(p)][x] = me[p].record
        BY <1>12, CopyInIs DEF Steady, Storing
      <3> QED BY <1>12, <2>0, <3>1, CopyInIs DEF Storing, Slot
    <2>5. \A q \in Producers \ {p} : Spares(q)
      BY <1>12, <2>0, CopyInIs DEF Spares, Has
    <2> QED BY <2>0, <2>1, <2>2, <2>3, <2>4, <2>5, SteadyAll DEF Steady
  <1>13. ASSUME NEW p \in Producers, Advance(p) PROVE AllSteady'
    <2>0. UNCHANGED <<version, event>> /\ Others(p) /\ Has(p) /\ me'[p].ring = me[p].ring
          /\ me'[p].published = Next1(p) /\ me'[p].pc \in {"touch", "idle"}
          /\ me'[p].stale = me[p].stale /\ me[p].ring \in Rings
      BY <1>13, Frame, AdvanceIs DEF Steady, Owning, Holding
    <2>1. /\ \A s \in Rings \ {me[p].ring} : hdr'[s] = hdr[s]
          /\ hdr'[me[p].ring].owner = p /\ hdr'[me[p].ring].writeSeq = Next1(p)
      BY <1>13, <2>0, AdvanceIs DEF Counters, Has
    <2>2. Owning(p)'
      BY <2>0, <2>1 DEF Steady, Owning, Has
    <2>3. InStep(p)' /\ Numbering(p)'
      BY <2>0, <2>1 DEF InStep, Numbering, Writing, Looking, Resetting
    <2>4. \A q \in Producers \ {p} : Spares(q)
      BY <2>0, <2>1 DEF Spares, Has
    <2> QED BY <2>0, <2>2, <2>3, <2>4, SteadyIdle, SteadyAll
  <1>14. ASSUME NEW p \in Producers, Touch(p) PROVE AllSteady'
    <2>0. UNCHANGED <<version, event>> /\ Steps(p, "idle") /\ Has(p) /\ me[p].pc = "touch"
          /\ me[p].ring \in Rings
      BY <1>14, Frame, TouchIs DEF Steady, Owning, Holding
    <2>1. /\ \A s \in Rings \ {me[p].ring} : hdr'[s] = hdr[s]
          /\ hdr'[me[p].ring].owner = p /\ hdr'[me[p].ring].writeSeq = hdr[me[p].ring].writeSeq
      BY <1>14, <2>0, TouchIs DEF Counters, Has
    <2>2. Owning(p)'
      BY <2>0, <2>1 DEF Steady, Owning, Has, Steps
    <2>3. InStep(p)' /\ Numbering(p)'
      BY <2>0, <2>1 DEF Steady, InStep, Numbering, Writing, Looking, Resetting, Steps
    <2>4. \A q \in Producers \ {p} : Spares(q)
      BY <2>0, <2>1 DEF Spares, Has
    <2> QED BY <2>0, <2>2, <2>3, <2>4, SteadyIdle, SteadyAll DEF Steps
  <1>15. CASE Drain
    <2>1. \A q \in Producers : Spares(q)
      <3>1. CASE WriteBack
        BY <1>15, <3>1, WriteBackIs, HelperFrame DEF Counters, TypeOK, ConsumerFields, Spares
      <3>2. CASE ~WriteBack
        BY <1>15, <3>2, HelperFrame DEF Spares
      <3> QED BY <3>1, <3>2
    <2> QED BY <1>15, <2>1, HelperFrame, SteadyKept
  <1>16. CASE HelperDies \/ Tick \/ (\E layout \in {"same", "other"} : Attach(layout))
                \/ UNCHANGED vars
    <2>1. UNCHANGED <<hdr, version, event, me>>
      BY <1>16, HelperFrame DEF vars
    <2> QED BY <2>1, SteadyKept DEF Spares
  <1> QED BY <1>1, <1>2, <1>3, <1>4, <1>5, <1>6, <1>7, <1>8, <1>9, <1>10, <1>11, <1>12, <1>13,
             <1>14, <1>15, <1>16 DEF Next, Continue


----------------------------------------------------------------------------
(* Records are whole, and what a drain copies in one generation is one of     *)
(* them.                                                                      *)

\* All steps but the three of Publish that store into a slot.
LEMMA SlotsStay ==
    ASSUME [Next]_vars,
           ~ \E p \in Producers : \/ Invalidate(p) \/ StoreVersion(p)
                                  \/ \E w \in Words : CopyIn(p, w)
    PROVE  UNCHANGED <<version, event>>
  <1>1. ASSUME NEW p \in Producers,
               Claim(p) \/ Release(p) \/ Publish(p) \/ Continue(p) \/ Die(p)
        PROVE  UNCHANGED <<version, event>>
    BY <1>1, Frame DEF Continue
  <1>2. CASE (\E layout \in {"same", "other"} : Attach(layout)) \/ HelperDies \/ Drain \/ Tick
    BY <1>2, HelperFrame
  <1>3. CASE UNCHANGED vars
    BY <1>3 DEF vars
  <1> QED BY <1>1, <1>2, <1>3 DEF Next

\* Every step leaves complete slots whole.
LEMMA WholeStep ==
    ASSUME TypeOK, AllSteady, AllWhole, [Next]_vars
    PROVE  AllWhole'
  <1>1. ASSUME NEW p \in Producers, Invalidate(p) PROVE AllWhole'
    <2>0. UNCHANGED event
      BY <1>1, Frame
    <2>1. ASSUME NEW r \in Rings, NEW i \in Cells PROVE WholeCell(r, i)'
      <3>1. CASE r = me[p].ring /\ i = Slot(p)
        <4>1. version'[r][i] = [seq |-> Next1(p), writing |-> TRUE]
          BY <1>1, <3>1, InvalidateMarks
        <4> QED BY <4>1 DEF WholeCell
      <3>2. CASE ~(r = me[p].ring /\ i = Slot(p))
        <4>1. version'[r][i] = version[r][i]
          BY <1>1, <3>2, InvalidateIs
        <4> QED BY <2>0, <4>1 DEF AllWhole, WholeCell
      <3> QED BY <3>1, <3>2
    <2> QED BY <2>1 DEF AllWhole
  <1>2. ASSUME NEW p \in Producers, NEW w \in Words, CopyIn(p, w) PROVE AllWhole'
    <2>0. UNCHANGED version
      BY <1>2, Frame
    <2>1. ASSUME NEW r \in Rings, NEW i \in Cells PROVE WholeCell(r, i)'
      <3>1. CASE r = me[p].ring /\ i = Slot(p)
        <4>1. version[r][i] = [seq |-> Next1(p), writing |-> TRUE]
          BY <1>2, <3>1, CopyInIs DEF AllSteady, Steady, Marking
        <4> QED BY <2>0, <4>1 DEF WholeCell
      <3>2. CASE ~(r = me[p].ring /\ i = Slot(p))
        <4>1. event'[r][i] = event[r][i]
          BY <1>2, <3>2, CopyInIs
        <4> QED BY <2>0, <4>1 DEF AllWhole, WholeCell
      <3> QED BY <3>1, <3>2
    <2> QED BY <2>1 DEF AllWhole
  <1>3. ASSUME NEW p \in Producers, StoreVersion(p) PROVE AllWhole'
    <2>0. UNCHANGED event
      BY <1>3, Frame
    <2>1. ASSUME NEW r \in Rings, NEW i \in Cells PROVE WholeCell(r, i)'
      <3>1. CASE r = me[p].ring /\ i = Slot(p)
        <4>1. event[r][i]["head"] = me[p].record /\ event[r][i]["tail"] = me[p].record
              /\ me[p].record # 0
          BY <1>3, <3>1, StoreVersionIs DEF AllSteady, Steady, Storing, Numbering, Words
        <4> QED BY <2>0, <4>1 DEF WholeCell
      <3>2. CASE ~(r = me[p].ring /\ i = Slot(p))
        <4>1. version'[r][i] = version[r][i]
          BY <1>3, <3>2, StoreVersionIs
        <4> QED BY <2>0, <4>1 DEF AllWhole, WholeCell
      <3> QED BY <3>1, <3>2
    <2> QED BY <2>1 DEF AllWhole
  <1>4. CASE UNCHANGED <<version, event>>
    BY <1>4 DEF AllWhole, WholeCell
  <1> QED BY <1>1, <1>2, <1>3, <1>4, SlotsStay

\* A step of a thread that leaves the slots alone: no generation goes back, and
\* what was published in a generation stays published in it, or the ring is
\* being reset.
LEMMA DrainingKept ==
    ASSUME TypeOK, Draining, UNCHANGED <<c, version, event>>, TypeOK',
           hdr'[c.ring].generation >= hdr[c.ring].generation,
           hdr'[c.ring].generation = hdr[c.ring].generation =>
             /\ Stopped(c.ring) => Stopped(c.ring)'
             /\ hdr[c.ring].writeSeq <= hdr'[c.ring].writeSeq \/ Stopped(c.ring)'
    PROVE  Draining'
  <1>0. c.ring \in Rings /\ c.expect \in Nat /\ c.generation \in Nat
    BY DEF TypeOK, ConsumerFields
  <1>1. /\ hdr[c.ring].generation \in Nat /\ hdr'[c.ring].generation \in Nat
        /\ hdr[c.ring].writeSeq \in Nat /\ hdr'[c.ring].writeSeq \in Nat
    BY <1>0 DEF TypeOK, HeaderFields
  <1>2. NotNewer'
    BY <1>0, <1>1 DEF Draining, NotNewer
  <1>3. c.pc \in {"v1", "copy", "v2"} /\ Current' => Current
    BY <1>0, <1>1 DEF Draining, NotNewer, Current
  <1>4. Within'
    BY <1>0, <1>1, <1>3 DEF Draining, Within, Current
  <1>5. Seen'
    BY DEF Draining, Seen
  <1>6. Copied'
    BY <1>3 DEF Draining, Copied, Accepts
  <1> QED BY <1>2, <1>4, <1>5, <1>6 DEF Draining

\* A ring that is being reset stays so as long as its owner takes no step.
LEMMA StoppedKept ==
    ASSUME TypeOK, NEW r \in Rings, NEW p \in Producers, Others(p), Stopped(r),
           \A q \in Producers : hdr[r].owner = q => hdr'[r].owner = q,
           hdr[r].owner = p /\ me[p].pc \in Halted => me'[p].pc \in Halted
    PROVE  Stopped(r)'
  BY DEF Stopped, Others

(* The same for a store into the slot of p: what a drain looks at there is    *)
(* refused by the second load of the version.                                 *)
LEMMA SlotStored ==
    ASSUME TypeOK, Draining, UNCHANGED <<c, hdr>>, NEW p \in Producers, Others(p),
           me[p].pc \notin Halted, me[p].ring \in Rings, Slot(p) \in Cells,
           \A r \in Rings \ {me[p].ring} : version'[r] = version[r] /\ event'[r] = event[r],
           \A i \in Cells \ {Slot(p)} : /\ version'[me[p].ring][i] = version[me[p].ring][i]
                                        /\ event'[me[p].ring][i] = event[me[p].ring][i],
           c.pc \in {"copy", "v2"} /\ Current /\ c.ring = me[p].ring
             /\ SlotAt(c.expect) = Slot(p) => ~Accepts'
    PROVE  Draining'
  <1>0. c.ring \in Rings /\ SlotAt(c.expect) \in Cells
    BY SlotInCells DEF TypeOK, ConsumerFields
  <1>1. Stopped(c.ring) => Stopped(c.ring)'
    BY <1>0, StoppedKept
  <1>2. NotNewer' /\ Within' /\ Seen'
    BY <1>1 DEF Draining, NotNewer, Within, Seen, Current
  <1>3. Copied'
    <2> SUFFICES ASSUME c.pc \in {"copy", "v2"}, Current, Accepts'
                 PROVE  \A w \in Words \ c.left : c.copy[w] = event'[c.ring][SlotAt(c.expect)][w]
      BY DEF Copied, Current
    <2>1. ~(c.ring = me[p].ring /\ SlotAt(c.expect) = Slot(p))
      OBVIOUS
    <2>2. /\ version'[c.ring][SlotAt(c.expect)] = version[c.ring][SlotAt(c.expect)]
          /\ event'[c.ring][SlotAt(c.expect)] = event[c.ring][SlotAt(c.expect)]
      BY <1>0, <2>1
    <2>3. Accepts
      BY <2>2 DEF Accepts
    <2> QED BY <2>2, <2>3 DEF Draining, Copied
  <1> QED BY <1>2, <1>3 DEF Draining

\* The drain's own steps.
LEMMA DrainStep ==
    ASSUME TypeOK, AllWhole, Draining, Drain, TypeOK'
    PROVE  Draining'
  <1>0. UNCHANGED <<version, event, me>>
    BY HelperFrame
  <1>1. CASE DrainAll \/ DrainNext
    BY <1>1, DrainAllIs DEF Draining, NotNewer, Within, Seen, Copied
  <1>2. CASE LoadHeader
    <2>0. UNCHANGED hdr /\ c'.ring = c.ring
      BY <1>2, LoadHeaderIs DEF Moves
    <2>1. NotNewer'
      BY <1>2, <2>0, LoadHeaderIs DEF Draining, NotNewer, Moves, TypeOK, HeaderFields,
         ConsumerFields
    <2>2. Within'
      BY <1>2, <2>0, LoadHeaderIs DEF Within, Moves, TypeOK, HeaderFields, ConsumerFields
    <2>3. Seen' /\ Copied'
      BY <1>2, LoadHeaderIs DEF Seen, Copied, Moves
    <2> QED BY <2>1, <2>2, <2>3 DEF Draining
  <1>3. CASE LoadV1
    <2>0. UNCHANGED hdr /\ c'.ring = c.ring /\ c'.generation = c.generation /\ c.pc = "v1"
      BY <1>3, LoadV1Is
    <2>1. NotNewer'
      BY <2>0 DEF Draining, NotNewer
    <2>2. Within'
      BY <1>0, <1>3, <2>0, LoadV1Is DEF Draining, Within, Current, Stopped
    <2>3. Seen' /\ Copied'
      BY <1>3, LoadV1Is DEF Seen, Copied
    <2> QED BY <2>1, <2>2, <2>3 DEF Draining
  <1>4. ASSUME NEW w \in Words, CopyOut(w) PROVE Draining'
    <2>0. UNCHANGED hdr /\ c'.ring = c.ring /\ c'.generation = c.generation /\ c.pc = "copy"
          /\ c'.expect = c.expect /\ c'.v1 = c.v1 /\ c'.pc \in {"copy", "v2"}
      BY <1>4, CopyOutIs
    <2>1. NotNewer'
      BY <2>0 DEF Draining, NotNewer
    <2>2. Within'
      BY <1>0, <2>0 DEF Draining, Within, Current, Stopped
    <2>3. Seen'
      BY <1>4, <2>0, CopyOutIs DEF Draining, Seen
    <2>4. Copied'
      <3> SUFFICES ASSUME Current, Accepts, NEW x \in Words, x \notin c'.left
                   PROVE  c'.copy[x] = event[c.ring][SlotAt(c.expect)][x]
        BY <1>0, <2>0 DEF Copied, Current, Accepts
      <3>1. CASE x = w
        BY <1>4, <3>1, CopyOutIs
      <3>2. CASE x # w
        BY <1>4, <2>0, <3>2, CopyOutIs DEF Draining, Copied
      <3> QED BY <3>1, <3>2
    <2> QED BY <2>1, <2>2, <2>3, <2>4 DEF Draining
  <1>5. CASE LoadV2 \/ CheckGeneration
    <2>0. UNCHANGED hdr /\ c'.ring = c.ring /\ c'.generation = c.generation
          /\ c.pc \in {"v2", "check"} /\ c'.pc \in {"writeSeq", "progress", "totals"}
      BY <1>5, LoadV2Is, CheckIs
    <2> QED BY <2>0 DEF Draining, NotNewer, Within, Seen, Copied
  <1>6. CASE WriteBack
    <2>0. c'.ring = c.ring /\ c'.generation = c.generation /\ c.ring \in Rings
          /\ c.pc \in {"progress", "drops"} /\ c'.pc \in {"drops", "totals"}
          /\ hdr'[c.ring].generation = hdr[c.ring].generation
      BY <1>6, WriteBackIs DEF Counters, TypeOK, ConsumerFields
    <2> QED BY <2>0 DEF Draining, NotNewer, Within, Seen, Copied
  <1> QED BY <1>1, <1>2, <1>3, <1>4, <1>5, <1>6 DEF Drain

\* Every step, while no stale ring is taken over.
LEMMA DrainingStep ==
    ASSUME TypeOK, Registered, setup.stale = 0, AllSteady, AllWhole, Draining, [Next]_vars
    PROVE  Draining'
  <1>t. TypeOK'
    BY TypeStep
  <1>r. c.ring \in Rings /\ hdr[c.ring].generation \in Nat /\ hdr[c.ring].writeSeq \in Nat
    BY DEF TypeOK, ConsumerFields, HeaderFields
  <1>1. ASSUME NEW p \in Producers, Claim(p) PROVE Draining'
    <2>1. UNCHANGED <<hdr, version, event, c>> /\ Others(p)
          /\ (me[p].pc \in Halted => me'[p].pc \in Halted)
      BY <1>1, Frame, ClaimIs DEF Halted
    <2>2. Stopped(c.ring) => Stopped(c.ring)'
      BY <1>r, <2>1, StoppedKept
    <2> QED BY <1>r, <1>t, <2>1, <2>2, DrainingKept
  <1>2. ASSUME NEW p \in Producers, ScanRing(p) PROVE Draining'
    <2>1. UNCHANGED <<hdr, version, event, c>> /\ Others(p)
          /\ (me[p].pc \in Halted => me'[p].pc \in Halted)
      BY <1>2, Frame, ScanIs DEF Halted
    <2>2. Stopped(c.ring) => Stopped(c.ring)'
      BY <1>r, <2>1, StoppedKept
    <2> QED BY <1>r, <1>t, <2>1, <2>2, DrainingKept
  <1>3. ASSUME NEW p \in Producers, Steal(p) PROVE Draining'
    <2>1. UNCHANGED <<hdr, version, event, c>> /\ Others(p)
          /\ (me[p].pc \in Halted => me'[p].pc \in Halted)
      BY <1>3, Frame, StealIs DEF Halted
    <2>2. Stopped(c.ring) => Stopped(c.ring)'
      BY <1>r, <2>1, StoppedKept
    <2> QED BY <1>r, <1>t, <2>1, <2>2, DrainingKept
  <1>4. ASSUME NEW p \in Producers, LoadPublished(p) PROVE Draining'
    <2>1. UNCHANGED <<hdr, version, event, c>> /\ Others(p)
          /\ (me[p].pc \in Halted => me'[p].pc \in Halted)
      BY <1>4, Frame, LoadIs DEF Halted
    <2>2. Stopped(c.ring) => Stopped(c.ring)'
      BY <1>r, <2>1, StoppedKept
    <2> QED BY <1>r, <1>t, <2>1, <2>2, DrainingKept
  <1>5. ASSUME NEW p \in Producers, Publish(p) PROVE Draining'
    <2>1. UNCHANGED <<hdr, version, event, c>> /\ Others(p)
          /\ (me[p].pc \in Halted => me'[p].pc \in Halted)
      BY <1>5, Frame, PublishIs DEF Halted
    <2>2. Stopped(c.ring) => Stopped(c.ring)'
      BY <1>r, <2>1, StoppedKept
    <2> QED BY <1>r, <1>t, <2>1, <2>2, DrainingKept
  <1>6. ASSUME NEW p \in Producers, Die(p) PROVE Draining'
    <2>1. UNCHANGED <<hdr, version, event, c>> /\ Others(p)
          /\ (me[p].pc \in Halted => me'[p].pc \in Halted)
      BY <1>6, Frame, DieIs DEF Halted, Steps
    <2>2. Stopped(c.ring) => Stopped(c.ring)'
      BY <1>r, <2>1, StoppedKept
    <2> QED BY <1>r, <1>t, <2>1, <2>2, DrainingKept
  <1>7. ASSUME NEW p \in Producers, ClaimCas(p) \/ StealCas(p) PROVE Draining'
    <2>0. ClaimCas(p) /\ UNCHANGED <<version, event, c>>
      BY <1>7, StealCasIs, Frame DEF AllSteady, Steady, Owning
    <2>1. /\ hdr'[c.ring].generation = hdr[c.ring].generation
          /\ hdr'[c.ring].writeSeq = hdr[c.ring].writeSeq
          /\ \A q \in Producers : hdr[c.ring].owner = q => hdr'[c.ring].owner = q
      BY <1>r, <2>0, ClaimCasIs, Constants DEF Takes
    <2>2. Others(p) /\ me[p].pc \notin Halted
      BY <2>0, ClaimCasIs DEF Takes, Halted
    <2>3. Stopped(c.ring) => Stopped(c.ring)'
      BY <1>r, <2>0, <2>1, <2>2, StoppedKept
    <2> QED BY <1>r, <1>t, <2>0, <2>1, <2>3, DrainingKept
  <1>8. ASSUME NEW p \in Producers, BeginGeneration(p) PROVE Draining'
    <2>0. UNCHANGED <<version, event, c>> /\ Others(p) /\ me[p].ring \in Rings
          /\ me[p].pc \in Resetting
      BY <1>8, BeginIs, Frame DEF Steps, Resetting
    <2>1. PICK r \in Rings : r = me[p].ring
      BY <2>0
    <2>2. /\ hdr[r].owner = p /\ hdr'[r].owner = p
          /\ \A s \in Rings \ {r} : hdr'[s] = hdr[s]
      BY <1>8, <2>0, <2>1, BeginIs DEF AllSteady, Steady, Owning, Has, Holding, Counters
    <2>3. CASE me[p].pc = "generation"
      <3>1. hdr'[r].generation = hdr[r].generation + 1
        BY <1>8, <2>1, <2>3, BeginIs DEF Counters
      <3>2. CASE c.ring = r
        BY <1>r, <1>t, <2>0, <3>1, <3>2, DrainingKept
      <3>3. CASE c.ring # r
        <4>1. hdr'[c.ring] = hdr[c.ring]
          BY <1>r, <2>2, <3>3
        <4>2. Stopped(c.ring) => Stopped(c.ring)'
          <5>1. hdr[c.ring].owner # p
            BY <1>r, <2>1, <3>3 DEF Registered
          <5> QED BY <1>r, <2>0, <4>1, <5>1, StoppedKept
        <4> QED BY <1>r, <1>t, <2>0, <4>1, <4>2, DrainingKept
      <3> QED BY <3>2, <3>3
    <2>4. CASE me[p].pc # "generation"
      <3>1. hdr'[r].generation = hdr[r].generation /\ me'[p].pc \in Halted
        BY <1>8, <2>1, <2>4, BeginIs DEF Counters, Steps, Halted
      <3>2. CASE c.ring = r
        <4>1. Stopped(c.ring)'
          BY <2>0, <2>2, <3>1, <3>2 DEF Stopped
        <4> QED BY <1>r, <1>t, <2>0, <3>1, <3>2, <4>1, DrainingKept
      <3>3. CASE c.ring # r
        <4>1. hdr'[c.ring] = hdr[c.ring]
          BY <1>r, <2>2, <3>3
        <4>2. Stopped(c.ring) => Stopped(c.ring)'
          BY <1>r, <2>0, <3>1, <4>1, StoppedKept
        <4> QED BY <1>r, <1>t, <2>0, <4>1, <4>2, DrainingKept
      <3> QED BY <3>2, <3>3
    <2> QED BY <2>3, <2>4
  <1>9. ASSUME NEW p \in Producers, Release(p) PROVE Draining'
    <2>0. UNCHANGED <<version, event, c>> /\ Others(p) /\ me[p].pc = "idle"
      BY <1>9, ReleaseIs, Frame
    <2>1. /\ hdr'[c.ring].generation = hdr[c.ring].generation
          /\ hdr'[c.ring].writeSeq = hdr[c.ring].writeSeq
          /\ hdr[c.ring].owner # p => hdr'[c.ring].owner = hdr[c.ring].owner
      BY <1>9, <1>r, ReleaseIs
    <2>2. Stopped(c.ring) => Stopped(c.ring)'
      BY <2>0, <2>1 DEF Stopped, Others, Halted
    <2> QED BY <1>r, <1>t, <2>0, <2>1, <2>2, DrainingKept
  <1>10. ASSUME NEW p \in Producers, Advance(p) PROVE Draining'
    <2>0. UNCHANGED <<version, event, c>> /\ Others(p) /\ me[p].pc \notin Halted
          /\ me[p].ring \in Rings
      BY <1>10, AdvanceIs, Frame DEF Halted
    <2>1. /\ hdr'[c.ring].owner = hdr[c.ring].owner
          /\ hdr'[c.ring].generation = hdr[c.ring].generation
      BY <1>10, <1>r, AdvanceIs DEF Counters
    <2>2. hdr[c.ring].writeSeq <= hdr'[c.ring].writeSeq
      <3>1. CASE c.ring = me[p].ring
        <4>1. hdr[c.ring].writeSeq = me[p].published
          BY <1>10, <3>1, AdvanceIs DEF AllSteady, Steady, InStep, Writing
        <4>2. hdr'[c.ring].writeSeq = me[p].published + 1
          BY <1>10, <3>1, AdvanceIs DEF Counters, Next1
        <4> QED BY <1>r, <4>1, <4>2
      <3>2. CASE c.ring # me[p].ring
        BY <1>10, <1>r, <3>2, AdvanceIs DEF Counters
      <3> QED BY <3>1, <3>2
    <2>3. Stopped(c.ring) => Stopped(c.ring)'
      BY <1>r, <2>0, <2>1, StoppedKept
    <2> QED BY <1>r, <1>t, <2>0, <2>1, <2>2, <2>3, DrainingKept
  <1>11. ASSUME NEW p \in Producers, Touch(p) PROVE Draining'
    <2>0. UNCHANGED <<version, event, c>> /\ Others(p) /\ me[p].pc \notin Halted
          /\ me[p].ring \in Rings
      BY <1>11, TouchIs, Frame DEF Halted, Steps
    <2>1. /\ hdr'[c.ring].owner = hdr[c.ring].owner
          /\ hdr'[c.ring].generation = hdr[c.ring].generation
          /\ hdr'[c.ring].writeSeq = hdr[c.ring].writeSeq
      BY <1>11, <1>r, TouchIs DEF Counters
    <2>2. Stopped(c.ring) => Stopped(c.ring)'
      BY <1>r, <2>0, <2>1, StoppedKept
    <2> QED BY <1>r, <1>t, <2>0, <2>1, <2>2, DrainingKept
  <1>12. ASSUME NEW p \in Producers, Invalidate(p) PROVE Draining'
    <2>0. UNCHANGED <<hdr, event, c>> /\ Others(p) /\ me[p].pc \notin Halted
          /\ me[p].ring \in Rings /\ Slot(p) \in Cells
      BY <1>12, InvalidateIs, Frame DEF Halted
    <2>1. /\ \A r \in Rings \ {me[p].ring} : version'[r] = version[r]
          /\ \A i \in Cells \ {Slot(p)} : version'[me[p].ring][i] = version[me[p].ring][i]
      BY <1>12, InvalidateIs
    <2>3. version'[me[p].ring][Slot(p)] = [seq |-> Next1(p), writing |-> TRUE]
      BY <1>12, InvalidateMarks
    <2>4. version'[me[p].ring][Slot(p)].writing
      BY <2>3
    <2>2. c.pc \in {"copy", "v2"} => ~c.v1.writing
      BY DEF Draining, Seen
    <2> QED BY <2>0, <2>1, <2>2, <2>4, SlotStored DEF Accepts
  <1>13. ASSUME NEW p \in Producers, NEW w \in Words, CopyIn(p, w) PROVE Draining'
    <2>0. UNCHANGED <<hdr, version, c>> /\ Others(p) /\ me[p].pc \notin Halted
          /\ me[p].ring \in Rings /\ Slot(p) \in Cells
      BY <1>13, CopyInIs, Frame DEF Halted
    <2>1. /\ \A r \in Rings \ {me[p].ring} : event'[r] = event[r]
          /\ \A i \in Cells \ {Slot(p)} : event'[me[p].ring][i] = event[me[p].ring][i]
      BY <1>13, CopyInIs
    <2>2. version[me[p].ring][Slot(p)].writing
      <3>1. version[me[p].ring][Slot(p)] = [seq |-> Next1(p), writing |-> TRUE]
        BY <1>13, CopyInIs DEF AllSteady, Steady, Marking
      <3> QED BY <3>1
    <2>3. c.pc \in {"copy", "v2"} => ~c.v1.writing
      BY DEF Draining, Seen
    <2> QED BY <2>0, <2>1, <2>2, <2>3, SlotStored DEF Accepts
  <1>14. ASSUME NEW p \in Producers, StoreVersion(p) PROVE Draining'
    <2>0. UNCHANGED <<hdr, event, c>> /\ Others(p) /\ me[p].pc = "version"
          /\ me[p].ring \in Rings /\ Slot(p) \in Cells /\ me[p].pc \notin Halted
      BY <1>14, StoreVersionIs, Frame DEF Halted, Steps
    <2>1. /\ \A r \in Rings \ {me[p].ring} : version'[r] = version[r]
          /\ \A i \in Cells \ {Slot(p)} : version'[me[p].ring][i] = version[me[p].ring][i]
      BY <1>14, StoreVersionIs
    <2>3. version'[me[p].ring][Slot(p)] = [seq |-> Next1(p), writing |-> FALSE]
      BY <1>14, StoreVersionMarks
    <2>4. version'[me[p].ring][Slot(p)].seq = Next1(p)
      BY <2>3
    <2>2. ASSUME c.pc \in {"copy", "v2"}, Current, c.ring = me[p].ring,
                 SlotAt(c.expect) = Slot(p), Accepts'
          PROVE  FALSE
      <3>1. c.expect = Next1(p)
        BY <2>0, <2>4, <2>2 DEF Accepts, Draining, Seen
      <3>2. hdr[c.ring].writeSeq = me[p].published /\ hdr[c.ring].owner = p
        BY <2>0, <2>2 DEF AllSteady, Steady, InStep, Owning, Has, Writing, Holding
      <3>3. ~Stopped(c.ring)
        BY <2>0, <3>2 DEF Stopped
      <3>4. c.expect <= hdr[c.ring].writeSeq
        BY <2>2, <3>3 DEF Draining, Within
      <3> QED BY <1>r, <3>1, <3>2, <3>4 DEF Next1
    <2> QED BY <2>0, <2>1, <2>2, SlotStored
  <1>15. CASE Drain
    BY <1>15, <1>t, DrainStep
  <1>16. CASE HelperDies
    <2>1. c'.pc = "idle"
      BY <1>16, HelperFrame, NotDrainingIs
    <2> QED BY <2>1 DEF Draining, NotNewer, Within, Seen, Copied
  <1>17. CASE Tick \/ (\E layout \in {"same", "other"} : Attach(layout)) \/ UNCHANGED vars
    <2>1. UNCHANGED <<hdr, version, event, me, c>>
      BY <1>17, HelperFrame DEF vars
    <2>2. Stopped(c.ring) => Stopped(c.ring)'
      BY <2>1 DEF Stopped
    <2> QED BY <1>r, <1>t, <2>1, <2>2, DrainingKept
  <1> QED BY <1>1, <1>2, <1>3, <1>4, <1>5, <1>6, <1>7, <1>8, <1>9, <1>10, <1>11, <1>12, <1>13,
             <1>14, <1>15, <1>16, <1>17 DEF Next, Continue

\* The beginning.
LEMMA InitWhole == Init => AllWhole /\ Draining
  BY DEF Init, AllWhole, WholeCell, NoVersion, Draining, NotNewer, Within, Seen, Copied,
     NotDraining

\* An accepted copy of the ring's own generation is one whole record.
LEMMA AcceptedIsWhole ==
    ASSUME TypeOK, AllWhole, Draining, c.pc = "v2", Accepts, Current
    PROVE  /\ Whole
           /\ c.copy["head"] = event[c.ring][SlotAt(c.expect)]["head"]
           /\ Looked = [seq |-> c.expect, writing |-> FALSE]
  <1>0. c.ring \in Rings /\ SlotAt(c.expect) \in Cells /\ c.expect \in Nat \ {0}
    BY SlotInCells DEF TypeOK, ConsumerFields
  <1>1. Looked = [seq |-> c.expect, writing |-> FALSE]
    BY DEF Looked, Accepts, Draining, Seen
  <1>2. event[c.ring][SlotAt(c.expect)]["head"] = event[c.ring][SlotAt(c.expect)]["tail"]
        /\ event[c.ring][SlotAt(c.expect)]["head"] # 0
    BY <1>0, <1>1 DEF AllWhole, WholeCell, Looked
  <1>3. \A w \in Words : c.copy[w] = event[c.ring][SlotAt(c.expect)][w]
    BY DEF Draining, Copied, Seen
  <1> QED BY <1>1, <1>2, <1>3 DEF Whole, Words

\* The invariant of rings that are not taken over.
SteadyRings == /\ TypeOK /\ Registered
               /\ setup.stale = 0 => SteadyInv

\* It is inductive.
LEMMA SteadyRingsInvariant ==
    /\ Init => SteadyRings
    /\ SteadyRings /\ [Next]_vars => SteadyRings'
  <1>1. Init => SteadyRings
    BY InitType, InitRegistered, InitSteady, InitWhole DEF SteadyRings, SteadyInv
  <1>2. ASSUME SteadyRings, [Next]_vars PROVE SteadyRings'
    <2>1. TypeOK /\ Registered /\ TypeOK' /\ Registered'
      BY <1>2, TypeStep, RegisteredStep DEF SteadyRings
    <2>2. UNCHANGED setup
      BY <1>2, SetupStays
    <2>3. ASSUME setup.stale = 0 PROVE SteadyInv'
      <3>1. AllSteady /\ AllWhole /\ Draining
        BY <1>2, <2>3 DEF SteadyRings, SteadyInv
      <3>2. AllSteady'
        BY <1>2, <2>1, <2>3, <3>1, SteadyStep
      <3>3. AllWhole'
        BY <1>2, <2>1, <3>1, WholeStep
      <3>4. Draining'
        BY <1>2, <2>1, <2>3, <3>1, DrainingStep
      <3> QED BY <3>2, <3>3, <3>4 DEF SteadyInv
    <2> QED BY <2>1, <2>2, <2>3 DEF SteadyRings
  <1> QED BY <1>1, <1>2

\* WriterOwnsRing: whoever is past Publish's ownership check owns the ring it
\* writes, as long as rings change hands by Release and Claim only.
THEOREM SpecWriterOwns == Spec => []WriterOwnsRing
  <1>1. SteadyRings => WriterOwnsRing
    BY DEF SteadyRings, SteadyInv, WriterOwnsRing, AllSteady, Steady, Owning, Has, Writing, Holding
  <1> QED BY <1>1, SteadyRingsInvariant, PTL DEF Spec

\* NoTornInGeneration, for rings that are not taken over: a copy that the second
\* load of the version accepts in the generation the drain began with is one
\* whole record, also when the ring changes hands by Release and Claim.
THEOREM SpecNoTorn == Spec => [](setup.stale = 0 => NoTornInGeneration)
  <1>1. SteadyRings => (setup.stale = 0 => NoTornInGeneration)
    BY AcceptedIsWhole DEF SteadyRings, SteadyInv, NoTornInGeneration, Current
  <1> QED BY <1>1, SteadyRingsInvariant, PTL DEF Spec

----------------------------------------------------------------------------
(* Every record has a number of its own and is written into one slot.         *)
LEMMA InitNumbered == Init => Numbered
  BY Constants DEF Init, Numbered, Numbers, Fresh, Distinct, OwnSlot, Apart, Pending, Looking,
     Resetting

\* A thread's record is told from the others by Pending and Mine only.
Records(q) == /\ me'[q].record = me[q].record
              /\ Pending(q)' => Pending(q)
              /\ \A r \in Rings, i \in Cells : Mine(q, r, i) => Mine(q, r, i)' \/ ~Pending(q)'

\* A thread whose locals stay keeps its record.
LEMMA SameRecords ==
    ASSUME NEW q \in Producers, me'[q] = me[q]
    PROVE  /\ me'[q].record = me[q].record /\ (Pending(q)' <=> Pending(q))
           /\ \A r \in Rings, i \in Cells : Mine(q, r, i) <=> Mine(q, r, i)'
  BY DEF Pending, Mine, Slot

\* A step that stores no record and delivers none.
LEMMA NumberedKept ==
    ASSUME TypeOK, Numbered, UNCHANGED <<event, delivered>>, used'.events = used.events,
           \A q \in Producers : Records(q)
    PROVE  Numbered'
  BY DEF Numbered, Numbers, Fresh, Distinct, OwnSlot, Apart, Records

\* A step of p that keeps its record, or ends it.
LEMMA NumberedByOne ==
    ASSUME TypeOK, Numbered, UNCHANGED <<event, delivered>>, used'.events = used.events,
           NEW p \in Producers, Others(p), Records(p)
    PROVE  Numbered'
  <1>1. ASSUME NEW q \in Producers PROVE Records(q)
    BY SameRecords DEF Others, Records
  <1> QED BY <1>1, NumberedKept

\* The store of one word.
LEMMA NumberedCopyIn ==
    ASSUME TypeOK, AllSteady, Numbered, NEW p \in Producers, NEW w \in Words, CopyIn(p, w)
    PROVE  Numbered'
  <1>0. /\ UNCHANGED <<delivered, used>> /\ Others(p) /\ Pending(p) /\ me[p].pc = "copy"
        /\ me[p].record # 0 /\ me'[p].record = me[p].record
      BY CopyInIs, Frame DEF Pending, AllSteady, Steady, Numbering
  <1>1. PICK R \in Rings, I \in Cells : R = me[p].ring /\ I = Slot(p)
    BY CopyInIs
  <1>2. /\ event'[R][I][w] = me[p].record
        /\ \A r \in Rings, i \in Cells, x \in Words :
             r # R \/ i # I \/ x # w => event'[r][i][x] = event[r][i][x]
    BY <1>1, CopyInIs
  <1>3. Mine(p, R, I)' /\ Pending(p)'
        /\ \A r \in Rings, i \in Cells : Mine(p, r, i) => r = R /\ i = I
    BY <1>1, CopyInIs DEF Mine, Pending, Slot
  <1>4. \A q \in Producers : me'[q].record = me[q].record /\ (Pending(q)' => Pending(q))
    BY <1>0, SameRecords DEF Others
  <1>5. Numbers' /\ Fresh' /\ Distinct'
    <2>1. me[p].record <= used.events
      BY <1>0 DEF Numbered, Numbers
    <2>2. \A r \in Rings, i \in Cells, x \in Words : event'[r][i][x] <= used.events
      BY <1>2, <2>1 DEF Numbered, Numbers
    <2> QED BY <1>0, <1>4, <2>2 DEF Numbered, Numbers, Fresh, Distinct
  <1>6. OwnSlot'
    <2> SUFFICES ASSUME NEW q \in Producers, NEW r \in Rings, NEW i \in Cells, NEW x \in Words,
                        Pending(q), event'[r][i][x] = me[q].record
                 PROVE  Mine(q, r, i)'
      BY <1>4 DEF OwnSlot
    <2>1. CASE r = R /\ i = I /\ x = w
      BY <1>0, <1>2, <1>3, <2>1 DEF Numbered, Distinct
    <2>2. CASE ~(r = R /\ i = I /\ x = w)
      <3>1. Mine(q, r, i)
        BY <1>2, <2>2 DEF Numbered, OwnSlot
      <3>2. CASE q = p
        BY <1>3, <3>1, <3>2
      <3>3. CASE q # p
        BY <1>0, <3>1, <3>3, SameRecords DEF Others
      <3> QED BY <3>2, <3>3
    <2> QED BY <2>1, <2>2
  <1>7. Apart'
    <2>1. \A r \in Rings, i \in Cells, x \in Words : event[r][i][x] = me[p].record => r = R /\ i = I
      BY <1>0, <1>3 DEF Numbered, OwnSlot
    <2> SUFFICES ASSUME NEW r \in Rings, NEW s \in Rings, NEW i \in Cells, NEW j \in Cells,
                        NEW v \in Words, NEW x \in Words,
                        event'[r][i][v] = event'[s][j][x], event'[r][i][v] # 0
                 PROVE  r = s /\ i = j
      BY DEF Apart
    <2>2. CASE (r = R /\ i = I /\ v = w) /\ ~(s = R /\ j = I /\ x = w)
      <3>1. event[s][j][x] = me[p].record
        BY <1>2, <2>2
      <3> QED BY <2>1, <2>2, <3>1
    <2>3. CASE ~(r = R /\ i = I /\ v = w) /\ (s = R /\ j = I /\ x = w)
      <3>1. event[r][i][v] = me[p].record
        BY <1>2, <2>3
      <3> QED BY <2>1, <2>3, <3>1
    <2>4. CASE ~(r = R /\ i = I /\ v = w) /\ ~(s = R /\ j = I /\ x = w)
      <3>1. event'[r][i][v] = event[r][i][v] /\ event'[s][j][x] = event[s][j][x]
        BY <1>2, <2>4
      <3>2. event[r][i][v] = event[s][j][x] /\ event[r][i][v] # 0
        BY <3>1
      <3>3. Apart
        BY DEF Numbered
      <3> QED BY <3>2, <3>3 DEF Apart
    <2>5. CASE (r = R /\ i = I /\ v = w) /\ (s = R /\ j = I /\ x = w)
      BY <2>5
    <2> QED BY <2>2, <2>3, <2>4, <2>5
  <1> QED BY <1>5, <1>6, <1>7 DEF Numbered

\* The next record's number is new.
LEMMA NumberedPublish ==
    ASSUME TypeOK, Numbered, NEW p \in Producers, Publish(p)
    PROVE  Numbered'
  <1>0. UNCHANGED <<event, delivered>> /\ Others(p)
    BY PublishIs, Frame
  <1>1. PICK e \in Nat : e = used.events /\ me'[p].record = e + 1 /\ used'.events = e + 1
                         /\ e + 1 \in Events
    <2>1. used.events \in Nat
      BY Constants DEF TypeOK, UsedFields
    <2>2. me'[p].record \in Events
      BY PublishIs DEF ProducerFields
    <2>3. me'[p].record = used.events + 1 /\ used'.events = used.events + 1
      BY PublishIs
    <2> QED BY <2>1, <2>2, <2>3
  <1>2. \A q \in Producers \ {p} : me'[q].record = me[q].record /\ (Pending(q)' <=> Pending(q))
          /\ \A r \in Rings, i \in Cells : Mine(q, r, i) <=> Mine(q, r, i)'
    BY <1>0, SameRecords DEF Others
  <1>3. /\ \A r \in Rings, i \in Cells, w \in Words :
             event[r][i][w] \in Nat /\ event[r][i][w] <= e
        /\ \A x \in Events : x \in Nat /\ delivered[x] \in Nat /\ (delivered[x] > 0 => x <= e)
        /\ \A q \in Producers : me[q].record \in Nat /\ (Pending(q) => me[q].record <= e)
    <2>1. Numbers /\ used.events = e
      BY <1>1 DEF Numbered
    <2>2. \A r \in Rings, i \in Cells, w \in Words :
             event[r][i][w] \in Nat /\ event[r][i][w] <= e
      <3>1. \A r \in Rings, i \in Cells, w \in Words : event[r][i][w] \in Events
        BY DEF TypeOK
      <3> QED BY <2>1, <3>1, Constants DEF Numbers
    <2>3. \A x \in Events : x \in Nat /\ delivered[x] \in Nat /\ (delivered[x] > 0 => x <= e)
      BY <2>1, Constants DEF Numbers, TypeOK
    <2>4. \A q \in Producers : me[q].record \in Nat
      BY Constants DEF TypeOK, ProducerFields
    <2>5. \A q \in Producers : Pending(q) => me[q].record <= e
      BY <2>1 DEF Numbers
    <2> QED BY <2>2, <2>3, <2>4, <2>5
  <1>4. Numbers'
    <2>1. \A r \in Rings, i \in Cells, w \in Words : event[r][i][w] <= e + 1
      BY <1>3
    <2>2. \A x \in Events : delivered[x] > 0 => x <= e + 1
      BY <1>3
    <2>3. \A q \in Producers : Pending(q)' => me'[q].record <= e + 1
      BY <1>1, <1>2, <1>3
    <2> QED BY <1>0, <1>1, <2>1, <2>2, <2>3 DEF Numbers
  <1>5. Fresh'
    <2>1. delivered[e + 1] = 0
      BY <1>1, <1>3
    <2> QED BY <1>0, <1>1, <1>2, <2>1 DEF Numbered, Fresh
  <1>6. Distinct'
    <2>1. \A q \in Producers \ {p} : Pending(q) => me[q].record # e + 1
      BY <1>3
    <2> QED BY <1>1, <1>2, <2>1 DEF Numbered, Distinct
  <1>7. OwnSlot'
    <2>1. \A r \in Rings, i \in Cells, w \in Words : event[r][i][w] # e + 1
      BY <1>3
    <2> QED BY <1>0, <1>1, <1>2, <2>1 DEF Numbered, OwnSlot
  <1>8. Apart'
    BY <1>0 DEF Numbered, Apart
  <1> QED BY <1>4, <1>5, <1>6, <1>7, <1>8 DEF Numbered

\* A drain never looks at a slot whose record is not published yet: what it
\* accepts in its own generation is no thread's pending record.
LEMMA LookedIsPublished ==
    ASSUME TypeOK, AllSteady, Draining, NEW q \in Producers, Pending(q),
           c.pc \in {"v1", "copy", "v2"}, Current,
           Looked = [seq |-> c.expect, writing |-> FALSE]
    PROVE  ~Mine(q, c.ring, SlotAt(c.expect))
  <1> SUFFICES ASSUME Mine(q, c.ring, SlotAt(c.expect)) PROVE FALSE
    OBVIOUS
  <1>1. c.ring = me[q].ring /\ SlotAt(c.expect) = Slot(q)
        /\ me[q].pc \in {"copy", "version", "advance"}
    BY DEF Mine
  <1>2. Looked.seq = c.expect /\ ~Looked.writing
    OBVIOUS
  <1>3. me[q].pc = "advance"
    <2>1. me[q].pc \in {"copy", "version"} => Looked = [seq |-> Next1(q), writing |-> TRUE]
      BY <1>1 DEF AllSteady, Steady, Marking, Looked
    <2>2. me[q].pc \in {"copy", "version"} => Looked.writing
      BY <2>1
    <2> QED BY <1>1, <1>2, <2>2
  <1>4. c.expect = Next1(q)
    <2>1. Looked = [seq |-> Next1(q), writing |-> FALSE]
      BY <1>1, <1>3 DEF AllSteady, Steady, Marking, Looked
    <2> QED BY <1>2, <2>1
  <1>5. hdr[c.ring].writeSeq = me[q].published /\ hdr[c.ring].owner = q
    BY <1>1, <1>3 DEF AllSteady, Steady, InStep, Owning, Has, Writing, Holding
  <1>6. ~Stopped(c.ring)
    BY <1>3, <1>5 DEF Stopped, Halted
  <1>7. c.expect <= hdr[c.ring].writeSeq
    BY <1>6 DEF Draining, Within
  <1>8. me[q].published \in Nat
    BY DEF TypeOK, ProducerFields
  <1> QED BY <1>4, <1>5, <1>7, <1>8 DEF Next1

\* The delivery of a record.
LEMMA NumberedLoadV2 ==
    ASSUME TypeOK, AllSteady, AllWhole, Draining, Numbered, LoadV2,
           UNCHANGED <<version, event, me, used>>
    PROVE  Numbered'
  <1>1. CASE Accepts /\ Current
    <2>1. PICK h \in Events : h = c.copy["head"]
      BY DEF TypeOK, ConsumerFields, Words
    <2>2. c.pc = "v2" /\ \A e \in Events \ {h} : delivered'[e] = delivered[e]
      BY <2>1, LoadV2Is
    <2>3. /\ h = event[c.ring][SlotAt(c.expect)]["head"]
          /\ Looked = [seq |-> c.expect, writing |-> FALSE]
      BY <1>1, <2>1, <2>2, AcceptedIsWhole
    <2>4. c.ring \in Rings /\ SlotAt(c.expect) \in Cells /\ "head" \in Words
      BY SlotInCells DEF TypeOK, ConsumerFields, Words
    <2>5. h <= used.events
      BY <2>3, <2>4 DEF Numbered, Numbers
    <2>6. \A q \in Producers : Pending(q) => me[q].record # h /\ me[q].record \in Events
      <3>1. ASSUME NEW q \in Producers, Pending(q), me[q].record = h PROVE FALSE
        <4>1. Mine(q, c.ring, SlotAt(c.expect))
          BY <2>3, <2>4, <3>1 DEF Numbered, OwnSlot
        <4> QED BY <1>1, <2>2, <2>3, <3>1, <4>1, LookedIsPublished
      <3> QED BY <3>1 DEF TypeOK, ProducerFields
    <2>7. Numbers'
      BY <2>2, <2>5 DEF Numbered, Numbers, Pending
    <2>8. Fresh'
      BY <2>2, <2>6 DEF Numbered, Fresh, Pending
    <2>9. Distinct' /\ OwnSlot' /\ Apart'
      BY DEF Numbered, Distinct, OwnSlot, Apart, Pending, Mine, Slot
    <2> QED BY <2>7, <2>8, <2>9 DEF Numbered
  <1>2. CASE ~(Accepts /\ Current)
    <2>1. \A e \in Events : delivered'[e] = delivered[e]
      BY <1>2, LoadV2Is
    <2>2. UNCHANGED delivered
      BY <2>1, LoadV2Is DEF TypeOK
    <2> QED BY <2>2, NumberedKept, SameRecords DEF Records
  <1> QED BY <1>1, <1>2

\* Every step keeps the numbering.
LEMMA NumberedStep ==
    ASSUME TypeOK, Registered, setup.stale = 0, AllSteady, AllWhole, Draining, Numbered, [Next]_vars
    PROVE  Numbered'
  <1>1. ASSUME NEW p \in Producers, Claim(p) PROVE Numbered'
    <2>1. UNCHANGED <<event, delivered>> /\ used'.events = used.events /\ Others(p)
          /\ me'[p].record = me[p].record
      BY <1>1, ClaimIs, Frame, UsedIs DEF Claim
    <2>2. ~Pending(p)'
      BY <1>1, ClaimIs DEF Pending, Looking, Resetting, Steps
    <2> QED BY <2>1, <2>2, NumberedByOne DEF Records
  <1>2. ASSUME NEW p \in Producers, Release(p) PROVE Numbered'
    <2>1. UNCHANGED <<event, delivered>> /\ used'.events = used.events /\ Others(p)
          /\ me'[p].record = me[p].record
      BY <1>2, ReleaseIs, Frame DEF Steps
    <2>2. ~Pending(p)'
      BY <1>2, ReleaseIs DEF Pending, Looking, Resetting, Steps
    <2> QED BY <2>1, <2>2, NumberedByOne DEF Records
  <1>3. ASSUME NEW p \in Producers, Advance(p) PROVE Numbered'
    <2>1. UNCHANGED <<event, delivered>> /\ used'.events = used.events /\ Others(p)
          /\ me'[p].record = me[p].record
      BY <1>3, AdvanceIs, Frame DEF Steps
    <2>2. ~Pending(p)'
      BY <1>3, AdvanceIs DEF Pending, Looking, Resetting, Steps
    <2> QED BY <2>1, <2>2, NumberedByOne DEF Records
  <1>4. ASSUME NEW p \in Producers, Touch(p) PROVE Numbered'
    <2>1. UNCHANGED <<event, delivered>> /\ used'.events = used.events /\ Others(p)
          /\ me'[p].record = me[p].record
      BY <1>4, TouchIs, Frame DEF Steps
    <2>2. ~Pending(p)'
      BY <1>4, TouchIs DEF Pending, Looking, Resetting, Steps
    <2> QED BY <2>1, <2>2, NumberedByOne DEF Records
  <1>5. ASSUME NEW p \in Producers, Die(p) PROVE Numbered'
    <2>1. UNCHANGED <<event, delivered>> /\ used'.events = used.events /\ Others(p)
          /\ me'[p].record = me[p].record
      BY <1>5, DieIs, Frame DEF Steps
    <2>2. ~Pending(p)'
      BY <1>5, DieIs DEF Pending, Looking, Resetting, Steps
    <2> QED BY <2>1, <2>2, NumberedByOne DEF Records
  <1>6. ASSUME NEW p \in Producers, ScanRing(p) PROVE Numbered'
    <2>1. UNCHANGED <<event, delivered, used>> /\ Others(p) /\ me'[p].record = me[p].record
      BY <1>6, ScanIs, Frame DEF Steps, Takes
    <2>2. Pending(p)' => Pending(p)
      BY <1>6, ScanIs DEF Pending, Looking, Resetting, Steps, Takes
    <2>3. me[p].pc \notin {"copy", "version", "advance"}
      BY <1>6, ScanIs DEF Steps, Takes
    <2> QED BY <2>1, <2>2, <2>3, NumberedByOne DEF Records, Mine
  <1>7. ASSUME NEW p \in Producers, ClaimCas(p) PROVE Numbered'
    <2>1. UNCHANGED <<event, delivered, used>> /\ Others(p) /\ me'[p].record = me[p].record
      BY <1>7, ClaimCasIs, Frame DEF Steps, Takes
    <2>2. Pending(p)' => Pending(p)
      BY <1>7, ClaimCasIs DEF Pending, Looking, Resetting, Steps, Takes
    <2>3. me[p].pc \notin {"copy", "version", "advance"}
      BY <1>7, ClaimCasIs DEF Steps, Takes
    <2> QED BY <2>1, <2>2, <2>3, NumberedByOne DEF Records, Mine
  <1>8. ASSUME NEW p \in Producers, BeginGeneration(p) PROVE Numbered'
    <2>1. UNCHANGED <<event, delivered, used>> /\ Others(p) /\ me'[p].record = me[p].record
      BY <1>8, BeginIs, Frame DEF Steps, Takes
    <2>2. Pending(p)' => Pending(p)
      BY <1>8, BeginIs DEF Pending, Looking, Resetting, Steps, Takes
    <2>3. me[p].pc \notin {"copy", "version", "advance"}
      BY <1>8, BeginIs DEF Steps, Takes
    <2> QED BY <2>1, <2>2, <2>3, NumberedByOne DEF Records, Mine
  <1>9. ASSUME NEW p \in Producers, LoadPublished(p) PROVE Numbered'
    <2>1. UNCHANGED <<event, delivered, used>> /\ Others(p) /\ me'[p].record = me[p].record
      BY <1>9, LoadIs, Frame DEF Steps, Takes
    <2>2. Pending(p)' => Pending(p)
      BY <1>9, LoadIs DEF Pending, Looking, Resetting, Steps, Takes
    <2>3. me[p].pc \notin {"copy", "version", "advance"}
      BY <1>9, LoadIs DEF Steps, Takes
    <2> QED BY <2>1, <2>2, <2>3, NumberedByOne DEF Records, Mine
  <1>10. ASSUME NEW p \in Producers, Invalidate(p) PROVE Numbered'
    <2>1. UNCHANGED <<event, delivered, used>> /\ Others(p) /\ me'[p].record = me[p].record
      BY <1>10, InvalidateIs, Frame DEF Steps, Takes
    <2>2. Pending(p)' => Pending(p)
      BY <1>10, InvalidateIs DEF Pending, Looking, Resetting, Steps, Takes
    <2>3. me[p].pc \notin {"copy", "version", "advance"}
      BY <1>10, InvalidateIs DEF Steps, Takes
    <2> QED BY <2>1, <2>2, <2>3, NumberedByOne DEF Records, Mine
  <1>11. ASSUME NEW p \in Producers, Steal(p) \/ StealCas(p) PROVE Numbered'
    BY <1>11, StealIs, StealCasIs DEF AllSteady, Steady, Owning
  <1>12. ASSUME NEW p \in Producers, StoreVersion(p) PROVE Numbered'
    <2>1. UNCHANGED <<event, delivered, used>> /\ Others(p) /\ me'[p].record = me[p].record
      BY <1>12, StoreVersionIs, Frame DEF Steps
    <2>2. Pending(p)
      BY <1>12, StoreVersionIs DEF Pending
    <2>3. \A r \in Rings, i \in Cells : Mine(p, r, i) => Mine(p, r, i)'
      BY <1>12, StoreVersionIs DEF Mine, Slot, Steps
    <2> QED BY <2>1, <2>2, <2>3, NumberedByOne DEF Records
  <1>13. ASSUME NEW p \in Producers, NEW w \in Words, CopyIn(p, w) PROVE Numbered'
    BY <1>13, NumberedCopyIn
  <1>14. ASSUME NEW p \in Producers, Publish(p) PROVE Numbered'
    BY <1>14, NumberedPublish
  <1>15. CASE Drain
    <2>0. UNCHANGED <<version, event, me, used>>
      BY <1>15, HelperFrame
    <2>1. CASE LoadV2
      BY <2>0, <2>1, NumberedLoadV2
    <2>2. CASE ~LoadV2
      <3>1. UNCHANGED delivered
        BY <1>15, <2>2, HelperFrame
      <3> QED BY <2>0, <3>1, NumberedKept, SameRecords DEF Records
    <2> QED BY <2>1, <2>2
  <1>16. CASE HelperDies \/ Tick \/ (\E layout \in {"same", "other"} : Attach(layout))
                \/ UNCHANGED vars
    <2>1. UNCHANGED <<event, delivered, me>> /\ used'.events = used.events
      BY <1>16, HelperFrame, UsedIs DEF vars
    <2> QED BY <2>1, NumberedKept, SameRecords DEF Records
  <1> QED BY <1>1, <1>2, <1>3, <1>4, <1>5, <1>6, <1>7, <1>8, <1>9, <1>10, <1>11, <1>12, <1>13,
             <1>14, <1>15, <1>16 DEF Next, Continue

----------------------------------------------------------------------------
(* No drain hands a record to the sink twice: what is still to be drained was *)
(* never delivered.                                                           *)
LEMMA InitOnce == Init => Once
  <1> SUFFICES ASSUME Init PROVE Once
    OBVIOUS
  <1>1. DeliveredOnce
    BY DEF Init, DeliveredOnce
  <1>2. \A r \in Rings : Undelivered(r)
    BY DEF Init, Undelivered
  <1>3. Ahead /\ NextFresh
    BY DEF Init, Ahead, NextFresh, NotDraining
  <1> QED BY <1>1, <1>2, <1>3 DEF Once

\* Where a drain goes on is a record's number.
LEMMA CursorIsNat ==
    ASSUME TypeOK, NEW r \in Rings
    PROVE  Cursor(r) \in Nat /\ hdr[r].writeSeq \in Nat
  BY DEF TypeOK, HeaderFields, ConsumerFields, Cursor

\* Steps that change no counter of a ring.
LEMMA OnceSame ==
    ASSUME TypeOK, Once, UNCHANGED <<version, event, c, delivered>>,
           \A r \in Rings : /\ hdr'[r].writeSeq = hdr[r].writeSeq
                            /\ hdr'[r].readSeq = hdr[r].readSeq
                            /\ hdr'[r].generation = hdr[r].generation
    PROVE  Once'
  <1>0. c.ring \in Rings
    BY DEF TypeOK, ConsumerFields
  <1>1. DeliveredOnce'
    BY DEF Once, DeliveredOnce
  <1>2. ASSUME NEW r \in Rings PROVE Undelivered(r)'
    <2>1. Cursor(r)' = Cursor(r)
      BY <1>0 DEF Cursor, Current
    <2>2. \A s : (Complete(r, s)' <=> Complete(r, s)) /\ Head(r, s)' = Head(r, s)
      BY DEF Complete, Head
    <2> QED BY <2>1, <2>2 DEF Once, Undelivered
  <1>3. Ahead'
    BY <1>0 DEF Once, Ahead
  <1>4. NextFresh'
    BY <1>0 DEF Once, NextFresh, Current, Complete, Head
  <1> QED BY <1>1, <1>2, <1>3, <1>4 DEF Once

\* A ring that is being reset holds nothing to drain.
LEMMA OnceReset ==
    ASSUME TypeOK, TypeOK', Draining, Once, UNCHANGED <<version, event, c, delivered>>,
           NEW R \in Rings, \A r \in Rings \ {R} : hdr'[r] = hdr[r],
           hdr'[R].writeSeq = 0, hdr'[R].readSeq <= hdr[R].readSeq,
           hdr'[R].generation >= hdr[R].generation
    PROVE  Once'
  <1>0. c.ring \in Rings /\ c.expect \in Nat /\ c.generation \in Nat
    BY DEF TypeOK, ConsumerFields
  <1>c. /\ hdr[R].generation \in Nat /\ hdr'[R].generation \in Nat
        /\ hdr[R].readSeq \in Nat /\ hdr'[R].readSeq \in Nat
    BY DEF TypeOK, HeaderFields
  <1>1. DeliveredOnce'
    BY DEF Once, DeliveredOnce
  <1>2. ASSUME NEW r \in Rings PROVE Undelivered(r)'
    <2>1. CASE r = R
      BY <2>1 DEF Undelivered
    <2>2. CASE r # R
      <3>1. Cursor(r)' = Cursor(r)
        BY <1>0, <2>2 DEF Cursor, Current
      <3>2. \A s : (Complete(r, s)' <=> Complete(r, s)) /\ Head(r, s)' = Head(r, s)
        BY DEF Complete, Head
      <3> QED BY <2>2, <3>1, <3>2 DEF Once, Undelivered
    <2> QED BY <2>1, <2>2
  <1>3. Ahead'
    <2>1. CASE c.ring = R
      BY <1>0, <1>c, <2>1 DEF Once, Ahead
    <2>2. CASE c.ring # R
      BY <1>0, <2>2 DEF Once, Ahead
    <2> QED BY <2>1, <2>2
  <1>4. NextFresh'
    <2>1. c.pc \in {"v1", "copy", "v2"} /\ Current' => Current
      <3>1. CASE c.ring = R
        BY <1>0, <1>c, <3>1 DEF Draining, NotNewer, Current
      <3>2. CASE c.ring # R
        BY <1>0, <3>2 DEF Current
      <3> QED BY <3>1, <3>2
    <2> QED BY <2>1 DEF Once, NextFresh, Complete, Head
  <1> QED BY <1>1, <1>2, <1>3, <1>4 DEF Once

\* The record that becomes visible is one that no drain has delivered.
LEMMA OnceAdvance ==
    ASSUME TypeOK, AllSteady, Numbered, Once, NEW p \in Producers, Advance(p)
    PROVE  Once'
  <1>0. /\ UNCHANGED <<version, event, c, delivered>> /\ me[p].pc = "advance"
        /\ me[p].ring \in Rings /\ c.ring \in Rings
    BY AdvanceIs, Frame DEF TypeOK, ConsumerFields
  <1>1. PICK R \in Rings, n \in Nat : R = me[p].ring /\ n = me[p].published
    BY <1>0 DEF TypeOK, ProducerFields
  <1>2. /\ \A r \in Rings \ {R} : hdr'[r] = hdr[r]
        /\ hdr'[R].writeSeq = n + 1 /\ hdr'[R].readSeq = hdr[R].readSeq
        /\ hdr'[R].generation = hdr[R].generation
    BY <1>1, AdvanceIs DEF Counters, Next1
  <1>3. hdr[R].writeSeq = n
    BY <1>0, <1>1 DEF AllSteady, Steady, InStep, Writing
  <1>4. delivered[Head(R, n + 1)] = 0
    <2>1. Head(R, n + 1) = me[p].record
      BY <1>0, <1>1 DEF AllSteady, Steady, Storing, Head, Slot, Words
    <2>2. Pending(p)
      BY <1>0 DEF Pending
    <2> QED BY <2>1, <2>2 DEF Numbered, Fresh
  <1>5. DeliveredOnce'
    BY <1>0 DEF Once, DeliveredOnce
  <1>6. ASSUME NEW r \in Rings PROVE Undelivered(r)'
    <2>1. Cursor(r)' = Cursor(r)
      BY <1>0, <1>2 DEF Cursor, Current
    <2>2. \A s : (Complete(r, s)' <=> Complete(r, s)) /\ Head(r, s)' = Head(r, s)
      BY <1>0 DEF Complete, Head
    <2>3. \A s \in 1 .. hdr[r].writeSeq :
             Complete(r, s) /\ s >= Cursor(r) => delivered[Head(r, s)] = 0
      BY DEF Once, Undelivered
    <2>4. CASE r = R
      <3>1. \A s \in 1 .. n + 1 : s \in 1 .. n \/ s = n + 1
        BY <1>1
      <3>2. \A s \in 1 .. n + 1 :
               Complete(r, s) /\ s >= Cursor(r) => delivered[Head(r, s)] = 0
        BY <1>3, <1>4, <2>3, <2>4, <3>1
      <3> QED BY <1>0, <1>2, <2>1, <2>2, <2>4, <3>2 DEF Undelivered
    <2>5. CASE r # R
      BY <1>0, <1>2, <2>1, <2>2, <2>3, <2>5 DEF Undelivered
    <2> QED BY <2>4, <2>5
  <1>7. Ahead'
    BY <1>0, <1>2 DEF Once, Ahead
  <1>8. NextFresh'
    BY <1>0, <1>2 DEF Once, NextFresh, Current, Complete, Head
  <1> QED BY <1>5, <1>6, <1>7, <1>8 DEF Once

\* A store into a slot that is being written, or that the ring does not count
\* yet, completes no record a drain may look at.
LEMMA OnceStored ==
    ASSUME TypeOK, Once, UNCHANGED <<hdr, c, delivered>>, NEW R \in Rings, NEW I \in Cells,
           \A r \in Rings \ {R} : version'[r] = version[r] /\ event'[r] = event[r],
           \A i \in Cells \ {I} : version'[R][i] = version[R][i] /\ event'[R][i] = event[R][i],
           \A s \in 1 .. hdr[R].writeSeq :
               SlotAt(s) = I => version'[R][I] # [seq |-> s, writing |-> FALSE],
           c.pc \in {"v1", "copy", "v2"} /\ Current /\ c.ring = R /\ SlotAt(c.expect) = I
             => version'[R][I] # [seq |-> c.expect, writing |-> FALSE]
    PROVE  Once'
  <1>0. /\ c.ring \in Rings /\ c.expect \in Nat /\ c.expect > 0 /\ SlotAt(c.expect) \in Cells
        /\ \A r \in Rings : hdr[r].writeSeq \in Nat
    BY SlotInCells DEF TypeOK, ConsumerFields, HeaderFields
  <1>1. DeliveredOnce'
    BY DEF Once, DeliveredOnce
  <1>2. ASSUME NEW r \in Rings PROVE Undelivered(r)'
    <2>1. Cursor(r)' = Cursor(r)
      BY DEF Cursor, Current
    <2>2. ASSUME NEW s \in 1 .. hdr[r].writeSeq, Complete(r, s)', s >= Cursor(r)
          PROVE  delivered[Head(r, s)'] = 0
      <3>0. SlotAt(s) \in Cells
        BY <1>0, SlotInCells
      <3>1. ~(r = R /\ SlotAt(s) = I)
        BY <2>2 DEF Complete
      <3>2. version'[r][SlotAt(s)] = version[r][SlotAt(s)] /\ event'[r][SlotAt(s)] = event[r][SlotAt(s)]
        BY <3>0, <3>1
      <3>3. Complete(r, s) /\ Head(r, s)' = Head(r, s)
        BY <2>2, <3>2 DEF Complete, Head
      <3> QED BY <2>2, <3>3 DEF Once, Undelivered
    <2> QED BY <2>1, <2>2 DEF Undelivered
  <1>3. Ahead'
    BY DEF Once, Ahead
  <1>4. NextFresh'
    <2> SUFFICES ASSUME c.pc \in {"v1", "copy", "v2"}, Current,
                        version'[c.ring][SlotAt(c.expect)] = [seq |-> c.expect, writing |-> FALSE]
                 PROVE  delivered[event'[c.ring][SlotAt(c.expect)]["head"]] = 0
      BY DEF NextFresh, Current, Complete, Head
    <2>1. ~(c.ring = R /\ SlotAt(c.expect) = I)
      OBVIOUS
    <2>2. /\ version'[c.ring][SlotAt(c.expect)] = version[c.ring][SlotAt(c.expect)]
          /\ event'[c.ring][SlotAt(c.expect)] = event[c.ring][SlotAt(c.expect)]
      BY <1>0, <2>1
    <2> QED BY <2>2 DEF Once, NextFresh, Complete, Head
  <1> QED BY <1>1, <1>2, <1>3, <1>4 DEF Once

\* A drain that passes records only.
LEMMA OnceDrained ==
    ASSUME TypeOK, TypeOK', Once, UNCHANGED <<version, event, delivered>>,
           \A r \in Rings : hdr'[r].writeSeq = hdr[r].writeSeq /\ Cursor(r)' >= Cursor(r),
           Ahead', NextFresh'
    PROVE  Once'
  <1>1. DeliveredOnce'
    BY DEF Once, DeliveredOnce
  <1>2. ASSUME NEW r \in Rings PROVE Undelivered(r)'
    <2>1. \A s : (Complete(r, s)' <=> Complete(r, s)) /\ Head(r, s)' = Head(r, s)
      BY DEF Complete, Head
    <2>2. Cursor(r) \in Nat /\ hdr[r].writeSeq \in Nat /\ Cursor(r)' \in Nat
      BY CursorIsNat DEF TypeOK, HeaderFields, ConsumerFields, Cursor
    <2>3. \A s \in 1 .. hdr[r].writeSeq : s >= Cursor(r)' => s >= Cursor(r)
      BY <2>2
    <2> QED BY <2>1, <2>3 DEF Once, Undelivered
  <1> QED BY <1>1, <1>2 DEF Once

\* The record that is delivered is one that was not, and the drain is past it.
LEMMA OnceDelivered ==
    ASSUME TypeOK, TypeOK', AllSteady, AllWhole, Draining, Numbered, Once, LoadV2,
           UNCHANGED <<version, event>>, Accepts, Current
    PROVE  Once'
  <1>1. PICK R \in Rings, e \in Nat : R = c.ring /\ e = c.expect /\ e > 0
    BY DEF TypeOK, ConsumerFields
  <1>2. /\ c.pc = "v2" /\ c'.pc = "writeSeq" /\ c'.expect = e + 1 /\ c'.ring = R
        /\ c'.generation = c.generation /\ UNCHANGED hdr
    BY <1>1, LoadV2Is
  <1>3. PICK h \in Events : h = Head(R, e)
    BY <1>1, SlotInCells DEF TypeOK, Head, Words
  <1>4. Complete(R, e) /\ c.copy["head"] = h /\ h # 0
    BY <1>1, <1>2, <1>3, AcceptedIsWhole DEF Complete, Head, Looked, Whole
  <1>5. delivered[h] = 0
    BY <1>1, <1>2, <1>3, <1>4 DEF Once, NextFresh
  <1>6. \A x \in Events : delivered'[x] = delivered[x] \/ (x = h /\ delivered'[x] = delivered[x] + 1)
    BY <1>4, LoadV2Is
  <1>7. DeliveredOnce'
    <2>1. \A x \in Events : delivered[x] \in Nat
      BY DEF TypeOK
    <2> QED BY <1>5, <1>6, <2>1 DEF Once, DeliveredOnce
  <1>8. Cursor(R) = e /\ Cursor(R)' = e + 1
    BY <1>1, <1>2 DEF Cursor, Current
  <1>9. ASSUME NEW r \in Rings PROVE Undelivered(r)'
    <2>1. Cursor(r) \in Nat /\ hdr[r].writeSeq \in Nat
      BY CursorIsNat
    <2>2. Cursor(r)' >= Cursor(r) /\ (r # R => Cursor(r)' = Cursor(r))
      <3>1. CASE r = R
        BY <1>8, <3>1
      <3>2. CASE r # R
        <4>1. Cursor(r)' = Cursor(r)
          BY <1>1, <1>2, <3>2 DEF Cursor
        <4> QED BY <2>1, <4>1, <3>2
      <3> QED BY <3>1, <3>2
    <2>3. ASSUME NEW s \in 1 .. hdr[r].writeSeq, Complete(r, s), s >= Cursor(r)'
          PROVE  delivered'[Head(r, s)] = 0
      <3>0. SlotAt(s) \in Cells /\ SlotAt(e) \in Cells /\ "head" \in Words /\ s \in Nat
        BY <1>1, <2>1, SlotInCells DEF Words
      <3>1. s >= Cursor(r)
        BY <2>1, <2>2, <2>3, <3>0, <1>8, <1>1
      <3>2. delivered[Head(r, s)] = 0 /\ Head(r, s) \in Events
        BY <3>0, <2>3, <3>1 DEF Once, Undelivered, Head, TypeOK
      <3>3. Head(r, s) # h
        <4> SUFFICES ASSUME Head(r, s) = h PROVE FALSE
          OBVIOUS
        <4>1. r = R /\ SlotAt(s) = SlotAt(e)
          BY <1>3, <1>4, <3>0 DEF Numbered, Apart, Head
        <4>2. s = e
          BY <1>4, <2>3, <4>1 DEF Complete
        <4> QED BY <1>1, <1>8, <2>3, <4>1, <4>2
      <3> QED BY <1>6, <3>2, <3>3
    <2>4. \A s : (Complete(r, s)' <=> Complete(r, s)) /\ Head(r, s)' = Head(r, s)
      BY DEF Complete, Head
    <2> QED BY <1>2, <2>3, <2>4 DEF Undelivered
  <1>10. Ahead'
    <2>1. hdr[R].readSeq \in Nat
      BY DEF TypeOK, HeaderFields
    <2> QED BY <1>1, <1>2, <2>1 DEF Once, Ahead
  <1>11. NextFresh'
    BY <1>2 DEF NextFresh
  <1> QED BY <1>7, <1>9, <1>10, <1>11 DEF Once

\* The drain's own steps.
LEMMA OnceDrain ==
    ASSUME TypeOK, TypeOK', AllSteady, AllWhole, Draining, Numbered, Once, Drain
    PROVE  Once'
  <1>0. UNCHANGED <<version, event, me>>
    BY HelperFrame
  <1>1. PICK R \in Rings, e \in Nat : R = c.ring /\ e = c.expect /\ e > 0
    BY DEF TypeOK, ConsumerFields
  <1>2. \A r \in Rings : /\ hdr[r].readSeq \in Nat /\ hdr[r].writeSeq \in Nat
                         /\ Cursor(r) \in Nat /\ Cursor(r)' \in Nat
    BY DEF TypeOK, HeaderFields, ConsumerFields, Cursor
  <1>a. CASE DrainAll \/ DrainNext
    <2>0. /\ UNCHANGED <<hdr, delivered>> /\ c.pc \in {"idle", "totals"}
          /\ c'.pc \in {"idle", "readSeq"}
      BY <1>a, DrainAllIs
    <2>1. \A r \in Rings : Cursor(r)' = Cursor(r)
      BY <2>0 DEF Cursor
    <2>2. Ahead' /\ NextFresh'
      BY <2>0 DEF Ahead, NextFresh
    <2> QED BY <1>0, <1>2, <2>0, <2>1, <2>2, OnceDrained
  <1>b. CASE LoadHeader
    <2>0. UNCHANGED <<hdr, delivered>> /\ c'.ring = R
      BY <1>b, <1>1, LoadHeaderIs DEF Moves
    <2>1. CASE c.pc = "readSeq"
      <3>0. c'.pc = "generation" /\ c'.expect = hdr[R].readSeq + 1
        BY <1>b, <1>1, <2>1, LoadHeaderIs DEF Moves
      <3>1. \A r \in Rings : Cursor(r)' = Cursor(r)
        BY <2>0, <2>1, <3>0 DEF Cursor
      <3>2. Ahead' /\ NextFresh'
        BY <1>2, <2>0, <3>0 DEF Ahead, NextFresh
      <3> QED BY <1>0, <1>2, <2>0, <3>1, <3>2, OnceDrained
    <2>2. CASE c.pc = "generation"
      <3>0. c'.pc = "writeSeq" /\ c'.expect = e
        BY <1>b, <1>1, <2>2, LoadHeaderIs DEF Moves
      <3>1. e > hdr[R].readSeq
        BY <1>1, <2>2 DEF Once, Ahead
      <3>2. \A r \in Rings : Cursor(r) = hdr[r].readSeq + 1
        BY <2>2 DEF Cursor
      <3>3. \A r \in Rings : Cursor(r)' = hdr[r].readSeq + 1 \/ (r = R /\ Cursor(r)' = e)
        BY <2>0, <3>0 DEF Cursor
      <3>4. \A r \in Rings : Cursor(r)' >= Cursor(r)
        BY <1>1, <1>2, <3>1, <3>2, <3>3
      <3>5. Ahead' /\ NextFresh'
        BY <2>0, <3>0, <3>1 DEF Ahead, NextFresh
      <3> QED BY <1>0, <2>0, <3>4, <3>5, OnceDrained
    <2>3. CASE c.pc = "writeSeq"
      <3>0. /\ c'.expect = e /\ c'.generation = c.generation /\ c'.pc \in {"check", "v1"}
            /\ c'.pc = "v1" => ~(e > hdr[R].writeSeq)
        BY <1>b, <1>1, <2>3, LoadHeaderIs DEF Moves
      <3>1. \A r \in Rings : Cursor(r)' = Cursor(r)
        BY <1>1, <2>0, <2>3, <3>0 DEF Cursor, Current
      <3>2. Ahead'
        BY <1>1, <2>0, <2>3, <3>0 DEF Once, Ahead
      <3>3. NextFresh'
        <4> SUFFICES ASSUME c'.pc = "v1", Current, Complete(R, e)
                     PROVE  delivered[Head(R, e)] = 0
          BY <1>0, <1>1, <2>0, <3>0 DEF NextFresh, Current, Complete, Head
        <4>1. e \in 1 .. hdr[R].writeSeq
          BY <1>1, <1>2, <3>0
        <4>2. Cursor(R) = e
          BY <1>1, <2>3 DEF Cursor
        <4> QED BY <4>1, <4>2 DEF Once, Undelivered
      <3> QED BY <1>0, <1>2, <2>0, <3>1, <3>2, <3>3, OnceDrained
    <2> QED BY <1>b, <2>1, <2>2, <2>3, LoadHeaderIs
  <1>c. CASE LoadV1
    <2>0. /\ UNCHANGED <<hdr, delivered>> /\ c'.ring = R /\ c'.generation = c.generation
          /\ c.pc = "v1" /\ c'.pc \in {"check", "writeSeq", "copy"}
          /\ c'.expect \in Nat /\ c'.expect >= e /\ (c'.pc = "copy" => c'.expect = e)
      <3>1. c'.expect \in Nat
        BY <1>c, LoadV1Is DEF ConsumerFields
      <3> QED BY <1>c, <1>1, <3>1, LoadV1Is
    <2>1. \A r \in Rings : Cursor(r)' = Cursor(r) \/ (Cursor(r) = e /\ Cursor(r)' = c'.expect)
      BY <1>1, <2>0 DEF Cursor, Current
    <2>2. \A r \in Rings : Cursor(r)' >= Cursor(r)
      BY <1>2, <2>0, <2>1
    <2>3. Ahead'
      BY <1>1, <1>2, <2>0 DEF Once, Ahead
    <2>4. NextFresh'
      BY <1>0, <1>1, <2>0 DEF Once, NextFresh, Current, Complete, Head
    <2> QED BY <1>0, <2>0, <2>2, <2>3, <2>4, OnceDrained
  <1>d. ASSUME NEW w \in Words, CopyOut(w) PROVE Once'
    <2>0. /\ UNCHANGED <<hdr, delivered>> /\ c'.ring = R /\ c'.generation = c.generation
          /\ c.pc = "copy" /\ c'.pc \in {"copy", "v2"} /\ c'.expect = e
      BY <1>d, <1>1, CopyOutIs
    <2>1. \A r \in Rings : Cursor(r)' = Cursor(r)
      BY <1>1, <2>0 DEF Cursor, Current
    <2>2. Ahead' /\ NextFresh'
      BY <1>0, <1>1, <2>0 DEF Once, Ahead, NextFresh, Current, Complete, Head
    <2> QED BY <1>0, <1>2, <2>0, <2>1, <2>2, OnceDrained
  <1>e. CASE LoadV2
    <2>1. CASE Accepts /\ Current
      BY <1>0, <1>e, <2>1, OnceDelivered
    <2>2. CASE ~(Accepts /\ Current)
      <3>0. /\ UNCHANGED hdr /\ c'.ring = R /\ c'.generation = c.generation
            /\ c.pc = "v2" /\ c'.pc = "writeSeq" /\ c'.expect = e + 1
            /\ delivered' \in [Events -> Nat] /\ \A x \in Events : delivered'[x] = delivered[x]
        BY <1>e, <1>1, <2>2, LoadV2Is
      <3>1. UNCHANGED delivered
        BY <3>0 DEF TypeOK
      <3>2. \A r \in Rings : Cursor(r)' = Cursor(r) \/ (Cursor(r) = e /\ Cursor(r)' = e + 1)
        BY <1>1, <3>0 DEF Cursor, Current
      <3>3. \A r \in Rings : Cursor(r)' >= Cursor(r)
        BY <1>1, <1>2, <3>2
      <3>4. Ahead' /\ NextFresh'
        BY <1>1, <1>2, <3>0 DEF Once, Ahead, NextFresh
      <3> QED BY <1>0, <3>0, <3>1, <3>3, <3>4, OnceDrained
    <2> QED BY <2>1, <2>2
  <1>f. CASE CheckGeneration
    <2>0. /\ UNCHANGED <<hdr, delivered>> /\ c'.ring = R /\ c'.generation = c.generation
          /\ c.pc = "check" /\ c'.pc = (IF Current THEN "progress" ELSE "totals")
          /\ c'.expect = e
      BY <1>f, <1>1, CheckIs
    <2>1. \A r \in Rings : Cursor(r)' = Cursor(r)
      BY <1>1, <2>0 DEF Cursor, Current
    <2>2. Ahead' /\ NextFresh'
      BY <1>1, <2>0 DEF Once, Ahead, NextFresh
    <2> QED BY <1>0, <1>2, <2>0, <2>1, <2>2, OnceDrained
  <1>g. CASE WriteBack
    <2>0. /\ UNCHANGED delivered /\ c'.ring = R /\ c'.generation = c.generation /\ c'.expect = e
          /\ \A r \in Rings : /\ hdr'[r].writeSeq = hdr[r].writeSeq
                              /\ hdr'[r].generation = hdr[r].generation
          /\ \A r \in Rings \ {R} : hdr'[r].readSeq = hdr[r].readSeq
          /\ c'.pc \in {"drops", "totals"}
      BY <1>g, <1>1, WriteBackIs DEF Counters
    <2>1. Ahead' /\ NextFresh'
      BY <2>0 DEF Ahead, NextFresh
    <2>2. CASE c.pc = "progress"
      <3>1. hdr'[R].readSeq = e - 1
        BY <1>g, <1>1, <2>2, WriteBackIs DEF Counters
      <3>2. e > hdr[R].readSeq
        BY <1>1, <2>2 DEF Once, Ahead
      <3>3. \A r \in Rings : Cursor(r)' = hdr'[r].readSeq + 1
        BY <2>0 DEF Cursor
      <3>4. \A r \in Rings : Cursor(r) = hdr[r].readSeq + 1 \/ (r = R /\ Cursor(r) = e)
        BY <1>1, <2>2 DEF Cursor
      <3>5. \A r \in Rings : Cursor(r)' >= Cursor(r)
        BY <1>1, <1>2, <2>0, <3>1, <3>2, <3>3, <3>4
      <3> QED BY <1>0, <2>0, <2>1, <3>5, OnceDrained
    <2>3. CASE c.pc = "drops"
      <3>1. hdr'[R].readSeq = hdr[R].readSeq
        BY <1>g, <1>1, <2>3, WriteBackIs DEF Counters
      <3>2. \A r \in Rings : Cursor(r)' = Cursor(r)
        BY <2>0, <2>3, <3>1 DEF Cursor
      <3> QED BY <1>0, <1>2, <2>0, <2>1, <3>2, OnceDrained
    <2> QED BY <1>g, <2>2, <2>3, WriteBackIs
  <1> QED BY <1>a, <1>b, <1>c, <1>d, <1>e, <1>f, <1>g DEF Drain

\* A helper that was killed stays counted.
LEMMA CrashesStay == ASSUME TypeOK, [Next]_vars, used'.crashes = 0 PROVE used.crashes = 0
  <1>0. DOMAIN used = {"claims", "events", "deaths", "attaches", "crashes"} /\ used.crashes \in Nat
    BY DEF TypeOK, UsedFields
  <1>1. ASSUME NEW p \in Producers, Claim(p) \/ Publish(p) \/ Die(p)
        PROVE  used'.crashes = used.crashes
    BY <1>0, <1>1 DEF Claim, Publish, Die
  <1>2. ASSUME NEW p \in Producers, Release(p) \/ Continue(p) PROVE UNCHANGED used
    BY <1>2, Frame DEF Continue
  <1>3. CASE HelperDies
    BY <1>0, <1>3, HelperFrame
  <1>4. ASSUME NEW layout \in {"same", "other"}, Attach(layout)
        PROVE  used'.crashes = used.crashes
    BY <1>0, <1>4, HelperFrame
  <1>5. CASE Drain \/ Tick \/ UNCHANGED vars
    BY <1>5, HelperFrame DEF vars
  <1> QED BY <1>1, <1>2, <1>3, <1>4, <1>5 DEF Next

\* Every step, while no stale ring is taken over and no helper is killed.
LEMMA OnceStep ==
    ASSUME TypeOK, TypeOK', Registered, setup.stale = 0, used'.crashes = 0, AllSteady, AllWhole,
           Draining, Numbered, Once, [Next]_vars
    PROVE  Once'
  <1>1. ASSUME NEW p \in Producers, Claim(p) \/ Publish(p) \/ ScanRing(p) \/ Steal(p)
                                    \/ LoadPublished(p) \/ Die(p)
        PROVE  Once'
    BY <1>1, Frame, OnceSame
  <1>2. ASSUME NEW p \in Producers, ClaimCas(p) PROVE Once'
    <2>1. \A r \in Rings : /\ hdr'[r].writeSeq = hdr[r].writeSeq
                           /\ hdr'[r].readSeq = hdr[r].readSeq
                           /\ hdr'[r].generation = hdr[r].generation
      BY <1>2, ClaimCasIs DEF Takes
    <2> QED BY <1>2, <2>1, Frame, OnceSame
  <1>3. ASSUME NEW p \in Producers, StealCas(p) PROVE Once'
    BY <1>3, StealCasIs DEF AllSteady, Steady, Owning
  <1>4. ASSUME NEW p \in Producers, Release(p) PROVE Once'
    <2>1. \A r \in Rings : /\ hdr'[r].writeSeq = hdr[r].writeSeq
                           /\ hdr'[r].readSeq = hdr[r].readSeq
                           /\ hdr'[r].generation = hdr[r].generation
      BY <1>4, ReleaseIs
    <2> QED BY <1>4, <2>1, Frame, OnceSame
  <1>5. ASSUME NEW p \in Producers, Touch(p) PROVE Once'
    <2>1. \A r \in Rings : /\ hdr'[r].writeSeq = hdr[r].writeSeq
                           /\ hdr'[r].readSeq = hdr[r].readSeq
                           /\ hdr'[r].generation = hdr[r].generation
      BY <1>5, TouchIs DEF Counters
    <2> QED BY <1>5, <2>1, Frame, OnceSame
  <1>6. ASSUME NEW p \in Producers, BeginGeneration(p) PROVE Once'
    <2>1. PICK R \in Rings : R = me[p].ring
      BY <1>6, BeginIs
    <2>2. UNCHANGED <<version, event, c, delivered>> /\ \A r \in Rings \ {R} : hdr'[r] = hdr[r]
      BY <1>6, <2>1, BeginIs, Frame DEF Counters
    <2>3. me[p].pc \in {"readSeq", "rest", "generation"} => hdr[R].writeSeq = 0
      BY <2>1 DEF AllSteady, Steady, InStep
    <2>4. hdr[R].readSeq \in Nat /\ hdr[R].generation \in Nat
      BY DEF TypeOK, HeaderFields
    <2>5. /\ hdr'[R].writeSeq = 0 /\ hdr'[R].readSeq <= hdr[R].readSeq
          /\ hdr'[R].generation >= hdr[R].generation
      BY <1>6, <2>1, <2>3, <2>4, BeginIs DEF Counters
    <2> QED BY <2>2, <2>5, OnceReset
  <1>7. ASSUME NEW p \in Producers, Advance(p) PROVE Once'
    BY <1>7, OnceAdvance
  <1>8. ASSUME NEW p \in Producers, Invalidate(p) PROVE Once'
    <2>0. UNCHANGED <<hdr, event, c, delivered>> /\ me[p].ring \in Rings /\ Slot(p) \in Cells
      BY <1>8, InvalidateIs, Frame
    <2>1. /\ \A r \in Rings \ {me[p].ring} : version'[r] = version[r]
          /\ \A i \in Cells \ {Slot(p)} : version'[me[p].ring][i] = version[me[p].ring][i]
      BY <1>8, InvalidateIs
    <2>2. version'[me[p].ring][Slot(p)] = [seq |-> Next1(p), writing |-> TRUE]
      BY <1>8, InvalidateMarks
    <2>3. version'[me[p].ring][Slot(p)].writing
      BY <2>2
    <2>4. \A s : version'[me[p].ring][Slot(p)] # [seq |-> s, writing |-> FALSE]
      BY <2>3
    <2> QED BY <2>0, <2>1, <2>4, OnceStored
  <1>9. ASSUME NEW p \in Producers, NEW w \in Words, CopyIn(p, w) PROVE Once'
    <2>0. UNCHANGED <<hdr, version, c, delivered>> /\ me[p].ring \in Rings /\ Slot(p) \in Cells
      BY <1>9, CopyInIs, Frame
    <2>1. /\ \A r \in Rings \ {me[p].ring} : event'[r] = event[r]
          /\ \A i \in Cells \ {Slot(p)} : event'[me[p].ring][i] = event[me[p].ring][i]
      BY <1>9, CopyInIs
    <2>2. version'[me[p].ring][Slot(p)] = [seq |-> Next1(p), writing |-> TRUE]
      BY <1>9, <2>0, CopyInIs DEF AllSteady, Steady, Marking
    <2>3. version'[me[p].ring][Slot(p)].writing
      BY <2>2
    <2>4. \A s : version'[me[p].ring][Slot(p)] # [seq |-> s, writing |-> FALSE]
      BY <2>3
    <2> QED BY <2>0, <2>1, <2>4, OnceStored
  <1>10. ASSUME NEW p \in Producers, StoreVersion(p) PROVE Once'
    <2>0. /\ UNCHANGED <<hdr, event, c, delivered>> /\ me[p].ring \in Rings /\ Slot(p) \in Cells
          /\ me[p].pc = "version"
      BY <1>10, StoreVersionIs, Frame
    <2>1. /\ \A r \in Rings \ {me[p].ring} : version'[r] = version[r]
          /\ \A i \in Cells \ {Slot(p)} : version'[me[p].ring][i] = version[me[p].ring][i]
      BY <1>10, StoreVersionIs
    <2>2. version'[me[p].ring][Slot(p)] = [seq |-> Next1(p), writing |-> FALSE]
      BY <1>10, StoreVersionMarks
    <2>3. version'[me[p].ring][Slot(p)].seq = Next1(p)
      BY <2>2
    <2>4. \A s : version'[me[p].ring][Slot(p)] = [seq |-> s, writing |-> FALSE] => s = Next1(p)
      BY <2>3
    <2>5. /\ hdr[me[p].ring].writeSeq = me[p].published /\ hdr[me[p].ring].owner = p
          /\ me[p].published \in Nat
      BY <2>0 DEF AllSteady, Steady, InStep, Owning, Has, Writing, Holding, TypeOK, ProducerFields
    <2>6. \A s \in 1 .. hdr[me[p].ring].writeSeq : s # Next1(p)
      BY <2>5 DEF Next1
    <2>7. c.pc \in {"v1", "copy", "v2"} /\ Current /\ c.ring = me[p].ring => c.expect # Next1(p)
      <3>1. ~Stopped(me[p].ring)
        BY <2>0, <2>5 DEF Stopped, Halted
      <3> QED BY <2>5, <3>1 DEF Draining, Within, Next1
    <2> QED BY <2>0, <2>1, <2>4, <2>6, <2>7, OnceStored
  <1>11. CASE Drain
    BY <1>11, OnceDrain
  <1>12. CASE HelperDies
    <2>1. used.crashes \in Nat /\ used'.crashes = used.crashes + 1
      BY <1>12, HelperFrame DEF TypeOK, UsedFields
    <2> QED BY <2>1
  <1>13. CASE Tick \/ (\E layout \in {"same", "other"} : Attach(layout)) \/ UNCHANGED vars
    <2>1. UNCHANGED <<hdr, version, event, c, delivered>>
      BY <1>13, HelperFrame DEF vars
    <2> QED BY <2>1, OnceSame
  <1> QED BY <1>1, <1>2, <1>3, <1>4, <1>5, <1>6, <1>7, <1>8, <1>9, <1>10, <1>11, <1>12, <1>13
          DEF Next, Continue

\* The invariant of rings that are not taken over and helpers that are not killed.
OnceRings == /\ SteadyRings
             /\ setup.stale = 0 => Numbered
             /\ setup.stale = 0 /\ used.crashes = 0 => Once

\* It is inductive.
LEMMA OnceRingsInvariant ==
    /\ Init => OnceRings
    /\ OnceRings /\ [Next]_vars => OnceRings'
  <1>1. Init => OnceRings
    BY SteadyRingsInvariant, InitNumbered, InitOnce DEF OnceRings
  <1>2. ASSUME OnceRings, [Next]_vars PROVE OnceRings'
    <2>1. SteadyRings /\ SteadyRings' /\ UNCHANGED setup
      BY <1>2, SteadyRingsInvariant, SetupStays DEF OnceRings
    <2>2. ASSUME setup.stale = 0
          PROVE  /\ TypeOK /\ TypeOK' /\ Registered /\ AllSteady /\ AllWhole /\ Draining
                 /\ Numbered
      BY <1>2, <2>1, <2>2 DEF OnceRings, SteadyRings, SteadyInv
    <2>3. ASSUME setup.stale = 0 PROVE Numbered'
      BY <1>2, <2>2, <2>3, NumberedStep
    <2>4. ASSUME setup.stale = 0, used'.crashes = 0 PROVE Once'
      <3>1. Once
        BY <1>2, <2>2, <2>4, CrashesStay DEF OnceRings
      <3> QED BY <1>2, <2>2, <2>4, <3>1, OnceStep
    <2> QED BY <2>1, <2>3, <2>4 DEF OnceRings
  <1> QED BY <1>1, <1>2

\* DeliveredOnce, for rings that are not taken over and as long as no helper has
\* been killed: neither the write-back nor a wrap-around makes a drain whose generation
\* stands hand a record to the sink again.
THEOREM SpecDeliveredOnce ==
    Spec => [](setup.stale = 0 /\ used.crashes = 0 => DeliveredOnce)
  <1>1. OnceRings => (setup.stale = 0 /\ used.crashes = 0 => DeliveredOnce)
    BY DEF OnceRings, Once
  <1> QED BY <1>1, OnceRingsInvariant, PTL DEF Spec

----------------------------------------------------------------------------
(* A ring claimed once, in all: event s is record s, the sequence a slot is marked *)
(* with only grows, and what the cursors passed was delivered or lapped.           *)
Working(p) == me[p].ring # NoRing \/ me[p].pc \in Looking
Copying == {"invalidate", "copy", "version", "advance"}
OneClaimer ==
    /\ \A p \in Producers : Working(p) => used.claims > 0
    /\ \A p, q \in Producers : Working(p) /\ Working(q) => p = q
    /\ used.claims = 0 => used.events = 0 /\ \A r \in Rings : hdr[r].generation = 0
Untouched(p) ==
    /\ me[p].pc \in Looking \cup Resetting => ~me[p].resume /\ used.events = 0
    /\ me[p].pc \in (Looking \cup Resetting) \ {"published"}
        => \A r \in Rings : hdr[r].generation = 0
InOrder(p) ==
    /\ me[p].pc \in Copying => me[p].record = Next1(p) /\ used.events = Next1(p)
    /\ me[p].pc = "touch" \/ (me[p].pc = "idle" /\ Has(p)) => used.events = me[p].published
Marked(p) ==
    Has(p) /\ me[p].pc # "dead" =>
        \A i \in Cells : version[me[p].ring][i].writing
                            => me[p].pc \in {"copy", "version"} /\ i = Slot(p)
Begun(p) == Has(p) /\ me[p].pc \in {"published", "idle", "touch"} \cup Copying
               => hdr[me[p].ring].generation > 0
Orderly(p) == Untouched(p) /\ InOrder(p) /\ Marked(p) /\ Begun(p)
OnceClaimed == OneClaimer /\ \A p \in Producers : Orderly(p)

Unused(r) == hdr[r].generation = 0 => /\ hdr[r].writeSeq = 0
                                      /\ \A i \in Cells : ~version[r][i].writing
Bounded(r) == hdr[r].writeSeq <= used.events /\ \A i \in Cells : version[r][i].seq <= used.events
Reaching(r) == \A s \in 1 .. hdr[r].writeSeq : version[r][SlotAt(s)].seq >= s
Beyond(r) == \A i \in Cells : version[r][i].writing => version[r][i].seq > hdr[r].writeSeq
Stored(r) == \A i \in Cells : ~version[r][i].writing /\ version[r][i].seq > 0
                                => \A w \in Words : event[r][i][w] = version[r][i].seq
Ordered(r) == Unused(r) /\ Bounded(r) /\ Reaching(r) /\ Beyond(r) /\ Stored(r)
Sequenced == \A r \in Rings : Ordered(r)

Overtaken(r, s) == \E t \in 1 .. s : s < t + Capacity /\ version[r][SlotAt(t)].seq > t
Settled(r, s) == delivered[s] > 0 \/ Overtaken(r, s)
AllSettled(r, n) == n <= used.events /\ \A s \in 1 .. n : Settled(r, s)
Going == \/ c.pc \in {"generation", "progress"}
         \/ c.pc \in {"writeSeq", "v1", "copy", "v2", "check"} /\ Current
Reached == c.pc \in {"v1", "copy", "v2"} /\ Current => c.expect <= hdr[c.ring].writeSeq
Passed == /\ \A r \in Rings : AllSettled(r, hdr[r].readSeq)
          /\ Going => AllSettled(c.ring, c.expect - 1)
          /\ Reached

\* What the claims count: only Claim adds to it where there is one claim in all.
LEMMA ClaimsAre ==
    ASSUME TypeOK, NEW p \in Producers
    PROVE  /\ Claim(p) => used.claims < setup.claims /\ used'.claims = used.claims + 1
                          /\ used'.events = used.events
           /\ Publish(p) => \/ hdr[me[p].ring].owner = p /\ used'.claims = used.claims
                            \/ hdr[me[p].ring].owner # p /\ used.claims < setup.claims
           /\ Die(p) => used'.claims = used.claims
  <1>0. DOMAIN used = {"claims", "events", "deaths", "attaches", "crashes"} /\ used.claims \in Nat
    BY DEF TypeOK, UsedFields
  <1>1. ASSUME Claim(p)
        PROVE  /\ used.claims < setup.claims /\ used'.claims = used.claims + 1
               /\ used'.events = used.events
    BY <1>0, <1>1 DEF Claim
  <1>2. ASSUME Publish(p)
        PROVE  \/ hdr[me[p].ring].owner = p /\ used'.claims = used.claims
               \/ hdr[me[p].ring].owner # p /\ used.claims < setup.claims
    BY <1>0, <1>2 DEF Publish, StillOwner
  <1>3. ASSUME Die(p) PROVE used'.claims = used.claims
    BY <1>0, <1>3 DEF Die
  <1> QED BY <1>1, <1>2, <1>3

\* The other counts leave the claims and the events alone.
LEMMA CountsAre ==
    ASSUME TypeOK, \/ used' = [used EXCEPT !.attaches = @ + 1]
                   \/ used' = [used EXCEPT !.crashes = @ + 1]
                   \/ UNCHANGED used
    PROVE  used'.claims = used.claims /\ used'.events = used.events
  <1>0. DOMAIN used = {"claims", "events", "deaths", "attaches", "crashes"}
    BY DEF TypeOK, UsedFields
  <1>1. CASE used' = [used EXCEPT !.attaches = @ + 1]
    BY <1>0, <1>1
  <1>2. CASE used' = [used EXCEPT !.crashes = @ + 1]
    BY <1>0, <1>2
  <1> QED BY <1>1, <1>2

\* A thread that has claimed nothing keeps no promise about a ring.
LEMMA Bystander ==
    ASSUME TypeOK, TypeOK', NEW q \in Producers
    PROVE  ~Working(q)' => Orderly(q)'
  <1> SUFFICES ASSUME ~Working(q)' PROVE Orderly(q)'
    OBVIOUS
  <1>1. /\ me'[q].ring = NoRing /\ me'[q].pc \notin Looking /\ me'[q].ring \notin Rings
        /\ me'[q].pc \notin Holding
    BY Constants DEF Working, TypeOK, ProducerFields
  <1>2. ~Has(q)'
    BY <1>1 DEF Has
  <1>3. Untouched(q)'
    BY <1>1 DEF Untouched, Holding
  <1>4. InOrder(q)'
    BY <1>1, <1>2 DEF InOrder, Holding, Copying
  <1>5. Marked(q)' /\ Begun(q)'
    BY <1>2 DEF Marked, Begun
  <1> QED BY <1>3, <1>4, <1>5 DEF Orderly

\* A step of the thread that holds the claim, or one that leaves the rings alone.
LEMMA OneClaimerKept ==
    ASSUME TypeOK, OneClaimer, NEW p \in Producers, Others(p), Working(p)' => Working(p),
           used'.claims = used.claims,
           \/ Working(p)
           \/ /\ used'.events = used.events
              /\ \A r \in Rings : hdr'[r].generation = hdr[r].generation
    PROVE  OneClaimer'
  <1>1. \A q \in Producers : Working(q)' => Working(q)
    BY DEF Others, Working
  <1>2. used.claims \in Nat
    BY DEF TypeOK, UsedFields
  <1>3. used.claims = 0 => used'.events = 0 /\ \A r \in Rings : hdr'[r].generation = 0
    BY <1>2 DEF OneClaimer
  <1> QED BY <1>1, <1>3 DEF OneClaimer

\* The thread that steps and the others, which hold no claim.
LEMMA ClaimedAll ==
    ASSUME TypeOK, TypeOK', OneClaimer, NEW p \in Producers, Others(p), Working(p),
           Working(p)' => Working(p), used'.claims = used.claims, Orderly(p)'
    PROVE  OnceClaimed'
  <1>1. OneClaimer'
    BY OneClaimerKept
  <1>2. ASSUME NEW q \in Producers \ {p} PROVE Orderly(q)'
    <2>1. ~Working(q)
      BY DEF OneClaimer
    <2>2. ~Working(q)'
      BY <2>1 DEF Working, Others
    <2> QED BY <2>2, Bystander
  <1> QED BY <1>1, <1>2 DEF OnceClaimed

\* A claim is the first one, so nothing was published before it.
LEMMA ClaimedClaim ==
    ASSUME TypeOK, TypeOK', setup.claims <= 1, OnceClaimed, NEW p \in Producers, Claim(p)
    PROVE  OnceClaimed'
  <1>1. used.claims = 0 /\ used'.claims = 1 /\ used'.events = 0
    <2>1. used.claims \in Nat /\ setup.claims \in Nat
      BY RingAssumption DEF TypeOK, UsedFields, Situation
    <2>2. used.claims < setup.claims /\ used'.claims = used.claims + 1 /\ used'.events = used.events
      BY ClaimsAre
    <2>3. used.claims = 0
      BY <2>1, <2>2
    <2> QED BY <2>2, <2>3 DEF OnceClaimed, OneClaimer
  <1>2. \A q \in Producers : ~Working(q)
    BY <1>1 DEF OnceClaimed, OneClaimer
  <1>3. UNCHANGED <<hdr, version, event>> /\ \A r \in Rings : hdr'[r].generation = 0
    BY <1>1, Frame DEF OnceClaimed, OneClaimer
  <1>4. \A q \in Producers \ {p} : ~Working(q)'
    BY <1>2, ClaimIs DEF Working, Others
  <1>5. OneClaimer'
    BY <1>1, <1>4 DEF OneClaimer
  <1>6. Orderly(p)'
    <2>1. me'[p].pc = "scan" /\ me'[p].ring = NoRing /\ me'[p].resume = FALSE
      BY ClaimIs
    <2>2. ~Has(p)'
      BY <2>1, Constants DEF Has
    <2>3. Untouched(p)'
      BY <1>1, <1>3, <2>1 DEF Untouched
    <2>4. InOrder(p)'
      BY <2>1, <2>2 DEF InOrder, Copying
    <2> QED BY <2>2, <2>3, <2>4 DEF Orderly, Marked, Begun
  <1> QED BY <1>4, <1>5, <1>6, Bystander DEF OnceClaimed

\* The search for a ring.
LEMMA ClaimedSearch ==
    ASSUME TypeOK, TypeOK', Registered, AllSteady, OnceClaimed, Sequenced, NEW p \in Producers,
           ScanRing(p) \/ ClaimCas(p)
    PROVE  OnceClaimed'
  <1>1. /\ me[p].pc \in {"scan", "claimCas"} /\ me[p].ring = NoRing /\ UNCHANGED <<version, used>>
        /\ me[p].resume = FALSE /\ used.events = 0 /\ \A r \in Rings : hdr[r].generation = 0
    <2>1. me[p].pc \in {"scan", "claimCas"} /\ UNCHANGED <<version, used>>
      BY ScanIs, ClaimCasIs, Frame
    <2>2. me[p].resume \in BOOLEAN
      BY DEF TypeOK, ProducerFields
    <2> QED BY <2>1, <2>2 DEF Registered, Looking, Resetting, OnceClaimed, Orderly, Untouched
  <1>2. Working(p)
    BY <1>1 DEF Working, Looking
  <1>3. /\ Others(p) /\ me'[p].resume = me[p].resume
        /\ \A r \in Rings : hdr'[r].generation = hdr[r].generation
        /\ \/ me'[p].ring = NoRing /\ me'[p].pc \in {"scan", "claimCas", "idle", "steal"}
           \/ me'[p].ring \in Rings /\ me'[p].pc = "writeSeq"
    <2>1. CASE ScanRing(p)
      BY <1>1, <2>1, ScanIs, Frame
    <2>2. CASE ClaimCas(p)
      BY <1>1, <2>2, ClaimCasIs DEF Takes
    <2> QED BY <2>1, <2>2
  <1>4. \A r \in Rings, i \in Cells : ~version'[r][i].writing
    BY <1>1 DEF Sequenced, Ordered, Unused
  <1>5. Untouched(p)'
    BY <1>1, <1>3 DEF Untouched
  <1>6. InOrder(p)'
    BY <1>3, Constants DEF InOrder, Copying, Has
  <1>7. Marked(p)' /\ Begun(p)'
    BY <1>3, <1>4, Constants DEF Marked, Begun, Has, Copying
  <1> QED BY <1>1, <1>2, <1>3, <1>5, <1>6, <1>7, ClaimedAll DEF OnceClaimed, Orderly

\* The generation begins.
LEMMA ClaimedBegin ==
    ASSUME TypeOK, TypeOK', AllSteady, OnceClaimed, NEW p \in Producers, BeginGeneration(p)
    PROVE  OnceClaimed'
  <1>0. /\ me[p].ring \in Rings /\ Others(p) /\ me'[p].ring = me[p].ring
        /\ me'[p].resume = me[p].resume /\ UNCHANGED <<version, used>>
        /\ me[p].pc \in {"writeSeq", "readSeq", "rest", "generation"}
        /\ \A r \in Rings : hdr'[r].owner = hdr[r].owner
    BY BeginIs, Frame DEF Steps, Counters
  <1>1. Working(p) /\ Has(p) /\ used.events = 0 /\ me[p].resume = FALSE
        /\ \A r \in Rings : hdr[r].generation = 0
    <2>1. me[p].resume \in BOOLEAN
      BY DEF TypeOK, ProducerFields
    <2> QED BY <1>0, <2>1, Constants DEF Working, AllSteady, Steady, Owning, Holding, Resetting,
               OnceClaimed, Orderly, Untouched
  <1>2. \/ /\ me'[p].pc \in {"readSeq", "rest", "generation"}
           /\ \A r \in Rings : hdr'[r].generation = 0
        \/ me'[p].pc = "published" /\ hdr'[me[p].ring].generation > 0
    BY <1>0, <1>1, BeginIs DEF Steps, Counters
  <1>3. Untouched(p)'
    BY <1>0, <1>1, <1>2 DEF Untouched, Looking, Resetting
  <1>4. InOrder(p)'
    BY <1>2 DEF InOrder, Copying
  <1>5. Marked(p)'
    <2>1. \A i \in Cells : ~version[me[p].ring][i].writing
      BY <1>0, <1>1 DEF OnceClaimed, Orderly, Marked
    <2> QED BY <1>0, <2>1 DEF Marked
  <1>6. Begun(p)'
    BY <1>0, <1>2 DEF Begun, Copying
  <1> QED BY <1>0, <1>1, <1>3, <1>4, <1>5, <1>6, ClaimedAll DEF OnceClaimed, Orderly, Working

\* The thread's own copy of writeSeq, which ends the claim.
LEMMA ClaimedLoad ==
    ASSUME TypeOK, TypeOK', AllSteady, OnceClaimed, NEW p \in Producers, LoadPublished(p)
    PROVE  OnceClaimed'
  <1>0. /\ me[p].ring \in Rings /\ Others(p) /\ me'[p].ring = me[p].ring
        /\ me[p].pc = "published" /\ UNCHANGED <<hdr, version, used>>
    BY LoadIs, Frame
  <1>1. Working(p) /\ Has(p) /\ used.events = 0 /\ me[p].resume = FALSE
        /\ hdr[me[p].ring].writeSeq = 0
    <2>1. me[p].resume \in BOOLEAN
      BY DEF TypeOK, ProducerFields
    <2> QED BY <1>0, <2>1, Constants DEF Working, AllSteady, Steady, Owning, InStep, Holding,
               Resetting, OnceClaimed, Orderly, Untouched
  <1>2. me'[p].pc = "idle" /\ me'[p].published = 0
    BY <1>1, LoadIs
  <1>3. Untouched(p)' /\ InOrder(p)'
    BY <1>0, <1>1, <1>2 DEF Untouched, InOrder, Looking, Resetting, Copying
  <1>4. Marked(p)'
    <2>1. \A i \in Cells : ~version[me[p].ring][i].writing
      BY <1>0, <1>1 DEF OnceClaimed, Orderly, Marked
    <2> QED BY <1>0, <2>1 DEF Marked
  <1>5. Begun(p)'
    BY <1>0, <1>1 DEF OnceClaimed, Orderly, Begun
  <1> QED BY <1>0, <1>1, <1>3, <1>4, <1>5, ClaimedAll DEF OnceClaimed, Orderly, Working

\* The ring is given back: there is no second claim.
LEMMA ClaimedRelease ==
    ASSUME TypeOK, TypeOK', OnceClaimed, NEW p \in Producers, Release(p)
    PROVE  OnceClaimed'
  <1>1. Others(p) /\ UNCHANGED used /\ me[p].ring \in Rings /\ me'[p].ring = NoRing
        /\ me'[p].pc = "idle"
    BY ReleaseIs, Frame
  <1>2. Working(p) /\ ~Working(p)'
    BY <1>1, Constants DEF Working, Looking
  <1>3. Orderly(p)'
    BY <1>2, Bystander
  <1> QED BY <1>1, <1>2, <1>3, ClaimedAll DEF OnceClaimed

\* The thread that publishes still owns its ring: record s goes in as event s.
LEMMA ClaimedPublish ==
    ASSUME TypeOK, TypeOK', setup.claims <= 1, OnceClaimed, NEW p \in Producers, Publish(p)
    PROVE  OnceClaimed'
  <1>0. /\ Others(p) /\ me[p].pc = "idle" /\ me[p].ring \in Rings /\ used.events \in Nat
        /\ me'[p].published = me[p].published /\ me'[p].record = used.events + 1
        /\ used'.events = used.events + 1 /\ UNCHANGED <<hdr, version>>
    BY PublishIs, Frame, Constants DEF TypeOK, UsedFields
  <1>1. Working(p) /\ used.claims > 0
    BY <1>0, Constants DEF Working, OnceClaimed, OneClaimer
  <1>2. Has(p) /\ used'.claims = used.claims
    <2>1. used.claims \in Nat /\ setup.claims \in Nat
      BY RingAssumption DEF TypeOK, UsedFields, Situation
    <2>2. ~(used.claims < setup.claims)
      BY <1>1, <2>1
    <2> QED BY <1>0, <2>2, ClaimsAre DEF Has
  <1>3. me'[p].pc = "invalidate" /\ me'[p].ring = me[p].ring
    BY <1>2, PublishIs DEF Has
  <1>4. used.events = me[p].published
    BY <1>0, <1>2 DEF OnceClaimed, Orderly, InOrder
  <1>5. Untouched(p)' /\ InOrder(p)'
    BY <1>0, <1>3, <1>4 DEF Untouched, InOrder, Looking, Resetting, Copying, Next1
  <1>6. Marked(p)'
    <2>1. \A i \in Cells : ~version[me[p].ring][i].writing
      BY <1>0, <1>2 DEF OnceClaimed, Orderly, Marked
    <2> QED BY <1>0, <1>3, <2>1 DEF Marked
  <1>7. Begun(p)'
    BY <1>0, <1>2, <1>3 DEF OnceClaimed, Orderly, Begun
  <1> QED BY <1>0, <1>1, <1>2, <1>3, <1>5, <1>6, <1>7, ClaimedAll DEF OnceClaimed, Orderly

\* The thread that writes a record works on its own ring.
LEMMA WriterIs ==
    ASSUME TypeOK, AllSteady, NEW p \in Producers, Writing(p)
    PROVE  /\ me[p].ring \in Rings /\ Has(p) /\ Working(p) /\ Slot(p) \in Cells
           /\ me[p].published \in Nat /\ hdr[me[p].ring].writeSeq = me[p].published
           /\ Next1(p) \in Nat /\ hdr[me[p].ring].writeSeq = Next1(p) - 1
  <1>1. me[p].ring \in Rings /\ Has(p) /\ me[p].published \in Nat
        /\ hdr[me[p].ring].writeSeq = me[p].published
    BY DEF Writing, AllSteady, Steady, Owning, InStep, Has, Holding, TypeOK, ProducerFields
  <1>2. Slot(p) \in Cells
    BY <1>1, SlotInCells DEF Slot
  <1>3. Next1(p) \in Nat /\ me[p].published = Next1(p) - 1
    BY <1>1 DEF Next1
  <1> QED BY <1>1, <1>2, <1>3, Constants DEF Working

\* The slot is marked and filled.
LEMMA ClaimedWrite ==
    ASSUME TypeOK, TypeOK', AllSteady, OnceClaimed, NEW p \in Producers,
           Invalidate(p) \/ (\E w \in Words : CopyIn(p, w)) \/ StoreVersion(p)
    PROVE  OnceClaimed'
  <1>0. /\ Others(p) /\ me'[p].ring = me[p].ring /\ me'[p].published = me[p].published
        /\ me'[p].record = me[p].record /\ UNCHANGED <<hdr, used>>
        /\ me[p].pc \in {"invalidate", "copy", "version"}
        /\ me'[p].pc \in {"copy", "version", "advance"}
        /\ \A i \in Cells \ {Slot(p)} : version'[me[p].ring][i] = version[me[p].ring][i]
        /\ version'[me[p].ring][Slot(p)].writing => me'[p].pc # "advance"
    <2>1. CASE Invalidate(p)
      BY <2>1, InvalidateIs, Frame
    <2>2. ASSUME NEW w \in Words, CopyIn(p, w)
          PROVE  /\ Others(p) /\ me'[p].ring = me[p].ring /\ me'[p].published = me[p].published
                 /\ me'[p].record = me[p].record /\ UNCHANGED <<hdr, version, used>>
                 /\ me[p].pc = "copy" /\ me'[p].pc \in {"copy", "version"}
      BY <2>2, CopyInIs, Frame
    <2>3. CASE StoreVersion(p)
      <3>1. version'[me[p].ring][Slot(p)] = [seq |-> Next1(p), writing |-> FALSE]
        BY <2>3, StoreVersionMarks
      <3>2. ~version'[me[p].ring][Slot(p)].writing
        BY <3>1
      <3> QED BY <2>3, <3>2, StoreVersionIs, Frame DEF Steps
    <2>4. CASE \E w \in Words : CopyIn(p, w)
      BY <2>2, <2>4
    <2> QED BY <2>1, <2>3, <2>4
  <1>1. Writing(p) /\ Working(p) /\ Has(p) /\ me[p].ring \in Rings
    BY <1>0, WriterIs DEF Writing
  <1>2. Slot(p)' = Slot(p) /\ Next1(p)' = Next1(p)
    BY <1>0 DEF Slot, Next1
  <1>3. me[p].record = Next1(p) /\ used.events = Next1(p)
    BY <1>0 DEF OnceClaimed, Orderly, InOrder, Copying
  <1>4. Untouched(p)' /\ InOrder(p)'
    BY <1>0, <1>2, <1>3 DEF Untouched, InOrder, Looking, Resetting
  <1>5. Marked(p)'
    <2>1. \A i \in Cells \ {Slot(p)} : ~version[me[p].ring][i].writing
      BY <1>0, <1>1 DEF OnceClaimed, Orderly, Marked
    <2>2. \A i \in Cells : version'[me[p].ring][i].writing => i = Slot(p) /\ me'[p].pc # "advance"
      BY <1>0, <2>1
    <2> QED BY <1>0, <1>2, <2>2 DEF Marked
  <1>6. Begun(p)'
    <2>1. hdr[me[p].ring].generation > 0
      BY <1>0, <1>1 DEF OnceClaimed, Orderly, Begun, Copying
    <2> QED BY <1>0, <2>1 DEF Begun
  <1> QED BY <1>0, <1>1, <1>4, <1>5, <1>6, ClaimedAll DEF OnceClaimed, Orderly, Working

\* The record becomes visible, and now and then the ring's time stamp.
LEMMA ClaimedAdvance ==
    ASSUME TypeOK, TypeOK', AllSteady, OnceClaimed, NEW p \in Producers, Advance(p) \/ Touch(p)
    PROVE  OnceClaimed'
  <1>0. /\ Others(p) /\ me'[p].ring = me[p].ring /\ UNCHANGED <<version, used>>
        /\ me[p].pc \in {"advance", "touch"} /\ me'[p].pc \in {"touch", "idle"}
        /\ me'[p].published = IF me[p].pc = "advance" THEN Next1(p) ELSE me[p].published
        /\ hdr'[me[p].ring].generation = hdr[me[p].ring].generation
    <2>1. CASE Advance(p)
      BY <2>1, AdvanceIs, Frame DEF Counters
    <2>2. CASE Touch(p)
      BY <2>2, TouchIs, Frame DEF Counters, Steps
    <2> QED BY <2>1, <2>2
  <1>1. Writing(p) /\ Working(p) /\ Has(p) /\ me[p].ring \in Rings
    BY <1>0, WriterIs DEF Writing
  <1>2. used.events = me'[p].published
    BY <1>0 DEF OnceClaimed, Orderly, InOrder, Copying
  <1>3. Untouched(p)' /\ InOrder(p)'
    BY <1>0, <1>2 DEF Untouched, InOrder, Looking, Resetting, Copying
  <1>4. Marked(p)'
    <2>1. \A i \in Cells : ~version[me[p].ring][i].writing
      BY <1>0, <1>1 DEF OnceClaimed, Orderly, Marked
    <2> QED BY <1>0, <2>1 DEF Marked
  <1>5. Begun(p)'
    <2>1. hdr[me[p].ring].generation > 0
      BY <1>0, <1>1 DEF OnceClaimed, Orderly, Begun, Copying
    <2> QED BY <1>0, <2>1 DEF Begun
  <1> QED BY <1>0, <1>1, <1>3, <1>4, <1>5, ClaimedAll DEF OnceClaimed, Orderly, Working

\* A thread that is killed leaves its ring as it is.
LEMMA ClaimedDie ==
    ASSUME TypeOK, TypeOK', OnceClaimed, NEW p \in Producers, Die(p)
    PROVE  OnceClaimed'
  <1>1. /\ Others(p) /\ me'[p].pc = "dead" /\ me'[p].ring = me[p].ring
        /\ used'.events = used.events /\ used'.claims = used.claims /\ UNCHANGED hdr
    BY DieIs, ClaimsAre, Frame DEF Steps
  <1>2. Working(p)' => Working(p)
    BY <1>1 DEF Working, Looking
  <1>3. OneClaimer'
    BY <1>1, <1>2, OneClaimerKept DEF OnceClaimed
  <1>4. ASSUME NEW q \in Producers \ {p}, Working(q)' PROVE Orderly(q)'
    <2>1. UNCHANGED version /\ me'[q] = me[q]
      BY <1>1, Frame DEF Others
    <2>2. Orderly(q)
      BY DEF OnceClaimed
    <2>3. Has(q)' <=> Has(q)
      BY <1>1, <2>1 DEF Has
    <2>4. Untouched(q)'
      BY <1>1, <2>1, <2>2 DEF Orderly, Untouched
    <2>5. InOrder(q)'
      BY <1>1, <2>1, <2>2, <2>3 DEF Orderly, InOrder, Next1
    <2>6. Marked(q)'
      BY <1>1, <2>1, <2>2, <2>3 DEF Orderly, Marked, Slot
    <2>7. Begun(q)'
      BY <1>1, <2>1, <2>2, <2>3 DEF Orderly, Begun
    <2> QED BY <2>4, <2>5, <2>6, <2>7 DEF Orderly
  <1>5. Orderly(p)'
    BY <1>1 DEF Orderly, Untouched, InOrder, Marked, Begun, Looking, Resetting, Copying
  <1> QED BY <1>3, <1>4, <1>5, Bystander DEF OnceClaimed

\* What the rest does leaves the claim alone.
LEMMA ClaimedSame ==
    ASSUME TypeOK, TypeOK', OnceClaimed, UNCHANGED <<me, version>>,
           used'.claims = used.claims, used'.events = used.events,
           \A r \in Rings : /\ hdr'[r].owner = hdr[r].owner
                            /\ hdr'[r].generation = hdr[r].generation
    PROVE  OnceClaimed'
  <1>1. OneClaimer'
    <2>1. \A q \in Producers : Working(q)' <=> Working(q)
      BY DEF Working
    <2> QED BY <2>1 DEF OnceClaimed, OneClaimer
  <1>2. ASSUME NEW q \in Producers PROVE Orderly(q)'
    <2>2. Orderly(q)
      BY DEF OnceClaimed
    <2>3. Has(q)' <=> Has(q)
      BY DEF Has
    <2>4. Untouched(q)'
      BY <2>2 DEF Orderly, Untouched
    <2>5. InOrder(q)'
      BY <2>2, <2>3 DEF Orderly, InOrder, Next1
    <2>6. Marked(q)'
      BY <2>2, <2>3 DEF Orderly, Marked, Slot
    <2>7. Begun(q)'
      BY <2>2, <2>3 DEF Orderly, Begun, Has
    <2> QED BY <2>4, <2>5, <2>6, <2>7 DEF Orderly
  <1> QED BY <1>1, <1>2 DEF OnceClaimed

\* Every step leaves one claim at most.
LEMMA ClaimedStep ==
    ASSUME TypeOK, TypeOK', Registered, setup.stale = 0, setup.claims <= 1, AllSteady, OnceClaimed,
           Sequenced, [Next]_vars
    PROVE  OnceClaimed'
  <1>1. ASSUME NEW p \in Producers, Claim(p) \/ Release(p) \/ Publish(p) \/ Die(p)
        PROVE  OnceClaimed'
    BY <1>1, ClaimedClaim, ClaimedRelease, ClaimedPublish, ClaimedDie
  <1>2. ASSUME NEW p \in Producers, ScanRing(p) \/ ClaimCas(p) \/ Steal(p) \/ StealCas(p)
        PROVE  OnceClaimed'
    <2>1. ~Steal(p) /\ ~StealCas(p)
      BY StealIs, StealCasIs DEF AllSteady, Steady, Owning
    <2> QED BY <1>2, <2>1, ClaimedSearch
  <1>3. ASSUME NEW p \in Producers, BeginGeneration(p) \/ LoadPublished(p)
        PROVE  OnceClaimed'
    BY <1>3, ClaimedBegin, ClaimedLoad
  <1>4. ASSUME NEW p \in Producers, \/ Invalidate(p) \/ StoreVersion(p)
                                    \/ \E w \in Words : CopyIn(p, w)
        PROVE  OnceClaimed'
    BY <1>4, ClaimedWrite
  <1>5. ASSUME NEW p \in Producers, Advance(p) \/ Touch(p) PROVE OnceClaimed'
    BY <1>5, ClaimedAdvance
  <1>6. CASE Drain
    <2>1. UNCHANGED <<me, version, used>>
      BY <1>6, HelperFrame
    <2>2. \A r \in Rings : /\ hdr'[r].owner = hdr[r].owner
                           /\ hdr'[r].generation = hdr[r].generation
      BY <1>6, HelperFrame, WriteBackIs DEF Counters
    <2> QED BY <2>1, <2>2, ClaimedSame
  <1>7. CASE HelperDies \/ Tick \/ (\E layout \in {"same", "other"} : Attach(layout))
             \/ UNCHANGED vars
    <2>1. UNCHANGED <<me, version, hdr>>
      BY <1>7, HelperFrame DEF vars
    <2>2. used'.claims = used.claims /\ used'.events = used.events
      BY <1>7, HelperFrame, CountsAre DEF vars
    <2> QED BY <2>1, <2>2, ClaimedSame
  <1> QED BY <1>1, <1>2, <1>3, <1>4, <1>5, <1>6, <1>7 DEF Next, Continue

----------------------------------------------------------------------------
(* The slots of a ring that is claimed once.                                  *)
\* The numbers that are compared.
LEMMA NumbersNow ==
    ASSUME TypeOK
    PROVE  /\ used.events \in Nat /\ used.claims \in Nat
           /\ \A r \in Rings : /\ hdr[r].writeSeq \in Nat /\ hdr[r].readSeq \in Nat
                             /\ hdr[r].generation \in Nat
                             /\ \A i \in Cells : version[r][i].seq \in Nat
  <1>1. used.events \in Nat /\ used.claims \in Nat
    BY Constants DEF TypeOK, UsedFields
  <1>2. ASSUME NEW r \in Rings, NEW i \in Cells PROVE version[r][i].seq \in Nat
    <2>1. version[r][i] \in Version
      BY DEF TypeOK
    <2> QED BY <2>1 DEF Version
  <1> QED BY <1>1, <1>2 DEF TypeOK, HeaderFields

\* The same of the next state.
LEMMA NumbersNext ==
    ASSUME TypeOK'
    PROVE  /\ used'.events \in Nat
           /\ \A r \in Rings : /\ hdr'[r].writeSeq \in Nat /\ hdr'[r].readSeq \in Nat
                             /\ hdr'[r].generation \in Nat
                             /\ \A i \in Cells : version'[r][i].seq \in Nat
  <1>1. used'.events \in Nat
    BY Constants DEF TypeOK, UsedFields
  <1>2. ASSUME NEW r \in Rings, NEW i \in Cells PROVE version'[r][i].seq \in Nat
    <2>1. version'[r][i] \in Version
      BY DEF TypeOK
    <2> QED BY <2>1 DEF Version
  <1> QED BY <1>1, <1>2 DEF TypeOK, HeaderFields

\* A ring that a step leaves alone.
LEMMA OrderedSame ==
    ASSUME TypeOK, TypeOK', NEW r \in Rings, Ordered(r), used'.events >= used.events,
           hdr'[r].writeSeq = hdr[r].writeSeq, hdr'[r].generation >= hdr[r].generation,
           version'[r] = version[r], event'[r] = event[r]
    PROVE  Ordered(r)'
  <1>0. /\ used.events \in Nat /\ used'.events \in Nat /\ hdr[r].writeSeq \in Nat
        /\ hdr[r].generation \in Nat /\ hdr'[r].generation \in Nat
        /\ \A i \in Cells : version[r][i].seq \in Nat
    BY NumbersNow, NumbersNext
  <1>1. Unused(r)'
    BY <1>0 DEF Ordered, Unused
  <1>2. Bounded(r)'
    BY <1>0 DEF Ordered, Bounded
  <1>3. Reaching(r)' /\ Beyond(r)' /\ Stored(r)'
    BY DEF Ordered, Reaching, Beyond, Stored
  <1> QED BY <1>1, <1>2, <1>3 DEF Ordered

\* The first mark: a slot of the thread's ring holds the next sequence.
LEMMA OrderedMark ==
    ASSUME TypeOK, TypeOK', AllSteady, OnceClaimed, NEW p \in Producers, Invalidate(p),
           Ordered(me[p].ring)
    PROVE  Ordered(me[p].ring)'
  <1>0. /\ me[p].pc = "invalidate" /\ UNCHANGED <<hdr, event, used>> /\ me'[p].ring = me[p].ring
        /\ \A i \in Cells \ {Slot(p)} : version'[me[p].ring][i] = version[me[p].ring][i]
    BY InvalidateIs, Frame
  <1>1. PICK r \in Rings, s \in Nat : /\ r = me[p].ring /\ s = Next1(p) /\ Has(p)
                                      /\ hdr[r].writeSeq = s - 1 /\ Slot(p) \in Cells
    <2>1. /\ me[p].ring \in Rings /\ Has(p) /\ Slot(p) \in Cells
          /\ Next1(p) \in Nat /\ hdr[me[p].ring].writeSeq = Next1(p) - 1
      BY <1>0, WriterIs DEF Writing
    <2> QED BY <2>1
  <1>2. used.events = s /\ hdr[r].generation > 0
    BY <1>0, <1>1 DEF OnceClaimed, Orderly, InOrder, Begun, Copying
  <1>3. version'[r][Slot(p)].seq = s /\ version'[r][Slot(p)].writing
    <2>1. version'[r][Slot(p)] = [seq |-> s, writing |-> TRUE]
      BY <1>1, InvalidateMarks
    <2> QED BY <2>1
  <1>4. Unused(r)'
    BY <1>0, <1>2 DEF Unused
  <1>5. Bounded(r)'
    BY <1>0, <1>1, <1>2, <1>3 DEF Ordered, Bounded
  <1>6. Reaching(r)'
    <2>1. ASSUME NEW n \in 1 .. hdr[r].writeSeq PROVE version'[r][SlotAt(n)].seq >= n
      <3>1. SlotAt(n) \in Cells
        BY SlotInCells, <1>1
      <3>2. CASE SlotAt(n) = Slot(p)
        BY <1>1, <1>3, <3>2
      <3>3. CASE SlotAt(n) # Slot(p)
        BY <1>0, <1>1, <3>1, <3>3 DEF Ordered, Reaching
      <3> QED BY <3>2, <3>3
    <2> QED BY <1>0, <2>1 DEF Reaching
  <1>7. Beyond(r)'
    BY <1>0, <1>1, <1>3 DEF Ordered, Beyond
  <1>8. Stored(r)'
    BY <1>0, <1>1, <1>3 DEF Ordered, Stored
  <1> QED BY <1>0, <1>1, <1>4, <1>5, <1>6, <1>7, <1>8 DEF Ordered

\* A word goes into a slot that is marked as being written.
LEMMA OrderedCopy ==
    ASSUME TypeOK, TypeOK', AllSteady, NEW p \in Producers, NEW w \in Words, CopyIn(p, w),
           Ordered(me[p].ring)
    PROVE  Ordered(me[p].ring)'
  <1>0. /\ me[p].pc = "copy" /\ UNCHANGED <<hdr, version, used>> /\ me'[p].ring = me[p].ring
        /\ \A i \in Cells \ {Slot(p)} : event'[me[p].ring][i] = event[me[p].ring][i]
    BY CopyInIs, Frame
  <1>1. PICK r \in Rings : r = me[p].ring
    BY <1>0, WriterIs DEF Writing
  <1>2. version[r][Slot(p)].writing
    <2>1. version[r][Slot(p)] = [seq |-> Next1(p), writing |-> TRUE]
      BY <1>0, <1>1 DEF AllSteady, Steady, Marking
    <2> QED BY <2>1
  <1>3. Unused(r)' /\ Bounded(r)' /\ Reaching(r)' /\ Beyond(r)'
    BY <1>0, <1>1 DEF Ordered, Unused, Bounded, Reaching, Beyond
  <1>4. Stored(r)'
    BY <1>0, <1>1, <1>2 DEF Ordered, Stored
  <1> QED BY <1>0, <1>1, <1>3, <1>4 DEF Ordered

\* The second mark: the slot holds the record of its sequence.
LEMMA OrderedStore ==
    ASSUME TypeOK, TypeOK', AllSteady, OnceClaimed, NEW p \in Producers, StoreVersion(p),
           Ordered(me[p].ring)
    PROVE  Ordered(me[p].ring)'
  <1>0. /\ me[p].pc = "version" /\ UNCHANGED <<hdr, event, used>> /\ me'[p].ring = me[p].ring
        /\ \A i \in Cells \ {Slot(p)} : version'[me[p].ring][i] = version[me[p].ring][i]
    BY StoreVersionIs, Frame DEF Steps
  <1>1. PICK r \in Rings, s \in Nat : /\ r = me[p].ring /\ s = Next1(p) /\ Has(p)
                                      /\ hdr[r].writeSeq = s - 1 /\ Slot(p) \in Cells
    <2>1. /\ me[p].ring \in Rings /\ Has(p) /\ Slot(p) \in Cells
          /\ Next1(p) \in Nat /\ hdr[me[p].ring].writeSeq = Next1(p) - 1
      BY <1>0, WriterIs DEF Writing
    <2> QED BY <2>1
  <1>2. used.events = s /\ hdr[r].generation > 0 /\ me[p].record = s
    BY <1>0, <1>1 DEF OnceClaimed, Orderly, InOrder, Begun, Copying
  <1>3. version'[r][Slot(p)].seq = s /\ ~version'[r][Slot(p)].writing
    <2>1. version'[r][Slot(p)] = [seq |-> s, writing |-> FALSE]
      BY <1>1, StoreVersionMarks
    <2> QED BY <2>1
  <1>4. Unused(r)'
    BY <1>0, <1>2 DEF Unused
  <1>5. Bounded(r)'
    BY <1>0, <1>1, <1>2, <1>3 DEF Ordered, Bounded
  <1>6. Reaching(r)'
    <2>1. ASSUME NEW n \in 1 .. hdr[r].writeSeq PROVE version'[r][SlotAt(n)].seq >= n
      <3>1. SlotAt(n) \in Cells
        BY SlotInCells, <1>1
      <3>2. CASE SlotAt(n) = Slot(p)
        BY <1>1, <1>3, <3>2
      <3>3. CASE SlotAt(n) # Slot(p)
        BY <1>0, <1>1, <3>1, <3>3 DEF Ordered, Reaching
      <3> QED BY <3>2, <3>3
    <2> QED BY <1>0, <2>1 DEF Reaching
  <1>7. Beyond(r)'
    BY <1>0, <1>1, <1>3 DEF Ordered, Beyond
  <1>8. Stored(r)'
    <2>1. \A w \in Words : event[r][Slot(p)][w] = s
      BY <1>0, <1>1, <1>2 DEF AllSteady, Steady, Storing
    <2> QED BY <1>0, <1>1, <1>3, <2>1 DEF Ordered, Stored
  <1> QED BY <1>0, <1>1, <1>4, <1>5, <1>6, <1>7, <1>8 DEF Ordered

\* The record becomes visible.
LEMMA OrderedAdvance ==
    ASSUME TypeOK, TypeOK', AllSteady, OnceClaimed, NEW p \in Producers, Advance(p),
           Ordered(me[p].ring)
    PROVE  Ordered(me[p].ring)'
  <1>0. /\ me[p].pc = "advance" /\ UNCHANGED <<version, event, used>> /\ me'[p].ring = me[p].ring
        /\ hdr'[me[p].ring].writeSeq = Next1(p)
        /\ hdr'[me[p].ring].generation = hdr[me[p].ring].generation
    BY AdvanceIs, Frame DEF Counters
  <1>1. PICK r \in Rings, s \in Nat : /\ r = me[p].ring /\ s = Next1(p) /\ Has(p)
                                      /\ hdr[r].writeSeq = s - 1 /\ Slot(p) \in Cells
    <2>1. /\ me[p].ring \in Rings /\ Has(p) /\ Slot(p) \in Cells
          /\ Next1(p) \in Nat /\ hdr[me[p].ring].writeSeq = Next1(p) - 1
      BY <1>0, WriterIs DEF Writing
    <2> QED BY <2>1
  <1>2. used.events = s /\ hdr[r].generation > 0 /\ \A i \in Cells : ~version[r][i].writing
    BY <1>0, <1>1 DEF OnceClaimed, Orderly, InOrder, Begun, Marked, Copying
  <1>3. version[r][SlotAt(s)].seq = s
    <2>1. version[r][SlotAt(s)] = [seq |-> s, writing |-> FALSE]
      BY <1>0, <1>1 DEF AllSteady, Steady, Marking, Slot, Next1
    <2> QED BY <2>1
  <1>4. Unused(r)' /\ Bounded(r)' /\ Beyond(r)' /\ Stored(r)'
    BY <1>0, <1>1, <1>2 DEF Ordered, Unused, Bounded, Beyond, Stored
  <1>5. Reaching(r)'
    <2>1. \A n \in 1 .. s : n \in 1 .. hdr[r].writeSeq \/ n = s
      BY <1>1
    <2> QED BY <1>0, <1>1, <1>3, <2>1 DEF Ordered, Reaching
  <1> QED BY <1>0, <1>1, <1>4, <1>5 DEF Ordered

\* A ring's cursor is reset while nothing was published.
LEMMA OrderedBegin ==
    ASSUME TypeOK, TypeOK', OnceClaimed, NEW p \in Producers, BeginGeneration(p),
           NEW r \in Rings, Ordered(r)
    PROVE  Ordered(r)'
  <1>0. UNCHANGED <<version, event, used>> /\ used.events \in Nat
    BY Frame, Constants DEF TypeOK, UsedFields
  <1>1. hdr'[r].writeSeq = hdr[r].writeSeq /\ hdr'[r].generation >= hdr[r].generation
    <2>1. CASE r # me[p].ring
      <3>1. hdr'[r] = hdr[r] /\ hdr[r].generation \in Nat
        BY <2>1, BeginIs, NumbersNow DEF Counters
      <3> QED BY <3>1
    <2>2. CASE r = me[p].ring
      <3>1. me[p].pc \in {"writeSeq", "readSeq", "rest", "generation"}
        BY BeginIs
      <3>2. hdr[r].generation = 0
        BY <3>1 DEF OnceClaimed, Orderly, Untouched, Resetting
      <3>3. hdr[r].writeSeq = 0
        BY <3>2 DEF Ordered, Unused
      <3>4. hdr[r].generation \in Nat
        BY <3>2
      <3> QED BY <2>2, <3>3, <3>4, BeginIs DEF Counters
    <2> QED BY <2>1, <2>2
  <1> QED BY <1>0, <1>1, OrderedSame

\* A step that changes one ring's slots or cursor leaves the others alone.
LEMMA OrderedOthers ==
    ASSUME TypeOK, TypeOK', Sequenced, UNCHANGED used, NEW r \in Rings, Ordered(r)',
           \A s \in Rings \ {r} : /\ hdr'[s] = hdr[s] /\ version'[s] = version[s]
                                  /\ event'[s] = event[s]
    PROVE  Sequenced'
  <1>1. ASSUME NEW s \in Rings \ {r} PROVE Ordered(s)'
    <2>1. Ordered(s)
      BY DEF Sequenced, Ordered
    <2>2. used.events \in Nat /\ hdr[s].generation \in Nat
      BY Constants DEF TypeOK, UsedFields, HeaderFields
    <2> QED BY <2>1, <2>2, OrderedSame
  <1> QED BY <1>1 DEF Sequenced, Ordered

\* A step that changes no slot and no producer's cursor.
LEMMA SequencedSame ==
    ASSUME TypeOK, TypeOK', Sequenced, used'.events >= used.events, UNCHANGED <<version, event>>,
           \A r \in Rings : /\ hdr'[r].writeSeq = hdr[r].writeSeq
                            /\ hdr'[r].generation = hdr[r].generation
    PROVE  Sequenced'
  <1>1. ASSUME NEW r \in Rings PROVE Ordered(r)'
    <2>1. Ordered(r) /\ hdr[r].generation \in Nat
      BY DEF Sequenced, Ordered, TypeOK, HeaderFields
    <2> QED BY <2>1, OrderedSame
  <1> QED BY <1>1 DEF Sequenced, Ordered

\* Every step leaves the slots in order.
LEMMA SequencedStep ==
    ASSUME TypeOK, TypeOK', setup.stale = 0, AllSteady, OnceClaimed, Sequenced, [Next]_vars
    PROVE  Sequenced'
  <1>0. used.events \in Nat /\ \A r \in Rings : Ordered(r)
    BY Constants DEF TypeOK, UsedFields, Sequenced, Ordered
  <1>1. ASSUME NEW p \in Producers, \/ Claim(p) \/ Publish(p) \/ ScanRing(p) \/ Steal(p)
                                    \/ LoadPublished(p) \/ Die(p)
        PROVE  Sequenced'
    <2>1. UNCHANGED <<hdr, version, event>>
      BY <1>1, Frame
    <2>2. used'.events \in {used.events, used.events + 1}
      <3>1. CASE Claim(p) \/ Publish(p) \/ Die(p)
        BY <3>1, ClaimsAre, PublishIs, DieIs
      <3>2. CASE ScanRing(p) \/ Steal(p) \/ LoadPublished(p)
        BY <3>2, Frame
      <3> QED BY <1>1, <3>1, <3>2
    <2>3. used'.events >= used.events
      BY <1>0, <2>2
    <2> QED BY <2>1, <2>3, SequencedSame
  <1>2. ASSUME NEW p \in Producers, ClaimCas(p) \/ Release(p) \/ Touch(p) \/ StealCas(p)
        PROVE  Sequenced'
    <2>1. UNCHANGED <<version, event, used>> /\ used'.events >= used.events
      BY <1>0, <1>2, Frame
    <2>2. \A r \in Rings : /\ hdr'[r].writeSeq = hdr[r].writeSeq
                           /\ hdr'[r].generation = hdr[r].generation
      BY <1>2, ClaimCasIs, ReleaseIs, TouchIs, StealCasIs DEF Takes, Counters
    <2> QED BY <2>1, <2>2, SequencedSame
  <1>3. ASSUME NEW p \in Producers, BeginGeneration(p) PROVE Sequenced'
    BY <1>0, <1>3, OrderedBegin DEF Sequenced, Ordered
  <1>4. ASSUME NEW p \in Producers, Invalidate(p) PROVE Sequenced'
    <2>1. UNCHANGED <<hdr, event, used>> /\ me[p].ring \in Rings /\ me'[p].ring = me[p].ring
          /\ \A r \in Rings \ {me[p].ring} : version'[r] = version[r]
      BY <1>4, InvalidateIs, Frame
    <2>2. Ordered(me[p].ring)'
      BY <1>0, <1>4, <2>1, OrderedMark
    <2>3. PICK r \in Rings : r = me[p].ring /\ Ordered(r)'
      BY <2>1, <2>2
    <2> QED BY <2>1, <2>3, OrderedOthers
  <1>5. ASSUME NEW p \in Producers, NEW w \in Words, CopyIn(p, w) PROVE Sequenced'
    <2>1. UNCHANGED <<hdr, version, used>> /\ me[p].ring \in Rings /\ me'[p].ring = me[p].ring
          /\ \A r \in Rings \ {me[p].ring} : event'[r] = event[r]
      BY <1>5, CopyInIs, Frame
    <2>2. Ordered(me[p].ring)'
      BY <1>0, <1>5, <2>1, OrderedCopy
    <2>3. PICK r \in Rings : r = me[p].ring /\ Ordered(r)'
      BY <2>1, <2>2
    <2> QED BY <2>1, <2>3, OrderedOthers
  <1>6. ASSUME NEW p \in Producers, StoreVersion(p) PROVE Sequenced'
    <2>1. UNCHANGED <<hdr, event, used>> /\ me[p].ring \in Rings /\ me'[p].ring = me[p].ring
          /\ \A r \in Rings \ {me[p].ring} : version'[r] = version[r]
      BY <1>6, StoreVersionIs, Frame DEF Steps
    <2>2. Ordered(me[p].ring)'
      BY <1>0, <1>6, <2>1, OrderedStore
    <2>3. PICK r \in Rings : r = me[p].ring /\ Ordered(r)'
      BY <2>1, <2>2
    <2> QED BY <2>1, <2>3, OrderedOthers
  <1>7. ASSUME NEW p \in Producers, Advance(p) PROVE Sequenced'
    <2>1. UNCHANGED <<version, event, used>> /\ me[p].ring \in Rings /\ me'[p].ring = me[p].ring
          /\ \A r \in Rings \ {me[p].ring} : hdr'[r] = hdr[r]
      BY <1>7, AdvanceIs, Frame DEF Counters
    <2>2. Ordered(me[p].ring)'
      BY <1>0, <1>7, <2>1, OrderedAdvance
    <2>3. PICK r \in Rings : r = me[p].ring /\ Ordered(r)'
      BY <2>1, <2>2
    <2> QED BY <2>1, <2>3, OrderedOthers
  <1>8. CASE Drain
    <2>1. UNCHANGED <<version, event, used>> /\ used'.events >= used.events
      BY <1>0, <1>8, HelperFrame
    <2>2. \A r \in Rings : /\ hdr'[r].writeSeq = hdr[r].writeSeq
                           /\ hdr'[r].generation = hdr[r].generation
      BY <1>8, HelperFrame, WriteBackIs DEF Counters
    <2> QED BY <2>1, <2>2, SequencedSame
  <1>9. CASE HelperDies \/ Tick \/ (\E layout \in {"same", "other"} : Attach(layout))
             \/ UNCHANGED vars
    <2>1. UNCHANGED <<version, event, hdr>>
      BY <1>9, HelperFrame DEF vars
    <2>2. used'.events = used.events
      BY <1>9, HelperFrame, CountsAre DEF vars
    <2> QED BY <1>0, <2>1, <2>2, SequencedSame
  <1> QED BY <1>1, <1>2, <1>3, <1>4, <1>5, <1>6, <1>7, <1>8, <1>9 DEF Next, Continue

----------------------------------------------------------------------------
(* What the cursors pass.                                                     *)
\* Division with remainder.
LEMMA Division ==
    ASSUME NEW n \in Nat, NEW k \in Nat \ {0}
    PROVE  n \div k \in Nat /\ n % k \in 0 .. k - 1 /\ n = k * (n \div k) + (n % k)
  OBVIOUS

\* The remainder is determined by the quotient and the bound.
LEMMA Remainder ==
    ASSUME NEW k \in Nat \ {0}, NEW q \in Nat, NEW r \in 0 .. k - 1
    PROVE  (k * q + r) % k = r
  <1>1. PICK n \in Nat : n = k * q + r
    <2>1. k * q \in Nat OBVIOUS
    <2> QED BY <2>1
  <1>2. PICK p \in Nat, s \in 0 .. k - 1 : n = k * p + s /\ s = n % k
    BY Division
  <1>3. k * (p - q) = r - s
    <2>1. k * (p - q) = k * p - k * q OBVIOUS
    <2>2. k * p + s = k * q + r
      BY <1>1, <1>2
    <2>3. PICK a \in Nat, b \in Nat : a = k * p /\ b = k * q
      OBVIOUS
    <2>4. a - b = r - s
      BY <2>2, <2>3
    <2> QED BY <2>1, <2>3, <2>4
  <1>4. ~ (p - q >= 1)
    <2> SUFFICES ASSUME p - q >= 1 PROVE FALSE
      OBVIOUS
    <2>1. k * (p - q) >= k OBVIOUS
    <2> QED BY <1>3, <2>1
  <1>5. ~ (p - q <= -1)
    <2> SUFFICES ASSUME p - q <= -1 PROVE FALSE
      OBVIOUS
    <2>1. k * (p - q) <= -k OBVIOUS
    <2> QED BY <1>3, <2>1
  <1>6. p = q
    BY <1>4, <1>5
  <1>7. r = s
    BY <1>1, <1>2, <1>6
  <1> QED BY <1>1, <1>2, <1>7

\* Among any Capacity records in a row, one is kept in the slot of e.
LEMMA SameSlot ==
    ASSUME NEW e \in Nat \ {0}, NEW s \in Nat, s >= e
    PROVE  \E t \in e .. s : s < t + Capacity /\ SlotAt(t) = SlotAt(e)
  <1>1. PICK k \in Nat \ {0} : k = Capacity
    BY Constants
  <1>2. PICK q \in Nat, m \in 0 .. k - 1 : s - e = k * q + m
    <2>1. /\ (s - e) \div k \in Nat /\ (s - e) % k \in 0 .. k - 1
          /\ s - e = k * ((s - e) \div k) + ((s - e) % k)
      <3>1. s - e \in Nat OBVIOUS
      <3> QED BY <3>1, Division
    <2> QED BY <2>1
  <1>3. PICK a \in Nat, b \in 0 .. k - 1 : e - 1 = k * a + b
    <2>1. /\ (e - 1) \div k \in Nat /\ (e - 1) % k \in 0 .. k - 1
          /\ e - 1 = k * ((e - 1) \div k) + ((e - 1) % k)
      <3>1. e - 1 \in Nat OBVIOUS
      <3> QED BY <3>1, Division
    <2> QED BY <2>1
  <1>4. PICK t \in Nat : t = s - m /\ t = e + k * q /\ t \in e .. s /\ s < t + k
    <2>1. k * q \in Nat
      BY <1>1
    <2> QED BY <1>2, <2>1
  <1>5. t - 1 = k * (a + q) + b
    <2>1. k * q \in Nat /\ k * a \in Nat /\ k * (a + q) = k * a + k * q
      BY <1>1
    <2> QED BY <1>3, <1>4, <2>1
  <1>6. (t - 1) % k = b /\ (e - 1) % k = b
    <2>1. a + q \in Nat
      OBVIOUS
    <2> QED BY <1>3, <1>5, <2>1, Remainder
  <1> QED BY <1>1, <1>4, <1>6 DEF SlotAt

\* What is delivered and what a slot is marked with only grows.
Grows == /\ \A r \in Rings, i \in Cells : version'[r][i].seq >= version[r][i].seq
         /\ \A e \in Events : delivered'[e] >= delivered[e]
         /\ used'.events >= used.events

\* A record that was delivered or lapped stays so.
LEMMA SettledStays ==
    ASSUME TypeOK, TypeOK', Grows, NEW r \in Rings, NEW n \in Int, AllSettled(r, n)
    PROVE  AllSettled(r, n)'
  <1>0. used.events \in Nat /\ used'.events \in Nat /\ used'.events >= used.events
        /\ used.events <= MaxEvents
    BY NumbersNow, NumbersNext, Constants DEF Grows, TypeOK, UsedFields, Events
  <1>1. n <= used.events /\ n <= used'.events
    BY <1>0 DEF AllSettled
  <1>2. ASSUME NEW s \in 1 .. n PROVE Settled(r, s)'
    <2>1. s \in Events
      BY <1>0, <1>1, Constants DEF Events
    <2>2. delivered[s] \in Nat /\ delivered'[s] \in Nat /\ delivered'[s] >= delivered[s]
      BY <2>1 DEF Grows, TypeOK
    <2>3. CASE delivered[s] > 0
      BY <2>2, <2>3 DEF Settled
    <2>4. CASE Overtaken(r, s)
      <3>1. PICK t \in 1 .. s : s < t + Capacity /\ version[r][SlotAt(t)].seq > t
        BY <2>4 DEF Overtaken
      <3>2. SlotAt(t) \in Cells
        BY SlotInCells
      <3>3. version'[r][SlotAt(t)].seq > t
        BY <3>1, <3>2, NumbersNow, NumbersNext DEF Grows
      <3> QED BY <3>1, <3>3 DEF Settled, Overtaken
    <2> QED BY <2>3, <2>4 DEF AllSettled, Settled
  <1> QED BY <1>1, <1>2 DEF AllSettled

\* The drain finds its slot marked with a later record: it was lapped, and so
\* was it for every record before that one.
LEMMA LappedUpTo ==
    ASSUME TypeOK, NEW r \in Rings, NEW e \in Nat \ {0}, NEW v \in Nat,
           v = version[r][SlotAt(e)].seq, v > e, v <= used.events, AllSettled(r, e - 1)
    PROVE  AllSettled(r, v - 1)
  <1>0. used.events \in Nat
    BY NumbersNow
  <1>1. ASSUME NEW s \in 1 .. v - 1 PROVE Settled(r, s)
    <2>1. CASE s < e
      BY <2>1 DEF AllSettled
    <2>2. CASE s >= e
      <3>1. PICK t \in e .. s : s < t + Capacity /\ SlotAt(t) = SlotAt(e)
        BY <2>2, SameSlot
      <3>2. t \in 1 .. s /\ version[r][SlotAt(t)].seq > t
        BY <3>1
      <3> QED BY <3>1, <3>2 DEF Settled, Overtaken
    <2> QED BY <2>1, <2>2
  <1>2. v - 1 <= used.events
    BY <1>0
  <1> QED BY <1>1, <1>2 DEF AllSettled

\* The first load sends the drain on only behind the record the slot is marked with.
LEMMA LoadV1Jumps ==
    ASSUME TypeOK, LoadV1, c'.pc = "writeSeq"
    PROVE  \/ Looked.seq > c.expect /\ c'.expect = Looked.seq
           \/ Looked.seq < c.expect
  <1>0. ConsumerFields(c) /\ c.pc = "v1" /\ c.expect \in Nat \ {0}
    BY DEF TypeOK, ConsumerFields, LoadV1
  <1>v. PICK v \in Version : v = Looked
    BY <1>0, SlotInCells DEF TypeOK, ConsumerFields, Looked
  <1>1. v.seq \in Nat
    BY DEF Version
  <1> DEFINE seen == [c EXCEPT !.v1 = v]
  <1>s. /\ DOMAIN seen = DOMAIN c /\ seen.expect = c.expect
    BY <1>0 DEF ConsumerFields
  <1>2. CASE v.writing
    <2>1. c' = [seen EXCEPT !.pc = "check"]
      BY <1>2, <1>v DEF LoadV1, Looked, Deferred
    <2>2. c'.pc = "check"
      BY <1>0, <1>s, <2>1 DEF ConsumerFields
    <2> QED BY <2>2
  <1>3. CASE ~v.writing /\ v.seq > c.expect
    <2>1. c' = [seen EXCEPT !.stats.dropped = @ + Gap(v.seq, c.expect),
                            !.expect = v.seq, !.pc = "writeSeq"]
      BY <1>3, <1>v, <1>0, <1>1 DEF LoadV1, Looked
    <2>2. c'.expect = v.seq
      BY <1>0, <1>s, <2>1 DEF ConsumerFields
    <2> QED BY <1>3, <1>v, <2>2
  <1>4. CASE ~v.writing /\ v.seq = c.expect
    <2>1. c' = [seen EXCEPT !.left = Words, !.pc = "copy"]
      BY <1>4, <1>v, <1>0 DEF LoadV1, Looked
    <2>2. c'.pc = "copy"
      BY <1>0, <1>s, <2>1 DEF ConsumerFields
    <2> QED BY <2>2
  <1>5. v.seq < c.expect => Looked.seq < c.expect
    BY <1>v
  <1>6. v.writing \/ v.seq > c.expect \/ v.seq = c.expect \/ v.seq < c.expect
    BY <1>0, <1>1
  <1> QED BY <1>2, <1>3, <1>4, <1>5, <1>6

\* A copy that is accepted in its generation counts as delivered.
LEMMA LoadV2Delivers ==
    ASSUME TypeOK, LoadV2, Accepts, Current, NEW x \in Events, x = c.copy["head"]
    PROVE  delivered'[x] > 0
  <1>1. delivered[x] \in Nat
    BY DEF TypeOK
  <1>2. PICK n \in Nat : n = (IF Current /\ delivered[x] < 2 THEN delivered[x] + 1
                              ELSE delivered[x]) /\ n > 0
    BY <1>1
  <1>3. delivered' = [delivered EXCEPT ![x] = n]
    BY <1>2 DEF LoadV2, Current, TypeOK
  <1> QED BY <1>2, <1>3 DEF TypeOK

\* A thread's step only adds to what was published, and moves no drain.
LEMMA PassedProducer ==
    ASSUME TypeOK, TypeOK', Draining, Passed, Grows, UNCHANGED c,
           \A r \in Rings : /\ hdr'[r].readSeq \in {hdr[r].readSeq, 0}
                            /\ hdr'[r].writeSeq >= hdr[r].writeSeq
                            /\ hdr'[r].generation >= hdr[r].generation
    PROVE  Passed'
  <1>0. /\ c.ring \in Rings /\ c.expect \in Nat /\ c.generation \in Nat
        /\ used'.events \in Nat
        /\ hdr[c.ring].generation \in Nat /\ hdr'[c.ring].generation \in Nat
        /\ hdr[c.ring].writeSeq \in Nat /\ hdr'[c.ring].writeSeq \in Nat
    BY NumbersNow, NumbersNext DEF TypeOK, ConsumerFields
  <1>1. ASSUME NEW r \in Rings PROVE AllSettled(r, hdr[r].readSeq)'
    <2>1. PICK n \in Nat : n = hdr[r].readSeq
      BY NumbersNow
    <2>2. AllSettled(r, n)'
      BY <2>1, SettledStays DEF Passed
    <2>3. CASE hdr'[r].readSeq = n
      BY <2>2, <2>3 DEF AllSettled
    <2>4. CASE hdr'[r].readSeq = 0
      BY <1>0, <2>4 DEF AllSettled
    <2> QED BY <2>1, <2>3, <2>4
  <1>2. ASSUME c.pc \notin {"idle", "readSeq", "generation"}, Current' PROVE Current
    <2>1. c.generation <= hdr[c.ring].generation
      BY <1>2 DEF Draining, NotNewer
    <2>2. hdr'[c.ring].generation = c.generation
      BY <1>2 DEF Current
    <2> QED BY <1>0, <2>1, <2>2 DEF Current
  <1>3. ASSUME Going' PROVE AllSettled(c.ring, c.expect - 1)'
    <2>1. Going
      BY <1>2, <1>3 DEF Going
    <2>2. PICK r \in Rings, n \in Int : r = c.ring /\ n = c.expect - 1
      BY <1>0
    <2>3. AllSettled(r, n)'
      BY <2>1, <2>2, SettledStays DEF Passed
    <2> QED BY <2>2, <2>3 DEF AllSettled, Settled, Overtaken
  <1>4. Reached'
    BY <1>0, <1>2 DEF Passed, Reached
  <1> QED BY <1>1, <1>3, <1>4 DEF Passed

\* What a thread's step marks a slot with is the latest record.
LEMMA MarksGrow ==
    ASSUME TypeOK, Sequenced, OnceClaimed, AllSteady, NEW p \in Producers,
           Invalidate(p) \/ StoreVersion(p)
    PROVE  \A r \in Rings, i \in Cells : version'[r][i].seq >= version[r][i].seq
  <1>0. /\ me[p].pc \in {"invalidate", "version"} /\ me[p].ring \in Rings
        /\ \A r \in Rings \ {me[p].ring} : version'[r] = version[r]
        /\ \A i \in Cells \ {Slot(p)} : version'[me[p].ring][i] = version[me[p].ring][i]
    BY InvalidateIs, StoreVersionIs
  <1>1. version'[me[p].ring][Slot(p)].seq = Next1(p)
    <2>1. CASE Invalidate(p)
      <3>1. version'[me[p].ring][Slot(p)] = [seq |-> Next1(p), writing |-> TRUE]
        BY <2>1, InvalidateMarks
      <3> QED BY <3>1
    <2>2. CASE StoreVersion(p)
      <3>1. version'[me[p].ring][Slot(p)] = [seq |-> Next1(p), writing |-> FALSE]
        BY <2>2, StoreVersionMarks
      <3> QED BY <3>1
    <2> QED BY <2>1, <2>2
  <1>2. Next1(p) = used.events
    BY <1>0 DEF OnceClaimed, Orderly, InOrder, Copying
  <1>3. ASSUME NEW r \in Rings, NEW i \in Cells PROVE version'[r][i].seq >= version[r][i].seq
    <2>1. version[r][i].seq \in Nat /\ version[r][i].seq <= used.events
      BY NumbersNow DEF Sequenced, Ordered, Bounded
    <2>2. CASE r = me[p].ring /\ i = Slot(p)
      BY <1>1, <1>2, <2>1, <2>2
    <2>3. CASE ~(r = me[p].ring /\ i = Slot(p))
      <3>1. version'[r][i] = version[r][i]
        BY <1>0, <2>3
      <3> QED BY <2>1, <3>1
    <2> QED BY <2>2, <2>3
  <1> QED BY <1>3

\* The step of a drain, by what it does to the cursor.
LEMMA PassedDrain ==
    ASSUME TypeOK, TypeOK', Passed, UNCHANGED <<version, used>>,
           \A e \in Events : delivered'[e] >= delivered[e],
           \A r \in Rings : /\ hdr'[r].writeSeq = hdr[r].writeSeq
                            /\ hdr'[r].generation = hdr[r].generation
                            /\ \/ hdr'[r].readSeq = hdr[r].readSeq
                               \/ r = c.ring /\ Going /\ hdr'[r].readSeq = c.expect - 1,
           Going' => AllSettled(c.ring, c.expect - 1)',
           Reached'
    PROVE  Passed'
  <1>0. /\ c.ring \in Rings /\ c.expect \in Nat \ {0} /\ used.events \in Nat
    BY NumbersNow DEF TypeOK, ConsumerFields
  <1>1. Grows
    BY NumbersNow DEF Grows
  <1>2. ASSUME NEW r \in Rings PROVE AllSettled(r, hdr[r].readSeq)'
    <2>1. PICK n \in Nat : /\ n = hdr'[r].readSeq /\ AllSettled(r, n)
      <3>1. CASE hdr'[r].readSeq = hdr[r].readSeq
        BY <3>1, NumbersNow DEF Passed
      <3>2. CASE r = c.ring /\ Going /\ hdr'[r].readSeq = c.expect - 1
        BY <1>0, <3>2 DEF Passed
      <3> QED BY <3>1, <3>2
    <2>2. AllSettled(r, n)'
      BY <1>1, <2>1, SettledStays
    <2> QED BY <2>1, <2>2 DEF AllSettled, Settled, Overtaken
  <1> QED BY <1>2 DEF Passed

\* The loads of the header: the drain begins where the cursor is, and looks at a
\* slot only if its record was published.
LEMMA PassedHeader ==
    ASSUME TypeOK, TypeOK', Passed, LoadHeader \/ CheckGeneration \/ DrainAll \/ DrainNext,
           UNCHANGED <<version, used>>
    PROVE  Passed'
  <1>0. /\ UNCHANGED <<hdr, delivered>> /\ c.ring \in Rings /\ c.expect \in Nat \ {0}
        /\ \A e \in Events : delivered[e] \in Nat
    BY LoadHeaderIs, CheckIs, DrainAllIs DEF TypeOK, ConsumerFields
  <1>1. ASSUME Going' PROVE AllSettled(c.ring, c.expect - 1)'
    <2>1. c'.ring = c.ring
      BY <1>1, LoadHeaderIs, CheckIs, DrainAllIs DEF Moves, Going
    <2>2. PICK n \in Nat : n = c'.expect - 1 /\ AllSettled(c.ring, n)
      <3>1. CASE c.pc = "readSeq" /\ LoadHeader
        <4>1. PICK n \in Nat : n = hdr[c.ring].readSeq
          BY <1>0, NumbersNow
        <4>2. c'.expect - 1 = n
          BY <3>1, <4>1, LoadHeaderIs
        <4> QED BY <1>0, <4>1, <4>2 DEF Passed
      <3>2. CASE ~(c.pc = "readSeq" /\ LoadHeader)
        <4>1. Going /\ c'.expect = c.expect
          BY <1>0, <1>1, <3>2, LoadHeaderIs, CheckIs, DrainAllIs DEF Going, Current, Moves
        <4> QED BY <1>0, <4>1 DEF Passed
      <3> QED BY <3>1, <3>2
    <2> QED BY <1>0, <2>1, <2>2 DEF AllSettled, Settled, Overtaken
  <1>2. Reached'
    <2>1. CASE LoadHeader
      <3>1. hdr[c.ring].writeSeq \in Nat
        BY <1>0, NumbersNow
      <3> QED BY <1>0, <2>1, <3>1, LoadHeaderIs DEF Moves, Reached
    <2>2. CASE CheckGeneration
      BY <2>2, CheckIs DEF Reached
    <2>3. CASE DrainAll \/ DrainNext
      BY <2>3, DrainAllIs DEF Reached
    <2> QED BY <2>1, <2>2, <2>3
  <1> QED BY <1>0, <1>1, <1>2, PassedDrain

\* The first load: whatever it goes past was lapped.
LEMMA PassedLoadV1 ==
    ASSUME TypeOK, TypeOK', Sequenced, Passed, LoadV1, UNCHANGED <<version, used>>
    PROVE  Passed'
  <1>0. /\ UNCHANGED <<hdr, delivered>> /\ c.ring \in Rings /\ c.expect \in Nat \ {0}
        /\ \A e \in Events : delivered[e] \in Nat
        /\ c.pc = "v1" /\ c'.ring = c.ring /\ c'.generation = c.generation
    BY LoadV1Is DEF TypeOK, ConsumerFields
  <1>1. ASSUME Going' PROVE AllSettled(c.ring, c.expect - 1)'
    <2>0. Going /\ Current /\ AllSettled(c.ring, c.expect - 1)
      BY <1>0, <1>1, LoadV1Is DEF Going, Current, Passed
    <2>1. PICK n \in Nat : n = c'.expect - 1 /\ AllSettled(c.ring, n)
      <3>1. CASE c'.expect = c.expect
        BY <1>0, <2>0, <3>1
      <3>2. CASE c'.expect # c.expect
        <4>1. c.expect \in 1 .. hdr[c.ring].writeSeq
          BY <1>0, <2>0, NumbersNow DEF Passed, Reached
        <4>2. Looked.seq >= c.expect /\ Looked.seq \in Nat /\ Looked.seq <= used.events
          <5>1. SlotAt(c.expect) \in Cells
            BY <1>0, SlotInCells
          <5> QED BY <1>0, <4>1, <5>1, NumbersNow DEF Looked, Sequenced, Ordered, Reaching, Bounded
        <4>3. c'.pc = "writeSeq"
          BY <3>2, LoadV1Is
        <4>4. Looked.seq > c.expect /\ c'.expect = Looked.seq
          BY <1>0, <4>2, <4>3, LoadV1Jumps
        <4>5. PICK v \in Nat : v = Looked.seq
          BY <4>2
        <4>6. AllSettled(c.ring, v - 1)
          BY <1>0, <2>0, <4>2, <4>4, <4>5, LappedUpTo DEF Looked
        <4> QED BY <1>0, <4>4, <4>5, <4>6
      <3> QED BY <3>1, <3>2
    <2> QED BY <1>0, <2>1 DEF AllSettled, Settled, Overtaken
  <1>2. Reached'
    BY <1>0, LoadV1Is DEF Passed, Reached, Current
  <1> QED BY <1>0, <1>1, <1>2, PassedDrain

\* A word of the copy.
LEMMA PassedCopyOut ==
    ASSUME TypeOK, TypeOK', Passed, NEW w \in Words, CopyOut(w), UNCHANGED <<version, used>>
    PROVE  Passed'
  <1>0. /\ UNCHANGED <<hdr, delivered>> /\ c.ring \in Rings /\ c.expect \in Nat \ {0}
        /\ \A e \in Events : delivered[e] \in Nat
        /\ c.pc = "copy" /\ c'.pc \in {"copy", "v2"} /\ c'.ring = c.ring
        /\ c'.generation = c.generation /\ c'.expect = c.expect
    BY CopyOutIs DEF TypeOK, ConsumerFields
  <1>1. ASSUME Going' PROVE AllSettled(c.ring, c.expect - 1)'
    <2>1. AllSettled(c.ring, c.expect - 1)
      BY <1>0, <1>1 DEF Going, Current, Passed
    <2> QED BY <1>0, <2>1 DEF AllSettled, Settled, Overtaken
  <1>2. Reached'
    BY <1>0 DEF Passed, Reached, Current
  <1> QED BY <1>0, <1>1, <1>2, PassedDrain

\* The second load: the record was delivered, or its slot holds a later one by now.
LEMMA PassedLoadV2 ==
    ASSUME TypeOK, TypeOK', Draining, Sequenced, Passed, LoadV2, UNCHANGED <<version, used>>
    PROVE  Passed'
  <1>0. /\ UNCHANGED hdr /\ c.ring \in Rings /\ c.expect \in Nat \ {0}
        /\ c.pc = "v2" /\ c'.pc = "writeSeq" /\ c'.ring = c.ring
        /\ c'.generation = c.generation /\ c'.expect = c.expect + 1
        /\ c.left = {} /\ c.v1 = [seq |-> c.expect, writing |-> FALSE]
        /\ used.events \in Nat /\ used.events <= MaxEvents
    <2>1. /\ UNCHANGED hdr /\ c.pc = "v2" /\ c'.pc = "writeSeq" /\ c'.ring = c.ring
          /\ c'.generation = c.generation /\ c'.expect = c.expect + 1
      BY LoadV2Is
    <2>2. c.ring \in Rings /\ c.expect \in Nat \ {0}
      BY DEF TypeOK, ConsumerFields
    <2>3. c.left = {} /\ c.v1 = [seq |-> c.expect, writing |-> FALSE]
      BY <2>1 DEF Draining, Seen
    <2>4. used.events \in Nat /\ used.events <= MaxEvents
      BY Constants DEF TypeOK, UsedFields, Events
    <2> QED BY <2>1, <2>2, <2>3, <2>4
  <1>d. \A e \in Events : delivered'[e] >= delivered[e] /\ delivered[e] \in Nat
    <2>1. \A e \in Events : delivered[e] \in Nat
      BY DEF TypeOK
    <2> QED BY <2>1, LoadV2Is
  <1>g. Grows
    BY <1>0, <1>d, NumbersNow DEF Grows
  <1>1. ASSUME Going' PROVE AllSettled(c.ring, c.expect - 1)'
    <2>0. Going /\ Current /\ AllSettled(c.ring, c.expect - 1)
      BY <1>0, <1>1 DEF Going, Current, Passed
    <2>1. PICK r \in Rings, e \in Nat \ {0} : r = c.ring /\ e = c.expect
      BY <1>0
    <2>2. e \in 1 .. hdr[r].writeSeq /\ e <= used.events
      <3>1. e <= hdr[r].writeSeq /\ hdr[r].writeSeq \in Nat /\ hdr[r].writeSeq <= used.events
        BY <1>0, <2>0, <2>1, NumbersNow DEF Passed, Reached, Sequenced, Ordered, Bounded
      <3> QED BY <1>0, <3>1
    <2>3. SlotAt(e) \in Cells /\ version[r][SlotAt(e)] \in Version
      BY SlotInCells DEF TypeOK
    <2>4. Settled(r, e)'
      <3>1. CASE Accepts
        <4>1. version[r][SlotAt(e)] = [seq |-> e, writing |-> FALSE]
          BY <1>0, <2>1, <3>1 DEF Accepts
        <4>2. version[r][SlotAt(e)].seq = e /\ ~version[r][SlotAt(e)].writing
          BY <4>1
        <4>3. \A w \in Words : event[r][SlotAt(e)][w] = e
          BY <2>3, <4>2 DEF Sequenced, Ordered, Stored
        <4>4. "head" \in Words /\ "head" \notin c.left
          BY <1>0 DEF Words
        <4>5. c.copy["head"] = e
          BY <1>0, <2>0, <2>1, <3>1, <4>3, <4>4 DEF Draining, Copied
        <4>6. e \in Events
          BY <1>0, <2>2, Constants DEF Events
        <4>7. delivered'[e] > 0
          BY <2>0, <3>1, <4>5, <4>6, LoadV2Delivers
        <4> QED BY <4>7 DEF Settled
      <3>2. CASE ~Accepts
        <4>1. version[r][SlotAt(e)] # [seq |-> e, writing |-> FALSE]
          BY <1>0, <2>1, <3>2 DEF Accepts
        <4>2. PICK v \in Version : v = version[r][SlotAt(e)]
          BY <2>3
        <4>3. v.seq \in Nat /\ v.writing \in BOOLEAN /\ v.seq >= e
          BY <2>2, <4>2 DEF Version, Sequenced, Ordered, Reaching
        <4>4. v.seq = e => ~v.writing
          BY <2>2, <2>3, <4>2, NumbersNow DEF Sequenced, Ordered, Beyond
        <4>5. v.seq # e
          <5> SUFFICES ASSUME v.seq = e PROVE FALSE
            OBVIOUS
          <5>1. v = [seq |-> e, writing |-> FALSE]
            BY <4>4 DEF Version
          <5> QED BY <4>1, <4>2, <5>1
        <4>6. e \in 1 .. e /\ e < e + Capacity /\ version[r][SlotAt(e)].seq > e
          BY <4>2, <4>3, <4>5, Constants
        <4>7. Overtaken(r, e)
          BY <4>6 DEF Overtaken
        <4> QED BY <4>7 DEF Settled, Overtaken
      <3> QED BY <3>1, <3>2
    <2>5. AllSettled(r, e - 1)'
      BY <1>g, <2>0, <2>1, SettledStays
    <2>6. AllSettled(r, e)'
      <3>1. \A s \in 1 .. e : s \in 1 .. e - 1 \/ s = e
        OBVIOUS
      <3> QED BY <2>2, <2>4, <2>5, <3>1 DEF AllSettled
    <2>7. c'.expect - 1 = e
      BY <1>0, <2>1
    <2> QED BY <1>0, <2>1, <2>6, <2>7 DEF AllSettled, Settled, Overtaken
  <1>2. Reached'
    BY <1>0 DEF Reached
  <1> QED BY <1>0, <1>d, <1>1, <1>2, PassedDrain

\* The write-back moves the cursor to where the drain is.
LEMMA PassedWriteBack ==
    ASSUME TypeOK, TypeOK', Passed, WriteBack, UNCHANGED <<version, used>>
    PROVE  Passed'
  <1>0. UNCHANGED delivered /\ \A e \in Events : delivered[e] \in Nat
    BY WriteBackIs DEF TypeOK
  <1>1. /\ c'.pc \in {"drops", "totals"} /\ ~Going' /\ Reached'
    BY WriteBackIs DEF Going, Reached
  <1>2. \A r \in Rings : /\ hdr'[r].writeSeq = hdr[r].writeSeq
                         /\ hdr'[r].generation = hdr[r].generation
                         /\ \/ hdr'[r].readSeq = hdr[r].readSeq
                            \/ r = c.ring /\ Going /\ hdr'[r].readSeq = c.expect - 1
    BY WriteBackIs DEF Counters, Going
  <1> QED BY <1>0, <1>1, <1>2, PassedDrain

\* Every step leaves behind the cursors only what was delivered or lapped.
LEMMA PassedStep ==
    ASSUME TypeOK, TypeOK', setup.stale = 0, AllSteady, Draining, OnceClaimed, Sequenced, Passed,
           [Next]_vars
    PROVE  Passed'
  <1>0. /\ used.events \in Nat /\ \A e \in Events : delivered[e] \in Nat
        /\ \A r \in Rings : /\ hdr[r].writeSeq \in Nat /\ hdr[r].readSeq \in Nat
                            /\ hdr[r].generation \in Nat
                            /\ \A i \in Cells : version[r][i].seq \in Nat
    BY NumbersNow DEF TypeOK
  <1>1. ASSUME NEW p \in Producers, \/ Claim(p) \/ Publish(p) \/ ScanRing(p) \/ Steal(p)
                                    \/ LoadPublished(p) \/ Die(p)
        PROVE  Passed'
    <2>1. UNCHANGED <<hdr, version, c, delivered>>
      BY <1>1, Frame
    <2>2. used'.events \in {used.events, used.events + 1}
      <3>1. CASE Claim(p) \/ Publish(p) \/ Die(p)
        BY <3>1, ClaimsAre, PublishIs, DieIs
      <3>2. CASE ScanRing(p) \/ Steal(p) \/ LoadPublished(p)
        BY <3>2, Frame
      <3> QED BY <1>1, <3>1, <3>2
    <2>3. Grows
      BY <1>0, <2>1, <2>2 DEF Grows
    <2> QED BY <1>0, <2>1, <2>3, PassedProducer
  <1>2. ASSUME NEW p \in Producers, \/ ClaimCas(p) \/ StealCas(p) \/ BeginGeneration(p)
                                    \/ Release(p) \/ Advance(p) \/ Touch(p)
        PROVE  Passed'
    <2>1. UNCHANGED <<version, c, delivered, used>>
      BY <1>2, Frame
    <2>2. Grows
      BY <1>0, <2>1 DEF Grows
    <2>3. \A r \in Rings : /\ hdr'[r].readSeq \in {hdr[r].readSeq, 0}
                           /\ hdr'[r].writeSeq >= hdr[r].writeSeq
                           /\ hdr'[r].generation >= hdr[r].generation
      <3>1. CASE ClaimCas(p) \/ StealCas(p) \/ Release(p) \/ Touch(p)
        <4>1. \A r \in Rings : /\ hdr'[r].readSeq = hdr[r].readSeq
                               /\ hdr'[r].writeSeq = hdr[r].writeSeq
                               /\ hdr'[r].generation = hdr[r].generation
          BY <3>1, ClaimCasIs, StealCasIs, ReleaseIs, TouchIs DEF Takes, Counters
        <4> QED BY <1>0, <4>1
      <3>2. CASE BeginGeneration(p)
        <4>0. PICK R \in Rings : R = me[p].ring /\ me[p].pc \in {"writeSeq", "readSeq", "rest", "generation"}
          BY <3>2, BeginIs
        <4>1. \A r \in Rings \ {R} : hdr'[r] = hdr[r]
          BY <3>2, <4>0, BeginIs DEF Counters
        <4>2. hdr[R].generation = 0
          BY <4>0 DEF OnceClaimed, Orderly, Untouched, Resetting
        <4>3. hdr[R].writeSeq = 0
          BY <4>2 DEF Sequenced, Ordered, Unused
        <4>4. /\ hdr'[R].readSeq \in {hdr[R].readSeq, 0} /\ hdr'[R].writeSeq = 0
              /\ hdr'[R].generation \in {0, 1}
          BY <3>2, <4>0, <4>2, <4>3, BeginIs DEF Counters
        <4> QED BY <1>0, <4>1, <4>2, <4>3, <4>4
      <3>3. CASE Advance(p)
        <4>0. PICK R \in Rings : R = me[p].ring
          BY <3>3, AdvanceIs
        <4>1. \A r \in Rings \ {R} : hdr'[r] = hdr[r]
          BY <3>3, <4>0, AdvanceIs DEF Counters
        <4>2. Writing(p)
          BY <3>3, AdvanceIs DEF Writing
        <4>3. Next1(p) \in Nat /\ hdr[R].writeSeq = Next1(p) - 1
          BY <4>0, <4>2, WriterIs
        <4>4. /\ hdr'[R].readSeq = hdr[R].readSeq /\ hdr'[R].writeSeq = Next1(p)
              /\ hdr'[R].generation = hdr[R].generation
          BY <3>3, <4>0, AdvanceIs DEF Counters
        <4> QED BY <1>0, <4>1, <4>3, <4>4
      <3> QED BY <1>2, <3>1, <3>2, <3>3
    <2> QED BY <2>1, <2>2, <2>3, PassedProducer
  <1>3. ASSUME NEW p \in Producers, \/ Invalidate(p) \/ StoreVersion(p)
                                    \/ \E w \in Words : CopyIn(p, w)
        PROVE  Passed'
    <2>1. UNCHANGED <<hdr, c, delivered, used>>
      BY <1>3, Frame
    <2>2. \A r \in Rings, i \in Cells : version'[r][i].seq >= version[r][i].seq
      <3>1. CASE Invalidate(p) \/ StoreVersion(p)
        BY <3>1, MarksGrow
      <3>2. CASE \E w \in Words : CopyIn(p, w)
        BY <1>0, <3>2, Frame
      <3> QED BY <1>3, <3>1, <3>2
    <2>3. Grows
      BY <1>0, <2>1, <2>2 DEF Grows
    <2> QED BY <1>0, <2>1, <2>3, PassedProducer
  <1>4. CASE Drain
    <2>1. UNCHANGED <<version, used>>
      BY <1>4, HelperFrame
    <2>2. CASE DrainAll \/ DrainNext \/ LoadHeader \/ CheckGeneration
      BY <2>1, <2>2, PassedHeader
    <2>3. CASE LoadV1 \/ (\E w \in Words : CopyOut(w)) \/ LoadV2 \/ WriteBack
      BY <2>1, <2>3, PassedLoadV1, PassedCopyOut, PassedLoadV2, PassedWriteBack
    <2> QED BY <1>4, <2>2, <2>3 DEF Drain
  <1>5. CASE HelperDies \/ Tick \/ (\E layout \in {"same", "other"} : Attach(layout))
             \/ UNCHANGED vars
    <2>1. UNCHANGED <<hdr, version, delivered>>
      BY <1>5, HelperFrame DEF vars
    <2>2. used'.events = used.events
      BY <1>5, HelperFrame, CountsAre DEF vars
    <2>3. Grows
      BY <1>0, <2>1, <2>2 DEF Grows
    <2>4. CASE UNCHANGED c
      BY <1>0, <2>1, <2>3, <2>4, PassedProducer
    <2>5. CASE c' = NotDraining
      <3>1. ~Going' /\ Reached'
        BY <2>5, NotDrainingIs DEF Going, Reached
      <3>2. ASSUME NEW r \in Rings PROVE AllSettled(r, hdr[r].readSeq)'
        <4>1. PICK n \in Nat : n = hdr[r].readSeq
          BY <1>0
        <4>2. AllSettled(r, n)'
          BY <2>3, <4>1, SettledStays DEF Passed
        <4> QED BY <2>1, <4>1, <4>2 DEF AllSettled
      <3> QED BY <3>1, <3>2 DEF Passed
    <2> QED BY <1>5, <2>4, <2>5, HelperFrame DEF vars
  <1> QED BY <1>1, <1>2, <1>3, <1>4, <1>5 DEF Next, Continue

\* The invariant of a region with one claim in all.
OnceClaimedRings == /\ SteadyRings
                    /\ setup.stale = 0 /\ setup.claims <= 1 => OnceClaimed /\ Sequenced /\ Passed

\* Nothing is claimed, published or drained at first.
LEMMA InitOnceClaimed == Init => OnceClaimed /\ Sequenced /\ Passed
  <1> SUFFICES ASSUME Init PROVE OnceClaimed /\ Sequenced /\ Passed
    OBVIOUS
  <1>1. /\ used.events = 0 /\ used.claims = 0 /\ c.pc = "idle"
        /\ \A p \in Producers : me[p].pc = "idle" /\ me[p].ring = NoRing
        /\ \A r \in Rings : /\ hdr[r].generation = 0 /\ hdr[r].writeSeq = 0 /\ hdr[r].readSeq = 0
                            /\ \A i \in Cells : version[r][i].seq = 0 /\ ~version[r][i].writing
    BY DEF Init, NotDraining, NoVersion
  <1>2. \A p \in Producers : ~Working(p) /\ ~Has(p)
    BY <1>1, Constants DEF Working, Looking, Has
  <1>3. OneClaimer
    BY <1>1, <1>2 DEF OneClaimer
  <1>4. ASSUME NEW p \in Producers PROVE Orderly(p)
    BY <1>1, <1>2 DEF Orderly, Untouched, InOrder, Marked, Begun, Looking, Resetting, Copying
  <1>5. Sequenced
    BY <1>1 DEF Sequenced, Ordered, Unused, Bounded, Reaching, Beyond, Stored
  <1>6. Passed
    BY <1>1 DEF Passed, AllSettled, Going, Reached
  <1> QED BY <1>3, <1>4, <1>5, <1>6 DEF OnceClaimed

\* It is inductive.
LEMMA OnceClaimedInvariant ==
    /\ Init => OnceClaimedRings
    /\ OnceClaimedRings /\ [Next]_vars => OnceClaimedRings'
  <1>1. Init => OnceClaimedRings
    BY SteadyRingsInvariant, InitOnceClaimed DEF OnceClaimedRings
  <1>2. ASSUME OnceClaimedRings, [Next]_vars PROVE OnceClaimedRings'
    <2>1. SteadyRings /\ SteadyRings' /\ UNCHANGED setup
      BY <1>2, SteadyRingsInvariant, SetupStays DEF OnceClaimedRings
    <2>2. ASSUME setup.stale = 0, setup.claims <= 1 PROVE OnceClaimed' /\ Sequenced' /\ Passed'
      <3>1. TypeOK /\ TypeOK' /\ Registered /\ AllSteady /\ Draining
        BY <2>1, <2>2 DEF SteadyRings, SteadyInv
      <3>2. OnceClaimed /\ Sequenced /\ Passed
        BY <1>2, <2>2 DEF OnceClaimedRings
      <3>3. OnceClaimed'
        BY <1>2, <2>2, <3>1, <3>2, ClaimedStep
      <3>4. Sequenced'
        BY <1>2, <2>2, <3>1, <3>2, SequencedStep
      <3>5. Passed'
        BY <1>2, <2>2, <3>1, <3>2, PassedStep
      <3> QED BY <3>3, <3>4, <3>5
    <2> QED BY <2>1, <2>2 DEF OnceClaimedRings
  <1> QED BY <1>1, <1>2

\* LosesOnlyLapped, for regions in which one claim is made in all (a record's
\* number is then its sequence) and nothing is taken over: wherever helpers are
\* killed and start again, and wherever the thread is killed, the read cursor
\* passes no record that was neither delivered nor lapped.
THEOREM SpecLosesOnlyLapped ==
    Spec => [](setup.stale = 0 /\ setup.claims <= 1 => LosesOnlyLapped)
  <1>1. OnceClaimedRings => (setup.stale = 0 /\ setup.claims <= 1 => LosesOnlyLapped)
    BY DEF OnceClaimedRings, Passed, AllSettled, Settled, Overtaken, LosesOnlyLapped
  <1> QED BY <1>1, OnceClaimedInvariant, PTL DEF Spec
----------------------------------------------------------------------------
(* "The gap is exact": what the cursors passed was delivered or counted.      *)
(* No ring is claimed a second time: whoever resets one is its first owner.       *)
FirstClaims == \A p \in Producers :
                  me[p].pc \in {"writeSeq", "readSeq", "rest", "generation"}
                    => hdr[me[p].ring].generation = 0

(* The account of the drains: what the cursors passed is what was dropped or      *)
(* delivered, the drain under way included while its generation stands.           *)
ReadSeqs == [r \in Rings |-> hdr[r].readSeq]
Drops == [r \in Rings |-> hdr[r].drops]
Passing == Sum(ReadSeqs, Rings)
Dropping == Sum(Drops, Rings)
Handed == {e \in Events : delivered[e] > 0}
InHand == {"writeSeq", "v1", "copy", "v2", "check"}
Blank(r) == hdr[r].generation = 0
              => hdr[r].writeSeq = 0 /\ hdr[r].readSeq = 0 /\ hdr[r].drops = 0
Barren == c.pc \notin {"idle", "readSeq", "totals"} /\ hdr[c.ring].generation = 0
            => c.expect = 1 /\ c.stats.dropped = 0 /\ c.pc \notin {"v1", "copy", "v2"}
Starting == c.pc = "generation" => c.expect = hdr[c.ring].readSeq + 1 /\ c.stats.dropped = 0
Balanced == Passing = Dropping + Cardinality(Handed)
Carrying == c.pc = "progress" \/ (c.pc \in InHand /\ Current)
Balance ==
    /\ Carrying => Passing + (c.expect - 1 - hdr[c.ring].readSeq)
                     = Dropping + Cardinality(Handed) + c.stats.dropped
    /\ c.pc = "drops" => Passing = Dropping + Cardinality(Handed) + c.stats.dropped
    /\ ~Carrying /\ c.pc # "drops" => Balanced
AllBegun == \A p \in Producers : Begun(p)
Tally == AllBegun /\ (\A r \in Rings : Blank(r)) /\ Barren /\ Starting /\ Balance

\* Both sums are of whole numbers, and so is what was handed to the sink.
LEMMA TallyNumbers ==
    ASSUME TypeOK
    PROVE  /\ Passing \in Int /\ Dropping \in Int
           /\ IsFiniteSet(Handed) /\ Cardinality(Handed) \in Nat
  <1>1. IsFiniteSet(Rings) /\ IsFiniteSet(Events)
    BY Constants, FS_Interval DEF Rings, Events
  <1>2. ReadSeqs \in [Rings -> Int] /\ Drops \in [Rings -> Int]
    BY DEF TypeOK, HeaderFields, ReadSeqs, Drops
  <1>3. PICK f : f = ReadSeqs
    OBVIOUS
  <1>4. PICK h : h = Drops
    OBVIOUS
  <1>5. PICK s \in SUBSET Rings : s = Rings
    OBVIOUS
  <1>8. Sum(f, s) \in Int
    BY <1>1, <1>2, <1>3, SumOfPart
  <1>9. Sum(h, s) \in Int
    BY <1>1, <1>2, <1>4, SumOfPart
  <1>6. IsFiniteSet(Handed)
    BY <1>1, FS_Subset DEF Handed
  <1> QED BY <1>3, <1>4, <1>5, <1>6, <1>8, <1>9, FS_CardinalityType DEF Passing, Dropping

\* One cursor or one counter moves.
LEMMA TallyChanges ==
    ASSUME TypeOK, TypeOK', NEW R \in Rings, \A r \in Rings \ {R} : hdr'[r].readSeq = hdr[r].readSeq,
           \A r \in Rings \ {R} : hdr'[r].drops = hdr[r].drops
    PROVE  /\ Passing' = Passing + (hdr'[R].readSeq - hdr[R].readSeq)
           /\ Dropping' = Dropping + (hdr'[R].drops - hdr[R].drops)
  <1>1. IsFiniteSet(Rings)
    BY Constants, FS_Interval DEF Rings
  <1>2. /\ ReadSeqs \in [Rings -> Int] /\ Drops \in [Rings -> Int]
        /\ ReadSeqs' \in [Rings -> Int] /\ Drops' \in [Rings -> Int]
    BY DEF TypeOK, HeaderFields, ReadSeqs, Drops
  <1>3. PICK f, f1 : f = ReadSeqs /\ f1 = ReadSeqs'
    OBVIOUS
  <1>4. PICK h, h1 : h = Drops /\ h1 = Drops'
    OBVIOUS
  <1>5. SameOn(f, f1, Rings \ {R}) /\ SameOn(h, h1, Rings \ {R})
    BY <1>3, <1>4 DEF SameOn, ReadSeqs, Drops
  <1>6. Sum(f1, Rings) = Sum(f, Rings) + (f1[R] - f[R])
    BY <1>1, <1>2, <1>3, <1>5, SumChanges
  <1>7. Sum(h1, Rings) = Sum(h, Rings) + (h1[R] - h[R])
    BY <1>1, <1>2, <1>4, <1>5, SumChanges
  <1> QED BY <1>3, <1>4, <1>6, <1>7 DEF Passing, Dropping, ReadSeqs, Drops

\* None does.
LEMMA TallySame ==
    ASSUME TypeOK, TypeOK', \A r \in Rings : hdr'[r].readSeq = hdr[r].readSeq,
           \A r \in Rings : hdr'[r].drops = hdr[r].drops
    PROVE  Passing' = Passing /\ Dropping' = Dropping
  <1>1. ReadSeqs' = ReadSeqs /\ Drops' = Drops
    BY DEF ReadSeqs, Drops
  <1> QED BY <1>1 DEF Passing, Dropping

\* A record is handed to the sink that was not before.
LEMMA HandedAdds ==
    ASSUME TypeOK, NEW h \in Events, delivered[h] = 0, delivered'[h] > 0,
           \A e \in Events \ {h} : delivered'[e] = delivered[e]
    PROVE  Cardinality(Handed') = Cardinality(Handed) + 1
  <1>1. Handed' = Handed \cup {h} /\ h \notin Handed
    BY DEF Handed
  <1>2. IsFiniteSet(Handed)
    BY TallyNumbers
  <1> QED BY <1>1, <1>2, FS_AddElement

\* The counters of dropped records: only the write-back adds to one, and only a
\* claim resets one.
LEMMA DropsStay ==
    ASSUME TypeOK, NEW p \in Producers, NEW r \in Rings,
           ClaimCas(p) \/ StealCas(p) \/ Release(p) \/ Advance(p) \/ Touch(p)
    PROVE  hdr'[r].drops = hdr[r].drops
  <1>0. HeaderFields(hdr[r]) /\ DOMAIN hdr = Rings
    BY DEF TypeOK
  <1>1. ASSUME NEW R, NEW h, hdr' = [hdr EXCEPT ![R] = h], R = r => h.drops = hdr[r].drops
        PROVE  hdr'[r].drops = hdr[r].drops
    BY <1>0, <1>1
  <1>2. CASE ClaimCas(p) \/ StealCas(p)
    <2>1. ASSUME NEW R, TakeRing(p, R) PROVE hdr'[r].drops = hdr[r].drops
      <3> DEFINE h == [hdr[R] EXCEPT !.owner = p]
      <3>1. hdr' = [hdr EXCEPT ![R] = h]
        BY <2>1 DEF TakeRing
      <3>2. R = r => h.drops = hdr[r].drops
        BY <1>0 DEF HeaderFields
      <3> HIDE DEF h
      <3> QED BY <1>1, <3>1, <3>2
    <2>2. CASE ClaimCas(p)
      BY <2>1, <2>2 DEF ClaimCas
    <2>3. CASE StealCas(p)
      BY <2>1, <2>3 DEF StealCas
    <2> QED BY <1>2, <2>2, <2>3
  <1>3. CASE Release(p)
    <2> DEFINE R == me[p].ring
               h == [hdr[R] EXCEPT !.owner = IF CompareExchange(R, p) THEN NoOwner ELSE hdr[R].owner]
    <2>1. hdr' = [hdr EXCEPT ![R] = h]
      BY <1>3 DEF Release
    <2>2. R = r => h.drops = hdr[r].drops
      BY <1>0 DEF HeaderFields
    <2> HIDE DEF h
    <2> QED BY <1>1, <2>1, <2>2
  <1>4. CASE Advance(p)
    <2> DEFINE R == me[p].ring
               h == [hdr[R] EXCEPT !.writeSeq = me[p].published + 1]
    <2>1. hdr' = [hdr EXCEPT ![R] = h]
      BY <1>4 DEF Advance
    <2>2. R = r => h.drops = hdr[r].drops
      BY <1>0 DEF HeaderFields
    <2> HIDE DEF h
    <2> QED BY <1>1, <2>1, <2>2
  <1>5. CASE Touch(p)
    <2> DEFINE R == me[p].ring
               h == [hdr[R] EXCEPT !.lastActive = me[p].now]
    <2>1. hdr' = [hdr EXCEPT ![R] = h]
      BY <1>5 DEF Touch
    <2>2. R = r => h.drops = hdr[r].drops
      BY <1>0 DEF HeaderFields
    <2> HIDE DEF h
    <2> QED BY <1>1, <2>1, <2>2
  <1> QED BY <1>2, <1>3, <1>4, <1>5

\* A claim leaves the counter or resets it.
LEMMA DropsReset ==
    ASSUME TypeOK, NEW p \in Producers, NEW r \in Rings, BeginGeneration(p)
    PROVE  hdr'[r].drops = hdr[r].drops \/ (r = me[p].ring /\ hdr'[r].drops = 0)
  <1>0. HeaderFields(hdr[r]) /\ DOMAIN hdr = Rings
    BY DEF TypeOK
  <1>1. PICK R : R = me[p].ring
    OBVIOUS
  <1>2. ASSUME NEW h, NEW l, NEW m, ResetStep(p, l, h, m),
               R = r => h.drops = hdr[r].drops \/ h.drops = 0
        PROVE  hdr'[r].drops = hdr[r].drops \/ (r = R /\ hdr'[r].drops = 0)
    <2>1. hdr' = [hdr EXCEPT ![R] = h]
      BY <1>1, <1>2 DEF ResetStep
    <2> QED BY <1>0, <1>2, <2>1
  <1> DEFINE h1 == [hdr[R] EXCEPT !.writeSeq = 0]
             h2 == [hdr[R] EXCEPT !.readSeq = 0]
             h3 == [hdr[R] EXCEPT !.drops = 0, !.lastActive = me[p].now]
             h4 == [hdr[R] EXCEPT !.generation = hdr[R].generation + 1]
  <1>3. R = r => /\ h1.drops = hdr[r].drops /\ h2.drops = hdr[r].drops
                 /\ h3.drops = 0 /\ h4.drops = hdr[r].drops
    BY <1>0 DEF HeaderFields
  <1>4. \/ ResetStep(p, "writeSeq", h1, "readSeq") \/ ResetStep(p, "readSeq", h2, "rest")
        \/ ResetStep(p, "rest", h3, "generation") \/ ResetStep(p, "generation", h4, "published")
    BY <1>1 DEF BeginGeneration
  <1> HIDE DEF h1, h2, h3, h4
  <1>5. CASE ResetStep(p, "writeSeq", h1, "readSeq")
    BY <1>1, <1>2, <1>3, <1>5
  <1>6. CASE ResetStep(p, "readSeq", h2, "rest")
    BY <1>1, <1>2, <1>3, <1>6
  <1>7. CASE ResetStep(p, "rest", h3, "generation")
    BY <1>1, <1>2, <1>3, <1>7
  <1>8. CASE ResetStep(p, "generation", h4, "published")
    BY <1>1, <1>2, <1>3, <1>8
  <1> QED BY <1>4, <1>5, <1>6, <1>7, <1>8

\* The record of a drain with other counters, place or label.
LEMMA DrainRecord ==
    ASSUME TypeOK
    PROVE  /\ c.stats.dropped \in Nat /\ c.expect \in Nat /\ c.expect > 0
           /\ DOMAIN c = {"pc", "ring", "expect", "generation", "v1", "copy", "left", "stats",
                          "total"}
           /\ DOMAIN c.stats = {"consumed", "dropped"}
  BY DEF TypeOK, ConsumerFields, Stats

\* The loads of the header start the count of dropped records at zero.
LEMMA LoadHeaderCounts ==
    ASSUME TypeOK, LoadHeader
    PROVE  c'.stats.dropped = IF c.pc = "readSeq" THEN 0 ELSE c.stats.dropped
  <1>0. DOMAIN c = {"pc", "ring", "expect", "generation", "v1", "copy", "left", "stats", "total"}
    BY DrainRecord
  <1>1. CASE c.pc = "readSeq"
    <2>1. c' = [c EXCEPT !.expect = hdr[c.ring].readSeq + 1, !.stats = NoStats,
                         !.pc = "generation"]
      BY <1>1 DEF LoadHeader
    <2>2. c'.stats = NoStats
      BY <1>0, <2>1
    <2> QED BY <1>1, <2>2 DEF NoStats
  <1>2. CASE c.pc # "readSeq"
    <2>1. c'.stats = c.stats
      BY <1>0, <1>2 DEF LoadHeader
    <2> QED BY <1>2, <2>1
  <1> QED BY <1>1, <1>2

\* What the first load of a version skips, it counts.
LEMMA LoadV1Counts ==
    ASSUME TypeOK, LoadV1
    PROVE  c'.expect - c.expect = c'.stats.dropped - c.stats.dropped
  <1>0. /\ c.stats.dropped \in Nat /\ c.expect \in Nat
        /\ DOMAIN c = {"pc", "ring", "expect", "generation", "v1", "copy", "left", "stats", "total"}
        /\ DOMAIN c.stats = {"consumed", "dropped"}
    BY DrainRecord
  <1>v. PICK v \in Version : v = version[c.ring][SlotAt(c.expect)]
    BY SlotInCells DEF TypeOK, ConsumerFields
  <1> DEFINE seen == [c EXCEPT !.v1 = v]
  <1>s. DOMAIN seen = DOMAIN c /\ seen.expect = c.expect /\ seen.stats = c.stats
    BY <1>0
  <1>u. \/ c' = [seen EXCEPT !.pc = Deferred] \/ c' = [seen EXCEPT !.left = Words, !.pc = "copy"]
        \/ c' = [seen EXCEPT !.stats.dropped = c.stats.dropped + Gap(v.seq, c.expect),
                             !.expect = v.seq, !.pc = "writeSeq"]
        \/ c' = [seen EXCEPT !.stats.dropped = c.stats.dropped + 1,
                             !.expect = c.expect + 1, !.pc = "writeSeq"]
    BY <1>v, <1>s DEF LoadV1
  <1> HIDE DEF seen
  <1>1. CASE c' = [seen EXCEPT !.pc = Deferred] \/ c' = [seen EXCEPT !.left = Words, !.pc = "copy"]
    <2>1. c'.expect = c.expect /\ c'.stats = c.stats
      BY <1>0, <1>s, <1>1
    <2> QED BY <1>0, <2>1
  <1>2. ASSUME NEW n \in Int, NEW e \in Int, n - c.stats.dropped = e - c.expect,
               c' = [seen EXCEPT !.stats.dropped = n, !.expect = e, !.pc = "writeSeq"]
        PROVE  c'.expect - c.expect = c'.stats.dropped - c.stats.dropped
    <2>1. c'.expect = e /\ c'.stats.dropped = n
      BY <1>0, <1>s, <1>2
    <2> QED BY <1>2, <2>1
  <1>3. CASE c' = [seen EXCEPT !.stats.dropped = c.stats.dropped + Gap(v.seq, c.expect),
                               !.expect = v.seq, !.pc = "writeSeq"]
    <2>1. PICK n \in Int, e \in Int : n = c.stats.dropped + Gap(v.seq, c.expect) /\ e = v.seq
      BY <1>0 DEF Gap, Version
    <2>2. n - c.stats.dropped = e - c.expect
      BY <1>0, <2>1 DEF Gap
    <2>3. c' = [seen EXCEPT !.stats.dropped = n, !.expect = e, !.pc = "writeSeq"]
      BY <1>3, <2>1
    <2> QED BY <1>2, <2>2, <2>3
  <1>4. CASE c' = [seen EXCEPT !.stats.dropped = c.stats.dropped + 1,
                               !.expect = c.expect + 1, !.pc = "writeSeq"]
    <2>1. PICK n \in Int, e \in Int : n = c.stats.dropped + 1 /\ e = c.expect + 1
      BY <1>0
    <2>2. n - c.stats.dropped = e - c.expect
      BY <1>0, <2>1
    <2>3. c' = [seen EXCEPT !.stats.dropped = n, !.expect = e, !.pc = "writeSeq"]
      BY <1>4, <2>1
    <2> QED BY <1>2, <2>2, <2>3
  <1> QED BY <1>u, <1>1, <1>3, <1>4

\* A copy the second load refuses is counted; one it accepts goes to the sink,
\* and the record is counted as delivered while the generation stands.
LEMMA LoadV2Counts ==
    ASSUME TypeOK, LoadV2
    PROVE  /\ Accepts => c'.stats.dropped = c.stats.dropped
           /\ ~Accepts => c'.stats.dropped = c.stats.dropped + 1
           /\ ~(Accepts /\ Current) => UNCHANGED delivered
           /\ Accepts /\ Current /\ delivered[c.copy["head"]] = 0
                => delivered'[c.copy["head"]] = 1
  <1>0. /\ c.stats.dropped \in Nat /\ c.expect \in Nat
        /\ DOMAIN c = {"pc", "ring", "expect", "generation", "v1", "copy", "left", "stats", "total"}
        /\ DOMAIN c.stats = {"consumed", "dropped"}
    BY DrainRecord
  <1>1. PICK x \in Events : x = c.copy["head"]
    BY DEF TypeOK, ConsumerFields, Words
  <1>2. CASE Accepts
    <2>1. c' = [c EXCEPT !.stats.consumed = @ + 1, !.expect = @ + 1, !.pc = "writeSeq"]
      BY <1>2 DEF LoadV2
    <2>2. c'.stats.dropped = c.stats.dropped
      BY <1>0, <2>1
    <2>3. delivered' = [delivered EXCEPT ![x] = IF Current /\ delivered[x] < 2
                                                THEN delivered[x] + 1 ELSE delivered[x]]
      BY <1>1, <1>2 DEF LoadV2, Current
    <2>4. ~Current => UNCHANGED delivered
      BY <2>3 DEF TypeOK
    <2>5. Current /\ delivered[x] = 0 => delivered'[x] = 1
      BY <2>3 DEF TypeOK
    <2> QED BY <1>1, <1>2, <2>2, <2>4, <2>5
  <1>3. CASE ~Accepts
    <2>1. c' = [c EXCEPT !.stats.dropped = @ + 1, !.expect = @ + 1, !.pc = "writeSeq"]
          /\ UNCHANGED delivered
      BY <1>3 DEF LoadV2
    <2>2. c'.stats.dropped = c.stats.dropped + 1
      BY <1>0, <2>1
    <2> QED BY <1>3, <2>1, <2>2
  <1> QED BY <1>2, <1>3

\* The other steps of the drain of a ring count nothing; the second store of the
\* write-back adds the count to the ring's.
LEMMA CountKept ==
    ASSUME TypeOK, CheckGeneration \/ WriteBack \/ (\E w \in Words : CopyOut(w))
    PROVE  c'.stats = c.stats
  <1>0. DOMAIN c = {"pc", "ring", "expect", "generation", "v1", "copy", "left", "stats", "total"}
    BY DrainRecord
  <1>1. CASE CheckGeneration
    BY <1>0, <1>1 DEF CheckGeneration
  <1>2. CASE WriteBack
    BY <1>0, <1>2 DEF WriteBack
  <1>3. ASSUME NEW w \in Words, CopyOut(w) PROVE c'.stats = c.stats
    BY <1>0, <1>3 DEF CopyOut
  <1> QED BY <1>1, <1>2, <1>3

\* What the write-back adds.
LEMMA WriteBackCounts ==
    ASSUME TypeOK, WriteBack, NEW r \in Rings
    PROVE  hdr'[r].drops = IF c.pc = "drops" /\ r = c.ring
                           THEN hdr[r].drops + c.stats.dropped ELSE hdr[r].drops
  <1>0. HeaderFields(hdr[r]) /\ DOMAIN hdr = Rings
    BY DEF TypeOK
  <1>1. PICK R : R = c.ring
    OBVIOUS
  <1>2. CASE c.pc = "progress"
    <2>1. PICK n : n = Progress(c.expect)
      OBVIOUS
    <2>2. hdr' = [hdr EXCEPT ![R].readSeq = n]
      BY <1>1, <1>2, <2>1 DEF WriteBack
    <2>3. hdr'[r].drops = hdr[r].drops
      BY <1>0, <2>2 DEF HeaderFields
    <2> QED BY <1>2, <2>3
  <1>3. CASE c.pc # "progress"
    <2>1. c.pc = "drops" /\ hdr' = [hdr EXCEPT ![R].drops = hdr[R].drops + c.stats.dropped]
      BY <1>1, <1>3 DEF WriteBack
    <2>2. r # R => hdr'[r].drops = hdr[r].drops
      BY <1>0, <2>1
    <2>3. r = R => hdr'[r].drops = hdr[r].drops + c.stats.dropped
      BY <1>0, <2>1 DEF HeaderFields
    <2> QED BY <1>1, <2>1, <2>2, <2>3
  <1> QED BY <1>2, <1>3

\* A thread that publishes has a ring whose generation was begun.
LEMMA BegunByOne ==
    ASSUME TypeOK, TypeOK', AllBegun, NEW p \in Producers, Others(p), Begun(p)',
           \A r \in Rings : /\ hdr'[r].generation >= hdr[r].generation
                            /\ hdr'[r].owner = hdr[r].owner \/ hdr'[r].owner \in {p, NoOwner}
    PROVE  AllBegun'
  <1> SUFFICES ASSUME NEW q \in Producers, q # p PROVE Begun(q)'
    BY DEF AllBegun
  <1>1. me'[q] = me[q] /\ q # NoOwner
    BY Constants DEF Others
  <1>2. Has(q)' => Has(q)
    BY <1>1 DEF Has
  <1>3. \A r \in Rings : hdr[r].generation \in Nat /\ hdr'[r].generation \in Nat
    BY DEF TypeOK, HeaderFields
  <1>4. Has(q) => me[q].ring \in Rings
    BY DEF Has
  <1> QED BY <1>1, <1>2, <1>3, <1>4 DEF AllBegun, Begun

\* A call that goes on with the ring it had.
LEMMA BegunOn ==
    ASSUME TypeOK, AllBegun, NEW p \in Producers, me'[p].ring = me[p].ring,
           me[p].pc \in {"published", "idle", "touch"} \cup Copying,
           \A r \in Rings : /\ hdr'[r].generation = hdr[r].generation
                            /\ hdr'[r].owner = hdr[r].owner
    PROVE  Begun(p)'
  <1>1. Has(p)' => Has(p) /\ me[p].ring \in Rings
    BY DEF Has
  <1> QED BY <1>1 DEF AllBegun, Begun

\* Every step of a thread.
LEMMA BegunStep ==
    ASSUME TypeOK, TypeOK', Registered, AllSteady, AllBegun, NEW p \in Producers,
           \/ Claim(p) \/ Release(p) \/ Publish(p) \/ Continue(p) \/ Die(p)
    PROVE  AllBegun'
  <1>g. \A r \in Rings : hdr[r].generation \in Nat
    BY DEF TypeOK, HeaderFields
  <1>n. me'[p].ring = NoRing => Begun(p)'
    BY Constants DEF Begun, Has
  <1>1. CASE Claim(p)
    <2>1. me'[p].ring = NoRing /\ Others(p) /\ UNCHANGED hdr
      BY <1>1, ClaimIs, Frame
    <2> QED BY <2>1, <1>g, <1>n, BegunByOne
  <1>2. CASE ScanRing(p)
    <2>1. me'[p].ring = NoRing /\ Others(p) /\ UNCHANGED hdr
      BY <1>2, ScanIs, Frame DEF Registered, Looking
    <2> QED BY <2>1, <1>g, <1>n, BegunByOne
  <1>3. CASE ClaimCas(p)
    <2>1. CASE \E r \in Rings : Takes(p, r) /\ hdr[r].owner = NoOwner
      <3>1. PICK r \in Rings : Takes(p, r)
        BY <2>1
      <3>2. me'[p].pc = "writeSeq" /\ Others(p)
        BY <3>1 DEF Takes
      <3>3. Begun(p)'
        BY <3>2 DEF Begun, Copying
      <3>4. \A s \in Rings : /\ hdr'[s].generation >= hdr[s].generation
                             /\ hdr'[s].owner = hdr[s].owner \/ hdr'[s].owner \in {p, NoOwner}
        BY <1>g, <3>1 DEF Takes
      <3> QED BY <3>2, <3>3, <3>4, BegunByOne
    <2>2. CASE ~(\E r \in Rings : Takes(p, r) /\ hdr[r].owner = NoOwner)
      <3>1. me'[p].ring = NoRing /\ Others(p) /\ UNCHANGED hdr
        BY <1>3, <2>2, ClaimCasIs DEF Registered, Looking
      <3> QED BY <3>1, <1>g, <1>n, BegunByOne
    <2> QED BY <2>1, <2>2
  <1>4. CASE Steal(p) \/ StealCas(p)
    BY <1>4, StealIs, StealCasIs DEF AllSteady, Steady, Owning
  <1>5. CASE BeginGeneration(p)
    <2>1. PICK R \in Rings : R = me[p].ring
      BY <1>5, BeginIs
    <2>2. /\ Others(p) /\ me'[p].ring = R /\ \A s \in Rings \ {R} : hdr'[s] = hdr[s]
          /\ hdr'[R].owner = hdr[R].owner
      BY <1>5, <2>1, BeginIs DEF Steps, Counters
    <2>3. CASE me[p].pc = "generation"
      <3>1. hdr'[R].generation = hdr[R].generation + 1
        BY <1>5, <2>1, <2>3, BeginIs DEF Counters
      <3>2. Begun(p)'
        BY <1>g, <2>2, <3>1 DEF Begun
      <3> QED BY <1>g, <2>2, <3>1, <3>2, BegunByOne
    <2>4. CASE me[p].pc # "generation"
      <3>1. /\ hdr'[R].generation = hdr[R].generation
            /\ me'[p].pc \in {"readSeq", "rest", "generation"}
        BY <1>5, <2>1, <2>4, BeginIs DEF Counters, Steps
      <3>2. Begun(p)'
        BY <3>1 DEF Begun, Copying
      <3> QED BY <1>g, <2>2, <3>1, <3>2, BegunByOne
    <2> QED BY <2>3, <2>4
  <1>6. CASE LoadPublished(p)
    <2>1. /\ UNCHANGED hdr /\ Others(p) /\ me[p].pc = "published" /\ me'[p].ring = me[p].ring
      BY <1>6, LoadIs, Frame
    <2>2. Begun(p)'
      BY <2>1, BegunOn
    <2> QED BY <1>g, <2>1, <2>2, BegunByOne
  <1>7. CASE Release(p)
    <2>1. PICK R \in Rings : R = me[p].ring
      BY <1>7, ReleaseIs
    <2>2. /\ Others(p) /\ me'[p].ring = NoRing /\ \A s \in Rings \ {R} : hdr'[s] = hdr[s]
          /\ hdr'[R].generation = hdr[R].generation
          /\ hdr'[R].owner = hdr[R].owner \/ hdr'[R].owner = NoOwner
      BY <1>7, <2>1, ReleaseIs
    <2> QED BY <1>g, <1>n, <2>2, BegunByOne
  <1>8. CASE Publish(p)
    <2>1. UNCHANGED hdr /\ Others(p) /\ me[p].pc = "idle"
          /\ (me'[p].ring = me[p].ring \/ me'[p].ring = NoRing)
      BY <1>8, PublishIs, Frame
    <2>2. Begun(p)'
      BY <1>n, <2>1, BegunOn
    <2> QED BY <1>g, <2>1, <2>2, BegunByOne
  <1>9. CASE Invalidate(p) \/ StoreVersion(p) \/ (\E w \in Words : CopyIn(p, w))
    <2>1. UNCHANGED hdr /\ Others(p) /\ me[p].pc \in Copying /\ me'[p].ring = me[p].ring
      BY <1>9, InvalidateIs, StoreVersionIs, CopyInIs, Frame DEF Copying, Steps
    <2>2. Begun(p)'
      BY <2>1, BegunOn
    <2> QED BY <1>g, <2>1, <2>2, BegunByOne
  <1>10. CASE Advance(p) \/ Touch(p)
    <2>1. PICK R \in Rings : R = me[p].ring
      BY <1>10, AdvanceIs, TouchIs
    <2>2. /\ Others(p) /\ me'[p].ring = me[p].ring /\ me[p].pc \in {"advance", "touch"}
          /\ \A s \in Rings \ {R} : hdr'[s] = hdr[s]
          /\ hdr'[R].generation = hdr[R].generation /\ hdr'[R].owner = hdr[R].owner
      BY <1>10, <2>1, AdvanceIs, TouchIs DEF Counters, Steps
    <2>3. Begun(p)'
      BY <2>2, BegunOn DEF Copying
    <2> QED BY <1>g, <2>2, <2>3, BegunByOne
  <1>11. CASE Die(p)
    <2>1. UNCHANGED hdr /\ Others(p) /\ me'[p].pc = "dead"
      BY <1>11, DieIs, Frame DEF Steps
    <2>2. Begun(p)'
      BY <2>1 DEF Begun, Copying
    <2> QED BY <1>g, <2>1, <2>2, BegunByOne
  <1> QED BY <1>1, <1>2, <1>3, <1>4, <1>5, <1>6, <1>7, <1>8, <1>9, <1>10, <1>11 DEF Continue

\* The other steps leave the threads and their rings alone.
LEMMA BegunSame ==
    ASSUME AllBegun, UNCHANGED me,
           \A r \in Rings : /\ hdr'[r].generation = hdr[r].generation
                            /\ hdr'[r].owner = hdr[r].owner
    PROVE  AllBegun'
  BY DEF AllBegun, Begun, Has

\* The account is right before anything happens.
LEMMA InitTally == Init => Tally
  <1> SUFFICES ASSUME Init PROVE Tally
    OBVIOUS
  <1>1. TypeOK /\ c.pc = "idle"
    BY InitType DEF Init, NotDraining
  <1>2. \A r \in Rings : hdr[r].readSeq = 0 /\ hdr[r].drops = 0 /\ hdr[r].writeSeq = 0
    BY DEF Init
  <1>3. AllBegun
    BY Constants DEF Init, AllBegun, Begun, Has
  <1>4. ReadSeqs = Drops
    BY <1>2 DEF ReadSeqs, Drops
  <1>5. Handed = {}
    BY DEF Init, Handed
  <1>6. Balanced
    BY <1>1, <1>4, <1>5, TallyNumbers, FS_EmptySet DEF Balanced, Passing, Dropping
  <1>7. Barren /\ Starting /\ Balance
    BY <1>1, <1>6 DEF Barren, Starting, Balance, Carrying, InHand
  <1> QED BY <1>2, <1>3, <1>7 DEF Tally, Blank

\* A step of a thread moves no cursor, drops nothing, and begins a generation
\* only on a ring that has none yet; a drain of that ring has nothing in hand.
LEMMA TallyThread ==
    ASSUME TypeOK, TypeOK', NotNewer, Tally, AllBegun', UNCHANGED <<c, delivered>>,
           \A r \in Rings :
             /\ hdr'[r].readSeq = hdr[r].readSeq /\ hdr'[r].drops = hdr[r].drops
             /\ hdr'[r].generation >= hdr[r].generation
             /\ hdr'[r].generation # hdr[r].generation => hdr[r].generation = 0
             /\ hdr'[r].generation = 0 => hdr'[r].writeSeq = 0
    PROVE  Tally'
  <1>0. /\ \A r \in Rings : hdr[r].generation \in Nat /\ hdr'[r].generation \in Nat
        /\ \A r \in Rings : hdr[r].readSeq \in Nat /\ hdr[r].drops \in Nat
        /\ c.ring \in Rings /\ c.generation \in Nat /\ c.expect \in Nat /\ c.stats.dropped \in Nat
    BY DEF TypeOK, HeaderFields, ConsumerFields, Stats
  <1>1. \A r \in Rings : Blank(r)'
    BY <1>0 DEF Tally, Blank
  <1>2. Barren'
    BY <1>0 DEF Tally, Barren
  <1>3. Starting'
    BY <1>0 DEF Tally, Starting
  <1>4. PICK P \in Int, D \in Int, N \in Nat :
            P = Passing /\ D = Dropping /\ N = Cardinality(Handed)
    BY TallyNumbers
  <1>5. Passing' = P /\ Dropping' = D
    BY <1>4, TallySame
  <1>6. Cardinality(Handed)' = N
    BY <1>4 DEF Handed
  <1>7. Carrying' => Carrying
    <2>1. c.pc \in InHand /\ hdr[c.ring].generation = 0 => Current
      BY <1>0 DEF NotNewer, Current, InHand
    <2> QED BY <1>0, <2>1 DEF Carrying, Current
  <1>8. Carrying /\ ~Carrying' => c.expect = 1 /\ c.stats.dropped = 0 /\ hdr[c.ring].readSeq = 0
    <2> SUFFICES ASSUME Carrying, ~Carrying'
                 PROVE  c.expect = 1 /\ c.stats.dropped = 0 /\ hdr[c.ring].readSeq = 0
      OBVIOUS
    <2>1. c.pc \in InHand /\ hdr[c.ring].generation = 0
      BY <1>0 DEF Carrying, Current
    <2> QED BY <1>0, <2>1 DEF Tally, Barren, Blank, InHand
  <1>9. Carrying' => P + (c.expect - 1 - hdr[c.ring].readSeq) = D + N + c.stats.dropped
    BY <1>4, <1>7 DEF Tally, Balance
  <1>10. c.pc = "drops" => P = D + N + c.stats.dropped
    BY <1>4 DEF Tally, Balance
  <1>11. ~Carrying' /\ c.pc # "drops" => P = D + N
    <2>1. CASE Carrying
      <3>1. Carrying => P + (c.expect - 1 - hdr[c.ring].readSeq) = D + N + c.stats.dropped
        BY <1>4 DEF Tally, Balance
      <3> QED BY <1>4, <1>8, <2>1, <3>1
    <2>2. CASE ~Carrying
      BY <1>4, <2>2 DEF Tally, Balance, Balanced
    <2> QED BY <2>1, <2>2
  <1>12. Balance'
    BY <1>0, <1>5, <1>6, <1>9, <1>10, <1>11 DEF Balance, Balanced
  <1> QED BY <1>1, <1>2, <1>3, <1>12 DEF Tally

\* Every step of a thread that claims no ring for a second time.
LEMMA TallyProducer ==
    ASSUME TypeOK, TypeOK', Registered, AllSteady, NotNewer, FirstClaims, Tally,
           NEW p \in Producers, \/ Claim(p) \/ Release(p) \/ Publish(p) \/ Continue(p) \/ Die(p)
    PROVE  Tally'
  <1>0. AllBegun'
    BY BegunStep DEF Tally
  <1>g. \A r \in Rings : hdr[r].generation \in Nat /\ hdr[r].readSeq \in Nat
    BY DEF TypeOK, HeaderFields
  <1>b. \A r \in Rings : hdr[r].generation = 0 => hdr[r].writeSeq = 0
    BY DEF Tally, Blank
  <1>1. CASE Claim(p) \/ ScanRing(p) \/ LoadPublished(p) \/ Publish(p) \/ Die(p)
    <2>1. UNCHANGED <<hdr, c, delivered>>
      BY <1>1, Frame
    <2> QED BY <1>0, <1>g, <1>b, <2>1, TallyThread
  <1>2. CASE Invalidate(p) \/ StoreVersion(p) \/ (\E w \in Words : CopyIn(p, w))
    <2>1. UNCHANGED <<hdr, c, delivered>>
      BY <1>2, Frame
    <2> QED BY <1>0, <1>g, <1>b, <2>1, TallyThread
  <1>3. CASE Steal(p) \/ StealCas(p)
    BY <1>3, StealIs, StealCasIs DEF AllSteady, Steady, Owning
  <1>4. CASE ClaimCas(p) \/ Release(p) \/ Touch(p)
    <2>1. \A r \in Rings : /\ hdr'[r].writeSeq = hdr[r].writeSeq
                           /\ hdr'[r].readSeq = hdr[r].readSeq
                           /\ hdr'[r].generation = hdr[r].generation
      BY <1>4, ClaimCasIs, ReleaseIs, TouchIs DEF Takes, Counters
    <2>2. \A r \in Rings : hdr'[r].drops = hdr[r].drops
      BY <1>4, DropsStay
    <2>3. UNCHANGED <<c, delivered>>
      BY <1>4, Frame
    <2> QED BY <1>0, <1>g, <1>b, <2>1, <2>2, <2>3, TallyThread
  <1>5. CASE Advance(p)
    <2>1. PICK R \in Rings : R = me[p].ring
      BY <1>5, AdvanceIs
    <2>2. /\ \A r \in Rings \ {R} : hdr'[r] = hdr[r]
          /\ hdr'[R].readSeq = hdr[R].readSeq /\ hdr'[R].generation = hdr[R].generation
          /\ me[p].pc = "advance"
      BY <1>5, <2>1, AdvanceIs DEF Counters
    <2>3. \A r \in Rings : hdr'[r].drops = hdr[r].drops
      BY <1>5, DropsStay
    <2>4. UNCHANGED <<c, delivered>>
      BY <1>5, Frame
    <2>5. hdr[R].generation > 0
      <3>1. Has(p)
        BY <2>2 DEF AllSteady, Steady, Owning, Holding
      <3> QED BY <2>1, <2>2, <3>1 DEF Tally, AllBegun, Begun, Copying
    <2> QED BY <1>0, <1>g, <1>b, <2>2, <2>3, <2>4, <2>5, TallyThread
  <1>6. CASE BeginGeneration(p)
    <2>1. PICK R \in Rings : R = me[p].ring
      BY <1>6, BeginIs
    <2>2. \A r \in Rings \ {R} : hdr'[r] = hdr[r]
      BY <1>6, <2>1, BeginIs DEF Counters
    <2>3. hdr[R].generation = 0
      BY <1>6, <2>1, BeginIs DEF FirstClaims
    <2>4. hdr[R].writeSeq = 0 /\ hdr[R].readSeq = 0 /\ hdr[R].drops = 0
      BY <2>3 DEF Tally, Blank
    <2>5. hdr'[R].writeSeq = 0 /\ hdr'[R].readSeq = 0 /\ hdr'[R].generation >= hdr[R].generation
      BY <1>6, <1>g, <2>1, <2>4, BeginIs DEF Counters
    <2>6. hdr'[R].drops = 0
      BY <1>6, <2>4, DropsReset
    <2>7. UNCHANGED <<c, delivered>>
      BY <1>6, Frame
    <2> QED BY <1>0, <1>g, <1>b, <2>2, <2>3, <2>4, <2>5, <2>6, <2>7, TallyThread
  <1> QED BY <1>1, <1>2, <1>3, <1>4, <1>5, <1>6 DEF Continue

\* A step of the drain that writes to no ring and hands nothing over: what it
\* passes, it counts.
LEMMA TallyPasses ==
    ASSUME TypeOK, TypeOK', Tally, UNCHANGED <<hdr, me, delivered>>, c.pc \in InHand,
           c'.pc \in InHand \cup {"progress", "totals"},
           c'.ring = c.ring, c'.generation = c.generation,
           c'.expect - c.expect = c'.stats.dropped - c.stats.dropped,
           c'.pc \in {"v1", "copy", "v2"} => c.pc # "writeSeq" \/ c.expect <= hdr[c.ring].writeSeq,
           c'.expect # c.expect => c.pc \in {"v1", "v2"},
           c'.pc = "progress" => Current,
           c'.pc = "totals" => ~Current,
           c.pc = "check" => c'.pc \in {"progress", "totals"}
    PROVE  Tally'
  <1>0. /\ \A r \in Rings : hdr[r].readSeq \in Nat /\ hdr[r].drops \in Nat /\ hdr[r].writeSeq \in Nat
        /\ c.ring \in Rings /\ c.expect \in Nat /\ c.stats.dropped \in Nat
        /\ c'.expect \in Nat /\ c'.stats.dropped \in Nat
    BY DEF TypeOK, HeaderFields, ConsumerFields, Stats
  <1>1. AllBegun'
    BY BegunSame DEF Tally
  <1>2. \A r \in Rings : Blank(r)'
    BY DEF Tally, Blank
  <1>3. Barren'
    <2> SUFFICES ASSUME hdr[c.ring].generation = 0
                 PROVE  c'.expect = 1 /\ c'.stats.dropped = 0 /\ c'.pc \notin {"v1", "copy", "v2"}
      BY DEF Barren
    <2>1. c.expect = 1 /\ c.stats.dropped = 0 /\ c.pc \notin {"v1", "copy", "v2"}
      BY DEF Tally, Barren, InHand
    <2>2. hdr[c.ring].writeSeq = 0
      BY <1>0 DEF Tally, Blank
    <2>3. c'.expect = 1 /\ c'.stats.dropped = 0
      BY <1>0, <2>1
    <2>4. c'.pc \notin {"v1", "copy", "v2"}
      BY <2>1, <2>2 DEF InHand
    <2> QED BY <2>3, <2>4
  <1>4. Starting'
    BY DEF Starting, InHand
  <1>5. PICK P \in Int, D \in Int, N \in Nat :
            P = Passing /\ D = Dropping /\ N = Cardinality(Handed)
    BY TallyNumbers
  <1>6. Passing' = P /\ Dropping' = D /\ Cardinality(Handed)' = N
    BY <1>5, TallySame DEF Handed
  <1>7. Current' <=> Current
    BY DEF Current
  <1>8. Carrying => P + (c.expect - 1 - hdr[c.ring].readSeq) = D + N + c.stats.dropped
    BY <1>5 DEF Tally, Balance
  <1>9. ~Carrying => P = D + N
    BY <1>5 DEF Tally, Balance, Balanced, InHand
  <1>10. Carrying' <=> Carrying
    BY <1>7 DEF Carrying, InHand
  <1>11. Carrying' => P + (c'.expect - 1 - hdr[c.ring].readSeq) = D + N + c'.stats.dropped
    BY <1>0, <1>5, <1>8, <1>10
  <1>12. Balance'
    BY <1>0, <1>6, <1>9, <1>10, <1>11 DEF Balance, Balanced, InHand
  <1> QED BY <1>1, <1>2, <1>3, <1>4, <1>12 DEF Tally

\* The drain of a ring begins, or ends, with the books balanced.
LEMMA TallyIdle ==
    ASSUME TypeOK, TypeOK', Tally, UNCHANGED <<hdr, me, delivered>>,
           c.pc \in {"idle", "readSeq", "totals"}, c'.pc \in {"idle", "readSeq", "generation"},
           c'.pc = "generation" =>
               /\ c'.ring = c.ring /\ c'.expect = hdr[c.ring].readSeq + 1 /\ c'.stats.dropped = 0
    PROVE  Tally'
  <1>0. c.ring \in Rings
    BY DEF TypeOK, ConsumerFields
  <1>1. AllBegun'
    BY BegunSame DEF Tally
  <1>2. \A r \in Rings : Blank(r)'
    BY DEF Tally, Blank
  <1>3. Starting'
    BY DEF Starting
  <1>4. Barren'
    BY <1>0 DEF Tally, Blank, Barren
  <1>5. Balanced
    BY DEF Tally, Balance, Carrying, InHand
  <1>6. Passing' = Passing /\ Dropping' = Dropping /\ Handed' = Handed
    BY TallySame DEF Handed
  <1>7. Balance'
    BY <1>5, <1>6 DEF Balance, Balanced, Carrying, InHand
  <1> QED BY <1>1, <1>2, <1>3, <1>4, <1>7 DEF Tally

\* The loads of the header.
LEMMA TallyHeader ==
    ASSUME TypeOK, TypeOK', Tally, LoadHeader, UNCHANGED <<me, version>>
    PROVE  Tally'
  <1>0. /\ UNCHANGED <<hdr, delivered>> /\ c.ring \in Rings /\ c'.ring = c.ring
        /\ c.expect \in Nat /\ hdr[c.ring].writeSeq \in Nat /\ hdr[c.ring].readSeq \in Nat
        /\ c.stats.dropped \in Nat
    BY LoadHeaderIs DEF TypeOK, ConsumerFields, HeaderFields, Stats, Moves
  <1>1. CASE c.pc = "readSeq"
    <2>1. /\ c'.pc = "generation" /\ c'.expect = hdr[c.ring].readSeq + 1 /\ c'.stats.dropped = 0
      BY <1>1, LoadHeaderIs, LoadHeaderCounts DEF Moves
    <2> QED BY <1>0, <1>1, <2>1, TallyIdle
  <1>2. CASE c.pc = "generation"
    <2>1. /\ c'.pc = "writeSeq" /\ c'.expect = c.expect /\ c'.stats.dropped = c.stats.dropped
          /\ c'.generation = hdr[c.ring].generation
      BY <1>2, LoadHeaderIs, LoadHeaderCounts DEF Moves
    <2>2. AllBegun'
      BY <1>0, BegunSame DEF Tally
    <2>3. \A r \in Rings : Blank(r)'
      BY <1>0 DEF Tally, Blank
    <2>4. Starting' /\ Barren'
      BY <1>0, <1>2, <2>1 DEF Tally, Starting, Barren
    <2>5. PICK P \in Int, D \in Int, N \in Nat :
              P = Passing /\ D = Dropping /\ N = Cardinality(Handed)
      BY TallyNumbers
    <2>6. Passing' = P /\ Dropping' = D /\ Cardinality(Handed)' = N
      BY <1>0, <2>5, TallySame DEF Handed
    <2>7. P = D + N
      BY <1>2, <2>5 DEF Tally, Balance, Balanced, Carrying, InHand
    <2>8. c.expect = hdr[c.ring].readSeq + 1 /\ c.stats.dropped = 0
      BY <1>2 DEF Tally, Starting
    <2>9. P + (c'.expect - 1 - hdr'[c'.ring].readSeq) = D + N + c'.stats.dropped
      BY <1>0, <2>1, <2>5, <2>7, <2>8
    <2>10. Carrying'
      BY <1>0, <2>1 DEF Carrying, Current, InHand
    <2>11. D + N + c'.stats.dropped = Dropping' + Cardinality(Handed)' + c'.stats.dropped
      BY <2>6
    <2>12. Balance'
      BY <2>1, <2>6, <2>9, <2>10 DEF Balance
    <2> QED BY <2>2, <2>3, <2>4, <2>12 DEF Tally
  <1>3. CASE c.pc = "writeSeq"
    <2>1. /\ c'.expect = c.expect /\ c'.stats.dropped = c.stats.dropped
          /\ c'.generation = c.generation
          /\ \/ c'.pc = "check"
             \/ c'.pc = "v1" /\ ~(c.expect > hdr[c.ring].writeSeq)
      BY <1>3, LoadHeaderIs, LoadHeaderCounts DEF Moves
    <2>2. c'.expect - c.expect = c'.stats.dropped - c.stats.dropped
      BY <1>0, <2>1
    <2>3. c'.pc \in {"v1", "copy", "v2"} => c.pc # "writeSeq" \/ c.expect <= hdr[c.ring].writeSeq
      BY <1>0, <2>1
    <2> QED BY <1>0, <1>3, <2>1, <2>2, <2>3, TallyPasses DEF InHand
  <1> QED BY <1>1, <1>2, <1>3, LoadHeaderIs

\* The second load: a record goes to the sink, or is counted as dropped.
LEMMA TallyLoadV2 ==
    ASSUME TypeOK, TypeOK', AllWhole, Draining, Once, Tally, LoadV2,
           UNCHANGED <<me, version, event>>
    PROVE  Tally'
  <1>0. /\ UNCHANGED hdr /\ c.pc = "v2" /\ c'.pc = "writeSeq" /\ c'.expect = c.expect + 1
        /\ c'.ring = c.ring /\ c'.generation = c.generation
        /\ c.ring \in Rings /\ c.expect \in Nat /\ hdr[c.ring].readSeq \in Nat
        /\ c.stats.dropped \in Nat /\ c'.stats.dropped \in Nat
    BY LoadV2Is DEF TypeOK, ConsumerFields, HeaderFields, Stats
  <1>n. \A r \in Rings : hdr[r].generation \in Nat
    BY DEF TypeOK, HeaderFields
  <1>1. AllBegun'
    BY <1>0, BegunSame DEF Tally
  <1>2. \A r \in Rings : Blank(r)'
    BY <1>0 DEF Tally, Blank
  <1>3. Starting' /\ Barren'
    BY <1>0 DEF Tally, Starting, Barren
  <1>4. PICK P \in Int, D \in Int, N \in Nat :
            P = Passing /\ D = Dropping /\ N = Cardinality(Handed)
    BY TallyNumbers
  <1>5. Passing' = P /\ Dropping' = D
    BY <1>0, <1>4, TallySame
  <1>6. Current' <=> Current
    BY <1>0 DEF Current
  <1>7. CASE ~Current
    <2>1. UNCHANGED delivered
      BY <1>7, LoadV2Counts
    <2>2. Cardinality(Handed)' = N
      BY <1>4, <2>1 DEF Handed
    <2>3. P = D + N
      BY <1>0, <1>4, <1>7 DEF Tally, Balance, Balanced, Carrying, InHand
    <2>4. ~Carrying'
      BY <1>0, <1>6, <1>7 DEF Carrying
    <2>5. Balance'
      BY <1>0, <1>5, <2>2, <2>3, <2>4 DEF Balance, Balanced
    <2> QED BY <1>1, <1>2, <1>3, <2>5 DEF Tally
  <1>8. CASE Current
    <2>1. P + (c.expect - 1 - hdr[c.ring].readSeq) = D + N + c.stats.dropped
      BY <1>0, <1>4, <1>8 DEF Tally, Balance, Carrying, InHand
    <2>2. PICK M \in Nat : /\ M = Cardinality(Handed)'
                           /\ M + c'.stats.dropped = N + c.stats.dropped + 1
      <3>1. CASE Accepts
        <4>1. PICK h \in Events : h = c.copy["head"]
          BY DEF TypeOK, ConsumerFields, Words
        <4>2. /\ h = event[c.ring][SlotAt(c.expect)]["head"]
              /\ Looked = [seq |-> c.expect, writing |-> FALSE]
          BY <1>0, <1>8, <3>1, <4>1, AcceptedIsWhole
        <4>3. delivered[h] = 0
          BY <1>0, <1>8, <4>2 DEF Once, NextFresh, Complete, Looked, Head
        <4>4. delivered'[h] = 1 /\ c'.stats.dropped = c.stats.dropped
          BY <1>8, <3>1, <4>1, <4>3, LoadV2Counts
        <4>5. \A e \in Events \ {h} : delivered'[e] = delivered[e]
          BY <4>1, LoadV2Is
        <4>6. Cardinality(Handed') = N + 1
          BY <1>4, <4>3, <4>4, <4>5, HandedAdds
        <4> QED BY <1>0, <1>4, <4>4, <4>6
      <3>2. CASE ~Accepts
        <4>1. UNCHANGED delivered /\ c'.stats.dropped = c.stats.dropped + 1
          BY <3>2, LoadV2Counts
        <4>2. Cardinality(Handed)' = N
          BY <1>4, <4>1 DEF Handed
        <4> QED BY <1>0, <1>4, <4>1, <4>2
      <3> QED BY <3>1, <3>2
    <2>3. PICK x \in Nat, y \in Nat, u \in Nat, v \in Nat, q \in Nat :
              /\ x = c.expect /\ y = c'.expect /\ u = c.stats.dropped /\ v = c'.stats.dropped
              /\ q = hdr[c.ring].readSeq
      <3>1. c.expect + 1 \in Nat
        BY <1>0
      <3> QED BY <1>0, <3>1
    <2>4. P + (c'.expect - 1 - hdr[c.ring].readSeq) = D + M + c'.stats.dropped
      <3>1. P + (x - 1 - q) = D + N + u /\ y = x + 1
        BY <1>0, <2>1, <2>3
      <3>2. M + v = N + u + 1
        BY <2>2, <2>3
      <3>3. P + (y - 1 - q) = D + M + v
        BY <3>1, <3>2
      <3> QED BY <2>3, <3>3
    <2>5. Carrying'
      BY <1>0, <1>6, <1>8 DEF Carrying, InHand
    <2>6. Balance'
      BY <1>0, <1>5, <2>2, <2>4, <2>5 DEF Balance
    <2> QED BY <1>1, <1>2, <1>3, <2>6 DEF Tally
  <1> QED BY <1>7, <1>8

\* The write-back: the cursor passes what was drained, then the ring's counter
\* gets what was dropped.
LEMMA TallyWriteBack ==
    ASSUME TypeOK, TypeOK', Tally, WriteBack, UNCHANGED me
    PROVE  Tally'
  <1>0. PICK R \in Rings : R = c.ring
    BY DEF TypeOK, ConsumerFields
  <1>1. /\ UNCHANGED delivered /\ c'.ring = R /\ c'.expect = c.expect /\ c'.stats = c.stats
        /\ \A r \in Rings \ {R} : hdr'[r].readSeq = hdr[r].readSeq
        /\ \A r \in Rings : /\ hdr'[r].writeSeq = hdr[r].writeSeq
                            /\ hdr'[r].generation = hdr[r].generation
                            /\ hdr'[r].owner = hdr[r].owner
    BY <1>0, WriteBackIs, CountKept DEF Counters
  <1>2. /\ hdr[R].readSeq \in Nat /\ hdr[R].drops \in Nat /\ hdr'[R].drops \in Nat
        /\ hdr'[R].readSeq \in Nat /\ c.expect \in Nat /\ c.stats.dropped \in Nat
    BY DEF TypeOK, HeaderFields, ConsumerFields, Stats
  <1>3. AllBegun'
    BY <1>1, BegunSame DEF Tally
  <1>4. \A r \in Rings \ {R} : hdr'[r].drops = hdr[r].drops
    BY <1>0, WriteBackCounts
  <1>5. PICK P \in Int, D \in Int, N \in Nat :
            P = Passing /\ D = Dropping /\ N = Cardinality(Handed)
    BY TallyNumbers
  <1>6. /\ Passing' = P + (hdr'[R].readSeq - hdr[R].readSeq)
        /\ Dropping' = D + (hdr'[R].drops - hdr[R].drops)
    BY <1>1, <1>4, <1>5, TallyChanges
  <1>7. Cardinality(Handed)' = N
    BY <1>1, <1>5 DEF Handed
  <1>8. CASE c.pc = "progress"
    <2>1. /\ hdr'[R].readSeq = c.expect - 1 /\ hdr'[R].drops = hdr[R].drops
          /\ c'.pc = "drops"
      BY <1>0, <1>8, WriteBackIs, WriteBackCounts DEF Counters
    <2>2. hdr[R].generation = 0 => c.expect = 1 /\ c.stats.dropped = 0
      BY <1>0, <1>8 DEF Tally, Barren
    <2>3. \A r \in Rings : Blank(r)'
      BY <1>1, <1>4, <2>1, <2>2 DEF Tally, Blank
    <2>4. Barren' /\ Starting'
      BY <1>1, <2>1, <2>2 DEF Barren, Starting
    <2>5. P + (c.expect - 1 - hdr[R].readSeq) = D + N + c.stats.dropped
      BY <1>0, <1>5, <1>8 DEF Tally, Balance, Carrying
    <2>6. PICK P1 \in Int, D1 \in Int : P1 = Passing' /\ D1 = Dropping'
      BY <1>2, <1>5, <1>6
    <2>7. P1 = D1 + N + c'.stats.dropped
      BY <1>1, <1>2, <1>5, <1>6, <2>1, <2>5, <2>6
    <2>8. Balance'
      BY <1>7, <2>1, <2>6, <2>7 DEF Balance, Carrying, InHand
    <2> QED BY <1>3, <2>3, <2>4, <2>8 DEF Tally
  <1>9. CASE c.pc = "drops"
    <2>1. /\ hdr'[R].readSeq = hdr[R].readSeq /\ hdr'[R].drops = hdr[R].drops + c.stats.dropped
          /\ c'.pc = "totals"
      BY <1>0, <1>9, WriteBackIs, WriteBackCounts DEF Counters
    <2>2. hdr[R].generation = 0 => c.stats.dropped = 0
      BY <1>0, <1>9 DEF Tally, Barren
    <2>3. \A r \in Rings : Blank(r)'
      BY <1>1, <1>2, <1>4, <2>1, <2>2 DEF Tally, Blank
    <2>4. Barren' /\ Starting'
      BY <2>1 DEF Barren, Starting
    <2>5. P = D + N + c.stats.dropped
      BY <1>5, <1>9 DEF Tally, Balance, Carrying
    <2>6. PICK P1 \in Int, D1 \in Int : P1 = Passing' /\ D1 = Dropping'
      BY <1>2, <1>5, <1>6
    <2>7. P1 = D1 + N
      <3>1. P1 = P
        BY <1>2, <1>5, <1>6, <2>1, <2>6
      <3>2. D1 = D + c.stats.dropped
        BY <1>2, <1>5, <1>6, <2>1, <2>6
      <3> QED BY <1>2, <1>5, <2>5, <3>1, <3>2
    <2>8. Balance'
      BY <1>7, <2>1, <2>6, <2>7 DEF Balance, Balanced, Carrying, InHand
    <2> QED BY <1>3, <2>3, <2>4, <2>8 DEF Tally
  <1> QED BY <1>8, <1>9, WriteBackIs

\* Every step of the drain.
LEMMA TallyDrain ==
    ASSUME TypeOK, TypeOK', AllWhole, Draining, Once, Tally, Drain
    PROVE  Tally'
  <1>0. /\ UNCHANGED <<version, event, me>>
        /\ ~WriteBack => UNCHANGED hdr
        /\ ~LoadV2 => UNCHANGED delivered
    BY HelperFrame
  <1>n. /\ c.expect \in Nat /\ c.stats.dropped \in Nat
    BY DrainRecord
  <1>1. CASE DrainAll \/ DrainNext
    <2>1. /\ c.pc \in {"idle", "totals"} /\ c'.pc \in {"idle", "readSeq"}
          /\ UNCHANGED <<hdr, delivered>>
      BY <1>1, DrainAllIs
    <2> QED BY <1>0, <2>1, TallyIdle
  <1>2. CASE LoadHeader
    BY <1>0, <1>2, TallyHeader
  <1>3. CASE LoadV1
    <2>1. /\ UNCHANGED <<hdr, delivered>> /\ c.pc = "v1" /\ c'.ring = c.ring
          /\ c'.generation = c.generation /\ c'.pc \in {"check", "writeSeq", "copy"}
      BY <1>3, LoadV1Is
    <2>2. c'.expect - c.expect = c'.stats.dropped - c.stats.dropped
      BY <1>3, LoadV1Counts
    <2> QED BY <1>0, <2>1, <2>2, TallyPasses DEF InHand
  <1>4. ASSUME NEW w \in Words, CopyOut(w) PROVE Tally'
    <2>1. /\ UNCHANGED <<hdr, delivered>> /\ c.pc = "copy" /\ c'.ring = c.ring
          /\ c'.generation = c.generation /\ c'.pc \in {"copy", "v2"} /\ c'.expect = c.expect
      BY <1>4, CopyOutIs
    <2>2. c'.expect - c.expect = c'.stats.dropped - c.stats.dropped
      BY <1>4, <1>n, <2>1, CountKept
    <2> QED BY <1>0, <2>1, <2>2, TallyPasses DEF InHand
  <1>5. CASE LoadV2
    BY <1>0, <1>5, TallyLoadV2, LoadV2Is
  <1>6. CASE CheckGeneration
    <2>1. /\ UNCHANGED <<hdr, delivered>> /\ c.pc = "check" /\ c'.ring = c.ring
          /\ c'.generation = c.generation /\ c'.expect = c.expect
          /\ c'.pc = (IF Current THEN "progress" ELSE "totals")
      BY <1>6, CheckIs
    <2>2. c'.expect - c.expect = c'.stats.dropped - c.stats.dropped
      BY <1>6, <1>n, <2>1, CountKept
    <2> QED BY <1>0, <2>1, <2>2, TallyPasses DEF InHand
  <1>7. CASE WriteBack
    BY <1>0, <1>7, TallyWriteBack
  <1> QED BY <1>1, <1>2, <1>3, <1>4, <1>5, <1>6, <1>7 DEF Drain

\* Every step, while no stale ring is taken over, no ring is claimed twice and no
\* helper is killed.
LEMMA TallyStep ==
    ASSUME TypeOK, TypeOK', Registered, setup.stale = 0, used'.crashes = 0, AllSteady, AllWhole,
           Draining, Once, FirstClaims, Tally, [Next]_vars
    PROVE  Tally'
  <1>1. ASSUME NEW p \in Producers, Claim(p) \/ Release(p) \/ Publish(p) \/ Continue(p) \/ Die(p)
        PROVE  Tally'
    BY <1>1, TallyProducer DEF Draining
  <1>2. CASE Drain
    BY <1>2, TallyDrain
  <1>3. CASE HelperDies
    <2>1. used.crashes \in Nat /\ used'.crashes = used.crashes + 1
      BY <1>3, HelperFrame DEF TypeOK, UsedFields
    <2> QED BY <2>1
  <1>4. CASE Tick \/ (\E layout \in {"same", "other"} : Attach(layout)) \/ UNCHANGED vars
    <2>1. UNCHANGED <<hdr, me, c, delivered>>
      BY <1>4, HelperFrame DEF vars
    <2>2. AllBegun'
      BY <2>1, BegunSame DEF Tally
    <2>3. \A r \in Rings : /\ hdr[r].generation \in Nat
                           /\ hdr[r].generation = 0 => hdr[r].writeSeq = 0
      BY DEF TypeOK, HeaderFields, Tally, Blank
    <2> QED BY <2>1, <2>2, <2>3, TallyThread DEF Draining
  <1> QED BY <1>1, <1>2, <1>3, <1>4 DEF Next

\* Between drains the account is the property's.
LEMMA TallyAccounts == ASSUME Tally PROVE c.pc = "idle" => Accounted
  <1> SUFFICES ASSUME c.pc = "idle" PROVE Accounted
    OBVIOUS
  <1>1. Balanced
    BY DEF Tally, Balance, Carrying, InHand
  <1>2. DOMAIN ReadSeqs = Rings /\ DOMAIN Drops = Rings
    BY DEF ReadSeqs, Drops
  <1>3. FoldFunction(+, 0, ReadSeqs) = Passing /\ FoldFunction(+, 0, Drops) = Dropping
    BY <1>2, FoldIsSum DEF Passing, Dropping
  <1>4. /\ FoldFunction(+, 0, [r \in Rings |-> hdr[r]["readSeq"]]) = Passing
        /\ FoldFunction(+, 0, [r \in Rings |-> hdr[r]["drops"]]) = Dropping
    BY <1>3 DEF ReadSeqs, Drops
  <1> QED BY <1>1, <1>4 DEF Accounted, Balanced, Handed

(* The account of rings that are claimed once, each by whichever thread.          *)
Accounts == /\ OnceRings
            /\ setup.stale = 0 /\ used.crashes = 0 => Tally

\* It holds in every behaviour in which no ring is claimed for a second time.
LEMMA AccountsStep ==
    ASSUME Accounts, FirstClaims, [Next]_vars
    PROVE  Accounts'
  <1>1. OnceRings /\ OnceRings' /\ UNCHANGED setup
    BY OnceRingsInvariant, SetupStays DEF Accounts
  <1>2. TypeOK /\ TypeOK' /\ Registered
    BY <1>1 DEF OnceRings, SteadyRings
  <1>3. ASSUME setup.stale = 0, used'.crashes = 0 PROVE Tally'
    <2>1. used.crashes = 0
      BY <1>2, <1>3, CrashesStay
    <2>2. AllSteady /\ AllWhole /\ Draining
      BY <1>1, <1>3 DEF OnceRings, SteadyRings, SteadyInv
    <2>3. Once /\ Tally
      BY <1>1, <1>3, <2>1 DEF OnceRings, Accounts
    <2> QED BY <1>2, <1>3, <2>2, <2>3, TallyStep
  <1> QED BY <1>1, <1>3 DEF Accounts

\* "The gap is exact": as long as no stale ring is taken over and no ring is
\* claimed for a second time (which drops its backlog uncounted), every record
\* that the read cursors passed was delivered or counted as dropped, whatever the
\* producers overwrote meanwhile, on any number of rings and by any number of
\* threads.
THEOREM SpecAccounted ==
    Spec /\ []FirstClaims => [](setup.stale = 0 => Accounted)
  <1>1. Init => Accounts
    BY OnceRingsInvariant, InitTally DEF Accounts
  <1>2. Accounts /\ FirstClaims /\ [Next]_vars => Accounts'
    BY AccountsStep
  <1>3. Accounts => (setup.stale = 0 => Accounted)
    <2>1. c.pc # "idle" \/ used.crashes # 0 => Accounted
      BY DEF Accounted
    <2> QED BY <2>1, TallyAccounts DEF Accounts
  <1> QED BY <1>1, <1>2, <1>3, PTL DEF Spec

(* A region in which one claim is made in all.                                    *)
AccountsOnce == /\ OnceRings /\ OnceClaimedRings
                /\ setup.stale = 0 /\ setup.claims <= 1 /\ used.crashes = 0 => Tally

\* Its ring is claimed for the first time.
LEMMA FirstOfAll == ASSUME TypeOK, OnceClaimed PROVE FirstClaims
  <1> SUFFICES ASSUME NEW p \in Producers,
                      me[p].pc \in {"writeSeq", "readSeq", "rest", "generation"}
               PROVE  hdr[me[p].ring].generation = 0
    BY DEF FirstClaims
  <1>1. me[p].ring \in Rings
    BY DEF TypeOK, ProducerFields, Holding, Resetting
  <1>2. \A r \in Rings : hdr[r].generation = 0
    BY DEF OnceClaimed, Orderly, Untouched, Looking, Resetting
  <1> QED BY <1>1, <1>2

\* The account of such a region is kept in every behaviour.
LEMMA AccountsOnceStep ==
    ASSUME AccountsOnce, [Next]_vars
    PROVE  AccountsOnce'
  <1>1. OnceRings /\ OnceRings' /\ OnceClaimedRings' /\ UNCHANGED setup
    BY OnceRingsInvariant, OnceClaimedInvariant, SetupStays DEF AccountsOnce
  <1>2. TypeOK /\ TypeOK' /\ Registered
    BY <1>1 DEF OnceRings, SteadyRings
  <1>3. ASSUME setup.stale = 0, setup.claims <= 1, used'.crashes = 0 PROVE Tally'
    <2>1. used.crashes = 0
      BY <1>2, <1>3, CrashesStay
    <2>2. AllSteady /\ AllWhole /\ Draining
      BY <1>1, <1>3 DEF OnceRings, SteadyRings, SteadyInv
    <2>3. Once /\ Tally
      BY <1>1, <1>3, <2>1 DEF OnceRings, AccountsOnce
    <2>4. FirstClaims
      BY <1>2, <1>3, FirstOfAll DEF AccountsOnce, OnceClaimedRings
    <2> QED BY <1>2, <1>3, <2>2, <2>3, <2>4, TallyStep
  <1> QED BY <1>1, <1>3 DEF AccountsOnce

\* The same for regions in which one claim is made in all, whatever the behaviour:
\* the gap is exact while no helper has been killed, also when the thread dies.
THEOREM SpecAccountedOnce ==
    Spec => [](setup.stale = 0 /\ setup.claims <= 1 => Accounted)
  <1>1. Init => AccountsOnce
    BY OnceRingsInvariant, OnceClaimedInvariant, InitTally DEF AccountsOnce
  <1>2. AccountsOnce /\ [Next]_vars => AccountsOnce'
    BY AccountsOnceStep
  <1>3. AccountsOnce => (setup.stale = 0 /\ setup.claims <= 1 => Accounted)
    <2>1. c.pc # "idle" \/ used.crashes # 0 => Accounted
      BY DEF Accounted
    <2> QED BY <2>1, TallyAccounts DEF AccountsOnce
  <1> QED BY <1>1, <1>2, <1>3, PTL DEF Spec

=============================================================================
