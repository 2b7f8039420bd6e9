----------------------- MODULE PoisonQuarantineProofs -----------------------
(* The quarantine for every number of threads, blocks and slots.  Whoever     *)
(* frees, the cursors stay within the ring (CursorInv).  With one freeing     *)
(* thread the part of the ring between the cursors and the withheld blocks    *)
(* are each other's (AloneInv), so a block is really freed once, is never     *)
(* forgotten, and its poison leads to its own record; and the byte account is *)
(* the sum of their sizes (Accounts).                                         *)
EXTENDS PoisonQuarantine, SumLemmas

(* The quarantine is being read; a reservation is being filled; its number is *)
(* taken.                                                                     *)
Reading == {"v1", "copy", "v2"}
Filling == {"poison", "seq", "odd", "copyIn", "even"}
Marking == {"odd", "copyIn", "even"}

(* What each step may rely on in the locals, whoever frees.                   *)
LocalFields(m) ==
    /\ DOMAIN m = {"pc", "fault", "block", "admitted", "drains", "attempt", "r", "w", "index",
                   "v1", "seq", "copy", "have", "sub", "left"}
    /\ m.pc \in {"idle", "count", "countRead", "bytes", "popRead", "popWrite", "v1", "copy", "v2",
                 "popCas", "popBytes", "popSub", "drain", "reserve", "reserveRead", "reserveCas",
                 "poison", "seq", "odd", "copyIn", "even", "addBytes", "markHeld", "markFreed",
                 "free", "record", "dead"}
    /\ m.block \in Blocks \cup {NoBlock} /\ m.r \in Nat /\ m.w \in Nat
    /\ m.index \in {0} \cup Indexes /\ m.v1 \in Version /\ m.seq \in Nat
    /\ m.copy \in [Words -> Blocks \cup {NoBlock}] /\ m.left \in SUBSET Words
    /\ m.fault \in BOOLEAN /\ m.have \in BOOLEAN
    /\ m.pc \in Reading \cup {"popCas"} \cup Filling => m.index \in Indexes
    /\ m.pc \notin {"idle", "dead"} /\ ~m.fault => m.block \in Blocks
CursorFields(c) ==
    /\ DOMAIN c = {"write", "read", "seq", "bytes", "evictions"}
    /\ c.write \in Nat /\ c.read \in Nat /\ c.seq \in Nat

TypeOK ==
    /\ setup \in Setups /\ CursorFields(q) /\ slot \in [Indexes -> Slot]
    /\ mem \in [Blocks -> Owners] /\ poison \in [Blocks -> {0} \cup Indexes]
    /\ ledger \in [Blocks -> {"live", "freed"}]
    /\ DOMAIN me = Threads /\ \A t \in Threads : LocalFields(me[t])

(* The cursors, and what was seen of one while the other moved.               *)
Cursors(t) ==
    /\ me[t].pc \in Reading => me[t].fault \/ me[t].r < q.write
    /\ me[t].pc = "popCas" => me[t].r < q.write
    /\ me[t].pc = "reserveCas" => me[t].w < q.read + Capacity
CursorInv == CursorsBounded /\ \A t \in Threads : Cursors(t)

(* One thread, f, frees.  What everybody does:                                *)
Withheld == {"addBytes", "markHeld"}
Readers(f) == \A t \in Threads \ {f} :
    /\ me[t].pc \in {"idle", "dead"} \cup Reading
    /\ me[t].pc \in Reading => me[t].fault
Holding(f) ==
    /\ me[f].fault => me[f].pc \in Reading \cup {"dead"}
    /\ me[f].pc \in Withheld => mem[me[f].block] = "held"
    /\ me[f].pc \notin {"idle", "dead"} \cup Withheld /\ ~me[f].fault => mem[me[f].block] = "hook"
Told == \A b \in Blocks : mem[b] = "live" => ledger[b] = "live"

(* The part of the ring between the cursors that is published: every slot has *)
(* a held block, and every held block is in a slot or being drained.          *)
Led == \A b \in Blocks : mem[b] = "held" => poison[b] # 0 /\ InSlot(b, poison[b])
Last(f) == IF me[f].pc \in Filling THEN q.write - 1 ELSE q.write
HeldAt(b, n) == mem[b] = "held" /\ poison[b] = IndexOf(n)
Kept(f) == me[f].pc # "dead" =>
    \A n \in q.read .. Last(f) - 1 : \E b \in Blocks : HeldAt(b, n)
Found(f) == me[f].pc # "dead" =>
    \A b \in Blocks : mem[b] = "held" =>
        \/ \E n \in q.read .. Last(f) - 1 : HeldAt(b, n)
        \/ Popped(f) /\ me[f].copy["ptr"] = b

(* Where f stands in PopOldest, Reserve and Publish.                          *)
Popping(f) ==
    /\ me[f].pc = "popWrite" => me[f].r = q.read
    /\ me[f].pc \in Reading \cup {"popCas"} /\ ~me[f].fault =>
            me[f].r = q.read /\ me[f].r < q.write /\ me[f].index = IndexOf(me[f].r)
    /\ me[f].pc \in {"copy", "v2"} /\ ~me[f].fault => Accepts(me[f])
    /\ me[f].pc = "popCas" => me[f].have /\ me[f].copy = slot[me[f].index].rec
    /\ Popped(f) => /\ me[f].copy["ptr"] \in Blocks /\ mem[me[f].copy["ptr"]] = "held"
                    /\ \A n \in q.read .. q.write - 1 : ~HeldAt(me[f].copy["ptr"], n)
Reserved(f) ==
    /\ me[f].pc \in {"reserveRead", "reserveCas"} => me[f].w = q.write
    /\ me[f].pc \in Filling =>
            /\ q.read < q.write /\ me[f].index = IndexOf(q.write - 1)
            /\ \A b \in Blocks : mem[b] = "held" => poison[b] # me[f].index
    /\ me[f].pc \in Filling \ {"poison"} => poison[me[f].block] = me[f].index
Publishing(f) ==
    /\ me[f].pc \in Marking => me[f].seq > 0 /\ me[f].seq <= q.seq
    /\ me[f].pc \in {"copyIn", "even"} => slot[me[f].index].version.writing
    /\ me[f].pc = "copyIn" =>
            \A x \in Words \ me[f].left : slot[me[f].index].rec[x] = me[f].block
    /\ me[f].pc = "even" => \A x \in Words : slot[me[f].index].rec[x] = me[f].block

(* A record that can be read is whole, its version is older than the one being*)
(* published, and so is every version a reader holds.                         *)
Older(f, v) == v.seq <= q.seq /\ (me[f].pc \in Marking => v.seq < me[f].seq)
Whole(f) == \A i \in Indexes : Readable(slot[i].version) =>
    Older(f, slot[i].version) /\ slot[i].rec["ptr"] = slot[i].rec["rest"]
Copied(f, t) ==
    me[t].pc \in {"copy", "v2"} =>
        /\ Readable(me[t].v1) /\ Older(f, me[t].v1)
        /\ Accepts(me[t]) => \A x \in Words \ me[t].left : me[t].copy[x] = slot[me[t].index].rec[x]
        /\ me[t].pc = "v2" => me[t].left = {}
Alone(f) ==
    /\ Readers(f) /\ Holding(f) /\ Told /\ Led /\ Kept(f) /\ Found(f)
    /\ Popping(f) /\ Reserved(f) /\ Publishing(f) /\ Whole(f)
    /\ \A t \in Threads : Copied(f, t)
AloneInv == \A f \in Threads : setup.hooked = {f} => Alone(f)

----------------------------------------------------------------------------
\* What the assumptions say of the constants, in the form the steps need it.
LEMMA Constants ==
    /\ NoBlock \notin Blocks /\ Capacity \in Nat /\ Capacity > 0
    /\ \A x \in Setups : x.hooked \in SUBSET Threads /\ x.deaths \in Nat
  BY QuarantineAssumption DEF Situation

\* A cursor's slot is in the ring.
LEMMA IndexOfType == ASSUME NEW n \in Nat PROVE IndexOf(n) \in Indexes
  BY Constants DEF IndexOf, Indexes

\* A product of two integers that are not zero is no smaller than a factor.
LEMMA Multiple ==
    ASSUME NEW k \in Nat \ {0}, NEW x \in Int, x # 0
    PROVE  k * x >= k \/ k * x <= -k
  OBVIOUS

\* Division with rest.
LEMMA Rest ==
    ASSUME NEW n \in Nat, NEW k \in Nat \ {0}
    PROVE  n \div k \in Int /\ n = k * (n \div k) + (n % k)
  OBVIOUS

\* Two cursors less than a lap apart have different slots.
LEMMA IndexOfDiffers ==
    ASSUME NEW m \in Nat, NEW n \in Nat, m < n, n - m < Capacity
    PROVE  IndexOf(m) # IndexOf(n)
  <1>0. PICK k \in Nat \ {0} : k = Capacity
    BY Constants
  <1> SUFFICES ASSUME m % k = n % k PROVE FALSE
    BY <1>0 DEF IndexOf
  <1>1. PICK x \in Int, y \in Int : x = m \div k /\ y = n \div k
    BY Rest
  <1>2. n - m = k * y - k * x
    BY <1>1, Rest
  <1>3. n - m = k * (y - x)
    BY <1>2
  <1>4. y - x # 0
    BY <1>3
  <1>5. k * (y - x) >= k \/ k * (y - x) <= -k
    BY <1>4, Multiple
  <1> QED BY <1>0, <1>3, <1>5

\* The locals of a thread after its step.
Others(t) == DOMAIN me' = Threads /\ \A u \in Threads \ {t} : me'[u] = me[u]
\* One thread's locals are replaced.
LEMMA UpdateIs ==
    ASSUME TypeOK, NEW t \in Threads, NEW m, me' = [me EXCEPT ![t] = m]
    PROVE  me'[t] = m /\ Others(t)
  BY DEF TypeOK, Others

\* The rest of the locals is the same.
SameRest(m, n) ==
    /\ n.r = m.r /\ n.w = m.w /\ n.index = m.index /\ n.v1 = m.v1 /\ n.seq = m.seq
    /\ n.copy = m.copy /\ n.left = m.left

\* A step that only moves on.
LEMMA MoveIs ==
    ASSUME TypeOK, NEW t \in Threads, NEW l, Goto(t, l),
           l \in {"bytes", "popRead", "count", "reserve", "markFreed", "popBytes", "drain",
                  "reserveCas", "seq", "addBytes", "markHeld", "free", "dead"},
           me[t].pc # "idle", l # "dead" => me[t].pc # "dead", l = "seq" => me[t].pc \in Filling
    PROVE  /\ Others(t) /\ LocalFields(me'[t]) /\ me'[t].pc = l /\ SameRest(me[t], me'[t])
           /\ me'[t].block = me[t].block /\ me'[t].fault = me[t].fault /\ me'[t].have = me[t].have
  <1>0. LocalFields(me[t])
    BY DEF TypeOK
  <1> DEFINE m == [me[t] EXCEPT !.pc = l]
  <1>1. me' = [me EXCEPT ![t] = m]
    BY DEF Goto, TypeOK
  <1>2. /\ DOMAIN m = DOMAIN me[t] /\ m.pc = l /\ m.block = me[t].block /\ m.fault = me[t].fault
        /\ m.have = me[t].have /\ SameRest(me[t], m)
    BY <1>0 DEF LocalFields, SameRest
  <1> HIDE DEF m
  <1>3. LocalFields(m)
    BY <1>0, <1>2 DEF LocalFields, SameRest, Reading, Filling
  <1> QED BY <1>1, <1>2, <1>3, UpdateIs

\* The locals between calls.
LEMMA IdleIs ==
    /\ LocalFields(Idle) /\ Idle.pc = "idle" /\ Idle.fault = FALSE /\ Idle.block = NoBlock
    /\ Idle.r = 0 /\ Idle.w = 0 /\ Idle.index = 0
  BY DEF Idle, LocalFields, NoVersion, NoRecord, Version, Reading, Filling, Words

\* A call returns.
LEMMA ReturnIs ==
    ASSUME TypeOK, NEW t \in Threads, Return(t)
    PROVE  Others(t) /\ me'[t] = Idle /\ LocalFields(me'[t])
  BY IdleIs, UpdateIs DEF Return

\* Count loads the write cursor.
LEMMA LoadCountWriteIs ==
    ASSUME TypeOK, NEW t \in Threads, LoadCountWrite(t)
    PROVE  /\ Others(t) /\ LocalFields(me'[t]) /\ me[t].pc = "count"
           /\ me'[t].w = q.write /\ me'[t].pc = "countRead"
           /\ me'[t].fault = me[t].fault /\ me'[t].block = me[t].block /\ me'[t].r = me[t].r
           /\ me'[t].index = me[t].index /\ me'[t].v1 = me[t].v1 /\ me'[t].seq = me[t].seq
           /\ me'[t].copy = me[t].copy /\ me'[t].have = me[t].have /\ me'[t].left = me[t].left
  <1>0. LocalFields(me[t]) /\ me[t].pc = "count"
    BY DEF TypeOK, LoadCountWrite
  <1>1. PICK n \in Nat : n = q.write
    BY <1>0 DEF TypeOK, CursorFields
  <1> DEFINE m == [me[t] EXCEPT !.w = n, !.pc = "countRead"]
  <1>2. me' = [me EXCEPT ![t] = m]
    BY <1>0, <1>1 DEF LoadCountWrite, TypeOK
  <1>3. /\ DOMAIN m = DOMAIN me[t] /\ m.w = n /\ m.pc = "countRead" /\ m.fault = me[t].fault
        /\ m.block = me[t].block /\ m.r = me[t].r /\ m.index = me[t].index /\ m.v1 = me[t].v1
        /\ m.seq = me[t].seq /\ m.copy = me[t].copy /\ m.have = me[t].have /\ m.left = me[t].left
    BY <1>0 DEF LocalFields
  <1> HIDE DEF m
  <1>4. LocalFields(m)
    BY <1>0, <1>1, <1>3 DEF LocalFields, Reading, Filling
  <1> QED BY <1>0, <1>1, <1>2, <1>3, <1>4, UpdateIs

\* Count loads the read cursor.
LEMMA LoadCountReadIs ==
    ASSUME TypeOK, NEW t \in Threads, LoadCountRead(t)
    PROVE  /\ Others(t) /\ LocalFields(me'[t]) /\ me[t].pc = "countRead"
           /\ me'[t].r = q.read /\ me'[t].pc = "bytes"
           /\ me'[t].fault = me[t].fault /\ me'[t].block = me[t].block /\ me'[t].w = me[t].w
           /\ me'[t].index = me[t].index /\ me'[t].v1 = me[t].v1 /\ me'[t].seq = me[t].seq
           /\ me'[t].copy = me[t].copy /\ me'[t].have = me[t].have /\ me'[t].left = me[t].left
  <1>0. LocalFields(me[t]) /\ me[t].pc = "countRead"
    BY DEF TypeOK, LoadCountRead
  <1>1. PICK n \in Nat : n = q.read
    BY <1>0 DEF TypeOK, CursorFields
  <1> DEFINE m == [me[t] EXCEPT !.r = n, !.pc = "bytes"]
  <1>2. me' = [me EXCEPT ![t] = m]
    BY <1>0, <1>1 DEF LoadCountRead, TypeOK
  <1>3. /\ DOMAIN m = DOMAIN me[t] /\ m.r = n /\ m.pc = "bytes" /\ m.fault = me[t].fault
        /\ m.block = me[t].block /\ m.w = me[t].w /\ m.index = me[t].index /\ m.v1 = me[t].v1
        /\ m.seq = me[t].seq /\ m.copy = me[t].copy /\ m.have = me[t].have /\ m.left = me[t].left
    BY <1>0 DEF LocalFields
  <1> HIDE DEF m
  <1>4. LocalFields(m)
    BY <1>0, <1>1, <1>3 DEF LocalFields, Reading, Filling
  <1> QED BY <1>0, <1>1, <1>2, <1>3, <1>4, UpdateIs

\* PopOldest loads the read cursor.
LEMMA LoadPopReadIs ==
    ASSUME TypeOK, NEW t \in Threads, LoadPopRead(t)
    PROVE  /\ Others(t) /\ LocalFields(me'[t]) /\ me[t].pc = "popRead"
           /\ me'[t].r = q.read /\ me'[t].pc = "popWrite"
           /\ me'[t].fault = me[t].fault /\ me'[t].block = me[t].block /\ me'[t].w = me[t].w
           /\ me'[t].index = me[t].index /\ me'[t].v1 = me[t].v1 /\ me'[t].seq = me[t].seq
           /\ me'[t].copy = me[t].copy /\ me'[t].have = me[t].have /\ me'[t].left = me[t].left
  <1>0. LocalFields(me[t]) /\ me[t].pc = "popRead"
    BY DEF TypeOK, LoadPopRead
  <1>1. PICK n \in Nat : n = q.read
    BY <1>0 DEF TypeOK, CursorFields
  <1> DEFINE m == [me[t] EXCEPT !.r = n, !.pc = "popWrite"]
  <1>2. me' = [me EXCEPT ![t] = m]
    BY <1>0, <1>1 DEF LoadPopRead, TypeOK
  <1>3. /\ DOMAIN m = DOMAIN me[t] /\ m.r = n /\ m.pc = "popWrite" /\ m.fault = me[t].fault
        /\ m.block = me[t].block /\ m.w = me[t].w /\ m.index = me[t].index /\ m.v1 = me[t].v1
        /\ m.seq = me[t].seq /\ m.copy = me[t].copy /\ m.have = me[t].have /\ m.left = me[t].left
    BY <1>0 DEF LocalFields
  <1> HIDE DEF m
  <1>4. LocalFields(m)
    BY <1>0, <1>1, <1>3 DEF LocalFields, Reading, Filling
  <1> QED BY <1>0, <1>1, <1>2, <1>3, <1>4, UpdateIs

\* Reserve loads the write cursor.
LEMMA LoadReserveWriteIs ==
    ASSUME TypeOK, NEW t \in Threads, LoadReserveWrite(t)
    PROVE  /\ Others(t) /\ LocalFields(me'[t]) /\ me[t].pc = "reserve"
           /\ me'[t].w = q.write /\ me'[t].pc = "reserveRead"
           /\ me'[t].fault = me[t].fault /\ me'[t].block = me[t].block /\ me'[t].r = me[t].r
           /\ me'[t].index = me[t].index /\ me'[t].v1 = me[t].v1 /\ me'[t].seq = me[t].seq
           /\ me'[t].copy = me[t].copy /\ me'[t].have = me[t].have /\ me'[t].left = me[t].left
  <1>0. LocalFields(me[t]) /\ me[t].pc = "reserve"
    BY DEF TypeOK, LoadReserveWrite
  <1>1. PICK n \in Nat : n = q.write
    BY <1>0 DEF TypeOK, CursorFields
  <1> DEFINE m == [me[t] EXCEPT !.w = n, !.pc = "reserveRead"]
  <1>2. me' = [me EXCEPT ![t] = m]
    BY <1>0, <1>1 DEF LoadReserveWrite, TypeOK
  <1>3. /\ DOMAIN m = DOMAIN me[t] /\ m.w = n /\ m.pc = "reserveRead" /\ m.fault = me[t].fault
        /\ m.block = me[t].block /\ m.r = me[t].r /\ m.index = me[t].index /\ m.v1 = me[t].v1
        /\ m.seq = me[t].seq /\ m.copy = me[t].copy /\ m.have = me[t].have /\ m.left = me[t].left
    BY <1>0 DEF LocalFields
  <1> HIDE DEF m
  <1>4. LocalFields(m)
    BY <1>0, <1>1, <1>3 DEF LocalFields, Reading, Filling
  <1> QED BY <1>0, <1>1, <1>2, <1>3, <1>4, UpdateIs

\* PopOldest works out what to subtract.
LEMMA LoadPopBytesIs ==
    ASSUME TypeOK, NEW t \in Threads, LoadPopBytes(t)
    PROVE  /\ Others(t) /\ LocalFields(me'[t]) /\ me[t].pc = "popBytes"
           /\ me'[t].pc = "popSub"
           /\ me'[t].fault = me[t].fault /\ me'[t].block = me[t].block /\ me'[t].r = me[t].r
           /\ me'[t].w = me[t].w /\ me'[t].index = me[t].index /\ me'[t].v1 = me[t].v1
           /\ me'[t].seq = me[t].seq /\ me'[t].copy = me[t].copy /\ me'[t].have = me[t].have
           /\ me'[t].left = me[t].left
  <1>0. LocalFields(me[t]) /\ me[t].pc = "popBytes"
    BY DEF TypeOK, LoadPopBytes
  <1>1. PICK n : n = Subtrahend(Size(me[t].copy["rest"]), q.bytes)
    BY <1>0 DEF TypeOK
  <1> DEFINE m == [me[t] EXCEPT !.sub = n, !.pc = "popSub"]
  <1>2. me' = [me EXCEPT ![t] = m]
    BY <1>0, <1>1 DEF LoadPopBytes, TypeOK
  <1>3. /\ DOMAIN m = DOMAIN me[t] /\ m.pc = "popSub" /\ m.fault = me[t].fault /\ m.block = me[t].block
        /\ m.r = me[t].r /\ m.w = me[t].w /\ m.index = me[t].index /\ m.v1 = me[t].v1
        /\ m.seq = me[t].seq /\ m.copy = me[t].copy /\ m.have = me[t].have /\ m.left = me[t].left
    BY <1>0 DEF LocalFields
  <1> HIDE DEF m
  <1>4. LocalFields(m)
    BY <1>0, <1>1, <1>3 DEF LocalFields, Reading, Filling
  <1> QED BY <1>0, <1>1, <1>2, <1>3, <1>4, UpdateIs

\* DrainOneQuarantined is done with the record.
LEMMA DrainIs ==
    ASSUME TypeOK, NEW t \in Threads, Drain(t)
    PROVE  /\ Others(t) /\ LocalFields(me'[t]) /\ me[t].pc = "drain"
           /\ me'[t].copy = NoRecord /\ me'[t].have = FALSE /\ me'[t].pc = "count"
           /\ me'[t].fault = me[t].fault /\ me'[t].block = me[t].block /\ me'[t].r = me[t].r
           /\ me'[t].w = me[t].w /\ me'[t].index = me[t].index /\ me'[t].v1 = me[t].v1
           /\ me'[t].seq = me[t].seq /\ me'[t].left = me[t].left
  <1>0. LocalFields(me[t]) /\ me[t].pc = "drain"
    BY DEF TypeOK, Drain
  <1>1. PICK n : n = me[t].drains + 1
    BY <1>0 DEF TypeOK
  <1>2. PICK c \in [Words -> Blocks \cup {NoBlock}] : c = NoRecord
    BY <1>0 DEF NoRecord
  <1> DEFINE m == [me[t] EXCEPT !.drains = n, !.copy = c, !.have = FALSE, !.pc = "count"]
  <1>3. me' = [me EXCEPT ![t] = m]
    BY <1>0, <1>1, <1>2 DEF Drain, TypeOK
  <1>4. /\ DOMAIN m = DOMAIN me[t] /\ m.copy = c /\ m.have = FALSE /\ m.pc = "count"
        /\ m.fault = me[t].fault /\ m.block = me[t].block /\ m.r = me[t].r /\ m.w = me[t].w
        /\ m.index = me[t].index /\ m.v1 = me[t].v1 /\ m.seq = me[t].seq /\ m.left = me[t].left
    BY <1>0 DEF LocalFields
  <1> HIDE DEF m
  <1>5. LocalFields(m)
    BY <1>0, <1>1, <1>2, <1>4 DEF LocalFields, Reading, Filling
  <1> QED BY <1>0, <1>1, <1>2, <1>3, <1>4, <1>5, UpdateIs

\* Publish takes a number.
LEMMA TakeSeqIs ==
    ASSUME TypeOK, NEW t \in Threads, TakeSeq(t)
    PROVE  /\ Others(t) /\ LocalFields(me'[t]) /\ me[t].pc = "seq"
           /\ me'[t].seq = q.seq + 1 /\ me'[t].pc = "odd"
           /\ me'[t].fault = me[t].fault /\ me'[t].block = me[t].block /\ me'[t].r = me[t].r
           /\ me'[t].w = me[t].w /\ me'[t].index = me[t].index /\ me'[t].v1 = me[t].v1
           /\ me'[t].copy = me[t].copy /\ me'[t].have = me[t].have /\ me'[t].left = me[t].left
  <1>0. LocalFields(me[t]) /\ me[t].pc = "seq"
    BY DEF TypeOK, TakeSeq
  <1>1. PICK n \in Nat : n = q.seq + 1
    BY <1>0 DEF TypeOK, CursorFields
  <1> DEFINE m == [me[t] EXCEPT !.seq = n, !.pc = "odd"]
  <1>2. me' = [me EXCEPT ![t] = m]
    BY <1>0, <1>1 DEF TakeSeq, TypeOK
  <1>3. /\ DOMAIN m = DOMAIN me[t] /\ m.seq = n /\ m.pc = "odd" /\ m.fault = me[t].fault
        /\ m.block = me[t].block /\ m.r = me[t].r /\ m.w = me[t].w /\ m.index = me[t].index
        /\ m.v1 = me[t].v1 /\ m.copy = me[t].copy /\ m.have = me[t].have /\ m.left = me[t].left
    BY <1>0 DEF LocalFields
  <1> HIDE DEF m
  <1>4. LocalFields(m)
    BY <1>0, <1>1, <1>3 DEF LocalFields, Reading, Filling
  <1> QED BY <1>0, <1>1, <1>2, <1>3, <1>4, UpdateIs

\* Publish marks the slot.
LEMMA StoreOddIs ==
    ASSUME TypeOK, NEW t \in Threads, StoreOdd(t)
    PROVE  /\ Others(t) /\ LocalFields(me'[t]) /\ me[t].pc = "odd"
           /\ me'[t].left = Words /\ me'[t].pc = "copyIn"
           /\ me'[t].fault = me[t].fault /\ me'[t].block = me[t].block /\ me'[t].r = me[t].r
           /\ me'[t].w = me[t].w /\ me'[t].index = me[t].index /\ me'[t].v1 = me[t].v1
           /\ me'[t].seq = me[t].seq /\ me'[t].copy = me[t].copy /\ me'[t].have = me[t].have
  <1>0. LocalFields(me[t]) /\ me[t].pc = "odd"
    BY DEF TypeOK, StoreOdd
  <1> DEFINE m == [me[t] EXCEPT !.left = Words, !.pc = "copyIn"]
  <1>1. me' = [me EXCEPT ![t] = m]
    BY <1>0 DEF StoreOdd, TypeOK
  <1>2. /\ DOMAIN m = DOMAIN me[t] /\ m.left = Words /\ m.pc = "copyIn" /\ m.fault = me[t].fault
        /\ m.block = me[t].block /\ m.r = me[t].r /\ m.w = me[t].w /\ m.index = me[t].index
        /\ m.v1 = me[t].v1 /\ m.seq = me[t].seq /\ m.copy = me[t].copy /\ m.have = me[t].have
    BY <1>0 DEF LocalFields
  <1> HIDE DEF m
  <1>3. LocalFields(m)
    BY <1>0, <1>2 DEF LocalFields, Reading, Filling
  <1> QED BY <1>0, <1>1, <1>2, <1>3, UpdateIs

\* TryPoisonOnFree drains, looks once more, gives up or goes on.
LEMMA BudgetIs ==
    ASSUME TypeOK, NEW t \in Threads, Budget(t)
    PROVE  /\ Others(t) /\ LocalFields(me'[t]) /\ me[t].pc = "bytes"
           /\ me'[t].pc \in {"popRead", "count", "markFreed", "reserve"}
           /\ SameRest(me[t], me'[t])
           /\ me'[t].block = me[t].block /\ me'[t].fault = me[t].fault
  <1>0. LocalFields(me[t]) /\ me[t].pc = "bytes"
    BY DEF TypeOK, Budget
  <1>1. CASE \E l \in {"popRead", "markFreed", "reserve"} : Goto(t, l)
    BY <1>0, <1>1, MoveIs
  <1>2. CASE me' = [me EXCEPT ![t].admitted = TRUE, ![t].pc = "count"]
    <2> DEFINE m == [me[t] EXCEPT !.admitted = TRUE, !.pc = "count"]
    <2>1. me' = [me EXCEPT ![t] = m]
      BY <1>2 DEF TypeOK
    <2>2. /\ DOMAIN m = DOMAIN me[t] /\ m.pc = "count" /\ m.block = me[t].block
          /\ m.fault = me[t].fault /\ m.have = me[t].have /\ SameRest(me[t], m)
      BY <1>0 DEF LocalFields, SameRest
    <2> HIDE DEF m
    <2>3. LocalFields(m)
      BY <1>0, <2>2 DEF LocalFields, SameRest, Reading, Filling
    <2> QED BY <1>0, <2>1, <2>2, <2>3, UpdateIs
  <1>3. \/ \E l \in {"popRead", "markFreed", "reserve"} : Goto(t, l)
        \/ me' = [me EXCEPT ![t].admitted = TRUE, ![t].pc = "count"]
    BY Zenon DEF Budget
  <1> QED BY <1>1, <1>2, <1>3

\* PopOldest finds the ring empty, or looks at the oldest slot.
LEMMA LoadPopWriteIs ==
    ASSUME TypeOK, NEW t \in Threads, LoadPopWrite(t)
    PROVE  /\ Others(t) /\ LocalFields(me'[t]) /\ me[t].pc = "popWrite"
           /\ me'[t].block = me[t].block /\ me'[t].fault = me[t].fault
           /\ me'[t].r = me[t].r
           /\ \/ me'[t].pc = "count"
              \/ /\ me'[t].pc = "v1" /\ me[t].r < q.write /\ me'[t].index = IndexOf(me[t].r)
  <1>0. LocalFields(me[t]) /\ me[t].pc = "popWrite" /\ q.write \in Nat
    BY DEF TypeOK, CursorFields, LoadPopWrite
  <1>1. CASE me[t].r >= q.write
    <2> DEFINE m == [me[t] EXCEPT !.admitted = TRUE, !.pc = "count"]
    <2>1. me' = [me EXCEPT ![t] = m]
      BY <1>1 DEF LoadPopWrite
    <2>2. /\ DOMAIN m = DOMAIN me[t] /\ m.pc = "count" /\ m.block = me[t].block
          /\ m.fault = me[t].fault /\ m.have = me[t].have /\ SameRest(me[t], m)
      BY <1>0 DEF LocalFields, SameRest
    <2> HIDE DEF m
    <2>3. LocalFields(m)
      BY <1>0, <2>2 DEF LocalFields, SameRest, Reading, Filling
    <2> QED BY <1>0, <2>1, <2>2, <2>3, UpdateIs DEF SameRest
  <1>2. CASE ~(me[t].r >= q.write)
    <2>0. PICK i \in Indexes : i = IndexOf(me[t].r)
      BY <1>0, IndexOfType DEF LocalFields
    <2> DEFINE m == [me[t] EXCEPT !.index = i, !.have = FALSE, !.pc = "v1"]
    <2>1. me' = [me EXCEPT ![t] = m]
      BY <1>2, <2>0 DEF LoadPopWrite
    <2>2. /\ DOMAIN m = DOMAIN me[t] /\ m.pc = "v1" /\ m.block = me[t].block /\ m.index = i
          /\ m.fault = me[t].fault /\ m.have = FALSE /\ m.r = me[t].r /\ m.w = me[t].w
          /\ m.v1 = me[t].v1 /\ m.seq = me[t].seq /\ m.copy = me[t].copy /\ m.left = me[t].left
      BY <1>0 DEF LocalFields
    <2> HIDE DEF m
    <2>3. LocalFields(m)
      BY <1>0, <2>0, <2>2 DEF LocalFields, Reading, Filling
    <2>4. me[t].r < q.write
      BY <1>0, <1>2 DEF LocalFields
    <2> QED BY <1>0, <2>0, <2>1, <2>2, <2>3, <2>4, UpdateIs
  <1> QED BY <1>1, <1>2

\* The first version load of a slot.
LEMMA LoadV1Is ==
    ASSUME TypeOK, NEW t \in Threads, LoadV1(t)
    PROVE  /\ Others(t) /\ LocalFields(me'[t]) /\ me[t].pc = "v1" /\ me[t].index \in Indexes
           /\ \/ /\ me'[t].pc = "copy" /\ Readable(me'[t].v1)
                 /\ me'[t].v1 = slot[me[t].index].version /\ me'[t].left = Words
                 /\ me'[t].r = me[t].r /\ me'[t].index = me[t].index
                 /\ me'[t].block = me[t].block /\ me'[t].fault = me[t].fault
              \/ ~Readable(slot[me[t].index].version) /\ me[t].fault /\ me'[t] = Idle
              \/ /\ ~Readable(slot[me[t].index].version) /\ ~me[t].fault
                 /\ me'[t].pc = "popCas" /\ SameRest(me[t], me'[t])
                 /\ me'[t].block = me[t].block /\ me'[t].fault = me[t].fault
  <1>0. LocalFields(me[t]) /\ me[t].pc = "v1" /\ me[t].index \in Indexes
    BY DEF TypeOK, LoadV1, LocalFields, Reading
  <1>1. PICK v \in Version : v = slot[me[t].index].version
    BY <1>0 DEF TypeOK, Slot
  <1>2. CASE Readable(v)
    <2> DEFINE m == [me[t] EXCEPT !.v1 = v, !.left = Words, !.pc = "copy"]
    <2>1. me' = [me EXCEPT ![t] = m]
      BY <1>1, <1>2 DEF LoadV1
    <2>2. /\ DOMAIN m = DOMAIN me[t] /\ m.pc = "copy" /\ m.block = me[t].block /\ m.v1 = v
          /\ m.index = me[t].index /\ m.left = Words /\ m.fault = me[t].fault
          /\ m.have = me[t].have /\ m.r = me[t].r /\ m.w = me[t].w
          /\ m.seq = me[t].seq /\ m.copy = me[t].copy
      BY <1>0 DEF LocalFields
    <2> HIDE DEF m
    <2>3. LocalFields(m)
      BY <1>0, <2>2 DEF LocalFields, Reading, Filling
    <2>4. me'[t] = m /\ Others(t)
      BY <2>1, UpdateIs
    <2> QED BY <1>0, <1>1, <1>2, <2>2, <2>3, <2>4
  <1>3. CASE ~Readable(v) /\ me[t].fault
    <2>1. me' = [me EXCEPT ![t] = Idle]
      BY <1>1, <1>3 DEF LoadV1
    <2> QED BY <1>0, <1>1, <1>3, <2>1, UpdateIs, IdleIs
  <1>4. CASE ~Readable(v) /\ ~me[t].fault
    <2> DEFINE m == [me[t] EXCEPT !.pc = "popCas"]
    <2>1. me' = [me EXCEPT ![t] = m]
      BY <1>1, <1>4 DEF LoadV1
    <2>2. /\ DOMAIN m = DOMAIN me[t] /\ m.pc = "popCas" /\ m.block = me[t].block
          /\ m.fault = me[t].fault /\ m.have = me[t].have /\ SameRest(me[t], m)
      BY <1>0 DEF LocalFields, SameRest
    <2> HIDE DEF m
    <2>3. LocalFields(m)
      BY <1>0, <2>2 DEF LocalFields, SameRest, Reading, Filling
    <2>4. me'[t] = m /\ Others(t)
      BY <2>1, UpdateIs
    <2> QED BY <1>0, <1>1, <1>4, <2>2, <2>3, <2>4
  <1> QED BY <1>2, <1>3, <1>4

\* One word of a copy.
LEMMA CopyOutIs ==
    ASSUME TypeOK, NEW t \in Threads, CopyOut(t)
    PROVE  /\ Others(t) /\ LocalFields(me'[t]) /\ me[t].pc = "copy" /\ me[t].index \in Indexes
           /\ me'[t].v1 = me[t].v1 /\ me'[t].r = me[t].r /\ me'[t].index = me[t].index
           /\ me'[t].block = me[t].block /\ me'[t].fault = me[t].fault
           /\ me'[t].pc \in {"copy", "v2"} /\ (me'[t].pc = "v2" => me'[t].left = {})
           /\ \E x \in me[t].left :
                 /\ me'[t].left = me[t].left \ {x}
                 /\ me'[t].copy[x] = slot[me[t].index].rec[x]
                 /\ \A y \in Words \ {x} : me'[t].copy[y] = me[t].copy[y]
  <1>0. LocalFields(me[t]) /\ me[t].pc = "copy" /\ me[t].index \in Indexes
    BY DEF TypeOK, CopyOut, LocalFields, Reading
  <1>1. PICK x \in me[t].left :
            me' = [me EXCEPT ![t].copy[x] = slot[me[t].index].rec[x], ![t].left = @ \ {x},
                             ![t].pc = IF me[t].left = {x} THEN "v2" ELSE @]
    BY DEF CopyOut
  <1>2. PICK b \in Blocks \cup {NoBlock} : b = slot[me[t].index].rec[x]
    BY <1>0, <1>1 DEF TypeOK, Slot, LocalFields
  <1>3. PICK c \in [Words -> Blocks \cup {NoBlock}] : c = [me[t].copy EXCEPT ![x] = b]
    BY <1>0 DEF LocalFields
  <1>4. c[x] = b /\ \A y \in Words \ {x} : c[y] = me[t].copy[y]
    BY <1>0, <1>1, <1>3 DEF LocalFields
  <1>5. PICK l \in {"copy", "v2"} : l = IF me[t].left = {x} THEN "v2" ELSE me[t].pc
    BY <1>0
  <1>6. l = "v2" => me[t].left = {x}
    BY <1>0, <1>5
  <1>7. PICK s \in SUBSET Words : s = me[t].left \ {x}
    BY <1>0 DEF LocalFields
  <1>8. l = "v2" => s = {}
    BY <1>7, <1>6
  <1> DEFINE m == [me[t] EXCEPT !.copy = c, !.left = s, !.pc = l]
  <1>9. me' = [me EXCEPT ![t] = m]
    BY <1>0, <1>1, <1>2, <1>3, <1>5, <1>7 DEF TypeOK, LocalFields
  <1>10. /\ DOMAIN m = DOMAIN me[t] /\ m.pc = l /\ m.block = me[t].block /\ m.v1 = me[t].v1
        /\ m.index = me[t].index /\ m.left = s /\ m.fault = me[t].fault
        /\ m.have = me[t].have /\ m.r = me[t].r /\ m.w = me[t].w
        /\ m.seq = me[t].seq /\ m.copy = c
    BY <1>0 DEF LocalFields
  <1> HIDE DEF m
  <1>11. LocalFields(m)
    BY <1>0, <1>10 DEF LocalFields, Reading, Filling
  <1>12. me'[t] = m /\ Others(t)
    BY <1>9, UpdateIs
  <1> QED BY <1>0, <1>1, <1>2, <1>4, <1>7, <1>10, <1>11, <1>12, <1>8

\* The second version load.
LEMMA LoadV2Is ==
    ASSUME TypeOK, NEW t \in Threads, LoadV2(t)
    PROVE  /\ Others(t) /\ LocalFields(me'[t]) /\ me[t].pc = "v2" /\ me[t].index \in Indexes
           /\ \/ me[t].fault /\ me'[t] = Idle
              \/ /\ ~me[t].fault /\ me'[t].pc = "popCas" /\ SameRest(me[t], me'[t])
                 /\ me'[t].block = me[t].block /\ me'[t].fault = me[t].fault
                 /\ Accepts(me[t]) => me'[t].have
  <1>0. LocalFields(me[t]) /\ me[t].pc = "v2" /\ me[t].index \in Indexes
    BY DEF TypeOK, LoadV2, LocalFields, Reading
  <1>1. CASE me[t].fault
    <2>1. me' = [me EXCEPT ![t] = Idle]
      BY <1>1 DEF LoadV2
    <2> QED BY <1>0, <1>1, <2>1, UpdateIs, IdleIs
  <1>2. CASE ~me[t].fault
    <2>0. PICK h \in BOOLEAN : h = Accepts(me[t])
      BY DEF Accepts
    <2> DEFINE m == [me[t] EXCEPT !.have = h, !.pc = "popCas"]
    <2>1. me' = [me EXCEPT ![t] = m]
      BY <1>2, <2>0 DEF LoadV2
    <2>2. /\ DOMAIN m = DOMAIN me[t] /\ m.pc = "popCas" /\ m.block = me[t].block
          /\ m.fault = me[t].fault /\ m.have = h /\ SameRest(me[t], m)
      BY <1>0 DEF LocalFields, SameRest
    <2> HIDE DEF m
    <2>3. LocalFields(m)
      BY <1>0, <2>2 DEF LocalFields, SameRest, Reading, Filling
    <2>4. me'[t] = m /\ Others(t)
      BY <2>1, UpdateIs
    <2>5. Accepts(me[t]) => me'[t].have
      BY <2>0, <2>2, <2>4, Zenon
    <2> QED BY <1>0, <1>2, <2>2, <2>3, <2>4, <2>5
  <1> QED BY <1>1, <1>2

\* PopOldest's exchange: on to the drain, or once more.
LEMMA PopCasIs ==
    ASSUME TypeOK, NEW t \in Threads, PopCas(t)
    PROVE  /\ Others(t) /\ LocalFields(me'[t]) /\ me[t].pc = "popCas"
           /\ SameRest(me[t], me'[t]) /\ me'[t].block = me[t].block /\ me'[t].fault = me[t].fault
           /\ me'[t].pc \in {"popBytes", "popRead"}
           /\ \/ q' = q /\ q.read # me[t].r /\ me'[t].pc = "popRead"
              \/ /\ q' = [q EXCEPT !.read = @ + 1] /\ q.read = me[t].r
                 /\ me[t].have => me'[t].pc = "popBytes"
                 /\ ~me[t].have => me'[t].pc = "popRead"
  <1>0. LocalFields(me[t]) /\ me[t].pc = "popCas"
    BY DEF TypeOK, PopCas
  <1>1. PICK l \in {"popBytes", "popRead"} :
            /\ Goto(t, l)
            /\ \/ q' = q /\ q.read # me[t].r /\ l = "popRead"
               \/ /\ q' = [q EXCEPT !.read = @ + 1] /\ q.read = me[t].r
                  /\ me[t].have => l = "popBytes"
                  /\ ~me[t].have => l = "popRead"
    <2>1. CASE q.read = me[t].r /\ me[t].have
      BY <2>1, Zenon DEF PopCas
    <2>2. CASE q.read = me[t].r /\ ~me[t].have
      BY <2>2, Zenon DEF PopCas
    <2>3. CASE q.read # me[t].r
      BY <2>3, Zenon DEF PopCas
    <2> QED BY <2>1, <2>2, <2>3, Zenon
  <1>2. /\ Others(t) /\ LocalFields(me'[t]) /\ me'[t].pc = l /\ SameRest(me[t], me'[t])
        /\ me'[t].block = me[t].block /\ me'[t].fault = me[t].fault
    BY <1>0, <1>1, MoveIs
  <1> QED BY <1>0, <1>1, <1>2, Zenon

\* Reserve's exchange: the reservation, another attempt, or no place.
LEMMA ReserveCasIs ==
    ASSUME TypeOK, NEW t \in Threads, ReserveCas(t)
    PROVE  /\ Others(t) /\ LocalFields(me'[t]) /\ me[t].pc = "reserveCas"
           /\ me'[t].block = me[t].block /\ me'[t].fault = me[t].fault
           /\ me'[t].copy = me[t].copy
           /\ \/ /\ q.write = me[t].w /\ q' = [q EXCEPT !.write = @ + 1]
                 /\ me'[t].pc = "poison" /\ me'[t].index = IndexOf(me[t].w)
              \/ q.write # me[t].w /\ q' = q /\ me'[t].pc \in {"reserve", "markFreed"}
  <1>0. LocalFields(me[t]) /\ me[t].pc = "reserveCas"
    BY DEF TypeOK, ReserveCas
  <1>1. CASE q.write = me[t].w
    <2>0. PICK i \in Indexes : i = IndexOf(me[t].w)
      BY <1>0, IndexOfType DEF LocalFields
    <2> DEFINE m == [me[t] EXCEPT !.index = i, !.pc = "poison"]
    <2>1. me' = [me EXCEPT ![t] = m] /\ q' = [q EXCEPT !.write = @ + 1]
      BY <1>1, <2>0 DEF ReserveCas, TypeOK
    <2>2. /\ DOMAIN m = DOMAIN me[t] /\ m.pc = "poison" /\ m.block = me[t].block /\ m.index = i
          /\ m.fault = me[t].fault /\ m.have = me[t].have /\ m.r = me[t].r /\ m.w = me[t].w
          /\ m.v1 = me[t].v1 /\ m.seq = me[t].seq /\ m.copy = me[t].copy /\ m.left = me[t].left
      BY <1>0 DEF LocalFields
    <2> HIDE DEF m
    <2>3. LocalFields(m)
      BY <1>0, <2>0, <2>2 DEF LocalFields, Reading, Filling
    <2>4. me'[t] = m /\ Others(t)
      BY <2>1, UpdateIs
    <2> QED BY <1>0, <1>1, <2>0, <2>1, <2>2, <2>3, <2>4
  <1>2. CASE q.write # me[t].w
    <2>1. PICK a : a = me[t].attempt + 1
      OBVIOUS
    <2>2. PICK l \in {"reserve", "markFreed"} :
              l = IF me[t].attempt + 1 < ReserveAttempts THEN "reserve" ELSE "markFreed"
      OBVIOUS
    <2> DEFINE m == [me[t] EXCEPT !.attempt = a, !.pc = l]
    <2>3. me' = [me EXCEPT ![t] = m] /\ q' = q
      BY <1>2, <2>1, <2>2 DEF ReserveCas, TypeOK
    <2>4. /\ DOMAIN m = DOMAIN me[t] /\ m.pc = l /\ m.block = me[t].block
          /\ m.fault = me[t].fault /\ m.have = me[t].have /\ SameRest(me[t], m)
      BY <1>0 DEF LocalFields, SameRest
    <2> HIDE DEF m
    <2>5. LocalFields(m)
      BY <1>0, <2>2, <2>4 DEF LocalFields, SameRest, Reading, Filling
    <2>6. me'[t] = m /\ Others(t)
      BY <2>3, UpdateIs
    <2> QED BY <1>0, <1>2, <2>2, <2>3, <2>4, <2>5, <2>6 DEF SameRest
  <1> QED BY <1>1, <1>2

\* One word of a record going in.
LEMMA CopyInIs ==
    ASSUME TypeOK, NEW t \in Threads, CopyIn(t)
    PROVE  /\ Others(t) /\ LocalFields(me'[t]) /\ me[t].pc = "copyIn" /\ me[t].index \in Indexes
           /\ me'[t].index = me[t].index /\ me'[t].seq = me[t].seq
           /\ me'[t].block = me[t].block /\ me'[t].fault = me[t].fault
           /\ me'[t].pc \in {"copyIn", "even"} /\ (me'[t].pc = "even" => me'[t].left = {})
           /\ \E x \in me[t].left : /\ me'[t].left = me[t].left \ {x}
                                    /\ slot' = [slot EXCEPT ![me[t].index].rec[x] = me[t].block]
  <1>0. LocalFields(me[t]) /\ me[t].pc = "copyIn" /\ me[t].index \in Indexes
    BY DEF TypeOK, CopyIn, LocalFields, Filling
  <1>1. PICK x \in me[t].left :
            /\ slot' = [slot EXCEPT ![me[t].index].rec[x] = me[t].block]
            /\ me' = [me EXCEPT ![t].left = @ \ {x},
                                ![t].pc = IF me[t].left = {x} THEN "even" ELSE @]
    BY DEF CopyIn
  <1>2. PICK l \in {"copyIn", "even"} : l = IF me[t].left = {x} THEN "even" ELSE me[t].pc
    BY <1>0
  <1>3. PICK s \in SUBSET Words : s = me[t].left \ {x} /\ (l = "even" => s = {})
    BY <1>0, <1>2 DEF LocalFields
  <1> DEFINE m == [me[t] EXCEPT !.left = s, !.pc = l]
  <1>4. me' = [me EXCEPT ![t] = m]
    BY <1>0, <1>1, <1>2, <1>3 DEF TypeOK
  <1>5. /\ DOMAIN m = DOMAIN me[t] /\ m.pc = l /\ m.block = me[t].block /\ m.v1 = me[t].v1
        /\ m.index = me[t].index /\ m.left = s /\ m.fault = me[t].fault
        /\ m.have = me[t].have /\ m.r = me[t].r /\ m.w = me[t].w
        /\ m.seq = me[t].seq /\ m.copy = me[t].copy
    BY <1>0 DEF LocalFields
  <1> HIDE DEF m
  <1>6. LocalFields(m)
    BY <1>0, <1>5 DEF LocalFields, Reading, Filling
  <1>7. me'[t] = m /\ Others(t)
    BY <1>4, UpdateIs
  <1> QED BY <1>0, <1>1, <1>3, <1>5, <1>6, <1>7

\* A call of a hook: its block and where it goes.
LEMMA CallIs ==
    ASSUME TypeOK, NEW t \in Threads, NEW b \in Blocks,
           NEW l \in {"record", "free", "count", "markFreed"},
           me[t].pc = "idle", me' = [me EXCEPT ![t].pc = l, ![t].block = b]
    PROVE  /\ Others(t) /\ LocalFields(me'[t]) /\ me'[t].pc = l /\ me'[t].block = b
           /\ me'[t].fault = me[t].fault
  <1>0. LocalFields(me[t])
    BY DEF TypeOK
  <1> DEFINE m == [me[t] EXCEPT !.pc = l, !.block = b]
  <1>1. me' = [me EXCEPT ![t] = m]
    BY DEF TypeOK
  <1>2. /\ DOMAIN m = DOMAIN me[t] /\ m.pc = l /\ m.block = b /\ m.fault = me[t].fault
        /\ m.have = me[t].have /\ SameRest(me[t], m)
    BY <1>0 DEF LocalFields, SameRest
  <1> HIDE DEF m
  <1>3. LocalFields(m)
    BY <1>0, <1>2 DEF LocalFields, SameRest, Reading, Filling
  <1> QED BY <1>1, <1>2, <1>3, UpdateIs

\* A fault: the handler looks the poison up.
LEMMA FaultIs ==
    ASSUME TypeOK, NEW t \in Threads, NEW b \in Blocks, Fault(t, b)
    PROVE  /\ Others(t) /\ LocalFields(me'[t]) /\ me[t].pc = "idle" /\ me'[t].pc = "v1"
           /\ me'[t].fault = TRUE /\ UNCHANGED <<setup, q, slot, mem, poison, ledger>>
  <1>0. LocalFields(me[t]) /\ me[t].pc = "idle"
    BY DEF TypeOK, Fault
  <1>1. PICK i \in Indexes : i = poison[b]
    BY DEF TypeOK, Fault
  <1> DEFINE m == [me[t] EXCEPT !.fault = TRUE, !.block = b, !.index = i, !.pc = "v1"]
  <1>2. me' = [me EXCEPT ![t] = m]
    BY <1>1 DEF Fault, TypeOK
  <1>3. /\ DOMAIN m = DOMAIN me[t] /\ m.pc = "v1" /\ m.block = b /\ m.index = i
        /\ m.fault = TRUE /\ m.have = me[t].have /\ m.r = me[t].r /\ m.w = me[t].w
        /\ m.v1 = me[t].v1 /\ m.seq = me[t].seq /\ m.copy = me[t].copy /\ m.left = me[t].left
    BY <1>0 DEF LocalFields
  <1> HIDE DEF m
  <1>4. LocalFields(m)
    BY <1>0, <1>1, <1>3 DEF LocalFields, Reading, Filling
  <1>5. UNCHANGED <<setup, q, slot, mem, poison, ledger>>
    BY DEF Fault
  <1> QED BY <1>0, <1>2, <1>3, <1>4, <1>5, UpdateIs


----------------------------------------------------------------------------
\* Every step is one thread's, and leaves the locals of the others alone.
LEMMA OneStep ==
    ASSUME TypeOK, NEW t \in Threads,
           \/ Step(t) \/ Die(t)
           \/ \E b \in Blocks : HkSfAlloc(t, b) \/ HkSfFree(t, b) \/ Fault(t, b)
    PROVE  Others(t) /\ LocalFields(me'[t]) /\ setup' = setup
  <1>1. CASE LoadCountWrite(t) \/ LoadCountRead(t) \/ Budget(t) \/ LoadPopRead(t) \/ LoadPopWrite(t)
    <2>1. UNCHANGED setup
      BY <1>1 DEF LoadCountWrite, LoadCountRead, Budget, LoadPopRead, LoadPopWrite
    <2> QED BY <1>1, <2>1, LoadCountWriteIs, LoadCountReadIs, BudgetIs, LoadPopReadIs, LoadPopWriteIs
  <1>2. CASE LoadV1(t) \/ CopyOut(t) \/ LoadV2(t) \/ PopCas(t) \/ LoadPopBytes(t)
    <2>1. UNCHANGED setup
      BY <1>2 DEF LoadV1, CopyOut, LoadV2, PopCas, LoadPopBytes
    <2> QED BY <1>2, <2>1, LoadV1Is, CopyOutIs, LoadV2Is, PopCasIs, LoadPopBytesIs
  <1>3. CASE Drain(t) \/ LoadReserveWrite(t) \/ ReserveCas(t) \/ TakeSeq(t) \/ StoreOdd(t) \/ CopyIn(t)
    <2>1. UNCHANGED setup
      BY <1>3 DEF Drain, LoadReserveWrite, ReserveCas, TakeSeq, StoreOdd, CopyIn
    <2> QED BY <1>3, <2>1, DrainIs, LoadReserveWriteIs, ReserveCasIs, TakeSeqIs, StoreOddIs, CopyInIs
  <1>4. CASE PopSub(t) \/ LoadReserveRead(t) \/ PoisonBlock(t) \/ StoreEven(t) \/ AddBytes(t)
             \/ MarkFreed(t) \/ Die(t)
    <2>1. /\ \E l \in {"drain", "markFreed", "reserveCas", "seq", "addBytes", "markHeld", "free",
                       "dead"} :
                 Goto(t, l) /\ (l # "dead" => me[t].pc # "dead") /\ (l = "seq" => me[t].pc \in Filling)
          /\ me[t].pc # "idle" /\ UNCHANGED setup
      BY <1>4 DEF PopSub, LoadReserveRead, PoisonBlock, StoreEven, AddBytes, MarkFreed, Die, Goto,
                  Filling
    <2> QED BY <2>1, MoveIs
  <1>5. CASE MarkHeld(t) \/ SfFree(t) \/ RecordScaleformAlloc(t)
    BY <1>5, ReturnIs DEF MarkHeld, SfFree, RecordScaleformAlloc
  <1>6. CASE \E b \in Blocks : HkSfAlloc(t, b) \/ HkSfFree(t, b)
    <2>1. PICK b \in Blocks : HkSfAlloc(t, b) \/ HkSfFree(t, b)
      BY <1>6
    <2>2. /\ me[t].pc = "idle" /\ setup' = setup
          /\ \E l \in {"record", "free", "count", "markFreed"} :
                me' = [me EXCEPT ![t].pc = l, ![t].block = b]
      BY <2>1 DEF HkSfAlloc, HkSfFree, TypeOK, LocalFields
    <2> QED BY <2>2, CallIs
  <1>7. CASE \E b \in Blocks : Fault(t, b)
    BY <1>7, FaultIs
  <1> QED BY <1>1, <1>2, <1>3, <1>4, <1>5, <1>6, <1>7 DEF Step, Pop, Reserve, Publish

\* A step of the system is one thread's, or none.
LEMMA WhoseStep ==
    ASSUME TypeOK, [Next]_vars
    PROVE  \/ UNCHANGED vars
           \/ \E t \in Threads :
                \/ Step(t) \/ Die(t) \/ \E b \in Blocks : Fault(t, b)
                \/ t \in setup.hooked /\ \E b \in Blocks : HkSfAlloc(t, b) \/ HkSfFree(t, b)
  <1>1. setup.hooked \subseteq Threads
    BY Constants DEF TypeOK
  <1> QED BY <1>1, Zenon DEF Next, Finished

\* The slot table after a store.
LEMMA StoresType ==
    ASSUME TypeOK, NEW t \in Threads, StoreOdd(t) \/ CopyIn(t) \/ StoreEven(t)
    PROVE  slot' \in [Indexes -> Slot]
  <1>0. /\ me[t].index \in Indexes /\ me[t].seq \in Nat /\ me[t].block \in Blocks \cup {NoBlock}
        /\ me[t].left \in SUBSET Words
    BY DEF TypeOK, LocalFields, Filling, StoreOdd, CopyIn, StoreEven
  <1>1. PICK i \in Indexes : i = me[t].index
    BY <1>0
  <1>2. slot \in [Indexes -> Slot] /\ slot[i] \in Slot
    BY DEF TypeOK
  <1>3. CASE StoreOdd(t) \/ StoreEven(t)
    <2>1. PICK v \in Version : slot' = [slot EXCEPT ![i].version = v]
      BY <1>0, <1>1, <1>3 DEF StoreOdd, StoreEven, Version
    <2>2. slot' = [slot EXCEPT ![i] = [@ EXCEPT !.version = v]]
      BY <1>2, <2>1
    <2> QED BY <1>2, <2>2 DEF Slot
  <1>4. CASE CopyIn(t)
    <2>1. PICK x \in Words : slot' = [slot EXCEPT ![i].rec[x] = me[t].block]
      BY <1>0, <1>1, <1>4 DEF CopyIn
    <2>2. PICK c \in [Words -> Blocks \cup {NoBlock}] : c = [slot[i].rec EXCEPT ![x] = me[t].block]
      BY <1>0, <1>2 DEF Slot
    <2>3. slot' = [slot EXCEPT ![i] = [@ EXCEPT !.rec = c]]
      BY <1>2, <2>1, <2>2
    <2> QED BY <1>2, <2>3 DEF Slot
  <1> QED BY <1>3, <1>4

\* The cursors only grow, by the two exchanges, and every counter stays one.
LEMMA CursorsGrow ==
    ASSUME TypeOK, NEW t \in Threads,
           \/ Step(t) \/ Die(t)
           \/ \E b \in Blocks : HkSfAlloc(t, b) \/ HkSfFree(t, b) \/ Fault(t, b)
    PROVE  /\ CursorFields(q') /\ q'.write >= q.write /\ q'.read >= q.read
           /\ PopCas(t) \/ ReserveCas(t) \/ (q'.write = q.write /\ q'.read = q.read)
  <1>0. CursorFields(q)
    BY DEF TypeOK
  <1>1. CASE PopCas(t) \/ ReserveCas(t)
    <2>1. \/ q' = q
          \/ q' = [q EXCEPT !.read = @ + 1]
          \/ q' = [q EXCEPT !.write = @ + 1]
      BY <1>1 DEF PopCas, ReserveCas
    <2>2. CASE q' = q
      BY <1>0, <1>1, <2>2 DEF CursorFields
    <2>3. CASE q' = [q EXCEPT !.read = @ + 1]
      BY <1>0, <1>1, <2>3 DEF CursorFields
    <2>4. CASE q' = [q EXCEPT !.write = @ + 1]
      BY <1>0, <1>1, <2>4 DEF CursorFields
    <2> QED BY <2>1, <2>2, <2>3, <2>4
  <1>2. CASE TakeSeq(t)
    BY <1>0, <1>2 DEF TakeSeq, CursorFields
  <1>3. CASE PopSub(t) \/ AddBytes(t)
    <2>1. \/ \E y : q' = [q EXCEPT !.bytes = y]
          \/ \E y : q' = [q EXCEPT !.bytes = y, !.evictions = @ + 1]
      BY <1>3 DEF PopSub, AddBytes
    <2>2. CASE \E y : q' = [q EXCEPT !.bytes = y]
      BY <1>0, <2>2 DEF CursorFields
    <2>3. CASE \E y : q' = [q EXCEPT !.bytes = y, !.evictions = @ + 1]
      BY <1>0, <2>3 DEF CursorFields
    <2> QED BY <2>1, <2>2, <2>3
  <1>4. CASE UNCHANGED q
    BY <1>0, <1>4 DEF CursorFields
  <1> QED
    BY <1>1, <1>2, <1>3, <1>4, Zenon DEF Step, Pop, Reserve, Publish, Die, HkSfAlloc, HkSfFree, Fault,
       LoadCountWrite, LoadCountRead, Budget, LoadPopRead, LoadPopWrite, LoadV1, CopyOut, LoadV2,
       LoadPopBytes, Drain, LoadReserveWrite, LoadReserveRead, PoisonBlock, StoreOdd, CopyIn,
       StoreEven, MarkHeld, MarkFreed, SfFree, RecordScaleformAlloc

\* Owners, poison and ledger keep their types.
LEMMA BlocksType ==
    ASSUME TypeOK, NEW t \in Threads,
           \/ Step(t) \/ Die(t)
           \/ \E b \in Blocks : HkSfAlloc(t, b) \/ HkSfFree(t, b) \/ Fault(t, b)
    PROVE  /\ mem' \in [Blocks -> Owners] /\ poison' \in [Blocks -> {0} \cup Indexes]
           /\ ledger' \in [Blocks -> {"live", "freed"}]
  <1>0. /\ mem \in [Blocks -> Owners] /\ poison \in [Blocks -> {0} \cup Indexes]
        /\ ledger \in [Blocks -> {"live", "freed"}]
    BY DEF TypeOK
  <1>1. CASE PoisonBlock(t)
    <2>1. me[t].index \in Indexes
      BY <1>1 DEF PoisonBlock, TypeOK, LocalFields, Filling
    <2> QED BY <1>0, <1>1, <2>1 DEF PoisonBlock
  <1>2. CASE Drain(t) \/ StoreEven(t) \/ SfFree(t)
    BY <1>0, <1>2 DEF Drain, StoreEven, SfFree, Owners
  <1>3. CASE MarkHeld(t) \/ MarkFreed(t) \/ RecordScaleformAlloc(t)
    BY <1>0, <1>3 DEF MarkHeld, MarkFreed, RecordScaleformAlloc, Owners
  <1>4. CASE \E b \in Blocks : HkSfAlloc(t, b) \/ HkSfFree(t, b)
    BY <1>0, <1>4 DEF HkSfAlloc, HkSfFree, Owners
  <1>5. CASE UNCHANGED <<mem, poison, ledger>>
    BY <1>0, <1>5
  <1> QED
    BY <1>1, <1>2, <1>3, <1>4, <1>5, Zenon DEF Step, Pop, Reserve, Publish, Die, Fault,
       LoadCountWrite, LoadCountRead, Budget, LoadPopRead, LoadPopWrite, LoadV1, CopyOut, LoadV2, PopCas,
       LoadPopBytes, PopSub, LoadReserveWrite, LoadReserveRead, ReserveCas, TakeSeq, StoreOdd, CopyIn,
       AddBytes

\* The slots are written by Publish alone.
LEMMA SlotsType ==
    ASSUME TypeOK, NEW t \in Threads,
           \/ Step(t) \/ Die(t)
           \/ \E b \in Blocks : HkSfAlloc(t, b) \/ HkSfFree(t, b) \/ Fault(t, b)
    PROVE  slot' \in [Indexes -> Slot]
  <1>1. CASE StoreOdd(t) \/ CopyIn(t) \/ StoreEven(t)
    BY <1>1, StoresType
  <1>2. CASE UNCHANGED slot
    BY <1>2 DEF TypeOK
  <1> QED
    BY <1>1, <1>2, Zenon DEF Step, Pop, Reserve, Publish, Die, HkSfAlloc, HkSfFree, Fault,
       LoadCountWrite, LoadCountRead, Budget, LoadPopRead, LoadPopWrite, LoadV1, CopyOut, LoadV2, PopCas,
       LoadPopBytes, PopSub, Drain, LoadReserveWrite, LoadReserveRead, ReserveCas, PoisonBlock,
       TakeSeq, AddBytes, MarkHeld, MarkFreed, SfFree, RecordScaleformAlloc

\* Every step keeps the types.
LEMMA TypeStep == ASSUME TypeOK, [Next]_vars PROVE TypeOK'
  <1>1. CASE UNCHANGED vars
    BY <1>1 DEF TypeOK, vars, CursorFields, LocalFields
  <1>2. ASSUME NEW t \in Threads,
               \/ Step(t) \/ Die(t)
               \/ \E b \in Blocks : HkSfAlloc(t, b) \/ HkSfFree(t, b) \/ Fault(t, b)
        PROVE  TypeOK'
    <2>1. /\ setup' \in Setups /\ CursorFields(q') /\ slot' \in [Indexes -> Slot]
          /\ mem' \in [Blocks -> Owners] /\ poison' \in [Blocks -> {0} \cup Indexes]
          /\ ledger' \in [Blocks -> {"live", "freed"}]
      BY <1>2, OneStep, CursorsGrow, BlocksType, SlotsType DEF TypeOK
    <2>2. DOMAIN me' = Threads /\ \A u \in Threads : LocalFields(me'[u])
      BY <1>2, OneStep DEF TypeOK, Others
    <2> QED BY <2>1, <2>2 DEF TypeOK, CursorFields, LocalFields
  <1> QED BY <1>1, <1>2, WhoseStep, Zenon

----------------------------------------------------------------------------
(***************************************************************************)
(* The cursors, whoever frees                                              *)
(***************************************************************************)
\* What the thread that steps has seen of the cursors still holds of them.
LEMMA CursorsOwn ==
    ASSUME TypeOK, TypeOK', CursorInv, NEW t \in Threads,
           \/ Step(t) \/ Die(t)
           \/ \E b \in Blocks : HkSfAlloc(t, b) \/ HkSfFree(t, b) \/ Fault(t, b)
    PROVE  Cursors(t)'
  <1>0. /\ CursorFields(q) /\ CursorFields(q') /\ q'.write >= q.write /\ q'.read >= q.read
        /\ LocalFields(me[t]) /\ LocalFields(me'[t]) /\ Capacity \in Nat
        /\ Cursors(t)
    BY CursorsGrow, Constants DEF TypeOK, CursorInv
  <1>1. CASE me'[t].pc \notin Reading \cup {"popCas", "reserveCas"}
    BY <1>1 DEF Cursors
  <1>2. CASE LoadPopWrite(t)
    BY <1>0, <1>2, LoadPopWriteIs DEF Cursors, CursorFields, LocalFields, Reading
  <1>3. CASE LoadV1(t)
    BY <1>0, <1>3, LoadV1Is, IdleIs DEF Cursors, CursorFields, LocalFields, Reading, SameRest
  <1>4. CASE CopyOut(t)
    BY <1>0, <1>4, CopyOutIs DEF Cursors, CursorFields, LocalFields, Reading
  <1>5. CASE LoadV2(t)
    BY <1>0, <1>5, LoadV2Is, IdleIs DEF Cursors, CursorFields, LocalFields, Reading, SameRest
  <1>6. CASE LoadReserveRead(t)
    <2>1. CASE RingFull(me[t].w, q.read)
      BY <1>6, <2>1, MoveIs DEF LoadReserveRead, Cursors, Reading
    <2>2. CASE ~RingFull(me[t].w, q.read)
      <3>1. me'[t].pc = "reserveCas" /\ me'[t].w = me[t].w /\ q' = q
        BY <1>6, <2>2, MoveIs DEF LoadReserveRead, SameRest
      <3>2. me[t].w < q.read + Capacity
        BY <1>0, <2>2 DEF RingFull, LocalFields, CursorFields
      <3> QED BY <3>1, <3>2 DEF Cursors, Reading
    <2> QED BY <2>1, <2>2
  <1>7. CASE \E b \in Blocks : Fault(t, b)
    BY <1>7, FaultIs, Zenon DEF Cursors, Reading
  <1>8. CASE \/ LoadCountWrite(t) \/ LoadCountRead(t) \/ Budget(t) \/ LoadPopRead(t) \/ PopCas(t)
             \/ LoadPopBytes(t) \/ Drain(t) \/ LoadReserveWrite(t) \/ ReserveCas(t) \/ TakeSeq(t)
             \/ StoreOdd(t) \/ CopyIn(t)
    <2>1. CASE LoadCountWrite(t) \/ LoadCountRead(t) \/ Budget(t) \/ LoadPopRead(t) \/ PopCas(t)
      BY <1>1, <2>1, LoadCountWriteIs, LoadCountReadIs, BudgetIs, LoadPopReadIs, PopCasIs DEF Reading
    <2>2. CASE LoadPopBytes(t) \/ Drain(t) \/ LoadReserveWrite(t) \/ ReserveCas(t)
      BY <1>1, <2>2, LoadPopBytesIs, DrainIs, LoadReserveWriteIs, ReserveCasIs DEF Reading
    <2>3. CASE TakeSeq(t) \/ StoreOdd(t) \/ CopyIn(t)
      BY <1>1, <2>3, TakeSeqIs, StoreOddIs, CopyInIs DEF Reading
    <2> QED BY <1>8, <2>1, <2>2, <2>3
  <1>9. CASE \/ PopSub(t) \/ PoisonBlock(t) \/ StoreEven(t) \/ AddBytes(t) \/ MarkFreed(t) \/ Die(t)
             \/ MarkHeld(t) \/ SfFree(t) \/ RecordScaleformAlloc(t)
             \/ \E b \in Blocks : HkSfAlloc(t, b) \/ HkSfFree(t, b)
    <2>1. CASE \/ PopSub(t) \/ PoisonBlock(t) \/ StoreEven(t) \/ AddBytes(t) \/ MarkFreed(t)
               \/ Die(t)
      <3>1. \E l \in {"drain", "seq", "addBytes", "markHeld", "free", "dead"} :
                Goto(t, l)
        <4>1. Die(t) => Goto(t, "dead")
          BY DEF Die, Goto
        <4> QED BY <2>1, <4>1 DEF PopSub, PoisonBlock, StoreEven, AddBytes, MarkFreed
      <3>2. \E l \in {"drain", "seq", "addBytes", "markHeld", "free", "dead"} : me'[t].pc = l
        BY <1>0, <3>1 DEF Goto, TypeOK, LocalFields
      <3> QED BY <1>1, <3>2 DEF Reading
    <2>2. CASE MarkHeld(t) \/ SfFree(t) \/ RecordScaleformAlloc(t)
      <3>1. Return(t)
        BY <2>2 DEF MarkHeld, SfFree, RecordScaleformAlloc
      <3> QED BY <1>1, <3>1, ReturnIs, IdleIs DEF Reading
    <2>3. CASE \E b \in Blocks : HkSfAlloc(t, b) \/ HkSfFree(t, b)
      <3>1. \E l \in {"record", "free", "count", "markFreed"} : me'[t].pc = l
        BY <1>0, <2>3 DEF HkSfAlloc, HkSfFree, TypeOK, LocalFields
      <3> QED BY <1>1, <3>1 DEF Reading
    <2> QED BY <1>9, <2>1, <2>2, <2>3
  <1> QED BY <1>2, <1>3, <1>4, <1>5, <1>6, <1>7, <1>8, <1>9, Zenon DEF Step, Pop, Reserve, Publish

\* The two exchanges keep the cursors within the ring.
LEMMA CursorsStayBounded ==
    ASSUME TypeOK, CursorInv, NEW t \in Threads,
           \/ Step(t) \/ Die(t)
           \/ \E b \in Blocks : HkSfAlloc(t, b) \/ HkSfFree(t, b) \/ Fault(t, b)
    PROVE  CursorsBounded'
  <1>0. /\ CursorFields(q) /\ CursorFields(q') /\ LocalFields(me[t]) /\ Capacity \in Nat
        /\ CursorsBounded /\ Cursors(t)
        /\ PopCas(t) \/ ReserveCas(t) \/ (q'.write = q.write /\ q'.read = q.read)
    BY CursorsGrow, Constants DEF TypeOK, CursorInv
  <1>1. CASE PopCas(t)
    BY <1>0, <1>1, PopCasIs DEF CursorsBounded, Cursors, CursorFields, LocalFields
  <1>2. CASE ReserveCas(t)
    BY <1>0, <1>2, ReserveCasIs DEF CursorsBounded, Cursors, CursorFields, LocalFields
  <1>3. CASE q'.write = q.write /\ q'.read = q.read
    BY <1>0, <1>3 DEF CursorsBounded
  <1> QED BY <1>0, <1>1, <1>2, <1>3

\* Every step keeps the cursors bounded, and what was seen of them true.
LEMMA CursorStep == ASSUME TypeOK, TypeOK', CursorInv, [Next]_vars PROVE CursorInv'
  <1>1. CASE UNCHANGED vars
    BY <1>1 DEF CursorInv, CursorsBounded, Cursors, vars
  <1>2. ASSUME NEW t \in Threads,
               \/ Step(t) \/ Die(t)
               \/ \E b \in Blocks : HkSfAlloc(t, b) \/ HkSfFree(t, b) \/ Fault(t, b)
        PROVE  CursorInv'
    <2>1. ASSUME NEW u \in Threads, u # t PROVE Cursors(u)'
      <3>1. me'[u] = me[u] /\ CursorFields(q) /\ CursorFields(q') /\ q'.write >= q.write
            /\ q'.read >= q.read /\ LocalFields(me[u]) /\ Capacity \in Nat /\ Cursors(u)
        BY <1>2, <2>1, OneStep, CursorsGrow, Constants DEF TypeOK, CursorInv, Others
      <3> QED BY <3>1 DEF Cursors, CursorFields, LocalFields
    <2> QED BY <1>2, <2>1, CursorsOwn, CursorsStayBounded DEF CursorInv
  <1> QED BY <1>1, <1>2, WhoseStep, Zenon

----------------------------------------------------------------------------
(***************************************************************************)
(* One freeing thread: what a step leaves as it was                        *)
(***************************************************************************)
\* The same blocks are withheld, with the same poison.
SameHeld == \A b \in Blocks : /\ mem'[b] = "held" <=> mem[b] = "held"
                              /\ mem[b] = "held" => poison'[b] = poison[b]
\* f stands where it stood in the ring, or is gone.
Going(f) ==
    \/ me'[f].pc = "dead"
    \/ /\ me[f].pc # "dead" /\ Last(f)' = Last(f)
       /\ Popped(f) => Popped(f)' /\ me'[f].copy = me[f].copy
\* A number f has taken is newer than those that were given.
SeqStays(f) ==
    /\ q'.seq >= q.seq
    /\ me'[f].pc \in Marking => \/ me[f].pc \in Marking /\ me'[f].seq = me[f].seq
                                \/ me'[f].seq > q.seq

\* The held blocks and the slots between the cursors stay each other's.
LEMMA RingStays ==
    ASSUME NEW f \in Threads, Kept(f), Found(f), q'.read = q.read, SameHeld, Going(f)
    PROVE  Kept(f)' /\ Found(f)'
  <1>1. CASE me'[f].pc = "dead"
    BY <1>1 DEF Kept, Found
  <1>2. CASE me'[f].pc # "dead"
    <2>1. /\ me[f].pc # "dead" /\ Last(f)' = Last(f)
          /\ Popped(f) => Popped(f)' /\ me'[f].copy = me[f].copy
      BY <1>2 DEF Going
    <2>2. \A b \in Blocks : \A n : HeldAt(b, n)' <=> HeldAt(b, n)
      BY DEF SameHeld, HeldAt
    <2>3. Kept(f)'
      BY <2>1, <2>2 DEF Kept
    <2>4. Found(f)'
      BY <2>1, <2>2 DEF Found, SameHeld
    <2> QED BY <2>3, <2>4
  <1> QED BY <1>1, <1>2

\* The poison of a held block leads to its record while that slot is not written.
LEMMA LedStays ==
    ASSUME TypeOK, Led, SameHeld,
           \A b \in Blocks : mem[b] = "held" => slot'[poison[b]] = slot[poison[b]]
    PROVE  Led'
  <1> SUFFICES ASSUME NEW b \in Blocks, mem'[b] = "held"
               PROVE  poison'[b] # 0 /\ InSlot(b, poison[b])'
    BY DEF Led
  <1>1. mem[b] = "held" /\ poison'[b] = poison[b] /\ poison[b] # 0 /\ InSlot(b, poison[b])
    BY DEF SameHeld, Led
  <1>2. PICK s : s = slot[poison[b]] /\ Readable(s.version) /\ s.rec = [x \in Words |-> b]
    BY <1>1 DEF InSlot
  <1>3. slot'[poison'[b]] = s
    BY <1>1, <1>2
  <1> QED BY <1>1, <1>2, <1>3 DEF InSlot, Readable

\* No version is newer than the last number.
LEMMA VersionsStay ==
    ASSUME TypeOK, TypeOK', NEW f \in Threads, Whole(f), slot' = slot, SeqStays(f)
    PROVE  Whole(f)'
  <1> SUFFICES ASSUME NEW i \in Indexes, Readable(slot[i].version)
               PROVE  Older(f, slot[i].version)' /\ slot[i].rec["ptr"] = slot[i].rec["rest"]
    BY DEF Whole, Readable
  <1>1. PICK n \in Nat : n = slot[i].version.seq
    BY DEF TypeOK, Slot, Version
  <1>2. n <= q.seq /\ (me[f].pc \in Marking => n < me[f].seq) /\ slot[i].rec["ptr"] = slot[i].rec["rest"]
    BY <1>1 DEF Whole, Older
  <1>3. q.seq \in Nat /\ q'.seq \in Nat /\ me[f].seq \in Nat /\ me'[f].seq \in Nat
    BY DEF TypeOK, CursorFields, LocalFields
  <1> QED BY <1>1, <1>2, <1>3 DEF Older, SeqStays

\* A reader that did not step still has a copy of what it saw.
LEMMA CopiedStays ==
    ASSUME TypeOK, TypeOK', NEW f \in Threads, NEW t \in Threads, Copied(f, t), slot' = slot,
           SeqStays(f), me'[t] = me[t]
    PROVE  Copied(f, t)'
  <1> SUFFICES ASSUME me[t].pc \in {"copy", "v2"} PROVE Copied(f, t)'
    BY DEF Copied
  <1>1. PICK n \in Nat : n = me[t].v1.seq
    BY DEF TypeOK, LocalFields, Version
  <1>2. n <= q.seq /\ (me[f].pc \in Marking => n < me[f].seq)
    BY <1>1 DEF Copied, Older
  <1>3. q.seq \in Nat /\ q'.seq \in Nat /\ me[f].seq \in Nat /\ me'[f].seq \in Nat
    BY DEF TypeOK, CursorFields, LocalFields
  <1>4. Older(f, me[t].v1)'
    BY <1>1, <1>2, <1>3 DEF Older, SeqStays
  <1> QED BY <1>4 DEF Copied, Accepts

\* Reading a slot: the copy is the slot's while the version is.
LEMMA CopiedOwn ==
    ASSUME TypeOK, TypeOK', NEW f \in Threads, NEW t \in Threads, Copied(f, t), Whole(f),
           slot' = slot, q' = q, SeqStays(f), LoadV1(t) \/ CopyOut(t)
    PROVE  Copied(f, t)'
  <1> SUFFICES ASSUME me'[t].pc \in {"copy", "v2"} PROVE Copied(f, t)'
    BY DEF Copied
  <1>0. /\ q.seq \in Nat /\ me[f].seq \in Nat /\ me'[f].seq \in Nat /\ me[t].left \in SUBSET Words
        /\ me[t].v1.seq \in Nat /\ me'[t].v1.seq \in Nat
    BY DEF TypeOK, CursorFields, LocalFields, Version
  <1>1. CASE LoadV1(t)
    <2>1. /\ me'[t].pc = "copy" /\ Readable(me'[t].v1) /\ me[t].index \in Indexes
          /\ me'[t].v1 = slot[me[t].index].version /\ me'[t].left = Words
      BY <1>1, LoadV1Is, IdleIs
    <2>2. Older(f, me'[t].v1)
      BY <2>1 DEF Whole
    <2>3. Older(f, me[t].v1)'
      BY <1>0, <2>2 DEF Older, SeqStays
    <2> QED BY <2>1, <2>3 DEF Copied, Readable
  <1>2. CASE CopyOut(t)
    <2>1. /\ me[t].pc = "copy" /\ me'[t].v1 = me[t].v1 /\ me'[t].index = me[t].index
          /\ me'[t].pc = "v2" => me'[t].left = {}
      BY <1>2, CopyOutIs
    <2>2. PICK x \in me[t].left :
                 /\ me'[t].left = me[t].left \ {x}
                 /\ me'[t].copy[x] = slot[me[t].index].rec[x]
                 /\ \A y \in Words \ {x} : me'[t].copy[y] = me[t].copy[y]
      BY <1>2, CopyOutIs
    <2>3. Readable(me[t].v1) /\ Older(f, me[t].v1)
      BY <2>1 DEF Copied
    <2>4. Older(f, me[t].v1)'
      BY <1>0, <2>1, <2>3 DEF Older, SeqStays
    <2>5. Accepts(me[t])' => \A y \in Words \ me'[t].left : me'[t].copy[y] = slot'[me'[t].index].rec[y]
      <3>1. Accepts(me[t])' => Accepts(me[t])
        BY <2>1 DEF Accepts
      <3> QED BY <1>0, <2>1, <2>2, <3>1 DEF Copied
    <2> QED BY <2>1, <2>3, <2>4, <2>5 DEF Copied, Readable
  <1> QED BY <1>1, <1>2

\* What a thread that reads a slot can do, and one that is not in a call.
LEMMA ReadSteps ==
    ASSUME TypeOK, NEW t \in Threads, Step(t), me[t].pc \in {"idle", "dead"} \cup Reading
    PROVE  LoadV1(t) \/ CopyOut(t) \/ LoadV2(t)
  <1>1. \/ LoadV1(t) \/ CopyOut(t) \/ LoadV2(t)
        \/ me[t].pc \in {"count", "countRead", "bytes", "popRead", "popWrite", "popCas", "popBytes"}
        \/ me[t].pc \in {"popSub", "drain", "reserve", "reserveRead", "reserveCas", "poison"}
        \/ me[t].pc \in {"seq", "odd", "copyIn", "even", "addBytes", "markHeld", "markFreed", "free",
                         "record"}
    <2>1. CASE LoadCountWrite(t) \/ LoadCountRead(t) \/ Budget(t) \/ LoadPopRead(t) \/ LoadPopWrite(t)
               \/ PopCas(t) \/ LoadPopBytes(t)
      BY <2>1 DEF LoadCountWrite, LoadCountRead, Budget, LoadPopRead, LoadPopWrite, PopCas,
                  LoadPopBytes
    <2>2. CASE PopSub(t) \/ Drain(t) \/ LoadReserveWrite(t) \/ LoadReserveRead(t) \/ ReserveCas(t)
               \/ PoisonBlock(t)
      BY <2>2 DEF PopSub, Drain, LoadReserveWrite, LoadReserveRead, ReserveCas, PoisonBlock
    <2>3. CASE TakeSeq(t) \/ StoreOdd(t) \/ CopyIn(t) \/ StoreEven(t) \/ AddBytes(t) \/ MarkHeld(t)
               \/ MarkFreed(t) \/ SfFree(t) \/ RecordScaleformAlloc(t)
      BY <2>3 DEF TakeSeq, StoreOdd, CopyIn, StoreEven, AddBytes, MarkHeld, MarkFreed, SfFree,
                  RecordScaleformAlloc
    <2> QED BY <2>1, <2>2, <2>3, Zenon DEF Step, Pop, Reserve, Publish
  <1> QED BY <1>1 DEF Reading

(***************************************************************************)
(* Steps of the other threads                                              *)
(***************************************************************************)
\* Nothing of f's is touched when another thread reads a slot or dies.
LEMMA ReaderStep ==
    ASSUME TypeOK, TypeOK', NEW f \in Threads, Alone(f), NEW t \in Threads \ {f},
           Step(t) \/ Die(t) \/ \E b \in Blocks : Fault(t, b)
    PROVE  Alone(f)'
  <1>0. me[t].pc \in {"idle", "dead"} \cup Reading /\ (me[t].pc \in Reading => me[t].fault)
    BY DEF Alone, Readers
  <1>1. LoadV1(t) \/ CopyOut(t) \/ LoadV2(t) \/ Die(t) \/ \E b \in Blocks : Fault(t, b)
    BY <1>0, ReadSteps
  <1>2. UNCHANGED <<q, slot, mem, poison, ledger>> /\ Others(t)
    <2>1. UNCHANGED <<q, slot, mem, poison, ledger>>
      BY <1>1, Zenon DEF LoadV1, CopyOut, LoadV2, Die, Fault
    <2> QED BY <1>1, <2>1, OneStep, Zenon DEF Step, Pop
  <1>3. me'[f] = me[f] /\ \A u \in Threads \ {t} : me'[u] = me[u]
    BY <1>2 DEF Others
  <1>4. me'[t].pc \in {"idle", "dead"} \cup Reading /\ (me'[t].pc \in Reading => me'[t].fault)
    <2>1. CASE LoadV1(t)
      BY <1>0, <2>1, LoadV1Is, IdleIs DEF Reading
    <2>2. CASE CopyOut(t)
      BY <1>0, <2>2, CopyOutIs DEF Reading
    <2>3. CASE LoadV2(t)
      BY <1>0, <2>3, LoadV2Is, IdleIs DEF Reading
    <2>4. CASE Die(t)
      BY <2>4 DEF Die, TypeOK, LocalFields, Reading
    <2>5. CASE \E b \in Blocks : Fault(t, b)
      BY <2>5, FaultIs, Zenon DEF Reading
    <2> QED BY <1>1, <2>1, <2>2, <2>3, <2>4, <2>5
  <1>5. Readers(f)'
    BY <1>0, <1>3, <1>4 DEF Alone, Readers
  <1>6. Holding(f)' /\ Told'
    BY <1>2, <1>3 DEF Alone, Holding, Told
  <1>7. SameHeld /\ SeqStays(f) /\ (me[f].pc = "dead" \/ Going(f))
    <2>1. SameHeld
      BY <1>2 DEF SameHeld
    <2>2. SeqStays(f)
      BY <1>2, <1>3 DEF SeqStays, TypeOK, CursorFields
    <2>3. me[f].pc = "dead" \/ Going(f)
      BY <1>2, <1>3 DEF Going, Last, Popped
    <2> QED BY <2>1, <2>2, <2>3
  <1>8. Led' /\ Kept(f)' /\ Found(f)'
    <2>1. Led'
      BY <1>2, <1>7, LedStays DEF Alone
    <2>2. CASE me[f].pc = "dead"
      BY <1>3, <2>1, <2>2 DEF Kept, Found
    <2>3. CASE Going(f)
      BY <1>2, <1>7, <2>1, <2>3, RingStays DEF Alone
    <2> QED BY <1>7, <2>2, <2>3
  <1>9. Popping(f)' /\ Reserved(f)' /\ Publishing(f)'
    <2>1. Popping(f)'
      BY <1>2, <1>3 DEF Alone, Popping, Popped, HeldAt, Accepts
    <2>2. Reserved(f)'
      BY <1>2, <1>3 DEF Alone, Reserved
    <2>3. Publishing(f)'
      BY <1>2, <1>3 DEF Alone, Publishing
    <2> QED BY <2>1, <2>2, <2>3
  <1>10. Whole(f)'
    BY <1>2, <1>7, VersionsStay DEF Alone
  <1>11. ASSUME NEW u \in Threads PROVE Copied(f, u)'
    <2>1. CASE u # t
      BY <1>2, <1>3, <1>7, <2>1, CopiedStays DEF Alone
    <2>2. CASE u = t /\ (LoadV1(t) \/ CopyOut(t))
      BY <1>2, <1>7, <2>2, CopiedOwn DEF Alone
    <2>3. CASE LoadV2(t)
      BY <1>0, <2>1, <2>3, LoadV2Is, IdleIs DEF Copied, Reading
    <2>4. CASE Die(t)
      BY <2>1, <2>4 DEF Die, TypeOK, LocalFields, Copied
    <2>5. CASE \E b \in Blocks : Fault(t, b)
      BY <2>1, <2>5, FaultIs, Zenon DEF Copied
    <2> QED BY <1>1, <2>1, <2>2, <2>3, <2>4, <2>5
  <1> QED BY <1>5, <1>6, <1>8, <1>9, <1>10, <1>11 DEF Alone

(***************************************************************************)
(* Steps of the freeing thread that write no slot and move no cursor       *)
(***************************************************************************)
\* Such a step is right when the block in hand, and what f knows of the ring, are.
LEMMA FreerMoves ==
    ASSUME TypeOK, TypeOK', NEW f \in Threads, Alone(f), Others(f),
           q'.read = q.read, q'.write = q.write, q'.seq = q.seq, slot' = slot, SameHeld,
           Going(f), me'[f].pc \notin Filling,
           Told', Holding(f)', Popping(f)', Reserved(f)', Copied(f, f)'
    PROVE  Alone(f)'
  <1>1. Readers(f)'
    BY DEF Alone, Readers, Others
  <1>2. SeqStays(f)
    BY DEF SeqStays, Filling, Marking, TypeOK, CursorFields
  <1>3. Led' /\ Kept(f)' /\ Found(f)'
    BY LedStays, RingStays DEF Alone
  <1>4. Publishing(f)'
    BY DEF Publishing, Filling, Marking
  <1>5. Whole(f)'
    BY <1>2, VersionsStay DEF Alone
  <1>6. ASSUME NEW u \in Threads PROVE Copied(f, u)'
    <2>1. CASE u # f
      BY <1>2, <2>1, CopiedStays DEF Alone, Others
    <2> QED BY <2>1
  <1> QED BY <1>1, <1>3, <1>4, <1>5, <1>6 DEF Alone

\* Where f knows nothing of the ring.
Away == {"idle", "dead", "count", "countRead", "bytes", "popRead", "reserve", "addBytes", "markHeld",
         "markFreed", "free", "record"}
\* A step to such a place is right when the block in hand is.
LEMMA FreerAway ==
    ASSUME TypeOK, TypeOK', NEW f \in Threads, Alone(f), Others(f),
           q'.read = q.read, q'.write = q.write, q'.seq = q.seq, slot' = slot, SameHeld,
           me'[f].pc \in Away,
           me'[f].pc # "dead" => me[f].pc \notin Filling \cup {"popBytes", "popSub", "drain", "dead"},
           Told', Holding(f)'
    PROVE  Alone(f)'
  <1>1. Popping(f)'
    BY DEF Popping, Away, Popped, Reading
  <1>2. Reserved(f)' /\ Copied(f, f)' /\ me'[f].pc \notin Filling
    BY DEF Reserved, Copied, Away, Filling
  <1>3. Going(f)
    BY DEF Going, Last, Popped, Away, Filling
  <1> QED BY <1>1, <1>2, <1>3, FreerMoves

(***************************************************************************)
(* The freeing thread's steps, one by one                                  *)
(***************************************************************************)
\* A block the allocator hands out again was not withheld.
LEMMA AllocStep ==
    ASSUME TypeOK, TypeOK', NEW f \in Threads, Alone(f), NEW b \in Blocks, HkSfAlloc(f, b)
    PROVE  Alone(f)'
  <1>0. /\ mem[b] = "free" /\ mem' = [mem EXCEPT ![b] = "hook"] /\ poison' = [poison EXCEPT ![b] = 0]
        /\ UNCHANGED <<q, slot, ledger>> /\ me[f].pc = "idle"
    BY DEF HkSfAlloc
  <1>1. Others(f) /\ me'[f].pc = "record" /\ me'[f].block = b /\ me'[f].fault = me[f].fault
    BY CallIs DEF HkSfAlloc
  <1>2. SameHeld
    BY <1>0 DEF SameHeld, TypeOK
  <1>3. Told'
    BY <1>0 DEF Alone, Told, TypeOK
  <1>4. Holding(f)'
    BY <1>0, <1>1 DEF Alone, Holding, Reading, Withheld, TypeOK
  <1> QED BY <1>0, <1>1, <1>2, <1>3, <1>4, FreerAway DEF Away, Filling

\* A block the game frees becomes the hook's.
LEMMA CallStep ==
    ASSUME TypeOK, TypeOK', NEW f \in Threads, Alone(f), NEW b \in Blocks, HkSfFree(f, b)
    PROVE  Alone(f)'
  <1>0. /\ mem[b] = "live" /\ mem' = [mem EXCEPT ![b] = "hook"] /\ me[f].pc = "idle"
        /\ UNCHANGED <<q, slot, poison, ledger>>
    BY DEF HkSfFree
  <1>1. PICK l \in {"record", "free", "count", "markFreed"} :
            l # "record" /\ me' = [me EXCEPT ![f].pc = l, ![f].block = b]
    BY DEF HkSfFree, TypeOK, LocalFields
  <1>2. Others(f) /\ me'[f].pc = l /\ me'[f].block = b /\ me'[f].fault = me[f].fault
    BY <1>0, <1>1, CallIs
  <1>3. SameHeld
    BY <1>0 DEF SameHeld, TypeOK
  <1>4. Told'
    BY <1>0 DEF Alone, Told, TypeOK
  <1>5. Holding(f)'
    BY <1>0, <1>2 DEF Alone, Holding, Reading, Withheld, TypeOK
  <1> QED BY <1>0, <1>2, <1>3, <1>4, <1>5, FreerAway DEF Away, Filling

\* The last word of a call: the block is the game's, the allocator's or withheld.
LEMMA ReturnStep ==
    ASSUME TypeOK, TypeOK', NEW f \in Threads, Alone(f),
           MarkHeld(f) \/ SfFree(f) \/ RecordScaleformAlloc(f)
    PROVE  Alone(f)'
  <1>0. /\ me[f].pc \in {"markHeld", "free", "record"} /\ UNCHANGED <<q, slot, poison>> /\ Return(f)
    BY DEF MarkHeld, SfFree, RecordScaleformAlloc
  <1>1. Others(f) /\ me'[f] = Idle
    BY <1>0, ReturnIs
  <1>2. ~me[f].fault /\ me[f].block \in Blocks
    BY <1>0 DEF Alone, Holding, Reading, TypeOK, LocalFields
  <1>3. SameHeld /\ Told'
    <2>1. CASE MarkHeld(f)
      <3>1. mem[me[f].block] = "held" /\ mem' = mem /\ ledger' = [ledger EXCEPT ![me[f].block] = "freed"]
        BY <2>1 DEF MarkHeld, Alone, Holding, Withheld
      <3> QED BY <1>0, <1>2, <3>1 DEF SameHeld, Told, Alone, TypeOK
    <2>2. CASE SfFree(f)
      <3>1. /\ mem[me[f].block] = "hook" /\ mem' = [mem EXCEPT ![me[f].block] = "free"]
            /\ ledger' = ledger
        BY <1>2, <2>2 DEF SfFree, Alone, Holding, Withheld
      <3> QED BY <1>0, <1>2, <3>1 DEF SameHeld, Told, Alone, TypeOK
    <2>3. CASE RecordScaleformAlloc(f)
      <3>1. /\ mem[me[f].block] = "hook" /\ mem' = [mem EXCEPT ![me[f].block] = "live"]
            /\ ledger' = [ledger EXCEPT ![me[f].block] = "live"]
        BY <1>2, <2>3 DEF RecordScaleformAlloc, Alone, Holding, Withheld
      <3> QED BY <1>0, <1>2, <3>1 DEF SameHeld, Told, Alone, TypeOK
    <2> QED BY <2>1, <2>2, <2>3
  <1>4. Holding(f)'
    BY <1>1, IdleIs DEF Holding, Withheld
  <1> QED BY <1>0, <1>1, <1>3, <1>4, IdleIs, FreerAway DEF Away, Filling

\* Steps that keep the block in hand and look at a cursor, or give up.
LEMMA LookStep ==
    ASSUME TypeOK, TypeOK', NEW f \in Threads, Alone(f),
           LoadCountWrite(f) \/ LoadCountRead(f) \/ Budget(f) \/ MarkFreed(f) \/ AddBytes(f)
    PROVE  Alone(f)'
  <1>0. /\ me[f].pc \in {"count", "countRead", "bytes", "markFreed", "addBytes"}
        /\ UNCHANGED <<slot, mem, poison>>
    BY Zenon DEF LoadCountWrite, LoadCountRead, Budget, MarkFreed, AddBytes
  <1>1. q'.read = q.read /\ q'.write = q.write /\ q'.seq = q.seq
    <2>1. CASE AddBytes(f)
      BY <2>1 DEF AddBytes, TypeOK, CursorFields
    <2>2. CASE q' = q
      BY <2>2
    <2> QED BY <2>1, <2>2, Zenon DEF LoadCountWrite, LoadCountRead, Budget, MarkFreed
  <1>2. /\ Others(f) /\ me'[f].block = me[f].block /\ me'[f].fault = me[f].fault
        /\ me'[f].pc \in {"countRead", "bytes", "popRead", "count", "markFreed", "reserve", "free",
                          "markHeld"}
        /\ me'[f].pc = "markHeld" => me[f].pc = "addBytes"
        /\ me[f].pc = "addBytes" => me'[f].pc = "markHeld"
    <2>1. CASE LoadCountWrite(f)
      BY <2>1, LoadCountWriteIs
    <2>2. CASE LoadCountRead(f)
      BY <2>2, LoadCountReadIs
    <2>3. CASE Budget(f)
      BY <2>3, BudgetIs
    <2>4. CASE MarkFreed(f)
      BY <2>4, MoveIs DEF MarkFreed
    <2>5. CASE AddBytes(f)
      BY <2>5, MoveIs DEF AddBytes
    <2> QED BY <2>1, <2>2, <2>3, <2>4, <2>5
  <1>3. ~me[f].fault /\ me[f].block \in Blocks
    BY <1>0 DEF Alone, Holding, Reading, TypeOK, LocalFields
  <1>4. Told'
    <2>1. CASE MarkFreed(f)
      <3>1. mem[me[f].block] = "hook" /\ mem' = mem /\ ledger' = [ledger EXCEPT ![me[f].block] = "freed"]
        BY <1>3, <2>1 DEF MarkFreed, Alone, Holding, Withheld
      <3> QED BY <1>3, <3>1 DEF Told, Alone, TypeOK
    <2>2. CASE ledger' = ledger
      BY <1>0, <2>2 DEF Alone, Told
    <2> QED BY <2>1, <2>2, Zenon DEF LoadCountWrite, LoadCountRead, Budget, AddBytes
  <1>5. Holding(f)'
    BY <1>0, <1>2, <1>3 DEF Alone, Holding, Withheld
  <1>6. SameHeld
    BY <1>0 DEF SameHeld
  <1> QED BY <1>0, <1>1, <1>2, <1>4, <1>5, <1>6, FreerAway DEF Away, Filling

\* The freeing thread is terminated: what it reserved stays reserved.
LEMMA DieStep ==
    ASSUME TypeOK, TypeOK', NEW f \in Threads, Alone(f), Die(f)
    PROVE  Alone(f)'
  <1>1. UNCHANGED <<q, slot, mem, poison, ledger>> /\ Goto(f, "dead") /\ me[f].pc # "idle"
    BY DEF Die, Goto
  <1>2. Others(f) /\ me'[f].pc = "dead"
    BY <1>1, MoveIs
  <1>3. SameHeld /\ Told'
    BY <1>1 DEF SameHeld, Told, Alone
  <1>4. Holding(f)'
    BY <1>2 DEF Holding, Withheld
  <1> QED BY <1>1, <1>2, <1>3, <1>4, FreerAway DEF Away

\* Steps within PopOldest and Reserve that only read what is shared.
LEMMA FreerReads ==
    ASSUME TypeOK, TypeOK', NEW f \in Threads, Alone(f), Others(f),
           q'.read = q.read, q'.write = q.write, q'.seq = q.seq,
           UNCHANGED <<slot, mem, poison, ledger>>,
           me'[f].fault = me[f].fault, me'[f].block = me[f].block,
           me[f].pc \notin {"idle", "dead"} \cup Withheld \cup Filling,
           me'[f].pc \notin {"idle", "dead"} \cup Withheld \cup Filling,
           me'[f].fault => me'[f].pc \in Reading,
           Popped(f) => Popped(f)' /\ me'[f].copy = me[f].copy,
           Popping(f)', Reserved(f)', Copied(f, f)'
    PROVE  Alone(f)'
  <1>1. SameHeld /\ Told'
    BY DEF SameHeld, Told, Alone
  <1>2. Holding(f)'
    BY DEF Alone, Holding
  <1>3. Going(f)
    BY DEF Going, Last
  <1> QED BY <1>1, <1>2, <1>3, FreerMoves

\* A lookup, or a step of PopOldest that knows nothing, returns.
LEMMA FreerReturns ==
    ASSUME TypeOK, TypeOK', NEW f \in Threads, Alone(f), Others(f),
           UNCHANGED <<q, slot, mem, poison, ledger>>, me[f].pc \in Reading, me'[f] = Idle
    PROVE  Alone(f)'
  <1>1. SameHeld /\ Told' /\ Holding(f)'
    BY IdleIs DEF SameHeld, Told, Alone, Holding, Withheld
  <1> QED BY <1>1, IdleIs, FreerAway DEF Away, Reading, Filling

\* PopOldest and Reserve load the cursor they will exchange; the budget drains.
LEMMA LoadStep ==
    ASSUME TypeOK, TypeOK', NEW f \in Threads, Alone(f),
           LoadPopRead(f) \/ LoadPopWrite(f) \/ LoadReserveWrite(f) \/ LoadReserveRead(f)
    PROVE  Alone(f)'
  <1>0. UNCHANGED <<q, slot, mem, poison, ledger>> /\ Holding(f) /\ Popping(f) /\ Reserved(f)
    BY DEF LoadPopRead, LoadPopWrite, LoadReserveWrite, LoadReserveRead, Alone
  <1>1. CASE LoadPopRead(f)
    <2>1. /\ Others(f) /\ me[f].pc = "popRead" /\ me'[f].r = q.read /\ me'[f].pc = "popWrite"
          /\ me'[f].fault = me[f].fault /\ me'[f].block = me[f].block
      BY <1>1, LoadPopReadIs
    <2>2. Popping(f)' /\ Reserved(f)' /\ Copied(f, f)' /\ ~Popped(f)
      BY <1>0, <2>1 DEF Popping, Popped, Reserved, Copied, Reading, Filling
    <2> QED BY <1>0, <2>1, <2>2, FreerReads DEF Holding, Reading, Filling, Withheld
  <1>2. CASE LoadPopWrite(f)
    <2>1. /\ Others(f) /\ me[f].pc = "popWrite" /\ me'[f].r = me[f].r
          /\ me'[f].fault = me[f].fault /\ me'[f].block = me[f].block
          /\ \/ me'[f].pc = "count"
             \/ me'[f].pc = "v1" /\ me[f].r < q.write /\ me'[f].index = IndexOf(me[f].r)
      BY <1>2, LoadPopWriteIs
    <2>2. Popping(f)'
      <3>1. me[f].r = q.read
        BY <1>0, <2>1 DEF Popping
      <3>2. CASE me'[f].pc = "count"
        BY <3>2 DEF Popping, Popped, Reading
      <3>3. CASE me'[f].pc = "v1"
        BY <1>0, <2>1, <3>1, <3>3 DEF Popping, Popped, Reading, IndexOf
      <3> QED BY <2>1, <3>2, <3>3
    <2>3. Reserved(f)' /\ Copied(f, f)' /\ ~Popped(f)
      BY <1>0, <2>1 DEF Popped, Reserved, Copied, Filling
    <2> QED BY <1>0, <2>1, <2>2, <2>3, FreerReads DEF Holding, Reading, Filling, Withheld
  <1>3. CASE LoadReserveWrite(f)
    <2>1. /\ Others(f) /\ me[f].pc = "reserve" /\ me'[f].w = q.write /\ me'[f].pc = "reserveRead"
          /\ me'[f].fault = me[f].fault /\ me'[f].block = me[f].block
      BY <1>3, LoadReserveWriteIs
    <2>2. Popping(f)' /\ Reserved(f)' /\ Copied(f, f)' /\ ~Popped(f)
      BY <1>0, <2>1 DEF Popping, Popped, Reserved, Copied, Reading, Filling
    <2> QED BY <1>0, <2>1, <2>2, FreerReads DEF Holding, Reading, Filling, Withheld
  <1>4. CASE LoadReserveRead(f)
    <2>1. /\ Others(f) /\ me[f].pc = "reserveRead" /\ me'[f].w = me[f].w
          /\ me'[f].fault = me[f].fault /\ me'[f].block = me[f].block
          /\ me'[f].pc \in {"markFreed", "reserveCas"}
      BY <1>4, MoveIs DEF LoadReserveRead, SameRest
    <2>2. Popping(f)' /\ Reserved(f)' /\ Copied(f, f)' /\ ~Popped(f)
      BY <1>0, <2>1 DEF Popping, Popped, Reserved, Copied, Reading, Filling
    <2> QED BY <1>0, <2>1, <2>2, FreerReads DEF Holding, Reading, Filling, Withheld
  <1> QED BY <1>1, <1>2, <1>3, <1>4

\* The oldest record is published when the freeing thread looks for it.
LEMMA OldestReadable ==
    ASSUME TypeOK, NEW f \in Threads, Alone(f), me[f].pc \notin {"dead"} \cup Filling,
           q.read < q.write
    PROVE  \E b \in Blocks : HeldAt(b, q.read) /\ InSlot(b, IndexOf(q.read))
  <1>1. q.read \in q.read .. Last(f) - 1
    BY DEF Last, TypeOK, CursorFields
  <1> QED BY <1>1 DEF Alone, Kept, Led, HeldAt

\* A lookup of the freeing thread's own, and PopOldest's reading of the slot.
LEMMA ReadStep ==
    ASSUME TypeOK, TypeOK', NEW f \in Threads, Alone(f),
           LoadV1(f) \/ CopyOut(f) \/ LoadV2(f)
    PROVE  Alone(f)'
  <1>0. /\ UNCHANGED <<q, slot, mem, poison, ledger>> /\ Holding(f) /\ Popping(f) /\ Whole(f)
        /\ Copied(f, f)
    BY DEF LoadV1, CopyOut, LoadV2, Alone
  <1>1. CASE LoadV1(f) \/ CopyOut(f)
    <2>1. /\ Others(f) /\ me[f].pc \in {"v1", "copy"} /\ me[f].index \in Indexes
          /\ \/ me[f].fault /\ me'[f] = Idle
             \/ /\ me'[f].pc \in {"copy", "v2"} /\ me'[f].r = me[f].r /\ me'[f].index = me[f].index
                /\ me'[f].block = me[f].block /\ me'[f].fault = me[f].fault
                /\ LoadV1(f) => me'[f].v1 = slot[me[f].index].version
                /\ CopyOut(f) => me'[f].v1 = me[f].v1 /\ me[f].pc = "copy"
             \/ /\ ~Readable(slot[me[f].index].version) /\ ~me[f].fault /\ me[f].pc = "v1"
      <3>1. CASE LoadV1(f)
        <4>1. ~CopyOut(f)
          BY <3>1 DEF LoadV1, CopyOut
        <4> QED BY <3>1, <4>1, LoadV1Is
      <3>2. CASE CopyOut(f)
        <4>1. ~LoadV1(f)
          BY <3>2 DEF LoadV1, CopyOut
        <4> QED BY <3>2, <4>1, CopyOutIs
      <3> QED BY <1>1, <3>1, <3>2
    <2>2. CASE me[f].fault /\ me'[f] = Idle
      BY <1>0, <2>1, <2>2, FreerReturns DEF Reading
    <2>3. CASE ~Readable(slot[me[f].index].version) /\ ~me[f].fault /\ me[f].pc = "v1"
      <3>1. me[f].r = q.read /\ me[f].r < q.write /\ me[f].index = IndexOf(me[f].r)
        BY <1>0, <2>3 DEF Popping, Reading
      <3>2. Readable(slot[me[f].index].version)
        BY <2>3, <3>1, OldestReadable DEF InSlot, Filling
      <3> QED BY <2>3, <3>2
    <2>4. CASE /\ me'[f].pc \in {"copy", "v2"} /\ me'[f].r = me[f].r /\ me'[f].index = me[f].index
               /\ me'[f].block = me[f].block /\ me'[f].fault = me[f].fault
               /\ LoadV1(f) => me'[f].v1 = slot[me[f].index].version
               /\ CopyOut(f) => me'[f].v1 = me[f].v1 /\ me[f].pc = "copy"
      <3>1. Accepts(me[f])' \/ me[f].fault
        BY <1>0, <1>1, <2>4 DEF Accepts, Popping
      <3>2. Popping(f)'
        BY <1>0, <2>1, <2>4, <3>1 DEF Popping, Popped, Reading
      <3>3. SeqStays(f)
        BY <1>0, <2>4 DEF SeqStays, Marking, TypeOK, CursorFields
      <3>4. Copied(f, f)'
        BY <1>0, <1>1, <3>3, CopiedOwn
      <3>5. Reserved(f)' /\ ~Popped(f)
        BY <2>1, <2>4 DEF Reserved, Popped, Filling
      <3> QED BY <1>0, <2>1, <2>4, <3>2, <3>4, <3>5, FreerReads DEF Reading, Filling, Withheld
    <2> QED BY <2>1, <2>2, <2>3, <2>4
  <1>2. CASE LoadV2(f)
    <2>1. /\ Others(f) /\ me[f].pc = "v2" /\ me[f].index \in Indexes
          /\ \/ me[f].fault /\ me'[f] = Idle
             \/ /\ ~me[f].fault /\ me'[f].pc = "popCas" /\ SameRest(me[f], me'[f])
                /\ me'[f].block = me[f].block /\ me'[f].fault = me[f].fault
                /\ Accepts(me[f]) => me'[f].have
      BY <1>2, LoadV2Is
    <2>2. CASE me[f].fault /\ me'[f] = Idle
      BY <1>0, <2>1, <2>2, FreerReturns DEF Reading
    <2>3. CASE /\ ~me[f].fault /\ me'[f].pc = "popCas" /\ SameRest(me[f], me'[f])
               /\ me'[f].block = me[f].block /\ me'[f].fault = me[f].fault
               /\ Accepts(me[f]) => me'[f].have
      <3>1. Accepts(me[f]) /\ me[f].left = {}
        BY <1>0, <2>1, <2>3 DEF Popping, Copied
      <3>2. me[f].copy = slot[me[f].index].rec
        <4>1. \A x \in Words : me[f].copy[x] = slot[me[f].index].rec[x]
          BY <1>0, <2>1, <3>1 DEF Copied
        <4>2. /\ me[f].copy \in [Words -> Blocks \cup {NoBlock}]
              /\ slot[me[f].index].rec \in [Words -> Blocks \cup {NoBlock}]
          BY <2>1 DEF TypeOK, LocalFields, Slot
        <4> QED BY <4>1, <4>2
      <3>3. me'[f].copy = me[f].copy /\ me'[f].index = me[f].index /\ me'[f].r = me[f].r
        BY <2>3 DEF SameRest
      <3>4. me'[f].have
        BY <2>3, <3>1, Zenon
      <3>5. me[f].r = q.read /\ me[f].r < q.write /\ me[f].index = IndexOf(me[f].r)
        BY <1>0, <2>1, <2>3 DEF Popping, Reading
      <3>6. Popping(f)'
        BY <1>0, <2>3, <3>2, <3>3, <3>4, <3>5 DEF Popping, Popped, Reading, IndexOf
      <3>7. Reserved(f)' /\ Copied(f, f)' /\ ~Popped(f)
        BY <2>1, <2>3 DEF Reserved, Popped, Filling, Copied
      <3> QED BY <1>0, <2>1, <2>3, <3>6, <3>7, FreerReads DEF Reading, Filling, Withheld
    <2> QED BY <2>1, <2>2, <2>3
  <1> QED BY <1>1, <1>2

\* The freeing thread faults itself.
LEMMA FaultStep ==
    ASSUME TypeOK, TypeOK', NEW f \in Threads, Alone(f), NEW b \in Blocks, Fault(f, b)
    PROVE  Alone(f)'
  <1>0. /\ Others(f) /\ me[f].pc = "idle" /\ me'[f].pc = "v1" /\ me'[f].fault
        /\ UNCHANGED <<q, slot, mem, poison, ledger>>
    BY FaultIs, Zenon
  <1>1. SameHeld /\ Told' /\ Holding(f)' /\ Going(f)
    BY <1>0 DEF SameHeld, Told, Alone, Holding, Withheld, Reading, Going, Last, Filling, Popped
  <1>2. Popping(f)' /\ Reserved(f)' /\ Copied(f, f)' /\ me'[f].pc \notin Filling
    BY <1>0 DEF Popping, Reserved, Copied, Popped, Reading, Filling
  <1> QED BY <1>0, <1>1, <1>2, FreerMoves

\* What PopOldest still does with a record it has taken.
LEMMA TakenStep ==
    ASSUME TypeOK, TypeOK', NEW f \in Threads, Alone(f), LoadPopBytes(f) \/ PopSub(f)
    PROVE  Alone(f)'
  <1>0. UNCHANGED <<slot, mem, poison, ledger>> /\ Holding(f) /\ Popping(f)
    BY DEF LoadPopBytes, PopSub, Alone
  <1>1. q'.read = q.read /\ q'.write = q.write /\ q'.seq = q.seq
    BY DEF LoadPopBytes, PopSub, TypeOK, CursorFields
  <1>2. /\ Others(f) /\ me[f].pc \in {"popBytes", "popSub"} /\ me'[f].pc \in {"popSub", "drain"}
        /\ me'[f].copy = me[f].copy /\ me'[f].block = me[f].block /\ me'[f].fault = me[f].fault
    <2>1. CASE LoadPopBytes(f)
      BY <2>1, LoadPopBytesIs
    <2>2. CASE PopSub(f)
      BY <2>2, MoveIs DEF PopSub, SameRest
    <2> QED BY <2>1, <2>2
  <1>3. Popping(f)'
    BY <1>0, <1>1, <1>2 DEF Popping, Popped, HeldAt, Reading
  <1>4. Reserved(f)' /\ Copied(f, f)' /\ (Popped(f) => Popped(f)')
    BY <1>2 DEF Reserved, Copied, Filling, Popped
  <1> QED BY <1>0, <1>1, <1>2, <1>3, <1>4, FreerReads DEF Holding, Reading, Filling, Withheld

\* PopOldest takes the oldest record: its block is held and nowhere else in the ring.
LEMMA PopCasStep ==
    ASSUME TypeOK, TypeOK', CursorInv, NEW f \in Threads, Alone(f), PopCas(f)
    PROVE  Alone(f)'
  <1>0. /\ UNCHANGED <<slot, mem, poison, ledger>> /\ Holding(f) /\ Popping(f) /\ me[f].pc = "popCas"
        /\ CursorFields(q) /\ Kept(f) /\ Found(f) /\ Led
    BY DEF PopCas, Alone, TypeOK
  <1>1. ~me[f].fault
    BY <1>0 DEF Holding, Reading
  <1>2. /\ me[f].r = q.read /\ me[f].r < q.write /\ me[f].index = IndexOf(me[f].r)
        /\ me[f].copy = slot[me[f].index].rec
    BY <1>0, <1>1 DEF Popping
  <1>3. me[f].have
    BY <1>0, Zenon DEF Popping
  <1>4. /\ Others(f) /\ SameRest(me[f], me'[f]) /\ me'[f].block = me[f].block
        /\ me'[f].fault = me[f].fault /\ me'[f].pc = "popBytes" /\ q' = [q EXCEPT !.read = @ + 1]
    <2>1. /\ Others(f) /\ SameRest(me[f], me'[f]) /\ me'[f].block = me[f].block
          /\ me'[f].fault = me[f].fault
      BY PopCasIs, Zenon
    <2>2. me'[f].pc = "popBytes" /\ q' = [q EXCEPT !.read = @ + 1]
      BY <1>2, <1>3, PopCasIs, Zenon
    <2> QED BY <2>1, <2>2
  <1>5. q'.read = q.read + 1 /\ q'.write = q.write /\ q'.seq = q.seq
    BY <1>0, <1>4 DEF CursorFields
  <1>6. me'[f].copy = me[f].copy /\ me'[f].left = me[f].left
    BY <1>4 DEF SameRest
  <1>7. PICK b \in Blocks : HeldAt(b, q.read) /\ InSlot(b, IndexOf(q.read))
    BY <1>0, <1>2, OldestReadable DEF Filling
  <1>8. me[f].copy["ptr"] = b
    BY <1>2, <1>7 DEF InSlot, Words
  <1>9. \A n \in q.read + 1 .. q.write - 1 : ~HeldAt(b, n)
    <2> SUFFICES ASSUME NEW n \in q.read + 1 .. q.write - 1 PROVE IndexOf(n) # poison[b]
      BY DEF HeldAt
    <2>1. q.read \in Nat /\ n \in Nat /\ q.read < n /\ n - q.read < Capacity
      BY <1>0, Constants DEF CursorInv, CursorsBounded, CursorFields
    <2> QED BY <1>7, <2>1, IndexOfDiffers DEF HeldAt
  <1>10. \A c \in Blocks : HeldAt(c, q.read) => c = b
    <2> SUFFICES ASSUME NEW c \in Blocks, HeldAt(c, q.read) PROVE c = b
      OBVIOUS
    <2>1. InSlot(c, IndexOf(q.read))
      BY <1>0 DEF HeldAt, Led
    <2> QED BY <1>7, <2>1 DEF InSlot, Words
  <1>11. Last(f) = q.write /\ Last(f)' = q.write
    BY <1>0, <1>4, <1>5 DEF Last, Filling
  <1>12. \A c \in Blocks : \A n : HeldAt(c, n)' <=> HeldAt(c, n)
    BY <1>0 DEF HeldAt
  <1>13. Kept(f)'
    BY <1>0, <1>5, <1>11, <1>12 DEF Kept, CursorFields
  <1>14. Found(f)'
    <2> SUFFICES ASSUME NEW c \in Blocks, mem[c] = "held"
                 PROVE  c = b \/ \E n \in q.read + 1 .. q.write - 1 : HeldAt(c, n)
      BY <1>0, <1>4, <1>5, <1>6, <1>8, <1>11, <1>12 DEF Found, Popped
    <2>1. PICK n \in q.read .. q.write - 1 : HeldAt(c, n)
      BY <1>0, <1>11 DEF Found, Popped
    <2>2. CASE n = q.read
      BY <1>10, <2>1, <2>2
    <2>3. CASE n # q.read
      BY <1>0, <2>1, <2>3 DEF CursorFields
    <2> QED BY <2>2, <2>3
  <1>15. Popping(f)'
    <2>1. mem[b] = "held"
      BY <1>7 DEF HeldAt
    <2> QED BY <1>0, <1>4, <1>5, <1>6, <1>8, <1>9, <1>12, <2>1 DEF Popping, Popped, Reading
  <1>16. Led' /\ Told' /\ Readers(f)' /\ Holding(f)'
    <2>1. SameHeld
      BY <1>0 DEF SameHeld
    <2>2. Led'
      BY <1>0, <2>1, LedStays
    <2>3. Told' /\ Readers(f)'
      BY <1>0, <1>4 DEF Alone, Told, Readers, Others
    <2>4. Holding(f)'
      BY <1>0, <1>1, <1>4 DEF Holding, Withheld
    <2> QED BY <2>2, <2>3, <2>4
  <1>17. SeqStays(f)
    BY <1>0, <1>4, <1>5 DEF SeqStays, Marking, CursorFields
  <1>18. Reserved(f)' /\ Publishing(f)' /\ Whole(f)'
    <2>1. Reserved(f)' /\ Publishing(f)'
      BY <1>4 DEF Reserved, Publishing, Filling, Marking
    <2> QED BY <1>0, <1>17, <2>1, VersionsStay DEF Alone
  <1>19. ASSUME NEW u \in Threads PROVE Copied(f, u)'
    <2>1. CASE u # f
      BY <1>0, <1>4, <1>17, <2>1, CopiedStays DEF Alone, Others
    <2>2. CASE u = f
      BY <1>4, <2>2 DEF Copied
    <2> QED BY <2>1, <2>2
  <1> QED BY <1>13, <1>14, <1>15, <1>16, <1>18, <1>19 DEF Alone

\* The drained block leaves the quarantine, and no other does.
LEMMA DrainStep ==
    ASSUME TypeOK, TypeOK', NEW f \in Threads, Alone(f), Drain(f)
    PROVE  Alone(f)'
  <1>0. /\ UNCHANGED <<q, slot, poison, ledger>> /\ Holding(f) /\ Popping(f) /\ me[f].pc = "drain"
        /\ Kept(f) /\ Found(f) /\ Led /\ Told
    BY DEF Drain, Alone
  <1>1. PICK b \in Blocks : /\ b = me[f].copy["ptr"] /\ mem[b] = "held"
                            /\ \A n \in q.read .. q.write - 1 : ~HeldAt(b, n)
    BY <1>0 DEF Popping, Popped
  <1>2. PICK fate \in {"free", "leaked"} : mem' = [mem EXCEPT ![b] = fate]
    BY <1>1 DEF Drain
  <1>3. \A c \in Blocks : IF c = b THEN mem'[c] = fate ELSE mem'[c] = mem[c]
    BY <1>2 DEF TypeOK
  <1>4. /\ Others(f) /\ me'[f].pc = "count" /\ me'[f].fault = me[f].fault
        /\ me'[f].block = me[f].block
    BY DrainIs
  <1>5. Last(f) = q.write /\ Last(f)' = q.write
    BY <1>0, <1>4 DEF Last, Filling
  <1>6. \A c \in Blocks : \A n : HeldAt(c, n)' <=> (c # b /\ HeldAt(c, n))
    BY <1>0, <1>3 DEF HeldAt
  <1>7. Kept(f)'
    BY <1>0, <1>1, <1>5, <1>6 DEF Kept
  <1>8. Found(f)'
    <2> SUFFICES ASSUME NEW c \in Blocks, mem'[c] = "held"
                 PROVE  \E n \in q.read .. q.write - 1 : HeldAt(c, n)'
      BY <1>0, <1>5 DEF Found
    <2>1. c # b /\ mem[c] = "held"
      BY <1>3
    <2> QED BY <1>0, <1>1, <1>5, <1>6, <2>1 DEF Found
  <1>9. Led'
    <2> SUFFICES ASSUME NEW c \in Blocks, mem'[c] = "held"
                 PROVE  poison[c] # 0 /\ InSlot(c, poison[c])'
      BY <1>0 DEF Led
    <2>1. poison[c] # 0 /\ InSlot(c, poison[c])
      BY <1>0, <1>3 DEF Led
    <2> QED BY <1>0, <2>1 DEF InSlot, Readable
  <1>10. Told' /\ Readers(f)'
    BY <1>0, <1>3, <1>4 DEF Told, Readers, Others, Alone
  <1>11. Holding(f)'
    <2>1. ~me[f].fault /\ me[f].block \in Blocks
      BY <1>0 DEF Holding, Reading, TypeOK, LocalFields
    <2>2. mem[me[f].block] = "hook"
      BY <1>0, <2>1 DEF Holding, Withheld
    <2>3. mem'[me[f].block] = "hook"
      BY <1>1, <1>3, <2>1, <2>2
    <2> QED BY <1>4, <2>1, <2>3 DEF Holding, Withheld
  <1>12. Popping(f)' /\ Reserved(f)' /\ Publishing(f)' /\ SeqStays(f)
    BY <1>0, <1>4 DEF Popping, Popped, Reading, Reserved, Publishing, Filling, Marking, SeqStays,
                      TypeOK, CursorFields
  <1>13. Whole(f)'
    BY <1>0, <1>12, VersionsStay DEF Alone
  <1>14. ASSUME NEW u \in Threads PROVE Copied(f, u)'
    <2>1. CASE u # f
      BY <1>0, <1>4, <1>12, <2>1, CopiedStays DEF Alone, Others
    <2>2. CASE u = f
      BY <1>4, <2>2 DEF Copied
    <2> QED BY <2>1, <2>2
  <1> QED BY <1>7, <1>8, <1>9, <1>10, <1>11, <1>12, <1>13, <1>14 DEF Alone

\* The reserved slot is nobody's.
LEMMA ReserveStep ==
    ASSUME TypeOK, TypeOK', CursorInv, NEW f \in Threads, Alone(f), ReserveCas(f)
    PROVE  Alone(f)'
  <1>0. /\ UNCHANGED <<slot, mem, poison, ledger>> /\ Holding(f) /\ Reserved(f) /\ Found(f)
        /\ me[f].pc = "reserveCas" /\ CursorFields(q) /\ Capacity \in Nat
        /\ CursorsBounded /\ Cursors(f)
    BY Constants DEF ReserveCas, Alone, TypeOK, CursorInv
  <1>1. me[f].w = q.write /\ me[f].w < q.read + Capacity
    BY <1>0 DEF Reserved, Cursors
  <1>2. /\ Others(f) /\ me'[f].block = me[f].block /\ me'[f].fault = me[f].fault
        /\ me'[f].copy = me[f].copy /\ me'[f].pc = "poison" /\ me'[f].index = IndexOf(q.write)
        /\ q' = [q EXCEPT !.write = @ + 1]
    BY <1>1, ReserveCasIs
  <1>3. q'.write = q.write + 1 /\ q'.read = q.read /\ q'.seq = q.seq
    BY <1>0, <1>2 DEF CursorFields
  <1>4. \A b \in Blocks : mem[b] = "held" => poison[b] # IndexOf(q.write)
    <2> SUFFICES ASSUME NEW b \in Blocks, mem[b] = "held" PROVE poison[b] # IndexOf(q.write)
      OBVIOUS
    <2>1. Last(f) = q.write /\ ~Popped(f)
      BY <1>0 DEF Last, Filling, Popped
    <2>2. PICK n \in q.read .. q.write - 1 : HeldAt(b, n)
      BY <1>0, <2>1 DEF Found
    <2>3. n \in Nat /\ n < q.write /\ q.write - n < Capacity
      BY <1>0, <1>1, <2>2 DEF CursorFields
    <2> QED BY <1>0, <2>2, <2>3, IndexOfDiffers DEF HeldAt, CursorFields
  <1>5. SameHeld
    BY <1>0 DEF SameHeld
  <1>6. Going(f)
    <2>1. Last(f) = q.write /\ Last(f)' = q.write /\ ~Popped(f)
      BY <1>0, <1>2, <1>3 DEF Last, Filling, Popped, CursorFields
    <2> QED BY <1>0, <2>1 DEF Going
  <1>7. Led' /\ Kept(f)' /\ Found(f)'
    BY <1>0, <1>3, <1>5, <1>6, LedStays, RingStays DEF Alone
  <1>8. Told' /\ Readers(f)'
    BY <1>0, <1>2 DEF Told, Readers, Others, Alone
  <1>9. Holding(f)'
    BY <1>0, <1>2 DEF Holding, Withheld, Reading
  <1>10. Popping(f)' /\ Publishing(f)' /\ SeqStays(f)
    BY <1>0, <1>2, <1>3 DEF Popping, Popped, Reading, Publishing, Marking, SeqStays, CursorFields
  <1>11. Reserved(f)'
    <2>1. q.write = q'.write - 1 /\ q'.read < q'.write
      BY <1>0, <1>3 DEF CursorFields, CursorsBounded
    <2>2. me'[f].index = IndexOf(q'.write - 1)
      BY <1>2, <2>1
    <2> QED BY <1>0, <1>2, <1>4, <2>1, <2>2 DEF Reserved, Filling, IndexOf
  <1>12. Whole(f)'
    BY <1>0, <1>10, VersionsStay DEF Alone
  <1>13. ASSUME NEW u \in Threads PROVE Copied(f, u)'
    <2>1. CASE u # f
      BY <1>0, <1>2, <1>10, <2>1, CopiedStays DEF Alone, Others
    <2>2. CASE u = f
      BY <1>2, <2>2 DEF Copied
    <2> QED BY <2>1, <2>2
  <1> QED BY <1>7, <1>8, <1>9, <1>10, <1>11, <1>12, <1>13 DEF Alone

\* While a slot is filled the ring is as it was: nothing held is in that slot.
LEMMA FreerFills ==
    ASSUME TypeOK, TypeOK', NEW f \in Threads, Alone(f), Others(f),
           q'.read = q.read, q'.write = q.write, UNCHANGED <<mem, ledger>>, SameHeld,
           me[f].pc \in Filling, me'[f].pc \in Filling, me'[f].fault = me[f].fault,
           me'[f].block = me[f].block, me'[f].index = me[f].index,
           me'[f].pc = "poison" \/ poison'[me[f].block] = me[f].index,
           \A i \in Indexes \ {me[f].index} : slot'[i] = slot[i],
           Publishing(f)', Whole(f)', \A t \in Threads : Copied(f, t)'
    PROVE  Alone(f)'
  <1>1. Led'
    <2>1. \A b \in Blocks : mem[b] = "held" => poison[b] \in Indexes \ {me[f].index}
      BY DEF Alone, Led, Reserved, TypeOK
    <2> QED BY <2>1, LedStays DEF Alone
  <1>2. Going(f)
    BY DEF Going, Last, Filling, Popped
  <1>3. Kept(f)' /\ Found(f)'
    BY <1>2, RingStays DEF Alone
  <1>4. Told' /\ Readers(f)'
    BY DEF Told, Readers, Others, Alone
  <1>5. Holding(f)'
    BY DEF Holding, Alone, Reading, Withheld, Filling
  <1>6. Popping(f)'
    BY DEF Popping, Popped, Reading, Filling
  <1>7. Reserved(f)'
    <2>1. /\ q.read < q.write /\ me[f].index = IndexOf(q.write - 1)
          /\ \A b \in Blocks : mem[b] = "held" => poison[b] # me[f].index
      BY DEF Alone, Reserved
    <2>2. me[f].index = IndexOf(q'.write - 1)
      BY <2>1
    <2> QED BY <2>1, <2>2 DEF Reserved, SameHeld, Filling, IndexOf
  <1> QED BY <1>1, <1>3, <1>4, <1>5, <1>6, <1>7 DEF Alone

\* What f has while it fills a slot.
LEMMA FillingHas ==
    ASSUME TypeOK, NEW f \in Threads, Alone(f), me[f].pc \in Filling
    PROVE  /\ ~me[f].fault /\ me[f].block \in Blocks /\ me[f].index \in Indexes
           /\ mem[me[f].block] = "hook" /\ me[f].seq \in Nat
  <1>1. ~me[f].fault
    BY DEF Alone, Holding, Filling, Reading
  <1> QED BY <1>1 DEF TypeOK, LocalFields, Alone, Holding, Filling, Withheld

\* The poison, and the number.
LEMMA PoisonStep ==
    ASSUME TypeOK, TypeOK', NEW f \in Threads, Alone(f), PoisonBlock(f) \/ TakeSeq(f)
    PROVE  Alone(f)'
  <1>0. /\ UNCHANGED <<slot, mem, ledger>> /\ me[f].pc \in Filling
        /\ CursorFields(q) /\ CursorFields(q')
    BY DEF PoisonBlock, TakeSeq, Filling, TypeOK
  <1>1. /\ ~me[f].fault /\ me[f].block \in Blocks /\ me[f].index \in Indexes
        /\ mem[me[f].block] = "hook" /\ me[f].seq \in Nat
    BY <1>0, FillingHas
  <1>2. CASE PoisonBlock(f)
    <2>1. /\ q' = q /\ me[f].pc = "poison" /\ Goto(f, "seq")
          /\ poison' = [poison EXCEPT ![me[f].block] = me[f].index]
      BY <1>2 DEF PoisonBlock
    <2>2. /\ Others(f) /\ me'[f].pc = "seq" /\ me'[f].block = me[f].block
          /\ me'[f].fault = me[f].fault /\ me'[f].index = me[f].index
      BY <1>0, <2>1, MoveIs DEF SameRest
    <2>3. SameHeld /\ poison'[me[f].block] = me[f].index
      BY <1>0, <1>1, <2>1 DEF SameHeld, TypeOK
    <2>4. SeqStays(f) /\ Publishing(f)'
      BY <1>0, <2>1, <2>2 DEF SeqStays, Publishing, Marking, CursorFields
    <2>5. Whole(f)'
      BY <1>0, <2>4, VersionsStay DEF Alone
    <2>6. ASSUME NEW u \in Threads PROVE Copied(f, u)'
      <3>1. CASE u # f
        BY <1>0, <2>2, <2>4, <3>1, CopiedStays DEF Alone, Others
      <3>2. CASE u = f
        BY <2>2, <3>2 DEF Copied
      <3> QED BY <3>1, <3>2
    <2> QED BY <1>0, <2>1, <2>2, <2>3, <2>4, <2>5, <2>6, FreerFills DEF Filling
  <1>3. CASE TakeSeq(f)
    <2>1. poison' = poison /\ q' = [q EXCEPT !.seq = @ + 1] /\ me[f].pc = "seq"
      BY <1>3 DEF TakeSeq
    <2>2. /\ Others(f) /\ me'[f].pc = "odd" /\ me'[f].seq = q.seq + 1
          /\ me'[f].block = me[f].block /\ me'[f].fault = me[f].fault /\ me'[f].index = me[f].index
      BY <1>3, TakeSeqIs
    <2>3. q'.read = q.read /\ q'.write = q.write /\ q'.seq = q.seq + 1
      BY <1>0, <2>1 DEF CursorFields
    <2>4. SameHeld /\ poison'[me[f].block] = me[f].index
      BY <1>0, <2>1 DEF SameHeld, Alone, Reserved, Filling
    <2>5. SeqStays(f) /\ Publishing(f)'
      BY <1>0, <2>2, <2>3 DEF SeqStays, Publishing, Marking, CursorFields
    <2>6. Whole(f)'
      BY <1>0, <2>5, VersionsStay DEF Alone
    <2>7. ASSUME NEW u \in Threads PROVE Copied(f, u)'
      <3>1. CASE u # f
        BY <1>0, <2>2, <2>5, <3>1, CopiedStays DEF Alone, Others
      <3>2. CASE u = f
        BY <2>2, <3>2 DEF Copied
      <3> QED BY <3>1, <3>2
    <2> QED BY <1>0, <2>2, <2>3, <2>4, <2>5, <2>6, <2>7, FreerFills DEF Filling
  <1> QED BY <1>2, <1>3

\* A store to the slot that is filled, seen by everybody: while the slot's word
\* is the writer's, no copy of it is accepted.
LEMMA WriterSeen ==
    ASSUME TypeOK, TypeOK', NEW f \in Threads, Alone(f), Others(f), q' = q,
           me[f].pc \in {"odd", "copyIn"}, me'[f].pc \in {"copyIn", "even"}, me'[f].seq = me[f].seq,
           \A i \in Indexes \ {me[f].index} : slot'[i] = slot[i],
           slot'[me[f].index].version.writing
    PROVE  Whole(f)' /\ \A t \in Threads : Copied(f, t)'
  <1>0. ~Readable(slot'[me[f].index].version)
    BY Zenon DEF Readable
  <1>2. Whole(f)'
    <2> SUFFICES ASSUME NEW i \in Indexes, Readable(slot'[i].version)
                 PROVE  Older(f, slot[i].version)' /\ slot'[i].rec["ptr"] = slot'[i].rec["rest"]
      BY DEF Whole, Readable
    <2>1. slot'[i] = slot[i]
      BY <1>0
    <2>2. Readable(slot[i].version)
      BY <2>1
    <2>3. Older(f, slot[i].version) /\ slot[i].rec["ptr"] = slot[i].rec["rest"]
      BY <2>2 DEF Alone, Whole
    <2>4. Older(f, slot[i].version)'
      BY <2>1, <2>3 DEF Older, Marking
    <2> QED BY <2>1, <2>3, <2>4
  <1>3. ASSUME NEW u \in Threads PROVE Copied(f, u)'
    <2>1. CASE u = f
      BY <2>1 DEF Copied
    <2>2. CASE u # f /\ me[u].pc \in {"copy", "v2"}
      <3>1. me'[u] = me[u] /\ me[u].index \in Indexes /\ Readable(me[u].v1) /\ Older(f, me[u].v1)
        BY <2>2 DEF Others, Alone, Copied, TypeOK, LocalFields, Reading
      <3>2. Older(f, me[u].v1)'
        BY <3>1 DEF Older, Marking
      <3>3. CASE me[u].index = me[f].index
        <4>1. slot'[me[u].index].version # me[u].v1
          BY <1>0, <3>1, <3>3
        <4> QED BY <2>2, <3>1, <3>2, <4>1 DEF Alone, Copied, Accepts, Readable
      <3>4. CASE me[u].index # me[f].index
        <4>1. slot'[me[u].index] = slot[me[u].index]
          BY <3>1, <3>4
        <4> QED BY <2>2, <3>1, <3>2, <4>1 DEF Alone, Copied, Accepts, Readable
      <3> QED BY <3>3, <3>4
    <2>3. CASE u # f /\ me[u].pc \notin {"copy", "v2"}
      BY <2>3 DEF Others, Copied
    <2> QED BY <2>1, <2>2, <2>3
  <1> QED BY <1>2, <1>3

\* Publish marks its slot.
LEMMA StoreOddStep ==
    ASSUME TypeOK, TypeOK', NEW f \in Threads, Alone(f), StoreOdd(f)
    PROVE  Alone(f)'
  <1>0. /\ UNCHANGED <<q, mem, poison, ledger>> /\ me[f].pc = "odd"
        /\ slot' = [slot EXCEPT ![me[f].index].version = [seq |-> me[f].seq, writing |-> TRUE]]
    BY DEF StoreOdd
  <1>1. me[f].index \in Indexes /\ slot \in [Indexes -> Slot]
    BY <1>0, FillingHas DEF Filling, TypeOK
  <1>2. /\ Others(f) /\ me'[f].left = Words /\ me'[f].pc = "copyIn"
        /\ me'[f].fault = me[f].fault /\ me'[f].block = me[f].block
        /\ me'[f].index = me[f].index /\ me'[f].seq = me[f].seq
    BY StoreOddIs
  <1>3. /\ \A i \in Indexes \ {me[f].index} : slot'[i] = slot[i]
        /\ slot'[me[f].index].version.writing
    BY <1>0, <1>1 DEF Slot
  <1>4. SameHeld /\ poison'[me[f].block] = me[f].index
    BY <1>0 DEF SameHeld, Alone, Reserved, Filling
  <1>5. Publishing(f)'
    BY <1>0, <1>2, <1>3 DEF Publishing, Marking, Alone
  <1>6. Whole(f)' /\ \A t \in Threads : Copied(f, t)'
    BY <1>0, <1>2, <1>3, WriterSeen
  <1> QED BY <1>0, <1>2, <1>3, <1>4, <1>5, <1>6, FreerFills DEF Filling

\* One word of the record goes in.
LEMMA CopyInStep ==
    ASSUME TypeOK, TypeOK', NEW f \in Threads, Alone(f), CopyIn(f)
    PROVE  Alone(f)'
  <1>0. UNCHANGED <<q, mem, poison, ledger>> /\ me[f].pc = "copyIn" /\ Publishing(f)
    BY DEF CopyIn, Alone
  <1>1. /\ me[f].index \in Indexes /\ slot[me[f].index] \in Slot /\ slot \in [Indexes -> Slot]
        /\ me[f].left \in SUBSET Words /\ me[f].block \in Blocks
    BY <1>0, FillingHas DEF Filling, TypeOK, LocalFields
  <1>2. /\ Others(f) /\ me'[f].index = me[f].index /\ me'[f].seq = me[f].seq
        /\ me'[f].block = me[f].block /\ me'[f].fault = me[f].fault
        /\ me'[f].pc \in {"copyIn", "even"} /\ (me'[f].pc = "even" => me'[f].left = {})
    BY CopyInIs
  <1>3. PICK x \in me[f].left : /\ me'[f].left = me[f].left \ {x}
                                /\ slot' = [slot EXCEPT ![me[f].index].rec[x] = me[f].block]
    BY CopyInIs
  <1>4. /\ \A i \in Indexes \ {me[f].index} : slot'[i] = slot[i]
        /\ slot'[me[f].index].version = slot[me[f].index].version
        /\ slot'[me[f].index].rec[x] = me[f].block
        /\ \A y \in Words \ {x} : slot'[me[f].index].rec[y] = slot[me[f].index].rec[y]
    BY <1>1, <1>3 DEF Slot
  <1>5. slot[me[f].index].version.writing
    BY <1>0, Zenon DEF Publishing
  <1>6. slot'[me[f].index].version.writing
    BY <1>4, <1>5, Zenon
  <1>7. SameHeld /\ poison'[me[f].block] = me[f].index
    BY <1>0 DEF SameHeld, Alone, Reserved, Filling
  <1>8. \A y \in Words \ me'[f].left : slot'[me[f].index].rec[y] = me[f].block
    BY <1>0, <1>1, <1>3, <1>4 DEF Publishing
  <1>9. Publishing(f)'
    <2>1. me'[f].seq > 0 /\ me'[f].seq <= q'.seq
      BY <1>0, <1>2 DEF Publishing, Marking
    <2>2. slot'[me'[f].index].version.writing
      BY <1>2, <1>6, Zenon
    <2>3. \A y \in Words \ me'[f].left : slot'[me'[f].index].rec[y] = me'[f].block
      BY <1>2, <1>8
    <2>4. me'[f].pc = "even" => \A y \in Words : slot'[me'[f].index].rec[y] = me'[f].block
      BY <1>2, <2>3
    <2> QED BY <2>1, <2>2, <2>3, <2>4, Zenon DEF Publishing
  <1>10. Whole(f)' /\ \A t \in Threads : Copied(f, t)'
    BY <1>0, <1>2, <1>4, <1>6, WriterSeen
  <1> QED BY <1>0, <1>2, <1>4, <1>7, <1>9, <1>10, FreerFills DEF Filling

\* The record is published: its block is withheld, in the last slot of the ring.
LEMMA StoreEvenStep ==
    ASSUME TypeOK, TypeOK', NEW f \in Threads, Alone(f), StoreEven(f)
    PROVE  Alone(f)'
  <1>0. /\ UNCHANGED <<q, poison, ledger>> /\ me[f].pc = "even" /\ Goto(f, "addBytes")
        /\ slot' = [slot EXCEPT ![me[f].index].version = [seq |-> me[f].seq, writing |-> FALSE]]
        /\ mem' = [mem EXCEPT ![me[f].block] = "held"]
        /\ Reserved(f) /\ Publishing(f) /\ Whole(f) /\ Led /\ Kept(f) /\ Found(f)
        /\ CursorFields(q)
    BY DEF StoreEven, Alone, TypeOK
  <1>1. /\ ~me[f].fault /\ me[f].block \in Blocks /\ me[f].index \in Indexes
        /\ mem[me[f].block] = "hook" /\ me[f].seq \in Nat /\ slot \in [Indexes -> Slot]
        /\ slot[me[f].index] \in Slot
    BY <1>0, FillingHas DEF Filling, TypeOK
  <1>2. PICK b \in Blocks, i \in Indexes : b = me[f].block /\ i = me[f].index
    BY <1>1
  <1>3. /\ Others(f) /\ me'[f].pc = "addBytes" /\ me'[f].block = b /\ me'[f].fault = me[f].fault
    BY <1>0, <1>2, MoveIs
  <1>4. /\ \A j \in Indexes \ {i} : slot'[j] = slot[j]
        /\ slot'[i].version = [seq |-> me[f].seq, writing |-> FALSE]
        /\ slot'[i].rec = slot[i].rec
    BY <1>0, <1>1, <1>2 DEF Slot
  <1>5. /\ q.read < q.write /\ i = IndexOf(q.write - 1) /\ poison[b] = i
        /\ \A c \in Blocks : mem[c] = "held" => poison[c] # i
        /\ me[f].seq > 0 /\ me[f].seq <= q.seq /\ \A x \in Words : slot[i].rec[x] = b
    BY <1>0, <1>2 DEF Reserved, Publishing, Filling, Marking
  <1>6. Readable(slot'[i].version) /\ slot'[i].rec = [x \in Words |-> b]
    <2>1. slot[i].rec \in [Words -> Blocks \cup {NoBlock}]
      BY <1>1, <1>2 DEF Slot
    <2> QED BY <1>1, <1>4, <1>5, <2>1 DEF Readable
  <1>7. mem[b] = "hook" /\ \A c \in Blocks : IF c = b THEN mem'[c] = "held" ELSE mem'[c] = mem[c]
    BY <1>0, <1>1, <1>2 DEF TypeOK
  <1>8. Led'
    <2> SUFFICES ASSUME NEW c \in Blocks, mem'[c] = "held"
                 PROVE  poison[c] # 0 /\ InSlot(c, poison[c])'
      BY <1>0 DEF Led
    <2>1. CASE c = b
      BY <1>0, <1>5, <1>6, <2>1 DEF InSlot, Readable, Indexes
    <2>2. CASE c # b
      <3>1. poison[c] # 0 /\ InSlot(c, poison[c]) /\ poison[c] \in Indexes \ {i}
        BY <1>0, <1>5, <1>7, <2>2 DEF Led, TypeOK
      <3>2. slot'[poison[c]] = slot[poison[c]]
        BY <1>4, <3>1
      <3> QED BY <1>0, <3>1, <3>2 DEF InSlot, Readable
    <2> QED BY <2>1, <2>2
  <1>9. Last(f) = q.write - 1 /\ Last(f)' = q.write
    BY <1>0, <1>3 DEF Last, Filling
  <1>10. \A c \in Blocks : \A n : HeldAt(c, n)' <=> HeldAt(c, n) \/ (c = b /\ poison[b] = IndexOf(n))
    BY <1>0, <1>7 DEF HeldAt, IndexOf
  <1>11. Kept(f)'
    <2> SUFFICES ASSUME NEW n \in q.read .. q.write - 1 PROVE \E c \in Blocks : HeldAt(c, n)'
      BY <1>0, <1>9 DEF Kept
    <2>1. CASE n = q.write - 1
      BY <1>5, <1>10, <2>1
    <2>2. CASE n # q.write - 1
      <3>1. n \in q.read .. Last(f) - 1
        BY <1>0, <1>9, <2>2 DEF CursorFields
      <3> QED BY <1>0, <1>10, <3>1 DEF Kept
    <2> QED BY <2>1, <2>2
  <1>12. Found(f)'
    <2> SUFFICES ASSUME NEW c \in Blocks, mem'[c] = "held"
                 PROVE  \E n \in q.read .. q.write - 1 : HeldAt(c, n)'
      BY <1>0, <1>9 DEF Found
    <2>1. CASE c = b
      <3>1. q.write - 1 \in q.read .. q.write - 1
        BY <1>0, <1>5 DEF CursorFields
      <3> QED BY <1>5, <1>10, <2>1, <3>1
    <2>2. CASE c # b
      <3>1. PICK n \in q.read .. q.write - 1 - 1 : HeldAt(c, n)
        BY <1>0, <1>7, <1>9, <2>2 DEF Found, Popped
      <3>2. n \in q.read .. q.write - 1
        BY <1>0, <3>1 DEF CursorFields
      <3> QED BY <1>10, <3>1, <3>2
    <2> QED BY <2>1, <2>2
  <1>13. Told' /\ Readers(f)'
    BY <1>0, <1>3, <1>7 DEF Told, Readers, Others, Alone
  <1>14. Holding(f)'
    BY <1>1, <1>3, <1>7 DEF Holding, Withheld
  <1>15. Popping(f)' /\ Reserved(f)' /\ Publishing(f)'
    BY <1>3 DEF Popping, Popped, Reading, Reserved, Filling, Publishing, Marking
  <1>17. Whole(f)'
    <2> SUFFICES ASSUME NEW j \in Indexes, Readable(slot'[j].version)
                 PROVE  slot'[j].version.seq <= q.seq /\ slot'[j].rec["ptr"] = slot'[j].rec["rest"]
      BY <1>0, <1>3 DEF Whole, Readable, Older, Marking
    <2>1. CASE j = i
      BY <1>4, <1>5, <2>1 DEF Words
    <2>2. CASE j # i
      BY <1>0, <1>4, <2>2 DEF Whole, Older
    <2> QED BY <2>1, <2>2
  <1>18. ASSUME NEW u \in Threads PROVE Copied(f, u)'
    <2>1. CASE u = f
      BY <1>3, <2>1 DEF Copied
    <2>2. CASE u # f /\ me[u].pc \in {"copy", "v2"}
      <3>1. me'[u] = me[u] /\ me[u].index \in Indexes /\ Readable(me[u].v1) /\ Older(f, me[u].v1)
        BY <1>3, <2>2 DEF Others, Alone, Copied, TypeOK, LocalFields, Reading
      <3>2. Older(f, me[u].v1)'
        BY <1>0, <1>3, <3>1 DEF Older, Marking
      <3>3. CASE me[u].index = i
        <4>1. me[u].v1.seq < me[f].seq /\ me[u].v1.seq \in Nat
          BY <1>0, <3>1 DEF Older, Marking, TypeOK, LocalFields, Version
        <4>2. slot'[me[u].index].version # me[u].v1
          BY <1>1, <1>4, <3>3, <4>1
        <4> QED BY <2>2, <3>1, <3>2, <4>2 DEF Alone, Copied, Accepts, Readable
      <3>4. CASE me[u].index # i
        <4>1. slot'[me[u].index] = slot[me[u].index]
          BY <1>4, <3>1, <3>4
        <4> QED BY <2>2, <3>1, <3>2, <4>1 DEF Alone, Copied, Accepts, Readable
      <3> QED BY <3>3, <3>4
    <2>3. CASE u # f /\ me[u].pc \notin {"copy", "v2"}
      BY <1>3, <2>3 DEF Others, Copied
    <2> QED BY <2>1, <2>2, <2>3
  <1> QED BY <1>8, <1>11, <1>12, <1>13, <1>14, <1>15, <1>17, <1>18 DEF Alone

----------------------------------------------------------------------------
(***************************************************************************)
(* The invariants of the specification                                     *)
(***************************************************************************)
\* With one freeing thread every step keeps all it relies on.
LEMMA AloneStep ==
    ASSUME TypeOK, TypeOK', CursorInv, AloneInv, [Next]_vars
    PROVE  AloneInv'
  <1>1. CASE UNCHANGED vars
    <2> SUFFICES ASSUME NEW f \in Threads, setup.hooked = {f} PROVE Alone(f)'
      BY <1>1 DEF AloneInv, vars
    <2>1. Alone(f)
      BY DEF AloneInv
    <2>2. /\ UNCHANGED <<q, slot, mem, poison, ledger, me>> /\ CursorFields(q)
      BY <1>1 DEF vars, TypeOK
    <2>3. SeqStays(f) /\ SameHeld
      BY <2>2 DEF SeqStays, SameHeld, CursorFields
    <2>4. Readers(f)' /\ Holding(f)' /\ Told' /\ Kept(f)' /\ Found(f)'
      BY <2>1, <2>2 DEF Alone, Readers, Holding, Told, Kept, Found, Last, HeldAt, Popped
    <2>5. Popping(f)' /\ Reserved(f)' /\ Publishing(f)'
      BY <2>1, <2>2 DEF Alone, Popping, Popped, HeldAt, Accepts, Reserved, Publishing
    <2>6. Led' /\ Whole(f)' /\ \A t \in Threads : Copied(f, t)'
      BY <2>1, <2>2, <2>3, LedStays, VersionsStay, CopiedStays DEF Alone
    <2> QED BY <2>4, <2>5, <2>6 DEF Alone
  <1>2. ASSUME NEW t \in Threads,
               \/ Step(t) \/ Die(t) \/ \E b \in Blocks : Fault(t, b)
               \/ t \in setup.hooked /\ \E b \in Blocks : HkSfAlloc(t, b) \/ HkSfFree(t, b)
        PROVE  AloneInv'
    <2>1. setup' = setup
      BY <1>2, OneStep
    <2> SUFFICES ASSUME NEW f \in Threads, setup.hooked = {f} PROVE Alone(f)'
      BY <2>1 DEF AloneInv
    <2>2. Alone(f)
      BY DEF AloneInv
    <2>3. CASE t # f
      BY <1>2, <2>2, <2>3, ReaderStep
    <2>4. CASE t = f /\ (Die(f) \/ \E b \in Blocks : HkSfAlloc(f, b) \/ HkSfFree(f, b) \/ Fault(f, b))
      BY <2>2, <2>4, DieStep, AllocStep, CallStep, FaultStep
    <2>5. CASE Step(f)
      BY <2>2, <2>5, LookStep, LoadStep, ReadStep, PopCasStep, TakenStep, DrainStep, ReserveStep,
         PoisonStep, StoreOddStep, CopyInStep, StoreEvenStep, ReturnStep, Zenon
         DEF Step, Pop, Reserve, Publish
    <2> QED BY <1>2, <2>3, <2>4, <2>5
  <1> QED BY <1>1, <1>2, WhoseStep

\* Who never dies is not dead.
Undying ==
    /\ DOMAIN used = {"frees", "faults", "deaths"} /\ used.deaths \in Nat
    /\ setup.deaths = 0 => \A t \in Threads : me[t].pc # "dead"
Inv == TypeOK /\ CursorInv /\ AloneInv /\ Undying

\* Initially every thread is idle, every block the game's and no slot published.
LEMMA InitInv == Init => Inv
  <1> SUFFICES ASSUME Init PROVE Inv
    OBVIOUS
  <1>1. TypeOK
    <2>1. CursorFields(q)
      BY DEF Init, CursorFields
    <2>2. [version |-> NoVersion, rec |-> NoRecord] \in Slot
      BY DEF Slot, NoVersion, Version, NoRecord
    <2>3. slot \in [Indexes -> Slot]
      BY <2>2 DEF Init
    <2>4. DOMAIN me = Threads /\ \A t \in Threads : LocalFields(me[t])
      BY IdleIs DEF Init
    <2>5. /\ setup \in Setups /\ mem \in [Blocks -> Owners]
          /\ poison \in [Blocks -> {0} \cup Indexes] /\ ledger \in [Blocks -> {"live", "freed"}]
      BY DEF Init, Owners
    <2> QED BY <2>1, <2>3, <2>4, <2>5 DEF TypeOK
  <1>2. /\ q.write = 0 /\ q.read = 0 /\ \A t \in Threads : me[t] = Idle
        /\ \A b \in Blocks : mem[b] = "live" /\ ledger[b] = "live"
        /\ \A i \in Indexes : slot[i].version = NoVersion
    BY DEF Init
  <1>3. CursorInv
    BY <1>2, IdleIs, Constants DEF CursorInv, CursorsBounded, Cursors, Reading
  <1>4. ASSUME NEW f \in Threads PROVE Alone(f)
    <2>1. Readers(f) /\ Holding(f) /\ Told /\ Led
      <3>1. Holding(f)
        BY <1>2, IdleIs DEF Holding, Withheld
      <3>2. Told /\ Led
        BY <1>2 DEF Told, Led
      <3>3. Readers(f)
        BY <1>2, IdleIs DEF Readers, Reading
      <3> QED BY <3>1, <3>2, <3>3
    <2>2. Kept(f) /\ Found(f)
      BY <1>2, IdleIs DEF Kept, Found, Last, Filling
    <2>3. Popping(f) /\ Reserved(f) /\ Publishing(f)
      BY <1>2, IdleIs DEF Popping, Popped, Reading, Reserved, Filling, Publishing, Marking
    <2>4. Whole(f) /\ \A t \in Threads : Copied(f, t)
      BY <1>2, IdleIs DEF Whole, Readable, NoVersion, Copied
    <2> QED BY <2>1, <2>2, <2>3, <2>4 DEF Alone
  <1>5. Undying
    BY <1>2, IdleIs DEF Undying, Init
  <1> QED BY <1>1, <1>3, <1>4, <1>5 DEF Inv, AloneInv

\* No step of a call ends a thread.
LEMMA StepLives ==
    ASSUME TypeOK, TypeOK', NEW t \in Threads,
           Step(t) \/ \E b \in Blocks : HkSfAlloc(t, b) \/ HkSfFree(t, b) \/ Fault(t, b)
    PROVE  me'[t].pc # "dead"
  <1>1. CASE LoadCountWrite(t) \/ LoadCountRead(t) \/ Budget(t) \/ LoadPopRead(t) \/ LoadPopWrite(t)
    BY <1>1, LoadCountWriteIs, LoadCountReadIs, BudgetIs, LoadPopReadIs, LoadPopWriteIs
  <1>2. CASE LoadV1(t) \/ CopyOut(t) \/ LoadV2(t)
    BY <1>2, LoadV1Is, CopyOutIs, LoadV2Is, IdleIs
  <1>3. CASE PopCas(t) \/ LoadPopBytes(t) \/ Drain(t) \/ LoadReserveWrite(t)
    BY <1>3, PopCasIs, LoadPopBytesIs, DrainIs, LoadReserveWriteIs
  <1>4. CASE ReserveCas(t) \/ TakeSeq(t) \/ StoreOdd(t) \/ CopyIn(t)
    BY <1>4, ReserveCasIs, TakeSeqIs, StoreOddIs, CopyInIs
  <1>5. CASE PopSub(t) \/ LoadReserveRead(t) \/ PoisonBlock(t) \/ StoreEven(t) \/ AddBytes(t)
             \/ MarkFreed(t)
    <2>1. PICK l \in {"drain", "markFreed", "reserveCas", "seq", "addBytes", "markHeld", "free"} :
              Goto(t, l)
      BY <1>5 DEF PopSub, LoadReserveRead, PoisonBlock, StoreEven, AddBytes, MarkFreed
    <2>2. me'[t].pc = l
      BY <2>1 DEF Goto, TypeOK, LocalFields
    <2> QED BY <2>2
  <1>6. CASE MarkHeld(t) \/ SfFree(t) \/ RecordScaleformAlloc(t)
    BY <1>6, ReturnIs, IdleIs DEF MarkHeld, SfFree, RecordScaleformAlloc
  <1>7. CASE \E b \in Blocks : HkSfAlloc(t, b) \/ HkSfFree(t, b)
    <2>1. \E l \in {"record", "free", "count", "markFreed"} : me'[t].pc = l
      BY <1>7 DEF HkSfAlloc, HkSfFree, TypeOK, LocalFields
    <2> QED BY <2>1
  <1>8. CASE \E b \in Blocks : Fault(t, b)
    BY <1>8, FaultIs
  <1> QED BY <1>1, <1>2, <1>3, <1>4, <1>5, <1>6, <1>7, <1>8, Zenon DEF Step, Pop, Reserve, Publish

\* Only a death is counted as one.
LEMMA DeathsCounted ==
    ASSUME TypeOK, Undying, NEW t \in Threads,
           \/ Step(t) \/ Die(t)
           \/ \E b \in Blocks : HkSfAlloc(t, b) \/ HkSfFree(t, b) \/ Fault(t, b)
    PROVE  DOMAIN used' = {"frees", "faults", "deaths"} /\ used'.deaths \in Nat
  <1>1. CASE Die(t) \/ \E b \in Blocks : HkSfFree(t, b) \/ Fault(t, b)
    <2>1. \E n \in {"frees", "faults"} : used' = [used EXCEPT ![n] = @ + 1]
          \/ used' = [used EXCEPT !.deaths = @ + 1]
      BY <1>1 DEF Die, HkSfFree, Fault
    <2>2. CASE \E n \in {"frees", "faults"} : used' = [used EXCEPT ![n] = @ + 1]
      BY <2>2 DEF Undying
    <2>3. CASE used' = [used EXCEPT !.deaths = @ + 1]
      BY <2>3 DEF Undying
    <2> QED BY <2>1, <2>2, <2>3
  <1>2. CASE used' = used
    BY <1>2 DEF Undying
  <1> QED
    BY <1>1, <1>2, Zenon DEF Step, Pop, Reserve, Publish, HkSfAlloc, LoadCountWrite, LoadCountRead,
       Budget, LoadPopRead, LoadPopWrite, LoadV1, CopyOut, LoadV2, PopCas, LoadPopBytes, PopSub, Drain,
       LoadReserveWrite, LoadReserveRead, ReserveCas, PoisonBlock, TakeSeq, StoreOdd, CopyIn,
       StoreEven, AddBytes, MarkHeld, MarkFreed, SfFree, RecordScaleformAlloc

\* With no deaths to come nobody dies.
LEMMA UndyingStep ==
    ASSUME TypeOK, TypeOK', Undying, [Next]_vars
    PROVE  Undying'
  <1>1. CASE UNCHANGED vars
    BY <1>1 DEF Undying, vars
  <1>2. ASSUME NEW t \in Threads,
               \/ Step(t) \/ Die(t)
               \/ \E b \in Blocks : HkSfAlloc(t, b) \/ HkSfFree(t, b) \/ Fault(t, b)
        PROVE  Undying'
    <2>1. DOMAIN used' = {"frees", "faults", "deaths"} /\ used'.deaths \in Nat
      BY <1>2, DeathsCounted
    <2>2. Others(t) /\ setup' = setup
      BY <1>2, OneStep
    <2>3. ASSUME setup.deaths = 0, NEW u \in Threads PROVE me'[u].pc # "dead"
      <3>1. CASE u # t
        BY <2>2, <2>3, <3>1 DEF Undying, Others
      <3>2. CASE u = t
        <4>1. ~Die(t)
          BY <2>3 DEF Die, Undying
        <4> QED BY <1>2, <3>2, <4>1, StepLives
      <3> QED BY <3>1, <3>2
    <2> QED BY <2>1, <2>2, <2>3 DEF Undying
  <1> QED BY <1>1, <1>2, WhoseStep, Zenon

\* Every step keeps them all.
LEMMA SpecInv == Spec => []Inv
  <1>1. Inv /\ [Next]_vars => Inv'
    BY TypeStep, CursorStep, AloneStep, UndyingStep DEF Inv
  <1> QED BY InitInv, <1>1, PTL DEF Spec

\* Where one thread frees, it is somebody.
LEMMA TheFreer ==
    ASSUME TypeOK, OneFreer
    PROVE  \E f \in Threads : setup.hooked = {f}
  <1>1. setup.hooked \in SUBSET Threads
    BY Constants DEF TypeOK
  <1>2. IsFiniteSet(setup.hooked)
    BY <1>1, FS_Subset, QuarantineAssumption
  <1>3. PICK f : setup.hooked = {f}
    BY <1>2, FS_Singleton DEF OneFreer
  <1> QED BY <1>1, <1>3

(***************************************************************************)
(* What the runs check, for every value of the constants                   *)
(***************************************************************************)
\* However many threads free and drain, and whichever are terminated in a call,
\* the reservations outstanding never exceed the ring and no drain passes them:
\* Reserve and PopOldest read the two cursors at different times.
THEOREM SpecCursorsBounded == Spec => []CursorsBounded
  <1>1. Inv => CursorsBounded
    BY DEF Inv, CursorInv
  <1> QED BY SpecInv, <1>1, PTL

\* One freeing thread, any number that fault, in a ring of any size: PopOldest
\* gives out a block that is withheld, and to one drain.
THEOREM SpecDrainsHeldAlone == Spec => []DrainsHeldAlone
  <1>1. Inv => DrainsHeldAlone
    <2> SUFFICES ASSUME Inv, OneFreer, NEW t \in Threads, Popped(t)
                 PROVE  /\ me[t].copy["ptr"] \in Blocks /\ mem[me[t].copy["ptr"]] = "held"
                        /\ \A u \in Threads : Popped(u) => u = t
      BY DEF DrainsHeldAlone, DrainsHeld
    <2>1. PICK f \in Threads : setup.hooked = {f} /\ Alone(f)
      BY TheFreer DEF Inv, AloneInv
    <2>2. \A u \in Threads : Popped(u) => u = f
      BY <2>1 DEF Alone, Readers, Popped, Reading
    <2> QED BY <2>1, <2>2 DEF Alone, Popping
  <1> QED BY SpecInv, <1>1, PTL

\* A withheld block is in the part of the ring that will be drained or in the
\* drainer's hands, as long as nobody is terminated: a thread killed between
\* PopOldest and the real free takes its block with it.
THEOREM SpecNoneSkipped == Spec => [](setup.deaths = 0 => NoneSkipped)
  <1>1. Inv => (setup.deaths = 0 => NoneSkipped)
    <2> SUFFICES ASSUME Inv, setup.deaths = 0, OneFreer, NEW b \in Blocks, mem[b] = "held"
                 PROVE  \/ \E n \in q.read .. q.write - 1 : InSlot(b, IndexOf(n))
                        \/ \E t \in Threads : Popped(t) /\ me[t].copy["ptr"] = b
      BY DEF NoneSkipped
    <2>1. PICK f \in Threads : setup.hooked = {f} /\ Alone(f)
      BY TheFreer DEF Inv, AloneInv
    <2>2. me[f].pc # "dead"
      BY DEF Inv, Undying
    <2>3. CASE Popped(f) /\ me[f].copy["ptr"] = b
      BY <2>3
    <2>4. CASE \E n \in q.read .. Last(f) - 1 : HeldAt(b, n)
      <3>1. PICK n \in q.read .. q.write - 1 : HeldAt(b, n)
        BY <2>4 DEF Last, Inv, TypeOK, CursorFields
      <3>2. InSlot(b, IndexOf(n))
        BY <2>1, <3>1 DEF Alone, Led, HeldAt
      <3> QED BY <3>1, <3>2
    <2> QED BY <2>1, <2>2, <2>3, <2>4 DEF Alone, Found
  <1> QED BY SpecInv, <1>1, PTL

\* The poison in a withheld block leads to its own record, and a lookup that
\* accepts its copy, whatever is freed meanwhile, has a whole record.
THEOREM SpecPoisonLeadsToRecord == Spec => []PoisonLeadsToRecord
  <1>1. Inv => PoisonLeadsToRecord
    <2> SUFFICES ASSUME Inv, OneFreer
                 PROVE  /\ \A b \in Blocks : mem[b] = "held" => poison[b] # 0 /\ InSlot(b, poison[b])
                        /\ \A t \in Threads : me[t].pc = "v2" /\ Accepts(me[t]) =>
                                me[t].copy["ptr"] = me[t].copy["rest"]
      BY DEF PoisonLeadsToRecord
    <2>1. PICK f \in Threads : setup.hooked = {f} /\ Alone(f)
      BY TheFreer DEF Inv, AloneInv
    <2>2. Led
      BY <2>1 DEF Alone
    <2>3. ASSUME NEW t \in Threads, me[t].pc = "v2", Accepts(me[t])
          PROVE  me[t].copy["ptr"] = me[t].copy["rest"]
      <3>1. me[t].index \in Indexes
        BY <2>3 DEF Inv, TypeOK, LocalFields, Reading
      <3>2. Readable(slot[me[t].index].version) /\ me[t].left = {}
        BY <2>1, <2>3 DEF Alone, Copied, Accepts
      <3>3. slot[me[t].index].rec["ptr"] = slot[me[t].index].rec["rest"]
        BY <2>1, <3>1, <3>2 DEF Alone, Whole
      <3>4. \A x \in Words : me[t].copy[x] = slot[me[t].index].rec[x]
        BY <2>1, <2>3, <3>2 DEF Alone, Copied
      <3> QED BY <3>3, <3>4 DEF Words
    <2> QED BY <2>2, <2>3 DEF Led
  <1> QED BY SpecInv, <1>1, PTL

\* A block the game owns is not recorded as freed: the ledger is told of a free
\* only while the block is the hook's or withheld.
THEOREM SpecLiveNotMarkedFreed == Spec => []LiveNotMarkedFreed
  <1>1. Inv => LiveNotMarkedFreed
    <2> SUFFICES ASSUME Inv, OneFreer PROVE Told
      BY DEF LiveNotMarkedFreed, Told
    <2>1. PICK f \in Threads : setup.hooked = {f} /\ Alone(f)
      BY TheFreer DEF Inv, AloneInv
    <2> QED BY <2>1 DEF Alone
  <1> QED BY SpecInv, <1>1, PTL

(***************************************************************************)
(* The byte account                                                        *)
(***************************************************************************)
(* What the freeing thread f has counted: what is held, but for a block       *)
(* published and not yet counted, or subtracted and not yet freed.            *)
Uncounted(f) == {b \in Blocks : \/ me[f].pc = "addBytes" /\ me[f].block = b
                                \/ me[f].pc = "drain" /\ me[f].copy["ptr"] = b}
Held == {b \in Blocks : mem[b] = "held"}
Counted(f) == Held \ Uncounted(f)
SizeOf == [b \in Blocks |-> Size(b)]
Account(f) == me[f].pc # "dead" =>
    /\ q.bytes = Sum(SizeOf, Counted(f))
    /\ Popped(f) => me[f].copy["rest"] = me[f].copy["ptr"]
    /\ me[f].pc = "popSub" => me[f].sub = Size(me[f].copy["ptr"])
Accounts == \A f \in Threads : setup.hooked = {f} => Account(f)

\* The library's sum of the sizes of some blocks.
LEMMA HeldSum ==
    ASSUME NEW s \in SUBSET Blocks
    PROVE  MapThenSumSet(Size, s) = Sum(SizeOf, s)
  <1>1. MapThenSumSet(Size, s)
        = (CHOOSE g : g = [u \in SUBSET s |->
                IF u = {} THEN 0 ELSE Size(First(u)) + g[u \ {First(u)}]])[s]
    BY DEF MapThenSumSet, MapThenFoldSet, First
  <1>2. ASSUME NEW u \in SUBSET s, u # {} PROVE Size(First(u)) = SizeOf[First(u)]
    BY <1>2, FirstIn DEF SizeOf
  <1>3. ASSUME NEW g
        PROVE  [u \in SUBSET s |-> IF u = {} THEN 0 ELSE Size(First(u)) + g[u \ {First(u)}]]
               = [u \in SUBSET s |-> IF u = {} THEN 0 ELSE SizeOf[First(u)] + g[u \ {First(u)}]]
    BY <1>2
  <1>4. (CHOOSE g : g = [u \in SUBSET s |->
                IF u = {} THEN 0 ELSE Size(First(u)) + g[u \ {First(u)}]]) = Sums(SizeOf, s)
    BY <1>3, Zenon DEF Sums
  <1> QED BY <1>1, <1>4 DEF Sum

\* The sizes of blocks add up to less than std::size_t counts.
LEMMA SizesFit ==
    /\ IsFiniteSet(Blocks) /\ SizeOf \in [Blocks -> Int] /\ \A b \in Blocks : SizeOf[b] = Size(b)
    /\ \A b \in Blocks : Size(b) \in Nat
    /\ WordSize \in Nat /\ Sum(SizeOf, Blocks) < WordSize
  <1>1. /\ IsFiniteSet(Blocks) /\ WordSize \in Nat /\ \A b \in Blocks : Size(b) \in Nat
    BY AddressSpace, QuarantineAssumption
  <1>2. SizeOf \in [Blocks -> Int] /\ \A b \in Blocks : SizeOf[b] = Size(b)
    BY <1>1 DEF SizeOf
  <1>3. MapThenSumSet(Size, Blocks) = Sum(SizeOf, Blocks)
    BY HeldSum
  <1> QED BY <1>1, <1>2, <1>3, AddressSpace


\* What f has counted is part of the blocks: the sum is a number that fits.
LEMMA CountedFits ==
    ASSUME NEW s \in SUBSET Blocks
    PROVE  /\ Sum(SizeOf, s) \in Nat /\ Sum(SizeOf, s) < WordSize
           /\ \A b \in s : /\ Size(b) <= Sum(SizeOf, s)
                           /\ Sum(SizeOf, s \ {b}) = Sum(SizeOf, s) - Size(b)
           /\ \A b \in Blocks \ s : Sum(SizeOf, s \cup {b}) = Sum(SizeOf, s) + Size(b)
  <1>1. PICK h \in [Blocks -> Int] : h = SizeOf /\ \A b \in Blocks : h[b] = Size(b) /\ h[b] \in Nat
    BY SizesFit
  <1>2. IsFiniteSet(Blocks) /\ WordSize \in Nat /\ Sum(h, Blocks) < WordSize
    BY <1>1, SizesFit
  <1>3. ASSUME NEW u \in SUBSET Blocks PROVE Sum(h, u) \in Int /\ 0 <= Sum(h, u)
    <2>1. Sum(h, u) \in Int
      BY <1>2, SumOfPart
    <2>2. \A x \in Blocks : h[x] >= 0
      BY <1>1
    <2>3. PICK w \in SUBSET Blocks : w = Blocks /\ u \in SUBSET w
      OBVIOUS
    <2>4. 0 <= Sum(h, u)
      BY <1>2, <2>2, <2>3, SumGrows
    <2> QED BY <2>1, <2>4
  <1>4. Sum(h, s) <= Sum(h, Blocks)
    <2>1. \A x \in Blocks : h[x] >= 0
      BY <1>1
    <2>2. PICK w \in SUBSET Blocks : w = Blocks /\ s \in SUBSET w
      OBVIOUS
    <2>3. Sum(h, s) <= Sum(h, w)
      BY <1>2, <2>1, <2>2, SumGrows
    <2> QED BY <2>2, <2>3
  <1>5. Sum(h, s) \in Nat /\ Sum(h, s) < WordSize
    <2>1. Sum(h, Blocks) \in Int
      BY <1>3
    <2> QED BY <1>2, <1>3, <1>4, <2>1
  <1>6. ASSUME NEW b \in s
        PROVE  Size(b) <= Sum(h, s) /\ Sum(h, s \ {b}) = Sum(h, s) - Size(b)
    <2>1. Sum(h, s) = h[b] + Sum(h, s \ {b})
      BY <1>2, SumWithout
    <2>2. s \ {b} \in SUBSET Blocks /\ b \in Blocks
      OBVIOUS
    <2>3. Sum(h, s \ {b}) \in Int /\ 0 <= Sum(h, s \ {b})
      BY <1>3, <2>2
    <2> QED BY <1>1, <1>5, <2>1, <2>2, <2>3
  <1>7. ASSUME NEW b \in Blocks \ s PROVE Sum(h, s \cup {b}) = Sum(h, s) + Size(b)
    <2>1. Sum(h, s \cup {b}) = h[b] + Sum(h, s)
      BY <1>2, SumWith
    <2> QED BY <1>1, <1>5, <2>1
  <1> QED BY <1>1, <1>5, <1>6, <1>7

\* A step that leaves the account and the withheld blocks alone.
LEMMA AccountStays ==
    ASSUME NEW f \in Threads, Account(f), q'.bytes = q.bytes,
           \A b \in Blocks : mem'[b] = "held" <=> mem[b] = "held",
           me[f].pc \notin {"addBytes", "drain", "dead"},
           me'[f].pc \notin {"addBytes", "drain", "popBytes", "popSub"}
    PROVE  Account(f)'
  <1>1. Counted(f)' = Counted(f)
    BY DEF Counted, Held, Uncounted
  <1> QED BY <1>1 DEF Account, Popped, SizeOf

\* The steps that have no part in it, and what they leave.
LEMMA NoAccount ==
    ASSUME TypeOK, TypeOK', NEW f \in Threads, Alone(f),
           \/ LoadCountWrite(f) \/ LoadCountRead(f) \/ Budget(f) \/ LoadPopRead(f) \/ LoadPopWrite(f)
           \/ LoadV1(f) \/ CopyOut(f) \/ LoadV2(f) \/ LoadReserveWrite(f) \/ LoadReserveRead(f)
           \/ ReserveCas(f) \/ PoisonBlock(f) \/ TakeSeq(f) \/ StoreOdd(f) \/ CopyIn(f) \/ MarkFreed(f)
    PROVE  /\ q'.bytes = q.bytes /\ mem' = mem
           /\ me[f].pc \notin {"addBytes", "drain", "dead"}
           /\ me'[f].pc \notin {"addBytes", "drain", "popBytes", "popSub"}
  <1>1. CASE LoadCountWrite(f) \/ LoadCountRead(f) \/ Budget(f) \/ LoadPopRead(f) \/ LoadPopWrite(f)
    <2>1. UNCHANGED <<q, mem>>
      BY <1>1 DEF LoadCountWrite, LoadCountRead, Budget, LoadPopRead, LoadPopWrite
    <2> QED BY <1>1, <2>1, LoadCountWriteIs, LoadCountReadIs, BudgetIs, LoadPopReadIs, LoadPopWriteIs
  <1>2. CASE LoadV1(f) \/ CopyOut(f) \/ LoadV2(f) \/ LoadReserveWrite(f)
    <2>1. UNCHANGED <<q, mem>>
      BY <1>2 DEF LoadV1, CopyOut, LoadV2, LoadReserveWrite
    <2> QED BY <1>2, <2>1, LoadV1Is, CopyOutIs, LoadV2Is, LoadReserveWriteIs, IdleIs
  <1>3. CASE LoadReserveRead(f) \/ PoisonBlock(f) \/ MarkFreed(f)
    <2>1. UNCHANGED <<q, mem>> /\ me[f].pc \in {"reserveRead", "poison", "markFreed"}
      BY <1>3 DEF LoadReserveRead, PoisonBlock, MarkFreed
    <2>2. PICK l \in {"markFreed", "reserveCas", "seq", "free"} : Goto(f, l)
      BY <1>3 DEF LoadReserveRead, PoisonBlock, MarkFreed
    <2>3. me'[f].pc = l
      BY <2>2 DEF Goto, TypeOK, LocalFields
    <2> QED BY <2>1, <2>3
  <1>4. CASE ReserveCas(f)
    <2>1. mem' = mem /\ \/ q' = q
                        \/ q' = [q EXCEPT !.write = @ + 1]
      BY <1>4 DEF ReserveCas
    <2>2. q'.bytes = q.bytes
      BY <2>1 DEF TypeOK, CursorFields
    <2> QED BY <1>4, <2>1, <2>2, ReserveCasIs
  <1>5. CASE TakeSeq(f)
    <2>1. mem' = mem /\ q' = [q EXCEPT !.seq = @ + 1]
      BY <1>5 DEF TakeSeq
    <2>2. q'.bytes = q.bytes
      BY <2>1 DEF TypeOK, CursorFields
    <2> QED BY <1>5, <2>1, <2>2, TakeSeqIs
  <1>6. CASE StoreOdd(f) \/ CopyIn(f)
    <2>1. UNCHANGED <<q, mem>>
      BY <1>6 DEF StoreOdd, CopyIn
    <2> QED BY <1>6, <2>1, StoreOddIs, CopyInIs
  <1> QED BY <1>1, <1>2, <1>3, <1>4, <1>5, <1>6

\* The ends of calls and their beginnings.
LEMMA CallAccount ==
    ASSUME TypeOK, TypeOK', NEW f \in Threads, Alone(f), Account(f),
           \/ MarkHeld(f) \/ SfFree(f) \/ RecordScaleformAlloc(f)
           \/ \E b \in Blocks : HkSfAlloc(f, b) \/ HkSfFree(f, b) \/ Fault(f, b)
    PROVE  Account(f)'
  <1>1. CASE MarkHeld(f) \/ SfFree(f) \/ RecordScaleformAlloc(f)
    <2>1. q' = q /\ me[f].pc \in {"markHeld", "free", "record"} /\ Return(f)
      BY <1>1 DEF MarkHeld, SfFree, RecordScaleformAlloc
    <2>2. me'[f].pc = "idle"
      BY <2>1, ReturnIs, IdleIs
    <2>3. \A b \in Blocks : mem'[b] = "held" <=> mem[b] = "held"
      <3>1. CASE MarkHeld(f)
        BY <3>1 DEF MarkHeld
      <3>2. CASE SfFree(f) \/ RecordScaleformAlloc(f)
        <4>1. me[f].pc \in {"free", "record"}
          BY <3>2 DEF SfFree, RecordScaleformAlloc
        <4>2. mem[me[f].block] = "hook"
          BY <4>1 DEF Alone, Holding, Withheld, Reading
        <4>3. \E o \in {"free", "live"} : mem' = [mem EXCEPT ![me[f].block] = o]
          BY <3>2 DEF SfFree, RecordScaleformAlloc
        <4> QED BY <4>2, <4>3 DEF TypeOK
      <3> QED BY <1>1, <3>1, <3>2
    <2> QED BY <2>1, <2>2, <2>3, AccountStays
  <1>2. ASSUME NEW b \in Blocks, HkSfAlloc(f, b) \/ HkSfFree(f, b) PROVE Account(f)'
    <2>1. /\ q' = q /\ me[f].pc = "idle" /\ mem[b] \in {"free", "live"}
          /\ mem' = [mem EXCEPT ![b] = "hook"]
      BY <1>2 DEF HkSfAlloc, HkSfFree
    <2>2. me'[f].pc \in {"record", "free", "count", "markFreed"}
      BY <1>2 DEF HkSfAlloc, HkSfFree, TypeOK, LocalFields
    <2>3. \A c \in Blocks : mem'[c] = "held" <=> mem[c] = "held"
      BY <2>1 DEF TypeOK
    <2> QED BY <2>1, <2>2, <2>3, AccountStays
  <1>3. ASSUME NEW b \in Blocks, Fault(f, b) PROVE Account(f)'
    <2>1. q' = q /\ mem' = mem /\ me[f].pc = "idle" /\ me'[f].pc = "v1"
      BY <1>3, FaultIs
    <2> QED BY <2>1, AccountStays
  <1> QED BY <1>1, <1>2, <1>3

\* The record that is popped is whole.
LEMMA PopCasAccount ==
    ASSUME TypeOK, TypeOK', NEW f \in Threads, Alone(f), Account(f), PopCas(f)
    PROVE  Account(f)'
  <1>1. /\ mem' = mem /\ me[f].pc = "popCas" /\ me'[f].copy = me[f].copy
        /\ me'[f].pc \in {"popBytes", "popRead"}
    BY PopCasIs DEF PopCas, SameRest
  <1>2. q'.bytes = q.bytes
    <2>1. q' = q \/ q' = [q EXCEPT !.read = @ + 1]
      BY PopCasIs
    <2> QED BY <2>1 DEF TypeOK, CursorFields
  <1>3. Counted(f)' = Counted(f)
    BY <1>1 DEF Counted, Held, Uncounted
  <1>4. me[f].copy["rest"] = me[f].copy["ptr"]
    <2>1. ~me[f].fault
      BY <1>1 DEF Alone, Holding, Reading
    <2>2. /\ me[f].r = q.read /\ me[f].r < q.write /\ me[f].index = IndexOf(me[f].r)
          /\ me[f].copy = slot[me[f].index].rec
      BY <1>1, <2>1 DEF Alone, Popping
    <2>3. PICK b \in Blocks : InSlot(b, IndexOf(q.read))
      BY <1>1, <2>2, OldestReadable DEF Filling
    <2> QED BY <2>2, <2>3 DEF InSlot, Words
  <1> QED BY <1>1, <1>2, <1>3, <1>4 DEF Account, Popped, SizeOf

\* A block that is popped has been counted.
LEMMA PoppedCounted ==
    ASSUME TypeOK, NEW f \in Threads, Alone(f), Account(f), me[f].pc \in {"popBytes", "popSub"}
    PROVE  /\ me[f].copy["ptr"] \in Counted(f) /\ me[f].copy["rest"] = me[f].copy["ptr"]
           /\ q.bytes = Sum(SizeOf, Counted(f)) /\ Counted(f) \in SUBSET Blocks
           /\ Counted(f) = Held
  <1>1. me[f].copy["ptr"] \in Held
    BY DEF Alone, Popping, Popped, Held
  <1>2. Counted(f) = Held
    BY DEF Counted, Uncounted
  <1> QED BY <1>1, <1>2 DEF Account, Popped, Held

\* What is subtracted is the block's size: its bytes are in the account.
LEMMA PopBytesAccount ==
    ASSUME TypeOK, TypeOK', NEW f \in Threads, Alone(f), Account(f), LoadPopBytes(f)
    PROVE  Account(f)'
  <1>1. /\ q' = q /\ mem' = mem /\ me[f].pc = "popBytes" /\ me'[f].copy = me[f].copy
        /\ me'[f].pc = "popSub"
    BY LoadPopBytesIs DEF LoadPopBytes
  <1>2. PICK b \in Blocks, n \in Nat : /\ b = me[f].copy["ptr"] /\ b = me[f].copy["rest"] /\ n = q.bytes
                                      /\ Size(b) <= n /\ Size(b) \in Nat
    <2>1. /\ me[f].copy["ptr"] \in Counted(f) /\ me[f].copy["rest"] = me[f].copy["ptr"]
          /\ q.bytes = Sum(SizeOf, Counted(f)) /\ Counted(f) \in SUBSET Blocks
      BY <1>1, PoppedCounted
    <2> QED BY <2>1, CountedFits, SizesFit
  <1>3. me'[f].sub = Size(b)
    <2>1. me'[f].sub = Subtrahend(Size(b), n)
      BY <1>2 DEF LoadPopBytes, TypeOK, LocalFields
    <2> QED BY <1>2, <2>1 DEF Subtrahend
  <1>4. Counted(f)' = Counted(f)
    BY <1>1 DEF Counted, Held, Uncounted
  <1> QED BY <1>1, <1>2, <1>3, <1>4 DEF Account, Popped, SizeOf

\* The popped block's bytes leave the account.
LEMMA PopSubAccount ==
    ASSUME TypeOK, TypeOK', NEW f \in Threads, Alone(f), Account(f), PopSub(f)
    PROVE  Account(f)'
  <1>1. /\ mem' = mem /\ me[f].pc = "popSub" /\ me'[f].copy = me[f].copy /\ me'[f].pc = "drain"
    <2>1. mem' = mem /\ me[f].pc = "popSub" /\ Goto(f, "drain")
      BY DEF PopSub
    <2> QED BY <2>1, MoveIs DEF SameRest
  <1>2. /\ me[f].copy["ptr"] \in Counted(f) /\ me[f].copy["rest"] = me[f].copy["ptr"]
        /\ q.bytes = Sum(SizeOf, Counted(f)) /\ Counted(f) \in SUBSET Blocks /\ Counted(f) = Held
    BY <1>1, PoppedCounted
  <1>3. PICK b \in Blocks, n \in Nat, k \in Nat, w \in Nat :
            /\ b = me[f].copy["ptr"] /\ n = q.bytes /\ k = Size(b) /\ k <= n /\ w = WordSize /\ n < w
    BY <1>2, CountedFits, SizesFit
  <1>4. me[f].sub = k
    BY <1>1, <1>3 DEF Account
  <1>5. q'.bytes = n - k
    <2>1. q'.bytes = (w + n - k) % w
      BY <1>3, <1>4 DEF PopSub, TypeOK, CursorFields
    <2>2. w + n - k = w + (n - k) /\ n - k \in Nat /\ n - k < w
      BY <1>3
    <2>3. PICK d \in Nat : d = n - k
      BY <2>2
    <2>4. (w + d) % w = d
      BY <2>2, <2>3
    <2> QED BY <2>1, <2>2, <2>3, <2>4
  <1>6. Counted(f)' = Counted(f) \ {b}
    BY <1>1, <1>2, <1>3 DEF Counted, Held, Uncounted
  <1>7. Sum(SizeOf, Counted(f) \ {b}) = n - k
    BY <1>2, <1>3, CountedFits
  <1>8. SizeOf' = SizeOf
    BY DEF SizeOf
  <1> QED BY <1>1, <1>2, <1>5, <1>6, <1>7, <1>8 DEF Account, Popped

\* The real free of a block that is no longer in the account.
LEMMA DrainAccount ==
    ASSUME TypeOK, TypeOK', NEW f \in Threads, Alone(f), Account(f), Drain(f)
    PROVE  Account(f)'
  <1>1. q' = q /\ me[f].pc = "drain" /\ me'[f].pc = "count"
    BY DrainIs DEF Drain
  <1>2. PICK b \in Blocks : b = me[f].copy["ptr"]
    BY <1>1 DEF Alone, Popping, Popped
  <1>3. PICK fate \in {"free", "leaked"} : mem' = [mem EXCEPT ![b] = fate]
    BY <1>2 DEF Drain
  <1>4. \A c \in Blocks : mem'[c] = "held" <=> mem[c] = "held" /\ c # b
    BY <1>3 DEF TypeOK
  <1>5. Counted(f)' = Counted(f)
    BY <1>1, <1>2, <1>4 DEF Counted, Held, Uncounted
  <1> QED BY <1>1, <1>5 DEF Account, Popped, SizeOf

\* A block is withheld before its bytes are counted.
LEMMA StoreEvenAccount ==
    ASSUME TypeOK, TypeOK', NEW f \in Threads, Alone(f), Account(f), StoreEven(f)
    PROVE  Account(f)'
  <1>1. /\ q' = q /\ me[f].pc = "even" /\ Goto(f, "addBytes")
        /\ mem' = [mem EXCEPT ![me[f].block] = "held"]
    BY DEF StoreEven
  <1>2. me'[f].pc = "addBytes" /\ me'[f].block = me[f].block
    BY <1>1, MoveIs
  <1>3. me[f].block \in Blocks /\ mem[me[f].block] = "hook"
    BY <1>1, FillingHas DEF Filling
  <1>4. \A c \in Blocks : mem'[c] = "held" <=> mem[c] = "held" \/ c = me[f].block
    BY <1>1, <1>3 DEF TypeOK
  <1>5. Counted(f)' = Counted(f)
    BY <1>1, <1>2, <1>3, <1>4 DEF Counted, Held, Uncounted
  <1> QED BY <1>1, <1>2, <1>5 DEF Account, Popped, SizeOf

\* Its bytes are counted.
LEMMA AddBytesAccount ==
    ASSUME TypeOK, TypeOK', NEW f \in Threads, Alone(f), Account(f), AddBytes(f)
    PROVE  Account(f)'
  <1>1. /\ mem' = mem /\ me[f].pc = "addBytes" /\ Goto(f, "markHeld")
        /\ q' = [q EXCEPT !.bytes = (@ + Size(me[f].block)) % WordSize]
    BY DEF AddBytes
  <1>2. me'[f].pc = "markHeld" /\ me'[f].block = me[f].block
    BY <1>1, MoveIs
  <1>3. PICK b \in Blocks : b = me[f].block /\ mem[b] = "held"
    <2>1. ~me[f].fault
      BY <1>1 DEF Alone, Holding, Reading
    <2> QED BY <1>1, <2>1 DEF Alone, Holding, Withheld, TypeOK, LocalFields
  <1>4. Counted(f) \in SUBSET Blocks /\ b \in Blocks \ Counted(f) /\ Counted(f)' = Counted(f) \cup {b}
    BY <1>1, <1>2, <1>3 DEF Counted, Held, Uncounted
  <1>5. PICK n \in Nat, k \in Nat, w \in Nat : n = q.bytes /\ k = Size(b) /\ w = WordSize
    <2>1. q.bytes = Sum(SizeOf, Counted(f))
      BY <1>1 DEF Account
    <2> QED BY <1>4, <2>1, CountedFits, SizesFit
  <1>6. Sum(SizeOf, Counted(f)') = n + k /\ n + k < w
    <2>1. q.bytes = Sum(SizeOf, Counted(f))
      BY <1>1 DEF Account
    <2>2. Sum(SizeOf, Counted(f) \cup {b}) = n + k
      BY <1>4, <1>5, <2>1, CountedFits
    <2>3. PICK s \in SUBSET Blocks : s = Counted(f) \cup {b}
      BY <1>4
    <2>4. Sum(SizeOf, s) < WordSize
      BY CountedFits
    <2> QED BY <1>4, <1>5, <2>2, <2>3, <2>4
  <1>7. q'.bytes = n + k
    <2>1. q'.bytes = (n + k) % w
      BY <1>1, <1>3, <1>5 DEF TypeOK, CursorFields
    <2>2. PICK d \in Nat : d = n + k /\ d < w
      BY <1>6
    <2>3. d % w = d
      BY <2>2
    <2> QED BY <2>1, <2>2, <2>3
  <1>8. SizeOf' = SizeOf
    BY DEF SizeOf
  <1> QED BY <1>2, <1>6, <1>7, <1>8 DEF Account, Popped

\* The freeing thread's steps keep its account, and nobody else touches it.
LEMMA AccountStep ==
    ASSUME TypeOK, TypeOK', AloneInv, Accounts, [Next]_vars
    PROVE  Accounts'
  <1>1. CASE UNCHANGED vars
    <2>1. UNCHANGED <<setup, q, mem, me>>
      BY <1>1 DEF vars
    <2>2. \A f \in Threads : Counted(f)' = Counted(f) /\ (Popped(f)' <=> Popped(f))
      BY <2>1 DEF Counted, Held, Uncounted, Popped
    <2> QED BY <2>1, <2>2 DEF Accounts, Account, SizeOf
  <1>2. ASSUME NEW t \in Threads,
               \/ Step(t) \/ Die(t) \/ \E b \in Blocks : Fault(t, b)
               \/ t \in setup.hooked /\ \E b \in Blocks : HkSfAlloc(t, b) \/ HkSfFree(t, b)
        PROVE  Accounts'
    <2>1. setup' = setup /\ Others(t)
      BY <1>2, OneStep
    <2> SUFFICES ASSUME NEW f \in Threads, setup.hooked = {f} PROVE Account(f)'
      BY <2>1 DEF Accounts
    <2>2. Alone(f) /\ Account(f)
      BY DEF AloneInv, Accounts
    <2>3. CASE t # f
      <3>1. me[t].pc \in {"idle", "dead"} \cup Reading
        BY <2>2, <2>3 DEF Alone, Readers
      <3>2. LoadV1(t) \/ CopyOut(t) \/ LoadV2(t) \/ Die(t) \/ \E b \in Blocks : Fault(t, b)
        BY <1>2, <2>3, <3>1, ReadSteps
      <3>3. UNCHANGED <<q, mem>>
        BY <3>2 DEF LoadV1, CopyOut, LoadV2, Die, Fault
      <3>4. me'[f] = me[f]
        BY <2>1, <2>3 DEF Others
      <3>5. Counted(f)' = Counted(f) /\ (Popped(f)' <=> Popped(f))
        BY <3>3, <3>4 DEF Counted, Held, Uncounted, Popped
      <3> QED BY <2>2, <3>3, <3>4, <3>5 DEF Account, SizeOf
    <2>4. CASE Die(f)
      <3>1. me'[f].pc = "dead"
        BY <2>4 DEF Die, TypeOK, LocalFields
      <3> QED BY <3>1 DEF Account
    <2>5. CASE \/ MarkHeld(f) \/ SfFree(f) \/ RecordScaleformAlloc(f)
               \/ \E b \in Blocks : HkSfAlloc(f, b) \/ HkSfFree(f, b) \/ Fault(f, b)
      BY <2>2, <2>5, CallAccount
    <2>6. CASE PopCas(f) \/ LoadPopBytes(f) \/ PopSub(f) \/ Drain(f)
      BY <2>2, <2>6, PopCasAccount, PopBytesAccount, PopSubAccount, DrainAccount
    <2>7. CASE StoreEven(f) \/ AddBytes(f)
      BY <2>2, <2>7, StoreEvenAccount, AddBytesAccount
    <2>8. CASE \/ LoadCountWrite(f) \/ LoadCountRead(f) \/ Budget(f) \/ LoadPopRead(f)
               \/ LoadPopWrite(f) \/ LoadV1(f) \/ CopyOut(f) \/ LoadV2(f) \/ LoadReserveWrite(f)
               \/ LoadReserveRead(f) \/ ReserveCas(f) \/ PoisonBlock(f) \/ TakeSeq(f)
               \/ StoreOdd(f) \/ CopyIn(f) \/ MarkFreed(f)
      BY <2>2, <2>8, NoAccount, AccountStays
    <2> QED BY <1>2, <2>3, <2>4, <2>5, <2>6, <2>7, <2>8, Zenon DEF Step, Pop, Reserve, Publish
  <1> QED BY <1>1, <1>2, WhoseStep

\* Nothing is held at first, and the account is empty.
LEMMA InitAccounts == Init => Accounts
  <1> SUFFICES ASSUME Init, NEW f \in Threads PROVE Account(f)
    BY DEF Accounts
  <1>1. q.bytes = 0 /\ me[f].pc = "idle"
    BY IdleIs DEF Init
  <1>2. Counted(f) = {}
    BY DEF Init, Counted, Held
  <1>3. Sum(SizeOf, {}) = 0
    BY SizesFit, SumOfNone
  <1> QED BY <1>1, <1>2, <1>3 DEF Account, Popped

\* One freeing thread, any number that fault, any heap that may be gone and any
\* budget: between calls the byte account is the sum of the sizes of what is
\* withheld.  In a call it is so but for the one block in hand.
THEOREM SpecBytesExact == Spec => []BytesExact
  <1>1. Inv /\ [Next]_vars /\ Inv' /\ Accounts => Accounts'
    BY AccountStep DEF Inv
  <1>2. Inv /\ Accounts => BytesExact
    <2> SUFFICES ASSUME Inv, Accounts, OneFreer, \A t \in Threads : me[t].pc = "idle"
                 PROVE  q.bytes = MapThenSumSet(Size, {b \in Blocks : mem[b] = "held"})
      BY DEF BytesExact
    <2>1. PICK f \in Threads : Account(f)
      BY TheFreer DEF Inv, Accounts
    <2>2. Counted(f) = {b \in Blocks : mem[b] = "held"}
      BY DEF Counted, Held, Uncounted
    <2>3. q.bytes = Sum(SizeOf, Counted(f))
      BY <2>1 DEF Account
    <2>4. Counted(f) \in SUBSET Blocks
      BY <2>2
    <2> QED BY <2>2, <2>3, <2>4, HeldSum
  <1> QED BY SpecInv, InitAccounts, <1>1, <1>2, PTL DEF Spec
=============================================================================
