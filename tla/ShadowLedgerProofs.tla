------------------------ MODULE ShadowLedgerProofs ------------------------
(* For every number of threads, keys, cells and calls: one writer per entry, *)
(* whole entries, no probe that stops short of its key, no eviction of a live*)
(* block's record; and, with one writing thread, an implementation of a map. *)
EXTENDS LedgerRefines, Integers, TLAPS

(* The locals of a call, field by field (the provers take a record apart more *)
(* easily than they find it in the set of records Local).                     *)
Fields(m) ==
    /\ DOMAIN m = DOMAIN Idle
    /\ m.pc \in {"idle", "version", "key", "flags", "victim", "claim", "cas", "recheck",
                 "setKey", "copyIn", "copyOut", "tombstone", "publish", "v2", "count"}
    /\ m.op \in {"none", "insert", "find", "erase"}
    /\ m.key \in Keys \cup {Empty} /\ m.rec \in Records /\ m.ok \in BOOLEAN
    /\ m.index \in Cells \cup {NoCell} /\ m.probe \in Nat /\ m.version \in Nat
    /\ m.firstTombstone \in Cells \cup {NoCell} /\ m.firstFreed \in Cells \cup {NoCell}
    /\ m.place \in {"match", "tombstone", "empty", "freed"}
    /\ m.expected \in Nat /\ m.attempt \in Nat /\ m.onEmpty \in BOOLEAN
    /\ m.copy \in [Words -> Records] /\ m.left \in SUBSET Words

TypeOK ==
    /\ entry \in [Cells -> Entry]
    /\ info \in [Cells -> [Words -> Records]]
    /\ bloom \subseteq Keys /\ stat \in Stat
    /\ DOMAIN me = Threads /\ \A t \in Threads : Fields(me[t])
    /\ used \in [calls : 0 .. MaxCalls, by : [Threads -> SUBSET {"insert", "find", "erase"}]]

(* A thread that has claimed its entry and not yet published it.             *)
Writing(t) == \/ me[t].pc \in {"recheck", "setKey", "copyIn", "tombstone", "publish"}
              \/ me[t].pc = "copyOut" /\ me[t].op = "erase"

(* A cell that no probe stops at any more; it never closes again.            *)
Opened(i) == ~Closed(i)
Taken(i) == entry[i].key # Empty

(* Cell i lies in the window of k and nothing before it stops a probe.       *)
PathTo(k, d) == \A e \in 0 .. d - 1 : Opened(Window(k, e))
Reachable(k, i) == \E d \in 0 .. MaxProbe - 1 : Window(k, d) = i /\ PathTo(k, d)

(* What a call has in hand, per thread.                                      *)
Working(t) == me[t].pc # "idle" =>
    /\ me[t].index \in Cells /\ me[t].key \in Keys /\ me[t].op # "none"
    /\ me[t].op = "insert" => me[t].rec.ptr \in Keys
    /\ me[t].pc \in {"flags", "victim", "recheck", "setKey", "copyIn"} => me[t].op = "insert"
    /\ me[t].pc \in {"claim", "cas"} => me[t].op \in {"insert", "erase"}
    /\ me[t].pc \in {"claim", "cas"} /\ me[t].op = "erase" => me[t].place = "match"
    /\ me[t].pc \in {"victim", "recheck", "setKey"} => me[t].place # "match"
    /\ me[t].pc = "v2" => me[t].op = "find"
    /\ me[t].pc = "copyOut" => me[t].op # "insert"
    /\ me[t].pc = "tombstone" => me[t].op = "erase"

(* The versions a thread holds are even: it took them from an entry nobody   *)
(* was writing, so an exchange on one of them meets no other owner and a     *)
(* Publish from one of them releases the entry.                              *)
EvenVersions(t) == ~Odd(me[t].version) /\ ~Odd(me[t].expected)

(* An owner sees its entry as owned.                                         *)
OwnsOdd(t) == Writing(t) => Odd(entry[me[t].index].version)

(* What was matched, rechecked or copied is not an empty cell.               *)
StillTaken(t) ==
    /\ me[t].pc \in {"flags", "copyIn", "copyOut", "tombstone", "publish"} => Taken(me[t].index)
    /\ me[t].pc \in {"claim", "cas"} /\ me[t].place = "match" => Taken(me[t].index)

(* What the recheck saw holds until the key is stored.                       *)
StillFreed(t) ==
    me[t].pc = "setKey" => (entry[me[t].index].key \in Keys => Freed(me[t].index))

(* The words an owner has stored are its record's.                           *)
Stored(t) ==
    me[t].pc = "copyIn" => \A w \in Words \ me[t].left : info[me[t].index][w] = me[t].rec

(* An Insert on its way through the window passed only opened cells, and the *)
(* cells it remembers, or takes, are reachable for its key.                  *)
Probing(t) ==
    me[t].op = "insert" =>
        /\ me[t].pc \in {"version", "key", "flags"} =>
            /\ me[t].probe < MaxProbe /\ me[t].index = Window(me[t].key, me[t].probe)
            /\ PathTo(me[t].key, me[t].probe)
            /\ me[t].firstTombstone # NoCell => Reachable(me[t].key, me[t].firstTombstone)
            /\ me[t].firstFreed # NoCell => Reachable(me[t].key, me[t].firstFreed)
        /\ \/ me[t].pc \in {"victim", "recheck", "setKey"}
           \/ me[t].pc \in {"claim", "cas"} /\ me[t].place # "match"
           => Reachable(me[t].key, me[t].index)

Fit(t) == /\ Working(t) /\ EvenVersions(t) /\ OwnsOdd(t) /\ StillTaken(t)
          /\ StillFreed(t) /\ Stored(t) /\ Probing(t)

(* Cell by cell.                                                             *)
Exclusive == \A t, u \in Threads : Writing(t) /\ Writing(u) /\ me[t].index = me[u].index => t = u
Owned(i) == Odd(entry[i].version) => \E t \in Threads : Writing(t) /\ me[t].index = i
WholeCell(i) == info[i]["body"] = info[i]["flags"] /\ info[i]["body"] # NoRecord
Copying(i) == \E t \in Threads : me[t].pc = "copyIn" /\ me[t].index = i
Kept(i) == entry[i].key \in Keys => WholeCell(i) \/ Copying(i)
Sound(i) == Owned(i) /\ Kept(i) /\ \A k \in Keys : entry[i].key = k => Reachable(k, i)

IInv == /\ TypeOK /\ Exclusive
        /\ \A t \in Threads : Fit(t)
        /\ \A i \in Cells : Sound(i)

----------------------------------------------------------------------------
\* A claim adds one to an even version, a Publish makes it even again.
LEMMA Parity ==
    ASSUME NEW v \in Nat
    PROVE  /\ Odd(v) => ~Odd(v + 1)
           /\ ~Odd(v) => Odd(v + 1) /\ ~Odd(v + 2)
  BY DEF Odd

\* What the assumptions say of the constants, in the form the steps need it.
LEMMA Constants ==
    /\ Capacity \in Nat /\ Capacity > 0 /\ MaxProbe \in Nat /\ MaxProbe > 0
    /\ \A k \in Keys : Mix(k) \in Cells /\ k # Empty /\ k # Tombstone
    /\ Empty # Tombstone /\ MaxCalls \in Nat
    /\ NoRecord \in Records /\ Whole(NoRecord) \in [Words -> Records]
    /\ NoCell \notin Cells /\ Cells \subseteq Nat
  BY LedgerAssumption DEF Cells, NoCell, NoRecord, Records, Whole

\* A thread between calls.
LEMMA IdleType == Fields(Idle)
  BY Constants DEF Idle, Fields, Whole

\* The empty table.
LEMMA InitType == Init => TypeOK
  <1> SUFFICES ASSUME Init PROVE TypeOK
    OBVIOUS
  <1>1. entry \in [Cells -> Entry] /\ info \in [Cells -> [Words -> Records]]
    BY Constants DEF Init, Entry
  <1>2. DOMAIN me = Threads /\ \A t \in Threads : Fields(me[t])
    BY IdleType DEF Init
  <1>3. bloom \subseteq Keys /\ stat \in Stat
    BY DEF Init, Stat
  <1>4. used \in [calls : 0 .. MaxCalls, by : [Threads -> SUBSET {"insert", "find", "erase"}]]
    BY LedgerAssumption DEF Init
  <1> QED BY <1>1, <1>2, <1>3, <1>4 DEF TypeOK

\* A call that returns leaves well-typed locals.
LEMMA ReturnedType ==
    ASSUME NEW m, Fields(m), NEW ok \in BOOLEAN, NEW rec \in Records
    PROVE  Fields(Returned(m, ok, rec))
  BY IdleType DEF Returned, Fields, Idle

\* One thread's locals change, to well-typed ones.
LocalsType == DOMAIN me = Threads /\ \A t \in Threads : Fields(me[t])

\* Changing the locals of one thread to well-typed ones.
LEMMA SetLocals ==
    ASSUME LocalsType, NEW t \in Threads, NEW m, Fields(m), me' = [me EXCEPT ![t] = m]
    PROVE  LocalsType'
  <1>1. \A u \in Threads : me'[u] = IF u = t THEN m ELSE me[u]
    BY DEF LocalsType
  <1>2. \A u \in Threads : Fields(me'[u])
    BY <1>1 DEF LocalsType
  <1> QED BY <1>2 DEF LocalsType

\* The three counters.
LEMMA StatType ==
    ASSUME stat \in Stat
    PROVE  /\ [stat EXCEPT !.failures = @ + 1] \in Stat
           /\ [stat EXCEPT !.drops = @ + 1] \in Stat
           /\ [stat EXCEPT !.count = @ + 1] \in Stat
  BY DEF Stat

\* A failed Insert, the next probe: the helpers that end or continue a call.
LEMMA FailedType ==
    ASSUME LocalsType, stat \in Stat, NEW t \in Threads, Failed(t)
    PROVE  LocalsType' /\ stat' \in Stat
  <1>1. Fields(Returned(me[t], FALSE, me[t].rec))
    <2>1. Fields(me[t]) /\ me[t].rec \in Records BY DEF LocalsType, Fields
    <2> QED BY <2>1, ReturnedType
  <1>2. LocalsType'
    BY <1>1, SetLocals DEF Failed
  <1> QED BY <1>2, StatType DEF Failed

\* The next cell is a cell, and a victim is one of the remembered cells.
LEMMA NextProbeType ==
    ASSUME LocalsType, stat \in Stat, NEW t \in Threads,
           NEW m, Fields(m), m.index \in Cells, NextProbe(t, m)
    PROVE  LocalsType' /\ stat' \in Stat
  <1>1. PICK j \in Cells : j = (m.index + 1) % Capacity
    BY Constants DEF Cells
  <1>2. CASE m.probe + 1 < MaxProbe
    <2> DEFINE n == [m EXCEPT !.pc = "version", !.probe = @ + 1, !.index = j,
                              !.onEmpty = FALSE]
    <2>1. Fields(n)
      BY DEF Fields, Idle
    <2>2. me' = [me EXCEPT ![t] = n] /\ stat' = stat
      BY <1>1, <1>2 DEF NextProbe
    <2> QED BY <2>1, <2>2, SetLocals
  <1>3. CASE ~(m.probe + 1 < MaxProbe)
    <2>1. Fields(Returned(m, FALSE, NoRecord))
      BY Constants, ReturnedType
    <2>2. Fields(AtVictim(m, m.firstTombstone, "tombstone"))
          /\ Fields(AtVictim(m, m.firstFreed, "freed"))
      BY DEF AtVictim, Fields, Idle
    <2>3. CASE Failed(t)
      BY <2>3, FailedType
    <2>4. CASE ~Failed(t)
      <3>1. \/ me' = [me EXCEPT ![t] = Returned(m, FALSE, NoRecord)] /\ stat' = stat
            \/ me' = [me EXCEPT ![t] = AtVictim(m, m.firstTombstone, "tombstone")] /\ stat' = stat
            \/ me' = [me EXCEPT ![t] = AtVictim(m, m.firstFreed, "freed")] /\ stat' = stat
        BY <1>3, <2>4 DEF NextProbe
      <3> QED BY <2>1, <2>2, <3>1, SetLocals
    <2> QED BY <2>3, <2>4
  <1> QED BY <1>2, <1>3

----------------------------------------------------------------------------
\* What one step leaves of the types, action by action.
Types == LocalsType /\ stat \in Stat /\ entry \in [Cells -> Entry]
         /\ info \in [Cells -> [Words -> Records]]

\* Where a matched, a claimed and an empty cell send a call.
LEMMA MatchedType ==
    ASSUME NEW m, Fields(m)
    PROVE  Fields(Matched(m)) /\ Fields(Claimed(m)) /\ Fields(EmptyTarget(m))
  BY DEF Matched, Claimed, EmptyTarget, AtVictim, Fields, Idle

\* A call starts with its arguments and empty locals.
LEMMA CallType ==
    ASSUME TypeOK, NEW t \in Threads, NEW k \in Keys, NEW freed \in BOOLEAN,
           NEW op \in {"insert", "find", "erase"}, Call(t, op, k, freed)
    PROVE  TypeOK'
  <1>1. LocalsType /\ stat \in Stat
    BY DEF TypeOK, LocalsType
  <1>2. used' \in [calls : 0 .. MaxCalls, by : [Threads -> SUBSET {"insert", "find", "erase"}]]
    BY Constants DEF Call, TypeOK
  <1>3. bloom' \subseteq Keys
    BY DEF Call, TypeOK, AddToBloom
  <1> DEFINE rec == IF op = "insert" THEN [ptr |-> k, n |-> used.calls + 1, freed |-> freed]
                                     ELSE NoRecord
             m == [Idle EXCEPT !.op = op, !.key = k, !.rec = rec]
  <1>4. rec \in Records
    BY Constants DEF Call, TypeOK, Records
  <1>5. Fields(m)
    <2> HIDE DEF rec
    <2> QED BY <1>4, IdleType DEF Fields, Idle
  <1>6. \/ me' = [me EXCEPT ![t] = [m EXCEPT !.pc = "version", !.index = Mix(k)]]
        \/ me' = [me EXCEPT ![t] = Returned(m, FALSE, NoRecord)]
    <2>1. PICK maybe \in MightContain(op, k) :
            me' = [me EXCEPT ![t] = IF maybe THEN [m EXCEPT !.pc = "version", !.index = Mix(k)]
                                             ELSE Returned(m, FALSE, NoRecord)]
      BY DEF Call
    <2> HIDE DEF m
    <2> QED BY <2>1
  <1>7. Fields([m EXCEPT !.pc = "version", !.index = Mix(k)])
    <2> HIDE DEF m
    <2> QED BY <1>5, Constants DEF Fields, Idle
  <1>8. Fields(Returned(m, FALSE, NoRecord))
    BY <1>5, Constants, ReturnedType
  <1>9. LocalsType'
    <2> HIDE DEF m
    <2> QED BY <1>1, <1>6, <1>7, <1>8, SetLocals
  <1> QED BY <1>1, <1>2, <1>3, <1>9 DEF Call, TypeOK, LocalsType

\* The reading steps.
LEMMA ProbeType ==
    ASSUME Types, NEW t \in Threads, Working(t),
           LoadVersion(t) \/ LoadKey(t) \/ LoadFlags(t) \/ LoadV2(t) \/ CopyOut(t)
    PROVE  Types'
  <1>0. LocalsType /\ stat \in Stat /\ Fields(me[t])
    BY DEF Types, LocalsType
  <1>1. CASE LoadVersion(t)
    <2>1. me[t].index \in Cells /\ entry[me[t].index].version \in Nat
      BY <1>1 DEF LoadVersion, Working, Types, Entry
    <2>2. CASE NextProbe(t, me[t])
      BY <1>0, <1>1, <2>1, <2>2, NextProbeType DEF LoadVersion, Types
    <2>3. CASE ~NextProbe(t, me[t])
      <3> DEFINE m == [me[t] EXCEPT !.version = entry[me[t].index].version, !.pc = "key"]
      <3>1. me' = [me EXCEPT ![t] = m] /\ stat' = stat
        BY <1>1, <2>3 DEF LoadVersion
      <3>2. Fields(m) BY <1>0, <2>1 DEF Fields, Idle
      <3>3. LocalsType' BY <1>0, <3>1, <3>2, SetLocals
      <3> QED BY <1>0, <1>1, <3>1, <3>3 DEF LoadVersion, Types
    <2> QED BY <2>2, <2>3
  <1>2. CASE LoadKey(t)
    <2> DEFINE m == me[t]
    <2>1. m.index \in Cells
      BY <1>2 DEF LoadKey, Working
    <2>2. UNCHANGED <<entry, info>> BY <1>2 DEF LoadKey
    <2>3. CASE \E n : (n = m \/ n = [m EXCEPT !.firstTombstone = FirstOf(@, m.index)])
                       /\ NextProbe(t, n)
      <3>1. PICK n : (n = m \/ n = [m EXCEPT !.firstTombstone = FirstOf(@, m.index)])
                     /\ NextProbe(t, n)
        BY <2>3
      <3>2. Fields(n) /\ n.index \in Cells
        BY <1>0, <2>1, <3>1 DEF Fields, Idle, FirstOf
      <3> QED BY <1>0, <2>2, <3>1, <3>2, NextProbeType DEF Types
    <2>4. CASE ~\E n : (n = m \/ n = [m EXCEPT !.firstTombstone = FirstOf(@, m.index)])
                       /\ NextProbe(t, n)
      <3>1. \E n : me' = [me EXCEPT ![t] = n] /\ stat' = stat /\ Fields(n)
        <4>1. Fields(Matched(m)) /\ Fields(EmptyTarget(m)) /\ Fields(Returned(m, FALSE, NoRecord))
          BY <1>0, Constants, MatchedType, ReturnedType
        <4>2. Fields([m EXCEPT !.pc = "v2", !.onEmpty = TRUE]) /\ Fields([m EXCEPT !.pc = "flags"])
          BY <1>0 DEF Fields, Idle
        <4>3. stat' = stat /\
              \/ me' = [me EXCEPT ![t] = Matched(m)]
              \/ me' = [me EXCEPT ![t] = CASE m.op = "insert" -> EmptyTarget(m)
                           [] m.op = "find"   -> [m EXCEPT !.pc = "v2", !.onEmpty = TRUE]
                           [] m.op = "erase"  -> Returned(m, FALSE, NoRecord)]
              \/ me' = [me EXCEPT ![t].pc = "flags"]
          BY <1>2, <2>4 DEF LoadKey, OnTombstone
        <4>4. m.op \in {"insert", "find", "erase"}
          BY <1>0, <1>2 DEF LoadKey, Working, Fields
        <4>5. \E n : Fields(n) /\ me' = [me EXCEPT ![t] = n]
          <5> HIDE DEF m
          <5>1. CASE me' = [me EXCEPT ![t].pc = "flags"]
            BY <4>2, <5>1 DEF m
          <5> QED BY <4>1, <4>2, <4>3, <4>4, <5>1
        <4> QED BY <4>3, <4>5
      <3> QED BY <1>0, <2>2, <3>1, SetLocals DEF Types
    <2> QED BY <2>3, <2>4
  <1>3. CASE LoadFlags(t)
    <2>1. me[t].index \in Cells
      BY <1>3 DEF LoadFlags, Working
    <2> DEFINE n == IF Freed(me[t].index)
                    THEN [me[t] EXCEPT !.firstFreed = FirstOf(@, me[t].index)] ELSE me[t]
    <2>2. Fields(n) /\ n.index \in Cells
      BY <1>0, <2>1 DEF Fields, Idle, FirstOf
    <2>3. NextProbe(t, n) BY <1>3 DEF LoadFlags
    <2> HIDE DEF n
    <2> QED BY <1>0, <1>3, <2>2, <2>3, NextProbeType DEF LoadFlags, Types
  <1>4. CASE LoadV2(t)
    <2>1. me[t].index \in Cells
      BY <1>4 DEF LoadV2, Working
    <2>2. CASE NextProbe(t, me[t])
      BY <1>0, <1>4, <2>1, <2>2, NextProbeType DEF LoadV2, Types
    <2>3. CASE ~NextProbe(t, me[t])
      <3>1. Copied(me[t]) \in Records
        BY <1>0 DEF Copied, Fields, Words, Records
      <3>2. Fields(Returned(me[t], Accepts(me[t]), IF Accepts(me[t]) THEN Copied(me[t]) ELSE NoRecord))
            /\ Fields(Returned(me[t], FALSE, NoRecord))
        BY <1>0, <3>1, Constants, ReturnedType DEF Accepts
      <3>3. stat' = stat /\ \E n : Fields(n) /\ me' = [me EXCEPT ![t] = n]
        BY <1>4, <2>3, <3>2 DEF LoadV2
      <3> QED BY <1>0, <1>4, <3>3, SetLocals DEF LoadV2, Types
    <2> QED BY <2>2, <2>3
  <1>5. CASE CopyOut(t)
    <2>1. me[t].index \in Cells
      BY <1>5 DEF CopyOut, Working
    <2>2. PICK w \in me[t].left :
            me' = [me EXCEPT ![t].copy[w] = info[me[t].index][w], ![t].left = @ \ {w},
                         ![t].pc = IF me[t].left # {w} THEN @
                                   ELSE IF me[t].op = "find" THEN "v2" ELSE "tombstone"]
      BY <1>5 DEF CopyOut
    <2>3. w \in Words BY <1>0 DEF Fields
    <2>4. info[me[t].index][w] \in Records BY <2>1, <2>3 DEF Types
    <2> DEFINE m == [me[t] EXCEPT !.copy[w] = info[me[t].index][w], !.left = @ \ {w},
                         !.pc = IF me[t].left # {w} THEN @
                                ELSE IF me[t].op = "find" THEN "v2" ELSE "tombstone"]
    <2>5. Fields(m) BY <1>0, <2>3, <2>4 DEF Fields, Idle
    <2>6. me' = [me EXCEPT ![t] = m] BY <2>2
    <2> HIDE DEF m
    <2> QED BY <1>0, <1>5, <2>5, <2>6, SetLocals DEF CopyOut, Types
  <1> QED BY <1>1, <1>2, <1>3, <1>4, <1>5

\* The stores into an entry.
LEMMA EntryType ==
    ASSUME entry \in [Cells -> Entry], NEW i \in Cells, NEW v \in Nat,
           NEW k \in Keys \cup {Empty, Tombstone}
    PROVE  /\ [entry EXCEPT ![i].version = v] \in [Cells -> Entry]
           /\ [entry EXCEPT ![i].key = k] \in [Cells -> Entry]
  BY DEF Entry

\* What Publish stores is a version.
LEMMA NextVersionType ==
    ASSUME Types, NEW t \in Threads, me[t].index \in Cells
    PROVE  NextVersion(me[t]) \in Nat
  BY DEF Types, LocalsType, Fields, NextVersion, Entry

\* Another attempt at the claim, or the call is dropped.
LEMMA RelaxType ==
    ASSUME LocalsType, stat \in Stat, NEW t \in Threads, Relax(t)
    PROVE  LocalsType' /\ stat' \in Stat
  <1>1. Fields(me[t]) BY DEF LocalsType
  <1>2. CASE me[t].attempt + 1 < ClaimAttempts
    <2> DEFINE m == [me[t] EXCEPT !.pc = "claim", !.attempt = @ + 1]
    <2>1. Fields(m) BY <1>1 DEF Fields, Idle
    <2>2. me' = [me EXCEPT ![t] = m] /\ stat' = stat BY <1>2 DEF Relax
    <2> QED BY <2>1, <2>2, SetLocals
  <1>3. CASE ~(me[t].attempt + 1 < ClaimAttempts)
    <2>1. Fields(Returned(me[t], FALSE, me[t].rec))
      BY <1>1, ReturnedType DEF Fields
    <2>2. LocalsType' BY <1>3, <2>1, SetLocals DEF Relax
    <2> QED BY <1>3, <2>2, StatType DEF Relax
  <1> QED BY <1>2, <1>3

\* The writing steps.
LEMMA WriteType ==
    ASSUME Types, NEW t \in Threads, Working(t), Write(t)
    PROVE  Types'
  <1>0. LocalsType /\ stat \in Stat /\ entry \in [Cells -> Entry] /\ Fields(me[t])
    BY DEF Types, LocalsType
  <1>i. me[t].index \in Cells /\ me[t].key \in Keys
    BY DEF Write, LoadVictim, ClaimLoad, ClaimCas, Recheck, SetKey, CopyIn, SetTombstone,
           Publish, CountEntry, Working
  <1>v. entry[me[t].index].version \in Nat /\ NextVersion(me[t]) \in Nat
    BY <1>0, <1>i, NextVersionType DEF Entry
  <1>1. CASE LoadVictim(t)
    <2>1. LocalsType' /\ stat' \in Stat
      <3>1. CASE Failed(t) BY <1>0, <3>1, FailedType
      <3>2. CASE ~Failed(t)
        <4> DEFINE m == [me[t] EXCEPT !.pc = "claim"]
        <4>1. Fields(m) BY <1>0 DEF Fields, Idle
        <4>2. me' = [me EXCEPT ![t] = m] /\ stat' = stat BY <1>1, <3>2 DEF LoadVictim
        <4> QED BY <1>0, <4>1, <4>2, SetLocals
      <3> QED BY <3>1, <3>2
    <2> QED BY <1>1, <2>1 DEF LoadVictim, Types
  <1>2. CASE ClaimLoad(t)
    <2>1. LocalsType' /\ stat' \in Stat
      <3>1. CASE Relax(t) BY <1>0, <3>1, RelaxType
      <3>2. CASE ~Relax(t)
        <4> DEFINE m == [me[t] EXCEPT !.expected = entry[me[t].index].version, !.pc = "cas"]
        <4>1. Fields(m) BY <1>0, <1>v DEF Fields, Idle
        <4>2. me' = [me EXCEPT ![t] = m] /\ stat' = stat BY <1>2, <3>2 DEF ClaimLoad
        <4> QED BY <1>0, <4>1, <4>2, SetLocals
      <3> QED BY <3>1, <3>2
    <2> QED BY <1>2, <2>1 DEF ClaimLoad, Types
  <1>3. CASE ClaimCas(t)
    <2>1. CASE Exchanges(me[t].index, me[t].expected)
      <3>1. me[t].expected + 1 \in Nat BY <1>0 DEF Fields
      <3>2. Fields(Claimed(me[t])) BY <1>0, MatchedType
      <3>3. entry' \in [Cells -> Entry]
        <4>1. entry' = [entry EXCEPT ![me[t].index].version = me[t].expected + 1]
          BY <1>3, <2>1 DEF ClaimCas
        <4> DEFINE v == me[t].expected + 1
        <4> HIDE DEF v
        <4>2. v \in Nat /\ entry' = [entry EXCEPT ![me[t].index].version = v]
          BY <3>1, <4>1 DEF v
        <4> QED BY <1>0, <1>i, <4>2, EntryType
      <3>4. LocalsType' BY <1>0, <1>3, <2>1, <3>2, SetLocals DEF ClaimCas
      <3> QED BY <1>3, <2>1, <3>3, <3>4 DEF ClaimCas, Types
    <2>2. CASE ~Exchanges(me[t].index, me[t].expected)
      BY <1>0, <1>3, <2>2, RelaxType DEF ClaimCas, Types
    <2> QED BY <2>1, <2>2
  <1>4. CASE Recheck(t)
    <2>1. CASE MayTake(me[t].index, me[t].place)
      <3> DEFINE m == [me[t] EXCEPT !.pc = "setKey", !.onEmpty = entry[me[t].index].key = Empty]
      <3>1. Fields(m) BY <1>0 DEF Fields, Idle
      <3>2. me' = [me EXCEPT ![t] = m] /\ stat' = stat BY <1>4, <2>1 DEF Recheck
      <3>3. LocalsType' BY <1>0, <3>1, <3>2, SetLocals
      <3> QED BY <1>4, <2>1, <3>2, <3>3 DEF Recheck, Types
    <2>2. CASE ~MayTake(me[t].index, me[t].place)
      <3>1. entry' = [entry EXCEPT ![me[t].index].version = NextVersion(me[t])]
            /\ Failed(t) /\ info' = info
        BY <1>4, <2>2 DEF Recheck
      <3>2. entry' \in [Cells -> Entry] BY <1>0, <1>i, <1>v, <3>1, EntryType
      <3> QED BY <1>0, <3>1, <3>2, FailedType DEF Types
    <2> QED BY <2>1, <2>2
  <1>5. CASE SetKey(t)
    <2> DEFINE m == [me[t] EXCEPT !.pc = "copyIn", !.left = Words]
    <2>1. Fields(m) BY <1>0 DEF Fields, Idle
    <2>2. me' = [me EXCEPT ![t] = m] BY <1>5 DEF SetKey
    <2>3. LocalsType' BY <1>0, <2>1, <2>2, SetLocals
    <2>4. entry' \in [Cells -> Entry] BY <1>0, <1>i, <1>5, EntryType DEF SetKey
    <2> QED BY <1>5, <2>3, <2>4 DEF SetKey, Types
  <1>6. CASE CopyIn(t)
    <2>1. PICK w \in me[t].left :
            /\ info' = [info EXCEPT ![me[t].index][w] = me[t].rec]
            /\ me' = [me EXCEPT ![t].left = @ \ {w},
                                ![t].pc = IF me[t].left = {w} THEN "publish" ELSE @]
      BY <1>6 DEF CopyIn
    <2> DEFINE m == [me[t] EXCEPT !.left = @ \ {w},
                                  !.pc = IF me[t].left = {w} THEN "publish" ELSE @]
    <2>2. Fields(m) BY <1>0 DEF Fields, Idle
    <2>3. me' = [me EXCEPT ![t] = m] BY <2>1
    <2>4. LocalsType' BY <1>0, <2>2, <2>3, SetLocals
    <2>5. me[t].rec \in Records /\ w \in Words BY <1>0 DEF Fields
    <2>6. info' \in [Cells -> [Words -> Records]]
      BY <1>i, <2>1, <2>5 DEF Types
    <2> QED BY <1>6, <2>4, <2>6 DEF CopyIn, Types
  <1>7. CASE SetTombstone(t)
    <2> DEFINE m == [me[t] EXCEPT !.pc = "publish"]
    <2>1. Fields(m) BY <1>0 DEF Fields, Idle
    <2>2. me' = [me EXCEPT ![t] = m] BY <1>7 DEF SetTombstone
    <2>3. LocalsType' BY <1>0, <2>1, <2>2, SetLocals
    <2>4. entry' \in [Cells -> Entry] BY <1>0, <1>i, <1>7, EntryType DEF SetTombstone
    <2> QED BY <1>7, <2>3, <2>4 DEF SetTombstone, Types
  <1>8. CASE Publish(t)
    <2>1. Fields([me[t] EXCEPT !.pc = "count"]) BY <1>0 DEF Fields, Idle
    <2>2. Answer(me[t]) \in Records
      BY <1>0 DEF Answer, Copied, Fields, Words, Records
    <2>3. Fields(Returned(me[t], TRUE, Answer(me[t]))) BY <1>0, <2>2, ReturnedType
    <2>4. \E m : Fields(m) /\ me' = [me EXCEPT ![t] = m] BY <1>8, <2>1, <2>3 DEF Publish
    <2>5. LocalsType' BY <1>0, <2>4, SetLocals
    <2>6. entry' \in [Cells -> Entry] BY <1>0, <1>i, <1>v, <1>8, EntryType DEF Publish
    <2> QED BY <1>8, <2>5, <2>6 DEF Publish, Types
  <1>9. CASE CountEntry(t)
    <2>1. Fields(Returned(me[t], TRUE, me[t].rec)) BY <1>0, ReturnedType DEF Fields
    <2>2. LocalsType' BY <1>0, <1>9, <2>1, SetLocals DEF CountEntry
    <2> QED BY <1>0, <1>9, <2>2, StatType DEF CountEntry, Types
  <1> QED BY <1>1, <1>2, <1>3, <1>4, <1>5, <1>6, <1>7, <1>8, <1>9 DEF Write

\* Every step keeps the types, given that a thread in a call has a cell in hand.
LEMMA NextType ==
    ASSUME TypeOK, \A t \in Threads : Working(t), [Next]_vars
    PROVE  TypeOK'
  <1>1. ASSUME NEW t \in Threads, Step(t) PROVE TypeOK'
    <2>1. Types BY DEF TypeOK, Types, LocalsType
    <2>2. Types' BY <1>1, <2>1, ProbeType, WriteType DEF Step
    <2>3. UNCHANGED <<bloom, used>>
      BY <1>1 DEF Step, LoadVersion, LoadKey, LoadFlags, CopyOut, LoadV2, Write, LoadVictim,
                  ClaimLoad, ClaimCas, Recheck, SetKey, CopyIn, SetTombstone, Publish, CountEntry
    <2> QED BY <2>2, <2>3 DEF TypeOK, Types, LocalsType
  <1>2. ASSUME NEW t \in Threads, NEW k \in Keys, NEW freed \in BOOLEAN, NEW op \in used.by[t],
               Call(t, op, k, freed)
        PROVE  TypeOK'
    <2>1. op \in {"insert", "find", "erase"} BY <1>2 DEF TypeOK
    <2> QED BY <1>2, <2>1, CallType
  <1>3. CASE UNCHANGED vars BY <1>3 DEF vars, TypeOK
  <1> QED BY <1>1, <1>2, <1>3 DEF Next, Finished

----------------------------------------------------------------------------
\* The remainder is determined by the quotient and the bound.
LEMMA Remainder ==
    ASSUME NEW c \in Nat \ {0}, NEW q \in Nat, NEW r \in 0 .. c - 1
    PROVE  (c * q + r) % c = r
  <1> DEFINE n == c * q + r
  <1>0. n \in Nat OBVIOUS
  <1>1. n = c * (n \div c) + (n % c) /\ n % c \in 0 .. c - 1 /\ n \div c \in Int
    BY <1>0
  <1> DEFINE p == n \div c   s == n % c
  <1>2. p \in Int /\ s \in 0 .. c - 1 /\ c * p + s = c * q + r
    BY <1>1
  <1> HIDE DEF p, s, n
  <1>3. c * (p - q) = r - s
    BY <1>2
  <1>4. ~ (p - q >= 1)
    <2> SUFFICES ASSUME p - q >= 1 PROVE FALSE
      OBVIOUS
    <2>1. c * (p - q) >= c BY <1>2
    <2> QED BY <1>2, <1>3, <2>1
  <1>5. ~ (p - q <= -1)
    <2> SUFFICES ASSUME p - q <= -1 PROVE FALSE
      OBVIOUS
    <2>1. c * (p - q) <= -c BY <1>2
    <2> QED BY <1>2, <1>3, <2>1
  <1>6. p = q BY <1>2, <1>4, <1>5
  <1>7. s = r BY <1>2, <1>6
  <1> QED BY <1>7 DEF s, n

\* One cell further around the shard, by uniqueness of the remainder.
LEMMA ModStep ==
    ASSUME NEW n \in Nat, NEW c \in Nat \ {0}
    PROVE  ((n % c) + 1) % c = (n + 1) % c
  <1>1. PICK q \in Nat, r \in 0 .. c - 1 : n = c * q + r /\ n % c = r
    <2>1. n \div c \in Nat /\ n % c \in 0 .. c - 1 /\ n = c * (n \div c) + (n % c)
      OBVIOUS
    <2> QED BY <2>1
  <1>2. CASE r + 1 < c
    <2>1. r + 1 \in 0 .. c - 1 /\ n + 1 = c * q + (r + 1) BY <1>1, <1>2
    <2>2. (n + 1) % c = r + 1 BY <2>1, Remainder
    <2>3. (r + 1) % c = r + 1 BY <1>2
    <2> QED BY <1>1, <2>2, <2>3
  <1>3. CASE r + 1 = c
    <2>1. 0 \in 0 .. c - 1 /\ q + 1 \in Nat /\ n + 1 = c * (q + 1) + 0 /\ c = c * 1 + 0 BY <1>1, <1>3
    <2>2. (n + 1) % c = 0 BY <2>1, Remainder
    <2>3. c % c = 0 BY <2>1, Remainder
    <2> QED BY <1>1, <1>3, <2>2, <2>3
  <1> QED BY <1>2, <1>3

\* The probe loop goes through the cells of the window in order.
LEMMA WindowStep ==
    ASSUME NEW k \in Keys, NEW d \in Nat
    PROVE  /\ Window(k, d) \in Cells
           /\ (Window(k, d) + 1) % Capacity = Window(k, d + 1)
           /\ Window(k, 0) = Mix(k)
  <1>1. Mix(k) \in Nat /\ Mix(k) < Capacity /\ Mix(k) + d \in Nat /\ Capacity \in Nat \ {0}
    BY Constants DEF Cells
  <1>2. Mix(k) % Capacity = Mix(k) /\ (Mix(k) + d) % Capacity \in Cells
    BY <1>1 DEF Cells
  <1>3. (((Mix(k) + d) % Capacity) + 1) % Capacity = ((Mix(k) + d) + 1) % Capacity
    BY <1>1, ModStep
  <1>4. (Mix(k) + d) + 1 = Mix(k) + (d + 1) /\ Mix(k) + 0 = Mix(k)
    BY <1>1
  <1> QED BY <1>2, <1>3, <1>4 DEF Window

----------------------------------------------------------------------------
\* What a step does to the table as far as other threads can tell: nothing
\* opened closes again, nothing taken becomes empty.
Forward == \A i \in Cells : (Opened(i) => Opened(i)') /\ (Taken(i) => Taken(i)')
Spared(u) == Writing(u) => /\ entry'[me[u].index] = entry[me[u].index]
                           /\ info'[me[u].index] = info[me[u].index]

\* What is reachable stays reachable.
LEMMA PathStays ==
    ASSUME Forward, NEW k \in Keys
    PROVE  /\ \A d \in Nat : PathTo(k, d) => PathTo(k, d)'
           /\ \A i : Reachable(k, i) => Reachable(k, i)'
  <1>1. \A d \in Nat : PathTo(k, d) => PathTo(k, d)'
    <2> SUFFICES ASSUME NEW d \in Nat, PathTo(k, d), NEW e \in 0 .. d - 1
                 PROVE  Opened(Window(k, e))'
      BY DEF PathTo
    <2>1. Window(k, e) \in Cells /\ Opened(Window(k, e)) BY WindowStep DEF PathTo
    <2> DEFINE i == Window(k, e)
    <2>2. Opened(i)' BY <2>1 DEF Forward
    <2> QED BY <2>2
  <1>2. ASSUME NEW i, Reachable(k, i) PROVE Reachable(k, i)'
    <2>1. PICK d \in 0 .. MaxProbe - 1 : Window(k, d) = i /\ PathTo(k, d)
      BY <1>2 DEF Reachable
    <2>2. d \in Nat BY Constants
    <2>3. PathTo(k, d)' BY <1>1, <2>1, <2>2
    <2> QED BY <2>1, <2>3 DEF Reachable
  <1> QED BY <1>1, <1>2

\* A thread that does not move keeps what it has in hand.
LEMMA OthersFit ==
    ASSUME NEW u \in Threads, Fields(me[u]), Fit(u), me'[u] = me[u], Forward, Spared(u)
    PROVE  Fit(u)'
  <1>1. Working(u)' /\ EvenVersions(u)' BY DEF Fit, Working, EvenVersions
  <1>2. Writing(u)' <=> Writing(u) BY DEF Writing
  <1>3. OwnsOdd(u)' BY <1>2 DEF Fit, OwnsOdd, Spared
  <1>4. StillTaken(u)'
    <2>1. me[u].pc # "idle" => me[u].index \in Cells BY DEF Fit, Working
    <2>2. me[u].pc # "idle" /\ entry[me[u].index].key # Empty => entry'[me[u].index].key # Empty
      BY <2>1 DEF Forward, Taken
    <2> QED BY <2>2 DEF Fit, StillTaken, Taken
  <1>5. StillFreed(u)' /\ Stored(u)'
    BY DEF Fit, StillFreed, Stored, Spared, Writing, Freed
  <1>6. Probing(u)'
    <2> SUFFICES ASSUME me[u].op = "insert", me[u].pc # "idle" PROVE Probing(u)'
      BY DEF Probing
    <2>1. me[u].key \in Keys /\ me[u].probe \in Nat BY DEF Fit, Working, Fields
    <2> DEFINE k == me[u].key   d == me[u].probe
    <2>2. PathTo(k, d) => PathTo(k, d)' BY <2>1, PathStays
    <2>3. \A i : Reachable(k, i) => Reachable(k, i)' BY <2>1, PathStays
    <2> QED BY <2>2, <2>3 DEF Fit, Probing, PathTo, Reachable
  <1> QED BY <1>1, <1>3, <1>4, <1>5, <1>6 DEF Fit

\* A step that moves only one thread, which neither claims, stores nor publishes.
LEMMA LocalStep ==
    ASSUME IInv, NEW t \in Threads, \A u \in Threads \ {t} : me'[u] = me[u],
           entry' = entry, info' = info, TypeOK', Fit(t)', Writing(t)' <=> Writing(t),
           Writing(t) => me'[t].index = me[t].index,
           me[t].pc = "copyIn" => me'[t].pc = "copyIn"
    PROVE  IInv'
  <1>0. Forward BY DEF Forward, Opened, Closed, Taken
  <1>1. \A u \in Threads : Fit(u)'
    <2>1. ASSUME NEW u \in Threads, u # t PROVE Fit(u)'
      BY <1>0, <2>1, OthersFit DEF IInv, TypeOK, Spared
    <2> QED BY <2>1
  <1>2. \A u \in Threads : /\ Writing(u)' <=> Writing(u)
                           /\ Writing(u) => me'[u].index = me[u].index
                           /\ me[u].pc = "copyIn" => me'[u].pc = "copyIn"
    BY DEF Writing
  <1>3. Exclusive' BY <1>2 DEF IInv, Exclusive
  <1>4. ASSUME NEW i \in Cells PROVE Sound(i)'
    <2>1. Owned(i)' BY <1>2 DEF IInv, Sound, Owned
    <2>2. Copying(i) => Copying(i)' BY <1>2 DEF Copying, Writing
    <2>3. Kept(i)' BY <2>2 DEF IInv, Sound, Kept, WholeCell
    <2>4. \A k \in Keys : entry'[i].key = k => Reachable(k, i)'
      BY <1>0, PathStays DEF IInv, Sound
    <2> QED BY <2>1, <2>3, <2>4 DEF Sound
  <1> QED BY <1>1, <1>3, <1>4 DEF IInv

\* A step of the owner of cell i, or of a thread that claims it while it is free.
LEMMA OwnerStep ==
    ASSUME IInv, NEW t \in Threads, NEW i \in Cells, me[t].index = i, TypeOK', Fit(t)',
           \A u \in Threads \ {t} : me'[u] = me[u],
           \A j \in Cells \ {i} : entry'[j] = entry[j] /\ info'[j] = info[j],
           Writing(t) \/ ~Odd(entry[i].version),
           Taken(i) => Taken(i)', Opened(i) => Opened(i)',
           Writing(t)' => me'[t].index = i,
           Odd(entry'[i].version) => Writing(t)',
           Kept(i)', \A k \in Keys : entry'[i].key = k => Reachable(k, i) \/ Reachable(k, i)'
    PROVE  IInv'
  <1>0. Forward BY DEF Forward, Opened, Closed, Taken
  <1>1. ASSUME NEW u \in Threads \ {t}, Writing(u) PROVE me[u].index # i
    <2>1. OwnsOdd(u) BY DEF IInv, Fit
    <2> QED BY <1>1, <2>1 DEF IInv, Exclusive, OwnsOdd
  <1>2. \A u \in Threads : Fit(u)'
    <2>1. ASSUME NEW u \in Threads, u # t PROVE Fit(u)'
      <3>1. Spared(u)
        <4>1. Writing(u) => me[u].index \in Cells
          BY <2>1 DEF IInv, Fit, Working, Writing
        <4> QED BY <1>1, <2>1, <4>1 DEF Spared
      <3> QED BY <1>0, <2>1, <3>1, OthersFit DEF IInv, TypeOK
    <2> QED BY <2>1
  <1>3. \A u \in Threads \ {t} : (Writing(u)' <=> Writing(u)) /\ me'[u] = me[u]
    BY DEF Writing
  <1>4. Exclusive'
    <2> SUFFICES ASSUME NEW u \in Threads, NEW v \in Threads, Writing(u)', Writing(v)',
                        me'[u].index = me'[v].index
                 PROVE  u = v
      BY DEF Exclusive
    <2>1. CASE u # t /\ v # t BY <1>3, <2>1 DEF IInv, Exclusive
    <2>2. CASE u = t /\ v # t BY <1>1, <1>3, <2>2
    <2>3. CASE u # t /\ v = t BY <1>1, <1>3, <2>3
    <2> QED BY <2>1, <2>2, <2>3
  <1>5. ASSUME NEW j \in Cells PROVE Sound(j)'
    <2>1. CASE j = i
      <3>1. Owned(i)' BY DEF Owned
      <3>2. \A k \in Keys : entry'[i].key = k => Reachable(k, i)' BY <1>0, PathStays
      <3> QED BY <2>1, <3>1, <3>2 DEF Sound
    <2>2. CASE j # i
      <3>1. entry'[j] = entry[j] /\ info'[j] = info[j] BY <2>2
      <3>2. Owned(j)'
        <4> SUFFICES ASSUME Odd(entry[j].version) PROVE \E u \in Threads : Writing(u)' /\ me'[u].index = j
          BY <3>1 DEF Owned
        <4>1. PICK u \in Threads : Writing(u) /\ me[u].index = j BY DEF IInv, Sound, Owned
        <4> QED BY <1>3, <2>2, <4>1
      <3>3. Copying(j) => Copying(j)' BY <1>3, <2>2 DEF Copying
      <3>4. Kept(j)' BY <3>1, <3>3 DEF IInv, Sound, Kept, WholeCell
      <3>5. \A k \in Keys : entry'[j].key = k => Reachable(k, j)'
        BY <1>0, <3>1, PathStays DEF IInv, Sound
      <3> QED BY <3>2, <3>4, <3>5 DEF Sound
    <2> QED BY <2>1, <2>2
  <1> QED BY <1>2, <1>4, <1>5 DEF IInv

----------------------------------------------------------------------------
\* A call that has returned holds nothing.
LEMMA ReturnedFit ==
    ASSUME NEW t \in Threads, me'[t].pc = "idle", me'[t].version = 0, me'[t].expected = 0
    PROVE  Fit(t)' /\ ~Writing(t)'
  BY DEF Fit, Working, EvenVersions, OwnsOdd, StillTaken, StillFreed, Stored, Probing,
         Writing, Odd

\* What a returned call leaves.
LEMMA ReturnedIs ==
    ASSUME NEW m, NEW ok, NEW rec
    PROVE  /\ Returned(m, ok, rec).pc = "idle"
           /\ Returned(m, ok, rec).version = 0 /\ Returned(m, ok, rec).expected = 0
  <1> DEFINE r == [Idle EXCEPT !.op = m.op, !.key = m.key, !.rec = rec, !.ok = ok]
  <1>1. r.pc = Idle.pc BY DEF Idle
  <1>2. r.version = Idle.version BY DEF Idle
  <1>3. r.expected = Idle.expected BY DEF Idle
  <1>4. Idle.pc = "idle" /\ Idle.version = 0 /\ Idle.expected = 0 BY DEF Idle
  <1> QED BY <1>1, <1>2, <1>3, <1>4 DEF Returned

\* So a thread that has returned has nothing left to keep.
LEMMA ReturnedFits ==
    ASSUME NEW t \in Threads, NEW m, NEW ok, NEW rec, me'[t] = Returned(m, ok, rec)
    PROVE  Fit(t)' /\ ~Writing(t)'
  <1>1. me'[t].pc = "idle" /\ me'[t].version = 0 /\ me'[t].expected = 0
    BY ReturnedIs
  <1> QED BY <1>1, ReturnedFit

\* A reader, or a writer that gives up before its claim, returns.
LEMMA ReturnedStep ==
    ASSUME IInv, TypeOK', UNCHANGED <<entry, info>>, NEW t \in Threads, ~Writing(t),
           NEW m, Fields(m), NEW ok, NEW rec, me' = [me EXCEPT ![t] = Returned(m, ok, rec)]
    PROVE  IInv'
  <1>1. me'[t] = Returned(m, ok, rec) /\ \A u \in Threads \ {t} : me'[u] = me[u]
    BY DEF IInv, TypeOK
  <1>2. me'[t].pc = "idle" /\ me'[t].version = 0 /\ me'[t].expected = 0
    BY <1>1, ReturnedIs
  <1> QED BY <1>1, <1>2, ReturnedFit, LocalStep DEF Writing

\* The probe loop moves on from a cell that stops nobody.
LEMMA NextProbeStep ==
    ASSUME IInv, TypeOK', UNCHANGED <<entry, info>>, NEW t \in Threads, ~Writing(t),
           me[t].pc # "idle", NEW m, Fields(m), NextProbe(t, m),
           \A f \in {"op", "key", "rec", "index", "version", "expected", "probe"} :
               m[f] = me[t][f],
           m.op = "insert" =>
               /\ m.index = Window(m.key, m.probe)
               /\ PathTo(m.key, m.probe) /\ Opened(m.index)
               /\ m.firstTombstone # NoCell => Reachable(m.key, m.firstTombstone)
               /\ m.firstFreed # NoCell => Reachable(m.key, m.firstFreed)
    PROVE  IInv'
  <1>1. /\ m.op = me[t].op /\ m.key = me[t].key /\ m.rec = me[t].rec /\ m.index = me[t].index
        /\ m.version = me[t].version /\ m.expected = me[t].expected /\ m.probe = me[t].probe
    OBVIOUS
  <1>2. /\ Working(t) /\ EvenVersions(t) /\ DOMAIN me = Threads
        /\ m.index \in Cells /\ m.key \in Keys /\ m.op # "none" /\ m.probe \in Nat
        /\ m.op = "insert" => m.rec.ptr \in Keys
    BY <1>1 DEF IInv, Fit, Working, TypeOK, Fields
  <1>3. CASE m.probe + 1 < MaxProbe
    <2>0. (m.index + 1) % Capacity \in Cells /\
          (m.op = "insert" => (m.index + 1) % Capacity = Window(m.key, m.probe + 1))
      BY <1>2, Constants, WindowStep DEF Cells
    <2> DEFINE j == (m.index + 1) % Capacity
               n == [m EXCEPT !.pc = "version", !.probe = @ + 1, !.index = j, !.onEmpty = FALSE]
    <2>1. me' = [me EXCEPT ![t] = n] BY <1>3 DEF NextProbe
    <2> HIDE DEF j
    <2>2. /\ me'[t].pc = "version" /\ me'[t].op = m.op /\ me'[t].key = m.key
          /\ me'[t].rec = m.rec /\ me'[t].probe = m.probe + 1 /\ me'[t].index = j
          /\ me'[t].version = m.version /\ me'[t].expected = m.expected
          /\ me'[t].firstTombstone = m.firstTombstone /\ me'[t].firstFreed = m.firstFreed
      BY <1>2, <2>1 DEF Fields, Idle
    <2>3. m.op = "insert" => PathTo(m.key, m.probe + 1)
      <3> SUFFICES ASSUME m.op = "insert", NEW e \in 0 .. (m.probe + 1) - 1
                   PROVE  Opened(Window(m.key, e))
        BY DEF PathTo
      <3>1. CASE e = m.probe BY <3>1
      <3>2. CASE e # m.probe
        <4>1. e \in 0 .. m.probe - 1 BY <1>2, <3>2
        <4> QED BY <4>1 DEF PathTo
      <3> QED BY <3>1, <3>2
    <2>4. Fit(t)'
      <3>1. Working(t)' /\ EvenVersions(t)'
        BY <1>1, <1>2, <2>0, <2>2 DEF Working, EvenVersions, j
      <3>2. OwnsOdd(t)' /\ StillTaken(t)' /\ StillFreed(t)' /\ Stored(t)'
        BY <2>2 DEF OwnsOdd, StillTaken, StillFreed, Stored, Writing
      <3>3. m.op = "insert" => PathTo(m.key, m.probe + 1)'
        BY <2>3 DEF PathTo, Opened, Closed
      <3>4. \A k, i : Reachable(k, i) => Reachable(k, i)'
        BY DEF Reachable, PathTo, Opened, Closed
      <3>5. Probing(t)'
        BY <1>3, <2>0, <2>2, <3>3, <3>4 DEF Probing, PathTo, Reachable, j
      <3> QED BY <3>1, <3>2, <3>5 DEF Fit
    <2>5. \A u \in Threads \ {t} : me'[u] = me[u] BY <2>1
    <2> QED BY <2>2, <2>4, <2>5, LocalStep DEF Writing
  <1>4. CASE ~(m.probe + 1 < MaxProbe)
    <2>1. ASSUME NEW n, Fields(n), NEW rec, me' = [me EXCEPT ![t] = Returned(n, FALSE, rec)]
          PROVE  IInv'
      BY <2>1, ReturnedStep
    <2>2. ASSUME NEW i, NEW place \in {"tombstone", "freed"}, m.op = "insert",
                 i = m.firstTombstone \/ i = m.firstFreed, i # NoCell,
                 me' = [me EXCEPT ![t] = AtVictim(m, i, place)]
          PROVE  IInv'
      <3>1. i \in Cells /\ Reachable(m.key, i) BY <2>2 DEF Fields
      <3>2. /\ me'[t].pc = "victim" /\ me'[t].op = m.op /\ me'[t].key = m.key
            /\ me'[t].rec = m.rec /\ me'[t].index = i /\ me'[t].place = place
            /\ me'[t].version = m.version /\ me'[t].expected = m.expected
        BY <1>2, <2>2 DEF Fields, Idle, AtVictim
      <3>3. Working(t)' /\ EvenVersions(t)'
        BY <1>1, <1>2, <2>2, <3>1, <3>2 DEF Working, EvenVersions
      <3>4. OwnsOdd(t)' /\ StillTaken(t)' /\ StillFreed(t)' /\ Stored(t)'
        BY <3>2 DEF OwnsOdd, StillTaken, StillFreed, Stored, Writing
      <3>5. Reachable(m.key, i)' BY <3>1 DEF Reachable, PathTo, Opened, Closed
      <3>6. Probing(t)' BY <3>2, <3>5 DEF Probing, Reachable, PathTo
      <3>7. Fit(t)' BY <3>3, <3>4, <3>6 DEF Fit
      <3>8. \A u \in Threads \ {t} : me'[u] = me[u] BY <2>2
      <3> QED BY <3>2, <3>7, <3>8, LocalStep DEF Writing
    <2>3. CASE Failed(t)
      BY <2>1, <2>3 DEF Failed, IInv, TypeOK
    <2> QED BY <1>4, <2>1, <2>2, <2>3 DEF NextProbe
  <1> QED BY <1>3, <1>4

\* A call begins: at the first cell of its key's window, or at once answered.
LEMMA CallStep ==
    ASSUME IInv, TypeOK', NEW t \in Threads, NEW k \in Keys, NEW freed \in BOOLEAN,
           NEW op \in {"insert", "find", "erase"}, Call(t, op, k, freed)
    PROVE  IInv'
  <1>0. UNCHANGED <<entry, info>> /\ ~Writing(t) /\ DOMAIN me = Threads
    BY DEF Call, Writing, IInv, TypeOK
  <1> DEFINE rec == IF op = "insert" THEN [ptr |-> k, n |-> used.calls + 1, freed |-> freed]
                                     ELSE NoRecord
             m == [Idle EXCEPT !.op = op, !.key = k, !.rec = rec]
  <1>1. op = "insert" => rec.ptr = k
    OBVIOUS
  <1>2. \/ me' = [me EXCEPT ![t] = [m EXCEPT !.pc = "version", !.index = Mix(k)]]
        \/ me' = [me EXCEPT ![t] = Returned(m, FALSE, NoRecord)]
    <2>1. PICK maybe \in MightContain(op, k) :
            me' = [me EXCEPT ![t] = IF maybe THEN [m EXCEPT !.pc = "version", !.index = Mix(k)]
                                             ELSE Returned(m, FALSE, NoRecord)]
      BY DEF Call
    <2> HIDE DEF m
    <2> QED BY <2>1
  <1>3. Fields(m)
    <2>1. rec \in Records BY Constants DEF Call, TypeOK, Records, IInv
    <2> HIDE DEF rec
    <2> QED BY <2>1, IdleType DEF Fields, Idle
  <1> HIDE DEF rec
  <1>4. CASE me' = [me EXCEPT ![t] = Returned(m, FALSE, NoRecord)]
    <2> HIDE DEF m
    <2> QED BY <1>0, <1>3, <1>4, ReturnedStep
  <1>5. CASE me' = [me EXCEPT ![t] = [m EXCEPT !.pc = "version", !.index = Mix(k)]]
    <2>1. me'[t] = [Idle EXCEPT !.op = op, !.key = k, !.rec = rec, !.pc = "version",
                                !.index = Mix(k)]
      BY <1>0, <1>5
    <2>2. /\ me'[t].pc = "version" /\ me'[t].op = op /\ me'[t].key = k /\ me'[t].rec = rec
          /\ me'[t].index = Mix(k) /\ me'[t].probe = 0 /\ me'[t].version = 0
          /\ me'[t].expected = 0 /\ me'[t].firstTombstone = NoCell
          /\ me'[t].firstFreed = NoCell
      BY <2>1 DEF Idle
    <2>3. Mix(k) \in Cells /\ Window(k, 0) = Mix(k) /\ 0 < MaxProbe /\ ~Odd(0)
      BY Constants, WindowStep DEF Odd
    <2>4. Working(t)' /\ EvenVersions(t)'
      BY <1>1, <2>2, <2>3 DEF Working, EvenVersions
    <2>5. OwnsOdd(t)' /\ StillTaken(t)' /\ StillFreed(t)' /\ Stored(t)' /\ ~Writing(t)'
      BY <2>2 DEF OwnsOdd, StillTaken, StillFreed, Stored, Writing
    <2>6. Probing(t)' BY <2>2, <2>3 DEF Probing, PathTo
    <2>7. Fit(t)' BY <2>4, <2>5, <2>6 DEF Fit
    <2>8. \A u \in Threads \ {t} : me'[u] = me[u] BY <1>0, <1>5
    <2>9. me[t].pc # "copyIn" BY DEF Call
    <2> QED BY <1>0, <2>5, <2>7, <2>8, <2>9, LocalStep
  <1> QED BY <1>2, <1>4, <1>5

\* The probing loads.
LEMMA LoadVersionStep ==
    ASSUME IInv, TypeOK', NEW t \in Threads, LoadVersion(t)
    PROVE  IInv'
  <1>0. /\ UNCHANGED <<entry, info>> /\ me[t].pc = "version" /\ ~Writing(t)
        /\ DOMAIN me = Threads /\ Fields(me[t]) /\ Fit(t)
    BY DEF LoadVersion, Writing, IInv, TypeOK
  <1> DEFINE v == entry[me[t].index].version
  <1>1. CASE Odd(v)
    <2>1. Opened(me[t].index) BY <1>1 DEF Opened, Closed
    <2>2. NextProbe(t, me[t]) BY <1>1 DEF LoadVersion
    <2> QED BY <1>0, <2>1, <2>2, NextProbeStep DEF Fit, Probing
  <1>2. CASE ~Odd(v)
    <2>1. me' = [me EXCEPT ![t] = [me[t] EXCEPT !.version = v, !.pc = "key"]]
      BY <1>2 DEF LoadVersion
    <2> HIDE DEF v
    <2>2. /\ me'[t].pc = "key" /\ me'[t].version = v
          /\ \A f \in DOMAIN Idle \ {"pc", "version"} : me'[t][f] = me[t][f]
      BY <1>0, <2>1 DEF Fields, Idle
    <2>3. /\ me'[t].op = me[t].op /\ me'[t].key = me[t].key /\ me'[t].rec = me[t].rec
          /\ me'[t].index = me[t].index /\ me'[t].probe = me[t].probe
          /\ me'[t].expected = me[t].expected
          /\ me'[t].firstTombstone = me[t].firstTombstone /\ me'[t].firstFreed = me[t].firstFreed
      BY <2>2 DEF Idle
    <2>4. Working(t)' /\ EvenVersions(t)'
      BY <1>0, <1>2, <2>2, <2>3 DEF Fit, Working, EvenVersions
    <2>5. OwnsOdd(t)' /\ StillTaken(t)' /\ StillFreed(t)' /\ Stored(t)' /\ ~Writing(t)'
      BY <2>2 DEF OwnsOdd, StillTaken, StillFreed, Stored, Writing
    <2>6. Probing(t)'
      BY <1>0, <2>2, <2>3 DEF Fit, Probing, PathTo, Reachable, Opened, Closed
    <2>7. Fit(t)' BY <2>4, <2>5, <2>6 DEF Fit
    <2>8. \A u \in Threads \ {t} : me'[u] = me[u] BY <2>1
    <2> QED BY <1>0, <2>5, <2>7, <2>8, LocalStep
  <1> QED BY <1>1, <1>2

\* Within an Insert's probe the cell it looks at is reachable.
LEMMA HereReachable ==
    ASSUME NEW t \in Threads, Probing(t), Fields(me[t]), me[t].op = "insert",
           me[t].pc \in {"version", "key", "flags"}
    PROVE  Reachable(me[t].key, me[t].index)
  <1>1. me[t].probe \in 0 .. MaxProbe - 1 BY Constants DEF Probing, Fields
  <1> QED BY <1>1 DEF Probing, Reachable

\* LoadKey: a match, an empty cell, a tombstone, or another key.
LEMMA LoadKeyStep ==
    ASSUME IInv, TypeOK', NEW t \in Threads, LoadKey(t)
    PROVE  IInv'
  <1>0. /\ UNCHANGED <<entry, info>> /\ me[t].pc = "key" /\ ~Writing(t)
        /\ DOMAIN me = Threads /\ Fields(me[t]) /\ Fit(t)
    BY DEF LoadKey, Writing, IInv, TypeOK
  <1> DEFINE m == me[t]
             k == entry[m.index].key
  <1>1. m.index \in Cells /\ m.key \in Keys /\ m.key # Empty /\ m.op # "none"
    BY <1>0, Constants DEF Fit, Working
  <1>2. ASSUME NEW n, me' = [me EXCEPT ![t] = n], n.op = m.op, n.key = m.key, n.rec = m.rec,
               n.version = m.version, n.expected = m.expected, n.index \in Cells,
               \/ n.pc = "copyOut" /\ m.op = "find" /\ k # Empty /\ n.index = m.index
               \/ /\ n.pc = "claim" /\ m.op # "find" /\ n.place = "match" /\ k # Empty
                  /\ n.index = m.index
               \/ /\ n.pc = "victim" /\ m.op = "insert" /\ n.place # "match"
                  /\ Reachable(m.key, n.index)
               \/ n.pc = "v2" /\ m.op = "find"
               \/ /\ n.pc = "flags" /\ m.op = "insert" /\ k # Empty /\ n.index = m.index
                  /\ n.probe = m.probe /\ n.firstTombstone = m.firstTombstone
                  /\ n.firstFreed = m.firstFreed
        PROVE  IInv'
    <2>1. me'[t] = n /\ \A u \in Threads \ {t} : me'[u] = me[u] BY <1>0, <1>2
    <2>2. m.op \in {"insert", "find", "erase"} BY <1>0, <1>1 DEF Fields
    <2>3. Working(t)' /\ EvenVersions(t)'
      BY <1>0, <1>1, <1>2, <2>1, <2>2 DEF Fit, Working, EvenVersions
    <2>4. OwnsOdd(t)' /\ StillTaken(t)' /\ StillFreed(t)' /\ Stored(t)' /\ ~Writing(t)'
      BY <1>0, <1>2, <2>1 DEF OwnsOdd, StillTaken, StillFreed, Stored, Writing, Taken
    <2>5. Probing(t)'
      BY <1>0, <1>2, <2>1 DEF Fit, Probing, PathTo, Reachable, Opened, Closed
    <2>6. Fit(t)' BY <2>3, <2>4, <2>5 DEF Fit
    <2> QED BY <1>0, <2>1, <2>4, <2>6, LocalStep
  <1>3. CASE k = m.key
    <2>1. me' = [me EXCEPT ![t] = Matched(m)]
      BY <1>1, <1>3, Constants DEF LoadKey
    <2>2. /\ Matched(m).op = m.op /\ Matched(m).key = m.key /\ Matched(m).rec = m.rec
          /\ Matched(m).version = m.version /\ Matched(m).expected = m.expected
          /\ Matched(m).index = m.index
          /\ \/ Matched(m).pc = "copyOut" /\ m.op = "find"
             \/ Matched(m).pc = "claim" /\ m.op # "find" /\ Matched(m).place = "match"
      BY <1>0 DEF Matched, Fields, Idle
    <2> QED BY <1>1, <1>2, <1>3, <2>1, <2>2
  <1>4. CASE k = Empty
    <2>1. CASE m.op = "insert"
      <3>1. me' = [me EXCEPT ![t] = EmptyTarget(m)]
        BY <1>1, <1>4, <2>1, Constants DEF LoadKey
      <3>2. Reachable(m.key, m.index) BY <1>0, <2>1, HereReachable DEF Fit
      <3>3. m.firstTombstone # NoCell =>
               m.firstTombstone \in Cells /\ Reachable(m.key, m.firstTombstone)
        BY <1>0, <2>1 DEF Fit, Probing, Fields
      <3> DEFINE n == EmptyTarget(m)
      <3>4. /\ n.op = m.op /\ n.key = m.key /\ n.rec = m.rec /\ n.version = m.version
            /\ n.expected = m.expected /\ n.pc = "victim" /\ n.place # "match"
            /\ n.index = IF m.firstTombstone = NoCell THEN m.index ELSE m.firstTombstone
        BY <1>0 DEF EmptyTarget, AtVictim, Fields, Idle
      <3> HIDE DEF n
      <3> QED BY <1>1, <1>2, <2>1, <3>1, <3>2, <3>3, <3>4 DEF n
    <2>2. CASE m.op = "find"
      <3> DEFINE n == [m EXCEPT !.pc = "v2", !.onEmpty = TRUE]
      <3>1. me' = [me EXCEPT ![t] = n]
        BY <1>1, <1>4, <2>2, Constants DEF LoadKey
      <3>2. /\ n.op = m.op /\ n.key = m.key /\ n.rec = m.rec /\ n.version = m.version
            /\ n.expected = m.expected /\ n.index = m.index /\ n.pc = "v2"
        BY <1>0 DEF Fields, Idle
      <3> QED BY <1>1, <1>2, <2>2, <3>1, <3>2
    <2>3. CASE m.op = "erase"
      <3>1. me' = [me EXCEPT ![t] = Returned(m, FALSE, NoRecord)]
        BY <1>1, <1>4, <2>3, Constants DEF LoadKey
      <3> QED BY <1>0, <3>1, ReturnedStep
    <2> QED BY <1>0, <1>1, <2>1, <2>2, <2>3 DEF Fields
  <1>5. CASE k = Tombstone
    <2> DEFINE n == IF m.op = "insert" THEN [m EXCEPT !.firstTombstone = FirstOf(@, m.index)]
                                       ELSE m
    <2>1. NextProbe(t, n)
      BY <1>1, <1>5, Constants DEF LoadKey, OnTombstone
    <2>2. Fields(n) BY <1>0, <1>1 DEF Fields, Idle, FirstOf
    <2>3. /\ n.op = m.op /\ n.key = m.key /\ n.rec = m.rec /\ n.index = m.index
          /\ n.version = m.version /\ n.expected = m.expected /\ n.probe = m.probe
          /\ n.firstFreed = m.firstFreed
          /\ m.op = "insert" => n.firstTombstone \in {m.firstTombstone, m.index}
      BY <1>0 DEF Fields, Idle, FirstOf
    <2>4. Opened(m.index) BY <1>5, Constants DEF Opened, Closed
    <2>5. m.op = "insert" => /\ Reachable(m.key, m.index)
                             /\ m.index = Window(m.key, m.probe) /\ PathTo(m.key, m.probe)
                             /\ m.firstTombstone # NoCell => Reachable(m.key, m.firstTombstone)
                             /\ m.firstFreed # NoCell => Reachable(m.key, m.firstFreed)
      BY <1>0, HereReachable DEF Fit, Probing
    <2> HIDE DEF n
    <2> QED BY <1>0, <2>1, <2>2, <2>3, <2>4, <2>5, NextProbeStep
  <1>6. CASE k \notin {m.key, Empty, Tombstone}
    <2>1. CASE m.op = "insert"
      <3> DEFINE n == [m EXCEPT !.pc = "flags"]
      <3>1. me' = [me EXCEPT ![t] = n]
        BY <1>6, <2>1 DEF LoadKey
      <3>2. /\ n.op = m.op /\ n.key = m.key /\ n.rec = m.rec /\ n.version = m.version
            /\ n.expected = m.expected /\ n.index = m.index /\ n.pc = "flags"
            /\ n.probe = m.probe /\ n.firstTombstone = m.firstTombstone
            /\ n.firstFreed = m.firstFreed
        BY <1>0 DEF Fields, Idle
      <3> QED BY <1>1, <1>2, <1>6, <2>1, <3>1, <3>2
    <2>2. CASE m.op # "insert"
      <3>1. NextProbe(t, m) BY <1>6, <2>2 DEF LoadKey
      <3> QED BY <1>0, <2>2, <3>1, NextProbeStep
    <2> QED BY <2>1, <2>2
  <1> QED BY <1>3, <1>4, <1>5, <1>6

\* The first freed record is remembered, and the probe moves on.
LEMMA LoadFlagsStep ==
    ASSUME IInv, TypeOK', NEW t \in Threads, LoadFlags(t)
    PROVE  IInv'
  <1>0. /\ UNCHANGED <<entry, info>> /\ me[t].pc = "flags" /\ ~Writing(t) /\ me[t].op = "insert"
        /\ Fields(me[t]) /\ Fit(t) /\ me[t].index \in Cells
    BY DEF LoadFlags, Writing, IInv, TypeOK, Fit, Working
  <1> DEFINE m == me[t]
             n == IF Freed(m.index) THEN [m EXCEPT !.firstFreed = FirstOf(@, m.index)] ELSE m
  <1>1. NextProbe(t, n) BY DEF LoadFlags
  <1>2. Fields(n) BY <1>0 DEF Fields, Idle, FirstOf
  <1>3. /\ n.op = m.op /\ n.key = m.key /\ n.rec = m.rec /\ n.index = m.index
        /\ n.version = m.version /\ n.expected = m.expected /\ n.probe = m.probe
        /\ n.firstTombstone = m.firstTombstone /\ n.firstFreed \in {m.firstFreed, m.index}
    BY <1>0 DEF Fields, Idle, FirstOf
  <1>4. Opened(m.index) BY <1>0 DEF Fit, StillTaken, Taken, Opened, Closed
  <1>5. /\ Reachable(m.key, m.index) /\ m.index = Window(m.key, m.probe)
        /\ PathTo(m.key, m.probe)
        /\ m.firstTombstone # NoCell => Reachable(m.key, m.firstTombstone)
        /\ m.firstFreed # NoCell => Reachable(m.key, m.firstFreed)
    BY <1>0, HereReachable DEF Fit, Probing
  <1> HIDE DEF n
  <1> QED BY <1>0, <1>1, <1>2, <1>3, <1>4, <1>5, NextProbeStep

\* Find answers, or moves on.
LEMMA LoadV2Step ==
    ASSUME IInv, TypeOK', NEW t \in Threads, LoadV2(t)
    PROVE  IInv'
  <1>0. /\ UNCHANGED <<entry, info>> /\ me[t].pc = "v2" /\ ~Writing(t) /\ me[t].op = "find"
        /\ Fields(me[t])
    BY DEF LoadV2, Writing, IInv, TypeOK, Fit, Working
  <1>1. CASE NextProbe(t, me[t])
    BY <1>0, <1>1, NextProbeStep
  <1>2. CASE ~NextProbe(t, me[t])
    <2>1. ASSUME NEW ok, NEW rec, me' = [me EXCEPT ![t] = Returned(me[t], ok, rec)]
          PROVE  IInv'
      BY <1>0, <2>1, ReturnedStep
    <2> QED BY <1>2, <2>1 DEF LoadV2
  <1> QED BY <1>1, <1>2

\* The steps between the match and the claim.
LEMMA CopyOutStep ==
    ASSUME IInv, TypeOK', NEW t \in Threads, CopyOut(t)
    PROVE  IInv'
  <1>0. /\ UNCHANGED <<entry, info>> /\ me[t].pc = "copyOut"
        /\ DOMAIN me = Threads /\ Fields(me[t]) /\ Fit(t)
    BY DEF CopyOut, IInv, TypeOK
  <1>1. PICK w \in me[t].left :
          me' = [me EXCEPT ![t].copy[w] = info[me[t].index][w], ![t].left = @ \ {w},
                       ![t].pc = IF me[t].left # {w} THEN @
                                 ELSE IF me[t].op = "find" THEN "v2" ELSE "tombstone"]
    BY DEF CopyOut
  <1>2. /\ me'[t].op = me[t].op /\ me'[t].key = me[t].key /\ me'[t].rec = me[t].rec
        /\ me'[t].index = me[t].index /\ me'[t].version = me[t].version
        /\ me'[t].expected = me[t].expected
        /\ me'[t].pc = IF me[t].left # {w} THEN "copyOut"
                       ELSE IF me[t].op = "find" THEN "v2" ELSE "tombstone"
    BY <1>0, <1>1 DEF Fields, Idle
  <1>3. me[t].op \in {"find", "erase"} BY <1>0 DEF Fit, Working, Fields
  <1>4. Working(t)' /\ EvenVersions(t)'
    BY <1>0, <1>2, <1>3 DEF Fit, Working, EvenVersions
  <1>5. Writing(t)' <=> Writing(t) BY <1>0, <1>2, <1>3 DEF Writing
  <1>6. OwnsOdd(t)' /\ StillTaken(t)' /\ StillFreed(t)' /\ Stored(t)'
    BY <1>0, <1>2, <1>5 DEF Fit, OwnsOdd, StillTaken, StillFreed, Stored, Taken
  <1>7. Probing(t)' BY <1>2, <1>3 DEF Probing
  <1>8. Fit(t)' BY <1>4, <1>6, <1>7 DEF Fit
  <1>9. \A u \in Threads \ {t} : me'[u] = me[u] BY <1>0, <1>1
  <1> QED BY <1>0, <1>2, <1>5, <1>8, <1>9, LocalStep

\* A step on the way to the claim, of a thread that keeps what it has in hand.
LEMMA TowardsClaim ==
    ASSUME IInv, TypeOK', NEW t \in Threads, UNCHANGED <<entry, info>>,
           me[t].pc \in {"victim", "claim", "cas"}, me'[t].pc \in {"claim", "cas"},
           me'[t].op = me[t].op, me'[t].key = me[t].key, me'[t].rec = me[t].rec,
           me'[t].index = me[t].index, me'[t].place = me[t].place,
           ~Odd(me'[t].version), ~Odd(me'[t].expected),
           \A u \in Threads \ {t} : me'[u] = me[u]
    PROVE  IInv'
  <1>0. Fields(me[t]) /\ Fit(t) BY DEF IInv, TypeOK
  <1>1. me[t].op \in {"insert", "erase"} BY <1>0 DEF Fit, Working
  <1>2. Working(t)' /\ EvenVersions(t)'
    BY <1>0, <1>1 DEF Fit, Working, EvenVersions
  <1>3. ~Writing(t) /\ ~Writing(t)' BY DEF Writing
  <1>4. OwnsOdd(t)' /\ StillTaken(t)' /\ StillFreed(t)' /\ Stored(t)'
    BY <1>0, <1>3 DEF Fit, Working, OwnsOdd, StillTaken, StillFreed, Stored, Taken
  <1>5. Probing(t)'
    BY <1>0 DEF Fit, Probing, Reachable, PathTo, Opened, Closed
  <1>6. Fit(t)' BY <1>2, <1>4, <1>5 DEF Fit
  <1> QED BY <1>3, <1>6, LocalStep

\* Claim tries again or gives up.
LEMMA RelaxStep ==
    ASSUME IInv, TypeOK', NEW t \in Threads, UNCHANGED <<entry, info>>, Relax(t),
           me[t].pc \in {"claim", "cas"}
    PROVE  IInv'
  <1>0. DOMAIN me = Threads /\ Fields(me[t]) /\ ~Writing(t) /\ EvenVersions(t)
    BY DEF IInv, TypeOK, Writing, Fit
  <1>1. CASE me[t].attempt + 1 < ClaimAttempts
    <2> DEFINE m == [me[t] EXCEPT !.pc = "claim", !.attempt = @ + 1]
    <2>1. me' = [me EXCEPT ![t] = m] BY <1>1 DEF Relax
    <2>2. /\ m.op = me[t].op /\ m.key = me[t].key /\ m.rec = me[t].rec
          /\ m.index = me[t].index /\ m.version = me[t].version
          /\ m.expected = me[t].expected /\ m.place = me[t].place /\ m.pc = "claim"
      BY <1>0 DEF Fields, Idle
    <2>3. me'[t] = m /\ \A u \in Threads \ {t} : me'[u] = me[u] BY <1>0, <2>1
    <2> HIDE DEF m
    <2> QED BY <1>0, <2>2, <2>3, TowardsClaim DEF EvenVersions
  <1>2. CASE ~(me[t].attempt + 1 < ClaimAttempts)
    BY <1>0, <1>2, ReturnedStep DEF Relax
  <1> QED BY <1>1, <1>2

\* InsertAtVictim looks at its cell.
LEMMA LoadVictimStep ==
    ASSUME IInv, TypeOK', NEW t \in Threads, LoadVictim(t)
    PROVE  IInv'
  <1>0. /\ DOMAIN me = Threads /\ Fields(me[t]) /\ ~Writing(t) /\ EvenVersions(t)
        /\ UNCHANGED <<entry, info>> /\ me[t].pc = "victim"
    BY DEF IInv, TypeOK, Writing, Fit, LoadVictim
  <1>1. CASE Failed(t)
    BY <1>0, <1>1, ReturnedStep DEF Failed
  <1>2. CASE ~Failed(t)
    <2> DEFINE m == [me[t] EXCEPT !.pc = "claim"]
    <2>1. me' = [me EXCEPT ![t] = m] BY <1>2 DEF LoadVictim
    <2>2. /\ m.op = me[t].op /\ m.key = me[t].key /\ m.rec = me[t].rec
          /\ m.index = me[t].index /\ m.version = me[t].version
          /\ m.expected = me[t].expected /\ m.place = me[t].place /\ m.pc = "claim"
      BY <1>0 DEF Fields, Idle
    <2>3. me'[t] = m /\ \A u \in Threads \ {t} : me'[u] = me[u] BY <1>0, <2>1
    <2> HIDE DEF m
    <2> QED BY <1>0, <2>2, <2>3, TowardsClaim DEF EvenVersions
  <1> QED BY <1>1, <1>2

\* Claim keeps only an even version.
LEMMA ClaimLoadStep ==
    ASSUME IInv, TypeOK', NEW t \in Threads, ClaimLoad(t)
    PROVE  IInv'
  <1>0. /\ DOMAIN me = Threads /\ Fields(me[t]) /\ ~Writing(t) /\ EvenVersions(t)
        /\ UNCHANGED <<entry, info>> /\ me[t].pc = "claim"
    BY DEF IInv, TypeOK, Writing, Fit, ClaimLoad
  <1>1. CASE Odd(entry[me[t].index].version)
    BY <1>0, <1>1, RelaxStep DEF ClaimLoad
  <1>2. CASE ~Odd(entry[me[t].index].version)
    <2> DEFINE v == entry[me[t].index].version
               m == [me[t] EXCEPT !.expected = v, !.pc = "cas"]
    <2>1. me' = [me EXCEPT ![t] = m] /\ ~Odd(v) BY <1>2 DEF ClaimLoad
    <2> HIDE DEF v
    <2>2. /\ m.op = me[t].op /\ m.key = me[t].key /\ m.rec = me[t].rec
          /\ m.index = me[t].index /\ m.version = me[t].version
          /\ m.expected = v /\ m.place = me[t].place /\ m.pc = "cas"
      BY <1>0 DEF Fields, Idle
    <2>3. me'[t] = m /\ \A u \in Threads \ {t} : me'[u] = me[u] BY <1>0, <2>1
    <2> HIDE DEF m
    <2> QED BY <1>0, <2>1, <2>2, <2>3, TowardsClaim DEF EvenVersions
  <1> QED BY <1>1, <1>2

\* The counter is raised after the entry was published.
LEMMA CountStep ==
    ASSUME IInv, TypeOK', NEW t \in Threads, CountEntry(t)
    PROVE  IInv'
  <1>1. /\ DOMAIN me = Threads /\ Fields(me[t]) /\ ~Writing(t)
        /\ UNCHANGED <<entry, info>>
    BY DEF IInv, TypeOK, Writing, CountEntry
  <1> QED BY <1>1, ReturnedStep DEF CountEntry

----------------------------------------------------------------------------
\* Nobody but its owner is copying into a cell, and nobody into a free one.
LEMMA NotCopying ==
    ASSUME IInv, NEW t \in Threads, me[t].pc # "copyIn", NEW i \in Cells, me[t].index = i,
           Writing(t) \/ ~Odd(entry[i].version)
    PROVE  ~Copying(i)
  <1> SUFFICES ASSUME NEW u \in Threads, me[u].pc = "copyIn", me[u].index = i PROVE FALSE
    BY DEF Copying
  <1>1. Writing(u) /\ Odd(entry[i].version) BY DEF Writing, IInv, Fit, OwnsOdd
  <1> QED BY <1>1 DEF IInv, Exclusive

\* The claim: the exchange meets an even version, so nobody owns the entry.
LEMMA ClaimCasStep ==
    ASSUME IInv, TypeOK', NEW t \in Threads, ClaimCas(t)
    PROVE  IInv'
  <1>0. /\ DOMAIN me = Threads /\ Fields(me[t]) /\ ~Writing(t) /\ Fit(t)
        /\ info' = info /\ me[t].pc = "cas" /\ entry \in [Cells -> Entry]
    BY DEF IInv, TypeOK, Writing, ClaimCas
  <1>i. PICK i \in Cells : i = me[t].index
    BY <1>0 DEF Fit, Working
  <1>e. PICK e \in Nat : e = me[t].expected
    BY <1>0 DEF Fields
  <1>1. CASE ~Exchanges(i, e)
    BY <1>0, <1>1, <1>i, <1>e, RelaxStep DEF ClaimCas
  <1>2. CASE Exchanges(i, e)
    <2>1. /\ entry' = [entry EXCEPT ![i].version = e + 1]
          /\ me' = [me EXCEPT ![t] = Claimed(me[t])]
      BY <1>2, <1>i, <1>e DEF ClaimCas
    <2>2. /\ me[t].op \in {"insert", "erase"} /\ ~Odd(entry[i].version)
          /\ entry[i].version = e
      BY <1>0, <1>2, <1>i, <1>e DEF Fit, Working, EvenVersions, Exchanges, Fields
    <2>3. /\ entry'[i].version = e + 1 /\ entry'[i].key = entry[i].key
          /\ \A j \in Cells \ {i} : entry'[j] = entry[j]
      BY <1>0, <2>1, <2>2 DEF Entry
    <2>4. Odd(e + 1) BY <2>2, Parity
    <2> DEFINE m == Claimed(me[t])
    <2>5. /\ m.op = me[t].op /\ m.key = me[t].key /\ m.rec = me[t].rec
          /\ m.index = i /\ m.version = me[t].version
          /\ m.expected = me[t].expected /\ m.place = me[t].place
          /\ me[t].place # "match" => m.pc = "recheck"
          /\ me[t].place = "match" /\ me[t].op = "insert" => m.pc = "copyIn" /\ m.left = Words
          /\ me[t].place = "match" /\ me[t].op = "erase" => m.pc = "copyOut"
      BY <1>0, <1>i DEF Claimed, Fields, Idle
    <2>6. me'[t] = m /\ \A u \in Threads \ {t} : me'[u] = me[u] BY <1>0, <2>1
    <2> HIDE DEF m
    <2>7. Writing(t)' BY <2>2, <2>5, <2>6 DEF Writing
    <2>8. Opened(i)' BY <2>3, <2>4 DEF Opened, Closed
    <2>9. Taken(i) => Taken(i)' BY <2>3 DEF Taken
    <2>10. Kept(i)'
      <3>1. ~Copying(i) BY <1>0, <1>i, <2>2, NotCopying
      <3>2. entry[i].key \in Keys => WholeCell(i) BY <2>2, <3>1 DEF IInv, Sound, Kept
      <3> QED BY <1>0, <2>3, <3>2 DEF Kept, WholeCell
    <2>11. Working(t)' /\ EvenVersions(t)'
      BY <1>0, <1>i, <2>2, <2>5, <2>6 DEF Fit, Working, EvenVersions
    <2>12. OwnsOdd(t)' /\ StillTaken(t)' /\ StillFreed(t)' /\ Stored(t)'
      BY <1>0, <1>i, <2>2, <2>3, <2>4, <2>5, <2>6 DEF Fit, OwnsOdd, StillTaken, StillFreed, Stored, Taken
    <2>13. \A j \in Cells : Opened(j) => Opened(j)'
      BY <2>3, <2>8 DEF Opened, Closed
    <2>14. Forward
      <3>1. \A j \in Cells : Taken(j) => Taken(j)' BY <2>3, <2>9 DEF Taken
      <3> QED BY <2>13, <3>1 DEF Forward
    <2>15. Probing(t)'
      <3>1. PICK k \in Keys : k = me[t].key BY <1>0 DEF Fit, Working
      <3>2. Reachable(k, i) => Reachable(k, i)' BY <2>14, PathStays
      <3>3. me[t].op = "insert" /\ me[t].place # "match" => Reachable(k, i)
        BY <1>0, <1>i, <3>1 DEF Fit, Probing
      <3> QED BY <1>0, <3>1, <2>2, <2>5, <2>6, <3>2, <3>3 DEF Probing, Reachable, PathTo
    <2>16. Fit(t)' BY <2>11, <2>12, <2>15 DEF Fit
    <2>17. \A k \in Keys : entry'[i].key = k => Reachable(k, i)
      BY <2>2, <2>3 DEF IInv, Sound
    <2> QED BY <1>0, <1>i, <2>2, <2>3, <2>5, <2>6, <2>7, <2>8, <2>9, <2>10, <2>16, <2>17, OwnerStep
  <1> QED BY <1>1, <1>2

\* The stores of an owner: the other entries and the other threads stay.
LEMMA RecheckStep ==
    ASSUME IInv, TypeOK', NEW t \in Threads, Recheck(t)
    PROVE  IInv'
  <1>0. /\ DOMAIN me = Threads /\ Fields(me[t]) /\ Writing(t) /\ Fit(t)
        /\ info' = info /\ me[t].pc = "recheck" /\ entry \in [Cells -> Entry]
    BY DEF IInv, TypeOK, Writing, Recheck
  <1>i. PICK i \in Cells : i = me[t].index
    BY <1>0 DEF Fit, Working
  <1>1. CASE MayTake(i, me[t].place)
    <2> DEFINE b == entry[i].key = Empty
               m == [me[t] EXCEPT !.pc = "setKey", !.onEmpty = b]
    <2>1. entry' = entry /\ me' = [me EXCEPT ![t] = m]
      BY <1>1, <1>i DEF Recheck
    <2> HIDE DEF b
    <2>2. /\ m.op = me[t].op /\ m.key = me[t].key /\ m.rec = me[t].rec
          /\ m.index = i /\ m.version = me[t].version
          /\ m.expected = me[t].expected /\ m.place = me[t].place /\ m.pc = "setKey"
      BY <1>0, <1>i DEF Fields, Idle
    <2>3. me'[t] = m /\ \A u \in Threads \ {t} : me'[u] = me[u] BY <1>0, <2>1
    <2> HIDE DEF m
    <2>4. Working(t)' /\ EvenVersions(t)' /\ Writing(t)'
      BY <1>0, <1>i, <2>2, <2>3 DEF Fit, Working, EvenVersions, Writing
    <2>5. OwnsOdd(t)' /\ StillTaken(t)' /\ Stored(t)'
      BY <1>0, <1>i, <2>1, <2>2, <2>3 DEF Fit, OwnsOdd, StillTaken, Stored
    <2>6. StillFreed(t)'
      BY <1>0, <1>1, <1>i, <2>1, <2>2, <2>3, Constants DEF StillFreed, MayTake, Freed
    <2>7. Probing(t)'
      BY <1>0, <1>i, <2>1, <2>2, <2>3 DEF Fit, Probing, Reachable, PathTo, Opened, Closed
    <2>8. Fit(t)' BY <2>4, <2>5, <2>6, <2>7 DEF Fit
    <2> QED BY <1>0, <1>i, <2>1, <2>2, <2>3, <2>4, <2>8, LocalStep
  <1>2. CASE ~MayTake(i, me[t].place)
    <2>1. PICK v \in Nat : v = NextVersion(me[t]) /\ ~Odd(v)
      <3>1. me[t].place # "match" /\ Odd(entry[i].version) /\ entry[i].version \in Nat
        BY <1>0, <1>i DEF Fit, Working, OwnsOdd, Entry
      <3> QED BY <1>i, <3>1, Parity DEF NextVersion
    <2>2. entry' = [entry EXCEPT ![i].version = v] /\ Failed(t)
      BY <1>2, <1>i, <2>1 DEF Recheck
    <2>3. /\ entry'[i].version = v /\ entry'[i].key = entry[i].key
          /\ \A j \in Cells \ {i} : entry'[j] = entry[j]
      BY <1>0, <2>2 DEF Entry
    <2>4. me' = [me EXCEPT ![t] = Returned(me[t], FALSE, me[t].rec)]
      BY <2>2 DEF Failed
    <2>5. me'[t] = Returned(me[t], FALSE, me[t].rec) /\ \A u \in Threads \ {t} : me'[u] = me[u]
      BY <1>0, <2>4
    <2>6. Fit(t)' /\ ~Writing(t)'
      BY <2>5, ReturnedFits
    <2>7. Taken(i) /\ Taken(i)' /\ Opened(i)'
      BY <1>2, <2>3 DEF MayTake, Taken, Opened, Closed
    <2>8. Kept(i)'
      <3>1. ~Copying(i) BY <1>0, <1>i, NotCopying
      <3> QED BY <1>0, <2>3, <3>1 DEF IInv, Sound, Kept, WholeCell
    <2>9. \A k \in Keys : entry'[i].key = k => Reachable(k, i)
      BY <2>3 DEF IInv, Sound
    <2> QED BY <1>0, <1>i, <2>1, <2>3, <2>5, <2>6, <2>7, <2>8, <2>9, OwnerStep
  <1> QED BY <1>1, <1>2

\* The key goes into a reachable cell.
LEMMA SetKeyStep ==
    ASSUME IInv, TypeOK', NEW t \in Threads, SetKey(t)
    PROVE  IInv'
  <1>0. /\ DOMAIN me = Threads /\ Fields(me[t]) /\ Writing(t) /\ Fit(t)
        /\ info' = info /\ me[t].pc = "setKey" /\ entry \in [Cells -> Entry]
    BY DEF IInv, TypeOK, Writing, SetKey
  <1>i. PICK i \in Cells : i = me[t].index
    BY <1>0 DEF Fit, Working
  <1>k. PICK k \in Keys : k = me[t].key
    BY <1>0 DEF Fit, Working
  <1> DEFINE m == [me[t] EXCEPT !.pc = "copyIn", !.left = Words]
  <1>1. entry' = [entry EXCEPT ![i].key = k] /\ me' = [me EXCEPT ![t] = m]
    BY <1>i, <1>k DEF SetKey
  <1>2. /\ entry'[i].key = k /\ entry'[i].version = entry[i].version
        /\ \A j \in Cells \ {i} : entry'[j] = entry[j]
    BY <1>0, <1>1 DEF Entry
  <1>3. /\ m.op = me[t].op /\ m.key = k /\ m.rec = me[t].rec
        /\ m.index = i /\ m.version = me[t].version /\ m.left = Words
        /\ m.expected = me[t].expected /\ m.place = me[t].place /\ m.pc = "copyIn"
    BY <1>0, <1>i, <1>k DEF Fields, Idle
  <1>4. me'[t] = m /\ \A u \in Threads \ {t} : me'[u] = me[u] BY <1>0, <1>1
  <1> HIDE DEF m
  <1>5. Taken(i)' /\ Opened(i)' /\ Kept(i)'
    BY <1>2, <1>3, <1>4, Constants DEF Taken, Opened, Closed, Kept, Copying
  <1>6. Working(t)' /\ EvenVersions(t)' /\ Writing(t)'
    BY <1>0, <1>i, <1>k, <1>3, <1>4 DEF Fit, Working, EvenVersions, Writing
  <1>7. OwnsOdd(t)' /\ StillTaken(t)' /\ StillFreed(t)' /\ Stored(t)' /\ Probing(t)'
    BY <1>0, <1>i, <1>2, <1>3, <1>4, <1>5
       DEF Fit, OwnsOdd, StillTaken, StillFreed, Stored, Probing, Taken
  <1>8. Fit(t)' BY <1>6, <1>7 DEF Fit
  <1>9. \A l \in Keys : entry'[i].key = l => Reachable(l, i)
    BY <1>0, <1>i, <1>k, <1>2 DEF Fit, Working, Probing
  <1> QED BY <1>0, <1>i, <1>2, <1>3, <1>4, <1>5, <1>6, <1>8, <1>9, OwnerStep

\* A word of the record is stored; the last one makes the entry whole.
LEMMA CopyInStep ==
    ASSUME IInv, TypeOK', NEW t \in Threads, CopyIn(t)
    PROVE  IInv'
  <1>0. /\ DOMAIN me = Threads /\ Fields(me[t]) /\ Writing(t) /\ Fit(t)
        /\ entry' = entry /\ me[t].pc = "copyIn" /\ info \in [Cells -> [Words -> Records]]
    BY DEF IInv, TypeOK, Writing, CopyIn
  <1>i. PICK i \in Cells : i = me[t].index
    BY <1>0 DEF Fit, Working
  <1>1. PICK w \in me[t].left :
          /\ info' = [info EXCEPT ![i][w] = me[t].rec]
          /\ me' = [me EXCEPT ![t].left = @ \ {w},
                              ![t].pc = IF me[t].left = {w} THEN "publish" ELSE @]
    BY <1>i DEF CopyIn
  <1>2. /\ me'[t].op = me[t].op /\ me'[t].key = me[t].key /\ me'[t].rec = me[t].rec
        /\ me'[t].index = i /\ me'[t].version = me[t].version
        /\ me'[t].left = me[t].left \ {w}
        /\ me'[t].expected = me[t].expected /\ me'[t].place = me[t].place
        /\ me'[t].pc = IF me[t].left = {w} THEN "publish" ELSE "copyIn"
        /\ \A u \in Threads \ {t} : me'[u] = me[u]
    BY <1>0, <1>i, <1>1 DEF Fields, Idle
  <1>3. /\ info'[i][w] = me[t].rec /\ w \in Words
        /\ \A x \in Words \ {w} : info'[i][x] = info[i][x]
        /\ \A j \in Cells \ {i} : info'[j] = info[j]
    BY <1>0, <1>i, <1>1 DEF Fields
  <1>4. \A x \in Words \ (me[t].left \ {w}) : info'[i][x] = me[t].rec
    BY <1>0, <1>i, <1>3 DEF Fit, Stored
  <1>5. Working(t)' /\ EvenVersions(t)' /\ Writing(t)'
    BY <1>0, <1>i, <1>2 DEF Fit, Working, EvenVersions, Writing
  <1>6. OwnsOdd(t)' /\ StillTaken(t)' /\ StillFreed(t)' /\ Probing(t)'
    BY <1>0, <1>i, <1>2 DEF Fit, OwnsOdd, StillTaken, StillFreed, Probing, Taken
  <1>7. Stored(t)' BY <1>2, <1>4 DEF Stored
  <1>8. Fit(t)' BY <1>5, <1>6, <1>7 DEF Fit
  <1>9. Kept(i)'
    <2>1. CASE me[t].left # {w} BY <1>2, <2>1 DEF Kept, Copying
    <2>2. CASE me[t].left = {w}
      <3>1. info'[i]["body"] = me[t].rec /\ info'[i]["flags"] = me[t].rec
        BY <1>4, <2>2 DEF Words
      <3>2. me[t].rec.ptr # Empty BY <1>0, Constants DEF Fit, Working
      <3>3. me[t].rec # NoRecord BY <3>2 DEF NoRecord
      <3> QED BY <3>1, <3>3 DEF Kept, WholeCell
    <2> QED BY <2>1, <2>2
  <1>10. (Taken(i) => Taken(i)') /\ (Opened(i) => Opened(i)')
    BY <1>0 DEF Taken, Opened, Closed
  <1>11. \A k \in Keys : entry'[i].key = k => Reachable(k, i)
    BY <1>0 DEF IInv, Sound
  <1> QED BY <1>0, <1>i, <1>2, <1>3, <1>5, <1>8, <1>9, <1>10, <1>11, OwnerStep

\* Erase leaves a tombstone, never an empty cell.
LEMMA SetTombstoneStep ==
    ASSUME IInv, TypeOK', NEW t \in Threads, SetTombstone(t)
    PROVE  IInv'
  <1>0. /\ DOMAIN me = Threads /\ Fields(me[t]) /\ Writing(t) /\ Fit(t)
        /\ info' = info /\ me[t].pc = "tombstone" /\ entry \in [Cells -> Entry]
    BY DEF IInv, TypeOK, Writing, SetTombstone
  <1>i. PICK i \in Cells : i = me[t].index
    BY <1>0 DEF Fit, Working
  <1> DEFINE m == [me[t] EXCEPT !.pc = "publish"]
  <1>1. entry' = [entry EXCEPT ![i].key = Tombstone] /\ me' = [me EXCEPT ![t] = m]
    BY <1>i DEF SetTombstone
  <1>2. /\ entry'[i].key = Tombstone /\ entry'[i].version = entry[i].version
        /\ \A j \in Cells \ {i} : entry'[j] = entry[j]
    BY <1>0, <1>1 DEF Entry
  <1>3. /\ m.op = me[t].op /\ m.key = me[t].key /\ m.rec = me[t].rec
        /\ m.index = i /\ m.version = me[t].version
        /\ m.expected = me[t].expected /\ m.place = me[t].place /\ m.pc = "publish"
    BY <1>0, <1>i DEF Fields, Idle
  <1>4. me'[t] = m /\ \A u \in Threads \ {t} : me'[u] = me[u] BY <1>0, <1>1
  <1> HIDE DEF m
  <1>5. Taken(i)' /\ Opened(i)' /\ Kept(i)' /\ \A k \in Keys : entry'[i].key # k
    BY <1>2, Constants DEF Taken, Opened, Closed, Kept
  <1>6. Working(t)' /\ EvenVersions(t)' /\ Writing(t)'
    BY <1>0, <1>i, <1>3, <1>4 DEF Fit, Working, EvenVersions, Writing
  <1>7. OwnsOdd(t)' /\ StillTaken(t)' /\ StillFreed(t)' /\ Stored(t)' /\ Probing(t)'
    BY <1>0, <1>i, <1>2, <1>3, <1>4, <1>5
       DEF Fit, OwnsOdd, StillTaken, StillFreed, Stored, Probing, Taken
  <1>8. Fit(t)' BY <1>6, <1>7 DEF Fit
  <1> QED BY <1>0, <1>i, <1>2, <1>3, <1>4, <1>5, <1>6, <1>8, OwnerStep

\* Publish stores an even version: the entry is free, whole and taken.
LEMMA PublishStep ==
    ASSUME IInv, TypeOK', NEW t \in Threads, Publish(t)
    PROVE  IInv'
  <1>0. /\ DOMAIN me = Threads /\ Fields(me[t]) /\ Writing(t) /\ Fit(t)
        /\ info' = info /\ me[t].pc = "publish" /\ entry \in [Cells -> Entry]
    BY DEF IInv, TypeOK, Writing, Publish
  <1>i. PICK i \in Cells : i = me[t].index
    BY <1>0 DEF Fit, Working
  <1>1. PICK v \in Nat : v = NextVersion(me[t]) /\ ~Odd(v)
    <2>1. Odd(entry[i].version) /\ entry[i].version \in Nat
          /\ ~Odd(me[t].version) /\ me[t].version \in Nat
      BY <1>0, <1>i DEF Fit, OwnsOdd, EvenVersions, Entry, Fields
    <2> QED BY <1>i, <2>1, Parity DEF NextVersion
  <1>2. entry' = [entry EXCEPT ![i].version = v]
    BY <1>i, <1>1 DEF Publish
  <1>3. /\ entry'[i].version = v /\ entry'[i].key = entry[i].key
        /\ \A j \in Cells \ {i} : entry'[j] = entry[j]
    BY <1>0, <1>2 DEF Entry
  <1>4. Fit(t)' /\ ~Writing(t)' /\ \A u \in Threads \ {t} : me'[u] = me[u]
    <2>1. CASE me[t].onEmpty
      <3> DEFINE m == [me[t] EXCEPT !.pc = "count"]
      <3>1. me' = [me EXCEPT ![t] = m] BY <2>1 DEF Publish
      <3>2. /\ m.op = me[t].op /\ m.key = me[t].key /\ m.rec = me[t].rec
            /\ m.index = i /\ m.version = me[t].version
            /\ m.expected = me[t].expected /\ m.pc = "count"
        BY <1>0, <1>i DEF Fields, Idle
      <3>3. me'[t] = m /\ \A u \in Threads \ {t} : me'[u] = me[u] BY <1>0, <3>1
      <3> HIDE DEF m
      <3>4. Working(t)' /\ EvenVersions(t)' /\ ~Writing(t)'
        BY <1>0, <1>i, <3>2, <3>3 DEF Fit, Working, EvenVersions, Writing
      <3>5. OwnsOdd(t)' /\ StillTaken(t)' /\ StillFreed(t)' /\ Stored(t)' /\ Probing(t)'
        BY <3>2, <3>3, <3>4 DEF OwnsOdd, StillTaken, StillFreed, Stored, Probing
      <3> QED BY <3>3, <3>4, <3>5 DEF Fit
    <2>2. CASE ~me[t].onEmpty
      <3>1. me' = [me EXCEPT ![t] = Returned(me[t], TRUE, Answer(me[t]))]
        BY <2>2 DEF Publish
      <3>2. me'[t] = Returned(me[t], TRUE, Answer(me[t]))
            /\ \A u \in Threads \ {t} : me'[u] = me[u]
        BY <1>0, <3>1
      <3>3. Fit(t)' /\ ~Writing(t)' BY <3>2, ReturnedFits
      <3> QED BY <3>2, <3>3
    <2> QED BY <2>1, <2>2
  <1>5. Taken(i)' /\ Opened(i)'
    BY <1>0, <1>i, <1>3 DEF Fit, StillTaken, Taken, Opened, Closed
  <1>6. Kept(i)'
    <2>1. ~Copying(i) BY <1>0, <1>i, NotCopying
    <2> QED BY <1>0, <1>3, <2>1 DEF IInv, Sound, Kept, WholeCell
  <1>7. \A k \in Keys : entry'[i].key = k => Reachable(k, i)
    BY <1>3 DEF IInv, Sound
  <1> QED BY <1>0, <1>i, <1>1, <1>3, <1>4, <1>5, <1>6, <1>7, OwnerStep

----------------------------------------------------------------------------
\* The empty table satisfies the invariant, and every step keeps it.
LEMMA InitInv == Init => IInv
  <1> SUFFICES ASSUME Init PROVE IInv
    OBVIOUS
  <1>1. TypeOK BY InitType
  <1>2. \A t \in Threads : me[t] = Idle
    BY DEF Init
  <1>3. ASSUME NEW t \in Threads PROVE Fit(t) /\ ~Writing(t)
    <2>1. me[t].pc = "idle" /\ me[t].version = 0 /\ me[t].expected = 0 /\ ~Odd(0)
      BY <1>2 DEF Idle, Odd
    <2> QED BY <2>1 DEF Fit, Working, EvenVersions, OwnsOdd, StillTaken, StillFreed, Stored,
                        Probing, Writing
  <1>4. Exclusive BY <1>3 DEF Exclusive
  <1>5. ASSUME NEW i \in Cells PROVE Sound(i)
    <2>1. entry[i].version = 0 /\ entry[i].key = Empty /\ ~Odd(0)
      BY DEF Init, Odd
    <2> QED BY <2>1, Constants DEF Sound, Owned, Kept
  <1> QED BY <1>1, <1>3, <1>4, <1>5 DEF IInv

\* Every step of every thread keeps the invariant.
LEMMA NextInv == IInv /\ [Next]_vars => IInv'
  <1> SUFFICES ASSUME IInv, [Next]_vars PROVE IInv'
    OBVIOUS
  <1>0. TypeOK' BY NextType DEF IInv, Fit
  <1>1. ASSUME NEW t \in Threads, Step(t) PROVE IInv'
    BY <1>0, <1>1, LoadVersionStep, LoadKeyStep, LoadFlagsStep, CopyOutStep, LoadV2Step,
       LoadVictimStep, ClaimLoadStep, ClaimCasStep, RecheckStep, SetKeyStep, CopyInStep,
       SetTombstoneStep, PublishStep, CountStep DEF Step, Write
  <1>2. ASSUME NEW t \in Threads, NEW k \in Keys, NEW freed \in BOOLEAN, NEW op \in used.by[t],
               Call(t, op, k, freed)
        PROVE  IInv'
    <2>1. op \in {"insert", "find", "erase"} BY <1>2 DEF IInv, TypeOK
    <2> QED BY <1>0, <1>2, <2>1, CallStep
  <1>3. CASE UNCHANGED vars
    <2>1. UNCHANGED <<entry, info, me>> BY <1>3 DEF vars
    <2>2. \A t \in Threads : Fit(t)' <=> Fit(t)
      BY <2>1 DEF Fit, Working, EvenVersions, OwnsOdd, StillTaken, StillFreed, Stored,
                  Probing, Writing, Taken, Freed, Reachable, PathTo, Opened, Closed
    <2>3. Exclusive' BY <2>1 DEF IInv, Exclusive, Writing
    <2>4. \A i \in Cells : Sound(i)'
      BY <2>1 DEF IInv, Sound, Owned, Kept, WholeCell, Copying, Writing,
                  Reachable, PathTo, Opened, Closed
    <2> QED BY <1>0, <2>2, <2>3, <2>4 DEF IInv
  <1> QED BY <1>1, <1>2, <1>3 DEF Next, Finished

\* The inductive invariant of the shadow ledger holds in every reachable state.
THEOREM SpecIInv == Spec => []IInv
  BY InitInv, NextInv, PTL DEF Spec

\* Owns is Writing at the cell.
LEMMA OwnsWriting ==
    ASSUME NEW t \in Threads, NEW i
    PROVE  Owns(t, i) <=> Writing(t) /\ me[t].index = i
  BY DEF Owns, Writing

\* ShadowLedger::Claim gives an entry to one writer at a time, however many
\* threads insert and erase, and although Publish may store a version from
\* before the claim: the versions a thread holds are all even.
THEOREM SpecOneWriter == Spec => []OneWriter
  <1>1. IInv => OneWriter
    BY OwnsWriting DEF IInv, Exclusive, Fit, OwnsOdd, OneWriter
  <1> QED BY <1>1, SpecIInv, PTL

\* An entry nobody is writing holds one whole record of a block: what Find copies
\* under an unchanged even version is never made of two calls' stores.
THEOREM SpecEntryWhole == Spec => []EntryWhole
  <1>1. IInv => EntryWhole
    <2> SUFFICES ASSUME IInv, NEW i \in Cells, entry[i].key \in Keys, ~Odd(entry[i].version)
                 PROVE  WholeCell(i)
      BY DEF EntryWhole, WholeCell
    <2>1. ~Copying(i)
      <3> SUFFICES ASSUME NEW u \in Threads, me[u].pc = "copyIn", me[u].index = i PROVE FALSE
        BY DEF Copying
      <3> QED BY DEF IInv, Fit, OwnsOdd, Writing
    <2> QED BY <2>1 DEF IInv, Sound, Kept
  <1> QED BY <1>1, SpecIInv, PTL

\* No lookup stops short of a stored key at an empty cell: erased cells become
\* tombstones, and a cell that was empty and claimed is always given a key.
THEOREM SpecNoHole == Spec => []NoHole
  <1>1. IInv => NoHole
    BY DEF IInv, Sound, Reachable, PathTo, Opened, NoHole
  <1> QED BY <1>1, SpecIInv, PTL

\* Every step that puts one block's key over another's finds that other record
\* freed: the recheck under the claim still holds when the key is stored.
THEOREM SpecEvictsOnlyFreed == Spec => EvictsOnlyFreed
  <1> DEFINE Evicts == \A i \in Cells :
        ({entry[i].key, entry'[i].key} \subseteq Keys /\ entry'[i].key # entry[i].key)
            => Freed(i)
  <1>1. ASSUME IInv, Next PROVE Evicts
    <2> SUFFICES ASSUME NEW i \in Cells, entry[i].key \in Keys, entry'[i].key \in Keys,
                        entry'[i].key # entry[i].key
                 PROVE  Freed(i)
      OBVIOUS
    <2>0. entry \in [Cells -> Entry] BY <1>1 DEF IInv, TypeOK
    <2>1. PICK t \in Threads : Step(t)
      BY <1>1 DEF Next, Call, Finished, vars
    <2>2. CASE SetKey(t)
      <3>1. me[t].pc = "setKey" /\ me[t].index = i BY <2>0, <2>2 DEF SetKey, Entry
      <3> QED BY <1>1, <3>1 DEF IInv, Fit, StillFreed
    <2>3. CASE SetTombstone(t)
      BY <2>0, <2>3, Constants DEF SetTombstone, Entry
    <2>4. CASE ~SetKey(t) /\ ~SetTombstone(t)
      <3>1. \/ entry' = entry
            \/ \E j, v : entry' = [entry EXCEPT ![j].version = v]
        BY <2>1, <2>4 DEF Step, LoadVersion, LoadKey, LoadFlags, CopyOut, LoadV2, Write,
             LoadVictim, ClaimLoad, ClaimCas, Recheck, CopyIn, Publish, CountEntry
      <3> QED BY <2>0, <3>1 DEF Entry
    <2> QED BY <2>2, <2>3, <2>4
  <1>2. IInv /\ [Next]_vars => [Evicts]_vars
    BY <1>1
  <1> QED BY <1>2, SpecIInv, PTL DEF Spec, EvictsOnlyFreed

----------------------------------------------------------------------------
(* The shadow ledger with one writing thread implements LedgerMap, for every  *)
(* number of threads, keys, cells and calls.                                  *)
(*                                                                            *)
(* The entries are the map because a key has one entry at most: an Insert     *)
(* takes a cell only after it has looked for its key in all of its window, and*)
(* nobody moves entries behind its back.  The versions only grow, because an  *)
(* update in place claims the version it loaded.  So a lookup that finds its  *)
(* version unchanged has copied the map's record, and one that misses its key *)
(* has seen a moment without it, or its entry is still ahead (Looking).       *)

(***************************************************************************)
(* The inductive invariant                                                 *)
(***************************************************************************)
Absent(k) == \A i \in Cells : entry[i].key # k
Visible(i) == ~Odd(entry[i].version)
Unique == \A i, j \in Cells : entry[i].key \in Keys /\ entry[i].key = entry[j].key => i = j
InBloom == \A i \in Cells : entry[i].key \in Keys => entry[i].key \in bloom
Probes == {"version", "key", "flags"}

\* A probe is where it says it is.
InWindow(t) ==
    \/ me[t].pc \in Probes
    \/ me[t].op = "find" /\ me[t].pc \in {"copyOut", "v2"}
    => me[t].probe < MaxProbe /\ me[t].index = Window(me[t].key, me[t].probe)

\* The writer has not found its key so far, and what it remembers is still so.
Searching(w) ==
    me[w].op \in {"insert", "erase"} /\ me[w].pc \in Probes =>
        /\ \A e \in 0 .. me[w].probe - 1 : entry[Window(me[w].key, e)].key # me[w].key
        /\ me[w].firstTombstone # NoCell => entry[me[w].firstTombstone].key = Tombstone
        /\ me[w].firstFreed # NoCell =>
             entry[me[w].firstFreed].key \in Keys /\ Freed(me[w].firstFreed)
        /\ me[w].pc = "flags" => entry[me[w].index].key \in Keys \ {me[w].key}
        /\ me[w].pc = "key" => me[w].version = entry[me[w].index].version

\* What it is about to claim, or has claimed, is what it was looking for.
Claiming(w) ==
    me[w].pc \in {"victim", "claim", "cas", "recheck", "setKey"} =>
        /\ me[w].place = "match" =>
             entry[me[w].index].key = me[w].key /\ me[w].version = entry[me[w].index].version
        /\ me[w].place # "match" => Absent(me[w].key) /\ MayTake(me[w].index, me[w].place)
        /\ me[w].pc = "cas" => me[w].expected = entry[me[w].index].version

\* What it has stored.
Storing(w) ==
    /\ Writing(w) /\ me[w].place = "match" => entry[me[w].index].version = me[w].version + 1
    /\ me[w].op = "insert" =>
         /\ me[w].pc \in {"copyIn", "publish"} => entry[me[w].index].key = me[w].key
         /\ me[w].pc = "publish" => \A x \in Words : info[me[w].index][x] = me[w].rec
    /\ me[w].op = "insert" /\ Pending(w) => me[w].key \in bloom /\ me[w].rec # NoRecord
    /\ me[w].op = "erase" =>
         /\ ~me[w].onEmpty
         /\ me[w].pc = "copyOut" =>
              /\ entry[me[w].index].key = me[w].key
              /\ \A x \in Words \ me[w].left : me[w].copy[x] = info[me[w].index][x]
         /\ me[w].pc \in {"copyOut", "tombstone", "publish"} => WholeCell(me[w].index)
         /\ me[w].pc = "tombstone" => entry[me[w].index].key = me[w].key
         /\ me[w].pc \in {"tombstone", "publish"} => Copied(me[w]) = info[me[w].index]["body"]
         /\ me[w].pc = "publish" => Absent(me[w].key) /\ entry[me[w].index].key = Tombstone

\* As long as a lookup's version is still there, so is what it read.
Reading(t) ==
    me[t].op = "find" =>
        /\ me[t].pc \notin {"publish", "count"}
        /\ me[t].pc \in {"version", "key", "copyOut"} => ~me[t].onEmpty
        /\ me[t].pc \in {"key", "copyOut", "v2"} => me[t].version <= entry[me[t].index].version
        /\ me[t].pc = "v2" /\ ~me[t].onEmpty => me[t].left = {}
        /\ me[t].pc \in {"copyOut", "v2"} /\ me[t].version = entry[me[t].index].version =>
             /\ me[t].onEmpty => entry[me[t].index].key = Empty
             /\ ~me[t].onEmpty =>
                  /\ entry[me[t].index].key = me[t].key
                  /\ \A x \in Words \ me[t].left : me[t].copy[x] = info[me[t].index][x]

Alone(w) ==
    /\ \A t \in Threads \ {w} : me[t].op \in {"none", "find"}
    /\ Unique /\ InBloom
    /\ Searching(w) /\ Claiming(w) /\ Storing(w)
    /\ \A t \in Threads : InWindow(t) /\ Reading(t)

\* The history variable: the map, the calls, and what they have seen.
SeenBy(t) == abs.call[t].seen
Abstract(t) == [CallOf(t) EXCEPT !.seen = SeenBy(t)]
Carried == abs = [map |-> Map, call |-> [t \in Threads |-> Abstract(t)]]
Sees(t) == IF Pending(t) THEN Map[me[t].key] \in SeenBy(t) ELSE SeenBy(t) = {}

\* An Erase has seen nothing else change.
Erasing(w) ==
    me[w].op = "erase" /\ Pending(w) =>
        IF Writing(w) THEN info[me[w].index]["body"] \in SeenBy(w)
                      ELSE SeenBy(w) = {Map[me[w].key]}

\* A lookup has seen a moment without its key, or its key's entry is still ahead.
Ahead(t, p) ==
    \/ NoRecord \in SeenBy(t)
    \/ \E d \in p .. MaxProbe - 1 :
         /\ PathTo(me[t].key, d)
         /\ entry[Window(me[t].key, d)].key = me[t].key /\ Visible(Window(me[t].key, d))
Looking(t) ==
    me[t].op = "find" =>
        /\ me[t].pc \in {"version", "key"} => Ahead(t, me[t].probe)
        /\ me[t].pc = "v2" /\ me[t].onEmpty => Ahead(t, me[t].probe + 1)
        /\ \/ me[t].pc = "key" /\ entry[me[t].index].key = me[t].key
           \/ me[t].pc \in {"copyOut", "v2"} /\ ~me[t].onEmpty
           => me[t].version = entry[me[t].index].version \/ NoRecord \in SeenBy(t)

Abs(w) == Carried /\ Erasing(w) /\ \A t \in Threads : Sees(t) /\ Looking(t)
RefInv == IInv /\ \A w \in Threads : OnlyWriter(w) => Alone(w) /\ Abs(w)

(***************************************************************************)
(* The abstract map and the abstract calls                                 *)
(***************************************************************************)
CallIs(p, o, k, r, b, s) ==
    [pending |-> p, op |-> o, key |-> k, rec |-> r, ok |-> b, seen |-> s]

\* A call that has seen something else.
LEMMA SeenSet ==
    ASSUME NEW p, NEW o, NEW k, NEW r, NEW b, NEW s, NEW s2
    PROVE  [CallIs(p, o, k, r, b, s) EXCEPT !.seen = s2] = CallIs(p, o, k, r, b, s2)
  BY DEF CallIs

\* The fields of a call.
LEMMA CallFields ==
    ASSUME NEW p, NEW o, NEW k, NEW r, NEW b, NEW s
    PROVE  /\ CallIs(p, o, k, r, b, s).pending = p /\ CallIs(p, o, k, r, b, s).op = o
           /\ CallIs(p, o, k, r, b, s).key = k /\ CallIs(p, o, k, r, b, s).rec = r
           /\ CallIs(p, o, k, r, b, s).seen = s
  BY DEF CallIs

AnsweredAs(c, f, b, r) == [c EXCEPT !.pending = f, !.ok = b, !.rec = r, !.seen = {}]

\* A call that has been answered: all but the question is new.
LEMMA Answers ==
    ASSUME NEW p, NEW o, NEW k, NEW r, NEW b, NEW s, NEW f, NEW b2, NEW r2
    PROVE  AnsweredAs(CallIs(p, o, k, r, b, s), f, b2, r2) = CallIs(f, o, k, r2, b2, {})
  <1>1. PICK x : x = [CallIs(p, o, k, r, b, s) EXCEPT !.pending = f, !.ok = b2, !.rec = r2, !.seen = {}]
    OBVIOUS
  <1>2. DOMAIN x = {"pending", "op", "key", "rec", "ok", "seen"} /\ x = [n \in DOMAIN x |-> x[n]]
    BY <1>1 DEF CallIs
  <1>3. /\ x.pending = f /\ x.op = o /\ x.key = k
        /\ x.rec = r2 /\ x.ok = b2 /\ x.seen = {}
    BY <1>1 DEF CallIs
  <1>4. x = CallIs(f, o, k, r2, b2, {})
    BY <1>2, <1>3 DEF CallIs
  <1>5. x = AnsweredAs(CallIs(p, o, k, r, b, s), f, b2, r2)
    BY <1>1, Zenon DEF AnsweredAs
  <1> QED BY <1>4, <1>5, Zenon

\* No call, as LedgerMap has it.
LEMMA NoCallIs == LM!NoCall = CallIs(FALSE, "none", Empty, NoRecord, FALSE, {})
  <1>1. NoRecord.ptr = Empty
    BY DEF NoRecord
  <1> QED BY <1>1, Zenon DEF LM!NoCall, CallIs

\* A call that has just begun, as LedgerMap has it.
LEMMA BegunIs ==
    ASSUME NEW o, NEW k, NEW r
    PROVE  [LM!NoCall EXCEPT !.pending = TRUE, !.op = o, !.key = k, !.rec = r]
             = CallIs(TRUE, o, k, r, FALSE, {})
  <1>0. PICK f, p : f = FALSE /\ p = TRUE
    OBVIOUS
  <1>1. PICK x : x = [CallIs(f, "none", Empty, NoRecord, f, {})
                 EXCEPT !.pending = p, !.op = o, !.key = k, !.rec = r]
    OBVIOUS
  <1>2. DOMAIN x = {"pending", "op", "key", "rec", "ok", "seen"} /\ x = [n \in DOMAIN x |-> x[n]]
    BY <1>1 DEF CallIs
  <1>3. /\ x.pending = p /\ x.op = o /\ x.key = k
        /\ x.rec = r /\ x.ok = f /\ x.seen = {}
    BY <1>1 DEF CallIs
  <1>4. x = CallIs(p, o, k, r, f, {})
    BY <1>2, <1>3 DEF CallIs
  <1> QED BY <1>0, <1>1, <1>4, NoCallIs, Zenon

\* A lookup that was answered at once, as LedgerMap has it.
LEMMA MissedIs ==
    ASSUME NEW o, NEW k
    PROVE  [LM!NoCall EXCEPT !.op = o, !.key = k] = CallIs(FALSE, o, k, NoRecord, FALSE, {})
  <1>0. PICK f : f = FALSE
    OBVIOUS
  <1>1. PICK x : x = [CallIs(f, "none", Empty, NoRecord, f, {}) EXCEPT !.op = o, !.key = k]
    OBVIOUS
  <1>2. DOMAIN x = {"pending", "op", "key", "rec", "ok", "seen"} /\ x = [n \in DOMAIN x |-> x[n]]
    BY <1>1 DEF CallIs
  <1>3. /\ x.pending = f /\ x.op = o /\ x.key = k
        /\ x.rec = NoRecord /\ x.ok = f /\ x.seen = {}
    BY <1>1 DEF CallIs
  <1>4. x = CallIs(f, o, k, NoRecord, f, {})
    BY <1>2, <1>3 DEF CallIs
  <1> QED BY <1>0, <1>1, <1>4, NoCallIs, Zenon

\* Which record the table has for a key.
MapOf(e, f) == [k \in Keys |-> LET at == {i \in Cells : e[i].key = k /\ ~Odd(e[i].version)} IN
                  IF at = {} THEN NoRecord ELSE f[CHOOSE i \in at : TRUE]["body"]]

\* The map is a function of the entries and the records, now and after a step.
LEMMA MapIs == Map = MapOf(entry, info) /\ Map' = MapOf(entry', info')
  BY DEF Map, MapOf, Published

\* The only cell with a key, when it is visible, has the key's record.
LEMMA MapFound ==
    ASSUME NEW e, NEW f, NEW k \in Keys, NEW i \in Cells, e[i].key = k, ~Odd(e[i].version),
           \A j \in Cells : e[j].key = k => j = i
    PROVE  MapOf(e, f)[k] = f[i]["body"]
  <1> DEFINE at == {j \in Cells : e[j].key = k /\ ~Odd(e[j].version)}
  <1>1. at = {i}
    OBVIOUS
  <1>2. (CHOOSE j \in at : TRUE) = i
    BY <1>1
  <1> QED BY <1>1, <1>2 DEF MapOf

\* A key that no visible cell has is not in the map.
LEMMA MapMissed ==
    ASSUME NEW e, NEW f, NEW k \in Keys,
           \A i \in Cells : e[i].key = k => Odd(e[i].version)
    PROVE  MapOf(e, f)[k] = NoRecord
  <1>1. {j \in Cells : e[j].key = k /\ ~Odd(e[j].version)} = {}
    OBVIOUS
  <1> QED BY <1>1 DEF MapOf

\* What the history variable has of a call.
Ok(t) == me[t].ok \/ me[t].pc = "count"
Shown(t, s) == CallIs(Pending(t), me[t].op, me[t].key, me[t].rec, Ok(t), s)
ShownNext(t, s) == CallIs(Pending(t)', me'[t].op, me'[t].key, me'[t].rec, Ok(t)', s)

\* The fields of what is shown of a call.
LEMMA ShownFields ==
    ASSUME NEW t \in Threads, NEW s
    PROVE  /\ Shown(t, s).pending <=> Pending(t)
           /\ Shown(t, s).op = me[t].op /\ Shown(t, s).key = me[t].key
           /\ Shown(t, s).rec = me[t].rec /\ Shown(t, s).seen = s
  <1>1. PICK p, b : p = Pending(t) /\ b = Ok(t)
    OBVIOUS
  <1>2. Shown(t, s) = CallIs(p, me[t].op, me[t].key, me[t].rec, b, s)
    BY <1>1, Zenon DEF Shown
  <1> QED BY <1>1, <1>2, CallFields

\* The history variable's calls are what is shown of the calls.
LEMMA AbstractIs ==
    ASSUME NEW t \in Threads
    PROVE  /\ Abstract(t) = Shown(t, SeenBy(t))
           /\ \A s : [CallOf(t)' EXCEPT !.seen = s] = ShownNext(t, s)
  <1>1. CallOf(t) = Shown(t, {}) /\ CallOf(t)' = ShownNext(t, {})
    BY Zenon DEF CallOf, CallIs, Shown, ShownNext, Ok
  <1>2. Abstract(t) = Shown(t, SeenBy(t))
    <2>1. PICK p, o, k, r, b : /\ p = Pending(t) /\ o = me[t].op /\ k = me[t].key
                               /\ r = me[t].rec /\ b = Ok(t)
      OBVIOUS
    <2>2. [CallIs(p, o, k, r, b, {}) EXCEPT !.seen = SeenBy(t)] = CallIs(p, o, k, r, b, SeenBy(t))
      BY SeenSet
    <2> QED BY <1>1, <2>1, <2>2, Zenon DEF Shown, Abstract
  <1>3. ASSUME NEW s PROVE [CallOf(t)' EXCEPT !.seen = s] = ShownNext(t, s)
    <2>1. PICK p, o, k, r, b : /\ p = Pending(t)' /\ o = me'[t].op /\ k = me'[t].key
                               /\ r = me'[t].rec /\ b = Ok(t)'
      OBVIOUS
    <2>2. [CallIs(p, o, k, r, b, {}) EXCEPT !.seen = s] = CallIs(p, o, k, r, b, s)
      BY SeenSet
    <2> QED BY <1>1, <2>1, <2>2, Zenon DEF ShownNext
  <1> QED BY <1>2, <1>3

\* What a call has seen after a step.
SeenNext(t) == IF Pending(t)' THEN SeenBy(t) \cup {Map'[me'[t].key]} ELSE {}

\* What the history variable is after a step while w alone writes: the map and
\* the calls of the new state, each pending one having seen the new map.
LEMMA Remembered ==
    ASSUME NEW w \in Threads, OnlyWriter(w), Remember
    PROVE  /\ abs'.map = Map' /\ abs'.call = [t \in Threads |-> ShownNext(t, SeenNext(t))]
           /\ \A t \in Threads : SeenBy(t)' = SeenNext(t) /\ Sees(t)'
           /\ Carried'
  <1>1. PICK g : g = [t \in Threads |-> [CallOf(t)' EXCEPT !.seen = SeenNext(t)]]
    OBVIOUS
  <1>2. abs' = [map |-> Map', call |-> g]
    BY <1>1 DEF Remember, SingleWriter, SeenNext, SeenBy
  <1>3. DOMAIN g = Threads /\ \A t \in Threads : g[t] = ShownNext(t, SeenNext(t))
    BY <1>1, AbstractIs
  <1>4. g = [t \in Threads |-> ShownNext(t, SeenNext(t))]
    BY <1>1, AbstractIs, Zenon
  <1>5. abs'.map = Map' /\ abs'.call = g
    BY <1>2
  <1>6. \A t \in Threads : SeenBy(t)' = SeenNext(t)
    BY <1>3, <1>5, CallFields DEF SeenBy, ShownNext
  <1>7. \A t \in Threads : Sees(t)'
    BY <1>6 DEF Sees, SeenNext
  <1>8. Carried'
    <2>1. \A t \in Threads : Abstract(t)' = g[t]
      BY <1>1, <1>6 DEF Abstract
    <2>2. g = [t \in Threads |-> Abstract(t)']
      BY <1>1, <2>1
    <2> QED BY <1>2, <2>2 DEF Carried
  <1> QED BY <1>4, <1>5, <1>6, <1>7, <1>8

Unmoved(t) == \A u \in Threads \ {t} : me'[u] = me[u]

\* What the history variable is before a step.
LEMMA CarriedIs ==
    ASSUME Carried
    PROVE  /\ abs.map = Map /\ abs.call = [t \in Threads |-> Shown(t, SeenBy(t))]
           /\ DOMAIN abs.call = Threads
           /\ \A t \in Threads : abs.call[t] = Shown(t, SeenBy(t))
  <1>1. PICK g : g = [t \in Threads |-> Abstract(t)]
    OBVIOUS
  <1>2. abs.map = Map /\ abs.call = g
    BY <1>1 DEF Carried
  <1>3. g = [t \in Threads |-> Shown(t, SeenBy(t))]
    BY <1>1, AbstractIs, Zenon
  <1> QED BY <1>2, <1>3

\* Who does not move has seen what the map is now.
LEMMA UnmovedShown ==
    ASSUME NEW t \in Threads, me'[t] = me[t], Sees(t), Map' = Map
    PROVE  ShownNext(t, SeenNext(t)) = Shown(t, SeenBy(t))
  <1>1. (Pending(t)' <=> Pending(t)) /\ (Ok(t)' <=> Ok(t))
    BY DEF Pending, Ok
  <1>2. Pending(t)' = Pending(t) /\ Ok(t)' = Ok(t)
    BY DEF Pending, Ok
  <1>3. SeenNext(t) = SeenBy(t)
    BY <1>1 DEF SeenNext, Sees
  <1> QED BY <1>2, <1>3, Zenon DEF ShownNext, Shown

\* An answer, or nothing, in a step that leaves the map.
LEMMA CallsKept ==
    ASSUME NEW w \in Threads, OnlyWriter(w), Remember, Carried, \A u \in Threads : Sees(u),
           NEW t \in Threads, Unmoved(t), Map' = Map
    PROVE  /\ abs'.map = abs.map
           /\ abs'.call = [abs.call EXCEPT ![t] = ShownNext(t, SeenNext(t))]
  <1>1. abs'.map = Map' /\ abs'.call = [u \in Threads |-> ShownNext(u, SeenNext(u))]
    BY Remembered
  <1>2. abs.map = Map /\ abs.call = [u \in Threads |-> Shown(u, SeenBy(u))]
    BY CarriedIs
  <1>3. \A u \in Threads \ {t} : ShownNext(u, SeenNext(u)) = Shown(u, SeenBy(u))
    BY UnmovedShown DEF Unmoved
  <1> QED BY <1>1, <1>2, <1>3

\* A step that shows nothing.
SameCall(t) == /\ me'[t].op = me[t].op /\ me'[t].key = me[t].key /\ me'[t].rec = me[t].rec
               /\ Pending(t)' <=> Pending(t)
               /\ Ok(t)' <=> Ok(t)

\* A call of which nothing shown has changed.
LEMMA SameShown ==
    ASSUME NEW t \in Threads, SameCall(t)
    PROVE  \A s : ShownNext(t, s) = Shown(t, s)
  <1>1. Pending(t)' = Pending(t) /\ Ok(t)' = Ok(t)
    BY DEF SameCall, Pending, Ok
  <1> QED BY <1>1, Zenon DEF ShownNext, Shown, SameCall

\* A step that shows nothing of the call and leaves the map is a step of LedgerMap.
LEMMA Quiet ==
    ASSUME NEW w \in Threads, OnlyWriter(w), Remember, Carried, \A u \in Threads : Sees(u),
           NEW t \in Threads, Unmoved(t), Map' = Map, SameCall(t)
    PROVE  abs' = abs /\ LM!Next
  <1>1. /\ abs'.map = abs.map
        /\ abs'.call = [abs.call EXCEPT ![t] = ShownNext(t, SeenNext(t))]
    BY CallsKept
  <1>2. SeenNext(t) = SeenBy(t)
    BY DEF SeenNext, Sees, SameCall
  <1>3. abs.call[t] = ShownNext(t, SeenNext(t))
    BY <1>2, CarriedIs, SameShown
  <1>4. abs'.call = abs.call
    BY <1>1, <1>3, CarriedIs
  <1>5. abs' = [map |-> abs'.map, call |-> abs'.call]
    <2>1. Carried'
      BY Remembered
    <2> QED BY <2>1 DEF Carried
  <1>6. abs = [map |-> abs.map, call |-> abs.call]
    BY DEF Carried
  <1>7. abs' = abs
    BY <1>1, <1>4, <1>5, <1>6, Zenon
  <1> QED BY <1>7 DEF LM!Next, LM!vars

\* Whoever is pending sees the map as it has become.
Before(t) == IF Pending(t)' THEN SeenBy(t) ELSE {}

\* The calls after a step are the calls with their answers, having seen the new map.
LEMMA CallsSee ==
    ASSUME NEW w \in Threads, OnlyWriter(w), Remember, NEW cs,
           \A t \in Threads : cs[t] = ShownNext(t, Before(t))
    PROVE  abs'.call = LM!Seeing(Map', cs)
  <1>1. abs'.call = [t \in Threads |-> ShownNext(t, SeenNext(t))]
    BY Remembered
  <1>2. ASSUME NEW t \in Threads
        PROVE  ShownNext(t, SeenNext(t)) =
                  IF cs[t].pending THEN [cs[t] EXCEPT !.seen = @ \cup {Map'[cs[t].key]}] ELSE cs[t]
    <2>1. PICK p, o, k, r, b, s : /\ p = Pending(t)' /\ o = me'[t].op /\ k = me'[t].key
                                  /\ r = me'[t].rec /\ b = Ok(t)' /\ s = Before(t)
      OBVIOUS
    <2>2. cs[t] = CallIs(p, o, k, r, b, s)
      BY <2>1, Zenon DEF ShownNext
    <2>3. cs[t].pending = p /\ cs[t].key = k /\ cs[t].seen = s
      BY <2>2, CallFields
    <2>s. PICK v : v = s \cup {Map'[k]}
      OBVIOUS
    <2>4. [CallIs(p, o, k, r, b, s) EXCEPT !.seen = v] = CallIs(p, o, k, r, b, v)
      BY SeenSet
    <2>c. [cs[t] EXCEPT !.seen = @ \cup {Map'[cs[t].key]}] = CallIs(p, o, k, r, b, v)
      <3>1. cs[t].seen \cup {Map'[cs[t].key]} = v
        BY <2>3, <2>s, Zenon
      <3> QED BY <2>2, <2>4, <3>1, Zenon
    <2>5. ShownNext(t, SeenNext(t)) = CallIs(p, o, k, r, b, SeenNext(t))
      BY <2>1, Zenon DEF ShownNext
    <2>6. CASE Pending(t)'
      <3>1. cs[t].pending
        BY <2>1, <2>3, <2>6
      <3>2. SeenNext(t) = s \cup {Map'[k]}
        BY <2>1, <2>6 DEF SeenNext, Before
      <3> QED BY <2>c, <2>s, <2>5, <3>1, <3>2, Zenon
    <2>7. CASE ~Pending(t)'
      <3>1. ~cs[t].pending
        BY <2>1, <2>3, <2>7
      <3>2. SeenNext(t) = s
        BY <2>1, <2>7 DEF SeenNext, Before
      <3> QED BY <2>2, <2>5, <3>1, <3>2, Zenon
    <2> QED BY <2>6, <2>7
  <1>3. LM!Seeing(Map', cs) =
          [t \in Threads |-> IF cs[t].pending THEN [cs[t] EXCEPT !.seen = @ \cup {Map'[cs[t].key]}]
                                              ELSE cs[t]]
    BY Zenon DEF LM!Seeing
  <1> QED BY <1>1, <1>2, <1>3, Zenon

\* What a thread that does not move had is what it has before it sees the new map.
LEMMA UnmovedBefore ==
    ASSUME NEW t \in Threads, me'[t] = me[t], Sees(t), Carried
    PROVE  abs.call[t] = ShownNext(t, Before(t))
  <1>1. SameCall(t)
    BY DEF SameCall, Pending, Ok
  <1>2. Before(t) = SeenBy(t)
    BY <1>1 DEF Before, Sees, SameCall
  <1> QED BY <1>1, <1>2, CarriedIs, SameShown

\* A call begins.
LEMMA Begins ==
    ASSUME NEW w \in Threads, OnlyWriter(w), Remember, Carried, \A u \in Threads : Sees(u),
           NEW t \in Threads, Unmoved(t), Map' = Map,
           ~Pending(t), Pending(t)', ~Ok(t)',
           me'[t].op = "insert" => me'[t].rec \in Records /\ me'[t].rec.ptr = me'[t].key,
           me'[t].op \in {"find", "erase"} => me'[t].rec = NoRecord,
           me'[t].op \in {"insert", "find", "erase"}, me'[t].key \in Keys
    PROVE  LM!Next
  <1> DEFINE o == me'[t].op  k == me'[t].key  r == me'[t].rec
             cs == [abs.call EXCEPT ![t] = CallIs(TRUE, o, k, r, FALSE, {})]
  <1>1. DOMAIN abs.call = Threads /\ abs.map = Map /\ abs'.map = Map'
    BY CarriedIs, Remembered
  <1>2. Before(t) = {}
    BY DEF Before, Sees
  <1>3. Pending(t)' = TRUE /\ Ok(t)' = FALSE
    BY DEF Pending, Ok
  <1>4. ShownNext(t, Before(t)) = CallIs(TRUE, o, k, r, FALSE, {})
    BY <1>2, <1>3, Zenon DEF ShownNext
  <1>5. \A u \in Threads : cs[u] = ShownNext(u, Before(u))
    <2>1. PICK x : x = CallIs(TRUE, o, k, r, FALSE, {})
      OBVIOUS
    <2>2. [abs.call EXCEPT ![t] = x][t] = x
      BY <1>1
    <2>3. ASSUME NEW u \in Threads \ {t} PROVE [abs.call EXCEPT ![t] = x][u] = ShownNext(u, Before(u))
      BY <1>1, UnmovedBefore DEF Unmoved
    <2> QED BY <1>4, <2>1, <2>2, <2>3, Zenon
  <1>6. abs'.call = LM!Seeing(abs.map, cs) /\ UNCHANGED abs.map
    <2> HIDE DEF cs
    <2> QED BY <1>1, <1>5, CallsSee
  <1>7. LM!Begin(t, o, k, r)
    BY <1>6, BegunIs, Zenon DEF LM!Begin
  <1>8. ~abs.call[t].pending
    BY CarriedIs, ShownFields
  <1>9. LM!Ask(t)
    <2>1. CASE o = "insert"
      BY <1>7, <1>8, <2>1 DEF LM!Ask
    <2>2. CASE o # "insert"
      BY <1>7, <1>8, <2>2 DEF LM!Ask
    <2> QED BY <2>1, <2>2
  <1> QED BY <1>9 DEF LM!Next


\* A call is answered.
LEMMA Answering ==
    ASSUME NEW w \in Threads, OnlyWriter(w), Remember, Carried, \A u \in Threads : Sees(u),
           NEW t \in Threads, Unmoved(t), Map' = Map, ~Pending(t)',
           me'[t].op = me[t].op, me'[t].key = me[t].key,
           NEW b \in BOOLEAN, Ok(t)' <=> b, NEW r, me'[t].rec = r
    PROVE  /\ abs'.map = abs.map
           /\ abs'.call = [abs.call EXCEPT ![t] = LM!Answered(abs.call[t], b, r)]
  <1>1. /\ abs'.map = abs.map
        /\ abs'.call = [abs.call EXCEPT ![t] = ShownNext(t, SeenNext(t))]
    BY CallsKept
  <1>2. SeenNext(t) = {}
    BY DEF SeenNext
  <1>3. Pending(t)' = FALSE /\ Ok(t)' = b
    BY DEF Pending, Ok
  <1>4. ShownNext(t, SeenNext(t)) = CallIs(FALSE, me[t].op, me[t].key, r, b, {})
    BY <1>2, <1>3, Zenon DEF ShownNext
  <1>5. abs.call[t] = Shown(t, SeenBy(t))
    BY CarriedIs
  <1>6. LM!Answered(abs.call[t], b, r) = CallIs(FALSE, me[t].op, me[t].key, r, b, {})
    <2>1. PICK p, o, k, c, d, s : /\ p = Pending(t) /\ o = me[t].op /\ k = me[t].key
                                  /\ c = me[t].rec /\ d = Ok(t) /\ s = SeenBy(t)
      OBVIOUS
    <2>2. abs.call[t] = CallIs(p, o, k, c, d, s)
      BY <1>5, <2>1, Zenon DEF Shown
    <2>f. PICK f : f = FALSE
      OBVIOUS
    <2>3. AnsweredAs(CallIs(p, o, k, c, d, s), f, b, r) = CallIs(f, o, k, r, b, {})
      BY Answers
    <2>4. LM!Answered(CallIs(p, o, k, c, d, s), b, r) = CallIs(FALSE, o, k, r, b, {})
      BY <2>3, <2>f, Zenon DEF AnsweredAs, LM!Answered
    <2> QED BY <2>1, <2>2, <2>4, Zenon
  <1> QED BY <1>1, <1>4, <1>6, Zenon

\* A lookup answers with what it has seen.
LEMMA Finds ==
    ASSUME NEW w \in Threads, OnlyWriter(w), Remember, Carried, \A u \in Threads : Sees(u),
           NEW t \in Threads, Unmoved(t), Map' = Map, Pending(t), ~Pending(t)',
           me[t].op = "find", me'[t].op = me[t].op, me'[t].key = me[t].key,
           NEW r \in SeenBy(t), me'[t].rec = r, Ok(t)' <=> r # NoRecord
    PROVE  LM!Next
  <1>1. PICK b \in BOOLEAN : b = (r # NoRecord)
    OBVIOUS
  <1>2. /\ abs'.map = abs.map
        /\ abs'.call = [abs.call EXCEPT ![t] = LM!Answered(abs.call[t], b, r)]
    BY <1>1, Answering
  <1>3. abs.call[t].pending /\ abs.call[t].op = "find" /\ r \in abs.call[t].seen
    BY CarriedIs, ShownFields
  <1>4. LM!Found(t)
    BY <1>1, <1>2, <1>3, Zenon DEF LM!Found
  <1>5. LM!Work(t)
    BY <1>3, <1>4, Zenon DEF LM!Work
  <1> QED BY <1>5, Zenon DEF LM!Next

\* An Insert is refused when the map has no record of its key.
LEMMA Refuses ==
    ASSUME NEW w \in Threads, OnlyWriter(w), Remember, Carried, \A u \in Threads : Sees(u),
           NEW t \in Threads, Unmoved(t), Map' = Map, Pending(t), ~Pending(t)',
           me[t].op = "insert", me'[t].op = me[t].op, me'[t].key = me[t].key,
           me'[t].rec = me[t].rec, ~Ok(t)', Map[me[t].key] = NoRecord
    PROVE  LM!Next
  <1>2. /\ abs'.map = abs.map
        /\ abs'.call = [abs.call EXCEPT ![t] = LM!Answered(abs.call[t], FALSE, me[t].rec)]
    BY Answering
  <1>3. /\ abs.call[t].pending /\ abs.call[t].op = "insert"
        /\ abs.call[t].rec = me[t].rec /\ abs.map[abs.call[t].key] = NoRecord
    BY CarriedIs, ShownFields
  <1>4. LM!Refuse(t)
    BY <1>2, <1>3, Zenon DEF LM!Refuse
  <1>5. LM!Work(t)
    BY <1>3, <1>4, Zenon DEF LM!Work
  <1> QED BY <1>5, Zenon DEF LM!Next

\* An Erase that has nothing to take out has seen nothing else.
LEMMA ErasesNone ==
    ASSUME NEW w \in Threads, OnlyWriter(w), Remember, Carried, \A u \in Threads : Sees(u),
           NEW t \in Threads, Unmoved(t), Map' = Map, Pending(t), ~Pending(t)',
           me[t].op = "erase", me'[t].op = me[t].op, me'[t].key = me[t].key,
           me'[t].rec = NoRecord, ~Ok(t)', Map[me[t].key] = NoRecord,
           SeenBy(t) = {NoRecord}
    PROVE  LM!Next
  <1>2. /\ abs'.map = abs.map
        /\ abs'.call = [abs.call EXCEPT ![t] = LM!Answered(abs.call[t], FALSE, NoRecord)]
    BY Answering
  <1>3. /\ abs.call[t].pending /\ abs.call[t].op = "erase"
        /\ abs.call[t].seen = {NoRecord} /\ abs.map[abs.call[t].key] = NoRecord
    BY CarriedIs, ShownFields
  <1>4. LM!Erased(t)
    BY <1>2, <1>3, Zenon DEF LM!Erased
  <1>5. LM!Work(t)
    BY <1>3, <1>4, Zenon DEF LM!Work
  <1> QED BY <1>5, Zenon DEF LM!Next

\* An Erase returns the record it took out.
LEMMA Erases ==
    ASSUME NEW w \in Threads, OnlyWriter(w), Remember, Carried, \A u \in Threads : Sees(u),
           NEW t \in Threads, Unmoved(t), Map' = Map, Pending(t), ~Pending(t)',
           me[t].op = "erase", me'[t].op = me[t].op, me'[t].key = me[t].key,
           NEW r \in SeenBy(t), r # NoRecord, me'[t].rec = r, Ok(t)',
           Map[me[t].key] = NoRecord
    PROVE  LM!Next
  <1>2. /\ abs'.map = abs.map
        /\ abs'.call = [abs.call EXCEPT ![t] = LM!Answered(abs.call[t], TRUE, r)]
    BY Answering
  <1>3. /\ abs.call[t].pending /\ abs.call[t].op = "erase"
        /\ r \in abs.call[t].seen \ {NoRecord} /\ abs.map[abs.call[t].key] = NoRecord
    BY CarriedIs, ShownFields
  <1>4. LM!Erased(t)
    BY <1>2, <1>3, Zenon DEF LM!Erased
  <1>5. LM!Work(t)
    BY <1>3, <1>4, Zenon DEF LM!Work
  <1> QED BY <1>5, Zenon DEF LM!Next

\* A lookup that the Bloom filter answers.
LEMMA Misses ==
    ASSUME NEW w \in Threads, OnlyWriter(w), Remember, Carried, \A u \in Threads : Sees(u),
           NEW t \in Threads, Unmoved(t), Map' = Map, ~Pending(t), ~Pending(t)', ~Ok(t)',
           NEW k \in Keys, me'[t].op = "find", me'[t].key = k, me'[t].rec = NoRecord,
           Map[k] = NoRecord
    PROVE  LM!Next
  <1>1. /\ abs'.map = abs.map
        /\ abs'.call = [abs.call EXCEPT ![t] = ShownNext(t, SeenNext(t))]
    BY CallsKept
  <1>2. SeenNext(t) = {}
    BY DEF SeenNext
  <1>3. Pending(t)' = FALSE /\ Ok(t)' = FALSE
    BY DEF Pending, Ok
  <1>4. ShownNext(t, SeenNext(t)) = CallIs(FALSE, "find", k, NoRecord, FALSE, {})
    BY <1>2, <1>3, Zenon DEF ShownNext
  <1>5. ShownNext(t, SeenNext(t)) = [LM!NoCall EXCEPT !.op = "find", !.key = k]
    <2>1. PICK o : o = "find"
      OBVIOUS
    <2>2. [LM!NoCall EXCEPT !.op = o, !.key = k] = CallIs(FALSE, o, k, NoRecord, FALSE, {})
      BY MissedIs
    <2> QED BY <1>4, <2>1, <2>2, Zenon
  <1>6. ~abs.call[t].pending /\ abs.map[k] = NoRecord
    BY CarriedIs, ShownFields
  <1>7. LM!Miss(t, k)
    BY <1>1, <1>5, <1>6, Zenon DEF LM!Miss
  <1>8. LM!Ask(t)
    BY <1>6, <1>7, Zenon DEF LM!Ask
  <1> QED BY <1>8, Zenon DEF LM!Next

\* A record leaves the map.
LEMMA TakesOut ==
    ASSUME NEW w \in Threads, OnlyWriter(w), Remember, Carried, \A u \in Threads : Sees(u),
           NEW t \in Threads, Unmoved(t), SameCall(t), Pending(t),
           NEW k \in Keys, Map[k] # NoRecord, Map' = [Map EXCEPT ![k] = NoRecord],
           \/ me[t].op \in {"insert", "erase"} /\ me[t].key = k
           \/ me[t].op = "insert" /\ Map[k].freed
    PROVE  LM!Next
  <1>1. /\ abs.map = Map /\ abs'.map = Map'
        /\ abs.call[t] = Shown(t, SeenBy(t))
    BY CarriedIs, Remembered
  <1>2. \A u \in Threads : abs.call[u] = ShownNext(u, Before(u))
    <2>1. ASSUME NEW u \in Threads \ {t} PROVE abs.call[u] = ShownNext(u, Before(u))
      BY UnmovedBefore DEF Unmoved
    <2>2. Before(t) = SeenBy(t)
      BY DEF Before, SameCall
    <2>3. abs.call[t] = ShownNext(t, Before(t))
      BY <1>1, <2>2, SameShown
    <2> QED BY <2>1, <2>3
  <1>3. abs'.call = LM!Seeing(abs'.map, abs.call)
    BY <1>1, <1>2, CallsSee, Zenon
  <1>4. /\ abs.call[t].pending /\ abs.call[t].op = me[t].op /\ abs.call[t].key = me[t].key
    BY <1>1, ShownFields
  <1>5. LM!TakeOut(t, k)
    BY <1>1, <1>3, <1>4, Zenon DEF LM!TakeOut
  <1>6. LM!Work(t)
    BY <1>4, <1>5, Zenon DEF LM!Work
  <1> QED BY <1>6, Zenon DEF LM!Next

\* An Insert's record enters the map.
LEMMA Puts ==
    ASSUME NEW w \in Threads, OnlyWriter(w), Remember, Carried, \A u \in Threads : Sees(u),
           NEW t \in Threads, Unmoved(t), Pending(t), ~Pending(t)', Ok(t)',
           me[t].op = "insert", me'[t].op = me[t].op, me'[t].key = me[t].key,
           me'[t].rec = me[t].rec, Map' = [Map EXCEPT ![me[t].key] = me[t].rec]
    PROVE  LM!Next
  <1>1. /\ abs.map = Map /\ abs'.map = Map' /\ DOMAIN abs.call = Threads
        /\ abs.call[t] = Shown(t, SeenBy(t))
    BY CarriedIs, Remembered
  <1>2. /\ abs.call[t].pending /\ abs.call[t].op = "insert" /\ abs.call[t].key = me[t].key
        /\ abs.call[t].rec = me[t].rec
    BY <1>1, ShownFields
  <1>3. LM!Answered(abs.call[t], TRUE, me[t].rec) = ShownNext(t, Before(t))
    <2>1. PICK p, o, k, c, d, s : /\ p = Pending(t) /\ o = me[t].op /\ k = me[t].key
                                  /\ c = me[t].rec /\ d = Ok(t) /\ s = SeenBy(t)
      OBVIOUS
    <2>2. abs.call[t] = CallIs(p, o, k, c, d, s)
      BY <1>1, <2>1, Zenon DEF Shown
    <2>3. LM!Answered(CallIs(p, o, k, c, d, s), TRUE, c) = CallIs(FALSE, o, k, c, TRUE, {})
      <3>1. PICK b, f : b = TRUE /\ f = FALSE
        OBVIOUS
      <3>2. AnsweredAs(CallIs(p, o, k, c, d, s), f, b, c) = CallIs(f, o, k, c, b, {})
        BY Answers
      <3> QED BY <3>1, <3>2, Zenon DEF AnsweredAs, LM!Answered
    <2>4. Before(t) = {} /\ Pending(t)' = FALSE /\ Ok(t)' = TRUE
      BY DEF Before, Pending, Ok
    <2>5. ShownNext(t, Before(t)) = CallIs(FALSE, o, k, c, TRUE, {})
      BY <2>1, <2>4, Zenon DEF ShownNext
    <2> QED BY <2>1, <2>2, <2>3, <2>5, Zenon
  <1>4. PICK a : a = LM!Answered(abs.call[t], TRUE, me[t].rec)
    OBVIOUS
  <1>5. PICK cs : cs = [abs.call EXCEPT ![t] = a]
    OBVIOUS
  <1>6. \A u \in Threads : cs[u] = ShownNext(u, Before(u))
    <2>1. ASSUME NEW u \in Threads \ {t} PROVE abs.call[u] = ShownNext(u, Before(u))
      BY UnmovedBefore DEF Unmoved
    <2>2. cs[t] = a /\ \A u \in Threads \ {t} : cs[u] = abs.call[u]
      BY <1>1, <1>5
    <2> QED BY <1>3, <1>4, <2>1, <2>2, Zenon
  <1>7. abs'.call = LM!Seeing(abs'.map, cs)
    BY <1>1, <1>6, CallsSee, Zenon
  <1>8. cs = [abs.call EXCEPT ![t] = LM!Answered(abs.call[t], TRUE, abs.call[t].rec)]
    BY <1>2, <1>4, <1>5, Zenon
  <1>9. abs'.map = [abs.map EXCEPT ![abs.call[t].key] = abs.call[t].rec]
    BY <1>1, <1>2, Zenon
  <1>10. LM!Put(t)
    BY <1>2, <1>7, <1>8, <1>9, Zenon DEF LM!Put
  <1>11. LM!Work(t)
    BY <1>2, <1>10, Zenon DEF LM!Work
  <1> QED BY <1>11, Zenon DEF LM!Next

(***************************************************************************)
(* Who does not move                                                       *)
(***************************************************************************)
Ref(w) == IInv /\ OnlyWriter(w) /\ Alone(w) /\ Abs(w)
Reads(t) == InWindow(t) /\ Reading(t) /\ Looking(t)
Writes(w) == Searching(w) /\ Claiming(w) /\ Storing(w) /\ Erasing(w)

\* What a step may do to the cells: a visible one is claimed or left alone, and
\* only what nobody sees changes its key.
Moves == \A i \in Cells :
    /\ entry[i].version <= entry'[i].version
    /\ Visible(i) => \/ entry'[i] = entry[i] /\ info'[i] = info[i]
                     \/ ~Visible(i)' /\ entry'[i].key = entry[i].key
    /\ Visible(i)' => entry'[i].key = entry[i].key
    /\ Opened(i) => Opened(i)'

\* Cells that do not change do what a step may do.
LEMMA StillMoves ==
    ASSUME IInv, UNCHANGED <<entry, info>>
    PROVE  Moves
  <1>1. \A i \in Cells : entry[i].version \in Nat
    BY DEF IInv, TypeOK, Entry
  <1> QED BY <1>1 DEF Moves, Visible, Opened, Closed

\* A key whose only cell is being written has no record.
LEMMA Hidden ==
    ASSUME NEW k \in Keys, NEW i \in Cells
    PROVE  /\ Unique /\ entry[i].key = k /\ ~Visible(i) => Map[k] = NoRecord
           /\ (Unique /\ entry[i].key = k /\ ~Visible(i))' => Map'[k] = NoRecord
  <1>1. ASSUME Unique, entry[i].key = k, ~Visible(i) PROVE Map[k] = NoRecord
    BY <1>1, MapIs, MapMissed DEF Unique, Visible
  <1>2. ASSUME Unique', entry'[i].key = k, ~Visible(i)' PROVE Map'[k] = NoRecord
    BY <1>2, MapIs, MapMissed DEF Unique, Visible
  <1> QED BY <1>1, <1>2

\* A visible cell has its key's record.
LEMMA Shows ==
    ASSUME NEW k \in Keys, NEW i \in Cells
    PROVE  /\ Unique /\ entry[i].key = k /\ Visible(i) => Map[k] = info[i]["body"]
           /\ (Unique /\ entry[i].key = k /\ Visible(i))' => Map'[k] = info'[i]["body"]
  <1>1. ASSUME Unique, entry[i].key = k, Visible(i) PROVE Map[k] = info[i]["body"]
    BY <1>1, MapIs, MapFound DEF Unique, Visible
  <1>2. ASSUME Unique', entry'[i].key = k, Visible(i)' PROVE Map'[k] = info'[i]["body"]
    BY <1>2, MapIs, MapFound DEF Unique, Visible
  <1> QED BY <1>1, <1>2

\* A key that no cell has is not in the map.
LEMMA AbsentMissed ==
    ASSUME NEW k \in Keys
    PROVE  (Absent(k) => Map[k] = NoRecord) /\ (Absent(k)' => Map'[k] = NoRecord)
  BY MapIs, MapMissed DEF Absent

\* A call that does not move keeps what it knows while others move: a version
\* that is still there after a step was there before it, with the same record,
\* and an entry ahead of a lookup stays, or is hidden and the lookup has seen that.
LEMMA ReaderStays ==
    ASSUME NEW w \in Threads, Ref(w), IInv', Moves, Unique', Remember,
           NEW t \in Threads, me'[t] = me[t]
    PROVE  Reads(t)'
  <1>0. /\ Fields(me[t]) /\ Working(t) /\ ~Odd(me[t].version) /\ Unique
        /\ entry \in [Cells -> Entry]
        /\ InWindow(t) /\ Reading(t) /\ Looking(t) /\ Sees(t)
    BY DEF Ref, IInv, TypeOK, Fit, EvenVersions, Alone, Abs
  <1>1. SeenBy(t)' = SeenNext(t) /\ Pending(t)' = Pending(t)
    BY Remembered DEF Ref, Abs, Pending
  <1>2. InWindow(t)'
    BY <1>0 DEF InWindow, Window
  <1>3. ASSUME me[t].pc \in {"copyOut", "v2"}, me[t].op = "find",
               me[t].version = entry'[me[t].index].version
        PROVE  /\ me[t].version = entry[me[t].index].version
               /\ entry'[me[t].index] = entry[me[t].index]
               /\ info'[me[t].index] = info[me[t].index]
    <2>1. PICK i \in Cells : i = me[t].index
      BY <1>0, <1>3 DEF Working
    <2>2. entry[i].version \in Nat /\ me[t].version \in Nat /\ me[t].version <= entry[i].version
      BY <1>0, <1>3, <2>1 DEF Fields, Entry, Reading
    <2>3. entry'[i].version = me[t].version /\ entry[i].version <= entry'[i].version
      BY <1>3, <2>1 DEF Moves
    <2>4. entry[i].version = me[t].version
      BY <2>2, <2>3
    <2>5. Visible(i) /\ Visible(i)'
      BY <1>0, <2>3, <2>4 DEF Visible
    <2> QED BY <2>1, <2>4, <2>5 DEF Moves
  <1>4. me[t].op = "find" /\ me[t].pc \in {"key", "copyOut", "v2"}
           => me[t].version <= entry'[me[t].index].version
    <2> SUFFICES ASSUME me[t].op = "find", me[t].pc \in {"key", "copyOut", "v2"}
                 PROVE  me[t].version <= entry'[me[t].index].version
      OBVIOUS
    <2>1. PICK i \in Cells : i = me[t].index
      BY <1>0 DEF Working
    <2>2. entry[i].version \in Nat /\ me[t].version \in Nat /\ me[t].version <= entry[i].version
      BY <1>0, <2>1 DEF Fields, Entry, Reading
    <2>3. entry[i].version <= entry'[i].version
      BY DEF Moves
    <2>4. entry'[i].version \in Nat
      BY DEF IInv, TypeOK, Entry
    <2> QED BY <2>1, <2>2, <2>3, <2>4
  <1>5. Reading(t)'
    BY <1>0, <1>3, <1>4 DEF Reading
  <1>6. ASSUME NEW i \in Cells, Pending(t), me[t].key \in Keys, entry'[i].key = me[t].key,
               ~Visible(i)'
        PROVE  NoRecord \in SeenBy(t)'
    <2>1. Map'[me[t].key] = NoRecord
      BY <1>6, Hidden
    <2> QED BY <1>1, <1>6, <2>1 DEF SeenNext
  <1>7. Pending(t) /\ NoRecord \in SeenBy(t) => NoRecord \in SeenBy(t)'
    BY <1>1 DEF SeenNext
  <1>8. ASSUME NEW p \in Nat, Pending(t), me[t].key \in Keys, Ahead(t, p) PROVE Ahead(t, p)'
    <2>1. CASE NoRecord \in SeenBy(t)
      BY <1>7, <1>8, <2>1 DEF Ahead
    <2>2. CASE NoRecord \notin SeenBy(t)
      <3>1. PICK d \in p .. MaxProbe - 1 :
              /\ PathTo(me[t].key, d)
              /\ entry[Window(me[t].key, d)].key = me[t].key /\ Visible(Window(me[t].key, d))
        BY <1>8, <2>2 DEF Ahead
      <3>2. d \in Nat /\ Window(me[t].key, d) \in Cells
        <4>1. d \in Nat
          BY Constants
        <4> QED BY <1>8, <4>1, WindowStep
      <3>3. PathTo(me[t].key, d)'
        <4> SUFFICES ASSUME NEW e \in 0 .. d - 1 PROVE Opened(Window(me[t].key, e))'
          BY DEF PathTo
        <4>1. PICK j \in Cells : j = Window(me[t].key, e)
          BY <1>8, WindowStep
        <4>2. Opened(j)
          BY <3>1, <4>1 DEF PathTo
        <4> QED BY <4>1, <4>2 DEF Moves
      <3>4. PICK i \in Cells : i = Window(me[t].key, d)
        BY <3>2
      <3>5. CASE ~Visible(i)'
        <4>1. entry'[i].key = me[t].key
          BY <3>1, <3>4, <3>5 DEF Moves
        <4> QED BY <1>6, <1>8, <3>5, <4>1 DEF Ahead
      <3>6. CASE Visible(i)'
        <4>1. entry'[i].key = me[t].key
          BY <3>1, <3>4, <3>6 DEF Moves
        <4> QED BY <3>1, <3>3, <3>4, <3>6, <4>1 DEF Ahead, Window
      <3> QED BY <3>5, <3>6
    <2> QED BY <2>1, <2>2
  <1>9. Looking(t)'
    <2> SUFFICES ASSUME me[t].op = "find" PROVE Looking(t)'
      BY DEF Looking
    <2>1. CASE me[t].pc \notin {"version", "key", "copyOut", "v2"}
      BY <2>1 DEF Looking
    <2>2. CASE me[t].pc \in {"version", "key", "copyOut", "v2"}
      <3>1. PICK i \in Cells : i = me[t].index
        BY <1>0, <2>2 DEF Working
      <3>2. Pending(t) /\ me[t].key \in Keys /\ me[t].probe \in Nat /\ me[t].probe + 1 \in Nat
        BY <1>0, <2>2 DEF Pending, Working, Fields
      <3>3. me[t].pc \in {"version", "key"} => Ahead(t, me[t].probe)'
        BY <1>0, <1>8, <3>2 DEF Looking
      <3>4. me[t].pc = "v2" /\ me[t].onEmpty => Ahead(t, me[t].probe + 1)'
        BY <1>0, <1>8, <3>2 DEF Looking
      <3>5. ASSUME me[t].version = entry[i].version, entry'[i].key = me[t].key,
                   entry[i].key = me[t].key
            PROVE  me[t].version = entry'[i].version \/ NoRecord \in SeenBy(t)'
        <4>1. Visible(i)
          BY <1>0, <3>5 DEF Visible
        <4>2. CASE ~Visible(i)'
          BY <1>6, <3>2, <3>5, <4>2
        <4>3. CASE Visible(i)'
          BY <3>5, <4>1, <4>3 DEF Moves
        <4> QED BY <4>2, <4>3
      <3>6. ASSUME me[t].pc = "key", entry'[i].key = me[t].key
            PROVE  me[t].version = entry'[i].version \/ NoRecord \in SeenBy(t)'
        <4>1. CASE entry[i].key = me[t].key
          <5>1. me[t].version = entry[i].version \/ NoRecord \in SeenBy(t)
            BY <1>0, <3>1, <3>6, <4>1 DEF Looking
          <5> QED BY <1>7, <3>2, <3>5, <3>6, <4>1, <5>1
        <4>2. CASE entry[i].key # me[t].key
          <5>1. ~Visible(i)'
            BY <3>6, <4>2 DEF Moves
          <5> QED BY <1>6, <3>2, <3>6, <5>1
        <4> QED BY <4>1, <4>2
      <3>7. ASSUME me[t].pc \in {"copyOut", "v2"}, ~me[t].onEmpty
            PROVE  me[t].version = entry'[i].version \/ NoRecord \in SeenBy(t)'
        <4>1. CASE NoRecord \in SeenBy(t)
          BY <1>7, <3>2, <4>1
        <4>2. CASE me[t].version = entry[i].version
          <5>1. entry[i].key = me[t].key /\ Visible(i)
            BY <1>0, <3>1, <3>7, <4>2 DEF Reading, Visible
          <5>2. entry'[i].key = me[t].key
            BY <5>1 DEF Moves
          <5> QED BY <3>5, <4>2, <5>1, <5>2
        <4> QED BY <1>0, <3>1, <3>7, <4>1, <4>2 DEF Looking
      <3> QED BY <3>1, <3>3, <3>4, <3>6, <3>7 DEF Looking
    <2> QED BY <2>1, <2>2
  <1> QED BY <1>2, <1>5, <1>9 DEF Reads

\* While a lookup of another thread moves, the writer's cells are still.
LEMMA WriterStays ==
    ASSUME NEW w \in Threads, Ref(w), Remember, me'[w] = me[w],
           UNCHANGED <<entry, info, bloom>>
    PROVE  Writes(w)'
  <1>0. Searching(w) /\ Claiming(w) /\ Storing(w) /\ Erasing(w) /\ Sees(w)
    BY DEF Ref, Alone, Abs
  <1>1. SeenBy(w)' = SeenNext(w) /\ Map' = Map
    BY Remembered, MapIs DEF Ref, Abs
  <1>2. (Pending(w)' <=> Pending(w)) /\ (Writing(w)' <=> Writing(w))
    BY DEF Pending, Writing
  <1>3. SeenBy(w)' = SeenBy(w)
    BY <1>0, <1>1, <1>2 DEF SeenNext, Sees
  <1>4. Searching(w)'
    BY <1>0 DEF Searching, Window, Freed
  <1>5. Claiming(w)'
    BY <1>0 DEF Claiming, Absent, MayTake, Freed
  <1>6. Storing(w)'
    BY <1>0, <1>2 DEF Storing, WholeCell, Absent
  <1>7. Erasing(w)'
    BY <1>0, <1>1, <1>2, <1>3 DEF Erasing
  <1> QED BY <1>4, <1>5, <1>6, <1>7 DEF Writes

\* What is left to show of a step.
LEMMA Together ==
    ASSUME NEW w \in Threads, Ref(w), IInv', Remember, NEW t \in Threads, Unmoved(t),
           Moves, Unique', InBloom', Reads(t)', t = w => Writes(w)',
           t # w => me'[t].op = "find" /\ UNCHANGED <<entry, info, bloom>>
    PROVE  Alone(w)' /\ Abs(w)'
  <1>1. \A u \in Threads : Reads(u)'
    BY ReaderStays DEF Unmoved
  <1>2. Writes(w)'
    BY WriterStays DEF Unmoved
  <1>3. \A u \in Threads \ {w} : me'[u].op \in {"none", "find"}
    BY DEF Ref, Alone, Unmoved
  <1>4. Carried' /\ \A u \in Threads : Sees(u)'
    BY Remembered DEF Ref, Abs
  <1>5. Alone(w)'
    BY <1>1, <1>2, <1>3 DEF Alone, Reads, Writes
  <1>6. Abs(w)'
    BY <1>1, <1>2, <1>4 DEF Abs, Reads, Writes
  <1> QED BY <1>5, <1>6

(***************************************************************************)
(* The lookups                                                             *)
(***************************************************************************)
LEMMA Facts ==
    ASSUME NEW w \in Threads, Ref(w), NEW t \in Threads
    PROVE  /\ IInv /\ OnlyWriter(w) /\ Carried /\ \A u \in Threads : Sees(u)
           /\ Unique /\ InBloom /\ InWindow(t) /\ Reading(t) /\ Looking(t)
           /\ DOMAIN me = Threads /\ Fields(me[t]) /\ Working(t)
           /\ ~Odd(me[t].version) /\ entry \in [Cells -> Entry]
  BY DEF Ref, Alone, Abs, IInv, TypeOK, Fit, EvenVersions

\* What a call that has returned leaves to be seen.
LEMMA ReturnedNot ==
    ASSUME NEW t \in Threads, NEW rec, me'[t] = Returned(me[t], FALSE, rec)
    PROVE  /\ me'[t].pc = "idle" /\ me'[t].op = me[t].op /\ me'[t].key = me[t].key
           /\ me'[t].rec = rec /\ ~me'[t].onEmpty /\ ~me'[t].ok
  BY DEF Returned, Idle

\* The same of a call that succeeded.
LEMMA ReturnedDone ==
    ASSUME NEW t \in Threads, NEW rec, me'[t] = Returned(me[t], TRUE, rec)
    PROVE  /\ me'[t].pc = "idle" /\ me'[t].op = me[t].op /\ me'[t].key = me[t].key
           /\ me'[t].rec = rec /\ ~me'[t].onEmpty /\ me'[t].ok
  BY DEF Returned, Idle

\* A lookup's own step.
LEMMA LookupStep ==
    ASSUME NEW w \in Threads, Ref(w), IInv', Remember, NEW t \in Threads, Unmoved(t),
           me'[t].op = "find", me'[t].pc \in {"idle", "version", "key", "copyOut", "v2"},
           UNCHANGED <<entry, info, bloom>>, Reads(t)'
    PROVE  Alone(w)' /\ Abs(w)'
  <1>1. Moves
    BY StillMoves DEF Ref
  <1>2. Unique' /\ InBloom'
    BY Facts DEF Unique, InBloom
  <1>3. t = w => Writes(w)'
    BY DEF Writes, Searching, Claiming, Storing, Erasing, Writing
  <1> QED BY <1>1, <1>2, <1>3, Together

\* A lookup that has returned reads nothing any more.
LEMMA LookupEnds ==
    ASSUME NEW w \in Threads, Ref(w), IInv', Remember, NEW t \in Threads, Unmoved(t),
           me'[t].op = "find", me'[t].pc = "idle", UNCHANGED <<entry, info, bloom>>
    PROVE  Alone(w)' /\ Abs(w)'
  <1>1. Reads(t)'
    BY DEF Reads, InWindow, Reading, Looking, Probes
  <1> QED BY <1>1, LookupStep

\* What is ahead of a lookup does not depend on the lookup's other locals.
LEMMA AheadStays ==
    ASSUME NEW t \in Threads, NEW p, UNCHANGED entry, me'[t].key = me[t].key,
           SeenBy(t)' = SeenBy(t), Ahead(t, p)
    PROVE  Ahead(t, p)'
  BY DEF Ahead, PathTo, Opened, Closed, Visible, Window

\* A lookup may say "unknown" once it has seen that.
LEMMA LookupMisses ==
    ASSUME NEW w \in Threads, Ref(w), IInv', Remember, NEW t \in Threads,
           me[t].op = "find", me[t].pc \in {"version", "key", "v2"},
           me' = [me EXCEPT ![t] = Returned(me[t], FALSE, NoRecord)],
           UNCHANGED <<entry, info, bloom>>, NoRecord \in SeenBy(t)
    PROVE  Alone(w)' /\ Abs(w)' /\ LM!Next
  <1>0. DOMAIN me = Threads /\ OnlyWriter(w) /\ Carried /\ \A u \in Threads : Sees(u)
    BY Facts
  <1>1. me'[t] = Returned(me[t], FALSE, NoRecord) /\ Unmoved(t)
    BY <1>0 DEF Unmoved
  <1>2. /\ me'[t].pc = "idle" /\ me'[t].op = "find" /\ me'[t].key = me[t].key
        /\ me'[t].rec = NoRecord /\ ~me'[t].ok
    BY <1>1, ReturnedNot
  <1>3. Pending(t) /\ ~Pending(t)' /\ ~Ok(t)' /\ Map' = Map
    BY <1>2, MapIs DEF Pending, Ok
  <1>4. LM!Next
    BY <1>0, <1>1, <1>2, <1>3, Finds
  <1> QED BY <1>1, <1>2, <1>4, LookupEnds

\* A lookup goes on to its next cell.
LEMMA LookupNext ==
    ASSUME NEW w \in Threads, Ref(w), IInv', Remember, NEW t \in Threads,
           me[t].op = "find", me[t].pc \in {"version", "key", "v2"},
           NextProbe(t, me[t]), UNCHANGED <<entry, info, bloom>>,
           Ahead(t, me[t].probe + 1)
    PROVE  Alone(w)' /\ Abs(w)' /\ LM!Next
  <1>0. /\ DOMAIN me = Threads /\ OnlyWriter(w) /\ Carried /\ \A u \in Threads : Sees(u)
        /\ Fields(me[t]) /\ me[t].key \in Keys /\ me[t].probe \in Nat
        /\ me[t].probe < MaxProbe /\ me[t].index = Window(me[t].key, me[t].probe)
    BY Facts DEF Working, Fields, InWindow, Probes
  <1>1. CASE me[t].probe + 1 < MaxProbe
    <2> DEFINE j == (me[t].index + 1) % Capacity
               n == [me[t] EXCEPT !.pc = "version", !.probe = @ + 1, !.index = j,
                                  !.onEmpty = FALSE]
    <2>1. me' = [me EXCEPT ![t] = n]
      BY <1>1 DEF NextProbe
    <2>2. j = Window(me[t].key, me[t].probe + 1)
      BY <1>0, WindowStep
    <2> HIDE DEF j
    <2>3. /\ n.pc = "version" /\ n.op = me[t].op /\ n.key = me[t].key /\ n.rec = me[t].rec
          /\ n.probe = me[t].probe + 1 /\ n.index = j /\ n.ok = me[t].ok /\ ~n.onEmpty
      BY <1>0 DEF Fields, Idle
    <2> HIDE DEF n
    <2>4. me'[t] = n /\ Unmoved(t)
      BY <1>0, <2>1 DEF Unmoved
    <2>5. SameCall(t) /\ Map' = Map
      BY <2>3, <2>4, MapIs DEF SameCall, Pending, Ok
    <2>6. abs' = abs /\ LM!Next
      BY <1>0, <2>4, <2>5, Quiet
    <2>p. PICK p : p = me[t].probe + 1
      OBVIOUS
    <2>7. Ahead(t, p)'
      BY <2>3, <2>4, <2>6, <2>p, AheadStays DEF SeenBy
    <2>8. Reads(t)'
      <3>1. InWindow(t)'
        BY <1>1, <2>2, <2>3, <2>4 DEF InWindow, Window
      <3>2. Reading(t)'
        BY <2>3, <2>4 DEF Reading
      <3>3. Looking(t)'
        BY <2>3, <2>4, <2>p, <2>7 DEF Looking
      <3> QED BY <3>1, <3>2, <3>3 DEF Reads
    <2> QED BY <2>3, <2>4, <2>6, <2>8, LookupStep
  <1>2. CASE ~(me[t].probe + 1 < MaxProbe)
    <2>1. me' = [me EXCEPT ![t] = Returned(me[t], FALSE, NoRecord)]
      BY <1>2 DEF NextProbe
    <2>2. NoRecord \in SeenBy(t)
      <3>1. \A d \in me[t].probe + 1 .. MaxProbe - 1 : FALSE
        BY <1>0, <1>2, Constants
      <3> QED BY <3>1 DEF Ahead
    <2> QED BY <2>1, <2>2, LookupMisses
  <1> QED BY <1>1, <1>2

\* A lookup's step that shows nothing.
LEMMA LookupQuiet ==
    ASSUME NEW w \in Threads, Ref(w), Remember, NEW t \in Threads, NEW n,
           me' = [me EXCEPT ![t] = n], UNCHANGED <<entry, info>>,
           me[t].pc \notin {"idle", "count"}, n.pc \notin {"idle", "count"},
           n.op = me[t].op, n.key = me[t].key, n.rec = me[t].rec, n.ok = me[t].ok
    PROVE  LM!Next /\ SeenBy(t)' = SeenBy(t) /\ me'[t] = n /\ Unmoved(t)
  <1>0. DOMAIN me = Threads /\ OnlyWriter(w) /\ Carried /\ \A u \in Threads : Sees(u)
    BY Facts
  <1>1. me'[t] = n /\ Unmoved(t)
    BY <1>0 DEF Unmoved
  <1>2. SameCall(t) /\ Map' = Map
    BY <1>1, MapIs DEF SameCall, Pending, Ok
  <1>3. abs' = abs /\ LM!Next
    BY <1>0, <1>1, <1>2, Quiet
  <1> QED BY <1>1, <1>3 DEF SeenBy

\* The cell in hand is not where the key's record is.
LEMMA AheadSkips ==
    ASSUME NEW t \in Threads, NEW p \in Nat, Ahead(t, p),
           entry[Window(me[t].key, p)].key # me[t].key \/ ~Visible(Window(me[t].key, p))
    PROVE  Ahead(t, p + 1)
  <1>1. \A d \in p .. MaxProbe - 1 : d = p \/ d \in p + 1 .. MaxProbe - 1
    BY Constants
  <1> QED BY <1>1 DEF Ahead

\* A lookup loads the version of its cell: a cell being written is skipped, and
\* then either its key was not there or the lookup sees it missing.
LEMMA FindLoadVersion ==
    ASSUME NEW w \in Threads, Ref(w), IInv', Remember, NEW t \in Threads,
           me[t].op = "find", LoadVersion(t)
    PROVE  Alone(w)' /\ Abs(w)' /\ LM!Next
  <1>0. /\ Fields(me[t]) /\ me[t].key \in Keys /\ me[t].probe \in Nat
        /\ me[t].pc = "version" /\ UNCHANGED <<entry, info, bloom>>
        /\ me[t].probe < MaxProbe /\ me[t].index = Window(me[t].key, me[t].probe)
        /\ Ahead(t, me[t].probe) /\ ~me[t].onEmpty
    BY Facts DEF LoadVersion, Working, Fields, InWindow, Probes, Looking, Reading
  <1>i. PICK i \in Cells : i = me[t].index
    BY <1>0, WindowStep
  <1>1. CASE Odd(entry[i].version)
    <2>1. Ahead(t, me[t].probe + 1)
      BY <1>0, <1>i, <1>1, AheadSkips DEF Visible
    <2>2. NextProbe(t, me[t])
      BY <1>i, <1>1 DEF LoadVersion
    <2> QED BY <1>0, <2>1, <2>2, LookupNext
  <1>2. CASE ~Odd(entry[i].version)
    <2>v. PICK v \in Nat : v = entry[i].version
      BY Facts DEF Entry
    <2> DEFINE n == [me[t] EXCEPT !.version = v, !.pc = "key"]
    <2>1. me' = [me EXCEPT ![t] = n]
      BY <1>i, <1>2, <2>v DEF LoadVersion
    <2>2. /\ n.pc = "key" /\ n.op = me[t].op /\ n.key = me[t].key /\ n.rec = me[t].rec
          /\ n.ok = me[t].ok /\ n.index = i /\ n.probe = me[t].probe /\ n.version = v
          /\ n.onEmpty = me[t].onEmpty
      BY <1>0, <1>i DEF Fields, Idle
    <2> HIDE DEF n
    <2>3. LM!Next /\ SeenBy(t)' = SeenBy(t) /\ me'[t] = n /\ Unmoved(t)
      BY <1>0, <2>1, <2>2, LookupQuiet
    <2>p. PICK p : p = me[t].probe
      OBVIOUS
    <2>4. Ahead(t, p)'
      BY <1>0, <2>p, <2>2, <2>3, AheadStays
    <2>5. InWindow(t)'
      BY <1>0, <1>i, <2>2, <2>3 DEF InWindow, Window
    <2>6. Reading(t)'
      BY <1>0, <2>v, <2>2, <2>3 DEF Reading
    <2>7. Looking(t)'
      BY <1>0, <2>v, <2>p, <2>2, <2>3, <2>4 DEF Looking
    <2> QED BY <1>0, <2>2, <2>3, <2>5, <2>6, <2>7, LookupStep DEF Reads
  <1> QED BY <1>1, <1>2

\* A lookup reads the key of its cell: it copies, asks the version again or goes on.
LEMMA FindLoadKey ==
    ASSUME NEW w \in Threads, Ref(w), IInv', Remember, NEW t \in Threads,
           me[t].op = "find", LoadKey(t)
    PROVE  Alone(w)' /\ Abs(w)' /\ LM!Next
  <1>0. /\ Fields(me[t]) /\ me[t].key \in Keys /\ me[t].probe \in Nat
        /\ me[t].pc = "key" /\ UNCHANGED <<entry, info, bloom>>
        /\ me[t].probe < MaxProbe /\ me[t].index = Window(me[t].key, me[t].probe)
        /\ Ahead(t, me[t].probe) /\ ~me[t].onEmpty /\ InWindow(t) /\ Reading(t) /\ Looking(t)
    BY Facts DEF LoadKey, Working, Fields, InWindow, Probes, Looking, Reading
  <1>i. PICK i \in Cells : i = me[t].index
    BY <1>0, WindowStep
  <1>1. CASE entry[i].key # me[t].key /\ NextProbe(t, me[t])
    <2>1. Ahead(t, me[t].probe + 1)
      BY <1>0, <1>i, <1>1, AheadSkips
    <2> QED BY <1>0, <1>1, <2>1, LookupNext
  <1>2. CASE entry[i].key = me[t].key /\ me' = [me EXCEPT ![t] = Matched(me[t])]
    <2> DEFINE n == [me[t] EXCEPT !.pc = "copyOut", !.left = Words]
    <2>1. me' = [me EXCEPT ![t] = n]
      BY <1>2 DEF Matched
    <2>2. /\ n.pc = "copyOut" /\ n.op = me[t].op /\ n.key = me[t].key /\ n.rec = me[t].rec
          /\ n.ok = me[t].ok /\ n.index = i /\ n.probe = me[t].probe
          /\ n.version = me[t].version /\ n.onEmpty = me[t].onEmpty /\ n.left = Words
      BY <1>0, <1>i DEF Fields, Idle
    <2> HIDE DEF n
    <2>3. LM!Next /\ SeenBy(t)' = SeenBy(t) /\ me'[t] = n /\ Unmoved(t)
      BY <1>0, <2>1, <2>2, LookupQuiet
    <2>5. InWindow(t)'
      BY <1>0, <1>i, <2>2, <2>3 DEF InWindow, Window
    <2>6. Reading(t)'
      BY <1>0, <1>i, <1>2, <2>2, <2>3 DEF Reading
    <2>7. Looking(t)'
      BY <1>0, <1>i, <1>2, <2>2, <2>3 DEF Looking
    <2> QED BY <1>0, <2>2, <2>3, <2>5, <2>6, <2>7, LookupStep DEF Reads
  <1>3. CASE /\ entry[i].key = Empty
             /\ me' = [me EXCEPT ![t] = [me[t] EXCEPT !.pc = "v2", !.onEmpty = TRUE]]
    <2> DEFINE n == [me[t] EXCEPT !.pc = "v2", !.onEmpty = TRUE]
    <2>1. me' = [me EXCEPT ![t] = n]
      BY <1>3
    <2>2. /\ n.pc = "v2" /\ n.op = me[t].op /\ n.key = me[t].key /\ n.rec = me[t].rec
          /\ n.ok = me[t].ok /\ n.index = i /\ n.probe = me[t].probe
          /\ n.version = me[t].version /\ n.onEmpty
      BY <1>0, <1>i DEF Fields, Idle
    <2> HIDE DEF n
    <2>3. LM!Next /\ SeenBy(t)' = SeenBy(t) /\ me'[t] = n /\ Unmoved(t)
      BY <1>0, <2>1, <2>2, LookupQuiet
    <2>p. PICK p : p = me[t].probe + 1
      OBVIOUS
    <2>4. Ahead(t, p)
      BY <1>0, <1>i, <1>3, <2>p, AheadSkips, Constants
    <2>5. Ahead(t, p)'
      BY <1>0, <2>2, <2>3, <2>4, AheadStays
    <2>6. InWindow(t)'
      BY <1>0, <1>i, <2>2, <2>3 DEF InWindow, Window
    <2>7. Reading(t)'
      BY <1>0, <1>i, <1>3, <2>2, <2>3 DEF Reading
    <2>8. Looking(t)'
      BY <2>p, <2>2, <2>3, <2>5 DEF Looking
    <2> QED BY <1>0, <2>2, <2>3, <2>6, <2>7, <2>8, LookupStep DEF Reads
  <1>4. \/ entry[i].key # me[t].key /\ NextProbe(t, me[t])
        \/ entry[i].key = me[t].key /\ me' = [me EXCEPT ![t] = Matched(me[t])]
        \/ /\ entry[i].key = Empty
           /\ me' = [me EXCEPT ![t] = [me[t] EXCEPT !.pc = "v2", !.onEmpty = TRUE]]
    BY <1>0, <1>i, Constants DEF LoadKey, OnTombstone
  <1> QED BY <1>1, <1>2, <1>3, <1>4

\* A lookup copies a word: as long as its version is there, the map's.
LEMMA FindCopyOut ==
    ASSUME NEW w \in Threads, Ref(w), IInv', Remember, NEW t \in Threads,
           me[t].op = "find", CopyOut(t)
    PROVE  Alone(w)' /\ Abs(w)' /\ LM!Next
  <1>0. /\ Fields(me[t]) /\ me[t].key \in Keys /\ me[t].index \in Cells
        /\ me[t].pc = "copyOut" /\ UNCHANGED <<entry, info, bloom>>
        /\ ~me[t].onEmpty /\ InWindow(t) /\ Reading(t) /\ Looking(t)
    BY Facts DEF CopyOut, Working, Reading
  <1>i. PICK i \in Cells : i = me[t].index
    BY <1>0
  <1>1. PICK x \in me[t].left :
          me' = [me EXCEPT ![t].copy[x] = info[i][x], ![t].left = @ \ {x},
                       ![t].pc = IF me[t].left # {x} THEN @
                                 ELSE IF me[t].op = "find" THEN "v2" ELSE "tombstone"]
    BY <1>i DEF CopyOut
  <1>d. PICK d : d = info[i][x]
    OBVIOUS
  <1> DEFINE n == [me[t] EXCEPT !.copy[x] = d, !.left = @ \ {x},
                       !.pc = IF me[t].left # {x} THEN "copyOut" ELSE "v2"]
  <1>2. me' = [me EXCEPT ![t] = n]
    BY <1>0, <1>1, <1>d
  <1>3. /\ n.pc = (IF me[t].left # {x} THEN "copyOut" ELSE "v2")
        /\ n.op = me[t].op /\ n.key = me[t].key /\ n.rec = me[t].rec
        /\ n.ok = me[t].ok /\ n.index = i /\ n.probe = me[t].probe
        /\ n.version = me[t].version /\ n.onEmpty = me[t].onEmpty
        /\ n.left = me[t].left \ {x} /\ n.copy[x] = d /\ x \in Words
        /\ \A y \in Words \ {x} : n.copy[y] = me[t].copy[y]
    BY <1>0, <1>i DEF Fields, Idle
  <1> HIDE DEF n
  <1>4. LM!Next /\ SeenBy(t)' = SeenBy(t) /\ me'[t] = n /\ Unmoved(t)
    BY <1>0, <1>2, <1>3, LookupQuiet
  <1>5. InWindow(t)'
    BY <1>0, <1>i, <1>3, <1>4 DEF InWindow, Window
  <1>6. Reading(t)'
    BY <1>0, <1>i, <1>d, <1>3, <1>4 DEF Reading
  <1>7. Looking(t)'
    BY <1>0, <1>i, <1>3, <1>4 DEF Looking
  <1> QED BY <1>0, <1>3, <1>4, <1>5, <1>6, <1>7, LookupStep DEF Reads

\* A cell in use that nobody writes holds one whole record.
LEMMA VisibleWhole ==
    ASSUME IInv, NEW i \in Cells, entry[i].key \in Keys, Visible(i)
    PROVE  WholeCell(i) /\ \A x \in Words : info[i][x] \in Records
  <1>1. ~Copying(i)
    BY DEF IInv, Fit, OwnsOdd, Writing, Copying, Visible
  <1>2. WholeCell(i)
    BY <1>1 DEF IInv, Sound, Kept
  <1> QED BY <1>2 DEF IInv, TypeOK

\* Two copies of the same record are that record.
LEMMA WholeCopy ==
    ASSUME NEW m, NEW r \in Records, m.copy["body"] = r, m.copy["flags"] = r
    PROVE  Copied(m) = r
  BY DEF Copied, Records

\* A lookup reads the version again and believes its copy, or its empty cell, only
\* when it has not changed; else the record has gone meanwhile, or may be ahead.
LEMMA FindLoadV2 ==
    ASSUME NEW w \in Threads, Ref(w), IInv', Remember, NEW t \in Threads,
           me[t].op = "find", LoadV2(t)
    PROVE  Alone(w)' /\ Abs(w)' /\ LM!Next
  <1>0. /\ Fields(me[t]) /\ me[t].key \in Keys /\ me[t].index \in Cells
        /\ me[t].pc = "v2" /\ UNCHANGED <<entry, info, bloom>>
        /\ InWindow(t) /\ Reading(t) /\ Looking(t) /\ ~Odd(me[t].version)
        /\ Unique /\ Sees(t) /\ Pending(t) /\ IInv /\ DOMAIN me = Threads
        /\ OnlyWriter(w) /\ Carried /\ \A u \in Threads : Sees(u)
    BY Facts DEF LoadV2, Working, Pending
  <1>i. PICK i \in Cells : i = me[t].index
    BY <1>0
  <1>1. CASE ~me[t].onEmpty /\ Accepts(me[t])
    <2>1. Accepts(me[t]) = TRUE /\ entry[i].version = me[t].version
      BY <1>i, <1>1 DEF Accepts
    <2>2. me' = [me EXCEPT ![t] = Returned(me[t], TRUE, Copied(me[t]))]
      BY <1>1, <2>1, Zenon DEF LoadV2
    <2>3. /\ entry[i].key = me[t].key /\ Visible(i)
          /\ \A x \in Words : me[t].copy[x] = info[i][x]
      BY <1>0, <1>i, <1>1, <2>1 DEF Reading, Visible
    <2>4. WholeCell(i) /\ \A x \in Words : info[i][x] \in Records
      BY <1>0, <2>3, VisibleWhole
    <2>5. Copied(me[t]) = info[i]["body"]
      BY <2>3, <2>4, WholeCopy DEF WholeCell, Words
    <2>r. PICK r : r = info[i]["body"]
      OBVIOUS
    <2>6. me'[t] = Returned(me[t], TRUE, r) /\ Unmoved(t)
      BY <1>0, <2>2, <2>5, <2>r DEF Unmoved
    <2>7. /\ me'[t].pc = "idle" /\ me'[t].op = me[t].op /\ me'[t].key = me[t].key
          /\ me'[t].rec = r /\ me'[t].ok
      BY <2>6, ReturnedDone
    <2>8. r \in SeenBy(t) /\ r # NoRecord
      BY <1>0, <2>3, <2>4, <2>r, Shows DEF Sees, WholeCell
    <2>9. ~Pending(t)' /\ Ok(t)' /\ Map' = Map
      BY <1>0, <2>7, MapIs DEF Pending, Ok
    <2>10. LM!Next
      BY <1>0, <2>6, <2>7, <2>8, <2>9, Finds
    <2> QED BY <1>0, <2>6, <2>7, <2>10, LookupEnds
  <1>2. CASE ~me[t].onEmpty /\ ~Accepts(me[t])
    <2>1. Accepts(me[t]) = FALSE /\ entry[i].version # me[t].version
      BY <1>i, <1>2 DEF Accepts
    <2>2. me' = [me EXCEPT ![t] = Returned(me[t], FALSE, NoRecord)]
      BY <1>2, <2>1, Zenon DEF LoadV2
    <2>3. NoRecord \in SeenBy(t)
      BY <1>0, <1>i, <1>2, <2>1 DEF Looking
    <2> QED BY <1>0, <2>2, <2>3, LookupMisses
  <1>3. CASE me[t].onEmpty /\ Accepts(me[t])
    <2>1. me' = [me EXCEPT ![t] = Returned(me[t], FALSE, NoRecord)]
      BY <1>3, Zenon DEF LoadV2
    <2>2. Closed(i) /\ i = Window(me[t].key, me[t].probe)
      BY <1>0, <1>i, <1>3 DEF Reading, Accepts, Closed, InWindow
    <2>3. ASSUME NEW d \in me[t].probe + 1 .. MaxProbe - 1, PathTo(me[t].key, d) PROVE FALSE
      <3>1. me[t].probe \in 0 .. d - 1
        BY <1>0, Constants DEF Fields
      <3> QED BY <2>2, <2>3, <3>1 DEF PathTo, Opened
    <2>4. NoRecord \in SeenBy(t)
      BY <1>0, <1>3, <2>3 DEF Looking, Ahead
    <2> QED BY <1>0, <2>1, <2>4, LookupMisses
  <1>4. CASE me[t].onEmpty /\ ~Accepts(me[t])
    <2>1. NextProbe(t, me[t])
      BY <1>4 DEF LoadV2
    <2> QED BY <1>0, <1>4, <2>1, LookupNext DEF Looking
  <1> QED BY <1>1, <1>2, <1>3, <1>4

\* A lookup begins, and may be answered by the Bloom filter.
LEMMA FindCall ==
    ASSUME NEW w \in Threads, Ref(w), IInv', Remember, NEW t \in Threads,
           NEW k \in Keys, NEW freed \in BOOLEAN, Call(t, "find", k, freed)
    PROVE  Alone(w)' /\ Abs(w)' /\ LM!Next
  <1>0. /\ me[t].pc = "idle" /\ UNCHANGED <<entry, info, bloom>> /\ ~Pending(t)
        /\ DOMAIN me = Threads /\ IInv /\ Unique /\ InBloom
        /\ OnlyWriter(w) /\ Carried /\ \A u \in Threads : Sees(u)
    BY Facts DEF Call, AddToBloom, Pending
  <1>m. PICK m : m = [Idle EXCEPT !.op = "find", !.key = k, !.rec = NoRecord]
    OBVIOUS
  <1>1. m.op = "find" /\ m.key = k /\ m.rec = NoRecord /\ ~m.ok /\ DOMAIN m = DOMAIN Idle
        /\ ~m.onEmpty /\ m.probe = 0
    BY <1>m DEF Idle
  <1>2. PICK maybe \in {TRUE, (k \in bloom)} :
          me' = [me EXCEPT ![t] = IF maybe THEN [m EXCEPT !.pc = "version", !.index = Mix(k)]
                                           ELSE Returned(m, FALSE, NoRecord)]
    BY <1>m DEF Call, MightContain
  <1>3. CASE maybe
    <2> DEFINE n == [m EXCEPT !.pc = "version", !.index = Mix(k)]
    <2>1. me'[t] = n /\ Unmoved(t)
      BY <1>0, <1>2, <1>3 DEF Unmoved
    <2>2. /\ n.pc = "version" /\ n.index = Mix(k) /\ n.op = "find" /\ n.key = k
          /\ n.rec = NoRecord /\ ~n.ok /\ ~n.onEmpty /\ n.probe = 0
      BY <1>1 DEF Idle
    <2> HIDE DEF n
    <2>3. Pending(t)' /\ ~Ok(t)' /\ Map' = Map
      BY <1>0, <2>1, <2>2, MapIs DEF Pending, Ok
    <2>4. LM!Next
      BY <1>0, <2>1, <2>2, <2>3, Begins
    <2>5. Map'[k] \in SeenBy(t)'
      BY <1>0, <2>1, <2>2, <2>3, Remembered DEF SeenNext
    <2>6. Ahead(t, 0)'
      <3>1. CASE Absent(k)
        BY <2>3, <2>5, <3>1, AbsentMissed DEF Ahead
      <3>2. CASE ~Absent(k)
        <4>1. PICK i \in Cells : entry[i].key = k
          BY <3>2 DEF Absent
        <4>2. CASE ~Visible(i)
          BY <1>0, <2>3, <2>5, <4>1, <4>2, Hidden DEF Ahead
        <4>3. CASE Visible(i)
          <5>1. PICK d \in 0 .. MaxProbe - 1 : Window(k, d) = i /\ PathTo(k, d)
            BY <1>0, <4>1 DEF IInv, Sound, Reachable
          <5>2. PathTo(k, d)' /\ entry'[i].key = k /\ Visible(i)' /\ me'[t].key = k
            BY <1>0, <2>1, <2>2, <4>1, <4>3, <5>1 DEF PathTo, Opened, Closed, Visible
          <5> QED BY <5>1, <5>2 DEF Ahead, Window, PathTo
        <4> QED BY <4>2, <4>3
      <3> QED BY <3>1, <3>2
    <2>7. InWindow(t)'
      BY <2>1, <2>2, WindowStep, Constants DEF InWindow, Window
    <2>8. Reading(t)'
      BY <2>1, <2>2 DEF Reading
    <2>9. Looking(t)'
      BY <2>1, <2>2, <2>6 DEF Looking
    <2> QED BY <1>0, <2>1, <2>2, <2>4, <2>7, <2>8, <2>9, LookupStep DEF Reads
  <1>4. CASE ~maybe
    <2>1. k \notin bloom
      BY <1>2, <1>4
    <2>2. me' = [me EXCEPT ![t] = Returned(m, FALSE, NoRecord)]
      BY <1>2, <1>4, Zenon
    <2>3. me'[t] = Returned(m, FALSE, NoRecord) /\ Unmoved(t)
      BY <1>0, <2>2 DEF Unmoved
    <2>4. /\ me'[t].pc = "idle" /\ me'[t].op = "find" /\ me'[t].key = k
          /\ me'[t].rec = NoRecord /\ ~me'[t].ok
      BY <1>1, <2>3 DEF Returned, Idle
    <2>5. Absent(k)
      BY <1>0, <2>1 DEF Absent, InBloom
    <2>6. ~Pending(t)' /\ ~Ok(t)' /\ Map' = Map /\ Map[k] = NoRecord
      BY <1>0, <2>4, <2>5, MapIs, AbsentMissed DEF Pending, Ok
    <2>7. LM!Next
      BY <1>0, <2>3, <2>4, <2>6, Misses
    <2> QED BY <1>0, <2>3, <2>4, <2>7, LookupEnds
  <1> QED BY <1>3, <1>4

\* Every step of a lookup.
LEMMA FindStep ==
    ASSUME NEW w \in Threads, Ref(w), IInv', Remember, NEW t \in Threads,
           me[t].op = "find", Step(t)
    PROVE  Alone(w)' /\ Abs(w)' /\ LM!Next
  <1>0. Working(t) /\ Reading(t)
    BY Facts
  <1>1. ~LoadFlags(t)
    BY <1>0 DEF Working, LoadFlags
  <1>2. ~(LoadVictim(t) \/ ClaimLoad(t) \/ ClaimCas(t) \/ Recheck(t) \/ SetKey(t))
    BY <1>0 DEF Working, LoadVictim, ClaimLoad, ClaimCas, Recheck, SetKey
  <1>3. ~(CopyIn(t) \/ SetTombstone(t) \/ Publish(t) \/ CountEntry(t))
    BY <1>0 DEF Working, Reading, CopyIn, SetTombstone, Publish, CountEntry
  <1>4. LoadVersion(t) \/ LoadKey(t) \/ CopyOut(t) \/ LoadV2(t)
    BY <1>1, <1>2, <1>3 DEF Step, Write
  <1> QED BY <1>4, FindLoadVersion, FindLoadKey, FindCopyOut, FindLoadV2

(***************************************************************************)
(* The writer                                                              *)
(***************************************************************************)
\* Only the writer hides cells, and only its own.
LEMMA OthersVisible ==
    ASSUME NEW w \in Threads, Ref(w), NEW i \in Cells, ~Visible(i)
    PROVE  Writing(w) /\ me[w].index = i
  <1>1. PICK u \in Threads : Writing(u) /\ me[u].index = i
    BY DEF Ref, IInv, Sound, Owned, Visible
  <1>2. CASE u = w
    BY <1>1, <1>2
  <1>3. CASE u # w
    <2>1. me[u].op \in {"none", "find"} /\ Working(u) /\ Reading(u)
      BY <1>3, Facts DEF Ref, Alone
    <2> QED BY <1>1, <2>1 DEF Writing, Working, Reading
  <1> QED BY <1>2, <1>3

\* A writer's step that shows nothing.
LEMMA WriterQuiet ==
    ASSUME NEW w \in Threads, Ref(w), Remember, NEW n, me' = [me EXCEPT ![w] = n], Map' = Map,
           me[w].pc \notin {"idle", "count"}, n.pc \notin {"idle", "count"},
           n.op = me[w].op, n.key = me[w].key, n.rec = me[w].rec, n.ok = me[w].ok
    PROVE  LM!Next /\ SeenBy(w)' = SeenBy(w) /\ me'[w] = n /\ Unmoved(w) /\ Pending(w)
  <1>0. DOMAIN me = Threads /\ OnlyWriter(w) /\ Carried /\ \A u \in Threads : Sees(u)
    BY Facts
  <1>1. me'[w] = n /\ Unmoved(w) /\ Pending(w)
    BY <1>0 DEF Unmoved, Pending
  <1>2. SameCall(w)
    BY <1>1 DEF SameCall, Pending, Ok
  <1>3. abs' = abs /\ LM!Next
    BY <1>0, <1>1, <1>2, Quiet
  <1> QED BY <1>1, <1>3 DEF SeenBy

\* What is left to show of a writer's step.
LEMMA WriterTogether ==
    ASSUME NEW w \in Threads, Ref(w), IInv', Remember, Unmoved(w), me'[w].op # "find",
           Moves, Unique', InBloom', InWindow(w)', Writes(w)'
    PROVE  Alone(w)' /\ Abs(w)'
  <1>1. Reads(w)'
    BY DEF Reads, Reading, Looking
  <1> QED BY <1>1, Together

\* A step that leaves the cells.
LEMMA WriterLocal ==
    ASSUME NEW w \in Threads, Ref(w), IInv', Remember, Unmoved(w), me'[w].op # "find",
           UNCHANGED <<entry, info>>, bloom \subseteq bloom', InWindow(w)', Writes(w)'
    PROVE  Alone(w)' /\ Abs(w)'
  <1>1. Moves
    BY StillMoves DEF Ref
  <1>2. Unique' /\ InBloom'
    BY Facts DEF Unique, InBloom
  <1> QED BY <1>1, <1>2, WriterTogether

\* A call that has returned holds nothing.
LEMMA WriterEnds ==
    ASSUME NEW w \in Threads, me'[w].pc = "idle", ~me'[w].onEmpty
    PROVE  InWindow(w)' /\ (me'[w].op # "find" => Writes(w)')
  BY DEF InWindow, Writes, Searching, Claiming, Storing, Erasing, Probes, Writing, Pending

\* What is known of the writer before its step.
LEMMA WriterFacts ==
    ASSUME NEW w \in Threads, Ref(w)
    PROVE  /\ Searching(w) /\ Claiming(w) /\ Storing(w) /\ Erasing(w) /\ Sees(w)
           /\ Fields(me[w]) /\ Working(w) /\ DOMAIN me = Threads /\ IInv
           /\ OnlyWriter(w) /\ Carried /\ \A u \in Threads : Sees(u)
           /\ Unique /\ InBloom /\ InWindow(w) /\ entry \in [Cells -> Entry]
           /\ info \in [Cells -> [Words -> Records]]
  BY Facts DEF Ref, Alone, Abs, IInv, TypeOK

\* A probe that has gone through its whole window without finding its key.
LEMMA Nowhere ==
    ASSUME IInv, NEW k \in Keys, NEW p \in Nat,
           \A e \in 0 .. p - 1 : entry[Window(k, e)].key # k,
           p >= MaxProbe \/ Closed(Window(k, p))
    PROVE  Absent(k)
  <1> SUFFICES ASSUME NEW i \in Cells, entry[i].key = k PROVE FALSE
    BY DEF Absent
  <1>1. PICK d \in 0 .. MaxProbe - 1 : Window(k, d) = i /\ PathTo(k, d)
    BY DEF IInv, Sound, Reachable
  <1>2. d \in Nat /\ d < MaxProbe
    BY <1>1, Constants
  <1>3. CASE d < p
    <2>1. d \in 0 .. p - 1
      BY <1>2, <1>3
    <2> QED BY <1>1, <2>1
  <1>4. CASE d = p
    BY <1>1, <1>2, <1>4, Constants DEF Closed
  <1>5. CASE d > p
    <2>1. p \in 0 .. d - 1
      BY <1>2, <1>5
    <2> QED BY <1>1, <1>2, <1>5, <2>1, Constants DEF PathTo, Opened
  <1> QED BY <1>2, <1>3, <1>4, <1>5

\* The cell in hand does not have the key: the next one, or the window is done.
LEMMA WriterNext ==
    ASSUME NEW w \in Threads, Ref(w), IInv', Remember,
           me[w].op \in {"insert", "erase"}, me[w].pc \in {"key", "flags"},
           UNCHANGED <<entry, info, bloom>>, entry[me[w].index].key # me[w].key,
           NEW m, Fields(m), NextProbe(w, m),
           m.op = me[w].op, m.key = me[w].key, m.rec = me[w].rec, m.ok = me[w].ok,
           m.index = me[w].index, m.probe = me[w].probe,
           m.firstTombstone # NoCell => entry[m.firstTombstone].key = Tombstone,
           m.firstFreed # NoCell => entry[m.firstFreed].key \in Keys /\ Freed(m.firstFreed)
    PROVE  Alone(w)' /\ Abs(w)' /\ LM!Next
  <1>0. /\ Searching(w) /\ Storing(w) /\ Erasing(w) /\ Sees(w) /\ DOMAIN me = Threads /\ IInv
        /\ OnlyWriter(w) /\ Carried /\ \A u \in Threads : Sees(u)
        /\ m.key \in Keys /\ m.probe \in Nat /\ ~Writing(w) /\ Pending(w)
        /\ m.probe < MaxProbe /\ m.index = Window(m.key, m.probe)
    BY WriterFacts DEF Working, Fields, InWindow, Probes, Writing, Pending
  <1>1. \A e \in 0 .. m.probe : entry[Window(m.key, e)].key # m.key
    <2>1. \A e \in 0 .. m.probe : e = m.probe \/ e \in 0 .. m.probe - 1
      BY <1>0
    <2> QED BY <1>0, <2>1 DEF Searching, Probes
  <1>2. CASE m.probe + 1 < MaxProbe
    <2> DEFINE j == (m.index + 1) % Capacity
               n == [m EXCEPT !.pc = "version", !.probe = @ + 1, !.index = j, !.onEmpty = FALSE]
    <2>1. me' = [me EXCEPT ![w] = n]
      BY <1>2 DEF NextProbe
    <2>2. j = Window(m.key, m.probe + 1)
      BY <1>0, WindowStep
    <2> HIDE DEF j
    <2>3. /\ n.pc = "version" /\ n.op = me[w].op /\ n.key = m.key /\ n.rec = me[w].rec
          /\ n.probe = m.probe + 1 /\ n.index = j /\ n.ok = me[w].ok /\ ~n.onEmpty
          /\ n.firstTombstone = m.firstTombstone /\ n.firstFreed = m.firstFreed
      BY <1>0 DEF Fields, Idle
    <2> HIDE DEF n
    <2>4. LM!Next /\ SeenBy(w)' = SeenBy(w) /\ me'[w] = n /\ Unmoved(w) /\ Map' = Map
      <3>1. Map' = Map
        BY MapIs
      <3> QED BY <2>1, <2>3, <3>1, WriterQuiet
    <2>5. InWindow(w)'
      BY <1>2, <2>2, <2>3, <2>4 DEF InWindow, Window
    <2>6. \A e \in 0 .. n.probe - 1 : entry'[Window(m.key, e)].key # m.key
      BY <1>0, <1>1, <2>3
    <2>7. Searching(w)'
      BY <2>3, <2>4, <2>6 DEF Searching, Window, Freed
    <2>8. Claiming(w)'
      BY <2>3, <2>4 DEF Claiming
    <2>9. Storing(w)'
      BY <1>0, <2>3, <2>4 DEF Storing, Writing
    <2>10. Erasing(w)'
      BY <1>0, <2>3, <2>4 DEF Erasing, Writing
    <2> QED BY <2>3, <2>4, <2>5, <2>7, <2>8, <2>9, <2>10, WriterLocal DEF Writes
  <1>3. CASE ~(m.probe + 1 < MaxProbe)
    <2>1. Absent(m.key)
      <3>1. m.probe + 1 \in Nat /\ m.probe + 1 >= MaxProbe /\ (m.probe + 1) - 1 = m.probe
        BY <1>0, <1>3, Constants
      <3>2. PICK p \in Nat : p = m.probe + 1
        BY <3>1
      <3>3. \A e \in 0 .. p - 1 : entry[Window(m.key, e)].key # m.key
        BY <1>1, <3>1, <3>2
      <3> QED BY <1>0, <3>1, <3>2, <3>3, Nowhere
    <2>2. Map[me[w].key] = NoRecord /\ Map' = Map
      BY <1>0, <2>1, AbsentMissed, MapIs
    <2>3. CASE m.op = "erase" /\ me' = [me EXCEPT ![w] = Returned(m, FALSE, NoRecord)]
      <3>1. me'[w] = Returned(m, FALSE, NoRecord) /\ Unmoved(w)
        BY <1>0, <2>3 DEF Unmoved
      <3>r. /\ me'[w].pc = "idle" /\ me'[w].op = m.op /\ me'[w].key = m.key
            /\ me'[w].rec = NoRecord /\ ~me'[w].ok /\ ~me'[w].onEmpty
        BY <3>1 DEF Returned, Idle
      <3>2. /\ me'[w].pc = "idle" /\ me'[w].op = "erase" /\ me'[w].key = me[w].key
            /\ me'[w].rec = NoRecord /\ ~me'[w].ok /\ ~me'[w].onEmpty
        BY <2>3, <3>r
      <3>3. SeenBy(w) = {NoRecord}
        BY <1>0, <2>2, <2>3 DEF Erasing
      <3>4. ~Pending(w)' /\ ~Ok(w)'
        BY <3>2 DEF Pending, Ok
      <3>5. LM!Next
        BY <1>0, <2>2, <2>3, <3>1, <3>2, <3>3, <3>4, ErasesNone
      <3> QED BY <3>1, <3>2, <3>5, WriterEnds, WriterLocal
    <2>4. CASE m.op = "insert" /\ Failed(w)
      <3>1. me'[w] = Returned(me[w], FALSE, me[w].rec) /\ Unmoved(w)
        BY <1>0, <2>4 DEF Unmoved, Failed
      <3>2. /\ me'[w].pc = "idle" /\ me'[w].op = "insert" /\ me'[w].key = me[w].key
            /\ me'[w].rec = me[w].rec /\ ~me'[w].ok /\ ~me'[w].onEmpty
        BY <2>4, <3>1, ReturnedNot
      <3>4. ~Pending(w)' /\ ~Ok(w)'
        BY <3>2 DEF Pending, Ok
      <3>5. LM!Next
        BY <1>0, <2>2, <2>4, <3>1, <3>2, <3>4, Refuses
      <3> QED BY <3>1, <3>2, <3>5, WriterEnds, WriterLocal
    <2>5. ASSUME NEW i, NEW place \in {"tombstone", "freed"}, m.op = "insert",
                 me' = [me EXCEPT ![w] = AtVictim(m, i, place)], MayTake(i, place)
          PROVE  Alone(w)' /\ Abs(w)' /\ LM!Next
      <3> DEFINE n == [m EXCEPT !.pc = "victim", !.index = i, !.place = place]
      <3>1. me' = [me EXCEPT ![w] = n]
        BY <2>5 DEF AtVictim
      <3>2. /\ n.pc = "victim" /\ n.op = me[w].op /\ n.key = m.key /\ n.rec = me[w].rec
            /\ n.ok = me[w].ok /\ n.index = i /\ n.place = place
        BY <1>0 DEF Fields, Idle
      <3> HIDE DEF n
      <3>3. LM!Next /\ SeenBy(w)' = SeenBy(w) /\ me'[w] = n /\ Unmoved(w)
        BY <2>2, <3>1, <3>2, WriterQuiet
      <3>4. InWindow(w)' /\ Searching(w)'
        BY <2>5, <3>2, <3>3 DEF InWindow, Searching, Probes
      <3>5. Claiming(w)'
        BY <2>1, <2>5, <3>2, <3>3 DEF Claiming, Absent, MayTake, Freed
      <3>6. Storing(w)' /\ Erasing(w)'
        BY <1>0, <2>5, <3>2, <3>3 DEF Storing, Writing, Erasing
      <3> QED BY <2>5, <3>2, <3>3, <3>4, <3>5, <3>6, WriterLocal DEF Writes
    <2>6. CASE /\ m.op = "insert" /\ m.firstTombstone # NoCell
               /\ me' = [me EXCEPT ![w] = AtVictim(m, m.firstTombstone, "tombstone")]
      BY <2>5, <2>6 DEF MayTake
    <2>7. CASE /\ m.op = "insert" /\ m.firstFreed # NoCell
               /\ me' = [me EXCEPT ![w] = AtVictim(m, m.firstFreed, "freed")]
      BY <2>5, <2>7 DEF MayTake
    <2>8. \/ m.op = "erase" /\ me' = [me EXCEPT ![w] = Returned(m, FALSE, NoRecord)]
          \/ m.op = "insert" /\ Failed(w)
          \/ /\ m.op = "insert" /\ m.firstTombstone # NoCell
             /\ me' = [me EXCEPT ![w] = AtVictim(m, m.firstTombstone, "tombstone")]
          \/ /\ m.op = "insert" /\ m.firstFreed # NoCell
             /\ me' = [me EXCEPT ![w] = AtVictim(m, m.firstFreed, "freed")]
      BY <1>3, Zenon DEF NextProbe
    <2> QED BY <2>3, <2>4, <2>6, <2>7, <2>8
  <1> QED BY <1>2, <1>3

\* An Insert or an Erase begins, and has seen the map as it is.
LEMMA WriterCall ==
    ASSUME NEW w \in Threads, Ref(w), IInv', Remember, NEW k \in Keys, NEW freed \in BOOLEAN,
           NEW op \in {"insert", "erase"}, Call(w, op, k, freed)
    PROVE  Alone(w)' /\ Abs(w)' /\ LM!Next
  <1>0. /\ me[w].pc = "idle" /\ UNCHANGED <<entry, info>> /\ ~Pending(w) /\ Sees(w)
        /\ DOMAIN me = Threads /\ IInv /\ OnlyWriter(w) /\ Carried
        /\ \A u \in Threads : Sees(u)
    BY WriterFacts DEF Call, Pending
  <1>r. PICK rec : rec = IF op = "insert" THEN [ptr |-> k, n |-> used.calls + 1, freed |-> freed]
                                          ELSE NoRecord
    OBVIOUS
  <1>s. /\ op = "insert" => rec \in Records /\ rec.ptr = k /\ rec # NoRecord
        /\ op = "erase" => rec = NoRecord
    <2>1. op = "insert" => rec \in Records /\ rec.ptr = k
      BY <1>0, <1>r, Constants DEF Call, TypeOK, Records, IInv
    <2>2. NoRecord.ptr = Empty /\ k # Empty
      BY Constants DEF NoRecord
    <2> QED BY <1>r, <2>1, <2>2
  <1> DEFINE n == [Idle EXCEPT !.op = op, !.key = k, !.rec = rec, !.pc = "version",
                               !.index = Mix(k)]
  <1>1. me' = [me EXCEPT ![w] = n]
    BY <1>r DEF Call, MightContain
  <1>2. /\ n.pc = "version" /\ n.index = Mix(k) /\ n.op = op /\ n.key = k
        /\ n.rec = rec /\ ~n.ok /\ ~n.onEmpty /\ n.probe = 0
        /\ n.firstTombstone = NoCell /\ n.firstFreed = NoCell
    BY DEF Idle
  <1> HIDE DEF n
  <1>3. me'[w] = n /\ Unmoved(w)
    BY <1>0, <1>1 DEF Unmoved
  <1>4. Pending(w)' /\ ~Ok(w)' /\ Map' = Map
    BY <1>0, <1>2, <1>3, MapIs DEF Pending, Ok
  <1>5. LM!Next
    BY <1>0, <1>s, <1>2, <1>3, <1>4, Begins
  <1>6. bloom \subseteq bloom' /\ (op = "insert" => k \in bloom')
    BY DEF Call, AddToBloom
  <1>7. InWindow(w)'
    BY <1>2, <1>3, WindowStep, Constants DEF InWindow, Window
  <1>8. Searching(w)' /\ Claiming(w)'
    BY <1>2, <1>3 DEF Searching, Claiming
  <1>9. Storing(w)'
    BY <1>s, <1>2, <1>3, <1>6 DEF Storing, Writing
  <1>10. Erasing(w)'
    <2>1. SeenBy(w) = {}
      BY <1>0 DEF Sees
    <2>2. SeenBy(w)' = {Map'[k]}
      BY <1>0, <1>2, <1>3, <1>4, <2>1, Remembered DEF SeenNext
    <2> QED BY <1>2, <1>3, <2>2 DEF Erasing, Writing
  <1> QED BY <1>0, <1>2, <1>3, <1>5, <1>6, <1>7, <1>8, <1>9, <1>10, WriterLocal DEF Writes

\* The writer loads a version: no cell is being written but by itself.
LEMMA WriterLoadVersion ==
    ASSUME NEW w \in Threads, Ref(w), IInv', Remember, me[w].op \in {"insert", "erase"},
           LoadVersion(w)
    PROVE  Alone(w)' /\ Abs(w)' /\ LM!Next
  <1>0. /\ Searching(w) /\ Storing(w) /\ Erasing(w) /\ Sees(w) /\ Fields(me[w]) /\ InWindow(w)
        /\ me[w].pc = "version" /\ UNCHANGED <<entry, info, bloom>> /\ ~Writing(w)
    BY WriterFacts DEF LoadVersion, Writing
  <1>i. PICK i \in Cells : i = me[w].index
    BY <1>0, WriterFacts DEF Working
  <1>1. ~Odd(entry[i].version)
    BY <1>0, OthersVisible DEF Visible
  <1>v. PICK v \in Nat : v = entry[i].version
    BY WriterFacts DEF Entry
  <1> DEFINE n == [me[w] EXCEPT !.version = v, !.pc = "key"]
  <1>2. me' = [me EXCEPT ![w] = n]
    BY <1>i, <1>1, <1>v DEF LoadVersion
  <1>3. /\ n.pc = "key" /\ n.op = me[w].op /\ n.key = me[w].key /\ n.rec = me[w].rec
        /\ n.ok = me[w].ok /\ n.index = i /\ n.probe = me[w].probe /\ n.version = v
        /\ n.onEmpty = me[w].onEmpty
        /\ n.firstTombstone = me[w].firstTombstone /\ n.firstFreed = me[w].firstFreed
    BY <1>0, <1>i DEF Fields, Idle
  <1> HIDE DEF n
  <1>4. LM!Next /\ SeenBy(w)' = SeenBy(w) /\ me'[w] = n /\ Unmoved(w) /\ Map' = Map
        /\ Pending(w)
    BY <1>0, <1>2, <1>3, MapIs, WriterQuiet
  <1>5. InWindow(w)'
    BY <1>0, <1>i, <1>3, <1>4 DEF InWindow, Probes, Window
  <1>6. Searching(w)' /\ Claiming(w)'
    BY <1>0, <1>v, <1>3, <1>4 DEF Searching, Claiming, Probes, Window, Freed
  <1>7. Storing(w)'
    BY <1>0, <1>3, <1>4 DEF Storing, Writing
  <1>8. Erasing(w)'
    BY <1>0, <1>3, <1>4 DEF Erasing, Writing
  <1> QED BY <1>0, <1>3, <1>4, <1>5, <1>6, <1>7, <1>8, WriterLocal DEF Writes

\* The writer reads a key: its own, which it will claim; none, and then it is not in
\* the table; or another's.
LEMMA WriterLoadKey ==
    ASSUME NEW w \in Threads, Ref(w), IInv', Remember, me[w].op \in {"insert", "erase"},
           LoadKey(w)
    PROVE  Alone(w)' /\ Abs(w)' /\ LM!Next
  <1>0. /\ Searching(w) /\ Storing(w) /\ Erasing(w) /\ Sees(w) /\ Fields(me[w]) /\ InWindow(w)
        /\ me[w].pc = "key" /\ UNCHANGED <<entry, info, bloom>> /\ ~Writing(w) /\ IInv
        /\ me[w].key \in Keys /\ me[w].probe \in Nat /\ DOMAIN me = Threads /\ Pending(w)
        /\ me[w].probe < MaxProbe /\ me[w].index = Window(me[w].key, me[w].probe)
        /\ OnlyWriter(w) /\ Carried /\ \A u \in Threads : Sees(u) /\ Map' = Map
    BY WriterFacts, MapIs DEF LoadKey, Writing, Working, Fields, InWindow, Probes, Pending
  <1>i. PICK i \in Cells : i = me[w].index
    BY <1>0, WriterFacts DEF Working
  <1>1. ASSUME NEW n, me' = [me EXCEPT ![w] = n], n.op = me[w].op, n.key = me[w].key,
               n.rec = me[w].rec, n.ok = me[w].ok, n.onEmpty = me[w].onEmpty,
               \/ /\ n.pc = "claim" /\ n.place = "match" /\ n.index = i
                  /\ n.version = me[w].version /\ entry[i].key = me[w].key
               \/ /\ n.pc = "victim" /\ n.place # "match" /\ me[w].op = "insert"
                  /\ Absent(me[w].key) /\ MayTake(n.index, n.place)
               \/ /\ n.pc = "flags" /\ n.index = i /\ n.probe = me[w].probe
                  /\ me[w].op = "insert"
                  /\ entry[i].key \in Keys \ {me[w].key}
                  /\ n.firstTombstone = me[w].firstTombstone /\ n.firstFreed = me[w].firstFreed
        PROVE  Alone(w)' /\ Abs(w)' /\ LM!Next
    <2>1. LM!Next /\ SeenBy(w)' = SeenBy(w) /\ me'[w] = n /\ Unmoved(w)
      BY <1>0, <1>1, WriterQuiet
    <2>2. InWindow(w)'
      BY <1>0, <1>i, <1>1, <2>1 DEF InWindow, Probes, Window
    <2>3. Searching(w)'
      BY <1>0, <1>1, <2>1 DEF Searching, Probes, Window, Freed
    <2>4. Claiming(w)'
      BY <1>0, <1>i, <1>1, <2>1 DEF Claiming, Searching, Probes, Absent, MayTake, Freed
    <2>5. Storing(w)'
      BY <1>0, <1>1, <2>1 DEF Storing, Writing, Pending
    <2>6. Erasing(w)'
      BY <1>0, <1>1, <2>1 DEF Erasing, Writing, Pending
    <2> QED BY <1>0, <1>1, <2>1, <2>2, <2>3, <2>4, <2>5, <2>6, WriterLocal DEF Writes
  <1>2. CASE entry[i].key = me[w].key
    <2> DEFINE n == [me[w] EXCEPT !.pc = "claim", !.place = "match"]
    <2>1. me' = [me EXCEPT ![w] = n]
      BY <1>0, <1>i, <1>2, Constants DEF LoadKey, Matched
    <2>2. /\ n.pc = "claim" /\ n.op = me[w].op /\ n.key = me[w].key /\ n.rec = me[w].rec
          /\ n.ok = me[w].ok /\ n.index = i /\ n.version = me[w].version
          /\ n.onEmpty = me[w].onEmpty /\ n.place = "match"
      BY <1>0, <1>i DEF Fields, Idle
    <2> HIDE DEF n
    <2> QED BY <1>1, <1>2, <2>1, <2>2
  <1>3. CASE entry[i].key = Empty
    <2>1. Absent(me[w].key)
      <3>1. ~Odd(entry[i].version)
        BY <1>0, OthersVisible DEF Visible
      <3>2. Closed(Window(me[w].key, me[w].probe))
        BY <1>0, <1>i, <1>3, <3>1 DEF Closed
      <3>3. \A e \in 0 .. me[w].probe - 1 : entry[Window(me[w].key, e)].key # me[w].key
        BY <1>0 DEF Searching, Probes
      <3> QED BY <1>0, <3>2, <3>3, Nowhere
    <2>2. CASE me[w].op = "insert"
      <3>1. me' = [me EXCEPT ![w] = EmptyTarget(me[w])]
        BY <1>0, <1>i, <1>3, <2>2, Constants DEF LoadKey
      <3>n. PICK n : n = EmptyTarget(me[w])
        OBVIOUS
      <3>2. /\ n.pc = "victim" /\ n.op = me[w].op /\ n.key = me[w].key /\ n.rec = me[w].rec
            /\ n.ok = me[w].ok /\ n.onEmpty = me[w].onEmpty
            /\ \/ me[w].firstTombstone = NoCell /\ n.index = i /\ n.place = "empty"
               \/ /\ me[w].firstTombstone # NoCell /\ n.index = me[w].firstTombstone
                  /\ n.place = "tombstone"
        BY <1>0, <1>i, <3>n DEF EmptyTarget, AtVictim, Fields, Idle
      <3>3. MayTake(n.index, n.place)
        BY <1>0, <1>3, <2>2, <3>2 DEF MayTake, Searching, Probes
      <3> QED BY <1>1, <2>1, <2>2, <3>1, <3>n, <3>2, <3>3
    <2>3. CASE me[w].op = "erase"
      <3>1. me' = [me EXCEPT ![w] = Returned(me[w], FALSE, NoRecord)]
        BY <1>0, <1>i, <1>3, <2>3, Constants DEF LoadKey
      <3>2. me'[w] = Returned(me[w], FALSE, NoRecord) /\ Unmoved(w)
        BY <1>0, <3>1 DEF Unmoved
      <3>3. /\ me'[w].pc = "idle" /\ me'[w].op = me[w].op /\ me'[w].key = me[w].key
            /\ me'[w].rec = NoRecord /\ ~me'[w].onEmpty /\ ~me'[w].ok
        BY <3>2, ReturnedNot
      <3>4. Map[me[w].key] = NoRecord
        BY <1>0, <2>1, AbsentMissed
      <3>5. SeenBy(w) = {NoRecord}
        BY <1>0, <2>3, <3>4 DEF Erasing
      <3>6. ~Pending(w)' /\ ~Ok(w)'
        BY <3>3 DEF Pending, Ok
      <3>7. LM!Next
        BY <1>0, <2>3, <3>2, <3>3, <3>4, <3>5, <3>6, ErasesNone
      <3> QED BY <1>0, <2>3, <3>2, <3>3, <3>7, WriterEnds, WriterLocal
    <2> QED BY <2>2, <2>3
  <1>4. CASE entry[i].key = Tombstone
    <2>n. PICK n : n = IF me[w].op = "insert"
                       THEN [me[w] EXCEPT !.firstTombstone = FirstOf(@, me[w].index)] ELSE me[w]
      OBVIOUS
    <2>1. NextProbe(w, n)
      BY <1>0, <1>i, <1>4, <2>n, Constants DEF LoadKey, OnTombstone
    <2>2. Fields(n)
      BY <1>0, <1>i, <2>n DEF Fields, Idle, FirstOf
    <2>3. /\ n.op = me[w].op /\ n.key = me[w].key /\ n.rec = me[w].rec /\ n.ok = me[w].ok
          /\ n.index = me[w].index /\ n.probe = me[w].probe
          /\ n.firstTombstone \in {me[w].firstTombstone, i} /\ n.firstFreed = me[w].firstFreed
      BY <1>0, <1>i, <2>n DEF Fields, Idle, FirstOf
    <2>4. /\ n.firstTombstone # NoCell => entry[n.firstTombstone].key = Tombstone
          /\ n.firstFreed # NoCell => entry[n.firstFreed].key \in Keys /\ Freed(n.firstFreed)
      BY <1>0, <1>4, <2>3 DEF Searching, Probes
    <2>5. entry[me[w].index].key # me[w].key
      BY <1>0, <1>i, <1>4, Constants
    <2> QED BY <1>0, <2>1, <2>2, <2>3, <2>4, <2>5, WriterNext
  <1>5. CASE entry[i].key \notin {me[w].key, Empty, Tombstone}
    <2>0. entry[i].key \in Keys
      BY <1>5, WriterFacts DEF Entry
    <2>1. CASE me[w].op = "insert"
      <3> DEFINE n == [me[w] EXCEPT !.pc = "flags"]
      <3>1. me' = [me EXCEPT ![w] = n]
        BY <1>i, <1>5, <2>1 DEF LoadKey
      <3>2. /\ n.pc = "flags" /\ n.op = me[w].op /\ n.key = me[w].key /\ n.rec = me[w].rec
            /\ n.ok = me[w].ok /\ n.onEmpty = me[w].onEmpty /\ n.index = i
            /\ n.probe = me[w].probe
            /\ n.firstTombstone = me[w].firstTombstone /\ n.firstFreed = me[w].firstFreed
        BY <1>0, <1>i DEF Fields, Idle
      <3> HIDE DEF n
      <3> QED BY <1>1, <1>5, <2>0, <2>1, <3>1, <3>2
    <2>2. CASE me[w].op = "erase"
      <3>1. NextProbe(w, me[w])
        BY <1>i, <1>5, <2>2 DEF LoadKey
      <3>2. /\ me[w].firstTombstone # NoCell => entry[me[w].firstTombstone].key = Tombstone
            /\ me[w].firstFreed # NoCell =>
                 entry[me[w].firstFreed].key \in Keys /\ Freed(me[w].firstFreed)
        BY <1>0 DEF Searching, Probes
      <3> QED BY <1>0, <1>i, <1>5, <3>1, <3>2, WriterNext
    <2> QED BY <2>1, <2>2
  <1> QED BY <1>2, <1>3, <1>4, <1>5

\* An Insert looks whether the block of another key's record was freed.
LEMMA WriterLoadFlags ==
    ASSUME NEW w \in Threads, Ref(w), IInv', Remember, me[w].op \in {"insert", "erase"},
           LoadFlags(w)
    PROVE  Alone(w)' /\ Abs(w)' /\ LM!Next
  <1>0. /\ Searching(w) /\ Fields(me[w]) /\ me[w].index \in Cells
        /\ me[w].pc = "flags" /\ UNCHANGED <<entry, info, bloom>>
    BY WriterFacts DEF LoadFlags, Working
  <1>1. entry[me[w].index].key \in Keys \ {me[w].key}
    BY <1>0 DEF Searching, Probes
  <1>n. PICK n : n = IF Freed(me[w].index)
                     THEN [me[w] EXCEPT !.firstFreed = FirstOf(@, me[w].index)] ELSE me[w]
    OBVIOUS
  <1>2. NextProbe(w, n)
    BY <1>n DEF LoadFlags
  <1>3. Fields(n)
    BY <1>0, <1>n DEF Fields, Idle, FirstOf
  <1>4. /\ n.op = me[w].op /\ n.key = me[w].key /\ n.rec = me[w].rec /\ n.ok = me[w].ok
        /\ n.index = me[w].index /\ n.probe = me[w].probe
        /\ n.firstTombstone = me[w].firstTombstone
        /\ \/ n.firstFreed = me[w].firstFreed
           \/ n.firstFreed = me[w].index /\ Freed(me[w].index)
    BY <1>0, <1>n DEF Fields, Idle, FirstOf
  <1>5. /\ n.firstTombstone # NoCell => entry[n.firstTombstone].key = Tombstone
        /\ n.firstFreed # NoCell => entry[n.firstFreed].key \in Keys /\ Freed(n.firstFreed)
    BY <1>0, <1>1, <1>4 DEF Searching, Probes
  <1> QED BY <1>0, <1>1, <1>2, <1>3, <1>4, <1>5, WriterNext

\* A cell says nothing of a key that it does not show.
LEMMA MapElsewhere ==
    ASSUME NEW k \in Keys, NEW i \in Cells,
           \A j \in Cells \ {i} : entry'[j] = entry[j] /\ info'[j] = info[j],
           entry[i].key # k \/ ~Visible(i), entry'[i].key # k \/ ~Visible(i)'
    PROVE  Map'[k] = Map[k]
  <1> DEFINE at == {j \in Cells : entry[j].key = k /\ ~Odd(entry[j].version)}
             later == {j \in Cells : entry'[j].key = k /\ ~Odd(entry'[j].version)}
  <1>1. at = later /\ i \notin at /\ at \subseteq Cells
    BY DEF Visible
  <1>2. Map[k] = IF at = {} THEN NoRecord ELSE info[CHOOSE j \in at : TRUE]["body"]
    BY MapIs DEF MapOf
  <1>3. Map'[k] = IF later = {} THEN NoRecord ELSE info'[CHOOSE j \in later : TRUE]["body"]
    BY MapIs DEF MapOf
  <1> HIDE DEF at, later
  <1>4. CASE at = {}
    BY <1>1, <1>2, <1>3, <1>4
  <1>5. CASE at # {}
    <2>1. PICK c : c = CHOOSE j \in at : TRUE
      OBVIOUS
    <2>2. c \in at
      BY <1>5, <2>1
    <2> QED BY <1>1, <1>2, <1>3, <1>5, <2>1, <2>2
  <1> QED BY <1>4, <1>5

\* The map is a function on the keys.
LEMMA MapFunctions == Map = [k \in Keys |-> Map[k]] /\ Map' = [k \in Keys |-> Map'[k]]
  BY DEF Map

\* Inside its own cell the writer works unseen.
LEMMA Inside ==
    ASSUME NEW w \in Threads, Ref(w), IInv', Writing(w), NEW i \in Cells, i = me[w].index,
           entry'[i].version = entry[i].version,
           \A j \in Cells \ {i} : entry'[j] = entry[j] /\ info'[j] = info[j]
    PROVE  Moves /\ Map' = Map /\ ~Visible(i) /\ ~Visible(i)'
  <1>1. Odd(entry[i].version)
    BY DEF Ref, IInv, Fit, OwnsOdd
  <1>2. ~Visible(i) /\ ~Visible(i)'
    BY <1>1 DEF Visible
  <1>3. Moves
    <2>1. \A j \in Cells : entry[j].version \in Nat
      BY DEF Ref, IInv, TypeOK, Entry
    <2>2. Opened(i) /\ Opened(i)'
      BY <1>2 DEF Opened, Closed, Visible
    <2> QED BY <1>2, <2>1, <2>2 DEF Moves, Visible, Opened, Closed
  <1>4. \A k \in Keys : Map'[k] = Map[k]
    BY <1>2, MapElsewhere
  <1>5. Map' = Map
    BY <1>4, MapFunctions
  <1> QED BY <1>2, <1>3, <1>5

\* InsertAtVictim's first look finds nobody writing.
LEMMA WriterLoadVictim ==
    ASSUME NEW w \in Threads, Ref(w), IInv', Remember, me[w].op \in {"insert", "erase"},
           LoadVictim(w)
    PROVE  Alone(w)' /\ Abs(w)' /\ LM!Next
  <1>0. /\ Claiming(w) /\ Storing(w) /\ Erasing(w) /\ Fields(me[w]) /\ me[w].index \in Cells
        /\ me[w].pc = "victim" /\ UNCHANGED <<entry, info, bloom>> /\ ~Writing(w)
        /\ me[w].op = "insert" /\ me[w].place # "match" /\ Map' = Map /\ Pending(w)
    BY WriterFacts, MapIs DEF LoadVictim, Working, Writing, Pending
  <1>1. ~Odd(entry[me[w].index].version)
    BY <1>0, OthersVisible DEF Visible
  <1> DEFINE n == [me[w] EXCEPT !.pc = "claim"]
  <1>2. me' = [me EXCEPT ![w] = n]
    BY <1>1 DEF LoadVictim
  <1>3. /\ n.pc = "claim" /\ n.op = me[w].op /\ n.key = me[w].key /\ n.rec = me[w].rec
        /\ n.ok = me[w].ok /\ n.onEmpty = me[w].onEmpty /\ n.index = me[w].index
        /\ n.place = me[w].place
    BY <1>0 DEF Fields, Idle
  <1> HIDE DEF n
  <1>4. LM!Next /\ SeenBy(w)' = SeenBy(w) /\ me'[w] = n /\ Unmoved(w)
    BY <1>0, <1>2, <1>3, WriterQuiet
  <1>5. InWindow(w)' /\ Searching(w)'
    BY <1>0, <1>3, <1>4 DEF InWindow, Searching, Probes
  <1>6. Claiming(w)'
    BY <1>0, <1>3, <1>4 DEF Claiming, Absent, MayTake, Freed
  <1>7. Storing(w)' /\ Erasing(w)'
    BY <1>0, <1>3, <1>4 DEF Storing, Erasing, Writing
  <1> QED BY <1>0, <1>3, <1>4, <1>5, <1>6, <1>7, WriterLocal DEF Writes

\* Claim's load finds nobody writing.
LEMMA WriterClaimLoad ==
    ASSUME NEW w \in Threads, Ref(w), IInv', Remember, me[w].op \in {"insert", "erase"},
           ClaimLoad(w)
    PROVE  Alone(w)' /\ Abs(w)' /\ LM!Next
  <1>0. /\ Claiming(w) /\ Storing(w) /\ Erasing(w) /\ Fields(me[w]) /\ me[w].index \in Cells
        /\ me[w].pc = "claim" /\ UNCHANGED <<entry, info, bloom>> /\ ~Writing(w)
        /\ Map' = Map /\ Pending(w)
    BY WriterFacts, MapIs DEF ClaimLoad, Working, Writing, Pending
  <1>1. ~Odd(entry[me[w].index].version)
    BY <1>0, OthersVisible DEF Visible
  <1>v. PICK v : v = entry[me[w].index].version
    OBVIOUS
  <1> DEFINE n == [me[w] EXCEPT !.expected = v, !.pc = "cas"]
  <1>2. me' = [me EXCEPT ![w] = n]
    BY <1>1, <1>v DEF ClaimLoad
  <1>3. /\ n.pc = "cas" /\ n.op = me[w].op /\ n.key = me[w].key /\ n.rec = me[w].rec
        /\ n.ok = me[w].ok /\ n.onEmpty = me[w].onEmpty /\ n.index = me[w].index
        /\ n.place = me[w].place /\ n.version = me[w].version /\ n.expected = v
    BY <1>0 DEF Fields, Idle
  <1> HIDE DEF n
  <1>4. LM!Next /\ SeenBy(w)' = SeenBy(w) /\ me'[w] = n /\ Unmoved(w)
    BY <1>0, <1>2, <1>3, WriterQuiet
  <1>5. InWindow(w)' /\ Searching(w)'
    BY <1>3, <1>4 DEF InWindow, Searching, Probes
  <1>6. Claiming(w)'
    BY <1>0, <1>v, <1>3, <1>4 DEF Claiming, Absent, MayTake, Freed
  <1>7. Storing(w)' /\ Erasing(w)'
    BY <1>0, <1>3, <1>4 DEF Storing, Erasing, Writing
  <1>8. me'[w].op # "find"
    BY <1>3, <1>4
  <1> QED BY <1>0, <1>4, <1>5, <1>6, <1>7, <1>8, WriterLocal DEF Writes

\* The writer looks at the cell it has claimed, which is still what it saw.
LEMMA WriterRecheck ==
    ASSUME NEW w \in Threads, Ref(w), IInv', Remember, me[w].op \in {"insert", "erase"},
           Recheck(w)
    PROVE  Alone(w)' /\ Abs(w)' /\ LM!Next
  <1>0. /\ Claiming(w) /\ Storing(w) /\ Fields(me[w]) /\ me[w].index \in Cells
        /\ me[w].pc = "recheck" /\ me[w].op = "insert" /\ me[w].place # "match" /\ Pending(w)
    BY WriterFacts DEF Recheck, Working, Pending
  <1>1. Absent(me[w].key) /\ MayTake(me[w].index, me[w].place)
    BY <1>0 DEF Claiming
  <1>2. UNCHANGED <<entry, info, bloom>> /\ Map' = Map
    BY <1>1, MapIs DEF Recheck
  <1>b. PICK b : b = (entry[me[w].index].key = Empty)
    OBVIOUS
  <1> DEFINE n == [me[w] EXCEPT !.pc = "setKey", !.onEmpty = b]
  <1>3. me' = [me EXCEPT ![w] = n]
    BY <1>1, <1>b DEF Recheck
  <1>4. /\ n.pc = "setKey" /\ n.op = me[w].op /\ n.key = me[w].key /\ n.rec = me[w].rec
        /\ n.ok = me[w].ok /\ n.index = me[w].index /\ n.place = me[w].place
    BY <1>0 DEF Fields, Idle
  <1> HIDE DEF n
  <1>5. LM!Next /\ SeenBy(w)' = SeenBy(w) /\ me'[w] = n /\ Unmoved(w)
    BY <1>0, <1>2, <1>3, <1>4, WriterQuiet
  <1>6. InWindow(w)' /\ Searching(w)'
    BY <1>0, <1>4, <1>5 DEF InWindow, Searching, Probes
  <1>7. Claiming(w)'
    BY <1>0, <1>1, <1>2, <1>4, <1>5 DEF Claiming, Absent, MayTake, Freed
  <1>8. Storing(w)' /\ Erasing(w)'
    BY <1>0, <1>2, <1>4, <1>5 DEF Storing, Erasing, Writing
  <1> QED BY <1>0, <1>2, <1>4, <1>5, <1>6, <1>7, <1>8, WriterLocal DEF Writes

\* The key goes into a cell that nobody sees, and no other cell has it.
LEMMA WriterSetKey ==
    ASSUME NEW w \in Threads, Ref(w), IInv', Remember, me[w].op \in {"insert", "erase"},
           SetKey(w)
    PROVE  Alone(w)' /\ Abs(w)' /\ LM!Next
  <1>0. /\ Claiming(w) /\ Storing(w) /\ Fields(me[w]) /\ me[w].index \in Cells
        /\ me[w].pc = "setKey" /\ me[w].op = "insert" /\ me[w].place # "match" /\ Pending(w)
        /\ UNCHANGED <<info, bloom>> /\ Writing(w) /\ Unique /\ InBloom
        /\ entry \in [Cells -> Entry]
    BY WriterFacts DEF SetKey, Working, Pending, Writing
  <1>i. PICK i \in Cells : i = me[w].index
    BY <1>0
  <1>1. Absent(me[w].key) /\ me[w].key \in bloom
    BY <1>0 DEF Claiming, Storing
  <1>2. /\ entry'[i].key = me[w].key /\ entry'[i].version = entry[i].version
        /\ \A j \in Cells \ {i} : entry'[j] = entry[j]
    BY <1>0, <1>i DEF SetKey, Entry
  <1>3. Moves /\ Map' = Map
    BY <1>0, <1>i, <1>2, Inside
  <1> DEFINE n == [me[w] EXCEPT !.pc = "copyIn", !.left = Words]
  <1>4. me' = [me EXCEPT ![w] = n]
    BY DEF SetKey
  <1>5. /\ n.pc = "copyIn" /\ n.op = me[w].op /\ n.key = me[w].key /\ n.rec = me[w].rec
        /\ n.ok = me[w].ok /\ n.index = i /\ n.place = me[w].place
    BY <1>0, <1>i DEF Fields, Idle
  <1> HIDE DEF n
  <1>6. LM!Next /\ SeenBy(w)' = SeenBy(w) /\ me'[w] = n /\ Unmoved(w)
    BY <1>0, <1>3, <1>4, <1>5, WriterQuiet
  <1>7. InWindow(w)' /\ Searching(w)' /\ Claiming(w)'
    BY <1>5, <1>6 DEF InWindow, Searching, Claiming, Probes
  <1>8. Storing(w)' /\ Erasing(w)'
    BY <1>0, <1>1, <1>2, <1>5, <1>6 DEF Storing, Erasing, Writing
  <1>9. Unique'
    <2> SUFFICES ASSUME NEW j \in Cells, NEW l \in Cells, entry'[j].key \in Keys,
                        entry'[j].key = entry'[l].key, j # l
                 PROVE  FALSE
      BY DEF Unique
    <2> QED BY <1>0, <1>1, <1>2 DEF Unique, Absent
  <1>10. InBloom'
    <2> SUFFICES ASSUME NEW j \in Cells, entry'[j].key \in Keys PROVE entry'[j].key \in bloom
      BY <1>0 DEF InBloom
    <2> QED BY <1>0, <1>1, <1>2 DEF InBloom
  <1> QED BY <1>0, <1>3, <1>5, <1>6, <1>7, <1>8, <1>9, <1>10, WriterTogether DEF Writes

\* A word of the record goes in.
LEMMA WriterCopyIn ==
    ASSUME NEW w \in Threads, Ref(w), IInv', Remember, me[w].op \in {"insert", "erase"},
           CopyIn(w)
    PROVE  Alone(w)' /\ Abs(w)' /\ LM!Next
  <1>0. /\ Storing(w) /\ Stored(w) /\ Fields(me[w]) /\ me[w].index \in Cells
        /\ me[w].pc = "copyIn" /\ me[w].op = "insert" /\ Pending(w)
        /\ UNCHANGED <<entry, bloom>> /\ Writing(w) /\ Unique /\ InBloom
        /\ info \in [Cells -> [Words -> Records]]
    BY WriterFacts DEF CopyIn, Working, Pending, Writing, IInv, Fit
  <1>i. PICK i \in Cells : i = me[w].index
    BY <1>0
  <1>1. PICK x \in me[w].left :
          /\ info' = [info EXCEPT ![i][x] = me[w].rec]
          /\ me' = [me EXCEPT ![w].left = @ \ {x},
                              ![w].pc = IF me[w].left = {x} THEN "publish" ELSE @]
    BY <1>i DEF CopyIn
  <1>2. /\ \A j \in Cells \ {i} : info'[j] = info[j]
        /\ \A y \in Words : info'[i][y] = IF y = x THEN me[w].rec ELSE info[i][y]
    BY <1>0, <1>1
  <1>3. Moves /\ Map' = Map
    BY <1>0, <1>i, <1>2, Inside
  <1> DEFINE n == [me[w] EXCEPT !.left = @ \ {x},
                                !.pc = IF me[w].left = {x} THEN "publish" ELSE @]
  <1>4. me' = [me EXCEPT ![w] = n]
    BY <1>1
  <1>5. /\ n.pc = (IF me[w].left = {x} THEN "publish" ELSE "copyIn")
        /\ n.op = me[w].op /\ n.key = me[w].key /\ n.rec = me[w].rec
        /\ n.ok = me[w].ok /\ n.index = i /\ n.place = me[w].place /\ n.version = me[w].version
    BY <1>0, <1>i DEF Fields, Idle
  <1> HIDE DEF n
  <1>6. LM!Next /\ SeenBy(w)' = SeenBy(w) /\ me'[w] = n /\ Unmoved(w)
    BY <1>0, <1>3, <1>4, <1>5, WriterQuiet
  <1>7. InWindow(w)' /\ Searching(w)' /\ Claiming(w)'
    BY <1>5, <1>6 DEF InWindow, Searching, Claiming, Probes
  <1>8. me[w].left = {x} => \A y \in Words : info'[i][y] = me[w].rec
    BY <1>0, <1>i, <1>2 DEF Stored
  <1>9. Storing(w)' /\ Erasing(w)'
    BY <1>0, <1>i, <1>5, <1>6, <1>8 DEF Storing, Erasing, Writing
  <1>10. Unique' /\ InBloom'
    BY <1>0 DEF Unique, InBloom
  <1> QED BY <1>0, <1>3, <1>5, <1>6, <1>7, <1>9, <1>10, WriterTogether DEF Writes

\* An Erase copies a word of the record that its own cell holds.
LEMMA WriterCopyOut ==
    ASSUME NEW w \in Threads, Ref(w), IInv', Remember, me[w].op \in {"insert", "erase"},
           CopyOut(w)
    PROVE  Alone(w)' /\ Abs(w)' /\ LM!Next
  <1>0. /\ Storing(w) /\ Erasing(w) /\ Fields(me[w]) /\ me[w].index \in Cells
        /\ me[w].pc = "copyOut" /\ me[w].op = "erase" /\ Pending(w)
        /\ UNCHANGED <<entry, info, bloom>> /\ Writing(w) /\ Map' = Map
        /\ info \in [Cells -> [Words -> Records]]
    BY WriterFacts, MapIs DEF CopyOut, Working, Pending, Writing
  <1>i. PICK i \in Cells : i = me[w].index
    BY <1>0
  <1>1. PICK x \in me[w].left :
          me' = [me EXCEPT ![w].copy[x] = info[i][x], ![w].left = @ \ {x},
                       ![w].pc = IF me[w].left # {x} THEN @
                                 ELSE IF me[w].op = "find" THEN "v2" ELSE "tombstone"]
    BY <1>i DEF CopyOut
  <1>d. PICK d : d = info[i][x]
    OBVIOUS
  <1> DEFINE n == [me[w] EXCEPT !.copy[x] = d, !.left = @ \ {x},
                       !.pc = IF me[w].left # {x} THEN "copyOut" ELSE "tombstone"]
  <1>2. me' = [me EXCEPT ![w] = n]
    BY <1>0, <1>1, <1>d
  <1>3. /\ n.pc = (IF me[w].left # {x} THEN "copyOut" ELSE "tombstone")
        /\ n.op = me[w].op /\ n.key = me[w].key /\ n.rec = me[w].rec
        /\ n.ok = me[w].ok /\ n.index = i /\ n.place = me[w].place
        /\ n.version = me[w].version /\ n.onEmpty = me[w].onEmpty
        /\ n.left = me[w].left \ {x} /\ n.copy[x] = d /\ x \in Words
        /\ \A y \in Words \ {x} : n.copy[y] = me[w].copy[y]
    BY <1>0, <1>i DEF Fields, Idle
  <1> HIDE DEF n
  <1>4. LM!Next /\ SeenBy(w)' = SeenBy(w) /\ me'[w] = n /\ Unmoved(w)
    BY <1>0, <1>2, <1>3, WriterQuiet
  <1>5. InWindow(w)' /\ Searching(w)' /\ Claiming(w)'
    BY <1>0, <1>3, <1>4 DEF InWindow, Searching, Claiming, Probes
  <1>6. \A y \in Words \ n.left : n.copy[y] = info[i][y]
    BY <1>0, <1>i, <1>d, <1>3 DEF Storing
  <1>7. WholeCell(i)
    BY <1>0, <1>i DEF Storing
  <1>8. n.pc = "tombstone" => Copied(n) = info[i]["body"]
    <2> SUFFICES ASSUME n.pc = "tombstone" PROVE Copied(n) = info[i]["body"]
      OBVIOUS
    <2>1. n.left = {}
      BY <1>3
    <2>2. /\ n.copy["body"] = info[i]["body"] /\ n.copy["flags"] = info[i]["body"]
          /\ info[i]["body"] \in Records
      BY <1>0, <1>6, <1>7, <2>1 DEF Words, WholeCell
    <2> QED BY <2>2, WholeCopy
  <1>9. Storing(w)'
    <2>1. Copied(me[w])' = Copied(n)
      BY <1>4 DEF Copied
    <2> QED BY <1>0, <1>i, <1>3, <1>4, <1>6, <1>7, <1>8, <2>1 DEF Storing, Writing, WholeCell
  <1>10. Erasing(w)'
    BY <1>0, <1>i, <1>3, <1>4 DEF Erasing, Writing
  <1> QED BY <1>0, <1>3, <1>4, <1>5, <1>9, <1>10, WriterLocal DEF Writes

\* An Erase takes its key out of its cell, the only one that had it.
LEMMA WriterSetTombstone ==
    ASSUME NEW w \in Threads, Ref(w), IInv', Remember, me[w].op \in {"insert", "erase"},
           SetTombstone(w)
    PROVE  Alone(w)' /\ Abs(w)' /\ LM!Next
  <1>0. /\ Storing(w) /\ Erasing(w) /\ Fields(me[w]) /\ me[w].index \in Cells
        /\ me[w].pc = "tombstone" /\ me[w].op = "erase" /\ Pending(w)
        /\ UNCHANGED <<info, bloom>> /\ Writing(w) /\ Unique /\ InBloom
        /\ entry \in [Cells -> Entry] /\ me[w].key \in Keys
    BY WriterFacts DEF SetTombstone, Working, Pending, Writing
  <1>i. PICK i \in Cells : i = me[w].index
    BY <1>0
  <1>1. /\ entry[i].key = me[w].key /\ WholeCell(i) /\ ~me[w].onEmpty
        /\ Copied(me[w]) = info[i]["body"]
    BY <1>0, <1>i DEF Storing
  <1>2. /\ entry'[i].key = Tombstone /\ entry'[i].version = entry[i].version
        /\ \A j \in Cells \ {i} : entry'[j] = entry[j]
    BY <1>0, <1>i DEF SetTombstone, Entry
  <1>3. Moves /\ Map' = Map
    BY <1>0, <1>i, <1>2, Inside
  <1> DEFINE n == [me[w] EXCEPT !.pc = "publish"]
  <1>4. me' = [me EXCEPT ![w] = n]
    BY DEF SetTombstone
  <1>5. /\ n.pc = "publish" /\ n.op = me[w].op /\ n.key = me[w].key /\ n.rec = me[w].rec
        /\ n.ok = me[w].ok /\ n.index = i /\ n.place = me[w].place /\ n.copy = me[w].copy
        /\ n.version = me[w].version /\ n.onEmpty = me[w].onEmpty
    BY <1>0, <1>i DEF Fields, Idle
  <1> HIDE DEF n
  <1>6. LM!Next /\ SeenBy(w)' = SeenBy(w) /\ me'[w] = n /\ Unmoved(w)
    BY <1>0, <1>3, <1>4, <1>5, WriterQuiet
  <1>7. InWindow(w)' /\ Searching(w)' /\ Claiming(w)'
    BY <1>5, <1>6 DEF InWindow, Searching, Claiming, Probes
  <1>8. Absent(me[w].key)'
    <2> SUFFICES ASSUME NEW j \in Cells, entry'[j].key = me[w].key PROVE FALSE
      BY <1>5, <1>6 DEF Absent
    <2>1. j # i
      BY <1>0, <1>2, Constants
    <2> QED BY <1>0, <1>1, <1>2, <2>1 DEF Unique
  <1>9. Storing(w)'
    <2>1. Copied(me[w])' = Copied(me[w])
      BY <1>5, <1>6 DEF Copied
    <2> QED BY <1>0, <1>i, <1>1, <1>2, <1>5, <1>6, <1>8, <2>1 DEF Storing, Writing, WholeCell
  <1>10. Erasing(w)'
    BY <1>0, <1>i, <1>5, <1>6 DEF Erasing, Writing
  <1>11. Unique' /\ InBloom'
    BY <1>0, <1>2, Constants DEF Unique, InBloom
  <1> QED BY <1>0, <1>3, <1>5, <1>6, <1>7, <1>9, <1>10, <1>11, WriterTogether DEF Writes

\* The call was over for its caller before the statistics were done.
LEMMA WriterCount ==
    ASSUME NEW w \in Threads, Ref(w), IInv', Remember, me[w].op \in {"insert", "erase"},
           CountEntry(w)
    PROVE  Alone(w)' /\ Abs(w)' /\ LM!Next
  <1>0. /\ me[w].pc = "count" /\ UNCHANGED <<entry, info, bloom>> /\ Map' = Map
        /\ DOMAIN me = Threads /\ OnlyWriter(w) /\ Carried /\ \A u \in Threads : Sees(u)
    BY WriterFacts, MapIs DEF CountEntry
  <1>1. me'[w] = Returned(me[w], TRUE, me[w].rec) /\ Unmoved(w)
    BY <1>0 DEF CountEntry, Unmoved
  <1>2. /\ me'[w].pc = "idle" /\ me'[w].op = me[w].op /\ me'[w].key = me[w].key
        /\ me'[w].rec = me[w].rec /\ ~me'[w].onEmpty /\ me'[w].ok
    BY <1>1, ReturnedDone
  <1>3. SameCall(w)
    BY <1>0, <1>2 DEF SameCall, Pending, Ok
  <1>4. LM!Next
    BY <1>0, <1>1, <1>3, Quiet
  <1> QED BY <1>0, <1>1, <1>2, <1>4, WriterEnds, WriterLocal

\* A claim takes what the cell shows out of the map.
LEMMA ClaimsOut ==
    ASSUME NEW w \in Threads, Ref(w), NEW i \in Cells, Visible(i), ~Visible(i)', Unique',
           \A j \in Cells : entry'[j].key = entry[j].key,
           \A j \in Cells \ {i} : entry'[j] = entry[j], UNCHANGED info
    PROVE  /\ entry[i].key \in Keys =>
                /\ Map[entry[i].key] = info[i]["body"] /\ WholeCell(i)
                /\ Map' = [Map EXCEPT ![entry[i].key] = NoRecord]
           /\ entry[i].key \notin Keys => Map' = Map
  <1>0. IInv /\ Unique
    BY WriterFacts
  <1>1. ASSUME entry[i].key \in Keys
        PROVE  /\ Map[entry[i].key] = info[i]["body"] /\ WholeCell(i)
               /\ Map' = [Map EXCEPT ![entry[i].key] = NoRecord]
    <2>k. PICK k \in Keys : k = entry[i].key
      BY <1>1
    <2>1. Map[k] = info[i]["body"] /\ WholeCell(i)
      BY <1>0, <2>k, Shows, VisibleWhole
    <2>2. Map'[k] = NoRecord
      BY <2>k, Hidden
    <2>3. \A l \in Keys \ {k} : Map'[l] = Map[l]
      BY <2>k, MapElsewhere
    <2>4. Map' = [Map EXCEPT ![k] = NoRecord]
      BY <2>2, <2>3, MapFunctions
    <2> QED BY <2>k, <2>1, <2>4
  <1>2. ASSUME entry[i].key \notin Keys PROVE Map' = Map
    <2>1. \A l \in Keys : Map'[l] = Map[l]
      BY <1>2, MapElsewhere
    <2> QED BY <2>1, MapFunctions
  <1> QED BY <1>1, <1>2

\* The compare-exchange: nobody else writes, so it meets what was loaded.
LEMMA WriterClaimCas ==
    ASSUME NEW w \in Threads, Ref(w), IInv', Remember, me[w].op \in {"insert", "erase"},
           ClaimCas(w)
    PROVE  Alone(w)' /\ Abs(w)' /\ LM!Next
  <1>0. /\ Claiming(w) /\ Storing(w) /\ Erasing(w) /\ Fields(me[w]) /\ me[w].index \in Cells
        /\ me[w].pc = "cas" /\ ~Writing(w) /\ Pending(w) /\ DOMAIN me = Threads /\ IInv
        /\ Unique /\ InBloom /\ entry \in [Cells -> Entry] /\ UNCHANGED <<info, bloom>>
        /\ me[w].op = "erase" => me[w].place = "match"
        /\ me[w].key \in Keys
    BY WriterFacts DEF ClaimCas, Working, Writing, Pending
  <1>c. OnlyWriter(w) /\ Carried /\ \A u \in Threads : Sees(u)
    BY WriterFacts
  <1>i. PICK i \in Cells : i = me[w].index
    BY <1>0
  <1>v. PICK v \in Nat : v = entry[i].version
    BY <1>0 DEF Entry
  <1>1. Visible(i) /\ ~Odd(v) /\ Odd(v + 1)
    BY <1>0, <1>v, OthersVisible, Parity DEF Visible
  <1>2. Exchanges(i, me[w].expected) /\ me[w].expected = v
    BY <1>0, <1>i, <1>v DEF Claiming, Exchanges
  <1>3. entry' = [entry EXCEPT ![i].version = v + 1] /\ me' = [me EXCEPT ![w] = Claimed(@)]
    BY <1>i, <1>2 DEF ClaimCas
  <1>4. /\ entry'[i].version = v + 1 /\ entry'[i].key = entry[i].key
        /\ \A j \in Cells \ {i} : entry'[j] = entry[j]
        /\ \A j \in Cells : entry'[j].key = entry[j].key
    BY <1>0, <1>3 DEF Entry
  <1>5. ~Visible(i)'
    BY <1>1, <1>4 DEF Visible
  <1>6. Moves
    <2>1. \A j \in Cells : entry[j].version \in Nat
      BY <1>0 DEF Entry
    <2>2. entry[i].version <= entry'[i].version
      BY <1>v, <1>4
    <2>3. Opened(i)'
      BY <1>5 DEF Opened, Closed, Visible
    <2> QED BY <1>0, <1>4, <1>5, <2>1, <2>2, <2>3 DEF Moves, Visible, Opened, Closed
  <1>7. Unique' /\ InBloom'
    BY <1>0, <1>4 DEF Unique, InBloom
  <1>8. /\ entry[i].key \in Keys =>
             /\ Map[entry[i].key] = info[i]["body"] /\ WholeCell(i)
             /\ Map' = [Map EXCEPT ![entry[i].key] = NoRecord]
        /\ entry[i].key \notin Keys => Map' = Map
    BY <1>0, <1>1, <1>4, <1>5, <1>7, ClaimsOut
  <1>9. SeenBy(w)' = SeenNext(w)
    BY <1>c, Remembered
  <1>10. CASE me[w].place = "match"
    <2>1. entry[i].key = me[w].key /\ me[w].version = v
      BY <1>0, <1>i, <1>v, <1>10 DEF Claiming
    <2> DEFINE n == [me[w] EXCEPT !.pc = IF me[w].op = "insert" THEN "copyIn" ELSE "copyOut",
                                  !.left = Words]
    <2>2. me' = [me EXCEPT ![w] = n]
      BY <1>3, <1>10 DEF Claimed
    <2>3. /\ n.pc = (IF me[w].op = "insert" THEN "copyIn" ELSE "copyOut")
          /\ n.op = me[w].op /\ n.key = me[w].key /\ n.rec = me[w].rec
          /\ n.ok = me[w].ok /\ n.index = i /\ n.version = v /\ n.left = Words
          /\ n.onEmpty = me[w].onEmpty
      BY <1>0, <1>i, <2>1 DEF Fields, Idle
    <2> HIDE DEF n
    <2>4. me'[w] = n /\ Unmoved(w)
      BY <1>0, <2>2 DEF Unmoved
    <2>5. SameCall(w) /\ Pending(w)'
      BY <1>0, <2>3, <2>4 DEF SameCall, Pending, Ok
    <2>6. Map[me[w].key] = info[i]["body"] /\ WholeCell(i) /\ info[i]["body"] # NoRecord
      BY <1>0, <1>8, <2>1 DEF WholeCell
    <2>7. LM!Next
      BY <1>0, <1>c, <1>8, <2>1, <2>4, <2>5, <2>6, TakesOut
    <2>8. InWindow(w)' /\ Searching(w)' /\ Claiming(w)'
      BY <1>0, <2>3, <2>4 DEF InWindow, Searching, Claiming, Probes
    <2>9. WholeCell(i)'
      BY <1>0, <2>6 DEF WholeCell
    <2>10. Storing(w)'
      BY <1>0, <1>4, <2>1, <2>3, <2>4, <2>5, <2>9 DEF Storing, Writing
    <2>11. Erasing(w)'
      <3> SUFFICES ASSUME me[w].op = "erase" PROVE info'[i]["body"] \in SeenBy(w)'
        BY <2>3, <2>4 DEF Erasing, Writing
      <3>1. SeenBy(w) = {Map[me[w].key]}
        BY <1>0 DEF Erasing
      <3> QED BY <1>0, <1>9, <2>5, <2>6, <3>1 DEF SeenNext
    <2> QED BY <1>0, <1>6, <1>7, <2>3, <2>4, <2>7, <2>8, <2>10, <2>11, WriterTogether DEF Writes
  <1>11. CASE me[w].place # "match"
    <2>0. me[w].op = "insert"
      BY <1>0, <1>11
    <2>1. Absent(me[w].key) /\ MayTake(i, me[w].place)
      BY <1>0, <1>i, <1>11 DEF Claiming
    <2> DEFINE n == [me[w] EXCEPT !.pc = "recheck"]
    <2>2. me' = [me EXCEPT ![w] = n]
      BY <1>3, <1>11 DEF Claimed
    <2>3. /\ n.pc = "recheck" /\ n.op = me[w].op /\ n.key = me[w].key /\ n.rec = me[w].rec
          /\ n.ok = me[w].ok /\ n.index = i /\ n.place = me[w].place
      BY <1>0, <1>i DEF Fields, Idle
    <2> HIDE DEF n
    <2>4. me'[w] = n /\ Unmoved(w)
      BY <1>0, <2>2 DEF Unmoved
    <2>5. SameCall(w) /\ Pending(w)'
      BY <1>0, <2>3, <2>4 DEF SameCall, Pending, Ok
    <2>7. LM!Next
      <3>1. CASE entry[i].key \notin Keys
        BY <1>c, <1>8, <2>4, <2>5, <3>1, Quiet
      <3>2. CASE entry[i].key \in Keys
        <4>1. Freed(i)
          BY <2>1, <3>2, Constants DEF MayTake
        <4>2. Map[entry[i].key] # NoRecord /\ Map[entry[i].key].freed
          BY <1>8, <3>2, <4>1 DEF WholeCell, Freed
        <4> QED BY <1>0, <1>c, <1>8, <2>0, <2>4, <2>5, <3>2, <4>2, TakesOut
      <3> QED BY <3>1, <3>2
    <2>8. InWindow(w)' /\ Searching(w)'
      BY <1>0, <2>3, <2>4 DEF InWindow, Searching, Probes
    <2>9. Claiming(w)'
      BY <1>0, <1>4, <1>11, <2>1, <2>3, <2>4 DEF Claiming, Absent, MayTake, Freed
    <2>10. Storing(w)' /\ Erasing(w)'
      BY <1>0, <1>11, <2>0, <2>3, <2>4 DEF Storing, Erasing, Writing
    <2> QED BY <1>0, <1>6, <1>7, <2>0, <2>3, <2>4, <2>7, <2>8, <2>9, <2>10, WriterTogether DEF Writes
  <1> QED BY <1>10, <1>11

\* A Publish makes the writer's cell visible as it is.
LEMMA PublishShows ==
    ASSUME NEW w \in Threads, Ref(w), IInv', me[w].op \in {"insert", "erase"}, Publish(w),
           NEW i \in Cells, i = me[w].index
    PROVE  /\ UNCHANGED <<info, bloom>> /\ ~Visible(i) /\ Visible(i)'
           /\ entry'[i].key = entry[i].key /\ entry[i].key # Empty
           /\ \A j \in Cells \ {i} : entry'[j] = entry[j]
           /\ Moves /\ Unique' /\ InBloom'
  <1>0. /\ Storing(w) /\ Fields(me[w]) /\ me[w].pc = "publish" /\ Writing(w) /\ OwnsOdd(w)
        /\ Unique /\ InBloom /\ entry \in [Cells -> Entry] /\ me[w].key \in Keys
        /\ UNCHANGED <<info, bloom>>
    BY WriterFacts DEF Publish, Working, Writing, IInv, Fit
  <1>v. PICK v \in Nat : v = entry[i].version
    BY <1>0 DEF Entry
  <1>1. ~Visible(i) /\ Odd(v) /\ ~Odd(v + 1)
    BY <1>0, <1>v, Parity DEF OwnsOdd, Visible
  <1>2. NextVersion(me[w]) = v + 1
    <2>1. CASE me[w].place = "match"
      <3>1. v = me[w].version + 1 /\ me[w].version \in Nat
        BY <1>0, <1>v, <2>1 DEF Storing, Fields
      <3>2. me[w].version + 2 = v + 1
        BY <3>1
      <3> QED BY <2>1, <3>2 DEF NextVersion
    <2>2. CASE me[w].place # "match"
      BY <1>v, <2>2 DEF NextVersion
    <2> QED BY <2>1, <2>2
  <1>3. entry' = [entry EXCEPT ![i].version = v + 1]
    BY <1>2 DEF Publish
  <1>4. /\ entry'[i].version = v + 1 /\ entry'[i].key = entry[i].key
        /\ \A j \in Cells \ {i} : entry'[j] = entry[j]
    BY <1>0, <1>3 DEF Entry
  <1>5. Visible(i)'
    BY <1>1, <1>4 DEF Visible
  <1>6. entry[i].key # Empty
    <2>1. me[w].op = "insert" => entry[i].key = me[w].key
      BY <1>0 DEF Storing
    <2>2. me[w].op = "erase" => entry[i].key = Tombstone
      BY <1>0 DEF Storing
    <2> QED BY <1>0, <2>1, <2>2, Constants
  <1>7. Moves
    <2>1. \A j \in Cells : entry[j].version \in Nat
      BY <1>0 DEF Entry
    <2>2. entry[i].version <= entry'[i].version
      BY <1>v, <1>4
    <2>3. Opened(i)'
      BY <1>4, <1>6 DEF Opened, Closed
    <2> QED BY <1>0, <1>1, <1>4, <2>1, <2>2, <2>3 DEF Moves, Visible, Opened, Closed
  <1>8. Unique' /\ InBloom'
    BY <1>0, <1>4 DEF Unique, InBloom
  <1> QED BY <1>0, <1>1, <1>4, <1>5, <1>6, <1>7, <1>8

\* An Insert's Publish puts its record in the map; an Erase's answers with the record
\* that its claim took out.
LEMMA WriterPublish ==
    ASSUME NEW w \in Threads, Ref(w), IInv', Remember, me[w].op \in {"insert", "erase"},
           Publish(w)
    PROVE  Alone(w)' /\ Abs(w)' /\ LM!Next
  <1>0. /\ Storing(w) /\ Erasing(w) /\ Fields(me[w]) /\ me[w].index \in Cells
        /\ me[w].pc = "publish" /\ Writing(w) /\ Pending(w) /\ DOMAIN me = Threads /\ IInv
        /\ me[w].key \in Keys
    BY WriterFacts DEF Publish, Working, Writing, Pending
  <1>c. OnlyWriter(w) /\ Carried /\ \A u \in Threads : Sees(u)
    BY WriterFacts
  <1>i. PICK i \in Cells : i = me[w].index
    BY <1>0
  <1>1. /\ UNCHANGED <<info, bloom>> /\ ~Visible(i) /\ Visible(i)'
        /\ entry'[i].key = entry[i].key
        /\ \A j \in Cells \ {i} : entry'[j] = entry[j]
        /\ Moves /\ Unique' /\ InBloom'
    BY <1>i, PublishShows
  <1>2. Unmoved(w)
    BY <1>0 DEF Publish, Unmoved
  <1>3. CASE me[w].op = "insert"
    <2>1. entry[i].key = me[w].key /\ info[i]["body"] = me[w].rec
      BY <1>0, <1>i, <1>3 DEF Storing, Words
    <2>2. Map'[me[w].key] = me[w].rec
      BY <1>0, <1>1, <2>1, Shows
    <2>3. \A l \in Keys \ {me[w].key} : Map'[l] = Map[l]
      BY <1>1, <2>1, MapElsewhere
    <2>4. Map' = [Map EXCEPT ![me[w].key] = me[w].rec]
      BY <2>2, <2>3, MapFunctions
    <2>5. /\ me'[w].op = me[w].op /\ me'[w].key = me[w].key /\ me'[w].rec = me[w].rec
          /\ \/ me'[w].pc = "idle" /\ ~me'[w].onEmpty /\ me'[w].ok
             \/ me'[w].pc = "count"
      <3>1. CASE me[w].onEmpty
        <4>1. me' = [me EXCEPT ![w] = [me[w] EXCEPT !.pc = "count"]]
          BY <3>1 DEF Publish
        <4> QED BY <1>0, <4>1 DEF Fields, Idle
      <3>2. CASE ~me[w].onEmpty
        <4>1. me' = [me EXCEPT ![w] = Returned(me[w], TRUE, me[w].rec)]
          BY <1>3, <3>2 DEF Publish, Answer
        <4>2. me'[w] = Returned(me[w], TRUE, me[w].rec)
          BY <1>0, <4>1
        <4> QED BY <4>2, ReturnedDone
      <3> QED BY <3>1, <3>2
    <2>6. ~Pending(w)' /\ Ok(w)'
      BY <2>5 DEF Pending, Ok
    <2>7. LM!Next
      BY <1>0, <1>c, <1>2, <1>3, <2>4, <2>5, <2>6, Puts
    <2>8. InWindow(w)' /\ Writes(w)'
      BY <1>3, <2>5, <2>6 DEF InWindow, Writes, Searching, Claiming, Storing, Erasing, Probes,
                              Writing
    <2> QED BY <1>1, <1>2, <1>3, <2>5, <2>7, <2>8, WriterTogether
  <1>4. CASE me[w].op = "erase"
    <2>1. /\ ~me[w].onEmpty /\ WholeCell(i) /\ Copied(me[w]) = info[i]["body"]
          /\ Absent(me[w].key) /\ entry[i].key = Tombstone
      BY <1>0, <1>i, <1>4 DEF Storing
    <2>r. PICK r : r = info[i]["body"]
      OBVIOUS
    <2>2. r \in SeenBy(w) /\ r # NoRecord
      BY <1>0, <1>i, <1>4, <2>1, <2>r DEF Erasing, WholeCell
    <2>3. me' = [me EXCEPT ![w] = Returned(me[w], TRUE, r)]
      BY <1>4, <2>1, <2>r DEF Publish, Answer
    <2>4. me'[w] = Returned(me[w], TRUE, r)
      BY <1>0, <2>3
    <2>5. /\ me'[w].pc = "idle" /\ me'[w].op = me[w].op /\ me'[w].key = me[w].key
          /\ me'[w].rec = r /\ ~me'[w].onEmpty /\ me'[w].ok
      BY <2>4, ReturnedDone
    <2>6. Map' = Map
      <3>1. \A l \in Keys : Map'[l] = Map[l]
        BY <1>1, <2>1, Constants, MapElsewhere
      <3> QED BY <3>1, MapFunctions
    <2>7. Map[me[w].key] = NoRecord
      BY <1>0, <2>1, AbsentMissed
    <2>8. ~Pending(w)' /\ Ok(w)'
      BY <2>5 DEF Pending, Ok
    <2>9. LM!Next
      BY <1>0, <1>c, <1>2, <1>4, <2>2, <2>5, <2>6, <2>7, <2>8, Erases
    <2> QED BY <1>1, <1>2, <1>4, <2>5, <2>9, WriterEnds, WriterTogether
  <1> QED BY <1>3, <1>4

(***************************************************************************)
(* The refinement                                                          *)
(***************************************************************************)
\* Every step of the writer's own inserts and erases.
LEMMA WriterStep ==
    ASSUME NEW w \in Threads, Ref(w), IInv', Remember, me[w].op \in {"insert", "erase"}, Step(w)
    PROVE  Alone(w)' /\ Abs(w)' /\ LM!Next
  <1>1. ~LoadV2(w)
    BY WriterFacts DEF Working, LoadV2
  <1>2. \/ LoadVersion(w) \/ LoadKey(w) \/ LoadFlags(w) \/ CopyOut(w)
        \/ Write(w)
    BY <1>1 DEF Step
  <1>3. CASE LoadVersion(w) \/ LoadKey(w) \/ LoadFlags(w) \/ CopyOut(w)
    BY <1>3, WriterLoadVersion, WriterLoadKey, WriterLoadFlags, WriterCopyOut
  <1>4. CASE LoadVictim(w) \/ ClaimLoad(w) \/ ClaimCas(w) \/ Recheck(w)
    BY <1>4, WriterLoadVictim, WriterClaimLoad, WriterClaimCas, WriterRecheck
  <1>5. CASE SetKey(w) \/ CopyIn(w) \/ SetTombstone(w)
    BY <1>5, WriterSetKey, WriterCopyIn, WriterSetTombstone
  <1>6. CASE Publish(w) \/ CountEntry(w)
    BY <1>6, WriterPublish, WriterCount
  <1> QED BY <1>2, <1>3, <1>4, <1>5, <1>6 DEF Write

\* Every step of every thread, while w alone writes.
LEMMA AnyStep ==
    ASSUME NEW w \in Threads, Ref(w), IInv', Remember, Next
    PROVE  Alone(w)' /\ Abs(w)' /\ LM!Next
  <1>1. CASE \E t \in Threads, k \in Keys, freed \in BOOLEAN : \E op \in used.by[t] : Call(t, op, k, freed)
    <2>0. PICK t \in Threads, k \in Keys, freed \in BOOLEAN :
            \E op \in used.by[t] : Call(t, op, k, freed)
      BY <1>1
    <2>1. PICK op \in used.by[t] : Call(t, op, k, freed)
      BY <2>0
    <2>2. op \in {"insert", "find", "erase"}
      BY <2>1, WriterFacts DEF IInv, TypeOK
    <2>3. CASE op = "find"
      BY <2>1, <2>3, FindCall
    <2>4. CASE op \in {"insert", "erase"}
      <3>1. t = w
        BY <2>1, <2>4, WriterFacts DEF OnlyWriter
      <3> QED BY <2>1, <2>4, <3>1, WriterCall
    <2> QED BY <2>2, <2>3, <2>4
  <1>2. ASSUME NEW t \in Threads, Step(t) PROVE Alone(w)' /\ Abs(w)' /\ LM!Next
    <2>1. Fields(me[t]) /\ Working(t)
      BY Facts
    <2>2. CASE me[t].op = "find"
      BY <1>2, <2>2, FindStep
    <2>3. CASE me[t].op \in {"insert", "erase"}
      <3>1. t = w
        BY <2>3 DEF Ref, Alone
      <3> QED BY <1>2, <2>3, <3>1, WriterStep
    <2>4. CASE me[t].op = "none"
      <3>1. me[t].pc = "idle"
        BY <2>1, <2>4 DEF Working
      <3>2. ~(LoadVersion(t) \/ LoadKey(t) \/ LoadFlags(t) \/ CopyOut(t) \/ LoadV2(t))
        BY <3>1 DEF LoadVersion, LoadKey, LoadFlags, CopyOut, LoadV2
      <3>3. ~(LoadVictim(t) \/ ClaimLoad(t) \/ ClaimCas(t) \/ Recheck(t) \/ SetKey(t))
        BY <3>1 DEF LoadVictim, ClaimLoad, ClaimCas, Recheck, SetKey
      <3>4. ~(CopyIn(t) \/ SetTombstone(t) \/ Publish(t) \/ CountEntry(t))
        BY <3>1 DEF CopyIn, SetTombstone, Publish, CountEntry
      <3> QED BY <1>2, <3>2, <3>3, <3>4 DEF Step, Write
    <2> QED BY <2>1, <2>2, <2>3, <2>4 DEF Fields
  <1>3. CASE Finished
    <2>1. UNCHANGED <<entry, info, bloom, me>>
      BY <1>3 DEF Finished, vars
    <2>2. Unmoved(w) /\ SameCall(w) /\ Map' = Map
      BY <2>1, MapIs DEF Unmoved, SameCall, Pending, Ok
    <2>3. LM!Next
      BY <2>2, WriterFacts, Quiet
    <2>4. Moves /\ Unique' /\ InBloom'
      BY <2>1, StillMoves, WriterFacts DEF Unique, InBloom
    <2>5. Reads(w)' /\ Writes(w)'
      BY <2>1, <2>4, ReaderStays, WriterStays
    <2> QED BY <2>2, <2>3, <2>4, <2>5, Together
  <1> QED BY <1>1, <1>2, <1>3 DEF Next

\* Who makes which calls does not change.
LEMMA UsersKept ==
    ASSUME IInv, [Next]_vars
    PROVE  used'.by = used.by
  <1>1. CASE \E t \in Threads, k \in Keys, freed \in BOOLEAN : \E op \in used.by[t] : Call(t, op, k, freed)
    BY <1>1 DEF Call, IInv, TypeOK
  <1>2. CASE \E t \in Threads : Step(t)
    <2>1. PICK t \in Threads : Step(t)
      BY <1>2
    <2>2. CASE LoadVersion(t) \/ LoadKey(t) \/ LoadFlags(t) \/ CopyOut(t) \/ LoadV2(t)
      BY <2>2 DEF LoadVersion, LoadKey, LoadFlags, CopyOut, LoadV2
    <2>3. CASE LoadVictim(t) \/ ClaimLoad(t) \/ ClaimCas(t) \/ Recheck(t) \/ SetKey(t)
      BY <2>3 DEF LoadVictim, ClaimLoad, ClaimCas, Recheck, SetKey
    <2>4. CASE CopyIn(t) \/ SetTombstone(t) \/ Publish(t) \/ CountEntry(t)
      BY <2>4 DEF CopyIn, SetTombstone, Publish, CountEntry
    <2> QED BY <2>1, <2>2, <2>3, <2>4 DEF Step, Write
  <1>3. CASE Finished \/ UNCHANGED vars
    BY <1>3 DEF Finished, vars
  <1> QED BY <1>1, <1>2, <1>3 DEF Next

\* Before the first call the map is empty and nobody is pending.
LEMMA InitRef == HistoryInit => RefInv /\ LM!Init
  <1> SUFFICES ASSUME HistoryInit PROVE RefInv /\ LM!Init
    OBVIOUS
  <1>0. Init /\ IInv
    BY InitInv DEF HistoryInit
  <1>1. ASSUME NEW t \in Threads
        PROVE  /\ me[t].pc = "idle" /\ me[t].op = "none" /\ me[t].key = Empty
               /\ me[t].rec = NoRecord /\ ~me[t].ok /\ ~me[t].onEmpty
    BY <1>0 DEF Init, Idle
  <1>2. \A i \in Cells : entry[i].key = Empty
    BY <1>0 DEF Init
  <1>3. \A k \in Keys : Absent(k) /\ Map[k] = NoRecord
    BY <1>2, Constants, AbsentMissed DEF Absent
  <1>4. PICK g : g = [t \in Threads |-> CallOf(t)]
    OBVIOUS
  <1>5. abs = [map |-> Map, call |-> g] /\ abs.map = Map /\ abs.call = g
    BY <1>4 DEF HistoryInit
  <1>6. ASSUME NEW t \in Threads
        PROVE  /\ CallOf(t) = LM!NoCall /\ SeenBy(t) = {} /\ ~Pending(t)
               /\ Abstract(t) = CallOf(t)
    <2>1. Pending(t) = FALSE /\ Ok(t) = FALSE
      BY <1>1 DEF Pending, Ok
    <2>2. CallOf(t) = Shown(t, {})
      BY Zenon DEF CallOf, CallIs, Shown, Ok
    <2>3. Shown(t, {}) = CallIs(FALSE, "none", Empty, NoRecord, FALSE, {})
      BY <1>1, <2>1, Zenon DEF Shown
    <2>4. SeenBy(t) = {}
      BY <1>4, <1>5, <2>2, ShownFields DEF SeenBy
    <2>5. Abstract(t) = CallOf(t)
      BY <2>2, <2>4, AbstractIs, Zenon
    <2> QED BY <2>1, <2>2, <2>3, <2>4, <2>5, NoCallIs, Zenon
  <1>7. Carried
    <2>1. g = [t \in Threads |-> Abstract(t)]
      BY <1>4, <1>6
    <2> QED BY <1>5, <2>1 DEF Carried
  <1>8. ASSUME NEW w \in Threads PROVE Alone(w)
    <2>1. Unique /\ InBloom
      BY <1>3 DEF Unique, InBloom, Absent
    <2>2. \A t \in Threads : InWindow(t) /\ Reading(t)
      BY <1>1 DEF InWindow, Reading, Probes
    <2>3. Searching(w) /\ Claiming(w) /\ Storing(w)
      BY <1>1 DEF Searching, Claiming, Storing, Probes, Writing
    <2> QED BY <1>1, <2>1, <2>2, <2>3 DEF Alone
  <1>9. ASSUME NEW w \in Threads PROVE Abs(w)
    <2>1. \A t \in Threads : Sees(t) /\ Looking(t)
      BY <1>1, <1>6 DEF Sees, Looking
    <2> QED BY <1>1, <1>7, <2>1 DEF Abs, Erasing
  <1>10. LM!Init
    <2>1. Map = [k \in Keys |-> NoRecord]
      BY <1>3, MapFunctions
    <2>2. g = [t \in Threads |-> LM!NoCall]
      BY <1>4, <1>6
    <2> QED BY <1>5, <2>1, <2>2, Zenon DEF LM!Init
  <1> QED BY <1>0, <1>8, <1>9, <1>10 DEF RefInv

\* Nothing changes when nothing changes.
LEMMA StutterRef ==
    ASSUME RefInv, UNCHANGED <<vars, abs>>
    PROVE  RefInv' /\ UNCHANGED LM!vars
  <1>0. UNCHANGED <<entry, info, bloom, stat, me, used, abs>>
    BY DEF vars
  <1>1. IInv'
    BY NextInv DEF RefInv
  <1>2. ASSUME NEW w \in Threads, OnlyWriter(w)' PROVE Alone(w)' /\ Abs(w)'
    <2>1. OnlyWriter(w) /\ Alone(w) /\ Abs(w)
      BY <1>0, <1>2 DEF RefInv, OnlyWriter
    <2>2. Unique' /\ InBloom'
      BY <1>0, <2>1 DEF Alone, Unique, InBloom
    <2>3. Searching(w)' /\ Claiming(w)'
      BY <1>0, <2>1 DEF Alone, Searching, Claiming, Window, Freed, Absent, MayTake
    <2>4. Storing(w)'
      BY <1>0, <2>1 DEF Alone, Storing, Writing, Pending, WholeCell, Copied, Absent
    <2>5. \A t \in Threads : InWindow(t)' /\ Reading(t)'
      BY <1>0, <2>1 DEF Alone, InWindow, Reading, Window
    <2>6. Alone(w)'
      BY <1>0, <2>1, <2>2, <2>3, <2>4, <2>5 DEF Alone
    <2>7. Map' = Map
      BY <1>0, MapIs
    <2>8. \A t \in Threads : Abstract(t)' = Abstract(t) /\ SeenBy(t)' = SeenBy(t)
      BY <1>0 DEF Abstract, CallOf, Pending, SeenBy
    <2>9. Carried'
      <3>1. PICK g : g = [t \in Threads |-> Abstract(t)]
        OBVIOUS
      <3>2. g = [t \in Threads |-> Abstract(t)'] /\ abs = [map |-> Map, call |-> g]
        BY <2>1, <2>8, <3>1 DEF Abs, Carried
      <3> QED BY <1>0, <2>7, <3>2 DEF Carried
    <2>10. Erasing(w)'
      BY <1>0, <2>1, <2>7, <2>8 DEF Abs, Erasing, Pending, Writing
    <2>11. \A t \in Threads : Sees(t)' /\ Looking(t)'
      <3> SUFFICES ASSUME NEW t \in Threads PROVE Sees(t)' /\ Looking(t)'
        OBVIOUS
      <3>1. Sees(t)'
        BY <1>0, <2>1, <2>7, <2>8 DEF Abs, Sees, Pending
      <3>2. \A p : Ahead(t, p) => Ahead(t, p)'
        BY <1>0, <2>8 DEF Ahead, PathTo, Opened, Closed, Visible, Window
      <3>3. PICK p, q : p = me[t].probe /\ q = me[t].probe + 1
        OBVIOUS
      <3>4. Looking(t)'
        BY <1>0, <2>1, <2>8, <3>2, <3>3 DEF Abs, Looking
      <3> QED BY <3>1, <3>4
    <2> QED BY <2>6, <2>9, <2>10, <2>11 DEF Abs
  <1> QED BY <1>0, <1>1, <1>2 DEF RefInv, LM!vars

\* The invariant is kept, and every step is one of the map's or shows nothing.
LEMMA NextRef == RefInv /\ [HistoryNext]_<<vars, abs>> => RefInv' /\ [LM!Next]_(LM!vars)
  <1> SUFFICES ASSUME RefInv, HistoryNext PROVE RefInv' /\ [LM!Next]_(LM!vars)
    BY StutterRef
  <1>0. IInv /\ Next /\ Remember
    BY DEF RefInv, HistoryNext
  <1>1. IInv'
    BY <1>0, NextInv
  <1>2. \A w \in Threads : OnlyWriter(w)' <=> OnlyWriter(w)
    <2>1. used'.by = used.by
      BY <1>0, UsersKept
    <2> QED BY <2>1 DEF OnlyWriter
  <1>3. ASSUME NEW w \in Threads, OnlyWriter(w) PROVE Alone(w)' /\ Abs(w)' /\ LM!Next
    <2>1. Ref(w)
      BY <1>0, <1>3 DEF RefInv, Ref
    <2> QED BY <1>0, <1>1, <2>1, AnyStep
  <1>4. RefInv'
    BY <1>1, <1>2, <1>3 DEF RefInv
  <1>5. CASE SingleWriter
    BY <1>3, <1>4, <1>5 DEF SingleWriter
  <1>6. CASE ~SingleWriter
    BY <1>0, <1>4, <1>6 DEF Remember, LM!vars
  <1> QED BY <1>5, <1>6

\* While one thread writes, the ledger is a map to whoever uses it, for every
\* number of threads, keys, cells and calls: inserts that were accepted stay
\* until they are erased, updated or, freed, evicted; an Erase returns what it
\* took out; a Find answers with a whole record that its key had during the call,
\* and with "unknown" only if there was a moment without one.
THEOREM SpecImplements == HistorySpec => Implements
  <1>1. HistoryInit => RefInv /\ LM!Init
    BY InitRef
  <1>2. RefInv /\ [HistoryNext]_<<vars, abs>> => RefInv' /\ [LM!Next]_(LM!vars)
    BY NextRef
  <1> QED BY <1>1, <1>2, PTL DEF HistorySpec, Implements, LM!Spec
=============================================================================
