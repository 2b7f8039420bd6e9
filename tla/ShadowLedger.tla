---------------------------- MODULE ShadowLedger ----------------------------
(* The shadow ledger (Core/ShadowLedger.cpp): one shard of an open-addressing *)
(* hash table from block addresses to allocation records.  The allocator hooks*)
(* of every thread insert and erase, and hooks, sweeper and exception handler *)
(* look up, all without a lock: each entry has a seqlock word.                *)
(*                                                                            *)
(* One step is one access to the table.  Two shards never meet in one call, so*)
(* one is enough.  Threads may stop for ever between any two steps (killed, or*)
(* trapped while they own an entry).                                          *)
EXTENDS Naturals, FiniteSets

CONSTANTS Threads,
          Keys,            \* block addresses
          Empty, Tombstone,\* kEmpty, kTombstone
          Capacity,        \* shard.capacity
          Mix(_),          \* key -> its first cell
          MaxProbe,        \* kMaxProbe
          ClaimAttempts,   \* kClaimAttempts
          Uses,            \* which operations the threads use: functions from threads
          MaxCalls         \* bound

ASSUME LedgerAssumption ==
    /\ Empty \notin Keys /\ Tombstone \notin Keys /\ Empty # Tombstone
    /\ {Capacity, MaxProbe, ClaimAttempts} \subseteq Nat \ {0}
    /\ \A k \in Keys : Mix(k) \in 0 .. Capacity - 1
    /\ Uses \subseteq [Threads -> SUBSET {"insert", "find", "erase"}]
    /\ MaxCalls \in Nat

Cells  == 0 .. Capacity - 1
NoCell == Capacity                     \* static_cast<std::size_t>(-1)
Words  == {"body", "flags"}            \* an AllocationInfo is two words
\* A record: the block it describes, its place in the order of the inserts, and
\* kFlagFreed.
Records == [ptr : Keys \cup {Empty}, n : 0 .. MaxCalls, freed : BOOLEAN]
NoRecord == [ptr |-> Empty, n |-> 0, freed |-> FALSE]

VARIABLES
    entry,   \* cell -> version and key
    info,    \* cell -> word -> the record the word belongs to
    bloom,   \* keys added to the non-aging Bloom filter
    stat,    \* shard.count, _insertFailures, _writerDrops
    me,      \* thread -> the locals of its call
    used     \* the number of calls; who makes which (chosen once)
vars == <<entry, info, bloom, stat, me, used>>

Entry == [version : Nat, key : Keys \cup {Empty, Tombstone}]
Stat  == [count : Nat, failures : Nat, drops : Nat]
Local == [pc : {"idle", "version", "key", "flags", "victim", "claim", "cas", "recheck",
                "setKey", "copyIn", "copyOut", "tombstone", "publish", "v2", "count"},
          op : {"none", "insert", "find", "erase"},
          key : Keys \cup {Empty}, rec : Records, ok : BOOLEAN,     \* arguments, answer
          index : Cells \cup {NoCell}, probe : Nat, version : Nat,
          firstTombstone : Cells \cup {NoCell}, firstFreed : Cells \cup {NoCell},
          place : {"match", "tombstone", "empty", "freed"},         \* why the cell is claimed
          expected : Nat, attempt : Nat,
          onEmpty : BOOLEAN,                                        \* the key read was kEmpty
          copy : [Words -> Records], left : SUBSET Words]

Odd(v) == v % 2 = 1
Whole(rec) == [w \in Words |-> rec]
Freed(i) == info[i]["flags"].freed
Idle == [pc |-> "idle", op |-> "none", key |-> Empty, rec |-> NoRecord, ok |-> FALSE,
         index |-> NoCell, probe |-> 0, version |-> 0, firstTombstone |-> NoCell,
         firstFreed |-> NoCell, place |-> "match", expected |-> 0, attempt |-> 0,
         onEmpty |-> FALSE, copy |-> Whole(NoRecord), left |-> {}]

Init ==
    /\ entry = [i \in Cells |-> [version |-> 0, key |-> Empty]]
    /\ info = [i \in Cells |-> Whole(NoRecord)]
    /\ bloom = {}
    /\ stat = [count |-> 0, failures |-> 0, drops |-> 0]
    /\ me = [t \in Threads |-> Idle]
    /\ \E by \in Uses : used = [calls |-> 0, by |-> by]

(***************************************************************************)
(* The calls and the probe loop they share                                 *)
(***************************************************************************)
\* A call ends; its arguments and its answer stay visible.
Returned(m, ok, rec) == [Idle EXCEPT !.op = m.op, !.key = m.key, !.rec = rec, !.ok = ok]

\* Only an Insert adds its key to the filter, before it probes.
AddToBloom(op, k) == IF op = "insert" THEN bloom \cup {k} ELSE bloom

\* Only Find asks the filter, which may answer yes for a key it does not hold.
MightContain(op, k) == IF op = "find" THEN {TRUE, (k \in bloom)} ELSE {TRUE}

Call(t, op, k, freed) ==
    /\ me[t].pc = "idle" /\ used.calls < MaxCalls
    /\ op # "insert" => ~freed
    /\ used' = [used EXCEPT !.calls = @ + 1]
    /\ bloom' = AddToBloom(op, k)
    /\ \E maybe \in MightContain(op, k) :
        LET m == [Idle EXCEPT !.op = op, !.key = k,
                              !.rec = IF op = "insert"
                                      THEN [ptr |-> k, n |-> used.calls + 1, freed |-> freed]
                                      ELSE NoRecord] IN
        me' = [me EXCEPT ![t] = IF maybe THEN [m EXCEPT !.pc = "version", !.index = Mix(k)]
                                         ELSE Returned(m, FALSE, NoRecord)]
    /\ UNCHANGED <<entry, info, stat>>

Failed(t) == /\ stat' = [stat EXCEPT !.failures = @ + 1]
             /\ me' = [me EXCEPT ![t] = Returned(@, FALSE, @.rec)]

\* InsertAtVictim is entered with the cell chosen and the reason it may be taken.
AtVictim(m, i, place) == [m EXCEPT !.pc = "victim", !.index = i, !.place = place]

\* The cell of key Empty ends an Insert's probe: a tombstone met on the way is
\* preferred to it.
EmptyTarget(m) == IF m.firstTombstone = NoCell THEN AtVictim(m, m.index, "empty")
                                               ELSE AtVictim(m, m.firstTombstone, "tombstone")

\* The probe moves on, or the window is exhausted.
NextProbe(t, m) ==
    IF m.probe + 1 < MaxProbe
    THEN /\ me' = [me EXCEPT ![t] = [m EXCEPT !.pc = "version", !.probe = @ + 1,
                                              !.index = (@ + 1) % Capacity,
                                              !.onEmpty = FALSE]]
         /\ UNCHANGED stat
    ELSE \/ /\ m.op # "insert"
            /\ me' = [me EXCEPT ![t] = Returned(m, FALSE, NoRecord)] /\ UNCHANGED stat
         \/ /\ m.op = "insert" /\ m.firstTombstone # NoCell
            /\ me' = [me EXCEPT ![t] = AtVictim(m, m.firstTombstone, "tombstone")]
            /\ UNCHANGED stat
         \/ /\ m.op = "insert" /\ m.firstTombstone = NoCell /\ m.firstFreed # NoCell
            /\ me' = [me EXCEPT ![t] = AtVictim(m, m.firstFreed, "freed")]
            /\ UNCHANGED stat
         \/ m.op = "insert" /\ {m.firstTombstone, m.firstFreed} = {NoCell} /\ Failed(t)

LoadVersion(t) ==
    /\ me[t].pc = "version"
    /\ LET v == entry[me[t].index].version IN
       IF Odd(v) THEN NextProbe(t, me[t])
       ELSE me' = [me EXCEPT ![t].version = v, ![t].pc = "key"] /\ UNCHANGED stat
    /\ UNCHANGED <<entry, info, bloom, used>>

\* The match is claimed by the writers and copied by Find.
Matched(m) == IF m.op = "find" THEN [m EXCEPT !.pc = "copyOut", !.left = Words]
                               ELSE [m EXCEPT !.pc = "claim", !.place = "match"]

FirstOf(old, i) == IF old = NoCell THEN i ELSE old

\* The key may still be further on.
OnTombstone(t, m) ==
    NextProbe(t, IF m.op = "insert" THEN [m EXCEPT !.firstTombstone = FirstOf(@, m.index)] ELSE m)

LoadKey(t) ==
    /\ me[t].pc = "key"
    /\ LET m == me[t]
           k == entry[m.index].key IN
       \/ k = m.key /\ me' = [me EXCEPT ![t] = Matched(m)] /\ UNCHANGED stat
       \/ /\ k = Empty /\ UNCHANGED stat
          /\ me' = [me EXCEPT ![t] = CASE m.op = "insert" -> EmptyTarget(m)
                                       [] m.op = "find"   -> [m EXCEPT !.pc = "v2", !.onEmpty = TRUE]
                                       [] m.op = "erase"  -> Returned(m, FALSE, NoRecord)]
       \/ k = Tombstone /\ OnTombstone(t, m)
       \/ /\ k \notin {m.key, Empty, Tombstone}
          /\ IF m.op = "insert"
             THEN me' = [me EXCEPT ![t].pc = "flags"] /\ UNCHANGED stat
             ELSE NextProbe(t, m)
    /\ UNCHANGED <<entry, info, bloom, used>>

\* Insert remembers the first freed record of another key.
LoadFlags(t) ==
    /\ me[t].pc = "flags"
    /\ NextProbe(t, IF Freed(me[t].index)
                    THEN [me[t] EXCEPT !.firstFreed = FirstOf(@, me[t].index)] ELSE me[t])
    /\ UNCHANGED <<entry, info, bloom, used>>

(***************************************************************************)
(* The writers: Claim, the stores and Publish                              *)
(***************************************************************************)
\* InsertAtVictim's first look.
LoadVictim(t) ==
    /\ me[t].pc = "victim"
    /\ IF Odd(entry[me[t].index].version)
       THEN Failed(t)
       ELSE me' = [me EXCEPT ![t].pc = "claim"] /\ UNCHANGED stat
    /\ UNCHANGED <<entry, info, bloom, used>>

\* Claim's loop: after ClaimAttempts the call is abandoned and counted.
Relax(t) ==
    IF me[t].attempt + 1 < ClaimAttempts
    THEN me' = [me EXCEPT ![t].pc = "claim", ![t].attempt = @ + 1] /\ UNCHANGED stat
    ELSE /\ stat' = [stat EXCEPT !.drops = @ + 1]
         /\ me' = [me EXCEPT ![t] = Returned(@, FALSE, @.rec)]

ClaimLoad(t) ==
    /\ me[t].pc = "claim"
    /\ LET v == entry[me[t].index].version IN
       IF Odd(v) THEN Relax(t)
       ELSE me' = [me EXCEPT ![t].expected = v, ![t].pc = "cas"] /\ UNCHANGED stat
    /\ UNCHANGED <<entry, info, bloom, used>>

\* Mutant: an update in place stores one word only.
ClaimedPartial(m) ==
    IF m.place = "match"
    THEN [m EXCEPT !.pc = IF m.op = "insert" THEN "copyIn" ELSE "copyOut", !.left = {"body"}]
    ELSE [m EXCEPT !.pc = "recheck"]

\* A matched entry is written without another look at its key.
Claimed(m) ==
    IF m.place = "match"
    THEN [m EXCEPT !.pc = IF m.op = "insert" THEN "copyIn" ELSE "copyOut", !.left = Words]
    ELSE [m EXCEPT !.pc = "recheck"]

\* Mutant: a store instead of a compare-exchange.
ExchangesBlind(i, expected) == TRUE
Exchanges(i, expected) == entry[i].version = expected

ClaimCas(t) ==
    /\ me[t].pc = "cas"
    /\ LET i == me[t].index IN
       IF Exchanges(i, me[t].expected)
       THEN /\ entry' = [entry EXCEPT ![i].version = me[t].expected + 1]
            /\ me' = [me EXCEPT ![t] = Claimed(@)] /\ UNCHANGED stat
       ELSE Relax(t) /\ UNCHANGED entry
    /\ UNCHANGED <<info, bloom, used>>

\* Mutant: the evicted record is not looked at again.
MayTakeUnchecked(i, place) ==
    entry[i].key = Empty \/ (entry[i].key = Tombstone /\ place = "tombstone") \/ place = "freed"

\* Whether the victim, now ours, is still what the probe saw.
MayTake(i, place) ==
    \/ entry[i].key = Empty
    \/ entry[i].key = Tombstone /\ place = "tombstone"
    \/ entry[i].key \in Keys /\ place = "freed" /\ Freed(i)

\* InsertAtVictim publishes from the version it owns, a match from the version
\* it loaded before the claim.
NextVersion(m) == IF m.place = "match" THEN m.version + 2 ELSE entry[m.index].version + 1

Recheck(t) ==
    /\ me[t].pc = "recheck"
    /\ LET m == me[t] IN
       \/ /\ MayTake(m.index, m.place)
          /\ me' = [me EXCEPT ![t].pc = "setKey", ![t].onEmpty = entry[m.index].key = Empty]
          /\ UNCHANGED <<entry, stat>>
       \/ /\ ~MayTake(m.index, m.place)
          /\ entry' = [entry EXCEPT ![m.index].version = NextVersion(m)]
          /\ Failed(t)
    /\ UNCHANGED <<info, bloom, used>>

SetKey(t) ==
    /\ me[t].pc = "setKey"
    /\ entry' = [entry EXCEPT ![me[t].index].key = me[t].key]
    /\ me' = [me EXCEPT ![t].pc = "copyIn", ![t].left = Words]
    /\ UNCHANGED <<info, bloom, stat, used>>

CopyIn(t) ==
    /\ me[t].pc = "copyIn"
    /\ \E w \in me[t].left :
        /\ info' = [info EXCEPT ![me[t].index][w] = me[t].rec]
        /\ me' = [me EXCEPT ![t].left = @ \ {w},
                            ![t].pc = IF me[t].left = {w} THEN "publish" ELSE @]
    /\ UNCHANGED <<entry, bloom, stat, used>>

\* Find's copy, or Erase's a_out under its claim.
CopyOut(t) ==
    /\ me[t].pc = "copyOut"
    /\ \E w \in me[t].left :
        me' = [me EXCEPT ![t].copy[w] = info[me[t].index][w], ![t].left = @ \ {w},
                         ![t].pc = IF me[t].left # {w} THEN @
                                   ELSE IF me[t].op = "find" THEN "v2" ELSE "tombstone"]
    /\ UNCHANGED <<entry, info, bloom, stat, used>>

\* Mutant: an erased cell becomes empty again.
SetTombstoneEmpty(t) ==
    /\ me[t].pc = "tombstone"
    /\ entry' = [entry EXCEPT ![me[t].index].key = Empty]
    /\ me' = [me EXCEPT ![t].pc = "publish"]
    /\ UNCHANGED <<info, bloom, stat, used>>

SetTombstone(t) ==
    /\ me[t].pc = "tombstone"
    /\ entry' = [entry EXCEPT ![me[t].index].key = Tombstone]
    /\ me' = [me EXCEPT ![t].pc = "publish"]
    /\ UNCHANGED <<info, bloom, stat, used>>

\* The record a copy amounts to: the flags are the second word's.
Copied(m) == [m.copy["body"] EXCEPT !.freed = m.copy["flags"].freed]

\* An Erase answers with the record it copied.
Answer(m) == IF m.op = "erase" THEN Copied(m) ELSE m.rec

Publish(t) ==
    /\ me[t].pc = "publish"
    /\ entry' = [entry EXCEPT ![me[t].index].version = NextVersion(me[t])]
    /\ me' = [me EXCEPT ![t] = IF @.onEmpty THEN [@ EXCEPT !.pc = "count"]
                                             ELSE Returned(@, TRUE, Answer(@))]
    /\ UNCHANGED <<info, bloom, stat, used>>

CountEntry(t) ==
    /\ me[t].pc = "count"
    /\ stat' = [stat EXCEPT !.count = @ + 1]
    /\ me' = [me EXCEPT ![t] = Returned(@, TRUE, @.rec)]
    /\ UNCHANGED <<entry, info, bloom, used>>

(***************************************************************************)
(* Find's verdict on its copy, or on an empty cell                         *)
(***************************************************************************)
\* Mutant: the version is not read again.
AcceptsAlways(m) == TRUE
Accepts(m) == entry[m.index].version = m.version

LoadV2(t) ==
    /\ me[t].pc = "v2"
    /\ LET m == me[t] IN
       \/ /\ ~m.onEmpty
          /\ me' = [me EXCEPT ![t] = Returned(m, Accepts(m), IF Accepts(m) THEN Copied(m)
                                                                           ELSE NoRecord)]
          /\ UNCHANGED stat
       \/ /\ m.onEmpty /\ Accepts(m)
          /\ me' = [me EXCEPT ![t] = Returned(m, FALSE, NoRecord)] /\ UNCHANGED stat
       \/ m.onEmpty /\ ~Accepts(m) /\ NextProbe(t, m)
    /\ UNCHANGED <<entry, info, bloom, used>>

Write(t) == \/ LoadVictim(t) \/ ClaimLoad(t) \/ ClaimCas(t) \/ Recheck(t) \/ SetKey(t)
            \/ CopyIn(t) \/ SetTombstone(t) \/ Publish(t) \/ CountEntry(t)
Step(t) == LoadVersion(t) \/ LoadKey(t) \/ LoadFlags(t) \/ CopyOut(t) \/ LoadV2(t) \/ Write(t)
Finished == /\ \A t \in Threads : me[t].pc = "idle" /\ used.calls = MaxCalls
            /\ UNCHANGED vars
Next == \/ \E t \in Threads, k \in Keys, freed \in BOOLEAN :
            \E op \in used.by[t] : Call(t, op, k, freed)
        \/ \E t \in Threads : Step(t)
        \/ Finished
Spec == Init /\ [][Next]_vars

(***************************************************************************)
(* Properties                                                              *)
(***************************************************************************)
Owns(t, i) == /\ me[t].index = i
              /\ \/ me[t].pc \in {"recheck", "setKey", "copyIn", "tombstone", "publish"}
                 \/ me[t].pc = "copyOut" /\ me[t].op = "erase"

\* Claim gives an entry to one writer at a time, and readers see it as owned,
\* although Publish may store a version from before the claim.
OneWriter ==
    \A t \in Threads, i \in Cells :
        Owns(t, i) => Odd(entry[i].version) /\ \A u \in Threads : Owns(u, i) => u = t

\* An entry nobody is writing holds one whole record, whatever calls met on it
\* and wherever a writer stopped.
EntryWhole ==
    \A i \in Cells : (entry[i].key \in Keys /\ ~Odd(entry[i].version)) =>
        info[i]["body"] = info[i]["flags"] /\ info[i]["body"] # NoRecord

Window(k, d) == (Mix(k) + d) % Capacity
Closed(i) == entry[i].key = Empty /\ ~Odd(entry[i].version)

\* A probe that stops at an empty cell never stops short of its key: from the
\* first cell of a stored key to its cell there is no free empty cell, also
\* when an Insert skipped cells that were being written.
NoHole ==
    \A k \in Keys, i \in Cells : entry[i].key = k =>
        \E d \in 0 .. MaxProbe - 1 :
            /\ Window(k, d) = i
            /\ \A e \in 0 .. d - 1 : ~Closed(Window(k, e))

\* Insert replaces another block's record only when that record is of a freed
\* block: the eviction never costs the record of a live one.
EvictsOnlyFreed ==
    [][\A i \in Cells :
        ({entry[i].key, entry'[i].key} \subseteq Keys /\ entry'[i].key # entry[i].key)
            => Freed(i)]_vars

=============================================================================
