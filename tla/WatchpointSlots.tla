-------------------------- MODULE WatchpointSlots --------------------------
(* The table of the four debug-register slots (Core/WatchpointSlots.cpp): a  *)
(* per-entry seqlock without locks.  A version is the pair (seq, bit0)     *)
(* that the code packs into one word: bit 0 is "a writer owns the entry", the*)
(* rest is a sequence number.                                                *)
(*                                                                           *)
(* Game threads call Release (free hook) and ReadSlot (trap handler); the    *)
(* sweeper calls Claim, RotateOldest, Release followed by MarkTripped (the   *)
(* drainer) and Snapshot; Shutdown calls ClearAll after joining the sweeper. *)
(*                                                                           *)
(* One step is one access to shared memory.  The plain stores between the    *)
(* claiming CAS and the publishing store, and the plain loads between the    *)
(* two version loads of a reader, happen in any order.                       *)
EXTENDS Naturals, FiniteSets

CONSTANTS Threads,        \* the game threads
          Sweeper,        \* the sweeper (after Shutdown: the thread that shuts down)
          Addrs,          \* block addresses
          NoAddr,         \* the zero address
          NSlots,         \* kWatchpointSlotCount
          ClaimAttempts,  \* kClaimAttempts
          MaxOps          \* bound: operations started

ASSUME SlotsAssumption ==
    /\ Sweeper \notin Threads
    /\ NoAddr \notin Addrs
    /\ NSlots \in Nat \ {0}
    /\ ClaimAttempts \in Nat \ {0}
    /\ MaxOps \in Nat

Procs == Threads \cup {Sweeper}
Slots == 0 .. NSlots - 1
Words == {"addr", "free", "flags"}
Flags == {"occupied", "tripped", "released"}
Word == Addrs \cup {NoAddr} \cup SUBSET Flags
Payload == {s \in [Words -> Word] : /\ s["addr"] \in Addrs \cup {NoAddr}
                                   /\ s["free"] \in Addrs \cup {NoAddr}
                                   /\ s["flags"] \in SUBSET Flags}
Version == [seq : Nat, bit0 : {0, 1}]
Ops == {"release", "rotate", "drain", "trip", "claim", "clear", "read", "snapshot"}
PCs == {"idle", "releaseVersion", "releaseAddr", "releaseFlags", "entry", "entryCas",
        "write", "claimVersion", "claimFree", "claimCas", "clearVersion", "clearFlags",
        "tripVersion", "rotatePick", "rotateAddr", "read", "copy"}

VARIABLES
    version,   \* slot -> Version
    slot,      \* slot -> Payload; "free" is the instance a Release recorded
    pc, op,    \* per process: where it is, and in which operation
    idx,       \* per process: the slot it works on
    arg,       \* per process: the address it was called with
    inst,      \* per process: the free instance Release records
    rep,       \* per process: the slot index of the report being drained
    tries,     \* per process: CAS attempts used
    seen,      \* per process: the version it loaded
    left,      \* per process: the words still to store or to copy
    new,       \* per process: the values being stored
    copy,      \* per process: the words copied so far
    stopped,   \* Shutdown has run
    ops        \* operations started

shared == <<version, slot>>
local  == <<pc, op, idx, arg, inst, rep, tries, seen, left, new, copy>>
vars   == <<version, slot, pc, op, idx, arg, inst, rep, tries, seen,
            left, new, copy, stopped, ops>>

Fields(a, f, g) ==
    [w \in Words |-> CASE w = "addr" -> a [] w = "free" -> f [] OTHER -> g]
EmptySlot == Fields(NoAddr, NoAddr, {})

Writing(v) == v.bit0 = 1             \* VersionIsWriting
Claimed(v) == [v EXCEPT !.bit0 = 1]  \* version | 1

\* FreeSlot: never used, or released.
FreeSlotInverted(s) == s["addr"] = NoAddr \/ "released" \notin s["flags"]   \* mutant: the flag test is inverted
FreeSlot(s) == s["addr"] = NoAddr \/ "released" \in s["flags"]

Init ==
    /\ version = [i \in Slots |-> [seq |-> 0, bit0 |-> 0]]
    /\ slot = [i \in Slots |-> EmptySlot]
    /\ pc = [p \in Procs |-> "idle"]
    /\ op = [p \in Procs |-> "read"]
    /\ idx = [p \in Procs |-> 0]
    /\ arg = [p \in Procs |-> NoAddr]
    /\ inst = [p \in Procs |-> NoAddr]
    /\ rep = [p \in Procs |-> 0]
    /\ tries = [p \in Procs |-> 0]
    /\ seen = [p \in Procs |-> [seq |-> 0, bit0 |-> 0]]
    /\ left = [p \in Procs |-> {}]
    /\ new = [p \in Procs |-> EmptySlot]
    /\ copy = [p \in Procs |-> EmptySlot]
    /\ stopped = FALSE
    /\ ops = 0

(***************************************************************************)
(* What each writing operation stores, and into which words.               *)
(***************************************************************************)
Target(o, s, a, f) ==
    CASE o \in {"release", "rotate", "drain"} ->
            Fields(s["addr"], f, s["flags"] \cup {"released"})
      [] o = "trip"  -> Fields(s["addr"], s["free"], s["flags"] \cup {"tripped"})
      [] o = "clear" -> Fields(NoAddr, NoAddr, {"released"})
      [] OTHER       -> Fields(a, NoAddr, {"occupied"})

WordsOf(o) ==
    CASE o \in {"release", "rotate", "drain"} -> {"free", "flags"}
      [] o = "trip" -> {"flags"}
      [] OTHER -> Words

\* Publish: the next even version.
PublishedKeepsSeq(v) == [seq |-> v.seq, bit0 |-> 0]          \* mutant: Publish(slot, claimed) stores claimed
Published(v) == [seq |-> v.seq + 1, bit0 |-> 0]

\* ClaimEntry skips an entry whose bit 0 is set.
ClaimableAlways(v) == TRUE                                         \* mutant: the VersionIsWriting test is missing
Claimable(v) == ~Writing(v)

\* The bound of the attempt loops.
AttemptsLeft(n) == n + 1 < ClaimAttempts

Goto(p, l) == pc' = [pc EXCEPT ![p] = l]
At(p, i)   == idx' = [idx EXCEPT ![p] = i]

\* The bound of the loops over the table.
MoreSlots(i) == i + 1 < NSlots

\* Leave the current entry without having written it: Release and Claim and
\* MarkTripped return, ClearAll and Snapshot go to the next slot.
NextEntry(p, l) ==
    IF MoreSlots(idx[p])
    THEN Goto(p, l) /\ At(p, idx[p] + 1)
    ELSE Goto(p, "idle") /\ UNCHANGED idx

(***************************************************************************)
(* Starting an operation                                                   *)
(***************************************************************************)
Start(p, o, l, i, a, f, r) ==
    /\ pc[p] = "idle"
    /\ ops < MaxOps
    /\ ops' = ops + 1
    /\ Goto(p, l)
    /\ op' = [op EXCEPT ![p] = o]
    /\ At(p, i)
    /\ arg' = [arg EXCEPT ![p] = a]
    /\ inst' = [inst EXCEPT ![p] = f]
    /\ rep' = [rep EXCEPT ![p] = r]
    /\ tries' = [tries EXCEPT ![p] = 0]
    /\ UNCHANGED <<version, slot, seen, left, new, copy>>

\* The free hook: Release(a, tick, instance).  Watchpoints::OnScaleformFree
\* returns early once Shutdown has cleared _active.
StartRelease(p, a) ==
    /\ p \in Threads /\ ~stopped
    /\ Start(p, "release", "releaseVersion", 0, a, a, 0)
    /\ UNCHANGED stopped

\* The trap handler on a game thread reads the slot named by DR6.
StartRead(p, i) ==
    /\ p \in Threads
    /\ Start(p, "read", "read", i, NoAddr, NoAddr, 0)
    /\ UNCHANGED stopped

\* PromoteCandidates: Claim for a popped candidate.
StartClaim(a) ==
    /\ ~stopped
    /\ Start(Sweeper, "claim", "claimVersion", 0, a, NoAddr, 0)
    /\ UNCHANGED stopped

StartRotate ==
    /\ ~stopped
    /\ Start(Sweeper, "rotate", "rotatePick", 0, NoAddr, NoAddr, 0)
    /\ UNCHANGED stopped

\* DrainReports on a clobbered vtable: Release by address, then MarkTripped of
\* the reported index if it still holds the address.
StartDrain(a, i) ==
    /\ ~stopped
    /\ Start(Sweeper, "drain", "releaseVersion", 0, a, NoAddr, i)
    /\ UNCHANGED stopped

StartSnapshot ==
    /\ ~stopped
    /\ Start(Sweeper, "snapshot", "read", 0, NoAddr, NoAddr, 0)
    /\ UNCHANGED stopped

\* Shutdown joins the sweeper and then clears the table.
StartClearAll ==
    /\ ~stopped
    /\ stopped' = TRUE
    /\ Start(Sweeper, "clear", "clearVersion", 0, NoAddr, NoAddr, 0)

(***************************************************************************)
(* Release: unclaimed looks at the version, the address and the flags, then*)
(* ClaimEntry.                                                             *)
(***************************************************************************)
quiet == <<shared, op, arg, inst, rep, tries, seen, left, new, copy, stopped, ops>>

ReleaseVersion(p) ==
    /\ pc[p] = "releaseVersion"
    /\ IF Writing(version[idx[p]])
       THEN NextEntry(p, "releaseVersion")
       ELSE Goto(p, "releaseAddr") /\ UNCHANGED idx
    /\ UNCHANGED quiet

ReleaseAddr(p) ==
    /\ pc[p] = "releaseAddr"
    /\ IF slot[idx[p]]["addr"] # arg[p]
       THEN NextEntry(p, "releaseVersion")
       ELSE Goto(p, "releaseFlags") /\ UNCHANGED idx
    /\ UNCHANGED quiet

ReleaseFlags(p) ==
    /\ pc[p] = "releaseFlags"
    /\ IF "released" \in slot[idx[p]]["flags"]
       THEN NextEntry(p, "releaseVersion")
       ELSE Goto(p, "entry") /\ UNCHANGED idx
    /\ UNCHANGED quiet

\* RotateOldest picks the occupied slot armed longest (ticks are abstracted:
\* any occupied slot may be the oldest and past its hold time) ...
RotatePick(p) ==
    /\ pc[p] = "rotatePick"
    /\ \/ \E i \in Slots :
            /\ ~Writing(version[i])
            /\ ~FreeSlot(slot[i])
            /\ At(p, i)
            /\ Goto(p, "rotateAddr")
       \/ Goto(p, "idle") /\ UNCHANGED idx
    /\ UNCHANGED quiet

\* ... and calls Release with the address it then finds there.
RotateAddr(p) ==
    /\ pc[p] = "rotateAddr"
    /\ arg' = [arg EXCEPT ![p] = slot[idx[p]]["addr"]]
    /\ IF slot[idx[p]]["addr"] = NoAddr
       THEN Goto(p, "idle") /\ UNCHANGED idx
       ELSE Goto(p, "releaseVersion") /\ At(p, 0)
    /\ UNCHANGED <<shared, op, inst, rep, tries, seen, left, new, copy, stopped, ops>>

\* MarkTripped gives up at once on an entry that is being written.
TripVersion(p) ==
    /\ pc[p] = "tripVersion"
    /\ IF Writing(version[idx[p]]) THEN Goto(p, "idle") ELSE Goto(p, "entry")
    /\ UNCHANGED <<quiet, idx>>

\* ClearAll skips an entry that is being written or is already released.
ClearVersion(p) ==
    /\ pc[p] = "clearVersion"
    /\ IF Writing(version[idx[p]])
       THEN NextEntry(p, "clearVersion")
       ELSE Goto(p, "clearFlags") /\ UNCHANGED idx
    /\ UNCHANGED quiet

AlreadyFreeOccupied(s) == "occupied" \in s["flags"]                 \* mutant: the wrong flag
AlreadyFree(s) == "released" \in s["flags"]

ClearFlags(p) ==
    /\ pc[p] = "clearFlags"
    /\ IF AlreadyFree(slot[idx[p]])
       THEN NextEntry(p, "clearVersion")
       ELSE Goto(p, "entry") /\ UNCHANGED idx
    /\ UNCHANGED quiet

(***************************************************************************)
(* ClaimEntry: a bounded loop of load and compare-exchange; a load that    *)
(* finds bit 0 set, or a lost exchange, costs one attempt.                 *)
(***************************************************************************)
Attempt(p) ==
    IF AttemptsLeft(tries[p])
    THEN /\ tries' = [tries EXCEPT ![p] = @ + 1]
         /\ Goto(p, "entry")
         /\ UNCHANGED idx
    ELSE /\ tries' = [tries EXCEPT ![p] = 0]
         /\ IF op[p] = "clear"
            THEN NextEntry(p, "clearVersion")
            ELSE Goto(p, "idle") /\ UNCHANGED idx

\* The entry is taken: what the write section will store.
TakeEntry(p, o, a, f) ==
    /\ version' = [version EXCEPT ![idx[p]] = Claimed(@)]
    /\ new' = [new EXCEPT ![p] = Target(o, slot[idx[p]], a, f)]
    /\ left' = [left EXCEPT ![p] = WordsOf(o)]
    /\ Goto(p, "write")

EntryLoad(p) ==
    /\ pc[p] = "entry"
    /\ IF Claimable(version[idx[p]])
       THEN /\ seen' = [seen EXCEPT ![p] = version[idx[p]]]
            /\ Goto(p, "entryCas")
            /\ UNCHANGED <<idx, tries>>
       ELSE Attempt(p) /\ UNCHANGED seen
    /\ UNCHANGED <<shared, op, arg, inst, rep, left, new, copy, stopped, ops>>

EntryCas(p) ==
    /\ pc[p] = "entryCas"
    /\ IF version[idx[p]] = seen[p]
       THEN /\ TakeEntry(p, op[p], arg[p], inst[p])
            /\ tries' = [tries EXCEPT ![p] = 0]
            /\ UNCHANGED idx
       ELSE Attempt(p) /\ UNCHANGED <<version, new, left>>
    /\ UNCHANGED <<slot, op, arg, inst, rep, seen, copy, stopped, ops>>

(***************************************************************************)
(* Claim: scan for a free slot and take it with one compare-exchange on    *)
(* the version it was seen free at; a lost exchange re-scans from the top. *)
(***************************************************************************)
ClaimVersion(p) ==
    /\ pc[p] = "claimVersion"
    /\ IF Writing(version[idx[p]])
       THEN NextEntry(p, "claimVersion") /\ UNCHANGED seen
       ELSE /\ seen' = [seen EXCEPT ![p] = version[idx[p]]]
            /\ Goto(p, "claimFree")
            /\ UNCHANGED idx
    /\ UNCHANGED <<shared, op, arg, inst, rep, tries, left, new, copy, stopped, ops>>

ClaimFree(p) ==
    /\ pc[p] = "claimFree"
    /\ IF FreeSlot(slot[idx[p]])
       THEN Goto(p, "claimCas") /\ UNCHANGED idx
       ELSE NextEntry(p, "claimVersion")
    /\ UNCHANGED quiet

ClaimCas(p) ==
    /\ pc[p] = "claimCas"
    /\ IF version[idx[p]] = seen[p]
       THEN TakeEntry(p, "claim", arg[p], NoAddr) /\ UNCHANGED <<idx, tries>>
       ELSE /\ At(p, 0)
            /\ IF AttemptsLeft(tries[p])
               THEN /\ tries' = [tries EXCEPT ![p] = @ + 1]
                    /\ Goto(p, "claimVersion")
               ELSE Goto(p, "idle") /\ UNCHANGED tries
            /\ UNCHANGED <<version, new, left>>
    /\ UNCHANGED <<slot, op, arg, inst, rep, seen, copy, stopped, ops>>

(***************************************************************************)
(* The write section and its publication                                   *)
(***************************************************************************)
StoreWord(p, w) ==
    /\ pc[p] = "write"
    /\ w \in left[p]
    /\ slot' = [slot EXCEPT ![idx[p]][w] = new[p][w]]
    /\ left' = [left EXCEPT ![p] = @ \ {w}]
    /\ UNCHANGED <<version, pc, op, idx, arg, inst, rep, tries, seen, new, copy, stopped, ops>>

Publish(p) ==
    /\ pc[p] = "write"
    /\ left[p] = {}
    /\ version' = [version EXCEPT ![idx[p]] = Published(@)]
    /\ CASE op[p] = "clear" -> NextEntry(p, "clearVersion")
         [] op[p] = "drain" -> Goto(p, "read") /\ At(p, rep[p])
         [] OTHER -> Goto(p, "idle") /\ UNCHANGED idx
    /\ UNCHANGED <<slot, op, arg, inst, rep, tries, seen, left, new, copy, stopped, ops>>

(***************************************************************************)
(* ReadSlot and Snapshot: load the version, copy, load the version again.  *)
(***************************************************************************)
ReadVersion(p) ==
    /\ pc[p] = "read"
    /\ IF Writing(version[idx[p]])
       THEN /\ IF op[p] = "snapshot" THEN NextEntry(p, "read") ELSE Goto(p, "idle") /\ UNCHANGED idx
            /\ UNCHANGED <<seen, left>>
       ELSE /\ seen' = [seen EXCEPT ![p] = version[idx[p]]]
            /\ left' = [left EXCEPT ![p] = Words]
            /\ Goto(p, "copy")
            /\ UNCHANGED idx
    /\ UNCHANGED <<shared, op, arg, inst, rep, tries, new, copy, stopped, ops>>

CopyWord(p, w) ==
    /\ pc[p] = "copy"
    /\ w \in left[p]
    /\ copy' = [copy EXCEPT ![p][w] = slot[idx[p]][w]]
    /\ left' = [left EXCEPT ![p] = @ \ {w}]
    /\ UNCHANGED <<shared, pc, op, idx, arg, inst, rep, tries, seen, new, stopped, ops>>

\* The second version load decides whether the copy is accepted.
Accepts(p) == version[idx[p]] = seen[p]

\* DrainReports re-checks that the reported index still holds the address.
StillHoldsUnchecked(p) == TRUE                                     \* mutant: the re-check is missing
StillHolds(p) == copy[p]["addr"] = arg[p]

Validate(p) ==
    /\ pc[p] = "copy"
    /\ left[p] = {}
    /\ CASE op[p] = "snapshot" ->
                NextEntry(p, "read") /\ UNCHANGED <<op, tries>>
         [] op[p] = "drain" /\ Accepts(p) /\ StillHolds(p) ->
                /\ Goto(p, "tripVersion")
                /\ op' = [op EXCEPT ![p] = "trip"]
                /\ tries' = [tries EXCEPT ![p] = 0]
                /\ UNCHANGED idx
         [] OTHER -> Goto(p, "idle") /\ UNCHANGED <<idx, op, tries>>
    /\ UNCHANGED <<shared, arg, inst, rep, seen, left, new, copy, stopped, ops>>

(***************************************************************************)
(* The specification                                                       *)
(***************************************************************************)
Step(p) ==
    \/ ReleaseVersion(p) \/ ReleaseAddr(p) \/ ReleaseFlags(p)
    \/ RotatePick(p) \/ RotateAddr(p)
    \/ TripVersion(p) \/ ClearVersion(p) \/ ClearFlags(p)
    \/ EntryLoad(p) \/ EntryCas(p)
    \/ ClaimVersion(p) \/ ClaimFree(p) \/ ClaimCas(p)
    \/ \E w \in Words : StoreWord(p, w)
    \/ Publish(p)
    \/ ReadVersion(p)
    \/ \E w \in Words : CopyWord(p, w)
    \/ Validate(p)

Next ==
    \/ \E p \in Procs, a \in Addrs : StartRelease(p, a)
    \/ \E p \in Procs, i \in Slots : StartRead(p, i)
    \/ \E a \in Addrs : StartClaim(a)
    \/ StartRotate
    \/ \E a \in Addrs, i \in Slots : StartDrain(a, i)
    \/ StartSnapshot
    \/ StartClearAll
    \/ \E p \in Procs : Step(p)

Spec == Init /\ [][Next]_vars

(***************************************************************************)
(* Properties                                                              *)
(***************************************************************************)
\* Every variable stays in its range.
TypeOK ==
    /\ version \in [Slots -> Version]
    /\ slot \in [Slots -> Payload]
    /\ pc \in [Procs -> PCs]
    /\ op \in [Procs -> Ops]
    /\ idx \in [Procs -> Slots]
    /\ arg \in [Procs -> Addrs \cup {NoAddr}]
    /\ inst \in [Procs -> Addrs \cup {NoAddr}]
    /\ rep \in [Procs -> Slots]
    /\ tries \in [Procs -> 0 .. ClaimAttempts - 1]
    /\ seen \in [Procs -> Version]
    /\ left \in [Procs -> SUBSET Words]
    /\ new \in [Procs -> Payload]
    /\ copy \in [Procs -> Payload]
    /\ stopped \in BOOLEAN
    /\ ops \in 0 .. MaxOps

\* Two processes are never inside the write section of one entry, and the
\* entry a process writes carries bit 0 (ClaimEntry, Claim and Publish).
OneWriter ==
    \A p \in Procs : pc[p] = "write" =>
        /\ Writing(version[idx[p]])
        /\ \A q \in Procs \ {p} : ~(pc[q] = "write" /\ idx[q] = idx[p])

\* A copy that the second version load accepts is the entry as it stands: the
\* trap handler and the sweep never use a torn record (ReadSlot, Snapshot).
NoTornRead ==
    \A p \in Procs :
        pc[p] = "copy" /\ left[p] = {} /\ Accepts(p) => copy[p] = slot[idx[p]]

\* Claim's compare-exchange succeeds only on an entry that is still free: it
\* never takes the slot of a block that is being watched.
ClaimTakesFreeSlot ==
    \A p \in Procs :
        pc[p] = "claimCas" /\ version[idx[p]] = seen[p] =>
            slot[idx[p]]["addr"] = NoAddr \/ "released" \in slot[idx[p]]["flags"]

\* MarkTripped disarms only the block of the report: between the re-check of
\* the index and the write, a Release or a rotation may run, but no re-use.
TripMarksReported ==
    \A p \in Procs :
        pc[p] = "write" /\ op[p] = "trip" => slot[idx[p]]["addr"] = arg[p]

\* "Mark every slot free.  Called on shutdown": once ClearAll and every Release
\* in flight are done, no slot is held by a block, although ClearAll skips the
\* entries that are being written and gives up on contended ones.
ShutdownFreesAll ==
    stopped /\ (\A p \in Procs : pc[p] = "idle") =>
        \A i \in Slots : slot[i]["addr"] = NoAddr \/ "released" \in slot[i]["flags"]
=============================================================================
