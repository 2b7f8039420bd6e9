----------------------- MODULE WatchpointSlotsProofs -----------------------
(* For every number of slots, threads, addresses and operations: one writer  *)
(* per entry, no torn read accepted, Claim takes only free slots, a drained  *)
(* report disarms its own block, and ClearAll leaves no slot held.           *)
EXTENDS WatchpointSlots, TLAPS

(* The steps that hold a loaded version: it is even and never ahead of the   *)
(* entry's, so "the version is still the same" means "nobody wrote since".   *)
Holding == {"copy", "entryCas", "claimFree", "claimCas"}

HeldVersion(p) ==
    pc[p] \in Holding => ~Writing(seen[p]) /\ seen[p].seq <= version[idx[p]].seq

(* While the entry still has a reader's version, the words copied so far are *)
(* the entry's.                                                              *)
CopyMatches(p) ==
    pc[p] = "copy" /\ Accepts(p) =>
        \A w \in Words \ left[p] : copy[p][w] = slot[idx[p]][w]

(* While the entry still has the version Claim will exchange, it is free.    *)
CasFree(p) == pc[p] = "claimCas" /\ Accepts(p) => FreeSlot(slot[idx[p]])

Held(p) == HeldVersion(p) /\ CopyMatches(p) /\ CasFree(p)

SeqlockInv == TypeOK /\ OneWriter /\ \A p \in Procs : Held(p)

----------------------------------------------------------------------------
\* Target builds a payload: what every write section stores is a well-formed
\* slot (WatchpointSlots.cpp, the stores between claim and Publish).
LEMMA FieldsType ==
    ASSUME NEW a \in Addrs \cup {NoAddr}, NEW f \in Addrs \cup {NoAddr},
           NEW g \in SUBSET Flags
    PROVE  Fields(a, f, g) \in Payload
  <1> DEFINE r == Fields(a, f, g)
  <1>1. r["addr"] = a /\ r["free"] = f /\ r["flags"] = g
    BY DEF Fields, Words
  <1>2. \A w \in Words : r[w] \in Word
    BY <1>1 DEF Words, Word
  <1>3. r \in [Words -> Word]
    BY <1>2 DEF Fields
  <1> QED BY <1>1, <1>3 DEF Payload

\* What a write section will store is a well-formed slot.
LEMMA TargetType ==
    ASSUME NEW o, NEW s \in Payload, NEW a \in Addrs \cup {NoAddr},
           NEW f \in Addrs \cup {NoAddr}
    PROVE  Target(o, s, a, f) \in Payload
  <1>1. s["addr"] \in Addrs \cup {NoAddr} /\ s["free"] \in Addrs \cup {NoAddr}
        /\ s["flags"] \in SUBSET Flags
    BY DEF Payload
  <1>2. s["flags"] \cup {"released"} \in SUBSET Flags /\ s["flags"] \cup {"tripped"} \in SUBSET Flags
    BY <1>1 DEF Flags
  <1>3. {"released"} \in SUBSET Flags /\ {"occupied"} \in SUBSET Flags
    BY DEF Flags
  <1>4. NoAddr \in Addrs \cup {NoAddr}
    OBVIOUS
  <1>5. CASE o \in {"release", "rotate", "drain"}
    BY <1>5, <1>1, <1>2, FieldsType DEF Target
  <1>6. CASE o = "trip"
    BY <1>6, <1>1, <1>2, FieldsType DEF Target
  <1>7. CASE o = "clear"
    BY <1>7, <1>3, <1>4, FieldsType DEF Target
  <1>8. CASE o \notin {"release", "rotate", "drain", "trip", "clear"}
    BY <1>8, <1>3, <1>4, FieldsType DEF Target
  <1> QED BY <1>5, <1>6, <1>7, <1>8

\* Storing one word of a well-formed payload into another keeps it well-formed.
LEMMA StoreType ==
    ASSUME NEW s \in Payload, NEW n \in Payload, NEW w \in Words
    PROVE  [s EXCEPT ![w] = n[w]] \in Payload
  BY DEF Payload, Words

\* The slot that Init puts everywhere is well-formed.
LEMMA EmptyType == EmptySlot \in Payload
  BY FieldsType DEF EmptySlot

\* The initial state is in its range.
LEMMA InitType == Init => TypeOK
  <1> SUFFICES ASSUME Init PROVE TypeOK
    OBVIOUS
  <1>1. 0 \in Slots /\ 0 \in 0 .. ClaimAttempts - 1 /\ 0 \in 0 .. MaxOps
    BY SlotsAssumption DEF Slots
  <1>2. [seq |-> 0, bit0 |-> 0] \in Version
    BY DEF Version
  <1>3. "idle" \in PCs /\ "read" \in Ops
    BY DEF PCs, Ops
  <1> QED BY <1>1, <1>2, <1>3, EmptyType DEF Init, TypeOK

\* Before the first call nobody holds a version or writes.
LEMMA InitInv == Init => SeqlockInv
  <1> SUFFICES ASSUME Init PROVE SeqlockInv
    OBVIOUS
  <1>1. \A p \in Procs : pc[p] = "idle"
    BY DEF Init
  <1>2. OneWriter /\ \A p \in Procs : Held(p)
    BY <1>1 DEF OneWriter, Held, HeldVersion, CopyMatches, CasFree, Holding
  <1> QED BY <1>2, InitType DEF SeqlockInv

----------------------------------------------------------------------------
\* Taking and publishing an entry yield versions.
LEMMA VersionType ==
    ASSUME NEW v \in Version
    PROVE  Claimed(v) \in Version /\ Published(v) \in Version
  BY DEF Version, Claimed, Published

\* Going on to the next entry stays in the table.
LEMMA NextEntryType ==
    ASSUME TypeOK, NEW p \in Procs, NEW l \in PCs, NextEntry(p, l)
    PROVE  pc' \in [Procs -> PCs] /\ idx' \in [Procs -> Slots]
  <1>1. idx[p] \in Slots /\ "idle" \in PCs
    BY DEF TypeOK, PCs
  <1>2. idx[p] + 1 < NSlots => idx[p] + 1 \in Slots
    BY <1>1, SlotsAssumption DEF Slots
  <1> QED BY <1>1, <1>2 DEF NextEntry, MoreSlots, Goto, At, TypeOK

\* A failed attempt of ClaimEntry keeps label, index and count in range.
LEMMA AttemptType ==
    ASSUME TypeOK, NEW p \in Procs, Attempt(p)
    PROVE  /\ pc' \in [Procs -> PCs] /\ idx' \in [Procs -> Slots]
           /\ tries' \in [Procs -> 0 .. ClaimAttempts - 1]
  <1>1. tries[p] \in 0 .. ClaimAttempts - 1
    BY DEF TypeOK
  <1>2. 0 \in 0 .. ClaimAttempts - 1
    BY SlotsAssumption
  <1>3. AttemptsLeft(tries[p]) => tries[p] + 1 \in 0 .. ClaimAttempts - 1
    BY <1>1, SlotsAssumption DEF AttemptsLeft
  <1>4. "entry" \in PCs /\ "clearVersion" \in PCs /\ "idle" \in PCs
    BY DEF PCs
  <1>5. pc' \in [Procs -> PCs] /\ idx' \in [Procs -> Slots]
    BY <1>4, NextEntryType DEF Attempt, Goto, TypeOK
  <1> QED BY <1>2, <1>3, <1>5 DEF Attempt, TypeOK

\* Taking an entry keeps what it changes in range.
LEMMA TakeEntryType ==
    ASSUME TypeOK, NEW p \in Procs, NEW o, NEW a \in Addrs \cup {NoAddr},
           NEW f \in Addrs \cup {NoAddr}, TakeEntry(p, o, a, f)
    PROVE  /\ version' \in [Slots -> Version] /\ new' \in [Procs -> Payload]
           /\ left' \in [Procs -> SUBSET Words] /\ pc' \in [Procs -> PCs]
  <1>1. idx[p] \in Slots /\ version[idx[p]] \in Version /\ slot[idx[p]] \in Payload
    BY DEF TypeOK
  <1>2. Claimed(version[idx[p]]) \in Version
    BY <1>1, VersionType
  <1>3. Target(o, slot[idx[p]], a, f) \in Payload
    BY <1>1, TargetType
  <1>4. WordsOf(o) \in SUBSET Words
    BY DEF WordsOf, Words
  <1>5. "write" \in PCs
    BY DEF PCs
  <1> QED BY <1>1, <1>2, <1>3, <1>4, <1>5 DEF TakeEntry, Goto, TypeOK

\* Starting an operation keeps every variable in its range.
LEMMA StartType ==
    ASSUME TypeOK, NEW p \in Procs, NEW o \in Ops, NEW l \in PCs, NEW i \in Slots,
           NEW a \in Addrs \cup {NoAddr}, NEW f \in Addrs \cup {NoAddr}, NEW r \in Slots,
           Start(p, o, l, i, a, f, r), stopped' \in BOOLEAN
    PROVE  TypeOK'
  <1>1. ops' \in 0 .. MaxOps /\ 0 \in 0 .. ClaimAttempts - 1
    BY SlotsAssumption DEF Start, TypeOK
  <1> QED BY <1>1 DEF Start, TypeOK, Goto, At

\* Every step keeps every variable in its range.
LEMMA NextType == TypeOK /\ [Next]_vars => TypeOK'
  <1> SUFFICES ASSUME TypeOK, [Next]_vars PROVE TypeOK'
    OBVIOUS
  <1>0. 0 \in Slots /\ NoAddr \in Addrs \cup {NoAddr} /\ Addrs \subseteq Addrs \cup {NoAddr}
        /\ Sweeper \in Procs /\ 0 \in 0 .. ClaimAttempts - 1
    BY SlotsAssumption DEF Slots, Procs
  <1>1. ASSUME NEW p \in Procs, NEW a \in Addrs, StartRelease(p, a) PROVE TypeOK'
    BY <1>0, <1>1, StartType DEF StartRelease, Ops, PCs, TypeOK
  <1>2. ASSUME NEW p \in Procs, NEW i \in Slots, StartRead(p, i) PROVE TypeOK'
    BY <1>0, <1>2, StartType DEF StartRead, Ops, PCs, TypeOK
  <1>3. ASSUME NEW a \in Addrs, StartClaim(a) PROVE TypeOK'
    BY <1>0, <1>3, StartType DEF StartClaim, Ops, PCs, TypeOK
  <1>4. CASE StartRotate
    BY <1>0, <1>4, StartType DEF StartRotate, Ops, PCs, TypeOK
  <1>5. ASSUME NEW a \in Addrs, NEW i \in Slots, StartDrain(a, i) PROVE TypeOK'
    BY <1>0, <1>5, StartType DEF StartDrain, Ops, PCs, TypeOK
  <1>6. CASE StartSnapshot
    BY <1>0, <1>6, StartType DEF StartSnapshot, Ops, PCs, TypeOK
  <1>7. CASE StartClearAll
    BY <1>0, <1>7, StartType DEF StartClearAll, Ops, PCs, TypeOK
  <1>8. ASSUME NEW p \in Procs, Step(p) PROVE TypeOK'
    <2> USE <1>8
    <2>0. /\ idx[p] \in Slots /\ version[idx[p]] \in Version /\ slot[idx[p]] \in Payload
          /\ tries[p] \in 0 .. ClaimAttempts - 1 /\ arg[p] \in Addrs \cup {NoAddr}
          /\ inst[p] \in Addrs \cup {NoAddr} /\ rep[p] \in Slots
          /\ new[p] \in Payload /\ copy[p] \in Payload /\ left[p] \in SUBSET Words
      BY DEF TypeOK
    <2>1. CASE ReleaseVersion(p) \/ ReleaseAddr(p) \/ ReleaseFlags(p)
      BY <2>1, <1>0, NextEntryType
         DEF ReleaseVersion, ReleaseAddr, ReleaseFlags, TypeOK, PCs, Goto, shared, quiet
    <2>2. CASE RotatePick(p)
      <3>1. idx' \in [Procs -> Slots]
        BY <2>2 DEF RotatePick, At, TypeOK
      <3>2. pc' \in [Procs -> PCs]
        BY <2>2 DEF RotatePick, Goto, TypeOK, PCs
      <3> QED BY <2>2, <3>1, <3>2 DEF RotatePick, TypeOK, shared, quiet
    <2>3. CASE RotateAddr(p)
      <3>1. slot[idx[p]]["addr"] \in Addrs \cup {NoAddr}
        BY <2>0 DEF Payload
      <3>2. idx' \in [Procs -> Slots] /\ arg' \in [Procs -> Addrs \cup {NoAddr}]
        BY <2>3, <3>1, <1>0 DEF RotateAddr, At, TypeOK
      <3>3. pc' \in [Procs -> PCs]
        BY <2>3 DEF RotateAddr, Goto, TypeOK, PCs
      <3> QED BY <2>3, <3>2, <3>3 DEF RotateAddr, TypeOK, shared
    <2>4. CASE TripVersion(p)
      BY <2>4 DEF TripVersion, TypeOK, PCs, Goto, shared, quiet
    <2>5. CASE ClearVersion(p) \/ ClearFlags(p)
      BY <2>5, NextEntryType DEF ClearVersion, ClearFlags, TypeOK, PCs, Goto, shared, quiet
    <2>6. CASE EntryLoad(p)
      <3>1. Claimable(version[idx[p]]) => pc' \in [Procs -> PCs] /\ idx' \in [Procs -> Slots]
                                          /\ tries' \in [Procs -> 0 .. ClaimAttempts - 1]
        BY <2>6 DEF EntryLoad, Goto, TypeOK, PCs
      <3>2. pc' \in [Procs -> PCs] /\ idx' \in [Procs -> Slots]
            /\ tries' \in [Procs -> 0 .. ClaimAttempts - 1]
        BY <2>6, <3>1, AttemptType DEF EntryLoad
      <3> QED BY <2>6, <3>2, <2>0 DEF EntryLoad, TypeOK, shared
    <2>7. CASE EntryCas(p)
      <3>1. CASE version[idx[p]] = seen[p]
        <4>1. TakeEntry(p, op[p], arg[p], inst[p])
          BY <2>7, <3>1 DEF EntryCas
        <4> QED BY <2>7, <3>1, <4>1, <1>0, <2>0, TakeEntryType DEF EntryCas, TypeOK
      <3>2. CASE version[idx[p]] # seen[p]
        BY <2>7, <3>2, AttemptType DEF EntryCas, TypeOK
      <3> QED BY <3>1, <3>2
    <2>8. CASE ClaimVersion(p) \/ ClaimFree(p)
      <3>1. pc' \in [Procs -> PCs] /\ idx' \in [Procs -> Slots]
        BY <2>8, NextEntryType DEF ClaimVersion, ClaimFree, Goto, TypeOK, PCs
      <3> QED BY <2>8, <3>1, <2>0 DEF ClaimVersion, ClaimFree, TypeOK, shared, quiet
    <2>9. CASE ClaimCas(p)
      <3>1. CASE version[idx[p]] = seen[p]
        <4>1. TakeEntry(p, "claim", arg[p], NoAddr)
          BY <2>9, <3>1 DEF ClaimCas
        <4> QED BY <2>9, <3>1, <4>1, <1>0, <2>0, TakeEntryType DEF ClaimCas, TypeOK
      <3>2. CASE version[idx[p]] # seen[p]
        <4>1. AttemptsLeft(tries[p]) => tries[p] + 1 \in 0 .. ClaimAttempts - 1
          BY <2>0, SlotsAssumption DEF AttemptsLeft
        <4>2. idx' \in [Procs -> Slots] /\ tries' \in [Procs -> 0 .. ClaimAttempts - 1]
          BY <2>9, <3>2, <4>1, <1>0 DEF ClaimCas, At, TypeOK
        <4>3. pc' \in [Procs -> PCs]
          BY <2>9, <3>2 DEF ClaimCas, Goto, TypeOK, PCs
        <4> QED BY <2>9, <3>2, <4>2, <4>3 DEF ClaimCas, TypeOK
      <3> QED BY <3>1, <3>2
    <2>10. ASSUME NEW w \in Words, StoreWord(p, w) PROVE TypeOK'
      <3>1. [slot[idx[p]] EXCEPT ![w] = new[p][w]] \in Payload
        BY <2>0, StoreType
      <3>2. slot' = [slot EXCEPT ![idx[p]] = [slot[idx[p]] EXCEPT ![w] = new[p][w]]]
        BY <2>10, <2>0 DEF StoreWord, TypeOK
      <3>3. slot' \in [Slots -> Payload] /\ left' \in [Procs -> SUBSET Words]
        BY <2>10, <3>1, <3>2, <2>0 DEF StoreWord, TypeOK
      <3> QED BY <2>10, <3>3 DEF StoreWord, TypeOK
    <2>11. CASE Publish(p)
      <3>1. version' \in [Slots -> Version]
        BY <2>11, <2>0, VersionType DEF Publish, TypeOK
      <3>2. "clearVersion" \in PCs /\ "read" \in PCs /\ "idle" \in PCs
        BY DEF PCs
      <3>3. pc' \in [Procs -> PCs] /\ idx' \in [Procs -> Slots]
        BY <2>11, <3>2, <2>0, NextEntryType DEF Publish, Goto, At, TypeOK
      <3> QED BY <2>11, <3>1, <3>3 DEF Publish, TypeOK
    <2>12. CASE ReadVersion(p)
      <3>2. "copy" \in PCs /\ "read" \in PCs /\ "idle" \in PCs
        BY DEF PCs
      <3>3. pc' \in [Procs -> PCs] /\ idx' \in [Procs -> Slots]
        BY <2>12, <3>2, NextEntryType DEF ReadVersion, Goto, TypeOK
      <3> QED BY <2>12, <3>3, <2>0 DEF ReadVersion, TypeOK, shared
    <2>13. ASSUME NEW w \in Words, CopyWord(p, w) PROVE TypeOK'
      <3>1. [copy[p] EXCEPT ![w] = slot[idx[p]][w]] \in Payload
        BY <2>0, StoreType
      <3>2. copy' = [copy EXCEPT ![p] = [copy[p] EXCEPT ![w] = slot[idx[p]][w]]]
        BY <2>13, <2>0 DEF CopyWord, TypeOK
      <3>3. copy' \in [Procs -> Payload] /\ left' \in [Procs -> SUBSET Words]
        BY <2>13, <3>1, <3>2, <2>0 DEF CopyWord, TypeOK
      <3> QED BY <2>13, <3>3 DEF CopyWord, TypeOK, shared
    <2>14. CASE Validate(p)
      <3>1. "tripVersion" \in PCs /\ "read" \in PCs /\ "idle" \in PCs /\ "trip" \in Ops
        BY DEF PCs, Ops
      <3>2. pc' \in [Procs -> PCs] /\ idx' \in [Procs -> Slots]
        BY <2>14, <3>1, NextEntryType DEF Validate, Goto, TypeOK
      <3>3. op' \in [Procs -> Ops] /\ tries' \in [Procs -> 0 .. ClaimAttempts - 1]
        BY <2>14, <3>1, <1>0 DEF Validate, TypeOK
      <3> QED BY <2>14, <3>2, <3>3 DEF Validate, TypeOK, shared
    <2> QED BY <2>1, <2>2, <2>3, <2>4, <2>5, <2>6, <2>7, <2>8, <2>9, <2>10,
               <2>11, <2>12, <2>13, <2>14 DEF Step
  <1>9. CASE UNCHANGED vars
    BY <1>9 DEF vars, TypeOK
  <1> QED BY <1>1, <1>2, <1>3, <1>4, <1>5, <1>6, <1>7, <1>8, <1>9 DEF Next

\* Spec keeps every variable of the slot table in its range.
THEOREM SpecTypeOK == Spec => []TypeOK
  BY InitType, NextType, PTL DEF Spec

----------------------------------------------------------------------------
(* The seqlock argument.  Each step is put into one of the shapes below: it  *)
(* leaves the shared table and everybody else's reading alone, it takes an   *)
(* even version, it stores inside an owned entry, or it publishes one.       *)

\* A step of p that does not touch the table.
LEMMA LocalStep ==
    ASSUME SeqlockInv, TypeOK', NEW p \in Procs,
           UNCHANGED <<version, slot>>,
           pc'[p] # "write", Held(p)',
           \A q \in Procs \ {p} :
               pc'[q] = pc[q] /\ idx'[q] = idx[q] /\ seen'[q] = seen[q]
               /\ left'[q] = left[q] /\ copy'[q] = copy[q]
    PROVE  SeqlockInv'
  <1>1. OneWriter'
    BY DEF SeqlockInv, OneWriter
  <1>2. ASSUME NEW q \in Procs \ {p} PROVE Held(q)'
    BY <1>2 DEF SeqlockInv, Held, HeldVersion, CopyMatches, CasFree, Accepts
  <1> QED BY <1>1, <1>2 DEF SeqlockInv

\* A step of p that takes an entry whose bit 0 is clear.
LEMMA ClaimStep ==
    ASSUME SeqlockInv, TypeOK', NEW p \in Procs,
           ~Writing(version[idx[p]]),
           version' = [version EXCEPT ![idx[p]] = Claimed(@)],
           slot' = slot, pc' = [pc EXCEPT ![p] = "write"],
           idx' = idx, seen' = seen, copy' = copy,
           \A q \in Procs \ {p} : left'[q] = left[q]
    PROVE  SeqlockInv'
  <1>0. /\ idx \in [Procs -> Slots] /\ version \in [Slots -> Version]
        /\ pc \in [Procs -> PCs] /\ seen \in [Procs -> Version]
    BY DEF SeqlockInv, TypeOK
  <1>1. /\ Writing(version'[idx[p]]) /\ version'[idx[p]].seq = version[idx[p]].seq
        /\ \A i \in Slots \ {idx[p]} : version'[i] = version[i]
    BY <1>0 DEF Writing, Claimed, Version
  <1>2. \A q \in Procs \ {p} : pc'[q] = pc[q]
    BY <1>0
  <1>3. pc'[p] = "write"
    BY <1>0
  <1>4. \A q \in Procs : pc[q] = "write" => idx[q] # idx[p]
    BY DEF SeqlockInv, OneWriter
  <1>5. OneWriter'
    BY <1>0, <1>1, <1>2, <1>3, <1>4 DEF SeqlockInv, OneWriter
  <1>6. ASSUME NEW q \in Procs PROVE Held(q)'
    <2>1. CASE q = p
      BY <2>1, <1>3 DEF Held, HeldVersion, CopyMatches, CasFree, Holding
    <2>2. CASE q # p
      <3>1. pc'[q] \in Holding /\ Accepts(q)' => Accepts(q)
        BY <2>2, <1>0, <1>1, <1>2 DEF SeqlockInv, Held, HeldVersion, Accepts
      <3>2. HeldVersion(q)'
        BY <2>2, <1>0, <1>1, <1>2 DEF SeqlockInv, Held, HeldVersion
      <3>3. CopyMatches(q)'
        BY <2>2, <1>2, <3>1 DEF SeqlockInv, Held, CopyMatches, Holding
      <3>4. CasFree(q)'
        BY <2>2, <1>2, <3>1 DEF SeqlockInv, Held, CasFree, Holding
      <3> QED BY <3>2, <3>3, <3>4 DEF Held
    <2> QED BY <2>1, <2>2
  <1> QED BY <1>5, <1>6 DEF SeqlockInv

\* A step of p that stores a word of the entry it owns.
LEMMA StoreStep ==
    ASSUME SeqlockInv, TypeOK', NEW p \in Procs, NEW w \in Words, StoreWord(p, w)
    PROVE  SeqlockInv'
  <1>0. /\ idx \in [Procs -> Slots] /\ version \in [Slots -> Version]
        /\ left \in [Procs -> SUBSET Words] /\ slot \in [Slots -> Payload]
    BY DEF SeqlockInv, TypeOK
  <1>1. Writing(version[idx[p]]) /\ pc[p] = "write"
    BY DEF SeqlockInv, OneWriter, StoreWord
  <1>2. \A i \in Slots \ {idx[p]} : slot'[i] = slot[i]
    BY <1>0 DEF StoreWord
  <1>3. UNCHANGED <<version, pc, idx, seen, copy>> /\ \A q \in Procs \ {p} : left'[q] = left[q]
    BY <1>0 DEF StoreWord
  <1>4. OneWriter'
    BY <1>3 DEF SeqlockInv, OneWriter
  <1>5. ASSUME NEW q \in Procs PROVE Held(q)'
    <2>1. CASE q = p
      BY <2>1, <1>1, <1>3 DEF Held, HeldVersion, CopyMatches, CasFree, Holding
    <2>2. CASE q # p
      <3>1. pc[q] \in Holding /\ idx[q] = idx[p] => ~Accepts(q)
        BY <1>1 DEF SeqlockInv, Held, HeldVersion, Accepts
      <3>2. HeldVersion(q)'
        BY <2>2, <1>3 DEF SeqlockInv, Held, HeldVersion
      <3>3. CopyMatches(q)'
        BY <2>2, <1>0, <1>2, <1>3, <3>1 DEF SeqlockInv, Held, CopyMatches, Accepts, Holding
      <3>4. CasFree(q)'
        BY <2>2, <1>0, <1>2, <1>3, <3>1 DEF SeqlockInv, Held, CasFree, Accepts, Holding
      <3> QED BY <3>2, <3>3, <3>4 DEF Held
    <2> QED BY <2>1, <2>2
  <1> QED BY <1>4, <1>5 DEF SeqlockInv

\* A step of p that publishes the entry it owns: the new version is beyond
\* every version a reader or a Claim holds.
LEMMA PublishStep ==
    ASSUME SeqlockInv, TypeOK', NEW p \in Procs, Publish(p)
    PROVE  SeqlockInv'
  <1>0. /\ idx \in [Procs -> Slots] /\ version \in [Slots -> Version]
        /\ pc \in [Procs -> PCs] /\ seen \in [Procs -> Version]
    BY DEF SeqlockInv, TypeOK
  <1>1. /\ version'[idx[p]].seq = version[idx[p]].seq + 1
        /\ \A i \in Slots \ {idx[p]} : version'[i] = version[i]
    BY <1>0 DEF Publish, Published, Version
  <1>2. /\ UNCHANGED <<slot, seen, copy, left>>
        /\ \A q \in Procs \ {p} : pc'[q] = pc[q] /\ idx'[q] = idx[q]
    BY <1>0 DEF Publish, NextEntry, Goto, At
  <1>3. pc'[p] \notin Holding \cup {"write"}
    BY <1>0 DEF Publish, NextEntry, Goto, Holding
  <1>4. pc[p] = "write"
    BY DEF Publish
  <1>5. OneWriter'
    BY <1>0, <1>1, <1>2, <1>3, <1>4 DEF SeqlockInv, OneWriter
  <1>6. \A q \in Procs : seen[q].seq \in Nat /\ version[idx[q]].seq \in Nat
    BY <1>0 DEF Version
  <1>7. ASSUME NEW q \in Procs PROVE Held(q)'
    <2>1. CASE q = p
      BY <2>1, <1>3 DEF Held, HeldVersion, CopyMatches, CasFree, Holding
    <2>2. CASE q # p
      BY <2>2, <1>0, <1>1, <1>2, <1>6
         DEF SeqlockInv, Held, HeldVersion, CopyMatches, CasFree, Accepts, Holding
    <2> QED BY <2>1, <2>2
  <1> QED BY <1>5, <1>7 DEF SeqlockInv

\* A step that leaves the table alone and ends outside the guarded states.
LEMMA QuietStep ==
    ASSUME SeqlockInv, TypeOK', NEW p \in Procs,
           UNCHANGED <<version, slot, seen, left, copy>>,
           pc' \in [Procs -> PCs], pc'[p] \notin Holding \cup {"write"},
           \A q \in Procs \ {p} : pc'[q] = pc[q] /\ idx'[q] = idx[q]
    PROVE  SeqlockInv'
  <1>1. Held(p)'
    BY DEF Held, HeldVersion, CopyMatches, CasFree, Holding
  <1> QED BY <1>1, LocalStep

\* NextEntry moves only the process that takes the step, to the label it names
\* or to idle.
LEMMA NextEntryQuiet ==
    ASSUME TypeOK, NEW p \in Procs, NEW l, NextEntry(p, l)
    PROVE  /\ pc'[p] \in {l, "idle"}
           /\ \A q \in Procs \ {p} : pc'[q] = pc[q] /\ idx'[q] = idx[q]
  BY DEF NextEntry, Goto, At, TypeOK

\* A failed attempt moves only the process that made it, to one of three labels.
LEMMA AttemptQuiet ==
    ASSUME TypeOK, NEW p \in Procs, Attempt(p)
    PROVE  /\ pc'[p] \in {"entry", "clearVersion", "idle"}
           /\ \A q \in Procs \ {p} : pc'[q] = pc[q] /\ idx'[q] = idx[q]
  <1>1. CASE AttemptsLeft(tries[p]) \/ op[p] # "clear"
    BY <1>1 DEF Attempt, Goto, TypeOK
  <1>2. CASE ~AttemptsLeft(tries[p]) /\ op[p] = "clear"
    BY <1>2, NextEntryQuiet DEF Attempt
  <1> QED BY <1>1, <1>2

\* Starting an operation preserves the seqlock invariant.
LEMMA StartQuiet ==
    ASSUME SeqlockInv, TypeOK', NEW p \in Procs, NEW o,
           NEW l \in PCs \ (Holding \cup {"write"}), NEW i, NEW a, NEW f, NEW r,
           Start(p, o, l, i, a, f, r)
    PROVE  SeqlockInv'
  <1>1. /\ pc'[p] = l /\ UNCHANGED <<version, slot, seen, left, copy>>
        /\ \A q \in Procs \ {p} : pc'[q] = pc[q] /\ idx'[q] = idx[q]
    BY DEF Start, Goto, At, SeqlockInv, TypeOK
  <1>2. pc' \in [Procs -> PCs]
    BY DEF TypeOK
  <1> QED BY <1>1, <1>2, QuietStep

\* Every step preserves the seqlock invariant.
LEMMA NextInv == SeqlockInv /\ [Next]_vars => SeqlockInv'
  <1> SUFFICES ASSUME SeqlockInv, [Next]_vars PROVE SeqlockInv'
    OBVIOUS
  <1>0. TypeOK /\ TypeOK' /\ Sweeper \in Procs
    BY NextType DEF SeqlockInv, Procs
  <1>a. {"releaseVersion", "read", "claimVersion", "rotatePick", "clearVersion"}
            \subseteq PCs \ (Holding \cup {"write"})
    BY DEF PCs, Holding
  <1>1. ASSUME NEW p \in Procs, NEW a \in Addrs, StartRelease(p, a) PROVE SeqlockInv'
    BY <1>0, <1>a, <1>1, StartQuiet DEF StartRelease
  <1>2. ASSUME NEW p \in Procs, NEW i \in Slots, StartRead(p, i) PROVE SeqlockInv'
    BY <1>0, <1>a, <1>2, StartQuiet DEF StartRead
  <1>3. ASSUME NEW a \in Addrs, StartClaim(a) PROVE SeqlockInv'
    BY <1>0, <1>a, <1>3, StartQuiet DEF StartClaim
  <1>4. CASE StartRotate
    BY <1>0, <1>a, <1>4, StartQuiet DEF StartRotate
  <1>5. ASSUME NEW a \in Addrs, NEW i \in Slots, StartDrain(a, i) PROVE SeqlockInv'
    BY <1>0, <1>a, <1>5, StartQuiet DEF StartDrain
  <1>6. CASE StartSnapshot
    BY <1>0, <1>a, <1>6, StartQuiet DEF StartSnapshot
  <1>7. CASE StartClearAll
    BY <1>0, <1>a, <1>7, StartQuiet DEF StartClearAll
  <1>8. ASSUME NEW p \in Procs, Step(p) PROVE SeqlockInv'
    <2>0. /\ pc \in [Procs -> PCs] /\ pc' \in [Procs -> PCs] /\ idx \in [Procs -> Slots]
          /\ seen \in [Procs -> Version] /\ left \in [Procs -> SUBSET Words]
          /\ version \in [Slots -> Version] /\ slot \in [Slots -> Payload]
          /\ copy \in [Procs -> Payload] /\ Held(p)
      BY <1>0 DEF TypeOK, SeqlockInv
    <2>1. CASE \/ ReleaseVersion(p) \/ ReleaseAddr(p) \/ ReleaseFlags(p)
               \/ RotatePick(p) \/ RotateAddr(p) \/ TripVersion(p)
               \/ ClearVersion(p) \/ ClearFlags(p)
      <3>1. UNCHANGED <<version, slot, seen, left, copy>>
        BY <2>1 DEF ReleaseVersion, ReleaseAddr, ReleaseFlags, RotatePick, RotateAddr,
                    TripVersion, ClearVersion, ClearFlags, quiet, shared
      <3>2. /\ pc'[p] \notin Holding \cup {"write"}
            /\ \A q \in Procs \ {p} : pc'[q] = pc[q] /\ idx'[q] = idx[q]
        <4>1. CASE ReleaseVersion(p) \/ ReleaseAddr(p) \/ ReleaseFlags(p)
          BY <4>1, <2>0, <1>0, NextEntryQuiet
             DEF ReleaseVersion, ReleaseAddr, ReleaseFlags, Goto, Holding
        <4>2. CASE RotatePick(p) \/ RotateAddr(p)
          BY <4>2, <2>0 DEF RotatePick, RotateAddr, Goto, At, Holding
        <4>3. CASE TripVersion(p)
          BY <4>3, <2>0 DEF TripVersion, Goto, Holding
        <4>4. CASE ClearVersion(p) \/ ClearFlags(p)
          BY <4>4, <2>0, <1>0, NextEntryQuiet DEF ClearVersion, ClearFlags, Goto, Holding
        <4> QED BY <2>1, <4>1, <4>2, <4>3, <4>4
      <3> QED BY <3>1, <3>2, <2>0, <1>0, QuietStep
    <2>2. CASE EntryLoad(p)
      <3>1. CASE Claimable(version[idx[p]])
        <4>1. /\ UNCHANGED <<version, slot, idx, left, copy>>
              /\ pc' = [pc EXCEPT ![p] = "entryCas"]
              /\ seen' = [seen EXCEPT ![p] = version[idx[p]]]
          BY <2>2, <3>1 DEF EntryLoad, Goto, shared
        <4>2. Held(p)'
          BY <4>1, <3>1, <2>0
             DEF Held, HeldVersion, CopyMatches, CasFree, Claimable, Version
        <4> QED BY <4>1, <4>2, <2>0, <1>0, LocalStep
      <3>2. CASE ~Claimable(version[idx[p]])
        <4>1. Attempt(p) /\ UNCHANGED <<version, slot, seen, left, copy>>
          BY <2>2, <3>2 DEF EntryLoad, shared
        <4> QED BY <4>1, <2>0, <1>0, AttemptQuiet, QuietStep DEF Holding
      <3> QED BY <3>1, <3>2
    <2>3. CASE EntryCas(p)
      <3>1. CASE version[idx[p]] = seen[p]
        <4>1. /\ TakeEntry(p, op[p], arg[p], inst[p])
              /\ UNCHANGED <<slot, idx, seen, copy>>
          BY <2>3, <3>1 DEF EntryCas
        <4>2. ~Writing(version[idx[p]])
          BY <2>3, <3>1, <2>0 DEF EntryCas, Held, HeldVersion, Holding
        <4> QED BY <4>1, <4>2, <2>0, <1>0, ClaimStep DEF TakeEntry, Goto
      <3>2. CASE version[idx[p]] # seen[p]
        <4>1. Attempt(p) /\ UNCHANGED <<version, slot, seen, left, copy>>
          BY <2>3, <3>2 DEF EntryCas
        <4> QED BY <4>1, <2>0, <1>0, AttemptQuiet, QuietStep DEF Holding
      <3> QED BY <3>1, <3>2
    <2>4. CASE ClaimVersion(p)
      <3>1. CASE ~Writing(version[idx[p]])
        <4>1. /\ UNCHANGED <<version, slot, idx, left, copy>>
              /\ pc' = [pc EXCEPT ![p] = "claimFree"]
              /\ seen' = [seen EXCEPT ![p] = version[idx[p]]]
          BY <2>4, <3>1 DEF ClaimVersion, Goto, shared
        <4>2. Held(p)'
          BY <4>1, <3>1, <2>0 DEF Held, HeldVersion, CopyMatches, CasFree, Version
        <4> QED BY <4>1, <4>2, <2>0, <1>0, LocalStep
      <3>2. CASE Writing(version[idx[p]])
        <4>1. NextEntry(p, "claimVersion") /\ UNCHANGED <<version, slot, seen, left, copy>>
          BY <2>4, <3>2 DEF ClaimVersion, shared
        <4> QED BY <4>1, <2>0, <1>0, NextEntryQuiet, QuietStep DEF Holding
      <3> QED BY <3>1, <3>2
    <2>5. CASE ClaimFree(p)
      <3>1. CASE FreeSlot(slot[idx[p]])
        <4>1. /\ UNCHANGED <<version, slot, idx, seen, left, copy>>
              /\ pc' = [pc EXCEPT ![p] = "claimCas"] /\ pc[p] = "claimFree"
          BY <2>5, <3>1 DEF ClaimFree, Goto, quiet, shared
        <4>2. Held(p)'
          BY <4>1, <3>1, <2>0 DEF Held, HeldVersion, CopyMatches, CasFree, Holding
        <4> QED BY <4>1, <4>2, <2>0, <1>0, LocalStep
      <3>2. CASE ~FreeSlot(slot[idx[p]])
        <4>1. NextEntry(p, "claimVersion") /\ UNCHANGED <<version, slot, seen, left, copy>>
          BY <2>5, <3>2 DEF ClaimFree, quiet, shared
        <4> QED BY <4>1, <2>0, <1>0, NextEntryQuiet, QuietStep DEF Holding
      <3> QED BY <3>1, <3>2
    <2>6. CASE ClaimCas(p)
      <3>1. CASE version[idx[p]] = seen[p]
        <4>1. TakeEntry(p, "claim", arg[p], NoAddr) /\ UNCHANGED <<slot, idx, seen, copy>>
          BY <2>6, <3>1 DEF ClaimCas
        <4>2. ~Writing(version[idx[p]])
          BY <2>6, <3>1, <2>0 DEF ClaimCas, Held, HeldVersion, Holding
        <4> QED BY <4>1, <4>2, <2>0, <1>0, ClaimStep DEF TakeEntry, Goto
      <3>2. CASE version[idx[p]] # seen[p]
        <4>1. /\ UNCHANGED <<version, slot, seen, left, copy>>
              /\ pc'[p] \in {"claimVersion", "idle"}
              /\ \A q \in Procs \ {p} : pc'[q] = pc[q] /\ idx'[q] = idx[q]
          BY <2>6, <3>2, <2>0 DEF ClaimCas, Goto, At
        <4> QED BY <4>1, <2>0, <1>0, QuietStep DEF Holding
      <3> QED BY <3>1, <3>2
    <2>7. ASSUME NEW w \in Words, StoreWord(p, w) PROVE SeqlockInv'
      BY <2>7, <1>0, StoreStep
    <2>8. CASE Publish(p)
      BY <2>8, <1>0, PublishStep
    <2>9. CASE ReadVersion(p)
      <3>1. CASE ~Writing(version[idx[p]])
        <4>1. /\ UNCHANGED <<version, slot, idx, copy>>
              /\ pc' = [pc EXCEPT ![p] = "copy"]
              /\ left' = [left EXCEPT ![p] = Words]
              /\ seen' = [seen EXCEPT ![p] = version[idx[p]]]
          BY <2>9, <3>1 DEF ReadVersion, Goto, shared
        <4>2. Held(p)'
          BY <4>1, <3>1, <2>0 DEF Held, HeldVersion, CopyMatches, CasFree, Version
        <4> QED BY <4>1, <4>2, <2>0, <1>0, LocalStep
      <3>2. CASE Writing(version[idx[p]])
        <4>1. UNCHANGED <<version, slot, seen, left, copy>>
          BY <2>9, <3>2 DEF ReadVersion, shared
        <4>2. /\ pc'[p] \in {"read", "idle"}
              /\ \A q \in Procs \ {p} : pc'[q] = pc[q] /\ idx'[q] = idx[q]
          BY <2>9, <3>2, <2>0, <1>0, NextEntryQuiet DEF ReadVersion, Goto
        <4> QED BY <4>1, <4>2, <2>0, <1>0, QuietStep DEF Holding
      <3> QED BY <3>1, <3>2
    <2>10. ASSUME NEW w \in Words, CopyWord(p, w) PROVE SeqlockInv'
      <3>1. /\ UNCHANGED <<version, slot, pc, idx, seen>> /\ pc[p] = "copy"
            /\ copy' = [copy EXCEPT ![p][w] = slot[idx[p]][w]]
            /\ left' = [left EXCEPT ![p] = @ \ {w}]
        BY <2>10 DEF CopyWord, shared
      <3>2. copy[p] \in [Words -> Word] /\ slot[idx[p]] \in [Words -> Word]
        BY <2>0 DEF Payload
      <3>3. \A v \in Words : copy'[p][v] = IF v = w THEN slot[idx[p]][w] ELSE copy[p][v]
        BY <3>1, <3>2, <2>0
      <3>4. left'[p] = left[p] \ {w}
        BY <3>1, <2>0
      <3>5. CopyMatches(p)'
        BY <3>1, <3>3, <3>4, <2>0 DEF Held, CopyMatches, Accepts
      <3>6. Held(p)'
        BY <3>1, <3>5, <2>0 DEF Held, HeldVersion, CasFree, Accepts
      <3>7. \A q \in Procs \ {p} : left'[q] = left[q] /\ copy'[q] = copy[q]
        BY <3>1, <2>0
      <3> QED BY <3>1, <3>6, <3>7, <2>0, <1>0, LocalStep
    <2>11. CASE Validate(p)
      <3>1. UNCHANGED <<version, slot, seen, left, copy>>
        BY <2>11 DEF Validate, shared
      <3>2. /\ pc'[p] \in {"read", "tripVersion", "idle"}
            /\ \A q \in Procs \ {p} : pc'[q] = pc[q] /\ idx'[q] = idx[q]
        BY <2>11, <2>0, <1>0, NextEntryQuiet DEF Validate, Goto
      <3> QED BY <3>1, <3>2, <2>0, <1>0, QuietStep DEF Holding
    <2> QED BY <1>8, <2>1, <2>2, <2>3, <2>4, <2>5, <2>6, <2>7, <2>8, <2>9, <2>10, <2>11 DEF Step
  <1>9. CASE UNCHANGED vars
    <2>1. OneWriter'
      BY <1>9 DEF vars, SeqlockInv, OneWriter
    <2>2. \A p \in Procs : Held(p)'
      BY <1>9 DEF vars, SeqlockInv, Held, HeldVersion, CopyMatches, CasFree, Accepts
    <2> QED BY <2>1, <2>2, <1>0 DEF SeqlockInv
  <1> QED BY <1>1, <1>2, <1>3, <1>4, <1>5, <1>6, <1>7, <1>8, <1>9 DEF Next

\* The specification keeps the seqlock invariant.
LEMMA SpecInv == Spec => []SeqlockInv
  BY InitInv, NextInv, PTL DEF Spec

\* ClaimEntry and Claim let one process at a time into an entry's write section.
THEOREM SpecOneWriter == Spec => []OneWriter
  <1>1. SeqlockInv => OneWriter
    BY DEF SeqlockInv
  <1> QED BY <1>1, SpecInv, PTL

\* ReadSlot and Snapshot accept only a copy that is the entry as it stands.
THEOREM SpecNoTornRead == Spec => []NoTornRead
  <1>1. SeqlockInv => NoTornRead
    <2> SUFFICES ASSUME SeqlockInv, NEW p \in Procs,
                        pc[p] = "copy", left[p] = {}, Accepts(p)
                 PROVE  copy[p] = slot[idx[p]]
      BY DEF NoTornRead
    <2>1. copy[p] \in [Words -> Word] /\ slot[idx[p]] \in [Words -> Word]
      BY DEF SeqlockInv, TypeOK, Payload
    <2>2. \A w \in Words : copy[p][w] = slot[idx[p]][w]
      BY DEF SeqlockInv, Held, CopyMatches
    <2> QED BY <2>1, <2>2
  <1> QED BY <1>1, SpecInv, PTL

\* Claim's compare-exchange takes only an entry that is still free.
THEOREM SpecClaimTakesFreeSlot == Spec => []ClaimTakesFreeSlot
  <1>1. SeqlockInv => ClaimTakesFreeSlot
    BY DEF SeqlockInv, Held, CasFree, Accepts, FreeSlot, ClaimTakesFreeSlot
  <1> QED BY <1>1, SpecInv, PTL

----------------------------------------------------------------------------
(* Who does what: the operations, the labels they pass through and the words *)
(* they store.  By itself inductive.                                         *)
(* Which labels each operation passes through.                               *)
Labels(o) ==
    {"idle"} \cup
    CASE o = "release" -> {"releaseVersion", "releaseAddr", "releaseFlags", "entry", "entryCas", "write"}
      [] o = "rotate" -> {"rotatePick", "rotateAddr", "releaseVersion", "releaseAddr",
                          "releaseFlags", "entry", "entryCas", "write"}
      [] o = "drain" -> {"releaseVersion", "releaseAddr", "releaseFlags", "entry", "entryCas",
                         "write", "read", "copy"}
      [] o = "trip" -> {"tripVersion", "entry", "entryCas", "write"}
      [] o = "claim" -> {"claimVersion", "claimFree", "claimCas", "write"}
      [] o = "clear" -> {"clearVersion", "clearFlags", "entry", "entryCas", "write"}
      [] OTHER -> {"read", "copy"}

(* A game thread releases or reads; once Shutdown has begun, the thread that *)
(* runs it clears; and a write section stores the words of its operation.    *)
Role(p) ==
    /\ pc[p] \in Labels(op[p])
    /\ p \in Threads => op[p] \in {"release", "read"}
    /\ pc[p] = "write" => left[p] \subseteq WordsOf(op[p])
Roles == (stopped => op[Sweeper] = "clear") /\ \A p \in Procs : Role(p)

\* The labels of each operation, written out.
LEMMA LabelsAre ==
    /\ \A o \in Ops : "idle" \in Labels(o)
    /\ Labels("release") = {"idle", "releaseVersion", "releaseAddr", "releaseFlags", "entry",
                            "entryCas", "write"}
    /\ Labels("rotate") = {"idle", "rotatePick", "rotateAddr", "releaseVersion", "releaseAddr",
                           "releaseFlags", "entry", "entryCas", "write"}
    /\ Labels("drain") = {"idle", "releaseVersion", "releaseAddr", "releaseFlags", "entry",
                          "entryCas", "write", "read", "copy"}
    /\ Labels("trip") = {"idle", "tripVersion", "entry", "entryCas", "write"}
    /\ Labels("claim") = {"idle", "claimVersion", "claimFree", "claimCas", "write"}
    /\ Labels("clear") = {"idle", "clearVersion", "clearFlags", "entry", "entryCas", "write"}
    /\ Labels("read") = {"idle", "read", "copy"} /\ Labels("snapshot") = {"idle", "read", "copy"}
  BY DEF Labels

\* A step of p in the middle of an operation keeps the roles if the label it
\* goes to is one of the operation's and is not the write section.
LEMMA RoleStep ==
    ASSUME TypeOK, Roles, NEW p \in Procs,
           UNCHANGED <<op, stopped>>, pc' \in [Procs -> PCs],
           pc'[p] \in Labels(op[p]) \ {"write"},
           \A q \in Procs \ {p} : pc'[q] = pc[q] /\ left'[q] = left[q]
    PROVE  Roles'
  <1>1. ASSUME NEW q \in Procs PROVE Role(q)'
    <2>1. CASE q = p
      BY <2>1 DEF Roles, Role
    <2>2. CASE q # p
      BY <2>2 DEF Roles, Role
    <2> QED BY <2>1, <2>2
  <1> QED BY <1>1 DEF Roles

\* Starting an operation keeps the roles.
LEMMA RoleStart ==
    ASSUME TypeOK, Roles, NEW p \in Procs, NEW o \in Ops, NEW l \in Labels(o) \ {"write"},
           NEW i, NEW a, NEW f, NEW r, Start(p, o, l, i, a, f, r),
           p \in Threads => o \in {"release", "read"},
           stopped' => op'[Sweeper] = "clear"
    PROVE  Roles'
  <1>1. /\ pc'[p] = l /\ op'[p] = o /\ left' = left
        /\ \A q \in Procs \ {p} : pc'[q] = pc[q] /\ op'[q] = op[q]
    BY DEF Start, Goto, TypeOK
  <1>2. ASSUME NEW q \in Procs PROVE Role(q)'
    <2>1. CASE q = p
      BY <2>1, <1>1 DEF Roles, Role
    <2>2. CASE q # p
      BY <2>2, <1>1 DEF Roles, Role
    <2> QED BY <2>1, <2>2
  <1> QED BY <1>2 DEF Roles

\* Before the first call everybody is idle.
LEMMA InitRoles == Init => Roles
  BY LabelsAre DEF Init, Roles, Role, Ops

\* Every step keeps the roles.
LEMMA NextRoles == TypeOK /\ Roles /\ [Next]_vars => Roles'
  <1> SUFFICES ASSUME TypeOK, Roles, [Next]_vars PROVE Roles'
    OBVIOUS
  <1>0. /\ TypeOK' /\ Sweeper \in Procs /\ Sweeper \notin Threads /\ Threads \subseteq Procs
        /\ {"release", "read", "claim", "rotate", "drain", "snapshot", "clear", "trip"} = Ops
    BY NextType, SlotsAssumption DEF Procs, Ops
  <1>1. ASSUME NEW p \in Procs, NEW a \in Addrs, StartRelease(p, a) PROVE Roles'
    <2>1. "releaseVersion" \in Labels("release") \ {"write"} /\ op'[Sweeper] = op[Sweeper]
      BY <1>0, <1>1, LabelsAre DEF StartRelease, Start, TypeOK
    <2> QED BY <1>0, <1>1, <2>1, RoleStart DEF StartRelease, Roles
  <1>2. ASSUME NEW p \in Procs, NEW i \in Slots, StartRead(p, i) PROVE Roles'
    <2>1. "read" \in Labels("read") \ {"write"} /\ op'[Sweeper] = op[Sweeper]
      BY <1>0, <1>2, LabelsAre DEF StartRead, Start, TypeOK
    <2> QED BY <1>0, <1>2, <2>1, RoleStart DEF StartRead, Roles
  <1>3. ASSUME NEW a \in Addrs, StartClaim(a) PROVE Roles'
    <2>1. "claimVersion" \in Labels("claim") \ {"write"}
      BY LabelsAre
    <2> QED BY <1>0, <1>3, <2>1, RoleStart DEF StartClaim
  <1>4. CASE StartRotate
    <2>1. "rotatePick" \in Labels("rotate") \ {"write"}
      BY LabelsAre
    <2> QED BY <1>0, <1>4, <2>1, RoleStart DEF StartRotate
  <1>5. ASSUME NEW a \in Addrs, NEW i \in Slots, StartDrain(a, i) PROVE Roles'
    <2>1. "releaseVersion" \in Labels("drain") \ {"write"}
      BY LabelsAre
    <2> QED BY <1>0, <1>5, <2>1, RoleStart DEF StartDrain
  <1>6. CASE StartSnapshot
    <2>1. "read" \in Labels("snapshot") \ {"write"}
      BY LabelsAre
    <2> QED BY <1>0, <1>6, <2>1, RoleStart DEF StartSnapshot
  <1>7. CASE StartClearAll
    <2>1. "clearVersion" \in Labels("clear") \ {"write"} /\ op'[Sweeper] = "clear"
      BY <1>0, <1>7, LabelsAre DEF StartClearAll, Start, TypeOK
    <2> QED BY <1>0, <1>7, <2>1, RoleStart DEF StartClearAll
  <1>8. ASSUME NEW p \in Procs, Step(p) PROVE Roles'
    <2>0. /\ pc \in [Procs -> PCs] /\ pc' \in [Procs -> PCs] /\ op \in [Procs -> Ops]
          /\ left \in [Procs -> SUBSET Words] /\ op[p] \in Ops /\ Role(p)
          /\ "idle" \in Labels(op[p])
      BY <1>0, LabelsAre DEF TypeOK, Roles
    <2>1. CASE ReleaseVersion(p) \/ ReleaseAddr(p) \/ ReleaseFlags(p)
      <3>1. {"releaseVersion", "releaseAddr", "releaseFlags", "entry"} \subseteq Labels(op[p])
        BY <2>0, <2>1, <1>0, LabelsAre DEF ReleaseVersion, ReleaseAddr, ReleaseFlags, Role
      <3>2. /\ UNCHANGED <<op, stopped, left>>
            /\ pc'[p] \in {"releaseVersion", "releaseAddr", "releaseFlags", "entry", "idle"}
            /\ \A q \in Procs \ {p} : pc'[q] = pc[q]
        BY <2>0, <2>1, NextEntryQuiet
           DEF ReleaseVersion, ReleaseAddr, ReleaseFlags, Goto, quiet
      <3> QED BY <3>1, <3>2, <2>0, RoleStep
    <2>2. CASE RotatePick(p) \/ RotateAddr(p)
      <3>1. {"rotateAddr", "releaseVersion"} \subseteq Labels(op[p])
        BY <2>0, <2>2, <1>0, LabelsAre DEF RotatePick, RotateAddr, Role
      <3>2. /\ UNCHANGED <<op, stopped, left>> /\ pc'[p] \in {"rotateAddr", "releaseVersion", "idle"}
            /\ \A q \in Procs \ {p} : pc'[q] = pc[q]
        BY <2>0, <2>2 DEF RotatePick, RotateAddr, Goto, quiet
      <3> QED BY <3>1, <3>2, <2>0, RoleStep
    <2>3. CASE TripVersion(p)
      <3>1. "entry" \in Labels(op[p])
        BY <2>0, <2>3, <1>0, LabelsAre DEF TripVersion, Role
      <3>2. /\ UNCHANGED <<op, stopped, left>> /\ pc'[p] \in {"entry", "idle"}
            /\ \A q \in Procs \ {p} : pc'[q] = pc[q]
        BY <2>0, <2>3 DEF TripVersion, Goto, quiet
      <3> QED BY <3>1, <3>2, <2>0, RoleStep
    <2>4. CASE ClearVersion(p) \/ ClearFlags(p)
      <3>1. {"clearVersion", "clearFlags", "entry"} \subseteq Labels(op[p])
        BY <2>0, <2>4, <1>0, LabelsAre DEF ClearVersion, ClearFlags, Role
      <3>2. /\ UNCHANGED <<op, stopped, left>>
            /\ pc'[p] \in {"clearVersion", "clearFlags", "entry", "idle"}
            /\ \A q \in Procs \ {p} : pc'[q] = pc[q]
        BY <2>0, <2>4, NextEntryQuiet DEF ClearVersion, ClearFlags, Goto, quiet
      <3> QED BY <3>1, <3>2, <2>0, RoleStep
    <2>5. CASE EntryLoad(p) \/ (EntryCas(p) /\ version[idx[p]] # seen[p])
      <3>1. /\ {"entry", "entryCas"} \subseteq Labels(op[p])
            /\ op[p] = "clear" => "clearVersion" \in Labels(op[p])
        BY <2>0, <2>5, <1>0, LabelsAre DEF EntryLoad, EntryCas, Role
      <3>2. UNCHANGED <<op, stopped, left>>
        BY <2>5 DEF EntryLoad, EntryCas
      <3>3. \/ pc' = [pc EXCEPT ![p] = "entryCas"]
            \/ Attempt(p)
        BY <2>5 DEF EntryLoad, EntryCas, Goto
      <3>4. Attempt(p) => /\ \/ pc'[p] \in {"entry", "idle"}
                             \/ op[p] = "clear" /\ pc'[p] = "clearVersion"
                          /\ \A q \in Procs \ {p} : pc'[q] = pc[q]
        <4>1. CASE AttemptsLeft(tries[p]) \/ op[p] # "clear"
          BY <4>1, <2>0 DEF Attempt, Goto
        <4>2. CASE ~AttemptsLeft(tries[p]) /\ op[p] = "clear"
          BY <4>2, NextEntryQuiet DEF Attempt
        <4> QED BY <4>1, <4>2
      <3>5. /\ pc'[p] \in Labels(op[p]) \ {"write"}
            /\ \A q \in Procs \ {p} : pc'[q] = pc[q]
        BY <3>1, <3>3, <3>4, <2>0
      <3> QED BY <3>2, <3>5, <2>0, RoleStep
    <2>6. CASE \/ EntryCas(p) /\ version[idx[p]] = seen[p]
               \/ ClaimCas(p) /\ version[idx[p]] = seen[p]
      <3>1. /\ UNCHANGED <<op, stopped>> /\ "write" \in Labels(op[p])
            /\ pc' = [pc EXCEPT ![p] = "write"]
            /\ left' = [left EXCEPT ![p] = WordsOf(op[p])]
        <4>1. CASE EntryCas(p) /\ version[idx[p]] = seen[p]
          BY <4>1, <2>0, <1>0, LabelsAre DEF EntryCas, TakeEntry, Goto, Role
        <4>2. CASE ClaimCas(p) /\ version[idx[p]] = seen[p]
          <5>1. op[p] = "claim" /\ "write" \in Labels(op[p])
            BY <4>2, <2>0, <1>0, LabelsAre DEF ClaimCas, Role
          <5> QED BY <4>2, <5>1, <2>0 DEF ClaimCas, TakeEntry, Goto
        <4> QED BY <2>6, <4>1, <4>2
      <3>2. ASSUME NEW q \in Procs PROVE Role(q)'
        <4>1. CASE q = p
          BY <4>1, <3>1, <2>0 DEF Role
        <4>2. CASE q # p
          BY <4>2, <3>1, <2>0 DEF Roles, Role
        <4> QED BY <4>1, <4>2
      <3> QED BY <3>1, <3>2 DEF Roles
    <2>7. CASE \/ ClaimVersion(p) \/ ClaimFree(p)
               \/ ClaimCas(p) /\ version[idx[p]] # seen[p]
      <3>1. {"claimVersion", "claimFree", "claimCas"} \subseteq Labels(op[p])
        BY <2>0, <2>7, <1>0, LabelsAre DEF ClaimVersion, ClaimFree, ClaimCas, Role
      <3>2. /\ UNCHANGED <<op, stopped, left>>
            /\ pc'[p] \in {"claimVersion", "claimFree", "claimCas", "idle"}
            /\ \A q \in Procs \ {p} : pc'[q] = pc[q]
        BY <2>0, <2>7, NextEntryQuiet DEF ClaimVersion, ClaimFree, ClaimCas, Goto, quiet
      <3> QED BY <3>1, <3>2, <2>0, RoleStep
    <2>8. ASSUME NEW w \in Words, StoreWord(p, w) PROVE Roles'
      <3>1. UNCHANGED <<op, stopped, pc>> /\ left' = [left EXCEPT ![p] = @ \ {w}]
        BY <2>8 DEF StoreWord
      <3>2. \A q \in Procs : left'[q] \subseteq left[q]
        BY <3>1, <2>0
      <3> QED BY <3>1, <3>2, <1>0 DEF Roles, Role
    <2>9. CASE Publish(p)
      <3>0. UNCHANGED <<op, stopped, left>>
        BY <2>9 DEF Publish
      <3>1. CASE op[p] = "clear"
        <4>1. NextEntry(p, "clearVersion") /\ "clearVersion" \in Labels(op[p])
          BY <2>9, <3>1, LabelsAre DEF Publish
        <4> QED BY <4>1, <3>0, <2>0, NextEntryQuiet, RoleStep
      <3>2. CASE op[p] # "clear"
        <4>1. /\ pc'[p] \in {"read", "idle"} /\ (pc'[p] = "read" => op[p] = "drain")
              /\ \A q \in Procs \ {p} : pc'[q] = pc[q]
          BY <2>9, <3>2, <2>0 DEF Publish, Goto
        <4>2. pc'[p] \in Labels(op[p]) \ {"write"}
          BY <4>1, <2>0, LabelsAre
        <4> QED BY <4>1, <4>2, <3>0, <2>0, RoleStep
      <3> QED BY <3>1, <3>2
    <2>10. CASE ReadVersion(p)
      <3>1. {"read", "copy"} \subseteq Labels(op[p])
        BY <2>0, <2>10, <1>0, LabelsAre DEF ReadVersion, Role
      <3>2. UNCHANGED <<op, stopped>> /\ \A q \in Procs \ {p} : left'[q] = left[q]
        BY <2>10, <2>0 DEF ReadVersion
      <3>3. pc'[p] \in {"read", "copy", "idle"} /\ \A q \in Procs \ {p} : pc'[q] = pc[q]
        BY <2>10, <2>0, NextEntryQuiet DEF ReadVersion, Goto
      <3> QED BY <3>1, <3>2, <3>3, <2>0, RoleStep
    <2>11. ASSUME NEW w \in Words, CopyWord(p, w) PROVE Roles'
      <3>1. UNCHANGED <<op, stopped, pc>> /\ left' = [left EXCEPT ![p] = @ \ {w}]
        BY <2>11 DEF CopyWord
      <3>2. \A q \in Procs : left'[q] \subseteq left[q]
        BY <3>1, <2>0
      <3> QED BY <3>1, <3>2, <1>0 DEF Roles, Role
    <2>12. CASE Validate(p)
      <3>0. UNCHANGED <<stopped, left>>
        BY <2>12 DEF Validate
      <3>1. CASE op[p] = "snapshot"
        <4>1. NextEntry(p, "read") /\ UNCHANGED op /\ "read" \in Labels(op[p])
          BY <2>12, <3>1, LabelsAre DEF Validate
        <4> QED BY <4>1, <3>0, <2>0, NextEntryQuiet, RoleStep
      <3>2. CASE op[p] # "snapshot" /\ ~(op[p] = "drain" /\ Accepts(p) /\ StillHolds(p))
        <4>1. UNCHANGED op /\ pc' = [pc EXCEPT ![p] = "idle"]
          BY <2>12, <3>2 DEF Validate, Goto
        <4> QED BY <4>1, <3>0, <2>0, RoleStep
      <3>3. CASE op[p] = "drain" /\ Accepts(p) /\ StillHolds(p)
        <4>1. op' = [op EXCEPT ![p] = "trip"] /\ pc' = [pc EXCEPT ![p] = "tripVersion"]
          BY <2>12, <3>3 DEF Validate, Goto
        <4>2. p \notin Threads /\ p = Sweeper /\ ~stopped
          BY <3>3, <2>0 DEF Role, Roles, Procs
        <4>3. ASSUME NEW q \in Procs PROVE Role(q)'
          <5>1. CASE q = p
            BY <5>1, <4>1, <4>2, <2>0, LabelsAre DEF Role
          <5>2. CASE q # p
            BY <5>2, <4>1, <3>0, <2>0 DEF Roles, Role
          <5> QED BY <5>1, <5>2
        <4> QED BY <4>2, <4>3, <3>0 DEF Roles
      <3> QED BY <3>1, <3>2, <3>3
    <2> QED BY <1>8, <2>1, <2>2, <2>3, <2>4, <2>5, <2>6, <2>7, <2>8, <2>9, <2>10, <2>11, <2>12
            DEF Step
  <1>9. CASE UNCHANGED vars
    BY <1>9 DEF vars, Roles, Role
  <1> QED BY <1>1, <1>2, <1>3, <1>4, <1>5, <1>6, <1>7, <1>8, <1>9 DEF Next

----------------------------------------------------------------------------
(* The kinds of step once more, with what the properties of MarkTripped and  *)
(* ClearAll ask of them.                                                     *)

(* A step of p that does not touch the table and is in no write section.     *)
Local(p) ==
    /\ UNCHANGED <<version, slot, new>>
    /\ pc[p] # "write" /\ pc'[p] # "write"
    /\ \A q \in Procs \ {p} :
          /\ pc'[q] = pc[q] /\ idx'[q] = idx[q] /\ op'[q] = op[q] /\ arg'[q] = arg[q]
          /\ left'[q] = left[q] /\ seen'[q] = seen[q]

(* MarkTripped keeps its entry, or begins with one that was just re-checked. *)
TripKept(p) ==
    op'[p] = "trip" /\ pc'[p] # "idle" =>
        \/ op[p] = "trip" /\ pc[p] # "idle" /\ idx'[p] = idx[p] /\ arg'[p] = arg[p]
        \/ slot[idx'[p]]["addr"] = arg'[p]

(* ClearAll begins, stays at its entry, or passes one that is being written, *)
(* is free or was lost to somebody else.                                     *)
ClearKept(p) ==
    p = Sweeper /\ stopped' =>
        \/ ~stopped /\ pc'[p] = "clearVersion" /\ idx'[p] = 0
        \/ /\ stopped /\ idx'[p] = idx[p] /\ pc[p] # "idle" /\ pc'[p] # "idle"
           /\ pc'[p] = "entryCas" => version[idx[p]] = seen'[p]
        \/ /\ stopped /\ pc[p] # "idle" /\ pc'[p] # "entryCas"
           /\ \/ pc'[p] # "idle" /\ idx'[p] = idx[p] + 1
              \/ pc'[p] = "idle" /\ idx'[p] = idx[p] /\ idx[p] + 1 = NSlots
           /\ \/ Writing(version[idx[p]]) \/ FreeSlot(slot[idx[p]])
              \/ pc[p] = "entryCas" /\ ~Accepts(p)

(* A compare-exchange that succeeds.                                         *)
Taking(p) ==
    /\ ~Writing(version[idx[p]]) /\ pc[p] \in {"entryCas", "claimCas"}
    /\ \/ TakeEntry(p, op[p], arg[p], inst[p])
       \/ TakeEntry(p, op[p], arg[p], NoAddr)
    /\ UNCHANGED <<slot, idx, op, arg, seen, stopped>>

\* Moving on in the table: the next index, or the end.
LEMMA NextEntryMoves ==
    ASSUME TypeOK, NEW p \in Procs, NEW l, NextEntry(p, l)
    PROVE  \/ pc'[p] = l /\ idx'[p] = idx[p] + 1
           \/ pc'[p] = "idle" /\ idx'[p] = idx[p] /\ idx[p] + 1 = NSlots
  BY SlotsAssumption DEF NextEntry, MoreSlots, Goto, At, TypeOK, Slots

\* An attempt of ClaimEntry that failed: another one, or the end of the entry.
LEMMA AttemptMoves ==
    ASSUME TypeOK, NEW p \in Procs, Attempt(p)
    PROVE  \/ pc'[p] = "entry" /\ idx'[p] = idx[p]
           \/ op[p] # "clear" /\ pc'[p] = "idle" /\ idx'[p] = idx[p]
           \/ op[p] = "clear" /\ pc'[p] = "clearVersion" /\ idx'[p] = idx[p] + 1
           \/ op[p] = "clear" /\ pc'[p] = "idle" /\ idx'[p] = idx[p] /\ idx[p] + 1 = NSlots
  <1>1. CASE AttemptsLeft(tries[p]) \/ op[p] # "clear"
    BY <1>1 DEF Attempt, Goto, TypeOK
  <1>2. CASE ~AttemptsLeft(tries[p]) /\ op[p] = "clear"
    BY <1>2, NextEntryMoves DEF Attempt
  <1> QED BY <1>1, <1>2

\* Starting an operation touches neither the table nor a write section.
LEMMA StartLocal ==
    ASSUME TypeOK, NEW p \in Procs, NEW o \in Ops \ {"trip"}, NEW l \in PCs \ {"write"},
           NEW i, NEW a, NEW f, NEW r, Start(p, o, l, i, a, f, r)
    PROVE  Local(p) /\ TripKept(p) /\ pc'[p] = l /\ idx'[p] = i /\ pc[p] = "idle"
  BY DEF Start, Goto, At, TypeOK, Local, TripKept

\* Every step is of one of these kinds.
LEMMA StepKinds ==
    ASSUME SeqlockInv, Roles, [Next]_vars
    PROVE  \/ UNCHANGED vars
           \/ \E p \in Procs :
                 \/ Local(p) /\ TripKept(p) /\ ClearKept(p) /\ (p = Sweeper \/ stopped' = stopped)
                 \/ Taking(p) \/ Publish(p) \/ \E w \in Words : StoreWord(p, w)
  <1> DEFINE Good(p) == Local(p) /\ TripKept(p) /\ ClearKept(p) /\ (p = Sweeper \/ stopped' = stopped)
  <1>0. /\ TypeOK /\ Sweeper \in Procs /\ Sweeper \notin Threads /\ Threads \subseteq Procs
        /\ \A q \in Procs : q \in Threads \/ q = Sweeper
    BY SlotsAssumption DEF Procs, SeqlockInv
  <1>a. /\ {"releaseVersion", "read", "claimVersion", "rotatePick", "clearVersion"}
               \subseteq PCs \ {"write"}
        /\ {"release", "read", "claim", "rotate", "drain", "snapshot", "clear"} \subseteq Ops \ {"trip"}
    BY DEF PCs, Ops
  <1>1. ASSUME NEW p \in Procs, NEW a \in Addrs, StartRelease(p, a) PROVE Good(p)
    BY <1>0, <1>a, <1>1, StartLocal DEF StartRelease, ClearKept
  <1>2. ASSUME NEW p \in Procs, NEW i \in Slots, StartRead(p, i) PROVE Good(p)
    BY <1>0, <1>a, <1>2, StartLocal DEF StartRead, ClearKept
  <1>3. ASSUME NEW a \in Addrs, StartClaim(a) PROVE Good(Sweeper)
    BY <1>0, <1>a, <1>3, StartLocal DEF StartClaim, ClearKept
  <1>4. CASE StartRotate
    <2>1. Good(Sweeper)
      BY <1>0, <1>a, <1>4, StartLocal DEF StartRotate, ClearKept
    <2> QED BY <2>1, <1>0
  <1>5. ASSUME NEW a \in Addrs, NEW i \in Slots, StartDrain(a, i) PROVE Good(Sweeper)
    BY <1>0, <1>a, <1>5, StartLocal DEF StartDrain, ClearKept
  <1>6. CASE StartSnapshot
    <2>1. Good(Sweeper)
      BY <1>0, <1>a, <1>6, StartLocal DEF StartSnapshot, ClearKept
    <2> QED BY <2>1, <1>0
  <1>7. CASE StartClearAll
    <2>1. Good(Sweeper)
      BY <1>0, <1>a, <1>7, StartLocal DEF StartClearAll, ClearKept
    <2> QED BY <2>1, <1>0
  <1>8. ASSUME NEW p \in Procs, Step(p)
        PROVE  Good(p) \/ Taking(p) \/ Publish(p) \/ \E w \in Words : StoreWord(p, w)
    <2>0. /\ pc \in [Procs -> PCs] /\ op \in [Procs -> Ops] /\ idx \in [Procs -> Slots]
          /\ seen \in [Procs -> Version] /\ left \in [Procs -> SUBSET Words]
          /\ arg \in [Procs -> Addrs \cup {NoAddr}]
          /\ version \in [Slots -> Version] /\ slot \in [Slots -> Payload] /\ Role(p) /\ Held(p)
          /\ op[p] \in Ops /\ idx[p] \in Slots
          /\ op[p] \in {"release", "rotate", "drain", "trip", "claim", "clear", "read", "snapshot"}
      BY <1>0 DEF TypeOK, Roles, SeqlockInv, Ops
    <2>a. stopped /\ p = Sweeper => op[p] = "clear"
      BY DEF Roles
    <2>1. CASE \/ ReleaseVersion(p) \/ ReleaseAddr(p) \/ ReleaseFlags(p)
               \/ RotatePick(p) \/ RotateAddr(p)
      <3>1. op[p] \in {"release", "rotate", "drain"}
        BY <2>0, <2>1, LabelsAre
           DEF ReleaseVersion, ReleaseAddr, ReleaseFlags, RotatePick, RotateAddr, Role
      <3>2. UNCHANGED <<version, slot, new, op, left, seen, stopped>>
        BY <2>1 DEF ReleaseVersion, ReleaseAddr, ReleaseFlags, RotatePick, RotateAddr, quiet, shared
      <3>3. \A q \in Procs \ {p} : arg'[q] = arg[q]
        BY <2>0, <2>1 DEF ReleaseVersion, ReleaseAddr, ReleaseFlags, RotatePick, RotateAddr, quiet
      <3>4. pc[p] # "write" /\ pc'[p] # "write"
            /\ \A q \in Procs \ {p} : pc'[q] = pc[q] /\ idx'[q] = idx[q]
        <4>1. CASE ReleaseVersion(p) \/ ReleaseAddr(p) \/ ReleaseFlags(p)
          BY <4>1, <2>0, <1>0, NextEntryQuiet DEF ReleaseVersion, ReleaseAddr, ReleaseFlags, Goto
        <4>2. CASE RotatePick(p) \/ RotateAddr(p)
          BY <4>2, <2>0 DEF RotatePick, RotateAddr, Goto, At
        <4> QED BY <2>1, <4>1, <4>2
      <3> QED BY <3>1, <3>2, <3>3, <3>4, <2>a DEF Local, TripKept, ClearKept
    <2>2. CASE TripVersion(p)
      <3>1. op[p] = "trip"
        BY <2>0, <2>2, LabelsAre DEF TripVersion, Role
      <3>2. /\ UNCHANGED <<version, slot, new, op, left, seen, stopped, arg, idx>> /\ pc[p] = "tripVersion"
            /\ pc' = [pc EXCEPT ![p] = pc'[p]] /\ pc'[p] # "write"
        BY <2>0, <2>2 DEF TripVersion, quiet, shared, Goto
      <3> QED BY <3>1, <3>2, <2>a, <2>0 DEF Local, TripKept, ClearKept
    <2>3. CASE ClearVersion(p) \/ ClearFlags(p)
      <3>1. op[p] = "clear"
        BY <2>0, <2>3, LabelsAre DEF ClearVersion, ClearFlags, Role
      <3>2. /\ UNCHANGED <<version, slot, new, op, left, seen, stopped, arg>>
            /\ pc[p] \in {"clearVersion", "clearFlags"}
        BY <2>3 DEF ClearVersion, ClearFlags, quiet, shared
      <3>3. \/ /\ NextEntry(p, "clearVersion")
               /\ Writing(version[idx[p]]) \/ FreeSlot(slot[idx[p]])
            \/ pc' = [pc EXCEPT ![p] = pc'[p]] /\ pc'[p] \in {"clearFlags", "entry"} /\ idx' = idx
        BY <2>0, <2>3 DEF ClearVersion, ClearFlags, Goto, AlreadyFree, FreeSlot
      <3>4. NextEntry(p, "clearVersion") =>
              /\ pc'[p] \in {"clearVersion", "idle"}
              /\ \A q \in Procs \ {p} : pc'[q] = pc[q] /\ idx'[q] = idx[q]
              /\ \/ pc'[p] = "clearVersion" /\ idx'[p] = idx[p] + 1
                 \/ pc'[p] = "idle" /\ idx'[p] = idx[p] /\ idx[p] + 1 = NSlots
        BY <1>0, NextEntryQuiet, NextEntryMoves
      <3>5. Local(p) /\ TripKept(p)
        BY <3>1, <3>2, <3>3, <3>4, <2>0 DEF Local, TripKept
      <3>6. ClearKept(p)
        BY <3>2, <3>3, <3>4, <2>0 DEF ClearKept
      <3> QED BY <3>2, <3>5, <3>6
    <2>4. CASE EntryLoad(p) /\ Claimable(version[idx[p]])
      <3>1. /\ UNCHANGED <<version, slot, new, op, left, stopped, arg, idx>> /\ pc[p] = "entry"
            /\ pc' = [pc EXCEPT ![p] = "entryCas"] /\ seen' = [seen EXCEPT ![p] = version[idx[p]]]
        BY <2>4 DEF EntryLoad, shared, Goto
      <3>2. Local(p) /\ TripKept(p)
        BY <3>1, <2>0 DEF Local, TripKept
      <3>3. ClearKept(p)
        BY <3>1, <2>0 DEF ClearKept
      <3> QED BY <3>1, <3>2, <3>3
    <2>5. CASE \/ EntryLoad(p) /\ ~Claimable(version[idx[p]])
               \/ EntryCas(p) /\ version[idx[p]] # seen[p]
      <3>1. /\ UNCHANGED <<version, slot, new, op, left, stopped, arg, seen>> /\ Attempt(p)
            /\ pc[p] \in {"entry", "entryCas"}
            /\ \/ Writing(version[idx[p]])
               \/ pc[p] = "entryCas" /\ ~Accepts(p)
        BY <2>5 DEF EntryLoad, EntryCas, shared, Claimable, Accepts
      <3>2. Local(p)
        BY <3>1, <1>0, AttemptQuiet DEF Local
      <3>3. TripKept(p)
        BY <3>1, <1>0, AttemptMoves DEF TripKept
      <3>4. ClearKept(p)
        BY <3>1, <1>0, <2>a, AttemptMoves DEF ClearKept
      <3> QED BY <3>1, <3>2, <3>3, <3>4
    <2>6. CASE \/ EntryCas(p) /\ version[idx[p]] = seen[p]
               \/ ClaimCas(p) /\ version[idx[p]] = seen[p]
      <3>1. ~Writing(version[idx[p]])
        BY <2>6, <2>0 DEF EntryCas, ClaimCas, Held, HeldVersion, Holding
      <3>2. CASE EntryCas(p) /\ version[idx[p]] = seen[p]
        <4>1. /\ pc[p] = "entryCas" /\ TakeEntry(p, op[p], arg[p], inst[p])
              /\ UNCHANGED <<slot, idx, op, arg, seen, stopped>>
          BY <3>2 DEF EntryCas
        <4> QED BY <3>1, <4>1 DEF Taking
      <3>3. CASE ClaimCas(p) /\ version[idx[p]] = seen[p]
        <4>1. op[p] = "claim"
          BY <3>3, <2>0, LabelsAre DEF ClaimCas, Role
        <4>2. /\ pc[p] = "claimCas" /\ TakeEntry(p, op[p], arg[p], NoAddr)
              /\ UNCHANGED <<slot, idx, op, arg, seen, stopped>>
          BY <3>3, <4>1 DEF ClaimCas
        <4> QED BY <3>1, <4>2 DEF Taking
      <3> QED BY <2>6, <3>2, <3>3
    <2>7. CASE \/ ClaimVersion(p) \/ ClaimFree(p)
               \/ ClaimCas(p) /\ version[idx[p]] # seen[p]
      <3>1. op[p] = "claim"
        BY <2>0, <2>7, LabelsAre DEF ClaimVersion, ClaimFree, ClaimCas, Role
      <3>2. UNCHANGED <<version, slot, new, op, left, stopped, arg>>
        BY <2>7 DEF ClaimVersion, ClaimFree, ClaimCas, quiet, shared
      <3>3. pc[p] # "write" /\ pc'[p] # "write"
            /\ \A q \in Procs \ {p} : pc'[q] = pc[q] /\ idx'[q] = idx[q]
        <4>1. CASE ClaimVersion(p) \/ ClaimFree(p)
          BY <4>1, <2>0, <1>0, NextEntryQuiet DEF ClaimVersion, ClaimFree, Goto
        <4>2. CASE ClaimCas(p) /\ version[idx[p]] # seen[p]
          BY <4>2, <2>0 DEF ClaimCas, Goto, At
        <4> QED BY <2>7, <4>1, <4>2
      <3>4. \A q \in Procs \ {p} : seen'[q] = seen[q]
        BY <2>7, <2>0 DEF ClaimVersion, ClaimFree, ClaimCas, quiet
      <3> QED BY <3>1, <3>2, <3>3, <3>4, <2>a DEF Local, TripKept, ClearKept
    <2>8. CASE ReadVersion(p) \/ \E w \in Words : CopyWord(p, w)
      <3>1. op[p] \in {"read", "snapshot", "drain"}
        BY <2>0, <2>8, LabelsAre DEF ReadVersion, CopyWord, Role
      <3>2. UNCHANGED <<version, slot, new, op, stopped, arg>>
        BY <2>8 DEF ReadVersion, CopyWord, shared
      <3>3. pc[p] # "write" /\ pc'[p] # "write"
            /\ \A q \in Procs \ {p} : pc'[q] = pc[q] /\ idx'[q] = idx[q]
        <4>1. CASE ReadVersion(p)
          BY <4>1, <2>0, <1>0, NextEntryQuiet DEF ReadVersion, Goto
        <4>2. CASE \E w \in Words : CopyWord(p, w)
          BY <4>2 DEF CopyWord
        <4> QED BY <2>8, <4>1, <4>2
      <3>4. \A q \in Procs \ {p} : seen'[q] = seen[q] /\ left'[q] = left[q]
        BY <2>8, <2>0 DEF ReadVersion, CopyWord
      <3> QED BY <3>1, <3>2, <3>3, <3>4, <2>a DEF Local, TripKept, ClearKept
    <2>9. CASE Validate(p)
      <3>1. op[p] \in {"read", "snapshot", "drain"} /\ pc[p] = "copy"
        BY <2>0, <2>9, LabelsAre DEF Validate, Role
      <3>2. UNCHANGED <<version, slot, new, left, seen, stopped, arg>>
        BY <2>9 DEF Validate, shared
      <3>3. CASE op[p] = "snapshot"
        <4>1. NextEntry(p, "read") /\ UNCHANGED op
          BY <2>9, <3>3 DEF Validate
        <4> QED BY <4>1, <3>1, <3>2, <3>3, <2>a, <1>0, NextEntryQuiet DEF Local, TripKept, ClearKept
      <3>4. CASE op[p] # "snapshot" /\ ~(op[p] = "drain" /\ Accepts(p) /\ StillHolds(p))
        <4>1. UNCHANGED <<op, idx>> /\ pc' = [pc EXCEPT ![p] = "idle"]
          BY <2>9, <3>4 DEF Validate, Goto
        <4> QED BY <4>1, <3>1, <3>2, <3>4, <2>a, <2>0 DEF Local, TripKept, ClearKept
      <3>5. CASE op[p] = "drain" /\ Accepts(p) /\ StillHolds(p)
        <4>1. /\ op' = [op EXCEPT ![p] = "trip"] /\ pc' = [pc EXCEPT ![p] = "tripVersion"]
              /\ UNCHANGED idx /\ left[p] = {}
          BY <2>9, <3>5 DEF Validate, Goto
        <4>2. "addr" \in Words
          BY DEF Words
        <4>3. slot[idx[p]]["addr"] = arg[p]
          BY <4>1, <4>2, <3>1, <3>5, <2>0 DEF Held, CopyMatches, StillHolds
        <4>4. Local(p)
          BY <4>1, <3>1, <3>2, <2>0 DEF Local
        <4>5. TripKept(p) /\ ClearKept(p)
          BY <4>1, <4>3, <3>2, <3>5, <2>a DEF TripKept, ClearKept
        <4> QED BY <3>2, <4>4, <4>5
      <3> QED BY <3>3, <3>4, <3>5
    <2>10. CASE Publish(p) \/ \E w \in Words : StoreWord(p, w)
      BY <2>10
    <2>11. CASE EntryLoad(p)
      BY <2>11, <2>4, <2>5
    <2>12. CASE EntryCas(p) \/ ClaimCas(p)
      BY <2>12, <2>5, <2>6, <2>7
    <2> HIDE DEF Good
    <2> QED BY <1>8, <2>1, <2>2, <2>3, <2>7, <2>8, <2>9, <2>10, <2>11, <2>12 DEF Step
  <1> QED BY <1>0, <1>1, <1>2, <1>3, <1>4, <1>5, <1>6, <1>7, <1>8 DEF Next

----------------------------------------------------------------------------
(* MarkTripped and ClearAll, from four inductive invariants on top of        *)
(* SeqlockInv: the roles, and these.                                         *)

(* A set bit has its writer, and a write section that frees its entry leaves *)
(* the entry free when it ends.                                              *)
Owner(i) == Writing(version[i]) => \E p \in Procs : pc[p] = "write" /\ idx[p] = i
Frees(p) ==
    pc[p] = "write" /\ op[p] \in {"release", "rotate", "drain", "clear"} =>
        /\ op[p] = "clear" => new[p]["addr"] = NoAddr
        /\ "released" \in new[p]["flags"]
        /\ "flags" \in left[p] \/ "released" \in slot[idx[p]]["flags"]
Sections == (\A i \in Slots : Owner(i)) /\ \A p \in Procs : Frees(p)

(* From the re-check of the index to the end of MarkTripped, the entry is the*)
(* reported block's.                                                         *)
Reported == \A p \in Procs : op[p] = "trip" /\ pc[p] # "idle" => slot[idx[p]]["addr"] = arg[p]

(* An entry that ClearAll has passed is free, or a Release in flight is      *)
(* freeing it; so is one whose version changed under ClearAll.               *)
Settled(i) == FreeSlot(slot[i]) \/ \E t \in Threads : pc[t] = "write" /\ idx[t] = i
Passed(i) == \/ pc[Sweeper] = "idle" \/ i < idx[Sweeper]
             \/ pc[Sweeper] = "entryCas" /\ ~Accepts(Sweeper) /\ i = idx[Sweeper]
Cleared == stopped => \A i \in Slots : Passed(i) => Settled(i)

TableInv == SeqlockInv /\ Roles /\ Sections /\ Reported /\ Cleared

\* What Target stores, and into which words.
LEMMA TargetFrees ==
    ASSUME NEW s, NEW a, NEW f
    PROVE  /\ \A o \in {"release", "rotate", "drain", "clear"} :
                  "released" \in Target(o, s, a, f)["flags"] /\ "flags" \in WordsOf(o)
           /\ Target("clear", s, a, f)["addr"] = NoAddr
           /\ \A o \in {"release", "rotate", "drain", "trip"} : "addr" \notin WordsOf(o)
  <1>1. \A x, y, z : Fields(x, y, z)["flags"] = z /\ Fields(x, y, z)["addr"] = x
    BY DEF Fields, Words
  <1>2. \A o \in {"release", "rotate", "drain"} :
            "released" \in Target(o, s, a, f)["flags"]
    BY <1>1 DEF Target
  <1>3. "released" \in Target("clear", s, a, f)["flags"] /\ Target("clear", s, a, f)["addr"] = NoAddr
    BY <1>1 DEF Target
  <1>4. \A o \in {"release", "rotate", "drain", "clear"} : "flags" \in WordsOf(o)
    BY DEF WordsOf, Words
  <1>5. \A o \in {"release", "rotate", "drain", "trip"} : "addr" \notin WordsOf(o)
    BY DEF WordsOf
  <1> QED BY <1>2, <1>3, <1>4, <1>5

\* Before the first call nobody writes, and nothing has been cleared.
LEMMA InitTable == Init => TableInv
  <1> SUFFICES ASSUME Init PROVE TableInv
    OBVIOUS
  <1>1. Sections
    BY DEF Init, Sections, Owner, Frees, Writing
  <1>2. Reported /\ Cleared
    BY DEF Init, Reported, Cleared
  <1> QED BY <1>1, <1>2, InitInv, InitRoles DEF TableInv

\* A step that leaves the table alone keeps the sections, the report and what
\* ClearAll has passed.
LEMMA LocalTable ==
    ASSUME TableInv, TypeOK', Roles', NEW p \in Procs, Local(p), TripKept(p), ClearKept(p),
           p = Sweeper \/ stopped' = stopped
    PROVE  Sections' /\ Reported' /\ Cleared'
  <1>0. /\ TypeOK /\ Sweeper \in Procs /\ Sweeper \notin Threads /\ Threads \subseteq Procs
        /\ idx \in [Procs -> Slots] /\ Slots \subseteq Nat /\ \A q \in Procs : idx[q] \in Slots
        /\ \A q \in Procs : idx'[q] \in Slots
    BY SlotsAssumption DEF Procs, TableInv, SeqlockInv, TypeOK, Slots
  <1>1. ASSUME NEW q \in Procs PROVE (pc'[q] = "write") = (pc[q] = "write")
    BY <1>1 DEF Local
  <1>2. \A q \in Procs : pc[q] = "write" => idx'[q] = idx[q] /\ op'[q] = op[q] /\ left'[q] = left[q]
    BY DEF Local
  <1>3. \A i \in Slots : Owner(i)'
    BY <1>1, <1>2 DEF Local, TableInv, Sections, Owner
  <1>4. \A q \in Procs : Frees(q)'
    BY <1>1, <1>2 DEF Local, TableInv, Sections, Frees
  <1>5. Reported'
    <2> SUFFICES ASSUME NEW q \in Procs, op'[q] = "trip", pc'[q] # "idle"
                 PROVE  slot'[idx'[q]]["addr"] = arg'[q]
      BY DEF Reported
    <2>1. CASE q = p
      BY <2>1 DEF Local, TripKept, TableInv, Reported
    <2>2. CASE q # p
      BY <2>2 DEF Local, TableInv, Reported
    <2> QED BY <2>1, <2>2
  <1>6. \A i \in Slots : Settled(i) => Settled(i)'
    BY <1>0, <1>1, <1>2 DEF Local, Settled
  <1>7. Cleared'
    <2> SUFFICES ASSUME stopped', NEW i \in Slots, Passed(i)' PROVE Settled(i)
      BY <1>6 DEF Cleared
    <2>0. i \in Nat /\ idx[Sweeper] \in Nat /\ idx'[Sweeper] \in Nat /\ i < NSlots
      BY <1>0, SlotsAssumption DEF Slots
    <2>1. CASE p # Sweeper
      BY <2>1, <1>0 DEF Local, TableInv, Cleared, Passed, Accepts
    <2>2. CASE p = Sweeper /\ ~stopped
      BY <2>2, <2>0 DEF ClearKept, Passed
    <2>3. CASE /\ p = Sweeper /\ stopped /\ idx'[p] = idx[p] /\ pc[p] # "idle" /\ pc'[p] # "idle"
               /\ pc'[p] = "entryCas" => version[idx[p]] = seen'[p]
      BY <2>3 DEF Local, TableInv, Cleared, Passed, Accepts
    <2>4. CASE /\ p = Sweeper /\ stopped /\ pc[p] # "idle" /\ pc'[p] # "entryCas"
               /\ \/ pc'[p] # "idle" /\ idx'[p] = idx[p] + 1
                  \/ pc'[p] = "idle" /\ idx'[p] = idx[p] /\ idx[p] + 1 = NSlots
               /\ \/ Writing(version[idx[p]]) \/ FreeSlot(slot[idx[p]])
                  \/ pc[p] = "entryCas" /\ ~Accepts(p)
      <3>1. Settled(idx[p])
        <4>1. CASE FreeSlot(slot[idx[p]])
          BY <4>1 DEF Settled
        <4>2. CASE Writing(version[idx[p]])
          <5>1. PICK q \in Procs : pc[q] = "write" /\ idx[q] = idx[p]
            BY <4>2, <1>0 DEF TableInv, Sections, Owner
          <5>2. q \in Threads
            BY <5>1, <2>4 DEF Local, Procs
          <5> QED BY <5>1, <5>2 DEF Settled
        <4>3. CASE pc[p] = "entryCas" /\ ~Accepts(p)
          BY <4>3, <2>4, <1>0 DEF TableInv, Cleared, Passed
        <4> QED BY <2>4, <4>1, <4>2, <4>3
      <3>2. i < idx[Sweeper] \/ i = idx[Sweeper]
        BY <2>0, <2>4, SlotsAssumption DEF Passed
      <3> QED BY <3>1, <3>2, <2>4 DEF TableInv, Cleared, Passed
    <2> QED BY <2>1, <2>2, <2>3, <2>4 DEF ClearKept
  <1> QED BY <1>3, <1>4, <1>5, <1>7 DEF Sections

\* An exchange that succeeds opens a write section at an entry that has none.
LEMMA TakingTable ==
    ASSUME TableInv, TypeOK', Roles', NEW p \in Procs, Taking(p)
    PROVE  Sections' /\ Reported' /\ Cleared'
  <1>0. /\ TypeOK /\ Sweeper \in Procs /\ Sweeper \notin Threads /\ Threads \subseteq Procs
        /\ \A q \in Procs : idx[q] \in Slots /\ op[q] \in Ops
        /\ pc \in [Procs -> PCs] /\ version \in [Slots -> Version] /\ new \in [Procs -> Payload]
        /\ left \in [Procs -> SUBSET Words]
    BY SlotsAssumption DEF Procs, TableInv, SeqlockInv, TypeOK
  <1>1. PICK a, f : TakeEntry(p, op[p], a, f)
    BY DEF Taking
  <1>2. /\ UNCHANGED <<slot, idx, op, arg, seen, stopped>>
        /\ pc' = [pc EXCEPT ![p] = "write"]
        /\ left' = [left EXCEPT ![p] = WordsOf(op[p])]
        /\ new' = [new EXCEPT ![p] = Target(op[p], slot[idx[p]], a, f)]
        /\ version' = [version EXCEPT ![idx[p]] = Claimed(version[idx[p]])]
        /\ pc[p] # "write" /\ pc[p] # "idle"
    BY <1>1 DEF Taking, TakeEntry, Goto
  <1>3. /\ pc'[p] = "write" /\ \A q \in Procs \ {p} : pc'[q] = pc[q]
        /\ \A i \in Slots \ {idx[p]} : version'[i] = version[i]
    BY <1>2, <1>0
  <1>4. \A i \in Slots : Owner(i)'
    BY <1>0, <1>2, <1>3 DEF TableInv, Sections, Owner
  <1>5. ASSUME NEW q \in Procs PROVE Frees(q)'
    <2>1. CASE q = p
      BY <2>1, <1>0, <1>2, TargetFrees DEF Frees
    <2>2. CASE q # p
      BY <2>2, <1>0, <1>2, <1>3 DEF TableInv, Sections, Frees
    <2> QED BY <2>1, <2>2
  <1>6. Reported'
    BY <1>2, <1>3 DEF TableInv, Reported
  <1>7. \A i \in Slots : Settled(i) => Settled(i)'
    BY <1>0, <1>2, <1>3 DEF Settled
  <1>9. Cleared'
    <2> SUFFICES ASSUME stopped, NEW i \in Slots, Passed(i)' PROVE Settled(i)'
      BY <1>2 DEF Cleared
    <2>1. CASE Passed(i)
      BY <2>1, <1>7 DEF TableInv, Cleared
    <2>2. CASE ~Passed(i)
      <3>1. pc'[Sweeper] = pc[Sweeper] /\ p # Sweeper
        BY <2>2, <1>2, <1>3 DEF Passed
      <3>2. i = idx[p]
        BY <2>2, <3>1, <1>0, <1>2, <1>3 DEF Passed, Accepts
      <3>3. p \in Threads
        BY <3>1 DEF Procs
      <3> QED BY <3>2, <3>3, <1>2, <1>3 DEF Settled
    <2> QED BY <2>1, <2>2
  <1> QED BY <1>4, <1>5, <1>6, <1>9 DEF Sections

\* A store of a write section: only the sweeper's operations store addresses.
LEMMA StoreTable ==
    ASSUME TableInv, TypeOK', Roles', NEW p \in Procs, NEW w \in Words, StoreWord(p, w)
    PROVE  Sections' /\ Reported' /\ Cleared'
  <1>0. /\ TypeOK /\ Sweeper \in Procs /\ Sweeper \notin Threads /\ Threads \subseteq Procs
        /\ \A q \in Procs : idx[q] \in Slots /\ op[q] \in Ops
        /\ slot \in [Slots -> Payload] /\ left \in [Procs -> SUBSET Words]
        /\ pc[p] = "write" /\ w \in left[p] /\ Role(p) /\ Frees(p)
    BY SlotsAssumption DEF Procs, TableInv, SeqlockInv, TypeOK, StoreWord, Roles, Sections
  <1>1. /\ UNCHANGED <<version, pc, op, idx, arg, seen, new, stopped>>
        /\ slot' = [slot EXCEPT ![idx[p]][w] = new[p][w]]
        /\ left' = [left EXCEPT ![p] = left[p] \ {w}]
    BY DEF StoreWord
  <1>2. /\ \A i \in Slots \ {idx[p]} : slot'[i] = slot[i]
        /\ \A q \in Procs \ {p} : left'[q] = left[q]
        /\ left'[p] = left[p] \ {w}
    BY <1>0, <1>1
  <1>3. slot[idx[p]] \in [Words -> Word]
    BY <1>0 DEF Payload
  <1>4. \A x \in Words : slot'[idx[p]][x] = IF x = w THEN new[p][w] ELSE slot[idx[p]][x]
    BY <1>0, <1>1, <1>3
  <1>5. \A q \in Procs \ {p} : pc[q] = "write" => idx[q] # idx[p]
    BY <1>0 DEF TableInv, SeqlockInv, OneWriter
  <1>6. {"addr", "flags"} \subseteq Words
    BY DEF Words
  <1>7. op[p] \in {"release", "trip", "clear", "rotate", "drain", "claim"}
    BY <1>0, LabelsAre DEF Role, Ops
  <1>8. op[p] \in {"release", "trip", "rotate", "drain"} => w # "addr"
    BY <1>0, TargetFrees DEF Role
  <1>9. ASSUME NEW q \in Procs PROVE Frees(q)'
    <2>1. CASE q = p
      <3>1. w = "flags" => slot'[idx[p]]["flags"] = new[p]["flags"]
        BY <1>4, <1>6
      <3>2. w # "flags" => /\ slot'[idx[p]]["flags"] = slot[idx[p]]["flags"]
                           /\ "flags" \in left[p] => "flags" \in left'[p]
        BY <1>2, <1>4, <1>6
      <3> QED BY <2>1, <3>1, <3>2, <1>0, <1>1 DEF Frees
    <2>2. CASE q # p
      BY <2>2, <1>0, <1>1, <1>2, <1>5 DEF TableInv, Sections, Frees
    <2> QED BY <2>1, <2>2
  <1>10. \A i \in Slots : Owner(i)'
    BY <1>1 DEF TableInv, Sections, Owner
  <1>11. Reported'
    <2> SUFFICES ASSUME NEW q \in Procs, op[q] = "trip", pc[q] # "idle"
                 PROVE  slot'[idx[q]]["addr"] = arg[q]
      BY <1>1 DEF Reported
    <2>1. q = Sweeper /\ slot[idx[q]]["addr"] = arg[q]
      BY DEF TableInv, Roles, Role, Reported, Procs
    <2>2. op[p] = "trip" \/ p \in Threads
      BY <2>1 DEF Procs
    <2>3. w # "addr"
      BY <2>2, <1>7, <1>8, <1>0 DEF Role
    <2>4. CASE idx[q] = idx[p]
      BY <2>1, <2>3, <2>4, <1>4, <1>6
    <2>5. CASE idx[q] # idx[p]
      BY <2>1, <2>5, <1>0, <1>2
    <2> QED BY <2>4, <2>5
  <1>12. ASSUME stopped PROVE \A i \in Slots : Settled(i) => Settled(i)'
    <2>1. op[p] \in {"release", "clear"}
      BY <1>0, <1>7, <1>12 DEF TableInv, Roles, Role, Procs
    <2>2. FreeSlot(slot[idx[p]]) => FreeSlot(slot'[idx[p]])
      <3>1. CASE w = "flags"
        <4>1. "released" \in slot'[idx[p]]["flags"]
          BY <3>1, <2>1, <1>0, <1>4, <1>6 DEF Frees
        <4> QED BY <4>1 DEF FreeSlot
      <3>2. CASE w = "addr"
        <4>1. slot'[idx[p]]["addr"] = NoAddr
          BY <3>2, <2>1, <1>0, <1>4, <1>6, <1>8 DEF Frees
        <4> QED BY <4>1 DEF FreeSlot
      <3>3. CASE w \notin {"flags", "addr"}
        BY <3>3, <1>4, <1>6 DEF FreeSlot
      <3> QED BY <3>1, <3>2, <3>3
    <2>3. ASSUME NEW i \in Slots, Settled(i) PROVE Settled(i)'
      <3>1. CASE FreeSlot(slot[i])
        <4>1. FreeSlot(slot'[i])
          BY <3>1, <2>2, <1>2
        <4> QED BY <4>1 DEF Settled, FreeSlot
      <3>2. CASE \E t \in Threads : pc[t] = "write" /\ idx[t] = i
        BY <3>2, <1>1 DEF Settled
      <3> QED BY <2>3, <3>1, <3>2 DEF Settled
    <2> QED BY <2>3
  <1>13. Cleared'
    <2> SUFFICES ASSUME stopped, NEW i \in Slots, Passed(i)' PROVE Settled(i)'
      BY <1>1 DEF Cleared
    <2>1. Passed(i)
      BY <1>1 DEF Passed, Accepts
    <2> QED BY <2>1, <1>12 DEF TableInv, Cleared
  <1> QED BY <1>9, <1>10, <1>11, <1>13 DEF Sections

\* A publication ends the one section at its entry; when Shutdown has begun, the
\* entry is free then.
LEMMA PublishTable ==
    ASSUME TableInv, TypeOK', Roles', NEW p \in Procs, Publish(p)
    PROVE  Sections' /\ Reported' /\ Cleared'
  <1>0. /\ TypeOK /\ Sweeper \in Procs /\ Sweeper \notin Threads /\ Threads \subseteq Procs
        /\ Slots \subseteq Nat /\ \A q \in Procs : idx[q] \in Slots /\ op[q] \in Ops
        /\ pc \in [Procs -> PCs] /\ version \in [Slots -> Version]
        /\ idx \in [Procs -> Slots]
        /\ pc[p] = "write" /\ left[p] = {} /\ Role(p) /\ Frees(p)
    BY SlotsAssumption DEF Procs, TableInv, SeqlockInv, TypeOK, Publish, Roles, Sections, Slots
  <1>1. /\ UNCHANGED <<slot, op, arg, seen, left, new, stopped>>
        /\ version' = [version EXCEPT ![idx[p]] = Published(version[idx[p]])]
    BY DEF Publish
  <1>2. /\ \A q \in Procs \ {p} : pc'[q] = pc[q] /\ idx'[q] = idx[q]
        /\ pc'[p] \in {"clearVersion", "read", "idle"}
    BY <1>0, NextEntryQuiet DEF Publish, Goto, At
  <1>3. /\ ~Writing(version'[idx[p]])
        /\ \A i \in Slots \ {idx[p]} : version'[i] = version[i]
    BY <1>0, <1>1 DEF Writing, Published
  <1>4. \A q \in Procs \ {p} : pc[q] = "write" => idx[q] # idx[p]
    BY <1>0 DEF TableInv, SeqlockInv, OneWriter
  <1>5. \A i \in Slots : Owner(i)'
    <2> SUFFICES ASSUME NEW i \in Slots, Writing(version'[i])
                 PROVE  \E q \in Procs : pc'[q] = "write" /\ idx'[q] = i
      BY DEF Owner
    <2>1. i # idx[p] /\ Writing(version[i])
      BY <1>3
    <2>2. PICK q \in Procs : pc[q] = "write" /\ idx[q] = i
      BY <2>1 DEF TableInv, Sections, Owner
    <2> QED BY <2>1, <2>2, <1>2
  <1>6. ASSUME NEW q \in Procs PROVE Frees(q)'
    BY <1>1, <1>2, <1>6 DEF TableInv, Sections, Frees
  <1>7. Reported'
    <2> SUFFICES ASSUME NEW q \in Procs, op[q] = "trip", pc'[q] # "idle"
                 PROVE  slot[idx'[q]]["addr"] = arg[q]
      BY <1>1 DEF Reported
    <2>1. q # p
      BY DEF Publish, Goto, TypeOK, TableInv, SeqlockInv
    <2> QED BY <2>1, <1>2 DEF TableInv, Reported
  <1>8. ASSUME stopped PROVE FreeSlot(slot[idx[p]])
    <2>1. op[p] \in {"release", "clear"}
      BY <1>0, <1>8, LabelsAre DEF TableInv, Roles, Role, Procs
    <2> QED BY <2>1, <1>0 DEF Frees, FreeSlot
  <1>9. ASSUME stopped, NEW i \in Slots, Settled(i) PROVE Settled(i)'
    <2>1. CASE FreeSlot(slot[i])
      BY <2>1, <1>1 DEF Settled
    <2>2. CASE i = idx[p]
      BY <2>2, <1>8, <1>9, <1>1 DEF Settled
    <2>3. CASE ~FreeSlot(slot[i]) /\ i # idx[p]
      BY <2>3, <1>9, <1>0, <1>2 DEF Settled
    <2> QED BY <2>1, <2>2, <2>3
  <1>10. Cleared'
    <2> SUFFICES ASSUME stopped, NEW i \in Slots, Passed(i)' PROVE Settled(i)
      BY <1>1, <1>9 DEF Cleared
    <2>0. i = idx[p] => Settled(i)
      BY <1>8 DEF Settled
    <2>1. CASE p # Sweeper
      <3>1. pc'[Sweeper] = pc[Sweeper] /\ idx'[Sweeper] = idx[Sweeper]
        BY <2>1, <1>0, <1>2
      <3>2. i # idx[p] => Passed(i)
        BY <3>1, <1>0, <1>1, <1>3 DEF Passed, Accepts
      <3> QED BY <2>0, <3>2 DEF TableInv, Cleared
    <2>2. CASE p = Sweeper
      <3>1. op[p] = "clear"
        BY <2>2 DEF TableInv, Roles
      <3>2. NextEntry(p, "clearVersion")
        BY <3>1 DEF Publish
      <3>3. \/ pc'[p] = "clearVersion" /\ idx'[p] = idx[p] + 1
            \/ pc'[p] = "idle" /\ idx'[p] = idx[p] /\ idx[p] + 1 = NSlots
        BY <3>2, <1>0, NextEntryMoves
      <3>4. i \in Nat /\ idx[p] \in Nat /\ i < NSlots
        BY <1>0, SlotsAssumption DEF Slots
      <3>5. i < idx[p] \/ i = idx[p]
        BY <3>3, <3>4, <2>2, SlotsAssumption DEF Passed
      <3> QED BY <2>0, <2>2, <3>5 DEF TableInv, Cleared, Passed
    <2> QED BY <2>1, <2>2
  <1> QED BY <1>5, <1>6, <1>7, <1>10 DEF Sections

\* Every step preserves them.
LEMMA NextTable == TableInv /\ [Next]_vars => TableInv'
  <1> SUFFICES ASSUME TableInv, [Next]_vars PROVE TableInv'
    OBVIOUS
  <1>0. SeqlockInv /\ Roles /\ TypeOK
    BY DEF TableInv, SeqlockInv
  <1>1. SeqlockInv' /\ Roles' /\ TypeOK'
    BY <1>0, NextInv, NextRoles DEF SeqlockInv
  <1>2. CASE UNCHANGED vars
    <2>1. Sections'
      BY <1>2 DEF TableInv, vars, Sections, Owner, Frees
    <2>2. Reported' /\ Cleared'
      BY <1>2 DEF TableInv, vars, Reported, Cleared, Passed, Settled, Accepts
    <2> QED BY <2>1, <2>2, <1>1 DEF TableInv
  <1>3. ASSUME NEW p \in Procs, Local(p), TripKept(p), ClearKept(p), p = Sweeper \/ stopped' = stopped
        PROVE  TableInv'
    BY <1>1, <1>3, LocalTable DEF TableInv
  <1>4. ASSUME NEW p \in Procs, Taking(p) PROVE TableInv'
    BY <1>1, <1>4, TakingTable DEF TableInv
  <1>5. ASSUME NEW p \in Procs, NEW w \in Words, StoreWord(p, w) PROVE TableInv'
    BY <1>1, <1>5, StoreTable DEF TableInv
  <1>6. ASSUME NEW p \in Procs, Publish(p) PROVE TableInv'
    BY <1>1, <1>6, PublishTable DEF TableInv
  <1> QED BY <1>0, <1>2, <1>3, <1>4, <1>5, <1>6, StepKinds

\* The specification keeps them.
LEMMA SpecTable == Spec => []TableInv
  BY InitTable, NextTable, PTL DEF Spec

\* A drained report disarms the reported block's own slot: between the re-check
\* of the index and MarkTripped's store nobody can re-use the entry, because only
\* the sweeper, who drains, claims.
THEOREM SpecTripMarksReported == Spec => []TripMarksReported
  <1>1. TableInv => TripMarksReported
    BY DEF TableInv, Reported, TripMarksReported
  <1> QED BY <1>1, SpecTable, PTL

\* When ClearAll and the releases in flight are done, no slot is held by a block,
\* although ClearAll passes by what is being written and what it loses.
THEOREM SpecShutdownFreesAll == Spec => []ShutdownFreesAll
  <1>1. TableInv => ShutdownFreesAll
    <2> SUFFICES ASSUME TableInv, stopped, \A p \in Procs : pc[p] = "idle", NEW i \in Slots
                 PROVE  FreeSlot(slot[i])
      BY DEF ShutdownFreesAll, FreeSlot
    <2>1. Settled(i)
      BY DEF TableInv, Cleared, Passed, Procs
    <2> QED BY <2>1 DEF Settled, Procs
  <1> QED BY <1>1, SpecTable, PTL
=============================================================================
