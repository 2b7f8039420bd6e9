-------------------------- MODULE PoisonQuarantine --------------------------
(* The poison-on-free quarantine (Core/PoisonQuarantine.cpp) with the hooks    *)
(* that fill and drain it (Hooks.cpp: hk_SfFree, TryPoisonOnFree,              *)
(* DrainOneQuarantined, hk_SfAlloc).  A freed Scaleform block is not given back*)
(* but poisoned and kept in a ring; the free hook of any thread that is over   *)
(* budget really frees the oldest blocks.                                      *)
(*                                                                             *)
(* One step is one access to shared memory.  The game frees only blocks it     *)
(* owns, once.  The shadow ledger is reduced to one word per block.            *)
EXTENDS Naturals, FiniteSets, FiniteSetsExt

CONSTANTS Threads, Blocks,
          NoBlock,          \* an empty record
          Capacity,         \* _capacity
          Size(_),          \* block -> its size
          WordSize,         \* std::size_t counts modulo this
          ReserveAttempts,  \* 64 in Reserve
          MaxDrains,        \* 1 << 20 in TryPoisonOnFree
          Setups            \* the situations Init chooses from

\* A situation: the threads that allocate and free (all may fault), _maxBytes (0:
\* no byte budget), whether a heap may be gone when its block is drained, and the
\* bounds on frees, faults and thread deaths.
Situation == [hooked : SUBSET Threads, maxBytes : Nat, heapsDie : BOOLEAN,
              frees : Nat, faults : Nat, deaths : Nat]

ASSUME QuarantineAssumption ==
    /\ IsFiniteSet(Threads) /\ NoBlock \notin Blocks
    /\ {Capacity, ReserveAttempts, MaxDrains, WordSize} \subseteq Nat \ {0}
    /\ \A b \in Blocks : Size(b) \in Nat
    /\ \A x \in Setups : x \in Situation
\* The blocks are disjoint parts of one address space, whose bytes std::size_t counts.
ASSUME AddressSpace == IsFiniteSet(Blocks) /\ MapThenSumSet(Size, Blocks) < WordSize

Indexes == 1 .. Capacity
Words == {"ptr", "rest"}               \* a QuarantineRecord is two words

VARIABLES
    setup,   \* the situation
    q,       \* the cursors and counters
    slot,    \* index -> version and record; a word holds the block it is about
    mem,     \* block -> who owns it
    poison,  \* block -> the poison index in its first qword, 0: none
    ledger,  \* block -> its ledger record
    me,      \* thread -> the locals of its hook
    used     \* what the bounds count
vars == <<setup, q, slot, mem, poison, ledger, me, used>>

Version == [seq : Nat, writing : BOOLEAN]
Quarantine == [write : Nat, read : Nat, seq : Nat, bytes : 0 .. WordSize - 1, evictions : Nat]
Slot == [version : Version, rec : [Words -> Blocks \cup {NoBlock}]]
\* live: the game's; hook: a hook call's; held: withheld; free: the
\* allocator's; leaked: refused by the drain.
Owners == {"live", "hook", "held", "free", "leaked"}
Local == [pc : {"idle", "count", "countRead", "bytes", "popRead", "popWrite", "v1", "copy", "v2",
                "popCas", "popBytes", "popSub", "drain", "reserve", "reserveRead", "reserveCas",
                "poison", "seq", "odd", "copyIn", "even", "addBytes", "markHeld", "markFreed",
                "free", "record", "dead"},
          fault : BOOLEAN,                          \* the exception handler's GetSlot
          block : Blocks \cup {NoBlock}, admitted : BOOLEAN, drains : Nat, attempt : Nat,
          r : Nat, w : Nat, index : {0} \cup Indexes, v1 : Version, seq : Nat,
          copy : [Words -> Blocks \cup {NoBlock}], have : BOOLEAN, sub : Nat, left : SUBSET Words]

NoVersion == [seq |-> 0, writing |-> FALSE]
NoRecord == [x \in Words |-> NoBlock]
Idle == [pc |-> "idle", fault |-> FALSE, block |-> NoBlock, admitted |-> FALSE, drains |-> 0,
         attempt |-> 0, r |-> 0, w |-> 0, index |-> 0, v1 |-> NoVersion, seq |-> 0,
         copy |-> NoRecord, have |-> FALSE, sub |-> 0, left |-> {}]
IndexOf(cursor) == (cursor % Capacity) + 1

Init ==
    /\ setup \in Setups
    /\ q = [write |-> 0, read |-> 0, seq |-> 0, bytes |-> 0, evictions |-> 0]
    /\ slot = [i \in Indexes |-> [version |-> NoVersion, rec |-> NoRecord]]
    /\ mem = [b \in Blocks |-> "live"]
    /\ poison = [b \in Blocks |-> 0]
    /\ ledger = [b \in Blocks |-> "live"]
    /\ me = [t \in Threads |-> Idle]
    /\ used = [frees |-> 0, faults |-> 0, deaths |-> 0]

Goto(t, l) == me' = [me EXCEPT ![t].pc = l]
Return(t) == me' = [me EXCEPT ![t] = Idle]

(***************************************************************************)
(* hk_SfAlloc: the original, then the ledger record                        *)
(***************************************************************************)
HkSfAlloc(t, b) ==
    /\ me[t].pc = "idle" /\ mem[b] = "free" /\ used.frees < setup.frees
    /\ \A u \in Threads : ~(me[u].pc = "record" /\ me[u].block = b)
    /\ me' = [me EXCEPT ![t].pc = "record", ![t].block = b]
    /\ mem' = [mem EXCEPT ![b] = "hook"]    \* the hook's until it returns
    /\ poison' = [poison EXCEPT ![b] = 0]      \* the constructor's vtable
    /\ UNCHANGED <<setup, q, slot, ledger, used>>

\* Mutant: an address that has a record keeps it.
RecordScaleformAllocKeep(t) ==
    /\ me[t].pc = "record"
    /\ mem' = [mem EXCEPT ![me[t].block] = "live"]
    /\ Return(t)
    /\ UNCHANGED <<setup, q, slot, poison, ledger, used>>

RecordScaleformAlloc(t) ==
    /\ me[t].pc = "record"
    /\ ledger' = [ledger EXCEPT ![me[t].block] = "live"]
    /\ mem' = [mem EXCEPT ![me[t].block] = "live"]
    /\ Return(t)
    /\ UNCHANGED <<setup, q, slot, poison, used>>

(***************************************************************************)
(* hk_SfFree and the budget                                                *)
(***************************************************************************)
\* A block the ledger says is freed is reported and freed at once; one that is
\* too small or unreadable is freed at once.
HkSfFree(t, b) ==
    /\ me[t].pc = "idle" /\ mem[b] = "live" /\ used.frees < setup.frees
    /\ used' = [used EXCEPT !.frees = @ + 1]
    /\ mem' = [mem EXCEPT ![b] = "hook"]
    /\ \/ /\ ledger[b] = "freed"
          /\ me' = [me EXCEPT ![t].block = b, ![t].pc = "free"]
       \/ /\ ledger[b] # "freed"
          /\ \E l \in {"count", "markFreed"} : me' = [me EXCEPT ![t].block = b, ![t].pc = l]
    /\ UNCHANGED <<setup, q, slot, poison, ledger>>

\* OverBudget and the loads of Count
LoadCountWrite(t) ==
    /\ me[t].pc = "count"
    /\ me' = [me EXCEPT ![t].w = q.write, ![t].pc = "countRead"]
    /\ UNCHANGED <<setup, q, slot, mem, poison, ledger, used>>

LoadCountRead(t) ==
    /\ me[t].pc = "countRead"
    /\ me' = [me EXCEPT ![t].r = q.read, ![t].pc = "bytes"]
    /\ UNCHANGED <<setup, q, slot, mem, poison, ledger, used>>

OverBudget(m, bytes) ==
    \/ m.w > m.r /\ m.w - m.r >= Capacity
    \/ setup.maxBytes # 0 /\ (bytes + Size(m.block)) % WordSize > setup.maxBytes

\* TryPoisonOnFree's loop: drain while over budget, then look once more.
Budget(t) ==
    /\ me[t].pc = "bytes"
    /\ LET m == me[t] IN
       \/ /\ ~m.admitted /\ OverBudget(m, q.bytes) /\ m.drains < MaxDrains
          /\ Goto(t, "popRead")
       \/ /\ ~m.admitted /\ ~(OverBudget(m, q.bytes) /\ m.drains < MaxDrains)
          /\ me' = [me EXCEPT ![t].admitted = TRUE, ![t].pc = "count"]
       \/ m.admitted /\ OverBudget(m, q.bytes) /\ Goto(t, "markFreed")
       \/ m.admitted /\ ~OverBudget(m, q.bytes) /\ Goto(t, "reserve")
    /\ UNCHANGED <<setup, q, slot, mem, poison, ledger, used>>

(***************************************************************************)
(* PopOldest, and GetSlot, which reads a slot the same way                 *)
(***************************************************************************)
LoadPopRead(t) ==
    /\ me[t].pc = "popRead"
    /\ me' = [me EXCEPT ![t].r = q.read, ![t].pc = "popWrite"]
    /\ UNCHANGED <<setup, q, slot, mem, poison, ledger, used>>

\* An empty ring ends the drain loop.
LoadPopWrite(t) ==
    /\ me[t].pc = "popWrite"
    /\ LET r == me[t].r IN
       me' = [me EXCEPT ![t] = IF r >= q.write
                               THEN [@ EXCEPT !.admitted = TRUE, !.pc = "count"]
                               ELSE [@ EXCEPT !.index = IndexOf(r), !.have = FALSE, !.pc = "v1"]]
    /\ UNCHANGED <<setup, q, slot, mem, poison, ledger, used>>

\* A slot is read unless it is being written or was never published.
Readable(v) == ~v.writing /\ v.seq # 0

LoadV1(t) ==
    /\ me[t].pc = "v1"
    /\ LET v == slot[me[t].index].version IN
       me' = [me EXCEPT ![t] =
                IF Readable(v) THEN [@ EXCEPT !.v1 = v, !.left = Words, !.pc = "copy"]
                ELSE IF @.fault THEN Idle ELSE [@ EXCEPT !.pc = "popCas"]]
    /\ UNCHANGED <<setup, q, slot, mem, poison, ledger, used>>

CopyOut(t) ==
    /\ me[t].pc = "copy"
    /\ \E x \in me[t].left :
        me' = [me EXCEPT ![t].copy[x] = slot[me[t].index].rec[x], ![t].left = @ \ {x},
                         ![t].pc = IF me[t].left = {x} THEN "v2" ELSE @]
    /\ UNCHANGED <<setup, q, slot, mem, poison, ledger, used>>

\* Mutant: the version is compared with the writer's word.
AcceptsOdd(m) == slot[m.index].version = [m.v1 EXCEPT !.writing = TRUE]
Accepts(m) == slot[m.index].version = m.v1

LoadV2(t) ==
    /\ me[t].pc = "v2"
    /\ me' = [me EXCEPT ![t] = IF @.fault THEN Idle
                               ELSE [@ EXCEPT !.have = Accepts(me[t]), !.pc = "popCas"]]
    /\ UNCHANGED <<setup, q, slot, mem, poison, ledger, used>>

\* Mutants: the cursor stays; an unpublished reservation is waited for.
PopCasKeep(t) ==
    /\ me[t].pc = "popCas" /\ Goto(t, IF me[t].have THEN "popBytes" ELSE "popRead")
    /\ UNCHANGED <<setup, q, slot, mem, poison, ledger, used>>
PopCasWait(t) ==
    /\ me[t].pc = "popCas"
    /\ q' = IF q.read = me[t].r /\ me[t].have THEN [q EXCEPT !.read = @ + 1] ELSE q
    /\ Goto(t, IF q.read = me[t].r /\ me[t].have THEN "popBytes" ELSE "popRead")
    /\ UNCHANGED <<setup, slot, mem, poison, ledger, used>>

\* The reservation is consumed by one drainer; an unreadable one is skipped.
PopCas(t) ==
    /\ me[t].pc = "popCas"
    /\ IF q.read = me[t].r
       THEN /\ q' = [q EXCEPT !.read = @ + 1]
            /\ Goto(t, IF me[t].have THEN "popBytes" ELSE "popRead")
       ELSE UNCHANGED q /\ Goto(t, "popRead")
    /\ UNCHANGED <<setup, slot, mem, poison, ledger, used>>

\* Mutant: the larger of the two.
SubtrahendMax(size, bytes) == IF size < bytes THEN bytes ELSE size
\* No more is subtracted than is there, as far as one load tells.
Subtrahend(size, bytes) == IF size < bytes THEN size ELSE bytes

LoadPopBytes(t) ==
    /\ me[t].pc = "popBytes"
    /\ me' = [me EXCEPT ![t].sub = Subtrahend(Size(me[t].copy["rest"]), q.bytes),
                        ![t].pc = "popSub"]
    /\ UNCHANGED <<setup, q, slot, mem, poison, ledger, used>>

PopSub(t) ==
    /\ me[t].pc = "popSub"
    /\ q' = [q EXCEPT !.bytes = (WordSize + @ - me[t].sub) % WordSize, !.evictions = @ + 1]
    /\ Goto(t, "drain")
    /\ UNCHANGED <<setup, slot, mem, poison, ledger, used>>

\* DrainOneQuarantined: the real free, or a leak when the heap is gone.
Drain(t) ==
    /\ me[t].pc = "drain"
    /\ \E fate \in {"free"} \cup (IF setup.heapsDie THEN {"leaked"} ELSE {}) :
        mem' = [mem EXCEPT ![me[t].copy["ptr"]] = fate]
    /\ me' = [me EXCEPT ![t].drains = @ + 1, ![t].copy = NoRecord, ![t].have = FALSE,
                        ![t].pc = "count"]
    /\ UNCHANGED <<setup, q, slot, poison, ledger, used>>

(***************************************************************************)
(* Reserve, the poison and Publish                                         *)
(***************************************************************************)
LoadReserveWrite(t) ==
    /\ me[t].pc = "reserve"
    /\ me' = [me EXCEPT ![t].w = q.write, ![t].pc = "reserveRead"]
    /\ UNCHANGED <<setup, q, slot, mem, poison, ledger, used>>

\* Mutant: one more than the ring holds.
RingFullLate(w, read) == read > w \/ w - read > Capacity
\* Unsigned w - read: huge when other threads have moved read past w.
RingFull(w, read) == read > w \/ w - read >= Capacity

LoadReserveRead(t) ==
    /\ me[t].pc = "reserveRead"
    /\ Goto(t, IF RingFull(me[t].w, q.read) THEN "markFreed" ELSE "reserveCas")
    /\ UNCHANGED <<setup, q, slot, mem, poison, ledger, used>>

ReserveCas(t) ==
    /\ me[t].pc = "reserveCas"
    /\ IF q.write = me[t].w
       THEN /\ q' = [q EXCEPT !.write = @ + 1]
            /\ me' = [me EXCEPT ![t].index = IndexOf(me[t].w), ![t].pc = "poison"]
       ELSE /\ UNCHANGED q
            /\ me' = [me EXCEPT ![t].attempt = @ + 1, ![t].pc =
                        IF me[t].attempt + 1 < ReserveAttempts THEN "reserve" ELSE "markFreed"]
    /\ UNCHANGED <<setup, slot, mem, poison, ledger, used>>

\* Mutant: the 0-based index of the next slot.
PoisonBlockNext(t) ==
    /\ me[t].pc = "poison"
    /\ poison' = [poison EXCEPT ![me[t].block] = (me[t].index % Capacity) + 1]
    /\ Goto(t, "seq")
    /\ UNCHANGED <<setup, q, slot, mem, ledger, used>>

\* "Poison first, publish second".
PoisonBlock(t) ==
    /\ me[t].pc = "poison"
    /\ poison' = [poison EXCEPT ![me[t].block] = me[t].index]
    /\ Goto(t, "seq")
    /\ UNCHANGED <<setup, q, slot, mem, ledger, used>>

TakeSeq(t) ==
    /\ me[t].pc = "seq"
    /\ q' = [q EXCEPT !.seq = @ + 1]
    /\ me' = [me EXCEPT ![t].seq = q.seq + 1, ![t].pc = "odd"]
    /\ UNCHANGED <<setup, slot, mem, poison, ledger, used>>

StoreOdd(t) ==
    /\ me[t].pc = "odd"
    /\ slot' = [slot EXCEPT ![me[t].index].version = [seq |-> me[t].seq, writing |-> TRUE]]
    /\ me' = [me EXCEPT ![t].left = Words, ![t].pc = "copyIn"]
    /\ UNCHANGED <<setup, q, mem, poison, ledger, used>>

CopyIn(t) ==
    /\ me[t].pc = "copyIn"
    /\ \E x \in me[t].left :
        /\ slot' = [slot EXCEPT ![me[t].index].rec[x] = me[t].block]
        /\ me' = [me EXCEPT ![t].left = @ \ {x}, ![t].pc = IF me[t].left = {x} THEN "even" ELSE @]
    /\ UNCHANGED <<setup, q, mem, poison, ledger, used>>

\* From here on the block is the quarantine's.
StoreEven(t) ==
    /\ me[t].pc = "even"
    /\ slot' = [slot EXCEPT ![me[t].index].version = [seq |-> me[t].seq, writing |-> FALSE]]
    /\ mem' = [mem EXCEPT ![me[t].block] = "held"]
    /\ Goto(t, "addBytes")
    /\ UNCHANGED <<setup, q, poison, ledger, used>>

AddBytes(t) ==
    /\ me[t].pc = "addBytes"
    /\ q' = [q EXCEPT !.bytes = (@ + Size(me[t].block)) % WordSize]
    /\ Goto(t, "markHeld")
    /\ UNCHANGED <<setup, slot, mem, poison, ledger, used>>

(***************************************************************************)
(* What hk_SfFree does after TryPoisonOnFree                               *)
(***************************************************************************)
\* Withheld: the ledger is told last.
MarkHeld(t) ==
    /\ me[t].pc = "markHeld"
    /\ ledger' = [ledger EXCEPT ![me[t].block] = "freed"]
    /\ Return(t)
    /\ UNCHANGED <<setup, q, slot, mem, poison, used>>

\* Not withheld: the ledger is told before the original free.
MarkFreed(t) ==
    /\ me[t].pc = "markFreed"
    /\ ledger' = [ledger EXCEPT ![me[t].block] = "freed"]
    /\ Goto(t, "free")
    /\ UNCHANGED <<setup, q, slot, mem, poison, used>>

SfFree(t) ==
    /\ me[t].pc = "free"
    /\ mem' = [mem EXCEPT ![me[t].block] = "free"]
    /\ Return(t)
    /\ UNCHANGED <<setup, q, slot, poison, ledger, used>>

\* The game calls through the first qword of a withheld block: DecodeFault
\* gives the poison index back, GetSlot reads its record.
Fault(t, b) ==
    /\ me[t].pc = "idle" /\ mem[b] = "held" /\ poison[b] # 0 /\ used.faults < setup.faults
    /\ used' = [used EXCEPT !.faults = @ + 1]
    /\ me' = [me EXCEPT ![t].fault = TRUE, ![t].block = b, ![t].index = poison[b], ![t].pc = "v1"]
    /\ UNCHANGED <<setup, q, slot, mem, poison, ledger>>

Die(t) ==
    /\ me[t].pc \notin {"idle", "dead"} /\ used.deaths < setup.deaths
    /\ used' = [used EXCEPT !.deaths = @ + 1]
    /\ me' = [me EXCEPT ![t].pc = "dead"]
    /\ UNCHANGED <<setup, q, slot, mem, poison, ledger>>

Pop(t) == \/ LoadPopRead(t) \/ LoadPopWrite(t) \/ LoadV1(t) \/ CopyOut(t) \/ LoadV2(t)
          \/ PopCas(t) \/ LoadPopBytes(t) \/ PopSub(t) \/ Drain(t)
Reserve(t) == LoadReserveWrite(t) \/ LoadReserveRead(t) \/ ReserveCas(t)
Publish(t) == TakeSeq(t) \/ StoreOdd(t) \/ CopyIn(t) \/ StoreEven(t) \/ AddBytes(t)
Step(t) == \/ LoadCountWrite(t) \/ LoadCountRead(t) \/ Budget(t) \/ Pop(t) \/ Reserve(t)
           \/ PoisonBlock(t) \/ Publish(t) \/ MarkHeld(t) \/ MarkFreed(t) \/ SfFree(t)
           \/ RecordScaleformAlloc(t)
Finished ==
    /\ \A t \in Threads : me[t].pc \in {"idle", "dead"}
    /\ \/ used.frees = setup.frees \/ \A t \in setup.hooked : me[t].pc = "dead"
       \/ \A b \in Blocks : mem[b] \notin {"live", "free"}
    /\ UNCHANGED vars
Next == \/ \E t \in setup.hooked, b \in Blocks : HkSfAlloc(t, b) \/ HkSfFree(t, b)
        \/ \E t \in Threads, b \in Blocks : Fault(t, b)
        \/ \E t \in Threads : Step(t) \/ Die(t)
        \/ Finished
Spec == Init /\ [][Next]_vars

\* The scheduler runs every thread that was not terminated; nobody must call.
FairSpec == Spec /\ \A t \in Threads : WF_vars(Step(t))

(***************************************************************************)
(* Properties                                                              *)
(***************************************************************************)
\* The reservations outstanding are never more than the ring has slots, and no
\* drain passes them, although Reserve and PopOldest read the two cursors at
\* different times.
CursorsBounded == q.read <= q.write /\ q.write <= q.read + Capacity

Popped(t) == me[t].pc \in {"popBytes", "popSub", "drain"}
InSlot(b, i) == Readable(slot[i].version) /\ slot[i].rec = [x \in Words |-> b]

\* PopOldest gives out the "oldest still-held block", each to one drainer: the
\* real free is not repeated.
DrainsHeld ==
    \A t \in Threads : Popped(t) =>
        /\ me[t].copy["ptr"] \in Blocks /\ mem[me[t].copy["ptr"]] = "held"
        /\ \A u \in Threads : Popped(u) /\ me[u].copy["ptr"] = me[t].copy["ptr"] => u = t

\* The following hold when one thread frees (its faults and those of others
\* included); README, section 6, says what two do.
OneFreer == Cardinality(setup.hooked) = 1

\* With one freeing thread no block is really freed twice, however far the ring
\* wraps.
DrainsHeldAlone == OneFreer => DrainsHeld

\* The real free is delayed, never skipped: a withheld block is in the part of
\* the ring that will be drained, or in a drainer's hands.
NoneSkipped ==
    OneFreer => \A b \in Blocks : mem[b] = "held" =>
        \/ \E n \in q.read .. q.write - 1 : InSlot(b, IndexOf(n))
        \/ \E t \in Threads : Popped(t) /\ me[t].copy["ptr"] = b

\* Between calls the byte account is the size of what is held, so an empty
\* quarantine admits blocks again.
BytesExact ==
    OneFreer /\ (\A t \in Threads : me[t].pc = "idle") =>
        q.bytes = MapThenSumSet(Size, {b \in Blocks : mem[b] = "held"})

\* The poison in a withheld block leads to the block's own record, and a lookup
\* of it that accepts its copy, whatever is freed meanwhile, has a whole record.
PoisonLeadsToRecord ==
    OneFreer =>
      /\ \A b \in Blocks : mem[b] = "held" => poison[b] # 0 /\ InSlot(b, poison[b])
      /\ \A t \in Threads : me[t].pc = "v2" /\ Accepts(me[t]) =>
            me[t].copy["ptr"] = me[t].copy["rest"]

\* A block the game owns is not recorded as freed: its free would be reported as
\* a double free.
LiveNotMarkedFreed == OneFreer => \A b \in Blocks : mem[b] = "live" => ledger[b] = "live"

\* Every hook call and every lookup returns, also when a thread was terminated
\* between its reservation and its publication.
CallReturns == \A t \in Threads : me[t].pc \notin {"idle", "dead"} ~> me[t].pc \in {"idle", "dead"}
=============================================================================
