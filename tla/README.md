# HeapSentinel: TLA+ models and proofs

HeapSentinel is a heap diagnostics plugin for a game process. It hooks the
game's allocators, remembers allocations and frees in lock-free tables, poisons
freed Scaleform blocks, arms the CPU's four debug registers on freshly allocated
blocks, and explains faults from what it remembers. It must not lock, allocate or
block on the hooked paths, so almost all of its state is shared between threads
under hand-written seqlock and ring protocols. Those protocols are what this
project models.

## 1. Inventory

| Component | State | Operations | Interaction | What makes it correct |
|---|---|---|---|---|
| Shadow ledger (`Core/ShadowLedger`) | hashed shards of versioned entries | Insert, Find, Erase, InsertAtVictim | every allocation hook inserts, every free hook marks or erases, VEH and reports read | a torn read yields "unknown", never a wrong record; one entry per key |
| Scaleform free ring, weak-lib events (`ScaleformFreeRing`, `WeakLibEvents`) | overwriting rings, head counter, Bloom filter | Record, Find | free hooks write, fault attribution and the watchpoint drainer search | a hit is a whole record of the address asked for |
| Poison quarantine (`PoisonQuarantine`, `Hooks.cpp` hk_SfFree) | FIFO of poisoned blocks with a byte budget | Reserve, Publish, PopOldest | free hooks of all threads enqueue and drain | every block is really freed once, "only delayed, never skipped" |
| Watchpoint candidates (`WatchpointPlan`) | overwriting queue of candidates | Consider, PopCandidate | allocation hook writes, sweeper pops | a candidate popped is one that was offered; losses are counted |
| Watchpoint slots (`WatchpointSlots`) | four versioned slots | Claim, Release, MarkTripped, RotateOldest, Snapshot, ReadSlot, ClearAll | sweeper, free hook, trap handler | one writer per slot, whole reads, only free slots taken |
| Watchpoint reports (`WatchpointReports`) | ring of trap reports | Record, Drain | trap handler writes, sweeper drains | no torn report, losses counted |
| Watchpoint manager (`Watchpoints`, `HwWatchpoint`, `WatchpointEncoding`) | per-thread arm records, generation, debug registers | sweep, arm, trap handling, drain, shutdown | everything above | every trap we cause is consumed, no register stays armed after shutdown |
| Allocation hooks (`Hooks`, `FreeReentrancy`, `FreePolicy`, `AllocatorConfidence`, `FreeEvidence`) | thread-local free stack, confidence | hk_* | drive all tables | no false double-free verdict, no lost free, a free record never of the next block |
| Guarded pool (`GuardedPool`) | guard-paged slots, quarantine | Allocate, Deallocate, OnFault | hooks and VEH | memory handed out is exclusive; quarantined memory faults |
| Bloom filter (`BloomFilter`) | two halves that age | Add, MightContain, ForceAge | ledger and free ring pre-filter | a key in the window is never denied |
| Fault handling (`Veh`, `Verdict`, `Report`) | reports | HandleException, BuildVerdict | reads every table | provenance order |
| Hook installation (`HookVerifier`, `HookTable`, `InstallHooks`, `Health`) | hook state, health | verify, install, remove | before everything | all targets verified before one is patched; GREEN only if nothing is missing |
| Trace rings (`Ipc/ShmRing`) | per-thread rings in shared memory | Claim, Publish, Release, DrainAll | game threads write, helper process drains | one writer per ring, no torn record, losses counted, a helper may be replaced |
| Session (`Ipc/ShmSession`, `ShmLayout`, `Sampling`) | mapping header, heartbeats | Create, Attach, Beat | game and helper | layout agreed before any field is read |

What is hard: every table is written by any game thread, read by the exception
handler, and swept by a background thread, with no lock anywhere; readers decide
by re-reading a version word; writers give up after a bounded number of
attempts; rings overwrite; threads may be killed or may trap in the middle of an
operation. `PROJECT.json` lists the hazards line by line.

## 2. Plan

In the order of what matters most to the program:

1. `WatchpointSlots` (seqlock table) - done, its five invariants proved.
2. `ShmRing` (producer, consumer, re-claim), with the helper's attach, death and
   replacement - done, all invariants proved.
3. `ShadowLedger` entry protocol, and that it implements the map `LedgerMap` while
   one thread writes - done, both proved; its stack store is left.
4. `PoisonQuarantine` with the hooks that fill and drain it - done, all invariants proved.
5. The overwriting rings: `RecordRing` with `FreeRing` (searched) and `ReportRing`
   (drained), and the candidate queue `CandidateRing` - done, all invariants proved.
6. `Watchpoints`, the manager: sweep, arm, trap, drain and shutdown over the slot
   table - done, all safety properties proved.
7. `HookInstall`, `Hooks` and `FaultHandler`: start-up, the allocation hooks over the
   map of step 3, and the access-violation handler beside them - done, all invariants
   proved.
8. Left, with the reasons in section 7: the guarded pool and the encoding of the debug
   registers; `PoisonQuarantine` composed with `FaultHandler`, for the verdicts with
   poison-on-free.

What is left to prove is liveness, out of the provers' reach (end of section 5).

## 3. Modules and their correspondence to the code

`PROJECT.json` maps every definition to its lines. In the table modules one step is one
access to shared memory: an atomic load, store or exchange, or the move of one
word of a record. A seqlock word is modelled as a number and a "being written"
bit (or as the code's number, odd while written, in the ledger). Records are
reduced to two or three words: enough to tell a whole record from a mixed one.
Each process has a program counter and the locals its code keeps across the
access; between calls it is idle. The stores of one thread are seen in program
order (x86-64), the words of one record copy move in any order. A game thread
may be stopped anywhere for as long as the others run, so safety needs no
separate termination; where `Die` is an action it is for liveness. `Watchpoints`,
`Hooks` and `FaultHandler` are one level up: a call into the slot table, the candidate ring, the
report ring or the ledger is one step, and so is an OS call or the call of an
original function.

| Module | State | Actions |
|---|---|---|
| `WatchpointSlots` | `version`, `slot` are the table; the rest are the locals of Claim, Release, RotateOldest, MarkTripped, Snapshot, ReadSlot, ClearAll | `Start*` is the call in `Watchpoints.cpp`; `ReleaseVersion`, `ReleaseAddr`, `EntryLoad`, `EntryCas`, `StoreWord`, `Publish`, ... are its accesses. A drain is Release's report followed by MarkTripped, as in `DrainReports`; ClearAll starts only when the sweeper is joined |
| `ShmRing` | `hdr`, `version`, `event` are the mapping; `me` is a thread's RingProducer; `c` the helper's drain; `session` the totals | Claim, takeover, Release, Publish (with re-claim when the ring was lost), DrainAll; Attach with the checks on the header (the initial state is what Create left); `Tick`, `Die` and the helper's crash are the environment. `setup` chooses one of the instances of the run |
| `ShadowLedger` | `entry`, `info` are one shard; `bloom` the keys added to the non-aging filter (a hit may be false, a miss never); `stat` the counters | Insert (update in place, tombstone, empty cell, victim), Find, Erase. Shards never meet in one call, so one is enough |
| `LedgerMap`, `LedgerRefines` | the abstract map and the calls pending on it; `abs` is the history variable that carries both along with the ledger | see below |
| `PoisonQuarantine` | `q`, `slot` are the ring; `mem` who owns a block, `poison` its first qword, `ledger` its ledger record | hk_SfAlloc, hk_SfFree with the budget loop, PopOldest, the real free (or the leak when the heap is gone), Reserve, poisoning, Publish, and the fault handler's GetSlot. Sizes and the byte account count modulo `WordSize` |
| `RecordRing` | `write`, `version`, `record` are a ring, `kind` says which | the writer's half of the three record rings: take a number, mark, copy, publish, count |
| `FreeRing` | `bloom` the filter, `sr` a search | ScaleformFreeRing (filter, one answer) and WeakLibEvents (no filter, up to `MaxEvents` answers): newest, then walk back |
| `ReportRing` | `read`, `dropped`, `dr` | WatchpointReports: the trap handlers record, the sweeper drains in batches, both count what was lost |
| `CandidateRing` | `cursor`, `pending` | Consider with its duplicate scan, PopCandidate with its jump over overwritten candidates |
| `Watchpoints` | `slot`, `cand`, `reports` are the three tables; `entry` the thread table with what each thread was armed with; `dr` the hardware; `ctx` the context of a trap, which a return writes back; `sw` the sweeper's locals, `sd` the progress of Shutdown | the hooks OnScaleformAlloc/Free with RequestDisarm as release, bump, flag; the sweep from SweepOnce to DrainReports, a step per slot and per thread; the trap as entry, classification, bump, return; Shutdown thread by thread. `Exit`, `Start`, `OsFails` are the environment |
| `HookInstall` | none | start-up as a function: `VerifyHookTarget`, the confidence, partial installation, health. It runs on one thread before a hook exists, so it is one step |
| `Hooks` | `loaded` the outcome of start-up; `mem` who has a block; `ledger` a map that may refuse and forget; `ring` the newest free record; `stack` the hook calls of a thread, also nested | PluginLoad, PostLoad, then hk_Allocate, hk_Deallocate, hk_Reallocate, hk_SfAlloc, hk_SfFree, hk_SfRealloc, hk_Release and the weak-library hooks with the re-entrancy guard, the free policy and the report kinds |
| `FaultHandler` | `fault` is the handler of a faulting thread: the registers left, the answers of the tables, the verdict | HandleException in the game's code or inside an original, FindLedger, FindFreeRing, DescribeProvenance (with `BuildVerdict`), ContinueSearch |

In `Watchpoints` the generation counter is reduced to what is asked of it: an entry
was armed with the value it has now, an older one, or never; `sw.same` and
`sw.moved` say the same of the value the sweep loaded. The clocks (throttle, hold
time, grace of stale reports) and the evidence that decides whether a write is
recorded are choices. The exception record is assumed to carry the debug registers
(the code falls back to reading them when it does not).

In `Hooks` the game frees a block it has, or (at most `MaxWrong` times) one it has
not; a freed address may be handed out again at once, also while the hook that freed
it has not finished. With a replaced Scaleform allocator (EngineFixes) the original of
a Scaleform hook enters the memory manager's hook, which is what the re-entrancy guard
is for: the original of hk_SfRealloc enters hk_Reallocate, and a Scaleform call that is
not hooked enters the memory manager's hook. A block that is moved is of the heap of that
call. With the Scaleform hooks switched off and the game's own allocator, no hook sees the
Scaleform heap (`Hooked`), so the ledger may still have the block of the memory manager
that was at the address before; `VerdictIsRight` excepts such blocks. Poison-on-free is
off there, as it is by default; `PoisonQuarantine` has it on.

Refinement. `LedgerMap` is what the code that uses the ledger relies on: a map from
addresses to records in which an accepted Insert is there until it is erased, updated or
(once the block is freed) forgotten, a refused one leaves no older record, Erase
returns what it took out, and a lookup answers with something the map held while the
call ran. `LedgerRefines` shows that `ShadowLedger` with one writing thread
implements it. The concrete state does not remember what a lookup has seen, so a
history variable, `abs`, records for each pending call the values its key has had;
the abstract map itself is a function of the entries (the published ones). `Hooks`
is written over that map. With two writing threads it is not one (section 6), which
is why `Hooks` does not claim its results for two hooks on one address at a time:
the steps of its two threads interleave between ledger calls, never inside one.

`MC*` modules give the constants values; `<module>Proofs` holds the theorems about a
module (`RingsProofs` those about the three overwriting rings, `HooksProofs` also those
about `HookInstall` and `FaultHandler`, `ShadowLedgerProofs` also the refinement), and
`SumLemmas` the lemmas about sums that both accounts rest on. Variables and fields called history in their declarations
(`delivered`, `known`, `keyOf`, `lapped`, `overtaken`, `missed`, `handed`, `drained`, `wronged`, `raced`, `abs`) only record what happened for the
properties. Definitions commented "Mutant" are deliberate errors that no
specification uses: each shows that one property would notice that error.

## 4. Runs

| Run | Instance | Shows |
|---|---|---|
| `slots` | two game threads, the sweeper, two slots, two addresses, 4 operations | one writer per entry; ReadSlot and Snapshot accept whole, current copies only; Claim takes only free slots; a drained report disarms its own block; after ClearAll no slot is held |
| `ring` | two threads hand over one ring of one slot while the helper drains (3 claims, 3 records), or three threads take stale rings over | the writer owns its ring; while the drain's generation stands copies are whole and delivered once; nobody owns two rings |
| `ring_restart` | one ring of two slots claimed once, 4 records, the thread killed anywhere, the helper killed anywhere and replaced | delivered + dropped = read cursor; only records overwritten in time are lost, also across the restart; a helper that stays catches up |
| `ledger` | three keys, two cells, 4 calls; either two writing threads, or one that does everything and one that looks up | one writer per entry; published records are whole; no probe stops short of a stored key; eviction never costs a live block's record. With one writer: the ledger implements `LedgerMap` |
| `quarantine` | one freeing thread, one faulting thread, three blocks, two slots, 5 frees; or two freeing threads, one may be killed, 3 frees | with one: every block is freed once, none is forgotten, the byte account is exact, poison leads to its own record. With two: reservations stay within the ring; every call returns |
| `rings` | each ring alone: two writing threads, two slots, 4 records and one search or any number of drains; 5 candidates | as long as no writer was overtaken by a whole lap: answers are whole, of their address, in order, and the newest retained record is not missed; reports are drained whole, once, in order; what was lost was counted |
| `watch` | two threads, two blocks, two slots, 2 allocations, 1 trap | every trap of ours is consumed and attributed; a thread that holds a retired address is out of date in the thread table, and a forced sweep is owed to it |
| `watch_one` | one thread, one slot, a trigger, 1 trap, 1 fault (an OS call that fails, a thread that ends), Shutdown at any time | a retired address leaves the registers in the end; a Shutdown that found nothing armed left nothing armed |
| `hooks` | every process with at most one odd target under five settings, with and without a replaced Scaleform allocator; then two threads, two blocks, 4 calls, of which one may be a wrong free and one a fault | GREEN means all verified and installed; nothing unverified is detoured or trusted; a trusted double-free report is right; a freed block is not left recorded as live; a free record never carries the instance of the next block; a verdict calls a live block freed only on the word of an older free record |
| `watch_down`, `watch_twice`, `quarantine_again` | | violated: see section 6 |

Bounds. Tables have two cells (one where a single slot is the question): enough
for a probe to collide, a window to wrap and to be full, and a ring to be lapped.
Two words make a record tearable. Two threads (three where a third party must act
between two, as in a takeover) give every pair of interleaved operations. The
number of calls is what bounds the runs: 4 suffice for the longest scenarios we
know of (insert, insert, erase, insert; a lap of a two-slot ring plus the record
that overtakes), and each mutant is found within them. `MaxOps`, `MaxCalls`,
`MaxEvents`, `MaxRecords`, `MaxFinds`, `MaxFaults`, `MaxAllocs`,
`MaxTraps`, `MaxOffers`, `MaxWrong`, `MaxRegs` (five in the code) and the fields of a setup are these
bounds (`MaxBlindCalls` bounds the runs of `Hooks` that are not GREEN, which are asked
little beyond start-up; `MaxOdd` bounds how many targets differ from the table, and one
is enough because the checks treat each target alone); a specification that has used them
up stutters in an explicit final step, so every other stop is reported as a
deadlock (not in the `ring` runs: there threads and helper end or are killed, and the
system really stops). Symmetry is used between threads and between addresses that the model
does not tell apart, and not in the runs with liveness. Where a run asks one question of several
instances, `Setups` (or `Uses`, `kind`) chooses the instance in the initial state. (In `watch` the thread
that would call Shutdown is like the other, because there is no Shutdown.) The
safety properties of `watch`, and `ShutdownClear`, were also checked once with two
threads, one slot, one allocation, a fault and a Shutdown (3.5 million states).

Fairness. `FairSpec` asks weak fairness of the step of every thread that has not
stopped, inside a call only: the operating system schedules live threads, and
nothing in the code makes the game call. In `ShmRing` it also asks it of the
helper's drain, which polls for ever. In `Watchpoints` it asks it of the sweeper
(a thread of its own), of handlers and hooks that have begun, and of a Shutdown
that has been called. Only `RetiredLeaves` uses strong fairness, for a sweep with
the throttle open: the throttle compares a clock with the last forced or
successful sweep, so it opens again whenever enough time passes.

## 5. Proofs

Every theorem is of the form `Spec => [](...)` (an action property `[][...]_vars`, the
refinement `HistorySpec => Implements`) and holds for every value of the constants
that the module's named ASSUME allows (at least one slot, ring, cell, attempt or thread
where the code has at least one, and marker values like `NoAddr` outside the sets they
mark; `QuarantineAssumption` also asks for finitely many threads, because a withheld
block is counted, and `AddressSpace` says of the blocks what holds of any allocations that
exist at once: they are parts of one address space, so that their sizes add up to less
than `std::size_t` counts). The bounds of section 4 (`MaxOps` and its like) are constants too, so
the theorems hold for every bound. Each inductive invariant was checked with TLC on the
instances of the runs before it was proved; the table gives the number of states.

| Module | Proves | Inductive invariant | States |
|---|---|---|---|
| `WatchpointSlotsProofs` | `TypeOK`, `OneWriter`, `NoTornRead`, `ClaimTakesFreeSlot`, `TripMarksReported`, `ShutdownFreesAll` | `SeqlockInv`, then `TableInv` | 663,242 |
| `ShmRingProofs` | `OneRingPerThread`; without takeovers `WriterOwnsRing`, `NoTornInGeneration`, and until a helper is killed `DeliveredOnce`; with one claim in all `LosesOnlyLapped`; with one claim of each ring `Accounted` | `Registered`, `SteadyInv`, `Numbered`, `Once`; `OnceClaimedRings`; `Tally` | 5,046,172, 12.7 million, 657,998 and 2,632,907 |
| `ShadowLedgerProofs` | `OneWriter`, `EntryWhole`, `NoHole`, the action property `EvictsOnlyFreed`; `Implements`: the ledger with one writing thread implements `LedgerMap` | `IInv`; `RefInv` over it | 272,938 and 4,904,260 |
| `PoisonQuarantineProofs` | `CursorsBounded` for any number of freeing threads; for one, `DrainsHeldAlone`, `NoneSkipped`, `PoisonLeadsToRecord`, `LiveNotMarkedFreed`, `BytesExact` | `Inv`, `Accounts` | 1,041,265 and 404,426 |
| `RingsProofs` | `FoundInOrder`, `FindsNewest`, `DrainedInOrder`, `DropsCounted`, `LossCounted` | `RingInv` with `FreeInv` or `ReportInv`; `QueueInv` | 3,162,162 and 887,855 |
| `WatchpointsProofs` | `OwnTrapConsumed`, `OwnTrapAttributed`, `RetiredIsNotCurrent`, `RetiredIsOwed`, `ShutdownClear` | `ConsumeInv`, `WatchInv` | 1,310,711 and 174,872 |
| `HooksProofs` | `StartupIsHonest`, `TrustedReportIsRight`, `FreedIsRecorded`, `FreeRecordIsOld`, `VerdictIsRight` | `HooksInv`, then `Handled` | 2,366,342 |

**Slots.** OneWriter is nearly inductive, but that the version is unchanged says nothing
of a copy unless it cannot have come back to the same value. `SeqlockInv` therefore
adds, for a process that holds a loaded version (`Held`), that the version is even
and not ahead of the entry's, that while the entry still has it the words copied
so far are the entry's, and that a Claim about to exchange looks at a free slot.
The argument is by kinds of step: steps that touch neither table nor the held
version (`QuietStep`, `LocalStep`), the claiming exchange, which makes every held
version of the entry differ by its bit (`ClaimStep`), a store of the one writer,
whose entry is odd and so matches no held version (`StoreStep`), and the
publication, which makes the number exceed all held ones (`PublishStep`).
`TableInv` adds who may run what (`Roles`: ClearAll only when the sweeper is joined),
what a write section has stored so far (`Sections`), that a drain's second half finds its
report's slot already released (`Reported`), and that ClearAll's cursor leaves only
settled slots behind (`Cleared`).

**Trace rings.** Whatever is registered to a thread is the ring it remembers, and it looks
for a ring only without one (`Registered`): that is enough for `OneRingPerThread`, whatever
is taken over from whom. The others need that the owner is the only writer, and a
takeover breaks just that (section 6), so all of them say `setup.stale = 0`, as
`WriterOwnsRing` itself does. There a thread's
idea of `writeSeq` is the ring's and the slot it writes is marked (`Steady`), an unmarked
slot holds one whole record with the number of its slot (`AllWhole`), and the helper's
copy agrees with the slot while the slot still has the version it loaded, unless the
generation has moved on (`Draining`). DeliveredOnce adds that records are numbered apart
(`Numbered`) and that what is before the cursor is all that was delivered (`Once`); a
helper that is killed before it stores the cursor delivers again, hence it is proved as
long as no helper has been killed (`used.crashes = 0`). LosesOnlyLapped allows any number of crashes but speaks of rings with
one generation, and identifies a record by its sequence, which needs that events are
numbered in one ring only: one claim in all (`OnceClaimed`). Then a slot's mark only
grows (`MarksGrow`), every visible record's slot is marked with it or a later one and
never as being written (`Sequenced`), and a record that was delivered or lapped stays so.
`Passed` says it of everything before the cursor of the region and before the drain's own, as
long as the generation is the one it loaded; when the drain jumps, all that it goes past was
lapped, as among any `Capacity` records in a row one shares the slot it looks at
(`SameSlot`).

`Accounted` compares a sum over the rings with the number of records delivered, and holds
between drains only. `Tally` says what it is in a drain: what is before the stored cursors
and what this drain has passed is what was delivered and what was counted, in the
ring's `drops` or still in the drain's own total (`Balance`). Each record passed adds one
to both sides, each jump its gap, and the two stores of the write-back move the drain's part
into the region one side at a time. A record delivered counts as one because it was not
delivered before (`Once`). BeginGeneration sets the cursors and the drops to 0,
whatever was still to be drained, so the account does not survive a second claim of a ring
(`FirstClaims` says there is none). A ring in generation 0 has nothing in it (`Blank`), and a
drain that finds itself there has nothing in hand (`Barren`). `FirstClaims` speaks of the
behaviour, so it is a premise: `SpecAccounted` is `Spec /\ []FirstClaims => ...`, for any
number of threads with a ring each; `SpecAccountedOnce` is without a premise, for one claim.

**Ledger.** The publication of an update in place stores a version from before its claim, so
"versions only grow" is not available. `IInv` says instead, per step of a call, what the
code's checks have established of its cell (`Fit`: the cell is odd while it is written,
the re-checked victim is still free or freed, every cell the probe has passed is open),
and per cell that it is odd only while somebody is writing it, that a key's record is
whole unless it is being copied in, and that its key is reachable without a closed cell
before it (`Sound`). A cell that was ever taken never becomes empty again (`Forward`), so
a path that was open stays open.

**Ledger as a map.** With one writing thread the versions do grow, because an update in
place claims the version it loaded (`Claiming`), and the cells are a map because a key
has one cell at most (`Unique`): an Insert takes a cell only after it has looked for its
key in all of its window (`Searching`, `Nowhere`), and what it remembers of the window is
still so when it claims, as nobody else writes. The rest is about time. `Reading` says
that the words a lookup has copied are the cell's as long as the version it loaded is
there. `Looking` says that a lookup has seen a moment without its key, or its key's
record is in a visible cell at or beyond its position, reachable by its probe (`Ahead`):
hence "unknown" is never wrong, although the probe skips cells that are being written and
a lookup whose copy was overtaken gives up. `Erasing` says that an Erase has seen one
record only, the one it takes out. The steps fall in two kinds (`Moves`: what a step may
do to the cells of a lookup that stands still, by whoever it is taken); a claim is the
abstract TakeOut, a Publish the abstract Put or Erased, the last step of a lookup Found,
and every other step shows nothing. `HistorySpec` leaves `abs` alone when two threads
write, so the theorem says nothing of that case, nor does the run.

**Quarantine.** The cursors need no more than that a compare-exchange succeeds on the value
the guard was about (`CursorInv`). The rest is about one freeing thread (`AloneInv`), for
the reason in section 6: the slots between the cursors and the withheld blocks are each
other's (`Led`, `Kept`), what is popped or reserved is nobody else's, and a faulting
thread's copy agrees with its slot while the version stands. `NoneSkipped` says
`setup.deaths = 0`: a killed thread takes the block it has popped with it.
In a call, the byte account is the sizes of what is held but for one block in hand (`Account`): the
one published and not yet credited, or debited and not yet freed. So a debit never exceeds the
account, and the clamp of PopOldest is not what keeps it exact; `AddressSpace` keeps the credit
from wrapping.

**Sums.** Both accounts are folds over a finite set. The library's induction theorems are
out of reach, but a fold is one recursive function on the subsets of a set. With induction
stated about sets (a set of numbers that has 0 and is closed under successor has every number,
because `<` is well-founded; for subsets, by their size) `SumLemmas` shows that this function
exists, that the sum does not depend on the order in which elements are taken, and what it
becomes when one element's value changes or an element comes or goes.

**Overwriting rings.** As long as nobody was lapped (`lapped`; for the queue `overtaken`),
the numbers of the writers inside a slot are less than a lap apart and in different
slots, so a slot that is not marked holds one whole record of the number in its version
(`RingInv`). `Moves` is what a writer's step can do to a reader; a search keeps that its
finds are in order and that no number it has passed was better (`SearchInv`), the drain that
the set of reports passed or replaced and not handed out is no larger than the
drop counter (`LossesCounted`). A writer counts its own overwrite after it has published, so
the set leaves out the slots whose new writer has yet to count. The queue has no marks,
and `QueueInv` is about the numbers themselves. The premises are those of section 6.

**Watchpoints.** The flag is looked at when the trap arrives, so `ConsumeInv` must say
where a watch can be before it traps: as long as the flag is down there is none in
a register, none in a saved context that a return will write back, and none in the
snapshot that the sweep is about to write. `WatchInv` follows an address through the same
places: what is armed was recorded first (`Recorded`), what a thread is armed with and has
been given up makes its entry out of date or its bump is under way (`Currency`), and then a
request is owed (`Owing`), through the sweep's load, compare and store; `Verified` is what
Shutdown has looked at so far.

**Hooks and faults.** A hook call is at most one deep inside another (`Stacked`) and alone has
its block (`Owned`). From that follows what the ledger may say of the block at each step:
not "freed" before it is given back to the game (`Marked`), no longer "live" when the
original free is called (`Cleared`); and a free record is of an older instance because the
instance was read while the hook had the block (`Old`). `Handled` keeps what the fault
handler has read of a register and what has become of that block since.
`StartupIsHonest` is a case analysis over all processes and configurations, without a bound
on how many targets are odd.

Only model-checked, and why:

- `CatchesUp`, `RetiredLeaves`, `CallReturns`: liveness under fairness, which these provers
  do not handle.
- `OneSlotPerBlock`, `ShutdownReturns`, `DrainsHeld`: they do not hold (section 6).

## 6. Where code and documents disagree

Three runs are expected to fail, each against a sentence of the repository:

- `watch_down`. `DESIGN.md:1087`: Shutdown "disarms every thread it can open,
  disarms the calling thread, and then asserts the final state". The calling
  thread is among the threads it opens (only `VerifyAllThreadsDisarmed` skips it),
  and `DisarmThread` suspends a thread before it writes its registers: Shutdown
  suspends itself and nobody resumes it. The states after it that `watch_one`
  checks are those where opening, suspending or enumerating failed.
- `watch_twice`. `WatchpointPlan.cpp:68`: a duplicate candidate does no harm because
  "the slot table itself rejects the same address twice". Claim takes the first free
  slot without looking for the address. A block that is queued, freed, armed all the
  same, pushed out of the duplicate scan and allocated again gets a second slot, and
  Release frees only the first. The instance has a queue of one; with the default sizes
  it takes as many candidates in between as the scan covers.
- `quarantine_again`. `PoisonQuarantine.h:73`: PopOldest yields the "oldest
  still-held block". When the oldest reservation is not yet published its slot
  still has the record of the previous lap, which PopOldest takes: a block that was
  really freed is really freed again.

The following came up in the same models, most with two writing threads (or
takeovers) where the passing runs have one. They mark the limits of the passing properties,
and each is reproduced by giving the run named the instance described.

- `slots`: Release compares the address before ClaimEntry and not after it; if the
  slot was re-used in between, another block's slot is marked released
  (`WatchpointSlots.h:83`: "Mark the slot holding `a_address` released").
- `ring` with takeovers and `WriterOwnsRing`: the ownership check
  in Publish precedes the stores, so a takeover after it leaves two writers
  (`ShmRing.h:132-135`). `lastActiveTick` is refreshed every 4096 records only, so
  the owner taken over may have just published (`ShmRing.h:91-92`).
- `ring` without the generation in `NoTornInGeneration`: record numbers
  restart at 1 when a ring is re-claimed, so a slot can get back the version the
  drain loaded and a mixed copy is accepted (`ShmRing.h:22`: "A TORN RECORD CANNOT
  BE ACCEPTED"). Within one generation it holds.
- `ring`: the generation check and the store of `readSeq` are two steps, and
  BeginGeneration resets the cursors before it bumps the generation; a stale cursor
  can land in the new generation (`ShmRing.cpp:26-28`).
- `ring_restart`: after a lap the drain jumps to the record in the slot it looks at;
  older records that are still resident are counted as dropped (`ShmRing.h:151`). A
  thread killed in the middle of a record, after it lapped the helper, leaves a slot
  that stops the drain of its ring until the ring is claimed again. A helper killed
  between the two stores of the write-back leaves the drops of that drain uncounted.
- `ledger` with the properties of one writer asked of two: an update in place publishes the version loaded
  before its claim plus 2, which may have been used; it does not compare the key
  again after the claim; an Insert that skips its own key's entry while that is
  being written stores the key a second time (`ShadowLedger.h:86-87`,
  `ShadowLedger.cpp:183-184`, `:219-220`). Eviction takes the first freed record
  in probe order, not the oldest (`ShadowLedger.cpp:244`).
- `quarantine` with two freeing threads: a drain passes an unpublished
  reservation and its block stays behind the cursor (`DESIGN.md:618`: "only
  delayed, never skipped"); the byte account is credited after the record is
  visible and drifts up; the ledger is marked freed after the block could have been
  drained and reallocated (`Hooks.cpp:401-404`).
- `watch` without the exception for `overtaken`: a sweep that writes a thread's
  registers after its trap handler bumped the generation and before the handler
  returned is undone by the return, and the thread counts as up to date; the
  retired address stays until the next bump (`Watchpoints.cpp:238`: "cleared on
  every thread at the next sweep").
- `watch_one`: Shutdown clears `_active` before it sets `_stop`; a sweep in between
  finds `_armRequested` and sets `_active` again, for good. `Watchpoints.h:97-98` ("a
  foreign #DB is never swallowed") describes the handler before the structural rule.
- `rings` without the exceptions for a whole lap: a writer overtaken by a lap stores its
  old record over the newer one. For a trap report this makes the newer one unreadable
  and uncounted, and the drain waits at that slot until the next lap
  (`WatchpointReports.cpp:77`). When PopCandidate has been lapped it moves `_readCursor`
  to the oldest live candidate, which the next attempt then skips, and counts one
  eviction too many (`WatchpointPlan.cpp:171-178`).
- `hooks` without the exception for `raced`: a weak-library hook looks a record up,
  refreshes it and inserts it again; if the block is freed in between, the record
  says live again (`Hooks.cpp:710`).
- `hooks`: hk_Reallocate and hk_SfRealloc erase the old address after the original has
  given it up; if another thread has been handed that address and recorded it, its
  record is the one erased (`Hooks.cpp:258`; `Hooks.cpp:398-404` describes the same race for
  the free hook and how that avoids it). A report is never wrong for it, only missing.
- `hooks`: the verdict about a *live* block can be "use-after-free". The handler takes a
  free record of the address for proof that the block is freed (`Veh.cpp:187-189`),
  whatever the ledger says, and the free ring never forgets a free when the address is
  handed out again. `DESIGN.md:483-486`: "The verdict distinguishes a use-after-free
  [...] from a stray WRITE into a LIVE object (still allocated [...])". `VerdictIsRight`
  shows that this is the only way to such a verdict, and that the record's allocation
  instance, which the watchpoint reports compare and the handler does not, tells the
  two apart whenever it is known.
- The confidence of a double-free report depends on the memory manager's targets
  alone, also for reports about Scaleform blocks. With poison-on-free and a replaced
  Scaleform allocator, a block drained from the quarantine enters hk_Deallocate without
  an outer free of that address on the stack while its record already says freed: the
  guard does not cover it and it is reported as a double free. (By reading; the two
  modules are not composed.)
- The guarded pool never serves a block: `GuardedPool::Init` reserves the free list and
  leaves it empty, and the only store into it, in Deallocate, needs a block that was
  served (`GuardedPool.cpp:50`, `:120`, `:192`).

## 7. What is not modelled

`PROJECT.json` lists each component with its status.

- Guarded pool: no state but the initial one is reachable (section 6).
- Of the fault handler: the scan of the stack, the wording, and verdicts with
  poison-on-free (the lookup of a poison address is in `PoisonQuarantine`).
- The bit layout of DR6 and DR7 in `WatchpointEncoding.h` (the ownership decision is in
  `Watchpoints`), the hashing and the unused aging of the Bloom filter, the ledger's stack
  store, sampling (a choice wherever it is used).
- Formatting and logging of reports and statistics, the module map and stack
  capture (queries of the operating system), parsing of the ini file and of the hook
  table, names and sizes of the shared mapping, generated data and the build tools.
- The heartbeats of the session: nothing in the repository acts on them yet. Attach
  cannot race Create, because the helper learns the mapping's name only afterwards.

In the modelled components, initialisation and shutdown that run before the first or
after the last hook call are the models' initial states, and counters that only feed
the statistics are left out unless a property reads them.
