-------------------------------- MODULE Hooks --------------------------------
(* The allocation hooks (Hooks.cpp) with the re-entrancy guard, the free policy *)
(* and the confidence of their reports, over what HookInstall installed.  The   *)
(* game's threads allocate and free; each hook calls the original and tells the *)
(* ledger.  A hook may run inside another: with a replaced Scaleform allocator  *)
(* (EngineFixes) the original of a Scaleform hook enters the memory manager's.  *)
(*                                                                              *)
(* One step is one call into the ledger or into an original.  The ledger is the *)
(* map that module ShadowLedger implements: it may refuse a new address and     *)
(* forget a freed one.  Poison-on-free is off, as it is by default; with it on,  *)
(* hk_SfFree is in module PoisonQuarantine.                                     *)
EXTENDS HookInstall, Sequences

CONSTANTS Threads, Blocks, NoBlock,
          MaxDepth,         \* FreeReentrancy::kMaxDepth
          Setups,           \* pairs: a configuration, whether the Scaleform allocator is a replacement
          MaxCalls,         \* bound: calls of the game in a GREEN run
          MaxBlindCalls,    \* bound: calls of the game in any other run
          MaxWrong          \* bound: frees the game has no right to

ASSUME HooksAssumption ==
    /\ NoBlock \notin Blocks
    /\ MaxDepth \in Nat \ {0}
    /\ Setups \subseteq Config \X BOOLEAN
    /\ {MaxCalls, MaxBlindCalls, MaxWrong} \subseteq Nat

VARIABLES
    loaded,   \* the phase, the configuration, the outcome of loading, the allocator
    mem,      \* block -> who has it, and which heap it came from
    ledger,   \* block -> its record, a set of at most one
    instance, \* the last allocation instance; block -> the one it has
    ring,     \* block -> the instance in its newest free record (0: unknown), a set of at most one
    stack,    \* thread -> its hook calls, innermost first
    reports,  \* double frees reported: how, of which block, and whether it is so
    wronged,  \* history: blocks the game freed without owning them
    raced,    \* history: blocks whose record a weak-library hook put back
    used      \* what the bounds count
vars == <<loaded, mem, ledger, instance, ring, stack, reports, wronged, raced, used>>

Records == [freed : BOOLEAN, instance : Nat]
\* live: the game's; hook: a hook call's; free: the allocator's;
\* leaked: nobody's, for good.
Owners == [who : {"live", "hook", "free", "leaked"}, heap : {"mm", "sf"}]
Functions == {"Allocate", "Deallocate", "Reallocate", "SfAlloc", "SfFree", "SfRealloc", "Wl"}
Frame == [fn : Functions, heap : {"mm", "sf"}, b : Blocks \cup {NoBlock}, new : Blocks \cup {NoBlock},
          pc : {"enter", "orig", "find", "mark", "erase", "record", "publish", "return", "refresh"},
          rec : SUBSET Records,     \* the record it looked up
          pushed : BOOLEAN,         \* FreeReentrancy::_pushed
          publish : BOOLEAN]        \* a free record follows the original
Kinds == {"double-free", "double-free-unverified"}      \* the other kinds are only logged

Init ==
    /\ \E s \in Setups :
         loaded = [phase |-> "start", config |-> s[1], replaced |-> s[2], out |-> NotLoaded,
                   genuine |-> {}, complete |-> FALSE]
    /\ mem = [b \in Blocks |-> [who |-> "free", heap |-> "mm"]]
    /\ ledger = [b \in Blocks |-> {}]
    /\ instance = [last |-> 0, of |-> [b \in Blocks |-> 0]]
    /\ ring = [b \in Blocks |-> {}]
    /\ stack = [t \in Threads |-> <<>>]
    /\ reports = {} /\ wronged = {} /\ raced = {}
    /\ used = [calls |-> 0, wrong |-> 0]

config == loaded.config
Installed(target) == target \in loaded.out.installed

\* SKSEPlugin_Load
PluginLoad ==
    /\ loaded.phase = "start"
    /\ \E p \in Processes, image \in Images : \E out \in Load(config, p, image) :
         loaded' = [loaded EXCEPT !.phase = "running", !.out = out,
                                     !.genuine = {t \in Targets : Genuine(t, image[t])}]
    /\ UNCHANGED <<mem, ledger, instance, ring, stack, reports, wronged, raced, used>>

\* OnMessage: the module list is complete.
PostLoad ==
    /\ loaded.phase = "running" /\ ~loaded.complete
    /\ loaded' = [loaded EXCEPT !.complete = TRUE]
    /\ UNCHANGED <<mem, ledger, instance, ring, stack, reports, wronged, raced, used>>

(***************************************************************************)
(* Calls, returns, and the guard                                           *)
(***************************************************************************)
Enter(fn, heap, b) ==
    [fn |-> fn, heap |-> heap, b |-> b, new |-> NoBlock, rec |-> {}, pushed |-> FALSE,
     publish |-> FALSE,
     pc |-> IF fn \in {"Deallocate", "SfFree", "Wl"} THEN "enter" ELSE "orig"]
Top(t) == stack[t][1]
At(t, fns, pc) == stack[t] # <<>> /\ Top(t).fn \in fns /\ Top(t).pc = pc
Becomes(t, frame) == stack' = [stack EXCEPT ![t][1] = frame]
Goto(t, pc) == Becomes(t, [Top(t) EXCEPT !.pc = pc])
Returns(t) == stack' = [stack EXCEPT ![t] = Tail(@)]
\* The original of the outer frame enters the hook of another target.
Nests(t, frame, fn, b) == stack' = [stack EXCEPT ![t] = <<Enter(fn, "sf", b), frame>> \o Tail(@)]

\* FreeReentrancy: the blocks being freed on this thread.
FreeStack(t) == {i \in 1 .. Len(stack[t]) : stack[t][i].pushed}
\* Mutant: the guard looks at its own entry only.
NestedNever(t, b) == FALSE
Nested(t, b) == \E i \in FreeStack(t) : stack[t][i].b = b
Pushes(t) == Cardinality(FreeStack(t)) < MaxDepth

DoubleFreeReportKind ==
    IF loaded.out.confidence = "kVerified" THEN "double-free" ELSE "double-free-unverified"
Report(kind, b) == reports' = reports \cup {[kind |-> kind, b |-> b, right |-> b \in wronged]}

Freed(recs) == \E r \in recs : r.freed

Inserts(b, rec) == \/ ledger' = [ledger EXCEPT ![b] = {rec}]
                   \/ ledger[b] = {} /\ UNCHANGED ledger

(***************************************************************************)
(* The game                                                                *)
(***************************************************************************)
Bound == IF loaded.out.health = "GREEN" THEN MaxCalls ELSE MaxBlindCalls
Idle(t) == loaded.phase = "running" /\ stack[t] = <<>> /\ used.calls < Bound
Counts(wrong) == used' = [calls |-> used.calls + 1, wrong |-> used.wrong + wrong]

\* Where a call of the game arrives.  A target that is not hooked is the original
\* itself; a replaced Scaleform allocator still enters the memory manager.
Entry(heap, mm, sf) ==
    IF heap = "sf" /\ Installed(sf) THEN {sf}
    ELSE IF (heap = "mm" \/ loaded.replaced) /\ Installed(mm) THEN {mm} ELSE {}
Starts(t, fn, heap, b) == stack' = [stack EXCEPT ![t] = <<Enter(fn, heap, b)>>]

\* The allocator hands out a block nobody has.
Takes(b, who, heap) == mem[b].who = "free" /\ mem' = [mem EXCEPT ![b] = [who |-> who, heap |-> heap]]

GameAllocates(t, heap) ==
    /\ Idle(t) /\ Counts(0)
    /\ LET entry == Entry(heap, "Allocate", "SfAlloc") IN
       \/ \E fn \in entry : Starts(t, fn, heap, NoBlock) /\ UNCHANGED <<mem, instance>>
       \/ /\ entry = {} /\ UNCHANGED stack
          /\ \E b \in Blocks : Takes(b, "live", heap) /\ instance' = [instance EXCEPT !.of[b] = 0]
    /\ UNCHANGED <<loaded, ledger, ring, reports, wronged, raced>>

Frees(t, b) ==
    LET entry == Entry(mem[b].heap, "Deallocate", "SfFree") IN
    \/ /\ \E fn \in entry : Starts(t, fn, mem[b].heap, b)
       /\ mem' = [mem EXCEPT ![b].who = IF @ = "live" THEN "hook" ELSE @]
    \/ entry = {} /\ mem' = [mem EXCEPT ![b].who = "free"] /\ UNCHANGED stack

\* The game frees a block it has, or one it has freed before.
GameFrees(t, b) ==
    /\ Idle(t)
    /\ \/ mem[b].who = "live" /\ Counts(0) /\ UNCHANGED wronged
       \/ /\ mem[b].who = "free" /\ used.wrong < MaxWrong
          /\ Counts(1) /\ wronged' = wronged \cup {b}
    /\ Frees(t, b)
    /\ UNCHANGED <<loaded, ledger, instance, ring, reports, raced>>

\* hk_Release: the last reference of a Scaleform object goes away, and its
\* destructor frees it - unless the vtable is implausible and the guard is told
\* to leak the object instead.
HkRelease(t, b) ==
    /\ Idle(t) /\ Installed("Release") /\ mem[b] = [who |-> "live", heap |-> "sf"]
    /\ Counts(0)
    /\ \/ Frees(t, b)
       \/ /\ loaded.complete /\ config.failSafe
          /\ mem' = [mem EXCEPT ![b].who = "leaked"] /\ UNCHANGED stack
    /\ UNCHANGED <<loaded, ledger, instance, ring, reports, wronged, raced>>

\* A reallocation gives the block up and gets one back from the same heap, which
\* may be the same block.
Moves(b, new, who, heap) ==
    /\ new = b \/ mem[new].who = "free"
    /\ mem' = [x \in Blocks |-> CASE x = new -> [who |-> who, heap |-> heap]
                                  [] x = b /\ x # new -> [mem[b] EXCEPT !.who = "free"]
                                  [] OTHER -> mem[x]]

GameReallocates(t, b) ==
    /\ Idle(t) /\ mem[b].who = "live" /\ Counts(0)
    /\ LET entry == Entry(mem[b].heap, "Reallocate", "SfRealloc") IN
       \/ /\ \E fn \in entry : Starts(t, fn, mem[b].heap, b)
          /\ mem' = [mem EXCEPT ![b].who = "hook"] /\ UNCHANGED instance
       \/ /\ entry = {} /\ UNCHANGED stack
          /\ \E new \in Blocks : Moves(b, new, "live", mem[b].heap) /\ instance' = [instance EXCEPT !.of[new] = 0]
    /\ UNCHANGED <<loaded, ledger, ring, reports, wronged, raced>>

\* A weak-library function is called with a resource that is alive at the call.
GameUses(t, b) ==
    /\ Idle(t) /\ Installed("Wl") /\ mem[b] = [who |-> "live", heap |-> "sf"]
    /\ Counts(0) /\ Starts(t, "Wl", "sf", b)
    /\ UNCHANGED <<loaded, mem, ledger, instance, ring, reports, wronged, raced>>

(***************************************************************************)
(* hk_Allocate, hk_SfAlloc (and its three overloads)                       *)
(***************************************************************************)
\* The original fails, serves the request, or enters the memory manager.
OAllocate(t) ==
    /\ At(t, {"Allocate", "SfAlloc"}, "orig")
    /\ LET f == Top(t) IN
       \/ /\ \E b \in Blocks : Takes(b, "hook", f.heap) /\ Becomes(t, [f EXCEPT !.b = b, !.pc = "record"])
          /\ ~(f.fn = "SfAlloc" /\ loaded.replaced /\ Installed("Allocate"))
       \/ /\ f.fn = "SfAlloc" /\ loaded.replaced /\ Installed("Allocate")
          /\ Nests(t, [f EXCEPT !.pc = "record"], "Allocate", NoBlock) /\ UNCHANGED mem
       \/ stack' = [stack EXCEPT ![t] = <<>>] /\ UNCHANGED mem       \* nullptr
    /\ UNCHANGED <<loaded, ledger, instance, ring, reports, wronged, raced, used>>

\* The block goes to the hook outside, or to the game.
Receives(f, b) == IF f.fn = "SfAlloc" THEN [f EXCEPT !.b = b] ELSE [f EXCEPT !.new = b]
GivesBack(t, b) ==
    LET outer == Tail(stack[t]) IN
    IF outer = <<>> THEN /\ mem' = [mem EXCEPT ![b].who = "live"]
                         /\ stack' = [stack EXCEPT ![t] = <<>>]
                    ELSE /\ stack' = [stack EXCEPT ![t] = <<Receives(outer[1], b)>> \o Tail(outer)]
                         /\ UNCHANGED mem

\* The ledger record.  Scaleform allocations get an instance of their own.
RecordAlloc(t) ==
    /\ At(t, {"Allocate", "SfAlloc"}, "record")
    /\ LET f == Top(t)
           n == IF f.fn = "SfAlloc" THEN instance.last + 1 ELSE 0 IN
       /\ instance' = [last |-> IF n # 0 THEN n ELSE instance.last, of |-> [instance.of EXCEPT ![f.b] = n]]
       /\ Inserts(f.b, [freed |-> FALSE, instance |-> n])
       /\ raced' = raced \ {f.b}
       /\ GivesBack(t, f.b)
    /\ UNCHANGED <<loaded, ring, reports, wronged, used>>

(***************************************************************************)
(* hk_Deallocate and hk_SfFree                                             *)
(***************************************************************************)
\* A prevented free leaves the block with nobody.
Prevents(b) == mem' = [mem EXCEPT ![b].who = IF @ = "hook" THEN "leaked" ELSE @]

\* The guard, then the lookup that may end in a report.
FreeEnters(t) ==
    /\ At(t, {"Deallocate", "SfFree"}, "enter")
    /\ LET f == Top(t)
           known == ledger[f.b]
           g == [f EXCEPT !.pushed = Pushes(t)] IN
       \/ /\ Nested(t, f.b)
          /\ Goto(t, "orig") /\ UNCHANGED <<mem, reports>>
       \/ /\ ~Nested(t, f.b) /\ Freed(known)
          /\ Report(DoubleFreeReportKind, f.b)
          /\ IF config.preventDoubleFree
             THEN Returns(t) /\ Prevents(f.b)
             ELSE Becomes(t, [g EXCEPT !.pc = "orig", !.rec = known]) /\ UNCHANGED mem
       \/ /\ ~Nested(t, f.b) /\ ~Freed(known) /\ f.fn = "Deallocate" /\ UNCHANGED <<mem, reports>>
          /\ Becomes(t, [g EXCEPT !.pc = IF known = {} THEN "orig" ELSE "mark", !.rec = known])
       \/ /\ ~Nested(t, f.b) /\ ~Freed(known) /\ f.fn = "SfFree" /\ UNCHANGED <<mem, reports>>
          /\ Becomes(t, [g EXCEPT !.pc = "find"])
    /\ UNCHANGED <<loaded, ledger, instance, ring, wronged, raced, used>>

\* MarkScaleformFreeInLedger looks the block up again.
FindForFree(t) ==
    /\ At(t, {"SfFree"}, "find")
    /\ Becomes(t, [Top(t) EXCEPT !.rec = ledger[Top(t).b], !.pc = "mark"])
    /\ UNCHANGED <<loaded, mem, ledger, instance, ring, reports, wronged, raced, used>>

InstanceIn(recs) == IF recs = {} THEN 0 ELSE (CHOOSE r \in recs : TRUE).instance

\* Mutant: the record is not marked on the way to the original.
MarkAfter(t) ==
    /\ At(t, {"Deallocate", "SfFree"}, "mark")
    /\ Becomes(t, [Top(t) EXCEPT !.pc = "orig", !.publish = Top(t).fn = "SfFree"])
    /\ UNCHANGED <<loaded, mem, ledger, instance, ring, reports, wronged, raced, used>>

\* The record is marked before the original free: after it the address may be
\* somebody else's.
Mark(t) ==
    /\ At(t, {"Deallocate", "SfFree"}, "mark")
    /\ LET f == Top(t) IN
       /\ Inserts(f.b, [freed |-> TRUE, instance |-> InstanceIn(f.rec)])
       /\ Becomes(t, [f EXCEPT !.pc = "orig", !.publish = f.fn = "SfFree"])
    /\ UNCHANGED <<loaded, mem, instance, ring, reports, wronged, raced, used>>

\* The original free.
OFree(t) ==
    /\ At(t, {"Deallocate", "SfFree"}, "orig")
    /\ LET f == Top(t)
           after == [f EXCEPT !.pc = IF f.publish THEN "publish" ELSE "return"] IN
       IF f.fn = "SfFree" /\ loaded.replaced /\ Installed("Deallocate")
       THEN Nests(t, after, "Deallocate", f.b) /\ UNCHANGED mem
       ELSE Becomes(t, after) /\ mem' = [mem EXCEPT ![f.b].who = "free"]
    /\ UNCHANGED <<loaded, ledger, instance, ring, reports, wronged, raced, used>>

FreeReturns(t) ==
    /\ At(t, {"Deallocate", "SfFree"}, "return")
    /\ Returns(t)
    /\ UNCHANGED <<loaded, mem, ledger, instance, ring, reports, wronged, raced, used>>

\* Mutant: the instance is looked up when the free record is written.
PublishScaleformFreeLate(t) ==
    /\ At(t, {"SfFree"}, "publish")
    /\ ring' = [ring EXCEPT ![Top(t).b] = {InstanceIn(ledger[Top(t).b])}]
    /\ Returns(t)
    /\ UNCHANGED <<loaded, mem, ledger, instance, reports, wronged, raced, used>>

\* The free record follows the original free, with the instance read before it.
PublishScaleformFree(t) ==
    /\ At(t, {"SfFree"}, "publish")
    /\ ring' = [ring EXCEPT ![Top(t).b] = {InstanceIn(Top(t).rec)}]
    /\ Returns(t)
    /\ UNCHANGED <<loaded, mem, ledger, instance, reports, wronged, raced, used>>

(***************************************************************************)
(* hk_Reallocate and hk_SfRealloc                                          *)
(***************************************************************************)
OReallocate(t) ==
    /\ At(t, {"Reallocate", "SfRealloc"}, "orig")
    /\ LET f == Top(t)
           after == [f EXCEPT !.pc = "erase"]
           enters == f.fn = "SfRealloc" /\ loaded.replaced /\ Installed("Reallocate") IN
       \/ ~enters /\ \E new \in Blocks : Moves(f.b, new, "hook", f.heap) /\ Becomes(t, [after EXCEPT !.new = new])
       \/ enters /\ Nests(t, after, "Reallocate", f.b) /\ UNCHANGED mem
       \/ /\ mem' = [mem EXCEPT ![f.b].who = "live"]                   \* nullptr
          /\ stack' = [stack EXCEPT ![t] = <<>>]
    /\ UNCHANGED <<loaded, ledger, instance, ring, reports, wronged, raced, used>>

\* The old address is erased after the original has given it up.
EraseOld(t) ==
    /\ At(t, {"Reallocate", "SfRealloc"}, "erase")
    /\ ledger' = [ledger EXCEPT ![Top(t).b] = {}]
    /\ Goto(t, "record")
    /\ UNCHANGED <<loaded, mem, instance, ring, reports, wronged, raced, used>>

RecordRealloc(t) ==
    /\ At(t, {"Reallocate", "SfRealloc"}, "record")
    /\ LET f == Top(t)
           n == IF f.fn = "SfRealloc" THEN instance.last + 1 ELSE 0 IN
       /\ instance' = [last |-> IF n # 0 THEN n ELSE instance.last, of |-> [instance.of EXCEPT ![f.new] = n]]
       /\ Inserts(f.new, [freed |-> FALSE, instance |-> n])
       /\ raced' = raced \ {f.new}
       /\ GivesBack(t, f.new)
    /\ UNCHANGED <<loaded, ring, reports, wronged, used>>

(***************************************************************************)
(* RecordWeakLibEvent                                                      *)
(***************************************************************************)
WlFind(t) ==
    /\ At(t, {"Wl"}, "enter")
    /\ LET known == ledger[Top(t).b] IN
       \/ known # {} /\ ~Freed(known) /\ Becomes(t, [Top(t) EXCEPT !.rec = known, !.pc = "refresh"])
       \/ Returns(t)                       \* not recorded, freed, or an implausible vtable
    /\ UNCHANGED <<loaded, mem, ledger, instance, ring, reports, wronged, raced, used>>

\* The whole record is written back, whatever happened to it since.
WlRefresh(t) ==
    /\ At(t, {"Wl"}, "refresh")
    /\ LET f == Top(t) IN
       /\ Inserts(f.b, CHOOSE r \in f.rec : TRUE)
       /\ raced' = IF ledger[f.b] # f.rec THEN raced \cup {f.b} ELSE raced
    /\ Returns(t)
    /\ UNCHANGED <<loaded, mem, instance, ring, reports, wronged, used>>

\* An Insert of another address takes a freed record's cell.
Evict(b) ==
    /\ Freed(ledger[b])
    /\ ledger' = [ledger EXCEPT ![b] = {}]
    /\ UNCHANGED <<loaded, mem, instance, ring, stack, reports, wronged, raced, used>>

Game(t) == \/ \E heap \in {"mm", "sf"} : GameAllocates(t, heap)
           \/ \E b \in Blocks : GameFrees(t, b) \/ HkRelease(t, b) \/ GameReallocates(t, b) \/ GameUses(t, b)
Hook(t) == \/ OAllocate(t) \/ RecordAlloc(t) \/ FreeEnters(t) \/ FindForFree(t)
           \/ Mark(t) \/ OFree(t) \/ FreeReturns(t) \/ PublishScaleformFree(t) \/ OReallocate(t)
           \/ EraseOld(t) \/ RecordRealloc(t) \/ WlFind(t) \/ WlRefresh(t)
Finished == /\ loaded.phase = "running" /\ \A t \in Threads : stack[t] = <<>>
            /\ used.calls = Bound \/ \A b \in Blocks : mem[b].who = "leaked"
            /\ UNCHANGED vars
Next == PluginLoad \/ PostLoad \/ (\E t \in Threads : Game(t) \/ Hook(t)) \/ (\E b \in Blocks : Evict(b)) \/ Finished
Spec == Init /\ [][Next]_vars

(***************************************************************************)
(* Properties                                                              *)
(***************************************************************************)
\* GREEN is said only of a run in which every target is the committed function
\* and every hook that was asked for is in place.  With verification on, nothing
\* is detoured that is not the committed function, and no double-free report is
\* trusted unless the memory manager's functions are.
StartupIsHonest ==
    /\ loaded.out.health = "GREEN" =>
         loaded.genuine = Targets /\ loaded.out.installed = Wanted(config)
    /\ config.verifyTargets => loaded.out.installed \subseteq loaded.genuine
    /\ loaded.out.confidence = "kVerified" => MMTargets \subseteq loaded.genuine

\* In a GREEN run a trusted double-free report is about a block the game really
\* freed without owning it: neither hooks inside hooks, nor an address that came
\* back, nor a forgotten or refused record make up a second free.
TrustedReportIsRight ==
    loaded.out.health = "GREEN" => \A r \in reports : r.kind = "double-free" => r.right

InHook(b) == \E t \in Threads : \E i \in 1 .. Len(stack[t]) : b \in {stack[t][i].b, stack[t][i].new}

\* In a GREEN run no block that is back with the allocator is recorded as live,
\* once its hooks are done - unless a weak-library hook wrote a record back.
FreedIsRecorded ==
    loaded.out.health = "GREEN" =>
        \A b \in Blocks \ (wronged \cup raced) : (mem[b].who = "free" /\ ~InHook(b)) =>
            ledger[b] = {} \/ Freed(ledger[b])

\* The free record of an earlier block at an address never carries the instance
\* of the block that lives there now, although it is written after the address
\* was given back.
FreeRecordIsOld ==
    \A b \in Blocks \ wronged : (mem[b].who = "live" /\ instance.of[b] # 0) => instance.of[b] \notin ring[b]
=============================================================================
