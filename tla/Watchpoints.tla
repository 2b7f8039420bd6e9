---------------------------- MODULE Watchpoints ----------------------------
(* The watchpoint manager (Core/Watchpoints.cpp, Core/HwWatchpoint.cpp): the *)
(* sweeper promotes sampled allocations into the slot table and writes the   *)
(* table into the debug registers of every thread; a store to a watched      *)
(* block traps into HandleDebugException on the storing thread; the free     *)
(* hook releases slots; Shutdown disarms everybody.                          *)
(*                                                                           *)
(* One call into the slot table is one step (its seqlock is the subject of   *)
(* WatchpointSlots), and so is a run of steps of the sweeper that only it    *)
(* can observe: it is the only reader of the generation and of forceRearm.   *)
(* Everything else interleaves: a free is release, bump, flag, heap; a trap  *)
(* is entry, classification, bump, return; a sweep loads the generation,     *)
(* then each slot, then records and arms one thread at a time.               *)
(*                                                                           *)
(* A debug register is the address it watches, NoAddr when DR7 disables it.  *)
(* The context of a trap is saved at the trap and written back on return.    *)
(* Clocks are abstracted: the re-arm throttle, the hold time and the grace   *)
(* of stale reports are choices.  The generation counter is abstracted to    *)
(* the only question asked of it: whether a thread was armed with the value  *)
(* it has now (an entry's "current"), with an older one ("old") or never     *)
(* ("new", the code's 0).                                                    *)
EXTENDS Naturals, Sequences, FiniteSets

CONSTANTS Threads, Main,    \* thread ids of the game; the one that calls Shutdown
          Blocks, NoAddr,   \* addresses of allocations; the zero address
          NSlots,           \* kWatchpointSlotCount
          MaxThreads,       \* _maxThreads, the capacity of the thread table
          Capacity,         \* of the candidate ring
          MaxScan,          \* kMaxScan of WatchpointPlan::AlreadyQueued
          ArmAfterReports,  \* _armAfterReports; 0: armed without a trigger
          MayShutDown,      \* whether Shutdown is called
          MaxAllocs, MaxTraps,  \* bounds: allocations, #DBs
          MaxFaults         \* bound: failing OS calls and ending threads

ASSUME WatchAssumption ==
    /\ Main \in Threads /\ NoAddr \notin Blocks
    /\ {NSlots, MaxThreads, Capacity, MaxScan} \subseteq Nat \ {0}
    /\ {ArmAfterReports, MaxAllocs, MaxTraps, MaxFaults} \subseteq Nat
    /\ MayShutDown \in BOOLEAN

Slots == 0 .. NSlots - 1
Addr  == Blocks \cup {NoAddr}
Regs  == [Slots -> Addr]
Clear == [i \in Slots |-> NoAddr]

SlotRec == [addr : Addr, released : BOOLEAN]
Entry   == [tracked : BOOLEAN, gen : {"new", "old", "current"},
            mask : SUBSET Slots, arms : Regs]
Context == [regs : Regs, hit : Addr, mask : SUBSET Slots]
\* The sweeper's locals.  same: the threads armed with the generation it loaded;
\* moved: the counter has moved on since.
Sweep   == [n : 0 .. NSlots, back : BOOLEAN, force : BOOLEAN, open : BOOLEAN,
            same : SUBSET Threads, moved : BOOLEAN, left : SUBSET Slots, snap : Regs,
            todo : SUBSET Threads, cur : SUBSET Threads]

VARIABLES
    slot,            \* WatchpointSlots: slot -> SlotRec
    cand, unread,    \* WatchpointPlan: the last candidates queued; how many are not popped
                     \* (Capacity + 1: the ring was overrun)
    active, armRequested, reportEvents, stop, everProgrammed,
    forceRearm,
    entry,           \* _threads, by thread id
    reports,         \* WatchpointReports: the blocks of the recorded, undrained reports
    dr,              \* thread -> the watches in its registers
    pc, arg, ctx,    \* game thread: where it is, the block it frees, its trap
    swpc, sw,        \* the sweeper
    sd, sdTodo, stillArmed,  \* Shutdown
    alive, live,     \* environment: running threads, allocated blocks
    allocs, traps, faults,  \* used of the bounds
    overtaken,       \* history: "early", "late": registers written from outside during a trap
    missed           \* history: threads the OS did not let us arm or inspect last time

table  == <<slot, cand, unread>>
flags  == <<active, armRequested, reportEvents, stop, everProgrammed>>
game   == <<pc, arg, ctx>>
sweep  == <<swpc, sw>>
down   == <<sd, sdTodo, stillArmed>>
env    == <<alive, live>>
bounds == <<allocs, traps, faults>>
hist   == <<overtaken, missed>>
vars   == <<slot, cand, unread, active, armRequested, reportEvents, stop, everProgrammed,
            forceRearm, entry, reports, dr, pc, arg, ctx, swpc, sw, sd, sdTodo, stillArmed,
            alive, live, allocs, traps, faults, overtaken, missed>>

FreshEntry == [tracked |-> TRUE, gen |-> "new", mask |-> {}, arms |-> Clear]
NoTrap     == [regs |-> Clear, hit |-> NoAddr, mask |-> {}]
Asleep     == [n |-> 0, back |-> FALSE, force |-> FALSE, open |-> FALSE, same |-> {},
               moved |-> TRUE, left |-> {}, snap |-> Clear, todo |-> {}, cur |-> {}]

Init ==
    /\ slot = [i \in Slots |-> [addr |-> NoAddr, released |-> FALSE]]
    /\ cand = <<>> /\ unread = 0
    /\ active = FALSE /\ armRequested = (ArmAfterReports = 0) /\ reportEvents = 0
    /\ stop = FALSE /\ everProgrammed = FALSE
    /\ forceRearm = FALSE
    /\ entry = [t \in Threads |-> [FreshEntry EXCEPT !.tracked = FALSE]]
    /\ reports = {}
    /\ dr = [t \in Threads |-> Clear]
    /\ pc = [t \in Threads |-> "run"]
    /\ arg = [t \in Threads |-> NoAddr]
    /\ ctx = [t \in Threads |-> NoTrap]
    /\ swpc = "sleep" /\ sw = Asleep
    /\ sd = "no" /\ sdTodo = {} /\ stillArmed = FALSE
    /\ alive = Threads /\ live = {}
    /\ allocs = 0 /\ traps = 0 /\ faults = 0
    /\ overtaken = [t \in Threads |-> "no"] /\ missed = {}

Held(i)    == slot[i].addr # NoAddr /\ ~slot[i].released
HeldSlots  == {i \in Slots : Held(i)}
Lowest(S)  == CHOOSE i \in S : \A j \in S : i <= j
InTrap(t)  == pc[t] \in {"classify", "trapBump", "return"}
Goto(t, l) == pc' = [pc EXCEPT ![t] = l]

\* What Snapshot copies of slot i: released slots are left out.
Watched(i) == IF Held(i) THEN slot[i].addr ELSE NoAddr

\* Release: the first slot that holds the address and is not released.
HeldFor(a)  == {i \in HeldSlots : slot[i].addr = a}
Released(a) == [slot EXCEPT ![Lowest(HeldFor(a))].released = TRUE]

\* BumpGeneration: nobody is armed with the current generation any more.
Outdated == [t \in Threads |-> [entry[t] EXCEPT !.gen = IF @ = "current" THEN "old" ELSE @]]
BumpGeneration == entry' = Outdated /\ sw' = [sw EXCEPT !.moved = TRUE]

\* Something goes wrong outside the program.
Fault == faults < MaxFaults /\ faults' = faults + 1

(***************************************************************************)
(* The game: allocations, frees, report events, threads.                   *)
(***************************************************************************)
\* WatchpointPlan::Consider of a sampled pointer: queued unless it is among the
\* last MaxScan entries of the ring.
AlreadyQueued(a) ==
    \E s \in 1 .. Len(cand) : s + MaxScan > Len(cand) /\ cand[s] = a
Consider(a) ==
    IF AlreadyQueued(a)
    THEN UNCHANGED <<cand, unread>>
    ELSE /\ cand' = Append(IF Len(cand) = Capacity THEN Tail(cand) ELSE cand, a)
         /\ unread' = IF unread > Capacity THEN unread ELSE unread + 1

\* The allocation hook: OnScaleformAlloc considers the block while active.
OnScaleformAlloc(t, b) ==
    /\ t \in alive /\ pc[t] = "run" /\ allocs < MaxAllocs
    /\ b \notin live /\ \A u \in Threads : arg[u] # b
    /\ live' = live \cup {b} /\ allocs' = allocs + 1
    /\ \/ active /\ Consider(b)
       \/ UNCHANGED <<cand, unread>>                     \* inactive, unwatchable or not sampled
    /\ UNCHANGED <<slot, flags, forceRearm, entry, reports, dr, game, sweep, down,
                   alive, traps, faults, hist>>

\* The free hook, before the real free: OnScaleformFree releases the slot.
OnScaleformFree(t, b) ==
    /\ t \in alive /\ pc[t] = "run" /\ b \in live
    /\ live' = live \ {b}
    /\ IF active /\ HeldFor(b) # {}
       THEN /\ slot' = Released(b)
            /\ Goto(t, "bump") /\ arg' = [arg EXCEPT ![t] = b]
       ELSE UNCHANGED <<slot, pc, arg>>
    /\ UNCHANGED <<cand, unread, flags, forceRearm, entry, reports, dr, ctx, sweep,
                   down, alive, bounds, hist>>

\* RequestDisarm: bump the generation, then ask for a forced sweep; the real
\* free follows.
RequestDisarmBump(t) ==
    /\ pc[t] = "bump" /\ BumpGeneration /\ Goto(t, "force")
    /\ UNCHANGED <<table, flags, forceRearm, reports, dr, arg, ctx, swpc, down, env, bounds,
                   hist>>

RequestDisarmNoForce(t) ==                                       \* mutant: no forced sweep
    /\ pc[t] = "force" /\ Goto(t, "run") /\ arg' = [arg EXCEPT ![t] = NoAddr]
    /\ UNCHANGED <<table, flags, forceRearm, entry, reports, dr, ctx, sweep, down,
                   env, bounds, hist>>
RequestDisarmForce(t) ==
    /\ pc[t] = "force" /\ forceRearm' = TRUE
    /\ Goto(t, "run") /\ arg' = [arg EXCEPT ![t] = NoAddr]
    /\ UNCHANGED <<table, flags, entry, reports, dr, ctx, sweep, down, env, bounds, hist>>

NotifyReportEvent ==
    /\ reportEvents < ArmAfterReports /\ sd = "no"
    /\ reportEvents' = reportEvents + 1
    /\ armRequested' = (armRequested \/ reportEvents + 1 >= ArmAfterReports)
    /\ UNCHANGED <<table, active, stop, everProgrammed, forceRearm, entry, reports,
                   dr, game, sweep, down, env, bounds, hist>>

\* A thread ends; later another one may get its id.  Ids are not reused while a
\* handle is open.
Exit(t) ==
    /\ t \in alive /\ pc[t] = "run"
    /\ Fault /\ alive' = alive \ {t}
    /\ dr' = [dr EXCEPT ![t] = Clear]
    /\ overtaken' = [overtaken EXCEPT ![t] = "no"]
    /\ UNCHANGED <<table, flags, forceRearm, entry, reports, game, sweep, down,
                   live, allocs, traps, missed>>

Start(t) ==
    /\ t \notin alive /\ t \notin sw.cur
    /\ alive' = alive \cup {t}
    /\ UNCHANGED <<table, flags, forceRearm, entry, reports, dr, game, sweep, down,
                   live, bounds, hist>>

(***************************************************************************)
(* The trap handler, HandleDebugException.                                 *)
(***************************************************************************)
\* The entry: consume everything once a register was ever programmed
\* (MustConsumeDebugException), then load this thread's arm mask.  hit is the
\* block stored to; NoAddr stands for a single step that is not ours.
DebugException(t, hit) ==
    /\ traps' = traps + 1
    /\ ctx' = [ctx EXCEPT ![t] = [regs |-> dr[t], hit |-> hit,
                                  mask |-> IF entry[t].tracked THEN entry[t].mask ELSE {}]]
    /\ Goto(t, IF everProgrammed THEN "classify" ELSE "search")
    /\ UNCHANGED <<table, flags, forceRearm, entry, reports, dr, arg, sweep, down,
                   env, allocs, faults, hist>>

CanTrap(t) == t \in alive /\ pc[t] = "run" /\ traps < MaxTraps

Store(t) == CanTrap(t) /\ \E i \in Slots : dr[t][i] # NoAddr /\ DebugException(t, dr[t][i])
SingleStep(t) == CanTrap(t) /\ DebugException(t, NoAddr)

\* CONTINUE_SEARCH: somebody else's handler takes it.
PassedOn(t) ==
    /\ pc[t] = "search" /\ Goto(t, "run")
    /\ UNCHANGED <<table, flags, forceRearm, entry, reports, dr, arg, ctx, sweep,
                   down, env, bounds, hist>>

\* ClassifyTrapOwner: the live table first, then what this thread was armed with.
ClassifyTrapOwner(t, i) ==
    LET a == ctx[t].regs[i]
    IN CASE a = NoAddr -> "foreign"
         [] a # NoAddr /\ slot[i].addr = a ->
                IF slot[i].released THEN "tableReleased" ELSE "tableCurrent"
         [] a # NoAddr /\ slot[i].addr # a /\ i \in ctx[t].mask ->
                IF entry[t].arms[i] = a THEN "staleThreadArm" ELSE "staleBareArm"
         [] OTHER -> "foreign"

\* Dr6: the registers that watch the block stored to.
Hits(t)  == {i \in Slots : ctx[t].hit # NoAddr /\ ctx[t].regs[i] = ctx[t].hit}
Ours(t)  == {i \in Hits(t) : ClassifyTrapOwner(t, i) # "foreign"}
Stale(t) == {i \in Hits(t) : ClassifyTrapOwner(t, i) \in {"staleThreadArm", "staleBareArm"}}

\* The loop over DR6.  rec: the writes that may be a clobbered code pointer, are
\* not the allocator's and, from a stale register, are recent.
Classify(t) ==
    /\ pc[t] = "classify" /\ Goto(t, "trapBump")
    /\ \E rec \in SUBSET Ours(t) :
        /\ reports' = IF sd = "done" \/ rec = {} THEN reports ELSE reports \cup {ctx[t].hit}
        /\ ctx' = [ctx EXCEPT ![t].regs =
                       [i \in Slots |-> IF i \in Stale(t) \cup rec THEN NoAddr ELSE @[i]]]
        /\ forceRearm' = (\/ forceRearm
                          \/ \E i \in Ours(t) : ClassifyTrapOwner(t, i) # "tableCurrent")
    /\ UNCHANGED <<table, flags, entry, dr, arg, sweep, down, env, bounds, hist>>

TrapBump(t) ==
    /\ pc[t] = "trapBump" /\ BumpGeneration /\ Goto(t, "return")
    /\ UNCHANGED <<table, flags, forceRearm, reports, dr, arg, ctx, swpc, down, env, bounds,
                   hist>>

\* CONTINUE_EXECUTION: the registers of the context are the thread's again.
Return(t) ==
    /\ pc[t] = "return" /\ Goto(t, "run")
    /\ dr' = [dr EXCEPT ![t] = ctx[t].regs]
    /\ ctx' = [ctx EXCEPT ![t] = NoTrap]
    /\ UNCHANGED <<table, flags, forceRearm, entry, reports, arg, sweep, down, env, bounds,
                   hist>>

(***************************************************************************)
(* The sweeper.                                                            *)
(***************************************************************************)
\* SweeperLoop: wake up, look at stop.
Wake ==
    /\ swpc = "sleep"
    /\ swpc' = IF stop THEN "stopped" ELSE "once"
    /\ sw' = Asleep
    /\ UNCHANGED <<table, flags, forceRearm, entry, reports, dr, game, down, env, bounds, hist>>

\* The head of SweepOnce: ArmRequested turns the manager on and sweeps at once, by
\* force.
SweepOnce ==
    /\ swpc = "once"
    /\ \/ /\ ~active /\ armRequested
          /\ active' = TRUE /\ swpc' = "enumerate"
          /\ sw' = [sw EXCEPT !.force = TRUE, !.back = TRUE]
       \/ /\ active \/ ~armRequested
          /\ swpc' = "check" /\ UNCHANGED <<active, sw>>
    /\ UNCHANGED <<table, armRequested, reportEvents, stop, everProgrammed, forceRearm,
                   entry, reports, dr, game, down, env, bounds, hist>>

\* An inactive manager does nothing.
CheckActive ==
    /\ swpc = "check" /\ swpc' = IF active THEN "promote" ELSE "sleep"
    /\ UNCHANGED <<table, flags, forceRearm, entry, reports, dr, game, sw, down, env,
                   bounds, hist>>

\* PopCandidate: an overrun cursor is set to the oldest candidate still in the
\* ring, and the next one is taken.
Remaining == IF unread > Capacity THEN Capacity - 1 ELSE unread
Popped    == cand[Len(cand) - Remaining + 1]

\* One round of PromoteCandidates: Claim takes the lowest free slot.
Promote ==
    /\ swpc = "promote" /\ sw.n < NSlots /\ HeldSlots # Slots /\ Remaining > 0
    /\ slot' = [slot EXCEPT ![Lowest(Slots \ HeldSlots)] = [addr |-> Popped, released |-> FALSE]]
    /\ unread' = Remaining - 1
    /\ entry' = Outdated /\ sw' = [sw EXCEPT !.n = @ + 1]
    /\ UNCHANGED <<cand, flags, forceRearm, reports, dr, game, swpc, down, env, bounds, hist>>

\* The table is full, or the ring is empty, or every slot had its round.
Promoted ==
    /\ swpc = "promote" /\ ~(sw.n < NSlots /\ HeldSlots # Slots /\ Remaining > 0)
    /\ unread' = IF sw.n < NSlots /\ HeldSlots # Slots THEN Remaining ELSE unread
    /\ swpc' = "rotate" /\ sw' = [sw EXCEPT !.n = 0]
    /\ UNCHANGED <<slot, cand, flags, forceRearm, entry, reports, dr, game, down, env, bounds,
                   hist>>

\* RotateHeld, when the hold time of a slot is over; then the exchange of forceRearm.
RotateHeld ==
    /\ swpc = "rotate" /\ swpc' = "enumerate"
    /\ \/ /\ \E i \in HeldSlots : slot' = Released(slot[i].addr)
          /\ entry' = Outdated
          /\ sw' = [sw EXCEPT !.force = TRUE]
       \/ UNCHANGED <<slot, entry>> /\ sw' = [sw EXCEPT !.force = forceRearm]
    /\ forceRearm' = FALSE
    /\ UNCHANGED <<cand, unread, flags, reports, dr, game, down, env, bounds, hist>>

\* SweepThreads: enumerate the threads (nothing when the OS refuses), load the
\* generation, look at the throttle.
SweepThreads(open) ==
    /\ swpc = "enumerate" /\ swpc' = "snapshot"
    /\ \E tids \in {alive, {}} :
        /\ \/ tids = alive /\ UNCHANGED <<faults, missed>>
           \/ tids # alive /\ Fault /\ missed' = Threads
        /\ sw' = [sw EXCEPT !.todo = tids, !.left = Slots, !.snap = Clear, !.moved = FALSE,
                            !.same = {t \in Threads : entry[t].gen = "current"},
                            !.open = (open \/ sw.force)]
    /\ UNCHANGED <<table, flags, forceRearm, entry, reports, dr, game, down, env, allocs,
                   traps, overtaken>>

\* Snapshot, slot by slot.
Snapshot ==
    /\ swpc = "snapshot" /\ sw.left # {}
    /\ LET i == Lowest(sw.left)
       IN sw' = [sw EXCEPT !.left = @ \ {i}, !.snap[i] = Watched(i)]
    /\ UNCHANGED <<table, flags, forceRearm, entry, reports, dr, game, swpc, down,
                   env, bounds, hist>>

\* From here on every #DB is ours: set before any register is written.
FlagNotSet ==                                             \* mutant: the flag is not set
    /\ swpc = "snapshot" /\ sw.left = {} /\ swpc' = "threads"
    /\ UNCHANGED <<table, flags, forceRearm, entry, reports, dr, game, sw, down, env, bounds,
                   hist>>
FlagReloads ==                     \* mutant: the generation is loaded after the snapshot
    /\ swpc = "snapshot" /\ sw.left = {} /\ swpc' = "threads"
    /\ everProgrammed' = (everProgrammed \/ sw.snap # Clear)
    /\ sw' = [sw EXCEPT !.moved = FALSE]
    /\ UNCHANGED <<table, active, armRequested, reportEvents, stop, forceRearm, entry,
                   reports, dr, game, down, env, bounds, hist>>
SetEverProgrammed ==
    /\ swpc = "snapshot" /\ sw.left = {} /\ swpc' = "threads"
    /\ everProgrammed' = (everProgrammed \/ sw.snap # Clear)
    /\ UNCHANGED <<table, active, armRequested, reportEvents, stop, forceRearm, entry,
                   reports, dr, game, sw, down, env, bounds, hist>>

Tracked    == {t \in Threads : entry[t].tracked}
EntryOf(t) == IF entry[t].tracked THEN entry[t] ELSE FreshEntry
Full(t)    == ~entry[t].tracked /\ Cardinality(Tracked) >= MaxThreads

\* Already armed with this generation, or deferred by the throttle.
UpToDate(t) == /\ EntryOf(t).gen # "new"
               /\ t \in sw.same \/ ~sw.open

SkipThread(t) ==
    /\ swpc = "threads" /\ t \in sw.todo
    /\ Full(t) \/ UpToDate(t)
    /\ sw' = [sw EXCEPT !.todo = @ \ {t}]
    /\ UNCHANGED <<table, flags, forceRearm, entry, reports, dr, game, swpc, down,
                   env, bounds, hist>>

\* A call of the OS fails for a thread that is gone, and now and then otherwise.
OsFails(t) == IF t \in alive THEN Fault ELSE UNCHANGED faults

OpenThreadFails(t) ==
    /\ swpc = "threads" /\ t \in sw.todo /\ ~Full(t) /\ ~UpToDate(t)
    /\ OsFails(t) /\ missed' = missed \cup {t}
    /\ entry' = [entry EXCEPT ![t] = [EntryOf(t) EXCEPT !.gen = "new"]]
    /\ sw' = [sw EXCEPT !.todo = @ \ {t}]
    /\ UNCHANGED <<table, flags, forceRearm, reports, dr, game, swpc, down, env, allocs,
                   traps, overtaken>>

\* What this thread is about to be armed with is recorded before the hardware.
RecordNothing(t) == EntryOf(t)                               \* mutant: the arm is not recorded
RecordedArm(t) ==
    [EntryOf(t) EXCEPT !.mask = @ \cup {i \in Slots : sw.snap[i] # NoAddr},
                       !.arms = [i \in Slots |-> IF sw.snap[i] = NoAddr THEN @[i]
                                                 ELSE sw.snap[i]]]

OpenThread(t) ==
    /\ swpc = "threads" /\ t \in sw.todo /\ ~Full(t) /\ ~UpToDate(t)
    /\ t \in alive
    /\ entry' = [entry EXCEPT ![t] = RecordedArm(t)]
    /\ swpc' = "arm" /\ sw' = [sw EXCEPT !.todo = @ \ {t}, !.cur = {t}]
    /\ UNCHANGED <<table, flags, forceRearm, reports, dr, game, down, env,
                   bounds, hist>>

\* The generation loaded at the beginning of the sweep, as of now.
LoadedGeneration == IF sw.moved THEN "old" ELSE "current"

\* Registers written from outside while the thread is in its handler are
\* overwritten when it returns.
Outside(t) == overtaken' = [overtaken EXCEPT ![t] = CASE pc[t] = "return" -> "late"
                                                      [] InTrap(t) /\ pc[t] # "return" -> "early"
                                                      [] OTHER -> "no"]

ArmThread(t) ==
    /\ swpc = "arm" /\ t \in sw.cur /\ t \in alive
    /\ dr' = [dr EXCEPT ![t] = sw.snap] /\ Outside(t)
    /\ entry' = [entry EXCEPT ![t].gen = LoadedGeneration]
    /\ missed' = missed \ {t}
    /\ swpc' = "threads" /\ sw' = [sw EXCEPT !.cur = {}]
    /\ UNCHANGED <<table, flags, forceRearm, reports, game, down, env, bounds>>

ArmThreadStored(t) ==              \* mutant: the generation is stored although it failed
    /\ swpc = "arm" /\ t \in sw.cur
    /\ OsFails(t) /\ missed' = missed \cup {t}
    /\ entry' = [entry EXCEPT ![t].gen = LoadedGeneration]
    /\ swpc' = "threads" /\ sw' = [sw EXCEPT !.cur = {}]
    /\ UNCHANGED <<table, flags, forceRearm, reports, dr, game, down, env, allocs, traps,
                   overtaken>>
ArmThreadFails(t) ==
    /\ swpc = "arm" /\ t \in sw.cur
    /\ OsFails(t) /\ missed' = missed \cup {t}
    /\ swpc' = "threads" /\ sw' = [sw EXCEPT !.cur = {}]
    /\ UNCHANGED <<table, flags, forceRearm, entry, reports, dr, game, down, env, allocs,
                   traps, overtaken>>

\* The sweep is over: back to SweepOnce, or on to the reports.
SweptAll ==
    /\ swpc = "threads" /\ sw.todo = {}
    /\ swpc' = IF sw.back THEN "check" ELSE "drain"
    /\ sw' = Asleep
    /\ UNCHANGED <<table, flags, forceRearm, entry, reports, dr, game, down, env, bounds, hist>>

\* DrainReports, one report: discarded, or a clobbered code pointer, whose slot
\* is released (and marked tripped, which changes nothing for a released slot).
DrainReport ==
    /\ swpc = "drain"
    /\ \E a \in reports :
        /\ reports' = reports \ {a}
        /\ \/ /\ HeldFor(a) # {}
              /\ slot' = Released(a)
              /\ entry' = Outdated /\ forceRearm' = TRUE
           \/ UNCHANGED <<slot, entry, forceRearm>>
    /\ UNCHANGED <<cand, unread, flags, dr, game, swpc, sw, down, env, bounds, hist>>

\* The drain ends at a report that is still being written, or after 16.
Sleep ==
    /\ swpc = "drain" /\ swpc' = "sleep"
    /\ UNCHANGED <<table, flags, forceRearm, entry, reports, dr, game, sw, down, env, bounds,
                   hist>>

Sweeper ==
    \/ Wake \/ SweepOnce \/ CheckActive \/ Promote \/ Promoted \/ RotateHeld
    \/ \E open \in BOOLEAN : SweepThreads(open)
    \/ Snapshot \/ SetEverProgrammed \/ SweptAll \/ DrainReport \/ Sleep
    \/ \E t \in Threads : \/ SkipThread(t) \/ OpenThreadFails(t) \/ OpenThread(t)
                          \/ ArmThread(t) \/ ArmThreadFails(t)

(***************************************************************************)
(* Shutdown.                                                               *)
(***************************************************************************)
Deactivate ==
    /\ MayShutDown /\ sd = "no" /\ sd' = "stop"
    /\ Main \in alive /\ pc[Main] = "run" /\ Goto(Main, "shutdown")
    /\ active' = FALSE
    /\ UNCHANGED <<table, armRequested, reportEvents, stop, everProgrammed, forceRearm, entry,
                   reports, dr, arg, ctx, sweep, sdTodo, stillArmed, env, bounds, hist>>

Down(l, m) == pc[Main] = "shutdown" /\ sd = l /\ sd' = m

StopSweeper ==
    /\ Down("stop", "join")
    /\ stop' = TRUE
    /\ UNCHANGED <<table, active, armRequested, reportEvents, everProgrammed, forceRearm,
                   entry, reports, dr, game, sweep, sdTodo, stillArmed, env, bounds, hist>>

\* EnumerateProcessThreads: nobody when the OS refuses.
Enumerate(tids) == \/ tids = alive /\ UNCHANGED faults
                   \/ tids = {} /\ Fault

\* join, then enumerate.
JoinSkipped ==                                   \* mutant: the sweeper is not joined
    /\ Down("join", "disarm") /\ sdTodo' \in {alive, {}} /\ Enumerate(sdTodo')
    /\ UNCHANGED <<table, flags, forceRearm, entry, reports, dr, game, sweep, stillArmed, env,
                   allocs, traps, hist>>
Join ==
    /\ Down("join", "disarm") /\ swpc = "stopped"
    /\ sdTodo' \in {alive, {}} /\ Enumerate(sdTodo')
    /\ UNCHANGED <<table, flags, forceRearm, entry, reports, dr, game, sweep, stillArmed, env,
                   allocs, traps, hist>>

\* OpenThread and DisarmThread, which suspends the thread first.  A thread that
\* cannot be opened, suspended or written is left as it is.  The calling thread is
\* among the threads: it suspends itself, and nobody resumes it.
DisarmThread(t) ==
    /\ Down("disarm", "disarm") /\ t \in sdTodo /\ sdTodo' = sdTodo \ {t}
    /\ \/ /\ t \in alive \ {Main} /\ dr' = [dr EXCEPT ![t] = Clear] /\ Outside(t)
          /\ UNCHANGED <<pc, faults>>
       \/ OsFails(t) /\ UNCHANGED <<dr, pc, overtaken>>
       \/ t = Main /\ Goto(t, "suspended") /\ UNCHANGED <<dr, faults, overtaken>>
    /\ UNCHANGED <<table, flags, forceRearm, entry, reports, arg, ctx, sweep, stillArmed, env,
                   allocs, traps, missed>>

DisarmCurrentThread ==
    /\ Down("disarm", "disarmed") /\ sdTodo = {}
    /\ \/ dr' = [dr EXCEPT ![Main] = Clear] /\ UNCHANGED faults
       \/ Fault /\ UNCHANGED dr
    /\ UNCHANGED <<table, flags, forceRearm, entry, reports, game, sweep, sdTodo, stillArmed,
                   env, allocs, traps, hist>>

\* VerifyAllThreadsDisarmed: enumerate, then look at each thread that can be read.
Verify ==
    /\ Down("disarmed", "verify") /\ sdTodo' \in {alive, {Main}}
    /\ Enumerate(IF sdTodo' = alive THEN alive ELSE {}) /\ missed' = alive \ sdTodo'
    /\ UNCHANGED <<table, flags, forceRearm, entry, reports, dr, game, sweep, stillArmed, env,
                   allocs, traps, overtaken>>

VerifyThread(t) ==
    /\ Down("verify", "verify") /\ t \in sdTodo /\ sdTodo' = sdTodo \ {t}
    /\ \/ /\ t \in alive /\ stillArmed' = (stillArmed \/ dr[t] # Clear)
          /\ UNCHANGED <<faults, missed>>
       \/ OsFails(t) /\ missed' = missed \cup {t} /\ UNCHANGED stillArmed
    /\ UNCHANGED <<table, flags, forceRearm, entry, reports, dr, game, sweep, env,
                   allocs, traps, overtaken>>

\* ClearAll and the shutdown of the report ring.
ClearAll ==
    /\ Down("verify", "done") /\ sdTodo = {} /\ Goto(Main, "run")
    /\ slot' = [i \in Slots |-> IF slot[i].released THEN slot[i]
                                ELSE [addr |-> NoAddr, released |-> TRUE]]
    /\ reports' = {}
    /\ UNCHANGED <<cand, unread, flags, forceRearm, entry, dr, arg, ctx, sweep, sdTodo,
                   stillArmed, env, bounds, hist>>

InShutdown ==
    \/ StopSweeper \/ Join \/ DisarmCurrentThread \/ Verify \/ ClearAll
    \/ \E t \in Threads : DisarmThread(t) \/ VerifyThread(t)

\* What a game thread has begun it finishes.
InCall(t) ==
    \/ RequestDisarmBump(t) \/ RequestDisarmForce(t)
    \/ PassedOn(t) \/ Classify(t) \/ TrapBump(t) \/ Return(t)

Game(t) ==
    \/ \E b \in Blocks : OnScaleformAlloc(t, b) \/ OnScaleformFree(t, b)
    \/ Store(t) \/ SingleStep(t) \/ Exit(t) \/ Start(t)

\* Nothing left to do: Shutdown is over, or will never be.
Finished == (sd = "done" \/ pc[Main] = "suspended") /\ UNCHANGED vars

Next ==
    \/ Sweeper \/ Deactivate \/ InShutdown \/ NotifyReportEvent
    \/ \E t \in Threads : InCall(t) \/ Game(t)
    \/ Finished

Spec == Init /\ [][Next]_vars

\* The sweeper runs, time passes (the throttle opens again and again), and game
\* threads finish their handlers and hooks.
Fairness ==
    /\ WF_vars(Sweeper) /\ SF_vars(SweepThreads(TRUE)) /\ WF_vars(InShutdown)
    /\ \A t \in Threads : WF_vars(InCall(t))
FairSpec == Spec /\ Fairness

(***************************************************************************)
(* Properties.                                                             *)
(***************************************************************************)
\* A trap of a register that we programmed is never handed to the next handler,
\* where it would kill the game (the structural rule of HandleDebugException,
\* with _everProgrammedAnyDr set before the first ArmThread).
OwnTrapConsumed == \A t \in Threads : pc[t] = "search" => ctx[t].hit = NoAddr

\* A trap of a register that we programmed is always attributed: whatever the
\* table and the sweeper do meanwhile, the arm recorded for the thread before its
\* hardware was written identifies the slot.
OwnTrapAttributed ==
    \A t \in Threads : pc[t] = "classify" /\ ctx[t].hit # NoAddr => Ours(t) # {}

\* A register that holds an address its slot has given up.
Retired(t, i) == dr[t][i] # NoAddr /\ dr[t][i] # Watched(i)

\* A thread whose registers hold a retired address is not up to date in the
\* thread table: its generation differs from the current one or will once the
\* release under way has bumped it, so a later sweep writes it again.  The one
\* exception is a sweep that writes the registers of a thread after its trap
\* handler bumped the generation and before the handler returned.
RetiredIsNotCurrent ==
    \A t \in alive : \A i \in Slots :
        Retired(t, i) /\ sd = "no" /\ ~InTrap(t) /\ overtaken[t] # "late" =>
            \/ entry[t].gen # "current"
            \/ \E u \in Threads : pc[u] \in {"bump", "trapBump"}

\* A retired address is cleared by the next sweep, throttle or not (the forced
\* sweep that RequestDisarm asks for): the request is being made or stands, or
\* the sweep that took it has not reached the thread yet.  Exceptions: the OS
\* refused to open or to write the thread, or the sweep wrote it inside its trap.
RetiredIsOwed ==
    \A t \in alive : \A i \in Slots :
        Retired(t, i) /\ sd = "no" /\ ~InTrap(t) /\ overtaken[t] = "no" /\ t \notin missed =>
            \/ forceRearm
            \/ \E u \in Threads : pc[u] \in {"bump", "force"}
            \/ /\ sw.force
               /\ \/ swpc \in {"enumerate", "snapshot"}
                  \/ t \in sw.todo \cup sw.cur

\* And it does leave the register, also when the OS refused now and then
\* (or the thread is one that was written inside its trap).
RetiredLeaves ==
    \A t \in Threads : \A i \in Slots :
        Retired(t, i) ~> (~Retired(t, i) \/ overtaken[t] # "no" \/ sd # "no")

\* When Shutdown found nothing armed, nothing is armed: every thread that runs,
\* could be inspected and was not in its trap handler when it was disarmed has
\* clear registers, for good.
ShutdownClear ==
    sd = "done" /\ ~stillArmed =>
        \A t \in alive \ missed : overtaken[t] # "no" \/ dr[t] = Clear

\* Shutdown reaches its assertion and returns: "disarms every thread it can open,
\* disarms the calling thread, and then asserts the final state" (DESIGN.md).
ShutdownReturns == sd = "stop" ~> sd = "done"

\* "The slot table itself rejects the same address twice" (WatchpointPlan.cpp, where
\* duplicates are let into the queue on the word of it): no two slots are held for
\* one block.
OneSlotPerBlock ==
    \A i, j \in HeldSlots : slot[i].addr = slot[j].addr => i = j
=============================================================================
