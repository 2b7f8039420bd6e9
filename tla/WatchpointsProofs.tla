------------------------- MODULE WatchpointsProofs -------------------------
(* For every number of threads, slots and blocks: a trap of a register that  *)
(* the manager programmed never leaves HandleDebugException unconsumed and   *)
(* is always attributed to a slot; a register that holds an address its slot *)
(* has given up is out of date and owed a forced sweep; and what Shutdown    *)
(* verified to be clear stays clear.  The first needs ConsumeInv, the others *)
(* WatchInv.                                                                 *)
EXTENDS Watchpoints, WellFoundedInduction, TLAPS

(* The functions and records of the model have the fields the argument uses. *)
Shape ==
    /\ DOMAIN dr = Threads /\ DOMAIN ctx = Threads /\ DOMAIN pc = Threads
    /\ "snap" \in DOMAIN sw
    /\ \A t \in Threads : {"regs", "hit"} \subseteq DOMAIN ctx[t]
    /\ everProgrammed \in BOOLEAN

(* As long as the flag is down no watch is anywhere on its way: not in a      *)
(* register, not in a saved context that a return will write back, not in    *)
(* the snapshot that the sweep writes.                                       *)
NothingProgrammed ==
    /\ \A t \in Threads : dr[t] = Clear /\ ctx[t].regs = Clear
    /\ swpc \in {"threads", "arm"} => sw.snap = Clear

ConsumeInv == Shape /\ (everProgrammed \/ NothingProgrammed) /\ OwnTrapConsumed

----------------------------------------------------------------------------
\* The states Init leaves behind: nothing is programmed, nobody is in a trap.
LEMMA InitConsume == Init => ConsumeInv
  <1> SUFFICES ASSUME Init PROVE ConsumeInv
    OBVIOUS
  <1>1. /\ everProgrammed = FALSE /\ swpc = "sleep" /\ sw = Asleep
        /\ dr = [t \in Threads |-> Clear] /\ ctx = [t \in Threads |-> NoTrap]
        /\ pc = [t \in Threads |-> "run"]
    BY Zenon DEF Init
  <1> QED BY <1>1 DEF ConsumeInv, Shape, NothingProgrammed, OwnTrapConsumed, NoTrap, Asleep

\* Steps that write no register, no context and no snapshot, and send no trap on.
LEMMA QuietStep ==
    ASSUME ConsumeInv, UNCHANGED <<everProgrammed, dr, ctx>>,
           DOMAIN pc' = Threads,
           \A t \in Threads : pc'[t] = "search" => pc[t] = "search",
           "snap" \in DOMAIN sw',
           swpc' \in {"threads", "arm"} => swpc \in {"threads", "arm"} /\ sw'.snap = sw.snap
    PROVE  ConsumeInv'
  BY DEF ConsumeInv, Shape, NothingProgrammed, OwnTrapConsumed

\* The hooks and the environment.
LEMMA GameStep ==
    ASSUME ConsumeInv, NEW t \in Threads, InCall(t) \/ Game(t)
    PROVE  ConsumeInv'
  <1> USE DEF table, flags, game, sweep, down, env, bounds, hist, Goto
  <1>0. Shape BY DEF ConsumeInv
  <1>1. CASE \E b \in Blocks : OnScaleformAlloc(t, b) \/ OnScaleformFree(t, b)
    <2>1. /\ UNCHANGED <<everProgrammed, dr, ctx, swpc, sw>> /\ DOMAIN pc' = Threads
          /\ \A u \in Threads : pc'[u] = "search" => pc[u] = "search"
      BY <1>0, <1>1 DEF OnScaleformAlloc, OnScaleformFree, Shape
    <2> QED BY <1>0, <2>1, QuietStep DEF Shape
  <1>2. CASE RequestDisarmBump(t) \/ RequestDisarmForce(t) \/ PassedOn(t) \/ TrapBump(t)
    <2>1. /\ UNCHANGED <<everProgrammed, dr, ctx, swpc>> /\ DOMAIN pc' = Threads
          /\ \A u \in Threads : pc'[u] = "search" => pc[u] = "search"
      BY <1>0, <1>2 DEF RequestDisarmBump, RequestDisarmForce, PassedOn, TrapBump, Shape
    <2>2. sw'.snap = sw.snap /\ "snap" \in DOMAIN sw'
      BY <1>0, <1>2 DEF RequestDisarmBump, RequestDisarmForce, PassedOn, TrapBump,
                        BumpGeneration, Shape
    <2> QED BY <2>1, <2>2, QuietStep
  <1>3. CASE Classify(t)
    <2>1. PICK rec : ctx' = [ctx EXCEPT ![t].regs =
                        [i \in Slots |-> IF i \in Stale(t) \cup rec THEN NoAddr ELSE @[i]]]
      BY <1>3 DEF Classify
    <2>2. /\ UNCHANGED <<everProgrammed, dr, swpc, sw>> /\ pc' = [pc EXCEPT ![t] = "trapBump"]
      BY <1>3 DEF Classify
    <2>3. \A u \in Threads : /\ ctx'[u].hit = ctx[u].hit
                             /\ {"regs", "hit"} \subseteq DOMAIN ctx'[u]
      BY <1>0, <2>1 DEF Shape
    <2>4. ASSUME NEW u \in Threads, ctx[u].regs = Clear PROVE ctx'[u].regs = Clear
      <3>1. CASE u # t BY <1>0, <2>1, <2>4, <3>1 DEF Shape
      <3>2. CASE u = t
        <4>1. ctx'[t].regs = [i \in Slots |-> IF i \in Stale(t) \cup rec THEN NoAddr
                                              ELSE ctx[t].regs[i]]
          BY <1>0, <2>1 DEF Shape
        <4>2. \A i \in Slots : ctx[t].regs[i] = NoAddr BY <2>4, <3>2 DEF Clear
        <4> QED BY <3>2, <4>1, <4>2 DEF Clear
      <3> QED BY <3>1, <3>2
    <2>5. DOMAIN ctx' = Threads BY <1>0, <2>1 DEF Shape
    <2> QED BY <2>2, <2>3, <2>4, <2>5 DEF ConsumeInv, Shape, NothingProgrammed, OwnTrapConsumed
  <1>4. CASE Return(t)
    BY <1>4 DEF Return, NoTrap, ConsumeInv, Shape, NothingProgrammed, OwnTrapConsumed
  <1>5. CASE Store(t)
    <2>1. PICK i \in Slots : dr[t][i] # NoAddr /\ DebugException(t, dr[t][i])
      BY <1>5 DEF Store
    <2>2. everProgrammed
      BY <2>1 DEF ConsumeInv, NothingProgrammed, Clear
    <2> QED BY <2>1, <2>2 DEF DebugException, ConsumeInv, Shape, OwnTrapConsumed
  <1>6. CASE SingleStep(t)
    BY <1>6 DEF SingleStep, DebugException, ConsumeInv, Shape, NothingProgrammed, OwnTrapConsumed
  <1>7. CASE Exit(t)
    BY <1>7 DEF Exit, ConsumeInv, Shape, NothingProgrammed, OwnTrapConsumed
  <1>8. CASE Start(t)
    <2>1. UNCHANGED <<everProgrammed, dr, ctx, pc, swpc, sw>>
      BY <1>8 DEF Start
    <2> QED BY <1>0, <2>1, QuietStep DEF Shape
  <1> QED BY <1>1, <1>2, <1>3, <1>4, <1>5, <1>6, <1>7, <1>8 DEF InCall, Game

\* The sweeper: the flag goes up before the snapshot reaches a register.
LEMMA SweeperStep ==
    ASSUME ConsumeInv, Sweeper PROVE ConsumeInv'
  <1> USE DEF table, flags, game, sweep, down, env, bounds, hist
  <1>0. Shape BY DEF ConsumeInv
  <1>1. CASE Wake \/ SweepOnce \/ CheckActive \/ Promote \/ Promoted \/ RotateHeld
             \/ (\E open \in BOOLEAN : SweepThreads(open)) \/ Snapshot \/ SweptAll
             \/ DrainReport \/ Sleep
    <2>1. UNCHANGED <<everProgrammed, dr, ctx, pc>>
      BY Zenon, <1>1 DEF Wake, SweepOnce, CheckActive, Promote, Promoted, RotateHeld,
             SweepThreads, Snapshot, SweptAll, DrainReport, Sleep
    <2>2. swpc' \notin {"threads", "arm"}
      <3>1. \/ swpc' \in {"stopped", "once", "enumerate", "check", "promote", "sleep", "rotate",
                         "snapshot", "drain"}
            \/ swpc' = swpc /\ swpc \in {"promote", "snapshot", "drain"}
        BY Zenon, <1>1 DEF Wake, SweepOnce, CheckActive, Promote, Promoted, RotateHeld,
               SweepThreads, Snapshot, SweptAll, DrainReport, Sleep
      <3> QED BY <3>1
    <2>3. "snap" \in DOMAIN sw'
      <3>1. CASE Wake \/ SweptAll BY <3>1 DEF Wake, SweptAll, Asleep
      <3>2. CASE CheckActive \/ DrainReport \/ Sleep
        BY <1>0, <3>2 DEF CheckActive, DrainReport, Sleep, Shape
      <3>3. CASE SweepOnce BY Zenon, <1>0, <3>3 DEF SweepOnce, Shape
      <3>4. CASE Promote BY Zenon, <1>0, <3>4 DEF Promote, Shape
      <3>5. CASE Promoted BY Zenon, <1>0, <3>5 DEF Promoted, Shape
      <3>6. CASE RotateHeld BY Zenon, <1>0, <3>6 DEF RotateHeld, Shape
      <3>7. CASE \E open \in BOOLEAN : SweepThreads(open)
        BY Zenon, <1>0, <3>7 DEF SweepThreads, Shape
      <3>8. CASE Snapshot BY Zenon, <1>0, <3>8 DEF Snapshot, Shape
      <3> QED BY <1>1, <3>1, <3>2, <3>3, <3>4, <3>5, <3>6, <3>7, <3>8
    <2> QED BY <1>0, <2>1, <2>2, <2>3, QuietStep DEF Shape
  <1>2. CASE SetEverProgrammed
    BY <1>2 DEF SetEverProgrammed, ConsumeInv, Shape, NothingProgrammed, OwnTrapConsumed
  <1>3. ASSUME NEW t \in Threads,
               SkipThread(t) \/ OpenThreadFails(t) \/ OpenThread(t) \/ ArmThreadFails(t)
        PROVE  ConsumeInv'
    <2>1. /\ UNCHANGED <<everProgrammed, dr, ctx, pc>> /\ swpc \in {"threads", "arm"}
      BY <1>3 DEF SkipThread, OpenThreadFails, OpenThread, ArmThreadFails
    <2>2. sw'.snap = sw.snap /\ "snap" \in DOMAIN sw'
      BY <1>0, <1>3 DEF SkipThread, OpenThreadFails, OpenThread, ArmThreadFails, Shape
    <2> QED BY <1>0, <2>1, <2>2, QuietStep DEF Shape
  <1>4. ASSUME NEW t \in Threads, ArmThread(t) PROVE ConsumeInv'
    BY <1>4 DEF ArmThread, ConsumeInv, Shape, NothingProgrammed, OwnTrapConsumed
  <1> QED BY <1>1, <1>2, <1>3, <1>4 DEF Sweeper

\* Shutdown only clears registers.
LEMMA ShutdownStep ==
    ASSUME ConsumeInv, Deactivate \/ InShutdown PROVE ConsumeInv'
  <1> USE DEF table, flags, game, sweep, down, env, bounds, hist, Goto
  <1>0. Shape /\ Main \in Threads BY WatchAssumption DEF ConsumeInv
  <1>1. CASE Deactivate \/ StopSweeper \/ Join \/ Verify \/ ClearAll
             \/ \E t \in Threads : VerifyThread(t)
    <2>1. /\ UNCHANGED <<everProgrammed, dr, ctx, swpc, sw>> /\ DOMAIN pc' = Threads
          /\ \A u \in Threads : pc'[u] = "search" => pc[u] = "search"
      BY <1>0, <1>1 DEF Deactivate, StopSweeper, Join, Verify, ClearAll, VerifyThread, Shape
    <2> QED BY <1>0, <2>1, QuietStep DEF Shape
  <1>2. CASE DisarmCurrentThread
    BY <1>0, <1>2 DEF DisarmCurrentThread, ConsumeInv, Shape, NothingProgrammed, OwnTrapConsumed
  <1>3. ASSUME NEW t \in Threads, DisarmThread(t) PROVE ConsumeInv'
    BY <1>0, <1>3 DEF DisarmThread, ConsumeInv, Shape, NothingProgrammed, OwnTrapConsumed
  <1> QED BY <1>1, <1>2, <1>3 DEF InShutdown

\* Every step keeps the argument.
LEMMA NextConsume == ConsumeInv /\ [Next]_vars => ConsumeInv'
  <1> SUFFICES ASSUME ConsumeInv, [Next]_vars PROVE ConsumeInv'
    OBVIOUS
  <1>1. CASE Next
    <2>1. CASE Finished \/ NotifyReportEvent
      <3>1. UNCHANGED <<everProgrammed, dr, ctx, pc, swpc, sw>>
        BY <2>1 DEF Finished, NotifyReportEvent, vars, game, sweep
      <3> QED BY <3>1, QuietStep DEF ConsumeInv, Shape
    <2> QED BY <1>1, <2>1, GameStep, SweeperStep, ShutdownStep DEF Next
  <1>2. CASE UNCHANGED vars
    <2>1. UNCHANGED <<everProgrammed, dr, ctx, pc, swpc, sw>> BY <1>2 DEF vars
    <2> QED BY <2>1, QuietStep DEF ConsumeInv, Shape
  <1> QED BY <1>1, <1>2

\* HandleDebugException hands no trap of ours to the next handler, because
\* _everProgrammedAnyDr is set before the first register is written and a saved
\* context cannot bring a watch back earlier.
THEOREM SpecOwnTrapConsumed == Spec => []OwnTrapConsumed
  <1>1. ConsumeInv => OwnTrapConsumed BY DEF ConsumeInv
  <1> QED BY InitConsume, NextConsume, <1>1, PTL DEF Spec

----------------------------------------------------------------------------
(* The shapes of what the steps update.                                       *)
Shaped ==
    /\ DOMAIN pc = Threads /\ DOMAIN slot = Slots
    /\ \A i \in Slots : DOMAIN slot[i] = {"addr", "released"}
    /\ DOMAIN dr = Threads /\ \A t \in Threads : DOMAIN dr[t] = Slots
    /\ DOMAIN ctx = Threads
    /\ \A t \in Threads : /\ DOMAIN ctx[t] = {"regs", "hit", "mask"}
                          /\ DOMAIN ctx[t].regs = Slots
    /\ DOMAIN entry = Threads
    /\ \A t \in Threads : DOMAIN entry[t] = {"tracked", "gen", "mask", "arms"}
    /\ overtaken \in [Threads -> {"no", "early", "late"}]
    /\ DOMAIN sw = {"n", "back", "force", "open", "same", "moved", "left", "snap", "todo", "cur"}
    /\ DOMAIN sw.snap = Slots

(* The address a was slot i's, and is not any more.                           *)
Gone(i, a) == a # NoAddr /\ a # Watched(i)
Releasing == \E u \in Threads : pc[u] = "bump"
Asked == forceRearm \/ \E u \in Threads : pc[u] \in {"bump", "force"}
Sweeping == swpc \in {"snapshot", "threads", "arm"}
Undisturbed(t) == overtaken[t] = "no"

(* Every watch on its way is recorded for its thread: what is in a register,  *)
(* in a saved context, and in the snapshot about to be written.               *)
Known(t, i) == entry[t].tracked /\ i \in entry[t].mask
Recorded ==
    /\ \A t \in Threads, i \in Slots :
         dr[t][i] # NoAddr \/ ctx[t].regs[i] # NoAddr => Known(t, i)
    /\ swpc = "arm" => \A t \in Threads, i \in Slots :
         t \in sw.cur /\ sw.snap[i] # NoAddr => Known(t, i)
    /\ \A t \in Threads : pc[t] = "classify" /\ ctx[t].hit # NoAddr =>
         \E i \in Slots : ctx[t].regs[i] = ctx[t].hit /\ i \in ctx[t].mask

(* The sweeper's locals, and where nothing runs any more.                     *)
Ordered ==
    /\ alive \subseteq Threads
    /\ ~Sweeping => sw.todo = {} /\ sw.moved
    /\ swpc # "arm" => sw.cur = {}
    /\ swpc \in {"threads", "arm"} => sw.left = {}
    /\ \A t, u \in sw.cur : t = u
    /\ Sweeping /\ sw.force => sw.open
    /\ \A t \in Threads \ alive : pc[t] = "run" /\ \A i \in Slots : dr[t][i] = NoAddr
    /\ sd \in {"disarm", "disarmed", "verify", "done"} => swpc = "stopped"
    /\ pc[Main] = "shutdown" => sd # "no"

(* A context written back unless the registers were written meanwhile.        *)
Saved ==
    \A t \in Threads : InTrap(t) /\ Undisturbed(t) =>
        \A i \in Slots : ctx[t].regs[i] \in {dr[t][i], NoAddr}

(* Who is armed with the current generation watches what the table holds.     *)
Currency ==
    /\ ~Releasing => \A t \in Threads, i \in Slots :
         entry[t].gen = "current" /\ Undisturbed(t) => ~Gone(i, dr[t][i])
    /\ \A t \in Threads : entry[t].gen = "current" /\ overtaken[t] = "early" =>
         pc[t] \in {"classify", "trapBump"}
    /\ \A t \in Threads : entry[t].gen = "current" /\ pc[t] = "return" => overtaken[t] = "late"
    /\ ~Releasing /\ ~sw.moved => \A i \in Slots \ sw.left : ~Gone(i, sw.snap[i])

(* A retired address is owed a sweep.                                         *)
Reaches(t) == sw.force /\ (swpc \in {"enumerate", "snapshot"} \/ t \in sw.todo \cup sw.cur)
Owing ==
    /\ \A t \in Threads, i \in Slots :
         Gone(i, dr[t][i]) /\ Undisturbed(t) /\ t \notin missed => Asked \/ Reaches(t)
    /\ Sweeping => \A t \in Threads, i \in Slots :
         t \in sw.same /\ Gone(i, dr[t][i]) /\ Undisturbed(t) => Asked
    /\ Sweeping => \A i \in Slots \ sw.left : Gone(i, sw.snap[i]) => Asked
    /\ swpc = "snapshot" => \A t \in Threads : Undisturbed(t) /\ t \notin missed =>
         t \in sw.todo \/ \A i \in Slots : dr[t][i] = NoAddr

(* What Shutdown has verified stays clear.                                    *)
Verified ==
    sd \in {"verify", "done"} /\ ~stillArmed =>
        \A t \in Threads : t \in alive \ missed =>
            t \in sdTodo \/ ~Undisturbed(t) \/ \A i \in Slots : dr[t][i] = NoAddr

WatchInv == /\ Shaped /\ Recorded /\ Ordered /\ Saved /\ Verified
            /\ sd = "done" => sdTodo = {}
            /\ sd = "no" => Currency /\ Owing

----------------------------------------------------------------------------
(* The effects of the steps, field by field.                                  *)
PcIs(t, l) == DOMAIN pc' = Threads /\ pc'[t] = l /\ \A u \in Threads \ {t} : pc'[u] = pc[u]
DrIs(t) == /\ DOMAIN dr' = Threads /\ DOMAIN dr'[t] = Slots
           /\ \A u \in Threads \ {t} : dr'[u] = dr[u]
CtxIs(t) == /\ DOMAIN ctx' = Threads /\ DOMAIN ctx'[t] = {"regs", "hit", "mask"}
            /\ DOMAIN ctx'[t].regs = Slots
            /\ \A u \in Threads \ {t} : ctx'[u] = ctx[u]
EntryIs(t) == /\ DOMAIN entry' = Threads
              /\ DOMAIN entry'[t] = {"tracked", "gen", "mask", "arms"}
              /\ \A u \in Threads \ {t} : entry'[u] = entry[u]
SweepIs(force, open, same, moved, left, snap, todo, cur) ==
    /\ DOMAIN sw' = {"n", "back", "force", "open", "same", "moved", "left", "snap", "todo", "cur"}
    /\ sw'.force = force /\ sw'.open = open /\ sw'.same = same /\ sw'.moved = moved
    /\ sw'.left = left /\ sw'.snap = snap /\ sw'.todo = todo /\ sw'.cur = cur
\* Nobody is armed with the current generation; what is recorded stays.
Aged == /\ DOMAIN entry' = Threads
        /\ \A t \in Threads : /\ DOMAIN entry'[t] = {"tracked", "gen", "mask", "arms"}
                              /\ entry'[t].gen # "current"
                              /\ entry'[t].tracked = entry[t].tracked
                              /\ entry'[t].mask = entry[t].mask

\* What the generation bump leaves behind.
LEMMA OutdatedIs == ASSUME Shaped, entry' = Outdated PROVE Aged
  BY DEF Outdated, Aged, Shaped

\* What the bump of the manager does to the table and to the sweep under way.
LEMMA BumpIs ==
    ASSUME Shaped, BumpGeneration
    PROVE  /\ Aged
           /\ SweepIs(sw.force, sw.open, sw.same, TRUE, sw.left, sw.snap, sw.todo, sw.cur)
  <1>1. Aged
    BY OutdatedIs DEF BumpGeneration
  <1>2. SweepIs(sw.force, sw.open, sw.same, TRUE, sw.left, sw.snap, sw.todo, sw.cur)
    BY DEF BumpGeneration, Shaped, SweepIs
  <1> QED BY <1>1, <1>2

\* The thread that calls Shutdown is one of the game's.
LEMMA MainIs == Main \in Threads
  BY WatchAssumption

\* What registers all clear are.
LEMMA ClearIs == DOMAIN Clear = Slots /\ \A i \in Slots : Clear[i] = NoAddr
  BY DEF Clear

\* A slot that has the lowest number exists.
LEMMA LowestIn ==
    ASSUME NEW S, S \subseteq Slots, S # {}
    PROVE  Lowest(S) \in S
  <1>1. S \subseteq Nat
    BY WatchAssumption DEF Slots
  <1>2. PICK i \in S : \A j \in S : <<j, i>> \notin OpToRel(<, Nat)
    BY <1>1, WFMin, NatLessThanWellFounded
  <1>3. OpToRel(<, Nat) = {ss \in Nat \X Nat : ss[1] < ss[2]}
    BY DEF OpToRel
  <1>4. \A j \in S : <<j, i>> \notin {ss \in Nat \X Nat : ss[1] < ss[2]}
    BY <1>2, <1>3
  <1>5. \A j \in S : ~(j < i)
    BY <1>1, <1>4
  <1>6. \A j \in S : i <= j
    BY <1>1, <1>5
  <1> QED BY <1>6 DEF Lowest

\* A release changes no slot's shape.
LEMMA ReleasedIs ==
    ASSUME Shaped, NEW a, slot' = Released(a)
    PROVE  DOMAIN slot' = Slots /\ \A i \in Slots : DOMAIN slot'[i] = {"addr", "released"}
  <1>1. PICK k : k = Lowest(HeldFor(a))
    OBVIOUS
  <1>2. slot' = [slot EXCEPT ![k].released = TRUE]
    BY <1>1 DEF Released
  <1> QED BY <1>2 DEF Shaped

\* The states Init leaves behind.
LEMMA InitWatch == Init => WatchInv
  <1> SUFFICES ASSUME Init PROVE WatchInv
    OBVIOUS
  <1>0. Main \in Threads
    BY WatchAssumption
  <1>1. Shaped
    BY DEF Init, Shaped, FreshEntry, NoTrap, Asleep, Clear
  <1>2. Recorded
    BY DEF Init, Recorded, NoTrap, Clear
  <1>3. Ordered
    BY <1>0 DEF Init, Ordered, Asleep, Clear, Sweeping
  <1>4. Saved /\ Verified /\ sd = "no"
    BY DEF Init, Saved, Verified, InTrap
  <1>5. Currency
    BY DEF Init, Currency, Asleep, FreshEntry
  <1>6. Owing
    BY DEF Init, Owing, Gone, Clear, Sweeping
  <1> QED BY <1>1, <1>2, <1>3, <1>4, <1>5, <1>6 DEF WatchInv

----------------------------------------------------------------------------
\* A step that touches nothing the invariant reads.
LEMMA QuietWatch ==
    ASSUME WatchInv,
           UNCHANGED <<slot, entry, dr, pc, ctx, swpc, sw, sd, sdTodo, stillArmed, alive,
                       overtaken, missed, forceRearm>>
    PROVE  WatchInv'
  <1>1. Shaped' /\ Recorded' /\ Ordered'
    BY DEF WatchInv, Shaped, Recorded, Known, Ordered, Sweeping
  <1>2. Saved' /\ Verified' /\ (sd = "done" => sdTodo = {})'
    BY DEF WatchInv, Saved, InTrap, Undisturbed, Verified
  <1>3. sd' = "no" => Currency'
    BY DEF WatchInv, Currency, Releasing, Undisturbed, Gone, Watched, Held
  <1>4. sd' = "no" => Owing'
    BY DEF WatchInv, Owing, Asked, Reaches, Sweeping, Undisturbed, Gone, Watched, Held
  <1> QED BY <1>1, <1>2, <1>3, <1>4 DEF WatchInv

\* The free hook that releases a slot is a release under way.
LEMMA FreeWatch ==
    ASSUME WatchInv, NEW t \in Threads, NEW b \in Blocks, OnScaleformFree(t, b)
    PROVE  WatchInv'
  <1> USE DEF table, flags, game, sweep, down, env, bounds, hist, Goto
  <1>1. CASE ~(active /\ HeldFor(b) # {})
    BY <1>1, QuietWatch DEF OnScaleformFree
  <1>2. CASE active /\ HeldFor(b) # {}
    <2>1. /\ slot' = Released(b) /\ t \in alive /\ pc[t] = "run"
          /\ UNCHANGED <<entry, dr, ctx, swpc, sw, sd, sdTodo, stillArmed, alive, overtaken, missed,
                         forceRearm>>
      BY <1>2 DEF OnScaleformFree
    <2>2. PcIs(t, "bump")
      BY <1>2 DEF OnScaleformFree, WatchInv, Shaped, PcIs
    <2>3. DOMAIN slot' = Slots /\ \A i \in Slots : DOMAIN slot'[i] = {"addr", "released"}
      BY <2>1, ReleasedIs DEF WatchInv
    <2>4. Shaped'
      BY <2>1, <2>2, <2>3 DEF WatchInv, Shaped, PcIs
    <2>5. Recorded'
      BY <2>1, <2>2 DEF WatchInv, Recorded, Known, PcIs
    <2>5a. Ordered'
      BY MainIs, <2>1, <2>2 DEF WatchInv, Ordered, Sweeping, PcIs
    <2>6. Saved' /\ Verified' /\ (sd = "done" => sdTodo = {})'
      BY <2>1, <2>2 DEF WatchInv, Saved, InTrap, Undisturbed, Verified, PcIs
    <2>7. Releasing' /\ Asked'
      BY <2>2 DEF PcIs, Releasing, Asked
    <2>8. sd' = "no" => Currency'
      BY <2>1, <2>2, <2>7 DEF WatchInv, Currency, PcIs
    <2>9. sd' = "no" => Owing'
      BY <2>1, <2>7 DEF WatchInv, Owing, Undisturbed
    <2> QED BY <2>4, <2>5, <2>5a, <2>6, <2>8, <2>9 DEF WatchInv
  <1> QED BY <1>1, <1>2

\* Behind the bump nobody is armed with the current generation.
LEMMA RequestBumpWatch ==
    ASSUME WatchInv, NEW t \in Threads, RequestDisarmBump(t)
    PROVE  WatchInv'
  <1> USE DEF table, flags, game, sweep, down, env, bounds, hist, Goto
  <1>1. /\ pc[t] = "bump"
        /\ UNCHANGED <<slot, dr, ctx, swpc, sd, sdTodo, stillArmed, alive, overtaken, missed,
                       forceRearm>>
    BY DEF RequestDisarmBump
  <1>2. PcIs(t, "force")
    BY DEF RequestDisarmBump, WatchInv, Shaped, PcIs
  <1>3. /\ Aged
        /\ SweepIs(sw.force, sw.open, sw.same, TRUE, sw.left, sw.snap, sw.todo, sw.cur)
    BY BumpIs DEF RequestDisarmBump, WatchInv
  <1>4. Shaped'
    BY <1>1, <1>2, <1>3 DEF WatchInv, Shaped, PcIs, Aged, SweepIs
  <1>5. Recorded'
    BY <1>1, <1>2, <1>3 DEF WatchInv, Recorded, Known, PcIs, Aged, SweepIs
  <1>5a. Ordered'
    BY MainIs, <1>1, <1>2, <1>3 DEF WatchInv, Ordered, Sweeping, PcIs, Aged, SweepIs
  <1>6. Saved' /\ Verified' /\ (sd = "done" => sdTodo = {})'
    BY <1>1, <1>2 DEF WatchInv, Saved, InTrap, Undisturbed, Verified, PcIs
  <1>7. sd' = "no" => Currency'
    BY <1>3 DEF Currency, Aged, SweepIs
  <1>8. Asked'
    BY <1>2 DEF PcIs, Asked
  <1>9. sd' = "no" => Owing'
    BY <1>1, <1>3, <1>8 DEF WatchInv, Owing, Undisturbed, SweepIs
  <1> QED BY <1>4, <1>5, <1>5a, <1>6, <1>7, <1>9 DEF WatchInv

\* The forced sweep is asked for.
LEMMA RequestForceWatch ==
    ASSUME WatchInv, NEW t \in Threads, RequestDisarmForce(t)
    PROVE  WatchInv'
  <1> USE DEF table, flags, game, sweep, down, env, bounds, hist, Goto
  <1>1. /\ pc[t] = "force" /\ forceRearm'
        /\ UNCHANGED <<slot, entry, dr, ctx, swpc, sw, sd, sdTodo, stillArmed, alive, overtaken,
                       missed>>
    BY DEF RequestDisarmForce
  <1>2. PcIs(t, "run")
    BY DEF RequestDisarmForce, WatchInv, Shaped, PcIs
  <1>4. Shaped'
    BY <1>1, <1>2 DEF WatchInv, Shaped, PcIs
  <1>5. Recorded'
    BY <1>1, <1>2 DEF WatchInv, Recorded, Known, PcIs
  <1>5a. Ordered'
    BY MainIs, <1>1, <1>2 DEF WatchInv, Ordered, Sweeping, PcIs
  <1>6. Saved' /\ Verified' /\ (sd = "done" => sdTodo = {})'
    BY <1>1, <1>2 DEF WatchInv, Saved, InTrap, Undisturbed, Verified, PcIs
  <1>7. ~Releasing' => ~Releasing
    BY <1>1, <1>2 DEF PcIs, Releasing
  <1>8. sd' = "no" => Currency'
    BY <1>1, <1>2, <1>7 DEF WatchInv, Currency, Undisturbed, Gone, Watched, Held, PcIs
  <1>9. Asked'
    BY <1>1 DEF Asked
  <1>10. sd' = "no" => Owing'
    BY <1>1, <1>9 DEF WatchInv, Owing, Undisturbed
  <1> QED BY <1>4, <1>5, <1>5a, <1>6, <1>8, <1>10 DEF WatchInv

\* The registers of a thread that ended are clear.
LEMMA ExitWatch ==
    ASSUME WatchInv, NEW t \in Threads, Exit(t)
    PROVE  WatchInv'
  <1> USE DEF table, flags, game, sweep, down, env, bounds, hist, Goto
  <1>1. /\ pc[t] = "run" /\ alive' = alive \ {t}
        /\ UNCHANGED <<slot, entry, pc, ctx, swpc, sw, sd, sdTodo, stillArmed, missed, forceRearm>>
    BY DEF Exit
  <1>2. DrIs(t) /\ \A i \in Slots : dr'[t][i] = NoAddr
    BY ClearIs DEF Exit, WatchInv, Shaped, DrIs
  <1>3. /\ overtaken' \in [Threads -> {"no", "early", "late"}]
        /\ overtaken'[t] = "no" /\ \A u \in Threads \ {t} : overtaken'[u] = overtaken[u]
    BY DEF Exit, WatchInv, Shaped
  <1>4. Shaped'
    BY <1>1, <1>2, <1>3 DEF WatchInv, Shaped, DrIs
  <1>5. Recorded'
    BY <1>1, <1>2 DEF WatchInv, Recorded, Known, DrIs
  <1>6. Ordered'
    BY <1>1, <1>2 DEF WatchInv, Ordered, Sweeping, DrIs
  <1>7. Saved'
    BY <1>1, <1>2, <1>3 DEF WatchInv, Saved, InTrap, Undisturbed, DrIs
  <1>7a. Verified' /\ (sd = "done" => sdTodo = {})'
    BY <1>1, <1>2, <1>3 DEF WatchInv, Undisturbed, Verified, DrIs
  <1>8. \A i \in Slots : ~Gone(i, dr[t][i])'
    BY <1>2 DEF Gone
  <1>9. \A u \in Threads \ {t}, i \in Slots : Gone(i, dr[u][i])' <=> Gone(i, dr[u][i])
    BY <1>1, <1>2 DEF Gone, Watched, Held, DrIs
  <1>10. \A i \in Slots : Gone(i, sw.snap[i])' <=> Gone(i, sw.snap[i])
    BY <1>1 DEF Gone, Watched, Held
  <1>11. (Releasing' <=> Releasing) /\ (Asked' <=> Asked)
    BY <1>1 DEF Releasing, Asked
  <1>12. sd' = "no" => Currency'
    BY <1>1, <1>3, <1>8, <1>9, <1>10, <1>11 DEF WatchInv, Currency, Undisturbed
  <1>14. \A u \in Threads : Reaches(u)' <=> Reaches(u)
    BY <1>1 DEF Reaches
  <1>15. \A u \in Threads \ {t} : Undisturbed(u)' <=> Undisturbed(u)
    BY <1>3 DEF Undisturbed
  <1>13. ASSUME sd' = "no" PROVE Owing'
    <2>0. sd = "no" /\ Owing
      BY <1>1, <1>13 DEF WatchInv
    <2>1. \A u \in Threads, i \in Slots :
             Gone(i, dr[u][i])' /\ Undisturbed(u)' /\ u \notin missed' => Asked' \/ Reaches(u)'
      BY <2>0, <1>1, <1>8, <1>9, <1>11, <1>14, <1>15 DEF Owing
    <2>2. Sweeping' => \A u \in Threads, i \in Slots :
             u \in sw.same' /\ Gone(i, dr[u][i])' /\ Undisturbed(u)' => Asked'
      BY <2>0, <1>1, <1>8, <1>9, <1>11, <1>15 DEF Owing, Sweeping
    <2>3. Sweeping' => \A i \in Slots \ sw.left' : Gone(i, sw.snap[i])' => Asked'
      BY <2>0, <1>1, <1>10, <1>11 DEF Owing, Sweeping
    <2>4. swpc' = "snapshot" => \A u \in Threads : Undisturbed(u)' /\ u \notin missed' =>
             u \in sw.todo' \/ \A i \in Slots : dr'[u][i] = NoAddr
      BY <2>0, <1>1, <1>2, <1>15 DEF Owing, DrIs
    <2> QED BY <2>1, <2>2, <2>3, <2>4 DEF Owing
  <1> QED BY <1>4, <1>5, <1>6, <1>7, <1>7a, <1>12, <1>13 DEF WatchInv

\* A new thread has clear registers.
LEMMA StartWatch ==
    ASSUME WatchInv, NEW t \in Threads, Start(t)
    PROVE  WatchInv'
  <1> USE DEF table, flags, game, sweep, down, env, bounds, hist, Goto
  <1>1. /\ t \notin alive /\ alive' = alive \cup {t}
        /\ UNCHANGED <<slot, entry, dr, pc, ctx, swpc, sw, sd, sdTodo, stillArmed, overtaken,
                       missed, forceRearm>>
    BY DEF Start
  <1>2. Shaped' /\ Recorded' /\ Ordered'
    BY <1>1 DEF WatchInv, Shaped, Recorded, Known, Ordered, Sweeping
  <1>3. Saved' /\ (sd = "done" => sdTodo = {})'
    BY <1>1 DEF WatchInv, Saved, InTrap, Undisturbed
  <1>4. Verified'
    BY <1>1 DEF WatchInv, Ordered, Verified, Undisturbed
  <1>5. sd' = "no" => Currency'
    BY <1>1 DEF WatchInv, Currency, Releasing, Undisturbed, Gone, Watched, Held
  <1>6. sd' = "no" => Owing'
    BY <1>1 DEF WatchInv, Owing, Asked, Reaches, Sweeping, Undisturbed, Gone, Watched, Held
  <1> QED BY <1>2, <1>3, <1>4, <1>5, <1>6 DEF WatchInv

\* A trap saves the registers, and the recorded mask covers the one that hit.
LEMMA DebugWatch ==
    ASSUME WatchInv, NEW t \in Threads, NEW hit, t \in alive, pc[t] = "run",
           DebugException(t, hit),
           hit # NoAddr => \E i \in Slots : dr[t][i] = hit
    PROVE  WatchInv'
  <1> USE DEF table, flags, game, sweep, down, env, bounds, hist, Goto
  <1>1. UNCHANGED <<slot, entry, dr, swpc, sw, sd, sdTodo, stillArmed, alive, overtaken, missed,
                    forceRearm>>
    BY DEF DebugException
  <1>2. PICK l \in {"classify", "search"} : PcIs(t, l)
    BY DEF DebugException, WatchInv, Shaped, PcIs
  <1>3. CtxIs(t) /\ ctx'[t].regs = dr[t] /\ ctx'[t].hit = hit
    BY DEF DebugException, WatchInv, Shaped, CtxIs
  <1>4. entry[t].tracked => ctx'[t].mask = entry[t].mask
    BY DEF DebugException, WatchInv, Shaped
  <1>5. Shaped'
    BY <1>1, <1>2, <1>3 DEF WatchInv, Shaped, PcIs, CtxIs
  <1>6. Recorded'
    <2>1. \A u \in Threads, i \in Slots :
             dr'[u][i] # NoAddr \/ ctx'[u].regs[i] # NoAddr => Known(u, i)'
      BY <1>1, <1>3 DEF WatchInv, Recorded, Known, CtxIs
    <2>2. hit # NoAddr => \E i \in Slots : ctx'[t].regs[i] = hit /\ i \in ctx'[t].mask
      BY <1>3, <1>4 DEF WatchInv, Recorded, Known
    <2>3. \A u \in Threads : pc'[u] = "classify" /\ ctx'[u].hit # NoAddr =>
             \E i \in Slots : ctx'[u].regs[i] = ctx'[u].hit /\ i \in ctx'[u].mask
      <3> SUFFICES ASSUME NEW u \in Threads, pc'[u] = "classify", ctx'[u].hit # NoAddr
                   PROVE  \E i \in Slots : ctx'[u].regs[i] = ctx'[u].hit /\ i \in ctx'[u].mask
        OBVIOUS
      <3>1. CASE u = t
        BY <1>3, <2>2, <3>1
      <3>2. CASE u # t
        BY <1>2, <1>3, <3>2 DEF WatchInv, Recorded, PcIs, CtxIs
      <3> QED BY <3>1, <3>2
    <2> QED BY <1>1, <2>1, <2>3 DEF WatchInv, Recorded, Known
  <1>7. Ordered'
    BY <1>1, <1>2, MainIs DEF WatchInv, Ordered, Sweeping, PcIs
  <1>8. Saved'
    BY <1>1, <1>2, <1>3 DEF WatchInv, Saved, InTrap, Undisturbed, PcIs, CtxIs
  <1>9. Verified' /\ (sd = "done" => sdTodo = {})'
    BY <1>1 DEF WatchInv, Undisturbed, Verified
  <1>10. Releasing' <=> Releasing
    BY <1>2 DEF Releasing, PcIs
  <1>11. sd' = "no" => Currency'
    BY <1>1, <1>2, <1>10 DEF WatchInv, Currency, Undisturbed, Gone, Watched, Held, PcIs
  <1>12. Asked' <=> Asked
    BY <1>1, <1>2 DEF Asked, PcIs
  <1>13. sd' = "no" => Owing'
    BY <1>1, <1>12 DEF WatchInv, Owing, Reaches, Sweeping, Undisturbed, Gone, Watched, Held
  <1> QED BY <1>5, <1>6, <1>7, <1>8, <1>9, <1>11, <1>13 DEF WatchInv

\* A trap that is not ours goes to the next handler.
LEMMA PassedWatch ==
    ASSUME WatchInv, NEW t \in Threads, PassedOn(t)
    PROVE  WatchInv'
  <1> USE DEF table, flags, game, sweep, down, env, bounds, hist, Goto
  <1>1. /\ pc[t] = "search"
        /\ UNCHANGED <<slot, entry, dr, ctx, swpc, sw, sd, sdTodo, stillArmed, alive, overtaken,
                       missed, forceRearm>>
    BY DEF PassedOn
  <1>2. PcIs(t, "run")
    BY DEF PassedOn, WatchInv, Shaped, PcIs
  <1>3. Shaped'
    BY <1>1, <1>2 DEF WatchInv, Shaped, PcIs
  <1>4. Recorded'
    BY <1>1, <1>2 DEF WatchInv, Recorded, Known, PcIs
  <1>5. Ordered'
    BY <1>1, <1>2, MainIs DEF WatchInv, Ordered, Sweeping, PcIs
  <1>6. Saved' /\ Verified' /\ (sd = "done" => sdTodo = {})'
    BY <1>1, <1>2 DEF WatchInv, Saved, InTrap, Undisturbed, Verified, PcIs
  <1>7. (Releasing' <=> Releasing) /\ (Asked' <=> Asked)
    BY <1>1, <1>2 DEF Releasing, Asked, PcIs
  <1>8. sd' = "no" => Currency'
    BY <1>1, <1>2, <1>7 DEF WatchInv, Currency, Undisturbed, Gone, Watched, Held, PcIs
  <1>9. sd' = "no" => Owing'
    BY <1>1, <1>7 DEF WatchInv, Owing, Reaches, Sweeping, Undisturbed, Gone, Watched, Held
  <1> QED BY <1>3, <1>4, <1>5, <1>6, <1>8, <1>9 DEF WatchInv

\* The handler only disables registers of the context it was given.
LEMMA ClassifyIs ==
    ASSUME Shaped, NEW t \in Threads, Classify(t)
    PROVE  /\ CtxIs(t)
           /\ \A i \in Slots : ctx'[t].regs[i] \in {ctx[t].regs[i], NoAddr}
  <1>1. PICK rec : ctx' = [ctx EXCEPT ![t].regs =
                        [i \in Slots |-> IF i \in Stale(t) \cup rec THEN NoAddr ELSE @[i]]]
    BY DEF Classify
  <1>2. ctx'[t].regs = [i \in Slots |-> IF i \in Stale(t) \cup rec THEN NoAddr
                                        ELSE ctx[t].regs[i]]
    BY <1>1 DEF Shaped
  <1>3. CtxIs(t)
    BY <1>1, <1>2 DEF Shaped, CtxIs
  <1> QED BY <1>2, <1>3

\* Only the saved context and the request for a sweep change in the handler.
LEMMA ClassifyWatch ==
    ASSUME WatchInv, NEW t \in Threads, Classify(t)
    PROVE  WatchInv'
  <1> USE DEF table, flags, game, sweep, down, env, bounds, hist, Goto
  <1>1. /\ pc[t] = "classify"
        /\ UNCHANGED <<slot, entry, dr, swpc, sw, sd, sdTodo, stillArmed, alive, overtaken, missed>>
    BY DEF Classify
  <1>2. PcIs(t, "trapBump")
    BY DEF Classify, WatchInv, Shaped, PcIs
  <1>3. CtxIs(t) /\ \A i \in Slots : ctx'[t].regs[i] \in {ctx[t].regs[i], NoAddr}
    BY ClassifyIs DEF WatchInv
  <1>4. forceRearm => forceRearm'
    BY DEF Classify
  <1>5. Shaped'
    BY <1>1, <1>2, <1>3 DEF WatchInv, Shaped, PcIs, CtxIs
  <1>6. Recorded'
    BY <1>1, <1>2, <1>3 DEF WatchInv, Recorded, Known, PcIs, CtxIs
  <1>7. Ordered'
    BY <1>1, <1>2, MainIs DEF WatchInv, Ordered, Sweeping, PcIs
  <1>8. Saved'
    BY <1>1, <1>2, <1>3 DEF WatchInv, Saved, InTrap, Undisturbed, PcIs, CtxIs
  <1>9. Verified' /\ (sd = "done" => sdTodo = {})'
    BY <1>1 DEF WatchInv, Undisturbed, Verified
  <1>10. (Releasing' <=> Releasing) /\ (Asked => Asked')
    BY <1>1, <1>2, <1>4 DEF Releasing, Asked, PcIs
  <1>11. sd' = "no" => Currency'
    BY <1>1, <1>2, <1>10 DEF WatchInv, Currency, Undisturbed, Gone, Watched, Held, PcIs
  <1>12. sd' = "no" => Owing'
    BY <1>1, <1>10 DEF WatchInv, Owing, Reaches, Sweeping, Undisturbed, Gone, Watched, Held
  <1> QED BY <1>5, <1>6, <1>7, <1>8, <1>9, <1>11, <1>12 DEF WatchInv

\* The handler bumps the generation before it returns.
LEMMA TrapBumpWatch ==
    ASSUME WatchInv, NEW t \in Threads, TrapBump(t)
    PROVE  WatchInv'
  <1> USE DEF table, flags, game, sweep, down, env, bounds, hist, Goto
  <1>1. /\ pc[t] = "trapBump"
        /\ UNCHANGED <<slot, dr, ctx, swpc, sd, sdTodo, stillArmed, alive, overtaken, missed,
                       forceRearm>>
    BY DEF TrapBump
  <1>2. PcIs(t, "return")
    BY DEF TrapBump, WatchInv, Shaped, PcIs
  <1>3. /\ Aged
        /\ SweepIs(sw.force, sw.open, sw.same, TRUE, sw.left, sw.snap, sw.todo, sw.cur)
    BY BumpIs DEF TrapBump, WatchInv
  <1>4. Shaped'
    BY <1>1, <1>2, <1>3 DEF WatchInv, Shaped, PcIs, Aged, SweepIs
  <1>5. Recorded'
    BY <1>1, <1>2, <1>3 DEF WatchInv, Recorded, Known, PcIs, Aged, SweepIs
  <1>6. Ordered'
    BY <1>1, <1>2, <1>3, MainIs DEF WatchInv, Ordered, Sweeping, PcIs, SweepIs
  <1>7. Saved' /\ Verified' /\ (sd = "done" => sdTodo = {})'
    BY <1>1, <1>2 DEF WatchInv, Saved, InTrap, Undisturbed, Verified, PcIs
  <1>8. sd' = "no" => Currency'
    BY <1>3 DEF Currency, Aged, SweepIs
  <1>9. Asked' <=> Asked
    BY <1>1, <1>2 DEF PcIs, Asked
  <1>10. sd' = "no" => Owing'
    BY <1>1, <1>3, <1>9
       DEF WatchInv, Owing, Reaches, Sweeping, Undisturbed, Gone, Watched, Held, SweepIs
  <1> QED BY <1>4, <1>5, <1>6, <1>7, <1>8, <1>10 DEF WatchInv

\* What the return writes back was in the registers, unless they were written
\* meanwhile; and then the thread is not up to date.
LEMMA ReturnWatch ==
    ASSUME WatchInv, NEW t \in Threads, Return(t)
    PROVE  WatchInv'
  <1> USE DEF table, flags, game, sweep, down, env, bounds, hist, Goto
  <1>1. /\ pc[t] = "return"
        /\ UNCHANGED <<slot, entry, swpc, sw, sd, sdTodo, stillArmed, alive, overtaken, missed,
                       forceRearm>>
    BY DEF Return
  <1>2. PcIs(t, "run")
    BY DEF Return, WatchInv, Shaped, PcIs
  <1>3. DrIs(t) /\ dr'[t] = ctx[t].regs
    BY DEF Return, WatchInv, Shaped, DrIs
  <1>4. CtxIs(t) /\ \A i \in Slots : ctx'[t].regs[i] = NoAddr
    BY ClearIs DEF Return, WatchInv, Shaped, CtxIs, NoTrap
  <1>5. Undisturbed(t) => \A i \in Slots : dr'[t][i] \in {dr[t][i], NoAddr}
    BY <1>1, <1>3 DEF WatchInv, Saved, InTrap
  <1>6. Shaped'
    BY <1>1, <1>2, <1>3, <1>4 DEF WatchInv, Shaped, PcIs, DrIs, CtxIs
  <1>7. Recorded'
    BY <1>1, <1>2, <1>3, <1>4 DEF WatchInv, Recorded, Known, PcIs, DrIs, CtxIs
  <1>8. Ordered'
    BY <1>1, <1>2, <1>3, MainIs DEF WatchInv, Ordered, Sweeping, PcIs, DrIs
  <1>9. Saved'
    BY <1>1, <1>2, <1>3, <1>4 DEF WatchInv, Saved, InTrap, Undisturbed, PcIs, DrIs, CtxIs
  <1>10. Verified' /\ (sd = "done" => sdTodo = {})'
    BY <1>1, <1>3, <1>5 DEF WatchInv, Undisturbed, Verified, DrIs
  <1>11. (Releasing' <=> Releasing) /\ (Asked' <=> Asked)
    BY <1>1, <1>2 DEF Releasing, Asked, PcIs
  <1>12. ASSUME sd' = "no" PROVE Currency'
    <2>0. sd = "no" /\ Currency
      BY <1>1, <1>12 DEF WatchInv
    <2>1. entry[t].gen = "current" => ~Undisturbed(t) /\ overtaken[t] # "early"
      BY <2>0, <1>1 DEF Currency, Undisturbed
    <2> QED BY <2>0, <2>1, <1>1, <1>2, <1>3, <1>11
            DEF Currency, Undisturbed, Gone, Watched, Held, PcIs, DrIs
  <1>13. ASSUME sd' = "no" PROVE Owing'
    <2>0. sd = "no" /\ Owing
      BY <1>1, <1>13 DEF WatchInv
    <2>1. \A u \in Threads, i \in Slots : Undisturbed(u) /\ Gone(i, dr[u][i])' => Gone(i, dr[u][i])
      BY <1>1, <1>3, <1>5 DEF Gone, Watched, Held, DrIs
    <2>2. \A u \in Threads : Undisturbed(u) /\ (\A i \in Slots : dr[u][i] = NoAddr) =>
             \A i \in Slots : dr'[u][i] = NoAddr
      BY <1>3, <1>5 DEF DrIs
    <2>3. \A i \in Slots : Gone(i, sw.snap[i])' => Gone(i, sw.snap[i])
      BY <1>1 DEF Gone, Watched, Held
    <2> QED BY <2>0, <2>1, <2>2, <2>3, <1>1, <1>11 DEF Owing, Reaches, Sweeping, Undisturbed
  <1> QED BY <1>6, <1>7, <1>8, <1>9, <1>10, <1>12, <1>13 DEF WatchInv

----------------------------------------------------------------------------
\* The sweeper between two sweeps.
LEMMA IdleWatch ==
    ASSUME WatchInv,
           UNCHANGED <<slot, entry, dr, pc, ctx, sd, sdTodo, stillArmed, alive, overtaken, missed,
                       forceRearm>>,
           NEW force, NEW open, NEW same, NEW left, NEW snap, DOMAIN snap = Slots,
           SweepIs(force, open, same, TRUE, left, snap, {}, {}),
           swpc # "stopped", swpc' \notin {"snapshot", "threads", "arm"},
           \A t \in Threads : Reaches(t) => Reaches(t)'
    PROVE  WatchInv'
  <1>1. ~Sweeping'
    BY DEF Sweeping
  <1>2. Shaped'
    BY DEF WatchInv, Shaped, SweepIs
  <1>3. Recorded'
    BY DEF WatchInv, Recorded, Known
  <1>4. Ordered'
    BY <1>1 DEF WatchInv, Ordered, SweepIs
  <1>5. Saved' /\ Verified' /\ (sd = "done" => sdTodo = {})'
    BY DEF WatchInv, Saved, InTrap, Undisturbed, Verified
  <1>6. sd' = "no" => Currency'
    BY DEF WatchInv, Currency, Releasing, Undisturbed, Gone, Watched, Held, SweepIs
  <1>7. sd' = "no" => Owing'
    BY <1>1 DEF WatchInv, Owing, Asked, Sweeping, Undisturbed, Gone, Watched, Held
  <1> QED BY <1>2, <1>3, <1>4, <1>5, <1>6, <1>7 DEF WatchInv

\* What the loop does between the sweeps.
LEMMA LoopWatch ==
    ASSUME WatchInv, Wake \/ SweepOnce \/ CheckActive \/ Promoted \/ SweptAll \/ Sleep
    PROVE  WatchInv'
  <1> USE DEF table, flags, game, sweep, down, env, bounds, hist
  <1>1. /\ UNCHANGED <<slot, entry, dr, pc, ctx, sd, sdTodo, stillArmed, alive, overtaken, missed,
                       forceRearm>>
        /\ swpc # "stopped" /\ swpc' \notin {"snapshot", "threads", "arm"}
    BY Zenon DEF Wake, SweepOnce, CheckActive, Promoted, SweptAll, Sleep
  <1>2. CASE Wake \/ SweptAll
    <2>1. SweepIs(FALSE, FALSE, {}, TRUE, {}, Clear, {}, {})
      BY <1>2 DEF Wake, SweptAll, Asleep, SweepIs
    <2>2. \A t \in Threads : ~Reaches(t)
      BY <1>2 DEF Wake, SweptAll, WatchInv, Ordered, Sweeping, Reaches
    <2> QED BY <1>1, <2>1, <2>2, IdleWatch, ClearIs
  <1>3. CASE SweepOnce \/ CheckActive \/ Promoted \/ Sleep
    <2>0. swpc \in {"once", "check", "promote", "drain"}
      BY <1>3 DEF SweepOnce, CheckActive, Promoted, Sleep
    <2>1. sw.moved /\ sw.todo = {} /\ sw.cur = {} /\ DOMAIN sw.snap = Slots
      BY <2>0 DEF WatchInv, Shaped, Ordered, Sweeping
    <2>2. CASE ~active /\ armRequested /\ swpc = "once"
      <3>1. swpc' = "enumerate" /\ sw' = [sw EXCEPT !.force = TRUE, !.back = TRUE]
        BY <1>3, <2>2 DEF SweepOnce, CheckActive, Promoted, Sleep
      <3>2. SweepIs(TRUE, sw.open, sw.same, TRUE, sw.left, sw.snap, {}, {})
        BY <2>1, <3>1 DEF WatchInv, Shaped, Ordered, SweepIs
      <3>3. \A t \in Threads : Reaches(t)'
        BY <3>1, <3>2 DEF Reaches, SweepIs
      <3> QED BY <1>1, <2>1, <3>2, <3>3, IdleWatch
    <2>3. CASE ~(~active /\ armRequested /\ swpc = "once")
      <3>1. sw' = sw \/ sw' = [sw EXCEPT !.n = 0]
        BY <1>3, <2>3 DEF SweepOnce, CheckActive, Promoted, Sleep
      <3>2. SweepIs(sw.force, sw.open, sw.same, TRUE, sw.left, sw.snap, {}, {})
        BY <2>1, <3>1 DEF WatchInv, Shaped, Ordered, SweepIs
      <3>3. \A t \in Threads : ~Reaches(t)
        BY <2>0, <2>1 DEF Reaches
      <3> QED BY <1>1, <2>1, <3>2, <3>3, IdleWatch
    <2> QED BY <2>2, <2>3
  <1> QED BY <1>2, <1>3

\* A claim takes a slot nobody holds: nobody's address is gone by it.
LEMMA PromoteWatch ==
    ASSUME WatchInv, Promote PROVE WatchInv'
  <1> USE DEF table, flags, game, sweep, down, env, bounds, hist
  <1>1. /\ swpc = "promote"
        /\ UNCHANGED <<dr, pc, ctx, swpc, sd, sdTodo, stillArmed, alive, overtaken, missed,
                       forceRearm>>
    BY DEF Promote
  <1>2. Aged
    BY OutdatedIs DEF Promote, WatchInv
  <1>3. PICK k : /\ k = Lowest(Slots \ HeldSlots)
                 /\ slot' = [slot EXCEPT ![k] = [addr |-> Popped, released |-> FALSE]]
    BY DEF Promote
  <1>4. k \in Slots /\ ~Held(k)
    <2>1. Slots \ HeldSlots # {}
      BY DEF Promote, HeldSlots
    <2>2. k \in Slots \ HeldSlots
      BY <1>3, <2>1, LowestIn
    <2> QED BY <2>2 DEF HeldSlots
  <1>5. \A i \in Slots : i # k => slot'[i] = slot[i]
    BY <1>3 DEF WatchInv, Shaped
  <1>6. DOMAIN slot' = Slots /\ DOMAIN slot'[k] = {"addr", "released"}
    BY <1>3, <1>4 DEF WatchInv, Shaped
  <1>7. SweepIs(sw.force, sw.open, sw.same, TRUE, sw.left, sw.snap, {}, {})
    <2>1. sw.moved /\ sw.todo = {} /\ sw.cur = {}
      BY <1>1 DEF WatchInv, Ordered, Sweeping
    <2>2. sw' = [sw EXCEPT !.n = @ + 1]
      BY DEF Promote
    <2> QED BY <2>1, <2>2 DEF WatchInv, Shaped, Ordered, SweepIs
  <1>8. \A a : \A i \in Slots : Gone(i, a)' => Gone(i, a)
    BY <1>4, <1>5 DEF Gone, Watched, Held
  <1>9. Shaped'
    BY <1>1, <1>2, <1>5, <1>6, <1>7 DEF WatchInv, Shaped, Aged, SweepIs
  <1>10. Recorded'
    BY <1>1, <1>2 DEF WatchInv, Recorded, Known, Aged
  <1>11. Ordered'
    BY <1>1, <1>7 DEF WatchInv, Ordered, Sweeping, SweepIs
  <1>12. Saved' /\ Verified' /\ (sd = "done" => sdTodo = {})'
    BY <1>1 DEF WatchInv, Saved, InTrap, Undisturbed, Verified
  <1>13. sd' = "no" => Currency'
    BY <1>2, <1>7 DEF Currency, Aged, SweepIs
  <1>14. ASSUME sd' = "no" PROVE Owing'
    <2>1. \A t \in Threads, i \in Slots : Gone(i, dr[t][i])' => Gone(i, dr[t][i])
      BY <1>1, <1>8 DEF Gone
    <2>2. \A t \in Threads : ~Reaches(t)
      BY <1>1 DEF WatchInv, Ordered, Sweeping, Reaches
    <2>3. Asked' <=> Asked
      BY <1>1 DEF Asked
    <2> QED BY <1>1, <1>14, <2>1, <2>2, <2>3 DEF WatchInv, Owing, Sweeping, Undisturbed
  <1> QED BY <1>9, <1>10, <1>11, <1>12, <1>13, <1>14 DEF WatchInv

\* A drained report that releases a slot asks for a forced sweep.
LEMMA DrainWatch ==
    ASSUME WatchInv, DrainReport PROVE WatchInv'
  <1> USE DEF table, flags, game, sweep, down, env, bounds, hist
  <1>1. /\ swpc = "drain"
        /\ UNCHANGED <<dr, pc, ctx, swpc, sw, sd, sdTodo, stillArmed, alive, overtaken, missed>>
    BY DEF DrainReport
  <1>2. CASE UNCHANGED <<slot, entry, forceRearm>>
    BY <1>1, <1>2, QuietWatch
  <1>3. CASE ~UNCHANGED <<slot, entry, forceRearm>>
    <2>1. PICK a : slot' = Released(a) /\ entry' = Outdated /\ forceRearm'
      BY <1>3 DEF DrainReport
    <2>2. Aged
      BY <2>1, OutdatedIs DEF WatchInv
    <2>3. DOMAIN slot' = Slots /\ \A i \in Slots : DOMAIN slot'[i] = {"addr", "released"}
      BY <2>1, ReleasedIs DEF WatchInv
    <2>4. Shaped'
      BY <1>1, <2>2, <2>3 DEF WatchInv, Shaped, Aged
    <2>5. Recorded'
      BY <1>1, <2>2 DEF WatchInv, Recorded, Known, Aged
    <2>6. Ordered' /\ sw'.moved
      BY <1>1 DEF WatchInv, Ordered, Sweeping
    <2>7. Saved' /\ Verified' /\ (sd = "done" => sdTodo = {})'
      BY <1>1 DEF WatchInv, Saved, InTrap, Undisturbed, Verified
    <2>8. sd' = "no" => Currency'
      BY <2>2, <2>6 DEF Currency, Aged
    <2>9. Asked'
      BY <2>1 DEF Asked
    <2>10. sd' = "no" => Owing'
      BY <1>1, <2>9 DEF WatchInv, Owing, Undisturbed
    <2> QED BY <2>4, <2>5, <2>6, <2>7, <2>8, <2>10 DEF WatchInv
  <1> QED BY <1>2, <1>3

\* The request, or a rotation, becomes the force of the sweep that follows.
LEMMA RotateWatch ==
    ASSUME WatchInv, RotateHeld PROVE WatchInv'
  <1> USE DEF table, flags, game, sweep, down, env, bounds, hist
  <1>1. /\ swpc = "rotate" /\ swpc' = "enumerate"
        /\ UNCHANGED <<dr, pc, ctx, sd, sdTodo, stillArmed, alive, overtaken, missed>>
    BY DEF RotateHeld
  <1>2. sw.moved /\ sw.todo = {} /\ sw.cur = {} /\ ~Sweeping /\ ~Sweeping'
    BY <1>1 DEF WatchInv, Ordered, Sweeping
  <1>3. \/ \E a : slot' = Released(a) /\ entry' = Outdated /\ sw' = [sw EXCEPT !.force = TRUE]
        \/ UNCHANGED <<slot, entry>> /\ sw' = [sw EXCEPT !.force = forceRearm]
    BY DEF RotateHeld
  <1>4. SweepIs(sw'.force, sw.open, sw.same, TRUE, sw.left, sw.snap, {}, {})
    BY <1>2, <1>3 DEF WatchInv, Shaped, Ordered, SweepIs
  <1>5. /\ DOMAIN slot' = Slots /\ \A i \in Slots : DOMAIN slot'[i] = {"addr", "released"}
        /\ DOMAIN entry' = Threads
        /\ \A t \in Threads : /\ DOMAIN entry'[t] = {"tracked", "gen", "mask", "arms"}
                              /\ entry'[t].tracked = entry[t].tracked
                              /\ entry'[t].mask = entry[t].mask
    <2>1. CASE UNCHANGED <<slot, entry>>
      BY <2>1 DEF WatchInv, Shaped
    <2>2. CASE ~UNCHANGED <<slot, entry>>
      <3>1. PICK a : slot' = Released(a) /\ entry' = Outdated
        BY <1>3, <2>2
      <3>2. Aged
        BY <3>1, OutdatedIs DEF WatchInv
      <3> QED BY <3>1, <3>2, ReleasedIs DEF WatchInv, Aged
    <2> QED BY <2>1, <2>2
  <1>6. Shaped'
    BY <1>1, <1>4, <1>5 DEF WatchInv, Shaped, SweepIs
  <1>7. Recorded'
    BY <1>1, <1>5 DEF WatchInv, Recorded, Known
  <1>8. Ordered'
    BY <1>1, <1>2, <1>4 DEF WatchInv, Ordered, SweepIs
  <1>9. Saved' /\ Verified' /\ (sd = "done" => sdTodo = {})'
    BY <1>1 DEF WatchInv, Saved, InTrap, Undisturbed, Verified
  <1>10. ASSUME sd' = "no" PROVE Currency' /\ Owing'
    <2>0. sd = "no" /\ Currency /\ Owing
      BY <1>1, <1>10 DEF WatchInv
    <2>1. CASE UNCHANGED <<slot, entry>> /\ sw' = [sw EXCEPT !.force = forceRearm]
      <3>1. sw'.force = forceRearm
        BY <2>1 DEF WatchInv, Shaped
      <3>2. \A t \in Threads : ~Reaches(t)
        BY <1>1, <1>2 DEF Reaches
      <3>3. \A t \in Threads : Asked => Asked' \/ Reaches(t)'
        BY <1>1, <3>1 DEF Asked, Reaches
      <3>4. Currency'
        BY <1>1, <1>4, <2>0, <2>1 DEF Currency, Releasing, Undisturbed, Gone, Watched, Held, SweepIs
      <3>5. Owing'
        BY <1>1, <1>2, <2>0, <2>1, <3>2, <3>3 DEF Owing, Undisturbed, Gone, Watched, Held
      <3> QED BY <3>4, <3>5
    <2>2. CASE ~(UNCHANGED <<slot, entry>> /\ sw' = [sw EXCEPT !.force = forceRearm])
      <3>1. entry' = Outdated /\ sw' = [sw EXCEPT !.force = TRUE]
        BY <1>3, <2>2
      <3>2. Aged
        BY <3>1, OutdatedIs DEF WatchInv
      <3>3. Currency'
        BY <1>4, <3>2 DEF Currency, Aged, SweepIs
      <3>4. sw'.force = TRUE
        BY <3>1 DEF WatchInv, Shaped
      <3>5. \A t \in Threads : Reaches(t)'
        BY <1>1, <3>4 DEF Reaches
      <3>6. Owing'
        BY <1>1, <1>2, <3>5 DEF Owing
      <3> QED BY <3>3, <3>6
    <2> QED BY <2>1, <2>2
  <1> QED BY <1>6, <1>7, <1>8, <1>9, <1>10 DEF WatchInv

\* The sweep begins: the generation it loads is that of the table, or a release
\* is under way and asks for the next sweep.
LEMMA BeginWatch ==
    ASSUME WatchInv, NEW open \in BOOLEAN, SweepThreads(open) PROVE WatchInv'
  <1> USE DEF table, flags, game, sweep, down, env, bounds, hist
  <1>1. /\ swpc = "enumerate" /\ swpc' = "snapshot"
        /\ UNCHANGED <<slot, entry, dr, pc, ctx, sd, sdTodo, stillArmed, alive, overtaken,
                       forceRearm>>
    BY DEF SweepThreads
  <1>2. PICK tids :
           /\ (tids = alive /\ missed' = missed) \/ missed' = Threads
           /\ sw' = [sw EXCEPT !.todo = tids, !.left = Slots, !.snap = Clear, !.moved = FALSE,
                               !.same = {t \in Threads : entry[t].gen = "current"},
                               !.open = (open \/ sw.force)]
    BY DEF SweepThreads
  <1>3. sw.cur = {}
    BY <1>1 DEF WatchInv, Ordered
  <1>4. SweepIs(sw.force, (open \/ sw.force), {t \in Threads : entry[t].gen = "current"}, FALSE,
                Slots, Clear, tids, {})
    BY <1>2, <1>3 DEF WatchInv, Shaped, SweepIs
  <1>5. Shaped'
    BY <1>1, <1>4, ClearIs DEF WatchInv, Shaped, SweepIs
  <1>6. Recorded'
    BY <1>1 DEF WatchInv, Recorded, Known
  <1>7. Ordered'
    <2>1. sw'.open = (open \/ sw.force)
      BY <1>4 DEF SweepIs
    <2>2. sw.force => sw'.open
      BY Zenon, <2>1
    <2>3. sw'.cur = {} /\ sw'.force = sw.force
      BY <1>4 DEF SweepIs
    <2>4. Ordered
      BY DEF WatchInv
    <2> QED BY <1>1, <2>2, <2>3, <2>4 DEF Ordered, Sweeping
  <1>8. Saved' /\ (sd = "done" => sdTodo = {})'
    BY <1>1 DEF WatchInv, Saved, InTrap, Undisturbed
  <1>9. Verified'
    BY <1>1 DEF WatchInv, Ordered, Verified
  <1>10. sd' = "no" => Currency'
    BY <1>1, <1>4 DEF WatchInv, Currency, Releasing, Undisturbed, Gone, Watched, Held, SweepIs
  <1>11. ASSUME sd' = "no" PROVE Owing'
    <2>0. sd = "no" /\ Currency /\ Owing
      BY <1>1, <1>11 DEF WatchInv
    <2>1. (Asked' <=> Asked) /\ (Releasing => Asked)
      BY <1>1 DEF Asked, Releasing
    <2>2. \A t \in Threads : Reaches(t) => Reaches(t)'
      BY <1>1, <1>4 DEF Reaches, SweepIs
    <2>3. \A t \in Threads, i \in Slots : Gone(i, dr[t][i])' <=> Gone(i, dr[t][i])
      BY <1>1 DEF Gone, Watched, Held
    <2>4. \A t \in Threads, i \in Slots :
             Gone(i, dr[t][i])' /\ Undisturbed(t)' /\ t \notin missed' => Asked' \/ Reaches(t)'
      BY <1>1, <1>2, <2>0, <2>1, <2>2, <2>3 DEF Owing, Undisturbed
    <2>5. \A t \in Threads, i \in Slots :
             t \in sw.same' /\ Gone(i, dr[t][i])' /\ Undisturbed(t)' => Asked'
      BY <1>1, <1>4, <2>0, <2>1, <2>3 DEF Currency, Undisturbed, SweepIs
    <2>6. \A t \in Threads : Undisturbed(t)' /\ t \notin missed' =>
             t \in sw.todo' \/ \A i \in Slots : dr'[t][i] = NoAddr
      BY <1>1, <1>2, <1>4 DEF WatchInv, Ordered, SweepIs
    <2> QED BY <1>4, <2>4, <2>5, <2>6 DEF Owing, SweepIs
  <1> QED BY <1>5, <1>6, <1>7, <1>8, <1>9, <1>10, <1>11 DEF WatchInv

\* One slot is copied as the table has it now.
LEMMA SnapshotWatch ==
    ASSUME WatchInv, Snapshot PROVE WatchInv'
  <1> USE DEF table, flags, game, sweep, down, env, bounds, hist
  <1>1. /\ swpc = "snapshot"
        /\ UNCHANGED <<slot, entry, dr, pc, ctx, swpc, sd, sdTodo, stillArmed, alive, overtaken,
                       missed, forceRearm>>
    BY DEF Snapshot
  <1>2. PICK k : sw' = [sw EXCEPT !.left = @ \ {k}, !.snap[k] = Watched(k)]
    BY DEF Snapshot
  <1>3. PICK snap : /\ snap = [sw.snap EXCEPT ![k] = Watched(k)]
                    /\ SweepIs(sw.force, sw.open, sw.same, sw.moved, sw.left \ {k}, snap,
                               sw.todo, sw.cur)
    BY <1>2 DEF WatchInv, Shaped, SweepIs
  <1>4. DOMAIN snap = Slots /\ \A i \in Slots : snap[i] = IF i = k THEN Watched(k) ELSE sw.snap[i]
    BY <1>3 DEF WatchInv, Shaped
  <1>5. Shaped'
    BY <1>1, <1>3, <1>4 DEF WatchInv, Shaped, SweepIs
  <1>6. Recorded'
    BY <1>1 DEF WatchInv, Recorded, Known
  <1>7. Ordered'
    BY <1>1, <1>3 DEF WatchInv, Ordered, Sweeping, SweepIs
  <1>8. Saved' /\ Verified' /\ (sd = "done" => sdTodo = {})'
    BY <1>1 DEF WatchInv, Saved, InTrap, Undisturbed, Verified
  <1>10. \A i \in Slots \ (sw.left \ {k}) :
           Gone(i, snap[i]) => i \notin sw.left /\ Gone(i, sw.snap[i])
    BY <1>4 DEF Gone
  <1>11. sd' = "no" => Currency'
    BY <1>1, <1>3, <1>10
       DEF WatchInv, Currency, Releasing, Undisturbed, Gone, Watched, Held, SweepIs
  <1>12. sd' = "no" => Owing'
    BY <1>1, <1>3, <1>10
       DEF WatchInv, Owing, Asked, Reaches, Sweeping, Undisturbed, Gone, Watched, Held, SweepIs
  <1> QED BY <1>5, <1>6, <1>7, <1>8, <1>11, <1>12 DEF WatchInv

\* The threads the sweep has yet to reach are those with something to clear.
LEMMA FlagWatch ==
    ASSUME WatchInv, SetEverProgrammed PROVE WatchInv'
  <1> USE DEF table, flags, game, sweep, down, env, bounds, hist
  <1>1. /\ swpc = "snapshot" /\ swpc' = "threads" /\ sw.left = {}
        /\ UNCHANGED <<slot, entry, dr, pc, ctx, sw, sd, sdTodo, stillArmed, alive, overtaken,
                       missed, forceRearm>>
    BY DEF SetEverProgrammed
  <1>2. Shaped'
    BY <1>1 DEF WatchInv, Shaped
  <1>3. Recorded'
    BY <1>1 DEF WatchInv, Recorded, Known
  <1>4. Ordered'
    BY <1>1 DEF WatchInv, Ordered, Sweeping
  <1>5. Saved' /\ (sd = "done" => sdTodo = {})'
    BY <1>1 DEF WatchInv, Saved, InTrap, Undisturbed
  <1>6. Verified'
    BY <1>1 DEF WatchInv, Ordered, Verified
  <1>7. sd' = "no" => Currency'
    BY <1>1 DEF WatchInv, Currency, Releasing, Undisturbed, Gone, Watched, Held
  <1>8. sd' = "no" => Owing'
    BY <1>1 DEF WatchInv, Owing, Asked, Reaches, Sweeping, Undisturbed, Gone, Watched, Held
  <1> QED BY <1>2, <1>3, <1>4, <1>5, <1>6, <1>7, <1>8 DEF WatchInv

\* A thread is skipped only with nothing to clear or with another sweep asked for.
LEMMA SkipWatch ==
    ASSUME WatchInv, NEW t \in Threads, SkipThread(t) PROVE WatchInv'
  <1> USE DEF table, flags, game, sweep, down, env, bounds, hist
  <1>1. /\ swpc = "threads" /\ (Full(t) \/ UpToDate(t))
        /\ UNCHANGED <<slot, entry, dr, pc, ctx, swpc, sd, sdTodo, stillArmed, alive, overtaken,
                       missed, forceRearm>>
    BY DEF SkipThread
  <1>2. SweepIs(sw.force, sw.open, sw.same, sw.moved, sw.left, sw.snap, sw.todo \ {t}, sw.cur)
    BY DEF SkipThread, WatchInv, Shaped, SweepIs
  <1>3. Shaped'
    BY <1>1, <1>2 DEF WatchInv, Shaped, SweepIs
  <1>4. Recorded'
    BY <1>1 DEF WatchInv, Recorded, Known
  <1>5. Ordered'
    BY <1>1, <1>2 DEF WatchInv, Ordered, Sweeping, SweepIs
  <1>6. Saved' /\ Verified' /\ (sd = "done" => sdTodo = {})'
    BY <1>1 DEF WatchInv, Saved, InTrap, Undisturbed, Verified
  <1>7. sd' = "no" => Currency'
    BY <1>1, <1>2 DEF WatchInv, Currency, Releasing, Undisturbed, Gone, Watched, Held, SweepIs
  <1>8. ASSUME sd' = "no" PROVE Owing'
    <2>0. sd = "no" /\ Owing
      BY <1>1, <1>8 DEF WatchInv
    <2>1. Asked' <=> Asked
      BY <1>1 DEF Asked
    <2>2. \A u \in Threads \ {t} : Reaches(u) => Reaches(u)'
      BY <1>1, <1>2 DEF Reaches, SweepIs
    <2>3. \A u \in Threads, i \in Slots : Gone(i, dr[u][i])' <=> Gone(i, dr[u][i])
      BY <1>1 DEF Gone, Watched, Held
    <2>4. ASSUME NEW i \in Slots, Gone(i, dr[t][i]), Undisturbed(t), t \notin missed, ~Asked
          PROVE  FALSE
      <3>1. Reaches(t)
        BY <2>0, <2>4 DEF Owing
      <3>2. sw.force /\ sw.open
        BY <1>1, <3>1 DEF WatchInv, Ordered, Sweeping, Reaches
      <3>3. t \notin sw.same
        BY <1>1, <2>0, <2>4 DEF Owing, Sweeping
      <3>4. entry[t].tracked
        BY <2>4 DEF WatchInv, Recorded, Known, Gone
      <3> QED BY <1>1, <3>2, <3>3, <3>4 DEF Full, UpToDate
    <2>5. \A u \in Threads, i \in Slots :
             Gone(i, dr[u][i])' /\ Undisturbed(u)' /\ u \notin missed' => Asked' \/ Reaches(u)'
      BY <1>1, <2>0, <2>1, <2>2, <2>3, <2>4 DEF Owing, Undisturbed
    <2>6. \A u \in Threads, i \in Slots :
             u \in sw.same' /\ Gone(i, dr[u][i])' /\ Undisturbed(u)' => Asked'
      BY <1>1, <1>2, <2>0, <2>1, <2>3 DEF Owing, Sweeping, Undisturbed, SweepIs
    <2>7. \A i \in Slots \ sw.left' : Gone(i, sw.snap[i])' => Asked'
      BY <1>1, <1>2, <2>0, <2>1 DEF Owing, Sweeping, Gone, Watched, Held, SweepIs
    <2> QED BY <1>1, <2>5, <2>6, <2>7 DEF Owing
  <1> QED BY <1>3, <1>4, <1>5, <1>6, <1>7, <1>8 DEF WatchInv

\* What EntryOf keeps of an entry.
LEMMA EntryOfIs ==
    ASSUME Shaped, NEW t \in Threads
    PROVE  /\ DOMAIN EntryOf(t) = {"tracked", "gen", "mask", "arms"}
           /\ EntryOf(t).gen = "current" => entry[t].gen = "current"
           /\ EntryOf(t).tracked
           /\ entry[t].tracked => EntryOf(t).mask = entry[t].mask
  <1>1. CASE entry[t].tracked
    BY <1>1 DEF EntryOf, Shaped
  <1>2. CASE ~entry[t].tracked
    BY <1>2 DEF EntryOf, FreshEntry
  <1> QED BY <1>1, <1>2

\* A thread the OS does not open is not up to date, and excused.
LEMMA OpenFailsWatch ==
    ASSUME WatchInv, NEW t \in Threads, OpenThreadFails(t) PROVE WatchInv'
  <1> USE DEF table, flags, game, sweep, down, env, bounds, hist
  <1>1. /\ swpc = "threads" /\ missed' = missed \cup {t}
        /\ UNCHANGED <<slot, dr, pc, ctx, swpc, sd, sdTodo, stillArmed, alive, overtaken,
                       forceRearm>>
    BY DEF OpenThreadFails
  <1>2. SweepIs(sw.force, sw.open, sw.same, sw.moved, sw.left, sw.snap, sw.todo \ {t}, sw.cur)
    BY DEF OpenThreadFails, WatchInv, Shaped, SweepIs
  <1>3. /\ EntryIs(t) /\ entry'[t].gen = "new"
        /\ entry[t].tracked => entry'[t].tracked /\ entry'[t].mask = entry[t].mask
    BY EntryOfIs DEF OpenThreadFails, WatchInv, Shaped, EntryIs
  <1>4. Shaped'
    BY <1>1, <1>2, <1>3 DEF WatchInv, Shaped, EntryIs, SweepIs
  <1>5. Recorded'
    BY <1>1, <1>3 DEF WatchInv, Recorded, Known, EntryIs
  <1>6. Ordered'
    BY <1>1, <1>2 DEF WatchInv, Ordered, Sweeping, SweepIs
  <1>7. Saved' /\ Verified' /\ (sd = "done" => sdTodo = {})'
    BY <1>1 DEF WatchInv, Saved, InTrap, Undisturbed, Verified
  <1>8. sd' = "no" => Currency'
    BY <1>1, <1>2, <1>3
       DEF WatchInv, Currency, Releasing, Undisturbed, Gone, Watched, Held, EntryIs, SweepIs
  <1>9. sd' = "no" => Owing'
    BY <1>1, <1>2
       DEF WatchInv, Owing, Asked, Reaches, Sweeping, Undisturbed, Gone, Watched, Held, SweepIs
  <1> QED BY <1>4, <1>5, <1>6, <1>7, <1>8, <1>9 DEF WatchInv

\* Every watch of the snapshot is recorded before the registers are written.
LEMMA OpenWatch ==
    ASSUME WatchInv, NEW t \in Threads, OpenThread(t) PROVE WatchInv'
  <1> USE DEF table, flags, game, sweep, down, env, bounds, hist
  <1>1. /\ swpc = "threads" /\ swpc' = "arm"
        /\ UNCHANGED <<slot, dr, pc, ctx, sd, sdTodo, stillArmed, alive, overtaken, missed,
                       forceRearm>>
    BY DEF OpenThread
  <1>2. SweepIs(sw.force, sw.open, sw.same, sw.moved, sw.left, sw.snap, sw.todo \ {t}, {t})
    BY DEF OpenThread, WatchInv, Shaped, SweepIs
  <1>3. /\ EntryIs(t) /\ entry'[t].tracked
        /\ entry'[t].gen = "current" => entry[t].gen = "current"
        /\ \A i \in Slots : Known(t, i) \/ sw.snap[i] # NoAddr => i \in entry'[t].mask
    <2>1. entry' = [entry EXCEPT ![t] = RecordedArm(t)]
      BY DEF OpenThread
    <2>2. EntryIs(t) /\ entry'[t].gen = EntryOf(t).gen /\ entry'[t].tracked = EntryOf(t).tracked
      BY <2>1, EntryOfIs DEF RecordedArm, WatchInv, Shaped, EntryIs
    <2>3. entry'[t].mask = EntryOf(t).mask \cup {i \in Slots : sw.snap[i] # NoAddr}
      BY <2>1, EntryOfIs DEF RecordedArm, WatchInv, Shaped
    <2> QED BY <2>2, <2>3, EntryOfIs DEF WatchInv, Known
  <1>4. Shaped'
    BY <1>1, <1>2, <1>3 DEF WatchInv, Shaped, EntryIs, SweepIs
  <1>5. Recorded'
    BY <1>1, <1>2, <1>3 DEF WatchInv, Recorded, Known, EntryIs, SweepIs
  <1>6. Ordered'
    BY <1>1, <1>2 DEF WatchInv, Ordered, Sweeping, SweepIs
  <1>7. Saved' /\ (sd = "done" => sdTodo = {})'
    BY <1>1 DEF WatchInv, Saved, InTrap, Undisturbed
  <1>8. Verified'
    BY <1>1 DEF WatchInv, Ordered, Verified
  <1>9. sd' = "no" => Currency'
    BY <1>1, <1>2, <1>3
       DEF WatchInv, Currency, Releasing, Undisturbed, Gone, Watched, Held, EntryIs, SweepIs
  <1>10. ASSUME sd' = "no" PROVE Owing'
    <2>0. sd = "no" /\ Owing
      BY <1>1, <1>10 DEF WatchInv
    <2>1. Asked' <=> Asked
      BY <1>1 DEF Asked
    <2>2a. sw.cur = {}
      BY <1>1 DEF WatchInv, Ordered
    <2>2. \A u \in Threads : Reaches(u) => Reaches(u)'
      BY <1>1, <1>2, <2>2a DEF Reaches, SweepIs
    <2>3. \A u \in Threads, i \in Slots : Gone(i, dr[u][i])' <=> Gone(i, dr[u][i])
      BY <1>1 DEF Gone, Watched, Held
    <2>4. \A i \in Slots : Gone(i, sw.snap[i])' <=> Gone(i, sw.snap[i])
      BY <1>1, <1>2 DEF Gone, Watched, Held, SweepIs
    <2> QED BY <1>1, <1>2, <2>0, <2>1, <2>2, <2>3, <2>4 DEF Owing, Sweeping, Undisturbed, SweepIs
  <1> QED BY <1>4, <1>5, <1>6, <1>7, <1>8, <1>9, <1>10 DEF WatchInv

\* What a write from outside leaves of the history of a thread.
LEMMA OutsideIs ==
    ASSUME Shaped, NEW t \in Threads, Outside(t)
    PROVE  /\ overtaken' \in [Threads -> {"no", "early", "late"}]
           /\ \A u \in Threads \ {t} : overtaken'[u] = overtaken[u]
           /\ overtaken'[t] = "no" <=> ~InTrap(t)
           /\ pc[t] = "return" => overtaken'[t] = "late"
           /\ overtaken'[t] = "early" => pc[t] \in {"classify", "trapBump"}
  <1>1. PICK o : /\ o = CASE pc[t] = "return" -> "late"
                          [] InTrap(t) /\ pc[t] # "return" -> "early"
                          [] OTHER -> "no"
                 /\ overtaken' = [overtaken EXCEPT ![t] = o]
    BY DEF Outside
  <1>2. CASE pc[t] = "return"
    BY <1>1, <1>2 DEF Shaped, InTrap
  <1>3. CASE InTrap(t) /\ pc[t] # "return"
    BY <1>1, <1>3 DEF Shaped, InTrap
  <1>4. CASE ~InTrap(t)
    BY <1>1, <1>4 DEF Shaped, InTrap
  <1> QED BY <1>2, <1>3, <1>4

\* The registers get the snapshot, and the generation loaded before it.
LEMMA ArmWatch ==
    ASSUME WatchInv, NEW t \in Threads, ArmThread(t) PROVE WatchInv'
  <1> USE DEF table, flags, game, sweep, down, env, bounds, hist
  <1>1. /\ swpc = "arm" /\ swpc' = "threads" /\ t \in sw.cur /\ t \in alive
        /\ missed' = missed \ {t} /\ Outside(t)
        /\ UNCHANGED <<slot, pc, ctx, sd, sdTodo, stillArmed, alive, forceRearm>>
    BY DEF ArmThread
  <1>2. SweepIs(sw.force, sw.open, sw.same, sw.moved, sw.left, sw.snap, sw.todo, {})
    BY DEF ArmThread, WatchInv, Shaped, SweepIs
  <1>3. DrIs(t) /\ dr'[t] = sw.snap
    BY DEF ArmThread, WatchInv, Shaped, DrIs
  <1>4. /\ EntryIs(t) /\ entry'[t].tracked = entry[t].tracked /\ entry'[t].mask = entry[t].mask
        /\ entry'[t].gen = LoadedGeneration
    BY DEF ArmThread, WatchInv, Shaped, EntryIs
  <1>5. /\ overtaken' \in [Threads -> {"no", "early", "late"}]
        /\ \A u \in Threads \ {t} : overtaken'[u] = overtaken[u]
        /\ overtaken'[t] = "no" <=> ~InTrap(t)
        /\ pc[t] = "return" => overtaken'[t] = "late"
        /\ overtaken'[t] = "early" => pc[t] \in {"classify", "trapBump"}
    BY <1>1, OutsideIs DEF WatchInv
  <1>6. sw.left = {} /\ (\A u \in sw.cur : u = t) /\ Sweeping /\ Sweeping'
    BY <1>1 DEF WatchInv, Ordered, Sweeping
  <1>7. Shaped'
    BY <1>1, <1>2, <1>3, <1>4, <1>5 DEF WatchInv, Shaped, DrIs, EntryIs, SweepIs
  <1>8. Recorded'
    BY <1>1, <1>3, <1>4 DEF WatchInv, Recorded, Known, DrIs, EntryIs
  <1>9. Ordered'
    BY <1>1, <1>2, <1>3, <1>6 DEF WatchInv, Ordered, DrIs, SweepIs
  <1>10. Saved'
    BY <1>1, <1>3, <1>5 DEF WatchInv, Saved, InTrap, Undisturbed, DrIs
  <1>11. Verified' /\ (sd = "done" => sdTodo = {})'
    BY <1>1 DEF WatchInv, Ordered, Verified
  <1>12. \A u \in Threads \ {t}, i \in Slots : Gone(i, dr[u][i])' <=> Gone(i, dr[u][i])
    BY <1>1, <1>3 DEF Gone, Watched, Held, DrIs
  <1>13. \A i \in Slots : Gone(i, dr[t][i])' <=> Gone(i, sw.snap[i])
    BY <1>1, <1>3 DEF Gone, Watched, Held, DrIs
  <1>14. \A i \in Slots : Gone(i, sw.snap[i])' <=> Gone(i, sw.snap[i])
    BY <1>1, <1>2 DEF Gone, Watched, Held, SweepIs
  <1>15. (Asked' <=> Asked) /\ (Releasing' <=> Releasing)
    BY <1>1 DEF Asked, Releasing
  <1>16. \A u \in Threads \ {t} : Undisturbed(u)' <=> Undisturbed(u)
    BY <1>5 DEF Undisturbed
  <1>17. ASSUME sd' = "no" PROVE Currency'
    <2>0. sd = "no" /\ Currency
      BY <1>1, <1>17 DEF WatchInv
    <2>1. entry'[t].gen = "current" => ~sw.moved
      BY <1>4 DEF LoadedGeneration
    <2>2. ~Releasing' => \A u \in Threads, i \in Slots :
             entry'[u].gen = "current" /\ Undisturbed(u)' => ~Gone(i, dr[u][i])'
      BY <2>0, <2>1, <1>4, <1>6, <1>12, <1>13, <1>15, <1>16 DEF Currency, EntryIs
    <2>3. \A u \in Threads : entry'[u].gen = "current" /\ overtaken'[u] = "early" =>
             pc'[u] \in {"classify", "trapBump"}
      BY <2>0, <1>1, <1>4, <1>5 DEF Currency, EntryIs
    <2>4. \A u \in Threads : entry'[u].gen = "current" /\ pc'[u] = "return" =>
             overtaken'[u] = "late"
      BY <2>0, <1>1, <1>4, <1>5 DEF Currency, EntryIs
    <2>5. ~Releasing' /\ ~sw'.moved => \A i \in Slots \ sw'.left : ~Gone(i, sw.snap[i])'
      BY <2>0, <1>2, <1>14, <1>15 DEF Currency, SweepIs
    <2> QED BY <2>2, <2>3, <2>4, <2>5 DEF Currency
  <1>18. ASSUME sd' = "no" PROVE Owing'
    <2>0. sd = "no" /\ Owing
      BY <1>1, <1>18 DEF WatchInv
    <2>1. \A u \in Threads \ {t} : Reaches(u) => Reaches(u)'
      BY <1>1, <1>2, <1>6 DEF Reaches, SweepIs
    <2>2. \A i \in Slots : Gone(i, sw.snap[i]) => Asked
      BY <2>0, <1>6 DEF Owing
    <2>3. \A u \in Threads, i \in Slots :
             Gone(i, dr[u][i])' /\ Undisturbed(u)' /\ u \notin missed' => Asked' \/ Reaches(u)'
      BY <2>0, <2>1, <2>2, <1>1, <1>12, <1>13, <1>15, <1>16 DEF Owing
    <2>4. \A u \in Threads, i \in Slots :
             u \in sw.same' /\ Gone(i, dr[u][i])' /\ Undisturbed(u)' => Asked'
      BY <2>0, <2>2, <1>2, <1>6, <1>12, <1>13, <1>15, <1>16 DEF Owing, SweepIs
    <2>5. \A i \in Slots \ sw.left' : Gone(i, sw.snap[i])' => Asked'
      BY <2>2, <1>14, <1>15
    <2> QED BY <1>1, <2>3, <2>4, <2>5 DEF Owing
  <1> QED BY <1>7, <1>8, <1>9, <1>10, <1>11, <1>17, <1>18 DEF WatchInv

\* The OS refuses: the registers stay, and the thread is excused.
LEMMA ArmFailsWatch ==
    ASSUME WatchInv, NEW t \in Threads, ArmThreadFails(t) PROVE WatchInv'
  <1> USE DEF table, flags, game, sweep, down, env, bounds, hist
  <1>1. /\ swpc = "arm" /\ swpc' = "threads" /\ t \in sw.cur /\ missed' = missed \cup {t}
        /\ UNCHANGED <<slot, entry, dr, pc, ctx, sd, sdTodo, stillArmed, alive, overtaken,
                       forceRearm>>
    BY DEF ArmThreadFails
  <1>2. SweepIs(sw.force, sw.open, sw.same, sw.moved, sw.left, sw.snap, sw.todo, {})
    BY DEF ArmThreadFails, WatchInv, Shaped, SweepIs
  <1>3. \A u \in sw.cur : u = t
    BY <1>1 DEF WatchInv, Ordered
  <1>4. Shaped'
    BY <1>1, <1>2 DEF WatchInv, Shaped, SweepIs
  <1>5. Recorded'
    BY <1>1 DEF WatchInv, Recorded, Known
  <1>6. Ordered'
    BY <1>1, <1>2 DEF WatchInv, Ordered, Sweeping, SweepIs
  <1>7. Saved' /\ (sd = "done" => sdTodo = {})'
    BY <1>1 DEF WatchInv, Saved, InTrap, Undisturbed
  <1>8. Verified'
    BY <1>1 DEF WatchInv, Ordered, Verified
  <1>9. sd' = "no" => Currency'
    BY <1>1, <1>2 DEF WatchInv, Currency, Releasing, Undisturbed, Gone, Watched, Held, SweepIs
  <1>10. sd' = "no" => Owing'
    BY <1>1, <1>2, <1>3
       DEF WatchInv, Owing, Asked, Reaches, Sweeping, Undisturbed, Gone, Watched, Held, SweepIs
  <1> QED BY <1>4, <1>5, <1>6, <1>7, <1>8, <1>9, <1>10 DEF WatchInv

----------------------------------------------------------------------------
\* Steps of Shutdown that only its own locals see, before it verifies.
LEMMA StepDownWatch ==
    ASSUME WatchInv,
           UNCHANGED <<slot, entry, dr, ctx, swpc, sw, stillArmed, alive, overtaken, missed,
                       forceRearm>>,
           PcIs(Main, "shutdown") \/ UNCHANGED pc, pc[Main] \in {"run", "shutdown"}, Main \in alive,
           sd' \in {"stop", "join"} \/ (sd' = "disarm" /\ swpc = "stopped")
    PROVE  WatchInv'
  <1>1. Shaped' /\ Recorded'
    BY DEF WatchInv, Shaped, Recorded, Known, PcIs
  <1>2. Ordered'
    BY MainIs DEF WatchInv, Ordered, Sweeping, PcIs
  <1>3. Saved'
    BY MainIs DEF WatchInv, Saved, InTrap, Undisturbed, PcIs
  <1>4. Verified' /\ (sd = "done" => sdTodo = {})' /\ sd' # "no"
    BY DEF Verified
  <1> QED BY <1>1, <1>2, <1>3, <1>4 DEF WatchInv

\* Shutdown up to the enumeration of the threads.
LEMMA StopWatch ==
    ASSUME WatchInv, Deactivate \/ StopSweeper \/ Join PROVE WatchInv'
  <1> USE DEF table, flags, game, sweep, down, env, bounds, hist, Goto
  <1>1. CASE Deactivate
    <2>1. PcIs(Main, "shutdown")
      BY <1>1, MainIs DEF Deactivate, WatchInv, Shaped, PcIs
    <2> QED BY <1>1, <2>1, StepDownWatch DEF Deactivate
  <1>2. CASE StopSweeper \/ Join
    <2>1. pc[Main] = "shutdown" /\ Main \in alive
      BY <1>2, MainIs DEF StopSweeper, Join, Down, WatchInv, Ordered
    <2> QED BY <1>2, <2>1, StepDownWatch DEF StopSweeper, Join, Down
  <1> QED BY <1>1, <1>2

\* A thread is disarmed, also inside its trap, where its return overwrites it.
LEMMA DisarmWatch ==
    ASSUME WatchInv, NEW t \in Threads, DisarmThread(t) PROVE WatchInv'
  <1> USE DEF table, flags, game, sweep, down, env, bounds, hist, Goto
  <1>1. /\ sd = "disarm" /\ sd' = "disarm" /\ pc[Main] = "shutdown"
        /\ UNCHANGED <<slot, entry, ctx, swpc, sw, stillArmed, alive, missed, forceRearm>>
    BY DEF DisarmThread, Down
  <1>2. \/ /\ dr' = [dr EXCEPT ![t] = Clear] /\ Outside(t) /\ pc' = pc
        \/ UNCHANGED <<dr, overtaken, pc>>
        \/ t = Main /\ pc' = [pc EXCEPT ![t] = "suspended"] /\ UNCHANGED <<dr, overtaken>>
    BY DEF DisarmThread
  <1>3. CASE UNCHANGED <<dr, overtaken, pc>>
    <2>1. Main \in alive
      BY <1>1, MainIs DEF WatchInv, Ordered
    <2>2. swpc = "stopped"
      BY <1>1 DEF WatchInv, Ordered
    <2> QED BY <1>1, <1>3, <2>1, <2>2, StepDownWatch
  <1>4. CASE dr' = [dr EXCEPT ![t] = Clear] /\ Outside(t) /\ pc' = pc
    <2>1. DrIs(t) /\ \A i \in Slots : dr'[t][i] = NoAddr
      BY <1>4, ClearIs DEF WatchInv, Shaped, DrIs
    <2>2. /\ overtaken' \in [Threads -> {"no", "early", "late"}]
          /\ \A u \in Threads \ {t} : overtaken'[u] = overtaken[u]
          /\ overtaken'[t] = "no" <=> ~InTrap(t)
      BY <1>4, OutsideIs DEF WatchInv
    <2>3. Shaped'
      BY <1>1, <1>4, <2>1, <2>2 DEF WatchInv, Shaped, DrIs
    <2>4. Recorded'
      BY <1>1, <1>4, <2>1 DEF WatchInv, Recorded, Known, DrIs
    <2>5. Ordered'
      BY <1>1, <1>4, <2>1 DEF WatchInv, Ordered, Sweeping, DrIs
    <2>6. Saved'
      BY <1>1, <1>4, <2>1, <2>2 DEF WatchInv, Saved, InTrap, Undisturbed, DrIs
    <2> QED BY <1>1, <2>3, <2>4, <2>5, <2>6 DEF WatchInv, Verified
  <1>5. CASE t = Main /\ pc' = [pc EXCEPT ![t] = "suspended"] /\ UNCHANGED <<dr, overtaken>>
    <2>1. PcIs(t, "suspended")
      BY <1>5 DEF WatchInv, Shaped, PcIs
    <2>2. Shaped'
      BY <1>1, <1>5, <2>1 DEF WatchInv, Shaped, PcIs
    <2>3. Recorded'
      BY <1>1, <1>5, <2>1 DEF WatchInv, Recorded, Known, PcIs
    <2>4. Ordered'
      BY <1>1, <1>5, <2>1 DEF WatchInv, Ordered, Sweeping, PcIs
    <2>5. Saved'
      BY <1>1, <1>5, <2>1 DEF WatchInv, Saved, InTrap, Undisturbed, PcIs
    <2> QED BY <1>1, <2>2, <2>3, <2>4, <2>5 DEF WatchInv, Verified
  <1> QED BY <1>2, <1>3, <1>4, <1>5

\* The calling thread disarms itself, or the OS refuses.
LEMMA DisarmSelfWatch ==
    ASSUME WatchInv, DisarmCurrentThread PROVE WatchInv'
  <1> USE DEF table, flags, game, sweep, down, env, bounds, hist
  <1>1. /\ sd = "disarm" /\ sd' = "disarmed" /\ pc[Main] = "shutdown"
        /\ UNCHANGED <<slot, entry, pc, ctx, swpc, sw, stillArmed, alive, overtaken, missed>>
    BY DEF DisarmCurrentThread, Down
  <1>2. /\ DrIs(Main)
        /\ \A i \in Slots : dr'[Main][i] \in {dr[Main][i], NoAddr}
    <2>1. CASE dr' = dr
      BY <2>1, MainIs DEF WatchInv, Shaped, DrIs
    <2>2. CASE dr' = [dr EXCEPT ![Main] = Clear]
      BY <2>2, MainIs, ClearIs DEF WatchInv, Shaped, DrIs
    <2> QED BY <2>1, <2>2 DEF DisarmCurrentThread
  <1>3. Shaped'
    BY <1>1, <1>2, MainIs DEF WatchInv, Shaped, DrIs
  <1>4. Recorded'
    BY <1>1, <1>2, MainIs DEF WatchInv, Recorded, Known, DrIs
  <1>5. Ordered'
    BY <1>1, <1>2, MainIs DEF WatchInv, Ordered, Sweeping, DrIs
  <1>6. Saved'
    BY <1>1, <1>2, MainIs DEF WatchInv, Saved, InTrap, Undisturbed, DrIs
  <1> QED BY <1>1, <1>3, <1>4, <1>5, <1>6 DEF WatchInv, Verified

\* The verification: nothing is claimed of a thread before it is looked at.
LEMMA VerifyWatch ==
    ASSUME WatchInv, Verify PROVE WatchInv'
  <1> USE DEF table, flags, game, sweep, down, env, bounds, hist
  <1>1. /\ sd = "disarmed" /\ sd' = "verify" /\ pc[Main] = "shutdown"
        /\ missed' = alive \ sdTodo'
        /\ UNCHANGED <<slot, entry, dr, pc, ctx, swpc, sw, stillArmed, alive, overtaken>>
    BY DEF Verify, Down
  <1>2. Shaped' /\ Recorded'
    BY <1>1 DEF WatchInv, Shaped, Recorded, Known
  <1>3. Ordered'
    BY <1>1 DEF WatchInv, Ordered, Sweeping
  <1>4. Saved'
    BY <1>1 DEF WatchInv, Saved, InTrap, Undisturbed
  <1>5. Verified'
    BY <1>1 DEF Verified
  <1> QED BY <1>1, <1>2, <1>3, <1>4, <1>5 DEF WatchInv

\* A thread that was looked at is clear, or something was found armed.
LEMMA VerifyThreadWatch ==
    ASSUME WatchInv, NEW t \in Threads, VerifyThread(t) PROVE WatchInv'
  <1> USE DEF table, flags, game, sweep, down, env, bounds, hist
  <1>1. /\ sd = "verify" /\ sd' = "verify" /\ pc[Main] = "shutdown" /\ sdTodo' = sdTodo \ {t}
        /\ UNCHANGED <<slot, entry, dr, pc, ctx, swpc, sw, alive, overtaken>>
    BY DEF VerifyThread, Down
  <1>2. Shaped' /\ Recorded'
    BY <1>1 DEF WatchInv, Shaped, Recorded, Known
  <1>3. Ordered'
    BY <1>1 DEF WatchInv, Ordered, Sweeping
  <1>4. Saved'
    BY <1>1 DEF WatchInv, Saved, InTrap, Undisturbed
  <1>5. Verified'
    <2>1. CASE stillArmed' = (stillArmed \/ dr[t] # Clear) /\ missed' = missed
      <3>1. ~stillArmed' => ~stillArmed /\ dr[t] = Clear
        BY Zenon, <2>1
      <3>2. dr[t] = Clear => \A i \in Slots : dr[t][i] = NoAddr
        BY ClearIs
      <3> QED BY <1>1, <2>1, <3>1, <3>2 DEF WatchInv, Verified, Undisturbed
    <2>2. CASE missed' = missed \cup {t} /\ stillArmed' = stillArmed
      BY <1>1, <2>2 DEF WatchInv, Verified, Undisturbed
    <2> QED BY <2>1, <2>2 DEF VerifyThread
  <1> QED BY <1>1, <1>2, <1>3, <1>4, <1>5 DEF WatchInv

\* Behind the last inspection nobody is armed any more.
LEMMA ClearAllWatch ==
    ASSUME WatchInv, ClearAll PROVE WatchInv'
  <1> USE DEF table, flags, game, sweep, down, env, bounds, hist, Goto
  <1>1. /\ sd = "verify" /\ sd' = "done" /\ pc[Main] = "shutdown" /\ sdTodo = {}
        /\ UNCHANGED <<entry, dr, ctx, swpc, sw, sdTodo, stillArmed, alive, overtaken, missed>>
    BY DEF ClearAll, Down
  <1>2. PcIs(Main, "run")
    BY MainIs DEF ClearAll, WatchInv, Shaped, PcIs
  <1>3. DOMAIN slot' = Slots /\ \A i \in Slots : DOMAIN slot'[i] = {"addr", "released"}
    BY DEF ClearAll, WatchInv, Shaped
  <1>4. Shaped'
    BY <1>1, <1>2, <1>3 DEF WatchInv, Shaped, PcIs
  <1>5. Recorded'
    BY <1>1, <1>2, MainIs DEF WatchInv, Recorded, Known, PcIs
  <1>6. Ordered'
    BY <1>1, <1>2, MainIs DEF WatchInv, Ordered, Sweeping, PcIs
  <1>7. Saved'
    BY <1>1, <1>2, MainIs DEF WatchInv, Saved, InTrap, Undisturbed, PcIs
  <1>8. Verified'
    BY <1>1 DEF WatchInv, Verified, Undisturbed
  <1> QED BY <1>1, <1>4, <1>5, <1>6, <1>7, <1>8 DEF WatchInv

\* Every step keeps the invariant.
LEMMA NextWatch == WatchInv /\ [Next]_vars => WatchInv'
  <1> USE DEF table, flags, game, sweep, down, env, bounds, hist
  <1> SUFFICES ASSUME WatchInv, [Next]_vars PROVE WatchInv'
    OBVIOUS
  <1>1. CASE Sweeper
    <2>1. CASE Wake \/ SweepOnce \/ CheckActive \/ Promoted \/ SweptAll \/ Sleep
      BY <2>1, LoopWatch
    <2>2. CASE Promote \/ RotateHeld \/ Snapshot \/ SetEverProgrammed \/ DrainReport
      BY <2>2, PromoteWatch, RotateWatch, SnapshotWatch, FlagWatch, DrainWatch
    <2>3. CASE \E open \in BOOLEAN : SweepThreads(open)
      BY <2>3, BeginWatch
    <2>4. CASE \E t \in Threads : \/ SkipThread(t) \/ OpenThreadFails(t) \/ OpenThread(t)
                                  \/ ArmThread(t) \/ ArmThreadFails(t)
      BY <2>4, SkipWatch, OpenFailsWatch, OpenWatch, ArmWatch, ArmFailsWatch
    <2> QED BY <1>1, <2>1, <2>2, <2>3, <2>4 DEF Sweeper
  <1>2. CASE Deactivate \/ InShutdown
    <2>1. CASE Deactivate \/ StopSweeper \/ Join
      BY <2>1, StopWatch
    <2>2. CASE DisarmCurrentThread \/ Verify \/ ClearAll
      BY <2>2, DisarmSelfWatch, VerifyWatch, ClearAllWatch
    <2>3. CASE \E t \in Threads : DisarmThread(t) \/ VerifyThread(t)
      BY <2>3, DisarmWatch, VerifyThreadWatch
    <2> QED BY <1>2, <2>1, <2>2, <2>3 DEF InShutdown
  <1>3. CASE NotifyReportEvent \/ Finished \/ UNCHANGED vars
    <2>1. UNCHANGED <<slot, entry, dr, pc, ctx, swpc, sw, sd, sdTodo, stillArmed, alive,
                      overtaken, missed, forceRearm>>
      BY <1>3 DEF NotifyReportEvent, Finished, vars
    <2> QED BY <2>1, QuietWatch
  <1>4. ASSUME NEW t \in Threads, InCall(t) PROVE WatchInv'
    BY <1>4, RequestBumpWatch, RequestForceWatch, PassedWatch, ClassifyWatch, TrapBumpWatch,
       ReturnWatch DEF InCall
  <1>5. ASSUME NEW t \in Threads, Game(t) PROVE WatchInv'
    <2>1. ASSUME NEW b \in Blocks, OnScaleformAlloc(t, b) PROVE WatchInv'
      <3>1. UNCHANGED <<slot, entry, dr, pc, ctx, swpc, sw, sd, sdTodo, stillArmed, alive,
                        overtaken, missed, forceRearm>>
        BY <2>1 DEF OnScaleformAlloc
      <3> QED BY <3>1, QuietWatch
    <2>2. CASE Store(t)
      <3>1. PICK i \in Slots : dr[t][i] # NoAddr /\ DebugException(t, dr[t][i])
        BY <2>2 DEF Store
      <3> QED BY <2>2, <3>1, DebugWatch DEF Store, CanTrap
    <2>3. CASE SingleStep(t)
      BY <2>3, DebugWatch DEF SingleStep, CanTrap
    <2> QED BY <1>5, <2>1, <2>2, <2>3, FreeWatch, ExitWatch, StartWatch DEF Game
  <1> QED BY <1>1, <1>2, <1>3, <1>4, <1>5 DEF Next

\* Whatever has happened so far, the invariant holds.
LEMMA SpecWatch == Spec => []WatchInv
  BY InitWatch, NextWatch, PTL DEF Spec

(* Registers, wherever they are kept, are functions.                          *)
IsRegs(r) == r = [i \in Slots |-> r[i]]
AllRegs == /\ \A t \in Threads : IsRegs(dr[t]) /\ IsRegs(ctx[t].regs)
           /\ IsRegs(sw.snap)

\* Clear is one.
LEMMA RegsAre == IsRegs(Clear)
  BY DEF IsRegs, Clear

\* The steps that write no registers.
LEMMA OtherRegs ==
    ASSUME WatchInv, AllRegs, UNCHANGED <<dr, ctx>>, sw'.snap = sw.snap \/ sw'.snap = Clear
    PROVE  AllRegs'
  BY RegsAre DEF AllRegs

\* What the sweeper writes.
LEMMA SweeperRegs ==
    ASSUME WatchInv, AllRegs, Sweeper PROVE AllRegs'
  <1> USE DEF table, flags, game, sweep, down, env, bounds, hist
  <1>1. CASE Wake \/ SweptAll
    <2>1. UNCHANGED <<dr, ctx>> /\ sw'.snap = Clear
      BY <1>1 DEF Wake, SweptAll, Asleep
    <2> QED BY <2>1, OtherRegs
  <1>2. CASE CheckActive \/ SweepOnce \/ Promoted \/ Promote \/ RotateHeld \/ Sleep
             \/ DrainReport \/ SetEverProgrammed
    <2>1. UNCHANGED <<dr, ctx>>
      BY Zenon, <1>2 DEF CheckActive, SweepOnce, Promoted, Promote, RotateHeld, Sleep, DrainReport,
                         SetEverProgrammed
    <2>2. \/ sw' = sw \/ sw' = [sw EXCEPT !.force = TRUE, !.back = TRUE]
          \/ sw' = [sw EXCEPT !.n = 0] \/ sw' = [sw EXCEPT !.n = @ + 1]
          \/ sw' = [sw EXCEPT !.force = TRUE] \/ sw' = [sw EXCEPT !.force = forceRearm]
      BY Zenon, <1>2 DEF CheckActive, SweepOnce, Promoted, Promote, RotateHeld, Sleep, DrainReport,
                         SetEverProgrammed
    <2>3. sw'.snap = sw.snap
      BY <2>2 DEF WatchInv, Shaped
    <2> QED BY <2>1, <2>3, OtherRegs
  <1>3. ASSUME NEW open \in BOOLEAN, SweepThreads(open) PROVE AllRegs'
    <2>1. UNCHANGED <<dr, ctx>> /\ sw'.snap = Clear
      BY <1>3 DEF SweepThreads, WatchInv, Shaped
    <2> QED BY <2>1, OtherRegs
  <1>4. CASE Snapshot
    <2>1. UNCHANGED <<dr, ctx>>
      BY <1>4 DEF Snapshot
    <2>2. PICK k : sw' = [sw EXCEPT !.left = @ \ {k}, !.snap[k] = Watched(k)]
      BY <1>4 DEF Snapshot
    <2>3. sw'.snap = [sw.snap EXCEPT ![k] = Watched(k)]
      BY <2>2 DEF WatchInv, Shaped
    <2>4. IsRegs(sw.snap)
      BY DEF AllRegs
    <2>5. IsRegs(sw'.snap)
      BY <2>3, <2>4 DEF IsRegs
    <2> QED BY <2>1, <2>5 DEF AllRegs
  <1>5. ASSUME NEW t \in Threads,
               SkipThread(t) \/ OpenThreadFails(t) \/ OpenThread(t) \/ ArmThreadFails(t)
        PROVE  AllRegs'
    <2>1. UNCHANGED <<dr, ctx>> /\ sw'.snap = sw.snap
      BY <1>5 DEF SkipThread, OpenThreadFails, OpenThread, ArmThreadFails, WatchInv, Shaped
    <2> QED BY <2>1, OtherRegs
  <1>6. ASSUME NEW t \in Threads, ArmThread(t) PROVE AllRegs'
    <2>1. dr' = [dr EXCEPT ![t] = sw.snap] /\ ctx' = ctx /\ sw'.snap = sw.snap
      BY <1>6 DEF ArmThread, WatchInv, Shaped
    <2>2. \A u \in Threads : dr'[u] \in {dr[u], sw.snap}
      BY <2>1 DEF WatchInv, Shaped
    <2> QED BY <2>1, <2>2 DEF AllRegs
  <1> QED BY <1>1, <1>2, <1>3, <1>4, <1>5, <1>6 DEF Sweeper

\* What everybody else writes.
LEMMA OtherStepsRegs ==
    ASSUME WatchInv, AllRegs, Next, ~Sweeper PROVE AllRegs'
  <1> USE DEF table, flags, game, sweep, down, env, bounds, hist, Goto
  <1>1. CASE Deactivate \/ NotifyReportEvent \/ Finished \/ StopSweeper \/ Join \/ Verify
             \/ ClearAll
    <2>1. UNCHANGED <<dr, ctx, sw>>
      BY <1>1 DEF Deactivate, NotifyReportEvent, Finished, StopSweeper, Join, Verify, ClearAll, vars
    <2> QED BY <2>1, OtherRegs
  <1>2. ASSUME NEW t \in Threads,
               VerifyThread(t) \/ RequestDisarmForce(t) \/ PassedOn(t) \/ Start(t)
               \/ \E b \in Blocks : OnScaleformAlloc(t, b) \/ OnScaleformFree(t, b)
        PROVE  AllRegs'
    <2>1. UNCHANGED <<dr, ctx, sw>>
      BY <1>2 DEF VerifyThread, RequestDisarmForce, PassedOn, Start, OnScaleformAlloc,
                  OnScaleformFree
    <2> QED BY <2>1, OtherRegs
  <1>3. ASSUME NEW t \in Threads, RequestDisarmBump(t) \/ TrapBump(t) PROVE AllRegs'
    <2>1. UNCHANGED <<dr, ctx>> /\ sw'.snap = sw.snap
      BY <1>3 DEF RequestDisarmBump, TrapBump, BumpGeneration, WatchInv, Shaped
    <2> QED BY <2>1, OtherRegs
  <1>4. ASSUME NEW t \in Threads, Exit(t) \/ DisarmThread(t) \/ DisarmCurrentThread PROVE AllRegs'
    <2>1. UNCHANGED <<ctx, sw>>
      BY <1>4 DEF Exit, DisarmThread, DisarmCurrentThread
    <2>2. dr' = dr \/ \E v \in Threads : dr' = [dr EXCEPT ![v] = Clear]
      BY <1>4, MainIs DEF Exit, DisarmThread, DisarmCurrentThread
    <2>3. \A u \in Threads : dr'[u] \in {dr[u], Clear}
      BY <2>2 DEF WatchInv, Shaped
    <2> QED BY <2>1, <2>3, RegsAre DEF AllRegs
  <1>5. ASSUME NEW t \in Threads, NEW hit, DebugException(t, hit) PROVE AllRegs'
    <2>1. UNCHANGED <<dr, sw>>
      BY <1>5 DEF DebugException
    <2>2. \A u \in Threads : ctx'[u].regs \in {ctx[u].regs, dr[u]}
      BY <1>5 DEF DebugException, WatchInv, Shaped
    <2> QED BY <2>1, <2>2 DEF AllRegs
  <1>6. ASSUME NEW t \in Threads, Classify(t) PROVE AllRegs'
    <2>1. UNCHANGED <<dr, sw>>
      BY <1>6 DEF Classify
    <2>2. PICK rec : ctx' = [ctx EXCEPT ![t].regs =
                        [i \in Slots |-> IF i \in Stale(t) \cup rec THEN NoAddr ELSE @[i]]]
      BY <1>6 DEF Classify
    <2>3. ctx'[t].regs = [i \in Slots |-> IF i \in Stale(t) \cup rec THEN NoAddr
                                          ELSE ctx[t].regs[i]]
      BY <2>2 DEF WatchInv, Shaped
    <2>4. \A u \in Threads \ {t} : ctx'[u] = ctx[u]
      BY <2>2 DEF WatchInv, Shaped
    <2>5. IsRegs(ctx'[t].regs)
      BY <2>3 DEF IsRegs
    <2> QED BY <2>1, <2>4, <2>5 DEF AllRegs
  <1>7. ASSUME NEW t \in Threads, Return(t) PROVE AllRegs'
    <2>1. UNCHANGED sw /\ dr' = [dr EXCEPT ![t] = ctx[t].regs] /\ ctx' = [ctx EXCEPT ![t] = NoTrap]
      BY <1>7 DEF Return
    <2>2. \A u \in Threads : /\ dr'[u] \in {dr[u], ctx[u].regs}
                             /\ ctx'[u].regs \in {ctx[u].regs, Clear}
      BY <2>1 DEF WatchInv, Shaped, NoTrap
    <2> QED BY <2>1, <2>2, RegsAre DEF AllRegs
  <1>8. ASSUME NEW t \in Threads, InCall(t) \/ Game(t) PROVE AllRegs'
    <2>1. CASE InCall(t)
      BY <2>1, <1>2, <1>3, <1>6, <1>7 DEF InCall
    <2>2. CASE Store(t) \/ SingleStep(t)
      BY <2>2, <1>5 DEF Store, SingleStep
    <2> QED BY <1>8, <2>1, <2>2, <1>2, <1>4 DEF Game
  <1>9. CASE InShutdown
    BY <1>9, <1>1, <1>2, <1>4, MainIs DEF InShutdown
  <1> QED BY <1>1, <1>8, <1>9 DEF Next

\* Registers are functions in every state.
LEMMA SpecRegs == Spec => []AllRegs
  <1>1. Init => AllRegs
    BY RegsAre DEF Init, AllRegs, NoTrap, Asleep
  <1>2. WatchInv /\ AllRegs /\ [Next]_vars => AllRegs'
    <2>1. UNCHANGED vars /\ AllRegs => AllRegs'
      BY DEF vars, AllRegs
    <2> QED BY <2>1, SweeperRegs, OtherStepsRegs
  <1> QED BY <1>1, <1>2, SpecWatch, PTL DEF Spec

\* A trap of a register that the manager programmed is always attributed to a
\* slot by ClassifyTrapOwner, whatever the table and the sweeper do meanwhile,
\* because RecordArm precedes ArmThread.
THEOREM SpecOwnTrapAttributed == Spec => []OwnTrapAttributed
  <1>1. WatchInv => OwnTrapAttributed
    <2> SUFFICES ASSUME WatchInv, NEW t \in Threads, pc[t] = "classify", ctx[t].hit # NoAddr
                 PROVE  Ours(t) # {}
      BY DEF OwnTrapAttributed
    <2>1. PICK i \in Slots : ctx[t].regs[i] = ctx[t].hit /\ i \in ctx[t].mask
      BY DEF WatchInv, Recorded
    <2>2. i \in Hits(t)
      BY <2>1 DEF Hits
    <2>3. ClassifyTrapOwner(t, i) # "foreign"
      BY <2>1 DEF ClassifyTrapOwner
    <2> QED BY <2>2, <2>3 DEF Ours
  <1> QED BY SpecWatch, <1>1, PTL

\* A thread whose registers hold an address its slot has given up is not armed
\* with the current generation, or the bump of that release is under way: every
\* release is followed by BumpGeneration, and a sweep arms with the generation
\* it loaded before it read the table.
THEOREM SpecRetiredIsNotCurrent == Spec => []RetiredIsNotCurrent
  <1>1. WatchInv => RetiredIsNotCurrent
    <2> SUFFICES ASSUME WatchInv, NEW t \in alive, NEW i \in Slots, Retired(t, i), sd = "no",
                        ~InTrap(t), overtaken[t] # "late", entry[t].gen = "current"
                 PROVE  \E u \in Threads : pc[u] \in {"bump", "trapBump"}
      BY DEF RetiredIsNotCurrent
    <2>1. t \in Threads /\ Currency
      BY DEF WatchInv, Ordered
    <2>2. overtaken[t] \in {"no", "early"}
      BY <2>1 DEF WatchInv, Shaped
    <2>3. Undisturbed(t)
      BY <2>1, <2>2 DEF Currency, InTrap, Undisturbed
    <2>4. Gone(i, dr[t][i])
      BY DEF Retired, Gone
    <2> QED BY <2>1, <2>3, <2>4 DEF Currency, Releasing
  <1> QED BY SpecWatch, <1>1, PTL

\* A register that holds an address its slot has given up is owed a forced sweep
\* (RequestDisarm): the request stands, or the sweep that took it has yet to
\* reach the thread.
THEOREM SpecRetiredIsOwed == Spec => []RetiredIsOwed
  <1>1. WatchInv => RetiredIsOwed
    <2> SUFFICES ASSUME WatchInv, NEW t \in alive, NEW i \in Slots, Retired(t, i), sd = "no",
                        overtaken[t] = "no", t \notin missed
                 PROVE  Asked \/ Reaches(t)
      BY DEF RetiredIsOwed, Asked, Reaches
    <2>1. t \in Threads /\ Owing
      BY DEF WatchInv, Ordered
    <2> QED BY <2>1 DEF Owing, Retired, Gone, Undisturbed
  <1> QED BY SpecWatch, <1>1, PTL

\* When the verification of Shutdown found nothing armed, every thread that it
\* could inspect and that was not disarmed inside its trap is clear, for good.
THEOREM SpecShutdownClear == Spec => []ShutdownClear
  <1>1. WatchInv /\ AllRegs => ShutdownClear
    <2> SUFFICES ASSUME WatchInv, AllRegs, sd = "done", ~stillArmed, NEW t \in alive \ missed,
                        overtaken[t] = "no"
                 PROVE  dr[t] = Clear
      BY DEF ShutdownClear
    <2>1. t \in Threads
      BY DEF WatchInv, Ordered
    <2>2. \A i \in Slots : dr[t][i] = NoAddr
      BY <2>1 DEF WatchInv, Verified, Undisturbed
    <2>3. dr[t] = [i \in Slots |-> dr[t][i]]
      BY <2>1 DEF AllRegs, IsRegs
    <2> QED BY <2>2, <2>3 DEF Clear
  <1> QED BY SpecWatch, SpecRegs, <1>1, PTL

=============================================================================
