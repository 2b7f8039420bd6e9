---------------------------- MODULE FaultHandler ----------------------------
(* The vectored exception handler (Veh.cpp) and its verdict (Verdict.cpp) beside *)
(* the hooks.  On an access violation the handler takes the registers one after *)
(* the other, asks the ledger and the free ring about each, and names what       *)
(* happened to the first block that either knows.  It takes no lock: the hooks   *)
(* of the other threads run between its reads, and where the thread faulted      *)
(* inside an original function, its own hook is half done.                       *)
(*                                                                               *)
(* Poison-on-free is off and the handler installed, as they are by default; what *)
(* a poison address leads to is in module PoisonQuarantine.  A single-step       *)
(* exception goes to module Watchpoints, every other one to the next handler.    *)
(* The guarded pool claims no fault (it serves no block).                        *)
EXTENDS Hooks

CONSTANTS MaxRegs,      \* the candidate registers of DescribeFault
          MaxFaults     \* bound: access violations; each counts as a call of the game too

ASSUME FaultAssumption == MaxRegs \in Nat \ {0} /\ MaxFaults \in Nat

VARIABLES
    fault,    \* thread -> the locals of its handler, and its last verdict
    faults    \* what MaxFaults bounds
faultVars == <<fault, faults>>

\* regs: what is left of the registers, a block or any other value each.
\* held, gone: history: while this register was looked at, the block was not with
\* the allocator; it was not the game's.
NotHandling == [pc |-> "idle", regs |-> <<>>, b |-> NoBlock, rec |-> {}, free |-> {},
                held |-> FALSE, gone |-> FALSE, kind |-> "none"]

FaultInit == Init /\ fault = [t \in Threads |-> NotHandling] /\ faults = 0

InUse == {b \in Blocks : mem[b].who # "free" \/ InHook(b)}
NotLive == {b \in Blocks : mem[b].who # "live"}
Handling(t) == fault[t].pc # "idle"

(***************************************************************************)
(* BuildVerdict                                                            *)
(***************************************************************************)
UseAfterFree == {"kUseAfterFreePoison", "kUseAfterFree", "kUseAfterFreeAlreadyCorrupt"}
LiveKinds == {"kStrayWriteLive", "kLiveFirstQwordChanged", "kLiveHealthy"}

OfFreed(f) == CASE f.poisoned -> "kUseAfterFreePoison"
                [] ~f.poisoned /\ f.vtableAtFreePlausible -> "kUseAfterFree"
                [] OTHER -> "kUseAfterFreeAlreadyCorrupt"
OfLive(f) == CASE f.currentReadable /\ ~f.currentPlausible -> "kStrayWriteLive"
               [] ~(f.currentReadable /\ ~f.currentPlausible) /\ f.lastKnownDiffers
                    -> "kLiveFirstQwordChanged"
               [] OTHER -> "kLiveHealthy"
BuildVerdict(f) == CASE ~f.known -> "kUnknown"
                     [] f.known /\ f.freed -> OfFreed(f)
                     [] OTHER -> OfLive(f)

(***************************************************************************)
(* The handler                                                             *)
(***************************************************************************)
\* The next register, or the end: "no tracked object".
NextRegister(f) ==
    IF f.regs = <<>> THEN NotHandling
    ELSE LET x == Head(f.regs) IN
         [NotHandling EXCEPT !.pc = "ledger", !.b = x, !.regs = Tail(f.regs),
                             !.held = x \in InUse, !.gone = x \in NotLive]

\* An access violation in the game's code, or in an original that a hook called.
HandleException(t) ==
    /\ loaded.phase = "running" /\ config.enabled
    /\ ~Handling(t) /\ faults < MaxFaults /\ used.calls < Bound
    /\ stack[t] # <<>> => Top(t).pc = "orig"
    /\ faults' = faults + 1 /\ Counts(0)
    /\ \E regs \in [1 .. MaxRegs -> Blocks \cup {NoBlock}] :
         fault' = [fault EXCEPT ![t] = NextRegister([NotHandling EXCEPT !.regs = regs])]
    /\ UNCHANGED <<loaded, mem, ledger, instance, ring, stack, reports, wronged, raced>>

\* The ledger's answer; a lookup that meets a writer says "unknown".  A value that
\* is no block has no record anywhere.
FindLedger(t) ==
    /\ fault[t].pc = "ledger"
    /\ \/ /\ fault[t].b = NoBlock
          /\ fault' = [fault EXCEPT ![t] = NextRegister(@)]
       \/ /\ fault[t].b # NoBlock
          /\ \E rec \in {ledger[fault[t].b], {}} :
               fault' = [fault EXCEPT ![t].rec = rec, ![t].pc = "ring"]
    /\ UNCHANGED <<vars, faults>>

\* The free ring's answer; an old record may be overwritten.
FindFreeRing(t) ==
    /\ fault[t].pc = "ring"
    /\ \E free \in {ring[fault[t].b], {}} :
         fault' = [fault EXCEPT ![t] = IF fault[t].rec = {} /\ free = {} THEN NextRegister(@)
                                       ELSE [@ EXCEPT !.free = free, !.pc = "read"]]
    /\ UNCHANGED <<vars, faults>>

\* Mutant: the ledger's freed flag is not taken over.
FreedFactRingOnly(f) == f.free # {}

\* The block is freed if either says so.
FreedFact(f) == Freed(f.rec) \/ f.free # {}

\* The first qword, now, at the free and when last seen, is read for what it may
\* be; the last one is in the ledger only.
Facts(f) ==
    {[known |-> TRUE, freed |-> FreedFact(f), poisoned |-> FALSE,
      currentReadable |-> r, currentPlausible |-> r /\ p, vtableAtFreePlausible |-> v,
      lastKnownDiffers |-> f.rec # {} /\ d] : r, p, v, d \in BOOLEAN}

\* SafeReadQword and the verdict.  The registers after the first known one add
\* details and leave the verdict alone.
DescribeProvenance(t) ==
    /\ fault[t].pc = "read"
    /\ \E facts \in Facts(fault[t]) :
         fault' = [fault EXCEPT ![t].kind = BuildVerdict(facts), ![t].pc = "report"]
    /\ UNCHANGED <<vars, faults>>

\* The report is written and the exception handed on; or the handler faults
\* itself, at any point, and its own handler hands on the first exception.
ContinueSearch(t) ==
    /\ Handling(t)
    /\ fault' = [fault EXCEPT ![t] = NotHandling]
    /\ UNCHANGED <<vars, faults>>

(***************************************************************************)
(* The handlers beside the hooks                                           *)
(***************************************************************************)
\* What becomes of a block while a handler looks at it.
Watches == fault' = [t \in Threads |->
    [fault[t] EXCEPT !.held = @ \/ fault[t].b \in InUse', !.gone = @ \/ fault[t].b \in NotLive']]

Handler(t) == HandleException(t) \/ FindLedger(t) \/ FindFreeRing(t) \/ DescribeProvenance(t)
              \/ ContinueSearch(t)

FaultNext ==
    \/ (PluginLoad \/ PostLoad \/ Finished) /\ UNCHANGED faultVars
    \/ \E t \in Threads : ~Handling(t) /\ (Game(t) \/ Hook(t)) /\ Watches /\ UNCHANGED faults
    \/ (\E b \in Blocks : Evict(b)) /\ UNCHANGED faultVars
    \/ \E t \in Threads : Handler(t)
FaultSpec == FaultInit /\ [][FaultNext]_<<vars, faultVars>>

(***************************************************************************)
(* Property                                                                *)
(***************************************************************************)
\* The ledger sees what this heap hands out.
Hooked(heap) == Entry(heap, "Allocate", "SfAlloc") # {}

\* In a GREEN run the verdict says "live" only of a block that was in use while
\* the handler looked at it.  It says "use after free" of a block that has been
\* the game's all along only on the word of a free record of an earlier block at
\* that address, and the record shows it: its instance is another one, or unknown.
\* (Blocks the game freed twice, or whose record a weak-library hook put back, are
\* excepted; and blocks of a Scaleform heap that is not hooked, where the ledger
\* still has the block of the memory manager that was at the address before.)
VerdictIsRight ==
    loaded.out.health = "GREEN" =>
        \A t \in Threads : LET f == fault[t] IN
            f.pc = "report" /\ f.b \notin wronged \cup raced =>
                /\ f.kind \in LiveKinds => f.held
                /\ f.kind \in UseAfterFree /\ ~f.gone /\ Hooked(mem[f.b].heap) =>
                     f.free # {} /\ f.free \cap {instance.of[f.b]} \subseteq {0}
=============================================================================
