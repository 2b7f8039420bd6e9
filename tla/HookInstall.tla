----------------------------- MODULE HookInstall -----------------------------
(* Start-up (main.cpp, Hooks.cpp InstallHooks, HookVerifier, HookTable, Health, *)
(* AllocatorConfidence).  The plugin is loaded on one thread before any hook is *)
(* enabled, so loading is one step: a function of what it finds in the process  *)
(* and in its configuration.  Module Hooks takes that step and then runs what   *)
(* was installed.                                                               *)
EXTENDS Naturals, FiniteSets

CONSTANT MaxOdd     \* bound: how many targets differ from the committed table

\* HookTargets.def, with the four Alloc overloads of the Scaleform heap and the
\* four weak-library functions as one target each.
MMTargets == {"Allocate", "Deallocate", "Reallocate"}
SFTargets == {"SfAlloc", "SfRealloc", "SfFree"}
Targets == MMTargets \cup SFTargets \cup {"Release", "Wl"}
Virtual == SFTargets \cup {"Wl"}          \* kVtable

Config == [enabled : BOOLEAN, verifyTargets : BOOLEAN, refCountGuard : BOOLEAN,
           scaleformHeap : BOOLEAN, weakLib : BOOLEAN, preventDoubleFree : BOOLEAN,
           failSafe : BOOLEAN]

ASSUME InstallAssumption == MaxOdd \in Nat

(***************************************************************************)
(* What the process looks like to the verifier                             *)
(***************************************************************************)
\* One target: whether the table has it, where the Address Library puts the
\* function and the vtable, what the slot and the first bytes hold, and whether
\* MinHook can detour it.
Ids   == {"agrees", "unresolved", "elsewhere"}
Bytes == {"agree", "unreadable", "replaced"}
Target == [record : BOOLEAN, id : Ids, vtableId : Ids, slot : Bytes, bytes : Bytes, create : BOOLEAN]
Normal == [record |-> TRUE, id |-> "agrees", vtableId |-> "agrees", slot |-> "agree",
           bytes |-> "agree", create |-> TRUE]
\* What may be wrong with a target, one thing at a time.
Odd == {[Normal EXCEPT !.record = FALSE], [Normal EXCEPT !.create = FALSE]}
       \cup {[Normal EXCEPT !.id = i] : i \in Ids \ {"agrees"}}
       \cup {[Normal EXCEPT !.vtableId = i] : i \in Ids \ {"agrees"}}
       \cup {[Normal EXCEPT !.slot = b] : b \in Bytes \ {"agree"}}
       \cup {[Normal EXCEPT !.bytes = b] : b \in Bytes \ {"agree"}}
Images == {[t \in Targets |-> IF t \in S THEN o ELSE Normal] :
              S \in {T \in SUBSET Targets : Cardinality(T) <= MaxOdd}, o \in Odd}

\* The rest of the process: MinHook, the runtime, the embedded tables.
\* One table is embedded: if it does not parse, none matches.
Processes == {p \in [mhInit : BOOLEAN, ae : BOOLEAN, parsed : BOOLEAN, matches : BOOLEAN, mhEnable : BOOLEAN] :
                 p.matches => p.parsed}

\* The target is the function the table describes, reached the way it says.
Genuine(t, f) == /\ f.record /\ f.id = "agrees" /\ f.bytes = "agree"
                 /\ t \in Virtual => f.vtableId = "agrees" /\ f.slot = "agree"

(***************************************************************************)
(* VerifyHookTarget: the checks in their order                             *)
(***************************************************************************)
VerifyHookTarget(t, f) ==
    CASE ~f.record                                       -> "kNoRecord"
      [] f.record /\ f.id = "unresolved"                 -> "kIdUnresolved"
      [] f.record /\ f.id = "elsewhere"                  -> "kAddressLibraryMismatch"
      [] OTHER ->
         CASE t \in Virtual /\ f.vtableId = "unresolved" -> "kIdUnresolved"
           [] t \in Virtual /\ f.vtableId = "elsewhere"  -> "kAddressLibraryMismatch"
           [] t \in Virtual /\ f.slot = "unreadable"     -> "kUnreadable"
           [] t \in Virtual /\ f.slot = "replaced"       -> "kVtableMismatch"
           [] f.bytes = "unreadable"                     -> "kUnreadable"
           [] f.bytes = "replaced"                       -> "kPrologueMismatch"
           [] OTHER                                      -> "kVerified"

Verified(image) == {t \in Targets : VerifyHookTarget(t, image[t]) = "kVerified"}

(***************************************************************************)
(* InstallHooks                                                            *)
(***************************************************************************)
\* SelectHookTable
TableFound(p) == p.matches

\* VerifyAllTargets, or ResolveAllTargetsUnverified when verification is off.
Installable(c, p, image) ==
    CASE ~p.ae            -> {}
      [] ~c.verifyTargets -> {t \in Targets : image[t].id # "unresolved"}
      [] OTHER            -> IF TableFound(p) THEN Verified(image) ELSE {}

AssessMemoryManagerConfidence(p, image) ==
    IF ~TableFound(p) THEN "kUnverified"
    ELSE IF \E t \in MMTargets : VerifyHookTarget(t, image[t]) = "kPrologueMismatch"
    THEN "kOverridden"
    ELSE IF MMTargets \subseteq Verified(image) THEN "kVerified" ELSE "kUnverified"

\* Without verification the assessment may lower the confidence, never raise it.
Confidence(c, p, image) ==
    LET assessed == AssessMemoryManagerConfidence(p, image) IN
    CASE ~p.ae            -> "kUnknown"
      [] ~c.verifyTargets -> IF assessed = "kOverridden" THEN assessed ELSE "kUnverified"
      [] OTHER            -> assessed

Wanted(c) == MMTargets \cup (IF c.refCountGuard THEN {"Release"} ELSE {})
                       \cup (IF c.scaleformHeap THEN SFTargets ELSE {})
                       \cup (IF c.weakLib THEN {"Wl"} ELSE {})

\* InstallOne, for every wanted target.
Created(c, p, image) == {t \in Wanted(c) \cap Installable(c, p, image) : image[t].create}

\* MH_EnableHook stops at the first hook it cannot enable.
Enabled(p, created) == IF p.mhEnable THEN {created} ELSE {{}, created \cap MMTargets}

\* Mutant: a detour that cannot be created is not counted against the state.
DegradesQuietly(c, p, image) ==
    \/ ~p.mhInit \/ ~p.ae \/ ~p.parsed \/ ~p.matches \/ ~c.verifyTargets
    \/ Installable(c, p, image) # Targets
    \/ Created(c, p, image) = {} \/ ~p.mhEnable

\* Whether anything on the way calls Health::Degrade.
Degrades(c, p, image) ==
    \/ ~p.mhInit \/ ~p.ae \/ ~p.parsed \/ ~p.matches \/ ~c.verifyTargets
    \/ Installable(c, p, image) # Targets
    \/ AssessMemoryManagerConfidence(p, image) = "kOverridden"
    \/ Created(c, p, image) # Wanted(c) \cap Installable(c, p, image)
    \/ Created(c, p, image) = {} \/ ~p.mhEnable

\* What SKSEPlugin_Load leaves behind: the hooks the game runs into, the trust in
\* a double-free report, the health state.
Outcome == [installed : SUBSET Targets, confidence : {"kUnknown", "kVerified", "kUnverified", "kOverridden"},
            health : {"UNKNOWN", "GREEN", "DEGRADED", "OFF"}]
NotLoaded == [installed |-> {}, confidence |-> "kUnknown", health |-> "UNKNOWN"]

Load(c, p, image) ==
    IF ~c.enabled THEN {[NotLoaded EXCEPT !.health = "OFF"]}
    ELSE IF ~p.mhInit THEN {[NotLoaded EXCEPT !.health = "DEGRADED"]}
    ELSE {[installed |-> on, confidence |-> Confidence(c, p, image),
           health |-> IF Degrades(c, p, image) THEN "DEGRADED" ELSE "GREEN"] :
              on \in Enabled(p, Created(c, p, image))}
=============================================================================
