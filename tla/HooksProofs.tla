----------------------------- MODULE HooksProofs -----------------------------
(* Proofs about the hooks and the fault handler, for every number of threads   *)
(* and blocks, every setup and every bound:                                    *)
(*   SpecStartupIsHonest       GREEN and a verified confidence mean what they say *)
(*   SpecTrustedReportIsRight  a trusted double-free report is about a real one   *)
(*   SpecFreedIsRecorded       no block of the allocator is recorded as live      *)
(*   SpecFreeRecordIsOld       a free record is never the living block's          *)
(*   SpecVerdictIsRight        the verdict on a fault is right                    *)
(*                                                                              *)
(* None of the five is inductive.  What each needs is who has a block while the *)
(* hooks are at work on it: a hook call is at most one deep inside another      *)
(* (Stacked), it alone has its block (Owned), and from that follows what the    *)
(* ledger may say about the block at each step of the call: not "freed" before  *)
(* the block is given back to the game (Marked), and no longer "live" when the  *)
(* original free is called (Cleared).  A free record, which is written late, is *)
(* of an older instance because the instance was read while the hook had the    *)
(* block (Old).  The handler then keeps, of the register it looks at, what it   *)
(* read and what has become of the block since (Handled).                       *)
(* HooksInv is the conjunction; Handled is inductive relative to it.            *)
EXTENDS FaultHandler, FiniteSetTheorems, TLAPS

(***************************************************************************)
(* The inductive invariant                                                 *)
(***************************************************************************)
Green == loaded.out.health = "GREEN"
\* The ledger sees what this heap hands out: FaultHandler!Hooked.
AllocFns == {"Allocate", "SfAlloc"}
FreeFns == {"Deallocate", "SfFree"}
ReallocFns == {"Reallocate", "SfRealloc"}

\* What loading leaves behind; before it nothing has happened.
Loaded ==
    /\ DOMAIN loaded = {"phase", "config", "replaced", "out", "genuine", "complete"}
    /\ loaded.phase \in {"start", "running"}
    /\ StartupIsHonest
    /\ loaded.phase = "start" =>
         /\ ~Green
         /\ reports = {}
         /\ \A t \in Threads : stack[t] = <<>>
         /\ \A b \in Blocks : ledger[b] = {}

\* The tables, as far as the proofs look into them.
Tables ==
    /\ DOMAIN mem = Blocks /\ DOMAIN ledger = Blocks /\ DOMAIN ring = Blocks
    /\ \A b \in Blocks : DOMAIN mem[b] = {"who", "heap"}
    /\ DOMAIN instance = {"last", "of"} /\ DOMAIN instance.of = Blocks

\* The steps of a hook call.
Steps(fn) == CASE fn \in AllocFns -> {"orig", "record"}
               [] fn = "Deallocate" -> {"enter", "mark", "orig", "return"}
               [] fn = "SfFree" -> {"enter", "find", "mark", "orig", "publish", "return"}
               [] fn \in ReallocFns -> {"orig", "erase", "record"}
               [] OTHER -> {"enter", "refresh"}
\* A hook call; and the blocks the innermost one knows.
IsFrame(f) == /\ DOMAIN f = {"fn", "heap", "b", "new", "pc", "rec", "pushed", "publish"}
              /\ f.fn \in Functions /\ f.pc \in Steps(f.fn)
Named(f) ==
    /\ f.fn \in AllocFns => IF f.pc = "orig" THEN f.b = NoBlock ELSE f.b \in Blocks
    /\ f.fn \notin AllocFns => f.b \in Blocks
    /\ f.fn \in ReallocFns => IF f.pc = "orig" THEN f.new = NoBlock ELSE f.new \in Blocks
    /\ (f.fn = "Wl" /\ f.pc = "refresh") => (f.rec # {} /\ ~Freed(f.rec))
    /\ f.fn = "Deallocate" => ~f.publish
\* The outermost free hook has put itself into the guard's list.
Outermost(f) == f.fn \in FreeFns => (f.pushed <=> f.pc # "enter")
\* A call g whose original has entered the hook call f.
Around(f, g) ==
    \/ /\ f.fn = "Allocate" /\ g.fn = "SfAlloc"
       /\ g.pc = "record" /\ g.b = NoBlock
    \/ /\ f.fn = "Deallocate" /\ g.fn = "SfFree" /\ f.b = g.b
       /\ f.pc \in {"enter", "orig", "return"} /\ g.pc \in {"publish", "return"}
    \/ /\ f.fn = "Reallocate" /\ g.fn = "SfRealloc" /\ f.b = g.b
       /\ g.pc = "erase" /\ g.new = NoBlock

Outer(t) == stack[t][2]
CallsOf(s) == {s[i] : i \in 1 .. Len(s)}
Calls(t) == CallsOf(stack[t])
Alone(t) == stack[t] = <<Top(t)>> /\ IsFrame(Top(t)) /\ Named(Top(t)) /\ Outermost(Top(t))
Nesting(t) == /\ stack[t] = <<Top(t), Outer(t)>> /\ IsFrame(Top(t)) /\ IsFrame(Outer(t))
              /\ Named(Top(t)) /\ Around(Top(t), Outer(t)) /\ Outermost(Outer(t))
Stacked == /\ DOMAIN stack = Threads
           /\ \A t \in Threads : \/ stack[t] = <<>>
                                 \/ Len(stack[t]) = 1 /\ Alone(t)
                                 \/ Len(stack[t]) = 2 /\ Nesting(t)

\* The block that a call has taken from the game, or from the allocator for it.
Owns(f, b) == \/ f.fn \in FreeFns /\ f.pc \in {"enter", "find", "mark", "orig"} /\ f.b = b
              \/ f.fn \in AllocFns /\ f.pc = "record" /\ f.b = b
              \/ f.fn \in ReallocFns /\ f.pc = "orig" /\ f.b = b
              \/ f.fn \in ReallocFns /\ f.pc \in {"erase", "record"} /\ f.new = b
Owner(t, b) == stack[t] # <<>> /\ Owns(Top(t), b)
Relocates(f, b) == f.fn \in ReallocFns /\ f.pc = "orig" /\ f.b = b
Moving(t, b) == stack[t] # <<>> /\ Relocates(Top(t), b)
EndsRecord(f, b) == f.fn \in ReallocFns /\ f.pc = "erase" /\ f.b = b
Erases(t, b) == \E f \in Calls(t) : EndsRecord(f, b)

\* One call has a block at a time, and it is from a heap that the ledger sees.
Seen(b) == Hooked(mem[b].heap)
Owned ==
    /\ \A b \in Blocks \ wronged : \A t \in Threads : Owner(t, b) =>
         /\ mem[b].who = "hook"
         /\ Green => Seen(b)
         /\ \A u \in Threads : Owner(u, b) => u = t
    /\ Green => \A t \in Threads : \A f \in Calls(t) :
         f.fn \in AllocFns \cup ReallocFns => Hooked(f.heap)

\* Instances are numbered upwards.
Numbered ==
    /\ instance.last \in Nat
    /\ \A b \in Blocks : /\ instance.of[b] \in 0 .. instance.last
                         /\ ring[b] \subseteq 0 .. instance.last
                         /\ \A r \in ledger[b] : r.instance \in 0 .. instance.last
    /\ \A t \in Threads : \A f \in Calls(t) : \A r \in f.rec : r.instance \in 0 .. instance.last

\* A free record, written or about to be written, is of another instance than the
\* block that the game has there, or that is being moved from there.
Keeps(b) == mem[b].who = "live" \/ \E t \in Threads : Moving(t, b)
Old ==
    \A b \in Blocks \ wronged : Keeps(b) /\ instance.of[b] # 0 =>
        /\ instance.of[b] \notin ring[b]
        /\ \A t \in Threads : \A f \in Calls(t) : f.fn = "SfFree" /\ f.b = b =>
             \A r \in f.rec : r.instance # instance.of[b]

\* No block that the game has through a hook, or gives to one, is recorded as freed.
Gives(t, b) == Len(stack[t]) = 1 /\ Top(t).fn \in FreeFns /\ Top(t).pc = "enter" /\ Top(t).b = b
Marked ==
    \A b \in Blocks \ wronged : Freed(ledger[b]) =>
        /\ ~(mem[b].who = "live" /\ Seen(b))
        /\ \A t \in Threads : ~Moving(t, b) /\ ~Gives(t, b)

\* A block that the allocator has, or is about to get, or hands out unseen, is not
\* recorded as live, or its record is about to be erased.
LiveRecord(b) == ledger[b] # {} /\ ~Freed(ledger[b])
Unseen(b) == mem[b].who = "live" /\ ~Seen(b)
Passes(t, b) == /\ stack[t] # <<>> /\ Top(t).fn \in FreeFns /\ Top(t).b = b
                /\ Top(t).pc = "orig" \/ (Len(stack[t]) = 2 /\ Top(t).pc = "enter")
Cleared ==
    \A b \in Blocks \ (wronged \cup raced) : LiveRecord(b) =>
        /\ mem[b].who = "free" \/ Unseen(b) => \E t \in Threads : Erases(t, b)
        /\ \A t \in Threads : ~Passes(t, b)

HooksInv == /\ Loaded /\ Tables /\ Stacked /\ Owned /\ Numbered /\ Old
            /\ Green => Marked /\ Cleared
            /\ TrustedReportIsRight

\* What a handler has seen of its register's block.
Values == Blocks \cup {NoBlock}
Looks(t) ==
    LET f == fault[t] IN
    /\ DOMAIN f = {"pc", "regs", "b", "rec", "free", "held", "gone", "kind"}
    /\ f.pc \in {"idle", "ledger", "ring", "read", "report"}
    /\ f.regs \in Seq(Values) /\ f.b \in Values
    /\ f.pc \in {"ring", "read", "report"} => f.b \in Blocks
    /\ f.b \in Blocks /\ f.pc # "idle" =>
         /\ f.b \in InUse => f.held
         /\ f.b \in NotLive => f.gone
\* The ledger's answer, and the free ring's, while the block stays the game's.
Knows(t) ==
    LET f == fault[t] IN
    f.pc \in {"ring", "read", "report"} /\ f.b \notin wronged =>
        /\ Green /\ f.b \notin raced /\ f.rec # {} /\ ~Freed(f.rec) => f.held
        /\ Green /\ ~f.gone /\ Seen(f.b) => ~Freed(f.rec)
        /\ f.pc # "ring" /\ ~f.gone => f.free \cap {instance.of[f.b]} \subseteq {0}
Concludes(t) ==
    LET f == fault[t] IN
    /\ f.pc \in {"read", "report"} => (f.rec # {} \/ f.free # {})
    /\ f.pc = "report" => /\ f.kind \in LiveKinds => ~FreedFact(f)
                          /\ f.kind \in UseAfterFree => FreedFact(f)
Handled == /\ DOMAIN fault = Threads
           /\ loaded.phase = "start" => \A t \in Threads : fault[t].pc = "idle"
           /\ \A t \in Threads : Looks(t) /\ Knows(t) /\ Concludes(t)
(***************************************************************************)
(* Loading                                                                 *)
(***************************************************************************)
\* What the process shows of a target is one thing or another.
LEMMA ImagesShow ==
    ASSUME NEW image \in Images, NEW t \in Targets
    PROVE  /\ image[t].id \in Ids /\ image[t].vtableId \in Ids
           /\ image[t].slot \in Bytes /\ image[t].bytes \in Bytes
  <1>1. PICK S \in {T \in SUBSET Targets : Cardinality(T) <= MaxOdd}, o \in Odd :
           image = [x \in Targets |-> IF x \in S THEN o ELSE Normal]
    BY DEF Images
  <1>2. image[t] = o \/ image[t] = Normal
    BY <1>1
  <1>3. Normal.id \in Ids /\ Normal.vtableId \in Ids /\ Normal.slot \in Bytes /\ Normal.bytes \in Bytes
    BY DEF Normal, Ids, Bytes
  <1>4. o.id \in Ids /\ o.vtableId \in Ids /\ o.slot \in Bytes /\ o.bytes \in Bytes
    <2>1. CASE o = [Normal EXCEPT !.record = FALSE]
      BY <2>1 DEF Normal, Ids, Bytes
    <2>2. CASE o = [Normal EXCEPT !.create = FALSE]
      BY <2>2 DEF Normal, Ids, Bytes
    <2>3. CASE \E i \in Ids : o = [Normal EXCEPT !.id = i]
      BY <2>3 DEF Normal, Ids, Bytes
    <2>4. CASE \E i \in Ids : o = [Normal EXCEPT !.vtableId = i]
      BY <2>4 DEF Normal, Ids, Bytes
    <2>5. CASE \E i \in Bytes : o = [Normal EXCEPT !.slot = i]
      BY <2>5 DEF Normal, Ids, Bytes
    <2>6. CASE \E i \in Bytes : o = [Normal EXCEPT !.bytes = i]
      BY <2>6 DEF Normal, Ids, Bytes
    <2> QED
      BY <2>1, <2>2, <2>3, <2>4, <2>5, <2>6 DEF Odd
  <1> QED
    BY <1>2, <1>3, <1>4

\* The verifier's checks, in their order, leave nothing out.
LEMMA VerifiedIsGenuine ==
    ASSUME NEW image \in Images
    PROVE  Verified(image) \subseteq {t \in Targets : Genuine(t, image[t])}
  <1> SUFFICES ASSUME NEW t \in Targets, VerifyHookTarget(t, image[t]) = "kVerified"
               PROVE  Genuine(t, image[t])
    BY DEF Verified
  <1> DEFINE f == image[t]
  <1>1. f.id \in Ids /\ f.vtableId \in Ids /\ f.slot \in Bytes /\ f.bytes \in Bytes
    BY ImagesShow
  <1>2. VerifyHookTarget(t, f) = "kVerified"
    OBVIOUS
  <1> HIDE DEF f
  <1>3. f.record
    BY <1>2 DEF VerifyHookTarget
  <1>4. f.id = "agrees"
    BY <1>1, <1>2, <1>3 DEF VerifyHookTarget, Ids
  <1>5. t \in Virtual => f.vtableId = "agrees"
    BY <1>1, <1>2, <1>3, <1>4 DEF VerifyHookTarget, Ids
  <1>6. t \in Virtual => f.slot = "agree"
    BY <1>1, <1>2, <1>3, <1>4, <1>5 DEF VerifyHookTarget, Bytes
  <1>7. f.bytes = "agree"
    BY <1>1, <1>2, <1>3, <1>4, <1>5, <1>6 DEF VerifyHookTarget, Bytes
  <1>8. Genuine(t, f)
    BY <1>3, <1>4, <1>5, <1>6, <1>7 DEF Genuine
  <1> QED
    BY <1>8 DEF f

\* What Load concludes from an image: GREEN, and verified, are said only of genuine
\* targets, all of them in place.
LEMMA LoadIsHonest ==
    ASSUME NEW c, NEW p, NEW image \in Images, NEW out \in Load(c, p, image),
           NEW genuine, genuine = {t \in Targets : Genuine(t, image[t])}
    PROVE  /\ out.health = "GREEN" => genuine = Targets /\ out.installed = Wanted(c)
           /\ c.verifyTargets => out.installed \subseteq genuine
           /\ out.confidence = "kVerified" => MMTargets \subseteq genuine
  <1>1. Verified(image) \subseteq genuine /\ genuine \subseteq Targets
    BY VerifiedIsGenuine
  <1>2. CASE ~c.enabled \/ ~p.mhInit
    BY <1>2 DEF Load, NotLoaded
  <1>3. CASE c.enabled /\ p.mhInit
    <2>1. PICK on \in Enabled(p, Created(c, p, image)) :
             out = [installed |-> on, confidence |-> Confidence(c, p, image),
                    health |-> IF Degrades(c, p, image) THEN "DEGRADED" ELSE "GREEN"]
      BY <1>3 DEF Load
    <2>2. /\ out.installed = on /\ out.confidence = Confidence(c, p, image)
          /\ out.health = "GREEN" => ~Degrades(c, p, image)
      BY <2>1
    <2>3. on \subseteq Created(c, p, image) /\ Created(c, p, image) \subseteq Installable(c, p, image)
      BY DEF Enabled, Created
    <2>4. c.verifyTargets => Installable(c, p, image) \subseteq Verified(image)
      BY DEF Installable
    <2>5. ASSUME out.health = "GREEN"
          PROVE  genuine = Targets /\ out.installed = Wanted(c)
      <3>1. /\ c.verifyTargets /\ Installable(c, p, image) = Targets
            /\ Created(c, p, image) = Wanted(c) \cap Installable(c, p, image) /\ p.mhEnable
        BY <2>2, <2>5 DEF Degrades
      <3>2. Wanted(c) \subseteq Targets
        BY DEF Wanted, Targets
      <3>3. on = Wanted(c)
        BY <3>1, <3>2 DEF Enabled
      <3> QED
        BY <1>1, <2>2, <2>4, <3>1, <3>3
    <2>6. ASSUME out.confidence = "kVerified"
          PROVE  MMTargets \subseteq Verified(image)
      <3>1. AssessMemoryManagerConfidence(p, image) = "kVerified"
        BY <2>2, <2>6 DEF Confidence
      <3> QED
        BY <3>1 DEF AssessMemoryManagerConfidence
    <2> QED
      BY <1>1, <2>2, <2>3, <2>4, <2>5, <2>6
  <1> QED
    BY <1>2, <1>3

\* PluginLoad keeps, and establishes, what loading leaves behind.
LEMMA PluginLoadIsHonest ==
    ASSUME Loaded, PluginLoad
    PROVE  Loaded' /\ loaded'.phase = "running"
  <1>1. PICK p \in Processes, image \in Images : \E out \in Load(config, p, image) :
           loaded' = [loaded EXCEPT !.phase = "running", !.out = out,
                                    !.genuine = {t \in Targets : Genuine(t, image[t])}]
    BY DEF PluginLoad
  <1>2. PICK out \in Load(config, p, image) :
           loaded' = [loaded EXCEPT !.phase = "running", !.out = out,
                                    !.genuine = {t \in Targets : Genuine(t, image[t])}]
    BY <1>1
  <1>3. /\ DOMAIN loaded' = DOMAIN loaded /\ loaded'.phase = "running" /\ loaded'.out = out
        /\ loaded'.genuine = {t \in Targets : Genuine(t, image[t])} /\ loaded'.config = config
    BY <1>2 DEF Loaded, config
  <1>4. StartupIsHonest'
    BY <1>3, LoadIsHonest DEF StartupIsHonest, config
  <1> QED
    BY <1>3, <1>4 DEF Loaded
(***************************************************************************)
(* The stack of a thread                                                   *)
(***************************************************************************)
\* The calls on a stack of at most two.
LEMMA CallsOfStack ==
    ASSUME NEW f, NEW g
    PROVE  CallsOf(<<>>) = {} /\ CallsOf(<<f>>) = {f} /\ CallsOf(<<f, g>>) = {f, g}
  BY DEF CallsOf

\* Sequences of one and of two calls.
LEMMA TailOfOne ==
    ASSUME NEW f
    PROVE  Tail(<<f>>) = <<>>
  <1>1. Len(Tail(<<f>>)) = 0 /\ Tail(<<f>>) \in Seq({f})
    OBVIOUS
  <1> QED
    BY <1>1

\* The call around the innermost one.
LEMMA TailOfTwo ==
    ASSUME NEW f, NEW g
    PROVE  Tail(<<f, g>>) = <<g>>
  <1>1. /\ Len(Tail(<<f, g>>)) = 1 /\ Tail(<<f, g>>) \in Seq({f, g})
        /\ Tail(<<f, g>>)[1] = g
    OBVIOUS
  <1> QED
    BY <1>1

\* Nothing is around the outermost call.
LEMMA ConcatEmpty ==
    ASSUME NEW f, NEW g
    PROVE  <<f, g>> \o <<>> = <<f, g>>
  <1>1. <<f, g>> \in Seq({f, g}) /\ <<>> \in Seq({f, g})
    OBVIOUS
  <1> QED
    BY <1>1

\* What the invariant says of a thread, of its stack alone.
Same(u) == /\ stack'[u] = stack[u] /\ Calls(u)' = Calls(u)
           /\ \A b : /\ Owner(u, b)' <=> Owner(u, b)
                     /\ Moving(u, b)' <=> Moving(u, b)
                     /\ Erases(u, b)' <=> Erases(u, b)
                     /\ Gives(u, b)' <=> Gives(u, b)
                     /\ Passes(u, b)' <=> Passes(u, b)

\* A thread whose stack does not change is as it was.
LEMMA SameStack ==
    ASSUME NEW u, stack'[u] = stack[u]
    PROVE  Same(u)
  <1>1. Calls(u)' = Calls(u) /\ Top(u)' = Top(u)
    BY DEF Calls, Top
  <1>2. \A b : (Owner(u, b)' <=> Owner(u, b)) /\ (Moving(u, b)' <=> Moving(u, b))
    BY <1>1 DEF Owner, Moving
  <1>3. \A b : Erases(u, b)' <=> Erases(u, b)
    BY <1>1 DEF Erases
  <1>4. \A b : (Gives(u, b)' <=> Gives(u, b)) /\ (Passes(u, b)' <=> Passes(u, b))
    BY <1>1 DEF Gives, Passes
  <1> QED
    BY <1>1, <1>2, <1>3, <1>4 DEF Same

\* One thread moves.
LEMMA OthersSame ==
    ASSUME DOMAIN stack = Threads, NEW t \in Threads, NEW s, stack' = [stack EXCEPT ![t] = s]
    PROVE  /\ DOMAIN stack' = Threads /\ stack'[t] = s
           /\ \A u \in Threads \ {t} : Same(u)
  BY SameStack

\* A thread without a call.
LEMMA NoCall ==
    ASSUME Stacked, NEW t \in Threads, stack' = [stack EXCEPT ![t] = <<>>]
    PROVE  /\ Stacked' /\ \A u \in Threads \ {t} : Same(u)
           /\ Calls(t)' = {}
           /\ \A b : ~Owner(t, b)' /\ ~Moving(t, b)' /\ ~Erases(t, b)' /\ ~Gives(t, b)' /\ ~Passes(t, b)'
  <1>1. DOMAIN stack' = Threads /\ stack'[t] = <<>> /\ \A u \in Threads \ {t} : Same(u)
    BY OthersSame DEF Stacked
  <1>2. Calls(t)' = {}
    BY <1>1, CallsOfStack DEF Calls
  <1>3. \A b : ~Owner(t, b)' /\ ~Moving(t, b)' /\ ~Erases(t, b)' /\ ~Gives(t, b)' /\ ~Passes(t, b)'
    BY <1>1, <1>2 DEF Owner, Moving, Erases, Gives, Passes
  <1>4. ASSUME NEW u \in Threads \ {t}
        PROVE  \/ stack'[u] = <<>>
               \/ Len(stack'[u]) = 1 /\ Alone(u)'
               \/ Len(stack'[u]) = 2 /\ Nesting(u)'
    <2>1. stack'[u] = stack[u]
      BY <1>1 DEF Same
    <2>2. Top(u)' = Top(u) /\ Outer(u)' = Outer(u)
      BY <2>1 DEF Top, Outer
    <2> QED
      BY <2>1, <2>2 DEF Stacked, Alone, Nesting
  <1> QED
    BY <1>1, <1>2, <1>3, <1>4 DEF Stacked

\* A thread in one call, and in a call within a call.
LEMMA OneCall ==
    ASSUME Stacked, NEW t \in Threads, NEW n, stack' = [stack EXCEPT ![t] = <<n>>],
           IsFrame(n), Named(n), Outermost(n)
    PROVE  /\ Stacked' /\ \A u \in Threads \ {t} : Same(u)
           /\ stack'[t] # <<>> /\ Len(stack'[t]) = 1 /\ Top(t)' = n /\ Calls(t)' = {n}
           /\ \A b : /\ Owner(t, b)' <=> Owns(n, b)
                     /\ Moving(t, b)' <=> Relocates(n, b)
                     /\ Erases(t, b)' <=> EndsRecord(n, b)
                     /\ Gives(t, b)' <=> (n.fn \in FreeFns /\ n.pc = "enter" /\ n.b = b)
                     /\ Passes(t, b)' <=> (n.fn \in FreeFns /\ n.pc = "orig" /\ n.b = b)
  <1>1. DOMAIN stack' = Threads /\ stack'[t] = <<n>> /\ \A u \in Threads \ {t} : Same(u)
    BY OthersSame DEF Stacked
  <1>2. Calls(t)' = {n}
    BY <1>1, CallsOfStack DEF Calls
  <1>3. Len(stack'[t]) = 1 /\ Top(t)' = n /\ stack'[t] # <<>> /\ stack'[t] = <<Top(t)'>>
    BY <1>1 DEF Top
  <1>4. \A b : (Owner(t, b)' <=> Owns(n, b)) /\ (Moving(t, b)' <=> Relocates(n, b))
    BY <1>3 DEF Owner, Moving
  <1>5. \A b : Erases(t, b)' <=> EndsRecord(n, b)
    BY <1>2 DEF Erases
  <1>6. \A b : /\ Gives(t, b)' <=> (n.fn \in FreeFns /\ n.pc = "enter" /\ n.b = b)
               /\ Passes(t, b)' <=> (n.fn \in FreeFns /\ n.pc = "orig" /\ n.b = b)
    BY <1>3 DEF Gives, Passes
  <1>7. Alone(t)'
    BY <1>3 DEF Alone
  <1>8. ASSUME NEW u \in Threads \ {t}
        PROVE  \/ stack'[u] = <<>>
               \/ Len(stack'[u]) = 1 /\ Alone(u)'
               \/ Len(stack'[u]) = 2 /\ Nesting(u)'
    <2>1. stack'[u] = stack[u]
      BY <1>1 DEF Same
    <2>2. Top(u)' = Top(u) /\ Outer(u)' = Outer(u)
      BY <2>1 DEF Top, Outer
    <2> QED
      BY <2>1, <2>2 DEF Stacked, Alone, Nesting
  <1>9. Stacked'
    BY <1>1, <1>3, <1>7, <1>8 DEF Stacked
  <1> QED
    BY <1>1, <1>2, <1>3, <1>4, <1>5, <1>6, <1>9

\* The stack of a thread becomes a hook call inside another.
LEMMA TwoCalls ==
    ASSUME Stacked, NEW t \in Threads, NEW n, NEW g, stack' = [stack EXCEPT ![t] = <<n, g>>],
           IsFrame(n), IsFrame(g), Named(n), Around(n, g), Outermost(g)
    PROVE  /\ Stacked' /\ \A u \in Threads \ {t} : Same(u)
           /\ stack'[t] # <<>> /\ Len(stack'[t]) = 2
           /\ Top(t)' = n /\ Outer(t)' = g /\ Calls(t)' = {n, g}
           /\ \A b : /\ Owner(t, b)' <=> Owns(n, b)
                     /\ Moving(t, b)' <=> Relocates(n, b)
                     /\ Erases(t, b)' <=> EndsRecord(n, b) \/ EndsRecord(g, b)
                     /\ ~Gives(t, b)'
                     /\ Passes(t, b)' <=> (n.fn \in FreeFns /\ n.pc \in {"orig", "enter"} /\ n.b = b)
  <1>1. DOMAIN stack' = Threads /\ stack'[t] = <<n, g>> /\ \A u \in Threads \ {t} : Same(u)
    BY OthersSame DEF Stacked
  <1>2. Calls(t)' = {n, g}
    BY <1>1, CallsOfStack DEF Calls
  <1>3. /\ Len(stack'[t]) = 2 /\ Top(t)' = n /\ Outer(t)' = g /\ stack'[t] # <<>>
        /\ stack'[t] = <<Top(t)', Outer(t)'>>
    BY <1>1 DEF Top, Outer
  <1>4. \A b : (Owner(t, b)' <=> Owns(n, b)) /\ (Moving(t, b)' <=> Relocates(n, b))
    BY <1>3 DEF Owner, Moving
  <1>5. \A b : Erases(t, b)' <=> EndsRecord(n, b) \/ EndsRecord(g, b)
    BY <1>2 DEF Erases
  <1>6. \A b : /\ ~Gives(t, b)'
               /\ Passes(t, b)' <=> (n.fn \in FreeFns /\ n.pc \in {"orig", "enter"} /\ n.b = b)
    BY <1>3 DEF Gives, Passes
  <1>7. Nesting(t)'
    BY <1>3 DEF Nesting
  <1>8. ASSUME NEW u \in Threads \ {t}
        PROVE  \/ stack'[u] = <<>>
               \/ Len(stack'[u]) = 1 /\ Alone(u)'
               \/ Len(stack'[u]) = 2 /\ Nesting(u)'
    <2>1. stack'[u] = stack[u]
      BY <1>1 DEF Same
    <2>2. Top(u)' = Top(u) /\ Outer(u)' = Outer(u)
      BY <2>1 DEF Top, Outer
    <2> QED
      BY <2>1, <2>2 DEF Stacked, Alone, Nesting
  <1>9. Stacked'
    BY <1>1, <1>3, <1>7, <1>8 DEF Stacked
  <1> QED
    BY <1>1, <1>2, <1>3, <1>4, <1>5, <1>6, <1>9

\* A call that is running: it is alone, or another one is around it.
LEMMA Running ==
    ASSUME Stacked, NEW t \in Threads, stack[t] # <<>>
    PROVE  /\ IsFrame(Top(t)) /\ Named(Top(t)) /\ Top(t) \in Calls(t)
           /\ \/ /\ Len(stack[t]) = 1 /\ stack[t] = <<Top(t)>> /\ Tail(stack[t]) = <<>>
                 /\ Calls(t) = {Top(t)} /\ Outermost(Top(t))
                 /\ \A n : Becomes(t, n) => stack' = [stack EXCEPT ![t] = <<n>>]
                 /\ Returns(t) => stack' = [stack EXCEPT ![t] = <<>>]
                 /\ \A n, fn, b : Nests(t, n, fn, b) =>
                        stack' = [stack EXCEPT ![t] = <<Enter(fn, "sf", b), n>>]
              \/ /\ Len(stack[t]) = 2 /\ stack[t] = <<Top(t), Outer(t)>> /\ Tail(stack[t]) = <<Outer(t)>>
                 /\ Calls(t) = {Top(t), Outer(t)}
                 /\ IsFrame(Outer(t)) /\ Around(Top(t), Outer(t)) /\ Outermost(Outer(t))
                 /\ \A n : Becomes(t, n) => stack' = [stack EXCEPT ![t] = <<n, Outer(t)>>]
                 /\ Returns(t) => stack' = [stack EXCEPT ![t] = <<Outer(t)>>]
  <1> USE DEF Top, Outer
  <1>1. CASE Len(stack[t]) = 1 /\ Alone(t)
    <2>1. stack[t] = <<Top(t)>>
      BY <1>1 DEF Alone
    <2>6. Tail(stack[t]) = <<>>
      BY <2>1, TailOfOne
    <2>2. Calls(t) = {Top(t)}
      BY <2>1, CallsOfStack DEF Calls
    <2>3. ASSUME NEW n, Becomes(t, n)
          PROVE  stack' = [stack EXCEPT ![t] = <<n>>]
      <3>1. [stack[t] EXCEPT ![1] = n] = <<n>>
        BY <2>1
      <3> QED
        BY <2>3, <3>1 DEF Becomes
    <2>4. Returns(t) => stack' = [stack EXCEPT ![t] = <<>>]
      BY <2>6 DEF Returns
    <2>5. ASSUME NEW n, NEW fn, NEW b, Nests(t, n, fn, b)
          PROVE  stack' = [stack EXCEPT ![t] = <<Enter(fn, "sf", b), n>>]
      <3>1. <<Enter(fn, "sf", b), n>> \o Tail(stack[t]) = <<Enter(fn, "sf", b), n>>
        BY <2>6, ConcatEmpty
      <3> QED
        BY <2>5, <3>1 DEF Nests
    <2> QED
      BY <1>1, <2>1, <2>2, <2>3, <2>4, <2>5, <2>6 DEF Alone
  <1>2. CASE Len(stack[t]) = 2 /\ Nesting(t)
    <2>1. stack[t] = <<Top(t), Outer(t)>>
      BY <1>2 DEF Nesting
    <2>2. Tail(stack[t]) = <<Outer(t)>>
      BY <2>1, TailOfTwo
    <2>3. Calls(t) = {Top(t), Outer(t)}
      BY <2>1, CallsOfStack DEF Calls
    <2>4. ASSUME NEW n, Becomes(t, n)
          PROVE  stack' = [stack EXCEPT ![t] = <<n, Outer(t)>>]
      <3>1. [stack[t] EXCEPT ![1] = n] = <<n, Outer(t)>>
        BY <2>1
      <3> QED
        BY <2>4, <3>1 DEF Becomes
    <2>5. Returns(t) => stack' = [stack EXCEPT ![t] = <<Outer(t)>>]
      BY <2>2 DEF Returns
    <2> QED
      BY <1>2, <2>1, <2>2, <2>3, <2>4, <2>5 DEF Nesting
  <1> QED
    BY <1>1, <1>2 DEF Stacked
(***************************************************************************)
(* Calls of the game                                                       *)
(***************************************************************************)
\* Which hooks a GREEN run has.
LEMMA GreenHooks ==
    ASSUME Loaded, Green
    PROVE  /\ loaded.phase = "running"
           /\ MMTargets \subseteq loaded.out.installed
           /\ \/ SFTargets \subseteq loaded.out.installed
              \/ SFTargets \cap loaded.out.installed = {}
  BY DEF Loaded, StartupIsHonest, Green, Wanted, MMTargets, SFTargets

\* A heap is hooked as a whole: a call of it reaches a hook, or none does.
LEMMA HeapHooked ==
    ASSUME Loaded, Green, NEW heap
    PROVE  /\ Entry(heap, "Deallocate", "SfFree") # {} <=> Hooked(heap)
           /\ Entry(heap, "Reallocate", "SfRealloc") # {} <=> Hooked(heap)
  BY GreenHooks DEF Entry, Hooked, Installed, MMTargets, SFTargets

\* A nested call is of the replaced Scaleform heap.
LEMMA ReplacedHooked ==
    ASSUME Loaded, loaded.replaced,
           Installed("Allocate") \/ (Green /\ Installed("Reallocate"))
    PROVE  Hooked("sf")
  BY GreenHooks DEF Entry, Hooked, Installed, MMTargets

\* The steps of the hook calls.
LEMMA StepsAre ==
    /\ \A fn \in AllocFns : Steps(fn) = {"orig", "record"}
    /\ Steps("Deallocate") = {"enter", "mark", "orig", "return"}
    /\ Steps("SfFree") = {"enter", "find", "mark", "orig", "publish", "return"}
    /\ \A fn \in ReallocFns : Steps(fn) = {"orig", "erase", "record"}
    /\ Steps("Wl") = {"enter", "refresh"}
    /\ FreeFns = {"Deallocate", "SfFree"}
  BY DEF Steps, AllocFns, FreeFns, ReallocFns

\* The hook call of a fresh entry.
LEMMA EnterIs ==
    ASSUME NEW fn \in Functions, NEW heap, NEW b
    PROVE  /\ IsFrame(Enter(fn, heap, b))
           /\ Enter(fn, heap, b).fn = fn /\ Enter(fn, heap, b).heap = heap /\ Enter(fn, heap, b).b = b
           /\ Enter(fn, heap, b).new = NoBlock /\ Enter(fn, heap, b).rec = {}
           /\ ~Enter(fn, heap, b).pushed /\ ~Enter(fn, heap, b).publish
           /\ Enter(fn, heap, b).pc = IF fn \in {"Deallocate", "SfFree", "Wl"} THEN "enter" ELSE "orig"
  BY DEF Enter, IsFrame, Functions, Steps, AllocFns, ReallocFns

\* The game enters a hook.
LEMMA StartsCall ==
    ASSUME Stacked, NEW t \in Threads, NEW fn \in Functions, NEW heap, NEW b,
           IF fn \in AllocFns THEN b = NoBlock ELSE b \in Blocks, Starts(t, fn, heap, b)
    PROVE  /\ Stacked' /\ \A u \in Threads \ {t} : Same(u)
           /\ Calls(t)' = {Enter(fn, heap, b)}
           /\ \A x : /\ Owner(t, x)' <=> (fn \in FreeFns \cup ReallocFns /\ x = b)
                     /\ Moving(t, x)' <=> (fn \in ReallocFns /\ x = b)
                     /\ ~Erases(t, x)'
                     /\ Gives(t, x)' <=> (fn \in FreeFns /\ x = b)
                     /\ ~Passes(t, x)'
  <1> DEFINE n == Enter(fn, heap, b)
  <1>1. /\ IsFrame(n) /\ n.fn = fn /\ n.b = b /\ n.rec = {} /\ ~n.pushed /\ ~n.publish /\ n.new = NoBlock
        /\ n.pc = IF fn \in {"Deallocate", "SfFree", "Wl"} THEN "enter" ELSE "orig"
    BY EnterIs
  <1>2. stack' = [stack EXCEPT ![t] = <<n>>]
    BY DEF Starts
  <1> HIDE DEF n
  <1>3. Named(n) /\ Outermost(n)
    BY <1>1 DEF Named, Outermost, AllocFns, ReallocFns, FreeFns
  <1>4. /\ Stacked' /\ \A u \in Threads \ {t} : Same(u)
        /\ Calls(t)' = {n}
        /\ \A x : /\ Owner(t, x)' <=> Owns(n, x)
                  /\ Moving(t, x)' <=> Relocates(n, x)
                  /\ Erases(t, x)' <=> EndsRecord(n, x)
                  /\ Gives(t, x)' <=> (n.fn \in FreeFns /\ n.pc = "enter" /\ n.b = x)
                  /\ Passes(t, x)' <=> (n.fn \in FreeFns /\ n.pc = "orig" /\ n.b = x)
    BY <1>1, <1>2, <1>3, OneCall
  <1>5. \A x : /\ Owns(n, x) <=> (fn \in FreeFns \cup ReallocFns /\ x = b)
               /\ Relocates(n, x) <=> (fn \in ReallocFns /\ x = b)
               /\ ~EndsRecord(n, x)
               /\ (n.fn \in FreeFns /\ n.pc = "enter" /\ n.b = x) <=> (fn \in FreeFns /\ x = b)
               /\ ~(n.fn \in FreeFns /\ n.pc = "orig" /\ n.b = x)
    BY <1>1 DEF Owns, Relocates, EndsRecord, FreeFns, ReallocFns, AllocFns
  <1> QED
    BY <1>4, <1>5 DEF n

\* A thread that is in no call has nothing.
LEMMA Nothing ==
    ASSUME NEW t \in Threads, stack[t] = <<>>
    PROVE  /\ Calls(t) = {}
           /\ \A x : ~Owner(t, x) /\ ~Moving(t, x) /\ ~Erases(t, x) /\ ~Gives(t, x) /\ ~Passes(t, x)
  <1>1. Calls(t) = {}
    BY CallsOfStack DEF Calls
  <1>2. Len(stack[t]) = 0
    OBVIOUS
  <1> QED
    BY <1>1, <1>2 DEF Owner, Moving, Erases, Gives, Passes

\* A step that leaves the stacks alone.
LEMMA AllSame ==
    ASSUME UNCHANGED stack
    PROVE  (\A u \in Threads : Same(u)) /\ (Stacked => Stacked')
  <1>1. \A u \in Threads : Same(u)
    BY SameStack
  <1>2. \A u \in Threads : Top(u)' = Top(u) /\ Outer(u)' = Outer(u)
    BY DEF Top, Outer
  <1>3. Stacked => Stacked'
    BY <1>2 DEF Stacked, Alone, Nesting
  <1> QED
    BY <1>1, <1>3

\* A block of the game is in nobody's call.
LEMMA NotOwned ==
    ASSUME Owned, NEW b \in Blocks, mem[b].who # "hook", b \notin wronged
    PROVE  \A t \in Threads : ~Owner(t, b) /\ ~Moving(t, b) /\ ~Gives(t, b) /\ ~Passes(t, b)
  <1> SUFFICES ASSUME NEW t \in Threads
               PROVE  ~Owner(t, b) /\ ~Moving(t, b) /\ ~Gives(t, b) /\ ~Passes(t, b)
    OBVIOUS
  <1>1. ~Owner(t, b)
    BY DEF Owned
  <1>2. stack[t] # <<>> => ~Owns(Top(t), b)
    BY <1>1 DEF Owner
  <1>3. Gives(t, b) => stack[t] # <<>>
    BY DEF Gives
  <1> QED
    BY <1>1, <1>2, <1>3 DEF Moving, Relocates, Gives, Passes, Owns, FreeFns, ReallocFns, AllocFns
(***************************************************************************)
(* Steps in which loading has been done                                    *)
(***************************************************************************)
LEMMA StaysLoaded ==
    ASSUME Loaded, loaded.phase = "running", UNCHANGED loaded
    PROVE  /\ Loaded' /\ (Green' <=> Green)
           /\ \A heap : Hooked(heap)' <=> Hooked(heap)
           /\ \A b : mem'[b].heap = mem[b].heap => (Seen(b)' <=> Seen(b))
  <1>1. Loaded' /\ (Green' <=> Green)
    BY DEF Loaded, StartupIsHonest, Green, config
  <1>2. \A heap : Hooked(heap)' <=> Hooked(heap)
    BY DEF Hooked, Entry, Installed
  <1>3. \A b : mem'[b].heap = mem[b].heap => (Seen(b)' <=> Seen(b))
    BY DEF Seen, Hooked, Entry, Installed
  <1> QED
    BY <1>1, <1>2, <1>3

\* Whether the ledger sees a block depends on its heap.
LEMMA SeenThere ==
    ASSUME NEW b, NEW heap, UNCHANGED loaded, mem'[b].heap = heap
    PROVE  Seen(b)' <=> Hooked(heap)
  BY DEF Seen, Hooked, Entry, Installed

\* The game enters a hook, with a block it has or has no right to.
LEMMA EntersStep ==
    ASSUME HooksInv, loaded.phase = "running", NEW t \in Threads, stack[t] = <<>>,
           NEW fn \in Functions, NEW heap, NEW b, Starts(t, fn, heap, b),
           UNCHANGED <<loaded, ledger, instance, ring, reports, raced>>,
           wronged \subseteq wronged', Tables',
           \A x \in Blocks \ wronged' : x = b /\ fn \in FreeFns \cup ReallocFns =>
               /\ mem[b].who = "live" /\ mem'[b].who = "hook" /\ mem'[b].heap = mem[b].heap
               /\ Green => Seen(b),
           \A x \in Blocks : x # b \/ fn \notin FreeFns \cup ReallocFns => mem'[x] = mem[x],
           b \in Blocks => mem'[b].heap = mem[b].heap,
           IF fn \in AllocFns THEN b = NoBlock ELSE b \in Blocks,
           Green /\ fn \in AllocFns \cup ReallocFns => Hooked(heap),
           b \in Blocks /\ mem'[b].who = "live" => mem[b].who = "live",
           b \in Blocks /\ mem'[b].who = "free" => mem[b].who = "free"
    PROVE  HooksInv'
  <1>1. /\ Loaded' /\ (Green' <=> Green) /\ \A h : Hooked(h)' <=> Hooked(h)
        /\ \A x \in Blocks : Seen(x)' <=> Seen(x)
    BY StaysLoaded DEF HooksInv
  <1>2. /\ Stacked' /\ \A u \in Threads \ {t} : Same(u)
        /\ Calls(t)' = {Enter(fn, heap, b)}
        /\ \A x : /\ Owner(t, x)' <=> (fn \in FreeFns \cup ReallocFns /\ x = b)
                  /\ Moving(t, x)' <=> (fn \in ReallocFns /\ x = b)
                  /\ ~Erases(t, x)'
                  /\ Gives(t, x)' <=> (fn \in FreeFns /\ x = b)
                  /\ ~Passes(t, x)'
    BY StartsCall DEF HooksInv
  <1>3. /\ Enter(fn, heap, b).fn = fn /\ Enter(fn, heap, b).heap = heap
        /\ Enter(fn, heap, b).rec = {}
    BY EnterIs
  <1>4. \A x : ~Owner(t, x) /\ ~Moving(t, x) /\ ~Erases(t, x) /\ ~Gives(t, x) /\ ~Passes(t, x)
    BY Nothing
  <1>5. Owned'
    <2>1. ASSUME NEW x \in Blocks \ wronged', NEW u \in Threads, Owner(u, x)'
          PROVE  /\ mem'[x].who = "hook" /\ (Green' => Seen(x)')
                 /\ \A v \in Threads : Owner(v, x)' => v = u
      <3>1. CASE x = b /\ fn \in FreeFns \cup ReallocFns
        <4>1. \A v \in Threads : ~Owner(v, b)
          BY <3>1, NotOwned DEF HooksInv
        <4> QED
          BY <1>1, <1>2, <2>1, <3>1, <4>1 DEF Same
      <3>2. CASE ~(x = b /\ fn \in FreeFns \cup ReallocFns)
        BY <1>1, <1>2, <2>1, <3>2 DEF Same, HooksInv, Owned
      <3> QED
        BY <3>1, <3>2
    <2>2. ASSUME Green', NEW u \in Threads, NEW f \in Calls(u)', f.fn \in AllocFns \cup ReallocFns
          PROVE  Hooked(f.heap)'
      BY <1>1, <1>2, <1>3, <2>2 DEF Same, HooksInv, Owned
    <2> QED
      BY <2>1, <2>2 DEF Owned
  <1>6. Numbered'
    BY <1>2, <1>3 DEF Same, HooksInv, Numbered
  <1>7. Old'
    <2>1. ASSUME NEW x \in Blocks \ wronged', Keeps(x)'
          PROVE  Keeps(x)
      BY <1>2, <2>1 DEF Same, Keeps
    <2> QED
      BY <1>2, <1>3, <2>1 DEF Same, HooksInv, Old
  <1>8. ASSUME Green
        PROVE  Marked'
    <2>1. ASSUME NEW x \in Blocks \ wronged', Freed(ledger[x])
          PROVE  /\ ~(mem'[x].who = "live" /\ Seen(x)')
                 /\ \A u \in Threads : ~Moving(u, x)' /\ ~Gives(u, x)'
      <3>1. ~(mem[x].who = "live" /\ Seen(x)) /\ \A u \in Threads : ~Moving(u, x) /\ ~Gives(u, x)
        BY <1>8, <2>1 DEF HooksInv, Marked
      <3>2. ~(x = b /\ fn \in FreeFns \cup ReallocFns)
        BY <1>8, <3>1
      <3> QED
        BY <1>1, <1>2, <3>1, <3>2 DEF Same
    <2> QED
      BY <2>1 DEF Marked
  <1>9. ASSUME Green
        PROVE  Cleared'
    <2>1. ASSUME NEW x \in Blocks \ (wronged' \cup raced'), LiveRecord(x)'
          PROVE  /\ mem'[x].who = "free" \/ Unseen(x)' => \E u \in Threads : Erases(u, x)'
                 /\ \A u \in Threads : ~Passes(u, x)'
      <3>1. LiveRecord(x)
        BY <2>1 DEF LiveRecord
      <3>2. /\ mem[x].who = "free" \/ Unseen(x) => \E u \in Threads : Erases(u, x)
            /\ \A u \in Threads : ~Passes(u, x)
        BY <1>9, <3>1 DEF HooksInv, Cleared
      <3>3. mem'[x].who = "free" \/ Unseen(x)' => mem[x].who = "free" \/ Unseen(x)
        BY <1>1 DEF Unseen
      <3> QED
        BY <1>2, <1>4, <3>2, <3>3 DEF Same
    <2> QED
      BY <2>1 DEF Cleared
  <1>10. TrustedReportIsRight'
    BY DEF HooksInv, TrustedReportIsRight
  <1> QED
    BY <1>1, <1>2, <1>5, <1>6, <1>7, <1>8, <1>9, <1>10 DEF HooksInv

\* A block leaves the game, or the game gets one, past the hooks.
LEMMA DirectStep ==
    ASSUME HooksInv, loaded.phase = "running", Tables', instance'.last = instance.last,
           UNCHANGED <<loaded, ledger, ring, stack, reports, raced>>,
           wronged \subseteq wronged',
           \A x \in Blocks :
              \/ mem'[x] = mem[x] /\ instance'.of[x] = instance.of[x]
              \/ /\ mem[x].who = "live" \/ x \in wronged'
                 /\ mem'[x].who = "leaked" \/ (mem'[x].who = "free" /\ (Green => ~Seen(x)))
                 /\ instance'.of[x] = instance.of[x] /\ mem'[x].heap = mem[x].heap
              \/ /\ mem[x].who = "free" \/ (mem[x].who = "live" /\ (Green => ~Seen(x)))
                 /\ mem'[x].who = "live" /\ (Green => ~Seen(x)')
                 /\ instance'.of[x] = 0
    PROVE  HooksInv'
  <1>1. /\ Loaded' /\ (Green' <=> Green) /\ \A h : Hooked(h)' <=> Hooked(h)
        /\ \A x \in Blocks : mem'[x].heap = mem[x].heap => (Seen(x)' <=> Seen(x))
    BY StaysLoaded DEF HooksInv
  <1>2. Stacked' /\ \A u \in Threads : Same(u)
    BY AllSame DEF HooksInv
  <1>3. Owned'
    <2>1. ASSUME NEW x \in Blocks \ wronged', NEW u \in Threads, Owner(u, x)'
          PROVE  /\ mem'[x].who = "hook" /\ (Green' => Seen(x)')
                 /\ \A v \in Threads : Owner(v, x)' => v = u
      <3>1. /\ Owner(u, x) /\ mem[x].who = "hook" /\ (Green => Seen(x))
            /\ \A v \in Threads : Owner(v, x) => v = u
        BY <1>2, <2>1 DEF Same, HooksInv, Owned
      <3>2. mem'[x] = mem[x]
        BY <3>1
      <3> QED
        BY <1>1, <1>2, <3>1, <3>2 DEF Same
    <2>2. ASSUME Green', NEW u \in Threads, NEW f \in Calls(u)', f.fn \in AllocFns \cup ReallocFns
          PROVE  Hooked(f.heap)'
      BY <1>1, <1>2, <2>2 DEF Same, HooksInv, Owned
    <2> QED
      BY <2>1, <2>2 DEF Owned
  <1>4. Numbered'
    <2>2. \A x \in Blocks : instance'.of[x] \in 0 .. instance'.last
      BY DEF HooksInv, Numbered
    <2> QED
      BY <1>2, <2>2 DEF Same, HooksInv, Numbered
  <1>5. Old'
    <2>1. ASSUME NEW x \in Blocks \ wronged', Keeps(x)', instance'.of[x] # 0
          PROVE  Keeps(x) /\ instance'.of[x] = instance.of[x]
      <3>1. CASE mem'[x] = mem[x] /\ instance'.of[x] = instance.of[x]
        BY <1>2, <2>1, <3>1 DEF Same, Keeps
      <3>2. CASE mem[x].who = "live" /\ instance'.of[x] = instance.of[x]
        BY <3>2 DEF Keeps
      <3> QED
        BY <2>1, <3>1, <3>2
    <2> QED
      BY <1>2, <2>1 DEF Same, HooksInv, Old
  <1>6. ASSUME Green
        PROVE  Marked'
    <2>1. ASSUME NEW x \in Blocks \ wronged', Freed(ledger[x])
          PROVE  /\ ~(mem'[x].who = "live" /\ Seen(x)')
                 /\ \A u \in Threads : ~Moving(u, x)' /\ ~Gives(u, x)'
      <3>1. ~(mem[x].who = "live" /\ Seen(x)) /\ \A u \in Threads : ~Moving(u, x) /\ ~Gives(u, x)
        BY <1>6, <2>1 DEF HooksInv, Marked
      <3>2. ~(mem'[x].who = "live" /\ Seen(x)')
        BY <1>1, <1>6, <3>1
      <3> QED
        BY <1>2, <3>1, <3>2 DEF Same
    <2> QED
      BY <2>1 DEF Marked
  <1>7. ASSUME Green
        PROVE  Cleared'
    <2>1. ASSUME NEW x \in Blocks \ (wronged' \cup raced'), LiveRecord(x)'
          PROVE  /\ mem'[x].who = "free" \/ Unseen(x)' => \E u \in Threads : Erases(u, x)'
                 /\ \A u \in Threads : ~Passes(u, x)'
      <3>1. LiveRecord(x)
        BY <2>1 DEF LiveRecord
      <3>2. /\ mem[x].who = "free" \/ Unseen(x) => \E u \in Threads : Erases(u, x)
            /\ \A u \in Threads : ~Passes(u, x)
        BY <1>7, <3>1 DEF HooksInv, Cleared
      <3>3. mem'[x].who = "free" \/ Unseen(x)' => mem[x].who = "free" \/ Unseen(x)
        BY <1>1, <1>7 DEF Unseen
      <3> QED
        BY <1>2, <3>2, <3>3 DEF Same
    <2> QED
      BY <2>1 DEF Cleared
  <1>8. TrustedReportIsRight'
    BY DEF HooksInv, TrustedReportIsRight
  <1> QED
    BY <1>1, <1>2, <1>3, <1>4, <1>5, <1>6, <1>7, <1>8 DEF HooksInv

(***************************************************************************)
(* The game's steps                                                        *)
(***************************************************************************)
LEMMA GameAllocatesStep ==
    ASSUME HooksInv, NEW t \in Threads, NEW heap \in {"mm", "sf"}, GameAllocates(t, heap)
    PROVE  HooksInv'
  <1>1. /\ loaded.phase = "running" /\ stack[t] = <<>>
        /\ UNCHANGED <<loaded, ledger, ring, reports, wronged, raced>>
    BY DEF GameAllocates, Idle
  <1>2. CASE \E fn \in Entry(heap, "Allocate", "SfAlloc") :
               Starts(t, fn, heap, NoBlock) /\ UNCHANGED <<mem, instance>>
    <2>1. PICK fn \in Entry(heap, "Allocate", "SfAlloc") : Starts(t, fn, heap, NoBlock)
      BY <1>2
    <2>2. fn \in AllocFns /\ fn \in Functions /\ fn \notin FreeFns \cup ReallocFns
      BY DEF Entry, AllocFns, FreeFns, ReallocFns, Functions
    <2>3. Hooked(heap)
      BY DEF Hooked
    <2>4. Tables' /\ UNCHANGED mem
      BY <1>1, <1>2 DEF HooksInv, Tables
    <2> QED
      BY <1>1, <1>2, <2>1, <2>2, <2>3, <2>4, EntersStep, HooksAssumption
  <1>3. CASE /\ Entry(heap, "Allocate", "SfAlloc") = {} /\ UNCHANGED stack
             /\ \E b \in Blocks : Takes(b, "live", heap) /\ instance' = [instance EXCEPT !.of[b] = 0]
    <2>1. PICK b \in Blocks : Takes(b, "live", heap) /\ instance' = [instance EXCEPT !.of[b] = 0]
      BY <1>3
    <2>2. Tables' /\ instance'.last = instance.last
      BY <1>1, <2>1 DEF HooksInv, Tables, Takes
    <2>3. \A x \in Blocks \ {b} : mem'[x] = mem[x] /\ instance'.of[x] = instance.of[x]
      BY <2>1 DEF HooksInv, Tables, Takes
    <2>4. /\ mem[b].who = "free" /\ mem'[b].who = "live" /\ mem'[b].heap = heap
          /\ instance'.of[b] = 0
      BY <2>1 DEF HooksInv, Tables, Takes
    <2>5. ~Seen(b)'
      BY <1>1, <1>3, <2>4, SeenThere DEF Hooked
    <2> QED
      BY <1>1, <1>3, <2>2, <2>3, <2>4, <2>5, DirectStep
  <1> QED
    BY <1>2, <1>3 DEF GameAllocates

\* A free, of a block the game has or of another.
LEMMA FreesStep ==
    ASSUME HooksInv, NEW t \in Threads, NEW b \in Blocks, loaded.phase = "running", stack[t] = <<>>,
           mem[b].who = "live" \/ (mem[b].who = "free" /\ b \in wronged'), wronged \subseteq wronged',
           Frees(t, b), UNCHANGED <<loaded, ledger, instance, ring, reports, raced>>
    PROVE  HooksInv'
  <1>1. Green => (Entry(mem[b].heap, "Deallocate", "SfFree") # {} <=> Seen(b))
    BY HeapHooked DEF HooksInv, Seen
  <1>2. CASE /\ \E fn \in Entry(mem[b].heap, "Deallocate", "SfFree") : Starts(t, fn, mem[b].heap, b)
             /\ mem' = [mem EXCEPT ![b].who = IF @ = "live" THEN "hook" ELSE @]
    <2>1. PICK fn \in Entry(mem[b].heap, "Deallocate", "SfFree"), heap \in {mem[b].heap} :
             Starts(t, fn, heap, b)
      BY <1>2
    <2>2. fn \in FreeFns /\ fn \in Functions /\ fn \notin AllocFns \cup ReallocFns
      BY DEF Entry, AllocFns, FreeFns, ReallocFns, Functions
    <2>3. /\ Tables' /\ \A x \in Blocks \ {b} : mem'[x] = mem[x]
          /\ mem'[b].heap = mem[b].heap
          /\ mem'[b].who = IF mem[b].who = "live" THEN "hook" ELSE mem[b].who
      BY <1>2 DEF HooksInv, Tables
    <2>4. Green => Seen(b)
      BY <1>1, <2>1
    <2> QED
      BY <2>1, <2>2, <2>3, <2>4, EntersStep
  <1>3. CASE /\ Entry(mem[b].heap, "Deallocate", "SfFree") = {}
             /\ mem' = [mem EXCEPT ![b].who = "free"] /\ UNCHANGED stack
    <2>1. /\ Tables' /\ \A x \in Blocks \ {b} : mem'[x] = mem[x]
          /\ mem'[b].heap = mem[b].heap /\ mem'[b].who = "free"
      BY <1>3 DEF HooksInv, Tables
    <2>2. instance'.last = instance.last
      BY DEF HooksInv, Tables
    <2>3. Green => ~Seen(b)
      BY <1>1, <1>3
    <2> QED
      BY <1>3, <2>1, <2>2, <2>3, DirectStep
  <1> QED
    BY <1>2, <1>3 DEF Frees

\* GameFrees and HkRelease keep the invariant.
LEMMA GameFreesStep ==
    ASSUME HooksInv, NEW t \in Threads, NEW b \in Blocks, GameFrees(t, b) \/ HkRelease(t, b)
    PROVE  HooksInv'
  <1>1. CASE GameFrees(t, b)
    BY <1>1, FreesStep DEF GameFrees, Idle
  <1>2. CASE HkRelease(t, b) /\ Frees(t, b)
    BY <1>2, FreesStep DEF HkRelease, Idle
  <1>3. CASE HkRelease(t, b) /\ mem' = [mem EXCEPT ![b].who = "leaked"] /\ UNCHANGED stack
    <2>1. /\ loaded.phase = "running" /\ mem[b].who = "live"
          /\ UNCHANGED <<loaded, ledger, instance, ring, reports, wronged, raced>>
      BY <1>3 DEF HkRelease, Idle
    <2>2. /\ Tables' /\ \A x \in Blocks \ {b} : mem'[x] = mem[x]
          /\ mem'[b].heap = mem[b].heap /\ mem'[b].who = "leaked"
      BY <1>3, <2>1 DEF HooksInv, Tables
    <2>3. instance'.last = instance.last
      BY <2>1 DEF HooksInv, Tables
    <2> QED
      BY <1>3, <2>1, <2>2, <2>3, DirectStep
  <1> QED
    BY <1>1, <1>2, <1>3 DEF HkRelease

\* What a reallocation does to the blocks.
LEMMA MovesIs ==
    ASSUME Tables, NEW b \in Blocks, NEW new \in Blocks, NEW who, NEW heap, Moves(b, new, who, heap)
    PROVE  /\ DOMAIN mem' = Blocks /\ \A x \in Blocks : DOMAIN mem'[x] = {"who", "heap"}
           /\ mem'[new].who = who /\ mem'[new].heap = heap
           /\ new # b => mem[new].who = "free" /\ mem'[b].who = "free" /\ mem'[b].heap = mem[b].heap
           /\ \A x \in Blocks \ {b, new} : mem'[x] = mem[x]
  <1>1. /\ DOMAIN mem' = Blocks
        /\ mem'[new] = [who |-> who, heap |-> heap]
        /\ new # b => mem[new].who = "free" /\ mem'[b] = [mem[b] EXCEPT !.who = "free"]
        /\ \A x \in Blocks \ {b, new} : mem'[x] = mem[x]
    BY DEF Moves
  <1>2. DOMAIN mem'[new] = {"who", "heap"} /\ mem'[new].who = who /\ mem'[new].heap = heap
    BY <1>1
  <1>3. new # b => /\ DOMAIN mem'[b] = {"who", "heap"}
                   /\ mem'[b].who = "free" /\ mem'[b].heap = mem[b].heap
    BY <1>1 DEF Tables
  <1>4. \A x \in Blocks \ {b, new} : DOMAIN mem'[x] = {"who", "heap"}
    BY <1>1 DEF Tables
  <1> QED
    BY <1>1, <1>2, <1>3, <1>4

\* GameReallocates keeps the invariant.
LEMMA GameReallocatesStep ==
    ASSUME HooksInv, NEW t \in Threads, NEW b \in Blocks, GameReallocates(t, b)
    PROVE  HooksInv'
  <1>1. /\ loaded.phase = "running" /\ stack[t] = <<>> /\ mem[b].who = "live"
        /\ UNCHANGED <<loaded, ledger, ring, reports, wronged, raced>>
    BY DEF GameReallocates, Idle
  <1>2. PICK heap \in {mem[b].heap} : TRUE
    OBVIOUS
  <1>3. Green => (Entry(heap, "Reallocate", "SfRealloc") # {} <=> Hooked(heap))
    BY HeapHooked DEF HooksInv
  <1>4. Seen(b) <=> Hooked(heap)
    BY <1>2 DEF Seen
  <1>5. CASE /\ \E fn \in Entry(heap, "Reallocate", "SfRealloc") : Starts(t, fn, heap, b)
             /\ mem' = [mem EXCEPT ![b].who = "hook"] /\ UNCHANGED instance
    <2>1. PICK fn \in Entry(heap, "Reallocate", "SfRealloc") : Starts(t, fn, heap, b)
      BY <1>5
    <2>2. fn \in ReallocFns /\ fn \in Functions /\ fn \notin AllocFns \cup FreeFns
      BY DEF Entry, AllocFns, FreeFns, ReallocFns, Functions
    <2>3. /\ Tables' /\ \A x \in Blocks \ {b} : mem'[x] = mem[x]
          /\ mem'[b].heap = mem[b].heap /\ mem'[b].who = "hook"
      BY <1>1, <1>5 DEF HooksInv, Tables
    <2> QED
      BY <1>1, <1>3, <1>4, <1>5, <2>1, <2>2, <2>3, EntersStep
  <1>6. CASE /\ Entry(heap, "Reallocate", "SfRealloc") = {} /\ UNCHANGED stack
             /\ \E new \in Blocks : /\ Moves(b, new, "live", mem[b].heap)
                                    /\ instance' = [instance EXCEPT !.of[new] = 0]
    <2>1. PICK new \in Blocks : Moves(b, new, "live", heap) /\ instance' = [instance EXCEPT !.of[new] = 0]
      BY <1>2, <1>6
    <2>2. /\ DOMAIN mem' = Blocks /\ \A x \in Blocks : DOMAIN mem'[x] = {"who", "heap"}
          /\ mem'[new].who = "live" /\ mem'[new].heap = heap
          /\ new # b => mem[new].who = "free" /\ mem'[b].who = "free" /\ mem'[b].heap = mem[b].heap
          /\ \A x \in Blocks \ {b, new} : mem'[x] = mem[x]
      BY <2>1, MovesIs DEF HooksInv
    <2>3. /\ DOMAIN instance' = {"last", "of"} /\ DOMAIN instance'.of = Blocks
          /\ instance'.last = instance.last
          /\ instance'.of[new] = 0 /\ \A x \in Blocks \ {new} : instance'.of[x] = instance.of[x]
      BY <2>1 DEF HooksInv, Tables
    <2>4. Tables'
      BY <1>1, <2>2, <2>3 DEF HooksInv, Tables
    <2>5. Green => ~Seen(b) /\ ~Seen(new)'
      BY <1>1, <1>3, <1>4, <1>6, <2>2, SeenThere
    <2> QED
      BY <1>1, <1>6, <2>2, <2>3, <2>4, <2>5, DirectStep
  <1> QED
    BY <1>2, <1>5, <1>6 DEF GameReallocates

\* GameUses keeps the invariant.
LEMMA GameUsesStep ==
    ASSUME HooksInv, NEW t \in Threads, NEW b \in Blocks, GameUses(t, b)
    PROVE  HooksInv'
  <1>1. /\ loaded.phase = "running" /\ stack[t] = <<>> /\ Starts(t, "Wl", "sf", b)
        /\ UNCHANGED <<loaded, mem, ledger, instance, ring, reports, wronged, raced>>
    BY DEF GameUses, Idle
  <1>2. "Wl" \in Functions /\ "Wl" \notin AllocFns \cup FreeFns \cup ReallocFns
    BY DEF Functions, AllocFns, FreeFns, ReallocFns
  <1>3. Tables'
    BY <1>1 DEF HooksInv, Tables
  <1> QED
    BY <1>1, <1>2, <1>3, EntersStep

(***************************************************************************)
(* The steps of a hook call                                                *)
(***************************************************************************)
\* What the invariant says of each call, on its own.
Fine(f) ==
    /\ Green /\ f.fn \in AllocFns \cup ReallocFns => Hooked(f.heap)
    /\ \A r \in f.rec : r.instance \in 0 .. instance.last
    /\ f.fn = "SfFree" /\ f.b \in Blocks \ wronged /\ Keeps(f.b) /\ instance.of[f.b] # 0 =>
         \A r \in f.rec : r.instance # instance.of[f.b]

\* Each call of each thread is so.
LEMMA CallsFine ==
    ASSUME HooksInv, NEW t \in Threads, NEW f \in Calls(t)
    PROVE  Fine(f)
  <1>1. Green /\ f.fn \in AllocFns \cup ReallocFns => Hooked(f.heap)
    BY DEF HooksInv, Owned
  <1>2. \A r \in f.rec : r.instance \in 0 .. instance.last
    BY DEF HooksInv, Numbered
  <1>3. f.fn = "SfFree" /\ f.b \in Blocks \ wronged /\ Keeps(f.b) /\ instance.of[f.b] # 0 =>
          \A r \in f.rec : r.instance # instance.of[f.b]
    BY DEF HooksInv, Old
  <1> QED
    BY <1>1, <1>2, <1>3 DEF Fine

\* There are calls only when loading has been done.
LEMMA IsRunning ==
    ASSUME HooksInv, NEW t \in Threads, stack[t] # <<>>
    PROVE  loaded.phase = "running"
  BY DEF HooksInv, Loaded

\* What the invariant says of a thread, of its innermost call and the one around it.
LEMMA Now ==
    ASSUME Stacked, NEW t \in Threads, stack[t] # <<>>
    PROVE  /\ Len(stack[t]) \in {1, 2} /\ Top(t) \in Calls(t)
           /\ Len(stack[t]) = 2 => Outer(t) \in Calls(t)
           /\ \A x : /\ Owner(t, x) <=> Owns(Top(t), x)
                     /\ Moving(t, x) <=> Relocates(Top(t), x)
                     /\ Erases(t, x) <=> \/ EndsRecord(Top(t), x)
                                         \/ Len(stack[t]) = 2 /\ EndsRecord(Outer(t), x)
                     /\ Gives(t, x) <=> /\ Len(stack[t]) = 1 /\ Top(t).fn \in FreeFns
                                        /\ Top(t).pc = "enter" /\ Top(t).b = x
                     /\ Passes(t, x) <=> /\ Top(t).fn \in FreeFns /\ Top(t).b = x
                                         /\ \/ Top(t).pc = "orig"
                                            \/ Len(stack[t]) = 2 /\ Top(t).pc = "enter"
  <1>1. \A x : (Owner(t, x) <=> Owns(Top(t), x)) /\ (Moving(t, x) <=> Relocates(Top(t), x))
    BY DEF Owner, Moving
  <1>2. \/ Len(stack[t]) = 1 /\ Calls(t) = {Top(t)}
        \/ Len(stack[t]) = 2 /\ Calls(t) = {Top(t), Outer(t)}
    BY Running
  <1>3. \A x : Erases(t, x) <=> \/ EndsRecord(Top(t), x)
                                \/ Len(stack[t]) = 2 /\ EndsRecord(Outer(t), x)
    BY <1>2 DEF Erases
  <1>4. \A x : /\ Gives(t, x) <=> /\ Len(stack[t]) = 1 /\ Top(t).fn \in FreeFns
                                  /\ Top(t).pc = "enter" /\ Top(t).b = x
               /\ Passes(t, x) <=> /\ Top(t).fn \in FreeFns /\ Top(t).b = x
                                   /\ \/ Top(t).pc = "orig"
                                      \/ Len(stack[t]) = 2 /\ Top(t).pc = "enter"
    BY DEF Gives, Passes
  <1> QED
    BY <1>1, <1>2, <1>3, <1>4

\* The innermost call goes on.
LEMMA GoesOn ==
    ASSUME Stacked, NEW t \in Threads, stack[t] # <<>>, NEW n, Becomes(t, n), IsFrame(n), Named(n),
           Len(stack[t]) = 1 => Outermost(n), Len(stack[t]) = 2 => Around(n, Outer(t))
    PROVE  /\ Stacked' /\ \A u \in Threads \ {t} : Same(u)
           /\ Calls(t)' \subseteq Calls(t) \cup {n}
           /\ \A x : /\ Owner(t, x)' <=> Owns(n, x)
                     /\ Moving(t, x)' <=> Relocates(n, x)
                     /\ Erases(t, x)' <=> \/ EndsRecord(n, x)
                                          \/ Len(stack[t]) = 2 /\ EndsRecord(Outer(t), x)
                     /\ Gives(t, x)' <=> /\ Len(stack[t]) = 1 /\ n.fn \in FreeFns
                                         /\ n.pc = "enter" /\ n.b = x
                     /\ Passes(t, x)' <=> /\ n.fn \in FreeFns /\ n.b = x
                                          /\ n.pc = "orig" \/ (Len(stack[t]) = 2 /\ n.pc = "enter")
  <1>1. CASE Len(stack[t]) = 1
    <2>1. stack' = [stack EXCEPT ![t] = <<n>>] /\ Outermost(n)
      BY <1>1, Running
    <2>2. /\ Stacked' /\ \A u \in Threads \ {t} : Same(u)
          /\ Calls(t)' = {n}
          /\ \A x : /\ Owner(t, x)' <=> Owns(n, x)
                    /\ Moving(t, x)' <=> Relocates(n, x)
                    /\ Erases(t, x)' <=> EndsRecord(n, x)
                    /\ Gives(t, x)' <=> (n.fn \in FreeFns /\ n.pc = "enter" /\ n.b = x)
                    /\ Passes(t, x)' <=> (n.fn \in FreeFns /\ n.pc = "orig" /\ n.b = x)
      BY <2>1, OneCall
    <2>3. Len(stack[t]) # 2
      BY <1>1
    <2> QED
      BY <1>1, <2>2, <2>3
  <1>2. CASE Len(stack[t]) = 2
    <2>1. PICK g : g = Outer(t)
      OBVIOUS
    <2>2. /\ stack' = [stack EXCEPT ![t] = <<n, g>>] /\ Calls(t) = {Top(t), g}
          /\ IsFrame(g) /\ Around(n, g) /\ Outermost(g)
      BY <1>2, <2>1, Running
    <2>3. /\ Stacked' /\ \A u \in Threads \ {t} : Same(u)
          /\ Calls(t)' = {n, g}
          /\ \A x : /\ Owner(t, x)' <=> Owns(n, x)
                    /\ Moving(t, x)' <=> Relocates(n, x)
                    /\ Erases(t, x)' <=> EndsRecord(n, x) \/ EndsRecord(g, x)
                    /\ ~Gives(t, x)'
                    /\ Passes(t, x)' <=> (n.fn \in FreeFns /\ n.pc \in {"orig", "enter"} /\ n.b = x)
      BY <2>2, TwoCalls
    <2> QED
      BY <1>2, <2>1, <2>2, <2>3
  <1> QED
    BY <1>1, <1>2, Now

\* A free hook, or a weak-library hook, returns.
LEMMA ReturnsFrom ==
    ASSUME Stacked, NEW t \in Threads, stack[t] # <<>>, Returns(t), Top(t).fn \in FreeFns \cup {"Wl"}
    PROVE  /\ Stacked' /\ \A u \in Threads \ {t} : Same(u)
           /\ Calls(t)' \subseteq Calls(t)
           /\ \A x : /\ ~Owner(t, x)' /\ ~Moving(t, x)' /\ ~Gives(t, x)' /\ ~Passes(t, x)'
                     /\ Erases(t, x)' <=> Erases(t, x)
  <1>1. CASE Len(stack[t]) = 1
    <2>1. stack' = [stack EXCEPT ![t] = <<>>]
      BY <1>1, Running
    <2>3. Len(stack[t]) # 2 /\ \A x : ~EndsRecord(Top(t), x)
      BY <1>1 DEF EndsRecord, FreeFns, ReallocFns
    <2>2. \A x : ~Erases(t, x)
      BY <2>3, Now
    <2> QED
      BY <2>1, <2>2, NoCall
  <1>2. CASE Len(stack[t]) = 2
    <2>1. PICK g : g = Outer(t)
      OBVIOUS
    <2>8. Len(stack[t]) # 1 /\ Named(Top(t))
      BY <1>2, Running
    <2>2. /\ stack' = [stack EXCEPT ![t] = <<g>>] /\ Calls(t) = {Top(t), g}
          /\ IsFrame(g) /\ Around(Top(t), g) /\ Outermost(g) /\ Named(Top(t))
      BY <2>1, <2>8, Running
    <2>3. g.fn = "SfFree" /\ g.pc \in {"publish", "return"} /\ g.b \in Blocks
      BY <2>2 DEF Around, Named, FreeFns, AllocFns
    <2>4. Named(g)
      BY <2>3 DEF Named, AllocFns, ReallocFns
    <2>5. \A x : ~Erases(t, x)
      BY <1>2, <2>1, <2>3, Now DEF EndsRecord, FreeFns, ReallocFns
    <2>6. \A x : /\ ~Owns(g, x) /\ ~Relocates(g, x) /\ ~EndsRecord(g, x)
                 /\ g.pc # "enter" /\ g.pc # "orig"
      BY <2>3 DEF Owns, Relocates, EndsRecord, FreeFns, AllocFns, ReallocFns
    <2>7. /\ Stacked' /\ \A u \in Threads \ {t} : Same(u)
          /\ Calls(t)' = {g}
          /\ \A x : /\ Owner(t, x)' <=> Owns(g, x)
                    /\ Moving(t, x)' <=> Relocates(g, x)
                    /\ Erases(t, x)' <=> EndsRecord(g, x)
                    /\ Gives(t, x)' <=> (g.fn \in FreeFns /\ g.pc = "enter" /\ g.b = x)
                    /\ Passes(t, x)' <=> (g.fn \in FreeFns /\ g.pc = "orig" /\ g.b = x)
      BY <2>2, <2>4, OneCall
    <2> QED
      BY <2>2, <2>5, <2>6, <2>7
  <1> QED
    BY <1>1, <1>2, Now

\* A call ends with a block, for the hook around it or for the game.
LEMMA GivesItBack ==
    ASSUME HooksInv, NEW t \in Threads, stack[t] # <<>>, NEW b \in Blocks, GivesBack(t, b),
           Top(t).fn \in AllocFns \cup ReallocFns
    PROVE  /\ Stacked' /\ \A u \in Threads \ {t} : Same(u)
           /\ \A x : /\ Owner(t, x)' => x = b /\ UNCHANGED mem
                     /\ ~Moving(t, x)' /\ ~Gives(t, x)' /\ ~Passes(t, x)'
                     /\ Erases(t, x) => Erases(t, x)' \/ EndsRecord(Top(t), x)
           /\ \A f \in Calls(t)' : \E g \in Calls(t) :
                 f.fn = g.fn /\ f.heap = g.heap /\ f.rec = g.rec /\ f.fn # "SfFree"
           /\ UNCHANGED mem \/ mem' = [mem EXCEPT ![b].who = "live"]
  <1>1. CASE Len(stack[t]) = 1
    <2>1. /\ stack' = [stack EXCEPT ![t] = <<>>] /\ mem' = [mem EXCEPT ![b].who = "live"]
      BY <1>1, Running DEF GivesBack, HooksInv
    <2>2. /\ Stacked' /\ \A u \in Threads \ {t} : Same(u)
          /\ Calls(t)' = {}
          /\ \A x : ~Owner(t, x)' /\ ~Moving(t, x)' /\ ~Gives(t, x)' /\ ~Passes(t, x)'
      BY <2>1, NoCall DEF HooksInv
    <2>3. \A x : Erases(t, x) => EndsRecord(Top(t), x)
      BY <1>1, Now DEF HooksInv
    <2> QED
      BY <2>1, <2>2, <2>3
  <1>2. CASE Len(stack[t]) = 2
    <2>1. PICK g : g = Outer(t)
      OBVIOUS
    <2>2. /\ Tail(stack[t]) = <<g>> /\ Calls(t) = {Top(t), g}
          /\ IsFrame(g) /\ Around(Top(t), g) /\ Outermost(g) /\ Named(Top(t))
      BY <1>2, <2>1, Running DEF HooksInv
    <2> DEFINE n == Receives(g, b)
    <2>3. stack' = [stack EXCEPT ![t] = <<n>>] /\ UNCHANGED mem
      <3>1. Tail(stack[t]) # <<>> /\ Tail(stack[t])[1] = g /\ Tail(Tail(stack[t])) = <<>>
        <4>1. <<g>> # <<>> /\ <<g>>[1] = g /\ Tail(<<g>>) = <<>>
          BY TailOfOne
        <4> QED
          BY <2>2, <4>1
      <3>2. <<n>> \o <<>> = <<n>>
        OBVIOUS
      <3> QED
        BY <3>1, <3>2 DEF GivesBack
    <2>4. \/ g.fn = "SfAlloc" /\ g.pc = "record"
          \/ g.fn = "SfRealloc" /\ g.pc = "erase" /\ g.b \in Blocks
      BY <2>2 DEF Around, Named, AllocFns, ReallocFns
    <2>5. /\ DOMAIN n = DOMAIN g /\ n.fn = g.fn /\ n.heap = g.heap /\ n.pc = g.pc /\ n.rec = g.rec
          /\ n.publish = g.publish /\ n.pushed = g.pushed
          /\ g.fn = "SfAlloc" => n.b = b /\ n.new = g.new
          /\ g.fn = "SfRealloc" => n.b = g.b /\ n.new = b
      BY <2>2, <2>4 DEF Receives, IsFrame
    <2> HIDE DEF n
    <2>6. IsFrame(n) /\ Named(n) /\ Outermost(n)
      BY <2>2, <2>4, <2>5 DEF IsFrame, Named, Outermost, AllocFns, ReallocFns, FreeFns
    <2>7. \A x : /\ Owns(n, x) => x = b
                 /\ ~Relocates(n, x) /\ EndsRecord(g, x) => EndsRecord(n, x)
                 /\ n.fn \notin FreeFns
      BY <2>4, <2>5 DEF Owns, Relocates, EndsRecord, FreeFns, AllocFns, ReallocFns
    <2>8. /\ Stacked' /\ \A u \in Threads \ {t} : Same(u)
          /\ Calls(t)' = {n}
          /\ \A x : /\ Owner(t, x)' <=> Owns(n, x)
                    /\ Moving(t, x)' <=> Relocates(n, x)
                    /\ Erases(t, x)' <=> EndsRecord(n, x)
                    /\ Gives(t, x)' <=> (n.fn \in FreeFns /\ n.pc = "enter" /\ n.b = x)
                    /\ Passes(t, x)' <=> (n.fn \in FreeFns /\ n.pc = "orig" /\ n.b = x)
      BY <2>3, <2>6, OneCall DEF HooksInv
    <2>9. \A x : ~Relocates(n, x)
      BY <2>4, <2>5 DEF Relocates, ReallocFns
    <2>10. \A x : Erases(t, x) => EndsRecord(g, x) \/ EndsRecord(Top(t), x)
      BY <1>2, <2>1, Now DEF HooksInv
    <2>11. n.fn # "SfFree"
      BY <2>4, <2>5
    <2> QED
      BY <2>2, <2>3, <2>5, <2>7, <2>8, <2>9, <2>10, <2>11
  <1> QED
    BY <1>1, <1>2, Now DEF HooksInv

\* A step of a call in which no block comes to the game; one may go.
LEMMA TableStep ==
    ASSUME HooksInv, NEW t, loaded.phase = "running",
           Stacked', \A u \in Threads \ {t} : Same(u), Tables',
           UNCHANGED <<loaded, instance, wronged>>, TrustedReportIsRight',
           \A x \in Blocks : mem'[x].heap = mem[x].heap,
           \A x \in Blocks :
              \/ mem'[x].who = mem[x].who
              \/ /\ mem'[x].who \in {"free", "leaked"}
                 /\ x \in wronged \/ \A u \in Threads : ~Owner(u, x)'
                 /\ \/ mem'[x].who = "leaked" \/ x \in wronged \cup raced'
                    \/ Green => ~LiveRecord(x)',
           \A x \in Blocks :
              /\ Owner(t, x)' => Owner(t, x)
              /\ Moving(t, x)' => Moving(t, x)
              /\ Gives(t, x)' => Gives(t, x)
              /\ Erases(t, x) => Erases(t, x)' \/ ledger'[x] = {}
              /\ Green /\ x \notin wronged \cup raced /\ LiveRecord(x) /\ LiveRecord(x)' /\ Passes(t, x)'
                   => Passes(t, x),
           t \in Threads => \A f \in Calls(t)' : Fine(f),
           \A x \in Blocks :
              /\ \A r \in ledger'[x] : r.instance \in 0 .. instance.last
              /\ ring'[x] \subseteq 0 .. instance.last
              /\ x \notin wronged /\ Keeps(x) /\ instance.of[x] # 0 => instance.of[x] \notin ring'[x],
           \A x \in Blocks \ wronged :
              /\ Freed(ledger'[x]) => \/ Freed(ledger[x])
                                      \/ /\ mem[x].who # "live"
                                         /\ \A u \in Threads : ~Moving(u, x)' /\ ~Gives(u, x)'
              /\ x \notin raced' /\ LiveRecord(x)' => x \notin raced /\ LiveRecord(x)
    PROVE  HooksInv'
  <1>1. /\ Loaded' /\ (Green' <=> Green) /\ \A h : Hooked(h)' <=> Hooked(h)
        /\ \A x \in Blocks : Seen(x)' <=> Seen(x)
    BY StaysLoaded DEF HooksInv
  <1>2. ASSUME NEW u \in Threads, NEW f \in Calls(u)'
        PROVE  Fine(f)
    BY <1>2, CallsFine DEF Same
  <1>3. Owned'
    <2>1. ASSUME NEW x \in Blocks \ wronged, NEW u \in Threads, Owner(u, x)'
          PROVE  mem'[x].who = "hook" /\ (Green => Seen(x)) /\ \A v \in Threads : Owner(v, x)' => v = u
      <3>1. \A v \in Threads : Owner(v, x)' => Owner(v, x)
        BY DEF Same
      <3>2. mem'[x].who = mem[x].who
        BY <2>1
      <3> QED
        BY <2>1, <3>1, <3>2 DEF HooksInv, Owned
    <2>2. ASSUME Green, NEW u \in Threads, NEW f \in Calls(u)', f.fn \in AllocFns \cup ReallocFns
          PROVE  Hooked(f.heap)
      BY <1>2, <2>2 DEF Fine
    <2> QED
      BY <1>1, <2>1, <2>2 DEF Owned
  <1>4. Numbered'
    <2>1. \A u \in Threads : \A f \in Calls(u)' : \A r \in f.rec : r.instance \in 0 .. instance.last
      BY <1>2 DEF Fine
    <2> QED
      BY <2>1 DEF HooksInv, Numbered
  <1>5. Old'
    <2>1. ASSUME NEW x \in Blocks \ wronged, Keeps(x)'
          PROVE  Keeps(x)
      BY <2>1 DEF Same, Keeps
    <2>2. ASSUME NEW x \in Blocks \ wronged, Keeps(x), instance.of[x] # 0,
                 NEW u \in Threads, NEW f \in Calls(u)', f.fn = "SfFree", f.b = x, NEW r \in f.rec
          PROVE  r.instance # instance.of[x]
      BY <1>2, <2>2 DEF Fine
    <2> QED
      BY <2>1, <2>2 DEF Old
  <1>6. ASSUME Green
        PROVE  Marked'
    <2>1. ASSUME NEW x \in Blocks \ wronged, Freed(ledger'[x])
          PROVE  /\ ~(mem'[x].who = "live" /\ Seen(x))
                 /\ \A u \in Threads : ~Moving(u, x)' /\ ~Gives(u, x)'
      <3>1. mem'[x].who = "live" => mem[x].who = "live"
        OBVIOUS
      <3>2. CASE Freed(ledger[x])
        BY <1>6, <3>1, <3>2 DEF HooksInv, Marked, Same
      <3>3. CASE ~Freed(ledger[x])
        BY <2>1, <3>1, <3>3
      <3> QED
        BY <3>2, <3>3
    <2>2. \A x : Freed(ledger[x])' <=> Freed(ledger'[x])
      BY DEF Freed
    <2> QED
      BY <1>1, <2>1, <2>2 DEF Marked
  <1>7. ASSUME Green
        PROVE  Cleared'
    <2>1. ASSUME NEW x \in Blocks \ (wronged \cup raced'), LiveRecord(x)'
          PROVE  /\ mem'[x].who = "free" \/ Unseen(x)' => \E u \in Threads : Erases(u, x)'
                 /\ \A u \in Threads : ~Passes(u, x)'
      <3>1. x \notin raced /\ LiveRecord(x) /\ ledger'[x] # {}
        BY <2>1 DEF LiveRecord
      <3>2. /\ mem[x].who = "free" \/ Unseen(x) => \E u \in Threads : Erases(u, x)
            /\ \A u \in Threads : ~Passes(u, x)
        BY <1>7, <3>1 DEF HooksInv, Cleared
      <3>3. mem'[x].who = "free" \/ Unseen(x)' => mem[x].who = "free" \/ Unseen(x)
        BY <1>1, <1>7, <2>1 DEF Unseen
      <3> QED
        BY <1>7, <2>1, <3>1, <3>2, <3>3 DEF Same
    <2> QED
      BY <2>1 DEF Cleared
  <1> QED
    BY <1>1, <1>3, <1>4, <1>5, <1>6, <1>7 DEF HooksInv

\* A step that changes nothing but the acting thread's stack.
LEMMA StackStep ==
    ASSUME HooksInv, NEW t \in Threads, stack[t] # <<>>,
           Stacked', \A u \in Threads \ {t} : Same(u),
           UNCHANGED <<loaded, mem, ledger, instance, ring, wronged, raced>>, TrustedReportIsRight',
           \A x \in Blocks : /\ Owner(t, x)' => Owner(t, x)
                             /\ Moving(t, x)' => Moving(t, x)
                             /\ Gives(t, x)' => Gives(t, x)
                             /\ Erases(t, x) => Erases(t, x)'
                             /\ Green /\ x \notin wronged \cup raced /\ LiveRecord(x) /\ Passes(t, x)'
                                  => Passes(t, x),
           \A f \in Calls(t)' : Fine(f)
    PROVE  HooksInv'
  <1>1. Tables' /\ loaded.phase = "running"
    BY IsRunning DEF HooksInv, Tables
  <1>2. \A x \in Blocks :
              /\ \A r \in ledger[x] : r.instance \in 0 .. instance.last
              /\ ring[x] \subseteq 0 .. instance.last
              /\ x \notin wronged /\ Keeps(x) /\ instance.of[x] # 0 => instance.of[x] \notin ring[x]
    BY DEF HooksInv, Numbered, Old
  <1>3. \A x : (LiveRecord(x)' <=> LiveRecord(x))
    BY DEF LiveRecord
  <1> QED
    BY <1>1, <1>2, <1>3, TableStep

\* A step that reports nothing.
LEMMA QuietReports ==
    ASSUME HooksInv, UNCHANGED <<loaded, reports>>
    PROVE  TrustedReportIsRight'
  BY DEF HooksInv, TrustedReportIsRight

\* The frames of the steps that only move a call on.
LEMMA FrameAt ==
    ASSUME NEW f, IsFrame(f), NEW pc, pc \in Steps(f.fn)
    PROVE  /\ IsFrame([f EXCEPT !.pc = pc])
           /\ [f EXCEPT !.pc = pc].fn = f.fn /\ [f EXCEPT !.pc = pc].heap = f.heap
           /\ [f EXCEPT !.pc = pc].b = f.b /\ [f EXCEPT !.pc = pc].new = f.new
           /\ [f EXCEPT !.pc = pc].pc = pc /\ [f EXCEPT !.pc = pc].rec = f.rec
           /\ [f EXCEPT !.pc = pc].pushed = f.pushed /\ [f EXCEPT !.pc = pc].publish = f.publish
  BY DEF IsFrame

(***************************************************************************)
(* OAllocate, OReallocate                                                  *)
(***************************************************************************)
\* The original fails, and the game has what it had.
LEMMA OAllocateFails ==
    ASSUME HooksInv, NEW t \in Threads, At(t, {"Allocate", "SfAlloc"}, "orig"),
           stack' = [stack EXCEPT ![t] = <<>>],
           UNCHANGED <<loaded, mem, ledger, instance, ring, reports, wronged, raced>>
    PROVE  HooksInv'
  <1>1. /\ stack[t] # <<>> /\ Top(t).fn \in AllocFns /\ Top(t).pc = "orig"
    BY DEF At, AllocFns
  <1>2. \A x : ~Erases(t, x)
    <2>1. Len(stack[t]) = 2 => Around(Top(t), Outer(t))
      <3>1. Len(stack[t]) = 2 => Len(stack[t]) # 1
        OBVIOUS
      <3> QED
        BY <1>1, <3>1, Running DEF HooksInv
    <2>2. Len(stack[t]) = 2 => Outer(t).pc = "record"
      BY <1>1, <2>1 DEF Around, AllocFns
    <2>3. \A x : ~EndsRecord(Top(t), x) /\ (Len(stack[t]) = 2 => ~EndsRecord(Outer(t), x))
      BY <1>1, <2>2 DEF EndsRecord
    <2> QED
      BY <1>1, <2>3, Now DEF HooksInv
  <1>3. /\ Stacked' /\ \A u \in Threads \ {t} : Same(u)
        /\ Calls(t)' = {}
        /\ \A b : ~Owner(t, b)' /\ ~Moving(t, b)' /\ ~Erases(t, b)' /\ ~Gives(t, b)' /\ ~Passes(t, b)'
    BY NoCall DEF HooksInv
  <1>4. TrustedReportIsRight'
    BY QuietReports
  <1> QED
    BY <1>1, <1>2, <1>3, <1>4, StackStep

\* A Scaleform hook's original enters the memory manager's hook.
LEMMA NestsStep ==
    ASSUME HooksInv, NEW t \in Threads, stack[t] # <<>>, Len(stack[t]) = 1, NEW n, NEW fn \in Functions, NEW b,
           Nests(t, n, fn, b), IsFrame(n), Outermost(n), Around(Enter(fn, "sf", b), n),
           IF fn \in AllocFns THEN b = NoBlock ELSE b \in Blocks,
           Green /\ fn \in AllocFns \cup ReallocFns => Hooked("sf"),
           UNCHANGED <<loaded, mem, ledger, instance, ring, reports, wronged, raced>>,
           fn \in FreeFns \cup ReallocFns => Owner(t, b),
           fn \in ReallocFns => Moving(t, b),
           Green /\ fn \in FreeFns => Passes(t, b),
           \A x : ~Erases(t, x), Fine(n)
    PROVE  HooksInv'
  <1> DEFINE e == Enter(fn, "sf", b)
  <1>1. /\ IsFrame(e) /\ e.fn = fn /\ e.heap = "sf" /\ e.b = b /\ e.rec = {} /\ ~e.pushed /\ ~e.publish
        /\ e.new = NoBlock
        /\ e.pc = IF fn \in {"Deallocate", "SfFree", "Wl"} THEN "enter" ELSE "orig"
    BY EnterIs
  <1>2. stack' = [stack EXCEPT ![t] = <<e, n>>]
    <2>1. Len(stack[t]) # 2
      OBVIOUS
    <2> QED
      BY <2>1, Running DEF HooksInv
  <1>3. Around(e, n)
    OBVIOUS
  <1> HIDE DEF e
  <1>4. Named(e)
    BY <1>1 DEF Named, AllocFns, ReallocFns
  <1>5. /\ Stacked' /\ \A u \in Threads \ {t} : Same(u)
        /\ Calls(t)' = {e, n}
        /\ \A x : /\ Owner(t, x)' <=> Owns(e, x)
                  /\ Moving(t, x)' <=> Relocates(e, x)
                  /\ Erases(t, x)' <=> EndsRecord(e, x) \/ EndsRecord(n, x)
                  /\ ~Gives(t, x)'
                  /\ Passes(t, x)' <=> (e.fn \in FreeFns /\ e.pc \in {"orig", "enter"} /\ e.b = x)
    BY <1>1, <1>2, <1>3, <1>4, TwoCalls DEF HooksInv
  <1>6. \A x : /\ Owns(e, x) => x = b /\ fn \in FreeFns \cup ReallocFns
               /\ Relocates(e, x) => x = b /\ fn \in ReallocFns
               /\ e.fn \in FreeFns /\ e.b = x => x = b /\ fn \in FreeFns
    BY <1>1 DEF Owns, Relocates, FreeFns, ReallocFns, AllocFns
  <1>7. Fine(e)
    BY <1>1 DEF Fine
  <1>8. TrustedReportIsRight'
    BY QuietReports
  <1> QED
    BY <1>5, <1>6, <1>7, <1>8, StackStep

\* A call gets a block from the allocator, and returns with one.
LEMMA OAllocateTakes ==
    ASSUME HooksInv, NEW t \in Threads, At(t, {"Allocate", "SfAlloc"}, "orig"),
           NEW b \in Blocks, Takes(b, "hook", Top(t).heap),
           Becomes(t, [Top(t) EXCEPT !.b = b, !.pc = "record"]),
           UNCHANGED <<loaded, ledger, instance, ring, reports, wronged, raced>>
    PROVE  HooksInv'
  <1>1. PICK f : f = Top(t)
    OBVIOUS
  <1>2. /\ stack[t] # <<>> /\ f.fn \in AllocFns /\ f.pc = "orig" /\ IsFrame(f) /\ f \in Calls(t)
    BY <1>1, Running DEF At, AllocFns, HooksInv
  <1> DEFINE n == [f EXCEPT !.b = b, !.pc = "record"]
  <1>3. /\ IsFrame(n) /\ n.fn = f.fn /\ n.heap = f.heap /\ n.rec = f.rec /\ n.b = b /\ n.pc = "record"
    BY <1>2, StepsAre DEF IsFrame
  <1>4. Becomes(t, n)
    BY <1>1
  <1> HIDE DEF n
  <1>5. Named(n) /\ Outermost(n)
    BY <1>2, <1>3 DEF Named, Outermost, AllocFns, ReallocFns, FreeFns
  <1>6. Len(stack[t]) = 2 => Around(n, Outer(t))
    <2>1. Len(stack[t]) = 2 => Len(stack[t]) # 1
      OBVIOUS
    <2>2. Len(stack[t]) = 2 => Around(f, Outer(t))
      BY <1>1, <1>2, <2>1, Running DEF HooksInv
    <2> QED
      BY <1>2, <1>3, <2>2 DEF Around, AllocFns
  <1>7. /\ Stacked' /\ \A u \in Threads \ {t} : Same(u)
        /\ Calls(t)' \subseteq Calls(t) \cup {n}
        /\ \A x : /\ Owner(t, x)' <=> Owns(n, x)
                  /\ Moving(t, x)' <=> Relocates(n, x)
                  /\ Erases(t, x)' <=> \/ EndsRecord(n, x)
                                       \/ Len(stack[t]) = 2 /\ EndsRecord(Outer(t), x)
                  /\ Gives(t, x)' <=> /\ Len(stack[t]) = 1 /\ n.fn \in FreeFns
                                      /\ n.pc = "enter" /\ n.b = x
                  /\ Passes(t, x)' <=> /\ n.fn \in FreeFns /\ n.b = x
                                       /\ n.pc = "orig" \/ (Len(stack[t]) = 2 /\ n.pc = "enter")
    BY <1>2, <1>3, <1>4, <1>5, <1>6, GoesOn DEF HooksInv
  <1>8. \A x : /\ Owns(n, x) <=> x = b
               /\ ~Relocates(n, x) /\ n.fn \notin FreeFns
               /\ EndsRecord(Top(t), x) => EndsRecord(n, x)
    BY <1>1, <1>2, <1>3 DEF Owns, Relocates, EndsRecord, FreeFns, AllocFns, ReallocFns
  <1>9. \A x : /\ Owner(t, x)' <=> x = b
               /\ ~Moving(t, x)' /\ ~Gives(t, x)' /\ ~Passes(t, x)'
               /\ Erases(t, x) => Erases(t, x)'
    BY <1>2, <1>7, <1>8, Now DEF HooksInv
  <1>10. /\ Tables' /\ mem[b].who = "free" /\ mem'[b].who = "hook" /\ mem'[b].heap = f.heap
         /\ \A x \in Blocks \ {b} : mem'[x] = mem[x]
    BY <1>1 DEF HooksInv, Tables, Takes
  <1>11. Fine(f)
    BY <1>2, CallsFine
  <1>12. Green => Hooked(f.heap)
    BY <1>2, <1>11 DEF Fine
  <1>13. /\ Loaded' /\ (Green' <=> Green) /\ \A h : Hooked(h)' <=> Hooked(h)
         /\ \A x \in Blocks \ {b} : Seen(x)' <=> Seen(x)
    BY <1>2, <1>10, IsRunning, StaysLoaded DEF HooksInv
  <1>14. Green => Seen(b)'
    BY <1>10, <1>12, SeenThere
  <1>15. \A f2 \in Calls(t)' : \E g \in Calls(t) : f2.fn = g.fn /\ f2.heap = g.heap /\ f2.rec = g.rec
                                                   /\ (f2.fn = "SfFree" => f2.b = g.b)
    BY <1>2, <1>3, <1>7 DEF AllocFns
  <1>16. Owned'
    <2>1. ASSUME NEW x \in Blocks \ wronged, NEW u \in Threads, Owner(u, x)'
          PROVE  /\ mem'[x].who = "hook" /\ (Green => Seen(x)')
                 /\ \A v \in Threads : Owner(v, x)' => v = u
      <3>1. CASE x = b
        <4>1. \A v \in Threads : ~Owner(v, b)
          BY <1>10, <3>1, NotOwned DEF HooksInv
        <4> QED
          BY <1>7, <1>9, <1>10, <1>14, <2>1, <3>1, <4>1 DEF Same
      <3>2. CASE x # b
        BY <1>7, <1>9, <1>10, <1>13, <2>1, <3>2 DEF Same, HooksInv, Owned
      <3> QED
        BY <3>1, <3>2
    <2>2. ASSUME Green, NEW u \in Threads, NEW f2 \in Calls(u)', f2.fn \in AllocFns \cup ReallocFns
          PROVE  Hooked(f2.heap)
      BY <1>7, <1>15, <2>2 DEF Same, HooksInv, Owned
    <2> QED
      BY <1>13, <2>1, <2>2 DEF Owned
  <1>17. Numbered'
    BY <1>7, <1>15 DEF Same, HooksInv, Numbered
  <1>18. Old'
    <2>1. ASSUME NEW x \in Blocks \ wronged, Keeps(x)'
          PROVE  Keeps(x)
      BY <1>7, <1>9, <1>10, <2>1 DEF Same, Keeps
    <2> QED
      BY <1>7, <1>15, <2>1 DEF Same, HooksInv, Old
  <1>19. ASSUME Green
         PROVE  Marked'
    <2>1. ASSUME NEW x \in Blocks \ wronged, Freed(ledger[x])
          PROVE  /\ ~(mem'[x].who = "live" /\ Seen(x)')
                 /\ \A u \in Threads : ~Moving(u, x)' /\ ~Gives(u, x)'
      BY <1>7, <1>9, <1>10, <1>13, <1>19, <2>1 DEF HooksInv, Marked, Same
    <2> QED
      BY <2>1 DEF Marked
  <1>20. ASSUME Green
         PROVE  Cleared'
    <2>1. ASSUME NEW x \in Blocks \ (wronged \cup raced), LiveRecord(x)
          PROVE  /\ mem'[x].who = "free" \/ Unseen(x)' => \E u \in Threads : Erases(u, x)'
                 /\ \A u \in Threads : ~Passes(u, x)'
      <3>1. mem'[x].who = "free" \/ Unseen(x)' => mem[x].who = "free" \/ Unseen(x)
        BY <1>10, <1>13 DEF Unseen
      <3>2. /\ mem[x].who = "free" \/ Unseen(x) => \E u \in Threads : Erases(u, x)
            /\ \A u \in Threads : ~Passes(u, x)
        BY <1>20, <2>1 DEF HooksInv, Cleared
      <3> QED
        BY <1>7, <1>9, <3>1, <3>2 DEF Same
    <2>2. \A x : LiveRecord(x)' <=> LiveRecord(x)
      BY DEF LiveRecord
    <2> QED
      BY <2>1, <2>2 DEF Cleared
  <1>21. TrustedReportIsRight'
    BY QuietReports
  <1> QED
    BY <1>7, <1>10, <1>13, <1>16, <1>17, <1>18, <1>19, <1>20, <1>21 DEF HooksInv

\* OAllocate keeps the invariant.
LEMMA OAllocateStep ==
    ASSUME HooksInv, NEW t \in Threads, OAllocate(t)
    PROVE  HooksInv'
  <1>1. PICK f : f = Top(t)
    OBVIOUS
  <1>2. /\ stack[t] # <<>> /\ f.fn \in AllocFns /\ f.pc = "orig" /\ IsFrame(f) /\ f \in Calls(t)
    BY <1>1, Running DEF OAllocate, At, AllocFns, HooksInv
  <1>3. CASE \E b \in Blocks : /\ Takes(b, "hook", Top(t).heap)
                               /\ Becomes(t, [Top(t) EXCEPT !.b = b, !.pc = "record"])
    BY <1>3, OAllocateTakes DEF OAllocate
  <1>4. CASE /\ f.fn = "SfAlloc" /\ loaded.replaced /\ Installed("Allocate")
             /\ Nests(t, [f EXCEPT !.pc = "record"], "Allocate", NoBlock) /\ UNCHANGED mem
    <2> DEFINE n == [f EXCEPT !.pc = "record"]
    <2>1. /\ IsFrame(n) /\ n.fn = f.fn /\ n.heap = f.heap /\ n.b = f.b /\ n.pc = "record" /\ n.rec = f.rec
      <3>1. "record" \in Steps(f.fn)
        BY <1>2, StepsAre
      <3> QED
        BY <1>2, <3>1, FrameAt
    <2>2. f.b = NoBlock /\ Len(stack[t]) = 1
      BY <1>1, <1>2, <1>4, Running DEF Named, Around, HooksInv
    <2>3. Nests(t, n, "Allocate", NoBlock)
      BY <1>4
    <2> HIDE DEF n
    <2>4. Around(Enter("Allocate", "sf", NoBlock), n) /\ Outermost(n)
      BY <1>4, <2>1, <2>2, EnterIs DEF Around, Outermost, Functions, FreeFns
    <2>5. Fine(n)
      BY <1>2, <1>4, <2>1, CallsFine DEF Fine
    <2>6. Hooked("sf")
      BY <1>4, ReplacedHooked DEF HooksInv
    <2>7. \A x : ~Erases(t, x)
      <3>1. \A x : ~EndsRecord(Top(t), x)
        BY <1>1, <1>2 DEF EndsRecord
      <3> QED
        BY <1>2, <2>2, <3>1, Now DEF HooksInv
    <2>8. /\ "Allocate" \in Functions /\ "Allocate" \in AllocFns
          /\ "Allocate" \notin FreeFns \cup ReallocFns
      BY DEF Functions, AllocFns, FreeFns, ReallocFns
    <2> QED
      BY <1>2, <1>4, <2>1, <2>2, <2>3, <2>4, <2>5, <2>6, <2>7, <2>8, NestsStep DEF OAllocate
  <1>5. CASE stack' = [stack EXCEPT ![t] = <<>>] /\ UNCHANGED mem
    BY <1>5, OAllocateFails DEF OAllocate
  <1> QED
    BY <1>1, <1>3, <1>4, <1>5 DEF OAllocate

\* A reallocation: the old block goes and the new one comes.
LEMMA OReallocateMoves ==
    ASSUME HooksInv, NEW t \in Threads, At(t, {"Reallocate", "SfRealloc"}, "orig"),
           NEW new \in Blocks, Moves(Top(t).b, new, "hook", Top(t).heap),
           Becomes(t, [Top(t) EXCEPT !.pc = "erase", !.new = new]),
           UNCHANGED <<loaded, ledger, instance, ring, reports, wronged, raced>>
    PROVE  HooksInv'
  <1>1. PICK f : f = Top(t)
    OBVIOUS
  <1>2. /\ stack[t] # <<>> /\ f.fn \in ReallocFns /\ f.pc = "orig" /\ IsFrame(f) /\ Named(f)
        /\ f \in Calls(t) /\ f.b \in Blocks
    BY <1>1, Running DEF At, AllocFns, ReallocFns, HooksInv, Named
  <1> DEFINE n == [f EXCEPT !.pc = "erase", !.new = new]
             b == f.b
  <1>3. /\ IsFrame(n) /\ n.fn = f.fn /\ n.heap = f.heap /\ n.rec = f.rec /\ n.b = b /\ n.new = new
        /\ n.pc = "erase"
    BY <1>2, StepsAre DEF IsFrame
  <1>4. Becomes(t, n) /\ b \in Blocks
    BY <1>1, <1>2
  <1>5. Moves(b, new, "hook", f.heap)
    BY <1>1
  <1>6. f.b = b
    OBVIOUS
  <1> HIDE DEF n, b
  <1>7. Named(n) /\ Outermost(n)
    BY <1>2, <1>3, <1>4 DEF Named, Outermost, AllocFns, ReallocFns, FreeFns
  <1>8. Len(stack[t]) = 2 => Around(n, Outer(t))
    <2>1. Len(stack[t]) = 2 => Len(stack[t]) # 1
      OBVIOUS
    <2>2. Len(stack[t]) = 2 => Around(f, Outer(t))
      BY <1>1, <1>2, <2>1, Running DEF HooksInv
    <2> QED
      BY <1>2, <1>3, <1>6, <2>2 DEF Around, ReallocFns
  <1>9. /\ Stacked' /\ \A u \in Threads \ {t} : Same(u)
        /\ Calls(t)' \subseteq Calls(t) \cup {n}
        /\ \A x : /\ Owner(t, x)' <=> Owns(n, x)
                  /\ Moving(t, x)' <=> Relocates(n, x)
                  /\ Erases(t, x)' <=> \/ EndsRecord(n, x)
                                       \/ Len(stack[t]) = 2 /\ EndsRecord(Outer(t), x)
                  /\ Gives(t, x)' <=> /\ Len(stack[t]) = 1 /\ n.fn \in FreeFns
                                      /\ n.pc = "enter" /\ n.b = x
                  /\ Passes(t, x)' <=> /\ n.fn \in FreeFns /\ n.b = x
                                       /\ n.pc = "orig" \/ (Len(stack[t]) = 2 /\ n.pc = "enter")
    BY <1>2, <1>3, <1>4, <1>7, <1>8, GoesOn DEF HooksInv
  <1>10. \A x : /\ Owns(n, x) <=> x = new
                /\ ~Relocates(n, x) /\ n.fn \notin FreeFns
                /\ EndsRecord(n, x) <=> x = b
                /\ ~EndsRecord(f, x) /\ Owns(f, x) <=> x = b
    BY <1>2, <1>3, <1>6 DEF Owns, Relocates, EndsRecord, FreeFns, AllocFns, ReallocFns
  <1>11. \A x : /\ Owns(n, x) <=> x = new
                /\ ~EndsRecord(f, x)
    BY <1>2, <1>3, <1>6 DEF Owns, EndsRecord, FreeFns, AllocFns, ReallocFns
  <1>12. Owns(f, b)
    BY <1>2, <1>6 DEF Owns
  <1>13. Owner(t, b) /\ Erases(t, b)'
    BY <1>1, <1>2, <1>9, <1>10, <1>12, Now DEF HooksInv
  <1>14. \A x : /\ Owner(t, x)' <=> x = new
                /\ ~Moving(t, x)' /\ ~Gives(t, x)' /\ ~Passes(t, x)'
                /\ Erases(t, x) => Erases(t, x)'
    BY <1>1, <1>2, <1>9, <1>10, <1>11, Now DEF HooksInv
  <1>15. /\ DOMAIN mem' = Blocks /\ \A x \in Blocks : DOMAIN mem'[x] = {"who", "heap"}
         /\ mem'[new].who = "hook" /\ mem'[new].heap = f.heap
         /\ new # b => mem[new].who = "free" /\ mem'[b].who = "free" /\ mem'[b].heap = mem[b].heap
         /\ \A x \in Blocks \ {b, new} : mem'[x] = mem[x]
    BY <1>4, <1>5, MovesIs DEF HooksInv
  <1>16. Tables'
    BY <1>15 DEF HooksInv, Tables
  <1>17. Green => Hooked(f.heap)
    BY <1>2, CallsFine DEF Fine
  <1>18. /\ Loaded' /\ (Green' <=> Green) /\ \A h : Hooked(h)' <=> Hooked(h)
         /\ \A x \in Blocks \ {b, new} : Seen(x)' <=> Seen(x)
    BY <1>2, <1>15, IsRunning, StaysLoaded DEF HooksInv
  <1>19. Green => Seen(new)'
    BY <1>15, <1>17, SeenThere
  <1>20. \A f2 \in Calls(t)' : \E g \in Calls(t) : f2.fn = g.fn /\ f2.heap = g.heap /\ f2.rec = g.rec
                                                   /\ f2.b = g.b
    BY <1>2, <1>3, <1>6, <1>9
  <1>21. Owned'
    <2>1. ASSUME NEW x \in Blocks \ wronged, NEW u \in Threads, Owner(u, x)'
          PROVE  /\ mem'[x].who = "hook" /\ (Green => Seen(x)')
                 /\ \A v \in Threads : Owner(v, x)' => v = u
      <3>1. CASE x = new
        <4>1. \A v \in Threads \ {t} : ~Owner(v, new)
          <5>1. CASE new = b
            BY <1>13, <3>1, <5>1 DEF HooksInv, Owned
          <5>2. CASE new # b
            BY <1>15, <3>1, <5>2, NotOwned DEF HooksInv
          <5> QED
            BY <5>1, <5>2
        <4> QED
          BY <1>9, <1>14, <1>15, <1>19, <2>1, <3>1, <4>1 DEF Same
      <3>2. CASE x # new
        <4>1. u # t /\ Owner(u, x) /\ x # b
          BY <1>9, <1>13, <1>14, <2>1, <3>2 DEF Same, HooksInv, Owned
        <4> QED
          BY <1>9, <1>14, <1>15, <1>18, <2>1, <3>2, <4>1 DEF Same, HooksInv, Owned
      <3> QED
        BY <3>1, <3>2
    <2>2. ASSUME Green, NEW u \in Threads, NEW f2 \in Calls(u)', f2.fn \in AllocFns \cup ReallocFns
          PROVE  Hooked(f2.heap)
      BY <1>9, <1>20, <2>2 DEF Same, HooksInv, Owned
    <2> QED
      BY <1>18, <2>1, <2>2 DEF Owned
  <1>22. Numbered'
    BY <1>9, <1>20 DEF Same, HooksInv, Numbered
  <1>23. Old'
    <2>1. ASSUME NEW x \in Blocks \ wronged, Keeps(x)'
          PROVE  Keeps(x)
      <3>1. mem'[x].who = "live" => mem[x].who = "live"
        BY <1>15
      <3> QED
        BY <1>9, <1>14, <2>1, <3>1 DEF Same, Keeps
    <2> QED
      BY <1>9, <1>20, <2>1 DEF Same, HooksInv, Old
  <1>24. ASSUME Green
         PROVE  Marked'
    <2>1. ASSUME NEW x \in Blocks \ wronged, Freed(ledger[x])
          PROVE  /\ ~(mem'[x].who = "live" /\ Seen(x)')
                 /\ \A u \in Threads : ~Moving(u, x)' /\ ~Gives(u, x)'
      <3>1. ~(mem[x].who = "live" /\ Seen(x)) /\ \A u \in Threads : ~Moving(u, x) /\ ~Gives(u, x)
        BY <1>24, <2>1 DEF HooksInv, Marked
      <3>2. ~(mem'[x].who = "live" /\ Seen(x)')
        BY <1>15, <1>18, <3>1
      <3> QED
        BY <1>9, <1>14, <3>1, <3>2 DEF Same
    <2> QED
      BY <2>1 DEF Marked
  <1>25. ASSUME Green
         PROVE  Cleared'
    <2>1. ASSUME NEW x \in Blocks \ (wronged \cup raced), LiveRecord(x)
          PROVE  /\ mem'[x].who = "free" \/ Unseen(x)' => \E u \in Threads : Erases(u, x)'
                 /\ \A u \in Threads : ~Passes(u, x)'
      <3>1. /\ mem[x].who = "free" \/ Unseen(x) => \E u \in Threads : Erases(u, x)
            /\ \A u \in Threads : ~Passes(u, x)
        BY <1>25, <2>1 DEF HooksInv, Cleared
      <3>2. x # b /\ (mem'[x].who = "free" \/ Unseen(x)') => mem[x].who = "free" \/ Unseen(x)
        BY <1>15, <1>18 DEF Unseen
      <3> QED
        BY <1>9, <1>13, <1>14, <3>1, <3>2 DEF Same
    <2>2. \A x : LiveRecord(x)' <=> LiveRecord(x)
      BY DEF LiveRecord
    <2> QED
      BY <2>1, <2>2 DEF Cleared
  <1>26. TrustedReportIsRight'
    BY QuietReports
  <1> QED
    BY <1>9, <1>16, <1>18, <1>21, <1>22, <1>23, <1>24, <1>25, <1>26 DEF HooksInv

\* The original reallocation fails, and the game keeps its block.
LEMMA OReallocateFails ==
    ASSUME HooksInv, NEW t \in Threads, At(t, {"Reallocate", "SfRealloc"}, "orig"),
           mem' = [mem EXCEPT ![Top(t).b].who = "live"], stack' = [stack EXCEPT ![t] = <<>>],
           UNCHANGED <<loaded, ledger, instance, ring, reports, wronged, raced>>
    PROVE  HooksInv'
  <1>1. PICK f : f = Top(t)
    OBVIOUS
  <1>2. PICK b : b = f.b
    OBVIOUS
  <1>3. /\ stack[t] # <<>> /\ f.fn \in ReallocFns /\ f.pc = "orig" /\ b \in Blocks
    BY <1>1, <1>2, Running DEF At, AllocFns, ReallocFns, HooksInv, Named
  <1>4. Owner(t, b) /\ Moving(t, b)
    BY <1>1, <1>2, <1>3 DEF Owner, Owns, Moving, Relocates
  <1>5. \A x : Erases(t, x) => x = b
    <2>1. Len(stack[t]) = 2 => Len(stack[t]) # 1
      OBVIOUS
    <2>2. Len(stack[t]) = 2 => Around(f, Outer(t))
      BY <1>1, <1>3, <2>1, Running DEF HooksInv
    <2>3. Len(stack[t]) = 2 => Outer(t).b = b
      BY <1>2, <1>3, <2>2 DEF Around, ReallocFns
    <2>4. \A x : ~EndsRecord(f, x) /\ (Len(stack[t]) = 2 /\ EndsRecord(Outer(t), x) => x = b)
      BY <1>3, <2>3 DEF EndsRecord
    <2> QED
      BY <1>1, <1>3, <2>4, Now DEF HooksInv
  <1>6. /\ Stacked' /\ \A u \in Threads \ {t} : Same(u)
        /\ Calls(t)' = {}
        /\ \A x : ~Owner(t, x)' /\ ~Moving(t, x)' /\ ~Erases(t, x)' /\ ~Gives(t, x)' /\ ~Passes(t, x)'
    BY NoCall DEF HooksInv
  <1>7. /\ Tables' /\ mem'[b].who = "live" /\ \A x \in Blocks : mem'[x].heap = mem[x].heap
        /\ \A x \in Blocks \ {b} : mem'[x] = mem[x]
    BY <1>1, <1>2, <1>3 DEF HooksInv, Tables
  <1>8. /\ Loaded' /\ (Green' <=> Green) /\ \A h : Hooked(h)' <=> Hooked(h)
        /\ \A x \in Blocks : Seen(x)' <=> Seen(x)
    BY <1>3, <1>7, IsRunning, StaysLoaded DEF HooksInv
  <1>9. Owned'
    <2>1. ASSUME NEW x \in Blocks \ wronged, NEW u \in Threads, Owner(u, x)'
          PROVE  /\ mem'[x].who = "hook" /\ (Green => Seen(x)')
                 /\ \A v \in Threads : Owner(v, x)' => v = u
      <3>1. u # t /\ Owner(u, x) /\ x # b
        BY <1>4, <1>6, <2>1 DEF Same, HooksInv, Owned
      <3> QED
        BY <1>6, <1>7, <1>8, <2>1, <3>1 DEF Same, HooksInv, Owned
    <2>2. ASSUME Green, NEW u \in Threads, NEW f2 \in Calls(u)', f2.fn \in AllocFns \cup ReallocFns
          PROVE  Hooked(f2.heap)
      BY <1>6, <2>2 DEF Same, HooksInv, Owned
    <2> QED
      BY <1>8, <2>1, <2>2 DEF Owned
  <1>10. Numbered'
    BY <1>6 DEF Same, HooksInv, Numbered
  <1>11. Old'
    <2>1. ASSUME NEW x \in Blocks \ wronged, Keeps(x)'
          PROVE  Keeps(x)
      BY <1>4, <1>6, <1>7, <2>1 DEF Same, Keeps
    <2> QED
      BY <1>6, <2>1 DEF Same, HooksInv, Old
  <1>12. ASSUME Green
         PROVE  Marked'
    <2>1. ASSUME NEW x \in Blocks \ wronged, Freed(ledger[x])
          PROVE  /\ ~(mem'[x].who = "live" /\ Seen(x)')
                 /\ \A u \in Threads : ~Moving(u, x)' /\ ~Gives(u, x)'
      <3>1. ~(mem[x].who = "live" /\ Seen(x)) /\ \A u \in Threads : ~Moving(u, x) /\ ~Gives(u, x)
        BY <1>12, <2>1 DEF HooksInv, Marked
      <3>2. x # b
        BY <1>4, <3>1
      <3> QED
        BY <1>6, <1>7, <1>8, <3>1, <3>2 DEF Same
    <2> QED
      BY <2>1 DEF Marked
  <1>13. ASSUME Green
         PROVE  Cleared'
    <2>1. ASSUME NEW x \in Blocks \ (wronged \cup raced), LiveRecord(x)
          PROVE  /\ mem'[x].who = "free" \/ Unseen(x)' => \E u \in Threads : Erases(u, x)'
                 /\ \A u \in Threads : ~Passes(u, x)'
      <3>1. /\ mem[x].who = "free" \/ Unseen(x) => \E u \in Threads : Erases(u, x)
            /\ \A u \in Threads : ~Passes(u, x)
        BY <1>13, <2>1 DEF HooksInv, Cleared
      <3>2. CASE x = b
        <4>1. Seen(b)
          BY <1>4, <1>13, <2>1, <3>2 DEF HooksInv, Owned
        <4>2. ~(mem'[b].who = "free" \/ Unseen(b)')
          BY <1>3, <1>7, <1>8, <4>1 DEF Unseen
        <4> QED
          BY <1>6, <3>1, <3>2, <4>2 DEF Same
      <3>3. CASE x # b
        <4>1. mem'[x].who = "free" \/ Unseen(x)' => mem[x].who = "free" \/ Unseen(x)
          BY <1>7, <1>8, <3>3 DEF Unseen
        <4> QED
          BY <1>5, <1>6, <3>1, <3>3, <4>1 DEF Same
      <3> QED
        BY <3>2, <3>3
    <2>2. \A x : LiveRecord(x)' <=> LiveRecord(x)
      BY DEF LiveRecord
    <2> QED
      BY <2>1, <2>2 DEF Cleared
  <1>14. TrustedReportIsRight'
    BY QuietReports
  <1> QED
    BY <1>6, <1>7, <1>8, <1>9, <1>10, <1>11, <1>12, <1>13, <1>14 DEF HooksInv

\* OReallocate keeps the invariant.
LEMMA OReallocateStep ==
    ASSUME HooksInv, NEW t \in Threads, OReallocate(t)
    PROVE  HooksInv'
  <1>1. PICK f : f = Top(t)
    OBVIOUS
  <1>2. /\ stack[t] # <<>> /\ f.fn \in ReallocFns /\ f.pc = "orig" /\ IsFrame(f) /\ f \in Calls(t)
        /\ f.b \in Blocks /\ f.new = NoBlock
    BY <1>1, Running DEF OReallocate, At, AllocFns, ReallocFns, HooksInv, Named
  <1> DEFINE after == [f EXCEPT !.pc = "erase"]
  <1>3. CASE \E new \in Blocks : /\ Moves(f.b, new, "hook", f.heap)
                                 /\ Becomes(t, [after EXCEPT !.new = new])
    <2>1. \A new : [after EXCEPT !.new = new] = [f EXCEPT !.pc = "erase", !.new = new]
      BY <1>2 DEF IsFrame
    <2> QED
      BY <1>1, <1>3, <2>1, OReallocateMoves DEF OReallocate
  <1>4. CASE /\ f.fn = "SfRealloc" /\ loaded.replaced /\ Installed("Reallocate")
             /\ Nests(t, after, "Reallocate", f.b) /\ UNCHANGED mem
    <2> DEFINE n == after
    <2>1. /\ IsFrame(n) /\ n.fn = f.fn /\ n.heap = f.heap /\ n.b = f.b /\ n.pc = "erase" /\ n.rec = f.rec
          /\ n.new = f.new
      <3>1. "erase" \in Steps(f.fn)
        BY <1>2, StepsAre
      <3> QED
        BY <1>2, <3>1, FrameAt
    <2>2. Len(stack[t]) = 1
      BY <1>1, <1>2, <1>4, Running DEF Around, HooksInv
    <2>3. PICK b : b = f.b
      OBVIOUS
    <2>4. Nests(t, n, "Reallocate", b)
      BY <1>4, <2>3
    <2> HIDE DEF n
    <2>5. Around(Enter("Reallocate", "sf", b), n) /\ Outermost(n)
      BY <1>2, <1>4, <2>1, <2>3, EnterIs DEF Around, Outermost, Functions, FreeFns
    <2>6. Fine(n)
      BY <1>2, <1>4, <2>1, CallsFine DEF Fine
    <2>7. Green => Hooked("sf")
      BY <1>4, ReplacedHooked DEF HooksInv
    <2>8. \A x : ~Erases(t, x)
      <3>1. \A x : ~EndsRecord(Top(t), x)
        BY <1>1, <1>2 DEF EndsRecord
      <3>2. Len(stack[t]) # 2
        BY <2>2
      <3> QED
        BY <1>2, <2>2, <3>1, <3>2, Now DEF HooksInv
    <2>9. /\ "Reallocate" \in Functions /\ "Reallocate" \in ReallocFns
          /\ "Reallocate" \notin FreeFns \cup AllocFns
      BY DEF Functions, AllocFns, FreeFns, ReallocFns
    <2>10. Owner(t, b) /\ Moving(t, b)
      BY <1>1, <1>2, <2>3 DEF Owner, Owns, Moving, Relocates
    <2> QED
      BY <1>2, <1>4, <2>1, <2>2, <2>3, <2>4, <2>5, <2>6, <2>7, <2>8, <2>9, <2>10, NestsStep DEF OReallocate
  <1>5. CASE mem' = [mem EXCEPT ![f.b].who = "live"] /\ stack' = [stack EXCEPT ![t] = <<>>]
    BY <1>1, <1>5, OReallocateFails DEF OReallocate
  <1> QED
    BY <1>1, <1>3, <1>4, <1>5 DEF OReallocate

(***************************************************************************)
(* RecordAlloc, RecordRealloc, EraseOld                                    *)
(***************************************************************************)
\* A block is recorded, and given back.
LEMMA RecordsStep ==
    ASSUME HooksInv, NEW t \in Threads, stack[t] # <<>>, Top(t).fn \in AllocFns \cup ReallocFns,
           Top(t).pc = "record", NEW b \in Blocks, Owns(Top(t), b), NEW n \in {0, instance.last + 1},
           instance' = [last |-> IF n # 0 THEN n ELSE instance.last, of |-> [instance.of EXCEPT ![b] = n]],
           Inserts(b, [freed |-> FALSE, instance |-> n]), raced' = raced \ {b}, GivesBack(t, b),
           UNCHANGED <<loaded, ring, reports, wronged>>
    PROVE  HooksInv'
  <1>1. /\ Stacked' /\ \A u \in Threads \ {t} : Same(u)
        /\ \A x : /\ Owner(t, x)' => x = b /\ UNCHANGED mem
                  /\ ~Moving(t, x)' /\ ~Gives(t, x)' /\ ~Passes(t, x)'
                  /\ Erases(t, x) => Erases(t, x)' \/ EndsRecord(Top(t), x)
        /\ \A f \in Calls(t)' : \E g \in Calls(t) :
              f.fn = g.fn /\ f.heap = g.heap /\ f.rec = g.rec /\ f.fn # "SfFree"
        /\ UNCHANGED mem \/ mem' = [mem EXCEPT ![b].who = "live"]
    BY GivesItBack
  <1>2. Owner(t, b) /\ \A x : Erases(t, x) => Erases(t, x)'
    BY <1>1 DEF Owner, EndsRecord
  <1>3. /\ DOMAIN instance' = {"last", "of"} /\ DOMAIN instance'.of = Blocks
        /\ instance.last \in Nat /\ instance'.last \in Nat /\ instance'.last >= instance.last
        /\ instance'.of[b] = n /\ \A x \in Blocks \ {b} : instance'.of[x] = instance.of[x]
        /\ n \in 0 .. instance'.last /\ (n = 0 \/ n > instance.last)
    BY DEF HooksInv, Tables, Numbered
  <1>4. /\ DOMAIN ledger' = Blocks /\ \A x \in Blocks \ {b} : ledger'[x] = ledger[x]
        /\ \A r \in ledger'[b] : ~r.freed /\ r.instance = n
    <2>1. CASE ledger' = [ledger EXCEPT ![b] = {[freed |-> FALSE, instance |-> n]}]
      BY <2>1 DEF HooksInv, Tables
    <2>2. CASE ledger[b] = {} /\ UNCHANGED ledger
      BY <2>2 DEF HooksInv, Tables
    <2> QED
      BY <2>1, <2>2 DEF Inserts
  <1>5. /\ DOMAIN mem' = Blocks
        /\ \A x \in Blocks : DOMAIN mem'[x] = {"who", "heap"} /\ mem'[x].heap = mem[x].heap
        /\ \A x \in Blocks \ {b} : mem'[x] = mem[x]
        /\ mem'[b] = mem[b] \/ mem'[b].who = "live"
    <2>1. CASE UNCHANGED mem
      BY <2>1 DEF HooksInv, Tables
    <2>2. CASE mem' = [mem EXCEPT ![b].who = "live"]
      BY <2>2 DEF HooksInv, Tables
    <2> QED
      BY <1>1, <2>1, <2>2
  <1>6. Tables'
    BY <1>3, <1>4, <1>5 DEF HooksInv, Tables
  <1>7. /\ Loaded' /\ (Green' <=> Green) /\ \A h : Hooked(h)' <=> Hooked(h)
        /\ \A x \in Blocks : Seen(x)' <=> Seen(x)
    BY <1>5, IsRunning, StaysLoaded DEF HooksInv
  <1>8. Owned'
    <2>1. ASSUME NEW x \in Blocks \ wronged, NEW u \in Threads, Owner(u, x)'
          PROVE  /\ mem'[x].who = "hook" /\ (Green => Seen(x)')
                 /\ \A v \in Threads : Owner(v, x)' => v = u
      <3>1. CASE x = b
        <4>1. \A v \in Threads \ {t} : ~Owner(v, b)
          BY <1>2, <3>1 DEF HooksInv, Owned
        <4>2. u = t
          BY <1>1, <2>1, <3>1, <4>1 DEF Same
        <4>3. mem'[b] = mem[b]
          BY <1>1, <2>1, <4>2
        <4> QED
          BY <1>1, <1>2, <1>7, <3>1, <4>1, <4>2, <4>3 DEF Same, HooksInv, Owned
      <3>2. CASE x # b
        BY <1>1, <1>5, <1>7, <2>1, <3>2 DEF Same, HooksInv, Owned
      <3> QED
        BY <3>1, <3>2
    <2>2. ASSUME Green, NEW u \in Threads, NEW f \in Calls(u)', f.fn \in AllocFns \cup ReallocFns
          PROVE  Hooked(f.heap)
      BY <1>1, <2>2 DEF Same, HooksInv, Owned
    <2> QED
      BY <1>7, <2>1, <2>2 DEF Owned
  <1>9. Numbered'
    <2>1. \A x \in Blocks : instance'.of[x] \in 0 .. instance'.last
      BY <1>3 DEF HooksInv, Numbered
    <2>2. \A x \in Blocks : ring[x] \subseteq 0 .. instance'.last
      BY <1>3 DEF HooksInv, Numbered
    <2>3. \A x \in Blocks : \A r \in ledger'[x] : r.instance \in 0 .. instance'.last
      BY <1>3, <1>4 DEF HooksInv, Numbered
    <2>4. ASSUME NEW u \in Threads, NEW f \in Calls(u)', NEW r \in f.rec
          PROVE  r.instance \in 0 .. instance'.last
      <3>1. r.instance \in 0 .. instance.last
        BY <1>1, <2>4 DEF Same, HooksInv, Numbered
      <3> QED
        BY <1>3, <3>1
    <2> QED
      BY <1>3, <2>1, <2>2, <2>3, <2>4 DEF Numbered
  <1>10. Old'
    <2>1. ASSUME NEW x \in Blocks \ wronged, Keeps(x)', instance'.of[x] # 0
          PROVE  /\ instance'.of[x] \notin ring[x]
                 /\ \A u \in Threads : \A f \in Calls(u)' : f.fn = "SfFree" /\ f.b = x =>
                      \A r \in f.rec : r.instance # instance'.of[x]
      <3>1. CASE x = b
        <4>1. n > instance.last
          BY <1>3, <2>1, <3>1
        <4>2. n \notin ring[b]
          BY <1>3, <4>1 DEF HooksInv, Numbered
        <4>3. ASSUME NEW u \in Threads, NEW f \in Calls(u)', NEW r \in f.rec
              PROVE  r.instance # n
          <5>1. r.instance \in 0 .. instance.last
            BY <1>1, <4>3 DEF Same, HooksInv, Numbered
          <5> QED
            BY <1>3, <4>1, <5>1
        <4> QED
          BY <1>3, <3>1, <4>2, <4>3
      <3>2. CASE x # b
        <4>1. Keeps(x) /\ instance'.of[x] = instance.of[x]
          BY <1>1, <1>3, <1>5, <2>1, <3>2 DEF Same, Keeps
        <4>2. instance.of[x] \notin ring[x]
          BY <2>1, <4>1 DEF HooksInv, Old
        <4>3. ASSUME NEW u \in Threads, NEW f \in Calls(u)', f.fn = "SfFree", f.b = x, NEW r \in f.rec
              PROVE  r.instance # instance.of[x]
          BY <1>1, <2>1, <4>1, <4>3 DEF Same, HooksInv, Old
        <4> QED
          BY <4>1, <4>2, <4>3
      <3> QED
        BY <3>1, <3>2
    <2> QED
      BY <2>1 DEF Old
  <1>11. ~Freed(ledger'[b])
    BY <1>4 DEF Freed
  <1>12. ASSUME Green
         PROVE  Marked'
    <2>1. ASSUME NEW x \in Blocks \ wronged, Freed(ledger'[x])
          PROVE  /\ ~(mem'[x].who = "live" /\ Seen(x)')
                 /\ \A u \in Threads : ~Moving(u, x)' /\ ~Gives(u, x)'
      <3>1. x # b /\ Freed(ledger[x])
        BY <1>4, <1>11, <2>1
      <3>2. ~(mem[x].who = "live" /\ Seen(x)) /\ \A u \in Threads : ~Moving(u, x) /\ ~Gives(u, x)
        BY <1>12, <3>1 DEF HooksInv, Marked
      <3> QED
        BY <1>1, <1>5, <1>7, <3>1, <3>2 DEF Same
    <2>2. \A x : Freed(ledger[x])' <=> Freed(ledger'[x])
      BY DEF Freed
    <2> QED
      BY <2>1, <2>2 DEF Marked
  <1>13. ASSUME Green
         PROVE  Cleared'
    <2>1. ASSUME NEW x \in Blocks \ (wronged \cup raced'), LiveRecord(x)'
          PROVE  /\ mem'[x].who = "free" \/ Unseen(x)' => \E u \in Threads : Erases(u, x)'
                 /\ \A u \in Threads : ~Passes(u, x)'
      <3>1. CASE x = b
        <4>1. mem[b].who = "hook" /\ Seen(b) /\ \A v \in Threads \ {t} : ~Owner(v, b)
          BY <1>2, <1>13, <3>1 DEF HooksInv, Owned
        <4>2. ~(mem'[b].who = "free" \/ Unseen(b)')
          BY <1>5, <1>7, <4>1 DEF Unseen
        <4>3. \A u \in Threads \ {t} : ~Passes(u, b)
          BY <4>1 DEF Passes, Owner, Owns
        <4> QED
          BY <1>1, <3>1, <4>2, <4>3 DEF Same
      <3>2. CASE x # b
        <4>1. LiveRecord(x) /\ x \notin raced
          BY <1>4, <2>1, <3>2 DEF LiveRecord
        <4>2. /\ mem[x].who = "free" \/ Unseen(x) => \E u \in Threads : Erases(u, x)
              /\ \A u \in Threads : ~Passes(u, x)
          BY <1>13, <4>1 DEF HooksInv, Cleared
        <4>3. mem'[x].who = "free" \/ Unseen(x)' => mem[x].who = "free" \/ Unseen(x)
          BY <1>5, <1>7, <3>2 DEF Unseen
        <4> QED
          BY <1>1, <1>2, <4>2, <4>3 DEF Same
      <3> QED
        BY <3>1, <3>2
    <2> QED
      BY <2>1 DEF Cleared
  <1>14. TrustedReportIsRight'
    BY QuietReports
  <1> QED
    BY <1>1, <1>6, <1>7, <1>8, <1>9, <1>10, <1>12, <1>13, <1>14 DEF HooksInv

\* RecordAlloc and RecordRealloc keep the invariant.
LEMMA RecordAllocStep ==
    ASSUME HooksInv, NEW t \in Threads, RecordAlloc(t) \/ RecordRealloc(t)
    PROVE  HooksInv'
  <1>1. CASE RecordAlloc(t)
    <2>1. PICK b : b = Top(t).b
      OBVIOUS
    <2>2. PICK n : n = IF Top(t).fn = "SfAlloc" THEN instance.last + 1 ELSE 0
      OBVIOUS
    <2>3. /\ stack[t] # <<>> /\ Top(t).fn \in AllocFns /\ Top(t).pc = "record"
      BY <1>1 DEF RecordAlloc, At, AllocFns
    <2>4. b \in Blocks /\ Owns(Top(t), b)
      BY <2>1, <2>3, Running DEF HooksInv, Named, Owns
    <2>5. /\ instance' = [last |-> IF n # 0 THEN n ELSE instance.last, of |-> [instance.of EXCEPT ![b] = n]]
          /\ Inserts(b, [freed |-> FALSE, instance |-> n])
          /\ raced' = raced \ {b} /\ GivesBack(t, b)
          /\ UNCHANGED <<loaded, ring, reports, wronged>>
      BY <1>1, <2>1, <2>2 DEF RecordAlloc
    <2> QED
      BY <2>2, <2>3, <2>4, <2>5, RecordsStep
  <1>2. CASE RecordRealloc(t)
    <2>1. PICK b : b = Top(t).new
      OBVIOUS
    <2>2. PICK n : n = IF Top(t).fn = "SfRealloc" THEN instance.last + 1 ELSE 0
      OBVIOUS
    <2>3. /\ stack[t] # <<>> /\ Top(t).fn \in ReallocFns /\ Top(t).pc = "record"
      BY <1>2 DEF RecordRealloc, At, ReallocFns
    <2>4. b \in Blocks /\ Owns(Top(t), b)
      BY <2>1, <2>3, Running DEF HooksInv, Named, Owns
    <2>5. /\ instance' = [last |-> IF n # 0 THEN n ELSE instance.last, of |-> [instance.of EXCEPT ![b] = n]]
          /\ Inserts(b, [freed |-> FALSE, instance |-> n])
          /\ raced' = raced \ {b} /\ GivesBack(t, b)
          /\ UNCHANGED <<loaded, ring, reports, wronged>>
      BY <1>2, <2>1, <2>2 DEF RecordRealloc
    <2> QED
      BY <2>2, <2>3, <2>4, <2>5, RecordsStep
  <1> QED
    BY <1>1, <1>2

\* The old address loses its record.
LEMMA EraseOldStep ==
    ASSUME HooksInv, NEW t \in Threads, EraseOld(t)
    PROVE  HooksInv'
  <1>1. PICK f : f = Top(t)
    OBVIOUS
  <1>2. /\ stack[t] # <<>> /\ f.fn \in ReallocFns /\ f.pc = "erase" /\ IsFrame(f) /\ Named(f)
        /\ f \in Calls(t) /\ f.b \in Blocks /\ f.new \in Blocks
    BY <1>1, Running DEF EraseOld, At, AllocFns, ReallocFns, HooksInv, Named
  <1> DEFINE n == [f EXCEPT !.pc = "record"]
  <1>3. /\ IsFrame(n) /\ n.fn = f.fn /\ n.heap = f.heap /\ n.rec = f.rec /\ n.b = f.b /\ n.new = f.new
        /\ n.pc = "record"
    <2>1. "record" \in Steps(f.fn)
      BY <1>2, StepsAre
    <2> QED
      BY <1>2, <2>1, FrameAt
  <1>4. Becomes(t, n)
    BY <1>1 DEF EraseOld, Goto
  <1> HIDE DEF n
  <1>5. Named(n) /\ Outermost(n)
    BY <1>2, <1>3 DEF Named, Outermost, AllocFns, ReallocFns, FreeFns
  <1>6. Len(stack[t]) = 2 => Around(n, Outer(t))
    <2>1. Len(stack[t]) = 2 => Len(stack[t]) # 1
      OBVIOUS
    <2>2. Len(stack[t]) = 2 => Around(f, Outer(t))
      BY <1>1, <1>2, <2>1, Running DEF HooksInv
    <2> QED
      BY <1>2, <1>3, <2>2 DEF Around, ReallocFns
  <1>7. /\ Stacked' /\ \A u \in Threads \ {t} : Same(u)
        /\ Calls(t)' \subseteq Calls(t) \cup {n}
        /\ \A x : /\ Owner(t, x)' <=> Owns(n, x)
                  /\ Moving(t, x)' <=> Relocates(n, x)
                  /\ Erases(t, x)' <=> \/ EndsRecord(n, x)
                                       \/ Len(stack[t]) = 2 /\ EndsRecord(Outer(t), x)
                  /\ Gives(t, x)' <=> /\ Len(stack[t]) = 1 /\ n.fn \in FreeFns
                                      /\ n.pc = "enter" /\ n.b = x
                  /\ Passes(t, x)' <=> /\ n.fn \in FreeFns /\ n.b = x
                                       /\ n.pc = "orig" \/ (Len(stack[t]) = 2 /\ n.pc = "enter")
    BY <1>2, <1>3, <1>4, <1>5, <1>6, GoesOn DEF HooksInv
  <1>8. \A x : /\ Owns(n, x) => Owns(f, x)
               /\ ~Relocates(n, x) /\ n.fn \notin FreeFns
               /\ EndsRecord(f, x) => x = f.b
    BY <1>2, <1>3 DEF Owns, Relocates, EndsRecord, FreeFns, AllocFns, ReallocFns
  <1>9. \A x : /\ Owner(t, x)' => Owner(t, x)
               /\ ~Moving(t, x)' /\ ~Gives(t, x)' /\ ~Passes(t, x)'
               /\ Erases(t, x) => Erases(t, x)' \/ x = f.b
    BY <1>1, <1>2, <1>7, <1>8, Now DEF HooksInv
  <1>10. Fine(n)
    BY <1>2, <1>3, CallsFine DEF Fine, ReallocFns
  <1>11. \A g \in Calls(t)' : Fine(g)
    BY <1>7, <1>10, CallsFine
  <1>12. /\ Tables' /\ ledger'[f.b] = {} /\ \A x \in Blocks \ {f.b} : ledger'[x] = ledger[x]
         /\ UNCHANGED <<loaded, mem, instance, ring, reports, wronged, raced>>
    BY <1>1, <1>2 DEF EraseOld, HooksInv, Tables
  <1>13. \A x \in Blocks : /\ Freed(ledger'[x]) => Freed(ledger[x])
                           /\ LiveRecord(x)' => LiveRecord(x)
    BY <1>12 DEF Freed, LiveRecord
  <1>14. \A x \in Blocks :
              /\ \A r \in ledger'[x] : r.instance \in 0 .. instance.last
              /\ ring'[x] \subseteq 0 .. instance.last
              /\ x \notin wronged /\ Keeps(x) /\ instance.of[x] # 0 => instance.of[x] \notin ring'[x]
    BY <1>12 DEF HooksInv, Numbered, Old
  <1>15. TrustedReportIsRight' /\ loaded.phase = "running"
    BY <1>2, <1>12, QuietReports, IsRunning
  <1> QED
    BY <1>7, <1>9, <1>11, <1>12, <1>13, <1>14, <1>15, TableStep

(***************************************************************************)
(* FreeEnters, FindForFree, Mark                                           *)
(***************************************************************************)
\* The guard recognises the block of the hook around it, and nothing else.
LEMMA Guard ==
    ASSUME HooksInv, NEW t \in Threads, stack[t] # <<>>, Top(t).fn \in FreeFns, Top(t).pc = "enter"
    PROVE  /\ Len(stack[t]) = 1 => ~Nested(t, Top(t).b) /\ Pushes(t) = TRUE
           /\ Len(stack[t]) = 2 => Nested(t, Top(t).b)
  <1>1. CASE Len(stack[t]) = 1
    <2>1. ~stack[t][1].pushed
      BY <1>1, Running DEF HooksInv, Outermost, Top
    <2>2. FreeStack(t) = {}
      BY <1>1, <2>1 DEF FreeStack
    <2>3. Cardinality({}) = 0
      BY FS_EmptySet
    <2>4. Pushes(t)
      BY <2>2, <2>3, HooksAssumption DEF Pushes
    <2>5. Pushes(t) \in BOOLEAN
      BY DEF Pushes
    <2> QED
      BY <1>1, <2>2, <2>4, <2>5 DEF Nested
  <1>2. CASE Len(stack[t]) = 2
    <2>1. Len(stack[t]) # 1
      BY <1>2
    <2>2. Around(Top(t), Outer(t)) /\ Outermost(Outer(t))
      BY <2>1, Running DEF HooksInv
    <2>3. Outer(t).pushed /\ Outer(t).b = Top(t).b
      BY <2>2 DEF Around, Outermost, FreeFns
    <2>4. 2 \in FreeStack(t)
      BY <1>2, <2>3 DEF FreeStack, Outer
    <2> QED
      BY <2>1, <2>3, <2>4 DEF Nested, Outer
  <1> QED
    BY <1>1, <1>2, Now DEF HooksInv

\* A block that is being freed is with nobody else.
LEMMA FreeingOwns ==
    ASSUME HooksInv, NEW t \in Threads, stack[t] # <<>>, Top(t).fn \in FreeFns,
           Top(t).pc \in {"enter", "find", "mark", "orig"}, Top(t).b \notin wronged
    PROVE  /\ Owner(t, Top(t).b) /\ ~Keeps(Top(t).b) /\ mem[Top(t).b].who = "hook"
           /\ \A u \in Threads \ {t} : /\ ~Owner(u, Top(t).b) /\ ~Moving(u, Top(t).b)
                                       /\ ~Gives(u, Top(t).b) /\ ~Passes(u, Top(t).b)
  <1>1. PICK b : b = Top(t).b
    OBVIOUS
  <1>2. b \in Blocks
    BY <1>1, Running DEF HooksInv, Named, FreeFns, AllocFns
  <1>3. Owner(t, b)
    BY <1>1 DEF Owner, Owns
  <1>4. mem[b].who = "hook" /\ \A u \in Threads \ {t} : ~Owner(u, b)
    BY <1>1, <1>2, <1>3 DEF HooksInv, Owned
  <1>5. \A u \in Threads \ {t} : ~Moving(u, b) /\ ~Gives(u, b) /\ ~Passes(u, b)
    <2>1. \A u \in Threads \ {t} : stack[u] = <<>> => Len(stack[u]) = 0
      OBVIOUS
    <2> QED
      BY <1>4, <2>1 DEF Owner, Owns, Moving, Relocates, Gives, Passes
  <1>6. ~Moving(t, b)
    BY DEF Moving, Relocates, FreeFns, ReallocFns
  <1> QED
    BY <1>1, <1>3, <1>4, <1>5, <1>6 DEF Keeps

\* A free hook goes on, with a record it may have looked up.
LEMMA FreeGoesOn ==
    ASSUME HooksInv, NEW t \in Threads, stack[t] # <<>>, Top(t).fn \in FreeFns,
           NEW n, Becomes(t, n), IsFrame(n), n.fn = Top(t).fn, n.b = Top(t).b,
           n.fn = "Deallocate" => ~n.publish,
           Len(stack[t]) = 1 => Outermost(n),
           Len(stack[t]) = 2 => n.pc \in {"enter", "orig", "return"},
           n.rec = Top(t).rec \/ (n.rec = ledger[n.b] /\ Top(t).pc \in {"enter", "find"})
    PROVE  /\ Stacked' /\ \A u \in Threads \ {t} : Same(u)
           /\ \A x : /\ Owner(t, x)' <=> n.pc \in {"enter", "find", "mark", "orig"} /\ x = n.b
                     /\ ~Moving(t, x)' /\ ~Erases(t, x) /\ ~Erases(t, x)'
                     /\ Gives(t, x)' <=> (Len(stack[t]) = 1 /\ n.pc = "enter" /\ x = n.b)
                     /\ Passes(t, x)' <=> /\ x = n.b
                                          /\ n.pc = "orig" \/ (Len(stack[t]) = 2 /\ n.pc = "enter")
           /\ \A f \in Calls(t)' : Fine(f)
           /\ n.b \in Blocks
  <1>1. Named(Top(t)) /\ Top(t) \in Calls(t)
    BY Running DEF HooksInv
  <1>2. Named(n) /\ n.b \in Blocks
    BY <1>1 DEF Named, FreeFns, AllocFns, ReallocFns
  <1>3. Len(stack[t]) = 2 => Around(Top(t), Outer(t))
    <2>1. Len(stack[t]) = 2 => Len(stack[t]) # 1
      OBVIOUS
    <2> QED
      BY <2>1, Running DEF HooksInv
  <1>4. Len(stack[t]) = 2 => Around(n, Outer(t))
    BY <1>3 DEF Around, FreeFns
  <1>5. /\ Stacked' /\ \A u \in Threads \ {t} : Same(u)
        /\ Calls(t)' \subseteq Calls(t) \cup {n}
        /\ \A x : /\ Owner(t, x)' <=> Owns(n, x)
                  /\ Moving(t, x)' <=> Relocates(n, x)
                  /\ Erases(t, x)' <=> \/ EndsRecord(n, x)
                                       \/ Len(stack[t]) = 2 /\ EndsRecord(Outer(t), x)
                  /\ Gives(t, x)' <=> /\ Len(stack[t]) = 1 /\ n.fn \in FreeFns
                                      /\ n.pc = "enter" /\ n.b = x
                  /\ Passes(t, x)' <=> /\ n.fn \in FreeFns /\ n.b = x
                                       /\ n.pc = "orig" \/ (Len(stack[t]) = 2 /\ n.pc = "enter")
    BY <1>2, <1>4, GoesOn DEF HooksInv
  <1>6. \A x : /\ Owns(n, x) <=> n.pc \in {"enter", "find", "mark", "orig"} /\ x = n.b
               /\ ~Relocates(n, x) /\ ~EndsRecord(n, x) /\ ~EndsRecord(Top(t), x)
    BY DEF Owns, Relocates, EndsRecord, FreeFns, AllocFns, ReallocFns
  <1>7. Len(stack[t]) = 2 => \A x : ~EndsRecord(Outer(t), x)
    BY <1>3 DEF Around, EndsRecord, FreeFns, ReallocFns
  <1>8. \A x : ~Erases(t, x) /\ ~Erases(t, x)'
    BY <1>5, <1>6, <1>7, Now DEF HooksInv
  <1>9. Fine(n)
    <2>1. n.fn \notin AllocFns \cup ReallocFns
      BY DEF FreeFns, AllocFns, ReallocFns
    <2>2. CASE n.rec = Top(t).rec
      BY <1>1, <2>1, <2>2, CallsFine DEF Fine
    <2>3. CASE n.rec = ledger[n.b] /\ Top(t).pc \in {"enter", "find"}
      <3>1. \A r \in n.rec : r.instance \in 0 .. instance.last
        BY <1>2, <2>3 DEF HooksInv, Numbered
      <3>2. n.b \notin wronged => ~Keeps(n.b)
        BY <2>3, FreeingOwns
      <3> QED
        BY <2>1, <3>1, <3>2 DEF Fine
    <2> QED
      BY <2>2, <2>3
  <1>10. \A f \in Calls(t)' : Fine(f)
    BY <1>5, <1>9, CallsFine
  <1> QED
    BY <1>2, <1>5, <1>6, <1>8, <1>10

\* The tables when only the ledger, or nothing, changes.
LEMMA QuietTables ==
    ASSUME HooksInv, UNCHANGED <<ledger, instance, ring>>
    PROVE  /\ mem' = mem => Tables'
           /\ \A x \in Blocks :
              /\ \A r \in ledger'[x] : r.instance \in 0 .. instance.last
              /\ ring'[x] \subseteq 0 .. instance.last
              /\ x \notin wronged /\ Keeps(x) /\ instance.of[x] # 0 => instance.of[x] \notin ring'[x]
           /\ \A x : (LiveRecord(x)' <=> LiveRecord(x))
  BY DEF HooksInv, Tables, Numbered, Old, LiveRecord

\* A report that is made is right: the block is not with the game.
LEMMA ReportIsRight ==
    ASSUME HooksInv, NEW t \in Threads, stack[t] # <<>>, Top(t).fn \in FreeFns, Top(t).pc = "enter",
           ~Nested(t, Top(t).b), Freed(ledger[Top(t).b]), NEW kind, Report(kind, Top(t).b), UNCHANGED loaded
    PROVE  TrustedReportIsRight' /\ Len(stack[t]) = 1
  <1>1. PICK b : b = Top(t).b
    OBVIOUS
  <1>2. b \in Blocks
    BY <1>1, Running DEF HooksInv, Named, FreeFns, AllocFns
  <1>3. Len(stack[t]) = 1
    BY Guard, Now DEF HooksInv
  <1>4. Green => b \in wronged
    BY <1>1, <1>2, <1>3 DEF HooksInv, Marked, Gives
  <1>5. ASSUME Green
        PROVE  \A r \in reports' : r.kind = "double-free" => r.right
    <2>1. reports' = reports \cup {[kind |-> kind, b |-> b, right |-> b \in wronged]}
      BY <1>1 DEF Report
    <2>2. \A r \in reports : r.kind = "double-free" => r.right
      BY <1>5 DEF HooksInv, TrustedReportIsRight, Green
    <2>3. [kind |-> kind, b |-> b, right |-> b \in wronged].right
      BY <1>4, <1>5, Zenon
    <2> QED
      BY <2>1, <2>2, <2>3
  <1> QED
    BY <1>3, <1>5 DEF TrustedReportIsRight, Green

\* A step of a free hook that changes nothing but its own call.
LEMMA FreeStackStep ==
    ASSUME HooksInv, NEW t \in Threads, stack[t] # <<>>, Top(t).fn \in FreeFns,
           NEW n, Becomes(t, n), IsFrame(n), n.fn = Top(t).fn, n.b = Top(t).b,
           n.fn = "Deallocate" => ~n.publish,
           Len(stack[t]) = 1 => Outermost(n) /\ n.pc # "enter",
           Len(stack[t]) = 2 => n.pc \in {"enter", "orig", "return"},
           n.rec = Top(t).rec \/ (n.rec = ledger[n.b] /\ Top(t).pc \in {"enter", "find"}),
           n.pc \in {"enter", "find", "mark", "orig"} => Top(t).pc \in {"enter", "find", "mark", "orig"},
           n.pc \in {"orig", "enter"} =>
               \/ ~LiveRecord(n.b) \/ Top(t).pc = "orig"
               \/ Len(stack[t]) = 2 /\ Top(t).pc = "enter",
           UNCHANGED <<loaded, mem, ledger, instance, ring, wronged, raced>>, TrustedReportIsRight'
    PROVE  HooksInv'
  <1>1. /\ Stacked' /\ \A u \in Threads \ {t} : Same(u)
        /\ \A x : /\ Owner(t, x)' <=> n.pc \in {"enter", "find", "mark", "orig"} /\ x = n.b
                  /\ ~Moving(t, x)' /\ ~Erases(t, x) /\ ~Erases(t, x)'
                  /\ Gives(t, x)' <=> (Len(stack[t]) = 1 /\ n.pc = "enter" /\ x = n.b)
                  /\ Passes(t, x)' <=> /\ x = n.b
                                       /\ n.pc = "orig" \/ (Len(stack[t]) = 2 /\ n.pc = "enter")
        /\ \A f \in Calls(t)' : Fine(f)
        /\ n.b \in Blocks
    BY FreeGoesOn
  <1>2. ASSUME NEW x \in Blocks
        PROVE  /\ Owner(t, x)' => Owner(t, x)
               /\ ~Gives(t, x)'
               /\ LiveRecord(x) /\ Passes(t, x)' => Passes(t, x)
    <2>1. Owner(t, x)' => Owner(t, x)
      BY <1>1 DEF Owner, Owns
    <2>2. ~Gives(t, x)'
      BY <1>1
    <2>3. LiveRecord(x) /\ Passes(t, x)' => Passes(t, x)
      BY <1>1 DEF Passes
    <2> QED
      BY <2>1, <2>2, <2>3
  <1> QED
    BY <1>1, <1>2, StackStep

\* A free that is prevented: the block is nobody's for good.
LEMMA PreventsStep ==
    ASSUME HooksInv, NEW t \in Threads, stack[t] # <<>>, Top(t).fn \in FreeFns, Top(t).pc = "enter",
           Returns(t), Prevents(Top(t).b), TrustedReportIsRight',
           UNCHANGED <<loaded, ledger, instance, ring, wronged, raced>>
    PROVE  HooksInv'
  <1>1. PICK b : b = Top(t).b
    OBVIOUS
  <1>2. b \in Blocks
    BY <1>1, Running DEF HooksInv, Named, FreeFns, AllocFns
  <1>3. /\ Stacked' /\ \A u \in Threads \ {t} : Same(u)
        /\ Calls(t)' \subseteq Calls(t)
        /\ \A x : /\ ~Owner(t, x)' /\ ~Moving(t, x)' /\ ~Gives(t, x)' /\ ~Passes(t, x)'
                  /\ Erases(t, x)' <=> Erases(t, x)
    BY ReturnsFrom DEF HooksInv
  <1>4. /\ DOMAIN mem' = Blocks /\ \A x \in Blocks : DOMAIN mem'[x] = {"who", "heap"}
        /\ \A x \in Blocks \ {b} : mem'[x] = mem[x]
        /\ mem'[b].heap = mem[b].heap /\ mem'[b].who \in {mem[b].who, "leaked"}
    BY <1>1, <1>2 DEF Prevents, HooksInv, Tables
  <1>5. Tables'
    BY <1>4 DEF HooksInv, Tables
  <1>6. b \in wronged \/ \A u \in Threads : ~Owner(u, b)'
    BY <1>1, <1>3, FreeingOwns DEF Same
  <1>7. \A f \in Calls(t)' : Fine(f)
    BY <1>3, CallsFine
  <1>8. \A x : Freed(ledger'[x]) => Freed(ledger[x])
    BY DEF Freed
  <1>9. /\ \A x \in Blocks : mem'[x].heap = mem[x].heap
        /\ \A x \in Blocks : mem'[x].who = mem[x].who \/ (x = b /\ mem'[x].who = "leaked")
    BY <1>4
  <1> QED
    BY <1>3, <1>4, <1>5, <1>6, <1>7, <1>8, <1>9, IsRunning, QuietTables, TableStep

\* FreeEnters keeps the invariant, in each of its cases: nested, reported and
\* prevented, reported only, and looked up.
LEMMA FreeEntersStep ==
    ASSUME HooksInv, NEW t \in Threads, FreeEnters(t)
    PROVE  HooksInv'
  <1>1. PICK f : f = Top(t)
    OBVIOUS
  <1>2. /\ stack[t] # <<>> /\ f.fn \in FreeFns /\ f.pc = "enter" /\ IsFrame(f) /\ Named(f)
    BY <1>1, Running DEF FreeEnters, At, FreeFns, HooksInv
  <1>3. UNCHANGED <<loaded, ledger, instance, ring, wronged, raced>>
    BY DEF FreeEnters
  <1>4. /\ Len(stack[t]) \in {1, 2} /\ (Len(stack[t]) = 2 <=> Nested(t, f.b))
        /\ Len(stack[t]) = 1 => Pushes(t) = TRUE
    BY <1>1, <1>2, Guard, Now DEF HooksInv
  <1> DEFINE g == [f EXCEPT !.pushed = Pushes(t)]
  <1>5. CASE Nested(t, f.b) /\ Goto(t, "orig") /\ UNCHANGED <<mem, reports>>
    <2> DEFINE n == [f EXCEPT !.pc = "orig"]
    <2>1. /\ IsFrame(n) /\ n.fn = f.fn /\ n.b = f.b /\ n.pc = "orig" /\ n.rec = f.rec
      <3>1. "orig" \in Steps(f.fn)
        BY <1>2, StepsAre
      <3> QED
        BY <1>2, <3>1, FrameAt
    <2>2. f.fn = "Deallocate" => ~n.publish
      BY <1>2 DEF IsFrame, Named
    <2>3. Becomes(t, n)
      BY <1>1, <1>5 DEF Goto
    <2>4. TrustedReportIsRight'
      BY <1>3, <1>5, QuietReports
    <2> HIDE DEF n
    <2> QED
      BY <1>1, <1>2, <1>3, <1>4, <1>5, <2>1, <2>2, <2>3, <2>4, FreeStackStep
  <1>6. CASE /\ ~Nested(t, f.b) /\ Freed(ledger[f.b])
             /\ Report(DoubleFreeReportKind, f.b)
             /\ IF config.preventDoubleFree
                THEN Returns(t) /\ Prevents(f.b)
                ELSE Becomes(t, [g EXCEPT !.pc = "orig", !.rec = ledger[f.b]]) /\ UNCHANGED mem
    <2>1. PICK kind : kind = DoubleFreeReportKind
      OBVIOUS
    <2>2. TrustedReportIsRight'
      BY <1>1, <1>2, <1>3, <1>6, <2>1, ReportIsRight
    <2>3. CASE config.preventDoubleFree
      BY <1>1, <1>2, <1>3, <1>6, <2>2, <2>3, PreventsStep
    <2>4. CASE ~config.preventDoubleFree
      <3> DEFINE n == [g EXCEPT !.pc = "orig", !.rec = ledger[f.b]]
      <3>1. /\ IsFrame(n) /\ n.fn = f.fn /\ n.b = f.b /\ n.pc = "orig" /\ n.rec = ledger[f.b]
        BY <1>2, StepsAre DEF IsFrame
      <3>2. f.fn = "Deallocate" => ~n.publish
        BY <1>2 DEF IsFrame, Named
      <3>3. n.pushed = Pushes(t)
        BY <1>2 DEF IsFrame
      <3>4. Becomes(t, n) /\ UNCHANGED mem
        BY <1>6, <2>4
      <3> HIDE DEF n
      <3>5. Len(stack[t]) = 1 => Outermost(n)
        BY <1>4, <3>1, <3>3 DEF Outermost
      <3>6. ~LiveRecord(f.b)
        BY <1>6 DEF LiveRecord
      <3> QED
        BY <1>1, <1>2, <1>3, <1>4, <1>6, <2>2, <3>1, <3>2, <3>4, <3>5, <3>6, FreeStackStep
    <2> QED
      BY <2>3, <2>4
  <1>7. CASE /\ ~Nested(t, f.b) /\ ~Freed(ledger[f.b]) /\ f.fn = "Deallocate" /\ UNCHANGED <<mem, reports>>
             /\ Becomes(t, [g EXCEPT !.pc = IF ledger[f.b] = {} THEN "orig" ELSE "mark", !.rec = ledger[f.b]])
    <2> DEFINE n == [g EXCEPT !.pc = IF ledger[f.b] = {} THEN "orig" ELSE "mark", !.rec = ledger[f.b]]
    <2>1. /\ IsFrame(n) /\ n.fn = f.fn /\ n.b = f.b /\ n.pc \in {"orig", "mark"} /\ n.rec = ledger[f.b]
          /\ n.pc = "orig" => ledger[f.b] = {}
      BY <1>2, <1>7, StepsAre DEF IsFrame
    <2>2. f.fn = "Deallocate" => ~n.publish
      BY <1>2 DEF IsFrame, Named
    <2>3. n.pushed = Pushes(t)
      BY <1>2 DEF IsFrame
    <2>4. Becomes(t, n) /\ TrustedReportIsRight'
      BY <1>3, <1>7, QuietReports
    <2> HIDE DEF n
    <2>5. Len(stack[t]) = 1 => Outermost(n)
      BY <1>4, <2>1, <2>3 DEF Outermost
    <2>6. n.pc = "orig" => ~LiveRecord(f.b)
      BY <2>1 DEF LiveRecord
    <2> QED
      BY <1>1, <1>2, <1>3, <1>4, <1>7, <2>1, <2>2, <2>4, <2>5, <2>6, FreeStackStep
  <1>8. CASE /\ ~Nested(t, f.b) /\ ~Freed(ledger[f.b]) /\ f.fn = "SfFree" /\ UNCHANGED <<mem, reports>>
             /\ Becomes(t, [g EXCEPT !.pc = "find"])
    <2> DEFINE n == [g EXCEPT !.pc = "find"]
    <2>1. /\ IsFrame(n) /\ n.fn = f.fn /\ n.b = f.b /\ n.pc = "find" /\ n.rec = f.rec
      BY <1>2, <1>8, StepsAre DEF IsFrame
    <2>2. n.pushed = Pushes(t)
      BY <1>2 DEF IsFrame
    <2>3. Becomes(t, n) /\ TrustedReportIsRight'
      BY <1>3, <1>8, QuietReports
    <2> HIDE DEF n
    <2>4. Len(stack[t]) = 1 => Outermost(n)
      BY <1>4, <2>1, <2>2 DEF Outermost
    <2> QED
      BY <1>1, <1>2, <1>3, <1>4, <1>8, <2>1, <2>3, <2>4, FreeStackStep
  <1> QED
    BY <1>1, <1>5, <1>6, <1>7, <1>8 DEF FreeEnters

\* Only the outermost call can be at these steps.
LEMMA NoCallAround ==
    ASSUME HooksInv, NEW t \in Threads, stack[t] # <<>>,
           Top(t).fn \in {"SfFree", "Wl"} \/ (Top(t).fn \in FreeFns /\ Top(t).pc \in {"find", "mark"})
    PROVE  /\ Len(stack[t]) = 1 /\ Len(stack[t]) # 2 /\ Outermost(Top(t)) /\ \A x : ~Erases(t, x)
  <1>1. Len(stack[t]) # 1 => Around(Top(t), Outer(t))
    BY Running DEF HooksInv
  <1>2. ~Around(Top(t), Outer(t))
    BY DEF Around, FreeFns
  <1>3. Len(stack[t]) = 1 /\ Len(stack[t]) # 2
    BY <1>1, <1>2
  <1>4. \A x : ~EndsRecord(Top(t), x)
    BY DEF EndsRecord, FreeFns, ReallocFns
  <1>5. \A x : ~Erases(t, x)
    BY <1>3, <1>4, Now DEF HooksInv
  <1>6. Outermost(Top(t))
    BY <1>3, Running DEF HooksInv
  <1> QED
    BY <1>3, <1>5, <1>6

\* FindForFree keeps the invariant: the second lookup is made while the block is
\* still the hook's.
LEMMA FindForFreeStep ==
    ASSUME HooksInv, NEW t \in Threads, FindForFree(t)
    PROVE  HooksInv'
  <1>1. PICK f : f = Top(t)
    OBVIOUS
  <1>2. /\ stack[t] # <<>> /\ f.fn = "SfFree" /\ f.fn \in FreeFns /\ f.pc = "find" /\ IsFrame(f)
    BY <1>1, Running DEF FindForFree, At, FreeFns, HooksInv
  <1>3. Len(stack[t]) = 1 /\ Len(stack[t]) # 2 /\ Outermost(f)
    BY <1>1, <1>2, NoCallAround
  <1> DEFINE n == [f EXCEPT !.rec = ledger[f.b], !.pc = "mark"]
  <1>4. /\ IsFrame(n) /\ n.fn = f.fn /\ n.b = f.b /\ n.pc = "mark" /\ n.rec = ledger[f.b]
    BY <1>2, StepsAre DEF IsFrame
  <1>5. n.pushed = f.pushed
    BY <1>2 DEF IsFrame
  <1>6. Becomes(t, n) /\ UNCHANGED <<loaded, mem, ledger, instance, ring, reports, wronged, raced>>
    BY <1>1 DEF FindForFree
  <1> HIDE DEF n
  <1>7. Outermost(n)
    BY <1>2, <1>3, <1>4, <1>5 DEF Outermost
  <1>8. TrustedReportIsRight'
    BY <1>6, QuietReports
  <1> QED
    BY <1>1, <1>2, <1>3, <1>4, <1>6, <1>7, <1>8, FreeStackStep

\* The record is marked while the block is still the hook's.
LEMMA MarkStep ==
    ASSUME HooksInv, NEW t \in Threads, Mark(t)
    PROVE  HooksInv'
  <1>1. PICK f : f = Top(t)
    OBVIOUS
  <1>2. /\ stack[t] # <<>> /\ f.fn \in FreeFns /\ f.pc = "mark" /\ IsFrame(f) /\ Named(f) /\ f \in Calls(t)
        /\ f.b \in Blocks
    BY <1>1, Running DEF Mark, At, FreeFns, HooksInv, Named, AllocFns
  <1>3. Len(stack[t]) = 1 /\ Len(stack[t]) # 2 /\ Outermost(f)
    BY <1>1, <1>2, NoCallAround
  <1> DEFINE n == [f EXCEPT !.pc = "orig", !.publish = f.fn = "SfFree"]
  <1>4. /\ IsFrame(n) /\ n.fn = f.fn /\ n.b = f.b /\ n.pc = "orig" /\ n.rec = f.rec
    BY <1>2, StepsAre DEF IsFrame
  <1>5. n.pushed = f.pushed
    BY <1>2 DEF IsFrame
  <1>6. f.fn = "Deallocate" => ~n.publish
    <2>1. n.publish = (f.fn = "SfFree")
      BY <1>2 DEF IsFrame
    <2> QED
      BY <2>1
  <1>7. PICK i : i = InstanceIn(f.rec)
    OBVIOUS
  <1>8. /\ Becomes(t, n) /\ Inserts(f.b, [freed |-> TRUE, instance |-> i])
        /\ UNCHANGED <<loaded, mem, instance, ring, reports, wronged, raced>>
    BY <1>1, <1>7 DEF Mark
  <1> HIDE DEF n
  <1>9. i \in 0 .. instance.last
    <2>1. CASE f.rec = {}
      BY <1>7, <2>1 DEF InstanceIn, HooksInv, Numbered
    <2>2. CASE f.rec # {}
      <3>1. PICK r \in f.rec : i = r.instance
        BY <1>7, <2>2 DEF InstanceIn
      <3> QED
        BY <1>2, <3>1, CallsFine DEF Fine
    <2> QED
      BY <2>1, <2>2
  <1>10. /\ Stacked' /\ \A u \in Threads \ {t} : Same(u)
         /\ \A x : /\ Owner(t, x)' <=> n.pc \in {"enter", "find", "mark", "orig"} /\ x = n.b
                   /\ ~Moving(t, x)' /\ ~Erases(t, x) /\ ~Erases(t, x)'
                   /\ Gives(t, x)' <=> (Len(stack[t]) = 1 /\ n.pc = "enter" /\ x = n.b)
         /\ \A g \in Calls(t)' : Fine(g)
    <2>1. Outermost(n)
      BY <1>2, <1>3, <1>4, <1>5 DEF Outermost
    <2> QED
      BY <1>1, <1>2, <1>3, <1>4, <1>6, <1>8, <2>1, FreeGoesOn
  <1>11. \/ UNCHANGED ledger /\ ledger[f.b] = {}
         \/ ledger' = [ledger EXCEPT ![f.b] = {[freed |-> TRUE, instance |-> i]}]
    BY <1>8 DEF Inserts
  <1>12. /\ Tables'
         /\ \A x \in Blocks \ {f.b} : ledger'[x] = ledger[x]
         /\ ledger'[f.b] \in {{}, {[freed |-> TRUE, instance |-> i]}}
    BY <1>2, <1>8, <1>11 DEF HooksInv, Tables
  <1>13. /\ \A r \in ledger'[f.b] : r.instance = i /\ r.freed
         /\ ~LiveRecord(f.b)'
    <2>1. \A r \in ledger'[f.b] : r.instance = i /\ r.freed
      BY <1>12
    <2> QED
      BY <2>1 DEF LiveRecord, Freed
  <1>14. \A x \in Blocks : \A r \in ledger'[x] : r.instance \in 0 .. instance.last
    <2>1. ASSUME NEW x \in Blocks, NEW r \in ledger'[x]
          PROVE  r.instance \in 0 .. instance.last
      <3>1. CASE x = f.b
        BY <1>9, <1>13, <2>1, <3>1
      <3>2. CASE x # f.b
        BY <1>12, <2>1, <3>2 DEF HooksInv, Numbered
      <3> QED
        BY <3>1, <3>2
    <2> QED
      BY <2>1
  <1>15. ASSUME NEW x \in Blocks
         PROVE  /\ ring'[x] \subseteq 0 .. instance.last
                /\ x \notin wronged /\ Keeps(x) /\ instance.of[x] # 0 => instance.of[x] \notin ring'[x]
    BY <1>8 DEF HooksInv, Numbered, Old
  <1>16. ASSUME NEW x \in Blocks \ wronged
         PROVE  /\ Freed(ledger'[x]) => \/ Freed(ledger[x])
                                        \/ /\ mem[x].who # "live"
                                           /\ \A u \in Threads : ~Moving(u, x)' /\ ~Gives(u, x)'
                /\ x \notin raced' /\ LiveRecord(x)' => x \notin raced /\ LiveRecord(x)
    <2>1. CASE x = f.b
      <3>1. /\ mem[x].who = "hook"
            /\ \A u \in Threads \ {t} : ~Moving(u, x) /\ ~Gives(u, x)
        BY <1>1, <1>2, <2>1, FreeingOwns
      <3>2. \A u \in Threads : ~Moving(u, x)' /\ ~Gives(u, x)'
        BY <1>4, <1>10, <3>1 DEF Same
      <3> QED
        BY <1>13, <2>1, <3>1, <3>2
    <2>2. CASE x # f.b
      BY <1>8, <1>12, <2>2 DEF Freed, LiveRecord
    <2> QED
      BY <2>1, <2>2
  <1>17. ASSUME NEW x \in Blocks
         PROVE  /\ Owner(t, x)' => Owner(t, x)
                /\ Moving(t, x)' => Moving(t, x)
                /\ Gives(t, x)' => Gives(t, x)
                /\ Erases(t, x) => Erases(t, x)'
    <2>1. Owner(t, f.b)
      BY <1>1, <1>2 DEF Owner, Owns
    <2> QED
      BY <1>4, <1>10, <2>1
  <1>18. ASSUME NEW x \in Blocks, LiveRecord(x)', Passes(t, x)'
         PROVE  FALSE
    <2>1. Top(t)' = n
      <3>1. stack' = [stack EXCEPT ![t] = <<n>>]
        BY <1>2, <1>3, <1>8, Running DEF HooksInv
      <3> QED
        BY <3>1 DEF Top, HooksInv, Stacked
    <2>2. x = f.b
      BY <1>4, <1>18, <2>1 DEF Passes
    <2> QED
      BY <1>13, <1>18, <2>2
  <1>19. TrustedReportIsRight' /\ loaded.phase = "running"
    BY <1>2, <1>8, QuietReports, IsRunning
  <1> QED
    BY <1>8, <1>10, <1>12, <1>14, <1>15, <1>16, <1>17, <1>18, <1>19, TableStep

\* The original free: the record of the block has been marked, or there is none.
LEMMA OFreeStep ==
    ASSUME HooksInv, NEW t \in Threads, OFree(t)
    PROVE  HooksInv'
  <1>1. PICK f : f = Top(t)
    OBVIOUS
  <1>2. /\ stack[t] # <<>> /\ f.fn \in FreeFns /\ f.pc = "orig" /\ IsFrame(f) /\ Named(f) /\ f \in Calls(t)
        /\ f.b \in Blocks /\ f.fn \notin AllocFns \cup ReallocFns
        /\ UNCHANGED <<loaded, ledger, instance, ring, reports, wronged, raced>>
    BY <1>1, Running DEF OFree, At, FreeFns, HooksInv, Named, AllocFns, ReallocFns
  <1>3. Passes(t, f.b) /\ Owner(t, f.b)
    BY <1>1, <1>2 DEF Passes, Owner, Owns
  <1> DEFINE n == [f EXCEPT !.pc = IF f.publish THEN "publish" ELSE "return"]
  <1>4. /\ IsFrame(n) /\ n.fn = f.fn /\ n.b = f.b /\ n.rec = f.rec /\ n.pushed = f.pushed
        /\ n.pc \in {"publish", "return"} /\ (f.fn = "Deallocate" => n.pc = "return")
        /\ f.fn = "Deallocate" => ~n.publish
    <2>1. PICK pc : pc = IF f.publish THEN "publish" ELSE "return"
      OBVIOUS
    <2>2. f.fn = "Deallocate" => ~f.publish
      BY <1>2 DEF Named
    <2>3. pc \in {"publish", "return"} /\ (f.fn = "Deallocate" => pc = "return") /\ pc \in Steps(f.fn)
      BY <1>2, <2>1, <2>2, StepsAre
    <2>4. n = [f EXCEPT !.pc = pc]
      BY <2>1
    <2> HIDE DEF n
    <2>5. /\ IsFrame(n) /\ n.fn = f.fn /\ n.b = f.b /\ n.rec = f.rec /\ n.pc = pc
      <3>1. IsFrame(n)
        BY <1>2, <2>3, <2>4, FrameAt
      <3>2. n.fn = f.fn /\ n.b = f.b
        BY <1>2, <2>3, <2>4, FrameAt
      <3>3. n.rec = f.rec /\ n.pc = pc
        BY <1>2, <2>3, <2>4, FrameAt
      <3> QED
        BY <3>1, <3>2, <3>3
    <2>6. n.pushed = f.pushed /\ n.publish = f.publish
      BY <1>2, <2>3, <2>4, FrameAt, Zenon
    <2>7. f.fn = "Deallocate" => ~n.publish
      BY <2>2, <2>6, Zenon
    <2> QED
      BY <2>3, <2>5, <2>6, <2>7
  <1> HIDE DEF n
  <1>5. Len(stack[t]) = 1 => Outermost(n)
    <2>1. Len(stack[t]) = 1 => Outermost(f)
      <3>1. Len(stack[t]) = 1 => Len(stack[t]) # 2
        OBVIOUS
      <3> QED
        BY <1>1, <1>2, <3>1, Running DEF HooksInv
    <2> QED
      BY <1>2, <1>4, <2>1 DEF Outermost
  <1>6. CASE /\ f.fn = "SfFree" /\ loaded.replaced /\ Installed("Deallocate")
             /\ Nests(t, n, "Deallocate", f.b) /\ UNCHANGED mem
    <2>1. Len(stack[t]) = 1 /\ \A x : ~Erases(t, x)
      BY <1>1, <1>2, <1>6, NoCallAround
    <2>2. /\ Enter("Deallocate", "sf", f.b).fn = "Deallocate"
          /\ Enter("Deallocate", "sf", f.b).b = f.b /\ Enter("Deallocate", "sf", f.b).pc = "enter"
      BY EnterIs DEF Functions
    <2>3. Around(Enter("Deallocate", "sf", f.b), n)
      BY <1>4, <1>6, <2>2 DEF Around
    <2>4. Fine(n)
      BY <1>2, <1>4, CallsFine DEF Fine
    <2>5. "Deallocate" \in Functions /\ "Deallocate" \in FreeFns /\ "Deallocate" \notin AllocFns \cup ReallocFns
      BY DEF Functions, FreeFns, AllocFns, ReallocFns
    <2> QED
      BY <1>2, <1>3, <1>4, <1>5, <1>6, <2>1, <2>3, <2>4, <2>5, NestsStep
  <1>7. CASE Becomes(t, n) /\ mem' = [mem EXCEPT ![f.b].who = "free"]
    <2>1. /\ Stacked' /\ \A u \in Threads \ {t} : Same(u)
          /\ \A x : /\ ~Owner(t, x)' /\ ~Moving(t, x)' /\ ~Erases(t, x) /\ ~Erases(t, x)'
                    /\ ~Gives(t, x)' /\ ~Passes(t, x)'
          /\ \A g \in Calls(t)' : Fine(g)
      <3>1. Len(stack[t]) = 2 => n.pc = "return"
        <4>1. Len(stack[t]) = 2 => f.fn # "SfFree"
          BY <1>1, <1>2, NoCallAround
        <4> QED
          BY <1>2, <1>4, <4>1, StepsAre
      <3> QED
        BY <1>1, <1>2, <1>4, <1>5, <1>7, <3>1, FreeGoesOn
    <2>2. /\ Tables' /\ \A x \in Blocks \ {f.b} : mem'[x] = mem[x]
          /\ mem'[f.b].heap = mem[f.b].heap /\ mem'[f.b].who = "free"
      BY <1>2, <1>7 DEF HooksInv, Tables
    <2>3. f.b \in wronged \/ \A u \in Threads : ~Owner(u, f.b)'
      BY <1>1, <1>2, <2>1, FreeingOwns DEF Same
    <2>4. \A x : (LiveRecord(x)' <=> LiveRecord(x))
      BY <1>2 DEF LiveRecord
    <2>5. Green /\ f.b \notin wronged \cup raced => ~LiveRecord(f.b)'
      BY <1>2, <1>3, <2>4 DEF HooksInv, Cleared
    <2>6. TrustedReportIsRight' /\ loaded.phase = "running"
      BY <1>2, QuietReports, IsRunning
    <2>7. \A x \in Blocks :
           /\ mem'[x].heap = mem[x].heap
           /\ \/ mem'[x].who = mem[x].who
              \/ /\ mem'[x].who = "free"
                 /\ x \in wronged \/ \A u \in Threads : ~Owner(u, x)'
                 /\ x \in wronged \cup raced' \/ (Green => ~LiveRecord(x)')
      BY <1>2, <2>2, <2>3, <2>5
    <2> QED
      BY <1>2, <2>1, <2>2, <2>4, <2>6, <2>7, QuietTables, TableStep
  <1> QED
    BY <1>1, <1>6, <1>7 DEF OFree, n

\* FreeReturns keeps the invariant.
LEMMA FreeReturnsStep ==
    ASSUME HooksInv, NEW t \in Threads, FreeReturns(t)
    PROVE  HooksInv'
  <1>1. /\ stack[t] # <<>> /\ Top(t).fn \in FreeFns
        /\ UNCHANGED <<loaded, mem, ledger, instance, ring, reports, wronged, raced>> /\ Returns(t)
    BY DEF FreeReturns, At, FreeFns
  <1>2. /\ Stacked' /\ \A u \in Threads \ {t} : Same(u)
        /\ Calls(t)' \subseteq Calls(t)
        /\ \A x : /\ ~Owner(t, x)' /\ ~Moving(t, x)' /\ ~Gives(t, x)' /\ ~Passes(t, x)'
                  /\ Erases(t, x)' <=> Erases(t, x)
    BY <1>1, ReturnsFrom DEF HooksInv
  <1>3. TrustedReportIsRight' /\ \A f \in Calls(t)' : Fine(f)
    BY <1>1, <1>2, QuietReports, CallsFine
  <1> QED
    BY <1>1, <1>2, <1>3, StackStep

\* The free record carries the instance that was read before the original free.
LEMMA PublishStep ==
    ASSUME HooksInv, NEW t \in Threads, PublishScaleformFree(t)
    PROVE  HooksInv'
  <1>1. PICK f : f = Top(t)
    OBVIOUS
  <1>2. /\ stack[t] # <<>> /\ f.fn = "SfFree" /\ f.fn \in FreeFns /\ f.pc = "publish" /\ f \in Calls(t)
        /\ f.b \in Blocks /\ Returns(t)
        /\ UNCHANGED <<loaded, mem, ledger, instance, reports, wronged, raced>>
    BY <1>1, Running DEF PublishScaleformFree, At, FreeFns, HooksInv, Named, AllocFns
  <1>3. /\ Stacked' /\ \A u \in Threads \ {t} : Same(u)
        /\ Calls(t)' \subseteq Calls(t)
        /\ \A x : /\ ~Owner(t, x)' /\ ~Moving(t, x)' /\ ~Gives(t, x)' /\ ~Passes(t, x)'
                  /\ Erases(t, x)' <=> Erases(t, x)
    BY <1>1, <1>2, ReturnsFrom DEF HooksInv
  <1>4. PICK i : i = InstanceIn(f.rec)
    OBVIOUS
  <1>5. i \in 0 .. instance.last /\ (f.b \notin wronged /\ Keeps(f.b) /\ instance.of[f.b] # 0 => i # instance.of[f.b])
    <2>1. CASE f.rec = {}
      BY <1>4, <2>1 DEF InstanceIn, HooksInv, Numbered
    <2>2. CASE f.rec # {}
      <3>1. PICK r \in f.rec : i = r.instance
        BY <1>4, <2>2 DEF InstanceIn
      <3> QED
        BY <1>2, <3>1, CallsFine DEF Fine
    <2> QED
      BY <2>1, <2>2
  <1>6. /\ Tables' /\ ring'[f.b] = {i} /\ \A x \in Blocks \ {f.b} : ring'[x] = ring[x]
    BY <1>1, <1>2, <1>4 DEF PublishScaleformFree, HooksInv, Tables
  <1>7. \A x \in Blocks :
              /\ \A r \in ledger'[x] : r.instance \in 0 .. instance.last
              /\ ring'[x] \subseteq 0 .. instance.last
              /\ x \notin wronged /\ Keeps(x) /\ instance.of[x] # 0 => instance.of[x] \notin ring'[x]
    BY <1>2, <1>5, <1>6 DEF HooksInv, Numbered, Old
  <1>8. \A x : (LiveRecord(x)' <=> LiveRecord(x)) /\ (Freed(ledger'[x]) <=> Freed(ledger[x]))
    BY <1>2 DEF LiveRecord
  <1>9. /\ TrustedReportIsRight' /\ loaded.phase = "running" /\ \A g \in Calls(t)' : Fine(g)
    BY <1>2, <1>3, QuietReports, IsRunning, CallsFine
  <1> QED
    BY <1>2, <1>3, <1>6, <1>7, <1>8, <1>9, TableStep

(***************************************************************************)
(* WlFind, WlRefresh, Evict                                                *)
(***************************************************************************)
LEMMA WlFindStep ==
    ASSUME HooksInv, NEW t \in Threads, WlFind(t)
    PROVE  HooksInv'
  <1>1. PICK f : f = Top(t)
    OBVIOUS
  <1>2. /\ stack[t] # <<>> /\ f.fn = "Wl" /\ f.pc = "enter" /\ IsFrame(f) /\ Named(f) /\ f \in Calls(t)
        /\ f.b \in Blocks /\ f.fn \notin AllocFns \cup ReallocFns \cup FreeFns
        /\ UNCHANGED <<loaded, mem, ledger, instance, ring, reports, wronged, raced>>
    BY <1>1, Running DEF WlFind, At, FreeFns, HooksInv, Named, AllocFns, ReallocFns
  <1>3. Len(stack[t]) = 1 /\ Len(stack[t]) # 2 /\ \A x : ~Erases(t, x)
    BY <1>1, <1>2, NoCallAround
  <1>4. TrustedReportIsRight'
    BY <1>2, QuietReports
  <1> DEFINE n == [f EXCEPT !.rec = ledger[f.b], !.pc = "refresh"]
  <1>5. CASE ledger[f.b] # {} /\ ~Freed(ledger[f.b]) /\ Becomes(t, n)
    <2>1. /\ IsFrame(n) /\ n.fn = f.fn /\ n.b = f.b /\ n.pc = "refresh" /\ n.rec = ledger[f.b]
      BY <1>2, StepsAre DEF IsFrame
    <2> HIDE DEF n
    <2>2. Named(n) /\ Outermost(n)
      BY <1>2, <1>5, <2>1 DEF Named, Outermost
    <2>3. /\ Stacked' /\ \A u \in Threads \ {t} : Same(u)
          /\ Calls(t)' \subseteq Calls(t) \cup {n}
          /\ \A x : /\ Owner(t, x)' <=> Owns(n, x)
                    /\ Moving(t, x)' <=> Relocates(n, x)
                    /\ ~Gives(t, x)' /\ ~Passes(t, x)'
      BY <1>2, <1>3, <1>5, <2>1, <2>2, GoesOn DEF HooksInv
    <2>4. \A x : ~Owns(n, x) /\ ~Relocates(n, x)
      BY <1>2, <2>1 DEF Owns, Relocates
    <2>5. Fine(n)
      BY <1>2, <2>1 DEF Fine, HooksInv, Numbered
    <2>6. \A g \in Calls(t)' : Fine(g)
      BY <2>3, <2>5, CallsFine
    <2> QED
      BY <1>2, <1>3, <1>4, <2>3, <2>4, <2>6, StackStep
  <1>6. CASE Returns(t)
    <2>1. /\ Stacked' /\ \A u \in Threads \ {t} : Same(u)
          /\ Calls(t)' \subseteq Calls(t)
          /\ \A x : ~Owner(t, x)' /\ ~Moving(t, x)' /\ ~Gives(t, x)' /\ ~Passes(t, x)'
      BY <1>1, <1>2, <1>6, ReturnsFrom DEF HooksInv
    <2>2. \A g \in Calls(t)' : Fine(g)
      BY <2>1, CallsFine
    <2> QED
      BY <1>2, <1>3, <1>4, <2>1, <2>2, StackStep
  <1> QED
    BY <1>1, <1>5, <1>6 DEF WlFind

\* The record goes back; where another was there, raced remembers it.
LEMMA WlRefreshStep ==
    ASSUME HooksInv, NEW t \in Threads, WlRefresh(t)
    PROVE  HooksInv'
  <1>1. PICK f : f = Top(t)
    OBVIOUS
  <1>2. /\ stack[t] # <<>> /\ f.fn = "Wl" /\ f.pc = "refresh" /\ Named(f) /\ f \in Calls(t)
        /\ f.b \in Blocks /\ Returns(t)
        /\ UNCHANGED <<loaded, mem, instance, ring, reports, wronged>>
    BY <1>1, Running DEF WlRefresh, At, HooksInv, Named, AllocFns
  <1>3. \A x : ~Erases(t, x)
    BY <1>1, <1>2, NoCallAround
  <1>4. /\ Stacked' /\ \A u \in Threads \ {t} : Same(u)
        /\ Calls(t)' \subseteq Calls(t)
        /\ \A x : ~Owner(t, x)' /\ ~Moving(t, x)' /\ ~Gives(t, x)' /\ ~Passes(t, x)'
    BY <1>1, <1>2, ReturnsFrom DEF HooksInv
  <1>5. f.rec # {} /\ ~Freed(f.rec)
    BY <1>2 DEF Named
  <1>6. PICK r \in f.rec : Inserts(f.b, r)
    BY <1>1, <1>5 DEF WlRefresh
  <1>7. ~r.freed /\ r.instance \in 0 .. instance.last
    BY <1>2, <1>5, <1>6, CallsFine DEF Freed, Fine
  <1>8. raced \subseteq raced' /\ (f.b \notin raced' => ledger[f.b] = f.rec)
    BY <1>1 DEF WlRefresh
  <1>9. /\ Tables' /\ \A x \in Blocks \ {f.b} : ledger'[x] = ledger[x]
        /\ ledger'[f.b] \in {{}, {r}}
    BY <1>2, <1>6 DEF Inserts, HooksInv, Tables
  <1>10. ASSUME NEW x \in Blocks
         PROVE  /\ \A s \in ledger'[x] : s.instance \in 0 .. instance.last
                /\ ring'[x] \subseteq 0 .. instance.last
                /\ x \notin wronged /\ Keeps(x) /\ instance.of[x] # 0 => instance.of[x] \notin ring'[x]
                /\ Freed(ledger'[x]) => Freed(ledger[x])
                /\ x \notin raced' /\ LiveRecord(x)' => x \notin raced /\ LiveRecord(x)
    <2>1. CASE x = f.b
      <3>1. \A s \in ledger'[x] : s.instance \in 0 .. instance.last /\ ~s.freed
        BY <1>7, <1>9, <2>1
      <3>2. x \notin raced' => x \notin raced /\ LiveRecord(x)
        BY <1>5, <1>8, <2>1 DEF LiveRecord
      <3> QED
        BY <1>2, <3>1, <3>2 DEF Freed, HooksInv, Numbered, Old
    <2>2. CASE x # f.b
      BY <1>2, <1>8, <1>9, <2>2 DEF HooksInv, Numbered, Old, Freed, LiveRecord
    <2> QED
      BY <2>1, <2>2
  <1>11. TrustedReportIsRight' /\ loaded.phase = "running" /\ \A g \in Calls(t)' : Fine(g)
    BY <1>2, <1>4, QuietReports, IsRunning, CallsFine
  <1> QED
    BY <1>2, <1>3, <1>4, <1>9, <1>10, <1>11, TableStep

\* Evict keeps the invariant: a forgotten record was a freed one.
LEMMA EvictStep ==
    ASSUME HooksInv, NEW b \in Blocks, Evict(b)
    PROVE  HooksInv'
  <1>1. /\ UNCHANGED <<loaded, mem, instance, ring, stack, reports, wronged, raced>>
        /\ Freed(ledger[b]) /\ ledger' = [ledger EXCEPT ![b] = {}]
    BY DEF Evict
  <1>2. Stacked' /\ \A u \in Threads : Same(u)
    BY <1>1, AllSame DEF HooksInv
  <1>3. loaded.phase = "running"
    BY <1>1 DEF HooksInv, Loaded, Freed
  <1>4. /\ Tables' /\ ledger'[b] = {} /\ \A x \in Blocks \ {b} : ledger'[x] = ledger[x]
    BY <1>1 DEF HooksInv, Tables
  <1>5. \A x \in Blocks :
              /\ \A r \in ledger'[x] : r.instance \in 0 .. instance.last
              /\ ring'[x] \subseteq 0 .. instance.last
              /\ x \notin wronged /\ Keeps(x) /\ instance.of[x] # 0 => instance.of[x] \notin ring'[x]
    BY <1>1, <1>4 DEF HooksInv, Numbered, Old
  <1>6. \A x \in Blocks : /\ Freed(ledger'[x]) => Freed(ledger[x])
                          /\ LiveRecord(x)' => LiveRecord(x)
    BY <1>4 DEF LiveRecord, Freed
  <1>7. TrustedReportIsRight'
    BY <1>1, QuietReports
  <1>8. CASE Threads = {}
    <2> DEFINE t == CHOOSE x : x \notin Threads
    <2>1. \A x : /\ Owner(t, x)' <=> Owner(t, x)
                 /\ Moving(t, x)' <=> Moving(t, x)
                 /\ Gives(t, x)' <=> Gives(t, x)
                 /\ Erases(t, x)' <=> Erases(t, x)
                 /\ Passes(t, x)' <=> Passes(t, x)
      BY <1>1, SameStack DEF Same
    <2> QED
      BY <1>1, <1>2, <1>3, <1>4, <1>5, <1>6, <1>7, <1>8, <2>1, TableStep
  <1>9. ASSUME NEW t \in Threads
        PROVE  HooksInv'
    <2>1. \A g \in Calls(t)' : Fine(g)
      BY <1>2, CallsFine DEF Same
    <2>2. \A u \in Threads \ {t} : Same(u)
      BY <1>2
    <2>3. \A x : /\ Owner(t, x)' <=> Owner(t, x)
                 /\ Moving(t, x)' <=> Moving(t, x)
                 /\ Gives(t, x)' <=> Gives(t, x)
                 /\ Erases(t, x)' <=> Erases(t, x)
                 /\ Passes(t, x)' <=> Passes(t, x)
      BY <1>2 DEF Same
    <2> QED
      BY <1>1, <1>2, <1>3, <1>4, <1>5, <1>6, <1>7, <2>1, <2>2, <2>3, TableStep
  <1> QED
    BY <1>8, <1>9

(***************************************************************************)
(* Loading, and the whole                                                  *)
(***************************************************************************)
LEMMA InitHooksInv == Init => HooksInv
  <1> SUFFICES ASSUME Init PROVE HooksInv
    OBVIOUS
  <1>1. PICK s \in Setups : loaded = [phase |-> "start", config |-> s[1], replaced |-> s[2], out |-> NotLoaded,
                                      genuine |-> {}, complete |-> FALSE]
    BY DEF Init
  <1>2. /\ mem = [b \in Blocks |-> [who |-> "free", heap |-> "mm"]]
        /\ ledger = [b \in Blocks |-> {}]
        /\ instance = [last |-> 0, of |-> [b \in Blocks |-> 0]]
        /\ ring = [b \in Blocks |-> {}]
        /\ stack = [t \in Threads |-> <<>>]
        /\ reports = {} /\ wronged = {} /\ raced = {}
    BY DEF Init
  <1>3. ~Green /\ loaded.out.confidence # "kVerified" /\ loaded.out.installed = {}
    BY <1>1 DEF Green, NotLoaded
  <1>4. StartupIsHonest
    BY <1>3 DEF StartupIsHonest, Green
  <1>5. Loaded /\ Tables
    BY <1>1, <1>2, <1>3, <1>4 DEF Loaded, Tables
  <1>6. Stacked
    BY <1>2 DEF Stacked
  <1>7. \A t \in Threads : stack[t] = <<>>
    BY <1>2
  <1>8. /\ \A t \in Threads : Calls(t) = {}
        /\ \A t \in Threads : \A x : ~Owner(t, x) /\ ~Moving(t, x)
    BY <1>7, Nothing
  <1>9. Owned
    BY <1>3, <1>8 DEF Owned
  <1>10. Numbered /\ Old
    BY <1>2, <1>8 DEF Numbered, Old
  <1>11. TrustedReportIsRight
    BY <1>2 DEF TrustedReportIsRight
  <1> QED
    BY <1>3, <1>5, <1>6, <1>9, <1>10, <1>11 DEF HooksInv

\* PluginLoad keeps the invariant: before it nothing has happened.
LEMMA PluginLoadStep ==
    ASSUME HooksInv, PluginLoad
    PROVE  HooksInv'
  <1>1. Loaded' /\ UNCHANGED <<mem, ledger, instance, ring, stack, reports, wronged, raced>>
    BY PluginLoadIsHonest DEF HooksInv, PluginLoad
  <1>2. /\ \A t \in Threads : stack[t] = <<>>
        /\ \A b \in Blocks : ledger[b] = {}
        /\ reports = {}
    BY DEF HooksInv, Loaded, PluginLoad
  <1>3. Tables' /\ Stacked' /\ \A u \in Threads : Same(u)
    BY <1>1, AllSame DEF HooksInv, Tables
  <1>4. /\ \A t \in Threads : Calls(t)' = {}
        /\ \A t \in Threads : \A x : ~Owner(t, x)' /\ ~Moving(t, x)'
    BY <1>2, <1>3, Nothing DEF Same
  <1>5. Owned'
    BY <1>4 DEF Owned
  <1>6. Numbered'
    BY <1>1, <1>4 DEF Numbered, HooksInv
  <1>7. Old'
    <2>1. \A x \in Blocks : Keeps(x)' => Keeps(x)
      BY <1>1, <1>4 DEF Keeps
    <2> QED
      BY <1>1, <1>4, <2>1 DEF Old, HooksInv
  <1>8. \A b \in Blocks : ~Freed(ledger[b])' /\ ~LiveRecord(b)'
    BY <1>1, <1>2 DEF Freed, LiveRecord
  <1>9. Marked' /\ Cleared'
    BY <1>8 DEF Marked, Cleared
  <1>10. TrustedReportIsRight'
    BY <1>1, <1>2 DEF TrustedReportIsRight
  <1> QED
    BY <1>1, <1>3, <1>5, <1>6, <1>7, <1>9, <1>10 DEF HooksInv

\* Neither the module list nor a pause tells the proofs anything.
LEMMA QuietStep ==
    ASSUME HooksInv, UNCHANGED <<mem, ledger, instance, ring, stack, reports, wronged, raced>>,
           UNCHANGED loaded \/ PostLoad
    PROVE  HooksInv'
  <1>1. /\ loaded'.phase = loaded.phase /\ loaded'.config = loaded.config /\ loaded'.out = loaded.out
        /\ loaded'.replaced = loaded.replaced /\ loaded'.genuine = loaded.genuine
        /\ DOMAIN loaded' = DOMAIN loaded
    BY DEF PostLoad, HooksInv, Loaded
  <1>2. Loaded' /\ (Green' <=> Green) /\ \A heap : Hooked(heap)' <=> Hooked(heap)
    <2>1. StartupIsHonest' /\ (Green' <=> Green)
      BY <1>1 DEF HooksInv, Loaded, StartupIsHonest, Green, config
    <2>2. \A heap : Hooked(heap)' <=> Hooked(heap)
      BY <1>1 DEF Hooked, Entry, Installed
    <2> QED
      BY <1>1, <2>1, <2>2 DEF HooksInv, Loaded
  <1>3. \A b : Seen(b)' <=> Seen(b)
    BY <1>2 DEF Seen
  <1>4. Tables' /\ Stacked' /\ \A u \in Threads : Same(u)
    BY AllSame DEF HooksInv, Tables
  <1>5. Owned'
    BY <1>2, <1>3, <1>4 DEF Owned, HooksInv, Same
  <1>6. Numbered'
    BY <1>4 DEF Numbered, HooksInv, Same
  <1>7. Old'
    <2>1. \A x \in Blocks : Keeps(x)' <=> Keeps(x)
      BY <1>4 DEF Keeps, Same
    <2> QED
      BY <1>4, <2>1 DEF Old, HooksInv, Same
  <1>8. Green => Marked'
    BY <1>3, <1>4 DEF Marked, HooksInv, Same, Freed
  <1>9. Green => Cleared'
    <2>1. \A x : (LiveRecord(x)' <=> LiveRecord(x)) /\ (Unseen(x)' <=> Unseen(x))
      BY <1>3 DEF LiveRecord, Freed, Unseen
    <2> QED
      BY <1>4, <2>1 DEF Cleared, HooksInv, Same
  <1>10. TrustedReportIsRight'
    BY <1>1 DEF TrustedReportIsRight, HooksInv
  <1> QED
    BY <1>2, <1>4, <1>5, <1>6, <1>7, <1>8, <1>9, <1>10 DEF HooksInv

\* Every call of the game keeps the invariant.
LEMMA GameStep ==
    ASSUME HooksInv, NEW t \in Threads, Game(t)
    PROVE  HooksInv'
  BY GameAllocatesStep, GameFreesStep, GameReallocatesStep, GameUsesStep DEF Game

\* Every step of a hook keeps the invariant.
LEMMA HookStep ==
    ASSUME HooksInv, NEW t \in Threads, Hook(t)
    PROVE  HooksInv'
  BY OAllocateStep, RecordAllocStep, FreeEntersStep, FindForFreeStep, MarkStep, OFreeStep,
     FreeReturnsStep, PublishStep, OReallocateStep, EraseOldStep, WlFindStep, WlRefreshStep DEF Hook

\* Every step of the hooks and the handlers keeps the invariant.
LEMMA FaultNextHooksInv ==
    ASSUME HooksInv, [FaultNext]_<<vars, faultVars>>
    PROVE  HooksInv'
  <1>1. CASE PluginLoad
    BY <1>1, PluginLoadStep
  <1>2. CASE PostLoad
    BY <1>2, QuietStep DEF PostLoad
  <1>3. CASE UNCHANGED <<loaded, mem, ledger, instance, ring, stack, reports, wronged, raced>>
    BY <1>3, QuietStep
  <1>4. CASE \E t \in Threads : Game(t) \/ Hook(t)
    BY <1>4, GameStep, HookStep
  <1>5. CASE \E b \in Blocks : Evict(b)
    BY <1>5, EvictStep
  <1>6. Finished \/ UNCHANGED <<vars, faultVars>> =>
            UNCHANGED <<loaded, mem, ledger, instance, ring, stack, reports, wronged, raced>>
    BY DEF Finished, vars
  <1>7. (\E t \in Threads : Handler(t)) =>
            UNCHANGED <<loaded, mem, ledger, instance, ring, stack, reports, wronged, raced>>
    BY DEF Handler, HandleException, FindLedger, FindFreeRing, DescribeProvenance, ContinueSearch, vars
  <1> QED
    BY <1>1, <1>2, <1>3, <1>4, <1>5, <1>6, <1>7 DEF FaultNext

\* The inductive invariant of the hooks.
THEOREM FaultSpecHooksInv == FaultSpec => []HooksInv
  <1>1. FaultInit => HooksInv
    BY InitHooksInv DEF FaultInit
  <1>2. HooksInv /\ [FaultNext]_<<vars, faultVars>> => HooksInv'
    BY FaultNextHooksInv
  <1> QED
    BY <1>1, <1>2, PTL DEF FaultSpec

\* GREEN is said only when every target is the committed function and every hook
\* that was asked for is in place; a verified confidence only when the memory
\* manager's functions are genuine (HookInstaller, HookHealth).
THEOREM SpecStartupIsHonest == FaultSpec => []StartupIsHonest
  <1>1. HooksInv => StartupIsHonest
    BY DEF HooksInv, Loaded
  <1> QED
    BY <1>1, FaultSpecHooksInv, PTL

\* In a GREEN run every double-free report that is trusted is about a block that
\* the game freed without owning it (hk_Deallocate, hk_SfFree and the guard).
THEOREM SpecTrustedReportIsRight == FaultSpec => []TrustedReportIsRight
  <1>1. HooksInv => TrustedReportIsRight
    BY DEF HooksInv
  <1> QED
    BY <1>1, FaultSpecHooksInv, PTL

\* A free record that is published after the original free never carries the
\* instance of the block that lives at the address by then (hk_SfFree).
THEOREM SpecFreeRecordIsOld == FaultSpec => []FreeRecordIsOld
  <1>1. HooksInv => FreeRecordIsOld
    BY DEF HooksInv, Old, Keeps, FreeRecordIsOld
  <1> QED
    BY <1>1, FaultSpecHooksInv, PTL

\* A call that is about to erase a block's record has the block in its frame.
LEMMA ErasingInHook ==
    ASSUME NEW t \in Threads, NEW b, Erases(t, b)
    PROVE  InHook(b)
  <1>1. PICK i \in 1 .. Len(stack[t]) : EndsRecord(stack[t][i], b)
    BY DEF Erases, Calls, CallsOf
  <1>2. b = stack[t][i].b
    BY <1>1 DEF EndsRecord
  <1> QED
    BY <1>1, <1>2 DEF InHook

\* In a GREEN run no block that is back with the allocator is recorded as live once
\* its hooks are done (the record is marked before the original free).
THEOREM SpecFreedIsRecorded == FaultSpec => []FreedIsRecorded
  <1>1. HooksInv => FreedIsRecorded
    <2> SUFFICES ASSUME HooksInv, Green, NEW b \in Blocks \ (wronged \cup raced),
                        mem[b].who = "free", ~InHook(b), LiveRecord(b)
                 PROVE  FALSE
      BY DEF FreedIsRecorded, Green, LiveRecord
    <2>1. PICK t \in Threads : Erases(t, b)
      BY DEF HooksInv, Cleared
    <2> QED
      BY <2>1, ErasingInHook
  <1> QED
    BY <1>1, FaultSpecHooksInv, PTL

(***************************************************************************)
(* The handler                                                             *)
(***************************************************************************)
\* What the hooks of the other threads leave a handler with: a block that stays
\* the game's keeps its heap, and no new instance; and raced forgets no block that
\* no hook has.
Remains(b) == mem[b].who = "live" /\ mem'[b].who = "live" =>
    mem'[b].heap = mem[b].heap /\ instance'.of[b] \in {instance.of[b], 0}
Forgets(b) == b \in raced /\ b \notin raced' => mem[b].who = "hook"

\* A step that only hands a block over.
LEMMA HandsOver ==
    ASSUME Tables, NEW b \in Blocks, NEW who, mem' = [mem EXCEPT ![b].who = who], UNCHANGED instance
    PROVE  \A x \in Blocks : Remains(x)
  BY DEF Tables, Remains

\* A block that the allocator hands out was not the game's.
LEMMA TakenRemains ==
    ASSUME Tables, NEW b \in Blocks, NEW who, NEW heap, Takes(b, who, heap),
           UNCHANGED instance \/ instance' = [instance EXCEPT !.of[b] = 0]
    PROVE  \A x \in Blocks : Remains(x)
  BY DEF Tables, Remains, Takes

\* A step that moves no block.
LEMMA QuietRemains ==
    ASSUME UNCHANGED <<mem, instance>>
    PROVE  \A x : Remains(x)
  BY DEF Remains

\* A free, hooked or not.
LEMMA FreesRemain ==
    ASSUME Tables, NEW t, NEW b \in Blocks, Frees(t, b), UNCHANGED instance
    PROVE  \A x \in Blocks : Remains(x)
  <1>1. PICK who : mem' = [mem EXCEPT ![b].who = who]
    <2>1. CASE mem' = [mem EXCEPT ![b].who = IF @ = "live" THEN "hook" ELSE @]
      <3> DEFINE w == IF mem[b].who = "live" THEN "hook" ELSE mem[b].who
      <3>1. mem' = [mem EXCEPT ![b].who = w]
        BY <2>1 DEF Tables
      <3> QED
        BY <3>1
    <2>2. CASE mem' = [mem EXCEPT ![b].who = "free"]
      BY <2>2
    <2> QED
      BY <2>1, <2>2 DEF Frees
  <1> QED
    BY <1>1, HandsOver

\* The calls of the game leave a handler with that.
LEMMA GameRemains ==
    ASSUME HooksInv, NEW t \in Threads, Game(t)
    PROVE  \A x \in Blocks : Remains(x) /\ Forgets(x)
  <1>1. \A x : Forgets(x)
    <2>1. UNCHANGED raced
      BY DEF Game, GameAllocates, GameFrees, HkRelease, GameReallocates, GameUses
    <2> QED
      BY <2>1 DEF Forgets
  <1>2. Tables
    BY DEF HooksInv
  <1>3. ASSUME NEW heap, GameAllocates(t, heap)
        PROVE  \A x \in Blocks : Remains(x)
    BY <1>2, <1>3, TakenRemains, QuietRemains DEF GameAllocates
  <1>4. ASSUME NEW b \in Blocks, GameFrees(t, b) \/ HkRelease(t, b)
        PROVE  \A x \in Blocks : Remains(x)
    <2>1. UNCHANGED instance
      BY <1>4 DEF GameFrees, HkRelease
    <2>2. Frees(t, b) \/ mem' = [mem EXCEPT ![b].who = "leaked"]
      BY <1>4 DEF GameFrees, HkRelease
    <2> QED
      BY <1>2, <2>1, <2>2, FreesRemain, HandsOver
  <1>5. ASSUME NEW b \in Blocks, GameReallocates(t, b)
        PROVE  \A x \in Blocks : Remains(x)
    <2>1. CASE mem' = [mem EXCEPT ![b].who = "hook"] /\ UNCHANGED instance
      BY <1>2, <2>1, HandsOver
    <2>2. CASE \E new \in Blocks : /\ Moves(b, new, "live", mem[b].heap)
                                   /\ instance' = [instance EXCEPT !.of[new] = 0]
      <3>1. PICK heap : heap = mem[b].heap
        OBVIOUS
      <3>2. PICK new \in Blocks : /\ Moves(b, new, "live", heap)
                                  /\ instance' = [instance EXCEPT !.of[new] = 0]
        BY <2>2, <3>1
      <3>3. /\ mem'[new].heap = heap
            /\ new # b => mem[new].who = "free" /\ mem'[b].who = "free"
            /\ \A x \in Blocks \ {b, new} : mem'[x] = mem[x]
        BY <1>2, <3>2, MovesIs
      <3>4. instance'.of[new] = 0 /\ \A x \in Blocks \ {new} : instance'.of[x] = instance.of[x]
        BY <1>2, <3>2 DEF Tables
      <3> QED
        BY <3>1, <3>3, <3>4 DEF Remains
    <2> QED
      BY <1>5, <2>1, <2>2 DEF GameReallocates
  <1>6. ASSUME NEW b \in Blocks, GameUses(t, b)
        PROVE  \A x \in Blocks : Remains(x)
    BY <1>6, QuietRemains DEF GameUses
  <1> QED
    BY <1>1, <1>3, <1>4, <1>5, <1>6 DEF Game

\* Hooks that record a block have it.
LEMMA RecordsRemain ==
    ASSUME HooksInv, NEW t \in Threads, NEW b \in Blocks, Owner(t, b),
           NEW n, instance' = [last |-> IF n # 0 THEN n ELSE instance.last, of |-> [instance.of EXCEPT ![b] = n]],
           raced' = raced \ {b}, UNCHANGED mem \/ mem' = [mem EXCEPT ![b].who = "live"]
    PROVE  \A x \in Blocks \ wronged : Remains(x) /\ Forgets(x)
  <1>1. b \notin wronged => mem[b].who = "hook"
    BY DEF HooksInv, Owned
  <1>2. ASSUME NEW x \in Blocks \ wronged, x = b
        PROVE  Remains(x) /\ Forgets(x)
    BY <1>1, <1>2 DEF Remains, Forgets
  <1>3. ASSUME NEW x \in Blocks \ wronged, x # b
        PROVE  Remains(x) /\ Forgets(x)
    <2>1. instance'.of[x] = instance.of[x] /\ mem'[x] = mem[x]
      BY <1>3 DEF HooksInv, Tables
    <2> QED
      BY <1>3, <2>1 DEF Remains, Forgets
  <1> QED
    BY <1>2, <1>3

\* And so do the steps of the hooks: one that records a block has it.
LEMMA HookRemains ==
    ASSUME HooksInv, NEW t \in Threads, Hook(t)
    PROVE  \A x \in Blocks \ wronged : Remains(x) /\ Forgets(x)
  <1>1. Tables /\ (stack[t] # <<>> => Named(Top(t)))
    BY Running DEF HooksInv
  <1>2. raced \subseteq raced' => \A x : Forgets(x)
    BY DEF Forgets
  <1>3. CASE OAllocate(t)
    <2>1. raced \subseteq raced' /\ UNCHANGED instance
      BY <1>3 DEF OAllocate
    <2>2. UNCHANGED mem \/ \E b \in Blocks, heap \in {Top(t).heap} : Takes(b, "hook", heap)
      BY <1>3 DEF OAllocate
    <2> QED
      BY <1>1, <1>2, <2>1, <2>2, TakenRemains, QuietRemains
  <1>4. CASE RecordAlloc(t)
    <2>1. PICK b : b = Top(t).b
      OBVIOUS
    <2>2. PICK n : n = IF Top(t).fn = "SfAlloc" THEN instance.last + 1 ELSE 0
      OBVIOUS
    <2>3. /\ stack[t] # <<>> /\ Top(t).fn \in AllocFns /\ Top(t).pc = "record" /\ GivesBack(t, b)
      BY <1>4, <2>1 DEF RecordAlloc, At, AllocFns
    <2>4. b \in Blocks /\ Owner(t, b)
      BY <1>1, <2>1, <2>3 DEF Named, Owner, Owns
    <2>5. UNCHANGED mem \/ mem' = [mem EXCEPT ![b].who = "live"]
      BY <2>3 DEF GivesBack
    <2>6. /\ instance' = [last |-> IF n # 0 THEN n ELSE instance.last, of |-> [instance.of EXCEPT ![b] = n]]
          /\ raced' = raced \ {b}
      BY <1>4, <2>1, <2>2 DEF RecordAlloc
    <2> QED
      BY <2>4, <2>5, <2>6, RecordsRemain
  <1>5. CASE RecordRealloc(t)
    <2>1. PICK b : b = Top(t).new
      OBVIOUS
    <2>2. PICK n : n = IF Top(t).fn = "SfRealloc" THEN instance.last + 1 ELSE 0
      OBVIOUS
    <2>3. /\ stack[t] # <<>> /\ Top(t).fn \in ReallocFns /\ Top(t).pc = "record" /\ GivesBack(t, b)
      BY <1>5, <2>1 DEF RecordRealloc, At, ReallocFns
    <2>4. b \in Blocks /\ Owner(t, b)
      BY <1>1, <2>1, <2>3 DEF Named, Owner, Owns
    <2>5. UNCHANGED mem \/ mem' = [mem EXCEPT ![b].who = "live"]
      BY <2>3 DEF GivesBack
    <2>6. /\ instance' = [last |-> IF n # 0 THEN n ELSE instance.last, of |-> [instance.of EXCEPT ![b] = n]]
          /\ raced' = raced \ {b}
      BY <1>5, <2>1, <2>2 DEF RecordRealloc
    <2> QED
      BY <2>4, <2>5, <2>6, RecordsRemain
  <1>6. CASE FreeEnters(t)
    <2>1. PICK b : b = Top(t).b
      OBVIOUS
    <2>2. stack[t] # <<>> /\ Top(t).fn \in FreeFns /\ raced \subseteq raced' /\ UNCHANGED instance
      BY <1>6 DEF FreeEnters, At, FreeFns
    <2>3. b \in Blocks
      BY <1>1, <2>1, <2>2 DEF Named, FreeFns, AllocFns
    <2>4. UNCHANGED mem \/ Prevents(b)
      BY <1>6, <2>1 DEF FreeEnters
    <2>5. Prevents(b) => \E who : mem' = [mem EXCEPT ![b].who = who]
      <3> DEFINE w == IF mem[b].who = "hook" THEN "leaked" ELSE mem[b].who
      <3>1. Prevents(b) => mem' = [mem EXCEPT ![b].who = w]
        BY <1>1, <2>3 DEF Prevents, Tables
      <3> QED
        BY <3>1
    <2> QED
      BY <1>1, <1>2, <2>2, <2>3, <2>4, <2>5, HandsOver, QuietRemains
  <1>7. CASE OFree(t)
    <2>1. PICK b : b = Top(t).b
      OBVIOUS
    <2>2. stack[t] # <<>> /\ Top(t).fn \in FreeFns /\ raced \subseteq raced' /\ UNCHANGED instance
      BY <1>7 DEF OFree, At, FreeFns
    <2>3. b \in Blocks
      BY <1>1, <2>1, <2>2 DEF Named, FreeFns, AllocFns
    <2>4. UNCHANGED mem \/ mem' = [mem EXCEPT ![b].who = "free"]
      BY <1>7, <2>1 DEF OFree
    <2> QED
      BY <1>1, <1>2, <2>2, <2>3, <2>4, HandsOver, QuietRemains
  <1>8. CASE OReallocate(t)
    <2>1. PICK b : b = Top(t).b
      OBVIOUS
    <2>2. stack[t] # <<>> /\ Top(t).fn \in ReallocFns /\ raced \subseteq raced' /\ UNCHANGED instance
      BY <1>8 DEF OReallocate, At, ReallocFns
    <2>3. b \in Blocks
      BY <1>1, <2>1, <2>2 DEF Named, ReallocFns, AllocFns
    <2>4. \/ UNCHANGED mem \/ mem' = [mem EXCEPT ![b].who = "live"]
          \/ \E new \in Blocks, heap \in {Top(t).heap} : Moves(b, new, "hook", heap)
      BY <1>8, <2>1 DEF OReallocate
    <2>5. ASSUME NEW new \in Blocks, NEW heap, Moves(b, new, "hook", heap)
          PROVE  \A x \in Blocks : Remains(x)
      <3>1. /\ mem'[new].who = "hook" /\ (new # b => mem'[b].who = "free")
            /\ \A x \in Blocks \ {b, new} : mem'[x] = mem[x]
        BY <1>1, <2>3, <2>5, MovesIs
      <3> QED
        BY <2>2, <3>1 DEF Remains
    <2> QED
      BY <1>1, <1>2, <2>2, <2>3, <2>4, <2>5, HandsOver, QuietRemains
  <1>9. CASE FindForFree(t) \/ Mark(t) \/ FreeReturns(t) \/ PublishScaleformFree(t) \/ EraseOld(t) \/ WlFind(t)
             \/ WlRefresh(t)
    <2>1. UNCHANGED <<mem, instance>> /\ raced \subseteq raced'
      BY <1>9 DEF FindForFree, Mark, FreeReturns, PublishScaleformFree, EraseOld, WlFind, WlRefresh
    <2> QED
      BY <1>2, <2>1, QuietRemains
  <1> QED
    BY <1>3, <1>4, <1>5, <1>6, <1>7, <1>8, <1>9 DEF Hook

\* What a handler keeps of the register it looks at, and what it goes on watching.
SameRegister(f, g) ==
    /\ DOMAIN g = DOMAIN f /\ g.pc = f.pc /\ g.regs = f.regs /\ g.b = f.b
    /\ g.rec = f.rec /\ g.free = f.free /\ g.kind = f.kind
Watched(f, g) ==
    /\ f.held => g.held
    /\ f.gone => g.gone
    /\ f.b \in InUse' => g.held
    /\ f.b \in NotLive' => g.gone

\* The hooks of the other threads do not take from a handler what it has seen.
LEMMA WatchStep ==
    ASSUME Handled, DOMAIN fault' = Threads,
           \A u \in Threads : /\ SameRegister(fault[u], fault'[u])
                              /\ fault[u].pc # "idle" /\ fault[u].b \in Blocks => Watched(fault[u], fault'[u]),
           loaded'.phase = "start" => loaded.phase = "start", Green' <=> Green,
           \A heap : Hooked(heap)' <=> Hooked(heap), wronged \subseteq wronged',
           \A x \in Blocks \ wronged : Remains(x) /\ Forgets(x)
    PROVE  Handled'
  <1>1. ASSUME NEW u \in Threads
        PROVE  Looks(u)' /\ Knows(u)' /\ Concludes(u)'
    <2>1. PICK f : f = fault[u]
      OBVIOUS
    <2>2. PICK g : g = fault'[u]
      OBVIOUS
    <2>3. SameRegister(f, g) /\ (f.pc # "idle" /\ f.b \in Blocks => Watched(f, g))
      BY <2>1, <2>2
    <2>4. Looks(u) /\ Knows(u) /\ Concludes(u)
      BY DEF Handled
    <2>5. /\ DOMAIN g = {"pc", "regs", "b", "rec", "free", "held", "gone", "kind"}
          /\ g.pc \in {"idle", "ledger", "ring", "read", "report"}
          /\ g.regs \in Seq(Values) /\ g.b \in Values
          /\ g.pc \in {"ring", "read", "report"} => g.b \in Blocks
      BY <2>1, <2>3, <2>4 DEF Looks, SameRegister
    <2>6. g.b \in Blocks /\ g.pc # "idle" => /\ g.b \in InUse' => g.held
                                             /\ g.b \in NotLive' => g.gone
      BY <2>3, Zenon DEF SameRegister, Watched
    <2>7. Looks(u)'
      BY <2>2, <2>5, <2>6 DEF Looks, Values
    <2>8. FreedFact(g) <=> FreedFact(f)
      BY <2>3 DEF FreedFact, SameRegister
    <2>9. Concludes(u)'
      <3>1. /\ g.pc \in {"read", "report"} => (g.rec # {} \/ g.free # {})
            /\ g.pc = "report" => /\ g.kind \in LiveKinds => ~FreedFact(g)
                                  /\ g.kind \in UseAfterFree => FreedFact(g)
        BY <2>1, <2>3, <2>4, <2>8 DEF Concludes, SameRegister
      <3> QED
        BY <2>2, <3>1 DEF Concludes, FreedFact, Freed
    <2>10. ASSUME g.pc \in {"ring", "read", "report"}, g.b \notin wronged'
           PROVE  /\ Green /\ g.b \notin raced' /\ g.rec # {} /\ ~Freed(g.rec) => g.held
                  /\ Green /\ ~g.gone /\ Seen(g.b)' => ~Freed(g.rec)
                  /\ g.pc # "ring" /\ ~g.gone => g.free \cap {instance'.of[g.b]} \subseteq {0}
      <3>1. f.b = g.b /\ f.b \in Blocks \ wronged /\ f.pc # "idle" /\ f.pc = g.pc /\ Watched(f, g)
        BY <2>3, <2>5, <2>10 DEF SameRegister
      <3>2. Remains(f.b) /\ Forgets(f.b)
        BY <3>1
      <3>3. /\ Green /\ f.b \notin raced /\ f.rec # {} /\ ~Freed(f.rec) => f.held
            /\ Green /\ ~f.gone /\ Seen(f.b) => ~Freed(f.rec)
            /\ f.pc # "ring" /\ ~f.gone => f.free \cap {instance.of[f.b]} \subseteq {0}
        BY <2>1, <2>4, <2>10, <3>1 DEF Knows
      <3>4. (f.b \in InUse => f.held) /\ (f.b \in NotLive => f.gone)
        BY <2>1, <2>4, <3>1 DEF Looks
      <3>5. g.rec = f.rec /\ g.free = f.free
        BY <2>3 DEF SameRegister
      <3>6. ASSUME Green, f.b \notin raced', f.rec # {}, ~Freed(f.rec)
            PROVE  g.held
        <4>1. f.b \notin raced \/ f.b \in InUse
          BY <3>1, <3>2, <3>6 DEF Forgets, InUse
        <4>2. f.held
          BY <3>3, <3>4, <3>6, <4>1, Zenon
        <4> QED
          BY <3>1, <4>2, Zenon DEF Watched
      <3>7. ASSUME ~g.gone
            PROVE  /\ ~f.gone /\ mem[f.b].who = "live" /\ mem'[f.b].who = "live"
        <4>1. ~f.gone /\ f.b \notin NotLive'
          BY <3>1, <3>7, Zenon DEF Watched
        <4>2. f.b \notin NotLive
          BY <3>4, <4>1, Zenon
        <4>3. mem[f.b].who = "live" /\ mem'[f.b].who = "live"
          BY <3>1, <4>1, <4>2 DEF NotLive
        <4> QED
          BY <4>1, <4>3
      <3>8. ASSUME Green, ~g.gone, Seen(f.b)'
            PROVE  ~Freed(f.rec)
        <4>1. ~f.gone /\ mem'[f.b].heap = mem[f.b].heap
          BY <3>2, <3>7, <3>8 DEF Remains
        <4>2. Seen(f.b)
          BY <3>8, <4>1 DEF Seen
        <4> QED
          BY <3>3, <3>8, <4>1, <4>2, Zenon
      <3>9. ASSUME f.pc # "ring", ~g.gone
            PROVE  f.free \cap {instance'.of[f.b]} \subseteq {0}
        <4>1. ~f.gone /\ instance'.of[f.b] \in {instance.of[f.b], 0}
          BY <3>2, <3>7, <3>9 DEF Remains
        <4>2. f.free \cap {instance.of[f.b]} \subseteq {0}
          BY <3>3, <3>9, <4>1, Zenon
        <4> QED
          BY <4>1, <4>2
      <3>10. Green /\ f.b \notin raced' /\ f.rec # {} /\ ~Freed(f.rec) => g.held
        BY <3>6
      <3>11. Green /\ ~g.gone /\ Seen(f.b)' => ~Freed(f.rec)
        BY <3>8
      <3>12. f.pc # "ring" /\ ~g.gone => f.free \cap {instance'.of[f.b]} \subseteq {0}
        BY <3>9
      <3> QED
        BY <3>1, <3>5, <3>10, <3>11, <3>12, Zenon
    <2>11. Knows(u)'
      BY <2>2, <2>10 DEF Knows, Freed
    <2> QED
      BY <2>7, <2>9, <2>11
  <1>2. loaded'.phase = "start" => \A u \in Threads : fault'[u].pc = "idle"
    BY DEF Handled, SameRegister
  <1> QED
    BY <1>1, <1>2 DEF Handled

\* The next register is looked at afresh.
LEMMA NextRegisterIs ==
    ASSUME NEW f, f.regs \in Seq(Values), NEW g, g = NextRegister(f)
    PROVE  /\ DOMAIN g = {"pc", "regs", "b", "rec", "free", "held", "gone", "kind"}
           /\ g.pc \in {"idle", "ledger"} /\ g.regs \in Seq(Values) /\ g.b \in Values
           /\ g.b \in Blocks /\ g.pc # "idle" => /\ g.b \in InUse => g.held
                                                 /\ g.b \in NotLive => g.gone
  <1>1. CASE f.regs = <<>>
    <2>1. g = NotHandling
      BY <1>1 DEF NextRegister
    <2>2. <<>> \in Seq(Values)
      OBVIOUS
    <2> QED
      BY <2>1, <2>2 DEF NotHandling, Values
  <1>2. CASE f.regs # <<>>
    <2>1. PICK x : x = Head(f.regs)
      OBVIOUS
    <2>2. x \in Values /\ Tail(f.regs) \in Seq(Values)
      BY <1>2, <2>1
    <2>3. PICK rest : rest = Tail(f.regs)
      OBVIOUS
    <2>4. g = [pc |-> "ledger", regs |-> rest, b |-> x, rec |-> {}, free |-> {},
               held |-> x \in InUse, gone |-> x \in NotLive, kind |-> "none"]
      BY <1>2, <2>1, <2>3 DEF NextRegister, NotHandling
    <2>5. /\ DOMAIN g = {"pc", "regs", "b", "rec", "free", "held", "gone", "kind"}
          /\ g.pc = "ledger" /\ g.regs = rest /\ g.b = x
      BY <2>4
    <2>6. g.held = (x \in InUse) /\ g.gone = (x \in NotLive)
      BY <2>4
    <2>7. (x \in InUse => g.held) /\ (x \in NotLive => g.gone)
      BY <2>6, Zenon
    <2> QED
      BY <2>2, <2>3, <2>5, <2>7
  <1> QED
    BY <1>1, <1>2

\* One handler's step changes its own locals.
LEMMA HandlerGoesOn ==
    ASSUME Handled, loaded.phase = "running", NEW t \in Threads, NEW g, fault' = [fault EXCEPT ![t] = g],
           UNCHANGED <<loaded, mem, ledger, instance, ring, stack, wronged, raced>>,
           DOMAIN g = {"pc", "regs", "b", "rec", "free", "held", "gone", "kind"},
           g.pc \in {"idle", "ledger", "ring", "read", "report"}, g.regs \in Seq(Values), g.b \in Values,
           g.pc \in {"ring", "read", "report"} => g.b \in Blocks,
           g.b \in Blocks /\ g.pc # "idle" => /\ g.b \in InUse => g.held
                                              /\ g.b \in NotLive => g.gone,
           g.pc \in {"ring", "read", "report"} /\ g.b \notin wronged =>
               /\ Green /\ g.b \notin raced /\ g.rec # {} /\ ~Freed(g.rec) => g.held
               /\ Green /\ ~g.gone /\ Seen(g.b) => ~Freed(g.rec)
               /\ g.pc # "ring" /\ ~g.gone => g.free \cap {instance.of[g.b]} \subseteq {0},
           g.pc \in {"read", "report"} => (g.rec # {} \/ g.free # {}),
           g.pc = "report" => /\ g.kind \in LiveKinds => ~FreedFact(g)
                              /\ g.kind \in UseAfterFree => FreedFact(g)
    PROVE  Handled'
  <1>1. DOMAIN fault' = Threads /\ fault'[t] = g /\ \A u \in Threads \ {t} : fault'[u] = fault[u]
    BY DEF Handled
  <1>2. InUse' = InUse /\ NotLive' = NotLive
    BY DEF InUse, NotLive, InHook
  <1>3. (Green' <=> Green) /\ \A x : (Seen(x)' <=> Seen(x))
    BY DEF Green, Seen, Hooked, Entry, Installed
  <1>4. Looks(t)'
    BY <1>1, <1>2 DEF Looks, Values
  <1>5. Knows(t)'
    BY <1>1, <1>3 DEF Knows, Freed
  <1>6. Concludes(t)'
    BY <1>1 DEF Concludes, FreedFact, Freed
  <1>7. ASSUME NEW u \in Threads \ {t}
        PROVE  Looks(u)' /\ Knows(u)' /\ Concludes(u)'
    <2>1. Looks(u) /\ Knows(u) /\ Concludes(u) /\ fault'[u] = fault[u]
      BY <1>1 DEF Handled
    <2>2. Looks(u)'
      BY <1>2, <2>1 DEF Looks, Values
    <2>3. Knows(u)'
      BY <1>3, <2>1 DEF Knows, Freed
    <2>4. Concludes(u)'
      BY <2>1 DEF Concludes, FreedFact, Freed
    <2> QED
      BY <2>2, <2>3, <2>4
  <1> QED
    BY <1>1, <1>4, <1>5, <1>6, <1>7 DEF Handled

\* A handler turns to its next register, or ends.
LEMMA TakesNext ==
    ASSUME Handled, loaded.phase = "running", NEW t \in Threads, NEW f, f.regs \in Seq(Values),
           fault' = [fault EXCEPT ![t] = NextRegister(f)],
           UNCHANGED <<loaded, mem, ledger, instance, ring, stack, wronged, raced>>
    PROVE  Handled'
  <1>1. PICK g : g = NextRegister(f)
    OBVIOUS
  <1>2. /\ DOMAIN g = {"pc", "regs", "b", "rec", "free", "held", "gone", "kind"}
        /\ g.pc \in {"idle", "ledger"} /\ g.regs \in Seq(Values) /\ g.b \in Values
        /\ g.b \in Blocks /\ g.pc # "idle" => /\ g.b \in InUse => g.held
                                              /\ g.b \in NotLive => g.gone
    BY <1>1, NextRegisterIs
  <1>3. fault' = [fault EXCEPT ![t] = g]
    BY <1>1
  <1>4. g.pc \notin {"ring", "read", "report"} /\ g.pc \in {"idle", "ledger", "ring", "read", "report"}
    BY <1>2
  <1> QED
    BY <1>2, <1>3, <1>4, HandlerGoesOn

\* HandleException keeps Handled.
LEMMA HandleExceptionStep ==
    ASSUME Handled, NEW t \in Threads, HandleException(t)
    PROVE  Handled'
  <1>1. PICK regs \in [1 .. MaxRegs -> Values] :
          fault' = [fault EXCEPT ![t] = NextRegister([NotHandling EXCEPT !.regs = regs])]
    BY DEF HandleException, Values
  <1>2. [NotHandling EXCEPT !.regs = regs].regs = regs
    BY DEF NotHandling
  <1>3. regs \in Seq(Values)
    BY FaultAssumption
  <1>4. /\ loaded.phase = "running"
        /\ UNCHANGED <<loaded, mem, ledger, instance, ring, stack, wronged, raced>>
    BY DEF HandleException
  <1> QED
    BY <1>1, <1>2, <1>3, <1>4, TakesNext

\* A handler that is at work: loading is done, and the locals are of one kind.
LEMMA AtWork ==
    ASSUME HooksInv, Handled, NEW t \in Threads, fault[t].pc # "idle"
    PROVE  /\ loaded.phase = "running" /\ Looks(t) /\ Knows(t) /\ Concludes(t)
           /\ fault[t].regs \in Seq(Values)
  BY DEF HooksInv, Loaded, Handled, Looks

\* FindLedger keeps Handled: what the ledger says is so while the handler looks,
\* by Cleared and Marked.
LEMMA FindLedgerStep ==
    ASSUME HooksInv, Handled, NEW t \in Threads, FindLedger(t)
    PROVE  Handled'
  <1>1. PICK f : f = fault[t]
    OBVIOUS
  <1>2. /\ f.pc = "ledger" /\ loaded.phase = "running" /\ f.regs \in Seq(Values) /\ f.b \in Values
        /\ DOMAIN f = {"pc", "regs", "b", "rec", "free", "held", "gone", "kind"}
    BY <1>1, AtWork DEF FindLedger, Looks
  <1>3. UNCHANGED <<loaded, mem, ledger, instance, ring, stack, wronged, raced>>
    BY DEF FindLedger, vars
  <1>4. CASE fault' = [fault EXCEPT ![t] = NextRegister(f)]
    BY <1>2, <1>3, <1>4, TakesNext
  <1>5. CASE /\ f.b # NoBlock
             /\ \E rec \in {ledger[f.b], {}} : fault' = [fault EXCEPT ![t].rec = rec, ![t].pc = "ring"]
    <2>1. PICK rec \in {ledger[f.b], {}} : fault' = [fault EXCEPT ![t].rec = rec, ![t].pc = "ring"]
      BY <1>5
    <2>2. f.b \in Blocks
      BY <1>2, <1>5 DEF Values
    <2> DEFINE g == [f EXCEPT !.rec = rec, !.pc = "ring"]
    <2>3. fault' = [fault EXCEPT ![t] = g]
      BY <1>1, <2>1 DEF Handled
    <2>4. /\ DOMAIN g = {"pc", "regs", "b", "rec", "free", "held", "gone", "kind"}
          /\ g.pc = "ring" /\ g.regs = f.regs /\ g.b = f.b /\ g.rec = rec
      BY <1>2
    <2>5. g.held = f.held /\ g.gone = f.gone
      BY <1>2
    <2> HIDE DEF g
    <2>6. (f.b \in InUse => f.held) /\ (f.b \in NotLive => f.gone)
      BY <1>1, <1>2, <2>2, AtWork DEF Looks
    <2>7. (f.b \in InUse => g.held) /\ (f.b \in NotLive => g.gone)
      BY <2>5, <2>6, Zenon
    <2>8. ASSUME f.b \notin wronged, Green, f.b \notin raced, rec # {}, ~Freed(rec)
          PROVE  f.b \in InUse
      <3>1. LiveRecord(f.b)
        BY <2>1, <2>8 DEF LiveRecord
      <3>2. mem[f.b].who = "free" => \E u \in Threads : Erases(u, f.b)
        BY <2>2, <2>8, <3>1 DEF HooksInv, Cleared
      <3>3. mem[f.b].who = "free" => InHook(f.b)
        BY <3>2, ErasingInHook
      <3> QED
        BY <2>2, <3>3 DEF InUse
    <2>9. ASSUME f.b \notin wronged, Green, Seen(f.b), Freed(rec)
          PROVE  f.b \in NotLive
      <3>1. Freed(ledger[f.b])
        BY <2>1, <2>9 DEF Freed
      <3>2. mem[f.b].who # "live"
        BY <2>2, <2>9, <3>1 DEF HooksInv, Marked
      <3> QED
        BY <2>2, <3>2 DEF NotLive
    <2>10. f.b \notin wronged => /\ Green /\ f.b \notin raced /\ rec # {} /\ ~Freed(rec) => g.held
                                 /\ Green /\ ~g.gone /\ Seen(f.b) => ~Freed(rec)
      BY <2>7, <2>8, <2>9, Zenon
    <2> QED
      BY <1>2, <1>3, <2>2, <2>3, <2>4, <2>7, <2>10, HandlerGoesOn
  <1> QED
    BY <1>1, <1>4, <1>5 DEF FindLedger

\* FindFreeRing keeps Handled: what the ring says is of an older block, by Old.
LEMMA FindFreeRingStep ==
    ASSUME HooksInv, Handled, NEW t \in Threads, FindFreeRing(t)
    PROVE  Handled'
  <1>1. PICK f : f = fault[t]
    OBVIOUS
  <1>2. /\ f.pc = "ring" /\ loaded.phase = "running" /\ f.regs \in Seq(Values) /\ f.b \in Values /\ f.b \in Blocks
        /\ DOMAIN f = {"pc", "regs", "b", "rec", "free", "held", "gone", "kind"}
    BY <1>1, AtWork DEF FindFreeRing, Looks
  <1>3. UNCHANGED <<loaded, mem, ledger, instance, ring, stack, wronged, raced>>
    BY DEF FindFreeRing, vars
  <1>4. CASE fault' = [fault EXCEPT ![t] = NextRegister(f)]
    BY <1>2, <1>3, <1>4, TakesNext
  <1>5. CASE \E free \in {ring[f.b], {}} :
                /\ ~(f.rec = {} /\ free = {})
                /\ fault' = [fault EXCEPT ![t] = [f EXCEPT !.free = free, !.pc = "read"]]
    <2>1. PICK free \in {ring[f.b], {}} :
                /\ ~(f.rec = {} /\ free = {})
                /\ fault' = [fault EXCEPT ![t] = [f EXCEPT !.free = free, !.pc = "read"]]
      BY <1>5
    <2> DEFINE g == [f EXCEPT !.free = free, !.pc = "read"]
    <2>2. /\ DOMAIN g = {"pc", "regs", "b", "rec", "free", "held", "gone", "kind"}
          /\ g.pc = "read" /\ g.regs = f.regs /\ g.b = f.b /\ g.rec = f.rec /\ g.free = free
      BY <1>2
    <2>3. g.held = f.held /\ g.gone = f.gone
      BY <1>2
    <2>4. fault' = [fault EXCEPT ![t] = g]
      BY <2>1
    <2> HIDE DEF g
    <2>5. /\ (f.b \in InUse => f.held) /\ (f.b \in NotLive => f.gone)
          /\ f.b \notin wronged =>
               /\ Green /\ f.b \notin raced /\ f.rec # {} /\ ~Freed(f.rec) => f.held
               /\ Green /\ ~f.gone /\ Seen(f.b) => ~Freed(f.rec)
      BY <1>1, <1>2, AtWork DEF Looks, Knows
    <2>6. /\ (f.b \in InUse => g.held) /\ (f.b \in NotLive => g.gone)
          /\ f.b \notin wronged =>
               /\ Green /\ f.b \notin raced /\ f.rec # {} /\ ~Freed(f.rec) => g.held
               /\ Green /\ ~g.gone /\ Seen(f.b) => ~Freed(f.rec)
      BY <2>3, <2>5, Zenon
    <2>7. f.b \notin wronged /\ f.b \notin NotLive => free \cap {instance.of[f.b]} \subseteq {0}
      BY <1>2, <2>1 DEF HooksInv, Old, Keeps, NotLive
    <2>8. f.b \notin wronged /\ ~g.gone => free \cap {instance.of[f.b]} \subseteq {0}
      BY <2>6, <2>7, Zenon
    <2>9. f.rec # {} \/ free # {}
      BY <2>1
    <2> QED
      BY <1>2, <1>3, <2>2, <2>4, <2>6, <2>8, <2>9, HandlerGoesOn
  <1> QED
    BY <1>1, <1>4, <1>5 DEF FindFreeRing

\* The verdict follows the freed fact.
LEMMA VerdictFollows ==
    ASSUME NEW f, NEW facts \in Facts(f)
    PROVE  /\ BuildVerdict(facts) \in LiveKinds => ~FreedFact(f)
           /\ BuildVerdict(facts) \in UseAfterFree => FreedFact(f)
  <1>1. facts.known /\ facts.freed = FreedFact(f)
    BY DEF Facts
  <1>2. OfFreed(facts) \in UseAfterFree
    BY DEF OfFreed, UseAfterFree
  <1>3. OfLive(facts) \in LiveKinds
    BY DEF OfLive, LiveKinds
  <1>4. LiveKinds \cap UseAfterFree = {}
    BY DEF LiveKinds, UseAfterFree
  <1>5. CASE facts.freed
    <2>1. BuildVerdict(facts) = OfFreed(facts)
      BY <1>1, <1>5 DEF BuildVerdict
    <2>2. FreedFact(f)
      BY <1>1, <1>5, Zenon
    <2>3. BuildVerdict(facts) \notin LiveKinds
      BY <1>2, <1>4, <2>1
    <2> QED
      BY <2>2, <2>3
  <1>6. CASE ~facts.freed
    <2>1. BuildVerdict(facts) = OfLive(facts)
      BY <1>1, <1>6 DEF BuildVerdict
    <2>2. ~FreedFact(f)
      BY <1>1, <1>6, Zenon
    <2>3. BuildVerdict(facts) \notin UseAfterFree
      BY <1>3, <1>4, <2>1
    <2> QED
      BY <2>2, <2>3
  <1> QED
    BY <1>5, <1>6

\* DescribeProvenance keeps Handled.
LEMMA DescribeStep ==
    ASSUME HooksInv, Handled, NEW t \in Threads, DescribeProvenance(t)
    PROVE  Handled'
  <1>1. PICK f : f = fault[t]
    OBVIOUS
  <1>2. /\ f.pc = "read" /\ loaded.phase = "running" /\ f.regs \in Seq(Values) /\ f.b \in Values /\ f.b \in Blocks
        /\ DOMAIN f = {"pc", "regs", "b", "rec", "free", "held", "gone", "kind"}
    BY <1>1, AtWork DEF DescribeProvenance, Looks
  <1>3. UNCHANGED <<loaded, mem, ledger, instance, ring, stack, wronged, raced>>
    BY DEF DescribeProvenance, vars
  <1>4. PICK facts \in Facts(f) : fault' = [fault EXCEPT ![t].kind = BuildVerdict(facts), ![t].pc = "report"]
    BY <1>1 DEF DescribeProvenance
  <1>5. PICK kind : kind = BuildVerdict(facts)
    OBVIOUS
  <1> DEFINE g == [f EXCEPT !.kind = kind, !.pc = "report"]
  <1>6. fault' = [fault EXCEPT ![t] = g]
    BY <1>1, <1>4, <1>5 DEF Handled
  <1>7. /\ DOMAIN g = {"pc", "regs", "b", "rec", "free", "held", "gone", "kind"}
        /\ g.pc = "report" /\ g.regs = f.regs /\ g.b = f.b /\ g.rec = f.rec /\ g.free = f.free /\ g.kind = kind
    BY <1>2
  <1>8. g.held = f.held /\ g.gone = f.gone
    BY <1>2
  <1> HIDE DEF g
  <1>9. /\ (f.b \in InUse => f.held) /\ (f.b \in NotLive => f.gone)
        /\ f.b \notin wronged =>
             /\ Green /\ f.b \notin raced /\ f.rec # {} /\ ~Freed(f.rec) => f.held
             /\ Green /\ ~f.gone /\ Seen(f.b) => ~Freed(f.rec)
             /\ ~f.gone => f.free \cap {instance.of[f.b]} \subseteq {0}
    BY <1>1, <1>2, AtWork DEF Looks, Knows
  <1>10. /\ (f.b \in InUse => g.held) /\ (f.b \in NotLive => g.gone)
         /\ f.b \notin wronged =>
              /\ Green /\ f.b \notin raced /\ f.rec # {} /\ ~Freed(f.rec) => g.held
              /\ Green /\ ~g.gone /\ Seen(f.b) => ~Freed(f.rec)
              /\ ~g.gone => f.free \cap {instance.of[f.b]} \subseteq {0}
    BY <1>8, <1>9, Zenon
  <1>11. f.rec # {} \/ f.free # {}
    BY <1>1, <1>2, AtWork DEF Concludes
  <1>12. FreedFact(g) <=> FreedFact(f)
    BY <1>7 DEF FreedFact
  <1>13. /\ kind \in LiveKinds => ~FreedFact(g)
         /\ kind \in UseAfterFree => FreedFact(g)
    BY <1>5, <1>12, VerdictFollows
  <1> QED
    BY <1>2, <1>3, <1>6, <1>7, <1>10, <1>11, <1>13, HandlerGoesOn

\* ContinueSearch keeps Handled.
LEMMA ContinueSearchStep ==
    ASSUME HooksInv, Handled, NEW t \in Threads, ContinueSearch(t)
    PROVE  Handled'
  <1>1. fault[t].pc # "idle" /\ fault' = [fault EXCEPT ![t] = NotHandling]
    BY DEF ContinueSearch, Handling
  <1>2. UNCHANGED <<loaded, mem, ledger, instance, ring, stack, wronged, raced>>
    BY DEF ContinueSearch, vars
  <1>3. loaded.phase = "running"
    BY <1>1, AtWork
  <1>4. <<>> \in Seq(Values)
    OBVIOUS
  <1>5. /\ DOMAIN NotHandling = {"pc", "regs", "b", "rec", "free", "held", "gone", "kind"}
        /\ NotHandling.pc = "idle" /\ NotHandling.regs \in Seq(Values) /\ NotHandling.b \in Values
    BY <1>4 DEF NotHandling, Values
  <1>6. PICK g : g = NotHandling
    OBVIOUS
  <1> QED
    BY <1>1, <1>2, <1>3, <1>5, <1>6, HandlerGoesOn

\* No handler is at work at first.
LEMMA InitHandled == FaultInit => Handled
  <1> SUFFICES ASSUME FaultInit PROVE Handled
    OBVIOUS
  <1>1. <<>> \in Seq(Values)
    OBVIOUS
  <1>2. DOMAIN fault = Threads /\ \A t \in Threads : fault[t] = NotHandling
    BY DEF FaultInit
  <1>3. /\ DOMAIN NotHandling = {"pc", "regs", "b", "rec", "free", "held", "gone", "kind"}
        /\ NotHandling.pc = "idle" /\ NotHandling.regs \in Seq(Values) /\ NotHandling.b \in Values
    BY <1>1 DEF NotHandling, Values
  <1> QED
    BY <1>2, <1>3 DEF Handled, Looks, Knows, Concludes

\* Every step of the hooks and the handlers keeps Handled.
LEMMA FaultNextHandled ==
    ASSUME HooksInv, Handled, [FaultNext]_<<vars, faultVars>>
    PROVE  Handled'
  <1>1. CASE (PluginLoad \/ PostLoad \/ Finished \/ (\E b \in Blocks : Evict(b)) \/ UNCHANGED vars)
             /\ UNCHANGED faultVars
    <2>1. CASE PluginLoad
      <3>1. \A t \in Threads : fault[t].pc = "idle" /\ fault'[t] = fault[t] /\ Looks(t)
        BY <1>1, <2>1 DEF PluginLoad, Handled, faultVars
      <3>2. DOMAIN fault' = Threads
        BY <1>1 DEF faultVars, Handled
      <3> QED
        BY <3>1, <3>2 DEF Handled, Looks, Knows, Concludes, Values
    <2>2. CASE PostLoad \/ Finished \/ (\E b \in Blocks : Evict(b)) \/ UNCHANGED vars
      <3>1. /\ UNCHANGED <<mem, instance, stack, wronged, raced>>
            /\ loaded'.phase = loaded.phase /\ (Green' <=> Green)
            /\ \A heap : Hooked(heap)' <=> Hooked(heap)
        <4>1. UNCHANGED <<mem, instance, stack, wronged, raced>> /\ (UNCHANGED loaded \/ PostLoad)
          BY <2>2 DEF PostLoad, Finished, Evict, vars
        <4>2. /\ loaded'.phase = loaded.phase /\ loaded'.out = loaded.out
              /\ loaded'.replaced = loaded.replaced
          BY <4>1 DEF PostLoad, HooksInv, Loaded
        <4> QED
          BY <4>1, <4>2 DEF Green, Hooked, Entry, Installed
      <3>2. DOMAIN fault' = Threads /\ \A u \in Threads : fault'[u] = fault[u]
        BY <1>1 DEF faultVars, Handled
      <3>3. InUse' = InUse /\ NotLive' = NotLive
        BY <3>1 DEF InUse, NotLive, InHook
      <3>4. ASSUME NEW u \in Threads
            PROVE  /\ SameRegister(fault[u], fault'[u])
                   /\ fault[u].pc # "idle" /\ fault[u].b \in Blocks => Watched(fault[u], fault'[u])
        <4>1. PICK f : f = fault[u]
          OBVIOUS
        <4>2. SameRegister(f, f)
          BY DEF SameRegister
        <4>3. f.pc # "idle" /\ f.b \in Blocks => (f.b \in InUse => f.held) /\ (f.b \in NotLive => f.gone)
          BY <4>1 DEF Handled, Looks
        <4>4. f.pc # "idle" /\ f.b \in Blocks => Watched(f, f)
          BY <3>3, <4>3, Zenon DEF Watched
        <4> QED
          BY <3>2, <4>1, <4>2, <4>4
      <3>5. \A x \in Blocks \ wronged : Remains(x) /\ Forgets(x)
        BY <3>1 DEF Remains, Forgets
      <3> QED
        BY <3>1, <3>2, <3>4, <3>5, WatchStep
    <2> QED
      BY <1>1, <2>1, <2>2
  <1>2. ASSUME NEW t \in Threads, Game(t) \/ Hook(t), Watches
        PROVE  Handled'
    <2>1. loaded.phase = "running" /\ UNCHANGED loaded /\ wronged \subseteq wronged'
      <3>1. CASE Game(t)
        BY <3>1 DEF Game, GameAllocates, GameFrees, HkRelease, GameReallocates, GameUses, Idle
      <3>2. CASE Hook(t)
        <4>1. UNCHANGED <<loaded, wronged>> /\ stack[t] # <<>>
          BY <3>2 DEF Hook, OAllocate, RecordAlloc, FreeEnters, FindForFree, Mark, OFree, FreeReturns,
                      PublishScaleformFree, OReallocate, EraseOld, RecordRealloc, WlFind, WlRefresh, At
        <4> QED
          BY <4>1, IsRunning
      <3> QED
        BY <1>2, <3>1, <3>2
    <2>2. \A x \in Blocks \ wronged : Remains(x) /\ Forgets(x)
      BY <1>2, GameRemains, HookRemains
    <2>3. (Green' <=> Green) /\ \A heap : Hooked(heap)' <=> Hooked(heap)
      BY <2>1 DEF Green, Hooked, Entry, Installed
    <2>4. DOMAIN fault' = Threads
      BY <1>2 DEF Watches
    <2>5. ASSUME NEW u \in Threads
          PROVE  /\ SameRegister(fault[u], fault'[u])
                 /\ Watched(fault[u], fault'[u])
      <3>1. PICK f : f = fault[u] /\ DOMAIN f = {"pc", "regs", "b", "rec", "free", "held", "gone", "kind"}
        BY DEF Handled, Looks
      <3>2. PICK g : g = [f EXCEPT !.held = @ \/ f.b \in InUse', !.gone = @ \/ f.b \in NotLive']
        OBVIOUS
      <3>3. fault'[u] = g
        BY <1>2, <3>1, <3>2 DEF Watches
      <3>4. SameRegister(f, g)
        BY <3>1, <3>2 DEF SameRegister
      <3>5. g.held = (f.held \/ f.b \in InUse') /\ g.gone = (f.gone \/ f.b \in NotLive')
        BY <3>1, <3>2
      <3>6. Watched(f, g)
        BY <3>5, Zenon DEF Watched
      <3> QED
        BY <3>1, <3>3, <3>4, <3>6
    <2> QED
      BY <2>1, <2>2, <2>3, <2>4, <2>5, WatchStep
  <1>3. ASSUME NEW t \in Threads, Handler(t)
        PROVE  Handled'
    BY <1>3, HandleExceptionStep, FindLedgerStep, FindFreeRingStep, DescribeStep, ContinueSearchStep DEF Handler
  <1> QED
    BY <1>1, <1>2, <1>3 DEF FaultNext, faultVars

\* What the handlers know, in every state.
THEOREM FaultSpecHandled == FaultSpec => []Handled
  <1>1. FaultInit => Handled
    BY InitHandled
  <1>2. HooksInv /\ Handled /\ [FaultNext]_<<vars, faultVars>> => Handled'
    BY FaultNextHandled
  <1> QED
    BY <1>1, <1>2, FaultSpecHooksInv, PTL DEF FaultSpec

\* In a GREEN run a verdict "live" is about a block that was in use while the handler
\* looked, and "use after free" of a block that was the game's all along rests on a
\* free record of another instance (DescribeFault, BuildVerdict).
THEOREM SpecVerdictIsRight == FaultSpec => []VerdictIsRight
  <1>1. Handled => VerdictIsRight
    <2> SUFFICES ASSUME Handled, Green, NEW t \in Threads, fault[t].pc = "report",
                        fault[t].b \notin wronged \cup raced
                 PROVE  /\ fault[t].kind \in LiveKinds => fault[t].held
                        /\ fault[t].kind \in UseAfterFree /\ ~fault[t].gone /\ Seen(fault[t].b) =>
                             fault[t].free # {} /\ fault[t].free \cap {instance.of[fault[t].b]} \subseteq {0}
      BY DEF VerdictIsRight, Green, Seen
    <2>1. PICK f : f = fault[t]
      OBVIOUS
    <2>2. /\ Green /\ f.b \notin raced /\ f.rec # {} /\ ~Freed(f.rec) => f.held
          /\ Green /\ ~f.gone /\ Seen(f.b) => ~Freed(f.rec)
          /\ ~f.gone => f.free \cap {instance.of[f.b]} \subseteq {0}
      BY <2>1 DEF Handled, Knows
    <2>3. /\ f.rec # {} \/ f.free # {}
          /\ f.kind \in LiveKinds => ~FreedFact(f)
          /\ f.kind \in UseAfterFree => FreedFact(f)
      BY <2>1 DEF Handled, Concludes
    <2>4. FreedFact(f) <=> Freed(f.rec) \/ f.free # {}
      BY DEF FreedFact
    <2>5. f.kind \in LiveKinds => f.held
      BY <2>1, <2>2, <2>3, <2>4, Zenon
    <2>6. f.kind \in UseAfterFree /\ ~f.gone /\ Seen(f.b) =>
             f.free # {} /\ f.free \cap {instance.of[f.b]} \subseteq {0}
      BY <2>2, <2>3, <2>4, Zenon
    <2> QED
      BY <2>1, <2>5, <2>6, Zenon
  <1> QED
    BY <1>1, FaultSpecHandled, PTL
=============================================================================
