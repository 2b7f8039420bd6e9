----------------------------- MODULE RingsProofs -----------------------------
(* Proofs about the overwriting rings, for any capacity and any number of      *)
(* writers, searchers and records: what a search finds is whole, in order and  *)
(* as new as it can be; what the drain hands out is whole, in order and        *)
(* complete up to what is counted; and what the candidate queue loses is       *)
(* counted.                                                                    *)
(*                                                                             *)
(* The writers come first: as long as nobody was lapped, the numbers of the    *)
(* writers inside a slot are among the last Capacity ones and in different     *)
(* slots, so a slot that is not marked holds one whole record (RingInv).  What *)
(* the readers need of a writer's step is in Moves.  The candidate queue has   *)
(* no marks; its invariant, QueueInv, is about the numbers themselves.         *)
EXTENDS FreeRing, ReportRing, CandidateRing, Integers, FiniteSetTheorems, TLAPS

(***************************************************************************)
(* Slots                                                                   *)
(***************************************************************************)
LEMMA Constants ==
    Capacity \in Nat \ {0} /\ MaxEvents \in Nat \ {0} /\ QueueCapacity \in Nat \ {0}
  BY RecordRingAssumption, FreeRingAssumption, CandidateAssumption

\* A multiple of k that is not zero is at least k away from it.
LEMMA Multiple ==
    ASSUME NEW k \in Nat \ {0}, NEW x \in Int, x # 0
    PROVE  k * x >= k \/ k * x <= -k
  OBVIOUS

\* Division with rest.
LEMMA Rest ==
    ASSUME NEW n \in Nat, NEW k \in Nat \ {0}
    PROVE  n \div k \in Int /\ n = k * (n \div k) + (n % k) /\ n % k \in 0 .. k - 1
  OBVIOUS

\* Two numbers less than k apart have different rests, and k more has the same one.
LEMMA RestDiffers ==
    ASSUME NEW k \in Nat \ {0}, NEW m \in Nat, NEW n \in Nat, m < n, n - m < k
    PROVE  m % k # n % k
  <1> SUFFICES ASSUME m % k = n % k PROVE FALSE
    OBVIOUS
  <1>1. PICK x \in Int, y \in Int : x = m \div k /\ y = n \div k
    BY Rest
  <1>2. n - m = k * y - k * x
    BY <1>1, Rest
  <1>3. n - m = k * (y - x)
    BY <1>2
  <1>4. y - x # 0
    BY <1>3
  <1>5. k * (y - x) >= k \/ k * (y - x) <= -k
    BY <1>4, Multiple
  <1> QED BY <1>3, <1>5

LEMMA RestOfLap ==
    ASSUME NEW k \in Nat \ {0}, NEW n \in Nat
    PROVE  (n + k) % k = n % k
  <1>1. PICK x \in Int, y \in Int : x = n \div k /\ y = (n + k) \div k
    BY Rest
  <1>2. PICK p \in 0 .. k - 1, q \in 0 .. k - 1 : p = n % k /\ q = (n + k) % k
    <2>1. n % k \in 0 .. k - 1 /\ n + k \in Nat
      BY Rest
    <2>2. (n + k) % k \in 0 .. k - 1
      BY <2>1, Rest
    <2> QED BY <2>1, <2>2
  <1>3. n = k * x + p /\ n + k = k * y + q
    BY <1>1, <1>2, Rest
  <1>4. q - p = k * x - k * y + k
    BY <1>3
  <1>5. q - p = k * (x - y + 1)
    BY <1>4
  <1>6. CASE x - y + 1 = 0
    BY <1>2, <1>5, <1>6
  <1>7. CASE x - y + 1 # 0
    <2>1. k * (x - y + 1) >= k \/ k * (x - y + 1) <= -k
      BY <1>7, Multiple
    <2> QED BY <2>1, <1>2, <1>5
  <1> QED BY <1>6, <1>7

LEMMA SlotIn ==
    ASSUME NEW n \in Nat
    PROVE  SlotOf(n) \in Cells
  BY Constants, Rest DEF SlotOf, Cells

LEMMA SlotLap ==
    ASSUME NEW n \in Nat
    PROVE  SlotOf(n + Capacity) = SlotOf(n)
  BY Constants, RestOfLap DEF SlotOf

\* The last Capacity numbers have different slots.
LEMMA SlotOnce ==
    ASSUME NEW m \in Nat, NEW n \in Nat, NEW x \in Nat, m <= x, n <= x,
           m + Capacity > x, n + Capacity > x, SlotOf(m) = SlotOf(n)
    PROVE  m = n
  <1>1. Capacity \in Nat \ {0} /\ n - m < Capacity /\ m - n < Capacity
    BY Constants
  <1>2. ~(m < n) /\ ~(n < m)
    BY <1>1, RestDiffers DEF SlotOf
  <1> QED BY <1>2

(***************************************************************************)
(* What is lost and what is counted                                        *)
(***************************************************************************)
\* Nothing more is lost.
LEMMA NoMoreLost ==
    ASSUME NEW A, NEW B, IsFiniteSet(A), B \subseteq A,
           NEW n \in Nat, NEW m \in Nat, Cardinality(A) <= n, n <= m
    PROVE  Cardinality(B) <= m
  <1>1. IsFiniteSet(B) /\ Cardinality(B) <= Cardinality(A)
    BY FS_Subset
  <1>2. Cardinality(A) \in Nat /\ Cardinality(B) \in Nat
    BY <1>1, FS_CardinalityType
  <1> QED BY <1>1, <1>2

\* A range more is lost, and its length is counted.
LEMMA RangeLost ==
    ASSUME NEW A, NEW B, IsFiniteSet(A), NEW a \in Int, NEW b \in Int, a <= b + 1,
           B \subseteq A \cup (a .. b), NEW n \in Nat, Cardinality(A) <= n
    PROVE  Cardinality(B) <= n + (b + 1 - a)
  <1>1. IsFiniteSet(a .. b) /\ Cardinality(a .. b) = b + 1 - a
    BY FS_Interval
  <1>2. IsFiniteSet(A \cap (a .. b))
    BY FS_Subset
  <1>3. /\ IsFiniteSet(A \cup (a .. b))
        /\ Cardinality(A \cup (a .. b)) = Cardinality(A) + Cardinality(a .. b) - Cardinality(A \cap (a .. b))
    BY <1>1, FS_Union
  <1>4. Cardinality(A) \in Nat /\ Cardinality(a .. b) \in Nat /\ Cardinality(A \cap (a .. b)) \in Nat
    BY <1>1, <1>2, FS_CardinalityType
  <1>5. IsFiniteSet(B) /\ Cardinality(B) <= Cardinality(A \cup (a .. b))
    BY <1>3, FS_Subset
  <1>6. Cardinality(B) \in Nat /\ Cardinality(A \cup (a .. b)) \in Nat
    BY <1>3, <1>5, FS_CardinalityType
  <1> QED BY <1>1, <1>3, <1>4, <1>5, <1>6

(***************************************************************************)
(* The writers                                                             *)
(***************************************************************************)
WriterFields(m) ==
    /\ DOMAIN m = {"pc", "seq", "left"}
    /\ m.pc \in {"idle", "taken", "copy", "publish", "count"}
    /\ m.seq \in Nat /\ m.left \in SUBSET Words
RingType ==
    /\ write \in Nat /\ version \in [Cells -> Version] /\ record \in [Cells -> [Words -> Nat]]
    /\ DOMAIN keyOf = 1 .. write /\ lapped \in BOOLEAN
    /\ DOMAIN wr = Writers /\ \A w \in Writers : WriterFields(wr[w])
    /\ \A w \in Writers : wr[w].pc # "idle" => wr[w].seq \in 1 .. write

\* A writer between the taking of its number and the publication.
In(w) == wr[w].pc \in {"taken", "copy", "publish"}
Numbered(w) == In(w) => wr[w].seq + Capacity > write
Marked(w) ==
    LET s == wr[w].seq
        i == SlotOf(s)
    IN  /\ wr[w].pc = "taken" => version[i].seq < s
        /\ wr[w].pc \in {"copy", "publish"} => version[i] = [seq |-> s, writing |-> TRUE]
Filled(w) ==
    LET s == wr[w].seq
        i == SlotOf(s)
    IN  /\ wr[w].pc = "copy" => \A x \in Words \ wr[w].left : record[i][x] = s
        /\ wr[w].pc = "publish" => \A x \in Words : record[i][x] = s
Apart == \A w \in Writers : \A u \in Writers \ {w} :
    In(w) /\ In(u) => SlotOf(wr[u].seq) # SlotOf(wr[w].seq)
WholeSlot(i) ==
    /\ version[i].seq <= write
    /\ ~version[i].writing => \A x \in Words : record[i][x] = version[i].seq
Alone == /\ Apart
         /\ \A w \in Writers : Numbered(w) /\ Marked(w) /\ Filled(w)
         /\ \A i \in Cells : WholeSlot(i)
RingInv == ~lapped => Alone

\* The locals of one writer after its step.
Others(w) == DOMAIN wr' = Writers /\ \A u \in Writers \ {w} : wr'[u] = wr[u]

\* The word of one slot is replaced.
SlotSet(s, b) ==
    /\ version' \in [Cells -> Version]
    /\ version'[SlotOf(s)] = [seq |-> s, writing |-> b]
    /\ \A i \in Cells \ {SlotOf(s)} : version'[i] = version[i]

LEMMA TakeIs ==
    ASSUME RingType, NEW w \in Writers, NEW k, Take(w, k)
    PROVE  /\ wr[w].pc = "idle" /\ write' = write + 1 /\ version' = version /\ record' = record
           /\ DOMAIN keyOf' = 1 .. write + 1 /\ \A s \in 1 .. write : keyOf'[s] = keyOf[s]
           /\ Others(w) /\ WriterFields(wr'[w]) /\ wr'[w].pc = "taken" /\ wr'[w].seq = write + 1
           /\ lapped' \in BOOLEAN
           /\ ~lapped' => /\ ~lapped
                          /\ \A u \in Writers \ {w} : ~Inside(u, SlotOf(write + 1))
  <1>1. wr[w].pc = "idle" /\ write' = write + 1 /\ version' = version /\ record' = record
    BY DEF Take
  <1>2. DOMAIN keyOf' = 1 .. write + 1 /\ \A s \in 1 .. write : keyOf'[s] = keyOf[s]
    BY DEF Take, RingType
  <1>3. Others(w) /\ wr'[w] = [pc |-> "taken", seq |-> write + 1, left |-> {}]
    BY DEF Take, RingType, Others
  <1>4. WriterFields(wr'[w]) /\ wr'[w].pc = "taken" /\ wr'[w].seq = write + 1
    BY <1>3 DEF RingType, WriterFields
  <1>5. lapped' = (lapped \/ \E u \in Writers \ {w} : Inside(u, SlotOf(write + 1)))
    BY DEF Take
  <1> QED BY <1>1, <1>2, <1>3, <1>4, <1>5, Zenon

LEMMA InvalidateIs ==
    ASSUME RingType, NEW w \in Writers, Invalidate(w)
    PROVE  /\ wr[w].pc = "taken" /\ SlotSet(wr[w].seq, TRUE)
           /\ UNCHANGED <<write, record, keyOf, lapped>>
           /\ Others(w) /\ WriterFields(wr'[w]) /\ wr'[w].pc = "copy"
           /\ wr'[w].seq = wr[w].seq /\ wr'[w].left = Words
  <1>1. wr[w].pc = "taken" /\ UNCHANGED <<write, record, keyOf, lapped>>
    BY DEF Invalidate
  <1>2. SlotSet(wr[w].seq, TRUE)
    <2>1. wr[w].seq \in Nat
      BY DEF RingType, WriterFields
    <2>2. SlotOf(wr[w].seq) \in Cells
      BY <2>1, SlotIn
    <2>3. [seq |-> wr[w].seq, writing |-> TRUE] \in Version
      BY <2>1 DEF Version
    <2> QED BY <2>2, <2>3 DEF Invalidate, SlotSet, RingType
  <1>3. Others(w) /\ WriterFields(wr'[w]) /\ wr'[w].pc = "copy"
        /\ wr'[w].seq = wr[w].seq /\ wr'[w].left = Words
    BY DEF Invalidate, RingType, WriterFields, Others
  <1> QED BY <1>1, <1>2, <1>3

LEMMA CopyInIs ==
    ASSUME RingType, NEW w \in Writers, CopyIn(w)
    PROVE  /\ wr[w].pc = "copy" /\ UNCHANGED <<write, version, keyOf, lapped>>
           /\ Others(w) /\ WriterFields(wr'[w]) /\ wr'[w].seq = wr[w].seq
           /\ wr'[w].pc \in {"copy", "publish"}
           /\ record' \in [Cells -> [Words -> Nat]]
           /\ \A i \in Cells \ {SlotOf(wr[w].seq)} : record'[i] = record[i]
           /\ \E x \in wr[w].left :
                /\ record'[SlotOf(wr[w].seq)][x] = wr[w].seq
                /\ \A y \in Words \ {x} :
                      record'[SlotOf(wr[w].seq)][y] = record[SlotOf(wr[w].seq)][y]
                /\ wr'[w].left = wr[w].left \ {x}
                /\ wr'[w].pc = "publish" => wr[w].left = {x}
  <1>0. PICK s \in Nat : s = wr[w].seq
    BY DEF RingType, WriterFields
  <1>1. wr[w].pc = "copy" /\ UNCHANGED <<write, version, keyOf, lapped>>
    BY DEF CopyIn
  <1>2. PICK x \in wr[w].left :
            /\ record' = [record EXCEPT ![SlotOf(s)][x] = s]
            /\ wr' = [wr EXCEPT ![w].left = @ \ {x},
                                ![w].pc = IF wr[w].left = {x} THEN "publish" ELSE @]
    BY <1>0 DEF CopyIn
  <1>3. PICK i \in Cells : i = SlotOf(s)
    BY <1>0, SlotIn
  <1>4. x \in Words
    BY DEF RingType, WriterFields
  <1>5. record' \in [Cells -> [Words -> Nat]] /\ (\A j \in Cells \ {i} : record'[j] = record[j])
        /\ record'[i] = [record[i] EXCEPT ![x] = s]
    BY <1>2, <1>3, <1>4 DEF RingType
  <1>6. record'[i][x] = s /\ \A y \in Words \ {x} : record'[i][y] = record[i][y]
    BY <1>3, <1>4, <1>5 DEF RingType
  <1>7. Others(w) /\ WriterFields(wr'[w]) /\ wr'[w].seq = wr[w].seq
        /\ wr'[w].pc = (IF wr[w].left = {x} THEN "publish" ELSE wr[w].pc)
        /\ wr'[w].left = wr[w].left \ {x}
    BY <1>2 DEF RingType, WriterFields, Others
  <1> QED BY <1>0, <1>1, <1>3, <1>5, <1>6, <1>7

LEMMA PublishIs ==
    ASSUME RingType, NEW w \in Writers, Publish(w)
    PROVE  /\ wr[w].pc = "publish" /\ SlotSet(wr[w].seq, FALSE)
           /\ UNCHANGED <<write, record, keyOf, lapped>>
           /\ Others(w) /\ WriterFields(wr'[w]) /\ wr'[w].pc = "count" /\ wr'[w].seq = wr[w].seq
  <1>1. wr[w].pc = "publish" /\ UNCHANGED <<write, record, keyOf, lapped>>
    BY DEF Publish
  <1>2. SlotSet(wr[w].seq, FALSE)
    <2>1. wr[w].seq \in Nat
      BY DEF RingType, WriterFields
    <2>2. SlotOf(wr[w].seq) \in Cells
      BY <2>1, SlotIn
    <2>3. [seq |-> wr[w].seq, writing |-> FALSE] \in Version
      BY <2>1 DEF Version
    <2> QED BY <2>2, <2>3 DEF Publish, SlotSet, RingType
  <1>3. Others(w) /\ WriterFields(wr'[w]) /\ wr'[w].pc = "count" /\ wr'[w].seq = wr[w].seq
    BY DEF Publish, RingType, WriterFields, Others
  <1> QED BY <1>1, <1>2, <1>3

LEMMA CountedIs ==
    ASSUME RingType, NEW w \in Writers, Counted(w)
    PROVE  /\ wr[w].pc = "count" /\ UNCHANGED <<write, version, record, keyOf, lapped>>
           /\ Others(w) /\ WriterFields(wr'[w]) /\ wr'[w].pc = "idle" /\ wr'[w].seq = wr[w].seq
  BY DEF Counted, RingType, WriterFields, Others

(***************************************************************************)
(* What a step of a writer does for the readers                            *)
(***************************************************************************)
\* The number of a slot grows, or the slot is published.
Grows(i) == \/ version'[i] = version[i]
            \/ version'[i].seq > version[i].seq
            \/ version[i].writing /\ version'[i].seq = version[i].seq
Moves ==
    /\ write' >= write
    /\ \A s \in 1 .. write : keyOf'[s] = keyOf[s]
    /\ \A i \in Cells :
        /\ Grows(i)
        /\ ~version[i].writing /\ version'[i] = version[i] => record'[i] = record[i]
    /\ \A s \in 1 .. write : s + Capacity > write /\ Published(version[SlotOf(s)], s) =>
                                version'[SlotOf(s)] = version[SlotOf(s)]

RingAct(w) == (\E k : Take(w, k)) \/ Invalidate(w) \/ CopyIn(w) \/ Publish(w) \/ Counted(w)

\* A writer's step keeps the types.
LEMMA RingTypeStep ==
    ASSUME RingType, NEW w \in Writers, RingAct(w)
    PROVE  RingType'
  <1>1. CASE \E k : Take(w, k)
    <2>1. PICK k : Take(w, k)
      BY <1>1
    <2>2. write' \in Nat /\ write' = write + 1 /\ version' = version /\ record' = record
          /\ DOMAIN keyOf' = 1 .. write + 1 /\ lapped' \in BOOLEAN
      BY <2>1, TakeIs DEF RingType
    <2>3. Others(w) /\ WriterFields(wr'[w]) /\ wr'[w].seq = write + 1
      BY <2>1, TakeIs
    <2>4. ASSUME NEW u \in Writers
          PROVE  WriterFields(wr'[u]) /\ (wr'[u].pc # "idle" => wr'[u].seq \in 1 .. write')
      <3>1. CASE u = w
        BY <2>2, <2>3, <3>1 DEF RingType
      <3>2. CASE u # w
        <4>1. wr'[u] = wr[u] /\ WriterFields(wr[u])
          BY <2>3, <3>2 DEF Others, RingType
        <4>2. wr[u].pc # "idle" => wr[u].seq \in 1 .. write
          BY DEF RingType
        <4> QED BY <2>2, <4>1, <4>2 DEF RingType
      <3> QED BY <3>1, <3>2
    <2> QED BY <2>2, <2>3, <2>4 DEF RingType, Others
  <1>2. CASE Invalidate(w)
    <2>1. version' \in [Cells -> Version] /\ UNCHANGED <<write, record, keyOf, lapped>>
      BY <1>2, InvalidateIs DEF SlotSet
    <2>2. Others(w) /\ WriterFields(wr'[w]) /\ wr'[w].seq = wr[w].seq /\ wr[w].pc # "idle"
      BY <1>2, InvalidateIs
    <2> QED BY <2>1, <2>2 DEF RingType, Others
  <1>3. CASE CopyIn(w)
    <2>1. record' \in [Cells -> [Words -> Nat]] /\ UNCHANGED <<write, version, keyOf, lapped>>
      BY <1>3, CopyInIs
    <2>2. Others(w) /\ WriterFields(wr'[w]) /\ wr'[w].seq = wr[w].seq /\ wr[w].pc # "idle"
      BY <1>3, CopyInIs
    <2> QED BY <2>1, <2>2 DEF RingType, Others
  <1>4. CASE Publish(w)
    <2>1. version' \in [Cells -> Version] /\ UNCHANGED <<write, record, keyOf, lapped>>
      BY <1>4, PublishIs DEF SlotSet
    <2>2. Others(w) /\ WriterFields(wr'[w]) /\ wr'[w].seq = wr[w].seq /\ wr[w].pc # "idle"
      BY <1>4, PublishIs
    <2> QED BY <2>1, <2>2 DEF RingType, Others
  <1>5. CASE Counted(w)
    BY <1>5, CountedIs DEF RingType, Others, WriterFields
  <1> QED BY <1>1, <1>2, <1>3, <1>4, <1>5 DEF RingAct

\* The same for the invariant; and what the readers see.
LEMMA TakeKeeps ==
    ASSUME RingType, RingInv, NEW w \in Writers, NEW k, Take(w, k), ~lapped'
    PROVE  ~lapped /\ Alone' /\ Moves
  <1>0. /\ wr[w].pc = "idle" /\ write' = write + 1 /\ version' = version /\ record' = record
        /\ \A s \in 1 .. write : keyOf'[s] = keyOf[s]
        /\ wr'[w].pc = "taken" /\ wr'[w].seq = write + 1
        /\ \A u \in Writers \ {w} : wr'[u] = wr[u]
        /\ ~lapped /\ \A u \in Writers \ {w} : ~Inside(u, SlotOf(write + 1))
    BY TakeIs DEF Others
  <1>1. Alone /\ write \in Nat
    BY <1>0 DEF RingInv, RingType
  <1>2. \A u \in Writers \ {w} : In(u) => SlotOf(wr[u].seq) # SlotOf(write + 1)
    BY <1>0 DEF Inside, In
  <1>3. Apart'
    <2>1. \A u \in Writers : In(u)' => u = w \/ In(u)
      BY <1>0 DEF In
    <2> QED BY <1>0, <1>1, <1>2, <2>1 DEF Alone, Apart
  <1>4. ASSUME NEW u \in Writers PROVE Numbered(u)' /\ Marked(u)' /\ Filled(u)'
    <2>1. CASE u = w
      <3>1. SlotOf(write + 1) \in Cells
        BY <1>1, SlotIn
      <3>2. version[SlotOf(write + 1)].seq < write + 1
        BY <1>1, <3>1 DEF Alone, WholeSlot, RingType, Version
      <3> QED BY <1>0, <1>1, <2>1, <3>2, Constants DEF Numbered, Marked, Filled, In
    <2>2. CASE u # w
      <3>1. Numbered(u) /\ Marked(u) /\ Filled(u) /\ wr'[u] = wr[u] /\ wr[u].seq \in Nat
        BY <1>0, <1>1, <2>2 DEF Alone, RingType, WriterFields
      <3>2. In(u) => wr[u].seq + Capacity # write + 1
        BY <1>2, <2>2, <3>1, SlotLap
      <3>3. Numbered(u)'
        BY <1>0, <1>1, <3>1, <3>2, Constants DEF Numbered, In
      <3> QED BY <1>0, <3>1, <3>3 DEF Marked, Filled
    <2> QED BY <2>1, <2>2
  <1>5. \A i \in Cells : WholeSlot(i)'
    BY <1>0, <1>1 DEF Alone, WholeSlot, RingType, Version
  <1>6. Moves
    BY <1>0, <1>1 DEF Moves, Grows
  <1> QED BY <1>0, <1>3, <1>4, <1>5, <1>6 DEF Alone

\* Whoever is in has the slot of its number for itself.
LEMMA OwnSlot ==
    ASSUME Apart, NEW w \in Writers, In(w), NEW u \in Writers \ {w}, In(u)
    PROVE  SlotOf(wr[u].seq) # SlotOf(wr[w].seq)
  BY DEF Apart

LEMMA InvalidateKeeps ==
    ASSUME RingType, RingInv, NEW w \in Writers, Invalidate(w), ~lapped'
    PROVE  ~lapped /\ Alone' /\ Moves
  <1>0. PICK s \in Nat : s = wr[w].seq
    BY DEF RingType, WriterFields
  <1>1. /\ wr[w].pc = "taken" /\ UNCHANGED <<write, record, keyOf, lapped>>
        /\ wr'[w].pc = "copy" /\ wr'[w].seq = s /\ wr'[w].left = Words
        /\ \A u \in Writers \ {w} : wr'[u] = wr[u]
    BY <1>0, InvalidateIs DEF Others
  <1>2. /\ version'[SlotOf(s)] = [seq |-> s, writing |-> TRUE]
        /\ \A i \in Cells \ {SlotOf(s)} : version'[i] = version[i]
    BY <1>0, InvalidateIs DEF SlotSet
  <1>3. Alone /\ write \in Nat /\ s \in 1 .. write /\ SlotOf(s) \in Cells
    BY <1>0, <1>1, SlotIn DEF RingInv, RingType
  <1>4. s + Capacity > write /\ version[SlotOf(s)].seq < s
    BY <1>0, <1>1, <1>3 DEF Alone, Numbered, Marked, In
  <1>5. \A u \in Writers : In(u)' <=> In(u)
    BY <1>1 DEF In
  <1>6. \A u \in Writers : wr'[u].seq = wr[u].seq
    BY <1>0, <1>1
  <1>7. Apart'
    BY <1>3, <1>5, <1>6 DEF Alone, Apart
  <1>8. ASSUME NEW u \in Writers PROVE Numbered(u)' /\ Marked(u)' /\ Filled(u)'
    <2>1. CASE u = w
      BY <1>0, <1>1, <1>2, <1>4, <2>1 DEF Numbered, Marked, Filled, In
    <2>2. CASE u # w
      <3>1. Numbered(u) /\ Marked(u) /\ Filled(u) /\ wr'[u] = wr[u] /\ wr[u].seq \in Nat
        BY <1>1, <1>3, <2>2 DEF Alone, RingType, WriterFields
      <3>2. In(u) => SlotOf(wr[u].seq) \in Cells \ {SlotOf(s)}
        BY <1>0, <1>1, <1>3, <2>2, <3>1, OwnSlot, SlotIn DEF Alone, In
      <3>3. In(u) => version'[SlotOf(wr[u].seq)] = version[SlotOf(wr[u].seq)]
        BY <1>2, <3>2
      <3> QED BY <1>1, <3>1, <3>3 DEF Numbered, Marked, Filled, In
    <2> QED BY <2>1, <2>2
  <1>9. \A i \in Cells : WholeSlot(i)'
    BY <1>1, <1>2, <1>3 DEF Alone, WholeSlot
  <1>10. Moves
    <2>1. \A i \in Cells : Grows(i)
      BY <1>2, <1>4 DEF Grows
    <2>2. \A n \in 1 .. write : n + Capacity > write /\ Published(version[SlotOf(n)], n) =>
                                    SlotOf(n) # SlotOf(s)
      BY <1>3, <1>4, SlotOnce DEF Published
    <2>3. \A n \in 1 .. write : SlotOf(n) \in Cells
      BY <1>3, SlotIn
    <2> QED BY <1>1, <1>2, <1>3, <2>1, <2>2, <2>3 DEF Moves
  <1> QED BY <1>1, <1>3, <1>7, <1>8, <1>9, <1>10 DEF Alone

LEMMA CopyInKeeps ==
    ASSUME RingType, RingInv, NEW w \in Writers, CopyIn(w), ~lapped'
    PROVE  ~lapped /\ Alone' /\ Moves
  <1>0. PICK s \in Nat : s = wr[w].seq
    BY DEF RingType, WriterFields
  <1>1. /\ wr[w].pc = "copy" /\ UNCHANGED <<write, version, keyOf, lapped>>
        /\ wr'[w].pc \in {"copy", "publish"} /\ wr'[w].seq = s
        /\ \A u \in Writers \ {w} : wr'[u] = wr[u]
        /\ \A i \in Cells \ {SlotOf(s)} : record'[i] = record[i]
    BY <1>0, CopyInIs DEF Others
  <1>2. PICK x \in wr[w].left :
           /\ record'[SlotOf(s)][x] = s
           /\ \A y \in Words \ {x} : record'[SlotOf(s)][y] = record[SlotOf(s)][y]
           /\ wr'[w].left = wr[w].left \ {x}
           /\ wr'[w].pc = "publish" => wr[w].left = {x}
    BY <1>0, CopyInIs
  <1>3. Alone /\ write \in Nat /\ s \in 1 .. write /\ SlotOf(s) \in Cells
    BY <1>0, <1>1, SlotIn DEF RingInv, RingType
  <1>4. s + Capacity > write /\ version[SlotOf(s)] = [seq |-> s, writing |-> TRUE]
        /\ \A y \in Words \ wr[w].left : record[SlotOf(s)][y] = s
    BY <1>0, <1>1, <1>3 DEF Alone, Numbered, Marked, Filled, In
  <1>5. \A u \in Writers : In(u)' <=> In(u)
    BY <1>1 DEF In
  <1>6. \A u \in Writers : wr'[u].seq = wr[u].seq
    BY <1>0, <1>1
  <1>7. Apart'
    BY <1>3, <1>5, <1>6 DEF Alone, Apart
  <1>8. ASSUME NEW u \in Writers PROVE Numbered(u)' /\ Marked(u)' /\ Filled(u)'
    <2>1. CASE u = w
      <3>1. Numbered(u)' /\ Marked(u)'
        BY <1>0, <1>1, <1>4, <2>1 DEF Numbered, Marked, In
      <3>2. \A y \in Words \ (wr[w].left \ {x}) : record'[SlotOf(s)][y] = s
        BY <1>2, <1>4
      <3>3. Filled(u)'
        BY <1>1, <1>2, <2>1, <3>2 DEF Filled
      <3> QED BY <3>1, <3>3
    <2>2. CASE u # w
      <3>1. Numbered(u) /\ Marked(u) /\ Filled(u) /\ wr'[u] = wr[u] /\ wr[u].seq \in Nat
        BY <1>1, <1>3, <2>2 DEF Alone, RingType, WriterFields
      <3>2. In(u) => SlotOf(wr[u].seq) \in Cells \ {SlotOf(s)}
        BY <1>0, <1>1, <1>3, <2>2, <3>1, OwnSlot, SlotIn DEF Alone, In
      <3>3. In(u) => record'[SlotOf(wr[u].seq)] = record[SlotOf(wr[u].seq)]
        BY <1>1, <3>2
      <3> QED BY <1>1, <3>1, <3>3 DEF Numbered, Marked, Filled, In
    <2> QED BY <2>1, <2>2
  <1>9. ASSUME NEW i \in Cells PROVE WholeSlot(i)'
    <2>1. CASE i = SlotOf(s)
      BY <1>1, <1>3, <1>4, <2>1 DEF WholeSlot
    <2>2. CASE i # SlotOf(s)
      <3>1. record'[i] = record[i] /\ version'[i] = version[i] /\ WholeSlot(i) /\ write' = write
        BY <1>1, <1>3, <2>2 DEF Alone
      <3> QED BY <3>1 DEF WholeSlot
    <2> QED BY <2>1, <2>2
  <1>10. Moves
    <2>1. \A i \in Cells : ~version[i].writing => record'[i] = record[i]
      <3> SUFFICES ASSUME NEW i \in Cells, ~version[i].writing PROVE record'[i] = record[i]
        OBVIOUS
      <3>1. i # SlotOf(s)
        BY <1>4
      <3> QED BY <1>1, <3>1
    <2>2. \A i \in Cells : Grows(i)
      BY <1>1 DEF Grows
    <2> QED BY <1>1, <1>3, <2>1, <2>2 DEF Moves
  <1> QED BY <1>1, <1>3, <1>7, <1>8, <1>9, <1>10 DEF Alone

LEMMA PublishKeeps ==
    ASSUME RingType, RingInv, NEW w \in Writers, Publish(w), ~lapped'
    PROVE  ~lapped /\ Alone' /\ Moves
  <1>0. PICK s \in Nat : s = wr[w].seq
    BY DEF RingType, WriterFields
  <1>1. /\ wr[w].pc = "publish" /\ UNCHANGED <<write, record, keyOf, lapped>>
        /\ wr'[w].pc = "count" /\ wr'[w].seq = s
        /\ \A u \in Writers \ {w} : wr'[u] = wr[u]
    BY <1>0, PublishIs DEF Others
  <1>2. /\ version'[SlotOf(s)] = [seq |-> s, writing |-> FALSE]
        /\ \A i \in Cells \ {SlotOf(s)} : version'[i] = version[i]
    BY <1>0, PublishIs DEF SlotSet
  <1>3. Alone /\ write \in Nat /\ s \in 1 .. write /\ SlotOf(s) \in Cells
    BY <1>0, <1>1, SlotIn DEF RingInv, RingType
  <1>4. s + Capacity > write /\ version[SlotOf(s)] = [seq |-> s, writing |-> TRUE]
        /\ \A y \in Words : record[SlotOf(s)][y] = s
    BY <1>0, <1>1, <1>3 DEF Alone, Numbered, Marked, Filled, In
  <1>5. \A u \in Writers : In(u)' => In(u) /\ u # w
    BY <1>1 DEF In
  <1>6. \A u \in Writers : wr'[u].seq = wr[u].seq
    BY <1>0, <1>1
  <1>7. Apart'
    BY <1>3, <1>5, <1>6 DEF Alone, Apart
  <1>8. ASSUME NEW u \in Writers PROVE Numbered(u)' /\ Marked(u)' /\ Filled(u)'
    <2>1. CASE u = w
      BY <1>1, <2>1 DEF Numbered, Marked, Filled, In
    <2>2. CASE u # w
      <3>1. Numbered(u) /\ Marked(u) /\ Filled(u) /\ wr'[u] = wr[u] /\ wr[u].seq \in Nat
        BY <1>1, <1>3, <2>2 DEF Alone, RingType, WriterFields
      <3>2. In(u) => SlotOf(wr[u].seq) \in Cells \ {SlotOf(s)}
        BY <1>0, <1>1, <1>3, <2>2, <3>1, OwnSlot, SlotIn DEF Alone, In
      <3>3. In(u) => version'[SlotOf(wr[u].seq)] = version[SlotOf(wr[u].seq)]
        BY <1>2, <3>2
      <3> QED BY <1>1, <3>1, <3>3 DEF Numbered, Marked, Filled, In
    <2> QED BY <2>1, <2>2
  <1>9. ASSUME NEW i \in Cells PROVE WholeSlot(i)'
    <2>1. CASE i = SlotOf(s)
      <3>1. version'[i].seq = s /\ \A y \in Words : record'[i][y] = s
        BY <1>1, <1>2, <1>4, <2>1
      <3> QED BY <1>1, <1>3, <3>1 DEF WholeSlot
    <2>2. CASE i # SlotOf(s)
      <3>1. record'[i] = record[i] /\ version'[i] = version[i] /\ WholeSlot(i) /\ write' = write
        BY <1>1, <1>2, <1>3, <2>2 DEF Alone
      <3> QED BY <3>1 DEF WholeSlot
    <2> QED BY <2>1, <2>2
  <1>10. Moves
    <2>1. \A i \in Cells : Grows(i)
      BY <1>2, <1>4 DEF Grows
    <2>2. \A n \in 1 .. write : n + Capacity > write /\ Published(version[SlotOf(n)], n) =>
                                    SlotOf(n) # SlotOf(s)
      BY <1>4 DEF Published
    <2>3. \A n \in 1 .. write : SlotOf(n) \in Cells
      BY <1>3, SlotIn
    <2> QED BY <1>1, <1>2, <1>3, <2>1, <2>2, <2>3 DEF Moves
  <1> QED BY <1>1, <1>3, <1>7, <1>8, <1>9, <1>10 DEF Alone

LEMMA CountedKeeps ==
    ASSUME RingType, RingInv, NEW w \in Writers, Counted(w), ~lapped'
    PROVE  ~lapped /\ Alone' /\ Moves
  <1>1. /\ UNCHANGED <<write, version, record, keyOf, lapped>> /\ wr[w].pc = "count"
        /\ wr'[w].pc = "idle" /\ \A u \in Writers \ {w} : wr'[u] = wr[u]
    BY CountedIs DEF Others
  <1>2. Alone /\ write \in Nat
    BY <1>1 DEF RingInv, RingType
  <1>3. \A u \in Writers : In(u)' => In(u) /\ u # w
    BY <1>1 DEF In
  <1>4. Apart'
    BY <1>1, <1>2, <1>3 DEF Alone, Apart
  <1>5. ASSUME NEW u \in Writers PROVE Numbered(u)' /\ Marked(u)' /\ Filled(u)'
    BY <1>1, <1>2 DEF Alone, Numbered, Marked, Filled, In
  <1>6. \A i \in Cells : WholeSlot(i)'
    BY <1>1, <1>2 DEF Alone, WholeSlot
  <1>7. Moves
    BY <1>1, <1>2 DEF Moves, Grows
  <1> QED BY <1>1, <1>2, <1>4, <1>5, <1>6, <1>7 DEF Alone

LEMMA RingStep ==
    ASSUME RingType, RingInv, NEW w \in Writers, RingAct(w)
    PROVE  RingType' /\ RingInv' /\ (~lapped' => ~lapped /\ Moves)
  <1>1. RingType'
    BY RingTypeStep
  <1>2. ASSUME ~lapped' PROVE ~lapped /\ Alone' /\ Moves
    <2>1. CASE \E k : Take(w, k)
      BY <1>2, <2>1, TakeKeeps
    <2>2. CASE Invalidate(w)
      BY <1>2, <2>2, InvalidateKeeps
    <2>3. CASE CopyIn(w)
      BY <1>2, <2>3, CopyInKeeps
    <2>4. CASE Publish(w)
      BY <1>2, <2>4, PublishKeeps
    <2>5. CASE Counted(w)
      BY <1>2, <2>5, CountedKeeps
    <2> QED BY <2>1, <2>2, <2>3, <2>4, <2>5 DEF RingAct
  <1> QED BY <1>1, <1>2 DEF RingInv

LEMMA RingStart ==
    ASSUME RingInit
    PROVE  RingType /\ RingInv
  <1>1. \A i \in Cells : version[i] = NoVersion /\ record[i] = [x \in Words |-> 0]
    BY DEF RingInit
  <1>2. \A w \in Writers : wr[w] = [pc |-> "idle", seq |-> 0, left |-> {}]
    BY DEF RingInit
  <1>3. ASSUME NEW w \in Writers PROVE WriterFields(wr[w]) /\ wr[w].pc = "idle"
    <2>1. wr[w] = [pc |-> "idle", seq |-> 0, left |-> {}]
      BY <1>2
    <2> QED BY <2>1 DEF WriterFields
  <1>4. RingType
    <2>1. version \in [Cells -> Version] /\ record \in [Cells -> [Words -> Nat]]
      BY DEF RingInit, NoVersion, Version
    <2>2. write \in Nat /\ DOMAIN keyOf = 1 .. write
      BY DEF RingInit
    <2>3. DOMAIN wr = Writers /\ lapped \in BOOLEAN
      BY DEF RingInit
    <2> QED BY <1>3, <2>1, <2>2, <2>3 DEF RingType
  <1>5. Alone
    BY <1>1, <1>3 DEF RingInit, Alone, Apart, Numbered, Marked, Filled, In, WholeSlot, NoVersion
  <1> QED BY <1>4, <1>5 DEF RingInv

(***************************************************************************)
(* A search of the newest records                                          *)
(***************************************************************************)
Copies == [Words -> Nat]
SearchFields(s) ==
    /\ DOMAIN s = {"pc", "key", "seq", "oldest", "v1", "copy", "left", "found", "known"}
    /\ s.pc \in {"idle", "newest", "v1", "copy", "v2"} /\ s.seq \in Nat /\ s.oldest \in Nat
    /\ s.v1 \in Version /\ s.copy \in Copies /\ s.left \in SUBSET Words
    /\ s.found \in Seq(Copies) /\ s.known \in SUBSET Nat
    /\ s.pc \in {"v1", "copy", "v2"} => s.seq > s.oldest
FreeType == /\ RingType /\ kind \in {"frees", "events"}
            /\ DOMAIN sr = Searchers /\ \A r \in Searchers : SearchFields(sr[r])

(* What is found is whole, of the key asked for, in order and newer than "after". *)
OneFound(s, c, after) ==
    WholeOf(c) /\ c["head"] \in after + 1 .. write /\ keyOf[c["head"]] = s.key
Sorted(s, after) ==
    /\ \A n \in 1 .. Len(s.found) : OneFound(s, s.found[n], after)
    /\ \A n \in 1 .. Len(s.found) - 1 : s.found[n]["head"] < s.found[n + 1]["head"]
(* The filter has the address of every record that was ever marked.             *)
InFilter(i) == version[i].seq > 0 /\ ~version[i].writing => keyOf[version[i].seq] \in bloom
InFilterSoon(w) == wr[w].pc \in {"copy", "publish"} => keyOf[wr[w].seq] \in bloom
Filtered == HasBloom => /\ \A i \in Cells : InFilter(i)
                        /\ \A w \in Writers : InFilterSoon(w)
(* A record that was there is there until its slot is reserved again.           *)
There(s, n) == /\ n \in 1 .. write /\ keyOf[n] = s.key
               /\ n + Capacity > write => Published(version[SlotOf(n)], n)
Kept(s) == \A n \in s.known : There(s, n)
Has(s, n) == s.found # <<>> /\ s.found[Len(s.found)]["head"] >= n
HasNewer(s, after) == \A n \in s.known : n + Capacity > write /\ n > after => Has(s, n)
Bounds(s, q) == q >= s.oldest /\ q <= write /\ (s.oldest > 0 => s.oldest + Capacity <= write)
Searching(s, q) == Bounds(s, q) /\ Sorted(s, q) /\ HasNewer(s, q)
Copying(s) ==
    LET v == version[SlotOf(s.seq)] IN
    /\ Published(s.v1, s.seq)
    /\ v = s.v1 \/ v.seq > s.seq
    /\ v = s.v1 => \A x \in Words \ s.left : s.copy[x] = s.seq
    /\ s.pc = "v2" => s.left = {}
SearchInv(s) ==
    /\ Kept(s)
    /\ s.pc = "newest" => s.found = <<>>
    /\ s.pc \in {"v1", "copy", "v2"} => Searching(s, s.seq)
    /\ s.pc \in {"copy", "v2"} => Copying(s)
    /\ s.pc = "idle" => Sorted(s, 0) /\ HasNewer(s, 0)
Searches == \A r \in Searchers : SearchInv(sr[r])
FreeInv == RingInv /\ (~lapped => Filtered /\ Searches)

\* The search of r is s after the step.
LEMMA SearchNow ==
    ASSUME NEW r \in Searchers, NEW s, sr'[r] = s, SearchInv(s)'
    PROVE  SearchInv(sr[r])'
  BY DEF SearchInv, Kept, There, Searching, Bounds, Sorted, OneFound, HasNewer, Has, Copying

LEMMA FoundIs ==
    ASSUME NEW s, SearchFields(s), NEW n \in 1 .. Len(s.found)
    PROVE  s.found[n] \in Copies /\ s.found[n]["head"] \in Nat
  BY DEF SearchFields, Copies, Words

\* A writer's step leaves each search what it needs.
LEMMA SearchStays ==
    ASSUME RingType, RingType', Alone, Moves, NEW s, SearchFields(s), SearchInv(s)
    PROVE  SearchInv(s)'
  <1>0. write \in Nat /\ write' \in Nat /\ write' >= write /\ Capacity \in Nat \ {0}
        /\ \A n \in 1 .. write : keyOf'[n] = keyOf[n]
    BY Constants DEF RingType, Moves
  <1>1. ASSUME NEW n \in s.known PROVE There(s, n)'
    <2>1. n \in 1 .. write /\ keyOf[n] = s.key
          /\ (n + Capacity > write => Published(version[SlotOf(n)], n))
      BY DEF SearchInv, Kept, There
    <2>2. CASE n + Capacity > write'
      <3>1. n + Capacity > write
        BY <1>0, <2>1, <2>2
      <3>2. version'[SlotOf(n)] = version[SlotOf(n)]
        BY <2>1, <3>1 DEF Moves
      <3> QED BY <1>0, <2>1, <3>1, <3>2 DEF There
    <2> QED BY <1>0, <2>1, <2>2 DEF There
  <1>2. ASSUME NEW after \in Nat, Sorted(s, after) PROVE Sorted(s, after)'
    <2>1. ASSUME NEW n \in 1 .. Len(s.found) PROVE OneFound(s, s.found[n], after)'
      <3>1. OneFound(s, s.found[n], after)
        BY <1>2 DEF Sorted
      <3>2. s.found[n]["head"] \in after + 1 .. write /\ s.found[n]["head"] \in Nat
        BY <3>1, FoundIs DEF OneFound
      <3> QED BY <1>0, <3>1, <3>2 DEF OneFound
    <2> QED BY <1>2, <2>1 DEF Sorted
  <1>3. ASSUME NEW after \in Nat, HasNewer(s, after) PROVE HasNewer(s, after)'
    <2>1. \A n \in s.known : n \in 1 .. write /\ (n + Capacity > write' => n + Capacity > write)
      BY <1>0 DEF SearchInv, Kept, There
    <2> QED BY <1>3, <2>1 DEF HasNewer, Has
  <1>4. ASSUME s.pc \in {"v1", "copy", "v2"} PROVE Searching(s, s.seq)'
    <2>1. Searching(s, s.seq) /\ s.seq \in Nat /\ s.oldest \in Nat
      BY <1>4 DEF SearchInv, SearchFields
    <2>2. Bounds(s, s.seq)'
      BY <1>0, <2>1 DEF Searching, Bounds
    <2> QED BY <1>2, <1>3, <2>1, <2>2 DEF Searching
  <1>5. ASSUME s.pc \in {"copy", "v2"} PROVE Copying(s)'
    <2>0. PICK q \in Nat : q = s.seq
      BY DEF SearchFields
    <2>1. Copying(s) /\ Published(s.v1, q)
      BY <1>5, <2>0 DEF SearchInv, Copying
    <2>2. PICK i \in Cells : i = SlotOf(q)
      BY <2>0, SlotIn
    <2>3. version[i] = s.v1 \/ version[i].seq > q
      BY <2>0, <2>1, <2>2 DEF Copying
    <2>4. version[i] \in Version /\ version'[i] \in Version
      BY DEF RingType
    <2>5. version[i].seq \in Nat /\ version'[i].seq \in Nat
      BY <2>4 DEF Version
    <2>6. version[i] = s.v1 => version[i].seq = q /\ ~version[i].writing
      BY <2>1 DEF Published
    <2>7. Grows(i)
      BY DEF Moves
    <2>8. version'[i] = s.v1 \/ version'[i].seq > q
      BY <2>3, <2>5, <2>6, <2>7 DEF Grows
    <2>9. version'[i] = s.v1 => version[i] = s.v1
      <3>1. version'[i] = s.v1 => version'[i].seq = q
        BY <2>1 DEF Published
      <3> QED BY <2>3, <2>5, <2>7, <3>1 DEF Grows
    <2> QED BY <2>0, <2>1, <2>2, <2>8, <2>9 DEF Copying
  <1>6. s.pc = "idle" => Sorted(s, 0)' /\ HasNewer(s, 0)'
    BY <1>2, <1>3 DEF SearchInv
  <1>7. s.pc = "newest" => s.found = <<>>
    BY DEF SearchInv
  <1>8. Kept(s)'
    BY <1>1 DEF Kept
  <1> QED BY <1>4, <1>5, <1>6, <1>7, <1>8 DEF SearchInv

\* A search whose rings and filter stand still.
LEMMA SearchSame ==
    ASSUME UNCHANGED <<write, version, keyOf, kind>>, NEW s, SearchInv(s)
    PROVE  SearchInv(s)'
  BY DEF SearchInv, Kept, There, Searching, Bounds, Sorted, OneFound, HasNewer, Has, Copying

LEMMA WalkFields ==
    ASSUME NEW s, SearchFields(s), NEW q \in Nat
    PROVE  SearchFields(Walk(s, q))
  <1> DEFINE t == [NotSearching EXCEPT !.key = s.key, !.known = s.known, !.found = s.found]
  <1>1. q > s.oldest => SearchFields([s EXCEPT !.seq = q, !.pc = "v1"])
    BY DEF SearchFields
  <1>2. t.pc = "idle" /\ t.key = s.key /\ t.found = s.found /\ t.known = s.known
        /\ t.seq = 0 /\ t.oldest = 0 /\ t.v1 = NoVersion /\ t.copy = [x \in Words |-> 0]
        /\ t.left = {}
    BY DEF NotSearching
  <1>3. DOMAIN t = DOMAIN s
    BY DEF NotSearching, SearchFields
  <1> HIDE DEF t
  <1>4. SearchFields(t)
    BY <1>2, <1>3 DEF SearchFields, NoVersion, Version, Copies
  <1> QED BY <1>1, <1>4 DEF Walk, t

\* Going on with number q: the search is there to look at q or at its end.
LEMMA WalkKeeps ==
    ASSUME RingType, NEW s, SearchFields(s), Kept(s), NEW q \in Nat, Searching(s, q)
    PROVE  SearchInv(Walk(s, q))
  <1>0. PICK after \in Nat : after = s.oldest
    BY DEF SearchFields
  <1>1. CASE q > after /\ Len(s.found) < MaxFound
    <2> DEFINE t == [s EXCEPT !.seq = q, !.pc = "v1"]
    <2>1. t = Walk(s, q)
      BY <1>0, <1>1 DEF Walk
    <2>3. t.pc = "v1" /\ t.seq = q /\ t.key = s.key /\ t.oldest = s.oldest /\ t.found = s.found
          /\ t.known = s.known
      BY DEF SearchFields
    <2> HIDE DEF t
    <2>4. Kept(t) /\ Searching(t, q)
      BY <2>3 DEF Kept, There, Searching, Bounds, Sorted, OneFound, HasNewer, Has
    <2>5. SearchInv(t)
      BY <1>0, <1>1, <2>3, <2>4 DEF SearchInv
    <2> QED BY <2>1, <2>5
  <1>2. CASE ~(q > after /\ Len(s.found) < MaxFound)
    <2> DEFINE t == [NotSearching EXCEPT !.key = s.key, !.known = s.known, !.found = s.found]
    <2>1. t = Walk(s, q)
      BY <1>0, <1>2 DEF Walk
    <2>2. t.pc = "idle" /\ t.key = s.key /\ t.found = s.found /\ t.known = s.known
      BY DEF NotSearching
    <2> HIDE DEF t
    <2>5. Kept(t)
      BY <2>2 DEF Kept, There
    <2>6. Sorted(t, 0)
      <3>1. \A n \in 1 .. Len(s.found) : OneFound(s, s.found[n], 0)
        <4> SUFFICES ASSUME NEW n \in 1 .. Len(s.found) PROVE OneFound(s, s.found[n], 0)
          OBVIOUS
        <4>1. OneFound(s, s.found[n], q)
          BY DEF Searching, Sorted
        <4>2. s.found[n]["head"] \in Nat
          BY FoundIs
        <4> QED BY <4>1, <4>2 DEF OneFound, RingType
      <3> QED BY <2>2, <3>1 DEF Searching, Sorted, OneFound
    <2>7. ASSUME NEW n \in s.known, n + Capacity > write PROVE Has(s, n)
      <3>1. n \in 1 .. write /\ write \in Nat
        BY DEF Kept, There, RingType
      <3>2. CASE n > q
        BY <2>7, <3>2 DEF Searching, HasNewer
      <3>3. CASE n <= q
        <4>1. after = 0 \/ after + Capacity <= write
          BY <1>0 DEF Searching, Bounds
        <4>2. q > after
          BY <1>0, <2>7, <3>1, <3>3, <4>1, Constants
        <4>3. Len(s.found) >= 1
          <5>1. MaxFound \in Nat \ {0}
            BY Constants DEF MaxFound
          <5>2. Len(s.found) \in Nat
            BY DEF SearchFields
          <5> QED BY <1>2, <4>2, <5>1, <5>2
        <4>4. s.found # <<>> /\ Len(s.found) \in 1 .. Len(s.found)
          BY <4>3 DEF SearchFields
        <4>5. OneFound(s, s.found[Len(s.found)], q)
          BY <4>4 DEF Searching, Sorted
        <4>6. s.found[Len(s.found)]["head"] \in Nat
          BY <4>4, FoundIs
        <4> QED BY <3>1, <3>3, <4>4, <4>5, <4>6 DEF OneFound, Has
      <3> QED BY <3>1, <3>2, <3>3
    <2>8. HasNewer(t, 0)
      BY <2>2, <2>7 DEF HasNewer, Has
    <2>9. SearchInv(t)
      BY <2>2, <2>5, <2>6, <2>8 DEF SearchInv
    <2> QED BY <2>1, <2>9
  <1> QED BY <1>1, <1>2

\* One search after its step.
OtherSearches(r) == DOMAIN sr' = Searchers /\ \A q \in Searchers \ {r} : sr'[q] = sr[q]
LEMMA SearcherStep ==
    ASSUME FreeType, RingInv, ~lapped => Filtered /\ Searches, NEW r \in Searchers, NEW t,
           sr' = [sr EXCEPT ![r] = t], UNCHANGED <<ringVars, kind, bloom>>,
           SearchFields(t), ~lapped => SearchInv(t)
    PROVE  FreeType' /\ FreeInv'
  <1>1. sr'[r] = t /\ OtherSearches(r)
    BY DEF FreeType, OtherSearches
  <1>2. RingType' /\ RingInv'
    BY DEF FreeType, RingType, RingInv, Alone, Apart, In, Numbered, Marked, Filled, WholeSlot,
           ringVars
  <1>3. FreeType'
    <2>1. \A q \in Searchers : SearchFields(sr'[q])
      BY <1>1 DEF FreeType, OtherSearches
    <2> QED BY <1>1, <1>2, <2>1 DEF FreeType, OtherSearches
  <1>4. ASSUME ~lapped PROVE Filtered' /\ Searches'
    <2>1. Filtered'
      BY <1>4 DEF Filtered, InFilter, InFilterSoon, HasBloom, ringVars
    <2>2. ASSUME NEW q \in Searchers PROVE SearchInv(sr[q])'
      <3>1. PICK u : u = sr'[q]
        OBVIOUS
      <3>2. SearchInv(u)
        <4>1. CASE q = r
          BY <1>1, <1>4, <3>1, <4>1
        <4>2. CASE q # r
          BY <1>1, <1>4, <3>1, <4>2 DEF Searches, OtherSearches
        <4> QED BY <4>1, <4>2
      <3>3. SearchInv(u)'
        BY <3>2, SearchSame DEF ringVars
      <3> QED BY <3>1, <3>3, SearchNow
    <2> QED BY <2>1, <2>2 DEF Searches
  <1> QED BY <1>2, <1>3, <1>4 DEF FreeInv, ringVars

LEMMA FindKeeps ==
    ASSUME FreeType, FreeInv, NEW r \in Searchers, NEW k \in Keys, Find(r, k)
    PROVE  FreeType' /\ FreeInv'
  <1> DEFINE At(p) == [NotSearching EXCEPT !.key = k, !.known = Stored(k), !.pc = p]
  <1>1. PICK p \in {"newest", "idle"} : /\ p = "idle" => HasBloom /\ k \notin bloom
                                        /\ sr' = [sr EXCEPT ![r] = At(p)]
    <2>1. PICK hit \in IF HasBloom THEN {TRUE, (k \in bloom)} ELSE {TRUE} :
            sr' = [sr EXCEPT ![r] = At(IF hit THEN "newest" ELSE "idle")]
      BY Zenon DEF Find
    <2>2. CASE hit
      <3>1. (IF hit THEN "newest" ELSE "idle") = "newest"
        BY <2>2
      <3> QED BY <2>1, <3>1
    <2>3. CASE ~hit
      <3>1. (IF hit THEN "newest" ELSE "idle") = "idle"
        BY <2>3
      <3>2. HasBloom /\ k \notin bloom
        BY <2>3, Zenon
      <3> QED BY <2>1, <3>1, <3>2
    <2> QED BY <2>2, <2>3
  <1> DEFINE t == At(p)
  <1>2. t.pc = p /\ t.key = k /\ t.known = Stored(k)
        /\ t.seq = 0 /\ t.oldest = 0 /\ t.v1 = NoVersion /\ t.copy = [x \in Words |-> 0]
        /\ t.left = {} /\ t.found = <<>>
    BY DEF NotSearching
  <1>3. DOMAIN t = {"pc", "key", "seq", "oldest", "v1", "copy", "left", "found", "known"}
    BY DEF NotSearching
  <1>4. sr' = [sr EXCEPT ![r] = t]
    BY <1>1, Zenon
  <1> HIDE DEF t
  <1>5. write \in Nat /\ Stored(k) \in SUBSET Nat
    BY DEF FreeType, RingType, Stored
  <1>6. SearchFields(t)
    BY <1>2, <1>3, <1>5 DEF SearchFields, NoVersion, Version, Copies
  <1>7. ASSUME ~lapped PROVE SearchInv(t)
    <2>1. Kept(t)
      BY <1>2 DEF Kept, There, Stored
    <2>2. Sorted(t, 0)
      BY <1>2 DEF Sorted
    <2>3. ASSUME p = "idle" PROVE Stored(k) = {}
      <3> SUFFICES ASSUME NEW n \in Stored(k) PROVE FALSE
        OBVIOUS
      <3>1. n \in 1 .. write /\ keyOf[n] = k /\ Published(version[SlotOf(n)], n)
        BY DEF Stored
      <3>2. PICK i \in Cells : i = SlotOf(n)
        BY <1>5, <3>1, SlotIn
      <3>3. version[i].seq = n /\ ~version[i].writing
        BY <3>1, <3>2 DEF Published
      <3>4. InFilter(i)
        BY <1>1, <1>7, <2>3 DEF FreeInv, Filtered
      <3>5. keyOf[n] \in bloom
        BY <1>5, <3>1, <3>3, <3>4 DEF InFilter
      <3> QED BY <1>1, <2>3, <3>1, <3>5
    <2>4. t.pc = "idle" => HasNewer(t, 0)
      BY <1>2, <2>3 DEF HasNewer
    <2> QED BY <1>2, <2>1, <2>2, <2>4 DEF SearchInv
  <1> QED BY <1>4, <1>6, <1>7, SearcherStep DEF Find, FreeInv

LEMMA LoadNewestKeeps ==
    ASSUME FreeType, FreeInv, NEW r \in Searchers, LoadNewest(r)
    PROVE  FreeType' /\ FreeInv'
  <1>0. PICK s : s = sr[r]
    OBVIOUS
  <1>1. SearchFields(s) /\ write \in Nat /\ s.pc = "newest"
    BY <1>0 DEF FreeType, RingType, LoadNewest
  <1> DEFINE u == [s EXCEPT !.oldest = Oldest(write)]
  <1>2. Oldest(write) \in Nat /\ Oldest(write) <= write
        /\ (Oldest(write) > 0 => Oldest(write) + Capacity <= write)
    BY <1>1, Constants DEF Oldest
  <1>3. SearchFields(u)
    BY <1>1, <1>2 DEF SearchFields
  <1>4. u.key = s.key /\ u.known = s.known /\ u.found = s.found /\ u.oldest = Oldest(write)
    BY <1>1 DEF SearchFields
  <1>5. sr' = [sr EXCEPT ![r] = Walk(u, write)]
    BY <1>0 DEF LoadNewest
  <1> HIDE DEF u
  <1>6. ASSUME ~lapped PROVE Kept(u) /\ Searching(u, write)
    <2>1. SearchInv(s)
      BY <1>0, <1>6 DEF FreeInv, Searches
    <2>2. Kept(u) /\ u.found = <<>>
      BY <1>1, <1>4, <2>1 DEF SearchInv, Kept, There
    <2>3. Bounds(u, write)
      BY <1>1, <1>2, <1>4 DEF Bounds
    <2>4. Sorted(u, write)
      BY <2>2 DEF Sorted
    <2>5. HasNewer(u, write)
      BY <1>1, <2>2 DEF HasNewer, Kept, There
    <2> QED BY <2>2, <2>3, <2>4, <2>5 DEF Searching
  <1>7. SearchFields(Walk(u, write))
    BY <1>1, <1>3, WalkFields
  <1>8. ~lapped => SearchInv(Walk(u, write))
    BY <1>1, <1>3, <1>6, WalkKeeps DEF FreeType
  <1> QED BY <1>5, <1>7, <1>8, SearcherStep DEF LoadNewest, FreeInv

\* A number looked at and not found to match: the records still there are known.
LEMMA PassedBy ==
    ASSUME RingType, NEW s, SearchFields(s), SearchInv(s), s.pc \in {"v1", "copy", "v2"},
           \A n \in s.known : n = s.seq /\ n + Capacity > write => FALSE
    PROVE  Kept(s) /\ Searching(s, s.seq - 1)
  <1>0. PICK q \in Nat, after \in Nat : q = s.seq /\ after = s.oldest
    BY DEF SearchFields
  <1>1. q > after /\ Bounds(s, q) /\ Sorted(s, q) /\ HasNewer(s, q) /\ Kept(s) /\ write \in Nat
    BY <1>0 DEF SearchFields, SearchInv, Searching, RingType
  <1>2. q - 1 \in Nat /\ Bounds(s, q - 1)
    BY <1>0, <1>1 DEF Bounds
  <1>3. Sorted(s, q - 1)
    <2>1. ASSUME NEW n \in 1 .. Len(s.found) PROVE OneFound(s, s.found[n], q - 1)
      <3>1. OneFound(s, s.found[n], q)
        BY <1>1 DEF Sorted
      <3> QED BY <1>1, <1>2, <3>1 DEF OneFound
    <2> QED BY <1>1, <2>1 DEF Sorted
  <1>4. HasNewer(s, q - 1)
    <2>1. \A n \in s.known : n \in Nat
      BY DEF SearchFields
    <2> QED BY <1>0, <1>1, <2>1 DEF HasNewer
  <1> QED BY <1>0, <1>1, <1>2, <1>3, <1>4 DEF Searching

LEMMA LoadV1Keeps ==
    ASSUME FreeType, FreeInv, NEW r \in Searchers, LoadV1(r)
    PROVE  FreeType' /\ FreeInv'
  <1>0. PICK s : s = sr[r]
    OBVIOUS
  <1>1. SearchFields(s) /\ s.pc = "v1" /\ RingType
    BY <1>0 DEF FreeType, LoadV1
  <1>2. PICK q \in Nat \ {0} : q = s.seq
    BY <1>1 DEF SearchFields
  <1>3. PICK i \in Cells : i = SlotOf(q)
    BY <1>2, SlotIn
  <1>4. version[i] \in Version
    BY <1>1 DEF RingType
  <1>5. ~lapped => SearchInv(s)
    BY <1>0 DEF FreeInv, Searches
  <1>6. CASE Published(version[i], q)
    <2> DEFINE t == [s EXCEPT !.v1 = version[i], !.left = Words, !.pc = "copy"]
    <2>1. sr' = [sr EXCEPT ![r] = t]
      BY <1>0, <1>2, <1>3, <1>6 DEF LoadV1
    <2>2. SearchFields(t)
      BY <1>1, <1>4 DEF SearchFields
    <2>3. t.pc = "copy" /\ t.v1 = version[i] /\ t.left = Words /\ t.key = s.key /\ t.seq = q
          /\ t.oldest = s.oldest /\ t.found = s.found /\ t.known = s.known
      BY <1>1, <1>2 DEF SearchFields
    <2> HIDE DEF t
    <2>4. Copying(t)
      BY <1>3, <1>6, <2>3 DEF Copying
    <2>5. ASSUME ~lapped PROVE SearchInv(t)
      <3>1. Kept(s) /\ Searching(s, q)
        BY <1>1, <1>2, <1>5, <2>5 DEF SearchInv
      <3>2. Kept(t) /\ Searching(t, t.seq)
        BY <2>3, <3>1 DEF Kept, There, Searching, Bounds, Sorted, OneFound, HasNewer, Has
      <3> QED BY <2>3, <2>4, <3>2 DEF SearchInv
    <2> QED BY <2>1, <2>2, <2>5, SearcherStep DEF LoadV1, FreeInv
  <1>7. CASE ~Published(version[i], q)
    <2>1. sr' = [sr EXCEPT ![r] = Walk(s, q - 1)]
      BY <1>0, <1>2, <1>3, <1>7 DEF LoadV1
    <2>2. SearchFields(Walk(s, q - 1))
      BY <1>1, WalkFields
    <2>3. ASSUME ~lapped PROVE SearchInv(Walk(s, q - 1))
      <3>1. \A n \in s.known : n = q /\ n + Capacity > write => FALSE
        BY <1>3, <1>5, <1>7, <2>3 DEF SearchInv, Kept, There
      <3>2. Kept(s) /\ Searching(s, q - 1)
        BY <1>1, <1>2, <1>5, <2>3, <3>1, PassedBy
      <3> QED BY <1>1, <3>2, WalkKeeps
    <2> QED BY <2>1, <2>2, <2>3, SearcherStep DEF LoadV1, FreeInv
  <1> QED BY <1>6, <1>7

LEMMA CopyOutKeeps ==
    ASSUME FreeType, FreeInv, NEW r \in Searchers, CopyOut(r)
    PROVE  FreeType' /\ FreeInv'
  <1>0. PICK s : s = sr[r]
    OBVIOUS
  <1>1. SearchFields(s) /\ s.pc = "copy" /\ RingType /\ DOMAIN sr = Searchers
    BY <1>0 DEF FreeType, CopyOut
  <1>2. PICK q \in Nat \ {0} : q = s.seq
    BY <1>1 DEF SearchFields
  <1>3. PICK i \in Cells : i = SlotOf(q)
    BY <1>2, SlotIn
  <1>4. PICK x \in s.left :
           sr' = [sr EXCEPT ![r].copy[x] = record[i][x], ![r].left = @ \ {x},
                            ![r].pc = IF s.left = {x} THEN "v2" ELSE @]
    BY <1>0, <1>2, <1>3 DEF CopyOut
  <1> DEFINE t == [s EXCEPT !.copy[x] = record[i][x], !.left = @ \ {x},
                            !.pc = IF s.left = {x} THEN "v2" ELSE @]
  <1>5. sr' = [sr EXCEPT ![r] = t]
    BY <1>0, <1>1, <1>4 DEF SearchFields
  <1>6. x \in Words /\ record[i] \in Copies /\ s.copy \in Copies
    BY <1>1 DEF SearchFields, RingType, Copies
  <1>7. t.pc = (IF s.left = {x} THEN "v2" ELSE "copy") /\ t.left = s.left \ {x}
        /\ t.copy = [s.copy EXCEPT ![x] = record[i][x]]
        /\ t.key = s.key /\ t.seq = q /\ t.oldest = s.oldest /\ t.found = s.found
        /\ t.known = s.known /\ t.v1 = s.v1 /\ DOMAIN t = DOMAIN s
    BY <1>1, <1>2 DEF SearchFields
  <1> HIDE DEF t
  <1>8. t.copy \in Copies /\ t.copy[x] = record[i][x]
        /\ \A y \in Words \ {x} : t.copy[y] = s.copy[y]
    BY <1>6, <1>7 DEF Copies
  <1>9. SearchFields(t)
    BY <1>1, <1>2, <1>7, <1>8 DEF SearchFields
  <1>10. ASSUME ~lapped PROVE SearchInv(t)
    <2>1. SearchInv(s) /\ WholeSlot(i)
      BY <1>0, <1>10 DEF FreeInv, Searches, RingInv, Alone
    <2>2. Copying(s)
      BY <1>1, <2>1 DEF SearchInv
    <2>3. version[i] = s.v1 => \A y \in Words \ s.left : s.copy[y] = q
      BY <1>2, <1>3, <2>2 DEF Copying
    <2>4. version[i] = s.v1 => record[i][x] = q
      BY <1>2, <1>3, <1>6, <2>1, <2>2 DEF Copying, WholeSlot, Published
    <2>5. version[i] = s.v1 => \A y \in Words \ (s.left \ {x}) : t.copy[y] = q
      BY <1>8, <2>3, <2>4
    <2>6. Copying(t)
      BY <1>2, <1>3, <1>7, <2>2, <2>5 DEF Copying
    <2>7. Kept(s) /\ Searching(s, q)
      BY <1>1, <1>2, <2>1 DEF SearchInv
    <2>8. Kept(t) /\ Searching(t, q)
      BY <1>7, <2>7 DEF Kept, There, Searching, Bounds, Sorted, OneFound, HasNewer, Has
    <2> QED BY <1>7, <2>6, <2>8 DEF SearchInv
  <1> QED BY <1>5, <1>9, <1>10, SearcherStep DEF CopyOut, FreeInv

\* A copy placed before what was found.
LEMMA PlacedIs ==
    ASSUME NEW f \in Seq(Copies), NEW c \in Copies
    PROVE  /\ Placed(f, c) \in Seq(Copies) /\ Len(Placed(f, c)) = Len(f) + 1
           /\ Placed(f, c)[1] = c
           /\ \A n \in 1 .. Len(f) : Placed(f, c)[n + 1] = f[n]
  <1>1. <<c>> \in Seq(Copies) /\ Len(<<c>>) = 1 /\ <<c>>[1] = c
    OBVIOUS
  <1> QED BY <1>1 DEF Placed

LEMMA MatchKeeps ==
    ASSUME RingType, NEW s, SearchFields(s), SearchInv(s), s.pc = "v2", Accepts(s), IsMatch(s),
           WholeSlot(SlotOf(s.seq)),
           NEW t, t = [s EXCEPT !.found = Placed(@, s.copy)]
    PROVE  SearchFields(t) /\ Kept(t) /\ Searching(t, s.seq - 1)
  <1>0. PICK q \in Nat \ {0}, c \in Copies, f \in Seq(Copies) :
           q = s.seq /\ c = s.copy /\ f = s.found
    BY DEF SearchFields
  <1>1. t.found = Placed(f, c) /\ t.pc = s.pc /\ t.left = s.left /\ t.copy = s.copy
        /\ t.key = s.key /\ t.seq = q /\ t.oldest = s.oldest
        /\ t.known = s.known /\ t.v1 = s.v1 /\ DOMAIN t = DOMAIN s
    BY <1>0 DEF SearchFields
  <1>2. SearchFields(t)
    BY <1>0, <1>1, PlacedIs DEF SearchFields
  <1>3. Kept(s) /\ Searching(s, q) /\ write \in Nat /\ s.oldest \in Nat /\ q > s.oldest
    BY <1>0 DEF SearchInv, SearchFields, RingType
  <1>4. c["head"] = q /\ c["tail"] = q /\ keyOf[q] = s.key
    BY <1>0 DEF SearchInv, Copying, Accepts, IsMatch, Words
  <1>5. Kept(t)
    BY <1>1, <1>3 DEF Kept, There
  <1>6. Bounds(t, q - 1)
    BY <1>1, <1>3 DEF Searching, Bounds
  <1>7. \A n \in 1 .. Len(f) : OneFound(s, f[n], q) /\ f[n]["head"] \in Nat
    BY <1>0, <1>3, FoundIs DEF Searching, Sorted
  <1>8. PICK g \in Seq(Copies) : g = Placed(f, c)
    BY PlacedIs
  <1>9. Len(g) = Len(f) + 1 /\ g[1] = c /\ \A n \in 1 .. Len(f) : g[n + 1] = f[n]
    BY <1>8, PlacedIs
  <1>10. Len(f) \in Nat
    OBVIOUS
  <1>11. ASSUME NEW n \in 1 .. Len(g) PROVE OneFound(t, g[n], q - 1)
    <2>1. CASE n = 1
      BY <1>1, <1>3, <1>4, <1>9, <2>1 DEF OneFound, WholeOf, Searching, Bounds
    <2>2. CASE n # 1
      <3>1. n - 1 \in 1 .. Len(f) /\ n = (n - 1) + 1
        BY <1>9, <1>10, <2>2
      <3>2. g[n] = f[n - 1]
        BY <1>9, <3>1
      <3>3. OneFound(s, f[n - 1], q)
        BY <1>7, <3>1
      <3> QED BY <1>1, <1>3, <3>2, <3>3 DEF OneFound
    <2> QED BY <2>1, <2>2
  <1>12. ASSUME NEW n \in 1 .. Len(g) - 1 PROVE g[n]["head"] < g[n + 1]["head"]
    <2>1. n \in 1 .. Len(f) /\ g[n + 1] = f[n]
      BY <1>9, <1>10
    <2>2. CASE n = 1
      BY <1>4, <1>7, <1>9, <2>1, <2>2 DEF OneFound
    <2>3. CASE n # 1
      <3>1. n - 1 \in 1 .. Len(f) - 1 /\ n = (n - 1) + 1
        BY <1>10, <2>1, <2>3
      <3>2. g[n] = f[n - 1]
        BY <1>9, <1>10, <3>1
      <3>3. f[n - 1]["head"] < f[n]["head"]
        BY <1>0, <1>3, <3>1 DEF Searching, Sorted
      <3> QED BY <2>1, <3>2, <3>3
    <2> QED BY <2>2, <2>3
  <1>13. Sorted(t, q - 1)
    BY <1>1, <1>8, <1>11, <1>12 DEF Sorted
  <1>14. HasNewer(t, q - 1)
    <2> SUFFICES ASSUME NEW n \in s.known, n + Capacity > write, n > q - 1
                 PROVE  g # <<>> /\ g[Len(g)]["head"] >= n
      BY <1>1, <1>8 DEF HasNewer, Has
    <2>0. n \in Nat
      BY DEF SearchFields
    <2>1. g # <<>> /\ Len(g) \in 1 .. Len(g)
      BY <1>9, <1>10
    <2>2. CASE n > q
      <3>1. f # <<>> /\ f[Len(f)]["head"] >= n
        BY <1>0, <1>3, <2>2 DEF Searching, HasNewer, Has
      <3>2. Len(f) \in 1 .. Len(f)
        BY <3>1
      <3> QED BY <1>9, <2>1, <3>1, <3>2
    <2>3. CASE n = q
      <3>1. OneFound(t, g[Len(g)], q - 1)
        BY <1>11, <2>1
      <3>2. g[Len(g)] \in Copies
        BY <2>1
      <3> QED BY <2>1, <2>3, <3>1, <3>2 DEF OneFound, Copies
    <2> QED BY <2>0, <2>2, <2>3
  <1> QED BY <1>0, <1>2, <1>5, <1>6, <1>13, <1>14 DEF Searching

LEMMA LoadV2Keeps ==
    ASSUME FreeType, FreeInv, NEW r \in Searchers, LoadV2(r)
    PROVE  FreeType' /\ FreeInv'
  <1>0. PICK s : s = sr[r]
    OBVIOUS
  <1>1. SearchFields(s) /\ s.pc = "v2" /\ RingType
    BY <1>0 DEF FreeType, LoadV2
  <1>2. PICK q \in Nat \ {0} : q = s.seq
    BY <1>1 DEF SearchFields
  <1>3. SlotOf(q) \in Cells
    BY <1>2, SlotIn
  <1>4. ~lapped => SearchInv(s) /\ WholeSlot(SlotOf(q))
    BY <1>0, <1>3 DEF FreeInv, Searches, RingInv, Alone
  <1>5. CASE Accepts(s) /\ IsMatch(s)
    <2> DEFINE t == [s EXCEPT !.found = Placed(@, s.copy)]
    <2>1. sr' = [sr EXCEPT ![r] = Walk(t, q - 1)]
      BY <1>0, <1>2, <1>5 DEF LoadV2
    <2>2. SearchFields(t)
      BY <1>1, PlacedIs DEF SearchFields
    <2>3. SearchFields(Walk(t, q - 1))
      BY <2>2, WalkFields
    <2>4. ASSUME ~lapped PROVE SearchInv(Walk(t, q - 1))
      <3>1. Kept(t) /\ Searching(t, q - 1)
        BY <1>1, <1>2, <1>4, <1>5, <2>4, MatchKeeps
      <3> QED BY <1>1, <2>2, <3>1, WalkKeeps
    <2> QED BY <2>1, <2>3, <2>4, SearcherStep DEF LoadV2, FreeInv
  <1>6. CASE ~(Accepts(s) /\ IsMatch(s))
    <2>1. sr' = [sr EXCEPT ![r] = Walk(s, q - 1)]
      BY <1>0, <1>2, <1>6 DEF LoadV2
    <2>2. SearchFields(Walk(s, q - 1))
      BY <1>1, WalkFields
    <2>3. ASSUME ~lapped PROVE SearchInv(Walk(s, q - 1))
      <3>1. \A n \in s.known : n = q /\ n + Capacity > write => FALSE
        <4> SUFFICES ASSUME q \in s.known, q + Capacity > write PROVE FALSE
          OBVIOUS
        <4>1. keyOf[q] = s.key /\ Published(version[SlotOf(q)], q)
          BY <1>4, <2>3 DEF SearchInv, Kept, There
        <4>2. Copying(s)
          BY <1>1, <1>4, <2>3 DEF SearchInv
        <4>3. version[SlotOf(q)] = s.v1
          BY <1>2, <4>1, <4>2 DEF Copying, Published
        <4>4. s.copy["head"] = q
          BY <1>1, <1>2, <4>2, <4>3 DEF Copying, Words
        <4> QED BY <1>2, <1>6, <4>1, <4>3, <4>4 DEF Accepts, IsMatch
      <3>2. Kept(s) /\ Searching(s, q - 1)
        BY <1>1, <1>2, <1>4, <2>3, <3>1, PassedBy
      <3> QED BY <1>1, <3>2, WalkKeeps
    <2> QED BY <2>1, <2>2, <2>3, SearcherStep DEF LoadV2, FreeInv
  <1> QED BY <1>5, <1>6

\* The filter along a writer's step.
LEMMA FilterStays ==
    ASSUME FreeType, Alone, Filtered, HasBloom, Moves, NEW w \in Writers,
           Record(w) \/ CountEviction(w)
    PROVE  (\A i \in Cells : InFilter(i)') /\ (\A u \in Writers : InFilterSoon(u)')
  <1>1. /\ write \in Nat /\ write' >= write /\ \A n \in 1 .. write : keyOf'[n] = keyOf[n]
        /\ \A i \in Cells : version[i].seq \in 0 .. write
    BY DEF Moves, FreeType, RingType, Version, Alone, WholeSlot
  <1>2. /\ \A u \in Writers : wr[u].pc # "idle" => wr[u].seq \in 1 .. write
        /\ \A u \in Writers : wr[u].seq \in Nat
    BY DEF FreeType, RingType, WriterFields
  <1>3. (\A i \in Cells : InFilter(i)) /\ (\A u \in Writers : InFilterSoon(u)) /\ RingType
    BY DEF Filtered, FreeType
  <1>4. CASE \E k \in Keys : Take(w, k) /\ UNCHANGED freeVars
    <2>1. PICK k : Take(w, k)
      BY <1>4
    <2>2. /\ version' = version /\ wr'[w].pc = "taken" /\ bloom' = bloom
          /\ \A u \in Writers \ {w} : wr'[u] = wr[u]
      BY <1>3, <1>4, <2>1, TakeIs DEF Others, freeVars
    <2>3. ASSUME NEW i \in Cells PROVE InFilter(i)'
      <3>1. InFilter(i) /\ version[i].seq \in 0 .. write
        BY <1>1, <1>3
      <3> QED BY <1>1, <2>2, <3>1 DEF InFilter
    <2>4. ASSUME NEW u \in Writers PROVE InFilterSoon(u)'
      <3>1. InFilterSoon(u) /\ (wr[u].pc # "idle" => wr[u].seq \in 1 .. write)
        BY <1>2, <1>3
      <3> QED BY <1>1, <2>2, <3>1 DEF InFilterSoon
    <2> QED BY <2>3, <2>4
  <1>5. CASE Invalidate(w) /\ bloom' = Added(keyOf[wr[w].seq])
    <2>1. PICK s \in Nat : s = wr[w].seq
      BY <1>2
    <2>2. /\ version'[SlotOf(s)] = [seq |-> s, writing |-> TRUE]
          /\ \A i \in Cells \ {SlotOf(s)} : version'[i] = version[i]
          /\ keyOf' = keyOf /\ wr'[w].seq = s
          /\ \A u \in Writers \ {w} : wr'[u] = wr[u]
      BY <1>3, <1>5, <2>1, InvalidateIs DEF Others, SlotSet
    <2>3. bloom' = bloom \cup {keyOf[s]}
      BY <1>5, <2>1 DEF Added
    <2>4. ASSUME NEW i \in Cells PROVE InFilter(i)'
      <3>1. CASE i = SlotOf(s)
        BY <2>2, <3>1 DEF InFilter
      <3>2. CASE i # SlotOf(s)
        BY <1>3, <2>2, <2>3, <3>2 DEF InFilter
      <3> QED BY <3>1, <3>2
    <2>5. ASSUME NEW u \in Writers PROVE InFilterSoon(u)'
      BY <1>3, <2>2, <2>3 DEF InFilterSoon
    <2> QED BY <2>4, <2>5
  <1>6. CASE CopyIn(w) /\ UNCHANGED freeVars
    <2>1. /\ UNCHANGED <<version, keyOf, bloom>> /\ wr[w].pc = "copy" /\ wr'[w].seq = wr[w].seq
          /\ \A u \in Writers \ {w} : wr'[u] = wr[u]
      BY <1>3, <1>6, CopyInIs DEF Others, freeVars
    <2> QED BY <1>3, <2>1 DEF InFilter, InFilterSoon
  <1>7. CASE Publish(w) /\ UNCHANGED freeVars
    <2>1. PICK s \in Nat : s = wr[w].seq
      BY <1>2
    <2>2. /\ version'[SlotOf(s)] = [seq |-> s, writing |-> FALSE]
          /\ \A i \in Cells \ {SlotOf(s)} : version'[i] = version[i]
          /\ UNCHANGED <<keyOf, bloom>> /\ wr'[w].pc = "count" /\ wr[w].pc = "publish"
          /\ \A u \in Writers \ {w} : wr'[u] = wr[u]
      BY <1>3, <1>7, <2>1, PublishIs DEF Others, SlotSet, freeVars
    <2>3. keyOf[s] \in bloom
      BY <1>3, <2>1, <2>2 DEF InFilterSoon
    <2>4. ASSUME NEW i \in Cells PROVE InFilter(i)'
      <3>1. CASE i = SlotOf(s)
        BY <2>2, <2>3, <3>1 DEF InFilter
      <3>2. CASE i # SlotOf(s)
        BY <1>3, <2>2, <3>2 DEF InFilter
      <3> QED BY <3>1, <3>2
    <2>5. ASSUME NEW u \in Writers PROVE InFilterSoon(u)'
      BY <1>3, <2>2 DEF InFilterSoon
    <2> QED BY <2>4, <2>5
  <1>8. CASE CountEviction(w)
    <2>1. /\ UNCHANGED <<version, keyOf, bloom>> /\ wr'[w].pc = "idle"
          /\ \A u \in Writers \ {w} : wr'[u] = wr[u]
      BY <1>3, <1>8, CountedIs DEF CountEviction, Others
    <2> QED BY <1>3, <2>1 DEF InFilter, InFilterSoon
  <1> QED BY <1>4, <1>5, <1>6, <1>7, <1>8 DEF Record

LEMMA FreeWriterKeeps ==
    ASSUME FreeType, FreeInv, NEW w \in Writers, Record(w) \/ CountEviction(w)
    PROVE  FreeType' /\ FreeInv'
  <1>1. RingAct(w) /\ UNCHANGED <<kind, sr>>
    BY DEF Record, CountEviction, RingAct, freeVars
  <1>2. RingType /\ RingInv
    BY DEF FreeType, FreeInv
  <1>3. RingType' /\ RingInv' /\ (~lapped' => ~lapped /\ Moves)
    BY <1>1, <1>2, RingStep
  <1>4. FreeType'
    BY <1>1, <1>3 DEF FreeType
  <1>5. ASSUME ~lapped' PROVE Filtered' /\ Searches'
    <2>1. ~lapped /\ Moves /\ Alone /\ Filtered /\ Searches
      BY <1>3, <1>5 DEF FreeInv, RingInv
    <2>2. Filtered'
      <3>1. HasBloom' <=> HasBloom
        BY <1>1 DEF HasBloom
      <3> QED BY <2>1, <3>1, FilterStays DEF Filtered
    <2>3. ASSUME NEW r \in Searchers PROVE SearchInv(sr[r])'
      <3>1. PICK s : s = sr[r]
        OBVIOUS
      <3>2. SearchFields(s) /\ SearchInv(s)
        BY <2>1, <3>1 DEF FreeType, Searches
      <3>3. SearchInv(s)'
        BY <1>2, <1>3, <2>1, <3>2, SearchStays
      <3> QED BY <1>1, <3>1, <3>3, SearchNow
    <2> QED BY <2>2, <2>3 DEF Searches
  <1> QED BY <1>3, <1>4, <1>5 DEF FreeInv

LEMMA FreeStart ==
    ASSUME FreeInit
    PROVE  FreeType /\ FreeInv
  <1>1. RingType /\ RingInv
    BY RingStart DEF FreeInit
  <1>2. ASSUME NEW r \in Searchers PROVE SearchFields(sr[r]) /\ SearchInv(sr[r])
    <2>1. sr[r] = NotSearching
      BY DEF FreeInit
    <2>2. PICK s : s = NotSearching
      OBVIOUS
    <2>3. DOMAIN s = {"pc", "key", "seq", "oldest", "v1", "copy", "left", "found", "known"}
          /\ s.pc = "idle" /\ s.seq = 0 /\ s.oldest = 0 /\ s.v1 = NoVersion
          /\ s.copy = [x \in Words |-> 0] /\ s.left = {} /\ s.found = <<>> /\ s.known = {}
      BY <2>2 DEF NotSearching
    <2>4. SearchFields(s)
      BY <2>3 DEF SearchFields, NoVersion, Version, Copies
    <2>5. SearchInv(s)
      BY <2>3 DEF SearchInv, Kept, Sorted, HasNewer
    <2> QED BY <2>1, <2>2, <2>4, <2>5
  <1>3. FreeType
    BY <1>1, <1>2 DEF FreeInit, FreeType
  <1>4. Filtered
    <2>1. ASSUME NEW i \in Cells PROVE InFilter(i)
      BY DEF FreeInit, RingInit, InFilter, NoVersion
    <2>2. ASSUME NEW w \in Writers PROVE InFilterSoon(w)
      BY DEF FreeInit, RingInit, InFilterSoon
    <2> QED BY <2>1, <2>2 DEF Filtered
  <1> QED BY <1>1, <1>2, <1>3, <1>4 DEF FreeInv, Searches

LEMMA FreeStep ==
    ASSUME FreeType, FreeInv, [FreeNext]_<<ringVars, freeVars>>
    PROVE  FreeType' /\ FreeInv'
  <1>1. ASSUME NEW w \in Writers, Record(w) \/ CountEviction(w) PROVE FreeType' /\ FreeInv'
    BY <1>1, FreeWriterKeeps
  <1>2. ASSUME NEW r \in Searchers, \E k \in Keys : Find(r, k) PROVE FreeType' /\ FreeInv'
    BY <1>2, FindKeeps
  <1>3. ASSUME NEW r \in Searchers, LoadNewest(r) \/ LoadV1(r) \/ CopyOut(r) \/ LoadV2(r)
        PROVE  FreeType' /\ FreeInv'
    BY <1>3, LoadNewestKeeps, LoadV1Keeps, CopyOutKeeps, LoadV2Keeps
  <1>4. CASE UNCHANGED <<ringVars, freeVars>>
    <2>1. RingType' /\ RingInv'
      BY <1>4 DEF FreeType, FreeInv, RingType, RingInv, Alone, Apart, In, Numbered, Marked,
                  Filled, WholeSlot, ringVars
    <2>2. FreeType'
      BY <1>4, <2>1 DEF FreeType, freeVars
    <2>3. ASSUME ~lapped PROVE Filtered' /\ Searches'
      <3>1. Filtered'
        BY <1>4, <2>3 DEF FreeInv, Filtered, InFilter, InFilterSoon, HasBloom, ringVars, freeVars
      <3>2. ASSUME NEW r \in Searchers PROVE SearchInv(sr[r])'
        <4>1. PICK s : s = sr[r] /\ SearchInv(s)
          BY <2>3 DEF FreeInv, Searches
        <4>2. SearchInv(s)'
          BY <1>4, <4>1, SearchSame DEF ringVars, freeVars
        <4> QED BY <1>4, <4>1, <4>2, SearchNow DEF freeVars
      <3> QED BY <3>1, <3>2 DEF Searches
    <2> QED BY <1>4, <2>1, <2>2, <2>3 DEF FreeInv, ringVars
  <1> QED BY <1>1, <1>2, <1>3, <1>4 DEF FreeNext

LEMMA FreeSpecInv == FreeSpec => [](FreeType /\ FreeInv)
  <1>1. FreeInit => FreeType /\ FreeInv
    BY FreeStart
  <1>2. FreeType /\ FreeInv /\ [FreeNext]_<<ringVars, freeVars>> => (FreeType /\ FreeInv)'
    BY FreeStep
  <1> QED BY <1>1, <1>2, PTL DEF FreeSpec

\* What the searches have found so far.
LEMMA SearchSorted ==
    ASSUME FreeType, FreeInv, ~lapped, NEW r \in Searchers
    PROVE  \E after \in Nat : Sorted(sr[r], after)
  <1>1. PICK s : s = sr[r] /\ SearchFields(s) /\ SearchInv(s)
    BY DEF FreeType, FreeInv, Searches
  <1>2. CASE s.pc = "newest"
    <2>1. s.found = <<>>
      BY <1>1, <1>2 DEF SearchInv
    <2>2. Sorted(s, 0)
      BY <2>1 DEF Sorted
    <2> QED BY <1>1, <2>2
  <1>3. CASE s.pc # "newest"
    BY <1>1, <1>3 DEF SearchFields, SearchInv, Searching
  <1> QED BY <1>2, <1>3

\* Whatever a search has found is whole records of the address it was asked for, in
\* the order they were recorded: the walk back of ScaleformFreeRing and WeakLibEvents
\* accepts nothing torn, however the writers and the searchers interleave, as long as
\* no two writers have been inside one slot.
THEOREM SpecFoundInOrder == FreeSpec => []FoundInOrder
  <1>1. FreeType /\ FreeInv => FoundInOrder
    <2> SUFFICES ASSUME FreeType, FreeInv, ~lapped, NEW r \in Searchers
                 PROVE  LET f == sr[r].found IN
                        /\ \A i \in 1 .. Len(f) : WholeOf(f[i]) /\ keyOf[f[i]["head"]] = sr[r].key
                        /\ \A i \in 1 .. Len(f) - 1 : f[i]["head"] < f[i + 1]["head"]
      BY DEF FoundInOrder
    <2>1. PICK after \in Nat : Sorted(sr[r], after)
      BY SearchSorted
    <2> QED BY <2>1 DEF Sorted, OneFound
  <1> QED BY <1>1, FreeSpecInv, PTL

\* A finished search has the newest record of its address that was there when it
\* began and whose slot nobody has reserved since: the filter is told of an address
\* before its record can be read, and a record being written or overwritten hides
\* none but itself, as long as no two writers have been inside one slot.
THEOREM SpecFindsNewest == FreeSpec => []FindsNewest
  <1>1. FreeType /\ FreeInv => FindsNewest
    <2> SUFFICES ASSUME FreeType, FreeInv, ~lapped, NEW r \in Searchers, sr[r].pc = "idle",
                        NEW n \in sr[r].known, n + Capacity > write
                 PROVE  sr[r].found # <<>> /\ sr[r].found[Len(sr[r].found)]["head"] >= n
      BY DEF FindsNewest
    <2>1. PICK s : s = sr[r]
      OBVIOUS
    <2>2. SearchInv(s)
      BY <2>1 DEF FreeInv, Searches
    <2>3. n \in 1 .. write /\ HasNewer(s, 0)
      BY <2>1, <2>2 DEF SearchInv, Kept, There
    <2> QED BY <2>1, <2>3 DEF HasNewer, Has, FreeType, RingType
  <1> QED BY <1>1, FreeSpecInv, PTL

(***************************************************************************)
(* The drain                                                               *)
(***************************************************************************)
DrainFields(d) ==
    /\ DOMAIN d = {"pc", "written", "read", "v1", "copy", "left", "copied"}
    /\ d.pc \in {"idle", "v1", "copy", "v2"} /\ d.written \in Nat /\ d.read \in Nat
    /\ d.v1 \in Version /\ d.copy \in Copies /\ d.left \in SUBSET Words /\ d.copied \in Nat
ReportType == RingType /\ read \in Nat /\ dropped \in Nat /\ drained \in Seq(Copies) /\ DrainFields(dr)

(* The last number the drain has passed.                                       *)
Front == IF dr.pc = "idle" THEN read ELSE dr.read
InOrder ==
    /\ \A n \in 1 .. Len(drained) : /\ drained[n]["head"] = drained[n]["tail"]
                                    /\ drained[n]["head"] <= Front
    /\ \A n \in 1 .. Len(drained) - 1 : drained[n]["head"] < drained[n + 1]["head"]
Cursors ==
    /\ read <= Front /\ Front <= write
    /\ dr.pc # "idle" => dr.written <= write /\ dr.read < dr.written
(* What the drain has passed and not yet stored its cursor for was handed out. *)
Given == \A s \in read + 1 .. Front : s \in Delivered
Reading(d) ==
    LET v == version[SlotOf(d.read + 1)] IN
    /\ Published(d.v1, d.read + 1)
    /\ v = d.v1 \/ v.seq > d.read + 1
    /\ v = d.v1 => \A x \in Words \ d.left : d.copy[x] = d.read + 1
    /\ d.pc = "v2" => d.left = {}
(* Passed, or overwritten by a record that is in, and not handed out.          *)
Settled(n) == \A w \in Writers : wr[w].pc = "idle" \/ wr[w].seq # n
Lost == {s \in 1 .. write : /\ s <= read \/ (s + Capacity <= write /\ Settled(s + Capacity))
                            /\ s \notin Delivered}
LossesCounted == Cardinality(Lost) <= dropped
ReportInv ==
    /\ RingInv
    /\ ~lapped => /\ InOrder /\ Cursors /\ Given /\ LossesCounted
                  /\ dr.pc \in {"copy", "v2"} => Reading(dr)

LEMMA LostFinite ==
    ASSUME write \in Nat
    PROVE  IsFiniteSet(Lost)
  <1>1. IsFiniteSet(1 .. write)
    BY FS_Interval
  <1> QED BY <1>1, FS_Subset DEF Lost

LEMMA NoLoss ==
    ASSUME ReportType, ReportType', LossesCounted, Lost' \subseteq Lost, dropped' >= dropped
    PROVE  LossesCounted'
  BY LostFinite, NoMoreLost DEF ReportType, RingType, LossesCounted

LEMMA NewLoss ==
    ASSUME ReportType, LossesCounted, NEW a \in Int, NEW b \in Int, a <= b + 1,
           Lost' \subseteq Lost \cup (a .. b), dropped' = dropped + (b + 1 - a)
    PROVE  LossesCounted'
  BY LostFinite, RangeLost DEF ReportType, RingType, LossesCounted

\* The handlers' steps: what is lost, and what the drain is reading.
LEMMA LossStays ==
    ASSUME ReportType, ReportType', Cursors, NEW w \in Writers,
           (\E k : Take(w, k)) \/ Invalidate(w) \/ CopyIn(w) \/ Publish(w),
           UNCHANGED <<read, drained, dr>>
    PROVE  Lost' \subseteq Lost
  <1>0. RingType /\ write \in Nat /\ Delivered' = Delivered /\ read \in Nat /\ read <= write
    BY DEF ReportType, RingType, Delivered, Cursors, Front, DrainFields
  <1>1. CASE \E k : Take(w, k)
    <2>1. PICK k : Take(w, k)
      BY <1>1
    <2>2. /\ write' = write + 1 /\ wr[w].pc = "idle" /\ wr'[w].pc = "taken" /\ wr'[w].seq = write + 1
          /\ \A u \in Writers \ {w} : wr'[u] = wr[u]
      BY <1>0, <2>1, TakeIs DEF Others
    <2>3. \A n \in Nat : Settled(n)' => Settled(n) /\ n # write + 1
      BY <2>2 DEF Settled
    <2> SUFFICES ASSUME NEW s \in Lost' PROVE s \in Lost
      OBVIOUS
    <2>4. s \in 1 .. write + 1 /\ s \notin Delivered /\ s + Capacity \in Nat
          /\ (s <= read \/ (s + Capacity <= write + 1 /\ Settled(s + Capacity)'))
      BY <1>0, <2>2, Constants DEF Lost
    <2>5. s <= read \/ (s + Capacity <= write /\ Settled(s + Capacity))
      BY <1>0, <2>3, <2>4, Constants
    <2> QED BY <1>0, <2>4, <2>5, Constants DEF Lost
  <1>2. CASE Invalidate(w) \/ CopyIn(w) \/ Publish(w)
    <2>1. write' = write /\ wr[w].pc # "idle" /\ wr'[w].pc # "idle" /\ wr'[w].seq = wr[w].seq
          /\ \A u \in Writers \ {w} : wr'[u] = wr[u]
      BY <1>0, <1>2, InvalidateIs, CopyInIs, PublishIs DEF Others
    <2>2. \A n : Settled(n)' <=> Settled(n)
      BY <2>1 DEF Settled
    <2> QED BY <1>0, <2>1, <2>2 DEF Lost
  <1> QED BY <1>1, <1>2

LEMMA DrainSees ==
    ASSUME ReportType, ReportType', Alone, Moves, Reading(dr), UNCHANGED dr
    PROVE  Reading(dr)'
  <1>0. PICK d : d = dr
    OBVIOUS
  <1>1. DrainFields(d) /\ Reading(d)
    BY <1>0 DEF ReportType
  <1>2. PICK q \in Nat : q = d.read + 1
    BY <1>1 DEF DrainFields
  <1>3. PICK i \in Cells : i = SlotOf(q)
    BY <1>2, SlotIn
  <1>4. version[i] \in Version /\ version'[i] \in Version /\ Grows(i)
    BY DEF ReportType, RingType, Moves
  <1>5. version[i].seq \in Nat /\ version'[i].seq \in Nat
    BY <1>4 DEF Version
  <1>6. version[i] = d.v1 \/ version[i].seq > q
    BY <1>1, <1>2, <1>3 DEF Reading
  <1>7. Published(d.v1, q)
    BY <1>1, <1>2 DEF Reading
  <1>8. version[i] = d.v1 => version[i].seq = q /\ ~version[i].writing
    BY <1>7 DEF Published
  <1>9. version'[i] = d.v1 \/ version'[i].seq > q
    BY <1>4, <1>5, <1>6, <1>8 DEF Grows
  <1>10. version'[i] = d.v1 => version[i] = d.v1
    <2>1. version'[i] = d.v1 => version'[i].seq = q
      BY <1>7 DEF Published
    <2> QED BY <1>4, <1>5, <1>6, <2>1 DEF Grows
  <1>11. Reading(d)'
    BY <1>1, <1>2, <1>3, <1>7, <1>9, <1>10 DEF Reading
  <1> QED BY <1>0, <1>11 DEF Reading

LEMMA HandlerKeeps ==
    ASSUME ReportType, ReportInv, NEW w \in Writers, RecordReport(w) \/ CountDrop(w)
    PROVE  ReportType' /\ ReportInv'
  <1>1. RingAct(w) /\ UNCHANGED <<read, drained, dr>> /\ (RecordReport(w) => dropped' = dropped)
    BY DEF RecordReport, CountDrop, RingAct, reportVars
  <1>2. RingType /\ RingInv
    BY DEF ReportType, ReportInv
  <1>3. RingType' /\ RingInv' /\ (~lapped' => ~lapped /\ Moves)
    BY <1>1, <1>2, RingStep
  <1>4. dropped' \in Nat /\ dropped' >= dropped
    BY DEF ReportType, RecordReport, CountDrop, reportVars
  <1>5. ReportType'
    BY <1>1, <1>3, <1>4 DEF ReportType
  <1>6. ASSUME ~lapped'
        PROVE  /\ InOrder' /\ Cursors' /\ Given' /\ LossesCounted'
               /\ dr'.pc \in {"copy", "v2"} => Reading(dr)'
    <2>1. /\ ~lapped /\ Moves /\ Alone /\ InOrder /\ Cursors /\ Given /\ LossesCounted
          /\ dr.pc \in {"copy", "v2"} => Reading(dr)
      BY <1>3, <1>6 DEF ReportInv, RingInv
    <2>2. Front' = Front /\ Delivered' = Delivered
      BY <1>1 DEF Front, Delivered
    <2>3. write' >= write /\ write \in Nat /\ write' \in Nat
      BY <1>2, <1>3, <2>1 DEF RingType, Moves
    <2>4. InOrder' /\ Given'
      BY <1>1, <2>1, <2>2 DEF InOrder, Given
    <2>5. Cursors'
      BY <1>1, <2>1, <2>2, <2>3 DEF Cursors, ReportType, DrainFields, Front
    <2>6. dr'.pc \in {"copy", "v2"} => Reading(dr)'
      BY <1>1, <1>5, <2>1, DrainSees
    <2>7. LossesCounted'
      <3>1. CASE RecordReport(w)
        <4>1. Lost' \subseteq Lost
          BY <1>1, <1>5, <2>1, <3>1, LossStays DEF RecordReport
        <4> QED BY <1>4, <1>5, <2>1, <4>1, NoLoss
      <3>2. CASE CountDrop(w)
        <4>0. PICK t \in 1 .. write : t = wr[w].seq
          BY <1>2, <3>2 DEF RingType, CountDrop, Counted
        <4>1. write' = write /\ wr'[w].pc = "idle" /\ \A u \in Writers \ {w} : wr'[u] = wr[u]
          BY <1>2, <3>2, CountedIs DEF CountDrop, Others
        <4>2. \A n : Settled(n)' => Settled(n) \/ n = t
          BY <4>0, <4>1 DEF Settled
        <4>3. ASSUME NEW s \in Lost', s \notin Lost PROVE s + Capacity = t /\ s > read
          <5>1. s \in 1 .. write /\ s \notin Delivered
                /\ (s <= read \/ (s + Capacity <= write /\ Settled(s + Capacity)'))
            BY <1>1, <2>2, <4>1 DEF Lost
          <5> QED BY <4>2, <4>3, <5>1 DEF Lost, ReportType
        <4>4. CASE Overwrote(t)
          <5>1. Lost' \subseteq Lost \cup (t - Capacity .. t - Capacity)
            BY <4>3, Constants DEF Lost
          <5>2. dropped' = dropped + (t - Capacity + 1 - (t - Capacity))
            BY <3>2, <4>0, <4>4, Constants DEF CountDrop, ReportType
          <5>3. t - Capacity \in Int /\ t - Capacity <= t - Capacity + 1
            BY Constants
          <5> QED BY <1>5, <2>1, <5>1, <5>2, <5>3, NewLoss
        <4>5. CASE ~Overwrote(t)
          <5>1. Lost' \subseteq Lost
            <6> SUFFICES ASSUME NEW s \in Lost', s \notin Lost PROVE FALSE
              OBVIOUS
            <6>1. s + Capacity = t /\ s > read /\ s \in Nat /\ s > 0
              BY <2>3, <4>3 DEF Lost
            <6> QED BY <4>5, <6>1, Constants DEF Overwrote, ReportType
          <5> QED BY <1>4, <1>5, <2>1, <5>1, NoLoss
        <4> QED BY <4>4, <4>5
      <3> QED BY <3>1, <3>2
    <2> QED BY <2>4, <2>5, <2>6, <2>7
  <1> QED BY <1>3, <1>5, <1>6 DEF ReportInv

\* A step of the drain leaves the ring.
LEMMA RingSame ==
    ASSUME RingType, RingInv, UNCHANGED ringVars
    PROVE  RingType' /\ RingInv'
  BY DEF RingType, RingInv, Alone, Apart, In, Numbered, Marked, Filled, WholeSlot, ringVars

LEMMA NotDrainingIs ==
    NotDraining.pc = "idle" /\ DrainFields(NotDraining)
  <1>1. PICK d : d = NotDraining
    OBVIOUS
  <1>2. DOMAIN d = {"pc", "written", "read", "v1", "copy", "left", "copied"}
        /\ d.pc = "idle" /\ d.written = 0 /\ d.read = 0 /\ d.v1 = NoVersion
        /\ d.copy = [x \in Words |-> 0] /\ d.left = {} /\ d.copied = 0
    BY <1>1 DEF NotDraining
  <1>3. DrainFields(d)
    BY <1>2 DEF DrainFields, NoVersion, Version, Copies
  <1> QED BY <1>1, <1>2, <1>3

LEMMA BeginKeeps ==
    ASSUME ReportType, ReportInv, DrainBegins
    PROVE  ReportType' /\ ReportInv'
  <1>0. PICK d : d = dr'
    OBVIOUS
  <1>1. RingType /\ RingInv /\ write \in Nat /\ read \in Nat /\ Capacity \in Nat \ {0} /\ dropped \in Nat
    BY Constants DEF ReportType, ReportInv, RingType
  <1>2. RingType' /\ RingInv' /\ UNCHANGED <<write, version, wr, lapped, drained>>
    BY <1>1, RingSame DEF DrainBegins, ringVars
  <1>3. PICK oldest \in Nat : oldest = OldestLive(write)
    <2>1. OldestLive(write) \in Nat
      BY <1>1 DEF OldestLive
    <2> QED BY <2>1
  <1>4. PICK from \in Nat : from = (IF oldest > read + 1 THEN oldest - 1 ELSE read)
    BY <1>1, <1>3
  <1>5. /\ dr.pc = "idle" /\ read < write
        /\ dropped' = dropped + Skipped(read, oldest) /\ read' = from
        /\ d = [NotDraining EXCEPT !.pc = "v1", !.written = write, !.read = from]
    BY <1>0, <1>3, <1>4 DEF DrainBegins
  <1>6. d.pc = "v1" /\ d.written = write /\ d.read = from /\ d.v1 = NoVersion
        /\ d.copy = [x \in Words |-> 0] /\ d.left = {} /\ d.copied = 0
        /\ DOMAIN d = {"pc", "written", "read", "v1", "copy", "left", "copied"}
    BY <1>5 DEF NotDraining
  <1>7. DrainFields(d)
    BY <1>1, <1>4, <1>6 DEF DrainFields, NoVersion, Version, Copies
  <1>8. Skipped(read, oldest) = from - read /\ read <= from /\ from < write
    BY <1>1, <1>3, <1>4, <1>5 DEF Skipped, OldestLive
  <1>9. dropped' = dropped + (from - read) /\ dropped' \in Nat
    BY <1>1, <1>4, <1>5, <1>8
  <1>10. ReportType'
    BY <1>0, <1>2, <1>4, <1>5, <1>7, <1>9 DEF ReportType
  <1>11. ASSUME ~lapped PROVE InOrder' /\ Cursors' /\ Given' /\ LossesCounted'
    <2>1. InOrder /\ Cursors /\ LossesCounted
      BY <1>11 DEF ReportInv
    <2>2. Front = read /\ Front' = from /\ Delivered' = Delivered
      BY <1>0, <1>2, <1>5, <1>6 DEF Front, Delivered
    <2>3. InOrder'
      <3>1. \A n \in 1 .. Len(drained) : drained[n]["head"] \in Nat
        BY DEF ReportType, Copies, Words
      <3>2. drained' = drained
        BY <1>2
      <3> QED BY <1>1, <1>4, <1>8, <2>1, <2>2, <3>1, <3>2 DEF InOrder
    <2>4. Cursors' /\ Given'
      BY <1>0, <1>1, <1>2, <1>4, <1>5, <1>6, <1>8, <2>2 DEF Cursors, Given
    <2>5. Lost' \subseteq Lost \cup (read + 1 .. from)
      <3>1. \A n : Settled(n)' <=> Settled(n)
        BY <1>2 DEF Settled
      <3> SUFFICES ASSUME NEW s \in Lost', s \notin Lost PROVE s \in read + 1 .. from
        OBVIOUS
      <3>2. s \in 1 .. write /\ s \notin Delivered
            /\ (s <= from \/ (s + Capacity <= write /\ Settled(s + Capacity)))
        BY <1>2, <1>5, <2>2, <3>1 DEF Lost
      <3> QED BY <1>1, <1>4, <3>2 DEF Lost
    <2>6. LossesCounted'
      <3>1. read + 1 \in Int /\ read + 1 <= from + 1 /\ dropped' = dropped + (from + 1 - (read + 1))
        BY <1>1, <1>4, <1>8, <1>9
      <3> QED BY <1>4, <1>10, <2>1, <2>5, <3>1, NewLoss
    <2> QED BY <2>3, <2>4, <2>6
  <1>12. dr'.pc = "v1"
    BY <1>0, <1>6
  <1> QED BY <1>2, <1>10, <1>11, <1>12 DEF ReportInv

\* The drain ends where it is, with its cursor stored.
LEMMA EndKeeps ==
    ASSUME ReportType, ReportInv, UNCHANGED <<ringVars, dropped>>,
           dr' = NotDraining, drained' \in Seq(Copies), NEW front \in Nat, read' = front,
           ~lapped => /\ read <= front /\ front <= write /\ Delivered \subseteq Delivered'
                      /\ \A s \in read + 1 .. front : s \in Delivered'
                      /\ \A n \in 1 .. Len(drained') : /\ drained'[n]["head"] = drained'[n]["tail"]
                                                       /\ drained'[n]["head"] <= front
                      /\ \A n \in 1 .. Len(drained') - 1 :
                            drained'[n]["head"] < drained'[n + 1]["head"]
    PROVE  ReportType' /\ ReportInv'
  <1>1. RingType /\ RingInv /\ write \in Nat /\ read \in Nat
    BY DEF ReportType, ReportInv, RingType
  <1>2. RingType' /\ RingInv' /\ UNCHANGED <<write, wr, lapped>>
    BY <1>1, RingSame DEF ringVars
  <1>3. dr'.pc = "idle" /\ DrainFields(dr')
    BY NotDrainingIs
  <1>4. ReportType'
    BY <1>2, <1>3 DEF ReportType
  <1>5. ASSUME ~lapped PROVE InOrder' /\ Cursors' /\ Given' /\ LossesCounted'
    <2>1. Front' = front
      BY <1>3 DEF Front
    <2>2. InOrder'
      BY <1>5, <2>1 DEF InOrder
    <2>3. Cursors' /\ Given'
      BY <1>2, <1>3, <1>5, <2>1 DEF Cursors, Given
    <2>4. Lost' \subseteq Lost
      <3>1. \A n : Settled(n)' <=> Settled(n)
        BY <1>2 DEF Settled
      <3> SUFFICES ASSUME NEW s \in Lost' PROVE s \in Lost
        OBVIOUS
      <3>2. s \in 1 .. write /\ s \notin Delivered'
            /\ (s <= front \/ (s + Capacity <= write /\ Settled(s + Capacity)))
        BY <1>2, <3>1 DEF Lost
      <3>3. s \notin Delivered /\ s \notin read + 1 .. front
        BY <1>5, <3>2
      <3> QED BY <1>1, <3>2, <3>3 DEF Lost
    <2>5. LossesCounted'
      BY <1>4, <1>5, <2>4, NoLoss DEF ReportInv, ReportType
    <2> QED BY <2>2, <2>3, <2>5
  <1> QED BY <1>2, <1>3, <1>4, <1>5 DEF ReportInv

\* The drain goes on; read and the ring stay.
LEMMA OnKeeps ==
    ASSUME ReportType, ReportInv, UNCHANGED <<ringVars, dropped, read>>,
           DrainFields(dr'), dr'.pc # "idle", drained' \in Seq(Copies),
           ~lapped => /\ InOrder' /\ Cursors' /\ Given' /\ Delivered \subseteq Delivered'
                      /\ dr'.pc \in {"copy", "v2"} => Reading(dr)'
    PROVE  ReportType' /\ ReportInv'
  <1>1. RingType /\ RingInv
    BY DEF ReportType, ReportInv
  <1>2. RingType' /\ RingInv' /\ UNCHANGED <<write, wr, lapped>>
    BY <1>1, RingSame DEF ringVars
  <1>3. ReportType'
    BY <1>2 DEF ReportType
  <1>4. ASSUME ~lapped PROVE LossesCounted'
    <2>1. \A n : Settled(n)' <=> Settled(n)
      BY <1>2 DEF Settled
    <2>2. Lost' \subseteq Lost
      BY <1>2, <1>4, <2>1 DEF Lost
    <2> QED BY <1>3, <1>4, <2>2, NoLoss DEF ReportInv, ReportType
  <1> QED BY <1>2, <1>3, <1>4 DEF ReportInv

LEMMA BreakKeeps ==
    ASSUME ReportType, ReportInv, dr.pc # "idle", Break, UNCHANGED <<ringVars, dropped, drained>>
    PROVE  ReportType' /\ ReportInv'
  <1>1. PICK front \in Nat : front = dr.read
    BY DEF ReportType, DrainFields
  <1>2. dr' = NotDraining /\ read' = front /\ drained' \in Seq(Copies)
    BY <1>1 DEF Break, ReportType
  <1>3. ~lapped => Front = front /\ InOrder /\ Cursors /\ Given
    BY <1>1 DEF Front, ReportInv
  <1>4. Delivered' = Delivered
    BY DEF Delivered
  <1>5. ~lapped => read <= front /\ front <= write /\ \A s \in read + 1 .. front : s \in Delivered'
    BY <1>3, <1>4 DEF Cursors, Given
  <1> QED BY <1>1, <1>2, <1>3, <1>4, <1>5, EndKeeps DEF InOrder

LEMMA ReportV1Keeps ==
    ASSUME ReportType, ReportInv, ReportV1
    PROVE  ReportType' /\ ReportInv'
  <1>1. PICK q \in Nat, i \in Cells : q = dr.read + 1 /\ i = SlotOf(q)
    BY SlotIn DEF ReportType, DrainFields
  <1>2. CASE Published(version[i], q)
    <2> DEFINE d == [dr EXCEPT !.v1 = version[i], !.left = Words, !.pc = "copy"]
    <2>1. dr' = d /\ UNCHANGED <<ringVars, dropped, read, drained>> /\ dr.pc = "v1"
      BY <1>1, <1>2 DEF ReportV1
    <2>2. DrainFields(d)
      BY DEF ReportType, DrainFields, RingType
    <2>3. d.pc = "copy" /\ d.v1 = version[i] /\ d.left = Words /\ d.read = dr.read
          /\ d.written = dr.written
      BY DEF ReportType, DrainFields
    <2> HIDE DEF d
    <2>4. Reading(dr)'
      BY <1>1, <1>2, <2>1, <2>3 DEF Reading, ringVars
    <2>5. Front' = Front /\ Delivered' = Delivered
      BY <2>1, <2>3 DEF Front, Delivered
    <2>6. ~lapped => InOrder' /\ Cursors' /\ Given'
      BY <2>1, <2>3, <2>5 DEF ReportInv, InOrder, Cursors, Given, ringVars
    <2> QED BY <2>1, <2>2, <2>3, <2>4, <2>5, <2>6, OnKeeps DEF ReportType
  <1>3. CASE ~Published(version[i], q)
    BY <1>1, <1>3, BreakKeeps DEF ReportV1
  <1> QED BY <1>2, <1>3

LEMMA CopyReportKeeps ==
    ASSUME ReportType, ReportInv, CopyReport
    PROVE  ReportType' /\ ReportInv'
  <1>1. PICK q \in Nat, i \in Cells : q = dr.read + 1 /\ i = SlotOf(q)
    BY SlotIn DEF ReportType, DrainFields
  <1>2. PICK x \in dr.left :
          dr' = [dr EXCEPT !.copy[x] = record[i][x], !.left = @ \ {x},
                           !.pc = IF dr.left = {x} THEN "v2" ELSE @]
    BY <1>1 DEF CopyReport
  <1>3. PICK d : d = dr'
    OBVIOUS
  <1>4. x \in Words /\ record[i] \in Copies /\ dr.copy \in Copies /\ dr.pc = "copy"
    BY DEF ReportType, DrainFields, RingType, Copies, CopyReport
  <1>5. d.pc = (IF dr.left = {x} THEN "v2" ELSE "copy") /\ d.left = dr.left \ {x}
        /\ d.copy = [dr.copy EXCEPT ![x] = record[i][x]]
        /\ d.read = dr.read /\ d.written = dr.written /\ d.copied = dr.copied /\ d.v1 = dr.v1
        /\ DOMAIN d = DOMAIN dr
    BY <1>2, <1>3, <1>4 DEF ReportType, DrainFields
  <1>6. d.copy \in Copies /\ d.copy[x] = record[i][x]
        /\ \A y \in Words \ {x} : d.copy[y] = dr.copy[y]
    BY <1>4, <1>5 DEF Copies
  <1>7. DrainFields(d)
    BY <1>5, <1>6 DEF ReportType, DrainFields
  <1>8. UNCHANGED <<ringVars, dropped, read, drained>>
    BY DEF CopyReport
  <1>9. ASSUME ~lapped PROVE Reading(dr)'
    <2>1. Reading(dr) /\ WholeSlot(i)
      BY <1>4, <1>9 DEF ReportInv, RingInv, Alone
    <2>2. version[i] = dr.v1 => record[i][x] = q
      BY <1>1, <1>4, <2>1 DEF Reading, WholeSlot, Published
    <2>3. version[i] = d.v1 => \A y \in Words \ d.left : d.copy[y] = q
      BY <1>1, <1>5, <1>6, <2>1, <2>2 DEF Reading
    <2>4. Reading(d)
      BY <1>1, <1>5, <2>1, <2>3 DEF Reading
    <2>5. version' = version
      BY <1>8 DEF ringVars
    <2> QED BY <1>3, <2>4, <2>5 DEF Reading
  <1>10. Front' = Front /\ Delivered' = Delivered
    BY <1>3, <1>4, <1>5, <1>8 DEF Front, Delivered
  <1>11. ~lapped => InOrder' /\ Cursors' /\ Given'
    BY <1>3, <1>4, <1>5, <1>8, <1>10 DEF ReportInv, InOrder, Cursors, Given, ringVars
  <1>12. dr'.pc # "idle" /\ DrainFields(dr')
    BY <1>3, <1>5, <1>7
  <1> QED BY <1>8, <1>9, <1>10, <1>11, <1>12, OnKeeps DEF ReportType

LEMMA ReportV2Keeps ==
    ASSUME ReportType, ReportInv, ReportV2
    PROVE  ReportType' /\ ReportInv'
  <1>0. UNCHANGED <<ringVars, dropped>> /\ dr.pc = "v2"
    BY DEF ReportV2
  <1>1. CASE ~UnchangedSlot
    BY <1>0, <1>1, BreakKeeps DEF ReportV2
  <1>2. CASE UnchangedSlot
    <2>1. PICK q \in Nat, c \in Copies : q = dr.read + 1 /\ c = dr.copy
      BY DEF ReportType, DrainFields
    <2>2. drained' = Append(drained, c) /\ GoOn([dr EXCEPT !.read = @ + 1, !.copied = @ + 1])
      BY <1>2, <2>1 DEF ReportV2
    <2>3. /\ drained' \in Seq(Copies) /\ Len(drained') = Len(drained) + 1 /\ Len(drained) \in Nat
          /\ drained'[Len(drained) + 1] = c
          /\ \A n \in 1 .. Len(drained) : drained'[n] = drained[n]
      BY <2>1, <2>2 DEF ReportType
    <2>4. \A n \in 1 .. Len(drained) : drained[n]["head"] \in Nat
      BY DEF ReportType, Copies, Words
    <2>5. write \in Nat /\ read \in Nat
      BY DEF ReportType, RingType
    <2>6. Delivered \subseteq Delivered' /\ c["head"] \in Delivered'
      BY <2>3 DEF Delivered
    <2>7. ASSUME ~lapped
          PROVE  /\ read <= q /\ q <= write /\ q <= dr.written
                 /\ \A s \in read + 1 .. q : s \in Delivered'
                 /\ \A n \in 1 .. Len(drained') : /\ drained'[n]["head"] = drained'[n]["tail"]
                                                  /\ drained'[n]["head"] <= q
                 /\ \A n \in 1 .. Len(drained') - 1 : drained'[n]["head"] < drained'[n + 1]["head"]
      <3>1. InOrder /\ Cursors /\ Given /\ Reading(dr) /\ Front = dr.read
        BY <1>0, <2>7 DEF ReportInv, Front
      <3>2. \A x \in Words : c[x] = q
        BY <1>0, <1>2, <2>1, <3>1 DEF Reading, UnchangedSlot
      <3>3. c["head"] = q /\ c["tail"] = q
        BY <3>2 DEF Words
      <3>4. dr.read \in Nat /\ dr.written \in Nat /\ dr.read < dr.written /\ dr.written <= write
            /\ read <= dr.read
        BY <1>0, <3>1 DEF Cursors, ReportType, DrainFields
      <3>5. \A s \in read + 1 .. q : s \in Delivered'
        <4>1. \A s \in read + 1 .. dr.read : s \in Delivered
          BY <3>1 DEF Given
        <4> QED BY <2>1, <2>5, <2>6, <3>3, <3>4, <4>1
      <3>6. ASSUME NEW n \in 1 .. Len(drained')
            PROVE  drained'[n]["head"] = drained'[n]["tail"] /\ drained'[n]["head"] <= q
        <4>1. CASE n = Len(drained) + 1
          BY <2>3, <3>3, <4>1
        <4>2. CASE n # Len(drained) + 1
          <5>1. n \in 1 .. Len(drained)
            BY <2>3, <4>2
          <5> QED BY <2>1, <2>3, <2>4, <3>1, <3>4, <5>1 DEF InOrder
        <4> QED BY <4>1, <4>2
      <3>7. ASSUME NEW n \in 1 .. Len(drained') - 1 PROVE drained'[n]["head"] < drained'[n + 1]["head"]
        <4>1. n \in 1 .. Len(drained) /\ drained'[n] = drained[n]
          BY <2>3
        <4>2. CASE n = Len(drained)
          BY <2>1, <2>3, <2>4, <3>1, <3>3, <3>4, <4>1, <4>2 DEF InOrder
        <4>3. CASE n # Len(drained)
          <5>1. n \in 1 .. Len(drained) - 1 /\ n + 1 \in 1 .. Len(drained)
            BY <2>3, <4>1, <4>3
          <5> QED BY <2>3, <3>1, <4>1, <5>1 DEF InOrder
        <4> QED BY <4>2, <4>3
      <3>8. read <= q /\ q <= write /\ q <= dr.written
        BY <2>1, <2>5, <3>4
      <3> QED BY <3>5, <3>6, <3>7, <3>8
    <2> DEFINE d == [dr EXCEPT !.read = @ + 1, !.copied = @ + 1]
    <2>8. d.read = q /\ d.pc = dr.pc /\ d.written = dr.written /\ d.copied \in Nat
          /\ d.v1 = dr.v1 /\ d.copy = dr.copy /\ d.left = dr.left /\ DOMAIN d = DOMAIN dr
      BY <2>1 DEF ReportType, DrainFields
    <2>9. GoOn(d)
      BY <2>2
    <2> HIDE DEF d
    <2>10. CASE d.copied < MaxBatch /\ d.read < d.written
      <3> DEFINE e == [d EXCEPT !.pc = "v1"]
      <3>1. dr' = e /\ read' = read
        BY <2>9, <2>10 DEF GoOn
      <3>2. e.pc = "v1" /\ e.read = q /\ e.written = dr.written /\ DrainFields(e)
        BY <2>8 DEF ReportType, DrainFields
      <3> HIDE DEF e
      <3>3. Front' = q
        BY <3>1, <3>2 DEF Front
      <3>4. ASSUME ~lapped PROVE InOrder' /\ Cursors' /\ Given'
        <4>1. InOrder'
          BY <2>7, <3>3, <3>4 DEF InOrder
        <4>2. Given'
          BY <2>7, <3>1, <3>3, <3>4 DEF Given
        <4>3. dr.written <= write /\ write' = write
          BY <1>0, <3>4 DEF ReportInv, Cursors, ringVars
        <4>4. Cursors'
          BY <2>7, <2>8, <2>10, <3>1, <3>2, <3>3, <3>4, <4>3 DEF Cursors
        <4> QED BY <4>1, <4>2, <4>4
      <3> QED BY <1>0, <2>3, <2>6, <3>1, <3>2, <3>4, OnKeeps
    <2>11. CASE ~(d.copied < MaxBatch /\ d.read < d.written)
      <3>1. dr' = NotDraining /\ read' = q
        BY <2>8, <2>9, <2>11 DEF GoOn
      <3> QED BY <1>0, <2>3, <2>6, <2>7, <3>1, EndKeeps
    <2> QED BY <2>10, <2>11
  <1> QED BY <1>1, <1>2

LEMMA ReportStart ==
    ASSUME ReportInit
    PROVE  ReportType /\ ReportInv
  <1>1. RingType /\ RingInv
    BY RingStart DEF ReportInit
  <1>2. write = 0 /\ read = 0 /\ dropped = 0 /\ dr = NotDraining /\ drained = <<>>
    BY DEF ReportInit, RingInit
  <1>3. dr.pc = "idle" /\ DrainFields(dr) /\ drained \in Seq(Copies)
    BY <1>2, NotDrainingIs
  <1>4. ReportType
    BY <1>1, <1>2, <1>3 DEF ReportType
  <1>5. Front = 0
    BY <1>2, <1>3 DEF Front
  <1>6. InOrder /\ Cursors /\ Given
    BY <1>2, <1>3, <1>5 DEF InOrder, Cursors, Given
  <1>7. LossesCounted
    <2>1. Lost = {}
      BY <1>2 DEF Lost
    <2> QED BY <1>2, <2>1, FS_EmptySet DEF LossesCounted
  <1> QED BY <1>1, <1>3, <1>4, <1>6, <1>7 DEF ReportInv

LEMMA ReportSpecInv == ReportSpec => [](ReportType /\ ReportInv)
  <1>1. ReportInit => ReportType /\ ReportInv
    BY ReportStart
  <1>2. ReportType /\ ReportInv /\ [ReportNext]_<<ringVars, kind, reportVars>> => (ReportType /\ ReportInv)'
    <2> SUFFICES ASSUME ReportType, ReportInv, [ReportNext]_<<ringVars, kind, reportVars>>
                 PROVE  ReportType' /\ ReportInv'
      OBVIOUS
    <2>1. ASSUME NEW w \in Writers, RecordReport(w) \/ CountDrop(w)
          PROVE  ReportType' /\ ReportInv'
      BY <2>1, HandlerKeeps
    <2>2. CASE DrainBegins
      BY <2>2, BeginKeeps
    <2>3. CASE ReportV1 \/ CopyReport \/ ReportV2
      BY <2>3, ReportV1Keeps, CopyReportKeeps, ReportV2Keeps
    <2>4. CASE UNCHANGED <<ringVars, kind, reportVars>>
      <3>1. RingType' /\ RingInv'
        BY <2>4, RingSame DEF ReportType, ReportInv
      <3>2. ReportType'
        BY <2>4, <3>1 DEF ReportType, reportVars
      <3>3. Front' = Front /\ Delivered' = Delivered /\ Lost' = Lost /\ (Reading(dr)' <=> Reading(dr))
        BY <2>4 DEF Front, Delivered, Lost, Settled, Reading, ringVars, reportVars
      <3>4. ~lapped => InOrder' /\ Cursors' /\ Given' /\ LossesCounted'
        BY <2>4, <3>3 DEF ReportInv, InOrder, Cursors, Given, LossesCounted, ringVars, reportVars
      <3> QED BY <2>4, <3>1, <3>2, <3>3, <3>4 DEF ReportInv, ringVars, reportVars
    <2> QED BY <2>1, <2>2, <2>3, <2>4 DEF ReportNext
  <1> QED BY <1>1, <1>2, PTL DEF ReportSpec

\* The drain of WatchpointReports hands out whole reports, each once and in the order
\* of the traps, across any number of calls and however the handlers are stopped,
\* as long as no handler was overtaken by a whole lap.
THEOREM SpecDrainedInOrder == ReportSpec => []DrainedInOrder
  <1>1. ReportType /\ ReportInv => DrainedInOrder
    BY DEF ReportInv, InOrder, DrainedInOrder
  <1> QED BY <1>1, ReportSpecInv, PTL

\* "Overwriting an undrained record is counted": once the handlers are out, the
\* reports that were passed over or overwritten and not handed out are no more than
\* the drops counted by the handlers and the drain together, as long as no handler was
\* overtaken by a whole lap.
THEOREM SpecDropsCounted == ReportSpec => []DropsCounted
  <1>1. ReportType /\ ReportInv => DropsCounted
    <2> DEFINE Gone == {s \in 1 .. write : /\ s <= read \/ s + Capacity <= write
                                           /\ s \notin Delivered}
    <2> SUFFICES ASSUME ReportType, ReportInv, ~lapped, \A w \in Writers : wr[w].pc = "idle"
                 PROVE  Cardinality(Gone) <= dropped
      BY DEF DropsCounted
    <2>1. Gone = Lost
      BY DEF Lost, Settled
    <2>2. LossesCounted
      BY DEF ReportInv
    <2> QED BY <2>1, <2>2 DEF LossesCounted
  <1> QED BY <1>1, ReportSpecInv, PTL

(***************************************************************************)
(* The candidate queue                                                     *)
(***************************************************************************)
OfferFields(o) ==
    /\ DOMAIN o = {"pc", "ptr", "seq", "oldest", "scanned"}
    /\ o.pc \in {"idle", "scan", "same", "take", "evict", "ptr", "seq"}
    /\ o.seq \in Nat /\ o.oldest \in Nat
    /\ o.pc \in {"scan", "same"} => o.seq > o.oldest
PlaceFields(x) == DOMAIN x = {"seq", "ptr", "from"} /\ x.seq \in Nat /\ x.from \in Nat
CandidateType ==
    /\ DOMAIN cursor = {"write", "read", "evictions"}
    /\ cursor.write \in Nat /\ cursor.read \in Nat /\ cursor.evictions \in Nat
    /\ DOMAIN pending = Places /\ \A i \in Places : PlaceFields(pending[i])
    /\ DOMAIN offer = Offerers /\ \A p \in Offerers : OfferFields(offer[p])
    /\ overtaken \in BOOLEAN
    /\ DOMAIN pop = {"pc", "written", "attempt"} /\ pop.pc \in {"idle", "seq", "ptr"}
    /\ pop.written \in Nat /\ pop.attempt \in Nat

\* A thread between the taking of its number and its last store.
Storing(p) == offer[p].pc \in {"evict", "ptr", "seq"}
(* Once a thread is a lap late, so is its store.                              *)
Late == overtaken \/ \E p \in Offerers : Storing(p) /\ offer[p].seq + QueueCapacity <= cursor.write

OwnNumbers ==
    /\ \A p \in Offerers : Storing(p) => offer[p].seq \in 1 .. cursor.write
    /\ \A p \in Offerers : \A u \in Offerers \ {p} :
          Storing(p) /\ Storing(u) => offer[p].seq # offer[u].seq
\* The thread of number n has counted what n overwrites.
Told(n) == \A p \in Offerers : offer[p].pc = "evict" => offer[p].seq # n
Gone(n) == n + QueueCapacity <= cursor.write /\ Told(n + QueueCapacity)
\* The number of a place is never newer than the candidate in it.
InPlace(i) ==
    LET n == pending[i].seq
        f == pending[i].from
    IN  /\ n <= f /\ f <= cursor.write
        /\ n > 0 => PlaceOf(n) = i
        /\ f > 0 => PlaceOf(f) = i /\ Told(f)
PtrStored(p) == offer[p].pc = "seq" => pending[PlaceOf(offer[p].seq)].from >= offer[p].seq
Popping ==
    /\ pop.pc # "idle" => cursor.read < pop.written /\ pop.written <= cursor.write
    /\ pop.pc = "ptr" => \/ pending[PlaceOf(cursor.read + 1)].from = cursor.read + 1
                         \/ Gone(cursor.read + 1)
Missed == {n \in 1 .. cursor.write : (n <= cursor.read \/ Gone(n)) /\ n \notin handed}
MissedCounted == Cardinality(Missed) <= cursor.evictions
QueueInv ==
    /\ OwnNumbers
    /\ ~Late => /\ cursor.read <= cursor.write /\ Popping
                /\ \A i \in Places : InPlace(i)
                /\ \A p \in Offerers : PtrStored(p)
                /\ MissedCounted

LEMMA PlaceIn ==
    ASSUME NEW n \in Nat
    PROVE  PlaceOf(n) \in Places
  BY Constants, Rest DEF PlaceOf, Places

\* Numbers of one place are a lap or more apart.
LEMMA PlaceApart ==
    ASSUME NEW m \in Nat, NEW n \in Nat, m < n, PlaceOf(m) = PlaceOf(n)
    PROVE  m + QueueCapacity <= n
  <1>1. QueueCapacity \in Nat \ {0} /\ ~(n - m < QueueCapacity)
    BY Constants, RestDiffers DEF PlaceOf
  <1> QED BY <1>1

\* A candidate that a newer one has taken the place of is gone.
LEMMA NewerMeansGone ==
    ASSUME CandidateType, ~Late, NEW m \in Nat, NEW n \in Nat, m < n, n <= cursor.write,
           PlaceOf(m) = PlaceOf(n), Told(n)
    PROVE  Gone(m)
  <1>0. PICK k \in Nat \ {0}, x \in Nat : k = QueueCapacity /\ x = cursor.write
    BY Constants DEF CandidateType
  <1>1. m + k <= n /\ n <= x
    BY <1>0, PlaceApart
  <1>2. CASE n = m + k
    BY <1>0, <1>1, <1>2 DEF Gone
  <1>3. CASE n # m + k
    <2>0. PlaceOf(m + k) = PlaceOf(m)
      BY <1>0, RestOfLap DEF PlaceOf
    <2>1. m + k < n /\ m + k \in Nat /\ PlaceOf(m + k) = PlaceOf(n)
      BY <1>0, <1>1, <1>3, <2>0
    <2>2. (m + k) + k <= n
      BY <1>0, <2>1, PlaceApart
    <2>3. ASSUME NEW p \in Offerers, offer[p].pc = "evict" PROVE offer[p].seq # m + k
      BY <1>0, <1>1, <2>2, <2>3 DEF Late, Storing
    <2> QED BY <1>0, <1>1, <2>3 DEF Gone, Told
  <1> QED BY <1>2, <1>3

LEMMA MissedFinite ==
    ASSUME CandidateType
    PROVE  IsFiniteSet(Missed)
  <1>1. IsFiniteSet(1 .. cursor.write)
    BY FS_Interval DEF CandidateType
  <1> QED BY <1>1, FS_Subset DEF Missed

LEMMA NoMiss ==
    ASSUME CandidateType, CandidateType', MissedCounted, Missed' \subseteq Missed,
           cursor'.evictions >= cursor.evictions
    PROVE  MissedCounted'
  BY MissedFinite, NoMoreLost DEF CandidateType, MissedCounted

LEMMA NewMiss ==
    ASSUME CandidateType, MissedCounted, NEW a \in Int, NEW b \in Int, a <= b + 1,
           Missed' \subseteq Missed \cup (a .. b),
           cursor'.evictions = cursor.evictions + (b + 1 - a)
    PROVE  MissedCounted'
  <1>1. PICK n \in Nat : n = cursor.evictions
    BY DEF CandidateType
  <1>2. IsFiniteSet(Missed) /\ Cardinality(Missed) <= n
    BY <1>1, MissedFinite DEF MissedCounted
  <1>3. Cardinality(Missed') <= n + (b + 1 - a)
    BY <1>2, RangeLost
  <1> QED BY <1>1, <1>3 DEF MissedCounted

\* The locals of one thread after its step.
OtherOffers(p) == DOMAIN offer' = Offerers /\ \A u \in Offerers \ {p} : offer'[u] = offer[u]
LEMMA OfferIs ==
    ASSUME CandidateType, NEW p \in Offerers, NEW o, offer' = [offer EXCEPT ![p] = o]
    PROVE  offer'[p] = o /\ OtherOffers(p)
  BY DEF CandidateType, OtherOffers

NotStoring(o) == OfferFields(o) /\ o.pc \in {"idle", "scan", "same", "take"}

LEMMA ScanIs ==
    ASSUME NEW o, OfferFields(o), NEW n \in Nat
    PROVE  NotStoring(Scan(o, n))
  <1>1. n > o.oldest => NotStoring([o EXCEPT !.seq = n, !.pc = "scan"])
    BY DEF OfferFields, NotStoring
  <1>2. NotStoring([o EXCEPT !.seq = 0, !.pc = "take"])
    BY DEF OfferFields, NotStoring
  <1> QED BY <1>1, <1>2 DEF Scan

\* A step that stores nothing and takes no number.
LEMMA LooksKeeps ==
    ASSUME CandidateType, QueueInv, NEW p \in Offerers, NEW o, NotStoring(o), ~Storing(p),
           offer' = [offer EXCEPT ![p] = o], UNCHANGED <<cursor, pending, pop, handed, overtaken>>
    PROVE  CandidateType' /\ QueueInv'
  <1>1. offer'[p] = o /\ OtherOffers(p)
    BY OfferIs
  <1>2. CandidateType'
    <2>1. ASSUME NEW u \in Offerers PROVE OfferFields(offer'[u])
      BY <1>1 DEF OtherOffers, CandidateType, NotStoring
    <2> QED BY <1>1, <2>1 DEF CandidateType, OtherOffers
  <1>3. ASSUME NEW u \in Offerers
        PROVE  /\ Storing(u)' <=> Storing(u)
               /\ Storing(u) => offer'[u] = offer[u]
               /\ offer'[u].pc = "evict" <=> offer[u].pc = "evict"
               /\ offer'[u].pc = "seq" <=> offer[u].pc = "seq"
    BY <1>1 DEF OtherOffers, Storing, NotStoring
  <1>4. Late' <=> Late
    BY <1>3 DEF Late
  <1>5. OwnNumbers'
    BY <1>3 DEF QueueInv, OwnNumbers
  <1>6. \A n : Told(n)' <=> Told(n)
    BY <1>3 DEF Told, Storing
  <1>7. \A n : Gone(n)' <=> Gone(n)
    BY <1>6 DEF Gone
  <1>8. ASSUME ~Late
        PROVE  /\ cursor'.read <= cursor'.write /\ Popping' /\ (\A i \in Places : InPlace(i)')
               /\ (\A u \in Offerers : PtrStored(u)') /\ MissedCounted'
    <2>1. /\ cursor.read <= cursor.write /\ Popping /\ (\A i \in Places : InPlace(i))
          /\ (\A u \in Offerers : PtrStored(u)) /\ MissedCounted
      BY <1>8 DEF QueueInv
    <2>2. Popping'
      BY <1>7, <2>1 DEF Popping
    <2>3. \A i \in Places : InPlace(i)'
      BY <1>6, <2>1 DEF InPlace
    <2>4. \A u \in Offerers : PtrStored(u)'
      BY <1>3, <2>1 DEF PtrStored, Storing
    <2>5. Missed' \subseteq Missed
      BY <1>7 DEF Missed
    <2> QED BY <1>2, <2>1, <2>2, <2>3, <2>4, <2>5, NoMiss DEF CandidateType
  <1> QED BY <1>2, <1>4, <1>5, <1>8 DEF QueueInv

LEMMA ConsiderKeeps ==
    ASSUME CandidateType, QueueInv, NEW p \in Offerers, NEW a, Consider(p, a)
    PROVE  CandidateType' /\ QueueInv'
  <1>1. PICK x \in Nat : x = cursor.write
    BY DEF CandidateType
  <1>2. PICK n : n = IF x > QueueCapacity THEN x - QueueCapacity ELSE 0
    OBVIOUS
  <1> DEFINE o == [NotOffering EXCEPT !.ptr = a, !.oldest = n]
  <1>3. offer' = [offer EXCEPT ![p] = Scan(o, x)] /\ offer[p].pc = "idle"
        /\ UNCHANGED <<cursor, pending, pop, handed, overtaken>>
    BY <1>1, <1>2 DEF Consider
  <1>4. n \in Nat
    BY <1>1, <1>2, Constants
  <1>5. OfferFields(o)
    BY <1>4 DEF NotOffering, OfferFields
  <1> HIDE DEF o
  <1>6. NotStoring(Scan(o, x))
    BY <1>1, <1>5, ScanIs
  <1>7. ~Storing(p)
    BY <1>3 DEF Storing
  <1> QED BY <1>3, <1>6, <1>7, LooksKeeps

LEMMA AlreadyQueuedKeeps ==
    ASSUME CandidateType, QueueInv, NEW p \in Offerers, AlreadyQueued(p)
    PROVE  CandidateType' /\ QueueInv'
  <1>1. PICK o : o = offer[p]
    OBVIOUS
  <1>2. OfferFields(o) /\ o.pc \in {"scan", "same"} /\ UNCHANGED <<cursor, pending, pop, handed, overtaken>>
    BY <1>1 DEF CandidateType, AlreadyQueued
  <1>3. \/ offer' = [offer EXCEPT ![p] = [o EXCEPT !.pc = "same"]]
        \/ offer' = [offer EXCEPT ![p] = NotOffering]
        \/ offer' = [offer EXCEPT ![p] = ScanNext(o)]
    BY <1>1 DEF AlreadyQueued, CandidateType
  <1>4. ~Storing(p)
    BY <1>1, <1>2 DEF Storing
  <1>5. NotStoring([o EXCEPT !.pc = "same"]) /\ NotStoring(NotOffering)
    BY <1>2 DEF NotStoring, OfferFields, NotOffering
  <1>6. NotStoring(ScanNext(o))
    <2>1. OfferFields([o EXCEPT !.scanned = @ + 1]) /\ o.seq - 1 \in Nat
      BY <1>2 DEF OfferFields
    <2> QED BY <2>1, ScanIs DEF ScanNext
  <1> QED BY <1>2, <1>3, <1>4, <1>5, <1>6, LooksKeeps

LEMMA TakeNumberKeeps ==
    ASSUME CandidateType, QueueInv, NEW p \in Offerers, TakeNumber(p)
    PROVE  CandidateType' /\ QueueInv'
  <1>0. PICK x \in Nat, k \in Nat \ {0} : x = cursor.write /\ k = QueueCapacity
    BY Constants DEF CandidateType
  <1> DEFINE o == [offer[p] EXCEPT !.seq = x + 1, !.pc = "evict"]
  <1>1. offer' = [offer EXCEPT ![p] = o] /\ offer[p].pc = "take"
        /\ cursor' = [cursor EXCEPT !.write = x + 1] /\ UNCHANGED <<pending, pop, handed, overtaken>>
    BY <1>0 DEF TakeNumber, CandidateType
  <1>2. o.pc = "evict" /\ o.seq = x + 1 /\ OfferFields(o)
    BY <1>0 DEF CandidateType, OfferFields
  <1> HIDE DEF o
  <1>3. offer'[p] = o /\ OtherOffers(p)
    BY <1>1, OfferIs
  <1>4. cursor'.write = x + 1 /\ cursor'.read = cursor.read /\ cursor'.evictions = cursor.evictions
        /\ DOMAIN cursor' = DOMAIN cursor
    BY <1>1 DEF CandidateType
  <1>5. CandidateType'
    <2>1. ASSUME NEW u \in Offerers PROVE OfferFields(offer'[u])
      BY <1>2, <1>3 DEF OtherOffers, CandidateType
    <2> QED BY <1>0, <1>1, <1>3, <1>4, <2>1 DEF CandidateType, OtherOffers
  <1>6. ASSUME NEW u \in Offerers, u # p PROVE offer'[u] = offer[u] /\ (Storing(u)' <=> Storing(u))
    BY <1>3, <1>6 DEF OtherOffers, Storing
  <1>7. OwnNumbers'
    <2>1. \A u \in Offerers \ {p} : Storing(u) => offer[u].seq \in 1 .. x
      BY <1>0 DEF QueueInv, OwnNumbers
    <2>2. offer'[p].seq = x + 1
      BY <1>2, <1>3
    <2>3. ASSUME NEW u \in Offerers, Storing(u)' PROVE offer'[u].seq \in 1 .. cursor'.write
      BY <1>0, <1>4, <1>6, <2>1, <2>2, <2>3
    <2>4. ASSUME NEW u \in Offerers, NEW v \in Offerers \ {u}, Storing(u)', Storing(v)'
          PROVE  offer'[u].seq # offer'[v].seq
      <3>1. CASE u = p
        BY <1>0, <1>6, <2>1, <2>2, <2>4, <3>1
      <3>2. CASE v = p
        BY <1>0, <1>6, <2>1, <2>2, <2>4, <3>2
      <3>3. CASE u # p /\ v # p
        BY <1>6, <2>4, <3>3 DEF QueueInv, OwnNumbers
      <3> QED BY <3>1, <3>2, <3>3
    <2> QED BY <2>3, <2>4 DEF OwnNumbers
  <1>8. ~Late' => ~Late
    <2> SUFFICES ASSUME ~Late', NEW u \in Offerers, Storing(u), offer[u].seq + k <= x PROVE FALSE
      BY <1>0, <1>1 DEF Late
    <2>1. u # p
      BY <1>1 DEF Storing
    <2>2. offer'[u].seq + k <= x + 1 /\ Storing(u)'
      BY <1>0, <1>6, <2>1 DEF CandidateType, OfferFields
    <2> QED BY <1>0, <1>4, <2>2 DEF Late
  <1>9. \A n \in 0 .. x : Told(n)' <=> Told(n)
    <2> SUFFICES ASSUME NEW n \in 0 .. x PROVE Told(n)' <=> Told(n)
      OBVIOUS
    <2>1. offer'[p].seq # n /\ offer[p].pc # "evict"
      BY <1>1, <1>2, <1>3
    <2> QED BY <1>6, <2>1 DEF Told
  <1>10. \A n \in Nat : Gone(n)' <=> Gone(n)
    <2> SUFFICES ASSUME NEW n \in Nat PROVE Gone(n)' <=> Gone(n)
      OBVIOUS
    <2>1. ~Told(x + 1)'
      BY <1>2, <1>3 DEF Told
    <2>2. CASE n + k = x + 1
      BY <1>0, <1>4, <2>1, <2>2 DEF Gone
    <2>3. CASE n + k # x + 1
      BY <1>0, <1>4, <1>9, <2>3 DEF Gone
    <2> QED BY <2>2, <2>3
  <1>11. ASSUME ~Late'
         PROVE  /\ cursor'.read <= cursor'.write /\ Popping' /\ (\A i \in Places : InPlace(i)')
                /\ (\A u \in Offerers : PtrStored(u)') /\ MissedCounted'
    <2>1. /\ cursor.read <= cursor.write /\ Popping /\ (\A i \in Places : InPlace(i))
          /\ (\A u \in Offerers : PtrStored(u)) /\ MissedCounted
      BY <1>8, <1>11 DEF QueueInv
    <2>2. PICK r \in Nat : r = cursor.read
      BY DEF CandidateType
    <2>3. Popping'
      <3>1. pop.pc # "idle" => r < pop.written /\ pop.written <= x + 1 /\ pop.written \in Nat
        BY <1>0, <2>1, <2>2 DEF Popping, CandidateType
      <3>2. pop.pc = "ptr" => pending[PlaceOf(r + 1)].from = r + 1 \/ Gone(r + 1)'
        BY <1>10, <2>1, <2>2 DEF Popping
      <3> QED BY <1>1, <1>4, <2>2, <3>1, <3>2 DEF Popping
    <2>4. ASSUME NEW i \in Places PROVE InPlace(i)'
      <3>1. PICK n \in Nat, f \in Nat : n = pending[i].seq /\ f = pending[i].from
        BY DEF CandidateType, PlaceFields
      <3>2. n <= f /\ f <= x /\ (n > 0 => PlaceOf(n) = i) /\ (f > 0 => PlaceOf(f) = i /\ Told(f))
        BY <1>0, <2>1, <3>1 DEF InPlace
      <3>3. f > 0 => Told(f)'
        BY <1>9, <3>2
      <3> QED BY <1>0, <1>1, <1>4, <3>1, <3>2, <3>3 DEF InPlace
    <2>5. ASSUME NEW u \in Offerers PROVE PtrStored(u)'
      BY <1>1, <1>2, <1>3, <1>6, <2>1 DEF PtrStored
    <2>6. Missed' \subseteq Missed
      <3> SUFFICES ASSUME NEW n \in Missed' PROVE n \in Missed
        OBVIOUS
      <3>1. n \in 1 .. x + 1 /\ (n <= cursor.read \/ Gone(n)) /\ n \notin handed
        BY <1>0, <1>1, <1>4, <1>10 DEF Missed
      <3>2. n <= x
        BY <1>0, <2>1, <2>2, <3>1 DEF Gone
      <3> QED BY <1>0, <3>1, <3>2 DEF Missed
    <2>7. MissedCounted'
      BY <1>4, <1>5, <2>1, <2>6, NoMiss DEF CandidateType
    <2> QED BY <1>0, <1>4, <2>1, <2>2, <2>3, <2>4, <2>5, <2>7
  <1> QED BY <1>5, <1>7, <1>11 DEF QueueInv

LEMMA CountEvictedKeeps ==
    ASSUME CandidateType, QueueInv, NEW p \in Offerers, CountEvicted(p)
    PROVE  CandidateType' /\ QueueInv'
  <1>0. PICK x \in Nat, k \in Nat \ {0}, r \in Nat, t \in Nat :
           x = cursor.write /\ k = QueueCapacity /\ r = cursor.read /\ t = offer[p].seq
    BY Constants DEF CandidateType, OfferFields
  <1> DEFINE o == [offer[p] EXCEPT !.pc = "ptr"]
  <1>1. offer' = [offer EXCEPT ![p] = o] /\ offer[p].pc = "evict"
        /\ UNCHANGED <<pending, pop, handed, overtaken>>
    BY DEF CountEvicted, CandidateType
  <1>2. o.pc = "ptr" /\ o.seq = t /\ OfferFields(o)
    BY <1>0 DEF CandidateType, OfferFields
  <1> HIDE DEF o
  <1>3. offer'[p] = o /\ OtherOffers(p)
    BY <1>1, OfferIs
  <1>4. cursor'.write = x /\ cursor'.read = r /\ DOMAIN cursor' = DOMAIN cursor
        /\ cursor'.evictions = (IF Evicts(t) THEN cursor.evictions + 1 ELSE cursor.evictions)
    BY <1>0 DEF CandidateType, CountEvicted
  <1>5. CandidateType'
    <2>1. ASSUME NEW u \in Offerers PROVE OfferFields(offer'[u])
      BY <1>2, <1>3 DEF OtherOffers, CandidateType
    <2> QED BY <1>0, <1>1, <1>3, <1>4, <2>1 DEF CandidateType, OtherOffers
  <1>6. ASSUME NEW u \in Offerers
        PROVE  (Storing(u)' <=> Storing(u)) /\ offer'[u].seq = offer[u].seq
    BY <1>0, <1>1, <1>2, <1>3 DEF OtherOffers, Storing
  <1>7. OwnNumbers'
    BY <1>0, <1>4, <1>6 DEF QueueInv, OwnNumbers
  <1>8. Late' <=> Late
    BY <1>0, <1>1, <1>4, <1>6 DEF Late
  <1>9. \A n : Told(n) => Told(n)'
    BY <1>1, <1>2, <1>3 DEF Told, OtherOffers
  <1>10. \A n : n # t => (Told(n)' => Told(n))
    BY <1>0, <1>1, <1>2, <1>3 DEF Told, OtherOffers
  <1>11. \A n : Gone(n) => Gone(n)'
    BY <1>0, <1>4, <1>9 DEF Gone
  <1>12. ASSUME ~Late
         PROVE  /\ cursor'.read <= cursor'.write /\ Popping' /\ (\A i \in Places : InPlace(i)')
                /\ (\A u \in Offerers : PtrStored(u)') /\ MissedCounted'
    <2>1. /\ cursor.read <= cursor.write /\ Popping /\ (\A i \in Places : InPlace(i))
          /\ (\A u \in Offerers : PtrStored(u)) /\ MissedCounted
      BY <1>12 DEF QueueInv
    <2>2. Popping'
      BY <1>0, <1>1, <1>4, <1>11, <2>1 DEF Popping
    <2>3. \A i \in Places : InPlace(i)'
      BY <1>0, <1>1, <1>4, <1>9, <2>1 DEF InPlace
    <2>4. \A u \in Offerers : PtrStored(u)'
      BY <1>1, <1>2, <1>3, <2>1 DEF PtrStored, OtherOffers
    <2>5. ASSUME NEW n \in Missed', n \notin Missed PROVE n + k = t /\ n > r
      <3>1. n \in 1 .. x /\ (n <= r \/ Gone(n)') /\ n \notin handed
        BY <1>0, <1>1, <1>4 DEF Missed
      <3>2. n > r /\ Gone(n)' /\ ~Gone(n)
        BY <1>0, <2>5, <3>1 DEF Missed
      <3>3. n + k = t
        BY <1>0, <1>4, <1>10, <3>2 DEF Gone
      <3> QED BY <3>2, <3>3
    <2>6. MissedCounted'
      <3>1. CASE Evicts(t)
        <4>1. Missed' \subseteq Missed \cup (t - k .. t - k)
          BY <1>0, <2>5 DEF Missed
        <4>2. t - k \in Int /\ t - k <= t - k + 1
              /\ cursor'.evictions = cursor.evictions + (t - k + 1 - (t - k))
          BY <1>0, <1>4, <3>1 DEF CandidateType
        <4> QED BY <2>1, <4>1, <4>2, NewMiss
      <3>2. CASE ~Evicts(t)
        <4>1. Missed' \subseteq Missed
          <5> SUFFICES ASSUME NEW n \in Missed', n \notin Missed PROVE FALSE
            OBVIOUS
          <5>1. n + k = t /\ n > r /\ n \in Nat
            BY <2>5, <1>4 DEF Missed
          <5> QED BY <1>0, <3>2, <5>1 DEF Evicts
        <4> QED BY <1>4, <1>5, <2>1, <3>2, <4>1, NoMiss DEF CandidateType
      <3> QED BY <3>1, <3>2
    <2> QED BY <1>0, <1>4, <2>1, <2>2, <2>3, <2>4, <2>6
  <1> QED BY <1>5, <1>7, <1>8, <1>12 DEF QueueInv

LEMMA StorePtrKeeps ==
    ASSUME CandidateType, QueueInv, NEW p \in Offerers, StorePtr(p)
    PROVE  CandidateType' /\ QueueInv'
  <1>0. PICK x \in Nat, k \in Nat \ {0}, r \in Nat, t \in Nat :
           x = cursor.write /\ k = QueueCapacity /\ r = cursor.read /\ t = offer[p].seq
    BY Constants DEF CandidateType, OfferFields
  <1>1. PICK i \in Places : i = PlaceOf(t)
    BY PlaceIn
  <1> DEFINE o == [offer[p] EXCEPT !.pc = "seq"]
  <1> DEFINE y == [pending[i] EXCEPT !.ptr = offer[p].ptr, !.from = t]
  <1>2. /\ offer[p].pc = "ptr" /\ offer' = [offer EXCEPT ![p] = o]
        /\ pending' = [pending EXCEPT ![i] = y]
        /\ UNCHANGED <<cursor, pop, handed>>
    BY <1>0, <1>1 DEF StorePtr, CandidateType
  <1>3. overtaken' = (overtaken \/ t + k <= x)
    BY <1>0 DEF StorePtr
  <1>4. o.pc = "seq" /\ o.seq = t /\ OfferFields(o)
    BY <1>0 DEF CandidateType, OfferFields
  <1>5. y.from = t /\ y.seq = pending[i].seq /\ PlaceFields(y)
    BY <1>0 DEF CandidateType, PlaceFields
  <1> HIDE DEF o, y
  <1>6. offer'[p] = o /\ OtherOffers(p)
    BY <1>2, OfferIs
  <1>7. DOMAIN pending' = Places /\ pending'[i] = y /\ \A j \in Places \ {i} : pending'[j] = pending[j]
    BY <1>2 DEF CandidateType
  <1>8. CandidateType'
    <2>1. ASSUME NEW u \in Offerers PROVE OfferFields(offer'[u])
      BY <1>4, <1>6 DEF OtherOffers, CandidateType
    <2>2. ASSUME NEW j \in Places PROVE PlaceFields(pending'[j])
      BY <1>5, <1>7 DEF CandidateType
    <2>3. overtaken' \in BOOLEAN
      BY <1>3
    <2> QED BY <1>2, <1>6, <1>7, <2>1, <2>2, <2>3 DEF CandidateType, OtherOffers
  <1>9. ASSUME NEW u \in Offerers
        PROVE  (Storing(u)' <=> Storing(u)) /\ offer'[u].seq = offer[u].seq
               /\ (offer'[u].pc = "evict" <=> offer[u].pc = "evict")
    BY <1>0, <1>2, <1>4, <1>6 DEF OtherOffers, Storing
  <1>10. OwnNumbers'
    BY <1>2, <1>9 DEF QueueInv, OwnNumbers
  <1>11. ~Late' => ~Late /\ t + k > x
    <2>1. ~Late' => ~overtaken'
      BY DEF Late
    <2>2. Late /\ ~overtaken => Late'
      BY <1>2, <1>9 DEF Late
    <2>3. ~overtaken' => ~overtaken /\ ~(t + k <= x)
      BY <1>3
    <2>4. ~(t + k <= x) => t + k > x
      BY <1>0
    <2> QED BY <2>1, <2>2, <2>3, <2>4
  <1>12. \A n : Told(n)' <=> Told(n)
    BY <1>9 DEF Told
  <1>13. \A n : Gone(n)' <=> Gone(n)
    BY <1>2, <1>12 DEF Gone
  <1>14. t \in 1 .. x /\ Told(t)
    <2>1. Storing(p)
      BY <1>2 DEF Storing
    <2>2. ASSUME NEW u \in Offerers, offer[u].pc = "evict" PROVE offer[u].seq # t
      <3>1. u # p /\ Storing(u)
        BY <1>2, <2>2 DEF Storing
      <3> QED BY <1>0, <2>1, <3>1 DEF QueueInv, OwnNumbers
    <2> QED BY <1>0, <2>1, <2>2 DEF QueueInv, OwnNumbers, Told
  <1>15. ASSUME ~Late'
         PROVE  /\ cursor'.read <= cursor'.write /\ Popping' /\ (\A j \in Places : InPlace(j)')
                /\ (\A u \in Offerers : PtrStored(u)') /\ MissedCounted'
    <2>1. /\ cursor.read <= cursor.write /\ Popping /\ (\A j \in Places : InPlace(j))
          /\ (\A u \in Offerers : PtrStored(u)) /\ MissedCounted /\ ~Late /\ t + k > x
      BY <1>11, <1>15 DEF QueueInv
    <2>2. Popping'
      <3>1. ASSUME pop.pc = "ptr"
            PROVE  pending'[PlaceOf(r + 1)].from = r + 1 \/ Gone(r + 1)
        <4>1. r + 1 <= x /\ r + 1 \in Nat /\ PlaceOf(r + 1) \in Places
          BY <1>0, <2>1, <3>1, PlaceIn DEF Popping, CandidateType
        <4>2. CASE PlaceOf(r + 1) # i
          BY <1>0, <1>7, <2>1, <3>1, <4>1, <4>2 DEF Popping
        <4>3. CASE PlaceOf(r + 1) = i
          <5>1. CASE t = r + 1
            BY <1>5, <1>7, <4>3, <5>1
          <5>2. CASE t > r + 1
            BY <1>0, <1>1, <1>14, <2>1, <4>1, <4>3, <5>2, NewerMeansGone
          <5>3. CASE t < r + 1
            <6>1. t + k <= r + 1
              BY <1>0, <1>1, <4>1, <4>3, <5>3, PlaceApart
            <6> QED BY <2>1, <4>1, <6>1
          <5> QED BY <4>1, <5>1, <5>2, <5>3
        <4> QED BY <4>2, <4>3
      <3> QED BY <1>0, <1>2, <1>13, <2>1, <3>1 DEF Popping
    <2>3. ASSUME NEW j \in Places PROVE InPlace(j)'
      <3>1. PICK n \in Nat : n = pending[j].seq
        BY DEF CandidateType, PlaceFields
      <3>2. InPlace(j)
        BY <2>1
      <3>3. CASE j # i
        BY <1>2, <1>7, <1>12, <3>2, <3>3 DEF InPlace
      <3>4. CASE j = i
        <4>1. n <= t
          <5>1. n > 0 => PlaceOf(n) = i /\ n <= x
            BY <1>0, <3>1, <3>2, <3>4 DEF InPlace, CandidateType, PlaceFields
          <5>2. n > t => t + k <= n
            BY <1>0, <1>1, <5>1, PlaceApart
          <5> QED BY <2>1, <5>1, <5>2
        <4>2. n > 0 => PlaceOf(n) = i
          BY <3>1, <3>2, <3>4 DEF InPlace
        <4>3. pending'[j].seq = n /\ pending'[j].from = t
          BY <1>5, <1>7, <3>1, <3>4
        <4> QED BY <1>0, <1>1, <1>2, <1>12, <1>14, <3>4, <4>1, <4>2, <4>3 DEF InPlace
      <3> QED BY <3>3, <3>4
    <2>4. ASSUME NEW u \in Offerers PROVE PtrStored(u)'
      <3>1. CASE u = p
        BY <1>1, <1>4, <1>5, <1>6, <1>7, <3>1 DEF PtrStored
      <3>2. CASE u # p
        <4> SUFFICES ASSUME offer[u].pc = "seq"
                     PROVE  pending'[PlaceOf(offer[u].seq)].from >= offer[u].seq
          BY <1>6, <3>2 DEF PtrStored, OtherOffers
        <4>1. PICK m \in Nat : m = offer[u].seq
          BY DEF CandidateType, OfferFields
        <4>2. m \in 1 .. x /\ m + k > x
          BY <1>0, <2>1, <4>1 DEF Storing, Late, QueueInv, OwnNumbers
        <4>3. PlaceOf(m) \in Places /\ pending[PlaceOf(m)].from >= m
          BY <2>1, <4>1, PlaceIn DEF PtrStored
        <4>4. CASE PlaceOf(m) # i
          BY <1>7, <4>1, <4>3, <4>4
        <4>5. CASE PlaceOf(m) = i
          <5>1. ~(m < t) /\ ~(t < m)
            BY <1>0, <1>1, <1>14, <2>1, <4>2, <4>5, PlaceApart
          <5> QED BY <1>5, <1>7, <4>1, <4>5, <5>1
        <4> QED BY <4>4, <4>5
      <3> QED BY <3>1, <3>2
    <2>5. Missed' \subseteq Missed
      BY <1>2, <1>13 DEF Missed
    <2> QED BY <1>2, <1>8, <2>1, <2>2, <2>3, <2>4, <2>5, NoMiss DEF CandidateType
  <1> QED BY <1>8, <1>10, <1>15 DEF QueueInv

LEMMA StoreSeqKeeps ==
    ASSUME CandidateType, QueueInv, NEW p \in Offerers, StoreSeq(p)
    PROVE  CandidateType' /\ QueueInv'
  <1>0. PICK x \in Nat, k \in Nat \ {0}, t \in Nat :
           x = cursor.write /\ k = QueueCapacity /\ t = offer[p].seq
    BY Constants DEF CandidateType, OfferFields
  <1>1. PICK i \in Places : i = PlaceOf(t)
    BY PlaceIn
  <1> DEFINE y == [pending[i] EXCEPT !.seq = t]
  <1>2. /\ offer[p].pc = "seq" /\ offer' = [offer EXCEPT ![p] = NotOffering]
        /\ pending' = [pending EXCEPT ![i] = y]
        /\ UNCHANGED <<cursor, pop, handed>>
    BY <1>0, <1>1 DEF StoreSeq, CandidateType
  <1>3. overtaken' = (overtaken \/ t + k <= x)
    BY <1>0 DEF StoreSeq
  <1>4. NotOffering.pc = "idle" /\ OfferFields(NotOffering)
    BY DEF NotOffering, OfferFields
  <1>5. y.seq = t /\ y.from = pending[i].from /\ PlaceFields(y)
    BY <1>0 DEF CandidateType, PlaceFields
  <1> HIDE DEF y
  <1>6. offer'[p] = NotOffering /\ OtherOffers(p)
    BY <1>2, OfferIs
  <1>7. DOMAIN pending' = Places /\ pending'[i] = y /\ \A j \in Places \ {i} : pending'[j] = pending[j]
    BY <1>2 DEF CandidateType
  <1>8. CandidateType'
    <2>1. ASSUME NEW u \in Offerers PROVE OfferFields(offer'[u])
      BY <1>4, <1>6 DEF OtherOffers, CandidateType
    <2>2. ASSUME NEW j \in Places PROVE PlaceFields(pending'[j])
      BY <1>5, <1>7 DEF CandidateType
    <2>3. overtaken' \in BOOLEAN
      BY <1>3
    <2> QED BY <1>2, <1>6, <1>7, <2>1, <2>2, <2>3 DEF CandidateType, OtherOffers
  <1>9. ASSUME NEW u \in Offerers
        PROVE  /\ Storing(u)' <=> (Storing(u) /\ u # p)
               /\ Storing(u)' => offer'[u] = offer[u]
               /\ offer'[u].pc = "evict" <=> offer[u].pc = "evict"
               /\ offer[u].pc = "evict" => offer'[u] = offer[u]
    BY <1>2, <1>4, <1>6 DEF OtherOffers, Storing
  <1>10. OwnNumbers'
    BY <1>2, <1>9 DEF QueueInv, OwnNumbers
  <1>11. ~Late' => ~Late
    <2> SUFFICES ASSUME ~Late', Late PROVE FALSE
      OBVIOUS
    <2>1. ~overtaken' /\ ~overtaken /\ ~(t + k <= x)
      BY <1>3 DEF Late
    <2>2. PICK u \in Offerers : Storing(u) /\ offer[u].seq + k <= x
      BY <1>0, <2>1 DEF Late
    <2>3. u # p
      BY <1>0, <2>1, <2>2
    <2> QED BY <1>0, <1>2, <1>9, <2>2, <2>3 DEF Late
  <1>12. \A n : Told(n)' <=> Told(n)
    BY <1>9 DEF Told
  <1>13. \A n : Gone(n)' <=> Gone(n)
    BY <1>2, <1>12 DEF Gone
  <1>14. \A j \in Places : pending'[j].from = pending[j].from
    BY <1>5, <1>7
  <1>15. ASSUME ~Late'
         PROVE  /\ cursor'.read <= cursor'.write /\ Popping' /\ (\A j \in Places : InPlace(j)')
                /\ (\A u \in Offerers : PtrStored(u)') /\ MissedCounted'
    <2>1. /\ cursor.read <= cursor.write /\ Popping /\ (\A j \in Places : InPlace(j))
          /\ (\A u \in Offerers : PtrStored(u)) /\ MissedCounted /\ ~Late
      BY <1>11, <1>15 DEF QueueInv
    <2>2. Popping'
      <3>1. PlaceOf(cursor.read + 1) \in Places
        BY PlaceIn DEF CandidateType
      <3> QED BY <1>2, <1>13, <1>14, <2>1, <3>1 DEF Popping
    <2>3. ASSUME NEW j \in Places PROVE InPlace(j)'
      <3>1. InPlace(j)
        BY <2>1
      <3>2. CASE j # i
        BY <1>2, <1>7, <1>12, <3>1, <3>2 DEF InPlace
      <3>3. CASE j = i
        <4>1. pending'[j].seq = t /\ pending'[j].from = pending[j].from
          BY <1>5, <1>7, <3>3
        <4>2. t <= pending[j].from
          BY <1>0, <1>1, <1>2, <2>1, <3>3 DEF PtrStored, CandidateType, PlaceFields
        <4> QED BY <1>1, <1>2, <1>12, <3>1, <3>3, <4>1, <4>2 DEF InPlace
      <3> QED BY <3>2, <3>3
    <2>4. ASSUME NEW u \in Offerers PROVE PtrStored(u)'
      <3>1. CASE u = p
        BY <1>4, <1>6, <3>1 DEF PtrStored
      <3>2. CASE u # p
        <4>1. offer'[u] = offer[u] /\ PlaceOf(offer[u].seq) \in Places /\ PtrStored(u)
          BY <1>6, <2>1, <3>2, PlaceIn DEF OtherOffers, CandidateType, OfferFields
        <4> QED BY <1>14, <4>1 DEF PtrStored
      <3> QED BY <3>1, <3>2
    <2>5. Missed' \subseteq Missed
      BY <1>2, <1>13 DEF Missed
    <2> QED BY <1>2, <1>8, <2>1, <2>2, <2>3, <2>4, <2>5, NoMiss DEF CandidateType
  <1> QED BY <1>8, <1>10, <1>15 DEF QueueInv

\* A step of the popper leaves the threads and the places.
LEMMA PopKeeps ==
    ASSUME CandidateType, CandidateType', QueueInv, UNCHANGED <<pending, offer, overtaken>>,
           cursor'.write = cursor.write,
           ~Late => cursor'.read <= cursor'.write /\ Popping' /\ MissedCounted'
    PROVE  QueueInv'
  <1>1. \A u \in Offerers : Storing(u)' <=> Storing(u)
    BY DEF Storing
  <1>2. OwnNumbers' /\ (Late' <=> Late)
    BY <1>1 DEF QueueInv, OwnNumbers, Late
  <1>3. \A n : Told(n)' <=> Told(n)
    BY DEF Told
  <1>4. ~Late => (\A i \in Places : InPlace(i)') /\ (\A u \in Offerers : PtrStored(u)')
    BY <1>3 DEF QueueInv, InPlace, PtrStored
  <1> QED BY <1>2, <1>4 DEF QueueInv

LEMMA PopBeginsKeeps ==
    ASSUME CandidateType, QueueInv, PopBegins
    PROVE  CandidateType' /\ QueueInv'
  <1>1. cursor.read < cursor.write /\ pop'.pc = "seq" /\ pop'.written = cursor.write
        /\ pop'.attempt = 0 /\ DOMAIN pop' = {"pc", "written", "attempt"}
        /\ UNCHANGED <<cursor, pending, offer, handed, overtaken>>
    BY DEF PopBegins
  <1>2. CandidateType'
    BY <1>1 DEF CandidateType
  <1>3. Popping'
    BY <1>1 DEF Popping, CandidateType
  <1>4. \A n : Gone(n)' <=> Gone(n)
    BY <1>1 DEF Gone, Told
  <1>5. Missed' = Missed
    BY <1>1, <1>4 DEF Missed
  <1>6. ~Late => cursor'.read <= cursor'.write /\ MissedCounted'
    BY <1>1, <1>5 DEF QueueInv, MissedCounted
  <1> QED BY <1>1, <1>2, <1>3, <1>6, PopKeeps

LEMMA NotPoppingIs ==
    NotPopping.pc = "idle" /\ NotPopping.written = 0 /\ NotPopping.attempt = 0
    /\ DOMAIN NotPopping = {"pc", "written", "attempt"}
  BY DEF NotPopping

LEMMA PopSeqKeeps ==
    ASSUME CandidateType, QueueInv, PopSeq
    PROVE  CandidateType' /\ QueueInv'
  <1>0. PICK x \in Nat, k \in Nat \ {0}, r \in Nat, w \in Nat :
           x = cursor.write /\ k = QueueCapacity /\ r = cursor.read /\ w = pop.written
    BY Constants DEF CandidateType
  <1>1. PICK i \in Places : i = PlaceOf(r + 1)
    BY PlaceIn
  <1>2. UNCHANGED <<pending, offer, handed, overtaken>> /\ pop.pc = "seq"
    BY DEF PopSeq
  <1>3. \A n : Told(n)' <=> Told(n)
    BY <1>2 DEF Told
  <1>4. CASE pending[i].seq = r + 1 /\ pop' = [pop EXCEPT !.pc = "ptr"] /\ UNCHANGED cursor
    <2>1. pop'.pc = "ptr" /\ pop'.written = w /\ pop'.attempt = pop.attempt /\ DOMAIN pop' = DOMAIN pop
      BY <1>0, <1>4 DEF CandidateType
    <2>2. CandidateType'
      BY <1>0, <1>2, <1>4, <2>1 DEF CandidateType
    <2>3. \A n : Gone(n)' <=> Gone(n)
      BY <1>3, <1>4 DEF Gone
    <2>4. Missed' = Missed
      BY <1>2, <1>4, <2>3 DEF Missed
    <2>5. ASSUME ~Late PROVE Popping'
      <3>1. r < w /\ w <= x /\ InPlace(i)
        BY <1>0, <1>2, <2>5 DEF QueueInv, Popping
      <3>2. PICK f \in Nat : f = pending[i].from
        BY DEF CandidateType, PlaceFields
      <3>3. r + 1 <= f /\ f <= x /\ PlaceOf(f) = i /\ Told(f)
        BY <1>0, <1>4, <3>1, <3>2 DEF InPlace
      <3>4. f = r + 1 \/ Gone(r + 1)
        BY <1>0, <1>1, <2>5, <3>3, NewerMeansGone
      <3> QED BY <1>0, <1>1, <1>2, <1>4, <2>1, <2>3, <3>1, <3>2, <3>4 DEF Popping
    <2>6. ~Late => cursor'.read <= cursor'.write /\ MissedCounted'
      BY <1>4, <2>4 DEF QueueInv, MissedCounted
    <2> QED BY <1>2, <1>4, <2>2, <2>5, <2>6, PopKeeps
  <1>5. ASSUME NEW o, o = OldestPending, o > r,
               cursor' = [cursor EXCEPT !.evictions = @ + (o - r), !.read = o], TryAgain(o)
        PROVE  CandidateType' /\ QueueInv'
    <2>1. o \in Nat /\ (w > 0 => o <= w)
      BY <1>0, <1>5 DEF OldestPending
    <2>2. cursor'.write = x /\ cursor'.read = o /\ DOMAIN cursor' = DOMAIN cursor
          /\ cursor'.evictions = cursor.evictions + (o - r)
      BY <1>0, <1>5 DEF CandidateType
    <2>3. /\ DOMAIN pop' = DOMAIN pop /\ pop'.attempt \in Nat
          /\ \/ pop'.pc = "seq" /\ pop'.written = w /\ o < w
             \/ pop'.pc = "idle" /\ pop'.written = 0
      <3>1. CASE pop' = NotPopping
        BY <3>1, NotPoppingIs DEF CandidateType
      <3>2. CASE pop' = [pop EXCEPT !.attempt = @ + 1, !.pc = "seq"] /\ o < w
        BY <1>0, <3>2 DEF CandidateType
      <3> QED BY <1>0, <1>5, <3>1, <3>2 DEF TryAgain
    <2>4. cursor'.evictions \in Nat
      BY <1>0, <1>5, <2>1, <2>2 DEF CandidateType
    <2>5. CandidateType'
      BY <1>0, <1>2, <2>1, <2>2, <2>3, <2>4 DEF CandidateType
    <2>6. \A n : Gone(n)' <=> Gone(n)
      BY <1>0, <1>3, <2>2 DEF Gone
    <2>7. ASSUME ~Late PROVE cursor'.read <= cursor'.write /\ Popping' /\ MissedCounted'
      <3>1. r < w /\ w <= x /\ MissedCounted
        BY <1>0, <1>2, <2>7 DEF QueueInv, Popping
      <3>2. o <= x
        BY <1>0, <2>1, <3>1
      <3>3. Popping'
        BY <2>2, <2>3, <3>1 DEF Popping
      <3>4. Missed' \subseteq Missed \cup (r + 1 .. o)
        BY <1>0, <1>2, <2>1, <2>2, <2>6 DEF Missed
      <3>5. r + 1 \in Int /\ r + 1 <= o + 1
            /\ cursor'.evictions = cursor.evictions + (o + 1 - (r + 1))
        BY <1>0, <1>5, <2>1, <2>2
      <3>6. MissedCounted'
        BY <2>1, <3>1, <3>4, <3>5, NewMiss
      <3> QED BY <2>2, <3>2, <3>3, <3>6
    <2> QED BY <1>0, <1>2, <2>2, <2>5, <2>7, PopKeeps
  <1>6. CASE pop' = NotPopping /\ UNCHANGED cursor
    <2>1. CandidateType'
      BY <1>2, <1>6, NotPoppingIs DEF CandidateType
    <2>2. Popping'
      BY <1>6, NotPoppingIs DEF Popping
    <2>3. \A n : Gone(n)' <=> Gone(n)
      BY <1>3, <1>6 DEF Gone
    <2>4. Missed' = Missed
      BY <1>2, <1>6, <2>3 DEF Missed
    <2>5. ~Late => cursor'.read <= cursor'.write /\ MissedCounted'
      BY <1>6, <2>4 DEF QueueInv, MissedCounted
    <2> QED BY <1>2, <1>6, <2>1, <2>2, <2>5, PopKeeps
  <1>7. CASE /\ pending[i].seq # r + 1 /\ OldestPending > r
             /\ cursor' = [cursor EXCEPT !.evictions = @ + (OldestPending - r), !.read = OldestPending]
             /\ TryAgain(OldestPending)
    BY <1>5, <1>7
  <1> QED BY <1>0, <1>1, <1>4, <1>6, <1>7 DEF PopSeq

LEMMA PopPtrKeeps ==
    ASSUME CandidateType, QueueInv, PopPtr
    PROVE  CandidateType' /\ QueueInv'
  <1>0. PICK x \in Nat, r \in Nat : x = cursor.write /\ r = cursor.read
    BY DEF CandidateType
  <1>1. PICK f : f = pending[PlaceOf(r + 1)].from
    OBVIOUS
  <1>2. /\ UNCHANGED <<pending, offer, overtaken>> /\ pop.pc = "ptr" /\ pop' = NotPopping
        /\ handed' = handed \cup {f} /\ cursor' = [cursor EXCEPT !.read = r + 1]
    BY <1>0, <1>1 DEF PopPtr
  <1>3. cursor'.write = x /\ cursor'.read = r + 1 /\ cursor'.evictions = cursor.evictions
        /\ DOMAIN cursor' = DOMAIN cursor
    BY <1>0, <1>2 DEF CandidateType
  <1>4. CandidateType'
    BY <1>0, <1>2, <1>3, NotPoppingIs DEF CandidateType
  <1>5. Popping'
    BY <1>2, NotPoppingIs DEF Popping
  <1>6. \A n : Gone(n)' <=> Gone(n)
    BY <1>0, <1>2, <1>3 DEF Gone, Told
  <1>7. ASSUME ~Late PROVE cursor'.read <= cursor'.write /\ MissedCounted'
    <2>1. r + 1 <= x /\ MissedCounted /\ (f = r + 1 \/ Gone(r + 1))
      BY <1>0, <1>1, <1>2, <1>7 DEF QueueInv, Popping, CandidateType
    <2>2. Missed' \subseteq Missed
      <3> SUFFICES ASSUME NEW n \in Missed' PROVE n \in Missed
        OBVIOUS
      <3>1. n \in 1 .. x /\ (n <= r + 1 \/ Gone(n)) /\ n \notin handed /\ n # f
        BY <1>2, <1>3, <1>6 DEF Missed
      <3>2. n <= r \/ Gone(n)
        BY <1>0, <2>1, <3>1
      <3> QED BY <1>0, <3>1, <3>2 DEF Missed
    <2> QED BY <1>3, <1>4, <2>1, <2>2, NoMiss DEF CandidateType
  <1> QED BY <1>0, <1>2, <1>3, <1>4, <1>5, <1>7, PopKeeps

LEMMA CandidateStart ==
    ASSUME CandidateInit
    PROVE  CandidateType /\ QueueInv
  <1>1. cursor.write = 0 /\ cursor.read = 0 /\ cursor.evictions = 0
        /\ DOMAIN cursor = {"write", "read", "evictions"}
    BY DEF CandidateInit
  <1>2. \A i \in Places : PlaceFields(pending[i]) /\ pending[i].seq = 0 /\ pending[i].from = 0
    BY DEF CandidateInit, PlaceFields
  <1>3. NotOffering.pc = "idle" /\ OfferFields(NotOffering)
    BY DEF NotOffering, OfferFields
  <1>4. \A p \in Offerers : offer[p].pc = "idle" /\ OfferFields(offer[p])
    BY <1>3 DEF CandidateInit
  <1>5. CandidateType
    <2>1. DOMAIN pending = Places /\ DOMAIN offer = Offerers /\ pop = NotPopping /\ overtaken = FALSE
      BY DEF CandidateInit
    <2>2. overtaken \in BOOLEAN
      BY <2>1
    <2> QED BY <1>1, <1>2, <1>4, <2>1, <2>2, NotPoppingIs DEF CandidateType
  <1>6. OwnNumbers
    BY <1>4 DEF OwnNumbers, Storing
  <1>7. Popping
    BY NotPoppingIs DEF CandidateInit, Popping
  <1>8. \A i \in Places : InPlace(i)
    BY <1>1, <1>2 DEF InPlace
  <1>9. \A p \in Offerers : PtrStored(p)
    BY <1>4 DEF PtrStored
  <1>10. MissedCounted
    <2>1. Missed = {}
      BY <1>1 DEF Missed
    <2> QED BY <1>1, <2>1, FS_EmptySet DEF MissedCounted
  <1> QED BY <1>1, <1>5, <1>6, <1>7, <1>8, <1>9, <1>10 DEF QueueInv

LEMMA CandidateSpecInv == CandidateSpec => [](CandidateType /\ QueueInv)
  <1>1. CandidateInit => CandidateType /\ QueueInv
    BY CandidateStart
  <1>2. CandidateType /\ QueueInv /\ [CandidateNext]_candidateVars => (CandidateType /\ QueueInv)'
    <2> SUFFICES ASSUME CandidateType, QueueInv, [CandidateNext]_candidateVars
                 PROVE  CandidateType' /\ QueueInv'
      OBVIOUS
    <2>1. ASSUME NEW p \in Offerers, \E a \in Addresses : Consider(p, a)
          PROVE  CandidateType' /\ QueueInv'
      BY <2>1, ConsiderKeeps
    <2>2. ASSUME NEW p \in Offerers, AlreadyQueued(p) \/ TakeNumber(p) \/ CountEvicted(p)
          PROVE  CandidateType' /\ QueueInv'
      BY <2>2, AlreadyQueuedKeeps, TakeNumberKeeps, CountEvictedKeeps
    <2>3. ASSUME NEW p \in Offerers, StorePtr(p) \/ StoreSeq(p)
          PROVE  CandidateType' /\ QueueInv'
      BY <2>3, StorePtrKeeps, StoreSeqKeeps
    <2>4. CASE PopBegins \/ PopSeq \/ PopPtr
      BY <2>4, PopBeginsKeeps, PopSeqKeeps, PopPtrKeeps
    <2>5. CASE UNCHANGED candidateVars
      <3>1. CandidateType'
        BY <2>5 DEF CandidateType, candidateVars
      <3>2. \A n : Gone(n)' <=> Gone(n)
        BY <2>5 DEF Gone, Told, candidateVars
      <3>3. Missed' = Missed
        BY <2>5, <3>2 DEF Missed, candidateVars
      <3>4. ~Late => cursor'.read <= cursor'.write /\ Popping' /\ MissedCounted'
        BY <2>5, <3>2, <3>3 DEF QueueInv, Popping, MissedCounted, candidateVars
      <3> QED BY <2>5, <3>1, <3>4, PopKeeps DEF candidateVars
    <2> QED BY <2>1, <2>2, <2>3, <2>4, <2>5 DEF CandidateNext
  <1> QED BY <1>1, <1>2, PTL DEF CandidateSpec

\* "Each loss is counted (queueEvictions)": once nobody is storing or popping, the
\* candidates that the sweeper was not given and that it passed over, or that a later
\* one took the place of, are no more than the evictions counted, as long as no thread
\* stored a candidate a whole lap late.
THEOREM SpecLossCounted == CandidateSpec => []LossCounted
  <1>1. CandidateType /\ QueueInv => LossCounted
    <2> DEFINE Forgone == {s \in 1 .. cursor.write : /\ s <= cursor.read \/ s + QueueCapacity <= cursor.write
                                                     /\ s \notin handed}
    <2> SUFFICES ASSUME CandidateType, QueueInv, Quiet, ~overtaken
                 PROVE  Cardinality(Forgone) <= cursor.evictions
      BY DEF LossCounted
    <2>1. \A p \in Offerers : ~Storing(p)
      BY DEF Quiet, Storing
    <2>2. ~Late
      BY <2>1 DEF Late
    <2>3. Forgone = Missed
      BY <2>1 DEF Missed, Gone, Told, Storing
    <2> QED BY <2>2, <2>3 DEF QueueInv, MissedCounted
  <1> QED BY <1>1, CandidateSpecInv, PTL
=============================================================================
