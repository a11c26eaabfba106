---------------------------- MODULE KernelFlowProofs ----------------------------
(* The arena: live requests keep apart and fit, for every list of requests,    *)
(* alignment and word size.  Then the kernels of a decode step or of a prefill *)
(* chunk keep to their operands, for every capacity, chunk length and number   *)
(* of layers: what each writes lies inside its buffer and its scratch request, *)
(* apart from what it reads, in a stage the request is live in.  From the      *)
(* carving of a buffer, to the families of operands, to each kernel, to the    *)
(* schedule of a layer.                                                        *)
EXTENDS KernelFlow, FiniteSetTheorems, SequenceTheorems, WellFoundedInduction, TLAPS

-----------------------------------------------------------------------------
(* The arena.                                                                *)

\* A placed slot is a leader's, has its size, and lies aligned inside the total.
Seated(k) == /\ placed[k].leader \in Leaders
             /\ placed[k].bytes = Sized(placed[k].leader)
             /\ placed[k].offset % alignment = 0
             /\ placed[k].offset + placed[k].bytes <= total

\* Slot l at the given offset is out of the way of the k-th placed slot.
Clear(l, offset, k) ==
    LiveConflict(SlotLive(l), SlotLive(placed[k].leader)) =>
        ~RangesOverlap(offset, offset + Sized(l),
                       placed[k].offset, placed[k].offset + placed[k].bytes)

Apart(j, k) == /\ placed[j].leader # placed[k].leader
               /\ Clear(placed[k].leader, placed[k].offset, j)

\* The slot at hand fits at the candidate and is clear of what the probe passed.
Searched ==
    \A l \in Leaders : Comes(l) /\ Sized(l) <= MaxWord =>
        /\ candidate + Sized(l) <= MaxWord
        /\ candidate % alignment = 0
        /\ \A k \in 1 .. probe - 1 : Clear(l, candidate, k)

PlanInv == /\ PlanTypeOK
           /\ planning = "checking" => placed = <<>> /\ candidate = 0 /\ probe = 1
           /\ planning \in {"placing", "planned"} => Valid
           /\ \A k \in DOMAIN placed : Seated(k)
           /\ \A k \in DOMAIN placed : \A j \in 1 .. k - 1 : Apart(j, k)
           /\ planning = "placing" => Searched
           /\ planning = "planned" => Unplaced = {}

-----------------------------------------------------------------------------
LEMMA LeastOf ==
  ASSUME NEW T, T \subseteq Nat, T # {}
  PROVE  \E x \in T : \A y \in T : x <= y
<1> DEFINE Less == {ss \in Nat \X Nat : ss[1] < ss[2]}
<1>1. IsWellFoundedOn(Less, Nat)
  BY NatLessThanWellFounded DEF OpToRel
<1>2. PICK x \in T : \A y \in T : ~(<<y, x>> \in Less)
  <2> HIDE DEF Less
  <2> QED BY <1>1, WFMin
<1>3. \A y \in T : <<y, x>> \in Nat \X Nat /\ ~(y < x)
  BY <1>2
<1>4. ASSUME NEW y \in T
      PROVE  x <= y
  <2>1. x \in Nat /\ y \in Nat /\ ~(y < x)
    BY <1>3
  <2> QED BY <2>1
<1> QED BY <1>4

\* The set of what is above an element of T is smallest for the greatest one.
LEMMA GreatestOf ==
  ASSUME NEW T, T # {}, NEW n \in Nat, T \subseteq 0 .. n
  PROVE  \E x \in T : \A y \in T : y <= x
<1> DEFINE Above(x) == {y \in T : y > x}
           Tails == {Above(x) : x \in T}
<1>1. IsWellFoundedOn(StrictSubsetOrdering(T), FiniteSubsetsOf(T))
  BY FS_StrictSubsetOrderingWellFounded
<1>2. Tails \subseteq FiniteSubsetsOf(T)
  <2>1. IsFiniteSet(0 .. n) /\ T \in SUBSET (0 .. n)
    BY FS_Interval
  <2>2. IsFiniteSet(T)
    BY <2>1, FS_Subset
  <2>3. ASSUME NEW x \in T
        PROVE  Above(x) \in FiniteSubsetsOf(T)
    <3>1. Above(x) \in SUBSET T
      OBVIOUS
    <3> QED BY <2>2, <3>1, FS_Subset DEF FiniteSubsetsOf
  <2> QED BY <2>3
<1>3. Tails # {}
  OBVIOUS
<1> HIDE DEF Tails
<1>4. PICK t \in Tails : \A u \in Tails : ~(<<u, t>> \in StrictSubsetOrdering(T))
  BY <1>1, <1>2, <1>3, WFMin
<1>5. PICK x \in T : t = Above(x)
  BY <1>4 DEF Tails
<1>6. ASSUME NEW y \in T, y > x
      PROVE  FALSE
  <2>1. Above(y) \subseteq T /\ Above(x) \subseteq T
    OBVIOUS
  <2>2. \A z \in T : z \in Int
    OBVIOUS
  <2>3. Above(y) \subseteq Above(x)
    <3>1. ASSUME NEW z \in T, z > y
          PROVE  z > x
      BY <1>6, <2>2, <3>1
    <3> QED BY <3>1
  <2>4. y \in Above(x) /\ y \notin Above(y)
    BY <1>6, <2>2
  <2>5. Above(y) \in Tails
    BY DEF Tails
  <2> QED BY <1>4, <1>5, <2>1, <2>3, <2>4, <2>5 DEF StrictSubsetOrdering
<1> QED BY <1>6

-----------------------------------------------------------------------------
LEMMA Division ==
  ASSUME NEW x \in Nat, NEW a \in Nat \ {0}
  PROVE  x % a \in 0 .. a - 1 /\ x \div a \in Nat /\ x = a * (x \div a) + (x % a)
  OBVIOUS

LEMMA MultipleIsAligned ==
  ASSUME NEW k \in Nat, NEW a \in Nat \ {0}
  PROVE  (a * k) % a = 0
<1> DEFINE q == (a * k) \div a
           r == (a * k) % a
<1>1. q \in Nat /\ r \in 0 .. a - 1 /\ a * k = a * q + r
  <2>1. a * k \in Nat
    OBVIOUS
  <2> QED BY <2>1, Division
<1>2. a * (k - q) = r /\ k - q \in Int
  BY <1>1
<1> HIDE DEF q, r
<1>3. CASE k - q <= 0
  <2>1. r = 0
    BY <1>1, <1>2, <1>3, SMTT(30)
  <2> QED BY <2>1 DEF r
<1>4. CASE k - q >= 1
  <2>1. a * (k - q) >= a
    BY <1>1, <1>4, SMTT(30)
  <2> QED BY <2>1, <1>1, <1>2
<1> QED BY <1>1, <1>3, <1>4

\* What align_up returns: the next multiple of the alignment.
LEMMA AlignUpFact ==
  ASSUME alignment \in Nat \ {0}, NEW x \in Nat
  PROVE  AlignUp(x) \in Nat /\ AlignUp(x) >= x /\ AlignUp(x) % alignment = 0
<1> DEFINE q == x \div alignment
<1>1. x = alignment * q + (x % alignment) /\ q \in Nat /\ x % alignment \in 0 .. alignment - 1
  BY Division
<1>2. CASE x % alignment = 0
  BY <1>2 DEF AlignUp
<1>3. CASE x % alignment # 0
  <2>1. AlignUp(x) = x + (alignment - (x % alignment))
    BY <1>3 DEF AlignUp
  <2>2. AlignUp(x) = alignment * (q + 1)
    <3> HIDE DEF q
    <3> QED BY <1>1, <2>1, SMTT(30)
  <2>3. AlignUp(x) % alignment = 0
    <3>1. q + 1 \in Nat
      BY <1>1
    <3>2. (alignment * (q + 1)) % alignment = 0
      <4> HIDE DEF q
      <4> QED BY <3>1, MultipleIsAligned
    <3> HIDE DEF q
    <3> QED BY <2>2, <3>2
  <2> QED BY <1>1, <2>1, <2>3
<1> QED BY <1>2, <1>3

-----------------------------------------------------------------------------
\* What a slot is made of.
LEMMA RequestFact ==
  ASSUME PlanTypeOK
  PROVE  /\ requests \in Seq([bytes : 0 .. MaxWord, live : SUBSET [first : Nat, last : Nat],
                              group : Nat])
         /\ alignment \in 0 .. MaxWord /\ MaxWord \in Nat
         /\ \A i \in DOMAIN requests : i \in Nat \ {0} /\ requests[i].bytes \in 0 .. MaxWord
         /\ Leaders \subseteq DOMAIN requests
<1>1. <<requests, alignment>> \in Seq([bytes : 0 .. MaxWord,
                                       live : SUBSET [first : Nat, last : Nat],
                                       group : Nat]) \X (0 .. MaxWord)
  BY ArenaAssumption DEF PlanTypeOK
<1>2. requests \in Seq([bytes : 0 .. MaxWord, live : SUBSET [first : Nat, last : Nat],
                        group : Nat])
  BY <1>1
<1>3. alignment \in 0 .. MaxWord /\ MaxWord \in Nat
  BY <1>1, ArenaAssumption
<1>4. ASSUME NEW i \in DOMAIN requests
      PROVE  i \in Nat \ {0} /\ requests[i].bytes \in 0 .. MaxWord
  <2>1. i \in 1 .. Len(requests) /\ Len(requests) \in Nat
    BY <1>2
  <2>2. requests[i] \in [bytes : 0 .. MaxWord, live : SUBSET [first : Nat, last : Nat],
                         group : Nat]
    BY <1>2, <2>1, ElementOfSeq
  <2> QED BY <2>1, <2>2
<1>5. Leaders \subseteq DOMAIN requests
  BY DEF Leaders
<1> QED BY <1>2, <1>3, <1>4, <1>5

LEMMA SlotFact ==
  ASSUME PlanTypeOK, NEW l \in DOMAIN requests
  PROVE  /\ SlotBytes(l) \in 0 .. MaxWord
         /\ \A i \in Members(l) : requests[i].bytes <= SlotBytes(l)
         /\ Valid => /\ Sized(l) \in Nat /\ Sized(l) >= SlotBytes(l)
                     /\ Sized(l) % alignment = 0
<1> DEFINE T == {requests[i].bytes : i \in Members(l)}
<1>1. /\ l \in Members(l) /\ Members(l) \subseteq DOMAIN requests
  BY DEF Members, Together
<1>2. T # {} /\ T \subseteq 0 .. MaxWord /\ MaxWord \in Nat
  BY <1>1, RequestFact
<1>3. \E x \in T : \A y \in T : y <= x
  <2> HIDE DEF T
  <2> QED BY <1>2, GreatestOf
<1>4. \E b \in T : \A i \in Members(l) : requests[i].bytes <= b
  BY <1>3
<1>5. SlotBytes(l) \in T /\ \A i \in Members(l) : requests[i].bytes <= SlotBytes(l)
  BY <1>4 DEF SlotBytes
<1>6. SlotBytes(l) \in 0 .. MaxWord
  BY <1>2, <1>5
<1>7. ASSUME Valid
      PROVE  Sized(l) \in Nat /\ Sized(l) >= SlotBytes(l) /\ Sized(l) % alignment = 0
  <2>1. alignment \in Nat \ {0} /\ SlotBytes(l) \in Nat
    BY <1>6, <1>7, RequestFact DEF Valid
  <2> QED BY <2>1, AlignUpFact DEF Sized
<1> QED BY <1>5, <1>6, <1>7

LEMMA ComesOnce ==
  ASSUME PlanTypeOK, NEW l, NEW m, Comes(l), Comes(m)
  PROVE  l \in Leaders /\ l = m
<1>1. l \in Leaders /\ m \in Leaders /\ l \in Unplaced /\ m \in Unplaced
  BY DEF Comes, Unplaced
<1>2. SlotBytes(l) \in Nat /\ SlotBytes(m) \in Nat /\ l \in Nat /\ m \in Nat
  BY <1>1, RequestFact, SlotFact
<1> QED BY <1>1, <1>2 DEF Comes

\* Requests of one slot are related both ways and through each other.
LEMMA TogetherFact ==
  ASSUME NEW i, NEW j, NEW k, Together(i, j)
  PROVE  Together(j, i) /\ (Together(j, k) => Together(i, k))
  BY DEF Together

LEMMA LeaderOf ==
  ASSUME PlanTypeOK, NEW i \in DOMAIN requests
  PROVE  \E l \in Leaders : Together(l, i)
<1> DEFINE T == {j \in DOMAIN requests : Together(j, i)}
<1>1. T \subseteq Nat /\ i \in T
  BY RequestFact DEF Together
<1>2. PICK l \in T : \A j \in T : l <= j
  <2> HIDE DEF T
  <2> QED BY <1>1, LeastOf
<1>3. ASSUME NEW j \in 1 .. l - 1, Together(l, j)
      PROVE  FALSE
  <2>1. Together(j, i)
    BY <1>2, <1>3, TogetherFact
  <2>2. DOMAIN requests = 1 .. Len(requests) /\ Len(requests) \in Nat
    BY RequestFact
  <2>3. l \in 1 .. Len(requests)
    BY <1>2, <2>2
  <2>4. j \in 1 .. Len(requests) /\ j < l /\ l \in Nat /\ j \in Nat
    BY <1>3, <2>2, <2>3
  <2>5. j \in T
    BY <2>1, <2>2, <2>4
  <2>6. l <= j
    BY <1>2, <2>5
  <2> QED BY <2>4, <2>6
<1> QED BY <1>2, <1>3 DEF Leaders

-----------------------------------------------------------------------------
\* A slot does not change while the same call goes on.
LEMMA SameRequests ==
  ASSUME UNCHANGED <<requests, alignment>>
  PROVE  /\ Leaders' = Leaders /\ Valid' = Valid
         /\ \A l : SlotBytes(l)' = SlotBytes(l) /\ SlotLive(l)' = SlotLive(l)
                  /\ Sized(l)' = Sized(l)
  BY DEF Leaders, Together, Valid, SlotBytes, SlotLive, Members, Sized, AlignUp

\* Nor does any part of the invariant about placed slots when none is added.
LEMMA SamePlaced ==
  ASSUME UNCHANGED <<requests, alignment, placed, total>>
  PROVE  /\ Unplaced' = Unplaced
         /\ \A l : Comes(l)' = Comes(l)
         /\ \A k : Seated(k)' = Seated(k)
         /\ \A j, k : Apart(j, k)' = Apart(j, k)
         /\ \A l, x, k : Clear(l, x, k)' = Clear(l, x, k)
  BY SameRequests DEF Unplaced, Comes, Seated, Apart, Clear

LEMMA PlanInitInv == PlanInit => PlanInv
<1> SUFFICES ASSUME PlanInit
             PROVE  PlanInv
  OBVIOUS
<1>1. <<requests, alignment>> \in Calls
  <2>1. PICK call \in Calls : requests = call[1] /\ alignment = call[2]
    BY DEF PlanInit
  <2>2. call \in Seq([bytes : 0 .. MaxWord, live : SUBSET [first : Nat, last : Nat],
                      group : Nat]) \X (0 .. MaxWord)
    BY <2>1, ArenaAssumption
  <2>3. call = <<call[1], call[2]>>
    BY <2>2
  <2> QED BY <2>1, <2>3
<1>2. PlanTypeOK
  BY <1>1, ArenaAssumption DEF PlanInit, PlanTypeOK
<1> QED BY <1>2 DEF PlanInit, PlanInv

LEMMA CheckInv ==
  ASSUME PlanInv, Check
  PROVE  PlanInv'
<1> USE DEF Check
<1>1. PlanTypeOK'
  BY DEF PlanInv, PlanTypeOK
<1>2. planning' = "placing" => Valid' /\ Searched'
  <2> SUFFICES ASSUME planning' = "placing"
               PROVE  Valid' /\ Searched'
    OBVIOUS
  <2>1. Valid /\ candidate = 0 /\ probe = 1
    BY DEF PlanInv
  <2>2. alignment \in Nat \ {0} /\ PlanTypeOK
    BY <2>1, RequestFact DEF Valid, PlanInv
  <2>3. candidate % alignment = 0
    BY <2>1, <2>2
  <2>4. ASSUME NEW l \in Leaders, Sized(l) <= MaxWord
        PROVE  candidate + Sized(l) <= MaxWord
    BY <2>1, <2>2, <2>4, RequestFact, SlotFact
  <2> QED BY <2>1, <2>3, <2>4, SameRequests, SamePlaced DEF Searched
<1> QED BY <1>1, <1>2, SamePlaced DEF PlanInv

LEMMA RefuseInv ==
  ASSUME PlanInv, planning' = "refused",
         UNCHANGED <<requests, alignment, placed, candidate, probe, total>>
  PROVE  PlanInv'
<1>1. PlanTypeOK'
  BY DEF PlanInv, PlanTypeOK
<1> QED BY <1>1, SamePlaced DEF PlanInv

LEMMA FinishInv ==
  ASSUME PlanInv, Finish
  PROVE  PlanInv'
<1>1. PlanTypeOK'
  BY DEF PlanInv, PlanTypeOK, Finish
<1> QED BY <1>1, SameRequests, SamePlaced DEF PlanInv, Finish

\* The slot at hand, as the steps of the search find it.
LEMMA AtHand ==
  ASSUME PlanInv, planning = "placing", NEW l, Comes(l), Sized(l) <= MaxWord
  PROVE  /\ l \in Leaders /\ l \in DOMAIN requests /\ l \in Unplaced
         /\ alignment \in Nat \ {0} /\ MaxWord \in Nat /\ Valid /\ PlanTypeOK
         /\ Sized(l) \in 0 .. MaxWord /\ candidate \in 0 .. MaxWord
         /\ candidate + Sized(l) \in 0 .. MaxWord /\ candidate % alignment = 0
         /\ \A k \in 1 .. probe - 1 : Clear(l, candidate, k)
         /\ \A m : Comes(m) => m = l
<1>1. PlanTypeOK /\ Valid /\ Searched
  BY DEF PlanInv
<1>2. l \in Leaders /\ l \in DOMAIN requests /\ l \in Unplaced /\ \A m : Comes(m) => m = l
  BY <1>1, ComesOnce, RequestFact DEF Comes
<1>3. alignment \in Nat \ {0} /\ MaxWord \in Nat
  BY <1>1, RequestFact DEF Valid
<1>4. Sized(l) \in 0 .. MaxWord
  BY <1>1, <1>2, <1>3, SlotFact
<1>5. candidate \in 0 .. MaxWord
  BY <1>1 DEF PlanTypeOK
<1>6. candidate + Sized(l) <= MaxWord /\ candidate % alignment = 0
      /\ \A k \in 1 .. probe - 1 : Clear(l, candidate, k)
  BY <1>1, <1>2 DEF Searched
<1> QED BY <1>1, <1>2, <1>3, <1>4, <1>5, <1>6

LEMMA PlacedFact ==
  ASSUME PlanTypeOK
  PROVE  /\ Len(placed) \in Nat /\ DOMAIN placed = 1 .. Len(placed)
         /\ probe \in 1 .. Len(placed) + 1 /\ total \in 0 .. MaxWord
         /\ \A k \in DOMAIN placed :
               /\ placed[k].leader \in DOMAIN requests
               /\ placed[k].offset \in 0 .. MaxWord
               /\ placed[k].bytes \in 0 .. MaxWord
<1> DEFINE S == [leader : DOMAIN requests, offset : 0 .. MaxWord, bytes : 0 .. MaxWord]
<1>1. placed \in Seq(S) /\ probe \in 1 .. Len(placed) + 1 /\ total \in 0 .. MaxWord
  BY DEF PlanTypeOK
<1>2. Len(placed) \in Nat /\ DOMAIN placed = 1 .. Len(placed)
  <2> HIDE DEF S
  <2> QED BY <1>1
<1>3. \A k \in DOMAIN placed : placed[k] \in S
  <2> HIDE DEF S
  <2> QED BY <1>1, <1>2, ElementOfSeq
<1> QED BY <1>1, <1>2, <1>3

LEMMA PassInv ==
  ASSUME PlanInv, NEW l \in DOMAIN requests, Pass(l)
  PROVE  PlanInv'
<1>1. /\ planning = "placing" /\ Comes(l) /\ Sized(l) <= MaxWord
      /\ probe <= Len(placed) /\ ~Meets(l) /\ probe' = probe + 1
      /\ UNCHANGED <<requests, alignment, planning, placed, candidate, total>>
  BY DEF Pass
<1>2. PlanTypeOK
  BY DEF PlanInv
<1>3. PlanTypeOK'
  BY <1>1, <1>2, PlacedFact DEF PlanTypeOK
<1>4. Clear(l, candidate, probe)
  <2>1. Wrapped(candidate + Sized(l)) = candidate + Sized(l)
    BY <1>1, AtHand DEF Wrapped
  <2> QED BY <1>1, <2>1 DEF Meets, Clear
<1>5. \A k \in 1 .. probe' - 1 : Clear(l, candidate, k)
  BY <1>1, <1>2, <1>4, AtHand, PlacedFact
<1>6. Searched'
  BY <1>1, <1>5, AtHand, SameRequests, SamePlaced DEF Searched
<1> QED BY <1>1, <1>3, <1>6, SameRequests, SamePlaced DEF PlanInv

LEMMA MoveUpInv ==
  ASSUME PlanInv, NEW l \in DOMAIN requests, MoveUp(l)
  PROVE  PlanInv'
<1> DEFINE top == AlignUp(placed[probe].offset + placed[probe].bytes)
<1>1. /\ planning = "placing" /\ Comes(l) /\ Sized(l) <= MaxWord
      /\ probe <= Len(placed)
      /\ UNCHANGED <<requests, alignment, placed, total>>
  BY DEF MoveUp
<1>2. PlanTypeOK
  BY DEF PlanInv
<1>3. CASE top > MaxWord - Sized(l)
  <2>1. planning' = "refused" /\ UNCHANGED <<candidate, probe>>
    BY <1>3 DEF MoveUp
  <2> QED BY <1>1, <2>1, RefuseInv
<1>4. CASE ~(top > MaxWord - Sized(l))
  <2>1. candidate' = top /\ probe' = 1 /\ planning' = planning
    BY <1>4 DEF MoveUp
  <2>2. top \in Nat /\ top % alignment = 0
    <3>1. placed[probe].offset + placed[probe].bytes \in Nat
      BY <1>1, <1>2, PlacedFact
    <3> QED BY <1>1, <3>1, AtHand, AlignUpFact
  <2>3. top + Sized(l) <= MaxWord /\ top \in 0 .. MaxWord
    <3> HIDE DEF top
    <3> QED BY <1>1, <1>4, <2>2, AtHand
  <2>4. PlanTypeOK'
    <3> HIDE DEF top
    <3> QED BY <1>1, <1>2, <2>1, <2>3, PlacedFact DEF PlanTypeOK
  <2>5. Searched'
    <3> HIDE DEF top
    <3>1. 1 .. probe' - 1 = {}
      BY <2>1
    <3> QED BY <1>1, <2>1, <2>2, <2>3, <3>1, AtHand, SameRequests, SamePlaced DEF Searched
  <2> HIDE DEF top
  <2> QED BY <1>1, <2>1, <2>4, <2>5, SameRequests, SamePlaced DEF PlanInv
<1> QED BY <1>3, <1>4

LEMMA PlaceInv ==
  ASSUME PlanInv, NEW l \in DOMAIN requests, Place(l)
  PROVE  PlanInv'
<1>0. PICK n \in Nat : n = Len(placed)
  BY PlacedFact DEF PlanInv
<1> DEFINE slot == [leader |-> l, offset |-> candidate, bytes |-> Sized(l)]
           S == [leader : DOMAIN requests, offset : 0 .. MaxWord, bytes : 0 .. MaxWord]
<1>1. /\ planning = "placing" /\ Comes(l) /\ Sized(l) <= MaxWord
      /\ probe > Len(placed) /\ placed' = Append(placed, slot)
      /\ candidate' = 0 /\ probe' = 1
      /\ UNCHANGED <<requests, alignment, planning>>
  BY DEF Place
<1>2. PlanTypeOK
  BY DEF PlanInv
<1>3. slot \in S /\ placed \in Seq(S)
  BY <1>1, <1>2, AtHand DEF PlanTypeOK
<1>4. /\ placed' \in Seq(S) /\ Len(placed') = n + 1 /\ DOMAIN placed' = 1 .. n + 1
      /\ placed'[n + 1] = slot /\ \A k \in 1 .. n : placed'[k] = placed[k]
  <2> HIDE DEF S, slot
  <2> QED BY <1>0, <1>1, <1>3
<1>5. total' \in 0 .. MaxWord /\ total' >= total /\ total' >= candidate + Sized(l)
  BY <1>1, <1>2, AtHand, PlacedFact DEF Place
<1>6. PlanTypeOK'
  <2>1. probe' \in 1 .. Len(placed') + 1
    BY <1>0, <1>1, <1>4
  <2>2. candidate' \in 0 .. MaxWord
    BY <1>1, AtHand
  <2> HIDE DEF slot
  <2> QED BY <1>1, <1>2, <1>4, <1>5, <2>1, <2>2 DEF PlanTypeOK
<1>7. \A k \in DOMAIN placed' : Seated(k)'
  <2>1. ASSUME NEW k \in 1 .. n
        PROVE  Seated(k)'
    <3>1. Seated(k)
      BY <1>0, <1>2, PlacedFact DEF PlanInv
    <3>2. /\ placed[k].offset \in Nat /\ placed[k].bytes \in Nat
          /\ total \in Nat /\ total' \in Nat
      BY <1>0, <1>2, <1>5, PlacedFact
    <3> HIDE DEF slot
    <3> QED BY <1>1, <1>4, <1>5, <3>1, <3>2, SameRequests, SMTT(40) DEF Seated
  <2>2. Seated(n + 1)'
    BY <1>1, <1>4, <1>5, AtHand, SameRequests DEF Seated
  <2> QED BY <1>4, <2>1, <2>2
<1>8. \A k \in DOMAIN placed' : \A j \in 1 .. k - 1 : Apart(j, k)'
  <2>1. ASSUME NEW k \in 1 .. n, NEW j \in 1 .. k - 1
        PROVE  Apart(j, k)'
    <3>1. j \in 1 .. n /\ k \in DOMAIN placed
      BY <1>0, <1>2, PlacedFact
    <3>2. Apart(j, k)
      BY <3>1 DEF PlanInv
    <3>3. placed'[j] = placed[j] /\ placed'[k] = placed[k]
      BY <1>4, <3>1
    <3> HIDE DEF slot
    <3> QED BY <1>1, <3>2, <3>3, SameRequests DEF Apart, Clear
  <2>2. ASSUME NEW j \in 1 .. n
        PROVE  Apart(j, n + 1)'
    <3>1. Clear(l, candidate, j)
      BY <1>0, <1>1, <1>2, AtHand, PlacedFact
    <3>2. placed[j].leader # l
      BY <1>0, <1>1, <1>2, AtHand, PlacedFact DEF Unplaced
    <3>3. placed'[j] = placed[j] /\ placed'[n + 1].leader = l /\ placed'[n + 1].offset = candidate
      BY <1>4
    <3> HIDE DEF slot
    <3> QED BY <1>1, <3>1, <3>2, <3>3, SameRequests DEF Apart, Clear
  <2> HIDE DEF slot
  <2>3. ASSUME NEW k \in 1 .. n + 1, NEW j \in 1 .. k - 1
        PROVE  Apart(j, k)'
    <3>1. k \in 1 .. n \/ (k = n + 1 /\ j \in 1 .. n)
      OBVIOUS
    <3> QED BY <2>1, <2>2, <3>1
  <2> QED BY <1>4, <2>3
<1>9. Searched'
  <2>1. ASSUME NEW m \in Leaders, Sized(m) <= MaxWord
        PROVE  0 + Sized(m) <= MaxWord
    BY <1>1, <1>2, <2>1, RequestFact, SlotFact, AtHand
  <2>2. 0 % alignment = 0 /\ 1 .. probe' - 1 = {}
    BY <1>1, AtHand
  <2> QED BY <1>1, <2>1, <2>2, SameRequests DEF Searched
<1>10. Valid'
  BY <1>1, AtHand, SameRequests
<1> HIDE DEF slot
<1> QED BY <1>1, <1>6, <1>7, <1>8, <1>9, <1>10 DEF PlanInv

\* Every step keeps the invariant.
LEMMA PlanStepInv == PlanInv /\ [PlanNext]_planVars => PlanInv'
<1> SUFFICES ASSUME PlanInv, [PlanNext]_planVars
             PROVE  PlanInv'
  OBVIOUS
<1>1. CASE Check
  BY <1>1, CheckInv
<1>2. ASSUME NEW l \in DOMAIN requests, SizeOverflows(l)
      PROVE  PlanInv'
  BY <1>2, RefuseInv DEF SizeOverflows
<1>3. ASSUME NEW l \in DOMAIN requests, Pass(l)
      PROVE  PlanInv'
  BY <1>3, PassInv
<1>4. ASSUME NEW l \in DOMAIN requests, MoveUp(l)
      PROVE  PlanInv'
  BY <1>4, MoveUpInv
<1>5. ASSUME NEW l \in DOMAIN requests, Place(l)
      PROVE  PlanInv'
  BY <1>5, PlaceInv
<1>6. CASE Finish
  BY <1>6, FinishInv
<1>7. CASE HostAllocationFails
  BY <1>7, RefuseInv DEF HostAllocationFails
<1>8. CASE UNCHANGED planVars
  <2> USE <1>8 DEF planVars
  <2>1. PlanTypeOK'
    BY DEF PlanInv, PlanTypeOK
  <2>2. Searched' = Searched
    BY SameRequests, SamePlaced DEF Searched
  <2> QED BY <2>1, <2>2, SameRequests, SamePlaced DEF PlanInv
<1> QED BY <1>1, <1>2, <1>3, <1>4, <1>5, <1>6, <1>7, <1>8 DEF PlanNext, PlanStep

LEMMA PlanInvHolds == PlanSpec => []PlanInv
  BY PlanInitInv, PlanStepInv, PTL DEF PlanSpec

-----------------------------------------------------------------------------
\* In a finished plan every request has the offset of its leader's slot, which
\* is at least as large and as long live.
LEMMA OffsetFact ==
  ASSUME PlanInv, planning = "planned", NEW i \in DOMAIN requests
  PROVE  \E k \in DOMAIN placed :
            /\ Together(placed[k].leader, i)
            /\ Offset(i) = placed[k].offset
            /\ requests[i].bytes <= placed[k].bytes
            /\ requests[i].live \subseteq SlotLive(placed[k].leader)
<1>1. PlanTypeOK /\ Valid /\ Unplaced = {}
  BY DEF PlanInv
<1>2. PICK l \in Leaders : Together(l, i)
  BY <1>1, LeaderOf
<1>3. \E k \in DOMAIN placed : Together(placed[k].leader, i)
  BY <1>1, <1>2 DEF Unplaced
<1>4. PICK k \in DOMAIN placed : /\ Together(placed[k].leader, i)
                                /\ Offset(i) = placed[k].offset
  BY <1>3 DEF Offset
<1>5. i \in Members(placed[k].leader)
  BY <1>4 DEF Members
<1>6. placed[k].bytes = Sized(placed[k].leader) /\ placed[k].leader \in DOMAIN requests
  BY <1>1, PlacedFact DEF PlanInv, Seated
<1>7. requests[i].bytes <= placed[k].bytes
  <2>1. ASSUME NEW m \in DOMAIN requests, i \in Members(m)
        PROVE  /\ requests[i].bytes <= SlotBytes(m) /\ Sized(m) >= SlotBytes(m)
               /\ SlotBytes(m) \in Nat /\ Sized(m) \in Nat
    <3>1. SlotBytes(m) \in 0 .. MaxWord /\ MaxWord \in Nat
      BY <1>1, SlotFact, RequestFact
    <3> QED BY <1>1, <2>1, <3>1, SlotFact
  <2>2. requests[i].bytes \in Nat
    BY <1>1, RequestFact
  <2> QED BY <1>5, <1>6, <2>1, <2>2
<1>8. requests[i].live \subseteq SlotLive(placed[k].leader)
  BY <1>5 DEF SlotLive
<1> QED BY <1>4, <1>7, <1>8

LEMMA ConflictGrows ==
  ASSUME NEW a, NEW b, NEW s, NEW t, s \subseteq a, t \subseteq b, LiveConflict(s, t)
  PROVE  LiveConflict(a, b) /\ LiveConflict(b, a)
  BY DEF LiveConflict, IntervalsOverlap

LEMMA KeepsApart == PlanInv => LiveRequestsKeepApart
<1> SUFFICES ASSUME PlanInv, planning = "planned",
                    NEW i \in DOMAIN requests, NEW j \in DOMAIN requests,
                    ~Together(i, j), LiveConflict(requests[i].live, requests[j].live)
             PROVE  ~RangesOverlap(Offset(i), Offset(i) + requests[i].bytes,
                                   Offset(j), Offset(j) + requests[j].bytes)
  BY DEF LiveRequestsKeepApart
<1>1. PlanTypeOK
  BY DEF PlanInv
<1>2. PICK p \in DOMAIN placed : /\ Together(placed[p].leader, i)
                                /\ Offset(i) = placed[p].offset
                                /\ requests[i].bytes <= placed[p].bytes
                                /\ requests[i].live \subseteq SlotLive(placed[p].leader)
  BY OffsetFact
<1>3. PICK q \in DOMAIN placed : /\ Together(placed[q].leader, j)
                                /\ Offset(j) = placed[q].offset
                                /\ requests[j].bytes <= placed[q].bytes
                                /\ requests[j].live \subseteq SlotLive(placed[q].leader)
  BY OffsetFact
<1>4. p # q
  BY <1>2, <1>3, TogetherFact
<1>5. /\ LiveConflict(SlotLive(placed[p].leader), SlotLive(placed[q].leader))
      /\ LiveConflict(SlotLive(placed[q].leader), SlotLive(placed[p].leader))
  BY <1>2, <1>3, ConflictGrows
<1>6. /\ p \in Nat /\ q \in Nat
      /\ placed[p].offset \in Nat /\ placed[p].bytes \in Nat
      /\ placed[q].offset \in Nat /\ placed[q].bytes \in Nat
      /\ requests[i].bytes \in Nat /\ requests[j].bytes \in Nat
  <2>1. MaxWord \in Nat /\ requests[i].bytes \in Nat /\ requests[j].bytes \in Nat
    BY <1>1, RequestFact
  <2>2. \A k \in DOMAIN placed : /\ k \in Nat /\ placed[k].offset \in 0 .. MaxWord
                                /\ placed[k].bytes \in 0 .. MaxWord
    BY <1>1, PlacedFact
  <2> QED BY <2>1, <2>2
<1>7. ~RangesOverlap(placed[p].offset, placed[p].offset + placed[p].bytes,
                     placed[q].offset, placed[q].offset + placed[q].bytes)
  <2>1. CASE p < q
    <3>1. p \in 1 .. q - 1
      BY <1>1, <1>6, <2>1, PlacedFact
    <3>2. Apart(p, q) /\ Seated(q)
      BY <3>1 DEF PlanInv
    <3> QED BY <1>5, <1>6, <3>2 DEF Apart, Clear, Seated, RangesOverlap
  <2>2. CASE q < p
    <3>1. q \in 1 .. p - 1
      BY <1>1, <1>6, <2>2, PlacedFact
    <3>2. Apart(q, p) /\ Seated(p)
      BY <3>1 DEF PlanInv
    <3> QED BY <1>5, <1>6, <3>2 DEF Apart, Clear, Seated, RangesOverlap
  <2> QED BY <1>4, <1>6, <2>1, <2>2
<1> QED BY <1>2, <1>3, <1>6, <1>7 DEF RangesOverlap

LEMMA Fits == PlanInv => PlanFits
<1> SUFFICES ASSUME PlanInv, planning = "planned"
             PROVE  /\ total <= MaxWord
                    /\ \A i \in DOMAIN requests :
                          /\ Offset(i) % alignment = 0
                          /\ Offset(i) + requests[i].bytes <= total
  BY DEF PlanFits
<1>1. PlanTypeOK
  BY DEF PlanInv
<1>2. total \in 0 .. MaxWord /\ total <= MaxWord
  BY <1>1, RequestFact, PlacedFact
<1>3. ASSUME NEW i \in DOMAIN requests
      PROVE  Offset(i) % alignment = 0 /\ Offset(i) + requests[i].bytes <= total
  <2>1. PICK k \in DOMAIN placed : /\ Offset(i) = placed[k].offset
                                  /\ requests[i].bytes <= placed[k].bytes
    BY OffsetFact
  <2>2. placed[k].offset % alignment = 0 /\ placed[k].offset + placed[k].bytes <= total
    BY DEF PlanInv, Seated
  <2>3. /\ placed[k].offset \in Nat /\ placed[k].bytes \in Nat
        /\ requests[i].bytes \in Nat /\ total \in Nat
    BY <1>1, PlacedFact, RequestFact, SMTT(40)
  <2> QED BY <2>1, <2>2, <2>3
<1> QED BY <1>2, <1>3

-----------------------------------------------------------------------------
\* Every offset, size and sum the planner computes stays inside the word
\* (plan_scratch_arena, every early return for overflow).
THEOREM PlanTyped == PlanSpec => []PlanTypeOK
<1>1. PlanInv => PlanTypeOK
  BY DEF PlanInv
<1> QED BY <1>1, PlanInvHolds, PTL

\* Two requests that are live in a common stage and do not exclude each other
\* share no byte, for every list of requests (plan_scratch_arena).
THEOREM PlanKeepsApart == PlanSpec => []LiveRequestsKeepApart
  BY KeepsApart, PlanInvHolds, PTL

\* Every request lies aligned inside the allocation of total bytes
\* (plan_scratch_arena; Session::create allocates the total).
THEOREM PlanFitsTotal == PlanSpec => []PlanFits
  BY Fits, PlanInvHolds, PTL

-----------------------------------------------------------------------------
(* The kernels.                                                              *)

\* The starts of the regions of a carving, each after the one before it.
Starts(c, f) == f = [i \in DOMAIN c |-> IF i = 1 THEN 0 ELSE f[i - 1] + c[i - 1][2]]

\* Regions have a name of their own and a size.
Carving(c) == /\ Len(c) \in Nat /\ DOMAIN c = 1 .. Len(c)
              /\ \A i \in DOMAIN c : c[i][2] \in Nat
              /\ \A i, j \in DOMAIN c : c[i][1] = c[j][1] => i = j

LEMMA CarvedMeans ==
  ASSUME NEW c, NEW name
  PROVE  LET f == CHOOSE f : Starts(c, f)
             place == CHOOSE i \in DOMAIN c : c[i][1] = name
         IN  Carved(c, name) = [first |-> f[place], bytes |-> c[place][2]]
  BY DEF Carved, Starts

LEMMA StartsExist ==
  ASSUME NEW c, Carving(c)
  PROVE  \E f : Starts(c, f)
<1> DEFINE Step(f, n) == [i \in 1 .. n |-> IF i = 1 THEN 0 ELSE f[i - 1] + c[i - 1][2]]
           T == {n \in 0 .. Len(c) : ~ \E f : f = Step(f, n)}
<1>1. Len(c) \in Nat /\ DOMAIN c = 1 .. Len(c)
  BY DEF Carving
<1>2. CASE T = {}
  <2>1. \E f : f = Step(f, Len(c))
    BY <1>1, <1>2
  <2> QED BY <1>1, <2>1 DEF Starts
<1>3. CASE T # {}
  <2>1. PICK n \in T : \A m \in T : n <= m
    <3>1. T \subseteq Nat
      BY <1>1
    <3> HIDE DEF T
    <3> QED BY <1>3, <3>1, LeastOf
  <2>2. CASE n = 0
    <3> DEFINE g == [i \in 1 .. n |-> 0]
    <3>1. g = Step(g, n)
      BY <2>2
    <3> QED BY <2>1, <3>1
  <2>3. CASE n # 0
    <3>1. n - 1 \in 0 .. Len(c) /\ n \in Nat \ {0}
      BY <1>1, <2>1, <2>3
    <3>2. n - 1 \notin T
      <4> HIDE DEF T
      <4> QED BY <2>1, <3>1
    <3>3. PICK f : f = Step(f, n - 1)
      BY <3>1, <3>2
    <3> DEFINE g == [i \in 1 .. n |-> IF i = n
                                      THEN IF n = 1 THEN 0 ELSE f[n - 1] + c[n - 1][2]
                                      ELSE f[i]]
    <3>4. ASSUME NEW i \in 1 .. n
          PROVE  g[i] = IF i = 1 THEN 0 ELSE g[i - 1] + c[i - 1][2]
      <4>1. CASE i = n
        BY <3>1, <4>1
      <4>2. CASE i # n
        <5>1. i \in 1 .. n - 1 /\ (i # 1 => i - 1 \in 1 .. n /\ i - 1 # n)
          BY <3>1, <4>2
        <5>2. f[i] = IF i = 1 THEN 0 ELSE f[i - 1] + c[i - 1][2]
          BY <3>3, <5>1
        <5> QED BY <4>2, <5>1, <5>2
      <4> QED BY <4>1, <4>2
    <3>5. g = Step(g, n)
      BY <3>4
    <3> QED BY <2>1, <3>5
  <2> QED BY <2>2, <2>3
<1> QED BY <1>2, <1>3

LEMMA CarvedFact ==
  ASSUME NEW c, Carving(c)
  PROVE  \E f : \A i \in DOMAIN c :
            /\ f[i] \in Nat
            /\ Carved(c, c[i][1]) = [first |-> f[i], bytes |-> c[i][2]]
            /\ \A j \in 1 .. i - 1 : f[j] + c[j][2] <= f[i]
<1> DEFINE f == CHOOSE f : Starts(c, f)
<1>1. /\ Len(c) \in Nat /\ DOMAIN c = 1 .. Len(c)
      /\ \A i \in DOMAIN c : c[i][2] \in Nat
  BY DEF Carving
<1>2. \A i \in DOMAIN c : f[i] = IF i = 1 THEN 0 ELSE f[i - 1] + c[i - 1][2]
  <2>1. Starts(c, f)
    BY StartsExist
  <2> HIDE DEF f
  <2> QED BY <2>1 DEF Starts
<1>3. ASSUME NEW i \in DOMAIN c
      PROVE  Carved(c, c[i][1]) = [first |-> f[i], bytes |-> c[i][2]]
  <2>1. (CHOOSE k \in DOMAIN c : c[k][1] = c[i][1]) = i
    BY DEF Carving
  <2> QED BY <2>1, CarvedMeans
<1> HIDE DEF f
<1>4. \A i \in DOMAIN c : f[i] \in Nat
  <2> DEFINE T == {i \in DOMAIN c : f[i] \notin Nat}
  <2>1. SUFFICES ASSUME T # {} PROVE FALSE
    OBVIOUS
  <2>2. PICK i \in T : \A j \in T : i <= j
    <3>1. T \subseteq Nat
      BY <1>1
    <3> HIDE DEF T
    <3> QED BY <2>1, <3>1, LeastOf
  <2>3. CASE i = 1
    BY <1>2, <2>2, <2>3
  <2>4. CASE i # 1
    <3>1. i - 1 \in DOMAIN c /\ i - 1 < i /\ i - 1 \notin T
      BY <1>1, <2>2, <2>4
    <3> QED BY <1>1, <1>2, <2>2, <2>4, <3>1
  <2> QED BY <2>3, <2>4
<1>5. ASSUME NEW j \in DOMAIN c
      PROVE  \A i \in DOMAIN c : j < i => f[j] + c[j][2] <= f[i]
  <2> DEFINE T == {i \in DOMAIN c : j < i /\ ~(f[j] + c[j][2] <= f[i])}
  <2>1. SUFFICES ASSUME T # {} PROVE FALSE
    OBVIOUS
  <2>2. PICK i \in T : \A k \in T : i <= k
    <3>1. T \subseteq Nat
      BY <1>1
    <3> HIDE DEF T
    <3> QED BY <2>1, <3>1, LeastOf
  <2>3. i \in DOMAIN c /\ i - 1 \in DOMAIN c /\ i # 1 /\ i \in Nat /\ j \in Nat /\ j < i
    BY <1>1, <2>2
  <2>4. /\ f[i] = f[i - 1] + c[i - 1][2]
        /\ f[i] \in Nat /\ f[i - 1] \in Nat /\ f[j] \in Nat
        /\ c[i - 1][2] \in Nat /\ c[j][2] \in Nat
    BY <1>1, <1>2, <1>4, <2>3
  <2>5. CASE j = i - 1
    BY <2>2, <2>4, <2>5
  <2>6. CASE j # i - 1
    <3>1. i - 1 \notin T /\ j < i - 1
      BY <2>2, <2>3, <2>6
    <3>2. f[j] + c[j][2] <= f[i - 1]
      BY <2>3, <3>1
    <3> QED BY <2>2, <2>4, <3>2
  <2> QED BY <2>5, <2>6
<1>6. ASSUME NEW i \in DOMAIN c, NEW j \in 1 .. i - 1
      PROVE  f[j] + c[j][2] <= f[i]
  BY <1>1, <1>5
<1> QED BY <1>3, <1>4, <1>6

Names(c) == {c[i][1] : i \in DOMAIN c}

\* Where two regions of a carving lie.
LEMMA RegionFact ==
  ASSUME NEW c, Carving(c), NEW m \in Names(c), NEW n \in Names(c)
  PROVE  /\ Carved(c, m).first \in Nat /\ Carved(c, m).bytes \in Nat
         /\ m # n => \/ Carved(c, m).first + Carved(c, m).bytes <= Carved(c, n).first
                     \/ Carved(c, n).first + Carved(c, n).bytes <= Carved(c, m).first
         /\ CarvedBytes(c) \in Nat
         /\ Carved(c, m).first + Carved(c, m).bytes <= CarvedBytes(c)
<1>1. PICK f : \A i \in DOMAIN c :
                  /\ f[i] \in Nat
                  /\ Carved(c, c[i][1]) = [first |-> f[i], bytes |-> c[i][2]]
                  /\ \A j \in 1 .. i - 1 : f[j] + c[j][2] <= f[i]
  BY CarvedFact
<1>2. /\ Len(c) \in Nat /\ DOMAIN c = 1 .. Len(c)
      /\ \A i \in DOMAIN c : c[i][2] \in Nat
  BY DEF Carving
<1>3. PICK i \in DOMAIN c : m = c[i][1]
  BY DEF Names
<1>4. PICK j \in DOMAIN c : n = c[j][1]
  BY DEF Names
<1>5. /\ Carved(c, m).first = f[i] /\ Carved(c, m).bytes = c[i][2]
      /\ Carved(c, n).first = f[j] /\ Carved(c, n).bytes = c[j][2]
  <2>1. /\ Carved(c, c[i][1]) = [first |-> f[i], bytes |-> c[i][2]]
        /\ Carved(c, c[j][1]) = [first |-> f[j], bytes |-> c[j][2]]
    BY <1>1
  <2> QED BY <2>1, <1>3, <1>4
<1>6. m # n => \/ f[i] + c[i][2] <= f[j]
               \/ f[j] + c[j][2] <= f[i]
  <2>1. m # n => i \in 1 .. j - 1 \/ j \in 1 .. i - 1
    BY <1>2, <1>3, <1>4
  <2>2. \A k \in DOMAIN c : \A h \in 1 .. k - 1 : f[h] + c[h][2] <= f[k]
    BY <1>1
  <2> QED BY <2>1, <2>2
<1>7. CarvedBytes(c) = f[Len(c)] + c[Len(c)][2] /\ Len(c) \in DOMAIN c
  <2>1. Len(c) \in DOMAIN c
    BY <1>2
  <2>2. Carved(c, c[Len(c)][1]) = [first |-> f[Len(c)], bytes |-> c[Len(c)][2]]
    BY <1>1, <2>1
  <2> QED BY <2>1, <2>2 DEF CarvedBytes
<1>8. f[i] + c[i][2] <= f[Len(c)] + c[Len(c)][2]
  <2>1. i = Len(c) \/ i \in 1 .. Len(c) - 1
    BY <1>2
  <2>2. f[i] \in Nat /\ f[Len(c)] \in Nat /\ c[i][2] \in Nat /\ c[Len(c)][2] \in Nat
    BY <1>1, <1>2, <1>7
  <2>3. i \in 1 .. Len(c) - 1 => f[i] + c[i][2] <= f[Len(c)]
    BY <1>1, <1>7
  <2> QED BY <2>1, <2>2, <2>3, SMTT(40)
<1>9. f[i] \in Nat /\ c[i][2] \in Nat /\ f[Len(c)] \in Nat /\ c[Len(c)][2] \in Nat
  BY <1>1, <1>2, <1>7
<1> QED BY <1>5, <1>6, <1>7, <1>8, <1>9

\* A region starts where the one before it ends.
LEMMA NextRegion ==
  ASSUME NEW c, Carving(c), NEW i \in DOMAIN c
  PROVE  /\ Carved(c, c[i][1]).bytes = c[i][2]
         /\ Carved(c, c[i][1]).first =
               IF i = 1 THEN 0 ELSE Carved(c, c[i - 1][1]).first + c[i - 1][2]
<1> DEFINE f == CHOOSE f : Starts(c, f)
<1>1. Starts(c, f)
  BY StartsExist
<1>2. ASSUME NEW j \in DOMAIN c
      PROVE  Carved(c, c[j][1]) = [first |-> f[j], bytes |-> c[j][2]]
  <2>1. (CHOOSE k \in DOMAIN c : c[k][1] = c[j][1]) = j
    BY DEF Carving
  <2> QED BY <2>1, CarvedMeans
<1> HIDE DEF f
<1>3. i # 1 => i - 1 \in DOMAIN c
  <2>1. Len(c) \in Nat /\ DOMAIN c = 1 .. Len(c)
    BY DEF Carving
  <2> QED BY <2>1
<1>4. f[i] = IF i = 1 THEN 0 ELSE f[i - 1] + c[i - 1][2]
  BY <1>1 DEF Starts
<1>5. Carved(c, c[i][1]).first = f[i] /\ Carved(c, c[i][1]).bytes = c[i][2]
  <2>1. Carved(c, c[i][1]) = [first |-> f[i], bytes |-> c[i][2]]
    BY <1>2
  <2> QED BY <2>1
<1>6. i # 1 => Carved(c, c[i - 1][1]).first = f[i - 1]
  <2>1. i # 1 => Carved(c, c[i - 1][1]) = [first |-> f[i - 1], bytes |-> c[i - 1][2]]
    BY <1>2, <1>3
  <2> QED BY <2>1
<1> QED BY <1>4, <1>5, <1>6

GdnNames == {"qkv", "z", "convolved", "q_hat", "k_hat", "a", "b", "alpha", "beta", "o", "u"}
AttentionNames == {"qg", "k", "v", "q", "g"}

LEMMA GdnScratchFact ==
  /\ Carving(GdnScratch) /\ GdnNames \subseteq Names(GdnScratch)
  /\ CarvedBytes(GdnScratch) = 107264
<1> DEFINE c == GdnScratch
<1>1. Len(c) = 11 /\ DOMAIN c = 1 .. 11 /\ c = [i \in 1 .. 11 |-> c[i]]
  BY DEF GdnScratch
<1>2. /\ c[1] = <<"qkv", 20480>> /\ c[2] = <<"z", 12288>> /\ c[3] = <<"convolved", 20480>>
      /\ c[4] = <<"q_hat", 8192>> /\ c[5] = <<"k_hat", 8192>> /\ c[6] = <<"a", 192>>
  BY DEF GdnScratch
<1>3. /\ c[7] = <<"b", 192>> /\ c[8] = <<"alpha", 192>> /\ c[9] = <<"beta", 192>>
      /\ c[10] = <<"o", 24576>> /\ c[11] = <<"u", 12288>>
  BY DEF GdnScratch
<1> HIDE DEF c
<1>4. \A i \in 1 .. 11 : c[i][2] \in Nat
  <2>1. \A i \in 1 .. 6 : c[i][2] \in Nat
    BY <1>2
  <2>2. \A i \in 7 .. 11 : c[i][2] \in Nat
    BY <1>3
  <2> QED BY <2>1, <2>2
<1>5. Carving(c)
  <2>1. \A i \in 1 .. 6, j \in 1 .. 6 : c[i][1] = c[j][1] => i = j
    BY <1>2
  <2>2. \A i \in 7 .. 11, j \in 7 .. 11 : c[i][1] = c[j][1] => i = j
    BY <1>3
  <2>3. \A i \in 1 .. 6, j \in 7 .. 11 : c[i][1] # c[j][1]
    BY <1>2, <1>3
  <2>4. \A i \in 1 .. 11, j \in 1 .. 11 : c[i][1] = c[j][1] => i = j
    BY <2>1, <2>2, <2>3
  <2> QED BY <1>1, <1>4, <2>4 DEF Carving
<1>6. GdnNames \subseteq Names(c)
  <2>1. ASSUME NEW i \in 1 .. 11
        PROVE  c[i][1] \in Names(c)
    BY <1>1 DEF Names
  <2> QED BY <1>2, <1>3, <2>1 DEF GdnNames
<1>7. ASSUME NEW i \in 1 .. 11
      PROVE  /\ Carved(c, c[i][1]).bytes = c[i][2]
             /\ Carved(c, c[i][1]).first =
                   IF i = 1 THEN 0 ELSE Carved(c, c[i - 1][1]).first + c[i - 1][2]
  <2>1. i \in DOMAIN c
    BY <1>1
  <2> QED BY <1>5, <2>1, NextRegion
<1>8. Carved(c, "qkv").first = 0 /\ Carved(c, "z").first = 20480
      /\ Carved(c, "convolved").first = 32768 /\ Carved(c, "q_hat").first = 53248
      /\ Carved(c, "k_hat").first = 61440 /\ Carved(c, "a").first = 69632
  BY <1>2, <1>7
<1>9. Carved(c, "b").first = 69824 /\ Carved(c, "alpha").first = 70016
      /\ Carved(c, "beta").first = 70208 /\ Carved(c, "o").first = 70400
      /\ Carved(c, "u").first = 94976 /\ Carved(c, "u").bytes = 12288
  BY <1>2, <1>3, <1>7, <1>8
<1>10. CarvedBytes(c) = 107264
  BY <1>1, <1>3, <1>9 DEF CarvedBytes
<1> QED BY <1>5, <1>6, <1>10 DEF c

LEMMA AttentionScratchFact ==
  ASSUME requests[3].bytes \in Nat, requests[3].bytes >= 53248
  PROVE  /\ Carving(AttentionScratch) /\ AttentionNames \subseteq Names(AttentionScratch)
         /\ "partials" \in Names(AttentionScratch)
         /\ CarvedBytes(AttentionScratch) = requests[3].bytes
<1> DEFINE c == AttentionScratch
<1>1. Len(c) = 6 /\ DOMAIN c = 1 .. 6
  BY DEF AttentionScratch
<1>2. /\ c[1] = <<"qg", 24576>> /\ c[2] = <<"k", 2048>> /\ c[3] = <<"v", 2048>>
      /\ c[4] = <<"q", 12288>> /\ c[5] = <<"g", 12288>>
      /\ c[6] = <<"partials", requests[3].bytes - 53248>>
  BY DEF AttentionScratch
<1> HIDE DEF c
<1>3. Carving(c)
  <2>1. \A i \in 1 .. 6 : c[i][2] \in Nat
    BY <1>2
  <2>2. \A i \in 1 .. 6, j \in 1 .. 6 : c[i][1] = c[j][1] => i = j
    BY <1>2
  <2> QED BY <1>1, <2>1, <2>2 DEF Carving
<1>4. AttentionNames \subseteq Names(c) /\ "partials" \in Names(c)
  <2>1. ASSUME NEW i \in 1 .. 6
        PROVE  c[i][1] \in Names(c)
    BY <1>1 DEF Names
  <2> QED BY <1>2, <2>1 DEF AttentionNames
<1>5. ASSUME NEW i \in 1 .. 6
      PROVE  /\ Carved(c, c[i][1]).bytes = c[i][2]
             /\ Carved(c, c[i][1]).first =
                   IF i = 1 THEN 0 ELSE Carved(c, c[i - 1][1]).first + c[i - 1][2]
  <2>1. i \in DOMAIN c
    BY <1>1
  <2> QED BY <1>3, <2>1, NextRegion
<1>6. /\ Carved(c, "qg").first = 0 /\ Carved(c, "k").first = 24576
      /\ Carved(c, "v").first = 26624 /\ Carved(c, "q").first = 28672
      /\ Carved(c, "g").first = 40960 /\ Carved(c, "partials").first = 53248
      /\ Carved(c, "partials").bytes = requests[3].bytes - 53248
  BY <1>2, <1>5
<1>7. CarvedBytes(c) = requests[3].bytes
  BY <1>1, <1>2, <1>6 DEF CarvedBytes
<1> QED BY <1>3, <1>4, <1>7 DEF c

LEMMA PrefillGdnFact ==
  Carving(PrefillGdn) /\ GdnNames \cup {"normalized"} \subseteq Names(PrefillGdn)
<1> DEFINE c == PrefillGdn
<1>1. Len(c) = 12 /\ DOMAIN c = 1 .. 12
  BY DEF PrefillGdn
<1>2. /\ c[1] = <<"normalized", 10240>> /\ c[2] = <<"qkv", 20480>> /\ c[3] = <<"z", 12288>>
      /\ c[4] = <<"a", 192>> /\ c[5] = <<"b", 192>> /\ c[6] = <<"convolved", 20480>>
  BY DEF PrefillGdn
<1>3. /\ c[7] = <<"q_hat", 8192>> /\ c[8] = <<"k_hat", 8192>> /\ c[9] = <<"alpha", 192>>
      /\ c[10] = <<"beta", 192>> /\ c[11] = <<"o", 24576>> /\ c[12] = <<"u", 12288>>
  BY DEF PrefillGdn
<1> HIDE DEF c
<1>4. \A i \in 1 .. 12 : c[i][2] \in Nat
  <2>1. \A i \in 1 .. 6 : c[i][2] \in Nat
    BY <1>2
  <2>2. \A i \in 7 .. 12 : c[i][2] \in Nat
    BY <1>3
  <2> QED BY <2>1, <2>2
<1>5. Carving(c)
  <2>1. \A i \in 1 .. 6, j \in 1 .. 6 : c[i][1] = c[j][1] => i = j
    BY <1>2
  <2>2. \A i \in 7 .. 12, j \in 7 .. 12 : c[i][1] = c[j][1] => i = j
    BY <1>3
  <2>3. \A i \in 1 .. 6, j \in 7 .. 12 : c[i][1] # c[j][1]
    BY <1>2, <1>3
  <2>4. \A i \in 1 .. 12, j \in 1 .. 12 : c[i][1] = c[j][1] => i = j
    BY <2>1, <2>2, <2>3
  <2> QED BY <1>1, <1>4, <2>4 DEF Carving
<1>6. GdnNames \cup {"normalized"} \subseteq Names(c)
  <2>1. ASSUME NEW i \in 1 .. 12
        PROVE  c[i][1] \in Names(c)
    BY <1>1 DEF Names
  <2> QED BY <1>2, <1>3, <2>1 DEF GdnNames
<1> QED BY <1>5, <1>6 DEF c

LEMMA PrefillAttentionFact ==
  /\ Carving(PrefillAttention)
  /\ AttentionNames \cup {"normalized", "y"} \subseteq Names(PrefillAttention)
<1> DEFINE c == PrefillAttention
<1>1. Len(c) = 7 /\ DOMAIN c = 1 .. 7
  BY DEF PrefillAttention
<1>2. /\ c[1] = <<"normalized", 10240>> /\ c[2] = <<"qg", 24576>> /\ c[3] = <<"k", 2048>>
      /\ c[4] = <<"v", 2048>> /\ c[5] = <<"q", 12288>> /\ c[6] = <<"g", 12288>>
      /\ c[7] = <<"y", 12288>>
  BY DEF PrefillAttention
<1> HIDE DEF c
<1>3. Carving(c)
  <2>1. \A i \in 1 .. 7 : c[i][2] \in Nat
    BY <1>2
  <2>2. \A i \in 1 .. 7, j \in 1 .. 7 : c[i][1] = c[j][1] => i = j
    BY <1>2
  <2> QED BY <1>1, <2>1, <2>2 DEF Carving
<1>4. AttentionNames \cup {"normalized", "y"} \subseteq Names(c)
  <2>1. ASSUME NEW i \in 1 .. 7
        PROVE  c[i][1] \in Names(c)
    BY <1>1 DEF Names
  <2> QED BY <1>2, <2>1 DEF AttentionNames
<1> QED BY <1>3, <1>4 DEF c

EngineNames == {"weight_tile", "accum_a", "accum_b", "normalized", "swiglu", "library"}

LEMMA EngineFact ==
  /\ Carving(Engine) /\ EngineNames \subseteq Names(Engine)
  /\ Carved(Engine, "weight_tile").bytes = 17825792
  /\ Carved(Engine, "accum_a").bytes = 35651584
  /\ Carved(Engine, "accum_b").bytes = 35651584
  /\ Carved(Engine, "normalized").bytes = 5242880
  /\ Carved(Engine, "swiglu").bytes = 17825792
  /\ Carved(Engine, "library").bytes = 4194304
<1> DEFINE c == Engine
<1>1. Len(c) = 6 /\ DOMAIN c = 1 .. 6
  BY DEF Engine
<1>2. /\ c[1] = <<"weight_tile", 17825792>> /\ c[2] = <<"accum_a", 35651584>>
      /\ c[3] = <<"accum_b", 35651584>> /\ c[4] = <<"normalized", 5242880>>
      /\ c[5] = <<"swiglu", 17825792>> /\ c[6] = <<"library", 4194304>>
  BY DEF Engine, TokenCapacity
<1> HIDE DEF c
<1>3. Carving(c)
  <2>1. \A i \in 1 .. 6 : c[i][2] \in Nat
    BY <1>2
  <2>2. \A i \in 1 .. 6, j \in 1 .. 6 : c[i][1] = c[j][1] => i = j
    BY <1>2
  <2> QED BY <1>1, <2>1, <2>2 DEF Carving
<1>4. EngineNames \subseteq Names(c)
  <2>1. ASSUME NEW i \in 1 .. 6
        PROVE  c[i][1] \in Names(c)
    BY <1>1 DEF Names
  <2> QED BY <1>2, <2>1 DEF EngineNames
<1>5. \A i \in 1 .. 6 : Carved(c, c[i][1]).bytes = c[i][2]
  <2>1. ASSUME NEW i \in DOMAIN c
        PROVE  Carved(c, c[i][1]).bytes = c[i][2]
    BY <1>3, NextRegion
  <2> QED BY <1>1, <2>1
<1>6. /\ Carved(c, "weight_tile").bytes = 17825792
      /\ Carved(c, "accum_a").bytes = 35651584
      /\ Carved(c, "accum_b").bytes = 35651584
      /\ Carved(c, "normalized").bytes = 5242880
      /\ Carved(c, "swiglu").bytes = 17825792
      /\ Carved(c, "library").bytes = 4194304
  BY <1>2, <1>5
<1> QED BY <1>3, <1>4, <1>6 DEF c

RowBuffers == {"residual_h", "residual_h_mid", "next_h"}

Units == [kind : {"decode", "prefill"}, rows : 1 .. TokenCapacity,
          mixer : {"plain", "fp8"}, mlp : {"bounded", "nvfp4", "q8"}]

\* A unit has begun on the scratch of a session.
Ready == /\ PlanInv /\ planning = "planned"
         /\ \E capacity \in KvCapacities : requests = V0Requests(TokenCapacity, capacity)
         /\ unit \in Units /\ (unit.kind = "decode" => Rows = 1)
         /\ {residual, mid, next} \subseteq RowBuffers
         /\ mid # residual /\ mid # next /\ (unit.kind = "prefill" => residual # next)
         /\ layer \in 0 .. Layers

\* An operand lies inside its buffer and inside its scratch request.
Good(o) == /\ o.view.first \in Nat /\ o.view.last \in Nat
           /\ o.view.last <= Allocated(o.view.buffer)
           /\ o.view.buffer = "scratch" =>
                 /\ o.view.slot \in 1 .. 5
                 /\ Offset(o.view.slot) <= o.view.first
                 /\ o.view.last <= Offset(o.view.slot) + requests[o.view.slot].bytes

Far(o, p) == ~Overlap(o.view, p.view)

\* The stage that writes a quantity to scratch.
StageOf(quantity) == CASE quantity = "mixer_input" -> LayerNorm
                       [] quantity = "mlp_input" -> MlpNorm
                       [] quantity = "head_input" -> FinalNorm
                       [] quantity = "swiglu" -> MlpSwiglu
                       [] quantity = "logits" -> LmHead
                       [] OTHER -> Mixer

Covered(slot, from, to) ==
    \E interval \in requests[slot].live : interval.first <= from /\ to <= interval.last

LEMMA UnitFact ==
  ASSUME Ready
  PROVE  /\ Rows \in 1 .. 512 /\ unit.kind \in {"decode", "prefill"}
         /\ unit.kind = "decode" => Rows = 1
         /\ Padded(Rows) \in Rows .. 512
<1>1. Rows \in 1 .. 512 /\ unit.kind \in {"decode", "prefill"}
      /\ (unit.kind = "decode" => Rows = 1)
  BY DEF Ready, Units, TokenCapacity, Rows
<1>2. Padded(Rows) \in Rows .. 512
  BY <1>1 DEF Padded
<1> QED BY <1>1, <1>2

\* The requests of v0_scratch_requests.
LEMMA RequestsFact ==
  ASSUME Ready
  PROVE  /\ requests[1].live = {Live(1, 2), Live(4, 5), Live(7, 8)}
         /\ requests[2].live = {Live(2, 3)} /\ requests[3].live = {Live(2, 3)}
         /\ requests[4].live = {Live(5, 6)} /\ requests[5].live = {Live(8, 8)}
         /\ requests[1].group = 0 /\ DOMAIN requests = 1 .. 5
<1>1. PICK capacity \in KvCapacities : requests = V0Requests(TokenCapacity, capacity)
  BY DEF Ready
<1> QED BY <1>1, SMT DEF V0Requests

\* How many bytes they ask for.
LEMMA SizesFact ==
  ASSUME Ready
  PROVE  /\ requests[1].bytes = 512 * 10240 /\ requests[2].bytes = 512 * 107264
         /\ requests[3].bytes \in Nat /\ requests[3].bytes >= 78016
         /\ requests[4].bytes = 512 * 34816 /\ requests[5].bytes = 512 * 993280
<1>1. PICK capacity \in KvCapacities : requests = V0Requests(TokenCapacity, capacity)
  BY DEF Ready
<1>2. capacity \in Nat
  BY FlowAssumption
<1>3. AttentionBytes(capacity) \in Nat /\ AttentionBytes(capacity) >= 78016
  BY <1>2, SMT DEF AttentionBytes
<1> QED BY <1>1, <1>3, SMT DEF V0Requests, TokenCapacity

\* Where the slots are, and in which stages they are live.
LEMMA SlotsFact ==
  ASSUME Ready
  PROVE  /\ total \in Nat
         /\ \A s \in 1 .. 5 : /\ Offset(s) \in Nat /\ requests[s].bytes \in Nat
                              /\ Offset(s) + requests[s].bytes <= total
         /\ \A s \in 2 .. 5 : \/ Offset(1) + requests[1].bytes <= Offset(s)
                              \/ Offset(s) + requests[s].bytes <= Offset(1)
<1>1. PlanInv /\ PlanTypeOK /\ planning = "planned" /\ MaxWord \in Nat
  BY RequestFact DEF Ready, PlanInv
<1>2. total \in Nat
  BY <1>1, PlacedFact
<1>3. ASSUME NEW s \in 1 .. 5
      PROVE  /\ Offset(s) \in Nat /\ Offset(s) + requests[s].bytes <= total
             /\ requests[s].bytes \in Nat /\ requests[s].bytes # 0
  <2>1. s \in DOMAIN requests
    BY RequestsFact
  <2>2. Offset(s) + requests[s].bytes <= total
    BY <1>1, <2>1, Fits DEF PlanFits
  <2>3. Offset(s) \in Nat
    BY <1>1, <2>1, OffsetFact, PlacedFact
  <2>4. requests[s].bytes \in Nat /\ requests[s].bytes # 0
    BY <1>1, <2>1, RequestFact DEF PlanInv, Valid
  <2> QED BY <2>2, <2>3, <2>4
<1>4. ASSUME NEW s \in 2 .. 5
      PROVE  \/ Offset(1) + requests[1].bytes <= Offset(s)
             \/ Offset(s) + requests[s].bytes <= Offset(1)
  <2>1. ~Together(1, s) /\ 1 \in DOMAIN requests /\ s \in DOMAIN requests
    BY RequestsFact DEF Together
  <2>2. LiveConflict(requests[1].live, requests[s].live)
    <3>1. PICK a \in requests[1].live, b \in requests[s].live : IntervalsOverlap(a, b)
      <4>1. /\ {Live(1, 2), Live(4, 5), Live(7, 8)} \subseteq requests[1].live
            /\ Live(2, 3) \in requests[2].live /\ Live(2, 3) \in requests[3].live
            /\ Live(5, 6) \in requests[4].live /\ Live(8, 8) \in requests[5].live
        BY RequestsFact
      <4>2. /\ IntervalsOverlap(Live(1, 2), Live(2, 3))
            /\ IntervalsOverlap(Live(4, 5), Live(5, 6))
            /\ IntervalsOverlap(Live(7, 8), Live(8, 8))
        BY DEF IntervalsOverlap, Live
      <4> QED BY <4>1, <4>2
    <3> QED BY <3>1 DEF LiveConflict
  <2>3. ~RangesOverlap(Offset(1), Offset(1) + requests[1].bytes,
                       Offset(s), Offset(s) + requests[s].bytes)
    BY <1>1, <2>1, <2>2, KeepsApart DEF LiveRequestsKeepApart
  <2> QED BY <1>3, <2>3 DEF RangesOverlap
<1> QED BY <1>2, <1>3, <1>4

LEMMA StagesFact ==
  ASSUME Ready
  PROVE  /\ Covered(1, LayerNorm, LayerNorm) /\ Covered(1, LayerNorm, Mixer)
         /\ Covered(1, MlpNorm, MlpNorm) /\ Covered(1, MlpNorm, MlpSwiglu)
         /\ Covered(1, FinalNorm, FinalNorm) /\ Covered(1, FinalNorm, LmHead)
         /\ \A s \in {2, 3} : Covered(s, Mixer, Mixer) /\ Covered(s, Mixer, MixerOutput)
         /\ Covered(4, MlpSwiglu, MlpSwiglu) /\ Covered(4, MlpSwiglu, MlpDown)
         /\ Covered(5, LmHead, LmHead)
<1> USE DEF Covered, Live
<1>1. Covered(1, 1, 1) /\ Covered(1, 1, 2) /\ Covered(1, 4, 4) /\ Covered(1, 4, 5)
      /\ Covered(1, 7, 7) /\ Covered(1, 7, 8)
  <2>1. requests[1].live = {Live(1, 2), Live(4, 5), Live(7, 8)}
    BY RequestsFact
  <2>2. Live(1, 2) \in requests[1].live /\ Live(4, 5) \in requests[1].live
        /\ Live(7, 8) \in requests[1].live
    BY <2>1
  <2> QED BY <2>2
<1>2. \A s \in {2, 3} : Covered(s, 2, 2) /\ Covered(s, 2, 3)
  <2>1. Live(2, 3) \in requests[2].live /\ Live(2, 3) \in requests[3].live
    BY RequestsFact
  <2> QED BY <2>1
<1>3. Covered(4, 5, 5) /\ Covered(4, 5, 6) /\ Covered(5, 8, 8)
  <2>1. Live(5, 6) \in requests[4].live /\ Live(8, 8) \in requests[5].live
    BY RequestsFact
  <2> QED BY <2>1
<1> HIDE DEF Covered
<1> QED BY <1>1, <1>2, <1>3 DEF LayerNorm, Mixer, MixerOutput, MlpNorm, MlpSwiglu, MlpDown,
                              FinalNorm, LmHead

\* Operands of different buffers, or of slots that are live together.
LEMMA ZonesApart ==
  ASSUME Ready, NEW o, NEW p, Good(o), Good(p),
         \/ o.view.buffer # p.view.buffer
         \/ /\ o.view.buffer = "scratch" /\ p.view.buffer = "scratch"
            /\ \/ o.view.slot = 1 /\ p.view.slot # 1
               \/ o.view.slot # 1 /\ p.view.slot = 1
  PROVE  Far(o, p)
<1>1. CASE o.view.buffer # p.view.buffer
  BY <1>1 DEF Far, Overlap
<1>2. CASE o.view.buffer = "scratch" /\ p.view.buffer = "scratch"
           /\ (o.view.slot = 1 /\ p.view.slot # 1)
  <2>1. p.view.slot \in 2 .. 5
    BY <1>2 DEF Good
  <2>2. Offset(1) \in Nat /\ Offset(p.view.slot) \in Nat
    BY <2>1, SlotsFact
  <2>3. /\ Offset(1) <= o.view.first /\ o.view.last <= Offset(1) + requests[1].bytes
        /\ Offset(p.view.slot) <= p.view.first
        /\ p.view.last <= Offset(p.view.slot) + requests[p.view.slot].bytes
        /\ o.view.first \in Nat /\ o.view.last \in Nat
        /\ p.view.first \in Nat /\ p.view.last \in Nat
    BY <1>2 DEF Good
  <2>4. requests[1].bytes \in Nat /\ requests[p.view.slot].bytes \in Nat
    BY <2>1, SlotsFact
  <2>5. \/ Offset(1) + requests[1].bytes <= Offset(p.view.slot)
        \/ Offset(p.view.slot) + requests[p.view.slot].bytes <= Offset(1)
    BY <2>1, SlotsFact
  <2> QED BY <2>2, <2>3, <2>4, <2>5 DEF Far, Overlap, RangesOverlap
<1>3. CASE o.view.buffer = "scratch" /\ p.view.buffer = "scratch"
           /\ (o.view.slot # 1 /\ p.view.slot = 1)
  <2>1. o.view.slot \in 2 .. 5
    BY <1>3 DEF Good
  <2>2. Offset(1) \in Nat /\ Offset(o.view.slot) \in Nat
    BY <2>1, SlotsFact
  <2>3. /\ Offset(1) <= p.view.first /\ p.view.last <= Offset(1) + requests[1].bytes
        /\ Offset(o.view.slot) <= o.view.first
        /\ o.view.last <= Offset(o.view.slot) + requests[o.view.slot].bytes
        /\ o.view.first \in Nat /\ o.view.last \in Nat
        /\ p.view.first \in Nat /\ p.view.last \in Nat
    BY <1>3 DEF Good
  <2>4. requests[1].bytes \in Nat /\ requests[o.view.slot].bytes \in Nat
    BY <2>1, SlotsFact
  <2>5. \/ Offset(1) + requests[1].bytes <= Offset(o.view.slot)
        \/ Offset(o.view.slot) + requests[o.view.slot].bytes <= Offset(1)
    BY <2>1, SlotsFact
  <2> QED BY <2>2, <2>3, <2>4, <2>5 DEF Far, Overlap, RangesOverlap
<1> QED BY <1>1, <1>2, <1>3

-----------------------------------------------------------------------------
\* The operands, one family after the other: each lies where it should, in the
\* buffer it is named after, and apart from the others of its family.
LEMMA RowsFact ==
  ASSUME Ready
  PROVE  /\ Good(Hidden) /\ Hidden.view.buffer = residual
         /\ Good(Mixed) /\ Mixed.view.buffer = mid
         /\ Good(NextHidden) /\ NextHidden.view.buffer = next
<1>1. ASSUME NEW buffer \in RowBuffers, NEW quantity
      PROVE  Good(RowsOf(buffer, quantity)) /\ RowsOf(buffer, quantity).view.buffer = buffer
  <2>1. Allocated(buffer) = 512 * 20480 /\ buffer # "scratch"
    BY SMT DEF Allocated, RowBuffers, TokenCapacity
  <2>2. Rows \in 1 .. 512
    BY UnitFact
  <2>3. RowsOf(buffer, quantity).view = [buffer |-> buffer, slot |-> 0, first |-> 0,
                                         last |-> 0 + Rows * 20480]
    BY DEF RowsOf, Holding, View
  <2> QED BY <2>1, <2>2, <2>3, SMT DEF Good
<1>2. residual \in RowBuffers /\ mid \in RowBuffers /\ next \in RowBuffers
  BY DEF Ready
<1>3. NextHidden.view = RowsOf(next, "hidden").view
  BY DEF NextHidden, RowsOf, Holding
<1>4. Good(NextHidden) /\ NextHidden.view.buffer = next
  BY <1>1, <1>2, <1>3 DEF Good
<1> QED BY <1>1, <1>2, <1>4 DEF Hidden, Mixed

States == {"conv_history", "gdn_s", "kv"}

LEMMA PersistentFact ==
  ASSUME Ready, layer # Layers, NEW buffer \in States, NEW version
  PROVE  Good(Persistent(buffer, version)) /\ Persistent(buffer, version).view.buffer = buffer
<1>1. Allocated(buffer) = Layers /\ buffer # "scratch"
  BY DEF Allocated, States
<1>2. layer \in Nat /\ layer + 1 <= Layers
  BY FlowAssumption DEF Ready
<1>3. Persistent(buffer, version).view = [buffer |-> buffer, slot |-> 0, first |-> layer,
                                          last |-> layer + 1]
  BY DEF Persistent, Holding, View
<1> QED BY <1>1, <1>2, <1>3 DEF Good

\* Bytes of a scratch request.
LEMMA ScratchFact ==
  ASSUME Ready, NEW slot \in 1 .. 5, NEW first \in Nat, NEW bytes \in Nat,
         first + bytes <= requests[slot].bytes, NEW quantity
  PROVE  /\ Good(Holding(Scratch(slot, first, bytes), quantity))
         /\ Holding(Scratch(slot, first, bytes), quantity).view.buffer = "scratch"
         /\ Holding(Scratch(slot, first, bytes), quantity).view.slot = slot
<1> DEFINE o == Holding(Scratch(slot, first, bytes), quantity)
<1>1. o.view = [buffer |-> "scratch", slot |-> slot, first |-> Offset(slot) + first,
                last |-> Offset(slot) + first + bytes]
  BY DEF Holding, Scratch, View
<1>2. Allocated("scratch") = total
  BY DEF Allocated
<1>3. /\ Offset(slot) \in Nat /\ requests[slot].bytes \in Nat
      /\ Offset(slot) + requests[slot].bytes <= total /\ total \in Nat
  BY SlotsFact
<1> QED BY <1>1, <1>2, <1>3 DEF Good

LEMMA NormalizedFact ==
  ASSUME Ready, NEW quantity
  PROVE  /\ Good(Normalized(quantity)) /\ Normalized(quantity).view.buffer = "scratch"
         /\ Normalized(quantity).view.slot = 1 /\ Normalized(quantity).value[1] = quantity
<1>1. 1 \in 1 .. 5 /\ 0 \in Nat /\ 10240 \in Nat /\ 0 + 10240 <= requests[1].bytes
  BY SizesFact, SMT
<1>2. Normalized(quantity) = Holding(Scratch(1, 0, 10240), quantity)
  BY DEF Normalized
<1>3. Normalized(quantity).value[1] = quantity
  BY DEF Normalized, Holding
<1> QED BY <1>1, <1>2, <1>3, ScratchFact, SMT

\* The buffer of the intermediate values of a mixer.
GdnBuffer == IF unit.kind = "decode" THEN "scratch" ELSE "prefill_gdn"
AttentionBuffer == IF unit.kind = "decode" THEN "scratch" ELSE "prefill_attention"

\* A region of a workspace that is carved for TokenCapacity rows.
LEMMA WorkspaceFact ==
  ASSUME Ready, NEW c, Carving(c), NEW m \in Names(c), NEW n \in Names(c), NEW buffer,
         buffer # "scratch", Allocated(buffer) = TokenCapacity * CarvedBytes(c),
         NEW o, NEW p,
         o.view = View(buffer, 0, Carved(c, m).first * TokenCapacity, Carved(c, m).bytes * Rows),
         p.view = View(buffer, 0, Carved(c, n).first * TokenCapacity, Carved(c, n).bytes * Rows)
  PROVE  Good(o) /\ o.view.buffer = buffer /\ (m # n => Far(o, p))
<1>1. PICK a \in Nat, b \in Nat, d \in Nat, e \in Nat, t \in Nat :
         /\ Carved(c, m).first = a /\ Carved(c, m).bytes = b
         /\ Carved(c, n).first = d /\ Carved(c, n).bytes = e
         /\ CarvedBytes(c) = t
         /\ m # n => a + b <= d \/ d + e <= a
         /\ a + b <= t
  <2>1. /\ Carved(c, m).first \in Nat /\ Carved(c, m).bytes \in Nat
        /\ Carved(c, n).first \in Nat /\ Carved(c, n).bytes \in Nat
        /\ CarvedBytes(c) \in Nat
    BY RegionFact
  <2> QED BY <2>1, RegionFact
<1>2. PICK k \in 1 .. 512 : Rows = k
  BY UnitFact
<1>3. b * k \in Nat /\ b * k <= b * 512 /\ e * k \in Nat /\ e * k <= e * 512
  <2>1. ASSUME NEW x \in Nat
        PROVE  x * k \in Nat /\ x * k <= x * 512
    <3>1. x * k \in Nat /\ x * (512 - k) \in Nat
      BY SMT
    <3>2. x * 512 = x * k + x * (512 - k)
      BY SMT
    <3> QED BY <3>1, <3>2, SMT
  <2> QED BY <2>1
<1>4. /\ o.view.buffer = buffer /\ p.view.buffer = buffer
      /\ o.view.first = a * 512 /\ o.view.last = a * 512 + b * k
      /\ p.view.first = d * 512 /\ p.view.last = d * 512 + e * k
  BY <1>1, <1>2, SMT DEF View, TokenCapacity
<1>5. a * 512 + b * k <= 512 * t
  BY <1>1, <1>3, SMT
<1>6. Good(o)
  BY <1>1, <1>3, <1>4, <1>5, SMT DEF Good, TokenCapacity
<1>7. ASSUME m # n PROVE Far(o, p)
  BY <1>1, <1>3, <1>4, <1>7, SMT DEF Far, Overlap, RangesOverlap
<1> QED BY <1>4, <1>6, <1>7

LEMMA GdnFact ==
  ASSUME Ready, NEW m \in GdnNames, NEW n \in GdnNames
  PROVE  /\ Good(Gdn(m)) /\ Gdn(m).view.buffer = GdnBuffer /\ Gdn(m).value[1] = m
         /\ GdnBuffer = "scratch" => Gdn(m).view.slot = 2
         /\ m # n => Far(Gdn(m), Gdn(n))
<1>1. CASE unit.kind = "decode"
  <2> DEFINE r == Carved(GdnScratch, m)
             s == Carved(GdnScratch, n)
  <2>1. /\ Gdn(m) = Holding(Scratch(2, r.first, r.bytes), m)
        /\ Gdn(n) = Holding(Scratch(2, s.first, s.bytes), n)
    BY <1>1 DEF Gdn
  <2>2. /\ r.first \in Nat /\ r.bytes \in Nat /\ s.first \in Nat /\ s.bytes \in Nat
        /\ m # n => r.first + r.bytes <= s.first \/ s.first + s.bytes <= r.first
        /\ r.first + r.bytes <= 107264
    BY GdnScratchFact, RegionFact, SMT
  <2> HIDE DEF r, s
  <2>3. 2 \in 1 .. 5 /\ r.first + r.bytes <= requests[2].bytes
    BY <2>2, SizesFact, SMT
  <2>4. Good(Gdn(m)) /\ Gdn(m).view.buffer = "scratch" /\ Gdn(m).view.slot = 2
    BY <2>1, <2>2, <2>3, ScratchFact, SMT
  <2>5. Offset(2) \in Nat
    BY SlotsFact, SMT
  <2>6. m # n => Far(Gdn(m), Gdn(n))
    BY <2>1, <2>2, <2>5, SMT DEF Far, Overlap, RangesOverlap, Holding, Scratch, View
  <2> QED BY <1>1, <2>1, <2>4, <2>6 DEF GdnBuffer, Holding
<1>2. CASE unit.kind # "decode"
  <2>1. m \in Names(PrefillGdn) /\ n \in Names(PrefillGdn) /\ Carving(PrefillGdn)
    BY PrefillGdnFact
  <2>2. /\ Allocated("prefill_gdn") = TokenCapacity * CarvedBytes(PrefillGdn)
        /\ "prefill_gdn" # "scratch"
    BY SMT DEF Allocated
  <2>3. ASSUME NEW k
        PROVE  Gdn(k) = Holding(View("prefill_gdn", 0,
                                     Carved(PrefillGdn, k).first * TokenCapacity,
                                     Carved(PrefillGdn, k).bytes * Rows), k)
    BY <1>2 DEF Gdn
  <2>4. ASSUME NEW k
        PROVE  /\ Gdn(k).view = View("prefill_gdn", 0,
                                     Carved(PrefillGdn, k).first * TokenCapacity,
                                     Carved(PrefillGdn, k).bytes * Rows)
               /\ Gdn(k).value[1] = k
    BY <2>3 DEF Holding
  <2>5. Good(Gdn(m)) /\ Gdn(m).view.buffer = "prefill_gdn" /\ (m # n => Far(Gdn(m), Gdn(n)))
    BY <2>1, <2>2, <2>4, WorkspaceFact
  <2> QED BY <1>2, <2>4, <2>5 DEF GdnBuffer
<1> QED BY <1>1, <1>2

\* The row that a prefill normalizes for projections it does not pack.
LEMMA PrefillGdnNormalized ==
  ASSUME Ready, unit.kind = "prefill"
  PROVE  /\ Good(Gdn("normalized")) /\ Gdn("normalized").view.buffer = "prefill_gdn"
         /\ \A n \in GdnNames : Far(Gdn("normalized"), Gdn(n)) /\ Far(Gdn(n), Gdn("normalized"))
<1>1. ASSUME NEW k
      PROVE  Gdn(k).view = View("prefill_gdn", 0, Carved(PrefillGdn, k).first * TokenCapacity,
                                Carved(PrefillGdn, k).bytes * Rows)
  BY DEF Gdn, Holding
<1>2. /\ Allocated("prefill_gdn") = TokenCapacity * CarvedBytes(PrefillGdn)
      /\ "prefill_gdn" # "scratch"
  BY SMT DEF Allocated
<1>3. "normalized" \in Names(PrefillGdn) /\ Carving(PrefillGdn)
  BY PrefillGdnFact
<1>4. ASSUME NEW n \in GdnNames
      PROVE  n \in Names(PrefillGdn) /\ n # "normalized"
  BY PrefillGdnFact DEF GdnNames
<1>5. ASSUME NEW n \in GdnNames
      PROVE  Far(Gdn("normalized"), Gdn(n)) /\ Far(Gdn(n), Gdn("normalized"))
  BY <1>1, <1>2, <1>3, <1>4, WorkspaceFact
<1>6. Good(Gdn("normalized")) /\ Gdn("normalized").view.buffer = "prefill_gdn"
  BY <1>1, <1>2, <1>3, WorkspaceFact
<1> QED BY <1>5, <1>6

\* v is the tail of the convolved row: apart from what that row is apart from.
LEMMA GdnVFact ==
  ASSUME Ready
  PROVE  /\ Good(GdnV) /\ GdnV.view.buffer = GdnBuffer /\ GdnV.value[1] = "convolved"
         /\ GdnBuffer = "scratch" => GdnV.view.slot = 2
         /\ \A m \in GdnNames \ {"convolved"} : Far(Gdn(m), GdnV)
<1> DEFINE o == Gdn("convolved")
<1>1. "convolved" \in GdnNames
  BY DEF GdnNames
<1>2. Good(o) /\ o.view.buffer = GdnBuffer /\ o.value[1] = "convolved"
      /\ (GdnBuffer = "scratch" => o.view.slot = 2)
  BY <1>1, GdnFact
<1>3. \A m \in GdnNames \ {"convolved"} : Far(Gdn(m), o) /\ Good(Gdn(m))
  BY <1>1, GdnFact
<1>4. CASE unit.kind = "decode"
  <2>1. o = [view |-> [buffer |-> "scratch", slot |-> 2,
                       first |-> o.view.first, last |-> o.view.last],
             value |-> <<"convolved", layer>>]
    BY <1>4 DEF Gdn, Holding, Scratch, View
  <2> HIDE DEF o
  <2>2. /\ GdnV.view.buffer = o.view.buffer /\ GdnV.view.slot = o.view.slot
        /\ GdnV.view.first = o.view.first + 8192 /\ GdnV.view.last = o.view.last
        /\ GdnV.value = o.value
    BY <1>4, <2>1 DEF GdnV, o
  <2>3. Good(GdnV)
    <3>1. o.view.slot \in 1 .. 5 /\ Offset(o.view.slot) \in Nat
      BY <1>2, <1>4, SlotsFact DEF GdnBuffer
    <3> QED BY <1>2, <2>2, <3>1 DEF Good
  <2>4. ASSUME NEW m \in GdnNames \ {"convolved"}
        PROVE  Far(Gdn(m), GdnV)
    <3>1. /\ Gdn(m).view.first \in Nat /\ Gdn(m).view.last \in Nat
          /\ o.view.first \in Nat /\ o.view.last \in Nat /\ Far(Gdn(m), o)
      BY <1>2, <1>3 DEF Good
    <3> QED BY <2>2, <3>1 DEF Far, Overlap, RangesOverlap
  <2> QED BY <1>2, <2>2, <2>3, <2>4
<1>5. CASE unit.kind # "decode"
  <2>1. GdnV = o
    BY <1>5 DEF GdnV
  <2> QED BY <1>2, <1>3, <2>1
<1> QED BY <1>4, <1>5

\* The merge of a decode puts y where q was.
Places(name) == IF unit.kind = "decode" /\ name = "y" THEN "q" ELSE name

LEMMA AttentionFact ==
  ASSUME Ready, NEW m \in AttentionNames \cup {"y"}, NEW n \in AttentionNames \cup {"y"}
  PROVE  /\ Good(Attention(m)) /\ Attention(m).view.buffer = AttentionBuffer
         /\ Attention(m).value[1] = m
         /\ AttentionBuffer = "scratch" => Attention(m).view.slot = 3
         /\ Places(m) # Places(n) => Far(Attention(m), Attention(n))
<1>1. CASE unit.kind = "decode"
  <2> DEFINE r == Carved(AttentionScratch, Places(m))
             s == Carved(AttentionScratch, Places(n))
  <2>1. /\ Attention(m) = Holding(Scratch(3, r.first, r.bytes), m)
        /\ Attention(n) = Holding(Scratch(3, s.first, s.bytes), n)
    BY <1>1 DEF Attention, Places
  <2>2. /\ Carving(AttentionScratch) /\ AttentionNames \subseteq Names(AttentionScratch)
        /\ CarvedBytes(AttentionScratch) = requests[3].bytes
    BY SizesFact, AttentionScratchFact, SMT
  <2>3. Places(m) \in AttentionNames /\ Places(n) \in AttentionNames
    BY <1>1 DEF Places, AttentionNames
  <2>4. /\ r.first \in Nat /\ r.bytes \in Nat /\ s.first \in Nat /\ s.bytes \in Nat
        /\ Places(m) # Places(n) => \/ r.first + r.bytes <= s.first
                                    \/ s.first + s.bytes <= r.first
        /\ r.first + r.bytes <= requests[3].bytes
    <3>1. Places(m) \in Names(AttentionScratch) /\ Places(n) \in Names(AttentionScratch)
      BY <2>2, <2>3
    <3>2. CarvedBytes(AttentionScratch) = requests[3].bytes
      BY <2>2
    <3> HIDE DEF Places
    <3> QED BY <2>2, <3>1, <3>2, RegionFact
  <2> HIDE DEF r, s
  <2>5. Good(Attention(m)) /\ Attention(m).view.buffer = "scratch" /\ Attention(m).view.slot = 3
    BY <2>1, <2>4, ScratchFact
  <2>6. Offset(3) \in Nat
    BY SlotsFact, SMT
  <2>7. Places(m) # Places(n) => Far(Attention(m), Attention(n))
    BY <2>1, <2>4, <2>6, SMT DEF Far, Overlap, RangesOverlap, Holding, Scratch, View
  <2> QED BY <1>1, <2>1, <2>5, <2>7 DEF AttentionBuffer, Holding
<1>2. CASE unit.kind # "decode"
  <2>1. /\ m \in Names(PrefillAttention) /\ n \in Names(PrefillAttention)
        /\ Carving(PrefillAttention)
    BY PrefillAttentionFact
  <2>2. /\ Allocated("prefill_attention") = TokenCapacity * CarvedBytes(PrefillAttention)
        /\ "prefill_attention" # "scratch"
    BY SMT DEF Allocated
  <2>3. ASSUME NEW k
        PROVE  /\ Attention(k).view = View("prefill_attention", 0,
                                           Carved(PrefillAttention, k).first * TokenCapacity,
                                           Carved(PrefillAttention, k).bytes * Rows)
               /\ Attention(k).value[1] = k
    <3>1. Attention(k) = Holding(View("prefill_attention", 0,
                                      Carved(PrefillAttention, k).first * TokenCapacity,
                                      Carved(PrefillAttention, k).bytes * Rows), k)
      BY <1>2 DEF Attention
    <3> QED BY <3>1 DEF Holding
  <2>4. /\ Good(Attention(m)) /\ Attention(m).view.buffer = "prefill_attention"
        /\ m # n => Far(Attention(m), Attention(n))
    BY <2>1, <2>2, <2>3, WorkspaceFact
  <2> QED BY <1>2, <2>3, <2>4 DEF AttentionBuffer, Places
<1> QED BY <1>1, <1>2

\* The partials of a decode.
LEMMA PartialsFact ==
  ASSUME Ready, unit.kind = "decode"
  PROVE  /\ Good(Attention("partials")) /\ Attention("partials").view.buffer = "scratch"
         /\ Attention("partials").view.slot = 3 /\ Attention("partials").value[1] = "partials"
         /\ \A n \in AttentionNames \cup {"y"} : /\ Far(Attention("partials"), Attention(n))
                                                 /\ Far(Attention(n), Attention("partials"))
<1> DEFINE r == Carved(AttentionScratch, "partials")
<1>1. Attention("partials") = Holding(Scratch(3, r.first, r.bytes), "partials")
  BY DEF Attention
<1>2. /\ Carving(AttentionScratch) /\ AttentionNames \subseteq Names(AttentionScratch)
      /\ "partials" \in Names(AttentionScratch)
      /\ CarvedBytes(AttentionScratch) = requests[3].bytes
  BY SizesFact, AttentionScratchFact, SMT
<1>3. r.first \in Nat /\ r.bytes \in Nat /\ r.first + r.bytes <= requests[3].bytes
  BY <1>2, RegionFact
<1>4. /\ Good(Attention("partials")) /\ Attention("partials").view.buffer = "scratch"
      /\ Attention("partials").view.slot = 3
  <2> HIDE DEF r
  <2> QED BY <1>1, <1>3, ScratchFact
<1>5. Offset(3) \in Nat
  BY SlotsFact, SMT
<1>6. ASSUME NEW n \in AttentionNames \cup {"y"}
      PROVE  /\ Far(Attention("partials"), Attention(n))
             /\ Far(Attention(n), Attention("partials"))
  <2> DEFINE s == Carved(AttentionScratch, Places(n))
  <2>1. Attention(n) = Holding(Scratch(3, s.first, s.bytes), n)
    BY DEF Attention, Places
  <2>2. Places(n) \in Names(AttentionScratch) /\ Places(n) # "partials"
    BY <1>2 DEF Places, AttentionNames
  <2>3. /\ s.first \in Nat /\ s.bytes \in Nat
        /\ r.first + r.bytes <= s.first \/ s.first + s.bytes <= r.first
    <3> HIDE DEF Places
    <3> QED BY <1>2, <2>2, RegionFact
  <2> HIDE DEF r, s
  <2> QED BY <1>1, <1>3, <1>5, <2>1, <2>3, SMT
          DEF Far, Overlap, RangesOverlap, Holding, Scratch, View
<1> QED BY <1>1, <1>4, <1>6 DEF Holding

\* An operand inside a region of the prefill engine's workspace.
InEngine(o, m) ==
    /\ o.view.buffer = "engine" /\ o.view.first \in Nat /\ o.view.last \in Nat
    /\ Carved(Engine, m).first <= o.view.first
    /\ o.view.last <= Carved(Engine, m).first + Carved(Engine, m).bytes

LEMMA EngineApart ==
  ASSUME NEW m \in EngineNames, NEW o, InEngine(o, m)
  PROVE  /\ Good(o) /\ o.view.buffer = "engine"
         /\ \A n \in EngineNames \ {m} : \A p : InEngine(p, n) => Far(o, p)
<1>1. Allocated("engine") = CarvedBytes(Engine)
  BY SMT DEF Allocated
<1>2. Carving(Engine) /\ \A n \in EngineNames : n \in Names(Engine)
  BY EngineFact, SMT
<1>3. /\ Carved(Engine, m).first \in Nat /\ Carved(Engine, m).bytes \in Nat
      /\ Carved(Engine, m).first + Carved(Engine, m).bytes <= CarvedBytes(Engine)
      /\ CarvedBytes(Engine) \in Nat
  BY <1>2, RegionFact
<1>4. Good(o)
  BY <1>1, <1>3, SMT DEF Good, InEngine
<1>5. ASSUME NEW n \in EngineNames \ {m}, NEW p, InEngine(p, n)
      PROVE  Far(o, p)
  <2>1. n \in Names(Engine) /\ m \in Names(Engine) /\ m # n
    BY <1>2
  <2>2. /\ Carved(Engine, n).first \in Nat /\ Carved(Engine, n).bytes \in Nat
        /\ \/ Carved(Engine, m).first + Carved(Engine, m).bytes <= Carved(Engine, n).first
           \/ Carved(Engine, n).first + Carved(Engine, n).bytes <= Carved(Engine, m).first
    BY <1>2, <2>1, RegionFact
  <2> QED BY <1>3, <1>5, <2>2, SMT DEF Far, Overlap, RangesOverlap, InEngine
<1> QED BY <1>4, <1>5 DEF InEngine

LEMMA EngineOperands ==
  ASSUME Ready, NEW role
  PROVE  /\ InEngine(WeightTile(role), "weight_tile")
         /\ InEngine(AccumA(role), "accum_a") /\ InEngine(AccumB(role), "accum_b")
         /\ InEngine(Library, "library")
         /\ InEngine(EngineAt("normalized", 0, Rows * 10240, role), "normalized")
         /\ InEngine(EngineAt("swiglu", 0, Rows * 34816, role), "swiglu")
         /\ \A o \in NvFp4Pack : InEngine(o, "weight_tile")
         /\ \A o, p \in NvFp4Pack : o # p => Far(o, p)
<1>1. PICK k \in 1 .. 512, d \in 1 .. 512 : Rows = k /\ Padded(Rows) = d
  <2>1. Rows \in 1 .. 512 /\ Padded(Rows) \in Rows .. 512
    BY UnitFact
  <2>2. Padded(Rows) \in 1 .. 512
    BY <2>1, SMT
  <2> QED BY <2>1, <2>2
<1>2. \A n \in EngineNames : Carved(Engine, n).first \in Nat
  <2>1. Carving(Engine) /\ \A n \in EngineNames : n \in Names(Engine)
    BY EngineFact, SMT
  <2> QED BY <2>1, RegionFact
<1>3. ASSUME NEW n \in EngineNames, NEW first \in Nat, NEW bytes \in Nat, NEW quantity,
             first + bytes <= Carved(Engine, n).bytes
      PROVE  InEngine(EngineAt(n, first, bytes, quantity), n)
  <2>1. EngineAt(n, first, bytes, quantity).view =
           [buffer |-> "engine", slot |-> 0, first |-> Carved(Engine, n).first + first,
            last |-> Carved(Engine, n).first + first + bytes]
    BY DEF EngineAt, Holding, View
  <2>2. Carved(Engine, n).first \in Nat /\ Carved(Engine, n).bytes \in Nat
    <3>1. Carving(Engine) /\ n \in Names(Engine)
      BY EngineFact, SMT
    <3> QED BY <3>1, RegionFact
  <2> QED BY <1>3, <2>1, <2>2, SMT DEF InEngine
<1>4. InEngine(WeightTile(role), "weight_tile")
  <2>1. 0 + 512 * 34816 <= Carved(Engine, "weight_tile").bytes /\ 512 * 34816 \in Nat
    BY EngineFact, SMT
  <2> QED BY <1>3, <2>1, SMT DEF WeightTile, EngineNames
<1>5. InEngine(AccumA(role), "accum_a") /\ InEngine(AccumB(role), "accum_b")
  <2>1. /\ 0 + k * 69632 <= Carved(Engine, "accum_a").bytes /\ k * 69632 \in Nat
        /\ 0 + k * 69632 <= Carved(Engine, "accum_b").bytes
    BY EngineFact, SMT
  <2> QED BY <1>1, <1>3, <2>1, SMT DEF AccumA, AccumB, EngineNames
<1>6. InEngine(Library, "library")
  <2>1. 0 + 4194304 <= Carved(Engine, "library").bytes
    BY EngineFact, SMT
  <2> QED BY <1>3, <2>1, SMT DEF Library, EngineNames
<1>7. InEngine(EngineAt("normalized", 0, Rows * 10240, role), "normalized")
  <2>1. 0 + k * 10240 <= Carved(Engine, "normalized").bytes /\ k * 10240 \in Nat
    BY EngineFact, SMT
  <2> QED BY <1>1, <1>3, <2>1, SMT DEF EngineNames
<1>8. InEngine(EngineAt("swiglu", 0, Rows * 34816, role), "swiglu")
  <2>1. 0 + k * 34816 <= Carved(Engine, "swiglu").bytes /\ k * 34816 \in Nat
    BY EngineFact, SMT
  <2> QED BY <1>1, <1>3, <2>1, SMT DEF EngineNames
<1> DEFINE codes == EngineAt("weight_tile", 0, Rows * 2560, "packed")
           scales == EngineAt("weight_tile", TokenCapacity * 2560, Padded(Rows) * 320, "packed")
<1>9. InEngine(codes, "weight_tile") /\ InEngine(scales, "weight_tile")
  <2>1. /\ 0 + k * 2560 <= Carved(Engine, "weight_tile").bytes /\ k * 2560 \in Nat
        /\ 512 * 2560 + d * 320 <= Carved(Engine, "weight_tile").bytes
        /\ d * 320 \in Nat /\ 512 * 2560 \in Nat
    BY EngineFact, SMT
  <2> QED BY <1>1, <1>3, <2>1, SMT DEF EngineNames, TokenCapacity
<1>10. Far(codes, scales) /\ Far(scales, codes)
  <2>1. Carved(Engine, "weight_tile").first \in Nat
    BY <1>2 DEF EngineNames
  <2> QED BY <1>1, <2>1, SMT DEF Far, Overlap, RangesOverlap, EngineAt, Holding, View,
                                 TokenCapacity
<1>11. NvFp4Pack = {codes, scales}
  BY DEF NvFp4Pack
<1> HIDE DEF codes, scales
<1> QED BY <1>4, <1>5, <1>6, <1>7, <1>8, <1>9, <1>10, <1>11

\* Rows packed for FP8 weights, and the sums of a projection of them.
\* Columns and rows of the projections with FP8 weights.
Widths == {10240, 6144, 12288, 1024, 5120}
Depths == {5120, 6144}

LEMMA ShapesFact == /\ 10240 \in Widths /\ 6144 \in Widths /\ 12288 \in Widths
                    /\ 1024 \in Widths /\ 5120 \in Widths
                    /\ 5120 \in Depths /\ 6144 \in Depths
  BY SMT DEF Widths, Depths

LEMMA Fp8Fact ==
  ASSUME Ready, NEW k \in Depths, NEW quantity
  PROVE  /\ \A o \in Fp8Pack(k, quantity) : Good(o) /\ o.view.buffer = "fp8"
         /\ \A o, p \in Fp8Pack(k, quantity) : o # p => Far(o, p)
         /\ \A n \in Widths : \A role :
               /\ Good(Fp8Sum(role, n)) /\ Fp8Sum(role, n).view.buffer = "fp8"
               /\ \A o \in Fp8Pack(k, quantity) : Far(Fp8Sum(role, n), o)
<1>1. PICK d \in 1 .. 512 : Padded(Rows) = d
  BY UnitFact, SMT
<1>2. Allocated("fp8") = 512 * (6144 + 192 + 49152)
  BY SMT DEF Allocated, Fp8Bytes, TokenCapacity
<1>3. /\ d * k \in Nat /\ d * k <= 512 * 6144
      /\ d * (k \div 128) * 4 \in Nat /\ d * (k \div 128) * 4 <= 512 * 192
  <2>1. k \div 128 \in Nat /\ k \div 128 <= 48
    BY SMT DEF Depths
  <2>2. d * (k \div 128) \in Nat /\ d * (k \div 128) <= d * 48
    BY <2>1, SMT
  <2>3. CASE k = 5120
    BY <2>2, <2>3, SMT
  <2>4. CASE k = 6144
    BY <2>2, <2>4, SMT
  <2> QED BY <2>3, <2>4 DEF Depths
<1> DEFINE codes == Holding(View("fp8", 0, 0, Padded(Rows) * k), quantity)
           scales == Holding(View("fp8", 0, TokenCapacity * 6144,
                                  Padded(Rows) * (k \div 128) * 4), quantity)
<1>4. /\ codes.view = [buffer |-> "fp8", slot |-> 0, first |-> 0, last |-> 0 + d * k]
      /\ scales.view = [buffer |-> "fp8", slot |-> 0, first |-> 512 * 6144,
                        last |-> 512 * 6144 + d * (k \div 128) * 4]
  BY <1>1, SMT DEF Holding, View, TokenCapacity
<1>5. Fp8Pack(k, quantity) = {codes, scales}
  BY DEF Fp8Pack
<1> HIDE DEF codes, scales
<1>6. /\ Good(codes) /\ Good(scales)
      /\ codes.view.buffer = "fp8" /\ scales.view.buffer = "fp8"
      /\ Far(codes, scales) /\ Far(scales, codes)
  BY <1>2, <1>3, <1>4, SMT DEF Good, Far, Overlap, RangesOverlap
<1>7. ASSUME NEW n \in Widths, NEW role
      PROVE  /\ Good(Fp8Sum(role, n)) /\ Fp8Sum(role, n).view.buffer = "fp8"
             /\ Far(Fp8Sum(role, n), codes) /\ Far(Fp8Sum(role, n), scales)
  <2>1. Fp8Sum(role, n).view = [buffer |-> "fp8", slot |-> 0, first |-> 512 * (6144 + 192),
                                last |-> 512 * (6144 + 192) + d * n * 4]
    BY <1>1, SMT DEF Fp8Sum, Holding, View, TokenCapacity
  <2>2. d * n * 4 \in Nat /\ d * n * 4 <= 512 * 49152
    BY SMT DEF Widths
  <2>3. Good(Fp8Sum(role, n)) /\ Fp8Sum(role, n).view.buffer = "fp8"
    BY <1>2, <2>1, <2>2, SMT DEF Good
  <2> QED BY <1>3, <1>4, <2>1, <2>2, <2>3, SMT DEF Far, Overlap, RangesOverlap
<1> QED BY <1>5, <1>6, <1>7

\* The Q8 MLP's workspace.
LEMMA Q8Fact ==
  ASSUME Ready, NEW k \in {5120, 17408}, NEW quantity
  PROVE  /\ \A o \in Q8Pack(k, quantity) : /\ Good(o) /\ o.view.buffer = "q8"
                                           /\ Far(o, Q8Gate) /\ Far(o, Q8Up)
                                           /\ Far(Q8Gate, o) /\ Far(Q8Up, o)
         /\ \A o, p \in Q8Pack(k, quantity) : o # p => Far(o, p)
         /\ Good(Q8Gate) /\ Q8Gate.view.buffer = "q8"
         /\ Good(Q8Up) /\ Q8Up.view.buffer = "q8"
<1>1. PICK d \in 1 .. 512 : Rows = d
  BY UnitFact, SMT
<1>2. Allocated("q8") = 512 * (17408 + 4352 + 139264) + 4
  BY SMT DEF Allocated, Q8Bytes, TokenCapacity
<1>3. PICK b \in Nat, e \in Nat : /\ d * k = b /\ b <= d * 17408
                                  /\ d * (k \div 32) * 4 = e /\ e <= d * 2176
  <2>1. k \div 32 \in Nat /\ k \div 32 <= 544
    BY SMT
  <2>2. d * (k \div 32) \in Nat /\ d * (k \div 32) <= d * 544
    BY <2>1, SMT
  <2>3. CASE k = 5120
    BY <2>2, <2>3, SMT
  <2>4. CASE k = 17408
    BY <2>2, <2>4, SMT
  <2> QED BY <2>3, <2>4
<1> DEFINE codes == Holding(View("q8", 0, 0, Rows * k), quantity)
           scales == Holding(View("q8", 0, Rows * 17408, Rows * (k \div 32) * 4), quantity)
           sums == Holding(View("q8", 0, Rows * (17408 + 2176), Rows * (k \div 32) * 4), quantity)
<1>4. /\ codes.view = [buffer |-> "q8", slot |-> 0, first |-> 0, last |-> 0 + b]
      /\ scales.view = [buffer |-> "q8", slot |-> 0, first |-> d * 17408, last |-> d * 17408 + e]
      /\ sums.view = [buffer |-> "q8", slot |-> 0, first |-> d * 19584, last |-> d * 19584 + e]
  BY <1>1, <1>3, SMT DEF Holding, View
<1>5. /\ Q8Gate.view = [buffer |-> "q8", slot |-> 0, first |-> d * 21760, last |-> d * 91392]
      /\ Q8Up.view = [buffer |-> "q8", slot |-> 0, first |-> d * 91392, last |-> d * 161024]
  BY <1>1, SMT DEF Q8Gate, Q8Up, Holding, View
<1>6. Q8Pack(k, quantity) = {codes, scales, sums}
  BY DEF Q8Pack
<1> HIDE DEF codes, scales, sums
<1>7. /\ Good(codes) /\ Good(scales) /\ Good(sums)
      /\ codes.view.buffer = "q8" /\ scales.view.buffer = "q8" /\ sums.view.buffer = "q8"
  BY <1>2, <1>3, <1>4, SMT DEF Good
<1>8. /\ Far(codes, scales) /\ Far(codes, sums) /\ Far(scales, sums)
      /\ Far(scales, codes) /\ Far(sums, codes) /\ Far(sums, scales)
  BY <1>3, <1>4, SMT DEF Far, Overlap, RangesOverlap
<1>9. /\ Good(Q8Gate) /\ Q8Gate.view.buffer = "q8" /\ Good(Q8Up) /\ Q8Up.view.buffer = "q8"
  BY <1>2, <1>5, SMT DEF Good
<1>10. \A o \in {codes, scales, sums} : /\ Far(o, Q8Gate) /\ Far(o, Q8Up)
                                        /\ Far(Q8Gate, o) /\ Far(Q8Up, o)
  <2>1. \A o \in {codes, scales, sums} :
           /\ o.view.buffer = "q8" /\ o.view.first \in Nat /\ o.view.last \in Nat
           /\ o.view.last <= d * 21760
    <3>1. /\ codes.view.first \in Nat /\ codes.view.last \in Nat /\ codes.view.last <= d * 21760
          /\ scales.view.first \in Nat /\ scales.view.last \in Nat /\ scales.view.last <= d * 21760
          /\ sums.view.first \in Nat /\ sums.view.last \in Nat /\ sums.view.last <= d * 21760
      <4>1. b \in Nat /\ e \in Nat /\ d \in 1 .. 512 /\ b <= d * 17408 /\ e <= d * 2176
        BY <1>3
      <4>2. codes.view.first \in Nat /\ codes.view.last \in Nat /\ codes.view.last <= d * 21760
        BY <1>4, <4>1, SMT
      <4>3. scales.view.first \in Nat /\ scales.view.last \in Nat /\ scales.view.last <= d * 21760
        BY <1>4, <4>1, SMT
      <4>4. sums.view.first \in Nat /\ sums.view.last \in Nat /\ sums.view.last <= d * 21760
        BY <1>4, <4>1, SMT
      <4> QED BY <4>2, <4>3, <4>4
    <3> QED BY <1>7, <3>1
  <2> QED BY <1>5, <2>1, SMT DEF Far, Overlap, RangesOverlap
<1> QED BY <1>6, <1>7, <1>8, <1>9, <1>10

-----------------------------------------------------------------------------
\* What the runs check of a kernel, without the contents of memory.
Written(o, stage) ==
    /\ Good(o)
    /\ o.view.buffer = "scratch" => /\ stage = StageOf(o.value[1])
                                    /\ Covered(o.view.slot, stage, stage)

Readable(o, stage) ==
    /\ Good(o)
    /\ o.view.buffer = "scratch" => Covered(o.view.slot, StageOf(o.value[1]), stage)

InPlace(w, read) == w.view = read.view /\ w.view.buffer \in {"conv_history", "gdn_s"}

Sound(kernel) ==
    /\ \A read \in kernel.reads : Readable(read, kernel.stage)
    /\ \A w \in kernel.writes :
          /\ Written(w, kernel.stage)
          /\ \A other \in kernel.writes \ {w} : Far(w, other)
          /\ \A read \in kernel.reads : Far(w, read) \/ InPlace(w, read)

AllSound(schedule) == \E T : schedule \in Seq(T) /\ \A kernel \in T : Sound(kernel)

LEMMA SoundKernel ==
  ASSUME NEW stage, NEW reads, NEW writes,
         \A read \in reads : Readable(read, stage),
         \A w \in writes : Written(w, stage),
         \A w, other \in writes : w # other => Far(w, other),
         \A w \in writes, read \in reads : Far(w, read) \/ InPlace(w, read)
  PROVE  Sound(Kernel(stage, reads, writes))
  BY DEF Sound, Kernel

LEMMA SoundConcat ==
  ASSUME NEW s, NEW t, AllSound(s), AllSound(t)
  PROVE  AllSound(s \o t)
<1>1. PICK S : s \in Seq(S) /\ \A kernel \in S : Sound(kernel)
  BY DEF AllSound
<1>2. PICK T : t \in Seq(T) /\ \A kernel \in T : Sound(kernel)
  BY DEF AllSound
<1>3. s \in Seq(S \cup T) /\ t \in Seq(S \cup T)
  BY <1>1, <1>2
<1>4. s \o t \in Seq(S \cup T)
  BY <1>3
<1> QED BY <1>1, <1>2, <1>4 DEF AllSound

LEMMA SoundAmong ==
  ASSUME NEW T, NEW schedule \in Seq(T), \A kernel \in T : Sound(kernel)
  PROVE  AllSound(schedule)
  BY DEF AllSound

LEMMA SoundNone == AllSound(<<>>)
<1> DEFINE T == {}
<1>1. <<>> \in Seq(T) /\ \A kernel \in T : Sound(kernel)
  OBVIOUS
<1> HIDE DEF T
<1> QED BY <1>1, SoundAmong

LEMMA Sound1 ==
  ASSUME NEW a, Sound(a)
  PROVE  AllSound(<<a>>)
<1> DEFINE T == {a}
<1>1. <<a>> \in Seq(T)
  OBVIOUS
<1>2. \A kernel \in T : Sound(kernel)
  OBVIOUS
<1> HIDE DEF T
<1> QED BY <1>1, <1>2, SoundAmong

LEMMA Sound2 ==
  ASSUME NEW a, NEW b, Sound(a), Sound(b)
  PROVE  AllSound(<<a, b>>)
<1> DEFINE T == {a, b}
<1>1. <<a, b>> \in Seq(T)
  OBVIOUS
<1>2. \A kernel \in T : Sound(kernel)
  OBVIOUS
<1> HIDE DEF T
<1> QED BY <1>1, <1>2, SoundAmong

LEMMA Sound3 ==
  ASSUME NEW a, NEW b, NEW c, Sound(a), Sound(b), Sound(c)
  PROVE  AllSound(<<a, b, c>>)
<1> DEFINE T == {a, b, c}
<1>1. <<a, b, c>> \in Seq(T)
  OBVIOUS
<1>2. \A kernel \in T : Sound(kernel)
  OBVIOUS
<1> HIDE DEF T
<1> QED BY <1>1, <1>2, SoundAmong

LEMMA Sound5 ==
  ASSUME NEW a, NEW b, NEW c, NEW d, NEW e, Sound(a), Sound(b), Sound(c), Sound(d), Sound(e)
  PROVE  AllSound(<<a, b, c, d, e>>)
<1> DEFINE T == {a, b, c, d, e}
<1>1. <<a, b, c, d, e>> \in Seq(T)
  OBVIOUS
<1>2. \A kernel \in T : Sound(kernel)
  OBVIOUS
<1> HIDE DEF T
<1> QED BY <1>1, <1>2, SoundAmong

LEMMA Sound6 ==
  ASSUME NEW a, NEW b, NEW c, NEW d, NEW e, NEW f,
         Sound(a), Sound(b), Sound(c), Sound(d), Sound(e), Sound(f)
  PROVE  AllSound(<<a, b, c, d, e, f>>)
<1> DEFINE T == {a, b, c, d, e, f}
<1>1. <<a, b, c, d, e, f>> \in Seq(T)
  OBVIOUS
<1>2. \A kernel \in T : Sound(kernel)
  OBVIOUS
<1> HIDE DEF T
<1> QED BY <1>1, <1>2, SoundAmong

LEMMA Sound8 ==
  ASSUME NEW a, NEW b, NEW c, NEW d, NEW e, NEW f, NEW g, NEW h,
         Sound(a), Sound(b), Sound(c), Sound(d), Sound(e), Sound(f), Sound(g), Sound(h)
  PROVE  AllSound(<<a, b, c, d, e, f, g, h>>)
<1> DEFINE T == {a, b, c, d, e, f, g, h}
<1>1. <<a, b, c, d, e, f, g, h>> \in Seq(T)
  OBVIOUS
<1>2. \A kernel \in T : Sound(kernel)
  OBVIOUS
<1> HIDE DEF T
<1> QED BY <1>1, <1>2, SoundAmong

-----------------------------------------------------------------------------
\* When the operands in scratch are written and read.
LEMMA Anywhere ==
  ASSUME NEW o, Good(o), o.view.buffer # "scratch", NEW stage
  PROVE  Written(o, stage) /\ Readable(o, stage)
  BY DEF Written, Readable

LEMMA GdnTimely ==
  ASSUME Ready, NEW m \in GdnNames
  PROVE  /\ Written(Gdn(m), Mixer) /\ Readable(Gdn(m), Mixer)
         /\ Readable(Gdn(m), MixerOutput) /\ Readable(GdnV, Mixer)
<1>1. StageOf(m) = Mixer /\ StageOf("convolved") = Mixer
  <2>1. m \notin {"mixer_input", "mlp_input", "head_input", "swiglu", "logits"}
    BY DEF GdnNames
  <2> QED BY <2>1 DEF StageOf
<1>2. /\ Good(Gdn(m)) /\ Gdn(m).value[1] = m
      /\ Gdn(m).view.buffer = "scratch" => Gdn(m).view.slot = 2
      /\ Good(GdnV) /\ GdnV.value[1] = "convolved"
      /\ GdnV.view.buffer = "scratch" => GdnV.view.slot = 2
  BY GdnFact, GdnVFact
<1>3. Covered(2, Mixer, Mixer) /\ Covered(2, Mixer, MixerOutput)
  BY StagesFact
<1> QED BY <1>1, <1>2, <1>3 DEF Written, Readable

LEMMA AttentionTimely ==
  ASSUME Ready, NEW m \in AttentionNames \cup {"y"}
  PROVE  /\ Written(Attention(m), Mixer) /\ Readable(Attention(m), Mixer)
         /\ Readable(Attention(m), MixerOutput)
<1>1. StageOf(m) = Mixer
  <2>1. m \notin {"mixer_input", "mlp_input", "head_input", "swiglu", "logits"}
    BY DEF AttentionNames
  <2> QED BY <2>1 DEF StageOf
<1>2. /\ Good(Attention(m)) /\ Attention(m).value[1] = m
      /\ Attention(m).view.buffer = "scratch" => Attention(m).view.slot = 3
  BY AttentionFact
<1>3. Covered(3, Mixer, Mixer) /\ Covered(3, Mixer, MixerOutput)
  BY StagesFact
<1> QED BY <1>1, <1>2, <1>3 DEF Written, Readable

LEMMA PartialsTimely ==
  ASSUME Ready, unit.kind = "decode"
  PROVE  Written(Attention("partials"), Mixer) /\ Readable(Attention("partials"), Mixer)
<1>1. StageOf("partials") = Mixer
  BY SMT DEF StageOf
<1>2. Covered(3, Mixer, Mixer)
  BY StagesFact
<1> QED BY <1>1, <1>2, PartialsFact DEF Written, Readable

LEMMA NormalizedTimely ==
  ASSUME Ready
  PROVE  /\ Written(Normalized("mixer_input"), LayerNorm)
         /\ Readable(Normalized("mixer_input"), Mixer)
         /\ Written(Normalized("mlp_input"), MlpNorm)
         /\ Readable(Normalized("mlp_input"), MlpSwiglu)
         /\ Written(Normalized("head_input"), FinalNorm)
         /\ Readable(Normalized("head_input"), LmHead)
<1>1. /\ StageOf("mixer_input") = LayerNorm /\ StageOf("mlp_input") = MlpNorm
      /\ StageOf("head_input") = FinalNorm
  BY SMT DEF StageOf
<1> QED BY <1>1, StagesFact, NormalizedFact DEF Written, Readable

\* Buffers that operands of different families lie in.
LEMMA BuffersDiffer ==
  ASSUME Ready
  PROVE  /\ residual \in RowBuffers /\ mid \in RowBuffers /\ next \in RowBuffers
         /\ mid # residual /\ mid # next
         /\ GdnBuffer \in {"scratch", "prefill_gdn"}
         /\ AttentionBuffer \in {"scratch", "prefill_attention"}
  BY DEF Ready, GdnBuffer, AttentionBuffer

\* Operands of different buffers, or of the normalized row and another slot.
LEMMA Cross ==
  ASSUME Ready, NEW o, NEW p, Good(o), Good(p)
  PROVE  /\ o.view.buffer # p.view.buffer => Far(o, p) /\ Far(p, o)
         /\ /\ o.view.buffer = "scratch" /\ p.view.buffer = "scratch"
            /\ o.view.slot = 1 /\ p.view.slot # 1
            => Far(o, p) /\ Far(p, o)
  BY ZonesApart

LEMMA EmbeddingSound ==
  ASSUME Ready
  PROVE  AllSound(<< Kernel(0, {}, {Hidden}) >>)
<1>1. Written(Hidden, 0)
  BY RowsFact, BuffersDiffer, Anywhere DEF RowBuffers
<1>2. Sound(Kernel(0, {}, {Hidden}))
  BY <1>1 DEF Sound, Kernel
<1> QED BY <1>2, Sound1

\* Rows of residual activations are nowhere near the other operands.
LEMMA RowsTimely ==
  ASSUME Ready, NEW stage
  PROVE  /\ Written(Hidden, stage) /\ Readable(Hidden, stage)
         /\ Written(Mixed, stage) /\ Readable(Mixed, stage)
         /\ Written(NextHidden, stage) /\ Readable(NextHidden, stage)
         /\ Far(Mixed, Hidden) /\ Far(Hidden, Mixed)
         /\ Far(Mixed, NextHidden) /\ Far(NextHidden, Mixed)
         /\ \A o : Good(o) /\ o.view.buffer \notin RowBuffers =>
               /\ Far(o, Hidden) /\ Far(Hidden, o) /\ Far(o, Mixed) /\ Far(Mixed, o)
               /\ Far(o, NextHidden) /\ Far(NextHidden, o)
<1>1. residual # "scratch" /\ mid # "scratch" /\ next # "scratch"
  BY BuffersDiffer DEF RowBuffers
<1>2. /\ Written(Hidden, stage) /\ Readable(Hidden, stage)
      /\ Written(Mixed, stage) /\ Readable(Mixed, stage)
      /\ Written(NextHidden, stage) /\ Readable(NextHidden, stage)
  BY <1>1, RowsFact, Anywhere
<1>3. /\ Far(Mixed, Hidden) /\ Far(Hidden, Mixed)
      /\ Far(Mixed, NextHidden) /\ Far(NextHidden, Mixed)
  BY RowsFact, BuffersDiffer, Cross
<1>4. ASSUME NEW o, Good(o), o.view.buffer \notin RowBuffers
      PROVE  /\ Far(o, Hidden) /\ Far(Hidden, o) /\ Far(o, Mixed) /\ Far(Mixed, o)
             /\ Far(o, NextHidden) /\ Far(NextHidden, o)
  BY <1>4, RowsFact, BuffersDiffer, Cross
<1> QED BY <1>2, <1>3, <1>4

\* Persistent state of a layer is updated in place.
LEMMA PersistentTimely ==
  ASSUME Ready, layer # Layers, NEW buffer \in States, NEW version, NEW stage
  PROVE  /\ Written(Persistent(buffer, version), stage)
         /\ Readable(Persistent(buffer, version), stage)
         /\ Good(Persistent(buffer, version)) /\ Persistent(buffer, version).view.buffer = buffer
         /\ \A o : Good(o) /\ o.view.buffer # buffer =>
               Far(o, Persistent(buffer, version)) /\ Far(Persistent(buffer, version), o)
         /\ buffer \in {"conv_history", "gdn_s"} =>
               InPlace(Persistent(buffer, "new"), Persistent(buffer, "old"))
<1>1. Good(Persistent(buffer, version)) /\ Persistent(buffer, version).view.buffer = buffer
  BY PersistentFact
<1>2. buffer # "scratch"
  BY DEF States
<1>3. Persistent(buffer, "new").view = Persistent(buffer, "old").view
      /\ Persistent(buffer, "new").view.buffer = buffer
  BY DEF Persistent, Holding, View
<1>4. ASSUME NEW o, Good(o), o.view.buffer # buffer
      PROVE  Far(o, Persistent(buffer, version)) /\ Far(Persistent(buffer, version), o)
  BY <1>1, <1>4, Cross
<1> QED BY <1>1, <1>2, <1>3, <1>4, Anywhere DEF InPlace

LEMMA DecodeGdnSound ==
  ASSUME Ready, layer # Layers, unit.kind = "decode"
  PROVE  AllSound(DecodeGdn)
<1> DEFINE normalized == Normalized("mixer_input")
<1>1. GdnBuffer = "scratch"
  BY DEF GdnBuffer
<1>2. /\ Good(normalized) /\ normalized.view.buffer = "scratch" /\ normalized.view.slot = 1
      /\ Written(normalized, LayerNorm) /\ Readable(normalized, Mixer)
  BY NormalizedFact, NormalizedTimely
<1> HIDE DEF normalized
<1>3. \A m \in GdnNames :
         /\ Good(Gdn(m)) /\ Gdn(m).view.buffer = "scratch" /\ Gdn(m).view.slot = 2
         /\ Written(Gdn(m), Mixer) /\ Readable(Gdn(m), Mixer) /\ Readable(Gdn(m), MixerOutput)
         /\ Far(Gdn(m), normalized)
         /\ \A n \in GdnNames : m # n => Far(Gdn(m), Gdn(n))
  BY <1>1, <1>2, GdnFact, GdnTimely, Cross
<1>4. /\ Readable(GdnV, Mixer) /\ Good(GdnV) /\ GdnV.view.buffer = "scratch"
      /\ \A m \in GdnNames \ {"convolved"} : Far(Gdn(m), GdnV)
  BY <1>1, GdnVFact, GdnTimely DEF GdnNames
<1>5. ASSUME NEW o, Good(o), o.view.buffer = "scratch"
      PROVE  /\ Far(o, Hidden) /\ Far(o, Mixed) /\ Far(Mixed, o)
             /\ \A b \in States, v \in {"old", "new"} :
                   Far(o, Persistent(b, v)) /\ Far(Persistent(b, v), o)
  BY <1>5, RowsTimely, PersistentTimely DEF RowBuffers, States
<1>6. ASSUME NEW R \in SUBSET GdnNames, NEW W \in SUBSET GdnNames, R \cap W = {}
      PROVE  Sound(Kernel(Mixer, GdnOperands(R), GdnOperands(W)))
  BY <1>3, <1>6, SoundKernel DEF GdnOperands
<1>7. Sound(Kernel(LayerNorm, {Hidden}, {normalized}))
  BY <1>2, <1>5, RowsTimely, SoundKernel
<1>8. ASSUME NEW W \in SUBSET GdnNames
      PROVE  Sound(Kernel(Mixer, {normalized}, GdnOperands(W)))
  BY <1>2, <1>3, SoundKernel DEF GdnOperands
<1>9. Sound(Kernel(Mixer, {Gdn("qkv"), Persistent("conv_history", "old")},
                          {Gdn("convolved"), Persistent("conv_history", "new")}))
  <2> DEFINE old == Persistent("conv_history", "old")
             new == Persistent("conv_history", "new")
  <2>1. Readable(old, Mixer) /\ Written(new, Mixer) /\ InPlace(new, old)
    BY PersistentTimely DEF States
  <2>2. /\ Good(Gdn("qkv")) /\ Gdn("qkv").view.buffer = "scratch"
        /\ Good(Gdn("convolved")) /\ Gdn("convolved").view.buffer = "scratch"
        /\ Readable(Gdn("qkv"), Mixer) /\ Written(Gdn("convolved"), Mixer)
        /\ Far(Gdn("convolved"), Gdn("qkv"))
    BY <1>3 DEF GdnNames
  <2>3. /\ Far(Gdn("convolved"), old) /\ Far(Gdn("convolved"), new)
        /\ Far(new, Gdn("convolved")) /\ Far(new, Gdn("qkv"))
    BY <1>5, <2>2 DEF States
  <2> HIDE DEF old, new
  <2> DEFINE reads == {Gdn("qkv"), old}
             writes == {Gdn("convolved"), new}
  <2>4. /\ \A read \in reads : Readable(read, Mixer)
        /\ \A w \in writes : Written(w, Mixer)
        /\ \A w, other \in writes : w # other => Far(w, other)
        /\ \A w \in writes, read \in reads : Far(w, read) \/ InPlace(w, read)
    BY <2>1, <2>2, <2>3
  <2> HIDE DEF reads, writes
  <2>5. Sound(Kernel(Mixer, reads, writes))
    BY <2>4, SoundKernel
  <2> QED BY <2>5 DEF reads, writes, old, new
<1>10. Sound(Kernel(Mixer, GdnOperands({"q_hat", "k_hat", "alpha", "beta"})
                             \cup {GdnV, Persistent("gdn_s", "old")},
                           {Gdn("o"), Persistent("gdn_s", "new")}))
  <2> DEFINE old == Persistent("gdn_s", "old")
             new == Persistent("gdn_s", "new")
             inputs == GdnOperands({"q_hat", "k_hat", "alpha", "beta"})
  <2>1. Readable(old, Mixer) /\ Written(new, Mixer) /\ InPlace(new, old)
    BY PersistentTimely DEF States
  <2>2. /\ Good(Gdn("o")) /\ Gdn("o").view.buffer = "scratch" /\ Written(Gdn("o"), Mixer)
        /\ Far(Gdn("o"), GdnV)
        /\ \A i \in inputs : /\ Good(i) /\ i.view.buffer = "scratch" /\ Readable(i, Mixer)
                             /\ Far(Gdn("o"), i)
    BY <1>3, <1>4 DEF GdnNames, GdnOperands
  <2>3. /\ Far(Gdn("o"), old) /\ Far(Gdn("o"), new) /\ Far(new, Gdn("o"))
        /\ Far(new, GdnV) /\ \A i \in inputs : Far(new, i)
    BY <1>4, <1>5, <2>2 DEF States
  <2> HIDE DEF old, new, inputs
  <2> DEFINE reads == inputs \cup {GdnV, old}
             writes == {Gdn("o"), new}
  <2>4. /\ \A read \in reads : Readable(read, Mixer)
        /\ \A w \in writes : Written(w, Mixer)
        /\ \A w, other \in writes : w # other => Far(w, other)
        /\ \A w \in writes, read \in reads : Far(w, read) \/ InPlace(w, read)
    BY <1>4, <2>1, <2>2, <2>3
  <2> HIDE DEF reads, writes
  <2>5. Sound(Kernel(Mixer, reads, writes))
    BY <2>4, SoundKernel
  <2> QED BY <2>5 DEF reads, writes, old, new, inputs
<1>11. Sound(Kernel(MixerOutput, {Gdn("u"), Hidden}, {Mixed}))
  <2>1. Good(Gdn("u")) /\ Gdn("u").view.buffer = "scratch" /\ Readable(Gdn("u"), MixerOutput)
    BY <1>3 DEF GdnNames
  <2> QED BY <1>5, <2>1, RowsTimely, SoundKernel
<1>12. /\ Sound(Kernel(Mixer, GdnOperands({"convolved", "a", "b"}),
                              GdnOperands({"q_hat", "k_hat", "alpha", "beta"})))
       /\ Sound(Kernel(Mixer, GdnOperands({"o", "z"}), {Gdn("u")}))
  <2>1. GdnOperands({"u"}) = {Gdn("u")}
    BY DEF GdnOperands
  <2>2. /\ {"convolved", "a", "b"} \in SUBSET GdnNames
        /\ {"q_hat", "k_hat", "alpha", "beta"} \in SUBSET GdnNames
        /\ {"convolved", "a", "b"} \cap {"q_hat", "k_hat", "alpha", "beta"} = {}
    BY DEF GdnNames
  <2>3. /\ {"o", "z"} \in SUBSET GdnNames /\ {"u"} \in SUBSET GdnNames
        /\ {"o", "z"} \cap {"u"} = {}
    BY DEF GdnNames
  <2>4. Sound(Kernel(Mixer, GdnOperands({"o", "z"}), GdnOperands({"u"})))
    BY <1>6, <2>3
  <2>5. Sound(Kernel(Mixer, GdnOperands({"convolved", "a", "b"}),
                            GdnOperands({"q_hat", "k_hat", "alpha", "beta"})))
    BY <1>6, <2>2
  <2> QED BY <2>1, <2>4, <2>5
<1>13. {"qkv", "z"} \in SUBSET GdnNames /\ {"a", "b"} \in SUBSET GdnNames
  BY DEF GdnNames
<1> QED BY <1>7, <1>8, <1>9, <1>10, <1>11, <1>12, <1>13, Sound8 DEF DecodeGdn, normalized

LEMMA DecodeAttentionSound ==
  ASSUME Ready, layer # Layers, unit.kind = "decode"
  PROVE  AllSound(DecodeAttention)
<1> DEFINE normalized == Normalized("mixer_input")
           partials == Attention("partials")
           kv == Persistent("kv", "new")
           inputs == AttentionOperands({"qg", "k", "v"})
           outputs == AttentionOperands({"q", "g"})
<1>1. AttentionBuffer = "scratch"
  BY DEF AttentionBuffer
<1>2. /\ Good(normalized) /\ normalized.view.buffer = "scratch" /\ normalized.view.slot = 1
      /\ Written(normalized, LayerNorm) /\ Readable(normalized, Mixer)
  BY NormalizedFact, NormalizedTimely
<1>3. /\ Good(partials) /\ partials.view.buffer = "scratch" /\ Written(partials, Mixer)
      /\ Readable(partials, Mixer)
      /\ \A m \in AttentionNames \cup {"y"} : /\ Far(partials, Attention(m))
                                              /\ Far(Attention(m), partials)
  BY PartialsFact, PartialsTimely
<1>4. Readable(kv, Mixer) /\ Written(kv, Mixer)
  BY PersistentTimely DEF States
<1>5. ASSUME NEW o, Good(o), o.view.buffer = "scratch"
      PROVE  Far(o, Hidden) /\ Far(o, Mixed) /\ Far(Mixed, o) /\ Far(o, kv) /\ Far(kv, o)
  BY <1>5, RowsTimely, PersistentTimely DEF RowBuffers, States
<1> HIDE DEF normalized, partials
<1>6. \A m \in AttentionNames \cup {"y"} :
         /\ Good(Attention(m)) /\ Attention(m).view.buffer = "scratch"
         /\ Attention(m).view.slot = 3
         /\ Written(Attention(m), Mixer) /\ Readable(Attention(m), Mixer)
         /\ Readable(Attention(m), MixerOutput)
         /\ Far(Attention(m), normalized)
  BY <1>1, <1>2, AttentionFact, AttentionTimely, Cross
<1>7. \A m, n \in AttentionNames : m # n => Far(Attention(m), Attention(n))
  BY AttentionFact DEF Places, AttentionNames
<1>8. Far(Attention("y"), Attention("g"))
  BY AttentionFact DEF Places, AttentionNames
<1>9. /\ \A o \in inputs : \E m \in {"qg", "k", "v"} : o = Attention(m)
      /\ \A o \in outputs : \E m \in {"q", "g"} : o = Attention(m)
  BY DEF AttentionOperands
<1>10. /\ \A o \in inputs : /\ Good(o) /\ o.view.buffer = "scratch" /\ Written(o, Mixer)
                            /\ Readable(o, Mixer) /\ Far(o, normalized) /\ Far(kv, o)
       /\ \A o \in outputs : /\ Good(o) /\ o.view.buffer = "scratch" /\ Written(o, Mixer)
                             /\ Far(o, kv) /\ Far(kv, o)
       /\ \A o, p \in inputs : o # p => Far(o, p)
       /\ \A o, p \in outputs : o # p => Far(o, p)
       /\ \A o \in outputs, p \in inputs : Far(o, p)
  <2>1. {"qg", "k", "v"} \subseteq AttentionNames /\ {"q", "g"} \subseteq AttentionNames
        /\ {"qg", "k", "v"} \cap {"q", "g"} = {}
    BY DEF AttentionNames
  <2>2. /\ \A o \in inputs : /\ Good(o) /\ o.view.buffer = "scratch" /\ Written(o, Mixer)
                             /\ Readable(o, Mixer) /\ Far(o, normalized)
        /\ \A o \in outputs : /\ Good(o) /\ o.view.buffer = "scratch" /\ Written(o, Mixer)
    <3> HIDE DEF inputs, outputs
    <3> QED BY <1>6, <1>9, <2>1
  <2>3. /\ \A o, p \in inputs : o # p => Far(o, p)
        /\ \A o, p \in outputs : o # p => Far(o, p)
        /\ \A o \in outputs, p \in inputs : Far(o, p)
    <3> HIDE DEF inputs, outputs
    <3> QED BY <1>7, <1>9, <2>1
  <2> HIDE DEF inputs, outputs, kv
  <2> QED BY <1>5, <2>2, <2>3
<1> HIDE DEF inputs, outputs, kv
<1>11. Sound(Kernel(LayerNorm, {Hidden}, {normalized}))
  BY <1>2, <1>5, RowsTimely, SoundKernel
<1>12. Sound(Kernel(Mixer, {normalized}, inputs))
  BY <1>2, <1>10, SoundKernel
<1>13. Sound(Kernel(Mixer, inputs, outputs \cup {kv}))
  <2> DEFINE writes == outputs \cup {kv}
  <2>1. /\ \A w \in writes : Written(w, Mixer)
        /\ \A w, other \in writes : w # other => Far(w, other)
        /\ \A w \in writes, read \in inputs : Far(w, read)
    BY <1>4, <1>10
  <2> HIDE DEF writes
  <2>2. Sound(Kernel(Mixer, inputs, writes))
    BY <1>10, <2>1, SoundKernel
  <2> QED BY <2>2 DEF writes
<1>14. Sound(Kernel(Mixer, {Attention("q"), kv}, {partials}))
  <2>1. /\ Readable(Attention("q"), Mixer) /\ Far(partials, Attention("q"))
        /\ Far(partials, kv)
    BY <1>3, <1>5, <1>6 DEF AttentionNames
  <2> QED BY <1>3, <1>4, <2>1, SoundKernel
<1>15. Sound(Kernel(Mixer, AttentionOperands({"partials", "g"}), {Attention("y")}))
  <2>1. AttentionOperands({"partials", "g"}) = {partials, Attention("g")}
    BY DEF AttentionOperands, partials
  <2>2. /\ Readable(Attention("g"), Mixer) /\ Written(Attention("y"), Mixer)
        /\ Far(Attention("y"), partials)
    BY <1>3, <1>6 DEF AttentionNames
  <2>3. Sound(Kernel(Mixer, {partials, Attention("g")}, {Attention("y")}))
    BY <1>3, <1>8, <2>2, SoundKernel
  <2> QED BY <2>1, <2>3
<1>16. Sound(Kernel(MixerOutput, {Attention("y"), Hidden}, {Mixed}))
  <2>1. /\ Good(Attention("y")) /\ Attention("y").view.buffer = "scratch"
        /\ Readable(Attention("y"), MixerOutput)
    BY <1>6
  <2> QED BY <1>5, <2>1, RowsTimely, SoundKernel
<1> QED BY <1>11, <1>12, <1>13, <1>14, <1>15, <1>16, Sound6
        DEF DecodeAttention, normalized, partials, kv, inputs, outputs

LEMMA DecodeMlpSound ==
  ASSUME Ready, unit.kind = "decode"
  PROVE  AllSound(DecodeMlp)
<1> DEFINE normalized == Normalized("mlp_input")
           swiglu == Holding(Scratch(4, 0, 34816), "swiglu")
<1>1. /\ Good(normalized) /\ normalized.view.buffer = "scratch" /\ normalized.view.slot = 1
      /\ Written(normalized, MlpNorm) /\ Readable(normalized, MlpSwiglu)
  BY NormalizedFact, NormalizedTimely
<1>2. Good(swiglu) /\ swiglu.view.buffer = "scratch" /\ swiglu.view.slot = 4
  <2>1. 0 + 34816 <= requests[4].bytes
    BY SizesFact, SMT
  <2> QED BY <2>1, ScratchFact, SMT
<1>3. Written(swiglu, MlpSwiglu) /\ Readable(swiglu, MlpDown)
  <2>1. swiglu.value[1] = "swiglu"
    BY DEF Holding
  <2>2. StageOf("swiglu") = MlpSwiglu
    BY SMT DEF StageOf
  <2> HIDE DEF swiglu
  <2> QED BY <1>2, <2>1, <2>2, StagesFact DEF Written, Readable
<1> HIDE DEF normalized, swiglu
<1>4. Far(swiglu, normalized)
  BY <1>1, <1>2, Cross
<1>5. ASSUME NEW o, Good(o), o.view.buffer = "scratch"
      PROVE  Far(o, Mixed) /\ Far(NextHidden, o)
  BY <1>5, RowsTimely DEF RowBuffers
<1>6. Sound(Kernel(MlpNorm, {Mixed}, {normalized}))
  BY <1>1, <1>5, RowsTimely, SoundKernel
<1>7. Sound(Kernel(MlpSwiglu, {normalized}, {swiglu}))
  BY <1>1, <1>3, <1>4, SoundKernel
<1>8. Sound(Kernel(MlpDown, {swiglu, Mixed}, {NextHidden}))
  BY <1>2, <1>3, <1>5, RowsTimely, SoundKernel
<1>9. DecodeMlp = << Kernel(MlpNorm, {Mixed}, {normalized}),
                     Kernel(MlpSwiglu, {normalized}, {swiglu}),
                     Kernel(MlpDown, {swiglu, Mixed}, {NextHidden}) >>
  BY SMT DEF DecodeMlp, normalized, swiglu
<1> QED BY <1>6, <1>7, <1>8, <1>9, Sound3

LEMMA Q8MlpSound ==
  ASSUME Ready
  PROVE  AllSound(Q8Mlp)
<1> DEFINE input == Q8Pack(5120, "mlp_input")
           swiglu == Q8Pack(17408, "swiglu")
<1>0. ASSUME NEW k \in {5120, 17408}, NEW quantity
      PROVE  /\ \A o \in Q8Pack(k, quantity) : /\ Good(o) /\ o.view.buffer = "q8"
                                               /\ Far(o, Q8Gate) /\ Far(o, Q8Up)
                                               /\ Far(Q8Gate, o) /\ Far(Q8Up, o)
             /\ \A o, p \in Q8Pack(k, quantity) : o # p => Far(o, p)
  BY Q8Fact
<1>1. /\ \A o \in input : /\ Good(o) /\ o.view.buffer = "q8"
                          /\ Far(Q8Gate, o) /\ Far(Q8Up, o)
      /\ \A o, p \in input : o # p => Far(o, p)
  BY <1>0
<1>2. /\ \A o \in swiglu : /\ Good(o) /\ o.view.buffer = "q8"
                           /\ Far(o, Q8Gate) /\ Far(o, Q8Up)
      /\ \A o, p \in swiglu : o # p => Far(o, p)
  BY <1>0
<1>3. /\ Good(Q8Gate) /\ Q8Gate.view.buffer = "q8" /\ Good(Q8Up) /\ Q8Up.view.buffer = "q8"
  BY Q8Fact
<1> HIDE DEF input, swiglu
<1>4. \A o, stage : Good(o) /\ o.view.buffer = "q8" =>
         /\ Written(o, stage) /\ Readable(o, stage)
         /\ Far(o, Mixed) /\ Far(Mixed, o) /\ Far(NextHidden, o)
  BY Anywhere, RowsTimely DEF RowBuffers
<1>5. Sound(Kernel(MlpNorm, {Mixed}, input))
  BY <1>1, <1>3, <1>4, RowsTimely, SoundKernel
<1>6. Sound(Kernel(MlpSwiglu, input, {Q8Gate})) /\ Sound(Kernel(MlpSwiglu, input, {Q8Up}))
  BY <1>1, <1>3, <1>4, SoundKernel
<1>7. Sound(Kernel(MlpSwiglu, {Q8Gate, Q8Up}, swiglu))
  BY <1>1, <1>2, <1>3, <1>4, SoundKernel
<1>8. Sound(Kernel(MlpDown, swiglu \cup {Mixed}, {NextHidden}))
  <2> DEFINE reads == swiglu \cup {Mixed}
  <2>1. \A read \in reads : Readable(read, MlpDown) /\ Far(NextHidden, read)
    BY <1>2, <1>4, RowsTimely
  <2> HIDE DEF reads
  <2>2. Sound(Kernel(MlpDown, reads, {NextHidden}))
    BY <2>1, RowsTimely, SoundKernel
  <2> QED BY <2>2 DEF reads
<1>9. Q8Mlp = << Kernel(MlpNorm, {Mixed}, input),
                 Kernel(MlpSwiglu, input, {Q8Gate}),
                 Kernel(MlpSwiglu, input, {Q8Up}),
                 Kernel(MlpSwiglu, {Q8Gate, Q8Up}, swiglu),
                 Kernel(MlpDown, swiglu \cup {Mixed}, {NextHidden}) >>
  BY SMT DEF Q8Mlp, input, swiglu
<1> QED BY <1>5, <1>6, <1>7, <1>8, <1>9, Sound5

LEMMA ReadoutSound ==
  ASSUME Ready
  PROVE  AllSound(Readout)
<1> DEFINE last == Holding(View(residual, 0, (Rows - 1) * 20480, 20480), "hidden")
           normalized == Normalized("head_input")
           logits == Holding(Scratch(5, 0, 993280), "logits")
<1>1. residual \in RowBuffers /\ residual # "scratch"
  BY BuffersDiffer DEF RowBuffers
<1>2. Good(last) /\ last.view.buffer = residual
  <2>1. Allocated(residual) = 512 * 20480
    BY <1>1, SMT DEF Allocated, RowBuffers, TokenCapacity
  <2>2. PICK k \in 1 .. 512 : Rows = k
    BY UnitFact
  <2>3. last.view = [buffer |-> residual, slot |-> 0, first |-> (k - 1) * 20480,
                     last |-> (k - 1) * 20480 + 20480]
    BY <2>2 DEF Holding, View
  <2> HIDE DEF last
  <2> QED BY <1>1, <2>1, <2>3, SMT DEF Good
<1>3. /\ Good(normalized) /\ normalized.view.buffer = "scratch" /\ normalized.view.slot = 1
      /\ Written(normalized, FinalNorm) /\ Readable(normalized, LmHead)
  BY NormalizedFact, NormalizedTimely
<1>4. Good(logits) /\ logits.view.buffer = "scratch" /\ logits.view.slot = 5
  <2>1. 0 + 993280 <= requests[5].bytes
    BY SizesFact, SMT
  <2> QED BY <2>1, ScratchFact, SMT
<1>5. Written(logits, LmHead)
  <2>1. logits.value[1] = "logits"
    BY SMT DEF Holding
  <2>2. StageOf("logits") = LmHead
    BY SMT DEF StageOf
  <2> HIDE DEF logits
  <2> QED BY <1>4, <2>1, <2>2, StagesFact DEF Written
<1> HIDE DEF last, normalized, logits
<1>6. /\ Far(normalized, last) /\ Far(logits, normalized) /\ Readable(last, FinalNorm)
  BY <1>1, <1>2, <1>3, <1>4, Cross, Anywhere
<1>7. Sound(Kernel(FinalNorm, {last}, {normalized}))
  BY <1>3, <1>6, SoundKernel
<1>8. Sound(Kernel(LmHead, {normalized}, {logits}))
  BY <1>3, <1>5, <1>6, SoundKernel
<1>9. Readout = << Kernel(FinalNorm, {last}, {normalized}), Kernel(LmHead, {normalized}, {logits}) >>
  BY SMT DEF Readout, last, normalized, logits
<1> QED BY <1>7, <1>8, <1>9, Sound2

\* A kernel that reads some operands and writes one.
LEMMA SoundWriter ==
  ASSUME NEW stage, NEW reads, NEW w, Written(w, stage),
         \A read \in reads : Readable(read, stage) /\ Far(w, read)
  PROVE  Sound(Kernel(stage, reads, {w}))
  BY SoundKernel

\* A kernel that also writes to the library's workspace.
LEMMA SoundLibrary ==
  ASSUME Ready, NEW stage, NEW reads, NEW w, Written(w, stage), Far(w, Library), Far(Library, w),
         \A read \in reads : Readable(read, stage) /\ Far(w, read) /\ Far(Library, read)
  PROVE  Sound(Kernel(stage, reads, {w, Library}))
<1>1. Written(Library, stage)
  <2>1. InEngine(Library, "library")
    BY EngineOperands
  <2> QED BY <2>1, EngineApart, Anywhere DEF EngineNames
<1> DEFINE writes == {w, Library}
<1>2. /\ \A x \in writes : Written(x, stage)
      /\ \A x, other \in writes : x # other => Far(x, other)
      /\ \A x \in writes, read \in reads : Far(x, read)
  BY <1>1
<1> HIDE DEF writes
<1>3. Sound(Kernel(stage, reads, writes))
  BY <1>2, SoundKernel
<1> QED BY <1>3 DEF writes

LEMMA EngineTimely ==
  ASSUME Ready, NEW role, NEW stage
  PROVE  /\ Written(WeightTile(role), stage) /\ Readable(WeightTile(role), stage)
         /\ Written(AccumA(role), stage) /\ Readable(AccumA(role), stage)
         /\ Written(AccumB(role), stage) /\ Readable(AccumB(role), stage)
         /\ Far(AccumA(role), Library) /\ Far(Library, AccumA(role))
         /\ Far(AccumB(role), Library) /\ Far(Library, AccumB(role))
         /\ Far(AccumA(role), WeightTile(role)) /\ Far(AccumB(role), WeightTile(role))
         /\ Far(Library, WeightTile(role))
         /\ \A o : Good(o) /\ o.view.buffer # "engine" =>
               /\ Far(o, AccumA(role)) /\ Far(AccumA(role), o) /\ Far(o, Library)
               /\ Far(Library, o) /\ Far(AccumB(role), o)
         /\ \A o, m : InEngine(o, m) /\ m \in {"normalized", "swiglu"} =>
               Far(AccumA(role), o) /\ Far(AccumB(role), o) /\ Far(Library, o)
<1> DEFINE w == WeightTile(role)
           a == AccumA(role)
           b == AccumB(role)
<1>1. /\ InEngine(w, "weight_tile") /\ InEngine(a, "accum_a") /\ InEngine(b, "accum_b")
      /\ InEngine(Library, "library")
  BY EngineOperands
<1> HIDE DEF w, a, b
<1>2. /\ Good(w) /\ Good(a) /\ Good(b) /\ Good(Library)
      /\ w.view.buffer = "engine" /\ a.view.buffer = "engine" /\ b.view.buffer = "engine"
      /\ Library.view.buffer = "engine"
  BY <1>1, EngineApart DEF EngineNames
<1>3. /\ Far(a, Library) /\ Far(Library, a) /\ Far(b, Library) /\ Far(Library, b)
      /\ Far(a, w) /\ Far(b, w) /\ Far(Library, w)
  BY <1>1, EngineApart DEF EngineNames
<1>4. /\ Written(w, stage) /\ Readable(w, stage) /\ Written(a, stage) /\ Readable(a, stage)
      /\ Written(b, stage) /\ Readable(b, stage)
  BY <1>2, Anywhere
<1>5. ASSUME NEW o, Good(o), o.view.buffer # "engine"
      PROVE  Far(o, a) /\ Far(a, o) /\ Far(o, Library) /\ Far(Library, o) /\ Far(b, o)
  BY <1>2, <1>5, Cross
<1>6. ASSUME NEW o, NEW m, InEngine(o, m), m \in {"normalized", "swiglu"}
      PROVE  Far(a, o) /\ Far(b, o) /\ Far(Library, o)
  BY <1>1, <1>6, EngineApart DEF EngineNames
<1> QED BY <1>3, <1>4, <1>5, <1>6 DEF w, a, b

\* Where the input of an unpacked projection may lie.
InputOf(o) == o.view.buffer # "engine" \/ \E m \in {"normalized", "swiglu"} : InEngine(o, m)

LEMMA UnpackedSound ==
  ASSUME Ready, NEW stage, NEW role, NEW input, NEW add, NEW output,
         Readable(input, stage), InputOf(input),
         Written(output, stage), output.view.buffer # "engine",
         \A read \in add : Readable(read, stage) /\ Far(output, read)
  PROVE  AllSound(Unpacked(stage, role, input, add, output))
<1> DEFINE w == WeightTile(role)
           a == AccumA(role)
<1>1. /\ Written(w, stage) /\ Readable(w, stage) /\ Written(a, stage) /\ Readable(a, stage)
      /\ Far(a, Library) /\ Far(Library, a) /\ Far(a, w) /\ Far(Library, w)
  BY EngineTimely
<1>2. Far(a, input) /\ Far(Library, input)
  <2>1. Good(input)
    BY DEF Readable
  <2> QED BY <2>1, EngineTimely DEF InputOf
<1>3. Far(output, a)
  <2>1. Good(output)
    BY DEF Written
  <2> QED BY <2>1, EngineTimely
<1> HIDE DEF w, a
<1>4. Sound(Kernel(stage, {}, {w}))
  BY <1>1, SoundWriter
<1>5. Sound(Kernel(stage, {w, input}, {a, Library}))
  <2> DEFINE reads == {w, input}
  <2>1. \A read \in reads : Readable(read, stage) /\ Far(a, read) /\ Far(Library, read)
    BY <1>1, <1>2
  <2> HIDE DEF reads
  <2>2. Sound(Kernel(stage, reads, {a, Library}))
    BY <1>1, <2>1, SoundLibrary
  <2> QED BY <2>2 DEF reads
<1>6. Sound(Kernel(stage, {a} \cup add, {output}))
  <2> DEFINE reads == {a} \cup add
  <2>1. \A read \in reads : Readable(read, stage) /\ Far(output, read)
    BY <1>1, <1>3
  <2> HIDE DEF reads
  <2>2. Sound(Kernel(stage, reads, {output}))
    BY <2>1, SoundWriter
  <2> QED BY <2>2 DEF reads
<1>7. Unpacked(stage, role, input, add, output) =
         << Kernel(stage, {}, {w}), Kernel(stage, {w, input}, {a, Library}),
            Kernel(stage, {a} \cup add, {output}) >>
  BY DEF Unpacked, w, a
<1> QED BY <1>4, <1>5, <1>6, <1>7, Sound3

LEMMA ProjectedSound ==
  ASSUME Ready, NEW stage, NEW role, NEW n \in Widths,
         NEW input, NEW k \in Depths, NEW quantity, NEW add, NEW output,
         Readable(input, stage), input.view.buffer # "engine", Far(output, input),
         Written(output, stage), output.view.buffer \notin {"engine", "fp8"},
         \A read \in add : Readable(read, stage) /\ Far(output, read)
  PROVE  AllSound(Projected(stage, role, n, input, Fp8Pack(k, quantity), add, output))
<1> DEFINE pack == Fp8Pack(k, quantity)
           sum == Fp8Sum(role, n)
<1>1. CASE Packs
  <2>1. /\ Good(sum) /\ sum.view.buffer = "fp8"
        /\ \A o \in pack : Good(o) /\ o.view.buffer = "fp8" /\ Far(sum, o)
    BY Fp8Fact
  <2> HIDE DEF pack, sum
  <2>2. /\ Written(sum, stage) /\ Readable(sum, stage)
        /\ \A o \in pack : Readable(o, stage)
    BY <2>1, Anywhere
  <2>3. /\ Far(sum, Library) /\ Far(Library, sum) /\ \A o \in pack : Far(Library, o)
    BY <2>1, EngineTimely
  <2>4. Far(output, sum)
    <3>1. Good(output)
      BY DEF Written
    <3> QED BY <2>1, <3>1, Cross
  <2>5. Sound(Kernel(stage, pack, {sum, Library}))
    BY <2>1, <2>2, <2>3, SoundLibrary
  <2>6. Sound(Kernel(stage, {sum} \cup add, {output}))
    <3> DEFINE reads == {sum} \cup add
    <3>1. \A read \in reads : Readable(read, stage) /\ Far(output, read)
      BY <2>2, <2>4
    <3> HIDE DEF reads
    <3>2. Sound(Kernel(stage, reads, {output}))
      BY <3>1, SoundWriter
    <3> QED BY <3>2 DEF reads
  <2>7. Projected(stage, role, n, input, pack, add, output) =
           << Kernel(stage, pack, {sum, Library}), Kernel(stage, {sum} \cup add, {output}) >>
    BY <1>1 DEF Projected, sum
  <2>8. AllSound(Projected(stage, role, n, input, pack, add, output))
    BY <2>5, <2>6, <2>7, Sound2
  <2> QED BY <2>8 DEF pack
<1>2. CASE ~Packs /\ Fp8Mixer
  <2> HIDE DEF pack
  <2>1. Sound(Kernel(stage, {input} \cup add, {output}))
    <3> DEFINE reads == {input} \cup add
    <3>1. \A read \in reads : Readable(read, stage) /\ Far(output, read)
      OBVIOUS
    <3> HIDE DEF reads
    <3>2. Sound(Kernel(stage, reads, {output}))
      BY <3>1, SoundWriter
    <3> QED BY <3>2 DEF reads
  <2>2. Projected(stage, role, n, input, pack, add, output) =
           << Kernel(stage, {input} \cup add, {output}) >>
    BY <1>2 DEF Projected
  <2>3. AllSound(Projected(stage, role, n, input, pack, add, output))
    BY <2>1, <2>2, Sound1
  <2> QED BY <2>3 DEF pack
<1>3. CASE ~Packs /\ ~Fp8Mixer
  <2> HIDE DEF pack
  <2>1. AllSound(Unpacked(stage, role, input, add, output))
    BY UnpackedSound DEF InputOf
  <2>2. Projected(stage, role, n, input, pack, add, output) =
           Unpacked(stage, role, input, add, output)
    BY <1>3 DEF Projected
  <2>3. AllSound(Projected(stage, role, n, input, pack, add, output))
    BY <2>1, <2>2
  <2> QED BY <2>3 DEF pack
<1> QED BY <1>1, <1>2, <1>3

\* The packed rows of a projection.
LEMMA PackTimely ==
  ASSUME Ready, NEW k \in Depths, NEW quantity, NEW stage
  PROVE  /\ \A o \in Fp8Pack(k, quantity) :
               /\ Written(o, stage) /\ Readable(o, stage)
               /\ \A p : Good(p) /\ p.view.buffer # "fp8" => Far(o, p) /\ Far(p, o)
         /\ \A o, p \in Fp8Pack(k, quantity) : o # p => Far(o, p)
<1>1. \A o \in Fp8Pack(k, quantity) : Good(o) /\ o.view.buffer = "fp8"
  BY Fp8Fact
<1>2. \A o, p \in Fp8Pack(k, quantity) : o # p => Far(o, p)
  BY Fp8Fact
<1>3. ASSUME NEW o \in Fp8Pack(k, quantity)
      PROVE  /\ Written(o, stage) /\ Readable(o, stage)
             /\ \A p : Good(p) /\ p.view.buffer # "fp8" => Far(o, p) /\ Far(p, o)
  <2>1. Good(o) /\ o.view.buffer = "fp8"
    BY <1>1
  <2> QED BY <2>1, Anywhere, Cross
<1> QED BY <1>2, <1>3

\* The projection of a mixer's last row onto the residual rows.
LEMMA OutputSound ==
  ASSUME Ready, NEW input, Readable(input, MixerOutput), input.view.buffer # "engine",
         Far(Mixed, input)
  PROVE  AllSound(Projected(MixerOutput, "out", 5120, input, Fp8Pack(6144, "mixer_output"),
                            {Hidden}, Mixed))
<1> DEFINE add == {Hidden}
           output == Mixed
<1>1. /\ Written(output, MixerOutput) /\ output.view.buffer \notin {"engine", "fp8"}
      /\ Far(output, input)
  BY RowsTimely, RowsFact, BuffersDiffer DEF RowBuffers
<1>2. \A read \in add : Readable(read, MixerOutput) /\ Far(output, read)
  BY RowsTimely
<1> HIDE DEF add, output
<1>3. 5120 \in Widths /\ 6144 \in Depths
  BY ShapesFact
<1>4. PICK n \in Widths, k \in Depths : n = 5120 /\ k = 6144
  BY <1>3
<1>5. AllSound(Projected(MixerOutput, "out", n, input, Fp8Pack(k, "mixer_output"), add, output))
  BY <1>1, <1>2, ProjectedSound
<1> QED BY <1>4, <1>5 DEF add, output

LEMMA PrefillGdnSound ==
  ASSUME Ready, layer # Layers, unit.kind = "prefill"
  PROVE  AllSound(PrefillGdnMixer)
<1>0. PICK five \in Depths, six \in Depths, wide \in Widths, slim \in Widths :
         five = 5120 /\ six = 6144 /\ wide = 10240 /\ slim = 6144
  BY ShapesFact
<1> DEFINE normalized == Gdn("normalized")
           input == Fp8Pack(five, "mixer_input")
           output == Fp8Pack(six, "mixer_output")
           oldRing == Persistent("conv_history", "old")
           newRing == Persistent("conv_history", "new")
           oldState == Persistent("gdn_s", "old")
           newState == Persistent("gdn_s", "new")
           quartet == GdnOperands({"q_hat", "k_hat", "alpha", "beta"})
           first == << Kernel(LayerNorm, {Hidden}, {normalized} \cup (IF Packs THEN input ELSE {})) >>
           qkv == Projected(Mixer, "qkv", wide, normalized, input, {}, Gdn("qkv"))
           z == Projected(Mixer, "z", slim, normalized, input, {}, Gdn("z"))
           a == Unpacked(Mixer, "a", normalized, {}, Gdn("a"))
           b == Unpacked(Mixer, "b", normalized, {}, Gdn("b"))
           core == << Kernel(Mixer, {Gdn("qkv"), oldRing}, {Gdn("convolved")}),
                      Kernel(Mixer, {Gdn("qkv"), oldRing}, {newRing}),
                      Kernel(Mixer, GdnOperands({"convolved", "a", "b"}), quartet),
                      Kernel(Mixer, quartet \cup {GdnV, oldState}, {Gdn("o"), newState}),
                      Kernel(Mixer, GdnOperands({"o", "z"}),
                                    IF Packs THEN output ELSE {Gdn("u")}) >>
           out == Projected(MixerOutput, "out", 5120, Gdn("u"), output, {Hidden}, Mixed)
<1>1. GdnBuffer = "prefill_gdn"
  BY DEF GdnBuffer
<1>2. /\ Good(normalized) /\ normalized.view.buffer = "prefill_gdn"
      /\ \A m \in GdnNames : Far(normalized, Gdn(m)) /\ Far(Gdn(m), normalized)
      /\ \A stage : Written(normalized, stage) /\ Readable(normalized, stage)
  BY PrefillGdnNormalized, Anywhere
<1>3. \A m \in GdnNames :
         /\ Good(Gdn(m)) /\ Gdn(m).view.buffer = "prefill_gdn"
         /\ \A stage : Written(Gdn(m), stage) /\ Readable(Gdn(m), stage)
         /\ \A n \in GdnNames : m # n => Far(Gdn(m), Gdn(n))
  BY <1>1, GdnFact, Anywhere
<1>4. /\ Good(GdnV) /\ GdnV.view.buffer = "prefill_gdn" /\ Readable(GdnV, Mixer)
      /\ \A m \in GdnNames \ {"convolved"} : Far(Gdn(m), GdnV)
  BY <1>1, GdnVFact, Anywhere
<1>5. ASSUME NEW o, Good(o), o.view.buffer = "prefill_gdn"
      PROVE  /\ Far(o, Hidden) /\ Far(Mixed, o)
             /\ Far(o, oldRing) /\ Far(newRing, o) /\ Far(o, newRing)
             /\ Far(o, oldState) /\ Far(newState, o) /\ Far(o, newState)
             /\ \A p \in input : Far(o, p) /\ Far(p, o)
             /\ \A p \in output : Far(o, p) /\ Far(p, o)
  <2>1. Far(o, Hidden) /\ Far(Mixed, o)
    BY <1>5, RowsTimely DEF RowBuffers
  <2>2. /\ Far(o, oldRing) /\ Far(newRing, o) /\ Far(o, newRing)
        /\ Far(o, oldState) /\ Far(newState, o) /\ Far(o, newState)
    BY <1>5, PersistentTimely DEF States
  <2>3. /\ \A p \in input : Far(o, p) /\ Far(p, o)
        /\ \A p \in output : Far(o, p) /\ Far(p, o)
    BY <1>5, PackTimely
  <2> QED BY <2>1, <2>2, <2>3
<1>6. /\ Readable(oldRing, Mixer) /\ Written(newRing, Mixer) /\ InPlace(newRing, oldRing)
      /\ Readable(oldState, Mixer) /\ Written(newState, Mixer) /\ InPlace(newState, oldState)
  BY PersistentTimely DEF States
<1>7. /\ \A o \in input : Written(o, LayerNorm) /\ Far(o, Hidden)
      /\ \A o, p \in input : o # p => Far(o, p)
      /\ \A o \in output : Written(o, Mixer)
      /\ \A o, p \in output : o # p => Far(o, p)
  <2>1. /\ \A o \in input : Written(o, LayerNorm)
        /\ \A o, p \in input : o # p => Far(o, p)
    BY PackTimely
  <2>2. /\ \A o \in output : Written(o, Mixer)
        /\ \A o, p \in output : o # p => Far(o, p)
    BY PackTimely
  <2>3. Good(Hidden) /\ Hidden.view.buffer # "fp8"
    BY RowsFact, BuffersDiffer DEF RowBuffers
  <2>4. \A o \in input : Far(o, Hidden)
    BY <2>3, PackTimely
  <2> QED BY <2>1, <2>2, <2>4
<1> HIDE DEF normalized, oldRing, newRing, oldState, newState
<1>8. AllSound(first)
  <2> DEFINE writes == {normalized} \cup (IF Packs THEN input ELSE {})
  <2> HIDE DEF input
  <2>1. /\ \A w \in writes : Written(w, LayerNorm) /\ Far(w, Hidden)
        /\ \A w, other \in writes : w # other => Far(w, other)
    BY <1>2, <1>5, <1>7
  <2> HIDE DEF writes
  <2>2. Sound(Kernel(LayerNorm, {Hidden}, writes))
    BY <2>1, RowsTimely, SoundKernel
  <2> QED BY <2>2, Sound1 DEF writes
<1>9. ASSUME NEW m \in GdnNames, NEW n \in Widths
      PROVE  /\ AllSound(Projected(Mixer, m, n, normalized, input, {}, Gdn(m)))
             /\ AllSound(Unpacked(Mixer, m, normalized, {}, Gdn(m)))
  <2>1. /\ Readable(normalized, Mixer) /\ normalized.view.buffer # "engine"
        /\ Written(Gdn(m), Mixer) /\ Gdn(m).view.buffer \notin {"engine", "fp8"}
        /\ Far(Gdn(m), normalized)
    BY <1>2, <1>3
  <2>2. AllSound(Unpacked(Mixer, m, normalized, {}, Gdn(m)))
    BY <2>1, UnpackedSound DEF InputOf
  <2>3. AllSound(Projected(Mixer, m, n, normalized, input, {}, Gdn(m)))
    BY <2>1, ProjectedSound
  <2> QED BY <2>2, <2>3
<1>10. AllSound(qkv) /\ AllSound(z) /\ AllSound(a) /\ AllSound(b)
  <2>1. "qkv" \in GdnNames /\ "z" \in GdnNames /\ "a" \in GdnNames /\ "b" \in GdnNames
    BY DEF GdnNames
  <2> QED BY <1>9, <2>1
<1>11. AllSound(out)
  <2>1. /\ Readable(Gdn("u"), MixerOutput) /\ Good(Gdn("u"))
        /\ Gdn("u").view.buffer = "prefill_gdn"
    BY <1>3 DEF GdnNames
  <2>2. /\ Written(Mixed, MixerOutput) /\ Mixed.view.buffer \notin {"engine", "fp8"}
        /\ Far(Mixed, Gdn("u")) /\ Readable(Hidden, MixerOutput) /\ Far(Mixed, Hidden)
    BY <1>5, <2>1, RowsTimely, RowsFact, BuffersDiffer DEF RowBuffers
  <2> QED BY <1>0, <2>1, <2>2, OutputSound
<1>12. Sound(Kernel(Mixer, {Gdn("qkv"), oldRing}, {Gdn("convolved")}))
       /\ Sound(Kernel(Mixer, {Gdn("qkv"), oldRing}, {newRing}))
  <2> DEFINE reads == {Gdn("qkv"), oldRing}
  <2>1. /\ Good(Gdn("qkv")) /\ Gdn("qkv").view.buffer = "prefill_gdn"
        /\ Readable(Gdn("qkv"), Mixer) /\ Far(Gdn("convolved"), Gdn("qkv"))
        /\ Good(Gdn("convolved")) /\ Gdn("convolved").view.buffer = "prefill_gdn"
        /\ Written(Gdn("convolved"), Mixer)
    BY <1>3 DEF GdnNames
  <2>2. \A read \in reads : /\ Readable(read, Mixer) /\ Far(Gdn("convolved"), read)
                            /\ Far(newRing, read) \/ InPlace(newRing, read)
    BY <1>5, <1>6, <2>1
  <2> HIDE DEF reads
  <2>3. Sound(Kernel(Mixer, reads, {Gdn("convolved")}))
    BY <2>1, <2>2, SoundWriter
  <2>4. Sound(Kernel(Mixer, reads, {newRing}))
    BY <1>6, <2>2, SoundKernel
  <2> QED BY <2>3, <2>4 DEF reads
<1>13. /\ \A o \in quartet : /\ Good(o) /\ o.view.buffer = "prefill_gdn"
                             /\ Written(o, Mixer) /\ Readable(o, Mixer) /\ Far(Gdn("o"), o)
       /\ \A o, p \in quartet : o # p => Far(o, p)
  <2>1. \A o \in quartet : \E m \in {"q_hat", "k_hat", "alpha", "beta"} : o = Gdn(m)
    BY DEF GdnOperands
  <2>2. {"q_hat", "k_hat", "alpha", "beta"} \subseteq GdnNames \ {"o"} /\ "o" \in GdnNames
    BY DEF GdnNames
  <2> HIDE DEF quartet
  <2> QED BY <1>3, <2>1, <2>2
<1>14. Sound(Kernel(Mixer, GdnOperands({"convolved", "a", "b"}), quartet))
  <2> DEFINE reads == GdnOperands({"convolved", "a", "b"})
  <2>1. \A o \in reads : \E m \in {"convolved", "a", "b"} : o = Gdn(m)
    BY DEF GdnOperands
  <2>2. \A o \in quartet : \E m \in {"q_hat", "k_hat", "alpha", "beta"} : o = Gdn(m)
    BY DEF GdnOperands
  <2>3. /\ {"convolved", "a", "b"} \subseteq GdnNames
        /\ {"q_hat", "k_hat", "alpha", "beta"} \subseteq GdnNames
        /\ {"convolved", "a", "b"} \cap {"q_hat", "k_hat", "alpha", "beta"} = {}
    BY DEF GdnNames
  <2> HIDE DEF reads, quartet
  <2>4. \A read \in reads : Readable(read, Mixer) /\ \A w \in quartet : Far(w, read)
    BY <1>3, <2>1, <2>2, <2>3
  <2>5. Sound(Kernel(Mixer, reads, quartet))
    BY <1>13, <2>4, SoundKernel
  <2> QED BY <2>5 DEF reads
<1>15. Sound(Kernel(Mixer, quartet \cup {GdnV, oldState}, {Gdn("o"), newState}))
  <2> DEFINE reads == quartet \cup {GdnV, oldState}
             writes == {Gdn("o"), newState}
  <2>1. /\ Good(Gdn("o")) /\ Gdn("o").view.buffer = "prefill_gdn" /\ Written(Gdn("o"), Mixer)
        /\ Far(Gdn("o"), GdnV)
    BY <1>3, <1>4 DEF GdnNames
  <2> HIDE DEF quartet
  <2>2. /\ \A read \in reads : Readable(read, Mixer)
        /\ \A w \in writes : Written(w, Mixer)
        /\ \A w, other \in writes : w # other => Far(w, other)
        /\ \A w \in writes, read \in reads : Far(w, read) \/ InPlace(w, read)
    BY <1>4, <1>5, <1>6, <1>13, <2>1
  <2> HIDE DEF reads, writes
  <2>3. Sound(Kernel(Mixer, reads, writes))
    BY <2>2, SoundKernel
  <2> QED BY <2>3 DEF reads, writes
<1>16. Sound(Kernel(Mixer, GdnOperands({"o", "z"}), IF Packs THEN output ELSE {Gdn("u")}))
  <2> DEFINE reads == GdnOperands({"o", "z"})
             writes == IF Packs THEN output ELSE {Gdn("u")}
  <2>1. \A o \in reads : \E m \in {"o", "z"} : o = Gdn(m)
    BY DEF GdnOperands
  <2>2. {"o", "z"} \subseteq GdnNames \ {"u"} /\ "u" \in GdnNames
    BY DEF GdnNames
  <2> HIDE DEF reads, output
  <2>3. \A read \in reads : /\ Good(read) /\ read.view.buffer = "prefill_gdn"
                            /\ Readable(read, Mixer) /\ Far(Gdn("u"), read)
    BY <1>3, <2>1, <2>2
  <2>4. /\ \A w \in writes : Written(w, Mixer)
        /\ \A w, other \in writes : w # other => Far(w, other)
        /\ \A w \in writes, read \in reads : Far(w, read)
    BY <1>3, <1>5, <1>7, <2>2, <2>3
  <2> HIDE DEF writes
  <2>5. Sound(Kernel(Mixer, reads, writes))
    BY <2>3, <2>4, SoundKernel
  <2> QED BY <2>5 DEF reads, writes
<1>17. AllSound(core)
  BY <1>12, <1>14, <1>15, <1>16, Sound5
<1>18. PrefillGdnMixer = first \o qkv \o z \o a \o b \o core \o out
  BY <1>0 DEF PrefillGdnMixer, normalized, oldRing, newRing, oldState, newState
<1> HIDE DEF first, qkv, z, a, b, core, out
<1>19. AllSound(first \o qkv \o z \o a \o b \o core \o out)
  BY <1>8, <1>10, <1>11, <1>17, SoundConcat
<1> QED BY <1>18, <1>19

\* The row that a prefill normalizes for an attention layer it does not pack.
LEMMA PrefillAttentionNormalized ==
  ASSUME Ready, unit.kind = "prefill"
  PROVE  /\ Good(Attention("normalized"))
         /\ Attention("normalized").view.buffer = "prefill_attention"
         /\ \A n \in AttentionNames : Far(Attention(n), Attention("normalized"))
<1>1. ASSUME NEW k
      PROVE  Attention(k).view = View("prefill_attention", 0,
                                      Carved(PrefillAttention, k).first * TokenCapacity,
                                      Carved(PrefillAttention, k).bytes * Rows)
  BY DEF Attention, Holding
<1>2. /\ Allocated("prefill_attention") = TokenCapacity * CarvedBytes(PrefillAttention)
      /\ "prefill_attention" # "scratch"
  BY SMT DEF Allocated
<1>3. "normalized" \in Names(PrefillAttention) /\ Carving(PrefillAttention)
  BY PrefillAttentionFact
<1>4. ASSUME NEW n \in AttentionNames
      PROVE  n \in Names(PrefillAttention) /\ n # "normalized"
  BY PrefillAttentionFact DEF AttentionNames
<1>5. ASSUME NEW n \in AttentionNames
      PROVE  Far(Attention(n), Attention("normalized"))
  BY <1>1, <1>2, <1>3, <1>4, WorkspaceFact
<1>6. /\ Good(Attention("normalized"))
      /\ Attention("normalized").view.buffer = "prefill_attention"
  BY <1>1, <1>2, <1>3, WorkspaceFact
<1> QED BY <1>5, <1>6

LEMMA PrefillAttentionSound ==
  ASSUME Ready, layer # Layers, unit.kind = "prefill"
  PROVE  AllSound(PrefillAttentionMixer)
<1>0. PICK five \in Depths, six \in Depths, wide \in Widths, slim \in Widths :
         five = 5120 /\ six = 6144 /\ wide = 12288 /\ slim = 1024
  BY ShapesFact
<1> DEFINE normalized == Attention("normalized")
           input == Fp8Pack(five, "mixer_input")
           output == Fp8Pack(six, "mixer_output")
           kv == Persistent("kv", "new")
           inputs == AttentionOperands({"qg", "k", "v"})
           outputs == AttentionOperands({"q", "g"})
           first == << Kernel(LayerNorm, {Hidden}, IF Packs THEN input ELSE {normalized}) >>
           qg == Projected(Mixer, "qg", wide, normalized, input, {}, Attention("qg"))
           k == Projected(Mixer, "k", slim, normalized, input, {}, Attention("k"))
           v == Projected(Mixer, "v", slim, normalized, input, {}, Attention("v"))
           core == << Kernel(Mixer, inputs, outputs \cup {kv}),
                      Kernel(Mixer, outputs \cup {kv},
                                    IF Packs THEN output ELSE {Attention("y")}) >>
           out == Projected(MixerOutput, "out", 5120, Attention("y"), output, {Hidden}, Mixed)
<1>1. AttentionBuffer = "prefill_attention"
  BY DEF AttentionBuffer
<1>2. /\ Good(normalized) /\ normalized.view.buffer = "prefill_attention"
      /\ \A m \in AttentionNames : Far(Attention(m), normalized)
      /\ \A stage : Written(normalized, stage) /\ Readable(normalized, stage)
  BY PrefillAttentionNormalized, Anywhere
<1>3. \A m \in AttentionNames \cup {"y"} :
         /\ Good(Attention(m)) /\ Attention(m).view.buffer = "prefill_attention"
         /\ \A stage : Written(Attention(m), stage) /\ Readable(Attention(m), stage)
         /\ \A n \in AttentionNames \cup {"y"} : m # n => Far(Attention(m), Attention(n))
  BY <1>1, AttentionFact, Anywhere DEF Places
<1>4. Readable(kv, Mixer) /\ Written(kv, Mixer) /\ Good(kv) /\ kv.view.buffer = "kv"
  BY PersistentTimely DEF States
<1>5. ASSUME NEW o, Good(o), o.view.buffer = "prefill_attention"
      PROVE  /\ Far(o, Hidden) /\ Far(Mixed, o) /\ Far(o, kv) /\ Far(kv, o)
             /\ \A p \in input : Far(o, p) /\ Far(p, o)
             /\ \A p \in output : Far(o, p) /\ Far(p, o)
  <2>1. Far(o, Hidden) /\ Far(Mixed, o)
    BY <1>5, RowsTimely DEF RowBuffers
  <2>2. Far(o, kv) /\ Far(kv, o)
    BY <1>5, PersistentTimely DEF States
  <2>3. /\ \A p \in input : Far(o, p) /\ Far(p, o)
        /\ \A p \in output : Far(o, p) /\ Far(p, o)
    BY <1>5, PackTimely
  <2> QED BY <2>1, <2>2, <2>3
<1>6. /\ \A o \in input : Written(o, LayerNorm) /\ Far(o, Hidden)
      /\ \A o, p \in input : o # p => Far(o, p)
      /\ \A o \in output : Written(o, Mixer) /\ Far(o, kv)
      /\ \A o, p \in output : o # p => Far(o, p)
  <2>1. /\ \A o \in input : Written(o, LayerNorm)
        /\ \A o, p \in input : o # p => Far(o, p)
    BY PackTimely
  <2>2. /\ \A o \in output : Written(o, Mixer)
        /\ \A o, p \in output : o # p => Far(o, p)
    BY PackTimely
  <2>3. Good(Hidden) /\ Hidden.view.buffer # "fp8"
    BY RowsFact, BuffersDiffer DEF RowBuffers
  <2>4. \A o \in input : Far(o, Hidden)
    BY <2>3, PackTimely
  <2>5. \A o \in output : Far(o, kv)
    BY <1>4, PackTimely
  <2> QED BY <2>1, <2>2, <2>4, <2>5
<1> HIDE DEF normalized, kv
<1>7. AllSound(first)
  <2> DEFINE writes == IF Packs THEN input ELSE {normalized}
  <2> HIDE DEF input
  <2>1. /\ \A w \in writes : Written(w, LayerNorm) /\ Far(w, Hidden)
        /\ \A w, other \in writes : w # other => Far(w, other)
    BY <1>2, <1>5, <1>6
  <2> HIDE DEF writes
  <2>2. Sound(Kernel(LayerNorm, {Hidden}, writes))
    BY <2>1, RowsTimely, SoundKernel
  <2> QED BY <2>2, Sound1 DEF writes
<1>8. ASSUME NEW m \in AttentionNames, NEW n \in Widths
      PROVE  AllSound(Projected(Mixer, m, n, normalized, input, {}, Attention(m)))
  <2>1. /\ Readable(normalized, Mixer) /\ normalized.view.buffer # "engine"
        /\ Written(Attention(m), Mixer) /\ Attention(m).view.buffer \notin {"engine", "fp8"}
        /\ Far(Attention(m), normalized)
    BY <1>2, <1>3
  <2> QED BY <2>1, ProjectedSound
<1>9. AllSound(qg) /\ AllSound(k) /\ AllSound(v)
  <2>1. "qg" \in AttentionNames /\ "k" \in AttentionNames /\ "v" \in AttentionNames
    BY DEF AttentionNames
  <2> QED BY <1>8, <2>1
<1>10. AllSound(out)
  <2>1. /\ Good(Attention("y")) /\ Attention("y").view.buffer = "prefill_attention"
        /\ Readable(Attention("y"), MixerOutput)
    BY <1>3
  <2>2. Far(Mixed, Attention("y"))
    BY <1>5, <2>1
  <2> QED BY <1>0, <2>1, <2>2, OutputSound
<1>11. /\ \A o \in inputs : \E m \in {"qg", "k", "v"} : o = Attention(m)
       /\ \A o \in outputs : \E m \in {"q", "g"} : o = Attention(m)
  BY DEF AttentionOperands
<1> HIDE DEF inputs, outputs, input, output
<1>12. /\ \A o \in inputs : Good(o) /\ o.view.buffer = "prefill_attention" /\ Readable(o, Mixer)
       /\ \A o \in outputs : /\ Good(o) /\ o.view.buffer = "prefill_attention"
                             /\ Written(o, Mixer) /\ Readable(o, Mixer)
                             /\ Far(Attention("y"), o)
       /\ \A o, p \in outputs : o # p => Far(o, p)
       /\ \A o \in outputs, p \in inputs : Far(o, p)
  <2>1. /\ {"qg", "k", "v"} \subseteq AttentionNames /\ {"q", "g"} \subseteq AttentionNames
        /\ {"qg", "k", "v"} \cap {"q", "g"} = {} /\ "y" \notin AttentionNames
    BY DEF AttentionNames
  <2> QED BY <1>3, <1>11, <2>1
<1>13. Sound(Kernel(Mixer, inputs, outputs \cup {kv}))
  <2> DEFINE writes == outputs \cup {kv}
  <2>1. /\ \A w \in writes : Written(w, Mixer)
        /\ \A w, other \in writes : w # other => Far(w, other)
        /\ \A w \in writes, read \in inputs : Far(w, read)
    BY <1>4, <1>5, <1>12
  <2> HIDE DEF writes
  <2>2. Sound(Kernel(Mixer, inputs, writes))
    BY <1>12, <2>1, SoundKernel
  <2> QED BY <2>2 DEF writes
<1>14. Sound(Kernel(Mixer, outputs \cup {kv}, IF Packs THEN output ELSE {Attention("y")}))
  <2> DEFINE reads == outputs \cup {kv}
             writes == IF Packs THEN output ELSE {Attention("y")}
  <2>1. /\ Good(Attention("y")) /\ Attention("y").view.buffer = "prefill_attention"
        /\ Written(Attention("y"), Mixer) /\ Far(Attention("y"), kv)
    BY <1>3, <1>5
  <2>2. /\ \A read \in reads : Readable(read, Mixer)
        /\ \A w \in writes : Written(w, Mixer)
        /\ \A w, other \in writes : w # other => Far(w, other)
        /\ \A w \in writes, read \in reads : Far(w, read)
    BY <1>4, <1>5, <1>6, <1>12, <2>1
  <2> HIDE DEF reads, writes
  <2>3. Sound(Kernel(Mixer, reads, writes))
    BY <2>2, SoundKernel
  <2> QED BY <2>3 DEF reads, writes
<1>15. AllSound(core)
  BY <1>13, <1>14, Sound2
<1>16. PrefillAttentionMixer = first \o qg \o k \o v \o core \o out
  BY <1>0 DEF PrefillAttentionMixer, normalized, kv, inputs, outputs, input, output
<1> HIDE DEF first, qg, k, v, core, out
<1>17. AllSound(first \o qg \o k \o v \o core \o out)
  BY <1>7, <1>9, <1>10, <1>15, SoundConcat
<1> QED BY <1>16, <1>17

\* PrefillEngine::mlp, packed and unpacked.
LEMMA PrefillMlpSound ==
  ASSUME Ready
  PROVE  AllSound(PrefillMlp)
<1> DEFINE normalized == EngineAt("normalized", 0, Rows * 10240, "mlp_input")
           swiglu == EngineAt("swiglu", 0, Rows * 34816, "swiglu")
           gate == AccumA("gate")
           up == AccumB("up")
           tileA == WeightTile("gate")
           tileB == WeightTile("up")
           packed == << Kernel(MlpNorm, {Mixed}, NvFp4Pack),
                        Kernel(MlpSwiglu, NvFp4Pack, {gate, Library}),
                        Kernel(MlpSwiglu, NvFp4Pack, {up, Library}) >>
           plain == << Kernel(MlpNorm, {Mixed}, {normalized}),
                       Kernel(MlpSwiglu, {}, {tileA}),
                       Kernel(MlpSwiglu, {tileA, normalized}, {gate, Library}),
                       Kernel(MlpSwiglu, {}, {tileB}),
                       Kernel(MlpSwiglu, {tileB, normalized}, {up, Library}) >>
           combine == << Kernel(MlpSwiglu, {gate, up}, {swiglu}) >>
           down == Unpacked(MlpDown, "down", swiglu, {Mixed}, NextHidden)
<1>1. /\ InEngine(normalized, "normalized") /\ InEngine(swiglu, "swiglu")
      /\ InEngine(gate, "accum_a") /\ InEngine(up, "accum_b")
      /\ InEngine(tileA, "weight_tile") /\ InEngine(tileB, "weight_tile")
      /\ InEngine(Library, "library")
      /\ \A o \in NvFp4Pack : InEngine(o, "weight_tile")
      /\ \A o, p \in NvFp4Pack : o # p => Far(o, p)
  BY EngineOperands
<1> HIDE DEF normalized, swiglu, gate, up, tileA, tileB
<1>2. ASSUME NEW m \in EngineNames, NEW o, InEngine(o, m)
      PROVE  /\ \A stage : Written(o, stage) /\ Readable(o, stage)
             /\ Far(o, Mixed) /\ Far(NextHidden, o)
             /\ \A n \in EngineNames : \A p : InEngine(p, n) /\ m # n => Far(o, p)
  <2>1. Good(o) /\ o.view.buffer = "engine"
    BY <1>2, EngineApart
  <2>2. Far(o, Mixed) /\ Far(NextHidden, o)
    BY <2>1, RowsTimely DEF RowBuffers
  <2>3. \A n \in EngineNames : \A p : InEngine(p, n) /\ m # n => Far(o, p)
    BY <1>2, EngineApart
  <2> QED BY <2>1, <2>2, <2>3, Anywhere
<1>3. /\ "normalized" \in EngineNames /\ "swiglu" \in EngineNames /\ "accum_a" \in EngineNames
      /\ "accum_b" \in EngineNames /\ "weight_tile" \in EngineNames /\ "library" \in EngineNames
  BY DEF EngineNames
<1>4. /\ Far(gate, Library) /\ Far(Library, gate) /\ Far(up, Library) /\ Far(Library, up)
      /\ \A o : InEngine(o, "weight_tile") => Far(gate, o) /\ Far(up, o) /\ Far(Library, o)
      /\ Far(gate, normalized) /\ Far(up, normalized) /\ Far(Library, normalized)
      /\ Far(swiglu, gate) /\ Far(swiglu, up)
  BY <1>1, <1>2, <1>3
<1>5. \A stage :
         /\ Written(gate, stage) /\ Readable(gate, stage)
         /\ Written(up, stage) /\ Readable(up, stage)
         /\ Written(swiglu, stage) /\ Readable(swiglu, stage)
         /\ Written(normalized, stage) /\ Readable(normalized, stage)
         /\ \A o : InEngine(o, "weight_tile") => /\ Written(o, stage) /\ Readable(o, stage)
                                                 /\ Far(o, Mixed)
  BY <1>1, <1>2, <1>3
<1>6. Far(normalized, Mixed)
  BY <1>1, <1>2, <1>3
<1>7. AllSound(packed)
  <2> DEFINE pack == NvFp4Pack
  <2>1. \A o \in pack : /\ Written(o, MlpNorm) /\ Readable(o, MlpSwiglu) /\ Far(o, Mixed)
                        /\ Far(gate, o) /\ Far(up, o) /\ Far(Library, o)
    BY <1>1, <1>4, <1>5
  <2>2. \A o, p \in pack : o # p => Far(o, p)
    BY <1>1
  <2> HIDE DEF pack
  <2>3. Sound(Kernel(MlpNorm, {Mixed}, pack))
    BY <2>1, <2>2, RowsTimely, SoundKernel
  <2>4. Sound(Kernel(MlpSwiglu, pack, {gate, Library}))
    BY <1>4, <1>5, <2>1, SoundLibrary
  <2>5. Sound(Kernel(MlpSwiglu, pack, {up, Library}))
    BY <1>4, <1>5, <2>1, SoundLibrary
  <2> QED BY <2>3, <2>4, <2>5, Sound3 DEF pack
<1>8. ASSUME NEW tile, InEngine(tile, "weight_tile"), NEW sum, sum \in {gate, up}
      PROVE  /\ Sound(Kernel(MlpSwiglu, {}, {tile}))
             /\ Sound(Kernel(MlpSwiglu, {tile, normalized}, {sum, Library}))
  <2>1. Sound(Kernel(MlpSwiglu, {}, {tile}))
    BY <1>5, <1>8, SoundWriter
  <2> DEFINE reads == {tile, normalized}
  <2>2. \A read \in reads : Readable(read, MlpSwiglu) /\ Far(sum, read) /\ Far(Library, read)
    BY <1>4, <1>5, <1>8
  <2>3. Written(sum, MlpSwiglu) /\ Far(sum, Library) /\ Far(Library, sum)
    BY <1>4, <1>5, <1>8
  <2> HIDE DEF reads
  <2>4. Sound(Kernel(MlpSwiglu, reads, {sum, Library}))
    BY <2>2, <2>3, SoundLibrary
  <2> QED BY <2>1, <2>4 DEF reads
<1>9. AllSound(plain)
  <2>1. Sound(Kernel(MlpNorm, {Mixed}, {normalized}))
    BY <1>5, <1>6, RowsTimely, SoundWriter
  <2> QED BY <1>1, <1>8, <2>1, Sound5
<1>10. AllSound(combine)
  <2> DEFINE reads == {gate, up}
  <2>1. \A read \in reads : Readable(read, MlpSwiglu) /\ Far(swiglu, read)
    BY <1>4, <1>5
  <2> HIDE DEF reads
  <2>2. Sound(Kernel(MlpSwiglu, reads, {swiglu}))
    BY <1>5, <2>1, SoundWriter
  <2> QED BY <2>2, Sound1 DEF reads
<1>11. AllSound(down)
  <2> DEFINE add == {Mixed}
  <2>1. InputOf(swiglu) /\ Readable(swiglu, MlpDown)
    BY <1>1, <1>5 DEF InputOf
  <2>2. /\ Written(NextHidden, MlpDown) /\ NextHidden.view.buffer # "engine"
        /\ \A read \in add : Readable(read, MlpDown) /\ Far(NextHidden, read)
    BY RowsTimely, RowsFact, BuffersDiffer DEF RowBuffers
  <2> HIDE DEF add
  <2>3. AllSound(Unpacked(MlpDown, "down", swiglu, add, NextHidden))
    BY <2>1, <2>2, UnpackedSound
  <2> QED BY <2>3 DEF add
<1>12. PrefillMlp = (IF unit.mlp = "nvfp4" THEN packed ELSE plain) \o combine \o down
  BY DEF PrefillMlp, normalized, swiglu, gate, up, tileA, tileB
<1> HIDE DEF packed, plain, combine, down
<1>13. AllSound((IF unit.mlp = "nvfp4" THEN packed ELSE plain) \o combine \o down)
  BY <1>7, <1>9, <1>10, <1>11, SoundConcat
<1> QED BY <1>12, <1>13

-----------------------------------------------------------------------------
\* Every kernel of a layer is sound, whatever the unit and the layer.
LEMMA ScheduleSound ==
  ASSUME Ready
  PROVE  AllSound(Schedule)
<1>1. CASE layer = Layers
  BY <1>1, ReadoutSound DEF Schedule
<1>2. CASE layer # Layers
  <2> DEFINE embedding == IF layer = 0 THEN << Kernel(0, {}, {Hidden}) >> ELSE <<>>
             mixer == CASE unit.kind = "decode" /\ ~Attends(layer) -> DecodeGdn
                        [] unit.kind = "decode" /\ Attends(layer) -> DecodeAttention
                        [] unit.kind = "prefill" /\ ~Attends(layer) -> PrefillGdnMixer
                        [] unit.kind = "prefill" /\ Attends(layer) -> PrefillAttentionMixer
             mlp == CASE unit.mlp = "q8" -> Q8Mlp
                      [] unit.mlp # "q8" /\ unit.kind = "decode" -> DecodeMlp
                      [] unit.mlp # "q8" /\ unit.kind = "prefill" -> PrefillMlp
  <2>1. unit.kind \in {"decode", "prefill"}
    BY UnitFact
  <2>2. AllSound(embedding)
    BY EmbeddingSound, SoundNone
  <2>3. AllSound(mixer)
    <3>1. CASE unit.kind = "decode" /\ Attends(layer)
      <4>1. mixer = DecodeAttention
        BY <3>1
      <4> QED BY <1>2, <3>1, <4>1, DecodeAttentionSound
    <3>2. CASE unit.kind = "decode" /\ ~Attends(layer)
      <4>1. mixer = DecodeGdn
        BY <3>2
      <4> QED BY <1>2, <3>2, <4>1, DecodeGdnSound
    <3>3. CASE unit.kind = "prefill" /\ Attends(layer)
      <4>1. mixer = PrefillAttentionMixer
        BY <3>3
      <4> QED BY <1>2, <3>3, <4>1, PrefillAttentionSound
    <3>4. CASE unit.kind = "prefill" /\ ~Attends(layer)
      <4>1. mixer = PrefillGdnMixer
        BY <3>4
      <4> QED BY <1>2, <3>4, <4>1, PrefillGdnSound
    <3> QED BY <2>1, <3>1, <3>2, <3>3, <3>4
  <2>4. AllSound(mlp)
    <3>1. CASE unit.mlp = "q8"
      <4>1. mlp = Q8Mlp
        BY <3>1
      <4> QED BY <4>1, Q8MlpSound
    <3>2. CASE unit.mlp # "q8" /\ unit.kind = "decode"
      <4>1. mlp = DecodeMlp
        BY <3>2
      <4> QED BY <3>2, <4>1, DecodeMlpSound
    <3>3. CASE unit.mlp # "q8" /\ unit.kind = "prefill"
      <4>1. mlp = PrefillMlp
        BY <3>3
      <4> QED BY <4>1, PrefillMlpSound
    <3> QED BY <2>1, <3>1, <3>2, <3>3
  <2>5. Schedule = embedding \o mixer \o mlp
    BY <1>2 DEF Schedule
  <2> HIDE DEF embedding, mixer, mlp
  <2> QED BY <2>2, <2>3, <2>4, <2>5, SoundConcat
<1> QED BY <1>1, <1>2

LEMMA LaunchSound ==
  ASSUME Ready, Launching, at \in Nat \ {0}
  PROVE  Sound(Schedule[at])
<1>1. PICK T : Schedule \in Seq(T) /\ \A kernel \in T : Sound(kernel)
  BY ScheduleSound DEF AllSound
<1>2. at \in 1 .. Len(Schedule)
  BY <1>1 DEF Launching
<1>3. Schedule[at] \in T
  BY <1>1, <1>2
<1> QED BY <1>1, <1>3

-----------------------------------------------------------------------------
\* The inductive invariant of a unit: the plan's own, the buffers of rows apart,
\* and what is in scratch written by the stage that writes such a quantity.
Staged(kept) == kept.view.buffer = "scratch" => kept.stage = StageOf(kept.value[1])

FlowInv == /\ PlanInv
           /\ at \in Nat \ {0}
           /\ flow = "idle" => /\ layer = 0 /\ residual = "residual_h"
                               /\ mid = "residual_h_mid" /\ next = "next_h"
           /\ flow # "idle" => Ready
           /\ \A kept \in memory : Staged(kept)

LEMMA FlowInitInv == FlowInit => FlowInv
  BY PlanInitInv DEF FlowInit, FlowInv

\* A planner's step is one of a unit that has not begun.
LEMMA PlanStepIdle == PlanNext => planning \in {"checking", "placing"}
  BY DEF PlanNext, PlanStep, Check, HostAllocationFails, SizeOverflows, Pass, MoveUp, Place, Finish

LEMMA BeginInv == FlowInv /\ BeginUnit => FlowInv'
<1> SUFFICES ASSUME FlowInv, BeginUnit PROVE FlowInv'
  OBVIOUS
<1>1. PlanInv'
  <2>1. UNCHANGED planVars
    BY DEF BeginUnit, planVars
  <2> QED BY <2>1, PlanStepInv DEF FlowInv
<1>2. Ready'
  <2>1. PICK formats \in Formats, kind \in {"decode", "prefill"}, rows \in RowCounts :
           /\ kind = "decode" => rows = 1
           /\ unit' = [kind |-> kind, rows |-> rows, mixer |-> formats[1], mlp |-> formats[2]]
           /\ next' = IF kind = "decode" THEN residual ELSE "next_h"
    BY DEF BeginUnit
  <2>2. formats[1] \in {"plain", "fp8"} /\ formats[2] \in {"bounded", "nvfp4", "q8"}
    BY DEF Formats
  <2>3. rows \in 1 .. TokenCapacity
    BY FlowAssumption
  <2>4. unit' \in Units /\ (unit.kind = "decode" => Rows = 1)'
    BY <2>1, <2>2, <2>3 DEF Units, Rows
  <2>5. /\ {residual, mid, next}' \subseteq RowBuffers
        /\ (mid # residual)' /\ (mid # next)' /\ (unit.kind = "prefill" => residual # next)'
    BY <2>1 DEF BeginUnit, FlowInv, RowBuffers
  <2>6. (layer \in 0 .. Layers)'
    BY FlowAssumption DEF BeginUnit, FlowInv
  <2>7. /\ planning' = "planned"
        /\ \E capacity \in KvCapacities : requests' = V0Requests(TokenCapacity, capacity)
    BY DEF BeginUnit, planVars
  <2> QED BY <1>1, <2>4, <2>5, <2>6, <2>7 DEF Ready
<1>3. \A kept \in memory' : Staged(kept)
  BY DEF BeginUnit, Kept, View, Staged
<1> QED BY <1>1, <1>2, <1>3 DEF FlowInv, BeginUnit

LEMMA LaunchInv == FlowInv /\ Launch => FlowInv'
<1> SUFFICES ASSUME FlowInv, Launch PROVE FlowInv'
  OBVIOUS
<1>1. PlanInv' /\ Ready' /\ Ready
  <2>1. Ready
    BY DEF Launch, FlowInv
  <2>2. PlanInv'
    <3>1. UNCHANGED planVars
      BY DEF Launch, planVars
    <3> QED BY <3>1, PlanStepInv DEF FlowInv
  <2>3. Ready'
    BY <2>1, <2>2 DEF Launch, Ready, planVars, Rows
  <2> QED BY <2>1, <2>2, <2>3
<1>2. \A kept \in memory' : Staged(kept)
  <2> DEFINE kernel == Schedule[at]
  <2>1. Launching
    BY DEF Launch, Launching
  <2>2. \A w \in kernel.writes : w.view.buffer = "scratch" => kernel.stage = StageOf(w.value[1])
    BY <1>1, <2>1, LaunchSound DEF FlowInv, Sound, Written
  <2> HIDE DEF kernel
  <2>3. \A kept \in memory' :
           \/ kept \in memory
           \/ \E w \in kernel.writes :
                 kept = [view |-> w.view, value |-> w.value, stage |-> kernel.stage]
    BY DEF Launch, kernel
  <2> QED BY <2>2, <2>3 DEF FlowInv, Staged
<1> QED BY <1>1, <1>2 DEF FlowInv, Launch

LEMMA FinishLayerInv == FlowInv /\ FinishLayer => FlowInv'
<1> SUFFICES ASSUME FlowInv, FinishLayer PROVE FlowInv'
  OBVIOUS
<1>1. Ready
  BY DEF FinishLayer, FlowInv
<1>2. PlanInv'
  <2>1. UNCHANGED planVars
    BY DEF FinishLayer, planVars
  <2> QED BY <2>1, PlanStepInv DEF FlowInv
<1>3. /\ {residual, mid, next}' \subseteq RowBuffers
      /\ (mid # residual)' /\ (mid # next)' /\ (unit.kind = "prefill" => residual # next)'
  BY <1>1 DEF FinishLayer, Rotate, Ready
<1>4. (layer \in 0 .. Layers)'
  BY <1>1, FlowAssumption DEF FinishLayer, Ready
<1>5. Ready'
  BY <1>1, <1>2, <1>3, <1>4 DEF FinishLayer, Ready, planVars, Rows
<1> QED BY <1>2, <1>5 DEF FlowInv, FinishLayer

LEMMA FlowStepInv == FlowInv /\ [FlowNext]_<<planVars, flowVars>> => FlowInv'
<1> SUFFICES ASSUME FlowInv, [FlowNext]_<<planVars, flowVars>> PROVE FlowInv'
  OBVIOUS
<1>1. CASE PlanNext /\ UNCHANGED flowVars
  <2>1. flow = "idle"
    BY <1>1, PlanStepIdle DEF FlowInv, Ready
  <2>2. PlanInv'
    BY <1>1, PlanStepInv DEF FlowInv
  <2> QED BY <1>1, <2>1, <2>2 DEF FlowInv, flowVars
<1>2. CASE BeginUnit
  BY <1>2, BeginInv
<1>3. CASE Launch
  BY <1>3, LaunchInv
<1>4. CASE FinishLayer
  BY <1>4, FinishLayerInv
<1> DEFINE rest == <<unit, layer, at, residual, mid, next, memory>>
<1>5. UNCHANGED planVars /\ UNCHANGED rest /\ flow' \in {flow, "done"} /\ (flow' # flow => Ready)
      => FlowInv'
  <2> SUFFICES ASSUME UNCHANGED planVars, UNCHANGED rest, flow' \in {flow, "done"},
                      flow' # flow => Ready
               PROVE  FlowInv'
    OBVIOUS
  <2>1. PlanInv'
    BY PlanStepInv DEF FlowInv
  <2>2. Ready => Ready'
    BY <2>1 DEF Ready, planVars, Rows
  <2> QED BY <2>1, <2>2 DEF FlowInv
<1>6. CASE FinishUnit
  <2>1. Ready
    BY <1>6 DEF FinishUnit, FlowInv
  <2>2. UNCHANGED planVars /\ UNCHANGED rest /\ flow' = "done"
    BY <1>6 DEF FinishUnit, planVars
  <2> QED BY <1>5, <2>1, <2>2
<1>7. CASE UNCHANGED <<planVars, flowVars>>
  <2>1. UNCHANGED planVars /\ UNCHANGED flowVars
    BY <1>7
  <2>2. UNCHANGED rest /\ flow' = flow
    BY <2>1 DEF flowVars
  <2> QED BY <1>5, <2>1, <2>2
<1> QED BY <1>1, <1>2, <1>3, <1>4, <1>6, <1>7 DEF FlowNext

LEMMA FlowInvHolds == FlowSpec => []FlowInv
  BY FlowInitInv, FlowStepInv, PTL DEF FlowSpec

LEMMA FlowInside == FlowInv => OperandsStayInside
<1> SUFFICES ASSUME FlowInv, Launching PROVE OperandsStayInside
  BY DEF OperandsStayInside
<1>1. Ready /\ at \in Nat \ {0}
  BY DEF FlowInv, Launching
<1>2. Sound(Schedule[at])
  BY <1>1, LaunchSound
<1> QED BY <1>2 DEF OperandsStayInside, Sound, Written, Readable, Good

LEMMA FlowAliases == FlowInv => NoKernelAliases
<1> SUFFICES ASSUME FlowInv, Launching PROVE NoKernelAliases
  BY DEF NoKernelAliases
<1>1. Ready /\ at \in Nat \ {0}
  BY DEF FlowInv, Launching
<1>2. Sound(Schedule[at])
  BY <1>1, LaunchSound
<1> QED BY <1>2 DEF NoKernelAliases, Sound, Far, InPlace

LEMMA FlowDeclared == FlowInv => DeclaredLiveWhileUsed
<1> SUFFICES ASSUME FlowInv, Launching PROVE DeclaredLiveWhileUsed
  BY DEF DeclaredLiveWhileUsed
<1>1. Ready /\ at \in Nat \ {0} /\ \A kept \in memory : Staged(kept)
  BY DEF FlowInv, Launching
<1> DEFINE kernel == Schedule[at]
<1>2. Sound(kernel)
  BY <1>1, LaunchSound
<1> HIDE DEF kernel
<1>3. \A w \in kernel.writes :
         w.view.buffer = "scratch" => Covered(w.view.slot, kernel.stage, kernel.stage)
  BY <1>2 DEF Sound, Written
<1>4. ASSUME NEW read \in kernel.reads, NEW kept \in memory, read.view.buffer = "scratch",
             Current(read, kept)
      PROVE  Covered(read.view.slot, kept.stage, kernel.stage)
  <2>1. Covered(read.view.slot, StageOf(read.value[1]), kernel.stage)
    BY <1>2, <1>4 DEF Sound, Readable
  <2>2. kept.view.buffer = "scratch" /\ kept.value = read.value
    BY <1>4 DEF Current, Contains
  <2>3. kept.stage = StageOf(read.value[1])
    BY <1>1, <2>2 DEF Staged
  <2> QED BY <2>1, <2>3
<1> QED BY <1>3, <1>4 DEF DeclaredLiveWhileUsed, Covered, kernel

\* Every operand of every kernel lies inside the buffer and inside the scratch
\* request it was carved from, for every capacity, chunk length and number of layers.
THEOREM OperandsInside == FlowSpec => []OperandsStayInside
  BY FlowInvHolds, FlowInside, PTL

\* No kernel writes over its own operands: the launchers' alias checks never refuse.
THEOREM KernelsDoNotAlias == FlowSpec => []NoKernelAliases
  BY FlowInvHolds, FlowAliases, PTL

\* Scratch is declared live from the stage that writes it to the last that reads it.
THEOREM ScratchDeclaredLive == FlowSpec => []DeclaredLiveWhileUsed
  BY FlowInvHolds, FlowDeclared, PTL

-----------------------------------------------------------------------------
\* What is known to be in memory from kernel to kernel: the operands a kernel
\* reads are in what is known before it, or part of them are, and what is known
\* after it was known before and is clear of what it writes, or it wrote it.
Supplies(known, kernel) ==
    \A read \in kernel.reads :
        read \in known \/ \E o \in known : o.value = read.value /\ Contains(o.view, read.view)

After(known, kernel) ==
    {o \in known : \A w \in kernel.writes : Far(o, w)} \cup kernel.writes

Trace(K, schedule) ==
    \A i \in 1 .. Len(schedule) :
        Supplies(K[i], schedule[i]) /\ K[i + 1] \subseteq After(K[i], schedule[i])

\* Of the rings and the recurrent states, a kernel writes those of its layer.
Local(kernel) ==
    \A w \in kernel.writes :
        w.view.buffer \in {"conv_history", "gdn_s"} =>
            w.view.first = layer /\ w.view.last = layer + 1

Kernels(schedule) == \E T : schedule \in Seq(T) /\ \A kernel \in T : Local(kernel)

Flows(before, schedule, after) ==
    /\ Kernels(schedule)
    /\ \E K : /\ K[1] \subseteq before /\ after \subseteq K[Len(schedule) + 1]
              /\ Trace(K, schedule)

LEMMA FlowsNone == ASSUME NEW A PROVE Flows(A, <<>>, A)
<1> DEFINE K == [i \in {1} |-> A]
           T == {}
<1>1. <<>> \in Seq(T) /\ \A kernel \in T : Local(kernel)
  OBVIOUS
<1>2. Len(<<>>) = 0 /\ K[1] = A
  OBVIOUS
<1>3. Trace(K, <<>>)
  BY <1>2 DEF Trace
<1> HIDE DEF K, T
<1>4. Kernels(<<>>)
  BY <1>1 DEF Kernels
<1> QED BY <1>2, <1>3, <1>4 DEF Flows

\* One kernel.
LEMMA FlowsKernel ==
  ASSUME NEW A, NEW C, NEW stage, NEW reads, NEW writes,
         Supplies(A, Kernel(stage, reads, writes)), Local(Kernel(stage, reads, writes)),
         \A o \in C : o \in writes \/ (o \in A /\ \A w \in writes : Far(o, w))
  PROVE  Flows(A, << Kernel(stage, reads, writes) >>, C)
<1> DEFINE k == Kernel(stage, reads, writes)
           K == [i \in {1, 2} |-> IF i = 1 THEN A ELSE C]
           T == {k}
<1>1. C \subseteq After(A, k)
  BY DEF After, Kernel
<1> HIDE DEF k
<1>2. <<k>> \in Seq(T) /\ \A kernel \in T : Local(kernel)
  BY DEF k
<1>3. Len(<<k>>) = 1 /\ <<k>>[1] = k /\ K[1] = A /\ K[2] = C
  OBVIOUS
<1> HIDE DEF K, T
<1>4. Supplies(A, k)
  BY DEF k
<1>5. Trace(K, <<k>>)
  BY <1>1, <1>3, <1>4 DEF Trace
<1>6. Kernels(<<k>>)
  BY <1>2 DEF Kernels
<1>7. Flows(A, <<k>>, C)
  BY <1>3, <1>5, <1>6 DEF Flows
<1> QED BY <1>7 DEF k

\* One schedule after the other.
LEMMA FlowsThen ==
  ASSUME NEW A, NEW B, NEW C, NEW s, NEW t, Flows(A, s, B), Flows(B, t, C)
  PROVE  Flows(A, s \o t, C)
<1>1. PICK S : s \in Seq(S) /\ \A kernel \in S : Local(kernel)
  BY DEF Flows, Kernels
<1>2. PICK T : t \in Seq(T) /\ \A kernel \in T : Local(kernel)
  BY DEF Flows, Kernels
<1>3. PICK J : J[1] \subseteq A /\ B \subseteq J[Len(s) + 1] /\ Trace(J, s)
  BY DEF Flows
<1>4. PICK K : K[1] \subseteq B /\ C \subseteq K[Len(t) + 1] /\ Trace(K, t)
  BY DEF Flows
<1> DEFINE U == S \cup T
           m == Len(s)
           n == Len(t)
           L == [i \in 1 .. m + n + 1 |-> IF i <= m THEN J[i] ELSE K[i - m]]
<1>5. s \o t \in Seq(U) /\ \A kernel \in U : Local(kernel)
  <2>1. s \in Seq(U) /\ t \in Seq(U)
    BY <1>1, <1>2
  <2> QED BY <1>1, <1>2, <2>1
<1>6. /\ m \in Nat /\ n \in Nat /\ Len(s \o t) = m + n
      /\ \A i \in 1 .. m + n : (s \o t)[i] = IF i <= m THEN s[i] ELSE t[i - m]
  BY <1>1, <1>2
<1> HIDE DEF U, m, n
<1>7. L[1] \subseteq A
  <2>1. CASE m = 0
    <3>1. L[1] = K[1]
      BY <1>6, <2>1
    <3>2. B \subseteq J[1]
      BY <1>3, <2>1 DEF m
    <3> QED BY <1>3, <1>4, <3>1, <3>2
  <2>2. CASE m # 0
    <3>1. L[1] = J[1]
      BY <1>6, <2>2
    <3> QED BY <1>3, <3>1
  <2> QED BY <2>1, <2>2
<1>8. C \subseteq L[Len(s \o t) + 1]
  <2>1. L[m + n + 1] = K[n + 1]
    BY <1>6
  <2> QED BY <1>4, <1>6, <2>1 DEF n
<1>9. Trace(L, s \o t)
  <2> SUFFICES ASSUME NEW i \in 1 .. m + n
               PROVE  /\ Supplies(L[i], (s \o t)[i])
                      /\ L[i + 1] \subseteq After(L[i], (s \o t)[i])
    BY <1>6 DEF Trace
  <2>1. CASE i > m
    <3>1. i - m \in 1 .. n /\ (s \o t)[i] = t[i - m] /\ L[i] = K[i - m]
          /\ L[i + 1] = K[(i - m) + 1]
      <4>1. i - m \in 1 .. n /\ i + 1 - m = (i - m) + 1
        BY <1>6, <2>1
      <4> QED BY <1>6, <2>1, <4>1
    <3> HIDE DEF L
    <3> QED BY <1>4, <3>1 DEF Trace, n
  <2>2. CASE i < m
    <3>1. i \in 1 .. m /\ (s \o t)[i] = s[i] /\ L[i] = J[i] /\ L[i + 1] = J[i + 1]
      BY <1>6, <2>2
    <3> HIDE DEF L
    <3> QED BY <1>3, <3>1 DEF Trace, m
  <2>3. CASE i = m
    <3>1. i \in 1 .. m /\ (s \o t)[i] = s[i] /\ L[i] = J[i] /\ L[i + 1] = K[1]
      BY <1>6, <2>3
    <3> HIDE DEF L
    <3>2. K[1] \subseteq J[i + 1]
      BY <1>3, <1>4, <2>3 DEF m
    <3> QED BY <1>3, <3>1, <3>2 DEF Trace, m
  <2>4. i < m \/ i = m \/ i > m
    BY <1>6
  <2> HIDE DEF L
  <2> QED BY <2>1, <2>2, <2>3, <2>4
<1> HIDE DEF L
<1>10. Kernels(s \o t)
  BY <1>5 DEF Kernels
<1> QED BY <1>7, <1>8, <1>9, <1>10 DEF Flows

\* Knowing more before, or claiming less after.
LEMMA FlowsWeaker ==
  ASSUME NEW A, NEW B, NEW C, NEW D, NEW s, Flows(B, s, C), B \subseteq A, D \subseteq C
  PROVE  Flows(A, s, D)
<1>1. Kernels(s)
  BY DEF Flows
<1>2. PICK K : K[1] \subseteq B /\ C \subseteq K[Len(s) + 1] /\ Trace(K, s)
  BY DEF Flows
<1>3. K[1] \subseteq A /\ D \subseteq K[Len(s) + 1]
  BY <1>2
<1> QED BY <1>1, <1>2, <1>3 DEF Flows

\* Kernels in a row.
LEMMA Flows2 ==
  ASSUME NEW a, NEW b, NEW A, NEW B, NEW C, Flows(A, <<a>>, B), Flows(B, <<b>>, C)
  PROVE  Flows(A, <<a, b>>, C)
<1>1. <<a, b>> = Append(<<a>>, b)
  OBVIOUS
<1>2. <<a>> \o <<b>> = Append(<<a>>, b)
  OBVIOUS
<1>3. Flows(A, <<a>> \o <<b>>, C)
  BY FlowsThen
<1> QED BY <1>1, <1>2, <1>3

LEMMA Flows3 ==
  ASSUME NEW a, NEW b, NEW c, NEW A, NEW B, NEW C, NEW D,
         Flows(A, <<a>>, B), Flows(B, <<b>>, C), Flows(C, <<c>>, D)
  PROVE  Flows(A, <<a, b, c>>, D)
<1>1. <<a, b, c>> = <<a, b>> \o <<c>>
  OBVIOUS
<1> QED BY <1>1, Flows2, FlowsThen

LEMMA Flows5 ==
  ASSUME NEW a, NEW b, NEW c, NEW d, NEW e, NEW A, NEW B, NEW C, NEW D, NEW E, NEW F,
         Flows(A, <<a>>, B), Flows(B, <<b>>, C), Flows(C, <<c>>, D), Flows(D, <<d>>, E),
         Flows(E, <<e>>, F)
  PROVE  Flows(A, <<a, b, c, d, e>>, F)
<1>1. <<a, b, c, d, e>> = <<a, b, c>> \o <<d, e>>
  OBVIOUS
<1>2. Flows(A, <<a, b, c>>, D)
  BY Flows3
<1>3. Flows(D, <<d, e>>, F)
  BY Flows2
<1> QED BY <1>1, <1>2, <1>3, FlowsThen

LEMMA Flows6 ==
  ASSUME NEW a, NEW b, NEW c, NEW d, NEW e, NEW f,
         NEW A, NEW B, NEW C, NEW D, NEW E, NEW F, NEW G,
         Flows(A, <<a>>, B), Flows(B, <<b>>, C), Flows(C, <<c>>, D), Flows(D, <<d>>, E),
         Flows(E, <<e>>, F), Flows(F, <<f>>, G)
  PROVE  Flows(A, <<a, b, c, d, e, f>>, G)
<1>1. <<a, b, c, d, e, f>> = <<a, b, c>> \o <<d, e, f>>
  OBVIOUS
<1>2. Flows(A, <<a, b, c>>, D)
  BY Flows3
<1>3. Flows(D, <<d, e, f>>, G)
  BY Flows3
<1> QED BY <1>1, <1>2, <1>3, FlowsThen

LEMMA Flows8 ==
  ASSUME NEW a, NEW b, NEW c, NEW d, NEW e, NEW f, NEW g, NEW h,
         NEW A, NEW B, NEW C, NEW D, NEW E, NEW F, NEW G, NEW H, NEW I,
         Flows(A, <<a>>, B), Flows(B, <<b>>, C), Flows(C, <<c>>, D), Flows(D, <<d>>, E),
         Flows(E, <<e>>, F), Flows(F, <<f>>, G), Flows(G, <<g>>, H), Flows(H, <<h>>, I)
  PROVE  Flows(A, <<a, b, c, d, e, f, g, h>>, I)
<1>1. <<a, b, c, d, e, f, g, h>> = <<a, b, c>> \o <<d, e, f, g, h>>
  OBVIOUS
<1>2. Flows(A, <<a, b, c>>, D)
  BY Flows3
<1>3. Flows(D, <<d, e, f, g, h>>, I)
  BY Flows5
<1> QED BY <1>1, <1>2, <1>3, FlowsThen

-----------------------------------------------------------------------------
\* The schedule does not depend on what a launch changes.
LEMMA SameSchedule ==
  UNCHANGED <<planVars, unit, layer, residual, mid, next>> => Schedule' = Schedule
<1> SUFFICES ASSUME UNCHANGED <<planVars, unit, layer, residual, mid, next>>
             PROVE  Schedule' = Schedule
  OBVIOUS
<1>0. /\ planVars' = planVars /\ unit' = unit /\ layer' = layer /\ residual' = residual
      /\ mid' = mid /\ next' = next /\ placed' = placed /\ requests' = requests
  BY DEF planVars
<1>1. \A view, quantity : Holding(view, quantity)' = Holding(view, quantity)
  BY <1>0 DEF Holding
<1>2. Rows' = Rows
  BY <1>0 DEF Rows
<1>3. \A i : Offset(i)' = Offset(i)
  BY <1>0 DEF Offset, Together
<1>4. \A slot, first, bytes : Scratch(slot, first, bytes)' = Scratch(slot, first, bytes)
  BY <1>3 DEF Scratch
<1>5. \A name : Gdn(name)' = Gdn(name)
  BY <1>0, <1>1, <1>2, <1>4 DEF Gdn
<1>6. \A name : Attention(name)' = Attention(name)
  BY <1>0, <1>1, <1>2, <1>4 DEF Attention, AttentionScratch
<1>7. /\ \A names : GdnOperands(names)' = GdnOperands(names)
      /\ \A names : AttentionOperands(names)' = AttentionOperands(names)
  BY <1>5, <1>6 DEF GdnOperands, AttentionOperands
<1>8. GdnV' = GdnV
  BY <1>0, <1>5 DEF GdnV
<1>9. /\ Hidden' = Hidden /\ Mixed' = Mixed /\ NextHidden' = NextHidden
      /\ \A buffer, version : Persistent(buffer, version)' = Persistent(buffer, version)
      /\ \A quantity : Normalized(quantity)' = Normalized(quantity)
  BY <1>0, <1>1, <1>2, <1>4
     DEF Hidden, Mixed, NextHidden, RowsOf, Holding, Persistent, Normalized
<1>10. DecodeGdn' = DecodeGdn
  BY <1>5, <1>7, <1>8, <1>9 DEF DecodeGdn
<1>11. DecodeAttention' = DecodeAttention
  BY <1>6, <1>7, <1>9 DEF DecodeAttention
<1>12. DecodeMlp' = DecodeMlp
  BY <1>1, <1>4, <1>9 DEF DecodeMlp
<1>13. /\ Packs' = Packs /\ Fp8Mixer' = Fp8Mixer
       /\ \A k, quantity : Fp8Pack(k, quantity)' = Fp8Pack(k, quantity)
       /\ \A role, n : Fp8Sum(role, n)' = Fp8Sum(role, n)
  BY <1>0, <1>1, <1>2 DEF Packs, Fp8Mixer, Fp8Pack, Fp8Sum
<1>14. /\ \A name, first, bytes, quantity :
             EngineAt(name, first, bytes, quantity)' = EngineAt(name, first, bytes, quantity)
       /\ \A role : WeightTile(role)' = WeightTile(role)
       /\ \A role : AccumA(role)' = AccumA(role)
       /\ \A role : AccumB(role)' = AccumB(role)
       /\ Library' = Library /\ NvFp4Pack' = NvFp4Pack
  BY <1>0, <1>1, <1>2 DEF EngineAt, WeightTile, AccumA, AccumB, Library, NvFp4Pack
<1>15. ASSUME NEW stage, NEW m, NEW n
       PROVE  /\ Unpacked(stage, m, Gdn("normalized"), {}, Gdn(m))'
                    = Unpacked(stage, m, Gdn("normalized"), {}, Gdn(m))
              /\ Projected(stage, m, n, Gdn("normalized"),
                           Fp8Pack(5120, "mixer_input"), {}, Gdn(m))'
                    = Projected(stage, m, n, Gdn("normalized"),
                                Fp8Pack(5120, "mixer_input"), {}, Gdn(m))
              /\ Projected(stage, m, n, Attention("normalized"),
                           Fp8Pack(5120, "mixer_input"), {}, Attention(m))'
                    = Projected(stage, m, n, Attention("normalized"),
                                Fp8Pack(5120, "mixer_input"), {}, Attention(m))
  <2>1. /\ WeightTile(m)' = WeightTile(m) /\ AccumA(m)' = AccumA(m) /\ Library' = Library
        /\ Fp8Sum(m, n)' = Fp8Sum(m, n) /\ Packs' = Packs /\ Fp8Mixer' = Fp8Mixer
        /\ Gdn("normalized")' = Gdn("normalized") /\ Gdn(m)' = Gdn(m)
        /\ Attention("normalized")' = Attention("normalized") /\ Attention(m)' = Attention(m)
        /\ Fp8Pack(5120, "mixer_input")' = Fp8Pack(5120, "mixer_input")
    BY <1>5, <1>6, <1>13, <1>14
  <2>2. Unpacked(stage, m, Gdn("normalized"), {}, Gdn(m))'
           = Unpacked(stage, m, Gdn("normalized"), {}, Gdn(m))
    BY ONLY <2>1, SMTT(20) DEF Unpacked
  <2>3. Unpacked(stage, m, Attention("normalized"), {}, Attention(m))'
           = Unpacked(stage, m, Attention("normalized"), {}, Attention(m))
    BY ONLY <2>1, SMTT(20) DEF Unpacked
  <2>4. Projected(stage, m, n, Gdn("normalized"), Fp8Pack(5120, "mixer_input"), {}, Gdn(m))'
           = Projected(stage, m, n, Gdn("normalized"), Fp8Pack(5120, "mixer_input"), {}, Gdn(m))
    BY ONLY <2>1, <2>2, SMTT(20) DEF Projected
  <2>5. Projected(stage, m, n, Attention("normalized"), Fp8Pack(5120, "mixer_input"), {},
                  Attention(m))'
           = Projected(stage, m, n, Attention("normalized"), Fp8Pack(5120, "mixer_input"), {},
                       Attention(m))
    BY ONLY <2>1, <2>3, SMTT(20) DEF Projected
  <2> QED BY ONLY <2>2, <2>4, <2>5
<1>16. /\ Projected(MixerOutput, "out", 5120, Gdn("u"), Fp8Pack(6144, "mixer_output"),
                    {Hidden}, Mixed)'
             = Projected(MixerOutput, "out", 5120, Gdn("u"), Fp8Pack(6144, "mixer_output"),
                         {Hidden}, Mixed)
       /\ Projected(MixerOutput, "out", 5120, Attention("y"), Fp8Pack(6144, "mixer_output"),
                    {Hidden}, Mixed)'
             = Projected(MixerOutput, "out", 5120, Attention("y"), Fp8Pack(6144, "mixer_output"),
                         {Hidden}, Mixed)
  <2>1. /\ WeightTile("out")' = WeightTile("out") /\ AccumA("out")' = AccumA("out")
        /\ Library' = Library /\ Packs' = Packs /\ Fp8Mixer' = Fp8Mixer
        /\ Fp8Sum("out", 5120)' = Fp8Sum("out", 5120) /\ Hidden' = Hidden /\ Mixed' = Mixed
        /\ Gdn("u")' = Gdn("u") /\ Attention("y")' = Attention("y")
        /\ Fp8Pack(6144, "mixer_output")' = Fp8Pack(6144, "mixer_output")
    BY <1>5, <1>6, <1>9, <1>13, <1>14
  <2> QED BY ONLY <2>1, SMTT(20) DEF Projected, Unpacked
<1>17. PrefillGdnMixer' = PrefillGdnMixer
  <2>1. /\ Projected(Mixer, "qkv", 10240, Gdn("normalized"), Fp8Pack(5120, "mixer_input"), {},
                     Gdn("qkv"))'
              = Projected(Mixer, "qkv", 10240, Gdn("normalized"), Fp8Pack(5120, "mixer_input"),
                          {}, Gdn("qkv"))
        /\ Projected(Mixer, "z", 6144, Gdn("normalized"), Fp8Pack(5120, "mixer_input"), {},
                     Gdn("z"))'
              = Projected(Mixer, "z", 6144, Gdn("normalized"), Fp8Pack(5120, "mixer_input"), {},
                          Gdn("z"))
        /\ Unpacked(Mixer, "a", Gdn("normalized"), {}, Gdn("a"))'
              = Unpacked(Mixer, "a", Gdn("normalized"), {}, Gdn("a"))
        /\ Unpacked(Mixer, "b", Gdn("normalized"), {}, Gdn("b"))'
              = Unpacked(Mixer, "b", Gdn("normalized"), {}, Gdn("b"))
    BY <1>15
  <2>2. /\ \A name : Gdn(name)' = Gdn(name)
        /\ \A names : GdnOperands(names)' = GdnOperands(names)
        /\ GdnV' = GdnV /\ Hidden' = Hidden /\ Mixed' = Mixed /\ Packs' = Packs
        /\ \A buffer, version : Persistent(buffer, version)' = Persistent(buffer, version)
        /\ Fp8Pack(5120, "mixer_input")' = Fp8Pack(5120, "mixer_input")
        /\ Fp8Pack(6144, "mixer_output")' = Fp8Pack(6144, "mixer_output")
    BY <1>5, <1>7, <1>8, <1>9, <1>13
  <2> DEFINE first == << Kernel(LayerNorm, {Hidden}, {Gdn("normalized")} \cup
                              (IF Packs THEN Fp8Pack(5120, "mixer_input") ELSE {})) >>
             qkv == Projected(Mixer, "qkv", 10240, Gdn("normalized"),
                              Fp8Pack(5120, "mixer_input"), {}, Gdn("qkv"))
             z == Projected(Mixer, "z", 6144, Gdn("normalized"),
                            Fp8Pack(5120, "mixer_input"), {}, Gdn("z"))
             a == Unpacked(Mixer, "a", Gdn("normalized"), {}, Gdn("a"))
             b == Unpacked(Mixer, "b", Gdn("normalized"), {}, Gdn("b"))
             core == << Kernel(Mixer, {Gdn("qkv"), Persistent("conv_history", "old")},
                                      {Gdn("convolved")}),
                        Kernel(Mixer, {Gdn("qkv"), Persistent("conv_history", "old")},
                                      {Persistent("conv_history", "new")}),
                        Kernel(Mixer, GdnOperands({"convolved", "a", "b"}),
                                      GdnOperands({"q_hat", "k_hat", "alpha", "beta"})),
                        Kernel(Mixer, GdnOperands({"q_hat", "k_hat", "alpha", "beta"})
                                        \cup {GdnV, Persistent("gdn_s", "old")},
                                      {Gdn("o"), Persistent("gdn_s", "new")}),
                        Kernel(Mixer, GdnOperands({"o", "z"}),
                                      IF Packs THEN Fp8Pack(6144, "mixer_output")
                                      ELSE {Gdn("u")}) >>
             out == Projected(MixerOutput, "out", 5120, Gdn("u"),
                              Fp8Pack(6144, "mixer_output"), {Hidden}, Mixed)
  <2>3. first' = first /\ core' = core
    BY ONLY <2>2, SMTT(40)
  <2>4. qkv' = qkv /\ z' = z /\ a' = a /\ b' = b /\ out' = out
    BY <1>16, <2>1
  <2>5. /\ PrefillGdnMixer = first \o qkv \o z \o a \o b \o core \o out
        /\ PrefillGdnMixer' = first' \o qkv' \o z' \o a' \o b' \o core' \o out'
    BY DEF PrefillGdnMixer
  <2> HIDE DEF first, qkv, z, a, b, core, out
  <2> QED BY ONLY <2>3, <2>4, <2>5
<1>18. PrefillAttentionMixer' = PrefillAttentionMixer
  <2>1. /\ Projected(Mixer, "qg", 12288, Attention("normalized"),
                     Fp8Pack(5120, "mixer_input"), {}, Attention("qg"))'
              = Projected(Mixer, "qg", 12288, Attention("normalized"),
                          Fp8Pack(5120, "mixer_input"), {}, Attention("qg"))
        /\ Projected(Mixer, "k", 1024, Attention("normalized"),
                     Fp8Pack(5120, "mixer_input"), {}, Attention("k"))'
              = Projected(Mixer, "k", 1024, Attention("normalized"),
                          Fp8Pack(5120, "mixer_input"), {}, Attention("k"))
        /\ Projected(Mixer, "v", 1024, Attention("normalized"),
                     Fp8Pack(5120, "mixer_input"), {}, Attention("v"))'
              = Projected(Mixer, "v", 1024, Attention("normalized"),
                          Fp8Pack(5120, "mixer_input"), {}, Attention("v"))
    BY <1>15
  <2>2. /\ \A name : Attention(name)' = Attention(name)
        /\ \A names : AttentionOperands(names)' = AttentionOperands(names)
        /\ Hidden' = Hidden /\ Mixed' = Mixed /\ Packs' = Packs
        /\ \A buffer, version : Persistent(buffer, version)' = Persistent(buffer, version)
        /\ Fp8Pack(5120, "mixer_input")' = Fp8Pack(5120, "mixer_input")
        /\ Fp8Pack(6144, "mixer_output")' = Fp8Pack(6144, "mixer_output")
    BY <1>6, <1>7, <1>9, <1>13
  <2> DEFINE first == << Kernel(LayerNorm, {Hidden},
                                IF Packs THEN Fp8Pack(5120, "mixer_input")
                                ELSE {Attention("normalized")}) >>
             qg == Projected(Mixer, "qg", 12288, Attention("normalized"),
                             Fp8Pack(5120, "mixer_input"), {}, Attention("qg"))
             k == Projected(Mixer, "k", 1024, Attention("normalized"),
                            Fp8Pack(5120, "mixer_input"), {}, Attention("k"))
             v == Projected(Mixer, "v", 1024, Attention("normalized"),
                            Fp8Pack(5120, "mixer_input"), {}, Attention("v"))
             core == << Kernel(Mixer, AttentionOperands({"qg", "k", "v"}),
                               AttentionOperands({"q", "g"}) \cup {Persistent("kv", "new")}),
                        Kernel(Mixer, AttentionOperands({"q", "g"})
                                        \cup {Persistent("kv", "new")},
                                      IF Packs THEN Fp8Pack(6144, "mixer_output")
                                      ELSE {Attention("y")}) >>
             out == Projected(MixerOutput, "out", 5120, Attention("y"),
                              Fp8Pack(6144, "mixer_output"), {Hidden}, Mixed)
  <2>3. first' = first /\ core' = core
    BY ONLY <2>2, SMT
  <2>4. qg' = qg /\ k' = k /\ v' = v /\ out' = out
    BY <1>16, <2>1
  <2>5. /\ PrefillAttentionMixer = first \o qg \o k \o v \o core \o out
        /\ PrefillAttentionMixer' = first' \o qg' \o k' \o v' \o core' \o out'
    BY DEF PrefillAttentionMixer
  <2> HIDE DEF first, qg, k, v, core, out
  <2> QED BY ONLY <2>3, <2>4, <2>5
<1>19. PrefillMlp' = PrefillMlp
  <2>1. /\ EngineAt("normalized", 0, Rows * 10240, "mlp_input")'
              = EngineAt("normalized", 0, Rows * 10240, "mlp_input")
        /\ EngineAt("swiglu", 0, Rows * 34816, "swiglu")'
              = EngineAt("swiglu", 0, Rows * 34816, "swiglu")
    BY <1>0, <1>2 DEF EngineAt, Holding
  <2>2. /\ \A role : WeightTile(role)' = WeightTile(role)
        /\ \A role : AccumA(role)' = AccumA(role)
        /\ \A role : AccumB(role)' = AccumB(role)
        /\ Library' = Library /\ NvFp4Pack' = NvFp4Pack /\ unit' = unit
        /\ Mixed' = Mixed /\ NextHidden' = NextHidden
    BY <1>0, <1>9, <1>14
  <2> DEFINE normalized == EngineAt("normalized", 0, Rows * 10240, "mlp_input")
             swiglu == EngineAt("swiglu", 0, Rows * 34816, "swiglu")
             packed == << Kernel(MlpNorm, {Mixed}, NvFp4Pack),
                          Kernel(MlpSwiglu, NvFp4Pack, {AccumA("gate"), Library}),
                          Kernel(MlpSwiglu, NvFp4Pack, {AccumB("up"), Library}) >>
             plain == << Kernel(MlpNorm, {Mixed}, {normalized}),
                         Kernel(MlpSwiglu, {}, {WeightTile("gate")}),
                         Kernel(MlpSwiglu, {WeightTile("gate"), normalized},
                                           {AccumA("gate"), Library}),
                         Kernel(MlpSwiglu, {}, {WeightTile("up")}),
                         Kernel(MlpSwiglu, {WeightTile("up"), normalized},
                                           {AccumB("up"), Library}) >>
             combine == << Kernel(MlpSwiglu, {AccumA("gate"), AccumB("up")}, {swiglu}) >>
             down == Unpacked(MlpDown, "down", swiglu, {Mixed}, NextHidden)
  <2>3. packed' = packed /\ plain' = plain /\ combine' = combine
    BY ONLY <2>1, <2>2, SMT
  <2>4. down' = down
    BY ONLY <2>1, <2>2, SMTT(20) DEF Unpacked
  <2>5. /\ PrefillMlp = (IF unit.mlp = "nvfp4" THEN packed ELSE plain) \o combine \o down
        /\ PrefillMlp' = (IF unit'.mlp = "nvfp4" THEN packed' ELSE plain') \o combine' \o down'
    BY DEF PrefillMlp
  <2> HIDE DEF packed, plain, combine, down
  <2> QED BY ONLY <2>2, <2>3, <2>4, <2>5
<1>20. Q8Mlp' = Q8Mlp
  <2>1. /\ \A k, quantity : Q8Pack(k, quantity)' = Q8Pack(k, quantity)
        /\ Q8Gate' = Q8Gate /\ Q8Up' = Q8Up
    BY <1>1, <1>2 DEF Q8Pack, Q8Gate, Q8Up
  <2> QED BY <1>9, <2>1 DEF Q8Mlp
<1>21. Readout' = Readout
  BY <1>0, <1>1, <1>2, <1>4, <1>9 DEF Readout
<1> QED BY <1>0, <1>9, <1>10, <1>11, <1>12, <1>17, <1>18, <1>19, <1>20, <1>21 DEF Schedule

-----------------------------------------------------------------------------
Rings == {"conv_history", "gdn_s"}

\* What the units before this one have left for a layer.
Olds(l) == {[view |-> View(buffer, 0, l, 1), value |-> <<"old", l>>] : buffer \in Rings}

\* What the kernels of this layer find and leave; the readout leaves logits only.
Enters == IF layer = Layers THEN {Hidden}
          ELSE IF layer = 0 THEN Olds(layer) ELSE {Hidden} \cup Olds(layer)
Leaves == IF layer = Layers THEN {} ELSE {NextHidden}

Held(o) == \E kept \in memory : kept.view = o.view /\ kept.value = o.value

\* A unit at work: it has just come to this layer and finds what it needs, or it
\* is among its kernels and memory holds what is known there.
Entering == at = 1 /\ \A o \in Enters : Held(o)
Underway == \E K : /\ Trace(K, Schedule) /\ Leaves \subseteq K[Len(Schedule) + 1]
                   /\ \A o \in K[at] : Held(o)

CurrentInv ==
    /\ FlowInv
    /\ flow = "idle" => at = 1
    /\ flow = "running" =>
          /\ unit.kind = "decode" => next = residual
          /\ \A l \in layer + 1 .. Layers - 1 : \A o \in Olds(l) : Held(o)
          /\ Entering \/ (at <= Len(Schedule) + 1 /\ Underway)

\* A write that leaves the rings and the states of the other layers alone.
Here(w) == w.view.buffer \in {"conv_history", "gdn_s"} =>
               w.view.first = layer /\ w.view.last = layer + 1

LEMMA FlowsLaunch ==
  ASSUME NEW A, NEW C, NEW stage, NEW reads, NEW writes,
         reads \subseteq A, \A w \in writes : Here(w),
         \A o \in C : o \in writes \/ (o \in A /\ \A w \in writes : Far(o, w))
  PROVE  Flows(A, << Kernel(stage, reads, writes) >>, C)
<1>1. Supplies(A, Kernel(stage, reads, writes))
  BY DEF Supplies, Kernel
<1>2. Local(Kernel(stage, reads, writes))
  BY DEF Local, Kernel, Here
<1> QED BY <1>1, <1>2, FlowsKernel

\* Residual rows and persistent state beside the other operands.
LEMMA RowsClear ==
  ASSUME Ready
  PROVE  /\ Good(Hidden) /\ Good(Mixed) /\ Good(NextHidden)
         /\ Here(Hidden) /\ Here(Mixed) /\ Here(NextHidden)
         /\ Far(Hidden, Mixed) /\ Far(Mixed, Hidden)
         /\ Far(Mixed, NextHidden)
         /\ Hidden.view.buffer \in RowBuffers /\ Mixed.view.buffer \in RowBuffers
         /\ NextHidden.view.buffer \in RowBuffers
         /\ \A o : Good(o) /\ o.view.buffer \notin RowBuffers =>
               /\ Far(o, Hidden) /\ Far(Hidden, o) /\ Far(o, Mixed) /\ Far(Mixed, o)
               /\ Far(o, NextHidden) /\ Far(NextHidden, o)
<1>1. /\ Good(Hidden) /\ Hidden.view.buffer = residual
      /\ Good(Mixed) /\ Mixed.view.buffer = mid
      /\ Good(NextHidden) /\ NextHidden.view.buffer = next
  BY RowsFact
<1>2. residual \in RowBuffers /\ mid \in RowBuffers /\ next \in RowBuffers
  BY BuffersDiffer
<1>3. \A o : o.view.buffer \in RowBuffers => Here(o)
  BY DEF Here, RowBuffers
<1>4. /\ Far(Hidden, Mixed) /\ Far(Mixed, Hidden) /\ Far(Mixed, NextHidden)
      /\ \A o : Good(o) /\ o.view.buffer \notin RowBuffers =>
            /\ Far(o, Hidden) /\ Far(Hidden, o) /\ Far(o, Mixed) /\ Far(Mixed, o)
            /\ Far(o, NextHidden) /\ Far(NextHidden, o)
  BY RowsTimely
<1> QED BY <1>1, <1>2, <1>3, <1>4

LEMMA StateClear ==
  ASSUME Ready, layer # Layers, NEW buffer \in States, NEW version
  PROVE  /\ Good(Persistent(buffer, version)) /\ Here(Persistent(buffer, version))
         /\ Persistent(buffer, version).view.buffer = buffer
         /\ \A o : Good(o) /\ o.view.buffer # buffer =>
               Far(o, Persistent(buffer, version)) /\ Far(Persistent(buffer, version), o)
<1>1. Here(Persistent(buffer, version))
  BY DEF Here, Persistent, Holding, View
<1> QED BY <1>1, PersistentTimely

LEMMA OldsFact == Olds(layer) = {Persistent("conv_history", "old"), Persistent("gdn_s", "old")}
<1>1. \A buffer : Persistent(buffer, "old")
                     = [view |-> View(buffer, 0, layer, 1), value |-> <<"old", layer>>]
  BY DEF Persistent, Holding
<1> QED BY <1>1 DEF Olds, Rings

LEMMA EmbeddingFlows ==
  ASSUME Ready, layer # Layers
  PROVE  Flows(Olds(layer), << Kernel(0, {}, {Hidden}) >>, {Hidden} \cup Olds(layer))
<1> DEFINE olds == Olds(layer)
           known == {Hidden} \cup olds
           writes == {Hidden}
<1>1. \A o \in olds : Far(o, Hidden)
  <2>1. \A b \in Rings : Far(Persistent(b, "old"), Hidden)
    BY RowsClear, StateClear DEF Rings, States, RowBuffers
  <2> QED BY <2>1, OldsFact DEF Rings
<1>2. \A w \in writes : Here(w)
  BY RowsClear
<1> HIDE DEF olds
<1>3. \A o \in known : o \in writes \/ (o \in olds /\ \A w \in writes : Far(o, w))
  BY <1>1
<1> HIDE DEF known, writes
<1>4. Flows(olds, << Kernel(0, {}, writes) >>, known)
  BY <1>2, <1>3, FlowsLaunch
<1> QED BY <1>4 DEF olds, known, writes

\* A kernel between intermediate values of a linear mixer, beside others that
\* are nowhere near them.
LEMMA GdnStep ==
  ASSUME Ready, NEW B, \A o \in B : \A m \in GdnNames : Far(o, Gdn(m)),
         NEW M \in SUBSET GdnNames, NEW R \in SUBSET M, NEW W \in SUBSET GdnNames,
         NEW N \in SUBSET M, N \cap W = {}, NEW stage
  PROVE  Flows(B \cup GdnOperands(M), << Kernel(stage, GdnOperands(R), GdnOperands(W)) >>,
               B \cup GdnOperands(N \cup W))
<1> DEFINE known == B \cup GdnOperands(M)
           after == B \cup GdnOperands(N \cup W)
           reads == GdnOperands(R)
           writes == GdnOperands(W)
<1>1. \A m \in GdnNames : /\ Here(Gdn(m))
                          /\ \A n \in GdnNames : m # n => Far(Gdn(m), Gdn(n))
  BY GdnFact, BuffersDiffer DEF Here
<1>2. reads \subseteq known
  BY DEF GdnOperands
<1>3. \A w \in writes : Here(w)
  BY <1>1 DEF GdnOperands
<1>4. \A o \in after : o \in writes \/ (o \in known /\ \A w \in writes : Far(o, w))
  BY <1>1 DEF GdnOperands
<1> HIDE DEF known, after, reads, writes
<1>5. Flows(known, << Kernel(stage, reads, writes) >>, after)
  BY <1>2, <1>3, <1>4, FlowsLaunch
<1> QED BY <1>5 DEF known, after, reads, writes

\* What a linear mixer reads besides its intermediate values.
LEMMA GdnBeside ==
  ASSUME Ready, layer # Layers
  PROVE  /\ \A m \in GdnNames : Good(Gdn(m)) /\ Here(Gdn(m))
         /\ \A o \in {Hidden, Persistent("conv_history", "old"), Persistent("gdn_s", "old")} :
               \A m \in GdnNames : Far(o, Gdn(m))
         /\ \A m \in GdnNames :
               /\ Far(Gdn(m), Persistent("conv_history", "new"))
               /\ Far(Gdn(m), Persistent("gdn_s", "new"))
               /\ Far(Gdn(m), Mixed)
         /\ \A o \in {Hidden, Persistent("gdn_s", "old")} :
               Far(o, Persistent("conv_history", "new"))
         /\ Far(Hidden, Persistent("gdn_s", "new"))
         /\ Here(Persistent("conv_history", "new")) /\ Here(Persistent("gdn_s", "new"))
<1>1. /\ "conv_history" \in States /\ "gdn_s" \in States
      /\ \A b \in RowBuffers \cup {"conv_history", "gdn_s"} : b \notin {"scratch", "prefill_gdn"}
      /\ \A b \in RowBuffers : b \notin {"conv_history", "gdn_s"}
  BY DEF States, RowBuffers
<1>2. \A m \in GdnNames : Good(Gdn(m)) /\ Gdn(m).view.buffer \in {"scratch", "prefill_gdn"}
  BY GdnFact, BuffersDiffer
<1>3. \A m \in GdnNames : Here(Gdn(m))
  BY <1>2 DEF Here
<1>4. \A b \in {"conv_history", "gdn_s"}, v \in {"old", "new"} :
         /\ Good(Persistent(b, v)) /\ Here(Persistent(b, v))
         /\ Persistent(b, v).view.buffer = b
         /\ \A o : Good(o) /\ o.view.buffer # b =>
               Far(o, Persistent(b, v)) /\ Far(Persistent(b, v), o)
  BY <1>1, StateClear
<1>5. \A m \in GdnNames : Far(Hidden, Gdn(m)) /\ Far(Gdn(m), Mixed)
  BY <1>1, <1>2, RowsClear
<1>6. \A m \in GdnNames, b \in {"conv_history", "gdn_s"}, v \in {"old", "new"} :
         Far(Persistent(b, v), Gdn(m)) /\ Far(Gdn(m), Persistent(b, v))
  BY <1>2, <1>4
<1>7. \A b \in {"conv_history", "gdn_s"} : Far(Hidden, Persistent(b, "new"))
  BY <1>1, <1>4, RowsClear
<1>8. Far(Persistent("gdn_s", "old"), Persistent("conv_history", "new"))
  BY <1>4
<1> QED BY <1>2, <1>3, <1>4, <1>5, <1>6, <1>7, <1>8

LEMMA GdnVWithin ==
  ASSUME Ready
  PROVE  GdnV.value = Gdn("convolved").value /\ Contains(Gdn("convolved").view, GdnV.view)
<1> DEFINE o == Gdn("convolved")
<1>1. Good(o)
  BY GdnFact DEF GdnNames
<1>2. CASE unit.kind = "decode"
  <2>1. o = [view |-> [buffer |-> "scratch", slot |-> 2,
                       first |-> o.view.first, last |-> o.view.last],
             value |-> <<"convolved", layer>>]
    BY <1>2 DEF Gdn, Holding, Scratch, View
  <2> HIDE DEF o
  <2>2. /\ GdnV.view.buffer = o.view.buffer
        /\ GdnV.view.first = o.view.first + 8192 /\ GdnV.view.last = o.view.last
        /\ GdnV.value = o.value
    BY <1>2, <2>1 DEF GdnV, o
  <2>3. Contains(o.view, GdnV.view)
    BY <1>1, <2>2 DEF Contains, Good
  <2> QED BY <2>2, <2>3 DEF o
<1>3. CASE unit.kind # "decode"
  <2>1. GdnV = o
    BY <1>3 DEF GdnV
  <2>2. Contains(o.view, o.view)
    <3> HIDE DEF o
    <3> QED BY <1>1 DEF Contains, Good
  <2> QED BY <2>1, <2>2
<1> QED BY <1>2, <1>3

\* The recurrent kernel of a linear mixer, beside the gate z.
LEMMA RecurrentFlows ==
  ASSUME Ready, layer # Layers
  PROVE  Flows({Hidden, Persistent("gdn_s", "old")}
                  \cup GdnOperands({"z", "convolved", "q_hat", "k_hat", "alpha", "beta"}),
               << Kernel(Mixer, GdnOperands({"q_hat", "k_hat", "alpha", "beta"})
                                   \cup {GdnV, Persistent("gdn_s", "old")},
                                {Gdn("o"), Persistent("gdn_s", "new")}) >>,
               {Hidden} \cup GdnOperands({"z", "o"}))
<1> DEFINE old == Persistent("gdn_s", "old")
           new == Persistent("gdn_s", "new")
           quartet == GdnOperands({"q_hat", "k_hat", "alpha", "beta"})
           known == {Hidden, old}
                       \cup GdnOperands({"z", "convolved", "q_hat", "k_hat", "alpha", "beta"})
           after == {Hidden} \cup GdnOperands({"z", "o"})
           reads == quartet \cup {GdnV, old}
           writes == {Gdn("o"), new}
<1>1. "z" \in GdnNames /\ "o" \in GdnNames
  BY DEF GdnNames
<1>2. Here(Gdn("o")) /\ Here(new) /\ Far(Hidden, Gdn("o")) /\ Far(Hidden, new)
      /\ Far(Gdn("z"), new)
  BY <1>1, GdnBeside
<1>3. Far(Gdn("z"), Gdn("o"))
  BY <1>1, GdnFact
<1>4. quartet \subseteq known /\ Gdn("convolved") \in known /\ old \in known
  BY DEF GdnOperands
<1>5. after = {Hidden, Gdn("z"), Gdn("o")}
  BY DEF GdnOperands
<1>6. Hidden \in known /\ Gdn("z") \in known
  BY DEF GdnOperands
<1> HIDE DEF old, new, quartet, known, after
<1>7. Supplies(known, Kernel(Mixer, reads, writes))
  BY <1>4, GdnVWithin DEF Supplies, Kernel
<1>8. Local(Kernel(Mixer, reads, writes))
  BY <1>2 DEF Local, Kernel, Here
<1>9. \A o \in after : o \in writes \/ (o \in known /\ \A w \in writes : Far(o, w))
  BY <1>2, <1>3, <1>5, <1>6
<1> HIDE DEF reads, writes
<1>10. Flows(known, << Kernel(Mixer, reads, writes) >>, after)
  BY <1>7, <1>8, <1>9, FlowsKernel
<1> QED BY <1>10 DEF known, after, reads, writes, old, new, quartet

LEMMA GdnPrepFlows ==
  ASSUME Ready, NEW B, \A o \in B : \A m \in GdnNames : Far(o, Gdn(m))
  PROVE  Flows(B \cup GdnOperands({"z", "a", "b", "convolved"}),
               << Kernel(Mixer, GdnOperands({"convolved", "a", "b"}),
                                GdnOperands({"q_hat", "k_hat", "alpha", "beta"})) >>,
               B \cup GdnOperands({"z", "convolved", "q_hat", "k_hat", "alpha", "beta"}))
<1> DEFINE M == {"z", "a", "b", "convolved"}
           R == {"convolved", "a", "b"}
           W == {"q_hat", "k_hat", "alpha", "beta"}
           N == {"z", "convolved"}
<1>1. /\ M \in SUBSET GdnNames /\ R \in SUBSET M /\ W \in SUBSET GdnNames
      /\ N \in SUBSET M /\ N \cap W = {}
  BY DEF GdnNames
<1>2. N \cup W = {"z", "convolved", "q_hat", "k_hat", "alpha", "beta"}
  OBVIOUS
<1> HIDE DEF M, R, W, N
<1>3. Flows(B \cup GdnOperands(M), << Kernel(Mixer, GdnOperands(R), GdnOperands(W)) >>,
            B \cup GdnOperands(N \cup W))
  BY <1>1, GdnStep
<1>4. Flows(B \cup GdnOperands(M), << Kernel(Mixer, GdnOperands(R), GdnOperands(W)) >>,
            B \cup GdnOperands({"z", "convolved", "q_hat", "k_hat", "alpha", "beta"}))
  BY <1>2, <1>3
<1> QED BY <1>4 DEF M, R, W

LEMMA GdnGateFlows ==
  ASSUME Ready, layer # Layers
  PROVE  Flows({Hidden} \cup GdnOperands({"z", "o"}),
               << Kernel(Mixer, GdnOperands({"o", "z"}), {Gdn("u")}) >>, {Hidden, Gdn("u")})
<1> DEFINE M == {"z", "o"}
           B == {Hidden}
<1>1. {"o", "z"} = M /\ GdnOperands({"u"}) = {Gdn("u")} /\ {} \cup {"u"} = {"u"}
  BY DEF GdnOperands
<1>2. /\ M \in SUBSET GdnNames /\ M \in SUBSET M /\ {"u"} \in SUBSET GdnNames
      /\ {} \in SUBSET M /\ {} \cap {"u"} = {}
  BY DEF GdnNames
<1>3. \A o \in B : \A m \in GdnNames : Far(o, Gdn(m))
  BY GdnBeside
<1> HIDE DEF M, B
<1>4. Flows(B \cup GdnOperands(M), << Kernel(Mixer, GdnOperands(M), GdnOperands({"u"})) >>,
            B \cup GdnOperands({} \cup {"u"}))
  BY <1>2, <1>3, GdnStep
<1>5. B \cup {Gdn("u")} = {Hidden, Gdn("u")}
  BY DEF B
<1>6. Flows(B \cup GdnOperands(M), << Kernel(Mixer, GdnOperands(M), {Gdn("u")}) >>,
            {Hidden, Gdn("u")})
  BY <1>1, <1>4, <1>5
<1> QED BY <1>1, <1>6 DEF M, B

LEMMA DecodeGdnFlows ==
  ASSUME Ready, layer # Layers, unit.kind = "decode"
  PROVE  Flows({Hidden} \cup Olds(layer), DecodeGdn, {Mixed})
<1> DEFINE normalized == Normalized("mixer_input")
           oldRing == Persistent("conv_history", "old")
           newRing == Persistent("conv_history", "new")
           oldState == Persistent("gdn_s", "old")
           base == {Hidden, oldRing, oldState}
           rest == {Hidden, oldState}
<1>1. Good(normalized) /\ normalized.view.buffer = "scratch" /\ normalized.view.slot = 1
  BY NormalizedFact
<1>2. \A m \in GdnNames : Far(normalized, Gdn(m)) /\ Gdn(m).view.buffer = "scratch"
  <2>1. \A m \in GdnNames : /\ Good(Gdn(m)) /\ Gdn(m).view.buffer = "scratch"
                            /\ Gdn(m).view.slot = 2
    BY GdnFact DEF GdnBuffer
  <2> HIDE DEF normalized
  <2> QED BY <1>1, <2>1, Cross
<1>3. \A o \in base : Far(o, normalized)
  <2>1. Far(Hidden, normalized)
    BY <1>1, RowsClear DEF RowBuffers
  <2>2. Far(oldRing, normalized) /\ Far(oldState, normalized)
    BY <1>1, StateClear DEF States
  <2> QED BY <2>1, <2>2
<1>4. Here(normalized)
  BY <1>1 DEF Here
<1>5. \A o \in base : \A m \in GdnNames : Far(o, Gdn(m))
  BY GdnBeside
<1>6. Olds(layer) = {oldRing, oldState}
  BY OldsFact
<1> HIDE DEF normalized
<1>11. Flows({Hidden} \cup Olds(layer), << Kernel(LayerNorm, {Hidden}, {normalized}) >>,
             base \cup {normalized})
  <2> DEFINE known == {Hidden} \cup Olds(layer)
             after == base \cup {normalized}
             reads == {Hidden}
             writes == {normalized}
  <2>1. known = base /\ reads \subseteq known
    BY <1>6
  <2>2. \A w \in writes : Here(w)
    BY <1>4
  <2>3. \A o \in after : o \in writes \/ (o \in known /\ \A w \in writes : Far(o, w))
    BY <1>3, <2>1
  <2> HIDE DEF known, after, reads, writes
  <2>4. Flows(known, << Kernel(LayerNorm, reads, writes) >>, after)
    BY <2>1, <2>2, <2>3, FlowsLaunch
  <2> QED BY <2>4 DEF known, after, reads, writes
<1>12. ASSUME NEW M \in SUBSET GdnNames, NEW W \in SUBSET GdnNames, M \cap W = {}
       PROVE  Flows(base \cup {normalized} \cup GdnOperands(M),
                    << Kernel(Mixer, {normalized}, GdnOperands(W)) >>,
                    base \cup {normalized} \cup GdnOperands(M \cup W))
  <2> DEFINE known == base \cup {normalized} \cup GdnOperands(M)
             after == base \cup {normalized} \cup GdnOperands(M \cup W)
             reads == {normalized}
             writes == GdnOperands(W)
  <2>1. \A m \in GdnNames : /\ Here(Gdn(m))
                            /\ \A n \in GdnNames : m # n => Far(Gdn(m), Gdn(n))
    BY GdnFact, GdnBeside
  <2>2. \A w \in writes : Here(w)
    BY <2>1 DEF GdnOperands
  <2> HIDE DEF base
  <2>3. \A o \in after : o \in writes \/ (o \in known /\ \A w \in writes : Far(o, w))
    BY <1>2, <1>5, <1>12, <2>1 DEF GdnOperands
  <2>4. reads \subseteq known
    OBVIOUS
  <2> HIDE DEF known, after, reads, writes
  <2>5. Flows(known, << Kernel(Mixer, reads, writes) >>, after)
    BY <2>2, <2>3, <2>4, FlowsLaunch
  <2> QED BY <2>5 DEF known, after, reads, writes
<1>13. Flows(base \cup {normalized} \cup GdnOperands({"qkv", "z", "a", "b"}),
             << Kernel(Mixer, {Gdn("qkv"), oldRing}, {Gdn("convolved"), newRing}) >>,
             rest \cup GdnOperands({"z", "a", "b", "convolved"}))
  <2> DEFINE known == base \cup {normalized} \cup GdnOperands({"qkv", "z", "a", "b"})
             after == rest \cup GdnOperands({"z", "a", "b", "convolved"})
             reads == {Gdn("qkv"), oldRing}
             writes == {Gdn("convolved"), newRing}
  <2>1. {"z", "a", "b", "convolved"} \subseteq GdnNames
    BY DEF GdnNames
  <2>2. Here(Gdn("convolved")) /\ Here(newRing)
    BY <2>1, GdnBeside
  <2>3. /\ after = {Hidden, oldState, Gdn("z"), Gdn("a"), Gdn("b"), Gdn("convolved")}
        /\ {Hidden, oldState, Gdn("z"), Gdn("a"), Gdn("b")} \subseteq known
        /\ reads \subseteq known
    BY DEF GdnOperands
  <2>4. \A m \in {"z", "a", "b"} : Far(Gdn(m), Gdn("convolved")) /\ Far(Gdn(m), newRing)
    BY <2>1, GdnFact, GdnBeside
  <2>5. \A o \in rest : Far(o, Gdn("convolved")) /\ Far(o, newRing)
    BY <2>1, GdnBeside
  <2> HIDE DEF known, after, base, oldRing, newRing, oldState
  <2>6. \A o \in after : o \in writes \/ (o \in known /\ \A w \in writes : Far(o, w))
    BY <2>3, <2>4, <2>5
  <2>7. \A w \in writes : Here(w)
    BY <2>2
  <2> HIDE DEF reads, writes
  <2>8. Flows(known, << Kernel(Mixer, reads, writes) >>, after)
    BY <2>3, <2>6, <2>7, FlowsLaunch
  <2> QED BY <2>8 DEF known, after, reads, writes
<1>14. Flows(rest \cup GdnOperands({"z", "a", "b", "convolved"}),
             << Kernel(Mixer, GdnOperands({"convolved", "a", "b"}),
                              GdnOperands({"q_hat", "k_hat", "alpha", "beta"})) >>,
             rest \cup GdnOperands({"z", "convolved", "q_hat", "k_hat", "alpha", "beta"}))
  BY <1>5, GdnPrepFlows
<1>15. Flows({Hidden} \cup GdnOperands({"z", "o"}),
             << Kernel(Mixer, GdnOperands({"o", "z"}), {Gdn("u")}) >>, {Hidden, Gdn("u")})
  BY GdnGateFlows
<1>16. Flows({Hidden, Gdn("u")}, << Kernel(MixerOutput, {Gdn("u"), Hidden}, {Mixed}) >>, {Mixed})
  <2>1. Here(Mixed)
    BY RowsClear
  <2> QED BY <2>1, FlowsLaunch
<1>17. Flows(base \cup {normalized}, << Kernel(Mixer, {normalized}, GdnOperands({"qkv", "z"})) >>,
             base \cup {normalized} \cup GdnOperands({"qkv", "z"}))
  <2>1. {} \in SUBSET GdnNames /\ {"qkv", "z"} \in SUBSET GdnNames /\ {} \cap {"qkv", "z"} = {}
    BY DEF GdnNames
  <2>2. /\ base \cup {normalized} \cup GdnOperands({}) = base \cup {normalized}
        /\ {} \cup {"qkv", "z"} = {"qkv", "z"}
    BY DEF GdnOperands
  <2> HIDE DEF base
  <2>3. Flows(base \cup {normalized} \cup GdnOperands({}),
              << Kernel(Mixer, {normalized}, GdnOperands({"qkv", "z"})) >>,
              base \cup {normalized} \cup GdnOperands({} \cup {"qkv", "z"}))
    BY <1>12, <2>1
  <2> QED BY <2>2, <2>3
<1>18. Flows(base \cup {normalized} \cup GdnOperands({"qkv", "z"}),
             << Kernel(Mixer, {normalized}, GdnOperands({"a", "b"})) >>,
             base \cup {normalized} \cup GdnOperands({"qkv", "z", "a", "b"}))
  <2>1. /\ {"qkv", "z"} \in SUBSET GdnNames /\ {"a", "b"} \in SUBSET GdnNames
        /\ {"qkv", "z"} \cap {"a", "b"} = {}
    BY DEF GdnNames
  <2>2. {"qkv", "z"} \cup {"a", "b"} = {"qkv", "z", "a", "b"}
    OBVIOUS
  <2> HIDE DEF base
  <2>3. Flows(base \cup {normalized} \cup GdnOperands({"qkv", "z"}),
              << Kernel(Mixer, {normalized}, GdnOperands({"a", "b"})) >>,
              base \cup {normalized} \cup GdnOperands({"qkv", "z"} \cup {"a", "b"}))
    BY <1>12, <2>1
  <2> QED BY <2>2, <2>3
<1> DEFINE k1 == Kernel(LayerNorm, {Hidden}, {normalized})
           k2 == Kernel(Mixer, {normalized}, GdnOperands({"qkv", "z"}))
           k3 == Kernel(Mixer, {normalized}, GdnOperands({"a", "b"}))
           k4 == Kernel(Mixer, {Gdn("qkv"), oldRing}, {Gdn("convolved"), newRing})
           k5 == Kernel(Mixer, GdnOperands({"convolved", "a", "b"}),
                               GdnOperands({"q_hat", "k_hat", "alpha", "beta"}))
           k6 == Kernel(Mixer, GdnOperands({"q_hat", "k_hat", "alpha", "beta"})
                                 \cup {GdnV, oldState},
                               {Gdn("o"), Persistent("gdn_s", "new")})
           k7 == Kernel(Mixer, GdnOperands({"o", "z"}), {Gdn("u")})
           k8 == Kernel(MixerOutput, {Gdn("u"), Hidden}, {Mixed})
           s1 == {Hidden} \cup Olds(layer)
           s2 == base \cup {normalized}
           s3 == base \cup {normalized} \cup GdnOperands({"qkv", "z"})
           s4 == base \cup {normalized} \cup GdnOperands({"qkv", "z", "a", "b"})
           s5 == rest \cup GdnOperands({"z", "a", "b", "convolved"})
           s6 == rest \cup GdnOperands({"z", "convolved", "q_hat", "k_hat", "alpha", "beta"})
           s7 == {Hidden} \cup GdnOperands({"z", "o"})
           s8 == {Hidden, Gdn("u")}
           s9 == {Mixed}
<1>19. /\ Flows(s1, <<k1>>, s2) /\ Flows(s2, <<k2>>, s3) /\ Flows(s3, <<k3>>, s4)
       /\ Flows(s4, <<k4>>, s5) /\ Flows(s5, <<k5>>, s6) /\ Flows(s6, <<k6>>, s7)
       /\ Flows(s7, <<k7>>, s8) /\ Flows(s8, <<k8>>, s9)
  BY <1>11, <1>13, <1>14, <1>15, <1>16, <1>17, <1>18, RecurrentFlows
<1>20. DecodeGdn = <<k1, k2, k3, k4, k5, k6, k7, k8>>
  BY DEF DecodeGdn, normalized
<1> HIDE DEF k1, k2, k3, k4, k5, k6, k7, k8, s1, s2, s3, s4, s5, s6, s7, s8, s9
<1>21. Flows(s1, DecodeGdn, s9)
  BY <1>19, <1>20, Flows8
<1> QED BY <1>21 DEF s1, s9

\* The state of an attention layer, beside its intermediate values.
LEMMA AttentionBeside ==
  ASSUME Ready, layer # Layers
  PROVE  /\ \A m \in AttentionNames \cup {"y"} :
               /\ Good(Attention(m)) /\ Here(Attention(m))
               /\ Far(Hidden, Attention(m)) /\ Far(Attention(m), Mixed)
               /\ Far(Attention(m), Persistent("kv", "new"))
               /\ Far(Persistent("kv", "new"), Attention(m))
         /\ Here(Persistent("kv", "new")) /\ Far(Hidden, Persistent("kv", "new"))
<1> DEFINE kv == Persistent("kv", "new")
<1>1. /\ "kv" \in States
      /\ \A b \in RowBuffers \cup {"kv"} : b \notin {"scratch", "prefill_attention"}
      /\ \A b \in RowBuffers : b # "kv"
  BY DEF States, RowBuffers
<1>2. \A m \in AttentionNames \cup {"y"} :
         Good(Attention(m)) /\ Attention(m).view.buffer \in {"scratch", "prefill_attention"}
  BY AttentionFact, BuffersDiffer
<1>3. \A m \in AttentionNames \cup {"y"} : Here(Attention(m))
  BY <1>2 DEF Here
<1>4. /\ Good(kv) /\ Here(kv) /\ kv.view.buffer = "kv"
      /\ \A o : Good(o) /\ o.view.buffer # "kv" => Far(o, kv) /\ Far(kv, o)
  BY <1>1, StateClear
<1> HIDE DEF kv
<1>5. \A m \in AttentionNames \cup {"y"} :
         /\ Far(Hidden, Attention(m)) /\ Far(Attention(m), Mixed)
         /\ Far(Attention(m), kv) /\ Far(kv, Attention(m))
  BY <1>1, <1>2, <1>4, RowsClear
<1>6. Far(Hidden, kv)
  BY <1>1, <1>4, RowsClear
<1> QED BY <1>2, <1>3, <1>4, <1>5, <1>6 DEF kv

\* Query, gate and the entry of the cache, from the projections.
LEMMA AttentionPrepFlows ==
  ASSUME Ready, layer # Layers
  PROVE  Flows({Hidden} \cup AttentionOperands({"qg", "k", "v"}),
               << Kernel(Mixer, AttentionOperands({"qg", "k", "v"}),
                         AttentionOperands({"q", "g"}) \cup {Persistent("kv", "new")}) >>,
               {Hidden, Persistent("kv", "new")} \cup AttentionOperands({"q", "g"}))
<1> DEFINE kv == Persistent("kv", "new")
           reads == AttentionOperands({"qg", "k", "v"})
           known == {Hidden} \cup reads
           writes == {kv, Attention("q"), Attention("g")}
           after == {Hidden} \cup writes
<1>1. Here(kv) /\ Far(Hidden, kv)
  BY AttentionBeside
<1>2. \A m \in {"q", "g"} : Here(Attention(m)) /\ Far(Hidden, Attention(m))
  BY AttentionBeside DEF AttentionNames
<1>3. AttentionOperands({"q", "g"}) = {Attention("q"), Attention("g")}
  BY DEF AttentionOperands
<1> HIDE DEF kv, reads
<1>4. /\ \A w \in writes : Here(w)
      /\ \A o \in after : o \in writes \/ (o \in known /\ \A w \in writes : Far(o, w))
      /\ reads \subseteq known
  BY <1>1, <1>2
<1>5. /\ writes = AttentionOperands({"q", "g"}) \cup {kv}
      /\ after = {Hidden, kv} \cup AttentionOperands({"q", "g"})
  BY <1>3
<1> HIDE DEF writes, after, known
<1>6. Flows(known, << Kernel(Mixer, reads, writes) >>, after)
  BY <1>4, FlowsLaunch
<1> QED BY <1>5, <1>6 DEF kv, reads, known

LEMMA DecodeAttentionFlows ==
  ASSUME Ready, layer # Layers, unit.kind = "decode"
  PROVE  Flows({Hidden}, DecodeAttention, {Mixed})
<1> DEFINE normalized == Normalized("mixer_input")
           partials == Attention("partials")
           kv == Persistent("kv", "new")
           inputs == AttentionOperands({"qg", "k", "v"})
           outputs == AttentionOperands({"q", "g"})
<1>1. /\ Good(normalized) /\ normalized.view.buffer = "scratch" /\ Here(normalized)
      /\ normalized.view.slot = 1
  BY NormalizedFact DEF Here
<1>2. Far(Hidden, normalized)
  BY <1>1, RowsClear DEF RowBuffers
<1>3. /\ Here(partials) /\ Good(partials) /\ partials.view.buffer = "scratch"
      /\ Far(partials, Attention("y")) /\ Far(Attention("g"), partials)
  BY PartialsFact DEF Here, AttentionNames
<1>4. Far(Hidden, partials)
  BY <1>3, RowsClear DEF RowBuffers
<1>5. Flows({Hidden}, << Kernel(LayerNorm, {Hidden}, {normalized}) >>, {Hidden, normalized})
  <2> DEFINE known == {Hidden}
             after == {Hidden, normalized}
             writes == {normalized}
  <2> HIDE DEF normalized
  <2>1. /\ \A w \in writes : Here(w)
        /\ \A o \in after : o \in writes \/ (o \in known /\ \A w \in writes : Far(o, w))
    BY <1>1, <1>2
  <2> HIDE DEF known, after, writes
  <2>2. Flows(known, << Kernel(LayerNorm, known, writes) >>, after)
    BY <2>1, FlowsLaunch
  <2> QED BY <2>2 DEF known, after, writes
<1>6. Flows({Hidden, normalized}, << Kernel(Mixer, {normalized}, inputs) >>, {Hidden} \cup inputs)
  <2> DEFINE known == {Hidden, normalized}
             after == {Hidden} \cup inputs
             reads == {normalized}
  <2>1. \A o \in inputs : Here(o) /\ Far(Hidden, o)
    <3>1. {"qg", "k", "v"} \subseteq AttentionNames
      BY DEF AttentionNames
    <3> QED BY <3>1, AttentionBeside DEF AttentionOperands
  <2> HIDE DEF inputs, normalized
  <2>2. \A o \in after : o \in inputs \/ (o \in known /\ \A w \in inputs : Far(o, w))
    BY <2>1
  <2>3. reads \subseteq known
    OBVIOUS
  <2> HIDE DEF known, after, reads
  <2>4. Flows(known, << Kernel(Mixer, reads, inputs) >>, after)
    BY <2>1, <2>2, <2>3, FlowsLaunch
  <2> QED BY <2>4 DEF known, after, reads
<1>7. Flows({Hidden} \cup inputs, << Kernel(Mixer, inputs, outputs \cup {kv}) >>,
            {Hidden, kv} \cup outputs)
  BY AttentionPrepFlows
<1>8. Flows({Hidden, kv} \cup outputs, << Kernel(Mixer, {Attention("q"), kv}, {partials}) >>,
            {Hidden, Attention("g"), partials})
  <2> DEFINE known == {Hidden, kv} \cup outputs
             after == {Hidden, Attention("g"), partials}
             reads == {Attention("q"), kv}
             writes == {partials}
  <2>1. outputs = {Attention("q"), Attention("g")}
    BY DEF AttentionOperands
  <2> HIDE DEF outputs, partials, kv
  <2>2. /\ \A w \in writes : Here(w) /\ reads \subseteq known
        /\ \A o \in after : o \in writes \/ (o \in known /\ \A w \in writes : Far(o, w))
    BY <1>3, <1>4, <2>1
  <2>3. reads \subseteq known
    BY <2>1
  <2> HIDE DEF known, after, reads, writes
  <2>4. Flows(known, << Kernel(Mixer, reads, writes) >>, after)
    BY <2>2, <2>3, FlowsLaunch
  <2> QED BY <2>4 DEF known, after, reads, writes
<1>9. Flows({Hidden, Attention("g"), partials},
            << Kernel(Mixer, AttentionOperands({"partials", "g"}), {Attention("y")}) >>,
            {Hidden, Attention("y")})
  <2> DEFINE known == {Hidden, Attention("g"), partials}
             after == {Hidden, Attention("y")}
             reads == AttentionOperands({"partials", "g"})
             writes == {Attention("y")}
  <2>1. reads = {partials, Attention("g")}
    BY DEF AttentionOperands
  <2>2. Here(Attention("y")) /\ Far(Hidden, Attention("y"))
    BY AttentionBeside
  <2> HIDE DEF reads, partials
  <2>3. /\ \A w \in writes : Here(w)
        /\ \A o \in after : o \in writes \/ (o \in known /\ \A w \in writes : Far(o, w))
        /\ reads \subseteq known
    BY <2>1, <2>2
  <2> HIDE DEF known, after, writes
  <2>4. Flows(known, << Kernel(Mixer, reads, writes) >>, after)
    BY <2>3, FlowsLaunch
  <2> QED BY <2>4 DEF known, after, reads, writes
<1>10. Flows({Hidden, Attention("y")},
             << Kernel(MixerOutput, {Attention("y"), Hidden}, {Mixed}) >>, {Mixed})
  <2>1. Here(Mixed)
    BY RowsClear
  <2> QED BY <2>1, FlowsLaunch
<1> DEFINE k1 == Kernel(LayerNorm, {Hidden}, {normalized})
           k2 == Kernel(Mixer, {normalized}, inputs)
           k3 == Kernel(Mixer, inputs, outputs \cup {kv})
           k4 == Kernel(Mixer, {Attention("q"), kv}, {partials})
           k5 == Kernel(Mixer, AttentionOperands({"partials", "g"}), {Attention("y")})
           k6 == Kernel(MixerOutput, {Attention("y"), Hidden}, {Mixed})
           s1 == {Hidden}
           s2 == {Hidden, normalized}
           s3 == {Hidden} \cup inputs
           s4 == {Hidden, kv} \cup outputs
           s5 == {Hidden, Attention("g"), partials}
           s6 == {Hidden, Attention("y")}
           s7 == {Mixed}
<1>11. /\ Flows(s1, <<k1>>, s2) /\ Flows(s2, <<k2>>, s3) /\ Flows(s3, <<k3>>, s4)
       /\ Flows(s4, <<k4>>, s5) /\ Flows(s5, <<k5>>, s6) /\ Flows(s6, <<k6>>, s7)
  BY <1>5, <1>6, <1>7, <1>8, <1>9, <1>10
<1>12. DecodeAttention = <<k1, k2, k3, k4, k5, k6>>
  BY DEF DecodeAttention
<1> HIDE DEF k1, k2, k3, k4, k5, k6, s1, s2, s3, s4, s5, s6, s7
<1>13. Flows(s1, DecodeAttention, s7)
  BY <1>11, <1>12, Flows6
<1> QED BY <1>13 DEF s1, s7

LEMMA DecodeMlpFlows ==
  ASSUME Ready
  PROVE  Flows({Mixed}, DecodeMlp, {NextHidden})
<1> DEFINE normalized == Normalized("mlp_input")
           swiglu == Holding(Scratch(4, 0, 34816), "swiglu")
<1>1. /\ Good(normalized) /\ normalized.view.buffer = "scratch" /\ Here(normalized)
  BY NormalizedFact DEF Here
<1>2. Good(swiglu) /\ swiglu.view.buffer = "scratch"
  <2>1. 0 + 34816 <= requests[4].bytes
    BY SizesFact, SMT
  <2> QED BY <2>1, ScratchFact, SMT
<1> HIDE DEF normalized, swiglu
<1>3. Here(swiglu) /\ Far(Mixed, normalized) /\ Far(Mixed, swiglu)
  BY <1>1, <1>2, RowsClear DEF RowBuffers, Here
<1> DEFINE k1 == Kernel(MlpNorm, {Mixed}, {normalized})
           k2 == Kernel(MlpSwiglu, {normalized}, {swiglu})
           k3 == Kernel(MlpDown, {swiglu, Mixed}, {NextHidden})
           s1 == {Mixed}
           s2 == {Mixed, normalized}
           s3 == {Mixed, swiglu}
           s4 == {NextHidden}
<1>4. Flows(s1, <<k1>>, s2)
  BY <1>1, <1>3, FlowsLaunch
<1>5. Flows(s2, <<k2>>, s3)
  BY <1>3, FlowsLaunch
<1>6. Flows(s3, <<k3>>, s4)
  BY RowsClear, FlowsLaunch
<1>7. DecodeMlp = <<k1, k2, k3>>
  BY SMT DEF DecodeMlp, normalized, swiglu
<1> HIDE DEF k1, k2, k3, s1, s2, s3, s4
<1>8. Flows(s1, DecodeMlp, s4)
  BY <1>4, <1>5, <1>6, <1>7, Flows3
<1> QED BY <1>8 DEF s1, s4

LEMMA Q8Apart == ASSUME Ready PROVE Far(Q8Gate, Q8Up)
<1>1. PICK d \in 1 .. 512 : Rows = d
  BY UnitFact, SMT
<1>2. /\ Q8Gate.view = [buffer |-> "q8", slot |-> 0, first |-> d * 21760, last |-> d * 91392]
      /\ Q8Up.view = [buffer |-> "q8", slot |-> 0, first |-> d * 91392, last |-> d * 161024]
  BY <1>1, SMT DEF Q8Gate, Q8Up, Holding, View
<1> QED BY <1>2, SMT DEF Far, Overlap, RangesOverlap

LEMMA Q8MlpFlows ==
  ASSUME Ready
  PROVE  Flows({Mixed}, Q8Mlp, {NextHidden})
<1> DEFINE input == Q8Pack(5120, "mlp_input")
           swiglu == Q8Pack(17408, "swiglu")
<1>0. ASSUME NEW k \in {5120, 17408}, NEW quantity
      PROVE  \A o \in Q8Pack(k, quantity) : /\ Good(o) /\ o.view.buffer = "q8"
                                            /\ Far(o, Q8Gate) /\ Far(o, Q8Up)
  BY Q8Fact
<1>1. /\ \A o \in input : /\ Good(o) /\ o.view.buffer = "q8"
                          /\ Far(o, Q8Gate) /\ Far(o, Q8Up)
      /\ \A o \in swiglu : Good(o) /\ o.view.buffer = "q8"
  BY <1>0
<1>2. /\ Good(Q8Gate) /\ Q8Gate.view.buffer = "q8" /\ Good(Q8Up) /\ Q8Up.view.buffer = "q8"
      /\ Far(Q8Gate, Q8Up)
  BY Q8Fact, Q8Apart
<1> HIDE DEF input, swiglu
<1>3. \A o : Good(o) /\ o.view.buffer = "q8" => Here(o) /\ Far(Mixed, o)
  BY RowsClear DEF RowBuffers, Here
<1> DEFINE k1 == Kernel(MlpNorm, {Mixed}, input)
           k2 == Kernel(MlpSwiglu, input, {Q8Gate})
           k3 == Kernel(MlpSwiglu, input, {Q8Up})
           k4 == Kernel(MlpSwiglu, {Q8Gate, Q8Up}, swiglu)
           k5 == Kernel(MlpDown, swiglu \cup {Mixed}, {NextHidden})
           s1 == {Mixed}
           s2 == {Mixed} \cup input
           s3 == {Mixed, Q8Gate} \cup input
           s4 == {Mixed, Q8Gate, Q8Up}
           s5 == swiglu \cup {Mixed}
           s6 == {NextHidden}
<1>4. Flows(s1, <<k1>>, s2)
  BY <1>1, <1>3, FlowsLaunch
<1>5. Flows(s2, <<k2>>, s3)
  BY <1>1, <1>2, <1>3, FlowsLaunch
<1>6. Flows(s3, <<k3>>, s4)
  BY <1>1, <1>2, <1>3, FlowsLaunch
<1>7. Flows(s4, <<k4>>, s5)
  BY <1>1, <1>2, <1>3, FlowsLaunch
<1>8. Flows(s5, <<k5>>, s6)
  BY RowsClear, FlowsLaunch
<1>9. Q8Mlp = <<k1, k2, k3, k4, k5>>
  BY SMT DEF Q8Mlp, input, swiglu
<1> HIDE DEF k1, k2, k3, k4, k5, s1, s2, s3, s4, s5, s6
<1>10. Flows(s1, Q8Mlp, s6)
  BY <1>4, <1>5, <1>6, <1>7, <1>8, <1>9, Flows5
<1> QED BY <1>10 DEF s1, s6

LEMMA ReadoutFlows ==
  ASSUME Ready
  PROVE  Flows({Hidden}, Readout, {})
<1> DEFINE last == Holding(View(residual, 0, (Rows - 1) * 20480, 20480), "hidden")
           normalized == Normalized("head_input")
           logits == Holding(Scratch(5, 0, 993280), "logits")
<1>1. last.value = Hidden.value /\ Contains(Hidden.view, last.view)
  <2>1. PICK k \in 1 .. 512 : Rows = k
    BY UnitFact
  <2>2. /\ last.view = [buffer |-> residual, slot |-> 0, first |-> (k - 1) * 20480,
                        last |-> (k - 1) * 20480 + 20480]
        /\ Hidden.view = [buffer |-> residual, slot |-> 0, first |-> 0, last |-> 0 + k * 20480]
    BY <2>1 DEF Hidden, RowsOf, Holding, View
  <2>3. last.value = Hidden.value
    BY DEF Hidden, RowsOf, Holding
  <2> HIDE DEF last
  <2> QED BY <2>2, <2>3, SMT DEF Contains
<1>2. Here(normalized)
  BY NormalizedFact DEF Here
<1>3. Here(logits)
  BY DEF Here, Holding, Scratch, View
<1> HIDE DEF last, normalized, logits
<1> DEFINE k1 == Kernel(FinalNorm, {last}, {normalized})
           k2 == Kernel(LmHead, {normalized}, {logits})
           s1 == {Hidden}
           s2 == {normalized}
           s3 == {}
<1>4. Flows(s1, <<k1>>, s2)
  <2>1. Supplies(s1, k1)
    BY <1>1 DEF Supplies, Kernel
  <2>2. Local(k1)
    BY <1>2 DEF Local, Kernel, Here
  <2> QED BY <2>1, <2>2, FlowsKernel
<1>5. Flows(s2, <<k2>>, s3)
  BY <1>3, FlowsLaunch
<1>6. Readout = <<k1, k2>>
  BY SMT DEF Readout, last, normalized, logits
<1> HIDE DEF k1, k2, s1, s2, s3
<1>7. Flows(s1, Readout, s3)
  BY <1>4, <1>5, <1>6, Flows2
<1> QED BY <1>7 DEF s1, s3

\* What a projection reads is nowhere near the workspaces of its tiles.
LEMMA InputsApart ==
  ASSUME Ready, NEW role, NEW o, Good(o), InputOf(o)
  PROVE  /\ Far(o, WeightTile(role)) /\ Far(o, AccumA(role)) /\ Far(o, Library)
         /\ Here(WeightTile(role)) /\ Here(AccumA(role)) /\ Here(Library)
<1> DEFINE w == WeightTile(role)
           a == AccumA(role)
<1>1. InEngine(w, "weight_tile") /\ InEngine(a, "accum_a") /\ InEngine(Library, "library")
  BY EngineOperands
<1> HIDE DEF w, a
<1>2. /\ Good(w) /\ Good(a) /\ Good(Library)
      /\ w.view.buffer = "engine" /\ a.view.buffer = "engine" /\ Library.view.buffer = "engine"
  BY <1>1, EngineApart DEF EngineNames
<1>3. Far(o, w) /\ Far(o, a) /\ Far(o, Library)
  <2>1. CASE o.view.buffer # "engine"
    BY <1>2, <2>1, Cross
  <2>2. CASE \E m \in {"normalized", "swiglu"} : InEngine(o, m)
    BY <1>1, <2>2, EngineApart DEF EngineNames
  <2> QED BY <2>1, <2>2 DEF InputOf
<1>4. Here(w) /\ Here(a) /\ Here(Library)
  BY <1>2 DEF Here
<1> QED BY <1>3, <1>4 DEF w, a

LEMMA UnpackedFlows ==
  ASSUME Ready, NEW stage, NEW role, NEW input, NEW add, NEW output, NEW A, NEW C,
         \A o \in A : Good(o) /\ InputOf(o), input \in A, add \subseteq A, Here(output),
         \A o \in C : o = output \/ (o \in A /\ Far(o, output))
  PROVE  Flows(A, Unpacked(stage, role, input, add, output), C)
<1> DEFINE w == WeightTile(role)
           a == AccumA(role)
<1>1. /\ \A o \in A : Far(o, w) /\ Far(o, a) /\ Far(o, Library)
      /\ Here(w) /\ Here(a) /\ Here(Library)
  BY InputsApart
<1> HIDE DEF w, a
<1> DEFINE k1 == Kernel(stage, {}, {w})
           k2 == Kernel(stage, {w, input}, {a, Library})
           k3 == Kernel(stage, {a} \cup add, {output})
           s2 == A \cup {w}
           s3 == A \cup {a}
<1>2. Flows(A, <<k1>>, s2)
  BY <1>1, FlowsLaunch
<1>3. Flows(s2, <<k2>>, s3)
  <2> DEFINE reads == {w, input}
             writes == {a, Library}
  <2>1. reads \subseteq s2 /\ \A x \in writes : Here(x)
    BY <1>1
  <2>2. \A o \in s3 : o \in writes \/ (o \in s2 /\ \A x \in writes : Far(o, x))
    BY <1>1
  <2> HIDE DEF reads, writes, s2, s3
  <2>3. Flows(s2, << Kernel(stage, reads, writes) >>, s3)
    BY <2>1, <2>2, FlowsLaunch
  <2> QED BY <2>3 DEF reads, writes
<1>4. Flows(s3, <<k3>>, C)
  <2> DEFINE reads == {a} \cup add
             writes == {output}
  <2>1. reads \subseteq s3 /\ \A x \in writes : Here(x)
    OBVIOUS
  <2>2. \A o \in C : o \in writes \/ (o \in s3 /\ \A x \in writes : Far(o, x))
    OBVIOUS
  <2> HIDE DEF reads, writes, s3
  <2>3. Flows(s3, << Kernel(stage, reads, writes) >>, C)
    BY <2>1, <2>2, FlowsLaunch
  <2> QED BY <2>3 DEF reads, writes
<1>5. Unpacked(stage, role, input, add, output) = <<k1, k2, k3>>
  BY DEF Unpacked, w, a
<1> HIDE DEF k1, k2, k3, s2, s3
<1> QED BY <1>2, <1>3, <1>4, <1>5, Flows3

\* A projection, packed or unpacked or of one row, of what is kept in A.
LEMMA ProjectedFlows ==
  ASSUME Ready, NEW stage, NEW role, NEW n \in Widths, NEW k \in Depths, NEW quantity,
         NEW input, NEW add, NEW output, NEW A, NEW C,
         \A o \in A : /\ Good(o) /\ o.view.buffer # "engine"
                      /\ o.view.buffer = "fp8" => o \in Fp8Pack(k, quantity),
         Packs => Fp8Pack(k, quantity) \subseteq A, ~Packs => input \in A,
         add \subseteq A, Here(output),
         \A o \in C : o = output \/ (o \in A /\ Far(o, output))
  PROVE  Flows(A, Projected(stage, role, n, input, Fp8Pack(k, quantity), add, output), C)
<1> DEFINE pack == Fp8Pack(k, quantity)
           sum == Fp8Sum(role, n)
<1>1. CASE Packs
  <2>1. /\ Good(sum) /\ sum.view.buffer = "fp8" /\ \A o \in pack : Far(sum, o)
    BY Fp8Fact
  <2>2. \A o \in A : Far(o, Library) /\ Here(Library)
    BY InputsApart DEF InputOf
  <2>3. Library.view.buffer = "engine" /\ Good(Library)
    <3>1. InEngine(Library, "library")
      BY EngineOperands
    <3> QED BY <3>1, EngineApart DEF EngineNames
  <2> HIDE DEF pack, sum
  <2>4. \A o \in A : Far(o, sum)
    <3>1. \A o \in A : o.view.buffer # "fp8" => Far(o, sum)
      BY <2>1, Cross
    <3>2. \A o \in pack : Far(o, sum)
      BY <2>1 DEF Far, Overlap, RangesOverlap
    <3> QED BY <3>1, <3>2 DEF pack
  <2>5. Here(sum) /\ Here(Library)
    BY <2>1, <2>3 DEF Here
  <2> DEFINE k1 == Kernel(stage, pack, {sum, Library})
             k2 == Kernel(stage, {sum} \cup add, {output})
             s2 == A \cup {sum}
  <2>6. Flows(A, <<k1>>, s2)
    <3> DEFINE writes == {sum, Library}
    <3>1. pack \subseteq A /\ \A x \in writes : Here(x)
      BY <1>1, <2>5 DEF pack
    <3>2. \A o \in s2 : o \in writes \/ (o \in A /\ \A x \in writes : Far(o, x))
      BY <2>2, <2>4
    <3> HIDE DEF writes, s2
    <3>3. Flows(A, << Kernel(stage, pack, writes) >>, s2)
      BY <3>1, <3>2, FlowsLaunch
    <3> QED BY <3>3 DEF writes
  <2>7. Flows(s2, <<k2>>, C)
    <3> DEFINE reads == {sum} \cup add
               writes == {output}
    <3>1. reads \subseteq s2 /\ \A x \in writes : Here(x)
      OBVIOUS
    <3>2. \A o \in C : o \in writes \/ (o \in s2 /\ \A x \in writes : Far(o, x))
      OBVIOUS
    <3> HIDE DEF reads, writes, s2
    <3>3. Flows(s2, << Kernel(stage, reads, writes) >>, C)
      BY <3>1, <3>2, FlowsLaunch
    <3> QED BY <3>3 DEF reads, writes
  <2>8. Projected(stage, role, n, input, pack, add, output) = <<k1, k2>>
    BY <1>1 DEF Projected, sum
  <2> HIDE DEF k1, k2, s2
  <2>9. Flows(A, Projected(stage, role, n, input, pack, add, output), C)
    BY <2>6, <2>7, <2>8, Flows2
  <2> QED BY <2>9 DEF pack
<1>2. CASE ~Packs /\ Fp8Mixer
  <2> DEFINE reads == {input} \cup add
             writes == {output}
  <2>1. reads \subseteq A /\ \A x \in writes : Here(x)
    BY <1>2
  <2>2. \A o \in C : o \in writes \/ (o \in A /\ \A x \in writes : Far(o, x))
    OBVIOUS
  <2>3. Projected(stage, role, n, input, pack, add, output) = << Kernel(stage, reads, writes) >>
    BY <1>2 DEF Projected
  <2> HIDE DEF reads, writes, pack
  <2>4. Flows(A, << Kernel(stage, reads, writes) >>, C)
    BY <2>1, <2>2, FlowsLaunch
  <2>5. Flows(A, Projected(stage, role, n, input, pack, add, output), C)
    BY <2>3, <2>4
  <2> QED BY <2>5 DEF pack
<1>3. CASE ~Packs /\ ~Fp8Mixer
  <2>1. \A o \in A : Good(o) /\ InputOf(o)
    BY DEF InputOf
  <2> HIDE DEF pack
  <2>2. Flows(A, Unpacked(stage, role, input, add, output), C)
    BY <1>3, <2>1, UnpackedFlows
  <2>3. Projected(stage, role, n, input, pack, add, output) =
           Unpacked(stage, role, input, add, output)
    BY <1>3 DEF Projected
  <2>4. Flows(A, Projected(stage, role, n, input, pack, add, output), C)
    BY <2>2, <2>3
  <2> QED BY <2>4 DEF pack
<1> QED BY <1>1, <1>2, <1>3

\* What a mixer leaves for its output projection: packed rows or a plain row.
Mixes(input, k) == {Hidden} \cup (IF Packs THEN Fp8Pack(k, "mixer_output") ELSE {input})

\* The projection of a mixer's last rows onto the residual rows.
LEMMA OutputFlows ==
  ASSUME Ready, NEW n \in Widths, NEW k \in Depths,
         NEW input, Good(input), input.view.buffer \notin {"engine", "fp8"}
  PROVE  Flows(Mixes(input, k),
               Projected(MixerOutput, "out", n, input, Fp8Pack(k, "mixer_output"),
                         {Hidden}, Mixed),
               {Mixed})
<1> DEFINE pack == Fp8Pack(k, "mixer_output")
           known == Mixes(input, k)
           add == {Hidden}
           after == {Mixed}
<1>2. \A o \in pack : Good(o) /\ o.view.buffer = "fp8"
  BY Fp8Fact
<1>3. Good(Hidden) /\ Hidden.view.buffer \notin {"engine", "fp8"} /\ Here(Mixed)
  BY RowsClear DEF RowBuffers
<1> HIDE DEF pack
<1>4. known = {Hidden} \cup (IF Packs THEN pack ELSE {input})
  BY DEF Mixes, pack
<1> HIDE DEF known
<1>5. \A o \in known : /\ Good(o) /\ o.view.buffer # "engine"
                       /\ o.view.buffer = "fp8" => o \in pack
  BY <1>2, <1>3, <1>4
<1>6. (Packs => pack \subseteq known) /\ (~Packs => input \in known) /\ add \subseteq known
  BY <1>4
<1>7. \A o \in after : o = Mixed \/ (o \in known /\ Far(o, Mixed))
  OBVIOUS
<1> HIDE DEF add, after
<1>8. Flows(known, Projected(MixerOutput, "out", n, input, Fp8Pack(k, "mixer_output"), add, Mixed),
            after)
  BY <1>3, <1>5, <1>6, <1>7, ProjectedFlows DEF pack
<1> QED BY <1>8 DEF known, add, after

LEMMA PrefillGdnFlows ==
  ASSUME Ready, layer # Layers, unit.kind = "prefill"
  PROVE  Flows({Hidden} \cup Olds(layer), PrefillGdnMixer, {Mixed})
<1>0. PICK five \in Depths, six \in Depths, wide \in Widths, slim \in Widths :
         five = 5120 /\ six = 6144 /\ wide = 10240 /\ slim = 6144
  BY ShapesFact
<1> DEFINE normalized == Gdn("normalized")
           input == Fp8Pack(five, "mixer_input")
           output == Fp8Pack(six, "mixer_output")
           oldRing == Persistent("conv_history", "old")
           newRing == Persistent("conv_history", "new")
           oldState == Persistent("gdn_s", "old")
           newState == Persistent("gdn_s", "new")
           quartet == GdnOperands({"q_hat", "k_hat", "alpha", "beta"})
           packed == IF Packs THEN input ELSE {}
           base == {Hidden, oldRing, oldState, normalized} \cup packed
           rest == {Hidden, oldState}
           olds == {Hidden} \cup Olds(layer)
           first == << Kernel(LayerNorm, {Hidden}, {normalized} \cup packed) >>
           qkv == Projected(Mixer, "qkv", wide, normalized, input, {}, Gdn("qkv"))
           z == Projected(Mixer, "z", slim, normalized, input, {}, Gdn("z"))
           a == Unpacked(Mixer, "a", normalized, {}, Gdn("a"))
           b == Unpacked(Mixer, "b", normalized, {}, Gdn("b"))
           conv == Kernel(Mixer, {Gdn("qkv"), oldRing}, {Gdn("convolved")})
           ring == Kernel(Mixer, {Gdn("qkv"), oldRing}, {newRing})
           prep == Kernel(Mixer, GdnOperands({"convolved", "a", "b"}), quartet)
           recur == Kernel(Mixer, quartet \cup {GdnV, oldState}, {Gdn("o"), newState})
           gated == Kernel(Mixer, GdnOperands({"o", "z"}), IF Packs THEN output ELSE {Gdn("u")})
           core == << conv, ring, prep, recur, gated >>
           out == Projected(MixerOutput, "out", 5120, Gdn("u"), output, {Hidden}, Mixed)
           gave == {Hidden} \cup (IF Packs THEN output ELSE {Gdn("u")})
<1>1. GdnBuffer = "prefill_gdn"
  BY DEF GdnBuffer
<1>2. /\ Good(normalized) /\ normalized.view.buffer = "prefill_gdn" /\ Here(normalized)
      /\ \A m \in GdnNames : Far(normalized, Gdn(m)) /\ Far(Gdn(m), normalized)
  BY PrefillGdnNormalized DEF Here
<1>3. \A m \in GdnNames :
         /\ Good(Gdn(m)) /\ Gdn(m).view.buffer = "prefill_gdn" /\ Here(Gdn(m))
         /\ \A n \in GdnNames : m # n => Far(Gdn(m), Gdn(n))
  BY <1>1, GdnFact DEF Here
<1>4. /\ Good(Hidden) /\ Hidden.view.buffer \in RowBuffers
      /\ Good(oldRing) /\ oldRing.view.buffer = "conv_history"
      /\ Good(oldState) /\ oldState.view.buffer = "gdn_s"
  BY RowsClear, StateClear DEF States
<1>5. /\ \A o \in input : Good(o) /\ o.view.buffer = "fp8" /\ Here(o)
      /\ \A o \in output : Good(o) /\ o.view.buffer = "fp8" /\ Here(o)
  <2>1. /\ \A o \in input : Good(o) /\ o.view.buffer = "fp8"
        /\ \A o \in output : Good(o) /\ o.view.buffer = "fp8"
    BY Fp8Fact
  <2> QED BY <2>1 DEF Here
<1>6. Olds(layer) = {oldRing, oldState}
  BY OldsFact
<1>7. \A o \in {Hidden, oldRing, oldState} : \A m \in GdnNames : Far(o, Gdn(m))
  BY GdnBeside
<1> HIDE DEF normalized, oldRing, newRing, oldState, newState, input, output
<1>8. ASSUME NEW o, o \in {Hidden, oldRing, oldState}
      PROVE  Far(o, normalized) /\ \A p \in input : Far(o, p)
  BY <1>2, <1>4, <1>5, <1>8, Cross DEF RowBuffers
<1>9. \A o \in base : \A m \in GdnNames : Far(o, Gdn(m))
  <2>1. \A p \in input : \A m \in GdnNames : Far(p, Gdn(m))
    BY <1>3, <1>5, Cross
  <2> QED BY <1>2, <1>7, <2>1
<1>10. Flows(olds, first, base)
  <2> DEFINE reads == {Hidden}
             writes == {normalized} \cup packed
  <2>1. olds = {Hidden, oldRing, oldState} /\ reads \subseteq olds
    BY <1>6
  <2>2. \A w \in writes : Here(w)
    BY <1>2, <1>5
  <2>3. \A o \in base : o \in writes \/ (o \in olds /\ \A w \in writes : Far(o, w))
    BY <1>8, <2>1
  <2> HIDE DEF olds, base, reads, writes
  <2>4. Flows(olds, << Kernel(LayerNorm, reads, writes) >>, base)
    BY <2>1, <2>2, <2>3, FlowsLaunch
  <2> QED BY <2>4 DEF reads, writes
<1>11. ASSUME NEW m \in GdnNames, NEW n \in Widths, NEW M \in SUBSET GdnNames, m \notin M
       PROVE  /\ Flows(base \cup GdnOperands(M),
                       Projected(Mixer, m, n, normalized, input, {}, Gdn(m)),
                       base \cup GdnOperands(M \cup {m}))
              /\ Flows(base \cup GdnOperands(M),
                       Unpacked(Mixer, m, normalized, {}, Gdn(m)),
                       base \cup GdnOperands(M \cup {m}))
  <2> DEFINE known == base \cup GdnOperands(M)
             after == base \cup GdnOperands(M \cup {m})
  <2>1. \A o \in known : /\ Good(o) /\ o.view.buffer # "engine"
                         /\ o.view.buffer = "fp8" => o \in input
    BY <1>2, <1>3, <1>4, <1>5 DEF GdnOperands, RowBuffers
  <2>2. (Packs => input \subseteq known) /\ normalized \in known
    OBVIOUS
  <2>3. \A o \in after : o = Gdn(m) \/ (o \in known /\ Far(o, Gdn(m)))
    <3> HIDE DEF base
    <3> QED BY <1>3, <1>9, <1>11 DEF GdnOperands
  <2>4. Here(Gdn(m)) /\ {} \subseteq known
    BY <1>3
  <2> HIDE DEF known, after
  <2>5. Flows(known, Projected(Mixer, m, n, normalized, input, {}, Gdn(m)), after)
    BY <2>1, <2>2, <2>3, <2>4, ProjectedFlows DEF input
  <2>6. Flows(known, Unpacked(Mixer, m, normalized, {}, Gdn(m)), after)
    BY <2>1, <2>2, <2>3, <2>4, UnpackedFlows DEF InputOf
  <2> QED BY <2>5, <2>6 DEF known, after
<1> DEFINE s2 == base \cup GdnOperands({"qkv"})
           s3 == base \cup GdnOperands({"qkv", "z"})
           s4 == base \cup GdnOperands({"qkv", "z", "a"})
           s5 == base \cup GdnOperands({"qkv", "z", "a", "b"})
<1>12. Flows(base, qkv, s2) /\ Flows(s2, z, s3) /\ Flows(s3, a, s4) /\ Flows(s4, b, s5)
  <2>1. /\ {"qkv", "z", "a", "b"} \subseteq GdnNames
        /\ {} \cup {"qkv"} = {"qkv"} /\ {"qkv"} \cup {"z"} = {"qkv", "z"}
        /\ {"qkv", "z"} \cup {"a"} = {"qkv", "z", "a"}
        /\ {"qkv", "z", "a"} \cup {"b"} = {"qkv", "z", "a", "b"}
    BY DEF GdnNames
  <2>2. base \cup GdnOperands({}) = base
    BY DEF GdnOperands
  <2> HIDE DEF base
  <2>3. Flows(base \cup GdnOperands({}), qkv, base \cup GdnOperands({} \cup {"qkv"}))
    BY <1>11, <2>1
  <2>4. Flows(s2, z, base \cup GdnOperands({"qkv"} \cup {"z"}))
    BY <1>11, <2>1
  <2>5. Flows(s3, a, base \cup GdnOperands({"qkv", "z"} \cup {"a"}))
    BY <1>11, <2>1
  <2>6. Flows(s4, b, base \cup GdnOperands({"qkv", "z", "a"} \cup {"b"}))
    BY <1>11, <2>1
  <2> QED BY <2>1, <2>2, <2>3, <2>4, <2>5, <2>6
<1> DEFINE s6 == {Hidden, oldRing, oldState} \cup GdnOperands({"qkv", "z", "a", "b", "convolved"})
           s7 == rest \cup GdnOperands({"z", "a", "b", "convolved"})
           s8 == rest \cup GdnOperands({"z", "convolved", "q_hat", "k_hat", "alpha", "beta"})
           s9 == {Hidden} \cup GdnOperands({"z", "o"})
<1>13. Flows(s5, <<conv>>, s6)
  <2> DEFINE reads == {Gdn("qkv"), oldRing}
             writes == {Gdn("convolved")}
             M == {"qkv", "z", "a", "b"}
  <2>1. M \subseteq GdnNames \ {"convolved"} /\ "convolved" \in GdnNames /\ "qkv" \in M
    BY DEF GdnNames
  <2>2. GdnOperands({"qkv", "z", "a", "b", "convolved"}) = GdnOperands(M) \cup writes
    BY DEF GdnOperands
  <2>3. reads \subseteq s5 /\ \A w \in writes : Here(w)
    BY <1>3, <2>1 DEF GdnOperands
  <2> HIDE DEF M
  <2>4. \A o \in GdnOperands(M) : Far(o, Gdn("convolved"))
    BY <1>3, <2>1 DEF GdnOperands
  <2>5. \A o \in s6 : o \in writes \/ (o \in s5 /\ \A w \in writes : Far(o, w))
    BY <1>7, <2>1, <2>2, <2>4 DEF M
  <2> HIDE DEF reads, writes, s5, s6
  <2>6. Flows(s5, << Kernel(Mixer, reads, writes) >>, s6)
    BY <2>3, <2>5, FlowsLaunch
  <2> QED BY <2>6 DEF reads, writes
<1>14. Flows(s6, <<ring>>, s7)
  <2> DEFINE reads == {Gdn("qkv"), oldRing}
             writes == {newRing}
             M == {"z", "a", "b", "convolved"}
  <2>1. M \subseteq GdnNames
    BY DEF GdnNames
  <2>2. reads \subseteq s6 /\ GdnOperands(M) \subseteq s6
    BY DEF GdnOperands
  <2>3. \A w \in writes : Here(w)
    BY GdnBeside DEF newRing
  <2>4. \A o \in rest : Far(o, newRing)
    BY GdnBeside DEF newRing, oldState
  <2> HIDE DEF M
  <2>5. \A o \in GdnOperands(M) : Far(o, newRing)
    BY <2>1, GdnBeside DEF GdnOperands, newRing
  <2>6. \A o \in s7 : o \in writes \/ (o \in s6 /\ \A w \in writes : Far(o, w))
    BY <2>2, <2>4, <2>5 DEF M
  <2> HIDE DEF reads, writes, s6, s7
  <2>7. Flows(s6, << Kernel(Mixer, reads, writes) >>, s7)
    BY <2>2, <2>3, <2>6, FlowsLaunch
  <2> QED BY <2>7 DEF reads, writes
<1>15. Flows(s7, <<prep>>, s8)
  <2>1. \A o \in rest : \A m \in GdnNames : Far(o, Gdn(m))
    BY <1>7
  <2> QED BY <2>1, GdnPrepFlows
<1>16. Flows(s8, <<recur>>, s9)
  BY RecurrentFlows DEF oldState, newState
<1>17. Flows(s9, <<gated>>, gave)
  <2> DEFINE reads == GdnOperands({"o", "z"})
             writes == IF Packs THEN output ELSE {Gdn("u")}
  <2>1. "u" \in GdnNames /\ {Hidden} \subseteq s9 /\ reads \subseteq s9
    BY DEF GdnNames, GdnOperands
  <2>2. \A w \in writes : Here(w) /\ Far(Hidden, w)
    <3>1. Here(Gdn("u")) /\ Far(Hidden, Gdn("u"))
      BY <1>3, <1>7, <2>1
    <3>2. \A o \in output : Here(o) /\ Far(Hidden, o)
      BY <1>4, <1>5, Cross DEF RowBuffers
    <3> QED BY <3>1, <3>2
  <2>3. \A o \in gave : o \in writes \/ (o \in s9 /\ \A w \in writes : Far(o, w))
    BY <2>1, <2>2
  <2> HIDE DEF reads, writes, s9, gave
  <2>4. Flows(s9, << Kernel(Mixer, reads, writes) >>, gave)
    BY <2>1, <2>2, <2>3, FlowsLaunch
  <2> QED BY <2>4 DEF reads, writes
<1>18. Flows(gave, out, {Mixed})
  <2>1. Good(Gdn("u")) /\ Gdn("u").view.buffer \notin {"engine", "fp8"}
    BY <1>3 DEF GdnNames
  <2>2. PICK n \in Widths : n = 5120
    BY ShapesFact
  <2>3. Flows(Mixes(Gdn("u"), six),
              Projected(MixerOutput, "out", n, Gdn("u"), Fp8Pack(six, "mixer_output"),
                        {Hidden}, Mixed),
              {Mixed})
    BY <2>1, OutputFlows
  <2>4. gave = Mixes(Gdn("u"), six)
    BY DEF Mixes, output
  <2> HIDE DEF gave
  <2> QED BY <2>2, <2>3, <2>4 DEF output
<1>19. Flows(s5, core, gave)
  <2> HIDE DEF conv, ring, prep, recur, gated, s5, s6, s7, s8, s9, gave
  <2> QED BY <1>13, <1>14, <1>15, <1>16, <1>17, Flows5
<1>20. PrefillGdnMixer = first \o qkv \o z \o a \o b \o core \o out
  BY <1>0 DEF PrefillGdnMixer, normalized, oldRing, newRing, oldState, newState, input, output
<1>21. olds = {Hidden} \cup Olds(layer)
  OBVIOUS
<1> HIDE DEF first, qkv, z, a, b, core, out, olds, base, s2, s3, s4, s5, gave
<1>22. Flows(olds, first \o qkv \o z \o a \o b, s5)
  BY <1>10, <1>12, FlowsThen
<1>23. Flows(olds, first \o qkv \o z \o a \o b \o core \o out, {Mixed})
  BY <1>18, <1>19, <1>22, FlowsThen
<1> QED BY <1>20, <1>21, <1>23

LEMMA PrefillAttentionFlows ==
  ASSUME Ready, layer # Layers, unit.kind = "prefill"
  PROVE  Flows({Hidden}, PrefillAttentionMixer, {Mixed})
<1>0. PICK five \in Depths, six \in Depths, wide \in Widths, slim \in Widths :
         five = 5120 /\ six = 6144 /\ wide = 12288 /\ slim = 1024
  BY ShapesFact
<1> DEFINE normalized == Attention("normalized")
           input == Fp8Pack(five, "mixer_input")
           output == Fp8Pack(six, "mixer_output")
           kv == Persistent("kv", "new")
           inputs == AttentionOperands({"qg", "k", "v"})
           outputs == AttentionOperands({"q", "g"})
           packed == IF Packs THEN input ELSE {normalized}
           base == {Hidden} \cup packed
           first == << Kernel(LayerNorm, {Hidden}, packed) >>
           qg == Projected(Mixer, "qg", wide, normalized, input, {}, Attention("qg"))
           k == Projected(Mixer, "k", slim, normalized, input, {}, Attention("k"))
           v == Projected(Mixer, "v", slim, normalized, input, {}, Attention("v"))
           prep == Kernel(Mixer, inputs, outputs \cup {kv})
           attend == Kernel(Mixer, outputs \cup {kv}, IF Packs THEN output ELSE {Attention("y")})
           core == << prep, attend >>
           out == Projected(MixerOutput, "out", 5120, Attention("y"), output, {Hidden}, Mixed)
           gave == Mixes(Attention("y"), six)
<1>1. AttentionBuffer = "prefill_attention"
  BY DEF AttentionBuffer
<1>2. /\ Good(normalized) /\ normalized.view.buffer = "prefill_attention" /\ Here(normalized)
      /\ \A m \in AttentionNames : Far(normalized, Attention(m))
  <2>1. /\ Good(normalized) /\ normalized.view.buffer = "prefill_attention"
        /\ \A m \in AttentionNames : Far(Attention(m), normalized)
    BY PrefillAttentionNormalized
  <2>2. \A m \in AttentionNames : Far(normalized, Attention(m))
    <3> HIDE DEF normalized
    <3> QED BY <2>1 DEF Far, Overlap, RangesOverlap
  <2> HIDE DEF normalized
  <2> QED BY <2>1, <2>2 DEF Here
<1>3. \A m \in AttentionNames \cup {"y"} :
         /\ Good(Attention(m)) /\ Attention(m).view.buffer = "prefill_attention"
         /\ Here(Attention(m)) /\ Far(Hidden, Attention(m))
         /\ \A n \in AttentionNames : m # n => Far(Attention(m), Attention(n))
  BY <1>1, AttentionFact, AttentionBeside DEF Places
<1>4. /\ Good(Hidden) /\ Hidden.view.buffer \in RowBuffers
  BY RowsClear
<1>5. /\ \A o \in input : Good(o) /\ o.view.buffer = "fp8" /\ Here(o)
      /\ \A o \in output : Good(o) /\ o.view.buffer = "fp8" /\ Here(o)
  <2>1. /\ \A o \in input : Good(o) /\ o.view.buffer = "fp8"
        /\ \A o \in output : Good(o) /\ o.view.buffer = "fp8"
    BY Fp8Fact
  <2> QED BY <2>1 DEF Here
<1> HIDE DEF normalized, input, output, kv
<1>6. /\ Far(Hidden, normalized) /\ \A p \in input : Far(Hidden, p)
      /\ \A p \in output : Far(Hidden, p)
  BY <1>2, <1>4, <1>5, Cross DEF RowBuffers
<1>7. \A o \in base : \A m \in AttentionNames : Far(o, Attention(m))
  <2>1. \A p \in input : \A m \in AttentionNames : Far(p, Attention(m))
    BY <1>3, <1>5, Cross
  <2> QED BY <1>2, <1>3, <2>1
<1>8. Flows({Hidden}, first, base)
  <2> DEFINE known == {Hidden}
             writes == packed
  <2>1. \A w \in writes : Here(w)
    BY <1>2, <1>5
  <2>2. \A o \in base : o \in writes \/ (o \in known /\ \A w \in writes : Far(o, w))
    BY <1>6
  <2> HIDE DEF known, writes, base
  <2>3. Flows(known, << Kernel(LayerNorm, known, writes) >>, base)
    BY <2>1, <2>2, FlowsLaunch
  <2> QED BY <2>3 DEF known, writes
<1>9. ASSUME NEW m \in AttentionNames, NEW n \in Widths,
             NEW M \in SUBSET AttentionNames, m \notin M
      PROVE  Flows(base \cup AttentionOperands(M),
                   Projected(Mixer, m, n, normalized, input, {}, Attention(m)),
                   base \cup AttentionOperands(M \cup {m}))
  <2> DEFINE known == base \cup AttentionOperands(M)
             after == base \cup AttentionOperands(M \cup {m})
  <2>1. \A o \in known : /\ Good(o) /\ o.view.buffer # "engine"
                         /\ o.view.buffer = "fp8" => o \in input
    BY <1>2, <1>3, <1>4, <1>5 DEF AttentionOperands, RowBuffers
  <2>2. (Packs => input \subseteq known) /\ (~Packs => normalized \in known)
    OBVIOUS
  <2>3. \A o \in after : o = Attention(m) \/ (o \in known /\ Far(o, Attention(m)))
    <3> HIDE DEF base
    <3> QED BY <1>3, <1>7, <1>9 DEF AttentionOperands
  <2>4. Here(Attention(m)) /\ {} \subseteq known
    BY <1>3
  <2> HIDE DEF known, after
  <2>5. Flows(known, Projected(Mixer, m, n, normalized, input, {}, Attention(m)), after)
    BY <2>1, <2>2, <2>3, <2>4, ProjectedFlows DEF input
  <2> QED BY <2>5 DEF known, after
<1> DEFINE s2 == base \cup AttentionOperands({"qg"})
           s3 == base \cup AttentionOperands({"qg", "k"})
           s4 == base \cup inputs
<1>10. Flows(base, qg, s2) /\ Flows(s2, k, s3) /\ Flows(s3, v, s4)
  <2>1. /\ {"qg", "k", "v"} \subseteq AttentionNames
        /\ {} \cup {"qg"} = {"qg"} /\ {"qg"} \cup {"k"} = {"qg", "k"}
        /\ {"qg", "k"} \cup {"v"} = {"qg", "k", "v"}
    BY DEF AttentionNames
  <2>2. base \cup AttentionOperands({}) = base
    BY DEF AttentionOperands
  <2> HIDE DEF base
  <2>3. Flows(base \cup AttentionOperands({}), qg, base \cup AttentionOperands({} \cup {"qg"}))
    BY <1>9, <2>1
  <2>4. Flows(s2, k, base \cup AttentionOperands({"qg"} \cup {"k"}))
    BY <1>9, <2>1
  <2>5. Flows(s3, v, base \cup AttentionOperands({"qg", "k"} \cup {"v"}))
    BY <1>9, <2>1
  <2> QED BY <2>1, <2>2, <2>3, <2>4, <2>5
<1> DEFINE s5 == {Hidden} \cup inputs
           s6 == {Hidden, kv} \cup outputs
<1>11. Flows(s5, <<prep>>, s6)
  BY AttentionPrepFlows DEF kv
<1>12. Flows(s6, <<attend>>, gave)
  <2> DEFINE reads == outputs \cup {kv}
             writes == IF Packs THEN output ELSE {Attention("y")}
  <2>1. {Hidden} \subseteq s6 /\ reads \subseteq s6
    OBVIOUS
  <2>2. \A w \in writes : Here(w) /\ Far(Hidden, w)
    BY <1>3, <1>5, <1>6
  <2>3. gave = {Hidden} \cup writes
    BY DEF Mixes, output
  <2> HIDE DEF gave, s6, reads, writes
  <2>4. \A o \in gave : o \in writes \/ (o \in s6 /\ \A w \in writes : Far(o, w))
    BY <2>1, <2>2, <2>3
  <2>5. Flows(s6, << Kernel(Mixer, reads, writes) >>, gave)
    BY <2>1, <2>2, <2>4, FlowsLaunch
  <2> QED BY <2>5 DEF reads, writes
<1>13. Flows(gave, out, {Mixed})
  <2>1. Good(Attention("y")) /\ Attention("y").view.buffer \notin {"engine", "fp8"}
    BY <1>3
  <2>2. PICK n \in Widths : n = 5120
    BY ShapesFact
  <2>3. Flows(Mixes(Attention("y"), six),
              Projected(MixerOutput, "out", n, Attention("y"), Fp8Pack(six, "mixer_output"),
                        {Hidden}, Mixed),
              {Mixed})
    BY <2>1, OutputFlows
  <2> QED BY <2>2, <2>3 DEF output
<1>14. Flows(s4, core, gave)
  <2>1. s5 \subseteq s4 /\ gave \subseteq gave
    OBVIOUS
  <2> HIDE DEF prep, attend, s4, s5, s6, gave
  <2>2. Flows(s5, core, gave)
    BY <1>11, <1>12, Flows2
  <2> HIDE DEF core
  <2> QED BY <2>1, <2>2, FlowsWeaker
<1>15. PrefillAttentionMixer = first \o qg \o k \o v \o core \o out
  BY <1>0 DEF PrefillAttentionMixer, normalized, kv, input, output
<1> HIDE DEF first, qg, k, v, core, out, base, s2, s3, s4, gave
<1>16. Flows({Hidden}, first \o qg \o k \o v, s4)
  BY <1>8, <1>10, FlowsThen
<1>17. Flows({Hidden}, first \o qg \o k \o v \o core \o out, {Mixed})
  BY <1>13, <1>14, <1>16, FlowsThen
<1> QED BY <1>15, <1>17

\* PrefillEngine::mlp, packed and unpacked.
LEMMA PrefillMlpFlows ==
  ASSUME Ready
  PROVE  Flows({Mixed}, PrefillMlp, {NextHidden})
<1> DEFINE normalized == EngineAt("normalized", 0, Rows * 10240, "mlp_input")
           swiglu == EngineAt("swiglu", 0, Rows * 34816, "swiglu")
           gate == AccumA("gate")
           up == AccumB("up")
           tileA == WeightTile("gate")
           tileB == WeightTile("up")
           pack == NvFp4Pack
           k1 == Kernel(MlpNorm, {Mixed}, pack)
           k2 == Kernel(MlpSwiglu, pack, {gate, Library})
           k3 == Kernel(MlpSwiglu, pack, {up, Library})
           packed == << k1, k2, k3 >>
           l1 == Kernel(MlpNorm, {Mixed}, {normalized})
           l2 == Kernel(MlpSwiglu, {}, {tileA})
           l3 == Kernel(MlpSwiglu, {tileA, normalized}, {gate, Library})
           l4 == Kernel(MlpSwiglu, {}, {tileB})
           l5 == Kernel(MlpSwiglu, {tileB, normalized}, {up, Library})
           plain == << l1, l2, l3, l4, l5 >>
           combine == << Kernel(MlpSwiglu, {gate, up}, {swiglu}) >>
           down == Unpacked(MlpDown, "down", swiglu, {Mixed}, NextHidden)
           both == {Mixed, gate, up}
           last == {Mixed, swiglu}
<1>1. /\ InEngine(normalized, "normalized") /\ InEngine(swiglu, "swiglu")
      /\ InEngine(gate, "accum_a") /\ InEngine(up, "accum_b")
      /\ InEngine(tileA, "weight_tile") /\ InEngine(tileB, "weight_tile")
      /\ InEngine(Library, "library")
      /\ \A o \in pack : InEngine(o, "weight_tile")
  BY EngineOperands
<1> HIDE DEF normalized, swiglu, gate, up, tileA, tileB, pack
<1>2. ASSUME NEW m \in EngineNames, NEW o, InEngine(o, m)
      PROVE  /\ Here(o) /\ Good(o) /\ o.view.buffer = "engine" /\ Far(Mixed, o)
             /\ \A n \in EngineNames : \A p : InEngine(p, n) /\ m # n => Far(o, p)
  <2>1. Good(o) /\ o.view.buffer = "engine"
    BY <1>2, EngineApart
  <2>2. Far(Mixed, o) /\ Here(o)
    BY <2>1, RowsClear DEF RowBuffers, Here
  <2>3. \A n \in EngineNames : \A p : InEngine(p, n) /\ m # n => Far(o, p)
    BY <1>2, EngineApart
  <2> QED BY <2>1, <2>2, <2>3
<1>3. /\ "normalized" \in EngineNames /\ "swiglu" \in EngineNames /\ "accum_a" \in EngineNames
      /\ "accum_b" \in EngineNames /\ "weight_tile" \in EngineNames /\ "library" \in EngineNames
  BY DEF EngineNames
<1>4. /\ Here(normalized) /\ Here(swiglu) /\ Here(gate) /\ Here(up) /\ Here(tileA) /\ Here(tileB)
      /\ Here(Library) /\ \A o \in pack : Here(o) /\ Far(Mixed, o)
      /\ Far(Mixed, normalized) /\ Far(Mixed, swiglu) /\ Far(Mixed, gate) /\ Far(Mixed, up)
      /\ Far(Mixed, tileA) /\ Far(Mixed, tileB) /\ Far(Mixed, Library)
  BY <1>1, <1>2, <1>3
<1>5. /\ Far(normalized, tileA) /\ Far(normalized, tileB) /\ Far(normalized, gate)
      /\ Far(normalized, Library) /\ Far(gate, tileB) /\ Far(gate, up) /\ Far(gate, Library)
      /\ \A o \in pack : Far(o, gate) /\ Far(o, Library)
  BY <1>1, <1>2, <1>3
<1>6. Flows({Mixed}, packed, both)
  <2> DEFINE s1 == {Mixed}
             s2 == {Mixed} \cup pack
             s3 == {Mixed, gate} \cup pack
             w2 == {gate, Library}
             w3 == {up, Library}
  <2>1. Flows(s1, <<k1>>, s2)
    BY <1>4, FlowsLaunch
  <2>2. Flows(s2, << Kernel(MlpSwiglu, pack, w2) >>, s3)
    <3>1. /\ pack \subseteq s2 /\ \A w \in w2 : Here(w)
          /\ \A o \in s3 : o \in w2 \/ (o \in s2 /\ \A w \in w2 : Far(o, w))
      BY <1>4, <1>5
    <3> HIDE DEF s2, s3, w2
    <3> QED BY <3>1, FlowsLaunch
  <2>3. Flows(s3, << Kernel(MlpSwiglu, pack, w3) >>, both)
    <3>1. /\ pack \subseteq s3 /\ \A w \in w3 : Here(w)
          /\ \A o \in both : o \in w3 \/ (o \in s3 /\ \A w \in w3 : Far(o, w))
      BY <1>4, <1>5
    <3> HIDE DEF s3, both, w3
    <3> QED BY <3>1, FlowsLaunch
  <2>4. Flows(s2, <<k2>>, s3) /\ Flows(s3, <<k3>>, both)
    BY <2>2, <2>3
  <2> HIDE DEF k1, k2, k3, s2, s3, both
  <2> QED BY <2>1, <2>4, Flows3
<1>7. ASSUME NEW A, NEW B, NEW tile, NEW sum, tile \in A, normalized \in A,
             sum \in {gate, up},
             \A o \in B : o = sum \/ (o \in A /\ Far(o, sum) /\ Far(o, Library))
      PROVE  Flows(A, << Kernel(MlpSwiglu, {tile, normalized}, {sum, Library}) >>, B)
  <2> DEFINE reads == {tile, normalized}
             writes == {sum, Library}
  <2>1. /\ reads \subseteq A /\ \A w \in writes : Here(w)
        /\ \A o \in B : o \in writes \/ (o \in A /\ \A w \in writes : Far(o, w))
    BY <1>4, <1>7
  <2> HIDE DEF reads, writes
  <2>2. Flows(A, << Kernel(MlpSwiglu, reads, writes) >>, B)
    BY <2>1, FlowsLaunch
  <2> QED BY <2>2 DEF reads, writes
<1>8. Flows({Mixed}, plain, both)
  <2> DEFINE s2 == {Mixed, normalized}
             s3 == {Mixed, normalized, tileA}
             s4 == {Mixed, normalized, gate}
             s5 == {Mixed, normalized, gate, tileB}
  <2>1. Flows({Mixed}, <<l1>>, s2)
    BY <1>4, FlowsLaunch
  <2>2. Flows(s2, <<l2>>, s3)
    BY <1>4, <1>5, FlowsLaunch
  <2>3. Flows(s3, <<l3>>, s4)
    <3>1. /\ tileA \in s3 /\ normalized \in s3
          /\ \A o \in s4 : o = gate \/ (o \in s3 /\ Far(o, gate) /\ Far(o, Library))
      BY <1>4, <1>5
    <3> HIDE DEF s3, s4
    <3> QED BY <1>7, <3>1
  <2>4. Flows(s4, <<l4>>, s5)
    BY <1>4, <1>5, FlowsLaunch
  <2>5. Flows(s5, <<l5>>, both)
    <3>1. /\ tileB \in s5 /\ normalized \in s5
          /\ \A o \in both : o = up \/ (o \in s5 /\ Far(o, up) /\ Far(o, Library))
      BY <1>4, <1>5
    <3> HIDE DEF s5, both
    <3> QED BY <1>7, <3>1
  <2> HIDE DEF l1, l2, l3, l4, l5, s2, s3, s4, s5, both
  <2> QED BY <2>1, <2>2, <2>3, <2>4, <2>5, Flows5
<1>9. Flows(both, combine, last)
  <2> DEFINE reads == {gate, up}
  <2>1. /\ reads \subseteq both
        /\ \A o \in last : o \in {swiglu} \/ (o \in both /\ \A w \in {swiglu} : Far(o, w))
    BY <1>4
  <2> HIDE DEF reads, both, last
  <2>2. Flows(both, << Kernel(MlpSwiglu, reads, {swiglu}) >>, last)
    BY <1>4, <2>1, FlowsLaunch
  <2> QED BY <2>2 DEF reads
<1>10. Flows(last, down, {NextHidden})
  <2> DEFINE add == {Mixed}
             after == {NextHidden}
  <2>1. \A o \in last : Good(o) /\ InputOf(o)
    <3>1. Good(swiglu) /\ InputOf(swiglu)
      BY <1>1, <1>2, <1>3 DEF InputOf
    <3>2. Good(Mixed) /\ InputOf(Mixed)
      BY RowsClear DEF RowBuffers, InputOf
    <3> QED BY <3>1, <3>2
  <2>2. /\ swiglu \in last /\ add \subseteq last /\ Here(NextHidden)
        /\ \A o \in after : o = NextHidden \/ (o \in last /\ Far(o, NextHidden))
    BY RowsClear
  <2> HIDE DEF last, add, after
  <2>3. Flows(last, Unpacked(MlpDown, "down", swiglu, add, NextHidden), after)
    BY <2>1, <2>2, UnpackedFlows
  <2> QED BY <2>3 DEF add, after
<1>11. PrefillMlp = (IF unit.mlp = "nvfp4" THEN packed ELSE plain) \o combine \o down
  BY DEF PrefillMlp, normalized, swiglu, gate, up, tileA, tileB, pack
<1> HIDE DEF packed, plain, combine, down, both, last
<1>12. Flows({Mixed}, (IF unit.mlp = "nvfp4" THEN packed ELSE plain), both)
  BY <1>6, <1>8
<1>13. Flows({Mixed}, (IF unit.mlp = "nvfp4" THEN packed ELSE plain) \o combine \o down,
             {NextHidden})
  BY <1>9, <1>10, <1>12, FlowsThen
<1> QED BY <1>11, <1>13

\* The kernels of a layer take what it enters with to what it leaves.
LEMMA ScheduleFlows == ASSUME Ready PROVE Flows(Enters, Schedule, Leaves)
<1>1. CASE layer = Layers
  <2>1. Schedule = Readout /\ Enters = {Hidden} /\ Leaves = {}
    BY <1>1 DEF Schedule, Enters, Leaves
  <2> QED BY <2>1, ReadoutFlows
<1>2. CASE layer # Layers
  <2> DEFINE embedding == IF layer = 0 THEN << Kernel(0, {}, {Hidden}) >> ELSE <<>>
             mixer == CASE unit.kind = "decode" /\ ~Attends(layer) -> DecodeGdn
                        [] unit.kind = "decode" /\ Attends(layer) -> DecodeAttention
                        [] unit.kind = "prefill" /\ ~Attends(layer) -> PrefillGdnMixer
                        [] unit.kind = "prefill" /\ Attends(layer) -> PrefillAttentionMixer
             mlp == CASE unit.mlp = "q8" -> Q8Mlp
                      [] unit.mlp # "q8" /\ unit.kind = "decode" -> DecodeMlp
                      [] unit.mlp # "q8" /\ unit.kind = "prefill" -> PrefillMlp
             ready == {Hidden} \cup Olds(layer)
             mixed == {Mixed}
  <2>1. unit.kind \in {"decode", "prefill"}
    BY UnitFact
  <2>2. Flows(Enters, embedding, ready)
    <3>1. CASE layer = 0
      <4>1. Enters = Olds(layer) /\ embedding = << Kernel(0, {}, {Hidden}) >>
        BY <1>2, <3>1 DEF Enters
      <4> QED BY <1>2, <4>1, EmbeddingFlows
    <3>2. CASE layer # 0
      <4>1. Enters = ready /\ embedding = <<>>
        BY <1>2, <3>2 DEF Enters
      <4> HIDE DEF ready, embedding
      <4> QED BY <4>1, FlowsNone
    <3> QED BY <3>1, <3>2
  <2>3. Flows(ready, mixer, mixed)
    <3>1. {Hidden} \subseteq ready /\ mixed \subseteq mixed
      OBVIOUS
    <3>2. CASE unit.kind = "decode" /\ Attends(layer)
      <4>1. mixer = DecodeAttention
        BY <3>2
      <4>2. Flows({Hidden}, mixer, mixed)
        BY <1>2, <3>2, <4>1, DecodeAttentionFlows
      <4> HIDE DEF ready, mixer, mixed
      <4> QED BY <3>1, <4>2, FlowsWeaker
    <3>3. CASE unit.kind = "decode" /\ ~Attends(layer)
      <4>1. mixer = DecodeGdn
        BY <3>3
      <4> QED BY <1>2, <3>3, <4>1, DecodeGdnFlows
    <3>4. CASE unit.kind = "prefill" /\ Attends(layer)
      <4>1. mixer = PrefillAttentionMixer
        BY <3>4
      <4>2. Flows({Hidden}, mixer, mixed)
        BY <1>2, <3>4, <4>1, PrefillAttentionFlows
      <4> HIDE DEF ready, mixer, mixed
      <4> QED BY <3>1, <4>2, FlowsWeaker
    <3>5. CASE unit.kind = "prefill" /\ ~Attends(layer)
      <4>1. mixer = PrefillGdnMixer
        BY <3>5
      <4> QED BY <1>2, <3>5, <4>1, PrefillGdnFlows
    <3> QED BY <2>1, <3>2, <3>3, <3>4, <3>5
  <2>4. Flows(mixed, mlp, Leaves)
    <3>1. Leaves = {NextHidden}
      BY <1>2 DEF Leaves
    <3>2. CASE unit.mlp = "q8"
      <4>1. mlp = Q8Mlp
        BY <3>2
      <4> QED BY <3>1, <4>1, Q8MlpFlows
    <3>3. CASE unit.mlp # "q8" /\ unit.kind = "decode"
      <4>1. mlp = DecodeMlp
        BY <3>3
      <4> QED BY <3>1, <4>1, DecodeMlpFlows
    <3>4. CASE unit.mlp # "q8" /\ unit.kind = "prefill"
      <4>1. mlp = PrefillMlp
        BY <3>4
      <4> QED BY <3>1, <4>1, PrefillMlpFlows
    <3> QED BY <2>1, <3>2, <3>3, <3>4
  <2>5. Schedule = embedding \o mixer \o mlp
    BY <1>2 DEF Schedule
  <2> HIDE DEF embedding, mixer, mlp, ready, mixed
  <2>6. Flows(Enters, embedding \o mixer, mixed)
    BY <2>2, <2>3, FlowsThen
  <2> QED BY <2>4, <2>5, <2>6, FlowsThen
<1> QED BY <1>1, <1>2

-----------------------------------------------------------------------------
\* The inductive invariant.
LEMMA CurrentInit == FlowInit => CurrentInv
  BY FlowInitInv DEF FlowInit, CurrentInv

LEMMA CurrentBegin == CurrentInv /\ BeginUnit => CurrentInv'
<1> SUFFICES ASSUME CurrentInv, BeginUnit PROVE CurrentInv'
  OBVIOUS
<1>1. FlowInv' /\ FlowInv
  BY BeginInv DEF CurrentInv
<1>2. layer' = 0 /\ layer = 0 /\ at' = at /\ memory' = Kept /\ Layers \in Nat \ {0}
  BY <1>1, FlowAssumption DEF BeginUnit, FlowInv
<1>3. ASSUME NEW l \in 0 .. Layers - 1
      PROVE  \A o \in Olds(l) : Held(o)'
  <2> SUFFICES ASSUME NEW buffer \in Rings,
                      NEW o, o = [view |-> View(buffer, 0, l, 1), value |-> <<"old", l>>]
               PROVE  Held(o)'
    BY DEF Olds
  <2>1. [view |-> View(buffer, 0, l, 1), value |-> <<"old", l>>, stage |-> 0] \in Kept
    BY DEF Kept, Rings
  <2> QED BY <1>2, <2>1 DEF Held
<1>4. \A o \in Enters' : Held(o)'
  <2>1. Enters' = Olds(layer')
    <3>1. layer' # Layers
      BY <1>2
    <3> QED BY <1>2, <3>1 DEF Enters
  <2>2. 0 \in 0 .. Layers - 1
    BY <1>2
  <2> QED BY <1>2, <1>3, <2>1, <2>2
<1>5. Entering'
  BY <1>2, <1>4 DEF Entering, BeginUnit, CurrentInv
<1>6. \A l \in layer' + 1 .. Layers - 1 : \A o \in Olds(l) : Held(o)'
  <2>1. layer' + 1 .. Layers - 1 \subseteq 0 .. Layers - 1
    BY <1>2
  <2> QED BY <1>3, <2>1
<1>7. flow' = "running" /\ (unit.kind = "decode" => next = residual)'
  BY DEF BeginUnit
<1> QED BY <1>1, <1>5, <1>6, <1>7 DEF CurrentInv

LEMMA AtWork ==
  ASSUME CurrentInv, flow = "running"
  PROVE  /\ Ready /\ at \in Nat \ {0}
         /\ Len(Schedule) \in Nat /\ at <= Len(Schedule) + 1 /\ Underway
<1>1. Ready /\ at \in Nat \ {0}
  BY DEF CurrentInv, FlowInv
<1>2. Flows(Enters, Schedule, Leaves)
  BY <1>1, ScheduleFlows
<1>3. Len(Schedule) \in Nat
  BY <1>2 DEF Flows, Kernels
<1>4. CASE Entering
  <2>1. PICK K : /\ K[1] \subseteq Enters /\ Leaves \subseteq K[Len(Schedule) + 1]
                 /\ Trace(K, Schedule)
    BY <1>2 DEF Flows
  <2>2. \A o \in K[at] : Held(o)
    BY <1>4, <2>1 DEF Entering
  <2>3. at <= Len(Schedule) + 1
    BY <1>3, <1>4 DEF Entering
  <2> QED BY <1>1, <1>3, <2>1, <2>2, <2>3 DEF Underway
<1>5. CASE ~Entering
  BY <1>1, <1>3, <1>5 DEF CurrentInv
<1> QED BY <1>4, <1>5

\* A launch leaves what it does not write over, and what it writes.
LEMMA HeldAfter ==
  ASSUME Launch, NEW known, \A o \in known : Held(o)
  PROVE  \A o \in After(known, Schedule[at]) : Held(o)'
<1> DEFINE kernel == Schedule[at]
<1>1. memory' = {kept \in memory : \A w \in kernel.writes : ~Overlap(kept.view, w.view)}
                   \cup {[view |-> w.view, value |-> w.value, stage |-> kernel.stage] :
                            w \in kernel.writes}
  BY DEF Launch
<1> HIDE DEF kernel
<1>2. ASSUME NEW o \in known, \A w \in kernel.writes : Far(o, w)
      PROVE  Held(o)'
  <2>1. PICK kept \in memory : kept.view = o.view /\ kept.value = o.value
    BY DEF Held
  <2>2. kept \in memory'
    BY <1>1, <1>2, <2>1 DEF Far
  <2> QED BY <2>1, <2>2 DEF Held
<1>3. ASSUME NEW o \in kernel.writes
      PROVE  Held(o)'
  <2>1. [view |-> o.view, value |-> o.value, stage |-> kernel.stage] \in memory'
    BY <1>1
  <2> QED BY <2>1 DEF Held
<1> QED BY <1>2, <1>3 DEF After, kernel

LEMMA CurrentLaunch == CurrentInv /\ Launch => CurrentInv'
<1> SUFFICES ASSUME CurrentInv, Launch PROVE CurrentInv'
  OBVIOUS
<1>1. FlowInv' /\ FlowInv /\ flow = "running" /\ flow' = "running" /\ at' = at + 1
      /\ layer' = layer /\ unit' = unit /\ next' = next /\ residual' = residual /\ mid' = mid
      /\ at <= Len(Schedule)
  BY LaunchInv DEF Launch, CurrentInv
<1>2. Schedule' = Schedule /\ Leaves' = Leaves
  <2>1. UNCHANGED <<planVars, unit, layer, residual, mid, next>>
    BY DEF Launch
  <2>2. NextHidden' = NextHidden
    BY <1>1 DEF NextHidden, RowsOf, Holding, Rows
  <2> QED BY <1>1, <2>1, <2>2, SameSchedule DEF Leaves
<1>3. Ready /\ at \in Nat \ {0} /\ Len(Schedule) \in Nat /\ Underway
  BY <1>1, AtWork
<1>4. PICK K : /\ Trace(K, Schedule) /\ Leaves \subseteq K[Len(Schedule) + 1]
               /\ \A o \in K[at] : Held(o)
  BY <1>3 DEF Underway
<1>5. at \in 1 .. Len(Schedule)
  BY <1>1, <1>3
<1>6. K[at + 1] \subseteq After(K[at], Schedule[at])
  BY <1>4, <1>5 DEF Trace
<1>7. \A o \in K[at'] : Held(o)'
  BY <1>1, <1>4, <1>6, HeldAfter
<1>8. Underway'
  BY <1>2, <1>4, <1>7 DEF Underway
<1>9. ASSUME NEW l \in layer + 1 .. Layers - 1
      PROVE  \A o \in Olds(l) : Held(o)'
  <2>1. Local(Schedule[at])
    <3>1. Kernels(Schedule)
      BY <1>3, ScheduleFlows DEF Flows
    <3>2. PICK T : Schedule \in Seq(T) /\ \A kernel \in T : Local(kernel)
      BY <3>1 DEF Kernels
    <3>3. Schedule[at] \in T
      BY <1>5, <3>2
    <3> QED BY <3>2, <3>3
  <2>2. \A o \in Olds(l) : Held(o)
    BY <1>1 DEF CurrentInv
  <2>3. ASSUME NEW o \in Olds(l), NEW w \in Schedule[at].writes
        PROVE  Far(o, w)
    <3>1. PICK buffer \in Rings : o.view = View(buffer, 0, l, 1)
      BY DEF Olds
    <3>2. o.view.buffer \in Rings /\ o.view.first = l /\ o.view.last = l + 1
      BY <3>1 DEF View
    <3>3. w.view.buffer \in Rings => w.view.first = layer /\ w.view.last = layer + 1
      BY <2>1 DEF Local, Rings
    <3>4. layer \in Nat /\ l \in Nat /\ l > layer
      BY <1>3, FlowAssumption DEF Ready
    <3> QED BY <3>2, <3>3, <3>4 DEF Far, Overlap, RangesOverlap
  <2>4. Olds(l) \subseteq After(Olds(l), Schedule[at])
    BY <2>3 DEF After
  <2> QED BY <2>2, <2>4, HeldAfter
<1>10. at' <= Len(Schedule') + 1
  BY <1>1, <1>2, <1>3
<1> QED BY <1>1, <1>8, <1>9, <1>10 DEF CurrentInv

LEMMA CurrentFinishLayer == CurrentInv /\ FinishLayer => CurrentInv'
<1> SUFFICES ASSUME CurrentInv, FinishLayer PROVE CurrentInv'
  OBVIOUS
<1>1. FlowInv' /\ FlowInv /\ flow = "running" /\ flow' = "running" /\ at' = 1
      /\ layer' = layer + 1 /\ unit' = unit /\ memory' = memory /\ layer < Layers
      /\ at > Len(Schedule)
  BY FinishLayerInv DEF FinishLayer, CurrentInv
<1>2. /\ Ready /\ at \in Nat \ {0} /\ Len(Schedule) \in Nat /\ at <= Len(Schedule) + 1
      /\ Underway
  BY <1>1, AtWork
<1>3. PICK K : /\ Leaves \subseteq K[Len(Schedule) + 1]
               /\ \A o \in K[at] : Held(o)
  BY <1>2 DEF Underway
<1>4. at = Len(Schedule) + 1
  BY <1>1, <1>2
<1>5. layer \in Nat /\ Layers \in Nat
  BY <1>2, FlowAssumption DEF Ready
<1>6. Held(NextHidden)
  <2>1. NextHidden \in Leaves
    BY <1>1, <1>5 DEF Leaves
  <2> QED BY <1>3, <1>4, <2>1
<1>7. residual' = next /\ (unit.kind = "decode" => next = residual)'
  <2>1. unit.kind = "decode" => next = residual
    BY <1>1 DEF CurrentInv
  <2>2. unit.kind \in {"decode", "prefill"}
    BY <1>2, UnitFact
  <2> QED BY <1>1, <2>1, <2>2 DEF FinishLayer, Rotate
<1>8. Hidden' = NextHidden
  BY <1>1, <1>7 DEF Hidden, NextHidden, RowsOf, Holding, Rows
<1>9. \A o : Held(o)' <=> Held(o)
  BY <1>1 DEF Held
<1>10. \A l \in layer + 1 .. Layers - 1 : \A o \in Olds(l) : Held(o)'
  BY <1>1, <1>9 DEF CurrentInv
<1>11. \A o \in Enters' : Held(o)'
  <2>1. CASE layer + 1 = Layers
    <3>1. Enters' = {NextHidden}
      BY <1>1, <1>8, <2>1 DEF Enters
    <3> QED BY <1>6, <1>9, <3>1
  <2>2. CASE layer + 1 # Layers
    <3>1. layer + 1 \in layer + 1 .. Layers - 1
      BY <1>1, <1>5, <2>2
    <3>2. Enters' = {NextHidden} \cup Olds(layer + 1)
      BY <1>1, <1>5, <1>8, <2>2 DEF Enters
    <3>3. \A o \in Olds(layer + 1) : Held(o)'
      BY <1>10, <3>1
    <3> QED BY <1>6, <1>9, <3>2, <3>3
  <2> QED BY <2>1, <2>2
<1>12. Entering'
  BY <1>1, <1>11 DEF Entering
<1>13. \A l \in layer' + 1 .. Layers - 1 : \A o \in Olds(l) : Held(o)'
  <2>1. layer' + 1 .. Layers - 1 \subseteq layer + 1 .. Layers - 1
    BY <1>1, <1>5
  <2> QED BY <1>10, <2>1
<1> QED BY <1>1, <1>7, <1>12, <1>13 DEF CurrentInv

LEMMA CurrentStep == CurrentInv /\ [FlowNext]_<<planVars, flowVars>> => CurrentInv'
<1> SUFFICES ASSUME CurrentInv, [FlowNext]_<<planVars, flowVars>> PROVE CurrentInv'
  OBVIOUS
<1>1. FlowInv'
  BY FlowStepInv DEF CurrentInv
<1>2. CASE PlanNext /\ UNCHANGED flowVars
  <2>1. flow = "idle" /\ flow' = flow /\ at' = at
    BY <1>2, PlanStepIdle DEF CurrentInv, FlowInv, Ready, flowVars
  <2> QED BY <1>1, <2>1 DEF CurrentInv
<1>3. CASE BeginUnit
  BY <1>3, CurrentBegin
<1>4. CASE Launch
  BY <1>4, CurrentLaunch
<1>5. CASE FinishLayer
  BY <1>5, CurrentFinishLayer
<1>6. CASE FinishUnit
  BY <1>1, <1>6 DEF FinishUnit, CurrentInv
<1>7. CASE UNCHANGED <<planVars, flowVars>>
  <2>1. UNCHANGED <<planVars, unit, layer, residual, mid, next>> /\ UNCHANGED flowVars
    BY <1>7 DEF flowVars
  <2>2. /\ flow' = flow /\ unit' = unit /\ layer' = layer /\ at' = at /\ next' = next
        /\ residual' = residual /\ memory' = memory
    BY <2>1 DEF flowVars
  <2>3. \A o : Held(o)' <=> Held(o)
    BY <2>2 DEF Held
  <2>4. Hidden' = Hidden /\ NextHidden' = NextHidden
    BY <2>2 DEF Hidden, NextHidden, RowsOf, Holding, Rows
  <2>5. Enters' = Enters /\ Leaves' = Leaves
    BY <2>2, <2>4 DEF Enters, Leaves
  <2>6. Schedule' = Schedule
    BY <2>1, SameSchedule
  <2>7. (Entering' <=> Entering) /\ (Underway' <=> Underway)
    BY <2>2, <2>3, <2>5, <2>6 DEF Entering, Underway
  <2> QED BY <1>1, <2>2, <2>3, <2>6, <2>7 DEF CurrentInv
<1> QED BY <1>2, <1>3, <1>4, <1>5, <1>6, <1>7 DEF FlowNext

LEMMA CurrentOperands == CurrentInv => OperandsAreCurrent
<1> SUFFICES ASSUME CurrentInv, Launching, NEW read \in Schedule[at].reads
             PROVE  \E kept \in memory : Current(read, kept)
  BY DEF OperandsAreCurrent
<1>1. /\ Ready /\ at \in Nat \ {0} /\ Len(Schedule) \in Nat /\ Underway
      /\ at <= Len(Schedule)
  BY AtWork DEF Launching
<1>2. PICK K : Trace(K, Schedule) /\ \A o \in K[at] : Held(o)
  BY <1>1 DEF Underway
<1>3. Supplies(K[at], Schedule[at])
  <2>1. at \in 1 .. Len(Schedule)
    BY <1>1
  <2> QED BY <1>2, <2>1 DEF Trace
<1>4. CASE read \in K[at]
  <2>1. PICK kept \in memory : kept.view = read.view /\ kept.value = read.value
    BY <1>2, <1>4 DEF Held
  <2>2. read.view.first \in Nat /\ read.view.last \in Nat
    BY <1>1, LaunchSound DEF Sound, Readable, Good
  <2>3. Contains(kept.view, read.view)
    BY <2>1, <2>2 DEF Contains
  <2> QED BY <2>1, <2>3 DEF Current
<1>5. CASE \E o \in K[at] : o.value = read.value /\ Contains(o.view, read.view)
  <2>1. PICK o \in K[at] : o.value = read.value /\ Contains(o.view, read.view)
    BY <1>5
  <2>2. PICK kept \in memory : kept.view = o.view /\ kept.value = o.value
    BY <1>2, <2>1 DEF Held
  <2> QED BY <2>1, <2>2 DEF Current
<1> QED BY <1>3, <1>4, <1>5 DEF Supplies

\* Whatever the unit, the rows, the formats and the layer, a kernel finds each of
\* its operands as its producer wrote it: nothing launched in between lies over it
\* (the carving of scratch and of the prefill workspaces, and the rotation of the
\* residual rows in prefill_tokens).
THEOREM OperandsCurrent == FlowSpec => []OperandsAreCurrent
<1>1. FlowSpec => []CurrentInv
  BY CurrentInit, CurrentStep, PTL DEF FlowSpec
<1> QED BY <1>1, CurrentOperands, PTL
=============================================================================
