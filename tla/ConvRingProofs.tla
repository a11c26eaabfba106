---------------------------- MODULE ConvRingProofs ----------------------------
(* Machine-checked proofs about ConvRing, for every set of channel values and *)
(* every bound on the chunk: the ring has its type, it implements the sliding *)
(* window, and it does not depend on where a prompt is cut.                   *)
EXTENDS ConvRing, SequenceTheorems, TLAPS

-----------------------------------------------------------------------------
(* Chunks.                                                                   *)

LEMMA ChunkFact ==
  ASSUME NEW chunk \in Chunks
  PROVE  /\ chunk \in Seq(Input) /\ Len(chunk) \in Nat /\ Len(chunk) \in 1 .. MaxChunk
         /\ \A i \in 1 .. Len(chunk) : chunk[i] \in Input
<1>1. PICK n \in 1 .. MaxChunk : chunk \in [1 .. n -> Input]
  BY DEF Chunks
<1>2. n \in Nat
  BY <1>1, RingAssumption
<1>3. chunk \in Seq(Input)
  BY <1>1, <1>2, SeqDef
<1>4. Len(chunk) \in Nat /\ DOMAIN chunk = 1 .. Len(chunk) /\ DOMAIN chunk = 1 .. n
  BY <1>1, <1>3, LenProperties
<1>5. Len(chunk) = n
  <2>1. \A i \in Int : i \in 1 .. Len(chunk) <=> i \in 1 .. n
    BY <1>4
  <2>2. n \in 1 .. Len(chunk)
    BY <1>1, <1>2, <2>1
  <2>3. Len(chunk) \in 1 .. n \/ Len(chunk) = 0
    BY <1>4, <2>1
  <2>4. Len(chunk) \in Nat /\ n <= Len(chunk) /\ (Len(chunk) <= n \/ Len(chunk) = 0) /\ 1 <= n
    BY <1>1, <1>2, <1>4, <2>2, <2>3, RingAssumption
  <2> QED BY <1>2, <2>4
<1> QED BY <1>1, <1>3, <1>4, <1>5

\* One decoded token is a chunk of one.
LEMMA SingletonChunk ==
  ASSUME NEW x \in Input
  PROVE  <<x>> \in Chunks /\ Len(<<x>>) = 1 /\ <<x>>[1] = x
<1>1. <<x>> \in Seq(Input) /\ Len(<<x>>) = 1 /\ <<x>>[1] = x
  OBVIOUS
<1>2. <<x>> \in [1 .. 1 -> Input]
  BY <1>1, LenProperties
<1>3. 1 \in 1 .. MaxChunk
  BY RingAssumption
<1> QED BY <1>1, <1>2, <1>3 DEF Chunks

-----------------------------------------------------------------------------
(* What a commit leaves in the ring.                                         *)

LEMMA KeptType ==
  ASSUME NEW hist \in [Slot -> Input], NEW at \in Slot, NEW chunk \in Chunks,
         NEW j \in Slot
  PROVE  Kept(hist, at, chunk, j) \in Input
<1>1. /\ Len(chunk) \in Nat /\ Len(chunk) >= 1
      /\ \A i \in 1 .. Len(chunk) : chunk[i] \in Input
  BY ChunkFact
<1>2. CASE Len(chunk) - 3 + j < 0
  <2>1. (at + (Len(chunk) - 3 + j) + 3) % 3 \in Slot
    BY <1>1 DEF Slot
  <2> QED BY <1>2, <2>1 DEF Kept
<1>3. CASE ~(Len(chunk) - 3 + j < 0)
  <2>1. Len(chunk) - 3 + j + 1 \in 1 .. Len(chunk)
    BY <1>1, <1>3 DEF Slot
  <2> QED BY <1>1, <1>3, <2>1 DEF Kept
<1> QED BY <1>2, <1>3

LEMMA CommittedType ==
  ASSUME NEW hist \in [Slot -> Input], NEW at \in Slot, NEW chunk \in Chunks
  PROVE  Committed(hist, at, chunk) \in [Slot -> Input]
<1>1. (at + Len(chunk)) % 3 \in Slot
  BY ChunkFact DEF Slot
<1>2. ASSUME NEW s \in Slot
      PROVE  Kept(hist, at, chunk, (s - ((at + Len(chunk)) % 3) + 3) % 3) \in Input
  <2>1. (s - ((at + Len(chunk)) % 3) + 3) % 3 \in Slot
    BY <1>1 DEF Slot
  <2> QED BY <2>1, KeptType
<1> QED BY <1>2 DEF Committed

\* Read from the new cursor, the ring holds the kept inputs in order.
LEMMA CommittedFromCursor ==
  ASSUME NEW hist, NEW at \in Slot, NEW chunk \in Chunks, NEW j \in Slot
  PROVE  Committed(hist, at, chunk)[(((at + Len(chunk)) % 3) + j) % 3] =
             Kept(hist, at, chunk, j)
<1> DEFINE next == (at + Len(chunk)) % 3
           s == (next + j) % 3
<1>1. next \in 0 .. 2
  BY ChunkFact DEF Slot
<1>2. s \in Slot /\ (s - next + 3) % 3 = j
  <2> HIDE DEF next
  <2> QED BY <1>1 DEF Slot
<1> QED BY <1>2 DEF Committed

-----------------------------------------------------------------------------
(* Types.                                                                    *)

LEMMA TappedType ==
  ASSUME history \in [Slot -> Input], cursor \in Slot, NEW chunk \in Chunks,
         NEW i \in 1 .. Len(chunk), NEW j \in 1 .. 4
  PROVE  Tapped(chunk, i - 1, j - 1) \in Input
<1>1. /\ Len(chunk) \in Nat /\ i \in Nat
      /\ \A k \in 1 .. Len(chunk) : chunk[k] \in Input
  BY ChunkFact
<1>2. CASE (i - 1) + (j - 1) - 3 < 0
  <2>1. (cursor + (i - 1) + (j - 1)) % 3 \in Slot
    BY <1>1 DEF Slot
  <2> QED BY <1>2, <2>1 DEF Tapped
<1>3. CASE ~((i - 1) + (j - 1) - 3 < 0)
  <2>1. (i - 1) + (j - 1) - 3 + 1 \in 1 .. Len(chunk)
    BY <1>1, <1>3
  <2> QED BY <1>1, <1>3, <2>1 DEF Tapped
<1> QED BY <1>2, <1>3

LEMMA TypeStep ==
  ASSUME TypeOK, [Next]_vars
  PROVE  TypeOK'
<1> USE DEF TypeOK
<1>1. ASSUME NEW x \in Input, DecodeStep(x) PROVE TypeOK'
  <2>1. history' \in [Slot -> Input] /\ cursor' \in Slot
    BY <1>1 DEF DecodeStep, Slot
  <2>2. [j \in 1 .. 4 |-> IF j < 4 THEN history[(cursor + j - 1) % 3] ELSE x]
            \in [1 .. 4 -> Input]
    <3>1. ASSUME NEW j \in 1 .. 4 PROVE (cursor + j - 1) % 3 \in Slot
      BY DEF Slot
    <3> QED BY <3>1
  <2>3. emitted' \in Seq([1 .. 4 -> Input])
    BY <1>1, <2>2 DEF DecodeStep
  <2> QED BY <2>1, <2>3
<1>2. ASSUME NEW chunk \in Chunks, PrefillStep(chunk) PROVE TypeOK'
  <2>1. history' \in [Slot -> Input]
    BY <1>2, CommittedType DEF PrefillStep
  <2>2. cursor' \in Slot
    BY <1>2, ChunkFact DEF PrefillStep, Slot
  <2>3. emitted' \in [1 .. Len(chunk) -> [1 .. 4 -> Input]]
    BY <1>2, TappedType DEF PrefillStep
  <2>4. emitted' \in Seq([1 .. 4 -> Input])
    BY <2>3, ChunkFact, SeqDef
  <2> QED BY <2>1, <2>2, <2>4
<1>3. CASE UNCHANGED vars
  BY <1>3 DEF vars
<1> QED BY <1>1, <1>2, <1>3 DEF Next

\* Every variable keeps its type: the ring holds channel values and the cursor
\* stays within it, for chunks of any length.
THEOREM TypeCorrect == Spec => []TypeOK
<1>1. Init => TypeOK
  BY RingAssumption, EmptySeq DEF Init, TypeOK, Slot
<1> QED BY <1>1, TypeStep, PTL DEF Spec

-----------------------------------------------------------------------------
(* The refinement of SlidingWindow.                                          *)

LEMMA DecodeIsTake ==
  ASSUME TypeOK, NEW x \in Input, DecodeStep(x)
  PROVE  Sliding!Take(<<x>>)
<1>1. Window' = Sliding!After(Window, <<x>>)
  <2>1. \A j \in 1 .. 3 : Window'[j] = IF j < 3 THEN Window[j + 1] ELSE x
    <3>1. ASSUME NEW j \in 1 .. 3
          PROVE  Window'[j] = IF j < 3 THEN Window[j + 1] ELSE x
      <4>1. Window'[j] = history'[(cursor' + j - 1) % 3]
        BY DEF Window
      <4>2. (cursor' + j - 1) % 3 = (cursor + j) % 3 /\ (cursor + j) % 3 \in Slot
        BY DEF DecodeStep, TypeOK, Slot
      <4>3. (cursor + j) % 3 = cursor <=> j = 3
        BY DEF TypeOK, Slot
      <4>4. j < 3 => Window[j + 1] = history[(cursor + (j + 1) - 1) % 3]
        BY DEF Window
      <4>5. (cursor + (j + 1) - 1) % 3 = (cursor + j) % 3
        BY DEF TypeOK, Slot
      <4> QED BY <4>1, <4>2, <4>3, <4>4, <4>5 DEF DecodeStep, TypeOK
    <3> QED BY <3>1
  <2> QED BY <2>1, SingletonChunk DEF Sliding!After, Window
<1>2. emitted' = [i \in 1 .. Len(<<x>>) |-> Sliding!EndingAt(Window, <<x>>, i)]
  <2> DEFINE e == [j \in 1 .. 4 |-> IF j < 4 THEN history[(cursor + j - 1) % 3] ELSE x]
  <2>1. Sliding!EndingAt(Window, <<x>>, 1) = e
    BY SingletonChunk DEF Sliding!EndingAt, Window
  <2>2. emitted' = <<e>>
    BY DEF DecodeStep
  <2> HIDE DEF e
  <2>3. [i \in 1 .. 1 |-> Sliding!EndingAt(Window, <<x>>, i)] = <<e>>
    <3>1. \A i \in 1 .. 1 : i = 1
      OBVIOUS
    <3>2. [i \in 1 .. 1 |-> Sliding!EndingAt(Window, <<x>>, i)] = [i \in 1 .. 1 |-> e]
      BY <2>1, <3>1
    <3>3. [i \in 1 .. 1 |-> e] = <<e>>
      OBVIOUS
    <3> QED BY <3>2, <3>3
  <2> QED BY <2>2, <2>3, SingletonChunk
<1> QED BY <1>1, <1>2 DEF Sliding!Take

LEMMA PrefillIsTake ==
  ASSUME TypeOK, NEW chunk \in Chunks, PrefillStep(chunk)
  PROVE  Sliding!Take(chunk)
<1>1. Len(chunk) \in Nat /\ cursor \in 0 .. 2
  BY ChunkFact DEF TypeOK, Slot
<1>2. Window' = Sliding!After(Window, chunk)
  <2>1. ASSUME NEW j \in 1 .. 3
        PROVE  Window'[j] = IF Len(chunk) + j <= 3 THEN Window[Len(chunk) + j]
                                                   ELSE chunk[Len(chunk) + j - 3]
    <3>1. Window'[j] = history'[(cursor' + j - 1) % 3]
      BY DEF Window
    <3>2. (cursor' + j - 1) % 3 = (((cursor + Len(chunk)) % 3) + (j - 1)) % 3
      BY <1>1 DEF PrefillStep
    <3>3. Window'[j] = Kept(history, cursor, chunk, j - 1)
      <4>1. j - 1 \in Slot
        BY DEF Slot
      <4>2. Committed(history, cursor, chunk)[(((cursor + Len(chunk)) % 3) + (j - 1)) % 3] =
                Kept(history, cursor, chunk, j - 1)
        BY <4>1, CommittedFromCursor DEF TypeOK
      <4> QED BY <3>1, <3>2, <4>2 DEF PrefillStep
    <3>4. CASE Len(chunk) + j <= 3
      <4>1. Window[Len(chunk) + j] = history[(cursor + (Len(chunk) + j) - 1) % 3]
        BY <1>1, <3>4 DEF Window
      <4>2. (cursor + (Len(chunk) + j) - 1) % 3 = (cursor + (Len(chunk) - 3 + (j - 1)) + 3) % 3
        BY <1>1
      <4>3. Len(chunk) - 3 + (j - 1) < 0
        BY <1>1, <3>4
      <4> QED BY <3>3, <3>4, <4>1, <4>2, <4>3 DEF Kept
    <3>5. CASE ~(Len(chunk) + j <= 3)
      <4>1. /\ ~(Len(chunk) - 3 + (j - 1) < 0)
            /\ Len(chunk) - 3 + (j - 1) + 1 = Len(chunk) + j - 3
        BY <1>1, <3>5
      <4> QED BY <3>3, <3>5, <4>1 DEF Kept
    <3> QED BY <3>4, <3>5
  <2> QED BY <2>1 DEF Sliding!After, Window
<1>3. emitted' = [i \in 1 .. Len(chunk) |-> Sliding!EndingAt(Window, chunk, i)]
  <2>1. ASSUME NEW i \in 1 .. Len(chunk), NEW j \in 1 .. 4
        PROVE  Tapped(chunk, i - 1, j - 1) =
                   IF i + j <= 4 THEN Window[i + j - 1] ELSE chunk[i + j - 4]
    <3>1. CASE i + j <= 4
      <4>1. (i - 1) + (j - 1) - 3 < 0 /\ i + j - 1 \in 1 .. 3
        BY <1>1, <3>1
      <4>2. Window[i + j - 1] = history[(cursor + (i + j - 1) - 1) % 3]
        BY <4>1 DEF Window
      <4>3. cursor + (i + j - 1) - 1 = cursor + (i - 1) + (j - 1)
        BY <1>1
      <4> QED BY <3>1, <4>1, <4>2, <4>3 DEF Tapped
    <3>2. CASE ~(i + j <= 4)
      <4>1. ~((i - 1) + (j - 1) - 3 < 0) /\ (i - 1) + (j - 1) - 3 + 1 = i + j - 4
        BY <1>1, <3>2
      <4> QED BY <3>2, <4>1 DEF Tapped
    <3> QED BY <3>1, <3>2
  <2> QED BY <2>1 DEF PrefillStep, Sliding!EndingAt
<1> QED BY <1>2, <1>3 DEF Sliding!Take

\* The ring of three slots, wrapped by decode steps and overwritten by chunks
\* shorter or longer than itself, is the window of the last three inputs, and
\* both kernels emit what a convolution over the plain inputs would.
THEOREM RingIsSlidingWindow == Spec => ImplementsSlidingWindow
<1>1. Init => Sliding!Init
  <2> SUFFICES ASSUME Init PROVE Sliding!Init
    OBVIOUS
  <2>1. \A j \in 1 .. 3 : (0 + j - 1) % 3 \in Slot
    BY DEF Slot
  <2> QED BY <2>1 DEF Init, Window, Sliding!Init
<1>2. TypeOK /\ [Next]_vars => [Sliding!Next]_(Sliding!vars)
  <2> SUFFICES ASSUME TypeOK, [Next]_vars PROVE [Sliding!Next]_(Sliding!vars)
    OBVIOUS
  <2>1. Sliding!Chunks = Chunks
    BY DEF Sliding!Chunks, Chunks
  <2>2. ASSUME NEW x \in Input, DecodeStep(x) PROVE Sliding!Next
    BY <2>1, <2>2, DecodeIsTake, SingletonChunk DEF Sliding!Next
  <2>3. ASSUME NEW chunk \in Chunks, PrefillStep(chunk) PROVE Sliding!Next
    BY <2>1, <2>3, PrefillIsTake DEF Sliding!Next
  <2>4. CASE UNCHANGED vars
    BY <2>4 DEF vars, Sliding!vars, Window
  <2> QED BY <2>2, <2>3, <2>4 DEF Next
<1> QED
  BY <1>1, <1>2, TypeCorrect, PTL DEF Spec, ImplementsSlidingWindow, Sliding!Spec

-----------------------------------------------------------------------------
(* Cuts.                                                                     *)

LEMMA CutCommits ==
  ASSUME NEW hist \in [Slot -> Input], NEW at \in Slot, NEW chunk \in Chunks,
         NEW n \in 1 .. Len(chunk) - 1
  PROVE  LET first == SubSeq(chunk, 1, n)
             rest  == SubSeq(chunk, n + 1, Len(chunk))
         IN  Committed(hist, at, chunk) =
             Committed(Committed(hist, at, first), (at + n) % 3, rest)
<1> DEFINE first == SubSeq(chunk, 1, n)
           rest  == SubSeq(chunk, n + 1, Len(chunk))
           between == Committed(hist, at, first)
           L == Len(chunk)
<1>1. /\ L \in Nat /\ L >= 1 /\ L <= MaxChunk /\ n \in Nat /\ at \in 0 .. 2
      /\ chunk \in Seq(Input) /\ MaxChunk \in Nat
  BY ChunkFact, RingAssumption DEF Slot
<1>2. /\ first \in Seq(Input) /\ Len(first) = n
      /\ \A i \in 1 .. n : first[i] = chunk[i]
  <2>1. \A i \in 1 .. n : chunk[i] \in Input
    BY <1>1, ChunkFact
  <2>2. /\ first \in Seq(Input)
        /\ Len(first) = IF 1 <= n THEN n - 1 + 1 ELSE 0
        /\ \A i \in 1 .. n - 1 + 1 : first[i] = chunk[1 + i - 1]
    BY <1>1, <2>1, SubSeqProperties, 1 \in Int, n \in Int
  <2> HIDE DEF first
  <2> QED BY <1>1, <2>2
<1>3. /\ rest \in Seq(Input) /\ Len(rest) = L - n
      /\ \A i \in 1 .. L - n : rest[i] = chunk[n + i]
  <2>1. \A i \in n + 1 .. L : chunk[i] \in Input
    BY <1>1, ChunkFact
  <2>2. /\ rest \in Seq(Input)
        /\ Len(rest) = IF n + 1 <= L THEN L - (n + 1) + 1 ELSE 0
        /\ \A i \in 1 .. L - (n + 1) + 1 : rest[i] = chunk[n + 1 + i - 1]
    BY <1>1, <2>1, SubSeqProperties, n + 1 \in Int, L \in Int
  <2> HIDE DEF rest, L
  <2>3. L \in Nat /\ n \in 1 .. L - 1
    BY <1>1 DEF L
  <2>4. L - (n + 1) + 1 = L - n /\ n + 1 <= L
    BY <2>3
  <2> QED BY <2>2, <2>3, <2>4
<1>4. first \in Chunks /\ rest \in Chunks
  <2> HIDE DEF first, rest, between
  <2>1. n \in 1 .. MaxChunk /\ L - n \in 1 .. MaxChunk
    BY <1>1
  <2> HIDE DEF L
  <2>2. first \in [1 .. n -> Input] /\ rest \in [1 .. L - n -> Input]
    BY <1>2, <1>3, LenProperties
  <2> QED BY <2>1, <2>2 DEF Chunks
<1> HIDE DEF first, rest, between, L
<1>5. (((at + n) % 3) + Len(rest)) % 3 = (at + L) % 3
  BY <1>1, <1>3
<1>6. ASSUME NEW k \in Slot
      PROVE  Kept(hist, at, chunk, k) = Kept(between, (at + n) % 3, rest, k)
  <2>1. CASE L - n - 3 + k >= 0
    <3>1. L - 3 + k >= 0 /\ L - n - 3 + k + 1 \in 1 .. L - n
      BY <1>1, <2>1 DEF Slot
    <3>2. rest[L - n - 3 + k + 1] = chunk[L - 3 + k + 1]
      BY <1>1, <1>3, <3>1 DEF Slot
    <3>3. Kept(hist, at, chunk, k) = chunk[L - 3 + k + 1]
      BY <1>1, <3>1 DEF Kept, L, Slot
    <3>4. Kept(between, (at + n) % 3, rest, k) = rest[L - n - 3 + k + 1]
      BY <1>1, <1>3, <2>1 DEF Kept, Slot
    <3> QED BY <3>2, <3>3, <3>4
  <2>2. CASE L - n - 3 + k < 0
    <3> DEFINE j == L - n + k
    <3>1. j \in Slot
      BY <1>1, <2>2 DEF Slot, L
    <3>2. (((at + n) % 3) + (L - n - 3 + k) + 3) % 3 = (((at + n) % 3) + j) % 3
      BY <1>1 DEF Slot
    <3>3. Kept(between, (at + n) % 3, rest, k) = between[(((at + n) % 3) + j) % 3]
      BY <1>3, <2>2, <3>2 DEF Kept
    <3>4. between[(((at + n) % 3) + j) % 3] = Kept(hist, at, first, j)
      BY <1>2, <1>4, <3>1, CommittedFromCursor DEF between
    <3>5. n - 3 + j = L - 3 + k
      BY <1>1 DEF Slot
    <3>6. Kept(hist, at, first, j) = IF L - 3 + k < 0 THEN hist[(at + (L - 3 + k) + 3) % 3]
                                                     ELSE first[L - 3 + k + 1]
      BY <1>2, <3>5 DEF Kept
    <3>7. Kept(hist, at, chunk, k) = IF L - 3 + k < 0 THEN hist[(at + (L - 3 + k) + 3) % 3]
                                                     ELSE chunk[L - 3 + k + 1]
      BY DEF Kept, L
    <3>8. ~(L - 3 + k < 0) => first[L - 3 + k + 1] = chunk[L - 3 + k + 1]
      <4>1. ~(L - 3 + k < 0) => L - 3 + k + 1 \in 1 .. n
        BY <1>1, <2>2 DEF Slot
      <4> QED BY <1>2, <4>1
    <3> QED BY <3>3, <3>4, <3>6, <3>7, <3>8
  <2> QED BY <1>1, <2>1, <2>2 DEF Slot
<1>7. ASSUME NEW s \in Slot
      PROVE  (s - ((at + L) % 3) + 3) % 3 \in Slot
  BY <1>1 DEF Slot
<1>8. Committed(hist, at, chunk) = Committed(between, (at + n) % 3, rest)
  BY <1>5, <1>6, <1>7 DEF Committed, L
<1> QED BY <1>8 DEF first, rest, between

\* Where a prompt is cut into chunks does not matter to the ring it leaves.
THEOREM CutsDoNotMatter == Spec => []CutsAreInvisible
<1>1. TypeOK => CutsAreInvisible
  BY CutCommits DEF TypeOK, CutsAreInvisible
<1> QED BY <1>1, TypeCorrect, PTL
=============================================================================
