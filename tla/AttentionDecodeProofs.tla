------------------------ MODULE AttentionDecodeProofs ------------------------
(* Machine-checked proofs about AttentionDecode, for every capacity, tile,    *)
(* segment, number of waves and number of heads.                              *)
EXTENDS AttentionDecode, SequenceTheorems, TLAPS

-----------------------------------------------------------------------------
(* Division.                                                                 *)

LEMMA DivFact ==
  ASSUME NEW a \in Nat, NEW b \in Nat \ {0}
  PROVE  /\ a \div b \in Nat
         /\ b * (a \div b) <= a
         /\ a < b * (a \div b) + b
  OBVIOUS

LEMMA OneMore ==
  ASSUME NEW b \in Nat, NEW x \in Nat, NEW y \in Nat, x < y
  PROVE  /\ b * x \in Nat /\ b * y \in Nat
         /\ b * x + b <= b * y
<1>1. PICK d \in Nat : y = x + 1 + d
  <2> y - x - 1 \in Nat
    OBVIOUS
  <2> QED BY y = x + 1 + (y - x - 1)
<1>2. b * y = b * x + b + b * d
  BY <1>1
<1>3. b * d \in Nat /\ b * x \in Nat
  BY <1>1
<1> QED BY <1>2, <1>3

\* The quotient is the only number that fits.
LEMMA DivUnique ==
  ASSUME NEW a \in Nat, NEW b \in Nat \ {0}, NEW q \in Nat, b * q <= a, a < b * q + b
  PROVE  a \div b = q
<1> DEFINE d == a \div b
<1>1. d \in Nat /\ b * d <= a /\ a < b * d + b
  BY DivFact
<1> HIDE DEF d
<1>2. ~(d < q)
  BY <1>1, OneMore
<1>3. ~(q < d)
  BY <1>1, OneMore
<1>4. d = q
  BY <1>1, <1>2, <1>3
<1> QED BY <1>4 DEF d

LEMMA DivMonotone ==
  ASSUME NEW a \in Nat, NEW c \in Nat, NEW b \in Nat \ {0}, a <= c
  PROVE  a \div b <= c \div b
<1> DEFINE d == a \div b
           e == c \div b
<1>1. d \in Nat /\ b * d <= a /\ e \in Nat /\ c < b * e + b
  BY DivFact
<1> HIDE DEF d, e
<1>2. ~(e < d)
  BY <1>1, OneMore
<1>3. d <= e
  BY <1>1, <1>2
<1> QED BY <1>3 DEF d, e

LEMMA CeilingFact ==
  ASSUME NEW a \in Nat, NEW b \in Nat \ {0}
  PROVE  /\ Ceiling(a, b) \in Nat
         /\ a <= b * Ceiling(a, b)
         /\ b * Ceiling(a, b) < a + b
         /\ Ceiling(a, b) = 0 <=> a = 0
<1> DEFINE c == (a + b - 1) \div b
<1>1. a + b - 1 \in Nat
  OBVIOUS
<1>2. c \in Nat /\ b * c <= a + b - 1 /\ a + b - 1 < b * c + b
  BY <1>1, DivFact
<1> HIDE DEF c
<1>3. b * c \in Nat
  BY <1>2
<1>4. c = 0 => b * c = 0
  BY <1>2
<1>5. c # 0 => b <= b * c
  <2>1. c # 0 => b * 0 + b <= b * c
    BY <1>2, OneMore
  <2> QED BY <1>3, <2>1
<1>6. a <= b * c /\ b * c < a + b
  BY <1>2, <1>3
<1>7. c = 0 <=> a = 0
  BY <1>2, <1>3, <1>4, <1>5, <1>6
<1> QED BY <1>2, <1>6, <1>7 DEF c, Ceiling

LEMMA CeilingMonotone ==
  ASSUME NEW a \in Nat, NEW c \in Nat, NEW b \in Nat \ {0}, a <= c
  PROVE  Ceiling(a, b) <= Ceiling(c, b)
<1>1. a + b - 1 \in Nat /\ c + b - 1 \in Nat /\ a + b - 1 <= c + b - 1
  OBVIOUS
<1> QED BY <1>1, DivMonotone DEF Ceiling

-----------------------------------------------------------------------------
(* The number of partitions.                                                 *)

LEMMA LimitFact ==
  /\ Limit \in Nat \ {0}
  /\ Limit <= Ceiling(Capacity, Segment) /\ Ceiling(Capacity, Segment) \in Nat
<1>1. Capacity \in Nat \ {0} /\ Segment \in Nat \ {0} /\ Waves \in Nat \ {0}
  BY AttentionAssumption
<1>2. Ceiling(Capacity, Segment) \in Nat \ {0}
  BY <1>1, CeilingFact
<1> QED BY <1>1, <1>2 DEF Limit, Lower

LEMMA PartitionsFact ==
  ASSUME NEW keys \in Nat
  PROVE  Partitions(keys) \in 0 .. Limit /\ (Partitions(keys) = 0 <=> keys = 0)
<1>1. Ceiling(keys, Segment) \in Nat /\ (Ceiling(keys, Segment) = 0 <=> keys = 0)
  BY CeilingFact, AttentionAssumption
<1> QED BY <1>1, LimitFact DEF Partitions, Lower

\* A bucket has at least the partitions of the keys it was captured for.
LEMMA PartitionsMonotone ==
  ASSUME NEW keys \in Nat, NEW bucket \in Nat, keys <= bucket
  PROVE  Partitions(keys) <= Partitions(bucket)
<1>1. /\ Ceiling(keys, Segment) \in Nat /\ Ceiling(bucket, Segment) \in Nat
      /\ Ceiling(keys, Segment) <= Ceiling(bucket, Segment)
  BY CeilingFact, CeilingMonotone, AttentionAssumption
<1> QED BY <1>1, LimitFact DEF Partitions, Lower

-----------------------------------------------------------------------------
(* Intervals.                                                                *)

\* How many of t tiles the first y of n partitions have.
LEMMA ShareFact ==
  ASSUME NEW t \in Nat \ {0}, NEW n \in Nat \ {0}, NEW y \in 0 .. n
  PROVE  /\ (t * y) \div n \in 0 .. t
         /\ y < n => (t * y) \div n < t
         /\ y = 0 => (t * y) \div n = 0
         /\ y = n => (t * y) \div n = t
<1> DEFINE d == (t * y) \div n
<1>1. t * y \in Nat
  OBVIOUS
<1>2. d \in Nat /\ n * d <= t * y
  BY <1>1, DivFact
<1>3. t * n = n * t /\ n * t \in Nat
  OBVIOUS
<1>4. y < n => t * y + t <= t * n
  BY OneMore
<1>5. y = n => d = t
  BY <1>1, <1>3, DivUnique
<1>6. y = 0 => d = 0
  <2>1. t * 0 = 0 /\ n * 0 = 0
    OBVIOUS
  <2> QED BY <2>1, DivUnique
<1> HIDE DEF d
<1>7. y < n => d < t
  <2> SUFFICES ASSUME y < n, t <= d PROVE FALSE
    BY <1>2
  <2>1. n * t <= n * d /\ n * d \in Nat
    <3>1. CASE t = d
      BY <1>2, <1>3, <3>1
    <3>2. CASE t < d
      BY <1>2, <1>3, <3>2, OneMore
    <3> QED BY <1>2, <3>1, <3>2
  <2> QED BY <1>1, <1>2, <1>3, <1>4, <2>1
<1> QED BY <1>2, <1>5, <1>7, <1>6 DEF d

LEMMA IntervalFact ==
  ASSUME NEW keys \in 1 .. Capacity, NEW n \in Nat \ {0}, NEW y \in 0 .. n - 1
  PROVE  /\ Interval(keys, y, n) \in [from : 0 .. Capacity, to : 0 .. Capacity]
         /\ y = 0 => Interval(keys, y, n).from = 0
         /\ y = n - 1 => Interval(keys, y, n).to = keys
         /\ y < n - 1 => Interval(keys, y, n).to = Interval(keys, y + 1, n).from
<1> DEFINE t == Ceiling(keys, Tile)
           below == (t * y) \div n
           above == (t * (y + 1)) \div n
<1>1. /\ Tile \in Nat \ {0} /\ Capacity \in Nat /\ keys \in Nat \ {0}
      /\ n \in Nat \ {0} /\ y \in 0 .. n /\ y + 1 \in 0 .. n /\ y < n
  BY AttentionAssumption
<1>2. t \in Nat \ {0} /\ keys <= Tile * t /\ Tile * t < keys + Tile
  BY <1>1, CeilingFact
<1> HIDE DEF t
<1>3. /\ below \in 0 .. t /\ below < t /\ above \in 0 .. t
      /\ y = 0 => below = 0
      /\ y = n - 1 => above = t
      /\ y < n - 1 => above < t
  <2>1. y + 1 = n <=> y = n - 1
    BY <1>1
  <2>2. y + 1 < n <=> y < n - 1
    BY <1>1
  <2> QED BY <1>1, <1>2, <2>1, <2>2, ShareFact
<1>4. Interval(keys, y, n) = [from |-> below * Tile, to |-> Lower(keys, above * Tile)]
  BY DEF Interval, t
<1>5. Interval(keys, y + 1, n).from = above * Tile
  BY DEF Interval, t
<1> HIDE DEF below, above
\* A share of fewer than all the tiles ends before the last key.
<1>6. ASSUME NEW s \in Nat, s < t PROVE s * Tile \in Nat /\ s * Tile < keys
  <2>1. Tile * s + Tile <= Tile * t /\ Tile * s = s * Tile /\ Tile * s \in Nat /\ Tile * t \in Nat
    BY <1>1, <1>2, <1>6, OneMore
  <2> QED BY <1>1, <1>2, <2>1
<1>7. below * Tile \in 0 .. Capacity
  BY <1>1, <1>2, <1>3, <1>6
<1>8. above * Tile \in Nat /\ (above = t => keys <= above * Tile)
  <2>1. above * Tile = Tile * above
    BY <1>1, <1>3
  <2> QED BY <1>1, <1>2, <1>3, <2>1
<1>9. y = n - 1 => Lower(keys, above * Tile) = keys
  BY <1>1, <1>3, <1>8 DEF Lower
<1>10. y < n - 1 => Lower(keys, above * Tile) = above * Tile
  <2> SUFFICES ASSUME y < n - 1 PROVE above * Tile <= keys
    BY <1>1, <1>8 DEF Lower
  <2> QED BY <1>1, <1>2, <1>3, <1>6, <1>8
<1>11. Lower(keys, above * Tile) \in 0 .. Capacity
  BY <1>1, <1>8 DEF Lower
<1>12. y = 0 => below * Tile = 0
  BY <1>1, <1>3
<1> QED BY <1>4, <1>5, <1>7, <1>9, <1>10, <1>11, <1>12

-----------------------------------------------------------------------------
(* The workspace.                                                            *)

LEMMA HeadFact ==
  /\ KvHeads * Group \in Nat \ {0}
  /\ \A h \in 0 .. KvHeads - 1, c \in 0 .. Group - 1 : h * Group + c \in QueryHead
  /\ \A q \in QueryHead : \E h \in 0 .. KvHeads - 1, c \in 0 .. Group - 1 :
         q = h * Group + c
<1>1. KvHeads \in Nat \ {0} /\ Group \in Nat \ {0}
  BY AttentionAssumption
<1>2. KvHeads * Group = Group * KvHeads /\ Group * KvHeads \in Nat
  BY <1>1
<1>3. Group * 0 + Group <= Group * KvHeads /\ Group * 0 = 0
  BY <1>1, OneMore
<1>4. ASSUME NEW h \in 0 .. KvHeads - 1, NEW c \in 0 .. Group - 1
      PROVE  h * Group + c \in QueryHead
  <2>1. Group * h + Group <= Group * KvHeads /\ Group * h = h * Group /\ Group * h \in Nat
    BY <1>1, OneMore
  <2> QED BY <1>1, <1>2, <2>1 DEF QueryHead
<1>5. ASSUME NEW q \in QueryHead
      PROVE  \E h \in 0 .. KvHeads - 1, c \in 0 .. Group - 1 : q = h * Group + c
  <2> DEFINE h == q \div Group
             c == q - Group * h
  <2>1. q \in Nat /\ q < Group * KvHeads
    BY <1>2, <1>5 DEF QueryHead
  <2>2. h \in Nat /\ Group * h <= q /\ q < Group * h + Group
    BY <1>1, <2>1, DivFact
  <2> HIDE DEF h
  <2>3. Group * h \in Nat /\ Group * h = h * Group
    BY <1>1, <2>2
  <2>4. h < KvHeads
    <3> SUFFICES ASSUME KvHeads <= h PROVE FALSE
      BY <1>1, <2>2
    <3>1. CASE KvHeads = h
      BY <1>2, <2>1, <2>2, <3>1
    <3>2. CASE KvHeads < h
      <4>1. Group * KvHeads + Group <= Group * h
        BY <1>1, <2>2, <3>2, OneMore
      <4> QED BY <1>1, <1>2, <2>1, <2>2, <2>3, <4>1
    <3> QED BY <1>1, <2>2, <3>1, <3>2
  <2>5. c \in 0 .. Group - 1 /\ q = h * Group + c
    BY <1>1, <2>1, <2>2, <2>3
  <2>6. h \in 0 .. KvHeads - 1
    BY <1>1, <2>2, <2>4
  <2> QED BY <2>5, <2>6
<1> QED BY <1>1, <1>2, <1>3, <1>4, <1>5

\* Numbers of two digits are equal only when both digits are.
LEMMA DigitsUnique ==
  ASSUME NEW b \in Nat, NEW x \in Nat, NEW y \in Nat,
         NEW i \in 0 .. b - 1, NEW j \in 0 .. b - 1, x * b + i = y * b + j
  PROVE  x = y /\ i = j
<1>1. x * b = b * x /\ y * b = b * y /\ b * x \in Nat /\ b * y \in Nat
  OBVIOUS
<1>2. ~(x < y)
  <2> SUFFICES ASSUME x < y PROVE FALSE
    OBVIOUS
  <2>1. b * x + b <= b * y
    BY OneMore
  <2> QED BY <1>1, <2>1
<1>3. ~(y < x)
  <2> SUFFICES ASSUME y < x PROVE FALSE
    OBVIOUS
  <2>1. b * y + b <= b * x
    BY OneMore
  <2> QED BY <1>1, <2>1
<1>4. x = y
  BY <1>2, <1>3
<1> QED BY <1>1, <1>4

LEMMA SlotFact ==
  ASSUME Active \in 0 .. Limit, NEW q \in QueryHead, NEW y \in 0 .. Active - 1
  PROVE  SlotOf(q, y) \in Slot
<1> DEFINE S == Ceiling(Capacity, Segment)
           H == KvHeads * Group
           A == Active
<1>1. /\ S \in Nat /\ H \in Nat /\ A \in Nat /\ A <= S /\ q \in Nat /\ q < H
      /\ y \in Nat /\ y < A
  BY LimitFact, HeadFact DEF QueryHead
<1>2. SlotOf(q, y) = q * A + y
  BY DEF SlotOf
<1>3. Slot = 0 .. H * S - 1
  BY DEF Slot
<1> HIDE DEF S, H, A
<1>4. /\ A * q + A <= A * H
      /\ A * q = q * A /\ q * A \in Nat /\ A * H = H * A /\ H * A \in Nat
  BY <1>1, OneMore
<1>5. H * A <= H * S /\ H * S \in Nat
  <2>1. CASE A = S
    BY <1>1, <1>4, <2>1
  <2>2. CASE A < S
    BY <1>1, <2>2, OneMore, H * A + H <= H * S
  <2> QED BY <1>1, <2>1, <2>2
<1> QED BY <1>1, <1>2, <1>3, <1>4, <1>5

\* A partial result is written by the block of one KV head and partition.
LEMMA SlotUnique ==
  ASSUME Active \in Nat,
         NEW h \in 0 .. KvHeads - 1, NEW c \in 0 .. Group - 1, NEW y \in 0 .. Active - 1,
         NEW k \in 0 .. KvHeads - 1, NEW d \in 0 .. Group - 1, NEW z \in 0 .. Active - 1,
         SlotOf(h * Group + c, y) = SlotOf(k * Group + d, z)
  PROVE  h = k /\ c = d /\ y = z
<1>1. KvHeads \in Nat /\ Group \in Nat /\ h \in Nat /\ k \in Nat
  BY AttentionAssumption
<1>2. h * Group + c \in Nat /\ k * Group + d \in Nat
  BY HeadFact DEF QueryHead
<1>3. (h * Group + c) * Active + y = (k * Group + d) * Active + z
  BY DEF SlotOf
<1>4. h * Group + c = k * Group + d /\ y = z
  BY <1>2, <1>3, DigitsUnique
<1> QED BY <1>1, <1>4, DigitsUnique

-----------------------------------------------------------------------------
(* The inductive invariant.  TypeOK says what the slots and the heads hold;   *)
(* the proof also needs the domain of merged, that the number of partitions   *)
(* suits the keys, that the merge waits for the whole scan, that a block that *)
(* has run left the interval of its partition with every head of its group,   *)
(* and that a head merged all of them.                                        *)

Result == [from : 0 .. Capacity, to : 0 .. Capacity] \cup {Stale}

\* The launch divides its keys: no partition without a key, no key without one.
Counted == Active \in 0 .. Limit /\ (Active = 0 <=> populated = 0)

\* The merge kernel runs after the last block of the scan.
ScanIsOver == phase = "merge" => waiting = {}

\* What a block that has run left in the workspace.
Scanned ==
    \A h \in 0 .. KvHeads - 1, y \in 0 .. Active - 1 : <<h, y>> \notin waiting =>
        \A c \in 0 .. Group - 1 :
            partials[SlotOf(h * Group + c, y)] = Interval(populated, y, Active)

\* What a query head that has merged was made of.
Merges == [i \in 1 .. Active |-> Interval(populated, i - 1, Active)]
Combined == \A q \in QueryHead : merged[q] # <<>> => merged[q] = Merges

IInv == /\ TypeOK /\ DOMAIN merged = QueryHead
        /\ Counted /\ ScanIsOver /\ Scanned /\ Combined

LEMMA InitIsInductive == Init => IInv
<1> SUFFICES ASSUME Init PROVE IInv
  OBVIOUS
<1>1. Capacity \in Nat /\ Limit \in Nat
  BY AttentionAssumption, LimitFact
<1>2. Active = 0
  BY DEF Init, Active
<1>3. TypeOK
  <2>1. phase \in {"idle", "scan", "merge"} /\ controlled \in BOOLEAN
    BY DEF Init
  <2>2. populated \in 0 .. Capacity /\ segments \in 0 .. Limit
    BY <1>1 DEF Init
  <2>3. /\ waiting \subseteq (0 .. KvHeads - 1) \X (0 .. Limit - 1)
        /\ \A s \in Slot : partials[s] = Stale
        /\ \A q \in QueryHead : merged[q] = <<>>
    BY DEF Init
  <2> QED BY <2>1, <2>2, <2>3, EmptySeq DEF TypeOK
<1>4. DOMAIN merged = QueryHead /\ ScanIsOver /\ Combined
  BY DEF Init, ScanIsOver, Combined
<1>5. Counted /\ Scanned
  BY <1>1, <1>2 DEF Counted, Scanned, Init
<1> QED BY <1>3, <1>4, <1>5 DEF IInv

\* A launch that divides its keys starts from a clean slate.
LEMMA LaunchIsInductive ==
  ASSUME NEW keys \in 0 .. Capacity, NEW count \in 0 .. Limit, NEW control \in BOOLEAN,
         NEW n \in 0 .. count, n = IF control THEN Partitions(keys) ELSE count,
         n = 0 <=> keys = 0, n = 0 <=> count = 0,
         Launch(keys, count, control)
  PROVE  IInv'
<1>1. Capacity \in Nat /\ Limit \in Nat \ {0} /\ KvHeads \in Nat
  BY AttentionAssumption, LimitFact
<1>2. Active' = n
  BY DEF Active, Launch
<1>3. n \in 0 .. count /\ (n = 0 <=> keys = 0) /\ (n = 0 <=> count = 0)
  OBVIOUS
<1>4. waiting' \subseteq (0 .. KvHeads - 1) \X (0 .. Limit - 1)
  BY <1>1 DEF Launch
<1>5. TypeOK'
  BY <1>1, <1>4, EmptySeq DEF Launch, TypeOK
<1>6. (DOMAIN merged = QueryHead)' /\ Combined'
  BY DEF Launch, Combined
<1>7. ScanIsOver'
  BY <1>1 DEF Launch, ScanIsOver
<1>8. Counted'
  BY <1>1, <1>2, <1>3 DEF Launch, Counted
<1>9. Scanned'
  BY <1>1, <1>2, <1>3 DEF Launch, Scanned
<1> QED BY <1>5, <1>6, <1>7, <1>8, <1>9 DEF IInv

\* An eager launch and one with the caller's number of partitions read the
\* number launched; a replay reads that of its keys, at most that of its bucket.
LEMMA LaunchesDivide ==
  ASSUME \/ \E keys \in 0 .. Capacity : LaunchEager(keys)
         \/ \E keys, bucket \in 1 .. Capacity : LaunchReplay(keys, bucket)
         \/ \E keys \in 1 .. Capacity, count \in 1 .. Limit : LaunchFixed(keys, count)
  PROVE  IInv'
<1>1. Capacity \in Nat /\ Limit \in Nat \ {0}
  BY AttentionAssumption, LimitFact
<1>2. ASSUME NEW keys \in 0 .. Capacity, LaunchEager(keys) PROVE IInv'
  <2>1. Partitions(keys) \in 0 .. Limit /\ (Partitions(keys) = 0 <=> keys = 0)
    BY <1>1, PartitionsFact
  <2>2. Launch(keys, Partitions(keys), FALSE) /\ FALSE \in BOOLEAN
    BY <1>2 DEF LaunchEager
  <2>3. Partitions(keys) \in 0 .. Partitions(keys)
    BY <1>1, <2>1
  <2>4. Partitions(keys) = IF FALSE THEN Partitions(keys) ELSE Partitions(keys)
    OBVIOUS
  <2> QED BY <2>1, <2>2, <2>3, <2>4, LaunchIsInductive
<1>3. ASSUME NEW keys \in 1 .. Capacity, NEW bucket \in 1 .. Capacity,
             LaunchReplay(keys, bucket)
      PROVE  IInv'
  <2>1. keys \in 0 .. Capacity /\ keys \in Nat /\ bucket \in Nat /\ keys # 0 /\ bucket # 0
    BY <1>1
  <2>2. keys <= bucket /\ Launch(keys, Partitions(bucket), TRUE)
    BY <1>3 DEF LaunchReplay
  <2>3. /\ Partitions(keys) \in 0 .. Limit /\ (Partitions(keys) = 0 <=> keys = 0)
        /\ Partitions(bucket) \in 0 .. Limit /\ (Partitions(bucket) = 0 <=> bucket = 0)
        /\ Partitions(keys) <= Partitions(bucket)
    BY <2>1, <2>2, PartitionsFact, PartitionsMonotone
  <2>4. TRUE \in BOOLEAN /\ Partitions(keys) \in 0 .. Partitions(bucket)
    BY <1>1, <2>3
  <2>5. Partitions(keys) = IF TRUE THEN Partitions(keys) ELSE Partitions(bucket)
    OBVIOUS
  <2> QED BY <2>1, <2>2, <2>3, <2>4, <2>5, LaunchIsInductive
<1>4. ASSUME NEW keys \in 1 .. Capacity, NEW count \in 1 .. Limit, LaunchFixed(keys, count)
      PROVE  IInv'
  <2>1. keys \in 0 .. Capacity /\ keys # 0 /\ count \in 0 .. Limit /\ count # 0
    BY <1>1
  <2>2. Launch(keys, count, FALSE) /\ FALSE \in BOOLEAN
    BY <1>4 DEF LaunchFixed
  <2>3. count \in 0 .. count /\ count = IF FALSE THEN Partitions(keys) ELSE count
    BY <1>1
  <2> QED BY <2>1, <2>2, <2>3, LaunchIsInductive
<1> QED BY <1>2, <1>3, <1>4

LEMMA MergesFact ==
  ASSUME IInv, Active # 0
  PROVE  /\ Active \in 1 .. Limit /\ populated \in 1 .. Capacity
         /\ \A y \in 0 .. Active - 1 :
                Interval(populated, y, Active) \in [from : 0 .. Capacity, to : 0 .. Capacity]
<1>1. Capacity \in Nat /\ Limit \in Nat
  BY AttentionAssumption, LimitFact
<1>2. Active \in 1 .. Limit /\ populated \in 1 .. Capacity
  BY <1>1 DEF IInv, Counted, TypeOK
<1> QED BY <1>1, <1>2, IntervalFact

LEMMA ScanIsInductive ==
  ASSUME IInv, NEW h \in 0 .. KvHeads - 1, NEW y \in 0 .. Limit - 1, ScanBlock(h, y)
  PROVE  IInv'
<1>1. Capacity \in Nat /\ Limit \in Nat \ {0}
  BY AttentionAssumption, LimitFact
<1>2. /\ Active' = Active /\ populated' = populated /\ Merges' = Merges
      /\ merged' = merged /\ segments' = segments /\ controlled' = controlled
  BY DEF ScanBlock, Active, Merges
<1>3. Active \in 0 .. Limit /\ Active \in Nat
  BY <1>1 DEF IInv, Counted
<1>4. \A s \in Slot : partials'[s] = IF s \in Writes(h, y) THEN Interval(populated, y, Active)
                                                           ELSE partials[s]
  BY DEF ScanBlock
<1>5. TypeOK'
  <2>1. \A s \in Slot : partials'[s] \in Result
    <3>1. y < Active => Interval(populated, y, Active) \in Result
      BY <1>1, <1>3, MergesFact DEF Result
    <3>2. ~(y < Active) => Writes(h, y) = {}
      BY <1>1, <1>3 DEF Writes
    <3> QED BY <1>4, <3>1, <3>2 DEF IInv, TypeOK, Result
  <2>2. phase' \in {"idle", "scan", "merge"} /\ waiting' \subseteq (0 .. KvHeads - 1) \X (0 .. Limit - 1)
    BY DEF ScanBlock, IInv, TypeOK
  <2> QED BY <1>2, <2>1, <2>2 DEF IInv, TypeOK, Result
<1>6. Scanned'
  <2> SUFFICES ASSUME NEW k \in 0 .. KvHeads - 1, NEW z \in 0 .. Active - 1,
                      <<k, z>> \notin waiting', NEW d \in 0 .. Group - 1
               PROVE  partials'[SlotOf(k * Group + d, z)] = Interval(populated, z, Active)
    BY <1>2 DEF Scanned, SlotOf
  <2>1. SlotOf(k * Group + d, z) \in Slot
    BY <1>3, HeadFact, SlotFact
  <2>2. CASE <<k, z>> = <<h, y>>
    <3>1. SlotOf(k * Group + d, z) \in Writes(h, y)
      BY <1>3, <2>2 DEF Writes
    <3> QED BY <1>4, <2>1, <2>2, <3>1
  <2>3. CASE <<k, z>> # <<h, y>>
    <3>1. <<k, z>> \notin waiting
      BY <2>3 DEF ScanBlock
    <3>2. partials[SlotOf(k * Group + d, z)] = Interval(populated, z, Active)
      BY <3>1 DEF IInv, Scanned
    <3>3. SlotOf(k * Group + d, z) \notin Writes(h, y)
      <4> SUFFICES ASSUME SlotOf(k * Group + d, z) \in Writes(h, y) PROVE FALSE
        OBVIOUS
      <4>1. y \in 0 .. Active - 1
        BY <1>1, <1>3 DEF Writes
      <4>2. PICK c \in 0 .. Group - 1 : SlotOf(k * Group + d, z) = SlotOf(h * Group + c, y)
        BY DEF Writes
      <4>3. k = h /\ z = y
        BY <1>3, <4>1, <4>2, SlotUnique
      <4> QED BY <2>3, <4>3
    <3> QED BY <1>4, <2>1, <3>2, <3>3
  <2> QED BY <2>2, <2>3
<1>7. Counted' /\ Combined' /\ (DOMAIN merged = QueryHead)'
  BY <1>2 DEF IInv, Counted, Combined
<1>8. ScanIsOver'
  BY DEF ScanBlock, ScanIsOver
<1> QED BY <1>5, <1>6, <1>7, <1>8 DEF IInv

LEMMA MergeIsInductive ==
  ASSUME IInv, NEW q \in QueryHead, MergeBlock(q)
  PROVE  IInv'
<1>1. /\ Active' = Active /\ populated' = populated /\ Merges' = Merges
      /\ waiting' = waiting /\ partials' = partials /\ phase' = phase
      /\ segments' = segments /\ controlled' = controlled
  BY DEF MergeBlock, Active, Merges
<1>2. Active \in 0 .. Limit /\ Active \in Nat /\ Limit \in Nat
  BY LimitFact DEF IInv, Counted
<1>3. ASSUME NEW i \in 1 .. Active
      PROVE  partials[SlotOf(q, i - 1)] = Interval(populated, i - 1, Active)
  <2>1. PICK h \in 0 .. KvHeads - 1, c \in 0 .. Group - 1 : q = h * Group + c
    BY HeadFact
  <2>2. waiting = {}
    BY DEF MergeBlock, IInv, ScanIsOver
  <2>3. i - 1 \in 0 .. Active - 1
    BY <1>2
  <2> QED BY <2>1, <2>2, <2>3 DEF IInv, Scanned
<1>4. /\ merged' = [merged EXCEPT ![q] = Merges]
  BY <1>3 DEF MergeBlock, Merges
<1>5. Merges \in Seq(Result)
  <2>1. ASSUME NEW i \in 1 .. Active PROVE Interval(populated, i - 1, Active) \in Result
    BY <1>2, MergesFact DEF Result
  <2>2. Merges \in [1 .. Active -> Result]
    BY <2>1 DEF Merges
  <2> QED BY <1>2, <2>2, SeqDef
<1>6. DOMAIN merged' = QueryHead /\ \A r \in QueryHead : merged'[r] \in Seq(Result)
  BY <1>4, <1>5 DEF IInv, TypeOK, Result
<1>7. Combined'
  BY <1>1, <1>4 DEF IInv, Combined
<1>8. Counted' /\ ScanIsOver' /\ Scanned'
  BY <1>1 DEF IInv, Counted, ScanIsOver, Scanned, SlotOf
<1>9. TypeOK'
  BY <1>1, <1>6 DEF IInv, TypeOK, Result
<1> QED BY <1>6, <1>7, <1>8, <1>9 DEF IInv

LEMMA StepIsInductive ==
  ASSUME IInv, [Next]_vars
  PROVE  IInv'
<1>1. CASE \/ \E keys \in 0 .. Capacity : LaunchEager(keys)
           \/ \E keys, bucket \in 1 .. Capacity : LaunchReplay(keys, bucket)
           \/ \E keys \in 1 .. Capacity, count \in 1 .. Limit : LaunchFixed(keys, count)
  BY <1>1, LaunchesDivide
<1>2. CASE \E h \in 0 .. KvHeads - 1, y \in 0 .. Limit - 1 : ScanBlock(h, y)
  BY <1>2, ScanIsInductive
<1>3. CASE \E q \in QueryHead : MergeBlock(q)
  BY <1>3, MergeIsInductive
<1>4. CASE Finish
  BY <1>4 DEF Finish, IInv, TypeOK, Counted, ScanIsOver, Scanned, Combined,
              Active, Merges, SlotOf
<1>5. CASE UNCHANGED vars
  BY <1>5 DEF vars, IInv, TypeOK, Counted, ScanIsOver, Scanned, Combined,
              Active, Merges, SlotOf
<1> QED BY <1>1, <1>2, <1>3, <1>4, <1>5 DEF Next

\* What every launch, scan and merge preserves holds of every state.
LEMMA Inductive == Spec => []IInv
  BY InitIsInductive, StepIsInductive, PTL DEF Spec

-----------------------------------------------------------------------------
(* Theorems.                                                                 *)

\* Every variable keeps its type: the intervals end within the capacity.
THEOREM TypeCorrect == Spec => []TypeOK
<1>1. IInv => TypeOK
  BY DEF IInv
<1> QED BY <1>1, Inductive, PTL

\* Whatever the capacity, the bucket, the number of partitions and the order of
\* the blocks, the merge of a query head reads every populated key exactly once,
\* in order, and no partial result of an earlier launch.
THEOREM MergeIsExact == Spec => []MergeReadsEveryKeyOnce
<1>1. IInv => MergeReadsEveryKeyOnce
  <2> SUFFICES ASSUME IInv, NEW q \in QueryHead, merged[q] # <<>>
               PROVE  /\ \A i \in 1 .. Len(merged[q]) : merged[q][i] # Stale
                      /\ merged[q][1].from = 0 /\ merged[q][Len(merged[q])].to = populated
                      /\ \A i \in 1 .. Len(merged[q]) - 1 :
                             merged[q][i].to = merged[q][i + 1].from
    BY DEF MergeReadsEveryKeyOnce
  <2>1. merged[q] = Merges
    BY DEF IInv, Combined
  <2>2. Active \in Nat /\ Active <= Limit /\ Limit \in Nat
    BY LimitFact DEF IInv, Counted
  <2>3. Active # 0
    BY <2>1, <2>2 DEF Merges
  <2>4. Active \in Nat \ {0} /\ populated \in 1 .. Capacity
    BY <2>2, <2>3, MergesFact
  <2>5. Len(Merges) = Active /\ \A i \in 1 .. Active : Merges[i] = Interval(populated, i - 1, Active)
    BY <2>4 DEF Merges
  <2>6. ASSUME NEW i \in 1 .. Active PROVE Merges[i] # Stale
    BY <2>3, <2>4, <2>5, MergesFact, AttentionAssumption
  <2>7. Merges[1].from = 0
    BY <2>4, <2>5, IntervalFact
  <2>8. Merges[Active].to = populated
    BY <2>4, <2>5, IntervalFact
  <2>9. ASSUME NEW i \in 1 .. Active - 1 PROVE Merges[i].to = Merges[i + 1].from
    <3>1. i - 1 \in 0 .. Active - 1 /\ i - 1 < Active - 1 /\ (i - 1) + 1 = (i + 1) - 1
      BY <2>4
    <3>2. /\ Merges[i] = Interval(populated, i - 1, Active)
          /\ Merges[i + 1] = Interval(populated, (i - 1) + 1, Active)
      <4>1. i \in 1 .. Active /\ i + 1 \in 1 .. Active
        BY <2>4
      <4> QED BY <2>5, <3>1, <4>1
    <3>3. Interval(populated, i - 1, Active).to = Interval(populated, (i - 1) + 1, Active).from
      BY <2>4, <3>1, IntervalFact
    <3> QED BY <3>2, <3>3
  <2> QED BY <2>1, <2>5, <2>6, <2>7, <2>8, <2>9
<1> QED BY <1>1, Inductive, PTL

\* A replay splits the keys exactly as an eager launch of the same token would,
\* whatever bucket its graph was captured for.
THEOREM ReplayIsEager == Spec => []ReplayMatchesEager
<1>1. IInv => ReplayMatchesEager
  BY DEF IInv, Combined, Merges, Active, ReplayMatchesEager
<1> QED BY <1>1, Inductive, PTL

\* No two blocks of a launch write the same partial result, and none writes
\* outside the workspace of the session's capacity.
THEOREM BlocksKeepApart == Spec => []BlocksAreDisjoint
<1>1. IInv => BlocksAreDisjoint
  <2> SUFFICES ASSUME IInv, NEW a \in waiting, NEW b \in waiting
               PROVE  /\ Writes(a[1], a[2]) \subseteq Slot
                      /\ a # b => Writes(a[1], a[2]) \cap Writes(b[1], b[2]) = {}
    BY DEF BlocksAreDisjoint
  <2>1. Active \in 0 .. Limit /\ Active \in Nat /\ Limit \in Nat
    BY LimitFact DEF IInv, Counted
  <2>2. /\ a = <<a[1], a[2]>> /\ a[1] \in 0 .. KvHeads - 1 /\ a[2] \in 0 .. Limit - 1
        /\ b = <<b[1], b[2]>> /\ b[1] \in 0 .. KvHeads - 1 /\ b[2] \in 0 .. Limit - 1
    BY DEF IInv, TypeOK
  <2>3. Writes(a[1], a[2]) \subseteq Slot
    <3>1. CASE a[2] >= Active
      BY <3>1 DEF Writes
    <3>2. CASE ~(a[2] >= Active)
      <4>1. a[2] \in 0 .. Active - 1
        BY <2>1, <2>2, <3>2
      <4>2. \A c \in 0 .. Group - 1 : SlotOf(a[1] * Group + c, a[2]) \in Slot
        BY <2>1, <2>2, <4>1, HeadFact, SlotFact
      <4> QED BY <3>2, <4>2 DEF Writes
    <3> QED BY <3>1, <3>2
  <2>4. ASSUME NEW s \in Writes(a[1], a[2]), s \in Writes(b[1], b[2]) PROVE a = b
    <3>1. a[2] \in 0 .. Active - 1 /\ b[2] \in 0 .. Active - 1
      BY <2>1, <2>2, <2>4 DEF Writes
    <3>2. PICK c \in 0 .. Group - 1 : s = SlotOf(a[1] * Group + c, a[2])
      BY <2>4 DEF Writes
    <3>3. PICK d \in 0 .. Group - 1 : s = SlotOf(b[1] * Group + d, b[2])
      BY <2>4 DEF Writes
    <3>4. a[1] = b[1] /\ a[2] = b[2]
      BY <2>1, <2>2, <3>1, <3>2, <3>3, SlotUnique
    <3> QED BY <2>2, <3>4
  <2> QED BY <2>3, <2>4
<1> QED BY <1>1, Inductive, PTL
=============================================================================
