-------------------------- MODULE LanguageModelProofs --------------------------
(* Machine-checked proofs about LanguageModel, for every number of layers,    *)
(* capacity, token set, chunk size and bucket base.  First the host's side:   *)
(* the place in a call, the counters and the metadata.  Then the device state *)
(* follows the log: what the layers hold, the snapshot and the unit-failure   *)
(* flag, related to the tokens of the completed units; and the refinement.    *)
EXTENDS LanguageModel, SequenceTheorems, WellFoundedInduction, TLAPS

Busy == {"graph", "upload", "launch", "enqueue", "complete", "sink", "commit", "drain"}

\* The shape of a unit in progress: how the host's place in the call, the stream
\* counters, the call's own record and the metadata fit together.
Shape ==
    /\ busy <=> pc \in Busy
    /\ pc \in Busy => (poisoned <=> pc = "drain")
    /\ pc = "trace" => ~poisoned
    /\ pc \in {"idle", "trace"} => executed = enqueued /\ ~lost
    /\ executed <= enqueued
    /\ pc \in {"graph", "upload"} => enqueued = 0
    /\ pc = "launch" => enqueued = 1
    /\ pc = "enqueue" => enqueued >= 1 /\ enqueued < LastStep
    /\ pc \in {"complete", "sink", "commit"} => enqueued = LastStep
    /\ pc \in {"sink", "commit"} => executed = LastStep /\ ~lost

\* What a unit may rely on while it is pending.
Boundary ==
    pc \in Busy =>
        /\ unit.first + unit.offset = token_position
        /\ unit.offset < Len(unit.tokens)
        /\ unit.first + Len(unit.tokens) <= Capacity
        /\ LayersAt(token_position)

\* Layers below the traced one have taken the token in, the others have not.
TraceShape ==
    pc = "trace" =>
        /\ unit.first = token_position /\ Len(unit.tokens) = 1
        /\ unit.offset <= NumLayers
        /\ \A l \in GdnLayer : gdn_position[l] =
               IF l < unit.offset THEN token_position + 1 ELSE token_position
        /\ \A l \in AttnLayer : kv_populated[l] =
               IF l < unit.offset THEN token_position + 1 ELSE token_position

\* A replay's controls are those of its token as soon as the upload has executed,
\* and its graph holds the token's keys as soon as it has been prepared.
ReplayShape ==
    unit.kind = "replay" =>
        /\ pc \in Busy /\ Len(unit.tokens) = 1
        /\ executed >= 1 => controls = Pending
        /\ pc # "graph" => graph >= Position + 1

Core == TypeOK /\ Shape /\ Boundary /\ TraceShape

TInv == Core /\ ReplayShape
-----------------------------------------------------------------------------
(* Constants and small operators.                                            *)

LEMMA LayersFact == /\ NumLayers \in Nat /\ NumLayers >= 1
                    /\ LastStep \in Nat /\ LastStep >= 3
                    /\ GdnLayer \subseteq Layer /\ AttnLayer \subseteq Layer
                    /\ Layer \subseteq Nat
                    /\ AttnLayer \cap GdnLayer = {}
                    /\ AttnLayer \cup GdnLayer = Layer
BY LayersAssumption DEF LastStep, GdnLayer, AttnLayer, Layer

LEMMA AttnExists == AttentionPeriod - 1 \in AttnLayer
<1>1. AttentionPeriod \in Nat /\ AttentionPeriod >= 2
  BY LayersAssumption
<1>2. (AttentionPeriod - 1) % AttentionPeriod = AttentionPeriod - 1
  BY <1>1
<1>3. AttentionPeriod - 1 \in Layer
  BY <1>1, LayersAssumption DEF Layer
<1> QED BY <1>2, <1>3 DEF AttnLayer

LEMMA AdvanceFact == \A c, n \in Nat : Advance(c, n) \in 0 .. Taps - 1
BY DEF Advance, Taps

\* A nonempty set of natural numbers has a least element.
LEMMA LeastNat ==
  ASSUME NEW T, T \subseteq Nat, T # {}
  PROVE  \E x \in T : \A y \in T : x <= y
<1>1. \E x \in T : \A y \in T : ~ (<<y, x>> \in OpToRel(<, Nat))
  BY NatLessThanWellFounded, WFMin
<1>2. PICK x \in T : \A y \in T : ~ (<<y, x>> \in OpToRel(<, Nat))
  BY <1>1
<1>3. \A y \in T : ~ (y < x)
  BY <1>2 DEF OpToRel
<1> QED BY <1>3

\* The bucket of a length within the capacity holds it and is within the capacity.
LEMMA BucketFact ==
  ASSUME NEW p \in Nat, p <= Capacity
  PROVE  Bucket(p) \in 0 .. Capacity /\ p <= Bucket(p)
<1> DEFINE fits == {b \in 1 .. Capacity :
                       p <= b /\ \E k \in 0 .. Capacity : b = GraphBase * 2^k}
<1>1. Capacity \in Nat
  BY CapacityAssumption
<1>2. CASE fits = {}
  BY <1>1, <1>2 DEF Bucket
<1>3. CASE fits # {}
  <2>1. \E b \in fits : \A c \in fits : b <= c
    BY <1>3, LeastNat, fits \subseteq Nat
  <2>2. Bucket(p) = CHOOSE b \in fits : \A c \in fits : b <= c
    BY <1>3 DEF Bucket
  <2>3. Bucket(p) \in fits
    BY <2>1, <2>2
  <2> QED BY <1>1, <2>3
<1> QED BY <1>2, <1>3

LEMMA SliceFact ==
  ASSUME NEW S, NEW s \in Seq(S), NEW m \in Nat, NEW n \in Nat, m + n <= Len(s)
  PROVE  SubSeq(s, m + 1, m + n) \in Seq(S) /\ Len(SubSeq(s, m + 1, m + n)) = n
<1>1. \A i \in m + 1 .. m + n : s[i] \in S
  BY ElementOfSeq, LenProperties
<1>2. m + 1 \in Int /\ m + n \in Int
  OBVIOUS
<1>3. /\ SubSeq(s, m + 1, m + n) \in Seq(S)
      /\ Len(SubSeq(s, m + 1, m + n)) =
             IF m + 1 <= m + n THEN (m + n) - (m + 1) + 1 ELSE 0
  BY <1>1, <1>2, SubSeqProperties
<1> QED BY <1>3

\* The current chunk of a unit of work is a nonempty sequence of tokens.
LEMMA ChunkFact ==
  ASSUME unit \in UnitType, unit.offset < Len(unit.tokens)
  PROVE  /\ Count \in Nat /\ Count >= 1
         /\ unit.offset + Count <= Len(unit.tokens)
         /\ Chunk \in Seq(Token) /\ Len(Chunk) = Count
         /\ unit.offset \in Nat /\ unit.first \in Nat /\ Position \in Nat
         /\ unit.tokens \in Seq(Token) /\ Len(unit.tokens) \in Nat
<1>1. unit.tokens \in Seq(Token) /\ unit.offset \in Nat /\ unit.first \in Nat
  BY DEF UnitType
<1>2. Len(unit.tokens) \in Nat
  BY <1>1, LenProperties
<1>3. Count \in Nat /\ Count >= 1 /\ unit.offset + Count <= Len(unit.tokens)
  BY <1>1, <1>2, UnitAssumption DEF Count, Smaller
<1>4. Chunk \in Seq(Token) /\ Len(Chunk) = Count
  BY <1>1, <1>2, <1>3, SliceFact DEF Chunk
<1> QED BY <1>1, <1>2, <1>3, <1>4 DEF Position

\* What a recurrent layer absorbs stays a sequence of words.
LEMMA AbsorbFact ==
  ASSUME NEW s \in Seq(Word), NEW ok \in BOOLEAN, NEW chunk \in Seq(Token)
  PROVE  /\ Absorb(s, ok, chunk) \in Seq(Word)
         /\ ok => Absorb(s, ok, chunk) = s \o chunk
<1> DEFINE words == [i \in 1 .. Len(chunk) |-> IF ok THEN chunk[i] ELSE Corrupt]
<1>1. Len(chunk) \in Nat /\ chunk \in [1 .. Len(chunk) -> Token]
  BY LenProperties
<1>2. words \in [1 .. Len(chunk) -> Word]
  BY <1>1 DEF Word
<1>3. words \in Seq(Word)
  BY <1>1, <1>2, SeqDef
<1>4. s \o words \in Seq(Word)
  BY <1>3, ConcatProperties
<1>5. ASSUME ok PROVE words = chunk
  BY <1>1, <1>5
<1> QED BY <1>4, <1>5 DEF Absorb

DeviceType == /\ gdn_s \in [GdnLayer -> Seq(Word)]
              /\ conv_history \in [GdnLayer -> Seq(Word)]
              /\ kv \in [AttnLayer -> [0 .. Capacity - 1 -> Word]]

LEMMA WrittenFact ==
  ASSUME NEW row \in [0 .. Capacity - 1 -> Word], NEW position \in Nat,
         NEW chunk \in Seq(Token)
  PROVE  Written(row, position, chunk) \in [0 .. Capacity - 1 -> Word]
<1>1. Len(chunk) \in Nat /\ \A i \in 1 .. Len(chunk) : chunk[i] \in Word
  BY LenProperties, ElementOfSeq DEF Word
<1>2. ASSUME NEW i \in 0 .. Capacity - 1, i >= position, i < position + Len(chunk)
      PROVE  chunk[i - position + 1] \in Word
  <2>1. i - position + 1 \in 1 .. Len(chunk)
    BY <1>1, <1>2, CapacityAssumption
  <2> QED BY <1>1, <2>1
<1> QED BY <1>2 DEF Written

LEMMA ExecuteLayerType ==
  ASSUME DeviceType, NEW l \in Layer, NEW c, NEW position \in Nat,
         NEW chunk \in Seq(Token), ExecuteLayer(l, c, position, chunk)
  PROVE  DeviceType'
<1>1. CASE l \in GdnLayer
  <2>1. InPhase(l, c) \in BOOLEAN
    BY DEF InPhase
  <2>2. /\ Absorb(gdn_s[l], InPhase(l, c), chunk) \in Seq(Word)
        /\ Absorb(conv_history[l], InPhase(l, c), chunk) \in Seq(Word)
    BY <1>1, <2>1, AbsorbFact DEF DeviceType
  <2>3. /\ gdn_s' = [gdn_s EXCEPT ![l] = Absorb(gdn_s[l], InPhase(l, c), chunk)]
        /\ conv_history' = [conv_history EXCEPT
                              ![l] = Absorb(conv_history[l], InPhase(l, c), chunk)]
        /\ kv' = kv
    BY <1>1 DEF ExecuteLayer
  <2> QED BY <1>1, <2>2, <2>3 DEF DeviceType
<1>2. CASE l \notin GdnLayer
  <2>1. l \in AttnLayer
    BY <1>2, LayersFact
  <2>2. Written(kv[l], position, chunk) \in [0 .. Capacity - 1 -> Word]
    BY <2>1, WrittenFact DEF DeviceType
  <2>3. /\ kv' = [kv EXCEPT ![l] = Written(kv[l], position, chunk)]
        /\ gdn_s' = gdn_s /\ conv_history' = conv_history
    BY <1>2 DEF ExecuteLayer
  <2> QED BY <2>1, <2>2, <2>3 DEF DeviceType
<1> QED BY <1>1, <1>2

LEMMA ZeroType == /\ NoTokens \in [GdnLayer -> Seq(Word)]
                  /\ NoKeys \in [AttnLayer -> [0 .. Capacity - 1 -> Word]]
                  /\ GdnZero \in [GdnLayer -> 0 .. Taps - 1]
                  /\ AttnZero \in [AttnLayer -> 0 .. Capacity]
                  /\ GdnZero \in [GdnLayer -> Nat]
                  /\ <<>> \in Seq(Token) /\ 0 \in 0 .. Capacity
<1>1. <<>> \in Seq(Word) /\ <<>> \in Seq(Token)
  BY EmptySeq
<1>2. Empty \in Word
  BY DEF Word
<1> QED BY <1>1, <1>2, CapacityAssumption
        DEF NoTokens, NoKeys, GdnZero, AttnZero, Taps

LEMMA ReplaceRegionsType ==
  ASSUME DeviceType, NEW done, NEW s \in [GdnLayer -> Seq(Word)],
         NEW h \in [GdnLayer -> Seq(Word)],
         NEW k \in [AttnLayer -> [0 .. Capacity - 1 -> Word]],
         ReplaceRegions(done, s, h, k)
  PROVE  DeviceType'
BY DEF ReplaceRegions, DeviceType

-----------------------------------------------------------------------------
(* Type correctness.                                                         *)

LEMMA InitTInv == Init => TInv
<1> SUFFICES ASSUME Init PROVE TInv
  OBVIOUS
<1>1. NoUnit \in UnitType
  BY ZeroType DEF NoUnit, UnitType
<1>2. TypeOK
  <2>1. SessionTypeOK
    BY ZeroType DEF Init, SessionInit, SessionTypeOK
  <2>2. 0 \in 0 .. LastStep
    BY LayersFact
  <2> QED BY <1>1, <2>1, <2>2, ZeroType DEF Init, TypeOK
<1>3. Shape /\ Boundary /\ TraceShape /\ ReplayShape
  BY DEF Init, SessionInit, Shape, Boundary, TraceShape, ReplayShape, Busy, NoUnit
<1> QED BY <1>2, <1>3 DEF TInv, Core

\* The chunk and its parameters are those of the unit.
LEMMA SameUnit ==
  ASSUME unit'.first = unit.first, unit'.offset = unit.offset,
         unit'.tokens = unit.tokens, unit'.cursor = unit.cursor
  PROVE  /\ Position' = Position /\ Count' = Count /\ Chunk' = Chunk
         /\ Pending' = Pending /\ IsLastChunk' = IsLastChunk
<1>1. Position' = Position /\ Count' = Count
  BY DEF Position, Count
<1>2. Chunk' = Chunk /\ IsLastChunk' = IsLastChunk
  BY <1>1 DEF Chunk, IsLastChunk
<1> QED BY <1>1, <1>2 DEF Pending

\* A step of the host thread that leaves the session alone.
LEMMA QuietStep ==
  ASSUME TInv,
         \/ ReuseGraph \/ BuildGraph \/ UploadControls \/ LaunchGraph \/ EnqueueStep
         \/ CompleteUnit \/ SinkReturns \/ DeviceFault \/ TraceAbandoned
  PROVE  Core'
<1> USE LayersFact DEF TInv, Core, TypeOK, Shape, Boundary, TraceShape, Busy, sessionVars,
        metadata, device, planVars, failVars, SessionTypeOK, LayersAt
<1>1. CASE ReuseGraph
  BY <1>1 DEF ReuseGraph
<1>2. CASE BuildGraph
  <2>1. Position \in Nat /\ Position + 1 <= Capacity
    <3>1. unit.tokens \in Seq(Token) /\ unit.offset \in Nat /\ unit.first \in Nat
      BY DEF UnitType
    <3>2. Len(unit.tokens) \in Nat
      BY <3>1, LenProperties
    <3>3. /\ unit.offset < Len(unit.tokens)
          /\ unit.first + Len(unit.tokens) <= Capacity
      BY <1>2 DEF BuildGraph
    <3> QED BY <3>1, <3>2, <3>3, CapacityAssumption DEF Position
  <2>2. Bucket(Position + 1) \in 0 .. Capacity
    BY <2>1, BucketFact
  <2> QED BY <1>2, <2>2 DEF BuildGraph
<1>3. CASE UploadControls
  BY <1>3 DEF UploadControls
<1>4. CASE LaunchGraph
  BY <1>4 DEF LaunchGraph
<1>5. CASE EnqueueStep
  BY <1>5 DEF EnqueueStep
<1>6. CASE CompleteUnit
  BY <1>6 DEF CompleteUnit, Drained
<1>7. CASE SinkReturns
  <2>1. unit.rows \in SUBSET Nat
    BY DEF UnitType
  <2>2. unit' = [unit EXCEPT !.rows = unit.rows \ {NextRow}]
    BY <1>7 DEF SinkReturns
  <2>3. /\ unit' \in UnitType
        /\ unit'.first = unit.first /\ unit'.offset = unit.offset
        /\ unit'.tokens = unit.tokens
    BY <2>1, <2>2 DEF UnitType
  <2>4. pc = "sink" /\ pc' \in {"complete", "commit"}
    BY <1>7 DEF SinkReturns
  <2> QED BY <1>7, <2>3, <2>4 DEF SinkReturns
<1>8. CASE DeviceFault
  BY <1>8 DEF DeviceFault, DeviceMayRun
<1>9. CASE TraceAbandoned
  <2>1. NoUnit \in UnitType
    BY ZeroType DEF NoUnit, UnitType
  <2> QED BY <1>9, <2>1 DEF TraceAbandoned, EndTrace
<1> QED BY <1>1, <1>2, <1>3, <1>4, <1>5, <1>6, <1>7, <1>8, <1>9

\* A unit begins, at a boundary it may rely on until it ends.
LEMMA BeginStep ==
  ASSUME TInv, NEW kind \in {"decode", "replay", "prefill"},
         NEW tokens \in Seq(Token), NEW rows \in SUBSET Nat,
         NEW first, NEW next,
         \/ first = 0 /\ next = "graph"
         \/ first = 1 /\ next = "enqueue",
         Begin(kind, tokens, rows, first, next)
  PROVE  Core'
<1> USE LayersFact DEF TInv, Core, TypeOK, sessionVars, metadata, device, planVars, failVars,
        SessionTypeOK
<1>1. /\ Len(tokens) \in Nat /\ Len(tokens) > 0
      /\ token_position + Len(tokens) <= Capacity
      /\ LayersAt(token_position) /\ ~poisoned
      /\ token_position \in Nat
  BY LenProperties, CapacityAssumption DEF Begin, Accepts
<1>2. /\ unit' = [kind |-> kind, tokens |-> tokens, first |-> token_position,
                  offset |-> 0, cursor |-> conv_cursor, rows |-> rows]
      /\ unit' \in UnitType
  BY <1>1 DEF Begin, UnitType
<1>3. TypeOK'
  <2>1. SessionTypeOK'
    BY DEF Begin
  <2>2. pc' \in {"graph", "enqueue"} /\ enqueued' \in 0 .. LastStep /\ executed' = enqueued'
    BY DEF Begin
  <2>3. (unit \in UnitType)'
    BY <1>2
  <2> QED BY <2>1, <2>2, <2>3 DEF Begin
<1>4. Shape'
  BY <1>1 DEF Begin, Shape, Busy
<1>5. Boundary' /\ TraceShape'
  BY <1>1, <1>2 DEF Begin, Boundary, TraceShape, Busy, LayersAt
<1> QED BY <1>3, <1>4, <1>5

\* A unit fails, is drained, or falls back to eager execution.
LEMMA FailStep ==
  ASSUME TInv, EnqueueFails \/ CompleteFails \/ SinkFails \/ Drain \/ GraphFails
  PROVE  Core'
<1> USE LayersFact DEF TInv, Core, TypeOK, Shape, Boundary, TraceShape, Busy, sessionVars,
        metadata, device, planVars, failVars, SessionTypeOK, LayersAt
<1>1. CASE EnqueueFails
  BY <1>1 DEF EnqueueFails, FailUnit
<1>2. CASE CompleteFails
  BY <1>2 DEF CompleteFails, FailUnit
<1>3. CASE SinkFails
  BY <1>3 DEF SinkFails, FailUnit
<1>4. CASE Drain
  <2>1. NoUnit \in UnitType
    BY ZeroType DEF NoUnit, UnitType
  <2>2. executed' = enqueued' /\ ~lost' /\ executed' \in 0 .. LastStep
    BY <1>4 DEF Drain, Drained
  <2>3. (unit \in UnitType)' /\ enqueued' \in 0 .. LastStep /\ pc' = "idle"
    BY <1>4, <2>1 DEF Drain
  <2>4. SessionTypeOK'
    BY <1>4 DEF Drain
  <2>5. TypeOK'
    BY <1>4, <2>2, <2>3, <2>4 DEF Drain
  <2>6. Shape' /\ Boundary' /\ TraceShape'
    BY <1>4, <2>2, <2>3 DEF Drain
  <2> QED BY <2>5, <2>6
<1>5. CASE GraphFails
  <2>1. unit' = [unit EXCEPT !.kind = "decode"]
    BY <1>5 DEF GraphFails
  <2>2. /\ unit' \in UnitType
        /\ unit'.first = unit.first /\ unit'.offset = unit.offset
        /\ unit'.tokens = unit.tokens
    BY <2>1 DEF UnitType
  <2>3. /\ pc' = "enqueue" /\ poisoned' = FALSE /\ graph' \in 0 .. Capacity
        /\ enqueued' = 1 /\ executed' = 1 /\ pc = "graph"
    BY <1>5, CapacityAssumption DEF GraphFails
  <2>4. SessionTypeOK'
    BY <1>5 DEF GraphFails
  <2>5. TypeOK'
    BY <1>5, <2>2, <2>3, <2>4 DEF GraphFails
  <2>6. Shape' /\ Boundary' /\ TraceShape'
    BY <1>5, <2>2, <2>3 DEF GraphFails
  <2> QED BY <2>5, <2>6
<1> QED BY <1>1, <1>2, <1>3, <1>4, <1>5

\* The device executes a step.
LEMMA DeviceStepCore ==
  ASSUME TInv, DeviceStep
  PROVE  Core'
<1> USE LayersFact DEF TInv, Core, TypeOK, Shape, Boundary, TraceShape, Busy, sessionVars,
        metadata, planVars, failVars, LayersAt
<1>1. pc \in Busy
  BY DEF DeviceStep, ExecuteUpload, ExecuteInput, Execute, DeviceMayRun
<1>2. /\ Chunk \in Seq(Token) /\ Position \in Nat
      /\ unit.cursor \in [GdnLayer -> 0 .. Taps - 1]
      /\ unit.offset \in Nat
  BY <1>1, ChunkFact DEF UnitType
<1>3. Pending \in ControlType
  <2>1. \A l \in GdnLayer : Advance(unit.cursor[l], unit.offset % Taps) \in 0 .. Taps - 1
    BY <1>2, AdvanceFact DEF Taps
  <2> QED BY <1>2, <2>1 DEF Pending, ControlType
<1>4. CASE ExecuteUpload
  BY <1>1, <1>3, <1>4 DEF ExecuteUpload, DeviceMayRun, device, SessionTypeOK
<1>5. CASE ExecuteInput
  <2>1. executed' = 2 /\ executed' <= enqueued' /\ pc' = pc /\ unit' = unit
    BY <1>5 DEF ExecuteInput, DeviceMayRun
  <2>2. SessionTypeOK'
    BY <1>5 DEF ExecuteInput, device, SessionTypeOK
  <2>3. TypeOK'
    <3>1. (controls \in ControlType \cup {NoControls})' /\ (unit \in UnitType)'
      BY <1>5 DEF ExecuteInput
    <3>2. unit_failure' \in BOOLEAN /\ tainted' = tainted
      BY <1>5 DEF ExecuteInput
    <3>9. executed' \in 0 .. LastStep
      BY <2>1
    <3>3. /\ pc' = pc /\ enqueued' = enqueued /\ lost' = lost /\ graph' = graph
          /\ graph_failure' = graph_failure
      BY <1>5 DEF ExecuteInput
    <3> HIDE DEF TInv, Core, Shape, Boundary, TraceShape
    <3>4. TypeOK
      BY DEF TInv, Core
    <3> QED BY <2>2, <3>1, <3>2, <3>3, <3>4, <3>9
  <2>4. Shape' /\ Boundary' /\ TraceShape'
    BY <1>1, <1>5, <2>1 DEF ExecuteInput, device
  <2> QED BY <2>3, <2>4
<1>6. ASSUME NEW l \in Layer, Execute(l) PROVE Core'
  <2>1. executed' = executed + 1 /\ executed < enqueued /\ executed = 2 + l
    BY <1>6 DEF Execute, DeviceMayRun
  <2>2. LaunchedWith.position \in Nat /\ LaunchedWith.tokens \in Seq(Token)
    BY <1>1, <1>2, <1>3, <2>1 DEF LaunchedWith, ReplayShape, Pending
  <2>3. DeviceType'
    BY <1>6, <2>2, ExecuteLayerType DEF Execute, DeviceType, SessionTypeOK
  <2>4. SessionTypeOK'
    BY <1>6, <2>3 DEF Execute, DeviceType, SessionTypeOK
  <2>5. unit_failure' \in BOOLEAN /\ tainted' \in BOOLEAN
    BY <1>6 DEF Execute
  <2>6. TypeOK'
    BY <1>6, <2>1, <2>4, <2>5 DEF Execute
  <2>7. Shape' /\ Boundary' /\ TraceShape'
    BY <1>1, <1>6, <2>1 DEF Execute
  <2> QED BY <2>6, <2>7
<1> QED BY <1>4, <1>5, <1>6 DEF DeviceStep

\* The session's own operations, shutdown and the overrides: between units only.
LEMMA CallStep ==
  ASSUME TInv, CallSession \/ CallShutdown \/ CallOverride
  PROVE  Core'
<1> USE DEF TInv, Core, TypeOK
<1>1. /\ pc = "idle" /\ pc' = pc /\ unit' = unit /\ enqueued' = enqueued
      /\ executed' = executed /\ lost' = lost /\ graph' = graph
      /\ graph_failure' = graph_failure /\ controls' = controls
      /\ unit_failure' = unit_failure /\ tainted' = tainted /\ busy' = busy
  BY DEF CallSession, CallShutdown, CallOverride, HostMayCall, SessionOps, Shape, Busy,
         unitVars, planVars, failVars, ResetSucceeds, ResetFails, SaveSucceeds, SaveFails,
         RestoreSucceeds, RestoreFails, Shutdown, SetPopulated, SetConvCursor
<1>2. Shape' /\ Boundary' /\ TraceShape'
  BY <1>1 DEF Shape, Boundary, TraceShape, Busy
<1>3. SessionTypeOK'
  <2> USE DEF metadata, device, SessionTypeOK
  <2>1. CASE CallSession /\ (ResetSucceeds \/ ResetFails)
    <3>1. DeviceType'
      BY <2>1, ZeroType, ReplaceRegionsType DEF ResetSucceeds, ResetFails, DeviceType
    <3> QED BY <2>1, <3>1, ZeroType DEF ResetSucceeds, ResetFails, DeviceType
  <2>2. CASE CallSession /\ (SaveSucceeds \/ SaveFails)
    <3>1. Snapshot \in SnapshotType
      BY DEF Snapshot, SnapshotType
    <3> QED BY <2>2, <3>1 DEF SaveSucceeds, SaveFails
  <2>3. CASE CallSession /\ (RestoreSucceeds \/ RestoreFails)
    <3>1. saved \in SnapshotType
      BY <2>3 DEF RestoreSucceeds, RestoreFails, Restorable
    <3>2. /\ saved.gdn_s \in [GdnLayer -> Seq(Word)]
          /\ saved.conv_history \in [GdnLayer -> Seq(Word)]
          /\ saved.kv \in [AttnLayer -> [0 .. Capacity - 1 -> Word]]
          /\ saved.conv_cursor \in [GdnLayer -> 0 .. Taps - 1]
          /\ saved.gdn_position \in [GdnLayer -> Nat]
          /\ saved.kv_populated \in [AttnLayer -> 0 .. Capacity]
          /\ saved.token_position \in 0 .. Capacity
          /\ saved.log \in Seq(Token) /\ saved.foreign \in BOOLEAN
      BY <3>1 DEF SnapshotType
    <3>3. DeviceType'
      BY <2>3, <3>2, ReplaceRegionsType DEF RestoreSucceeds, RestoreFails, DeviceType
    <3> QED BY <2>3, <3>2, <3>3 DEF RestoreSucceeds, RestoreFails, DeviceType
  <2>4. CASE CallShutdown
    BY <2>4 DEF CallShutdown, Shutdown
  <2>5. CASE CallOverride
    <3>1. ASSUME NEW l \in AttnLayer, NEW n \in 0 .. Capacity + 1, SetPopulated(l, n)
          PROVE  SessionTypeOK'
      <4>1. n \in 0 .. Capacity
        BY <3>1, CapacityAssumption DEF SetPopulated
      <4> QED BY <3>1, <4>1 DEF SetPopulated
    <3>2. ASSUME NEW cursors \in [GdnLayer -> 0 .. Taps], SetConvCursor(cursors)
          PROVE  SessionTypeOK'
      <4>1. cursors \in [GdnLayer -> 0 .. Taps - 1]
        BY <3>2 DEF SetConvCursor, Taps
      <4> QED BY <3>2, <4>1 DEF SetConvCursor
    <3> QED BY <2>5, <3>1, <3>2 DEF CallOverride
  <2> QED BY <2>1, <2>2, <2>3, <2>4, <2>5 DEF CallSession, SessionOps
<1> QED BY <1>1, <1>2, <1>3

\* A chunk commits: the next one starts at the boundary the last one reached.
LEMMA CommitStep ==
  ASSUME TInv, Commit
  PROVE  Core'
<1> USE LayersFact DEF TInv, Core, TypeOK
<1>1. /\ pc = "commit" /\ pc \in Busy /\ ~poisoned
      /\ unit.first + unit.offset = token_position
      /\ unit.offset < Len(unit.tokens)
      /\ unit.first + Len(unit.tokens) <= Capacity
      /\ LayersAt(token_position)
  BY DEF Commit, Shape, Boundary, Busy
<1>2. /\ Count \in Nat /\ Count >= 1
      /\ unit.offset + Count <= Len(unit.tokens)
      /\ Chunk \in Seq(Token) /\ unit.offset \in Nat /\ unit.first \in Nat
      /\ Len(unit.tokens) \in Nat
  BY <1>1, ChunkFact
<1>3. token_position \in Nat /\ Capacity \in Nat /\ token_position + Count <= Capacity
  BY <1>1, <1>2, CapacityAssumption DEF SessionTypeOK
<1>4. /\ token_position' = token_position + Count
      /\ gdn_position' = [l \in GdnLayer |-> gdn_position[l] + Count]
      /\ kv_populated' = [l \in AttnLayer |-> kv_populated[l] + Count]
      /\ conv_cursor' = [l \in GdnLayer |-> Advance(conv_cursor[l], Count)]
  BY DEF Commit, CommitUnit
<1>5. conv_cursor' \in [GdnLayer -> 0 .. Taps - 1]
  <2>1. \A l \in GdnLayer : conv_cursor[l] \in Nat
    BY DEF SessionTypeOK, Taps
  <2> QED BY <1>2, <1>4, <2>1, AdvanceFact
<1>6. LayersAt(token_position)'
  BY <1>1, <1>4 DEF LayersAt
<1>7. /\ gdn_position' \in [GdnLayer -> Nat]
      /\ kv_populated' \in [AttnLayer -> 0 .. Capacity]
      /\ token_position' \in 0 .. Capacity
  BY <1>1, <1>2, <1>3, <1>4 DEF LayersAt
<1>8. SessionTypeOK'
  <2>1. log' \in Seq(Token)
    BY <1>2, ConcatProperties DEF Commit, SessionTypeOK
  <2>2. busy' \in BOOLEAN
    BY DEF Commit, SessionTypeOK
  <2> QED BY <1>5, <1>7, <2>1, <2>2 DEF Commit, SessionTypeOK, device
<1>9. CASE IsLastChunk
  <2>1. NoUnit \in UnitType
    BY ZeroType DEF NoUnit, UnitType
  <2>2. /\ pc' = "idle" /\ busy' = FALSE /\ unit' = NoUnit
        /\ enqueued' = enqueued /\ executed' = executed
    BY <1>9 DEF Commit
  <2>3. TypeOK'
    BY <1>8, <2>1, <2>2 DEF Commit, planVars
  <2>4. Shape' /\ Boundary' /\ TraceShape'
    BY <2>2 DEF Commit, Shape, Boundary, TraceShape, Busy
  <2> QED BY <2>3, <2>4
<1>10. CASE ~IsLastChunk
  <2>1. /\ pc' = "enqueue" /\ busy' = busy
        /\ unit' = [unit EXCEPT !.offset = unit.offset + Count]
        /\ enqueued' = 1 /\ executed' = 1
    BY <1>10 DEF Commit
  <2>2. /\ (unit \in UnitType)' /\ unit'.offset = unit.offset + Count
        /\ unit'.first = unit.first /\ unit'.tokens = unit.tokens
    <3>1. unit.offset + Count \in Nat /\ unit \in UnitType
      BY <1>2
    <3> HIDE DEF Count, TypeOK
    <3> QED BY <2>1, <3>1 DEF UnitType
  <2>3. TypeOK'
    <3>1. 1 \in 0 .. LastStep
      OBVIOUS
    <3> QED BY <1>8, <2>1, <2>2, <3>1 DEF Commit, planVars
  <2>4. Shape'
    BY <1>1, <2>1 DEF Commit, Shape, Busy
  <2>5. Boundary' /\ TraceShape'
    <3>1. unit.offset + Count < Len(unit.tokens)
      BY <1>2, <1>10 DEF IsLastChunk
    <3>2. unit.first + (unit.offset + Count) = token_position + Count
      BY <1>1, <1>2, <1>3
    <3> QED BY <1>1, <1>4, <1>6, <2>1, <2>2, <3>1, <3>2 DEF Boundary, TraceShape
  <2> QED BY <2>3, <2>4, <2>5
<1> QED BY <1>9, <1>10

\* The traced layer runs and commits its own counter.
LEMMA TracedLayerFact ==
  ASSUME TInv, RunTracedLayer
  PROVE  /\ unit.offset \in Layer /\ unit \in UnitType
         /\ DeviceType'
         /\ conv_cursor' \in [GdnLayer -> 0 .. Taps - 1]
         /\ gdn_position' \in [GdnLayer -> Nat]
         /\ kv_populated' \in [AttnLayer -> 0 .. Capacity]
         /\ log' \in Seq(Token)
         /\ \A l \in GdnLayer : gdn_position'[l] =
                IF l < unit.offset + 1 THEN token_position + 1 ELSE token_position
         /\ \A l \in AttnLayer : kv_populated'[l] =
                IF l < unit.offset + 1 THEN token_position + 1 ELSE token_position
<1> USE LayersFact DEF TInv, Core, TypeOK
<1>1. /\ pc = "trace" /\ unit.offset < NumLayers /\ unit \in UnitType
      /\ LayerAccepts(unit.offset, unit.first)
      /\ CommitLayer(unit.offset, unit.first)
      /\ ExecuteLayer(unit.offset, IF unit.offset \in GdnLayer
                                   THEN conv_cursor[unit.offset] ELSE 0,
                      unit.first, unit.tokens)
      /\ log' = IF unit.offset = 0 THEN log \o unit.tokens ELSE log
  BY DEF RunTracedLayer, TracedLayer
<1>2. unit.offset \in Nat /\ unit.first \in Nat /\ unit.tokens \in Seq(Token)
  BY DEF UnitType
<1>3. unit.offset \in Layer
  BY <1>1, <1>2 DEF Layer
<1>4. DeviceType'
  BY <1>1, <1>2, <1>3, ExecuteLayerType DEF DeviceType, SessionTypeOK
<1>5. log' \in Seq(Token)
  BY <1>1, <1>2, ConcatProperties DEF SessionTypeOK
<1>6. /\ unit.first = token_position
      /\ \A l \in GdnLayer : gdn_position[l] =
             IF l < unit.offset THEN token_position + 1 ELSE token_position
      /\ \A l \in AttnLayer : kv_populated[l] =
             IF l < unit.offset THEN token_position + 1 ELSE token_position
  BY <1>1 DEF TraceShape
<1>7. \A l \in Layer : l \in Nat /\ (l < unit.offset + 1 <=> l < unit.offset \/ l = unit.offset)
  BY <1>2
<1>8. CASE unit.offset \in GdnLayer
  <2>1. /\ gdn_position' = [gdn_position EXCEPT ![unit.offset] = unit.first + 1]
        /\ conv_cursor' = [conv_cursor EXCEPT
                              ![unit.offset] = Advance(conv_cursor[unit.offset], 1)]
        /\ kv_populated' = kv_populated /\ unit.offset \notin AttnLayer
    BY <1>1, <1>8 DEF CommitLayer
  <2>2. /\ gdn_position \in [GdnLayer -> Nat]
        /\ conv_cursor \in [GdnLayer -> 0 .. Taps - 1]
        /\ kv_populated \in [AttnLayer -> 0 .. Capacity]
    BY DEF SessionTypeOK
  <2>3. Advance(conv_cursor[unit.offset], 1) \in 0 .. Taps - 1
    <3>1. conv_cursor[unit.offset] \in 0 .. Taps - 1
      BY <1>8, <2>2
    <3>2. conv_cursor[unit.offset] \in Nat /\ 1 \in Nat
      BY <3>1 DEF Taps
    <3> QED BY <3>2, AdvanceFact
  <2>4. /\ conv_cursor' \in [GdnLayer -> 0 .. Taps - 1]
        /\ gdn_position' \in [GdnLayer -> Nat]
        /\ kv_populated' \in [AttnLayer -> 0 .. Capacity]
    <3>1. unit.first + 1 \in Nat
      BY <1>2
    <3>2. conv_cursor' \in [GdnLayer -> 0 .. Taps - 1]
      BY <2>1, <2>2, <2>3
    <3>3. gdn_position' \in [GdnLayer -> Nat]
      BY <2>1, <2>2, <3>1
    <3> QED BY <2>1, <2>2, <3>2, <3>3
  <2>5. \A l \in GdnLayer : gdn_position'[l] =
            IF l < unit.offset + 1 THEN token_position + 1 ELSE token_position
    BY <1>6, <1>7, <1>8, <2>1, <2>2
  <2>6. \A l \in AttnLayer : kv_populated'[l] =
            IF l < unit.offset + 1 THEN token_position + 1 ELSE token_position
    BY <1>6, <1>7, <2>1
  <2> QED BY <1>1, <1>3, <1>4, <1>5, <2>4, <2>5, <2>6
<1>9. CASE unit.offset \notin GdnLayer
  <2>1. /\ kv_populated' = [kv_populated EXCEPT ![unit.offset] = unit.first + 1]
        /\ conv_cursor' = conv_cursor /\ gdn_position' = gdn_position
        /\ unit.offset \in AttnLayer /\ unit.first < Capacity
    BY <1>1, <1>3, <1>9 DEF CommitLayer, LayerAccepts
  <2>2. /\ gdn_position \in [GdnLayer -> Nat]
        /\ conv_cursor \in [GdnLayer -> 0 .. Taps - 1]
        /\ kv_populated \in [AttnLayer -> 0 .. Capacity]
    BY DEF SessionTypeOK
  <2>3. unit.first + 1 \in 0 .. Capacity
    BY <1>2, <2>1, CapacityAssumption
  <2>4. kv_populated' \in [AttnLayer -> 0 .. Capacity]
    BY <2>1, <2>2, <2>3
  <2>5. \A l \in GdnLayer : gdn_position'[l] =
            IF l < unit.offset + 1 THEN token_position + 1 ELSE token_position
    BY <1>6, <1>7, <1>9, <2>1
  <2>6. \A l \in AttnLayer : kv_populated'[l] =
            IF l < unit.offset + 1 THEN token_position + 1 ELSE token_position
    BY <1>6, <1>7, <2>1, <2>2
  <2> QED BY <1>1, <1>3, <1>4, <1>5, <2>1, <2>2, <2>4, <2>5, <2>6
<1> QED BY <1>8, <1>9

\* The trace driver's own steps.
LEMMA TraceStep ==
  ASSUME TInv, Trace
  PROVE  Core'
<1> USE LayersFact DEF TInv, Core, TypeOK
<1>0. (NoUnit \in UnitType) /\ unit \in UnitType
  BY ZeroType DEF NoUnit, UnitType
<1>1. ASSUME NEW t \in Token, BeginTrace(t) PROVE Core'
  <2>1. /\ pc = "idle" /\ ~poisoned /\ LayersAt(token_position)
        /\ unit' = [kind |-> "trace", tokens |-> <<t>>, first |-> token_position,
                    offset |-> 0, cursor |-> conv_cursor, rows |-> {}]
        /\ pc' = "trace"
    BY <1>1 DEF BeginTrace
  <2>2. <<t>> \in Seq(Token) /\ Len(<<t>>) = 1
    OBVIOUS
  <2>3. (unit \in UnitType)'
    BY <2>1, <2>2, CapacityAssumption DEF UnitType, SessionTypeOK
  <2>4. SessionTypeOK'
    BY <1>1 DEF BeginTrace, sessionVars, metadata, device, SessionTypeOK
  <2>5. TypeOK'
    BY <1>1, <2>1, <2>3, <2>4 DEF BeginTrace, planVars, failVars
  <2>6. Shape' /\ Boundary'
    BY <1>1, <2>1 DEF BeginTrace, Shape, Boundary, Busy, sessionVars
  <2>7. TraceShape'
    BY <1>1, <2>1, <2>2 DEF BeginTrace, TraceShape, LayersAt, sessionVars, metadata
  <2> QED BY <2>5, <2>6, <2>7
<1>2. CASE TraceLayer
  <2>1. /\ unit.offset \in Layer
        /\ DeviceType'
        /\ conv_cursor' \in [GdnLayer -> 0 .. Taps - 1]
        /\ gdn_position' \in [GdnLayer -> Nat]
        /\ kv_populated' \in [AttnLayer -> 0 .. Capacity]
        /\ log' \in Seq(Token)
        /\ \A l \in GdnLayer : gdn_position'[l] =
               IF l < unit.offset + 1 THEN token_position + 1 ELSE token_position
        /\ \A l \in AttnLayer : kv_populated'[l] =
               IF l < unit.offset + 1 THEN token_position + 1 ELSE token_position
    BY <1>2, TracedLayerFact DEF TraceLayer
  <2>2. /\ unit' = [unit EXCEPT !.offset = unit.offset + 1]
        /\ pc = "trace" /\ pc' = "trace"
    BY <1>2 DEF TraceLayer, RunTracedLayer
  <2>3. /\ (unit \in UnitType)' /\ unit'.offset = unit.offset + 1
        /\ unit'.first = unit.first /\ unit'.tokens = unit.tokens
        /\ unit.offset + 1 \in Nat /\ unit.offset + 1 <= NumLayers
    <3>1. unit.offset + 1 \in Nat /\ unit.offset + 1 <= NumLayers
      BY <2>1 DEF Layer
    <3> HIDE DEF TInv, Core, TypeOK
    <3> QED BY <1>0, <2>2, <3>1 DEF UnitType
  <2>4. SessionTypeOK'
    BY <1>2, <2>1 DEF TraceLayer, DeviceType, SessionTypeOK
  <2>5. TypeOK'
    BY <1>2, <2>3, <2>4 DEF TraceLayer, planVars, failVars
  <2>6. Shape' /\ Boundary'
    BY <1>2, <2>2 DEF TraceLayer, Shape, Boundary, Busy
  <2>7. TraceShape'
    BY <1>2, <2>1, <2>2, <2>3 DEF TraceLayer, TraceShape
  <2> QED BY <2>5, <2>6, <2>7
<1>3. CASE TraceLayerFailsLate
  <2>1. /\ DeviceType'
        /\ conv_cursor' \in [GdnLayer -> 0 .. Taps - 1]
        /\ gdn_position' \in [GdnLayer -> Nat]
        /\ kv_populated' \in [AttnLayer -> 0 .. Capacity]
        /\ log' \in Seq(Token)
    BY <1>3, TracedLayerFact DEF TraceLayerFailsLate
  <2>2. pc = "trace" /\ pc' = "idle" /\ unit' = NoUnit /\ poisoned' = TRUE
    BY <1>3 DEF TraceLayerFailsLate, EndTrace, RunTracedLayer
  <2>3. SessionTypeOK'
    BY <1>3, <2>1 DEF TraceLayerFailsLate, DeviceType, SessionTypeOK
  <2>4. TypeOK'
    BY <1>0, <1>3, <2>2, <2>3 DEF TraceLayerFailsLate, planVars, failVars
  <2>5. Shape' /\ Boundary' /\ TraceShape'
    BY <1>3, <2>2 DEF TraceLayerFailsLate, Shape, Boundary, TraceShape, Busy
  <2> QED BY <2>4, <2>5
<1>4. CASE TraceLayerFails
  <2>1. pc = "trace" /\ pc' = "idle" /\ unit' = NoUnit /\ poisoned' = TRUE
    BY <1>4 DEF TraceLayerFails, EndTrace
  <2>2. DeviceType'
    <3>1. unit.offset \in Layer /\ unit.first \in Nat /\ unit.tokens \in Seq(Token)
      BY <1>0, <1>4 DEF TraceLayerFails, TracedLayer, UnitType, Layer
    <3>2. DeviceType
      BY DEF DeviceType, SessionTypeOK
    <3>3. CASE device' = device
      BY <3>2, <3>3 DEF device, DeviceType
    <3> QED BY <1>4, <3>1, <3>2, <3>3, ExecuteLayerType DEF TraceLayerFails, TracedLayer
  <2>3. SessionTypeOK'
    BY <1>4, <2>2 DEF TraceLayerFails, DeviceType, SessionTypeOK, metadata
  <2>4. TypeOK'
    BY <1>0, <1>4, <2>1, <2>3 DEF TraceLayerFails, planVars, failVars
  <2>5. Shape' /\ Boundary' /\ TraceShape'
    BY <1>4, <2>1 DEF TraceLayerFails, Shape, Boundary, TraceShape, Busy
  <2> QED BY <2>4, <2>5
<1>5. CASE TraceAbandoned
  BY <1>5, QuietStep
<1>6. CASE CommitTracedToken
  <2>1. /\ pc = "trace" /\ pc' = "idle" /\ unit' = NoUnit
        /\ token_position' = token_position + 1
    BY <1>6 DEF CommitTracedToken, EndTrace
  <2>2. token_position' \in 0 .. Capacity
    <3>1. kv_populated[AttentionPeriod - 1] = unit.first + 1
      BY <1>6, AttnExists DEF CommitTracedToken, LayersAt
    <3>2. kv_populated[AttentionPeriod - 1] \in 0 .. Capacity
      BY AttnExists DEF SessionTypeOK
    <3>3. unit.first = token_position
      BY <2>1 DEF TraceShape
    <3>4. token_position \in 0 .. Capacity /\ Capacity \in Nat
      BY CapacityAssumption DEF SessionTypeOK
    <3> QED BY <2>1, <3>1, <3>2, <3>3, <3>4
  <2>3. SessionTypeOK'
    BY <1>6, <2>2 DEF CommitTracedToken, SessionTypeOK, device
  <2>4. TypeOK'
    BY <1>0, <1>6, <2>1, <2>3 DEF CommitTracedToken, planVars, failVars
  <2>5. Shape' /\ Boundary' /\ TraceShape'
    BY <1>6, <2>1 DEF CommitTracedToken, Shape, Boundary, TraceShape, Busy
  <2> QED BY <2>4, <2>5
<1> QED BY <1>1, <1>2, <1>3, <1>4, <1>5, <1>6 DEF Trace

-----------------------------------------------------------------------------
(* Replays: the controls are those of the token, the graph holds its keys.   *)

LEMMA ReplayStep ==
  ASSUME TInv, Next
  PROVE  ReplayShape'
<1> USE DEF TInv
<1>0. SUFFICES ASSUME unit'.kind = "replay" PROVE ReplayShape'
  BY DEF ReplayShape
<1>u. unit \in UnitType /\ NoUnit.kind # "replay"
  BY DEF Core, TypeOK, NoUnit
<1>1. CASE BeginUnit
  <2>1. PICK t \in Token : BeginGraphDecode(t)
    BY <1>0, <1>1 DEF BeginUnit, BeginEagerDecode, BeginPrefill, Begin
  <2>2. /\ pc' = "graph" /\ executed' = 0 /\ unit'.tokens = <<t>>
    BY <2>1 DEF BeginGraphDecode, Begin
  <2> QED BY <2>2 DEF ReplayShape, Busy
<1>2. CASE BuildGraph
  <2>1. pc = "graph" /\ pc' = "upload" /\ unit' = unit /\ executed' = executed
        /\ controls' = controls /\ graph' = Bucket(Position + 1)
    BY <1>2 DEF BuildGraph
  <2>2. Position' = Position /\ Pending' = Pending
    BY <2>1, SameUnit
  <2>3. Position + 1 \in Nat /\ Position + 1 <= Capacity
    <3>1. /\ unit.offset < Len(unit.tokens) /\ Position = unit.first + unit.offset
          /\ unit.first + Len(unit.tokens) <= Capacity
      BY <2>1 DEF Core, Boundary, Busy, Position
    <3>2. Position \in Nat /\ unit.first \in Nat /\ unit.offset \in Nat
          /\ Len(unit.tokens) \in Nat
      BY <1>u, <3>1, ChunkFact
    <3> QED BY <3>1, <3>2, CapacityAssumption
  <2>4. graph' >= Position + 1
    BY <2>1, <2>3, BucketFact, CapacityAssumption
  <2> QED BY <1>0, <2>1, <2>2, <2>4 DEF ReplayShape, Busy
<1>3. CASE ReuseGraph
  <2>1. pc = "graph" /\ pc' = "upload" /\ unit' = unit /\ executed' = executed
        /\ controls' = controls /\ graph = Bucket(Position + 1) /\ graph' = graph
    BY <1>3 DEF ReuseGraph, planVars
  <2>2. Position' = Position /\ Pending' = Pending
    BY <2>1, SameUnit
  <2>3. Position + 1 \in Nat /\ Position + 1 <= Capacity
    <3>1. /\ unit.offset < Len(unit.tokens) /\ Position = unit.first + unit.offset
          /\ unit.first + Len(unit.tokens) <= Capacity
      BY <2>1 DEF Core, Boundary, Busy, Position
    <3>2. Position \in Nat /\ unit.first \in Nat /\ unit.offset \in Nat
          /\ Len(unit.tokens) \in Nat
      BY <1>u, <3>1, ChunkFact
    <3> QED BY <3>1, <3>2, CapacityAssumption
  <2>4. graph' >= Position + 1
    BY <2>1, <2>3, BucketFact, CapacityAssumption
  <2> QED BY <1>0, <2>1, <2>2, <2>4 DEF ReplayShape, Busy
<1>4. CASE GraphFails
  BY <1>0, <1>u, <1>4 DEF GraphFails, UnitType
<1>5. CASE UploadControls \/ LaunchGraph \/ EnqueueStep \/ EnqueueFails \/ CompleteUnit
           \/ CompleteFails \/ SinkFails \/ DeviceFault
  <2>1. /\ unit' = unit /\ executed' = executed /\ controls' = controls
        /\ graph' = graph
        /\ pc # "graph" \/ pc' = pc
        /\ pc \in Busy => pc' \in Busy
    BY <1>5 DEF UploadControls, LaunchGraph, EnqueueStep, EnqueueFails, CompleteUnit,
                CompleteFails, SinkFails, DeviceFault, FailUnit, planVars, Busy
  <2>2. Position' = Position /\ Pending' = Pending
    BY <2>1, SameUnit
  <2> QED BY <1>0, <2>1, <2>2 DEF ReplayShape
<1>6. CASE SinkReturns
  <2>1. /\ unit' = [unit EXCEPT !.rows = unit.rows \ {NextRow}]
        /\ executed' = executed /\ controls' = controls /\ graph' = graph
        /\ pc = "sink" /\ pc' \in {"complete", "commit"}
    BY <1>6 DEF SinkReturns, planVars
  <2>2. /\ unit'.first = unit.first /\ unit'.offset = unit.offset
        /\ unit'.tokens = unit.tokens /\ unit'.cursor = unit.cursor
        /\ unit'.kind = unit.kind
    BY <1>u, <2>1 DEF UnitType
  <2>3. Position' = Position /\ Pending' = Pending
    BY <2>2, SameUnit
  <2> QED BY <1>0, <2>1, <2>2, <2>3 DEF ReplayShape, Busy
<1>7. CASE Commit
  <2>1. CASE IsLastChunk
    BY <1>0, <1>u, <1>7, <2>1 DEF Commit
  <2>2. CASE ~IsLastChunk
    <3>1. /\ unit' = [unit EXCEPT !.offset = unit.offset + Count] /\ pc = "commit"
      BY <1>7, <2>2 DEF Commit
    <3>2. unit.kind = "replay"
      BY <1>0, <1>u, <3>1 DEF UnitType
    <3>3. Len(unit.tokens) = 1 /\ unit.offset < Len(unit.tokens)
      BY <3>1, <3>2 DEF ReplayShape, Core, Boundary, Busy
    <3>4. IsLastChunk
      BY <1>u, <3>3, ChunkFact DEF IsLastChunk
    <3> QED BY <2>2, <3>4
  <2> QED BY <2>1, <2>2
<1>8. CASE Drain \/ TraceLayerFails \/ TraceLayerFailsLate \/ TraceAbandoned
           \/ CommitTracedToken
  BY <1>0, <1>u, <1>8 DEF Drain, TraceLayerFails, TraceLayerFailsLate, TraceAbandoned,
                          CommitTracedToken, EndTrace
<1>9. CASE \E t \in Token : BeginTrace(t)
  BY <1>0, <1>9 DEF BeginTrace
<1>10. CASE TraceLayer
  <2>1. unit' = [unit EXCEPT !.offset = unit.offset + 1] /\ pc = "trace"
    BY <1>10 DEF TraceLayer, RunTracedLayer
  <2>2. unit'.kind = unit.kind
    BY <1>u, <2>1 DEF UnitType
  <2> QED BY <1>0, <2>1, <2>2 DEF ReplayShape, Busy
<1>11. CASE DeviceStep
  <2>1. /\ unit' = unit /\ pc' = pc /\ graph' = graph /\ executed \in Nat
        /\ \/ executed = 0 /\ controls' = Pending
           \/ executed >= 1 /\ controls' = controls
    BY <1>11, LayersFact DEF DeviceStep, ExecuteUpload, ExecuteInput, Execute, planVars,
                             Core, TypeOK
  <2>2. Position' = Position /\ Pending' = Pending
    BY <2>1, SameUnit
  <2> QED BY <1>0, <2>1, <2>2 DEF ReplayShape
<1>12. CASE CallSession \/ CallShutdown \/ CallOverride
  <2>1. pc' = pc /\ unit' = unit /\ executed' = executed /\ graph' = graph
        /\ controls' = controls
    BY <1>12 DEF CallSession, CallShutdown, CallOverride, unitVars, planVars
  <2>2. Position' = Position /\ Pending' = Pending
    BY <2>1, SameUnit
  <2> QED BY <1>0, <2>1, <2>2 DEF ReplayShape
<1> QED BY <1>1, <1>2, <1>3, <1>4, <1>5, <1>6, <1>7, <1>8, <1>9, <1>10, <1>11, <1>12
        DEF Next, HostStep, Sink, Trace

\* The shape of a unit in progress is an inductive invariant.
LEMMA TInvStep ==
  ASSUME TInv, [Next]_vars
  PROVE  TInv'
<1>1. CASE UNCHANGED vars
  <2> USE <1>1 DEF vars, sessionVars, metadata, device, unitVars, planVars, failVars
  <2>1. TypeOK'
    BY DEF TInv, Core, TypeOK, SessionTypeOK
  <2>2. Shape' /\ Boundary' /\ TraceShape'
    BY DEF TInv, Core, Shape, Boundary, TraceShape, LayersAt
  <2>3. Position' = Position /\ Pending' = Pending
    BY SameUnit
  <2>4. ReplayShape'
    BY <2>3 DEF TInv, ReplayShape
  <2> QED BY <2>1, <2>2, <2>4 DEF TInv, Core
<1>2. ASSUME Next PROVE Core'
  <2>1. CASE BeginUnit
    <3>1. ASSUME NEW t \in Token, BeginEagerDecode(t) \/ BeginGraphDecode(t) PROVE Core'
      <4>1. <<t>> \in Seq(Token) /\ {} \in SUBSET Nat
        OBVIOUS
      <4> QED BY <3>1, <4>1, BeginStep DEF BeginEagerDecode, BeginGraphDecode
    <3>2. ASSUME NEW tokens \in Prompts, NEW rows \in SUBSET (token_position .. Capacity - 1),
                 BeginPrefill(tokens, rows)
          PROVE  Core'
      <4>1. tokens \in Seq(Token)
        <5>1. PICK n \in 1 .. Capacity : tokens \in [1 .. n -> Token]
          BY DEF Prompts
        <5> QED BY <5>1, SeqDef, CapacityAssumption
      <4>2. rows \in SUBSET Nat
        BY CapacityAssumption DEF TInv, Core, TypeOK, SessionTypeOK
      <4> QED BY <3>2, <4>1, <4>2, BeginStep DEF BeginPrefill
    <3> QED BY <2>1, <3>1, <3>2 DEF BeginUnit
  <2>2. CASE HostStep
    BY <2>2, QuietStep, FailStep, CommitStep DEF HostStep
  <2>3. CASE Sink
    BY <2>3, QuietStep, FailStep DEF Sink
  <2>4. CASE DeviceStep
    BY <2>4, DeviceStepCore
  <2>5. CASE DeviceFault
    BY <2>5, QuietStep
  <2>6. CASE Trace
    BY <2>6, TraceStep
  <2>7. CASE CallSession \/ CallShutdown \/ CallOverride
    BY <2>7, CallStep
  <2> QED BY <1>2, <2>1, <2>2, <2>3, <2>4, <2>5, <2>6, <2>7 DEF Next
<1> QED BY <1>1, <1>2, ReplayStep DEF TInv

LEMMA TInvAlways == Spec => []TInv
BY InitTInv, TInvStep, PTL DEF Spec

\* Type correctness, for every number of layers, capacity and chunk size: the
\* counters stay within the KV capacity and the cursors within the ring.
THEOREM TypeCorrect == Spec => []TypeOK
<1>1. TInv => TypeOK
  BY DEF TInv, Core
<1> QED BY <1>1, TInvAlways, PTL

\* A replay runs on the controls of its own token and on a graph that holds it.
THEOREM ReplaysAreCurrent == Spec => []ReplayUsesCurrentControls
<1>1. TInv => ReplayUsesCurrentControls
  <2> SUFFICES ASSUME TInv, unit.kind = "replay", executed > 1
               PROVE  controls = Pending /\ graph >= Position + 1
    BY DEF ReplayUsesCurrentControls
  <2>1. executed \in 0 .. LastStep /\ enqueued \in 0 .. LastStep /\ LastStep \in Nat
    BY LayersFact DEF TInv, Core, TypeOK
  <2>2. pc # "graph"
    BY <2>1 DEF TInv, Core, Shape
  <2> QED BY <2>1, <2>2 DEF TInv, ReplayShape
<1> QED BY <1>1, TInvAlways, PTL

\* No call returns to the host program with work in flight.
THEOREM ReturnsDrained == Spec => []NoWorkInFlight
<1>1. TInv => NoWorkInFlight
  BY DEF TInv, Core, Shape, NoWorkInFlight
<1> QED BY <1>1, TInvAlways, PTL

-----------------------------------------------------------------------------
(* The unit-failure flag.                                                    *)

\* The flag a unit reads is the one its own chunk raised.
FlagShape ==
    /\ (pc \in Busy /\ executed <= 1) => ~tainted
    /\ (pc \in Busy /\ executed >= 2) => (unit_failure <=> tainted)
    /\ pc \in {"sink", "commit"} => ~unit_failure

LEMMA FlagStep ==
  ASSUME TInv, FlagShape, [Next]_vars
  PROVE  FlagShape'
<1> USE LayersFact DEF FlagShape, Busy
<1>0. /\ executed \in Nat /\ enqueued \in Nat /\ executed <= enqueued
      /\ pc \in {"sink", "commit"} => executed = LastStep
      /\ pc = "graph" => executed = 0
      /\ unit_failure \in BOOLEAN /\ tainted \in BOOLEAN
      /\ pc \in {"idle", "trace"} \cup Busy
  BY DEF TInv, Core, TypeOK, Shape
<1>1. CASE BeginUnit
  BY <1>1 DEF BeginUnit, BeginEagerDecode, BeginGraphDecode, BeginPrefill, Begin
<1>2. CASE ReuseGraph \/ BuildGraph \/ UploadControls \/ LaunchGraph \/ EnqueueStep
           \/ EnqueueFails \/ CompleteFails \/ SinkFails \/ DeviceFault
  <2>1. /\ executed' = executed /\ unit_failure' = unit_failure /\ tainted' = tainted
        /\ pc \in Busy /\ pc' \in Busy
        /\ pc' \in {"sink", "commit"} => pc \in {"sink", "commit"}
    <3>1. CASE DeviceFault
      <4>1. pc \in Busy
        BY <1>0, <3>1 DEF DeviceFault, DeviceMayRun, TInv, Core, Shape
      <4> QED BY <3>1, <4>1 DEF DeviceFault, failVars
    <3>2. CASE ~DeviceFault
      BY <1>2, <3>2 DEF ReuseGraph, BuildGraph, UploadControls, LaunchGraph, EnqueueStep,
                        EnqueueFails, CompleteFails, SinkFails, FailUnit, failVars
    <3> QED BY <3>1, <3>2
  <2> HIDE DEF Busy
  <2> QED BY <2>1
<1>3. CASE GraphFails
  BY <1>0, <1>3 DEF GraphFails, failVars
<1>4. CASE CompleteUnit
  BY <1>0, <1>4 DEF CompleteUnit, failVars
<1>5. CASE SinkReturns
  BY <1>0, <1>5 DEF SinkReturns, failVars
<1>6. CASE Commit
  BY <1>0, <1>6 DEF Commit
<1>7. CASE Drain \/ Trace
  <2>1. pc' \in {"idle", "trace"}
    BY <1>7 DEF Drain, Trace, BeginTrace, TraceLayer, RunTracedLayer, TraceLayerFails,
                TraceLayerFailsLate, TraceAbandoned, CommitTracedToken, EndTrace
  <2> QED BY <2>1
<1>8. CASE DeviceStep
  <2>1. CASE ExecuteUpload
    BY <1>0, <2>1 DEF ExecuteUpload, failVars
  <2>2. CASE ExecuteInput
    BY <1>0, <2>2 DEF ExecuteInput, DeviceMayRun, TInv, Core, Shape
  <2>3. ASSUME NEW l \in Layer, Execute(l) PROVE FlagShape'
    <3>1. PICK raised \in BOOLEAN : /\ unit_failure' = (unit_failure \/ raised)
                                    /\ tainted' = (tainted \/ raised)
      BY <2>3 DEF Execute
    <3>2. /\ executed = 2 + l /\ executed' = executed + 1 /\ l \in Nat /\ pc' = pc
          /\ executed < enqueued
      BY <2>3 DEF Execute, DeviceMayRun
    <3>3. pc \notin {"sink", "commit"}
      BY <1>0, <3>2 DEF TInv, Core, TypeOK, Shape
    <3>4. executed >= 2 /\ executed' >= 2 /\ ~(executed' <= 1)
      BY <3>2
    <3>5. pc \in Busy => (unit_failure' <=> tainted')
      BY <3>1, <3>4
    <3> QED BY <3>2, <3>3, <3>4, <3>5
  <2> QED BY <1>8, <2>1, <2>2, <2>3 DEF DeviceStep
<1>9. CASE CallSession \/ CallShutdown \/ CallOverride \/ UNCHANGED vars
  BY <1>9 DEF CallSession, CallShutdown, CallOverride, vars, unitVars, failVars
<1> QED BY <1>1, <1>2, <1>3, <1>4, <1>5, <1>6, <1>7, <1>8, <1>9 DEF Next, HostStep, Sink

LEMMA FlagAlways == Spec => []FlagShape
<1>1. Init => FlagShape
  BY DEF Init, FlagShape, Busy
<1> QED BY <1>1, FlagStep, TInvAlways, PTL DEF Spec

\* A failure reported by a unit was raised by that very chunk.
THEOREM FailuresAreFresh == Spec => []NoStaleFailure
<1>1. TInv /\ FlagShape => NoStaleFailure
  <2> SUFFICES ASSUME TInv, FlagShape, pc = "complete", executed > 1, unit_failure
               PROVE  tainted
    BY DEF NoStaleFailure
  <2>1. executed \in Nat
    BY LayersFact DEF TInv, Core, TypeOK
  <2>2. executed >= 2 /\ pc \in Busy
    BY <2>1 DEF Busy
  <2> QED BY <2>2 DEF FlagShape
<1> QED BY <1>1, TInvAlways, FlagAlways, PTL

\* A unit that commits had no failing producer and leaves a usable session.
THEOREM CommitsAreClean == Spec => []CommitsCleanUnit
<1>1. TInv /\ FlagShape => CommitsCleanUnit
  <2> SUFFICES ASSUME TInv, FlagShape, pc = "commit" PROVE ~poisoned /\ ~tainted
    BY DEF CommitsCleanUnit
  <2>1. pc \in Busy /\ executed = LastStep /\ ~poisoned
    BY DEF TInv, Core, Shape, Busy
  <2>2. executed >= 2
    BY <2>1, LayersFact
  <2> QED BY <2>1, <2>2 DEF FlagShape
<1> QED BY <1>1, TInvAlways, FlagAlways, PTL

-----------------------------------------------------------------------------
(* Prefixes and rows.                                                        *)

LEMMA PrefixFact ==
  ASSUME NEW S, NEW s \in Seq(S), NEW n \in Nat, n <= Len(s)
  PROVE  /\ Prefix(s, n) \in Seq(S) /\ Len(Prefix(s, n)) = n
         /\ \A i \in 1 .. n : Prefix(s, n)[i] = s[i]
         /\ n = Len(s) => Prefix(s, n) = s
<1>1. \A i \in 1 .. n : s[i] \in S
  BY ElementOfSeq, LenProperties
<1>2. /\ SubSeq(s, 1, n) \in Seq(S)
      /\ Len(SubSeq(s, 1, n)) = IF 1 <= n THEN n - 1 + 1 ELSE 0
      /\ \A i \in 1 .. n - 1 + 1 : SubSeq(s, 1, n)[i] = s[1 + i - 1]
  BY <1>1, SubSeqProperties, 1 \in Int, n \in Int
<1>3. Len(Prefix(s, n)) = n
  BY <1>2 DEF Prefix
<1>4. \A i \in 1 .. n : Prefix(s, n)[i] = s[i]
  BY <1>2 DEF Prefix
<1> QED BY <1>2, <1>3, <1>4, SubSeqFull DEF Prefix

LEMMA PrefixOfConcat ==
  ASSUME NEW S, NEW s \in Seq(S), NEW t \in Seq(S), NEW n \in Nat, n <= Len(s)
  PROVE  Prefix(s \o t, n) = Prefix(s, n)
<1>1. /\ s \o t \in Seq(S) /\ Len(s \o t) = Len(s) + Len(t)
      /\ \A i \in 1 .. Len(s) + Len(t) :
             (s \o t)[i] = IF i <= Len(s) THEN s[i] ELSE t[i - Len(s)]
      /\ Len(s) \in Nat /\ Len(t) \in Nat
  BY ConcatProperties, LenProperties
<1>2. /\ Prefix(s \o t, n) \in Seq(S) /\ Len(Prefix(s \o t, n)) = n
      /\ \A i \in 1 .. n : Prefix(s \o t, n)[i] = (s \o t)[i]
  <2>1. n <= Len(s \o t)
    BY <1>1
  <2> QED BY <1>1, <2>1, PrefixFact
<1>3. /\ Prefix(s, n) \in Seq(S) /\ Len(Prefix(s, n)) = n
      /\ \A i \in 1 .. n : Prefix(s, n)[i] = s[i]
  BY PrefixFact
<1>4. \A i \in 1 .. n : Prefix(s \o t, n)[i] = Prefix(s, n)[i]
  BY <1>1, <1>2, <1>3
<1> QED BY <1>2, <1>3, <1>4, SeqEqual

LEMMA PrefixOfPrefix ==
  ASSUME NEW S, NEW s \in Seq(S), NEW n \in Nat, n <= Len(s), NEW m \in Nat, m <= n
  PROVE  Prefix(Prefix(s, n), m) = Prefix(s, m)
<1>1. Len(s) \in Nat
  BY LenProperties
<1>2. /\ Prefix(s, n) \in Seq(S) /\ Len(Prefix(s, n)) = n
      /\ \A i \in 1 .. n : Prefix(s, n)[i] = s[i]
  BY PrefixFact
<1>3. /\ Prefix(Prefix(s, n), m) \in Seq(S) /\ Len(Prefix(Prefix(s, n), m)) = m
      /\ \A i \in 1 .. m : Prefix(Prefix(s, n), m)[i] = Prefix(s, n)[i]
  BY <1>2, PrefixFact
<1>4. /\ Prefix(s, m) \in Seq(S) /\ Len(Prefix(s, m)) = m
      /\ \A i \in 1 .. m : Prefix(s, m)[i] = s[i]
  BY <1>1, PrefixFact
<1>5. \A i \in 1 .. m : Prefix(Prefix(s, n), m)[i] = Prefix(s, m)[i]
  BY <1>2, <1>3, <1>4
<1> QED BY <1>3, <1>4, <1>5, SeqEqual

LEMMA PrefixNext ==
  ASSUME NEW S, NEW s \in Seq(S), NEW n \in Nat, n < Len(s)
  PROVE  Prefix(s, n) \o <<s[n + 1]>> = Prefix(s, n + 1)
<1>1. Len(s) \in Nat
  BY LenProperties
<1>2. SubSeq(s, 1, n + 1) = SubSeq(s, 1, (n + 1) - 1) \o << s[n + 1] >>
  BY <1>1, SubSeqRecursiveSecond, 1 \in 1 .. Len(s), n + 1 \in 1 .. Len(s)
<1> QED BY <1>2 DEF Prefix

\* Writing the tokens that follow a prefix extends what a row holds.
LEMMA RowExtends ==
  ASSUME NEW row \in [0 .. Capacity - 1 -> Word], NEW s \in Seq(Token),
         NEW t \in Seq(Token), Len(s) + Len(t) <= Capacity, RowHolds(row, s)
  PROVE  RowHolds(Written(row, Len(s), t), s \o t)
<1>1. /\ Len(s) \in Nat /\ Len(t) \in Nat /\ Capacity \in Nat
      /\ Len(s \o t) = Len(s) + Len(t)
      /\ \A i \in 1 .. Len(s) + Len(t) :
             (s \o t)[i] = IF i <= Len(s) THEN s[i] ELSE t[i - Len(s)]
  BY ConcatProperties, LenProperties, CapacityAssumption
<1>2. ASSUME NEW i \in 1 .. Len(s \o t)
      PROVE  Written(row, Len(s), t)[i - 1] = (s \o t)[i]
  <2>1. i \in Nat /\ i - 1 \in 0 .. Capacity - 1 /\ i \in 1 .. Len(s) + Len(t)
    BY <1>1
  <2>2. Written(row, Len(s), t)[i - 1] =
            IF i - 1 >= Len(s) /\ i - 1 < Len(s) + Len(t)
            THEN t[i - 1 - Len(s) + 1] ELSE row[i - 1]
    BY <2>1 DEF Written
  <2>3. CASE i <= Len(s)
    <3>1. row[i - 1] = s[i]
      BY <1>1, <2>1, <2>3 DEF RowHolds
    <3> QED BY <1>1, <2>1, <2>2, <2>3, <3>1
  <2>4. CASE i > Len(s)
    <3>1. i - 1 - Len(s) + 1 = i - Len(s)
      BY <1>1, <2>1
    <3> QED BY <1>1, <2>1, <2>2, <2>4, <3>1
  <2> QED BY <1>1, <2>1, <2>3, <2>4
<1> QED BY <1>2 DEF RowHolds

\* A row that holds a sequence holds each of its prefixes, element by element.
LEMMA RowPrefix ==
  ASSUME NEW row, NEW s \in Seq(Token), NEW n \in Nat, n <= Len(s)
  PROVE  RowHolds(row, Prefix(s, n)) <=> \A i \in 1 .. n : row[i - 1] = s[i]
BY PrefixFact DEF RowHolds

\* A log is a sequence of words too, and what a layer absorbs in phase extends it.
LEMMA AbsorbInPhase ==
  ASSUME NEW s \in Seq(Token), NEW t \in Seq(Token)
  PROVE  Absorb(s, TRUE, t) = s \o t
<1>1. s \in Seq(Word)
  BY SeqMonotonic, Token \subseteq Word DEF Word
<1> QED BY <1>1, AbsorbFact

-----------------------------------------------------------------------------
(* The inductive invariant.                                                  *)

\* The cursors are those the session has set itself.
Phased(overridden) == ~overridden \/ "cursor" \notin Overrides

\* A recurrent layer holds the log up to its own counter, its cursor in phase.
GdnOwn(l) == /\ gdn_position[l] <= Len(log)
             /\ Phased(foreign) =>
                   /\ gdn_s[l] = Prefix(log, gdn_position[l])
                   /\ conv_history[l] = Prefix(log, gdn_position[l])
                   /\ conv_cursor[l] = gdn_position[l] % Taps

\* The KV positions of a layer that hold the log.  A populated length says so
\* until the host program replaces it, and again in a trace, which begins only
\* where every layer stands at the token position.
Valid(l) == IF foreign /\ pc # "trace" THEN token_position ELSE kv_populated[l]

AttnOwn(l) == /\ token_position <= Valid(l) /\ Valid(l) <= Len(log)
              /\ \A i \in 1 .. Valid(l) : kv[l][i - 1] = log[i]

\* Between units.  The first layer is recurrent, and a token enters the log when
\* that layer takes it in.
Settled == /\ Len(log) = gdn_position[0]
           /\ token_position <= Len(log)
           /\ \A l \in GdnLayer : GdnOwn(l)
           /\ \A l \in AttnLayer : AttnOwn(l)

\* In a unit: the layers whose step has executed hold the chunk too.
Held(l) == (Phased(foreign) \/ l \notin GdnLayer) =>
               LayerHolds(l, IF executed > 2 + l THEN log \o Chunk ELSE log)

InUnit == /\ Len(log) = token_position
          /\ Phased(foreign) =>
                \A l \in GdnLayer : /\ conv_cursor[l] = token_position % Taps
                                    /\ unit.cursor[l] = unit.first % Taps
          /\ \A l \in Layer : Held(l)

\* In a trace past the first layer, the log ends with the traced token.
InTrace == unit.offset >= 1 => log[token_position + 1] = unit.tokens[1]

\* What Settled says of a session, said of a snapshot.
SettledRecord(s) ==
    /\ Len(s.log) = s.gdn_position[0]
    /\ s.token_position <= Len(s.log)
    /\ \A l \in GdnLayer :
          /\ s.gdn_position[l] <= Len(s.log)
          /\ Phased(s.foreign) =>
                /\ s.gdn_s[l] = Prefix(s.log, s.gdn_position[l])
                /\ s.conv_history[l] = Prefix(s.log, s.gdn_position[l])
                /\ s.conv_cursor[l] = s.gdn_position[l] % Taps
    /\ \A l \in AttnLayer :
          LET valid == IF s.foreign THEN s.token_position ELSE s.kv_populated[l]
          IN  /\ s.token_position <= valid /\ valid <= Len(s.log)
              /\ \A i \in 1 .. valid : s.kv[l][i - 1] = s.log[i]

SavedShape == saved # NoSnapshot => SettledRecord(saved)

StateShape ==
    ~poisoned =>
        /\ pc \in {"idle", "trace"} => Settled
        /\ pc \in Busy => InUnit
        /\ pc = "trace" => InTrace

DataInv == StateShape /\ SavedShape

LEMMA FirstLayer == 0 \in GdnLayer /\ 0 \in Layer
<1>1. 0 \in Layer
  BY LayersAssumption DEF Layer
<1>2. AttentionPeriod \in Nat /\ AttentionPeriod >= 2
  BY LayersAssumption
<1>3. 0 % AttentionPeriod = 0
  BY <1>2
<1>4. 0 \notin AttnLayer
  BY <1>2, <1>3 DEF AttnLayer
<1> QED BY <1>1, <1>4 DEF GdnLayer

LEMMA SettledIsRecord ==
  ASSUME pc # "trace"
  PROVE  Settled <=> SettledRecord(Snapshot)
BY DEF Settled, GdnOwn, AttnOwn, Valid, SettledRecord, Snapshot

\* Without overrides, what is settled is consistent.
LEMMA RecordIsConsistent ==
  ASSUME NEW s \in SnapshotType, SettledRecord(s), ~s.foreign
  PROVE  Consistent(s)
<1>1. /\ s.log \in Seq(Token) /\ \A l \in AttnLayer : s.kv_populated[l] \in Nat
  BY CapacityAssumption DEF SnapshotType
<1>2. \A l \in AttnLayer : s.kv_populated[l] <= Len(s.log)
                              /\ RowHolds(s.kv[l], Prefix(s.log, s.kv_populated[l]))
  BY <1>1, RowPrefix DEF SettledRecord
<1> QED BY <1>2 DEF SettledRecord, Phased, Consistent

LEMMA SettledIsConsistent ==
  ASSUME TypeOK, Settled, ~foreign
  PROVE  Consistent(Snapshot)
<1>1. /\ log \in Seq(Token) /\ Len(log) \in Nat
      /\ \A l \in AttnLayer : kv_populated[l] \in Nat
  BY LenProperties, CapacityAssumption DEF TypeOK, SessionTypeOK
<1>2. \A l \in AttnLayer : kv_populated[l] <= Len(log) =>
          (RowHolds(kv[l], Prefix(log, kv_populated[l])) <=>
           \A i \in 1 .. kv_populated[l] : kv[l][i - 1] = log[i])
  BY <1>1, RowPrefix
<1>3. \A l \in AttnLayer : /\ kv_populated[l] <= Len(log)
                           /\ RowHolds(kv[l], Prefix(log, kv_populated[l]))
  BY <1>2 DEF Settled, AttnOwn, Valid
<1> QED BY <1>3 DEF Settled, GdnOwn, Phased, Consistent, Snapshot

LEMMA DataInit == Init => DataInv
<1> SUFFICES ASSUME Init PROVE DataInv
  OBVIOUS
<1>1. /\ log = <<>> /\ gdn_position = GdnZero /\ kv_populated = AttnZero
      /\ token_position = 0 /\ conv_cursor = GdnZero
      /\ gdn_s = NoTokens /\ conv_history = NoTokens /\ pc = "idle"
      /\ saved = NoSnapshot
  BY DEF Init, SessionInit
<1>2. Len(log) = 0 /\ Prefix(log, 0) = <<>>
  <2>1. <<>> \in Seq(Token) /\ Len(<<>>) = 0
    BY EmptySeq
  <2>2. Prefix(log, 0) = <<>>
    BY SubSeqEmpty, 1 \in Int, 0 \in Int DEF Prefix
  <2> QED BY <1>1, <2>1, <2>2
<1>3. 0 % Taps = 0
  BY DEF Taps
<1>4. Settled
  BY <1>1, <1>2, <1>3, FirstLayer
     DEF Settled, GdnOwn, AttnOwn, Valid, GdnZero, AttnZero, NoTokens
<1> QED BY <1>1, <1>4 DEF DataInv, StateShape, SavedShape, Busy

\* A unit begins on layers that have all taken in exactly the log.
LEMMA DataBegin ==
  ASSUME TInv, DataInv, NEW kind, NEW tokens, NEW rows,
         NEW first \in {0, 1}, NEW next \in Busy, Begin(kind, tokens, rows, first, next)
  PROVE  DataInv'
<1>1. /\ pc = "idle" /\ ~poisoned /\ LayersAt(token_position)
      /\ metadata' = metadata /\ device' = device /\ log' = log /\ foreign' = foreign
      /\ saved' = saved /\ poisoned' = poisoned
      /\ unit' = [kind |-> kind, tokens |-> tokens, first |-> token_position,
                  offset |-> 0, cursor |-> conv_cursor, rows |-> rows]
      /\ executed' = first /\ pc' = next
  BY DEF Begin, Accepts, HostMayCall, TInv, Core, Shape, Busy
<1>2. SavedShape'
  BY <1>1 DEF DataInv, SavedShape, SettledRecord
<1>3. SUFFICES InUnit'
  BY <1>1, <1>2 DEF DataInv, StateShape, Busy
<1>4. Settled
  BY <1>1 DEF DataInv, StateShape
<1>5. Len(log) = token_position /\ log \in Seq(Token) /\ Prefix(log, token_position) = log
  <2>1. Len(log) = token_position
    BY <1>1, <1>4, FirstLayer DEF Settled, LayersAt
  <2>2. log \in Seq(Token) /\ Len(log) \in Nat
    BY LenProperties DEF TInv, Core, TypeOK, SessionTypeOK
  <2> QED BY <2>1, <2>2, PrefixFact
<1>6. Phased(foreign) => \A l \in GdnLayer : /\ conv_cursor[l] = token_position % Taps
                                             /\ gdn_s[l] = log /\ conv_history[l] = log
  BY <1>1, <1>4, <1>5 DEF Settled, GdnOwn, LayersAt
<1>7. \A l \in AttnLayer : RowHolds(kv[l], log)
  BY <1>1, <1>4, <1>5 DEF Settled, AttnOwn, Valid, LayersAt, RowHolds
<1>8. \A l \in Layer : (Phased(foreign) \/ l \notin GdnLayer) => LayerHolds(l, log)
  BY <1>6, <1>7, LayersFact DEF LayerHolds, RecurrentHolds
<1>9. \A l \in Layer : Held(l)'
  <2>1. \A l \in Layer : ~(executed' > 2 + l)
    BY <1>1, LayersFact
  <2> QED BY <1>1, <1>8, <2>1 DEF Held, LayerHolds, RecurrentHolds, RowHolds, device
<1> QED BY <1>1, <1>5, <1>6, <1>9 DEF InUnit, Phased, metadata

\* The device executes layer l of the chunk, on the parameters of this chunk.
LEMMA DataExecute ==
  ASSUME TInv, InUnit, pc \in Busy, NEW l \in Layer, Execute(l)
  PROVE  InUnit'
<1>1. /\ unit' = unit /\ log' = log /\ token_position' = token_position
      /\ conv_cursor' = conv_cursor /\ executed' = executed + 1 /\ executed = 2 + l
      /\ foreign' = foreign
      /\ ExecuteLayer(l, IF l \in GdnLayer THEN LaunchedWith.cursor[l] ELSE 0,
                      LaunchedWith.position, LaunchedWith.tokens)
  BY DEF Execute, metadata
<1>2. /\ log \in Seq(Token) /\ Chunk \in Seq(Token) /\ Len(log) = token_position
      /\ unit.offset \in Nat /\ unit.first \in Nat /\ Position = token_position
      /\ Len(log) \in Nat /\ Len(Chunk) = Count /\ Count \in Nat
      /\ token_position + Count <= Capacity
  <2>1. /\ unit \in UnitType /\ unit.offset < Len(unit.tokens)
        /\ unit.first + unit.offset = token_position
        /\ unit.first + Len(unit.tokens) <= Capacity
    BY DEF TInv, Core, TypeOK, Boundary
  <2>2. log \in Seq(Token) /\ Len(log) \in Nat
    BY LenProperties DEF TInv, Core, TypeOK, SessionTypeOK
  <2>3. /\ Count \in Nat /\ unit.offset + Count <= Len(unit.tokens)
        /\ Chunk \in Seq(Token) /\ Len(Chunk) = Count
        /\ unit.offset \in Nat /\ unit.first \in Nat /\ Len(unit.tokens) \in Nat
    BY <2>1, ChunkFact
  <2>4. token_position + Count <= Capacity
    BY <2>1, <2>3, CapacityAssumption
  <2> QED BY <2>1, <2>2, <2>3, <2>4 DEF InUnit, Position
<1>3. Chunk' = Chunk
  BY <1>1, SameUnit
<1>4. LaunchedWith = Pending
  <2>1. executed >= 1
    BY <1>1, LayersFact
  <2> QED BY <2>1 DEF LaunchedWith, TInv, ReplayShape
<1>5. /\ LaunchedWith.position = Len(log) /\ LaunchedWith.tokens = Chunk
      /\ (Phased(foreign) /\ l \in GdnLayer) => LaunchedWith.cursor[l] = Len(log) % Taps
  <2>1. ASSUME Phased(foreign), l \in GdnLayer PROVE Pending.cursor[l] = token_position % Taps
    <3>1. Pending.cursor[l] = ((unit.first % Taps) + (unit.offset % Taps)) % Taps
      BY <2>1 DEF Pending, InUnit, Advance
    <3>2. token_position = unit.first + unit.offset
      BY <1>2 DEF Position
    <3> QED BY <1>2, <3>1, <3>2 DEF Taps
  <2> QED BY <1>2, <1>4, <2>1 DEF Pending
<1>6. /\ gdn_s \in [GdnLayer -> Seq(Word)] /\ conv_history \in [GdnLayer -> Seq(Word)]
      /\ kv \in [AttnLayer -> [0 .. Capacity - 1 -> Word]]
  BY DEF TInv, Core, TypeOK, SessionTypeOK
<1>7. (Phased(foreign) \/ l \notin GdnLayer) => LayerHolds(l, log)
  BY <1>1, LayersFact DEF InUnit, Held
<1>8. ASSUME Phased(foreign) \/ l \notin GdnLayer
      PROVE  LayerHolds(l, log \o Chunk)'
  <2>1. CASE l \in GdnLayer
    <3>1. gdn_s[l] = log /\ conv_history[l] = log
      BY <1>7, <1>8, <2>1 DEF LayerHolds, RecurrentHolds
    <3>2. InPhase(l, LaunchedWith.cursor[l]) = TRUE
      BY <1>5, <1>8, <2>1, <3>1 DEF InPhase
    <3>3. /\ gdn_s'[l] = Absorb(log, TRUE, Chunk)
          /\ conv_history'[l] = Absorb(log, TRUE, Chunk)
      BY <1>1, <1>5, <1>6, <2>1, <3>1, <3>2 DEF ExecuteLayer
    <3>4. gdn_s'[l] = log \o Chunk /\ conv_history'[l] = log \o Chunk
      BY <1>2, <3>3, AbsorbInPhase
    <3> QED BY <1>1, <1>3, <2>1, <3>4 DEF LayerHolds, RecurrentHolds
  <2>2. CASE l \notin GdnLayer
    <3>1. l \in AttnLayer
      BY <2>2, LayersFact
    <3>2. RowHolds(kv[l], log)
      BY <1>7, <2>2 DEF LayerHolds
    <3>3. kv'[l] = Written(kv[l], Len(log), Chunk)
      BY <1>1, <1>5, <1>6, <2>2, <3>1 DEF ExecuteLayer
    <3>4. Len(log) + Len(Chunk) <= Capacity /\ kv[l] \in [0 .. Capacity - 1 -> Word]
      BY <1>2, <1>6, <3>1
    <3>5. RowHolds(kv'[l], log \o Chunk)
      BY <1>2, <3>2, <3>3, <3>4, RowExtends
    <3> QED BY <1>1, <1>3, <2>2, <3>5 DEF LayerHolds, RowHolds
  <2> QED BY <2>1, <2>2
<1>9. \A m \in Layer : m # l => /\ m \in GdnLayer => /\ gdn_s'[m] = gdn_s[m]
                                                     /\ conv_history'[m] = conv_history[m]
                                /\ m \notin GdnLayer => kv'[m] = kv[m]
  BY <1>1, <1>6, LayersFact DEF ExecuteLayer
<1>10. \A m \in Layer : Held(m)'
  <2>1. ASSUME NEW m \in Layer, m # l PROVE Held(m)'
    <3>1. executed' > 2 + m <=> executed > 2 + m
      BY <1>1, <2>1, LayersFact
    <3>2. Held(m)
      BY DEF InUnit
    <3> QED BY <1>1, <1>3, <1>9, <2>1, <3>1, <3>2
            DEF Held, Phased, LayerHolds, RecurrentHolds, RowHolds
  <2>2. Held(l)'
    <3>1. executed' > 2 + l
      BY <1>1, LayersFact
    <3>2. (Phased(foreign) \/ l \notin GdnLayer)' => (Phased(foreign) \/ l \notin GdnLayer)
      BY <1>1 DEF Phased
    <3> QED BY <1>8, <3>1, <3>2 DEF Held
  <2> QED BY <2>1, <2>2
<1> QED BY <1>1, <1>10 DEF InUnit, Phased

\* A chunk commits once every layer holds it.
LEMMA DataCommit ==
  ASSUME TInv, InUnit, Commit
  PROVE  /\ IsLastChunk => Settled' /\ pc' = "idle"
         /\ ~IsLastChunk => InUnit' /\ pc' = "enqueue"
<1>1. /\ pc = "commit" /\ pc \in Busy /\ executed = LastStep
      /\ LayersAt(token_position) /\ device' = device
      /\ log' = log \o Chunk /\ token_position' = token_position + Count
      /\ foreign' = foreign
      /\ gdn_position' = [l \in GdnLayer |-> gdn_position[l] + Count]
      /\ kv_populated' = [l \in AttnLayer |-> kv_populated[l] + Count]
      /\ conv_cursor' = [l \in GdnLayer |-> Advance(conv_cursor[l], Count)]
  BY DEF Commit, CommitUnit, TInv, Core, Shape, Boundary, Busy
<1>2. /\ log \in Seq(Token) /\ Chunk \in Seq(Token) /\ Len(log) = token_position
      /\ Len(log) \in Nat /\ Len(Chunk) = Count /\ Count \in Nat
  <2>1. unit \in UnitType /\ unit.offset < Len(unit.tokens)
    BY <1>1 DEF TInv, Core, TypeOK, Boundary
  <2>2. log \in Seq(Token) /\ Len(log) \in Nat
    BY LenProperties DEF TInv, Core, TypeOK, SessionTypeOK
  <2> QED BY <2>1, <2>2, ChunkFact DEF InUnit
<1>3. log' \in Seq(Token) /\ Len(log') = token_position'
  BY <1>1, <1>2, ConcatProperties
<1>4. \A l \in Layer : (Phased(foreign) \/ l \notin GdnLayer) => LayerHolds(l, log \o Chunk)
  BY <1>1, LayersFact DEF InUnit, Held, LastStep, Layer
<1>5. \A l \in Layer : (Phased(foreign) \/ l \notin GdnLayer) => LayerHolds(l, log)'
  BY <1>1, <1>4 DEF LayerHolds, RecurrentHolds, RowHolds, device
<1>6. Phased(foreign) => \A l \in GdnLayer : conv_cursor'[l] = token_position' % Taps
  <2>1. ASSUME Phased(foreign), NEW l \in GdnLayer PROVE conv_cursor'[l] = token_position' % Taps
    <3>1. conv_cursor'[l] = ((token_position % Taps) + Count) % Taps
      BY <1>1, <2>1 DEF InUnit, Advance
    <3> QED BY <1>1, <1>2, <3>1 DEF Taps
  <2> QED BY <2>1
<1>7. LayersAt(token_position)'
  BY <1>1 DEF LayersAt
<1>8. ASSUME IsLastChunk PROVE Settled' /\ pc' = "idle"
  <2>1. pc' = "idle"
    BY <1>8 DEF Commit
  <2>2. Prefix(log', token_position') = log'
    BY <1>3, PrefixFact, LenProperties
  <2>3. \A l \in GdnLayer : GdnOwn(l)'
    <3>1. ASSUME NEW l \in GdnLayer PROVE GdnOwn(l)'
      <4>1. gdn_position'[l] = token_position' /\ gdn_position'[l] <= Len(log')
        BY <1>3, <1>7, LenProperties DEF LayersAt
      <4>2. ASSUME Phased(foreign)
            PROVE  gdn_s'[l] = log' /\ conv_history'[l] = log'
        BY <1>5, <4>2, LayersFact DEF LayerHolds, RecurrentHolds
      <4>3. Phased(foreign') => Phased(foreign)
        BY <1>1
      <4> QED BY <1>6, <2>2, <4>1, <4>2, <4>3 DEF GdnOwn
    <3> QED BY <3>1
  <2>4. \A l \in AttnLayer : AttnOwn(l)'
    <3>1. ASSUME NEW l \in AttnLayer PROVE AttnOwn(l)'
      <4>1. Valid(l)' = token_position'
        BY <1>7, <2>1 DEF Valid, LayersAt
      <4>2. RowHolds(kv[l], log)'
        BY <1>5, LayersFact DEF LayerHolds
      <4>3. token_position' \in Nat /\ Len(log') = token_position'
        BY <1>3, LenProperties
      <4> QED BY <4>1, <4>2, <4>3 DEF AttnOwn, RowHolds
    <3> QED BY <3>1
  <2> QED BY <1>3, <1>7, <2>1, <2>3, <2>4, FirstLayer DEF Settled, LayersAt
<1>9. ASSUME ~IsLastChunk PROVE InUnit' /\ pc' = "enqueue"
  <2>1. /\ pc' = "enqueue" /\ executed' = 1
        /\ unit' = [unit EXCEPT !.offset = unit.offset + Count]
    BY <1>9 DEF Commit
  <2>2. unit'.cursor = unit.cursor /\ unit'.first = unit.first
    BY <2>1 DEF TInv, Core, TypeOK, UnitType
  <2>3. \A l \in Layer : Held(l)'
    <3>1. \A l \in Layer : ~(executed' > 2 + l)
      BY <2>1, LayersFact
    <3> QED BY <1>1, <1>5, <3>1 DEF Held, Phased
  <2> QED BY <1>1, <1>3, <1>6, <2>1, <2>2, <2>3 DEF InUnit, Phased
<1> QED BY <1>8, <1>9

\* The trace runs and commits one more layer.
LEMMA DataTraceLayer ==
  ASSUME TInv, Settled, InTrace, RunTracedLayer, pc' = "trace", foreign' = foreign,
         token_position' = token_position
  PROVE  /\ Len(log') = gdn_position'[0]
         /\ token_position <= Len(log')
         /\ \A l \in GdnLayer : GdnOwn(l)'
         /\ \A l \in AttnLayer : AttnOwn(l)'
         /\ Len(log') = token_position + 1 /\ log'[token_position + 1] = unit.tokens[1]
<1>0. PICK l \in Layer : l = unit.offset
  BY TracedLayerFact
<1> DEFINE t == unit.tokens[1]
<1>1. /\ pc = "trace" /\ LayerAccepts(l, unit.first) /\ CommitLayer(l, unit.first)
      /\ ExecuteLayer(l, IF l \in GdnLayer THEN conv_cursor[l] ELSE 0,
                      unit.first, unit.tokens)
      /\ log' = IF l = 0 THEN log \o unit.tokens ELSE log
      /\ \A m \in AttnLayer : Valid(m) = kv_populated[m] /\ Valid(m)' = kv_populated'[m]
  BY <1>0 DEF RunTracedLayer, TracedLayer, Valid
<1>2. /\ unit.first = token_position /\ Len(unit.tokens) = 1
      /\ \A m \in GdnLayer : gdn_position[m] =
             IF m < l THEN token_position + 1 ELSE token_position
      /\ \A m \in AttnLayer : kv_populated[m] =
             IF m < l THEN token_position + 1 ELSE token_position
  BY <1>0, <1>1 DEF TInv, Core, TraceShape
<1>3. /\ log \in Seq(Token) /\ Len(log) \in Nat /\ unit.tokens \in Seq(Token)
      /\ token_position \in Nat /\ l \in Nat
      /\ gdn_s \in [GdnLayer -> Seq(Word)] /\ conv_history \in [GdnLayer -> Seq(Word)]
      /\ kv \in [AttnLayer -> [0 .. Capacity - 1 -> Word]]
      /\ gdn_position \in [GdnLayer -> Nat] /\ kv_populated \in [AttnLayer -> 0 .. Capacity]
      /\ conv_cursor \in [GdnLayer -> 0 .. Taps - 1]
  BY LenProperties, CapacityAssumption, LayersFact
     DEF TInv, Core, TypeOK, SessionTypeOK, UnitType
<1>4. /\ log' \in Seq(Token) /\ Len(log') = token_position + 1
      /\ log'[token_position + 1] = t
      /\ \A n \in Nat : n <= Len(log) => Prefix(log', n) = Prefix(log, n)
      /\ \A i \in 1 .. Len(log) : log'[i] = log[i]
      /\ Len(log) <= Len(log')
  <2>1. CASE l = 0
    <3>1. Len(log) = token_position
      BY <1>2, <1>3, <2>1, FirstLayer DEF Settled
    <3>2. log' = log \o unit.tokens
      BY <1>1, <2>1
    <3>3. /\ log' \in Seq(Token) /\ Len(log') = Len(log) + Len(unit.tokens)
          /\ \A i \in 1 .. Len(log) + Len(unit.tokens) :
                 log'[i] = IF i <= Len(log) THEN log[i] ELSE unit.tokens[i - Len(log)]
      BY <1>3, <3>2, ConcatProperties
    <3>4. log'[token_position + 1] = t
      <4>1. /\ token_position + 1 \in 1 .. Len(log) + Len(unit.tokens)
            /\ (token_position + 1) - Len(log) = 1 /\ ~(token_position + 1 <= Len(log))
        BY <1>2, <1>3, <3>1
      <4> QED BY <3>3, <4>1
    <3>5. \A n \in Nat : n <= Len(log) => Prefix(log', n) = Prefix(log, n)
      BY <1>3, <3>2, PrefixOfConcat
    <3> QED BY <1>2, <1>3, <3>1, <3>3, <3>4, <3>5
  <2>2. CASE l # 0
    <3>1. log' = log /\ Len(log) = token_position + 1
      BY <1>1, <1>2, <1>3, <2>2, FirstLayer DEF Settled
    <3>2. log[token_position + 1] = t
      BY <1>0, <1>3, <2>2 DEF InTrace
    <3> QED BY <1>3, <3>1, <3>2
  <2> QED BY <2>1, <2>2
<1>5. Prefix(log', token_position) \o unit.tokens = Prefix(log', token_position + 1)
  <2>1. unit.tokens = <<t>>
    BY <1>2, <1>3, LenProperties
  <2>2. Prefix(log', token_position) \o <<log'[token_position + 1]>> =
            Prefix(log', token_position + 1)
    <3>1. log' \in Seq(Token) /\ token_position \in Nat /\ token_position < Len(log')
      BY <1>3, <1>4
    <3> QED BY <3>1, PrefixNext
  <2> QED BY <1>4, <2>1, <2>2
<1>6. CASE l \in GdnLayer
  <2>1. /\ gdn_position' = [gdn_position EXCEPT ![l] = token_position + 1]
        /\ conv_cursor' = [conv_cursor EXCEPT ![l] = Advance(conv_cursor[l], 1)]
        /\ kv_populated' = kv_populated /\ kv' = kv
        /\ gdn_s' = [gdn_s EXCEPT ![l] =
                         Absorb(gdn_s[l], InPhase(l, conv_cursor[l]), unit.tokens)]
        /\ conv_history' = [conv_history EXCEPT ![l] =
                         Absorb(conv_history[l], InPhase(l, conv_cursor[l]), unit.tokens)]
        /\ gdn_position[l] = token_position
    BY <1>1, <1>2, <1>6 DEF CommitLayer, ExecuteLayer, LayerAccepts
  <2>2. /\ token_position <= Len(log)
        /\ Phased(foreign) => /\ gdn_s[l] = Prefix(log, token_position)
                              /\ conv_history[l] = Prefix(log, token_position)
                              /\ conv_cursor[l] = token_position % Taps
    BY <1>6, <2>1 DEF Settled, GdnOwn
  <2>3. /\ Prefix(log, token_position) \in Seq(Token)
        /\ Len(Prefix(log, token_position)) = token_position
        /\ Prefix(log, token_position) = Prefix(log', token_position)
    BY <1>3, <1>4, <2>2, PrefixFact
  <2>4. Phased(foreign) => InPhase(l, conv_cursor[l]) = TRUE
    BY <2>2, <2>3 DEF InPhase
  <2>5. Absorb(Prefix(log', token_position), TRUE, unit.tokens) =
            Prefix(log', token_position + 1)
    BY <1>3, <1>5, <2>3, AbsorbInPhase
  <2>6. /\ Phased(foreign) => /\ gdn_s'[l] = Prefix(log', token_position + 1)
                              /\ conv_history'[l] = Prefix(log', token_position + 1)
        /\ gdn_position'[l] = token_position + 1
    BY <1>3, <1>6, <2>1, <2>2, <2>3, <2>4, <2>5
  <2>7. Phased(foreign) => conv_cursor'[l] = (token_position + 1) % Taps
    <3>1. Phased(foreign) => conv_cursor'[l] = ((token_position % Taps) + 1) % Taps
      BY <1>3, <1>6, <2>1, <2>2 DEF Advance
    <3> QED BY <1>3, <3>1 DEF Taps
  <2>8. GdnOwn(l)'
    BY <1>4, <2>6, <2>7 DEF GdnOwn, Phased
  <2>9. ASSUME NEW m \in GdnLayer, m # l PROVE GdnOwn(m)'
    <3>1. /\ gdn_position'[m] = gdn_position[m] /\ conv_cursor'[m] = conv_cursor[m]
          /\ gdn_s'[m] = gdn_s[m] /\ conv_history'[m] = conv_history[m]
          /\ gdn_position[m] \in Nat
      BY <1>3, <2>1, <2>9
    <3>2. GdnOwn(m)
      BY DEF Settled
    <3>3. Prefix(log', gdn_position[m]) = Prefix(log, gdn_position[m])
      BY <1>4, <3>1, <3>2 DEF GdnOwn
    <3>4. gdn_position[m] <= Len(log')
      BY <1>3, <1>4, <3>1, <3>2 DEF GdnOwn
    <3> QED BY <3>1, <3>2, <3>3, <3>4 DEF GdnOwn, Phased
  <2>10. ASSUME NEW m \in AttnLayer PROVE AttnOwn(m)'
    <3>1. AttnOwn(m) /\ kv_populated[m] \in Nat
      BY <1>3, CapacityAssumption DEF Settled
    <3> QED BY <1>1, <1>3, <1>4, <2>1, <3>1 DEF AttnOwn
  <2>11. Len(log') = gdn_position'[0]
    <3>1. CASE l = 0
      BY <1>4, <2>6, <3>1
    <3>2. CASE l # 0
      BY <1>1, <1>3, <2>1, <3>2, FirstLayer DEF Settled
    <3> QED BY <3>1, <3>2
  <2> QED BY <1>3, <1>4, <2>8, <2>9, <2>10, <2>11
<1>7. CASE l \notin GdnLayer
  <2>1. /\ kv_populated' = [kv_populated EXCEPT ![l] = token_position + 1]
        /\ gdn_position' = gdn_position /\ conv_cursor' = conv_cursor
        /\ gdn_s' = gdn_s /\ conv_history' = conv_history
        /\ kv' = [kv EXCEPT ![l] = Written(kv[l], token_position, unit.tokens)]
        /\ l \in AttnLayer /\ kv_populated[l] = token_position /\ token_position < Capacity
    BY <1>1, <1>2, <1>7, LayersFact DEF CommitLayer, ExecuteLayer, LayerAccepts
  <2>2. l # 0 /\ log' = log
    BY <1>1, <1>7, FirstLayer
  <2>3. \A m \in GdnLayer : GdnOwn(m)'
    BY <2>1, <2>2 DEF Settled, GdnOwn, Phased
  <2>4. \A i \in 1 .. token_position + 1 : kv'[l][i - 1] = log'[i]
    <3>1. ASSUME NEW i \in 1 .. token_position + 1 PROVE kv'[l][i - 1] = log'[i]
      <4>1. i - 1 \in 0 .. Capacity - 1 /\ i \in Nat
        BY <1>3, <2>1, CapacityAssumption
      <4>2. kv'[l][i - 1] = IF i - 1 >= token_position /\ i - 1 < token_position + 1
                            THEN unit.tokens[i - 1 - token_position + 1] ELSE kv[l][i - 1]
        BY <1>2, <1>3, <2>1, <4>1 DEF Written
      <4>3. CASE i = token_position + 1
        <5>1. i - 1 - token_position + 1 = 1 /\ i - 1 >= token_position
              /\ i - 1 < token_position + 1
          BY <1>3, <4>3
        <5> QED BY <1>4, <4>2, <4>3, <5>1
      <4>4. CASE i # token_position + 1
        <5>1. i \in 1 .. token_position /\ ~(i - 1 >= token_position)
          BY <1>3, <4>1, <4>4
        <5>2. kv[l][i - 1] = log[i]
          BY <1>1, <2>1, <5>1 DEF Settled, AttnOwn
        <5> QED BY <2>2, <4>2, <5>1, <5>2
      <4> QED BY <4>3, <4>4
    <3> QED BY <3>1
  <2>5. AttnOwn(l)'
    BY <1>1, <1>3, <1>4, <2>1, <2>4 DEF AttnOwn
  <2>6. ASSUME NEW m \in AttnLayer, m # l PROVE AttnOwn(m)'
    <3>1. AttnOwn(m) /\ kv'[m] = kv[m] /\ kv_populated'[m] = kv_populated[m]
      BY <1>3, <2>1, <2>6 DEF Settled
    <3> QED BY <1>1, <2>1, <2>2, <3>1 DEF AttnOwn
  <2> QED BY <1>3, <1>4, <2>1, <2>2, <2>3, <2>5, <2>6 DEF Settled
<1> QED BY <1>6, <1>7

LEMMA DataTrace ==
  ASSUME TInv, DataInv, Trace
  PROVE  DataInv'
<1>1. pc \in {"idle", "trace"} /\ saved' = saved /\ foreign' = foreign
  BY DEF Trace, BeginTrace, TraceLayer, RunTracedLayer, TraceLayerFails, metadata,
         TraceLayerFailsLate, TraceAbandoned, CommitTracedToken, sessionVars
<1>2. SavedShape'
  BY <1>1 DEF DataInv, SavedShape, SettledRecord
<1>3. SUFFICES ASSUME ~poisoned' PROVE StateShape'
  BY <1>1, <1>2 DEF DataInv, StateShape
<1>4. CASE \E t \in Token : BeginTrace(t)
  <2>1. /\ ~poisoned /\ sessionVars' = sessionVars /\ pc' = "trace" /\ unit'.offset = 0
    BY <1>4 DEF BeginTrace
  <2>2. Settled
    BY <1>1, <1>3, <2>1 DEF DataInv, StateShape
  <2>3. \A l \in AttnLayer : AttnOwn(l)'
    <3>1. ASSUME NEW l \in AttnLayer PROVE Valid(l)' = token_position /\ token_position <= Valid(l)
      BY <1>4, <2>1, <2>2 DEF BeginTrace, LayersAt, Valid, Settled, AttnOwn, sessionVars, metadata
    <3>2. token_position \in Nat /\ \A l \in AttnLayer : Valid(l) \in Nat
      BY CapacityAssumption DEF TInv, Core, TypeOK, SessionTypeOK, Valid
    <3> QED BY <2>1, <2>2, <3>1, <3>2 DEF Settled, AttnOwn, sessionVars, metadata, device
  <2> QED BY <2>1, <2>2, <2>3 DEF StateShape, Settled, GdnOwn, Phased, InTrace, Busy,
                                 sessionVars, metadata, device
<1>5. CASE TraceLayer
  <2>1. /\ pc = "trace" /\ pc' = "trace" /\ RunTracedLayer /\ poisoned' = poisoned
        /\ unit' = [unit EXCEPT !.offset = unit.offset + 1]
        /\ token_position' = token_position
    BY <1>5 DEF TraceLayer, RunTracedLayer
  <2>2. Settled /\ InTrace
    BY <1>3, <2>1 DEF DataInv, StateShape
  <2>3. unit'.tokens = unit.tokens
    BY <2>1 DEF TInv, Core, TypeOK, UnitType
  <2>4. Settled' /\ InTrace'
    BY <1>1, <2>1, <2>2, <2>3, DataTraceLayer DEF Settled, InTrace
  <2> QED BY <2>1, <2>4 DEF StateShape, Busy
<1>6. CASE TraceAbandoned
  <2>1. /\ pc = "trace" /\ pc' = "idle" /\ sessionVars' = sessionVars
    BY <1>6 DEF TraceAbandoned, EndTrace
  <2>2. Settled
    BY <1>3, <2>1 DEF DataInv, StateShape, sessionVars
  <2>3. \A l \in AttnLayer : AttnOwn(l)'
    <3>1. ASSUME NEW l \in AttnLayer
          PROVE  Valid(l)' \in {token_position, Valid(l)} /\ token_position <= Valid(l)
      BY <2>1, <2>2 DEF Valid, Settled, AttnOwn, sessionVars, metadata
    <3>2. token_position \in Nat /\ \A l \in AttnLayer : Valid(l) \in Nat
      BY CapacityAssumption DEF TInv, Core, TypeOK, SessionTypeOK, Valid
    <3> QED BY <2>1, <2>2, <3>1, <3>2 DEF Settled, AttnOwn, sessionVars, metadata, device
  <2> QED BY <2>1, <2>2, <2>3 DEF StateShape, Settled, GdnOwn, Phased, Busy,
                                 sessionVars, metadata, device
<1>7. CASE CommitTracedToken
  <2>1. /\ pc = "trace" /\ pc' = "idle" /\ token_position' = token_position + 1
        /\ log' = log /\ gdn_position' = gdn_position /\ kv_populated' = kv_populated
        /\ conv_cursor' = conv_cursor /\ device' = device /\ poisoned' = poisoned
        /\ LayersAt(unit.first + 1)
    BY <1>7 DEF CommitTracedToken, EndTrace
  <2>2. Settled /\ unit.first = token_position
    BY <1>3, <2>1 DEF DataInv, StateShape, TInv, Core, TraceShape
  <2>3. token_position' <= Len(log') /\ token_position \in Nat
    BY <2>1, <2>2, FirstLayer, CapacityAssumption
       DEF Settled, LayersAt, TInv, Core, TypeOK, SessionTypeOK
  <2>4. \A l \in AttnLayer : AttnOwn(l)'
    <3>1. ASSUME NEW l \in AttnLayer
          PROVE  Valid(l)' = token_position + 1 /\ Valid(l) = token_position + 1
      BY <2>1, <2>2, LayersFact DEF Valid, LayersAt
    <3> QED BY <2>1, <2>2, <2>3, <3>1 DEF Settled, AttnOwn, device
  <2> QED BY <1>1, <2>1, <2>2, <2>3, <2>4 DEF StateShape, Settled, GdnOwn, Phased, Busy, device
<1>8. CASE TraceLayerFails \/ TraceLayerFailsLate
  BY <1>3, <1>8 DEF TraceLayerFails, TraceLayerFailsLate
<1> QED BY <1>4, <1>5, <1>6, <1>7, <1>8 DEF Trace

\* What a reset leaves, and what a restore puts back, is settled; a snapshot
\* taken between units is too.
LEMMA DataCall ==
  ASSUME TInv, DataInv, CallSession \/ CallShutdown \/ CallOverride
  PROVE  DataInv'
<1>1. pc = "idle" /\ pc' = pc
  BY DEF CallSession, CallShutdown, CallOverride, HostMayCall, SessionOps, TInv, Core,
         Shape, Busy, unitVars, ResetSucceeds, ResetFails, SaveSucceeds, SaveFails,
         RestoreSucceeds, RestoreFails, Shutdown, SetPopulated, SetConvCursor
<1>2. SUFFICES /\ SavedShape'
               /\ ~poisoned' => Settled'
  BY <1>1 DEF DataInv, StateShape, Busy
<1>3. ~poisoned => Settled
  BY <1>1 DEF DataInv, StateShape
<1>4. CASE CallSession /\ SaveSucceeds
  <2>1. /\ saved' = Snapshot /\ ~poisoned /\ poisoned' = poisoned
        /\ foreign' = foreign /\ metadata' = metadata /\ device' = device /\ log' = log
    BY <1>4 DEF SaveSucceeds
  <2>2. Settled' <=> Settled
    BY <1>1, <2>1 DEF Settled, GdnOwn, AttnOwn, Valid, Phased, metadata, device
  <2>3. SettledRecord(Snapshot)
    BY <1>1, <1>3, <2>1, SettledIsRecord
  <2>4. SavedShape'
    BY <2>1, <2>3 DEF SavedShape
  <2> QED BY <1>3, <2>1, <2>2, <2>4
<1>5. CASE ~(CallSession /\ SaveSucceeds)
  <2>1. saved' = saved
    BY <1>5 DEF CallSession, CallShutdown, CallOverride, SessionOps, ResetSucceeds, ResetFails,
         SaveFails, RestoreSucceeds, RestoreFails, Shutdown, SetPopulated, SetConvCursor
  <2>2. SavedShape'
    BY <2>1 DEF DataInv, SavedShape, SettledRecord
  <2>3. CASE CallSession /\ ResetSucceeds
    <3>1. /\ log' = <<>> /\ gdn_position' = GdnZero /\ kv_populated' = AttnZero
          /\ token_position' = 0 /\ conv_cursor' = GdnZero
          /\ gdn_s' = NoTokens /\ conv_history' = NoTokens
      BY <2>3 DEF ResetSucceeds, ReplaceRegions
    <3>2. Len(log') = 0 /\ Prefix(log', 0) = <<>>
      <4>1. <<>> \in Seq(Token) /\ Len(<<>>) = 0
        BY EmptySeq
      <4>2. Prefix(log', 0) = <<>>
        BY SubSeqEmpty, 1 \in Int, 0 \in Int DEF Prefix
      <4> QED BY <3>1, <4>1, <4>2
    <3>3. 0 % Taps = 0
      BY DEF Taps
    <3>4. Settled'
      BY <3>1, <3>2, <3>3, FirstLayer
         DEF Settled, GdnOwn, AttnOwn, Valid, GdnZero, AttnZero, NoTokens
    <3> QED BY <2>2, <3>4
  <2>4. CASE CallSession /\ RestoreSucceeds
    <3>1. /\ saved # NoSnapshot
          /\ log' = saved.log /\ foreign' = saved.foreign
          /\ gdn_position' = saved.gdn_position /\ kv_populated' = saved.kv_populated
          /\ token_position' = saved.token_position /\ conv_cursor' = saved.conv_cursor
          /\ gdn_s' = saved.gdn_s /\ conv_history' = saved.conv_history /\ kv' = saved.kv
      BY <2>4 DEF RestoreSucceeds, ReplaceRegions, Restorable
    <3>2. SettledRecord(saved)
      BY <3>1 DEF DataInv, SavedShape
    <3>3. Settled'
      BY <1>1, <3>1, <3>2 DEF Settled, GdnOwn, AttnOwn, Valid, Phased, SettledRecord
    <3> QED BY <2>2, <3>3
  <2>5. CASE CallSession /\ (ResetFails \/ SaveFails \/ RestoreFails)
    BY <2>2, <2>5 DEF ResetFails, SaveFails, RestoreFails
  <2>6. CASE CallShutdown
    BY <1>1, <1>3, <2>2, <2>6 DEF CallShutdown, Shutdown, Settled, GdnOwn, AttnOwn, Valid,
                                  Phased, metadata, device
  <2>7. CASE CallOverride
    <3>1. /\ foreign' = TRUE /\ ~poisoned /\ log' = log /\ gdn_position' = gdn_position
          /\ token_position' = token_position /\ device' = device
          /\ conv_cursor' = conv_cursor \/ "cursor" \in Overrides
      BY <2>7 DEF CallOverride, SetPopulated, SetConvCursor
    <3>2. \A l \in GdnLayer : GdnOwn(l)'
      BY <1>3, <3>1 DEF Settled, GdnOwn, Phased, device
    <3>3. \A l \in AttnLayer : AttnOwn(l)'
      <4>1. ASSUME NEW l \in AttnLayer PROVE Valid(l)' = token_position /\ token_position <= Valid(l)
        BY <1>1, <1>3, <3>1 DEF Valid, Settled, AttnOwn
      <4>2. token_position \in Nat /\ \A l \in AttnLayer : Valid(l) \in Nat
        BY CapacityAssumption DEF TInv, Core, TypeOK, SessionTypeOK, Valid
      <4> QED BY <1>3, <3>1, <4>1, <4>2 DEF Settled, AttnOwn, device
    <3>4. Settled'
      BY <1>3, <3>1, <3>2, <3>3 DEF Settled
    <3> QED BY <2>2, <3>4
  <2> QED BY <1>5, <2>3, <2>4, <2>5, <2>6, <2>7 DEF CallSession, SessionOps
<1> QED BY <1>4, <1>5

\* A step that leaves the session, and the layers a unit has executed, alone.
LEMMA DataQuiet ==
  ASSUME TInv, DataInv, metadata' = metadata, device' = device, log' = log,
         foreign' = foreign, saved' = saved,
         poisoned' = poisoned, pc \in Busy, pc' \in Busy,
         unit'.first = unit.first, unit'.offset = unit.offset,
         unit'.tokens = unit.tokens, unit'.cursor = unit.cursor,
         executed' = executed \/ (executed' \in {0, 1, 2} /\ executed \in {0, 1, 2})
  PROVE  DataInv'
<1>1. SavedShape'
  BY DEF DataInv, SavedShape, SettledRecord
<1>2. SUFFICES ASSUME ~poisoned PROVE InUnit'
  BY <1>1 DEF DataInv, StateShape, Busy
<1>3. InUnit
  BY <1>2 DEF DataInv, StateShape
<1>4. Chunk' = Chunk
  BY SameUnit
<1>5. ASSUME NEW l \in Layer PROVE Held(l)'
  <2>1. executed' > 2 + l <=> executed > 2 + l
    BY LayersFact
  <2>2. Held(l)
    BY <1>3 DEF InUnit
  <2> QED BY <1>4, <2>1, <2>2 DEF Held, Phased, LayerHolds, RecurrentHolds, RowHolds, device
<1> QED BY <1>3, <1>5 DEF InUnit, Phased, metadata

LEMMA DataStep ==
  ASSUME TInv, DataInv, [Next]_vars
  PROVE  DataInv'
<1>0. \A k \in {"graph", "enqueue"} : k \in Busy
  BY DEF Busy
<1>1. CASE BeginUnit
  BY <1>0, <1>1, DataBegin
     DEF BeginUnit, BeginEagerDecode, BeginGraphDecode, BeginPrefill
<1>2. CASE ReuseGraph \/ BuildGraph \/ UploadControls \/ LaunchGraph \/ EnqueueStep
           \/ CompleteUnit \/ DeviceFault
  <2>1. pc \in Busy /\ pc' \in Busy
    <3>1. CASE DeviceFault
      BY <3>1 DEF DeviceFault, DeviceMayRun, TInv, Core, TypeOK, Shape, Busy
    <3>2. CASE ~DeviceFault
      BY <1>2, <3>2 DEF ReuseGraph, BuildGraph, UploadControls, LaunchGraph, EnqueueStep,
                        CompleteUnit, Busy
    <3> QED BY <3>1, <3>2
  <2>2. unit' = unit /\ executed' = executed /\ sessionVars' = sessionVars
    BY <1>2 DEF ReuseGraph, BuildGraph, UploadControls, LaunchGraph, EnqueueStep,
                CompleteUnit, DeviceFault
  <2> QED BY <2>1, <2>2, DataQuiet DEF sessionVars
<1>3. CASE SinkReturns
  <2>1. /\ pc \in Busy /\ pc' \in Busy /\ sessionVars' = sessionVars
        /\ unit' = [unit EXCEPT !.rows = unit.rows \ {NextRow}] /\ executed' = executed
    BY <1>3 DEF SinkReturns, Busy
  <2>2. /\ unit'.first = unit.first /\ unit'.offset = unit.offset
        /\ unit'.tokens = unit.tokens /\ unit'.cursor = unit.cursor
    BY <2>1 DEF TInv, Core, TypeOK, UnitType
  <2> QED BY <2>1, <2>2, DataQuiet DEF sessionVars
<1>4. CASE GraphFails
  <2>1. /\ pc \in Busy /\ pc' \in Busy /\ poisoned' = FALSE
        /\ metadata' = metadata /\ device' = device /\ log' = log
        /\ foreign' = foreign /\ saved' = saved
        /\ unit' = [unit EXCEPT !.kind = "decode"] /\ executed' = 1 /\ pc = "graph"
    BY <1>4 DEF GraphFails, Busy
  <2>2. /\ unit'.first = unit.first /\ unit'.offset = unit.offset
        /\ unit'.tokens = unit.tokens /\ unit'.cursor = unit.cursor
    BY <2>1 DEF TInv, Core, TypeOK, UnitType
  <2>3. executed = 0 /\ poisoned = FALSE
    BY <2>1, LayersFact DEF TInv, Core, TypeOK, SessionTypeOK, Shape
  <2> QED BY <2>1, <2>2, <2>3, DataQuiet
<1>5. CASE EnqueueFails \/ CompleteFails \/ SinkFails
  BY <1>5 DEF EnqueueFails, CompleteFails, SinkFails, FailUnit, DataInv, StateShape,
              SavedShape, SettledRecord
<1>6. CASE Drain
  <2>1. poisoned' = poisoned /\ saved' = saved /\ poisoned
    BY <1>6 DEF Drain, TInv, Core, Shape, Busy
  <2> QED BY <2>1 DEF DataInv, StateShape, SavedShape, SettledRecord
<1>7. CASE Commit
  <2>1. /\ pc = "commit" /\ poisoned' = poisoned /\ foreign' = foreign /\ saved' = saved
    BY <1>7 DEF Commit
  <2>2. SavedShape'
    BY <2>1 DEF DataInv, SavedShape, SettledRecord
  <2>3. SUFFICES ASSUME ~poisoned PROVE StateShape'
    BY <2>1, <2>2 DEF DataInv, StateShape
  <2>4. InUnit
    BY <2>1, <2>3 DEF DataInv, StateShape, Busy
  <2> QED BY <1>7, <2>4, DataCommit DEF StateShape, Busy
<1>8. CASE DeviceStep
  <2>1. pc \in Busy /\ pc' = pc /\ unit' = unit
    BY <1>8 DEF DeviceStep, ExecuteUpload, ExecuteInput, Execute, DeviceMayRun, TInv, Core,
                TypeOK, Shape, Busy
  <2>2. CASE ExecuteUpload \/ ExecuteInput
    <3>1. /\ sessionVars' = sessionVars /\ executed \in {0, 1} /\ executed' \in {1, 2}
      BY <2>2 DEF ExecuteUpload, ExecuteInput
    <3> QED BY <2>1, <3>1, DataQuiet DEF sessionVars
  <2>3. ASSUME NEW l \in Layer, Execute(l) PROVE DataInv'
    <3>1. poisoned' = poisoned /\ foreign' = foreign /\ saved' = saved
      BY <2>3 DEF Execute
    <3>2. SavedShape'
      BY <3>1 DEF DataInv, SavedShape, SettledRecord
    <3>3. ~poisoned => InUnit'
      BY <2>1, <2>3, DataExecute DEF DataInv, StateShape
    <3> QED BY <2>1, <3>1, <3>2, <3>3 DEF DataInv, StateShape, Busy
  <2> QED BY <1>8, <2>2, <2>3 DEF DeviceStep
<1>9. CASE Trace
  BY <1>9, DataTrace
<1>10. CASE CallSession \/ CallShutdown \/ CallOverride
  BY <1>10, DataCall
<1>11. CASE UNCHANGED vars
  <2>1. /\ unit' = unit /\ executed' = executed /\ sessionVars' = sessionVars /\ pc' = pc
    BY <1>11 DEF vars, unitVars
  <2>2. CASE pc \in Busy
    BY <2>1, <2>2, DataQuiet DEF sessionVars
  <2>3. CASE pc \notin Busy
    <3>1. SavedShape' <=> SavedShape
      BY <2>1 DEF sessionVars, SavedShape, SettledRecord
    <3>2. Settled' <=> Settled
      BY <2>1 DEF Settled, GdnOwn, AttnOwn, Valid, Phased, sessionVars, metadata, device
    <3>3. InTrace' <=> InTrace
      BY <2>1 DEF InTrace, sessionVars, metadata
    <3>4. pc' \notin Busy /\ poisoned' = poisoned /\ foreign' = foreign
      BY <2>1, <2>3 DEF sessionVars, Busy
    <3> QED BY <2>1, <3>1, <3>2, <3>3, <3>4 DEF DataInv, StateShape
  <2> QED BY <2>2, <2>3
<1> QED BY <1>1, <1>2, <1>3, <1>4, <1>5, <1>6, <1>7, <1>8, <1>9, <1>10, <1>11
        DEF Next, HostStep, Sink

LEMMA DataAlways == Spec => []DataInv
BY DataInit, DataStep, TInvAlways, PTL DEF Spec

\* Between units, a session that is not poisoned holds exactly the log.
THEOREM StateFollowsLog == Spec => []StateMatchesLog
<1>1. TInv /\ DataInv => StateMatchesLog
  BY SettledIsConsistent DEF StateMatchesLog, DataInv, StateShape, TInv, Core
<1> QED BY <1>1, TInvAlways, DataAlways, PTL

\* A snapshot agrees with its own log, whenever it was taken.
THEOREM SnapshotsAreConsistent == Spec => []SnapshotConsistent
<1>1. TInv /\ DataInv => SnapshotConsistent
  BY RecordIsConsistent DEF SnapshotConsistent, DataInv, SavedShape, TInv, Core, TypeOK,
                            SessionTypeOK
<1> QED BY <1>1, TInvAlways, DataAlways, PTL

\* Logits are delivered, and counters committed, on top of the whole chunk.
THEOREM ReadoutsAreWhole == Spec => []ReadoutSeesWholeChunk
<1>1. TInv /\ DataInv => ReadoutSeesWholeChunk
  <2> SUFFICES ASSUME TInv, DataInv, pc \in {"sink", "commit"}, ~foreign, NEW l \in Layer
               PROVE  LayerHolds(l, log \o Chunk)
    BY DEF ReadoutSeesWholeChunk
  <2>1. pc \in Busy /\ ~poisoned /\ executed = LastStep
    BY DEF TInv, Core, Shape, Busy
  <2>2. Held(l)
    BY <2>1 DEF DataInv, StateShape, InUnit
  <2>3. executed > 2 + l
    BY <2>1, LayersFact DEF LastStep, Layer
  <2> QED BY <2>2, <2>3 DEF Held, Phased
<1> QED BY <1>1, TInvAlways, DataAlways, PTL

\* No counter moves and nothing is saved while a session is poisoned; only a
\* reset or a restore ends that, and both leave a session that follows its log.
THEOREM PoisonIsFinal == Spec => PoisonForbidsProgress
<1>1. ASSUME TInv, StateMatchesLog', [Next]_vars, poisoned
      PROVE  \/ poisoned' /\ UNCHANGED <<metadata, saved>>
             \/ ~poisoned' /\ StateMatchesLog' /\ pc' = "idle"
  <2>1. StateMatchesLog'
    BY <1>1
  <2>2. pc \in {"drain", "idle"}
    BY <1>1 DEF TInv, Core, TypeOK, Shape, Busy
  <2>3. CASE DeviceStep \/ DeviceFault \/ Drain
    BY <1>1, <2>3 DEF DeviceStep, ExecuteUpload, ExecuteInput, Execute, DeviceFault, Drain,
                      sessionVars
  <2>4. CASE CallSession
    <3>1. CASE ResetSucceeds \/ RestoreSucceeds
      <4>1. pc = "idle" /\ pc' = pc
        BY <2>4, <3>1, <1>1 DEF CallSession, ResetSucceeds, RestoreSucceeds, unitVars,
                                HostMayCall, TInv, Core, Shape, Busy
      <4>2. ~poisoned'
        BY <3>1 DEF ResetSucceeds, RestoreSucceeds
      <4> QED BY <2>1, <4>1, <4>2
    <3>2. CASE ResetFails \/ RestoreFails
      BY <3>2 DEF ResetFails, RestoreFails
    <3>3. CASE SaveSucceeds \/ SaveFails
      BY <1>1, <3>3 DEF SaveSucceeds, SaveFails
    <3> QED BY <2>4, <3>1, <3>2, <3>3 DEF CallSession, SessionOps
  <2>5. CASE CallShutdown \/ UNCHANGED vars
    BY <1>1, <2>5 DEF CallShutdown, Shutdown, vars, sessionVars
  <2>6. CASE CallOverride \/ Trace \/ BeginUnit
    BY <1>1, <2>2, <2>6
       DEF CallOverride, SetPopulated, SetConvCursor, Trace, BeginTrace, TraceLayer,
           RunTracedLayer, TraceLayerFails, TraceLayerFailsLate, TraceAbandoned,
           CommitTracedToken, BeginUnit, BeginEagerDecode, BeginGraphDecode, BeginPrefill,
           Begin, Accepts
  <2>7. ~(Sink \/ ReuseGraph \/ BuildGraph \/ GraphFails \/ UploadControls \/ LaunchGraph
            \/ EnqueueStep \/ EnqueueFails \/ CompleteUnit \/ CompleteFails \/ Commit)
    BY <2>2 DEF Sink, SinkReturns, SinkFails, ReuseGraph, BuildGraph, GraphFails,
                UploadControls, LaunchGraph, EnqueueStep, EnqueueFails, CompleteUnit,
                CompleteFails, Commit
  <2> QED BY <1>1, <2>3, <2>4, <2>5, <2>6, <2>7 DEF Next, HostStep
<1>2. TInv /\ StateMatchesLog' /\ [Next]_vars =>
        [poisoned => \/ poisoned' /\ UNCHANGED <<metadata, saved>>
                     \/ ~poisoned' /\ StateMatchesLog' /\ pc' = "idle"]_vars
  BY <1>1
<1> QED BY <1>2, TInvAlways, StateFollowsLog, PTL DEF Spec, PoisonForbidsProgress

-----------------------------------------------------------------------------
(* Populated lengths set by the host program.                                *)

\* A host program that sets populated lengths can hold a session up, but not
\* make a unit run where a layer stands elsewhere, nor lose what lies below the
\* token position.
THEOREM PopulatedOverridesAreHarmless == Spec => []PopulatedOverrideIsHarmless
<1>1. TInv /\ DataInv => PopulatedOverrideIsHarmless
  <2> SUFFICES ASSUME TInv, DataInv, Overrides \subseteq {"populated"}
               PROVE  /\ busy => LayersAt(Position)
                      /\ (pc \in {"idle", "trace"} /\ ~poisoned) =>
                            Consistent([Snapshot EXCEPT !.kv_populated =
                                [l \in AttnLayer |-> Smaller(kv_populated[l], token_position)]])
    BY DEF PopulatedOverrideIsHarmless
  <2>1. busy => LayersAt(Position)
    BY DEF TInv, Core, Shape, Boundary, Position
  <2>2. ASSUME pc \in {"idle", "trace"}, ~poisoned
        PROVE  Consistent([Snapshot EXCEPT !.kv_populated =
                   [l \in AttnLayer |-> Smaller(kv_populated[l], token_position)]])
    <3> DEFINE kept == [l \in AttnLayer |-> Smaller(kv_populated[l], token_position)]
               s == [Snapshot EXCEPT !.kv_populated = kept]
    <3>1. Settled
      BY <2>2 DEF DataInv, StateShape
    <3>2. /\ s.token_position = token_position /\ s.log = log /\ s.kv_populated = kept
          /\ s.gdn_position = gdn_position /\ s.gdn_s = gdn_s
          /\ s.conv_history = conv_history /\ s.conv_cursor = conv_cursor /\ s.kv = kv
      BY DEF Snapshot
    <3>3. /\ log \in Seq(Token) /\ Len(log) \in Nat /\ token_position \in Nat
          /\ \A l \in AttnLayer : kv_populated[l] \in Nat /\ Valid(l) \in Nat
      BY LenProperties, CapacityAssumption DEF TInv, Core, TypeOK, SessionTypeOK, Valid
    <3>4. ASSUME NEW l \in AttnLayer
          PROVE  kept[l] <= Len(log) /\ RowHolds(kv[l], Prefix(log, kept[l]))
      <4>1. kept[l] \in Nat /\ kept[l] <= token_position
        BY <3>3 DEF Smaller
      <4>2. /\ token_position <= Valid(l) /\ Valid(l) <= Len(log)
            /\ \A i \in 1 .. Valid(l) : kv[l][i - 1] = log[i]
        BY <3>1 DEF Settled, AttnOwn
      <4>3. \A i \in 1 .. kept[l] : kv[l][i - 1] = log[i]
        BY <3>3, <4>1, <4>2
      <4>4. kept[l] <= Len(log)
        BY <3>3, <4>1, <4>2
      <4> HIDE DEF kept
      <4> QED BY <3>3, <4>1, <4>3, <4>4, RowPrefix
    <3>5. Phased(foreign)
      BY DEF Phased
    <3> HIDE DEF kept, s
    <3>6. Consistent(s)
      BY <3>1, <3>2, <3>4, <3>5 DEF Consistent, Settled, GdnOwn
    <3> QED BY <3>6 DEF s, kept
  <2> QED BY <2>1, <2>2
<1> QED BY <1>1, TInvAlways, DataAlways, PTL

-----------------------------------------------------------------------------
(* The refinement of TokenLog.                                               *)

\* The cached words that agree with a log are a prefix of it.
LEMMA RowIsPrefix ==
  ASSUME NEW row, NEW s \in Seq(Token), NEW n \in Nat, n <= Len(s),
         \A i \in 1 .. n : row[i - 1] = s[i]
  PROVE  [i \in 1 .. n |-> row[i - 1]] = Prefix(s, n)
<1>1. /\ Prefix(s, n) \in Seq(Token) /\ Len(Prefix(s, n)) = n
      /\ \A i \in 1 .. n : Prefix(s, n)[i] = s[i]
  BY PrefixFact
<1>2. Prefix(s, n) \in [1 .. n -> Token]
  BY <1>1, LenProperties
<1> QED BY <1>1, <1>2

\* The log a caller sees, in the terms of the session's own.
SeenShape ==
    /\ ~poisoned =>
          /\ token_position <= Len(log)
          /\ CachedTokens(Snapshot) = Prefix(log, token_position)
    /\ saved # NoSnapshot =>
          /\ saved.token_position <= Len(saved.log)
          /\ CachedTokens(saved) = Prefix(saved.log, saved.token_position)

\* A session that is not poisoned caches exactly the tokens of its units.
LEMMA CachedIsPrefix ==
  ASSUME TInv, DataInv, ~poisoned
  PROVE  /\ token_position \in Nat /\ token_position <= Len(log)
         /\ CachedTokens(Snapshot) = Prefix(log, token_position)
<1> DEFINE row == kv[AttentionPeriod - 1]
<1>1. /\ log \in Seq(Token) /\ Len(log) \in Nat /\ token_position \in Nat
      /\ AttentionPeriod - 1 \in AttnLayer /\ AttentionPeriod - 1 \in Layer
      /\ AttentionPeriod - 1 \notin GdnLayer /\ Valid(AttentionPeriod - 1) \in Nat
  BY LenProperties, CapacityAssumption, AttnExists, LayersFact
     DEF TInv, Core, TypeOK, SessionTypeOK, Valid, AttnLayer, GdnLayer
<1>2. token_position <= Len(log) /\ \A i \in 1 .. token_position : row[i - 1] = log[i]
  <2>1. CASE pc \in {"idle", "trace"}
    BY <1>1, <2>1 DEF DataInv, StateShape, Settled, AttnOwn
  <2>2. CASE pc \in Busy
    <3>1. InUnit
      BY <2>2 DEF DataInv, StateShape
    <3>2. RowHolds(row, IF executed > 2 + (AttentionPeriod - 1) THEN log \o Chunk ELSE log)
      BY <1>1, <3>1 DEF InUnit, Held, LayerHolds
    <3>3. Chunk \in Seq(Token)
      BY <2>2, ChunkFact DEF TInv, Core, TypeOK, Boundary
    <3>4. /\ Len(log \o Chunk) = Len(log) + Len(Chunk) /\ Len(Chunk) \in Nat
          /\ \A i \in 1 .. Len(log) : (log \o Chunk)[i] = log[i]
      BY <1>1, <3>3, ConcatProperties, LenProperties
    <3>5. RowHolds(row, log)
      <4> HIDE DEF row
      <4> QED BY <1>1, <3>2, <3>4 DEF RowHolds
    <3> QED BY <1>1, <3>1, <3>5 DEF InUnit, RowHolds
  <2> QED BY <2>1, <2>2 DEF TInv, Core, TypeOK, Busy
<1>3. CachedTokens(Snapshot) = [i \in 1 .. token_position |-> row[i - 1]]
  BY DEF CachedTokens, Snapshot
<1>4. [i \in 1 .. token_position |-> row[i - 1]] = Prefix(log, token_position)
  <2> HIDE DEF row
  <2> QED BY <1>1, <1>2, RowIsPrefix
<1> QED BY <1>1, <1>2, <1>3, <1>4

\* So does a snapshot.
LEMMA SavedIsPrefix ==
  ASSUME TInv, DataInv, saved # NoSnapshot
  PROVE  /\ saved \in SnapshotType
         /\ saved.token_position \in Nat /\ saved.token_position <= Len(saved.log)
         /\ CachedTokens(saved) = Prefix(saved.log, saved.token_position)
<1> DEFINE row == saved.kv[AttentionPeriod - 1]
<1>1. /\ saved \in SnapshotType /\ saved.log \in Seq(Token) /\ Len(saved.log) \in Nat
      /\ saved.token_position \in Nat /\ AttentionPeriod - 1 \in AttnLayer
      /\ \A l \in AttnLayer : saved.kv_populated[l] \in Nat
  BY LenProperties, CapacityAssumption, AttnExists
     DEF TInv, Core, TypeOK, SessionTypeOK, SnapshotType
<1>2. /\ saved.token_position <= Len(saved.log)
      /\ \A i \in 1 .. saved.token_position : row[i - 1] = saved.log[i]
  BY <1>1 DEF DataInv, SavedShape, SettledRecord
<1>3. [i \in 1 .. saved.token_position |-> row[i - 1]] =
          Prefix(saved.log, saved.token_position)
  <2> DEFINE n == saved.token_position
             tokens == saved.log
  <2>1. /\ tokens \in Seq(Token) /\ n \in Nat /\ n <= Len(tokens)
        /\ \A i \in 1 .. n : row[i - 1] = tokens[i]
    BY <1>1, <1>2
  <2> HIDE DEF row, n, tokens
  <2>2. [i \in 1 .. n |-> row[i - 1]] = Prefix(tokens, n)
    BY <2>1, RowIsPrefix
  <2> QED BY <2>2 DEF n, tokens
<1> QED BY <1>1, <1>2, <1>3 DEF CachedTokens

\* What a step does to the log a caller sees: nothing, take it away, append a
\* unit to it, or what a call of the session's own asks for.
Unseen   == /\ poisoned' = poisoned /\ saved' = saved
            /\ token_position' = token_position
            /\ token_position <= Len(log) =>
                  Prefix(log', token_position) = Prefix(log, token_position)
Failed   == poisoned' /\ saved' = saved
Appended == /\ ~poisoned /\ ~poisoned' /\ saved' = saved
            /\ token_position' > token_position
            /\ token_position <= Len(log) =>
                  Prefix(log', token_position) = Prefix(log, token_position)

LEMMA StepEffect ==
  ASSUME TInv, DataInv, [Next]_vars
  PROVE  Unseen \/ Failed \/ Appended \/ (CallSession /\ SessionOps)
<1>1. /\ log \in Seq(Token) /\ token_position \in Nat /\ Len(log) \in Nat
      /\ poisoned \in BOOLEAN
  BY LenProperties, CapacityAssumption DEF TInv, Core, TypeOK, SessionTypeOK
<1>2. CASE \/ ReuseGraph \/ BuildGraph \/ UploadControls \/ LaunchGraph \/ EnqueueStep
           \/ CompleteUnit \/ DeviceFault \/ Drain \/ DeviceStep \/ SinkReturns \/ BeginUnit
           \/ TraceAbandoned \/ (\E t \in Token : BeginTrace(t)) \/ CallShutdown
           \/ CallOverride \/ UNCHANGED vars
  <2>1. /\ poisoned' = poisoned /\ saved' = saved
        /\ token_position' = token_position /\ log' = log
    BY <1>2 DEF ReuseGraph, BuildGraph, UploadControls, LaunchGraph, EnqueueStep,
         CompleteUnit, DeviceFault, Drain, DeviceStep, ExecuteUpload, ExecuteInput,
         Execute, SinkReturns, BeginUnit, BeginEagerDecode, BeginGraphDecode,
         BeginPrefill, Begin, TraceAbandoned, BeginTrace, CallShutdown, Shutdown,
         CallOverride, SetPopulated, SetConvCursor, vars, sessionVars, metadata
  <2> QED BY <2>1 DEF Unseen
<1>3. CASE \/ EnqueueFails \/ CompleteFails \/ SinkFails \/ TraceLayerFails
           \/ TraceLayerFailsLate
  BY <1>3 DEF EnqueueFails, CompleteFails, SinkFails, FailUnit, TraceLayerFails,
              TraceLayerFailsLate, Failed
<1>4. CASE GraphFails
  <2>1. ~poisoned
    BY <1>4 DEF GraphFails, TInv, Core, Shape, Busy
  <2> QED BY <1>1, <1>4, <2>1 DEF GraphFails, Unseen, metadata
<1>5. CASE Commit
  <2>1. /\ pc \in Busy /\ ~poisoned /\ unit \in UnitType
        /\ unit.offset < Len(unit.tokens)
    BY <1>5 DEF Commit, Busy, TInv, Core, TypeOK, Shape, Boundary
  <2>2. Chunk \in Seq(Token) /\ Count \in Nat /\ Count > 0
    BY <2>1, ChunkFact
  <2>3. token_position <= Len(log) =>
            Prefix(log \o Chunk, token_position) = Prefix(log, token_position)
    BY <1>1, <2>2, PrefixOfConcat
  <2> QED BY <1>1, <1>5, <2>1, <2>2, <2>3 DEF Commit, CommitUnit, Appended
<1>6. CASE TraceLayer
  <2>1. /\ poisoned' = poisoned /\ saved' = saved /\ token_position' = token_position
        /\ log' = log \/ log' = log \o unit.tokens
    BY <1>6 DEF TraceLayer, RunTracedLayer
  <2>2. unit.tokens \in Seq(Token)
    BY DEF TInv, Core, TypeOK, UnitType
  <2>3. token_position <= Len(log) =>
            Prefix(log \o unit.tokens, token_position) = Prefix(log, token_position)
    BY <1>1, <2>2, PrefixOfConcat
  <2> QED BY <2>1, <2>3 DEF Unseen
<1>7. CASE CommitTracedToken
  BY <1>1, <1>7 DEF CommitTracedToken, EndTrace, TInv, Core, Shape, Appended
<1>8. CASE CallSession
  BY <1>8 DEF CallSession
<1> QED BY <1>2, <1>3, <1>4, <1>5, <1>6, <1>7, <1>8 DEF Next, HostStep, Sink, Trace

LEMMA SeenAlways == Spec => []SeenShape
<1>1. TInv /\ DataInv => SeenShape
  BY CachedIsPrefix, SavedIsPrefix DEF SeenShape
<1> QED BY <1>1, TInvAlways, DataAlways, PTL

\* Every step is a step of TokenLog, or none of its steps.
LEMMA PromiseStep ==
  ASSUME TInv, DataInv, SeenShape, [Next]_vars, TInv', SeenShape'
  PROVE  [Promise!Next]_(Promise!vars)
<1> DEFINE seen == IF poisoned THEN <<>> ELSE CachedTokens(Snapshot)
           kept == IF saved = NoSnapshot THEN NoSnapshot ELSE CachedTokens(saved)
<1>1. /\ poisoned \in BOOLEAN /\ poisoned' \in BOOLEAN
      /\ log \in Seq(Token) /\ log' \in Seq(Token)
      /\ token_position \in Nat /\ token_position' \in 0 .. Capacity
  BY CapacityAssumption DEF TInv, Core, TypeOK, SessionTypeOK
<1>2. /\ ~poisoned => seen = Prefix(log, token_position)
      /\ ~poisoned' => /\ seen' = Prefix(log', token_position')
                       /\ token_position' <= Len(log')
      /\ poisoned => seen = <<>>
      /\ poisoned' => seen' = <<>>
      /\ ~poisoned => token_position <= Len(log)
  BY DEF SeenShape
<1>3. saved' = saved => kept' = kept
  BY DEF CachedTokens
<1> HIDE DEF seen, kept
<1>4. ASSUME Unseen PROVE seen' = seen /\ kept' = kept /\ poisoned' = poisoned
  BY <1>2, <1>3, <1>4 DEF Unseen
<1>5. ASSUME Failed, ~poisoned PROVE Promise!Fail
  BY <1>2, <1>3, <1>5 DEF Failed, Promise!Fail, seen, kept
<1>6. ASSUME Failed, poisoned PROVE seen' = seen /\ kept' = kept /\ poisoned' = poisoned
  BY <1>1, <1>2, <1>3, <1>6 DEF Failed
<1>7. ASSUME Appended PROVE Promise!Extend
  <2>1. /\ seen = Prefix(log, token_position) /\ seen' = Prefix(log', token_position')
        /\ token_position <= Len(log) /\ token_position' <= Len(log')
        /\ token_position' \in Nat /\ token_position' <= Capacity
        /\ token_position' > token_position
        /\ kept' = kept /\ ~poisoned /\ ~poisoned'
        /\ Prefix(log', token_position) = Prefix(log, token_position)
    BY <1>1, <1>2, <1>3, <1>7, CapacityAssumption DEF Appended
  <2>2. /\ seen' \in Seq(Token)
        /\ Len(seen) = token_position /\ Len(seen') = token_position'
    BY <1>1, <2>1, PrefixFact
  <2>3. Prefix(seen', token_position) = seen
    BY <1>1, <2>1, PrefixOfPrefix
  <2>4. /\ seen' \in Seq(Token) /\ Len(seen') > Len(seen) /\ Len(seen') <= Capacity
        /\ SubSeq(seen', 1, Len(seen)) = seen
    BY <2>1, <2>2, <2>3 DEF Prefix
  <2> QED BY <2>1, <2>4 DEF Promise!Extend, Promise!IsExtension, seen, kept
<1>8. ASSUME SessionOps PROVE Promise!Next \/ UNCHANGED Promise!vars
  <2>1. CASE ResetSucceeds
    <3>1. token_position' = 0 /\ log' = <<>> /\ saved' = saved /\ ~poisoned'
      BY <2>1 DEF ResetSucceeds
    <3>2. Prefix(<<>>, 0) = <<>>
      BY <1>1, EmptySeq, PrefixFact
    <3>3. seen' = <<>> /\ kept' = kept
      BY <1>2, <1>3, <3>1, <3>2
    <3> QED BY <3>1, <3>3 DEF Promise!Reset, Promise!Next, seen, kept
  <2>2. CASE ResetFails \/ SaveFails \/ RestoreFails
    <3>1. Failed
      BY <2>2 DEF ResetFails, SaveFails, RestoreFails, Failed
    <3> QED BY <1>1, <1>5, <1>6, <3>1 DEF Promise!Next, Promise!vars, seen, kept
  <2>3. CASE SaveSucceeds
    <3>1. /\ saved' = Snapshot /\ ~poisoned /\ poisoned' = poisoned
          /\ metadata' = metadata /\ device' = device
      BY <2>3 DEF SaveSucceeds
    <3>2. Snapshot \in SnapshotType
      BY DEF Snapshot, SnapshotType, TInv, Core, TypeOK, SessionTypeOK
    <3>3. Snapshot # NoSnapshot
      BY <3>2, SnapshotAssumption
    <3>4. kept' = CachedTokens(Snapshot)
      BY <3>1, <3>3 DEF kept
    <3>5. seen' = seen /\ seen = CachedTokens(Snapshot)
      BY <3>1 DEF seen, CachedTokens, Snapshot, metadata, device
    <3> QED BY <3>1, <3>4, <3>5 DEF Promise!Save, Promise!Next, seen, kept
  <2>4. CASE RestoreSucceeds
    <3>1. /\ saved # NoSnapshot /\ saved' = saved /\ ~poisoned'
          /\ token_position' = saved.token_position /\ kv' = saved.kv
      BY <2>4 DEF RestoreSucceeds, ReplaceRegions, Restorable
    <3>2. seen' = kept
      BY <3>1 DEF seen, kept, CachedTokens, Snapshot
    <3>3. kept # NoSnapshot
      <4>1. /\ saved \in SnapshotType /\ saved.token_position \in Nat
            /\ saved.token_position <= Len(saved.log)
            /\ kept = Prefix(saved.log, saved.token_position)
        BY <3>1, SavedIsPrefix DEF kept
      <4>2. saved.log \in Seq(Token)
        BY <4>1 DEF SnapshotType
      <4>3. kept \in Seq(Token)
        BY <4>1, <4>2, PrefixFact
      <4> QED BY <4>3, SnapshotAssumption
    <3> QED BY <1>3, <3>1, <3>2, <3>3 DEF Promise!Restore, Promise!Next, seen, kept
  <2> QED BY <1>8, <2>1, <2>2, <2>3, <2>4 DEF SessionOps
<1> QED
  BY <1>1, <1>4, <1>5, <1>6, <1>7, <1>8, StepEffect
     DEF Promise!Next, Promise!vars, seen, kept

\* The session implements the log it promises, whatever fails, whenever its
\* operations are called and whatever metadata a host program overrides.
THEOREM SessionsKeepTheirPromise == Spec => ImplementsTokenLog
<1>1. Init => Promise!Init
  <2> SUFFICES ASSUME Init PROVE Promise!Init
    OBVIOUS
  <2>1. token_position = 0 /\ poisoned = FALSE /\ saved = NoSnapshot
    BY DEF Init, SessionInit
  <2>2. CachedTokens(Snapshot) = <<>>
    BY <2>1 DEF CachedTokens, Snapshot
  <2> QED BY <2>1, <2>2 DEF Promise!Init
<1>2. TInv /\ DataInv /\ SeenShape /\ [Next]_vars /\ TInv' /\ SeenShape'
        => [Promise!Next]_(Promise!vars)
  BY PromiseStep
<1> QED
  BY <1>1, <1>2, TInvAlways, DataAlways, SeenAlways, PTL
     DEF Spec, ImplementsTokenLog, Promise!Spec
=============================================================================
