---------------------------- MODULE LanguageModel ----------------------------
(* Units of work over a session: LanguageModelPlan's decode_token and         *)
(* prefill_tokens (src/runtime/language_model.cpp), and the layer-by-layer     *)
(* driver of the token trace (src/runtime/task022_trace.cpp).                 *)
(*                                                                            *)
(* The host enqueues steps on one in-order stream; the device executes them   *)
(* later.  Step 0 uploads the control record of a graph replay, step 1 clears *)
(* the unit-failure flag and embeds the tokens, step 2 + l runs layer l.       *)
(* enqueued and executed count the steps of the current unit.                 *)
EXTENDS Session

CONSTANTS ChunkCapacity,   \* tokens per prefill chunk (kArenaTokenCapacity)
          GraphBase,       \* smallest graph bucket (256 in the code)
          NoControls,      \* the device control record before any upload
          Overrides        \* the override entry points host programs use

ASSUME UnitAssumption == /\ ChunkCapacity \in Nat \ {0}
                         /\ GraphBase \in Nat \ {0}
                         /\ Overrides \subseteq {"populated", "cursor"}

VARIABLES
    pc,              \* what the host thread does next
    unit,            \* the call in progress
    enqueued, executed,
    lost,            \* the device stopped executing: the next wait reports it
    graph,           \* bucket of the instantiated graph; 0: no graph
    graph_failure,   \* decode is eager: chosen, or after a failed construction
    controls,        \* the device control record read by graph replays
    unit_failure,    \* device flag: a producer made a non-finite value
    tainted          \* history: a producer of this very chunk did so

unitVars   == <<pc, unit, enqueued, executed, lost>>
planVars   == <<graph, graph_failure, controls>>
failVars   == <<unit_failure, tainted>>
vars       == <<sessionVars, unitVars, planVars, failVars>>

LastStep == NumLayers + 2     \* steps are 0 .. LastStep - 1

NoUnit == [kind |-> "none", tokens |-> <<>>, first |-> 0, offset |-> 0,
           cursor |-> GdnZero, rows |-> {}]

Smaller(a, b) == IF a <= b THEN a ELSE b
Larger(a, b)  == IF a >= b THEN a ELSE b

\* min(capacity, bit_ceil(max(GraphBase, populated))), GraphBase a power of two.
Bucket(populated) ==
    LET fits == {b \in 1 .. Capacity : /\ populated <= b
                                       /\ \E k \in 0 .. Capacity : b = GraphBase * 2^k}
    IN  IF fits = {} THEN Capacity
        ELSE CHOOSE b \in fits : \A c \in fits : b <= c

-----------------------------------------------------------------------------
(* The chunk being executed and the parameters its layers are launched with. *)

Position == unit.first + unit.offset
Count    == Smaller(ChunkCapacity, Len(unit.tokens) - unit.offset)
Chunk    == SubSeq(unit.tokens, unit.offset + 1, unit.offset + Count)
IsLastChunk == unit.offset + Count = Len(unit.tokens)

\* Mutant: every chunk of a prefill uses the cursors of the first.
Pending_FirstCursor == [position |-> Position, tokens |-> Chunk,
                        cursor |-> unit.cursor]

\* DecodeControl: position, token and the cursor of every recurrent layer.
Pending == [position |-> Position, tokens |-> Chunk,
            cursor |-> [l \in GdnLayer |->
                           Advance(unit.cursor[l], unit.offset % Taps)]]

LaunchedWith == IF unit.kind = "replay" THEN controls ELSE Pending

RowsInChunk == {r \in unit.rows : r < Position + Count}
NextRow     == CHOOSE r \in RowsInChunk : \A q \in RowsInChunk : r <= q

-----------------------------------------------------------------------------
Init ==
    /\ SessionInit
    /\ pc = "idle" /\ unit = NoUnit
    /\ enqueued = 0 /\ executed = 0 /\ lost = FALSE
    /\ graph = 0 /\ graph_failure \in BOOLEAN /\ controls = NoControls
    /\ unit_failure = FALSE /\ tainted = FALSE

\* The host program calls the session between units, and from a row sink.
HostMayCall == pc \in {"idle", "sink"}

\* Mutants: the end of the chunk is not checked against the capacity; only the
\* recurrent layers are asked for their position.
Accepts_NoCapacity(count) ==
    /\ HostMayCall /\ open /\ ~poisoned /\ ~busy
    /\ count > 0 /\ token_position <= Capacity
    /\ LayersAt(token_position)

Accepts_RecurrentOnly(count) ==
    /\ HostMayCall /\ open /\ ~poisoned /\ ~busy
    /\ count > 0 /\ token_position + count <= Capacity
    /\ \A l \in GdnLayer : gdn_position[l] = token_position

\* LanguageModelPlan::pending: what a unit requires of the session.  A plan
\* used after shutdown breaks the contract of session.hpp, hence open.
Accepts(count) ==
    /\ HostMayCall /\ open
    /\ ~poisoned /\ ~busy
    /\ count > 0 /\ token_position + count <= Capacity
    /\ LayersAt(token_position)
    /\ \A l \in GdnLayer : conv_cursor[l] < Taps

Begin(kind, tokens, rows, firstStep, next) ==
    /\ Accepts(Len(tokens))
    /\ busy' = TRUE
    /\ unit' = [kind |-> kind, tokens |-> tokens, first |-> token_position,
                offset |-> 0, cursor |-> conv_cursor, rows |-> rows]
    /\ enqueued' = firstStep /\ executed' = firstStep
    /\ pc' = next /\ tainted' = FALSE
    /\ UNCHANGED <<metadata, device, poisoned, open, saved, log, foreign, lost,
                   planVars, unit_failure>>

BeginEagerDecode(t) == graph_failure /\ Begin("decode", <<t>>, {}, 1, "enqueue")

BeginGraphDecode(t) == ~graph_failure /\ Begin("replay", <<t>>, {}, 0, "graph")

\* rows: the absolute positions whose logits go to the caller's sink.
BeginPrefill(tokens, rows) ==
    /\ \A r \in rows : r >= token_position /\ r < token_position + Len(tokens)
    /\ Begin("prefill", tokens, rows, 1, "enqueue")

-----------------------------------------------------------------------------
(* Failure: poison, then drain the stream before returning to the caller.    *)

FailUnit ==
    /\ poisoned' = TRUE /\ pc' = "drain"
    /\ UNCHANGED <<metadata, device, busy, open, saved, log, foreign, unit,
                   enqueued, executed, lost, planVars, failVars>>

Drained == executed = enqueued \/ lost

\* Mutant: a failed unit returns without waiting for the stream.
Drain_NoWait ==
    /\ pc = "drain"
    /\ pc' = "idle" /\ busy' = FALSE
    /\ unit' = NoUnit
    /\ UNCHANGED <<metadata, device, poisoned, open, saved, log, foreign,
                   enqueued, executed, lost, planVars, failVars>>

Drain ==
    /\ pc = "drain" /\ Drained
    /\ pc' = "idle" /\ busy' = FALSE
    /\ unit' = NoUnit
    /\ IF lost THEN lost' = FALSE /\ executed' = enqueued
               ELSE UNCHANGED <<lost, executed>>
    /\ UNCHANGED <<metadata, device, poisoned, open, saved, log, foreign,
                   enqueued, planVars, failVars>>

-----------------------------------------------------------------------------
(* Graph construction and replay.                                            *)

\* Mutant: a graph is reused beyond its bucket.
ReuseGraph_AnyBucket ==
    /\ pc = "graph" /\ graph # 0
    /\ pc' = "upload"
    /\ UNCHANGED <<sessionVars, unit, enqueued, executed, lost, planVars, failVars>>

\* The instantiated graph serves every position of its bucket.
ReuseGraph ==
    /\ pc = "graph" /\ graph = Bucket(Position + 1)
    /\ pc' = "upload"
    /\ UNCHANGED <<sessionVars, unit, enqueued, executed, lost, planVars, failVars>>

\* Capture records the unit without executing it.
BuildGraph ==
    /\ pc = "graph" /\ graph # Bucket(Position + 1)
    /\ graph' = Bucket(Position + 1)
    /\ pc' = "upload"
    /\ UNCHANGED <<sessionVars, unit, enqueued, executed, lost, graph_failure,
                   controls, failVars>>

\* Mutant: the poison of a failed capture stays.
GraphFails_NoRecover ==
    /\ pc = "graph" /\ graph # Bucket(Position + 1)
    /\ graph' = 0 /\ graph_failure' = TRUE
    /\ poisoned' = TRUE
    /\ unit' = [unit EXCEPT !.kind = "decode"]
    /\ enqueued' = 1 /\ executed' = 1 /\ pc' = "enqueue"
    /\ UNCHANGED <<metadata, device, busy, open, saved, log, foreign, lost,
                   controls, failVars>>

\* A failure inside capture has poisoned the session; nothing executed, so
\* prepare_graph recovers it and the token is decoded eagerly, as all later ones.
GraphFails ==
    /\ pc = "graph" /\ graph # Bucket(Position + 1)
    /\ graph' = 0 /\ graph_failure' = TRUE
    /\ poisoned' = FALSE
    /\ unit' = [unit EXCEPT !.kind = "decode"]
    /\ enqueued' = 1 /\ executed' = 1 /\ pc' = "enqueue"
    /\ UNCHANGED <<metadata, device, busy, open, saved, log, foreign, lost,
                   controls, failVars>>

UploadControls ==
    /\ pc = "upload"
    /\ enqueued' = 1 /\ pc' = "launch"
    /\ UNCHANGED <<sessionVars, unit, executed, lost, planVars, failVars>>

LaunchGraph ==
    /\ pc = "launch"
    /\ enqueued' = LastStep /\ pc' = "complete"
    /\ UNCHANGED <<sessionVars, unit, executed, lost, planVars, failVars>>

\* Eager decode and prefill enqueue the steps one by one.
EnqueueStep ==
    /\ pc = "enqueue"
    /\ enqueued' = enqueued + 1
    /\ pc' = IF enqueued' = LastStep THEN "complete" ELSE "enqueue"
    /\ UNCHANGED <<sessionVars, unit, executed, lost, planVars, failVars>>

EnqueueFails == pc \in {"upload", "launch", "enqueue"} /\ FailUnit

-----------------------------------------------------------------------------
(* The device.                                                               *)

DeviceMayRun == executed < enqueued /\ ~lost

ExecuteUpload ==
    /\ DeviceMayRun /\ executed = 0
    /\ controls' = Pending
    /\ executed' = 1
    /\ UNCHANGED <<sessionVars, pc, unit, enqueued, lost, graph, graph_failure,
                   failVars>>

\* Mutant: the failure flag is not cleared before a unit.
ExecuteInput_KeepsFlag ==
    /\ DeviceMayRun /\ executed = 1
    /\ executed' = 2
    /\ UNCHANGED <<sessionVars, pc, unit, enqueued, lost, planVars, failVars>>

ExecuteInput ==
    /\ DeviceMayRun /\ executed = 1
    /\ unit_failure' = FALSE
    /\ executed' = 2
    /\ UNCHANGED <<sessionVars, pc, unit, enqueued, lost, planVars, tainted>>

\* A layer may raise the unit-failure flag (a non-finite producer of its MLP).
Execute(l) ==
    /\ DeviceMayRun /\ executed = 2 + l
    /\ ExecuteLayer(l, IF l \in GdnLayer THEN LaunchedWith.cursor[l] ELSE 0,
                    LaunchedWith.position, LaunchedWith.tokens)
    /\ \E raised \in BOOLEAN : /\ unit_failure' = (unit_failure \/ raised)
                               /\ tainted' = (tainted \/ raised)
    /\ executed' = executed + 1
    /\ UNCHANGED <<metadata, poisoned, busy, open, saved, log, foreign, pc, unit,
                   enqueued, lost, planVars>>

\* An asynchronous fault: nothing enqueued after this point executes.
DeviceFault ==
    /\ DeviceMayRun
    /\ lost' = TRUE
    /\ UNCHANGED <<sessionVars, pc, unit, enqueued, executed, planVars, failVars>>

DeviceStep == ExecuteUpload \/ ExecuteInput \/ \E l \in Layer : Execute(l)

-----------------------------------------------------------------------------
(* Completion: read the logits and the flag back, wait, deliver, commit.     *)

\* Mutant: the host reads back without waiting for the stream.
CompleteUnit_NoWait ==
    /\ pc = "complete" /\ ~lost /\ ~unit_failure
    /\ pc' = IF RowsInChunk # {} THEN "sink" ELSE "commit"
    /\ UNCHANGED <<sessionVars, unit, enqueued, executed, lost, planVars, failVars>>

\* The wait returned, the flag is clear and the logits are finite.
CompleteUnit ==
    /\ pc = "complete" /\ Drained
    /\ ~lost /\ ~unit_failure
    /\ pc' = IF RowsInChunk # {} THEN "sink" ELSE "commit"
    /\ UNCHANGED <<sessionVars, unit, enqueued, executed, lost, planVars, failVars>>

\* A readback cannot be enqueued, the wait reports an error, the flag is set or
\* a logit is not finite.
CompleteFails == pc = "complete" /\ FailUnit

\* Mutant: a delivered row is not removed from the requested ones.
SinkReturns_KeepsRow ==
    /\ pc = "sink"
    /\ pc' = "complete"
    /\ UNCHANGED <<sessionVars, unit, enqueued, executed, lost, planVars, failVars>>

\* The caller's sink returns; the last row of the prompt doubles as the result.
SinkReturns ==
    /\ pc = "sink"
    /\ unit' = [unit EXCEPT !.rows = @ \ {NextRow}]
    /\ pc' = IF \/ RowsInChunk # {NextRow}
                \/ IsLastChunk /\ NextRow # Position + Count - 1
             THEN "complete" ELSE "commit"
    /\ UNCHANGED <<sessionVars, enqueued, executed, lost, planVars, failVars>>

SinkFails == pc = "sink" /\ FailUnit

Commit ==
    /\ pc = "commit"
    /\ CommitUnit(Count)
    /\ log' = log \o Chunk
    /\ tainted' = FALSE
    /\ IF IsLastChunk
       THEN /\ pc' = "idle" /\ busy' = FALSE
            /\ unit' = NoUnit /\ UNCHANGED <<enqueued, executed>>
       ELSE /\ pc' = "enqueue" /\ UNCHANGED busy
            /\ unit' = [unit EXCEPT !.offset = @ + Count]
            /\ enqueued' = 1 /\ executed' = 1
    /\ UNCHANGED <<device, poisoned, open, saved, foreign, lost, planVars,
                   unit_failure>>

-----------------------------------------------------------------------------
(* The trace drives one layer at a time: each layer synchronises and commits  *)
(* its own counters, and the driver commits the token at the end.  It is not  *)
(* a unit: busy stays FALSE, and unit.offset is the next layer.               *)

EndTrace == pc' = "idle" /\ unit' = NoUnit

BeginTrace(t) ==
    /\ pc = "idle" /\ open /\ ~busy /\ ~poisoned
    /\ LayersAt(token_position)
    /\ unit' = [kind |-> "trace", tokens |-> <<t>>, first |-> token_position,
                offset |-> 0, cursor |-> conv_cursor, rows |-> {}]
    /\ pc' = "trace"
    /\ UNCHANGED <<sessionVars, enqueued, executed, lost, planVars, failVars>>

\* What execute_decode_gdn and execute_decode_attention require of a layer.
LayerAccepts(l, position) ==
    IF l \in GdnLayer THEN gdn_position[l] = position
                      ELSE position < Capacity /\ kv_populated[l] = position

CommitLayer(l, position) ==
    IF l \in GdnLayer
    THEN /\ gdn_position' = [gdn_position EXCEPT ![l] = position + 1]
         /\ conv_cursor' = [conv_cursor EXCEPT ![l] = Advance(@, 1)]
         /\ UNCHANGED kv_populated
    ELSE /\ kv_populated' = [kv_populated EXCEPT ![l] = position + 1]
         /\ UNCHANGED <<gdn_position, conv_cursor>>

TracedLayer == unit.offset

\* The token enters the log when the first layer takes it in.
RunTracedLayer ==
    /\ pc = "trace" /\ TracedLayer < NumLayers
    /\ LayerAccepts(TracedLayer, unit.first)
    /\ ExecuteLayer(TracedLayer,
                    IF TracedLayer \in GdnLayer THEN conv_cursor[TracedLayer] ELSE 0,
                    unit.first, unit.tokens)
    /\ CommitLayer(TracedLayer, unit.first)
    /\ log' = IF TracedLayer = 0 THEN log \o unit.tokens ELSE log

TraceLayer ==
    /\ RunTracedLayer
    /\ unit' = [unit EXCEPT !.offset = @ + 1]
    /\ UNCHANGED <<token_position, poisoned, busy, open, saved, foreign, pc,
                   enqueued, executed, lost, planVars, failVars>>

\* The core or the MLP fails after the mixer has committed.
TraceLayerFailsLate ==
    /\ RunTracedLayer
    /\ poisoned' = TRUE /\ EndTrace
    /\ UNCHANGED <<token_position, busy, open, saved, foreign, enqueued, executed,
                   lost, planVars, failVars>>

\* A launch or the synchronisation fails before the counters are committed;
\* the device may or may not have taken the token in.
TraceLayerFails ==
    /\ pc = "trace" /\ TracedLayer < NumLayers
    /\ LayerAccepts(TracedLayer, unit.first)
    /\ \/ UNCHANGED device
       \/ ExecuteLayer(TracedLayer,
              IF TracedLayer \in GdnLayer THEN conv_cursor[TracedLayer] ELSE 0,
              unit.first, unit.tokens)
    /\ poisoned' = TRUE /\ EndTrace
    /\ UNCHANGED <<metadata, busy, open, saved, log, foreign, enqueued, executed,
                   lost, planVars, failVars>>

\* The driver returns between layers: the residual could not be written, the
\* next layer rejects the position, or a layer did not advance.  It does not poison.
TraceAbandoned ==
    /\ pc = "trace" /\ EndTrace
    /\ UNCHANGED <<sessionVars, enqueued, executed, lost, planVars, failVars>>

CommitTracedToken ==
    /\ pc = "trace" /\ TracedLayer = NumLayers
    /\ LayersAt(unit.first + 1)
    /\ token_position' = token_position + 1
    /\ EndTrace
    /\ UNCHANGED <<conv_cursor, gdn_position, kv_populated, device, poisoned, busy,
                   open, saved, log, foreign, enqueued, executed, lost, planVars,
                   failVars>>

-----------------------------------------------------------------------------
(* Calls of the session's own operations.                                    *)

CallSession == HostMayCall /\ SessionOps /\ UNCHANGED <<unitVars, planVars, failVars>>

CallShutdown == HostMayCall /\ Shutdown /\ UNCHANGED <<unitVars, planVars, failVars>>

\* The values tried include the first one out of range.
CallOverride ==
    /\ HostMayCall
    /\ \/ "populated" \in Overrides
          /\ \E l \in AttnLayer, n \in 0 .. Capacity + 1 : SetPopulated(l, n)
       \/ "cursor" \in Overrides
          /\ \E cursors \in [GdnLayer -> 0 .. Taps] : SetConvCursor(cursors)
    /\ UNCHANGED <<unitVars, planVars, failVars>>

-----------------------------------------------------------------------------
Prompts == UNION {[1 .. n -> Token] : n \in 1 .. Capacity}

BeginUnit ==
    \/ \E t \in Token : BeginEagerDecode(t) \/ BeginGraphDecode(t)
    \/ \E tokens \in Prompts :
          \E rows \in SUBSET (token_position .. Capacity - 1) :
              BeginPrefill(tokens, rows)

HostStep == \/ ReuseGraph \/ BuildGraph \/ GraphFails
            \/ UploadControls \/ LaunchGraph \/ EnqueueStep \/ EnqueueFails
            \/ CompleteUnit \/ CompleteFails
            \/ Commit \/ Drain

Sink == SinkReturns \/ SinkFails

Trace == \/ \E t \in Token : BeginTrace(t)
         \/ TraceLayer \/ TraceLayerFails \/ TraceLayerFailsLate
         \/ TraceAbandoned \/ CommitTracedToken

Next == \/ BeginUnit \/ HostStep \/ Sink \/ DeviceStep \/ DeviceFault
        \/ Trace \/ CallSession \/ CallShutdown \/ CallOverride

Spec == Init /\ [][Next]_vars

\* The host thread and the device make progress, and sinks return.
FairSpec == /\ Spec
            /\ WF_vars(HostStep) /\ WF_vars(DeviceStep) /\ WF_vars(Sink)

-----------------------------------------------------------------------------
(* Properties.                                                               *)

UnitType == [kind : {"none", "decode", "replay", "prefill", "trace"},
             tokens : Seq(Token), first : Nat, offset : Nat,
             cursor : [GdnLayer -> 0 .. Taps - 1], rows : SUBSET Nat]

ControlType == [position : Nat, tokens : Seq(Token),
                cursor : [GdnLayer -> 0 .. Taps - 1]]

\* Every variable has its type: the counters stay within the KV capacity and
\* the cursors within the ring, whatever the host program overrides.
TypeOK ==
    /\ SessionTypeOK
    /\ pc \in {"idle", "graph", "upload", "launch", "enqueue", "complete", "sink",
               "commit", "drain", "trace"}
    /\ unit \in UnitType
    /\ enqueued \in 0 .. LastStep /\ executed \in 0 .. LastStep
    /\ lost \in BOOLEAN
    /\ graph \in 0 .. Capacity /\ graph_failure \in BOOLEAN
    /\ controls \in ControlType \cup {NoControls}
    /\ unit_failure \in BOOLEAN /\ tainted \in BOOLEAN

\* Between units, a session that is not poisoned holds in every layer exactly
\* the tokens of the completed units up to that layer's counter, with the ring
\* cursor in phase (language_model.cpp, commit_unit; session.cpp, reset/restore).
StateMatchesLog ==
    (pc \in {"idle", "trace"} /\ ~poisoned /\ ~foreign) => Consistent(Snapshot)

\* Whatever populated lengths a host program sets, a unit runs only while every
\* layer stands at the position the unit writes, chunk after chunk (pending asks
\* every layer; set_populated_length refuses a busy session), and between units
\* the device state below the token position is still that of the log.
PopulatedOverrideIsHarmless ==
    Overrides \subseteq {"populated"} =>
        /\ busy => LayersAt(Position)
        /\ (pc \in {"idle", "trace"} /\ ~poisoned) =>
               Consistent([Snapshot EXCEPT !.kv_populated =
                   [l \in AttnLayer |-> Smaller(kv_populated[l], token_position)]])

\* A snapshot never mixes the device state of a unit with the counters from
\* before it: it restores to a state that agrees with its own log
\* (Session::save rejects a busy or poisoned session).
SnapshotConsistent ==
    (saved # NoSnapshot /\ ~saved.foreign) => Consistent(saved)

\* Logits reach the sink, and counters are committed, only after every layer
\* has executed the whole chunk on top of the committed tokens.
ReadoutSeesWholeChunk ==
    (pc \in {"sink", "commit"} /\ ~foreign) =>
        \A l \in Layer : LayerHolds(l, log \o Chunk)

\* A graph replay runs every layer on the controls of the current token, and
\* its launch covers the keys of that token: never the first token's values.
ReplayUsesCurrentControls ==
    (unit.kind = "replay" /\ executed > 1) =>
        controls = Pending /\ graph >= Position + 1

\* No work is left in flight when a call has returned to the host program: the
\* buffers that work borrows may be reused or freed.
NoWorkInFlight == pc \in {"idle", "trace"} => executed = enqueued /\ ~lost

\* A unit that commits leaves a usable session and had no failing producer;
\* in particular a failed graph construction does not poison the eager token.
CommitsCleanUnit == pc = "commit" => ~poisoned /\ ~tainted

\* The failure flag a unit reads was raised by that very chunk: a failure that
\* was recovered from is not reported again.
NoStaleFailure == (pc = "complete" /\ executed > 1 /\ unit_failure) => tainted

\* While a session is poisoned no counter moves and nothing is saved; it leaves
\* that state only to one whose metadata and device state agree.
PoisonForbidsProgress ==
    [][poisoned => \/ poisoned' /\ UNCHANGED <<metadata, saved>>
                   \/ ~poisoned' /\ StateMatchesLog' /\ pc' = "idle"]_vars

\* The session implements the log it promises: what the first attention layer
\* caches up to the token position.
CachedTokens(s) ==
    [i \in 1 .. s.token_position |-> s.kv[AttentionPeriod - 1][i - 1]]

Promise == INSTANCE TokenLog WITH
    log    <- IF poisoned THEN <<>> ELSE CachedTokens(Snapshot),
    usable <- ~poisoned,
    saved  <- IF saved = NoSnapshot THEN NoSnapshot ELSE CachedTokens(saved)

\* Whatever fails, and whenever the host resets, saves or restores, the session
\* behaves as a log of whole units (language_model.cpp, session.cpp).
ImplementsTokenLog == Promise!Spec

\* Every call returns: a unit that has begun commits or fails, whatever the
\* device does, provided sinks return.
UnitEnds == busy ~> ~busy

\* Session::set_populated_length and set_conv_cursor report "session is poisoned
\* or closed": a closed session takes no metadata.
ClosedTakesNoMetadata == [][~open => UNCHANGED metadata]_vars
=============================================================================
