------------------------------- MODULE Session -------------------------------
(* One inference session (src/runtime/session.cpp): the persistent device     *)
(* state of every layer, the host metadata that says how far each layer has   *)
(* advanced, and the operations a host program performs on the two.           *)
(*                                                                            *)
(* Device bytes are abstracted to the tokens they are a function of.  The     *)
(* recurrent state S and the convolution history of a Gated DeltaNet layer    *)
(* are the sequence of tokens absorbed so far; a KV cache is one word per     *)
(* position.  A word computed from a wrong window of the convolution ring is  *)
(* Corrupt.  (Module ConvRing justifies reading the ring as a sequence.)      *)
EXTENDS Integers, Sequences

CONSTANTS NumLayers,        \* language layers (64 in the code)
          AttentionPeriod,  \* every AttentionPeriod-th layer is attention (4)
          Capacity,         \* tokens of KV cache
          Token,            \* token identifiers
          Corrupt,          \* a word no token sequence produces
          Empty,            \* a zeroed KV position
          NoSnapshot        \* no snapshot has been taken yet

ASSUME LayersAssumption == /\ NumLayers \in Nat \ {0}
                           /\ AttentionPeriod \in Nat \ {0, 1}
                           /\ AttentionPeriod <= NumLayers
ASSUME CapacityAssumption == Capacity \in Nat \ {0}
ASSUME WordsAssumption  == Corrupt \notin Token /\ Empty \notin Token

Taps      == 3              \* slots of the convolution ring, kConvTaps
Layer     == 0 .. NumLayers - 1
AttnLayer == {l \in Layer : l % AttentionPeriod = AttentionPeriod - 1}
GdnLayer  == Layer \ AttnLayer
Word      == Token \cup {Corrupt, Empty}

VARIABLES
    \* host metadata, class SessionExecutionState
    conv_cursor, gdn_position, kv_populated, token_position, poisoned, busy,
    open,                       \* the session still owns its stream
    \* persistent device state
    gdn_s, conv_history, kv,
    saved,                      \* the last snapshot a host program took
    \* history variables
    log,                        \* tokens of the completed units, in order
    foreign                     \* a host override has replaced metadata

metadata == <<conv_cursor, gdn_position, kv_populated, token_position>>
device   == <<gdn_s, conv_history, kv>>
sessionVars == <<metadata, device, poisoned, busy, open, saved, log, foreign>>

NoTokens   == [l \in GdnLayer |-> <<>>]
NoKeys     == [l \in AttnLayer |-> [i \in 0 .. Capacity - 1 |-> Empty]]
GdnZero    == [l \in GdnLayer |-> 0]
AttnZero   == [l \in AttnLayer |-> 0]

SessionInit ==
    /\ conv_cursor = GdnZero /\ gdn_position = GdnZero
    /\ kv_populated = AttnZero /\ token_position = 0
    /\ poisoned = FALSE /\ busy = FALSE /\ open = TRUE
    /\ gdn_s = NoTokens /\ conv_history = NoTokens /\ kv = NoKeys
    /\ saved = NoSnapshot
    /\ log = <<>> /\ foreign = FALSE

-----------------------------------------------------------------------------
(* Metadata.                                                                 *)

\* Every layer has advanced to exactly this position.
LayersAt(position) == /\ \A l \in GdnLayer : gdn_position[l] = position
                      /\ \A l \in AttnLayer : kv_populated[l] = position

Advance(cursor, count) == (cursor + count) % Taps

\* Commit a unit of count tokens: every layer and the token position together.
CommitUnit(count) ==
    /\ token_position' = token_position + count
    /\ gdn_position' = [l \in GdnLayer |-> gdn_position[l] + count]
    /\ kv_populated' = [l \in AttnLayer |-> kv_populated[l] + count]
    /\ conv_cursor' = [l \in GdnLayer |-> Advance(conv_cursor[l], count)]

-----------------------------------------------------------------------------
(* Device state transformers, used by the units of LanguageModel.            *)

\* What a recurrent layer holds after reading its ring at cursor and taking
\* in the chunk: the window is right only when the cursor is where the ring's
\* own contents ended.
Absorb(absorbed, inPhase, chunk) ==
    absorbed \o [i \in 1 .. Len(chunk) |-> IF inPhase THEN chunk[i] ELSE Corrupt]

InPhase(l, cursor) == cursor = Len(conv_history[l]) % Taps

\* A KV cache row written at position .. position + Len(chunk) - 1.
Written(row, position, chunk) ==
    [i \in 0 .. Capacity - 1 |->
        IF i >= position /\ i < position + Len(chunk)
        THEN chunk[i - position + 1] ELSE row[i]]

\* One layer executes over a chunk with the cursor and position it was given.
ExecuteLayer(l, cursor, position, chunk) ==
    IF l \in GdnLayer
    THEN /\ gdn_s' = [gdn_s EXCEPT ![l] = Absorb(@, InPhase(l, cursor), chunk)]
         /\ conv_history' = [conv_history EXCEPT
                                 ![l] = Absorb(@, InPhase(l, cursor), chunk)]
         /\ UNCHANGED kv
    ELSE /\ kv' = [kv EXCEPT ![l] = Written(@, position, chunk)]
         /\ UNCHANGED <<gdn_s, conv_history>>

\* The three persistent regions are copied or zeroed one after another on the
\* stream; a failure leaves the first done regions new and the others old.
ReplaceRegions(done, s, h, k) ==
    /\ gdn_s' = IF done >= 1 THEN s ELSE gdn_s
    /\ conv_history' = IF done >= 2 THEN h ELSE conv_history
    /\ kv' = IF done >= 3 THEN k ELSE kv

-----------------------------------------------------------------------------
(* Session::reset, save, restore: rejected while a unit is pending; a failed  *)
(* device operation poisons and leaves the metadata as it was.                *)

ResetFails == \E done \in 0 .. 3 :      \* 3: the final synchronisation failed
    /\ ~busy /\ open
    /\ ReplaceRegions(done, NoTokens, NoTokens, NoKeys)
    /\ poisoned' = TRUE
    /\ UNCHANGED <<metadata, busy, open, saved, log, foreign>>

ResetSucceeds ==
    /\ ~busy /\ open
    /\ ReplaceRegions(3, NoTokens, NoTokens, NoKeys)
    /\ conv_cursor' = GdnZero /\ gdn_position' = GdnZero
    /\ kv_populated' = AttnZero /\ token_position' = 0
    /\ poisoned' = FALSE
    /\ log' = <<>> /\ foreign' = FALSE
    /\ UNCHANGED <<busy, open, saved>>

Snapshot ==
    [gdn_s |-> gdn_s, conv_history |-> conv_history, kv |-> kv,
     conv_cursor |-> conv_cursor, gdn_position |-> gdn_position,
     kv_populated |-> kv_populated, token_position |-> token_position,
     log |-> log, foreign |-> foreign]

ValidMetadata(cursors, populated) ==
    /\ \A l \in AttnLayer : populated[l] <= Capacity
    /\ \A l \in GdnLayer : cursors[l] < Taps

\* Mutants: a pending unit, or poison, does not stop a save.
SaveSucceeds_IgnoresBusy ==
    /\ open /\ ~poisoned
    /\ saved' = Snapshot
    /\ UNCHANGED <<metadata, device, poisoned, busy, open, log, foreign>>

SaveSucceeds_IgnoresPoison ==
    /\ ~busy /\ open
    /\ saved' = Snapshot
    /\ UNCHANGED <<metadata, device, poisoned, busy, open, log, foreign>>

SaveSucceeds ==
    /\ ~busy /\ open /\ ~poisoned
    /\ ValidMetadata(conv_cursor, kv_populated)
    /\ saved' = Snapshot
    /\ UNCHANGED <<metadata, device, poisoned, busy, open, log, foreign>>

SaveFails ==
    /\ ~busy /\ open /\ ~poisoned
    /\ ValidMetadata(conv_cursor, kv_populated)
    /\ poisoned' = TRUE
    /\ UNCHANGED <<metadata, device, busy, open, saved, log, foreign>>

Restorable == /\ saved # NoSnapshot
              /\ saved.token_position <= Capacity
              /\ ValidMetadata(saved.conv_cursor, saved.kv_populated)

RestoreFails == \E done \in 0 .. 3 :
    /\ ~busy /\ open
    /\ Restorable
    /\ ReplaceRegions(done, saved.gdn_s, saved.conv_history, saved.kv)
    /\ poisoned' = TRUE
    /\ UNCHANGED <<metadata, busy, open, saved, log, foreign>>

\* Mutant: the token position is not restored with the counters.
RestoreSucceeds_KeepsPosition ==
    /\ ~busy /\ open /\ Restorable
    /\ ReplaceRegions(3, saved.gdn_s, saved.conv_history, saved.kv)
    /\ conv_cursor' = saved.conv_cursor /\ gdn_position' = saved.gdn_position
    /\ kv_populated' = saved.kv_populated
    /\ poisoned' = FALSE /\ log' = saved.log /\ foreign' = saved.foreign
    /\ UNCHANGED <<token_position, busy, open, saved>>

RestoreSucceeds ==
    /\ ~busy /\ open
    /\ Restorable
    /\ ReplaceRegions(3, saved.gdn_s, saved.conv_history, saved.kv)
    /\ conv_cursor' = saved.conv_cursor
    /\ gdn_position' = saved.gdn_position
    /\ kv_populated' = saved.kv_populated
    /\ token_position' = saved.token_position
    /\ poisoned' = FALSE
    /\ log' = saved.log /\ foreign' = saved.foreign
    /\ UNCHANGED <<busy, open, saved>>

\* Session::shutdown drains, closes every buffer and drops the stream; it
\* neither poisons nor clears the metadata.
Shutdown ==
    /\ ~busy /\ open
    /\ open' = FALSE
    /\ UNCHANGED <<metadata, device, poisoned, busy, saved, log, foreign>>

-----------------------------------------------------------------------------
(* Host overrides: entry points that replace one layer's metadata without     *)
(* running it.  They ask nothing about open.                                  *)

\* Mutant: the length is not checked against the capacity.
SetPopulated_Unbounded(l, n) ==
    /\ ~busy /\ ~poisoned
    /\ kv_populated' = [kv_populated EXCEPT ![l] = n]
    /\ foreign' = TRUE
    /\ UNCHANGED <<conv_cursor, gdn_position, token_position, device, poisoned,
                   busy, open, saved, log>>

SetPopulated(l, n) ==
    /\ ~busy /\ ~poisoned
    /\ n <= Capacity
    /\ kv_populated' = [kv_populated EXCEPT ![l] = n]
    /\ foreign' = TRUE
    /\ UNCHANGED <<conv_cursor, gdn_position, token_position, device, poisoned,
                   busy, open, saved, log>>

SetConvCursor(cursors) ==
    /\ ~busy /\ ~poisoned
    /\ \A l \in GdnLayer : cursors[l] < Taps
    /\ conv_cursor' = cursors
    /\ foreign' = TRUE
    /\ UNCHANGED <<gdn_position, kv_populated, token_position, device, poisoned,
                   busy, open, saved, log>>

SessionOps ==
    \/ ResetSucceeds \/ ResetFails
    \/ SaveSucceeds \/ SaveFails
    \/ RestoreSucceeds \/ RestoreFails

-----------------------------------------------------------------------------
(* What a layer's state says of the tokens it has taken in.                  *)

Prefix(tokens, n) == SubSeq(tokens, 1, n)

\* A recurrent layer holds exactly tokens.
RecurrentHolds(l, tokens) == gdn_s[l] = tokens /\ conv_history[l] = tokens

\* A KV row begins with tokens.
RowHolds(row, tokens) == \A i \in 1 .. Len(tokens) : row[i - 1] = tokens[i]

LayerHolds(l, tokens) == IF l \in GdnLayer THEN RecurrentHolds(l, tokens)
                                           ELSE RowHolds(kv[l], tokens)

\* A record of the metadata and the device state agrees with its own log: each
\* layer holds the log up to its own counter, and each cursor is in phase.
Consistent(s) ==
    /\ s.token_position <= Len(s.log)
    /\ \A l \in GdnLayer :
          /\ s.gdn_position[l] <= Len(s.log)
          /\ s.gdn_s[l] = Prefix(s.log, s.gdn_position[l])
          /\ s.conv_history[l] = Prefix(s.log, s.gdn_position[l])
          /\ s.conv_cursor[l] = s.gdn_position[l] % Taps
    /\ \A l \in AttnLayer :
          /\ s.kv_populated[l] <= Len(s.log)
          /\ RowHolds(s.kv[l], Prefix(s.log, s.kv_populated[l]))

SnapshotType ==
    [gdn_s : [GdnLayer -> Seq(Word)], conv_history : [GdnLayer -> Seq(Word)],
     kv : [AttnLayer -> [0 .. Capacity - 1 -> Word]],
     conv_cursor : [GdnLayer -> 0 .. Taps - 1], gdn_position : [GdnLayer -> Nat],
     kv_populated : [AttnLayer -> 0 .. Capacity], token_position : 0 .. Capacity,
     log : Seq(Token), foreign : BOOLEAN]

ASSUME SnapshotAssumption == NoSnapshot \notin SnapshotType \cup Seq(Token)

SessionTypeOK ==
    /\ conv_cursor \in [GdnLayer -> 0 .. Taps - 1]
    /\ gdn_position \in [GdnLayer -> Nat]
    /\ kv_populated \in [AttnLayer -> 0 .. Capacity]
    /\ token_position \in 0 .. Capacity
    /\ poisoned \in BOOLEAN /\ busy \in BOOLEAN /\ open \in BOOLEAN
    /\ gdn_s \in [GdnLayer -> Seq(Word)]
    /\ conv_history \in [GdnLayer -> Seq(Word)]
    /\ kv \in [AttnLayer -> [0 .. Capacity - 1 -> Word]]
    /\ saved \in SnapshotType \cup {NoSnapshot}
    /\ log \in Seq(Token) /\ foreign \in BOOLEAN
=============================================================================
