------------------------------ MODULE ConvRing ------------------------------
(* The convolution history of one channel of one recurrent layer: a ring of   *)
(* three slots on the device and a cursor on the host                         *)
(* (src/cuda/gdn.cu; ConvCursorSlot in src/runtime/session.cpp).  Decode      *)
(* overwrites the oldest slot; prefill reads a whole chunk against the old    *)
(* ring, then commits the last three inputs to it.                            *)
EXTENDS Integers, Sequences

CONSTANTS Input,      \* values of a channel
          Zero,       \* what a reset leaves in the ring
          MaxChunk    \* bound on the tokens of a prefill chunk

ASSUME RingAssumption == Zero \in Input /\ MaxChunk \in Nat \ {0}

Slot == 0 .. 2

VARIABLES history, cursor,
          emitted       \* the inputs each output of the last kernel was made of
vars == <<history, cursor, emitted>>

Chunks == UNION {[1 .. n -> Input] : n \in 1 .. MaxChunk}

Init == /\ history = [s \in Slot |-> Zero]
        /\ cursor = 0
        /\ emitted = <<>>

\* Mutants: the cursor runs past the ring; the newest slot is overwritten.
DecodeStep_NoWrap(x) ==
    /\ emitted' = <<[j \in 1 .. 4 |-> IF j < 4 THEN history[(cursor + j - 1) % 3] ELSE x]>>
    /\ history' = [history EXCEPT ![cursor] = x]
    /\ cursor' = cursor + 1

DecodeStep_WrongSlot(x) ==
    /\ emitted' = <<[j \in 1 .. 4 |-> IF j < 4 THEN history[(cursor + j - 1) % 3] ELSE x]>>
    /\ history' = [history EXCEPT ![(cursor + 2) % 3] = x]
    /\ cursor' = (cursor + 1) % 3

\* gdn_conv_silu_kernel on one token, then ConvCursorSlot::commit_advance.
DecodeStep(x) ==
    /\ emitted' = <<[j \in 1 .. 4 |-> IF j < 4 THEN history[(cursor + j - 1) % 3] ELSE x]>>
    /\ history' = [history EXCEPT ![cursor] = x]
    /\ cursor' = (cursor + 1) % 3

\* gdn_prefill_conv_kernel: tap of token reads the chunk at token + tap - 3, or
\* the ring when that is before the chunk.  Tokens and taps count from 0.
Tapped(chunk, token, tap) ==
    LET source == token + tap - 3
    IN  IF source < 0 THEN history[(cursor + token + tap) % 3]
                      ELSE chunk[source + 1]

\* gdn_prefill_history_commit_kernel: every old value is loaded before a store.
Kept(hist, at, chunk, j) ==
    LET source == Len(chunk) - 3 + j
    IN  IF source < 0 THEN hist[(at + source + 3) % 3] ELSE chunk[source + 1]

\* Mutant: the kept inputs are stored from the old cursor on.
Committed_OldCursor(hist, at, chunk) ==
    [s \in Slot |-> Kept(hist, at, chunk, (s - at + 3) % 3)]

\* Slot (next + j) % 3 receives the j-th kept input.
Committed(hist, at, chunk) ==
    LET next == (at + Len(chunk)) % 3
    IN  [s \in Slot |-> Kept(hist, at, chunk, (s - next + 3) % 3)]

\* One prefill chunk: convolution, history commit, ConvCursorSlot::commit_chunk.
PrefillStep(chunk) ==
    /\ emitted' = [i \in 1 .. Len(chunk) |->
                      [j \in 1 .. 4 |-> Tapped(chunk, i - 1, j - 1)]]
    /\ history' = Committed(history, cursor, chunk)
    /\ cursor' = (cursor + (Len(chunk) % 3)) % 3

Next == \/ \E x \in Input : DecodeStep(x)
        \/ \E chunk \in Chunks : PrefillStep(chunk)

Spec == Init /\ [][Next]_vars

-----------------------------------------------------------------------------
\* Every variable has its type.
TypeOK == /\ history \in [Slot -> Input]
          /\ cursor \in Slot
          /\ emitted \in Seq([1 .. 4 -> Input])

\* The ring read from the cursor is the window of the last three inputs, and
\* both kernels emit what a convolution over the plain input sequence would,
\* however decode steps and chunks of any length are mixed.
Window == [j \in 1 .. 3 |-> history[(cursor + j - 1) % 3]]

Sliding == INSTANCE SlidingWindow WITH window <- Window

\* However the tokens are cut into chunks and decode steps, the ring behaves as
\* the window of the last inputs.
ImplementsSlidingWindow == Sliding!Spec

\* Where a prompt is cut into chunks does not matter to the ring it leaves
\* (prefill_tokens cuts it at the arena's token capacity).
CutsAreInvisible ==
    \A chunk \in Chunks : \A n \in 1 .. Len(chunk) - 1 :
        LET first == SubSeq(chunk, 1, n)
            rest  == SubSeq(chunk, n + 1, Len(chunk))
        IN  Committed(history, cursor, chunk) =
            Committed(Committed(history, cursor, first), (cursor + n) % 3, rest)
=============================================================================
