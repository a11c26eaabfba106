--------------------------- MODULE SlidingWindow ---------------------------
(* What a causal convolution of width 4 needs of its state: the three inputs *)
(* before the next one, oldest first.  Taking a chunk in emits, for every     *)
(* input of it, the four inputs that end there.                              *)
EXTENDS Integers, Sequences

CONSTANTS Input, MaxChunk, Zero

VARIABLES window, emitted
vars == <<window, emitted>>

Chunks == UNION {[1 .. n -> Input] : n \in 1 .. MaxChunk}

\* The four inputs ending at the i-th of the chunk.
EndingAt(w, chunk, i) == [j \in 1 .. 4 |-> IF i + j <= 4 THEN w[i + j - 1]
                                                         ELSE chunk[i + j - 4]]

\* The three inputs before the one that follows the chunk.
After(w, chunk) == [j \in 1 .. 3 |-> LET i == Len(chunk) + j
                                     IN IF i <= 3 THEN w[i] ELSE chunk[i - 3]]

Init == window = [j \in 1 .. 3 |-> Zero] /\ emitted = <<>>

Take(chunk) == /\ emitted' = [i \in 1 .. Len(chunk) |-> EndingAt(window, chunk, i)]
               /\ window' = After(window, chunk)

Next == \E chunk \in Chunks : Take(chunk)

Spec == Init /\ [][Next]_vars
=============================================================================
