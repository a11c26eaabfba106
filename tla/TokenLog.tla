------------------------------ MODULE TokenLog ------------------------------
(* What a session promises to its caller.  A session is a log of tokens that *)
(* only grows, one completed unit at a time, until something fails; after a  *)
(* failure it is unusable until a reset empties it or a snapshot replaces it.*)
(* A snapshot is a whole log, taken only of a usable session.                *)
EXTENDS Integers, Sequences

CONSTANTS Token,       \* token identifiers
          Capacity,    \* how many tokens the KV cache holds
          NoSnapshot   \* nothing has been saved yet

VARIABLES log, usable, saved
vars == <<log, usable, saved>>

IsExtension(old, new) == /\ new \in Seq(Token)
                         /\ Len(new) > Len(old)
                         /\ Len(new) <= Capacity
                         /\ SubSeq(new, 1, Len(old)) = old

Init == log = <<>> /\ usable = TRUE /\ saved = NoSnapshot

\* A unit (one decoded token, or one prefill chunk) completes.
Extend == /\ usable /\ usable'
          /\ IsExtension(log, log')
          /\ UNCHANGED saved

\* A failure leaves nothing a caller may rely on.
Fail == usable /\ ~usable' /\ log' = <<>> /\ UNCHANGED saved

Reset == usable' /\ log' = <<>> /\ UNCHANGED saved

Save == usable /\ saved' = log /\ UNCHANGED <<log, usable>>

Restore == /\ saved # NoSnapshot
           /\ usable' /\ log' = saved
           /\ UNCHANGED saved

Next == Extend \/ Fail \/ Reset \/ Save \/ Restore

Spec == Init /\ [][Next]_vars
=============================================================================
