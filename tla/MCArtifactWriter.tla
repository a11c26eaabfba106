-------------------------- MODULE MCArtifactWriter --------------------------
(* Two tensors: the payload of one is two cells, and an alias names it too;   *)
(* the other's is a single cell.                                             *)
EXTENDS ArtifactWriter, TLC

CONSTANTS weight, alias, scale, long, short

Names   == {weight, alias, scale}
Spans   == {long, short}
Owners  == (weight :> long) @@ (alias :> long) @@ (scale :> short)
Lengths == (long :> 2) @@ (short :> 1)

\* Writers run the same code and bytes are not looked at.
Interchangeable == Permutations(Writer) \cup Permutations(Byte)
=============================================================================
