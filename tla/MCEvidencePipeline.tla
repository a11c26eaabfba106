-------------------------- MODULE MCEvidencePipeline --------------------------
(* Instances of the evidence pipeline. *)
EXTENDS EvidencePipeline, TLC

CONSTANTS
    MatStarts, CapStarts, ProbStarts, ArmStarts, PairStarts, Edits

MCMaxStarts ==
    [k \in Kinds |-> CASE k = "mat" -> MatStarts
                       [] k = "cap" -> CapStarts
                       [] k = "prob" -> ProbStarts
                       [] k \in {"llama", "vzero"} -> ArmStarts
                       [] k = "pair" -> PairStarts
                       [] k = "edit" -> Edits]

\* Answers, images and policies are only compared for equality.
Symmetry ==
    Permutations(Variants) \cup Permutations(Images) \cup Permutations(Policies)
=============================================================================
