------------------------------ MODULE MCPipeline ------------------------------
(* Instances of Pipeline for TLC. *)
EXTENDS Pipeline, TLC

Symmetry == Permutations(Text)

\* Bound: nothing is looked at after the first certificate.
OneCertificate == certificate = None

\* Bound: two layers are combined over one finished run of migrate whose first
\* candidate won; otherwise one of them is used, and over a second run of
\* migrate it is layer C.
Used == {l \in Layer : verifier[l] # None \/ layerReport[l] # None}
FewLayers ==
    \/ Used \subseteq {"C"}
    \/ runs = 1 /\ Cardinality(Used) = 1
    \/ runs = 1 /\ Idle /\ Chosen /\ selection.winner = <<1, 0>>
=============================================================================
