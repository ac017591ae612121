----------------------------- MODULE MCLearning -----------------------------
(* Three workflow runs of one task, and a threshold of one label for each   *)
(* strategy instead of five.                                               *)
EXTENDS Learning, TLC

CONSTANTS w1, w2, w3, g1, g2

MCSignatureOf == [r \in Runs |-> g1]

Symmetry == Permutations({w1, w2, w3})
=============================================================================
