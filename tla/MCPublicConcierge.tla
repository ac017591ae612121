-------------------------- MODULE MCPublicConcierge --------------------------
(* PublicConcierge with three requests of two visitors behind one client. *)
EXTENDS PublicConcierge, TLC

Interchangeable == Permutations(Requests \ WithContact) \cup Permutations(Visitors)

=============================================================================
