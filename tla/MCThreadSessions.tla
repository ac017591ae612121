-------------------------- MODULE MCThreadSessions --------------------------
(* ThreadSessions with two drivers that come and go. *)
EXTENDS ThreadSessions, TLC

DriverSymmetry == Permutations(Drivers)

=============================================================================
