-------------------------- MODULE MCSkillAuthoring --------------------------
(* Two requests, for one skill name or for two, served by two threads; a    *)
(* draft has two versions that load and one that does not.                 *)
EXTENDS SkillAuthoring, TLC

CONSTANTS r1, r2, s1, s2, t1, t2, good, better, broken

Symmetry == Permutations({r1, r2}) \cup Permutations({s1, s2})
              \cup Permutations({t1, t2}) \cup Permutations({good, better})
=============================================================================
