---------------------------- MODULE MCEnrollment ----------------------------
(* Instances of Enrollment for TLC. *)
EXTENDS Enrollment, TLC

CONSTANTS s1, s2, n1, n2, i1, i2, i3, c1, c2

(* Sessions, names, identities and commands are interchangeable. *)
Symmetry ==
    Permutations(Sessions) \union Permutations(Names)
      \union Permutations(Ids) \union Permutations(Commands)

=============================================================================
