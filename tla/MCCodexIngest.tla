--------------------------- MODULE MCCodexIngest ---------------------------
(* Instances of CodexIngest for TLC. *)
EXTENDS CodexIngest, TLC

CONSTANTS root, child, w1, w2

Scene(second, rootRecords, childRecords, maxMoves, maxFaults) ==
    [second |-> second, reopens |-> FALSE, moves |-> maxMoves, faults |-> maxFaults,
     records |-> (root :> rootRecords) @@ (child :> childRecords)]

\* A root that moves twice, with a crash, a rotation or a reset; the same with
\* native times that are coarser; and the rollouts of a root and a subagent.
MCScenes == {Scene(1, 4, 0, 2, 1), Scene(2, 3, 0, 2, 0), Scene(2, 1, 2, 1, 0)}

Symmetry == Permutations(Workstreams)

=============================================================================
