------------------------- MODULE MCPublishJournal -------------------------
(* Two hooks of a session that ends turns and moves while somebody reads, and
   three that write a journal of two. *)
EXTENDS PublishJournal, TLC

CONSTANTS a1, a2, a3, w1, w2, x, y

MCScenes ==
    {[hooks |-> 2, turns |-> 2, moves |-> 2, faults |-> 2, others |-> TRUE, reads |-> TRUE],
     [hooks |-> 3, turns |-> 0, moves |-> 0, faults |-> 2, others |-> FALSE, reads |-> FALSE]}

Symmetry ==
    Permutations(Attempts) \union Permutations(Workstreams) \union Permutations(Texts)

=============================================================================
