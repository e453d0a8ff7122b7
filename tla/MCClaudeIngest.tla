--------------------------- MODULE MCClaudeIngest ---------------------------
EXTENDS ClaudeIngest

Scene(rows, prompts, rewinds, foreign, late, pointers, inPlace, crashes, whats,
      wide, early) ==
    [rows |-> rows, prompts |-> prompts, rewinds |-> rewinds, foreign |-> foreign,
     late |-> late, pointers |-> pointers, inPlace |-> inPlace, crashes |-> crashes,
     whats |-> whats, wide |-> wide, early |-> early]

\* Requests interrupted with agents and their late answers; foreign input and
\* reports of background commands; rewinds under pointers, twice, over a
\* background turn, with late results and with foreign input;
\* an agent read in the middle of its answer; a death, and a pointer to a
\* rewind over a background turn.
MCScenes == {
    Scene(8, 2, 0, 0, 1, 0, 0, 1, {"agent"}, FALSE, FALSE),
    Scene(8, 2, 0, 1, 0, 0, 0, 1, {"background"}, TRUE, FALSE),
    Scene(6, 3, 1, 0, 0, 1, 0, 0, {}, FALSE, FALSE),
    Scene(7, 2, 2, 0, 0, 2, 1, 0, {}, FALSE, FALSE),
    Scene(8, 1, 1, 0, 0, 1, 1, 0, {"background"}, FALSE, FALSE),
    Scene(7, 2, 1, 0, 1, 1, 1, 0, {"plain"}, FALSE, FALSE),
    Scene(7, 2, 1, 1, 0, 1, 0, 0, {"plain"}, FALSE, FALSE),
    Scene(7, 2, 0, 0, 0, 0, 0, 1, {"agent"}, FALSE, TRUE),
    Scene(8, 1, 1, 0, 0, 1, 0, 1, {"background"}, FALSE, FALSE)}

\* A turn that a report continued is left.
LeftScenes == {Scene(9, 1, 1, 0, 0, 1, 0, 0, {"background"}, FALSE, FALSE)}

=============================================================================
