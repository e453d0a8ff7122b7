---------------------------- MODULE MCDashboard ----------------------------
(* Small scenes of the dashboard. *)
EXTENDS Dashboard

Still ==
    [sessions |-> {}, working |-> {}, spoken |-> {}, foreign |-> {1}, prompts |-> 0,
     moves |-> FALSE, torn |-> FALSE, blocks |-> FALSE, exists |-> {1}, flips |-> 0,
     faults |-> 0, keys |-> {}, presses |-> 0, refreshes |-> 0, resizes |-> 0, tiers |-> Tiers,
     motion |-> TRUE, warns |-> FALSE, named |-> 2, opens |-> Home]

MCScenes == {
    (* one reading while sessions stop, publish in parts and get blocked *)
    [Still EXCEPT !.sessions = {1, 2}, !.working = {1, 2}, !.torn = TRUE, !.blocks = TRUE,
                  !.motion = FALSE],
    (* one reading while one of them reads the other's news *)
    [Still EXCEPT !.sessions = {1, 2}, !.working = {1, 2}, !.spoken = {2},
                  !.motion = FALSE],
    (* one reading while one of them is prompted and moves *)
    [Still EXCEPT !.sessions = {1, 2}, !.spoken = {1, 2}, !.prompts = 1,
                  !.moves = TRUE, !.exists = {1, 2}, !.motion = FALSE],
    (* a workstream is completed with its film, and somebody else changes it *)
    [Still EXCEPT !.keys = {"x", "Enter", "Esc"}, !.presses = 4, !.flips = 1,
                  !.refreshes = 1, !.warns = TRUE, !.resizes = 1],
    (* the same without motion *)
    [Still EXCEPT !.keys = {"x", "Enter", "Esc", "/"}, !.presses = 4, !.flips = 1,
                  !.faults = 1, !.refreshes = 1, !.motion = FALSE],
    (* a workstream is created, or somebody else creates it *)
    [Still EXCEPT !.keys = {"n", "Submit", "Esc", "r"}, !.presses = 4, !.flips = 1,
                  !.foreign = {1, 2},
                  !.faults = 1, !.refreshes = 1],
    (* help and refreshes over a dialog and over a creation *)
    [Still EXCEPT !.keys = {"x", "n", "Submit", "r", "?", "Esc"}, !.presses = 3],
    (* a session works, and the terminal is resized *)
    [Still EXCEPT !.sessions = {1}, !.working = {1}, !.opens = 1,
                  !.keys = {"Space", "?", "Esc", "Enter", "quit"}, !.presses = 3,
                  !.refreshes = 1, !.resizes = 1]
}
=============================================================================
