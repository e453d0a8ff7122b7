--------------------------- MODULE MCNudgeCursor ---------------------------
(* Instances of NudgeCursor for TLC. *)
EXTENDS NudgeCursor, TLC

CONSTANTS f1, f2, t1, t2, w1, w2

(* Announcements at prompts, tools and Stops of one turn after another, with
   one read in between that re-arms them. *)
Announcing(p) ==
    [provider |-> p, feeds |-> {f1}, workstreams |-> {w1}, units |-> {1},
     hooks |-> HookOps \ {"discard"}, same |-> FALSE, vanish |-> FALSE, version |-> 3,
     records |-> 2, time |-> 2, turns |-> 2, revs |-> 2, claims |-> 3, nonces |-> 1]

(* ... of which Codex's hooks may be of either turn, all of them or, of one record,
   with the read as well, ... *)
Told == [Announcing("codex") EXCEPT !.hooks = {"prompt", "tool", "stop"}, !.revs = 0,
                                    !.nonces = 0]

ToldAndRead == [Announcing("codex") EXCEPT !.records = 1]

(* ... or all but the prompts. *)
ToldAtTools == [Announcing("codex") EXCEPT !.hooks = @ \ {"prompt"}, !.claims = 2]

(* The session moves between two workstreams while it is told of both. *)
Moving ==
    [Announcing("codex") EXCEPT !.feeds = {f1, f2}, !.workstreams = {w1, w2},
        !.hooks = {"tool", "stop"}, !.records = 1, !.time = 3,
        !.turns = 1, !.revs = 3, !.nonces = 0]

(* ... and reads while it moves. *)
MovingReader ==
    [Moving EXCEPT !.feeds = {f1}, !.hooks = HookOps \ {"prompt", "discard"}, !.nonces = 1]

(* Two reads at a time, of one command, of a text in two parts. *)
Reading ==
    [Announcing("codex") EXCEPT !.units = {1, 2}, !.same = TRUE, !.records = 1,
        !.hooks = {"reserve", "stage", "commit"}, !.turns = 1, !.revs = 3, !.nonces = 2]

(* ... from a feed that comes and goes, with reads given up. *)
Vanishing(units, same, hooks) ==
    [Reading EXCEPT !.vanish = TRUE, !.units = units, !.same = same, !.hooks = @ \union hooks]

(* The cursor is one of an earlier release. *)
Upgraded(p, v) ==
    [Announcing(p) EXCEPT !.version = v, !.claims = 2,
        !.hooks = {"prompt", "tool", "stop", "reserve"}]

AllScenes ==
    {Told, ToldAndRead, ToldAtTools,
     [Announcing("claude") EXCEPT !.claims = 2, !.turns = 1],
     [Announcing("claude") EXCEPT !.claims = 2, !.records = 1], Moving, MovingReader,
     Reading, Vanishing({1}, TRUE, {"discard"}), Vanishing({1, 2}, FALSE, {}),
     [Upgraded("codex", 1) EXCEPT !.records = 1],
     [Upgraded("codex", 1) EXCEPT !.hooks = @ \ {"prompt"}],
     [Upgraded("codex", 1) EXCEPT !.hooks = @ \ {"reserve"}, !.nonces = 0],
     Upgraded("claude", 2)}

(* Tool calls are interchangeable. *)
Symmetry == Permutations(Tools)

=============================================================================
