------------------------------ MODULE MCWatch ------------------------------
(* A watcher a, its peer b; b is of Claude Code, a of Codex.  Small scenes of
   watching, of awaiting and of reading page by page. *)
EXTENDS Pages

CONSTANTS a, b, w1, w2

See(watchers, scope, awaits, does) ==
    [watchers |-> watchers, scope |-> scope, awaits |-> awaits, does |-> does]

All(op, whom) == {op} \X whom

MCHome == [s \in Sessions |-> IF s = b THEN w2 ELSE w1]

MCScenes ==
    {See({a}, w1, {}, All("join", {b}) \union All("turn", {b}) \union All("fault", {a})),
     See({a}, w1, {}, All("incident", Incidents) \union All("turn", {b})
                       \union All("fault", {a})),
     See({a}, NoScope, {}, All("turn", {b}) \union All("rebuild", {b})),
     See({a}, NoScope, {}, All("lease", {b} \X {"main", "child"})
                            \union All("idle", {<<b, "main">>})),
     See({a}, NoScope, {}, All("lease", {a, b} \X {"main"})
                           \union All("claim", {a, b} \X {"main"})
                           \union All("widen", {<<b, "main">>})),
     See({a, b}, NoScope, {}, All("turn", {b}) \union All("answer", {a, b})),
     See({}, NoScope, {a}, All("join", {a}) \union All("read", {a})
                           \union All("turn", {b})),
     See({}, NoScope, {}, All("list", {a}) \union All("turn", {a, b})),
     See({}, NoScope, {}, All("list", {a}) \union All("turn", {b})
                           \union All("rebuild", {b}) \union All("tear", {b})),
     See({}, w2, {}, All("show", {b}) \union All("turn", {b}) \union All("rebuild", {b})
                      \union All("tear", {b}) \union All("fault", {b})),
     See({}, w2, {}, All("evidence", {b}) \union All("actions", {b}) \union All("turn", {b})
                      \union All("rebuild", {b}) \union All("tear", {b})),
     See({}, NoScope, {}, All("health", {b}) \union All("lease", {<<b, "main">>})
                           \union All("idle", {<<b, "main">>}) \union All("read", {b})),
     See({}, NoScope, {}, All("health", {b}) \union All("turn", {b}) \union All("fault", {b})
                           \union All("rebuild", {b}) \union All("tear", {b})),
     See({}, w2, {}, All("show", {a}) \union All("turn", {a, b}) \union All("fault", {b})),
     See({}, w2, {}, All("context", {a}) \union All("turn", {a, b})
                      \union All("tear", {b}))}

MCOrder == <<a, b>>
=============================================================================
