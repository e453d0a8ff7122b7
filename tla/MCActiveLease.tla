--------------------------- MODULE MCActiveLease ---------------------------
(* Instances of ActiveLease for TLC. *)
EXTENDS ActiveLease

Kind(p, main, child, calls, left, ages) ==
    [provider |-> p, ages |-> ages, tools |-> calls, awaits |-> {}, faults |-> left,
     events |-> [a \in Actors |-> IF a = "main" THEN main ELSE child]]

Bare == {"prompt", "stop"}

CodexMain == Kind("codex", Bare \union {"pre", "perm", "post"}, {}, 1, 1, FALSE)
CodexCalls == Kind("codex", Bare \union {"pre", "post"}, {}, 2, 0, FALSE)
CodexAwaits == [Kind("codex", Bare \union {"pre", "perm", "post"}, {}, 2, 0, FALSE)
                   EXCEPT !.awaits = {2}]
CodexEnding == Kind("codex", Bare \union {"pre", "post", "session"}, {}, 1, 0, FALSE)
CodexCompacted == Kind("codex", Bare \union {"precompact", "postcompact"}, {}, 0, 1, FALSE)
CodexChild == Kind("codex", Bare, {"start", "prompt", "pre", "substop"}, 1, 1, FALSE)
CodexAging == Kind("codex", Bare \union {"pre", "post"}, {}, 1, 1, TRUE)
ClaudeMain == Kind("claude", Bare \union {"pre", "post", "batch", "failure", "session"}, {},
                   1, 1, FALSE)
ClaudeCalls == Kind("claude", Bare \union {"pre", "post", "batch"}, {}, 2, 0, FALSE)
ClaudeAwaits == [Kind("claude", Bare \union {"pre", "post", "batch"}, {}, 3, 0, FALSE)
                    EXCEPT !.awaits = {2}]
ClaudeChild == Kind("claude", Bare, {"start", "pre", "post", "batch", "substop"}, 1, 1, FALSE)
ClaudeAging == Kind("claude", Bare, {}, 0, 1, TRUE)

Kinds == {CodexMain, CodexCalls, CodexAwaits, CodexEnding, CodexCompacted, CodexChild,
          CodexAging, ClaudeMain, ClaudeCalls, ClaudeAwaits, ClaudeChild, ClaudeAging}

(* A Codex session that ends, or is resumed, while a hook is late. *)
EndedWithHookLeft == {[CodexEnding EXCEPT !.faults = 1]}

=============================================================================
