---------------------------- MODULE ClaudeTrace ----------------------------
(***************************************************************************)
(* What a Claude session file means: the active branch of its rows         *)
(* (computeActiveMembership of src/runner/claude.ts) and the turns they    *)
(* make (src/providers/claude/normalizer.ts).                              *)
(*                                                                         *)
(* A row is known by its line.  It names its parent row, 0 if it has none. *)
(* An assistant row is one block of a response: text or one call; the rows *)
(* of a response share its group and its stop reason.  A result and a task *)
(* notification name the call they belong to.  A pointer is a last-prompt  *)
(* record: it names the leaf the user kept.                                *)
(*                                                                         *)
(* A response is named by its first line.  Its rows and their results are  *)
(* connected, a call has at most one result, no uuid comes twice and no    *)
(* edge leads forward: the code's refusals of files that are not like this *)
(* are left out, as are attachments, sidecars, workflows,                  *)
(* compactions and malformed records.  Of a turn's digest the model keeps  *)
(* the rows that contributed and what depends on later rows.               *)
(***************************************************************************)
EXTENDS Naturals, Sequences, FiniteSets, SequencesExt, FiniteSetsExt

CONSTANT None

Prompts == {"prompt", "foreign", "notice"}
Calls == {"plain", "background", "agent"}

Row == [kind : Prompts \union {"assistant", "result", "duration", "pointer"},
        parent : Nat,               \* of a pointer: the leaf
        group : Nat,                \* of an assistant row: its response
        what : Calls \union {None}, \* of an assistant row: its call
        ends : BOOLEAN,             \* of an assistant row: end_turn
        of : Nat]                   \* of a result, a notice: the call

Lines(rows, kind) == {i \in DOMAIN rows : rows[i].kind = kind}
Timeline(rows) == DOMAIN rows \ Lines(rows, "pointer")
CallsIn(rows, S) == {i \in S : rows[i].kind = "assistant" /\ rows[i].what # None}
ResultsOf(rows, calls) == {i \in Lines(rows, "result") : rows[i].of \in calls}
Children(rows, S) == {i \in Timeline(rows) : rows[i].parent \in S}

Ancestry(rows, leaf) ==
    LET up[i \in 0 .. Len(rows)] ==
            IF i = 0 THEN {} ELSE {i} \union up[rows[i].parent]
    IN  up[leaf]

GroupOf(rows, i) == IF rows[i].kind = "assistant" THEN rows[i].group ELSE 0

ResponseRows(rows, g) == {i \in Lines(rows, "assistant") : rows[i].group = g}

-----------------------------------------------------------------------------
(* The active branch *)

HasFork(rows) ==
    \E i, j \in Timeline(rows) :
        i # j /\ rows[i].parent = rows[j].parent /\ rows[i].parent # 0

(* The response the leaf belongs to, unless a newer human prompt is between. *)
AnchoredGroup(rows, anc) ==
    LET stops == {i \in anc : rows[i].kind \in {"assistant", "prompt"}}
    IN  IF stops = {} THEN 0 ELSE GroupOf(rows, Max(stops))

(* isSettledResponseGroup *)
Settled(rows, calls) ==
    \A c \in calls : \E i \in Lines(rows, "result") : rows[i].of = c

(* isParallelContinuation: rows of one response, or results of calls of the
   current one that are accepted. *)
Parallel(rows, S, group, anc) ==
    \/ \E g \in DOMAIN rows : \A i \in S : GroupOf(rows, i) = g
    \/ /\ group # 0
       /\ \A i \in S :
            \/ GroupOf(rows, i) = group
            \/ /\ rows[i].kind = "result"
               /\ GroupOf(rows, rows[i].of) = group
               /\ rows[i].of \in anc \union S

(* One round behind the pointer at line p: the rows of the current response,
   then the one semantic continuation. *)
Absorb(rows, p, w) ==
    LET response == {i \in w.semantic : w.group # 0 /\ GroupOf(rows, i) = w.group}
    IN  IF response = {} \/ w.ambiguous THEN w
        ELSE IF Cardinality(w.semantic) > 1
                /\ ~Parallel(rows, w.semantic, w.group, w.anc)
             THEN [w EXCEPT !.ambiguous = TRUE]
        ELSE [w EXCEPT !.anc = @ \union response, !.extended = TRUE,
                       !.semantic = (@ \ response) \union
                           {i \in Children(rows, response) : i > p}]

Continue(rows, p, w) ==
    LET kids == {i \in Children(rows, w.frontier) : i > p /\ i \notin w.anc}
        a == FoldLeft(LAMBDA v, row : Absorb(rows, p, v),
                      [w EXCEPT !.semantic = kids, !.extended = FALSE], rows)
        open == a.extended
                /\ ~Settled(rows, CallsIn(rows, a.anc \intersect ResponseRows(rows, a.group)))
        several == \/ Cardinality(a.semantic) > 1
                   \/ a.extended /\ \E i \in a.semantic : rows[i].kind = "result"
        first == Min(a.semantic)
    IN  IF w.ambiguous \/ kids = {} THEN w
        ELSE IF \/ a.ambiguous \/ open
                \/ several /\ ~Parallel(rows, a.semantic, a.group, a.anc)
             THEN [a EXCEPT !.ambiguous = TRUE]
        ELSE [a EXCEPT !.anc = @ \union a.semantic, !.frontier = a.semantic,
                       !.group = IF a.semantic = {} THEN @
                                 ELSE IF GroupOf(rows, first) # 0 THEN GroupOf(rows, first)
                                 ELSE IF rows[first].kind = "prompt" THEN 0
                                 ELSE @]

NoPointer(rows) ==
    [pointer |-> FALSE, fork |-> HasFork(rows), ambiguous |-> FALSE,
     unsettled |-> FALSE, anc |-> {}, groups |-> {}, onPath |-> {}]

(* computeActiveMembership *)
ActiveMembership(rows) ==
    LET p == Max(Lines(rows, "pointer"))
        leaf == rows[p].parent
        anc == Ancestry(rows, leaf)
        group == AnchoredGroup(rows, anc)
        response == ResponseRows(rows, group)
        calls == CallsIn(rows, response)
        unsettled == calls # {} /\ ~Settled(rows, calls)
        seed == IF calls = {} \/ unsettled THEN {}
                ELSE response \union ResultsOf(rows, calls)
        start == [anc |-> anc \union seed, frontier |-> {leaf} \union seed,
                  group |-> group, ambiguous |-> FALSE, extended |-> FALSE,
                  semantic |-> {}]
        walk == IF unsettled THEN start
                ELSE FoldLeft(LAMBDA w, row : Continue(rows, p, w), start, rows)
        astray == \E i \in Timeline(rows) : i > p /\ i \notin walk.anc
    IN  IF Lines(rows, "pointer") = {} THEN NoPointer(rows)
        ELSE [pointer |-> TRUE, fork |-> HasFork(rows), unsettled |-> unsettled,
              ambiguous |-> ~unsettled /\ (walk.ambiguous \/ astray),
              anc |-> walk.anc,
              groups |-> {GroupOf(rows, i) : i \in walk.anc} \ {0},
              onPath |-> {rows[i].of : i \in walk.anc \intersect Lines(rows, "result")}]

(* describeUnstableSnapshot *)
Unstable(m, live) ==
    \/ live /\ m.fork /\ ~m.pointer
    \/ m.unsettled
    \/ m.ambiguous

-----------------------------------------------------------------------------
(* The turns *)

NewNormalizer ==
    [open |-> None, onBranch |-> FALSE, next |-> 1, starts |-> <<>>,
     issued |-> <<>>, links |-> <<>>, completed |-> {},
     suppressed |-> FALSE, foreign |-> 0, answered |-> FALSE, turns |-> <<>>]

(* A row on a path the user left while the open turn is on the kept one. *)
IsOffBranch(rows, m, n, i) ==
    m.pointer /\ n.onBranch /\ i \notin m.anc /\ GroupOf(rows, i) \notin m.groups

CloseTurn(n) ==
    [n EXCEPT !.open = None, !.next = @ + 1,
              !.turns = Append(@, [id |-> n.open.id, sequence |-> n.next,
                                   supersedes |-> n.open.supersedes,
                                   rows |-> n.open.rows, last |-> n.open.last,
                                   terminal |-> n.open.terminal])]

CloseOpen(n) == IF n.open = None THEN n ELSE CloseTurn(n)

SupersedesSibling(rows, n, i) ==
    {j \in Range(n.starts) : rows[j].parent = rows[i].parent /\ rows[j].parent # 0}

(* Everything started since the first turn start with the same parent. *)
Supersedes(rows, n, i) ==
    LET k == SelectInSeq(n.starts, LAMBDA j : rows[j].parent = rows[i].parent)
    IN  IF rows[i].parent = 0 \/ k = 0 THEN {}
        ELSE Range(SubSeq(n.starts, k, Len(n.starts)))

OpenTurn(rows, m, n, i) ==
    [CloseOpen(n) EXCEPT
        !.suppressed = FALSE, !.foreign = 0, !.answered = FALSE,
        !.starts = Append(@, i),
        !.open = [id |-> i, supersedes |-> Supersedes(rows, n, i), rows |-> {},
                  last |-> i, terminal |-> FALSE, pending |-> {}, background |-> {}],
        !.onBranch = m.pointer => i \in m.anc]

BarrierUnsuppressed(n) ==
    IF n.open # None /\ n.open.terminal THEN CloseTurn(n) ELSE n

(* Foreign input: it ends a turn that had ended, and what answers it in a
   working turn is suppressed. *)
Barrier(n) ==
    LET fresh == [n EXCEPT !.foreign = 0, !.answered = FALSE]
    IN  IF n.open # None /\ n.open.terminal
        THEN CloseTurn([fresh EXCEPT !.suppressed = FALSE])
        ELSE [fresh EXCEPT !.suppressed = TRUE]

CompleteToolUse(n, c) ==
    [n EXCEPT !.completed = @ \union {c},
              !.open = IF @ = None THEN @ ELSE [@ EXCEPT !.background = @ \ {c}]]

AcceptNotice(rows, m, n, i) ==
    LET c == rows[i].of
        offBranch == IsOffBranch(rows, m, n, i)
        done == CompleteToolUse(n, c)
        own == /\ n.open # None /\ c \in DOMAIN n.issued
               /\ n.issued[c] = n.open.id /\ n.onBranch /\ ~offBranch
    IN  IF own THEN done
        ELSE IF ~offBranch /\ (n.open = None \/ n.open.terminal)
             THEN OpenTurn(rows, m, done, i)
        ELSE Barrier(done)

Issue(rows, n, i) ==
    IF rows[i].what = None THEN n
    ELSE [n EXCEPT !.issued = [j \in DOMAIN @ \union {i} |->
                                  IF j = i THEN n.open.id ELSE @[j]]]

AcceptAssistant(rows, m, n, i) ==
    LET r == rows[i]
        over == n.suppressed /\ n.answered /\ r.group # n.foreign
        b == n.open
    IN  IF n.open = None THEN n
        ELSE IF n.suppressed /\ ~over
             THEN [n EXCEPT !.foreign = r.group,
                            !.answered = r.ends \/ (@ /\ r.group = n.foreign)]
        ELSE LET s == IF over THEN [n EXCEPT !.suppressed = FALSE, !.foreign = 0,
                                             !.answered = FALSE] ELSE n
             IN  IF IsOffBranch(rows, m, s, i) THEN Issue(rows, s, i)
                 ELSE [Issue(rows, s, i) EXCEPT !.open =
                         [b EXCEPT !.rows = @ \union {i}, !.last = i,
                            !.pending = IF r.what = None THEN @ ELSE @ \union {i},
                            !.background = IF r.what = "background" THEN @ \union {i} ELSE @,
                            !.terminal = @ \/ r.ends]]

(* The parent edge of a subagent, known when its call has a result. *)
Link(rows, n, c, turn) ==
    IF rows[c].what # "agent" THEN n
    ELSE [n EXCEPT !.links = [j \in DOMAIN @ \union {c} |->
                                 IF j = c THEN turn ELSE @[j]]]

RecordLateLineage(rows, n, c) ==
    IF c \notin DOMAIN n.issued \/ c \in DOMAIN n.links THEN n
    ELSE Link(rows, n, c, n.issued[c])

AcceptResult(rows, m, n, i) ==
    LET c == rows[i].of
        closes == n.open # None /\ c \in n.open.pending /\ c \notin m.onPath
        off == IsOffBranch(rows, m, n, i) /\ ~closes
        touched == [n EXCEPT !.open.last = i]
    IN  IF n.open = None \/ off THEN RecordLateLineage(rows, n, c)
        ELSE IF c \notin n.open.pending THEN RecordLateLineage(rows, touched, c)
        ELSE Link(rows, [touched EXCEPT !.open.pending = @ \ {c},
                                        !.open.rows = @ \union {i}], c, n.open.id)

AcceptDuration(rows, m, n, i) ==
    IF \/ n.open = None \/ n.suppressed
       \/ ~n.open.terminal \/ n.open.background # {}
       \/ IsOffBranch(rows, m, n, i)
    THEN n ELSE CloseTurn(n)

Accept(rows, m, n, i) ==
    CASE rows[i].kind = "prompt" -> OpenTurn(rows, m, n, i)
      [] rows[i].kind = "foreign" -> Barrier(n)
      [] rows[i].kind = "notice" -> AcceptNotice(rows, m, n, i)
      [] rows[i].kind = "assistant" -> AcceptAssistant(rows, m, n, i)
      [] rows[i].kind = "result" -> AcceptResult(rows, m, n, i)
      [] rows[i].kind = "duration" -> AcceptDuration(rows, m, n, i)
      [] rows[i].kind = "pointer" -> n

FinishEager(n, sourceFinal) ==
    IF n.open # None /\ n.open.terminal THEN CloseTurn(n) ELSE n

(* finish: what the end of the file closes counts only if it is final. *)
Finish(n, sourceFinal) ==
    IF sourceFinal /\ n.open # None /\ n.open.terminal THEN CloseTurn(n) ELSE n

(* The full replay. *)
Normalize(rows, m, sourceFinal) ==
    Finish(FoldLeft(LAMBDA n, i : Accept(rows, m, n, i), NewNormalizer,
                    [i \in DOMAIN rows |-> i]), sourceFinal)

=============================================================================
