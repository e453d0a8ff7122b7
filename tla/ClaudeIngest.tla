---------------------------- MODULE ClaudeIngest ----------------------------
(***************************************************************************)
(* The ingest of a Claude session while Claude writes it                   *)
(* (src/runner/claude.ts): each run replays the whole file, withholds what *)
(* may still change, waits for the files of the subagents, and appends     *)
(* what is new, first evidence and then turns.  ClaudeTrace says what a    *)
(* file means.                                                             *)
(*                                                                         *)
(* Claude is external: it appends prompts, responses, results, foreign     *)
(* input, task notifications and turn_duration records, rewinds, and       *)
(* writes last-prompt pointers, appended or in place.  owner is known to   *)
(* the model only: the request each response row was written for.          *)
(*                                                                         *)
(* A run is a read of the file, the reads of the agents' files with the    *)
(* last drift check and the append of evidence (nothing the others do in   *)
(* between can be seen but a drift), and the append of turns.  A run that  *)
(* finds nothing new writes nothing and is left out.  So is the            *)
(* checkpoint: nothing is read back from it but whether the file was       *)
(* replaced.  Workstream stamps and torn appends are CodexIngest's.        *)
(***************************************************************************)
EXTENDS ClaudeTrace

CONSTANT Scenes

\* [rows, prompts, rewinds, foreign, late, pointers, inPlace, crashes: bounds;
\*  whats: the calls made; wide: responses may have two rows;
\*  early: an agent may be read in the middle of its answer]
ScenesAssumption ==
    \A s \in Scenes :
        /\ {s.rows, s.prompts, s.rewinds, s.foreign, s.late, s.pointers,
            s.inPlace, s.crashes} \subseteq Nat
        /\ s.whats \subseteq Calls
        /\ s.wide \in BOOLEAN /\ s.early \in BOOLEAN

ASSUME ScenesAssumption

VARIABLES
    scene,
    trace,      \* the rows of the session file
    owner,      \* of each response row: the request it was written for
    leaf,       \* the line Claude goes on from
    asker,      \* the request being answered
    paused,     \* the human request that waits for it, or 0
    spent,      \* how often each bounded event happened (bounds only)
    version,    \* how often a pointer was rewritten in place
    child,      \* the agent's file per agent call
    ended,      \* the session ended
    run,        \* the run under way, or None
    evidence,   \* {[of, child, what]}
    feed        \* the turns published

session == <<trace, owner, leaf, asker, paused, spent, version, child, ended>>
vars == <<scene, session, spent, run, evidence, feed>>

Here == Len(trace) + 1
Rows == DOMAIN trace
AgentCalls == {c \in CallsIn(trace, Rows) : trace[c].what = "agent"}
Answered(c) == ResultsOf(trace, {c}) # {}
HasEnded(r) == \E i \in Rows : owner[i] = r /\ trace[i].ends

\* The request of the next response: after a foreign one, the one it paused.
Next2Answer == IF HasEnded(asker) THEN paused ELSE asker

Bump(what) == spent' = [spent EXCEPT ![what] = @ + 1]
Within(what) == spent[what] < scene[what]

-----------------------------------------------------------------------------
(* Claude *)

Write(row, for) ==
    /\ ~ended
    /\ Len(trace) < scene.rows
    /\ trace' = Append(trace, row)
    /\ owner' = Append(owner, for)
    /\ UNCHANGED <<scene, version, ended, run, evidence, feed>>

NewRow(kind, parent) ==
    [kind |-> kind, parent |-> parent, group |-> 0, what |-> None,
     ends |-> FALSE, of |-> 0]

Ask(parent) ==
    /\ Write(NewRow("prompt", parent), 0)
    /\ leaf' = Here /\ asker' = Here /\ paused' = 0
    /\ UNCHANGED child

Prompt == Within("prompts") /\ Ask(leaf) /\ Bump("prompts")

\* The user goes back to before prompt q and asks something else.
Rewind(q) ==
    /\ Within("rewinds")
    /\ q \in Ancestry(trace, leaf) /\ trace[q].kind = "prompt"
    /\ Ask(trace[q].parent)
    /\ Bump("rewinds")

Interrupt(row) ==
    /\ leaf # 0
    /\ Write(row, 0)
    /\ leaf' = Here /\ asker' = Here
    /\ paused' = IF HasEnded(asker) \/ trace[asker].kind # "prompt" THEN paused ELSE asker
    /\ UNCHANGED child

Foreign == Within("foreign") /\ Interrupt(NewRow("foreign", leaf)) /\ Bump("foreign")

\* The report of a background command or of an agent that has finished.
Notice(c) ==
    /\ c \in CallsIn(trace, Rows) /\ trace[c].what # "plain" /\ Answered(c)
    /\ \A i \in Lines(trace, "notice") : trace[i].of # c
    /\ trace[c].what = "agent" => child[c] = 3
    /\ Interrupt([NewRow("notice", leaf) EXCEPT !.of = c])
    /\ UNCHANGED spent

Respond(group, what, for) ==
    /\ what # None => what \in scene.whats
    /\ Write([NewRow("assistant", leaf) EXCEPT !.group = group, !.what = what,
                                               !.ends = what = None], for)
    /\ leaf' = Here
    /\ child' = IF what = "agent"
                THEN [c \in DOMAIN child \union {Here} |-> IF c = Here THEN 0 ELSE child[c]]
                ELSE child
    /\ UNCHANGED spent

\* A response ends the turn with text or makes calls.
NewResponse(what) ==
    /\ leaf # 0 /\ Next2Answer # 0
    /\ \/ trace[leaf].kind \in Prompts
       \/ /\ trace[leaf].kind = "result"
          /\ \A c \in CallsIn(trace, ResponseRows(trace, GroupOf(trace, trace[leaf].of))) :
                Answered(c)
       \/ trace[leaf].ends \/ trace[leaf].kind = "duration"
    /\ Respond(Here, what, Next2Answer)
    /\ asker' = Next2Answer
    /\ paused' = IF HasEnded(asker) THEN 0 ELSE paused

NextBlock(what) ==
    /\ scene.wide /\ leaf # 0 /\ trace[leaf].kind = "assistant"
    /\ trace[leaf].group = leaf
    /\ trace[leaf].ends <=> what = None
    /\ Respond(leaf, what, owner[leaf])
    /\ UNCHANGED <<asker, paused>>

\* The result of a call; late if Claude has gone on without it.
Result(c) ==
    LET g == GroupOf(trace, c)
        current == g = GroupOf(trace, IF trace[leaf].kind = "result"
                                       THEN trace[leaf].of ELSE leaf)
    IN  /\ c \in CallsIn(trace, Rows) /\ ~Answered(c)
        /\ Write([NewRow("result", c) EXCEPT !.of = c], 0)
        /\ IF current THEN leaf' = Here /\ UNCHANGED spent
                      ELSE Within("late") /\ Bump("late") /\ UNCHANGED leaf
        /\ UNCHANGED <<asker, paused, child>>

Duration ==
    /\ leaf # 0 /\ trace[leaf].ends
    /\ Write(NewRow("duration", leaf), 0)
    /\ leaf' = Here
    /\ UNCHANGED <<asker, paused, spent, child>>

WritePointer ==
    /\ Within("pointers") /\ leaf # 0
    /\ Write(NewRow("pointer", leaf), 0)
    /\ Bump("pointers")
    /\ UNCHANGED <<leaf, asker, paused, child>>

RewritePointer ==
    /\ ~ended /\ Within("inPlace") /\ Lines(trace, "pointer") # {}
    /\ LET p == Max(Lines(trace, "pointer"))
       IN  trace[p].parent # leaf /\ trace' = [trace EXCEPT ![p].parent = leaf]
    /\ version' = version + 1 /\ Bump("inPlace")
    /\ UNCHANGED <<scene, owner, leaf, asker, paused, child, ended, run, evidence, feed>>

\* 1: works, 2: the first row of its answer is there, 3: all of it
AgentWrites(c) ==
    /\ child[c] < 3
    /\ child' = [child EXCEPT ![c] = IF @ = 1 /\ ~scene.early THEN 3 ELSE @ + 1]
    /\ UNCHANGED <<scene, trace, owner, leaf, asker, paused, spent, version, ended,
                   run, evidence, feed>>

End ==
    /\ ~ended /\ leaf # 0 /\ ended' = TRUE
    /\ UNCHANGED <<scene, trace, owner, leaf, asker, paused, spent, version, child,
                   run, evidence, feed>>

Claude ==
    \/ Prompt \/ Foreign \/ Duration \/ WritePointer \/ RewritePointer \/ End
    \/ \E i \in Rows : Rewind(i) \/ Notice(i) \/ Result(i)
    \/ \E what \in Calls \union {None} : NewResponse(what) \/ NextBlock(what)
    \/ \E c \in DOMAIN child : AgentWrites(c)

-----------------------------------------------------------------------------
(* The runner *)

Published == {t.id : t \in Range(feed)}

(* runClaudeTrace up to the children: a file whose branch is not certain
   publishes nothing.  The last turn is withheld unless the file is final. *)
Read(sourceFinal) ==
    LET m == ActiveMembership(trace)
        n == Normalize(trace, m, sourceFinal)
    IN  /\ run = None
        /\ sourceFinal => ended
        /\ ~Unstable(m, ~sourceFinal)
        /\ \E t \in Range(n.turns) : t.id \notin Published
        /\ run' = [turns |-> n.turns, links |-> n.links, completed |-> n.completed,
                   length |-> Len(trace), version |-> version]
        /\ UNCHANGED <<scene, session, spent, evidence, feed>>

Drifted == run.length # Len(trace) \/ run.version # version

(* normalizeChildren: an agent is ready when its file has ended its turn or
   the session says that it has finished. *)
Ready(c, completed) == child[c] >= 2 \/ (child[c] = 1 /\ c \in completed)

BlockedParents(links, completed) ==
    {links[c] : c \in {d \in DOMAIN links : ~Ready(d, completed)}}

(* enrichRollups *)
Enrich(t, links) ==
    [id |-> t.id, sequence |-> t.sequence, supersedes |-> t.supersedes,
     rows |-> t.rows, last |-> t.last, terminal |-> t.terminal,
     children |-> {<<c, child[c]>> : c \in {d \in DOMAIN links : links[d] = t.id}}]

Publishable(turns, links, completed) ==
    LET kept == SelectSeq(turns, LAMBDA t : t.id \notin BlockedParents(links, completed))
    IN  [i \in DOMAIN kept |-> Enrich(kept[i], links)]

EvidenceOf(t) ==
    {[of |-> t.id, child |-> 0, what |-> t.rows]}
    \union {[of |-> t.id, child |-> k[1], what |-> {k[2]}] : k \in t.children}

SameEvidenceByChild(e, f) == e.child = f.child

SameEvidence(e, f) == e.child = f.child /\ (e.child = 0 => e.of = f.of)

\* appendUniqueJsonl: what is there under its identity stays.
AppendEvidence(new) ==
    evidence \union {e \in new : ~\E f \in evidence : SameEvidence(e, f)}

Unpublished(batch) == SelectSeq(batch, LAMBDA t : t.id \notin Published)

PublishEvidence ==
    /\ run # None /\ "turns" \in DOMAIN run
    /\ IF Drifted
       THEN run' = None /\ UNCHANGED evidence
       ELSE LET turns == Publishable(run.turns, run.links, run.completed)
            IN  /\ evidence' = AppendEvidence(UNION {EvidenceOf(t) : t \in Range(turns)})
                /\ run' = [batch |-> turns]
    /\ UNCHANGED <<scene, session, spent, feed>>

PublishTurns ==
    /\ run # None /\ "batch" \in DOMAIN run
    /\ feed' = feed \o Unpublished(run.batch)
    /\ run' = None
    /\ UNCHANGED <<scene, session, spent, evidence>>

Crash ==
    /\ run # None /\ Within("crashes") /\ Bump("crashes")
    /\ run' = None
    /\ UNCHANGED <<scene, trace, owner, leaf, asker, paused, version, child, ended,
                   evidence, feed>>

Run == (\E last \in BOOLEAN : Read(last)) \/ PublishEvidence \/ PublishTurns

-----------------------------------------------------------------------------

Init ==
    /\ scene \in Scenes
    /\ trace = <<>> /\ owner = <<>> /\ leaf = 0 /\ asker = 0 /\ paused = 0
    /\ spent = [w \in {"prompts", "rewinds", "foreign", "late", "pointers",
                       "inPlace", "crashes"} |-> 0]
    /\ version = 0 /\ child = <<>> /\ ended = FALSE
    /\ run = None /\ evidence = {} /\ feed = <<>>

Next == Claude \/ Run \/ Crash

Spec == Init /\ [][Next]_vars

-----------------------------------------------------------------------------
(* Properties *)

Turn == [id : Nat, sequence : Nat, supersedes : SUBSET Nat, rows : SUBSET Nat,
         last : Nat, terminal : BOOLEAN, children : SUBSET (Nat \X (1 .. 3))]

(* Rows, turns and evidence have their shape, and a published turn has an
   identity of its own. *)
TypeOK ==
    /\ trace \in Seq(Row) /\ owner \in Seq(Nat) /\ Len(owner) = Len(trace)
    /\ {leaf, asker, paused} \subseteq 0 .. Len(trace)
    /\ child \in [AgentCalls -> 0 .. 3]
    /\ feed \in Seq(Turn) /\ IsInjective([i \in DOMAIN feed |-> feed[i].id])
    /\ evidence \subseteq [of : Nat, child : Nat, what : SUBSET Nat]

Now == ActiveMembership(trace)
Decidable == ~Unstable(Now, FALSE)
Replay == Normalize(trace, Now, TRUE)

\* What one ingest of the file as it is would publish.
OneShot == Range(Publishable(Replay.turns, Replay.links, Replay.completed))

(* src/runner/claude-state.ts:24-27: repeated polling converges on exactly the
   one-shot result: what is published is what one ingest of the whole file
   says now. *)
Converges ==
    feed # <<>> /\ Decidable =>
        /\ \A t \in Range(feed) : \E u \in Range(Replay.turns) : u.id = t.id
        /\ \A t \in Range(feed), u \in OneShot : t.id = u.id => t = u

\* The launch of one of its agents was answered after it was closed.
LateLineage(t) ==
    \E c \in AgentCalls \cap t.rows : ResultsOf(trace, {c}) \cap t.rows = {}

\* One of its agents was read in the middle of its answer.
Unattested(t) == \E k \in t.children : k[2] # 3

\* The result of a call made before it came after it had begun.
Touched(t) == \E i \in Lines(trace, "result") : i > t.id /\ trace[i].of < t.id

\* The user went back to before a turn that a report had continued.
LeftContinued ==
    \E i \in Lines(trace, "notice"), t \in Range(Replay.turns) :
        Now.pointer /\ t.id \notin Now.anc /\ trace[i].of \in t.rows

ConvergesUnless ==
    feed # <<>> /\ Decidable /\ ~LeftContinued =>
        \A t \in Range(feed) :
            \/ LateLineage(t) \/ Unattested(t) \/ Touched(t)
            \/ /\ \E u \in Range(Replay.turns) : u.id = t.id
               /\ \A u \in OneShot : t.id = u.id => t = u

(* Evidence that a dead run may have stored: what is there under its identity
   stays, and the replay that publishes the turn may say something else, of an
   agent read in the middle of its answer, or of a turn whose continuation the
   user went back to before since. *)
StoredByTheDead(e) ==
    /\ spent.crashes > 0
    /\ \E f \in evidence : f.child = e.child /\ (e.child = 0 => f.of = e.of)

(* A published turn finds all the evidence it names, and as it names it unless
   a run died between its appends. *)
EvidenceBacksTurns ==
    /\ TypeOK
    /\ \A t \in Range(feed) : \A e \in EvidenceOf(t) : e \in evidence \/ StoredByTheDead(e)

(* No turn holds work done for another request, unless that was the report of
   a call of its own. *)
Attribution ==
    \A t \in Range(feed) : \A i \in t.rows \cap Lines(trace, "assistant") :
        \/ owner[i] = t.id
        \/ trace[owner[i]].kind = "notice" /\ trace[owner[i]].of \in t.rows

(* A published turn of a path that the user left is named by a turn published
   for the path that replaced it, unless the whole session was left. *)
LeftTurnsNamed ==
    \A t, u \in Range(feed) :
        /\ t.id < u.id /\ t.id \notin Ancestry(trace, u.id)
        /\ Ancestry(trace, t.id) \cap Ancestry(trace, u.id) # {}
        => \E w \in Range(feed) : w.id <= u.id /\ t.id \in w.supersedes

(* The feed follows the path the user took: what was done for a request is in
   no other's turn, and a path that was left is named by what replaced it. *)
FollowsTheUser == Attribution /\ LeftTurnsNamed

=============================================================================
