---------------------------- MODULE CodexIngest ----------------------------
(***************************************************************************)
(* Publication of one Codex session: src/runner/codex.ts (runCodexTrace),  *)
(* the turn normalizer of src/providers/codex, appendUniqueJsonl of        *)
(* src/output/jsonl-store.ts and the stamps of src/runner/workstream-stamp.*)
(*                                                                         *)
(* Codex appends records to the rollouts of the session: the root thread's *)
(* and those of its subagents.  A run of the ingest, one at a time per     *)
(* rollout, resumes from its saved checkpoint or starts over, assembles    *)
(* turns, appends evidence, then turns, to the files the rollouts share,   *)
(* and saves the checkpoint.  It may die before, after or inside any       *)
(* write.  Meanwhile a prompt hook may move the session to a workstream.   *)
(*                                                                         *)
(* A record is its kind, native turn and time; a published record keeps    *)
(* what can differ between two publications: identity, sequence, times,    *)
(* references and workstream.  Usage stands for all deferred evidence.     *)
(* Every record has a later time than the one before it, and rollouts only *)
(* grow or are replaced by a copy.                                         *)
(***************************************************************************)
EXTENDS Naturals, Sequences, FiniteSets, SequencesExt

CONSTANTS
    Root,           \* the root thread's rollout
    Children,       \* the rollouts of its subagents
    Workstreams,
    Scenes,         \* [second: instants per second, as native times are
                    \*  whole seconds; reopens: Codex may start a turn again
                    \*  that has ended; and bounds: records of each rollout,
                    \*  moves, and faults: crashes, rotations and resets]
    NoTurn, NoUsage, Unscoped

Traces == {Root} \union Children

ASSUME IngestAssumption ==
    /\ Root \notin Children
    /\ Scenes \subseteq [second : Nat \ {0}, reopens : BOOLEAN,
                        records : [Traces -> Nat], moves : Nat, faults : Nat]
    /\ NoTurn \notin Nat /\ Unscoped \notin Workstreams

VARIABLES
    scene,
    now,            \* the clock
    trace,          \* the complete lines of each rollout
    inode,          \* the identity of its file
    memberships,    \* the session's append-only membership log
    saved,          \* the runner state file of each rollout
    run,            \* the ingest that holds the rollout's lock
    evidence,       \* the session's evidence file
    feed,           \* the session's feed file
    faults          \* crashes, rotations and resets so far

vars == <<scene, now, trace, inode, memberships, saved, run, evidence, feed, faults>>

FloorSecond(t) == t - (t % scene.second)

-----------------------------------------------------------------------------
(* The normalizer *)

NewNormalizer ==
    [turns |-> <<>>, current |-> NoTurn, next |-> 1,
     outTurns |-> <<>>, outEvidence |-> <<>>]

(* The native turn a record belongs to, the current one if it names none. *)
BuilderFor(n, r) ==
    LET t == IF r.turn # NoTurn THEN r.turn ELSE n.current
    IN  IF t \in DOMAIN n.turns THEN t ELSE NoTurn

(* task_started *)
StartTurn(n, r) ==
    LET builder == [sequence |-> n.next, started |-> r.native,
                    usage |-> NoUsage, emitted |-> FALSE]
    IN  IF r.turn \in DOMAIN n.turns
        THEN [n EXCEPT !.current = r.turn]
        ELSE [n EXCEPT !.turns = [t \in DOMAIN @ \union {r.turn} |->
                                    IF t = r.turn THEN builder ELSE @[t]],
                       !.current = r.turn,
                       !.next = @ + 1]

(* token_count: only the last usage of a turn becomes evidence. *)
AcceptUsage(n, r, line) ==
    LET t == BuilderFor(n, r)
    IN  IF t = NoTurn THEN n
        ELSE [n EXCEPT !.turns[t].usage = [at |-> r.at, line |-> line]]

DeferredEvidence(tr, t, b) ==
    IF b.usage = NoUsage THEN <<>>
    ELSE <<[id |-> <<tr, t, b.usage.line>>, at |-> b.usage.at,
            content |-> NoTurn, workstream |-> Unscoped]>>

(* task_complete, turn_aborted *)
FinishTurn(tr, n, r) ==
    LET t == BuilderFor(n, r)
        b == n.turns[t]
        deferred == DeferredEvidence(tr, t, b)
        turn == [id |-> <<tr, t>>, sequence |-> b.sequence,
                 started |-> b.started, ended |-> r.native,
                 refs |-> {deferred[i].id : i \in DOMAIN deferred},
                 workstream |-> Unscoped]
    IN  IF t = NoTurn \/ b.emitted THEN n
        ELSE [n EXCEPT !.turns[t] = [b EXCEPT !.usage = NoUsage, !.emitted = TRUE],
                       !.current = IF @ = t THEN NoTurn ELSE @,
                       !.outTurns = Append(@, turn),
                       !.outEvidence = @ \o deferred]

Accept(tr, n, r, line) ==
    CASE r.kind = "started" -> StartTurn(n, r)
      [] r.kind = "usage" -> AcceptUsage(n, r, line)
      [] r.kind = "ended" -> FinishTurn(tr, n, r)

(* n after the lines of a rollout from first to last. *)
ReadForward(tr, lines, n, first, last) ==
    LET read[line \in Nat] ==
            IF line < first THEN n
            ELSE Accept(tr, read[line - 1], lines[line], line)
    IN  read[last]

Replay(tr, last) == ReadForward(tr, trace[tr], NewNormalizer, 1, last)

(* The builders of emitted turns are not saved. *)
Snapshot(n) ==
    [n EXCEPT !.turns = [t \in {u \in DOMAIN n.turns : ~n.turns[u].emitted} |->
                            n.turns[t]],
              !.outTurns = <<>>, !.outEvidence = <<>>]

Restorable(n) == n.current = NoTurn \/ n.current \in DOMAIN n.turns

(* A subagent publishes no turn but evidence of one. *)
RouteTurns(tr, n) == IF tr = Root THEN n.outTurns ELSE <<>>

RouteEvidence(tr, n) ==
    IF tr = Root THEN n.outEvidence
    ELSE n.outEvidence \o
         [i \in DOMAIN n.outTurns |->
             [id |-> Append(n.outTurns[i].id, 0), at |-> n.outTurns[i].ended,
              content |-> n.outTurns[i], workstream |-> Unscoped]]

-----------------------------------------------------------------------------
(* Stamps *)

(* Mutant: The stamp is the session's workstream at publication. *)
MembershipNow(log, t) == IF log = <<>> THEN Unscoped ELSE Last(log).workstream

(* The last of the leading memberships in effect at t. *)
MembershipAt(log, t) ==
    LET k == Max({0} \union {i \in DOMAIN log : \A j \in 1..i : log[j].from <= t})
    IN  IF k = 0 THEN Unscoped ELSE log[k].workstream

StampTurns(turns, log) ==
    [i \in DOMAIN turns |->
        [turns[i] EXCEPT !.workstream = MembershipAt(log, turns[i].started)]]

StampEvidence(records, log) ==
    [i \in DOMAIN records |->
        [records[i] EXCEPT !.workstream = MembershipAt(log, records[i].at)]]

-----------------------------------------------------------------------------
(* Derived files: whole lines, and whether a torn one follows them. *)

EmptyFile == [lines |-> <<>>, torn |-> FALSE]

Ids(lines) == {lines[i].id : i \in DOMAIN lines}

(* Mutant: A torn tail is kept. *)
HealNothing(file) == file

HealTail(file) == [file EXCEPT !.torn = FALSE]

(* Of the first n records of a batch, those whose id is neither known nor that
   of an earlier one. *)
Fresh(known, batch, n) ==
    LET fresh[i \in Nat] ==
            IF i = 0 THEN <<>>
            ELSE IF batch[i].id \in known \union Ids(fresh[i - 1]) THEN fresh[i - 1]
            ELSE Append(fresh[i - 1], batch[i])
    IN  fresh[n]

(* Mutant: Records are not compared with those of the file. *)
UnpublishedInBatch(file, batch) == Fresh({}, batch, Len(batch))

Unpublished(file, batch) == Fresh(Ids(file.lines), batch, Len(batch))

(* A write after a torn line completes that line instead of its own first. *)
WriteLines(file, lines) ==
    [lines |-> file.lines \o IF file.torn /\ lines # <<>> THEN Tail(lines) ELSE lines,
     torn |-> file.torn /\ lines = <<>>]

AppendUnique(file, batch) ==
    IF batch = <<>> THEN file
    ELSE WriteLines(HealTail(file), Unpublished(HealTail(file), batch))

(* What a death during the append can leave: some of its lines, and perhaps
   part of the next. *)
AppendInterrupted(file, batch) ==
    LET healed == HealTail(file)
        new == Unpublished(healed, batch)
    IN  IF batch = <<>> THEN {file}
        ELSE {file} \union
             {[WriteLines(healed, SubSeq(new, 1, k)) EXCEPT !.torn = torn] :
                 k \in 0..Len(new), torn \in IF new = <<>> THEN {FALSE} ELSE BOOLEAN}

-----------------------------------------------------------------------------
NoState == [inode |-> 0, offset |-> 0, normalizer |-> NewNormalizer]

Idle == [phase |-> "idle", reset |-> FALSE, inode |-> 0, resume |-> FALSE,
         offset |-> 0, normalizer |-> NewNormalizer, log |-> <<>>]

Init ==
    /\ scene \in Scenes
    /\ now = scene.second
    /\ trace = [tr \in Traces |-> <<>>]
    /\ inode = [tr \in Traces |-> 1]
    /\ memberships = <<>>
    /\ saved = [tr \in Traces |-> NoState]
    /\ run = [tr \in Traces |-> Idle]
    /\ evidence = EmptyFile
    /\ feed = EmptyFile
    /\ faults = 0

files == <<saved, evidence, feed>>

(* Codex *)

Started(tr) == {t \in 1..scene.records[tr] :
                    \E i \in DOMAIN trace[tr] :
                        trace[tr][i].kind = "started" /\ trace[tr][i].turn = t}

EndedTurns(tr) == {t \in Started(tr) :
                    \E i \in DOMAIN trace[tr] :
                        trace[tr][i].kind = "ended" /\ trace[tr][i].turn = t}

WriteRecord(tr, kind, t) ==
    /\ Len(trace[tr]) < scene.records[tr]
    /\ trace' = [trace EXCEPT ![tr] = Append(@,
                    [kind |-> kind, turn |-> t, at |-> now,
                     native |-> FloorSecond(now)])]
    /\ now' = now + 1
    /\ UNCHANGED <<scene, inode, memberships, run, files, faults>>

(* The task of a turn starts, after the last one ended or was abandoned. *)
TaskStarted(tr) ==
    \E t \in {Cardinality(Started(tr)) + 1}
              \union (IF scene.reopens THEN EndedTurns(tr) ELSE {}) :
        WriteRecord(tr, "started", t)

TokenCount(tr) == WriteRecord(tr, "usage", NoTurn)

(* The turn that has started last ends, unless it has. *)
TaskEnded(tr) ==
    \E i \in DOMAIN trace[tr] :
        /\ trace[tr][i].kind = "started"
        /\ \A j \in i + 1..Len(trace[tr]) : trace[tr][j].kind = "usage"
        /\ WriteRecord(tr, "ended", trace[tr][i].turn)

(* The rollout is replaced by a copy of itself. *)
Rotate(tr) ==
    /\ faults < scene.faults
    /\ inode' = [inode EXCEPT ![tr] = @ + 1]
    /\ faults' = faults + 1
    /\ UNCHANGED <<scene, now, trace, memberships, run, files>>

(* nextMembershipFrom *)
MembershipFrom(requested) ==
    IF memberships = <<>> \/ requested > Last(memberships).from THEN requested
    ELSE Last(memberships).from + 1

AppendMembership(w, requested, t) ==
    /\ Len(memberships) < scene.moves
    /\ memberships # <<>> => Last(memberships).workstream # w
    /\ memberships' = Append(memberships,
          [workstream |-> w, from |-> MembershipFrom(requested),
           made |-> now, turn |-> t])
    /\ now' = now + 1
    /\ UNCHANGED <<scene, trace, inode, run, files, faults>>

\* The native start of a turn: the first record that starts it.
StartOf(r) ==
    \E i \in DOMAIN trace[Root] :
        /\ trace[Root][i] = r /\ r.kind = "started"
        /\ \A j \in 1..i - 1 :
              trace[Root][j].kind = "started" => trace[Root][j].turn # r.turn

(* Mutant: A move counts from the time of its hook. *)
MoveAtHookTime(w) ==
    \E r \in ToSet(trace[Root]) : StartOf(r) /\ AppendMembership(w, now, r.turn)

(* The prompt hook of a turn the root rollout has started, or its asynchronous
   hook-ingest, which may come after later records, the end of the turn and its
   publication: the membership counts from the start of that turn. *)
MoveAtTurnStart(w) ==
    \E r \in ToSet(trace[Root]) : StartOf(r) /\ AppendMembership(w, r.native, r.turn)

(* A prompt hook that knows no rollout or no turn: it counts from now. *)
MoveNow(w) == AppendMembership(w, now, NoTurn)

(* The ingest *)

Set(tr, r) == run' = [run EXCEPT ![tr] = r]

(* runCodexTrace takes the lock, reads its state and resolves the checkpoint;
   it resumes if the file is the one it knows and the saved turns are whole. *)
CanResume(tr, reset) == ~reset /\ saved[tr].inode = inode[tr]

Begin(tr) ==
    \E reset \in BOOLEAN :
        /\ run[tr].phase = "idle"
        /\ reset => faults < scene.faults
        /\ CanResume(tr, reset) => Restorable(saved[tr].normalizer)
        /\ Set(tr, [Idle EXCEPT !.phase = "begun", !.reset = reset,
                                !.inode = inode[tr],
                                !.resume = CanResume(tr, reset)])
        /\ faults' = IF reset THEN faults + 1 ELSE faults
        /\ UNCHANGED <<scene, now, trace, inode, memberships, files>>

(* It reads to the end; a file that changed identity ends the run. *)
ReadTrace(tr) ==
    /\ run[tr].phase = "begun"
    /\ IF run[tr].inode # inode[tr] THEN Set(tr, Idle)
       ELSE Set(tr, [run[tr] EXCEPT
                !.phase = "read",
                !.offset = Len(trace[tr]),
                !.normalizer = IF run[tr].resume
                               THEN ReadForward(tr, trace[tr], saved[tr].normalizer,
                                        saved[tr].offset + 1, Len(trace[tr]))
                               ELSE Replay(tr, Len(trace[tr]))])
    /\ UNCHANGED <<scene, now, trace, inode, memberships, files, faults>>

ResolveMemberships(tr) ==
    /\ run[tr].phase = "read"
    /\ Set(tr, [run[tr] EXCEPT !.phase = "stamped", !.log = memberships])
    /\ UNCHANGED <<scene, now, trace, inode, memberships, files, faults>>

EvidenceBatch(tr) ==
    StampEvidence(RouteEvidence(tr, run[tr].normalizer), run[tr].log)

TurnBatch(tr) == StampTurns(RouteTurns(tr, run[tr].normalizer), run[tr].log)

AppendEvidence(tr) ==
    /\ run[tr].phase = "stamped"
    /\ evidence' = AppendUnique(evidence, EvidenceBatch(tr))
    /\ Set(tr, [run[tr] EXCEPT !.phase = "evidenced"])
    /\ UNCHANGED <<scene, now, trace, inode, memberships, saved, feed, faults>>

AppendTurns(tr) ==
    /\ run[tr].phase = "evidenced"
    /\ feed' = AppendUnique(feed, TurnBatch(tr))
    /\ Set(tr, [run[tr] EXCEPT !.phase = "published"])
    /\ UNCHANGED <<scene, now, trace, inode, memberships, saved, evidence, faults>>

(* Mutant: The checkpoint is taken from the rollout when the state is written. *)
WriteStateAtEnd(tr) ==
    /\ run[tr].phase = "published"
    /\ saved' = [saved EXCEPT ![tr] =
                    [inode |-> run[tr].inode, offset |-> Len(trace[tr]),
                     normalizer |-> Snapshot(run[tr].normalizer)]]
    /\ Set(tr, Idle)
    /\ UNCHANGED <<scene, now, trace, inode, memberships, evidence, feed, faults>>

WriteState(tr) ==
    /\ run[tr].phase = "published"
    /\ saved' = [saved EXCEPT ![tr] =
                    [inode |-> run[tr].inode, offset |-> run[tr].offset,
                     normalizer |-> Snapshot(run[tr].normalizer)]]
    /\ Set(tr, Idle)
    /\ UNCHANGED <<scene, now, trace, inode, memberships, evidence, feed, faults>>

(* The process dies, inside an append perhaps. *)
Crash(tr) ==
    /\ run[tr].phase # "idle"
    /\ faults < scene.faults
    /\ evidence' \in IF run[tr].phase = "stamped"
                     THEN AppendInterrupted(evidence, EvidenceBatch(tr)) ELSE {evidence}
    /\ feed' \in IF run[tr].phase = "evidenced"
                 THEN AppendInterrupted(feed, TurnBatch(tr)) ELSE {feed}
    /\ Set(tr, Idle)
    /\ faults' = faults + 1
    /\ UNCHANGED <<scene, now, trace, inode, memberships, saved>>

\* The rollouts there are in a scene.
Rollouts == {tr \in Traces : scene.records[tr] > 0}

Next ==
    \/ \E tr \in Rollouts :
        \/ TaskStarted(tr) \/ TokenCount(tr) \/ TaskEnded(tr) \/ Rotate(tr)
        \/ Begin(tr) \/ ReadTrace(tr) \/ ResolveMemberships(tr)
        \/ AppendEvidence(tr) \/ AppendTurns(tr) \/ WriteState(tr) \/ Crash(tr)
    \/ \E w \in Workstreams : MoveAtTurnStart(w) \/ MoveNow(w)

Spec == Init /\ [][Next]_vars

-----------------------------------------------------------------------------
(* Properties *)

(* The state is well-typed: files hold whole records and logs are ordered. *)
Records(tr) == [kind : {"started", "usage", "ended"}, turn : Nat \union {NoTurn},
                at : Nat, native : Nat]

TypeOK ==
    /\ now \in Nat
    /\ \A tr \in Traces :
          /\ trace[tr] \in Seq(Records(tr)) /\ Len(trace[tr]) <= scene.records[tr]
          /\ inode[tr] \in 1..1 + scene.faults
          /\ saved[tr].inode \in 0..inode[tr] /\ saved[tr].offset \in 0..Len(trace[tr])
          /\ run[tr].phase \in {"idle", "begun", "read", "stamped", "evidenced",
                                 "published"}
          /\ IsPrefix(run[tr].log, memberships)
    /\ \A i, j \in DOMAIN memberships :
          i < j => memberships[i].from < memberships[j].from
    /\ evidence.torn \in BOOLEAN /\ feed.torn \in BOOLEAN
    /\ faults \in 0..scene.faults

(* The feed holds the first turns that ended in the root rollout, each once
   and in that order, whatever runs died, were reset or read a copy: cursors
   of other sessions count on the append order (runner/codex.ts,
   appendUniqueJsonl). *)
FeedIsPrefix ==
    IsPrefix([i \in DOMAIN feed.lines |-> feed.lines[i].id],
             [i \in DOMAIN Replay(Root, Len(trace[Root])).outTurns |->
                 Replay(Root, Len(trace[Root])).outTurns[i].id])

(* No visible turn refers to evidence that is not there: evidence is appended
   first (runner/codex.ts). *)
NoDanglingEvidence ==
    \A i \in DOMAIN feed.lines : feed.lines[i].refs \subseteq Ids(evidence.lines)

(* What readers of the feed find, at any time. *)
FeedSound == TypeOK /\ FeedIsPrefix /\ NoDanglingEvidence

(* What the saved checkpoint has passed is published: the next run will not
   read it again (runner/codex.ts, the order of appends and state). *)
CheckpointPublished ==
    \A tr \in Traces :
        LET passed == Replay(tr, saved[tr].offset)
        IN  /\ Ids(RouteTurns(tr, passed)) \subseteq Ids(feed.lines)
            /\ Ids(RouteEvidence(tr, passed)) \subseteq Ids(evidence.lines)

(* A saved state can always be restored: restore() refuses one whose current
   turn has no builder. *)
Resumable ==
    \A tr \in Traces : CanResume(tr, FALSE) => Restorable(saved[tr].normalizer)

(* A checkpoint loses nothing and does not stop later runs. *)
CheckpointSound == CheckpointPublished /\ Resumable

(* What a reset ingest would publish now. *)
ResetTurns ==
    StampTurns(RouteTurns(Root, Replay(Root, Len(trace[Root]))), memberships)

ResetEvidence(tr) ==
    StampEvidence(RouteEvidence(tr, Replay(tr, Len(trace[tr]))), memberships)

(* A time that a membership claims and that had passed when it was made. *)
Backdated(t) ==
    \E i \in DOMAIN memberships : memberships[i].from <= t /\ t < memberships[i].made

(* A reset ingest reproduces every published record ("later moves cannot
   change reset re-ingestion of earlier history", runner/codex.ts), but for the
   stamp of one whose time a later membership was backdated over
   (codexMembershipEffectiveAt). *)
OnlyBackdatedStampsDiffer ==
    /\ \A old \in ToSet(feed.lines), new \in ToSet(ResetTurns) :
          (old.id = new.id /\ old # new) =>
              /\ [new EXCEPT !.workstream = old.workstream] = old
              /\ Backdated(old.started)
    /\ \A tr \in Traces :
          \A old \in ToSet(evidence.lines), new \in ToSet(ResetEvidence(tr)) :
              (old.id = new.id /\ old # new) =>
                  /\ [new EXCEPT !.workstream = old.workstream] = old
                  /\ Backdated(old.at)

EndedBefore(t, at) ==
    \E r \in ToSet(trace[Root]) : r.kind = "ended" /\ r.turn = t /\ r.at < at

(* A turn whose prompt moved the session is published in the workstream it
   moved to (codexMembershipEffectiveAt, stampTurnsByMembership), unless the
   membership before counts from the second in which the turn started, or
   later: the new one then counts from after that start (nextMembershipFrom);
   or the turn had ended in the rollout before the move was made, by a late
   hook-ingest: it may then be published already, in the old workstream. *)
MoveTurnInTarget ==
    \A i \in DOMAIN memberships, k \in DOMAIN feed.lines :
        /\ feed.lines[k].id = <<Root, memberships[i].turn>>
        /\ i > 1 => memberships[i - 1].from < feed.lines[k].started
        /\ ~EndedBefore(memberships[i].turn, memberships[i].made)
        => feed.lines[k].workstream = memberships[i].workstream

=============================================================================
