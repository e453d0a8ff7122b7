--------------------------- MODULE PublishJournal ---------------------------
(***************************************************************************)
(* The ingest journal of one session: the attempts its hooks write         *)
(* (src/hooks/ingest-attempt.ts, called by the ingest hooks) and what a    *)
(* reader concludes from it about a workstream: clear, pending, blocked or *)
(* unknown (src/reader/publish.ts, ingest-journal.ts).                     *)
(*                                                                         *)
(* The hooks of a session overlap.  Each is a process that records its     *)
(* birth, runs the ingest once or more and records what it saw, and        *)
(* records its outcome; each record rewrites the journal under a lock that *)
(* is waited for only so long, so any of them may be missing, and the      *)
(* process may die between any two.  A reader reads memberships, feed and  *)
(* journal one after the other without the lock.                           *)
(*                                                                         *)
(* A journal update is one step: its lock is the subject of DirectoryLock. *)
(* What an ingest publishes is left to CodexIngest: here it moves the feed *)
(* forward over the session's turns, or not.                               *)
(***************************************************************************)
EXTENDS Naturals, Sequences, FiniteSets, SequencesExt, FiniteSetsExt

CONSTANTS
    Attempts,       \* the hook processes
    Workstreams,
    Texts,          \* what a turn may answer: its identity for Claude's Stop
    MaxAttempts,    \* MAX_INGEST_ATTEMPTS
    ScanLimit,      \* attemptScanLimit
    Scenes,         \* how many take part in what: see Scene
    None

(* A scene: how many hooks the session runs, how many turns it may end, how
   often it may move, how many times a hook may die or a journal update miss
   the lock, whether other work of the session is pending, and whether
   somebody reads. *)
Scene == [hooks : Nat, turns : Nat, moves : Nat, faults : Nat, others : BOOLEAN,
          reads : BOOLEAN]

(* stop_turn_not_visible and error are both a failure; process_died is never
   written. *)
Outcomes == {"ok", "failed", "not_recorded"}

ASSUME PublishAssumption ==
    /\ IsFiniteSet(Attempts) /\ Scenes \subseteq Scene
    /\ MaxAttempts \in Nat \ {0} /\ ScanLimit \in Nat \ {0}
    /\ None \notin Workstreams \union Texts \union Attempts \union Outcomes

VARIABLES
    scene,
    now,        \* a clock: every move and every trigger takes place at its own time
    moves,      \* the session's memberships, oldest first
    turns,      \* the turns the session ended: what each answered and its workstream
    feed,       \* how many of them its feed holds
    hook,       \* each hook process: where it is, and its attempt in memory
    journal,    \* the attempts in the journal, and how many were dropped
    faults,     \* journal updates that missed the lock, and hooks that died
    reader,     \* what a reader has read so far, and its verdicts
    appended    \* the attempts that were appended to the journal

vars == <<scene, now, moves, turns, feed, hook, journal, faults, reader, appended>>

Verdicts == {"clear", "pending", "blocked", "unknown"}

Attempt == [id : Attempts, at : Nat, says : Texts \union {None},
            blocker : BOOLEAN, outcome : Outcomes \union {None}]

Finished(e) == e.outcome # None

-----------------------------------------------------------------------------
(* The journal's writers *)

Entries(j) == Range(j.attempts)
IndexIn(j, a) == SelectInSeq(j.attempts, LAMBDA e : e.id = a)

(* fitJournal: the first finished attempt goes first, an unfinished one only
   when no other is left. *)
Oldest(es) == LET f == SelectInSeq(es, Finished) IN IF f = 0 THEN 1 ELSE f

(* Mutant: What goes is not counted. *)
FitJournalUncounted(j) ==
    IF Len(j.attempts) <= MaxAttempts THEN j
    ELSE [j EXCEPT !.attempts = RemoveAt(@, Oldest(@))]

FitJournal(j) ==
    IF Len(j.attempts) <= MaxAttempts THEN j
    ELSE [attempts |-> RemoveAt(j.attempts, Oldest(j.attempts)),
          dropped |-> j.dropped + 1]

(* autopsyDeadAttempts: an unfinished attempt whose process is gone. *)
(* Mutant: A hook that has decided its outcome counts as gone. *)
AliveUndecided(a) == hook[a].pc \in {"triggered", "open"}

Alive(a) == hook[a].pc \in {"triggered", "open", "ending"}

Autopsied(j, self) ==
    [j EXCEPT !.attempts =
        [i \in DOMAIN @ |->
            IF Finished(@[i]) \/ @[i].id = self \/ Alive(@[i].id) THEN @[i]
            ELSE [@[i] EXCEPT !.outcome = "not_recorded"]]]

Put(j, e) ==
    LET i == IndexIn(j, e.id)
    IN  [j EXCEPT !.attempts = IF i = 0 THEN Append(@, e)
                                        ELSE [@ EXCEPT ![i] = e]]

Replace(a, j) ==
    /\ journal' = FitJournal(j)
    /\ appended' = appended \union {a}

Persist(a, e) == Replace(a, Put(journal, e))

(* withAttemptJournal: the lock was not free in time, and nothing is said. *)
Miss == /\ faults < scene.faults /\ faults' = faults + 1
        /\ UNCHANGED <<journal, appended>>

-----------------------------------------------------------------------------
(* The session *)

Membership(ms, t) ==
    LET before == {i \in DOMAIN ms : ms[i].from <= t}
    IN  IF before = {} THEN None ELSE ms[Max(before)].ws

Move(w) ==
    /\ Len(moves) <= scene.moves /\ w # moves[Len(moves)].ws
    /\ now' = now + 1
    /\ moves' = Append(moves, [ws |-> w, from |-> now'])
    /\ UNCHANGED <<scene, turns, feed, hook, journal, faults, reader, appended>>

(* A hook process starts and notes the time; its attempt names the answer it
   was told of, if any. *)
Start(a, says) ==
    /\ hook[a].pc = "new"
    /\ Cardinality({b \in Attempts : hook[b].pc # "new"}) < scene.hooks
    /\ now' = now + 1
    /\ hook' = [hook EXCEPT ![a] =
         [pc |-> "triggered", polled |-> FALSE, saved |-> FALSE,
          turn |-> Len(turns'),
          mem |-> [id |-> a, at |-> now', says |-> says,
                   blocker |-> FALSE, outcome |-> None]]]
    /\ UNCHANGED <<scene, moves, feed, journal, faults, reader, appended>>

(* A turn ends: its Stop hook. *)
EndTurn(a, text) ==
    /\ Len(turns) < scene.turns
    /\ turns' = Append(turns, [text |-> text, ws |-> moves[Len(moves)].ws])
    /\ Start(a, text)

(* A prompt catches up: its hook knows no answer. *)
Prompt(a) == UNCHANGED turns /\ Start(a, None)

-----------------------------------------------------------------------------
(* A hook process *)

Unread == UNCHANGED <<scene, now, moves, turns, reader>>

(* beginIngestAttempt *)
Birth(a) ==
    /\ hook[a].pc = "triggered"
    /\ hook' = [hook EXCEPT ![a].pc = "open"]
    /\ \/ /\ LET j == Autopsied(journal, a)
             IN  Replace(a, [j EXCEPT !.attempts = Append(@, hook[a].mem)])
          /\ UNCHANGED faults
       \/ Miss
    /\ UNCHANGED feed /\ Unread

(* One ingest, which publishes k turns in all, and observe: the attempt is
   written the first time and as long as what it says is not in the journal.
   Its own turn unpublished is a blocker; other turns and background tasks or
   subagents that are pending may be. *)
Poll(a, k, blocker) ==
    /\ hook[a].pc = "open"
    /\ k \in feed .. Len(turns)
    /\ k < hook[a].turn => blocker
    /\ blocker => k < hook[a].turn \/ scene.others
    /\ feed' = k
    /\ LET e == [hook[a].mem EXCEPT !.blocker = blocker]
           quiet == hook[a].polled /\ hook[a].saved /\ e = hook[a].mem /\ k = feed
           Observed(saved) ==
               hook' = [hook EXCEPT ![a].mem = e, ![a].polled = TRUE, ![a].saved = saved]
       IN  \/ quiet /\ Observed(TRUE) /\ UNCHANGED <<journal, appended, faults>>
           \/ ~quiet /\ Persist(a, e) /\ Observed(TRUE) /\ UNCHANGED faults
           \/ ~quiet /\ Miss /\ Observed(hook[a].saved /\ e = hook[a].mem)
    /\ Unread

(* finish: the outcome is decided, and written with one more try. *)
Outcome(a, o) ==
    /\ hook[a].pc = "open"
    /\ \/ o = "ok" /\ hook[a].polled
       \/ o = "failed"

WriteOutcome(a, e, again) ==
    /\ \/ /\ Persist(a, e) /\ UNCHANGED faults
          /\ hook' = [hook EXCEPT ![a].pc = "gone", ![a].mem = e]
       \/ /\ Miss
          /\ hook' = [hook EXCEPT ![a].pc = IF again THEN "ending" ELSE "gone",
                                  ![a].mem = e]
    /\ UNCHANGED feed /\ Unread

Finish(a, o) ==
    Outcome(a, o) /\ WriteOutcome(a, [hook[a].mem EXCEPT !.outcome = o], TRUE)

FinishAgain(a) == hook[a].pc = "ending" /\ WriteOutcome(a, hook[a].mem, FALSE)

Die(a) ==
    /\ Alive(a) /\ faults < scene.faults
    /\ hook' = [hook EXCEPT ![a].pc = "gone"]
    /\ faults' = faults + 1
    /\ UNCHANGED <<feed, journal, appended>> /\ Unread

-----------------------------------------------------------------------------
(* A reader *)

Bounded(j) == j.dropped > 0 \/ Len(j.attempts) > ScanLimit
RetainedWindow(j) == {i \in DOMAIN j.attempts : i + ScanLimit > Len(j.attempts)}

(* The attempts of the workstream among those that are looked at *)
Candidates(j, ms, w) == {i \in RetainedWindow(j) : Membership(ms, j.attempts[i].at) = w}

(* Mutant: The newest attempt is the last one appended. *)
RelevantAppended(j, ms, w) ==
    LET own == Candidates(j, ms, w)
    IN  IF own = {} THEN None ELSE j.attempts[Max(own)]

(* compareAttemptsNewestFirst: the one that was triggered last counts, or the
   one that was appended last when some of the journal is missing. *)
Relevant(j, ms, w) ==
    LET own == Candidates(j, ms, w)
        newest == CHOOSE i \in own : \A k \in own : j.attempts[k].at <= j.attempts[i].at
    IN  IF own = {} THEN None
        ELSE j.attempts[IF Bounded(j) THEN Max(own) ELSE newest]

(* triggerTurnFact, publishFreshness: the turn of the attempt, known by its
   answer, is the last of the workstream in the feed that was read. *)
TriggerTurns(e, seen) == {t \in DOMAIN seen : seen[t].text = e.says}

Freshness(e, seen, w) ==
    LET own == TriggerTurns(e, seen)
    IN  IF Cardinality(own) # 1 THEN "unknown"
        ELSE IF \E t \in DOMAIN seen : seen[t].ws = w /\ t > Max(own)
             THEN "stale" ELSE "current"

NormalizeAttempt(e) ==
    IF e.blocker \/ e.outcome \notin {"ok", None} THEN "blocked"
    ELSE IF e.outcome = None THEN "pending"
    ELSE "clear"

(* parseReaderIngestJournal: what it refuses says nothing. *)
Accepted(j) == Len(j.attempts) <= MaxAttempts
               /\ \A x, y \in DOMAIN j.attempts :
                    j.attempts[x].id = j.attempts[y].id => x = y

Verdict(j, ms, seen, w) ==
    LET e == Relevant(j, ms, w)
    IN  IF ~Accepted(j) \/ e = None THEN "unknown"
        ELSE IF \/ Bounded(j) /\ ~Finished(e)
                \/ Freshness(e, seen, w) # "current" THEN "unknown"
        ELSE NormalizeAttempt(e)

NoVerdicts == [w \in Workstreams |-> "unknown"]

ReadMembers ==
    /\ reader.pc = "members" /\ scene.reads
    /\ reader' = [reader EXCEPT !.pc = "feed", !.moves = moves]
    /\ UNCHANGED <<scene, now, moves, turns, feed, hook, journal, faults, appended>>

ReadFeed ==
    /\ reader.pc = "feed"
    /\ reader' = [reader EXCEPT !.pc = "journal", !.seen = SubSeq(turns, 1, feed)]
    /\ UNCHANGED <<scene, now, moves, turns, feed, hook, journal, faults, appended>>

ReadJournal ==
    /\ reader.pc = "journal"
    /\ reader' = [reader EXCEPT !.pc = "answered", !.journal = journal,
         !.verdict = [w \in Workstreams |->
                        Verdict(journal, reader.moves, reader.seen, w)]]
    /\ UNCHANGED <<scene, now, moves, turns, feed, hook, journal, faults, appended>>

-----------------------------------------------------------------------------
Init ==
    /\ scene \in Scenes
    /\ now = 0
    /\ \E w \in Workstreams : moves = <<[ws |-> w, from |-> 0]>>
    /\ turns = <<>> /\ feed = 0 /\ faults = 0
    /\ hook = [a \in Attempts |->
         [pc |-> "new", polled |-> FALSE, saved |-> FALSE, turn |-> 0,
          mem |-> [id |-> a, at |-> 0, says |-> None, blocker |-> FALSE,
                   outcome |-> None]]]
    /\ journal = [attempts |-> <<>>, dropped |-> 0]
    /\ reader = [pc |-> "members", moves |-> <<>>, seen |-> <<>>,
                 journal |-> journal, verdict |-> NoVerdicts]
    /\ appended = {}

HookStep(a) ==
    \/ Birth(a)
    \/ \E k \in 0 .. scene.turns, blocker \in BOOLEAN : Poll(a, k, blocker)
    \/ \E o \in Outcomes : Finish(a, o)
    \/ FinishAgain(a)
    \/ Die(a)

(* A reader reads once, and nothing is looked at after that. *)
Next ==
  /\ reader.pc # "answered"
  /\ \/ \E w \in Workstreams : Move(w)
     \/ \E a \in Attempts : \/ \E text \in Texts : EndTurn(a, text)
                            \/ Prompt(a)
                            \/ HookStep(a)
     \/ ReadMembers \/ ReadFeed \/ ReadJournal

Spec == Init /\ [][Next]_vars

-----------------------------------------------------------------------------
(* Properties *)

(* The types of the variables. *)
TypeOK ==
    /\ now \in Nat /\ faults \in 0 .. scene.faults
    /\ feed \in 0 .. Len(turns) /\ Len(turns) <= scene.turns
    /\ hook \in [Attempts ->
         [pc : {"new", "triggered", "open", "ending", "gone"},
          polled : BOOLEAN, saved : BOOLEAN, turn : 0 .. scene.turns, mem : Attempt]]
    /\ journal.dropped \in Nat /\ Entries(journal) \subseteq Attempt
    /\ reader.pc \in {"members", "feed", "journal", "answered"}
    /\ reader.verdict \in [Workstreams -> Verdicts]

(* However the hooks overlap, die and miss the lock, the journal stays one its
   reader accepts; an attempt that is missing from it is counted as dropped,
   so a reader that is told of none sees every attempt that was written; an
   outcome is the one its hook decided, or says that it was not recorded and
   then the process is gone; and an attempt without an outcome is not ahead of
   its hook. *)
JournalSound ==
    /\ TypeOK
    /\ Accepted(journal)
    /\ Cardinality(appended)
         <= Len(journal.attempts) + journal.dropped
    /\ \A e \in Entries(journal) :
         \/ e = hook[e.id].mem
         \/ e.outcome = "not_recorded" /\ ~Alive(e.id)
         \/ e.outcome = None /\ hook[e.id].pc # "new"

(* When a reader of a whole journal says that a workstream is clear, every turn
   whose hook had written its attempt for that workstream is published, although
   hooks record in another order than their turns ended, outcomes go missing,
   turns give the same answer, and the feed was read before the journal.  It
   speaks of the memberships as they were read: the attempt of a session that
   has moved back since counts for the workstream in between. *)
ClearPublished ==
    reader.pc = "answered" /\ ~Bounded(reader.journal) =>
        \A w \in Workstreams : reader.verdict[w] = "clear" =>
            \A e \in Entries(reader.journal) :
                Membership(reader.moves, e.at) = w => hook[e.id].turn <= feed

(* An outcome that was written stays: neither the last update of the hook nor
   an autopsy by another replaces it. *)
OutcomeFinal ==
    [][\A e \in Entries(journal) : Finished(e) =>
         \A x \in Entries(journal') : x.id = e.id => x = e]_vars

=============================================================================
