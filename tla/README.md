# A TLA+ verification of Barbaro

Barbaro coordinates Codex and Claude Code sessions that work in one checkout.
It has no server: hooks of the providers, ingest runs, watchers and the command
line are processes that share the files under `.barbaro/`. What can go wrong is
therefore in the interleaving of those processes, in deaths between two writes,
and in decisions made on state read a moment earlier. This directory models
those parts, checks them with TLC and proves results about them with TLAPS.

## 1. Inventory

| Component | Source (under `src/`) | State it keeps | Operations |
| --- | --- | --- | --- |
| Directory lock | `output/directory-lock.ts` | `<resource>.lock/owner.json` and its mtime | acquire, recover, release |
| Derived output | `output/jsonl-store.ts` | append-only JSONL feeds and evidence | `appendUniqueJsonl`, healing of a torn tail |
| Codex ingest | `runner/codex.ts`, `providers/codex/*`, `runner/state.ts`, `runner/workstream-stamp.ts`, `core/checkpoint.ts` | checkpoint and normalizer state of each rollout | resume or reset, normalize, stamp, publish, save |
| Claude ingest | `runner/claude.ts`, `runner/claude-state.ts`, `providers/claude/*` | the same for a branching transcript, replayed whole | find the active branch, normalize, withhold, publish |
| Workstreams | `workstreams/store.ts` | name claims and records | create, complete, reopen, resolve |
| Participation | `hooks/participation.ts` | each session's append-only membership log | `new`, `join`, reads |
| Unread cursor | `nudge/*` | per session: positions, coverage, announcements, pending reads | announce, roll back, reserve, stage, commit, discard |
| Active leases | `active/*` | one lease file per actor | claim, update, idle, reap |
| Hook handlers | `hooks/claude.ts`, `hooks/codex.ts` | none of their own | turn provider events into all of the above |
| Ingest journal | `hooks/ingest-attempt.ts`, `reader/publish.ts` | a bounded journal of ingest attempts | birth, observation, outcome, autopsy; the verdict on publication |
| Incidents | `hooks/incidents.ts` | write-once markers | record, list |
| Watch, await | `watch/*`, the loop of `cli.ts` | in memory: positions and known facts | prime, poll, wait |
| Readers | `reader/*` | none; a continuation cursor between two pages | lists, records, evidence, context, health, catalogue |
| Dashboard | `tui/*` | in memory: dialog, film, timers, a writer process | keys, refreshes, lifecycle and create dialogs |
| Core utilities, other commands, setup | `core/*`, `cli.ts`, `setup/*` | none | parsing, printing, configuration |

How they interact: a provider event starts a hook process. A prompt admits the
session (participation, workstreams), renews its lease (leases), announces
unread turns (cursor) and starts an ingest, which publishes the session's turns
to its feed and keeps a journal of the attempt; the other sessions' cursors,
watchers and readers read that feed. Every shared file is written under a
directory lock of its own; most decisions also read files of other locks, and
readers take none.

### What is hard, and what correctness means

| Component | Hard behaviour | What must hold |
| --- | --- | --- |
| Directory lock | `mkdir`, `open`, `write`, `stat`, `unlink` and `rmdir` of several processes interleave; a process dies between any two; a pid is given to another program | one process runs its operation at a time; its lock stays on disk; the lock of a dead owner is recovered |
| Unread cursor | hooks scan feeds outside the lock that guards them; reads are committed long after their output was shown; a Stop's claim is rolled back; a turn ends while a hook runs; cursors of earlier releases | nothing unread is acknowledged that was not shown; a count is told at most once, a Stop blocks a turn at most once and never an informed one |
| Codex ingest | a run dies between evidence, feed and checkpoint; a line is torn; a rollout is replaced by a copy; the session moves meanwhile | the feed is a prefix of the turns that ended, once each; a checkpoint never passes unpublished records; starting over reproduces what is published |
| Claude ingest | the transcript branches, its pointer is rewritten in place, background work and subagents report after their turn | what is published stays what one ingest of the whole file would say; work is attributed to the request it was done for |
| Enrollment | two hooks of each prompt, other sessions and the command line race for a name; a creator dies between the claim of a name and its record | a name resolves to one workstream for good; memberships follow the prompts; nobody holds a lock for ever |
| Leases and hooks | hooks of one turn arrive after its end, or in another turn; a Stop writes twice; parallel tool calls end one by one; old tombstones are reaped | a lease tells the truth about its actor's turn when its hooks are done; a tombstone is not revived; running calls stay claimed |
| Ingest journal | hooks of one session overlap and die, and any update may miss the lock | a verdict of "clear" is only given when everything is published; an outcome is final |
| Watch and await | a poll reads many files in turn and may fail in the middle; two sessions watch each other; an await's session moves | every publication is an event once; answers do not cause answers; what an await reports was so |
| Readers | pages are separate processes; feeds grow, tear, heal and are rebuilt between them | pages of one traversal are pages of one thing; "complete" is complete |
| Dashboard | refreshes, keys, a writer with its lookup, a film and timers interleave with other processes | a result is true and is seen; the view never goes back; every wait ends |

`PROJECT.json` lists each hazard at its line with the properties that cover it,
or with the reason why none does.

## 2. Modules

| Module | Models | Composes |
| --- | --- | --- |
| `DirectoryLock` | `withDirectoryLock`, one action per system call | |
| `NudgeCursor` | the cursor's transactions | feeds, memberships and the turns of the model as environment |
| `CodexIngest` | `runCodexTrace`, the turn normalizer, the stamps, `appendUniqueJsonl` | the rollouts of a session, a prompt hook's move |
| `Membership` | what enrollment promises (abstract) | |
| `Enrollment` | `SessionParticipationStore` and `WorkstreamStore` | implements `Membership` |
| `ActiveLease` | `ActiveLeaseStore` and the events of both hook handlers | the providers as environment |
| `Watch` | the watch engine and its loop, await, incident markers | sessions that publish, join, renew and are answered |
| `Pages` | the readers that go page by page or file by file | extends `Watch`: its feeds, with lines and torn tails |
| `PublishJournal` | the journal's writers and the reader's verdict | a session that ends turns, moves and publishes |
| `ClaudeTrace` | what a Claude session file means: active branch, turns | |
| `ClaudeIngest` | runs of the ingest beside Claude | extends `ClaudeTrace` |
| `Catalogue` | one reading of the project catalogue | sessions that are prompted, move, read, stop, publish |
| `Dashboard` | the dashboard's event loop | extends `Catalogue`; a writer of the command line |
| `MC*` | constants, scenes and symmetry for TLC | |
| `*Proofs` | theorems, section 4 | extend the module they are about |

Operators marked `Mutant:` are not part of a model: each is what a plausible bug
would make of the definition after it, and shows that a property can fail.

Most modules are parameterised by **scenes**: a record of who takes part, which
operations occur and how often, picked in `Init` and constant afterwards. A run
checks a set of small scenes in one go; the theorems hold for every set of
scenes. Operations outside a scene's list do not occur in it, and that is the
bound of the check: their combination in one session is not explored.

**DirectoryLock.** `pc` is the place of each process in the code, from
`mkdir` over `open("wx")` and the write of `owner.json` to the release, and
through recovery (`stat`, read, judge, read again, `unlink`, `rmdir`). `dir` and
`file` are the directory and `owner.json`; the mtime is `fresh` or `old` with
respect to `staleAfterMs`, and `Elapse` makes it old. `Crash` may stop a process
anywhere, also inside its write (`done` is then FALSE: a record that cannot be
parsed), and `Reuse` gives its pid to a live program.

**NudgeCursor.** `cursor` is the file: epoch, revision, positions and coverage of
each feed, the high-water of announcements, the Stop latch, the turns told or
informed, pending reads, and its version. A transaction opens (`Open`), re-reads
what other locks guard (`Check`) and writes (`WriteClaim`, `WriteRead`). `sent`
follows every claim to the model (`Emit`) or to its failure (`Fail`,
`Rollback`). A hook that dies leaves its claim made and never told. The turn of a
Codex transaction is the one its hook's event names (`EventTurns`): a hook left
behind by an older turn still claims for it, a hook of a goal's next turn comes
without a prompt. Of Claude it is the generation, which its prompts advance. A record's
text is a set of units of each field that can acknowledge it, so that pages and
parts can be read in any order. `scene.version` starts a session with a cursor
of one of the two earlier formats, which `Virtual` migrates; `Decodes` and
`ReaderDecodes` are the two strict decoders.

**CodexIngest.** `trace` and `inode` are the rollouts; `saved` the checkpoint with
the normalizer's state, `run` a running ingest, `evidence` and `feed` the shared
files with a torn tail or not. A run goes through `Begin`, reading, stamping,
the two appends and `WriteState`; it may die before or in any of them. `Usage`
records stand for all evidence that is deferred to the end of its turn. Every
record is later than the last; rollouts only grow or are replaced by a copy; the
ingest's lock excludes a second run of one rollout (`DirectoryLock`); a death is
of the process, not of the machine. A scene gives the records of each rollout,
the moves, the faults (deaths, copies and resets together) and how coarse native
times are, and `reopens`: whether Codex may start a turn again that has ended. No
test or document of the repository shows such a rollout, so `reopens` is FALSE in
every scene checked and a hypothesis of the theorems; section 4 says what happens
otherwise. A move is made by the prompt's hook or, as late as it likes, by its hook-ingest:
`MoveAtTurnStart` looks the turn up wherever it stands in the rollout. `Fresh` is
the loop of `appendUniqueJsonl` that keeps the records of a
batch whose ids are not known yet.

**Enrollment.** Each prompt has two deliveries, `hook` and `ingest`, and the
session waits for the first. A delivery looks without a lock, enters the
participation lock, decides again, and for `new` nests the store's lock, writes
the claim of the name, then the record, and appends the membership. `Command` is
`barbaro workstream new`, `SetStatus` is `complete` and `reopen`. A dead holder's
locks are free at once (its recovery is in `DirectoryLock`). A claim and its
record are read in one step: a claim is only replaced while it resolves to
nothing. Prompts that name no workstream are left out.

**ActiveLease.** `native` is what each actor really does, `hooks` the processes
the provider has started for it; a hook is waited for, or left behind once it
runs into its time limit or the user interrupts. `lease` is each actor's file. A
hook is one step, because `update` decides and writes under the lock; a Stop is
two. `StaleTool`, `StaleStop`, `StalePrompt`, `StaleStart` and the others are the
decisions of `hooks/codex.ts`, with the rollout readable or not. `seen` and
`lost` are history: the latest turn that wrote each lease, and the events whose
hooks were left, died or were ignored because the rollout could not be read.
`awaits` are the calls of a turn that run `barbaro await` (`Waits`): they claim
nothing, and Claude's withdraw the claims of the calls beside them. Workstreams
and the paths of claims are left out.

**Watch.** A poll is one step per file or directory it reads: participation,
each feed, incident markers, each lease, and the judgement that prints. `eng` is
the memory of each watcher, `out` what it printed, `ghost` what the properties
need to know of the past. A failing scan (`FailPoll`) loses the events collected
so far, as the code does, because the memory has already moved. An await checks
its binding, reads the epoch, scans, checks the epoch again and looks at the
time; each is a step, and looking may fail any number of times.

**Pages.** The feeds of `Watch` get lines with versions (a rebuilt feed may say
something else), a torn part of a line, and an identity. The list of turns pins
how far each feed went; records and evidence pin bytes; the actions of a
subagent pin nothing. The context and the health of the store are one page of
several files.

**PublishJournal.** Each hook records its birth, observes, and records its
outcome; each of these is one update of the journal under its lock, or misses
the lock. `Autopsy` is what a later hook writes about a dead one. The journal
keeps `MaxAttempts` and counts what it evicts. A reader reads memberships, feed
and journal in three steps and gives its verdict.

**ClaudeTrace, ClaudeIngest.** A session file is a sequence of rows with parents;
`ActiveMembership` is the path that counts, `Replay` the turns of it. `owner` is
known to the model only: the request each response row was written for. A run
reads the file, then the agents' files with the last look for drift and the
append of evidence, then appends turns; a death may come between. The session is
interrupted, rewound, reported to and its pointer rewritten in place meanwhile.

**Catalogue, Dashboard.** One reading of the catalogue takes workstream records
(in one step), then participation, feeds, leases, cursors, feeds again, cursors
again and journals, one by one, while sessions go on. The store is always
present and a projection always fits. `Dashboard` is the event loop over it:
`rd` the refresh in flight and its lock, `dialog` and `film` the lifecycle
overlay, `writer` the command line process and its lookup, `creation` the create
flow, `esc` a lone Escape in its grace, `motion` the one timer.

## 3. Runs

| Run | Question | Instance |
| --- | --- | --- |
| `lock_prompt` | are operations exclusive, and dead owners recovered? | three processes on two hosts, each acquires once, dies anywhere, pids reused |
| `lock_two_recoverers` | is the lock a mutex without conditions? (no) | three processes on one host, each acquires once, dies anywhere |
| `nudge` | is news told once, is nothing passed over, does the ledger hold? | fourteen scenes of a feed of one or two records or two of one, two turns, reads in two units, cursors of versions 1 to 3 |
| `ingest` | is the feed what a reset ingest would publish, whatever dies? | a rollout of four records, two moves, one fault; one of three records, two moves, coarse times; a root of one record and a subagent of two, one move, coarse times |
| `enroll_all` | do names and memberships hold, is nobody stuck, is `Membership` implemented? | two prompts, four hooks, a command, a status change, two deaths |
| `enroll_delayed` | do memberships follow the order of prompts? (no) | two prompts, no deaths |
| `leases` | do leases tell the truth? | twelve kinds of session of two turns, two of them with a call that awaits peers |
| `watch` | is everything told once, do awaits tell the truth and end, do pages agree? | fifteen scenes of two sessions, two turns, two instants, two faults |
| `publish` | is the journal sound, and "clear" true? | two hooks, two turns, two moves, two faults and a reader; three hooks for a journal of two |
| `claude` | does what is published stay what one ingest would say? | nine scenes of six to eight rows |
| `claude_left` | ... even when a continued turn is left? (no) | nine rows, one rewind |
| `dashboard` | are results true and seen, does the view go forward, does every wait end? | eight scenes of three or four keys, one refresh, one foreign change, one fault |

**Why the bounds suffice.** Races of the lock need a dead owner, a recoverer and
an acquirer: three processes. A cursor's positions are per feed and its unread
sets are unions, so two records show every order of arrival, commit and
announcement, and two units every partial acknowledgement. An ingest has one
saved state and one run at a time: a death followed by a full run shows every
repair, and four records hold two complete turns or one with evidence between a
restart and a reset. Enrollment's conflicts are between two deliveries and one
rival; a third would repeat them. A lease remembers one turn only, so the second
turn shows every confusion of turns. A watcher compares each file with what it
remembers of it: one more version of each is enough for every comparison, and
two watchers for an echo. A page is compared with the one before: two lines and
pages of one item show each growth and repair between them. A journal of two is
full with its third attempt. A session file of eight rows holds two requests,
a call, its report and a rewind; nine are needed for the finding. The dashboard's
races are between two of its actors at a time, and each scene has the keys of
one dialog with at most one refresh and one foreign change.

**What the properties leave out on purpose.** Each exception is named in the
property and stated where it is defined.

- `DeliveredOnce` excepts turns of a feed that was rebuilt: the engine cannot
  tell its old turns from new ones.
- `AnswersBounded` counts the events a watcher printed; in its scene no claims
  overlap and no feed is rebuilt, the conditions of `AnswersAreBounded`.
- `ConvergesUnless` excepts four shapes of turns, in which a later look at the
  file says more than the first could know: an agent's launch answered after its
  turn was closed (`LateLineage`), an agent read in the middle of its answer
  (`Unattested`), a result that came after the turn that follows had begun
  (`Touched`), and the continued turn of `claude_left` (`LeftContinued`).
- `EvidenceBacksTurns` says less of sessions in which a run died between its
  appends: the next run keeps the evidence that is there under its identity, and
  the turn it publishes may say something else. Two scenes of `claude` show how:
  an agent read in the middle of its answer, and a turn whose report the replay
  drops because the user has gone back to before it since. That the evidence is
  there holds all the same; without a death it is what the turn names.
- `OnlyBackdatedStampsDiffer` names the one way in which a reset ingest may
  differ: a membership counts from the native start of its turn, which lies
  before the hook that writes it.
- `MoveTurnInTarget` has two exceptions, both against `docs/workstreams.md:462`,
  by which the move turn is stamped with the new workstream. A turn starts no
  later than the membership before counts from: `nextMembershipFrom` then lets the
  new one count from after that start, so the turn that moved stays in the
  workstream it left. It takes another move between the turn's native start,
  which Codex rounds down, and the hook that writes the membership. And the turn
  had ended in the rollout before the move was made: the asynchronous hook-ingest
  (`hooks/codex.ts:979`) makes a move that the prompt's hook did not get to make,
  and by then the turn may be published in the old workstream.
- `StopSparesInformedTurn` excepts a turn of Codex that was told before a hook of
  another turn was, at the same revision: the cursor keeps the turn told last
  only (`last_turn`), and a hook that an older turn left behind, or one of a
  goal's next turn, overwrites it. The Stop may then block a turn that was told,
  though `docs/workstreams.md:567` says it never does. A turn that a read informed
  is spared always.
- `RunningCallsClaimed` excepts calls beside one that runs `barbaro await`: its
  PreToolUse replaces all claims by none (`hooks/claude.ts:474`).
- `QuietUnlessStirred` excepts what changes between the readings of leases, news
  and journals; `NeverRegresses` the lookup of a creation, which a refresh in
  flight may overtake; `ResultSeen` an Escape pressed in a wait without a film.
- The properties of leases except sessions in which a prompt's or a Stop's hook
  was late (`InOrder`): such hooks write as they are, and the next event mends
  it. `BlocksNewestTurn` excepts late prompts too: one that was left behind puts
  its old turn back, which its Stop may then block. A Codex session that ends
  has no hook left behind in the scenes checked. An interrupted turn has no Stop
  and shows until it expires. Input queued in Claude clears the claims of
  running calls.

Type invariants (`TypeOK`) are conjuncts of one invariant of each module; only
`lock_prompt` lists its own.

**Deadlock.** `CHECK_DEADLOCK FALSE` stands where users and peers may stop for
good: all bounds used up is then a legal end. That no process waits for ever is a
property of its own where processes wait: `AbandonedRecovered`, `NobodyStuck`,
`AwaitEnds`, `EveryWaitEnds`.

**Fairness.** `DirectoryLock!FairSpec` has weak fairness of each process that runs
and of time: a poll loop with a sleep is always enabled and the scheduler runs
it. `Watch` has weak fairness of the clock and of the await's loop, which is a
timer; nothing is assumed of sessions or of what a scan meets. `Dashboard` has
weak fairness of the refresh (reads return), of the writer (it exits, or is
killed after thirty seconds), of the motion timer and of the end of the opening
stride; nothing is assumed of keys and other processes. The other modules state
safety only.

## 4. Proofs

TLC checks the instances of section 3. The following hold for every value of the
constants, under the `ASSUME`s of the modules, which only say what kind of thing
each constant is and that the markers for "none" are none of the values.

| Theorem | States | For |
| --- | --- | --- |
| `DirectoryLockProofs!TypeCorrect` | `TypeOK` | any processes and hosts |
| `DirectoryLockProofs!Exclusive`, `Intact` | mutual exclusion, and the lock stays on disk, if `Prompt` and as long as no two processes are past the verdict of a recovery together | the same |
| `EnrollmentProofs!Sound` | `StoreSound` | any sessions, names, prompts, commands, deaths |
| `EnrollmentProofs!Implements` | `Enrollment` implements `Membership` | the same |
| `PublishJournalProofs!Sound` | `JournalSound` | any hooks, texts, workstreams, journal size |
| `PublishJournalProofs!Final` | `OutcomeFinal` | the same |
| `PublishJournalProofs!ClearIsPublished` | `ClearPublished` | the same, any moves |
| `NudgeCursorProofs!SkipsNothing` | `NothingSkipped` | any feeds, workstreams, units, tools, limits |
| `NudgeCursorProofs!RearmsOnce` | `ReadRearmsOnce` | the same |
| `NudgeCursorProofs!TellsOnce` | `ToldOnce`, if `scene.version # 1` | the same |
| `NudgeCursorProofs!StopSpares` | `StopSparesInformedTurn`, if `scene.version # 1` | the same |
| `NudgeCursorProofs!LedgerIsTrue` | `LedgerHolds`, if `scene.version # 1` | the same |
| `ActiveLeaseProofs!QuietLeasesTrue` | `QuietLeaseIsTrue`, if `NeverEnds` | any turns, calls, events and faults |
| `ActiveLeaseProofs!StaleNeverWins` | `NothingStaleWins`, if `NeverEnds` | the same |
| `ActiveLeaseProofs!BlockedTurnIsNewest` | `BlocksNewestTurn`, if `NeverEnds` | the same |
| `ActiveLeaseProofs!CallsClaimed` | `RunningCallsClaimed` | the same |
| `PagesProofs!SkipsNothing` | `NothingSkipped` | any sessions, workstreams, incidents, watchers |
| `PagesProofs!PagesWhole` | `WholeWhenComplete` | any sessions, workstreams, turns and sizes of a page |
| `PagesProofs!PagesOfOne` | `PagesAgree` | the same |
| `PagesProofs!PagesSkipNothing` | `NothingSkipped`, of the specification with readers | the same |
| `PagesProofs!AwaitIsTrue` | `AwaitTruth`, if no feed is written again | any sessions, memberships, cursors, retries |
| `PagesProofs!TellsOnce` | a watcher tells nothing again but turns of rebuilt feeds and overlaps, and no lapse from before it | any sessions, workstreams, leases and faults |
| `PagesProofs!DeliversOnce` | `DeliveredOnce`, if nobody claims a path | the same |
| `PagesProofs!AnswersAreBounded` | `AnswersBounded`, if nobody claims a path and no feed is written again | any number of sessions that watch each other |
| `DashboardProofs!ReadyCountsHold`, `QuietHolds` | `ReadyCountTrue`, `QuietUnlessStirred` | any sessions, workstreams and scenes |
| `DashboardProofs!ResultHolds`, `ResultsAreSeen` | `ResultTrue`, `ResultSeen` | the same, any length of the film |
| `DashboardProofs!RevisionsNeverRegress` | `NeverRegresses` | the same |
| `DashboardProofs!MotionHolds` | `MotionLive` | the same |
| `CodexIngestProofs!FeedStaysSound` | `FeedSound`, if `~scene.reopens` | any rollouts, subagents, moves and faults |
| `CodexIngestProofs!CheckpointStaysSound` | `CheckpointSound`, if `~scene.reopens` | the same |
| `CodexIngestProofs!OnlyBackdatedStampsEverDiffer` | `OnlyBackdatedStampsDiffer`, if `~scene.reopens` | the same |
| `CodexIngestProofs!MoveTurnsInTarget` | `MoveTurnInTarget`, if `~scene.reopens` | the same |
| `CodexIngestProofs!ResumesExactly` | a run resumed at any line publishes what a whole replay has beyond that line, and saves the same checkpoint | any rollout in which turns start once |

**The lock (`LockInv`).** Mutual exclusion alone is not inductive: nothing in it
says that a directory exists while somebody holds it, so `mkdir` might succeed
twice. `LockInv` adds: at most one process is between its `mkdir` and its last
`rmdir`, or past a verdict on a dead owner (`OneInRegion`); the directory exists
for as long as one is (`DirBacksRegion`); `owner.json` is what the holder's place
says, missing, half written or its own (`FileOfHolder`); a held directory is
fresh, as `Prompt` says (`FreshWhileHeld`); a process that read an old mtime read
it of a directory that is still old (`AgedIsOld`). `Prompt` is a real assumption:
an operation or a `stat` that takes longer than `staleAfterMs` loses its lock to
another host, and `~Contended` is what `lock_two_recoverers` shows to be needed.

**Enrollment (`EnrollInv`).** That a record's name resolves to it says nothing of
the creator between its two writes. `EnrollInv` adds: who holds the locks is
where they are held (`LocksHeld`); the claim a creator has written stands until
it writes the record (`ClaimStands`); memberships are of recorded workstreams
(`LogRegistered`); what a delivery is about to append is not where its session
stands (`Leaves`); and a workstream made by a prompt is about to be appended,
appended, or its creator is dead (`Authored`). The refinement maps the recorded
workstreams and the logs; `WriteRecord` is `Register`, `AppendMembership` is
`Move`, and every other step stutters.

**The journal (`JournalInv`).** All updates of the journal, by births,
observations, outcomes and autopsies, have one shape (`Updates`): entries of
others are kept or get the autopsy's outcome, the hook's own entry is replaced or
appended, and the overflow is cut off and counted. The invariant: the journal is
one its reader accepts; what is missing from it is counted (`Counted`); an
attempt is in its hook's memory what its place says (`Minds`); an entry is what
its hook remembers, behind it, or an autopsy's verdict (`Written`).

**"Clear" (`ClearInv`).** The newest attempt of a whole journal stands for all the
older ones because turns end in the order in which their hooks are triggered
(`InOrder`), an entry carries the time of its trigger whoever wrote it last
(`Dated`), and a hook that saw no blocker saw its turn in the feed, which only
grows (`Informed`). The bound on moves had hidden what the property means: with
one move the memberships at the answer and those that were read give an attempt
the same workstream, with two they need not, so `ClearPublished` now names those
that were read, and the run has two moves.

**The cursor (`CursorInv`).** A position may only pass what was printed for the
membership of the cursor. `Good` says that of coverage (`Covered`), of positions
(`Passed`) and of output that a pending reservation may still commit
(`Reserved`); `ScanCurrent` says that the scan of a transaction is neither ahead
of the feeds nor behind the cursor; `Nonces` that an output cannot carry the
nonce of a later reservation. `Prefix` is a `CHOOSE`: that it is well defined,
and never skips an unread record, is the lemma the rest hangs on.

**The marks of the cursor (`LedgerInv`, `CountInv`, `FileInv`).** The cursor keeps
one high-water and one Stop latch, and a Stop that fails is rolled back while
other hooks go on, so that nothing is told twice is a property of all pairs of
deliveries at one revision. `History` says it of each pair in the order of their
claims: what was told later has a higher count, a later Stop follows only Stops
that were rolled back, and a Stop that may still be rolled back would restore
marks that are not below what was told before it and not above what was told
after it. `Booked` ties each delivery to the cursor, and a read of Codex to the turn it
informed. `CountsHold`, that a count is of records still unread, needs that
the scan is of the cursor's own membership and that a read takes away no more
than it marks. `FileInv` adds what the decoders ask: each mark is backed by a
delivery (`Backed`), so is each mark a Stop would restore (`Restorable`,
`SaneMarks`); a Stop that ends a turn of Claude, or retires its marks, finds no
other Stop that may be rolled back (`StopsAlone`); pending reads are few and of
different tools and nonces. `TurnInv` adds, for the turns of Codex, which
turn the cursor names (`Attended`): the one told last, unless a Stop stands, which
would restore it; so a Stop can only miss a turn that was told before another
(`Overtaken`). Hooks may be of any turn, so nothing orders the turns told. The
theorems are about sessions that did not inherit a cursor of the first version: its marker does not say what was told, and
`Virtual` takes for told what is unread at that moment. If a feed is missing then
and comes back, TLC shows (a codex scene of version 1 with `vanish`) that
`ToldOnce` fails: a count is told again. Scenes of version 1 whose feeds stay
are model-checked.

**The leases.** The actors only share the steps of the environment, so the
invariants speak of one actor: of its turn, its hooks, its lease and the latest
turn that wrote it. `Steps` shows that every step of `Next` is one of a few kinds
for each actor (`ProviderStep`, `HookStep`, `FaultStep`, `TimeStep`), and the rest
of the proof is about those. `BoundsInv` is the type invariant; it also says that
at most one Stop is waited for, in a turn that is stopping. `Forward` is why no
older turn of Codex wins: a hook may write a lease only if it is of the lease's
turn, of the one the provider is in, or finds none; so while a lease is gone or
may be reaped, no hook of an older turn than the one that wrote it may be left
(`Dead`), and a Stop between its two writes has to find its own tombstone or a
higher revision. `Settled` is why a quiet lease is true: it follows one turn from
its first hook to its tombstone. While no hook that begins or ends the turn is
left, an idle actor has the tombstone of its turn (`Rest`), a running turn of
Claude shows (`Running`), and what shows in a turn of Codex is that turn
(`Current`); hooks that may be late find a tombstone of their own turn and leave
it (`Sleeps`). `Orderly` does the same for the claims of Claude's calls.
`NeverEnds` says that a Codex session fires no SessionStart or SessionEnd: such an
event names no turn, so the tombstone it leaves does not tell an older turn's
hook that it is late. With `Sessions <- EndedWithHookLeft`, TLC shows for each of
the three properties that a session which ends while a hook is left behind breaks
it; a session that ends with no hook left is model-checked (`CodexEnding`).

**The watcher (`WatchInv`).** A memory is judged against a store that goes on
while it is scanned. The store only grows under it (`Grown`: turns are appended,
a complete marker keeps its workstream), so what was covered stays covered; and
each scan moves the memory no further than what it puts into the events of the
poll or into the baseline. `Bounds` carries what one scan leaves to the next:
no events before the baseline, no feed of its own, no position beyond a feed.

**An await (`AwaitInv`).** A scan takes its cursor at one moment, the records at
another, and is believed if membership and cursor are afterwards what they were.
That this suffices is not a matter of the await but of what it reads: a
membership's epoch only rises, and a cursor is moved forward within its epoch or
replaced by one of a later (`NotAfter`), so what is the same before and after was
the same in between (`AwaitProgress`), and the scan was of that very cursor. It
needs that no cursor and no membership counts from turns that are not in their
feed (`Grounded`); a feed that is deleted and written again breaks this, its
cursor may go back and come forward again, hence the hypothesis.

**What a watcher tells (`OnceInv`).** Three kinds of events are remembered by what
they are about, and there the invariant is that the memory covers all that was
told, collected, or part of the baseline (`Remembered`). The lapse of a lease is
remembered by the revision that was read, of leases that are read one by one
while they are renewed, reaped and made again. `LapsesOnce` says of each lease,
and of each copy a scan has of one, that if the lapse of its revision was told, or
was over when the watch was armed, then the memory knows this very revision as
reported. For that it needs the times: a scan has every lease that was there
when its poll began (`HasRead`), a lapse is older than its poll, and a lease that
is written is written now (`LeaseWritten`), so one the scan missed is too young to
have lapsed before. Overlaps are the exception: with three or more workstreams
two leases may change workstream between two reads of one scan, which then misses
an overlap that lasted, and the next poll tells it again. `TellsOnce` leaves them
out, `DeliversOnce` is about stores without claims.

**Answers (`HeardInv`).** Where every event that is told is new, each poll that
wakes its session has made the set of what was printed larger (`PrintedMore`), and
an answer uses up its wake-up; so answers, with the one that is still due, are no
more than what was printed (`Caused`). What was printed has no answers in it
(`Genuine`), since both stamps and quoted wake-ups mark them as echoes. A feed
that is written again would be told again, and answered again (`NeverRebuilt`).
`AwaitInv`, `OnceInv` and `HeardInv` are properties of small scenes that TLC agreed
to before they were proved.

**The pages (`PagesInv`).** A traversal takes many steps and is judged against what
was there when it began, so the invariant says how all it has read stands to the
files as they are now. Of the store that goes on, only `Around` matters: a feed
keeps its lines and may get more (`Keeps`), a part of a line stays or the rest of
it comes (`KeepsPart`), or the feed is lost, and then nothing of it counts as
there all along and whoever goes by it is touched. For the traversal there is one
invariant per reader. Of a list, what was pinned is still a prefix of its file
(`Intact`), what was there is pinned or yet to be read (`Covers`), and the items
so far are the first of the pinned turns in order (`Leads`); that the order is a
list in which each turn stands once (`SortedIs`, by well-founded induction on
ranks) is why a page ends at one place and the next begins there. Of a record,
the pieces join and are of one version, and the version is that of the file
unless it was touched (`Follows`, `Live`). Of a context, what was there and is
left out is at most what the context says it left out (`MissingBound`). Of the
health, whatever was there is read to its end or the verdict says so
(`Checked`).

**The catalogue (`ReadsOk`).** A reading takes a step for each file, and the
sessions go on. Of their steps only `Moves` matters: a feed grows, a cursor stays
or is replaced by one it never comes back from (`Beyond`), and a session moves
only when it begins to work. For each count (`CountOk`) the invariant keeps two
bounds: what was found and what is still to be scanned is at least what the
session had when its cursor was read, and what was found is no more than it has,
for as long as its cursor is the one that was read; the last look at the cursor
turns this into a count that it had. For each workstream (`Explained`) it keeps a
reason: either a session that was seen to be unread, blocked or unknown, or
something yet unread that will be seen (`Witness`), or the workstream was quiet
once or was stirred.

**The dashboard (`Holds`).** What is shown, written and said is of different
moments. `ControlOk` says which waits exclude each other: a writer runs only
under a wait, a lookup only after it, no refresh counts that began before it, a
film only over a wait or a confirmed change, and `dialog.warns` under a film is
the writer's own. `ShownOk` orders what was read: the screen is not later than
the store, than a refresh that counts, or than the lookup of a status change,
which is why the next thing shown is not earlier. `WroteOk` says that a writer
that changed the store is visible as a later revision to whoever looks after it
(`Written`), so that a dialog which finds the revision it began with is right to
say that nothing was done. `MotionOk` says that a timer serves the scene on the
screen, and that a scene without one has a refresh under way that counts and
arms it. TLC checked these parts on the scenes of `dashboard` before they were
proved. The exception in `NeverRegresses` is needed: a creation does not
invalidate the refresh in flight (`rd.overtaken`).

**The Codex ingest (`Inv`).** What a run publishes is computed line by line, so
the first half of the module is about sequences of records only. `LeastNumber`
gives the first line at which a claim would fail, and with it: `Knows` says what
a normalizer that has read `k` lines knows of them (its builders are the turns
that started and have not ended, its evidence is of the `usage` records whose
turn ended, each once); `Resumes`, that a normalizer resumed from the checkpoint
of line `b` has what the whole replay has beyond `b`, and agrees with it on the
rest; `FreshTail`, that `Fresh` drops exactly the part of a batch that a file
already holds, when the file is a prefix of what is published. `ResumesExactly`
is the sum of these.

The invariant then has a part for each thing a run, its death or a reset could
get wrong: the rollouts are written as Codex writes them, turns in order and each
started once (`Written`); the saved state is the snapshot at its offset
(`SavedOk`); a run that has read holds what `Resumes` says (`RunOk`); what a run
read before it resolved the memberships is older than any made since (`Logged`,
`Before`), the end of a turn too, which is why only a move made after that end
can miss its turn; evidence is out before the turns that refer to it, and both before the
offset is saved (`EvidenceOut`, `FeedOut`); the feed follows the replay of the
whole rollout, and each stamp is that of a prefix of the log, such that what was
added since does not change it unless it was backdated (`FeedOk`, `TurnStamped`,
`EvidenceOk`); and a membership made by a prompt counts from the start of its
turn (`Moved`). TLC checked `Inv` on the scenes of `ingest` before it was proved.

`~scene.reopens` is needed: the saved state forgets the turns that have ended, so
a turn started again after a checkpoint is assembled anew, and differently from a
reset ingest that still knows it. With six records, one move, one fault and
`reopens |-> TRUE`, TLC shows that `CheckpointSound` and
`OnlyBackdatedStampsDiffer` fail, while `MoveTurnInTarget` holds in that instance.

**Only model-checked, and why.**

- Liveness (`AbandonedRecovered`, `AwaitEnds`, `EveryWaitEnds`) and `NobodyStuck`,
  which speaks of `ENABLED`: beyond the provers.
- `ConvergesUnless`, `EvidenceBacksTurns` and `FollowsTheUser` rest on the replay of
  `ClaudeTrace`. The induction theorems of the library are of no use to the provers
  here; `CodexIngestProofs` shows the way around them, a least counterexample per
  claim, which is long: each of these needs its own.
- That an overlap is told again only after it was gone, the part of
  `DeliveredOnce` that is about claims, holds for the two workstreams checked and
  not in general (see above).

## 5. Findings

1. `lock_two_recoverers` (`output/directory-lock.ts:280`): a process dies in its
   operation; two others read its record, find it dead and find the same record
   again on the second look; one removes the lock and acquires it, the other
   removes that lock by its path and acquires it too, and both run their
   operations. A directory without an owner, which is judged by its age and has
   no second look, goes wrong in the same way: `Contended` covers both.
2. `enroll_delayed` (`hooks/participation.ts:393`): the asynchronous hook of an
   older prompt, run after a newer prompt has moved the session, moves it back.
3. `claude_left` (`providers/claude/normalizer.ts:1518`): the user goes back to
   before a turn that the report of a background command had continued and that
   is published. In the replay the report no longer continues it, so its digest
   differs from the published one for good, and its work may be published twice.

## 6. Not modelled

Parsing, hashing, byte budgets and path safety are data that no property tells
apart; atomic file writes are single steps. Setup and doctor read configuration
and report. Of the command line, the commands that change state are actions of
the modules of that state, and the loop of `watch` is in `Watch`. Of Claude's
ingest, workflows and their journals, attachments, compactions and malformed
files are left out; of the readers, damaged records, claims, dependencies and
the projected text; of the dashboard, layout, the news ticker and the clipboard.
`PROJECT.json` says for each component what is left out.

## 7. Plan

What is left to prove: `EvidenceBacksTurns` and `FollowsTheUser` of `ClaudeIngest`,
then `ConvergesUnless`, by what a replay knows of a session file, as `Knows` does
for Codex.
