----------------------------- MODULE Catalogue -----------------------------
(***************************************************************************)
(* The project catalogue (src/reader/catalogue.ts) and the batch of unread *)
(* counts in it (src/reader/unread.ts): what the dashboard shows of the    *)
(* workstreams.                                                            *)
(*                                                                         *)
(* One reading takes many files one after the other and holds no lock:     *)
(* workstream records, participation, feeds, leases, and then, for the     *)
(* members it found, cursors, the feeds again, the cursors once more, and  *)
(* the journals.  Sessions go on in between: they are prompted and move,   *)
(* read their news, stop and publish.                                      *)
(*                                                                         *)
(* A session is its membership history, its visible lease, its feed, its   *)
(* read cursor and whether its publication is blocked.  Limits on files,   *)
(* bytes and rows, damaged records and the text of a projection are left   *)
(* out, except for a feed that ends in part of a line and a source whose   *)
(* reading fails.                                                          *)
(***************************************************************************)
EXTENDS Naturals, Sequences, FiniteSets, FiniteSetsExt

CONSTANTS
    Workstreams, Sessions,  \* numbers; files are read in this order
    MaxPrompts,             \* prompts of all sessions
    Scenes,                 \* see CatalogueScene
    None

(* What the sessions of a scene do: which of them there are, which work at first
   and which have published a turn, how often they are prompted and whether a
   prompt may move them, whether appends tear and publications get blocked;
   which workstreams there are, which ones somebody else's command line changes
   and how often, and how many readings fail. *)
CatalogueScene(sc) ==
    /\ sc.sessions \subseteq Sessions
    /\ sc.working \subseteq sc.sessions /\ sc.spoken \subseteq sc.sessions
    /\ sc.prompts \in 0..MaxPrompts
    /\ {sc.moves, sc.torn, sc.blocks} \subseteq BOOLEAN
    /\ sc.exists \subseteq Workstreams /\ sc.foreign \subseteq Workstreams
    /\ {sc.flips, sc.faults} \subseteq Nat

ASSUME CatalogueAssumption ==
    /\ Workstreams \subseteq Nat \ {0} /\ IsFiniteSet(Workstreams)
    /\ Sessions \subseteq Nat /\ IsFiniteSet(Sessions)
    /\ 1 \in Workstreams /\ MaxPrompts \in Nat
    /\ None \notin Nat \union [status : {"open", "completed"}, rev : Nat]
                      \union [ws : Workstreams, at : Nat]
    /\ \A sc \in Scenes :
          /\ CatalogueScene(sc)
          /\ None \notin [ws : Workstreams, from : Nat, ack : [sc.sessions -> Nat]]

Readers == {"refresh", "lookup"}

VARIABLES
    scene,
    record,     \* the workstream records: status and revision, or None
    session,    \* the sessions, see NewSession
    clock,      \* moves and turns so far
    spent,      \* prompts, foreign transitions and failed readings so far
    reads,      \* the reading of each reader
    since       \* what was so at some time since it began

catalogueVars == <<scene, record, session, clock, spent, reads, since>>

-----------------------------------------------------------------------------
(* The store *)

NewSession(sc, s) ==
    [path |-> <<[ws |-> 1, from |-> 0]>>,
     lease |-> IF s \in sc.working THEN 1 ELSE None,
     ended |-> FALSE,           \* its turn is over, its lease has to go
     owed |-> None,             \* a completed turn that is not published
     feed |-> IF s \in sc.spoken THEN <<[ws |-> 1, at |-> 1]>> ELSE <<>>,
     torn |-> FALSE,
     cursor |-> None, blocked |-> FALSE]

Current(path) == path[Len(path)]

(* participation: the workstreams a session belongs or belonged to *)
Joined(path) == {path[i].ws : i \in DOMAIN path}

(* A cursor counts for the membership it was written in; a missing one is a
   virtual one at the beginning of every feed. *)
Matches(c, m) == c = None \/ (c.ws = m.ws /\ c.from = m.from)

Position(c, f) == IF c = None THEN 0 ELSE c.ack[f]

(* consumeFeedLine: the turns of a feed that a member has not read, those of
   its workstream that ended after it joined. *)
NewsIn(f, turns, c, m) ==
    {<<f, i>> : i \in {i \in Position(c, f) + 1 .. Len(turns) :
                          turns[i].ws = m.ws /\ turns[i].at > m.from}}

Others(k) == scene.sessions \ {k}

News(S, k, m) ==
    LET c == IF Matches(S[k].cursor, m) THEN S[k].cursor ELSE None IN
    UNION {NewsIn(f, S[f].feed, c, m) : f \in Others(k)}

(* A workstream at rest: nobody works in it, no member has news or a blocked
   publication. *)
Quiet(S, w) ==
    \A s \in scene.sessions :
        /\ S[s].lease # w
        /\ Current(S[s].path).ws = w =>
              News(S, s, Current(S[s].path)) = {} /\ ~S[s].blocked

-----------------------------------------------------------------------------
(* A reading *)

Stages == <<"records", "participation", "feeds", "active", "cursors", "scans",
            "revalidate", "publish", "done">>

NoReading == [stage |-> "none"]

NewReading ==
    LET N(v) == [s \in scene.sessions |-> v] IN
    [stage |-> "records", todo |-> {0}, refused |-> FALSE, records |-> record,
     paths |-> N(<<>>), feeds |-> N(<<>>), torn |-> N(FALSE), leases |-> N(None),
     cursors |-> N(None), found |-> N({}), unknown |-> {}, blocked |-> {}]

NothingSince == [quiet |-> {}, stirred |-> {}, counts |-> <<>>]

Begin(r) ==
    /\ reads' = [reads EXCEPT ![r] = NewReading]
    /\ since' = [since EXCEPT ![r] =
                    [quiet |-> {w \in Workstreams : Quiet(session, w)},
                     stirred |-> {}, counts |-> [s \in scene.sessions |-> {}]]]

(* One file is read; with the last of its kind the next kind begins. *)
Advance(rd, s) ==
    LET left == rd.todo \ {s}
        i == CHOOSE i \in DOMAIN Stages : Stages[i] = rd.stage
    IN IF left # {} THEN [rd EXCEPT !.todo = left]
       ELSE IF scene.sessions = {} THEN [rd EXCEPT !.stage = "done", !.todo = {}]
       ELSE [rd EXCEPT !.stage = Stages[i + 1],
                       !.todo = scene.sessions]

Key(rd, k) == Current(rd.paths[k])

(* The cursors are read all at once, everything else in order. *)
IsNext(rd, s) == s \in rd.todo /\ (rd.stage # "cursors" => s = Min(rd.todo))

ReadStep(r, stage, s, rd) ==
    /\ reads[r].stage = stage /\ IsNext(reads[r], s)
    /\ reads' = [reads EXCEPT ![r] = Advance(rd, s)]
    /\ UNCHANGED <<scene, record, session, clock, spent>>

ReadWorkstreamFacts(r) ==
    /\ ReadStep(r, "records", 0, [reads[r] EXCEPT !.records = record])
    /\ UNCHANGED since

ReadParticipationFacts(r, s) ==
    /\ ReadStep(r, "participation", s, [reads[r] EXCEPT !.paths[s] = session[s].path])
    /\ UNCHANGED since

(* scanFeed: the whole lines of a feed *)
ScanFeed(r, s) ==
    /\ ReadStep(r, "feeds", s, [reads[r] EXCEPT !.feeds[s] = session[s].feed,
                                                !.torn[s] = session[s].torn])
    /\ UNCHANGED since

ListActive(r, s) ==
    /\ ReadStep(r, "active", s, [reads[r] EXCEPT !.leases[s] = session[s].lease])
    /\ UNCHANGED since

(* readCursorSnapshot: the cursor of another membership says nothing. *)
ReadCursor(r, s) ==
    LET c == session[s].cursor
        m == Key(reads[r], s) IN
    /\ ReadStep(r, "cursors", s,
                [reads[r] EXCEPT !.cursors[s] = c,
                                 !.unknown = IF Matches(c, m) THEN @ ELSE @ \union {s}])
    /\ since' = [since EXCEPT ![r].counts[s] = {Cardinality(News(session, s, m))}]

(* scanPinnedFeed: one feed for all members that need it; a line without its
   end makes their counts unknown. *)
ScanPinnedFeed(r, f) ==
    LET rd == reads[r]
        needs == Others(f) \ rd.unknown IN
    /\ ReadStep(r, "scans", f,
                [rd EXCEPT
                   !.found = [k \in scene.sessions |->
                       IF k \in needs
                       THEN @[k] \union NewsIn(f, session[f].feed, rd.cursors[k], Key(rd, k))
                       ELSE @[k]],
                   !.unknown = IF session[f].torn THEN @ \union needs ELSE @])
    /\ UNCHANGED since

(* Mutant: The cursors are not read again. *)
Unchecked(r, s) ==
    /\ ReadStep(r, "revalidate", s, reads[r])
    /\ UNCHANGED since

(* revalidateCursorSnapshots, sameCursorSnapshot *)
Revalidate(r, s) ==
    /\ ReadStep(r, "revalidate", s,
                [reads[r] EXCEPT !.unknown =
                    IF session[s].cursor = reads[r].cursors[s] THEN @ ELSE @ \union {s}])
    /\ UNCHANGED since

(* attachPublish: what the journal of a member says *)
AttachPublish(r, s) ==
    /\ ReadStep(r, "publish", s,
                [reads[r] EXCEPT !.blocked = IF session[s].blocked THEN @ \union {s} ELSE @])
    /\ UNCHANGED since

(* A source of the catalogue itself cannot be read: the whole is refused. *)
Refuse(r) ==
    /\ reads[r].stage \in {"records", "participation", "feeds", "active"}
    /\ spent.faults < scene.faults
    /\ spent' = [spent EXCEPT !.faults = @ + 1]
    /\ reads' = [reads EXCEPT ![r].stage = "done", ![r].refused = TRUE]
    /\ UNCHANGED <<scene, record, session, clock, since>>

ReadNext(r) ==
    \/ ReadWorkstreamFacts(r)
    \/ \E s \in scene.sessions :
          \/ ReadParticipationFacts(r, s) \/ ScanFeed(r, s) \/ ListActive(r, s)
          \/ ReadCursor(r, s) \/ ScanPinnedFeed(r, s) \/ Revalidate(r, s)
          \/ AttachPublish(r, s)

-----------------------------------------------------------------------------
(* What it says *)

(* assembleWorkstream: the sessions a workstream has a row for *)
RollsOf(rd, w) ==
    {s \in scene.sessions :
        \/ w \in Joined(rd.paths[s]) \/ rd.leases[s] = w
        \/ \E i \in DOMAIN rd.feeds[s] : rd.feeds[s][i].ws = w}

MembersOf(rd, w) == {s \in scene.sessions : Key(rd, s).ws = w}

Working(rd, w) == {s \in scene.sessions : rd.leases[s] = w}

HistoryComplete(rd, w) == \A s \in RollsOf(rd, w) : ~rd.torn[s]

KnownActivity(rd, w) ==
    \E s \in scene.sessions : \E i \in DOMAIN rd.feeds[s] : rd.feeds[s][i].ws = w

(* Mutant: Blocked publications are passed over. *)
AttentionOfUnread(rd, w) ==
    \E s \in MembersOf(rd, w) : s \in rd.unknown \/ rd.found[s] # {}

(* finishAttention: what wants attention, or what is not known of it *)
Attention(rd, w) ==
    \E s \in MembersOf(rd, w) :
        s \in rd.unknown \/ rd.found[s] # {} \/ s \in rd.blocked

QuietProven(rd, w) ==
    /\ HistoryComplete(rd, w) /\ KnownActivity(rd, w)
    /\ Working(rd, w) = {}
    /\ ~Attention(rd, w)

(* readProjectCatalogue: the catalogue, as far as the dashboard goes by it. *)
Projection(rd) ==
    [refused |-> rd.refused,
     records |-> IF rd.refused THEN [w \in Workstreams |-> None] ELSE rd.records,
     working |-> IF rd.refused THEN {} ELSE {w \in Workstreams : Working(rd, w) # {}}]

-----------------------------------------------------------------------------
(* The sessions; their own protocols are in other modules *)

(* What was so at some time during a reading. *)
Note ==
    since' = [r \in Readers |->
        IF reads[r].stage \in {"none", "done"} THEN since[r]
        ELSE [since[r] EXCEPT
                !.quiet = @ \union {w \in Workstreams : Quiet(session', w)},
                !.stirred = @ \union {w \in Workstreams : \E s \in scene.sessions :
                    \/ session[s].lease # w /\ session'[s].lease = w
                    \/ /\ session[s].blocked /\ ~session'[s].blocked
                       /\ session[s].owed.ws = w},
                !.counts = [s \in scene.sessions |->
                    IF @[s] = {} THEN {}
                    ELSE @[s] \union {Cardinality(News(session', s, Key(reads[r], s)))}]]]

Changes(s, new) ==
    /\ session' = [session EXCEPT ![s] = new]
    /\ Note
    /\ UNCHANGED <<scene, record, reads>>

(* A prompt, which may move the session. *)
Prompt(s) ==
    /\ session[s].lease = None /\ session[s].owed = None
    /\ spent.prompts < scene.prompts
    /\ \E w \in Workstreams :
         LET moved == w # Current(session[s].path).ws IN
         /\ moved => scene.moves
         /\ clock' = IF moved THEN clock + 1 ELSE clock
         /\ Changes(s, [session[s] EXCEPT
                !.lease = w,
                !.path = IF moved THEN Append(@, [ws |-> w, from |-> clock + 1]) ELSE @])
    /\ spent' = [spent EXCEPT !.prompts = @ + 1]

(* A working session reads what a peer's feed has for it. *)
Acknowledge(s, f) ==
    LET m == Current(session[s].path)
        c == session[s].cursor
        before == IF c # None /\ Matches(c, m) THEN c.ack
                  ELSE [g \in scene.sessions |-> 0]
    IN /\ session[s].lease # None /\ ~session[s].ended /\ f # s
       /\ before[f] < Len(session[f].feed)
       /\ Changes(s, [session[s] EXCEPT !.cursor =
              [ws |-> m.ws, from |-> m.from,
               ack |-> [before EXCEPT ![f] = Len(session[f].feed)]]])
       /\ UNCHANGED <<clock, spent>>

(* The turn ends; its lease goes and its record comes in either order. *)
Stop(s) ==
    /\ session[s].lease # None /\ ~session[s].ended
    /\ clock' = clock + 1
    /\ Changes(s, [session[s] EXCEPT
           !.ended = TRUE, !.owed = [ws |-> session[s].lease, at |-> clock + 1]])
    /\ UNCHANGED spent

Tombstone(s) ==
    /\ session[s].ended
    /\ Changes(s, [session[s] EXCEPT !.ended = FALSE, !.lease = None])
    /\ UNCHANGED <<clock, spent>>

Publish(s) ==
    /\ session[s].owed # None
    /\ Changes(s, [session[s] EXCEPT !.feed = Append(@, session[s].owed),
                      !.owed = None, !.torn = FALSE, !.blocked = FALSE])
    /\ UNCHANGED <<clock, spent>>

(* Part of the line is there already, or the publication fails for now. *)
Tear(s) ==
    /\ scene.torn /\ session[s].owed # None /\ ~session[s].torn
    /\ Changes(s, [session[s] EXCEPT !.torn = TRUE])
    /\ UNCHANGED <<clock, spent>>

Block(s) ==
    /\ scene.blocks /\ session[s].owed # None /\ ~session[s].blocked
    /\ Changes(s, [session[s] EXCEPT !.blocked = TRUE])
    /\ UNCHANGED <<clock, spent>>

(* setStatus of the store *)
SetStatus(w, status) ==
    record' = [record EXCEPT ![w] =
                  IF @.status = status THEN @
                  ELSE [status |-> status, rev |-> @.rev + 1]]

CreateWorkstream(w) ==
    /\ record[w] = None
    /\ record' = [record EXCEPT ![w] = [status |-> "open", rev |-> 1]]

(* Somebody else's command line *)
Flip(w) ==
    /\ w \in scene.foreign /\ spent.flips < scene.flips
    /\ spent' = [spent EXCEPT !.flips = @ + 1]
    /\ IF record[w] = None THEN CreateWorkstream(w)
       ELSE SetStatus(w, IF record[w].status = "open" THEN "completed" ELSE "open")
    /\ UNCHANGED <<scene, session, clock, reads, since>>

SessionNext ==
    \/ \E s \in scene.sessions :
          \/ Prompt(s) \/ Stop(s) \/ Tombstone(s) \/ Publish(s) \/ Tear(s) \/ Block(s)
          \/ \E f \in scene.sessions : Acknowledge(s, f)
    \/ \E w \in Workstreams : Flip(w)

CatalogueInit ==
    /\ scene \in Scenes
    /\ record = [w \in Workstreams |->
                    IF w \in scene.exists THEN [status |-> "open", rev |-> 1] ELSE None]
    /\ session = [s \in scene.sessions |-> NewSession(scene, s)]
    /\ clock = 1
    /\ spent = [prompts |-> 0, flips |-> 0, faults |-> 0]
    /\ reads = [r \in Readers |-> NoReading]
    /\ since = [r \in Readers |-> NothingSince]

-----------------------------------------------------------------------------
(* Properties *)

Done(r) == reads[r].stage = "done" /\ ~reads[r].refused

(* "Compute E-02": a count that is called ready is one the recipient had while
   the batch was read, although every feed was read at another time and the
   recipient may have read, moved and come back in between. *)
ReadyCountTrue ==
    \A r \in Readers : Done(r) =>
        \A k \in scene.sessions \ reads[r].unknown :
            \E lo, hi \in since[r].counts[k] :
                Cardinality(reads[r].found[k]) \in lo..hi

(* What is shown as proven quiet was quiet at one moment of the reading, unless
   since its beginning a session began to work in it or a blocked publication
   went through.  Both exceptions are real: leases are read before news and
   news before journals, so what goes on between two of them is in neither. *)
QuietUnlessStirred ==
    \A r \in Readers : Done(r) =>
        \A w \in Workstreams :
            QuietProven(reads[r], w) => w \in since[r].quiet \union since[r].stirred
=============================================================================
