------------------------------- MODULE Pages -------------------------------
(***************************************************************************)
(* The readers of the derived store.  Four take it page by page: the list  *)
(* of turns (src/reader/turn-list.ts), turns and evidence as records       *)
(* (src/reader/record-page.ts), and the actions of a subagent's evidence   *)
(* (src/reader/store.ts).  Two take it in one page: the context            *)
(* (src/reader/store.ts) and the health of the store                       *)
(* (src/reader/health.ts).                                                 *)
(*                                                                         *)
(* A page that is not the last ends with a cursor, and the next page is    *)
(* another process that knows only the cursor.  A list pins how far each   *)
(* feed went and binds what was in it; a record pins the bytes it is in;   *)
(* the actions' cursor is a number and pins nothing.                       *)
(* No reader takes a lock: files are listed and read one after the other   *)
(* while sessions append, leave part of a line, heal it, and a feed is     *)
(* removed and written again.                                              *)
(*                                                                         *)
(* The feeds are those of the module Watch.  What a line says is a         *)
(* version: a turn that is written again may differ, in stamps of a fixed  *)
(* width.  A session's evidence file is appended to as its feed is, and a  *)
(* traversal of evidence takes file for it.  How many items or characters  *)
(* fit into a page is any number; damaged records are left out.            *)
(***************************************************************************)
EXTENDS Watch, SequencesExt

CONSTANTS
    Order,      \* the sessions as their files are sorted
    MaxStamp,   \* times at which a turn ends
    MaxLines,   \* lines of a feed within the largest maxFileBytes
    Window,     \* turnsPerSession of the context
    Length,     \* characters of a record
    None

ASSUME PagesAssumption ==
    /\ Order \in Seq(Sessions) /\ ToSet(Order) = Sessions /\ IsInjective(Order)
    /\ {MaxStamp, MaxLines, Window, Length} \subseteq Nat \ {0}
    /\ Gone \notin [ws : Workstreams, epoch : Nat, base : [Sessions -> Nat]]
                    \union [epoch : Nat, pos : [Sessions -> Nat]]
    /\ None \notin Nat \union [id : Nat, lines : Seq(Nat), part : Nat \union {None}]
                       \union [s : Sessions, n : Nat, at : Nat, v : Nat]

VARIABLES
    file,       \* of each feed: its identity, its lines, part of one more
    stamp,      \* when each turn ended
    pg          \* the traversal

pageVars == <<file, stamp, pg>>
allVars == <<vars, pageVars>>

Kinds == {"list", "context", "show", "evidence", "actions", "health"}
Paged == \E k \in Kinds, s \in Sessions : Does(k, s)

Rank(s) == CHOOSE i \in DOMAIN Order : Order[i] = s

NoPages == [kind |-> "none"]

-----------------------------------------------------------------------------
(* The feeds *)

Versions(s) == IF Paged /\ Does("rebuild", s) THEN {1, 2} ELSE {1}

InStore == {t \in Sessions \X (1..MaxTurns) : t[2] <= Published(t[1])}

Wanted(t) == InScope(turns[t[1]][t[2]].ws)

(* For the properties: what was published when the traversal began and has not
   been removed since, and whether what it goes by was removed or healed. *)
GoesBy(s) ==
    \/ pg.kind = "health"
    \/ pg.turn[1] = None /\ pg.pinned[s] # None
    \/ pg.turn[1] = s /\ (pg.pinned[s] # None \/ pg.after # None)

Removed(s) ==
    pg' = IF pg.kind = "none" THEN pg
          ELSE [pg EXCEPT !.had = {t \in @ : t[1] # s}, !.touched = @ \/ GoesBy(s)]

Reaped == pg' = IF /\ pg.kind = "health"
                   /\ \E a \in Actors : lease[a] # Gone /\ lease'[a] = Gone
                THEN [pg EXCEPT !.touched = TRUE] ELSE pg

(* appendToHandle: part of a line is there before the rest of it. *)
WritePart(s) ==
    /\ Paged /\ Does("tear", s)
    /\ feed[s] # Gone /\ file[s].tail = None /\ Published(s) < MaxTurns
    /\ \E v \in Versions(s) : file' = [file EXCEPT ![s].tail = v]
    /\ UNCHANGED <<vars, stamp, pg>>

HealTail(s) ==
    /\ file[s].tail # None
    /\ file' = [file EXCEPT ![s].tail = None]
    /\ pg' = IF pg.kind = "list" /\ pg.pinned[s] # None /\ pg.pinned[s].part # None
             THEN [pg EXCEPT !.touched = TRUE] ELSE pg
    /\ UNCHANGED <<vars, stamp>>

RemoveFile(s) ==
    /\ feed[s] # Gone /\ feed'[s] = Gone
    /\ file' = [file EXCEPT ![s].lines = <<>>, ![s].tail = None]
    /\ Removed(s)
    /\ UNCHANGED stamp

AppendLine(s) ==
    /\ feed'[s] # feed[s] /\ feed'[s] # Gone
    /\ \E v \in IF file[s].tail = None THEN Versions(s) ELSE {file[s].tail} :
          file' = [file EXCEPT ![s].lines = Append(@, v), ![s].tail = None,
                               ![s].id = IF feed[s] = Gone THEN @ + 1 ELSE @]
    /\ \E at \in (IF stamp[s] = <<>> THEN 1 ELSE Last(stamp[s]))
                    .. (IF Paged THEN MaxStamp ELSE 1) :
          stamp' = IF turns' = turns THEN stamp
                   ELSE [stamp EXCEPT ![s] = Append(@, at)]
    /\ UNCHANGED pg

(* A step of Watch, and what it does to a file. *)
StoreStep ==
    /\ Next
    /\ \/ \E s \in Sessions : RemoveFile(s) \/ AppendLine(s)
       \/ feed' = feed /\ Reaped /\ UNCHANGED <<file, stamp>>

-----------------------------------------------------------------------------
(* Reading feeds *)

Paging == UNCHANGED <<scene, store, eng, out, ghost, aw, file, stamp>>

(* The first of the sessions S as their files are sorted *)
First(S) == CHOOSE s \in S : \A t \in S : Rank(s) <= Rank(t)

(* A command without a cursor; limit is its maxFileBytes. *)
Start(kind, turn, limit) ==
    /\ pg = NoPages
    /\ pg' = [kind |-> kind, turn |-> turn, limit |-> limit, stage |-> 0,
              pc |-> IF kind = "health" THEN "list" ELSE "read",
              todo |-> IF kind \in {"list", "context", "show"}
                       THEN {s \in Sessions : feed[s] # Gone} ELSE {},
              short |-> FALSE,
              pinned |-> [s \in Sessions |-> None], seen |-> [s \in Sessions |-> None],
              at |-> 0, after |-> None, total |-> None, items |-> <<>>,
              result |-> "none", had |-> InStore, touched |-> FALSE]
    /\ UNCHANGED faults /\ Paging

Fits(s) == Len(file[s].lines) <= pg.limit

Whole(s) == [id |-> file[s].id, lines |-> file[s].lines, part |-> file[s].tail]

(* captureFeedSnapshots, findTurn, readNewestFeedTurns: a feed that is missing,
   too large or cannot be read is left out and counted. *)
ReadFeed ==
    /\ pg.kind \in {"list", "context", "show"} /\ pg.pc = "read" /\ pg.todo # {}
    /\ LET s == First(pg.todo)
           fits == feed[s] # Gone /\ Fits(s)
       IN \E fails \in BOOLEAN :
            /\ fails => fits /\ faults < MaxFaults /\ Does("fault", s)
            /\ faults' = IF fails THEN faults + 1 ELSE faults
            /\ pg' = IF fits /\ ~fails
                     THEN [pg EXCEPT !.todo = @ \ {s}, !.pinned[s] = Whole(s)]
                     ELSE [pg EXCEPT !.todo = @ \ {s}, !.short = TRUE]
    /\ Paging

(* The records of the feeds ps, as they were read, and those in scope *)
Records(ps) ==
    {[s |-> t[1], n |-> t[2], at |-> stamp[t[1]][t[2]], v |-> ps[t[1]].lines[t[2]]] :
        t \in {u \in Sessions \X (1..MaxTurns) :
                  ps[u[1]] # None /\ u[2] <= Len(ps[u[1]].lines)}}

Turns(ps) == {t \in Records(ps) : Wanted(<<t.s, t.n>>)}

(* compareTurnsNewestFirst *)
Newer(t, u) ==
    \/ t.at > u.at
    \/ t.at = u.at /\ Rank(t.s) < Rank(u.s)
    \/ t.at = u.at /\ t.s = u.s /\ t.n > u.n

Sorted(S) == [i \in 1..Cardinality(S) |->
                 CHOOSE t \in S : Cardinality({u \in S : Newer(u, t)}) = i - 1]

Finish(result) == [pg EXCEPT !.pc = "done", !.result = result]

-----------------------------------------------------------------------------
(* The context *)

(* The newest turns of each feed in scope, filtered before they are counted *)
Newest(s) ==
    LET all == {t \in Turns(pg.pinned) : t.s = s}
    IN {t \in all : Cardinality({u \in all : u.n > t.n}) < Window}

(* Mutant: A window that is full is taken for all there is. *)
WindowNever == FALSE

WindowLimited == \E t \in Turns(pg.pinned) : t \notin Newest(t.s)

(* projectContext: the newest first, as many as fit *)
Projections(S) == {SubSeq(Sorted(S), 1, n) : n \in 0..Cardinality(S)}

(* history_coverage: complete only if nothing was left out; what did not fit
   is counted. *)
ShowContext ==
    /\ pg.kind = "context" /\ pg.pc = "read" /\ pg.todo = {}
    /\ LET all == UNION {Newest(s) : s \in Sessions} IN
       \E items \in Projections(all) :
          pg' = [Finish(IF pg.short \/ WindowLimited
                           \/ \E s \in Sessions : pg.pinned[s] # None /\ pg.pinned[s].part # None
                        THEN "limited" ELSE "complete")
                 EXCEPT !.items = items, !.total = Cardinality(all) - Len(items)]
    /\ UNCHANGED faults /\ Paging

-----------------------------------------------------------------------------
(* A list *)

(* readPinnedTurns: the feeds that are pinned, in order, as far as they went. *)
BeginPage ==
    /\ pg.kind = "list"
    /\ pg.pc = "cursor" \/ (pg.pc = "read" /\ pg.todo = {})
    /\ pg' = [pg EXCEPT !.pc = "pin", !.seen = [s \in Sessions |-> None],
                        !.todo = {s \in Sessions : pg.pinned[s] # None}]
    /\ UNCHANGED faults /\ Paging

(* Mutant: The whole feed is read. *)
WholeFile(s, e) == Whole(s)

(* readFeedAtEndpoint: the bytes up to the end that is pinned *)
Prefix(s, e) ==
    [id |-> file[s].id, lines |-> SubSeq(file[s].lines, 1, Len(e.lines)),
     part |-> IF e.part = None THEN None
              ELSE IF Len(file[s].lines) > Len(e.lines)
              THEN file[s].lines[Len(e.lines) + 1] ELSE file[s].tail]

Truncated(s, e) ==
    \/ feed[s] = Gone \/ Len(file[s].lines) < Len(e.lines)
    \/ /\ e.part # None /\ file[s].tail = None
       /\ Len(file[s].lines) = Len(e.lines)

ReadPinned ==
    /\ pg.kind = "list" /\ pg.pc = "pin" /\ pg.todo # {}
    /\ LET s == First(pg.todo) IN
       pg' = IF Truncated(s, pg.pinned[s]) THEN Finish("changed")
             ELSE [pg EXCEPT !.todo = @ \ {s}, !.seen[s] = Prefix(s, pg.pinned[s])]
    /\ UNCHANGED faults /\ Paging

(* Mutant: The time alone says where a page ended. *)
SameTime(t, u) == t.at = u.at

SameKey(t, u) == t.s = u.s /\ t.n = u.n /\ t.at = u.at

(* projectTurnListPage: at least one item, and all that are left if they fit *)
ListPage ==
    /\ pg.kind = "list" /\ pg.pc = "pin" /\ pg.todo = {}
    /\ LET all == Sorted(Turns(pg.seen))
           ends == {i \in DOMAIN all : SameKey(all[i], pg.after)}
           start == IF pg.after = None THEN 0 ELSE Min(ends)
           left == Len(all) - start
       IN IF pg.seen # pg.pinned \/ (pg.after # None /\ (Len(all) # pg.total \/ ends = {}))
          THEN pg' = Finish("changed")
          ELSE \E shown \in (IF left = 0 THEN {0} ELSE 1..left) :
                 LET page == SubSeq(all, start + 1, start + shown) IN
                 pg' = IF shown = left THEN [Finish("complete") EXCEPT !.items = @ \o page]
                       ELSE [pg EXCEPT !.pc = "cursor", !.items = @ \o page,
                                       !.after = Last(page), !.total = Len(all)]
    /\ UNCHANGED faults /\ Paging

-----------------------------------------------------------------------------
(* A record *)

(* Mutant: What could not be searched has nothing. *)
AbsentAnyway == "absent"

(* A search that left out a feed does not say that there is no such turn. *)
NotFound == IF pg.short THEN "incomplete" ELSE "absent"

(* pageSelectedText: at least one character, and the rest of them if they fit *)
Page(v) ==
    \E end \in pg.at + 1 .. Length :
        LET piece == [v |-> v, from |-> pg.at, to |-> end] IN
        pg' = IF end = Length
              THEN [Finish("complete") EXCEPT !.items = Append(@, piece)]
              ELSE [pg EXCEPT !.pc = "cursor", !.at = end, !.items = Append(@, piece),
                              !.after = v]

FirstRecordPage ==
    /\ pg.kind = "show" /\ pg.pc = "read" /\ pg.todo = {}
    /\ LET found == {t \in Records(pg.pinned) : <<t.s, t.n>> = pg.turn} IN
       IF found = {} THEN pg' = Finish(NotFound)
       ELSE IF ~Wanted(pg.turn) THEN pg' = Finish("absent")
       ELSE \E t \in found : Page(t.v)
    /\ UNCHANGED faults /\ Paging

(* Mutant: Whatever is at the place is paged on. *)
AnyRecord(s, n) == feed[s] # Gone /\ Len(file[s].lines) >= n

(* pinnedTurn: the record is still at its place and still the same; what is
   behind it does not matter. *)
StillThere(s, n) ==
    feed[s] # Gone /\ Len(file[s].lines) >= n /\ file[s].lines[n] = pg.after

NextRecordPage ==
    /\ pg.kind \in {"show", "evidence"} /\ pg.pc = "cursor"
    /\ LET s == pg.turn[1] n == pg.turn[2] IN
       IF StillThere(s, n) THEN Page(file[s].lines[n]) ELSE pg' = Finish("changed")
    /\ UNCHANGED faults /\ Paging

(* readEvidenceRecordPage, readProjectEvidence: one file, read whole; a page
   of actions after the first is found as the first was. *)
EvidencePage ==
    /\ \/ pg.kind = "evidence" /\ pg.pc = "read"
       \/ pg.kind = "actions" /\ pg.pc \in {"read", "cursor"}
    /\ LET s == pg.turn[1] n == pg.turn[2] IN
       IF feed[s] # Gone /\ ~Fits(s) THEN pg' = Finish("failed")
       ELSE IF Len(file[s].lines) >= n /\ Wanted(pg.turn) THEN Page(file[s].lines[n])
       ELSE pg' = Finish("absent")
    /\ UNCHANGED faults /\ Paging

-----------------------------------------------------------------------------
(* The health of the store *)

Stages == <<"sessions", "active", "feed", "nudge">>

There(stage) ==
    CASE stage = "sessions" -> {s \in Sessions : member[s] # Gone}
      [] stage = "active" -> {a \in Actors : lease[a] # Gone}
      [] stage = "feed" -> {s \in Sessions : feed[s] # Gone}
      [] stage = "nudge" -> {s \in Sessions : cursor[s] # Gone}

(* A directory is listed when it is its turn. *)
ListStage ==
    /\ pg.kind = "health" /\ pg.pc = "list"
    /\ pg' = IF pg.stage = Len(Stages)
             THEN Finish(IF pg.short THEN "degraded" ELSE "ok")
             ELSE [pg EXCEPT !.stage = @ + 1, !.pc = "read",
                             !.todo = There(Stages[pg.stage + 1])]
    /\ UNCHANGED faults /\ Paging

(* Mutant: A partial line is nothing to speak of. *)
Unnoticed(s) == FALSE

Partial(s) == file[s].tail # None

(* A file that is gone since it was listed, that is too large or cannot be
   read has the whole store refused. *)
ReadHealthFile ==
    /\ pg.kind = "health" /\ pg.pc = "read"
    /\ \E x \in pg.todo :
       LET stage == Stages[pg.stage]
           fits == x \in There(stage) /\ (stage = "feed" => Fits(x))
       IN \E fails \in BOOLEAN :
            /\ fails => fits /\ faults < MaxFaults /\ stage # "active" /\ Does("fault", x)
            /\ faults' = IF fails THEN faults + 1 ELSE faults
            /\ pg' = IF ~fits \/ fails THEN [Finish("refused") EXCEPT !.total = x]
                     ELSE IF stage # "feed" THEN [pg EXCEPT !.todo = @ \ {x}]
                     ELSE [pg EXCEPT !.todo = @ \ {x}, !.pinned[x] = Whole(x),
                                     !.short = @ \/ Partial(x)]
    /\ Paging

EndStage ==
    /\ pg.kind = "health" /\ pg.pc = "read" /\ pg.todo = {}
    /\ pg' = [pg EXCEPT !.pc = "list"]
    /\ UNCHANGED faults /\ Paging

-----------------------------------------------------------------------------
Pager ==
    \/ \E limit \in 1..MaxLines :
          \/ \E kind \in {"list", "context", "health"}, s \in Sessions :
                Does(kind, s) /\ Start(kind, <<None, None>>, limit)
          \/ \E kind \in {"show", "evidence", "actions"},
                s \in Sessions, n \in 1..MaxTurns :
                Does(kind, s) /\ Start(kind, <<s, n>>, limit)
    \/ ReadFeed \/ ShowContext
    \/ BeginPage \/ ReadPinned \/ ListPage
    \/ FirstRecordPage \/ NextRecordPage \/ EvidencePage
    \/ ListStage \/ ReadHealthFile \/ EndStage

PagesInit ==
    /\ Init
    /\ file = [s \in Sessions |-> [id |-> 0, lines |-> <<>>, tail |-> None]]
    /\ stamp = [s \in Sessions |-> <<>>]
    /\ pg = NoPages

PagesNext ==
    \/ StoreStep
    \/ \E s \in Sessions : WritePart(s) \/ HealTail(s)
    \/ Pager

PagesSpec == PagesInit /\ [][PagesNext]_allVars /\ Fairness

-----------------------------------------------------------------------------
(* Properties *)

(* What is called complete is whole: a list or a context that leaves nothing
   out, a record that is said not to exist, and a store that is said to be
   healthy, against all that was published when the command began and was not
   removed since, although the files are read one after the other, and some
   are too large or end in part of a line. *)
WholeWhenComplete ==
    pg.kind # "none" /\ pg.pc = "done" =>
        LET had == {t \in pg.had : Wanted(t)}
            shown == {<<pg.items[i].s, pg.items[i].n>> : i \in DOMAIN pg.items}
        IN /\ pg.kind = "list" /\ pg.result = "complete" /\ ~pg.short => had \subseteq shown
           /\ pg.kind = "context" /\ pg.result = "complete" =>
                 Cardinality(had \ shown) <= pg.total
           /\ pg.result = "absent" => pg.turn \notin had
           /\ pg.result = "ok" => \A t \in pg.had :
                 /\ pg.pinned[t[1]] # None /\ pg.pinned[t[1]].part = None
                 /\ t[2] <= Len(pg.pinned[t[1]].lines)

(* The pages of one traversal are pages of one thing: a list's items are the
   first of what its first page pinned, in order and none twice, and a record's
   pieces join and are of one version, whatever is written in between.  And a
   traversal is only refused when what it goes by was removed or healed:
   "growth elsewhere is harmless".  The actions of evidence that is written
   again in between are excepted; the health of a store is also refused for a
   file that is too large, or cannot be read. *)
PagesAgree ==
    pg.kind # "none" =>
        /\ pg.kind = "list" => IsPrefix(pg.items, Sorted(Turns(pg.pinned)))
        /\ pg.kind \in {"show", "evidence", "actions"} =>
              \A i \in DOMAIN pg.items :
                  /\ pg.items[i].from = IF i = 1 THEN 0 ELSE pg.items[i - 1].to
                  /\ pg.items[i].v = pg.items[1].v \/ (pg.kind = "actions" /\ pg.touched)
        /\ pg.result = "changed" => pg.touched
        /\ pg.result = "refused" =>
              pg.touched \/ faults > 0 \/ ~Fits(pg.total)
=============================================================================
