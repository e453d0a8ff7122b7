------------------------------- MODULE Watch -------------------------------
(***************************************************************************)
(* The observers of the derived store: `barbaro watch` (src/watch/         *)
(* engine.ts and the loop of src/cli.ts) and `barbaro await` (src/watch/   *)
(* await.ts).                                                              *)
(*                                                                         *)
(* A watcher polls.  A poll scans participation records, feeds, incident   *)
(* markers and leases one after the other, each against what the process   *)
(* remembers of earlier scans, and prints what it collected if no scan     *)
(* failed.  An await looks again and again whether its session has unread  *)
(* turns, until it has, its time is over or looking keeps failing.         *)
(* Neither takes a lock: sessions publish turns, join, renew leases and    *)
(* record incidents between any two reads.                                 *)
(*                                                                         *)
(* A feed is the prefix of its session's turns that is published; a turn   *)
(* is its workstream and where it came from; a path is claimed or not.     *)
(* Projections, their byte budgets and the printed form are left out.      *)
(***************************************************************************)
EXTENDS Naturals, Sequences, FiniteSets

CONSTANTS
    Sessions, Workstreams, Incidents,
    Claude,         \* the sessions of Claude Code; the others are Codex's
    Home,           \* the workstream of a session that joined before
    Scenes,         \* what the sessions do and who observes: see Scene
    MaxErrors,      \* WATCH_MAX_CONSECUTIVE_ERRORS
    TTL,            \* of a lease
    Timeout,        \* of an await
    MaxRetries,     \* MAX_MEMBERSHIP_RETRIES
    MaxTime, MaxTurns, MaxFaults, MaxEpoch,      \* bounds
    NoScope,        \* --all-workstreams; no workstream
    Gone            \* no such file

Actors == Sessions \X {"main", "child"}

(* A scene: the sessions that watch and the scope of their watch, the sessions
   that may await, and which operations of whom take place. *)
Scene == [watchers : SUBSET Sessions, scope : Workstreams \union {NoScope},
          awaits : SUBSET Sessions,
          does : SUBSET (({"join", "turn", "rebuild", "read", "answer", "fault",
                           "tear", "list", "context", "show", "evidence",
                           "actions", "health"} \X Sessions)
                         \union ({"incident"} \X Incidents)
                         \union ({"lease", "idle", "claim", "widen"} \X Actors))]

ASSUME WatchAssumption ==
    /\ IsFiniteSet(Sessions) /\ Claude \subseteq Sessions
    /\ {MaxErrors, TTL, Timeout, MaxTime, MaxTurns, MaxFaults,
        MaxRetries, MaxEpoch} \subseteq Nat
    /\ Home \in [Sessions -> Workstreams] /\ Scenes \subseteq Scene
    /\ MaxErrors > 0 /\ NoScope \notin Workstreams
    /\ Gone \notin Workstreams \union Nat \union {NoScope}

VARIABLES
    scene,
    now,        \* the clock
    member,     \* participation: a session's workstream, with when it joined
    turns,      \* the turns each session completed
    feed,       \* how many of them its feed holds, or Gone
    marker,     \* each incident marker: Gone, "empty", or the workstream it names
    lease,      \* the leases of the actors, or Gone
    faults,     \* reads that failed
    eng,        \* the memory of each watcher and of its poll in progress
    out,        \* what each watcher printed
    ghost,      \* for each watcher: repeated, lost, and overlaps told
    cursor,     \* the awaiting session's read cursor: its epoch and positions
    aw          \* the await in progress

store == <<now, member, turns, feed, marker, lease, cursor>>
vars == <<scene, store, faults, eng, out, ghost, aw>>

Does(op, who) == <<op, who>> \in scene.does

-----------------------------------------------------------------------------
(* Turns, and the echoes among them *)

(* Where a turn came from: the provider's stamp, absent for Codex, and
   whether its request quotes a watcher's wake-up. *)
Turn == [ws : Workstreams, stamp : {"human", "task", "none"}, wake : BOOLEAN]

IsStampedEcho(t) == t.stamp = "task"
IsEchoTurn(t) == IF t.stamp # "none" THEN t.stamp = "task" ELSE t.wake

(* A turn a person asked for, and the turn that answers a wake-up. *)
HumanTurn(s) ==
    [ws |-> member[s].ws, stamp |-> IF s \in Claude THEN "human" ELSE "none",
     wake |-> s \in Claude]
AnswerTurn(s) ==
    [ws |-> member[s].ws, stamp |-> IF s \in Claude THEN "task" ELSE "none",
     wake |-> TRUE]

Published(s) == IF feed[s] = Gone THEN 0 ELSE feed[s]

-----------------------------------------------------------------------------
(* Claims that overlap across workstreams *)

Present(l, t) == l # Gone /\ l.exp > t

(* The claims of the leases ls at time t: one path, claimed or not. *)
Claims(ls, t) == {a \in Actors : /\ Present(ls[a], t) /\ ls[a].state # "idle"
                                 /\ ls[a].claim}

(* Renewal and expiry do not make another overlap; an unknown scope does. *)
Identity(ls, a, b) == {<<a, ls[a].unknown>>, <<b, ls[b].unknown>>}

Overlaps(ls, t) ==
    {Identity(ls, p[1], p[2]) :
        p \in {q \in Claims(ls, t) \X Claims(ls, t) :
                 /\ q[1][1] # q[2][1] /\ ls[q[1]].ws # ls[q[2]].ws
                 /\ scene.scope \in {NoScope, ls[q[1]].ws, ls[q[2]].ws}}}

-----------------------------------------------------------------------------
(* What happens in the store *)

Unobserved == UNCHANGED <<scene, faults, eng, out, aw>>

(* Of the overlaps that were told, those that lasted since; for DeliveredOnce. *)
Lasting(ls, t) ==
    ghost' = [w \in Sessions |-> [ghost[w] EXCEPT !.told = @ \intersect Overlaps(ls, t)]]

(* The clock is only looked at by leases and awaits. *)
Timed == scene.awaits # {} \/ \E a \in Actors : Does("lease", a)

Tick ==
    /\ now < MaxTime /\ Timed
    /\ now' = now + 1
    /\ Lasting(lease, now')
    /\ Unobserved /\ UNCHANGED <<member, turns, feed, marker, lease, cursor>>

(* A session joins, or moves to another workstream. *)
Join(s, ws) ==
    /\ Does("join", s)
    /\ member[s] # Gone => member[s].ws # ws /\ member[s].epoch < MaxEpoch
    /\ member' = [member EXCEPT ![s] =
         [ws |-> ws, epoch |-> IF @ = Gone THEN 1 ELSE @.epoch + 1,
          base |-> [f \in Sessions |-> Published(f)]]]
    /\ Unobserved
    /\ UNCHANGED <<now, turns, feed, marker, lease, cursor, ghost>>

(* A turn is completed and its record appended. *)
Publish(s) ==
    /\ Does("turn", s) /\ member[s] # Gone
    /\ Len(turns[s]) < MaxTurns
    /\ feed[s] \in {Gone, Len(turns[s])}
    /\ feed[s] = Gone => turns[s] = <<>>
    /\ turns' = [turns EXCEPT ![s] = Append(@, HumanTurn(s))]
    /\ feed' = [feed EXCEPT ![s] = Len(turns[s]) + 1]
    /\ Unobserved
    /\ UNCHANGED <<now, member, marker, lease, cursor, ghost>>

(* The feed is deleted and written again by an ingest that starts over. *)
DeleteFeed(s) ==
    /\ Does("rebuild", s) /\ feed[s] = Len(turns[s]) /\ feed[s] # 0
    /\ faults < MaxFaults
    /\ faults' = faults + 1
    /\ feed' = [feed EXCEPT ![s] = Gone]
    /\ UNCHANGED <<scene, eng, out, aw, now, member, turns, marker, lease,
                   cursor, ghost>>

Rebuild(s) ==
    /\ Does("rebuild", s) /\ Published(s) < Len(turns[s])
    /\ feed' = [feed EXCEPT ![s] = Published(s) + 1]
    /\ Unobserved
    /\ UNCHANGED <<now, member, turns, marker, lease, cursor, ghost>>

(* recordIncident: the marker is created exclusively and then written, and
   names the workstream of the first that met the condition. *)
CreateMarker(i) ==
    /\ Does("incident", i) /\ marker[i] = Gone
    /\ marker' = [marker EXCEPT ![i] = "empty"]
    /\ Unobserved
    /\ UNCHANGED <<now, member, turns, feed, lease, cursor, ghost>>

WriteMarker(i, ws) ==
    /\ marker[i] = "empty"
    /\ marker' = [marker EXCEPT ![i] = ws]
    /\ Unobserved
    /\ UNCHANGED <<now, member, turns, feed, lease, cursor, ghost>>

(* A hook renews, idles or removes the lease of its actor. *)
PutLease(a, l) ==
    /\ Does("lease", a) /\ member[a[1]] # Gone
    /\ lease' = [lease EXCEPT ![a] = l]
    /\ Lasting(lease', now)
    /\ Unobserved /\ UNCHANGED <<now, member, turns, feed, marker, cursor>>

Renew(a, claim, unknown) ==
    /\ claim => Does("claim", a)
    /\ unknown => claim /\ Does("widen", a)
    /\ PutLease(a, [state |-> "working", rev |-> now, exp |-> now + TTL,
                    ws |-> member[a[1]].ws, claim |-> claim, unknown |-> unknown])

GoIdle(a) ==
    /\ Does("idle", a) /\ lease[a] # Gone /\ lease[a].state # "idle"
    /\ PutLease(a, [state |-> "idle", rev |-> now, exp |-> now + TTL,
                    ws |-> lease[a].ws, claim |-> FALSE, unknown |-> FALSE])

Reap(a) ==
    /\ lease[a] # Gone /\ lease[a].state = "idle"
    /\ ~Present(lease[a], now)
    /\ PutLease(a, Gone)

(* The hooks of a session keep its cursor: they start it again in a new
   membership and move it over what the model read. *)
ResetCursor(s) ==
    /\ Does("read", s) /\ member[s] # Gone
    /\ cursor[s] # Gone => cursor[s].epoch # member[s].epoch
    /\ cursor' = [cursor EXCEPT ![s] = [epoch |-> member[s].epoch,
                                        pos |-> member[s].base]]
    /\ Unobserved
    /\ UNCHANGED <<now, member, turns, feed, marker, lease, ghost>>

ReadTurns(s) ==
    /\ Does("read", s) /\ member[s] # Gone /\ cursor[s] # Gone
    /\ cursor[s].epoch = member[s].epoch
    /\ cursor' = [cursor EXCEPT ![s].pos = [f \in Sessions |-> Published(f)]]
    /\ Unobserved
    /\ UNCHANGED <<now, member, turns, feed, marker, lease, ghost>>

(* The Monitor of a watching session wakes it with what was printed; its
   answer is a turn of its own. *)
Answer(w) ==
    /\ Does("answer", w) /\ ghost[w].woken /\ member[w] # Gone
    /\ Len(turns[w]) < MaxTurns /\ feed[w] \in {Gone, Len(turns[w])}
    /\ feed[w] = Gone => turns[w] = <<>>
    /\ turns' = [turns EXCEPT ![w] = Append(@, AnswerTurn(w))]
    /\ feed' = [feed EXCEPT ![w] = Len(turns[w]) + 1]
    /\ ghost' = [ghost EXCEPT ![w].woken = FALSE]
    /\ Unobserved /\ UNCHANGED <<now, member, marker, lease, cursor>>

-----------------------------------------------------------------------------
(* The watcher *)

InScope(ws) == scene.scope \in {NoScope, ws}

Observing(w) == UNCHANGED <<scene, store, faults, aw>>

(* A poll, and the baseline scan, start with what the clock says. *)
StartPoll(w) ==
    /\ w \in scene.watchers /\ eng[w].pc \in {"start", "sleep"}
    /\ eng' = [eng EXCEPT ![w].pc = "joins", ![w].at = now]
    /\ ghost' = IF eng[w].pc = "sleep" THEN ghost
                ELSE [ghost EXCEPT ![w].armed = now]
    /\ UNCHANGED out /\ Observing(w)

(* What is found joins the events of the poll; the baseline has no events. *)
Collect(w, found) == IF eng[w].primed THEN eng[w].sink \union found ELSE {}

Joined == {<<s, member[s].ws>> : s \in {t \in Sessions : member[t] # Gone}}

Listed(w) == {s \in Sessions \ {w} : feed[s] # Gone}

ScanJoins(w) ==
    /\ eng[w].pc = "joins"
    /\ LET new == Joined \ eng[w].known
       IN eng' = [eng EXCEPT ![w].pc = "feeds", ![w].known = @ \union new,
                    ![w].listed = Listed(w), ![w].left = Listed(w),
                    ![w].sink = Collect(w, {<<"join", j[1], j[2]>> :
                        j \in {k \in new : k[1] # w /\ InScope(k[2])}})]
    /\ ghost' = IF eng[w].primed THEN ghost
                ELSE [ghost EXCEPT ![w].base = @ \union
                        {<<"join", j[1], j[2]>> : j \in Joined}]
    /\ UNCHANGED out /\ Observing(w)

NewsAfterNext(w, s, from, to) ==
    {<<"turn", s, n>> : n \in {m \in from + 2 .. to :
        ~IsEchoTurn(turns[s][m]) /\ InScope(turns[s][m].ws)}}

News(w, s, from, to) ==
    {<<"turn", s, n>> : n \in {m \in from + 1 .. to :
        ~IsEchoTurn(turns[s][m]) /\ InScope(turns[s][m].ws)}}

(* consumeFeed: the complete lines after the cursor.  A feed that vanished
   since it was listed is skipped; one shorter than its cursor was rebuilt and
   its lines become known without being news. *)
ConsumeFeed(w, s) ==
    /\ eng[w].pc = "feeds" /\ s \in eng[w].left
    /\ LET from == eng[w].cur[s]
           rebuilt == feed[s] # Gone /\ feed[s] < from
       IN /\ eng' = [eng EXCEPT ![w].left = @ \ {s},
                ![w].cur[s] = IF feed[s] = Gone THEN @ ELSE feed[s],
                ![w].sink = IF feed[s] = Gone \/ rebuilt THEN @
                            ELSE Collect(w, News(w, s, from, feed[s]))]
          /\ ghost' = IF rebuilt THEN [ghost EXCEPT ![w].rebuilt = @ \union {s}]
                      ELSE IF eng[w].primed \/ feed[s] = Gone THEN ghost
                      ELSE [ghost EXCEPT ![w].base = @ \union
                              {<<"turn", s, n>> : n \in 1..feed[s]}]
    /\ UNCHANGED out /\ Observing(w)

(* The cursors of feeds that were not listed are forgotten. *)
EndFeeds(w) ==
    /\ eng[w].pc = "feeds" /\ eng[w].left = {}
    /\ LET dropped == {s \in Sessions : eng[w].cur[s] > 0} \ eng[w].listed
       IN /\ eng' = [eng EXCEPT ![w].pc = "incidents", ![w].listed = {},
                ![w].cur = [s \in Sessions |->
                              IF s \in dropped THEN 0 ELSE @[s]]]
          /\ ghost' = [ghost EXCEPT ![w].rebuilt = @ \union dropped]
    /\ UNCHANGED out /\ Observing(w)

(* listIncidents leaves out markers it cannot parse. *)
ScanIncidents(w) ==
    /\ eng[w].pc = "incidents"
    /\ LET complete == {i \in Incidents : marker[i] \notin {Gone, "empty"}}
           new == complete \ eng[w].seen
           left == {a \in Actors : lease[a] # Gone}
       IN /\ eng' = [eng EXCEPT ![w].pc = "leases", ![w].seen = @ \union new,
                ![w].left = left, ![w].snap = [a \in Actors |-> Gone],
                ![w].sink = Collect(w, {<<"incident", i>> : i \in
                    {j \in new : marker[j] = NoScope \/ InScope(marker[j])}})]
          /\ ghost' = IF eng[w].primed THEN ghost
                      ELSE [ghost EXCEPT ![w].base = @ \union
                              {<<"incident", i>> : i \in complete}]
    /\ UNCHANGED out /\ Observing(w)

(* listSnapshots reads one lease file after the other. *)
ReadLease(w, a) ==
    /\ eng[w].pc = "leases" /\ a \in eng[w].left
    /\ eng' = [eng EXCEPT ![w].left = @ \ {a}, ![w].snap[a] = lease[a]]
    /\ UNCHANGED <<out, ghost>> /\ Observing(w)

(* A lapse is reported once per revision, if the lease was seen before and
   its work is nobody's any more: a child's only with its session. *)
ReportedNever(w, a) == FALSE

Reported(w, a) ==
    LET l == eng[w].snap[a]
        p == eng[w].leases[a]
    IN p # Gone /\ p.rev = l.rev /\ p.reported

Lapsed(w, a) == /\ a[1] # w /\ eng[w].snap[a] # Gone
                /\ eng[w].at > eng[w].snap[a].exp

WorthTelling(w, a) ==
    LET l == eng[w].snap[a]
    IN /\ Lapsed(w, a) /\ ~Reported(w, a)
       /\ eng[w].leases[a] # Gone /\ l.state # "idle"
       /\ a[2] = "main" \/ ~Present(eng[w].snap[<<a[1], "main">>], eng[w].at)
       /\ InScope(l.ws)

(* The last scan of a poll; its events are printed. *)
JudgeLeases(w) ==
    /\ eng[w].pc = "leases" /\ eng[w].left = {}
    /\ LET e == eng[w]
           found == Overlaps(e.snap, e.at)
           stale == {<<"stale", a, e.snap[a].rev>> :
                        a \in {b \in Actors : WorthTelling(w, b)}}
           events == Collect(w, stale)
           clash == IF e.primed THEN found \ e.conf ELSE {}
       IN /\ eng' = [eng EXCEPT ![w].pc = "sleep", ![w].primed = TRUE,
                ![w].sink = {}, ![w].errors = 0, ![w].conf = found,
                ![w].snap = [a \in Actors |-> Gone],
                ![w].leases = [a \in Actors |->
                    IF e.snap[a] = Gone \/ a[1] = w THEN Gone
                    ELSE [rev |-> e.snap[a].rev,
                          reported |-> Lapsed(w, a) \/ Reported(w, a)]]]
          /\ out' = [out EXCEPT ![w] = @ \union events]
          /\ ghost' = [ghost EXCEPT
                ![w].again = @ \union (events \intersect out[w])
                               \union (clash \intersect ghost[w].told),
                ![w].told = (@ \union found) \intersect Overlaps(lease, now),
                ![w].woken = @ \/ events # {} \/ clash # {}]
    /\ Observing(w)

(* A scan throws: the events of the poll are gone with it, and the error is
   printed; too many in a row, or one in the baseline, end the watch. *)
FailPoll(w) ==
    /\ eng[w].pc \in {"joins", "feeds", "incidents", "leases"}
    /\ Does("fault", w) /\ faults < MaxFaults /\ faults' = faults + 1
    /\ LET over == ~eng[w].primed \/ eng[w].errors + 1 >= MaxErrors
       IN eng' = [eng EXCEPT ![w].pc = IF over THEN "over" ELSE "sleep",
                    ![w].errors = @ + 1, ![w].sink = {}, ![w].left = {},
                    ![w].listed = {}, ![w].snap = [a \in Actors |-> Gone]]
    /\ ghost' = [ghost EXCEPT ![w].lost = @ \union eng[w].sink]
    /\ UNCHANGED <<scene, store, out, aw>>

Poll(w) == \/ StartPoll(w) \/ ScanJoins(w) \/ EndFeeds(w)
           \/ \E s \in Sessions : ConsumeFeed(w, s)
           \/ ScanIncidents(w)
           \/ \E a \in Actors : ReadLease(w, a)
           \/ JudgeLeases(w)

-----------------------------------------------------------------------------
(* The await of session aw.session *)

NoAwait == [pc |-> "off"]

(* Without what the last scan found *)
Forget(x) == [x EXCEPT !.before = 0, !.seen = Gone, !.bad = {}, !.unread = FALSE,
                       !.fact = <<0, FALSE>>]

Awaiting == UNCHANGED <<scene, store, faults, eng, out, ghost>>

(* resolveAwaitCursor binds the await to the session's membership of now. *)
StartAwait(s) ==
    /\ aw = NoAwait /\ s \in scene.awaits /\ member[s] # Gone
    /\ now + Timeout <= MaxTime
    /\ aw' = [pc |-> "bound", session |-> s, bound |-> member[s].epoch,
              deadline |-> now + Timeout, errors |-> 0, tries |-> 0,
              before |-> 0, seen |-> Gone, bad |-> {}, unread |-> FALSE,
              fact |-> <<0, FALSE>>, ready |-> FALSE, result |-> "none"]
    /\ Awaiting

(* The cursor the scan counts from; one of another membership is not used. *)
Position(s, c) ==
    IF c # Gone /\ c.epoch = member[s].epoch THEN c.pos ELSE member[s].base

Unread(s, c, bad) ==
    \E f \in Sessions \ ({s} \union bad) :
        \E n \in Position(s, c)[f] + 1 .. Published(f) :
            turns[f][n].ws = member[s].ws

End(result) == [aw EXCEPT !.pc = "done", !.result = result]

(* inspectBoundCursor: a cursor of another membership ends the await. *)
CheckBound ==
    /\ aw.pc = "bound"
    /\ LET c == cursor[aw.session]
       IN aw' = IF c # Gone /\ c.epoch # aw.bound THEN End("scope")
                ELSE [aw EXCEPT !.pc = "epoch", !.tries = 0]
    /\ Awaiting

(* inspectUnreadPeerTurns: the scan counts for the membership and cursor it
   started from only if both are still the same afterwards. *)
ReadEpoch ==
    /\ aw.pc = "epoch"
    /\ aw' = [aw EXCEPT !.pc = "scan", !.before = member[aw.session].epoch,
                        !.seen = cursor[aw.session]]
    /\ Awaiting

ScanUnread(bad) ==
    /\ aw.pc = "scan" /\ aw.session \notin bad
    /\ aw' = [aw EXCEPT !.pc = "check", !.bad = bad,
                        !.unread = Unread(aw.session, aw.seen, bad),
                        !.fact = <<member[aw.session].epoch,
                            Unread(aw.session, cursor[aw.session], {})>>]
    /\ Awaiting

(* An attempt that failed: too many in a row are the await's failure. *)
FailedUncounted == Forget([aw EXCEPT !.pc = "time", !.ready = FALSE])

Failed ==
    IF aw.errors + 1 >= MaxErrors THEN End("failed")
    ELSE Forget([aw EXCEPT !.pc = "time", !.errors = @ + 1, !.ready = FALSE])

AnyCursor == TRUE
SameLogicalCursor == cursor[aw.session] = aw.seen

CheckEpoch ==
    /\ aw.pc = "check"
    /\ aw' = IF member[aw.session].epoch = aw.before /\ SameLogicalCursor
             THEN IF aw.before # aw.bound THEN End("scope")
                  ELSE IF aw.unread THEN End("unread")
                  ELSE [aw EXCEPT !.pc = "time", !.errors = 0, !.ready = TRUE]
             ELSE IF aw.tries + 1 < MaxRetries
             THEN [aw EXCEPT !.pc = "epoch", !.tries = @ + 1]
             ELSE Failed
    /\ Awaiting

FailScan ==
    /\ aw.pc \in {"bound", "epoch", "scan", "check"}
    /\ aw' = Failed
    /\ Awaiting

(* After an attempt.  Only a scan that was ready makes the end of the time a
   timeout; otherwise it is made again without a pause. *)
CheckTime ==
    /\ aw.pc = "time"
    /\ aw' = IF now < aw.deadline THEN Forget([aw EXCEPT !.pc = "sleep"])
             ELSE IF ~aw.ready THEN [aw EXCEPT !.pc = "bound"]
             ELSE IF aw.bad # {} THEN End("incomplete") ELSE End("timeout")
    /\ Awaiting

AwaitWakes ==
    /\ aw.pc = "sleep"
    /\ aw' = [aw EXCEPT !.pc = "bound"]
    /\ Awaiting

Await == \/ CheckBound \/ ReadEpoch \/ \E bad \in SUBSET Sessions : ScanUnread(bad)
         \/ CheckEpoch \/ CheckTime \/ AwaitWakes

-----------------------------------------------------------------------------
Init ==
    /\ scene \in Scenes
    /\ now = 0
    /\ member = [s \in Sessions |->
         IF Does("join", s) THEN Gone
         ELSE [ws |-> Home[s], epoch |-> 1, base |-> [f \in Sessions |-> 0]]]
    /\ turns = [s \in Sessions |-> <<>>]
    /\ feed = [s \in Sessions |-> Gone]
    /\ marker = [i \in Incidents |-> Gone]
    /\ lease = [a \in Actors |-> Gone]
    /\ faults = 0
    /\ eng = [w \in Sessions |->
         [pc |-> "start", primed |-> FALSE, at |-> 0, errors |-> 0,
          known |-> {}, cur |-> [s \in Sessions |-> 0], seen |-> {},
          leases |-> [a \in Actors |-> Gone], conf |-> {}, sink |-> {},
          listed |-> {}, left |-> {}, snap |-> [a \in Actors |-> Gone]]]
    /\ out = [w \in Sessions |-> {}]
    /\ ghost = [w \in Sessions |->
         [armed |-> 0, base |-> {}, lost |-> {}, again |-> {}, rebuilt |-> {},
          told |-> {}, woken |-> FALSE]]
    /\ cursor = [s \in Sessions |-> Gone]
    /\ aw = NoAwait

Store ==
    \/ Tick
    \/ \E s \in Sessions : \E ws \in Workstreams : Join(s, ws)
    \/ \E s \in Sessions : \/ Publish(s) \/ DeleteFeed(s) \/ Rebuild(s)
                           \/ ResetCursor(s) \/ ReadTurns(s) \/ Answer(s)
    \/ \E i \in Incidents : \/ CreateMarker(i)
                            \/ \E ws \in Workstreams \union {NoScope} :
                                    WriteMarker(i, ws)
    \/ \E a \in Actors : \/ \E claim, unknown \in BOOLEAN : Renew(a, claim, unknown)
                         \/ GoIdle(a) \/ Reap(a)

Next == \/ Store
        \/ \E w \in Sessions : Poll(w) \/ FailPoll(w)
        \/ \E s \in Sessions : StartAwait(s)
        \/ Await \/ FailScan

(* Time passes, and an await that sleeps wakes and goes on: its loop is a
   timer.  Nothing is assumed of the sessions or of what a scan meets. *)
Fairness == WF_vars(Tick) /\ WF_vars(Await)

Spec == Init /\ [][Next]_vars /\ Fairness

-----------------------------------------------------------------------------
Events ==
    ({"join"} \X Sessions \X Workstreams) \union ({"turn"} \X Sessions \X (1..MaxTurns))
    \union ({"incident"} \X Incidents) \union ({"stale"} \X Actors \X (0..MaxTime))

LeaseRecord == [state : {"working", "idle"}, rev : 0..MaxTime, exp : 0..MaxTime + TTL,
                ws : Workstreams, claim : BOOLEAN, unknown : BOOLEAN]

(* Every variable has its type; a watcher prints and remembers what exists. *)
TypeOK ==
    /\ scene \in Scenes /\ now \in 0..MaxTime /\ faults \in 0..MaxFaults
    /\ \A s \in Sessions : feed[s] # Gone => feed[s] <= Len(turns[s])
    /\ \A a \in Actors : lease[a] \in LeaseRecord \union {Gone}
    /\ \A w \in Sessions :
         /\ out[w] \subseteq Events /\ eng[w].sink \subseteq Events
         /\ eng[w].errors <= MaxErrors
         /\ eng[w].pc \in {"start", "sleep", "over", "joins", "feeds",
                           "incidents", "leases"}
         /\ \A s \in Sessions : eng[w].cur[s] <= Len(turns[s])
         /\ eng[w].cur[w] = 0

(* A watcher reports a thing once: a turn, a join, an incident and the lapse
   of one revision never again, an overlap only after it was gone, and nothing
   that was over before the watch was armed.  A feed whose file was rebuilt is
   excepted: engine.ts cannot tell its old turns from new ones. *)
DeliveredOnce ==
    \A w \in Sessions :
        /\ \A e \in ghost[w].again \union (out[w] \intersect ghost[w].base) :
              e \in {"turn"} \X ghost[w].rebuilt \X (1..MaxTurns)
        /\ \A e \in out[w] : e[1] = "stale" => e[3] + TTL >= ghost[w].armed

(* What a watcher's memory takes for known was part of the baseline, is printed
   or about to be, was lost with a failed poll, or is not news for it: its own
   and its echoes, and what is out of its scope. *)
NothingSkipped ==
    /\ TypeOK
    /\ \A w \in Sessions :
           LET told == ghost[w].base \union out[w] \union eng[w].sink \union ghost[w].lost
           IN /\ \A j \in eng[w].known : j[1] = w \/ ~InScope(j[2])
                                         \/ <<"join", j[1], j[2]>> \in told
              /\ \A i \in eng[w].seen : (marker[i] # NoScope /\ ~InScope(marker[i]))
                                        \/ <<"incident", i>> \in told
              /\ \A s \in Sessions \ ghost[w].rebuilt : \A n \in 1..eng[w].cur[s] :
                    \/ <<"turn", s, n>> \in told
                    \/ IsEchoTurn(turns[s][n]) \/ ~InScope(turns[s][n].ws)

(* Two sessions that watch each other do not answer each other's answers: a
   session answers no more often than a person, or the store, gave it cause. *)
ByPerson(t) == t.stamp = "human" \/ (t.stamp = "none" /\ ~t.wake)

AnswersBounded ==
    \A w \in scene.watchers :
        Cardinality({n \in DOMAIN turns[w] : ~ByPerson(turns[w][n])})
          <= Cardinality({e \in out[w] : e[1] = "turn" => ByPerson(turns[e[2]][e[3]])})

(* What an await reports was so: unread turns of the membership it was bound
   to, or a whole and ready scan, and the end of its time, without any. *)
AwaitTruth ==
    aw.pc = "done" =>
        /\ aw.result = "unread" => aw.fact = <<aw.bound, TRUE>>
        /\ aw.result = "timeout" => /\ aw.fact = <<aw.bound, FALSE>>
                                    /\ aw.bad = {} /\ now >= aw.deadline

(* Every await ends, though looking may fail every time. *)
AwaitEnds == aw.pc # "off" ~> aw.pc = "done"
=============================================================================
