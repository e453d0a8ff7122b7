---------------------------- MODULE NudgeCursor ----------------------------
(***************************************************************************)
(* The unread cursor of one joined session and the hook transactions that  *)
(* read and write it: src/nudge/unread.ts, read-invocation.ts,             *)
(* read-commit.ts, read-preview.ts and the file they share.                *)
(*                                                                         *)
(* Peers append turn records to their feeds.  The session's hooks, one     *)
(* process each, take the cursor's lock, scan the feeds and either         *)
(* announce the unread count (prompt and tool boundaries, Stop) or follow  *)
(* a read of the model through reservation, staged output and commit.      *)
(* Feeds, feed availability and the session's workstream membership are    *)
(* under other locks and change between any two steps of a transaction.    *)
(*                                                                         *)
(* A record is its workstream and end time; its text is a set of Units of  *)
(* each of the Fields that can acknowledge it: "record", or the one shown  *)
(* for attention, its response or else its request.  A cursor may be one   *)
(* that an earlier release wrote.  Hashes and byte limits are left out; so *)
(* are feeds whose content is replaced.                                    *)
(***************************************************************************)
EXTENDS Naturals, Sequences, FiniteSets

CONSTANTS
    Feeds,          \* the other sessions' feeds
    Workstreams,
    Tools,          \* native tool calls that may read the feeds
    Units,          \* what a record's text is made of
    Scenes,         \* the sessions that are looked at
    MaxCoverage,    \* MAX_READ_COVERAGE_RECORDS
    MaxPending,     \* MAX_PENDING_READS
    MaxRecords,     \* a feed's, in any scene
    NoEpoch, NoCursor, NoTxn, NoTool

HookOps == {"prompt", "tool", "stop", "reserve", "stage", "commit", "discard"}
Informational == {"prompt", "tool"}

(* What a session is made of: its provider, the feeds and workstreams around
   it, the units of a record, the hooks that fire, whether its tool calls all
   run one command, whether feeds become unavailable, the version of the cursor
   it may find, and the bounds of its clock, turns, revisions, claims and
   reservations. *)
SceneType ==
    [provider : {"codex", "claude"}, feeds : SUBSET Feeds,
     workstreams : SUBSET Workstreams, units : SUBSET Units \ {{}},
     hooks : SUBSET HookOps, same : BOOLEAN, vanish : BOOLEAN, version : 1..3,
     records : 0..MaxRecords, time : Nat \ {0}, turns : Nat \ {0}, revs : Nat,
     claims : Nat, nonces : Nat]

Fields == {"record", "attention"}

(* NudgeCursor, with the reads that are under way and the parts of records
   that were read: the fields of every version together. *)
Cursors ==
    LET Texts == SUBSET (Feeds \X Nat \X Fields \X Units) IN
    [ws : Workstreams, from : Nat, rev : Nat, pos : [Feeds -> Nat], v : 1..3,
     stop : Nat, high : Nat, last : Nat, informed : Nat, gen : Nat,
     cov : Texts, outside : BOOLEAN,
     pending : SUBSET [tool : Tools, nonce : Nat, turn : Nat, live : BOOLEAN,
                       text : Texts]]

ASSUME NudgeAssumption ==
    /\ IsFiniteSet(Feeds) /\ IsFiniteSet(Units)
    /\ {MaxCoverage, MaxPending, MaxRecords} \subseteq Nat
    /\ Scenes \subseteq SceneType
    /\ NoCursor \notin Cursors

VARIABLES
    scene,
    now,        \* the clock that stamps memberships and turns
    feed,       \* the records of each feed
    avail,      \* each feed's file: "ok", "gone" from the listing, "broken"
    epoch,      \* the session's current membership: workstream and from
    turn,       \* the provider turn the session is in
    cursor,     \* the cursor file
    txn,        \* the hook that holds the cursor lock
    sent,       \* deliveries in the order of their claims, and reads
    out,        \* the last eligible output the CLI printed for a tool call
    printed,    \* every unit the CLI printed, with the epoch it was for
    nonces      \* reservations made so far

vars == <<scene, now, feed, avail, epoch, turn, cursor, txn, sent, out, printed,
          nonces>>

Claude == scene.provider = "claude"

(* A hook call: its kind, the tool call it is about, and a flag: a prompt is
   queued input of this membership; a Stop continues a blocked one. *)
HookCalls ==
    [op : scene.hooks \intersect {"reserve", "stage", "commit", "discard"},
     tool : Tools, flag : {FALSE}]
    \union [op : scene.hooks \intersect {"prompt", "stop"}, tool : {NoTool},
            flag : BOOLEAN]
    \union [op : scene.hooks \intersect {"tool"}, tool : {NoTool}, flag : {FALSE}]

-----------------------------------------------------------------------------
(* Scanning *)

Bits == scene.feeds \X (1..MaxRecords) \X Fields \X scene.units

Eligible(ep, k) ==
    LET r == feed[k[1]][k[2]] IN r.ws = ep.ws /\ r.at > ep.from

(* isReadRecordAcknowledged: one field covered from end to end. *)
AcknowledgedInPart(cov, k) ==
    \E fld \in Fields : \E u \in scene.units : <<k[1], k[2], fld, u>> \in cov

Acknowledged(cov, k) ==
    \E fld \in Fields : \A u \in scene.units : <<k[1], k[2], fld, u>> \in cov

(* The feeds as a scan meets them: how long each one is, and its file. *)
Scan == [len |-> [f \in Feeds |-> Len(feed[f])], av |-> avail]

UnreadIn(c, sc, f) ==
    {k \in {f} \X (c.pos[f] + 1 .. sc.len[f]) :
        /\ sc.av[f] = "ok"
        /\ Eligible(c, k)
        /\ ~Acknowledged(c.cov, k)}

Unread(c, sc) == UNION {UnreadIn(c, sc, f) : f \in Feeds}

(* A feed with a saved position that is not listed is missed; one without
   is as if it had never been. *)
Incomplete(c, sc) ==
    \E f \in Feeds : sc.av[f] = "broken" \/ (sc.av[f] = "gone" /\ c.pos[f] > 0)

(* The end of the contiguous acknowledged or ineligible prefix. *)
Prefix(c, sc, f) ==
    IF sc.av[f] # "ok" THEN c.pos[f]
    ELSE CHOOSE n \in c.pos[f] .. sc.len[f] :
            /\ \A k \in UnreadIn(c, sc, f) : n < k[2]
            /\ n = sc.len[f] \/ <<f, n + 1>> \in UnreadIn(c, sc, f)

(* collapseReadCursor *)
Collapse(c, sc) ==
    LET pos == [f \in Feeds |-> Prefix(c, sc, f)] IN
    [c EXCEPT !.pos = pos,
              !.cov = {b \in c.cov : b[2] > pos[b[1]]}]

(* The oldest of the first unread records of the feeds, {} if there are none;
   the sequence number and the id break a tie. *)
Oldest(c, sc) ==
    LET heads == {k \in Unread(c, sc) : k[2] = Prefix(c, sc, k[1]) + 1} IN
    IF heads = {} THEN {}
    ELSE {CHOOSE k \in heads :
            \A j \in heads : feed[k[1]][k[2]].at <= feed[j[1]][j[2]].at}

-----------------------------------------------------------------------------
(* The cursor a transaction starts from *)

SameEpoch(c, ep) == c # NoCursor /\ c.ws = ep.ws /\ c.from = ep.from

Rev == IF cursor = NoCursor THEN 0 ELSE cursor.rev

(* virtualCursor *)
FirstCursor(ep) ==
    [ws |-> ep.ws, from |-> ep.from, rev |-> Rev + 1,
     pos |-> [f \in Feeds |-> 0],
     v |-> 3, stop |-> 0, high |-> 0, last |-> 0,
     pending |-> {}, cov |-> {}, outside |-> FALSE, informed |-> 0,
     gen |-> IF cursor = NoCursor \/ cursor.v = 1 THEN 1 ELSE cursor.gen]

(* migratedCursor: the first version knew no counts, turns or generations, and
   the second no reads. *)
Migrated(c) ==
    IF c.v = 1 THEN [c EXCEPT !.v = 3, !.high = 0, !.last = 0, !.gen = 1]
    ELSE [c EXCEPT !.v = 3]

Virtual(ep) ==
    IF SameEpoch(cursor, ep) THEN Migrated(cursor) ELSE FirstCursor(ep)

(* establishClaimTurn: a prompt opens Claude's next generation, and queued
   input of this same membership carries suppression along. *)
Establish(c, h) ==
    IF ~Claude \/ h.op # "prompt" \/ cursor = NoCursor THEN c
    ELSE LET carry == h.flag /\ SameEpoch(cursor, c) /\ cursor.v = 3 IN
         [c EXCEPT !.gen = @ + 1,
                   !.informed = IF carry /\ @ = c.gen THEN c.gen + 1 ELSE @,
                   !.last = IF carry /\ @ = c.gen THEN c.gen + 1 ELSE @]

(* currentDeliveryTurn *)
TurnOf(c, t) == IF Claude THEN c.gen ELSE t

-----------------------------------------------------------------------------
(* claimHookNudge *)

(* A marker of the first version proves that something was told: it is taken
   for everything that is unread now, in this turn unless the turn begins. *)
Attributed(c, h, ep, count, ct) ==
    IF ~SameEpoch(cursor, ep) \/ cursor.v # 1 \/ cursor.high = 0 THEN c
    ELSE [c EXCEPT !.high = count,
                   !.last = IF count > 0 /\ h.op # "prompt" THEN ct ELSE 0]

(* Claude's Stop ends the turn that its markers suppress. *)
Retire(c, h, sameTurn) ==
    IF h.op = "stop" /\ Claude /\ sameTurn
    THEN [c EXCEPT !.informed = 0, !.last = 0] ELSE c

(* One Stop a revision. *)
LatchIgnored(h, c) == h.op = "stop" /\ FALSE

Latched(h, c) == h.op = "stop" /\ c.stop = c.rev

(* A Stop, unless its turn has been told already, or it continues a blocked
   one; any other boundary, if there is more to tell than ever. *)
DueAgain(h, c, count, sameTurn) ==
    /\ count > 0
    /\ IF h.op = "stop" THEN ~sameTurn /\ ~h.flag ELSE count >= c.high

DueAnyTurn(h, c, count, sameTurn) ==
    /\ count > 0
    /\ IF h.op = "stop" THEN ~h.flag ELSE count > c.high

Due(h, c, count, sameTurn) ==
    /\ count > 0
    /\ IF h.op = "stop" THEN ~sameTurn /\ ~h.flag ELSE count > c.high

Claim(h, ep, sc, t) ==
    LET c0 == Establish(Virtual(ep), h)
        ct == TurnOf(c0, t)
        count == Cardinality(Unread(c0, sc))
        c1 == Attributed(c0, h, ep, count, ct)
        sameTurn == ct \in {c1.last, c1.informed}
        c2 == Retire(c1, h, sameTurn)
        due == ~Latched(h, c2) /\ Due(h, c2, count, sameTurn)
        c3 == IF Latched(h, c2) THEN c2 ELSE Collapse(c2, sc)
        high == IF count > c3.high THEN count ELSE c3.high
        c4 == IF due
              THEN [c3 EXCEPT !.stop = IF h.op = "stop" THEN c3.rev ELSE @,
                              !.high = high, !.last = ct]
              ELSE IF ~Latched(h, c2) /\ count = 0 /\ ~Incomplete(c2, sc)
              THEN [c3 EXCEPT !.outside = FALSE]
              ELSE c3
    IN [cursor |-> c4,
        sent |-> IF ~due THEN <<>> ELSE
            <<[op |-> h.op, ws |-> ep.ws, from |-> ep.from, rev |-> c4.rev,
               count |-> count, turn |-> ct, stage |-> "claimed",
               before |-> <<c1.high, c1.last>>, after |-> <<high, ct>>]>>]

-----------------------------------------------------------------------------
(* Reads *)

(* matchingPending *)
Matching(c, tool, t) ==
    {p \in c.pending : p.tool = tool /\ p.live /\ p.turn = TurnOf(c, t)}

(* reserveHookRead: expired reservations go, a tool id is never reserved
   twice at a time. *)
AddPending(c, h, t, live) ==
    [c EXCEPT !.pending = live \union
        {[tool |-> h.tool, nonce |-> nonces + 1, turn |-> TurnOf(c, t),
          live |-> TRUE, text |-> {}]}]

Reserve(c, h, t) ==
    LET live == {p \in c.pending : p.live} IN
    IF \/ \E p \in live : p.tool = h.tool
       \/ Cardinality(live) >= MaxPending
    THEN {} ELSE {AddPending(c, h, t, live)}

(* stageHookReadOutput: the tool's output, once, and only if it carries the
   nonce of the reservation it is for. *)
Stage(c, h, t) ==
    {[c EXCEPT !.pending = (@ \ {p}) \union {[p EXCEPT !.text = out[h.tool].text]}] :
        p \in {p \in Matching(c, h.tool, t) :
                  p.text = {} /\ p.nonce = out[h.tool].nonce}}

Discard(c, h, t) ==
    {[c EXCEPT !.pending = {p \in @ : p.tool # h.tool \/ p.turn # TurnOf(c, t)}]}

(* The number of stored coverage entries: one per record and field. *)
Entries(cov) == Cardinality({<<b[1], b[2], b[3]>> : b \in cov})

(* readCoverageFits: two entries, both fields of the oldest gap, stay free. *)
Fits(cov, previous, recovery) ==
    LET budget == IF recovery THEN MaxCoverage
                  ELSE MaxCoverage - Cardinality(Fields) IN
    /\ Entries(cov) <= MaxCoverage
    /\ Entries(cov) <= budget \/ Entries(cov) <= Entries(previous)

RecordsOf(text) == {<<b[1], b[2]>> : b \in text}

(* previewReadCoverage: what is still unread of the text is added, and the
   prefix moves on over what that completes. *)
PreviewOfOld(c, text, sc) ==
    LET base == Collapse(c, sc)
        added == {b \in text : <<b[1], b[2]>> \in Unread(c, sc)} IN
    [advanced |-> text # {},
     cursor |-> Collapse([base EXCEPT !.cov = @ \union added], sc),
     recovery |-> added # {} /\ RecordsOf(added) = Oldest(c, sc)]

Preview(c, text, sc) ==
    LET base == Collapse(c, sc)
        added == {b \in text : <<b[1], b[2]>> \in Unread(c, sc)} IN
    [advanced |-> ~(added \subseteq base.cov),
     cursor |-> Collapse([base EXCEPT !.cov = @ \union added], sc),
     recovery |-> added # {} /\ RecordsOf(added) = Oldest(c, sc)]

(* New coverage re-arms announcements and Stop, in the next revision. *)
Rearm(n, ct) ==
    [n EXCEPT !.rev = @ + 1, !.stop = 0, !.high = 0, !.last = 0,
              !.informed = ct]

(* commitHookReadOutput: the model's text is a staged output, and its records
   can still be read. *)
Commit(c, h, sc, t) ==
    UNION {LET pv == Preview(c, p.text, sc)
               n == [pv.cursor EXCEPT !.pending = @ \ {p}]
               left == Unread(n, sc) # {} \/ Incomplete(n, sc)
           IN IF \E k \in RecordsOf(p.text) : sc.av[k[1]] # "ok" THEN {}
              ELSE IF ~pv.advanced THEN {n}
              ELSE IF ~Fits(n.cov, c.cov, pv.recovery)
              THEN {[c EXCEPT !.pending = @ \ {p}]}
              ELSE {[Rearm(n, TurnOf(c, t)) EXCEPT
                              !.outside = left /\ (out[h.tool].kind = "context" \/ c.outside)]}
        : p \in {p \in Matching(c, h.tool, t) :
                    p.text # {} /\ p.text = out[h.tool].text
                    /\ p.nonce = out[h.tool].nonce}}

-----------------------------------------------------------------------------
Init ==
    /\ scene \in Scenes
    /\ now = 1
    /\ feed = [f \in Feeds |-> <<>>]
    /\ avail = [f \in Feeds |-> "ok"]
    /\ epoch = NoEpoch
    /\ turn = 1
    /\ cursor = NoCursor
    /\ txn = NoTxn
    /\ sent = <<>>
    /\ out = [t \in Tools |-> [nonce |-> 0, kind |-> "turn", text |-> {}]]
    /\ printed = {}
    /\ nonces = 0

-----------------------------------------------------------------------------
(* The cursor file *)

(* parseCursorBase *)
DecodesBase(c) == c.rev > 0 /\ c.ws \in Workstreams /\ c.pos \in [Feeds -> Nat]

(* parseMarkersV1 and parseMarkersV2: a marker is of the cursor's revision. *)
DecodesMarkers(c) == c.stop \in {0, c.rev}

(* parseDelivery: only an announcement has a turn, and none is of a generation
   to come. *)
DecodesDelivery(c) ==
    c.v > 1 /\ c.last > 0 => c.high > 0 /\ (Claude => c.last <= c.gen)

(* parseNudgeReadState with its pending reads and coverage. *)
DecodesPending(c) ==
    /\ Cardinality(c.pending) <= MaxPending
    /\ \A p, q \in c.pending : p = q \/ (p.tool # q.tool /\ p.nonce # q.nonce)
    /\ Claude => \A p \in c.pending : p.turn \in 1..c.gen

DecodesReads(c) ==
    /\ DecodesPending(c) /\ Entries(c.cov) <= MaxCoverage
    /\ Claude => c.informed <= c.gen

(* parseCursor, parseCursorV1 and parseCursorV2 of the hooks ... *)
Decodes(c) ==
    /\ DecodesBase(c) /\ DecodesMarkers(c) /\ DecodesDelivery(c)
    /\ Claude /\ c.v > 1 => c.gen > 0
    /\ c.v = 3 => DecodesReads(c)

(* ... and, with checks of their own, those of src/reader/unread.ts. *)
ReaderDecodesBase(c) ==
    /\ c.rev > 0 /\ c.ws \in Workstreams /\ c.pos \in [Feeds -> Nat]
    /\ c.v = 1 \/ c.last = 0 \/ (c.high # 0 /\ (~Claude \/ c.last \in 1..c.gen))

ReaderDecodes(c) ==
    /\ c.stop = 0 \/ c.stop = c.rev
    /\ ReaderDecodesBase(c)
    /\ (c.v > 1 /\ Claude) => c.gen > 0
    /\ c.v = 3 => DecodesReads(c)

-----------------------------------------------------------------------------
(* Everybody else *)

(* A turn of a peer is published; its end may lie before what is in the feed
   already, and before this session joined. *)
Publish(f) ==
    /\ Len(feed[f]) < scene.records
    /\ \E w \in scene.workstreams, at \in 1..now :
          feed' = [feed EXCEPT ![f] = Append(@, [ws |-> w, at |-> at])]
    /\ UNCHANGED <<scene, now, avail, epoch, turn, cursor, txn, sent, out,
                   printed, nonces>>

Tick ==
    /\ now < scene.time
    /\ now' = now + 1
    /\ UNCHANGED <<scene, feed, avail, epoch, turn, cursor, txn, sent, out,
                   printed, nonces>>

Change(f) ==
    /\ scene.vanish
    /\ feed[f] # <<>>
    /\ \E a \in {"ok", "gone", "broken"} : avail' = [avail EXCEPT ![f] = a]
    /\ UNCHANGED <<scene, now, feed, epoch, turn, cursor, txn, sent, out,
                   printed, nonces>>

(* The session joins a workstream, or moves to another one. *)
Move(w) ==
    /\ now < scene.time
    /\ epoch # NoEpoch => epoch.ws # w
    /\ now' = now + 1
    /\ epoch' = [ws |-> w, from |-> now]
    /\ UNCHANGED <<scene, feed, avail, turn, cursor, txn, sent, out, printed,
                   nonces>>

(* createReadOutput: the CLI runs tool call t's read under the one live
   reservation of its command, and cannot tell whose that is.  It shows a page
   of one field of a record or the attention text of whole records, and prints
   it as eligible if it fits into the coverage. *)
Readable(ep) ==
    {k \in Feeds \X (1..MaxRecords) :
        k[2] <= Len(feed[k[1]]) /\ avail[k[1]] = "ok" /\ Eligible(ep, k)}

Pages(ep) == {{k[1]} \X {k[2]} \X {fld} \X us :
                 k \in Readable(ep), fld \in Fields, us \in SUBSET scene.units \ {{}}}

Contexts(ep) == {{b \in Bits : <<b[1], b[2]>> \in ks /\ b[3] = "attention"} :
                    ks \in SUBSET Readable(ep) \ {{}}}

(* findReadAuthority *)
Authority(t) ==
    LET live == {p \in cursor.pending :
                    /\ cursor.v = 3 /\ p.live
                    /\ (scene.same \/ p.tool = t)
                    /\ (Claude => p.turn = cursor.gen)}
    IN IF Cardinality(live) = 1 THEN live ELSE {}

ReadCommand(t) ==
    /\ epoch # NoEpoch /\ SameEpoch(cursor, epoch)
    /\ \E p \in Authority(t), kind \in {"turn", "context"} :
       \E text \in IF kind = "turn" THEN Pages(epoch) ELSE Contexts(epoch) :
         /\ p.nonce # out[t].nonce     \* a tool call runs its command once
         /\ LET pv == Preview(cursor, text, Scan) IN
            Fits(pv.cursor.cov, cursor.cov, pv.recovery)
         /\ out' = [out EXCEPT ![t] = [nonce |-> p.nonce, kind |-> kind, text |-> text]]
    /\ printed' = printed \union {<<epoch, b>> : b \in out'[t].text}
    /\ UNCHANGED <<scene, now, feed, avail, epoch, turn, cursor, txn, sent, nonces>>

(* READ_INVOCATION_TTL_MS pass. *)
Expire ==
    /\ txn = NoTxn /\ cursor # NoCursor
    /\ \E p \in cursor.pending :
         p.live /\ cursor' = [cursor EXCEPT !.pending =
                                (@ \ {p}) \union {[p EXCEPT !.live = FALSE]}]
    /\ UNCHANGED <<scene, now, feed, avail, epoch, turn, txn, sent, out,
                   printed, nonces>>

-----------------------------------------------------------------------------
(* withHookCursor: the lock, the membership and a scan; the membership again
   before and after the operation; the write and the unlock.  A changed
   membership gives the lock back: the retry is another Open. *)

Held == {i \in DOMAIN sent : sent[i].stage \in {"claimed", "failed"}}
StopHeld == \E i \in Held : sent[i].op = "stop"

(* The turn of a hook's event.  A Codex event names it: a goal goes on in a new
   turn without a prompt, and a hook left behind, once it has written the lease,
   still claims for its old one.  Claude's generation goes on with its prompts. *)
EventTurns(h) ==
    IF ~Claude THEN 1 .. turn + 1
    ELSE IF h.op = "prompt" THEN {turn + 1} ELSE {turn}

Open(h) ==
    /\ txn = NoTxn
    /\ epoch # NoEpoch
    /\ h.flag => Claude
    \* Stop, and Claude's prompt, run under the actor lock a Stop holds until
    \* its claim is emitted or rolled back.
    /\ (h.op = "stop" \/ (h.op = "prompt" /\ Claude)) => ~StopHeld
    /\ h.op = "stop" => Len(sent) < scene.claims
    /\ h.op = "reserve" => nonces < scene.nonces
    /\ h.op = "commit" => Rev < scene.revs
    /\ \E t \in EventTurns(h) :
         /\ t <= scene.turns
         \* Without a reservation of their turn the others find nothing to do.
         /\ h.op \in {"stage", "commit", "discard"} =>
               /\ cursor # NoCursor
               /\ \E p \in cursor.pending : p.tool = h.tool /\ p.turn = TurnOf(cursor, t)
         /\ turn' = IF t > turn THEN t ELSE turn
         /\ txn' = [hook |-> h, turn |-> t, epoch |-> epoch, scan |-> Scan,
                    phase |-> "scanned"]
    /\ UNCHANGED <<scene, now, feed, avail, epoch, cursor, sent, out, printed,
                   nonces>>

(* A commit previews its coverage with scans of its own, later ones. *)
Check ==
    /\ txn # NoTxn /\ txn.phase = "scanned"
    /\ txn' = IF txn.epoch # epoch THEN NoTxn
              ELSE [txn EXCEPT !.phase = "checked",
                               !.scan = IF txn.hook.op = "commit" THEN Scan ELSE @]
    /\ UNCHANGED <<scene, now, feed, avail, epoch, turn, cursor, sent, out,
                   printed, nonces>>

WriteClaim ==
    /\ txn # NoTxn /\ txn.phase = "checked"
    /\ txn.hook.op \in Informational \union {"stop"}
    /\ LET c == Claim(txn.hook, txn.epoch, txn.scan, txn.turn) IN
         cursor' = c.cursor /\ sent' = sent \o c.sent
    /\ txn' = NoTxn
    /\ UNCHANGED <<scene, now, feed, avail, epoch, turn, out, printed, nonces>>

(* The states a read hook may write; none when it refuses. *)
ReadResult(h, ep, sc, t) ==
    LET c == Virtual(ep) IN
    CASE h.op = "reserve" -> Reserve(c, h, t)
      [] h.op = "stage"   -> Stage(c, h, t)
      [] h.op = "commit"  -> Commit(c, h, sc, t)
      [] h.op = "discard" -> Discard(c, h, t)

(* For the properties: a read that upgrades a cursor of the first version does
   not look at its markers, and what they stood for may be told again. *)
Forgotten ==
    [i \in DOMAIN sent |-> IF cursor # NoCursor /\ cursor.v = 1
                           THEN [sent[i] EXCEPT !.stage = "forgotten"] ELSE sent[i]]

WriteRead ==
    /\ txn # NoTxn /\ txn.phase = "checked"
    /\ txn.hook.op \in HookOps \ (Informational \union {"stop"})
    /\ LET R == ReadResult(txn.hook, txn.epoch, txn.scan, txn.turn) IN
         IF R = {} THEN UNCHANGED <<cursor, sent>>
         ELSE \E c \in R :
                /\ cursor' = c
                /\ sent' = Forgotten \o
                      IF c.rev = Virtual(txn.epoch).rev THEN <<>>
                      ELSE <<[op |-> "read", rev |-> c.rev, count |-> 0,
                              turn |-> c.informed, stage |-> "emitted"]>>
    /\ nonces' = IF txn.hook.op = "reserve" THEN nonces + 1 ELSE nonces
    /\ txn' = NoTxn
    /\ UNCHANGED <<scene, now, feed, avail, epoch, turn, out, printed>>

(* A hook of an earlier release wrote the cursor and may have told of what was
   unread. *)
Inherit ==
    /\ scene.version < 3 /\ cursor = NoCursor /\ txn = NoTxn /\ epoch # NoEpoch
    /\ \E op \in {"none", "tool", "stop"} :
         LET c == FirstCursor(epoch)
             count == Cardinality(Unread(c, Scan))
             ct == TurnOf(c, turn)
         IN /\ op # "none" => count > 0
            /\ cursor' = [c EXCEPT !.v = scene.version,
                             !.stop = IF op = "stop" THEN c.rev ELSE 0,
                             !.high = IF op = "none" THEN 0 ELSE count,
                             !.last = IF op = "none" \/ scene.version = 1 THEN 0 ELSE ct]
            /\ sent' = IF op = "none" THEN sent ELSE
                  Append(sent, [op |-> op, ws |-> epoch.ws, from |-> epoch.from,
                                rev |-> c.rev, count |-> count,
                                turn |-> IF scene.version = 1 THEN 0 ELSE ct,
                                stage |-> "emitted", before |-> <<0, 0>>,
                                after |-> <<count, ct>>])
    /\ UNCHANGED <<scene, now, feed, avail, epoch, turn, txn, out, printed, nonces>>

-----------------------------------------------------------------------------
(* What becomes of a claim *)

Settle(i, stage) == sent' = [sent EXCEPT ![i].stage = stage]

(* The delivery reaches the model; for a Stop its lease was reopened.  A hook
   that dies first leaves its claim as it is. *)
Emit(i) ==
    /\ sent[i].stage = "claimed"
    /\ Settle(i, "emitted")
    /\ UNCHANGED <<scene, now, feed, avail, epoch, turn, cursor, txn, out, printed,
                   nonces>>

(* The lease of a claimed Stop could not be reopened ... *)
Fail(i) ==
    /\ sent[i].op = "stop" /\ sent[i].stage = "claimed"
    /\ Settle(i, "failed")
    /\ UNCHANGED <<scene, now, feed, avail, epoch, turn, cursor, txn, out, printed,
                   nonces>>

(* ... rollbackHookStopClaim: the latch opens again, the ledger goes back
   unless another delivery has changed it, and a newer revision wins. *)
RollbackLatchOnly(i) ==
    /\ sent[i].stage = "failed"
    /\ txn = NoTxn
    /\ LET r == sent[i] IN
       cursor' = IF SameEpoch(cursor, r) /\ cursor.rev = r.rev /\ cursor.stop = r.rev
                 THEN [cursor EXCEPT !.stop = 0] ELSE cursor
    /\ Settle(i, "void")
    /\ UNCHANGED <<scene, now, feed, avail, epoch, turn, txn, out, printed, nonces>>

Rollback(i) ==
    /\ sent[i].stage = "failed"
    /\ txn = NoTxn
    /\ LET r == sent[i] IN
       cursor' = IF SameEpoch(cursor, r) /\ cursor.rev = r.rev /\ cursor.stop = r.rev
                 THEN IF <<cursor.high, cursor.last>> = r.after
                      THEN [cursor EXCEPT !.stop = 0, !.high = r.before[1],
                                          !.last = r.before[2]]
                      ELSE [cursor EXCEPT !.stop = 0]
                 ELSE cursor
    /\ Settle(i, "void")
    /\ UNCHANGED <<scene, now, feed, avail, epoch, turn, txn, out, printed, nonces>>

-----------------------------------------------------------------------------
Next ==
    \/ \E f \in scene.feeds : Publish(f) \/ Change(f)
    \/ Tick
    \/ \E w \in scene.workstreams : Move(w)
    \/ \E t \in Tools : ReadCommand(t)
    \/ Expire
    \/ \E h \in HookCalls : Open(h)
    \/ Check
    \/ WriteClaim
    \/ WriteRead
    \/ Inherit
    \/ \E i \in DOMAIN sent : Emit(i) \/ Fail(i) \/ Rollback(i)

Spec == Init /\ [][Next]_vars

-----------------------------------------------------------------------------
(* Properties *)

Keys == {k \in Feeds \X (1..MaxRecords) : k[2] <= Len(feed[k[1]])}

TypeOK ==
    /\ scene \in Scenes
    /\ now \in 1..scene.time /\ turn \in 1..scene.turns /\ nonces \in 0..scene.nonces
    /\ feed \in [Feeds -> Seq([ws : Workstreams, at : 1..scene.time])]
    /\ avail \in [Feeds -> {"ok", "gone", "broken"}]
    /\ epoch \in [ws : Workstreams, from : 1..scene.time] \union {NoEpoch}
    /\ cursor # NoCursor =>
          /\ cursor \in Cursors /\ cursor.from \in 1..scene.time
          /\ \A f \in Feeds : cursor.pos[f] <= Len(feed[f])
          /\ cursor.cov \subseteq Bits

(* No unread turn of a peer is passed over: what the cursor takes as read in
   its membership has been printed, one field of it from end to end, by reads
   of this session in this membership. *)
NothingSkipped ==
    cursor # NoCursor =>
        \A k \in Keys :
            (/\ Eligible(cursor, k)
             /\ k[2] <= cursor.pos[k[1]] \/ Acknowledged(cursor.cov, k))
            => \E fld \in Fields : \A u \in scene.units :
                  <<[ws |-> cursor.ws, from |-> cursor.from],
                    <<k[1], k[2], fld, u>>>> \in printed

(* "Concurrent prompt and tool hooks can announce a new count only once":
   within a revision every announcement tells of more turns than everything
   delivered or about to be before it, rolled back Stop claims in between or
   not. *)
AnnouncedOnce ==
    \A j \in DOMAIN sent : sent[j].op \in Informational =>
        \A i \in 1 .. j - 1 :
            sent[i].rev = sent[j].rev /\ sent[i].stage \notin {"failed", "void", "forgotten"}
            => sent[i].count < sent[j].count

(* "After a successful block, every later Stop at that revision is silent". *)
StopOnce ==
    \A i, j \in DOMAIN sent :
        (/\ sent[i].op = "stop" /\ sent[i].stage \in {"claimed", "emitted"}
         /\ i < j /\ sent[j].op = "stop") => sent[i].rev # sent[j].rev

(* However hooks race, the model hears of nothing twice. *)
ToldOnce == AnnouncedOnce /\ StopOnce

(* The ledger never overstates: the high-water was announced, or is about to
   be, and the Stop latch belongs to a block; rollbacks leave no remains.  (A
   delivery of the first version is taken for one of all that is unread.) *)
LedgerBacked ==
    cursor # NoCursor =>
        LET Backing == {i \in DOMAIN sent :
                          sent[i].rev = cursor.rev /\ sent[i].stage # "void"} IN
        /\ cursor.high > 0 => \E i \in Backing :
              sent[i].count >= cursor.high \/ scene.version = 1
        /\ cursor.stop > 0 => \E i \in Backing : sent[i].op = "stop"

(* Counts are lower bounds: no more turns were announced at a revision than
   are unread for as long as it lasts. *)
CountsHold ==
    cursor # NoCursor =>
        LET all == [len |-> [f \in Feeds |-> Len(feed[f])],
                    av |-> [f \in Feeds |-> "ok"]] IN
        \A i \in DOMAIN sent :
            sent[i].rev = cursor.rev
            => sent[i].count <= Cardinality(Unread(cursor, all))

(* Two strict decoders, the hooks' and the readers', accept what the hooks
   write: a cursor that fails its own stops every later hook of the session. *)
Decodable == cursor # NoCursor => Decodes(cursor) /\ ReaderDecodes(cursor)

(* What a cursor says was delivered was, and is still unread, and the cursor
   can be read back. *)
LedgerHolds == TypeOK /\ LedgerBacked /\ CountsHold /\ Decodable

(* Stop "never blocks a turn that already received a delivery for the current
   revision": never one that a read informed, nor one that was told, unless a hook
   of another turn, one left behind or of the next turn, has been told since; the
   cursor keeps the last told turn only.  (A Codex turn: Claude's has no name, and
   its Stop retires the marks of the turn it ends.  The first release kept no turn
   of what it told.) *)
StopSparesInformedTurn ==
    \A j \in DOMAIN sent : ~Claude /\ sent[j].op = "stop" =>
        \A i \in 1 .. j - 1 :
            (/\ sent[i].op # "stop" /\ sent[i].stage # "forgotten"
             /\ sent[i].rev = sent[j].rev /\ sent[i].turn = sent[j].turn)
            => /\ sent[i].op # "read"
               /\ \E k \in i + 1 .. j - 1 :
                     /\ sent[k].op \in Informational
                     /\ sent[k].rev = sent[j].rev /\ sent[k].turn # sent[j].turn

(* A revision re-arms the announcements, so it only advances with text that
   was unread: "duplicate coverage and old reads do not rearm anything". *)
Taken(c) == {b \in Bits : b \in c.cov \/ b[2] <= c.pos[b[1]]}

ReadRearmsOnce ==
    [][/\ cursor # NoCursor => cursor'.rev >= cursor.rev
       /\ (cursor # NoCursor /\ SameEpoch(cursor', cursor) /\ cursor'.rev # cursor.rev)
          => \E b \in Taken(cursor') \ Taken(cursor) : Eligible(cursor, b)]_vars

=============================================================================
