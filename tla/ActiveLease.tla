---------------------------- MODULE ActiveLease ----------------------------
(***************************************************************************)
(* The active leases of one joined session and the hooks that write them:  *)
(* src/active/store.ts, src/hooks/codex.ts and src/hooks/claude.ts.        *)
(*                                                                         *)
(* Each actor of a session, the main agent and a subagent, has one lease   *)
(* file.  The provider starts a hook process for every event of a turn and *)
(* waits for it, unless the user interrupts the turn or the hook times     *)
(* out: then it goes on and the hook runs late.  A hook decides on the     *)
(* lease it finds and replaces it under the lock of the actor's file       *)
(* (DirectoryLock), in one step here; a Stop takes that lock twice.        *)
(*                                                                         *)
(* A lease is its revision, state, turn and what it shows: the prompt      *)
(* (intent) by its turn, the claims and unknown scopes by their tool       *)
(* calls, the kind of the current action, the Stop continuation, and       *)
(* whether its time to live has not passed.  Whether there is news for a   *)
(* Stop to tell is chosen (NudgeCursor decides it).  A tool call may run   *)
(* `barbaro await`, the command that waits for peers.  Workstreams are     *)
(* left out.                                                               *)
(***************************************************************************)
EXTENDS Naturals, FiniteSets

CONSTANTS
    Sessions,       \* the kinds of session looked at: the provider, the events
                    \* of each actor, whether its leases expire, the calls of a
                    \* turn and which of them run `barbaro await`, the hooks left
                    \* behind or dead and the interrupts
    MaxTurn,        \* turns of an actor
    NoLease

Actors == {"main", "child"}

Events == {"prompt", "start", "pre", "perm", "post", "batch", "precompact",
           "postcompact", "stop", "substop", "failure", "session"}

(* ActiveLeaseV1 *)
Leases ==
    [rev : Nat \ {0}, turn : Nat, live : BOOLEAN, state : {"working", "waiting", "idle"},
     intent : Nat, claims : SUBSET (Nat \X Nat), action : {"none", "tool", "compact"},
     cont : BOOLEAN]

ASSUME LeaseAssumption ==
    /\ Sessions \subseteq [provider : {"codex", "claude"}, ages : BOOLEAN,
                            events : [Actors -> SUBSET Events],
                            tools : Nat, awaits : SUBSET Nat, faults : Nat]
    /\ MaxTurn \in Nat
    /\ NoLease \notin Leases

VARIABLES
    session,        \* its kind
    native,         \* what each actor is really doing
    hooks,          \* the hook processes
    lease,          \* the lease file of each actor
    reaping,        \* tombstones that a reaper has found old enough
    seen,           \* the latest turn whose hooks have written each lease
    lost,           \* the events of each actor whose hooks were left, died or
                    \* could not tell whether they were stale
    faults

vars == <<session, native, hooks, lease, reaping, seen, lost, faults>>

Codex == session.provider = "codex"
Claude == session.provider = "claude"

-----------------------------------------------------------------------------
(* Leases *)

(* isActiveLeaseVisible *)
Visible(l) == l # NoLease /\ l.state # "idle" /\ l.live

Tombstone(l) == l # NoLease /\ l.state = "idle"

Revision(l) == IF l = NoLease THEN 0 ELSE l.rev

(* Only the events of a Codex turn name it; 0 is no name. *)
TurnId(h) == IF Claude \/ h.event = "session" THEN 0 ELSE h.turn

(* The turn's hook replaces the lease. *)
Write(h, l, fields) ==
    [rev |-> Revision(l) + 1, turn |-> TurnId(h), live |-> TRUE,
     state |-> fields.state, intent |-> fields.intent, claims |-> fields.claims,
     action |-> fields.action, cont |-> fields.cont]

Fields == [state |-> "working", intent |-> 0, claims |-> {}, action |-> "none",
           cont |-> FALSE]

(* idleLeaseUpdate *)
Idle(h, l) == Write(h, l, [Fields EXCEPT !.state = "idle"])

-----------------------------------------------------------------------------
(* Which Codex events are stale *)

TurnsDiffer(h, l) == l # NoLease /\ l.turn # 0 /\ l.turn # h.turn

(* attestCodexTurnRollover: the rollout, if its tail can be read, names the
   event's turn as the one that was started last. *)
Attested(h, readable) == readable /\ native[h.actor].turn = h.turn

FirstSeenChild(h, l) == h.actor = "child" /\ l = NoLease /\ ~Visible(lease["main"])

(* Mutant: A different turn is as good as an attested one. *)
StaleToolUnattested(h, l, readable) ==
    \/ FirstSeenChild(h, l)
    \/ h.actor = "child" /\ l # NoLease /\ l.turn = h.turn /\ l.state = "idle"
    \/ h.actor = "main" /\ ~Tombstone(l) /\ TurnsDiffer(h, l)
    \/ h.actor = "main" /\ Tombstone(l) /\ l.turn = h.turn

(* staleToolTurnDecision *)
StaleTool(h, l, readable) ==
    \/ FirstSeenChild(h, l)
    \/ h.actor = "child" /\ TurnsDiffer(h, l) /\ ~Attested(h, readable)
    \/ h.actor = "child" /\ ~TurnsDiffer(h, l) /\ Tombstone(l)
    \/ h.actor = "main" /\ ~Tombstone(l) /\ TurnsDiffer(h, l)
    \/ h.actor = "main" /\ Tombstone(l)
         /\ (l.turn = h.turn \/ ~Attested(h, readable))

(* staleMainTurnDecision *)
StaleStop(h, l, readable) ==
    TurnsDiffer(h, l) /\ (~Tombstone(l) \/ ~Attested(h, readable))

StaleSubagentStop(h, l, readable) == TurnsDiffer(h, l) /\ ~Attested(h, readable)

Pristine(l) ==
    l.state = "working" /\ l.intent = 0 /\ l.action = "none" /\ l.claims = {} /\ ~l.cont

(* staleUserPromptIgnore *)
StalePrompt(h, l) ==
    /\ h.actor = "child"
    /\ TurnsDiffer(h, l) \/ FirstSeenChild(h, l) \/ (l # NoLease /\ ~Pristine(l))

(* Mutant: A start is stale only if it is of another turn. *)
StaleStartOfOther(h, l) == TurnsDiffer(h, l) \/ FirstSeenChild(h, l)

(* staleSubagentStartIgnore *)
StaleStart(h, l) == l # NoLease \/ FirstSeenChild(h, l)

-----------------------------------------------------------------------------
(* A tool call; 0 stands for whatever a subagent of Claude may write. *)
Call(h) == <<h.turn, h.tool>>

(* classifyAwaitCommand: the call waits for peers and writes nothing. *)
Waits(h) == h.tool \in session.awaits

ClaimsOf(h) == IF Waits(h) THEN {} ELSE {Call(h)}

StateOf(h) == IF Waits(h) THEN "waiting" ELSE "working"

(* What an event makes of its actor's lease; the lease itself if it is
   ignored. *)

SameTurn(h, l) == l # NoLease /\ TurnId(h) # 0 /\ l.turn = TurnId(h)

Carried(h, l) ==
    IF SameTurn(h, l) THEN [Fields EXCEPT !.intent = l.intent, !.cont = l.cont] ELSE Fields

CodexToolUpdate(h, l) ==
    CASE h.event = "pre" ->
            Write(h, l, [Carried(h, l) EXCEPT
                !.state = StateOf(h), !.claims = ClaimsOf(h), !.action = "tool"])
      [] h.event = "perm" ->
            Write(h, l, [Carried(h, l) EXCEPT
                !.state = "waiting",
                !.action = IF SameTurn(h, l) /\ l.action # "none" THEN l.action ELSE "tool",
                !.claims = IF SameTurn(h, l) /\ l.action # "none" /\ ~Waits(h)
                           THEN l.claims ELSE ClaimsOf(h)])
      [] h.event = "post" -> Write(h, l, Carried(h, l))
      [] h.event \in {"precompact", "postcompact"} ->
            Write(h, l, [Carried(h, l) EXCEPT
                !.intent = IF l = NoLease THEN 0 ELSE l.intent,
                !.action = IF h.event = "precompact" THEN "compact" ELSE "none"])

CodexUpdate(h, l, readable) ==
    CASE h.event = "prompt" ->
            IF StalePrompt(h, l) THEN l
            ELSE Write(h, l, [Fields EXCEPT !.intent = h.turn])
      [] h.event = "start" -> IF StaleStart(h, l) THEN l ELSE Write(h, l, Fields)
      [] h.event \in {"pre", "perm", "post", "precompact", "postcompact"} ->
            IF StaleTool(h, l, readable) THEN l ELSE CodexToolUpdate(h, l)
      [] h.event = "substop" ->
            IF StaleSubagentStop(h, l, readable) THEN l ELSE Idle(h, l)
      [] h.event = "stop" -> IF StaleStop(h, l, readable) THEN l ELSE Idle(h, l)
      [] h.event = "session" -> Idle(h, l)

(* A Claude event names no turn: what is idle stays so, but for the events
   that start a turn. *)
KeptIntent(l) == IF l = NoLease THEN 0 ELSE l.intent

KeptClaims(l) == IF l = NoLease THEN {} ELSE l.claims

(* Mutant: The end of a tool call withdraws all claims. *)
ClaudePostClearing(h, l) ==
    IF l = NoLease \/ Tombstone(l) THEN l
    ELSE Write(h, l, [Fields EXCEPT !.intent = l.intent])

(* Other calls may still run: nothing is withdrawn. *)
ClaudePost(h, l) == l

ClaudeUpdate(h, l) ==
    CASE h.event = "prompt" -> Write(h, l, [Fields EXCEPT !.intent = h.turn])
      [] h.event = "start" -> Write(h, l, [Fields EXCEPT !.claims = {Call(h)}])
      [] h.event = "pre" ->
            IF Tombstone(l) THEN l
            ELSE Write(h, l, [Fields EXCEPT
                !.state = StateOf(h), !.intent = KeptIntent(l), !.action = "tool",
                !.claims = IF Waits(h) THEN {} ELSE KeptClaims(l) \union {Call(h)}])
      [] h.event = "post" -> ClaudePost(h, l)
      [] h.event = "batch" ->
            IF l = NoLease \/ Tombstone(l) THEN l
            ELSE Write(h, l, [Fields EXCEPT !.intent = l.intent])
      [] h.event \in {"substop", "stop", "failure", "session"} -> Idle(h, l)

Update(h, l, readable) ==
    IF Codex THEN CodexUpdate(h, l, readable) ELSE ClaudeUpdate(h, l)

(* The prompt a Stop shows again if it blocks. *)
PriorIntent(h, l) ==
    IF l = NoLease \/ (Codex /\ l.turn # TurnId(h)) THEN 0 ELSE l.intent

-----------------------------------------------------------------------------
NewTurn(t) == [turn |-> t, phase |-> "open", how |-> "stop", cont |-> FALSE,
               prompted |-> FALSE, tools |-> {}, asked |-> {}, used |-> 0, batched |-> 0,
               compacted |-> 0, closed |-> FALSE]

Init ==
    /\ session \in Sessions
    /\ native = [a \in Actors |-> [NewTurn(0) EXCEPT !.phase = "idle"]]
    /\ hooks = {}
    /\ lease = [a \in Actors |-> NoLease]
    /\ reaping = {}
    /\ seen = [a \in Actors |-> 0]
    /\ lost = [a \in Actors |-> {}]
    /\ faults = 0

files == <<lease, reaping, seen>>

-----------------------------------------------------------------------------
(* The provider *)

Fired(a, event, tool) ==
    [event |-> event, actor |-> a, turn |-> native'[a].turn, tool |-> tool,
     flag |-> native'[a].cont, waited |-> TRUE, rev |-> 0, prior |-> 0]

(* a goes on to n, which fires an event. *)
Fire(a, n, event, tool) ==
    /\ event \in session.events[a]
    /\ native' = [native EXCEPT ![a] = n]
    /\ Fired(a, event, tool) \notin hooks
    /\ hooks' = hooks \union {Fired(a, event, tool)}
    /\ UNCHANGED <<session, files, lost, faults>>

GoOn(a, n) ==
    /\ native' = [native EXCEPT ![a] = n]
    /\ UNCHANGED <<session, hooks, files, lost, faults>>

CallEvents == {"pre", "perm", "post"}

Awaits(a, events) == \E h \in hooks : h.actor = a /\ h.waited /\ h.event \in events

Free(a) == \A h \in hooks : h.actor = a /\ h.waited => h.event \in CallEvents

Open(a) == native[a].phase = "open"

(* The user enters a prompt ... *)
SubmitPrompt ==
    LET n == native["main"] IN
    /\ n.phase = "idle" /\ Free("main") /\ n.turn < MaxTurn
    /\ Fire("main", NewTurn(n.turn + 1), "prompt", 0)

(* ... or Claude's user one for later, while the turn runs. *)
QueuePrompt ==
    LET n == native["main"] IN
    /\ Claude /\ Open("main") /\ Free("main") /\ ~n.prompted
    /\ Fire("main", [n EXCEPT !.prompted = TRUE], "prompt", 0)

(* Codex goes on with a goal, or with a subagent it has used before: no
   prompt and no start tell of the turn. *)
ContinueGoal ==
    LET n == native["main"] IN
    /\ Codex /\ n.phase = "idle" /\ n.how = "stop" /\ Free("main")
    /\ n.turn \in 1 .. MaxTurn - 1
    /\ GoOn("main", NewTurn(n.turn + 1))

FollowUp ==
    LET n == native["child"] IN
    /\ Codex /\ Open("main") /\ n.phase = "idle" /\ n.how = "stop" /\ Free("child")
    /\ n.turn \in 1 .. MaxTurn - 1
    /\ GoOn("child", NewTurn(n.turn + 1))

StartSubagent ==
    LET n == native["child"] IN
    /\ Open("main") /\ Free("main") /\ n.turn = 0
    /\ Fire("child", NewTurn(1), "start", 0)

PromptSubagent ==
    LET n == native["child"] IN
    /\ Codex /\ Open("child") /\ Free("child") /\ ~n.prompted /\ n.used = 0
    /\ Fire("child", [n EXCEPT !.prompted = TRUE], "prompt", 0)

(* Tool calls; the model's next calls follow the PostToolBatch of the last. *)
StartTool(a) ==
    LET n == native[a] IN
    /\ Open(a) /\ Free(a) /\ n.used < session.tools
    /\ Claude => n.tools # {} \/ n.batched = n.used
    /\ Fire(a, [n EXCEPT !.used = @ + 1, !.tools = @ \union {n.used + 1}],
            "pre", n.used + 1)

CallAwaits(a, t, events) ==
    \E h \in hooks : h.actor = a /\ h.waited /\ h.event \in events /\ h.tool = t

AskPermission(a, t) ==
    /\ Codex /\ t \in native[a].tools \ native[a].asked /\ ~CallAwaits(a, t, {"pre"})
    /\ Fire(a, [native[a] EXCEPT !.asked = @ \union {t}], "perm", t)

EndTool(a, t) ==
    /\ t \in native[a].tools /\ ~CallAwaits(a, t, {"pre", "perm"})
    /\ Fire(a, [native[a] EXCEPT !.tools = @ \ {t}], "post", t)

EndBatch(a) ==
    LET n == native[a] IN
    /\ Claude /\ Open(a) /\ n.tools = {} /\ n.batched < n.used
    /\ ~Awaits(a, CallEvents)
    /\ Fire(a, [n EXCEPT !.batched = n.used], "batch", n.used)

Compact(a) ==
    LET n == native[a] IN
    /\ Codex /\ Open(a) /\ Free(a) /\ n.tools = {} /\ n.compacted < 2
    /\ Fire(a, [n EXCEPT !.compacted = @ + 1],
            IF n.compacted = 0 THEN "precompact" ELSE "postcompact", 0)

(* The model has answered, or failed to. *)
Answered(a) ==
    LET n == native[a] IN
    /\ Open(a) /\ n.tools = {} /\ Free(a) /\ ~Awaits(a, CallEvents)
    /\ Claude => n.batched = n.used
    /\ n.compacted # 1

Finish(a) ==
    /\ Answered(a)
    /\ Fire(a, [native[a] EXCEPT !.phase = "stopping"],
            IF a = "main" THEN "stop" ELSE "substop", 0)

FinishWithFailure ==
    /\ Claude /\ Answered("main")
    /\ Fire("main", [native["main"] EXCEPT !.phase = "idle"], "failure", 0)

(* The session ends or is resumed. *)
EndSession ==
    LET n == native["main"] IN
    /\ n.phase = "idle" /\ Free("main") /\ ~Open("child") /\ ~n.closed /\ n.turn > 0
    /\ Fire("main", [n EXCEPT !.closed = TRUE], "session", 0)

(* The provider waits no longer; a stop that has not blocked ends its turn. *)
Returned(n, h, blocked) ==
    IF ~h.waited \/ h.event \notin {"stop", "substop"} THEN n
    ELSE IF blocked THEN [n EXCEPT !.phase = "open", !.cont = TRUE]
    ELSE [n EXCEPT !.phase = "idle"]

Fault == faults < session.faults /\ faults' = faults + 1

(* A hook runs into its time limit: it may die or be left behind. *)
TimeOut(h) ==
    /\ Fault
    /\ h.waited
    /\ \E left \in {{}, {[h EXCEPT !.waited = FALSE]}} :
          hooks' = (hooks \ {h}) \union left
    /\ native' = [native EXCEPT ![h.actor] = Returned(@, h, FALSE)]
    /\ lost' = [lost EXCEPT ![h.actor] = @ \union {h.event}]
    /\ UNCHANGED <<session, files>>

(* The user interrupts the turn: it gets no Stop, and its hooks are left. *)
Interrupt ==
    /\ Fault
    /\ native["main"].phase # "idle"
    /\ native' = [a \in Actors |->
          IF native[a].phase = "idle" THEN native[a]
          ELSE [native[a] EXCEPT !.phase = "idle", !.how = "interrupt", !.tools = {}]]
    /\ hooks' = {[h EXCEPT !.waited = FALSE] : h \in hooks}
    /\ lost' = [a \in Actors |->
          lost[a] \union {h.event : h \in {k \in hooks : k.actor = a /\ k.waited}}]
    /\ UNCHANGED <<session, files>>

-----------------------------------------------------------------------------
(* The hooks *)

Put(h, l) ==
    /\ lease' = [lease EXCEPT ![h.actor] = l]
    /\ seen' = [seen EXCEPT ![h.actor] =
                   IF l # lease[h.actor] /\ h.turn > @ THEN h.turn ELSE @]
    /\ UNCHANGED <<session, reaping, faults>>

(* The rollout could not be read, and the event is ignored for it. *)
Unattested(h, l, readable) ==
    lost' = IF readable \/ Update(h, l, TRUE) = l THEN lost
            ELSE [lost EXCEPT ![h.actor] = @ \union {h.event}]

End(h, blocked) ==
    /\ hooks' = hooks \ {h}
    /\ native' = [native EXCEPT ![h.actor] = Returned(@, h, blocked)]

(* The update, write or writeIdle of any other event. *)
Settle(h) ==
    /\ h.event # "stop"
    /\ \E readable \in BOOLEAN :
          /\ Put(h, Update(h, lease[h.actor], readable))
          /\ Unattested(h, lease[h.actor], readable)
    /\ End(h, FALSE)

(* A Stop first leaves a tombstone.  That of a continued turn never blocks: Codex
   returns, and the cursor has no Stop to claim for Claude. *)
Stop(h) ==
    LET l == lease[h.actor] IN
    /\ h.event = "stop" /\ h.rev = 0
    /\ \E readable \in BOOLEAN :
          LET new == Update(h, l, readable) IN
          /\ Put(h, new) /\ Unattested(h, l, readable)
          /\ IF new = l \/ h.flag THEN End(h, FALSE)
             ELSE /\ hooks' = (hooks \ {h}) \union
                       {[h EXCEPT !.rev = new.rev, !.prior = PriorIntent(h, l)]}
                  /\ UNCHANGED native

Reopened(h, l) ==
    Write(h, l, [Fields EXCEPT !.intent = h.prior, !.cont = Codex])

(* Mutant: The Stop does not look again. *)
BlockAnyway(h) ==
    LET l == lease[h.actor] IN
    /\ h.event = "stop" /\ h.rev > 0
    /\ \/ Put(h, Reopened(h, l)) /\ End(h, TRUE)
       \/ Put(h, l) /\ End(h, FALSE)
    /\ UNCHANGED lost

(* Then, if there is news for its turn and nothing has touched the tombstone, it
   opens the lease again and blocks. *)
Block(h) ==
    LET l == lease[h.actor] IN
    /\ h.event = "stop" /\ h.rev > 0
    /\ \/ Tombstone(l) /\ l.rev = h.rev /\ Put(h, Reopened(h, l)) /\ End(h, TRUE)
       \/ Put(h, l) /\ End(h, FALSE)
    /\ UNCHANGED lost

-----------------------------------------------------------------------------
(* Time *)

(* A lease runs out; of a tombstone, its day, which no hook outlives. *)
Expire(a) ==
    /\ session.ages /\ lease[a] # NoLease /\ lease[a].live
    /\ Tombstone(lease[a]) => \A h \in hooks : h.actor # a
    /\ lease' = [lease EXCEPT ![a].live = FALSE]
    /\ UNCHANGED <<session, native, hooks, reaping, seen, lost, faults>>

(* reapExpiredIdle of some other session's hook. *)
FindReapable(a) ==
    /\ Tombstone(lease[a]) /\ ~lease[a].live /\ a \notin reaping
    /\ reaping' = reaping \union {a}
    /\ UNCHANGED <<session, native, hooks, lease, seen, lost, faults>>

(* Mutant: It is not looked at again under the lock. *)
ReapUnseen(a) ==
    /\ a \in reaping
    /\ reaping' = reaping \ {a}
    /\ lease' = [lease EXCEPT ![a] = NoLease]
    /\ UNCHANGED <<session, native, hooks, seen, lost, faults>>

Reap(a) ==
    /\ a \in reaping
    /\ reaping' = reaping \ {a}
    /\ lease' = [lease EXCEPT ![a] =
                    IF Tombstone(@) /\ ~@.live THEN NoLease ELSE @]
    /\ UNCHANGED <<session, native, hooks, seen, lost, faults>>

Next ==
    \/ SubmitPrompt \/ QueuePrompt \/ ContinueGoal \/ FollowUp
    \/ StartSubagent \/ PromptSubagent \/ FinishWithFailure \/ EndSession \/ Interrupt
    \/ \E a \in Actors :
        \/ StartTool(a) \/ EndBatch(a) \/ Compact(a) \/ Finish(a)
        \/ Expire(a) \/ FindReapable(a) \/ Reap(a)
        \/ \E t \in 1..session.tools : AskPermission(a, t) \/ EndTool(a, t)
    \/ \E h \in hooks : TimeOut(h) \/ Settle(h) \/ Stop(h) \/ Block(h)

Spec == Init /\ [][Next]_vars

-----------------------------------------------------------------------------
(* Properties *)

TypeOK ==
    /\ \A a \in Actors :
          /\ native[a].phase \in {"idle", "open", "stopping"}
          /\ native[a].turn \in 0..MaxTurn
          /\ native[a].tools \subseteq 1..native[a].used
          /\ lease[a] # NoLease =>
                /\ lease[a].rev \in Nat \ {0} /\ lease[a].turn \in 0..MaxTurn
                /\ lease[a].state \in {"working", "waiting", "idle"}
                /\ lease[a].claims \subseteq (1..MaxTurn) \X (0..session.tools)
                /\ Tombstone(lease[a]) => lease[a].claims = {} /\ ~lease[a].cont
    /\ \A h \in hooks : h.turn \in 1..native[h.actor].turn
    /\ reaping \subseteq Actors /\ faults \in 0..session.faults

(* The events whose hooks may be late, or die, without harm: those of tool
   calls and compactions, and, as Codex names turns, a subagent's beginnings. *)
Tolerated(a) ==
    {"pre", "perm", "post", "batch", "precompact", "postcompact"}
    \union (IF Codex /\ a = "child" THEN {"start", "prompt"} ELSE {})

InOrder(a) == lost[a] \subseteq Tolerated(a)

(* In every order of its hooks the lease ends up telling the truth: when they
   have all ended it is idle if the turn has ended, and visible if it goes on,
   blocked or not ("making either event order converge to idle",
   hooks/codex.ts).  An interrupted turn gets no Stop. *)
QuietLeaseIsTrue ==
    /\ TypeOK
    /\ \A a \in Actors :
          (InOrder(a) /\ native[a].how = "stop" /\ \A h \in hooks : h.actor # a) =>
              /\ native[a].phase = "idle" => ~Visible(lease[a])
              /\ (Open(a) /\ lease[a] # NoLease /\ lease[a].live
                  /\ seen[a] = native[a].turn) => Visible(lease[a])

(* "A Stop hook writes an idle tombstone ... so a delayed earlier hook cannot
   resurrect stale activity" (spec/barbaro-v1.md): a tombstone never gives way
   to a turn that has had its Stop.  An interrupted turn has none, and shows
   until it expires. *)
NoRevival ==
    \A a \in Actors :
        (InOrder(a) /\ Tombstone(lease[a]) /\ lease'[a] # NoLease /\ ~Tombstone(lease'[a]))
        => native[a].phase # "idle" \/ native[a].how = "interrupt"

(* "Delayed turn events cannot overwrite the authoritative newer prompt": no
   hook of an older Codex turn writes a lease that a newer one has written.  Late
   prompts write as they are. *)
TurnsGoForward ==
    \A a \in Actors :
        (/\ Codex /\ "prompt" \notin lost["main"]
         /\ lease'[a] # NoLease /\ Revision(lease'[a]) # Revision(lease[a])
         /\ lease'[a].turn # 0) => lease'[a].turn >= seen[a]

(* The hook of a call of the running batch of a that awaits peers has run: it
   withdraws the claims of the calls beside it (hooks/claude.ts, PreToolUse). *)
Withdrawn(a) ==
    \E w \in session.awaits \cap (native[a].batched + 1 .. native[a].used) :
        ~CallAwaits(a, w, {"pre"})

(* The claims of Claude's running calls stay visible while others end:
   "clearing the whole lease here would falsely advertise sibling paths as
   free" (hooks/claude.ts).  Input queued in between clears them all, and so
   does a call beside them that awaits peers. *)
RunningCallsClaimed ==
    \A a \in Actors :
        LET n == native[a] IN
        (/\ Claude /\ lost[a] = {} /\ ~n.prompted /\ ~Withdrawn(a)
         /\ \A h \in hooks : h.actor = a => h.event \notin {"prompt", "start"}) =>
            \A t \in n.tools \ session.awaits :
                CallAwaits(a, t, {"pre"}) \/ <<n.turn, t>> \in KeptClaims(lease[a])

(* "Newer activity either wins before the continuation and no latch is claimed,
   or follows a successfully reopened Stop" (docs/workstreams.md): a Codex Stop
   blocks only a turn that no newer turn's hook has followed, unless a late
   prompt has put the old turn back. *)
BlocksNewestTurn ==
    [][\A h \in hooks :
          (/\ Codex /\ "prompt" \notin lost["main"]
           /\ h.rev > 0 /\ h \notin hooks' /\ lease'[h.actor] # lease[h.actor])
          => seen[h.actor] = h.turn]_vars

(* "A concurrent revival survives" the reaper (active/store.ts). *)
RevivalSurvives ==
    \A a \in Actors : Visible(lease[a]) => lease'[a] # NoLease

(* What an earlier state of a lease rules out for every later one. *)
NothingStaleWins == [][NoRevival /\ TurnsGoForward /\ RevivalSurvives]_vars

=============================================================================
