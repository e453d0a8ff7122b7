------------------------- MODULE ActiveLeaseProofs -------------------------
(***************************************************************************)
(* Theorems of ActiveLease: for any sessions, calls, turns and faults.     *)
(***************************************************************************)
EXTENDS ActiveLease, TLAPS

-----------------------------------------------------------------------------
(* Types *)

ClaudeEvents == Events \ {"perm", "precompact", "postcompact"}
CodexEvents == Events \ {"batch", "failure"}

Natives ==
    [turn : Nat, phase : {"idle", "open", "stopping"}, how : {"stop", "interrupt"},
     cont : BOOLEAN, prompted : BOOLEAN, tools : SUBSET Nat, asked : SUBSET Nat,
     used : Nat, batched : Nat, compacted : Nat, closed : BOOLEAN]

Hooks ==
    [event : IF Codex THEN CodexEvents ELSE ClaudeEvents, actor : Actors, turn : Nat,
     tool : Nat, flag : BOOLEAN, waited : BOOLEAN, rev : Nat, prior : Nat]

Types ==
    /\ session \in Sessions
    /\ native \in [Actors -> Natives]
    /\ hooks \subseteq Hooks
    /\ lease \in [Actors -> Leases \union {NoLease}]
    /\ reaping \subseteq Actors
    /\ seen \in [Actors -> Nat]
    /\ lost \in [Actors -> SUBSET Events]
    /\ faults \in Nat

FieldSet ==
    [state : {"working", "waiting", "idle"}, intent : Nat, claims : SUBSET (Nat \X Nat),
     action : {"none", "tool", "compact"}, cont : BOOLEAN]

LEMMA SessionType ==
    ASSUME Types
    PROVE  /\ session.provider \in {"codex", "claude"}
           /\ session.tools \in Nat /\ session.faults \in Nat
           /\ session.events \in [Actors -> SUBSET Events]
           /\ session.awaits \subseteq Nat
BY LeaseAssumption DEF Types

LEMMA FieldsType == Fields \in FieldSet
BY DEF Fields, FieldSet

(* What a hook writes is a lease. *)
LEMMA WriteType ==
    ASSUME NEW h \in Hooks, NEW l \in Leases \union {NoLease}, NEW F \in FieldSet
    PROVE  /\ Write(h, l, F) \in Leases
           /\ Write(h, l, F) # NoLease
           /\ Write(h, l, F).state = F.state /\ Write(h, l, F).claims = F.claims
           /\ Write(h, l, F).turn = TurnId(h)
<1>1. Revision(l) + 1 \in Nat \ {0}
  BY DEF Revision, Leases
<1>2. TurnId(h) \in Nat
  BY DEF TurnId, Hooks
<1>3. Write(h, l, F) \in Leases
  <2> DEFINE r == Revision(l) + 1
             t == TurnId(h)
  <2>1. r \in Nat \ {0} /\ t \in Nat
    BY <1>1, <1>2
  <2>2. Write(h, l, F) = [rev |-> r, turn |-> t, live |-> TRUE, state |-> F.state,
                          intent |-> F.intent, claims |-> F.claims,
                          action |-> F.action, cont |-> F.cont]
    BY DEF Write
  <2> HIDE DEF r, t
  <2> QED BY <2>1, <2>2 DEF Leases, FieldSet
<1>4. Write(h, l, F) # NoLease
  BY <1>3, LeaseAssumption
<1> QED BY <1>3, <1>4 DEF Write

LEMMA WriteBusy ==
    ASSUME NEW h \in Hooks, NEW l \in Leases \union {NoLease}, NEW F \in FieldSet,
           F.state # "idle"
    PROVE  /\ Write(h, l, F) \in Leases /\ Write(h, l, F) # NoLease
           /\ ~Tombstone(Write(h, l, F))
           /\ Write(h, l, F).turn = TurnId(h)
BY WriteType DEF Tombstone

LEMMA CallType ==
    ASSUME NEW h \in Hooks
    PROVE  /\ Call(h) \in Nat \X Nat
           /\ ClaimsOf(h) \subseteq {Call(h)} /\ ClaimsOf(h) \subseteq Nat \X Nat
           /\ StateOf(h) \in {"working", "waiting"} /\ StateOf(h) # "idle"
BY DEF Call, Hooks, ClaimsOf, StateOf

LEMMA CarriedType ==
    ASSUME NEW h \in Hooks, NEW l \in Leases \union {NoLease}
    PROVE  Carried(h, l) \in FieldSet
BY DEF Carried, SameTurn, Fields, FieldSet, Leases

LEMMA IdleType ==
    ASSUME NEW h \in Hooks, NEW l \in Leases \union {NoLease}
    PROVE  Idle(h, l) \in Leases /\ Idle(h, l) # NoLease /\ Tombstone(Idle(h, l))
<1>1. [Fields EXCEPT !.state = "idle"] \in FieldSet
  BY DEF Fields, FieldSet
<1> QED BY <1>1, WriteType DEF Idle, Tombstone, Fields

LEMMA ReopenedType ==
    ASSUME Types, NEW h \in Hooks, NEW l \in Leases \union {NoLease}
    PROVE  Reopened(h, l) \in Leases /\ Reopened(h, l) # NoLease
           /\ ~Tombstone(Reopened(h, l)) /\ Reopened(h, l).turn = TurnId(h)
<1> DEFINE p == h.prior
<1>1. Codex \in BOOLEAN /\ p \in Nat
  BY DEF Codex, Hooks
<1>2. [Fields EXCEPT !.intent = p, !.cont = Codex] \in FieldSet
      /\ [Fields EXCEPT !.intent = p, !.cont = Codex].state # "idle"
  <2> HIDE DEF p
  <2> QED BY <1>1 DEF Fields, FieldSet
<1>3. Reopened(h, l) = Write(h, l, [Fields EXCEPT !.intent = p, !.cont = Codex])
  BY DEF Reopened
<1> HIDE DEF p
<1> QED BY <1>2, <1>3, WriteBusy

-----------------------------------------------------------------------------
(* An event leaves the lease or makes a lease of it. *)

ToolFields(h, l) ==
    [Fields EXCEPT !.state = StateOf(h), !.intent = KeptIntent(l), !.action = "tool",
                   !.claims = IF Waits(h) THEN {} ELSE KeptClaims(l) \union {Call(h)}]

LEMMA ClaudeToolWrites ==
    ASSUME NEW h \in Hooks, NEW l \in Leases \union {NoLease}
    PROVE  /\ [Fields EXCEPT !.intent = h.turn] \in FieldSet
           /\ [Fields EXCEPT !.claims = {Call(h)}] \in FieldSet
           /\ ToolFields(h, l) \in FieldSet /\ ToolFields(h, l).state # "idle"
           /\ l # NoLease => [Fields EXCEPT !.intent = l.intent] \in FieldSet
<1>1. Call(h) \in Nat \X Nat /\ h.turn \in Nat
  BY CallType DEF Hooks
<1>2. KeptIntent(l) \in Nat /\ KeptClaims(l) \subseteq Nat \X Nat
  BY DEF KeptIntent, KeptClaims, Leases
<1>3. l # NoLease => l.intent \in Nat
  BY DEF Leases
<1>4. ToolFields(h, l) \in FieldSet /\ ToolFields(h, l).state # "idle"
  <2> DEFINE c == IF Waits(h) THEN {} ELSE KeptClaims(l) \union {Call(h)}
             s == StateOf(h)
             i == KeptIntent(l)
  <2>1. c \subseteq Nat \X Nat /\ s \in {"working", "waiting"} /\ s # "idle" /\ i \in Nat
    BY <1>1, <1>2, CallType
  <2>2. ToolFields(h, l) = [Fields EXCEPT !.state = s, !.intent = i, !.action = "tool",
                                          !.claims = c]
    BY DEF ToolFields
  <2> HIDE DEF c, s, i
  <2> QED BY <2>1, <2>2 DEF Fields, FieldSet
<1> QED BY <1>1, <1>3, <1>4 DEF Fields, FieldSet

LEMMA CodexToolType ==
    ASSUME NEW h \in Hooks, NEW l \in Leases \union {NoLease},
           h.event \in {"pre", "perm", "post", "precompact", "postcompact"}
    PROVE  CodexToolUpdate(h, l) \in Leases /\ CodexToolUpdate(h, l) # NoLease
           /\ CodexToolUpdate(h, l).turn = TurnId(h)
           /\ ~Tombstone(CodexToolUpdate(h, l))
<1> DEFINE C == Carried(h, l)
           c == ClaimsOf(h)
           w == StateOf(h)
<1>1. /\ C \in FieldSet /\ c \subseteq Nat \X Nat /\ C.state = "working"
      /\ w \in {"working", "waiting"} /\ w # "idle"
  BY CarriedType, CallType DEF Carried, Fields
<1>2. CASE h.event = "pre"
  <2> DEFINE F == [C EXCEPT !.state = w, !.claims = c, !.action = "tool"]
  <2>1. F \in FieldSet /\ F.state # "idle"
    <3> HIDE DEF C, c, w
    <3> QED BY <1>1 DEF FieldSet
  <2>2. CodexToolUpdate(h, l) = Write(h, l, F)
    BY <1>2 DEF CodexToolUpdate
  <2> HIDE DEF F
  <2> QED BY <2>1, <2>2, WriteBusy
<1>3. CASE h.event = "perm"
  <2> DEFINE a == IF SameTurn(h, l) /\ l.action # "none" THEN l.action ELSE "tool"
             s == IF SameTurn(h, l) /\ l.action # "none" /\ ~Waits(h) THEN l.claims ELSE c
  <2>1. a \in {"none", "tool", "compact"} /\ s \subseteq Nat \X Nat
    BY <1>1 DEF SameTurn, Leases
  <2>2. CodexToolUpdate(h, l) =
            Write(h, l, [C EXCEPT !.state = "waiting", !.action = a, !.claims = s])
    BY <1>3 DEF CodexToolUpdate
  <2>3. [C EXCEPT !.state = "waiting", !.action = a, !.claims = s] \in FieldSet
        /\ [C EXCEPT !.state = "waiting", !.action = a, !.claims = s].state = "waiting"
    <3> HIDE DEF C, a, s
    <3> QED BY <1>1, <2>1 DEF FieldSet
  <2> HIDE DEF C, a, s
  <2> QED BY <2>2, <2>3, WriteBusy
<1>4. CASE h.event = "post"
  <2>1. CodexToolUpdate(h, l) = Write(h, l, C)
    BY <1>4 DEF CodexToolUpdate
  <2> HIDE DEF C
  <2> QED BY <1>1, <2>1, WriteBusy
<1>5. CASE h.event \in {"precompact", "postcompact"}
  <2> DEFINE i == IF l = NoLease THEN 0 ELSE l.intent
             a == IF h.event = "precompact" THEN "compact" ELSE "none"
  <2>1. i \in Nat /\ a \in {"none", "tool", "compact"}
    BY DEF Leases
  <2>2. CodexToolUpdate(h, l) = Write(h, l, [C EXCEPT !.intent = i, !.action = a])
    BY <1>5 DEF CodexToolUpdate
  <2>3. [C EXCEPT !.intent = i, !.action = a] \in FieldSet
        /\ [C EXCEPT !.intent = i, !.action = a].state = "working"
    <3> HIDE DEF C, a, i
    <3> QED BY <1>1, <2>1 DEF FieldSet
  <2> HIDE DEF C, a, i
  <2> QED BY <2>2, <2>3, WriteBusy
<1> QED BY <1>2, <1>3, <1>4, <1>5

LEMMA UpdateType ==
    ASSUME Types, NEW h \in Hooks, NEW l \in Leases \union {NoLease},
           NEW r \in BOOLEAN
    PROVE  \/ Update(h, l, r) = l
           \/ Update(h, l, r) \in Leases /\ Update(h, l, r) # NoLease
              /\ Update(h, l, r).turn = TurnId(h)
<1>1. Write(h, l, [Fields EXCEPT !.intent = h.turn]) \in Leases
      /\ Write(h, l, [Fields EXCEPT !.intent = h.turn]).turn = TurnId(h)
  BY ClaudeToolWrites, WriteType
<1>2. Write(h, l, Fields) \in Leases /\ Write(h, l, Fields).turn = TurnId(h)
  BY FieldsType, WriteType
<1>3. Idle(h, l) \in Leases /\ Idle(h, l).turn = TurnId(h)
  BY IdleType DEF Idle, Write
<1>4. CASE Codex
  <2>1. h.event \in CodexEvents
    BY <1>4 DEF Hooks
  <2>2. \/ CodexUpdate(h, l, r) = l
        \/ CodexUpdate(h, l, r) \in Leases /\ CodexUpdate(h, l, r).turn = TurnId(h)
    BY <2>1, <1>1, <1>2, <1>3, CodexToolType DEF CodexEvents, Events, CodexUpdate
  <2> QED BY <2>2, <1>4, LeaseAssumption DEF Update
<1>5. CASE ~Codex
  <2>1. h.event \in ClaudeEvents
    BY <1>5 DEF Hooks
  <2>2. \/ ClaudeUpdate(h, l) = l
        \/ ClaudeUpdate(h, l) \in Leases /\ ClaudeUpdate(h, l).turn = TurnId(h)
    BY <2>1, <1>1, <1>3, ClaudeToolWrites, WriteType
       DEF ClaudeEvents, Events, ClaudeUpdate, ClaudePost, ToolFields
  <2> QED BY <2>2, <1>5, LeaseAssumption DEF Update
<1> QED BY <1>4, <1>5

-----------------------------------------------------------------------------
(* Every step keeps the types. *)

LEMMA NewTurnType == ASSUME NEW t \in Nat PROVE NewTurn(t) \in Natives
BY DEF NewTurn, Natives

LEMMA ReturnedType ==
    ASSUME NEW n \in Natives, NEW h \in Hooks, NEW b \in BOOLEAN
    PROVE  Returned(n, h, b) \in Natives
BY DEF Returned, Natives

LEMMA InitTypes == Init => Types
<1> SUFFICES ASSUME Init PROVE Types
  OBVIOUS
<1>1. [NewTurn(0) EXCEPT !.phase = "idle"] \in Natives
  BY DEF NewTurn, Natives
<1> QED BY <1>1 DEF Init, Types

LEMMA FireType ==
    ASSUME Types, NEW a \in Actors, NEW n \in Natives, NEW tool \in Nat,
           NEW e \in (IF Codex THEN CodexEvents ELSE ClaudeEvents),
           Fire(a, n, e, tool)
    PROVE  Types'
<1>1. native'[a] = n /\ native' \in [Actors -> Natives]
  BY DEF Fire, Types
<1>2. Fired(a, e, tool) = [event |-> e, actor |-> a, turn |-> n.turn, tool |-> tool,
                           flag |-> n.cont, waited |-> TRUE, rev |-> 0, prior |-> 0]
  BY <1>1 DEF Fired
<1>3. n.turn \in Nat /\ n.cont \in BOOLEAN
  BY DEF Natives
<1>4. Fired(a, e, tool) \in Hooks
  BY <1>2, <1>3, TRUE \in BOOLEAN, 0 \in Nat DEF Hooks
<1> QED BY <1>1, <1>4 DEF Fire, files, Types, Hooks, Codex

LEMMA GoOnType ==
    ASSUME Types, NEW a \in Actors, NEW n \in Natives, GoOn(a, n)
    PROVE  Types'
BY DEF GoOn, files, Types, Hooks, Codex

LEMMA PutType ==
    ASSUME Types, NEW h \in Hooks, NEW l \in Leases \union {NoLease}, Put(h, l)
    PROVE  /\ lease' = [lease EXCEPT ![h.actor] = l]
           /\ lease' \in [Actors -> Leases \union {NoLease}]
           /\ seen' \in [Actors -> Nat]
           /\ session' = session /\ reaping' = reaping /\ faults' = faults
<1>1. h.actor \in Actors /\ h.turn \in Nat
  BY DEF Hooks
<1> QED BY <1>1 DEF Put, Types

LEMMA EndType ==
    ASSUME Types, NEW h \in hooks, NEW b \in BOOLEAN, End(h, b)
    PROVE  hooks' \subseteq Hooks /\ native' \in [Actors -> Natives]
<1>1. h \in Hooks /\ h.actor \in Actors
  BY DEF Types, Hooks
<1>2. Returned(native[h.actor], h, b) \in Natives
  BY <1>1, ReturnedType DEF Types
<1> QED BY <1>1, <1>2 DEF End, Types

LEMMA UnattestedType ==
    ASSUME Types, NEW h \in Hooks, NEW l, NEW r, Unattested(h, l, r)
    PROVE  /\ lost' \in [Actors -> SUBSET Events]
           /\ \A a \in Actors : lost[a] \subseteq lost'[a]
<1>1. h.actor \in Actors /\ h.event \in Events
  BY DEF Hooks, CodexEvents, ClaudeEvents
<1> QED BY <1>1 DEF Unattested, Types

(* An event of an actor whose turn goes on, or begins. *)
LEMMA ProviderTypes ==
    ASSUME Types,
           \/ SubmitPrompt \/ QueuePrompt \/ ContinueGoal \/ FollowUp
           \/ StartSubagent \/ PromptSubagent \/ FinishWithFailure \/ EndSession
    PROVE  Types'
<1> USE DEF Actors, Events, CodexEvents, ClaudeEvents
<1>0. /\ native["main"] \in Natives /\ native["child"] \in Natives
      /\ native["main"].turn \in Nat /\ native["child"].turn \in Nat
  BY DEF Types, Natives
<1>a. Claude = ~Codex
  BY SessionType DEF Claude, Codex
<1>1. CASE SubmitPrompt
  BY <1>0, <1>1, NewTurnType, FireType DEF SubmitPrompt
<1>2. CASE QueuePrompt
  <2>1. [native["main"] EXCEPT !.prompted = TRUE] \in Natives
    BY <1>0 DEF Natives
  <2> QED BY <1>2, <2>1, FireType DEF QueuePrompt
<1>3. CASE ContinueGoal
  BY <1>0, <1>3, NewTurnType, GoOnType DEF ContinueGoal
<1>4. CASE FollowUp
  BY <1>0, <1>4, NewTurnType, GoOnType DEF FollowUp
<1>5. CASE StartSubagent
  BY <1>0, <1>5, NewTurnType, FireType DEF StartSubagent
<1>6. CASE PromptSubagent
  <2>1. [native["child"] EXCEPT !.prompted = TRUE] \in Natives
    BY <1>0 DEF Natives
  <2> QED BY <1>6, <2>1, FireType DEF PromptSubagent
<1>7. CASE FinishWithFailure
  <2>1. [native["main"] EXCEPT !.phase = "idle"] \in Natives
    BY <1>0 DEF Natives
  <2> QED BY <1>7, <1>a, <2>1, FireType DEF FinishWithFailure
<1>8. CASE EndSession
  <2>1. [native["main"] EXCEPT !.closed = TRUE] \in Natives
    BY <1>0 DEF Natives
  <2> QED BY <1>8, <2>1, FireType DEF EndSession
<1> QED BY <1>1, <1>2, <1>3, <1>4, <1>5, <1>6, <1>7, <1>8

LEMMA CallTypes ==
    ASSUME Types, NEW a \in Actors,
           \/ StartTool(a) \/ EndBatch(a) \/ Compact(a) \/ Finish(a)
           \/ \E t \in 1..session.tools : AskPermission(a, t) \/ EndTool(a, t)
    PROVE  Types'
<1> USE DEF Events, CodexEvents, ClaudeEvents
<1> DEFINE n == native[a]
<1>0. n \in Natives /\ n.used \in Nat /\ n.compacted \in Nat /\ n.batched \in Nat
      /\ n.tools \subseteq Nat /\ n.asked \subseteq Nat
  BY DEF Types, Natives
<1>a. Claude = ~Codex /\ session.tools \in Nat
  BY SessionType DEF Claude, Codex
<1>1. CASE StartTool(a)
  <2>1. [n EXCEPT !.used = n.used + 1, !.tools = n.tools \union {n.used + 1}] \in Natives
    <3> DEFINE u == n.used + 1
               s == n.tools \union {n.used + 1}
    <3>1. u \in Nat /\ s \subseteq Nat
      BY <1>0
    <3>2. [n EXCEPT !.used = u, !.tools = s] \in Natives
      <4> HIDE DEF n, u, s
      <4> QED BY <1>0, <3>1 DEF Natives
    <3> QED BY <3>2
  <2>2. Fire(a, [n EXCEPT !.used = n.used + 1, !.tools = n.tools \union {n.used + 1}],
             "pre", n.used + 1)
    BY <1>1 DEF StartTool
  <2>3. n.used + 1 \in Nat
    BY <1>0
  <2> HIDE DEF n
  <2> QED BY <2>1, <2>2, <2>3, FireType
<1>2. CASE EndBatch(a)
  <2>1. [n EXCEPT !.batched = n.used] \in Natives
    <3> HIDE DEF n
    <3> QED BY <1>0 DEF Natives
  <2> QED BY <1>0, <1>2, <1>a, <2>1, FireType DEF EndBatch
<1>3. CASE Compact(a)
  <2>1. [n EXCEPT !.compacted = n.compacted + 1] \in Natives
    <3> HIDE DEF n
    <3> QED BY <1>0 DEF Natives
  <2>2. PICK e \in {"precompact", "postcompact"} :
            Codex /\ Fire(a, [n EXCEPT !.compacted = n.compacted + 1], e, 0)
    BY <1>3 DEF Compact
  <2> HIDE DEF n
  <2> QED BY <2>1, <2>2, FireType
<1>4. CASE Finish(a)
  <2>1. [n EXCEPT !.phase = "stopping"] \in Natives
    <3> HIDE DEF n
    <3> QED BY <1>0 DEF Natives
  <2> QED BY <1>4, <2>1, FireType DEF Finish
<1>5. ASSUME NEW t \in 1..session.tools, AskPermission(a, t) PROVE Types'
  <2>1. [n EXCEPT !.asked = n.asked \union {t}] \in Natives /\ t \in Nat
    <3> HIDE DEF n
    <3> QED BY <1>0, <1>a DEF Natives
  <2>2. Codex /\ Fire(a, [n EXCEPT !.asked = n.asked \union {t}], "perm", t)
    BY <1>5 DEF AskPermission
  <2> HIDE DEF n
  <2> QED BY <2>1, <2>2, FireType
<1>6. ASSUME NEW t \in 1..session.tools, EndTool(a, t) PROVE Types'
  <2>1. [n EXCEPT !.tools = n.tools \ {t}] \in Natives /\ t \in Nat
    <3> HIDE DEF n
    <3> QED BY <1>0, <1>a DEF Natives
  <2>2. Fire(a, [n EXCEPT !.tools = n.tools \ {t}], "post", t)
    BY <1>6 DEF EndTool
  <2> HIDE DEF n
  <2> QED BY <2>1, <2>2, FireType
<1> QED BY <1>1, <1>2, <1>3, <1>4, <1>5, <1>6

LEMMA FaultTypes ==
    ASSUME Types, Interrupt \/ \E h \in hooks : TimeOut(h)
    PROVE  /\ Types'
           /\ \A a \in Actors : lost[a] \subseteq lost'[a]
<1>1. CASE Interrupt
  <2>1. /\ faults' = faults + 1 /\ session' = session /\ lease' = lease
        /\ reaping' = reaping /\ seen' = seen
    BY <1>1 DEF Interrupt, Fault, files
  <2>2. native' \in [Actors -> Natives]
    <3>1. \A a \in Actors :
              [native[a] EXCEPT !.phase = "idle", !.how = "interrupt", !.tools = {}]
                  \in Natives
      BY DEF Types, Natives
    <3> QED BY <1>1, <3>1 DEF Interrupt, Types
  <2>3. \A h \in hooks : h.event \in Events /\ [h EXCEPT !.waited = FALSE] \in Hooks
    <3>1. \A h \in Hooks : h.event \in Events
      BY DEF Hooks, CodexEvents, ClaudeEvents
    <3>2. \A h \in Hooks : [h EXCEPT !.waited = FALSE] \in Hooks
      BY DEF Hooks
    <3> QED BY <3>1, <3>2 DEF Types
  <2>4. hooks' \subseteq Hooks
    BY <1>1, <2>3 DEF Interrupt
  <2>5. lost' \in [Actors -> SUBSET Events] /\ \A a \in Actors : lost[a] \subseteq lost'[a]
    BY <1>1, <2>3 DEF Interrupt, Types
  <2> QED BY <2>1, <2>2, <2>4, <2>5 DEF Types, Hooks, Codex
<1>2. ASSUME NEW h \in hooks, TimeOut(h)
      PROVE  Types' /\ \A a \in Actors : lost[a] \subseteq lost'[a]
  <2>1. /\ faults' = faults + 1 /\ session' = session /\ lease' = lease
        /\ reaping' = reaping /\ seen' = seen
    BY <1>2 DEF TimeOut, Fault, files
  <2>2. h \in Hooks /\ h.actor \in Actors /\ h.event \in Events
        /\ [h EXCEPT !.waited = FALSE] \in Hooks
    <3>1. h \in Hooks /\ h.actor \in Actors
      BY DEF Types, Hooks
    <3>2. h.event \in Events
      BY <3>1 DEF Hooks, CodexEvents, ClaudeEvents
    <3>3. [h EXCEPT !.waited = FALSE] \in Hooks
      BY <3>1 DEF Hooks
    <3> QED BY <3>1, <3>2, <3>3
  <2>3. Returned(native[h.actor], h, FALSE) \in Natives
    BY <2>2, ReturnedType DEF Types
  <2>4. native' \in [Actors -> Natives]
    BY <1>2, <2>2, <2>3 DEF TimeOut, Types
  <2>5. hooks' \subseteq Hooks
    BY <1>2, <2>2 DEF TimeOut, Types
  <2>6. lost' \in [Actors -> SUBSET Events] /\ \A a \in Actors : lost[a] \subseteq lost'[a]
    BY <1>2, <2>2 DEF TimeOut, Types
  <2> QED BY <2>1, <2>4, <2>5, <2>6 DEF Types, Hooks, Codex
<1> QED BY <1>1, <1>2

LEMMA HookTypes ==
    ASSUME Types, NEW h \in hooks, Settle(h) \/ Stop(h) \/ Block(h)
    PROVE  /\ Types'
           /\ \A a \in Actors : lost[a] \subseteq lost'[a]
<1> DEFINE l == lease[h.actor]
<1>0. h \in Hooks /\ h.actor \in Actors /\ l \in Leases \union {NoLease}
  BY DEF Types, Hooks
<1>1. CASE Settle(h)
  <2>1. PICK r \in BOOLEAN : Put(h, Update(h, l, r)) /\ Unattested(h, l, r)
    BY <1>1 DEF Settle
  <2>2. Update(h, l, r) \in Leases \union {NoLease}
    BY <1>0, UpdateType
  <2>3. End(h, FALSE)
    BY <1>1 DEF Settle
  <2> HIDE DEF l
  <2> QED BY <1>0, <2>1, <2>2, <2>3, PutType, EndType, UnattestedType
          DEF Types, Hooks, Codex
<1>2. CASE Stop(h)
  <2>1. PICK r \in BOOLEAN :
          LET new == Update(h, l, r) IN
          /\ Put(h, new) /\ Unattested(h, l, r)
          /\ IF new = l \/ h.flag THEN End(h, FALSE)
             ELSE /\ hooks' = (hooks \ {h}) \union
                       {[h EXCEPT !.rev = new.rev, !.prior = PriorIntent(h, l)]}
                  /\ UNCHANGED native
    BY <1>2 DEF Stop
  <2> DEFINE new == Update(h, l, r)
  <2>2. new \in Leases \union {NoLease} /\ (new # l => new \in Leases)
    BY <1>0, UpdateType
  <2>3. PriorIntent(h, l) \in Nat
    BY <1>0 DEF PriorIntent, Leases
  <2>4. new # l => [h EXCEPT !.rev = new.rev, !.prior = PriorIntent(h, l)] \in Hooks
    <3> SUFFICES ASSUME new # l
                 PROVE [h EXCEPT !.rev = new.rev, !.prior = PriorIntent(h, l)] \in Hooks
      OBVIOUS
    <3>1. new.rev \in Nat
      BY <2>2 DEF Leases
    <3> HIDE DEF new, l
    <3> QED BY <1>0, <2>3, <3>1 DEF Hooks
  <2>5. hooks' \subseteq Hooks /\ native' \in [Actors -> Natives]
    <3>1. CASE new = l \/ h.flag
      <4>1. End(h, FALSE)
        BY <2>1, <3>1
      <4> QED BY <4>1, EndType
    <3>2. CASE ~(new = l \/ h.flag)
      <4>1. hooks' = (hooks \ {h}) \union
                       {[h EXCEPT !.rev = new.rev, !.prior = PriorIntent(h, l)]}
            /\ native' = native
        BY <2>1, <3>2
      <4> HIDE DEF new, l
      <4> QED BY <4>1, <2>4, <3>2 DEF Types
    <3> QED BY <3>1, <3>2
  <2>6. Put(h, new) /\ Unattested(h, l, r)
    BY <2>1
  <2> HIDE DEF l, new
  <2> QED BY <1>0, <2>2, <2>5, <2>6, PutType, UnattestedType DEF Types, Hooks, Codex
<1>3. CASE Block(h)
  <2>1. PICK m \in Leases \union {NoLease} : Put(h, m)
    BY <1>0, <1>3, ReopenedType DEF Block
  <2>2. PICK b \in BOOLEAN : End(h, b)
    BY <1>3 DEF Block
  <2>3. lost' = lost
    BY <1>3 DEF Block
  <2> HIDE DEF l
  <2> QED BY <1>0, <2>1, <2>2, <2>3, PutType, EndType DEF Types, Hooks, Codex
<1> QED BY <1>1, <1>2, <1>3

LEMMA TimeTypes ==
    ASSUME Types, NEW a \in Actors, Expire(a) \/ FindReapable(a) \/ Reap(a)
    PROVE  Types'
<1>1. CASE Expire(a)
  <2>1. lease[a] \in Leases
    BY <1>1 DEF Expire, Types
  <2>2. [lease[a] EXCEPT !.live = FALSE] \in Leases
    BY <2>1 DEF Leases
  <2> QED BY <1>1, <2>2 DEF Expire, Types, Hooks, Codex
<1>2. CASE FindReapable(a)
  BY <1>2 DEF FindReapable, Types, Hooks, Codex
<1>3. CASE Reap(a)
  BY <1>3 DEF Reap, Types, Hooks, Codex
<1> QED BY <1>1, <1>2, <1>3

LEMMA StepTypes == Types /\ [Next]_vars => Types'
<1> SUFFICES ASSUME Types, [Next]_vars PROVE Types'
  OBVIOUS
<1>1. CASE UNCHANGED vars
  BY <1>1 DEF vars, Types, Hooks, Codex
<1>2. CASE Next
  BY <1>2, ProviderTypes, CallTypes, FaultTypes, HookTypes, TimeTypes DEF Next
<1> QED BY <1>1, <1>2

-----------------------------------------------------------------------------
(* What holds of an actor of Claude whose hooks were all waited for: its
   native turn n, its hooks H and its lease l. *)

Ending == {"stop", "substop", "failure", "session"}
Opening == {"prompt", "start"}

Unstarted(n, H) == n.turn = 0 => n.phase = "idle" /\ H = {}

Waited(H) == \A h \in H : h.waited

(* Hooks of tool calls end before the turn does, ... *)
CallsOfTurn(n, H) ==
    \A h \in H : h.event \in CallEvents => n.phase = "open" /\ h.turn = n.turn

ToolsInTurn(n) == n.tools # {} => n.phase = "open"

(* ... and a hook that ends the turn has the actor for itself. *)
EndsAlone(n, H) ==
    \A h \in H : h.event \in Ending => n.phase # "open" /\ H = {h}

BatchesDone(n, H) == \A h \in H : h.event = "batch" => n.tools = {}

(* A prompt or start whose hook still runs has started nothing, but one of input
   that was queued. *)
StartsFirst(n, H) ==
    \A h \in H : h.event \in Opening /\ ~n.prompted => n.tools = {}

Begun(n, H) == ~n.prompted /\ \A h \in H : h.event \notin Opening

(* The turn that has begun shows, ... *)
Shows(n, H, l) == n.phase = "open" /\ Begun(n, H) => ~Tombstone(l)

(* The hook of a call is of the running batch, and the only one of its call. *)
BatchCalls(n, H) ==
    /\ n.batched <= n.used
    /\ \A h \in H : h.event = "pre" =>
          /\ h.tool \in n.batched + 1 .. n.used
          /\ \A g \in H : g.event = "pre" /\ g.tool = h.tool => g = h

(* Of the calls W that await peers, one of the running batch has had its hook, ... *)
Withdraws(n, H, W) ==
    \E w \in W \cap (n.batched + 1 .. n.used) :
        ~\E h \in H : h.event = "pre" /\ h.tool = w

(* ... or the running calls show too. *)
Claimed(n, H, l, W) ==
    Begun(n, H) /\ ~Withdraws(n, H, W) =>
        \A t \in n.tools \ W :
            \/ \E h \in H : h.event = "pre" /\ h.tool = t
            \/ <<n.turn, t>> \in KeptClaims(l)

Orderly(n, H, l, W) ==
    /\ Unstarted(n, H) /\ Waited(H) /\ CallsOfTurn(n, H) /\ ToolsInTurn(n) /\ EndsAlone(n, H)
    /\ BatchesDone(n, H) /\ BatchCalls(n, H) /\ StartsFirst(n, H) /\ Shows(n, H, l)
    /\ Claimed(n, H, l, W)

Own(a) == {h \in hooks : h.actor = a}

InOrderly ==
    \A a \in Actors :
        Claude /\ lost[a] = {} => Orderly(native[a], Own(a), lease[a], session.awaits)

ClaudeInv == Types /\ InOrderly

-----------------------------------------------------------------------------
(* The provider's steps *)

LEMMA TurnStarts ==
    ASSUME NEW n, NEW H, NEW l, NEW W, Orderly(n, H, l, W), NEW t \in Nat \ {0}, NEW x,
           n.phase = "idle", \A h \in H : h.event \in CallEvents,
           x.event \in Opening, x.waited
    PROVE  Orderly(NewTurn(t), H \union {x}, l, W)
<1>1. H = {}
  BY DEF Orderly, CallsOfTurn
<1>2. /\ NewTurn(t).turn = t /\ NewTurn(t).phase = "open"
      /\ NewTurn(t).tools = {} /\ ~NewTurn(t).prompted
      /\ NewTurn(t).batched <= NewTurn(t).used
  BY DEF NewTurn
<1>3. H \union {x} = {x}
  BY <1>1
<1>4. x.event \notin CallEvents /\ x.event \notin Ending /\ x.event \notin {"batch", "pre"}
  BY DEF CallEvents, Ending, Opening
<1>5. BatchCalls(NewTurn(t), {x})
  BY <1>2, <1>4 DEF BatchCalls
<1> QED BY <1>2, <1>3, <1>4, <1>5
        DEF Orderly, Unstarted, Waited, CallsOfTurn, ToolsInTurn, EndsAlone, BatchesDone,
            StartsFirst, Begun, Shows, Claimed

LEMMA TurnEnds ==
    ASSUME NEW n, NEW H, NEW l, NEW W, Orderly(n, H, l, W), NEW m, NEW x,
           \A h \in H : h.event \in CallEvents, n.tools = {},
           n.phase # "open" \/ \A h \in H : h.event \notin CallEvents,
           m.turn # 0, m.phase # "open", m.tools = n.tools,
           m.used = n.used, m.batched = n.batched,
           x.event \in Ending, x.waited
    PROVE  Orderly(m, H \union {x}, l, W)
<1>1. H = {}
  BY DEF Orderly, CallsOfTurn
<1>3. H \union {x} = {x}
  BY <1>1
<1>4. x.event \notin CallEvents /\ x.event \notin Opening
      /\ x.event \notin {"batch", "pre"}
  BY DEF CallEvents, Ending, Opening
<1>5. BatchCalls(m, {x})
  BY <1>4 DEF Orderly, BatchCalls
<1> QED BY <1>3, <1>4, <1>5
        DEF Orderly, Unstarted, Waited, CallsOfTurn, ToolsInTurn, EndsAlone, BatchesDone,
            StartsFirst, Begun, Shows, Claimed

(* A hook of the running turn starts. *)
LEMMA HookStarts ==
    ASSUME NEW n, NEW H, NEW l, NEW W, Orderly(n, H, l, W), NEW m, NEW x,
           n.phase = "open", m.phase = "open", m.turn = n.turn,
           x.waited, x.turn = m.turn, x.event \notin Ending,
           n.prompted => m.prompted,
           x.event \in Opening => m.prompted,
           m.prompted = n.prompted \/ x.event \in Opening,
           m.tools \subseteq n.tools \/ \A h \in H : h.event \in CallEvents,
           x.event = "batch" => m.tools = {},
           \A t \in m.tools \ n.tools : x.event = "pre" /\ x.tool = t,
           BatchCalls(m, H \union {x}),
           \/ m.tools = {}
           \/ \A w \in n.batched + 1 .. n.used :
                 w \in m.batched + 1 .. m.used /\ ~(x.event = "pre" /\ x.tool = w)
    PROVE  Orderly(m, H \union {x}, l, W)
<1> USE DEF CallEvents, Opening, Ending
<1>1. Unstarted(m, H \union {x})
  BY DEF Orderly, Unstarted
<1>2. Waited(H \union {x})
  BY DEF Orderly, Waited
<1>3. CallsOfTurn(m, H \union {x})
  BY DEF Orderly, CallsOfTurn
<1>4. ToolsInTurn(m)
  BY DEF ToolsInTurn
<1>5. EndsAlone(m, H \union {x})
  BY DEF Orderly, EndsAlone
<1>6. BatchesDone(m, H \union {x})
  BY DEF Orderly, BatchesDone
<1>7. StartsFirst(m, H \union {x})
  BY DEF Orderly, StartsFirst
<1>8. Begun(m, H \union {x}) => Begun(n, H)
  BY DEF Begun
<1>9. Shows(m, H \union {x}, l)
  BY <1>8 DEF Orderly, Shows
<1>10. Claimed(m, H \union {x}, l, W)
  <2>1. m.tools = {} \/ (Withdraws(n, H, W) => Withdraws(m, H \union {x}, W))
    BY DEF Withdraws
  <2> QED BY <1>8, <2>1 DEF Orderly, Claimed
<1> QED BY <1>1, <1>2, <1>3, <1>4, <1>5, <1>6, <1>7, <1>9, <1>10 DEF Orderly

LEMMA FireFrame ==
    ASSUME Types, NEW a \in Actors, NEW n, NEW e, NEW tool, Fire(a, n, e, tool)
    PROVE  /\ native'[a] = n
           /\ \E x : /\ x.event = e /\ x.tool = tool /\ x.turn = n.turn /\ x.waited
                     /\ Own(a)' = Own(a) \union {x}
           /\ \A b \in Actors \ {a} : native'[b] = native[b] /\ Own(b)' = Own(b)
           /\ lease' = lease /\ lost' = lost /\ session' = session
<1>1. native'[a] = n /\ \A b \in Actors \ {a} : native'[b] = native[b]
  BY DEF Fire, Types
<1> DEFINE x == Fired(a, e, tool)
<1>2. x.event = e /\ x.tool = tool /\ x.turn = n.turn /\ x.waited /\ x.actor = a
  BY <1>1 DEF Fired
<1>3. hooks' = hooks \union {x}
  BY DEF Fire
<1> HIDE DEF x
<1>4. Own(a)' = Own(a) \union {x} /\ \A b \in Actors \ {a} : Own(b)' = Own(b)
  BY <1>2, <1>3 DEF Own
<1> QED BY <1>1, <1>2, <1>4 DEF Fire, files

(* A hook starts, and its actor stays in order. *)
LEMMA Fires ==
    ASSUME Types, InOrderly, NEW a \in Actors, NEW n, NEW e, NEW tool, Fire(a, n, e, tool),
           \A x : /\ x.event = e /\ x.tool = tool /\ x.turn = n.turn /\ x.waited
                  /\ Claude /\ lost[a] = {} /\ Orderly(native[a], Own(a), lease[a], session.awaits)
                  => Orderly(n, Own(a) \union {x}, lease[a], session.awaits)
    PROVE  InOrderly'
<1>1. PICK x : /\ x.event = e /\ x.tool = tool /\ x.turn = n.turn /\ x.waited
               /\ Own(a)' = Own(a) \union {x}
  BY FireFrame
<1>2. /\ native'[a] = n
      /\ \A b \in Actors \ {a} : native'[b] = native[b] /\ Own(b)' = Own(b)
      /\ lease' = lease /\ lost' = lost /\ session' = session
  BY FireFrame
<1> QED BY <1>1, <1>2 DEF InOrderly, Claude

(* What a hook that an actor waits for does not stop. *)
LEMMA Freed ==
    ASSUME NEW a \in Actors, Free(a), Orderly(native[a], Own(a), lease[a], session.awaits)
    PROVE  \A h \in Own(a) : h.event \in CallEvents
BY DEF Free, Own, Orderly, Waited

LEMMA NoCalls ==
    ASSUME NEW a \in Actors, ~Awaits(a, CallEvents),
           Orderly(native[a], Own(a), lease[a], session.awaits)
    PROVE  \A h \in Own(a) : h.event \notin CallEvents
BY DEF Awaits, Own, Orderly, Waited

LEMMA ProviderOrder ==
    ASSUME ClaudeInv, Claude,
           \/ SubmitPrompt \/ QueuePrompt \/ ContinueGoal \/ FollowUp
           \/ StartSubagent \/ PromptSubagent \/ FinishWithFailure \/ EndSession
    PROVE  InOrderly'
<1> USE DEF ClaudeInv
<1>0. /\ "main" \in Actors /\ "child" \in Actors /\ ~Codex
      /\ native["main"] \in Natives /\ native["child"] \in Natives
  BY DEF Types, Actors, Claude, Codex
<1>1. CASE SubmitPrompt
  <2> DEFINE n == native["main"]
  <2>1. /\ n.phase = "idle" /\ Free("main")
        /\ Fire("main", NewTurn(n.turn + 1), "prompt", 0)
    BY <1>1 DEF SubmitPrompt
  <2>2. n.turn + 1 \in Nat \ {0}
    BY <1>0 DEF Natives
  <2>3. ASSUME NEW x, x.event = "prompt", x.waited,
               Orderly(n, Own("main"), lease["main"], session.awaits)
        PROVE  Orderly(NewTurn(n.turn + 1), Own("main") \union {x}, lease["main"], session.awaits)
    BY <1>0, <2>1, <2>2, <2>3, Freed, TurnStarts DEF Opening
  <2> HIDE DEF n
  <2> QED BY <1>0, <2>1, <2>3, Fires DEF n
<1>2. CASE QueuePrompt
  <2> DEFINE n == native["main"]
             m == [n EXCEPT !.prompted = TRUE]
  <2>1. n.phase = "open" /\ Free("main") /\ Fire("main", m, "prompt", 0)
    BY <1>2 DEF QueuePrompt, Open
  <2>2. /\ m.phase = n.phase /\ m.turn = n.turn /\ m.tools = n.tools /\ m.prompted
        /\ m.used = n.used /\ m.batched = n.batched
    BY <1>0 DEF Natives
  <2> HIDE DEF m
  <2>3. ASSUME NEW x, x.event = "prompt", x.waited, x.turn = m.turn,
               Orderly(n, Own("main"), lease["main"], session.awaits)
        PROVE  Orderly(m, Own("main") \union {x}, lease["main"], session.awaits)
    <3>1. \A h \in Own("main") : h.event \in CallEvents
      BY <1>0, <2>1, <2>3, Freed
    <3>2. BatchCalls(m, Own("main") \union {x})
      BY <2>2, <2>3 DEF Orderly, BatchCalls
    <3> HIDE DEF n
    <3> QED BY <2>1, <2>2, <2>3, <3>1, <3>2, HookStarts DEF Ending, Opening
  <2> QED BY <1>0, <2>1, <2>3, Fires
<1>3. CASE StartSubagent
  <2> DEFINE n == native["child"]
  <2>1. n.turn = 0 /\ Fire("child", NewTurn(1), "start", 0)
    BY <1>3 DEF StartSubagent
  <2>2. 1 \in Nat \ {0}
    OBVIOUS
  <2>3. ASSUME NEW x, x.event = "start", x.waited,
               Orderly(n, Own("child"), lease["child"], session.awaits)
        PROVE  Orderly(NewTurn(1), Own("child") \union {x}, lease["child"], session.awaits)
    <3>1. n.phase = "idle" /\ Own("child") = {}
      BY <2>1, <2>3 DEF Orderly, Unstarted
    <3> QED BY <2>2, <2>3, <3>1, TurnStarts DEF Opening
  <2> QED BY <1>0, <2>1, <2>3, Fires
<1>4. CASE FinishWithFailure
  <2> DEFINE n == native["main"]
             m == [n EXCEPT !.phase = "idle"]
  <2>1. n.phase = "open" /\ Free("main") /\ n.tools = {} /\ ~Awaits("main", CallEvents)
        /\ Fire("main", m, "failure", 0)
    BY <1>4 DEF FinishWithFailure, Answered, Open
  <2>2. /\ m.phase = "idle" /\ m.turn = n.turn /\ m.tools = n.tools
        /\ m.used = n.used /\ m.batched = n.batched
    BY <1>0 DEF Natives
  <2> HIDE DEF m
  <2>3. ASSUME NEW x, x.event = "failure", x.waited,
               Orderly(n, Own("main"), lease["main"], session.awaits)
        PROVE  Orderly(m, Own("main") \union {x}, lease["main"], session.awaits)
    <3>1. n.turn # 0
      BY <2>1, <2>3 DEF Orderly, Unstarted
    <3> QED BY <1>0, <2>1, <2>2, <2>3, <3>1, Freed, NoCalls, TurnEnds DEF Ending
  <2> QED BY <1>0, <2>1, <2>3, Fires
<1>5. CASE EndSession
  <2> DEFINE n == native["main"]
             m == [n EXCEPT !.closed = TRUE]
  <2>1. n.phase = "idle" /\ Free("main") /\ n.turn > 0 /\ Fire("main", m, "session", 0)
    BY <1>5 DEF EndSession
  <2>2. /\ m.phase = "idle" /\ m.turn = n.turn /\ m.tools = n.tools
        /\ m.used = n.used /\ m.batched = n.batched
    BY <1>0, <2>1 DEF Natives
  <2>4. n.turn # 0
    BY <1>0, <2>1 DEF Natives
  <2> HIDE DEF m
  <2>3. ASSUME NEW x, x.event = "session", x.waited,
               Orderly(n, Own("main"), lease["main"], session.awaits)
        PROVE  Orderly(m, Own("main") \union {x}, lease["main"], session.awaits)
    <3>1. n.tools = {}
      BY <2>1, <2>3 DEF Orderly, ToolsInTurn
    <3> QED BY <1>0, <2>1, <2>2, <2>3, <2>4, <3>1, Freed, TurnEnds DEF Ending
  <2> QED BY <1>0, <2>1, <2>3, Fires
<1> QED BY <1>0, <1>1, <1>2, <1>3, <1>4, <1>5 DEF ContinueGoal, FollowUp, PromptSubagent

LEMMA CallOrder ==
    ASSUME ClaudeInv, Claude, NEW a \in Actors,
           \/ StartTool(a) \/ EndBatch(a) \/ Compact(a) \/ Finish(a)
           \/ \E t \in 1..session.tools : AskPermission(a, t) \/ EndTool(a, t)
    PROVE  InOrderly'
<1> USE DEF ClaudeInv
<1> DEFINE n == native[a]
<1>0. n \in Natives /\ n.used \in Nat /\ n.batched \in Nat /\ ~Codex
  BY DEF Types, Claude, Codex, Natives
<1>1. CASE StartTool(a)
  <2> DEFINE m == [n EXCEPT !.used = n.used + 1, !.tools = n.tools \union {n.used + 1}]
  <2>1. n.phase = "open" /\ Free(a) /\ Fire(a, m, "pre", n.used + 1)
    BY <1>1 DEF StartTool, Open
  <2>2. m.phase = n.phase /\ m.turn = n.turn /\ m.tools = n.tools \union {n.used + 1}
        /\ m.prompted = n.prompted /\ m.used = n.used + 1 /\ m.batched = n.batched
    BY <1>0 DEF Natives
  <2> HIDE DEF m
  <2>3. ASSUME NEW x, x.event = "pre", x.waited, x.turn = m.turn, x.tool = n.used + 1,
               Orderly(n, Own(a), lease[a], session.awaits)
        PROVE  Orderly(m, Own(a) \union {x}, lease[a], session.awaits)
    <3>1. \A h \in Own(a) : h.event \in CallEvents
      BY <2>1, <2>3, Freed
    <3>2. BatchCalls(n, Own(a))
      BY <2>3 DEF Orderly
    <3> HIDE DEF n
    <3>3. \A w \in n.batched + 1 .. n.used :
              w \in m.batched + 1 .. m.used /\ x.tool # w
      BY <1>0, <2>2, <2>3
    <3>4. n.batched <= n.used /\ x.tool \in m.batched + 1 .. m.used
      BY <1>0, <2>2, <2>3, <3>2 DEF BatchCalls
    <3>5. \A h \in Own(a) : h.event = "pre" =>
              /\ h.tool \in m.batched + 1 .. m.used /\ h.tool # x.tool
              /\ \A g \in Own(a) : g.event = "pre" /\ g.tool = h.tool => g = h
      BY <3>2, <3>3 DEF BatchCalls
    <3>6. BatchCalls(m, Own(a) \union {x})
      BY <1>0, <2>2, <3>4, <3>5 DEF BatchCalls
    <3> QED BY <2>1, <2>2, <2>3, <3>1, <3>3, <3>6, HookStarts DEF Ending, Opening
  <2> QED BY <2>1, <2>3, Fires
<1>2. CASE EndBatch(a)
  <2> DEFINE m == [n EXCEPT !.batched = n.used]
  <2>1. n.phase = "open" /\ n.tools = {} /\ Fire(a, m, "batch", n.used)
        /\ ~Awaits(a, CallEvents)
    BY <1>2 DEF EndBatch, Open
  <2>2. m.phase = n.phase /\ m.turn = n.turn /\ m.tools = n.tools
        /\ m.prompted = n.prompted /\ m.used = n.used /\ m.batched = n.used
    BY <1>0 DEF Natives
  <2> HIDE DEF m
  <2>3. ASSUME NEW x, x.event = "batch", x.waited, x.turn = m.turn,
               Orderly(n, Own(a), lease[a], session.awaits)
        PROVE  Orderly(m, Own(a) \union {x}, lease[a], session.awaits)
    <3>1. \A h \in Own(a) : h.event \notin CallEvents
      BY <2>1, <2>3, NoCalls
    <3> HIDE DEF n
    <3>2. BatchCalls(m, Own(a) \union {x})
      BY <1>0, <2>2, <2>3, <3>1 DEF BatchCalls, CallEvents
    <3> QED BY <2>1, <2>2, <2>3, <3>2, HookStarts DEF Ending, Opening
  <2> QED BY <2>1, <2>3, Fires
<1>3. CASE Finish(a)
  <2> DEFINE m == [n EXCEPT !.phase = "stopping"]
  <2>1. n.phase = "open" /\ Free(a) /\ n.tools = {} /\ ~Awaits(a, CallEvents)
    BY <1>3 DEF Finish, Answered, Open
  <2>2. PICK e \in {"stop", "substop"} : Fire(a, m, e, 0)
    BY <1>3 DEF Finish
  <2>4. /\ m.phase = "stopping" /\ m.turn = n.turn /\ m.tools = n.tools
        /\ m.used = n.used /\ m.batched = n.batched
    BY <1>0 DEF Natives
  <2> HIDE DEF m
  <2>3. ASSUME NEW x, x.event = e, x.waited, Orderly(n, Own(a), lease[a], session.awaits)
        PROVE  Orderly(m, Own(a) \union {x}, lease[a], session.awaits)
    <3>1. n.turn # 0
      BY <2>1, <2>3 DEF Orderly, Unstarted
    <3>2. \A h \in Own(a) : h.event \in CallEvents
      BY <2>1, <2>3, Freed
    <3>3. \A h \in Own(a) : h.event \notin CallEvents
      BY <2>1, <2>3, NoCalls
    <3> HIDE DEF n
    <3> QED BY <2>1, <2>2, <2>3, <2>4, <3>1, <3>2, <3>3, TurnEnds DEF Ending
  <2> QED BY <2>2, <2>3, Fires
<1>4. ASSUME NEW t \in 1..session.tools, EndTool(a, t) PROVE InOrderly'
  <2> DEFINE m == [n EXCEPT !.tools = n.tools \ {t}]
  <2>1. t \in n.tools /\ Fire(a, m, "post", t)
    BY <1>4 DEF EndTool
  <2>2. m.phase = n.phase /\ m.turn = n.turn /\ m.tools = n.tools \ {t}
        /\ m.prompted = n.prompted /\ m.used = n.used /\ m.batched = n.batched
    BY <1>0 DEF Natives
  <2> HIDE DEF m
  <2>3. ASSUME NEW x, x.event = "post", x.waited, x.turn = m.turn,
               Orderly(n, Own(a), lease[a], session.awaits)
        PROVE  Orderly(m, Own(a) \union {x}, lease[a], session.awaits)
    <3>1. n.phase = "open"
      BY <2>1, <2>3 DEF Orderly, ToolsInTurn
    <3>2. BatchCalls(m, Own(a) \union {x})
      BY <2>2, <2>3 DEF Orderly, BatchCalls
    <3> HIDE DEF n
    <3> QED BY <2>1, <2>2, <2>3, <3>1, <3>2, HookStarts DEF Ending, Opening
  <2> QED BY <2>1, <2>3, Fires
<1> QED BY <1>0, <1>1, <1>2, <1>3, <1>4 DEF Compact, AskPermission

-----------------------------------------------------------------------------
(* The hooks' steps *)

LEMMA OpeningEnds ==
    ASSUME NEW n, NEW H, NEW l, NEW W, Orderly(n, H, l, W), NEW h \in H, NEW k,
           h.event \in Opening, ~Tombstone(k)
    PROVE  Orderly(n, H \ {h}, k, W)
<1> USE DEF Opening, CallEvents, Ending
<1>1. Shows(n, H \ {h}, k)
  BY DEF Shows
<1>2. Claimed(n, H \ {h}, k, W)
  BY DEF Orderly, StartsFirst, Claimed, Begun
<1>3. BatchCalls(n, H \ {h})
  BY DEF Orderly, BatchCalls
<1> QED BY <1>1, <1>2, <1>3 DEF Orderly, Unstarted, Waited, CallsOfTurn, EndsAlone,
                               BatchesDone, StartsFirst

LEMMA CallEnds ==
    ASSUME NEW n, NEW H, NEW l, NEW W, Orderly(n, H, l, W), NEW h \in H, NEW k,
           h.event \notin Opening, h.event \notin Ending,
           ~Tombstone(l) => ~Tombstone(k),
           \A t \in n.tools :
               ~Tombstone(l) /\ ~(h.event = "pre" /\ h.tool \in W)
               => KeptClaims(l) \subseteq KeptClaims(k),
           h.event = "pre" /\ h.tool \notin W /\ ~Tombstone(l)
               => <<h.turn, h.tool>> \in KeptClaims(k)
    PROVE  Orderly(n, H \ {h}, k, W)
<1> USE DEF Opening, CallEvents, Ending
<1>1. Begun(n, H \ {h}) <=> Begun(n, H)
  BY DEF Begun
<1>2. Shows(n, H \ {h}, k)
  BY <1>1 DEF Orderly, Shows
<1>3. Claimed(n, H \ {h}, k, W)
  <2> SUFFICES ASSUME Begun(n, H), ~Withdraws(n, H \ {h}, W), NEW t \in n.tools \ W,
                      ~\E g \in H \ {h} : g.event = "pre" /\ g.tool = t
               PROVE  <<n.turn, t>> \in KeptClaims(k)
    BY <1>1 DEF Claimed
  <2>1. ~Tombstone(l)
    BY DEF Orderly, ToolsInTurn, Shows
  <2>4. ~(h.event = "pre" /\ h.tool \in W)
    <3> SUFFICES ASSUME h.event = "pre", h.tool \in W PROVE FALSE
      OBVIOUS
    <3>1. h.tool \in n.batched + 1 .. n.used
          /\ \A g \in H : g.event = "pre" /\ g.tool = h.tool => g = h
      BY DEF Orderly, BatchCalls
    <3> QED BY <3>1 DEF Withdraws
  <2>5. ~Withdraws(n, H, W)
    BY DEF Withdraws
  <2>2. CASE h.event = "pre" /\ h.tool = t
    BY <2>1, <2>2 DEF Orderly, CallsOfTurn
  <2>3. CASE ~(h.event = "pre" /\ h.tool = t)
    BY <2>1, <2>3, <2>4, <2>5 DEF Orderly, Claimed
  <2> QED BY <2>2, <2>3
<1>4. BatchCalls(n, H \ {h})
  BY DEF Orderly, BatchCalls
<1> QED BY <1>2, <1>3, <1>4 DEF Orderly, Unstarted, Waited, CallsOfTurn, EndsAlone,
                               BatchesDone, StartsFirst

LEMMA TurnOver ==
    ASSUME NEW n, NEW H, NEW l, NEW W, Orderly(n, H, l, W), NEW h \in H, NEW m, NEW k,
           h.event \in Ending, m.turn = n.turn, m.tools = n.tools,
           m.used = n.used, m.batched = n.batched,
           m.phase = "open" => ~Tombstone(k)
    PROVE  Orderly(m, H \ {h}, k, W)
<1>1. H = {h} /\ n.tools = {} /\ n.turn # 0
  BY DEF Orderly, EndsAlone, ToolsInTurn, Unstarted
<1>2. H \ {h} = {}
  BY <1>1
<1> QED BY <1>1, <1>2
        DEF Orderly, Unstarted, Waited, CallsOfTurn, ToolsInTurn, EndsAlone, BatchesDone,
            BatchCalls, StartsFirst, Begun, Shows, Claimed

LEMMA StopGoesOn ==
    ASSUME NEW n, NEW H, NEW l, NEW W, Orderly(n, H, l, W), NEW h \in H, NEW x, NEW k,
           h.event = "stop", x.event = "stop", x.waited
    PROVE  Orderly(n, (H \ {h}) \union {x}, k, W)
<1>1. H = {h} /\ n.tools = {} /\ n.turn # 0 /\ n.phase # "open"
  BY DEF Orderly, EndsAlone, ToolsInTurn, Unstarted, Ending
<1>2. (H \ {h}) \union {x} = {x}
  BY <1>1
<1> QED BY <1>1, <1>2
        DEF Orderly, Unstarted, Waited, CallsOfTurn, ToolsInTurn, EndsAlone, BatchesDone,
            BatchCalls, StartsFirst, Begun, Shows, Claimed, Ending, Opening, CallEvents

LEMMA Quiet ==
    ASSUME NEW n, NEW H, NEW l, NEW W, Orderly(n, H, l, W), NEW m, H = {},
           \/ m = n
           \/ /\ m.phase = "idle" /\ m.tools = {}
              /\ m.used = n.used /\ m.batched = n.batched
    PROVE  Orderly(m, H, l, W)
BY DEF Orderly, Unstarted, Waited, CallsOfTurn, ToolsInTurn, EndsAlone, BatchesDone,
       BatchCalls, StartsFirst, Begun, Shows, Claimed

LEMMA EndFrame ==
    ASSUME Types, NEW h \in hooks, NEW b \in BOOLEAN, End(h, b)
    PROVE  /\ native'[h.actor] = Returned(native[h.actor], h, b)
           /\ Own(h.actor)' = Own(h.actor) \ {h}
           /\ \A a \in Actors \ {h.actor} : native'[a] = native[a] /\ Own(a)' = Own(a)
<1>1. h.actor \in Actors
  BY DEF Types, Hooks
<1> QED BY <1>1 DEF End, Own, Types

(* What Claude's hooks, but a Stop, make of a lease. *)
LEMMA ClaudeWrites ==
    ASSUME NEW h \in Hooks, NEW l \in Leases \union {NoLease}
    PROVE  /\ h.event \in Opening => ~Tombstone(ClaudeUpdate(h, l))
           /\ h.event = "pre" =>
                 /\ ~Tombstone(l) =>
                      /\ ~Tombstone(ClaudeUpdate(h, l))
                      /\ ~Waits(h) => KeptClaims(ClaudeUpdate(h, l))
                                         = KeptClaims(l) \union {Call(h)}
           /\ h.event = "post" => ClaudeUpdate(h, l) = l
           /\ h.event = "batch" => (~Tombstone(l) => ~Tombstone(ClaudeUpdate(h, l)))
<1>1. CASE h.event = "prompt"
  <2>1. ClaudeUpdate(h, l) = Write(h, l, [Fields EXCEPT !.intent = h.turn])
    BY <1>1 DEF ClaudeUpdate
  <2>2. [Fields EXCEPT !.intent = h.turn].state = "working"
    BY DEF Fields
  <2> QED BY <1>1, <2>1, <2>2, ClaudeToolWrites, WriteBusy
<1>2. CASE h.event = "start"
  <2>1. ClaudeUpdate(h, l) = Write(h, l, [Fields EXCEPT !.claims = {Call(h)}])
    BY <1>2 DEF ClaudeUpdate
  <2>2. [Fields EXCEPT !.claims = {Call(h)}].state = "working"
    BY DEF Fields
  <2> QED BY <1>2, <2>1, <2>2, ClaudeToolWrites, WriteBusy
<1>3. CASE h.event = "pre" /\ ~Tombstone(l)
  <2> DEFINE F == ToolFields(h, l)
  <2>1. ClaudeUpdate(h, l) = Write(h, l, F)
    BY <1>3 DEF ClaudeUpdate, ToolFields
  <2>2. ~Waits(h) => F.claims = KeptClaims(l) \union {Call(h)}
    BY DEF Fields, ToolFields
  <2>3. F \in FieldSet /\ F.state # "idle"
    BY ClaudeToolWrites
  <2> HIDE DEF F
  <2>4. Write(h, l, F) # NoLease /\ ~Tombstone(Write(h, l, F))
        /\ Write(h, l, F).claims = F.claims
    BY <2>3, WriteBusy, WriteType
  <2>5. ~Tombstone(ClaudeUpdate(h, l))
        /\ KeptClaims(ClaudeUpdate(h, l)) = F.claims
    BY <2>1, <2>4 DEF KeptClaims
  <2> QED BY <1>3, <2>2, <2>5 DEF Opening
<1>4. CASE h.event = "batch" /\ l # NoLease /\ ~Tombstone(l)
  <2>1. ClaudeUpdate(h, l) = Write(h, l, [Fields EXCEPT !.intent = l.intent])
    BY <1>4 DEF ClaudeUpdate
  <2>2. [Fields EXCEPT !.intent = l.intent].state = "working"
    BY DEF Fields
  <2> QED BY <1>4, <2>1, <2>2, ClaudeToolWrites, WriteBusy
<1>5. h.event = "post" => ClaudeUpdate(h, l) = l
  BY DEF ClaudeUpdate, ClaudePost
<1>6. h.event = "batch" /\ l = NoLease => ClaudeUpdate(h, l) = l
  BY DEF ClaudeUpdate
<1> QED BY <1>1, <1>2, <1>3, <1>4, <1>5, <1>6 DEF Opening

LEMMA SettleOrder ==
    ASSUME ClaudeInv, Claude, NEW h \in hooks, Settle(h)
    PROVE  InOrderly'
<1> DEFINE a == h.actor
           l == lease[a]
           k == ClaudeUpdate(h, l)
<1>0. /\ h \in Hooks /\ a \in Actors /\ l \in Leases \union {NoLease} /\ h \in Own(a)
      /\ ~Codex /\ h.event \in ClaudeEvents \ {"stop"}
  BY DEF ClaudeInv, Types, Hooks, Own, Settle, Claude, Codex
<1>1. PICK r \in BOOLEAN : Put(h, Update(h, l, r)) /\ Unattested(h, l, r)
  BY DEF Settle
<1>2. Update(h, l, r) = k /\ k \in Leases \union {NoLease}
  BY <1>0, UpdateType DEF Update, ClaudeInv
<1>3. /\ lease' = [lease EXCEPT ![a] = k] /\ session' = session
      /\ \A b \in Actors : lost[b] \subseteq lost'[b]
  BY <1>0, <1>1, <1>2, PutType, UnattestedType DEF ClaudeInv
<1>4. /\ native'[a] = Returned(native[a], h, FALSE)
      /\ Own(a)' = Own(a) \ {h}
      /\ \A b \in Actors \ {a} : native'[b] = native[b] /\ Own(b)' = Own(b)
  BY EndFrame DEF Settle, ClaudeInv
<1>5. ASSUME Orderly(native[a], Own(a), l, session.awaits)
      PROVE  Orderly(Returned(native[a], h, FALSE), Own(a) \ {h}, k, session.awaits)
  <2>1. CASE h.event \in Opening
    <3>1. Returned(native[a], h, FALSE) = native[a]
      BY <2>1 DEF Returned, Opening
    <3>2. ~Tombstone(k)
      BY <1>0, <2>1, ClaudeWrites
    <3> HIDE DEF k
    <3> QED BY <1>0, <1>5, <2>1, <3>1, <3>2, OpeningEnds
  <2>2. CASE h.event \in Ending
    <3> DEFINE m == Returned(native[a], h, FALSE)
    <3>1. /\ m.turn = native[a].turn /\ m.tools = native[a].tools
          /\ m.used = native[a].used /\ m.batched = native[a].batched
          /\ (m.phase = native[a].phase \/ m.phase = "idle")
      BY <1>0 DEF Returned, ClaudeInv, Types, Natives
    <3>2. m.phase # "open"
      BY <1>0, <1>5, <2>2, <3>1 DEF Orderly, EndsAlone
    <3> HIDE DEF k, m
    <3> QED BY <1>0, <1>5, <2>2, <3>1, <3>2, TurnOver DEF m
  <2>3. CASE h.event \in {"pre", "post", "batch"}
    <3>1. Returned(native[a], h, FALSE) = native[a]
      BY <2>3 DEF Returned
    <3>2. ~Tombstone(l) => ~Tombstone(k)
      BY <1>0, <2>3, ClaudeWrites
    <3>3. \A t \in native[a].tools :
              ~Tombstone(l) /\ ~(h.event = "pre" /\ h.tool \in session.awaits)
              => KeptClaims(l) \subseteq KeptClaims(k)
      BY <1>0, <1>5, <2>3, ClaudeWrites DEF Orderly, BatchesDone, Waits
    <3>4. h.event = "pre" /\ h.tool \notin session.awaits /\ ~Tombstone(l)
              => <<h.turn, h.tool>> \in KeptClaims(k)
      BY <1>0, ClaudeWrites DEF Call, Waits
    <3>5. h.event \notin Opening /\ h.event \notin Ending
      BY <2>3 DEF Opening, Ending
    <3> HIDE DEF k, l
    <3> QED BY <1>0, <1>5, <3>1, <3>2, <3>3, <3>4, <3>5, CallEnds DEF l
  <2> QED BY <1>0, <2>1, <2>2, <2>3 DEF ClaudeEvents, Events, Opening, Ending
<1>6. lease'[a] = k /\ \A b \in Actors \ {a} : lease'[b] = lease[b]
  BY <1>0, <1>3 DEF ClaudeInv, Types
<1> HIDE DEF k
<1> QED BY <1>0, <1>3, <1>4, <1>5, <1>6 DEF InOrderly, Claude, ClaudeInv

LEMMA StopOrder ==
    ASSUME ClaudeInv, Claude, NEW h \in hooks, Stop(h) \/ Block(h)
    PROVE  InOrderly'
<1> DEFINE a == h.actor
           l == lease[a]
           n == native[a]
<1>0. /\ h \in Hooks /\ a \in Actors /\ l \in Leases \union {NoLease} /\ h \in Own(a)
      /\ ~Codex /\ h.event = "stop" /\ h.waited \in BOOLEAN
  BY DEF ClaudeInv, Types, Hooks, Own, Stop, Block, Claude, Codex
<1>1. CASE Stop(h)
  <2>1. PICK r \in BOOLEAN :
          LET new == Update(h, l, r) IN
          /\ Put(h, new) /\ Unattested(h, l, r)
          /\ IF new = l \/ h.flag THEN End(h, FALSE)
             ELSE /\ hooks' = (hooks \ {h}) \union
                       {[h EXCEPT !.rev = new.rev, !.prior = PriorIntent(h, l)]}
                  /\ UNCHANGED native
    BY <1>1 DEF Stop
  <2> DEFINE k == Update(h, l, r)
  <2>2. k \in Leases \union {NoLease}
    BY <1>0, UpdateType DEF ClaudeInv
  <2>3. /\ lease' = [lease EXCEPT ![a] = k] /\ session' = session
        /\ \A b \in Actors : lost[b] \subseteq lost'[b]
    BY <1>0, <2>1, <2>2, PutType, UnattestedType DEF ClaudeInv
  <2>4. lease'[a] = k /\ \A b \in Actors \ {a} : lease'[b] = lease[b]
    BY <1>0, <2>3 DEF ClaudeInv, Types
  <2>5. CASE k = l \/ h.flag
    <3>1. End(h, FALSE)
      BY <2>1, <2>5
    <3>2. /\ native'[a] = Returned(n, h, FALSE)
          /\ Own(a)' = Own(a) \ {h}
          /\ \A b \in Actors \ {a} : native'[b] = native[b] /\ Own(b)' = Own(b)
      BY <3>1, EndFrame DEF ClaudeInv
    <3>3. ASSUME Orderly(n, Own(a), l, session.awaits)
          PROVE  Orderly(Returned(n, h, FALSE), Own(a) \ {h}, k, session.awaits)
      <4> DEFINE m == Returned(n, h, FALSE)
      <4>1. /\ m.turn = n.turn /\ m.tools = n.tools
            /\ m.used = n.used /\ m.batched = n.batched
            /\ (m.phase = n.phase \/ m.phase = "idle")
        BY <1>0 DEF Returned, ClaudeInv, Types, Natives
      <4>2. m.phase # "open" /\ h.event \in Ending
        BY <1>0, <3>3, <4>1 DEF Orderly, EndsAlone, Ending
      <4> HIDE DEF k, m, n, l
      <4> QED BY <1>0, <3>3, <4>1, <4>2, TurnOver DEF m
    <3> HIDE DEF k
    <3> QED BY <1>0, <2>3, <2>4, <3>2, <3>3 DEF InOrderly, Claude, ClaudeInv
  <2>6. CASE ~(k = l \/ h.flag)
    <3> DEFINE x == [h EXCEPT !.rev = k.rev, !.prior = PriorIntent(h, l)]
    <3>1. hooks' = (hooks \ {h}) \union {x} /\ native' = native
      BY <2>1, <2>6
    <3>2. x.event = "stop" /\ x.waited = h.waited /\ x.actor = a
      BY <1>0 DEF Hooks
    <3> HIDE DEF x, k
    <3>3. Own(a)' = (Own(a) \ {h}) \union {x}
          /\ \A b \in Actors \ {a} : Own(b)' = Own(b)
      BY <3>1, <3>2 DEF Own
    <3>4. ASSUME Orderly(n, Own(a), l, session.awaits)
          PROVE  Orderly(n, (Own(a) \ {h}) \union {x}, k, session.awaits)
      <4>1. x.waited
        BY <1>0, <3>2, <3>4 DEF Orderly, Waited
      <4> HIDE DEF l, n
      <4> QED BY <1>0, <3>2, <3>4, <4>1, StopGoesOn
    <3> QED BY <1>0, <2>3, <2>4, <3>1, <3>3, <3>4 DEF InOrderly, Claude, ClaudeInv
  <2> QED BY <2>5, <2>6
<1>2. CASE Block(h)
  <2>1. PICK b \in BOOLEAN, k \in Leases \union {NoLease} :
            Put(h, k) /\ End(h, b) /\ (b => ~Tombstone(k))
    BY <1>0, <1>2, ReopenedType DEF Block, ClaudeInv
  <2>2. /\ lease' = [lease EXCEPT ![a] = k] /\ session' = session /\ lost' = lost
    BY <1>0, <1>2, <2>1, PutType DEF ClaudeInv, Block
  <2>3. lease'[a] = k /\ \A c \in Actors \ {a} : lease'[c] = lease[c]
    BY <1>0, <2>2 DEF ClaudeInv, Types
  <2>4. /\ native'[a] = Returned(n, h, b)
        /\ Own(a)' = Own(a) \ {h}
        /\ \A c \in Actors \ {a} : native'[c] = native[c] /\ Own(c)' = Own(c)
    BY <2>1, EndFrame DEF ClaudeInv
  <2>5. ASSUME Orderly(n, Own(a), l, session.awaits)
        PROVE  Orderly(Returned(n, h, b), Own(a) \ {h}, k, session.awaits)
    <3> DEFINE m == Returned(n, h, b)
    <3>1. /\ m.turn = n.turn /\ m.tools = n.tools
          /\ m.used = n.used /\ m.batched = n.batched
          /\ (m.phase = "open" => b \/ n.phase = "open")
      BY <1>0 DEF Returned, ClaudeInv, Types, Natives
    <3>2. h.event \in Ending /\ (m.phase = "open" => ~Tombstone(k))
      BY <1>0, <2>1, <2>5, <3>1 DEF Orderly, EndsAlone, Ending
    <3> HIDE DEF m, n, l
    <3> QED BY <1>0, <2>5, <3>1, <3>2, TurnOver DEF m
  <2> QED BY <1>0, <2>2, <2>3, <2>4, <2>5 DEF InOrderly, Claude, ClaudeInv
<1> QED BY <1>1, <1>2

-----------------------------------------------------------------------------
(* Faults and time *)

LEMMA FaultOrder ==
    ASSUME ClaudeInv, Claude, Interrupt \/ \E h \in hooks : TimeOut(h)
    PROVE  InOrderly'
<1>0. session' = session /\ lease' = lease /\ \A a \in Actors : lost[a] \subseteq lost'[a]
  BY FaultTypes DEF ClaudeInv, Interrupt, TimeOut, files
<1>1. CASE Interrupt
  <2> SUFFICES ASSUME NEW a \in Actors, lost'[a] = {}
               PROVE  Orderly(native'[a], Own(a)', lease[a], session.awaits)
    BY <1>0 DEF InOrderly, Claude
  <2> DEFINE m == [native[a] EXCEPT !.phase = "idle", !.how = "interrupt", !.tools = {}]
  <2>1. Orderly(native[a], Own(a), lease[a], session.awaits)
    BY <1>0 DEF ClaudeInv, InOrderly
  <2>2. \A h \in hooks : ~(h.actor = a /\ h.waited)
    BY <1>1 DEF Interrupt
  <2>3. Own(a) = {}
    BY <2>1, <2>2 DEF Orderly, Waited, Own
  <2>4. \A h \in hooks : h.actor = a <=> [h EXCEPT !.waited = FALSE].actor = a
    BY DEF ClaudeInv, Types, Hooks
  <2>5. Own(a)' = {}
    BY <1>1, <2>3, <2>4 DEF Interrupt, Own
  <2>6. native'[a] = native[a] \/ native'[a] = m
    BY <1>1 DEF Interrupt
  <2>7. /\ m.phase = "idle" /\ m.tools = {}
        /\ m.used = native[a].used /\ m.batched = native[a].batched
    BY DEF ClaudeInv, Types, Natives
  <2> HIDE DEF m
  <2> QED BY <2>1, <2>3, <2>5, <2>6, <2>7, Quiet
<1>2. ASSUME NEW h \in hooks, TimeOut(h) PROVE InOrderly'
  <2>1. h.actor \in Actors /\ [h EXCEPT !.waited = FALSE].actor = h.actor
    BY DEF ClaudeInv, Types, Hooks
  <2>2. lost'[h.actor] # {}
    BY <1>2, <2>1 DEF TimeOut, ClaudeInv, Types
  <2>3. \A b \in Actors \ {h.actor} : native'[b] = native[b] /\ Own(b)' = Own(b)
    BY <1>2, <2>1 DEF TimeOut, ClaudeInv, Types, Own
  <2> QED BY <1>0, <2>1, <2>2, <2>3 DEF InOrderly, Claude, ClaudeInv
<1> QED BY <1>1, <1>2

LEMMA TimeOrder ==
    ASSUME ClaudeInv, Claude, NEW a \in Actors, Expire(a) \/ FindReapable(a) \/ Reap(a)
    PROVE  InOrderly'
<1>1. /\ session' = session /\ native' = native /\ hooks' = hooks /\ lost' = lost
      /\ \A b \in Actors : \/ lease'[b] = lease[b]
                           \/ lease'[b] = [lease[b] EXCEPT !.live = FALSE] /\ lease[b] # NoLease
                           \/ lease'[b] = NoLease /\ Tombstone(lease[b])
  BY DEF Expire, FindReapable, Reap, ClaudeInv, Types
<1>2. \A l \in Leases :
          LET k == [l EXCEPT !.live = FALSE] IN
          k # NoLease /\ k.state = l.state /\ k.claims = l.claims
  <2> SUFFICES ASSUME NEW l \in Leases
               PROVE  LET k == [l EXCEPT !.live = FALSE] IN
                      k # NoLease /\ k.state = l.state /\ k.claims = l.claims
    OBVIOUS
  <2>1. [l EXCEPT !.live = FALSE] \in Leases
    BY DEF Leases
  <2> QED BY <2>1, LeaseAssumption DEF Leases
<1>3. \A b \in Actors :
          \/ /\ Tombstone(lease'[b]) <=> Tombstone(lease[b])
             /\ KeptClaims(lease'[b]) = KeptClaims(lease[b])
          \/ lease'[b] = NoLease /\ Tombstone(lease[b])
  BY <1>1, <1>2 DEF Tombstone, KeptClaims, ClaudeInv, Types
<1> SUFFICES ASSUME NEW b \in Actors, lost[b] = {}
             PROVE  Orderly(native[b], Own(b), lease'[b], session.awaits)
  BY <1>1 DEF InOrderly, Claude, Own
<1>4. Orderly(native[b], Own(b), lease[b], session.awaits)
  BY DEF ClaudeInv, InOrderly
<1>5. Shows(native[b], Own(b), lease'[b])
  BY <1>3, <1>4 DEF Orderly, Shows, Tombstone
<1>6. Claimed(native[b], Own(b), lease'[b], session.awaits)
  BY <1>3, <1>4 DEF Orderly, Claimed, Shows, ToolsInTurn
<1> QED BY <1>4, <1>5, <1>6 DEF Orderly

-----------------------------------------------------------------------------
LEMMA InitClaude == Init => ClaudeInv
<1> SUFFICES ASSUME Init PROVE InOrderly
  BY InitTypes DEF ClaudeInv
<1> SUFFICES ASSUME NEW a \in Actors PROVE Orderly(native[a], Own(a), lease[a], session.awaits)
  BY DEF InOrderly
<1>1. /\ native[a].phase = "idle" /\ native[a].tools = {}
      /\ native[a].batched <= native[a].used
  BY DEF Init, NewTurn
<1>2. Own(a) = {}
  BY DEF Init, Own
<1> QED BY <1>1, <1>2
        DEF Orderly, Unstarted, Waited, CallsOfTurn, ToolsInTurn, EndsAlone, BatchesDone,
            BatchCalls, StartsFirst, Begun, Shows, Claimed

LEMMA StepClaude == ClaudeInv /\ [Next]_vars => ClaudeInv'
<1> SUFFICES ASSUME ClaudeInv, [Next]_vars PROVE ClaudeInv'
  OBVIOUS
<1>1. Types'
  BY StepTypes DEF ClaudeInv
<1>2. CASE UNCHANGED vars
  BY <1>1, <1>2 DEF vars, ClaudeInv, InOrderly, Own, Claude
<1>3. CASE Next /\ Claude
  BY <1>1, <1>3, ProviderOrder, CallOrder, FaultOrder, SettleOrder, StopOrder, TimeOrder
     DEF Next, ClaudeInv
<1>4. CASE Next /\ ~Claude
  <2>1. session' = session
    BY <1>4 DEF Next, SubmitPrompt, QueuePrompt, ContinueGoal, FollowUp, StartSubagent,
                PromptSubagent, FinishWithFailure, EndSession, Interrupt, StartTool,
                EndBatch, Compact, Finish, Expire, FindReapable, Reap, AskPermission,
                EndTool, TimeOut, Settle, Stop, Block, Fire, GoOn, Put
  <2> QED BY <1>1, <1>4, <2>1 DEF ClaudeInv, InOrderly, Claude
<1> QED BY <1>2, <1>3, <1>4

(* While a call of Claude runs, its lease claims its paths, whatever ends
   beside it: a sibling call, or the hook that cleans up after a batch; unless a
   call beside it awaits peers, which withdraws them. *)
THEOREM CallsClaimed == Spec => []RunningCallsClaimed
<1>1. ClaudeInv => RunningCallsClaimed
  <2> SUFFICES ASSUME ClaudeInv, Claude, NEW a \in Actors, lost[a] = {},
                      ~native[a].prompted, ~Withdrawn(a),
                      \A h \in hooks : h.actor = a => h.event \notin {"prompt", "start"},
                      NEW t \in native[a].tools \ session.awaits
               PROVE  CallAwaits(a, t, {"pre"})
                      \/ <<native[a].turn, t>> \in KeptClaims(lease[a])
    BY DEF RunningCallsClaimed
  <2>1. Orderly(native[a], Own(a), lease[a], session.awaits)
    BY DEF ClaudeInv, InOrderly
  <2>2. Begun(native[a], Own(a))
    BY DEF Begun, Own, Opening
  <2>3. ~Withdraws(native[a], Own(a), session.awaits)
    BY DEF Withdrawn, Withdraws, Own, CallAwaits
  <2> QED BY <2>1, <2>2, <2>3 DEF Orderly, Claimed, Waited, Own, CallAwaits
<1> QED BY <1>1, InitClaude, StepClaude, PTL DEF Spec

(* The reaper takes away no lease that shows. *)
THEOREM RevivalsSurvive == Spec => [][RevivalSurvives]_vars
<1>1. Types /\ [Next]_vars => [RevivalSurvives]_vars
  <2> SUFFICES ASSUME Types, Next PROVE RevivalSurvives
    BY DEF vars, RevivalSurvives
  <2> SUFFICES ASSUME NEW a \in Actors, Visible(lease[a]) PROVE lease'[a] # NoLease
    BY DEF RevivalSurvives
  <2>0. lease[a] # NoLease /\ lease[a] \in Leases
    BY DEF Visible, Types
  <2>1. ASSUME NEW h \in hooks, Settle(h) \/ Stop(h) \/ Block(h) PROVE lease'[a] # NoLease
    <3> DEFINE l == lease[h.actor]
    <3>0. h \in Hooks /\ h.actor \in Actors /\ l \in Leases \union {NoLease}
      BY DEF Types, Hooks
    <3>1. PICK k \in Leases \union {NoLease} : Put(h, k) /\ (k = l \/ k # NoLease)
      <4>1. \A r \in BOOLEAN : LET k == Update(h, l, r) IN
                k \in Leases \union {NoLease} /\ (k = l \/ k # NoLease)
        BY <3>0, UpdateType
      <4>2. Reopened(h, l) \in Leases /\ Reopened(h, l) # NoLease
        BY <3>0, ReopenedType
      <4> QED BY <2>1, <3>0, <4>1, <4>2 DEF Settle, Stop, Block
    <3> QED BY <2>0, <3>0, <3>1, PutType DEF Types
  <2>2. ASSUME NEW b \in Actors, Expire(b) \/ FindReapable(b) \/ Reap(b)
        PROVE  lease'[a] # NoLease
    <3>1. [lease[a] EXCEPT !.live = FALSE] \in Leases
      BY <2>0 DEF Leases
    <3> QED BY <2>0, <2>2, <3>1, LeaseAssumption
            DEF Expire, FindReapable, Reap, Tombstone, Visible, Types
  <2>3. CASE lease' = lease
    BY <2>0, <2>3
  <2> QED BY <2>1, <2>2, <2>3
          DEF Next, SubmitPrompt, QueuePrompt, ContinueGoal, FollowUp, StartSubagent,
              PromptSubagent, FinishWithFailure, EndSession, Interrupt, StartTool,
              EndBatch, Compact, Finish, AskPermission, EndTool, TimeOut, Fire, GoOn, files
<1> QED BY <1>1, InitTypes, StepTypes, PTL DEF Spec

-----------------------------------------------------------------------------
(* The steps of one actor: of its native turn n, its hooks H, its lease l and the
   latest turn s that has written it.  What the provider does: *)

FreeOf(H) == \A h \in H : h.waited => h.event \in CallEvents

Fresh(x, a, m) ==
    /\ x \in Hooks /\ x.actor = a /\ x.turn = m.turn /\ x.waited /\ x.rev = 0
    /\ x.event \in session.events[a]

Begins(a, n, H, m, X) ==
    /\ n.phase = "idle" /\ m = NewTurn(n.turn + 1)
    /\ \/ X = {} /\ Codex /\ n.how = "stop" /\ n.turn > 0 /\ n.turn < MaxTurn /\ FreeOf(H)
       \/ /\ a = "main" /\ n.turn < MaxTurn /\ FreeOf(H)
          /\ \E x : X = {x} /\ Fresh(x, a, m) /\ x.event = "prompt" /\ x.tool = 0
       \/ /\ a = "child" /\ n.turn = 0 /\ MaxTurn > 0
          /\ \E x : X = {x} /\ Fresh(x, a, m) /\ x.event = "start" /\ x.tool = 0

GoesOn(a, n, H, m, x) ==
    /\ n.phase = "open" /\ m.phase = "open" /\ m.turn = n.turn /\ m.how = n.how
    /\ Fresh(x, a, m) /\ m.used <= session.tools /\ x.tool <= session.tools
    /\ \/ /\ x.event = "prompt" /\ m.tools = n.tools /\ m.used = n.used /\ FreeOf(H)
          /\ (Claude /\ a = "main") \/ (Codex /\ a = "child")
       \/ /\ x.event = "pre" /\ FreeOf(H)
          /\ m.used = n.used + 1 /\ m.tools = n.tools \union {m.used}
       \/ /\ x.event \in {"perm", "post"} /\ m.used = n.used /\ m.tools \subseteq n.tools
       \/ /\ x.event = "batch" /\ m.tools = n.tools /\ m.used = n.used /\ Claude
       \/ /\ x.event \in {"precompact", "postcompact"} /\ FreeOf(H)
          /\ m.tools = n.tools /\ m.used = n.used /\ Codex

EndsTurn(a, n, H, m, x) ==
    /\ m.turn = n.turn /\ m.how = n.how /\ m.used = n.used
    /\ FreeOf(H) /\ Fresh(x, a, m) /\ x.tool = 0 /\ n.tools = {} /\ m.tools = {}
    /\ \/ /\ n.phase = "open" /\ m.phase = "stopping"
          /\ x.event = IF a = "main" THEN "stop" ELSE "substop"
       \/ n.phase = "open" /\ m.phase = "idle" /\ x.event = "failure" /\ a = "main" /\ Claude
       \/ n.phase = "idle" /\ m.phase = "idle" /\ x.event = "session" /\ a = "main"
          /\ n.turn > 0

ProviderStep(a, n, H, m, X) ==
    \/ Begins(a, n, H, m, X)
    \/ \E x : X = {x} /\ (GoesOn(a, n, H, m, x) \/ EndsTurn(a, n, H, m, x))

(* What a hook does: *)

SettleStep(n, l, h, m, k, X, r) ==
    /\ h.event # "stop" /\ X = {} /\ m = Returned(n, h, FALSE) /\ k = Update(h, l, r)

StopStep(n, l, h, m, k, X, r) ==
    /\ h.event = "stop" /\ h.rev = 0 /\ k = Update(h, l, r)
    /\ IF k = l \/ h.flag THEN X = {} /\ m = Returned(n, h, FALSE)
       ELSE X = {[h EXCEPT !.rev = k.rev, !.prior = PriorIntent(h, l)]} /\ m = n

BlockStep(n, l, h, m, k, X) ==
    /\ h.event = "stop" /\ h.rev > 0 /\ X = {}
    /\ \/ Tombstone(l) /\ l.rev = h.rev /\ k = Reopened(h, l) /\ m = Returned(n, h, TRUE)
       \/ k = l /\ m = Returned(n, h, FALSE)

(* An event that was ignored only because the rollout could not be read is lost. *)
HookStep(n, l, h, m, k, X, gone) ==
    \/ \E r \in BOOLEAN :
          /\ SettleStep(n, l, h, m, k, X, r) \/ StopStep(n, l, h, m, k, X, r)
          /\ r \/ Update(h, l, TRUE) = l \/ h.event \in gone
    \/ BlockStep(n, l, h, m, k, X)

(* What a fault does: *)

FaultStep(n, H, m, G, gone) ==
    \/ \E h \in H, left \in {TRUE, FALSE} :
          /\ h.waited /\ h.event \in gone /\ m = Returned(n, h, FALSE)
          /\ G = (H \ {h}) \union (IF left THEN {[h EXCEPT !.waited = FALSE]} ELSE {})
    \/ /\ G = {[h EXCEPT !.waited = FALSE] : h \in H}
       /\ \A h \in H : h.waited => h.event \in gone
       /\ m = IF n.phase = "idle" THEN n
              ELSE [n EXCEPT !.phase = "idle", !.how = "interrupt", !.tools = {}]

(* And time: *)

TimeStep(H, l, k) ==
    \/ k = [l EXCEPT !.live = FALSE] /\ l # NoLease /\ (Tombstone(l) => H = {})
    \/ k = NoLease /\ Tombstone(l) /\ ~l.live

Others(a) ==
    \A b \in Actors \ {a} :
        /\ native'[b] = native[b] /\ Own(b)' = Own(b) /\ lease'[b] = lease[b]
        /\ seen'[b] = seen[b]

Same(a) ==
    native'[a] = native[a] /\ Own(a)' = Own(a) /\ lease'[a] = lease[a] /\ seen'[a] = seen[a]

(* A step of a. *)
ActorStep(a) ==
    /\ session' = session
    /\ \/ /\ Others(a) /\ lost' = lost /\ faults' = faults /\ lease'[a] = lease[a]
          /\ seen'[a] = seen[a]
          /\ \E m, X : /\ native'[a] = m /\ Own(a)' = Own(a) \union X
                       /\ ProviderStep(a, native[a], Own(a), m, X)
       \/ /\ Others(a) /\ faults' = faults
          /\ \A b \in Actors : lost[b] \subseteq lost'[b]
          /\ \E h \in Own(a) : \E m, k, X :
                /\ native'[a] = m /\ lease'[a] = k /\ Own(a)' = (Own(a) \ {h}) \union X
                /\ seen'[a] = IF k # lease[a] /\ h.turn > seen[a] THEN h.turn ELSE seen[a]
                /\ HookStep(native[a], lease[a], h, m, k, X, lost'[a])
       \/ /\ Others(a) /\ lost' = lost /\ faults' = faults /\ native'[a] = native[a]
          /\ Own(a)' = Own(a) /\ seen'[a] = seen[a]
          /\ TimeStep(Own(a), lease[a], lease'[a])

AnyFault ==
    /\ session' = session /\ faults < session.faults /\ faults' = faults + 1
    /\ \A a \in Actors :
          /\ lease'[a] = lease[a] /\ seen'[a] = seen[a] /\ lost[a] \subseteq lost'[a]
          /\ Same(a) \/ FaultStep(native[a], Own(a), native'[a], Own(a)', lost'[a])

Idles ==
    /\ session' = session /\ lost' = lost /\ faults' = faults /\ \A a \in Actors : Same(a)

-----------------------------------------------------------------------------
(* Bounds *)

(* No Codex session ends, or is resumed, while the model looks at it. *)
NeverEnds == Codex => "session" \notin session.events["main"]

Stops == {"stop", "substop"}

(* The hooks of an event. *)
HookBound(h) ==
    /\ h.tool <= session.tools
    /\ h.event \in {"stop", "failure", "session"} => h.actor = "main"
    /\ h.event \in {"start", "substop"} => h.actor = "child"
    /\ h.event = "session" => "session" \in session.events["main"]
    /\ h.rev > 0 => h.event = "stop"

LeaseBound(l) ==
    /\ l.turn \in 0 .. MaxTurn
    /\ l.claims \subseteq (1 .. MaxTurn) \X (0 .. session.tools)
    /\ l.state = "idle" => l.claims = {} /\ ~l.cont
    /\ Codex /\ NeverEnds => l.turn # 0

Bounded(n, H, l) ==
    /\ n.turn <= MaxTurn /\ n.used <= session.tools /\ n.tools \subseteq 1 .. n.used
    /\ n.phase # "idle" => n.turn # 0
    /\ n.tools # {} => n.phase = "open"
    /\ \A h \in H : HookBound(h) /\ h.turn \in 1 .. n.turn
    /\ \A h \in H : h.waited /\ h.event \in Stops =>
          /\ n.phase = "stopping"
          /\ \A k \in H : k.waited /\ k.event \in Stops => k = h
    /\ l # NoLease => LeaseBound(l) /\ l.turn <= n.turn

BoundsInv ==
    /\ Types /\ faults <= session.faults
    /\ \A a \in Actors : Bounded(native[a], Own(a), lease[a])

LEMMA Fresh0 ==
    ASSUME Types, NEW a \in Actors, NEW m, NEW e, NEW tool, Fire(a, m, e, tool), Types'
    PROVE  \E x : /\ x.event = e /\ x.tool = tool /\ Fresh(x, a, m)
                  /\ native'[a] = m /\ Own(a)' = Own(a) \union {x}
<1>1. native'[a] = m
  BY DEF Fire, Types
<1> DEFINE x == Fired(a, e, tool)
<1>2. x.event = e /\ x.tool = tool /\ x.turn = m.turn /\ x.waited /\ x.actor = a /\ x.rev = 0
  BY <1>1 DEF Fired
<1>3. hooks' = hooks \union {x} /\ session' = session /\ e \in session.events[a]
  BY DEF Fire
<1> HIDE DEF x
<1>4. Own(a)' = Own(a) \union {x}
  BY <1>2, <1>3 DEF Own
<1>5. x \in Hooks
  BY <1>3 DEF Types, Hooks, Codex
<1> QED BY <1>1, <1>2, <1>3, <1>4, <1>5 DEF Fresh

LEMMA FireOthers ==
    ASSUME Types, NEW a \in Actors, NEW m, NEW e, NEW tool, Fire(a, m, e, tool)
    PROVE  /\ Others(a) /\ lost' = lost /\ faults' = faults /\ lease'[a] = lease[a]
           /\ seen'[a] = seen[a] /\ session' = session
<1>1. \A b \in Actors \ {a} : native'[b] = native[b] /\ Own(b)' = Own(b)
  BY FireFrame
<1>2. lease' = lease /\ seen' = seen /\ lost' = lost /\ faults' = faults /\ session' = session
  BY DEF Fire, files
<1> QED BY <1>1, <1>2 DEF Others

LEMMA GoOnStep ==
    ASSUME Types, NEW a \in Actors, NEW m, GoOn(a, m), ProviderStep(a, native[a], Own(a), m, {})
    PROVE  ActorStep(a)
<1>1. native'[a] = m /\ \A b \in Actors \ {a} : native'[b] = native[b]
  BY DEF GoOn, Types
<1>2. /\ lease' = lease /\ seen' = seen /\ lost' = lost /\ faults' = faults
      /\ session' = session /\ hooks' = hooks
  BY DEF GoOn, files
<1>3. \A b \in Actors : Own(b)' = Own(b)
  BY <1>2 DEF Own
<1>4. Own(a)' = Own(a) \union {}
  BY <1>3
<1> QED BY <1>1, <1>2, <1>3, <1>4 DEF Others, ActorStep

LEMMA FireStep ==
    ASSUME Types, Types', NEW a \in Actors, NEW m, NEW e, NEW tool, Fire(a, m, e, tool),
           \A x : x.event = e /\ x.tool = tool /\ Fresh(x, a, m)
                  => ProviderStep(a, native[a], Own(a), m, {x})
    PROVE  ActorStep(a)
<1>1. PICK x : /\ x.event = e /\ x.tool = tool /\ Fresh(x, a, m)
               /\ native'[a] = m /\ Own(a)' = Own(a) \union {x}
  BY Fresh0
<1>2. ProviderStep(a, native[a], Own(a), m, {x})
  BY <1>1
<1> QED BY <1>1, <1>2, FireOthers DEF ActorStep

LEMMA FreeHooks == ASSUME NEW a, Free(a) PROVE FreeOf(Own(a))
BY DEF Free, FreeOf, Own

LEMMA BeginSteps ==
    ASSUME BoundsInv, Types', SubmitPrompt \/ ContinueGoal \/ FollowUp \/ StartSubagent
    PROVE  \E a \in Actors : ActorStep(a)
<1> USE DEF BoundsInv
<1>0. /\ "main" \in Actors /\ "child" \in Actors /\ MaxTurn \in Nat
      /\ native["main"].turn \in Nat /\ native["child"].turn \in Nat
  BY LeaseAssumption DEF Actors, Types, Natives
<1>1. CASE SubmitPrompt
  <2> DEFINE n == native["main"]
             m == NewTurn(n.turn + 1)
  <2>1. n.phase = "idle" /\ Free("main") /\ n.turn < MaxTurn /\ Fire("main", m, "prompt", 0)
    BY <1>1 DEF SubmitPrompt
  <2>2. FreeOf(Own("main"))
    BY <2>1, FreeHooks
  <2>3. \A x : x.event = "prompt" /\ x.tool = 0 /\ Fresh(x, "main", m)
               => ProviderStep("main", n, Own("main"), m, {x})
    <3> HIDE DEF n
    <3> QED BY <2>1, <2>2 DEF ProviderStep, Begins
  <2> HIDE DEF m
  <2> QED BY <1>0, <2>1, <2>3, FireStep
<1>2. CASE ContinueGoal
  <2> DEFINE n == native["main"]
             m == NewTurn(n.turn + 1)
  <2>1. /\ n.phase = "idle" /\ Free("main") /\ n.turn < MaxTurn /\ n.turn > 0 /\ Codex
        /\ n.how = "stop" /\ GoOn("main", m)
    BY <1>0, <1>2 DEF ContinueGoal
  <2>2. FreeOf(Own("main"))
    BY <2>1, FreeHooks
  <2>3. ProviderStep("main", n, Own("main"), m, {})
    <3> HIDE DEF n
    <3> QED BY <2>1, <2>2 DEF ProviderStep, Begins
  <2> HIDE DEF m
  <2> QED BY <1>0, <2>1, <2>3, GoOnStep
<1>3. CASE FollowUp
  <2> DEFINE n == native["child"]
             m == NewTurn(n.turn + 1)
  <2>1. /\ n.phase = "idle" /\ Free("child") /\ n.turn < MaxTurn /\ n.turn > 0 /\ Codex
        /\ n.how = "stop" /\ GoOn("child", m)
    BY <1>0, <1>3 DEF FollowUp
  <2>2. FreeOf(Own("child"))
    BY <2>1, FreeHooks
  <2>3. ProviderStep("child", n, Own("child"), m, {})
    <3> HIDE DEF n
    <3> QED BY <2>1, <2>2 DEF ProviderStep, Begins
  <2> HIDE DEF m
  <2> QED BY <1>0, <2>1, <2>3, GoOnStep
<1>4. CASE StartSubagent
  <2> DEFINE n == native["child"]
             m == NewTurn(n.turn + 1)
  <2>1. Open("main") /\ n.turn = 0 /\ Fire("child", NewTurn(1), "start", 0)
    BY <1>4 DEF StartSubagent
  <2>2. n.phase = "idle"
    BY <1>0, <2>1 DEF Bounded
  <2>3. MaxTurn > 0
    BY <1>0, <2>1 DEF Bounded, Open
  <2>4. m = NewTurn(1)
    BY <2>1
  <2>5. \A x : x.event = "start" /\ x.tool = 0 /\ Fresh(x, "child", m)
               => ProviderStep("child", n, Own("child"), m, {x})
    <3> HIDE DEF n
    <3> QED BY <2>1, <2>2, <2>3, <2>4 DEF ProviderStep, Begins, m
  <2> HIDE DEF m
  <2> QED BY <1>0, <2>1, <2>4, <2>5, FireStep
<1> QED BY <1>1, <1>2, <1>3, <1>4

LEMMA TurnSteps ==
    ASSUME BoundsInv, Types',
           QueuePrompt \/ PromptSubagent \/ FinishWithFailure \/ EndSession
    PROVE  \E a \in Actors : ActorStep(a)
<1> USE DEF BoundsInv
<1>0. /\ "main" \in Actors /\ "child" \in Actors /\ session.tools \in Nat
      /\ native["main"] \in Natives /\ native["child"] \in Natives
      /\ native["main"].used <= session.tools /\ native["child"].used <= session.tools
  BY SessionType DEF Actors, Types, Bounded
<1>1. CASE QueuePrompt
  <2> DEFINE n == native["main"]
             m == [n EXCEPT !.prompted = TRUE]
  <2>1. /\ n.phase = "open" /\ Claude /\ Free("main") /\ Fire("main", m, "prompt", 0)
    BY <1>1 DEF QueuePrompt, Open
  <2>2. FreeOf(Own("main"))
    BY <2>1, FreeHooks
  <2>3. m.phase = n.phase /\ m.turn = n.turn /\ m.how = n.how /\ m.tools = n.tools
        /\ m.used = n.used
    BY <1>0 DEF Natives
  <2>4. \A x : x.event = "prompt" /\ x.tool = 0 /\ Fresh(x, "main", m)
               => ProviderStep("main", n, Own("main"), m, {x})
    <3> HIDE DEF m
    <3> QED BY <1>0, <2>1, <2>2, <2>3 DEF ProviderStep, GoesOn
  <2> HIDE DEF m
  <2> QED BY <1>0, <2>1, <2>4, FireStep
<1>2. CASE PromptSubagent
  <2> DEFINE n == native["child"]
             m == [n EXCEPT !.prompted = TRUE]
  <2>1. /\ n.phase = "open" /\ Codex /\ Free("child") /\ Fire("child", m, "prompt", 0)
    BY <1>2 DEF PromptSubagent, Open
  <2>2. FreeOf(Own("child"))
    BY <2>1, FreeHooks
  <2>3. m.phase = n.phase /\ m.turn = n.turn /\ m.how = n.how /\ m.tools = n.tools
        /\ m.used = n.used
    BY <1>0 DEF Natives
  <2>4. \A x : x.event = "prompt" /\ x.tool = 0 /\ Fresh(x, "child", m)
               => ProviderStep("child", n, Own("child"), m, {x})
    <3> HIDE DEF m
    <3> QED BY <1>0, <2>1, <2>2, <2>3 DEF ProviderStep, GoesOn
  <2> HIDE DEF m
  <2> QED BY <1>0, <2>1, <2>4, FireStep
<1>3. CASE FinishWithFailure
  <2> DEFINE n == native["main"]
             m == [n EXCEPT !.phase = "idle"]
  <2>1. /\ n.phase = "open" /\ Claude /\ Free("main") /\ n.tools = {}
        /\ Fire("main", m, "failure", 0)
    BY <1>3 DEF FinishWithFailure, Answered, Open
  <2>2. FreeOf(Own("main"))
    BY <2>1, FreeHooks
  <2>3. m.phase = "idle" /\ m.turn = n.turn /\ m.how = n.how /\ m.tools = n.tools
        /\ m.used = n.used
    BY <1>0 DEF Natives
  <2>4. \A x : x.event = "failure" /\ x.tool = 0 /\ Fresh(x, "main", m)
               => ProviderStep("main", n, Own("main"), m, {x})
    <3> HIDE DEF m
    <3> QED BY <1>0, <2>1, <2>2, <2>3 DEF ProviderStep, EndsTurn
  <2> HIDE DEF m
  <2> QED BY <1>0, <2>1, <2>4, FireStep
<1>4. CASE EndSession
  <2> DEFINE n == native["main"]
             m == [n EXCEPT !.closed = TRUE]
  <2>1. /\ n.phase = "idle" /\ Free("main") /\ n.turn > 0 /\ Fire("main", m, "session", 0)
    BY <1>4 DEF EndSession
  <2>2. FreeOf(Own("main")) /\ n.tools = {}
    BY <1>0, <2>1, FreeHooks DEF Bounded
  <2>3. m.phase = n.phase /\ m.turn = n.turn /\ m.how = n.how /\ m.tools = n.tools
        /\ m.used = n.used
    BY <1>0 DEF Natives
  <2>4. \A x : x.event = "session" /\ x.tool = 0 /\ Fresh(x, "main", m)
               => ProviderStep("main", n, Own("main"), m, {x})
    <3> HIDE DEF m
    <3> QED BY <1>0, <2>1, <2>2, <2>3 DEF ProviderStep, EndsTurn
  <2> HIDE DEF m
  <2> QED BY <1>0, <2>1, <2>4, FireStep
<1> QED BY <1>1, <1>2, <1>3, <1>4

LEMMA CallSteps ==
    ASSUME BoundsInv, Types', NEW a \in Actors,
           \/ StartTool(a) \/ EndBatch(a) \/ Compact(a) \/ Finish(a)
           \/ \E t \in 1..session.tools : AskPermission(a, t) \/ EndTool(a, t)
    PROVE  ActorStep(a)
<1> USE DEF BoundsInv
<1> DEFINE n == native[a]
<1>0. /\ session.tools \in Nat /\ n \in Natives /\ n.used \in Nat /\ n.used <= session.tools
      /\ n.tools # {} => n.phase = "open"
      /\ n.tools \subseteq 1 .. n.used
  BY SessionType DEF Types, Bounded, Natives
<1>1. CASE StartTool(a)
  <2> DEFINE m == [n EXCEPT !.used = n.used + 1, !.tools = n.tools \union {n.used + 1}]
  <2>1. /\ n.phase = "open" /\ Free(a) /\ n.used < session.tools
        /\ Fire(a, m, "pre", n.used + 1)
    BY <1>1 DEF StartTool, Open
  <2>2. m.phase = n.phase /\ m.turn = n.turn /\ m.how = n.how /\ m.used = n.used + 1
        /\ m.tools = n.tools \union {m.used}
    BY <1>0 DEF Natives
  <2>3. FreeOf(Own(a)) /\ n.used + 1 <= session.tools
    BY <1>0, <2>1, FreeHooks
  <2>4. \A x : x.event = "pre" /\ x.tool = n.used + 1 /\ Fresh(x, a, m)
               => ProviderStep(a, n, Own(a), m, {x})
    <3> HIDE DEF m, n
    <3> QED BY <1>0, <2>1, <2>2, <2>3 DEF ProviderStep, GoesOn
  <2> HIDE DEF m
  <2> QED BY <2>1, <2>4, FireStep
<1>2. CASE EndBatch(a)
  <2> DEFINE m == [n EXCEPT !.batched = n.used]
  <2>1. n.phase = "open" /\ Claude /\ Fire(a, m, "batch", n.used)
    BY <1>2 DEF EndBatch, Open
  <2>2. m.phase = n.phase /\ m.turn = n.turn /\ m.how = n.how /\ m.used = n.used
        /\ m.tools = n.tools
    BY <1>0 DEF Natives
  <2>4. \A x : x.event = "batch" /\ x.tool = n.used /\ Fresh(x, a, m)
               => ProviderStep(a, n, Own(a), m, {x})
    <3> HIDE DEF m, n
    <3> QED BY <1>0, <2>1, <2>2 DEF ProviderStep, GoesOn
  <2> HIDE DEF m
  <2> QED BY <2>1, <2>4, FireStep
<1>3. CASE Compact(a)
  <2> DEFINE m == [n EXCEPT !.compacted = n.compacted + 1]
  <2>1. n.phase = "open" /\ Codex /\ Free(a)
    BY <1>3 DEF Compact, Open
  <2>5. PICK e \in {"precompact", "postcompact"} : Fire(a, m, e, 0)
    BY <1>3 DEF Compact
  <2>2. m.phase = n.phase /\ m.turn = n.turn /\ m.how = n.how /\ m.used = n.used
        /\ m.tools = n.tools
    BY <1>0 DEF Natives
  <2>3. FreeOf(Own(a))
    BY <2>1, FreeHooks
  <2>4. \A x : x.event = e /\ x.tool = 0 /\ Fresh(x, a, m)
               => ProviderStep(a, n, Own(a), m, {x})
    <3> HIDE DEF m, n
    <3> QED BY <1>0, <2>1, <2>2, <2>3 DEF ProviderStep, GoesOn
  <2> HIDE DEF m
  <2> QED BY <2>5, <2>4, FireStep
<1>4. CASE Finish(a)
  <2> DEFINE m == [n EXCEPT !.phase = "stopping"]
             e == IF a = "main" THEN "stop" ELSE "substop"
  <2>1. n.phase = "open" /\ Free(a) /\ n.tools = {} /\ Fire(a, m, e, 0)
    BY <1>4 DEF Finish, Answered, Open
  <2>2. m.phase = "stopping" /\ m.turn = n.turn /\ m.how = n.how /\ m.used = n.used
        /\ m.tools = n.tools
    BY <1>0 DEF Natives
  <2>3. FreeOf(Own(a))
    BY <2>1, FreeHooks
  <2>4. \A x : x.event = e /\ x.tool = 0 /\ Fresh(x, a, m)
               => ProviderStep(a, n, Own(a), m, {x})
    <3> HIDE DEF m, n
    <3> QED BY <1>0, <2>1, <2>2, <2>3 DEF ProviderStep, EndsTurn
  <2> HIDE DEF m, e
  <2> QED BY <2>1, <2>4, FireStep
<1>5. ASSUME NEW t \in 1..session.tools, AskPermission(a, t) PROVE ActorStep(a)
  <2> DEFINE m == [n EXCEPT !.asked = n.asked \union {t}]
  <2>1. t \in n.tools /\ Fire(a, m, "perm", t)
    BY <1>5 DEF AskPermission
  <2>2. m.phase = n.phase /\ m.turn = n.turn /\ m.how = n.how /\ m.used = n.used
        /\ m.tools = n.tools
    BY <1>0 DEF Natives
  <2>3. n.phase = "open" /\ t <= session.tools
    BY <1>0, <2>1
  <2>4. \A x : x.event = "perm" /\ x.tool = t /\ Fresh(x, a, m)
               => ProviderStep(a, n, Own(a), m, {x})
    <3> HIDE DEF m, n
    <3> QED BY <1>0, <2>1, <2>2, <2>3 DEF ProviderStep, GoesOn
  <2> HIDE DEF m
  <2> QED BY <2>1, <2>4, FireStep
<1>6. ASSUME NEW t \in 1..session.tools, EndTool(a, t) PROVE ActorStep(a)
  <2> DEFINE m == [n EXCEPT !.tools = n.tools \ {t}]
  <2>1. t \in n.tools /\ Fire(a, m, "post", t)
    BY <1>6 DEF EndTool
  <2>2. m.phase = n.phase /\ m.turn = n.turn /\ m.how = n.how /\ m.used = n.used
        /\ m.tools = n.tools \ {t}
    BY <1>0 DEF Natives
  <2>3. n.phase = "open" /\ t <= session.tools
    BY <1>0, <2>1
  <2>4. \A x : x.event = "post" /\ x.tool = t /\ Fresh(x, a, m)
               => ProviderStep(a, n, Own(a), m, {x})
    <3> HIDE DEF m, n
    <3> QED BY <1>0, <2>1, <2>2, <2>3 DEF ProviderStep, GoesOn
  <2> HIDE DEF m
  <2> QED BY <2>1, <2>4, FireStep
<1> QED BY <1>1, <1>2, <1>3, <1>4, <1>5, <1>6

(* What Put and Unattested do to all actors. *)
LEMMA PutStep ==
    ASSUME Types, NEW h \in Hooks, NEW k \in Leases \union {NoLease}, Put(h, k)
    PROVE  /\ lease'[h.actor] = k /\ session' = session /\ faults' = faults
           /\ seen'[h.actor] = IF k # lease[h.actor] /\ h.turn > seen[h.actor]
                               THEN h.turn ELSE seen[h.actor]
           /\ \A b \in Actors \ {h.actor} : lease'[b] = lease[b] /\ seen'[b] = seen[b]
<1>1. h.actor \in Actors
  BY DEF Hooks
<1> QED BY <1>1 DEF Put, Types

LEMMA UnattestedStep ==
    ASSUME Types, NEW h \in Hooks, NEW l, NEW r \in BOOLEAN, Unattested(h, l, r)
    PROVE  r \/ Update(h, l, TRUE) = l \/ h.event \in lost'[h.actor]
<1>1. h.actor \in Actors
  BY DEF Hooks
<1> QED BY <1>1 DEF Unattested, Types

LEMMA HookSteps ==
    ASSUME Types, NEW h \in hooks, Settle(h) \/ Stop(h) \/ Block(h)
    PROVE  ActorStep(h.actor)
<1> DEFINE a == h.actor
           l == lease[a]
           n == native[a]
<1>0. /\ h \in Hooks /\ a \in Actors /\ l \in Leases \union {NoLease} /\ h \in Own(a)
  BY DEF Types, Hooks, Own
<1>a. \A b \in Actors : lost[b] \subseteq lost'[b]
  BY HookTypes
<1>b. \A r \in BOOLEAN : Update(h, l, r) \in Leases \union {NoLease}
  BY <1>0, UpdateType
<1>1. ASSUME NEW k \in Leases \union {NoLease}, NEW b \in BOOLEAN, Put(h, k), End(h, b),
             HookStep(n, l, h, Returned(n, h, b), k, {}, lost'[a])
      PROVE  ActorStep(a)
  <2>1. /\ native'[a] = Returned(n, h, b) /\ Own(a)' = Own(a) \ {h}
        /\ \A c \in Actors \ {a} : native'[c] = native[c] /\ Own(c)' = Own(c)
    BY <1>1, EndFrame
  <2>2. /\ lease'[a] = k /\ session' = session /\ faults' = faults
        /\ seen'[a] = IF k # l /\ h.turn > seen[a] THEN h.turn ELSE seen[a]
        /\ \A c \in Actors \ {a} : lease'[c] = lease[c] /\ seen'[c] = seen[c]
    BY <1>0, <1>1, PutStep
  <2>3. Own(a)' = (Own(a) \ {h}) \union {}
    BY <2>1
  <2> DEFINE m == Returned(n, h, b)
  <2>4. native'[a] = m /\ HookStep(n, l, h, m, k, {}, lost'[a])
    BY <1>1, <2>1
  <2>5. Others(a)
    BY <2>1, <2>2 DEF Others
  <2>6. \E g \in Own(a) : \E mm, kk, X :
                /\ native'[a] = mm /\ lease'[a] = kk /\ Own(a)' = (Own(a) \ {g}) \union X
                /\ seen'[a] = IF kk # lease[a] /\ g.turn > seen[a] THEN g.turn ELSE seen[a]
                /\ HookStep(native[a], lease[a], g, mm, kk, X, lost'[a])
    <3> HIDE DEF m, n, l
    <3> QED BY <1>0, <2>2, <2>3, <2>4 DEF n, l
  <2> HIDE DEF n, l, m, a
  <2> QED BY <1>a, <2>2, <2>5, <2>6 DEF ActorStep
<1>2. CASE Settle(h)
  <2>1. PICK r \in BOOLEAN : Put(h, Update(h, l, r)) /\ Unattested(h, l, r)
    BY <1>2 DEF Settle
  <2>2. h.event # "stop" /\ End(h, FALSE)
    BY <1>2 DEF Settle
  <2>3. r \/ Update(h, l, TRUE) = l \/ h.event \in lost'[a]
    BY <1>0, <2>1, UnattestedStep
  <2> DEFINE k == Update(h, l, r)
             m == Returned(n, h, FALSE)
  <2>4. SettleStep(n, l, h, m, k, {}, r)
    BY <2>2 DEF SettleStep
  <2>5. HookStep(n, l, h, m, k, {}, lost'[a])
    <3> HIDE DEF k, m, n, l, a
    <3> QED BY <2>3, <2>4 DEF HookStep
  <2>6. Put(h, k) /\ k \in Leases \union {NoLease}
    BY <1>b, <2>1
  <2> HIDE DEF k
  <2> QED BY <1>1, <2>2, <2>5, <2>6
<1>3. CASE Stop(h)
  <2>1. PICK r \in BOOLEAN :
          LET new == Update(h, l, r) IN
          /\ Put(h, new) /\ Unattested(h, l, r)
          /\ IF new = l \/ h.flag THEN End(h, FALSE)
             ELSE /\ hooks' = (hooks \ {h}) \union
                       {[h EXCEPT !.rev = new.rev, !.prior = PriorIntent(h, l)]}
                  /\ UNCHANGED native
    BY <1>3 DEF Stop
  <2>2. h.event = "stop" /\ h.rev = 0
    BY <1>3 DEF Stop
  <2>3. r \/ Update(h, l, TRUE) = l \/ h.event \in lost'[a]
    BY <1>0, <2>1, UnattestedStep
  <2> DEFINE k == Update(h, l, r)
  <2>6. Put(h, k) /\ k \in Leases \union {NoLease}
    BY <1>b, <2>1
  <2>7. CASE k = l \/ h.flag
    <3> DEFINE m == Returned(n, h, FALSE)
    <3>1. End(h, FALSE)
      BY <2>1, <2>7
    <3>2. StopStep(n, l, h, m, k, {}, r)
      BY <2>2, <2>7 DEF StopStep
    <3>3. HookStep(n, l, h, m, k, {}, lost'[a])
      <4> HIDE DEF k, m, n, l, a
      <4> QED BY <2>3, <3>2 DEF HookStep
    <3> HIDE DEF k
    <3> QED BY <1>1, <2>6, <3>1, <3>3
  <2>8. CASE ~(k = l \/ h.flag)
    <3> DEFINE x == [h EXCEPT !.rev = k.rev, !.prior = PriorIntent(h, l)]
    <3>1. hooks' = (hooks \ {h}) \union {x} /\ native' = native
      BY <2>1, <2>8
    <3>2. x.actor = a
      BY <1>0 DEF Hooks
    <3>3. StopStep(n, l, h, n, k, {x}, r)
      BY <2>2, <2>8 DEF StopStep
    <3> HIDE DEF x, k
    <3>4. Own(a)' = (Own(a) \ {h}) \union {x} /\ \A b \in Actors \ {a} : Own(b)' = Own(b)
      BY <1>0, <3>1, <3>2 DEF Own
    <3>5. HookStep(n, l, h, n, k, {x}, lost'[a])
      <4> HIDE DEF n, l, a
      <4> QED BY <2>3, <3>3 DEF HookStep, k
    <3>6. /\ lease'[a] = k /\ session' = session /\ faults' = faults
          /\ seen'[a] = IF k # l /\ h.turn > seen[a] THEN h.turn ELSE seen[a]
          /\ \A c \in Actors \ {a} : lease'[c] = lease[c] /\ seen'[c] = seen[c]
      BY <1>0, <2>6, PutStep
    <3>7. Others(a)
      BY <3>1, <3>4, <3>6 DEF Others
    <3>8. native'[a] = n
      BY <3>1
    <3>9. \E g \in Own(a) : \E mm, kk, X :
                /\ native'[a] = mm /\ lease'[a] = kk /\ Own(a)' = (Own(a) \ {g}) \union X
                /\ seen'[a] = IF kk # lease[a] /\ g.turn > seen[a] THEN g.turn ELSE seen[a]
                /\ HookStep(native[a], lease[a], g, mm, kk, X, lost'[a])
      <4> HIDE DEF n, l
      <4> QED BY <1>0, <3>4, <3>5, <3>6, <3>8 DEF n, l
    <3>10. session' = session /\ faults' = faults
      BY <3>6
    <3>11. ActorStep(a)
      <4> HIDE DEF n, l, a
      <4> QED BY <1>a, <3>7, <3>9, <3>10 DEF ActorStep
    <3> QED BY <3>11
  <2> QED BY <2>7, <2>8
<1>4. CASE Block(h)
  <2>1. PICK b \in BOOLEAN, k \in Leases \union {NoLease} :
            /\ Put(h, k) /\ End(h, b)
            /\ \/ b = TRUE /\ Tombstone(l) /\ l.rev = h.rev /\ k = Reopened(h, l)
               \/ b = FALSE /\ k = l
    BY <1>0, <1>4, ReopenedType DEF Block
  <2> DEFINE m == Returned(n, h, b)
  <2>2. h.event = "stop" /\ h.rev > 0
    BY <1>4 DEF Block
  <2>3. BlockStep(n, l, h, m, k, {})
    BY <2>1, <2>2 DEF BlockStep
  <2>4. HookStep(n, l, h, m, k, {}, lost'[a])
    <3> HIDE DEF m, n, l, a
    <3> QED BY <2>3 DEF HookStep
  <2> QED BY <1>1, <2>1, <2>4
<1> QED BY <1>2, <1>3, <1>4

LEMMA FaultSteps ==
    ASSUME Types, Interrupt \/ \E h \in hooks : TimeOut(h)
    PROVE  AnyFault
<1>0. \A a \in Actors : lost[a] \subseteq lost'[a]
  BY FaultTypes
<1>1. /\ faults < session.faults /\ faults' = faults + 1
      /\ session' = session /\ lease' = lease /\ seen' = seen
  BY DEF Interrupt, TimeOut, Fault, files
<1>2. CASE Interrupt
  <2> SUFFICES ASSUME NEW a \in Actors
               PROVE  FaultStep(native[a], Own(a), native'[a], Own(a)', lost'[a])
    BY <1>0, <1>1 DEF AnyFault
  <2>1. native'[a] = IF native[a].phase = "idle" THEN native[a]
                     ELSE [native[a] EXCEPT !.phase = "idle", !.how = "interrupt",
                                            !.tools = {}]
    BY <1>2 DEF Interrupt
  <2>2. \A h \in hooks : h.actor = a <=> [h EXCEPT !.waited = FALSE].actor = a
    BY DEF Types, Hooks
  <2>3. hooks' = {[h EXCEPT !.waited = FALSE] : h \in hooks}
    BY <1>2 DEF Interrupt
  <2>4. Own(a)' = {[h EXCEPT !.waited = FALSE] : h \in Own(a)}
    BY <2>2, <2>3 DEF Own
  <2>5. \A h \in Own(a) : h.waited => h.event \in lost'[a]
    BY <1>2 DEF Interrupt, Own
  <2> QED BY <2>1, <2>4, <2>5 DEF FaultStep
<1>3. ASSUME NEW h \in hooks, TimeOut(h) PROVE AnyFault
  <2> DEFINE a == h.actor
             x == [h EXCEPT !.waited = FALSE]
  <2>1. a \in Actors /\ x.actor = a /\ h \in Own(a)
    BY DEF Types, Hooks, Own
  <2>2. PICK left \in {TRUE, FALSE} :
            hooks' = (hooks \ {h}) \union (IF left THEN {x} ELSE {})
    <3>1. hooks' = (hooks \ {h}) \union {x} \/ hooks' = (hooks \ {h}) \union {}
      BY <1>3 DEF TimeOut
    <3> QED BY <3>1
  <2>3. Own(a)' = (Own(a) \ {h}) \union (IF left THEN {x} ELSE {})
        /\ \A b \in Actors \ {a} : Own(b)' = Own(b)
    <3> HIDE DEF x
    <3> QED BY <2>1, <2>2 DEF Own
  <2>4. native'[a] = Returned(native[a], h, FALSE)
        /\ \A b \in Actors \ {a} : native'[b] = native[b]
    BY <1>3, <2>1 DEF TimeOut, Types
  <2>5. h.waited /\ h.event \in lost'[a]
    BY <1>3, <2>1 DEF TimeOut, Types
  <2>6. FaultStep(native[a], Own(a), native'[a], Own(a)', lost'[a])
    BY <2>1, <2>3, <2>4, <2>5 DEF FaultStep
  <2>7. \A b \in Actors \ {a} : Same(b)
    BY <1>1, <2>3, <2>4 DEF Same
  <2> HIDE DEF a
  <2> QED BY <1>0, <1>1, <2>6, <2>7 DEF AnyFault
<1> QED BY <1>2, <1>3

LEMMA TimeSteps ==
    ASSUME Types, NEW a \in Actors, Expire(a) \/ FindReapable(a) \/ Reap(a)
    PROVE  ActorStep(a) \/ Idles
<1>1. /\ native' = native /\ hooks' = hooks /\ seen' = seen /\ lost' = lost
      /\ session' = session /\ faults' = faults
  BY DEF Expire, FindReapable, Reap
<1>2. \A b \in Actors : Own(b)' = Own(b)
  BY <1>1 DEF Own
<1>3. \A b \in Actors \ {a} : lease'[b] = lease[b]
  BY DEF Expire, FindReapable, Reap, Types
<1>4. CASE Expire(a)
  <2>1. TimeStep(Own(a), lease[a], lease'[a])
    BY <1>4 DEF Expire, TimeStep, Own, Types
  <2> QED BY <1>1, <1>2, <1>3, <2>1 DEF ActorStep, Others
<1>5. CASE lease' = lease
  BY <1>1, <1>2, <1>5 DEF Idles, Same
<1>6. CASE Reap(a) /\ Tombstone(lease[a]) /\ ~lease[a].live
  <2>1. TimeStep(Own(a), lease[a], lease'[a])
    BY <1>6 DEF Reap, TimeStep, Types
  <2> QED BY <1>1, <1>2, <1>3, <2>1 DEF ActorStep, Others
<1>7. CASE Reap(a) /\ ~(Tombstone(lease[a]) /\ ~lease[a].live)
  <2>1. lease' = lease
    BY <1>7 DEF Reap, Types
  <2> QED BY <1>5, <2>1
<1> QED BY <1>4, <1>5, <1>6, <1>7 DEF FindReapable

(* Every step is a step of an actor, a fault, or none that matters here. *)
LEMMA Steps ==
    ASSUME BoundsInv, [Next]_vars
    PROVE  Types' /\ (Idles \/ AnyFault \/ \E a \in Actors : ActorStep(a))
<1>1. Types'
  BY StepTypes DEF BoundsInv
<1>2. CASE UNCHANGED vars
  BY <1>1, <1>2 DEF vars, Idles, Same, Own
<1>3. \A h \in hooks : h.actor \in Actors
  BY DEF BoundsInv, Types, Hooks
<1>4. CASE Next
  BY <1>1, <1>3, <1>4, BeginSteps, TurnSteps, CallSteps, HookSteps, FaultSteps, TimeSteps
     DEF Next, BoundsInv
<1> QED BY <1>1, <1>2, <1>4

(* What a hook writes is within the bounds. *)

FieldBound(F) ==
    /\ F.claims \subseteq (1 .. MaxTurn) \X (0 .. session.tools)
    /\ F.state = "idle" => F.claims = {} /\ ~F.cont

LEMMA WriteBound ==
    ASSUME Types, NEW h \in Hooks, HookBound(h), h.turn \in 1 .. MaxTurn,
           NEW l \in Leases \union {NoLease}, NEW F \in FieldSet, FieldBound(F)
    PROVE  LeaseBound(Write(h, l, F)) /\ Write(h, l, F).turn <= h.turn
<1>1. /\ Write(h, l, F).state = F.state /\ Write(h, l, F).claims = F.claims
      /\ Write(h, l, F).cont = F.cont /\ Write(h, l, F).turn = TurnId(h)
  BY DEF Write
<1>2. TurnId(h) \in {0, h.turn} /\ (Codex /\ NeverEnds => TurnId(h) = h.turn)
  BY SessionType DEF TurnId, HookBound, NeverEnds, Codex, Claude
<1>3. MaxTurn \in Nat
  BY LeaseAssumption
<1>4. TurnId(h) \in 0 .. MaxTurn /\ TurnId(h) <= h.turn
      /\ (Codex /\ NeverEnds => TurnId(h) # 0)
  BY <1>2, <1>3
<1> QED BY <1>1, <1>4 DEF LeaseBound, FieldBound

LEMMA CallBound ==
    ASSUME Types, NEW h \in Hooks, HookBound(h), h.turn \in 1 .. MaxTurn
    PROVE  Call(h) \in (1 .. MaxTurn) \X (0 .. session.tools)
<1>1. h.tool \in 0 .. session.tools
  BY SessionType DEF Hooks, HookBound
<1> QED BY <1>1 DEF Call

LEMMA CodexToolBound ==
    ASSUME Types, NEW h \in Hooks, HookBound(h), h.turn \in 1 .. MaxTurn,
           NEW l \in Leases \union {NoLease}, l # NoLease => LeaseBound(l),
           h.event \in {"pre", "perm", "post", "precompact", "postcompact"}
    PROVE  LeaseBound(CodexToolUpdate(h, l)) /\ CodexToolUpdate(h, l).turn <= h.turn
<1> DEFINE C == Carried(h, l)
           c == ClaimsOf(h)
           w == StateOf(h)
           B == (1 .. MaxTurn) \X (0 .. session.tools)
<1>1. /\ C \in FieldSet /\ C.state = "working" /\ C.claims = {}
      /\ c \subseteq Nat \X Nat /\ c \subseteq B
      /\ w \in {"working", "waiting"} /\ w # "idle"
  BY CarriedType, CallType, CallBound DEF Carried, Fields
<1>2. CASE h.event = "pre"
  <2> DEFINE F == [C EXCEPT !.state = w, !.claims = c, !.action = "tool"]
  <2>1. F \in FieldSet /\ F.state # "idle" /\ F.claims = c
    <3> HIDE DEF C, c, w
    <3> QED BY <1>1 DEF FieldSet
  <2>2. CodexToolUpdate(h, l) = Write(h, l, F)
    BY <1>2 DEF CodexToolUpdate
  <2> HIDE DEF F, c, C
  <2>3. FieldBound(F)
    BY <1>1, <2>1 DEF FieldBound
  <2> QED BY <2>1, <2>2, <2>3, WriteBound
<1>3. CASE h.event = "perm"
  <2> DEFINE a == IF SameTurn(h, l) /\ l.action # "none" THEN l.action ELSE "tool"
             s == IF SameTurn(h, l) /\ l.action # "none" /\ ~Waits(h) THEN l.claims ELSE c
             F == [C EXCEPT !.state = "waiting", !.action = a, !.claims = s]
  <2>1. a \in {"none", "tool", "compact"} /\ s \subseteq Nat \X Nat
    BY <1>1 DEF SameTurn, Leases
  <2>2. CodexToolUpdate(h, l) = Write(h, l, F)
    BY <1>3 DEF CodexToolUpdate
  <2>3. s \subseteq B
    BY <1>1 DEF SameTurn, LeaseBound
  <2>4. F \in FieldSet /\ F.state = "waiting" /\ F.claims = s
    <3> HIDE DEF C, a, s
    <3> QED BY <1>1, <2>1 DEF FieldSet
  <2> HIDE DEF F, c, C, a, s
  <2>5. FieldBound(F)
    BY <2>3, <2>4 DEF FieldBound
  <2> QED BY <2>2, <2>4, <2>5, WriteBound
<1>4. CASE h.event = "post"
  <2>1. CodexToolUpdate(h, l) = Write(h, l, C)
    BY <1>4 DEF CodexToolUpdate
  <2> HIDE DEF C
  <2>2. FieldBound(C)
    BY <1>1 DEF FieldBound
  <2> QED BY <1>1, <2>1, <2>2, WriteBound
<1>5. CASE h.event \in {"precompact", "postcompact"}
  <2> DEFINE i == IF l = NoLease THEN 0 ELSE l.intent
             a == IF h.event = "precompact" THEN "compact" ELSE "none"
             F == [C EXCEPT !.intent = i, !.action = a]
  <2>1. i \in Nat /\ a \in {"none", "tool", "compact"}
    BY DEF Leases
  <2>2. CodexToolUpdate(h, l) = Write(h, l, F)
    BY <1>5 DEF CodexToolUpdate
  <2>3. F \in FieldSet /\ F.state = "working" /\ F.claims = {}
    <3> HIDE DEF C, a, i
    <3> QED BY <1>1, <2>1 DEF FieldSet
  <2> HIDE DEF F, C, a, i
  <2>4. FieldBound(F)
    BY <2>3 DEF FieldBound
  <2> QED BY <2>2, <2>3, <2>4, WriteBound
<1> QED BY <1>2, <1>3, <1>4, <1>5

LEMMA IdleBound ==
    ASSUME Types, NEW h \in Hooks, HookBound(h), h.turn \in 1 .. MaxTurn,
           NEW l \in Leases \union {NoLease}
    PROVE  LeaseBound(Idle(h, l)) /\ Idle(h, l).turn <= h.turn
<1>1. [Fields EXCEPT !.state = "idle"] \in FieldSet
      /\ FieldBound([Fields EXCEPT !.state = "idle"])
  BY DEF Fields, FieldSet, FieldBound
<1> QED BY <1>1, WriteBound DEF Idle

LEMMA UpdateBound ==
    ASSUME Types, NEW h \in Hooks, HookBound(h), h.turn \in 1 .. MaxTurn,
           NEW l \in Leases \union {NoLease}, l # NoLease => LeaseBound(l), NEW r \in BOOLEAN
    PROVE  \/ Update(h, l, r) = l
           \/ LeaseBound(Update(h, l, r)) /\ Update(h, l, r).turn <= h.turn
<1> DEFINE G(k) == LeaseBound(k) /\ k.turn <= h.turn
<1>1. G(Write(h, l, [Fields EXCEPT !.intent = h.turn])) /\ G(Write(h, l, Fields))
  <2>1. [Fields EXCEPT !.intent = h.turn].claims = {} /\ Fields.claims = {}
        /\ [Fields EXCEPT !.intent = h.turn].state = "working" /\ Fields.state = "working"
    BY DEF Fields
  <2>2. FieldBound([Fields EXCEPT !.intent = h.turn]) /\ FieldBound(Fields)
    BY <2>1 DEF FieldBound
  <2> QED BY <2>2, ClaudeToolWrites, FieldsType, WriteBound
<1>2. G(Idle(h, l))
  BY IdleBound
<1>3. CASE Codex
  <2>1. h.event \in CodexEvents
    BY <1>3 DEF Hooks
  <2> HIDE DEF G
  <2>2. h.event \in {"pre", "perm", "post", "precompact", "postcompact"}
        => G(CodexToolUpdate(h, l))
    BY CodexToolBound DEF G
  <2>3. CodexUpdate(h, l, r) = l \/ G(CodexUpdate(h, l, r))
    BY <2>1, <2>2, <1>1, <1>2 DEF CodexEvents, Events, CodexUpdate
  <2> QED BY <2>3, <1>3 DEF Update, G
<1>4. CASE ~Codex
  <2>1. h.event \in ClaudeEvents
    BY <1>4 DEF Hooks
  <2>2. G(Write(h, l, [Fields EXCEPT !.claims = {Call(h)}]))
    <3>1. [Fields EXCEPT !.claims = {Call(h)}].claims = {Call(h)}
          /\ [Fields EXCEPT !.claims = {Call(h)}].state = "working"
      BY DEF Fields
    <3>2. FieldBound([Fields EXCEPT !.claims = {Call(h)}])
      BY <3>1, CallBound DEF FieldBound
    <3> QED BY <3>2, ClaudeToolWrites, WriteBound
  <2>3. G(Write(h, l, ToolFields(h, l)))
    <3> DEFINE F == ToolFields(h, l)
    <3>1. F.claims \subseteq KeptClaims(l) \union {Call(h)}
      BY DEF Fields, ToolFields
    <3>2. KeptClaims(l) \subseteq (1 .. MaxTurn) \X (0 .. session.tools)
      BY DEF KeptClaims, LeaseBound
    <3>3. F \in FieldSet /\ F.state # "idle"
      BY ClaudeToolWrites
    <3> HIDE DEF F
    <3>4. FieldBound(F)
      BY <3>1, <3>2, <3>3, CallBound DEF FieldBound
    <3>5. G(Write(h, l, F))
      BY <3>3, <3>4, WriteBound
    <3> QED BY <3>5 DEF F
  <2>4. l # NoLease => G(Write(h, l, [Fields EXCEPT !.intent = l.intent]))
    <3>1. [Fields EXCEPT !.intent = l.intent].claims = {}
          /\ [Fields EXCEPT !.intent = l.intent].state = "working"
      BY DEF Fields
    <3>2. FieldBound([Fields EXCEPT !.intent = l.intent])
      BY <3>1 DEF FieldBound
    <3> QED BY <3>2, ClaudeToolWrites, WriteBound
  <2> HIDE DEF G
  <2>5. ClaudeUpdate(h, l) = l \/ G(ClaudeUpdate(h, l))
    BY <2>1, <2>2, <2>3, <2>4, <1>1, <1>2
       DEF ClaudeEvents, Events, ClaudeUpdate, ClaudePost, ToolFields
  <2> QED BY <2>5, <1>4 DEF Update, G
<1> QED BY <1>3, <1>4

LEMMA ReopenedBound ==
    ASSUME Types, NEW h \in Hooks, HookBound(h), h.turn \in 1 .. MaxTurn,
           NEW l \in Leases \union {NoLease}
    PROVE  LeaseBound(Reopened(h, l)) /\ Reopened(h, l).turn <= h.turn
<1> DEFINE p == h.prior
           F == [Fields EXCEPT !.intent = p, !.cont = Codex]
<1>1. Codex \in BOOLEAN /\ p \in Nat
  BY DEF Codex, Hooks
<1>2. F \in FieldSet /\ F.state = "working" /\ F.claims = {}
  <2> HIDE DEF p
  <2> QED BY <1>1 DEF Fields, FieldSet
<1>3. Reopened(h, l) = Write(h, l, F)
  BY DEF Reopened
<1> HIDE DEF F
<1>4. FieldBound(F)
  BY <1>2 DEF FieldBound
<1> QED BY <1>2, <1>3, <1>4, WriteBound

LEMMA ProviderBound ==
    ASSUME Types, NEW a \in Actors, NEW n \in Natives, NEW m \in Natives, NEW H \in SUBSET Hooks,
           NEW l, NEW X, Bounded(n, H, l), ProviderStep(a, n, H, m, X),
           l # NoLease => l.turn \in Nat
    PROVE  Bounded(m, H \union X, l)
<1>0. /\ MaxTurn \in Nat /\ session.tools \in Nat /\ n.turn \in Nat /\ m.turn \in Nat
      /\ n.used \in Nat /\ m.used \in Nat /\ \A h \in H : h.turn \in Nat
  BY SessionType, LeaseAssumption DEF Natives, Hooks
<1>1. CASE Begins(a, n, H, m, X)
  <2>1. /\ m.turn = n.turn + 1 /\ m.phase = "open" /\ m.tools = {} /\ m.used = 0
    BY <1>1 DEF Begins, NewTurn
  <2>2. m.turn <= MaxTurn
    BY <1>0, <1>1, <2>1 DEF Begins
  <2>3. \A h \in H : h.turn \in 1 .. m.turn
    BY <1>0, <2>1 DEF Bounded
  <2>4. \A h \in H : ~(h.waited /\ h.event \in Stops)
    BY <1>0, <1>1 DEF Begins, FreeOf, Stops, CallEvents, Bounded
  <2>5. \A x \in X : /\ HookBound(x) /\ x.turn \in 1 .. m.turn /\ x.event \notin Stops
    BY <1>0, <1>1, <2>1 DEF Begins, Fresh, HookBound, Stops
  <2>6. l # NoLease => l.turn <= m.turn
    BY <1>0, <2>1 DEF Bounded
  <2> QED BY <1>0, <2>1, <2>2, <2>3, <2>4, <2>5, <2>6 DEF Bounded
<1>2. ASSUME NEW x, X = {x}, GoesOn(a, n, H, m, x) PROVE Bounded(m, H \union X, l)
  <2>1. m.turn = n.turn /\ m.phase = "open" /\ n.phase = "open" /\ m.used <= session.tools
    BY <1>2 DEF GoesOn
  <2>2. m.tools \subseteq 1 .. m.used
    BY <1>0, <1>2 DEF GoesOn, Bounded
  <2>3. m.turn # 0
    BY <2>1 DEF Bounded
  <2>4. HookBound(x) /\ x.turn \in 1 .. m.turn /\ x.event \notin Stops
    BY <1>0, <1>2, <2>3 DEF GoesOn, Fresh, HookBound, Stops, Actors
  <2>5. \A h \in H : ~(h.waited /\ h.event \in Stops)
    BY <2>1 DEF Bounded
  <2> QED BY <1>0, <1>2, <2>1, <2>2, <2>3, <2>4, <2>5 DEF Bounded
<1>3. ASSUME NEW x, X = {x}, EndsTurn(a, n, H, m, x) PROVE Bounded(m, H \union X, l)
  <2>1. m.turn = n.turn /\ m.used = n.used /\ m.tools = {}
        /\ (n.phase = "open" \/ n.turn > 0)
    BY <1>3 DEF EndsTurn
  <2>3. m.turn # 0
    BY <1>0, <2>1 DEF Bounded
  <2>4. HookBound(x) /\ x.turn \in 1 .. m.turn /\ x.waited
        /\ (x.event \in Stops => m.phase = "stopping")
    BY <1>0, <1>3, <2>3 DEF EndsTurn, Fresh, HookBound, Stops, Actors
  <2>5. \A h \in H : ~(h.waited /\ h.event \in Stops)
    BY <1>3 DEF EndsTurn, FreeOf, Stops, CallEvents
  <2> QED BY <1>0, <1>3, <2>1, <2>3, <2>4, <2>5 DEF Bounded
<1> QED BY <1>1, <1>2, <1>3 DEF ProviderStep

LEMMA ReturnedFacts ==
    ASSUME NEW n \in Natives, NEW h, NEW b \in BOOLEAN
    PROVE  LET m == Returned(n, h, b) IN
           /\ m.turn = n.turn /\ m.used = n.used /\ m.tools = n.tools /\ m.how = n.how
           /\ ~(h.waited /\ h.event \in Stops) => m = n
           /\ h.waited /\ h.event \in Stops => m.phase = IF b THEN "open" ELSE "idle"
BY DEF Returned, Natives, Stops

LEMMA HookStepBound ==
    ASSUME Types, NEW n \in Natives, NEW H \in SUBSET Hooks, NEW l \in Leases \union {NoLease},
           NEW h \in H, NEW m, NEW k, NEW X, NEW gone,
           Bounded(n, H, l), HookStep(n, l, h, m, k, X, gone)
    PROVE  Bounded(m, (H \ {h}) \union X, k)
<1>0. /\ h \in Hooks /\ HookBound(h) /\ h.turn \in 1 .. n.turn
      /\ n.turn \in Nat /\ n.turn <= MaxTurn /\ MaxTurn \in Nat
      /\ (l # NoLease => LeaseBound(l) /\ l.turn <= n.turn)
  BY LeaseAssumption DEF Bounded, Natives
<1>1. h.turn \in 1 .. MaxTurn
  BY <1>0
<1>2. k # NoLease => LeaseBound(k) /\ k.turn <= n.turn
  <2>1. k = l \/ (\E r \in BOOLEAN : k = Update(h, l, r)) \/ k = Reopened(h, l)
    BY DEF HookStep, SettleStep, StopStep, BlockStep
  <2>2. k = l \/ (LeaseBound(k) /\ k.turn <= h.turn)
    BY <1>0, <1>1, <2>1, UpdateBound, ReopenedBound
  <2> QED BY <1>0, <2>2 DEF LeaseBound
<1>3. ASSUME NEW b \in BOOLEAN, m = Returned(n, h, b), X = {}
      PROVE  Bounded(m, (H \ {h}) \union X, k)
  <2>1. /\ m.turn = n.turn /\ m.used = n.used /\ m.tools = n.tools
        /\ ~(h.waited /\ h.event \in Stops) => m = n
        /\ h.waited /\ h.event \in Stops => m.phase = IF b THEN "open" ELSE "idle"
    BY <1>3, ReturnedFacts
  <2>2. CASE h.waited /\ h.event \in Stops
    <3>1. \A g \in H \ {h} : ~(g.waited /\ g.event \in Stops)
      BY <2>2 DEF Bounded
    <3>2. n.phase = "stopping"
      BY <2>2 DEF Bounded
    <3>3. n.tools = {} /\ n.turn # 0
      BY <3>2 DEF Bounded
    <3> QED BY <1>2, <1>3, <2>1, <3>1, <3>3 DEF Bounded
  <2>3. CASE ~(h.waited /\ h.event \in Stops)
    <3>1. m = n
      BY <2>1, <2>3
    <3> QED BY <1>2, <1>3, <3>1 DEF Bounded
  <2> QED BY <2>2, <2>3
<1>4. ASSUME NEW i \in Nat, NEW j, X = {[h EXCEPT !.rev = i, !.prior = j]}, m = n,
             h.event = "stop"
      PROVE  Bounded(m, (H \ {h}) \union X, k)
  <2> DEFINE x == [h EXCEPT !.rev = i, !.prior = j]
  <2>1. /\ x.event = "stop" /\ x.waited = h.waited /\ x.turn = h.turn /\ x.tool = h.tool
        /\ x.actor = h.actor
    BY <1>0, <1>4 DEF Hooks
  <2>2. HookBound(x)
    BY <1>0, <1>4, <2>1 DEF HookBound
  <2>3. x.waited => \A g \in H \ {h} : ~(g.waited /\ g.event \in Stops)
    BY <1>4, <2>1 DEF Bounded, Stops
  <2>4. x.waited => n.phase = "stopping"
    BY <1>4, <2>1 DEF Bounded, Stops
  <2>5. \A g \in H \ {h} : g.waited /\ g.event \in Stops /\ h.waited => FALSE
    BY <1>4 DEF Bounded, Stops
  <2> HIDE DEF x
  <2>6. X = {x}
    BY <1>4 DEF x
  <2>7. \A g \in (H \ {h}) \union {x} : HookBound(g) /\ g.turn \in 1 .. n.turn
    BY <1>0, <2>1, <2>2 DEF Bounded
  <2>8. \A g \in (H \ {h}) \union {x} : g.waited /\ g.event \in Stops =>
            /\ n.phase = "stopping"
            /\ \A f \in (H \ {h}) \union {x} : f.waited /\ f.event \in Stops => f = g
    BY <2>1, <2>3, <2>4, <2>5 DEF Bounded, Stops
  <2> QED BY <1>2, <1>4, <2>6, <2>7, <2>8 DEF Bounded
<1>5. CASE \E r \in BOOLEAN : SettleStep(n, l, h, m, k, X, r)
  BY <1>3, <1>5 DEF SettleStep
<1>6. ASSUME NEW r \in BOOLEAN, StopStep(n, l, h, m, k, X, r)
      PROVE  Bounded(m, (H \ {h}) \union X, k)
  <2>1. CASE k = l \/ h.flag
    BY <1>3, <1>6, <2>1 DEF StopStep
  <2>2. CASE ~(k = l \/ h.flag)
    <3>1. k \in Leases
      BY <1>0, <1>6, <2>2, UpdateType DEF StopStep
    <3>2. k.rev \in Nat
      BY <3>1 DEF Leases
    <3> QED BY <1>4, <1>6, <2>2, <3>2 DEF StopStep
  <2> QED BY <2>1, <2>2
<1>7. CASE BlockStep(n, l, h, m, k, X)
  BY <1>3, <1>7 DEF BlockStep
<1> QED BY <1>5, <1>6, <1>7 DEF HookStep

LEMMA FaultBound ==
    ASSUME Types, NEW n \in Natives, NEW H \in SUBSET Hooks, NEW l, NEW m, NEW G, NEW gone,
           Bounded(n, H, l), FaultStep(n, H, m, G, gone)
    PROVE  Bounded(m, G, l)
<1> DEFINE U(h) == [h EXCEPT !.waited = FALSE]
<1>1. \A h \in H : /\ U(h).event = h.event /\ U(h).turn = h.turn /\ U(h).tool = h.tool
                   /\ U(h).actor = h.actor /\ U(h).rev = h.rev /\ ~U(h).waited
  BY DEF Hooks
<1>2. \A h \in H : HookBound(U(h)) /\ U(h).turn \in 1 .. n.turn
  <2> SUFFICES ASSUME NEW h \in H PROVE HookBound(U(h)) /\ U(h).turn \in 1 .. n.turn
    OBVIOUS
  <2>1. HookBound(h) /\ h.turn \in 1 .. n.turn
    BY DEF Bounded
  <2> HIDE DEF U
  <2> QED BY <1>1, <2>1 DEF HookBound
<1>3. ASSUME NEW h \in H, NEW left \in {TRUE, FALSE},
             h.waited, m = Returned(n, h, FALSE),
             G = (H \ {h}) \union (IF left THEN {U(h)} ELSE {})
      PROVE  Bounded(m, G, l)
  <2>1. /\ m.turn = n.turn /\ m.used = n.used /\ m.tools = n.tools
        /\ h.event \notin Stops => m = n
        /\ h.event \in Stops => m.phase = "idle"
    BY <1>3, ReturnedFacts
  <2>2. \A g \in G : /\ g \in H \ {h} \/ ~g.waited
                     /\ HookBound(g) /\ g.turn \in 1 .. m.turn
    <3> HIDE DEF U
    <3> QED BY <1>1, <1>2, <1>3, <2>1 DEF Bounded
  <2>3. CASE h.event \in Stops
    <3>1. \A g \in H \ {h} : ~(g.waited /\ g.event \in Stops)
      BY <1>3, <2>3 DEF Bounded
    <3>2. n.tools = {}
      BY <1>3, <2>3 DEF Bounded
    <3> QED BY <2>1, <2>2, <2>3, <3>1, <3>2 DEF Bounded
  <2>4. CASE h.event \notin Stops
    <3>1. m = n
      BY <2>1, <2>4
    <3>2. \A g \in G : g.waited => g \in H
      BY <2>2
    <3> QED BY <2>2, <3>1, <3>2 DEF Bounded
  <2> QED BY <2>3, <2>4
<1>4. ASSUME G = {U(h) : h \in H},
             m = IF n.phase = "idle" THEN n
                 ELSE [n EXCEPT !.phase = "idle", !.how = "interrupt", !.tools = {}]
      PROVE  Bounded(m, G, l)
  <2>1. m.turn = n.turn /\ m.used = n.used /\ m.phase = "idle" /\ m.tools = {}
    BY <1>4 DEF Natives, Bounded
  <2>2. \A g \in G : HookBound(g) /\ g.turn \in 1 .. m.turn /\ ~g.waited
    <3> HIDE DEF U
    <3> QED BY <1>1, <1>2, <1>4, <2>1
  <2> QED BY <2>1, <2>2 DEF Bounded
<1> QED BY <1>3, <1>4 DEF FaultStep

LEMMA TimeBound ==
    ASSUME NEW n, NEW H, NEW l \in Leases \union {NoLease}, NEW k,
           Bounded(n, H, l), TimeStep(H, l, k)
    PROVE  Bounded(n, H, k)
<1>1. CASE k = NoLease
  BY <1>1 DEF Bounded
<1>2. CASE k = [l EXCEPT !.live = FALSE] /\ l # NoLease
  <2>1. /\ k.turn = l.turn /\ k.claims = l.claims /\ k.state = l.state /\ k.cont = l.cont
    BY <1>2 DEF Leases
  <2> QED BY <1>2, <2>1 DEF Bounded, LeaseBound
<1> QED BY <1>1, <1>2 DEF TimeStep

LEMMA InitBounds == Init => BoundsInv
<1> SUFFICES ASSUME Init PROVE BoundsInv
  OBVIOUS
<1>1. Types /\ session.tools \in Nat /\ session.faults \in Nat /\ MaxTurn \in Nat
  BY InitTypes, SessionType, LeaseAssumption
<1>2. \A a \in Actors : Own(a) = {} /\ lease[a] = NoLease
  BY DEF Init, Own
<1>3. \A a \in Actors : /\ native[a].phase = "idle" /\ native[a].turn = 0
                        /\ native[a].used = 0 /\ native[a].tools = {}
  BY DEF Init, NewTurn
<1> QED BY <1>1, <1>2, <1>3 DEF BoundsInv, Bounded, Init

LEMMA StepBounds == BoundsInv /\ [Next]_vars => BoundsInv'
<1> SUFFICES ASSUME BoundsInv, [Next]_vars PROVE BoundsInv'
  OBVIOUS
<1>1. Types /\ Types' /\ (Idles \/ AnyFault \/ \E a \in Actors : ActorStep(a))
  BY Steps DEF BoundsInv
<1>2. session' = session /\ faults' <= session.faults /\ session.faults \in Nat
  BY <1>1, SessionType DEF BoundsInv, Idles, AnyFault, ActorStep, Types
<1>3. \A a \in Actors : /\ native[a] \in Natives /\ native'[a] \in Natives
                        /\ Own(a) \in SUBSET Hooks
                        /\ lease[a] \in Leases \union {NoLease}
                        /\ (lease[a] # NoLease => lease[a].turn \in Nat)
                        /\ Bounded(native[a], Own(a), lease[a])
  BY <1>1 DEF Types, Own, BoundsInv, Leases
<1> SUFFICES ASSUME NEW a \in Actors PROVE Bounded(native'[a], Own(a)', lease'[a])
  <2>1. ASSUME NEW a \in Actors, Bounded(native'[a], Own(a)', lease'[a])
        PROVE  Bounded(native[a], Own(a), lease[a])'
    BY <1>2, <2>1 DEF Bounded, HookBound, LeaseBound, NeverEnds, Codex
  <2> QED BY <1>1, <1>2, <2>1 DEF BoundsInv
<1>4. CASE Same(a)
  BY <1>3, <1>4 DEF Same
<1>5. CASE AnyFault
  BY <1>1, <1>3, <1>4, <1>5, FaultBound DEF AnyFault
<1>6. ASSUME NEW b \in Actors, ActorStep(b), a # b PROVE Bounded(native'[a], Own(a)', lease'[a])
  BY <1>3, <1>6 DEF ActorStep, Others
<1>7. CASE ActorStep(a)
  BY <1>1, <1>3, <1>7, ProviderBound, HookStepBound, TimeBound DEF ActorStep
<1> QED BY <1>1, <1>4, <1>5, <1>6, <1>7 DEF Idles

-----------------------------------------------------------------------------
(* Turns go forward. *)

Dead(l) == l = NoLease \/ (Tombstone(l) /\ ~l.live)

(* What holds of an actor of Codex: the lease l is of the latest turn s that wrote
   it, a lease that is gone, or may go, has left no hook of an older turn behind, a
   prompt of the main agent is of its turn, and a Stop that has left its tombstone
   finds it or a lease with a later revision. *)
Forward(a, n, H, l, s) ==
    /\ s <= n.turn
    /\ l # NoLease => l.turn = s
    /\ Dead(l) => \A h \in H : h.turn >= s
    /\ a = "main" => \A h \in H : h.event = "prompt" => h.waited /\ h.turn = n.turn
    /\ \A h \in H : h.rev > 0 =>
          /\ l # NoLease /\ l.rev >= h.rev /\ ~Dead(l)
          /\ l.rev = h.rev => l.turn = h.turn

(* No prompt of the main agent has been left behind. *)
Ordered(a) == Codex /\ NeverEnds /\ (a = "main" => "prompt" \notin lost["main"])

ForwardInv ==
    \A a \in Actors : Ordered(a) => Forward(a, native[a], Own(a), lease[a], seen[a])


(* A write advances the revision, and its lease is fresh. *)
LEMMA WriteFresh ==
    ASSUME NEW h, NEW l, NEW F
    PROVE  Write(h, l, F).rev = Revision(l) + 1 /\ Write(h, l, F).live
BY DEF Write

LEMMA UpdateFresh ==
    ASSUME Types, NEW h \in Hooks, NEW l \in Leases \union {NoLease}, NEW r \in BOOLEAN,
           Update(h, l, r) # l
    PROVE  /\ Update(h, l, r) \in Leases /\ Update(h, l, r) # NoLease
           /\ Update(h, l, r).turn = TurnId(h)
           /\ Update(h, l, r).rev = Revision(l) + 1 /\ Update(h, l, r).live
<1> DEFINE G(k) == k.rev = Revision(l) + 1 /\ k.live
<1>0. \A F : G(Write(h, l, F))
  BY WriteFresh
<1>1. CASE Codex
  <2>1. h.event \in CodexEvents
    BY <1>1 DEF Hooks
  <2> HIDE DEF G
  <2>2. h.event \in {"pre", "perm", "post", "precompact", "postcompact"}
        => G(CodexToolUpdate(h, l))
    BY <1>0 DEF CodexToolUpdate
  <2>3. G(Idle(h, l))
    BY <1>0 DEF Idle
  <2>4. CodexUpdate(h, l, r) = l \/ G(CodexUpdate(h, l, r))
    BY <2>1, <2>2, <2>3, <1>0 DEF CodexEvents, Events, CodexUpdate
  <2> QED BY <2>4, <1>1, UpdateType DEF Update, G
<1>2. CASE ~Codex
  <2>1. h.event \in ClaudeEvents
    BY <1>2 DEF Hooks
  <2> HIDE DEF G
  <2>2. G(Idle(h, l))
    BY <1>0 DEF Idle
  <2>3. ClaudeUpdate(h, l) = l \/ G(ClaudeUpdate(h, l))
    BY <2>1, <2>2, <1>0 DEF ClaudeEvents, Events, ClaudeUpdate, ClaudePost
  <2> QED BY <2>3, <1>2, UpdateType DEF Update, G
<1> QED BY <1>1, <1>2

(* Which hooks of Codex write at all. *)
LEMMA CodexWriters ==
    ASSUME Types, Codex, NEW h \in Hooks, NEW l \in Leases \union {NoLease}, NEW r \in BOOLEAN,
           Update(h, l, r) # l, h.event # "session"
    PROVE  \/ h.event = "prompt" /\ h.actor = "main"
           \/ l = NoLease \/ l.turn = 0 \/ l.turn = h.turn
           \/ native[h.actor].turn = h.turn
<1>1. h.event \in CodexEvents /\ h.actor \in {"main", "child"}
  BY DEF Hooks, Actors
<1>2. Update(h, l, r) = CodexUpdate(h, l, r)
  BY DEF Update
<1>3. CASE h.event = "prompt"
  BY <1>1, <1>2, <1>3 DEF CodexUpdate, StalePrompt, TurnsDiffer
<1>4. CASE h.event = "start"
  BY <1>1, <1>2, <1>4 DEF CodexUpdate, StaleStart
<1>5. CASE h.event \in {"pre", "perm", "post", "precompact", "postcompact"}
  <2>1. ~StaleTool(h, l, r)
    BY <1>2, <1>5 DEF CodexUpdate
  <2> QED BY <1>1, <2>1 DEF StaleTool, TurnsDiffer, Attested, Tombstone
<1>6. CASE h.event = "substop"
  BY <1>2, <1>6 DEF CodexUpdate, StaleSubagentStop, TurnsDiffer, Attested
<1>7. CASE h.event = "stop"
  BY <1>2, <1>7 DEF CodexUpdate, StaleStop, TurnsDiffer, Attested
<1> QED BY <1>1, <1>3, <1>4, <1>5, <1>6, <1>7 DEF CodexEvents, Events

LEMMA ForwardProvider ==
    ASSUME Types, NEW a \in Actors, NEW n \in Natives, NEW m \in Natives,
           NEW H \in SUBSET Hooks, NEW l, NEW s \in Nat, NEW X,
           Bounded(n, H, l), Forward(a, n, H, l, s), ProviderStep(a, n, H, m, X)
    PROVE  Forward(a, m, H \union X, l, s)
<1>0. n.turn \in Nat /\ m.turn \in Nat /\ \A h \in H : h.turn \in Nat
  BY DEF Natives, Hooks
<1>1. \A x \in X : x.turn = m.turn /\ x.waited /\ x.rev = 0
  BY DEF ProviderStep, Begins, GoesOn, EndsTurn, Fresh
<1>2. m.turn \in {n.turn, n.turn + 1}
  BY DEF ProviderStep, Begins, GoesOn, EndsTurn, NewTurn
<1>3. m.turn # n.turn /\ a = "main" => \A h \in H : h.event # "prompt"
  <2> SUFFICES ASSUME m.turn # n.turn, a = "main" PROVE \A h \in H : h.event # "prompt"
    OBVIOUS
  <2>1. FreeOf(H)
    BY DEF ProviderStep, Begins, GoesOn, EndsTurn
  <2> QED BY <2>1 DEF FreeOf, CallEvents, Forward
<1>4. s <= m.turn
  BY <1>0, <1>2 DEF Forward
<1>5. Dead(l) => \A h \in H \union X : h.turn >= s
  BY <1>0, <1>1, <1>4 DEF Forward
<1>6. a = "main" => \A h \in H \union X : h.event = "prompt" => h.waited /\ h.turn = m.turn
  BY <1>1, <1>2, <1>3 DEF Forward
<1>7. \A h \in H \union X : h.rev > 0 =>
          /\ l # NoLease /\ l.rev >= h.rev /\ ~Dead(l)
          /\ l.rev = h.rev => l.turn = h.turn
  BY <1>1 DEF Forward
<1> QED BY <1>4, <1>5, <1>6, <1>7 DEF Forward

(* The Stop between its two steps. *)
Left(h, l, k) == [h EXCEPT !.rev = k.rev, !.prior = PriorIntent(h, l)]

LEMMA HookStepShape ==
    ASSUME NEW n, NEW l, NEW h, NEW m, NEW k, NEW X, NEW gone, HookStep(n, l, h, m, k, X, gone)
    PROVE  /\ m = n \/ \E b \in BOOLEAN : m = Returned(n, h, b)
           /\ \/ k = l
              \/ (h.event # "stop" \/ h.rev = 0) /\ \E r \in BOOLEAN : k = Update(h, l, r)
              \/ /\ h.event = "stop" /\ h.rev > 0 /\ k = Reopened(h, l)
                 /\ Tombstone(l) /\ l.rev = h.rev
           /\ \A x \in X : k # l /\ h.event = "stop" /\ x = Left(h, l, k)
<1>1. CASE \E r \in BOOLEAN : SettleStep(n, l, h, m, k, X, r)
  BY <1>1 DEF SettleStep
<1>2. ASSUME NEW r \in BOOLEAN, StopStep(n, l, h, m, k, X, r), k = l \/ h.flag
      PROVE  /\ X = {} /\ m = Returned(n, h, FALSE) /\ k = Update(h, l, r)
             /\ h.event = "stop" /\ h.rev = 0
  BY <1>2 DEF StopStep
<1>3. ASSUME NEW r \in BOOLEAN, StopStep(n, l, h, m, k, X, r), ~(k = l \/ h.flag)
      PROVE  /\ X = {[h EXCEPT !.rev = k.rev, !.prior = PriorIntent(h, l)]}
             /\ m = n /\ k = Update(h, l, r) /\ h.event = "stop" /\ h.rev = 0 /\ k # l
  BY <1>3 DEF StopStep
<1>4. CASE BlockStep(n, l, h, m, k, X)
  BY <1>4 DEF BlockStep
<1>5. CASE \E r \in BOOLEAN : StopStep(n, l, h, m, k, X, r)
  <2>1. PICK r \in BOOLEAN : StopStep(n, l, h, m, k, X, r)
    BY <1>5
  <2>2. CASE k = l \/ h.flag
    BY <1>2, <2>1, <2>2
  <2>3. CASE ~(k = l \/ h.flag)
    <3> DEFINE x == [h EXCEPT !.rev = k.rev, !.prior = PriorIntent(h, l)]
    <3>1. X = {x} /\ m = n /\ k = Update(h, l, r) /\ h.event = "stop" /\ h.rev = 0 /\ k # l
      BY <1>3, <2>1, <2>3
    <3>2. \A y \in X : k # l /\ h.event = "stop" /\ y = x
      <4> HIDE DEF x
      <4> QED BY <3>1
    <3> QED BY <3>1, <3>2 DEF Left
  <2> QED BY <2>2, <2>3
<1> QED BY <1>1, <1>4, <1>5 DEF HookStep

(* The latest turn that has written the lease. *)
Latest(h, l, k, s) == IF k # l /\ h.turn > s THEN h.turn ELSE s

Advances(a, H, l, s, h, m, k, X) ==
    /\ Forward(a, m, (H \ {h}) \union X, k, Latest(h, l, k, s))
    /\ k # l => k \in Leases /\ k # NoLease /\ k.turn = h.turn /\ h.turn >= s
    /\ h.rev > 0 /\ k # l => s = h.turn

LEMMA ForwardHook ==
    ASSUME Types, Codex, NeverEnds, NEW a \in Actors, NEW n, n \in Natives, n = native[a],
           NEW H, H \in SUBSET Hooks, NEW l \in Leases \union {NoLease}, NEW s \in Nat,
           NEW h, h \in H, h.actor = a, NEW m, NEW k, NEW X, NEW gone,
           Bounded(n, H, l), Forward(a, n, H, l, s), HookStep(n, l, h, m, k, X, gone)
    PROVE  Advances(a, H, l, s, h, m, k, X)
<1>0. /\ h \in Hooks /\ n.turn \in Nat /\ h.turn \in Nat /\ h.turn <= n.turn
      /\ HookBound(h) /\ (l # NoLease => l.turn # 0 /\ l.turn \in Nat /\ l.rev \in Nat)
      /\ \A g \in H : g.rev \in Nat /\ g.turn \in Nat
  BY DEF Bounded, LeaseBound, Natives, Hooks, Leases
<1>s. /\ m = n \/ \E b \in BOOLEAN : m = Returned(n, h, b)
      /\ \/ k = l
         \/ (h.event # "stop" \/ h.rev = 0) /\ \E r \in BOOLEAN : k = Update(h, l, r)
         \/ /\ h.event = "stop" /\ h.rev > 0 /\ k = Reopened(h, l)
            /\ Tombstone(l) /\ l.rev = h.rev
      /\ \A x \in X : k # l /\ h.event = "stop" /\ x = Left(h, l, k)
  <2>1. HookStep(n, l, h, m, k, X, gone)
    OBVIOUS
  <2> QED BY ONLY <2>1, HookStepShape
<1>1. h.event # "session" /\ TurnId(h) = h.turn
  BY <1>0, SessionType DEF HookBound, NeverEnds, TurnId, Codex, Claude
<1>2. /\ \A r \in BOOLEAN : Update(h, l, r) # l =>
             /\ Update(h, l, r) \in Leases /\ Update(h, l, r) # NoLease
             /\ Update(h, l, r).turn = h.turn /\ Update(h, l, r).live
             /\ Update(h, l, r).rev = Revision(l) + 1 /\ h.turn >= s
  <2> SUFFICES ASSUME NEW r \in BOOLEAN, Update(h, l, r) # l
               PROVE  /\ Update(h, l, r) \in Leases /\ Update(h, l, r) # NoLease
                      /\ Update(h, l, r).turn = h.turn /\ Update(h, l, r).live
                      /\ Update(h, l, r).rev = Revision(l) + 1 /\ h.turn >= s
    OBVIOUS
  <2>1. \/ h.event = "prompt" /\ a = "main"
        \/ l = NoLease \/ l.turn = h.turn \/ n.turn = h.turn
    BY <1>0, <1>1, CodexWriters
  <2>2. h.turn >= s
    BY <1>0, <2>1 DEF Forward, Dead
  <2> QED BY <1>0, <1>1, <2>2, UpdateFresh
<1>3. /\ Reopened(h, l) \in Leases /\ Reopened(h, l) # NoLease
      /\ Reopened(h, l).turn = h.turn /\ Reopened(h, l).live
      /\ Reopened(h, l).rev = Revision(l) + 1
  BY <1>0, <1>1, ReopenedType, WriteFresh DEF Reopened
<1>4. k = Reopened(h, l) /\ h.rev > 0 /\ Tombstone(l) /\ l.rev = h.rev => s = h.turn
  BY DEF Forward, Tombstone
<1>5. /\ k # l => /\ k \in Leases /\ k # NoLease /\ k.turn = h.turn /\ k.live
                  /\ k.rev = Revision(l) + 1 /\ h.turn >= s
      /\ h.rev > 0 /\ k # l => s = h.turn
  <2>2. h.rev > 0 => h.event = "stop"
    BY <1>0 DEF HookBound
  <2>3. CASE k = Reopened(h, l) /\ h.rev > 0 /\ Tombstone(l) /\ l.rev = h.rev
    BY <1>0, <1>3, <1>4, <2>3
  <2>4. CASE (\E r \in BOOLEAN : k = Update(h, l, r)) /\ ~(h.rev > 0)
    BY <1>2, <2>4
  <2>5. CASE k = l
    BY <2>5
  <2>6. \/ (\E r \in BOOLEAN : k = Update(h, l, r)) /\ ~(h.rev > 0)
        \/ k = l
        \/ k = Reopened(h, l) /\ h.rev > 0 /\ Tombstone(l) /\ l.rev = h.rev
    BY <1>0, <1>s, <2>2
  <2> QED BY <2>3, <2>4, <2>5, <2>6
<1>6. m.turn = n.turn
  BY <1>s, ReturnedFacts
<1>7. \A x \in X : /\ x.turn = h.turn /\ x.event = "stop" /\ x.rev = k.rev /\ k # l
  <2> SUFFICES ASSUME NEW x \in X
               PROVE  x.turn = h.turn /\ x.event = "stop" /\ x.rev = k.rev /\ k # l
    OBVIOUS
  <2>1. k # l /\ h.event = "stop" /\ x = Left(h, l, k)
    BY <1>s
  <2> QED BY <1>0, <2>1 DEF Hooks, Left
<1> DEFINE t == Latest(h, l, k, s)
           K == (H \ {h}) \union X
<1>8. (k # l => t = h.turn /\ ~Dead(k)) /\ (k = l => t = s)
  BY <1>0, <1>5 DEF Dead, Latest
<1>9. t <= m.turn /\ (k # NoLease => k.turn = t)
  BY <1>0, <1>5, <1>6, <1>8 DEF Forward
<1>10. Dead(k) => \A g \in K : g.turn >= t
  BY <1>7, <1>8 DEF Forward
<1>11. a = "main" => \A g \in K : g.event = "prompt" => g.waited /\ g.turn = m.turn
  BY <1>6, <1>7 DEF Forward
<1>12. \A g \in K : g.rev > 0 =>
          /\ k # NoLease /\ k.rev >= g.rev /\ ~Dead(k)
          /\ k.rev = g.rev => k.turn = g.turn
  <2>1. CASE k = l
    BY <1>7, <2>1 DEF Forward
  <2>2. CASE k # l
    <3>1. \A g \in H \ {h} : g.rev > 0 => k.rev > g.rev
      BY <1>0, <1>5, <2>2 DEF Forward, Revision
    <3>2. k.rev \in Nat
      BY <1>5, <2>2 DEF Leases
    <3> QED BY <1>0, <1>5, <1>7, <1>8, <2>2, <3>1, <3>2
  <2> QED BY <2>1, <2>2
<1>13. Forward(a, m, K, k, t)
  <2> HIDE DEF K, t
  <2> QED BY <1>9, <1>10, <1>11, <1>12 DEF Forward
<1> QED BY <1>5, <1>13 DEF Advances

LEMMA ForwardFault ==
    ASSUME Types, NEW a \in Actors, NEW n \in Natives, NEW H \in SUBSET Hooks,
           NEW l, NEW s \in Nat, NEW m, NEW G, NEW gone, a = "main" => "prompt" \notin gone,
           Forward(a, n, H, l, s), FaultStep(n, H, m, G, gone)
    PROVE  Forward(a, m, G, l, s)
<1> DEFINE U(h) == [h EXCEPT !.waited = FALSE]
<1>1. \A h \in H : /\ U(h).event = h.event /\ U(h).turn = h.turn /\ U(h).rev = h.rev
  BY DEF Hooks
<1>2. m.turn = n.turn
  <2>1. ASSUME NEW h \in H, m = Returned(n, h, FALSE) PROVE m.turn = n.turn
    BY <2>1, ReturnedFacts
  <2>2. CASE m = n \/ m = [n EXCEPT !.phase = "idle", !.how = "interrupt", !.tools = {}]
    BY <2>2 DEF Natives
  <2> QED BY <2>1, <2>2 DEF FaultStep
<1>3. /\ \A g \in G : g \in H \/ \E h \in H : g = U(h)
      /\ a = "main" => \A g \in G : g.event = "prompt" => g \in H
  <2>1. ASSUME NEW h \in H, NEW left \in {TRUE, FALSE}, h.waited, h.event \in gone,
               G = (H \ {h}) \union (IF left THEN {U(h)} ELSE {})
        PROVE  /\ \A g \in G : g \in H \/ g = U(h)
               /\ a = "main" => \A g \in G : g.event = "prompt" => g \in H
    <3>1. U(h).event = h.event
      BY <1>1
    <3> HIDE DEF U
    <3> QED BY <2>1, <3>1
  <2>2. ASSUME G = {U(h) : h \in H}, \A h \in H : h.waited => h.event \in gone
        PROVE  /\ \A g \in G : \E h \in H : g = U(h)
               /\ a = "main" => \A g \in G : g.event # "prompt"
    <3>1. a = "main" => \A h \in H : h.event # "prompt"
      BY <2>2 DEF Forward
    <3> HIDE DEF U
    <3> QED BY <1>1, <2>2, <3>1
  <2> QED BY <2>1, <2>2 DEF FaultStep
<1>4. \A g \in G : \E h \in H : g.event = h.event /\ g.turn = h.turn /\ g.rev = h.rev
  <2> HIDE DEF U
  <2> QED BY <1>1, <1>3
<1>5. a = "main" => \A g \in G : g.event = "prompt" => g.waited /\ g.turn = m.turn
  BY <1>2, <1>3 DEF Forward
<1> QED BY <1>2, <1>4, <1>5 DEF Forward

LEMMA ForwardTime ==
    ASSUME NEW a, NEW n, NEW H, NEW l \in Leases \union {NoLease}, NEW s, NEW k,
           Forward(a, n, H, l, s), TimeStep(H, l, k)
    PROVE  Forward(a, n, H, k, s)
<1>1. CASE k = NoLease /\ Tombstone(l) /\ ~l.live
  BY <1>1 DEF Forward, Dead
<1>2. CASE k = [l EXCEPT !.live = FALSE] /\ l # NoLease /\ (Tombstone(l) => H = {})
  <2>1. k.turn = l.turn /\ k.state = l.state /\ k.rev = l.rev /\ k \in Leases
    BY <1>2 DEF Leases
  <2>2. k # NoLease
    BY <2>1, LeaseAssumption
  <2>3. Tombstone(k) <=> Tombstone(l)
    BY <1>2, <2>1, <2>2 DEF Tombstone
  <2>4. CASE Tombstone(l)
    BY <1>2, <2>1, <2>4 DEF Forward
  <2>5. CASE ~Tombstone(l)
    BY <1>2, <2>1, <2>2, <2>3, <2>5 DEF Forward, Dead
  <2> QED BY <2>4, <2>5
<1> QED BY <1>1, <1>2 DEF TimeStep

LEMMA InitForward == Init => ForwardInv
<1> SUFFICES ASSUME Init, NEW a \in Actors
             PROVE  Forward(a, native[a], Own(a), lease[a], seen[a])
  BY DEF ForwardInv
<1>1. Own(a) = {} /\ lease[a] = NoLease /\ native[a].turn = 0 /\ seen[a] = 0
  BY DEF Init, Own, NewTurn
<1> QED BY <1>1 DEF Forward

(* What a step may do to a lease that moves forward. *)
Moves(a) ==
    \/ lease'[a] = lease[a]
    \/ /\ Own(a)' = Own(a)
       /\ \/ lease'[a] = NoLease
          \/ lease'[a] = [lease[a] EXCEPT !.live = FALSE] /\ lease[a] # NoLease
    \/ \E h \in Own(a) : /\ lease'[a] # NoLease /\ lease'[a].turn = h.turn
                         /\ h.turn >= seen[a] /\ (h.rev > 0 => seen[a] = h.turn)
                         /\ \A g \in Own(a) \ {h} : g \in Own(a)'

(* What an actor's step, in a session of ordered turns, keeps. *)
ForwardStep(a) ==
    /\ Moves(a)
    /\ (a = "main" => "prompt" \notin lost'["main"])
       => Forward(a, native'[a], Own(a)', lease'[a], seen'[a])

LEMMA ForwardSteps ==
    BoundsInv /\ ForwardInv /\ [Next]_vars => \A a \in Actors : Ordered(a) => ForwardStep(a)
<1> SUFFICES ASSUME BoundsInv, ForwardInv, [Next]_vars, NEW a \in Actors, Ordered(a)
             PROVE  ForwardStep(a)
  OBVIOUS
<1>1. Types /\ Types' /\ (Idles \/ AnyFault \/ \E b \in Actors : ActorStep(b))
  BY Steps DEF BoundsInv
<1>4. Codex /\ NeverEnds
  BY DEF Ordered
<1>5. /\ native[a] \in Natives /\ native'[a] \in Natives /\ Own(a) \in SUBSET Hooks
      /\ lease[a] \in Leases \union {NoLease} /\ seen[a] \in Nat
      /\ \A h \in Own(a) : h.actor = a
      /\ Bounded(native[a], Own(a), lease[a])
      /\ Forward(a, native[a], Own(a), lease[a], seen[a])
  BY <1>1 DEF Types, Own, BoundsInv, ForwardInv
<1>6. CASE Same(a)
  BY <1>5, <1>6 DEF Same, Moves, ForwardStep
<1>7. CASE AnyFault
  <2>1. lease'[a] = lease[a] /\ seen'[a] = seen[a]
    BY <1>7 DEF AnyFault
  <2>2. CASE FaultStep(native[a], Own(a), native'[a], Own(a)', lost'[a])
    BY <1>1, <1>5, <2>1, <2>2, ForwardFault DEF Moves, ForwardStep
  <2> QED BY <1>6, <1>7, <2>1, <2>2 DEF AnyFault
<1>8. ASSUME NEW b \in Actors, ActorStep(b), a # b PROVE Same(a)
  BY <1>8 DEF ActorStep, Others, Same
<1>9. CASE ActorStep(a)
  <2>1. CASE /\ lease'[a] = lease[a] /\ seen'[a] = seen[a]
             /\ \E m, X : /\ native'[a] = m /\ Own(a)' = Own(a) \union X
                          /\ ProviderStep(a, native[a], Own(a), m, X)
    BY <1>1, <1>5, <2>1, ForwardProvider DEF Moves, ForwardStep
  <2>2. ASSUME NEW h \in Own(a), NEW m, NEW k, NEW X,
               native'[a] = m, lease'[a] = k, Own(a)' = (Own(a) \ {h}) \union X,
               seen'[a] = Latest(h, lease[a], k, seen[a]),
               HookStep(native[a], lease[a], h, m, k, X, lost'[a])
        PROVE  ForwardStep(a)
    <3>1. Advances(a, Own(a), lease[a], seen[a], h, m, k, X)
      <4>1. HookStep(native[a], lease[a], h, m, k, X, lost'[a]) /\ h.actor = a
        BY <1>5, <2>2
      <4> QED BY <1>1, <1>4, <1>5, <4>1, ForwardHook
    <3>2. Moves(a)
      BY <2>2, <3>1 DEF Moves, Advances
    <3> QED BY <2>2, <3>1, <3>2 DEF ForwardStep, Advances
  <2>3. CASE /\ native'[a] = native[a] /\ Own(a)' = Own(a) /\ seen'[a] = seen[a]
             /\ TimeStep(Own(a), lease[a], lease'[a])
    <3>1. Moves(a)
      BY <2>3 DEF Moves, TimeStep
    <3> QED BY <1>5, <2>3, <3>1, ForwardTime DEF ForwardStep
  <2> QED BY <1>9, <2>1, <2>2, <2>3 DEF ActorStep, Latest
<1> QED BY <1>1, <1>6, <1>7, <1>8, <1>9 DEF Idles

LEMMA StepForward == BoundsInv /\ ForwardInv /\ [Next]_vars => ForwardInv'
<1> SUFFICES ASSUME BoundsInv, ForwardInv, [Next]_vars, NEW a \in Actors, Ordered(a)'
             PROVE  Forward(a, native'[a], Own(a)', lease'[a], seen'[a])
  <2>1. ASSUME NEW a \in Actors, Forward(a, native'[a], Own(a)', lease'[a], seen'[a])
        PROVE  Forward(a, native[a], Own(a), lease[a], seen[a])'
    BY <2>1 DEF Forward
  <2> QED BY <2>1 DEF ForwardInv
<1>1. Types /\ Types' /\ (Idles \/ AnyFault \/ \E b \in Actors : ActorStep(b))
  BY Steps DEF BoundsInv
<1>2. session' = session /\ \A b \in Actors : lost[b] \subseteq lost'[b]
  BY <1>1 DEF Idles, AnyFault, ActorStep
<1>3. Ordered(a) /\ (a = "main" => "prompt" \notin lost'["main"])
  BY <1>2 DEF Ordered, Codex, NeverEnds, Actors
<1> QED BY <1>3, ForwardSteps DEF ForwardStep

LEMMA ForwardOn == Spec /\ NeverEnds => [](BoundsInv /\ ForwardInv /\ NeverEnds)
<1>1. Init /\ NeverEnds => BoundsInv /\ ForwardInv /\ NeverEnds
  BY InitBounds, InitForward
<1>2. BoundsInv /\ ForwardInv /\ NeverEnds /\ [Next]_vars
      => (BoundsInv /\ ForwardInv /\ NeverEnds)'
  <2> SUFFICES ASSUME BoundsInv, [Next]_vars, NeverEnds PROVE NeverEnds'
    BY StepBounds, StepForward
  <2>1. session' = session
    BY Steps DEF BoundsInv, Idles, AnyFault, ActorStep
  <2> QED BY <2>1 DEF NeverEnds, Codex
<1> QED BY <1>1, <1>2, PTL DEF Spec

(* No hook of an older turn of Codex writes a lease that a newer one has written,
   whichever hooks are left behind, die or cannot read the rollout, unless a prompt
   is among them: the ignore decisions of hooks/codex.ts do what they are for, in a
   session that does not end. *)
THEOREM CodexGoesForward == Spec /\ NeverEnds => [][TurnsGoForward]_vars
<1>1. ASSUME BoundsInv, ForwardInv, NeverEnds, [Next]_vars PROVE TurnsGoForward
  <2> SUFFICES ASSUME NEW a \in Actors, Codex, "prompt" \notin lost["main"],
                      lease'[a] # NoLease, Revision(lease'[a]) # Revision(lease[a])
               PROVE  lease'[a].turn >= seen[a]
    BY DEF TurnsGoForward
  <2>1. Moves(a)
    BY <1>1, ForwardSteps DEF ForwardStep, Ordered
  <2>2. lease[a] \in Leases \union {NoLease}
    BY <1>1 DEF BoundsInv, Types
  <2>3. lease'[a] # [lease[a] EXCEPT !.live = FALSE] \/ lease[a] = NoLease
    BY <2>2 DEF Leases, Revision
  <2> QED BY <2>1, <2>3 DEF Moves, Own
<1>2. BoundsInv /\ ForwardInv /\ NeverEnds /\ [Next]_vars => [TurnsGoForward]_vars
  BY <1>1
<1> QED BY <1>2, ForwardOn, PTL DEF Spec

(* A Stop of Codex blocks only a turn that no newer turn's hook has followed: that
   the tombstone still has the revision which the Stop wrote is enough to know it,
   as revisions only grow and a tombstone that may be reaped has no Stop left. *)
THEOREM BlockedTurnIsNewest == Spec /\ NeverEnds => BlocksNewestTurn
<1> DEFINE B == \A h \in hooks :
                  (/\ Codex /\ "prompt" \notin lost["main"]
                   /\ h.rev > 0 /\ h \notin hooks' /\ lease'[h.actor] # lease[h.actor])
                  => seen[h.actor] = h.turn
<1>1. ASSUME BoundsInv, ForwardInv, NeverEnds, [Next]_vars PROVE B
  <2> SUFFICES ASSUME NEW h \in hooks, Codex, "prompt" \notin lost["main"], h.rev > 0,
                      h \notin hooks', lease'[h.actor] # lease[h.actor]
               PROVE  seen[h.actor] = h.turn
    OBVIOUS
  <2> DEFINE a == h.actor
  <2>1. a \in Actors /\ h \in Own(a) /\ h \notin Own(a)'
    BY <1>1 DEF BoundsInv, Types, Hooks, Own
  <2>2. Moves(a)
    BY <1>1, <2>1, ForwardSteps DEF ForwardStep, Ordered
  <2> QED BY <2>1, <2>2 DEF Moves
<1>2. BoundsInv /\ ForwardInv /\ NeverEnds /\ [Next]_vars => [B]_vars
  BY <1>1
<1>3. Spec /\ NeverEnds => [][B]_vars
  <2> HIDE DEF B
  <2> QED BY <1>2, ForwardOn, PTL DEF Spec
<1> QED BY <1>3 DEF BlocksNewestTurn

-----------------------------------------------------------------------------
(* What settles.  a is an actor in order: of its native turn n, its hooks H and its
   lease l the following holds. *)

Working(l) == l # NoLease /\ l.state # "idle"

(* The hooks that may not be left behind have not been, *)
HardWaited(a, H) == \A h \in H : h.event \in Tolerated(a) \/ h.waited

(* those that begin a turn end in it, *)
Opens(a, n, H) ==
    \A h \in H : h.event \in Opening =>
        h.event \in Tolerated(a) \/ (n.phase = "open" /\ h.turn = n.turn)

(* and the one that ends it has it to itself. *)
Ends(n, H) ==
    \A h \in H : h.event \in Ending =>
        /\ n.phase # "open"
        /\ h.event \in Stops => n.phase = "stopping" /\ h.turn = n.turn
        /\ \A k \in H : k.event \in Ending => k = h

OfTurn(n, l) == Codex => l.turn = n.turn

Asleep(n, l) == Tombstone(l) /\ OfTurn(n, l)

(* When a turn has had its Stop, its lease says so until it is gone, *)
Rest(n, H, l) ==
    n.phase = "idle" /\ n.how = "stop" /\ (\A h \in H : h.event \notin Ending) =>
        \/ l = NoLease /\ H = {}
        \/ Asleep(n, l) /\ (l.live \/ H = {})

(* and so it does between the two steps of the Stop. *)
BetweenSteps(n, H, l) == \A h \in H : h.rev > 0 => Asleep(n, l) /\ l.live

(* A turn of Claude that has begun shows; *)
Running(n, H, l) ==
    Claude /\ n.phase = "open" /\ (\A h \in H : h.event \notin Opening) => Working(l)

(* what shows in a turn of Codex is that turn, *)
Current(a, n, H, l) ==
    Codex /\ a = "main" /\ n.phase # "idle" /\ (\A h \in H : h.event # "prompt") =>
        /\ Working(l) => OfTurn(n, l)
        /\ Dead(l) => \A h \in H : h.turn = n.turn

(* and its tombstone comes only at its end. *)
Unfinished(n, l) == Codex /\ n.phase = "open" => ~Asleep(n, l)

Settled(a, n, H, l) ==
    /\ HardWaited(a, H) /\ Opens(a, n, H) /\ Ends(n, H)
    /\ Rest(n, H, l) /\ BetweenSteps(n, H, l)
    /\ Running(n, H, l) /\ Current(a, n, H, l) /\ Unfinished(n, l)

SettledInv ==
    NeverEnds => \A a \in Actors : InOrder(a) => Settled(a, native[a], Own(a), lease[a])

(* Which events are tolerated. *)
LEMMA Tolerates ==
    ASSUME Types, NEW a \in Actors
    PROVE  /\ CallEvents \subseteq Tolerated(a)
           /\ \A e \in Ending : e \notin Tolerated(a) /\ e \notin Opening /\ e \notin CallEvents
           /\ \A e \in Opening : e \notin CallEvents
           /\ Stops \subseteq Ending /\ "stop" \in Stops
           /\ Claude \/ a = "main" => \A e \in Opening : e \notin Tolerated(a)
           /\ Claude <=> ~Codex
<1>1. Claude <=> ~Codex
  BY SessionType DEF Claude, Codex
<1> QED BY <1>1 DEF Tolerated, Ending, Opening, Stops, CallEvents

LEMMA Held ==
    ASSUME Types, NEW a \in Actors, NEW H, HardWaited(a, H), FreeOf(H)
    PROVE  \A h \in H : h.event \in Tolerated(a)
BY Tolerates DEF HardWaited, FreeOf

LEMMA SettledProvider ==
    ASSUME Types, NEW a \in Actors, NEW n \in Natives, NEW m \in Natives,
           NEW H \in SUBSET Hooks, NEW l \in Leases \union {NoLease}, NEW X,
           Bounded(n, H, l), Settled(a, n, H, l), ProviderStep(a, n, H, m, X)
    PROVE  Settled(a, m, H \union X, l)
<1> DEFINE K == H \union X
<1>0. /\ n.turn \in Nat /\ (\A h \in H : h.turn \in 1 .. n.turn)
      /\ (\A h \in H : h.rev > 0 => h.event = "stop")
      /\ (l # NoLease => l.turn <= n.turn /\ l.turn \in Nat)
  BY DEF Bounded, HookBound, Natives, Leases
<1>1. ASSUME Begins(a, n, H, m, X) PROVE Settled(a, m, K, l)
  <2>1. n.phase = "idle" /\ m.turn = n.turn + 1 /\ m.phase = "open"
    BY <1>1 DEF Begins, NewTurn
  <2>2. \A h \in H : h.event \in Tolerated(a) /\ h.event \notin Ending
    <3>1. FreeOf(H) \/ n.turn = 0
      BY <1>1 DEF Begins
    <3>2. n.turn = 0 => H = {}
      BY <1>0
    <3> QED BY <3>1, <3>2, Held, Tolerates DEF Settled
  <2>3. /\ \A x \in X : x.waited /\ x.turn = m.turn /\ x.rev = 0 /\ x.event \in Opening
        /\ X = {} => Codex /\ n.how = "stop"
    BY <1>1 DEF Begins, Fresh, Opening
  <2>4. a = "main" /\ X # {} => \E x \in X : x.event = "prompt"
    BY <1>1, <2>3 DEF Begins
  <2>5. HardWaited(a, K) /\ Opens(a, m, K) /\ Ends(m, K)
    BY <2>1, <2>2, <2>3, Tolerates DEF HardWaited, Opens, Ends
  <2>6. Rest(m, K, l)
    BY <2>1 DEF Rest
  <2>7. BetweenSteps(m, K, l)
    BY <1>0, <2>2, <2>3, Tolerates DEF BetweenSteps
  <2>8. Running(m, K, l)
    BY <2>3, Tolerates DEF Running
  <2>9. Unfinished(m, l)
    BY <1>0, <2>1 DEF Unfinished, Asleep, OfTurn, Tombstone
  <2>10. Current(a, m, K, l)
    <3>1. CASE a = "main" /\ X = {}
      <4>1. (l = NoLease /\ H = {}) \/ (Asleep(n, l) /\ (l.live \/ H = {}))
        BY <2>1, <2>2, <2>3, <3>1 DEF Settled, Rest
      <4>2. ~Working(l) /\ (Dead(l) => H = {})
        BY <4>1 DEF Working, Dead, Asleep, Tombstone
      <4> QED BY <3>1, <4>2 DEF Current
    <3>2. CASE ~(a = "main" /\ X = {})
      BY <2>4, <3>2 DEF Current
    <3> QED BY <3>1, <3>2
  <2> QED BY <2>5, <2>6, <2>7, <2>8, <2>9, <2>10 DEF Settled
<1>2. ASSUME NEW x, X = {x}, GoesOn(a, n, H, m, x) PROVE Settled(a, m, K, l)
  <2>1. /\ n.phase = "open" /\ m.phase = "open" /\ m.turn = n.turn
        /\ x.waited /\ x.turn = m.turn /\ x.rev = 0 /\ x.event \notin Ending
    BY <1>2 DEF GoesOn, Fresh, Ending
  <2>2. \A h \in H : h.event \notin Ending
    BY <2>1 DEF Settled, Ends
  <2>3. HardWaited(a, K) /\ Opens(a, m, K) /\ Ends(m, K)
    BY <1>2, <2>1, <2>2, Tolerates DEF Settled, HardWaited, Opens, Ends
  <2>4. Rest(m, K, l)
    BY <2>1 DEF Rest
  <2>5. BetweenSteps(m, K, l)
    BY <1>0, <1>2, <2>1, <2>2, Tolerates DEF BetweenSteps
  <2>6. Running(m, K, l)
    BY <2>1 DEF Settled, Running
  <2>7. Current(a, m, K, l)
    BY <1>2, <2>1 DEF Settled, Current, OfTurn
  <2>8. Unfinished(m, l)
    BY <2>1 DEF Settled, Unfinished, Asleep, OfTurn
  <2> QED BY <2>3, <2>4, <2>5, <2>6, <2>7, <2>8 DEF Settled
<1>3. ASSUME NEW x, X = {x}, EndsTurn(a, n, H, m, x) PROVE Settled(a, m, K, l)
  <2>1. /\ m.phase # "open" /\ m.turn = n.turn /\ (m.phase # "idle" => n.phase # "idle")
        /\ x.waited /\ x.turn = m.turn /\ x.rev = 0 /\ x.event \in Ending
        /\ (x.event \in Stops => m.phase = "stopping")
    BY <1>3 DEF EndsTurn, Fresh, Ending, Stops
  <2>2. \A h \in H : h.event \in Tolerated(a) /\ h.event \notin Ending
    BY <1>3, Held, Tolerates DEF EndsTurn, Settled
  <2>3. HardWaited(a, K) /\ Opens(a, m, K) /\ Ends(m, K)
    BY <1>3, <2>1, <2>2, Tolerates DEF HardWaited, Opens, Ends
  <2>4. Rest(m, K, l)
    BY <1>3, <2>1 DEF Rest
  <2>5. BetweenSteps(m, K, l)
    BY <1>0, <1>3, <2>1, <2>2, Tolerates DEF BetweenSteps
  <2>6. Running(m, K, l)
    BY <2>1 DEF Running
  <2>7. Current(a, m, K, l)
    BY <1>3, <2>1 DEF Settled, Current, OfTurn
  <2>8. Unfinished(m, l)
    BY <2>1 DEF Unfinished
  <2> QED BY <2>3, <2>4, <2>5, <2>6, <2>7, <2>8 DEF Settled
<1> QED BY <1>1, <1>2, <1>3 DEF ProviderStep

(* A hook of a turn that has had its Stop leaves a tombstone alone. *)
LEMMA Sleeps ==
    ASSUME Types, NEW h \in Hooks, NEW l \in Leases \union {NoLease}, NEW r \in BOOLEAN,
           Asleep(native[h.actor], l), h.event \notin Ending,
           h.event \in Opening => h.event \in Tolerated(h.actor)
    PROVE  Update(h, l, r) = l
<1>0. h.actor \in Actors /\ l # NoLease /\ l.state = "idle"
  BY DEF Hooks, Asleep, Tombstone
<1>1. CASE Codex
  <2>1. h.event \in CodexEvents /\ l.turn = native[h.actor].turn
    BY <1>1 DEF Hooks, Asleep, OfTurn
  <2>2. Update(h, l, r) = CodexUpdate(h, l, r)
    BY <1>1 DEF Update
  <2>3. h.event \in Opening => h.actor = "child"
    BY <1>0, <1>1, Tolerates DEF Actors
  <2>4. CASE h.event \in Opening
    <3>1. StalePrompt(h, l) /\ StaleStart(h, l)
      BY <1>0, <2>3, <2>4 DEF StalePrompt, StaleStart, Pristine
    <3> QED BY <2>2, <2>4, <3>1 DEF CodexUpdate, Opening
  <2>5. CASE h.event \in {"pre", "perm", "post", "precompact", "postcompact"}
    <3>1. StaleTool(h, l, r)
      BY <1>0, <2>1 DEF StaleTool, TurnsDiffer, Tombstone, Attested, Actors
    <3> QED BY <2>2, <2>5, <3>1 DEF CodexUpdate
  <2> QED BY <2>1, <2>4, <2>5 DEF CodexEvents, Events, Ending, Opening
<1>2. CASE ~Codex
  <2>1. h.event \in {"pre", "post", "batch"}
    <3>1. h.event \notin Opening
      BY <1>0, <1>2, Tolerates
    <3> QED BY <1>2, <3>1 DEF Hooks, ClaudeEvents, Events, Ending, Opening
  <2> QED BY <1>0, <1>2, <2>1 DEF Update, ClaudeUpdate, ClaudePost, Tombstone
<1> QED BY <1>1, <1>2

LEMMA IdleFresh ==
    ASSUME NEW h \in Hooks, NEW l \in Leases \union {NoLease}
    PROVE  /\ Tombstone(Idle(h, l)) /\ Idle(h, l).live /\ Idle(h, l).turn = TurnId(h)
           /\ Idle(h, l) # l /\ Idle(h, l) \in Leases /\ Idle(h, l) # NoLease
<1>1. /\ Idle(h, l).live /\ Idle(h, l).turn = TurnId(h)
      /\ Idle(h, l).rev = Revision(l) + 1
  BY WriteFresh DEF Idle, Write
<1>2. Idle(h, l) # l
  BY <1>1, IdleType DEF Revision, Leases
<1> QED BY <1>1, <1>2, IdleType

(* The hook that ends a turn leaves one. *)
LEMMA PutsToSleep ==
    ASSUME Types, NeverEnds, NEW h \in Hooks, HookBound(h),
           NEW l \in Leases \union {NoLease}, NEW r \in BOOLEAN,
           h.event \in Ending, h.event \in Stops => h.turn = native[h.actor].turn,
           Codex /\ h.event = "stop" /\ Working(l) => l.turn = h.turn,
           r \/ Update(h, l, TRUE) = l
    PROVE  Update(h, l, r) = Idle(h, l) /\ Asleep(native[h.actor], Update(h, l, r))
<1>1. CASE Codex
  <2>1. h.event \in {"stop", "substop"} /\ h.turn = native[h.actor].turn
    BY <1>1 DEF Hooks, CodexEvents, Ending, Stops, HookBound, NeverEnds
  <2>2. ~StaleStop(h, l, TRUE) \/ h.event # "stop"
    BY <1>1, <2>1 DEF StaleStop, Attested, TurnsDiffer, Tombstone, Working
  <2>3. ~StaleSubagentStop(h, l, TRUE)
    BY <2>1 DEF StaleSubagentStop, Attested
  <2>4. Update(h, l, TRUE) = Idle(h, l)
    BY <1>1, <2>1, <2>2, <2>3 DEF Update, CodexUpdate
  <2>5. Update(h, l, r) = Idle(h, l)
    BY <2>4, IdleFresh
  <2>6. TurnId(h) = h.turn
    BY <1>1, <2>1, Tolerates DEF TurnId, Hooks
  <2> QED BY <2>1, <2>5, <2>6, IdleFresh DEF Asleep, OfTurn
<1>2. CASE ~Codex
  <2>1. Update(h, l, r) = Idle(h, l)
    BY <1>2 DEF Update, ClaudeUpdate, Ending
  <2> QED BY <1>2, <2>1, IdleFresh DEF Asleep, OfTurn
<1> QED BY <1>1, <1>2

(* Any other writes a lease that shows. *)
LEMMA Wakes ==
    ASSUME Types, NEW h \in Hooks, NEW l \in Leases \union {NoLease}, NEW r \in BOOLEAN,
           h.event \notin Ending, Update(h, l, r) # l
    PROVE  Working(Update(h, l, r))
<1> DEFINE W(k) == k.state # "idle"
<1>1. \A F \in FieldSet : F.state # "idle" => W(Write(h, l, F))
  BY DEF Write
<1>2. Update(h, l, r) \in Leases /\ Update(h, l, r) # NoLease
  BY UpdateFresh
<1>3. CASE Codex
  <2>1. h.event \in CodexEvents
    BY <1>3 DEF Hooks
  <2>2. h.event \in {"pre", "perm", "post", "precompact", "postcompact"}
        => W(CodexToolUpdate(h, l))
    BY CallType DEF CodexToolUpdate, Write, Carried, Fields
  <2>3. W(Write(h, l, Fields)) /\ W(Write(h, l, [Fields EXCEPT !.intent = h.turn]))
    BY DEF Write, Fields
  <2> HIDE DEF W
  <2>4. CodexUpdate(h, l, r) = l \/ W(CodexUpdate(h, l, r))
    BY <2>1, <2>2, <2>3 DEF CodexEvents, Events, CodexUpdate, Ending
  <2> QED BY <1>2, <1>3, <2>4 DEF Update, W, Working
<1>4. CASE ~Codex
  <2>1. h.event \in {"prompt", "start", "pre", "post", "batch"}
    BY <1>4 DEF Hooks, ClaudeEvents, Events, Ending
  <2>2. ClaudeUpdate(h, l) = l \/ W(ClaudeUpdate(h, l))
    BY <2>1, CallType DEF ClaudeUpdate, ClaudePost, Write, Fields
  <2> QED BY <1>2, <1>4, <2>2 DEF Update, Working
<1> QED BY <1>3, <1>4

LEMMA Writes ==
    ASSUME Types, NEW h \in Hooks, NEW l \in Leases \union {NoLease}, NEW r \in BOOLEAN,
           NEW F \in FieldSet, Update(h, l, r) = Write(h, l, F)
    PROVE  Update(h, l, r) # l
<1>1. CASE l = NoLease
  BY <1>1, WriteType
<1>2. CASE l \in Leases
  BY <1>2, WriteFresh, LeaseAssumption DEF Revision, Leases
<1> QED BY <1>1, <1>2

LEMMA ClaudeOpens ==
    ASSUME Types, Claude, NEW h \in Hooks, NEW l \in Leases \union {NoLease},
           NEW r \in BOOLEAN, h.event \in Opening
    PROVE  Update(h, l, r) # l
<1>1. Update(h, l, r) = ClaudeUpdate(h, l)
  BY DEF Update, Claude, Codex
<1> DEFINE F == IF h.event = "prompt" THEN [Fields EXCEPT !.intent = h.turn]
                ELSE [Fields EXCEPT !.claims = {Call(h)}]
<1>2. F \in FieldSet
  <2> DEFINE c == {Call(h)}
  <2>1. c \in SUBSET (Nat \X Nat) /\ h.turn \in Nat
    BY CallType DEF Hooks
  <2> HIDE DEF c
  <2>2. [Fields EXCEPT !.claims = c] \in FieldSet /\ [Fields EXCEPT !.intent = h.turn] \in FieldSet
    BY <2>1, FieldsType DEF FieldSet
  <2> QED BY <2>2 DEF c
<1>3. ClaudeUpdate(h, l) = Write(h, l, F)
  BY DEF ClaudeUpdate, Opening
<1> QED BY <1>1, <1>2, <1>3, Writes

LEMMA CodexPrompts ==
    ASSUME Types, Codex, NEW h \in Hooks, NEW l \in Leases \union {NoLease},
           NEW r \in BOOLEAN, h.event = "prompt", h.actor = "main"
    PROVE  Update(h, l, r) # l
<1>1. [Fields EXCEPT !.intent = h.turn] \in FieldSet
  BY FieldsType DEF FieldSet, Hooks
<1>2. Update(h, l, r) = Write(h, l, [Fields EXCEPT !.intent = h.turn])
  BY DEF Update, CodexUpdate, StalePrompt
<1> QED BY <1>1, <1>2, Writes

(* A call of an older turn finds a tombstone, and leaves it. *)
LEMMA CallWakes ==
    ASSUME Types, Codex, NEW h \in Hooks, NEW l \in Leases \union {NoLease},
           NEW r \in BOOLEAN, h.event \notin Ending, h.event \notin Opening,
           h.actor = "main", Tombstone(l), Update(h, l, r) # l
    PROVE  h.turn = native[h.actor].turn
<1>1. h.event \in {"pre", "perm", "post", "precompact", "postcompact"}
  BY DEF Hooks, CodexEvents, Events, Ending, Opening
<1>2. ~StaleTool(h, l, r)
  BY <1>1 DEF Update, CodexUpdate
<1> QED BY <1>2 DEF StaleTool, Attested

LEMMA SettledHook ==
    ASSUME Types, NeverEnds, NEW a \in Actors, NEW n \in Natives, n = native[a],
           NEW H \in SUBSET Hooks, \A g \in H : g.actor = a,
           NEW l \in Leases \union {NoLease}, NEW h \in H, NEW m, NEW k, NEW X, NEW gone,
           gone \subseteq Tolerated(a),
           Bounded(n, H, l), Settled(a, n, H, l), HookStep(n, l, h, m, k, X, gone)
    PROVE  Settled(a, m, (H \ {h}) \union X, k)
<1> DEFINE K == (H \ {h}) \union X
           U(r) == Update(h, l, r)
<1>0. /\ h \in Hooks /\ h.actor = a /\ HookBound(h) /\ n.turn \in Nat /\ n.turn # 0
      /\ (h.rev > 0 => h.event = "stop") /\ h.turn = h.turn + 0
      /\ (\A g \in H : g.rev > 0 => g.event = "stop")
  BY DEF Bounded, HookBound, Natives, Hooks
<1>1. /\ m = n \/ \E b \in BOOLEAN : m = Returned(n, h, b)
      /\ \/ k = l
         \/ (h.event # "stop" \/ h.rev = 0) /\ \E r \in BOOLEAN : k = U(r)
         \/ /\ h.event = "stop" /\ h.rev > 0 /\ k = Reopened(h, l)
            /\ Tombstone(l) /\ l.rev = h.rev
      /\ \A x \in X : k # l /\ h.event = "stop" /\ x = Left(h, l, k)
  <2>1. HookStep(n, l, h, m, k, X, gone)
    OBVIOUS
  <2> QED BY ONLY <2>1, HookStepShape
<1>2. /\ m.turn = n.turn /\ m.how = n.how
      /\ h.event \notin Stops => m = n
      /\ m = n \/ (h.event \in Stops /\ m.phase \in {"open", "idle"})
  BY <1>1, ReturnedFacts
<1>3. CASE h.event \notin Ending
  <2>1. m = n /\ X = {} /\ \E r \in BOOLEAN : k = U(r)
    BY <1>0, <1>1, <1>2, <1>3, Tolerates DEF HookStep, SettleStep, StopStep, BlockStep
  <2>2. PICK r \in BOOLEAN : k = U(r)
    BY <2>1
  <2>3. h.event \in Opening => h.event \in Tolerated(a) \/ n.phase = "open"
    BY DEF Settled, Opens
  <2>4. Asleep(n, l) /\ n.phase # "open" => k = l
    BY <1>0, <1>3, <2>2, <2>3, Sleeps
  <2>5. k # l => Working(k) /\ k.live /\ k.turn = TurnId(h)
    BY <1>0, <1>3, <2>2, Wakes, UpdateFresh
  <2>6. HardWaited(a, K) /\ Opens(a, m, K) /\ Ends(m, K)
    BY <2>1 DEF Settled, HardWaited, Opens, Ends
  <2>7. Rest(m, K, l) /\ Rest(m, K, k)
    BY <1>3, <2>1, <2>4 DEF Settled, Rest
  <2>8. BetweenSteps(m, K, k)
    <3>1. \A g \in K : g.rev > 0 => n.phase # "open" /\ Asleep(n, l) /\ l.live
      BY <1>0, <2>1, Tolerates DEF Settled, BetweenSteps, Ends
    <3> QED BY <2>1, <2>4, <3>1 DEF BetweenSteps
  <2>9. Running(m, K, k)
    <3>1. Claude /\ h.event \in Opening => k # l
      BY <1>0, <2>2, ClaudeOpens
    <3> QED BY <2>1, <2>5, <3>1 DEF Settled, Running
  <2>10. Unfinished(m, k)
    BY <2>1, <2>5 DEF Settled, Unfinished, Asleep, Tombstone, Working
  <2>11. Current(a, m, K, k)
    <3> SUFFICES ASSUME Codex, a = "main", n.phase # "idle", \A g \in K : g.event # "prompt"
                 PROVE  /\ Working(k) => OfTurn(n, k)
                        /\ Dead(k) => \A g \in K : g.turn = n.turn
      BY <2>1 DEF Current
    <3>1. CASE k = l /\ h.event # "prompt"
      BY <2>1, <3>1 DEF Settled, Current
    <3>2. k # l => ~Dead(k) /\ k.turn = h.turn
      BY <1>0, <1>3, <2>5, Tolerates DEF Dead, Working, Tombstone, TurnId, Ending
    <3>3. CASE h.event = "prompt"
      <4>1. h.turn = n.turn
        BY <3>3, Tolerates DEF Settled, Opens, Opening
      <4>2. k # l
        BY <1>0, <2>2, <3>3, CodexPrompts
      <4> QED BY <3>2, <4>1, <4>2 DEF OfTurn
    <3>4. CASE k # l /\ h.event # "prompt"
      <4>1. \A g \in H : g.event # "prompt"
        BY <2>1, <3>4
      <4>2. (Working(l) => l.turn = n.turn) /\ (Dead(l) => h.turn = n.turn)
        BY <4>1 DEF Settled, Current, OfTurn
      <4>3. l = NoLease \/ l.turn = h.turn \/ n.turn = h.turn
        <5>1. l # NoLease => l.turn # 0
          BY DEF Bounded, LeaseBound
        <5> QED BY <1>0, <1>3, <2>2, <3>4, <5>1, CodexWriters DEF Ending
      <4>4. h.turn = n.turn
        <5>1. CASE l = NoLease
          BY <4>2, <5>1 DEF Dead
        <5>2. CASE Working(l)
          BY <4>2, <4>3, <5>2 DEF Working
        <5>3. CASE Tombstone(l)
          <6>1. h.event \notin Opening
            BY <1>0, <3>4 DEF HookBound, Opening
          <6> QED BY <1>0, <1>3, <2>2, <3>4, <5>3, <6>1, CallWakes
        <5>4. l = NoLease \/ Working(l) \/ Tombstone(l)
          BY DEF Working, Tombstone
        <5> QED BY <5>1, <5>2, <5>3, <5>4
      <4> QED BY <3>2, <3>4, <4>4 DEF OfTurn
    <3> QED BY <3>1, <3>3, <3>4
  <2> QED BY <2>6, <2>7, <2>8, <2>9, <2>10, <2>11 DEF Settled
<1>4. CASE h.event \in Ending
  <2>1. /\ n.phase # "open" /\ h.waited
        /\ h.event \in Stops => n.phase = "stopping" /\ h.turn = n.turn
        /\ \A g \in H \ {h} : g.event \notin Ending /\ g.rev = 0
    <3>1. \A g \in H \ {h} : g.event \notin Ending
      BY <1>4 DEF Settled, Ends
    <3>2. \A g \in H : g.rev \in Nat
      BY DEF Hooks
    <3> QED BY <1>0, <1>4, <3>1, <3>2, Tolerates DEF Settled, Ends, HardWaited
  <2>2. \A g \in H \ {h} : /\ g.event \in Tolerated(a) \/ g.waited
                           /\ g.event \in Opening => g.event \in Tolerated(a)
    BY <2>1 DEF Settled, HardWaited, Opens
  <2>3. ASSUME X = {}, \/ m.phase = "open" /\ Working(k) /\ OfTurn(m, k) /\ k.live
                       \/ m.phase # "open" /\ Asleep(m, k) /\ k.live
        PROVE  Settled(a, m, K, k)
    <3>0. K = H \ {h}
      BY <2>3
    <3> HIDE DEF K
    <3>1. HardWaited(a, K) /\ Opens(a, m, K) /\ Ends(m, K) /\ BetweenSteps(m, K, k)
      <4>1. HardWaited(a, K) /\ Opens(a, m, K)
        BY <2>2, <3>0 DEF HardWaited, Opens
      <4>2. Ends(m, K) /\ BetweenSteps(m, K, k)
        BY <2>1, <3>0 DEF Ends, BetweenSteps
      <4> QED BY <4>1, <4>2
    <3>2. Rest(m, K, k) /\ Running(m, K, k) /\ Unfinished(m, k)
      BY <2>3 DEF Rest, Running, Unfinished, Asleep, Tombstone, Working
    <3>3. Current(a, m, K, k)
      BY <2>3 DEF Current, Asleep, Tombstone, Working, Dead
    <3> QED BY <3>1, <3>2, <3>3 DEF Settled
  <2>4. ASSUME X = {Left(h, l, k)}, m = n, h.event = "stop", Asleep(n, k), k.live, k \in Leases
        PROVE  Settled(a, m, K, k)
    <3> DEFINE x == Left(h, l, k)
    <3>1. /\ x.event = "stop" /\ x.waited /\ x.turn = h.turn
      BY <1>0, <2>1, <2>4 DEF Left, Hooks
    <3>2. n.phase = "stopping" /\ h.turn = n.turn
      BY <2>1, <2>4, Tolerates
    <3>3. K = (H \ {h}) \union {x}
      BY <2>4
    <3> HIDE DEF x, K
    <3>4. HardWaited(a, K) /\ Opens(a, m, K) /\ Ends(m, K)
      <4>1. x.event \notin Opening
        BY <3>1 DEF Opening
      <4>2. HardWaited(a, K)
        BY <2>2, <3>1, <3>3 DEF HardWaited
      <4>3. Opens(a, m, K)
        BY <2>2, <3>3, <4>1 DEF Opens
      <4>4. Ends(m, K)
        BY <2>1, <2>4, <3>1, <3>2, <3>3 DEF Ends
      <4> QED BY <4>2, <4>3, <4>4
    <3>5. Rest(m, K, k) /\ Running(m, K, k) /\ Unfinished(m, k) /\ BetweenSteps(m, K, k)
      BY <2>4, <3>2 DEF Rest, Running, Unfinished, BetweenSteps
    <3>6. Current(a, m, K, k)
      BY <2>4 DEF Current, Asleep, Tombstone, Working, Dead
    <3> QED BY <3>4, <3>5, <3>6 DEF Settled
  <2>5. CASE BlockStep(n, l, h, m, k, X)
    <3>1. X = {} /\ Asleep(n, l) /\ l.live /\ h.event \in Stops
      BY <2>5, Tolerates DEF BlockStep, Settled, BetweenSteps
    <3>2. CASE k = Reopened(h, l) /\ m = Returned(n, h, TRUE)
      <4>1. m.phase = "open"
        BY <2>1, <3>1, <3>2, ReturnedFacts
      <4>2. Working(k) /\ k.live /\ k.turn = TurnId(h)
        BY <1>0, <3>2, ReopenedType, WriteFresh DEF Reopened, Working, Tombstone
      <4>3. OfTurn(m, k)
        BY <1>2, <2>1, <2>5, <3>1, <4>2, Tolerates DEF OfTurn, TurnId, BlockStep
      <4> QED BY <2>3, <3>1, <4>1, <4>2, <4>3
    <3>3. CASE k = l /\ m = Returned(n, h, FALSE)
      <4>1. m.phase = "idle"
        BY <2>1, <3>1, <3>3, ReturnedFacts
      <4> QED BY <1>2, <2>3, <3>1, <3>3, <4>1 DEF Asleep, OfTurn
    <3> QED BY <2>5, <3>2, <3>3 DEF BlockStep
  <2>6. ASSUME NEW r \in BOOLEAN, SettleStep(n, l, h, m, k, X, r) \/ StopStep(n, l, h, m, k, X, r),
               r \/ Update(h, l, TRUE) = l \/ h.event \in gone
        PROVE  Settled(a, m, K, k)
    <3>1. k = Update(h, l, r)
      BY <2>6 DEF SettleStep, StopStep
    <3>2. r \/ Update(h, l, TRUE) = l
      BY <1>4, <2>6, Tolerates
    <3>3. Codex /\ h.event = "stop" /\ Working(l) => l.turn = h.turn
      <4> SUFFICES ASSUME Codex, h.event = "stop", Working(l) PROVE l.turn = h.turn
        OBVIOUS
      <4>1. a = "main" /\ n.phase = "stopping" /\ h.turn = n.turn
        BY <1>0, <2>1, Tolerates DEF HookBound
      <4>2. \A g \in H : g.event # "prompt"
        BY <4>1, Tolerates DEF Settled, Opens, Opening
      <4> QED BY <4>1, <4>2 DEF Settled, Current, OfTurn
    <3>4. k = Idle(h, l) /\ Asleep(n, k)
      BY <1>0, <1>4, <2>1, <3>1, <3>2, <3>3, PutsToSleep
    <3>5. k.live /\ k # l /\ k \in Leases
      BY <1>0, <3>4, IdleFresh
    <3>6. CASE X = {} /\ m = Returned(n, h, FALSE)
      <4>1. m.phase # "open"
        BY <2>1, <3>6, ReturnedFacts
      <4> QED BY <1>2, <2>3, <3>4, <3>5, <3>6, <4>1 DEF Asleep, OfTurn
    <3>7. CASE X = {Left(h, l, k)} /\ m = n /\ h.event = "stop"
      BY <2>4, <3>4, <3>5, <3>7
    <3> QED BY <2>6, <3>5, <3>6, <3>7 DEF SettleStep, StopStep, Left
  <2> QED BY <2>5, <2>6 DEF HookStep
<1> QED BY <1>3, <1>4

LEMMA SettledFault ==
    ASSUME Types, NEW a \in Actors, NEW n \in Natives, NEW H \in SUBSET Hooks,
           NEW l, NEW m, NEW G, NEW gone, gone \subseteq Tolerated(a),
           Bounded(n, H, l), Settled(a, n, H, l), FaultStep(n, H, m, G, gone)
    PROVE  Settled(a, m, G, l)
<1> DEFINE U(h) == [h EXCEPT !.waited = FALSE]
<1>1. \A h \in H : U(h).event = h.event /\ U(h).turn = h.turn /\ U(h).rev = h.rev
  BY DEF Hooks
<1>2. \A h \in H : h.rev > 0 => h.event \in Ending
  BY DEF Bounded, HookBound, Ending
<1>3. ASSUME NEW h \in H, h.event \in Tolerated(a), m = Returned(n, h, FALSE),
             H \ {h} \subseteq G, \A g \in G : g \in H \ {h} \/ g = U(h)
      PROVE  Settled(a, m, G, l)
  <2>1. m = n /\ h.event \notin Ending
    BY <1>3, ReturnedFacts, Tolerates
  <2>2. \A g \in G : g \in H \/ (g.event = h.event /\ g.turn = h.turn /\ g.rev = h.rev)
    BY <1>1, <1>3
  <2> HIDE DEF U
  <2>3. /\ \A g \in G : g.event \in Ending => g \in H
        /\ (\A g \in G : g.event \notin Ending) => \A g \in H : g.event \notin Ending
    BY <1>3, <2>1, <2>2
  <2>4. HardWaited(a, G) /\ Opens(a, m, G) /\ Ends(m, G)
    BY <1>3, <2>1, <2>2, <2>3 DEF Settled, HardWaited, Opens, Ends
  <2>5. Rest(m, G, l)
    BY <2>1, <2>3 DEF Settled, Rest
  <2>6. BetweenSteps(m, G, l)
    BY <2>1, <2>2 DEF Settled, BetweenSteps
  <2>7. Running(m, G, l)
    BY <1>3, <2>1, Tolerates DEF Settled, Running
  <2>8. Current(a, m, G, l)
    <3>1. Codex /\ a = "main" => h.event # "prompt"
      BY <1>3, Tolerates DEF Opening
    <3> QED BY <1>3, <2>1, <2>2, <3>1 DEF Settled, Current
  <2> QED BY <2>1, <2>4, <2>5, <2>6, <2>7, <2>8 DEF Settled
<1>4. ASSUME G = {U(h) : h \in H}, \A h \in H : h.waited => h.event \in Tolerated(a),
             m = IF n.phase = "idle" THEN n
                 ELSE [n EXCEPT !.phase = "idle", !.how = "interrupt", !.tools = {}]
      PROVE  Settled(a, m, G, l)
  <2>1. m.phase = "idle" /\ (m = n \/ m.how = "interrupt")
    BY <1>4 DEF Natives
  <2>2. \A h \in H : h.event \in Tolerated(a)
    BY <1>4 DEF Settled, HardWaited
  <2> HIDE DEF U
  <2>3. \A g \in G : g.event \in Tolerated(a) /\ ~(g.rev > 0)
    BY <1>1, <1>2, <1>4, <2>2, Tolerates
  <2>4. HardWaited(a, G) /\ Opens(a, m, G) /\ Ends(m, G) /\ BetweenSteps(m, G, l)
    BY <2>3, Tolerates DEF HardWaited, Opens, Ends, BetweenSteps
  <2>5. Rest(m, G, l)
    <3>1. (m = n => Rest(n, H, l)) /\ \A g \in H : g.event \notin Ending
      BY <2>2, Tolerates DEF Settled
    <3>2. H = {} => G = {}
      BY <1>4
    <3> QED BY <2>1, <3>1, <3>2 DEF Rest
  <2>6. Running(m, G, l) /\ Current(a, m, G, l) /\ Unfinished(m, l)
    BY <2>1 DEF Running, Current, Unfinished
  <2> QED BY <2>4, <2>5, <2>6 DEF Settled
<1> QED BY <1>3, <1>4 DEF FaultStep

LEMMA SettledTime ==
    ASSUME NEW a, NEW n, NEW H, NEW l \in Leases \union {NoLease}, NEW k,
           \A h \in H : h.rev \in Nat, Settled(a, n, H, l), TimeStep(H, l, k)
    PROVE  Settled(a, n, H, k)
<1>1. CASE k = NoLease /\ Tombstone(l) /\ ~l.live
  <2>1. Rest(n, H, k)
    BY <1>1 DEF Settled, Rest, Tombstone
  <2>2. BetweenSteps(n, H, k)
    BY <1>1 DEF Settled, BetweenSteps
  <2>3. Running(n, H, k) /\ Unfinished(n, k)
    BY <1>1 DEF Settled, Running, Unfinished, Working, Tombstone, Asleep
  <2>4. Current(a, n, H, k)
    BY <1>1 DEF Settled, Current, Dead, Working
  <2> QED BY <2>1, <2>2, <2>3, <2>4 DEF Settled
<1>2. CASE k = [l EXCEPT !.live = FALSE] /\ l # NoLease /\ (Tombstone(l) => H = {})
  <2>1. k.turn = l.turn /\ k.state = l.state /\ ~k.live /\ k \in Leases
    BY <1>2 DEF Leases
  <2>2. k # NoLease
    BY <2>1, LeaseAssumption
  <2>3. /\ Tombstone(k) <=> Tombstone(l)
        /\ Asleep(n, k) <=> Asleep(n, l)
        /\ Working(k) <=> Working(l)
        /\ OfTurn(n, k) <=> OfTurn(n, l)
    BY <1>2, <2>1, <2>2 DEF Tombstone, Asleep, Working, OfTurn
  <2>4. Asleep(n, l) => H = {}
    BY <1>2 DEF Asleep
  <2>5. Rest(n, H, k)
    BY <1>2, <2>3, <2>4 DEF Settled, Rest
  <2>6. BetweenSteps(n, H, k)
    BY <2>4 DEF Settled, BetweenSteps
  <2>7. Running(n, H, k) /\ Unfinished(n, k)
    BY <2>3 DEF Settled, Running, Unfinished
  <2>8. Current(a, n, H, k)
    BY <1>2, <2>2, <2>3 DEF Settled, Current, Dead
  <2> QED BY <2>5, <2>6, <2>7, <2>8 DEF Settled
<1> QED BY <1>1, <1>2 DEF TimeStep

LEMMA InitSettled == Init => SettledInv
<1> SUFFICES ASSUME Init, NEW a \in Actors PROVE Settled(a, native[a], Own(a), lease[a])
  BY DEF SettledInv
<1>1. Own(a) = {} /\ lease[a] = NoLease /\ native[a].phase = "idle"
  BY DEF Init, Own, NewTurn
<1>2. HardWaited(a, Own(a)) /\ Opens(a, native[a], Own(a)) /\ Ends(native[a], Own(a))
  BY <1>1 DEF HardWaited, Opens, Ends
<1>3. Rest(native[a], Own(a), lease[a]) /\ BetweenSteps(native[a], Own(a), lease[a])
  BY <1>1 DEF Rest, BetweenSteps
<1>4. /\ Running(native[a], Own(a), lease[a]) /\ Unfinished(native[a], lease[a])
      /\ Current(a, native[a], Own(a), lease[a])
  BY <1>1 DEF Running, Unfinished, Current
<1> QED BY <1>2, <1>3, <1>4 DEF Settled

LEMMA StepSettled == BoundsInv /\ SettledInv /\ [Next]_vars => SettledInv'
<1> SUFFICES ASSUME BoundsInv, SettledInv, [Next]_vars PROVE SettledInv'
  OBVIOUS
<1>1. Types /\ Types' /\ (Idles \/ AnyFault \/ \E b \in Actors : ActorStep(b))
  BY Steps DEF BoundsInv
<1>2. session' = session /\ \A b \in Actors : lost[b] \subseteq lost'[b]
  BY <1>1 DEF Idles, AnyFault, ActorStep
<1> SUFFICES ASSUME NeverEnds', NEW a \in Actors, InOrder(a)'
             PROVE  Settled(a, native'[a], Own(a)', lease'[a])
  <2>1. ASSUME NEW a \in Actors, Settled(a, native'[a], Own(a)', lease'[a])
        PROVE  Settled(a, native[a], Own(a), lease[a])'
    BY <1>2, <2>1 DEF Settled, HardWaited, Opens, Ends, Rest, BetweenSteps, Running,
                      Current, Unfinished, Asleep, OfTurn, Tolerated, Codex, Claude
  <2> QED BY <2>1 DEF SettledInv
<1>3. NeverEnds /\ InOrder(a) /\ lost'[a] \subseteq Tolerated(a)
  BY <1>2 DEF NeverEnds, InOrder, Tolerated, Codex
<1>4. /\ native[a] \in Natives /\ native'[a] \in Natives /\ Own(a) \in SUBSET Hooks
      /\ lease[a] \in Leases \union {NoLease}
      /\ (\A h \in Own(a) : h.actor = a) /\ (\A h \in Own(a) : h.rev \in Nat)
      /\ Bounded(native[a], Own(a), lease[a])
      /\ Settled(a, native[a], Own(a), lease[a])
  BY <1>1, <1>3 DEF Types, Own, BoundsInv, SettledInv, Hooks
<1>5. CASE Same(a)
  BY <1>4, <1>5 DEF Same
<1>6. CASE AnyFault
  <2>1. CASE FaultStep(native[a], Own(a), native'[a], Own(a)', lost'[a])
    BY <1>1, <1>3, <1>4, <1>6, <2>1, SettledFault DEF AnyFault
  <2> QED BY <1>5, <1>6, <2>1 DEF AnyFault
<1>7. ASSUME NEW b \in Actors, ActorStep(b), a # b PROVE Same(a)
  BY <1>7 DEF ActorStep, Others, Same
<1>8. CASE ActorStep(a)
  <2>1. ASSUME NEW m, NEW X, native'[a] = m, lease'[a] = lease[a], Own(a)' = Own(a) \union X,
               ProviderStep(a, native[a], Own(a), m, X)
        PROVE  Settled(a, native'[a], Own(a)', lease'[a])
    BY <1>1, <1>4, <2>1, SettledProvider
  <2>2. ASSUME NEW h \in Own(a), NEW m, NEW k, NEW X,
               native'[a] = m, lease'[a] = k, Own(a)' = (Own(a) \ {h}) \union X,
               HookStep(native[a], lease[a], h, m, k, X, lost'[a])
        PROVE  Settled(a, native'[a], Own(a)', lease'[a])
    <3>1. HookStep(native[a], lease[a], h, m, k, X, lost'[a])
      BY <2>2
    <3>2. Settled(a, m, (Own(a) \ {h}) \union X, k)
      BY ONLY <1>1, <1>3, <1>4, <3>1, SettledHook
    <3> QED BY <2>2, <3>2
  <2>3. CASE /\ native'[a] = native[a] /\ Own(a)' = Own(a)
             /\ TimeStep(Own(a), lease[a], lease'[a])
    BY <1>4, <2>3, SettledTime
  <2> QED BY <1>8, <2>1, <2>2, <2>3 DEF ActorStep
<1> QED BY <1>1, <1>5, <1>6, <1>7, <1>8 DEF Idles

LEMMA SettledOn ==
    Spec /\ NeverEnds => [](BoundsInv /\ ForwardInv /\ SettledInv /\ NeverEnds)
<1>1. Init => SettledInv
  BY InitSettled
<1>2. BoundsInv /\ SettledInv /\ [Next]_vars => SettledInv'
  BY StepSettled
<1> QED BY <1>1, <1>2, ForwardOn, PTL DEF Spec

LEMMA BoundsType == BoundsInv => TypeOK
<1> SUFFICES ASSUME BoundsInv PROVE TypeOK
  OBVIOUS
<1>1. \A a \in Actors : /\ native[a] \in Natives /\ Bounded(native[a], Own(a), lease[a])
                        /\ lease[a] \in Leases \union {NoLease}
  BY DEF BoundsInv, Types
<1>2. ASSUME NEW a \in Actors
      PROVE  /\ native[a].phase \in {"idle", "open", "stopping"}
             /\ native[a].turn \in 0..MaxTurn
             /\ native[a].tools \subseteq 1..native[a].used
             /\ lease[a] # NoLease =>
                  /\ lease[a].rev \in Nat \ {0} /\ lease[a].turn \in 0..MaxTurn
                  /\ lease[a].state \in {"working", "waiting", "idle"}
                  /\ lease[a].claims \subseteq (1..MaxTurn) \X (0..session.tools)
                  /\ Tombstone(lease[a]) => lease[a].claims = {} /\ ~lease[a].cont
  BY <1>1, LeaseAssumption DEF Bounded, LeaseBound, Natives, Leases, Tombstone
<1>3. ASSUME NEW h \in hooks PROVE h.turn \in 1..native[h.actor].turn
  <2>1. h.actor \in Actors /\ h \in Own(h.actor)
    BY DEF BoundsInv, Types, Hooks, Own
  <2> QED BY <1>1, <2>1 DEF Bounded
<1>4. reaping \subseteq Actors /\ faults \in 0..session.faults
  BY SessionType DEF BoundsInv, Types
<1> QED BY <1>2, <1>3, <1>4 DEF TypeOK

(* When an actor's hooks have all ended, in whatever order and with whichever of the
   tolerated ones late or dead, its lease shows that the turn goes on, or that it has
   ended: no order of the handlers of hooks/codex.ts and hooks/claude.ts leaves it
   saying otherwise, in a Codex session that does not end. *)
THEOREM QuietLeasesTrue == Spec /\ NeverEnds => []QuietLeaseIsTrue
<1>1. ASSUME BoundsInv, ForwardInv, SettledInv, NeverEnds PROVE QuietLeaseIsTrue
  <2> SUFFICES ASSUME NEW a \in Actors, InOrder(a), native[a].how = "stop",
                      \A h \in hooks : h.actor # a
               PROVE  /\ native[a].phase = "idle" => ~Visible(lease[a])
                      /\ (Open(a) /\ lease[a] # NoLease /\ lease[a].live
                          /\ seen[a] = native[a].turn) => Visible(lease[a])
    BY <1>1, BoundsType DEF QuietLeaseIsTrue
  <2>1. Own(a) = {} /\ Settled(a, native[a], Own(a), lease[a]) /\ Types
    BY <1>1 DEF Own, SettledInv, BoundsInv
  <2>2. native[a].phase = "idle" => ~Visible(lease[a])
    BY <2>1 DEF Settled, Rest, Asleep, Tombstone, Visible
  <2>3. ASSUME Open(a), lease[a] # NoLease, lease[a].live, seen[a] = native[a].turn
        PROVE  Visible(lease[a])
    <3>1. CASE Claude
      BY <2>1, <2>3, <3>1 DEF Settled, Running, Working, Visible, Open
    <3>2. CASE Codex
      <4>1. Ordered(a)
        BY <1>1, <2>1, <3>2, Tolerates DEF Ordered, InOrder, Opening
      <4>2. lease[a].turn = native[a].turn
        BY <1>1, <2>3, <4>1 DEF ForwardInv, Forward
      <4> QED BY <2>1, <2>3, <3>2, <4>2
              DEF Settled, Unfinished, Asleep, OfTurn, Tombstone, Visible, Open
    <3> QED BY <2>1, <3>1, <3>2, SessionType DEF Claude, Codex
  <2> QED BY <2>2, <2>3
<1> QED BY <1>1, SettledOn, PTL

LEMMA StaysAsleep ==
    ASSUME Types, NeverEnds, NEW a \in Actors, NEW n \in Natives, n = native[a],
           NEW H \in SUBSET Hooks, \A g \in H : g.actor = a,
           NEW l \in Leases \union {NoLease}, NEW h \in H, NEW m, NEW k, NEW X, NEW gone,
           Bounded(n, H, l), Settled(a, n, H, l), HookStep(n, l, h, m, k, X, gone),
           n.phase = "idle", n.how = "stop", Tombstone(l)
    PROVE  Tombstone(k)
<1>0. h \in Hooks /\ h.actor = a
  OBVIOUS
<1>1. h.event \in Stops => FALSE
  BY Tolerates DEF Settled, Ends
<1>2. PICK r \in BOOLEAN : k = Update(h, l, r)
  BY <1>1, Tolerates DEF HookStep, SettleStep, StopStep, BlockStep
<1>3. CASE h.event \in Ending
  <2>1. h.event \in {"failure", "session"}
    BY <1>1, <1>3 DEF Ending, Stops
  <2>2. k = Idle(h, l)
    BY <1>0, <1>2, <2>1 DEF Update, CodexUpdate, ClaudeUpdate, Hooks, CodexEvents
  <2> QED BY <1>0, <2>2, IdleType
<1>4. CASE h.event \notin Ending
  <2>1. Asleep(n, l)
    <3>1. CASE Codex
      <4>1. \A g \in H : g.event \in CodexEvents /\ HookBound(g)
        BY <3>1 DEF Hooks, Bounded
      <4>2. \A g \in H : g.event \in Ending => g.event \in Stops
        BY <3>1, <4>1 DEF CodexEvents, Ending, Stops, HookBound, NeverEnds
      <4>3. \A g \in H : g.event \notin Ending
        BY <4>2 DEF Settled, Ends
      <4> QED BY <4>3 DEF Settled, Rest, Tombstone
    <3> QED BY <3>1 DEF Asleep, OfTurn
  <2>2. h.event \in Opening => h.event \in Tolerated(a)
    BY DEF Settled, Opens
  <2> QED BY <1>0, <1>2, <1>4, <2>1, <2>2, Sleeps
<1> QED BY <1>3, <1>4

LEMMA StepAsleep == BoundsInv /\ SettledInv /\ NeverEnds /\ [Next]_vars => NoRevival
<1> SUFFICES ASSUME BoundsInv, SettledInv, NeverEnds, [Next]_vars, NEW a \in Actors,
                    InOrder(a), Tombstone(lease[a]), native[a].phase = "idle",
                    native[a].how # "interrupt"
             PROVE  lease'[a] = NoLease \/ Tombstone(lease'[a])
  BY DEF NoRevival
<1>1. Types /\ (Idles \/ AnyFault \/ \E b \in Actors : ActorStep(b))
  BY Steps DEF BoundsInv
<1>2. /\ native[a] \in Natives /\ Own(a) \in SUBSET Hooks
      /\ lease[a] \in Leases \union {NoLease} /\ (\A h \in Own(a) : h.actor = a)
      /\ Bounded(native[a], Own(a), lease[a])
      /\ Settled(a, native[a], Own(a), lease[a])
  BY <1>1 DEF Types, Own, BoundsInv, SettledInv
<1>3. native[a].how = "stop"
  BY <1>2 DEF Natives
<1>4. lease'[a] = lease[a] => Tombstone(lease'[a])
  OBVIOUS
<1>5. ASSUME NEW b \in Actors, ActorStep(b), a # b PROVE lease'[a] = lease[a]
  BY <1>5 DEF ActorStep, Others
<1>6. CASE ActorStep(a)
  <2>1. ASSUME NEW h \in Own(a), NEW m, NEW k, NEW X,
               HookStep(native[a], lease[a], h, m, k, X, lost'[a])
        PROVE  Tombstone(k)
    BY <1>1, <1>2, <1>3, <2>1, StaysAsleep
  <2>2. ASSUME TimeStep(Own(a), lease[a], lease'[a])
        PROVE  lease'[a] = NoLease \/ Tombstone(lease'[a])
    <3> SUFFICES ASSUME lease'[a] = [lease[a] EXCEPT !.live = FALSE], lease[a] # NoLease
                 PROVE  Tombstone(lease'[a])
      BY <2>2 DEF TimeStep
    <3>1. lease'[a] \in Leases /\ lease'[a].state = lease[a].state
      BY <1>2 DEF Leases
    <3> QED BY <3>1, LeaseAssumption DEF Tombstone
  <2> QED BY <1>4, <1>6, <2>1, <2>2 DEF ActorStep
<1> QED BY <1>1, <1>4, <1>5, <1>6 DEF Idles, AnyFault, Same

(* What an earlier state of a lease rules out: a tombstone does not give way to a turn
   that has had its Stop, a newer turn of Codex not to an older one, and what shows not
   to a reaper. *)
THEOREM StaleNeverWins == Spec /\ NeverEnds => NothingStaleWins
<1>1. BoundsInv /\ SettledInv /\ NeverEnds /\ [Next]_vars => [NoRevival]_vars
  BY StepAsleep
<1>2. Spec /\ NeverEnds => [][NoRevival]_vars
  BY <1>1, SettledOn, PTL DEF Spec
<1>3. [NoRevival]_vars /\ [TurnsGoForward]_vars /\ [RevivalSurvives]_vars
      => [NoRevival /\ TurnsGoForward /\ RevivalSurvives]_vars
  OBVIOUS
<1> QED BY <1>2, <1>3, CodexGoesForward, RevivalsSurvive, PTL DEF NothingStaleWins

=============================================================================
