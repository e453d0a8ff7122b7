----------------------------- MODULE Enrollment -----------------------------
(***************************************************************************)
(* Workstreams and the sessions that join them: src/workstreams/store.ts   *)
(* and SessionParticipationStore of src/hooks/participation.ts.            *)
(*                                                                         *)
(* Every prompt of a session runs two hooks: the synchronous `hook` and    *)
(* the asynchronous `hook-ingest`, which the session does not wait for.    *)
(* Both admit the session: a `new` or `join` decides without a lock, then  *)
(* again under the session's participation lock, creates the workstream    *)
(* under the lock of the workstream store, nested, and appends a           *)
(* membership.  `barbaro workstream new`, `complete` and `reopen` change   *)
(* the store from the command line.  A process may die between any two     *)
(* writes; its locks are then free again (DirectoryLock models how).       *)
(*                                                                         *)
(* A lock is taken in the step that reads under it; the claim and the      *)
(* record of a name are read together, because a claim is replaced only    *)
(* while it resolves to nothing.  Membership times are in CodexIngest.     *)
(***************************************************************************)
EXTENDS Naturals, Sequences, FiniteSets, SequencesExt

CONSTANTS
    Sessions, Names,
    Ids,                \* workstream identities
    Commands,           \* runs of `barbaro workstream new`
    MaxPrompts,         \* per session
    MaxStatusChanges, MaxDeaths,
    Unscoped,           \* the membership of a record without workstream
    None

Roles == {"hook", "ingest"}

Deliveries == Sessions \X (1..MaxPrompts) \X Roles

Processes == Deliveries \union Commands

Invocations == [kind : {"new", "join"}, name : Names]

Records == [name : Names, status : {"open", "completed"}, by : Processes]

ASSUME EnrollmentAssumption ==
    /\ {MaxPrompts, MaxStatusChanges, MaxDeaths} \subseteq Nat
    /\ Commands \intersect Deliveries = {}
    /\ None \notin Ids \union Invocations \union Records \union Processes \union {Unscoped}
    /\ Unscoped \notin Ids

VARIABLES
    claim,          \* names/<name>: the identity a name is claimed for
    record,         \* <ws_id>.json
    log,            \* the memberships in a session's participation record
    storeLock,      \* the holder of the workstream store's lock
    sessionLock,    \* the holder of each participation lock
    prompts,        \* the prompts of each session so far
    asked,          \* the invocation a process handles
    pc,
    seen,           \* the membership its first, unlocked look found
    target,         \* the workstream it is about to write
    spent           \* status changes and deaths so far

vars == <<claim, record, log, storeLock, sessionLock, prompts, asked, pc,
          seen, target, spent>>

files == <<claim, record, log>>

locks == <<storeLock, sessionLock>>

Session(d) == d[1]

Running == {"look", "resolve", "enter", "create", "record", "append"}

Ended == {"moved", "member", "refused", "failed", "dead"}

-----------------------------------------------------------------------------
(* The decision *)

(* A claim binds a name only as long as the record it names says so. *)
Resolve(n) ==
    IF claim[n] # None /\ record[claim[n]] # None
         /\ record[claim[n]].name = n
    THEN claim[n] ELSE None

(* The session's current membership; None without a record. *)
Standing(s) == IF log[s] = <<>> THEN None ELSE Last(log[s])

Refuses(inv, standing, w) ==
    \/ w = None /\ inv.kind = "join"
    \/ w # None /\ record[w].status # "open"
    \/ w # None /\ inv.kind = "new" /\ standing = None

(* #decide, from a current membership and the workstream of the name. *)
Decision(inv, standing, w) ==
    IF w # None /\ w = standing THEN "member"
    ELSE IF Refuses(inv, standing, w) THEN "refused" ELSE "proceed"

-----------------------------------------------------------------------------
(* Prompts and commands *)

Init ==
    /\ claim = [n \in Names |-> None]
    /\ record = [id \in Ids |-> None]
    /\ log \in [Sessions -> {<<>>, <<Unscoped>>}]
    /\ storeLock = None
    /\ sessionLock = [s \in Sessions |-> None]
    /\ prompts = [s \in Sessions |-> 0]
    /\ asked = [p \in Processes |-> None]
    /\ pc = [p \in Processes |-> "idle"]
    /\ seen = [d \in Deliveries |-> None]
    /\ target = [p \in Processes |-> None]
    /\ spent = [changes |-> 0, deaths |-> 0]

(* The user prompts again once the synchronous hook of the last prompt is
   over; its hook-ingest may still run, or not have started. *)
Prompt(s, inv) ==
    LET k == prompts[s] + 1
        new == {<<s, k, role>> : role \in Roles} IN
    /\ k <= MaxPrompts
    /\ k > 1 => pc[<<s, k - 1, "hook">>] \in Ended
    /\ prompts' = [prompts EXCEPT ![s] = k]
    /\ asked' = [p \in Processes |-> IF p \in new THEN inv ELSE asked[p]]
    /\ pc' = [p \in Processes |-> IF p \in new THEN "look" ELSE pc[p]]
    /\ UNCHANGED <<files, locks, seen, target, spent>>

Command(c, n) ==
    /\ pc[c] = "idle"
    /\ asked' = [asked EXCEPT ![c] = [kind |-> "new", name |-> n]]
    /\ pc' = [pc EXCEPT ![c] = "create"]
    /\ UNCHANGED <<files, locks, prompts, seen, target, spent>>

(* complete and reopen: the store's lock is held for the whole operation,
   and its one write is atomic. *)
SetStatus(n, status) ==
    LET w == Resolve(n) IN
    /\ spent.changes < MaxStatusChanges
    /\ storeLock = None
    /\ w # None /\ record[w].status # status
    /\ record' = [record EXCEPT ![w].status = status]
    /\ spent' = [spent EXCEPT !.changes = @ + 1]
    /\ UNCHANGED <<claim, log, locks, prompts, asked, pc, seen, target>>

-----------------------------------------------------------------------------
(* Admission of a session *)

(* The first pass reads the participation record ... *)
Look(d) ==
    /\ pc[d] = "look"
    /\ seen' = [seen EXCEPT ![d] = Standing(Session(d))]
    /\ pc' = [pc EXCEPT ![d] = "resolve"]
    /\ UNCHANGED <<files, locks, prompts, asked, target, spent>>

(* ... then the name, and ends here unless the decision is to proceed. *)
Precheck(d) ==
    LET decision == Decision(asked[d], seen[d], Resolve(asked[d].name)) IN
    /\ pc[d] = "resolve"
    /\ pc' = [pc EXCEPT ![d] = IF decision = "proceed" THEN "enter"
                               ELSE decision]
    /\ seen' = [seen EXCEPT ![d] = None]
    /\ UNCHANGED <<files, locks, prompts, asked, target, spent>>

(* A mutant of Enter: no second decision. *)
EnterUndecided(d) ==
    LET s == Session(d)
        w == Resolve(asked[d].name) IN
    /\ pc[d] = "enter" /\ sessionLock[s] = None
    /\ pc' = [pc EXCEPT ![d] = IF w = None THEN "create" ELSE "append"]
    /\ target' = [target EXCEPT ![d] = w]
    /\ sessionLock' = [sessionLock EXCEPT ![s] = d]
    /\ UNCHANGED <<files, storeLock, prompts, asked, seen, spent>>

(* The second pass decides again, under the participation lock, which it
   keeps only to write. *)
Enter(d) ==
    LET s == Session(d)
        w == Resolve(asked[d].name)
        decision == Decision(asked[d], Standing(s), w) IN
    /\ pc[d] = "enter" /\ sessionLock[s] = None
    /\ IF decision = "proceed"
       THEN /\ pc' = [pc EXCEPT ![d] = IF w = None THEN "create"
                                       ELSE "append"]
            /\ target' = [target EXCEPT ![d] = w]
            /\ sessionLock' = [sessionLock EXCEPT ![s] = d]
       ELSE /\ pc' = [pc EXCEPT ![d] = decision]
            /\ UNCHANGED <<target, sessionLock>>
    /\ UNCHANGED <<files, storeLock, prompts, asked, seen, spent>>

(* The participation lock after a process gives up what it holds. *)
Unlocked(p) ==
    [s \in Sessions |-> IF sessionLock[s] = p THEN None ELSE sessionLock[s]]

(* The claim of a free name, by which its name is looked up from now on. *)
ClaimName(p) ==
    LET n == asked[p].name IN
    /\ pc[p] = "create"
    /\ \E id \in Ids :
         /\ record[id] = None /\ \A m \in Names : claim[m] # id
         /\ claim' = [claim EXCEPT ![n] = id]
         /\ target' = [target EXCEPT ![p] = id]
    /\ storeLock' = p
    /\ pc' = [pc EXCEPT ![p] = "record"]
    /\ UNCHANGED <<record, log, sessionLock, prompts, asked, seen, spent>>

(* A mutant of WriteClaim: without a second look at the name. *)
WriteClaimUnchecked(p) == ClaimName(p) /\ storeLock = None

(* Creation: the claim first, ... *)
WriteClaim(p) ==
    ClaimName(p) /\ storeLock = None /\ Resolve(asked[p].name) = None

(* ... then the record. *)
WriteRecord(p) ==
    /\ pc[p] = "record"
    /\ record' = [record EXCEPT ![target[p]] =
                    [name |-> asked[p].name, status |-> "open", by |-> p]]
    /\ storeLock' = None
    /\ pc' = [pc EXCEPT ![p] = IF p \in Deliveries THEN "append" ELSE "moved"]
    /\ UNCHANGED <<claim, log, sessionLock, prompts, asked, seen, target,
                   spent>>

(* Mutant of NameTaken: a refusal keeps the participation lock. *)
NameTakenKeepsLock(p) ==
    /\ pc[p] = "create" /\ storeLock = None
    /\ Resolve(asked[p].name) # None
    /\ pc' = [pc EXCEPT ![p] = "refused"]
    /\ UNCHANGED <<files, locks, prompts, asked, seen, target, spent>>

(* The name resolves by now: a member moves to the workstream if it is
   open, anybody else is refused. *)
NameTaken(p) ==
    LET w == Resolve(asked[p].name) IN
    /\ pc[p] = "create" /\ storeLock = None
    /\ w # None
    /\ IF p \in Deliveries /\ record[w].status = "open"
            /\ Standing(Session(p)) # None
       THEN /\ target' = [target EXCEPT ![p] = w]
            /\ pc' = [pc EXCEPT ![p] = "append"]
            /\ UNCHANGED sessionLock
       ELSE /\ pc' = [pc EXCEPT ![p] = "refused"]
            /\ sessionLock' = Unlocked(p)
            /\ UNCHANGED target
    /\ UNCHANGED <<files, storeLock, prompts, asked, seen, spent>>

(* The one write of a participation record, and the release of its lock. *)
AppendMembership(d) ==
    /\ pc[d] = "append"
    /\ log' = [log EXCEPT ![Session(d)] = Append(@, target[d])]
    /\ pc' = [pc EXCEPT ![d] = "moved"]
    /\ sessionLock' = Unlocked(d)
    /\ target' = [target EXCEPT ![d] = None]
    /\ UNCHANGED <<claim, record, storeLock, prompts, asked, seen, spent>>

(* The wait for a lock times out. *)
GiveUp(p) ==
    /\ \/ pc[p] = "enter" /\ sessionLock[Session(p)] # None
       \/ pc[p] = "create" /\ storeLock # None
    /\ pc' = [pc EXCEPT ![p] = "failed"]
    /\ sessionLock' = Unlocked(p)
    /\ UNCHANGED <<files, storeLock, prompts, asked, seen, target, spent>>

(* The process is killed, and its locks are recovered. *)
Die(p) ==
    /\ spent.deaths < MaxDeaths
    /\ pc[p] \in Running
    /\ pc' = [pc EXCEPT ![p] = "dead"]
    /\ sessionLock' = Unlocked(p)
    /\ storeLock' = IF storeLock = p THEN None ELSE storeLock
    /\ spent' = [spent EXCEPT !.deaths = @ + 1]
    /\ UNCHANGED <<files, prompts, asked, seen, target>>

Create(p) == WriteClaim(p) \/ WriteRecord(p) \/ NameTaken(p)

Admit(d) == Look(d) \/ Precheck(d) \/ Enter(d) \/ AppendMembership(d)

Next ==
    \/ \E s \in Sessions, inv \in Invocations : Prompt(s, inv)
    \/ \E c \in Commands, n \in Names : Command(c, n)
    \/ \E n \in Names, status \in {"open", "completed"} : SetStatus(n, status)
    \/ \E d \in Deliveries : Admit(d)
    \/ \E p \in Processes : Create(p) \/ GiveUp(p) \/ Die(p)

Spec == Init /\ [][Next]_vars

-----------------------------------------------------------------------------
(* Properties *)

(* Every variable keeps its type. *)
TypeOK ==
    /\ claim \in [Names -> Ids \union {None}]
    /\ record \in [Ids -> Records \union {None}]
    /\ log \in [Sessions -> Seq(Ids \union {Unscoped})]
    /\ storeLock \in Processes \union {None}
    /\ sessionLock \in [Sessions -> Deliveries \union {None}]
    /\ prompts \in [Sessions -> 0..MaxPrompts]
    /\ asked \in [Processes -> Invocations \union {None}]
    /\ pc \in [Processes -> {"idle"} \union Running \union Ended]
    /\ seen \in [Deliveries -> Ids \union {Unscoped, None}]
    /\ target \in [Processes -> Ids \union {None}]
    /\ spent \in [changes : 0..MaxStatusChanges, deaths : 0..MaxDeaths]

(* The name of every workstream, open or completed, resolves to it: no
   second record has its name, whoever dies while creating (the claim is
   written before the record in create). *)
NamesResolve ==
    \A id \in Ids : record[id] # None => claim[record[id].name] = id

(* A hook that created a workstream and was neither killed nor is still at
   work has put its session into it: no refusal and no lock timeout leaves
   an orphan (the lock order of #enroll). *)
NoOrphan ==
    \A id \in Ids :
      record[id] # None /\ record[id].by \in Deliveries =>
        \/ pc[record[id].by] \in Running \union {"dead"}
        \/ id \in Range(log[Session(record[id].by)])

(* Claims, records and memberships belong together. *)
StoreSound == TypeOK /\ NamesResolve /\ NoOrphan

(* Only workstreams on record are joined, one after the other, and the log
   of a session is never rewritten: enrollment implements Membership. *)
Abstract == INSTANCE Membership WITH
    workstreams <- {[id |-> i, name |-> record[i].name] :
                      i \in {j \in Ids : record[j] # None}}

ImplementsMembership == Abstract!Spec

(* A process that has not ended can take its next step, or waits for a lock
   whose holder has not ended and waits for no lock of the same kind: no path
   keeps a lock, no two take them in opposite orders, and a claim left by a
   creator that died never blocks its name (#enroll, create, resolveName). *)
NobodyStuck ==
    \A p \in Processes : pc[p] \in Running =>
        \/ ENABLED (Admit(p) \/ Create(p))
        \/ pc[p] = "enter" /\ pc[sessionLock[Session(p)]] \in {"create", "record", "append"}
        \/ pc[p] = "create" /\ storeLock # None /\ pc[storeLock] = "record"

(* Of the comment of #enroll, "a delayed hook racing a newer prompt, cannot
   lose or reorder membership moves": no hook moves the session once a hook
   of a later prompt has. *)
MovesInPromptOrder ==
    [][\A s \in Sessions : \A k \in 1..MaxPrompts : \A role \in Roles :
         pc[<<s, k, role>>] # "moved" /\ pc'[<<s, k, role>>] = "moved" =>
           \A j \in k + 1..MaxPrompts, r \in Roles :
             pc[<<s, j, r>>] # "moved"]_vars

=============================================================================
