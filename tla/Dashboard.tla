----------------------------- MODULE Dashboard -----------------------------
(***************************************************************************)
(* The terminal dashboard (src/tui/comfort-app.ts): one event loop that    *)
(* takes keys, reads the store, starts the command line as a writer and    *)
(* plays the film that covers the wait.                                    *)
(*                                                                         *)
(* Keys, the grace of a lone Escape, the refresh timer, a refresh in       *)
(* flight, a writer process, the lookup after it, the motion timer and a   *)
(* resized terminal interleave.  What a page says, the cards' layout and   *)
(* the clipboard are left out; which row is selected is any row listed.    *)
(***************************************************************************)
EXTENDS Catalogue

CONSTANTS
    PassTicks,  \* ticks of one pass of the film
    MaxPresses, MaxRefreshes, MaxResizes,   \* bounds of the scenes
    Home        \* the mode that is no workstream's

Keys == {"quit", "r", "?", "/", "x", "Enter", "Esc", "Space", "n", "Submit"}
Tiers == {"framed", "text", "small"}

(* A scene of the dashboard: the keys somebody may press and how often, the
   ticks of the refresh timer, resizes and the tiers they lead to, whether
   motion is allowed, the page that is opened first, the workstream the form
   names and whether the command line has something to say on stderr. *)
DashboardScene(sc) ==
    /\ sc.keys \subseteq Keys /\ sc.presses \in 0..MaxPresses
    /\ sc.refreshes \in 0..MaxRefreshes /\ sc.resizes \in 0..MaxResizes
    /\ sc.tiers \subseteq Tiers
    /\ {sc.motion, sc.warns} \subseteq BOOLEAN
    /\ sc.named \in Workstreams /\ sc.opens \in Workstreams \union {Home}

ASSUME DashboardAssumption ==
    /\ PassTicks \in Nat \ {0} /\ Home \notin Workstreams
    /\ {MaxPresses, MaxRefreshes, MaxResizes} \subseteq Nat
    /\ None \notin [phase : {"writer", "reconcile", "finishing"}, ticks : 0..PassTicks, id : Nat]
    /\ \A sc \in Scenes : DashboardScene(sc)

VARIABLES
    ui,         \* mode, filter, help, paused, tier
    shown,      \* the catalogue on the screen (model.catalogue), or None
    rd,         \* the refresh in flight, readGeneration, lifecycleReadLock
    startup,    \* on until the first read and the first stride are over
    dialog,     \* the lifecycle overlay
    film,       \* the ceremony over it, or None
    creation,   \* the state of the create flow
    writer,     \* the command line process
    motion,     \* the scene the motion timer serves, or "none"
    esc,        \* a lone Escape in its grace, or None
    used,       \* presses, refreshes and resizes so far
    closed

uiVars == <<ui, shown, rd, startup, dialog, film, creation, writer, motion, esc,
            used, closed>>
vars == <<catalogueVars, uiVars>>

NoDialog == [state |-> "none"]
NoWriter == [kind |-> "none"]
Results == {"confirmed", "cancelled", "failed", "unknown"}
Made == {"created", "found"} \union (Results \ {"confirmed"})

-----------------------------------------------------------------------------
(* Motion *)

Framed == ui.tier = "framed"
Live == scene.motion /\ ~ui.paused

Galloping ==
    /\ ~startup.on /\ ~ui.help /\ dialog.state = "none"
    /\ ui.mode # Home /\ shown # None
    /\ shown.records[ui.mode] # None /\ ui.mode \in shown.working
    /\ Live /\ Framed

WantedMotionScene ==
    CASE closed -> "none"
      [] ~closed /\ film # None /\ Live /\ Framed -> "film"
      [] ~closed /\ film = None /\ dialog.state = "confirm" /\ ~ui.help
            /\ Live /\ Framed -> "decision"
      [] ~closed /\ film = None /\ Galloping -> "dashboard"
      [] OTHER -> "none"

(* Mutant: A timer that runs is not looked at. *)
SyncIdleTimer == motion' = IF motion = "none" THEN WantedMotionScene' ELSE motion

SyncMotionTimer == motion' = WantedMotionScene'

(* Mutant: A hidden film goes on. *)
RetiredNever(t) == film

(* retireHiddenLifecycleFilm, when the terminal has tier t *)
Retired(t) == IF Live /\ t = "framed" THEN film ELSE None

-----------------------------------------------------------------------------
(* Reading the store *)

Asked(d, mode) ==
    IF d.lock \/ d.stage # "idle" THEN [d EXCEPT !.queued = TRUE]
    ELSE [d EXCEPT !.stage = "health", !.at = d.gen, !.mode = mode, !.overtaken = FALSE]

(* Mutant: What was asked for meanwhile is forgotten until it is asked again. *)
Unserved(d, mode) == d

Served(d, mode) ==
    IF d.queued /\ ~d.lock THEN Asked([d EXCEPT !.queued = FALSE], mode) ELSE d

Forget(r) ==
    /\ reads' = [reads EXCEPT ![r] = NoReading]
    /\ since' = [since EXCEPT ![r] = NothingSince]

RefreshTick ==
    /\ ~closed /\ ~startup.on /\ used.refreshes < scene.refreshes
    /\ used' = [used EXCEPT !.refreshes = @ + 1]
    /\ rd' = Asked(rd, ui.mode)
    /\ UNCHANGED <<catalogueVars, ui, shown, startup, dialog, film, creation, writer,
                   motion, esc, closed>>

ReadHealth ==
    /\ rd.stage = "health" /\ ~closed
    /\ rd' = [rd EXCEPT !.stage = "catalogue"]
    /\ Begin("refresh")
    /\ UNCHANGED <<scene, record, session, clock, spent, ui, shown, startup, dialog,
                   film, creation, writer, motion, esc, used, closed>>

ReadCatalogue ==
    /\ rd.stage = "catalogue" /\ ~closed
    /\ ReadNext("refresh")
    /\ UNCHANGED uiVars

(* The dashboard of a workstream reads its turns as well. *)
ReadContext ==
    /\ rd.stage = "catalogue" /\ reads["refresh"].stage = "done" /\ ~closed
    /\ rd.mode # Home
    /\ rd' = [rd EXCEPT !.stage = "context"]
    /\ UNCHANGED <<catalogueVars, ui, shown, startup, dialog, film, creation, writer,
                   motion, esc, used, closed>>

(* The end of a refresh: what it read is shown unless a writer was started
   since it began. *)
EndRefresh(ok) ==
    LET current == rd.at = rd.gen
        idle == [rd EXCEPT !.stage = "idle"]
        settles == current /\ startup.on
    IN /\ shown' = IF current /\ ok THEN Projection(reads["refresh"]) ELSE shown
       /\ startup' = IF settles THEN [startup EXCEPT !.settled = TRUE, !.on = ~startup.stride]
                     ELSE startup
       /\ rd' = IF settles /\ startup.stride THEN idle ELSE Served(idle, ui.mode)
       /\ UNCHANGED <<ui, dialog, film, creation, writer, esc, used, closed>>
       /\ IF current THEN SyncMotionTimer ELSE UNCHANGED motion

CommitRefresh ==
    /\ ~closed
    /\ \/ rd.stage = "context"
       \/ rd.stage = "catalogue" /\ rd.mode = Home /\ reads["refresh"].stage = "done"
    /\ Forget("refresh")
    /\ UNCHANGED <<scene, record, session, clock, spent>>
    /\ EndRefresh(TRUE)

FailRefresh ==
    /\ ~closed /\ rd.stage # "idle" /\ spent.faults < scene.faults
    /\ spent' = [spent EXCEPT !.faults = @ + 1]
    /\ Forget("refresh")
    /\ UNCHANGED <<scene, record, session, clock>>
    /\ EndRefresh(FALSE)

RefreshNext == ReadHealth \/ ReadCatalogue \/ ReadContext \/ CommitRefresh

(* The first stride of the horse is over. *)
StrideDone ==
    /\ startup.on /\ ~startup.stride /\ ~closed
    /\ startup' = [startup EXCEPT !.stride = TRUE, !.on = ~startup.settled]
    /\ UNCHANGED <<catalogueVars, ui, shown, rd, dialog, film, creation, writer, esc,
                   used, closed>>
    /\ IF startup.settled THEN SyncMotionTimer ELSE UNCHANGED motion

-----------------------------------------------------------------------------
(* Completing or reopening a workstream *)

Desired(status) == IF status = "open" THEN "completed" ELSE "open"

(* currentItem, or the row that is selected among those the filter lists *)
Selectable ==
    {w \in Workstreams :
        /\ shown # None /\ shown.records[w] # None
        /\ IF ui.mode = Home THEN shown.records[w].status = ui.filter ELSE w = ui.mode}

BeginSelectedLifecycle ==
    /\ Framed
    /\ \E w \in Selectable :
         dialog' = [state |-> "confirm", ws |-> w, status |-> shown.records[w].status,
                    rev |-> shown.records[w].rev, cancelled |-> FALSE, warns |-> FALSE,
                    mode |-> ui.mode, filter |-> ui.filter]
    /\ UNCHANGED <<catalogueVars, ui, shown, rd, startup, film, creation, writer>>
    /\ SyncMotionTimer

NewWriter(kind) ==
    [kind |-> kind, running |-> TRUE, held |-> TRUE, cancelled |-> FALSE, did |-> FALSE,
     changed |-> FALSE, code |-> "none", warns |-> FALSE]

(* Mutant: A refresh in flight stays valid. *)
LockedOnly(d) == [d EXCEPT !.lock = TRUE]

(* No refresh starts beside the writer, and none that has started counts. *)
Invalidated(d) == [d EXCEPT !.lock = TRUE, !.gen = @ + 1]

StartLifecycleWriter ==
    /\ dialog.state = "confirm" /\ ui.tier # "small"
    /\ film' = IF Live /\ Framed
               THEN [phase |-> "writer", ticks |-> 0, id |-> rd.gen + 1] ELSE None
    /\ dialog' = [dialog EXCEPT !.state = "pending"]
    /\ rd' = Invalidated(rd)
    /\ writer' = NewWriter("status")
    /\ UNCHANGED <<catalogueVars, ui, shown, startup, creation>>
    /\ SyncMotionTimer

(* The page a dialog leaves *)
Left(d, destination) ==
    IF d.state = "confirmed" THEN [ui EXCEPT !.mode = Home, !.filter = destination]
    ELSE [ui EXCEPT !.mode = d.mode, !.filter = d.filter]

(* restoreLifecycleOrigin, closeLifecycleResult *)
CloseDialog(d, destination) ==
    /\ ui' = Left(d, destination)
    /\ dialog' = NoDialog /\ film' = None /\ writer' = NoWriter
    /\ UNCHANGED <<catalogueVars, shown, rd, startup, creation>>
    /\ SyncMotionTimer

(* Escape asks a writer to stop, once, and not when it has answered. *)
MayCancel ==
    /\ ~dialog.cancelled /\ writer.held
    /\ film # None => film.phase = "writer"

CancelLifecycle ==
    /\ dialog' = [dialog EXCEPT !.cancelled = TRUE]
    /\ writer' = [writer EXCEPT !.cancelled = TRUE, !.held = FALSE]
    /\ UNCHANGED <<catalogueVars, ui, shown, rd, startup, film, creation, motion>>

(* Mutant: The exit decides where the status is as it was. *)
SettleByExit(found) ==
    IF found # None /\ found.status = Desired(dialog.status) THEN "confirmed"
    ELSE IF writer.cancelled THEN "cancelled"
    ELSE IF writer.code = "error" THEN "failed" ELSE "unknown"

(* settleLifecycle: what is observed after the writer decides, not its exit. *)
SettleLifecycle(found) ==
    LET sees(status) == found # None /\ found.status = status IN
    CASE sees(Desired(dialog.status)) /\ found.rev >= dialog.rev -> "confirmed"
      [] ~(sees(dialog.status) /\ found.rev = dialog.rev) -> "unknown"
      [] OTHER -> CASE writer.cancelled -> "cancelled"
                    [] ~writer.cancelled /\ writer.code = "error" -> "failed"
                    [] OTHER -> "unknown"

(* finishLifecycleWriter, after the lookup *)
EndLifecycle(read) ==
    LET seen == IF read THEN Projection(reads["lookup"]) ELSE shown
        found == IF read /\ ~seen.refused THEN seen.records[dialog.ws] ELSE None
        state == SettleLifecycle(found)
        settled == [dialog EXCEPT !.state = state, !.warns = writer.warns]
        boundary == film # None /\ film.ticks = PassTicks
        over == state = "confirmed" /\ boundary /\ ~writer.warns
    IN /\ shown' = seen
       /\ dialog' = IF over THEN NoDialog ELSE settled
       /\ writer' = IF over THEN NoWriter ELSE writer
       /\ ui' = IF over THEN Left(settled, "open") ELSE ui
       /\ film' = IF film = None \/ state # "confirmed" \/ boundary THEN None
                  ELSE [film EXCEPT !.phase = "finishing"]
       /\ rd' = Served([rd EXCEPT !.lock = FALSE], ui'.mode)
       /\ UNCHANGED <<startup, creation, esc, used, closed>>
       /\ SyncMotionTimer

-----------------------------------------------------------------------------
(* The writer, a process of its own (defaultWriter) *)

(* It changes the store: setStatus takes the workstream's identity, not the
   revision that was confirmed, and does nothing when there is nothing to do. *)
WriterActs ==
    /\ writer.kind # "none" /\ writer.running /\ ~writer.did /\ ~closed
    /\ \/ writer.kind = "status" /\ SetStatus(dialog.ws, Desired(dialog.status))
       \/ writer.kind = "create" /\ CreateWorkstream(scene.named)
    /\ writer' = [writer EXCEPT !.did = TRUE, !.changed = record' # record]
    /\ UNCHANGED <<scene, session, clock, spent, reads, since, ui, shown, rd, startup,
                   dialog, film, creation, motion, esc, used, closed>>

(* It exits, with an error if it did nothing; or a signal or its thirty seconds
   end it, before or after it did.  Then the store is looked up. *)
WriterEnds(code, warns) ==
    /\ writer.kind # "none" /\ writer.running /\ ~closed
    /\ code = "ok" => writer.did
    /\ code = "error" => ~writer.did
    /\ warns => scene.warns /\ code = "ok"
    /\ writer' = [writer EXCEPT !.running = FALSE, !.held = FALSE,
                                !.code = code, !.warns = warns]
    /\ film' = IF film = None THEN None ELSE [film EXCEPT !.phase = "reconcile"]
    /\ Begin("lookup")
    /\ UNCHANGED <<scene, record, session, clock, spent, ui, shown, rd, startup, dialog,
                   creation, motion, esc, used, closed>>

LookUp ==
    /\ ~closed
    /\ ReadNext("lookup")
    /\ UNCHANGED uiVars

Settling(kind) == writer.kind = kind /\ ~writer.running /\ reads["lookup"] # NoReading

(* The lookup succeeds or fails. *)
Reconciled(read) ==
    /\ ~closed
    /\ IF read THEN reads["lookup"].stage = "done" ELSE spent.faults < scene.faults
    /\ spent' = IF read THEN spent ELSE [spent EXCEPT !.faults = @ + 1]
    /\ Forget("lookup")
    /\ UNCHANGED <<scene, record, session, clock>>

FinishLifecycle(read) ==
    Settling("status") /\ Reconciled(read) /\ EndLifecycle(read)

-----------------------------------------------------------------------------
(* The create flow *)

OpenForm ==
    /\ ui.mode = Home
    /\ creation' = "form"
    /\ UNCHANGED <<catalogueVars, ui, shown, rd, startup, dialog, film, writer>>
    /\ SyncMotionTimer

(* startWriter: unlike the lifecycle's it neither locks nor invalidates reads. *)
StartWriter ==
    /\ creation' = "pending"
    /\ writer' = NewWriter("create")
    /\ UNCHANGED <<catalogueVars, ui, shown, rd, startup, dialog, film, motion>>

CancelCreate ==
    /\ writer' = [writer EXCEPT !.cancelled = @ \/ writer.held]
    /\ UNCHANGED <<catalogueVars, ui, shown, rd, startup, dialog, film, creation, motion>>

CloseCreate ==
    /\ creation' = "none" /\ writer' = NoWriter
    /\ UNCHANGED <<catalogueVars, ui, shown, rd, startup, dialog, film>>
    /\ SyncMotionTimer

(* Mutant: A failed lookup is an absence. *)
SettleUnread(read, refused, found) ==
    IF writer.code = "ok" THEN "created"
    ELSE IF read /\ found # None THEN "found"
    ELSE IF writer.cancelled THEN "cancelled" ELSE "failed"

(* settleCreate: found is None where no record has the name. *)
SettleCreate(read, refused, found) ==
    CASE writer.code = "ok" -> "created"
      [] writer.code # "ok" /\ (~read \/ refused) -> "unknown"
      [] OTHER -> CASE found # None -> "found"
                    [] found = None /\ writer.cancelled -> "cancelled"
                    [] found = None /\ ~writer.cancelled /\ writer.code = "error" -> "failed"
                    [] OTHER -> "unknown"

FinishCreate(read) ==
    LET seen == IF read THEN Projection(reads["lookup"]) ELSE shown IN
    /\ Settling("create") /\ Reconciled(read)
    /\ shown' = seen
    /\ creation' = SettleCreate(read, read /\ seen.refused,
                                IF read THEN seen.records[scene.named] ELSE None)
    /\ rd' = [rd EXCEPT !.overtaken = @ \/ read]
    /\ UNCHANGED <<ui, startup, dialog, film, writer, motion, esc, used, closed>>

WriterNext ==
    \/ LookUp
    \/ \E code \in {"ok", "error", "none"}, warns \in BOOLEAN : WriterEnds(code, warns)
    \/ \E read \in BOOLEAN : FinishLifecycle(read) \/ FinishCreate(read)

-----------------------------------------------------------------------------
(* Keys *)

Nothing == UNCHANGED <<catalogueVars, ui, shown, rd, startup, dialog, film, creation,
                       writer, motion>>

Refresh ==
    /\ rd' = Asked(rd, ui.mode)
    /\ UNCHANGED <<catalogueVars, ui, shown, startup, dialog, film, creation, writer, motion>>

(* The page changes and the motion timer with it. *)
Turn(new) ==
    /\ ui' = new
    /\ UNCHANGED <<catalogueVars, shown, rd, startup, dialog, film, creation, writer>>
    /\ SyncMotionTimer

Help == Turn([ui EXCEPT !.help = TRUE])

(* open: the page of a workstream, which is read before the timer is looked at *)
Open ==
    /\ ui.mode = Home
    /\ \E w \in Selectable : ui' = [ui EXCEPT !.mode = w]
    /\ rd' = Asked(rd, ui'.mode)
    /\ UNCHANGED <<catalogueVars, shown, startup, dialog, film, creation, writer, motion>>

PageCommand(k) ==
    \/ k = "r" /\ Refresh
    \/ k = "?" /\ Help
    \/ k = "n" /\ OpenForm
    \/ k = "/" /\ ui.mode = Home /\ Turn([ui EXCEPT !.filter = Desired(@)])
    \/ k = "x" /\ BeginSelectedLifecycle
    \/ k = "Enter" /\ Open
    \/ k = "Space" /\ scene.motion /\ Turn([ui EXCEPT !.paused = ~@])

LifecycleCommand(k) ==
    /\ film = None
    /\ \/ k = "Enter" /\ StartLifecycleWriter
       \/ k = "/" /\ dialog.state \in Results /\ CloseDialog(dialog, Desired(dialog.status))
       \/ k = "r" /\ dialog.state # "pending" /\ Refresh
       \/ k = "?" /\ dialog.state # "pending" /\ Help

(* In the form every other key is text. *)
CreateCommand(k) ==
    \/ k = "Submit" /\ creation = "form" /\ StartWriter
    \/ k = "r" /\ creation # "form" /\ Refresh
    \/ /\ k = "?" /\ creation # "form"
       /\ ui' = [ui EXCEPT !.help = TRUE]
       /\ UNCHANGED <<catalogueVars, shown, rd, startup, dialog, film, creation, writer,
                      motion>>

Command(k) ==
    /\ ~startup.on /\ ~ui.help
    /\ IF dialog.state # "none" THEN LifecycleCommand(k)
       ELSE IF creation # "none" THEN CreateCommand(k)
       ELSE PageCommand(k)

(* A key, if it does something.  With an Escape in its grace it only makes an
   escape sequence that nobody knows. *)
Press(k) ==
    /\ ~closed /\ used.presses < scene.presses
    /\ used' = [used EXCEPT !.presses = @ + 1]
    /\ UNCHANGED closed
    /\ \/ esc # None /\ esc' = None /\ Nothing
       \/ /\ esc = None /\ k = "Esc" /\ Nothing
          /\ esc' = [film |-> IF film = None THEN 0 ELSE film.id, at |-> dialog.state]
       \/ esc = None /\ UNCHANGED esc /\ Command(k)

(* Mutant: It is delivered to whatever is there. *)
NeverStale(e) == FALSE

(* An Escape that was pressed during one film says nothing after it. *)
Stale(e) == e.film # 0 /\ (film = None \/ film.id # e.film)

Back ==
    CASE startup.on -> Nothing
      [] ~startup.on /\ ui.help -> Turn([ui EXCEPT !.help = FALSE])
      [] ~startup.on /\ ~ui.help /\ dialog.state = "pending" ->
            IF MayCancel THEN CancelLifecycle ELSE Nothing
      [] ~startup.on /\ ~ui.help /\ dialog.state \in Results \union {"confirm"} ->
            IF film = None THEN CloseDialog(dialog, dialog.filter) ELSE Nothing
      [] OTHER ->
            CASE creation = "pending" -> CancelCreate
              [] creation \notin {"none", "pending"} -> CloseCreate
              [] OTHER -> Turn([ui EXCEPT !.mode = Home])

DeliverEscape ==
    /\ esc # None /\ ~closed
    /\ esc' = None
    /\ UNCHANGED <<used, closed>>
    /\ IF Stale(esc) THEN Nothing ELSE Back

(* q, Ctrl-C or a signal; the writers are asked to stop. *)
Finish ==
    /\ ~closed /\ "quit" \in scene.keys
    /\ closed' = TRUE /\ motion' = "none"
    /\ UNCHANGED <<catalogueVars, ui, shown, rd, startup, dialog, film, creation, writer,
                   esc, used>>

-----------------------------------------------------------------------------
(* The film and the terminal *)

(* Mutant: The warning goes with the film. *)
CompleteUnseen == CloseDialog(dialog, "open")

(* completeLifecycleFilm: a warning keeps the result on the screen. *)
CompleteFilm ==
    IF dialog.warns
    THEN /\ film' = None
         /\ UNCHANGED <<catalogueVars, ui, shown, rd, startup, dialog, creation, writer>>
         /\ SyncMotionTimer
    ELSE CloseDialog(dialog, "open")

MotionTick ==
    /\ motion = "film" /\ film # None
    /\ UNCHANGED <<esc, used, closed>>
    /\ LET ticks == IF film.ticks = PassTicks THEN 1 ELSE film.ticks + 1 IN
       IF film.phase = "finishing" /\ ticks = PassTicks THEN CompleteFilm
       ELSE /\ film' = [film EXCEPT !.ticks = ticks]
            /\ UNCHANGED <<catalogueVars, ui, shown, rd, startup, dialog, creation,
                           writer, motion>>

Resize(tier) ==
    /\ ~closed /\ tier # ui.tier /\ used.resizes < scene.resizes
    /\ used' = [used EXCEPT !.resizes = @ + 1]
    /\ ui' = [ui EXCEPT !.tier = tier]
    /\ film' = Retired(tier)
    /\ UNCHANGED <<catalogueVars, shown, rd, startup, dialog, creation, writer, esc, closed>>
    /\ SyncMotionTimer

Init ==
    /\ CatalogueInit
    /\ ui = [mode |-> scene.opens, filter |-> "open", help |-> FALSE, paused |-> FALSE,
             tier |-> "framed"]
    /\ shown = None
    /\ rd = [stage |-> "health", at |-> 0, mode |-> scene.opens, gen |-> 0,
             lock |-> FALSE, queued |-> FALSE, overtaken |-> FALSE]
    /\ startup = [on |-> TRUE, settled |-> FALSE, stride |-> ~scene.motion]
    /\ dialog = NoDialog /\ film = None
    /\ creation = "none" /\ writer = NoWriter
    /\ motion = "none" /\ esc = None
    /\ used = [presses |-> 0, refreshes |-> 0, resizes |-> 0]
    /\ closed = FALSE

(* Other processes go on while the dashboard runs, and a source may be bad. *)
Outside == SessionNext /\ ~closed /\ UNCHANGED uiVars

RefuseRead == ~closed /\ (\E r \in Readers : Refuse(r)) /\ UNCHANGED uiVars

Next ==
    \/ RefreshTick \/ RefreshNext \/ FailRefresh \/ RefuseRead \/ StrideDone
    \/ WriterActs \/ WriterNext \/ MotionTick
    \/ \E k \in scene.keys : Press(k)
    \/ DeliverEscape \/ Finish
    \/ \E tier \in scene.tiers : Resize(tier)
    \/ Outside

(* The timers fire, reads return, and a writer exits or is stopped after its
   thirty seconds. *)
Fairness ==
    /\ WF_vars(RefreshNext) /\ WF_vars(WriterNext)
    /\ WF_vars(MotionTick) /\ WF_vars(StrideDone)

Spec == Init /\ [][Next]_vars /\ Fairness

-----------------------------------------------------------------------------
(* Properties *)

TypeOK ==
    /\ ui \in [mode : Workstreams \union {Home}, filter : {"open", "completed"},
               help : BOOLEAN, paused : BOOLEAN, tier : Tiers]
    /\ rd.stage \in {"idle", "health", "catalogue", "context"}
    /\ rd.at \in 0..rd.gen /\ {rd.lock, rd.queued, rd.overtaken} \subseteq BOOLEAN
    /\ dialog.state \in Results \union {"none", "confirm", "pending"}
    /\ film # None => film.phase \in {"writer", "reconcile", "finishing"}
                      /\ film.ticks \in 0..PassTicks
    /\ creation \in Made \union {"none", "form", "pending"}
    /\ motion \in {"none", "film", "decision", "dashboard"}

(* A dialog that says failed or cancelled is right: this writer has changed
   nothing, although it may be stopped before or after it did and somebody
   else may undo what it did; and a creation is called one's own, found or
   absent as it is.  (settleLifecycle: "keeps every proof gap unknown".) *)
ResultTrue ==
    /\ dialog.state \in {"cancelled", "failed"} => ~writer.changed
    /\ creation \in {"cancelled", "failed"} => ~writer.changed
    /\ creation = "created" => writer.changed
    /\ creation = "found" => record[scene.named] # None

(* A result disappears by a key pressed while it was there, or by the film of
   a confirmed change without a warning; never by an Escape pressed during the
   film before it.  (An Escape pressed in a wait without a film does dismiss
   the result unseen.) *)
ResultSeen ==
    [][ /\ dialog.state \in Results \union {"pending"} /\ dialog'.state = "none"
        => \/ film # None /\ ~writer.warns
           \/ /\ film = None /\ dialog.state \in Results
              /\ esc # None => esc.at \in Results \/ esc.film = 0 ]_vars

(* What is shown of a workstream never goes back to an earlier revision: a
   refresh that began before a writer is not shown after its lookup.  (The
   exception is the lookup of a creation: it and a refresh in flight overtake
   each other.) *)
NeverRegresses ==
    [][ /\ shown # None /\ shown' # shown /\ ~shown'.refused
        /\ ~rd.overtaken /\ creation' = creation
        => \A w \in Workstreams :
              shown.records[w] # None =>
                  /\ shown'.records[w] # None
                  /\ shown'.records[w].rev >= shown.records[w].rev ]_vars

(* "One timer serves only the currently visible live scene": an armed timer
   serves the scene that is on the screen, and a live scene without one has a
   refresh under way that arms it. *)
MotionLive ==
    /\ TypeOK
    /\ motion # "none" => motion = WantedMotionScene
    /\ WantedMotionScene # "none" => motion # "none" \/ rd.stage # "idle" \/ rd.queued

(* No wait is for ever: the startup, a writer with its lookup, a film and a
   refresh that was asked for all end once the keys do. *)
EveryWaitEnds ==
    []<>(\/ closed
         \/ /\ ~startup.on /\ ~rd.queued /\ film = None
            /\ "pending" \notin {dialog.state, creation})
=============================================================================
