---------------------------- MODULE PagesProofs ----------------------------
(***************************************************************************)
(* Theorems of Watch and Pages, for any sessions, workstreams, incidents,  *)
(* turns and watchers: a watcher skips nothing and tells nothing twice,    *)
(* sessions do not answer each other without end, what an await reports    *)
(* was so, what a traversal calls complete is whole, and its pages are     *)
(* pages of one thing.                                                     *)
(*                                                                         *)
(* What a watcher remembers is judged against a store that goes on while   *)
(* it scans.  The argument (WatchInv) is that the store only grows under   *)
(* it - turns are appended, a complete marker keeps its workstream - so    *)
(* what its memory covers once stays covered (GrowStep), and that each     *)
(* scan moves its memory no further than what it puts into the events of   *)
(* the poll, or into the baseline (WatcherStep).                           *)
(*                                                                         *)
(* A traversal takes many steps and the store goes on between them, so the *)
(* inductive invariant PagesInv says of every page so far how it stands to *)
(* the files as they are now: what was pinned of a feed is still a prefix  *)
(* of its file, or the traversal knows that the feed was touched; what was *)
(* there at the start is pinned, is yet to be read, or is missed for a     *)
(* reason that is known.  The proof has two halves:                        *)
(*   - a step of the store preserves it (AroundStep).  All that matters of *)
(*     such a step is Around: a feed keeps what it had and may get more,   *)
(*     or it is lost, and then nothing of it counts as there at the start; *)
(*   - a step of the traversal preserves it (PagerTracked).  The store     *)
(*     stands still (Paging), and there is a lemma for each reader.        *)
(* The turns in the order of a page are a list in which each stands once   *)
(* (SortedIs), so a page ends at one place, and the next begins there.     *)
(*                                                                         *)
(* The rest is about the observers again, and uses the types PagesInv has. *)
(* An await scans between two looks at its membership and cursor; neither  *)
(* comes back from a later value (NotAfter), so two equal looks mean that  *)
(* the scan was of that membership and cursor (AwaitInv).  What a watcher  *)
(* told is in its memory, and a lapse it told is of a lease that it knows  *)
(* as reported or that was renewed since (OnceInv).  Hence a poll wakes    *)
(* its session only with something new, and each answer has a cause of its *)
(* own (HeardInv).                                                         *)
(***************************************************************************)
EXTENDS Pages, TLAPS, FiniteSetTheorems, WellFoundedInduction

-----------------------------------------------------------------------------
(* The types of the variables, in full: TypeOK names what a reader expects of
   them, the proofs need every field. *)

Membership == [ws : Workstreams, epoch : Nat, base : [Sessions -> Nat]]

Clash == SUBSET (Actors \X BOOLEAN)

Memory ==
    [pc : {"start", "sleep", "over", "joins", "feeds", "incidents", "leases"},
     primed : BOOLEAN, at : Nat, errors : Nat,
     known : SUBSET (Sessions \X Workstreams), cur : [Sessions -> Nat],
     seen : SUBSET Incidents,
     leases : [Actors -> [rev : Nat, reported : BOOLEAN] \union {Gone}],
     conf : SUBSET Clash, sink : SUBSET Events, listed : SUBSET Sessions,
     left : SUBSET (Sessions \union Actors),
     snap : [Actors -> LeaseRecord \union {Gone}]]

History ==
    [armed : Nat, base : SUBSET Events, lost : SUBSET Events,
     again : SUBSET (Events \union Clash), rebuilt : SUBSET Sessions,
     told : SUBSET Clash, woken : BOOLEAN]

StoreTypes ==
    /\ scene \in Scenes /\ now \in 0..MaxTime /\ faults \in 0..MaxFaults
    /\ member \in [Sessions -> Membership \union {Gone}]
    /\ turns \in [Sessions -> Seq(Turn)]
    /\ feed \in [Sessions -> Nat \union {Gone}]
    /\ \A s \in Sessions : /\ Len(turns[s]) <= MaxTurns
                           /\ feed[s] # Gone => feed[s] <= Len(turns[s])
    /\ marker \in [Incidents -> Workstreams \union {NoScope, "empty", Gone}]
    /\ lease \in [Actors -> LeaseRecord \union {Gone}]

WatcherTypes ==
    /\ eng \in [Sessions -> Memory]
    /\ out \in [Sessions -> SUBSET Events]
    /\ ghost \in [Sessions -> History]

-----------------------------------------------------------------------------
(* The memory e of watcher w, its history g and what it printed, o, against
   the store as it is. *)

Told(e, g, o) == g.base \union o \union e.sink \union g.lost

(* What the scans of one poll hand on: without a baseline no events, another
   poll only below the limit of errors, and of its own feed nothing. *)
Bounds(w, e) ==
    /\ ~e.primed => e.sink = {}
    /\ e.errors <= MaxErrors
    /\ e.pc # "over" => e.errors < MaxErrors
    /\ e.pc = "feeds" => e.left \subseteq Sessions \ {w}
    /\ \A s \in Sessions : e.cur[s] <= Len(turns[s])
    /\ e.cur[w] = 0

JoinsTold(w, e, g, o) ==
    \A j \in e.known : j[1] = w \/ ~InScope(j[2])
                       \/ <<"join", j[1], j[2]>> \in Told(e, g, o)

(* A marker is remembered only when it is complete. *)
IncidentsTold(e, g, o) ==
    \A i \in e.seen : /\ marker[i] \notin {Gone, "empty"}
                      /\ \/ marker[i] # NoScope /\ ~InScope(marker[i])
                         \/ <<"incident", i>> \in Told(e, g, o)

TurnsTold(e, g, o) ==
    \A s \in Sessions \ g.rebuilt : \A n \in 1..e.cur[s] :
        \/ <<"turn", s, n>> \in Told(e, g, o)
        \/ IsEchoTurn(turns[s][n]) \/ ~InScope(turns[s][n].ws)

Remembers(w, e, g, o) ==
    /\ Bounds(w, e) /\ JoinsTold(w, e, g, o)
    /\ IncidentsTold(e, g, o) /\ TurnsTold(e, g, o)

WatchInv ==
    /\ StoreTypes /\ WatcherTypes
    /\ \A w \in Sessions : Remembers(w, eng[w], ghost[w], out[w])

LEMMA WatchInvImplies == WatchInv => NothingSkipped
<1> SUFFICES ASSUME WatchInv PROVE NothingSkipped
  OBVIOUS
<1>1. StoreTypes /\ WatcherTypes
  BY DEF WatchInv
<1>2. ASSUME NEW w \in Sessions
      PROVE  /\ eng[w] \in Memory /\ out[w] \subseteq Events
             /\ Remembers(w, eng[w], ghost[w], out[w])
  BY <1>1 DEF WatchInv, WatcherTypes
<1>3. TypeOK
  <2>1. ASSUME NEW w \in Sessions
        PROVE  /\ eng[w].sink \subseteq Events
               /\ eng[w].pc \in {"start", "sleep", "over", "joins", "feeds",
                                 "incidents", "leases"}
    BY <1>2 DEF Memory
  <2>2. \A w \in Sessions :
           /\ eng[w].errors <= MaxErrors /\ eng[w].cur[w] = 0
           /\ \A s \in Sessions : eng[w].cur[s] <= Len(turns[s])
    BY <1>2 DEF Remembers, Bounds
  <2>3. /\ scene \in Scenes /\ now \in 0..MaxTime /\ faults \in 0..MaxFaults
        /\ \A s \in Sessions : feed[s] # Gone => feed[s] <= Len(turns[s])
        /\ \A a \in Actors : lease[a] \in LeaseRecord \union {Gone}
    BY <1>1 DEF StoreTypes
  <2> QED BY <1>2, <2>1, <2>2, <2>3 DEF TypeOK
<1>4. ASSUME NEW w \in Sessions
      PROVE  LET told == ghost[w].base \union out[w] \union eng[w].sink \union ghost[w].lost
             IN /\ \A j \in eng[w].known : j[1] = w \/ ~InScope(j[2])
                                           \/ <<"join", j[1], j[2]>> \in told
                /\ \A i \in eng[w].seen : (marker[i] # NoScope /\ ~InScope(marker[i]))
                                          \/ <<"incident", i>> \in told
                /\ \A s \in Sessions \ ghost[w].rebuilt : \A n \in 1..eng[w].cur[s] :
                      \/ <<"turn", s, n>> \in told
                      \/ IsEchoTurn(turns[s][n]) \/ ~InScope(turns[s][n].ws)
  BY <1>2 DEF Remembers, JoinsTold, IncidentsTold, TurnsTold, Told
<1> QED BY <1>3, <1>4 DEF NothingSkipped

-----------------------------------------------------------------------------
(* Steps of the store *)

(* Turns are appended, and a complete marker is not written again. *)
Grown ==
    /\ \A s \in Sessions : /\ Len(turns[s]) <= Len(turns'[s])
                           /\ \A n \in 1..Len(turns[s]) : turns'[s][n] = turns[s][n]
    /\ \A i \in Incidents : marker[i] \notin {Gone, "empty"} => marker'[i] = marker[i]

(* A step of the store leaves each watcher its memory and what it was told. *)
SameHistory ==
    \A w \in Sessions : /\ ghost'[w].base = ghost[w].base
                        /\ ghost'[w].lost = ghost[w].lost
                        /\ ghost'[w].rebuilt = ghost[w].rebuilt

LEMMA GrowStep ==
  ASSUME WatchInv, StoreTypes', UNCHANGED <<scene, eng, out>>,
         ghost' \in [Sessions -> History], SameHistory, Grown
  PROVE  WatchInv'
<1>1. StoreTypes /\ WatcherTypes
  BY DEF WatchInv
<1>2. WatcherTypes'
  BY <1>1 DEF WatcherTypes
<1>3. ASSUME NEW w \in Sessions PROVE Remembers(w, eng[w], ghost[w], out[w])'
  <2>1. /\ eng[w] \in Memory /\ ghost[w] \in History /\ out[w] \in SUBSET Events
        /\ ghost'[w] \in History /\ Remembers(w, eng[w], ghost[w], out[w])
    BY <1>1 DEF WatchInv, WatcherTypes
  <2>2. PICK e \in Memory, o \in SUBSET Events, g \in History, h \in History :
            e = eng[w] /\ o = out[w] /\ g = ghost[w] /\ h = ghost'[w]
    BY <2>1
  <2>3. /\ eng'[w] = e /\ out'[w] = o
        /\ h.base = g.base /\ h.lost = g.lost /\ h.rebuilt = g.rebuilt
    BY <2>2 DEF SameHistory
  <2>4. Told(e, g, o) = Told(e, h, o)
    BY <2>3 DEF Told
  <2>5. \A ws : InScope(ws)' <=> InScope(ws)
    BY DEF InScope
  <2>6. /\ e.cur \in [Sessions -> Nat] /\ e.seen \subseteq Incidents
        /\ turns \in [Sessions -> Seq(Turn)] /\ turns' \in [Sessions -> Seq(Turn)]
    BY <1>1 DEF Memory, StoreTypes
  <2>7. Remembers(w, e, g, o)
    BY <2>1, <2>2
  <2>8. ASSUME NEW s \in Sessions
        PROVE  /\ e.cur[s] \in Nat /\ Len(turns[s]) \in Nat /\ Len(turns'[s]) \in Nat
               /\ e.cur[s] <= Len(turns[s]) /\ e.cur[s] <= Len(turns'[s])
    <3>1. e.cur[s] <= Len(turns[s]) /\ Len(turns[s]) <= Len(turns'[s])
      BY <2>7 DEF Remembers, Bounds, Grown
    <3>2. e.cur[s] \in Nat /\ Len(turns[s]) \in Nat /\ Len(turns'[s]) \in Nat
      BY <2>6
    <3> QED BY <3>1, <3>2
  <2>9. Bounds(w, e)'
    BY <2>7, <2>8 DEF Remembers, Bounds
  <2>10. JoinsTold(w, e, h, o)'
    BY <2>4, <2>5, <2>7 DEF Remembers, JoinsTold, Told
  <2>11. IncidentsTold(e, h, o)'
    <3> SUFFICES ASSUME NEW i \in e.seen
                 PROVE  /\ marker'[i] \notin {Gone, "empty"}
                        /\ \/ marker'[i] # NoScope /\ ~InScope(marker'[i])
                           \/ <<"incident", i>> \in Told(e, h, o)
      BY DEF IncidentsTold, Told, InScope
    <3>1. /\ marker[i] \notin {Gone, "empty"}
          /\ \/ marker[i] # NoScope /\ ~InScope(marker[i])
             \/ <<"incident", i>> \in Told(e, g, o)
      BY <2>7 DEF Remembers, IncidentsTold
    <3>2. marker'[i] = marker[i]
      BY <2>6, <3>1 DEF Grown
    <3> QED BY <2>4, <3>1, <3>2
  <2>12. TurnsTold(e, h, o)'
    <3> SUFFICES ASSUME NEW s \in Sessions \ h.rebuilt, NEW n \in 1..e.cur[s]
                 PROVE  \/ <<"turn", s, n>> \in Told(e, h, o)
                        \/ IsEchoTurn(turns'[s][n]) \/ ~InScope(turns'[s][n].ws)
      BY DEF TurnsTold, Told, IsEchoTurn, InScope
    <3>1. \/ <<"turn", s, n>> \in Told(e, g, o)
          \/ IsEchoTurn(turns[s][n]) \/ ~InScope(turns[s][n].ws)
      BY <2>3, <2>7 DEF Remembers, TurnsTold
    <3>2. n \in 1..Len(turns[s])
      BY <2>8
    <3>3. turns'[s][n] = turns[s][n]
      BY <3>2 DEF Grown
    <3> QED BY <2>4, <3>1, <3>3
  <2> QED BY <2>2, <2>3, <2>9, <2>10, <2>11, <2>12 DEF Remembers, Bounds, JoinsTold,
            IncidentsTold, TurnsTold, Told
<1> QED BY <1>2, <1>3 DEF WatchInv

(* A turn is appended to a session's turns and to its feed. *)
LEMMA AppendStep ==
  ASSUME StoreTypes, NEW s \in Sessions, NEW t \in Turn, Len(turns[s]) < MaxTurns,
         turns' = [turns EXCEPT ![s] = Append(@, t)],
         feed' = [feed EXCEPT ![s] = Len(turns[s]) + 1],
         UNCHANGED <<scene, now, faults, member, marker, lease>>
  PROVE  StoreTypes' /\ Grown
<1>1. /\ turns \in [Sessions -> Seq(Turn)] /\ feed \in [Sessions -> Nat \union {Gone}]
      /\ MaxTurns \in Nat /\ turns[s] \in Seq(Turn) /\ Len(turns[s]) \in Nat
  BY WatchAssumption DEF StoreTypes
<1>2. /\ Append(turns[s], t) \in Seq(Turn)
      /\ Len(Append(turns[s], t)) = Len(turns[s]) + 1
      /\ \A n \in 1..Len(turns[s]) : Append(turns[s], t)[n] = turns[s][n]
  BY <1>1
<1> DEFINE a == Append(turns[s], t)
<1>3. turns' = [turns EXCEPT ![s] = a]
  OBVIOUS
<1> HIDE DEF a
<1>4. /\ turns' \in [Sessions -> Seq(Turn)] /\ feed' \in [Sessions -> Nat \union {Gone}]
      /\ turns'[s] = a /\ feed'[s] = Len(turns[s]) + 1
      /\ \A r \in Sessions \ {s} : turns'[r] = turns[r] /\ feed'[r] = feed[r]
  BY <1>1, <1>2, <1>3 DEF a
<1>5. \A r \in Sessions : /\ Len(turns'[r]) <= MaxTurns
                          /\ feed'[r] # Gone => feed'[r] <= Len(turns'[r])
  BY <1>1, <1>2, <1>4 DEF a, StoreTypes
<1>6. StoreTypes'
  BY <1>4, <1>5 DEF StoreTypes
<1>7. Grown
  <2>1. ASSUME NEW r \in Sessions
        PROVE  /\ Len(turns[r]) <= Len(turns'[r])
               /\ \A n \in 1..Len(turns[r]) : turns'[r][n] = turns[r][n]
    <3>1. CASE r = s
      BY <1>1, <1>2, <1>4, <3>1 DEF a
    <3>2. CASE r # s
      <4>1. Len(turns[r]) \in Nat /\ turns'[r] = turns[r]
        BY <1>1, <1>4, <3>2
      <4> QED BY <4>1
    <3> QED BY <3>1, <3>2
  <2> QED BY <2>1 DEF Grown
<1> QED BY <1>6, <1>7

LEMMA StoreUnchanged ==
  ASSUME StoreTypes, UNCHANGED turns,
         \A i \in Incidents : marker[i] \notin {Gone, "empty"} => marker'[i] = marker[i]
  PROVE  Grown
<1>1. ASSUME NEW s \in Sessions
      PROVE  Len(turns[s]) <= Len(turns'[s])
  <2>1. Len(turns[s]) \in Nat
    BY DEF StoreTypes
  <2> QED BY <2>1
<1> QED BY <1>1 DEF Grown

LEMMA GhostUnchanged ==
  ASSUME WatcherTypes, UNCHANGED ghost
  PROVE  ghost' \in [Sessions -> History] /\ SameHistory
BY DEF WatcherTypes, SameHistory

LEMMA LastingHistory ==
  ASSUME WatcherTypes, NEW ls, NEW t, Lasting(ls, t)
  PROVE  ghost' \in [Sessions -> History] /\ SameHistory
<1>1. ASSUME NEW w \in Sessions
      PROVE  [ghost[w] EXCEPT !.told = @ \intersect Overlaps(ls, t)] \in History
  <2>1. ghost[w] \in History
    BY DEF WatcherTypes
  <2>2. ghost[w].told \intersect Overlaps(ls, t) \in SUBSET Clash
    BY <2>1 DEF History
  <2> DEFINE x == ghost[w].told \intersect Overlaps(ls, t)
  <2>3. [ghost[w] EXCEPT !.told = @ \intersect Overlaps(ls, t)] = [ghost[w] EXCEPT !.told = x]
    OBVIOUS
  <2> HIDE DEF x
  <2>4. [ghost[w] EXCEPT !.told = x] \in History
    BY <2>1, <2>2 DEF History, x
  <2> QED BY <2>3, <2>4
<1>2. ghost' \in [Sessions -> History]
  BY <1>1 DEF Lasting
<1>3. SameHistory
  <2>1. ASSUME NEW w \in Sessions
        PROVE  /\ ghost'[w].base = ghost[w].base /\ ghost'[w].lost = ghost[w].lost
               /\ ghost'[w].rebuilt = ghost[w].rebuilt
    <3>1. /\ ghost[w] \in History
          /\ ghost'[w] = [ghost[w] EXCEPT !.told = @ \intersect Overlaps(ls, t)]
      BY DEF WatcherTypes, Lasting
    <3> QED BY <3>1 DEF History
  <2> QED BY <2>1 DEF SameHistory
<1> QED BY <1>2, <1>3

(* A turn by a person, or one that answers a wake-up *)
LEMMA TurnTypes ==
  ASSUME StoreTypes, NEW s \in Sessions, member[s] # Gone
  PROVE  HumanTurn(s) \in Turn /\ AnswerTurn(s) \in Turn
<1>1. member[s].ws \in Workstreams
  BY DEF StoreTypes, Membership
<1>2. (s \in Claude) \in BOOLEAN
  OBVIOUS
<1>3. PICK b \in BOOLEAN : b = (s \in Claude)
  BY <1>2
<1>4. /\ (IF s \in Claude THEN "human" ELSE "none") \in {"human", "task", "none"}
      /\ (IF s \in Claude THEN "task" ELSE "none") \in {"human", "task", "none"}
  OBVIOUS
<1>5. HumanTurn(s) \in Turn
  BY <1>1, <1>2, <1>4 DEF HumanTurn, Turn
<1>6. AnswerTurn(s) \in Turn
  BY <1>1, <1>4 DEF AnswerTurn, Turn
<1> QED BY <1>5, <1>6

-----------------------------------------------------------------------------
(* The actions of the store *)

LEMMA TickStep ==
  ASSUME WatchInv, Tick PROVE WatchInv'
<1>1. StoreTypes /\ WatcherTypes /\ MaxTime \in Nat
  BY WatchAssumption DEF WatchInv
<1>2. /\ now' = now + 1 /\ now < MaxTime /\ Lasting(lease, now')
      /\ UNCHANGED <<scene, faults, eng, out, member, turns, feed, marker, lease>>
  BY DEF Tick, Unobserved
<1>3. StoreTypes'
  BY <1>1, <1>2 DEF StoreTypes
<1>4. Grown
  BY <1>1, <1>2, StoreUnchanged
<1> QED BY <1>1, <1>2, <1>3, <1>4, LastingHistory, GrowStep

LEMMA JoinStep ==
  ASSUME WatchInv, NEW s \in Sessions, NEW ws \in Workstreams, Join(s, ws)
  PROVE  WatchInv'
<1>1. StoreTypes /\ WatcherTypes
  BY DEF WatchInv
<1>2. UNCHANGED <<scene, faults, eng, out, now, turns, feed, marker, lease, ghost>>
  BY DEF Join, Unobserved
<1> DEFINE epoch == IF member[s] = Gone THEN 1 ELSE member[s].epoch + 1
           base == [f \in Sessions |-> Published(f)]
<1>3. epoch \in Nat
  BY <1>1 DEF StoreTypes, Membership
<1>4. base \in [Sessions -> Nat]
  BY <1>1 DEF StoreTypes, Published
<1>5. member' = [member EXCEPT ![s] = [ws |-> ws, epoch |-> epoch, base |-> base]]
  BY DEF Join
<1> HIDE DEF epoch, base
<1>6. [ws |-> ws, epoch |-> epoch, base |-> base] \in Membership
  BY <1>3, <1>4 DEF Membership
<1>7. member' \in [Sessions -> Membership \union {Gone}]
  BY <1>1, <1>5, <1>6 DEF StoreTypes
<1>8. StoreTypes'
  BY <1>1, <1>2, <1>7 DEF StoreTypes
<1> QED BY <1>1, <1>2, <1>8, StoreUnchanged, GhostUnchanged, GrowStep

LEMMA PublishStep ==
  ASSUME WatchInv, NEW s \in Sessions, Publish(s) PROVE WatchInv'
<1>1. StoreTypes /\ WatcherTypes
  BY DEF WatchInv
<1>2. /\ UNCHANGED <<scene, faults, eng, out, now, member, marker, lease, ghost>>
      /\ member[s] # Gone /\ Len(turns[s]) < MaxTurns
      /\ turns' = [turns EXCEPT ![s] = Append(@, HumanTurn(s))]
      /\ feed' = [feed EXCEPT ![s] = Len(turns[s]) + 1]
  BY DEF Publish, Unobserved
<1>3. PICK t \in Turn : t = HumanTurn(s)
  BY <1>1, <1>2, TurnTypes
<1>4. StoreTypes' /\ Grown
  BY <1>1, <1>2, <1>3, AppendStep
<1> QED BY <1>1, <1>2, <1>4, GhostUnchanged, GrowStep

LEMMA WokenType ==
  ASSUME NEW g \in History, NEW b \in BOOLEAN
  PROVE  [g EXCEPT !.woken = b] \in History
BY DEF History

LEMMA AnswerStep ==
  ASSUME WatchInv, NEW s \in Sessions, Answer(s) PROVE WatchInv'
<1>1. StoreTypes /\ WatcherTypes
  BY DEF WatchInv
<1>2. /\ UNCHANGED <<scene, faults, eng, out, now, member, marker, lease>>
      /\ member[s] # Gone /\ Len(turns[s]) < MaxTurns
      /\ turns' = [turns EXCEPT ![s] = Append(@, AnswerTurn(s))]
      /\ feed' = [feed EXCEPT ![s] = Len(turns[s]) + 1]
      /\ ghost' = [ghost EXCEPT ![s].woken = FALSE]
  BY DEF Answer, Unobserved
<1>3. PICK t \in Turn : t = AnswerTurn(s)
  BY <1>1, <1>2, TurnTypes
<1>4. StoreTypes' /\ Grown
  BY <1>1, <1>2, <1>3, AppendStep
<1>5. ghost' \in [Sessions -> History]
  <2>1. FALSE \in BOOLEAN /\ ghost[s] \in History /\ ghost \in [Sessions -> History]
    BY <1>1 DEF WatcherTypes
  <2>2. [ghost[s] EXCEPT !.woken = FALSE] \in History
    BY <2>1, WokenType
  <2>3. ghost' = [ghost EXCEPT ![s] = [ghost[s] EXCEPT !.woken = FALSE]]
    BY <1>2, <2>1
  <2> QED BY <2>1, <2>2, <2>3
<1>6. SameHistory
  BY <1>1, <1>2 DEF WatcherTypes, History, SameHistory
<1> QED BY <1>1, <1>2, <1>4, <1>5, <1>6, GrowStep

(* A feed is deleted, or written again up to what it lacks. *)
LEMMA FeedStep ==
  ASSUME WatchInv, NEW s \in Sessions, DeleteFeed(s) \/ Rebuild(s) PROVE WatchInv'
<1>1. StoreTypes /\ WatcherTypes /\ MaxFaults \in Nat
  BY WatchAssumption DEF WatchInv
<1>2. UNCHANGED <<scene, eng, out, now, member, turns, marker, lease, ghost>>
  BY DEF DeleteFeed, Rebuild, Unobserved
<1>3. faults' \in 0..MaxFaults
  BY <1>1 DEF DeleteFeed, Rebuild, Unobserved, StoreTypes
<1>4. PICK n \in Nat \union {Gone} : /\ feed' = [feed EXCEPT ![s] = n]
                                     /\ n # Gone => n <= Len(turns[s])
  <2>1. CASE DeleteFeed(s)
    BY <2>1 DEF DeleteFeed
  <2>2. CASE Rebuild(s)
    <3>1. Published(s) \in Nat /\ Len(turns[s]) \in Nat
      BY <1>1 DEF StoreTypes, Published
    <3>2. Published(s) + 1 \in Nat /\ Published(s) + 1 <= Len(turns[s])
      BY <2>2, <3>1 DEF Rebuild
    <3>3. feed' = [feed EXCEPT ![s] = Published(s) + 1]
      BY <2>2 DEF Rebuild
    <3> QED BY <3>2, <3>3
  <2> QED BY <2>1, <2>2
<1>5. /\ feed' \in [Sessions -> Nat \union {Gone}]
      /\ \A r \in Sessions : feed'[r] # Gone => feed'[r] <= Len(turns[r])
  BY <1>1, <1>4 DEF StoreTypes
<1>6. StoreTypes'
  BY <1>1, <1>2, <1>3, <1>5 DEF StoreTypes
<1> QED BY <1>1, <1>2, <1>6, StoreUnchanged, GhostUnchanged, GrowStep

LEMMA MarkerStep ==
  ASSUME WatchInv, NEW i \in Incidents,
         CreateMarker(i) \/ \E ws \in Workstreams \union {NoScope} : WriteMarker(i, ws)
  PROVE  WatchInv'
<1>1. StoreTypes /\ WatcherTypes
  BY DEF WatchInv
<1>2. UNCHANGED <<scene, faults, eng, out, now, member, turns, feed, lease, ghost>>
  BY DEF CreateMarker, WriteMarker, Unobserved
<1>3. PICK m \in Workstreams \union {NoScope, "empty"} :
         marker' = [marker EXCEPT ![i] = m] /\ marker[i] \in {Gone, "empty"}
  BY DEF CreateMarker, WriteMarker
<1>4. StoreTypes'
  BY <1>1, <1>2, <1>3 DEF StoreTypes
<1>5. Grown
  BY <1>1, <1>2, <1>3, StoreUnchanged DEF StoreTypes
<1> QED BY <1>1, <1>2, <1>4, <1>5, GhostUnchanged, GrowStep

(* A lease, whatever its hook writes *)
LEMMA PutLeaseStep ==
  ASSUME WatchInv, NEW a \in Actors, NEW l \in LeaseRecord \union {Gone}, PutLease(a, l)
  PROVE  WatchInv'
<1>1. StoreTypes /\ WatcherTypes
  BY DEF WatchInv
<1>2. /\ UNCHANGED <<scene, faults, eng, out, now, member, turns, feed, marker>>
      /\ lease' = [lease EXCEPT ![a] = l] /\ Lasting(lease', now)
  BY DEF PutLease, Unobserved
<1>3. StoreTypes'
  BY <1>1, <1>2 DEF StoreTypes
<1> QED BY <1>1, <1>2, <1>3, StoreUnchanged, LastingHistory, GrowStep

LEMMA LeaseTypes ==
  ASSUME StoreTypes, NEW state \in {"working", "idle"}, NEW ws \in Workstreams,
         NEW claim \in BOOLEAN, NEW unknown \in BOOLEAN
  PROVE  [state |-> state, rev |-> now, exp |-> now + TTL, ws |-> ws,
          claim |-> claim, unknown |-> unknown] \in LeaseRecord
<1>1. now \in 0..MaxTime /\ now + TTL \in 0..MaxTime + TTL
  BY WatchAssumption DEF StoreTypes
<1> QED BY <1>1 DEF LeaseRecord

LEMMA LeaseStep ==
  ASSUME WatchInv, NEW a \in Actors,
         \/ \E claim, unknown \in BOOLEAN : Renew(a, claim, unknown)
         \/ GoIdle(a) \/ Reap(a)
  PROVE  WatchInv'
<1>1. StoreTypes
  BY DEF WatchInv
<1>2. ASSUME NEW claim \in BOOLEAN, NEW unknown \in BOOLEAN, Renew(a, claim, unknown)
      PROVE  WatchInv'
  <2>1. a[1] \in Sessions /\ member[a[1]] # Gone
    BY <1>2 DEF Renew, PutLease, Actors
  <2>2. member[a[1]].ws \in Workstreams
    BY <1>1, <2>1 DEF StoreTypes, Membership
  <2> QED BY <1>1, <1>2, <2>2, LeaseTypes, PutLeaseStep DEF Renew
<1>3. CASE GoIdle(a)
  <2>1. lease[a].ws \in Workstreams
    BY <1>1, <1>3 DEF GoIdle, StoreTypes, LeaseRecord
  <2> QED BY <1>1, <1>3, <2>1, LeaseTypes, PutLeaseStep DEF GoIdle
<1>4. CASE Reap(a)
  BY <1>4, PutLeaseStep DEF Reap
<1> QED BY <1>2, <1>3, <1>4

(* Cursors and awaits: nothing a watcher looks at *)
LEMMA AsideStep ==
  ASSUME WatchInv,
         UNCHANGED <<scene, faults, eng, out, now, member, turns, feed, marker,
                     lease, ghost>>
  PROVE  WatchInv'
<1>1. StoreTypes /\ WatcherTypes
  BY DEF WatchInv
<1>2. StoreTypes'
  BY <1>1 DEF StoreTypes
<1> QED BY <1>1, <1>2, StoreUnchanged, GhostUnchanged, GrowStep

LEMMA AwaitStep ==
  ASSUME WatchInv, (\E s \in Sessions : StartAwait(s)) \/ Await \/ FailScan
  PROVE  WatchInv'
<1>1. UNCHANGED <<scene, store, faults, eng, out, ghost>>
  BY DEF StartAwait, Await, FailScan, CheckBound, ReadEpoch, ScanUnread, CheckEpoch,
         CheckTime, AwaitWakes, Awaiting
<1> QED BY <1>1, AsideStep DEF store

LEMMA StoreActs ==
  ASSUME WatchInv, Store PROVE WatchInv'
<1>1. ASSUME NEW s \in Sessions, ResetCursor(s) \/ ReadTurns(s) PROVE WatchInv'
  BY <1>1, AsideStep DEF ResetCursor, ReadTurns, Unobserved
<1> QED BY <1>1, TickStep, JoinStep, PublishStep, AnswerStep, FeedStep, MarkerStep,
           LeaseStep DEF Store


-----------------------------------------------------------------------------
(* Steps of a watcher: its new memory d, history h and printed events p fit
   the store, which the step leaves alone. *)

LEMMA WatcherStep ==
  ASSUME WatchInv, NEW w \in Sessions, UNCHANGED <<scene, store>>,
         faults' \in 0..MaxFaults,
         NEW d \in Memory, NEW h \in History, NEW p \in SUBSET Events,
         eng' = [eng EXCEPT ![w] = d], ghost' = [ghost EXCEPT ![w] = h],
         out' = [out EXCEPT ![w] = p], Remembers(w, d, h, p)
  PROVE  WatchInv'
<1>1. /\ StoreTypes /\ WatcherTypes
      /\ UNCHANGED <<scene, now, member, turns, feed, marker, lease>>
  BY DEF WatchInv, store
<1>2. StoreTypes'
  BY <1>1 DEF StoreTypes
<1>3. WatcherTypes'
  BY <1>1 DEF WatcherTypes
<1>4. ASSUME NEW v \in Sessions PROVE Remembers(v, eng[v], ghost[v], out[v])'
  <2>1. PICK e \in Memory, g \in History, o \in SUBSET Events :
            e = eng'[v] /\ g = ghost'[v] /\ o = out'[v]
    BY <1>3 DEF WatcherTypes
  <2>2. Remembers(v, e, g, o)
    <3>1. CASE v = w
      <4>1. e = d /\ g = h /\ o = p
        BY <1>1, <2>1, <3>1 DEF WatcherTypes
      <4> QED BY <3>1, <4>1
    <3>2. CASE v # w
      <4>1. e = eng[v] /\ g = ghost[v] /\ o = out[v]
        BY <1>1, <2>1, <3>2 DEF WatcherTypes
      <4> QED BY <4>1 DEF WatchInv
    <3> QED BY <3>1, <3>2
  <2>3. Remembers(v, e, g, o)'
    BY <1>1, <2>2 DEF Remembers, Bounds, JoinsTold, IncidentsTold, TurnsTold, Told, InScope
  <2> QED BY <2>1, <2>3 DEF Remembers, Bounds, JoinsTold, IncidentsTold, TurnsTold, Told
<1> QED BY <1>2, <1>3, <1>4 DEF WatchInv

(* The parts of a watcher before its step *)
LEMMA WatcherBefore ==
  ASSUME WatchInv, NEW w \in Sessions
  PROVE  \E e \in Memory, g \in History, o \in SUBSET Events :
            /\ e = eng[w] /\ g = ghost[w] /\ o = out[w] /\ Remembers(w, e, g, o)
BY DEF WatchInv, WatcherTypes

LEMMA StartPollStep ==
  ASSUME WatchInv, NEW w \in Sessions, StartPoll(w) PROVE WatchInv'
<1>1. StoreTypes /\ WatcherTypes
  BY DEF WatchInv
<1>2. PICK e \in Memory, g \in History, o \in SUBSET Events :
         /\ e = eng[w] /\ g = ghost[w] /\ o = out[w] /\ Remembers(w, e, g, o)
  BY WatcherBefore
<1>3. PICK t \in Nat : t = now
  BY <1>1 DEF StoreTypes
<1> DEFINE d == [e EXCEPT !.pc = "joins", !.at = t]
           h == IF e.pc = "sleep" THEN g ELSE [g EXCEPT !.armed = t]
<1>4. /\ d \in Memory /\ d.pc = "joins" /\ d.primed = e.primed /\ d.errors = e.errors
      /\ d.sink = e.sink /\ d.cur = e.cur /\ d.known = e.known /\ d.seen = e.seen
  BY DEF Memory
<1>5. /\ h \in History /\ h.base = g.base /\ h.lost = g.lost /\ h.rebuilt = g.rebuilt
  BY DEF History
<1>6. /\ e.pc \in {"start", "sleep"} /\ eng' = [eng EXCEPT ![w] = d]
      /\ ghost' = [ghost EXCEPT ![w] = h] /\ out' = [out EXCEPT ![w] = o]
      /\ UNCHANGED <<scene, store, faults>>
  BY <1>1, <1>2, <1>3 DEF StartPoll, Observing, WatcherTypes
<1> HIDE DEF d, h
<1>7. Told(d, h, o) = Told(e, g, o)
  BY <1>4, <1>5 DEF Told
<1>8. Remembers(w, d, h, o)
  BY <1>2, <1>4, <1>5, <1>6, <1>7
     DEF Remembers, Bounds, JoinsTold, IncidentsTold, TurnsTold
<1>9. faults' \in 0..MaxFaults
  BY <1>1, <1>6 DEF StoreTypes
<1> QED BY <1>4, <1>5, <1>6, <1>8, <1>9, WatcherStep

(* The events a scan collects *)
LEMMA CollectTypes ==
  ASSUME WatchInv, NEW w \in Sessions, NEW found \in SUBSET Events
  PROVE  /\ Collect(w, found) \in SUBSET Events
         /\ eng[w].primed => Collect(w, found) = eng[w].sink \union found
         /\ ~eng[w].primed => Collect(w, found) = {}
<1>1. eng[w].sink \in SUBSET Events
  BY DEF WatchInv, WatcherTypes, Memory
<1> QED BY <1>1 DEF Collect

LEMMA JoinsTypes ==
  ASSUME StoreTypes
  PROVE  /\ Joined \in SUBSET (Sessions \X Workstreams)
         /\ \A J \in SUBSET Joined : {<<"join", j[1], j[2]>> : j \in J} \in SUBSET Events
<1>1. Joined \in SUBSET (Sessions \X Workstreams)
  BY DEF StoreTypes, Joined, Membership
<1>2. ASSUME NEW J \in SUBSET Joined
      PROVE  {<<"join", j[1], j[2]>> : j \in J} \in SUBSET Events
  BY <1>1 DEF Events
<1> QED BY <1>1, <1>2

LEMMA ScanJoinsStep ==
  ASSUME WatchInv, NEW w \in Sessions, ScanJoins(w) PROVE WatchInv'
<1>1. StoreTypes /\ WatcherTypes
  BY DEF WatchInv
<1>2. PICK e \in Memory, g \in History, o \in SUBSET Events :
         /\ e = eng[w] /\ g = ghost[w] /\ o = out[w] /\ Remembers(w, e, g, o)
  BY WatcherBefore
<1> DEFINE told == {j \in Joined \ e.known : j[1] # w /\ InScope(j[2])}
           found == {<<"join", j[1], j[2]>> : j \in told}
           all == {<<"join", j[1], j[2]>> : j \in Joined}
           k == e.known \union (Joined \ e.known)
           l == Listed(w)
           c == Collect(w, found)
           d == [e EXCEPT !.pc = "feeds", !.known = k, !.listed = l, !.left = l,
                          !.sink = c]
           b == g.base \union all
           h == IF e.primed THEN g ELSE [g EXCEPT !.base = b]
<1>3. found \in SUBSET Events /\ all \in SUBSET Events
  BY <1>1, JoinsTypes
<1>4. /\ k \in SUBSET (Sessions \X Workstreams) /\ b \in SUBSET Events
  BY <1>1, <1>3, JoinsTypes DEF Memory, History
<1>5. l \subseteq Sessions \ {w}
  BY DEF Listed
<1>6. /\ c \in SUBSET Events
      /\ e.primed => c = e.sink \union found
      /\ ~e.primed => c = {}
  BY <1>2, <1>3, CollectTypes
<1>7. /\ \A j \in k : j \in e.known \/ (j \in Joined /\ j \notin e.known)
      /\ \A j \in Joined : <<"join", j[1], j[2]>> \in all
      /\ \A j \in Joined \ e.known :
            j[1] = w \/ ~InScope(j[2]) \/ <<"join", j[1], j[2]>> \in found
  OBVIOUS
<1>8. /\ e.pc = "joins" /\ eng' = [eng EXCEPT ![w] = d]
      /\ ghost' = [ghost EXCEPT ![w] = h] /\ out' = [out EXCEPT ![w] = o]
      /\ UNCHANGED <<scene, store, faults>>
  BY <1>1, <1>2 DEF ScanJoins, Observing, WatcherTypes
<1> HIDE DEF told, found, all, k, l, c
<1>9. /\ d \in Memory /\ d.pc = "feeds" /\ d.primed = e.primed /\ d.errors = e.errors
      /\ d.sink = c /\ d.cur = e.cur /\ d.known = k /\ d.seen = e.seen /\ d.left = l
  BY <1>4, <1>5, <1>6 DEF Memory
<1>10. /\ h \in History /\ h.lost = g.lost /\ h.rebuilt = g.rebuilt
       /\ h.base = IF e.primed THEN g.base ELSE b
  BY <1>4 DEF History
<1>11. b = g.base \union all
  OBVIOUS
<1> HIDE DEF d, h, b
<1>12. Bounds(w, d)
  BY <1>2, <1>5, <1>6, <1>8, <1>9 DEF Remembers, Bounds
<1>13. Told(e, g, o) \subseteq Told(d, h, o)
  BY <1>2, <1>6, <1>9, <1>10, <1>11 DEF Told, Remembers, Bounds
<1>14. JoinsTold(w, d, h, o)
  <2>1. ASSUME NEW j \in k
        PROVE  j[1] = w \/ ~InScope(j[2]) \/ <<"join", j[1], j[2]>> \in Told(d, h, o)
    <3>1. CASE j \in e.known
      BY <1>2, <1>13, <3>1 DEF Remembers, JoinsTold
    <3>2. CASE j \notin e.known /\ e.primed
      BY <1>6, <1>7, <1>9, <3>2 DEF Told
    <3>3. CASE j \notin e.known /\ ~e.primed
      BY <1>7, <1>10, <1>11, <3>3 DEF Told
    <3> QED BY <3>1, <3>2, <3>3
  <2> QED BY <1>9, <2>1 DEF JoinsTold
<1>15. IncidentsTold(d, h, o)
  BY <1>2, <1>9, <1>13 DEF Remembers, IncidentsTold
<1>16. TurnsTold(d, h, o)
  BY <1>2, <1>9, <1>10, <1>13 DEF Remembers, TurnsTold
<1>17. faults' \in 0..MaxFaults /\ Remembers(w, d, h, o)
  BY <1>1, <1>8, <1>12, <1>14, <1>15, <1>16 DEF StoreTypes, Remembers
<1> QED BY <1>8, <1>9, <1>10, <1>17, WatcherStep


LEMMA NewsTypes ==
  ASSUME StoreTypes, NEW w \in Sessions, NEW s \in Sessions, NEW from \in Nat,
         NEW to \in Nat, to <= Len(turns[s])
  PROVE  /\ News(w, s, from, to) \in SUBSET Events
         /\ {<<"turn", s, n>> : n \in 1..to} \in SUBSET Events
         /\ \A n \in 1..to : \/ n <= from \/ IsEchoTurn(turns[s][n])
                             \/ ~InScope(turns[s][n].ws)
                             \/ <<"turn", s, n>> \in News(w, s, from, to)
<1>1. Len(turns[s]) \in Nat /\ Len(turns[s]) <= MaxTurns /\ MaxTurns \in Nat
  BY WatchAssumption DEF StoreTypes
<1>2. \A n \in 1..to : <<"turn", s, n>> \in Events
  BY <1>1 DEF Events
<1>3. \A n \in from + 1 .. to : n \in 1..to
  OBVIOUS
<1>4. News(w, s, from, to) \in SUBSET Events
  BY <1>2, <1>3 DEF News
<1>5. \A n \in 1..to : n <= from \/ n \in from + 1 .. to
  OBVIOUS
<1> QED BY <1>2, <1>4, <1>5 DEF News

LEMMA ConsumeFeedStep ==
  ASSUME WatchInv, NEW w \in Sessions, NEW s \in Sessions, ConsumeFeed(w, s)
  PROVE  WatchInv'
<1>1. StoreTypes /\ WatcherTypes
  BY DEF WatchInv
<1>2. PICK e \in Memory, g \in History, o \in SUBSET Events :
         /\ e = eng[w] /\ g = ghost[w] /\ o = out[w] /\ Remembers(w, e, g, o)
  BY WatcherBefore
<1>3. /\ e.cur \in [Sessions -> Nat] /\ e.left \in SUBSET (Sessions \union Actors)
      /\ e.sink \in SUBSET Events /\ g.base \in SUBSET Events
      /\ g.rebuilt \in SUBSET Sessions
  BY DEF Memory, History
<1>4. PICK f \in Nat \union {Gone} : f = feed[s] /\ (f # Gone => f <= Len(turns[s]))
  BY <1>1 DEF StoreTypes
<1> DEFINE from == e.cur[s]
           rebuilt == f # Gone /\ f < from
           l == e.left \ {s}
           q == IF f = Gone THEN from ELSE f
           u == [e.cur EXCEPT ![s] = q]
           k == IF f = Gone \/ rebuilt THEN e.sink ELSE Collect(w, News(w, s, from, f))
           d == [e EXCEPT !.left = l, !.cur = u, !.sink = k]
           r == g.rebuilt \union {s}
           b == g.base \union {<<"turn", s, n>> : n \in 1..f}
           h == IF rebuilt THEN [g EXCEPT !.rebuilt = r]
                ELSE IF e.primed \/ f = Gone THEN g
                ELSE [g EXCEPT !.base = b]
<1>5. from \in Nat /\ l \in SUBSET (Sessions \union Actors) /\ r \in SUBSET Sessions
  BY <1>3
<1>6. q \in Nat /\ u \in [Sessions -> Nat]
  <2>1. q \in Nat
    BY <1>5
  <2> HIDE DEF q
  <2> QED BY <1>3, <2>1
<1>7. f # Gone => b \in SUBSET Events
  BY <1>1, <1>3, <1>4, <1>5, NewsTypes
<1>8. /\ k \in SUBSET Events
      /\ e.primed => e.sink \subseteq k
      /\ ~e.primed => k = {}
      /\ ~(f = Gone \/ rebuilt) /\ e.primed => News(w, s, from, f) \subseteq k
  <2>1. CASE f = Gone \/ rebuilt
    BY <1>2, <1>3, <2>1 DEF Remembers, Bounds
  <2>2. CASE ~(f = Gone \/ rebuilt)
    <3>1. News(w, s, from, f) \in SUBSET Events
      BY <1>1, <1>4, <1>5, <2>2, NewsTypes
    <3> QED BY <1>2, <2>2, <3>1, CollectTypes
  <2> QED BY <2>1, <2>2
<1>9. /\ e.pc = "feeds" /\ s \in e.left
      /\ UNCHANGED <<scene, store, faults>>
  BY <1>2 DEF ConsumeFeed, Observing
<1>10. eng' = [eng EXCEPT ![w] = d]
  <2>1. eng' = [eng EXCEPT ![w].left = @ \ {s},
                ![w].cur[s] = IF feed[s] = Gone THEN @ ELSE feed[s],
                ![w].sink = IF feed[s] = Gone \/ (feed[s] # Gone /\ feed[s] < eng[w].cur[s])
                            THEN @
                            ELSE Collect(w, News(w, s, eng[w].cur[s], feed[s]))]
    BY DEF ConsumeFeed
  <2> QED BY <1>1, <1>2, <1>4, <2>1 DEF WatcherTypes, Memory
<1>11. ghost' = [ghost EXCEPT ![w] = h] /\ out' = [out EXCEPT ![w] = o]
  BY <1>1, <1>2, <1>4 DEF ConsumeFeed, WatcherTypes, History
<1>12. s # w
  BY <1>2, <1>9 DEF Remembers, Bounds
<1>13. /\ b = g.base \union {<<"turn", s, n>> : n \in 1..f}
       /\ r = g.rebuilt \union {s}
  OBVIOUS
<1> HIDE DEF l, u, k, r, b, q
<1>14. /\ d \in Memory /\ d.pc = "feeds" /\ d.primed = e.primed /\ d.errors = e.errors
       /\ d.sink = k /\ d.cur = u /\ d.known = e.known /\ d.seen = e.seen /\ d.left = l
  BY <1>5, <1>6, <1>8, <1>9 DEF Memory
<1>15. /\ h \in History /\ h.lost = g.lost
       /\ h.rebuilt = IF rebuilt THEN r ELSE g.rebuilt
       /\ h.base = IF rebuilt \/ e.primed \/ f = Gone THEN g.base ELSE b
  BY <1>5, <1>7 DEF History
<1> HIDE DEF d, h
<1>16. Told(e, g, o) \subseteq Told(d, h, o)
  BY <1>2, <1>8, <1>13, <1>14, <1>15 DEF Told, Remembers, Bounds
<1>17. /\ u[s] = q /\ \A v \in Sessions \ {s} : u[v] = e.cur[v]
  BY <1>3 DEF u
<1>18. Bounds(w, d)
  <2>1. \A v \in Sessions : u[v] <= Len(turns[v])
    <3>1. q <= Len(turns[s])
      BY <1>2, <1>4, <1>5 DEF q, Remembers, Bounds
    <3> QED BY <1>2, <1>17, <3>1 DEF Remembers, Bounds
  <2>2. l \subseteq Sessions \ {w} /\ u[w] = 0
    BY <1>2, <1>9, <1>12, <1>17 DEF Remembers, Bounds, l
  <2> QED BY <1>2, <1>8, <1>9, <1>14, <2>1, <2>2 DEF Remembers, Bounds
<1>19. JoinsTold(w, d, h, o)
  BY <1>2, <1>14, <1>16 DEF Remembers, JoinsTold
<1>20. IncidentsTold(d, h, o)
  BY <1>2, <1>14, <1>16 DEF Remembers, IncidentsTold
<1>21. TurnsTold(d, h, o)
  <2> SUFFICES ASSUME NEW v \in Sessions \ h.rebuilt, NEW n \in 1..u[v]
               PROVE  \/ <<"turn", v, n>> \in Told(d, h, o)
                      \/ IsEchoTurn(turns[v][n]) \/ ~InScope(turns[v][n].ws)
    BY <1>14 DEF TurnsTold
  <2>1. v \in Sessions \ g.rebuilt
    BY <1>13, <1>15
  <2>2. n \in 1..e.cur[v] => \/ <<"turn", v, n>> \in Told(d, h, o)
                             \/ IsEchoTurn(turns[v][n]) \/ ~InScope(turns[v][n].ws)
    BY <1>2, <1>16, <2>1 DEF Remembers, TurnsTold
  <2>3. CASE v # s \/ f = Gone
    BY <1>17, <2>2, <2>3 DEF q
  <2>4. CASE v = s /\ f # Gone
    <3>1. ~rebuilt /\ f \in Nat /\ n \in 1..f
      BY <1>13, <1>15, <1>17, <2>4 DEF q
    <3>2. \/ n <= from \/ IsEchoTurn(turns[s][n]) \/ ~InScope(turns[s][n].ws)
          \/ <<"turn", s, n>> \in News(w, s, from, f)
      BY <1>1, <1>4, <1>5, <2>4, <3>1, NewsTypes
    <3>3. CASE n <= from
      BY <1>5, <2>2, <2>4, <3>1, <3>3
    <3>4. CASE <<"turn", s, n>> \in News(w, s, from, f) /\ e.primed
      BY <1>8, <1>14, <2>4, <3>1, <3>4 DEF Told
    <3>5. CASE ~e.primed
      BY <1>13, <1>15, <2>4, <3>1, <3>5 DEF Told
    <3> QED BY <2>4, <3>2, <3>3, <3>4, <3>5
  <2> QED BY <2>3, <2>4
<1>22. faults' \in 0..MaxFaults /\ Remembers(w, d, h, o)
  BY <1>1, <1>9, <1>18, <1>19, <1>20, <1>21 DEF StoreTypes, Remembers
<1> QED BY <1>9, <1>10, <1>11, <1>14, <1>15, <1>22, WatcherStep

LEMMA EndFeedsStep ==
  ASSUME WatchInv, NEW w \in Sessions, EndFeeds(w) PROVE WatchInv'
<1>1. StoreTypes /\ WatcherTypes
  BY DEF WatchInv
<1>2. PICK e \in Memory, g \in History, o \in SUBSET Events :
         /\ e = eng[w] /\ g = ghost[w] /\ o = out[w] /\ Remembers(w, e, g, o)
  BY WatcherBefore
<1>3. e.cur \in [Sessions -> Nat] /\ g.rebuilt \in SUBSET Sessions
  BY DEF Memory, History
<1> DEFINE dropped == {s \in Sessions : e.cur[s] > 0} \ e.listed
           u == [s \in Sessions |-> IF s \in dropped THEN 0 ELSE e.cur[s]]
           d == [e EXCEPT !.pc = "incidents", !.listed = {}, !.cur = u]
           r == g.rebuilt \union dropped
           h == [g EXCEPT !.rebuilt = r]
<1>4. u \in [Sessions -> Nat] /\ r \in SUBSET Sessions
  BY <1>3
<1>5. \A s \in Sessions : /\ u[s] = 0 \/ u[s] = e.cur[s]
                          /\ s \notin r => u[s] = e.cur[s]
  OBVIOUS
<1>6. /\ eng' = [eng EXCEPT ![w] = d]
      /\ ghost' = [ghost EXCEPT ![w] = h] /\ out' = [out EXCEPT ![w] = o]
      /\ e.pc = "feeds" /\ UNCHANGED <<scene, store, faults>>
  BY <1>1, <1>2 DEF EndFeeds, Observing, WatcherTypes, Memory, History
<1>7. g.rebuilt \subseteq r
  OBVIOUS
<1> HIDE DEF u, r, dropped
<1>8. /\ d \in Memory /\ d.pc = "incidents" /\ d.primed = e.primed
      /\ d.errors = e.errors /\ d.sink = e.sink /\ d.cur = u /\ d.known = e.known
      /\ d.seen = e.seen
  BY <1>4 DEF Memory
<1>9. h \in History /\ h.base = g.base /\ h.lost = g.lost /\ h.rebuilt = r
  BY <1>4 DEF History
<1> HIDE DEF d, h
<1>10. Told(d, h, o) = Told(e, g, o)
  BY <1>8, <1>9 DEF Told
<1>11. Bounds(w, d)
  <2>1. ASSUME NEW s \in Sessions PROVE u[s] <= Len(turns[s])
    <3>1. Len(turns[s]) \in Nat /\ e.cur[s] <= Len(turns[s])
      BY <1>1, <1>2 DEF Remembers, Bounds, StoreTypes
    <3> QED BY <1>5, <3>1
  <2>2. u[w] = 0
    BY <1>2, <1>5 DEF Remembers, Bounds
  <2> QED BY <1>2, <1>6, <1>8, <2>1, <2>2 DEF Remembers, Bounds
<1>12. TurnsTold(d, h, o)
  BY <1>2, <1>5, <1>7, <1>8, <1>9, <1>10 DEF Remembers, TurnsTold
<1>13. faults' \in 0..MaxFaults /\ Remembers(w, d, h, o)
  BY <1>1, <1>2, <1>6, <1>8, <1>10, <1>11, <1>12
     DEF StoreTypes, Remembers, JoinsTold, IncidentsTold
<1> QED BY <1>6, <1>8, <1>9, <1>13, WatcherStep


LEMMA ScanIncidentsStep ==
  ASSUME WatchInv, NEW w \in Sessions, ScanIncidents(w) PROVE WatchInv'
<1>1. StoreTypes /\ WatcherTypes
  BY DEF WatchInv
<1>2. PICK e \in Memory, g \in History, o \in SUBSET Events :
         /\ e = eng[w] /\ g = ghost[w] /\ o = out[w] /\ Remembers(w, e, g, o)
  BY WatcherBefore
<1>3. /\ e.seen \in SUBSET Incidents /\ g.base \in SUBSET Events
      /\ e.sink \in SUBSET Events
  BY DEF Memory, History
<1> DEFINE complete == {i \in Incidents : marker[i] \notin {Gone, "empty"}}
           new == complete \ e.seen
           left == {a \in Actors : lease[a] # Gone}
           snap == [a \in Actors |-> Gone]
           found == {<<"incident", i>> : i \in
                        {j \in new : marker[j] = NoScope \/ InScope(marker[j])}}
           all == {<<"incident", i>> : i \in complete}
           k == e.seen \union new
           c == Collect(w, found)
           d == [e EXCEPT !.pc = "leases", !.seen = k, !.left = left, !.snap = snap,
                          !.sink = c]
           b == g.base \union all
           h == IF e.primed THEN g ELSE [g EXCEPT !.base = b]
<1>4. found \in SUBSET Events /\ all \in SUBSET Events
  BY DEF Events
<1>5. /\ k \in SUBSET Incidents /\ b \in SUBSET Events
      /\ left \in SUBSET (Sessions \union Actors)
      /\ snap \in [Actors -> LeaseRecord \union {Gone}]
  BY <1>3, <1>4
<1>6. /\ c \in SUBSET Events
      /\ e.primed => c = e.sink \union found
      /\ ~e.primed => c = {}
  BY <1>2, <1>4, CollectTypes
<1>7. \A i \in k : \/ i \in e.seen
                   \/ /\ marker[i] \notin {Gone, "empty"} /\ <<"incident", i>> \in all
                      /\ \/ marker[i] # NoScope /\ ~InScope(marker[i])
                         \/ <<"incident", i>> \in found
  OBVIOUS
<1>8. /\ e.pc = "incidents" /\ eng' = [eng EXCEPT ![w] = d]
      /\ ghost' = [ghost EXCEPT ![w] = h] /\ out' = [out EXCEPT ![w] = o]
      /\ UNCHANGED <<scene, store, faults>>
  BY <1>1, <1>2 DEF ScanIncidents, Observing, WatcherTypes
<1>9. b = g.base \union all
  OBVIOUS
<1> HIDE DEF complete, new, left, snap, found, all, k, c, b
<1>10. /\ d \in Memory /\ d.pc = "leases" /\ d.primed = e.primed /\ d.errors = e.errors
       /\ d.sink = c /\ d.cur = e.cur /\ d.known = e.known /\ d.seen = k
  BY <1>5, <1>6 DEF Memory
<1>11. /\ h \in History /\ h.lost = g.lost /\ h.rebuilt = g.rebuilt
       /\ h.base = IF e.primed THEN g.base ELSE b
  BY <1>5 DEF History
<1> HIDE DEF d, h
<1>12. Bounds(w, d)
  BY <1>2, <1>6, <1>8, <1>10 DEF Remembers, Bounds
<1>13. Told(e, g, o) \subseteq Told(d, h, o)
  BY <1>2, <1>6, <1>9, <1>10, <1>11 DEF Told, Remembers, Bounds
<1>14. IncidentsTold(d, h, o)
  <2>1. ASSUME NEW i \in k
        PROVE  /\ marker[i] \notin {Gone, "empty"}
               /\ \/ marker[i] # NoScope /\ ~InScope(marker[i])
                  \/ <<"incident", i>> \in Told(d, h, o)
    <3>1. CASE i \in e.seen
      BY <1>2, <1>13, <3>1 DEF Remembers, IncidentsTold
    <3>2. CASE i \notin e.seen /\ e.primed
      BY <1>6, <1>7, <1>10, <3>2 DEF Told
    <3>3. CASE i \notin e.seen /\ ~e.primed
      BY <1>7, <1>9, <1>11, <3>3 DEF Told
    <3> QED BY <3>1, <3>2, <3>3
  <2> QED BY <1>10, <2>1 DEF IncidentsTold
<1>15. JoinsTold(w, d, h, o)
  BY <1>2, <1>10, <1>13 DEF Remembers, JoinsTold
<1>16. TurnsTold(d, h, o)
  BY <1>2, <1>10, <1>11, <1>13 DEF Remembers, TurnsTold
<1>17. faults' \in 0..MaxFaults /\ Remembers(w, d, h, o)
  BY <1>1, <1>8, <1>12, <1>14, <1>15, <1>16 DEF StoreTypes, Remembers
<1> QED BY <1>8, <1>10, <1>11, <1>17, WatcherStep

LEMMA ReadLeaseStep ==
  ASSUME WatchInv, NEW w \in Sessions, NEW a \in Actors, ReadLease(w, a)
  PROVE  WatchInv'
<1>1. StoreTypes /\ WatcherTypes
  BY DEF WatchInv
<1>2. PICK e \in Memory, g \in History, o \in SUBSET Events :
         /\ e = eng[w] /\ g = ghost[w] /\ o = out[w] /\ Remembers(w, e, g, o)
  BY WatcherBefore
<1>3. PICK l \in LeaseRecord \union {Gone} : l = lease[a]
  BY <1>1 DEF StoreTypes
<1> DEFINE left == e.left \ {a}
           snap == [e.snap EXCEPT ![a] = l]
           d == [e EXCEPT !.left = left, !.snap = snap]
<1>4. /\ left \in SUBSET (Sessions \union Actors)
      /\ snap \in [Actors -> LeaseRecord \union {Gone}]
  BY DEF Memory
<1>5. /\ e.pc = "leases" /\ eng' = [eng EXCEPT ![w] = d]
      /\ ghost' = [ghost EXCEPT ![w] = g] /\ out' = [out EXCEPT ![w] = o]
      /\ UNCHANGED <<scene, store, faults>>
  BY <1>1, <1>2, <1>3 DEF ReadLease, Observing, WatcherTypes, Memory
<1> HIDE DEF left, snap
<1>6. /\ d \in Memory /\ d.pc = e.pc /\ d.primed = e.primed /\ d.errors = e.errors
      /\ d.sink = e.sink /\ d.cur = e.cur /\ d.known = e.known /\ d.seen = e.seen
  BY <1>4 DEF Memory
<1> HIDE DEF d
<1>7. Told(d, g, o) = Told(e, g, o)
  BY <1>6 DEF Told
<1>8. faults' \in 0..MaxFaults /\ Remembers(w, d, g, o)
  BY <1>1, <1>2, <1>5, <1>6, <1>7
     DEF StoreTypes, Remembers, Bounds, JoinsTold, IncidentsTold, TurnsTold
<1> QED BY <1>5, <1>6, <1>8, WatcherStep

(* Overlaps are sets of actors, each with whether its scope is known. *)
LEMMA OverlapTypes ==
  ASSUME NEW ls \in [Actors -> LeaseRecord \union {Gone}], NEW t \in Nat
  PROVE  Overlaps(ls, t) \in SUBSET Clash
<1>1. ASSUME NEW a \in Claims(ls, t)
      PROVE  a \in Actors /\ ls[a].unknown \in BOOLEAN
  <2>1. a \in Actors /\ ls[a] # Gone
    BY DEF Claims, Present
  <2> QED BY <2>1 DEF LeaseRecord
<1>2. ASSUME NEW a \in Claims(ls, t), NEW b \in Claims(ls, t)
      PROVE  Identity(ls, a, b) \in Clash
  BY <1>1 DEF Identity, Clash
<1>3. \A q \in Claims(ls, t) \X Claims(ls, t) : Identity(ls, q[1], q[2]) \in Clash
  BY <1>2
<1> QED BY <1>3 DEF Overlaps

LEMMA JudgeLeasesStep ==
  ASSUME WatchInv, NEW w \in Sessions, JudgeLeases(w) PROVE WatchInv'
<1>1. StoreTypes /\ WatcherTypes
  BY DEF WatchInv
<1>2. PICK e \in Memory, g \in History, o \in SUBSET Events :
         /\ e = eng[w] /\ g = ghost[w] /\ o = out[w] /\ Remembers(w, e, g, o)
  BY WatcherBefore
<1>3. /\ e.snap \in [Actors -> LeaseRecord \union {Gone}] /\ e.at \in Nat
      /\ e.sink \in SUBSET Events /\ e.conf \in SUBSET Clash
      /\ g.again \in SUBSET (Events \union Clash) /\ g.told \in SUBSET Clash
      /\ lease \in [Actors -> LeaseRecord \union {Gone}] /\ now \in Nat
      /\ e.leases \in [Actors -> [rev : Nat, reported : BOOLEAN] \union {Gone}]
  BY <1>1 DEF Memory, History, StoreTypes
<1> DEFINE found == Overlaps(e.snap, e.at)
           stale == {<<"stale", a, e.snap[a].rev>> :
                        a \in {b \in Actors : WorthTelling(w, b)}}
           events == Collect(w, stale)
           clash == IF e.primed THEN found \ e.conf ELSE {}
           none == [a \in Actors |-> Gone]
           lapses == [a \in Actors |->
                    IF e.snap[a] = Gone \/ a[1] = w THEN Gone
                    ELSE [rev |-> e.snap[a].rev,
                          reported |-> Lapsed(w, a) \/ Reported(w, a)]]
           d == [e EXCEPT !.pc = "sleep", !.primed = TRUE, !.sink = {}, !.errors = 0,
                          !.conf = found, !.snap = none, !.leases = lapses]
           again == g.again \union (events \intersect o)
                            \union (clash \intersect g.told)
           told == (g.told \union found) \intersect Overlaps(lease, now)
           woken == g.woken \/ events # {} \/ clash # {}
           h == [g EXCEPT !.again = again, !.told = told, !.woken = woken]
           p == o \union events
<1>4. found \in SUBSET Clash /\ Overlaps(lease, now) \in SUBSET Clash
  BY <1>3, OverlapTypes
<1>5. stale \in SUBSET Events
  <2>1. ASSUME NEW a \in Actors, WorthTelling(w, a)
        PROVE  <<"stale", a, e.snap[a].rev>> \in Events
    <3>1. e.snap[a] # Gone
      BY <1>2, <2>1 DEF WorthTelling, Lapsed
    <3>2. e.snap[a].rev \in 0..MaxTime
      BY <1>3, <3>1 DEF LeaseRecord
    <3> QED BY <3>2 DEF Events
  <2> QED BY <2>1
<1>6. /\ events \in SUBSET Events
      /\ e.primed => events = e.sink \union stale
      /\ ~e.primed => events = {}
  BY <1>2, <1>5, CollectTypes
<1>7. lapses \in [Actors -> [rev : Nat, reported : BOOLEAN] \union {Gone}]
  <2>1. ASSUME NEW a \in Actors, e.snap[a] # Gone
        PROVE  [rev |-> e.snap[a].rev, reported |-> Lapsed(w, a) \/ Reported(w, a)]
                  \in [rev : Nat, reported : BOOLEAN]
    <3>1. e.snap[a].rev \in Nat
      BY <1>3, <2>1 DEF LeaseRecord
    <3>2. Lapsed(w, a) \in BOOLEAN
      BY DEF Lapsed
    <3>3. Reported(w, a) \in BOOLEAN
      <4>1. eng[w].leases[a] # Gone => eng[w].leases[a].reported \in BOOLEAN
        BY <1>2, <1>3
      <4> QED BY <4>1 DEF Reported
    <3>4. (Lapsed(w, a) \/ Reported(w, a)) \in BOOLEAN
      BY <3>2, <3>3
    <3> QED BY <3>1, <3>4
  <2> QED BY <2>1
<1>8. /\ clash \in SUBSET Clash /\ again \in SUBSET (Events \union Clash)
      /\ told \in SUBSET Clash /\ p \in SUBSET Events
      /\ none \in [Actors -> LeaseRecord \union {Gone}]
  BY <1>3, <1>4, <1>6
<1>9. woken \in BOOLEAN
  BY DEF History
<1>10. /\ e.pc = "leases" /\ UNCHANGED <<scene, store, faults>>
  BY <1>2 DEF JudgeLeases, Observing
<1>11. eng' = [eng EXCEPT ![w] = d] /\ out' = [out EXCEPT ![w] = p]
  BY <1>1, <1>2 DEF JudgeLeases, WatcherTypes
<1>12. ghost' = [ghost EXCEPT ![w] = h]
  <2> DEFINE b == eng[w]
             all == ghost[w]
             f == Overlaps(b.snap, b.at)
             v == Collect(w, {<<"stale", a, b.snap[a].rev>> :
                                a \in {x \in Actors : WorthTelling(w, x)}})
             c == IF b.primed THEN f \ b.conf ELSE {}
             x1 == all.again \union (v \intersect out[w]) \union (c \intersect all.told)
             x2 == (all.told \union f) \intersect Overlaps(lease, now)
             x3 == all.woken \/ v # {} \/ c # {}
  <2>1. ghost' = [ghost EXCEPT ![w].again = x1, ![w].told = x2, ![w].woken = x3]
    BY DEF JudgeLeases
  <2>2. x1 = again /\ x2 = told /\ x3 = woken
    BY <1>2
  <2> HIDE DEF again, told, woken, x1, x2, x3
  <2> QED BY <1>1, <1>2, <2>1, <2>2 DEF WatcherTypes, History
<1>13. p = o \union events
  OBVIOUS
<1> HIDE DEF found, stale, events, clash, none, lapses, again, told, woken, p
<1>14. /\ d \in Memory /\ d.pc = "sleep" /\ d.primed = TRUE /\ d.errors = 0
       /\ d.sink = {} /\ d.cur = e.cur /\ d.known = e.known /\ d.seen = e.seen
  BY <1>4, <1>7, <1>8 DEF Memory
<1>15. /\ h \in History /\ h.base = g.base /\ h.lost = g.lost /\ h.rebuilt = g.rebuilt
  BY <1>8, <1>9 DEF History
<1> HIDE DEF d, h
<1>16. Told(e, g, o) \subseteq Told(d, h, p)
  BY <1>2, <1>6, <1>13, <1>14, <1>15 DEF Told, Remembers, Bounds
<1>17. Bounds(w, d)
  BY <1>2, <1>14, WatchAssumption DEF Remembers, Bounds
<1>18. faults' \in 0..MaxFaults /\ Remembers(w, d, h, p)
  <2>1. JoinsTold(w, d, h, p)
    BY <1>2, <1>14, <1>16 DEF Remembers, JoinsTold
  <2>2. IncidentsTold(d, h, p)
    BY <1>2, <1>14, <1>16 DEF Remembers, IncidentsTold
  <2>3. TurnsTold(d, h, p)
    BY <1>2, <1>14, <1>15, <1>16 DEF Remembers, TurnsTold
  <2> QED BY <1>1, <1>10, <1>17, <2>1, <2>2, <2>3 DEF StoreTypes, Remembers
<1> QED BY <1>8, <1>10, <1>11, <1>12, <1>14, <1>15, <1>18, WatcherStep

LEMMA FailPollStep ==
  ASSUME WatchInv, NEW w \in Sessions, FailPoll(w) PROVE WatchInv'
<1>1. StoreTypes /\ WatcherTypes /\ MaxFaults \in Nat /\ MaxErrors \in Nat
  BY WatchAssumption DEF WatchInv
<1>2. PICK e \in Memory, g \in History, o \in SUBSET Events :
         /\ e = eng[w] /\ g = ghost[w] /\ o = out[w] /\ Remembers(w, e, g, o)
  BY WatcherBefore
<1>3. e.errors \in Nat /\ e.sink \in SUBSET Events /\ g.lost \in SUBSET Events
  BY DEF Memory, History
<1> DEFINE over == ~e.primed \/ e.errors + 1 >= MaxErrors
           pc == IF over THEN "over" ELSE "sleep"
           n == e.errors + 1
           none == [a \in Actors |-> Gone]
           d == [e EXCEPT !.pc = pc, !.errors = n, !.sink = {}, !.left = {},
                          !.listed = {}, !.snap = none]
           lost == g.lost \union e.sink
           h == [g EXCEPT !.lost = lost]
<1>4. /\ e.pc \in {"joins", "feeds", "incidents", "leases"}
      /\ faults' = faults + 1 /\ faults < MaxFaults /\ UNCHANGED <<scene, store>>
  BY <1>2 DEF FailPoll
<1>5. /\ eng' = [eng EXCEPT ![w] = d] /\ ghost' = [ghost EXCEPT ![w] = h]
      /\ out' = [out EXCEPT ![w] = o]
  BY <1>1, <1>2 DEF FailPoll, WatcherTypes, Memory, History
<1>6. /\ pc \in {"over", "sleep"} /\ n \in Nat /\ lost \in SUBSET Events
      /\ none \in [Actors -> LeaseRecord \union {Gone}]
      /\ n <= MaxErrors /\ (pc # "over" => n < MaxErrors)
  BY <1>1, <1>2, <1>3, <1>4 DEF Remembers, Bounds
<1>7. lost = g.lost \union e.sink
  OBVIOUS
<1> HIDE DEF over, pc, n, none, lost
<1>8. /\ d \in Memory /\ d.pc = pc /\ d.primed = e.primed /\ d.errors = n
      /\ d.sink = {} /\ d.cur = e.cur /\ d.known = e.known /\ d.seen = e.seen
  BY <1>6 DEF Memory
<1>9. /\ h \in History /\ h.base = g.base /\ h.lost = lost /\ h.rebuilt = g.rebuilt
  BY <1>6 DEF History
<1> HIDE DEF d, h
<1>10. Told(e, g, o) \subseteq Told(d, h, o)
  BY <1>7, <1>8, <1>9 DEF Told
<1>11. Bounds(w, d)
  BY <1>2, <1>6, <1>8 DEF Remembers, Bounds
<1>12. faults' \in 0..MaxFaults
  BY <1>1, <1>4 DEF StoreTypes
<1>13. Remembers(w, d, h, o)
  <2>1. JoinsTold(w, d, h, o)
    BY <1>2, <1>8, <1>10 DEF Remembers, JoinsTold
  <2>2. IncidentsTold(d, h, o)
    BY <1>2, <1>8, <1>10 DEF Remembers, IncidentsTold
  <2>3. TurnsTold(d, h, o)
    BY <1>2, <1>8, <1>9, <1>10 DEF Remembers, TurnsTold
  <2> QED BY <1>11, <2>1, <2>2, <2>3 DEF Remembers
<1> QED BY <1>4, <1>5, <1>8, <1>9, <1>12, <1>13, WatcherStep

-----------------------------------------------------------------------------
LEMMA InitWatchInv == Init => WatchInv
<1> SUFFICES ASSUME Init PROVE WatchInv
  OBVIOUS
<1>1. StoreTypes
  <2>1. member \in [Sessions -> Membership \union {Gone}]
    <3>1. ASSUME NEW s \in Sessions
          PROVE  [ws |-> Home[s], epoch |-> 1, base |-> [f \in Sessions |-> 0]] \in Membership
      <4>1. Home[s] \in Workstreams /\ [f \in Sessions |-> 0] \in [Sessions -> Nat]
        BY WatchAssumption
      <4> QED BY <4>1 DEF Membership
    <3> QED BY <3>1 DEF Init
  <2>2. turns \in [Sessions -> Seq(Turn)] /\ \A s \in Sessions : Len(turns[s]) = 0
    BY DEF Init
  <2>3. /\ scene \in Scenes /\ now \in 0..MaxTime /\ faults \in 0..MaxFaults
        /\ 0 <= MaxTurns
    BY WatchAssumption DEF Init
  <2> QED BY <2>1, <2>2, <2>3 DEF Init, StoreTypes
<1> DEFINE e == [pc |-> "start", primed |-> FALSE, at |-> 0, errors |-> 0,
          known |-> {}, cur |-> [s \in Sessions |-> 0], seen |-> {},
          leases |-> [a \in Actors |-> Gone], conf |-> {}, sink |-> {},
          listed |-> {}, left |-> {}, snap |-> [a \in Actors |-> Gone]]
           g == [armed |-> 0, base |-> {}, lost |-> {}, again |-> {}, rebuilt |-> {},
          told |-> {}, woken |-> FALSE]
<1>2. e \in Memory
  BY DEF Memory
<1>3. g \in History
  BY DEF History
<1>4. /\ eng = [w \in Sessions |-> e] /\ ghost = [w \in Sessions |-> g]
      /\ out = [w \in Sessions |-> {}]
  BY DEF Init
<1>5. \A w \in Sessions : Remembers(w, e, g, {})
  <2>1. \A w \in Sessions : Bounds(w, e)
    <3>1. \A s \in Sessions : 0 <= Len(turns[s])
      BY <1>1 DEF StoreTypes
    <3>2. /\ e.pc = "start" /\ e.sink = {} /\ e.errors = 0
          /\ \A s \in Sessions : e.cur[s] = 0
      OBVIOUS
    <3>3. 0 <= MaxErrors /\ 0 < MaxErrors
      BY WatchAssumption
    <3> HIDE DEF e
    <3> QED BY <3>1, <3>2, <3>3 DEF Bounds
  <2>2. /\ e.known = {} /\ e.seen = {}
        /\ \A s \in Sessions : e.cur[s] = 0
    OBVIOUS
  <2> HIDE DEF e
  <2> QED BY <2>1, <2>2 DEF Remembers, JoinsTold, IncidentsTold, TurnsTold
<1>6. WatcherTypes
  BY <1>2, <1>3, <1>4 DEF WatcherTypes
<1> QED BY <1>1, <1>4, <1>5, <1>6 DEF WatchInv

LEMMA NextWatchInv == WatchInv /\ [Next]_vars => WatchInv'
<1> SUFFICES ASSUME WatchInv, [Next]_vars PROVE WatchInv'
  OBVIOUS
<1>1. CASE UNCHANGED vars
  BY <1>1, AsideStep DEF vars, store
<1>2. ASSUME NEW w \in Sessions, Poll(w) \/ FailPoll(w) PROVE WatchInv'
  BY <1>2, StartPollStep, ScanJoinsStep, ConsumeFeedStep, EndFeedsStep,
     ScanIncidentsStep, ReadLeaseStep, JudgeLeasesStep, FailPollStep DEF Poll
<1> QED BY <1>1, <1>2, StoreActs, AwaitStep DEF Next

(* What a watcher's memory takes for known was part of the baseline, is printed
   or about to be, was lost with a failed poll, or is not news for it: however
   many sessions, workstreams and watchers, with turns, joins, incidents and
   rebuilt feeds between any two reads of a poll. *)
THEOREM SkipsNothing == Spec => []NothingSkipped
<1>1. Spec => []WatchInv
  BY InitWatchInv, NextWatchInv, PTL DEF Spec
<1> QED BY <1>1, WatchInvImplies, PTL


-----------------------------------------------------------------------------
(* What a step of Watch does to the feeds *)

Place == [epoch : Nat, pos : [Sessions -> Nat]]

Stays ==
    /\ UNCHANGED scene /\ faults <= faults'
    /\ \A s \in Sessions : /\ member[s] # Gone => member'[s] # Gone
                           /\ cursor[s] # Gone => cursor'[s] # Gone

Quiet == Stays /\ UNCHANGED <<turns, feed>>

(* A record is written again, or a turn is published. *)
Again(s) ==
    /\ Stays /\ UNCHANGED <<turns, lease>>
    /\ Published(s) < Len(turns[s]) /\ feed' = [feed EXCEPT ![s] = Published(s) + 1]

Anew(s) ==
    /\ Stays /\ UNCHANGED lease
    /\ Published(s) = Len(turns[s]) /\ feed' = [feed EXCEPT ![s] = Published(s) + 1]
    /\ \E t \in Turn : turns' = [turns EXCEPT ![s] = Append(@, t)]

Deleted(s) == Stays /\ UNCHANGED <<turns, lease>> /\ feed' = [feed EXCEPT ![s] = Gone]

Places == cursor \in [Sessions -> Place \union {Gone}]

LEMMA NoneIs == /\ Gone \notin Membership /\ Gone \notin Place /\ Gone \notin Nat
                /\ None \notin Nat
BY PagesAssumption, WatchAssumption DEF Membership, Place

LEMMA PublishedType ==
  ASSUME StoreTypes, NEW s \in Sessions
  PROVE  /\ Published(s) \in Nat /\ Len(turns[s]) \in Nat /\ MaxTurns \in Nat
         /\ Published(s) <= Len(turns[s]) /\ Len(turns[s]) <= MaxTurns
         /\ feed[s] \in Nat \union {Gone}
<1>1. /\ feed[s] \in Nat \union {Gone} /\ turns[s] \in Seq(Turn)
      /\ feed[s] # Gone => feed[s] <= Len(turns[s])
      /\ Len(turns[s]) <= MaxTurns
  BY DEF StoreTypes
<1>2. Len(turns[s]) \in Nat
  BY <1>1
<1>3. CASE feed[s] = Gone
  BY <1>1, <1>2, <1>3, WatchAssumption DEF Published
<1>4. CASE feed[s] # Gone
  BY <1>1, <1>2, <1>4, WatchAssumption DEF Published
<1> QED BY <1>3, <1>4

LEMMA PublishSteps ==
  ASSUME StoreTypes, Places, NEW s \in Sessions, Publish(s) \/ Answer(s)
  PROVE  Anew(s) /\ Places'
<1>1. /\ feed[s] \in {Gone, Len(turns[s])} /\ (feed[s] = Gone => turns[s] = <<>>)
      /\ UNCHANGED <<scene, faults, member, lease, cursor>> /\ member[s] # Gone
      /\ feed' = [feed EXCEPT ![s] = Len(turns[s]) + 1]
      /\ \/ turns' = [turns EXCEPT ![s] = Append(@, HumanTurn(s))]
         \/ turns' = [turns EXCEPT ![s] = Append(@, AnswerTurn(s))]
  BY DEF Publish, Answer, Unobserved
<1>2. Published(s) = Len(turns[s])
  <2>1. CASE feed[s] = Gone
    <3>1. Len(turns[s]) = 0
      BY <1>1, <2>1
    <3> QED BY <2>1, <3>1 DEF Published
  <2>2. CASE feed[s] # Gone
    <3>1. feed[s] = Len(turns[s])
      BY <1>1, <2>2
    <3>2. Published(s) = feed[s]
      BY <2>2, Zenon DEF Published
    <3> QED BY <3>1, <3>2
  <2> QED BY <2>1, <2>2
<1>3. \E t \in Turn : turns' = [turns EXCEPT ![s] = Append(@, t)]
  BY <1>1, TurnTypes
<1>4. faults \in Nat
  BY WatchAssumption DEF StoreTypes
<1>5. faults <= faults'
  BY <1>1, <1>4
<1> QED BY <1>1, <1>2, <1>3, <1>5 DEF Anew, Stays, Places

LEMMA DeleteSteps ==
  ASSUME StoreTypes, Places, NEW s \in Sessions, DeleteFeed(s)
  PROVE  Deleted(s) /\ Places'
<1>1. /\ UNCHANGED <<scene, member, turns, lease, cursor>> /\ faults' = faults + 1
      /\ feed' = [feed EXCEPT ![s] = Gone]
  BY DEF DeleteFeed
<1>2. faults \in Nat
  BY WatchAssumption DEF StoreTypes
<1>3. faults <= faults'
  BY <1>1, <1>2
<1> QED BY <1>1, <1>3 DEF Deleted, Stays, Places

LEMMA RebuildSteps ==
  ASSUME StoreTypes, Places, NEW s \in Sessions, Rebuild(s)
  PROVE  Again(s) /\ Places'
<1>1. /\ UNCHANGED <<scene, faults, member, turns, lease, cursor>>
      /\ Published(s) < Len(turns[s]) /\ feed' = [feed EXCEPT ![s] = Published(s) + 1]
  BY DEF Rebuild, Unobserved
<1>2. faults \in Nat
  BY WatchAssumption DEF StoreTypes
<1>3. faults <= faults'
  BY <1>1, <1>2
<1> QED BY <1>1, <1>3 DEF Again, Stays, Places

LEMMA CursorSteps ==
  ASSUME StoreTypes, Places, NEW s \in Sessions, ResetCursor(s) \/ ReadTurns(s)
  PROVE  Quiet /\ Places'
<1>1. /\ UNCHANGED <<scene, faults, member, turns, feed>> /\ member[s] # Gone
      /\ \/ cursor' = [cursor EXCEPT ![s] = [epoch |-> member[s].epoch, pos |-> member[s].base]]
         \/ /\ cursor[s] # Gone
            /\ cursor' = [cursor EXCEPT ![s].pos = [f \in Sessions |-> Published(f)]]
  BY DEF ResetCursor, ReadTurns, Unobserved
<1>2. faults \in Nat
  BY WatchAssumption DEF StoreTypes
<1>3. faults <= faults'
  BY <1>1, <1>2
<1>4. \E c \in Place : cursor' = [cursor EXCEPT ![s] = c]
  <2>1. CASE cursor' = [cursor EXCEPT ![s] = [epoch |-> member[s].epoch, pos |-> member[s].base]]
    <3>1. member[s] \in Membership
      BY <1>1 DEF StoreTypes
    <3>2. [epoch |-> member[s].epoch, pos |-> member[s].base] \in Place
      BY <3>1 DEF Membership, Place
    <3> QED BY <2>1, <3>2
  <2>2. CASE /\ cursor[s] # Gone
             /\ cursor' = [cursor EXCEPT ![s].pos = [f \in Sessions |-> Published(f)]]
    <3>1. cursor[s] \in Place
      BY <2>2 DEF Places
    <3>2. [f \in Sessions |-> Published(f)] \in [Sessions -> Nat]
      BY PublishedType
    <3> DEFINE q == [f \in Sessions |-> Published(f)]
    <3>3. cursor' = [cursor EXCEPT ![s] = [cursor[s] EXCEPT !.pos = q]]
      BY <2>2
    <3> HIDE DEF q
    <3>4. [cursor[s] EXCEPT !.pos = q] \in Place
      BY <3>1, <3>2 DEF Place, q
    <3> QED BY <3>3, <3>4
  <2> QED BY <1>1, <2>1, <2>2
<1>5. PICK c \in Place : cursor' = [cursor EXCEPT ![s] = c]
  BY <1>4
<1>6. Places' /\ \A r \in Sessions : cursor[r] # Gone => cursor'[r] # Gone
  BY <1>5, NoneIs DEF Places
<1> QED BY <1>1, <1>3, <1>6 DEF Quiet, Stays

LEMMA JoinSteps ==
  ASSUME StoreTypes, Places, NEW s \in Sessions, NEW ws \in Workstreams, Join(s, ws)
  PROVE  Quiet /\ Places'
<1>1. /\ UNCHANGED <<scene, faults, turns, feed, cursor>>
      /\ member' = [member EXCEPT ![s] =
           [ws |-> ws, epoch |-> IF @ = Gone THEN 1 ELSE @.epoch + 1,
            base |-> [f \in Sessions |-> Published(f)]]]
  BY DEF Join, Unobserved
<1>2. faults \in Nat
  BY WatchAssumption DEF StoreTypes
<1>3. faults <= faults'
  BY <1>1, <1>2
<1>4. \A f \in Sessions : Published(f) \in Nat
  BY PublishedType
<1>5. member[s] \in Membership \union {Gone} /\ member \in [Sessions -> Membership \union {Gone}]
  BY DEF StoreTypes
<1>6. PICK e \in Nat : e = IF member[s] = Gone THEN 1 ELSE member[s].epoch + 1
  BY <1>5 DEF Membership
<1>7. PICK q \in [Sessions -> Nat] : q = [f \in Sessions |-> Published(f)]
  BY <1>4
<1>8. [ws |-> ws, epoch |-> e, base |-> q] \in Membership
  BY DEF Membership
<1>9. PICK m \in Membership : m = [ws |-> ws, epoch |-> e, base |-> q]
  BY <1>8
<1>10. member' = [member EXCEPT ![s] = m]
  BY <1>1, <1>6, <1>7, <1>9
<1>11. \A r \in Sessions : member[r] # Gone => member'[r] # Gone
  BY <1>5, <1>9, <1>10, NoneIs
<1> QED BY <1>1, <1>3, <1>11 DEF Quiet, Stays, Places

LEMMA SideSteps ==
  ASSUME StoreTypes, Places, UNCHANGED <<scene, member, turns, feed, cursor>>, faults <= faults'
  PROVE  Quiet /\ Places'
BY DEF Quiet, Stays, Places

LEMMA OtherSteps ==
  ASSUME StoreTypes, Places, 
         \/ Tick
         \/ \E i \in Incidents : \/ CreateMarker(i)
                                 \/ \E ws \in Workstreams \union {NoScope} : WriteMarker(i, ws)
         \/ \E a \in Actors : \/ \E claim, unknown \in BOOLEAN : Renew(a, claim, unknown)
                              \/ GoIdle(a) \/ Reap(a)
         \/ \E w \in Sessions : Poll(w) \/ FailPoll(w)
         \/ \E s \in Sessions : StartAwait(s)
         \/ Await \/ FailScan
  PROVE  Quiet /\ Places'
<1>1. faults \in Nat
  BY WatchAssumption DEF StoreTypes
<1>2. UNCHANGED <<scene, member, turns, feed, cursor>> /\ (faults' = faults \/ faults' = faults + 1)
  <2>1. CASE Tick
    BY <2>1 DEF Tick, Unobserved
  <2>2. CASE \E i \in Incidents : \/ CreateMarker(i)
                                  \/ \E ws \in Workstreams \union {NoScope} : WriteMarker(i, ws)
    BY <2>2 DEF CreateMarker, WriteMarker, Unobserved
  <2>3. CASE \E a \in Actors : \/ \E claim, unknown \in BOOLEAN : Renew(a, claim, unknown)
                               \/ GoIdle(a) \/ Reap(a)
    BY <2>3 DEF Renew, GoIdle, Reap, PutLease, Unobserved
  <2>4. ASSUME NEW w \in Sessions, Poll(w) PROVE UNCHANGED <<scene, faults, store>>
    BY <2>4 DEF Poll, StartPoll, ScanJoins, EndFeeds, ConsumeFeed, ScanIncidents, ReadLease,
                JudgeLeases, Observing
  <2>5. ASSUME NEW w \in Sessions, FailPoll(w)
        PROVE  UNCHANGED <<scene, store>> /\ faults' = faults + 1
    BY <2>5 DEF FailPoll
  <2>6. CASE \E s \in Sessions : StartAwait(s)
    BY <2>6 DEF StartAwait, Awaiting, store
  <2>7. CASE Await \/ FailScan
    BY <2>7 DEF Await, FailScan, CheckBound, ReadEpoch, ScanUnread, CheckEpoch, CheckTime,
                AwaitWakes, Awaiting, store
  <2> QED BY <2>1, <2>2, <2>3, <2>4, <2>5, <2>6, <2>7 DEF store
<1> QED BY <1>1, <1>2, SideSteps

LEMMA WatchSteps ==
  ASSUME StoreTypes, Places, Next
  PROVE  /\ Places'
         /\ Quiet \/ \E s \in Sessions : Again(s) \/ Anew(s) \/ Deleted(s)
BY PublishSteps, DeleteSteps, RebuildSteps, CursorSteps, JoinSteps, OtherSteps DEF Next, Store

-----------------------------------------------------------------------------
(* The files *)

File == [id : Nat, lines : Seq(Nat), tail : Nat \union {None}]

(* A file has a line for each turn that its feed holds. *)
FilesOk ==
    /\ file \in [Sessions -> File] /\ stamp \in [Sessions -> Seq(Nat)]
    /\ \A s \in Sessions : /\ Len(file[s].lines) = Published(s)
                           /\ Len(stamp[s]) = Len(turns[s])

StoreOk == WatchInv /\ Places /\ FilesOk

(* What was published stays what it was. *)
Stamped ==
    \A s \in Sessions :
        /\ Len(turns[s]) <= Len(turns'[s])
        /\ \A n \in 1..Len(turns[s]) : /\ turns'[s][n] = turns[s][n]
                                       /\ stamp'[s][n] = stamp[s][n]

Keeps(f, g) ==
    /\ g.id = f.id /\ Len(f.lines) <= Len(g.lines)
    /\ \A i \in 1..Len(f.lines) : g.lines[i] = f.lines[i]

Kept(s) == feed[s] # Gone => feed'[s] # Gone /\ Keeps(file[s], file'[s])

(* Part of a line stays, or the rest of it comes. *)
KeepsPart(f, g) ==
    f.tail # None => IF Len(f.lines) < Len(g.lines) THEN g.lines[Len(f.lines) + 1] = f.tail
                     ELSE g.tail = f.tail

LEMMA StoreTyped ==
  ASSUME StoreOk
  PROVE  /\ StoreTypes /\ Places /\ FilesOk /\ None \notin Nat /\ Gone \notin Nat
         /\ feed \in [Sessions -> Nat \union {Gone}] /\ turns \in [Sessions -> Seq(Turn)]
         /\ faults \in Nat
<1>1. StoreTypes
  BY DEF StoreOk, WatchInv
<1>2. faults \in Nat
  BY <1>1, WatchAssumption DEF StoreTypes
<1> QED BY <1>1, <1>2, NoneIs DEF StoreOk, StoreTypes

LEMMA FileTyped ==
  ASSUME FilesOk, StoreTypes, NEW s \in Sessions
  PROVE  /\ file[s] \in File /\ file[s].lines \in Seq(Nat) /\ file[s].id \in Nat
         /\ file[s].tail \in Nat \union {None}
         /\ Len(file[s].lines) = Published(s) /\ Published(s) \in Nat
         /\ stamp[s] \in Seq(Nat) /\ Len(stamp[s]) = Len(turns[s]) /\ Len(turns[s]) \in Nat
         /\ Published(s) <= Len(turns[s])
<1>1. file[s] \in File /\ stamp[s] \in Seq(Nat)
      /\ Len(file[s].lines) = Published(s) /\ Len(stamp[s]) = Len(turns[s])
  BY DEF FilesOk
<1>2. file[s].lines \in Seq(Nat) /\ file[s].id \in Nat /\ file[s].tail \in Nat \union {None}
  BY <1>1 DEF File
<1> QED BY <1>1, <1>2, PublishedType

LEMMA KeepsSame == ASSUME NEW f \in File PROVE Keeps(f, f) /\ KeepsPart(f, f)
<1>1. Len(f.lines) \in Nat
  BY DEF File
<1>2. Keeps(f, f)
  BY <1>1 DEF Keeps
<1>3. KeepsPart(f, f)
  BY <1>1 DEF KeepsPart
<1> QED BY <1>2, <1>3

(* Which step it was, by what it did to the feeds *)
LEMMA QuietIs ==
  ASSUME StoreOk, Next, feed' = feed
  PROVE  Quiet
<1>1. StoreTypes /\ Places /\ feed \in [Sessions -> Nat \union {Gone}] /\ Gone \notin Nat
  BY StoreTyped
<1>2. Quiet \/ \E s \in Sessions : Again(s) \/ Anew(s) \/ Deleted(s)
  BY <1>1, WatchSteps
<1>3. ASSUME NEW s \in Sessions, Again(s) \/ Anew(s) PROVE FALSE
  <2>1. Published(s) \in Nat /\ feed[s] \in Nat \union {Gone}
    BY <1>1, PublishedType
  <2>2. feed' = [feed EXCEPT ![s] = Published(s) + 1]
    BY <1>3 DEF Again, Anew
  <2>3. feed[s] = Published(s) + 1
    BY <1>1, <2>2
  <2> QED BY <1>1, <2>1, <2>3 DEF Published
<1>4. ASSUME NEW s \in Sessions, Deleted(s) PROVE Quiet
  BY <1>4 DEF Deleted, Quiet
<1> QED BY <1>2, <1>3, <1>4

LEMMA DeletedIs ==
  ASSUME StoreOk, Next, NEW s \in Sessions, feed[s] # Gone, feed'[s] = Gone
  PROVE  Deleted(s)
<1>1. StoreTypes /\ Places /\ feed \in [Sessions -> Nat \union {Gone}] /\ Gone \notin Nat
  BY StoreTyped
<1>2. Quiet \/ \E r \in Sessions : Again(r) \/ Anew(r) \/ Deleted(r)
  BY <1>1, WatchSteps
<1>3. ~Quiet
  BY DEF Quiet
<1>4. ASSUME NEW r \in Sessions, Again(r) \/ Anew(r) PROVE FALSE
  <2>1. Published(r) \in Nat
    BY <1>1, PublishedType
  <2>2. feed' = [feed EXCEPT ![r] = Published(r) + 1]
    BY <1>4 DEF Again, Anew
  <2>3. feed'[s] = feed[s] \/ feed'[s] = Published(r) + 1
    BY <1>1, <2>2
  <2> QED BY <1>1, <2>1, <2>3
<1>5. ASSUME NEW r \in Sessions, Deleted(r) PROVE r = s
  <2>1. feed' = [feed EXCEPT ![r] = Gone]
    BY <1>5 DEF Deleted
  <2> QED BY <1>1, <2>1
<1> QED BY <1>2, <1>3, <1>4, <1>5

LEMMA AppendedIs ==
  ASSUME StoreOk, Next, NEW s \in Sessions, feed'[s] # feed[s], feed'[s] # Gone
  PROVE  Again(s) \/ Anew(s)
<1>1. StoreTypes /\ Places /\ feed \in [Sessions -> Nat \union {Gone}]
  BY StoreTyped
<1>2. Quiet \/ \E r \in Sessions : Again(r) \/ Anew(r) \/ Deleted(r)
  BY <1>1, WatchSteps
<1>3. ~Quiet
  BY DEF Quiet
<1>4. ASSUME NEW r \in Sessions, Again(r) \/ Anew(r) PROVE r = s
  <2>1. feed' = [feed EXCEPT ![r] = Published(r) + 1]
    BY <1>4 DEF Again, Anew
  <2> QED BY <1>1, <2>1
<1>5. ASSUME NEW r \in Sessions, Deleted(r) PROVE FALSE
  <2>1. feed' = [feed EXCEPT ![r] = Gone]
    BY <1>5 DEF Deleted
  <2> QED BY <1>1, <2>1
<1> QED BY <1>2, <1>3, <1>4, <1>5

LEMMA StampedSame ==
  ASSUME StoreOk, UNCHANGED <<turns, stamp>>
  PROVE  Stamped
<1>1. ASSUME NEW s \in Sessions PROVE Len(turns[s]) <= Len(turns'[s])
  <2>1. Len(turns[s]) \in Nat
    BY StoreTyped, PublishedType
  <2> QED BY <2>1
<1> QED BY <1>1 DEF Stamped


-----------------------------------------------------------------------------
(* What happens around a traversal *)

Names == {"kind", "turn", "limit", "stage", "pc", "todo", "short", "pinned", "seen", "at",
          "after", "total", "items", "result", "had", "touched"}

(* The traversal is what it was, but that what was published before it may have
   been removed, or what it goes by may have been. *)
Marked ==
    /\ DOMAIN pg' = Names
    /\ pg'.kind = pg.kind /\ pg'.turn = pg.turn /\ pg'.limit = pg.limit
    /\ pg'.stage = pg.stage /\ pg'.pc = pg.pc /\ pg'.todo = pg.todo
    /\ pg'.short = pg.short /\ pg'.pinned = pg.pinned /\ pg'.seen = pg.seen
    /\ pg'.at = pg.at /\ pg'.after = pg.after /\ pg'.total = pg.total
    /\ pg'.items = pg.items /\ pg'.result = pg.result
    /\ pg'.had \subseteq pg.had /\ pg'.touched \in BOOLEAN
    /\ pg.touched => pg'.touched

Lost(s) == (\A t \in pg'.had : t[1] # s) /\ (GoesBy(s) => pg'.touched)

PartKept(s) ==
    \/ KeepsPart(file[s], file'[s])
    \/ pg.kind = "list" /\ pg.pinned[s] # None /\ pg.pinned[s].part # None => pg'.touched

Around ==
    /\ Stays /\ Stamped
    /\ \A s \in Sessions : Lost(s) \/ (Kept(s) /\ PartKept(s))
    /\ pg.kind = "health" /\ ~pg'.touched =>
          \A a \in Actors : lease[a] # Gone => lease'[a] # Gone
    /\ Marked

Known == DOMAIN pg = Names /\ pg.touched \in BOOLEAN /\ pg.kind # "none"

LEMMA MarkedSame == ASSUME Known, pg' = pg PROVE Marked
BY DEF Known, Marked

LEMMA MarkedHad ==
  ASSUME Known, NEW H, H \subseteq pg.had, NEW b \in BOOLEAN, pg.touched => b,
         pg' = [pg EXCEPT !.had = H, !.touched = b]
  PROVE  Marked /\ pg'.had = H /\ pg'.touched = b
BY DEF Known, Names, Marked

LEMMA MarkedTouched ==
  ASSUME Known, pg' = [pg EXCEPT !.touched = TRUE]
  PROVE  Marked /\ pg'.touched
BY DEF Known, Names, Marked

LEMMA RemoveSteps ==
  ASSUME StoreOk, Next, NEW s \in Sessions, RemoveFile(s)
  PROVE  /\ FilesOk' /\ Stays /\ Stamped /\ UNCHANGED lease
         /\ \A r \in Sessions \ {s} : feed'[r] = feed[r] /\ file'[r] = file[r]
<1>1. feed[s] # Gone /\ feed'[s] = Gone /\ UNCHANGED stamp
      /\ file' = [file EXCEPT ![s].lines = <<>>, ![s].tail = None]
  BY DEF RemoveFile
<1>2. Deleted(s)
  BY <1>1, DeletedIs
<1>3. Stays /\ UNCHANGED <<turns, lease>> /\ feed' = [feed EXCEPT ![s] = Gone]
  BY <1>2 DEF Deleted
<1>4. StoreTypes /\ FilesOk /\ feed \in [Sessions -> Nat \union {Gone}]
  BY StoreTyped
<1>5. file[s] \in File /\ file \in [Sessions -> File]
  BY <1>4 DEF FilesOk
<1>6. PICK f \in File : f = [file[s] EXCEPT !.lines = <<>>, !.tail = None]
  <2>0. <<>> \in Seq(Nat)
    OBVIOUS
  <2>1. PICK e \in Seq(Nat) : e = <<>>
    BY <2>0, Zenon
  <2>2. [file[s] EXCEPT !.lines = e, !.tail = None] \in File
    BY <1>5 DEF File
  <2> QED BY <2>1, <2>2
<1>7. f.lines = <<>>
  BY <1>5, <1>6 DEF File
<1>8. file' = [file EXCEPT ![s] = f]
  BY <1>1, <1>5, <1>6
<1>9. /\ file' \in [Sessions -> File] /\ file'[s] = f /\ feed'[s] = Gone
      /\ \A r \in Sessions \ {s} : feed'[r] = feed[r] /\ file'[r] = file[r]
  BY <1>3, <1>4, <1>5, <1>8
<1>10. ASSUME NEW r \in Sessions
       PROVE  Len(file'[r].lines) = Published(r)' /\ Len(stamp'[r]) = Len(turns'[r])
  <2>1. Len(file[r].lines) = Published(r) /\ Len(stamp[r]) = Len(turns[r])
    BY <1>4, FileTyped
  <2>2. Len(stamp'[r]) = Len(turns'[r])
    BY <1>1, <1>3, <2>1
  <2>3. CASE r = s
    <3>1. Len(f.lines) = 0
      BY <1>7
    <3>2. Published(r)' = 0
      BY <1>9, <2>3 DEF Published
    <3> QED BY <1>9, <2>2, <2>3, <3>1, <3>2
  <2>4. CASE r # s
    <3>1. Published(r)' = Published(r) /\ file'[r] = file[r]
      BY <1>9, <2>4 DEF Published
    <3> QED BY <2>1, <2>2, <3>1
  <2> QED BY <2>3, <2>4
<1>11. FilesOk'
  BY <1>1, <1>4, <1>9, <1>10 DEF FilesOk
<1>12. Stamped
  BY <1>1, <1>3, StampedSame
<1> QED BY <1>3, <1>9, <1>11, <1>12

LEMMA RemoveAround ==
  ASSUME StoreOk, Known, Next, NEW s \in Sessions, RemoveFile(s)
  PROVE  FilesOk' /\ Around
<1>1. /\ FilesOk' /\ Stays /\ Stamped /\ UNCHANGED lease
      /\ \A r \in Sessions \ {s} : feed'[r] = feed[r] /\ file'[r] = file[r]
  BY RemoveSteps
<1>2. Removed(s)
  BY DEF RemoveFile
<1> DEFINE H == {t \in pg.had : t[1] # s}
           b == pg.touched \/ GoesBy(s)
<1>3. H \subseteq pg.had /\ b \in BOOLEAN /\ (pg.touched => b)
  BY DEF Known
<1>4. pg' = [pg EXCEPT !.had = H, !.touched = b]
  BY <1>2 DEF Removed, Known
<1>5. Marked /\ pg'.had = H /\ pg'.touched = b
  <2> HIDE DEF H, b
  <2> QED BY <1>3, <1>4, MarkedHad
<1>6. Lost(s)
  BY <1>5 DEF Lost
<1>7. ASSUME NEW r \in Sessions \ {s} PROVE Kept(r) /\ PartKept(r)
  <2>1. file[r] \in File
    BY StoreTyped, FileTyped
  <2>2. Keeps(file[r], file'[r]) /\ KeepsPart(file[r], file'[r])
    BY <1>1, <2>1, KeepsSame
  <2> QED BY <1>1, <2>2 DEF Kept, PartKept
<1> QED BY <1>1, <1>5, <1>6, <1>7 DEF Around


LEMMA AppendLines ==
  ASSUME NEW X, NEW L \in Seq(X), NEW v \in X
  PROVE  /\ Append(L, v) \in Seq(X) /\ Len(L) \in Nat /\ Len(Append(L, v)) = Len(L) + 1
         /\ Append(L, v)[Len(L) + 1] = v
         /\ \A i \in 1..Len(L) : Append(L, v)[i] = L[i]
OBVIOUS

LEMMA AppendFile ==
  ASSUME NEW f \in File, NEW v \in Nat, f.tail # None => v = f.tail, NEW id \in Nat,
         NEW g, g = [f EXCEPT !.lines = Append(@, v), !.tail = None, !.id = id]
  PROVE  /\ g \in File /\ Len(g.lines) = Len(f.lines) + 1
         /\ id = f.id => Keeps(f, g)
         /\ KeepsPart(f, g)
<1>1. PICK L \in Seq(Nat) : L = f.lines
  BY DEF File
<1>2. PICK M \in Seq(Nat) : M = Append(L, v)
  BY AppendLines
<1>3. /\ Len(L) \in Nat /\ Len(M) = Len(L) + 1 /\ M[Len(L) + 1] = v
      /\ \A i \in 1..Len(L) : M[i] = L[i]
  BY <1>2, AppendLines
<1>4. g = [f EXCEPT !.lines = M, !.tail = None, !.id = id]
  BY <1>1, <1>2
<1>5. g \in File /\ g.lines = M /\ g.id = id
  BY <1>4 DEF File
<1>6. id = f.id => Keeps(f, g)
  BY <1>1, <1>3, <1>5 DEF Keeps
<1>7. KeepsPart(f, g)
  BY <1>1, <1>3, <1>5 DEF KeepsPart
<1> QED BY <1>1, <1>3, <1>5, <1>6, <1>7

LEMMA AppendSteps ==
  ASSUME StoreOk, Next, NEW s \in Sessions, AppendLine(s)
  PROVE  /\ FilesOk' /\ Stays /\ Stamped /\ UNCHANGED <<lease, pg>>
         /\ \A r \in Sessions : Kept(r) /\ KeepsPart(file[r], file'[r])
<1>1. /\ feed'[s] # feed[s] /\ feed'[s] # Gone /\ UNCHANGED pg
  BY DEF AppendLine
<1>2. Again(s) \/ Anew(s)
  BY <1>1, AppendedIs
<1>3. Stays /\ UNCHANGED lease /\ feed' = [feed EXCEPT ![s] = Published(s) + 1]
  BY <1>2 DEF Again, Anew
<1>4. /\ StoreTypes /\ FilesOk /\ feed \in [Sessions -> Nat \union {Gone}]
      /\ Gone \notin Nat /\ None \notin Nat /\ turns \in [Sessions -> Seq(Turn)]
  BY StoreTyped
<1>5. file[s] \in File /\ file \in [Sessions -> File] /\ stamp \in [Sessions -> Seq(Nat)]
  BY <1>4 DEF FilesOk
<1>6. PICK v \in Nat : /\ file[s].tail # None => v = file[s].tail
                       /\ file' = [file EXCEPT ![s].lines = Append(@, v), ![s].tail = None,
                                     ![s].id = IF feed[s] = Gone THEN @ + 1 ELSE @]
  <2>1. PICK v \in IF file[s].tail = None THEN Versions(s) ELSE {file[s].tail} :
          file' = [file EXCEPT ![s].lines = Append(@, v), ![s].tail = None,
                               ![s].id = IF feed[s] = Gone THEN @ + 1 ELSE @]
    BY DEF AppendLine
  <2>2. Versions(s) \subseteq Nat
    BY DEF Versions
  <2>3. file[s].tail \in Nat \union {None}
    BY <1>4, FileTyped
  <2>4. v \in Nat /\ (file[s].tail # None => v = file[s].tail)
    BY <2>1, <2>2, <2>3
  <2> QED BY <2>1, <2>4
<1>7. PICK id \in Nat : id = IF feed[s] = Gone THEN file[s].id + 1 ELSE file[s].id
  BY <1>4, FileTyped
<1>8. PICK g : g = [file[s] EXCEPT !.lines = Append(@, v), !.tail = None, !.id = id]
  OBVIOUS
<1>9. /\ g \in File /\ Len(g.lines) = Len(file[s].lines) + 1
      /\ feed[s] # Gone => Keeps(file[s], g)
      /\ KeepsPart(file[s], g)
  <2>1. file[s].tail # None => v = file[s].tail
    BY <1>6
  <2>2. feed[s] # Gone => id = file[s].id
    BY <1>7
  <2> QED BY <1>5, <2>1, <2>2, <1>8, AppendFile, Zenon
<1>10. file' = [file EXCEPT ![s] = g]
  BY <1>5, <1>6, <1>7, <1>8
<1>11. /\ file' \in [Sessions -> File] /\ file'[s] = g /\ feed'[s] = Published(s) + 1
       /\ \A r \in Sessions \ {s} : feed'[r] = feed[r] /\ file'[r] = file[r]
  BY <1>3, <1>4, <1>5, <1>9, <1>10
<1>12. ASSUME NEW r \in Sessions PROVE Len(file'[r].lines) = Published(r)'
  <2>1. Len(file[r].lines) = Published(r) /\ Published(r) \in Nat
    BY <1>4, FileTyped
  <2>2. CASE r = s
    <3>1. Published(r)' = Published(s) + 1
      BY <1>1, <1>11, <2>2 DEF Published
    <3> QED BY <1>9, <1>11, <2>1, <2>2, <3>1
  <2>3. CASE r # s
    <3>1. Published(r)' = Published(r) /\ file'[r] = file[r]
      BY <1>11, <2>3 DEF Published
    <3> QED BY <2>1, <3>1
  <2> QED BY <2>2, <2>3
<1>13. /\ stamp' \in [Sessions -> Seq(Nat)] /\ Stamped
       /\ \A r \in Sessions : Len(stamp'[r]) = Len(turns'[r])
  <2>1. CASE Again(s)
    <3>1. UNCHANGED turns
      BY <2>1 DEF Again
    <3>2. UNCHANGED stamp
      BY <3>1 DEF AppendLine
    <3> QED BY <1>4, <1>5, <3>1, <3>2, FileTyped, StampedSame
  <2>2. CASE Anew(s)
    <3>1. PICK t \in Turn : turns' = [turns EXCEPT ![s] = Append(@, t)]
      BY <2>2 DEF Anew
    <3>2. PICK T \in Seq(Turn) : T = turns[s]
      BY <1>4
    <3>3. PICK T1 \in Seq(Turn) : T1 = Append(T, t)
      <4>1. Append(T, t) \in Seq(Turn)
        BY AppendLines
      <4> QED BY <4>1, Zenon
    <3>4. /\ Len(T) \in Nat /\ Len(T1) = Len(T) + 1 /\ \A i \in 1..Len(T) : T1[i] = T[i]
      BY <3>3, AppendLines
    <3>5. turns' = [turns EXCEPT ![s] = T1]
      BY <3>1, <3>2, <3>3
    <3>6. turns'[s] = T1 /\ \A r \in Sessions \ {s} : turns'[r] = turns[r]
      BY <1>4, <3>5
    <3>7. turns' # turns
      BY <3>2, <3>4, <3>6
    <3>8. PICK at \in (IF stamp[s] = <<>> THEN 1 ELSE Last(stamp[s]))
                        .. (IF Paged THEN MaxStamp ELSE 1) :
             stamp' = [stamp EXCEPT ![s] = Append(@, at)]
      BY <3>7 DEF AppendLine
    <3>9. at \in Nat
      <4>1. CASE stamp[s] = <<>>
        BY <3>8, <4>1
      <4>2. CASE stamp[s] # <<>>
        <5>1. PICK q \in Seq(Nat) : q = stamp[s]
          BY <1>5
        <5>2. Last(q) \in Nat
          BY <4>2, <5>1 DEF Last
        <5> QED BY <3>8, <4>2, <5>1, <5>2
      <4> QED BY <4>1, <4>2
    <3>10. PICK q \in Seq(Nat) : q = stamp[s]
      BY <1>5
    <3>11. PICK q1 \in Seq(Nat) : q1 = Append(q, at)
      BY <3>9, AppendLines
    <3>12. Len(q) \in Nat /\ Len(q1) = Len(q) + 1 /\ \A i \in 1..Len(q) : q1[i] = q[i]
      BY <3>9, <3>11, AppendLines
    <3>13. stamp' = [stamp EXCEPT ![s] = q1]
      BY <3>8, <3>10, <3>11
    <3>14. /\ stamp' \in [Sessions -> Seq(Nat)] /\ stamp'[s] = q1
           /\ \A r \in Sessions \ {s} : stamp'[r] = stamp[r]
      BY <1>5, <3>13
    <3>15. ASSUME NEW r \in Sessions
           PROVE  /\ Len(stamp'[r]) = Len(turns'[r]) /\ Len(turns[r]) <= Len(turns'[r])
                  /\ \A n \in 1..Len(turns[r]) : /\ turns'[r][n] = turns[r][n]
                                                 /\ stamp'[r][n] = stamp[r][n]
      <4>1. Len(stamp[r]) = Len(turns[r]) /\ Len(turns[r]) \in Nat
        BY <1>4, FileTyped
      <4>2. CASE r = s
        <5>1. turns[r] = T /\ turns'[r] = T1 /\ stamp[r] = q /\ stamp'[r] = q1
          BY <3>2, <3>6, <3>10, <3>14, <4>2
        <5>2. Len(q) = Len(T)
          BY <4>1, <5>1
        <5>3. Len(q1) = Len(T1) /\ Len(T) <= Len(T1)
          BY <3>4, <3>12, <5>2
        <5>4. \A n \in 1..Len(T) : T1[n] = T[n] /\ q1[n] = q[n]
          BY <3>4, <3>12, <5>2
        <5> QED BY <5>1, <5>3, <5>4
      <4>3. CASE r # s
        <5>1. stamp'[r] = stamp[r] /\ turns'[r] = turns[r]
          BY <3>6, <3>14, <4>3
        <5> QED BY <4>1, <5>1
      <4> QED BY <4>2, <4>3
    <3> QED BY <3>14, <3>15 DEF Stamped
  <2> QED BY <1>2, <2>1, <2>2
<1>14. FilesOk'
  BY <1>11, <1>12, <1>13 DEF FilesOk
<1>15. ASSUME NEW r \in Sessions PROVE Kept(r) /\ KeepsPart(file[r], file'[r])
  <2>1. CASE r = s
    BY <1>1, <1>9, <1>11, <2>1 DEF Kept
  <2>2. CASE r # s
    <3>1. file[r] \in File /\ file'[r] = file[r] /\ feed'[r] = feed[r]
      BY <1>4, <1>11, <2>2, FileTyped
    <3>2. Keeps(file[r], file[r]) /\ KeepsPart(file[r], file[r])
      BY <3>1, KeepsSame
    <3> QED BY <3>1, <3>2 DEF Kept
  <2> QED BY <2>1, <2>2
<1> QED BY <1>1, <1>3, <1>13, <1>14, <1>15

LEMMA AppendAround ==
  ASSUME StoreOk, Known, Next, NEW s \in Sessions, AppendLine(s)
  PROVE  FilesOk' /\ Around
BY AppendSteps, MarkedSame DEF Around, PartKept


LEMMA SameFiles ==
  ASSUME StoreOk, UNCHANGED <<turns, feed, file, stamp>>
  PROVE  /\ FilesOk' /\ Stamped
         /\ \A r \in Sessions : Kept(r) /\ KeepsPart(file[r], file'[r])
<1>1. FilesOk'
  <2>1. \A s \in Sessions : Published(s)' = Published(s)
    BY DEF Published
  <2> QED BY <2>1, StoreTyped DEF FilesOk
<1>2. ASSUME NEW r \in Sessions PROVE Kept(r) /\ KeepsPart(file[r], file'[r])
  <2>1. file[r] \in File
    BY StoreTyped, FileTyped
  <2> QED BY <2>1, KeepsSame DEF Kept
<1> QED BY <1>1, <1>2, StampedSame

LEMMA QuietAround ==
  ASSUME StoreOk, Known, Next, feed' = feed, Reaped, UNCHANGED <<file, stamp>>
  PROVE  FilesOk' /\ Around
<1>1. Quiet
  BY QuietIs
<1>2. Stays /\ UNCHANGED turns
  BY <1>1 DEF Quiet
<1>3. /\ FilesOk' /\ Stamped
      /\ \A r \in Sessions : Kept(r) /\ PartKept(r)
  BY <1>2, SameFiles DEF PartKept
<1>4. Marked /\ (pg.kind = "health" /\ ~pg'.touched =>
                   \A a \in Actors : lease[a] # Gone => lease'[a] # Gone)
  <2>1. CASE pg.kind = "health" /\ \E a \in Actors : lease[a] # Gone /\ lease'[a] = Gone
    <3>1. pg' = [pg EXCEPT !.touched = TRUE]
      BY <2>1 DEF Reaped
    <3> QED BY <3>1, MarkedTouched
  <2>2. CASE ~(pg.kind = "health" /\ \E a \in Actors : lease[a] # Gone /\ lease'[a] = Gone)
    <3>1. pg' = pg
      BY <2>2 DEF Reaped
    <3> QED BY <2>2, <3>1, MarkedSame
  <2> QED BY <2>1, <2>2
<1> QED BY <1>2, <1>3, <1>4 DEF Around

LEMMA StaysSame == ASSUME StoreOk, UNCHANGED vars PROVE Stays
<1>1. UNCHANGED <<scene, faults, member, cursor>>
  BY DEF vars, store
<1>2. faults <= faults'
  BY <1>1, StoreTyped
<1> QED BY <1>1, <1>2 DEF Stays

LEMMA TailFiles ==
  ASSUME StoreOk, NEW s \in Sessions, NEW v \in Nat \union {None},
         UNCHANGED <<vars, stamp>>, file' = [file EXCEPT ![s].tail = v]
  PROVE  /\ FilesOk' /\ Stamped /\ Stays /\ UNCHANGED lease
         /\ \A r \in Sessions : Kept(r)
         /\ \A r \in Sessions \ {s} : KeepsPart(file[r], file'[r])
         /\ file[s].tail = None => KeepsPart(file[s], file'[s])
<1>1. UNCHANGED <<turns, feed, lease>>
  BY DEF vars, store
<1>2. StoreTypes /\ FilesOk
  BY StoreTyped
<1>3. file \in [Sessions -> File] /\ stamp \in [Sessions -> Seq(Nat)] /\ file[s] \in File
  BY <1>2 DEF FilesOk
<1>4. PICK g : g = [file[s] EXCEPT !.tail = v]
  OBVIOUS
<1>5. g \in File /\ g.id = file[s].id /\ g.lines = file[s].lines
  BY <1>3, <1>4 DEF File
<1>6. file' = [file EXCEPT ![s] = g]
  BY <1>3, <1>4
<1>7. /\ file' \in [Sessions -> File] /\ file'[s] = g
      /\ \A r \in Sessions \ {s} : file'[r] = file[r]
  BY <1>3, <1>5, <1>6
<1>8. \A r \in Sessions : file'[r].lines = file[r].lines /\ file'[r].id = file[r].id
  BY <1>5, <1>7
<1>9. \A r \in Sessions : Len(file'[r].lines) = Published(r)'
  <2>1. \A r \in Sessions : Published(r)' = Published(r)
    BY <1>1 DEF Published
  <2> QED BY <1>2, <1>8, <2>1 DEF FilesOk
<1>10. FilesOk'
  BY <1>1, <1>2, <1>3, <1>7, <1>9 DEF FilesOk
<1>11. ASSUME NEW r \in Sessions PROVE Kept(r)
  <2>1. Len(file[r].lines) \in Nat
    BY <1>2, FileTyped
  <2>2. Keeps(file[r], file'[r])
    BY <1>8, <2>1 DEF Keeps
  <2> QED BY <1>1, <2>2 DEF Kept
<1>12. ASSUME NEW r \in Sessions \ {s} PROVE KeepsPart(file[r], file'[r])
  BY <1>3, <1>7, KeepsSame
<1>13. file[s].tail = None => KeepsPart(file[s], file'[s])
  BY DEF KeepsPart
<1> QED BY <1>1, <1>10, <1>11, <1>12, <1>13, StaysSame, StampedSame

LEMMA WriteAround ==
  ASSUME StoreOk, Known, NEW s \in Sessions, WritePart(s)
  PROVE  FilesOk' /\ Around
<1>1. PICK v \in Nat : file' = [file EXCEPT ![s].tail = v]
  BY DEF WritePart, Versions
<1>2. file[s].tail = None /\ UNCHANGED <<vars, stamp, pg>>
  BY DEF WritePart
<1>3. /\ FilesOk' /\ Stamped /\ Stays /\ UNCHANGED lease
      /\ \A r \in Sessions : Kept(r) /\ KeepsPart(file[r], file'[r])
  BY <1>1, <1>2, TailFiles
<1> QED BY <1>2, <1>3, MarkedSame DEF Around, PartKept

LEMMA HealAround ==
  ASSUME StoreOk, Known, NEW s \in Sessions, HealTail(s)
  PROVE  FilesOk' /\ Around
<1>1. file' = [file EXCEPT ![s].tail = None] /\ UNCHANGED <<vars, stamp>>
  BY DEF HealTail
<1>2. /\ FilesOk' /\ Stamped /\ Stays /\ UNCHANGED lease
      /\ \A r \in Sessions : Kept(r)
      /\ \A r \in Sessions \ {s} : KeepsPart(file[r], file'[r])
  BY <1>1, TailFiles
<1>3. CASE pg.kind = "list" /\ pg.pinned[s] # None /\ pg.pinned[s].part # None
  <2>1. pg' = [pg EXCEPT !.touched = TRUE]
    BY <1>3 DEF HealTail
  <2>2. Marked /\ pg'.touched
    BY <2>1, MarkedTouched
  <2> QED BY <1>2, <2>2 DEF Around, PartKept
<1>4. CASE ~(pg.kind = "list" /\ pg.pinned[s] # None /\ pg.pinned[s].part # None)
  <2>1. pg' = pg
    BY <1>4 DEF HealTail
  <2> QED BY <1>2, <1>4, <2>1, MarkedSame DEF Around, PartKept
<1> QED BY <1>3, <1>4


-----------------------------------------------------------------------------
(* The order of turns *)

LEMMA RankIs ==
  ASSUME NEW s \in Sessions, NEW r \in Sessions
  PROVE  /\ Rank(s) \in Nat
         /\ Rank(s) = Rank(r) => s = r
<1>1. Order \in Seq(Sessions) /\ \A x \in Sessions : \E i \in DOMAIN Order : Order[i] = x
  BY PagesAssumption DEF ToSet
<1>2. DOMAIN Order \subseteq Nat
  BY <1>1
<1>3. \A x \in Sessions : Rank(x) \in DOMAIN Order /\ Order[Rank(x)] = x
  BY <1>1 DEF Rank
<1>4. Rank(s) \in Nat
  BY <1>2, <1>3
<1>5. Rank(s) = Rank(r) => s = r
  BY <1>3
<1> QED BY <1>4, <1>5

Item == [s : Sessions, n : Nat, at : Nat, v : Nat]

LEMMA NewerIs ==
  ASSUME NEW t \in Item, NEW u \in Item, NEW v \in Item
  PROVE  /\ ~Newer(t, t)
         /\ Newer(t, u) /\ Newer(u, v) => Newer(t, v)
         /\ Newer(t, u) \/ Newer(u, t) \/ (t.s = u.s /\ t.n = u.n)
<1>1. /\ t.s \in Sessions /\ t.n \in Nat /\ t.at \in Nat
      /\ u.s \in Sessions /\ u.n \in Nat /\ u.at \in Nat
      /\ v.s \in Sessions /\ v.n \in Nat /\ v.at \in Nat
  BY DEF Item
<1>2. PICK a \in Sessions, b \in Sessions, c \in Sessions :
          a = t.s /\ b = u.s /\ c = v.s
  BY <1>1
<1>3. /\ Rank(a) \in Nat /\ Rank(b) \in Nat /\ Rank(c) \in Nat
      /\ Rank(a) = Rank(b) => a = b
      /\ Rank(b) = Rank(c) => b = c
      /\ Rank(a) = Rank(c) => a = c
  BY RankIs
<1>4. ~Newer(t, t)
  BY <1>1, <1>2, <1>3 DEF Newer
<1>5. Newer(t, u) /\ Newer(u, v) => Newer(t, v)
  BY <1>1, <1>2, <1>3 DEF Newer
<1>6. Newer(t, u) \/ Newer(u, t) \/ (t.s = u.s /\ t.n = u.n)
  BY <1>1, <1>2, <1>3 DEF Newer
<1> QED BY <1>4, <1>5, <1>6

Keyed(S) == \A t, u \in S : t.s = u.s /\ t.n = u.n => t = u

(* The turns of S from the newest to the oldest, each once *)
LEMMA SortedIs ==
  ASSUME NEW S, IsFiniteSet(S), S \subseteq Item, Keyed(S)
  PROVE  /\ Sorted(S) \in Seq(S) /\ Cardinality(S) \in Nat
         /\ Len(Sorted(S)) = Cardinality(S)
         /\ \A t \in S : \E i \in 1..Cardinality(S) : Sorted(S)[i] = t
         /\ \A i, j \in 1..Cardinality(S) : Sorted(S)[i] = Sorted(S)[j] => i = j
<1> DEFINE n == Cardinality(S)
           Before(t) == {u \in S : Newer(u, t)}
           place == [t \in S |-> Cardinality(Before(t))]
<1>1. n \in Nat
  BY FS_CardinalityType
<1>2. ASSUME NEW t \in S PROVE /\ IsFiniteSet(Before(t)) /\ place[t] \in 0..n - 1
  <2>1. t \notin Before(t)
    BY NewerIs
  <2>2. IsFiniteSet(S \ {t}) /\ Cardinality(S \ {t}) = n - 1
    BY FS_RemoveElement
  <2>3. Before(t) \in SUBSET (S \ {t})
    BY <2>1
  <2>4. IsFiniteSet(Before(t)) /\ Cardinality(Before(t)) <= n - 1
    <3> HIDE DEF Before
    <3> QED BY <2>2, <2>3, FS_Subset
  <2>5. Cardinality(Before(t)) \in Nat
    <3> HIDE DEF Before
    <3> QED BY <2>4, FS_CardinalityType
  <2>6. place[t] = Cardinality(Before(t))
    OBVIOUS
  <2> QED BY <1>1, <2>4, <2>5, <2>6
<1>3. ASSUME NEW t \in S, NEW u \in S, Newer(u, t) PROVE place[u] < place[t]
  <2>1. Before(u) \subseteq Before(t)
    <3> SUFFICES ASSUME NEW x \in S, Newer(x, u) PROVE Newer(x, t)
      OBVIOUS
    <3> QED BY <1>3, NewerIs
  <2>2. u \in Before(t) /\ u \notin Before(u)
    BY <1>3, NewerIs
  <2>3. IsFiniteSet(Before(t)) /\ IsFiniteSet(Before(u))
    BY <1>2
  <2>4. /\ Cardinality(Before(u)) <= Cardinality(Before(t))
        /\ Cardinality(Before(u)) # Cardinality(Before(t))
    <3>1. Before(t) # Before(u)
      BY <2>2
    <3> HIDE DEF Before
    <3> QED BY <2>1, <3>1, <2>3, FS_Subset
  <2>5. Cardinality(Before(u)) \in Nat /\ Cardinality(Before(t)) \in Nat
    <3> HIDE DEF Before
    <3> QED BY <2>3, FS_CardinalityType
  <2>6. place[t] = Cardinality(Before(t)) /\ place[u] = Cardinality(Before(u))
    OBVIOUS
  <2> QED BY <2>4, <2>5, <2>6
<1>4. ASSUME NEW t \in S, NEW u \in S, place[t] = place[u] PROVE t = u
  <2>1. Newer(t, u) \/ Newer(u, t) \/ (t.s = u.s /\ t.n = u.n)
    BY NewerIs
  <2>2. place[t] \in Nat /\ place[u] \in Nat
    <3>1. place[t] \in 0..n - 1 /\ place[u] \in 0..n - 1
      BY <1>2
    <3> HIDE DEF place, n
    <3> QED BY <3>1
  <2>3. ~Newer(t, u) /\ ~Newer(u, t)
    <3> HIDE DEF place, n
    <3> QED BY <1>3, <1>4, <2>2
  <2> QED BY <2>1, <2>3 DEF Keyed
<1>5. place \in Injection(S, 0..n - 1)
  <2>1. place \in [S -> 0..n - 1]
    <3> HIDE DEF n
    <3> QED BY <1>2
  <2>2. \A t, u \in DOMAIN place : place[t] = place[u] => t = u
    BY <1>4
  <2> QED BY <2>1, <2>2 DEF Injection, IsInjective
<1>6. IsFiniteSet(0..n - 1) /\ Cardinality(0..n - 1) = n
  <2>1. 0 \in Int /\ n - 1 \in Int
    BY <1>1
  <2> QED BY <1>1, <2>1, FS_Interval
<1>7. place \in Surjection(S, 0..n - 1)
  <2> HIDE DEF place, Before
  <2> QED BY <1>5, <1>6, FS_Injection
<1>8. \A i \in 1..n : \E t \in S : place[t] = i - 1
  <2>1. \A k \in 0..n - 1 : \E t \in S : place[t] = k
    BY <1>7 DEF Surjection
  <2>2. \A i \in 1..n : i - 1 \in 0..n - 1
    BY <1>1
  <2> QED BY <2>1, <2>2
<1> DEFINE q == Sorted(S)
<1>9. q = [i \in 1..n |-> CHOOSE t \in S : place[t] = i - 1]
  <2>1. \A i \in 1..n : (CHOOSE t \in S : place[t] = i - 1)
                         = CHOOSE t \in S : Cardinality(Before(t)) = i - 1
    OBVIOUS
  <2> QED BY <2>1 DEF Sorted
<1>10. \A i \in 1..n : q[i] \in S /\ place[q[i]] = i - 1
  <2> HIDE DEF place, Before, n
  <2> QED BY <1>8, <1>9
<1>11. q \in Seq(S) /\ Len(q) = n
  <2> HIDE DEF place, Before
  <2>1. q \in [1..n -> S]
    BY <1>9, <1>10
  <2> QED BY <1>1, <2>1
<1>12. ASSUME NEW t \in S PROVE \E i \in 1..n : q[i] = t
  <2>1. place[t] \in 0..n - 1
    BY <1>2
  <2>2. place[t] + 1 \in 1..n /\ place[q[place[t] + 1]] = place[t] /\ q[place[t] + 1] \in S
    <3> HIDE DEF place, Before, q
    <3> QED BY <1>1, <1>10, <2>1
  <2> QED BY <1>4, <2>2
<1>13. ASSUME NEW i \in 1..n, NEW j \in 1..n, q[i] = q[j] PROVE i = j
  <2> HIDE DEF place, Before, q
  <2> QED BY <1>1, <1>10, <1>13
<1> QED BY <1>1, <1>11, <1>12, <1>13


-----------------------------------------------------------------------------
(* The records of the feeds that were read *)

Pin == [id : Nat, lines : Seq(Nat), part : Nat \union {None}]

Pins == [Sessions -> Pin \union {None}]

Keys(ps) == {u \in Sessions \X (1..MaxTurns) : ps[u[1]] # None /\ u[2] <= Len(ps[u[1]].lines)}

Rec(ps, u) == [s |-> u[1], n |-> u[2], at |-> stamp[u[1]][u[2]], v |-> ps[u[1]].lines[u[2]]]

(* What was read of a feed is not more than was published. *)
Within(ps) == \A s \in Sessions : ps[s] # None => Len(ps[s].lines) <= Len(turns[s])

LEMMA KeyIs ==
  ASSUME StoreOk, NEW ps \in Pins, Within(ps), NEW u \in Keys(ps)
  PROVE  /\ u[1] \in Sessions /\ u[2] \in Nat /\ u[2] \in 1..MaxTurns /\ u = <<u[1], u[2]>>
         /\ u[2] \in 1..Len(turns[u[1]])
         /\ Rec(ps, u) \in Item /\ Rec(ps, u).s = u[1] /\ Rec(ps, u).n = u[2]
<1>1. /\ u \in Sessions \X (1..MaxTurns) /\ ps[u[1]] # None
      /\ u[2] <= Len(ps[u[1]].lines)
  BY DEF Keys
<1>2. PICK s \in Sessions, n \in 1..MaxTurns : u = <<s, n>>
  BY <1>1
<1>3. n \in Nat /\ n >= 1
  BY <1>2, WatchAssumption
<1>4. PICK e \in Pin : e = ps[s]
  BY <1>1, <1>2 DEF Pins
<1>5. PICK L \in Seq(Nat) : L = e.lines
  BY <1>4 DEF Pin
<1>6. n <= Len(L) /\ Len(L) <= Len(turns[s])
  BY <1>1, <1>2, <1>4, <1>5 DEF Within
<1>7. Len(L) \in Nat /\ Len(turns[s]) \in Nat /\ stamp[s] \in Seq(Nat) /\ Len(stamp[s]) = Len(turns[s])
  BY StoreTyped, FileTyped
<1>8. L[n] \in Nat
  BY <1>3, <1>6, <1>7
<1>9. stamp[s][n] \in Nat
  <2>1. PICK q \in Seq(Nat) : q = stamp[s]
    BY <1>7
  <2>2. n \in 1..Len(q)
    BY <1>3, <1>6, <1>7, <2>1
  <2> QED BY <2>1, <2>2
<1>10. Rec(ps, u) = [s |-> s, n |-> n, at |-> stamp[s][n], v |-> L[n]]
  BY <1>2, <1>4, <1>5 DEF Rec
<1>11. Rec(ps, u) \in Item /\ Rec(ps, u).s = s /\ Rec(ps, u).n = n
  BY <1>3, <1>8, <1>9, <1>10 DEF Item
<1>12. n \in 1..Len(turns[s])
  BY <1>3, <1>6, <1>7
<1> QED BY <1>2, <1>3, <1>11, <1>12

LEMMA KeysFinite == ASSUME NEW ps PROVE IsFiniteSet(Keys(ps))
<1>1. IsFiniteSet(Sessions) /\ MaxTurns \in Nat
  BY WatchAssumption
<1>2. IsFiniteSet(1..MaxTurns)
  <2>1. 1 \in Int /\ MaxTurns \in Int
    BY <1>1
  <2> QED BY <2>1, FS_Interval
<1>3. IsFiniteSet(Sessions \X (1..MaxTurns))
  BY <1>1, <1>2, FS_Product
<1>4. Keys(ps) \in SUBSET (Sessions \X (1..MaxTurns))
  BY DEF Keys
<1> QED BY <1>3, <1>4, FS_Subset

LEMMA RecordsAre ==
  ASSUME StoreOk, NEW ps \in Pins, Within(ps)
  PROVE  /\ Records(ps) = {Rec(ps, u) : u \in Keys(ps)}
         /\ IsFiniteSet(Records(ps)) /\ Records(ps) \subseteq Item /\ Keyed(Records(ps))
<1>1. Records(ps) = {Rec(ps, u) : u \in Keys(ps)}
  BY DEF Records, Rec, Keys
<1>2. IsFiniteSet(Records(ps))
  <2> DEFINE f == [u \in Keys(ps) |-> Rec(ps, u)]
  <2>1. f \in [Keys(ps) -> Records(ps)] /\ \A t \in Records(ps) : \E u \in Keys(ps) : f[u] = t
    BY <1>1
  <2>2. f \in Surjection(Keys(ps), Records(ps))
    BY <2>1 DEF Surjection
  <2> HIDE DEF f
  <2> QED BY <2>2, KeysFinite, FS_Surjection
<1>3. Records(ps) \subseteq Item
  BY <1>1, KeyIs
<1>4. Keyed(Records(ps))
  <2> SUFFICES ASSUME NEW u \in Keys(ps), NEW v \in Keys(ps),
                      Rec(ps, u).s = Rec(ps, v).s, Rec(ps, u).n = Rec(ps, v).n
               PROVE  Rec(ps, u) = Rec(ps, v)
    BY <1>1 DEF Keyed
  <2>1. u[1] = v[1] /\ u[2] = v[2]
    BY KeyIs
  <2>2. u = v
    BY <2>1, KeyIs
  <2> QED BY <2>2
<1> QED BY <1>1, <1>2, <1>3, <1>4

(* Those in scope *)
LEMMA TurnsAre ==
  ASSUME StoreOk, NEW ps \in Pins, Within(ps)
  PROVE  /\ Turns(ps) = {t \in Records(ps) : Wanted(<<t.s, t.n>>)}
         /\ IsFiniteSet(Turns(ps)) /\ Turns(ps) \subseteq Item /\ Keyed(Turns(ps))
         /\ \A u \in Keys(ps) : Wanted(u) => Rec(ps, u) \in Turns(ps)
<1>1. Turns(ps) = {t \in Records(ps) : Wanted(<<t.s, t.n>>)}
  BY DEF Turns
<1>2. Turns(ps) \in SUBSET Records(ps)
  BY <1>1
<1>3. IsFiniteSet(Turns(ps))
  BY <1>2, RecordsAre, FS_Subset
<1>4. Turns(ps) \subseteq Item /\ Keyed(Turns(ps))
  BY <1>2, RecordsAre DEF Keyed
<1>5. ASSUME NEW u \in Keys(ps), Wanted(u) PROVE Rec(ps, u) \in Turns(ps)
  <2>1. Rec(ps, u) \in Records(ps)
    BY RecordsAre
  <2>2. <<Rec(ps, u).s, Rec(ps, u).n>> = u
    BY KeyIs
  <2> QED BY <1>1, <1>5, <2>1, <2>2
<1> QED BY <1>1, <1>3, <1>4, <1>5

AllTurns == Turns(pg.pinned)

All == Sorted(AllTurns)

LEMMA AllAre ==
  ASSUME StoreOk, pg.pinned \in Pins, Within(pg.pinned)
  PROVE  /\ All \in Seq(Item) /\ Cardinality(AllTurns) \in Nat /\ Len(All) = Cardinality(AllTurns)
         /\ \A t \in AllTurns : \E i \in 1..Len(All) : All[i] = t
         /\ \A i, j \in 1..Len(All) : All[i] = All[j] => i = j
         /\ \A i \in 1..Len(All) : All[i] \in AllTurns
<1>1. IsFiniteSet(AllTurns) /\ AllTurns \subseteq Item /\ Keyed(AllTurns)
  BY TurnsAre DEF AllTurns
<1>2. /\ All \in Seq(AllTurns) /\ Cardinality(AllTurns) \in Nat
      /\ Len(All) = Cardinality(AllTurns)
      /\ \A t \in AllTurns : \E i \in 1..Len(All) : All[i] = t
      /\ \A i, j \in 1..Len(All) : All[i] = All[j] => i = j
  <2> HIDE DEF AllTurns
  <2> QED BY <1>1, SortedIs DEF All
<1>3. All \in Seq(Item) /\ \A i \in 1..Len(All) : All[i] \in AllTurns
  <2> HIDE DEF AllTurns, All
  <2> QED BY <1>1, <1>2
<1> QED BY <1>2, <1>3


(* What was read and what was published stay as they were. *)
LEMMA AllSame ==
  ASSUME StoreOk, Stamped, scene' = scene, pg.pinned \in Pins, Within(pg.pinned),
         pg'.pinned = pg.pinned
  PROVE  /\ AllTurns' = AllTurns /\ All' = All /\ Within(pg.pinned)'
         /\ Keys(pg.pinned)' = Keys(pg.pinned)
<1> DEFINE K == Keys(pg.pinned)
<1>1. ASSUME NEW u \in K
      PROVE  /\ stamp'[u[1]][u[2]] = stamp[u[1]][u[2]]
             /\ turns'[u[1]][u[2]] = turns[u[1]][u[2]]
  <2>1. PICK ps \in Pins : ps = pg.pinned
    OBVIOUS
  <2>2. u[1] \in Sessions /\ u[2] \in 1..Len(turns[u[1]])
    BY <2>1, KeyIs
  <2> QED BY <2>2 DEF Stamped
<1>2. Records(pg.pinned) = {[s |-> t[1], n |-> t[2], at |-> stamp[t[1]][t[2]],
                              v |-> pg.pinned[t[1]].lines[t[2]]] : t \in K}
  BY DEF Records, Keys
<1>3. Records(pg.pinned)' = {[s |-> t[1], n |-> t[2], at |-> stamp'[t[1]][t[2]],
                              v |-> pg.pinned[t[1]].lines[t[2]]] : t \in K}
  BY DEF Records, Keys
<1>4. Records(pg.pinned)' = Records(pg.pinned)
  <2> HIDE DEF K
  <2> QED BY <1>1, <1>2, <1>3
<1>5. ASSUME NEW t \in Records(pg.pinned) PROVE Wanted(<<t.s, t.n>>)' = Wanted(<<t.s, t.n>>)
  <2>1. PICK u \in K : t.s = u[1] /\ t.n = u[2]
    BY <1>2
  <2>2. turns'[t.s][t.n] = turns[t.s][t.n]
    BY <1>1, <2>1
  <2> QED BY <2>2 DEF Wanted, InScope
<1>6. AllTurns' = AllTurns
  <2>1. AllTurns = {t \in Records(pg.pinned) : Wanted(<<t.s, t.n>>)}
    BY DEF AllTurns, Turns
  <2>2. AllTurns' = {t \in Records(pg.pinned)' : Wanted(<<t.s, t.n>>)'}
    BY DEF AllTurns, Turns
  <2> QED BY <1>4, <1>5, <2>1, <2>2
<1>7. All' = All
  BY <1>6 DEF All
<1>8. Within(pg.pinned)'
  <2> SUFFICES ASSUME NEW s \in Sessions, pg.pinned[s] # None
               PROVE  Len(pg.pinned[s].lines) <= Len(turns'[s])
    BY DEF Within
  <2>1. PICK e \in Pin : e = pg.pinned[s]
    BY DEF Pins
  <2>2. PICK L \in Seq(Nat) : L = e.lines
    BY <2>1 DEF Pin
  <2>3. Len(L) <= Len(turns[s]) /\ Len(turns[s]) <= Len(turns'[s])
    BY <2>1, <2>2 DEF Within, Stamped
  <2> QED BY <2>1, <2>2, <2>3
<1>9. Keys(pg.pinned)' = Keys(pg.pinned)
  BY DEF Keys
<1> QED BY <1>6, <1>7, <1>8, <1>9

LEMMA WantedSame ==
  ASSUME StoreOk, Stamped, scene' = scene, NEW t \in InStore
  PROVE  Wanted(t)' = Wanted(t)
<1>1. PICK s \in Sessions, n \in 1..MaxTurns : t = <<s, n>> /\ n <= Published(s)
  BY DEF InStore
<1>2. n \in 1..Len(turns[s])
  BY <1>1, StoreTyped, PublishedType
<1>3. turns'[s][n] = turns[s][n]
  BY <1>2 DEF Stamped
<1> QED BY <1>1, <1>3 DEF Wanted, InScope

(* A set of numbers has a least one. *)
LEMMA LeastNumber ==
  ASSUME NEW T, T \subseteq Nat, T # {}
  PROVE  \E x \in T : \A y \in T : x <= y
<1>1. PICK R : R = {r \in Nat \X Nat : r[1] < r[2]}
  OBVIOUS
<1>2. OpToRel(<, Nat) = R
  BY <1>1 DEF OpToRel
<1>3. IsWellFoundedOn(R, Nat)
  BY <1>2, NatLessThanWellFounded
<1>4. PICK x \in T : \A y \in T : ~(<<y, x>> \in R)
  BY <1>3, WFMin
<1>5. ASSUME NEW y \in T PROVE x <= y
  <2>1. x \in Nat /\ y \in Nat
    OBVIOUS
  <2>2. <<y, x>> \in Nat \X Nat /\ <<y, x>>[1] = y /\ <<y, x>>[2] = x
    BY <2>1
  <2>3. ~(y < x)
    BY <1>1, <1>4, <2>2
  <2> QED BY <2>1, <2>3
<1> QED BY <1>5

(* The first of the sessions that are left is one of them. *)
LEMMA FirstIs == ASSUME NEW T, T \subseteq Sessions, T # {} PROVE First(T) \in T
<1>1. \A s \in T : Rank(s) \in Nat
  BY RankIs
<1> DEFINE R == {Rank(s) : s \in T}
<1>2. R \subseteq Nat /\ R # {}
  BY <1>1
<1>3. \E m \in R : \A n \in R : m <= n
  <2> HIDE DEF R
  <2> QED BY <1>2, LeastNumber
<1>4. \E s \in T : \A t \in T : Rank(s) <= Rank(t)
  BY <1>3
<1> QED BY <1>4 DEF First


-----------------------------------------------------------------------------
(* The invariant of a traversal *)

Shape ==
    /\ Known /\ pg.kind \in Kinds /\ pg.limit \in Nat
    /\ pg.pinned \in Pins /\ pg.seen \in Pins /\ Within(pg.pinned)
    /\ pg.had \subseteq InStore /\ pg.short \in BOOLEAN
    /\ pg.pc # "done" => pg.result = "none"

(* What was there is pinned, or is still to be read, or something is known to
   be left out. *)
Covers ==
    /\ pg.todo \subseteq Sessions
    /\ \A t \in pg.had : \/ pg.pc = "read" /\ t[1] \in pg.todo
                         \/ pg.short \/ t \in Keys(pg.pinned)

Has(f, e) ==
    /\ f.id = e.id /\ Len(e.lines) <= Len(f.lines)
    /\ \A i \in 1..Len(e.lines) : f.lines[i] = e.lines[i]

HasPart(f, e) ==
    e.part # None => IF Len(e.lines) < Len(f.lines) THEN f.lines[Len(e.lines) + 1] = e.part
                     ELSE f.tail = e.part

Intact ==
    \A s \in Sessions : pg.pinned[s] # None =>
        feed[s] # Gone /\ Has(file[s], pg.pinned[s]) /\ HasPart(file[s], pg.pinned[s])

(* What was read again is what was pinned. *)
Repinned ==
    /\ \A s \in pg.todo : pg.pinned[s] # None
    /\ \A s \in Sessions : \/ s \in pg.todo \/ pg.touched \/ pg.seen[s] = pg.pinned[s]

Leads(q, r) == Len(q) <= Len(r) /\ \A i \in 1..Len(q) : q[i] = r[i]

(* Where the last page ended *)
EndsAt(q, t, n) == Len(q) # 0 /\ t = q[Len(q)] /\ n = Len(All)

ListInv ==
    /\ pg.turn[1] = None /\ Covers
    /\ pg.result \in {"none", "changed", "complete"}
    /\ pg.items \in Seq(Item) /\ Leads(pg.items, All)
    /\ pg.pc = "read" => pg.after = None
    /\ pg.pc # "done" => IF pg.after = None THEN pg.items = <<>>
                         ELSE EndsAt(pg.items, pg.after, pg.total)
    /\ pg.pc = "pin" => Repinned
    /\ ~pg.touched => Intact
    /\ pg.result = "changed" => pg.touched
    /\ pg.result = "complete" => Len(pg.items) = Len(All)

(* Those of H that are not among the items q *)
LeftOut(H, q) == H \ {<<q[i].s, q[i].n>> : i \in DOMAIN q}

Missing == LeftOut({t \in pg.had : Wanted(t)}, pg.items)

ContextInv ==
    /\ Covers /\ pg.result \in {"none", "limited", "complete"}
    /\ pg.result = "complete" =>
          pg.total \in Nat /\ IsFiniteSet(Missing) /\ Cardinality(Missing) <= pg.total

Piece == [v : Nat, from : Nat, to : Nat]

(* The pieces q join, and are of one version but if the last says otherwise. *)
Joined1(q, mixed) ==
    \A i \in 1..Len(q) : /\ q[i].from = IF i = 1 THEN 0 ELSE q[i - 1].to
                         /\ q[i].v = q[1].v \/ mixed

(* Where the last piece ended, and of what it was *)
Follows(q, at, v, mixed) == Len(q) # 0 /\ at = q[Len(q)].to /\ (q[1].v = v \/ mixed)

Live(s, n, v) == feed[s] # Gone /\ n <= Len(file[s].lines) /\ file[s].lines[n] = v

Mixed == pg.kind = "actions" /\ pg.touched

RecordInv ==
    /\ pg.turn \in Sessions \X (1..MaxTurns)
    /\ pg.result \in {"none", "complete", "changed", "absent", "incomplete", "failed"}
    /\ pg.kind = "show" => Covers
    /\ pg.kind = "show" /\ ~pg.touched /\ pg.pinned[pg.turn[1]] # None =>
          feed[pg.turn[1]] # Gone /\ Has(file[pg.turn[1]], pg.pinned[pg.turn[1]])
    /\ pg.items \in Seq(Piece) /\ Joined1(pg.items, Mixed)
    /\ pg.pc = "read" => pg.items = <<>> /\ pg.at = 0
    /\ pg.pc = "cursor" =>
          /\ pg.after \in Nat /\ pg.at \in Nat
          /\ Follows(pg.items, pg.at, pg.after, Mixed)
          /\ ~pg.touched => Live(pg.turn[1], pg.turn[2], pg.after)
    /\ pg.result = "absent" => ~(pg.turn \in pg.had /\ Wanted(pg.turn))
    /\ pg.result = "changed" => pg.touched

Checked ==
    \A t \in pg.had : t \in Keys(pg.pinned) /\ (pg.pinned[t[1]].part = None \/ pg.short)

HealthInv ==
    /\ pg.stage \in 0..4 /\ pg.pc \in {"list", "read", "done"}
    /\ pg.result \in {"none", "ok", "degraded", "refused"}
    /\ pg.pc = "read" => pg.stage # 0 /\ (~pg.touched => pg.todo \subseteq There(Stages[pg.stage]))
    /\ pg.pc = "read" /\ pg.stage = 3 =>
          /\ pg.todo \subseteq Sessions
          /\ \A t \in pg.had : \/ t[1] \in pg.todo
                               \/ t \in Keys(pg.pinned)
                                    /\ (pg.pinned[t[1]].part = None \/ pg.short)
    /\ pg.pc # "done" /\ (pg.stage = 4 \/ (pg.stage = 3 /\ pg.pc = "list")) => Checked
    /\ pg.result = "ok" => Checked /\ ~pg.short
    /\ pg.result = "refused" =>
          pg.touched \/ faults > 0 \/ (pg.total \in Sessions /\ ~Fits(pg.total))

Tracked ==
    /\ Shape
    /\ pg.kind = "list" => ListInv
    /\ pg.kind = "context" => ContextInv
    /\ pg.kind \in {"show", "evidence", "actions"} => RecordInv
    /\ pg.kind = "health" => HealthInv

PagesInv == StoreOk /\ (pg = NoPages \/ Tracked)

-----------------------------------------------------------------------------
(* What the store does to a traversal *)

LEMMA HasKept ==
  ASSUME NEW f \in File, NEW g \in File, NEW e \in Pin, Has(f, e), Keeps(f, g)
  PROVE  /\ Has(g, e)
         /\ HasPart(f, e) /\ KeepsPart(f, g) => HasPart(g, e)
<1>1. PICK L \in Seq(Nat), M \in Seq(Nat), N \in Seq(Nat) :
          L = e.lines /\ M = f.lines /\ N = g.lines
  BY DEF File, Pin
<1>2. /\ Len(L) \in Nat /\ Len(M) \in Nat /\ Len(N) \in Nat
      /\ Len(L) <= Len(M) /\ Len(M) <= Len(N)
      /\ \A i \in 1..Len(L) : M[i] = L[i]
      /\ \A i \in 1..Len(M) : N[i] = M[i]
  BY <1>1 DEF Has, Keeps
<1>3. \A i \in 1..Len(L) : N[i] = L[i]
  BY <1>2
<1>4. Has(g, e)
  BY <1>1, <1>2, <1>3 DEF Has, Keeps
<1>5. ASSUME HasPart(f, e), KeepsPart(f, g) PROVE HasPart(g, e)
  <2> SUFFICES ASSUME e.part # None
               PROVE  IF Len(L) < Len(N) THEN N[Len(L) + 1] = e.part ELSE g.tail = e.part
    BY <1>1 DEF HasPart
  <2>1. IF Len(L) < Len(M) THEN M[Len(L) + 1] = e.part ELSE f.tail = e.part
    BY <1>1, <1>5 DEF HasPart
  <2>2. f.tail # None => IF Len(M) < Len(N) THEN N[Len(M) + 1] = f.tail ELSE g.tail = f.tail
    BY <1>1, <1>5 DEF KeepsPart
  <2>3. CASE Len(L) < Len(M)
    BY <1>2, <2>1, <2>3
  <2>4. CASE ~(Len(L) < Len(M))
    <3>1. Len(L) = Len(M) /\ f.tail = e.part
      BY <1>2, <2>1, <2>4
    <3> QED BY <2>2, <3>1
  <2> QED BY <2>3, <2>4
<1> QED BY <1>4, <1>5

LEMMA FilesTyped ==
  ASSUME StoreOk, NEW s \in Sessions
  PROVE  /\ file[s] \in File /\ Len(file[s].lines) = Published(s) /\ Published(s) \in Nat
         /\ Published(s) <= Len(turns[s]) /\ Len(turns[s]) \in Nat
         /\ feed[s] = Gone => Published(s) = 0
BY StoreTyped, FileTyped DEF Published

(* A feed that is not lost has what was published. *)
LEMMA AroundKeeps ==
  ASSUME StoreOk, FilesOk', StoreTypes', Around, NEW s \in Sessions, ~Lost(s)
  PROVE  /\ Kept(s) /\ PartKept(s) /\ file[s] \in File /\ file'[s] \in File
         /\ Published(s) <= Published(s)'
<1>1. Kept(s) /\ PartKept(s)
  BY DEF Around
<1>2. file[s] \in File /\ Len(file[s].lines) = Published(s)
  BY FilesTyped
<1>3. file'[s] \in File /\ Len(file'[s].lines) = Published(s)'
  BY DEF FilesOk
<1>4. Published(s)' \in Nat
  <2>1. feed'[s] \in Nat \union {Gone}
    BY DEF StoreTypes
  <2> QED BY <2>1 DEF Published
<1>5. Published(s) <= Published(s)'
  <2>1. CASE feed[s] = Gone
    BY <1>4, <2>1 DEF Published
  <2>2. CASE feed[s] # Gone
    BY <1>1, <1>2, <1>3, <2>2 DEF Kept, Keeps
  <2> QED BY <2>1, <2>2
<1> QED BY <1>1, <1>2, <1>3, <1>5

LEMMA AroundShape ==
  ASSUME StoreOk, FilesOk', StoreTypes', Around, Shape
  PROVE  /\ Shape' /\ AllTurns' = AllTurns /\ All' = All
         /\ Keys(pg.pinned)' = Keys(pg.pinned)
         /\ \A t \in pg.had : Wanted(t)' = Wanted(t)
         /\ pg'.had \subseteq pg.had
<1>1. Marked /\ Stamped /\ scene' = scene
  BY DEF Around, Stays
<1>2. /\ AllTurns' = AllTurns /\ All' = All /\ Within(pg.pinned)'
      /\ Keys(pg.pinned)' = Keys(pg.pinned)
  BY <1>1, AllSame DEF Shape, Marked
<1>3. \A t \in pg.had : Wanted(t)' = Wanted(t)
  BY <1>1, WantedSame DEF Shape
<1>4. pg'.had \subseteq InStore'
  <2> SUFFICES ASSUME NEW t \in pg'.had PROVE t \in InStore'
    OBVIOUS
  <2>1. t \in pg.had /\ t \in InStore
    BY <1>1 DEF Marked, Shape
  <2>2. PICK s \in Sessions, n \in 1..MaxTurns : t = <<s, n>> /\ n <= Published(s)
    BY <2>1 DEF InStore
  <2>3. ~Lost(s)
    BY <2>2 DEF Lost
  <2>4. Published(s) <= Published(s)' /\ Published(s) \in Nat
    BY <2>3, AroundKeeps, FilesTyped
  <2>5. n <= Published(s)'
    <3>1. Published(s)' \in Nat
      <4>1. feed'[s] \in Nat \union {Gone}
        BY DEF StoreTypes
      <4> QED BY <4>1 DEF Published
    <3>2. n \in Nat
      BY WatchAssumption
    <3> QED BY <2>2, <2>4, <3>1, <3>2
  <2>6. t \in Sessions \X (1..MaxTurns) /\ t[2] <= Published(t[1])'
    BY <2>2, <2>5
  <2> QED BY <2>6 DEF InStore
<1>5. Shape'
  BY <1>1, <1>2, <1>4 DEF Shape, Marked, Known
<1> QED BY <1>1, <1>2, <1>3, <1>5 DEF Marked


LEMMA AroundCovers ==
  ASSUME StoreOk, FilesOk', StoreTypes', Around, Shape, Covers
  PROVE  Covers'
<1>1. Marked /\ Keys(pg.pinned)' = Keys(pg.pinned) /\ pg'.had \subseteq pg.had
  BY AroundShape DEF Around
<1>2. pg'.todo = pg.todo /\ pg'.pc = pg.pc /\ pg'.short = pg.short
  BY <1>1 DEF Marked
<1> QED BY <1>1, <1>2 DEF Covers

(* What is pinned of a feed that is not lost is still there. *)
LEMMA PinKept ==
  ASSUME StoreOk, FilesOk', StoreTypes', Around, Shape, NEW s \in Sessions, ~Lost(s),
         pg.pinned[s] # None, feed[s] # Gone, Has(file[s], pg.pinned[s])
  PROVE  /\ feed'[s] # Gone /\ Has(file'[s], pg.pinned[s])
         /\ HasPart(file[s], pg.pinned[s]) /\ KeepsPart(file[s], file'[s]) =>
               HasPart(file'[s], pg.pinned[s])
<1>1. pg.pinned[s] \in Pin
  BY DEF Shape, Pins
<1>2. Kept(s) /\ file[s] \in File /\ file'[s] \in File
  BY AroundKeeps
<1>3. Keeps(file[s], file'[s]) /\ feed'[s] # Gone
  BY <1>2 DEF Kept
<1> QED BY <1>1, <1>2, <1>3, HasKept

LEMMA AroundList ==
  ASSUME StoreOk, FilesOk', StoreTypes', Around, Shape, pg.kind = "list", ListInv
  PROVE  ListInv'
<1>1. /\ Marked /\ All' = All /\ Covers'
  BY AroundShape, AroundCovers DEF Around, ListInv
<1>2. /\ pg'.kind = pg.kind /\ pg'.turn = pg.turn /\ pg'.pc = pg.pc /\ pg'.todo = pg.todo
      /\ pg'.pinned = pg.pinned /\ pg'.seen = pg.seen
      /\ pg'.after = pg.after /\ pg'.total = pg.total
      /\ pg'.items = pg.items /\ pg'.result = pg.result
      /\ pg.touched => pg'.touched
  BY <1>1 DEF Marked
<1>3. ASSUME ~pg'.touched, NEW s \in Sessions, pg.pinned[s] # None
      PROVE  feed'[s] # Gone /\ Has(file'[s], pg.pinned[s]) /\ HasPart(file'[s], pg.pinned[s])
  <2>1. ~pg.touched /\ GoesBy(s)
    BY <1>2, <1>3 DEF GoesBy, ListInv
  <2>2. ~Lost(s)
    BY <1>3, <2>1 DEF Lost
  <2>3. feed[s] # Gone /\ Has(file[s], pg.pinned[s]) /\ HasPart(file[s], pg.pinned[s])
    BY <1>3, <2>1 DEF ListInv, Intact
  <2>4. /\ feed'[s] # Gone /\ Has(file'[s], pg.pinned[s])
        /\ KeepsPart(file[s], file'[s]) => HasPart(file'[s], pg.pinned[s])
    BY <1>3, <2>2, <2>3, PinKept
  <2>5. CASE KeepsPart(file[s], file'[s])
    BY <2>4, <2>5
  <2>6. CASE ~KeepsPart(file[s], file'[s])
    <3>1. PartKept(s)
      BY <2>2, AroundKeeps
    <3>2. pg.pinned[s].part = None
      BY <1>3, <2>6, <3>1 DEF PartKept
    <3> QED BY <2>4, <3>2 DEF HasPart
  <2> QED BY <2>5, <2>6
<1>4. ~pg'.touched => Intact'
  BY <1>2, <1>3 DEF Intact
<1>5. EndsAt(pg.items, pg.after, pg.total)' = EndsAt(pg.items, pg.after, pg.total)
  BY <1>1, <1>2 DEF EndsAt
<1>6. Leads(pg.items, All)' = Leads(pg.items, All)
  BY <1>1, <1>2 DEF Leads
<1>7. pg.pc = "pin" => Repinned'
  BY <1>2 DEF ListInv, Repinned
<1>8. pg.result = "complete" => Len(pg'.items) = Len(All')
  BY <1>1, <1>2 DEF ListInv
<1> QED BY <1>1, <1>2, <1>4, <1>5, <1>6, <1>7, <1>8 DEF ListInv

LEMMA AroundContext ==
  ASSUME StoreOk, FilesOk', StoreTypes', Around, Shape, ContextInv
  PROVE  ContextInv'
<1>1. /\ Marked /\ Covers' /\ pg'.had \subseteq pg.had
      /\ \A t \in pg.had : Wanted(t)' = Wanted(t)
  BY AroundShape, AroundCovers DEF Around, ContextInv
<1>2. pg'.result = pg.result /\ pg'.total = pg.total /\ pg'.items = pg.items
  BY <1>1 DEF Marked
<1>3. Missing' \in SUBSET Missing
  BY <1>1, <1>2 DEF Missing, LeftOut
<1>4. IsFiniteSet(Missing) =>
         /\ IsFiniteSet(Missing') /\ Cardinality(Missing') <= Cardinality(Missing)
         /\ Cardinality(Missing') \in Nat /\ Cardinality(Missing) \in Nat
  <2> HIDE DEF Missing
  <2> QED BY <1>3, FS_Subset, FS_CardinalityType
<1> QED BY <1>1, <1>2, <1>4 DEF ContextInv

LEMMA AroundRecord ==
  ASSUME StoreOk, FilesOk', StoreTypes', Around, Shape, RecordInv
  PROVE  RecordInv'
<1>1. /\ Marked /\ (pg.kind = "show" => Covers') /\ pg'.had \subseteq pg.had
      /\ \A t \in pg.had : Wanted(t)' = Wanted(t)
  BY AroundShape, AroundCovers DEF Around, RecordInv
<1>2. /\ pg'.kind = pg.kind /\ pg'.turn = pg.turn /\ pg'.pc = pg.pc
      /\ pg'.pinned = pg.pinned /\ pg'.at = pg.at /\ pg'.after = pg.after
      /\ pg'.items = pg.items /\ pg'.result = pg.result
      /\ pg.touched => pg'.touched
  BY <1>1 DEF Marked
<1>3. Mixed => Mixed'
  BY <1>2 DEF Mixed
<1>4. PICK s \in Sessions, n \in 1..MaxTurns : pg.turn = <<s, n>>
  BY DEF RecordInv
<1>5. pg.turn[1] = s /\ pg.turn[2] = n /\ n \in Nat
  BY <1>4, WatchAssumption
<1>6. ASSUME pg.kind = "show", ~pg'.touched, pg.pinned[s] # None
      PROVE  feed'[s] # Gone /\ Has(file'[s], pg.pinned[s])
  <2>1. ~pg.touched /\ GoesBy(s)
    BY <1>2, <1>5, <1>6 DEF GoesBy
  <2>2. ~Lost(s)
    BY <1>6, <2>1 DEF Lost
  <2>3. feed[s] # Gone /\ Has(file[s], pg.pinned[s])
    BY <1>5, <1>6, <2>1 DEF RecordInv
  <2> QED BY <1>6, <2>2, <2>3, PinKept
<1>7. ASSUME pg.pc = "cursor", ~pg'.touched PROVE Live(s, n, pg.after)'
  <2>1. ~pg.touched /\ pg.after \in Nat /\ Live(s, n, pg.after)
    BY <1>2, <1>5, <1>7 DEF RecordInv
  <2>2. GoesBy(s)
    BY <1>5, <2>1, NoneIs DEF GoesBy
  <2>3. ~Lost(s)
    BY <1>7, <2>2 DEF Lost
  <2>4. Kept(s) /\ file[s] \in File /\ file'[s] \in File
    BY <2>3, AroundKeeps
  <2>5. feed'[s] # Gone /\ Keeps(file[s], file'[s])
    BY <2>1, <2>4 DEF Live, Kept
  <2>6. PICK L \in Seq(Nat), M \in Seq(Nat) : L = file[s].lines /\ M = file'[s].lines
    BY <2>4 DEF File
  <2>7. Len(L) <= Len(M) /\ (\A i \in 1..Len(L) : M[i] = L[i]) /\ n <= Len(L) /\ L[n] = pg.after
    BY <2>1, <2>5, <2>6 DEF Keeps, Live
  <2>8. n <= Len(M) /\ M[n] = pg.after
    BY <1>4, <1>5, <2>7
  <2> QED BY <1>2, <2>5, <2>6, <2>8 DEF Live
<1>8. Joined1(pg.items, Mixed)'
  <2>1. Joined1(pg.items, Mixed)
    BY DEF RecordInv
  <2> QED BY <1>2, <1>3, <2>1 DEF Joined1
<1>9. pg.pc = "cursor" => Follows(pg.items, pg.at, pg.after, Mixed)'
  <2>1. pg.pc = "cursor" => Follows(pg.items, pg.at, pg.after, Mixed)
    BY DEF RecordInv
  <2> QED BY <1>2, <1>3, <2>1 DEF Follows
<1>10. pg'.result = "absent" => ~(pg'.turn \in pg'.had /\ Wanted(pg.turn)')
  BY <1>1, <1>2 DEF RecordInv
<1> QED BY <1>1, <1>2, <1>5, <1>6, <1>7, <1>8, <1>9, <1>10 DEF RecordInv


LEMMA ThereIs ==
  /\ There(Stages[1]) = {s \in Sessions : member[s] # Gone}
  /\ There(Stages[2]) = {a \in Actors : lease[a] # Gone}
  /\ There(Stages[3]) = {s \in Sessions : feed[s] # Gone}
  /\ There(Stages[4]) = {s \in Sessions : cursor[s] # Gone}
<1>1. /\ Stages[1] = "sessions" /\ Stages[2] = "active" /\ Stages[3] = "feed"
      /\ Stages[4] = "nudge"
  BY DEF Stages
<1> QED BY <1>1 DEF There

(* What is listed stays there. *)
LEMMA ThereStays ==
  ASSUME Stays, \A a \in Actors : lease[a] # Gone => lease'[a] # Gone,
         \A s \in Sessions : feed[s] # Gone => feed'[s] # Gone, NEW n \in 1..4
  PROVE  There(Stages[n]) \subseteq There(Stages[n])'
<1>1. /\ There(Stages[1])' = {s \in Sessions : member'[s] # Gone}
      /\ There(Stages[2])' = {a \in Actors : lease'[a] # Gone}
      /\ There(Stages[3])' = {s \in Sessions : feed'[s] # Gone}
      /\ There(Stages[4])' = {s \in Sessions : cursor'[s] # Gone}
  <2>1. /\ Stages[1] = "sessions" /\ Stages[2] = "active" /\ Stages[3] = "feed"
        /\ Stages[4] = "nudge"
    BY DEF Stages
  <2> QED BY <2>1 DEF There
<1>2. CASE n = 1
  BY <1>1, <1>2, ThereIs DEF Stays
<1>3. CASE n = 2
  BY <1>1, <1>3, ThereIs
<1>4. CASE n = 3
  BY <1>1, <1>4, ThereIs
<1>5. CASE n = 4
  BY <1>1, <1>5, ThereIs DEF Stays
<1> QED BY <1>2, <1>3, <1>4, <1>5

LEMMA AroundHealth ==
  ASSUME StoreOk, FilesOk', StoreTypes', Around, Shape, pg.kind = "health", HealthInv
  PROVE  HealthInv'
<1>1. /\ Marked /\ Keys(pg.pinned)' = Keys(pg.pinned) /\ pg'.had \subseteq pg.had
  BY AroundShape DEF Around
<1>2. /\ pg'.stage = pg.stage /\ pg'.pc = pg.pc /\ pg'.todo = pg.todo
      /\ pg'.pinned = pg.pinned /\ pg'.short = pg.short /\ pg'.total = pg.total
      /\ pg'.limit = pg.limit /\ pg'.result = pg.result
      /\ pg.touched => pg'.touched
  BY <1>1 DEF Marked
<1>3. ASSUME ~pg'.touched, NEW s \in Sessions
      PROVE  ~Lost(s) /\ Kept(s) /\ file[s] \in File /\ file'[s] \in File
  <2>1. GoesBy(s)
    BY DEF GoesBy
  <2>2. ~Lost(s)
    BY <1>3, <2>1 DEF Lost
  <2> QED BY <2>2, AroundKeeps
<1>4. Checked => Checked'
  BY <1>1, <1>2 DEF Checked
<1>5. ASSUME pg.pc = "read", ~pg'.touched PROVE pg.todo \subseteq There(Stages[pg.stage])'
  <2>1. ~pg.touched /\ pg.todo \subseteq There(Stages[pg.stage]) /\ pg.stage \in 1..4
    BY <1>2, <1>5 DEF HealthInv
  <2>2. Stays /\ \A a \in Actors : lease[a] # Gone => lease'[a] # Gone
    BY <1>5 DEF Around
  <2>3. \A s \in Sessions : feed[s] # Gone => feed'[s] # Gone
    BY <1>3, <1>5 DEF Kept
  <2>4. PICK n \in 1..4 : n = pg.stage
    BY <2>1
  <2>5. There(Stages[n]) \subseteq There(Stages[n])'
    BY <2>2, <2>3, ThereStays
  <2>6. There(Stages[pg.stage])' = There(Stages[n])'
    BY <1>2, <2>4 DEF There
  <2> QED BY <2>1, <2>4, <2>5, <2>6
<1>6. ASSUME pg.result = "refused"
      PROVE  pg'.touched \/ faults' > 0 \/ (pg.total \in Sessions /\ ~Fits(pg.total)')
  <2>1. CASE pg.touched \/ faults > 0
    <3>1. faults \in Nat /\ faults' \in Nat /\ faults <= faults'
      BY StoreTyped, WatchAssumption DEF Around, Stays, StoreTypes
    <3> QED BY <1>2, <2>1, <3>1
  <2>2. CASE ~pg'.touched /\ pg.total \in Sessions /\ ~Fits(pg.total)
    <3>1. PICK s \in Sessions : s = pg.total
      BY <2>2
    <3>2. /\ Kept(s) /\ file[s] \in File /\ file'[s] \in File
          /\ Len(file[s].lines) = Published(s)
      BY <1>3, <2>2, FilesTyped
    <3>3. pg.limit \in Nat
      BY DEF Shape
    <3>4. PICK L \in Seq(Nat), M \in Seq(Nat) : L = file[s].lines /\ M = file'[s].lines
      BY <3>2 DEF File
    <3>5. ~(Len(L) <= pg.limit)
      BY <2>2, <3>1, <3>4 DEF Fits
    <3>6. Len(L) # 0
      BY <3>3, <3>5
    <3>7. feed[s] # Gone
      BY <3>2, <3>4, <3>6 DEF Published
    <3>8. Len(L) <= Len(M)
      BY <3>2, <3>4, <3>7 DEF Kept, Keeps
    <3>9. ~(Len(M) <= pg.limit)
      BY <3>3, <3>5, <3>8
    <3> QED BY <1>2, <2>2, <3>1, <3>4, <3>9 DEF Fits
  <2>3. pg.touched \/ faults > 0 \/ (pg.total \in Sessions /\ ~Fits(pg.total))
    BY <1>6 DEF HealthInv
  <2> QED BY <2>1, <2>2, <2>3
<1>7. pg.pc = "read" /\ pg.stage = 3 =>
          /\ pg'.todo \subseteq Sessions
          /\ \A t \in pg'.had : \/ t[1] \in pg'.todo
                                \/ t \in Keys(pg.pinned)'
                                    /\ (pg'.pinned[t[1]].part = None \/ pg'.short)
  BY <1>1, <1>2 DEF HealthInv
<1> QED BY <1>2, <1>4, <1>5, <1>6, <1>7 DEF HealthInv

(* The store goes on while a traversal does. *)
LEMMA AroundStep ==
  ASSUME StoreOk, Tracked, StoreOk', Around
  PROVE  Tracked'
<1>1. FilesOk' /\ StoreTypes' /\ Shape
  BY DEF StoreOk, WatchInv, Tracked
<1>2. Shape' /\ pg'.kind = pg.kind
  BY <1>1, AroundShape DEF Around, Marked
<1>3. pg.kind = "list" => ListInv'
  BY <1>1, AroundList DEF Tracked
<1>4. pg.kind = "context" => ContextInv'
  BY <1>1, AroundContext DEF Tracked
<1>5. pg.kind \in {"show", "evidence", "actions"} => RecordInv'
  BY <1>1, AroundRecord DEF Tracked
<1>6. pg.kind = "health" => HealthInv'
  BY <1>1, AroundHealth DEF Tracked
<1> QED BY <1>2, <1>3, <1>4, <1>5, <1>6 DEF Tracked


-----------------------------------------------------------------------------
(* A page is read from a store that stands still. *)

LEMMA PagingStore ==
  ASSUME StoreOk, Paging, faults' = faults \/ (faults < MaxFaults /\ faults' = faults + 1)
  PROVE  StoreOk' /\ UNCHANGED <<scene, turns, feed, member, lease, cursor, file, stamp>>
<1>1. /\ UNCHANGED <<scene, now, member, turns, feed, marker, lease, cursor>>
      /\ UNCHANGED <<eng, out, ghost, file, stamp>>
  BY DEF Paging, store
<1>2. faults' \in 0..MaxFaults
  <2>1. faults \in 0..MaxFaults /\ MaxFaults \in Nat
    BY WatchAssumption DEF StoreOk, WatchInv, StoreTypes
  <2> QED BY <2>1
<1>3. StoreTypes'
  BY <1>1, <1>2 DEF StoreOk, WatchInv, StoreTypes
<1>4. WatcherTypes'
  BY <1>1 DEF StoreOk, WatchInv, WatcherTypes
<1>5. \A w \in Sessions : Remembers(w, eng[w], ghost[w], out[w])'
  <2> SUFFICES ASSUME NEW w \in Sessions PROVE Remembers(w, eng[w], ghost[w], out[w])'
    OBVIOUS
  <2>1. Remembers(w, eng[w], ghost[w], out[w])
    BY DEF StoreOk, WatchInv
  <2> QED BY <1>1, <2>1 DEF Remembers, Bounds, JoinsTold, IncidentsTold, TurnsTold, InScope, IsEchoTurn
<1>6. Places' /\ FilesOk'
  BY <1>1 DEF StoreOk, Places, FilesOk, Published
<1> QED BY <1>1, <1>3, <1>4, <1>5, <1>6 DEF StoreOk, WatchInv

LEMMA SortedTurns ==
  ASSUME StoreOk, NEW ps \in Pins, Within(ps), NEW A, A = Sorted(Turns(ps))
  PROVE  /\ A \in Seq(Item) /\ Len(A) \in Nat /\ Len(A) = Cardinality(Turns(ps))
         /\ \A t \in Turns(ps) : \E i \in 1..Len(A) : A[i] = t
         /\ \A i, j \in 1..Len(A) : A[i] = A[j] => i = j
         /\ \A i \in 1..Len(A) : A[i] \in Turns(ps)
         /\ Keyed(Turns(ps))
<1>1. IsFiniteSet(Turns(ps)) /\ Turns(ps) \subseteq Item /\ Keyed(Turns(ps))
  BY TurnsAre
<1>2. /\ A \in Seq(Turns(ps)) /\ Cardinality(Turns(ps)) \in Nat
      /\ Len(A) = Cardinality(Turns(ps))
      /\ \A t \in Turns(ps) : \E i \in 1..Len(A) : A[i] = t
      /\ \A i, j \in 1..Len(A) : A[i] = A[j] => i = j
  BY <1>1, SortedIs
<1> HIDE DEF Turns
<1>3. A \in Seq(Item) /\ \A i \in 1..Len(A) : A[i] \in Turns(ps)
  BY <1>1, <1>2
<1> QED BY <1>1, <1>2, <1>3

LEMMA PagingSame ==
  ASSUME Paging, NEW ps, pg'.pinned = ps
  PROVE  /\ All' = Sorted(Turns(ps)) /\ InStore' = InStore
         /\ Keys(pg.pinned)' = Keys(ps) /\ Within(pg.pinned)' = Within(ps)
<1>1. UNCHANGED <<scene, turns, feed, file, stamp>>
  BY DEF Paging, store
<1>2. AllTurns' = Turns(ps)
  BY <1>1 DEF AllTurns, Turns, Records, Wanted, InScope
<1>3. InStore' = InStore
  BY <1>1 DEF InStore, Published
<1>4. Keys(pg.pinned)' = Keys(ps) /\ Within(pg.pinned)' = Within(ps)
  BY <1>1 DEF Keys, Within
<1> QED BY <1>2, <1>3, <1>4 DEF All

LEMMA PagingWanted == ASSUME Paging, NEW t PROVE Wanted(t)' = Wanted(t)
BY DEF Paging, store, Wanted, InScope

(* The traversal goes on: what it is about stays. *)
GoesOn ==
    /\ DOMAIN pg' = Names
    /\ pg'.kind = pg.kind /\ pg'.turn = pg.turn /\ pg'.limit = pg.limit
    /\ pg'.had = pg.had /\ pg'.touched = pg.touched

LEMMA PagingShape ==
  ASSUME StoreOk, Shape, Paging, GoesOn, NEW ps \in Pins, Within(ps), pg'.pinned = ps,
         pg'.seen \in Pins, pg'.short \in BOOLEAN, pg'.pc # "done" => pg'.result = "none"
  PROVE  Shape'
<1>1. InStore' = InStore /\ Within(pg.pinned)'
  BY PagingSame
<1> QED BY <1>1 DEF Shape, GoesOn, Known

LEMMA WholeIs ==
  ASSUME StoreOk, NEW s \in Sessions
  PROVE  /\ Whole(s) \in Pin /\ Has(file[s], Whole(s)) /\ HasPart(file[s], Whole(s))
         /\ Len(Whole(s).lines) <= Len(turns[s]) /\ Whole(s).part = file[s].tail
         /\ \A n \in Nat : n <= Published(s) => n <= Len(Whole(s).lines)
         /\ Whole(s).lines = file[s].lines
<1>1. file[s] \in File /\ Len(file[s].lines) = Published(s) /\ Published(s) \in Nat
      /\ Published(s) <= Len(turns[s])
  BY FilesTyped
<1>2. Whole(s) \in Pin
  BY <1>1 DEF Whole, File, Pin
<1>3. Whole(s).id = file[s].id /\ Whole(s).lines = file[s].lines /\ Whole(s).part = file[s].tail
  BY DEF Whole
<1>4. Has(file[s], Whole(s))
  BY <1>1, <1>3 DEF Has
<1>5. HasPart(file[s], Whole(s))
  BY <1>1, <1>3 DEF HasPart
<1> QED BY <1>1, <1>2, <1>3, <1>4, <1>5

(* qs is ps with all that is in the feed of s. *)
PinnedAs(ps, s, qs) ==
    /\ qs \in Pins /\ Within(qs) /\ Keys(ps) \subseteq Keys(qs) \union ({s} \X (1..MaxTurns))
    /\ \A t \in InStore : t[1] = s => t \in Keys(qs)
    /\ \A r \in Sessions \ {s} : qs[r] = ps[r]
    /\ qs[s] = Whole(s) /\ qs[s] # None

LEMMA PinIs ==
  ASSUME StoreOk, NEW ps \in Pins, Within(ps), NEW s \in Sessions,
         NEW qs, qs = [ps EXCEPT ![s] = Whole(s)]
  PROVE  PinnedAs(ps, s, qs)
<1>1. /\ Whole(s) \in Pin /\ Len(Whole(s).lines) <= Len(turns[s])
      /\ \A n \in Nat : n <= Published(s) => n <= Len(Whole(s).lines)
  BY WholeIs
<1>2. PICK e \in Pin : e = Whole(s)
  BY <1>1
<1>3. e # None
  BY PagesAssumption DEF Pin
<1>4. qs \in Pins /\ qs[s] = e /\ \A r \in Sessions \ {s} : qs[r] = ps[r]
  BY <1>2 DEF Pins
<1>5. Within(qs)
  BY <1>1, <1>2, <1>4 DEF Within
<1>6. Keys(ps) \subseteq Keys(qs) \union ({s} \X (1..MaxTurns))
  <2> SUFFICES ASSUME NEW r \in Sessions, NEW n \in 1..MaxTurns, <<r, n>> \in Keys(ps), r # s
               PROVE  <<r, n>> \in Keys(qs)
    BY DEF Keys
  <2> QED BY <1>4 DEF Keys
<1>7. ASSUME NEW t \in InStore, t[1] = s PROVE t \in Keys(qs)
  <2>1. PICK n \in 1..MaxTurns : t = <<s, n>> /\ n <= Published(s)
    BY <1>7 DEF InStore
  <2>2. n \in Nat
    BY WatchAssumption
  <2>3. n <= Len(e.lines)
    BY <1>1, <1>2, <2>1, <2>2
  <2> QED BY <1>3, <1>4, <2>1, <2>3 DEF Keys
<1> QED BY <1>2, <1>3, <1>4, <1>5, <1>6, <1>7 DEF PinnedAs


(* One more feed is read, or is known to be left out. *)
LEMMA ReadFeedStep ==
  ASSUME StoreOk, Shape, Covers, ReadFeed
  PROVE  /\ StoreOk' /\ Shape' /\ Covers' /\ GoesOn
         /\ pg'.pc = pg.pc /\ pg'.items = pg.items /\ pg'.after = pg.after
         /\ pg'.at = pg.at /\ pg'.result = pg.result
         /\ \A s \in Sessions : pg'.pinned[s] # None =>
               \/ pg.pinned[s] # None /\ pg'.pinned[s] = pg.pinned[s]
               \/ /\ feed[s] # Gone /\ Has(file[s], pg'.pinned[s])
                  /\ HasPart(file[s], pg'.pinned[s])
<1>1. /\ pg.todo # {} /\ pg.todo \subseteq Sessions /\ pg.pc = "read" /\ Paging
  BY DEF ReadFeed, Covers
<1>2. PICK s \in pg.todo : s = First(pg.todo)
  BY <1>1, FirstIs
<1>3. s \in Sessions
  BY <1>1
<1> DEFINE fits == feed[s] # Gone /\ Fits(s)
<1>4. PICK fails \in BOOLEAN :
        /\ fails => fits /\ faults < MaxFaults /\ Does("fault", s)
        /\ faults' = IF fails THEN faults + 1 ELSE faults
        /\ pg' = IF fits /\ ~fails
                 THEN [pg EXCEPT !.todo = @ \ {s}, !.pinned[s] = Whole(s)]
                 ELSE [pg EXCEPT !.todo = @ \ {s}, !.short = TRUE]
  BY <1>2 DEF ReadFeed
<1>5. StoreOk'
  BY <1>1, <1>4, PagingStore
<1>6. DOMAIN pg = Names /\ pg.pinned \in Pins /\ Within(pg.pinned) /\ pg.seen \in Pins
      /\ pg.short \in BOOLEAN /\ pg.had \subseteq InStore /\ (pg.pc # "done" => pg.result = "none")
  BY DEF Shape, Known
<1>7. PICK ps \in Pins : ps = pg.pinned
  BY <1>6
<1>8. CASE fits /\ ~fails
  <2>1. PICK qs : qs = [ps EXCEPT ![s] = Whole(s)]
    OBVIOUS
  <2>2. pg' = [pg EXCEPT !.todo = @ \ {s}, !.pinned = qs]
    BY <1>4, <1>6, <1>7, <1>8, <2>1 DEF Names
  <2>3. /\ DOMAIN pg' = Names /\ pg'.pinned = qs /\ pg'.todo = pg.todo \ {s}
        /\ GoesOn /\ pg'.pc = pg.pc /\ pg'.items = pg.items /\ pg'.after = pg.after
        /\ pg'.at = pg.at /\ pg'.result = pg.result /\ pg'.seen = pg.seen /\ pg'.short = pg.short
    BY <1>6, <2>2 DEF Names, GoesOn
  <2>4. /\ qs \in Pins /\ Within(qs) /\ Keys(ps) \subseteq Keys(qs) \union ({s} \X (1..MaxTurns))
        /\ \A t \in InStore : t[1] = s => t \in Keys(qs)
        /\ \A r \in Sessions \ {s} : qs[r] = ps[r]
        /\ qs[s] = Whole(s)
    <3>1. Within(ps)
      BY <1>6, <1>7
    <3>2. PinnedAs(ps, s, qs)
      BY <1>3, <2>1, <3>1, PinIs
    <3> QED BY <3>2 DEF PinnedAs
  <2>5. Shape'
    BY <1>1, <1>6, <2>3, <2>4, PagingShape
  <2>6. Covers'
    <3>1. Keys(pg.pinned)' = Keys(qs)
      BY <1>1, <2>3, PagingSame
    <3>2. ASSUME NEW t \in pg.had
          PROVE  t[1] \in pg.todo \ {s} \/ pg.short \/ t \in Keys(qs)
      <4>1. t[1] \in pg.todo \/ pg.short \/ t \in Keys(ps)
        BY <1>7 DEF Covers
      <4>2. t \in InStore
        BY <1>6
      <4>3. CASE t[1] = s
        BY <2>4, <4>2, <4>3
      <4>4. CASE t[1] # s
        BY <2>4, <4>1, <4>4
      <4> QED BY <4>3, <4>4
    <3> QED BY <1>1, <2>3, <3>1, <3>2 DEF Covers, GoesOn
  <2>7. ASSUME NEW r \in Sessions, qs[r] # None
        PROVE  \/ ps[r] # None /\ qs[r] = ps[r]
               \/ feed[r] # Gone /\ Has(file[r], qs[r]) /\ HasPart(file[r], qs[r])
    <3>1. CASE r = s
      BY <1>3, <1>8, <2>4, <3>1, WholeIs
    <3>2. CASE r # s
      BY <2>4, <2>7, <3>2
    <3> QED BY <3>1, <3>2
  <2> QED BY <1>5, <1>7, <2>3, <2>5, <2>6, <2>7
<1>9. CASE ~(fits /\ ~fails)
  <2>1. pg' = [pg EXCEPT !.todo = @ \ {s}, !.short = TRUE]
    BY <1>4, <1>9
  <2>2. /\ DOMAIN pg' = Names /\ pg'.pinned = ps /\ pg'.todo = pg.todo \ {s}
        /\ GoesOn /\ pg'.pc = pg.pc /\ pg'.items = pg.items /\ pg'.after = pg.after
        /\ pg'.at = pg.at /\ pg'.result = pg.result /\ pg'.seen = pg.seen /\ pg'.short
    BY <1>6, <1>7, <2>1 DEF Names, GoesOn
  <2>3. pg'.short \in BOOLEAN
    BY <1>6, <2>1 DEF Names
  <2>4. Shape'
    BY <1>1, <1>6, <1>7, <2>2, <2>3, PagingShape
  <2>5. Covers'
    BY <1>1, <2>2 DEF Covers
  <2> QED BY <1>5, <1>7, <2>2, <2>4, <2>5
<1> QED BY <1>8, <1>9

LEMMA ReadFeedTracked ==
  ASSUME StoreOk, Tracked, ReadFeed
  PROVE  StoreOk' /\ Tracked'
<1>1. Shape /\ pg.kind \in {"list", "context", "show"} /\ pg.pc = "read" /\ Paging
  BY DEF Tracked, ReadFeed
<1>2. Covers
  BY <1>1 DEF Tracked, ListInv, ContextInv, RecordInv
<1>3. /\ StoreOk' /\ Shape' /\ Covers' /\ GoesOn
      /\ pg'.pc = pg.pc /\ pg'.items = pg.items /\ pg'.after = pg.after
      /\ pg'.at = pg.at /\ pg'.result = pg.result
      /\ \A s \in Sessions : pg'.pinned[s] # None =>
            \/ pg.pinned[s] # None /\ pg'.pinned[s] = pg.pinned[s]
            \/ /\ feed[s] # Gone /\ Has(file[s], pg'.pinned[s])
               /\ HasPart(file[s], pg'.pinned[s])
  BY <1>1, <1>2, ReadFeedStep
<1>4. UNCHANGED <<feed, file>> /\ pg.result = "none"
  BY <1>1 DEF Paging, store, Shape
<1>5. /\ pg'.kind = pg.kind /\ pg'.turn = pg.turn /\ pg'.touched = pg.touched
      /\ pg'.had = pg.had
  BY <1>3 DEF GoesOn
<1>6. CASE pg.kind = "list"
  <2>1. ListInv
    BY <1>6 DEF Tracked
  <2>2. pg.items = <<>> /\ pg.after = None
    BY <1>1, <2>1 DEF ListInv
  <2>3. pg'.items \in Seq(Item) /\ Leads(pg'.items, All')
    <3>1. PICK ps \in Pins : ps = pg'.pinned
      BY <1>3 DEF Shape
    <3>2. Within(pg.pinned)'
      BY <1>3 DEF Shape
    <3>3. All' = Sorted(Turns(ps)) /\ Within(ps)
      BY <1>1, <3>1, <3>2, PagingSame
    <3>4. Len(All') \in Nat
      <4>1. PICK A : A = Sorted(Turns(ps))
        OBVIOUS
      <4>2. Len(A) \in Nat
        BY <3>3, <4>1, SortedTurns
      <4> QED BY <3>3, <4>1, <4>2
    <3>5. <<>> \in Seq(Item) /\ Len(<<>>) = 0
      OBVIOUS
    <3> QED BY <1>3, <2>2, <3>4, <3>5 DEF Leads
  <2>4. ~pg.touched => Intact'
    BY <1>3, <1>4, <2>1 DEF Intact, ListInv
  <2>5. ListInv'
    BY <1>1, <1>3, <1>4, <1>5, <2>1, <2>2, <2>3, <2>4 DEF ListInv
  <2> QED BY <1>3, <1>5, <1>6, <2>5 DEF Tracked
<1>7. CASE pg.kind = "context"
  <2>1. ContextInv'
    BY <1>3, <1>4 DEF ContextInv
  <2> QED BY <1>3, <1>5, <1>7, <2>1 DEF Tracked
<1>8. CASE pg.kind = "show"
  <2>1. RecordInv
    BY <1>8 DEF Tracked
  <2>2. PICK s \in Sessions : pg.turn[1] = s
    BY <2>1 DEF RecordInv
  <2>3. pg.items = <<>> /\ pg.at = 0
    BY <1>1, <2>1 DEF RecordInv
  <2>4. ~pg.touched /\ pg'.pinned[s] # None => feed'[s] # Gone /\ Has(file'[s], pg'.pinned[s])
    BY <1>3, <1>4, <1>8, <2>1, <2>2 DEF RecordInv
  <2>5. Joined1(pg.items, Mixed)'
    BY <1>3, <1>5, <2>3 DEF Joined1
  <2>6. RecordInv'
    BY <1>1, <1>3, <1>4, <1>5, <1>8, <2>1, <2>2, <2>4, <2>5 DEF RecordInv
  <2> QED BY <1>3, <1>5, <1>8, <2>6 DEF Tracked
<1> QED BY <1>1, <1>6, <1>7, <1>8


-----------------------------------------------------------------------------
(* A list *)

LEMMA SubSeqIs ==
  ASSUME NEW X, NEW M \in Seq(X), NEW k \in Nat, k <= Len(M)
  PROVE  /\ SubSeq(M, 1, k) \in Seq(X) /\ Len(SubSeq(M, 1, k)) = k
         /\ \A i \in 1..k : SubSeq(M, 1, k)[i] = M[i]
OBVIOUS

LEMMA SubSeqSame ==
  ASSUME NEW X, NEW L \in Seq(X), NEW M \in Seq(X), Len(L) <= Len(M),
         \A i \in 1..Len(L) : M[i] = L[i]
  PROVE  SubSeq(M, 1, Len(L)) = L
<1>1. PICK P \in Seq(X) : P = SubSeq(M, 1, Len(L))
  BY SubSeqIs
<1>2. Len(P) = Len(L) /\ \A i \in 1..Len(L) : P[i] = L[i]
  BY <1>1, SubSeqIs
<1>3. P = L
  BY <1>2
<1> QED BY <1>1, <1>3

LEMMA PrefixIs ==
  ASSUME StoreOk, NEW s \in Sessions, NEW e \in Pin
  PROVE  /\ feed[s] # Gone /\ Has(file[s], e) /\ HasPart(file[s], e) =>
               ~Truncated(s, e) /\ Prefix(s, e) = e
         /\ ~Truncated(s, e) => Prefix(s, e) \in Pin
<1>1. file[s] \in File
  BY FilesTyped
<1>2. PICK L \in Seq(Nat), M \in Seq(Nat) : L = e.lines /\ M = file[s].lines
  BY <1>1 DEF File, Pin
<1>3. /\ file[s].id \in Nat /\ file[s].tail \in Nat \union {None} /\ e.part \in Nat \union {None}
      /\ e = [id |-> e.id, lines |-> L, part |-> e.part]
      /\ Len(L) \in Nat /\ Len(M) \in Nat /\ None \notin Nat
  BY <1>1, <1>2, NoneIs DEF File, Pin
<1>4. Prefix(s, e) = [id |-> file[s].id, lines |-> SubSeq(M, 1, Len(L)),
                      part |-> IF e.part = None THEN None
                               ELSE IF Len(M) > Len(L) THEN M[Len(L) + 1] ELSE file[s].tail]
  BY <1>2 DEF Prefix
<1>5. ASSUME feed[s] # Gone, Has(file[s], e), HasPart(file[s], e)
      PROVE  ~Truncated(s, e) /\ Prefix(s, e) = e
  <2>1. /\ file[s].id = e.id /\ Len(L) <= Len(M)
        /\ \A i \in 1..Len(L) : M[i] = L[i]
        /\ e.part # None => IF Len(L) < Len(M) THEN M[Len(L) + 1] = e.part
                            ELSE file[s].tail = e.part
    BY <1>2, <1>5 DEF Has, HasPart
  <2>2. SubSeq(M, 1, Len(L)) = L
    BY <2>1, SubSeqSame
  <2>3. ~Truncated(s, e)
    BY <1>2, <1>3, <1>5, <2>1 DEF Truncated
  <2>4. e.part = IF e.part = None THEN None
                 ELSE IF Len(M) > Len(L) THEN M[Len(L) + 1] ELSE file[s].tail
    BY <1>3, <2>1
  <2> QED BY <1>3, <1>4, <2>1, <2>2, <2>3, <2>4
<1>6. ASSUME ~Truncated(s, e) PROVE Prefix(s, e) \in Pin
  <2>1. Len(L) <= Len(M)
    BY <1>2, <1>3, <1>6 DEF Truncated
  <2>2. PICK P \in Seq(Nat) : P = SubSeq(M, 1, Len(L))
    BY <1>3, <2>1, SubSeqIs
  <2>3. PICK part : part = IF e.part = None THEN None
                           ELSE IF Len(M) > Len(L) THEN M[Len(L) + 1] ELSE file[s].tail
    OBVIOUS
  <2>4. part \in Nat \union {None}
    BY <1>3, <2>3
  <2> QED BY <1>3, <1>4, <2>2, <2>3, <2>4 DEF Pin
<1> QED BY <1>5, <1>6

LEMMA BeginPageTracked ==
  ASSUME StoreOk, Tracked, BeginPage
  PROVE  StoreOk' /\ Tracked'
<1>1. /\ Shape /\ ListInv /\ pg.kind = "list" /\ Paging /\ faults' = faults
      /\ pg.pc = "cursor" \/ (pg.pc = "read" /\ pg.todo = {})
  BY DEF Tracked, BeginPage
<1>2. DOMAIN pg = Names /\ pg.pinned \in Pins /\ Within(pg.pinned) /\ pg.short \in BOOLEAN
      /\ pg.result = "none"
  BY <1>1 DEF Shape, Known
<1>3. PICK e : e = [s \in Sessions |-> None]
  OBVIOUS
<1>4. pg' = [pg EXCEPT !.pc = "pin", !.seen = e, !.todo = {s \in Sessions : pg.pinned[s] # None}]
  BY <1>3 DEF BeginPage
<1>5. /\ DOMAIN pg' = Names /\ GoesOn /\ pg'.pc = "pin" /\ pg'.seen = e
      /\ pg'.todo = {s \in Sessions : pg.pinned[s] # None}
      /\ pg'.pinned = pg.pinned /\ pg'.short = pg.short /\ pg'.after = pg.after
      /\ pg'.total = pg.total /\ pg'.items = pg.items /\ pg'.result = pg.result
  BY <1>2, <1>4 DEF Names, GoesOn
<1>6. e \in Pins
  BY <1>3 DEF Pins
<1>7. StoreOk' /\ UNCHANGED <<feed, file>>
  BY <1>1, PagingStore
<1>8. PICK ps \in Pins : ps = pg.pinned
  BY <1>2
<1>9. /\ Shape' /\ All' = All /\ Keys(pg.pinned)' = Keys(pg.pinned)
  BY <1>1, <1>2, <1>5, <1>6, <1>8, PagingShape, PagingSame DEF All, AllTurns
<1>10. Covers'
  BY <1>1, <1>5, <1>9 DEF Covers, ListInv, GoesOn
<1>11. Repinned'
  BY <1>3, <1>5 DEF Repinned
<1>12. ~pg.touched => Intact'
  BY <1>1, <1>5, <1>7 DEF ListInv, Intact
<1>13. EndsAt(pg.items, pg.after, pg.total)' = EndsAt(pg.items, pg.after, pg.total)
  BY <1>5, <1>9 DEF EndsAt
<1>14. Leads(pg.items, All)' = Leads(pg.items, All)
  BY <1>5, <1>9 DEF Leads
<1>15. ListInv'
  BY <1>1, <1>2, <1>5, <1>9, <1>10, <1>11, <1>12, <1>13, <1>14 DEF ListInv, GoesOn
<1> QED BY <1>1, <1>5, <1>7, <1>9, <1>15 DEF Tracked, GoesOn

LEMMA ReadPinnedTracked ==
  ASSUME StoreOk, Tracked, ReadPinned
  PROVE  StoreOk' /\ Tracked'
<1>1. /\ Shape /\ ListInv /\ pg.kind = "list" /\ Paging /\ faults' = faults
      /\ pg.pc = "pin" /\ pg.todo # {}
  BY DEF Tracked, ReadPinned
<1>2. /\ DOMAIN pg = Names /\ pg.pinned \in Pins /\ Within(pg.pinned) /\ pg.short \in BOOLEAN
      /\ pg.result = "none" /\ pg.seen \in Pins /\ pg.todo \subseteq Sessions /\ Repinned
  BY <1>1 DEF Shape, Known, ListInv, Covers
<1>3. PICK s \in Sessions : s = First(pg.todo) /\ s \in pg.todo
  BY <1>1, <1>2, FirstIs
<1>4. PICK e \in Pin : e = pg.pinned[s]
  BY <1>2, <1>3 DEF Pins, Repinned
<1>5. pg' = IF Truncated(s, e) THEN Finish("changed")
            ELSE [pg EXCEPT !.todo = @ \ {s}, !.seen[s] = Prefix(s, e)]
  BY <1>3, <1>4 DEF ReadPinned
<1>6. ~pg.touched => ~Truncated(s, e) /\ Prefix(s, e) = e
  <2>1. ~pg.touched => feed[s] # Gone /\ Has(file[s], e) /\ HasPart(file[s], e)
    BY <1>1, <1>4, PagesAssumption DEF ListInv, Intact, Pin
  <2> QED BY <2>1, PrefixIs
<1>7. StoreOk' /\ UNCHANGED <<feed, file>>
  BY <1>1, PagingStore
<1>8. PICK ps \in Pins : ps = pg.pinned
  BY <1>2
<1>9. CASE Truncated(s, e)
  <2>1. pg' = [pg EXCEPT !.pc = "done", !.result = "changed"]
    BY <1>5, <1>9 DEF Finish
  <2>2. /\ DOMAIN pg' = Names /\ GoesOn /\ pg'.pc = "done" /\ pg'.seen = pg.seen
        /\ pg'.todo = pg.todo /\ pg'.pinned = pg.pinned /\ pg'.short = pg.short
        /\ pg'.items = pg.items /\ pg'.result = "changed"
    BY <1>2, <2>1 DEF Names, GoesOn
  <2>3. Shape' /\ All' = All /\ Keys(pg.pinned)' = Keys(pg.pinned)
    BY <1>1, <1>2, <1>8, <2>2, PagingShape, PagingSame DEF All, AllTurns
  <2>4. Covers'
    BY <1>1, <2>2, <2>3 DEF Covers, ListInv, GoesOn
  <2>5. Leads(pg.items, All)' = Leads(pg.items, All)
    BY <2>2, <2>3 DEF Leads
  <2>6. pg.touched
    BY <1>6, <1>9
  <2>7. ListInv'
    BY <1>1, <2>2, <2>4, <2>5, <2>6 DEF ListInv, GoesOn
  <2> QED BY <1>1, <1>7, <2>2, <2>3, <2>7 DEF Tracked, GoesOn
<1>10. CASE ~Truncated(s, e)
  <2>1. PICK p \in Pin : p = Prefix(s, e)
    BY <1>10, PrefixIs
  <2>2. PICK q \in Pins : q = pg.seen
    BY <1>2
  <2>3. PICK r : r = [q EXCEPT ![s] = p]
    OBVIOUS
  <2>4. /\ r \in Pins /\ r[s] = p /\ \A x \in Sessions \ {s} : r[x] = q[x]
    BY <2>3 DEF Pins
  <2>5. pg' = [pg EXCEPT !.todo = @ \ {s}, !.seen = r]
    BY <1>2, <1>5, <1>10, <2>1, <2>2, <2>3 DEF Names
  <2>6. /\ DOMAIN pg' = Names /\ GoesOn /\ pg'.pc = pg.pc /\ pg'.seen = r
        /\ pg'.todo = pg.todo \ {s} /\ pg'.pinned = pg.pinned /\ pg'.short = pg.short
        /\ pg'.items = pg.items /\ pg'.result = pg.result /\ pg'.after = pg.after
        /\ pg'.total = pg.total
    BY <1>2, <2>5 DEF Names, GoesOn
  <2>7. Shape' /\ All' = All /\ Keys(pg.pinned)' = Keys(pg.pinned)
    BY <1>1, <1>2, <1>8, <2>4, <2>6, PagingShape, PagingSame DEF All, AllTurns
  <2>8. Covers'
    BY <1>1, <2>6, <2>7 DEF Covers, ListInv, GoesOn
  <2>9. Leads(pg.items, All)' = Leads(pg.items, All)
    BY <2>6, <2>7 DEF Leads
  <2>10. ~pg.touched => Intact'
    BY <1>1, <1>7, <2>6 DEF ListInv, Intact
  <2>11. EndsAt(pg.items, pg.after, pg.total)' = EndsAt(pg.items, pg.after, pg.total)
    BY <2>6, <2>7 DEF EndsAt
  <2>12. Repinned'
    <3>1. ASSUME NEW x \in Sessions
          PROVE  x \in pg.todo \ {s} \/ pg.touched \/ r[x] = pg.pinned[x]
      <4>1. CASE x = s
        BY <1>4, <1>6, <2>1, <2>4, <4>1
      <4>2. CASE x # s
        BY <1>2, <2>2, <2>4, <4>2 DEF Repinned
      <4> QED BY <4>1, <4>2
    <3> QED BY <1>2, <2>6, <3>1 DEF Repinned, GoesOn
  <2>13. ListInv'
    BY <1>1, <1>2, <2>6, <2>8, <2>9, <2>10, <2>11, <2>12 DEF ListInv, GoesOn
  <2> QED BY <1>1, <1>7, <2>6, <2>7, <2>13 DEF Tracked, GoesOn
<1> QED BY <1>9, <1>10


(* r is q and the next n of A, the last of them the last of the page. *)
Longer(r, A, q, n, page) ==
    /\ r \in Seq(Item) /\ Leads(r, A) /\ Len(r) = Len(q) + n
    /\ n # 0 => Last(page) = r[Len(r)]

LEMMA PageLeads ==
  ASSUME NEW A \in Seq(Item), NEW q \in Seq(Item), Leads(q, A), NEW n \in Nat,
         Len(q) + n <= Len(A), NEW page, page = SubSeq(A, Len(q) + 1, Len(q) + n),
         NEW r, r = q \o page
  PROVE  Longer(r, A, q, n, page)
<1>0. Len(q) <= Len(A) /\ \A i \in 1..Len(q) : q[i] = A[i]
  BY Zenon DEF Leads
<1>1. /\ Len(q) \in Nat /\ Len(A) \in Nat /\ Len(q) <= Len(A)
      /\ \A i \in 1..Len(q) : q[i] = A[i]
  BY <1>0
<1>2. /\ page \in Seq(Item) /\ Len(page) = n
      /\ \A i \in 1..n : page[i] = A[Len(q) + i]
  BY <1>1
<1>3. /\ r \in Seq(Item) /\ Len(r) = Len(q) + n
      /\ \A i \in 1..Len(q) : r[i] = q[i]
      /\ \A i \in 1..n : r[Len(q) + i] = page[i]
  BY <1>1, <1>2
<1>4. \A i \in 1..Len(r) : r[i] = A[i]
  <2> SUFFICES ASSUME NEW i \in 1..Len(r) PROVE r[i] = A[i]
    OBVIOUS
  <2>1. CASE i <= Len(q)
    BY <1>1, <1>3, <2>1
  <2>2. CASE ~(i <= Len(q))
    <3>1. i - Len(q) \in 1..n
      BY <1>1, <1>3, <2>2
    <3>2. Len(q) + (i - Len(q)) = i
      BY <1>1
    <3> QED BY <1>2, <1>3, <3>1, <3>2
  <2> QED BY <2>1, <2>2
<1>5. ASSUME n # 0 PROVE Last(page) = r[Len(r)]
  <2>1. n \in 1..n
    BY <1>5
  <2> QED BY <1>2, <1>3, <2>1 DEF Last
<1> QED BY <1>1, <1>3, <1>4, <1>5 DEF Leads, Longer

(* Where the last page ended is found again, at one place. *)
LEMMA EndFound ==
  ASSUME StoreOk, NEW ps \in Pins, Within(ps), NEW A, A = Sorted(Turns(ps)),
         NEW k \in 1..Len(A), NEW t, t = A[k]
  PROVE  {i \in DOMAIN A : SameKey(A[i], t)} = {k}
<1>1. /\ A \in Seq(Item) /\ Len(A) \in Nat
      /\ \A i, j \in 1..Len(A) : A[i] = A[j] => i = j
      /\ \A i \in 1..Len(A) : A[i] \in Turns(ps)
      /\ Keyed(Turns(ps))
  <2>1. /\ A \in Seq(Item) /\ Len(A) \in Nat /\ Keyed(Turns(ps))
    BY SortedTurns
  <2>2. \A i, j \in 1..Len(A) : A[i] = A[j] => i = j
    BY SortedTurns
  <2>3. \A i \in 1..Len(A) : A[i] \in Turns(ps)
    BY SortedTurns
  <2> QED BY <2>1, <2>2, <2>3
<1>2. DOMAIN A = 1..Len(A)
  BY <1>1
<1>3. ASSUME NEW i \in 1..Len(A), SameKey(A[i], t) PROVE i = k
  <2>1. A[i] \in Turns(ps) /\ t \in Turns(ps)
    BY <1>1
  <2>2. A[i] = t
    BY <1>1, <1>3, <2>1 DEF Keyed, SameKey
  <2> QED BY <1>1, <2>2
<1>4. SameKey(A[k], t)
  BY DEF SameKey
<1> QED BY <1>2, <1>3, <1>4

LEMMA ListPageTracked ==
  ASSUME StoreOk, Tracked, ListPage
  PROVE  StoreOk' /\ Tracked'
<1>1. /\ Shape /\ ListInv /\ pg.kind = "list" /\ Paging /\ faults' = faults
      /\ pg.pc = "pin" /\ pg.todo = {}
  BY DEF Tracked, ListPage
<1>2. /\ DOMAIN pg = Names /\ pg.pinned \in Pins /\ Within(pg.pinned) /\ pg.short \in BOOLEAN
      /\ pg.result = "none" /\ pg.seen \in Pins /\ Repinned
      /\ pg.items \in Seq(Item) /\ Leads(pg.items, All)
      /\ IF pg.after = None THEN pg.items = <<>> ELSE EndsAt(pg.items, pg.after, pg.total)
  BY <1>1 DEF Shape, Known, ListInv
<1>3. PICK ps \in Pins : ps = pg.pinned
  BY <1>2
<1>4. PICK A : A = All
  OBVIOUS
<1>5. A = Sorted(Turns(ps)) /\ Within(ps)
  BY <1>2, <1>3, <1>4 DEF All, AllTurns
<1>6. A \in Seq(Item) /\ Len(A) \in Nat
  BY <1>5, SortedTurns
<1>7. PICK q \in Seq(Item) : q = pg.items
  BY <1>2
<1>8. Leads(q, A) /\ Len(q) \in Nat
  BY <1>2, <1>4, <1>7
<1>9. ~pg.touched => pg.seen = pg.pinned
  <2>1. ~pg.touched => \A s \in Sessions : pg.seen[s] = pg.pinned[s]
    BY <1>1, <1>2 DEF Repinned
  <2> QED BY <1>2, <2>1 DEF Pins
<1>10. ASSUME pg.after # None
       PROVE  /\ pg.total = Len(A) /\ Len(q) # 0
              /\ {i \in DOMAIN A : SameKey(A[i], pg.after)} = {Len(q)}
  <2>1. EndsAt(q, pg.after, pg.total)
    BY <1>2, <1>7, <1>10
  <2>2. Len(q) # 0 /\ pg.after = q[Len(q)] /\ pg.total = Len(A)
    BY <1>4, <2>1 DEF EndsAt
  <2>3. PICK k \in 1..Len(A) : k = Len(q)
    BY <1>6, <1>8, <2>2 DEF Leads
  <2>4. q[k] = A[k]
    BY <1>8, <2>2, <2>3 DEF Leads
  <2>5. PICK t : t = A[k]
    OBVIOUS
  <2>6. {i \in DOMAIN A : SameKey(A[i], t)} = {k}
    BY <1>5, <2>5, EndFound
  <2> QED BY <2>2, <2>3, <2>4, <2>5, <2>6
<1>11. StoreOk' /\ UNCHANGED <<feed, file>>
  BY <1>1, PagingStore
<1> DEFINE all == Sorted(Turns(pg.seen))
           ends == {i \in DOMAIN all : SameKey(all[i], pg.after)}
           changed == \/ pg.seen # pg.pinned
                      \/ pg.after # None /\ (Len(all) # pg.total \/ ends = {})
           start == IF pg.after = None THEN 0 ELSE Min(ends)
           left == Len(all) - start
           page(shown) == SubSeq(all, start + 1, start + shown)
<1>12. \/ changed /\ pg' = Finish("changed")
       \/ /\ ~changed
          /\ \E shown \in (IF left = 0 THEN {0} ELSE 1..left) :
                pg' = IF shown = left THEN [Finish("complete") EXCEPT !.items = @ \o page(shown)]
                      ELSE [pg EXCEPT !.pc = "cursor", !.items = @ \o page(shown),
                                      !.after = Last(page(shown)), !.total = Len(all)]
  BY DEF ListPage
<1>13. pg.seen = pg.pinned => all = A
  BY <1>4 DEF All, AllTurns
<1>14. CASE changed /\ pg' = Finish("changed")
  <2>1. pg' = [pg EXCEPT !.pc = "done", !.result = "changed"]
    BY <1>14 DEF Finish
  <2>2. /\ DOMAIN pg' = Names /\ GoesOn /\ pg'.pc = "done" /\ pg'.seen = pg.seen
        /\ pg'.todo = pg.todo /\ pg'.pinned = pg.pinned /\ pg'.short = pg.short
        /\ pg'.items = pg.items /\ pg'.result = "changed"
    BY <1>2, <2>1 DEF Names, GoesOn
  <2>3. Shape' /\ All' = All /\ Keys(pg.pinned)' = Keys(pg.pinned)
    BY <1>1, <1>2, <1>3, <2>2, PagingShape, PagingSame DEF All, AllTurns
  <2>4. Covers'
    BY <1>1, <2>2, <2>3 DEF Covers, ListInv, GoesOn
  <2>5. Leads(pg.items, All)' = Leads(pg.items, All)
    BY <2>2, <2>3 DEF Leads
  <2>6. pg.touched
    <3> SUFFICES ASSUME ~pg.touched PROVE FALSE
      BY <1>1 DEF Shape, Known
    <3>1. all = A /\ pg.seen = pg.pinned
      BY <1>9, <1>13
    <3>2. pg.after # None /\ (Len(A) # pg.total \/ {i \in DOMAIN A : SameKey(A[i], pg.after)} = {})
      BY <1>14, <3>1
    <3> QED BY <1>10, <3>2
  <2>7. ListInv'
    BY <1>1, <2>2, <2>4, <2>5, <2>6 DEF ListInv, GoesOn
  <2> QED BY <1>1, <1>11, <2>2, <2>3, <2>7 DEF Tracked, GoesOn
<1>15. CASE ~changed /\ ~(changed /\ pg' = Finish("changed"))
  <2>1. pg.seen = pg.pinned /\ all = A
    BY <1>13, <1>15
  <2>2. start = Len(q)
    <3>1. CASE pg.after = None
      <4>1. q = <<>>
        BY <1>2, <1>7, <3>1
      <4> QED BY <3>1, <4>1
    <3>2. CASE pg.after # None
      <4>1. ends = {Len(q)}
        BY <1>10, <2>1, <3>2
      <4>2. Min({Len(q)}) = Len(q)
        BY <1>8 DEF Min
      <4> QED BY <3>2, <4>1, <4>2
    <3> QED BY <3>1, <3>2
  <2>3. left = Len(A) - Len(q)
    BY <2>1, <2>2
  <2>4. PICK n : /\ n \in IF left = 0 THEN {0} ELSE 1..left
                 /\ pg' = IF n = left THEN [Finish("complete") EXCEPT !.items = @ \o page(n)]
                          ELSE [pg EXCEPT !.pc = "cursor", !.items = @ \o page(n),
                                          !.after = Last(page(n)), !.total = Len(all)]
    BY <1>12, <1>15
  <2>5. PICK p : p = SubSeq(A, Len(q) + 1, Len(q) + n)
    OBVIOUS
  <2>6. p = page(n)
    BY <2>1, <2>2, <2>5
  <2> HIDE DEF all, ends, changed, start, page
  <2>7. n \in Nat /\ Len(q) + n <= Len(A) /\ (n = 0 => left = 0)
    <3>1. Len(q) <= Len(A)
      BY <1>8 DEF Leads
    <3>2. left \in Nat
      BY <1>6, <1>8, <2>3, <3>1
    <3> HIDE DEF left
    <3>3. n \in Nat /\ n <= left /\ (n = 0 => left = 0)
      BY <2>4, <3>2
    <3> QED BY <1>6, <1>8, <2>3, <3>2, <3>3
  <2>8. PICK r : r = q \o p
    OBVIOUS
  <2>9. /\ r \in Seq(Item) /\ Leads(r, A) /\ Len(r) = Len(q) + n
        /\ n # 0 => Last(p) = r[Len(r)]
    <3>1. Longer(r, A, q, n, p)
      BY <1>6, <1>8, <2>5, <2>7, <2>8, PageLeads
    <3> QED BY <3>1 DEF Longer
  <2>10. CASE n = left
    <3>1. pg' = [[pg EXCEPT !.pc = "done", !.result = "complete"] EXCEPT !.items = r]
      BY <1>2, <1>7, <2>4, <2>6, <2>8, <2>10 DEF Finish, Names
    <3>2. /\ DOMAIN pg' = Names /\ GoesOn /\ pg'.pc = "done" /\ pg'.seen = pg.seen
          /\ pg'.todo = pg.todo /\ pg'.pinned = pg.pinned /\ pg'.short = pg.short
          /\ pg'.items = r /\ pg'.result = "complete"
      BY <1>2, <3>1 DEF Names, GoesOn
    <3>3. Shape' /\ All' = A /\ Keys(pg.pinned)' = Keys(pg.pinned)
      BY <1>1, <1>2, <1>3, <1>4, <3>2, PagingShape, PagingSame DEF All, AllTurns
    <3>4. Covers'
      BY <1>1, <3>2, <3>3 DEF Covers, ListInv, GoesOn
    <3>5. Len(r) = Len(A)
      BY <1>6, <1>8, <2>3, <2>9, <2>10
    <3>6. ~pg.touched => Intact'
      BY <1>1, <1>11, <3>2 DEF ListInv, Intact
    <3>7. Leads(pg.items, All)'
      BY <2>9, <3>2, <3>3
    <3>8. ListInv'
      BY <1>1, <2>9, <3>2, <3>3, <3>4, <3>5, <3>6, <3>7 DEF ListInv, GoesOn
    <3> QED BY <1>1, <1>11, <3>2, <3>3, <3>8 DEF Tracked, GoesOn
  <2>11. CASE n # left
    <3>1. PICK t : t = Last(p)
      OBVIOUS
    <3>2. pg' = [pg EXCEPT !.pc = "cursor", !.items = r, !.after = t, !.total = Len(A)]
      BY <1>2, <1>7, <2>1, <2>4, <2>6, <2>8, <2>11, <3>1 DEF Names
    <3>3. /\ DOMAIN pg' = Names /\ GoesOn /\ pg'.pc = "cursor" /\ pg'.seen = pg.seen
          /\ pg'.todo = pg.todo /\ pg'.pinned = pg.pinned /\ pg'.short = pg.short
          /\ pg'.items = r /\ pg'.result = pg.result /\ pg'.after = t /\ pg'.total = Len(A)
      BY <1>2, <3>2 DEF Names, GoesOn
    <3>4. Shape' /\ All' = A /\ Keys(pg.pinned)' = Keys(pg.pinned)
      BY <1>1, <1>2, <1>3, <1>4, <3>3, PagingShape, PagingSame DEF All, AllTurns
    <3>5. Covers'
      BY <1>1, <3>3, <3>4 DEF Covers, ListInv, GoesOn
    <3>6. n # 0 /\ Len(r) # 0
      BY <1>8, <2>7, <2>9, <2>11
    <3>7. EndsAt(pg.items, pg.after, pg.total)'
      BY <2>9, <3>1, <3>3, <3>4, <3>6 DEF EndsAt
    <3>8. pg'.after # None
      <4>1. r[Len(r)] \in Item
        BY <2>9, <3>6
      <4> QED BY <2>9, <3>1, <3>3, <3>6, <4>1, PagesAssumption DEF Item
    <3>9. ~pg.touched => Intact'
      BY <1>1, <1>11, <3>3 DEF ListInv, Intact
    <3>10. Leads(pg.items, All)'
      BY <2>9, <3>3, <3>4
    <3>11. ListInv'
      BY <1>1, <1>2, <2>9, <3>3, <3>4, <3>5, <3>7, <3>8, <3>9, <3>10 DEF ListInv, GoesOn
    <3> QED BY <1>1, <1>11, <3>3, <3>4, <3>11 DEF Tracked, GoesOn
  <2> QED BY <2>10, <2>11
<1> QED BY <1>12, <1>14, <1>15


-----------------------------------------------------------------------------
(* A context *)

(* What is pinned and wanted but not among the n newest is no more than what
   is left of the turns. *)
LEMMA MissingBound ==
  ASSUME StoreOk, NEW ps \in Pins, Within(ps), NEW A, A = Sorted(Turns(ps)),
         NEW n \in Nat, n <= Len(A), NEW q, q = SubSeq(A, 1, n),
         NEW H, \A t \in H : t \in Keys(ps) /\ Wanted(t)
  PROVE  IsFiniteSet(LeftOut(H, q)) /\ Cardinality(LeftOut(H, q)) <= Len(A) - n
<1> DEFINE M == H \ {<<q[i].s, q[i].n>> : i \in DOMAIN q}
<1>1. /\ A \in Seq(Item) /\ Len(A) \in Nat
  BY SortedTurns
<1>2. \A t \in Turns(ps) : \E i \in 1..Len(A) : A[i] = t
  BY SortedTurns
<1>3. /\ q \in Seq(Item) /\ Len(q) = n /\ DOMAIN q = 1..n
      /\ \A i \in 1..n : q[i] = A[i]
  <2>1. SubSeq(A, 1, n) \in Seq(Item) /\ Len(SubSeq(A, 1, n)) = n
        /\ \A i \in 1..n : SubSeq(A, 1, n)[i] = A[i]
    BY <1>1, SubSeqIs
  <2> QED BY <2>1
<1>4. ASSUME NEW t \in M PROVE \E i \in n + 1..Len(A) : A[i] = Rec(ps, t)
  <2>1. t \in Keys(ps) /\ Wanted(t)
    OBVIOUS
  <2>2. Rec(ps, t) \in Turns(ps)
    BY <2>1, TurnsAre
  <2>3. PICK i \in 1..Len(A) : A[i] = Rec(ps, t)
    BY <1>2, <2>2
  <2>4. <<A[i].s, A[i].n>> = t
    BY <2>1, <2>3, KeyIs
  <2>5. ~(i \in 1..n)
    BY <1>3, <2>4
  <2>6. i \in n + 1..Len(A)
    BY <1>1, <2>5
  <2> QED BY <2>3, <2>6
<1> DEFINE f == [t \in M |-> CHOOSE i \in n + 1..Len(A) : A[i] = Rec(ps, t)]
<1>5. \A t \in M : f[t] \in n + 1..Len(A) /\ A[f[t]] = Rec(ps, t)
  <2> HIDE DEF M
  <2> QED BY <1>4
<1>6. ASSUME NEW t \in M, NEW u \in M, f[t] = f[u] PROVE t = u
  <2>1. Rec(ps, t) = Rec(ps, u)
    <3> HIDE DEF f, M
    <3> QED BY <1>5, <1>6
  <2>2. t \in Keys(ps) /\ u \in Keys(ps)
    OBVIOUS
  <2>3. t = <<t[1], t[2]>> /\ u = <<u[1], u[2]>> /\ t[1] = u[1] /\ t[2] = u[2]
    <3>1. t = <<t[1], t[2]>> /\ Rec(ps, t).s = t[1] /\ Rec(ps, t).n = t[2]
      BY <2>2, KeyIs
    <3>2. u = <<u[1], u[2]>> /\ Rec(ps, u).s = u[1] /\ Rec(ps, u).n = u[2]
      BY <2>2, KeyIs
    <3> QED BY <2>1, <3>1, <3>2
  <2> QED BY <2>3
<1>7. f \in Injection(M, n + 1..Len(A))
  <2>1. f \in [M -> n + 1..Len(A)]
    <3> HIDE DEF M
    <3> QED BY <1>5
  <2>2. \A t, u \in DOMAIN f : f[t] = f[u] => t = u
    BY <1>6
  <2> HIDE DEF f, M
  <2> QED BY <2>1, <2>2 DEF Injection, IsInjective
<1>8. IsFiniteSet(n + 1..Len(A)) /\ Cardinality(n + 1..Len(A)) = Len(A) - n
  <2>1. n + 1 \in Int /\ Len(A) \in Int
    BY <1>1
  <2>2. /\ IsFiniteSet(n + 1..Len(A))
        /\ Cardinality(n + 1..Len(A)) = IF n + 1 > Len(A) THEN 0 ELSE Len(A) - (n + 1) + 1
    BY <2>1, FS_Interval
  <2> QED BY <1>1, <2>2
<1>9. IsFiniteSet(M) /\ Cardinality(M) <= Len(A) - n
  <2> HIDE DEF f, M
  <2> QED BY <1>7, <1>8, FS_Injection
<1>10. LeftOut(H, q) = M
  BY DEF LeftOut
<1> QED BY <1>9, <1>10

LEMMA ShowContextTracked ==
  ASSUME StoreOk, Tracked, ShowContext
  PROVE  StoreOk' /\ Tracked'
<1>1. /\ Shape /\ ContextInv /\ pg.kind = "context" /\ Paging /\ faults' = faults
      /\ pg.pc = "read" /\ pg.todo = {}
  BY DEF Tracked, ShowContext
<1>2. /\ DOMAIN pg = Names /\ pg.pinned \in Pins /\ Within(pg.pinned) /\ pg.short \in BOOLEAN
      /\ pg.result = "none" /\ pg.seen \in Pins /\ Covers /\ pg.had \subseteq InStore
  BY <1>1 DEF Shape, Known, ContextInv
<1>3. PICK ps \in Pins : ps = pg.pinned
  BY <1>2
<1> DEFINE all == UNION {Newest(s) : s \in Sessions}
           limited == \/ pg.short \/ WindowLimited
                      \/ \E s \in Sessions : pg.pinned[s] # None /\ pg.pinned[s].part # None
<1>4. PICK items \in Projections(all) :
          pg' = [Finish(IF limited THEN "limited" ELSE "complete")
                   EXCEPT !.items = items, !.total = Cardinality(all) - Len(items)]
  BY DEF ShowContext
<1>5. PICK n \in 0..Cardinality(all) : items = SubSeq(Sorted(all), 1, n)
  BY DEF Projections
<1>6. PICK result : result = IF limited THEN "limited" ELSE "complete"
  OBVIOUS
<1>7. PICK total : total = Cardinality(all) - Len(items)
  OBVIOUS
<1>8. pg' = [[pg EXCEPT !.pc = "done", !.result = result] EXCEPT !.items = items, !.total = total]
  <2> HIDE DEF all, limited
  <2> QED BY <1>4, <1>6, <1>7 DEF Finish
<1>9. /\ DOMAIN pg' = Names /\ GoesOn /\ pg'.pc = "done" /\ pg'.seen = pg.seen
      /\ pg'.todo = pg.todo /\ pg'.pinned = pg.pinned /\ pg'.short = pg.short
      /\ pg'.items = items /\ pg'.result = result /\ pg'.total = total
  <2> HIDE DEF all, limited
  <2> QED BY <1>2, <1>8 DEF Names, GoesOn
<1>10. StoreOk'
  BY <1>1, PagingStore
<1>11. Shape' /\ Keys(pg.pinned)' = Keys(pg.pinned)
  BY <1>1, <1>2, <1>3, <1>9, PagingShape, PagingSame
<1>12. Covers'
  BY <1>1, <1>9, <1>11 DEF Covers, ContextInv, GoesOn
<1>13. ASSUME ~limited
       PROVE  total \in Nat /\ IsFiniteSet(Missing') /\ Cardinality(Missing') <= total
  <2>1. Within(ps) /\ Turns(ps) \subseteq Item
    BY <1>2, <1>3, TurnsAre
  <2>2. all = Turns(ps)
    <3>1. ASSUME NEW t \in Turns(ps) PROVE t \in all
      <4>1. t \in Newest(t.s)
        BY <1>3, <1>13 DEF WindowLimited
      <4>2. t.s \in Sessions
        BY <2>1 DEF Item
      <4> QED BY <4>1, <4>2
    <3>2. all \subseteq Turns(ps)
      BY <1>3 DEF Newest
    <3> QED BY <3>1, <3>2
  <2>3. PICK A : A = Sorted(Turns(ps))
    OBVIOUS
  <2>4. A \in Seq(Item) /\ Len(A) \in Nat /\ Len(A) = Cardinality(Turns(ps))
    BY <2>1, <2>3, SortedTurns
  <2>5. n \in Nat /\ n <= Len(A) /\ items = SubSeq(A, 1, n)
    <3> HIDE DEF all
    <3> QED BY <1>5, <2>2, <2>3, <2>4
  <2>6. Len(items) = n
    <3>1. Len(SubSeq(A, 1, n)) = n
      BY <2>4, <2>5, SubSeqIs
    <3> QED BY <2>5, <3>1
  <2>7. total = Len(A) - n /\ total \in Nat
    <3>1. total = Cardinality(Turns(ps)) - n
      <4> HIDE DEF all
      <4> QED BY <1>7, <2>2, <2>6
    <3> QED BY <2>4, <2>5, <3>1
  <2> DEFINE H == {t \in pg.had : Wanted(t)}
    <2>8. \A t \in H : t \in Keys(ps) /\ Wanted(t)
    BY <1>1, <1>2, <1>3, <1>13 DEF Covers
  <2>9. IsFiniteSet(LeftOut(H, items)) /\ Cardinality(LeftOut(H, items)) <= Len(A) - n
    <3> HIDE DEF H
    <3> QED BY <2>1, <2>3, <2>5, <2>8, MissingBound
  <2>10. Missing' = LeftOut(H, items)
    <3>1. \A t : Wanted(t)' = Wanted(t)
      BY <1>1, PagingWanted
    <3> QED BY <1>9, <3>1 DEF Missing, LeftOut, GoesOn
  <2> QED BY <2>7, <2>9, <2>10
<1>14. ContextInv'
  BY <1>6, <1>9, <1>12, <1>13 DEF ContextInv
<1> QED BY <1>1, <1>9, <1>10, <1>11, <1>14 DEF Tracked, GoesOn


-----------------------------------------------------------------------------
(* A record *)

LEMMA PieceJoins ==
  ASSUME NEW q \in Seq(Piece), NEW p \in Piece, NEW mixed \in BOOLEAN, Joined1(q, mixed),
         Len(q) = 0 => p.from = 0, Len(q) # 0 => Follows(q, p.from, p.v, mixed),
         NEW r, r = Append(q, p)
  PROVE  r \in Seq(Piece) /\ Joined1(r, mixed) /\ Follows(r, p.to, p.v, mixed)
<1>1. /\ r \in Seq(Piece) /\ Len(q) \in Nat /\ Len(r) = Len(q) + 1 /\ r[Len(q) + 1] = p
      /\ \A i \in 1..Len(q) : r[i] = q[i]
  <2>1. /\ Append(q, p) \in Seq(Piece) /\ Len(q) \in Nat /\ Len(Append(q, p)) = Len(q) + 1
        /\ Append(q, p)[Len(q) + 1] = p
        /\ \A i \in 1..Len(q) : Append(q, p)[i] = q[i]
    BY AppendLines
  <2> QED BY <2>1
<1>2. \A i \in 1..Len(q) : /\ q[i].from = IF i = 1 THEN 0 ELSE q[i - 1].to
                           /\ q[i].v = q[1].v \/ mixed
  BY Zenon DEF Joined1
<1>3. Len(q) # 0 => p.from = q[Len(q)].to /\ (q[1].v = p.v \/ mixed)
  BY Zenon DEF Follows
<1>4. Len(q) # 0 => r[1] = q[1]
  BY <1>1
<1>5. ASSUME NEW i \in 1..Len(r)
      PROVE  /\ r[i].from = IF i = 1 THEN 0 ELSE r[i - 1].to
             /\ r[i].v = r[1].v \/ mixed
  <2>1. CASE i \in 1..Len(q)
    <3>1. r[i] = q[i] /\ Len(q) # 0 /\ r[1] = q[1]
      BY <1>1, <1>4, <2>1
    <3>2. i # 1 => i - 1 \in 1..Len(q)
      BY <1>1, <2>1
    <3>3. i # 1 => r[i - 1] = q[i - 1]
      BY <1>1, <3>2
    <3>4. /\ q[i].from = IF i = 1 THEN 0 ELSE q[i - 1].to
          /\ q[i].v = q[1].v \/ mixed
      BY <1>2, <2>1
    <3> QED BY <3>1, <3>3, <3>4
  <2>2. CASE i = Len(q) + 1
    <3>1. r[i] = p
      BY <1>1, <2>2
    <3>2. CASE Len(q) = 0
      <4>1. i = 1
        BY <2>2, <3>2
      <4> QED BY <3>1, <3>2, <4>1
    <3>3. CASE Len(q) # 0
      <4>1. i # 1 /\ i - 1 = Len(q) /\ Len(q) \in 1..Len(q)
        BY <1>1, <2>2, <3>3
      <4>2. r[i - 1] = q[Len(q)]
        BY <1>1, <4>1
      <4> QED BY <1>3, <1>4, <3>1, <3>3, <4>1, <4>2
    <3> QED BY <3>2, <3>3
  <2>3. i \in 1..Len(q) \/ i = Len(q) + 1
    BY <1>1
  <2> QED BY <2>1, <2>2, <2>3
<1>6. Joined1(r, mixed)
  BY <1>5 DEF Joined1
<1>7. r[1].v = p.v \/ mixed
  BY <1>1, <1>3, <1>4
<1>8. r[Len(r)] = p /\ Len(r) # 0
  BY <1>1
<1> QED BY <1>1, <1>6, <1>7, <1>8 DEF Follows

(* The traversal of a record, at a page *)
LEMMA RecordFields ==
  ASSUME Shape, RecordInv, pg.kind \in {"show", "evidence", "actions"},
         pg.pc \in {"read", "cursor"}
  PROVE  /\ DOMAIN pg = Names /\ pg.pinned \in Pins /\ Within(pg.pinned)
         /\ pg.short \in BOOLEAN /\ pg.result = "none" /\ pg.seen \in Pins
         /\ pg.items \in Seq(Piece) /\ Joined1(pg.items, Mixed) /\ pg.at \in Nat
         /\ Mixed \in BOOLEAN
         /\ pg.pc = "read" => pg.items = <<>> /\ pg.at = 0
         /\ pg.pc = "cursor" => Follows(pg.items, pg.at, pg.after, Mixed)
BY DEF Shape, Known, RecordInv, Mixed

LEMMA RecordAgain ==
  ASSUME StoreOk, Shape, RecordInv, Paging, GoesOn, pg.pc \in {"read", "cursor"},
         pg.kind = "show" => pg.pc = "cursor" \/ pg.todo = {},
         pg'.pinned = pg.pinned, pg'.short = pg.short, pg'.todo = pg.todo, pg'.seen = pg.seen,
         pg'.pc # "done" => pg'.result = "none", pg'.pc # "read"
  PROVE  /\ Shape' /\ (pg.kind = "show" => Covers')
         /\ pg.kind = "show" /\ ~pg.touched /\ pg.pinned[pg.turn[1]] # None =>
               feed'[pg.turn[1]] # Gone /\ Has(file'[pg.turn[1]], pg.pinned[pg.turn[1]])
<1>1. PICK ps \in Pins : ps = pg.pinned
  BY DEF Shape
<1>2. Within(ps) /\ pg.seen \in Pins /\ pg.short \in BOOLEAN
  BY <1>1 DEF Shape
<1>3. Shape' /\ Keys(pg.pinned)' = Keys(pg.pinned)
  BY <1>1, <1>2, PagingShape, PagingSame
<1>4. pg.kind = "show" => Covers'
  BY <1>3 DEF Covers, RecordInv, GoesOn
<1>5. UNCHANGED <<feed, file>>
  BY DEF Paging, store
<1> QED BY <1>3, <1>4, <1>5 DEF RecordInv

LEMMA PageTracked ==
  ASSUME StoreOk, Shape, RecordInv, pg.kind \in {"show", "evidence", "actions"},
         Paging, faults' = faults, NEW v \in Nat, Page(v),
         pg.pc \in {"read", "cursor"}, pg.kind = "show" => pg.pc = "cursor" \/ pg.todo = {},
         ~pg.touched => Live(pg.turn[1], pg.turn[2], v),
         pg.pc = "cursor" => v = pg.after \/ Mixed
  PROVE  StoreOk' /\ Tracked'
<1>1. /\ DOMAIN pg = Names /\ pg.pinned \in Pins /\ Within(pg.pinned)
      /\ pg.short \in BOOLEAN /\ pg.result = "none" /\ pg.seen \in Pins
      /\ pg.items \in Seq(Piece) /\ Joined1(pg.items, Mixed) /\ pg.at \in Nat
      /\ Mixed \in BOOLEAN
      /\ pg.pc = "read" => pg.items = <<>> /\ pg.at = 0
      /\ pg.pc = "cursor" => Follows(pg.items, pg.at, pg.after, Mixed)
  BY RecordFields
<1>2. StoreOk' /\ UNCHANGED <<feed, file>>
  BY PagingStore
<1>3. PICK q \in Seq(Piece) : q = pg.items
  BY <1>1
<1>4. PICK end \in pg.at + 1..Length :
        LET piece == [v |-> v, from |-> pg.at, to |-> end] IN
        pg' = IF end = Length
              THEN [Finish("complete") EXCEPT !.items = Append(@, piece)]
              ELSE [pg EXCEPT !.pc = "cursor", !.at = end, !.items = Append(@, piece),
                              !.after = v]
  BY DEF Page
<1>5. end \in Nat
  BY <1>1, <1>4, PagesAssumption
<1>6. PICK p \in Piece : p = [v |-> v, from |-> pg.at, to |-> end]
  BY <1>1, <1>5 DEF Piece
<1>7. p.v = v /\ p.from = pg.at /\ p.to = end
  BY <1>6
<1>8. PICK r : r = Append(q, p)
  OBVIOUS
<1>9. r \in Seq(Piece) /\ Joined1(r, Mixed) /\ Follows(r, end, v, Mixed)
  <2>1. Joined1(q, Mixed)
    BY <1>1, <1>3
  <2>2. Len(q) = 0 => p.from = 0
    <3>1. pg.pc = "cursor" => Len(q) # 0
      BY <1>1, <1>3 DEF Follows
    <3> QED BY <1>1, <1>7, <3>1
  <2>3. Len(q) # 0 => Follows(q, p.from, p.v, Mixed)
    <3>1. CASE pg.pc = "read"
      <4>1. q = <<>>
        BY <1>1, <1>3, <3>1
      <4> QED BY <4>1
    <3>2. CASE pg.pc = "cursor"
      BY <1>1, <1>3, <1>7, <3>2 DEF Follows
    <3> QED BY <3>1, <3>2
  <2>4. PICK m \in BOOLEAN : m = Mixed
    BY <1>1
  <2>5. r \in Seq(Piece) /\ Joined1(r, m) /\ Follows(r, p.to, p.v, m)
    BY <1>8, <2>1, <2>2, <2>3, <2>4, PieceJoins
  <2> QED BY <1>7, <2>4, <2>5
<1>10. CASE end = Length
  <2>1. pg' = [[pg EXCEPT !.pc = "done", !.result = "complete"] EXCEPT !.items = r]
    BY <1>1, <1>3, <1>4, <1>6, <1>8, <1>10 DEF Finish, Names
  <2>2. /\ DOMAIN pg' = Names /\ GoesOn /\ pg'.pc = "done" /\ pg'.seen = pg.seen
        /\ pg'.todo = pg.todo /\ pg'.pinned = pg.pinned /\ pg'.short = pg.short
        /\ pg'.items = r /\ pg'.result = "complete"
    BY <1>1, <2>1 DEF Names, GoesOn
  <2>3. /\ Shape' /\ (pg.kind = "show" => Covers')
        /\ pg.kind = "show" /\ ~pg.touched /\ pg.pinned[pg.turn[1]] # None =>
              feed'[pg.turn[1]] # Gone /\ Has(file'[pg.turn[1]], pg.pinned[pg.turn[1]])
    BY <2>2, RecordAgain
  <2>4. Mixed' = Mixed /\ pg'.turn = pg.turn /\ pg'.kind = pg.kind /\ pg'.touched = pg.touched
    BY <2>2 DEF Mixed, GoesOn
  <2>5. Joined1(pg.items, Mixed)'
    BY <1>9, <2>2, <2>4
  <2>6. RecordInv'
    BY <1>9, <2>2, <2>3, <2>4, <2>5 DEF RecordInv
  <2> QED BY <1>2, <2>3, <2>4, <2>6 DEF Tracked
<1>11. CASE end # Length
  <2>1. pg' = [pg EXCEPT !.pc = "cursor", !.at = end, !.items = r, !.after = v]
    BY <1>1, <1>3, <1>4, <1>6, <1>8, <1>11 DEF Names
  <2>2. /\ DOMAIN pg' = Names /\ GoesOn /\ pg'.pc = "cursor" /\ pg'.seen = pg.seen
        /\ pg'.todo = pg.todo /\ pg'.pinned = pg.pinned /\ pg'.short = pg.short
        /\ pg'.items = r /\ pg'.result = "none" /\ pg'.at = end /\ pg'.after = v
    BY <1>1, <2>1 DEF Names, GoesOn
  <2>3. /\ Shape' /\ (pg.kind = "show" => Covers')
        /\ pg.kind = "show" /\ ~pg.touched /\ pg.pinned[pg.turn[1]] # None =>
              feed'[pg.turn[1]] # Gone /\ Has(file'[pg.turn[1]], pg.pinned[pg.turn[1]])
    BY <1>1, <2>2, RecordAgain
  <2>4. Mixed' = Mixed /\ pg'.turn = pg.turn /\ pg'.kind = pg.kind /\ pg'.touched = pg.touched
    BY <2>2 DEF Mixed, GoesOn
  <2>5. Joined1(pg.items, Mixed)' /\ Follows(pg.items, pg.at, pg.after, Mixed)'
    BY <1>9, <2>2, <2>4
  <2>6. ~pg.touched => Live(pg.turn[1], pg.turn[2], pg.after)'
    BY <1>2, <2>2, <2>4 DEF Live
  <2>7. RecordInv'
    BY <1>5, <1>9, <2>2, <2>3, <2>4, <2>5, <2>6 DEF RecordInv
  <2> QED BY <1>2, <2>3, <2>4, <2>7 DEF Tracked
<1> QED BY <1>10, <1>11

LEMMA RecordEnds ==
  ASSUME StoreOk, Shape, RecordInv, pg.kind \in {"show", "evidence", "actions"},
         Paging, faults' = faults,
         NEW result \in {"changed", "absent", "incomplete", "failed"}, pg' = Finish(result),
         pg.pc \in {"read", "cursor"}, pg.kind = "show" => pg.pc = "cursor" \/ pg.todo = {},
         result = "changed" => pg.touched,
         result = "absent" => ~(pg.turn \in pg.had /\ Wanted(pg.turn))
  PROVE  StoreOk' /\ Tracked'
<1>1. /\ DOMAIN pg = Names /\ pg.pinned \in Pins /\ Within(pg.pinned)
      /\ pg.short \in BOOLEAN /\ pg.result = "none" /\ pg.seen \in Pins
      /\ pg.items \in Seq(Piece) /\ Joined1(pg.items, Mixed)
  BY RecordFields
<1>2. StoreOk'
  BY PagingStore
<1>3. pg' = [pg EXCEPT !.pc = "done", !.result = result]
  BY DEF Finish
<1>4. /\ DOMAIN pg' = Names /\ GoesOn /\ pg'.pc = "done" /\ pg'.seen = pg.seen
      /\ pg'.todo = pg.todo /\ pg'.pinned = pg.pinned /\ pg'.short = pg.short
      /\ pg'.items = pg.items /\ pg'.result = result
  BY <1>1, <1>3 DEF Names, GoesOn
<1>5. /\ Shape' /\ (pg.kind = "show" => Covers')
      /\ pg.kind = "show" /\ ~pg.touched /\ pg.pinned[pg.turn[1]] # None =>
            feed'[pg.turn[1]] # Gone /\ Has(file'[pg.turn[1]], pg.pinned[pg.turn[1]])
  BY <1>4, RecordAgain
<1>6. /\ Mixed' = Mixed /\ pg'.turn = pg.turn /\ pg'.kind = pg.kind
      /\ pg'.touched = pg.touched /\ pg'.had = pg.had
  BY <1>4 DEF Mixed, GoesOn
<1>7. Joined1(pg.items, Mixed)'
  BY <1>1, <1>4, <1>6
<1>8. Wanted(pg.turn)' = Wanted(pg.turn)
  <2>1. PICK t : t = pg.turn
    OBVIOUS
  <2>2. Wanted(t)' = Wanted(t)
    BY PagingWanted
  <2> QED BY <1>6, <2>1, <2>2 DEF Wanted
<1>9. RecordInv'
  BY <1>1, <1>4, <1>5, <1>6, <1>7, <1>8 DEF RecordInv
<1> QED BY <1>2, <1>5, <1>6, <1>9 DEF Tracked


LEMMA FirstRecordPageTracked ==
  ASSUME StoreOk, Tracked, FirstRecordPage
  PROVE  StoreOk' /\ Tracked'
<1>1. /\ Shape /\ RecordInv /\ pg.kind = "show" /\ Paging /\ faults' = faults
      /\ pg.pc = "read" /\ pg.todo = {} /\ Covers
  BY DEF Tracked, FirstRecordPage, RecordInv
<1>2. PICK ps \in Pins : ps = pg.pinned
  BY <1>1 DEF Shape
<1>3. Within(ps)
  BY <1>1, <1>2 DEF Shape
<1>4. PICK s \in Sessions, n \in 1..MaxTurns : pg.turn = <<s, n>>
  BY <1>1 DEF RecordInv
<1>5. pg.turn[1] = s /\ pg.turn[2] = n /\ n \in Nat
  BY <1>4, WatchAssumption
<1> DEFINE found == {t \in Records(pg.pinned) : <<t.s, t.n>> = pg.turn}
<1>6. CASE found = {}
  <2>1. pg' = Finish(NotFound)
    BY <1>6 DEF FirstRecordPage
  <2>2. NotFound = "absent" => pg.turn \notin pg.had
    <3> SUFFICES ASSUME NotFound = "absent", pg.turn \in pg.had PROVE FALSE
      OBVIOUS
    <3>1. ~pg.short
      BY DEF NotFound
    <3>2. pg.turn \in Keys(ps)
      BY <1>1, <1>2, <3>1 DEF Covers
    <3>3. Rec(ps, pg.turn) \in Records(ps)
      BY <1>3, <3>2, RecordsAre
    <3>4. <<Rec(ps, pg.turn).s, Rec(ps, pg.turn).n>> = pg.turn
      BY <1>3, <3>2, KeyIs
    <3> QED BY <1>2, <1>6, <3>3, <3>4
  <2>3. PICK result \in {"absent", "incomplete"} : result = NotFound
    BY DEF NotFound
  <2> QED BY <1>1, <2>1, <2>2, <2>3, RecordEnds
<1>7. CASE found # {} /\ ~Wanted(pg.turn)
  <2>1. pg' = Finish("absent")
    BY <1>7 DEF FirstRecordPage
  <2> QED BY <1>1, <1>7, <2>1, RecordEnds
<1>8. CASE found # {} /\ Wanted(pg.turn)
  <2>1. PICK t \in found : Page(t.v)
    BY <1>8 DEF FirstRecordPage
  <2>2. t \in Records(ps) /\ <<t.s, t.n>> = <<s, n>>
    BY <1>2, <1>4, <2>1
  <2>3. PICK u \in Keys(ps) : t = Rec(ps, u)
    BY <1>3, <2>2, RecordsAre
  <2>4. u = <<s, n>> /\ t.v \in Nat
    <3>1. /\ u = <<u[1], u[2]>> /\ Rec(ps, u).s = u[1] /\ Rec(ps, u).n = u[2]
          /\ Rec(ps, u) \in Item
      BY <1>3, KeyIs
    <3> QED BY <2>2, <2>3, <3>1 DEF Item
  <2>5. t.v = ps[s].lines[n] /\ ps[s] # None /\ n <= Len(ps[s].lines)
    BY <1>5, <2>3, <2>4 DEF Rec, Keys
  <2>6. ~pg.touched => Live(s, n, t.v)
    <3> SUFFICES ASSUME ~pg.touched PROVE Live(s, n, t.v)
      OBVIOUS
    <3>1. feed[s] # Gone /\ Has(file[s], ps[s]) /\ ps[s] \in Pin /\ file[s] \in File
      BY <1>1, <1>2, <1>5, <2>5, FilesTyped DEF RecordInv, Pins
    <3>2. PICK L \in Seq(Nat), M \in Seq(Nat) : L = ps[s].lines /\ M = file[s].lines
      BY <3>1 DEF Pin, File
    <3>3. Len(L) <= Len(M) /\ (\A i \in 1..Len(L) : M[i] = L[i]) /\ n <= Len(L) /\ t.v = L[n]
      BY <2>5, <3>1, <3>2 DEF Has
    <3>4. n <= Len(M) /\ M[n] = t.v
      BY <1>4, <1>5, <3>3
    <3> QED BY <3>1, <3>2, <3>4 DEF Live
  <2>7. PICK v \in Nat : v = t.v
    BY <2>4
  <2> QED BY <1>1, <1>5, <2>1, <2>6, <2>7, PageTracked
<1> QED BY <1>6, <1>7, <1>8

(* A line that is there is a version. *)
LEMMA LineIs ==
  ASSUME StoreOk, NEW s \in Sessions, NEW n \in 1..MaxTurns, n <= Len(file[s].lines)
  PROVE  /\ file[s].lines[n] \in Nat /\ Live(s, n, file[s].lines[n])
<1>1. file[s] \in File /\ Len(file[s].lines) = Published(s)
  BY FilesTyped
<1>2. PICK L \in Seq(Nat) : L = file[s].lines
  BY <1>1 DEF File
<1>3. n \in Nat /\ n >= 1
  BY WatchAssumption
<1>4. L[n] \in Nat
  BY <1>2, <1>3
<1>5. feed[s] # Gone
  <2>1. Published(s) # 0
    BY <1>1, <1>2, <1>3
  <2> QED BY <2>1 DEF Published
<1> QED BY <1>2, <1>4, <1>5 DEF Live

LEMMA NextRecordPageTracked ==
  ASSUME StoreOk, Tracked, NextRecordPage
  PROVE  StoreOk' /\ Tracked'
<1>1. /\ Shape /\ RecordInv /\ pg.kind \in {"show", "evidence"} /\ Paging /\ faults' = faults
      /\ pg.pc = "cursor"
  BY DEF Tracked, NextRecordPage
<1>2. PICK s \in Sessions, n \in 1..MaxTurns : pg.turn = <<s, n>>
  BY <1>1 DEF RecordInv
<1>3. pg.turn[1] = s /\ pg.turn[2] = n
  BY <1>2
<1>4. ~pg.touched => StillThere(s, n)
  BY <1>1, <1>3 DEF RecordInv, Live, StillThere
<1>5. CASE StillThere(s, n)
  <2>1. Page(file[s].lines[n])
    BY <1>3, <1>5 DEF NextRecordPage
  <2>2. n <= Len(file[s].lines) /\ file[s].lines[n] = pg.after
    <3>1. file[s] \in File /\ n \in Nat
      BY FilesTyped, WatchAssumption
    <3>2. PICK L \in Seq(Nat) : L = file[s].lines
      BY <3>1 DEF File
    <3>3. Len(L) >= n /\ file[s].lines[n] = pg.after
      BY <1>5, <3>2 DEF StillThere
    <3> QED BY <3>1, <3>2, <3>3
  <2>3. PICK v \in Nat : v = file[s].lines[n] /\ Live(s, n, v)
    BY <2>2, LineIs
  <2> QED BY <1>1, <1>3, <2>1, <2>2, <2>3, PageTracked
<1>6. CASE ~StillThere(s, n)
  <2>1. pg' = Finish("changed")
    BY <1>3, <1>6 DEF NextRecordPage
  <2>2. pg.touched
    BY <1>1, <1>4, <1>6 DEF Shape, Known
  <2> QED BY <1>1, <2>1, <2>2, RecordEnds
<1> QED BY <1>5, <1>6

LEMMA EvidencePageTracked ==
  ASSUME StoreOk, Tracked, EvidencePage
  PROVE  StoreOk' /\ Tracked'
<1>1. /\ Shape /\ RecordInv /\ pg.kind \in {"evidence", "actions"} /\ Paging /\ faults' = faults
      /\ pg.pc \in {"read", "cursor"} /\ (pg.pc = "cursor" => pg.kind = "actions")
  BY DEF Tracked, EvidencePage
<1>2. PICK s \in Sessions, n \in 1..MaxTurns : pg.turn = <<s, n>>
  BY <1>1 DEF RecordInv
<1>3. pg.turn[1] = s /\ pg.turn[2] = n /\ n \in Nat
  BY <1>2, WatchAssumption
<1>4. file[s] \in File /\ Len(file[s].lines) = Published(s) /\ Published(s) \in Nat
  BY FilesTyped
<1>5. CASE feed[s] # Gone /\ ~Fits(s)
  <2>1. pg' = Finish("failed")
    BY <1>3, <1>5 DEF EvidencePage
  <2> QED BY <1>1, <2>1, RecordEnds
<1>6. CASE ~(feed[s] # Gone /\ ~Fits(s)) /\ Len(file[s].lines) >= n /\ Wanted(pg.turn)
  <2>1. Page(file[s].lines[n])
    BY <1>3, <1>6 DEF EvidencePage
  <2>2. n <= Len(file[s].lines)
    BY <1>3, <1>4, <1>6
  <2>3. PICK v \in Nat : v = file[s].lines[n] /\ Live(s, n, v)
    BY <2>2, LineIs
  <2>4. pg.pc = "cursor" => v = pg.after \/ Mixed
    BY <1>1, <1>3, <2>3 DEF RecordInv, Live, Mixed
  <2> QED BY <1>1, <1>3, <2>1, <2>3, <2>4, PageTracked
<1>7. CASE ~(feed[s] # Gone /\ ~Fits(s)) /\ ~(Len(file[s].lines) >= n /\ Wanted(pg.turn))
  <2>1. pg' = Finish("absent")
    BY <1>3, <1>7 DEF EvidencePage
  <2>2. ~(pg.turn \in pg.had /\ Wanted(pg.turn))
    <3> SUFFICES ASSUME pg.turn \in pg.had, Wanted(pg.turn) PROVE FALSE
      OBVIOUS
    <3>1. pg.turn \in InStore
      BY <1>1 DEF Shape
    <3>2. n <= Published(s)
      BY <1>3, <3>1 DEF InStore
    <3> QED BY <1>3, <1>4, <1>7, <3>2
  <2> QED BY <1>1, <2>1, <2>2, RecordEnds
<1> QED BY <1>5, <1>6, <1>7


-----------------------------------------------------------------------------
(* The health of the store *)

LEMMA HealthAgain ==
  ASSUME StoreOk, Shape, Paging, GoesOn, pg'.pinned = pg.pinned, pg'.short = pg.short,
         pg'.seen = pg.seen, pg'.pc # "done" => pg'.result = "none",
         faults' = faults \/ (faults < MaxFaults /\ faults' = faults + 1)
  PROVE  /\ StoreOk' /\ Shape' /\ Keys(pg.pinned)' = Keys(pg.pinned) /\ Checked' = Checked
         /\ \A n \in 1..4 : There(Stages[n])' = There(Stages[n])
         /\ UNCHANGED <<file, feed>>
<1>1. PICK ps \in Pins : ps = pg.pinned
  BY DEF Shape
<1>2. Within(ps) /\ pg.seen \in Pins /\ pg.short \in BOOLEAN
  BY <1>1 DEF Shape
<1>3. StoreOk' /\ UNCHANGED <<scene, turns, feed, member, lease, cursor, file, stamp>>
  BY PagingStore
<1>4. Shape' /\ Keys(pg.pinned)' = Keys(pg.pinned)
  BY <1>1, <1>2, PagingShape, PagingSame
<1>5. Checked' = Checked
  BY <1>4 DEF Checked, GoesOn
<1>6. \A n \in 1..4 : There(Stages[n])' = There(Stages[n])
  BY <1>3 DEF There
<1> QED BY <1>3, <1>4, <1>5, <1>6

LEMMA ListStageTracked ==
  ASSUME StoreOk, Tracked, ListStage
  PROVE  StoreOk' /\ Tracked'
<1>1. /\ Shape /\ HealthInv /\ pg.kind = "health" /\ pg.pc = "list" /\ Paging /\ faults' = faults
  BY DEF Tracked, ListStage
<1>2. /\ DOMAIN pg = Names /\ pg.short \in BOOLEAN /\ pg.stage \in 0..4 /\ pg.result = "none"
      /\ pg.had \subseteq InStore
  BY <1>1 DEF Shape, Known, HealthInv
<1>3. Len(Stages) = 4
  BY DEF Stages
<1>4. CASE pg.stage = 4
  <2>1. PICK result : result = IF pg.short THEN "degraded" ELSE "ok"
    OBVIOUS
  <2>2. pg' = [pg EXCEPT !.pc = "done", !.result = result]
    BY <1>3, <1>4, <2>1 DEF ListStage, Finish
  <2>3. /\ DOMAIN pg' = Names /\ GoesOn /\ pg'.pc = "done" /\ pg'.seen = pg.seen
        /\ pg'.pinned = pg.pinned /\ pg'.short = pg.short
        /\ pg'.stage = pg.stage /\ pg'.result = result
    BY <1>2, <2>2 DEF Names, GoesOn
  <2>4. StoreOk' /\ Shape' /\ Checked' = Checked
    BY <1>1, <2>3, HealthAgain
  <2>5. Checked
    BY <1>1, <1>4 DEF HealthInv
  <2>6. HealthInv'
    BY <1>2, <2>1, <2>3, <2>4, <2>5 DEF HealthInv
  <2> QED BY <1>1, <2>3, <2>4, <2>6 DEF Tracked, GoesOn
<1>5. CASE pg.stage # 4
  <2>1. PICK n \in 1..4 : n = pg.stage + 1
    BY <1>2, <1>5
  <2>2. PICK T : T = There(Stages[n])
    OBVIOUS
  <2>3. pg' = [pg EXCEPT !.stage = n, !.pc = "read", !.todo = T]
    <3>1. pg' = [pg EXCEPT !.stage = @ + 1, !.pc = "read", !.todo = There(Stages[pg.stage + 1])]
      BY <1>3, <1>5 DEF ListStage
    <3> QED BY <2>1, <2>2, <3>1
  <2>4. /\ DOMAIN pg' = Names /\ GoesOn /\ pg'.pc = "read" /\ pg'.seen = pg.seen
        /\ pg'.pinned = pg.pinned /\ pg'.short = pg.short
        /\ pg'.stage = n /\ pg'.result = "none" /\ pg'.todo = T
    BY <1>2, <2>3 DEF Names, GoesOn
  <2>5. /\ StoreOk' /\ Shape' /\ Checked' = Checked
        /\ There(Stages[n])' = There(Stages[n])
    BY <1>1, <2>4, HealthAgain
  <2>6. T \subseteq There(Stages[pg.stage])'
    <3>1. There(Stages[pg.stage])' = There(Stages[n])'
      BY <2>4 DEF There
    <3> QED BY <2>2, <2>5, <3>1
  <2>7. n = 3 => T \subseteq Sessions /\ \A t \in pg.had : t[1] \in T
    <3>1. n = 3 => T = {s \in Sessions : feed[s] # Gone}
      BY <2>2, ThereIs
    <3>2. ASSUME NEW t \in pg.had PROVE t[1] \in Sessions /\ feed[t[1]] # Gone
      <4>1. PICK s \in Sessions, k \in 1..MaxTurns : t = <<s, k>> /\ k <= Published(s)
        BY <1>2 DEF InStore
      <4>2. Published(s) # 0
        BY <4>1, WatchAssumption
      <4> QED BY <4>1, <4>2 DEF Published
    <3> QED BY <3>1, <3>2
  <2>8. n = 4 => Checked
    BY <1>1, <2>1 DEF HealthInv
  <2>9. HealthInv'
    BY <2>1, <2>4, <2>5, <2>6, <2>7, <2>8 DEF HealthInv, GoesOn
  <2> QED BY <1>1, <2>4, <2>5, <2>9 DEF Tracked, GoesOn
<1> QED BY <1>4, <1>5

LEMMA EndStageTracked ==
  ASSUME StoreOk, Tracked, EndStage
  PROVE  StoreOk' /\ Tracked'
<1>1. /\ Shape /\ HealthInv /\ pg.kind = "health" /\ pg.pc = "read" /\ pg.todo = {}
      /\ Paging /\ faults' = faults /\ pg' = [pg EXCEPT !.pc = "list"]
  BY DEF Tracked, EndStage
<1>2. DOMAIN pg = Names /\ pg.result = "none"
  BY <1>1 DEF Shape, Known
<1>3. /\ DOMAIN pg' = Names /\ GoesOn /\ pg'.pc = "list" /\ pg'.seen = pg.seen
      /\ pg'.pinned = pg.pinned /\ pg'.short = pg.short
      /\ pg'.stage = pg.stage /\ pg'.result = "none"
  BY <1>1, <1>2 DEF Names, GoesOn
<1>4. StoreOk' /\ Shape' /\ Checked' = Checked
  BY <1>1, <1>3, HealthAgain
<1>5. pg.stage = 3 \/ pg.stage = 4 => Checked
  BY <1>1 DEF HealthInv, Checked
<1>6. HealthInv'
  BY <1>1, <1>3, <1>4, <1>5 DEF HealthInv
<1> QED BY <1>1, <1>3, <1>4, <1>6 DEF Tracked, GoesOn

LEMMA ReadHealthFileTracked ==
  ASSUME StoreOk, Tracked, ReadHealthFile
  PROVE  StoreOk' /\ Tracked'
<1>1. /\ Shape /\ HealthInv /\ pg.kind = "health" /\ pg.pc = "read" /\ Paging
  BY DEF Tracked, ReadHealthFile
<1>2. /\ DOMAIN pg = Names /\ pg.short \in BOOLEAN /\ pg.stage \in 1..4 /\ pg.result = "none"
      /\ pg.had \subseteq InStore /\ pg.pinned \in Pins /\ pg.seen \in Pins
      /\ Within(pg.pinned) /\ pg.touched \in BOOLEAN
  BY <1>1 DEF Shape, Known, HealthInv
<1>3. PICK n \in 1..4 : n = pg.stage
  BY <1>2
<1>4. Stages[n] = "feed" <=> n = 3
  BY DEF Stages
<1>5. PICK x \in pg.todo, fails \in BOOLEAN :
        LET fits == x \in There(Stages[n]) /\ (Stages[n] = "feed" => Fits(x)) IN
        /\ fails => fits /\ faults < MaxFaults
        /\ faults' = IF fails THEN faults + 1 ELSE faults
        /\ pg' = IF ~fits \/ fails THEN [Finish("refused") EXCEPT !.total = x]
                 ELSE IF Stages[n] # "feed" THEN [pg EXCEPT !.todo = @ \ {x}]
                 ELSE [pg EXCEPT !.todo = @ \ {x}, !.pinned[x] = Whole(x),
                                 !.short = @ \/ Partial(x)]
  BY <1>3 DEF ReadHealthFile
<1> DEFINE fits == x \in There(Stages[n]) /\ (Stages[n] = "feed" => Fits(x))
<1>6. faults' = faults \/ (faults < MaxFaults /\ faults' = faults + 1)
  BY <1>5
<1>7. ASSUME GoesOn, pg'.stage = pg.stage
      PROVE  \A X : X \subseteq There(Stages[pg.stage]) => X \subseteq There(Stages[pg.stage])'
  <2>1. UNCHANGED <<member, lease, feed, cursor>>
    BY <1>1 DEF Paging, store
  <2> QED BY <1>7, <2>1 DEF There
<1>8. CASE ~fits \/ fails
  <2>1. pg' = [[pg EXCEPT !.pc = "done", !.result = "refused"] EXCEPT !.total = x]
    BY <1>5, <1>8 DEF Finish
  <2>2. /\ DOMAIN pg' = Names /\ GoesOn /\ pg'.pc = "done" /\ pg'.seen = pg.seen
        /\ pg'.pinned = pg.pinned /\ pg'.short = pg.short
        /\ pg'.stage = pg.stage /\ pg'.result = "refused" /\ pg'.total = x
    BY <1>2, <2>1 DEF Names, GoesOn
  <2>3. StoreOk' /\ Shape' /\ UNCHANGED <<file, feed>>
    BY <1>1, <1>6, <2>2, HealthAgain
  <2>4. pg.touched \/ faults' > 0 \/ (x \in Sessions /\ ~Fits(x))
    <3>1. CASE fails
      <4>1. faults' = faults + 1 /\ faults \in Nat
        BY <1>5, <3>1, StoreTyped
      <4> QED BY <4>1
    <3>2. CASE ~fails /\ ~pg.touched
      <4>1. ~fits
        BY <1>8, <3>2
      <4>2. x \in There(Stages[n])
        BY <1>1, <1>3, <3>2 DEF HealthInv
      <4>3. n = 3 /\ ~Fits(x)
        BY <1>4, <4>1, <4>2
      <4>4. x \in Sessions
        BY <1>1, <1>3, <4>3 DEF HealthInv
      <4> QED BY <4>3, <4>4
    <3> QED BY <1>2, <3>1, <3>2
  <2>5. Fits(x)' = Fits(x)
    BY <2>2, <2>3 DEF Fits, GoesOn
  <2>6. x \in Sessions /\ ~Fits(x) => ~Fits(pg.total)'
    BY <2>2, <2>5 DEF Fits
  <2>7. HealthInv'
    BY <1>2, <2>2, <2>4, <2>6 DEF HealthInv, GoesOn
  <2> QED BY <1>1, <2>2, <2>3, <2>7 DEF Tracked, GoesOn
<1>9. CASE fits /\ ~fails /\ n # 3
  <2>1. pg' = [pg EXCEPT !.todo = @ \ {x}]
    BY <1>4, <1>5, <1>9
  <2>2. /\ DOMAIN pg' = Names /\ GoesOn /\ pg'.pc = "read" /\ pg'.seen = pg.seen
        /\ pg'.pinned = pg.pinned /\ pg'.short = pg.short
        /\ pg'.stage = pg.stage /\ pg'.result = "none" /\ pg'.todo = pg.todo \ {x}
    BY <1>1, <1>2, <2>1 DEF Names, GoesOn
  <2>3. StoreOk' /\ Shape' /\ Checked' = Checked
    BY <1>1, <1>6, <2>2, HealthAgain
  <2>4. ~pg.touched => pg'.todo \subseteq There(Stages[pg.stage])'
    BY <1>1, <1>7, <2>2 DEF HealthInv
  <2>5. HealthInv'
    BY <1>1, <1>2, <1>3, <1>9, <2>2, <2>3, <2>4 DEF HealthInv, GoesOn
  <2> QED BY <1>1, <2>2, <2>3, <2>5 DEF Tracked, GoesOn
<1>10. CASE fits /\ ~fails /\ n = 3
  <2>1. PICK s \in Sessions : s = x
    BY <1>1, <1>3, <1>10 DEF HealthInv
  <2>2. PICK ps \in Pins : ps = pg.pinned
    BY <1>2
  <2>3. PICK qs : qs = [ps EXCEPT ![s] = Whole(s)]
    OBVIOUS
  <2>4. PICK short \in BOOLEAN : short = (pg.short \/ Partial(s))
    BY <1>2 DEF Partial
  <2>5. pg' = [pg EXCEPT !.todo = @ \ {s}, !.pinned = qs, !.short = short]
    <3>1. pg' = [pg EXCEPT !.todo = @ \ {s}, !.pinned[s] = Whole(s), !.short = @ \/ Partial(s)]
      BY <1>4, <1>5, <1>10, <2>1
    <3> QED BY <1>2, <2>2, <2>3, <2>4, <3>1 DEF Names
  <2>6. /\ DOMAIN pg' = Names /\ GoesOn /\ pg'.pc = "read" /\ pg'.seen = pg.seen
        /\ pg'.pinned = qs /\ pg'.short = short
        /\ pg'.stage = pg.stage /\ pg'.result = "none" /\ pg'.todo = pg.todo \ {s}
    BY <1>1, <1>2, <2>5 DEF Names, GoesOn
  <2>7. PinnedAs(ps, s, qs)
    <3>1. Within(ps)
      BY <1>2, <2>2
    <3> QED BY <2>3, <3>1, PinIs
  <2>8. qs \in Pins /\ Within(qs)
    BY <2>7 DEF PinnedAs
  <2>9. StoreOk'
    BY <1>1, <1>6, PagingStore
  <2>10. Shape' /\ Keys(pg.pinned)' = Keys(qs)
    BY <1>1, <1>2, <2>6, <2>8, PagingShape, PagingSame
  <2>11. ASSUME NEW t \in pg.had
         PROVE  \/ t[1] \in pg.todo \ {s}
                \/ t \in Keys(qs) /\ (qs[t[1]].part = None \/ short)
    <3>1. \/ t[1] \in pg.todo
          \/ t \in Keys(ps) /\ (ps[t[1]].part = None \/ pg.short)
      BY <1>1, <1>3, <1>10, <2>2 DEF HealthInv
    <3>2. CASE t[1] = s
      <4>1. t \in Keys(qs) /\ qs[s] = Whole(s)
        BY <1>2, <2>7, <3>2 DEF PinnedAs
      <4>2. Whole(s).part = file[s].tail
        BY WholeIs
      <4> QED BY <2>4, <3>2, <4>1, <4>2 DEF Partial
    <3>3. CASE t[1] # s
      <4>1. t \in Keys(ps) => t \in Keys(qs)
        BY <2>7, <3>3 DEF PinnedAs
      <4>2. t[1] \in Sessions
        BY <1>2 DEF InStore
      <4>3. qs[t[1]] = ps[t[1]]
        BY <2>7, <3>3, <4>2 DEF PinnedAs
      <4> QED BY <2>4, <3>1, <3>3, <4>1, <4>3
    <3> QED BY <3>2, <3>3
  <2>12. ~pg.touched => pg'.todo \subseteq There(Stages[pg.stage])'
    BY <1>1, <1>7, <2>6 DEF HealthInv
  <2>13. pg'.todo \subseteq Sessions
    BY <1>1, <1>3, <1>10, <2>6 DEF HealthInv
  <2>14. HealthInv'
    <3>1. pg'.had = pg.had /\ pg'.touched = pg.touched /\ pg.stage = 3
      BY <1>3, <1>10, <2>6 DEF GoesOn
    <3>2. \A t \in pg'.had : \/ t[1] \in pg'.todo
                             \/ t \in Keys(pg.pinned)'
                                  /\ (pg'.pinned[t[1]].part = None \/ pg'.short)
      BY <2>6, <2>10, <2>11, <3>1
    <3> QED BY <2>6, <2>12, <2>13, <3>1, <3>2 DEF HealthInv
  <2> QED BY <1>1, <2>6, <2>9, <2>10, <2>14 DEF Tracked, GoesOn
<1> QED BY <1>8, <1>9, <1>10


-----------------------------------------------------------------------------
(* The invariant holds. *)

LEMMA StartTracked ==
  ASSUME StoreOk, NEW kind \in Kinds, NEW turn, NEW limit \in Nat, Start(kind, turn, limit),
         kind \in {"list", "context", "health"} => turn[1] = None,
         kind \in {"show", "evidence", "actions"} => turn \in Sessions \X (1..MaxTurns)
  PROVE  StoreOk' /\ Tracked'
<1>1. Paging /\ faults' = faults
  BY DEF Start
<1>2. PICK e : e = [s \in Sessions |-> None]
  OBVIOUS
<1>3. /\ e \in Pins /\ Within(e)
      /\ \A s \in Sessions : e[s] = None
  BY <1>2 DEF Pins, Within
<1>4. PICK todo : todo = IF kind \in {"list", "context", "show"}
                         THEN {s \in Sessions : feed[s] # Gone} ELSE {}
  OBVIOUS
<1>5. pg' = [kind |-> kind, turn |-> turn, limit |-> limit, stage |-> 0,
             pc |-> IF kind = "health" THEN "list" ELSE "read",
             todo |-> todo, short |-> FALSE, pinned |-> e, seen |-> e,
             at |-> 0, after |-> None, total |-> None, items |-> <<>>,
             result |-> "none", had |-> InStore, touched |-> FALSE]
  BY <1>2, <1>4 DEF Start
<1>6. /\ DOMAIN pg' = Names /\ pg'.kind = kind /\ pg'.turn = turn /\ pg'.limit = limit
      /\ pg'.stage = 0 /\ pg'.pc = (IF kind = "health" THEN "list" ELSE "read")
      /\ pg'.todo = todo /\ pg'.short = FALSE /\ pg'.pinned = e /\ pg'.seen = e
      /\ pg'.at = 0 /\ pg'.after = None /\ pg'.items = <<>> /\ pg'.result = "none"
      /\ pg'.had = InStore /\ pg'.touched = FALSE
  BY <1>5 DEF Names
<1>7. StoreOk'
  BY <1>1, PagingStore
<1>8. All' = Sorted(Turns(e)) /\ InStore' = InStore /\ Within(pg.pinned)'
  BY <1>1, <1>3, <1>6, PagingSame
<1>9. Shape'
  BY <1>3, <1>6, <1>8 DEF Shape, Known, Kinds
<1>10. kind \in {"list", "context", "show"} => Covers'
  <2>1. ASSUME NEW t \in InStore PROVE t[1] \in Sessions /\ feed[t[1]] # Gone
    <3>1. PICK s \in Sessions, n \in 1..MaxTurns : t = <<s, n>> /\ n <= Published(s)
      BY DEF InStore
    <3>2. Published(s) # 0
      BY <3>1, WatchAssumption
    <3> QED BY <3>1, <3>2 DEF Published
  <2> QED BY <1>4, <1>6, <2>1 DEF Covers
<1>11. CASE kind = "list"
  <2>1. PICK A : A = Sorted(Turns(e))
    OBVIOUS
  <2>2. Len(A) \in Nat
    BY <1>3, <2>1, SortedTurns
  <2>3. <<>> \in Seq(Item) /\ Len(<<>>) = 0
    OBVIOUS
  <2>4. Leads(pg.items, All)'
    BY <1>6, <1>8, <2>1, <2>2, <2>3 DEF Leads
  <2>5. Intact'
    BY <1>3, <1>6 DEF Intact
  <2>6. ListInv'
    BY <1>6, <1>10, <1>11, <2>3, <2>4, <2>5 DEF ListInv
  <2> QED BY <1>6, <1>7, <1>9, <1>11, <2>6 DEF Tracked
<1>12. CASE kind = "context"
  <2>1. ContextInv'
    BY <1>6, <1>10, <1>12 DEF ContextInv
  <2> QED BY <1>6, <1>7, <1>9, <1>12, <2>1 DEF Tracked
<1>13. CASE kind \in {"show", "evidence", "actions"}
  <2>1. PICK s \in Sessions : turn[1] = s
    BY <1>13
  <2>2. <<>> \in Seq(Piece) /\ Len(<<>>) = 0
    OBVIOUS
  <2>3. Joined1(pg.items, Mixed)'
    BY <1>6, <2>2 DEF Joined1
  <2>4. RecordInv'
    BY <1>3, <1>6, <1>10, <1>13, <2>1, <2>2, <2>3 DEF RecordInv
  <2> QED BY <1>6, <1>7, <1>9, <1>13, <2>4 DEF Tracked
<1>14. CASE kind = "health"
  <2>1. HealthInv'
    BY <1>6, <1>14 DEF HealthInv
  <2> QED BY <1>6, <1>7, <1>9, <1>14, <2>1 DEF Tracked
<1> QED BY <1>11, <1>12, <1>13, <1>14 DEF Kinds

LEMMA PagerTracked ==
  ASSUME PagesInv, Pager
  PROVE  PagesInv'
<1>1. StoreOk /\ (pg = NoPages \/ Tracked)
  BY DEF PagesInv
<1>2. ASSUME NEW kind, NEW turn, NEW limit \in 1..MaxLines, Start(kind, turn, limit),
             \/ kind \in {"list", "context", "health"} /\ turn = <<None, None>>
             \/ kind \in {"show", "evidence", "actions"} /\ turn \in Sessions \X (1..MaxTurns)
      PROVE  PagesInv'
  <2>1. kind \in Kinds /\ limit \in Nat
    BY <1>2, PagesAssumption DEF Kinds
  <2>2. turn = <<None, None>> => turn[1] = None
    OBVIOUS
  <2>3. StoreOk' /\ Tracked'
    BY <1>1, <1>2, <2>1, <2>2, StartTracked
  <2> QED BY <2>3 DEF PagesInv
<1>3. ASSUME \/ ReadFeed \/ ShowContext \/ BeginPage \/ ReadPinned \/ ListPage
             \/ FirstRecordPage \/ NextRecordPage \/ EvidencePage
             \/ ListStage \/ ReadHealthFile \/ EndStage
      PROVE  PagesInv'
  <2>1. pg.kind # "none"
    BY <1>3 DEF ReadFeed, ShowContext, BeginPage, ReadPinned, ListPage, FirstRecordPage,
                NextRecordPage, EvidencePage, ListStage, ReadHealthFile, EndStage
  <2>2. Tracked
    BY <1>1, <2>1 DEF NoPages
  <2>3. StoreOk' /\ Tracked'
    BY <1>1, <1>3, <2>2, ReadFeedTracked, ShowContextTracked, BeginPageTracked,
       ReadPinnedTracked, ListPageTracked, FirstRecordPageTracked, NextRecordPageTracked,
       EvidencePageTracked, ListStageTracked, ReadHealthFileTracked, EndStageTracked
  <2> QED BY <2>3 DEF PagesInv
<1> QED BY <1>2, <1>3 DEF Pager

(* The store goes on without a traversal. *)
LEMMA StoreAlone ==
  ASSUME StoreOk, pg = NoPages, StoreStep \/ \E s \in Sessions : WritePart(s) \/ HealTail(s)
  PROVE  FilesOk' /\ pg' = pg
<1>1. pg.kind = "none"
  BY DEF NoPages
<1>2. CASE StoreStep
  <2>1. Next
    BY <1>2 DEF StoreStep
  <2>2. ASSUME NEW s \in Sessions, RemoveFile(s) PROVE FilesOk' /\ pg' = pg
    BY <1>1, <2>1, <2>2, RemoveSteps DEF RemoveFile, Removed
  <2>3. ASSUME NEW s \in Sessions, AppendLine(s) PROVE FilesOk' /\ pg' = pg
    BY <2>1, <2>3, AppendSteps
  <2>4. ASSUME feed' = feed, Reaped, UNCHANGED <<file, stamp>> PROVE FilesOk' /\ pg' = pg
    <3>1. UNCHANGED turns
      BY <2>1, <2>4, QuietIs DEF Quiet
    <3> QED BY <1>1, <2>4, <3>1, SameFiles DEF Reaped
  <2> QED BY <1>2, <2>2, <2>3, <2>4 DEF StoreStep
<1>3. ASSUME NEW s \in Sessions, WritePart(s) PROVE FilesOk' /\ pg' = pg
  <2>1. PICK v \in Nat : file' = [file EXCEPT ![s].tail = v]
    BY <1>3 DEF WritePart, Versions
  <2> QED BY <1>3, <2>1, TailFiles DEF WritePart
<1>4. ASSUME NEW s \in Sessions, HealTail(s) PROVE FilesOk' /\ pg' = pg
  <2>1. file' = [file EXCEPT ![s].tail = None] /\ UNCHANGED <<vars, stamp>>
    BY <1>4 DEF HealTail
  <2> QED BY <1>1, <1>4, <2>1, TailFiles DEF HealTail
<1> QED BY <1>2, <1>3, <1>4

LEMMA StoreTracked ==
  ASSUME PagesInv, StoreStep \/ \E s \in Sessions : WritePart(s) \/ HealTail(s)
  PROVE  PagesInv'
<1>1. StoreOk /\ WatchInv /\ Places /\ (pg = NoPages \/ Tracked)
  BY DEF PagesInv, StoreOk
<1>2. Next \/ UNCHANGED vars
  BY DEF StoreStep, WritePart, HealTail
<1>3. WatchInv'
  BY <1>1, <1>2, NextWatchInv
<1>4. Places'
  <2>1. CASE Next
    BY <1>1, <2>1, WatchSteps DEF WatchInv
  <2>2. CASE UNCHANGED vars
    BY <1>1, <2>2 DEF vars, store, Places
  <2> QED BY <1>2, <2>1, <2>2
<1>5. CASE pg = NoPages
  <2>1. FilesOk' /\ pg' = NoPages
    BY <1>1, <1>5, StoreAlone
  <2> QED BY <1>3, <1>4, <2>1 DEF PagesInv, StoreOk
<1>6. CASE Tracked
  <2>1. Known
    BY <1>6 DEF Tracked, Shape
  <2>2. FilesOk' /\ Around
    BY <1>1, <2>1, RemoveAround, AppendAround, QuietAround, WriteAround, HealAround DEF StoreStep
  <2>3. StoreOk'
    BY <1>3, <1>4, <2>2 DEF StoreOk
  <2>4. Tracked'
    BY <1>1, <1>6, <2>2, <2>3, AroundStep
  <2> QED BY <2>3, <2>4 DEF PagesInv
<1> QED BY <1>1, <1>5, <1>6

LEMMA StutterTracked ==
  ASSUME PagesInv, UNCHANGED allVars
  PROVE  PagesInv'
<1>1. UNCHANGED vars /\ UNCHANGED <<file, stamp, pg>>
  BY DEF allVars, pageVars
<1>2. StoreOk /\ WatchInv /\ (pg = NoPages \/ Tracked)
  BY DEF PagesInv, StoreOk
<1>3. WatchInv'
  BY <1>1, <1>2, NextWatchInv
<1>4. UNCHANGED <<scene, faults, member, turns, feed, lease, cursor>>
  BY <1>1 DEF vars, store
<1>5. /\ FilesOk' /\ Stamped
      /\ \A r \in Sessions : Kept(r) /\ PartKept(r)
  BY <1>1, <1>2, <1>4, SameFiles DEF PartKept
<1>6. StoreOk'
  BY <1>2, <1>3, <1>4, <1>5 DEF StoreOk, Places
<1>7. CASE pg = NoPages
  BY <1>1, <1>6, <1>7 DEF PagesInv
<1>8. CASE Tracked
  <2>1. Marked
    BY <1>1, <1>8, MarkedSame DEF Tracked, Shape
  <2>2. Around
    BY <1>1, <1>2, <1>4, <1>5, <2>1, StaysSame DEF Around
  <2> QED BY <1>2, <1>6, <1>8, <2>2, AroundStep DEF PagesInv
<1> QED BY <1>2, <1>7, <1>8

LEMMA PagesInitInv == PagesInit => PagesInv
<1> SUFFICES ASSUME PagesInit PROVE PagesInv
  OBVIOUS
<1>1. /\ Init /\ stamp = [s \in Sessions |-> <<>>] /\ pg = NoPages
      /\ file = [s \in Sessions |-> [id |-> 0, lines |-> <<>>, tail |-> None]]
  BY DEF PagesInit
<1>2. WatchInv
  BY <1>1, InitWatchInv
<1>3. /\ cursor = [s \in Sessions |-> Gone] /\ turns = [s \in Sessions |-> <<>>]
      /\ feed = [s \in Sessions |-> Gone]
  BY <1>1 DEF Init
<1>4. Places
  BY <1>3 DEF Places
<1>5. FilesOk
  <2>1. <<>> \in Seq(Nat) /\ Len(<<>>) = 0
    OBVIOUS
  <2>2. PICK e \in Seq(Nat) : e = <<>> /\ Len(e) = 0
    BY <2>1, Zenon
  <2>3. PICK f \in File : f = [id |-> 0, lines |-> e, tail |-> None] /\ f.lines = e
    <3>1. PICK f : f = [id |-> 0, lines |-> e, tail |-> None]
      OBVIOUS
    <3>2. f \in File /\ f.lines = e
      BY <3>1 DEF File
    <3> QED BY <3>1, <3>2
  <2>4. file = [s \in Sessions |-> f] /\ stamp = [s \in Sessions |-> e]
    BY <1>1, <2>2, <2>3
  <2>5. \A s \in Sessions : Published(s) = 0 /\ turns[s] = e
    BY <1>3, <2>2 DEF Published
  <2> QED BY <2>2, <2>3, <2>4, <2>5 DEF FilesOk
<1> QED BY <1>1, <1>2, <1>4, <1>5 DEF PagesInv, StoreOk

LEMMA PagesNextInv == PagesInv /\ [PagesNext]_allVars => PagesInv'
BY PagerTracked, StoreTracked, StutterTracked DEF PagesNext


-----------------------------------------------------------------------------
(* What the invariant says *)

LEMMA ListWhole ==
  ASSUME StoreOk, Shape, ListInv, pg.result = "complete", ~pg.short, pg.pc = "done",
         NEW t \in pg.had, Wanted(t)
  PROVE  \E i \in DOMAIN pg.items : t = <<pg.items[i].s, pg.items[i].n>>
<1>1. PICK ps \in Pins : ps = pg.pinned
  BY DEF Shape
<1>2. Within(ps) /\ t \in Keys(ps)
  BY <1>1 DEF Shape, ListInv, Covers
<1>3. PICK A : A = Sorted(Turns(ps))
  OBVIOUS
<1>4. A = All
  BY <1>1, <1>3 DEF All, AllTurns
<1>5. PICK q \in Seq(Item) : q = pg.items
  BY DEF ListInv
<1>6. Leads(q, A) /\ Len(q) = Len(A)
  BY <1>4, <1>5 DEF ListInv
<1>7. Rec(ps, t) \in Turns(ps)
  BY <1>2, TurnsAre
<1>8. PICK i \in 1..Len(A) : A[i] = Rec(ps, t)
  BY <1>2, <1>3, <1>7, SortedTurns
<1>9. <<Rec(ps, t).s, Rec(ps, t).n>> = t
  BY <1>2, KeyIs
<1>10. i \in DOMAIN q /\ q[i] = A[i]
  BY <1>6, <1>8 DEF Leads
<1> QED BY <1>5, <1>8, <1>9, <1>10

LEMMA PagesInvWhole == PagesInv => WholeWhenComplete
<1> SUFFICES ASSUME PagesInv, pg.kind # "none", pg.pc = "done" PROVE WholeWhenComplete
  BY DEF WholeWhenComplete
<1>1. StoreOk /\ Tracked /\ Shape
  BY DEF PagesInv, NoPages, Tracked
<1> DEFINE had == {t \in pg.had : Wanted(t)}
           shown == {<<pg.items[i].s, pg.items[i].n>> : i \in DOMAIN pg.items}
<1>2. pg.kind = "list" /\ pg.result = "complete" /\ ~pg.short => had \subseteq shown
  BY <1>1, ListWhole DEF Tracked
<1>3. pg.kind = "context" /\ pg.result = "complete" => Cardinality(had \ shown) <= pg.total
  <2>1. Missing = had \ shown
    BY DEF Missing, LeftOut
  <2> HIDE DEF had, shown
  <2> QED BY <1>1, <2>1 DEF Tracked, ContextInv
<1>4. pg.kind \in Kinds
  BY <1>1 DEF Shape
<1>5. pg.result = "absent" => pg.turn \notin had
  BY <1>1, <1>4 DEF Tracked, ListInv, ContextInv, RecordInv, HealthInv, Kinds
<1>6. ASSUME pg.result = "ok", NEW t \in pg.had
      PROVE  /\ pg.pinned[t[1]] # None /\ pg.pinned[t[1]].part = None
             /\ t[2] <= Len(pg.pinned[t[1]].lines)
  <2>1. HealthInv
    BY <1>1, <1>4, <1>6 DEF Tracked, ListInv, ContextInv, RecordInv, Kinds
  <2>2. t \in Keys(pg.pinned) /\ pg.pinned[t[1]].part = None
    BY <1>6, <2>1 DEF HealthInv, Checked
  <2> QED BY <2>2 DEF Keys
<1> QED BY <1>2, <1>3, <1>5, <1>6 DEF WholeWhenComplete

LEMMA LeadsPrefix ==
  ASSUME NEW A \in Seq(Item), NEW q \in Seq(Item), Leads(q, A)
  PROVE  IsPrefix(q, A)
<1>1. Len(q) \in Nat /\ Len(A) \in Nat
  OBVIOUS
<1>2. Len(q) <= Len(A) /\ \A i \in 1..Len(q) : A[i] = q[i]
  BY Zenon DEF Leads
<1>3. SubSeq(A, 1, Len(q)) = q
  BY <1>2, SubSeqSame
<1>4. SubSeq(q, 1, Len(q)) = q
  BY SubSeqSame
<1> QED BY <1>2, <1>3, <1>4 DEF IsPrefix

LEMMA PagesInvAgree == PagesInv => PagesAgree
<1> SUFFICES ASSUME PagesInv, pg.kind # "none" PROVE PagesAgree
  BY DEF PagesAgree
<1>1. StoreOk /\ Tracked /\ Shape
  BY DEF PagesInv, NoPages, Tracked
<1>2. pg.kind \in Kinds
  BY <1>1 DEF Shape
<1>3. pg.kind = "list" => IsPrefix(pg.items, Sorted(Turns(pg.pinned)))
  <2> SUFFICES ASSUME pg.kind = "list" PROVE IsPrefix(pg.items, Sorted(Turns(pg.pinned)))
    OBVIOUS
  <2>1. pg.items \in Seq(Item) /\ Leads(pg.items, All)
    BY <1>1 DEF Tracked, ListInv
  <2>2. PICK ps \in Pins : ps = pg.pinned
    BY <1>1 DEF Shape
  <2>3. PICK A : A = Sorted(Turns(ps))
    OBVIOUS
  <2>4. A \in Seq(Item)
    BY <1>1, <2>2, <2>3, SortedTurns DEF Shape
  <2>5. A = All /\ A = Sorted(Turns(pg.pinned))
    BY <2>2, <2>3 DEF All, AllTurns
  <2>6. PICK q \in Seq(Item) : q = pg.items
    BY <2>1
  <2>7. IsPrefix(q, A)
    BY <2>1, <2>4, <2>5, <2>6, LeadsPrefix
  <2> QED BY <2>5, <2>6, <2>7
<1>4. pg.kind \in {"show", "evidence", "actions"} =>
         \A i \in DOMAIN pg.items :
             /\ pg.items[i].from = IF i = 1 THEN 0 ELSE pg.items[i - 1].to
             /\ pg.items[i].v = pg.items[1].v \/ (pg.kind = "actions" /\ pg.touched)
  <2> SUFFICES ASSUME pg.kind \in {"show", "evidence", "actions"}, NEW i \in DOMAIN pg.items
               PROVE  /\ pg.items[i].from = IF i = 1 THEN 0 ELSE pg.items[i - 1].to
                      /\ pg.items[i].v = pg.items[1].v \/ (pg.kind = "actions" /\ pg.touched)
    OBVIOUS
  <2>1. pg.items \in Seq(Piece) /\ Joined1(pg.items, Mixed)
    BY <1>1 DEF Tracked, RecordInv
  <2>2. PICK q \in Seq(Piece) : q = pg.items
    BY <2>1
  <2>3. i \in 1..Len(q)
    BY <2>2
  <2>4. Joined1(q, Mixed)
    BY <2>1, <2>2
  <2>5. /\ q[i].from = IF i = 1 THEN 0 ELSE q[i - 1].to
        /\ q[i].v = q[1].v \/ Mixed
    BY <2>3, <2>4 DEF Joined1
  <2> QED BY <2>2, <2>5 DEF Mixed
<1>5. pg.result = "changed" => pg.touched
  BY <1>1, <1>2 DEF Tracked, ListInv, ContextInv, RecordInv, HealthInv, Kinds
<1>6. pg.result = "refused" => pg.touched \/ faults > 0 \/ ~Fits(pg.total)
  BY <1>1, <1>2 DEF Tracked, ListInv, ContextInv, RecordInv, HealthInv, Kinds
<1> QED BY <1>3, <1>4, <1>5, <1>6 DEF PagesAgree

(* What is called complete is whole: a list or a context leaves nothing out, a
   record that is said not to exist was not there, and of a store that is said
   to be healthy every feed was read to its end. *)
THEOREM PagesWhole == PagesSpec => []WholeWhenComplete
<1>1. PagesSpec => []PagesInv
  BY PagesInitInv, PagesNextInv, PTL DEF PagesSpec
<1> QED BY <1>1, PagesInvWhole, PTL

(* The pages of a traversal are pages of one thing, and it is only refused when
   what it goes by was removed or healed. *)
THEOREM PagesOfOne == PagesSpec => []PagesAgree
<1>1. PagesSpec => []PagesInv
  BY PagesInitInv, PagesNextInv, PTL DEF PagesSpec
<1> QED BY <1>1, PagesInvAgree, PTL

(* A watcher skips nothing while others read the store. *)
THEOREM PagesSkipNothing == PagesSpec => []NothingSkipped
<1>1. PagesSpec => []PagesInv
  BY PagesInitInv, PagesNextInv, PTL DEF PagesSpec
<1>2. PagesInv => NothingSkipped
  BY WatchInvImplies DEF PagesInv, StoreOk
<1> QED BY <1>1, <1>2, PTL

-----------------------------------------------------------------------------
(* An await *)

NothingRebuilt == \A s \in Sessions : ~Does("rebuild", s)

(* The cursor c is d, or was replaced by it later. *)
NotAfter(c, d) ==
    c # Gone => /\ d # Gone /\ c.epoch <= d.epoch
                /\ c.epoch = d.epoch => \A f \in Sessions : c.pos[f] <= d.pos[f]

(* No membership or cursor counts from a turn that is not published. *)
Grounded ==
    \A s \in Sessions :
        /\ member[s] # Gone => \A f \in Sessions : member[s].base[f] <= Published(f)
        /\ cursor[s] # Gone => /\ member[s] # Gone
                               /\ cursor[s].epoch <= member[s].epoch
                               /\ \A f \in Sessions : cursor[s].pos[f] <= Published(f)

(* What a step leaves to an await: time, memberships and cursors go on. *)
CarriesOn ==
    /\ now <= now'
    /\ \A s \in Sessions :
         /\ member[s] # Gone => member'[s] # Gone /\ member[s].epoch <= member'[s].epoch
         /\ NotAfter(cursor[s], cursor'[s])

(* What was found by a scan: the membership m and cursor c at the scan, whether
   there was something unread, and if it is the cursor that the scan was made
   with, the scan found it. *)
Found(x, m, c, v) ==
    /\ x.fact = <<m, v>> /\ x.before <= m /\ m <= member[x.session].epoch
    /\ NotAfter(x.seen, c) /\ NotAfter(c, cursor[x.session])
    /\ c = x.seen => (x.unread => v) /\ (x.bad = {} => (v <=> x.unread))

AwaitState ==
    [pc : {"bound", "epoch", "scan", "check", "time", "sleep", "done"},
     session : Sessions, bound : Nat, deadline : Nat, errors : Nat, tries : Nat,
     before : Nat, seen : Place \union {Gone}, bad : SUBSET Sessions, unread : BOOLEAN,
     fact : Nat \X BOOLEAN, ready : BOOLEAN,
     result : {"none", "scope", "unread", "failed", "incomplete", "timeout"}]

AwaitProgress(x) ==
    /\ x.pc \in {"scan", "check"} =>
         /\ x.before <= member[x.session].epoch
         /\ NotAfter(x.seen, cursor[x.session])
    /\ x.pc = "check" =>
         \E m \in Nat, c \in Place \union {Gone}, v \in BOOLEAN : Found(x, m, c, v)
    /\ x.pc = "time" /\ x.ready /\ x.bad = {} => x.fact = <<x.bound, FALSE>>
    /\ x.pc = "done" =>
         /\ x.result = "unread" => x.fact = <<x.bound, TRUE>>
         /\ x.result = "timeout" => /\ x.fact = <<x.bound, FALSE>>
                                     /\ x.bad = {} /\ now >= x.deadline

AwaitInv ==
    /\ Grounded
    /\ aw # NoAwait => aw \in AwaitState /\ member[aw.session] # Gone /\ AwaitProgress(aw)

LEMMA NotAfterSame ==
  ASSUME NEW c \in Place \union {Gone} PROVE NotAfter(c, c)
BY NoneIs DEF NotAfter, Place

LEMMA NotAfterTrans ==
  ASSUME NEW c \in Place \union {Gone}, NEW d \in Place \union {Gone},
         NEW e \in Place \union {Gone}, NotAfter(c, d), NotAfter(d, e)
  PROVE  NotAfter(c, e)
<1> SUFFICES ASSUME c # Gone
             PROVE  /\ e # Gone /\ c.epoch <= e.epoch
                    /\ c.epoch = e.epoch => \A f \in Sessions : c.pos[f] <= e.pos[f]
  BY DEF NotAfter
<1>1. /\ d # Gone /\ e # Gone /\ c \in Place /\ d \in Place /\ e \in Place
      /\ c.epoch <= d.epoch /\ d.epoch <= e.epoch
  BY DEF NotAfter
<1>2. c.epoch \in Nat /\ d.epoch \in Nat /\ e.epoch \in Nat
  BY <1>1 DEF Place
<1>3. c.epoch <= e.epoch
  BY <1>1, <1>2
<1>4. ASSUME c.epoch = e.epoch, NEW f \in Sessions PROVE c.pos[f] <= e.pos[f]
  <2>1. c.epoch = d.epoch /\ d.epoch = e.epoch
    BY <1>1, <1>2, <1>4
  <2>2. c.pos[f] <= d.pos[f] /\ d.pos[f] <= e.pos[f]
    BY <1>1, <2>1 DEF NotAfter
  <2>3. c.pos[f] \in Nat /\ d.pos[f] \in Nat /\ e.pos[f] \in Nat
    BY <1>1 DEF Place
  <2> QED BY <2>2, <2>3
<1> QED BY <1>1, <1>3, <1>4

(* A cursor that was there before and after was there in between. *)
LEMMA NotAfterBoth ==
  ASSUME NEW c \in Place \union {Gone}, NEW d \in Place \union {Gone},
         NotAfter(c, d), NotAfter(d, c)
  PROVE  c = d
<1>1. CASE c = Gone
  BY <1>1 DEF NotAfter
<1>2. CASE c # Gone
  <2>1. d # Gone /\ c.epoch <= d.epoch /\ d.epoch <= c.epoch /\ c \in Place /\ d \in Place
    BY <1>2 DEF NotAfter
  <2>2. c.epoch \in Nat /\ d.epoch \in Nat
    BY <2>1 DEF Place
  <2>3. c.epoch = d.epoch
    BY <2>1, <2>2
  <2>4. ASSUME NEW f \in Sessions PROVE c.pos[f] = d.pos[f]
    <3>1. c.pos[f] <= d.pos[f] /\ d.pos[f] <= c.pos[f]
      BY <1>2, <2>1, <2>3 DEF NotAfter
    <3>2. c.pos[f] \in Nat /\ d.pos[f] \in Nat
      BY <2>1 DEF Place
    <3> QED BY <3>1, <3>2
  <2>5. c.pos = d.pos
    <3>1. c.pos \in [Sessions -> Nat] /\ d.pos \in [Sessions -> Nat]
      BY <2>1 DEF Place
    <3> QED BY <2>4, <3>1
  <2> QED BY <2>1, <2>3, <2>5 DEF Place
<1> QED BY <1>1, <1>2

(* Without feeds that are written again, what is published only grows. *)
LEMMA PublishedGrows ==
  ASSUME StoreTypes, NothingRebuilt, Next
  PROVE  /\ \A f \in Sessions : Published(f) <= Published(f)'
         /\ \A f \in Sessions : Published(f) \in Nat
<1>1. \A f \in Sessions : Published(f) \in Nat /\ Len(turns[f]) \in Nat
  BY PublishedType
<1>2. CASE UNCHANGED feed
  BY <1>1, <1>2 DEF Published
<1>3. ASSUME NEW s \in Sessions, Publish(s) \/ Answer(s), NEW f \in Sessions
      PROVE  Published(f) <= Published(f)'
  <2>1. /\ feed' = [feed EXCEPT ![s] = Len(turns[s]) + 1] /\ Published(s) <= Len(turns[s])
    BY <1>3, PublishedType DEF Publish, Answer
  <2>2. feed \in [Sessions -> Nat \union {Gone}]
    BY DEF StoreTypes
  <2>3. CASE f = s
    <3>1. feed'[f] = Len(turns[s]) + 1 /\ feed'[f] # Gone
      BY <1>1, <2>1, <2>2, <2>3, NoneIs
    <3> QED BY <1>1, <2>1, <2>3, <3>1 DEF Published
  <2>4. CASE f # s
    BY <1>1, <2>1, <2>2, <2>4 DEF Published
  <2> QED BY <2>3, <2>4
<1>4. ASSUME NEW s \in Sessions PROVE ~DeleteFeed(s) /\ ~Rebuild(s)
  BY DEF NothingRebuilt, DeleteFeed, Rebuild
<1>5. \/ UNCHANGED feed
      \/ \E s \in Sessions : Publish(s) \/ Answer(s)
  <2>1. CASE Store
    <3>1. ASSUME NEW s \in Sessions, NEW ws \in Workstreams, Join(s, ws) PROVE UNCHANGED feed
      BY <3>1 DEF Join
    <3>2. ASSUME NEW s \in Sessions, ResetCursor(s) \/ ReadTurns(s) PROVE UNCHANGED feed
      BY <3>2 DEF ResetCursor, ReadTurns
    <3>3. CASE Tick
      BY <3>3 DEF Tick
    <3>4. ASSUME NEW i \in Incidents, NEW ws \in Workstreams \union {NoScope},
                 CreateMarker(i) \/ WriteMarker(i, ws)
          PROVE  UNCHANGED feed
      BY <3>4 DEF CreateMarker, WriteMarker
    <3>5. ASSUME NEW a \in Actors, \/ \E claim, unknown \in BOOLEAN : Renew(a, claim, unknown)
                                   \/ GoIdle(a) \/ Reap(a)
          PROVE  UNCHANGED feed
      BY <3>5 DEF Renew, GoIdle, Reap, PutLease
    <3> QED BY <1>4, <2>1, <3>1, <3>2, <3>3, <3>4, <3>5 DEF Store, CreateMarker
  <2>2. ASSUME NEW w \in Sessions, Poll(w) PROVE UNCHANGED store
    BY <2>2 DEF Poll, StartPoll, ScanJoins, EndFeeds, ConsumeFeed, ScanIncidents, ReadLease,
                JudgeLeases, Observing
  <2>3. ASSUME NEW w \in Sessions, FailPoll(w) PROVE UNCHANGED store
    BY <2>3 DEF FailPoll
  <2>4. ASSUME NEW s \in Sessions, StartAwait(s) PROVE UNCHANGED store
    BY <2>4 DEF StartAwait, Awaiting
  <2>5. CASE Await \/ FailScan
    BY <2>5 DEF Await, FailScan, CheckBound, ReadEpoch, ScanUnread, CheckEpoch, CheckTime,
                AwaitWakes, Awaiting, store
  <2> QED BY <2>1, <2>2, <2>3, <2>4, <2>5 DEF Next, store
<1> QED BY <1>1, <1>2, <1>3, <1>5

LEMMA StoreCarriesOn ==
  ASSUME StoreTypes, Places, NothingRebuilt, Grounded, Next
  PROVE  CarriesOn /\ Grounded'
<1>1. /\ \A f \in Sessions : Published(f) \in Nat /\ Published(f) <= Published(f)'
      /\ now \in Nat
  BY PublishedGrows DEF StoreTypes
<1>2. \A s \in Sessions : cursor[s] \in Place \union {Gone}
                          /\ member[s] \in Membership \union {Gone}
  BY DEF Places, StoreTypes
<1>3. \A f \in Sessions : Published(f)' \in Nat
  <2>1. \A f \in Sessions : feed'[f] \in Nat \union {Gone}
    <3>1. Quiet \/ \E s \in Sessions : Again(s) \/ Anew(s) \/ Deleted(s)
      BY WatchSteps
    <3>2. feed \in [Sessions -> Nat \union {Gone}]
      BY DEF StoreTypes
    <3> QED BY <1>1, <3>1, <3>2 DEF Quiet, Again, Anew, Deleted
  <2> QED BY <2>1 DEF Published
<1>4. CASE UNCHANGED <<member, cursor>> /\ now' \in {now, now + 1}
  <2>1. CarriesOn
    BY <1>1, <1>2, <1>4, NotAfterSame DEF CarriesOn, Membership
  <2>2. ASSUME NEW s \in Sessions, NEW f \in Sessions
        PROVE  /\ member[s] # Gone => member[s].base[f] <= Published(f)'
               /\ cursor[s] # Gone => cursor[s].pos[f] <= Published(f)'
    <3>1. member[s] # Gone => member[s].base[f] \in Nat
      BY <1>2 DEF Membership
    <3>2. cursor[s] # Gone => cursor[s].pos[f] \in Nat
      BY <1>2 DEF Place
    <3> QED BY <1>1, <1>3, <3>1, <3>2 DEF Grounded
  <2> QED BY <1>4, <2>1, <2>2 DEF Grounded
<1>5. ASSUME NEW s \in Sessions, NEW ws \in Workstreams, Join(s, ws)
      PROVE  CarriesOn /\ Grounded'
  <2>1. /\ UNCHANGED <<now, turns, feed, cursor>>
        /\ member' = [member EXCEPT ![s] =
             [ws |-> ws, epoch |-> IF @ = Gone THEN 1 ELSE @.epoch + 1,
              base |-> [f \in Sessions |-> Published(f)]]]
    BY <1>5 DEF Join, Unobserved
  <2>2. member \in [Sessions -> Membership \union {Gone}]
    BY DEF StoreTypes
  <2>3. PICK e \in Nat : e = IF member[s] = Gone THEN 1 ELSE member[s].epoch + 1
    BY <2>2 DEF Membership
  <2>4. PICK q \in [Sessions -> Nat] : q = [f \in Sessions |-> Published(f)]
    BY <1>1
  <2>5. [ws |-> ws, epoch |-> e, base |-> q] \in Membership
    BY DEF Membership
  <2>6. PICK m \in Membership : m = [ws |-> ws, epoch |-> e, base |-> q]
    BY <2>5
  <2>7. m.epoch = e /\ m.base = q /\ m # Gone
    BY <2>6, NoneIs
  <2>8. member' = [member EXCEPT ![s] = m]
    BY <2>1, <2>3, <2>4, <2>6
  <2>9. \A r \in Sessions : member'[r] = IF r = s THEN m ELSE member[r]
    BY <2>2, <2>8
  <2>10. member[s] # Gone => member[s].epoch \in Nat /\ member[s].epoch <= e
    BY <2>2, <2>3 DEF Membership
  <2>11. \A r \in Sessions : member[r] # Gone => member[r].epoch \in Nat
    BY <2>2 DEF Membership
  <2>12. CarriesOn
    <3> SUFFICES ASSUME NEW r \in Sessions
                 PROVE  /\ member[r] # Gone => member'[r] # Gone
                                               /\ member[r].epoch <= member'[r].epoch
                        /\ NotAfter(cursor[r], cursor'[r])
      BY <1>1, <2>1 DEF CarriesOn
    <3>1. NotAfter(cursor[r], cursor'[r])
      BY <1>2, <2>1, NotAfterSame
    <3>2. CASE r = s
      BY <2>7, <2>9, <2>10, <3>1, <3>2
    <3>3. CASE r # s
      BY <2>9, <2>11, <3>1, <3>3
    <3> QED BY <3>2, <3>3
  <2>13. \A f \in Sessions : Published(f)' = Published(f)
    BY <2>1 DEF Published
  <2>14. Grounded'
    <3> SUFFICES ASSUME NEW r \in Sessions
                 PROVE  /\ member'[r] # Gone => \A f \in Sessions : member'[r].base[f] <= Published(f)
                        /\ cursor[r] # Gone => /\ member'[r] # Gone
                                               /\ cursor[r].epoch <= member'[r].epoch
                                               /\ \A f \in Sessions : cursor[r].pos[f] <= Published(f)
      BY <2>1, <2>13 DEF Grounded
    <3>1. CASE r = s
      <4>1. \A f \in Sessions : m.base[f] <= Published(f)
        BY <1>1, <2>4, <2>7
      <4>2. cursor[s] # Gone => /\ member[s] # Gone /\ cursor[s].epoch <= member[s].epoch
                                /\ cursor[s].epoch \in Nat
        BY <1>2 DEF Grounded, Place
      <4>3. cursor[s] # Gone => cursor[s].epoch <= m.epoch
        BY <2>7, <2>10, <4>2
      <4> QED BY <2>7, <2>9, <3>1, <4>1, <4>3 DEF Grounded
    <3>2. CASE r # s
      BY <2>9, <3>2 DEF Grounded
    <3> QED BY <3>1, <3>2
  <2> QED BY <2>12, <2>14
<1>6. ASSUME NEW s \in Sessions, ResetCursor(s) \/ ReadTurns(s)
      PROVE  CarriesOn /\ Grounded'
  <2>1. UNCHANGED <<now, member, feed>> /\ member[s] # Gone
    BY <1>6 DEF ResetCursor, ReadTurns
  <2>2. /\ member[s] \in Membership /\ cursor[s] \in Place \union {Gone}
        /\ cursor \in [Sessions -> Place \union {Gone}]
        /\ member[s].epoch \in Nat /\ member[s].base \in [Sessions -> Nat]
    <3>1. member[s] \in Membership
      BY <1>2, <2>1
    <3> QED BY <3>1, <1>2 DEF Membership, Places
  <2>3. \E q \in [Sessions -> Nat] :
          /\ cursor' = [cursor EXCEPT ![s] = [epoch |-> member[s].epoch, pos |-> q]]
          /\ \A f \in Sessions : q[f] <= Published(f)
          /\ cursor[s] # Gone /\ cursor[s].epoch = member[s].epoch =>
               \A f \in Sessions : cursor[s].pos[f] <= q[f]
    <3>1. CASE ResetCursor(s)
      <4>1. /\ cursor' = [cursor EXCEPT ![s] = [epoch |-> member[s].epoch, pos |-> member[s].base]]
            /\ ~(cursor[s] # Gone /\ cursor[s].epoch = member[s].epoch)
        BY <3>1 DEF ResetCursor
      <4>2. \A f \in Sessions : member[s].base[f] <= Published(f)
        BY <2>1 DEF Grounded
      <4> QED BY <2>2, <4>1, <4>2
    <3>2. CASE ReadTurns(s)
      <4>1. /\ cursor[s] # Gone /\ cursor[s].epoch = member[s].epoch /\ cursor[s] \in Place
            /\ cursor' = [cursor EXCEPT ![s].pos = [f \in Sessions |-> Published(f)]]
        BY <2>2, <3>2 DEF ReadTurns
      <4>2. PICK q \in [Sessions -> Nat] : q = [f \in Sessions |-> Published(f)]
        BY <1>1
      <4>3. [cursor[s] EXCEPT !.pos = q] = [epoch |-> member[s].epoch, pos |-> q]
        BY <4>1 DEF Place
      <4>4. cursor' = [cursor EXCEPT ![s] = [epoch |-> member[s].epoch, pos |-> q]]
        BY <4>1, <4>2, <4>3
      <4>5. \A f \in Sessions : q[f] = Published(f) /\ cursor[s].pos[f] <= Published(f)
        BY <4>1, <4>2 DEF Grounded
      <4>6. \A f \in Sessions : q[f] <= Published(f) /\ cursor[s].pos[f] <= q[f]
        BY <1>1, <4>5
      <4> QED BY <4>4, <4>6
    <3> QED BY <1>6, <3>1, <3>2
  <2>4. PICK q \in [Sessions -> Nat] :
          /\ cursor' = [cursor EXCEPT ![s] = [epoch |-> member[s].epoch, pos |-> q]]
          /\ \A f \in Sessions : q[f] <= Published(f)
          /\ cursor[s] # Gone /\ cursor[s].epoch = member[s].epoch =>
               \A f \in Sessions : cursor[s].pos[f] <= q[f]
    BY <2>3
  <2>5. [epoch |-> member[s].epoch, pos |-> q] \in Place
    BY <2>2 DEF Place
  <2>6. PICK c \in Place : c = [epoch |-> member[s].epoch, pos |-> q]
    BY <2>5
  <2>7. c.epoch = member[s].epoch /\ c.pos = q /\ c # Gone
    BY <2>6, NoneIs
  <2>8. \A r \in Sessions : cursor'[r] = IF r = s THEN c ELSE cursor[r]
    BY <2>2, <2>4, <2>6
  <2>9. NotAfter(cursor[s], c)
    BY <2>4, <2>7 DEF NotAfter, Grounded
  <2>10. CarriesOn
    <3>1. \A r \in Sessions : NotAfter(cursor[r], cursor'[r])
      BY <1>2, <2>8, <2>9, NotAfterSame
    <3>2. \A r \in Sessions : member[r] # Gone => member[r].epoch <= member[r].epoch
      BY <1>2 DEF Membership
    <3> QED BY <1>1, <2>1, <3>1, <3>2 DEF CarriesOn
  <2>11. \A f \in Sessions : Published(f)' = Published(f)
    BY <2>1 DEF Published
  <2>12. \A f \in Sessions : c.pos[f] <= Published(f)
    BY <2>4, <2>7
  <2>13. c.epoch <= member[s].epoch
    BY <2>2, <2>7
  <2> QED BY <2>1, <2>7, <2>8, <2>10, <2>11, <2>12, <2>13 DEF Grounded
<1>7. \/ \E s \in Sessions, ws \in Workstreams : Join(s, ws)
      \/ \E s \in Sessions : ResetCursor(s) \/ ReadTurns(s)
      \/ UNCHANGED <<member, cursor>> /\ now' \in {now, now + 1}
  <2>1. ASSUME NEW s \in Sessions,
               Publish(s) \/ DeleteFeed(s) \/ Rebuild(s) \/ Answer(s)
        PROVE  UNCHANGED <<member, cursor, now>>
    BY <2>1 DEF Publish, DeleteFeed, Rebuild, Answer
  <2>2. CASE Tick
    BY <2>2 DEF Tick
  <2>3. ASSUME NEW i \in Incidents, CreateMarker(i)
        PROVE  UNCHANGED <<member, cursor, now>>
    BY <2>3 DEF CreateMarker
  <2>4. ASSUME NEW i \in Incidents, NEW ws \in Workstreams \union {NoScope}, WriteMarker(i, ws)
        PROVE  UNCHANGED <<member, cursor, now>>
    BY <2>4 DEF WriteMarker
  <2>5. ASSUME NEW a \in Actors, \/ \E claim, unknown \in BOOLEAN : Renew(a, claim, unknown)
                                 \/ GoIdle(a) \/ Reap(a)
        PROVE  UNCHANGED <<member, cursor, now>>
    BY <2>5 DEF Renew, GoIdle, Reap, PutLease
  <2>6. ASSUME NEW w \in Sessions, Poll(w) PROVE UNCHANGED store
    BY <2>6 DEF Poll, StartPoll, ScanJoins, EndFeeds, ConsumeFeed, ScanIncidents, ReadLease,
                JudgeLeases, Observing
  <2>7. ASSUME NEW w \in Sessions, FailPoll(w) PROVE UNCHANGED store
    BY <2>7 DEF FailPoll
  <2>8. ASSUME NEW s \in Sessions, StartAwait(s) PROVE UNCHANGED store
    BY <2>8 DEF StartAwait, Awaiting
  <2>9. CASE Await \/ FailScan
    BY <2>9 DEF Await, FailScan, CheckBound, ReadEpoch, ScanUnread, CheckEpoch, CheckTime,
                AwaitWakes, Awaiting, store
  <2> QED BY <2>1, <2>2, <2>3, <2>4, <2>5, <2>6, <2>7, <2>8, <2>9 DEF Next, Store, store
<1> QED BY <1>4, <1>5, <1>6, <1>7

(* The steps of others *)
LEMMA OthersAwait ==
  ASSUME StoreTypes, Places, Places', AwaitInv, CarriesOn, Grounded', UNCHANGED aw,
         now' \in Nat, member' \in [Sessions -> Membership \union {Gone}]
  PROVE  AwaitInv'
<1> SUFFICES ASSUME aw # NoAwait
             PROVE  member'[aw.session] # Gone /\ AwaitProgress(aw)'
  BY DEF AwaitInv
<1>1. /\ aw \in AwaitState /\ member[aw.session] # Gone /\ AwaitProgress(aw)
      /\ aw.session \in Sessions /\ aw.before \in Nat /\ aw.seen \in Place \union {Gone}
      /\ aw.deadline \in Nat
  BY DEF AwaitInv, AwaitState
<1>2. PICK s \in Sessions : s = aw.session
  BY <1>1
<1>3. /\ member'[s] # Gone /\ member[s].epoch <= member'[s].epoch
      /\ NotAfter(cursor[s], cursor'[s])
      /\ now <= now' /\ now \in Nat
  BY <1>1, <1>2 DEF CarriesOn, StoreTypes
<1>4. /\ member[s].epoch \in Nat /\ member'[s].epoch \in Nat
      /\ cursor[s] \in Place \union {Gone} /\ cursor'[s] \in Place \union {Gone}
  <2>1. member[s] \in Membership /\ member'[s] \in Membership
    BY <1>1, <1>2, <1>3 DEF StoreTypes
  <2> QED BY <2>1 DEF Membership, Places
<1>5. aw.pc \in {"scan", "check"} =>
         aw.before <= member'[s].epoch /\ NotAfter(aw.seen, cursor'[s])
  <2> SUFFICES ASSUME aw.pc \in {"scan", "check"}
               PROVE  aw.before <= member'[s].epoch /\ NotAfter(aw.seen, cursor'[s])
    OBVIOUS
  <2>1. aw.before <= member[s].epoch /\ NotAfter(aw.seen, cursor[s])
    BY <1>1, <1>2 DEF AwaitProgress
  <2>2. NotAfter(aw.seen, cursor'[s])
    BY <1>1, <1>3, <1>4, <2>1, NotAfterTrans
  <2> QED BY <1>1, <1>3, <1>4, <2>1, <2>2
<1>6. aw.pc = "check" =>
         \E m \in Nat, c \in Place \union {Gone}, v \in BOOLEAN : Found(aw, m, c, v)'
  <2> SUFFICES ASSUME aw.pc = "check"
               PROVE  \E m \in Nat, c \in Place \union {Gone}, v \in BOOLEAN : Found(aw, m, c, v)'
    OBVIOUS
  <2>1. PICK m \in Nat, c \in Place \union {Gone}, v \in BOOLEAN : Found(aw, m, c, v)
    BY <1>1 DEF AwaitProgress
  <2>2. m <= member[s].epoch /\ NotAfter(c, cursor[s])
    BY <1>2, <2>1 DEF Found
  <2>3. NotAfter(c, cursor'[s])
    BY <1>3, <1>4, <2>2, NotAfterTrans
  <2>4. m <= member'[s].epoch
    BY <1>3, <1>4, <2>2
  <2>5. Found(aw, m, c, v)'
    BY <1>2, <2>1, <2>3, <2>4 DEF Found
  <2> QED BY <2>5
<1>7. now >= aw.deadline => now' >= aw.deadline
  BY <1>1, <1>3
<1> QED BY <1>1, <1>2, <1>3, <1>5, <1>6, <1>7 DEF AwaitProgress

(* The steps of the await itself leave the store as it is. *)
LEMMA OwnAwait ==
  ASSUME StoreTypes, AwaitInv, Awaiting, NEW x \in AwaitState, aw' = x,
         member[x.session] # Gone, AwaitProgress(x)
  PROVE  AwaitInv'
<1>1. UNCHANGED <<now, member, turns, feed, cursor>>
  BY DEF Awaiting, store
<1>2. Grounded'
  BY <1>1 DEF AwaitInv, Grounded, Published
<1>3. AwaitProgress(x)'
  BY <1>1 DEF AwaitProgress, Found
<1>4. member'[x.session] # Gone
  BY <1>1
<1>5. AwaitProgress(aw)'
  BY <1>3 DEF AwaitProgress, Found
<1> QED BY <1>2, <1>4, <1>5 DEF AwaitInv, AwaitState

LEMMA AwaitBefore ==
  ASSUME AwaitInv, aw # NoAwait
  PROVE  \E x \in AwaitState : x = aw /\ member[x.session] # Gone /\ AwaitProgress(x)
BY DEF AwaitInv

LEMMA StartAwaitInv ==
  ASSUME StoreTypes, AwaitInv, NEW s \in Sessions, StartAwait(s)
  PROVE  AwaitInv'
<1>1. /\ member[s] # Gone /\ member[s].epoch \in Nat /\ now + Timeout \in Nat
  <2>1. member[s] # Gone /\ member[s] \in Membership
    BY DEF StartAwait, StoreTypes
  <2> QED BY <2>1, WatchAssumption DEF Membership, StoreTypes
<1> DEFINE x == [pc |-> "bound", session |-> s, bound |-> member[s].epoch,
              deadline |-> now + Timeout, errors |-> 0, tries |-> 0,
              before |-> 0, seen |-> Gone, bad |-> {}, unread |-> FALSE,
              fact |-> <<0, FALSE>>, ready |-> FALSE, result |-> "none"]
<1>2. aw' = x /\ Awaiting
  BY DEF StartAwait
<1>3. x \in AwaitState /\ x.pc = "bound" /\ x.session = s
  BY <1>1 DEF AwaitState
<1> HIDE DEF x
<1>4. AwaitProgress(x)
  BY <1>3 DEF AwaitProgress
<1> QED BY <1>1, <1>2, <1>3, <1>4, OwnAwait

(* Where nothing is claimed of an await: it is bound, sleeps, or has failed. *)
LEMMA PlainAwait ==
  ASSUME StoreTypes, AwaitInv, Awaiting, NEW x \in AwaitState, aw' = x,
         member[x.session] # Gone,
         \/ x.pc \in {"bound", "epoch", "sleep"}
         \/ x.pc = "time" /\ ~x.ready
         \/ x.pc = "done" /\ x.result \notin {"unread", "timeout"}
  PROVE  AwaitInv'
BY OwnAwait DEF AwaitProgress

LEMMA ForgetType ==
  ASSUME NEW x \in AwaitState
  PROVE  /\ Forget(x) \in AwaitState /\ Forget(x).pc = x.pc
         /\ Forget(x).session = x.session /\ Forget(x).ready = x.ready
BY DEF AwaitState, Forget

LEMMA EndType ==
  ASSUME aw \in AwaitState,
         NEW r \in {"none", "scope", "unread", "failed", "incomplete", "timeout"}
  PROVE  /\ End(r) \in AwaitState /\ End(r).pc = "done" /\ End(r).result = r
         /\ End(r).session = aw.session /\ End(r).fact = aw.fact
         /\ End(r).bad = aw.bad /\ End(r).bound = aw.bound /\ End(r).deadline = aw.deadline
BY DEF AwaitState, End

LEMMA FailedInv ==
  ASSUME StoreTypes, AwaitInv, Awaiting, aw # NoAwait, aw' = Failed
  PROVE  AwaitInv'
<1>1. aw \in AwaitState /\ member[aw.session] # Gone
  BY DEF AwaitInv
<1>2. CASE aw.errors + 1 >= MaxErrors
  <2>1. aw' = End("failed")
    BY <1>2 DEF Failed
  <2>2. End("failed") \in AwaitState /\ End("failed").pc = "done"
        /\ End("failed").result = "failed" /\ End("failed").session = aw.session
    BY <1>1, EndType
  <2> QED BY <1>1, <2>1, <2>2, PlainAwait
<1>3. CASE ~(aw.errors + 1 >= MaxErrors)
  <2>4. PICK n \in Nat : n = aw.errors + 1
    BY <1>1 DEF AwaitState
  <2> DEFINE x == [aw EXCEPT !.pc = "time", !.errors = n, !.ready = FALSE]
  <2>1. aw' = Forget(x)
    BY <1>3, <2>4 DEF Failed
  <2>2. x \in AwaitState /\ x.pc = "time" /\ x.ready = FALSE /\ x.session = aw.session
    BY <1>1 DEF AwaitState
  <2> HIDE DEF x
  <2>3. /\ Forget(x) \in AwaitState /\ Forget(x).pc = "time" /\ Forget(x).ready = FALSE
        /\ Forget(x).session = aw.session
    BY <2>2, ForgetType
  <2> QED BY <1>1, <2>1, <2>3, PlainAwait
<1> QED BY <1>2, <1>3

LEMMA CheckBoundInv ==
  ASSUME StoreTypes, AwaitInv, CheckBound PROVE AwaitInv'
<1>1. /\ aw.pc = "bound" /\ Awaiting
      /\ aw' = End("scope") \/ aw' = [aw EXCEPT !.pc = "epoch", !.tries = 0]
  BY DEF CheckBound
<1>2. aw \in AwaitState /\ member[aw.session] # Gone
  BY <1>1 DEF AwaitInv, NoAwait
<1>3. CASE aw' = End("scope")
  <2>1. End("scope") \in AwaitState /\ End("scope").pc = "done"
        /\ End("scope").result = "scope" /\ End("scope").session = aw.session
    BY <1>2, EndType
  <2> QED BY <1>1, <1>2, <1>3, <2>1, PlainAwait
<1>4. CASE aw' = [aw EXCEPT !.pc = "epoch", !.tries = 0]
  <2> DEFINE x == [aw EXCEPT !.pc = "epoch", !.tries = 0]
  <2>1. x \in AwaitState /\ x.pc = "epoch" /\ x.session = aw.session
    BY <1>2 DEF AwaitState
  <2>2. aw' = x
    BY <1>4
  <2> HIDE DEF x
  <2> QED BY <1>1, <1>2, <2>1, <2>2, PlainAwait
<1> QED BY <1>1, <1>3, <1>4

LEMMA ReadEpochInv ==
  ASSUME StoreTypes, Places, AwaitInv, ReadEpoch PROVE AwaitInv'
<1>1. aw.pc = "epoch" /\ Awaiting
  BY DEF ReadEpoch
<1>2. aw \in AwaitState /\ member[aw.session] # Gone
  BY <1>1 DEF AwaitInv, NoAwait
<1>3. PICK s \in Sessions : s = aw.session
  BY <1>2 DEF AwaitState
<1>4. member[s].epoch \in Nat /\ cursor[s] \in Place \union {Gone}
  <2>1. member[s] \in Membership
    BY <1>2, <1>3 DEF StoreTypes
  <2> QED BY <2>1 DEF Membership, Places
<1>5. PICK m \in Nat, c \in Place \union {Gone} : m = member[s].epoch /\ c = cursor[s]
  BY <1>4
<1> DEFINE x == [aw EXCEPT !.pc = "scan", !.before = m, !.seen = c]
<1>6. aw' = x
  BY <1>3, <1>5 DEF ReadEpoch
<1>7. /\ x \in AwaitState /\ x.pc = "scan" /\ x.before = m /\ x.seen = c /\ x.session = s
  BY <1>2, <1>3 DEF AwaitState
<1> HIDE DEF x
<1>8. AwaitProgress(x)
  BY <1>4, <1>5, <1>7, NotAfterSame DEF AwaitProgress
<1> QED BY <1>1, <1>2, <1>3, <1>6, <1>7, <1>8, OwnAwait

LEMMA ScanUnreadInv ==
  ASSUME StoreTypes, Places, AwaitInv, NEW bad \in SUBSET Sessions, ScanUnread(bad)
  PROVE  AwaitInv'
<1>1. aw.pc = "scan" /\ Awaiting
  BY DEF ScanUnread
<1>2. aw \in AwaitState /\ member[aw.session] # Gone /\ AwaitProgress(aw)
  BY <1>1 DEF AwaitInv, NoAwait
<1>3. PICK s \in Sessions, b \in Place \union {Gone} : s = aw.session /\ b = aw.seen
  BY <1>2 DEF AwaitState
<1>4. member[s].epoch \in Nat /\ cursor[s] \in Place \union {Gone}
  <2>1. member[s] \in Membership
    BY <1>2, <1>3 DEF StoreTypes
  <2> QED BY <2>1 DEF Membership, Places
<1>5. PICK m \in Nat, c \in Place \union {Gone} : m = member[s].epoch /\ c = cursor[s]
  BY <1>4
<1>6. PICK u \in BOOLEAN, v \in BOOLEAN :
         /\ u = Unread(s, b, bad) /\ v = Unread(s, c, {})
         /\ c = b => (u => v) /\ (bad = {} => (v <=> u))
  <2>1. Unread(s, b, bad) \in BOOLEAN /\ Unread(s, c, {}) \in BOOLEAN
    BY DEF Unread
  <2>2. Unread(s, b, bad) => Unread(s, b, {})
    BY DEF Unread
  <2> QED BY <2>1, <2>2
<1> DEFINE x == [aw EXCEPT !.pc = "check", !.bad = bad, !.unread = u, !.fact = <<m, v>>]
<1>7. aw' = x
  BY <1>3, <1>5, <1>6 DEF ScanUnread
<1>8. /\ x \in AwaitState /\ x.pc = "check" /\ x.bad = bad /\ x.unread = u
      /\ x.fact = <<m, v>> /\ x.session = s /\ x.before = aw.before /\ x.seen = b
  BY <1>2, <1>3 DEF AwaitState
<1> HIDE DEF x
<1>9. aw.before <= m /\ NotAfter(b, c)
  BY <1>1, <1>2, <1>3, <1>5 DEF AwaitProgress
<1>10. Found(x, m, c, v)
  <2>1. m <= member[s].epoch /\ NotAfter(c, cursor[s])
    BY <1>4, <1>5, NotAfterSame
  <2> QED BY <1>6, <1>8, <1>9, <2>1 DEF Found
<1>11. AwaitProgress(x)
  BY <1>5, <1>8, <1>9, <1>10 DEF AwaitProgress
<1> QED BY <1>1, <1>2, <1>3, <1>7, <1>8, <1>11, OwnAwait

(* A scan that counts was made in the membership and with the cursor of the
   await, which were the same before, during and after it. *)
LEMMA CheckEpochInv ==
  ASSUME StoreTypes, Places, AwaitInv, CheckEpoch PROVE AwaitInv'
<1>1. aw.pc = "check" /\ Awaiting
  BY DEF CheckEpoch
<1>2. aw \in AwaitState /\ member[aw.session] # Gone /\ AwaitProgress(aw) /\ aw # NoAwait
  BY <1>1 DEF AwaitInv, NoAwait
<1>3. PICK s \in Sessions : s = aw.session
  BY <1>2 DEF AwaitState
<1>4. CASE member[s].epoch = aw.before /\ cursor[s] = aw.seen
  <2>1. PICK m \in Nat, c \in Place \union {Gone}, v \in BOOLEAN : Found(aw, m, c, v)
    BY <1>1, <1>2 DEF AwaitProgress
  <2>2. m = aw.before
    <3>1. aw.before \in Nat /\ aw.before <= m /\ m <= aw.before
      BY <1>2, <1>3, <1>4, <2>1 DEF AwaitState, Found
    <3> QED BY <3>1
  <2>3. c = aw.seen
    <3>1. aw.seen \in Place \union {Gone} /\ NotAfter(aw.seen, c) /\ NotAfter(c, aw.seen)
      BY <1>2, <1>3, <1>4, <2>1 DEF AwaitState, Found
    <3> QED BY <3>1, NotAfterBoth
  <2>4. /\ aw.fact = <<aw.before, v>> /\ (aw.unread => v)
        /\ aw.bad = {} => (v <=> aw.unread)
    BY <2>1, <2>2, <2>3 DEF Found
  <2>5. aw' = IF aw.before # aw.bound THEN End("scope")
              ELSE IF aw.unread THEN End("unread")
              ELSE [aw EXCEPT !.pc = "time", !.errors = 0, !.ready = TRUE]
    BY <1>3, <1>4 DEF CheckEpoch, SameLogicalCursor
  <2>6. CASE aw.before # aw.bound
    <3>1. End("scope") \in AwaitState /\ End("scope").pc = "done"
          /\ End("scope").result = "scope" /\ End("scope").session = aw.session
      BY <1>2, EndType
    <3>2. aw' = End("scope")
      BY <2>5, <2>6
    <3> QED BY <1>1, <1>2, <3>1, <3>2, PlainAwait
  <2>7. CASE aw.before = aw.bound /\ aw.unread
    <3>1. /\ End("unread") \in AwaitState /\ End("unread").pc = "done"
          /\ End("unread").result = "unread" /\ End("unread").session = aw.session
          /\ End("unread").fact = aw.fact /\ End("unread").bound = aw.bound
      BY <1>2, EndType
    <3>2. aw' = End("unread") /\ aw.fact = <<aw.bound, TRUE>>
      BY <2>4, <2>5, <2>7
    <3>3. AwaitProgress(End("unread"))
      BY <3>1, <3>2 DEF AwaitProgress
    <3> QED BY <1>1, <1>2, <3>1, <3>2, <3>3, OwnAwait
  <2>8. CASE aw.before = aw.bound /\ ~aw.unread
    <3> DEFINE x == [aw EXCEPT !.pc = "time", !.errors = 0, !.ready = TRUE]
    <3>1. /\ x \in AwaitState /\ x.pc = "time" /\ x.session = aw.session
          /\ x.fact = aw.fact /\ x.bad = aw.bad /\ x.bound = aw.bound
      BY <1>2 DEF AwaitState
    <3>2. aw' = x
      BY <2>5, <2>8
    <3> HIDE DEF x
    <3>3. aw.bad = {} => aw.fact = <<aw.bound, FALSE>>
      BY <2>4, <2>8
    <3>4. AwaitProgress(x)
      BY <3>1, <3>3 DEF AwaitProgress
    <3> QED BY <1>1, <1>2, <3>1, <3>2, <3>4, OwnAwait
  <2> QED BY <2>6, <2>7, <2>8
<1>5. CASE ~(member[s].epoch = aw.before /\ cursor[s] = aw.seen)
  <2>1. aw' = [aw EXCEPT !.pc = "epoch", !.tries = @ + 1] \/ aw' = Failed
    BY <1>3, <1>5 DEF CheckEpoch, SameLogicalCursor
  <2>2. CASE aw' = Failed
    BY <1>1, <1>2, <2>2, FailedInv
  <2>3. CASE aw' = [aw EXCEPT !.pc = "epoch", !.tries = @ + 1]
    <3>3. PICK n \in Nat : n = aw.tries + 1
      BY <1>2 DEF AwaitState
    <3> DEFINE x == [aw EXCEPT !.pc = "epoch", !.tries = n]
    <3>1. x \in AwaitState /\ x.pc = "epoch" /\ x.session = aw.session
      BY <1>2 DEF AwaitState
    <3>2. aw' = x
      BY <2>3, <3>3
    <3> HIDE DEF x
    <3> QED BY <1>1, <1>2, <3>1, <3>2, PlainAwait
  <2> QED BY <2>1, <2>2, <2>3
<1> QED BY <1>4, <1>5

LEMMA CheckTimeInv ==
  ASSUME StoreTypes, AwaitInv, CheckTime PROVE AwaitInv'
<1>1. /\ aw.pc = "time" /\ Awaiting
      /\ \/ aw' = Forget([aw EXCEPT !.pc = "sleep"])
         \/ aw' = [aw EXCEPT !.pc = "bound"]
         \/ aw' = End("incomplete")
         \/ aw' = End("timeout") /\ ~(now < aw.deadline) /\ aw.ready /\ aw.bad = {}
  BY DEF CheckTime
<1>2. aw \in AwaitState /\ member[aw.session] # Gone /\ AwaitProgress(aw)
  BY <1>1 DEF AwaitInv, NoAwait
<1>3. ASSUME NEW q \in {"sleep", "bound"}
      PROVE  LET x == [aw EXCEPT !.pc = q]
             IN  x \in AwaitState /\ x.pc = q /\ x.session = aw.session
  BY <1>2 DEF AwaitState
<1>4. CASE aw' = Forget([aw EXCEPT !.pc = "sleep"])
  <2> DEFINE x == [aw EXCEPT !.pc = "sleep"]
  <2>1. x \in AwaitState /\ x.pc = "sleep" /\ x.session = aw.session
    BY <1>3
  <2>2. aw' = Forget(x)
    BY <1>4
  <2> HIDE DEF x
  <2>3. Forget(x) \in AwaitState /\ Forget(x).pc = "sleep" /\ Forget(x).session = aw.session
    BY <2>1, ForgetType
  <2> QED BY <1>1, <1>2, <2>2, <2>3, PlainAwait
<1>5. CASE aw' = [aw EXCEPT !.pc = "bound"]
  <2> DEFINE x == [aw EXCEPT !.pc = "bound"]
  <2>1. x \in AwaitState /\ x.pc = "bound" /\ x.session = aw.session
    BY <1>3
  <2>2. aw' = x
    BY <1>5
  <2> HIDE DEF x
  <2> QED BY <1>1, <1>2, <2>1, <2>2, PlainAwait
<1>6. CASE aw' = End("incomplete")
  <2>1. End("incomplete") \in AwaitState /\ End("incomplete").pc = "done"
        /\ End("incomplete").result = "incomplete" /\ End("incomplete").session = aw.session
    BY <1>2, EndType
  <2> QED BY <1>1, <1>2, <1>6, <2>1, PlainAwait
<1>7. CASE aw' = End("timeout") /\ ~(now < aw.deadline) /\ aw.ready /\ aw.bad = {}
  <2>1. /\ End("timeout") \in AwaitState /\ End("timeout").pc = "done"
        /\ End("timeout").result = "timeout" /\ End("timeout").session = aw.session
        /\ End("timeout").fact = aw.fact /\ End("timeout").bound = aw.bound
        /\ End("timeout").bad = aw.bad /\ End("timeout").deadline = aw.deadline
    BY <1>2, EndType
  <2>2. aw.fact = <<aw.bound, FALSE>>
    BY <1>1, <1>2, <1>7 DEF AwaitProgress
  <2>3. now >= aw.deadline
    <3>1. now \in Nat /\ aw.deadline \in Nat
      BY <1>2 DEF StoreTypes, AwaitState
    <3> QED BY <1>7, <3>1
  <2>4. AwaitProgress(End("timeout"))
    BY <1>7, <2>1, <2>2, <2>3 DEF AwaitProgress
  <2> QED BY <1>1, <1>2, <1>7, <2>1, <2>4, OwnAwait
<1> QED BY <1>1, <1>4, <1>5, <1>6, <1>7

LEMMA AwaitWakesInv ==
  ASSUME StoreTypes, AwaitInv, AwaitWakes PROVE AwaitInv'
<1> DEFINE x == [aw EXCEPT !.pc = "bound"]
<1>1. aw.pc = "sleep" /\ Awaiting /\ aw' = x
  BY DEF AwaitWakes
<1>2. aw \in AwaitState /\ member[aw.session] # Gone
  BY <1>1 DEF AwaitInv, NoAwait
<1>3. x \in AwaitState /\ x.pc = "bound" /\ x.session = aw.session
  BY <1>2 DEF AwaitState
<1> HIDE DEF x
<1> QED BY <1>1, <1>2, <1>3, PlainAwait

LEMMA AwaitActs ==
  ASSUME StoreTypes, Places, AwaitInv,
         (\E s \in Sessions : StartAwait(s)) \/ Await \/ FailScan
  PROVE  AwaitInv'
<1>1. CASE FailScan
  <2>1. aw # NoAwait /\ Awaiting /\ aw' = Failed
    BY <1>1 DEF FailScan, NoAwait
  <2> QED BY <2>1, FailedInv
<1> QED BY <1>1, StartAwaitInv, CheckBoundInv, ReadEpochInv, ScanUnreadInv, CheckEpochInv,
           CheckTimeInv, AwaitWakesInv DEF Await

LEMMA AwaitSame ==
  ASSUME AwaitInv, UNCHANGED <<now, member, feed, turns, cursor, aw>>
  PROVE  AwaitInv'
<1>1. \A f \in Sessions : Published(f)' = Published(f)
  BY DEF Published
<1>2. Grounded'
  BY <1>1 DEF AwaitInv, Grounded
<1>3. AwaitProgress(aw)' = AwaitProgress(aw)
  BY DEF AwaitProgress, Found
<1> QED BY <1>2, <1>3 DEF AwaitInv

LEMMA NextAwait ==
  ASSUME WatchInv, WatchInv', Places, Places', NothingRebuilt, AwaitInv, Next
  PROVE  AwaitInv'
<1>1. StoreTypes /\ StoreTypes'
  BY DEF WatchInv
<1>2. CASE (\E s \in Sessions : StartAwait(s)) \/ Await \/ FailScan
  BY <1>1, <1>2, AwaitActs
<1>3. CASE Store \/ \E w \in Sessions : Poll(w) \/ FailPoll(w)
  <2>1. UNCHANGED aw
    <3>1. ASSUME NEW w \in Sessions, Poll(w) \/ FailPoll(w) PROVE UNCHANGED aw
      BY <3>1 DEF Poll, StartPoll, ScanJoins, EndFeeds, ConsumeFeed, ScanIncidents, ReadLease,
                  JudgeLeases, FailPoll, Observing
    <3>2. CASE Tick
      BY <3>2 DEF Tick, Unobserved
    <3>3. ASSUME NEW s \in Sessions, NEW ws \in Workstreams, Join(s, ws) PROVE UNCHANGED aw
      BY <3>3 DEF Join, Unobserved
    <3>4. ASSUME NEW s \in Sessions, Publish(s) \/ DeleteFeed(s) \/ Rebuild(s) \/ Answer(s)
          PROVE  UNCHANGED aw
      BY <3>4 DEF Publish, DeleteFeed, Rebuild, Answer, Unobserved
    <3>5. ASSUME NEW s \in Sessions, ResetCursor(s) \/ ReadTurns(s) PROVE UNCHANGED aw
      BY <3>5 DEF ResetCursor, ReadTurns, Unobserved
    <3>6. ASSUME NEW i \in Incidents, NEW ws \in Workstreams \union {NoScope},
                 CreateMarker(i) \/ WriteMarker(i, ws)
          PROVE  UNCHANGED aw
      BY <3>6 DEF CreateMarker, WriteMarker, Unobserved
    <3>7. ASSUME NEW a \in Actors, \/ \E claim, unknown \in BOOLEAN : Renew(a, claim, unknown)
                                   \/ GoIdle(a) \/ Reap(a)
          PROVE  UNCHANGED aw
      BY <3>7 DEF Renew, GoIdle, Reap, PutLease, Unobserved
    <3> QED BY <1>3, <3>1, <3>2, <3>3, <3>4, <3>5, <3>6, <3>7 DEF Store, CreateMarker
  <2>2. CarriesOn /\ Grounded'
    BY <1>1, StoreCarriesOn DEF AwaitInv
  <2>3. now' \in Nat /\ member' \in [Sessions -> Membership \union {Gone}]
    BY <1>1 DEF StoreTypes
  <2> QED BY <1>1, <2>1, <2>2, <2>3, OthersAwait
<1> QED BY <1>2, <1>3 DEF Next

LEMMA PagesNextAwait ==
  ASSUME PagesInv, PagesInv', NothingRebuilt => AwaitInv, [PagesNext]_allVars
  PROVE  (NothingRebuilt => AwaitInv)'
<1>1. WatchInv /\ WatchInv' /\ Places /\ Places'
  BY DEF PagesInv, StoreOk
<1>2. CASE Pager
  <2>1. Paging
    BY <1>2 DEF Pager, Start, ReadFeed, ShowContext, BeginPage, ReadPinned, ListPage,
                FirstRecordPage, NextRecordPage, EvidencePage, ListStage, ReadHealthFile, EndStage
  <2> QED BY <2>1, AwaitSame DEF Paging, store, NothingRebuilt, Does
<1>3. CASE UNCHANGED vars
  BY <1>3, AwaitSame DEF vars, store, NothingRebuilt, Does
<1>4. CASE Next
  <2>1. scene' = scene
    BY <1>1, <1>4, WatchSteps DEF WatchInv, Quiet, Again, Anew, Deleted, Stays
  <2> QED BY <1>1, <1>4, <2>1, NextAwait DEF NothingRebuilt, Does
<1> QED BY <1>2, <1>3, <1>4 DEF PagesNext, StoreStep, WritePart, HealTail, allVars

LEMMA InitAwait == PagesInit => AwaitInv
<1> SUFFICES ASSUME PagesInit PROVE AwaitInv
  OBVIOUS
<1>1. /\ aw = NoAwait /\ cursor = [s \in Sessions |-> Gone] /\ feed = [s \in Sessions |-> Gone]
      /\ member = [s \in Sessions |->
           IF Does("join", s) THEN Gone
           ELSE [ws |-> Home[s], epoch |-> 1, base |-> [f \in Sessions |-> 0]]]
  BY DEF PagesInit, Init
<1>2. \A s, f \in Sessions : member[s] # Gone => member[s].base[f] = 0
  BY <1>1
<1>3. \A f \in Sessions : Published(f) = 0
  BY <1>1 DEF Published
<1> QED BY <1>1, <1>2, <1>3 DEF AwaitInv, Grounded

(* What an await reports was so, in a store whose feeds are not written again:
   the turns it says are unread were unread for the membership it was bound to,
   and when it says that there were none until its time was over, a scan of
   every feed of that membership found none, whatever was published, joined,
   read or reset between its own reads. *)
THEOREM AwaitIsTrue == PagesSpec => [](NothingRebuilt => AwaitTruth)
<1>1. PagesSpec => []PagesInv
  BY PagesInitInv, PagesNextInv, PTL DEF PagesSpec
<1>2. PagesInit => (NothingRebuilt => AwaitInv)
  BY InitAwait
<1>3. PagesInv /\ PagesInv' /\ (NothingRebuilt => AwaitInv) /\ [PagesNext]_allVars
         => (NothingRebuilt => AwaitInv)'
  BY PagesNextAwait
<1>4. (NothingRebuilt => AwaitInv) => (NothingRebuilt => AwaitTruth)
  <2>1. CASE aw = NoAwait
    <3>1. aw.pc # "done"
      BY <2>1 DEF NoAwait
    <3> QED BY <3>1 DEF AwaitTruth
  <2>2. CASE aw # NoAwait
    BY <2>2 DEF AwaitInv, AwaitProgress, AwaitTruth
  <2> QED BY <2>1, <2>2
<1>5. PagesSpec => [](NothingRebuilt => AwaitInv)
  BY <1>1, <1>2, <1>3, PTL DEF PagesSpec
<1> QED BY <1>4, <1>5, PTL

-----------------------------------------------------------------------------
(* What a watcher tells, once *)

NobodyClaims == \A a \in Actors : ~Does("claim", a)

(* What a watcher may be told twice: the turns of a feed that was rebuilt. *)
Repeats(g) == {"turn"} \X g.rebuilt \X (1..MaxTurns)

(* The events E are known to the memory e. *)
Remembered(e, g, E) ==
    /\ \A s \in Sessions, ws \in Workstreams : <<"join", s, ws>> \in E => <<s, ws>> \in e.known
    /\ \A s \in Sessions, n \in 1..MaxTurns :
          <<"turn", s, n>> \in E => n <= e.cur[s] \/ s \in g.rebuilt
    /\ \A i \in Incidents : <<"incident", i>> \in E => i \in e.seen

(* Lapses are not among the events E: only the last scan of a poll tells them. *)
NoLapse(E) == \A a \in Actors, r \in 0..MaxTime : <<"stale", a, r>> \notin E

EventsOnce(e, g, o) ==
    /\ Remembered(e, g, g.base \union o \union e.sink)
    /\ ~e.primed => o = {}
    /\ NoLapse(g.base \union e.sink)
    /\ \A x \in (e.sink \intersect (g.base \union o)) \union (o \intersect g.base) :
          x \in Repeats(g)
    /\ \A x \in g.again : x \in Repeats(g) \/ (~NobodyClaims /\ x \in Clash)

(* The time of the last poll *)
PollTime(e, g) ==
    /\ g.armed <= e.at /\ e.at <= now
    /\ e.pc = "start" => ~e.primed
    /\ e.pc = "sleep" => e.primed
    /\ ~e.primed /\ e.pc # "start" => g.armed = e.at

(* A lease, or what was read of one *)
Leased(l) ==
    l # Gone => l.exp = l.rev + TTL /\ l.rev <= now /\ (NobodyClaims => ~l.claim)

(* The lapse of revision r of actor a was told, or was over before the watch. *)
Old(e, g, o, a, r) == <<"stale", a, r>> \in o \/ (e.primed /\ r + TTL < g.armed)

KnowsOld(e, a, r) ==
    e.leases[a] # Gone => e.leases[a].rev = r /\ e.leases[a].reported

(* The scan of the leases has each that was there when the poll began. *)
HasRead(e) ==
    e.pc = "leases" =>
        \A a \in Actors \ e.left :
            lease[a] # Gone /\ lease[a].rev < e.at =>
                e.snap[a] # Gone /\ e.snap[a].rev = lease[a].rev

LapsesOnce(w, e, g, o) ==
    /\ \A a \in Actors, r \in 0..MaxTime :
          <<"stale", a, r>> \in o => r + TTL < e.at /\ r + TTL >= g.armed
    /\ \A a \in Actors : \A l \in {lease[a], e.snap[a]} :
          a[1] # w /\ l # Gone /\ Old(e, g, o, a, l.rev) => KnowsOld(e, a, l.rev)
    /\ \A a \in Actors : Leased(e.snap[a])
    /\ HasRead(e)

Once(w, e, g, o) == EventsOnce(e, g, o) /\ PollTime(e, g) /\ LapsesOnce(w, e, g, o)

OnceInv ==
    /\ \A a \in Actors : Leased(lease[a])
    /\ \A w \in Sessions : Once(w, eng[w], ghost[w], out[w])


LEMMA TypesOnce ==
  ASSUME WatchInv
  PROVE  /\ now \in Nat /\ TTL \in Nat /\ MaxTime \in Nat /\ MaxTurns \in Nat
         /\ lease \in [Actors -> LeaseRecord \union {Gone}]
         /\ \A l \in LeaseRecord : l.rev \in 0..MaxTime /\ l.rev \in Nat /\ l.exp \in Nat
                                   /\ l.claim \in BOOLEAN
BY WatchAssumption DEF WatchInv, StoreTypes, LeaseRecord

(* A step of the store: a lease that is written is written now. *)
LeaseWritten ==
    \A a \in Actors :
        \/ lease'[a] = lease[a] \/ lease'[a] = Gone
        \/ /\ lease'[a].rev = now' /\ lease'[a].exp = now' + TTL
           /\ NobodyClaims => ~lease'[a].claim

SameWatch ==
    \A w \in Sessions :
        /\ ghost'[w].armed = ghost[w].armed /\ ghost'[w].base = ghost[w].base
        /\ ghost'[w].again = ghost[w].again /\ ghost'[w].rebuilt = ghost[w].rebuilt

LEMMA OnceStore ==
  ASSUME WatchInv, WatchInv', OnceInv, UNCHANGED <<scene, eng, out>>, now <= now',
         SameWatch, LeaseWritten
  PROVE  OnceInv'
<1>1. /\ now \in Nat /\ now' \in Nat /\ TTL \in Nat /\ MaxTime \in Nat
      /\ lease \in [Actors -> LeaseRecord \union {Gone}]
      /\ \A l \in LeaseRecord : l.rev \in 0..MaxTime /\ l.rev \in Nat
  BY TypesOnce DEF WatchInv, StoreTypes
<1>2. NobodyClaims' <=> NobodyClaims
  BY DEF NobodyClaims, Does
<1>3. ASSUME NEW l \in LeaseRecord \union {Gone}, Leased(l)
      PROVE  Leased(l)'
  BY <1>1, <1>2, <1>3 DEF Leased
<1>4. \A a \in Actors : Leased(lease[a])'
  <2> SUFFICES ASSUME NEW a \in Actors PROVE Leased(lease[a])'
    OBVIOUS
  <2>1. CASE lease'[a] = lease[a]
    <3>1. lease[a] # Gone => /\ lease[a].exp = lease[a].rev + TTL /\ lease[a].rev <= now
                             /\ NobodyClaims => ~lease[a].claim
      BY DEF OnceInv, Leased
    <3>2. lease[a] # Gone => lease[a].rev \in Nat
      BY <1>1
    <3> QED BY <1>1, <1>2, <2>1, <3>1, <3>2 DEF Leased
  <2>2. CASE lease'[a] = Gone
    BY <2>2 DEF Leased
  <2>3. CASE lease'[a] # lease[a] /\ lease'[a] # Gone
    BY <1>1, <1>2, <2>3 DEF Leased, LeaseWritten
  <2> QED BY <2>1, <2>2, <2>3
<1>5. ASSUME NEW w \in Sessions PROVE Once(w, eng[w], ghost[w], out[w])'
  <2>1. PICK e \in Memory, g \in History, h \in History, o \in SUBSET Events :
           e = eng[w] /\ g = ghost[w] /\ h = ghost'[w] /\ o = out[w]
    BY DEF WatchInv, WatcherTypes
  <2>2. /\ h.armed = g.armed /\ h.base = g.base /\ h.again = g.again /\ h.rebuilt = g.rebuilt
        /\ eng'[w] = e /\ out'[w] = o
    BY <2>1 DEF SameWatch
  <2>3. EventsOnce(e, g, o) /\ PollTime(e, g) /\ LapsesOnce(w, e, g, o)
    BY <2>1 DEF OnceInv, Once
  <2>4. e.at \in Nat /\ g.armed \in Nat /\ e.snap \in [Actors -> LeaseRecord \union {Gone}]
    BY DEF Memory, History
  <2>5. EventsOnce(e, h, o)'
    <3>1. EventsOnce(e, h, o)
      BY <2>2, <2>3 DEF EventsOnce, Remembered, Repeats
    <3> QED BY <1>2, <3>1 DEF EventsOnce, Remembered, Repeats, NoLapse
  <2>6. PollTime(e, h)'
    BY <1>1, <2>2, <2>3, <2>4 DEF PollTime
  <2>7. \A a \in Actors, r \in Nat : Old(e, h, o, a, r) <=> Old(e, g, o, a, r)
    BY <2>2 DEF Old
  <2>8. ASSUME NEW a \in Actors, NEW r \in 0..MaxTime, Old(e, g, o, a, r)
        PROVE  r < now'
    <3>1. CASE <<"stale", a, r>> \in o
      <4>1. r + TTL < e.at /\ e.at <= now
        BY <2>3, <3>1 DEF LapsesOnce, PollTime
      <4> QED BY <1>1, <2>4, <4>1
    <3>2. CASE r + TTL < g.armed
      <4>1. g.armed <= e.at /\ e.at <= now
        BY <2>3 DEF PollTime
      <4> QED BY <1>1, <2>4, <3>2, <4>1
    <3> QED BY <2>8, <3>1, <3>2 DEF Old
  <2>9. LapsesOnce(w, e, h, o)'
    <3>1. \A a \in Actors, r \in 0..MaxTime :
             <<"stale", a, r>> \in o => r + TTL < e.at /\ r + TTL >= h.armed
      BY <2>2, <2>3 DEF LapsesOnce
    <3>2. ASSUME NEW a \in Actors, NEW l \in {lease'[a], e.snap[a]},
                 a[1] # w, l # Gone, Old(e, h, o, a, l.rev)
          PROVE  KnowsOld(e, a, l.rev)
      <4>1. lease'[a] \in LeaseRecord \union {Gone}
        BY DEF WatchInv, StoreTypes
      <4>2. l \in LeaseRecord /\ l.rev \in 0..MaxTime /\ l.rev \in Nat
        BY <1>1, <2>4, <3>2, <4>1
      <4>3. Old(e, g, o, a, l.rev)
        BY <2>7, <3>2, <4>2
      <4>4. l.rev < now'
        BY <2>8, <4>2, <4>3
      <4>5. CASE l \in {lease[a], e.snap[a]}
        BY <2>3, <3>2, <4>3, <4>5 DEF LapsesOnce
      <4>6. CASE l = lease'[a] /\ lease'[a] # lease[a]
        <5>1. l.rev = now'
          BY <3>2, <4>6 DEF LeaseWritten
        <5> QED BY <1>1, <4>4, <5>1
      <4> QED BY <3>2, <4>5, <4>6
    <3>3. \A a \in Actors : Leased(e.snap[a])'
      <4>1. \A a \in Actors : Leased(e.snap[a])
        BY <2>3 DEF LapsesOnce
      <4>2. ASSUME NEW a \in Actors PROVE Leased(e.snap[a])'
        <5>1. PICK l \in LeaseRecord \union {Gone} : l = e.snap[a]
          BY <2>4
        <5>2. Leased(l)
          BY <4>1, <5>1
        <5>3. Leased(l)'
          BY <1>1, <1>2, <5>2 DEF Leased
        <5> QED BY <5>1, <5>3 DEF Leased
      <4> QED BY <4>2
    <3>4. HasRead(e)'
      <4> SUFFICES ASSUME e.pc = "leases", NEW a \in Actors \ e.left,
                          lease'[a] # Gone, lease'[a].rev < e.at
                   PROVE  e.snap[a] # Gone /\ e.snap[a].rev = lease'[a].rev
        BY DEF HasRead
      <4>1. lease'[a] = lease[a]
        <5>1. e.at <= now
          BY <2>3 DEF PollTime
        <5>2. lease'[a].rev = now' => FALSE
          BY <1>1, <2>4, <5>1
        <5> QED BY <5>2 DEF LeaseWritten
      <4> QED BY <2>3, <4>1 DEF LapsesOnce, HasRead
    <3>5. \A a \in Actors : \A l \in {lease'[a], e.snap[a]} :
             a[1] # w /\ l # Gone /\ Old(e, h, o, a, l.rev) => KnowsOld(e, a, l.rev)
      BY <3>2
    <3> QED BY <3>1, <3>3, <3>4, <3>5 DEF LapsesOnce, Old, KnowsOld
  <2>10. Once(w, e, h, o)'
    BY <2>5, <2>6, <2>9 DEF Once
  <2> QED BY <2>1, <2>2, <2>10 DEF Once, EventsOnce, Remembered, Repeats, NoLapse, PollTime,
             LapsesOnce, Old, KnowsOld, HasRead, Leased
<1> QED BY <1>4, <1>5 DEF OnceInv


(* A step of watcher w *)
LEMMA OnceWatcher ==
  ASSUME WatchInv, WatchInv', OnceInv, NEW w \in Sessions, UNCHANGED <<scene, store>>,
         \A v \in Sessions \ {w} : UNCHANGED <<eng[v], ghost[v], out[v]>>,
         NEW d \in Memory, NEW h \in History, NEW p \in SUBSET Events,
         eng'[w] = d, ghost'[w] = h, out'[w] = p, Once(w, d, h, p)
  PROVE  OnceInv'
<1>1. UNCHANGED <<scene, now, lease>> /\ (NobodyClaims' <=> NobodyClaims)
  BY DEF store, NobodyClaims, Does
<1>2. ASSUME NEW v \in Sessions PROVE Once(v, eng[v], ghost[v], out[v])'
  <2>1. PICK e \in Memory, g \in History, o \in SUBSET Events :
            e = eng'[v] /\ g = ghost'[v] /\ o = out'[v]
    BY DEF WatchInv, WatcherTypes
  <2>2. Once(v, e, g, o)
    <3>1. CASE v = w
      <4>1. e = d /\ g = h /\ o = p
        BY <2>1, <3>1
      <4> QED BY <3>1, <4>1
    <3>2. CASE v # w
      <4>1. e = eng[v] /\ g = ghost[v] /\ o = out[v]
        BY <2>1, <3>2
      <4> QED BY <4>1 DEF OnceInv
    <3> QED BY <3>1, <3>2
  <2>3. Once(v, e, g, o)'
    BY <1>1, <2>2 DEF Once, EventsOnce, Remembered, Repeats, NoLapse, PollTime,
             LapsesOnce, Old, KnowsOld, HasRead, Leased
  <2> QED BY <2>1, <2>3 DEF Once, EventsOnce, Remembered, Repeats, NoLapse, PollTime,
             LapsesOnce, Old, KnowsOld, HasRead, Leased
<1>3. \A a \in Actors : Leased(lease[a])'
  BY <1>1 DEF OnceInv, Leased
<1> QED BY <1>2, <1>3 DEF OnceInv

(* The parts of a watcher before and after its step *)
LEMMA OnceParts ==
  ASSUME WatchInv, WatchInv', OnceInv, NEW w \in Sessions
  PROVE  /\ \E e \in Memory, g \in History, o \in SUBSET Events :
              /\ e = eng[w] /\ g = ghost[w] /\ o = out[w]
              /\ EventsOnce(e, g, o) /\ PollTime(e, g) /\ LapsesOnce(w, e, g, o)
              /\ Bounds(w, e)
         /\ \E d \in Memory, h \in History, p \in SUBSET Events :
              d = eng'[w] /\ h = ghost'[w] /\ p = out'[w]
<1>1. /\ eng[w] \in Memory /\ ghost[w] \in History /\ out[w] \in SUBSET Events
      /\ eng'[w] \in Memory /\ ghost'[w] \in History /\ out'[w] \in SUBSET Events
  BY DEF WatchInv, WatcherTypes
<1>2. Bounds(w, eng[w]) /\ Once(w, eng[w], ghost[w], out[w])
  BY DEF WatchInv, Remembers, OnceInv
<1> QED BY <1>1, <1>2 DEF Once

(* A scan adds news to the events of the poll, or base to the baseline. *)
Adds(e, g, o, d, h, news, base) ==
    /\ d.primed = e.primed
    /\ ~e.primed => e.sink = {} /\ d.sink = {}
    /\ e.primed => base = {}
    /\ d.sink \subseteq e.sink \union news /\ h.base = g.base \union base
    /\ h.again = g.again /\ g.rebuilt \subseteq h.rebuilt
    /\ e.known \subseteq d.known /\ e.seen \subseteq d.seen
    /\ \A s \in Sessions \ h.rebuilt : e.cur[s] <= d.cur[s]
    /\ Remembered(d, h, news \union base) /\ NoLapse(news \union base)
    /\ \A x \in news \intersect (g.base \union o) : x \in Repeats(h)

LEMMA EventsGrow ==
  ASSUME NEW e \in Memory, NEW g \in History, NEW o \in SUBSET Events,
         NEW d \in Memory, NEW h \in History, EventsOnce(e, g, o),
         NEW news, NEW base, Adds(e, g, o, d, h, news, base)
  PROVE  EventsOnce(d, h, o)
<1> USE DEF Adds
<1>1. Remembered(e, g, g.base \union o \union e.sink)
  BY DEF EventsOnce
<1>2. Remembered(d, h, g.base \union o \union e.sink)
  <2>1. ASSUME NEW s \in Sessions, NEW n \in 1..MaxTurns,
               n <= e.cur[s] \/ s \in g.rebuilt
        PROVE  n <= d.cur[s] \/ s \in h.rebuilt
    <3>1. e.cur[s] \in Nat /\ d.cur[s] \in Nat /\ MaxTurns \in Nat
      BY WatchAssumption DEF Memory
    <3> QED BY <2>1, <3>1
  <2> QED BY <1>1, <2>1 DEF Remembered
<1>3. Remembered(d, h, h.base \union o \union d.sink)
  BY <1>2 DEF Remembered
<1>4. Repeats(g) \subseteq Repeats(h)
  BY DEF Repeats
<1>5. NoLapse(h.base \union d.sink)
  BY DEF EventsOnce, NoLapse
<1>6. ASSUME NEW x \in (d.sink \intersect (h.base \union o)) \union (o \intersect h.base)
      PROVE  x \in Repeats(h)
  <2>1. CASE e.primed
    <3>1. h.base = g.base
      BY <2>1
    <3> QED BY <1>4, <1>6, <3>1 DEF EventsOnce
  <2>2. CASE ~e.primed
    BY <1>6, <2>2 DEF EventsOnce
  <2> QED BY <2>1, <2>2
<1>7. \A x \in h.again : x \in Repeats(h) \/ (~NobodyClaims /\ x \in Clash)
  BY <1>4 DEF EventsOnce
<1>8. ~d.primed => o = {}
  BY DEF EventsOnce
<1> QED BY <1>3, <1>5, <1>6, <1>7, <1>8 DEF EventsOnce

(* Scans that do not judge the leases *)
LEMMA LapsesKept ==
  ASSUME WatchInv, OnceInv, NEW w \in Sessions,
         NEW e \in Memory, NEW g \in History, NEW o \in SUBSET Events,
         NEW d \in Memory, NEW h \in History, PollTime(e, g), LapsesOnce(w, e, g, o),
         d.at = e.at, h.armed = g.armed, d.primed = e.primed, d.leases = e.leases,
         e.pc # "start", d.pc # "start", d.pc = "sleep" => d.primed,
         \A a \in Actors : d.snap[a] \in {e.snap[a], lease[a], Gone},
         HasRead(d)
  PROVE  PollTime(d, h) /\ LapsesOnce(w, d, h, o)
<1>1. PollTime(d, h)
  BY DEF PollTime
<1>2. \A a \in Actors, r \in Nat : /\ Old(d, h, o, a, r) <=> Old(e, g, o, a, r)
                                   /\ KnowsOld(d, a, r) <=> KnowsOld(e, a, r)
  BY DEF Old, KnowsOld
<1>3. ASSUME NEW a \in Actors, NEW l \in {lease[a], d.snap[a]}, a[1] # w, l # Gone,
             Old(d, h, o, a, l.rev)
      PROVE  KnowsOld(d, a, l.rev)
  <2>1. l \in {lease[a], e.snap[a]}
    BY <1>3
  <2>2. l \in LeaseRecord /\ l.rev \in Nat
    BY <1>3, <2>1, TypesOnce DEF Memory
  <2> QED BY <1>2, <1>3, <2>1, <2>2 DEF LapsesOnce
<1>4. \A a \in Actors : Leased(d.snap[a])
  <2>1. ASSUME NEW a \in Actors PROVE Leased(d.snap[a])
    <3>1. Leased(lease[a]) /\ Leased(e.snap[a]) /\ Leased(Gone)
      BY DEF OnceInv, LapsesOnce, Leased
    <3> QED BY <3>1
  <2> QED BY <2>1
<1>5. \A a \in Actors, r \in 0..MaxTime :
          <<"stale", a, r>> \in o => r + TTL < d.at /\ r + TTL >= h.armed
  BY DEF LapsesOnce
<1>6. \A a \in Actors : \A l \in {lease[a], d.snap[a]} :
          a[1] # w /\ l # Gone /\ Old(d, h, o, a, l.rev) => KnowsOld(d, a, l.rev)
  BY <1>3
<1> QED BY <1>1, <1>4, <1>5, <1>6 DEF LapsesOnce


LEMMA OnceTypes ==
  ASSUME WatchInv
  PROVE  /\ eng \in [Sessions -> Memory] /\ out \in [Sessions -> SUBSET Events]
         /\ ghost \in [Sessions -> History]
BY DEF WatchInv, WatcherTypes

LEMMA StartPollOnce ==
  ASSUME WatchInv, WatchInv', OnceInv, NEW w \in Sessions, StartPoll(w) PROVE OnceInv'
<1>1. PICK e \in Memory, g \in History, o \in SUBSET Events :
         /\ e = eng[w] /\ g = ghost[w] /\ o = out[w]
         /\ EventsOnce(e, g, o) /\ PollTime(e, g) /\ LapsesOnce(w, e, g, o)
         /\ Bounds(w, e)
  BY OnceParts
<1>2. PICK d \in Memory, h \in History, p \in SUBSET Events :
         d = eng'[w] /\ h = ghost'[w] /\ p = out'[w]
  BY OnceParts
<1>3. /\ e.pc \in {"start", "sleep"} /\ p = o /\ UNCHANGED <<scene, store>>
      /\ \A v \in Sessions \ {w} : UNCHANGED <<eng[v], ghost[v], out[v]>>
  BY <1>1, <1>2, OnceTypes DEF StartPoll, Observing
<1>4. /\ d.pc = "joins" /\ d.at = now /\ d.primed = e.primed /\ d.sink = e.sink
      /\ d.known = e.known /\ d.seen = e.seen /\ d.cur = e.cur
      /\ d.leases = e.leases /\ d.snap = e.snap
  BY <1>1, <1>2, OnceTypes DEF StartPoll, Memory
<1>5. /\ h.base = g.base /\ h.again = g.again /\ h.rebuilt = g.rebuilt
      /\ e.pc = "sleep" => h.armed = g.armed
      /\ e.pc = "start" => h.armed = now
  BY <1>1, <1>2, <1>3, OnceTypes DEF StartPoll, History
<1>6. now \in Nat /\ TTL \in Nat /\ MaxTime \in Nat /\ e.at \in Nat /\ g.armed \in Nat
  BY TypesOnce DEF Memory, History
<1>7. EventsOnce(d, h, p)
  BY <1>1, <1>3, <1>4, <1>5 DEF EventsOnce, Remembered, Repeats
<1>8. PollTime(d, h)
  <2>1. CASE e.pc = "sleep"
    <3>1. g.armed <= e.at /\ e.at <= now /\ e.primed
      BY <1>1, <2>1 DEF PollTime
    <3> QED BY <1>4, <1>5, <1>6, <2>1, <3>1 DEF PollTime
  <2>2. CASE e.pc = "start"
    BY <1>4, <1>5, <1>6, <2>2 DEF PollTime
  <2> QED BY <1>3, <2>1, <2>2
<1>9. LapsesOnce(w, d, h, p)
  <2>1. HasRead(d) /\ \A a \in Actors : Leased(d.snap[a])
    BY <1>1, <1>4 DEF HasRead, LapsesOnce
  <2>2. CASE e.pc = "sleep"
    <3>1. ASSUME NEW a \in Actors, NEW r \in 0..MaxTime, <<"stale", a, r>> \in p
          PROVE  r + TTL < d.at /\ r + TTL >= h.armed
      <4>1. r + TTL < e.at /\ r + TTL >= g.armed /\ e.at <= now
        BY <1>1, <1>3, <3>1 DEF LapsesOnce, PollTime
      <4> QED BY <1>4, <1>5, <1>6, <2>2, <4>1
    <3>2. ASSUME NEW a \in Actors, NEW l \in {lease[a], d.snap[a]},
                 a[1] # w, l # Gone, Old(d, h, p, a, l.rev)
          PROVE  KnowsOld(d, a, l.rev)
      <4>1. l \in {lease[a], e.snap[a]} /\ Old(e, g, o, a, l.rev)
        BY <1>3, <1>4, <1>5, <2>2, <3>2 DEF Old
      <4>2. KnowsOld(e, a, l.rev)
        BY <1>1, <3>2, <4>1 DEF LapsesOnce
      <4> QED BY <1>4, <4>2 DEF KnowsOld
    <3>3. \A a \in Actors : \A l \in {lease[a], d.snap[a]} :
          a[1] # w /\ l # Gone /\ Old(d, h, p, a, l.rev) => KnowsOld(d, a, l.rev)
      BY <3>2
    <3> QED BY <2>1, <3>1, <3>3 DEF LapsesOnce
  <2>3. CASE e.pc = "start"
    <3>1. ~d.primed /\ p = {}
      BY <1>1, <1>3, <1>4, <2>3 DEF PollTime, EventsOnce
    <3> QED BY <2>1, <3>1 DEF LapsesOnce, Old
  <2> QED BY <1>3, <2>2, <2>3
<1> QED BY <1>2, <1>3, <1>7, <1>8, <1>9, OnceWatcher DEF Once

LEMMA ScanJoinsOnce ==
  ASSUME WatchInv, WatchInv', OnceInv, NEW w \in Sessions, ScanJoins(w) PROVE OnceInv'
<1>1. PICK e \in Memory, g \in History, o \in SUBSET Events :
         /\ e = eng[w] /\ g = ghost[w] /\ o = out[w]
         /\ EventsOnce(e, g, o) /\ PollTime(e, g) /\ LapsesOnce(w, e, g, o)
         /\ Bounds(w, e)
  BY OnceParts
<1>2. PICK d \in Memory, h \in History, p \in SUBSET Events :
         d = eng'[w] /\ h = ghost'[w] /\ p = out'[w]
  BY OnceParts
<1>3. /\ e.pc = "joins" /\ p = o /\ UNCHANGED <<scene, store>>
      /\ \A v \in Sessions \ {w} : UNCHANGED <<eng[v], ghost[v], out[v]>>
  BY <1>1, <1>2, OnceTypes DEF ScanJoins, Observing
<1> DEFINE all == {<<"join", j[1], j[2]>> : j \in Joined}
           found == {<<"join", j[1], j[2]>> :
                        j \in {k \in Joined \ e.known : k[1] # w /\ InScope(k[2])}}
           news == IF e.primed THEN found ELSE {}
           base == IF e.primed THEN {} ELSE all
<1>4. /\ d.pc = "feeds" /\ d.at = e.at /\ d.primed = e.primed
      /\ d.known = e.known \union (Joined \ e.known)
      /\ d.seen = e.seen /\ d.cur = e.cur /\ d.leases = e.leases /\ d.snap = e.snap
      /\ d.sink = Collect(w, found)
  BY <1>1, <1>2, OnceTypes DEF ScanJoins, Memory
<1>5. /\ h.base = g.base \union base /\ h.again = g.again /\ h.rebuilt = g.rebuilt
      /\ h.armed = g.armed
  BY <1>1, <1>2, OnceTypes DEF ScanJoins, History
<1>6. found \in SUBSET Events /\ all \in SUBSET Events /\ Joined \in SUBSET (Sessions \X Workstreams)
  BY JoinsTypes DEF WatchInv
<1>7. /\ e.primed => d.sink = e.sink \union found
      /\ ~e.primed => d.sink = {}
  BY <1>1, <1>4, <1>6, CollectTypes
<1>8. \A x \in all : x[1] = "join" /\ <<x[2], x[3]>> \in Joined
  BY <1>6
<1>9. \A x \in found : x[1] = "join" /\ <<x[2], x[3]>> \in Joined \ e.known
  BY <1>6
<1> HIDE DEF all, found
<1>10. Remembered(d, h, news \union base) /\ NoLapse(news \union base)
  <2>1. \A x \in news \union base : x[1] = "join" /\ <<x[2], x[3]>> \in Joined
    BY <1>8, <1>9
  <2> HIDE DEF news, base
  <2>2. \A s \in Sessions, n \in 1..MaxTurns : <<"turn", s, n>> \notin news \union base
    BY <2>1
  <2>3. \A i \in Incidents : <<"incident", i>> \notin news \union base
    BY <2>1
  <2>4. \A a \in Actors, r \in 0..MaxTime : <<"stale", a, r>> \notin news \union base
    BY <2>1
  <2>5. \A s \in Sessions, ws \in Workstreams :
           <<"join", s, ws>> \in news \union base => <<s, ws>> \in Joined
    BY <2>1
  <2> QED BY <1>4, <2>2, <2>3, <2>4, <2>5 DEF Remembered, NoLapse
<1>11. ASSUME NEW x \in news \intersect (g.base \union o) PROVE x \in Repeats(h)
  <2>1. x \in found /\ <<x[2], x[3]>> \in Joined \ e.known
    BY <1>9, <1>11
  <2>2. x = <<"join", x[2], x[3]>> /\ x[2] \in Sessions /\ x[3] \in Workstreams
    <3>1. PICK j \in Joined : x = <<"join", j[1], j[2]>>
      BY <2>1 DEF found
    <3> QED BY <1>6, <3>1
  <2>3. <<x[2], x[3]>> \in e.known
    BY <1>1, <1>11, <2>2 DEF EventsOnce, Remembered
  <2> QED BY <2>1, <2>3
<1>12. EventsOnce(d, h, o)
  <2>1. /\ d.sink \subseteq e.sink \union news
        /\ e.primed => base = {}
    BY <1>6, <1>7
  <2>2. /\ ~e.primed => e.sink = {}
        /\ ~e.primed => d.sink = {}
        /\ \A s \in Sessions \ h.rebuilt : e.cur[s] <= d.cur[s]
    BY <1>1, <1>4, <1>7 DEF Bounds, Memory
  <2>3. /\ g.rebuilt \subseteq h.rebuilt /\ e.known \subseteq d.known /\ e.seen \subseteq d.seen
        /\ \A x \in news \intersect (g.base \union o) : x \in Repeats(h)
    BY <1>4, <1>5, <1>11
  <2>4. /\ EventsOnce(e, g, o) /\ d.primed = e.primed /\ h.again = g.again
        /\ h.base = g.base \union base /\ Remembered(d, h, news \union base)
        /\ NoLapse(news \union base)
    BY <1>1, <1>4, <1>5, <1>10
  <2> HIDE DEF news, base
  <2> QED BY <2>1, <2>2, <2>3, <2>4, EventsGrow DEF Adds
<1>13. PollTime(d, h) /\ LapsesOnce(w, d, h, o)
  <2>1. HasRead(d)
    BY <1>4 DEF HasRead
  <2> QED BY <1>1, <1>3, <1>4, <1>5, <2>1, LapsesKept
<1> QED BY <1>2, <1>3, <1>12, <1>13, OnceWatcher DEF Once


LEMMA ConsumeFeedOnce ==
  ASSUME WatchInv, WatchInv', OnceInv, NEW w \in Sessions, NEW s \in Sessions,
         ConsumeFeed(w, s)
  PROVE  OnceInv'
<1>1. PICK e \in Memory, g \in History, o \in SUBSET Events :
         /\ e = eng[w] /\ g = ghost[w] /\ o = out[w]
         /\ EventsOnce(e, g, o) /\ PollTime(e, g) /\ LapsesOnce(w, e, g, o)
         /\ Bounds(w, e)
  BY OnceParts
<1>2. PICK d \in Memory, h \in History, p \in SUBSET Events :
         d = eng'[w] /\ h = ghost'[w] /\ p = out'[w]
  BY OnceParts
<1>3. /\ e.pc = "feeds" /\ p = o /\ UNCHANGED <<scene, store>>
      /\ \A v \in Sessions \ {w} : UNCHANGED <<eng[v], ghost[v], out[v]>>
  BY <1>1, <1>2, OnceTypes DEF ConsumeFeed, Observing
<1>4. PICK f \in Nat \union {Gone} : f = feed[s] /\ (f # Gone => f <= MaxTurns)
  <2>1. /\ feed[s] \in Nat \union {Gone} /\ Len(turns[s]) \in Nat /\ Len(turns[s]) <= MaxTurns
        /\ feed[s] # Gone => feed[s] <= Len(turns[s])
        /\ MaxTurns \in Nat
    BY WatchAssumption DEF WatchInv, StoreTypes
  <2>2. feed[s] # Gone => feed[s] <= MaxTurns
    BY <2>1
  <2> QED BY <2>1, <2>2
<1>5. PICK from \in Nat : from = e.cur[s]
  BY DEF Memory
<1> DEFINE rebuilt == f # Gone /\ f < from
           fresh == f # Gone /\ ~rebuilt
           news == IF fresh /\ e.primed THEN News(w, s, from, f) ELSE {}
           base == IF fresh /\ ~e.primed THEN {<<"turn", s, n>> : n \in 1..f} ELSE {}
<1>6. /\ d.pc = "feeds" /\ d.at = e.at /\ d.primed = e.primed
      /\ d.known = e.known /\ d.seen = e.seen /\ d.leases = e.leases /\ d.snap = e.snap
  BY <1>1, <1>2, <1>3, OnceTypes DEF ConsumeFeed, Memory
<1>7. /\ d.cur[s] = IF f = Gone THEN from ELSE f
      /\ \A v \in Sessions \ {s} : d.cur[v] = e.cur[v]
  BY <1>1, <1>2, <1>4, <1>5, OnceTypes DEF ConsumeFeed, Memory
<1>8. d.sink = IF ~fresh THEN e.sink ELSE Collect(w, News(w, s, from, f))
  BY <1>1, <1>2, <1>4, <1>5, OnceTypes DEF ConsumeFeed, Memory
<1>9. /\ h.base = g.base \union base /\ h.again = g.again /\ h.armed = g.armed
      /\ h.rebuilt = IF rebuilt THEN g.rebuilt \union {s} ELSE g.rebuilt
  BY <1>1, <1>2, <1>4, <1>5, OnceTypes DEF ConsumeFeed, History
<1>10. ASSUME NEW x \in news \union base
       PROVE  /\ x[1] = "turn" /\ x[2] = s /\ x[3] \in Nat /\ x[3] <= d.cur[s]
              /\ x = <<"turn", s, x[3]>> /\ x[3] \in 1..MaxTurns
              /\ x \in news => x[3] > from
  <2>1. fresh /\ f \in Nat /\ d.cur[s] = f /\ f <= MaxTurns /\ MaxTurns \in Nat
    BY <1>4, <1>7, <1>10, WatchAssumption
  <2>2. CASE x \in news
    <3>1. x \in News(w, s, from, f)
      BY <2>2
    <3>2. PICK n \in from + 1 .. f : x = <<"turn", s, n>>
      BY <3>1 DEF News
    <3> QED BY <1>5, <2>1, <3>2
  <2>3. CASE x \in base /\ x \notin news
    <3>1. PICK n \in 1..f : x = <<"turn", s, n>>
      BY <2>3
    <3> QED BY <2>1, <2>3, <3>1
  <2> QED BY <1>10, <2>2, <2>3
<1>11. /\ ~e.primed => e.sink = {}
       /\ ~e.primed => d.sink = {}
       /\ d.sink \subseteq e.sink \union news
       /\ e.primed => base = {}
  <2>1. ~e.primed => e.sink = {}
    BY <1>1 DEF Bounds
  <2>2. CASE ~fresh
    BY <1>8, <2>1, <2>2
  <2>3. CASE fresh
    <3>1. d.sink = Collect(w, News(w, s, from, f))
      BY <1>8, <2>3
    <3> QED BY <1>1, <2>1, <2>3, <3>1 DEF Collect
  <2> QED BY <2>2, <2>3
<1>12. \A v \in Sessions \ h.rebuilt : e.cur[v] <= d.cur[v]
  <2> SUFFICES ASSUME NEW v \in Sessions \ h.rebuilt PROVE e.cur[v] <= d.cur[v]
    OBVIOUS
  <2>1. e.cur[v] \in Nat
    BY DEF Memory
  <2>2. CASE v # s
    BY <1>7, <2>1, <2>2
  <2>3. CASE v = s
    BY <1>4, <1>5, <1>7, <1>9, <2>3
  <2> QED BY <2>2, <2>3
<1> HIDE DEF news, base, rebuilt, fresh
<1>13. Remembered(d, h, news \union base) /\ NoLapse(news \union base)
  <2>1. \A x \in news \union base : x[1] = "turn" /\ x[2] = s /\ x[3] <= d.cur[s]
    BY <1>10
  <2>2. \A v \in Sessions, ws \in Workstreams : <<"join", v, ws>> \notin news \union base
    BY <2>1
  <2>3. \A i \in Incidents : <<"incident", i>> \notin news \union base
    BY <2>1
  <2>4. \A a \in Actors, r \in 0..MaxTime : <<"stale", a, r>> \notin news \union base
    BY <2>1
  <2>5. \A v \in Sessions, n \in 1..MaxTurns :
           <<"turn", v, n>> \in news \union base => v = s /\ n <= d.cur[s]
    BY <2>1
  <2> QED BY <2>2, <2>3, <2>4, <2>5 DEF Remembered, NoLapse
<1>14. ASSUME NEW x \in news \intersect (g.base \union o) PROVE x \in Repeats(h)
  <2>1. x = <<"turn", s, x[3]>> /\ x[3] \in 1..MaxTurns /\ x[3] > from
    BY <1>10, <1>14
  <2>2. x[3] <= from \/ s \in g.rebuilt
    BY <1>1, <1>5, <1>14, <2>1 DEF EventsOnce, Remembered
  <2>3. s \in h.rebuilt
    <3>1. x[3] \in Nat
      BY <2>1
    <3> QED BY <1>9, <2>1, <2>2, <3>1
  <2> QED BY <2>1, <2>3 DEF Repeats
<1>15. EventsOnce(d, h, o)
  <2>1. /\ g.rebuilt \subseteq h.rebuilt /\ e.known \subseteq d.known /\ e.seen \subseteq d.seen
        /\ EventsOnce(e, g, o)
    BY <1>1, <1>6, <1>9
  <2>2. Adds(e, g, o, d, h, news, base)
    BY <1>6, <1>9, <1>11, <1>12, <1>13, <1>14, <2>1 DEF Adds
  <2> QED BY <2>1, <2>2, EventsGrow
<1>16. PollTime(d, h) /\ LapsesOnce(w, d, h, o)
  <2>1. HasRead(d)
    BY <1>6 DEF HasRead
  <2> QED BY <1>1, <1>3, <1>6, <1>9, <2>1, LapsesKept
<1> QED BY <1>2, <1>3, <1>15, <1>16, OnceWatcher DEF Once

LEMMA EndFeedsOnce ==
  ASSUME WatchInv, WatchInv', OnceInv, NEW w \in Sessions, EndFeeds(w) PROVE OnceInv'
<1>1. PICK e \in Memory, g \in History, o \in SUBSET Events :
         /\ e = eng[w] /\ g = ghost[w] /\ o = out[w]
         /\ EventsOnce(e, g, o) /\ PollTime(e, g) /\ LapsesOnce(w, e, g, o)
         /\ Bounds(w, e)
  BY OnceParts
<1>2. PICK d \in Memory, h \in History, p \in SUBSET Events :
         d = eng'[w] /\ h = ghost'[w] /\ p = out'[w]
  BY OnceParts
<1>3. /\ e.pc = "feeds" /\ p = o /\ UNCHANGED <<scene, store>>
      /\ \A v \in Sessions \ {w} : UNCHANGED <<eng[v], ghost[v], out[v]>>
  BY <1>1, <1>2, OnceTypes DEF EndFeeds, Observing
<1> DEFINE dropped == {s \in Sessions : e.cur[s] > 0} \ e.listed
<1>4. /\ d.pc = "incidents" /\ d.at = e.at /\ d.primed = e.primed
      /\ d.known = e.known /\ d.seen = e.seen /\ d.leases = e.leases /\ d.snap = e.snap
      /\ d.sink = e.sink
      /\ d.cur = [s \in Sessions |-> IF s \in dropped THEN 0 ELSE e.cur[s]]
  BY <1>1, <1>2, OnceTypes DEF EndFeeds, Memory
<1>5. /\ h.base = g.base /\ h.again = g.again /\ h.armed = g.armed
      /\ h.rebuilt = g.rebuilt \union dropped
  BY <1>1, <1>2, OnceTypes DEF EndFeeds, History
<1>6. \A s \in Sessions \ h.rebuilt : e.cur[s] <= d.cur[s]
  <2> SUFFICES ASSUME NEW s \in Sessions \ h.rebuilt PROVE e.cur[s] <= d.cur[s]
    OBVIOUS
  <2>1. d.cur[s] = e.cur[s] /\ e.cur[s] \in Nat
    BY <1>4, <1>5 DEF Memory
  <2> QED BY <2>1
<1> HIDE DEF dropped
<1>7. EventsOnce(d, h, o)
  <2>1. Remembered(d, h, {} \union {}) /\ NoLapse({} \union {})
    BY DEF Remembered, NoLapse
  <2>2. ~e.primed => e.sink = {}
    BY <1>1 DEF Bounds
  <2>3. Adds(e, g, o, d, h, {}, {})
    BY <1>4, <1>5, <1>6, <2>1, <2>2 DEF Adds
  <2> QED BY <1>1, <2>3, EventsGrow
<1>8. PollTime(d, h) /\ LapsesOnce(w, d, h, o)
  <2>1. HasRead(d)
    BY <1>4 DEF HasRead
  <2> QED BY <1>1, <1>3, <1>4, <1>5, <2>1, LapsesKept
<1> QED BY <1>2, <1>3, <1>7, <1>8, OnceWatcher DEF Once

LEMMA ScanIncidentsOnce ==
  ASSUME WatchInv, WatchInv', OnceInv, NEW w \in Sessions, ScanIncidents(w) PROVE OnceInv'
<1>1. PICK e \in Memory, g \in History, o \in SUBSET Events :
         /\ e = eng[w] /\ g = ghost[w] /\ o = out[w]
         /\ EventsOnce(e, g, o) /\ PollTime(e, g) /\ LapsesOnce(w, e, g, o)
         /\ Bounds(w, e)
  BY OnceParts
<1>2. PICK d \in Memory, h \in History, p \in SUBSET Events :
         d = eng'[w] /\ h = ghost'[w] /\ p = out'[w]
  BY OnceParts
<1>3. /\ e.pc = "incidents" /\ p = o /\ UNCHANGED <<scene, store>>
      /\ \A v \in Sessions \ {w} : UNCHANGED <<eng[v], ghost[v], out[v]>>
  BY <1>1, <1>2, OnceTypes DEF ScanIncidents, Observing
<1> DEFINE complete == {i \in Incidents : marker[i] \notin {Gone, "empty"}}
           all == {<<"incident", i>> : i \in complete}
           found == {<<"incident", i>> : i \in {j \in complete \ e.seen :
                                                  marker[j] = NoScope \/ InScope(marker[j])}}
           news == IF e.primed THEN found ELSE {}
           base == IF e.primed THEN {} ELSE all
<1>4. /\ d.pc = "leases" /\ d.at = e.at /\ d.primed = e.primed
      /\ d.seen = e.seen \union (complete \ e.seen)
      /\ d.known = e.known /\ d.cur = e.cur /\ d.leases = e.leases
      /\ d.snap = [a \in Actors |-> Gone] /\ d.left = {a \in Actors : lease[a] # Gone}
      /\ d.sink = Collect(w, found)
  <2> DEFINE s == e.seen \union (complete \ e.seen)
             l == {a \in Actors : lease[a] # Gone}
             n == [a \in Actors |-> Gone]
             c == Collect(w, found)
  <2>1. eng' = [eng EXCEPT ![w].pc = "leases", ![w].seen = s, ![w].left = l,
                           ![w].snap = n, ![w].sink = c]
    BY <1>1 DEF ScanIncidents
  <2> HIDE DEF s, l, n, c
  <2>2. /\ d.pc = "leases" /\ d.at = e.at /\ d.primed = e.primed /\ d.seen = s
        /\ d.known = e.known /\ d.cur = e.cur /\ d.leases = e.leases
        /\ d.snap = n /\ d.left = l /\ d.sink = c
    BY <1>1, <1>2, <2>1, OnceTypes DEF Memory
  <2> QED BY <2>2 DEF s, l, n, c
<1>5. /\ h.base = g.base \union base /\ h.again = g.again /\ h.rebuilt = g.rebuilt
      /\ h.armed = g.armed
  BY <1>1, <1>2, OnceTypes DEF ScanIncidents, History
<1>6. found \in SUBSET Events /\ complete \subseteq Incidents
  BY DEF Events
<1>7. /\ e.primed => d.sink = e.sink \union found
      /\ ~e.primed => d.sink = {}
  BY <1>1, <1>4, <1>6, CollectTypes
<1>8. \A x \in all : x[1] = "incident" /\ x[2] \in complete
  OBVIOUS
<1>9. \A x \in found : /\ x[1] = "incident" /\ x[2] \in complete \ e.seen
                       /\ x = <<"incident", x[2]>>
  OBVIOUS
<1> HIDE DEF all, found, complete
<1>10. Remembered(d, h, news \union base) /\ NoLapse(news \union base)
  <2>1. \A x \in news \union base : x[1] = "incident" /\ x[2] \in complete
    BY <1>8, <1>9
  <2> HIDE DEF news, base
  <2>2. \A s \in Sessions, n \in 1..MaxTurns : <<"turn", s, n>> \notin news \union base
    BY <2>1
  <2>3. \A s \in Sessions, ws \in Workstreams : <<"join", s, ws>> \notin news \union base
    BY <2>1
  <2>4. \A a \in Actors, r \in 0..MaxTime : <<"stale", a, r>> \notin news \union base
    BY <2>1
  <2>5. \A i \in Incidents : <<"incident", i>> \in news \union base => i \in complete
    BY <2>1
  <2> QED BY <1>4, <2>2, <2>3, <2>4, <2>5 DEF Remembered, NoLapse
<1>11. ASSUME NEW x \in news \intersect (g.base \union o) PROVE x \in Repeats(h)
  <2>1. x \in found /\ x[2] \in complete \ e.seen /\ x = <<"incident", x[2]>>
    BY <1>9, <1>11
  <2>2. x[2] \in Incidents
    BY <1>6, <2>1
  <2>3. x[2] \in e.seen
    BY <1>1, <1>11, <2>1, <2>2 DEF EventsOnce, Remembered
  <2> QED BY <2>1, <2>3
<1>12. EventsOnce(d, h, o)
  <2>1. /\ d.sink \subseteq e.sink \union news
        /\ e.primed => base = {}
    BY <1>6, <1>7
  <2>2. /\ ~e.primed => e.sink = {}
        /\ ~e.primed => d.sink = {}
        /\ \A s \in Sessions \ h.rebuilt : e.cur[s] <= d.cur[s]
    BY <1>1, <1>4, <1>7 DEF Bounds, Memory
  <2>3. /\ g.rebuilt \subseteq h.rebuilt /\ e.known \subseteq d.known /\ e.seen \subseteq d.seen
        /\ \A x \in news \intersect (g.base \union o) : x \in Repeats(h)
    BY <1>4, <1>5, <1>11
  <2>4. /\ EventsOnce(e, g, o) /\ d.primed = e.primed /\ h.again = g.again
        /\ h.base = g.base \union base /\ Remembered(d, h, news \union base)
        /\ NoLapse(news \union base)
    BY <1>1, <1>4, <1>5, <1>10
  <2> HIDE DEF news, base
  <2> QED BY <2>1, <2>2, <2>3, <2>4, EventsGrow DEF Adds
<1>13. PollTime(d, h) /\ LapsesOnce(w, d, h, o)
  <2>1. HasRead(d)
    BY <1>4 DEF HasRead
  <2>2. \A a \in Actors : d.snap[a] \in {e.snap[a], lease[a], Gone}
    BY <1>4
  <2> QED BY <1>1, <1>3, <1>4, <1>5, <2>1, <2>2, LapsesKept
<1> QED BY <1>2, <1>3, <1>12, <1>13, OnceWatcher DEF Once


LEMMA ReadLeaseOnce ==
  ASSUME WatchInv, WatchInv', OnceInv, NEW w \in Sessions, NEW a \in Actors, ReadLease(w, a)
  PROVE  OnceInv'
<1>1. PICK e \in Memory, g \in History, o \in SUBSET Events :
         /\ e = eng[w] /\ g = ghost[w] /\ o = out[w]
         /\ EventsOnce(e, g, o) /\ PollTime(e, g) /\ LapsesOnce(w, e, g, o)
         /\ Bounds(w, e)
  BY OnceParts
<1>2. PICK d \in Memory, h \in History, p \in SUBSET Events :
         d = eng'[w] /\ h = ghost'[w] /\ p = out'[w]
  BY OnceParts
<1>3. /\ e.pc = "leases" /\ p = o /\ h = g /\ UNCHANGED <<scene, store>>
      /\ \A v \in Sessions \ {w} : UNCHANGED <<eng[v], ghost[v], out[v]>>
  BY <1>1, <1>2, OnceTypes DEF ReadLease, Observing
<1>4. /\ d.pc = "leases" /\ d.at = e.at /\ d.primed = e.primed
      /\ d.known = e.known /\ d.seen = e.seen /\ d.leases = e.leases
      /\ d.sink = e.sink /\ d.cur = e.cur /\ d.left = e.left \ {a}
      /\ d.snap = [e.snap EXCEPT ![a] = lease[a]]
  BY <1>1, <1>2, <1>3, OnceTypes DEF ReadLease, Memory
<1>5. /\ d.snap[a] = lease[a]
      /\ \A b \in Actors \ {a} : d.snap[b] = e.snap[b]
  BY <1>4 DEF Memory
<1>6. EventsOnce(d, h, o)
  BY <1>1, <1>3, <1>4 DEF EventsOnce, Remembered
<1>7. PollTime(d, h) /\ LapsesOnce(w, d, h, o)
  <2>1. HasRead(d)
    <3> SUFFICES ASSUME NEW b \in Actors \ d.left, lease[b] # Gone, lease[b].rev < d.at
                 PROVE  d.snap[b] # Gone /\ d.snap[b].rev = lease[b].rev
      BY DEF HasRead
    <3>1. CASE b = a
      BY <1>5, <3>1
    <3>2. CASE b # a
      BY <1>1, <1>3, <1>4, <1>5, <3>2 DEF LapsesOnce, HasRead
    <3> QED BY <3>1, <3>2
  <2>2. \A b \in Actors : d.snap[b] \in {e.snap[b], lease[b], Gone}
    BY <1>5
  <2>3. h.armed = g.armed /\ e.pc # "start" /\ d.pc # "start"
        /\ (d.pc = "sleep" => d.primed)
    BY <1>3, <1>4
  <2>4. PollTime(e, g) /\ LapsesOnce(w, e, g, o)
    BY <1>1
  <2> QED BY <1>4, <2>1, <2>2, <2>3, <2>4, LapsesKept
<1> QED BY <1>2, <1>3, <1>6, <1>7, OnceWatcher DEF Once

LEMMA FailPollOnce ==
  ASSUME WatchInv, WatchInv', OnceInv, NEW w \in Sessions, FailPoll(w) PROVE OnceInv'
<1>1. PICK e \in Memory, g \in History, o \in SUBSET Events :
         /\ e = eng[w] /\ g = ghost[w] /\ o = out[w]
         /\ EventsOnce(e, g, o) /\ PollTime(e, g) /\ LapsesOnce(w, e, g, o)
         /\ Bounds(w, e)
  BY OnceParts
<1>2. PICK d \in Memory, h \in History, p \in SUBSET Events :
         d = eng'[w] /\ h = ghost'[w] /\ p = out'[w]
  BY OnceParts
<1>3. /\ e.pc \in {"joins", "feeds", "incidents", "leases"} /\ p = o
      /\ UNCHANGED <<scene, store>>
      /\ \A v \in Sessions \ {w} : UNCHANGED <<eng[v], ghost[v], out[v]>>
  BY <1>1, <1>2, OnceTypes DEF FailPoll
<1>4. /\ d.pc = IF ~e.primed \/ e.errors + 1 >= MaxErrors THEN "over" ELSE "sleep"
      /\ d.at = e.at /\ d.primed = e.primed /\ d.sink = {}
      /\ d.known = e.known /\ d.seen = e.seen /\ d.leases = e.leases /\ d.cur = e.cur
      /\ d.snap = [a \in Actors |-> Gone]
  BY <1>1, <1>2, OnceTypes DEF FailPoll, Memory
<1>5. /\ h.base = g.base /\ h.again = g.again /\ h.rebuilt = g.rebuilt
      /\ h.armed = g.armed
  BY <1>1, <1>2, OnceTypes DEF FailPoll, History
<1>6. EventsOnce(d, h, o)
  BY <1>1, <1>4, <1>5 DEF EventsOnce, Remembered, NoLapse, Repeats
<1>7. PollTime(d, h) /\ LapsesOnce(w, d, h, o)
  <2>1. d.pc \in {"over", "sleep"} /\ (d.pc = "sleep" => d.primed)
    BY <1>4
  <2>2. HasRead(d)
    BY <2>1 DEF HasRead
  <2>3. \A a \in Actors : d.snap[a] \in {e.snap[a], lease[a], Gone}
    BY <1>4
  <2>4. e.pc # "start" /\ d.pc # "start"
    BY <1>3, <2>1
  <2> QED BY <1>1, <1>4, <1>5, <2>1, <2>2, <2>3, <2>4, LapsesKept
<1> QED BY <1>2, <1>3, <1>6, <1>7, OnceWatcher DEF Once

(* Without claims there are no overlaps. *)
LEMMA NoOverlaps ==
  ASSUME NobodyClaims, NEW ls, NEW t, \A a \in Actors : Leased(ls[a])
  PROVE  Overlaps(ls, t) = {}
<1>1. Claims(ls, t) = {}
  BY DEF Claims, Present, Leased
<1> QED BY <1>1 DEF Overlaps

(* The last scan tells no lapse that was told, or was over before the watch. *)
LEMMA JudgeLeasesOnce ==
  ASSUME WatchInv, WatchInv', OnceInv, NEW w \in Sessions, JudgeLeases(w) PROVE OnceInv'
<1>1. PICK e \in Memory, g \in History, o \in SUBSET Events :
         /\ e = eng[w] /\ g = ghost[w] /\ o = out[w]
         /\ EventsOnce(e, g, o) /\ PollTime(e, g) /\ LapsesOnce(w, e, g, o)
         /\ Bounds(w, e)
  BY OnceParts
<1>2. PICK d \in Memory, h \in History, p \in SUBSET Events :
         d = eng'[w] /\ h = ghost'[w] /\ p = out'[w]
  BY OnceParts
<1> DEFINE found == Overlaps(e.snap, e.at)
           stale == {<<"stale", a, e.snap[a].rev>> :
                        a \in {b \in Actors : WorthTelling(w, b)}}
           events == Collect(w, stale)
           clash == IF e.primed THEN found \ e.conf ELSE {}
           again == g.again \union (events \intersect o) \union (clash \intersect g.told)
           lapses == [a \in Actors |->
                    IF e.snap[a] = Gone \/ a[1] = w THEN Gone
                    ELSE [rev |-> e.snap[a].rev,
                          reported |-> Lapsed(w, a) \/ Reported(w, a)]]
           none == [a \in Actors |-> Gone]
<1>3. /\ e.pc = "leases" /\ e.left = {} /\ p = o \union events /\ UNCHANGED <<scene, store>>
      /\ \A v \in Sessions \ {w} : UNCHANGED <<eng[v], ghost[v], out[v]>>
  BY <1>1, <1>2, OnceTypes DEF JudgeLeases, Observing
<1>4. eng' = [eng EXCEPT ![w].pc = "sleep", ![w].primed = TRUE,
                ![w].sink = {}, ![w].errors = 0, ![w].conf = found,
                ![w].snap = none, ![w].leases = lapses]
  BY <1>1 DEF JudgeLeases
<1>5. \E x, y : ghost' = [ghost EXCEPT ![w].again = again, ![w].told = x, ![w].woken = y]
  <2> DEFINE x == (g.told \union found) \intersect Overlaps(lease, now)
             y == g.woken \/ events # {} \/ clash # {}
             b == eng[w]
             all == ghost[w]
             f == Overlaps(b.snap, b.at)
             v == Collect(w, {<<"stale", a, b.snap[a].rev>> :
                                a \in {c \in Actors : WorthTelling(w, c)}})
             c == IF b.primed THEN f \ b.conf ELSE {}
             x1 == all.again \union (v \intersect out[w]) \union (c \intersect all.told)
             x2 == (all.told \union f) \intersect Overlaps(lease, now)
             x3 == all.woken \/ v # {} \/ c # {}
  <2>1. ghost' = [ghost EXCEPT ![w].again = x1, ![w].told = x2, ![w].woken = x3]
    BY DEF JudgeLeases
  <2>2. x1 = again /\ x2 = x /\ x3 = y
    BY <1>1
  <2> HIDE DEF again, x, y, x1, x2, x3
  <2> QED BY <2>1, <2>2
<1> HIDE DEF lapses, found, events, again, none
<1>6. /\ d.pc = "sleep" /\ d.primed = TRUE /\ d.sink = {} /\ d.at = e.at
      /\ d.known = e.known /\ d.seen = e.seen /\ d.cur = e.cur /\ d.snap = none
      /\ d.leases = lapses
  BY <1>1, <1>2, <1>4, OnceTypes DEF Memory
<1>7. /\ h.base = g.base /\ h.rebuilt = g.rebuilt /\ h.armed = g.armed /\ h.again = again
  BY <1>1, <1>2, <1>5, OnceTypes DEF History
<1>8. /\ now \in Nat /\ TTL \in Nat /\ MaxTime \in Nat /\ e.at \in Nat /\ g.armed \in Nat
      /\ e.snap \in [Actors -> LeaseRecord \union {Gone}]
      /\ lease \in [Actors -> LeaseRecord \union {Gone}]
      /\ \A l \in LeaseRecord : l.rev \in 0..MaxTime /\ l.rev \in Nat /\ l.exp \in Nat
  BY TypesOnce DEF Memory, History
<1>9. ASSUME NEW a \in Actors, WorthTelling(w, a)
      PROVE  /\ e.snap[a] # Gone /\ e.snap[a].rev \in 0..MaxTime /\ e.snap[a].rev + TTL < e.at
             /\ ~Old(e, g, o, a, e.snap[a].rev)
  <2>1. /\ a[1] # w /\ e.snap[a] # Gone /\ e.at > e.snap[a].exp /\ e.leases[a] # Gone
        /\ ~Reported(w, a)
    BY <1>1, <1>9 DEF WorthTelling, Lapsed
  <2>2. e.snap[a].rev \in 0..MaxTime /\ e.snap[a].rev \in Nat /\ e.snap[a].exp \in Nat
    BY <1>8, <2>1
  <2>3. e.snap[a].exp = e.snap[a].rev + TTL
    BY <1>1, <2>1 DEF LapsesOnce, Leased
  <2>4. ~KnowsOld(e, a, e.snap[a].rev)
    BY <1>1, <2>1 DEF KnowsOld, Reported
  <2> QED BY <1>1, <1>8, <2>1, <2>2, <2>3, <2>4 DEF LapsesOnce
<1>10. ASSUME NEW x \in stale
       PROVE  /\ x[1] = "stale" /\ x[2] \in Actors /\ x[3] \in 0..MaxTime
              /\ x = <<"stale", x[2], x[3]>> /\ x[3] + TTL < e.at
              /\ e.snap[x[2]] # Gone /\ e.snap[x[2]].rev = x[3]
              /\ ~Old(e, g, o, x[2], x[3])
  <2>1. PICK a \in Actors : WorthTelling(w, a) /\ x = <<"stale", a, e.snap[a].rev>>
    BY <1>10
  <2> QED BY <1>9, <2>1
<1> HIDE DEF stale
<1>11. /\ stale \in SUBSET Events
       /\ e.primed => events = e.sink \union stale
       /\ ~e.primed => events = {}
  <2>1. \A x \in stale : x \in Events
    BY <1>10 DEF Events
  <2>2. stale \in SUBSET Events
    BY <2>1
  <2> QED BY <1>1, <2>2, CollectTypes DEF events
<1>12. ASSUME NEW x \in stale PROVE x \notin g.base \union o \union e.sink
  <2>1. x[2] \in Actors /\ x[3] \in 0..MaxTime /\ x = <<"stale", x[2], x[3]>>
        /\ ~Old(e, g, o, x[2], x[3])
    BY <1>10
  <2>2. x \notin g.base \union e.sink
    BY <1>1, <2>1 DEF EventsOnce, NoLapse
  <2> QED BY <2>1, <2>2 DEF Old
<1>13. \A x \in events \intersect (g.base \union o) : x \in Repeats(g)
  BY <1>1, <1>11, <1>12 DEF EventsOnce
<1>14. NobodyClaims => clash = {}
  <2>1. NobodyClaims => found = {}
    BY <1>1, NoOverlaps DEF LapsesOnce, found
  <2> QED BY <2>1
<1>15. clash \intersect g.told \subseteq Clash
  BY DEF History
<1> HIDE DEF clash
<1>16. EventsOnce(d, h, p)
  <2>1. Repeats(h) = Repeats(g)
    BY <1>7 DEF Repeats
  <2>2. Remembered(d, h, h.base \union p \union d.sink)
    <3>1. /\ \A s \in Sessions, ws \in Workstreams : <<"join", s, ws>> \notin stale
          /\ \A s \in Sessions, n \in 1..MaxTurns : <<"turn", s, n>> \notin stale
          /\ \A i \in Incidents : <<"incident", i>> \notin stale
      <4>1. \A x \in stale : x[1] = "stale"
        BY <1>10
      <4> QED BY <4>1
    <3>2. \A x \in h.base \union p \union d.sink :
             x \in g.base \union o \union e.sink \/ x \in stale
      BY <1>3, <1>6, <1>7, <1>11
    <3>3. Remembered(e, g, g.base \union o \union e.sink)
      BY <1>1 DEF EventsOnce
    <3> QED BY <1>6, <1>7, <3>1, <3>2, <3>3 DEF Remembered
  <2>3. NoLapse(h.base \union d.sink)
    BY <1>1, <1>6, <1>7 DEF EventsOnce, NoLapse
  <2>4. \A x \in p \intersect h.base : x \in Repeats(h)
    BY <1>1, <1>3, <1>7, <1>13, <2>1 DEF EventsOnce
  <2>5. \A x \in h.again : x \in Repeats(h) \/ (~NobodyClaims /\ x \in Clash)
    <3> SUFFICES ASSUME NEW x \in h.again
                 PROVE  x \in Repeats(g) \/ (~NobodyClaims /\ x \in Clash)
      BY <2>1
    <3>1. x \in g.again \/ x \in events \intersect o \/ x \in clash \intersect g.told
      BY <1>7 DEF again
    <3> QED BY <1>1, <1>13, <1>14, <1>15, <3>1 DEF EventsOnce
  <2> QED BY <1>6, <2>2, <2>3, <2>4, <2>5 DEF EventsOnce
<1>17. PollTime(d, h)
  BY <1>1, <1>3, <1>6, <1>7 DEF PollTime
<1>18. LapsesOnce(w, d, h, p)
  <2>1. ASSUME NEW a \in Actors, NEW r \in 0..MaxTime, <<"stale", a, r>> \in p
        PROVE  r + TTL < d.at /\ r + TTL >= h.armed
    <3>1. CASE <<"stale", a, r>> \in o
      BY <1>1, <1>6, <1>7, <3>1 DEF LapsesOnce
    <3>2. CASE <<"stale", a, r>> \notin o
      <4>1. <<"stale", a, r>> \in events /\ <<"stale", a, r>> \notin e.sink
        BY <1>1, <1>3, <2>1, <3>2 DEF EventsOnce, NoLapse
      <4>2. <<"stale", a, r>> \in stale /\ e.primed
        BY <1>11, <4>1
      <4>3. PICK x \in stale : x = <<"stale", a, r>>
        BY <4>2
      <4>4. x[2] = a /\ x[3] = r
        BY <4>3
      <4>5. r + TTL < e.at /\ ~(r + TTL < g.armed)
        BY <1>10, <4>2, <4>4 DEF Old
      <4>6. r \in Nat
        BY <1>8
      <4> QED BY <1>6, <1>7, <1>8, <4>5, <4>6
    <3> QED BY <3>1, <3>2
  <2>2. ASSUME NEW a \in Actors, a[1] # w, lease[a] # Gone, Old(d, h, p, a, lease[a].rev)
        PROVE  KnowsOld(d, a, lease[a].rev)
    <3>1. PICK r \in 0..MaxTime : r = lease[a].rev
      BY <1>8, <2>2
    <3>2. r \in Nat /\ r + TTL < e.at
      <4>1. r \in Nat
        BY <1>8
      <4>2. <<"stale", a, r>> \in p \/ r + TTL < g.armed
        BY <1>7, <2>2, <3>1 DEF Old
      <4>3. CASE <<"stale", a, r>> \in p
        BY <1>6, <2>1, <4>1, <4>3
      <4>4. CASE r + TTL < g.armed
        BY <1>1, <1>8, <4>1, <4>4 DEF PollTime
      <4> QED BY <4>1, <4>2, <4>3, <4>4
    <3>3. r < e.at
      BY <1>8, <3>2
    <3>4. e.snap[a] # Gone /\ e.snap[a].rev = r
      BY <1>1, <1>3, <2>2, <3>1, <3>3 DEF LapsesOnce, HasRead
    <3>5. e.snap[a].exp = r + TTL
      BY <1>1, <3>4 DEF LapsesOnce, Leased
    <3>6. Lapsed(w, a)
      BY <1>1, <1>8, <2>2, <3>2, <3>4, <3>5 DEF Lapsed
    <3>7. lapses[a] = [rev |-> e.snap[a].rev, reported |-> Lapsed(w, a) \/ Reported(w, a)]
      BY <2>2, <3>4 DEF lapses
    <3>8. lapses[a].rev = r /\ lapses[a].reported
      <4>1. (Lapsed(w, a) \/ Reported(w, a)) = TRUE
        BY <3>6, Zenon
      <4>2. lapses[a] = [rev |-> e.snap[a].rev, reported |-> TRUE]
        BY <3>7, <4>1, Zenon
      <4> QED BY <3>4, <4>2
    <3> QED BY <1>6, <3>1, <3>8 DEF KnowsOld
  <2>3. \A a \in Actors : d.snap[a] = Gone
    BY <1>6 DEF none
  <2>4. \A a \in Actors : \A l \in {lease[a], d.snap[a]} :
          a[1] # w /\ l # Gone /\ Old(d, h, p, a, l.rev) => KnowsOld(d, a, l.rev)
    BY <2>2, <2>3
  <2>5. HasRead(d) /\ \A a \in Actors : Leased(d.snap[a])
    BY <1>6, <2>3 DEF HasRead, Leased
  <2> QED BY <2>1, <2>4, <2>5 DEF LapsesOnce
<1> QED BY <1>2, <1>3, <1>16, <1>17, <1>18, OnceWatcher DEF Once


LEMMA WrittenNow ==
  ASSUME WatchInv, NEW a \in Actors, NEW l, lease' = [lease EXCEPT ![a] = l],
         l = Gone \/ (l.rev = now /\ l.exp = now + TTL /\ (NobodyClaims => ~l.claim)),
         now' = now
  PROVE  LeaseWritten
BY TypesOnce DEF LeaseWritten

LEMMA StoreOnce ==
  ASSUME WatchInv, WatchInv', OnceInv,
         Store \/ (\E s \in Sessions : StartAwait(s)) \/ Await \/ FailScan
  PROVE  OnceInv'
<1>1. now \in Nat /\ ghost \in [Sessions -> History]
  BY TypesOnce, OnceTypes
<1>2. ASSUME UNCHANGED ghost PROVE SameWatch
  BY <1>2 DEF SameWatch
<1>3. ASSUME NEW ls, NEW t, Lasting(ls, t) PROVE SameWatch
  BY <1>1, <1>3 DEF Lasting, SameWatch, History
<1>4. ASSUME UNCHANGED lease PROVE LeaseWritten
  BY <1>4 DEF LeaseWritten
<1>5. CASE Tick
  <2>1. /\ UNCHANGED <<scene, eng, out, lease>> /\ now <= now'
        /\ Lasting(lease, now')
    BY <1>1, <1>5 DEF Tick, Unobserved
  <2> QED BY <1>3, <1>4, <2>1, OnceStore
<1>6. ASSUME UNCHANGED <<scene, eng, out, now, lease, ghost>> PROVE OnceInv'
  <2>1. now <= now'
    BY <1>1, <1>6
  <2> QED BY <1>2, <1>4, <1>6, <2>1, OnceStore
<1>7. ASSUME NEW s \in Sessions, NEW ws \in Workstreams, Join(s, ws) PROVE OnceInv'
  BY <1>6, <1>7 DEF Join, Unobserved
<1>8. ASSUME NEW s \in Sessions, Publish(s) \/ DeleteFeed(s) \/ Rebuild(s) PROVE OnceInv'
  BY <1>6, <1>8 DEF Publish, DeleteFeed, Rebuild, Unobserved
<1>9. ASSUME NEW s \in Sessions, ResetCursor(s) \/ ReadTurns(s) PROVE OnceInv'
  BY <1>6, <1>9 DEF ResetCursor, ReadTurns, Unobserved
<1>10. ASSUME NEW s \in Sessions, Answer(s) PROVE OnceInv'
  <2>1. UNCHANGED <<scene, eng, out, now, lease>> /\ ghost' = [ghost EXCEPT ![s].woken = FALSE]
    BY <1>10 DEF Answer, Unobserved
  <2>2. SameWatch
    BY <1>1, <2>1 DEF SameWatch, History
  <2>3. now <= now'
    BY <1>1, <2>1
  <2> QED BY <1>4, <2>1, <2>2, <2>3, OnceStore
<1>11. ASSUME NEW i \in Incidents, CreateMarker(i) PROVE OnceInv'
  BY <1>6, <1>11 DEF CreateMarker, Unobserved
<1>12. ASSUME NEW i \in Incidents, NEW ws \in Workstreams \union {NoScope}, WriteMarker(i, ws)
       PROVE  OnceInv'
  BY <1>6, <1>12 DEF WriteMarker, Unobserved
<1>13. ASSUME NEW a \in Actors, NEW l, PutLease(a, l),
              l = Gone \/ (l.rev = now /\ l.exp = now + TTL /\ (NobodyClaims => ~l.claim))
       PROVE  OnceInv'
  <2>1. /\ UNCHANGED <<scene, eng, out, now>> /\ lease' = [lease EXCEPT ![a] = l]
        /\ Lasting(lease', now)
    BY <1>13 DEF PutLease, Unobserved
  <2>2. LeaseWritten
    BY <1>13, <2>1, WrittenNow
  <2>3. now <= now'
    BY <1>1, <2>1
  <2> QED BY <1>3, <2>1, <2>2, <2>3, OnceStore
<1>14. ASSUME NEW a \in Actors, NEW claim \in BOOLEAN, NEW unknown \in BOOLEAN,
              Renew(a, claim, unknown)
       PROVE  OnceInv'
  <2> DEFINE l == [state |-> "working", rev |-> now, exp |-> now + TTL,
                   ws |-> member[a[1]].ws, claim |-> claim, unknown |-> unknown]
  <2>1. PutLease(a, l) /\ (claim => Does("claim", a))
    BY <1>14 DEF Renew
  <2>2. l.rev = now /\ l.exp = now + TTL /\ (NobodyClaims => ~l.claim)
    BY <2>1 DEF NobodyClaims
  <2> HIDE DEF l
  <2> QED BY <1>13, <2>1, <2>2
<1>15. ASSUME NEW a \in Actors, GoIdle(a) PROVE OnceInv'
  <2> DEFINE l == [state |-> "idle", rev |-> now, exp |-> now + TTL,
                   ws |-> lease[a].ws, claim |-> FALSE, unknown |-> FALSE]
  <2>1. PutLease(a, l)
    BY <1>15 DEF GoIdle
  <2>2. l.rev = now /\ l.exp = now + TTL /\ ~l.claim
    OBVIOUS
  <2> HIDE DEF l
  <2> QED BY <1>13, <2>1, <2>2
<1>16. ASSUME NEW a \in Actors, Reap(a) PROVE OnceInv'
  BY <1>13, <1>16 DEF Reap
<1>17. CASE (\E s \in Sessions : StartAwait(s)) \/ Await \/ FailScan
  BY <1>6, <1>17 DEF StartAwait, Await, FailScan, CheckBound, ReadEpoch, ScanUnread,
                     CheckEpoch, CheckTime, AwaitWakes, Awaiting, store
<1> QED BY <1>5, <1>7, <1>8, <1>9, <1>10, <1>11, <1>12, <1>14, <1>15, <1>16, <1>17 DEF Store

LEMMA NextOnce ==
  ASSUME WatchInv, WatchInv', OnceInv, [Next]_vars
  PROVE  OnceInv'
<1>1. CASE UNCHANGED vars
  <2>1. UNCHANGED <<scene, eng, out, now, lease, ghost>> /\ now \in Nat
    BY <1>1, TypesOnce DEF vars, store
  <2>2. SameWatch /\ LeaseWritten /\ now <= now'
    BY <2>1 DEF SameWatch, LeaseWritten
  <2> QED BY <2>1, <2>2, OnceStore
<1>2. ASSUME NEW w \in Sessions, Poll(w) \/ FailPoll(w) PROVE OnceInv'
  BY <1>2, StartPollOnce, ScanJoinsOnce, ConsumeFeedOnce, EndFeedsOnce, ScanIncidentsOnce,
     ReadLeaseOnce, JudgeLeasesOnce, FailPollOnce DEF Poll
<1> QED BY <1>1, <1>2, StoreOnce DEF Next

LEMMA InitOnce == Init => OnceInv
<1> SUFFICES ASSUME Init PROVE OnceInv
  OBVIOUS
<1>1. now = 0 /\ lease = [a \in Actors |-> Gone]
  BY DEF Init
<1>2. ASSUME NEW w \in Sessions PROVE Once(w, eng[w], ghost[w], out[w])
  <2>1. PICK e, g, o : e = eng[w] /\ g = ghost[w] /\ o = out[w]
    OBVIOUS
  <2>2. /\ e.pc = "start" /\ e.primed = FALSE /\ e.at = 0 /\ e.sink = {}
        /\ \A a \in Actors : e.snap[a] = Gone
    BY <2>1 DEF Init
  <2>3. g.armed = 0 /\ g.base = {} /\ g.again = {} /\ o = {}
    BY <2>1 DEF Init
  <2>4. EventsOnce(e, g, o)
    BY <2>2, <2>3 DEF EventsOnce, Remembered, NoLapse
  <2>5. PollTime(e, g)
    BY <1>1, <2>2, <2>3 DEF PollTime
  <2>6. LapsesOnce(w, e, g, o)
    BY <2>2, <2>3 DEF LapsesOnce, Leased, Old, HasRead
  <2> QED BY <2>1, <2>4, <2>5, <2>6 DEF Once
<1>3. \A a \in Actors : Leased(lease[a])
  BY <1>1 DEF Leased
<1> QED BY <1>2, <1>3 DEF OnceInv

LEMMA PagesNextOnce ==
  ASSUME PagesInv, PagesInv', OnceInv, [PagesNext]_allVars
  PROVE  OnceInv'
<1>1. WatchInv /\ WatchInv'
  BY DEF PagesInv, StoreOk
<1>2. CASE Pager
  <2>1. Paging
    BY <1>2 DEF Pager, Start, ReadFeed, ShowContext, BeginPage, ReadPinned, ListPage,
                FirstRecordPage, NextRecordPage, EvidencePage, ListStage, ReadHealthFile, EndStage
  <2>2. UNCHANGED <<scene, eng, out, now, lease, ghost>> /\ now \in Nat
    BY <1>1, <2>1, TypesOnce DEF Paging, store
  <2>3. SameWatch /\ LeaseWritten /\ now <= now'
    BY <2>2 DEF SameWatch, LeaseWritten
  <2> QED BY <1>1, <2>2, <2>3, OnceStore
<1>3. CASE [Next]_vars
  BY <1>1, <1>3, NextOnce
<1> QED BY <1>2, <1>3 DEF PagesNext, StoreStep, WritePart, HealTail, allVars

(* What holds whether or not claims are made *)
ToldOnce ==
    \A w \in Sessions :
        /\ \A x \in ghost[w].again \union (out[w] \intersect ghost[w].base) :
              x \in Repeats(ghost[w]) \/ x \in Clash
        /\ \A a \in Actors, r \in 0..MaxTime :
              <<"stale", a, r>> \in out[w] => r + TTL >= ghost[w].armed

LEMMA OnceTold == OnceInv => ToldOnce
BY DEF OnceInv, Once, EventsOnce, LapsesOnce, ToldOnce

LEMMA OnceImplies == WatchInv /\ OnceInv => (NobodyClaims => DeliveredOnce)
<1> SUFFICES ASSUME WatchInv, OnceInv, NobodyClaims, NEW w \in Sessions
             PROVE  /\ \A x \in ghost[w].again \union (out[w] \intersect ghost[w].base) :
                          x \in Repeats(ghost[w])
                    /\ \A x \in out[w] : x[1] = "stale" => x[3] + TTL >= ghost[w].armed
  BY DEF DeliveredOnce, Repeats
<1>1. EventsOnce(eng[w], ghost[w], out[w]) /\ LapsesOnce(w, eng[w], ghost[w], out[w])
  BY DEF OnceInv, Once
<1>2. \A x \in ghost[w].again \union (out[w] \intersect ghost[w].base) : x \in Repeats(ghost[w])
  BY <1>1 DEF EventsOnce
<1>3. ASSUME NEW x \in out[w], x[1] = "stale" PROVE x[3] + TTL >= ghost[w].armed
  <2>1. x \in Events
    BY DEF WatchInv, WatcherTypes
  <2>2. x = <<"stale", x[2], x[3]>> /\ x[2] \in Actors /\ x[3] \in 0..MaxTime
    BY <1>3, <2>1 DEF Events
  <2> QED BY <1>1, <1>3, <2>2 DEF LapsesOnce
<1> QED BY <1>2, <1>3

LEMMA OnceAlways == PagesSpec => [](PagesInv /\ OnceInv)
<1>1. PagesSpec => []PagesInv
  BY PagesInitInv, PagesNextInv, PTL DEF PagesSpec
<1>2. PagesInit => OnceInv
  BY InitOnce DEF PagesInit
<1>3. PagesInv /\ PagesInv' /\ OnceInv /\ [PagesNext]_allVars => OnceInv'
  BY PagesNextOnce
<1> QED BY <1>1, <1>2, <1>3, PTL DEF PagesSpec

(* Whatever is claimed, the only things a watcher tells again are the turns of
   a feed that was rebuilt and overlaps: no join, no incident, no turn of
   another feed and no lapse of a lease is printed a second time or after the
   baseline had it, whatever a failed poll took with it and however the leases
   are renewed, reaped and made again between the reads of a scan; and no
   lapse is told that was over when the watch was armed. *)
THEOREM TellsOnce == PagesSpec => []ToldOnce
BY OnceAlways, OnceTold, PTL

(* Where nobody claims a path there are no overlaps, and a watcher reports a
   thing once without exception but the feed that was rebuilt. *)
THEOREM DeliversOnce == PagesSpec => [](NobodyClaims => DeliveredOnce)
<1>1. PagesInv /\ OnceInv => (NobodyClaims => DeliveredOnce)
  BY OnceImplies DEF PagesInv, StoreOk
<1> QED BY <1>1, OnceAlways, PTL

-----------------------------------------------------------------------------
(* What a session answers *)

(* The events of E that are turns stand in their feeds, and people asked for
   them. *)
Genuine(E) ==
    /\ IsFiniteSet(E)
    /\ \A s \in Sessions, n \in 1..MaxTurns :
          <<"turn", s, n>> \in E => n <= Len(turns[s]) /\ ByPerson(turns[s][n])

(* No feed was taken for a rebuilt one, and the scan of the feeds has listed
   every feed the watcher has a cursor of. *)
NeverRebuilt(e, g) ==
    /\ g.rebuilt = {}
    /\ \A s \in Sessions : e.cur[s] <= Published(s)
    /\ e.pc = "feeds" => /\ e.left \subseteq e.listed
                         /\ \A s \in Sessions : e.cur[s] > 0 => s \in e.listed

(* What a session answered, and a wake-up it may yet answer *)
Answers(w) == {n \in DOMAIN turns[w] : ~ByPerson(turns[w][n])}

Caused(w, g, o) ==
    Cardinality(Answers(w)) + (IF g.woken THEN 1 ELSE 0) <= Cardinality(o)

Heard(w, e, g, o) ==
    NeverRebuilt(e, g) /\ Genuine(o) /\ Genuine(e.sink) /\ Caused(w, g, o)

HeardInv ==
    /\ IsFiniteSet({i \in Incidents : marker[i] # Gone})
    /\ \A w \in Sessions : Heard(w, eng[w], ghost[w], out[w])

LEMMA ImageIsFinite ==
  ASSUME NEW S, IsFiniteSet(S), NEW V, NEW f \in [S -> V]
  PROVE  IsFiniteSet({f[x] : x \in S})
<1> DEFINE T == {f[x] : x \in S}
<1>1. f \in Surjection(S, T)
  BY DEF Surjection
<1> HIDE DEF T
<1>2. IsFiniteSet(T)
  BY <1>1, FS_Surjection
<1> QED BY <1>2 DEF T

LEMMA GenuineParts ==
  ASSUME NEW E, Genuine(E), NEW F, F \subseteq E
  PROVE  Genuine(F)
BY FS_Subset DEF Genuine

LEMMA GenuineBoth ==
  ASSUME NEW E, Genuine(E), NEW F, Genuine(F)
  PROVE  Genuine(E \union F)
<1>1. IsFiniteSet(E \union F)
  BY FS_Union DEF Genuine
<1> QED BY <1>1 DEF Genuine

(* Events that are not turns *)
LEMMA OthersGenuine ==
  ASSUME NEW E, IsFiniteSet(E), \A x \in E : x[1] # "turn"
  PROVE  Genuine(E)
<1>1. \A s \in Sessions, n \in 1..MaxTurns : <<"turn", s, n>> \notin E
  OBVIOUS
<1> QED BY <1>1 DEF Genuine

LEMMA NoneGenuine == Genuine({})
BY OthersGenuine, FS_EmptySet

(* The events of a scan join those of its poll. *)
LEMMA CollectGenuine ==
  ASSUME NEW w \in Sessions, Genuine(eng[w].sink), NEW found, Genuine(found)
  PROVE  Genuine(Collect(w, found))
BY GenuineBoth, NoneGenuine DEF Collect

LEMMA AnswersAre ==
  ASSUME StoreTypes, NEW w \in Sessions
  PROVE  /\ Answers(w) = {n \in 1..Len(turns[w]) : ~ByPerson(turns[w][n])}
         /\ IsFiniteSet(Answers(w)) /\ Cardinality(Answers(w)) \in Nat
<1>1. turns[w] \in Seq(Turn) /\ Len(turns[w]) \in Nat
  BY DEF StoreTypes
<1>2. DOMAIN turns[w] = 1..Len(turns[w])
  BY <1>1
<1>3. IsFiniteSet(1..Len(turns[w]))
  BY <1>1, FS_Interval
<1>4. Answers(w) = {n \in 1..Len(turns[w]) : ~ByPerson(turns[w][n])}
  BY <1>2 DEF Answers
<1>5. IsFiniteSet(Answers(w))
  BY <1>3, <1>4, FS_Subset
<1> QED BY <1>4, <1>5, FS_CardinalityType

(* A turn that is appended *)
LEMMA AnswersAppend ==
  ASSUME StoreTypes, StoreTypes', NEW s \in Sessions, NEW t \in Turn,
         turns' = [turns EXCEPT ![s] = Append(@, t)]
  PROVE  /\ \A w \in Sessions \ {s} : Answers(w)' = Answers(w)
         /\ Answers(s)' = IF ByPerson(t) THEN Answers(s)
                          ELSE Answers(s) \union {Len(turns[s]) + 1}
         /\ Len(turns[s]) + 1 \notin Answers(s)
<1>1. turns \in [Sessions -> Seq(Turn)]
  BY DEF StoreTypes
<1>2. \A w \in Sessions \ {s} : turns'[w] = turns[w]
  BY <1>1
<1>3. turns'[s] = Append(turns[s], t)
  BY <1>1
<1>4. /\ turns[s] \in Seq(Turn) /\ Len(turns[s]) \in Nat
      /\ Len(Append(turns[s], t)) = Len(turns[s]) + 1
      /\ \A n \in 1..Len(turns[s]) : Append(turns[s], t)[n] = turns[s][n]
      /\ Append(turns[s], t)[Len(turns[s]) + 1] = t
  BY <1>1
<1>5. PICK k \in Nat : k = Len(turns[s])
  BY <1>4
<1>6. PICK q : q = turns'[s]
  OBVIOUS
<1>7. Len(q) = k + 1 /\ q[k + 1] = t /\ \A n \in 1..k : q[n] = turns[s][n]
  BY <1>3, <1>4, <1>5, <1>6
<1>8. Answers(s) = {n \in 1..k : ~ByPerson(turns[s][n])}
  BY <1>5, AnswersAre
<1>9. Answers(s)' = {n \in 1..k + 1 : ~ByPerson(q[n])}
  <2>1. Answers(s)' = {n \in DOMAIN q : ~ByPerson(q[n])}
    BY <1>6 DEF Answers, ByPerson
  <2>2. q \in Seq(Turn)
    BY <1>6 DEF StoreTypes
  <2>3. DOMAIN q = 1..k + 1
    BY <1>7, <2>2
  <2> QED BY <2>1, <2>3
<1>10. Answers(s)' = IF ByPerson(t) THEN Answers(s) ELSE Answers(s) \union {k + 1}
  <2>1. 1..k + 1 = (1..k) \union {k + 1} /\ k + 1 \notin 1..k
    BY <1>5
  <2> QED BY <1>7, <1>8, <1>9, <2>1
<1>11. k + 1 \notin Answers(s)
  BY <1>5, <1>8
<1>12. \A w \in Sessions \ {s} : Answers(w)' = Answers(w)
  BY <1>2 DEF Answers
<1> QED BY <1>5, <1>10, <1>11, <1>12

(* A step of the store in which a session answers no more than woke it *)
LEMMA HeardStore ==
  ASSUME WatchInv, WatchInv', HeardInv, UNCHANGED <<scene, eng, out>>, Grown, SameHistory,
         \A f \in Sessions : Published(f) \in Nat /\ Published(f) <= Published(f)',
         IsFiniteSet({i \in Incidents : marker'[i] # Gone}),
         \A w \in Sessions : Caused(w, ghost[w], out[w])'
  PROVE  HeardInv'
<1>1. \A E : Genuine(E) => Genuine(E)'
  <2> SUFFICES ASSUME NEW E, Genuine(E) PROVE Genuine(E)'
    OBVIOUS
  <2>1. ASSUME NEW s \in Sessions, NEW n \in 1..MaxTurns, <<"turn", s, n>> \in E
        PROVE  n <= Len(turns'[s]) /\ ByPerson(turns'[s][n])
    <3>1. n <= Len(turns[s]) /\ ByPerson(turns[s][n]) /\ n \in Nat /\ n >= 1
      BY <2>1, WatchAssumption DEF Genuine
    <3>2. Len(turns[s]) \in Nat /\ Len(turns'[s]) \in Nat /\ Len(turns[s]) <= Len(turns'[s])
      BY DEF WatchInv, StoreTypes, Grown
    <3>3. n \in 1..Len(turns[s])
      BY <3>1, <3>2
    <3>4. turns'[s][n] = turns[s][n]
      BY <3>3 DEF Grown
    <3> QED BY <3>1, <3>2, <3>4
  <2>2. IsFiniteSet(E)
    BY DEF Genuine
  <2> QED BY <2>1, <2>2 DEF Genuine, ByPerson
<1>2. ASSUME NEW w \in Sessions PROVE Heard(w, eng[w], ghost[w], out[w])'
  <2>1. PICK e, o : e = eng[w] /\ o = out[w] /\ e \in Memory
    BY DEF WatchInv, WatcherTypes
  <2>2. NeverRebuilt(e, ghost[w]) /\ Genuine(o) /\ Genuine(e.sink)
    BY <2>1 DEF HeardInv, Heard
  <2>3. \A s \in Sessions : e.cur[s] <= Published(s)'
    <3> SUFFICES ASSUME NEW s \in Sessions PROVE e.cur[s] <= Published(s)'
      OBVIOUS
    <3>1. e.cur[s] \in Nat /\ Published(s) \in Nat /\ Published(s)' \in Nat
      <4>1. Published(s)' \in Nat
        BY DEF WatchInv, StoreTypes, Published
      <4> QED BY <2>1, <4>1 DEF Memory
    <3> QED BY <2>2, <3>1 DEF NeverRebuilt
  <2>4. ghost'[w].rebuilt = {}
    BY <2>2 DEF NeverRebuilt, SameHistory
  <2>5. e = eng'[w] /\ o = out'[w]
    BY <2>1
  <2>6. NeverRebuilt(eng[w], ghost[w])'
    BY <2>2, <2>3, <2>4, <2>5 DEF NeverRebuilt, Published
  <2>7. Genuine(out[w])' /\ Genuine(eng[w].sink)'
    BY <1>1, <2>2, <2>5 DEF Genuine, ByPerson
  <2> QED BY <2>6, <2>7 DEF Heard
<1> QED BY <1>2 DEF HeardInv

(* A step of watcher w *)
LEMMA HeardWatcher ==
  ASSUME WatchInv, WatchInv', HeardInv, NEW w \in Sessions, UNCHANGED <<scene, store>>,
         \A v \in Sessions \ {w} : UNCHANGED <<eng[v], ghost[v], out[v]>>,
         NEW d \in Memory, NEW h \in History, NEW p \in SUBSET Events,
         eng'[w] = d, ghost'[w] = h, out'[w] = p, Heard(w, d, h, p)
  PROVE  HeardInv'
<1>1. UNCHANGED <<turns, feed, marker>>
  BY DEF store
<1>2. ASSUME NEW v \in Sessions PROVE Heard(v, eng[v], ghost[v], out[v])'
  <2>1. PICK e, g, o : e = eng'[v] /\ g = ghost'[v] /\ o = out'[v]
    OBVIOUS
  <2>2. Heard(v, e, g, o)
    <3>1. CASE v = w
      <4>1. e = d /\ g = h /\ o = p
        BY <2>1, <3>1
      <4> QED BY <3>1, <4>1
    <3>2. CASE v # w
      <4>1. e = eng[v] /\ g = ghost[v] /\ o = out[v]
        BY <2>1, <3>2
      <4> QED BY <4>1 DEF HeardInv
    <3> QED BY <3>1, <3>2
  <2> QED BY <1>1, <2>1, <2>2 DEF Heard, NeverRebuilt, Genuine, Caused, Answers, ByPerson,
                                  Published
<1> QED BY <1>1, <1>2 DEF HeardInv

(* The parts of a watcher before and after its step *)
LEMMA HeardParts ==
  ASSUME WatchInv, WatchInv', HeardInv, NEW w \in Sessions
  PROVE  /\ \E e \in Memory, g \in History, o \in SUBSET Events :
              /\ e = eng[w] /\ g = ghost[w] /\ o = out[w]
              /\ NeverRebuilt(e, g) /\ Genuine(o) /\ Genuine(e.sink) /\ Caused(w, g, o)
              /\ Bounds(w, e)
         /\ \E d \in Memory, h \in History, p \in SUBSET Events :
              d = eng'[w] /\ h = ghost'[w] /\ p = out'[w]
<1>1. /\ eng[w] \in Memory /\ ghost[w] \in History /\ out[w] \in SUBSET Events
      /\ eng'[w] \in Memory /\ ghost'[w] \in History /\ out'[w] \in SUBSET Events
  BY DEF WatchInv, WatcherTypes
<1>2. Bounds(w, eng[w]) /\ Heard(w, eng[w], ghost[w], out[w])
  BY DEF WatchInv, Remembers, HeardInv
<1> QED BY <1>1, <1>2 DEF Heard

LEMMA HeardStill ==
  ASSUME WatchInv, WatchInv', HeardInv, NEW w \in Sessions,
         StartPoll(w) \/ FailPoll(w) \/ \E a \in Actors : ReadLease(w, a)
  PROVE  HeardInv'
<1>1. PICK e \in Memory, g \in History, o \in SUBSET Events :
         /\ e = eng[w] /\ g = ghost[w] /\ o = out[w]
         /\ NeverRebuilt(e, g) /\ Genuine(o) /\ Genuine(e.sink) /\ Caused(w, g, o)
         /\ Bounds(w, e)
  BY HeardParts
<1>2. PICK d \in Memory, h \in History, p \in SUBSET Events :
         d = eng'[w] /\ h = ghost'[w] /\ p = out'[w]
  BY HeardParts
<1>3. /\ p = o /\ UNCHANGED <<scene, store>>
      /\ \A v \in Sessions \ {w} : UNCHANGED <<eng[v], ghost[v], out[v]>>
  BY <1>1, <1>2, OnceTypes DEF StartPoll, FailPoll, ReadLease, Observing
<1>4. d.pc # "feeds" /\ d.cur = e.cur /\ d.sink \in {e.sink, {}}
  <2>1. CASE StartPoll(w)
    BY <1>1, <1>2, <2>1, OnceTypes DEF StartPoll, Memory
  <2>2. CASE FailPoll(w)
    <3>1. /\ d.pc = IF ~e.primed \/ e.errors + 1 >= MaxErrors THEN "over" ELSE "sleep"
          /\ d.cur = e.cur /\ d.sink = {}
      BY <1>1, <1>2, <2>2, OnceTypes DEF FailPoll, Memory
    <3> QED BY <3>1
  <2>3. ASSUME NEW a \in Actors, ReadLease(w, a)
        PROVE  d.pc # "feeds" /\ d.cur = e.cur /\ d.sink = e.sink
    BY <1>1, <1>2, <2>3, OnceTypes DEF ReadLease, Memory
  <2> QED BY <2>1, <2>2, <2>3
<1>5. h.rebuilt = g.rebuilt /\ h.woken = g.woken
  <2>1. CASE StartPoll(w)
    BY <1>1, <1>2, <2>1, OnceTypes DEF StartPoll, History
  <2>2. CASE FailPoll(w)
    BY <1>1, <1>2, <2>2, OnceTypes DEF FailPoll, History
  <2>3. ASSUME NEW a \in Actors, ReadLease(w, a)
        PROVE  h = g
    BY <1>1, <1>2, <2>3 DEF ReadLease
  <2> QED BY <2>1, <2>2, <2>3
<1>6. NeverRebuilt(d, h) /\ Caused(w, h, p)
  BY <1>1, <1>3, <1>4, <1>5 DEF NeverRebuilt, Caused
<1>7. Genuine(p) /\ Genuine(d.sink)
  BY <1>1, <1>3, <1>4, NoneGenuine
<1> QED BY <1>2, <1>3, <1>6, <1>7, HeardWatcher DEF Heard

LEMMA ScanJoinsHeard ==
  ASSUME WatchInv, WatchInv', HeardInv, NEW w \in Sessions, ScanJoins(w) PROVE HeardInv'
<1>1. PICK e \in Memory, g \in History, o \in SUBSET Events :
         /\ e = eng[w] /\ g = ghost[w] /\ o = out[w]
         /\ NeverRebuilt(e, g) /\ Genuine(o) /\ Genuine(e.sink) /\ Caused(w, g, o)
         /\ Bounds(w, e)
  BY HeardParts
<1>2. PICK d \in Memory, h \in History, p \in SUBSET Events :
         d = eng'[w] /\ h = ghost'[w] /\ p = out'[w]
  BY HeardParts
<1>3. /\ p = o /\ UNCHANGED <<scene, store>>
      /\ \A v \in Sessions \ {w} : UNCHANGED <<eng[v], ghost[v], out[v]>>
  BY <1>1, <1>2, OnceTypes DEF ScanJoins, Observing
<1> DEFINE found == {<<"join", j[1], j[2]>> :
                        j \in {k \in Joined \ e.known : k[1] # w /\ InScope(k[2])}}
<1>4. /\ d.listed = Listed(w) /\ d.left = Listed(w) /\ d.cur = e.cur
      /\ d.sink = Collect(w, found)
  BY <1>1, <1>2, OnceTypes DEF ScanJoins, Memory
<1>5. h.rebuilt = g.rebuilt /\ h.woken = g.woken
  BY <1>1, <1>2, OnceTypes DEF ScanJoins, History
<1>6. Genuine(found)
  <2> DEFINE f == [s \in Sessions |-> <<"join", s, member[s].ws>>]
             T == {f[s] : s \in Sessions}
  <2>1. IsFiniteSet(T)
    <3>1. f \in [Sessions -> {<<"join", s, member[s].ws>> : s \in Sessions}]
      OBVIOUS
    <3>2. IsFiniteSet(Sessions)
      BY WatchAssumption
    <3> HIDE DEF f
    <3>3. IsFiniteSet({f[x] : x \in Sessions})
      BY <3>1, <3>2, ImageIsFinite
    <3> QED BY <3>3
  <2>2. found \subseteq T
    BY DEF Joined
  <2>3. IsFiniteSet(found)
    BY <2>1, <2>2, FS_Subset
  <2>4. \A x \in found : x[1] # "turn"
    OBVIOUS
  <2> QED BY <2>3, <2>4, OthersGenuine
<1>7. Genuine(d.sink)
  BY <1>1, <1>4, <1>6, CollectGenuine
<1>8. NeverRebuilt(d, h)
  <2>1. ASSUME NEW s \in Sessions, e.cur[s] > 0 PROVE s \in Listed(w)
    <3>1. e.cur[s] <= Published(s) /\ e.cur[w] = 0
      BY <1>1 DEF NeverRebuilt, Bounds
    <3>2. feed[s] # Gone
      BY <2>1, <3>1 DEF Published, Memory
    <3> QED BY <2>1, <3>1, <3>2 DEF Listed
  <2> QED BY <1>1, <1>4, <1>5, <2>1 DEF NeverRebuilt
<1>9. Caused(w, h, p)
  BY <1>1, <1>3, <1>5 DEF Caused
<1> QED BY <1>1, <1>2, <1>3, <1>7, <1>8, <1>9, HeardWatcher DEF Heard

LEMMA NewsGenuine ==
  ASSUME StoreTypes, NEW w \in Sessions, NEW s \in Sessions, NEW from \in Nat,
         NEW to \in Nat, to <= Len(turns[s])
  PROVE  Genuine(News(w, s, from, to))
<1> DEFINE f == [n \in 1..to |-> <<"turn", s, n>>]
           T == {f[n] : n \in 1..to}
<1>1. IsFiniteSet(T)
  <2>1. IsFiniteSet(1..to)
    BY FS_Interval
  <2>2. f \in [1..to -> {<<"turn", s, n>> : n \in 1..to}]
    OBVIOUS
  <2> HIDE DEF f
  <2>3. IsFiniteSet({f[x] : x \in 1..to})
    BY <2>1, <2>2, ImageIsFinite
  <2> QED BY <2>3
<1>2. ASSUME NEW x \in News(w, s, from, to)
      PROVE  /\ x \in T /\ x[2] = s /\ x[3] <= Len(turns[s]) /\ ByPerson(turns[s][x[3]])
  <2>1. PICK n \in from + 1 .. to : x = <<"turn", s, n>> /\ ~IsEchoTurn(turns[s][n])
    BY DEF News
  <2>2. n \in 1..to /\ n <= Len(turns[s]) /\ Len(turns[s]) \in Nat
    BY DEF StoreTypes
  <2>3. turns[s][n] \in Turn
    BY <2>2 DEF StoreTypes
  <2>4. ByPerson(turns[s][n])
    BY <2>1, <2>3 DEF ByPerson, IsEchoTurn, Turn
  <2>5. x = f[n]
    BY <2>1, <2>2
  <2> QED BY <2>1, <2>2, <2>4, <2>5
<1>3. IsFiniteSet(News(w, s, from, to))
  BY <1>1, <1>2, FS_Subset
<1>4. ASSUME NEW v \in Sessions, NEW n \in 1..MaxTurns, <<"turn", v, n>> \in News(w, s, from, to)
      PROVE  n <= Len(turns[v]) /\ ByPerson(turns[v][n])
  <2>1. PICK x \in News(w, s, from, to) : x = <<"turn", v, n>>
    BY <1>4
  <2>2. x[2] = v /\ x[3] = n
    BY <2>1
  <2> QED BY <1>2, <2>2
<1> QED BY <1>3, <1>4 DEF Genuine

LEMMA ConsumeFeedHeard ==
  ASSUME WatchInv, WatchInv', HeardInv, NEW w \in Sessions, NEW s \in Sessions,
         ConsumeFeed(w, s)
  PROVE  HeardInv'
<1>1. PICK e \in Memory, g \in History, o \in SUBSET Events :
         /\ e = eng[w] /\ g = ghost[w] /\ o = out[w]
         /\ NeverRebuilt(e, g) /\ Genuine(o) /\ Genuine(e.sink) /\ Caused(w, g, o)
         /\ Bounds(w, e)
  BY HeardParts
<1>2. PICK d \in Memory, h \in History, p \in SUBSET Events :
         d = eng'[w] /\ h = ghost'[w] /\ p = out'[w]
  BY HeardParts
<1>3. /\ e.pc = "feeds" /\ s \in e.left /\ p = o /\ UNCHANGED <<scene, store>>
      /\ \A v \in Sessions \ {w} : UNCHANGED <<eng[v], ghost[v], out[v]>>
  BY <1>1, <1>2, OnceTypes DEF ConsumeFeed, Observing
<1>4. PICK f \in Nat \union {Gone} : f = feed[s] /\ (f # Gone => f <= Len(turns[s]))
  BY DEF WatchInv, StoreTypes
<1>5. PICK from \in Nat : from = e.cur[s]
  BY DEF Memory
<1>6. f # Gone => from <= f
  <2>1. e.cur[s] <= Published(s)
    BY <1>1 DEF NeverRebuilt
  <2> QED BY <1>4, <1>5, <2>1 DEF Published
<1>7. ~(f # Gone /\ f < from)
  BY <1>4, <1>6
<1>8. /\ d.pc = "feeds" /\ d.left = e.left \ {s} /\ d.listed = e.listed
      /\ d.cur = [e.cur EXCEPT ![s] = IF f = Gone THEN from ELSE f]
      /\ d.sink = IF f = Gone THEN e.sink ELSE Collect(w, News(w, s, from, f))
  BY <1>1, <1>2, <1>3, <1>4, <1>5, <1>7, OnceTypes DEF ConsumeFeed, Memory
<1>9. h.rebuilt = g.rebuilt /\ h.woken = g.woken
  BY <1>1, <1>2, <1>4, <1>5, <1>7, OnceTypes DEF ConsumeFeed, History
<1>10. Genuine(d.sink)
  <2>1. CASE f = Gone
    BY <1>1, <1>8, <2>1
  <2>2. CASE f # Gone
    <3>1. Genuine(News(w, s, from, f))
      BY <1>4, <2>2, NewsGenuine DEF WatchInv
    <3> QED BY <1>1, <1>8, <2>2, <3>1, CollectGenuine
  <2> QED BY <2>1, <2>2
<1>11. NeverRebuilt(d, h)
  <2>1. ASSUME NEW v \in Sessions
        PROVE  d.cur[v] <= Published(v) /\ (d.cur[v] > 0 => v \in d.listed)
    <3>1. e.cur \in [Sessions -> Nat]
      BY DEF Memory
    <3>2. CASE v # s
      BY <1>1, <1>3, <1>8, <3>1, <3>2 DEF NeverRebuilt
    <3>3. CASE v = s
      <4>1. d.cur[s] = IF f = Gone THEN from ELSE f
        BY <1>8, <3>1
      <4>2. d.cur[s] <= Published(s)
        <5>1. CASE f = Gone
          BY <1>1, <1>5, <4>1, <5>1 DEF NeverRebuilt
        <5>2. CASE f # Gone
          <6>1. Published(s) = f /\ f \in Nat
            BY <1>4, <5>2 DEF Published
          <6> QED BY <4>1, <5>2, <6>1
        <5> QED BY <5>1, <5>2
      <4>3. s \in d.listed
        BY <1>1, <1>3, <1>8 DEF NeverRebuilt
      <4> QED BY <3>3, <4>2, <4>3
    <3> QED BY <3>2, <3>3
  <2>2. d.left \subseteq d.listed
    BY <1>1, <1>3, <1>8 DEF NeverRebuilt
  <2> QED BY <1>1, <1>9, <2>1, <2>2 DEF NeverRebuilt
<1>12. Caused(w, h, p)
  BY <1>1, <1>3, <1>9 DEF Caused
<1> QED BY <1>1, <1>2, <1>3, <1>10, <1>11, <1>12, HeardWatcher DEF Heard

LEMMA EndFeedsHeard ==
  ASSUME WatchInv, WatchInv', HeardInv, NEW w \in Sessions, EndFeeds(w) PROVE HeardInv'
<1>1. PICK e \in Memory, g \in History, o \in SUBSET Events :
         /\ e = eng[w] /\ g = ghost[w] /\ o = out[w]
         /\ NeverRebuilt(e, g) /\ Genuine(o) /\ Genuine(e.sink) /\ Caused(w, g, o)
         /\ Bounds(w, e)
  BY HeardParts
<1>2. PICK d \in Memory, h \in History, p \in SUBSET Events :
         d = eng'[w] /\ h = ghost'[w] /\ p = out'[w]
  BY HeardParts
<1>3. /\ e.pc = "feeds" /\ p = o /\ UNCHANGED <<scene, store>>
      /\ \A v \in Sessions \ {w} : UNCHANGED <<eng[v], ghost[v], out[v]>>
  BY <1>1, <1>2, OnceTypes DEF EndFeeds, Observing
<1> DEFINE dropped == {s \in Sessions : e.cur[s] > 0} \ e.listed
<1>4. dropped = {}
  BY <1>1, <1>3 DEF NeverRebuilt
<1>5. /\ d.pc = "incidents" /\ d.sink = e.sink
      /\ d.cur = [s \in Sessions |-> IF s \in dropped THEN 0 ELSE e.cur[s]]
  BY <1>1, <1>2, OnceTypes DEF EndFeeds, Memory
<1>6. h.rebuilt = g.rebuilt \union dropped /\ h.woken = g.woken
  BY <1>1, <1>2, OnceTypes DEF EndFeeds, History
<1> HIDE DEF dropped
<1>7. NeverRebuilt(d, h)
  BY <1>1, <1>4, <1>5, <1>6 DEF NeverRebuilt
<1>8. Caused(w, h, p) /\ Genuine(p) /\ Genuine(d.sink)
  BY <1>1, <1>3, <1>5, <1>6 DEF Caused
<1> QED BY <1>2, <1>3, <1>7, <1>8, HeardWatcher DEF Heard

LEMMA ScanIncidentsHeard ==
  ASSUME WatchInv, WatchInv', HeardInv, NEW w \in Sessions, ScanIncidents(w) PROVE HeardInv'
<1>1. PICK e \in Memory, g \in History, o \in SUBSET Events :
         /\ e = eng[w] /\ g = ghost[w] /\ o = out[w]
         /\ NeverRebuilt(e, g) /\ Genuine(o) /\ Genuine(e.sink) /\ Caused(w, g, o)
         /\ Bounds(w, e)
  BY HeardParts
<1>2. PICK d \in Memory, h \in History, p \in SUBSET Events :
         d = eng'[w] /\ h = ghost'[w] /\ p = out'[w]
  BY HeardParts
<1>3. /\ p = o /\ UNCHANGED <<scene, store>>
      /\ \A v \in Sessions \ {w} : UNCHANGED <<eng[v], ghost[v], out[v]>>
  BY <1>1, <1>2, OnceTypes DEF ScanIncidents, Observing
<1> DEFINE complete == {i \in Incidents : marker[i] \notin {Gone, "empty"}}
           found == {<<"incident", i>> : i \in {j \in complete \ e.seen :
                                                  marker[j] = NoScope \/ InScope(marker[j])}}
<1>4. d.pc = "leases" /\ d.cur = e.cur /\ d.sink = Collect(w, found)
  <2> DEFINE s == e.seen \union (complete \ e.seen)
             l == {a \in Actors : lease[a] # Gone}
             n == [a \in Actors |-> Gone]
             c == Collect(w, found)
  <2>1. eng' = [eng EXCEPT ![w].pc = "leases", ![w].seen = s, ![w].left = l,
                           ![w].snap = n, ![w].sink = c]
    BY <1>1 DEF ScanIncidents
  <2> HIDE DEF s, l, n, c
  <2>2. d.pc = "leases" /\ d.cur = e.cur /\ d.sink = c
    BY <1>1, <1>2, <2>1, OnceTypes DEF Memory
  <2> QED BY <2>2 DEF c
<1>5. h.rebuilt = g.rebuilt /\ h.woken = g.woken
  BY <1>1, <1>2, OnceTypes DEF ScanIncidents, History
<1>6. Genuine(found)
  <2> DEFINE S == {i \in Incidents : marker[i] # Gone}
             f == [i \in S |-> <<"incident", i>>]
  <2>1. IsFiniteSet(S)
    BY DEF HeardInv
  <2>2. found \subseteq {f[i] : i \in S}
    OBVIOUS
  <2>3. f \in [S -> {<<"incident", i>> : i \in S}]
    OBVIOUS
  <2>4. \A x \in found : x[1] # "turn"
    OBVIOUS
  <2> HIDE DEF S, f, found
  <2>5. IsFiniteSet({f[i] : i \in S})
    BY <2>1, <2>3, ImageIsFinite
  <2>6. IsFiniteSet(found)
    BY <2>2, <2>5, FS_Subset
  <2> QED BY <2>4, <2>6, OthersGenuine
<1> HIDE DEF found
<1>7. Genuine(d.sink)
  BY <1>1, <1>4, <1>6, CollectGenuine
<1>8. NeverRebuilt(d, h) /\ Caused(w, h, p)
  BY <1>1, <1>3, <1>4, <1>5 DEF NeverRebuilt, Caused
<1> QED BY <1>1, <1>2, <1>3, <1>7, <1>8, HeardWatcher DEF Heard

LEMMA ActorsFinite == IsFiniteSet(Actors)
<1>1. IsFiniteSet({"main", "child"})
  <2>1. {"main", "child"} = {"main"} \union {"child"}
    OBVIOUS
  <2>2. IsFiniteSet({"main"}) /\ IsFiniteSet({"child"})
    BY FS_Singleton
  <2> QED BY <2>1, <2>2, FS_Union
<1>2. IsFiniteSet(Sessions)
  BY WatchAssumption
<1> QED BY <1>1, <1>2, FS_Product DEF Actors

(* What is printed for the first time raises the number of things printed. *)
LEMMA PrintedMore ==
  ASSUME NEW o, IsFiniteSet(o), NEW E, IsFiniteSet(E)
  PROVE  /\ IsFiniteSet(o \union E) /\ Cardinality(o) \in Nat /\ Cardinality(o \union E) \in Nat
         /\ Cardinality(o) <= Cardinality(o \union E)
         /\ E \ o # {} => Cardinality(o) + 1 <= Cardinality(o \union E)
<1>1. IsFiniteSet(o \union E)
  BY FS_Union
<1>2. Cardinality(o) \in Nat /\ Cardinality(o \union E) \in Nat
  BY <1>1, FS_CardinalityType
<1>3. Cardinality(o) <= Cardinality(o \union E)
  BY <1>1, FS_Subset
<1>4. ASSUME NEW x \in E, x \notin o PROVE Cardinality(o) + 1 <= Cardinality(o \union E)
  <2>1. Cardinality(o \union {x}) = Cardinality(o) + 1
    BY <1>4, FS_AddElement
  <2>2. o \union {x} \in SUBSET (o \union E)
    BY <1>4
  <2>3. Cardinality(o \union {x}) <= Cardinality(o \union E)
    BY <1>1, <2>2, FS_Subset
  <2> QED BY <2>1, <2>3
<1> QED BY <1>1, <1>2, <1>3, <1>4

(* A poll wakes its session only with something that was not printed before. *)
LEMMA JudgeLeasesHeard ==
  ASSUME WatchInv, WatchInv', OnceInv, OnceInv', NobodyClaims, HeardInv,
         NEW w \in Sessions, JudgeLeases(w)
  PROVE  HeardInv'
<1>1. PICK e \in Memory, g \in History, o \in SUBSET Events :
         /\ e = eng[w] /\ g = ghost[w] /\ o = out[w]
         /\ NeverRebuilt(e, g) /\ Genuine(o) /\ Genuine(e.sink) /\ Caused(w, g, o)
         /\ Bounds(w, e)
  BY HeardParts
<1>2. PICK d \in Memory, h \in History, p \in SUBSET Events :
         d = eng'[w] /\ h = ghost'[w] /\ p = out'[w]
  BY HeardParts
<1> DEFINE found == Overlaps(e.snap, e.at)
           stale == {<<"stale", a, e.snap[a].rev>> :
                        a \in {b \in Actors : WorthTelling(w, b)}}
           events == Collect(w, stale)
           clash == IF e.primed THEN found \ e.conf ELSE {}
           again == g.again \union (events \intersect o) \union (clash \intersect g.told)
           woken == g.woken \/ events # {} \/ clash # {}
           lapses == [a \in Actors |->
                    IF e.snap[a] = Gone \/ a[1] = w THEN Gone
                    ELSE [rev |-> e.snap[a].rev,
                          reported |-> Lapsed(w, a) \/ Reported(w, a)]]
           none == [a \in Actors |-> Gone]
<1>3. /\ p = o \union events /\ UNCHANGED <<scene, store>>
      /\ \A v \in Sessions \ {w} : UNCHANGED <<eng[v], ghost[v], out[v]>>
  BY <1>1, <1>2, OnceTypes DEF JudgeLeases, Observing
<1>4. eng' = [eng EXCEPT ![w].pc = "sleep", ![w].primed = TRUE,
                ![w].sink = {}, ![w].errors = 0, ![w].conf = found,
                ![w].snap = none, ![w].leases = lapses]
  BY <1>1 DEF JudgeLeases
<1>5. \E x : ghost' = [ghost EXCEPT ![w].again = again, ![w].told = x, ![w].woken = woken]
  <2> DEFINE x == (g.told \union found) \intersect Overlaps(lease, now)
             b == eng[w]
             all == ghost[w]
             f == Overlaps(b.snap, b.at)
             v == Collect(w, {<<"stale", a, b.snap[a].rev>> :
                                a \in {c \in Actors : WorthTelling(w, c)}})
             c == IF b.primed THEN f \ b.conf ELSE {}
             x1 == all.again \union (v \intersect out[w]) \union (c \intersect all.told)
             x2 == (all.told \union f) \intersect Overlaps(lease, now)
             x3 == all.woken \/ v # {} \/ c # {}
  <2>1. ghost' = [ghost EXCEPT ![w].again = x1, ![w].told = x2, ![w].woken = x3]
    BY DEF JudgeLeases
  <2>2. x1 = again /\ x2 = x /\ x3 = woken
    BY <1>1
  <2> HIDE DEF again, x, woken, x1, x2, x3
  <2> QED BY <2>1, <2>2
<1>6. Genuine(events)
  <2> DEFINE f == [a \in Actors |-> <<"stale", a, e.snap[a].rev>>]
  <2>1. stale \subseteq {f[a] : a \in Actors}
    OBVIOUS
  <2>2. f \in [Actors -> {<<"stale", a, e.snap[a].rev>> : a \in Actors}]
    OBVIOUS
  <2>3. \A x \in stale : x[1] # "turn"
    OBVIOUS
  <2> HIDE DEF f, stale
  <2>4. IsFiniteSet({f[a] : a \in Actors})
    BY <2>2, ActorsFinite, ImageIsFinite
  <2>5. IsFiniteSet(stale)
    BY <2>1, <2>4, FS_Subset
  <2>6. Genuine(stale)
    BY <2>3, <2>5, OthersGenuine
  <2> QED BY <1>1, <2>6, CollectGenuine
<1>7. clash = {}
  <2>1. \A a \in Actors : Leased(e.snap[a])
    BY <1>1 DEF OnceInv, Once, LapsesOnce
  <2>2. found = {}
    BY <2>1, NoOverlaps
  <2> QED BY <2>2
<1>8. woken => g.woken \/ events # {}
  BY <1>7
<1> HIDE DEF lapses, found, stale, events, clash, again, woken, none
<1>9. d.pc = "sleep" /\ d.sink = {} /\ d.cur = e.cur
  BY <1>1, <1>2, <1>4, OnceTypes DEF Memory
<1>10. h.rebuilt = g.rebuilt /\ h.again = again /\ h.woken = woken
  BY <1>1, <1>2, <1>5, OnceTypes DEF History
<1>11. NeverRebuilt(d, h)
  BY <1>1, <1>9, <1>10 DEF NeverRebuilt
<1>12. events \intersect o = {}
  <2>1. \A x \in h.again : x \in Repeats(h) \/ ~NobodyClaims
    <3>1. \A x \in ghost'[w].again : x \in Repeats(ghost'[w]) \/ ~NobodyClaims'
      BY DEF OnceInv, Once, EventsOnce, Repeats
    <3>2. NobodyClaims' <=> NobodyClaims
      BY <1>3 DEF NobodyClaims, Does
    <3> QED BY <1>2, <3>1, <3>2
  <2>2. Repeats(h) = {}
    BY <1>11 DEF Repeats, NeverRebuilt
  <2> QED BY <1>10, <2>1, <2>2 DEF again
<1>13. Genuine(p) /\ Genuine(d.sink)
  BY <1>1, <1>3, <1>6, <1>9, GenuineBoth, NoneGenuine
<1>14. Caused(w, h, p)
  <2> DEFINE A == Cardinality(Answers(w))
             n == Cardinality(o)
             m == Cardinality(p)
  <2>1. A \in Nat
    BY AnswersAre DEF WatchInv
  <2>2. /\ n \in Nat /\ m \in Nat /\ n <= m
        /\ events # {} => n + 1 <= m
    <3>1. IsFiniteSet(o) /\ IsFiniteSet(events)
      BY <1>1, <1>6 DEF Genuine
    <3> QED BY <1>3, <1>12, <3>1, PrintedMore
  <2>3. A + (IF g.woken THEN 1 ELSE 0) <= n
    BY <1>1 DEF Caused
  <2> HIDE DEF A, n, m
  <2>4. A <= n /\ (g.woken => A + 1 <= n)
    BY <2>1, <2>2, <2>3
  <2>5. A <= m /\ (woken => A + 1 <= m)
    BY <1>8, <2>1, <2>2, <2>4
  <2>6. A + (IF woken THEN 1 ELSE 0) <= m
    BY <2>1, <2>2, <2>5
  <2> QED BY <1>10, <2>6 DEF Caused, A, m
<1> QED BY <1>2, <1>3, <1>11, <1>13, <1>14, HeardWatcher DEF Heard

LEMMA AnswersCount == StoreTypes => \A w \in Sessions : Cardinality(Answers(w)) \in Nat
BY AnswersAre

(* Steps of the store that no session's turns come of *)
LEMMA QuietHeard ==
  ASSUME WatchInv, WatchInv', NothingRebuilt, HeardInv, Next,
         UNCHANGED <<scene, eng, out, turns>>, SameHistory,
         \A w \in Sessions : ghost'[w].woken = ghost[w].woken,
         \A i \in Incidents : marker[i] \notin {Gone, "empty"} => marker'[i] = marker[i],
         IsFiniteSet({i \in Incidents : marker'[i] # Gone})
  PROVE  HeardInv'
<1>1. \A f \in Sessions : Published(f) \in Nat /\ Published(f) <= Published(f)'
  BY PublishedGrows DEF WatchInv
<1>2. Grown
  BY StoreUnchanged DEF WatchInv
<1>3. \A w \in Sessions : Caused(w, ghost[w], out[w])'
  BY DEF HeardInv, Heard, Caused, Answers, ByPerson
<1> QED BY <1>1, <1>2, <1>3, HeardStore

LEMMA SameWoken ==
  ASSUME WatchInv, UNCHANGED ghost \/ \E ls, t : Lasting(ls, t)
  PROVE  SameHistory /\ \A w \in Sessions : ghost'[w].woken = ghost[w].woken
<1>1. CASE UNCHANGED ghost
  BY <1>1 DEF SameHistory
<1>2. ASSUME NEW ls, NEW t, Lasting(ls, t)
      PROVE  SameHistory /\ \A w \in Sessions : ghost'[w].woken = ghost[w].woken
  <2>1. SameHistory
    BY <1>2, LastingHistory DEF WatchInv
  <2>2. ASSUME NEW w \in Sessions PROVE ghost'[w].woken = ghost[w].woken
    <3>1. /\ ghost[w] \in History
          /\ ghost'[w] = [ghost[w] EXCEPT !.told = @ \intersect Overlaps(ls, t)]
      BY <1>2 DEF WatchInv, WatcherTypes, Lasting
    <3> QED BY <3>1 DEF History
  <2> QED BY <2>1, <2>2
<1> QED BY <1>1, <1>2

LEMMA MarkersHeard ==
  ASSUME WatchInv, HeardInv, NEW i \in Incidents,
         CreateMarker(i) \/ \E ws \in Workstreams \union {NoScope} : WriteMarker(i, ws)
  PROVE  /\ \A j \in Incidents : marker[j] \notin {Gone, "empty"} => marker'[j] = marker[j]
         /\ IsFiniteSet({j \in Incidents : marker'[j] # Gone})
<1> DEFINE M == {j \in Incidents : marker[j] # Gone}
<1>1. marker \in [Incidents -> Workstreams \union {NoScope, "empty", Gone}]
  BY DEF WatchInv, StoreTypes
<1>2. PICK m : marker' = [marker EXCEPT ![i] = m] /\ marker[i] \in {Gone, "empty"}
  BY DEF CreateMarker, WriteMarker
<1>3. IsFiniteSet(M \union {i})
  BY FS_AddElement DEF HeardInv
<1>4. {j \in Incidents : marker'[j] # Gone} \subseteq M \union {i}
  BY <1>1, <1>2
<1>5. IsFiniteSet({j \in Incidents : marker'[j] # Gone})
  BY <1>3, <1>4, FS_Subset
<1> QED BY <1>1, <1>2, <1>5

(* A turn of a person, or the one that answers a wake-up *)
LEMMA TurnHeard ==
  ASSUME WatchInv, WatchInv', NothingRebuilt, HeardInv, Next, NEW s \in Sessions,
         Publish(s) \/ Answer(s)
  PROVE  HeardInv'
<1>1. StoreTypes /\ StoreTypes' /\ ghost \in [Sessions -> History]
  BY DEF WatchInv, WatcherTypes
<1>2. PICK t \in Turn :
        /\ turns' = [turns EXCEPT ![s] = Append(@, t)]
        /\ \/ ByPerson(t) /\ UNCHANGED ghost
           \/ ghost[s].woken /\ ghost' = [ghost EXCEPT ![s].woken = FALSE]
  <2>1. CASE Publish(s)
    <3>1. ByPerson(HumanTurn(s))
      BY DEF ByPerson, HumanTurn
    <3>2. HumanTurn(s) \in Turn
      BY <1>1, <2>1, TurnTypes DEF Publish
    <3> QED BY <2>1, <3>1, <3>2 DEF Publish
  <2>2. CASE Answer(s)
    <3>1. AnswerTurn(s) \in Turn
      BY <1>1, <2>2, TurnTypes DEF Answer
    <3> QED BY <2>2, <3>1 DEF Answer
  <2> QED BY <2>1, <2>2
<1>3. /\ UNCHANGED <<scene, eng, out, marker>> /\ Len(turns[s]) < MaxTurns
      /\ feed' = [feed EXCEPT ![s] = Len(turns[s]) + 1]
      /\ UNCHANGED <<now, faults, member, lease>>
  BY DEF Publish, Answer, Unobserved
<1>4. Grown
  BY <1>1, <1>2, <1>3, AppendStep
<1>5. \A f \in Sessions : Published(f) \in Nat /\ Published(f) <= Published(f)'
  BY <1>1, PublishedGrows
<1>6. IsFiniteSet({i \in Incidents : marker'[i] # Gone})
  BY <1>3 DEF HeardInv
<1>7. SameHistory
  BY <1>1, <1>2 DEF SameHistory, History
<1>8. /\ \A w \in Sessions \ {s} : Answers(w)' = Answers(w)
      /\ Answers(s)' = IF ByPerson(t) THEN Answers(s)
                       ELSE Answers(s) \union {Len(turns[s]) + 1}
      /\ Len(turns[s]) + 1 \notin Answers(s)
  BY <1>1, <1>2, AnswersAppend
<1>9. (StoreTypes => \A w \in Sessions : Cardinality(Answers(w)) \in Nat)'
  BY AnswersCount, PTL
<1>10. ASSUME NEW w \in Sessions PROVE Caused(w, ghost[w], out[w])'
  <2>1. PICK g, o : g \in History /\ g = ghost[w] /\ o = out[w] /\ o = out'[w]
    BY <1>1, <1>3
  <2>2. Caused(w, g, o)
    BY <2>1 DEF HeardInv, Heard
  <2>3. PICK A, B, k : /\ A = Cardinality(Answers(w)) /\ B = Cardinality(Answers(w)')
                       /\ k = Cardinality(o)
    OBVIOUS
  <2>4. A \in Nat /\ B \in Nat /\ k \in Nat /\ IsFiniteSet(Answers(w))
    <3>1. Cardinality(Answers(w)) \in Nat /\ IsFiniteSet(Answers(w))
      BY <1>1, AnswersAre
    <3>2. Cardinality(Answers(w)') \in Nat
      BY <1>1, <1>9
    <3>3. IsFiniteSet(o)
      BY <2>1 DEF HeardInv, Heard, Genuine
    <3> QED BY <2>3, <3>1, <3>2, <3>3, FS_CardinalityType
  <2>5. A + (IF g.woken THEN 1 ELSE 0) <= k
    BY <2>2, <2>3 DEF Caused
  <2>6. B + (IF ghost'[w].woken THEN 1 ELSE 0) <= k
    <3>1. CASE w # s
      <4>1. ghost'[w] = g /\ A = B
        BY <1>1, <1>2, <1>8, <2>1, <2>3, <3>1
      <4> QED BY <2>5, <4>1
    <3>2. CASE w = s /\ ByPerson(t) /\ UNCHANGED ghost
      <4>1. ghost'[w] = g /\ A = B
        BY <1>8, <2>1, <2>3, <3>2
      <4> QED BY <2>5, <4>1
    <3>3. CASE w = s /\ g.woken /\ ghost' = [ghost EXCEPT ![s].woken = FALSE]
      <4>1. ghost'[w].woken = FALSE
        BY <1>1, <3>3 DEF History
      <4>2. Answers(w)' = Answers(w) \/ Answers(w)' = Answers(w) \union {Len(turns[s]) + 1}
        BY <1>8, <3>3
      <4>3. B <= A + 1
        <5>1. CASE Answers(w)' = Answers(w)
          BY <2>3, <2>4, <5>1
        <5>2. CASE Answers(w)' = Answers(w) \union {Len(turns[s]) + 1}
          <6>1. PICK S, x : S = Answers(w) /\ x = Len(turns[s]) + 1
            OBVIOUS
          <6>2. Cardinality(S \union {x}) \in {Cardinality(S), Cardinality(S) + 1}
            BY <2>4, <6>1, FS_AddElement
          <6> QED BY <2>3, <2>4, <5>2, <6>1, <6>2
        <5> QED BY <4>2, <5>1, <5>2
      <4>4. A + 1 <= k
        BY <2>5, <3>3
      <4> QED BY <2>4, <4>1, <4>3, <4>4
    <3> QED BY <1>2, <2>1, <3>1, <3>2, <3>3
  <2>7. Cardinality(Answers(w))' = B /\ Cardinality(out[w])' = k
    BY <2>1, <2>3
  <2> QED BY <2>6, <2>7 DEF Caused
<1> QED BY <1>3, <1>4, <1>5, <1>6, <1>7, <1>10, HeardStore

LEMMA StoreHeard ==
  ASSUME WatchInv, WatchInv', NothingRebuilt, HeardInv, Next,
         Store \/ (\E s \in Sessions : StartAwait(s)) \/ Await \/ FailScan
  PROVE  HeardInv'
<1>1. IsFiniteSet({i \in Incidents : marker[i] # Gone})
  BY DEF HeardInv
<1>2. ASSUME UNCHANGED <<scene, eng, out, turns, marker>>,
             UNCHANGED ghost \/ \E ls, t : Lasting(ls, t)
      PROVE  HeardInv'
  <2>1. SameHistory /\ \A w \in Sessions : ghost'[w].woken = ghost[w].woken
    BY <1>2, SameWoken
  <2>2. IsFiniteSet({i \in Incidents : marker'[i] # Gone})
    BY <1>1, <1>2
  <2> QED BY <1>2, <2>1, <2>2, QuietHeard
<1>3. CASE Tick
  BY <1>2, <1>3 DEF Tick, Unobserved
<1>4. ASSUME NEW s \in Sessions, NEW ws \in Workstreams, Join(s, ws) PROVE HeardInv'
  BY <1>2, <1>4 DEF Join, Unobserved
<1>5. ASSUME NEW s \in Sessions, Publish(s) \/ Answer(s) PROVE HeardInv'
  BY <1>5, TurnHeard
<1>6. ASSUME NEW s \in Sessions PROVE ~DeleteFeed(s) /\ ~Rebuild(s)
  BY DEF NothingRebuilt, DeleteFeed, Rebuild
<1>7. ASSUME NEW s \in Sessions, ResetCursor(s) \/ ReadTurns(s) PROVE HeardInv'
  BY <1>2, <1>7 DEF ResetCursor, ReadTurns, Unobserved
<1>8. ASSUME NEW i \in Incidents, CreateMarker(i) \/ \E ws \in Workstreams \union {NoScope} :
                                                         WriteMarker(i, ws)
      PROVE  HeardInv'
  <2>1. UNCHANGED <<scene, eng, out, turns, ghost>>
    BY <1>8 DEF CreateMarker, WriteMarker, Unobserved
  <2>2. SameHistory /\ \A w \in Sessions : ghost'[w].woken = ghost[w].woken
    BY <2>1, SameWoken
  <2> QED BY <1>8, <2>1, <2>2, MarkersHeard, QuietHeard
<1>9. ASSUME NEW a \in Actors, \/ \E claim, unknown \in BOOLEAN : Renew(a, claim, unknown)
                               \/ GoIdle(a) \/ Reap(a)
      PROVE  HeardInv'
  <2>1. \E l : PutLease(a, l)
    BY <1>9 DEF Renew, GoIdle, Reap
  <2> QED BY <1>2, <2>1 DEF PutLease, Unobserved
<1>10. CASE (\E s \in Sessions : StartAwait(s)) \/ Await \/ FailScan
  BY <1>2, <1>10 DEF StartAwait, Await, FailScan, CheckBound, ReadEpoch, ScanUnread,
                     CheckEpoch, CheckTime, AwaitWakes, Awaiting, store
<1> QED BY <1>3, <1>4, <1>5, <1>6, <1>7, <1>8, <1>9, <1>10 DEF Store

LEMMA NextHeard ==
  ASSUME WatchInv, WatchInv', OnceInv, OnceInv', NobodyClaims, NothingRebuilt, HeardInv, Next
  PROVE  HeardInv'
<1>1. ASSUME NEW w \in Sessions, Poll(w) \/ FailPoll(w) PROVE HeardInv'
  BY <1>1, HeardStill, ScanJoinsHeard, ConsumeFeedHeard, EndFeedsHeard, ScanIncidentsHeard,
     JudgeLeasesHeard DEF Poll
<1> QED BY <1>1, StoreHeard DEF Next

LEMMA HeardSame ==
  ASSUME HeardInv, UNCHANGED <<turns, feed, marker, eng, out, ghost>>
  PROVE  HeardInv'
BY DEF HeardInv, Heard, NeverRebuilt, Genuine, Caused, Answers, ByPerson, Published

(* Nobody claims a path and no feed is written again. *)
Plain == NobodyClaims /\ NothingRebuilt

LEMMA PagesNextHeard ==
  ASSUME PagesInv, PagesInv', OnceInv, OnceInv', Plain => HeardInv, [PagesNext]_allVars
  PROVE  (Plain => HeardInv)'
<1>1. WatchInv /\ WatchInv' /\ Places /\ Places'
  BY DEF PagesInv, StoreOk
<1>2. CASE Pager
  <2>1. Paging
    BY <1>2 DEF Pager, Start, ReadFeed, ShowContext, BeginPage, ReadPinned, ListPage,
                FirstRecordPage, NextRecordPage, EvidencePage, ListStage, ReadHealthFile, EndStage
  <2> QED BY <2>1, HeardSame DEF Paging, store, Plain, NobodyClaims, NothingRebuilt, Does
<1>3. CASE UNCHANGED vars
  BY <1>3, HeardSame DEF vars, store, Plain, NobodyClaims, NothingRebuilt, Does
<1>4. CASE Next
  <2>1. scene' = scene
    BY <1>1, <1>4, WatchSteps DEF WatchInv, Quiet, Again, Anew, Deleted, Stays
  <2> QED BY <1>1, <1>4, <2>1, NextHeard DEF Plain, NobodyClaims, NothingRebuilt, Does
<1> QED BY <1>2, <1>3, <1>4 DEF PagesNext, StoreStep, WritePart, HealTail, allVars

LEMMA InitHeard == Init => HeardInv
<1> SUFFICES ASSUME Init PROVE HeardInv
  OBVIOUS
<1>1. IsFiniteSet({}) /\ Cardinality({}) = 0
  BY FS_EmptySet
<1>2. {i \in Incidents : marker[i] # Gone} = {}
  BY DEF Init
<1>3. ASSUME NEW w \in Sessions PROVE Heard(w, eng[w], ghost[w], out[w])
  <2>1. PICK e, g, o : e = eng[w] /\ g = ghost[w] /\ o = out[w]
    OBVIOUS
  <2>2. /\ e.pc = "start" /\ e.cur = [s \in Sessions |-> 0] /\ e.sink = {}
        /\ g.rebuilt = {} /\ g.woken = FALSE /\ o = {}
    BY <2>1 DEF Init
  <2>3. \A s \in Sessions : feed[s] = Gone
    BY DEF Init
  <2>4. NeverRebuilt(e, g)
    BY <2>2, <2>3 DEF NeverRebuilt, Published
  <2>5. Answers(w) = {}
    <3>1. turns[w] = <<>>
      BY DEF Init
    <3> QED BY <3>1 DEF Answers
  <2>6. Caused(w, g, o)
    BY <1>1, <2>2, <2>5 DEF Caused
  <2> QED BY <2>1, <2>2, <2>4, <2>6, NoneGenuine DEF Heard
<1> QED BY <1>1, <1>2, <1>3 DEF HeardInv

LEMMA HeardImplies == WatchInv /\ HeardInv => AnswersBounded
<1> SUFFICES ASSUME WatchInv, HeardInv, NEW w \in scene.watchers
             PROVE  Cardinality({n \in DOMAIN turns[w] : ~ByPerson(turns[w][n])})
                      <= Cardinality({x \in out[w] :
                            x[1] = "turn" => ByPerson(turns[x[2]][x[3]])})
  BY DEF AnswersBounded
<1>1. w \in Sessions
  BY WatchAssumption DEF WatchInv, StoreTypes, Scene
<1>2. Genuine(out[w]) /\ Caused(w, ghost[w], out[w])
  BY <1>1 DEF HeardInv, Heard
<1>3. ASSUME NEW x \in out[w], x[1] = "turn" PROVE ByPerson(turns[x[2]][x[3]])
  <2>1. x \in Events
    BY <1>1 DEF WatchInv, WatcherTypes
  <2>2. x = <<"turn", x[2], x[3]>> /\ x[2] \in Sessions /\ x[3] \in 1..MaxTurns
    BY <1>3, <2>1 DEF Events
  <2> QED BY <1>2, <1>3, <2>2 DEF Genuine
<1>4. {x \in out[w] : x[1] = "turn" => ByPerson(turns[x[2]][x[3]])} = out[w]
  BY <1>3
<1>5. Cardinality(Answers(w)) <= Cardinality(out[w])
  <2>1. Cardinality(Answers(w)) \in Nat /\ Cardinality(out[w]) \in Nat
    BY <1>1, <1>2, AnswersAre, FS_CardinalityType DEF WatchInv, Genuine
  <2> QED BY <1>2, <2>1 DEF Caused
<1> QED BY <1>4, <1>5 DEF Answers

(* Where nobody claims a path and no feed is written again, sessions that watch
   each other do not answer each other's answers: what a session wrote without
   a person is no more than what its watcher printed of what people and the
   store did. *)
THEOREM AnswersAreBounded ==
    PagesSpec => [](NobodyClaims /\ NothingRebuilt => AnswersBounded)
<1>1. PagesInit => (Plain => HeardInv)
  BY InitHeard DEF PagesInit
<1>2. PagesInv /\ PagesInv' /\ OnceInv /\ OnceInv' /\ (Plain => HeardInv) /\ [PagesNext]_allVars
         => (Plain => HeardInv)'
  BY PagesNextHeard
<1>3. PagesInv /\ (Plain => HeardInv) => (NobodyClaims /\ NothingRebuilt => AnswersBounded)
  BY HeardImplies DEF PagesInv, StoreOk, Plain
<1>4. PagesSpec => [](Plain => HeardInv)
  BY <1>1, <1>2, OnceAlways, PTL DEF PagesSpec
<1> QED BY <1>3, <1>4, OnceAlways, PTL

=============================================================================
